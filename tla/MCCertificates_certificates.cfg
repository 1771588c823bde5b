SPECIFICATION FairSpec
CONSTANTS
  None = None
  Life = 6
  Debounce = 1
  Start = 5
  MaxTime = 7
  MaxCerts = 3
  MaxEdits = 1
  MaxCrashes = 1
  Policies = {"default", "canopy", "acme"}
  Worlds = {"canopy"}
CHECK_DEADLOCK FALSE
INVARIANT OneOrder
INVARIANT FallsThroughInTime
PROPERTY LateAnswersHarmless
PROPERTY PassesOn
PROPERTY RevocationHeard
