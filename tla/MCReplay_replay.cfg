SPECIFICATION FairSpec
CONSTANTS
  None = None
  j = j
  d = d
  Resources = {j, d}
  Dynamic = {j}
  Install = FALSE
  Scripts <- AllScripts
  Answers = {0, 1}
  MaxAge = 2
  MaxBumps = 1
  MaxCrashes = 1
CHECK_DEADLOCK FALSE
INVARIANT EffectsKept
INVARIANT NoOrphans
INVARIANT NoLostWakeup
PROPERTY ReplayFaithful
PROPERTY BarrierHolds
PROPERTY Ledger
PROPERTY Ends
PROPERTY CancelHeard
