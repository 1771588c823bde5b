SPECIFICATION FairSpec
CONSTANTS
  None = None
  Apps = {a, b}
  Handlers = {h}
  Requests = {"install", "cancel"}
  Direct = {}
  Lookalikes = {a}
  InitPhases = {"NotInstalled"}
  Aborts = FALSE
  BadParams = FALSE
  MaxOps = 2
  MaxCrashes = 1
PROPERTY CancelEnds
PROPERTY TeardownEnds
PROPERTY HandOver
