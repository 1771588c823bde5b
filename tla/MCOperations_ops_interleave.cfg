SPECIFICATION Spec
CONSTANTS
  None = None
  Apps = {a, b}
  Handlers = {h, g}
  Requests = {"action", "install", "cancel", "uninstall"}
  Direct = {}
  Lookalikes = {}
  InitPhases = {"NotInstalled"}
  Aborts = FALSE
  BadParams = FALSE
  MaxOps = 2
  MaxCrashes = 0
SYMMETRY Symmetry
INVARIANT SlotOwner
INVARIANT SlotServed
