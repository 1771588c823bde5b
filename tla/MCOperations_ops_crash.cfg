SPECIFICATION Spec
CONSTANTS
  None = None
  Apps = {a, b}
  Handlers = {h}
  Requests = {"action", "install", "cancel", "uninstall"}
  Direct = {}
  Lookalikes = {a, b}
  InitPhases = {"NotInstalled", "Installed"}
  Aborts = FALSE
  BadParams = FALSE
  MaxOps = 2
  MaxCrashes = 2
SYMMETRY Symmetry
INVARIANT NoRerun
INVARIANT CancelScoped
INVARIANT CancelKept
INVARIANT NoStuckInstalling
INVARIANT StoredSuffices
