SPECIFICATION Spec
CONSTANTS
  None = None
  Apps = {a, b}
  Handlers = {h}
  Requests = {"action", "install", "param", "cancel", "uninstall", "deregister", "register"}
  Direct = {a}
  Lookalikes = {a}
  InitPhases = {"NotInstalled", "Installed"}
  Aborts = TRUE
  BadParams = TRUE
  MaxOps = 2
  MaxCrashes = 1
INVARIANT TypeOK
INVARIANT QueueDiscipline
