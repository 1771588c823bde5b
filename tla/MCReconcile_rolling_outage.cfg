SPECIFICATION Spec
CONSTANTS
  MaxIds = 5
  Scenes <- Rollout
  MaxEdits = 1
CHECK_DEADLOCK FALSE
PROPERTY NoOutage
