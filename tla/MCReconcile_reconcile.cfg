SPECIFICATION FairSpec
CONSTANTS
  MaxIds = 5
  Scenes <- AllScenes
  MaxEdits = 1
CHECK_DEADLOCK FALSE
INVARIANT NoOrphans
 
PROPERTY RolloutServes
PROPERTY GuardsHold
PROPERTY Converges
