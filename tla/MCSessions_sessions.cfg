SPECIFICATION FairSpec
CONSTANTS
  None = None
  MaxForwards = 3
  MaxShells = 1
  MaxConns = 2
  KeySpace = 2
  Scenes <- AllScenes
CHECK_DEADLOCK FALSE
INVARIANT RegistryTrue
PROPERTY SessionsEnd
PROPERTY StraysGone
