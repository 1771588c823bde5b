SPECIFICATION FairSpec
CONSTANTS
  Tick = Tick
  App = App
  Legacy = Legacy
  Confirmed = Confirmed
  Strayed = Strayed
  Lost = Lost
  None = None
  Handlers = {1, 2}
  Sites = {s, r}
  Reserved = {r}
  Tokens = {1, 2}
  MaxHeld = 4
  MaxUpsets = 1
  Scenes <- AllScenes
CHECK_DEADLOCK FALSE
INVARIANT NoDataLost
INVARIANT Listed
PROPERTY ComesUp
