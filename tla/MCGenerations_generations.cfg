SPECIFICATION Spec
CONSTANTS
  None = None
  d1 = d1
  d2 = d2
  level = level
  mode = mode
  Handlers = {h, g}
  Defs = {d1, d2}
  Params = {level, mode}
  Values = {1}
  Broken <- NoMode
  OnChange <- HandledLevel
  MaxGen = 3
  MaxCrashes = 1
SYMMETRY Symmetry
CHECK_DEADLOCK FALSE
INVARIANT Agreement
PROPERTY HistoryTells
