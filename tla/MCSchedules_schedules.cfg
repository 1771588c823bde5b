SPECIFICATION Spec
CONSTANTS
  None = None
  Never = Never
  a = a
  b = b
  r1 = r1
  r2 = r2
  Apps = {a, b}
  Rows = {r1, r2}
  RowApp <- TwoRows
  Period = 2
  InitStamps = {5}
  MaxTime = 8
  MaxOps = 3
  MaxCrashes = 1
INVARIANT StampedFiresOnce
PROPERTY CaughtUp
