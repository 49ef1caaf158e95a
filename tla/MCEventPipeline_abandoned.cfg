SPECIFICATION Spec
CONSTANTS
  a = a
  b = b
  c = c
  w = w
  x = x
  y = y
  NoId = NoId
  Ids = {a, b, c, w, x, y}
  Size <- OneByte
  MaxEvents = 2
  MaxBytes = 9
  MaxLines = 2
  IdOf <- TwoLines
  CollisionWindow = 1
  HookIds = {w, x, y}
  Invalid = {}
  BatchMax = 2
  MaxCrashes = 0
INVARIANT NoLineBehindSavedPosition
CHECK_DEADLOCK FALSE
