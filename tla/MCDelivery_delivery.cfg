SPECIFICATION DeliverySpec
CONSTANTS
  a = a
  b = b
  c = c
  w = w
  x = x
  y = y
  NoId = NoId
  Ids = {a, b, c, w, x, y}
  Size <- OneByte
  MaxEvents = 2
  MaxBytes = 9
  MaxLines = 2
  IdOf <- TwoLines
  CollisionWindow = 1
  HookIds = {w}
  Invalid = {}
  BatchMax = 2
  MaxCrashes = 1
PROPERTIES  RoomyLinesSettled
CHECK_DEADLOCK FALSE
