SPECIFICATION Spec
CONSTANTS
  a = a
  b = b
  c = c
  w = w
  x = x
  y = y
  NoId = NoId
  Ids = {a, b, c, w, x, y}
  Size <- MixedBytes
  MaxEvents = 2
  MaxBytes = 4
  MaxLines = 3
  IdOf <- ThreeLines
  CollisionWindow = 1
  HookIds = {w}
  Invalid = {b}
  BatchMax = 2
  MaxCrashes = 1
INVARIANTS LossOnlyByAbandonedWait QueueBounded QueueBytesBounded
PROPERTY BooksHonest
CHECK_DEADLOCK FALSE
