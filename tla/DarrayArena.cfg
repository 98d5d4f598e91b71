CONSTANTS
  a1 = a1
  a2 = a2
  b1 = b1
  b2 = b2
  NoArray = none
  Array = {a1, a2}
  Allocator = "ARENA"
  MemSize = 56
  Align = 1
  NodeSize = 16
  Byte = {b1, b2}
  Payload <- Payloads
  Reserved = {18}
  ItemSizes = {}
  CopyOrders = {"forward"}
SPECIFICATION Spec
INVARIANTS
  TypeOK
  BlocksApart
  CountsFit
  NodesKept
PROPERTIES
  IsByteSeq
CHECK_DEADLOCK FALSE
