CONSTANTS
  a1 = a1
  a2 = a2
  b1 = b1
  b2 = b2
  NoArray = none
  Array = {a1}
  Allocator = "DUMB"
  MemSize = 32
  Align = 8
  NodeSize = 16
  Byte = {b1, b2}
  Payload <- ShortPayloads
  Reserved = {12}
  ItemSizes = {3}
  CopyOrders = {"forward", "backward"}
SPECIFICATION Spec
PROPERTIES
  IsByteSeq
  RemovedAsAsked
  CallsEnd
CHECK_DEADLOCK FALSE
