CONSTANTS
  Char <- MCChar
  Buffers <- MCBuffers
SPECIFICATION Spec
INVARIANTS
  TypeOK
  ParserInput
  RoomForTokens
  LinesCounted
  StopsInBuffer
  LongestMatch
PROPERTIES
  Terminates
CHECK_DEADLOCK FALSE
