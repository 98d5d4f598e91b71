CONSTANTS
  Char <- MCChar
  Buffers <- WordBuffers
SPECIFICATION Spec
INVARIANT WholeWords
CHECK_DEADLOCK FALSE
