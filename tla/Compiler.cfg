CONSTANTS
  Char <- MCChar
  Files <- MCFiles
  Typed <- MCTyped
  LineSize <- MCLineSize
  Garbage <- MCGarbage
SPECIFICATION Spec
INVARIANTS
  TypeOK
  HandedOver
  LineScannedAlone
  FileScanStops
  ExamplesCompile
PROPERTIES
  Terminates
CHECK_DEADLOCK FALSE
