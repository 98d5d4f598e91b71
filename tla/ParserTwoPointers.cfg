CONSTANTS
  x = x
  p = p
  y = y
  Name = {x, p, y}
  NoName = none
  Inputs <- PointerSumInputs
SPECIFICATION Spec
INVARIANTS
  TwoPointersAreTwo
CHECK_DEADLOCK FALSE
