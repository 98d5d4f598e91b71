CONSTANTS
  x = x
  p = p
  y = y
  Name = {x, p, y}
  NoName = none
  Inputs <- PointerInputs
SPECIFICATION Spec
INVARIANTS
  NegativeCharIsChar
CHECK_DEADLOCK FALSE
