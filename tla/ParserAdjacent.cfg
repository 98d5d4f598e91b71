CONSTANTS
  x = x
  p = p
  y = y
  Name = {x, p, y}
  NoName = none
  Inputs <- AdjacentInputs
SPECIFICATION Spec
INVARIANTS
  AdjacentLiteralsFail
CHECK_DEADLOCK FALSE
