CONSTANTS
  x = x
  p = p
  y = y
  Name = {x, p, y}
  NoName = none
  Inputs <- UndeclaredInputs
SPECIFICATION Spec
INVARIANTS
  AssignedIsDeclared
CHECK_DEADLOCK FALSE
