CONSTANTS
  x = x
  p = p
  y = y
  a = a
  b = b
  c = c
  har = har
  Name = {x, p, y, a, b, c, har}
  NoName = none
  Inputs <- PrintInputs
SPECIFICATION PrintSpec
INVARIANTS
  TypeOK
  StackOK
  OrderedTree
  IdentTypesAgree
  LiteralEncoding
  PointerOperands
  SentinelKept
  AstComplete
  MembersKept
  NodesExist
  ShownOnce
  EchoesNames
PROPERTIES
  ChildrenStay
  FirstDeclarationWins
  StepsAreSpent
  Ends
CHECK_DEADLOCK FALSE
