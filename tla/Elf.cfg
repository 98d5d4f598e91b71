CONSTANTS
  TextSizes <- MCTextSizes
  NameLengths <- MCNameLengths
  StartAddr = 4096
SPECIFICATION Spec
INVARIANTS
  TypeOK
  HeadersAgree
  SectionsAgree
CHECK_DEADLOCK FALSE
