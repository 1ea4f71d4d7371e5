SPECIFICATION Spec
CONSTANTS
  AddrLists <- MCAddrLists
  Platforms = {"unix"}
  MaxPieces = 2
  Nothing = Nothing
INVARIANT
  DocErrorClass
CHECK_DEADLOCK FALSE
