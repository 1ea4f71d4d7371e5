SPECIFICATION Spec
CONSTANTS
  AddrLists <- MCAddrLists
  Platforms = {"unix", "windows", "wasi"}
  MaxPieces = 2
  Nothing = Nothing
INVARIANTS
  TypeOK
  AllTriedBeforeError
  ResponseFromOneServer
  ConnectionsEnded
CHECK_DEADLOCK FALSE
