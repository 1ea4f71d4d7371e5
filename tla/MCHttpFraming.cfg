SPECIFICATION Spec
CONSTANTS
  Nothing = Nothing
  BufLen = 4
  UsizeMax = 255
  MaxPieces = 4
  Messages <- AllMessages
INVARIANTS
  TypeOK
  CompleteOrError
  StopsAtEnd
  FragmentationIndependent
  LengthAgreesWithParse
CHECK_DEADLOCK FALSE
