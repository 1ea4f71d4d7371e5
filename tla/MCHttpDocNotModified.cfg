SPECIFICATION Spec
CONSTANTS
  Nothing = Nothing
  BufLen = 4
  UsizeMax = 255
  MaxPieces = 1
  Messages <- NotModifiedMessages
INVARIANT
  DocNotModified
CHECK_DEADLOCK FALSE
