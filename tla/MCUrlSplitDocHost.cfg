SPECIFICATION Spec
CONSTANTS
  Schemes = {"https://", "http://"}
  Texts <- MCTexts
  Nothing = Nothing
INVARIANT
  DocValidHost
CHECK_DEADLOCK FALSE
