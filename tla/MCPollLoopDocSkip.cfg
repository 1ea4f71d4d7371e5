SPECIFICATION Spec
CONSTANTS
  Requested <- MCRequested
  AnnounceStatuses <- MCAnnounce
  U32Max = 255
  MaxVersion = 2
  FailsCap = 7
INVARIANT
  DocSkipOnlyOnRequest
