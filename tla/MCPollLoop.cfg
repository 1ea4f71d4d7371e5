SPECIFICATION FairSpec
CONSTANTS
  Requested <- MCRequested
  AnnounceStatuses <- MCAnnounce
  U32Max = 255
  MaxVersion = 2
  FailsCap = 7
INVARIANTS
  TypeOK
  PollSpacing
  BoundedSilence
  BackoffDoubles
  EveryPayloadSettled
PROPERTIES
  ImplementsFeed
  Converges
