SPECIFICATION FairSpec
CONSTANTS
  Requested = {60}
  AnnounceStatuses = {0}
  U32Max = 255
  FailsCap = 7
  MaxVersion = 2
  Absent = Absent
  TagOf <- MCTagOf
  StampOf <- MCStampOf
  Refusable = {"host_request"}
INVARIANTS
  TypeOK
  PushesWhatWasServed
  SpansWellNested
  SpansEndInTime
  StatusesTellTheTruth
PROPERTIES
  ImplementsFeed
  Converges
