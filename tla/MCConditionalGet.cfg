SPECIFICATION Spec
CONSTANTS
  MaxVersion = 3
  Absent = Absent
  TagOf <- MCTagOf
  StampOf <- MCStampOf
INVARIANTS
  TypeOK
  Coherent
  UpToDate
PROPERTY
  NotModifiedKeepsValidators
