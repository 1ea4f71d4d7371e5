SPECIFICATION Spec
CONSTANTS
  Ops = {"https_get", "tcp_connect"}
  Tags = {1, 2}
  Statuses <- MCStatuses
  WireVersions = {1, 2}
  Idle = Idle
INVARIANTS
  TypeOK
  HonestBridgeDelivers
PROPERTY
  ImplementsHostCall
