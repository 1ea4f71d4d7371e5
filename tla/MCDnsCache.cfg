SPECIFICATION Spec
CONSTANTS
  h1 = h1
  h2 = h2
  h3 = h3
  h4 = h4
  h5 = h5
  ip1 = ip1
  ip2 = ip2
  ip3 = ip3
  NoTtl = NoTtl
  Nothing = Nothing
  Names = {h1, h2}
  Hosts = {h1, h2}
  AddrLists <- MCAddrLists
  Ttls <- MCTtls
  Ticks <- CacheTicks
  Zones <- PairZones
INVARIANTS
  TypeOK
  FreshOnceSettled
PROPERTY
  LookupSpacing
