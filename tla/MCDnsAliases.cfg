SPECIFICATION FairSpec
CONSTANTS
  h1 = h1
  h2 = h2
  h3 = h3
  h4 = h4
  h5 = h5
  ip1 = ip1
  ip2 = ip2
  ip3 = ip3
  NoTtl = NoTtl
  Nothing = Nothing
  Names = {h1, h2, h3, h4, h5}
  Hosts = {h1}
  AddrLists <- MCAddrLists
  Ttls = {60}
  Ticks <- AliasTicks
  Zones <- LineZones
INVARIANTS
  FailsOnlyWhenUnresolvable
  QueriesBounded
  OnlyHostsCached
PROPERTY
  ResolveReturns
