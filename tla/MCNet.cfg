\* One call after another, and few frames: enough for a late answer of the
\* first call to meet the second.
CONSTANTS
  None = None
  Broadcast = Broadcast
  gateway = gateway
  web = web
  other = other
  dhcpIp = dhcpIp
  fallbackIp = fallbackIp
  Hosts = {gateway, web, other}
  Offers <- MCOffers
  Fallback <- MCFallback
  n1 = n1
  n2 = n2
  Names = {n1, n2}
  Address <- MCAddress
  Background <- MCBackground
  Garbage <- MCGarbage
  CacheSize = 2
  Retries = 2
  Polls = 1
  RxSize = 1
  RingSize = 4
  Space = 6
  Lag = 1
  MaxFrames = 5
  MaxCalls = 2
SPECIFICATION Spec
INVARIANTS
  TypeOK
  NeverReadsStale
  CacheTruthful
  OwnConnection
PROPERTIES
  AddressStable
  CallsReturn
\* After MaxCalls and MaxFrames the model has nothing left to do.
CHECK_DEADLOCK FALSE
