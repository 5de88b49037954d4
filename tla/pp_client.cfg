\* An opaque client: the queue, and liveness under fairness
SPECIFICATION FairSpec
CONSTANTS
  host = host
  remote = remote
  group = group
  everyone = everyone
  nobody = nobody
  hostMac = hostMac
  proxyMac = proxyMac
  peerMac = peerMac
  bcMac = bcMac
  c1 = c1
  c2 = c2
  IPs <- MCIPs
  ValidIPs <- MCValid
  MulticastIPs <- MCMulticast
  Macs <- MCMacs
  Broadcast = bcMac
  Conns = {c1}
  NoConn = NoConn
  AllClients = AllClients
  ThisNode <- OpaqueClient
  InactiveIPTimeout = 1
  MacResolutionTimeout = 1
  Captured <- LiveCaptured
  Received <- LiveReceived
  CountWidth = 4
  InitialCounts = {0, 1, 2, 3}
  MaxRing = 1
  MaxQueue = 2
INVARIANTS
  WakeupMatchesQueue
PROPERTIES
  QueuedIsCounted
  BuffersAreDecoded
  RequestsExpireUnderTraffic
