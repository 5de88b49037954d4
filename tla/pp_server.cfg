\* A permissive opaque server with two clients, IPv4 and IPv6
SPECIFICATION Spec
CONSTANTS
  host = host
  remote = remote
  group = group
  everyone = everyone
  nobody = nobody
  hostMac = hostMac
  proxyMac = proxyMac
  peerMac = peerMac
  bcMac = bcMac
  c1 = c1
  c2 = c2
  IPs <- MCIPs
  ValidIPs <- MCValid
  MulticastIPs <- MCMulticast
  Macs <- MCMacs
  Broadcast = bcMac
  Conns = {c1, c2}
  NoConn = NoConn
  AllClients = AllClients
  ThisNode <- PermissiveServer
  InactiveIPTimeout = 1
  MacResolutionTimeout = 1
  Captured <- MixedCaptured
  Received <- MixedReceived
  CountWidth = 4
  InitialCounts = {0, 3}
  MaxRing = 1
  MaxQueue = 1
INVARIANTS
  TypeOK
  PendingOnlyUnknown
  RemoteHostsMasked
PROPERTIES
  UnresolvedIsAskedOnce
