\* An opaque server without -p and two clients that restart
SPECIFICATION FairSpec
CONSTANTS
  s = s
  a = a
  b = b
  hs = hs
  ha = ha
  hb = hb
  nobody = nobody
  macS = macS
  macA = macA
  macB = macB
  mhs = mhs
  mha = mha
  mhb = mhb
  bcMac = bcMac
  IPs = {hs, ha, hb, nobody}
  ValidIPs = {hs, ha, hb}
  MulticastIPs = {}
  Macs <- MCMacs
  Broadcast = bcMac
  Conns <- MCConns
  NoConn = NoConn
  AllClients = AllClients
  Server = s
  Clients = {a, b}
  NodeMac <- MCNodeMac
  Permissive = FALSE
  Home <- MCHome
  HostMac <- MCHostMac
  Traffic <- Segmented
  MaxFaults = 1
  MaxInTransit = 2
INVARIANTS
  RoutesAreTrue
  PacketsReachTheirHost
  ClientsAreSegmented
PROPERTIES
  PacketsGetThrough
