\* Two clients and up to two workers, under fair threads
SPECIFICATION FairSpec
CONSTANTS
  a = a
  b = b
  w1 = w1
  w2 = w2
  Clients <- TwoClients
  Workers <- TwoWorkers
  FirstWorker = w1
  MaxThreadPoolSize = 2
  InactiveClientTimeout = 1
  None = None
  MaxBuffers = 2
  MaxMessages <- Messages
  MaxWork = 4
INVARIANTS
  DescriptorMatchesQueue
  PoolMatchesClients
PROPERTIES
  BroadcastReachesAll
  OutgoingChannel
  QueuedIsSent
  IncomingChannel
