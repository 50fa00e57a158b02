SPECIFICATION FairSpec
CONSTANTS
  s1 = s1
  s2 = s2
  t1 = t1
  t2 = t2
  t3 = t3
  NoServer = NoServer
  Servers <- TwoServers
  Threads <- ThreeThreads
  MaxConnectionPoolSize = 1
  MaxConns = 2
  ServerLists <- ReadWriteLists
  SsrServers <- OneServer
  NoWait <- SecondThread
  Deadline <- FirstThread
  Events <- NoFaults
INVARIANT WaiterHasNotifier
PROPERTY EveryWaiterIsServed
