SPECIFICATION Spec
CONSTANTS
  s1 = s1
  s2 = s2
  t1 = t1
  t2 = t2
  t3 = t3
  NoServer = NoServer
  Servers <- OneServer
  Threads <- TwoThreads
  MaxConnectionPoolSize = 1
  MaxConns = 2
  ServerLists <- DirectLists
  SsrServers <- OneServer
  NoWait <- Nobody
  Deadline <- Nobody
  Events <- AgeOnly
INVARIANT WaiterHasNotifier
