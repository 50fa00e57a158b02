SPECIFICATION Spec
CONSTANTS
  s1 = s1
  s2 = s2
  t1 = t1
  t2 = t2
  t3 = t3
  NoServer = NoServer
  Servers <- OneServer
  Threads <- ThreeThreads
  MaxConnectionPoolSize = 1
  MaxConns = 1
  ServerLists <- DirectLists
  SsrServers <- OneServer
  NoWait <- Nobody
  Deadline <- Nobody
  Events <- CloseOnly
PROPERTY CloseWakesWaiters
