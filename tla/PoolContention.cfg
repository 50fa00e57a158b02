SPECIFICATION Spec
CONSTANTS
  s1 = s1
  s2 = s2
  t1 = t1
  t2 = t2
  t3 = t3
  NoServer = NoServer
  Servers <- OneServer
  Threads <- ThreeThreads
  MaxConnectionPoolSize = 2
  MaxConns = 3
  ServerLists <- DirectLists
  SsrServers <- OneServer
  NoWait <- Nobody
  Deadline <- Nobody
  Events <- Ending
SYMMETRY ThreadSymmetry
INVARIANTS PoolBounded ExclusiveLoan QueueConsistent NoIdleAfterClose
