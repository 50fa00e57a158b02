SPECIFICATION Spec
CONSTANTS
  s1 = s1
  s2 = s2
  t1 = t1
  t2 = t2
  t3 = t3
  NoServer = NoServer
  Servers <- TwoServers
  Threads <- TwoThreads
  MaxConnectionPoolSize = 2
  MaxConns = 2
  ServerLists <- RoutedLists
  SsrServers <- OneServer
  NoWait <- Nobody
  Deadline <- Nobody
  Events <- Faults
SYMMETRY ThreadSymmetry
INVARIANTS TypeOK NoConnectionLost ReservationsExact SsrCountsExact
PROPERTIES ImplementsLending NoStaleReturn
