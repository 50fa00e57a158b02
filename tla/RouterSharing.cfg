SPECIFICATION Spec
CONSTANTS
  t1 = t1
  t2 = t2
  t3 = t3
  alice = alice
  bob = bob
  shared = shared
  bobs = bobs
  r1 = r1
  r2 = r2
  r3 = r3
  Home = Home
  Threads <- TwoThreads
  Users <- TwoUsers
  Databases <- TwoDatabases
  HomeDbs <- HomesPerUser
  Selections <- NameAndGuess
  Servers <- OneServer
  RootRouter = r1
  CustomRouters <- NoRouters
  Contents <- OneServerTables
  MissingRetries = 2
  MaxTables = 2
  Events <- Invalidating
SYMMETRY ThreadSymmetry
INVARIANTS TypeOK SingleFlight HomeDbIsPerUser
PROPERTY RetryRefreshes
