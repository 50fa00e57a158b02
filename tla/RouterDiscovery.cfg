SPECIFICATION FairSpec
CONSTANTS
  t1 = t1
  t2 = t2
  t3 = t3
  alice = alice
  bob = bob
  shared = shared
  bobs = bobs
  r1 = r1
  r2 = r2
  r3 = r3
  Home = Home
  Threads <- TwoThreads
  Users <- OneUser
  Databases <- OneDatabase
  HomeDbs <- HomeOfAlice
  Selections <- NameOnly
  Servers <- TwoServers
  RootRouter = r1
  CustomRouters <- CustomR2
  Contents <- SmallTables
  MissingRetries = 2
  MaxTables = 1
  Events <- Unreliable
INVARIANT FallsBackToRoot
PROPERTY EveryWaiterWakes
