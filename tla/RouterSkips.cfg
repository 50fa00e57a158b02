SPECIFICATION Spec
CONSTANTS
  t1 = t1
  t2 = t2
  t3 = t3
  alice = alice
  bob = bob
  shared = shared
  bobs = bobs
  r1 = r1
  r2 = r2
  r3 = r3
  Home = Home
  Threads <- OneThread
  Users <- OneUser
  Databases <- OneDatabase
  HomeDbs <- HomeOfAlice
  Selections <- NameOnly
  Servers <- ThreeServers
  RootRouter = r1
  CustomRouters <- NoRouters
  Contents <- ThreeRouters
  MissingRetries = 2
  MaxTables = 1
  Events <- Dial
PROPERTY KnownRoutersAllAsked
