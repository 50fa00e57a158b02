SPECIFICATION FairSpec
CONSTANTS
  s1 = s1
  s2 = s2
  neo4j = neo4j
  movies = movies
  Sessions <- TwoSessions
  Databases <- TwoDatabases
  Conns = {1, 2}
  Scenarios <- SmallScenarios
  MaxDeadConnections = 1
INVARIANTS TypeOK ConnectionsAccounted OpenResultsHaveConnections CommitsAtMostOnce CausalChain NoBookmarkLost OneDatabase
PROPERTIES EveryCallReturns
CHECK_DEADLOCK FALSE
