----------------------------- MODULE MCSession ------------------------------
(* An instance of Session for TLC *)
EXTENDS Session, TLC

CONSTANTS s1, s2, neo4j, movies

TwoSessions == {s1, s2}
TwoDatabases == {neo4j, movies}

Scenario(managed, cache, first, second) ==
    [home |-> neo4j, managed |-> managed, cached |-> cache, direct |-> FALSE,
     calls |-> s1 :> first @@ s2 :> second]

SmallScenarios ==
    {Scenario({s1, s2}, NoDb, <<"managed", "managed">>, <<"managed">>),
     Scenario({s1}, movies, <<"run", "managed">>, <<"info">>),
     Scenario({s2}, NoDb, <<"run">>, <<"query">>),
     Scenario({}, movies, <<"begin", "run", "close">>, << >>),
     Scenario({}, neo4j, << >>, <<"run", "run", "begin", "close">>),
     [Scenario({}, NoDb, << >>, <<"begin", "run", "close">>) EXCEPT !.direct = TRUE]}
=============================================================================
