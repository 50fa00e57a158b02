------------------------------ MODULE MCRouter ------------------------------
(* Small instances of Router for TLC.                                      *)
EXTENDS Router, TLC

CONSTANTS t1, t2, t3, alice, bob, shared, bobs, r1, r2, r3

TwoThreads   == {t1, t2}
ThreeThreads == {t1, t2, t3}
OneThread    == {t1}
OneUser      == {alice}
TwoUsers     == {alice, bob}
OneDatabase  == {shared}
TwoDatabases == {shared, bobs}
OneServer    == {r1}
TwoServers   == {r1, r2}
ThreeServers == {r1, r2, r3}

\* The home of alice is the shared database, that of bob is another one.
HomesPerUser == (alice :> {shared}) @@ (bob :> {bobs})
HomeOfAlice  == alice :> {shared}

\* The shared database by name, and as the stale guess of bob.
NameAndGuess == {[name |-> shared, guess |-> FALSE, user |-> alice],
                 [name |-> shared, guess |-> TRUE, user |-> bob]}
NameOnly == {[name |-> shared, guess |-> FALSE, user |-> alice]}

NoRouters  == <<>>
CustomR2   == <<r2>>

\* A complete table, and one from an election: no writers, or nothing at all.
SmallTables == {[routers |-> <<r1, r2>>, readers |-> {r2}, writers |-> {r1}],
                [routers |-> <<r2>>, readers |-> {}, writers |-> {}]}
OneServerTables == {[routers |-> <<r1>>, readers |-> {r1}, writers |-> {r1}],
                    [routers |-> <<r1>>, readers |-> {}, writers |-> {}]}
ThreeRouters == {[routers |-> <<r1, r2, r3>>, readers |-> {r1}, writers |-> {r1}]}

Unreliable   == {"dial", "error", "fatal", "deadline", "cleanup"}
Invalidating == {"invalidate", "expire"}
Dial         == {"dial", "expire"}

ThreadSymmetry == Permutations(Threads)
=============================================================================
