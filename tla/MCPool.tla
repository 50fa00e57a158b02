------------------------------- MODULE MCPool -------------------------------
(* Small instances of Pool for TLC.                                        *)
EXTENDS Pool, TLC

CONSTANTS s1, s2, t1, t2, t3

OneServer    == {s1}
TwoServers   == {s1, s2}
TwoThreads   == {t1, t2}
ThreeThreads == {t1, t2, t3}
FirstThread  == {t1}
SecondThread == {t2}
Nobody       == {}

\* A direct driver has one address.
DirectLists == {{s1}}
\* A routing driver: one reader, two readers, a table that has none.
RoutedLists == {{s1}, {s1, s2}, {}}
\* Writers here, readers there, or both.
ReadWriteLists == {{s1}, {s2}, {s1, s2}}

NoFaults       == {}
CloseOnly      == {"close"}
AgeOnly        == {"age"}
HealthAndClose == {"health", "close"}
Ending         == {"age", "io", "close"}
Faults         == AllEvents \ {"close"}

ThreadSymmetry == Permutations(Threads)
=============================================================================
