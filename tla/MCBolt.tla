------------------------------- MODULE MCBolt -------------------------------
(* Instances of Bolt for TLC: versions that differ in what they support *)
EXTENDS Bolt

V(major, minor) == [major |-> major, minor |-> minor]
EveryVersion == {V(3, 0), V(4, 2), V(4, 4), V(5, 0), V(5, 4), V(6, 0)}
Only5 == {V(5, 4)}
Failures == {"Neo.ClientError.Statement.SyntaxError"}
Packing == {"ok", "failed"}
=============================================================================
