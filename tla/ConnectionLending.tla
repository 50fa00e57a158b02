------------------------- MODULE ConnectionLending --------------------------
(***************************************************************************)
(* What the pool promises: a connection is opened once, is in the hands of *)
(* one borrower or idle, is closed once and never used again, and no       *)
(* server has more than Limit of them.  Pool implements this specification *)
(* (Pool!ImplementsLending).                                               *)
(***************************************************************************)
EXTENDS Naturals, FiniteSets

CONSTANTS Servers, Conns, Limit

VARIABLES lent,    \* per server, the connections that are lent
          idle,    \* per server, the connections that wait to be lent
          closed   \* the connections that are closed

lendingVars == <<lent, idle, closed>>

Open(s) == lent[s] \cup idle[s]

\* Never seen before.
Fresh(c) == c \notin closed /\ \A s \in Servers : c \notin Open(s)

Init ==
  /\ lent = [s \in Servers |-> {}]
  /\ idle = [s \in Servers |-> {}]
  /\ closed = {}

\* A new connection is lent to whoever asked for it.
Connect(s, c) ==
  /\ Fresh(c)
  /\ Cardinality(Open(s)) < Limit
  /\ lent' = [lent EXCEPT ![s] = @ \cup {c}]
  /\ UNCHANGED <<idle, closed>>

\* Connecting fails after the socket was opened.
Abandon(c) ==
  /\ Fresh(c)
  /\ closed' = closed \cup {c}
  /\ UNCHANGED <<lent, idle>>

Lend(s, c) ==
  /\ c \in idle[s]
  /\ idle' = [idle EXCEPT ![s] = @ \ {c}]
  /\ lent' = [lent EXCEPT ![s] = @ \cup {c}]
  /\ UNCHANGED closed

GiveBack(s, c) ==
  /\ c \in lent[s]
  /\ lent' = [lent EXCEPT ![s] = @ \ {c}]
  /\ idle' = [idle EXCEPT ![s] = @ \cup {c}]
  /\ UNCHANGED closed

\* The borrower's connection is closed instead of given back.
Discard(s, c) ==
  /\ c \in lent[s]
  /\ lent' = [lent EXCEPT ![s] = @ \ {c}]
  /\ closed' = closed \cup {c}
  /\ UNCHANGED idle

\* Idle connections, of any servers, are closed; those lent are left alone.
Retire ==
  /\ idle' = [s \in Servers |-> idle[s] \cap idle'[s]]
  /\ closed' = closed \cup UNION {idle[s] \ idle'[s] : s \in Servers}
  /\ UNCHANGED lent

Next ==
  \/ \E s \in Servers, c \in Conns :
       Connect(s, c) \/ Lend(s, c) \/ GiveBack(s, c) \/ Discard(s, c)
  \/ \E c \in Conns : Abandon(c)
  \/ Retire

Spec == Init /\ [][Next]_lendingVars
=============================================================================
