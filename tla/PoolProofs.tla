----------------------------- MODULE PoolProofs -----------------------------
(***************************************************************************)
(* Proofs about Pool, for every number of servers, threads and connections *)
(* and every limit: the type invariant, then the placement of connections  *)
(* and reservations from which the bound of the pool follows.              *)
(*                                                                         *)
(* Every step of Pool is one of eight moves of a connection or a           *)
(* reservation (lemma Moves); each move keeps Placement, ReservationsExact *)
(* and PoolBounded, and each is a step of ConnectionLending.               *)
(*                                                                         *)
(* Then what the pool keeps account of: no connection is lost, the SSR     *)
(* counters count the registered connections, the queue and the wakeup     *)
(* channels agree with the goroutines that wait, nothing stale is put      *)
(* back, a closed pool keeps nothing, and who waits has someone to wake    *)
(* him.                                                                    *)
(***************************************************************************)
EXTENDS Pool, FiniteSetTheorems, SequenceTheorems, TLAPS

\* Any set of connections is finite, so its cardinality is a number.
LEMMA ConnsFinite ==
  ASSUME NEW C \in SUBSET Conns
  PROVE  IsFiniteSet(C) /\ Cardinality(C) \in Nat
<1>1. IsFiniteSet(Conns)
  BY PoolConstants, FS_Interval DEF Conns, PoolConstants
<1> QED BY <1>1, FS_Subset, FS_CardinalityType

\* closeConnection keeps the types of the variables it assigns.
LEMMA CloseType ==
  ASSUME TypeOK, NEW gone \in [Servers -> SUBSET Conns], closeConnection(gone)
  PROVE  /\ released' \in SUBSET Conns
         /\ ssrEnabledCount' \in Int /\ ssrDisabledCount' \in Int
<1>1. UNION {gone[s] : s \in SsrServers} \in SUBSET Conns
  BY PoolConstants DEF PoolConstants
<1>2. UNION {gone[s] : s \in Servers \ SsrServers} \in SUBSET Conns
  OBVIOUS
<1>3. UNION {gone[s] : s \in Servers} \in SUBSET Conns
  OBVIOUS
<1>4. /\ Cardinality(UNION {gone[s] : s \in SsrServers}) \in Nat
      /\ Cardinality(UNION {gone[s] : s \in Servers \ SsrServers}) \in Nat
  BY ONLY <1>1, <1>2, ConnsFinite
<1>5. released' \in SUBSET Conns
  BY <1>3 DEF closeConnection, TypeOK
<1> QED BY <1>4, <1>5 DEF closeConnection, TypeOK

\* removeIdleOlderThan keeps the types of the variables it assigns.
LEMMA RemoveIdleType ==
  ASSUME TypeOK, NEW S, NEW old, removeIdleOlderThan(S, old)
  PROVE  /\ idle' \in [Servers -> SUBSET Conns]
         /\ released' \in SUBSET Conns
         /\ ssrEnabledCount' \in Int /\ ssrDisabledCount' \in Int
<1> DEFINE gone == [s \in Servers |-> IF s \in S THEN idle[s] \cap old ELSE {}]
<1>1. gone \in [Servers -> SUBSET Conns]
  BY DEF TypeOK
<1>2. closeConnection(gone)
  BY DEF removeIdleOlderThan
<1>3. idle' \in [Servers -> SUBSET Conns]
  BY DEF TypeOK, removeIdleOlderThan
<1> HIDE DEF gone
<1> QED BY <1>1, <1>2, <1>3, CloseType

\* startClosing keeps the types of the variables it assigns.
LEMMA StartClosingType ==
  ASSUME TypeOK, NEW S, startClosing(S)
  PROVE  /\ closing' \in [Servers -> BOOLEAN]
         /\ idle' \in [Servers -> SUBSET Conns]
         /\ released' \in SUBSET Conns
         /\ ssrEnabledCount' \in Int /\ ssrDisabledCount' \in Int
<1>1. closing' \in [Servers -> BOOLEAN]
  BY Zenon DEF TypeOK, startClosing
<1> QED BY <1>1, RemoveIdleType DEF startClosing

\* The same when an error listener decides whether a server is deactivated.
LEMMA DeactivateType ==
  ASSUME TypeOK, NEW s, deactivate(s) \/ NoDeactivate
  PROVE  /\ closing' \in [Servers -> BOOLEAN]
         /\ idle' \in [Servers -> SUBSET Conns]
         /\ released' \in SUBSET Conns
         /\ ssrEnabledCount' \in Int /\ ssrDisabledCount' \in Int
<1>1. CASE deactivate(s)
  BY <1>1, StartClosingType DEF deactivate
<1>2. CASE NoDeactivate
  BY <1>2 DEF NoDeactivate, TypeOK, ssrVars
<1> QED BY <1>1, <1>2

\* Whatever Borrow does after a tryBorrow without a connection keeps the types
\* of the thread's locals.
LEMMA NextServerType ==
  ASSUME TypeOK, NEW t \in Threads, NEW outcome, NextServer(t, outcome)
  PROVE  /\ pc' \in [Threads -> Pcs]
         /\ conn' \in [Threads -> Conns \cup {NoConn}]
         /\ srv' \in [Threads -> Servers \cup {NoServer}]
         /\ names' \in [Threads -> SUBSET Servers]
         /\ todo' \in [Threads -> Seq(Servers)]
<1>1. todo[t] \in Seq(Servers) /\ <<>> \in Seq(Servers)
  BY EmptySeq DEF TypeOK
<1>2. Len(todo[t]) > 1 => Tail(todo[t]) \in Seq(Servers)
  BY <1>1
<1> QED BY <1>1, <1>2 DEF NextServer, Goto, TypeOK, Pcs

\* The critical section of tryBorrow keeps the types and the shape of the
\* threads' locals, entered for the first time or again.
LEMMA GetIdleOrReserveType ==
  ASSUME TypeOK, ControlOK, NEW t \in Threads, todo[t] # <<>>,
         pc[t] \in {"try", "retry"}, getIdleOrReserve(t, Head(todo[t])),
         UNCHANGED <<queueVars, closePc, ssrVars, cacheEnabled, connVars, released,
                     tooOld, ssrRead>>
  PROVE  TypeOK' /\ ControlOK'
<1> DEFINE s == Head(todo[t])
<1> USE DEF Goto, Pcs, BusyPcs, ConnectPcs, Conns, NoConn
<1>1. s \in Servers
  BY DEF TypeOK
<1> HIDE DEF s
<1>2. getIdleOrReserve(t, s)
  BY DEF s
<1>3. s # NoServer
  BY <1>1, PoolConstants DEF PoolConstants
<1>4. CASE s \in servers /\ \E c \in idle[s] : getIdle(t, s, c)
           /\ srv' = [srv EXCEPT ![t] = s] /\ Goto(t, "health")
           /\ UNCHANGED <<reservations, names, todo>>
           /\ closing' = [closing EXCEPT ![s] = FALSE]
           /\ UNCHANGED <<servers, failedConnect>>
  BY <1>1, <1>3, <1>4, SMTT(30) DEF getIdle, TypeOK, ControlOK, queueVars, ssrVars, connVars
<1>5. CASE s \in servers /\ NextServer(t, "nil")
           /\ UNCHANGED <<idle, busy, reservations, servers, failedConnect>>
           /\ closing' = [closing EXCEPT ![s] = FALSE]
  <2>1. TypeOK'
    BY <1>5, NextServerType DEF TypeOK, queueVars, ssrVars, connVars
  <2>2. ControlOK'
    BY <1>5, SMTT(30) DEF NextServer, TypeOK, ControlOK
  <2> QED BY <2>1, <2>2
<1>6. CASE /\ reservations' = [reservations EXCEPT ![s] = @ + 1]
           /\ srv' = [srv EXCEPT ![t] = s]
           /\ Goto(t, "dial")
           /\ UNCHANGED <<idle, busy, conn, names, todo>>
           /\ servers' \in {servers, servers \cup {s}}
           /\ closing' = [closing EXCEPT ![s] = FALSE]
           /\ failedConnect' \in {failedConnect, [failedConnect EXCEPT ![s] = FALSE]}
  <2>1. closing' \in [Servers -> BOOLEAN] /\ failedConnect' \in [Servers -> BOOLEAN]
    BY <1>6, Zenon DEF TypeOK
  <2>2. reservations' \in [Servers -> Int] /\ servers' \in SUBSET Servers
    BY <1>1, <1>6 DEF TypeOK
  <2>3. srv' \in [Threads -> Servers \cup {NoServer}] /\ pc' \in [Threads -> Pcs]
    BY <1>1, <1>6 DEF TypeOK
  <2>4. TypeOK'
    BY <1>6, <2>1, <2>2, <2>3 DEF TypeOK, queueVars, ssrVars, connVars
  <2>5. ControlOK'
    <3>1. conn[t] = NoConn
      BY DEF ControlOK
    <3> QED BY <1>3, <1>6, <3>1 DEF TypeOK, ControlOK
  <2> QED BY <2>4, <2>5
<1> QED BY <1>2, <1>4, <1>5, <1>6 DEF getIdleOrReserve

\* Waking the first waiter leaves a queue of threads and a set of tokens.
LEMMA WakeFrontType ==
  ASSUME TypeOK, WakeFront
  PROVE  queue' \in Seq(Threads) /\ wakeup' \in SUBSET Threads
<1>1. CASE queue = <<>>
  BY <1>1 DEF WakeFront, queueVars, TypeOK
<1>2. CASE queue # <<>>
  <2>1. Head(queue) \in Threads /\ Tail(queue) \in Seq(Threads)
    BY <1>2 DEF TypeOK
  <2> QED BY <1>2, <2>1 DEF WakeFront, TypeOK
<1> QED BY <1>1, <1>2

\* One step of the pool keeps the types and the shape of the threads' locals.
LEMMA TypeStep ==
  ASSUME TypeOK, ControlOK, [Next]_vars
  PROVE  TypeOK' /\ ControlOK'
<1> USE PoolConstants
    DEF PoolConstants, serverVars, queueVars, ssrVars, connVars, localVars, Goto,
        Pcs, BusyPcs, ConnectPcs, Conns, NoConn
<1>1. CASE UNCHANGED vars
  BY <1>1 DEF TypeOK, ControlOK, vars
<1>2. ASSUME NEW t \in Threads, Borrow(t) PROVE TypeOK' /\ ControlOK'
  BY <1>2 DEF Borrow, TypeOK, ControlOK
<1>3. ASSUME NEW t \in Threads, checkClosed(t) PROVE TypeOK' /\ ControlOK'
  BY <1>3 DEF checkClosed, TypeOK, ControlOK
<1>4. ASSUME NEW t \in Threads, getPenaltiesForServers(t) PROVE TypeOK' /\ ControlOK'
  <2>1. CASE pc' = [pc EXCEPT ![t] = "out"] /\ UNCHANGED <<idle, released, ssrVars, names, todo>>
    BY <1>4, <2>1 DEF getPenaltiesForServers, TypeOK, ControlOK
  <2>2. ASSUME NEW S \in ServerLists, S # {},
               removeIdleOlderThan(S \cap servers, AsOldAs(lifetimeMark)),
               NEW order \in [1..Cardinality(S) -> S],
               todo' = [todo EXCEPT ![t] = order],
               names' = [names EXCEPT ![t] = S], Goto(t, "try")
        PROVE  TypeOK' /\ ControlOK'
    <3>1. /\ idle' \in [Servers -> SUBSET Conns] /\ released' \in SUBSET Conns
          /\ ssrEnabledCount' \in Int /\ ssrDisabledCount' \in Int
      BY <2>2, RemoveIdleType
    <3>2. Cardinality(S) \in Nat /\ Cardinality(S) # 0
      BY <2>2, FS_Subset, FS_CardinalityType, FS_EmptySet
    <3>3. order \in Seq(Servers) /\ order # <<>>
      BY <2>2, <3>2
    <3> QED BY <1>4, <2>2, <3>1, <3>3, SMTT(30) DEF getPenaltiesForServers, TypeOK, ControlOK
  <2> QED BY <1>4, <2>1, <2>2 DEF getPenaltiesForServers, SortedByPenalty
<1>5. ASSUME NEW t \in Threads, tryBorrow(t) PROVE TypeOK' /\ ControlOK'
  <2>1. todo[t] # <<>>
    BY <1>5 DEF tryBorrow, ControlOK
  <2>2. CASE getIdleOrReserve(t, Head(todo[t]))
    <3>1. pc[t] \in {"try", "retry"}
      BY <1>5 DEF tryBorrow
    <3> QED BY <1>5, <2>1, <2>2, <3>1, GetIdleOrReserveType DEF tryBorrow
  <2>3. CASE NextServer(t, "error") /\ UNCHANGED serverVars
    <3>1. TypeOK'
      BY <1>5, <2>3, NextServerType DEF tryBorrow, TypeOK
    <3>2. ControlOK'
      BY <1>5, <2>3 DEF tryBorrow, NextServer, TypeOK, ControlOK
    <3> QED BY <3>1, <3>2
  <2> QED BY <1>5, <2>2, <2>3 DEF tryBorrow
<1>6. ASSUME NEW t \in Threads, tryBorrowAgain(t) PROVE TypeOK' /\ ControlOK'
  <2>1. todo[t] # <<>>
    BY <1>6 DEF tryBorrowAgain, ControlOK
  <2>2. pc[t] \in {"try", "retry"}
    BY <1>6 DEF tryBorrowAgain
  <2> QED BY <1>6, <2>1, <2>2, GetIdleOrReserveType DEF tryBorrowAgain
<1>7. ASSUME NEW t \in Threads, Healthy(t) PROVE TypeOK' /\ ControlOK'
  BY <1>7 DEF Healthy, TypeOK, ControlOK
<1>8. ASSUME NEW t \in Threads, Unhealthy(t) PROVE TypeOK' /\ ControlOK'
  <2>1. /\ closing' \in [Servers -> BOOLEAN] /\ idle' \in [Servers -> SUBSET Conns]
        /\ released' \in SUBSET Conns
        /\ ssrEnabledCount' \in Int /\ ssrDisabledCount' \in Int
    BY <1>8, DeactivateType DEF Unhealthy
  <2> QED BY <1>8, <2>1, SMTT(30) DEF Unhealthy, TypeOK, ControlOK
<1>9. ASSUME NEW t \in Threads, DiscardUnhealthy(t) PROVE TypeOK' /\ ControlOK'
  <2>1. srv[t] \in Servers /\ conn[t] \in Conns
    BY <1>9 DEF DiscardUnhealthy, TypeOK, ControlOK
  <2>2. Only(srv[t], {conn[t]}) \in [Servers -> SUBSET Conns]
    BY <2>1 DEF Only
  <2>3. /\ released' \in SUBSET Conns
        /\ ssrEnabledCount' \in Int /\ ssrDisabledCount' \in Int
    BY <1>9, <2>2, CloseType DEF DiscardUnhealthy, unregLocked
  <2>4. /\ busy' \in [Servers -> SUBSET Conns] /\ servers' \in SUBSET Servers
        /\ UNCHANGED <<idle, reservations, closing, failedConnect>>
    BY <1>9, <2>1 DEF DiscardUnhealthy, unregLocked, TypeOK
  <2>5. CASE \E outcome \in {"error", "stop"} : NextServer(t, outcome)
    <3>1. TypeOK'
      BY <1>9, <2>3, <2>4, <2>5, NextServerType DEF DiscardUnhealthy, TypeOK
    <3>2. ControlOK'
      BY <1>9, <2>5 DEF DiscardUnhealthy, NextServer, TypeOK, ControlOK
    <3> QED BY <3>1, <3>2
  <2>6. CASE ~ \E outcome \in {"error", "stop"} : NextServer(t, outcome)
    <3>1. /\ Goto(t, "retry") /\ conn' = [conn EXCEPT ![t] = NoConn]
          /\ srv' = [srv EXCEPT ![t] = NoServer]
          /\ UNCHANGED <<names, todo>>
      BY <1>9, <2>6 DEF DiscardUnhealthy
    <3>2. todo[t] # <<>>
      BY <1>9 DEF DiscardUnhealthy, ControlOK
    <3>3. TypeOK'
      BY <1>9, <2>3, <2>4, <3>1 DEF DiscardUnhealthy, TypeOK
    <3>4. ControlOK'
      BY <3>1, <3>2 DEF TypeOK, ControlOK
    <3> QED BY <3>3, <3>4
  <2> QED BY <2>5, <2>6
<1>10. ASSUME NEW t \in Threads, Dial(t) PROVE TypeOK' /\ ControlOK'
  BY <1>10 DEF Dial, TypeOK, ControlOK
<1>11. ASSUME NEW t \in Threads, DialFails(t) PROVE TypeOK' /\ ControlOK'
  <2>1. /\ closing' \in [Servers -> BOOLEAN] /\ idle' \in [Servers -> SUBSET Conns]
        /\ released' \in SUBSET Conns
        /\ ssrEnabledCount' \in Int /\ ssrDisabledCount' \in Int
    BY <1>11, DeactivateType DEF DialFails
  <2> QED BY <1>11, <2>1, SMTT(30) DEF DialFails, TypeOK, ControlOK
<1>12. ASSUME NEW t \in Threads, HelloFails(t) PROVE TypeOK' /\ ControlOK'
  <2>1. /\ closing' \in [Servers -> BOOLEAN] /\ idle' \in [Servers -> SUBSET Conns]
        /\ released' \in SUBSET Conns
        /\ ssrEnabledCount' \in Int /\ ssrDisabledCount' \in Int
    BY <1>12, DeactivateType DEF HelloFails
  <2> QED BY <1>12, <2>1, SMTT(30) DEF HelloFails, TypeOK, ControlOK
<1>13. ASSUME NEW t \in Threads, ConnectFailed(t) PROVE TypeOK' /\ ControlOK'
  <2>1. PICK outcome \in {"error", "stop"} : NextServer(t, outcome)
    BY <1>13 DEF ConnectFailed
  <2>2. {conn[t]} \ {NoConn} \subseteq Conns
    BY DEF TypeOK
  <2>5. failedConnect' \in [Servers -> BOOLEAN]
    BY <1>13, Zenon DEF ConnectFailed, TypeOK
  <2>7. srv[t] \in Servers
    BY <1>13 DEF ConnectFailed, TypeOK, ControlOK
  <2>6. released' \in SUBSET Conns /\ reservations' \in [Servers -> Int]
    <3>1. /\ released' = released \cup ({conn[t]} \ {NoConn})
          /\ reservations' = [reservations EXCEPT ![srv[t]] = reservations[srv[t]] - 1]
      BY <1>13 DEF ConnectFailed
    <3>2. reservations' \in [Servers -> Int]
      BY <2>7, <3>1 DEF TypeOK
    <3>3. released' \in SUBSET Conns
      BY <2>2, <3>1, Zenon DEF TypeOK
    <3> QED BY <3>2, <3>3
  <2>3. TypeOK'
    BY <1>13, <2>1, <2>5, <2>6, NextServerType DEF ConnectFailed, TypeOK
  <2>4. ControlOK'
    BY <2>1 DEF NextServer, TypeOK, ControlOK
  <2> QED BY <2>3, <2>4
<1>14. ASSUME NEW t \in Threads, Connected(t) PROVE TypeOK' /\ ControlOK'
  <2>1. conn[t] \in Conns /\ srv[t] \in Servers
    BY <1>14 DEF Connected, TypeOK, ControlOK
  <2>2. /\ busy' \in [Servers -> SUBSET Conns]
        /\ reservations' \in [Servers -> Int]
        /\ ssrEnabledCount' \in Int /\ ssrDisabledCount' \in Int
    BY <1>14, <2>1 DEF Connected, TypeOK
  <2>6. failedConnect' \in [Servers -> BOOLEAN]
    BY <1>14, Zenon DEF Connected, TypeOK
  <2>3. /\ pc' \in [Threads -> Pcs] /\ names' \in [Threads -> SUBSET Servers]
        /\ todo' \in [Threads -> Seq(Servers)]
    BY <1>14 DEF Connected, TypeOK
  <2>4. TypeOK'
    BY <1>14, <2>2, <2>3, <2>6 DEF Connected, TypeOK
  <2>5. ControlOK'
    BY <1>14 DEF Connected, TypeOK, ControlOK
  <2> QED BY <2>4, <2>5
<1>15. ASSUME NEW t \in Threads, LoadSsrEnabledCount(t) PROVE TypeOK' /\ ControlOK'
  BY <1>15 DEF LoadSsrEnabledCount, TypeOK, ControlOK
<1>16. ASSUME NEW t \in Threads, LoadSsrDisabledCount(t) PROVE TypeOK' /\ ControlOK'
  BY <1>16 DEF LoadSsrDisabledCount, TypeOK, ControlOK
<1>17. ASSUME NEW t \in Threads, SetEnabled(t) PROVE TypeOK' /\ ControlOK'
  BY <1>17 DEF SetEnabled, TypeOK, ControlOK
<1>18. ASSUME NEW t \in Threads, Enqueue(t) PROVE TypeOK' /\ ControlOK'
  <2>1. Append(queue, t) \in Seq(Threads)
    BY DEF TypeOK
  <2>2. /\ queue' \in Seq(Threads) /\ names' \in [Threads -> SUBSET Servers]
        /\ pc[t] = "enqueue" /\ UNCHANGED <<srv, conn, todo>>
        /\ \E l \in {"loop", "waiting"} : pc' = [pc EXCEPT ![t] = l]
    BY <1>18, <2>1 DEF Enqueue, TypeOK
  <2>3. TypeOK'
    BY <1>18, <2>2, SMTT(30) DEF Enqueue, TypeOK
  <2>4. ControlOK'
    BY <2>2, SMTT(30) DEF TypeOK, ControlOK
  <2> QED BY <2>3, <2>4
<1>19. ASSUME NEW t \in Threads, WokenUp(t) PROVE TypeOK' /\ ControlOK'
  BY <1>19 DEF WokenUp, TypeOK, ControlOK
<1>20. ASSUME NEW t \in Threads, WaitTimeout(t) PROVE TypeOK' /\ ControlOK'
  <2>1. /\ queue' \in Seq(Threads) /\ wakeup' \in SUBSET Threads
        /\ pc[t] = "waiting" /\ UNCHANGED <<srv, conn, todo>>
        /\ \E l \in {"loop", "out"} : pc' = [pc EXCEPT ![t] = l]
    <3>1. queue # <<>> => Tail(queue) \in Seq(Threads) /\ queue[1] \in Threads
      BY DEF TypeOK
    <3>2. \A i \in DOMAIN queue \cap {1} : queue[i] \in Threads
      BY DEF TypeOK
    <3>3. \A i \in DOMAIN queue : RemoveAt(queue, i) \in Seq(Threads)
      BY SubSeqProperties, ConcatProperties DEF RemoveAt, TypeOK
    <3>4. CASE t \in wakeup
      <4>1. /\ queue' = IF queue = <<>> THEN queue ELSE Tail(queue)
            /\ wakeup' = (wakeup \ {t}) \cup {queue[i] : i \in DOMAIN queue \cap {1}}
            /\ pc' = [pc EXCEPT ![t] = "loop"]
        BY <1>20, <3>4 DEF WaitTimeout
      <4>2. queue' \in Seq(Threads)
        BY <3>1, <4>1 DEF TypeOK
      <4>3. wakeup' \in SUBSET Threads
        BY <3>2, <4>1 DEF TypeOK
      <4> QED BY <1>20, <4>1, <4>2, <4>3 DEF WaitTimeout
    <3>5. CASE t \notin wakeup
      <4>1. PICK i \in DOMAIN queue : queue' = RemoveAt(queue, i)
        BY <1>20, <3>5 DEF WaitTimeout
      <4> QED BY <1>20, <3>3, <3>5, <4>1 DEF WaitTimeout, TypeOK
    <3> QED BY <3>4, <3>5
  <2>2. TypeOK'
    BY <1>20, <2>1 DEF WaitTimeout, TypeOK
  <2>3. ControlOK'
    BY <2>1 DEF TypeOK, ControlOK
  <2> QED BY <2>2, <2>3
<1>21. ASSUME NEW t \in Threads, OnIoError(t) PROVE TypeOK' /\ ControlOK'
  <2>1. /\ closing' \in [Servers -> BOOLEAN] /\ idle' \in [Servers -> SUBSET Conns]
        /\ released' \in SUBSET Conns
        /\ ssrEnabledCount' \in Int /\ ssrDisabledCount' \in Int
    BY <1>21, StartClosingType DEF OnIoError, deactivate, NoDeactivate, TypeOK
  <2>2. conn[t] \in Conns
    BY <1>21 DEF OnIoError, TypeOK, ControlOK
  <2>3. TypeOK'
    BY <1>21, <2>1, <2>2 DEF OnIoError, TypeOK
  <2>4. ControlOK'
    BY <1>21 DEF OnIoError, TypeOK, ControlOK
  <2> QED BY <2>3, <2>4
<1>22. ASSUME NEW t \in Threads, OnNeo4jError(t) PROVE TypeOK' /\ ControlOK'
  <2>1. /\ closing' \in [Servers -> BOOLEAN] /\ idle' \in [Servers -> SUBSET Conns]
        /\ released' \in SUBSET Conns
        /\ ssrEnabledCount' \in Int /\ ssrDisabledCount' \in Int
    BY <1>22, StartClosingType DEF OnNeo4jError, deactivate, NoDeactivate, TypeOK
  <2> QED BY <1>22, <2>1 DEF OnNeo4jError, TypeOK, ControlOK
<1>23. ASSUME NEW t \in Threads, Return(t) PROVE TypeOK' /\ ControlOK'
  <2>1. /\ idle' \in [Servers -> SUBSET Conns] /\ released' \in SUBSET Conns
        /\ ssrEnabledCount' \in Int /\ ssrDisabledCount' \in Int
    BY <1>23, RemoveIdleType DEF Return
  <2>2. tooOld' \in [Threads -> BOOLEAN]
    BY <1>23 DEF Return, TypeOK
  <2>3. TypeOK'
    BY <1>23, <2>1, <2>2 DEF Return, TypeOK
  <2>4. ControlOK'
    BY <1>23 DEF Return, TypeOK, ControlOK
  <2> QED BY <2>3, <2>4
<1>24. ASSUME NEW t \in Threads, Reset(t) PROVE TypeOK' /\ ControlOK'
  BY <1>24 DEF Reset, TypeOK, ControlOK
<1>25. ASSUME NEW t \in Threads, ResetFails(t) PROVE TypeOK' /\ ControlOK'
  <2>1. /\ closing' \in [Servers -> BOOLEAN] /\ idle' \in [Servers -> SUBSET Conns]
        /\ released' \in SUBSET Conns
        /\ ssrEnabledCount' \in Int /\ ssrDisabledCount' \in Int
    BY <1>25, DeactivateType DEF ResetFails
  <2>2. conn[t] \in Conns
    BY <1>25 DEF ResetFails, TypeOK, ControlOK
  <2>3. TypeOK'
    <3>1. dead' \in SUBSET Conns /\ pc' \in [Threads -> Pcs]
      BY <1>25, <2>2 DEF ResetFails, TypeOK
    <3> QED BY <1>25, <2>1, <3>1 DEF ResetFails, TypeOK
  <2>4. ControlOK'
    BY <1>25 DEF ResetFails, TypeOK, ControlOK
  <2> QED BY <2>3, <2>4
<1>26. ASSUME NEW t \in Threads, ReturnDiscards(t) PROVE TypeOK' /\ ControlOK'
  <2>1. srv[t] \in Servers /\ conn[t] \in Conns
    BY <1>26 DEF ReturnDiscards, TypeOK, ControlOK
  <2>2. Only(srv[t], {conn[t]}) \in [Servers -> SUBSET Conns]
    BY <2>1 DEF Only
  <2>3. /\ released' \in SUBSET Conns
        /\ ssrEnabledCount' \in Int /\ ssrDisabledCount' \in Int
    BY <1>26, <2>2, CloseType DEF ReturnDiscards, unregLocked
  <2>4. /\ busy' \in [Servers -> SUBSET Conns] /\ servers' \in SUBSET Servers
        /\ UNCHANGED <<idle, reservations, closing, failedConnect>>
    BY <1>26, <2>1 DEF ReturnDiscards, unregLocked, TypeOK
  <2>5. TypeOK'
    BY <1>26, <2>3, <2>4 DEF ReturnDiscards, LetGo, TypeOK
  <2>6. ControlOK'
    BY <1>26 DEF ReturnDiscards, LetGo, TypeOK, ControlOK
  <2> QED BY <2>5, <2>6
<1>27. ASSUME NEW t \in Threads, ReturnBusy(t) PROVE TypeOK' /\ ControlOK'
  <2>1. srv[t] \in Servers /\ conn[t] \in Conns
    BY <1>27 DEF ReturnBusy, TypeOK, ControlOK
  <2>2. Only(srv[t], {conn[t]}) \in [Servers -> SUBSET Conns]
    BY <2>1 DEF Only
  <2>3. /\ released' \in SUBSET Conns
        /\ ssrEnabledCount' \in Int /\ ssrDisabledCount' \in Int
    BY <1>27, <2>2, CloseType DEF ReturnBusy, TypeOK
  <2>4. /\ busy' \in [Servers -> SUBSET Conns] /\ idle' \in [Servers -> SUBSET Conns]
        /\ servers' \in SUBSET Servers
    <3>1. CASE srv[t] \in servers /\ ~closing[srv[t]]
      <4>1. /\ busy' = [busy EXCEPT ![srv[t]] = busy[srv[t]] \ {conn[t]}]
            /\ idle' = [idle EXCEPT ![srv[t]] = idle[srv[t]] \cup {conn[t]}]
            /\ servers' = servers
        BY <1>27, <3>1 DEF ReturnBusy
      <4> QED BY <2>1, <4>1 DEF TypeOK
    <3>2. CASE srv[t] \in servers /\ closing[srv[t]]
      <4>1. /\ busy' = [busy EXCEPT ![srv[t]] = busy[srv[t]] \ {conn[t]}]
            /\ idle' = idle
            /\ servers' = servers \/ servers' = servers \ {srv[t]}
        BY <1>27, <3>2 DEF ReturnBusy
      <4> QED BY <2>1, <4>1 DEF TypeOK
    <3>3. CASE srv[t] \notin servers
      BY <1>27, <2>1, <3>3 DEF ReturnBusy, TypeOK
    <3> QED BY <3>1, <3>2, <3>3
  <2>5. TypeOK'
    BY <1>27, <2>3, <2>4 DEF ReturnBusy, LetGo, TypeOK
  <2>6. ControlOK'
    BY <1>27 DEF ReturnBusy, LetGo, TypeOK, ControlOK
  <2> QED BY <2>5, <2>6
<1>28. ASSUME NEW t \in Threads, WakeWaiter(t) PROVE TypeOK' /\ ControlOK'
  <2>1. queue' \in Seq(Threads) /\ wakeup' \in SUBSET Threads
    BY <1>28, WakeFrontType DEF WakeWaiter
  <2> QED BY <1>28, <2>1 DEF WakeWaiter, TypeOK, ControlOK
<1>29. ASSUME CloseFlag PROVE TypeOK' /\ ControlOK'
  BY <1>29 DEF CloseFlag, TypeOK, ControlOK
<1>30. ASSUME CloseWake PROVE TypeOK' /\ ControlOK'
  <2>1. queue' \in Seq(Threads) /\ wakeup' \in SUBSET Threads
    BY <1>30, WakeFrontType DEF CloseWake
  <2> QED BY <1>30, <2>1 DEF CloseWake, TypeOK, ControlOK
<1>31. ASSUME CloseServers PROVE TypeOK' /\ ControlOK'
  <2>1. /\ closing' \in [Servers -> BOOLEAN] /\ idle' \in [Servers -> SUBSET Conns]
        /\ released' \in SUBSET Conns
        /\ ssrEnabledCount' \in Int /\ ssrDisabledCount' \in Int
    BY <1>31, StartClosingType DEF CloseServers, TypeOK
  <2> QED BY <1>31, <2>1 DEF CloseServers, TypeOK, ControlOK
<1>32. ASSUME CleanUp PROVE TypeOK' /\ ControlOK'
  <2>1. /\ idle' \in [Servers -> SUBSET Conns] /\ released' \in SUBSET Conns
        /\ ssrEnabledCount' \in Int /\ ssrDisabledCount' \in Int
    BY <1>32, RemoveIdleType DEF CleanUp
  <2>2. servers' \in SUBSET Servers
    BY <1>32 DEF CleanUp, TypeOK
  <2> QED BY <1>32, <2>1, <2>2 DEF CleanUp, TypeOK, ControlOK
<1>33. ASSUME GrowOld PROVE TypeOK' /\ ControlOK'
  BY <1>33 DEF GrowOld, TypeOK, ControlOK
<1>34. ASSUME NEW s \in Servers, ForgetFailedConnect(s) PROVE TypeOK' /\ ControlOK'
  BY <1>34 DEF ForgetFailedConnect, TypeOK, ControlOK
<1> QED
  BY <1>1, <1>2, <1>3, <1>4, <1>5, <1>6, <1>7, <1>8, <1>9, <1>10, <1>11,
     <1>12, <1>13, <1>14, <1>15, <1>16, <1>17, <1>18, <1>19, <1>20, <1>21,
     <1>22, <1>23, <1>24, <1>25, <1>26, <1>27, <1>28, <1>29, <1>30, <1>31,
     <1>32, <1>33, <1>34 DEF Next, Step, Environment, Close

\* In every reachable state the variables have their types and no thread uses a
\* server or a connection it does not have.
THEOREM TypeCorrect == Spec => [](TypeOK /\ ControlOK)
<1>1. Init => TypeOK /\ ControlOK
  <2> SUFFICES ASSUME Init PROVE TypeOK /\ ControlOK
    OBVIOUS
  <2>1. <<>> \in Seq(Threads) /\ <<>> \in Seq(Servers)
    OBVIOUS
  <2>2. TypeOK
    <3>1. 0 \in 0..MaxConns /\ "out" \in Pcs
      BY PoolConstants DEF PoolConstants, Pcs
    <3>2. /\ idle \in [Servers -> SUBSET Conns] /\ busy \in [Servers -> SUBSET Conns]
          /\ reservations \in [Servers -> Int]
          /\ closing \in [Servers -> BOOLEAN] /\ failedConnect \in [Servers -> BOOLEAN]
      BY DEF Init
    <3>3. /\ pc \in [Threads -> Pcs]
          /\ srv \in [Threads -> Servers \cup {NoServer}]
          /\ conn \in [Threads -> Conns \cup {NoConn}]
      BY <3>1 DEF Init
    <3>4. /\ names \in [Threads -> SUBSET Servers] /\ todo \in [Threads -> Seq(Servers)]
          /\ tooOld \in [Threads -> BOOLEAN] /\ ssrRead \in [Threads -> BOOLEAN]
      BY <2>1 DEF Init
    <3>5. 0 \in Int
      OBVIOUS
    <3> QED BY <2>1, <3>1, <3>2, <3>3, <3>4, <3>5, Zenon DEF Init, TypeOK
  <2>3. ControlOK
    BY DEF Init, ControlOK, BusyPcs, ConnectPcs, NoConn
  <2> QED BY <2>2, <2>3
<1>2. TypeOK /\ ControlOK /\ [Next]_vars => (TypeOK /\ ControlOK)'
  BY TypeStep
<1> QED BY <1>1, <1>2, PTL DEF Spec


-----------------------------------------------------------------------------
(* The safety of the pool.                                                 *)

Connecting(s) == {t \in Threads : pc[t] \in ConnectPcs /\ srv[t] = s}

\* The invariant all the moves keep.
PoolInv == TypeOK /\ ControlOK /\ Placement /\ ReservationsExact /\ PoolBounded

-----------------------------------------------------------------------------
(* The moves, on the variables the invariant speaks of.                    *)

\* A thread other than those of T keeps its connection, its server and its role.
Keeps(T) ==
  \A t \in Threads \ T :
    /\ conn'[t] = conn[t]
    /\ conn[t] # NoConn \/ pc[t] \in ConnectPcs => srv'[t] = srv[t]
    /\ conn[t] # NoConn => (pc'[t] \in BusyPcs <=> pc[t] \in BusyPcs)
    /\ pc'[t] \in ConnectPcs <=> pc[t] \in ConnectPcs

\* A server leaves the map only when it is empty.
MapShrinks == servers' \subseteq servers /\ \A s \in servers \ servers' : size(s)' = 0

\* Idle connections are closed, possibly none; nothing else moves.
Retires ==
  /\ Keeps({})
  /\ MapShrinks
  /\ \A s \in Servers : idle'[s] \subseteq idle[s]
  /\ released' = released \cup UNION {idle[s] \ idle'[s] : s \in Servers}
  /\ UNCHANGED <<busy, reservations, nextConn>>

Lends(t, s, c) ==
  /\ Keeps({t})
  /\ conn[t] = NoConn /\ pc[t] \notin ConnectPcs
  /\ c \in idle[s] /\ getIdle(t, s, c)
  /\ pc'[t] = "health" /\ srv'[t] = s
  /\ UNCHANGED <<servers, reservations, released, nextConn>>

Reserves(t, s) ==
  /\ Keeps({t})
  /\ conn[t] = NoConn /\ pc[t] \notin ConnectPcs
  /\ s \in servers => hasRoom(s)
  /\ servers' = servers \cup {s}
  /\ reservations' = [reservations EXCEPT ![s] = reservations[s] + 1]
  /\ pc'[t] = "dial" /\ srv'[t] = s /\ conn'[t] = NoConn
  /\ UNCHANGED <<idle, busy, released, nextConn>>

Dials(t) ==
  /\ Keeps({t})
  /\ pc[t] = "dial" /\ pc'[t] = "hello" /\ srv'[t] = srv[t]
  /\ nextConn' = nextConn + 1 /\ conn'[t] = nextConn + 1
  /\ UNCHANGED <<servers, idle, busy, reservations, released>>

Unreserves(t) ==
  /\ pc[t] \in ConnectPcs /\ pc'[t] \notin ConnectPcs
  /\ reservations' = [reservations EXCEPT ![srv[t]] = reservations[srv[t]] - 1]
  /\ UNCHANGED <<servers, idle, nextConn>>

Registers(t) ==
  /\ Keeps({t}) /\ Unreserves(t)
  /\ conn[t] # NoConn /\ conn'[t] = conn[t] /\ srv'[t] = srv[t] /\ pc'[t] \in BusyPcs
  /\ busy' = [busy EXCEPT ![srv[t]] = busy[srv[t]] \cup {conn[t]}]
  /\ UNCHANGED released

Abandons(t) ==
  /\ Keeps({t}) /\ Unreserves(t)
  /\ conn'[t] = NoConn
  /\ released' = released \cup ({conn[t]} \ {NoConn})
  /\ UNCHANGED busy

GivesBack(t) ==
  /\ Keeps({t})
  /\ conn[t] # NoConn /\ pc[t] \in BusyPcs /\ pc[t] = "giveBack"
  /\ conn'[t] = NoConn /\ pc'[t] \notin ConnectPcs
  /\ busy' = [busy EXCEPT ![srv[t]] = busy[srv[t]] \ {conn[t]}]
  /\ idle' = [idle EXCEPT ![srv[t]] = idle[srv[t]] \cup {conn[t]}]
  /\ UNCHANGED <<servers, reservations, released, nextConn>>

Discards(t) ==
  /\ Keeps({t})
  /\ conn[t] # NoConn /\ pc[t] \in BusyPcs
  /\ conn'[t] = NoConn /\ pc'[t] \notin ConnectPcs
  /\ MapShrinks
  /\ busy' = [busy EXCEPT ![srv[t]] = busy[srv[t]] \ {conn[t]}]
  /\ released' = released \cup {conn[t]}
  /\ UNCHANGED <<idle, reservations, nextConn>>

Move ==
  \/ Retires
  \/ \E t \in Threads :
       \/ \E s \in Servers : Reserves(t, s) \/ \E c \in Conns : Lends(t, s, c)
       \/ Dials(t) \/ Registers(t) \/ Abandons(t) \/ GivesBack(t) \/ Discards(t)

-----------------------------------------------------------------------------
(* Facts about the size of a server.                                       *)

\* Putting a new connection into a finite list adds one to its length.
LEMMA AddOne ==
  ASSUME NEW S, NEW x, IsFiniteSet(S), x \notin S
  PROVE  Cardinality(S \cup {x}) = Cardinality(S) + 1
<1>1. Cardinality(S \cup {x}) = IF x \in S THEN Cardinality(S) ELSE Cardinality(S) + 1
  BY FS_AddElement, Zenon
<1> QED BY <1>1, Zenon

\* Taking a connection out of a finite list subtracts one from its length.
LEMMA RemoveOne ==
  ASSUME NEW S, NEW x, IsFiniteSet(S), x \in S
  PROVE  Cardinality(S \ {x}) = Cardinality(S) - 1
<1>1. Cardinality(S \ {x}) = IF x \in S THEN Cardinality(S) - 1 ELSE Cardinality(S)
  BY FS_RemoveElement, Zenon
<1> QED BY <1>1, Zenon

\* The numbers size adds are natural numbers, and PoolBounded is about integers.
LEMMA SizeType ==
  ASSUME TypeOK, NEW s \in Servers
  PROVE  /\ IsFiniteSet(busy[s]) /\ Cardinality(busy[s]) \in Nat
         /\ IsFiniteSet(idle[s]) /\ Cardinality(idle[s]) \in Nat
         /\ reservations[s] \in Int
         /\ size(s) \in Int
<1>1. busy[s] \in SUBSET Conns /\ idle[s] \in SUBSET Conns /\ reservations[s] \in Int
  BY DEF TypeOK
<1>2. /\ IsFiniteSet(busy[s]) /\ Cardinality(busy[s]) \in Nat
      /\ IsFiniteSet(idle[s]) /\ Cardinality(idle[s]) \in Nat
  BY <1>1, ConnsFinite
<1> QED BY <1>1, <1>2 DEF size

\* The threads that connect to a server are finitely many.
LEMMA ConnectingFinite ==
  ASSUME NEW s
  PROVE  IsFiniteSet(Connecting(s)) /\ Cardinality(Connecting(s)) \in Nat
<1>1. Connecting(s) \subseteq Threads
  BY DEF Connecting
<1> QED BY <1>1, PoolConstants, FS_Subset, FS_CardinalityType DEF PoolConstants

\* A server someone is connected to or connecting to is in the map.
LEMMA ServerPinned ==
  ASSUME TypeOK, ControlOK, Placement, ReservationsExact, NEW t \in Threads,
         pc[t] \in ConnectPcs \/ conn[t] # NoConn
  PROVE  srv[t] \in servers /\ srv[t] \in Servers
<1>1. srv[t] \in Servers
  BY DEF ControlOK, TypeOK
<1>2. /\ reservations[srv[t]] = Cardinality(Connecting(srv[t]))
      /\ srv[t] \notin servers => size(srv[t]) = 0
  BY <1>1 DEF ReservationsExact, Connecting
<1>3. CASE pc[t] \in ConnectPcs
  <2>1. t \in Connecting(srv[t])
    BY <1>3 DEF Connecting
  <2>2. Cardinality(Connecting(srv[t])) # 0
    BY <2>1, ConnectingFinite, FS_EmptySet
  <2> QED BY <1>1, <1>2, <2>2, SizeType, ConnectingFinite DEF size
<1>4. CASE pc[t] \notin ConnectPcs
  <2>1. pc[t] \in BusyPcs
    BY <1>4 DEF ControlOK, ConnectPcs
  <2>2. conn[t] \in busy[srv[t]]
    BY <1>4, <2>1 DEF Placement
  <2>3. Cardinality(busy[srv[t]]) # 0
    BY <1>1, <2>2, SizeType, FS_EmptySet
  <2>4. /\ Cardinality(busy[srv[t]]) \in Nat /\ Cardinality(idle[srv[t]]) \in Nat
        /\ Cardinality(Connecting(srv[t])) \in Nat
    BY <1>1, SizeType, ConnectingFinite
  <2> QED BY <1>1, <1>2, <2>3, <2>4 DEF size
<1> QED BY <1>1, <1>3, <1>4

\* Threads that do not start or stop connecting leave the connecting threads of
\* every server as they are.
LEMMA ConnectingSame ==
  ASSUME NEW T \in SUBSET Threads, Keeps(T),
         \A t \in T : pc[t] \notin ConnectPcs /\ pc'[t] \notin ConnectPcs
  PROVE  \A s \in Servers : Connecting(s)' = Connecting(s)
BY DEF Keeps, Connecting

\* ReservationsExact after a step that keeps the reservations, their threads and
\* the sizes of the servers that are not in the map.
LEMMA SameReservations ==
  ASSUME ReservationsExact, UNCHANGED reservations,
         \A s \in Servers : Connecting(s)' = Connecting(s),
         \A s \in Servers \ servers' : size(s)' = 0
  PROVE  ReservationsExact'
BY DEF ReservationsExact, Connecting

\* A connection some thread has is on no idle list.
LEMMA HeldNotIdle ==
  ASSUME TypeOK, ControlOK, Placement, NEW t \in Threads, conn[t] # NoConn
  PROVE  \A s \in Servers : conn[t] \notin idle[s]
<1>1. srv[t] \in Servers
  BY DEF TypeOK, ControlOK
<1>2. CASE pc[t] \in BusyPcs
  BY <1>1, <1>2 DEF Placement, Registered
<1>3. CASE pc[t] \notin BusyPcs
  BY <1>1, <1>3 DEF Placement, Registered
<1> QED BY <1>2, <1>3

-----------------------------------------------------------------------------
(* Each move keeps the invariant.                                          *)

\* Closing idle connections, as removeIdleOlderThan and startClosing do, keeps
\* the invariant: it only makes servers smaller.
LEMMA RetiresInv ==
  ASSUME PoolInv, TypeOK', ControlOK', Retires
  PROVE  Placement' /\ ReservationsExact' /\ PoolBounded'
<1> USE DEF PoolInv
<1>1. \A s \in Servers : size(s)' <= size(s) /\ size(s)' \in Int /\ (size(s)' # 0 => size(s) # 0)
  <2> SUFFICES ASSUME NEW s \in Servers
               PROVE  size(s)' <= size(s) /\ size(s)' \in Int /\ (size(s)' # 0 => size(s) # 0)
    OBVIOUS
  <2>1. /\ Cardinality(idle[s]) \in Nat /\ Cardinality(busy[s]) \in Nat
        /\ IsFiniteSet(idle[s])
        /\ reservations[s] \in Int
    BY SizeType
  <2>2. /\ Cardinality(idle'[s]) \in Nat
        /\ Cardinality(idle'[s]) <= Cardinality(idle[s])
    BY <2>1, FS_Subset, FS_CardinalityType DEF Retires
  <2>3. reservations[s] \in Nat
    BY ConnectingFinite DEF ReservationsExact, Connecting
  <2> QED BY <2>1, <2>2, <2>3 DEF size, Retires
<1>2. PoolBounded'
  BY <1>1, SizeType, PoolConstants DEF PoolBounded, PoolConstants
<1>3. ReservationsExact'
  <2>1. \A s \in Servers : Connecting(s)' = Connecting(s)
    BY ConnectingSame DEF Retires
  <2>2. \A s \in Servers \ servers' : size(s)' = 0
    BY <1>1 DEF Retires, MapShrinks, ReservationsExact
  <2> QED BY <2>1, <2>2, SameReservations DEF Retires
<1>4. Placement'
  <2> USE DEF Retires, Keeps, Placement, Registered, TypeOK
  <2>1. \A t, u \in Threads : t # u /\ conn'[t] # NoConn => conn'[t] # conn'[u]
    OBVIOUS
  <2>2. \A s \in Servers : Registered(s)' \subseteq Registered(s)
    OBVIOUS
  <2>3. \A c \in released' : c \in released \/ \E s \in Servers : c \in idle[s] /\ c \notin idle'[s]
    OBVIOUS
  <2>4. \A t \in Threads : conn'[t] # NoConn =>
          /\ conn'[t] <= nextConn' /\ conn'[t] \notin released'
          /\ pc'[t] \in BusyPcs => conn'[t] \in busy'[srv'[t]]
          /\ pc'[t] \notin BusyPcs => \A s \in Servers : conn'[t] \notin Registered(s)'
    <3> SUFFICES ASSUME NEW t \in Threads, conn'[t] # NoConn
                 PROVE  /\ conn'[t] <= nextConn' /\ conn'[t] \notin released'
                        /\ pc'[t] \in BusyPcs => conn'[t] \in busy'[srv'[t]]
                        /\ pc'[t] \notin BusyPcs => \A s \in Servers : conn'[t] \notin Registered(s)'
      OBVIOUS
    <3>1. conn'[t] = conn[t] /\ srv'[t] = srv[t] /\ srv[t] \in Servers
      BY DEF ControlOK
    <3>2. \A s \in Servers : conn[t] \notin idle[s]
      BY <3>1, HeldNotIdle
    <3>3. conn[t] \notin released'
      BY <2>3, <3>1, <3>2
    <3> QED BY <2>2, <3>1, <3>3
  <2>5. \A s, r \in Servers : s # r => Registered(s)' \cap Registered(r)' = {}
    BY <2>2
  <2>6. \A s \in Servers : idle'[s] \cap busy'[s] = {} /\ Registered(s)' \cap released' = {}
    <3>1. \A s \in Servers : idle'[s] \cap busy'[s] = {}
      OBVIOUS
    <3>2. ASSUME NEW s \in Servers, NEW c \in Registered(s)', c \in released' PROVE FALSE
      <4>1. c \in Registered(s) /\ c \notin released
        BY <2>2, <3>2
      <4>2. PICK r \in Servers : c \in idle[r] /\ c \notin idle'[r]
        BY <2>3, <3>2, <4>1
      <4>3. r = s
        BY <4>1, <4>2
      <4> QED BY <3>2, <4>2, <4>3
    <3> QED BY <3>1, <3>2
  <2>7. \A s \in Servers : \A c \in Registered(s)' : c <= nextConn'
    BY <2>2
  <2>8. \A c \in released' : c <= nextConn'
    BY <2>3
  <2> QED BY <2>1, <2>4, <2>5, <2>6, <2>7, <2>8
<1> QED BY <1>2, <1>3, <1>4

\* Lending an idle connection (getIdle) keeps the invariant: it moves between two
\* lists of the same server.
LEMMA LendsInv ==
  ASSUME PoolInv, TypeOK', ControlOK', NEW t \in Threads, NEW s \in Servers,
         NEW c \in Conns, Lends(t, s, c)
  PROVE  Placement' /\ ReservationsExact' /\ PoolBounded'
<1> USE DEF PoolInv
<1>0. /\ idle' = [idle EXCEPT ![s] = idle[s] \ {c}]
      /\ busy' = [busy EXCEPT ![s] = busy[s] \cup {c}]
      /\ conn' = [conn EXCEPT ![t] = c]
      /\ c \in idle[s] /\ c \notin busy[s]
  BY DEF Lends, getIdle, Placement
<1>1. \A r \in Servers : size(r)' = size(r)
  <2>1. /\ Cardinality(idle'[s]) = Cardinality(idle[s]) - 1
        /\ Cardinality(busy'[s]) = Cardinality(busy[s]) + 1
    <3>1. idle'[s] = idle[s] \ {c} /\ busy'[s] = busy[s] \cup {c}
      BY <1>0 DEF TypeOK
    <3>2. IsFiniteSet(idle[s]) /\ IsFiniteSet(busy[s])
      BY SizeType
    <3>3. Cardinality(idle'[s]) = Cardinality(idle[s]) - 1
      BY <1>0, <3>1, <3>2, RemoveOne, Zenon
    <3>4. Cardinality(busy'[s]) = Cardinality(busy[s]) + 1
      BY <1>0, <3>1, <3>2, AddOne, Zenon
    <3> QED BY <3>3, <3>4
  <2>2. size(s)' = size(s)
    BY <2>1, SizeType DEF size, Lends
  <2>3. \A r \in Servers \ {s} : idle'[r] = idle[r] /\ busy'[r] = busy[r]
    BY <1>0 DEF TypeOK
  <2> QED BY <2>2, <2>3 DEF size, Lends
<1>2. PoolBounded'
  BY <1>1 DEF PoolBounded
<1>3. ReservationsExact'
  <2>1. \A r \in Servers : Connecting(r)' = Connecting(r)
    BY ConnectingSame DEF Lends, ConnectPcs
  <2> QED BY <1>1, <2>1, SameReservations DEF Lends, ReservationsExact
<1>4. Placement'
  <2>0. conn'[t] = c /\ \A u \in Threads \ {t} : conn'[u] = conn[u] /\ conn[u] # c
    <3>1. ASSUME NEW u \in Threads, conn[u] = c PROVE FALSE
      <4>1. c # NoConn
        BY DEF Conns, NoConn
      <4> QED BY <1>0, <3>1, <4>1, HeldNotIdle
    <3> QED BY <1>0, <3>1 DEF TypeOK
  <2>1. \A u, v \in Threads : u # v /\ conn'[u] # NoConn => conn'[u] # conn'[v]
    BY <2>0 DEF Placement
  <2> USE <1>0 DEF Lends, Keeps, Placement, Registered, TypeOK, ControlOK, BusyPcs, NoConn, Conns
  <2>2. \A u \in Threads : conn'[u] # NoConn =>
          /\ conn'[u] <= nextConn' /\ conn'[u] \notin released'
          /\ pc'[u] \in BusyPcs => conn'[u] \in busy'[srv'[u]]
          /\ pc'[u] \notin BusyPcs => \A r \in Servers : conn'[u] \notin Registered(r)'
    BY SMTT(30)
  <2>3. \A q, r \in Servers : q # r => Registered(q)' \cap Registered(r)' = {}
    BY SMTT(30)
  <2>4. \A r \in Servers : idle'[r] \cap busy'[r] = {} /\ Registered(r)' \cap released' = {}
    BY SMTT(30)
  <2>5. \A r \in Servers : \A d \in Registered(r)' : d <= nextConn'
    OBVIOUS
  <2>6. \A d \in released' : d <= nextConn'
    OBVIOUS
  <2> QED BY <2>1, <2>2, <2>3, <2>4, <2>5, <2>6
<1> QED BY <1>2, <1>3, <1>4

\* Reserving a place after the check of the size keeps the invariant: this is
\* where the bound of the pool is decided.
LEMMA ReservesInv ==
  ASSUME PoolInv, TypeOK', ControlOK', NEW t \in Threads, NEW s \in Servers,
         Reserves(t, s)
  PROVE  Placement' /\ ReservationsExact' /\ PoolBounded'
<1> USE DEF PoolInv
<1>1. /\ size(s)' = size(s) + 1
      /\ \A r \in Servers \ {s} : size(r)' = size(r)
  <2>1. UNCHANGED <<idle, busy>> /\ reservations \in [Servers -> Int]
        /\ reservations' = [reservations EXCEPT ![s] = reservations[s] + 1]
    BY DEF Reserves, TypeOK
  <2>2. Cardinality(busy[s]) \in Nat /\ Cardinality(idle[s]) \in Nat
    BY SizeType
  <2>3. size(s)' = size(s) + 1
    BY <2>1, <2>2 DEF size
  <2>4. \A r \in Servers \ {s} : size(r)' = size(r)
    BY <2>1 DEF size
  <2> QED BY <2>3, <2>4
<1>2. size(s) \in Int /\ size(s) < MaxConnectionPoolSize
  <2>1. CASE s \in servers
    BY <2>1, SizeType DEF Reserves, hasRoom
  <2>2. CASE s \notin servers
    <3>1. size(s) = 0
      BY <2>2 DEF ReservationsExact
    <3> QED BY <3>1, PoolConstants DEF PoolConstants
  <2> QED BY <2>1, <2>2
<1>3. PoolBounded'
  BY <1>1, <1>2, PoolConstants DEF PoolBounded, PoolConstants
<1>4. ReservationsExact'
  <2>1. /\ Connecting(s)' = Connecting(s) \cup {t} /\ t \notin Connecting(s)
        /\ \A r \in Servers \ {s} : Connecting(r)' = Connecting(r)
    BY DEF Reserves, Keeps, Connecting, ConnectPcs
  <2>2. Cardinality(Connecting(s)') = Cardinality(Connecting(s)) + 1
    BY <2>1, ConnectingFinite, FS_AddElement
  <2>3. \A r \in Servers : reservations'[r] = Cardinality(Connecting(r)')
    <3>1. \A r \in Servers : reservations[r] = Cardinality(Connecting(r))
      BY DEF ReservationsExact, Connecting
    <3>2. /\ reservations'[s] = reservations[s] + 1
          /\ \A r \in Servers \ {s} : reservations'[r] = reservations[r]
      BY DEF Reserves, TypeOK
    <3> QED BY <2>1, <2>2, <3>1, <3>2
  <2>4. \A r \in Servers : r \notin servers' => size(r)' = 0
    BY <1>1 DEF ReservationsExact, Reserves
  <2> QED BY <2>3, <2>4 DEF ReservationsExact, Connecting
<1>5. Placement'
  <2> USE DEF Reserves, Keeps, Placement, Registered, TypeOK, ControlOK, NoConn
  <2>1. \A u, v \in Threads : u # v /\ conn'[u] # NoConn => conn'[u] # conn'[v]
    <3>1. \A u \in Threads : conn'[u] = conn[u]
      OBVIOUS
    <3> QED BY <3>1
  <2>2. \A u \in Threads : conn'[u] # NoConn =>
          /\ conn'[u] <= nextConn' /\ conn'[u] \notin released'
          /\ pc'[u] \in BusyPcs => conn'[u] \in busy'[srv'[u]]
          /\ pc'[u] \notin BusyPcs => \A r \in Servers : conn'[u] \notin Registered(r)'
    <3>1. ASSUME NEW u \in Threads \ {t}, conn'[u] # NoConn
          PROVE  /\ conn'[u] = conn[u] /\ srv'[u] = srv[u]
                 /\ pc'[u] \in BusyPcs <=> pc[u] \in BusyPcs
      BY <3>1, Zenon DEF Keeps, Reserves
    <3>2. conn'[t] = NoConn
      BY DEF Reserves
    <3>3. \A r \in Servers : Registered(r)' = Registered(r)
      BY DEF Registered, Reserves
    <3> QED BY <3>1, <3>2, <3>3
  <2>3. \A q, r \in Servers : q # r => Registered(q)' \cap Registered(r)' = {}
    BY SMTT(30)
  <2>4. \A r \in Servers : idle'[r] \cap busy'[r] = {} /\ Registered(r)' \cap released' = {}
    BY SMTT(30)
  <2>5. \A r \in Servers : \A d \in Registered(r)' : d <= nextConn'
    OBVIOUS
  <2>6. \A d \in released' : d <= nextConn'
    OBVIOUS
  <2> QED BY <2>1, <2>2, <2>3, <2>4, <2>5, <2>6
<1> QED BY <1>3, <1>4, <1>5

\* Opening the socket keeps the invariant: the new connection has a number nobody
\* has, and is on no list.
LEMMA DialsInv ==
  ASSUME PoolInv, TypeOK', ControlOK', NEW t \in Threads, Dials(t)
  PROVE  Placement' /\ ReservationsExact' /\ PoolBounded'
<1> USE DEF PoolInv
<1>1. \A r \in Servers : size(r)' = size(r)
  BY DEF size, Dials
<1>2. PoolBounded'
  BY <1>1 DEF PoolBounded
<1>3. ReservationsExact'
  <2>1. \A r \in Servers : Connecting(r)' = Connecting(r)
    BY DEF Dials, Keeps, Connecting, ConnectPcs
  <2> QED BY <1>1, <2>1, SameReservations DEF Dials, ReservationsExact
<1>4. Placement'
  <2>0. /\ nextConn \in Nat /\ conn'[t] = nextConn + 1
        /\ \A u \in Threads \ {t} : conn'[u] = conn[u]
        /\ \A d \in Conns : d <= nextConn => d # conn'[t]
    BY DEF Dials, Keeps, TypeOK, Conns
  <2>1. \A u, v \in Threads : u # v /\ conn'[u] # NoConn => conn'[u] # conn'[v]
    <3>1. \A u \in Threads \ {t} : conn'[u] # NoConn => conn'[u] # conn'[t]
      BY <2>0 DEF Placement, TypeOK
    <3>2. conn'[t] # NoConn
      BY <2>0 DEF NoConn
    <3> QED BY <2>0, <3>1, <3>2 DEF Placement
  <2> USE DEF Dials, Keeps, Placement, Registered, TypeOK, ControlOK, NoConn, BusyPcs, Conns
  <2>2. \A u \in Threads : conn'[u] # NoConn =>
          /\ conn'[u] <= nextConn' /\ conn'[u] \notin released'
          /\ pc'[u] \in BusyPcs => conn'[u] \in busy'[srv'[u]]
          /\ pc'[u] \notin BusyPcs => \A r \in Servers : conn'[u] \notin Registered(r)'
    <3>1. \A u \in Threads \ {t} : conn'[u] # NoConn =>
            /\ conn'[u] <= nextConn' /\ conn'[u] \notin released'
            /\ pc'[u] \in BusyPcs => conn'[u] \in busy'[srv'[u]]
            /\ pc'[u] \notin BusyPcs => \A r \in Servers : conn'[u] \notin Registered(r)'
      BY SMTT(30)
    <3>2. conn'[t] <= nextConn' /\ pc'[t] \notin BusyPcs
      BY <2>0
    <3>3. conn'[t] \notin released' /\ \A r \in Servers : conn'[t] \notin Registered(r)'
      BY <2>0
    <3> QED BY <3>1, <3>2, <3>3
  <2>3. \A q, r \in Servers : q # r => Registered(q)' \cap Registered(r)' = {}
    BY SMTT(30)
  <2>4. \A r \in Servers : idle'[r] \cap busy'[r] = {} /\ Registered(r)' \cap released' = {}
    BY SMTT(30)
  <2>5. \A r \in Servers : \A d \in Registered(r)' : d <= nextConn'
    OBVIOUS
  <2>6. \A d \in released' : d <= nextConn'
    OBVIOUS
  <2> QED BY <2>1, <2>2, <2>3, <2>4, <2>5, <2>6
<1> QED BY <1>2, <1>3, <1>4

\* registerBusy keeps the invariant: the connection takes the place its
\* reservation held.
LEMMA RegistersInv ==
  ASSUME PoolInv, TypeOK', ControlOK', NEW t \in Threads, Registers(t)
  PROVE  Placement' /\ ReservationsExact' /\ PoolBounded'
<1> USE DEF PoolInv
<1>0. PICK s \in Servers :
      /\ s = srv[t] /\ s \in servers
      /\ pc[t] \in ConnectPcs /\ pc[t] \notin BusyPcs
      /\ conn[t] \in Conns
      /\ \A r \in Servers : conn[t] \notin Registered(r)
  BY ServerPinned DEF Registers, Unreserves, ConnectPcs, BusyPcs, Placement, TypeOK
<1>1. /\ busy'[s] = busy[s] \cup {conn[t]}
      /\ \A r \in Servers \ {s} : busy'[r] = busy[r]
      /\ idle' = idle
  BY <1>0 DEF Registers, Unreserves, TypeOK
<1>2. size(s)' = size(s)
  <2>1. Cardinality(busy'[s]) = Cardinality(busy[s]) + 1
    BY <1>0, <1>1, SizeType, FS_AddElement DEF Registered
  <2>2. reservations'[s] = reservations[s] - 1
    BY <1>0 DEF Registers, Unreserves, TypeOK
  <2> QED BY <1>0, <1>1, <2>1, <2>2, SizeType DEF size
<1>3. PoolBounded'
  <2>1. \A r \in Servers \ {s} : size(r)' = size(r)
    BY <1>0, <1>1 DEF size, Registers, Unreserves, TypeOK
  <2> QED BY <1>2, <2>1 DEF PoolBounded
<1>4. ReservationsExact'
  <2>1. /\ Connecting(s)' = Connecting(s) \ {t} /\ t \in Connecting(s)
        /\ \A r \in Servers \ {s} : Connecting(r)' = Connecting(r)
    BY <1>0 DEF Registers, Unreserves, Keeps, Connecting
  <2>2. Cardinality(Connecting(s)') = Cardinality(Connecting(s)) - 1
    BY <2>1, ConnectingFinite, FS_RemoveElement
  <2>3. \A r \in Servers : reservations'[r] = Cardinality(Connecting(r)')
    <3>1. \A r \in Servers : reservations[r] = Cardinality(Connecting(r))
      BY DEF ReservationsExact, Connecting
    <3>2. /\ reservations'[s] = reservations[s] - 1
          /\ \A r \in Servers \ {s} : reservations'[r] = reservations[r]
      BY <1>0 DEF Registers, Unreserves, TypeOK
    <3> QED BY <2>1, <2>2, <3>1, <3>2
  <2>4. \A r \in Servers : r \notin servers' => size(r)' = 0
    <3>1. \A r \in Servers \ {s} : size(r)' = size(r)
      BY <1>0, <1>1 DEF size, Registers, Unreserves, TypeOK
    <3> QED BY <1>0, <3>1 DEF ReservationsExact, Registers, Unreserves
  <2> QED BY <2>3, <2>4 DEF ReservationsExact, Connecting
<1>5. Placement'
  <2>1. \A u, v \in Threads : u # v /\ conn'[u] # NoConn => conn'[u] # conn'[v]
    <3>1. \A u \in Threads : conn'[u] = conn[u]
      BY DEF Registers, Keeps
    <3> QED BY <3>1 DEF Placement
  <2> USE <1>0, <1>1 DEF Registers, Unreserves, Keeps, Placement, Registered, TypeOK, ControlOK
  <2>2. \A u \in Threads : conn'[u] # NoConn =>
          /\ conn'[u] <= nextConn' /\ conn'[u] \notin released'
          /\ pc'[u] \in BusyPcs => conn'[u] \in busy'[srv'[u]]
          /\ pc'[u] \notin BusyPcs => \A r \in Servers : conn'[u] \notin Registered(r)'
    <3> SUFFICES ASSUME NEW u \in Threads, conn'[u] # NoConn
                 PROVE  /\ conn'[u] <= nextConn' /\ conn'[u] \notin released'
                        /\ pc'[u] \in BusyPcs => conn'[u] \in busy'[srv'[u]]
                        /\ pc'[u] \notin BusyPcs => \A r \in Servers : conn'[u] \notin Registered(r)'
      OBVIOUS
    <3>1. CASE u = t
      BY <3>1
    <3>2. CASE u # t
      <4>1. conn'[u] = conn[u] /\ srv'[u] = srv[u] /\ conn[u] # conn[t] /\ srv[u] \in Servers
        BY <3>2
      <4>2. conn[u] \notin released'
        BY <4>1
      <4>3. pc[u] \in BusyPcs => conn[u] \in busy'[srv[u]]
        BY <4>1
      <4>4. pc[u] \notin BusyPcs => \A r \in Servers : conn[u] \notin Registered(r)'
        BY <4>1, SMTT(30)
      <4> QED BY <3>2, <4>1, <4>2, <4>3, <4>4
    <3> QED BY <3>1, <3>2
  <2>3. \A q, r \in Servers : q # r => Registered(q)' \cap Registered(r)' = {}
    BY SMTT(30)
  <2>4. \A r \in Servers : idle'[r] \cap busy'[r] = {} /\ Registered(r)' \cap released' = {}
    BY SMTT(30)
  <2>5. \A r \in Servers : \A d \in Registered(r)' : d <= nextConn'
    OBVIOUS
  <2>6. \A d \in released' : d <= nextConn'
    OBVIOUS
  <2> QED BY <2>1, <2>2, <2>3, <2>4, <2>5, <2>6
<1> QED BY <1>3, <1>4, <1>5

\* A failed connect keeps the invariant: the reservation goes, and the socket, if
\* any, is closed.
LEMMA AbandonsInv ==
  ASSUME PoolInv, TypeOK', ControlOK', NEW t \in Threads, Abandons(t)
  PROVE  Placement' /\ ReservationsExact' /\ PoolBounded'
<1> USE DEF PoolInv
<1>0. PICK s \in Servers :
      /\ s = srv[t] /\ s \in servers
      /\ pc[t] \in ConnectPcs /\ pc[t] \notin BusyPcs
      /\ conn[t] # NoConn => \A r \in Servers : conn[t] \notin Registered(r)
  BY ServerPinned DEF Abandons, Unreserves, ConnectPcs, BusyPcs, Placement
<1>1. busy' = busy /\ idle' = idle
  BY DEF Abandons, Unreserves
<1>2. size(s)' = size(s) - 1
  <2>1. reservations'[s] = reservations[s] - 1
    BY <1>0 DEF Abandons, Unreserves, TypeOK
  <2> QED BY <1>0, <1>1, <2>1, SizeType DEF size
<1>3. PoolBounded'
  <2>1. \A r \in Servers \ {s} : size(r)' = size(r)
    BY <1>0, <1>1 DEF size, Abandons, Unreserves, TypeOK
  <2> QED BY <1>0, <1>2, <2>1, SizeType, PoolConstants DEF PoolBounded, PoolConstants
<1>4. ReservationsExact'
  <2>1. /\ Connecting(s)' = Connecting(s) \ {t} /\ t \in Connecting(s)
        /\ \A r \in Servers \ {s} : Connecting(r)' = Connecting(r)
    BY <1>0 DEF Abandons, Unreserves, Keeps, Connecting
  <2>2. Cardinality(Connecting(s)') = Cardinality(Connecting(s)) - 1
    BY <2>1, ConnectingFinite, FS_RemoveElement
  <2>3. \A r \in Servers : reservations'[r] = Cardinality(Connecting(r)')
    <3>1. \A r \in Servers : reservations[r] = Cardinality(Connecting(r))
      BY DEF ReservationsExact, Connecting
    <3>2. /\ reservations'[s] = reservations[s] - 1
          /\ \A r \in Servers \ {s} : reservations'[r] = reservations[r]
      BY <1>0 DEF Abandons, Unreserves, TypeOK
    <3> QED BY <2>1, <2>2, <3>1, <3>2
  <2>4. \A r \in Servers : r \notin servers' => size(r)' = 0
    <3>1. \A r \in Servers \ {s} : size(r)' = size(r)
      BY <1>0, <1>1 DEF size, Abandons, Unreserves, TypeOK
    <3> QED BY <1>0, <3>1 DEF ReservationsExact, Abandons, Unreserves
  <2> QED BY <2>3, <2>4 DEF ReservationsExact, Connecting
<1>5. Placement'
  <2>1. \A u, v \in Threads : u # v /\ conn'[u] # NoConn => conn'[u] # conn'[v]
    BY DEF Abandons, Keeps, Placement
  <2> USE <1>0, <1>1 DEF Abandons, Unreserves, Keeps, Placement, Registered, TypeOK, ControlOK
  <2>2. \A u \in Threads : conn'[u] # NoConn =>
          /\ conn'[u] <= nextConn' /\ conn'[u] \notin released'
          /\ pc'[u] \in BusyPcs => conn'[u] \in busy'[srv'[u]]
          /\ pc'[u] \notin BusyPcs => \A r \in Servers : conn'[u] \notin Registered(r)'
    <3> SUFFICES ASSUME NEW u \in Threads, conn'[u] # NoConn
                 PROVE  /\ conn'[u] <= nextConn' /\ conn'[u] \notin released'
                        /\ pc'[u] \in BusyPcs => conn'[u] \in busy'[srv'[u]]
                        /\ pc'[u] \notin BusyPcs => \A r \in Servers : conn'[u] \notin Registered(r)'
      OBVIOUS
    <3>1. CASE u = t
      BY <3>1
    <3>2. CASE u # t
      <4>1. conn'[u] = conn[u] /\ srv'[u] = srv[u] /\ conn[u] # conn[t] /\ srv[u] \in Servers
        BY <3>2
      <4>2. conn[u] \notin released'
        BY <4>1
      <4>3. pc[u] \in BusyPcs => conn[u] \in busy'[srv[u]]
        BY <4>1
      <4>4. pc[u] \notin BusyPcs => \A r \in Servers : conn[u] \notin Registered(r)'
        BY <4>1, SMTT(30)
      <4> QED BY <3>2, <4>1, <4>2, <4>3, <4>4
    <3> QED BY <3>1, <3>2
  <2>3. \A q, r \in Servers : q # r => Registered(q)' \cap Registered(r)' = {}
    BY SMTT(30)
  <2>4. \A r \in Servers : idle'[r] \cap busy'[r] = {} /\ Registered(r)' \cap released' = {}
    BY SMTT(30)
  <2>5. \A r \in Servers : \A d \in Registered(r)' : d <= nextConn'
    OBVIOUS
  <2>6. \A d \in released' : d <= nextConn'
    OBVIOUS
  <2> QED BY <2>1, <2>2, <2>3, <2>4, <2>5, <2>6
<1> QED BY <1>3, <1>4, <1>5

\* returnBusy to the idle list keeps the invariant.
LEMMA GivesBackInv ==
  ASSUME PoolInv, TypeOK', ControlOK', NEW t \in Threads, GivesBack(t)
  PROVE  Placement' /\ ReservationsExact' /\ PoolBounded'
<1> USE DEF PoolInv
<1>0. PICK s \in Servers :
      /\ s = srv[t] /\ s \in servers
      /\ conn[t] \in Conns /\ conn[t] \in busy[s] /\ conn[t] \notin idle[s]
      /\ pc[t] \notin ConnectPcs
  BY ServerPinned, HeldNotIdle DEF GivesBack, Placement, TypeOK, ConnectPcs, BusyPcs
<1>1. /\ busy'[s] = busy[s] \ {conn[t]}
      /\ idle'[s] = idle[s] \cup {conn[t]}
      /\ \A r \in Servers \ {s} : busy'[r] = busy[r] /\ idle'[r] = idle[r]
  BY <1>0 DEF GivesBack, TypeOK
<1>2. \A r \in Servers : size(r)' = size(r)
  <2>1. /\ Cardinality(busy'[s]) = Cardinality(busy[s]) - 1
        /\ Cardinality(idle'[s]) = Cardinality(idle[s]) + 1
    <3>1. IsFiniteSet(busy[s]) /\ IsFiniteSet(idle[s])
      BY SizeType
    <3>2. Cardinality(busy'[s]) = Cardinality(busy[s]) - 1
      <4>1. Cardinality(busy[s] \ {conn[t]}) = Cardinality(busy[s]) - 1
        BY <1>0, <3>1, RemoveOne
      <4> QED BY <1>1, <4>1
    <3>3. Cardinality(idle'[s]) = Cardinality(idle[s]) + 1
      <4>1. Cardinality(idle[s] \cup {conn[t]}) = Cardinality(idle[s]) + 1
        BY <1>0, <3>1, AddOne
      <4> QED BY <1>1, <4>1
    <3> QED BY <3>2, <3>3
  <2>2. size(s)' = size(s)
    <3>1. reservations'[s] = reservations[s]
      BY DEF GivesBack
    <3>2. /\ Cardinality(busy[s]) \in Nat /\ Cardinality(idle[s]) \in Nat
          /\ reservations[s] \in Int
      BY SizeType
    <3> HIDE DEF PoolInv
    <3> QED BY <2>1, <3>1, <3>2 DEF size
  <2> QED BY <1>1, <2>2 DEF size, GivesBack
<1>3. PoolBounded'
  BY <1>2 DEF PoolBounded
<1>4. ReservationsExact'
  <2>1. \A r \in Servers : Connecting(r)' = Connecting(r)
    BY <1>0, ConnectingSame DEF GivesBack
  <2> QED BY <1>2, <2>1, SameReservations DEF GivesBack, ReservationsExact
<1>5. Placement'
  <2>1. \A u, v \in Threads : u # v /\ conn'[u] # NoConn => conn'[u] # conn'[v]
    BY DEF GivesBack, Keeps, Placement
  <2> USE <1>0, <1>1 DEF GivesBack, Keeps, Placement, Registered, TypeOK, ControlOK
  <2>2. \A u \in Threads : conn'[u] # NoConn =>
          /\ conn'[u] <= nextConn' /\ conn'[u] \notin released'
          /\ pc'[u] \in BusyPcs => conn'[u] \in busy'[srv'[u]]
          /\ pc'[u] \notin BusyPcs => \A r \in Servers : conn'[u] \notin Registered(r)'
    <3> SUFFICES ASSUME NEW u \in Threads, conn'[u] # NoConn
                 PROVE  /\ conn'[u] <= nextConn' /\ conn'[u] \notin released'
                        /\ pc'[u] \in BusyPcs => conn'[u] \in busy'[srv'[u]]
                        /\ pc'[u] \notin BusyPcs => \A r \in Servers : conn'[u] \notin Registered(r)'
      OBVIOUS
    <3>1. CASE u = t
      BY <3>1
    <3>2. CASE u # t
      <4>1. conn'[u] = conn[u] /\ srv'[u] = srv[u] /\ conn[u] # conn[t] /\ srv[u] \in Servers
        BY <3>2
      <4>2. conn[u] \notin released'
        BY <4>1
      <4>3. pc[u] \in BusyPcs => conn[u] \in busy'[srv[u]]
        BY <4>1
      <4>4. pc[u] \notin BusyPcs => \A r \in Servers : conn[u] \notin Registered(r)'
        BY <4>1, SMTT(30)
      <4> QED BY <3>2, <4>1, <4>2, <4>3, <4>4
    <3> QED BY <3>1, <3>2
  <2>3. \A q, r \in Servers : q # r => Registered(q)' \cap Registered(r)' = {}
    BY SMTT(30)
  <2>4. \A r \in Servers : idle'[r] \cap busy'[r] = {} /\ Registered(r)' \cap released' = {}
    BY SMTT(30)
  <2>5. \A r \in Servers : \A d \in Registered(r)' : d <= nextConn'
    OBVIOUS
  <2>6. \A d \in released' : d <= nextConn'
    OBVIOUS
  <2> QED BY <2>1, <2>2, <2>3, <2>4, <2>5, <2>6
<1> QED BY <1>3, <1>4, <1>5

\* unregLocked and a returnBusy that closes keep the invariant: a server leaves
\* the map only when no connection and no reservation is left on it.
LEMMA DiscardsInv ==
  ASSUME PoolInv, TypeOK', ControlOK', NEW t \in Threads, Discards(t)
  PROVE  Placement' /\ ReservationsExact' /\ PoolBounded'
<1> USE DEF PoolInv
<1>0. PICK s \in Servers :
      /\ s = srv[t] /\ s \in servers
      /\ conn[t] \in Conns /\ conn[t] \in busy[s] /\ conn[t] \notin idle[s]
      /\ pc[t] \notin ConnectPcs
  BY ServerPinned, HeldNotIdle DEF Discards, Placement, TypeOK, ConnectPcs, BusyPcs
<1>1. /\ busy'[s] = busy[s] \ {conn[t]}
      /\ \A r \in Servers \ {s} : busy'[r] = busy[r]
      /\ idle' = idle
  BY <1>0 DEF Discards, TypeOK
<1>2. /\ size(s)' = size(s) - 1
      /\ \A r \in Servers \ {s} : size(r)' = size(r)
  <2>1. Cardinality(busy'[s]) = Cardinality(busy[s]) - 1
    <3>1. IsFiniteSet(busy[s])
      BY SizeType
    <3> QED BY <1>0, <1>1, <3>1, FS_RemoveElement
  <2>2. size(s)' = size(s) - 1
    BY <1>0, <1>1, <2>1, SizeType DEF size, Discards
  <2> QED BY <1>1, <2>2 DEF size, Discards
<1>3. PoolBounded'
  BY <1>0, <1>2, SizeType, PoolConstants DEF PoolBounded, PoolConstants
<1>4. ReservationsExact'
  <2>1. \A r \in Servers : Connecting(r)' = Connecting(r)
    BY <1>0, ConnectingSame DEF Discards
  <2>2. \A r \in Servers \ servers' : size(r)' = 0
    BY <1>0, <1>2 DEF Discards, MapShrinks, ReservationsExact
  <2> QED BY <2>1, <2>2, SameReservations DEF Discards
<1>5. Placement'
  <2>1. \A u, v \in Threads : u # v /\ conn'[u] # NoConn => conn'[u] # conn'[v]
    BY DEF Discards, Keeps, Placement
  <2> USE <1>0, <1>1 DEF Discards, Keeps, Placement, Registered, TypeOK, ControlOK
  <2>2. \A u \in Threads : conn'[u] # NoConn =>
          /\ conn'[u] <= nextConn' /\ conn'[u] \notin released'
          /\ pc'[u] \in BusyPcs => conn'[u] \in busy'[srv'[u]]
          /\ pc'[u] \notin BusyPcs => \A r \in Servers : conn'[u] \notin Registered(r)'
    <3> SUFFICES ASSUME NEW u \in Threads, conn'[u] # NoConn
                 PROVE  /\ conn'[u] <= nextConn' /\ conn'[u] \notin released'
                        /\ pc'[u] \in BusyPcs => conn'[u] \in busy'[srv'[u]]
                        /\ pc'[u] \notin BusyPcs => \A r \in Servers : conn'[u] \notin Registered(r)'
      OBVIOUS
    <3>1. CASE u = t
      BY <3>1
    <3>2. CASE u # t
      <4>1. conn'[u] = conn[u] /\ srv'[u] = srv[u] /\ conn[u] # conn[t] /\ srv[u] \in Servers
        BY <3>2
      <4>2. conn[u] \notin released'
        BY <4>1
      <4>3. pc[u] \in BusyPcs => conn[u] \in busy'[srv[u]]
        BY <4>1
      <4>4. pc[u] \notin BusyPcs => \A r \in Servers : conn[u] \notin Registered(r)'
        BY <4>1, SMTT(30)
      <4> QED BY <3>2, <4>1, <4>2, <4>3, <4>4
    <3> QED BY <3>1, <3>2
  <2>3. \A q, r \in Servers : q # r => Registered(q)' \cap Registered(r)' = {}
    BY SMTT(30)
  <2>4. \A r \in Servers : idle'[r] \cap busy'[r] = {} /\ Registered(r)' \cap released' = {}
    BY SMTT(30)
  <2>5. \A r \in Servers : \A d \in Registered(r)' : d <= nextConn'
    OBVIOUS
  <2>6. \A d \in released' : d <= nextConn'
    OBVIOUS
  <2> QED BY <2>1, <2>2, <2>3, <2>4, <2>5, <2>6
<1> QED BY <1>3, <1>4, <1>5

-----------------------------------------------------------------------------
(* Every step is a move.                                                   *)

\* A thread that goes on without changing its role.
LEMMA GotoKeeps ==
  ASSUME TypeOK, NEW t \in Threads, NEW l, Goto(t, l), UNCHANGED <<conn, srv>>,
         conn[t] # NoConn => (l \in BusyPcs <=> pc[t] \in BusyPcs),
         l \in ConnectPcs <=> pc[t] \in ConnectPcs
  PROVE  Keeps({})
BY DEF TypeOK, Goto, Keeps

\* A thread that leaves tryBorrow without a connection has no role afterwards,
\* and every other thread keeps its own.
LEMMA NextServerKeeps ==
  ASSUME TypeOK, NEW t \in Threads, NEW outcome, NextServer(t, outcome)
  PROVE  Keeps({t}) /\ conn'[t] = NoConn /\ pc'[t] \notin ConnectPcs
<1>1. PICK l \in {"try", "enqueue", "out"} : pc' = [pc EXCEPT ![t] = l]
  BY DEF NextServer, Goto
<1>2. conn' = [conn EXCEPT ![t] = NoConn] /\ srv' = [srv EXCEPT ![t] = NoServer]
  BY DEF NextServer
<1> QED BY <1>1, <1>2 DEF TypeOK, Keeps, ConnectPcs

\* A step that touches no list and changes nobody's role retires nothing.
LEMMA QuietMove ==
  ASSUME Keeps({}), UNCHANGED <<servers, idle, busy, reservations, released, nextConn>>
  PROVE  Retires
BY DEF Retires, MapShrinks

\* removeIdleOlderThan only retires idle connections.
LEMMA RemoveIdleMove ==
  ASSUME TypeOK, NEW S, NEW old, removeIdleOlderThan(S, old), Keeps({}), MapShrinks,
         UNCHANGED <<busy, reservations, nextConn>>
  PROVE  Retires
<1>1. idle' = [s \in Servers |-> IF s \in S THEN idle[s] \ old ELSE idle[s]]
  BY DEF removeIdleOlderThan
<1>2. released' = released \cup
        UNION {[s \in Servers |-> IF s \in S THEN idle[s] \cap old ELSE {}][r] : r \in Servers}
  BY DEF removeIdleOlderThan, closeConnection
<1>3. released' = released \cup UNION {idle[s] \ idle'[s] : s \in Servers}
  <2>1. \A s \in Servers : idle[s] \ idle'[s] = IF s \in S THEN idle[s] \cap old ELSE {}
    BY <1>1
  <2> QED BY <1>2, <2>1
<1>4. \A s \in Servers : idle'[s] \subseteq idle[s]
  BY <1>1
<1> QED BY <1>3, <1>4 DEF Retires

\* deactivate and NoDeactivate, by a thread that keeps its role.
LEMMA DeactivateMove ==
  ASSUME TypeOK, NEW s, deactivate(s) \/ NoDeactivate, Keeps({}),
         UNCHANGED <<servers, busy, reservations, nextConn>>
  PROVE  Retires
<1>1. MapShrinks
  BY DEF MapShrinks
<1>2. CASE deactivate(s)
  BY <1>1, <1>2, RemoveIdleMove DEF deactivate, startClosing
<1>3. CASE NoDeactivate
  BY <1>3, QuietMove DEF NoDeactivate
<1> QED BY <1>2, <1>3

\* The size of a server without one of its busy connections, as unregLocked and
\* returnBusy see it.
LEMMA SizeWithout ==
  ASSUME TypeOK, NEW s \in Servers, NEW c \in busy[s],
         busy' = [busy EXCEPT ![s] = busy[s] \ {c}], UNCHANGED <<idle, reservations>>
  PROVE  size(s)' = size(s) - Cardinality(busy[s] \cap {c})
<1>1. IsFiniteSet(busy[s]) /\ Cardinality(busy[s]) \in Nat
      /\ Cardinality(idle[s]) \in Nat /\ reservations[s] \in Int
  BY SizeType
<1>2. busy'[s] = busy[s] \ {c}
  BY DEF TypeOK
<1>3. Cardinality(busy'[s]) = Cardinality(busy[s]) - 1
  BY <1>1, <1>2, FS_RemoveElement
<1>4. Cardinality(busy[s] \cap {c}) = 1
  <2>1. busy[s] \cap {c} = {c}
    OBVIOUS
  <2> QED BY <2>1, FS_Singleton
<1> QED BY <1>1, <1>3, <1>4 DEF size

\* Closing the one connection c of the server s releases exactly c.
LEMMA OnlyCloses ==
  ASSUME NEW s \in Servers, NEW c, closeConnection(Only(s, {c}))
  PROVE  released' = released \cup {c}
<1>1. UNION {Only(s, {c})[r] : r \in Servers} = {c}
  BY DEF Only
<1> QED BY <1>1 DEF closeConnection

\* unregLocked, for the connection a thread has, discards that connection.
LEMMA UnregMove ==
  ASSUME PoolInv, NEW t \in Threads, conn[t] # NoConn, pc[t] \in BusyPcs,
         unregLocked(srv[t], conn[t]), UNCHANGED nextConn,
         Keeps({t}), conn'[t] = NoConn, pc'[t] \notin ConnectPcs
  PROVE  Discards(t)
<1>1. PICK s \in Servers : s = srv[t] /\ s \in servers /\ conn[t] \in busy[s]
  BY ServerPinned DEF PoolInv, Placement
<1>2. /\ busy' = [busy EXCEPT ![s] = busy[s] \ {conn[t]}]
      /\ UNCHANGED <<idle, reservations>>
  BY <1>1 DEF unregLocked
<1>3. PICK c : c = conn[t]
  OBVIOUS
<1>4. size(s)' = size(s) - Cardinality(busy[s] \cap {c})
  BY <1>1, <1>2, <1>3, SizeWithout DEF PoolInv
<1>5. servers' = servers \/ (servers' = servers \ {s} /\ size(s) - Cardinality(busy[s] \cap {c}) = 0)
  BY <1>1, <1>3 DEF unregLocked
<1>6. MapShrinks
  BY <1>4, <1>5 DEF MapShrinks
<1>7. released' = released \cup {conn[t]}
  BY <1>1, OnlyCloses DEF unregLocked
<1> QED BY <1>1, <1>2, <1>6, <1>7 DEF Discards

\* The critical section of tryBorrow lends, reserves, or changes nothing.
LEMMA GetIdleOrReserveMove ==
  ASSUME PoolInv, NEW t \in Threads, pc[t] \in {"try", "retry"},
         getIdleOrReserve(t, Head(todo[t])), UNCHANGED <<released, nextConn>>
  PROVE  Move
<1> USE DEF PoolInv
<1>1. todo[t] # <<>> /\ conn[t] = NoConn /\ pc[t] \notin ConnectPcs
  BY DEF ControlOK, ConnectPcs, BusyPcs
<1>2. PICK s \in Servers : s = Head(todo[t])
  BY <1>1 DEF TypeOK
<1>3. CASE /\ s \in servers /\ UNCHANGED <<servers, reservations>>
           /\ \E c \in idle[s] : getIdle(t, s, c)
           /\ srv' = [srv EXCEPT ![t] = s] /\ Goto(t, "health")
  <2>1. PICK c \in idle[s] : getIdle(t, s, c)
    BY <1>3
  <2>2. Keeps({t}) /\ pc'[t] = "health" /\ srv'[t] = s
    BY <1>3, <2>1 DEF Keeps, Goto, getIdle, TypeOK
  <2>3. c \in Conns
    BY DEF TypeOK
  <2>4. Lends(t, s, c)
    BY <1>1, <1>3, <2>1, <2>2 DEF Lends
  <2> QED BY <2>3, <2>4 DEF Move
<1>4. CASE NextServer(t, "nil") /\ UNCHANGED <<servers, idle, busy, reservations>>
  <2>1. Keeps({})
    BY <1>1, <1>4, NextServerKeeps DEF Keeps
  <2> QED BY <1>4, <2>1, QuietMove DEF Move
<1>5. CASE /\ s \in servers => hasRoom(s)
           /\ servers' = servers \cup {s}
           /\ reservations' = [reservations EXCEPT ![s] = reservations[s] + 1]
           /\ srv' = [srv EXCEPT ![t] = s] /\ Goto(t, "dial")
           /\ UNCHANGED <<idle, busy, conn>>
  <2>1. Keeps({t}) /\ pc'[t] = "dial" /\ srv'[t] = s /\ conn'[t] = NoConn
    BY <1>1, <1>5 DEF Keeps, Goto, TypeOK
  <2>2. Reserves(t, s)
    BY <1>1, <1>5, <2>1 DEF Reserves
  <2> QED BY <2>2 DEF Move
<1> QED
  <2>1. CASE s \in servers
    BY <1>2, <1>3, <1>4, <1>5, <2>1 DEF getIdleOrReserve
  <2>2. CASE s \notin servers
    BY <1>2, <1>5, <2>2 DEF getIdleOrReserve
  <2> QED BY <2>1, <2>2

\* Every step of the pool is one of the eight moves.
LEMMA Moves ==
  ASSUME PoolInv, [Next]_vars
  PROVE  Move
<1> USE DEF PoolInv, serverVars, queueVars, ssrVars, connVars, localVars
<1>1. CASE UNCHANGED vars
  <2>1. Keeps({})
    BY <1>1 DEF vars, Keeps
  <2> QED BY <1>1, <2>1, QuietMove DEF vars, Move
<1>2. ASSUME NEW t \in Threads, Borrow(t) PROVE Move
  <2>1. Keeps({})
    BY <1>2, GotoKeeps DEF Borrow, ControlOK, BusyPcs, ConnectPcs
  <2> QED BY <1>2, <2>1, QuietMove DEF Borrow, Move
<1>3. ASSUME NEW t \in Threads, checkClosed(t) PROVE Move
  <2>1. PICK l : /\ Goto(t, l) /\ UNCHANGED <<conn, srv>>
                 /\ conn[t] # NoConn => (l \in BusyPcs <=> pc[t] \in BusyPcs)
                 /\ l \in ConnectPcs <=> pc[t] \in ConnectPcs
    BY <1>3 DEF checkClosed, ControlOK, BusyPcs, ConnectPcs
  <2>2. Keeps({})
    BY <2>1, GotoKeeps
  <2> QED BY <1>3, <2>2, QuietMove DEF checkClosed, Move
<1>4. ASSUME NEW t \in Threads, getPenaltiesForServers(t) PROVE Move
  <2>1. CASE Goto(t, "out") /\ UNCHANGED <<idle, released>>
    <3>1. Keeps({})
      BY <1>4, <2>1, GotoKeeps DEF getPenaltiesForServers, ControlOK, BusyPcs, ConnectPcs
    <3> QED BY <1>4, <2>1, <3>1, QuietMove DEF getPenaltiesForServers, Move
  <2>2. ASSUME NEW S, removeIdleOlderThan(S, AsOldAs(lifetimeMark)), Goto(t, "try") PROVE Move
    <3>1. Keeps({})
      BY <1>4, <2>2, GotoKeeps DEF getPenaltiesForServers, ControlOK, BusyPcs, ConnectPcs
    <3>2. MapShrinks
      BY <1>4 DEF getPenaltiesForServers, MapShrinks
    <3> QED BY <1>4, <2>2, <3>1, <3>2, RemoveIdleMove DEF getPenaltiesForServers, Move
  <2> QED BY <1>4, <2>1, <2>2 DEF getPenaltiesForServers
<1>5. ASSUME NEW t \in Threads, tryBorrow(t) PROVE Move
  <2>1. CASE getIdleOrReserve(t, Head(todo[t]))
    BY <1>5, <2>1, GetIdleOrReserveMove DEF tryBorrow
  <2>2. CASE NextServer(t, "error") /\ UNCHANGED serverVars
    <3>1. conn[t] = NoConn /\ pc[t] \notin ConnectPcs
      BY <1>5 DEF tryBorrow, ControlOK, BusyPcs, ConnectPcs
    <3>2. Keeps({})
      BY <2>2, <3>1, NextServerKeeps DEF Keeps
    <3> QED BY <1>5, <2>2, <3>2, QuietMove DEF tryBorrow, Move
  <2> QED BY <1>5, <2>1, <2>2 DEF tryBorrow
<1>6. ASSUME NEW t \in Threads, tryBorrowAgain(t) PROVE Move
  BY <1>6, GetIdleOrReserveMove DEF tryBorrowAgain
<1>7. ASSUME NEW t \in Threads, Healthy(t) PROVE Move
  <2>1. Keeps({})
    BY <1>7, GotoKeeps DEF Healthy, ControlOK, BusyPcs, ConnectPcs
  <2> QED BY <1>7, <2>1, QuietMove DEF Healthy, Move
<1>8. ASSUME NEW t \in Threads, Unhealthy(t) PROVE Move
  <2>1. Keeps({})
    BY <1>8, GotoKeeps DEF Unhealthy, BusyPcs, ConnectPcs
  <2> QED BY <1>8, <2>1, DeactivateMove DEF Unhealthy, Move
<1>9. ASSUME NEW t \in Threads, DiscardUnhealthy(t) PROVE Move
  <2>1. conn[t] # NoConn /\ pc[t] \in BusyPcs
    BY <1>9 DEF DiscardUnhealthy, ControlOK, BusyPcs
  <2>2. Keeps({t}) /\ conn'[t] = NoConn /\ pc'[t] \notin ConnectPcs
    <3>1. CASE \E outcome \in {"error", "stop"} : NextServer(t, outcome)
      BY <3>1, NextServerKeeps
    <3>2. CASE /\ Goto(t, "retry") /\ conn' = [conn EXCEPT ![t] = NoConn]
               /\ srv' = [srv EXCEPT ![t] = NoServer]
      BY <3>2 DEF Goto, Keeps, ConnectPcs, TypeOK
    <3> QED BY <1>9, <3>1, <3>2 DEF DiscardUnhealthy
  <2>3. Discards(t)
    BY <1>9, <2>1, <2>2, UnregMove DEF DiscardUnhealthy
  <2> QED BY <2>3 DEF Move
<1>10. ASSUME NEW t \in Threads, Dial(t) PROVE Move
  <2>1. Keeps({t}) /\ pc'[t] = "hello" /\ conn'[t] = nextConn + 1
    BY <1>10 DEF Dial, Goto, Keeps, TypeOK
  <2>2. Dials(t)
    BY <1>10, <2>1 DEF Dial, Dials
  <2> QED BY <2>2 DEF Move
<1>11. ASSUME NEW t \in Threads, DialFails(t) PROVE Move
  <2>1. Keeps({})
    BY <1>11, GotoKeeps DEF DialFails, BusyPcs, ConnectPcs
  <2> QED BY <1>11, <2>1, DeactivateMove DEF DialFails, Move
<1>12. ASSUME NEW t \in Threads, HelloFails(t) PROVE Move
  <2>1. Keeps({})
    BY <1>12, GotoKeeps DEF HelloFails, BusyPcs, ConnectPcs
  <2> QED BY <1>12, <2>1, DeactivateMove DEF HelloFails, Move
<1>13. ASSUME NEW t \in Threads, ConnectFailed(t) PROVE Move
  <2>1. Keeps({t}) /\ conn'[t] = NoConn /\ pc'[t] \notin ConnectPcs
    BY <1>13, NextServerKeeps DEF ConnectFailed
  <2>2. Unreserves(t)
    BY <1>13, <2>1 DEF ConnectFailed, Unreserves, ConnectPcs
  <2>3. Abandons(t)
    BY <1>13, <2>1, <2>2 DEF ConnectFailed, Abandons
  <2> QED BY <2>3 DEF Move
<1>14. ASSUME NEW t \in Threads, Connected(t) PROVE Move
  <2>1. Keeps({t}) /\ pc'[t] = "cache1" /\ conn' = conn /\ srv' = srv
    BY <1>14 DEF Connected, Goto, Keeps, TypeOK
  <2>2. Unreserves(t)
    BY <1>14, <2>1 DEF Connected, Unreserves, ConnectPcs
  <2>3. conn[t] # NoConn
    BY <1>14 DEF Connected, ControlOK
  <2>4. Registers(t)
    BY <1>14, <2>1, <2>2, <2>3 DEF Connected, Registers, BusyPcs
  <2> QED BY <2>4 DEF Move
<1>15. ASSUME NEW t \in Threads, LoadSsrEnabledCount(t) PROVE Move
  <2>1. PICK l : /\ Goto(t, l) /\ UNCHANGED <<conn, srv>>
                 /\ conn[t] # NoConn => (l \in BusyPcs <=> pc[t] \in BusyPcs)
                 /\ l \in ConnectPcs <=> pc[t] \in ConnectPcs
    BY <1>15 DEF LoadSsrEnabledCount, ControlOK, BusyPcs, ConnectPcs
  <2>2. Keeps({})
    BY <2>1, GotoKeeps
  <2> QED BY <1>15, <2>2, QuietMove DEF LoadSsrEnabledCount, Move
<1>16. ASSUME NEW t \in Threads, LoadSsrDisabledCount(t) PROVE Move
  <2>1. Keeps({})
    BY <1>16, GotoKeeps DEF LoadSsrDisabledCount, ControlOK, BusyPcs, ConnectPcs
  <2> QED BY <1>16, <2>1, QuietMove DEF LoadSsrDisabledCount, Move
<1>17. ASSUME NEW t \in Threads, SetEnabled(t) PROVE Move
  <2>1. PICK l : /\ Goto(t, l) /\ UNCHANGED <<conn, srv>>
                 /\ conn[t] # NoConn => (l \in BusyPcs <=> pc[t] \in BusyPcs)
                 /\ l \in ConnectPcs <=> pc[t] \in ConnectPcs
    BY <1>17 DEF SetEnabled, ControlOK, BusyPcs, ConnectPcs
  <2>2. Keeps({})
    BY <2>1, GotoKeeps
  <2> QED BY <1>17, <2>2, QuietMove DEF SetEnabled, Move
<1>18. ASSUME NEW t \in Threads, Enqueue(t) PROVE Move
  <2>1. PICK l : /\ Goto(t, l) /\ UNCHANGED <<conn, srv>>
                 /\ conn[t] # NoConn => (l \in BusyPcs <=> pc[t] \in BusyPcs)
                 /\ l \in ConnectPcs <=> pc[t] \in ConnectPcs
    BY <1>18 DEF Enqueue, ControlOK, BusyPcs, ConnectPcs
  <2>2. Keeps({})
    BY <2>1, GotoKeeps
  <2> QED BY <1>18, <2>2, QuietMove DEF Enqueue, Move
<1>19. ASSUME NEW t \in Threads, WokenUp(t) PROVE Move
  <2>1. Keeps({})
    BY <1>19, GotoKeeps DEF WokenUp, ControlOK, BusyPcs, ConnectPcs
  <2> QED BY <1>19, <2>1, QuietMove DEF WokenUp, Move
<1>20. ASSUME NEW t \in Threads, WaitTimeout(t) PROVE Move
  <2>1. PICK l : /\ Goto(t, l) /\ UNCHANGED <<conn, srv>>
                 /\ conn[t] # NoConn => (l \in BusyPcs <=> pc[t] \in BusyPcs)
                 /\ l \in ConnectPcs <=> pc[t] \in ConnectPcs
    BY <1>20 DEF WaitTimeout, ControlOK, BusyPcs, ConnectPcs
  <2>2. Keeps({})
    BY <2>1, GotoKeeps
  <2> QED BY <1>20, <2>2, QuietMove DEF WaitTimeout, Move
<1>21. ASSUME NEW t \in Threads, OnIoError(t) PROVE Move
  <2>1. Keeps({})
    BY <1>21 DEF OnIoError, Keeps
  <2> QED BY <1>21, <2>1, DeactivateMove DEF OnIoError, Move
<1>22. ASSUME NEW t \in Threads, OnNeo4jError(t) PROVE Move
  <2>1. Keeps({})
    BY <1>22 DEF OnNeo4jError, Keeps
  <2> QED BY <1>22, <2>1, DeactivateMove DEF OnNeo4jError, Move
<1>23. ASSUME NEW t \in Threads, Return(t) PROVE Move
  <2>1. PICK l \in {"reset", "unreg"} : Goto(t, l)
    BY <1>23 DEF Return
  <2>2. Keeps({})
    BY <1>23, <2>1, GotoKeeps DEF Return, BusyPcs, ConnectPcs
  <2>3. MapShrinks
    BY <1>23 DEF Return, MapShrinks
  <2>4. Retires
    BY <1>23, <2>2, <2>3, RemoveIdleMove DEF Return
  <2> QED BY <2>4 DEF Move
<1>24. ASSUME NEW t \in Threads, Reset(t) PROVE Move
  <2>1. PICK l : /\ Goto(t, l) /\ UNCHANGED <<conn, srv>>
                 /\ conn[t] # NoConn => (l \in BusyPcs <=> pc[t] \in BusyPcs)
                 /\ l \in ConnectPcs <=> pc[t] \in ConnectPcs
    BY <1>24 DEF Reset, ControlOK, BusyPcs, ConnectPcs
  <2>2. Keeps({})
    BY <2>1, GotoKeeps
  <2> QED BY <1>24, <2>2, QuietMove DEF Reset, Move
<1>25. ASSUME NEW t \in Threads, ResetFails(t) PROVE Move
  <2>1. Keeps({})
    BY <1>25, GotoKeeps DEF ResetFails, BusyPcs, ConnectPcs
  <2> QED BY <1>25, <2>1, DeactivateMove DEF ResetFails, Move
<1>26. ASSUME NEW t \in Threads, ReturnDiscards(t) PROVE Move
  <2>1. conn[t] # NoConn /\ pc[t] \in BusyPcs
    BY <1>26 DEF ReturnDiscards, ControlOK, BusyPcs
  <2>2. Keeps({t}) /\ conn'[t] = NoConn /\ pc'[t] \notin ConnectPcs
    BY <1>26 DEF ReturnDiscards, LetGo, Goto, Keeps, ConnectPcs, TypeOK
  <2>3. Discards(t)
    BY <1>26, <2>1, <2>2, UnregMove DEF ReturnDiscards
  <2> QED BY <2>3 DEF Move
<1>27. ASSUME NEW t \in Threads, ReturnBusy(t) PROVE Move
  <2>1. conn[t] # NoConn /\ pc[t] \in BusyPcs
    BY <1>27 DEF ReturnBusy, ControlOK, BusyPcs
  <2>2. Keeps({t}) /\ conn'[t] = NoConn /\ pc'[t] \notin ConnectPcs
    BY <1>27 DEF ReturnBusy, LetGo, Goto, Keeps, ConnectPcs, TypeOK
  <2>3. PICK s \in Servers : s = srv[t] /\ s \in servers /\ conn[t] \in busy[s]
    BY <2>1, ServerPinned DEF Placement
  <2>4. CASE ~closing[s]
    <3>1. /\ busy' = [busy EXCEPT ![s] = busy[s] \ {conn[t]}]
          /\ idle' = [idle EXCEPT ![s] = idle[s] \cup {conn[t]}]
          /\ UNCHANGED <<servers, released, reservations, nextConn>>
      BY <1>27, <2>3, <2>4 DEF ReturnBusy
    <3>2. pc[t] = "giveBack"
      BY <1>27 DEF ReturnBusy
    <3>3. GivesBack(t)
      BY <2>1, <2>2, <2>3, <3>1, <3>2 DEF GivesBack
    <3> QED BY <3>3 DEF Move
  <2>5. CASE closing[s]
    <3>1. PICK c : c = conn[t]
      OBVIOUS
    <3>2. /\ busy' = [busy EXCEPT ![s] = busy[s] \ {c}]
          /\ closeConnection(Only(s, {c}))
          /\ \/ servers' = servers
             \/ servers' = servers \ {s} /\ size(s) - Cardinality(busy[s] \cap {c}) = 0
          /\ UNCHANGED <<idle, reservations, nextConn>>
      BY <1>27, <2>3, <2>5, <3>1 DEF ReturnBusy
    <3>3. size(s)' = size(s) - Cardinality(busy[s] \cap {c})
      BY <2>3, <3>1, <3>2, SizeWithout
    <3>4. MapShrinks
      BY <3>2, <3>3 DEF MapShrinks
    <3>5. released' = released \cup {c}
      BY <3>2, OnlyCloses
    <3>6. Discards(t)
      BY <2>1, <2>2, <2>3, <3>1, <3>2, <3>4, <3>5 DEF Discards
    <3> QED BY <3>6 DEF Move
  <2> QED BY <2>4, <2>5
<1>28. ASSUME NEW t \in Threads, WakeWaiter(t) PROVE Move
  <2>1. Keeps({})
    BY <1>28, GotoKeeps DEF WakeWaiter, ControlOK, BusyPcs, ConnectPcs
  <2> QED BY <1>28, <2>1, QuietMove DEF WakeWaiter, Move
<1>29. ASSUME CloseFlag PROVE Move
  <2>1. Keeps({})
    BY <1>29 DEF CloseFlag, Keeps
  <2> QED BY <1>29, <2>1, QuietMove DEF CloseFlag, Move
<1>30. ASSUME CloseWake PROVE Move
  <2>1. Keeps({})
    BY <1>30 DEF CloseWake, Keeps
  <2> QED BY <1>30, <2>1, QuietMove DEF CloseWake, Move
<1>31. ASSUME CloseServers PROVE Move
  <2>1. Keeps({}) /\ MapShrinks
    BY <1>31 DEF CloseServers, Keeps, MapShrinks
  <2> QED BY <1>31, <2>1, RemoveIdleMove DEF CloseServers, startClosing, Move
<1>32. ASSUME CleanUp PROVE Move
  <2>1. Keeps({})
    BY <1>32 DEF CleanUp, Keeps
  <2>2. MapShrinks
    BY <1>32 DEF CleanUp, MapShrinks, size
  <2> QED BY <1>32, <2>1, <2>2, RemoveIdleMove DEF CleanUp, Move
<1>33. ASSUME GrowOld PROVE Move
  <2>1. Keeps({})
    BY <1>33 DEF GrowOld, Keeps
  <2> QED BY <1>33, <2>1, QuietMove DEF GrowOld, Move
<1>34. ASSUME NEW s \in Servers, ForgetFailedConnect(s) PROVE Move
  <2>1. Keeps({})
    BY <1>34 DEF ForgetFailedConnect, Keeps
  <2> QED BY <1>34, <2>1, QuietMove DEF ForgetFailedConnect, Move
<1> QED
  BY <1>1, <1>2, <1>3, <1>4, <1>5, <1>6, <1>7, <1>8, <1>9, <1>10, <1>11,
     <1>12, <1>13, <1>14, <1>15, <1>16, <1>17, <1>18, <1>19, <1>20, <1>21,
     <1>22, <1>23, <1>24, <1>25, <1>26, <1>27, <1>28, <1>29, <1>30, <1>31,
     <1>32, <1>33, <1>34 DEF Next, Step, Environment, Close

-----------------------------------------------------------------------------
(* The theorems.                                                           *)

\* The invariant holds in every reachable state: where a connection is, which
\* thread has it and what the reservations stand for are always known.
THEOREM PoolInvariant == Spec => []PoolInv
<1>1. Init => Placement /\ ReservationsExact /\ PoolBounded
  <2> SUFFICES ASSUME Init PROVE Placement /\ ReservationsExact /\ PoolBounded
    OBVIOUS
  <2>1. Placement
    BY DEF Init, Placement, Registered, NoConn
  <2>2. \A s \in Servers : size(s) = 0
    BY FS_EmptySet DEF Init, size
  <2>3. ReservationsExact
    <3>1. \A s \in Servers : {t \in Threads : pc[t] \in ConnectPcs /\ srv[t] = s} = {}
      BY DEF Init, ConnectPcs
    <3>2. \A s \in Servers : reservations[s] = 0
      BY DEF Init
    <3> QED BY <2>2, <3>1, <3>2, FS_EmptySet DEF ReservationsExact
  <2>4. PoolBounded
    BY <2>2, PoolConstants DEF PoolBounded, PoolConstants
  <2> QED BY <2>1, <2>3, <2>4
<1>2. PoolInv /\ [Next]_vars /\ (TypeOK /\ ControlOK)' => PoolInv'
  <2> SUFFICES ASSUME PoolInv, [Next]_vars, TypeOK', ControlOK' PROVE PoolInv'
    OBVIOUS
  <2>1. Placement' /\ ReservationsExact' /\ PoolBounded'
    BY Moves, RetiresInv, LendsInv, ReservesInv, DialsInv, RegistersInv, AbandonsInv,
       GivesBackInv, DiscardsInv DEF Move
  <2> QED BY <2>1 DEF PoolInv
<1> QED BY <1>1, <1>2, TypeCorrect, PTL DEF Spec, PoolInv

\* No server ever has more than MaxConnectionPoolSize connections open or being
\* opened, however many goroutines borrow, return and fail concurrently.
THEOREM PoolIsBounded == Spec => []PoolBounded
BY PoolInvariant, PTL DEF PoolInv

\* Every reservation belongs to a goroutine that is connecting, and no server
\* with a reservation or a connection is ever dropped from the map.
THEOREM ReservationsAreExact == Spec => []ReservationsExact
BY PoolInvariant, PTL DEF PoolInv

\* A borrowed connection is held by one goroutine, is registered as busy with a
\* server that is in the map, and is not closed.
THEOREM LoansAreExclusive == Spec => []ExclusiveLoan
<1>1. PoolInv => ExclusiveLoan
  <2> SUFFICES ASSUME PoolInv, NEW t \in Threads, conn[t] # NoConn, pc[t] \in BusyPcs
               PROVE  /\ Holders(conn[t]) = {t}
                      /\ srv[t] \in servers
                      /\ conn[t] \in busy[srv[t]] \ idle[srv[t]]
                      /\ conn[t] \notin released
    BY DEF ExclusiveLoan
  <2>1. srv[t] \in servers /\ srv[t] \in Servers
    BY ServerPinned DEF PoolInv
  <2>2. conn[t] \notin idle[srv[t]]
    BY <2>1, HeldNotIdle DEF PoolInv
  <2>3. Holders(conn[t]) = {t}
    BY DEF PoolInv, Placement, Holders
  <2> QED BY <2>1, <2>2, <2>3 DEF PoolInv, Placement
<1> QED BY <1>1, PoolInvariant, PTL

-----------------------------------------------------------------------------
(* The pool implements ConnectionLending.                                  *)

\* A move is a step of the abstract specification, or changes nothing of it.
LEMMA MoveLends ==
  ASSUME PoolInv, TypeOK', Move
  PROVE  [Lending!Next]_(Lending!lendingVars)
<1> USE DEF PoolInv
<1>1. CASE Retires
  <2>1. idle' = [s \in Servers |-> idle[s] \cap idle'[s]]
    BY <1>1 DEF Retires, TypeOK
  <2>2. Lending!Retire
    BY <1>1, <2>1 DEF Retires, Lending!Retire
  <2> QED BY <2>2 DEF Lending!Next
<1>2. ASSUME NEW t \in Threads, NEW s \in Servers, NEW c \in Conns, Lends(t, s, c)
      PROVE  [Lending!Next]_(Lending!lendingVars)
  <2>1. Lending!Lend(s, c)
    BY <1>2 DEF Lends, getIdle, Lending!Lend
  <2> QED BY <2>1 DEF Lending!Next
<1>3. ASSUME NEW t \in Threads, NEW s \in Servers, Reserves(t, s)
      PROVE  [Lending!Next]_(Lending!lendingVars)
  BY <1>3 DEF Reserves, Lending!lendingVars
<1>4. ASSUME NEW t \in Threads, Dials(t)
      PROVE  [Lending!Next]_(Lending!lendingVars)
  BY <1>4 DEF Dials, Lending!lendingVars
<1>5. ASSUME NEW t \in Threads, Registers(t)
      PROVE  [Lending!Next]_(Lending!lendingVars)
  <2>1. PICK s \in Servers : s = srv[t]
    BY <1>5, ServerPinned DEF Registers
  <2>2. conn[t] \in Conns /\ Lending!Fresh(conn[t])
    <3>1. pc[t] \notin BusyPcs /\ conn[t] # NoConn
      BY <1>5 DEF Registers, Unreserves, ConnectPcs, BusyPcs
    <3>2. conn[t] \in Conns
      BY <3>1 DEF TypeOK, NoConn, Conns
    <3>3. conn[t] \notin released /\ \A r \in Servers : conn[t] \notin Registered(r)
      BY <3>1 DEF Placement
    <3> QED BY <3>2, <3>3 DEF Registered, Lending!Fresh, Lending!Open
  <2>3. Cardinality(Lending!Open(s)) < MaxConnectionPoolSize
    <3>1. /\ IsFiniteSet(busy[s]) /\ IsFiniteSet(idle[s])
          /\ Cardinality(busy[s]) \in Nat /\ Cardinality(idle[s]) \in Nat
      BY SizeType
    <3>2. Cardinality(busy[s] \cup idle[s]) = Cardinality(busy[s]) + Cardinality(idle[s])
      <4>1. busy[s] \cap idle[s] = {}
        BY DEF Placement
      <4>2. Cardinality(busy[s] \cup idle[s])
              = Cardinality(busy[s]) + Cardinality(idle[s]) - Cardinality(busy[s] \cap idle[s])
        BY <3>1, FS_Union
      <4>3. Cardinality({}) = 0
        BY FS_EmptySet
      <4>4. Cardinality(busy[s] \cap idle[s]) = 0
        BY <4>1, <4>3
      <4> HIDE DEF PoolInv
      <4> QED BY <3>1, <4>2, <4>4
    <3>3. reservations[s] \in Nat /\ reservations[s] # 0
      <4>1. t \in Connecting(s)
        BY <1>5, <2>1 DEF Connecting, Registers, Unreserves
      <4>2. reservations[s] = Cardinality(Connecting(s))
        BY DEF ReservationsExact, Connecting
      <4> QED BY <4>1, <4>2, ConnectingFinite, FS_EmptySet
    <3>4. size(s) <= MaxConnectionPoolSize
      BY DEF PoolBounded
    <3> QED BY <3>1, <3>2, <3>3, <3>4, PoolConstants DEF size, Lending!Open, PoolConstants
  <2>4. Lending!Connect(s, conn[t])
    <3>1. busy' = [busy EXCEPT ![s] = busy[s] \cup {conn[t]}] /\ UNCHANGED <<idle, released>>
      BY <1>5, <2>1 DEF Registers, Unreserves
    <3>2. Lending!Cardinality(Lending!Open(s)) = Cardinality(Lending!Open(s))
      BY DEF Lending!Cardinality, Cardinality, Lending!IsFiniteSet, IsFiniteSet
    <3> QED BY <2>2, <2>3, <3>1, <3>2, Zenon DEF Lending!Connect
  <2> QED BY <2>2, <2>4 DEF Lending!Next
<1>6. ASSUME NEW t \in Threads, Abandons(t)
      PROVE  [Lending!Next]_(Lending!lendingVars)
  <2>1. CASE conn[t] = NoConn
    BY <1>6, <2>1 DEF Abandons, Unreserves, Lending!lendingVars
  <2>2. CASE conn[t] # NoConn
    <3>1. conn[t] \in Conns /\ Lending!Fresh(conn[t])
      BY <1>6, <2>2 DEF Abandons, Unreserves, Placement, Registered, TypeOK, ConnectPcs,
                        BusyPcs, Lending!Fresh, Lending!Open
    <3>2. Lending!Abandon(conn[t])
      BY <1>6, <2>2, <3>1 DEF Abandons, Unreserves, Lending!Abandon
    <3> QED BY <3>1, <3>2 DEF Lending!Next
  <2> QED BY <2>1, <2>2
<1>7. ASSUME NEW t \in Threads, GivesBack(t)
      PROVE  [Lending!Next]_(Lending!lendingVars)
  <2>1. PICK s \in Servers : s = srv[t] /\ conn[t] \in busy[s] /\ conn[t] \in Conns
    BY <1>7, ServerPinned DEF GivesBack, Placement, TypeOK
  <2>2. Lending!GiveBack(s, conn[t])
    BY <1>7, <2>1 DEF GivesBack, Lending!GiveBack
  <2> QED BY <2>1, <2>2 DEF Lending!Next
<1>8. ASSUME NEW t \in Threads, Discards(t)
      PROVE  [Lending!Next]_(Lending!lendingVars)
  <2>1. PICK s \in Servers : s = srv[t] /\ conn[t] \in busy[s] /\ conn[t] \in Conns
    BY <1>8, ServerPinned DEF Discards, Placement, TypeOK
  <2>2. Lending!Discard(s, conn[t])
    BY <1>8, <2>1 DEF Discards, Lending!Discard
  <2> QED BY <2>1, <2>2 DEF Lending!Next
<1> QED BY <1>1, <1>2, <1>3, <1>4, <1>5, <1>6, <1>7, <1>8 DEF Move

\* Pool implements ConnectionLending: what the goroutines do in their many steps
\* is, seen from outside, the bounded and exclusive lending of connections that
\* are opened once, closed once and never used after that.
THEOREM PoolImplementsLending == Spec => ImplementsLending
<1>1. Init => Lending!Init
  BY DEF Init, Lending!Init
<1>2. PoolInv /\ PoolInv' /\ [Next]_vars => [Lending!Next]_(Lending!lendingVars)
  BY Moves, MoveLends DEF PoolInv
<1> QED BY <1>1, <1>2, PoolInvariant, PTL DEF Spec, ImplementsLending, Lending!Spec

-----------------------------------------------------------------------------
(* No connection is lost.                                                  *)

\* Every connection ever dialled is closed, idle, or with a thread.
Kept ==
  \A c \in 1..nextConn :
    \/ c \in released
    \/ \E s \in Servers : c \in idle[s]
    \/ \E t \in Threads : conn[t] = c

\* Every move takes a connection from one place to the next.
LEMMA KeptStep ==
  ASSUME PoolInv, TypeOK', Kept, Move
  PROVE  Kept'
<1> USE DEF PoolInv
<1>0. nextConn \in Nat
  BY DEF TypeOK
<1>1. CASE Retires
  BY <1>1 DEF Retires, Keeps, Kept
<1>2. ASSUME NEW t \in Threads, NEW s \in Servers, NEW c \in Conns, Lends(t, s, c)
      PROVE  Kept'
  <2>1. /\ conn[t] = NoConn
        /\ conn' = [conn EXCEPT ![t] = c]
        /\ idle' = [idle EXCEPT ![s] = idle[s] \ {c}]
        /\ UNCHANGED <<released, nextConn>>
    BY <1>2 DEF Lends, getIdle
  <2>2. conn'[t] = c /\ \A u \in Threads \ {t} : conn'[u] = conn[u]
    BY <2>1 DEF TypeOK
  <2>3. \A d \in 1..nextConn : d # conn[t]
    BY <2>1 DEF NoConn
  <2>4. \A d \in 1..nextConn : d # c => \A r \in Servers : d \in idle[r] => d \in idle'[r]
    BY <2>1 DEF TypeOK
  <2> QED BY <2>1, <2>2, <2>3, <2>4 DEF Kept
<1>3. ASSUME NEW t \in Threads, NEW s \in Servers, Reserves(t, s)
      PROVE  Kept'
  <2>1. \A u \in Threads : conn'[u] = conn[u]
    BY <1>3 DEF Reserves, Keeps
  <2> QED BY <1>3, <2>1 DEF Reserves, Kept
<1>4. ASSUME NEW t \in Threads, Dials(t)
      PROVE  Kept'
  <2>1. conn[t] # NoConn => pc[t] \in BusyPcs \cup {"hello", "connectFailed"}
    BY DEF ControlOK
  <2>2. conn[t] = NoConn
    BY <1>4, <2>1 DEF Dials, BusyPcs
  <2>3. \A u \in Threads \ {t} : conn'[u] = conn[u]
    BY <1>4 DEF Dials, Keeps
  <2>4. \A d \in 1..(nextConn + 1) : d \in 1..nextConn \/ d = conn'[t]
    BY <1>0, <1>4 DEF Dials
  <2>5. \A d \in 1..nextConn : d # conn[t]
    BY <2>2 DEF NoConn
  <2> QED BY <1>4, <2>3, <2>4, <2>5 DEF Dials, Kept
<1>5. ASSUME NEW t \in Threads, Registers(t)
      PROVE  Kept'
  <2>1. \A u \in Threads : conn'[u] = conn[u]
    BY <1>5 DEF Registers, Keeps
  <2> QED BY <1>5, <2>1 DEF Registers, Unreserves, Kept
<1>6. ASSUME NEW t \in Threads, Abandons(t)
      PROVE  Kept'
  <2>1. \A d \in 1..nextConn : d = conn[t] => d \in released'
    BY <1>6 DEF Abandons, NoConn
  <2> QED BY <1>6, <2>1 DEF Abandons, Unreserves, Keeps, Kept
<1>7. ASSUME NEW t \in Threads, GivesBack(t)
      PROVE  Kept'
  <2>1. srv[t] \in Servers /\ conn[t] \in idle'[srv[t]]
    BY <1>7, ServerPinned DEF GivesBack, TypeOK
  <2>2. \A s \in Servers : idle[s] \subseteq idle'[s]
    BY <1>7 DEF GivesBack, TypeOK
  <2> QED BY <1>7, <2>1, <2>2 DEF GivesBack, Keeps, Kept
<1>8. ASSUME NEW t \in Threads, Discards(t)
      PROVE  Kept'
  BY <1>8 DEF Discards, Keeps, Kept
<1> QED BY <1>1, <1>2, <1>3, <1>4, <1>5, <1>6, <1>7, <1>8 DEF Move

\* A connection that is somewhere is there only: the three places exclude each
\* other, and no two servers and no two threads share a connection.
LEMMA OnePlace ==
  ASSUME PoolInv, Kept
  PROVE  NoConnectionLost
<1> SUFFICES ASSUME NEW c \in 1..nextConn
             PROVE  /\ Cardinality({s \in Servers : c \in Registered(s)}) <= 1
                    /\ (IF c \in released THEN 1 ELSE 0)
                         + (IF \E s \in Servers : c \in idle[s] THEN 1 ELSE 0)
                         + Cardinality(Holders(c)) = 1
  BY DEF NoConnectionLost
<1> USE DEF PoolInv
<1>0. c # NoConn
  BY DEF NoConn, TypeOK
<1>1. Cardinality({s \in Servers : c \in Registered(s)}) <= 1
  <2>1. CASE \A s \in Servers : c \notin Registered(s)
    <3>1. {s \in Servers : c \in Registered(s)} = {}
      BY <2>1
    <3> QED BY <3>1, FS_EmptySet
  <2>2. ASSUME NEW s \in Servers, c \in Registered(s)
        PROVE  Cardinality({r \in Servers : c \in Registered(r)}) <= 1
    <3>1. {r \in Servers : c \in Registered(r)} = {s}
      BY <2>2 DEF Placement
    <3>2. Cardinality({s}) = 1
      BY FS_Singleton
    <3> QED BY <3>1, <3>2
  <2> QED BY <2>1, <2>2
<1>2. CASE \E t \in Threads : conn[t] = c
  <2>1. PICK t \in Threads : conn[t] = c
    BY <1>2
  <2>2. Holders(c) = {t}
    BY <1>0, <2>1 DEF Holders, Placement
  <2>3. Cardinality(Holders(c)) = 1
    BY <2>2, FS_Singleton
  <2>4. c \notin released /\ \A s \in Servers : c \notin idle[s]
    BY <1>0, <2>1, HeldNotIdle DEF Placement
  <2> QED BY <1>1, <2>3, <2>4
<1>3. CASE ~ \E t \in Threads : conn[t] = c
  <2>1. Holders(c) = {}
    BY <1>3 DEF Holders
  <2>2. Cardinality(Holders(c)) = 0
    BY <2>1, FS_EmptySet
  <2>3. c \in released \/ \E s \in Servers : c \in idle[s]
    BY <1>3 DEF Kept
  <2>4. ~(c \in released /\ \E s \in Servers : c \in idle[s])
    BY DEF Placement, Registered
  <2> QED BY <1>1, <2>2, <2>3, <2>4
<1> QED BY <1>2, <1>3

\* Every connection ever dialled is in exactly one place, on every path of Borrow,
\* Return, deactivate, CleanUp and Close: none leaks, none is closed and kept.
THEOREM NoneIsLost == Spec => []NoConnectionLost
<1>1. Init => Kept
  BY DEF Init, Kept
<1>2. PoolInv /\ PoolInv' /\ Kept /\ [Next]_vars => Kept'
  BY Moves, KeptStep DEF PoolInv
<1>3. PoolInv /\ Kept => NoConnectionLost
  BY OnePlace
<1> QED BY <1>1, <1>2, <1>3, PoolInvariant, PTL DEF Spec

-----------------------------------------------------------------------------
(* Nothing stale is put back.                                              *)

\* What Return found out still holds when it gives the connection back: nobody
\* else can break a connection that a thread has.
Checked ==
  \A t \in Threads :
    /\ pc[t] \in {"reset", "giveBack"} => conn[t] \notin dead
    /\ pc[t] = "giveBack" => ~tooOld[t]

\* A thread other than t is where it was, with what it had.
Others(t) ==
  \A u \in Threads \ {t} : pc'[u] = pc[u] /\ conn'[u] = conn[u] /\ tooOld'[u] = tooOld[u]

\* A step of t that breaks at most its own connection, and after which t has
\* checked what it gives back.
ChecksOwn(t) ==
  /\ Others(t)
  /\ dead' \subseteq dead \cup ({conn[t]} \ {NoConn})
  /\ pc'[t] \in {"reset", "giveBack"} => conn'[t] \notin dead'
  /\ pc'[t] = "giveBack" => ~tooOld'[t]

\* Where NextServer sends a thread.
LEMMA NextServerGoes ==
  ASSUME TypeOK, NEW t \in Threads, NEW outcome, NextServer(t, outcome), UNCHANGED <<tooOld, dead>>
  PROVE  ChecksOwn(t) /\ pc'[t] \in {"try", "enqueue", "out"}
<1>1. PICK l \in {"try", "enqueue", "out"} : pc' = [pc EXCEPT ![t] = l]
  BY DEF NextServer, Goto
<1>2. conn' = [conn EXCEPT ![t] = NoConn]
  BY DEF NextServer
<1> QED BY <1>1, <1>2 DEF TypeOK, ChecksOwn, Others

\* A thread that goes anywhere but to the end of Return has nothing to check.
LEMMA GoesElsewhere ==
  ASSUME TypeOK, NEW t \in Threads, NEW l, l \notin {"reset", "giveBack"}, Goto(t, l),
         \A u \in Threads \ {t} : conn'[u] = conn[u] /\ tooOld'[u] = tooOld[u],
         UNCHANGED dead
  PROVE  ChecksOwn(t)
BY DEF TypeOK, ChecksOwn, Others, Goto

\* The critical section of tryBorrow.
LEMMA GetIdleOrReserveChecks ==
  ASSUME TypeOK, NEW t \in Threads, NEW s, getIdleOrReserve(t, s), UNCHANGED <<tooOld, dead>>
  PROVE  ChecksOwn(t)
<1>1. CASE NextServer(t, "nil")
  BY <1>1, NextServerGoes
<1>2. CASE Goto(t, "health") /\ \E c \in idle[s] : getIdle(t, s, c)
  <2>1. \A u \in Threads \ {t} : conn'[u] = conn[u]
    BY <1>2 DEF getIdle, TypeOK
  <2> QED BY <1>2, <2>1, GoesElsewhere
<1>3. CASE Goto(t, "dial") /\ UNCHANGED conn
  BY <1>3, GoesElsewhere
<1> QED BY <1>1, <1>2, <1>3 DEF getIdleOrReserve

\* Every step of a thread is such a step; the others touch nothing Checked is about.
LEMMA StepsCheck ==
  ASSUME PoolInv, Checked, [Next]_vars
  PROVE  (\E t \in Threads : ChecksOwn(t)) \/ UNCHANGED <<pc, conn, tooOld, dead>>
<1> USE DEF PoolInv, serverVars, queueVars, ssrVars, connVars, localVars
<1>1. CASE UNCHANGED vars
  BY <1>1 DEF vars
<1>2. ASSUME NEW t \in Threads,
             Borrow(t) \/ checkClosed(t) \/ Healthy(t) \/ Unhealthy(t) \/ DialFails(t)
               \/ HelloFails(t) \/ Connected(t)
      PROVE  ChecksOwn(t)
  <2>1. \E l : l \notin {"reset", "giveBack"} /\ Goto(t, l)
    BY <1>2 DEF Borrow, checkClosed, Healthy, Unhealthy, DialFails, HelloFails, Connected
  <2>2. UNCHANGED <<conn, tooOld, dead>>
    BY <1>2 DEF Borrow, checkClosed, Healthy, Unhealthy, DialFails, HelloFails, Connected
  <2> QED BY <2>1, <2>2, GoesElsewhere
<1>3. ASSUME NEW t \in Threads,
             LoadSsrEnabledCount(t) \/ LoadSsrDisabledCount(t) \/ SetEnabled(t)
               \/ Enqueue(t) \/ WokenUp(t) \/ WaitTimeout(t) \/ WakeWaiter(t)
      PROVE  ChecksOwn(t)
  <2>1. \E l : l \notin {"reset", "giveBack"} /\ Goto(t, l)
    BY <1>3 DEF LoadSsrEnabledCount, LoadSsrDisabledCount, SetEnabled, Enqueue, WokenUp,
                WaitTimeout, WakeWaiter
  <2>2. UNCHANGED <<conn, tooOld, dead>>
    BY <1>3 DEF LoadSsrEnabledCount, LoadSsrDisabledCount, SetEnabled, Enqueue, WokenUp,
                WaitTimeout, WakeWaiter
  <2> QED BY <2>1, <2>2, GoesElsewhere
<1>4. ASSUME NEW t \in Threads, getPenaltiesForServers(t)
      PROVE  ChecksOwn(t)
  <2>1. \E l \in {"out", "try"} : Goto(t, l)
    BY <1>4 DEF getPenaltiesForServers
  <2>2. UNCHANGED <<conn, tooOld, dead>>
    BY <1>4 DEF getPenaltiesForServers
  <2> QED BY <2>1, <2>2, GoesElsewhere
<1>5. ASSUME NEW t \in Threads, tryBorrow(t) \/ tryBorrowAgain(t)
      PROVE  ChecksOwn(t)
  <2>1. UNCHANGED <<tooOld, dead>>
    BY <1>5 DEF tryBorrow, tryBorrowAgain
  <2>2. NextServer(t, "error") \/ getIdleOrReserve(t, Head(todo[t]))
    BY <1>5 DEF tryBorrow, tryBorrowAgain
  <2> QED BY <2>1, <2>2, NextServerGoes, GetIdleOrReserveChecks
<1>6. ASSUME NEW t \in Threads, DiscardUnhealthy(t)
      PROVE  ChecksOwn(t)
  <2>1. CASE \E outcome \in {"error", "stop"} : NextServer(t, outcome)
    BY <1>6, <2>1, NextServerGoes DEF DiscardUnhealthy
  <2>2. CASE Goto(t, "retry") /\ conn' = [conn EXCEPT ![t] = NoConn]
    BY <1>6, <2>2, GoesElsewhere DEF DiscardUnhealthy, TypeOK
  <2> QED BY <1>6, <2>1, <2>2 DEF DiscardUnhealthy
<1>7. ASSUME NEW t \in Threads, Dial(t)
      PROVE  ChecksOwn(t)
  BY <1>7, GoesElsewhere DEF Dial, TypeOK
<1>8. ASSUME NEW t \in Threads, ConnectFailed(t)
      PROVE  ChecksOwn(t)
  BY <1>8, NextServerGoes DEF ConnectFailed
<1>9. ASSUME NEW t \in Threads, OnIoError(t)
      PROVE  ChecksOwn(t)
  <2>1. conn[t] # NoConn
    BY <1>9 DEF OnIoError, ControlOK, BusyPcs
  <2> QED BY <1>9, <2>1 DEF OnIoError, ChecksOwn, Others
<1>10. ASSUME NEW t \in Threads, OnNeo4jError(t)
      PROVE  UNCHANGED <<pc, conn, tooOld, dead>>
  BY <1>10 DEF OnNeo4jError
<1>11. ASSUME NEW t \in Threads, Return(t)
      PROVE  ChecksOwn(t)
  <2>1. /\ pc' = [pc EXCEPT ![t] = IF conn[t] \notin dead THEN "reset" ELSE "unreg"]
        /\ tooOld' = [tooOld EXCEPT ![t] = conn[t] <= lifetimeMark]
        /\ UNCHANGED <<conn, dead>>
    BY <1>11 DEF Return, Goto
  <2> QED BY <2>1 DEF TypeOK, ChecksOwn, Others
<1>12. ASSUME NEW t \in Threads, Reset(t)
      PROVE  ChecksOwn(t)
  <2>1. /\ pc[t] = "reset" /\ conn[t] \notin dead
        /\ pc' = [pc EXCEPT ![t] = IF tooOld[t] THEN "unreg" ELSE "giveBack"]
        /\ UNCHANGED <<conn, dead, tooOld>>
    BY <1>12 DEF Reset, Goto, Checked
  <2> QED BY <2>1 DEF TypeOK, ChecksOwn, Others
<1>13. ASSUME NEW t \in Threads, ResetFails(t)
      PROVE  ChecksOwn(t)
  <2>1. conn[t] # NoConn
    BY <1>13 DEF ResetFails, ControlOK, BusyPcs
  <2>2. /\ pc' = [pc EXCEPT ![t] = "unreg"]
        /\ dead' = dead \cup {conn[t]}
        /\ UNCHANGED <<conn, tooOld>>
    BY <1>13 DEF ResetFails, Goto
  <2> QED BY <2>1, <2>2 DEF TypeOK, ChecksOwn, Others
<1>14. ASSUME NEW t \in Threads, ReturnDiscards(t) \/ ReturnBusy(t)
      PROVE  ChecksOwn(t)
  <2>1. LetGo(t) /\ UNCHANGED dead
    BY <1>14 DEF ReturnDiscards, ReturnBusy
  <2> QED BY <2>1, GoesElsewhere DEF LetGo, TypeOK
<1>15. CASE Close \/ CleanUp \/ GrowOld \/ \E s \in Servers : ForgetFailedConnect(s)
  BY <1>15 DEF Close, CloseFlag, CloseWake, CloseServers, CleanUp, GrowOld, ForgetFailedConnect
<1> QED
  BY <1>1, <1>2, <1>3, <1>4, <1>5, <1>6, <1>7, <1>8, <1>9, <1>10, <1>11, <1>12, <1>13,
     <1>14, <1>15 DEF Next, Step, Environment

\* What one thread breaks or checks leaves what the others have checked.
LEMMA CheckedStep ==
  ASSUME PoolInv, Checked, [Next]_vars
  PROVE  Checked'
<1>1. CASE UNCHANGED <<pc, conn, tooOld, dead>>
  BY <1>1 DEF Checked
<1>2. ASSUME NEW t \in Threads, ChecksOwn(t)
      PROVE  Checked'
  <2> SUFFICES ASSUME NEW u \in Threads
               PROVE  /\ pc'[u] \in {"reset", "giveBack"} => conn'[u] \notin dead'
                      /\ pc'[u] = "giveBack" => ~tooOld'[u]
    BY DEF Checked
  <2>1. CASE u = t
    BY <1>2, <2>1 DEF ChecksOwn
  <2>2. CASE u # t
    <3>1. pc'[u] = pc[u] /\ conn'[u] = conn[u] /\ tooOld'[u] = tooOld[u]
      BY <1>2, <2>2 DEF ChecksOwn, Others
    <3>2. conn[u] \notin dead => conn[u] \notin dead'
      BY <1>2, <2>2 DEF ChecksOwn, PoolInv, Placement
    <3> QED BY <3>1, <3>2 DEF Checked
  <2> QED BY <2>1, <2>2
<1> QED BY <1>1, <1>2, StepsCheck

\* Only returnBusy puts a connection on an idle list, and the thread that does it
\* has just found the connection alive and young enough.
LEMMA OnlyFreshReturns ==
  ASSUME PoolInv, TypeOK', Checked, Move, NEW s \in Servers, NEW c \in idle'[s] \ idle[s]
  PROVE  c \notin dead /\ \A t \in Holders(c) : ~tooOld[t]
<1> USE DEF PoolInv
<1>1. PICK t \in Threads : GivesBack(t)
  <2>1. ~(idle'[s] \subseteq idle[s])
    OBVIOUS
  <2>2. ASSUME NEW t \in Threads, NEW r \in Servers, NEW d \in Conns, Lends(t, r, d)
        PROVE  FALSE
    BY <2>1, <2>2 DEF Lends, getIdle, TypeOK
  <2>3. ASSUME NEW t \in Threads, NEW r \in Servers, Reserves(t, r) PROVE FALSE
    BY <2>1, <2>3 DEF Reserves
  <2>4. ASSUME NEW t \in Threads, Dials(t) \/ Registers(t) \/ Abandons(t) \/ Discards(t)
        PROVE  FALSE
    BY <2>1, <2>4 DEF Dials, Registers, Abandons, Unreserves, Discards
  <2>5. ~Retires
    BY <2>1 DEF Retires
  <2> HIDE DEF PoolInv
  <2> QED BY <2>2, <2>3, <2>4, <2>5 DEF Move
<1>2. c = conn[t] /\ c # NoConn
  BY <1>1 DEF GivesBack, TypeOK
<1>3. Holders(c) = {t}
  BY <1>2 DEF Holders, Placement
<1>4. conn[t] \notin dead /\ ~tooOld[t]
  BY <1>1 DEF GivesBack, Checked
<1> QED BY <1>2, <1>3, <1>4

\* A connection that was dead, or had reached MaxConnectionLifetime, when it was
\* returned never becomes idle again, whatever happens between the checks of
\* Return and its last critical section.
THEOREM OnlyFreshIsReused == Spec => NoStaleReturn
<1>1. Init => Checked
  BY DEF Init, Checked
<1>2. PoolInv /\ Checked /\ [Next]_vars => Checked'
  BY CheckedStep
<1>3. PoolInv /\ PoolInv' /\ Checked /\ [Next]_vars
        => [\A s \in Servers : \A c \in idle'[s] \ idle[s] :
              c \notin dead /\ \A t \in Holders(c) : ~tooOld[t]]_vars
  BY Moves, OnlyFreshReturns DEF PoolInv
<1> QED BY <1>1, <1>2, <1>3, PoolInvariant, PTL DEF Spec, NoStaleReturn

-----------------------------------------------------------------------------
(* The SSR counters are exact.                                             *)

\* The registered connections of the servers S.
Of(S) == UNION {Registered(s) : s \in S}

\* There are finitely many of them.
LEMMA OfFinite ==
  ASSUME TypeOK, NEW S \in SUBSET Servers
  PROVE  IsFiniteSet(Of(S)) /\ Cardinality(Of(S)) \in Nat
<1>1. Of(S) \in SUBSET Conns
  BY DEF Of, Registered, TypeOK
<1> QED BY <1>1, ConnsFinite

\* Every server loses the connections gone[s] it had.
Loses(gone) ==
  \A s \in Servers : gone[s] \subseteq Registered(s) /\ Registered(s)' = Registered(s) \ gone[s]

\* As no two servers share a connection, the servers S then have as many fewer
\* as there are connections gone.
LEMMA CountLoses ==
  ASSUME TypeOK, Placement, NEW S \in SUBSET Servers, NEW gone, Loses(gone)
  PROVE  Cardinality(Of(S)') = Cardinality(Of(S)) - Cardinality(UNION {gone[s] : s \in S})
<1> DEFINE G == UNION {gone[s] : s \in S}
<1>1. G \subseteq Of(S)
  BY DEF Of, Loses
<1>2. Of(S)' = Of(S) \ G
  <2>1. ASSUME NEW c \in Of(S)' PROVE c \in Of(S) \ G
    <3>1. PICK s \in S : c \in Registered(s)'
      BY <2>1 DEF Of
    <3>2. c \in Registered(s) /\ c \notin gone[s]
      BY <3>1 DEF Loses
    <3>3. \A r \in S : c \notin gone[r]
      BY <3>2 DEF Loses, Placement
    <3> QED BY <3>2, <3>3 DEF Of
  <2>2. ASSUME NEW c \in Of(S) \ G PROVE c \in Of(S)'
    BY <2>2 DEF Of, Loses
  <2> QED BY <2>1, <2>2
<1>3. IsFiniteSet(Of(S)) /\ Cardinality(Of(S)) \in Nat
  BY OfFinite
<1>4. Of(S) \cap G = G
  BY <1>1
<1> HIDE DEF G
<1>5. Cardinality(Of(S) \ G) = Cardinality(Of(S)) - Cardinality(Of(S) \cap G)
  BY <1>3, FS_Difference
<1> QED BY <1>2, <1>4, <1>5 DEF G

\* Where no server gains or loses a connection there are as many as before.
LEMMA CountSame ==
  ASSUME NEW S \in SUBSET Servers, \A s \in Servers : Registered(s)' = Registered(s)
  PROVE  Of(S)' = Of(S)
BY DEF Of

\* A connection that is new to the pool counts for the servers S if its server
\* is one of them.
LEMMA CountGains ==
  ASSUME TypeOK, NEW S \in SUBSET Servers, NEW s \in Servers, NEW c,
         \A r \in Servers : c \notin Registered(r),
         Registered(s)' = Registered(s) \cup {c},
         \A r \in Servers \ {s} : Registered(r)' = Registered(r)
  PROVE  Cardinality(Of(S)') = Cardinality(Of(S)) + (IF s \in S THEN 1 ELSE 0)
<1>1. IsFiniteSet(Of(S)) /\ Cardinality(Of(S)) \in Nat
  BY OfFinite
<1>2. CASE s \in S
  <2>1. Of(S)' = Of(S) \cup {c} /\ c \notin Of(S)
    BY <1>2 DEF Of
  <2>2. Cardinality(Of(S) \cup {c}) = Cardinality(Of(S)) + 1
    BY <1>1, <2>1, AddOne
  <2> QED BY <1>2, <2>1, <2>2
<1>3. CASE s \notin S
  <2>1. Of(S)' = Of(S)
    BY <1>3 DEF Of
  <2> QED BY <1>1, <1>3, <2>1
<1> QED BY <1>2, <1>3

\* A step that does not count and moves nothing in or out of the lists.
SsrQuiet == UNCHANGED ssrVars /\ \A s \in Servers : Registered(s)' = Registered(s)

\* A step that closes connections and counts them down.
SsrLoses == \E gone : closeConnection(gone) /\ Loses(gone)

\* removeIdleOlderThan counts down what it takes off the idle lists.
LEMMA RemoveIdleCounts ==
  ASSUME TypeOK, Placement, NEW S, NEW old, removeIdleOlderThan(S, old), UNCHANGED busy
  PROVE  SsrLoses
<1> DEFINE gone == [s \in Servers |-> IF s \in S THEN idle[s] \cap old ELSE {}]
<1>1. closeConnection(gone)
  BY DEF removeIdleOlderThan
<1>2. ASSUME NEW s \in Servers
      PROVE  gone[s] \subseteq Registered(s) /\ Registered(s)' = Registered(s) \ gone[s]
  <2>1. idle'[s] = idle[s] \ gone[s] /\ gone[s] \subseteq idle[s] /\ busy'[s] = busy[s]
    BY DEF removeIdleOlderThan
  <2>2. idle[s] \cap busy[s] = {}
    BY DEF Placement
  <2> QED BY <2>1, <2>2 DEF Registered
<1> QED BY <1>1, <1>2 DEF SsrLoses, Loses

\* deactivate counts down, or nothing happens.
LEMMA DeactivateCounts ==
  ASSUME TypeOK, Placement, NEW s, deactivate(s) \/ NoDeactivate, UNCHANGED busy
  PROVE  SsrQuiet \/ SsrLoses
<1>1. CASE deactivate(s)
  BY <1>1, RemoveIdleCounts DEF deactivate, startClosing
<1>2. CASE NoDeactivate
  BY <1>2 DEF NoDeactivate, SsrQuiet, Registered
<1> QED BY <1>1, <1>2

\* A busy connection that is closed is counted down.
LEMMA DiscardCounts ==
  ASSUME TypeOK, Placement, NEW s \in Servers, NEW c \in busy[s],
         closeConnection(Only(s, {c})),
         busy' = [busy EXCEPT ![s] = busy[s] \ {c}], UNCHANGED idle
  PROVE  SsrLoses
<1>1. ASSUME NEW r \in Servers
      PROVE  /\ Only(s, {c})[r] \subseteq Registered(r)
             /\ Registered(r)' = Registered(r) \ Only(s, {c})[r]
  <2>1. Only(s, {c})[r] = IF r = s THEN {c} ELSE {}
    BY DEF Only
  <2>2. c \notin idle[s]
    BY DEF Placement
  <2>3. busy'[r] = (IF r = s THEN busy[r] \ {c} ELSE busy[r]) /\ idle'[r] = idle[r]
    BY DEF TypeOK
  <2> QED BY <2>1, <2>2, <2>3 DEF Registered
<1> QED BY <1>1 DEF SsrLoses, Loses

\* unregLocked, for the connection a thread has, counts it down.
LEMMA UnregCounts ==
  ASSUME PoolInv, NEW t \in Threads, conn[t] # NoConn, pc[t] \in BusyPcs,
         unregLocked(srv[t], conn[t])
  PROVE  SsrLoses
<1>1. PICK s \in Servers : s = srv[t] /\ s \in servers /\ conn[t] \in busy[s]
  BY ServerPinned DEF PoolInv, Placement
<1>2. /\ busy' = [busy EXCEPT ![s] = busy[s] \ {conn[t]}]
      /\ closeConnection(Only(s, {conn[t]}))
      /\ UNCHANGED idle
  BY <1>1 DEF unregLocked
<1> QED BY <1>1, <1>2, DiscardCounts DEF PoolInv

\* Lending an idle connection moves it between two lists of one server.
LEMMA GetIdleOrReserveCounts ==
  ASSUME TypeOK, NEW t, NEW s \in Servers, getIdleOrReserve(t, s)
  PROVE  \A r \in Servers : Registered(r)' = Registered(r)
<1>1. CASE UNCHANGED <<idle, busy>>
  BY <1>1 DEF Registered
<1>2. ASSUME NEW c \in idle[s], getIdle(t, s, c)
      PROVE  \A r \in Servers : Registered(r)' = Registered(r)
  BY <1>2 DEF getIdle, Registered, TypeOK
<1> QED BY <1>1, <1>2 DEF getIdleOrReserve

\* Every step counts what it does: only a new connection is counted up, and
\* everything that leaves the lists is counted down.
LEMMA StepsCount ==
  ASSUME PoolInv, [Next]_vars
  PROVE  SsrQuiet \/ SsrLoses \/ \E t \in Threads : Connected(t)
<1> USE DEF PoolInv, serverVars, queueVars, ssrVars, connVars, localVars
<1>1. CASE UNCHANGED vars
  BY <1>1 DEF vars, SsrQuiet, Registered
<1>2. ASSUME NEW t \in Threads,
             Borrow(t) \/ checkClosed(t) \/ Healthy(t) \/ Dial(t) \/ ConnectFailed(t)
               \/ LoadSsrEnabledCount(t) \/ LoadSsrDisabledCount(t) \/ SetEnabled(t)
      PROVE  SsrQuiet
  BY <1>2 DEF Borrow, checkClosed, Healthy, Dial, ConnectFailed, LoadSsrEnabledCount,
              LoadSsrDisabledCount, SetEnabled, SsrQuiet, Registered
<1>3. ASSUME NEW t \in Threads,
             Enqueue(t) \/ WokenUp(t) \/ WaitTimeout(t) \/ Reset(t) \/ WakeWaiter(t)
      PROVE  SsrQuiet
  BY <1>3 DEF Enqueue, WokenUp, WaitTimeout, Reset, WakeWaiter, SsrQuiet, Registered
<1>4. ASSUME NEW t \in Threads, tryBorrow(t) \/ tryBorrowAgain(t)
      PROVE  SsrQuiet
  <2>1. todo[t] # <<>>
    BY <1>4 DEF tryBorrow, tryBorrowAgain, ControlOK
  <2>2. Head(todo[t]) \in Servers
    BY <2>1 DEF TypeOK
  <2>3. UNCHANGED ssrVars
    BY <1>4 DEF tryBorrow, tryBorrowAgain
  <2>4. UNCHANGED serverVars \/ getIdleOrReserve(t, Head(todo[t]))
    BY <1>4 DEF tryBorrow, tryBorrowAgain
  <2> QED BY <2>2, <2>3, <2>4, GetIdleOrReserveCounts DEF SsrQuiet, Registered
<1>5. ASSUME NEW t \in Threads, getPenaltiesForServers(t)
      PROVE  SsrQuiet \/ SsrLoses
  <2>1. CASE UNCHANGED <<idle, ssrVars>>
    BY <1>5, <2>1 DEF getPenaltiesForServers, SsrQuiet, Registered
  <2>2. CASE \E S : removeIdleOlderThan(S, AsOldAs(lifetimeMark))
    BY <1>5, <2>2, RemoveIdleCounts DEF getPenaltiesForServers
  <2> QED BY <1>5, <2>1, <2>2 DEF getPenaltiesForServers
<1>6. ASSUME NEW t \in Threads,
             Unhealthy(t) \/ DialFails(t) \/ HelloFails(t) \/ OnIoError(t) \/ OnNeo4jError(t)
               \/ ResetFails(t)
      PROVE  SsrQuiet \/ SsrLoses
  <2>1. (deactivate(srv[t]) \/ NoDeactivate) /\ UNCHANGED busy
    BY <1>6 DEF Unhealthy, DialFails, HelloFails, OnIoError, OnNeo4jError, ResetFails
  <2> QED BY <2>1, DeactivateCounts
<1>7. ASSUME NEW t \in Threads, DiscardUnhealthy(t) \/ ReturnDiscards(t)
      PROVE  SsrLoses
  <2>1. conn[t] # NoConn /\ pc[t] \in BusyPcs
    BY <1>7 DEF DiscardUnhealthy, ReturnDiscards, ControlOK, BusyPcs
  <2> QED BY <1>7, <2>1, UnregCounts DEF DiscardUnhealthy, ReturnDiscards
<1>8. ASSUME NEW t \in Threads, Return(t)
      PROVE  SsrLoses
  BY <1>8, RemoveIdleCounts DEF Return
<1>9. ASSUME NEW t \in Threads, ReturnBusy(t)
      PROVE  SsrQuiet \/ SsrLoses
  <2>1. conn[t] # NoConn /\ pc[t] \in BusyPcs
    BY <1>9 DEF ReturnBusy, ControlOK, BusyPcs
  <2>2. PICK s \in Servers : s = srv[t] /\ s \in servers /\ conn[t] \in busy[s]
    BY <2>1, ServerPinned DEF Placement
  <2>3. CASE ~closing[s]
    <3>1. /\ busy' = [busy EXCEPT ![s] = busy[s] \ {conn[t]}]
          /\ idle' = [idle EXCEPT ![s] = idle[s] \cup {conn[t]}]
          /\ UNCHANGED ssrVars
      BY <1>9, <2>2, <2>3 DEF ReturnBusy
    <3> QED BY <2>2, <3>1 DEF SsrQuiet, Registered, TypeOK
  <2>4. CASE closing[s]
    <3>1. /\ busy' = [busy EXCEPT ![s] = busy[s] \ {conn[t]}]
          /\ closeConnection(Only(s, {conn[t]}))
          /\ UNCHANGED idle
      BY <1>9, <2>2, <2>4 DEF ReturnBusy
    <3> QED BY <2>2, <3>1, DiscardCounts
  <2> QED BY <2>3, <2>4
<1>10. CASE CloseFlag \/ CloseWake \/ GrowOld \/ \E s \in Servers : ForgetFailedConnect(s)
  BY <1>10 DEF CloseFlag, CloseWake, GrowOld, ForgetFailedConnect, SsrQuiet, Registered
<1>11. CASE CloseServers \/ CleanUp
  BY <1>11, RemoveIdleCounts DEF CloseServers, startClosing, CleanUp
<1> QED
  BY <1>1, <1>2, <1>3, <1>4, <1>5, <1>6, <1>7, <1>8, <1>9, <1>10, <1>11
     DEF Next, Step, Environment, Close

\* The counters stay exact.
LEMMA SsrStep ==
  ASSUME PoolInv, SsrCountsExact, [Next]_vars
  PROVE  SsrCountsExact'
<1> DEFINE Plain == Servers \ SsrServers
<1> USE DEF PoolInv
<1>1. SsrServers \in SUBSET Servers /\ Plain \in SUBSET Servers
  BY PoolConstants DEF PoolConstants
<1>2. /\ ssrEnabledCount = Cardinality(Of(SsrServers))
      /\ ssrDisabledCount = Cardinality(Of(Plain))
  BY DEF SsrCountsExact, Of
<1> SUFFICES /\ ssrEnabledCount' = Cardinality(Of(SsrServers)')
             /\ ssrDisabledCount' = Cardinality(Of(Plain)')
  BY DEF SsrCountsExact, Of
<1>3. CASE SsrQuiet
  <2>1. Of(SsrServers)' = Of(SsrServers) /\ Of(Plain)' = Of(Plain)
    BY <1>1, <1>3, CountSame DEF SsrQuiet
  <2> QED BY <1>2, <1>3, <2>1 DEF SsrQuiet, ssrVars
<1>4. CASE SsrLoses
  <2>1. PICK gone : closeConnection(gone) /\ Loses(gone)
    BY <1>4 DEF SsrLoses
  <2>2. Cardinality(Of(SsrServers)')
          = Cardinality(Of(SsrServers)) - Cardinality(UNION {gone[s] : s \in SsrServers})
    BY <1>1, <2>1, CountLoses
  <2>3. Cardinality(Of(Plain)')
          = Cardinality(Of(Plain)) - Cardinality(UNION {gone[s] : s \in Plain})
    BY <1>1, <2>1, CountLoses
  <2> QED BY <1>2, <2>1, <2>2, <2>3 DEF closeConnection
<1>5. ASSUME NEW t \in Threads, Connected(t)
      PROVE  /\ ssrEnabledCount' = Cardinality(Of(SsrServers)')
             /\ ssrDisabledCount' = Cardinality(Of(Plain)')
  <2>1. pc[t] = "hello" /\ conn[t] # NoConn
    BY <1>5 DEF Connected, ControlOK
  <2>2. PICK s \in Servers : s = srv[t]
    BY <2>1, ServerPinned
  <2>3. \A r \in Servers : conn[t] \notin Registered(r)
    BY <2>1 DEF Placement, BusyPcs
  <2>4. /\ busy' = [busy EXCEPT ![s] = busy[s] \cup {conn[t]}] /\ UNCHANGED idle
        /\ ssrEnabledCount' = ssrEnabledCount + (IF s \in SsrServers THEN 1 ELSE 0)
        /\ ssrDisabledCount' = ssrDisabledCount + (IF s \in SsrServers THEN 0 ELSE 1)
    BY <1>5, <2>2 DEF Connected
  <2>5. /\ Registered(s)' = Registered(s) \cup {conn[t]}
        /\ \A r \in Servers \ {s} : Registered(r)' = Registered(r)
    BY <2>4 DEF Registered, TypeOK
  <2>6. Cardinality(Of(SsrServers)')
          = Cardinality(Of(SsrServers)) + (IF s \in SsrServers THEN 1 ELSE 0)
    BY <1>1, <2>3, <2>5, CountGains
  <2>7. Cardinality(Of(Plain)') = Cardinality(Of(Plain)) + (IF s \in Plain THEN 1 ELSE 0)
    BY <1>1, <2>3, <2>5, CountGains
  <2> HIDE DEF PoolInv
  <2> QED BY <1>2, <2>4, <2>6, <2>7
<1> QED BY <1>3, <1>4, <1>5, StepsCount

\* The unsigned SSR counters equal the number of registered connections of either
\* kind in every state: what Borrow counts up is counted down exactly once,
\* whichever of Return, deactivate, CleanUp and Close closes the connection.
THEOREM SsrCountsAreExact == Spec => []SsrCountsExact
<1>1. Init => SsrCountsExact
  <2> SUFFICES ASSUME Init PROVE SsrCountsExact
    OBVIOUS
  <2>1. \A s \in Servers : Registered(s) = {}
    BY DEF Init, Registered
  <2>2. /\ UNION {Registered(s) : s \in SsrServers} = {}
        /\ UNION {Registered(s) : s \in Servers \ SsrServers} = {}
    BY <2>1, PoolConstants DEF PoolConstants
  <2>3. Cardinality({}) = 0
    BY FS_EmptySet
  <2>4. ssrEnabledCount = 0 /\ ssrDisabledCount = 0
    BY DEF Init
  <2> QED BY <2>2, <2>3, <2>4 DEF SsrCountsExact
<1>2. PoolInv /\ SsrCountsExact /\ [Next]_vars => SsrCountsExact'
  BY SsrStep
<1> QED BY <1>1, <1>2, PoolInvariant, PTL DEF Spec

-----------------------------------------------------------------------------
(* The queue and the wakeup channels agree with the threads that wait.     *)

Distinct(q) == \A i, j \in DOMAIN q : i # j => q[i] # q[j]

Queued(q, t) == \E i \in DOMAIN q : q[i] = t

\* Without its front, a queue holds everyone else.
LEMMA TailQueue ==
  ASSUME NEW q \in Seq(Threads), q # <<>>, Distinct(q)
  PROVE  /\ Distinct(Tail(q))
         /\ Head(q) \in Threads /\ Queued(q, Head(q))
         /\ \A t \in Threads : Queued(Tail(q), t) <=> Queued(q, t) /\ t # Head(q)
<1>1. /\ Len(q) \in Nat \ {0} /\ DOMAIN q = 1..Len(q)
      /\ Head(q) = q[1] /\ Head(q) \in Threads
  BY EmptySeq, LenProperties, HeadTailProperties
<1>2. /\ DOMAIN Tail(q) = 1..(Len(q) - 1)
      /\ \A i \in 1..(Len(q) - 1) : Tail(q)[i] = q[i + 1]
  BY HeadTailProperties, LenProperties
<1>3. Distinct(Tail(q))
  BY <1>1, <1>2 DEF Distinct
<1>4. Queued(q, Head(q))
  BY <1>1 DEF Queued
<1>5. ASSUME NEW t \in Threads, Queued(Tail(q), t)
      PROVE  Queued(q, t) /\ t # Head(q)
  <2>1. PICK i \in 1..(Len(q) - 1) : Tail(q)[i] = t
    BY <1>2, <1>5 DEF Queued
  <2>2. i + 1 \in DOMAIN q /\ q[i + 1] = t /\ i + 1 # 1 /\ 1 \in DOMAIN q
    BY <1>1, <1>2, <2>1
  <2> QED BY <1>1, <2>2 DEF Queued, Distinct
<1>6. ASSUME NEW t \in Threads, Queued(q, t), t # Head(q)
      PROVE  Queued(Tail(q), t)
  <2>1. PICK i \in 1..Len(q) : q[i] = t
    BY <1>1, <1>6 DEF Queued
  <2>2. i - 1 \in 1..(Len(q) - 1) /\ q[(i - 1) + 1] = t
    BY <1>1, <1>6, <2>1
  <2> QED BY <1>2, <2>2 DEF Queued
<1> QED BY <1>1, <1>3, <1>4, <1>5, <1>6

\* With one more at the back, a queue holds that thread too.
LEMMA AppendQueue ==
  ASSUME NEW q \in Seq(Threads), NEW u \in Threads, Distinct(q), ~Queued(q, u)
  PROVE  /\ Distinct(Append(q, u))
         /\ \A t \in Threads : Queued(Append(q, u), t) <=> Queued(q, t) \/ t = u
<1>1. Len(q) \in Nat /\ DOMAIN q = 1..Len(q)
  BY LenProperties
<1>2. /\ DOMAIN Append(q, u) = 1..(Len(q) + 1)
      /\ \A i \in 1..Len(q) : Append(q, u)[i] = q[i]
      /\ Append(q, u)[Len(q) + 1] = u
  BY AppendProperties, LenProperties
<1>3. Distinct(Append(q, u))
  BY <1>1, <1>2 DEF Distinct, Queued
<1>4. \A t \in Threads : Queued(Append(q, u), t) <=> Queued(q, t) \/ t = u
  BY <1>1, <1>2 DEF Queued
<1> QED BY <1>3, <1>4

\* list.Remove takes the one thread out and leaves the others in their order.
LEMMA RemoveQueue ==
  ASSUME NEW q \in Seq(Threads), NEW k \in DOMAIN q, Distinct(q)
  PROVE  /\ Distinct(RemoveAt(q, k))
         /\ \A t \in Threads : Queued(RemoveAt(q, k), t) <=> Queued(q, t) /\ t # q[k]
<1>1. Len(q) \in Nat /\ DOMAIN q = 1..Len(q) /\ k \in 1..Len(q) /\ k \in Nat
      /\ \A i \in 1..Len(q) : q[i] \in Threads
  BY LenProperties, ElementOfSeq
<1> DEFINE a == SubSeq(q, 1, k - 1)
           b == SubSeq(q, k + 1, Len(q))
           r == RemoveAt(q, k)
<1>2. /\ a \in Seq(Threads) /\ Len(a) = k - 1
      /\ \A i \in 1..(k - 1) : a[i] = q[i]
  <2>1. \A i \in 1..(k - 1) : q[i] \in Threads
    BY <1>1
  <2>2. /\ a \in Seq(Threads)
        /\ Len(a) = IF 1 <= k - 1 THEN (k - 1) - 1 + 1 ELSE 0
        /\ \A i \in 1..((k - 1) - 1 + 1) : a[i] = q[1 + i - 1]
    BY <1>1, <2>1, SubSeqProperties
  <2> HIDE DEF a
  <2> QED BY <1>1, <2>2
<1>3. /\ b \in Seq(Threads) /\ Len(b) = Len(q) - k
      /\ \A i \in 1..(Len(q) - k) : b[i] = q[k + i]
  <2>1. \A i \in (k + 1)..Len(q) : q[i] \in Threads
    BY <1>1
  <2>2. /\ b \in Seq(Threads)
        /\ Len(b) = IF k + 1 <= Len(q) THEN Len(q) - (k + 1) + 1 ELSE 0
        /\ \A i \in 1..(Len(q) - (k + 1) + 1) : b[i] = q[(k + 1) + i - 1]
    BY <1>1, <2>1, SubSeqProperties
  <2> HIDE DEF b
  <2>3. Len(b) = Len(q) - k
    BY <1>1, <2>2
  <2>4. ASSUME NEW i \in 1..(Len(q) - k) PROVE b[i] = q[k + i]
    <3>1. i \in 1..(Len(q) - (k + 1) + 1) /\ (k + 1) + i - 1 = k + i
      BY <1>1
    <3> QED BY <2>2, <3>1
  <2> QED BY <2>2, <2>3, <2>4
<1>4. /\ r \in Seq(Threads) /\ Len(r) = Len(a) + Len(b)
      /\ \A i \in 1..(Len(a) + Len(b)) : r[i] = IF i <= Len(a) THEN a[i] ELSE b[i - Len(a)]
  <2>1. r = a \o b
    BY DEF RemoveAt
  <2> HIDE DEF a, b, r
  <2> QED BY <1>2, <1>3, <2>1, ConcatProperties
<1> HIDE DEF a, b, r
<1>5. DOMAIN r = 1..(Len(q) - 1)
  BY <1>1, <1>2, <1>3, <1>4, LenProperties
<1>6. \A i \in 1..(Len(q) - 1) : r[i] = IF i < k THEN q[i] ELSE q[i + 1]
  <2> SUFFICES ASSUME NEW i \in 1..(Len(q) - 1)
               PROVE  r[i] = IF i < k THEN q[i] ELSE q[i + 1]
    OBVIOUS
  <2>1. CASE i < k
    BY <1>1, <1>2, <1>3, <1>4, <2>1
  <2>2. CASE ~(i < k)
    <3>1. r[i] = b[i - (k - 1)]
      BY <1>1, <1>2, <1>3, <1>4, <2>2
    <3>2. i - (k - 1) \in 1..(Len(q) - k) /\ k + (i - (k - 1)) = i + 1
      BY <1>1, <2>2
    <3> QED BY <1>3, <2>2, <3>1, <3>2
  <2> QED BY <2>1, <2>2
<1>7. Distinct(r)
  <2> SUFFICES ASSUME NEW i \in 1..(Len(q) - 1), NEW j \in 1..(Len(q) - 1), i # j
               PROVE  r[i] # r[j]
    BY <1>5 DEF Distinct
  <2> DEFINE from(n) == IF n < k THEN n ELSE n + 1
  <2>1. from(i) \in DOMAIN q /\ from(j) \in DOMAIN q /\ from(i) # from(j)
    BY <1>1
  <2>2. r[i] = q[from(i)] /\ r[j] = q[from(j)]
    BY <1>6
  <2> QED BY <2>1, <2>2 DEF Distinct
<1>8. ASSUME NEW t \in Threads, Queued(r, t)
      PROVE  Queued(q, t) /\ t # q[k]
  <2>1. PICK i \in 1..(Len(q) - 1) : r[i] = t
    BY <1>5, <1>8 DEF Queued
  <2>2. PICK j \in 1..Len(q) : q[j] = t /\ j # k
    BY <1>1, <1>6, <2>1
  <2> QED BY <1>1, <2>2 DEF Queued, Distinct
<1>9. ASSUME NEW t \in Threads, Queued(q, t), t # q[k]
      PROVE  Queued(r, t)
  <2>1. PICK j \in 1..Len(q) : q[j] = t /\ j # k
    BY <1>1, <1>9 DEF Queued
  <2>2. CASE j < k
    BY <1>1, <1>5, <1>6, <2>1, <2>2 DEF Queued
  <2>3. CASE j > k
    <3>1. j - 1 \in 1..(Len(q) - 1) /\ ~(j - 1 < k) /\ (j - 1) + 1 = j
      BY <1>1, <2>1, <2>3
    <3>2. r[j - 1] = t
      BY <1>6, <2>1, <3>1
    <3> QED BY <1>5, <3>1, <3>2 DEF Queued
  <2> QED BY <1>1, <2>1, <2>2, <2>3
<1> QED BY <1>7, <1>8, <1>9 DEF r

\* QueueConsistent in these terms.
LEMMA QueueRead ==
  QueueConsistent <=>
    /\ Distinct(queue)
    /\ \A t \in Threads : /\ pc[t] = "waiting" <=> Queued(queue, t) \/ t \in wakeup
                          /\ ~(Queued(queue, t) /\ t \in wakeup)
BY DEF QueueConsistent, Distinct, Queued

\* A step that leaves the queue alone and makes nobody wait or stop waiting.
QueueQuiet ==
  UNCHANGED queueVars /\ \A t \in Threads : pc'[t] = "waiting" <=> pc[t] = "waiting"

\* A thread that does not wait before or after its step.
LEMMA GoesQuietly ==
  ASSUME TypeOK, NEW t \in Threads, pc[t] # "waiting", UNCHANGED queueVars,
         NEW l, l # "waiting", Goto(t, l)
  PROVE  QueueQuiet
BY DEF TypeOK, QueueQuiet, Goto

\* Every other step leaves the queue alone.
LEMMA StepsQueue ==
  ASSUME TypeOK, [Next]_vars
  PROVE  \/ QueueQuiet
         \/ \E t \in Threads : Enqueue(t) \/ WokenUp(t) \/ WaitTimeout(t) \/ WakeWaiter(t)
         \/ CloseWake
<1> USE DEF serverVars, queueVars, ssrVars, connVars, localVars
<1>1. CASE UNCHANGED vars
  BY <1>1 DEF vars, QueueQuiet
<1>2. ASSUME NEW t \in Threads,
             Borrow(t) \/ checkClosed(t) \/ Healthy(t) \/ Unhealthy(t) \/ Dial(t)
               \/ DialFails(t) \/ HelloFails(t) \/ Connected(t)
      PROVE  QueueQuiet
  <2>1. UNCHANGED queueVars /\ pc[t] # "waiting"
    BY <1>2 DEF Borrow, checkClosed, Healthy, Unhealthy, Dial, DialFails, HelloFails, Connected
  <2>2. \E l : l # "waiting" /\ Goto(t, l)
    BY <1>2 DEF Borrow, checkClosed, Healthy, Unhealthy, Dial, DialFails, HelloFails, Connected
  <2> QED BY <2>1, <2>2, GoesQuietly
<1>3. ASSUME NEW t \in Threads,
             LoadSsrEnabledCount(t) \/ LoadSsrDisabledCount(t) \/ SetEnabled(t)
               \/ Return(t) \/ Reset(t) \/ ResetFails(t) \/ getPenaltiesForServers(t)
      PROVE  QueueQuiet
  <2>1. UNCHANGED queueVars /\ pc[t] # "waiting"
    BY <1>3 DEF LoadSsrEnabledCount, LoadSsrDisabledCount, SetEnabled, Return, Reset,
                ResetFails, getPenaltiesForServers
  <2>2. \E l : l # "waiting" /\ Goto(t, l)
    BY <1>3 DEF LoadSsrEnabledCount, LoadSsrDisabledCount, SetEnabled, Return, Reset,
                ResetFails, getPenaltiesForServers
  <2> QED BY <2>1, <2>2, GoesQuietly
<1>4. ASSUME NEW t \in Threads, NEW outcome, NextServer(t, outcome)
      PROVE  \E l : l # "waiting" /\ Goto(t, l)
  BY <1>4 DEF NextServer
<1>5. ASSUME NEW t \in Threads,
             tryBorrow(t) \/ tryBorrowAgain(t) \/ DiscardUnhealthy(t) \/ ConnectFailed(t)
               \/ ReturnDiscards(t) \/ ReturnBusy(t)
      PROVE  QueueQuiet
  <2>1. UNCHANGED queueVars /\ pc[t] # "waiting"
    BY <1>5 DEF tryBorrow, tryBorrowAgain, DiscardUnhealthy, ConnectFailed, ReturnDiscards,
                ReturnBusy
  <2>2. \E l : l # "waiting" /\ Goto(t, l)
    <3>1. CASE tryBorrow(t) \/ tryBorrowAgain(t)
      BY <1>4, <3>1 DEF tryBorrow, tryBorrowAgain, getIdleOrReserve
    <3>2. CASE DiscardUnhealthy(t) \/ ConnectFailed(t)
      BY <1>4, <3>2 DEF DiscardUnhealthy, ConnectFailed
    <3>3. CASE ReturnDiscards(t) \/ ReturnBusy(t)
      BY <3>3 DEF ReturnDiscards, ReturnBusy, LetGo
    <3> QED BY <1>5, <3>1, <3>2, <3>3
  <2> QED BY <2>1, <2>2, GoesQuietly
<1>6. ASSUME NEW t \in Threads, OnIoError(t) \/ OnNeo4jError(t)
      PROVE  QueueQuiet
  BY <1>6 DEF OnIoError, OnNeo4jError, QueueQuiet
<1>7. CASE \/ CloseFlag \/ CloseServers \/ CleanUp \/ GrowOld
           \/ \E s \in Servers : ForgetFailedConnect(s)
  BY <1>7 DEF CloseFlag, CloseServers, CleanUp, GrowOld, ForgetFailedConnect, QueueQuiet
<1> QED
  BY <1>1, <1>2, <1>3, <1>5, <1>6, <1>7 DEF Next, Step, Environment, Close

\* Waking the front of the queue turns its place in the queue into a token.
LEMMA WakeFrontQueue ==
  ASSUME TypeOK, QueueConsistent, WakeFront,
         \A t \in Threads : pc'[t] = "waiting" <=> pc[t] = "waiting"
  PROVE  QueueConsistent'
<1>1. CASE queue = <<>> /\ UNCHANGED queueVars
  BY <1>1 DEF QueueConsistent, queueVars
<1>2. CASE queue # <<>> /\ queue' = Tail(queue) /\ wakeup' = wakeup \cup {Head(queue)}
  <2>1. queue \in Seq(Threads) /\ Distinct(queue)
    BY QueueRead DEF TypeOK
  <2>2. /\ Distinct(queue')
        /\ Head(queue) \in Threads /\ Queued(queue, Head(queue))
        /\ \A t \in Threads : Queued(queue', t) <=> Queued(queue, t) /\ t # Head(queue)
    BY <1>2, <2>1, TailQueue
  <2>3. \A t \in Threads : /\ pc'[t] = "waiting" <=> Queued(queue', t) \/ t \in wakeup'
                           /\ ~(Queued(queue', t) /\ t \in wakeup')
    BY <1>2, <2>2, QueueRead
  <2> QED BY <2>2, <2>3 DEF QueueConsistent, Distinct, Queued
<1> QED BY <1>1, <1>2 DEF WakeFront

\* Every step keeps the queue consistent.
LEMMA QueueStep ==
  ASSUME TypeOK, QueueConsistent, [Next]_vars
  PROVE  QueueConsistent'
<1>0. /\ queue \in Seq(Threads) /\ Distinct(queue)
      /\ \A t \in Threads : /\ pc[t] = "waiting" <=> Queued(queue, t) \/ t \in wakeup
                            /\ ~(Queued(queue, t) /\ t \in wakeup)
  BY QueueRead DEF TypeOK
<1>1. CASE QueueQuiet
  BY <1>1 DEF QueueQuiet, QueueConsistent, queueVars
<1>2. ASSUME NEW t \in Threads, Enqueue(t)
      PROVE  QueueConsistent'
  <2>1. CASE UNCHANGED queue /\ Goto(t, "loop")
    <3>1. QueueQuiet
      BY <1>2, <2>1, GoesQuietly DEF Enqueue, queueVars
    <3> QED BY <3>1 DEF QueueQuiet, QueueConsistent, queueVars
  <2>2. CASE queue' = Append(queue, t) /\ Goto(t, "waiting")
    <3>1. pc[t] # "waiting" /\ wakeup' = wakeup
      BY <1>2 DEF Enqueue
    <3>2. ~Queued(queue, t) /\ t \notin wakeup
      BY <1>0, <3>1
    <3>3. /\ Distinct(queue')
          /\ \A u \in Threads : Queued(queue', u) <=> Queued(queue, u) \/ u = t
      BY <1>0, <2>2, <3>2, AppendQueue
    <3>4. pc'[t] = "waiting" /\ \A u \in Threads \ {t} : pc'[u] = pc[u]
      BY <2>2 DEF Goto, TypeOK
    <3>5. \A u \in Threads : /\ pc'[u] = "waiting" <=> Queued(queue', u) \/ u \in wakeup'
                             /\ ~(Queued(queue', u) /\ u \in wakeup')
      BY <1>0, <3>1, <3>2, <3>3, <3>4
    <3> QED BY <3>3, <3>5 DEF QueueConsistent, Distinct, Queued
  <2> QED BY <1>2, <2>1, <2>2 DEF Enqueue
<1>3. ASSUME NEW t \in Threads, WokenUp(t)
      PROVE  QueueConsistent'
  <2>1. /\ t \in wakeup /\ wakeup' = wakeup \ {t} /\ queue' = queue
        /\ pc' = [pc EXCEPT ![t] = "loop"]
    BY <1>3 DEF WokenUp, Goto
  <2>2. pc'[t] = "loop" /\ \A u \in Threads \ {t} : pc'[u] = pc[u]
    BY <2>1 DEF TypeOK
  <2>3. \A u \in Threads : /\ pc'[u] = "waiting" <=> Queued(queue', u) \/ u \in wakeup'
                           /\ ~(Queued(queue', u) /\ u \in wakeup')
    BY <1>0, <2>1, <2>2
  <2> QED BY <1>0, <2>1, <2>3 DEF QueueConsistent, Distinct, Queued
<1>4. ASSUME NEW t \in Threads, WaitTimeout(t)
      PROVE  QueueConsistent'
  <2>1. CASE t \in wakeup
    <3>1. /\ queue' = IF queue = <<>> THEN queue ELSE Tail(queue)
          /\ wakeup' = (wakeup \ {t}) \cup {queue[i] : i \in DOMAIN queue \cap {1}}
          /\ pc' = [pc EXCEPT ![t] = "loop"]
      BY <1>4, <2>1 DEF WaitTimeout, Goto
    <3>2. pc'[t] = "loop" /\ \A u \in Threads \ {t} : pc'[u] = pc[u]
      BY <3>1 DEF TypeOK
    <3>3. CASE queue = <<>>
      <4>1. queue' = queue /\ wakeup' = wakeup \ {t}
        BY <3>1, <3>3
      <4>2. \A u \in Threads : /\ pc'[u] = "waiting" <=> Queued(queue', u) \/ u \in wakeup'
                               /\ ~(Queued(queue', u) /\ u \in wakeup')
        BY <1>0, <2>1, <3>2, <4>1
      <4> QED BY <1>0, <4>1, <4>2 DEF QueueConsistent, Distinct, Queued
    <3>4. CASE queue # <<>>
      <4>1. queue' = Tail(queue) /\ wakeup' = (wakeup \ {t}) \cup {Head(queue)}
        <5>1. DOMAIN queue = 1..Len(queue) /\ Len(queue) \in Nat \ {0} /\ Head(queue) = queue[1]
          BY <1>0, <3>4, EmptySeq, LenProperties
        <5>2. {queue[i] : i \in DOMAIN queue \cap {1}} = {Head(queue)}
          BY <5>1
        <5> QED BY <3>1, <3>4, <5>2
      <4>2. /\ Distinct(queue')
            /\ Head(queue) \in Threads /\ Queued(queue, Head(queue))
            /\ \A u \in Threads : Queued(queue', u) <=> Queued(queue, u) /\ u # Head(queue)
        BY <1>0, <3>4, <4>1, TailQueue
      <4>3. \A u \in Threads : /\ pc'[u] = "waiting" <=> Queued(queue', u) \/ u \in wakeup'
                               /\ ~(Queued(queue', u) /\ u \in wakeup')
        BY <1>0, <2>1, <3>2, <4>1, <4>2
      <4> QED BY <4>2, <4>3 DEF QueueConsistent, Distinct, Queued
    <3> QED BY <3>3, <3>4
  <2>2. CASE t \notin wakeup
    <3>1. PICK i \in DOMAIN queue : queue[i] = t /\ queue' = RemoveAt(queue, i)
      BY <1>4, <2>2 DEF WaitTimeout
    <3>2. wakeup' = wakeup /\ pc' = [pc EXCEPT ![t] = "out"]
      BY <1>4, <2>2 DEF WaitTimeout, Goto
    <3>3. pc'[t] = "out" /\ \A u \in Threads \ {t} : pc'[u] = pc[u]
      BY <3>2 DEF TypeOK
    <3>4. /\ Distinct(queue')
          /\ \A u \in Threads : Queued(queue', u) <=> Queued(queue, u) /\ u # t
      BY <1>0, <3>1, RemoveQueue
    <3>5. \A u \in Threads : /\ pc'[u] = "waiting" <=> Queued(queue', u) \/ u \in wakeup'
                             /\ ~(Queued(queue', u) /\ u \in wakeup')
      BY <1>0, <2>2, <3>2, <3>3, <3>4
    <3> QED BY <3>4, <3>5 DEF QueueConsistent, Distinct, Queued
  <2> QED BY <2>1, <2>2
<1>5. ASSUME NEW t \in Threads, WakeWaiter(t)
      PROVE  QueueConsistent'
  <2>1. \A u \in Threads : pc'[u] = "waiting" <=> pc[u] = "waiting"
    BY <1>5 DEF WakeWaiter, Goto, TypeOK
  <2> QED BY <1>5, <2>1, WakeFrontQueue DEF WakeWaiter
<1>6. CASE CloseWake
  BY <1>6, WakeFrontQueue DEF CloseWake
<1> QED BY <1>1, <1>2, <1>3, <1>4, <1>5, <1>6, StepsQueue

\* A goroutine that waits is in the queue once or has its token, never both, and
\* nobody else is: the sends of Return and Close on wakeup channels never block,
\* even when a context ends while the token is on its way.
THEOREM QueueIsConsistent == Spec => []QueueConsistent
<1>1. Init => QueueConsistent
  BY DEF Init, QueueConsistent
<1>2. TypeOK /\ QueueConsistent /\ [Next]_vars => QueueConsistent'
  BY QueueStep
<1> QED BY <1>1, <1>2, TypeCorrect, PTL DEF Spec

-----------------------------------------------------------------------------
(* A closed pool keeps nothing.                                            *)

\* A hypothesis on the behaviour: no goroutine is in tryBorrow's second round once the
\* pool is closed.  It leaves out the fault at pool.go:333, where tryBorrow goes on after
\* a failed health check without looking at p.closed.
NoRetryAfterClose == closePc = "done" => \A t \in Threads : pc[t] # "retry"

\* What Close leaves behind: nothing idle, and servers that close what is returned.
Drained ==
  closePc = "done" => \A s \in Servers : idle[s] = {} /\ (s \in servers => closing[s])

\* A step that puts nothing on an idle list, adds no server and clears no closing flag.
Drains ==
  /\ closePc' = closePc /\ servers' \subseteq servers
  /\ \A s \in Servers : idle'[s] \subseteq idle[s] /\ (closing[s] => closing'[s])

\* deactivate only closes.
LEMMA DeactivateDrains ==
  ASSUME TypeOK, NEW s, deactivate(s) \/ NoDeactivate, UNCHANGED <<closePc, servers>>
  PROVE  Drains
<1>1. CASE deactivate(s)
  BY <1>1 DEF deactivate, startClosing, removeIdleOlderThan, Drains, TypeOK
<1>2. CASE NoDeactivate
  BY <1>2 DEF NoDeactivate, Drains
<1> QED BY <1>1, <1>2

\* A server that leaves the map takes nothing with it.
LEMMA UnregDrains ==
  ASSUME NEW s, NEW c, unregLocked(s, c), UNCHANGED closePc
  PROVE  Drains
<1>1. servers' \subseteq servers /\ UNCHANGED <<idle, closing>>
  BY DEF unregLocked
<1> QED BY <1>1 DEF Drains

\* Which steps could do anything else.
LEMMA StepsDrain ==
  ASSUME TypeOK, [Next]_vars
  PROVE  \/ Drains
         \/ closePc' # "done"
         \/ CloseServers
         \/ \E t \in Threads : tryBorrowAgain(t) \/ ReturnBusy(t)
<1> USE DEF serverVars, queueVars, ssrVars, connVars, localVars
<1>1. CASE UNCHANGED vars
  BY <1>1 DEF vars, Drains
<1>2. ASSUME NEW t \in Threads,
             Borrow(t) \/ checkClosed(t) \/ Healthy(t) \/ Dial(t) \/ ConnectFailed(t) \/ Connected(t)
      PROVE  Drains
  BY <1>2 DEF Borrow, checkClosed, Healthy, Dial, ConnectFailed, Connected, Drains
<1>3. ASSUME NEW t \in Threads,
             LoadSsrEnabledCount(t) \/ LoadSsrDisabledCount(t) \/ SetEnabled(t) \/ Reset(t)
               \/ Enqueue(t) \/ WokenUp(t) \/ WaitTimeout(t) \/ WakeWaiter(t)
      PROVE  Drains
  BY <1>3 DEF LoadSsrEnabledCount, LoadSsrDisabledCount, SetEnabled, Reset, Enqueue, WokenUp,
              WaitTimeout, WakeWaiter, Drains
<1>4. ASSUME NEW t \in Threads,
             Unhealthy(t) \/ DialFails(t) \/ HelloFails(t) \/ OnIoError(t) \/ OnNeo4jError(t)
               \/ ResetFails(t)
      PROVE  Drains
  <2>1. UNCHANGED <<closePc, servers>> /\ (deactivate(srv[t]) \/ NoDeactivate)
    BY <1>4 DEF Unhealthy, DialFails, HelloFails, OnIoError, OnNeo4jError, ResetFails
  <2> QED BY <2>1, DeactivateDrains
<1>5. ASSUME NEW t \in Threads, DiscardUnhealthy(t) \/ ReturnDiscards(t)
      PROVE  Drains
  <2>1. unregLocked(srv[t], conn[t]) /\ UNCHANGED closePc
    BY <1>5 DEF DiscardUnhealthy, ReturnDiscards
  <2> QED BY <2>1, UnregDrains
<1>6. ASSUME NEW S, NEW old, removeIdleOlderThan(S, old)
      PROVE  \A s \in Servers : idle'[s] \subseteq idle[s]
  BY <1>6 DEF removeIdleOlderThan
<1>7. ASSUME NEW t \in Threads, getPenaltiesForServers(t)
      PROVE  Drains
  <2>1. \A s \in Servers : idle'[s] \subseteq idle[s]
    BY <1>6, <1>7 DEF getPenaltiesForServers
  <2> QED BY <1>7, <2>1 DEF getPenaltiesForServers, Drains
<1>8. ASSUME NEW t \in Threads, Return(t)
      PROVE  Drains
  <2>1. \A s \in Servers : idle'[s] \subseteq idle[s]
    BY <1>6, <1>8 DEF Return
  <2> QED BY <1>8, <2>1 DEF Return, Drains
<1>9. ASSUME NEW t \in Threads, tryBorrow(t)
      PROVE  Drains \/ closePc' # "done"
  <2>1. CASE UNCHANGED serverVars
    BY <1>9, <2>1 DEF tryBorrow, Drains
  <2>2. CASE FALSE \in closed
    BY <1>9, <2>2 DEF tryBorrow, closed
  <2> QED BY <1>9, <2>1, <2>2 DEF tryBorrow
<1>10. CASE CleanUp
  <2>1. \A s \in Servers : idle'[s] \subseteq idle[s]
    BY <1>6, <1>10 DEF CleanUp
  <2> QED BY <1>10, <2>1 DEF CleanUp, Drains
<1>11. CASE CloseFlag \/ CloseWake
  BY <1>11 DEF CloseFlag, CloseWake
<1>12. CASE GrowOld \/ \E s \in Servers : ForgetFailedConnect(s)
  BY <1>12 DEF GrowOld, ForgetFailedConnect, Drains
<1> QED
  BY <1>1, <1>2, <1>3, <1>4, <1>5, <1>7, <1>8, <1>9, <1>10, <1>11, <1>12
     DEF Next, Step, Environment, Close

\* Every step leaves a closed pool drained.
LEMMA DrainedStep ==
  ASSUME PoolInv, NoRetryAfterClose, Drained, [Next]_vars
  PROVE  Drained'
<1>0. TypeOK
  BY DEF PoolInv
<1>1. CASE Drains
  BY <1>1 DEF Drains, Drained
<1>2. CASE closePc' # "done"
  BY <1>2 DEF Drained
<1>3. CASE CloseServers
  <2>1. /\ servers' = servers
        /\ closing' = [s \in Servers |-> s \in servers \/ closing[s]]
        /\ idle' = [s \in Servers |-> IF s \in servers THEN idle[s] \ Conns ELSE idle[s]]
    BY <1>3 DEF CloseServers, startClosing, removeIdleOlderThan
  <2>2. ASSUME NEW s \in Servers, s \notin servers
        PROVE  idle[s] = {}
    <3>1. size(s) = 0 /\ reservations[s] = Cardinality(Connecting(s))
      BY <2>2 DEF PoolInv, ReservationsExact, Connecting
    <3>2. /\ IsFiniteSet(idle[s]) /\ Cardinality(idle[s]) \in Nat /\ Cardinality(busy[s]) \in Nat
          /\ Cardinality(Connecting(s)) \in Nat
      BY <1>0, SizeType, ConnectingFinite
    <3>3. Cardinality(idle[s]) = 0
      BY <3>1, <3>2 DEF size
    <3> QED BY <3>2, <3>3, FS_EmptySet
  <2>3. \A s \in Servers : idle[s] \subseteq Conns
    BY <1>0 DEF TypeOK
  <2> QED BY <2>1, <2>2, <2>3 DEF Drained
<1>4. ASSUME NEW t \in Threads, tryBorrowAgain(t)
      PROVE  Drained'
  BY <1>4 DEF tryBorrowAgain, NoRetryAfterClose, Drained
<1>5. ASSUME NEW t \in Threads, ReturnBusy(t)
      PROVE  Drained'
  <2>1. closePc' = closePc /\ closing' = closing /\ servers' \subseteq servers
    BY <1>5 DEF ReturnBusy
  <2>2. CASE closePc = "done"
    <3>1. srv[t] \in servers => closing[srv[t]]
      BY <1>0, <2>2 DEF TypeOK, Drained
    <3>2. idle' = idle
      BY <1>5, <3>1 DEF ReturnBusy
    <3> QED BY <2>1, <3>2 DEF Drained
  <2>3. CASE closePc # "done"
    BY <2>1, <2>3 DEF Drained
  <2> QED BY <2>2, <2>3
<1> QED BY <1>0, <1>1, <1>2, <1>3, <1>4, <1>5, StepsDrain

\* A closed pool has no idle connection and never gets one again, also when connections
\* that were in use, or were being opened, when Close ran are returned after it.
THEOREM ClosedPoolIsEmpty == Spec /\ []NoRetryAfterClose => []NoIdleAfterClose
<1>1. Init => Drained
  BY DEF Init, Drained
<1>2. PoolInv /\ NoRetryAfterClose /\ Drained /\ [Next]_vars => Drained'
  BY DrainedStep
<1>3. Drained => NoIdleAfterClose
  BY DEF Drained, NoIdleAfterClose
<1> QED BY <1>1, <1>2, <1>3, PoolInvariant, PTL DEF Spec

-----------------------------------------------------------------------------
(* Nobody waits without someone who will wake him.                         *)

\* Hypotheses on the behaviour: the pool is not closed, and no borrower gives up because
\* connecting or a health check failed.  They leave out the faults at pool.go:103 and
\* pool.go:327, where capacity is freed and nobody is told.
Undisturbed ==
  closePc = "open" /\ \A t \in Threads : pc[t] \notin {"connectFailed", "unhealthy"}

\* And no server leaves the map, which leaves out the fault at pool.go:258.
ServersStay == [][servers \subseteq servers']_vars

\* A thread that ends up in WakeFront, or in the queue with someone else who does.
Notifies(t) ==
  \/ t \in wakeup
  \/ pc[t] \in BusyPcs \cup ConnectPcs \cup {"wake"}
  \/ t \notin NoWait /\ pc[t] \in {"loop", "penalties", "try", "retry", "enqueue"}

Lookout == queue # <<>> => \E t \in Threads : Notifies(t)

Listed(q, s) == \E i \in DOMAIN q : q[i] = s

\* A borrower queues only after it tried every server it was given.
Tried ==
  \A t \in Threads :
    /\ pc[t] \in {"enqueue", "waiting"} => t \notin NoWait
    /\ pc[t] \in {"try", "retry", "enqueue"} =>
         names[t] # {} /\ \A s \in names[t] : s \in servers \/ Listed(todo[t], s)
    /\ pc[t] = "enqueue" => todo[t] = <<>>

\* The servers in the order of their penalties are all of them.
LEMMA SortedAll ==
  ASSUME NEW S \in SUBSET Servers, NEW idleAfter, NEW order \in SortedByPenalty(S, idleAfter)
  PROVE  \A s \in S : Listed(order, s)
<1>1. IsFiniteSet(S) /\ Cardinality(S) \in Nat
  BY PoolConstants, FS_Subset, FS_CardinalityType DEF PoolConstants
<1> DEFINE D == 1 .. Cardinality(S)
<1>2. order \in [D -> S] /\ \A i, j \in D : i # j => order[i] # order[j]
  BY DEF SortedByPenalty
<1>3. IsFiniteSet(D) /\ Cardinality(D) = Cardinality(S)
  BY <1>1, FS_Interval
<1> HIDE DEF D
<1>4. order \in Injection(D, S)
  BY <1>2 DEF Injection, IsInjective
<1>5. order \in Surjection(D, S)
  BY <1>1, <1>3, <1>4, FS_Injection
<1> QED BY <1>5 DEF Surjection, Listed

\* Without its head, a list still has everything else.
LEMMA ListedTail ==
  ASSUME NEW q \in Seq(Servers), q # <<>>, NEW s, Listed(q, s), s # Head(q)
  PROVE  Len(q) > 1 /\ Listed(Tail(q), s)
<1>1. /\ Len(q) \in Nat \ {0} /\ DOMAIN q = 1..Len(q) /\ Head(q) = q[1]
  BY EmptySeq, LenProperties, HeadTailProperties
<1>2. /\ DOMAIN Tail(q) = 1..(Len(q) - 1)
      /\ \A i \in 1..(Len(q) - 1) : Tail(q)[i] = q[i + 1]
  BY HeadTailProperties, LenProperties
<1>3. PICK i \in 1..Len(q) : q[i] = s
  BY <1>1 DEF Listed
<1>4. i - 1 \in 1..(Len(q) - 1) /\ (i - 1) + 1 = i
  BY <1>1, <1>3
<1>5. Tail(q)[i - 1] = s /\ i - 1 \in DOMAIN Tail(q)
  BY <1>2, <1>3, <1>4
<1>6. Len(q) > 1
  BY <1>1, <1>4
<1> QED BY <1>5, <1>6 DEF Listed

\* A full server has a borrower, or someone who is connecting to it.
LEMMA FullIsUsed ==
  ASSUME PoolInv, Kept, NEW s \in Servers, idle[s] = {}, ~hasRoom(s)
  PROVE  \E t \in Threads : pc[t] \in BusyPcs \cup ConnectPcs
<1> USE DEF PoolInv
<1>1. /\ Cardinality(busy[s]) \in Nat /\ reservations[s] = Cardinality(Connecting(s))
      /\ Cardinality(Connecting(s)) \in Nat /\ Cardinality(idle[s]) = 0
  BY SizeType, ConnectingFinite, FS_EmptySet DEF ReservationsExact, Connecting
<1>2. Cardinality(busy[s]) # 0 \/ Cardinality(Connecting(s)) # 0
  BY <1>1, PoolConstants DEF hasRoom, size, PoolConstants
<1>3. CASE Cardinality(Connecting(s)) # 0
  <2>1. Connecting(s) # {}
    BY <1>3, FS_EmptySet
  <2> QED BY <2>1 DEF Connecting
<1>4. CASE Cardinality(busy[s]) # 0
  <2>1. PICK c \in busy[s] : TRUE
    BY <1>4, FS_EmptySet
  <2>2. c \in Conns /\ c \in 1..nextConn /\ c # NoConn
    <3>1. c \in Conns
      BY <2>1 DEF TypeOK
    <3>2. c <= nextConn
      BY <2>1 DEF Placement, Registered
    <3> QED BY <3>1, <3>2 DEF Conns, NoConn, TypeOK
  <2>3. c \notin released /\ \A r \in Servers : c \notin idle[r]
    BY <2>1 DEF Placement, Registered
  <2>4. PICK t \in Threads : conn[t] = c
    BY <2>2, <2>3 DEF Kept
  <2>5. pc[t] \in BusyPcs
    BY <2>1, <2>2, <2>4 DEF Placement, Registered
  <2> QED BY <2>5
<1> QED BY <1>2, <1>3, <1>4

\* What a step of t may do to it: everyone else is left alone.
Alone(t) == \A u \in Threads \ {t} : pc'[u] = pc[u] /\ names'[u] = names[u] /\ todo'[u] = todo[u]

\* The server that was tried last is in the map; the next one is tried, or all have been.
TriedNext(t) ==
  /\ pc'[t] \in {"try", "enqueue", "out"}
  /\ t \in NoWait => pc'[t] # "enqueue"
  /\ pc'[t] = "out" => t \in NoWait
  /\ pc'[t] \in {"try", "enqueue"} =>
       names'[t] # {} /\ \A s \in names'[t] : s \in servers \/ Listed(todo'[t], s)
  /\ pc'[t] = "enqueue" => todo'[t] = <<>>

\* NextServer after a full server does that.
LEMMA NextServerTried ==
  ASSUME TypeOK, ControlOK, Tried, NEW t \in Threads, pc[t] \in {"try", "retry"},
         Head(todo[t]) \in servers, NextServer(t, "nil")
  PROVE  TriedNext(t) /\ Alone(t)
<1>1. todo[t] \in Seq(Servers) /\ todo[t] # <<>>
  BY DEF TypeOK, ControlOK
<1>2. names[t] # {} /\ \A s \in names[t] : s \in servers \/ Listed(todo[t], s)
  BY DEF Tried
<1>3. \A s \in names[t] : s \in servers \/ (Len(todo[t]) > 1 /\ Listed(Tail(todo[t]), s))
  BY <1>1, <1>2, ListedTail
<1>4. CASE Len(todo[t]) > 1
  <2>1. /\ pc' = [pc EXCEPT ![t] = "try"] /\ todo' = [todo EXCEPT ![t] = Tail(todo[t])]
        /\ names' = names
    BY <1>4 DEF NextServer, Goto
  <2>2. pc'[t] = "try" /\ todo'[t] = Tail(todo[t]) /\ Alone(t)
    BY <2>1 DEF TypeOK, Alone
  <2> QED BY <1>2, <1>3, <2>1, <2>2 DEF TriedNext
<1>5. CASE ~(Len(todo[t]) > 1)
  <2>1. /\ todo' = [todo EXCEPT ![t] = <<>>]
        /\ \/ t \notin NoWait /\ pc' = [pc EXCEPT ![t] = "enqueue"] /\ names' = names
           \/ t \in NoWait /\ pc' = [pc EXCEPT ![t] = "out"] /\ names' = [names EXCEPT ![t] = {}]
    BY <1>5 DEF NextServer, Goto
  <2>2. todo'[t] = <<>> /\ Alone(t)
    BY <2>1 DEF TypeOK, Alone
  <2>3. \/ t \notin NoWait /\ pc'[t] = "enqueue" /\ names'[t] = names[t]
        \/ t \in NoWait /\ pc'[t] = "out"
    BY <2>1 DEF TypeOK
  <2> QED BY <1>2, <1>3, <1>5, <2>2, <2>3 DEF TriedNext
<1> QED BY <1>4, <1>5

\* Tried for one thread.
TriedBy(t) ==
  /\ pc[t] \in {"enqueue", "waiting"} => t \notin NoWait
  /\ pc[t] \in {"try", "retry", "enqueue"} =>
       names[t] # {} /\ \A s \in names[t] : s \in servers \/ Listed(todo[t], s)
  /\ pc[t] = "enqueue" => todo[t] = <<>>

\* A step of t after which t still notifies if it did.
Advances(t) ==
  /\ UNCHANGED queueVars /\ Alone(t)
  /\ Notifies(t) => Notifies(t)'
  /\ TriedBy(t)'

\* A thread that borrows, connects or returns notifies.
LEMMA GoesBusy ==
  ASSUME TypeOK, NEW t \in Threads, NEW l \in BusyPcs \cup ConnectPcs \cup {"wake"}, Goto(t, l),
         UNCHANGED queueVars,
         \A u \in Threads \ {t} : names'[u] = names[u] /\ todo'[u] = todo[u]
  PROVE  Advances(t)
<1>1. pc'[t] = l /\ \A u \in Threads \ {t} : pc'[u] = pc[u]
  BY DEF TypeOK, Goto
<1>2. l \notin {"enqueue", "waiting", "try", "retry"}
  BY DEF BusyPcs, ConnectPcs
<1> QED BY <1>1, <1>2 DEF Advances, Alone, Notifies, TriedBy

\* The critical section of tryBorrow finds a connection, or a place for one, or a server
\* that is full.
LEMMA GetIdleOrReserveAdvances ==
  ASSUME TypeOK, ControlOK, Tried, NEW t \in Threads, pc[t] \in {"try", "retry"},
         getIdleOrReserve(t, Head(todo[t])), UNCHANGED queueVars, servers \subseteq servers'
  PROVE  Advances(t)
<1>1. CASE Goto(t, "health") /\ UNCHANGED <<names, todo>>
  BY <1>1, GoesBusy DEF BusyPcs
<1>2. CASE Goto(t, "dial") /\ UNCHANGED <<names, todo>>
  BY <1>2, GoesBusy DEF ConnectPcs
<1>3. CASE Head(todo[t]) \in servers /\ NextServer(t, "nil")
  <2>1. TriedNext(t) /\ Alone(t)
    BY <1>3, NextServerTried
  <2>2. TriedBy(t)'
    BY <2>1 DEF TriedNext, TriedBy
  <2>3. Notifies(t) => Notifies(t)'
    BY <2>1 DEF TriedNext, Notifies, queueVars, BusyPcs, ConnectPcs
  <2> QED BY <2>1, <2>2, <2>3 DEF Advances
<1> QED BY <1>1, <1>2, <1>3 DEF getIdleOrReserve

\* Every step is such a step of a thread, except those that touch the queue.
LEMMA StepsAdvance ==
  ASSUME PoolInv, Tried, Undisturbed, Undisturbed', {} \notin ServerLists,
         servers \subseteq servers', [Next]_vars
  PROVE  \/ \E t \in Threads : Advances(t)
         \/ UNCHANGED <<pc, names, todo, queue, wakeup>>
         \/ \E t \in Threads : Enqueue(t) \/ WokenUp(t) \/ WaitTimeout(t) \/ WakeWaiter(t)
<1>0. TypeOK /\ ControlOK
  BY DEF PoolInv
<1> USE DEF serverVars, queueVars, ssrVars, connVars, localVars
<1>1. CASE UNCHANGED vars
  BY <1>1 DEF vars
<1>2. ASSUME NEW t \in Threads,
             Healthy(t) \/ Unhealthy(t) \/ Dial(t) \/ DialFails(t) \/ HelloFails(t) \/ Connected(t)
      PROVE  Advances(t)
  <2>1. \E l \in BusyPcs \cup ConnectPcs : Goto(t, l)
    BY <1>2 DEF Healthy, Unhealthy, Dial, DialFails, HelloFails, Connected, BusyPcs, ConnectPcs
  <2>2. UNCHANGED queueVars
    BY <1>2 DEF Healthy, Unhealthy, Dial, DialFails, HelloFails, Connected
  <2>3. \A u \in Threads \ {t} : names'[u] = names[u] /\ todo'[u] = todo[u]
    BY <1>0, <1>2 DEF Healthy, Unhealthy, Dial, DialFails, HelloFails, Connected, TypeOK
  <2> QED BY <1>0, <2>1, <2>2, <2>3, GoesBusy
<1>3. ASSUME NEW t \in Threads,
             LoadSsrEnabledCount(t) \/ LoadSsrDisabledCount(t) \/ SetEnabled(t) \/ Return(t)
               \/ Reset(t) \/ ResetFails(t) \/ ReturnDiscards(t) \/ ReturnBusy(t)
      PROVE  Advances(t)
  <2>1. \E l \in BusyPcs \cup {"wake"} : Goto(t, l)
    BY <1>3 DEF LoadSsrEnabledCount, LoadSsrDisabledCount, SetEnabled, Return, Reset, ResetFails,
                ReturnDiscards, ReturnBusy, LetGo, BusyPcs
  <2>2. UNCHANGED <<queueVars, names, todo>>
    BY <1>3 DEF LoadSsrEnabledCount, LoadSsrDisabledCount, SetEnabled, Return, Reset, ResetFails,
                ReturnDiscards, ReturnBusy
  <2> QED BY <1>0, <2>1, <2>2, GoesBusy
<1>4. ASSUME NEW t \in Threads, Borrow(t) \/ checkClosed(t)
      PROVE  Advances(t)
  <2>1. UNCHANGED <<names, todo, queue, wakeup>>
    BY <1>4 DEF Borrow, checkClosed
  <2>2. \/ pc[t] = "out" /\ pc' = [pc EXCEPT ![t] = "loop"]
        \/ pc[t] = "loop" /\ pc' = [pc EXCEPT ![t] = "penalties"]
    BY <1>4 DEF Borrow, checkClosed, closed, Undisturbed, Goto
  <2>3. /\ pc'[t] \in {"loop", "penalties"} /\ pc[t] \in {"out", "loop"}
        /\ \A u \in Threads \ {t} : pc'[u] = pc[u]
    BY <1>0, <2>2 DEF TypeOK
  <2> QED BY <2>1, <2>3 DEF Advances, Alone, Notifies, TriedBy, BusyPcs, ConnectPcs
<1>5. ASSUME NEW t \in Threads, getPenaltiesForServers(t)
      PROVE  Advances(t)
  <2>0. PICK S \in ServerLists :
          /\ S # {} /\ names' = [names EXCEPT ![t] = S] /\ pc' = [pc EXCEPT ![t] = "try"]
          /\ \E order \in SortedByPenalty(S, idle') : todo' = [todo EXCEPT ![t] = order]
    BY <1>5 DEF getPenaltiesForServers, Goto
  <2>1. PICK order \in SortedByPenalty(S, idle') : todo' = [todo EXCEPT ![t] = order]
    BY <2>0
  <2>2. pc[t] = "penalties" /\ UNCHANGED queueVars
    BY <1>5 DEF getPenaltiesForServers
  <2>3. pc'[t] = "try" /\ names'[t] = S /\ todo'[t] = order /\ Alone(t)
    BY <1>0, <2>0, <2>1 DEF TypeOK, Alone
  <2>4. \A s \in S : Listed(order, s)
    BY <2>1, SortedAll, PoolConstants DEF PoolConstants
  <2>5. TriedBy(t)'
    BY <2>0, <2>3, <2>4 DEF TriedBy
  <2>6. Notifies(t) => Notifies(t)'
    BY <2>2, <2>3 DEF Notifies, BusyPcs, ConnectPcs
  <2> QED BY <2>2, <2>3, <2>5, <2>6 DEF Advances
<1>6. ASSUME NEW t \in Threads, tryBorrow(t) \/ tryBorrowAgain(t)
      PROVE  Advances(t)
  <2>1. getIdleOrReserve(t, Head(todo[t])) /\ UNCHANGED queueVars /\ pc[t] \in {"try", "retry"}
    BY <1>6 DEF tryBorrow, tryBorrowAgain, closed, Undisturbed
  <2> QED BY <1>0, <2>1, GetIdleOrReserveAdvances
<1>7. ASSUME NEW t \in Threads, DiscardUnhealthy(t) \/ ConnectFailed(t)
      PROVE  FALSE
  BY <1>7 DEF DiscardUnhealthy, ConnectFailed, Undisturbed
<1>8. ASSUME NEW t \in Threads, OnIoError(t) \/ OnNeo4jError(t)
      PROVE  UNCHANGED <<pc, names, todo, queue, wakeup>>
  BY <1>8 DEF OnIoError, OnNeo4jError
<1>9. CASE CleanUp \/ GrowOld \/ \E s \in Servers : ForgetFailedConnect(s)
  BY <1>9 DEF CleanUp, GrowOld, ForgetFailedConnect
<1>10. ~Close
  BY DEF Close, CloseFlag, CloseWake, CloseServers, Undisturbed
<1> QED
  BY <1>1, <1>2, <1>3, <1>4, <1>5, <1>6, <1>7, <1>8, <1>9, <1>10 DEF Next, Step, Environment

\* Every step leaves a notifier for who waits.
LEMMA LookoutStep ==
  ASSUME PoolInv, Kept, Tried, Lookout, Undisturbed, Undisturbed',
         {} \notin ServerLists, servers \subseteq servers', [Next]_vars
  PROVE  Tried' /\ Lookout'
<1>0. TypeOK /\ ControlOK /\ queue \in Seq(Threads)
  BY DEF PoolInv, TypeOK
<1>1. ASSUME NEW t \in Threads, Alone(t), TriedBy(t)'
      PROVE  Tried'
  <2>1. ASSUME NEW u \in Threads PROVE TriedBy(u)'
    <3>1. CASE u = t
      BY <1>1, <3>1
    <3>2. CASE u # t
      BY <1>1, <3>2 DEF Alone, TriedBy, Tried
    <3> QED BY <3>1, <3>2
  <2> QED BY <2>1 DEF Tried, TriedBy
<1>2. ASSUME NEW t \in Threads, Advances(t)
      PROVE  Tried' /\ Lookout'
  <2>1. \A u \in Threads : Notifies(u) => Notifies(u)'
    BY <1>2 DEF Advances, Alone, Notifies, queueVars
  <2> QED BY <1>1, <1>2, <2>1 DEF Advances, Lookout, queueVars
<1>3. CASE UNCHANGED <<pc, names, todo, queue, wakeup>>
  BY <1>3 DEF Tried, Lookout, Notifies, Listed
<1>4. ASSUME NEW t \in Threads, Enqueue(t)
      PROVE  Tried' /\ Lookout'
  <2>0. /\ pc[t] = "enqueue" /\ t \notin NoWait /\ names[t] # {} /\ names[t] \subseteq servers
        /\ UNCHANGED <<wakeup, todo>> /\ names' = [names EXCEPT ![t] = {}]
    <3>1. names[t] # {} /\ \A s \in names[t] : s \in servers \/ Listed(<<>>, s)
      BY <1>4 DEF Enqueue, Tried
    <3>2. \A s : ~Listed(<<>>, s)
      BY DEF Listed
    <3> QED BY <1>4, <3>1, <3>2 DEF Enqueue, Tried
  <2>1. CASE Goto(t, "loop") /\ UNCHANGED queue
    <3>1. pc'[t] = "loop" /\ Alone(t)
      BY <1>0, <2>0, <2>1 DEF Goto, TypeOK, Alone
    <3>2. Notifies(t)' /\ TriedBy(t)'
      BY <2>0, <3>1 DEF Notifies, TriedBy
    <3> QED BY <1>1, <3>1, <3>2 DEF Lookout
  <2>2. CASE ~anyHasCapacity(names[t]) /\ Goto(t, "waiting")
    <3>1. pc'[t] = "waiting" /\ Alone(t)
      BY <1>0, <2>0, <2>2 DEF Goto, TypeOK, Alone
    <3>2. TriedBy(t)'
      BY <2>0, <3>1 DEF TriedBy
    <3>3. PICK s \in names[t] : s \in servers /\ s \in Servers /\ idle[s] = {} /\ ~hasRoom(s)
      BY <1>0, <2>0, <2>2 DEF anyHasCapacity, TypeOK
    <3>4. PICK u \in Threads : pc[u] \in BusyPcs \cup ConnectPcs
      BY <3>3, FullIsUsed
    <3>5. u # t
      BY <2>0, <3>4 DEF BusyPcs, ConnectPcs
    <3>6. Notifies(u)'
      BY <3>1, <3>4, <3>5 DEF Notifies, Alone
    <3> QED BY <1>1, <3>1, <3>2, <3>6 DEF Lookout
  <2> QED BY <1>4, <2>1, <2>2 DEF Enqueue
<1>5. ASSUME NEW t \in Threads, pc[t] = "waiting", pc' = [pc EXCEPT ![t] = "loop"],
             UNCHANGED <<names, todo>>
      PROVE  Tried' /\ Lookout'
  <2>1. pc'[t] = "loop" /\ Alone(t) /\ t \notin NoWait
    BY <1>0, <1>5 DEF TypeOK, Alone, Tried
  <2>2. Notifies(t)' /\ TriedBy(t)'
    BY <2>1 DEF Notifies, TriedBy
  <2> QED BY <1>1, <2>1, <2>2 DEF Lookout
<1>6. ASSUME NEW t \in Threads, WokenUp(t)
      PROVE  Tried' /\ Lookout'
  BY <1>5, <1>6 DEF WokenUp, Goto, localVars
<1>7. ASSUME NEW t \in Threads, WaitTimeout(t)
      PROVE  Tried' /\ Lookout'
  <2>1. CASE t \in wakeup
    BY <1>5, <1>7, <2>1 DEF WaitTimeout, Goto, localVars
  <2>2. CASE t \notin wakeup
    <3>1. /\ pc[t] = "waiting" /\ pc' = [pc EXCEPT ![t] = "out"] /\ queue # <<>>
          /\ UNCHANGED <<wakeup, names, todo>>
      BY <1>7, <2>2 DEF WaitTimeout, Goto, localVars
    <3>2. pc'[t] = "out" /\ Alone(t)
      BY <1>0, <3>1 DEF TypeOK, Alone
    <3>3. PICK u \in Threads : Notifies(u)
      BY <3>1 DEF Lookout
    <3>4. u # t
      BY <2>2, <3>1, <3>3 DEF Notifies, BusyPcs, ConnectPcs
    <3>5. Notifies(u)'
      BY <3>1, <3>2, <3>3, <3>4 DEF Notifies, Alone
    <3>6. TriedBy(t)'
      BY <3>2 DEF TriedBy
    <3> QED BY <1>1, <3>2, <3>5, <3>6 DEF Lookout
  <2> QED BY <2>1, <2>2
<1>8. ASSUME NEW t \in Threads, WakeWaiter(t)
      PROVE  Tried' /\ Lookout'
  <2>1. pc' = [pc EXCEPT ![t] = "out"] /\ WakeFront /\ UNCHANGED <<names, todo>>
    BY <1>8 DEF WakeWaiter, Goto, localVars
  <2>2. pc'[t] = "out" /\ Alone(t)
    BY <1>0, <2>1 DEF TypeOK, Alone
  <2>3. TriedBy(t)'
    BY <2>2 DEF TriedBy
  <2>4. CASE queue = <<>>
    BY <1>1, <2>1, <2>2, <2>3, <2>4 DEF WakeFront, queueVars, Lookout
  <2>5. CASE queue # <<>>
    <3>1. Head(queue) \in Threads
      BY <1>0, <2>5
    <3>2. PICK u \in Threads : u \in wakeup'
      BY <2>1, <2>5, <3>1 DEF WakeFront, queueVars
    <3>3. Notifies(u)'
      BY <3>2 DEF Notifies
    <3> QED BY <1>1, <2>2, <2>3, <3>3 DEF Lookout
  <2> QED BY <2>4, <2>5
<1> QED BY <1>2, <1>3, <1>4, <1>6, <1>7, <1>8, StepsAdvance

\* The second look at the capacity leaves no gap: as long as someone waits, someone else
\* will wake the front of the queue, for any number of goroutines and servers, with
\* contexts that end, connections that break in use or grow old, and clean-ups.
THEOREM WaitersHaveNotifiers ==
  ASSUME {} \notin ServerLists
  PROVE  Spec /\ []Undisturbed /\ ServersStay => []WaiterHasNotifier
<1>1. Init => Tried /\ Lookout /\ Kept
  BY DEF Init, Tried, Lookout, Kept
<1>2. PoolInv /\ PoolInv' /\ Kept /\ [Next]_vars => Kept'
  BY Moves, KeptStep DEF PoolInv
<1>3. /\ PoolInv /\ Kept /\ Tried /\ Lookout /\ Undisturbed /\ Undisturbed'
      /\ [Next]_vars /\ [servers \subseteq servers']_vars
      => Tried' /\ Lookout'
  <2>1. [servers \subseteq servers']_vars => servers \subseteq servers'
    BY DEF vars, serverVars
  <2> QED BY <2>1, LookoutStep
<1>4. Lookout => WaiterHasNotifier
  BY DEF Lookout, WaiterHasNotifier, Notifies, BusyPcs, ConnectPcs
<1> QED
  BY <1>1, <1>2, <1>3, <1>4, PoolInvariant, PTL DEF Spec, ServersStay
=============================================================================
