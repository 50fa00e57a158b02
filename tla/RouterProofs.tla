---------------------------- MODULE RouterProofs ----------------------------
(***************************************************************************)
(* Proofs about Router, for every set of goroutines, databases, users and  *)
(* servers: the updates of the routing tables are shared, Router is well   *)
(* typed, a caller gets the table of its own database, a retry gets a      *)
(* later table, and no update gives up before the initial router was       *)
(* asked.                                                                  *)
(***************************************************************************)
EXTENDS Router, FiniteSetTheorems, SequenceTheorems, TLAPS

-----------------------------------------------------------------------------
(* Shared updates.  SingleFlight counts the updaters of a key.  The        *)
(* inductive invariant says the same with quantifiers, and adds what the   *)
(* steps need: a caller of GetNameOfDefaultDatabase never comes near       *)
(* r.updating, and everyone else works on one of the Selections, so that   *)
(* its key is one of Keys.                                                 *)

UpdatePcs == {"read", "ask", "store", "done"}
OtherPcs  == {"out", "check", "waiting", "got"}

Updating(t, k) == pc[t] \in UpdatePcs /\ op[t] # "default" /\ Key(sel[t]) = k

FlightTypes ==
  /\ updating \subseteq Keys /\ waiters \in [Keys -> SUBSET Threads]
  /\ pc \in [Threads -> UpdatePcs \cup OtherPcs]
  /\ op \in [Threads -> Ops]
  /\ DOMAIN sel = Threads /\ sel = [t \in Threads |-> sel[t]]

\* Which calls are where, and whose database they ask for.
Callers ==
  \A t \in Threads :
    /\ op[t] = "default" => pc[t] \in UpdatePcs
    /\ op[t] # "default" /\ pc[t] # "out" => sel[t] \in Selections

\* A marked key has one updater, an unmarked key has none.
OneUpdater ==
  /\ \A t \in Threads, k \in Keys : Updating(t, k) => k \in updating
  /\ \A k \in updating : \E t \in Threads : Updating(t, k)
  /\ \A t, u \in Threads, k \in Keys : Updating(t, k) /\ Updating(u, k) => t = u

\* The waiters of a key wait for a marked key, and it is theirs.
Waiters ==
  \A k \in Keys :
    /\ waiters[k] # {} => k \in updating
    /\ \A t \in waiters[k] : pc[t] = "waiting" /\ Key(sel[t]) = k

FlightInv == FlightTypes /\ Callers /\ OneUpdater /\ Waiters

-----------------------------------------------------------------------------
\* The key of a selection of the callers is one of the keys.
LEMMA KeyType == ASSUME NEW s \in Selections PROVE Key(s) \in Keys
BY DEF Keys

\* A step that leaves r.updating alone and moves one goroutine within the
\* update, or within the rest of its call, keeps the invariant.
LEMMA MovesWithin ==
  ASSUME FlightInv, NEW t \in Threads, UNCHANGED <<updateVars, op, sel>>,
         NEW l \in UpdatePcs \cup OtherPcs, pc' = [pc EXCEPT ![t] = l],
         \/ pc[t] \in UpdatePcs /\ l \in UpdatePcs
         \/ pc[t] \in OtherPcs \ {"out", "waiting"} /\ l \in OtherPcs \ {"out", "waiting"}
  PROVE  FlightInv'
<1> USE DEF updateVars, UpdatePcs, OtherPcs
<1>1. FlightTypes'
  BY DEF FlightInv, FlightTypes
<1>2. Callers'
  BY DEF FlightInv, FlightTypes, Callers
<1>3. \A u \in Threads : sel'[u] = sel[u] /\ \A k : Updating(u, k)' <=> Updating(u, k)
  BY DEF FlightInv, FlightTypes, Updating
<1>4. OneUpdater'
  BY <1>3 DEF FlightInv, OneUpdater
<1>5. Waiters'
  BY <1>3 DEF FlightInv, FlightTypes, Waiters
<1> QED BY <1>1, <1>2, <1>4, <1>5 DEF FlightInv

\* So does the end of a call that is neither updating nor waiting any more.
LEMMA LeavesQuietly ==
  ASSUME FlightInv, NEW t \in Threads, UNCHANGED updateVars, Leave(t),
         \/ pc[t] \in UpdatePcs /\ op[t] = "default"
         \/ pc[t] \in OtherPcs /\ \A k \in Keys : t \notin waiters[k]
  PROVE  FlightInv'
<1> USE DEF updateVars, UpdatePcs, OtherPcs, Leave, Goto, Ops
<1>1. FlightTypes'
  BY DEF FlightInv, FlightTypes
<1>2. Callers'
  BY DEF FlightInv, FlightTypes, Callers
<1>3. \A u \in Threads : \A k : Updating(u, k)' <=> Updating(u, k)
  BY DEF FlightInv, FlightTypes, Updating
<1>4. OneUpdater'
  BY <1>3 DEF FlightInv, OneUpdater
<1>5. Waiters'
  <2>1. \A k \in Keys : t \notin waiters[k] /\ waiters[k] \subseteq Threads
    BY DEF FlightInv, FlightTypes, Waiters
  <2>2. \A u \in Threads \ {t} : pc'[u] = pc[u] /\ sel'[u] = sel[u]
    BY DEF FlightInv, FlightTypes
  <2> QED BY <2>1, <2>2 DEF FlightInv, Waiters
<1> QED BY <1>1, <1>2, <1>4, <1>5 DEF FlightInv

-----------------------------------------------------------------------------
\* A new call is nobody's updater and nobody's waiter.
LEMMA CallsInv ==
  ASSUME FlightInv, NEW t \in Threads, GetOrUpdate(t) \/ GetNameOfDefaultDatabase(t)
  PROVE  FlightInv'
<1> USE DEF updateVars, UpdatePcs, OtherPcs, Goto, Ops, GetOrUpdate, GetNameOfDefaultDatabase
<1>1. FlightTypes'
  BY DEF FlightInv, FlightTypes
<1>2. Callers'
  BY DEF FlightInv, FlightTypes, Callers
<1>3. \A u \in Threads : \A k : Updating(u, k)' <=> Updating(u, k)
  BY DEF FlightInv, FlightTypes, Updating
<1>4. OneUpdater'
  BY <1>3 DEF FlightInv, OneUpdater
<1>5. Waiters'
  <2>1. \A u \in Threads \ {t} : pc'[u] = pc[u] /\ sel'[u] = sel[u]
    BY DEF FlightInv, FlightTypes
  <2>2. \A k \in Keys : t \notin waiters[k]
    BY DEF FlightInv, Waiters
  <2>3. \A k \in Keys : waiters[k] \subseteq Threads
    BY DEF FlightInv, FlightTypes
  <2> QED BY <2>1, <2>2, <2>3 DEF FlightInv, Waiters
<1> QED BY <1>1, <1>2, <1>4, <1>5 DEF FlightInv

\* The critical section that decides between the cache, waiting and updating.
LEMMA GetOrUpdateTableInv ==
  ASSUME FlightInv, NEW t \in Threads, getOrUpdateTable(t)
  PROVE  FlightInv'
<1> DEFINE k == Key(sel[t])
<1>0. pc[t] = "check" /\ op[t] # "default" /\ sel[t] \in Selections
      /\ UNCHANGED <<op, sel>> /\ k \in Keys
  <2>1. pc[t] = "check" /\ UNCHANGED <<op, sel>>
    BY DEF getOrUpdateTable, callVars
  <2>2. op[t] # "default" /\ sel[t] \in Selections
    BY <2>1 DEF FlightInv, Callers, UpdatePcs
  <2> QED BY <2>1, <2>2, KeyType
<1> HIDE DEF k
<1>1. CASE Goto(t, "got") /\ UNCHANGED updateVars
  BY <1>0, <1>1, MovesWithin DEF Goto, OtherPcs, UpdatePcs
<1>2. CASE /\ k \in updating /\ waiters' = [waiters EXCEPT ![k] = @ \cup {t}]
           /\ Goto(t, "waiting") /\ UNCHANGED updating
  <2> USE <1>0, <1>2 DEF Goto, UpdatePcs, OtherPcs
  <2>1. FlightTypes'
    BY DEF FlightInv, FlightTypes
  <2>2. Callers'
    BY DEF FlightInv, FlightTypes, Callers
  <2>3. \A u \in Threads : \A j : Updating(u, j)' <=> Updating(u, j)
    BY DEF FlightInv, FlightTypes, Updating
  <2>4. OneUpdater'
    BY <2>3 DEF FlightInv, OneUpdater
  <2>5. Waiters'
    <3>1. \A j \in Keys : waiters'[j] \subseteq waiters[j] \cup {t}
      BY DEF FlightInv, FlightTypes
    <3>2. \A j \in Keys \ {k} : waiters'[j] = waiters[j]
      BY DEF FlightInv, FlightTypes
    <3>3. pc'[t] = "waiting" /\ \A u \in Threads \ {t} : pc'[u] = pc[u]
      BY DEF FlightInv, FlightTypes
    <3>4. \A j \in Keys : waiters[j] \subseteq Threads
      BY DEF FlightInv, FlightTypes
    <3> QED BY <3>1, <3>2, <3>3, <3>4 DEF FlightInv, Waiters, k
  <2> QED BY <2>1, <2>2, <2>4, <2>5 DEF FlightInv
<1>3. CASE /\ k \notin updating /\ updating' = updating \cup {k}
           /\ Goto(t, "read") /\ UNCHANGED waiters
  <2> USE <1>0, <1>3 DEF Goto, UpdatePcs, OtherPcs
  <2>1. FlightTypes'
    BY DEF FlightInv, FlightTypes
  <2>2. Callers'
    BY DEF FlightInv, FlightTypes, Callers
  <2>3. /\ \A u \in Threads \ {t} : \A j : Updating(u, j)' <=> Updating(u, j)
        /\ \A j : Updating(t, j)' <=> j = k
    BY DEF FlightInv, FlightTypes, Updating, k
  <2>4. \A j : ~Updating(t, j)
    BY DEF Updating
  <2>5. OneUpdater'
    BY <2>3, <2>4 DEF FlightInv, OneUpdater
  <2>6. Waiters'
    <3>1. \A j \in Keys : t \notin waiters[j] /\ waiters[j] \subseteq Threads
      BY DEF FlightInv, FlightTypes, Waiters
    <3>2. \A u \in Threads \ {t} : pc'[u] = pc[u]
      BY DEF FlightInv, FlightTypes
    <3> QED BY <3>1, <3>2 DEF FlightInv, Waiters
  <2> QED BY <2>1, <2>2, <2>5, <2>6 DEF FlightInv
<1> QED BY <1>1, <1>2, <1>3 DEF getOrUpdateTable, updateVars, k

\* The updater of a key ends the update: the key is free, its waiters are told.
LEMMA UpdateDoneInv ==
  ASSUME FlightInv, NEW t \in Threads, UpdateDone(t)
  PROVE  FlightInv'
<1> DEFINE k == Key(sel[t])
<1>0. /\ pc[t] = "done" /\ op[t] # "default" /\ sel[t] \in Selections
      /\ updating' = updating \ {k} /\ waiters' = [waiters EXCEPT ![k] = {}]
      /\ (Goto(t, "got") /\ UNCHANGED <<op, sel>>) \/ Leave(t)
  BY DEF UpdateDone, FlightInv, Callers, callVars
<1>1. k \in Keys /\ Updating(t, k)
  BY <1>0, KeyType DEF Updating, UpdatePcs
<1> HIDE DEF k
<1>2. /\ pc'[t] \in {"got", "out"} /\ op'[t] \in {op[t], "readers"}
      /\ pc'[t] = "got" => op'[t] = op[t] /\ sel'[t] = sel[t]
      /\ \A u \in Threads \ {t} : pc'[u] = pc[u] /\ op'[u] = op[u] /\ sel'[u] = sel[u]
  BY <1>0 DEF Goto, Leave, FlightInv, FlightTypes
<1>3. FlightTypes'
  <2>1. updating' \subseteq Keys /\ waiters' \in [Keys -> SUBSET Threads]
    BY <1>0, <1>1 DEF FlightInv, FlightTypes
  <2>2. CASE Goto(t, "got") /\ UNCHANGED <<op, sel>>
    BY <2>1, <2>2 DEF Goto, FlightInv, FlightTypes, OtherPcs
  <2>3. CASE Leave(t)
    BY <2>1, <2>3 DEF Goto, Leave, FlightInv, FlightTypes, OtherPcs, Ops
  <2> QED BY <1>0, <2>2, <2>3
<1>4. Callers'
  BY <1>0, <1>2 DEF FlightInv, Callers, UpdatePcs
<1>5. /\ \A u \in Threads \ {t} : \A j : Updating(u, j)' <=> Updating(u, j)
      /\ \A j : ~Updating(t, j)'
  BY <1>2 DEF Updating, UpdatePcs
<1>6. \A j : Updating(t, j) => j = k
  BY DEF Updating, k
<1>7. OneUpdater'
  BY <1>0, <1>1, <1>5, <1>6 DEF FlightInv, OneUpdater, FlightTypes
<1>8. Waiters'
  <2>1. waiters'[k] = {} /\ \A j \in Keys \ {k} : waiters'[j] = waiters[j]
    BY <1>0, <1>1 DEF FlightInv, FlightTypes
  <2>2. \A j \in Keys : t \notin waiters[j] /\ waiters[j] \subseteq Threads
    BY <1>0 DEF FlightInv, FlightTypes, Waiters
  <2> QED BY <1>0, <1>2, <2>1, <2>2 DEF FlightInv, Waiters
<1> QED BY <1>3, <1>4, <1>7, <1>8 DEF FlightInv

-----------------------------------------------------------------------------
\* Every step of the specification keeps the invariant.
LEMMA FlightStep == FlightInv /\ [Next]_vars => FlightInv'
<1> SUFFICES ASSUME FlightInv, [Next]_vars PROVE FlightInv'
  OBVIOUS
<1> USE DEF UpdatePcs, OtherPcs
<1>1. ASSUME NEW t \in Threads, GetOrUpdate(t) \/ GetNameOfDefaultDatabase(t)
      PROVE  FlightInv'
  BY <1>1, CallsInv
<1>2. ASSUME NEW t \in Threads, getOrUpdateTable(t) PROVE FlightInv'
  BY <1>2, GetOrUpdateTableInv
<1>3. ASSUME NEW t \in Threads, WokenUp(t) PROVE FlightInv'
  <2> USE DEF updateVars, callVars, Goto, WokenUp
  <2>1. op[t] # "default"
    BY <1>3 DEF FlightInv, Callers
  <2>2. FlightTypes'
    BY <1>3 DEF FlightInv, FlightTypes
  <2>3. Callers'
    BY <1>3, <2>1 DEF FlightInv, FlightTypes, Callers
  <2>4. \A u \in Threads : \A k : Updating(u, k)' <=> Updating(u, k)
    BY <1>3 DEF FlightInv, FlightTypes, Updating
  <2>5. OneUpdater'
    BY <1>3, <2>4 DEF FlightInv, OneUpdater
  <2>6. Waiters'
    BY <1>3 DEF FlightInv, FlightTypes, Waiters
  <2> QED BY <2>2, <2>3, <2>5, <2>6 DEF FlightInv
<1>4. ASSUME NEW t \in Threads, WaitTimeout(t) PROVE FlightInv'
  <2> USE DEF Leave, Goto, WaitTimeout
  <2>1. FlightTypes'
    <3>1. waiters' \in [Keys -> SUBSET Threads]
      BY <1>4 DEF FlightInv, FlightTypes
    <3> QED BY <1>4, <3>1 DEF FlightInv, FlightTypes, Ops
  <2>2. Callers'
    BY <1>4 DEF FlightInv, FlightTypes, Callers
  <2>3. \A u \in Threads : \A k : Updating(u, k)' <=> Updating(u, k)
    BY <1>4 DEF FlightInv, FlightTypes, Updating
  <2>4. OneUpdater'
    BY <1>4, <2>3 DEF FlightInv, OneUpdater
  <2>5. Waiters'
    <3>1. \A k \in Keys : waiters'[k] = waiters[k] \ {t} /\ waiters[k] \subseteq Threads
      BY <1>4 DEF FlightInv, FlightTypes
    <3>2. \A u \in Threads \ {t} : pc'[u] = pc[u] /\ sel'[u] = sel[u]
      BY <1>4 DEF FlightInv, FlightTypes
    <3> QED BY <1>4, <3>1, <3>2 DEF FlightInv, Waiters
  <2> QED BY <2>1, <2>2, <2>4, <2>5 DEF FlightInv
<1>5. ASSUME NEW t \in Threads, BookmarksFail(t) \/ readTable(t) \/ storeRoutingTable(t)
      PROVE  FlightInv'
  <2>1. /\ pc[t] \in UpdatePcs /\ UNCHANGED <<updateVars, op, sel>>
        /\ \E l \in UpdatePcs : pc' = [pc EXCEPT ![t] = l]
    BY <1>5 DEF BookmarksFail, readTable, storeRoutingTable, Fail, Ask, Goto, callVars
  <2> QED BY <2>1, MovesWithin
<1>6. ASSUME NEW t \in Threads,
             \/ AskUnreachable(t) \/ AskFails(t) \/ AskTimesOut(t) \/ AskFatal(t)
             \/ AskAnswered(t)
      PROVE  FlightInv'
  <2>1. pc[t] = "ask" /\ UNCHANGED <<updateVars, op, sel>>
    BY <1>6 DEF AskUnreachable, AskFails, AskTimesOut, AskFatal, AskAnswered, callVars
  <2>2. NextStage(t) => \E l \in {"ask", "done"} : Goto(t, l)
    BY DEF NextStage, Ask, Fail
  <2>3. NextRouter(t) => \E l \in {"ask", "done"} : Goto(t, l)
    <3>1. UNCHANGED pc => Goto(t, "ask")
      BY <2>1 DEF Goto, FlightInv, FlightTypes
    <3> QED BY <2>2, <3>1 DEF NextRouter
  <2>4. \E l \in UpdatePcs : Goto(t, l)
    BY <1>6, <2>2, <2>3
       DEF AskUnreachable, AskFails, AskTimesOut, AskFatal, AskAnswered, Fail
  <2> QED BY <2>1, <2>4, MovesWithin DEF Goto
<1>7. ASSUME NEW t \in Threads, UpdateDone(t) PROVE FlightInv'
  BY <1>7, UpdateDoneInv
<1>8. ASSUME NEW t \in Threads, DefaultDatabaseDone(t) PROVE FlightInv'
  BY <1>8, LeavesQuietly DEF DefaultDatabaseDone
<1>9. ASSUME NEW t \in Threads, ReturnServers(t) PROVE FlightInv'
  <2>1. \A k \in Keys : t \notin waiters[k]
    BY <1>9 DEF ReturnServers, FlightInv, Waiters
  <2> QED BY <1>9, <2>1, LeavesQuietly DEF ReturnServers
<1>10. ASSUME NEW t \in Threads, RetryEmpty(t) PROVE FlightInv'
  BY <1>10, MovesWithin DEF RetryEmpty, Goto
<1>11. CASE UNCHANGED <<updateVars, pc, op, sel>>
  <2>1. \A u, k : Updating(u, k)' <=> Updating(u, k)
    BY <1>11 DEF Updating
  <2> QED BY <1>11, <2>1
          DEF FlightInv, FlightTypes, Callers, OneUpdater, Waiters, updateVars
<1>12. CASE \/ \E s \in Servers :
                 \/ InvalidateServer(s)
                 \/ \E d \in Names : InvalidateWriter(d, s) \/ InvalidateReader(d, s)
            \/ CleanUp
            \/ \E d \in Names : Expire(d)
  BY <1>11, <1>12
     DEF InvalidateServer, InvalidateWriter, InvalidateReader, CleanUp, Expire, callVars
<1>13. CASE UNCHANGED vars
  BY <1>11, <1>13 DEF vars, callVars
<1> QED BY <1>1, <1>2, <1>3, <1>4, <1>5, <1>6, <1>7, <1>8, <1>9, <1>10, <1>12, <1>13
        DEF Next, Step

\* The invariant counts the updaters as SingleFlight does.
LEMMA FlightCount == FlightInv => SingleFlight
<1> SUFFICES ASSUME FlightInv, NEW k \in Keys
             PROVE  /\ Cardinality(Updaters(k)) = (IF k \in updating THEN 1 ELSE 0)
                    /\ waiters[k] # {} => k \in updating
                    /\ \A t \in waiters[k] : pc[t] = "waiting" /\ Key(sel[t]) = k
  BY DEF SingleFlight
<1>1. \A t \in Threads : t \in Updaters(k) <=> Updating(t, k)
  BY DEF Updaters, Updating, UpdatePcs
<1>2. Updaters(k) \subseteq Threads
  BY DEF Updaters
<1>3. CASE k \in updating
  <2>1. PICK t \in Threads : Updating(t, k)
    BY <1>3 DEF FlightInv, OneUpdater
  <2>2. Updaters(k) = {t}
    BY <1>1, <1>2, <2>1 DEF FlightInv, OneUpdater
  <2>3. Cardinality({t}) = 1
    BY FS_Singleton
  <2> QED BY <1>3, <2>2, <2>3 DEF FlightInv, Waiters
<1>4. CASE k \notin updating
  <2>1. Updaters(k) = {}
    BY <1>1, <1>2, <1>4 DEF FlightInv, OneUpdater
  <2>2. Cardinality({}) = 0
    BY FS_EmptySet
  <2> QED BY <1>4, <2>1, <2>2 DEF FlightInv, Waiters
<1> QED BY <1>3, <1>4

\* For any number of goroutines, databases and users: a routing table is read by
\* one goroutine at a time, its key is marked in r.updating exactly as long, and
\* whoever waits on a channel there waits for a goroutine that will close it.
THEOREM UpdatesAreShared == Spec => []SingleFlight
<1>1. Init => FlightInv
  BY DEF Init, FlightInv, FlightTypes, Callers, OneUpdater, Waiters, Updating,
         UpdatePcs, OtherPcs, Ops
<1> QED BY <1>1, FlightStep, FlightCount, PTL DEF Spec

-----------------------------------------------------------------------------
(* What the routing tables hold and who gets which.                        *)

Table == [database : Names, array : Seq(Servers), len : Nat,
          readers : SUBSET Servers, writers : SUBSET Servers]

\* A list of routers is never longer than the array it stands on.
TablesOK ==
  /\ tables \in Seq(Table)
  /\ \A i \in 1..Len(tables) : tables[i].len <= Len(tables[i].array)

\* What refers to a table refers to one that was read.
RefsOK ==
  /\ dbRouters \in [Names -> 0..Len(tables)]
  /\ old \in [Threads -> 0..Len(tables)] /\ tab \in [Threads -> 0..Len(tables)]

LocalsOK ==
  /\ due \in [Names -> {"future", "now", "past"}]
  /\ updating \subseteq Keys /\ waiters \in [Keys -> SUBSET Threads]
  /\ pc \in [Threads -> {"out", "check", "waiting", "read", "ask", "store", "done", "got"}]
  /\ op \in [Threads -> Ops]
  /\ sel \in [Threads -> [name : Names, guess : BOOLEAN, user : Users]]
  /\ stage \in [Threads -> {"none", "known", "root", "custom"}]
  /\ pos \in [Threads -> Nat] /\ last \in [Threads -> Nat]
  /\ failed \in [Threads -> {"no", "fatal", "exhausted"}]
  /\ retries \in [Threads -> 0..MissingRetries]
  /\ \A t \in Threads : pc[t] # "out" /\ op[t] # "default" => retries[t] > 0
  /\ unasked \in [Threads -> SUBSET Servers]

Types == TablesOK /\ RefsOK /\ LocalsOK

\* The table i is one that t may get: of the database it named, or of a home
\* database of its user.
Answers(t, i) ==
  /\ i # NoTable
  /\ tables[i].database \in
       IF targetDatabase(t) = Home THEN HomeDbs[sel[t].user] ELSE {sel[t].name}

\* The cache holds every table under the database it is for.
CacheOwned == \A d \in Names : dbRouters[d] # NoTable => tables[dbRouters[d]].database = d

\* A goroutine that has read a table has read one it asked for; it may also have
\* found the table of the database it named or guessed in the cache.
OwnedBy(t) ==
  /\ pc[t] = "store" => Answers(t, tab[t])
  /\ pc[t] = "done" /\ failed[t] = "no" => Answers(t, tab[t])
  /\ pc[t] = "got" =>
       /\ tab[t] # NoTable
       /\ Answers(t, tab[t]) \/ tables[tab[t]].database = sel[t].name

Owned == CacheOwned /\ \A t \in Threads : OwnedBy(t)

-----------------------------------------------------------------------------
(* The tables.                                                             *)

\* removeServerFromList keeps the shared array as long as it was: the list gets
\* shorter, never longer than the array.
LEMMA RemoveRouterType ==
  ASSUME NEW tb \in Table, tb.len <= Len(tb.array), NEW s
  PROVE  /\ RemoveRouter(tb, s) \in Table
         /\ RemoveRouter(tb, s).len <= Len(RemoveRouter(tb, s).array)
         /\ RemoveRouter(tb, s).database = tb.database
<1> DEFINE at == {i \in 1..tb.len : tb.array[i] = s}
           i == CHOOSE i \in at : \A j \in at : i <= j
           arr == [j \in DOMAIN tb.array |->
                     tb.array[IF i <= j /\ j < tb.len THEN j + 1 ELSE j]]
           r == [tb EXCEPT !.len = @ - 1, !.array = arr]
<1>1. CASE at = {}
  BY <1>1 DEF RemoveRouter
<1>2. CASE at # {}
  <2>1. RemoveRouter(tb, s) = r
    BY <1>2 DEF RemoveRouter
  <2>2. tb.len \in Nat \ {0} /\ tb.array \in Seq(Servers) /\ Len(tb.array) \in Nat
    BY <1>2 DEF Table
  <2>3. DOMAIN tb.array = 1..Len(tb.array) /\ \A j \in 1..Len(tb.array) : tb.array[j] \in Servers
    BY <2>2, LenProperties, ElementOfSeq
  <2> HIDE DEF i
  <2>4. arr \in [1..Len(tb.array) -> Servers]
    BY <2>2, <2>3
  <2>5. arr \in Seq(Servers) /\ Len(arr) = Len(tb.array)
    BY <2>2, <2>4, SeqDef, LenProperties
  <2> HIDE DEF arr
  <2>6. r \in Table /\ r.len = tb.len - 1 /\ r.array = arr /\ r.database = tb.database
    <3>1. PICK a \in Seq(Servers) : a = arr
      BY <2>5
    <3>2. PICK n \in Nat : n = tb.len - 1
      BY <2>2
    <3>3. /\ [tb EXCEPT !.len = n, !.array = a] \in Table
          /\ [tb EXCEPT !.len = n, !.array = a].len = n
          /\ [tb EXCEPT !.len = n, !.array = a].array = a
          /\ [tb EXCEPT !.len = n, !.array = a].database = tb.database
      BY DEF Table
    <3>4. r = [tb EXCEPT !.len = n, !.array = a]
      BY <3>1, <3>2
    <3> HIDE DEF r
    <3> QED BY <3>1, <3>2, <3>3, <3>4
  <2> QED BY <2>1, <2>2, <2>5, <2>6
<1> QED BY <1>1, <1>2

\* The tables read so far stay, and stay the tables of their databases.
Grows ==
  /\ Len(tables) <= Len(tables')
  /\ \A i \in 1..Len(tables) : tables'[i].database = tables[i].database

\* The pool invalidates a server in place: no table comes, goes or changes its
\* database.
LEMMA RemoveServerType ==
  ASSUME TablesOK, NEW ds, NEW s, NEW kinds, RemoveServer(ds, s, kinds)
  PROVE  TablesOK' /\ Grows /\ Len(tables') = Len(tables)
<1>0. /\ tables \in Seq(Table) /\ Len(tables) \in Nat /\ DOMAIN tables = 1..Len(tables)
      /\ \A i \in 1..Len(tables) : tables[i] \in Table
  BY LenProperties, ElementOfSeq DEF TablesOK
<1> DEFINE cut(i) == IF "routers" \in kinds THEN RemoveRouter(tables[i], s) ELSE tables[i]
           new(i) == IF i \notin {dbRouters[d] : d \in ds} THEN tables[i]
                     ELSE [cut(i) EXCEPT !.readers = IF "readers" \in kinds THEN @ \ {s} ELSE @,
                                         !.writers = IF "writers" \in kinds THEN @ \ {s} ELSE @]
<1>1. tables' = [i \in 1..Len(tables) |-> new(i)]
  BY <1>0 DEF RemoveServer
<1>2. ASSUME NEW i \in 1..Len(tables)
      PROVE  /\ new(i) \in Table /\ new(i).len <= Len(new(i).array)
             /\ new(i).database = tables[i].database
  <2>1. /\ cut(i) \in Table /\ cut(i).len <= Len(cut(i).array)
        /\ cut(i).database = tables[i].database
    BY <1>0, RemoveRouterType DEF TablesOK
  <2>2. PICK c \in Table : c = cut(i)
    BY <2>1
  <2>3. /\ [c EXCEPT !.readers = IF "readers" \in kinds THEN @ \ {s} ELSE @,
                     !.writers = IF "writers" \in kinds THEN @ \ {s} ELSE @] \in Table
        /\ [c EXCEPT !.readers = IF "readers" \in kinds THEN @ \ {s} ELSE @,
                     !.writers = IF "writers" \in kinds THEN @ \ {s} ELSE @].len = c.len
        /\ [c EXCEPT !.readers = IF "readers" \in kinds THEN @ \ {s} ELSE @,
                     !.writers = IF "writers" \in kinds THEN @ \ {s} ELSE @].array = c.array
        /\ [c EXCEPT !.readers = IF "readers" \in kinds THEN @ \ {s} ELSE @,
                     !.writers = IF "writers" \in kinds THEN @ \ {s} ELSE @].database = c.database
    BY DEF Table
  <2> HIDE DEF cut
  <2>4. CASE i \notin {dbRouters[d] : d \in ds}
    <3>1. new(i) = tables[i]
      BY <2>4
    <3> QED BY <1>0, <3>1 DEF TablesOK
  <2>5. CASE i \in {dbRouters[d] : d \in ds}
    <3>1. new(i) = [c EXCEPT !.readers = IF "readers" \in kinds THEN @ \ {s} ELSE @,
                             !.writers = IF "writers" \in kinds THEN @ \ {s} ELSE @]
      BY <2>2, <2>5
    <3> HIDE DEF new
    <3> QED BY <2>1, <2>2, <2>3, <3>1
  <2> QED BY <2>4, <2>5
<1> HIDE DEF new
<1>3. tables' \in [1..Len(tables) -> Table]
  BY <1>1, <1>2
<1>4. tables' \in Seq(Table) /\ Len(tables') = Len(tables)
  BY <1>0, <1>3, SeqDef, LenProperties
<1>5. \A i \in 1..Len(tables) : tables'[i] = new(i)
  BY <1>1
<1> QED BY <1>0, <1>2, <1>4, <1>5 DEF TablesOK, Grows

\* A router answers: the new table is behind the others.
LEMMA AnswerType ==
  ASSUME TablesOK, NEW d \in Names, NEW c \in Contents,
         tables' = Append(tables, [database |-> d, array |-> c.routers, len |-> Len(c.routers),
                                   readers |-> c.readers, writers |-> c.writers])
  PROVE  /\ TablesOK' /\ Grows
         /\ Len(tables') = Len(tables) + 1 /\ tables'[Len(tables) + 1].database = d
<1> DEFINE tb == [database |-> d, array |-> c.routers, len |-> Len(c.routers),
                  readers |-> c.readers, writers |-> c.writers]
<1>1. c.routers \in Seq(Servers) /\ c.readers \in SUBSET Servers /\ c.writers \in SUBSET Servers
  BY RouterConstants DEF RouterConstants
<1>2. Len(c.routers) \in Nat
  BY <1>1, LenProperties
<1>3. tb \in Table /\ tb.len = Len(tb.array) /\ tb.database = d
  BY <1>1, <1>2 DEF Table
<1> HIDE DEF tb
<1>4. tables' = Append(tables, tb)
  BY DEF tb
<1>5. /\ tables \in Seq(Table) /\ Len(tables) \in Nat
  BY LenProperties DEF TablesOK
<1>6. /\ tables' \in Seq(Table) /\ Len(tables') = Len(tables) + 1
      /\ \A i \in 1..Len(tables) : tables'[i] = tables[i]
      /\ tables'[Len(tables) + 1] = tb
  BY <1>3, <1>4, <1>5, AppendProperties
<1>7. \A i \in 1..Len(tables') : i \in 1..Len(tables) \/ i = Len(tables) + 1
  BY <1>5, <1>6
<1>8. tb.len <= Len(tb.array)
  BY <1>2, <1>3 DEF tb
<1> QED BY <1>3, <1>5, <1>6, <1>7, <1>8 DEF TablesOK, Grows

\* The database a router answers for is one the server knows.
LEMMA AnswerNames ==
  ASSUME LocalsOK, NEW t \in Threads,
         NEW d \in IF targetDatabase(t) = Home THEN HomeDbs[sel[t].user] ELSE {sel[t].name}
  PROVE  d \in Names
<1>1. sel[t].user \in Users /\ sel[t].name \in Names
  BY DEF LocalsOK
<1> QED BY <1>1, RouterConstants DEF RouterConstants

\* The tables read so far are what every step keeps of them.
LEMMA TablesStep ==
  ASSUME TablesOK, LocalsOK, [Next]_vars
  PROVE  TablesOK' /\ Grows
<1> USE DEF cacheVars, updateVars, readVars, callVars
<1>0. CASE UNCHANGED tables
  <2>1. Len(tables) \in Nat
    BY LenProperties DEF TablesOK
  <2> QED BY <1>0, <2>1 DEF TablesOK, Grows
<1>1. ASSUME NEW ds, NEW s, NEW kinds, RemoveServer(ds, s, kinds)
      PROVE  TablesOK' /\ Grows
  BY <1>1, RemoveServerType
<1>2. ASSUME NEW t \in Threads, AskAnswered(t)
      PROVE  TablesOK' /\ Grows
  BY <1>2, AnswerNames, AnswerType DEF AskAnswered
<1>3. ASSUME NEW t \in Threads,
             \/ GetOrUpdate(t) \/ GetNameOfDefaultDatabase(t) \/ getOrUpdateTable(t)
             \/ WokenUp(t) \/ WaitTimeout(t) \/ BookmarksFail(t) \/ readTable(t)
             \/ AskFails(t) \/ AskTimesOut(t) \/ AskFatal(t)
      PROVE  UNCHANGED tables
  BY <1>3 DEF GetOrUpdate, GetNameOfDefaultDatabase, getOrUpdateTable, WokenUp, WaitTimeout,
              BookmarksFail, readTable, AskFails, AskTimesOut, AskFatal
<1>4. ASSUME NEW t \in Threads,
             \/ storeRoutingTable(t) \/ UpdateDone(t) \/ DefaultDatabaseDone(t)
             \/ ReturnServers(t) \/ RetryEmpty(t)
      PROVE  UNCHANGED tables
  BY <1>4 DEF storeRoutingTable, UpdateDone, DefaultDatabaseDone, ReturnServers, RetryEmpty
<1>5. ASSUME NEW t \in Threads, AskUnreachable(t)
      PROVE  TablesOK' /\ Grows
  BY <1>1, <1>5 DEF AskUnreachable
<1>6. ASSUME NEW s \in Servers, NEW d \in Names,
             InvalidateServer(s) \/ InvalidateWriter(d, s) \/ InvalidateReader(d, s)
      PROVE  TablesOK' /\ Grows
  BY <1>1, <1>6 DEF InvalidateServer, InvalidateWriter, InvalidateReader
<1>7. ASSUME NEW s \in Servers, InvalidateServer(s)
      PROVE  TablesOK' /\ Grows
  BY <1>1, <1>7 DEF InvalidateServer
<1>8. CASE CleanUp \/ (\E d \in Names : Expire(d)) \/ UNCHANGED vars
  BY <1>0, <1>8 DEF CleanUp, Expire, vars
<1> QED BY <1>0, <1>2, <1>3, <1>4, <1>5, <1>6, <1>7, <1>8 DEF Next, Step

-----------------------------------------------------------------------------
(* The references to tables, and the locals of the goroutines.             *)

\* A reference stays one when tables are added.
LEMMA RefsGrow ==
  ASSUME TablesOK, TablesOK', Grows, NEW S, NEW f \in [S -> 0..Len(tables)]
  PROVE  f \in [S -> 0..Len(tables')]
<1>1. Len(tables) \in Nat /\ Len(tables') \in Nat
  BY LenProperties DEF TablesOK
<1>2. \A n \in 0..Len(tables) : n \in 0..Len(tables')
  BY <1>1 DEF Grows
<1> QED BY <1>2

\* What a step does to the references of its goroutine.
RefStep ==
  /\ \/ UNCHANGED dbRouters
     \/ \E d \in Names, t \in Threads : dbRouters' = [dbRouters EXCEPT ![d] = tab[t]]
     \/ \E D \in SUBSET Names :
          dbRouters' = [d \in Names |-> IF d \in D THEN NoTable ELSE dbRouters[d]]
  /\ \/ UNCHANGED old
     \/ \E t \in Threads : old' = [old EXCEPT ![t] = NoTable]
     \/ \E t \in Threads, d \in Names : old' = [old EXCEPT ![t] = dbRouters[d]]
  /\ \/ UNCHANGED tab
     \/ \E t \in Threads : tab' = [tab EXCEPT ![t] = NoTable]
     \/ \E t \in Threads, d \in Names : tab' = [tab EXCEPT ![t] = dbRouters[d]]
     \/ \E t \in Threads : tab' = [tab EXCEPT ![t] = Len(tables')]

\* Such a step keeps them.
LEMMA RefStepType ==
  ASSUME TablesOK, TablesOK', Grows, RefsOK, RefStep
  PROVE  RefsOK'
<1>1. Len(tables) \in Nat /\ Len(tables') \in Nat
  BY LenProperties DEF TablesOK
<1>2. /\ dbRouters \in [Names -> 0..Len(tables')]
      /\ old \in [Threads -> 0..Len(tables')] /\ tab \in [Threads -> 0..Len(tables')]
  BY RefsGrow DEF RefsOK
<1>3. NoTable \in 0..Len(tables') /\ Len(tables') \in 0..Len(tables')
  BY <1>1 DEF NoTable
<1>4. dbRouters' \in [Names -> 0..Len(tables')]
  BY <1>2, <1>3 DEF RefStep
<1>5. old' \in [Threads -> 0..Len(tables')]
  BY <1>2, <1>3 DEF RefStep
<1>6. tab' \in [Threads -> 0..Len(tables')]
  BY <1>2, <1>3 DEF RefStep
<1> QED BY <1>4, <1>5, <1>6 DEF RefsOK

\* The names a goroutine works with are names.
LEMMA SelNames ==
  ASSUME LocalsOK, NEW t \in Threads
  PROVE  sel[t].name \in Names /\ sel[t].user \in Users /\ targetDatabase(t) \in Names
BY DEF LocalsOK, targetDatabase, Names

\* Every step is such a step.
LEMMA RefsStep ==
  ASSUME Types, Owned, [Next]_vars
  PROVE  RefStep
<1> USE DEF Types, cacheVars, updateVars, readVars, callVars
<1>1. ASSUME NEW t \in Threads,
             \/ GetOrUpdate(t) \/ GetNameOfDefaultDatabase(t) \/ WokenUp(t) \/ BookmarksFail(t)
             \/ readTable(t) \/ RetryEmpty(t)
      PROVE  RefStep
  <2>1. UNCHANGED <<dbRouters, old, tab>>
    BY <1>1 DEF GetOrUpdate, GetNameOfDefaultDatabase, WokenUp, BookmarksFail, Fail, readTable,
                Ask, RetryEmpty
  <2> QED BY <2>1 DEF RefStep
<1>2. ASSUME NEW t \in Threads,
             AskUnreachable(t) \/ AskFails(t) \/ AskTimesOut(t) \/ AskFatal(t)
      PROVE  RefStep
  <2>1. NextStage(t) \/ NextRouter(t) \/ Fail(t, "fatal") => UNCHANGED old
    BY DEF NextRouter, NextStage, Ask, Fail
  <2>2. UNCHANGED <<dbRouters, old, tab>>
    BY <1>2, <2>1 DEF AskUnreachable, AskFails, AskTimesOut, AskFatal
  <2> QED BY <2>2 DEF RefStep
<1>3. ASSUME NEW t \in Threads, getOrUpdateTable(t)
      PROVE  RefStep
  <2>1. sel[t].name \in Names
    BY SelNames
  <2>2. UNCHANGED dbRouters
    BY <1>3 DEF getOrUpdateTable
  <2>3. UNCHANGED old \/ old' = [old EXCEPT ![t] = dbRouters[sel[t].name]]
    BY <1>3 DEF getOrUpdateTable
  <2>4. UNCHANGED tab \/ tab' = [tab EXCEPT ![t] = dbRouters[sel[t].name]]
    BY <1>3 DEF getOrUpdateTable, getTableLocked
  <2> QED BY <2>1, <2>2, <2>3, <2>4 DEF RefStep
<1>4. ASSUME NEW t \in Threads, WaitTimeout(t) \/ ReturnServers(t)
      PROVE  RefStep
  BY <1>4 DEF WaitTimeout, ReturnServers, Leave, RefStep
<1>5. ASSUME NEW t \in Threads, AskAnswered(t)
      PROVE  RefStep
  BY <1>5 DEF AskAnswered, RefStep
<1>6. ASSUME NEW t \in Threads, storeRoutingTable(t)
      PROVE  RefStep
  <2>1. tables[tab[t]].database \in Names
    <3>1. tab[t] \in 0..Len(tables) /\ tab[t] # NoTable
      BY <1>6 DEF storeRoutingTable, Owned, CacheOwned, OwnedBy, Answers, RefsOK
    <3>2. tables[tab[t]] \in Table
      BY <3>1, ElementOfSeq DEF TablesOK, NoTable
    <3> QED BY <3>2 DEF Table
  <2> QED BY <1>6, <2>1, SelNames DEF storeRoutingTable, RefStep
<1>7. ASSUME NEW t \in Threads, UpdateDone(t) \/ DefaultDatabaseDone(t)
      PROVE  RefStep
  <2>1. /\ UNCHANGED dbRouters
        /\ old' = [old EXCEPT ![t] = NoTable]
        /\ UNCHANGED tab \/ tab' = [tab EXCEPT ![t] = NoTable]
    BY <1>7 DEF UpdateDone, DefaultDatabaseDone, ForgetRead, Leave
  <2> QED BY <2>1 DEF RefStep
<1>8. CASE CleanUp
  <2>1. dbRouters' = [d \in Names |-> IF d \in {n \in Names : due[n] = "past"} THEN NoTable
                                                                             ELSE dbRouters[d]]
    BY <1>8 DEF CleanUp
  <2> QED BY <1>8, <2>1 DEF CleanUp, RefStep
<1>9. CASE UNCHANGED <<dbRouters, old, tab>>
  BY <1>9 DEF RefStep
<1>10. ASSUME NEW s \in Servers, NEW d \in Names,
              InvalidateWriter(d, s) \/ InvalidateReader(d, s) \/ Expire(d)
       PROVE  RefStep
  BY <1>9, <1>10 DEF InvalidateWriter, InvalidateReader, Expire
<1>11. ASSUME NEW d \in Names, Expire(d)
       PROVE  RefStep
  BY <1>9, <1>11 DEF Expire
<1>12. ASSUME NEW s \in Servers, InvalidateServer(s)
       PROVE  RefStep
  BY <1>9, <1>12 DEF InvalidateServer
<1>13. CASE UNCHANGED vars
  BY <1>9, <1>13 DEF vars
<1> QED BY <1>1, <1>2, <1>3, <1>4, <1>5, <1>6, <1>7, <1>8, <1>10, <1>11, <1>12, <1>13
        DEF Next, Step

\* The locals of the goroutines and what they share keep their types.
LEMMA LocalsStep ==
  ASSUME FlightInv, Types, [Next]_vars
  PROVE  LocalsOK'
<1> USE DEF Types, cacheVars, updateVars, readVars, callVars
<1>0. MissingRetries \in Nat \ {0} /\ NoSelection \in [name : Names, guess : BOOLEAN, user : Users]
  <2>1. (CHOOSE u \in Users : TRUE) \in Users
    BY RouterConstants DEF RouterConstants
  <2>2. Home \in Names
    BY DEF Names
  <2> QED BY <2>1, <2>2, RouterConstants DEF RouterConstants, NoSelection
<1> HIDE DEF NoSelection
<1>1. ASSUME NEW t \in Threads, GetOrUpdate(t)
      PROVE  LocalsOK'
  BY <1>0, <1>1, RouterConstants DEF GetOrUpdate, Goto, LocalsOK, RouterConstants, Ops
<1>2. ASSUME NEW t \in Threads, GetNameOfDefaultDatabase(t)
      PROVE  LocalsOK'
  BY <1>0, <1>2 DEF GetNameOfDefaultDatabase, Goto, LocalsOK, Ops, Names
<1>3. ASSUME NEW t \in Threads, getOrUpdateTable(t)
      PROVE  LocalsOK'
  <2>1. Key(sel[t]) \in Keys
    BY <1>3, KeyType DEF getOrUpdateTable, FlightInv, Callers, UpdatePcs
  <2>2. updating' \subseteq Keys
    BY <1>3, <2>1 DEF getOrUpdateTable, LocalsOK
  <2>3. waiters' \in [Keys -> SUBSET Threads]
    <3>1. PICK k \in Keys : k = Key(sel[t])
      BY <2>1
    <3>2. UNCHANGED waiters \/ waiters' = [waiters EXCEPT ![k] = waiters[k] \cup {t}]
      BY <1>3, <3>1 DEF getOrUpdateTable
    <3> QED BY <3>2 DEF LocalsOK
  <2>4. /\ pc[t] = "check" /\ \E l \in {"got", "waiting", "read"} : pc' = [pc EXCEPT ![t] = l]
        /\ UNCHANGED <<cacheVars, callVars, stage, pos, last, unasked, failed>>
    BY <1>3 DEF getOrUpdateTable, Goto
  <2> QED BY <1>0, <2>2, <2>3, <2>4 DEF LocalsOK
<1>4. ASSUME NEW t \in Threads, WokenUp(t)
      PROVE  LocalsOK'
  BY <1>0, <1>4 DEF WokenUp, Goto, LocalsOK
<1>5. ASSUME NEW t \in Threads, WaitTimeout(t)
      PROVE  LocalsOK'
  <2>1. waiters' \in [Keys -> SUBSET Threads]
    BY <1>5 DEF WaitTimeout, LocalsOK
  <2> QED BY <1>0, <1>5, <2>1 DEF WaitTimeout, Leave, Goto, LocalsOK, Ops
<1>6. ASSUME NEW t \in Threads, BookmarksFail(t)
      PROVE  LocalsOK'
  BY <1>0, <1>6 DEF BookmarksFail, Fail, Goto, LocalsOK
<1>7. ASSUME NEW t \in Threads, readTable(t)
      PROVE  LocalsOK'
  <2>1. /\ \E st \in {"root", "known"}, n \in Nat : Ask(t, st, n)
        /\ \E S \in SUBSET Servers : unasked' = [unasked EXCEPT ![t] = S]
        /\ pc[t] = "read"
        /\ UNCHANGED <<cacheVars, tables, updateVars, callVars, tab>>
    <3>1. RootRouter \in Servers /\ Rng(CustomRouters) \subseteq Servers
      <4>1. CustomRouters \in Seq(Servers) /\ RootRouter \in Servers
        BY RouterConstants DEF RouterConstants
      <4>2. \A i \in DOMAIN CustomRouters : CustomRouters[i] \in Servers
        BY <4>1, LenProperties, ElementOfSeq
      <4> QED BY <4>1, <4>2 DEF Rng
    <3>2. ASSUME old[t] # NoTable
          PROVE  Listed(old[t]) \subseteq Servers /\ tables[old[t]].len \in Nat
      <4>1. old[t] \in 1..Len(tables)
        BY <3>2 DEF RefsOK, NoTable
      <4>2. tables[old[t]] \in Table /\ tables[old[t]].len <= Len(tables[old[t]].array)
        BY <4>1, ElementOfSeq DEF TablesOK
      <4>3. /\ tables[old[t]].array \in Seq(Servers) /\ tables[old[t]].len \in Nat
            /\ Len(tables[old[t]].array) \in Nat
        BY <4>2, LenProperties DEF Table
      <4>4. \A j \in 1..tables[old[t]].len : j \in 1..Len(tables[old[t]].array)
        BY <4>2, <4>3
      <4>5. \A j \in 1..tables[old[t]].len : tables[old[t]].array[j] \in Servers
        BY <4>3, <4>4, ElementOfSeq
      <4> QED BY <4>3, <4>5 DEF Listed
    <3> DEFINE known == IF old[t] = NoTable THEN {} ELSE Listed(old[t])
    <3>3. known \subseteq Servers /\ (known # {} => tables[old[t]].len \in Nat)
      BY <3>2
    <3>4. /\ IF known = {} THEN Ask(t, "root", 1) ELSE Ask(t, "known", tables[old[t]].len)
          /\ unasked' = [unasked EXCEPT ![t] = known \cup {RootRouter} \cup Rng(CustomRouters)]
          /\ pc[t] = "read"
          /\ UNCHANGED <<cacheVars, tables, updateVars, callVars, tab>>
      BY <1>7 DEF readTable
    <3> HIDE DEF known
    <3>5. known \cup {RootRouter} \cup Rng(CustomRouters) \in SUBSET Servers
      BY <3>1, <3>3
    <3> QED BY <3>3, <3>4, <3>5
  <2> QED BY <1>0, <2>1 DEF Ask, Goto, LocalsOK
<1>8. ASSUME NEW t \in Threads,
             AskUnreachable(t) \/ AskFails(t) \/ AskTimesOut(t) \/ AskFatal(t)
      PROVE  LocalsOK'
  <2>1. /\ pc[t] = "ask"
        /\ \E S \in SUBSET Servers : unasked' = [unasked EXCEPT ![t] = S]
        /\ UNCHANGED <<cacheVars, updateVars, callVars>>
    BY <1>8 DEF AskUnreachable, AskFails, AskTimesOut, AskFatal, Asked, LocalsOK
  <2>2. NextStage(t) \/ NextRouter(t) \/ Fail(t, "fatal")
    BY <1>8 DEF AskUnreachable, AskFails, AskTimesOut, AskFatal
  <2>3. ASSUME NextStage(t)
        PROVE  \/ \E st \in {"root", "custom"}, n \in Nat : Ask(t, st, n)
               \/ Fail(t, "exhausted")
    <3>1. Len(CustomRouters) \in Nat
      BY RouterConstants, LenProperties DEF RouterConstants
    <3> QED BY <2>3, <3>1 DEF NextStage
  <2>4. CASE \E st \in {"root", "custom"}, n \in Nat : Ask(t, st, n)
    BY <1>0, <2>1, <2>4 DEF Ask, Goto, LocalsOK
  <2>5. CASE \E how \in {"fatal", "exhausted"} : Fail(t, how)
    BY <1>0, <2>1, <2>5 DEF Fail, Goto, LocalsOK
  <2>6. CASE pos' = [pos EXCEPT ![t] = @ + 1] /\ UNCHANGED <<pc, old, stage, last, failed>>
    BY <1>0, <2>1, <2>6 DEF LocalsOK
  <2> QED BY <2>2, <2>3, <2>4, <2>5, <2>6 DEF NextRouter
<1>9. ASSUME NEW t \in Threads, AskAnswered(t)
      PROVE  LocalsOK'
  BY <1>0, <1>9 DEF AskAnswered, Asked, Goto, LocalsOK
<1>10. ASSUME NEW t \in Threads, storeRoutingTable(t)
       PROVE  LocalsOK'
  <2>1. \E d, v : v \in {"now", "future"} /\ due' = [due EXCEPT ![d] = v]
    BY <1>10 DEF storeRoutingTable
  <2>2. due' \in [Names -> {"future", "now", "past"}]
    BY <2>1 DEF LocalsOK
  <2>3. /\ pc[t] = "store" /\ pc' = [pc EXCEPT ![t] = "done"]
        /\ UNCHANGED <<updateVars, callVars, readVars, failed>>
    BY <1>10 DEF storeRoutingTable, Goto
  <2> QED BY <1>0, <2>2, <2>3 DEF LocalsOK
<1>11. ASSUME NEW t \in Threads, UpdateDone(t) \/ DefaultDatabaseDone(t)
       PROVE  LocalsOK'
  <2>1. ForgetRead(t) /\ UNCHANGED <<cacheVars, tables>>
    BY <1>11 DEF UpdateDone, DefaultDatabaseDone
  <2>2. updating' \subseteq Keys /\ waiters' \in [Keys -> SUBSET Threads]
    BY <1>11 DEF UpdateDone, DefaultDatabaseDone, LocalsOK
  <2>3. pc[t] = "done" /\ (Leave(t) \/ (Goto(t, "got") /\ UNCHANGED callVars))
    BY <1>11 DEF UpdateDone, DefaultDatabaseDone
  <2>4. CASE Leave(t)
    BY <1>0, <2>1, <2>2, <2>4 DEF Leave, Goto, ForgetRead, LocalsOK, Ops
  <2>5. CASE Goto(t, "got") /\ UNCHANGED callVars
    BY <1>0, <2>1, <2>2, <2>3, <2>5 DEF Goto, ForgetRead, LocalsOK
  <2> QED BY <2>3, <2>4, <2>5
<1>12. ASSUME NEW t \in Threads, ReturnServers(t)
       PROVE  LocalsOK'
  BY <1>0, <1>12 DEF ReturnServers, Leave, Goto, LocalsOK, Ops
<1>13. ASSUME NEW t \in Threads, RetryEmpty(t)
       PROVE  LocalsOK'
  <2>1. \E d : due' = [due EXCEPT ![d] = "past"]
    BY <1>13 DEF RetryEmpty, Invalidate
  <2>2. due' \in [Names -> {"future", "now", "past"}]
    BY <2>1 DEF LocalsOK
  <2>3. /\ retries[t] > 1 /\ retries' = [retries EXCEPT ![t] = retries[t] - 1]
        /\ pc' = [pc EXCEPT ![t] = "check"] /\ pc[t] = "got"
        /\ UNCHANGED <<updateVars, op, sel, readVars, failed>>
    BY <1>13 DEF RetryEmpty, Goto
  <2>4. retries' \in [Threads -> 0..MissingRetries]
    BY <1>0, <2>3 DEF LocalsOK
  <2>5. \A u \in Threads : pc'[u] # "out" /\ op'[u] # "default" => retries'[u] > 0
    BY <1>0, <2>3 DEF LocalsOK
  <2> QED BY <2>2, <2>3, <2>4, <2>5 DEF LocalsOK
<1>14. CASE /\ UNCHANGED <<updateVars, pc, callVars, readVars, tab, failed>>
            /\ UNCHANGED due \/ \E d \in Names, v \in {"now", "past"} : due' = [due EXCEPT ![d] = v]
  BY <1>0, <1>14 DEF LocalsOK
<1>15. ASSUME NEW s \in Servers, NEW d \in Names,
              InvalidateWriter(d, s) \/ InvalidateReader(d, s)
       PROVE  LocalsOK'
  BY <1>14, <1>15 DEF InvalidateWriter, InvalidateReader
<1>16. ASSUME NEW s \in Servers, InvalidateServer(s)
       PROVE  LocalsOK'
  BY <1>14, <1>16 DEF InvalidateServer
<1>17. CASE (\E d \in Names : Expire(d)) \/ CleanUp
  BY <1>14, <1>17 DEF Expire, CleanUp
<1>18. CASE UNCHANGED vars
  BY <1>14, <1>18 DEF vars
<1> QED BY <1>1, <1>2, <1>3, <1>4, <1>5, <1>6, <1>7, <1>8, <1>9, <1>10, <1>11, <1>12, <1>13,
           <1>15, <1>16, <1>17, <1>18 DEF Next, Step

-----------------------------------------------------------------------------
(* Whose table a goroutine gets.                                           *)

\* What a step may do to the tables a goroutine u has or has read: nothing, as
\* far as Owned is concerned.
Undisturbed(u) ==
  /\ pc'[u] = pc[u] /\ op'[u] = op[u] /\ sel'[u] = sel[u]
  /\ tab'[u] = tab[u] /\ failed'[u] = failed[u]

\* Tables that stay the tables of their databases answer the same calls.
LEMMA StillAnswers ==
  ASSUME Types, Grows, NEW u \in Threads, tab'[u] = tab[u], op'[u] = op[u], sel'[u] = sel[u],
         tab[u] # NoTable
  PROVE  /\ tables'[tab'[u]].database = tables[tab[u]].database
         /\ Answers(u, tab[u])' <=> Answers(u, tab[u])
<1>1. tab[u] \in 1..Len(tables)
  BY DEF Types, RefsOK, NoTable
<1>2. tables'[tab'[u]].database = tables[tab[u]].database
  BY <1>1 DEF Grows
<1> QED BY <1>2 DEF Answers, targetDatabase, IsHomeRead

\* A goroutine that a step does not disturb still has a table it asked for.
LEMMA UndisturbedOwned ==
  ASSUME Types, Grows, Owned, NEW u \in Threads, Undisturbed(u)
  PROVE  OwnedBy(u)'
<1>1. CASE tab[u] = NoTable
  BY <1>1 DEF Undisturbed, Owned, CacheOwned, OwnedBy, Answers
<1>2. CASE tab[u] # NoTable
  BY <1>2, StillAnswers DEF Undisturbed, Owned, CacheOwned, OwnedBy
<1> QED BY <1>1, <1>2

\* The cache holds what it held, or less.
LEMMA CacheKept ==
  ASSUME Types, Grows, Owned, \A d \in Names : dbRouters'[d] \in {dbRouters[d], NoTable}
  PROVE  CacheOwned'
<1> SUFFICES ASSUME NEW d \in Names, dbRouters'[d] # NoTable
             PROVE  tables'[dbRouters'[d]].database = d
  BY DEF CacheOwned
<1>1. dbRouters'[d] = dbRouters[d] /\ dbRouters[d] \in 1..Len(tables)
  BY DEF Types, RefsOK, NoTable
<1> QED BY <1>1 DEF Grows, Owned, CacheOwned, OwnedBy

\* A goroutine that goes where it has no table to account for.
LEMMA GoesWithout ==
  ASSUME Types, Grows, Owned, NEW t \in Threads, UNCHANGED dbRouters,
         \A u \in Threads \ {t} : Undisturbed(u),
         pc'[t] \notin {"store", "got"}, pc'[t] = "done" => failed'[t] # "no"
  PROVE  CacheOwned' /\ \A u \in Threads : OwnedBy(u)'
<1>1. CacheOwned'
  BY CacheKept
<1>2. OwnedBy(t)'
  BY DEF OwnedBy
<1> QED BY <1>1, <1>2, UndisturbedOwned

\* Every step keeps the tables with their owners.
LEMMA OwnedStep ==
  ASSUME Types, Types', Grows, FlightInv, Owned, [Next]_vars
  PROVE  Owned'
<1> USE DEF cacheVars, updateVars, readVars, callVars
<1> SUFFICES CacheOwned' /\ \A u \in Threads : OwnedBy(u)'
  BY DEF Owned, CacheOwned, OwnedBy
<1>0. /\ DOMAIN pc = Threads /\ DOMAIN op = Threads /\ DOMAIN sel = Threads
      /\ DOMAIN tab = Threads /\ DOMAIN failed = Threads /\ DOMAIN dbRouters = Names
  BY DEF Types, RefsOK, LocalsOK
<1>1. ASSUME NEW t \in Threads, GetOrUpdate(t) \/ GetNameOfDefaultDatabase(t)
      PROVE  CacheOwned' /\ \A u \in Threads : OwnedBy(u)'
  <2>1. /\ pc'[t] \in {"check", "read"} /\ UNCHANGED dbRouters
        /\ \A u \in Threads \ {t} : Undisturbed(u)
    BY <1>0, <1>1 DEF GetOrUpdate, GetNameOfDefaultDatabase, Goto, Undisturbed
  <2> QED BY <2>1, GoesWithout
<1>2. ASSUME NEW t \in Threads, getOrUpdateTable(t)
      PROVE  CacheOwned' /\ \A u \in Threads : OwnedBy(u)'
  <2>1. /\ UNCHANGED dbRouters
        /\ \A u \in Threads \ {t} : Undisturbed(u)
    BY <1>0, <1>2 DEF getOrUpdateTable, Goto, Undisturbed
  <2>2. CASE pc'[t] # "got"
    <3>1. pc'[t] \in {"waiting", "read"}
      BY <1>0, <1>2, <2>2 DEF getOrUpdateTable, Goto
    <3> QED BY <2>1, <3>1, GoesWithout
  <2>3. CASE pc'[t] = "got"
    <3>1. /\ dbRouters[sel[t].name] # NoTable /\ tab'[t] = dbRouters[sel[t].name]
          /\ sel'[t] = sel[t]
      BY <1>0, <1>2, <2>3 DEF getOrUpdateTable, getTableLocked, Goto
    <3>2. sel[t].name \in Names
      BY SelNames DEF Types
    <3>3. dbRouters[sel[t].name] \in 1..Len(tables)
      BY <3>1, <3>2 DEF Types, RefsOK, NoTable
    <3>4. tables'[tab'[t]].database = sel'[t].name
      BY <3>1, <3>2, <3>3 DEF Owned, CacheOwned, OwnedBy, Grows
    <3>5. OwnedBy(t)'
      BY <2>3, <3>1, <3>4 DEF OwnedBy
    <3> QED BY <2>1, <3>5, UndisturbedOwned, CacheKept
  <2> QED BY <2>2, <2>3
<1>3. ASSUME NEW t \in Threads, WokenUp(t) \/ WaitTimeout(t) \/ ReturnServers(t) \/ RetryEmpty(t)
      PROVE  CacheOwned' /\ \A u \in Threads : OwnedBy(u)'
  <2>1. /\ pc'[t] \in {"check", "out"} /\ UNCHANGED dbRouters
        /\ \A u \in Threads \ {t} : Undisturbed(u)
    BY <1>0, <1>3 DEF WokenUp, WaitTimeout, ReturnServers, RetryEmpty, Leave, Goto, Undisturbed
  <2> QED BY <2>1, GoesWithout
<1>4. ASSUME NEW t \in Threads, BookmarksFail(t) \/ readTable(t)
      PROVE  CacheOwned' /\ \A u \in Threads : OwnedBy(u)'
  <2>1. /\ pc'[t] \in {"ask", "done"} /\ (pc'[t] = "done" => failed'[t] # "no")
        /\ UNCHANGED dbRouters
        /\ \A u \in Threads \ {t} : Undisturbed(u)
    BY <1>0, <1>4 DEF BookmarksFail, readTable, Ask, Fail, Goto, Undisturbed
  <2> QED BY <2>1, GoesWithout
<1>5. ASSUME NEW t \in Threads,
             AskUnreachable(t) \/ AskFails(t) \/ AskTimesOut(t) \/ AskFatal(t)
      PROVE  CacheOwned' /\ \A u \in Threads : OwnedBy(u)'
  <2>1. pc[t] = "ask" /\ UNCHANGED <<dbRouters, op, sel, tab>>
    BY <1>5 DEF AskUnreachable, AskFails, AskTimesOut, AskFatal
  <2>2. NextStage(t) \/ NextRouter(t) \/ Fail(t, "fatal")
    BY <1>5 DEF AskUnreachable, AskFails, AskTimesOut, AskFatal
  <2>3. \/ \E how \in {"fatal", "exhausted"} :
             pc' = [pc EXCEPT ![t] = "done"] /\ failed' = [failed EXCEPT ![t] = how]
        \/ (pc' = [pc EXCEPT ![t] = "ask"] \/ pc' = pc) /\ UNCHANGED failed
    BY <2>2 DEF NextRouter, NextStage, Ask, Fail, Goto
  <2>4. /\ pc'[t] \in {"ask", "done"} /\ (pc'[t] = "done" => failed'[t] # "no")
        /\ \A u \in Threads \ {t} : Undisturbed(u)
    BY <1>0, <2>1, <2>3 DEF Undisturbed
  <2> QED BY <2>1, <2>4, GoesWithout
<1>6. ASSUME NEW t \in Threads, AskAnswered(t)
      PROVE  CacheOwned' /\ \A u \in Threads : OwnedBy(u)'
  <2>1. /\ pc'[t] = "store" /\ UNCHANGED dbRouters /\ op'[t] = op[t] /\ sel'[t] = sel[t]
        /\ tab'[t] = Len(tables')
        /\ \A u \in Threads \ {t} : Undisturbed(u)
    BY <1>0, <1>6 DEF AskAnswered, Goto, Undisturbed
  <2>2. PICK c \in Contents,
             d \in IF targetDatabase(t) = Home THEN HomeDbs[sel[t].user] ELSE {sel[t].name} :
          tables' = Append(tables, [database |-> d, array |-> c.routers, len |-> Len(c.routers),
                                    readers |-> c.readers, writers |-> c.writers])
    BY <1>6 DEF AskAnswered
  <2>3. d \in Names
    BY AnswerNames DEF Types
  <2>4. Len(tables') = Len(tables) + 1 /\ tables'[Len(tables) + 1].database = d
    BY <2>2, <2>3, AnswerType DEF Types
  <2>5. Len(tables) \in Nat
    BY LenProperties DEF Types, TablesOK
  <2>6. tab'[t] # NoTable /\ tables'[tab'[t]].database = d
    BY <2>1, <2>4, <2>5 DEF NoTable
  <2>7. Answers(t, tab[t])'
    BY <2>1, <2>6 DEF Answers, targetDatabase, IsHomeRead
  <2>8. OwnedBy(t)'
    BY <2>1, <2>7 DEF OwnedBy
  <2> QED BY <2>1, <2>8, UndisturbedOwned, CacheKept
<1>7. ASSUME NEW t \in Threads, storeRoutingTable(t)
      PROVE  CacheOwned' /\ \A u \in Threads : OwnedBy(u)'
  <2>1. /\ pc[t] = "store" /\ pc'[t] = "done" /\ UNCHANGED <<tables, op, sel, tab, failed>>
        /\ \A u \in Threads \ {t} : Undisturbed(u)
    BY <1>0, <1>7 DEF storeRoutingTable, Goto, Undisturbed
  <2>2. Answers(t, tab[t])
    BY <2>1 DEF Owned, CacheOwned, OwnedBy
  <2>3. OwnedBy(t)'
    BY <2>1, <2>2 DEF OwnedBy, Answers, targetDatabase, IsHomeRead
  <2>4. \E d : d = tables[tab[t]].database /\ dbRouters' = [dbRouters EXCEPT ![d] = tab[t]]
    <3>1. targetDatabase(t) # Home => targetDatabase(t) = sel[t].name
      BY DEF targetDatabase
    <3> QED BY <1>7, <2>2, <3>1 DEF storeRoutingTable, Answers
  <2>5. CacheOwned'
    BY <1>0, <2>1, <2>4 DEF CacheOwned, OwnedBy, Owned
  <2> QED BY <2>1, <2>3, <2>5, UndisturbedOwned
<1>8. ASSUME NEW t \in Threads, UpdateDone(t) \/ DefaultDatabaseDone(t)
      PROVE  CacheOwned' /\ \A u \in Threads : OwnedBy(u)'
  <2>1. /\ pc[t] = "done" /\ UNCHANGED <<dbRouters, tables>>
        /\ failed' = [failed EXCEPT ![t] = "no"]
        /\ Leave(t) \/ (failed[t] = "no" /\ Goto(t, "got") /\ UNCHANGED <<callVars, tab>>)
    BY <1>8 DEF UpdateDone, DefaultDatabaseDone, ForgetRead
  <2>2. \A u \in Threads \ {t} : Undisturbed(u)
    BY <1>0, <2>1 DEF Leave, Goto, Undisturbed
  <2>3. CASE Leave(t)
    <3>1. pc'[t] = "out"
      BY <1>0, <2>3 DEF Leave, Goto
    <3> QED BY <2>1, <2>2, <3>1, GoesWithout
  <2>4. CASE failed[t] = "no" /\ Goto(t, "got") /\ UNCHANGED <<callVars, tab>>
    <3>1. Answers(t, tab[t]) /\ pc'[t] = "got"
      BY <1>0, <2>1, <2>4 DEF Owned, CacheOwned, OwnedBy, Goto
    <3>2. OwnedBy(t)'
      BY <2>1, <2>4, <3>1 DEF OwnedBy, Answers, targetDatabase, IsHomeRead
    <3> QED BY <2>1, <2>2, <3>2, UndisturbedOwned, CacheKept
  <2> QED BY <2>1, <2>3, <2>4
<1>9. CASE /\ UNCHANGED <<pc, op, sel, tab, failed>>
           /\ \A d \in Names : dbRouters'[d] \in {dbRouters[d], NoTable}
  <2>1. \A u \in Threads : Undisturbed(u)
    BY <1>9 DEF Undisturbed
  <2> QED BY <1>9, <2>1, UndisturbedOwned, CacheKept
<1>10. ASSUME NEW s \in Servers, NEW d \in Names,
              InvalidateWriter(d, s) \/ InvalidateReader(d, s)
       PROVE  CacheOwned' /\ \A u \in Threads : OwnedBy(u)'
  BY <1>9, <1>10 DEF InvalidateWriter, InvalidateReader
<1>11. ASSUME NEW s \in Servers, InvalidateServer(s)
       PROVE  CacheOwned' /\ \A u \in Threads : OwnedBy(u)'
  BY <1>9, <1>11 DEF InvalidateServer
<1>12. CASE (\E d \in Names : Expire(d)) \/ CleanUp
  BY <1>9, <1>12 DEF Expire, CleanUp
<1>13. CASE UNCHANGED vars
  BY <1>9, <1>13 DEF vars
<1> QED BY <1>1, <1>2, <1>3, <1>4, <1>5, <1>6, <1>7, <1>8, <1>10, <1>11, <1>12, <1>13
        DEF Next, Step

-----------------------------------------------------------------------------
(* A retry gets another table.                                             *)

\* A table that is about to be stored is known to nobody else; a caller that is
\* between calls has none; and what a caller that starts over has seen is not
\* what it would find in the cache.
Fresh ==
  \A t \in Threads :
    /\ pc[t] = "out" => tab[t] = NoTable
    /\ pc[t] = "store" =>
         /\ \A u \in Threads \ {t} : tab[u] # tab[t]
         /\ \A d \in Names : dbRouters[d] # tab[t]
    /\ pc[t] \in {"check", "waiting"} /\ tab[t] # NoTable =>
         dbRouters[sel[t].name] # tab[t] \/ due[sel[t].name] # "future"

\* The cache gives out no table it did not give out before.
CacheFades ==
  \A d \in Names : /\ dbRouters'[d] \in {dbRouters[d], NoTable}
                   /\ due'[d] = "future" => due[d] = "future"

\* A step of t in which nobody gets a table and the cache gets none.
FreshQuiet(t) ==
  /\ CacheFades
  /\ \A u \in Threads \ {t} : pc'[u] = pc[u] /\ sel'[u] = sel[u] /\ tab'[u] = tab[u]

\* Such a step keeps Fresh where t itself has nothing new to claim.
LEMMA FreshQuietly ==
  ASSUME Types, Owned, Fresh, NEW t \in Threads, FreshQuiet(t),
         tab'[t] \in {tab[t], NoTable}, pc'[t] # "store",
         pc'[t] = "out" => tab'[t] = NoTable,
         pc'[t] \in {"check", "waiting"} /\ tab'[t] # NoTable =>
           dbRouters'[sel'[t].name] # tab'[t] \/ due'[sel'[t].name] # "future"
  PROVE  Fresh'
<1> SUFFICES ASSUME NEW u \in Threads
             PROVE  /\ pc'[u] = "out" => tab'[u] = NoTable
                    /\ pc'[u] = "store" =>
                         /\ \A v \in Threads \ {u} : tab'[v] # tab'[u]
                         /\ \A d \in Names : dbRouters'[d] # tab'[u]
                    /\ pc'[u] \in {"check", "waiting"} /\ tab'[u] # NoTable =>
                         dbRouters'[sel'[u].name] # tab'[u] \/ due'[sel'[u].name] # "future"
  BY DEF Fresh
<1>1. CASE u = t
  BY <1>1
<1>2. CASE u # t
  <2>1. pc'[u] = pc[u] /\ sel'[u] = sel[u] /\ tab'[u] = tab[u]
    BY <1>2 DEF FreshQuiet
  <2>2. sel[u].name \in Names
    BY SelNames DEF Types
  <2>3. pc[u] = "store" => tab[u] # NoTable
    BY DEF Owned, OwnedBy, Answers
  <2>4. pc'[u] = "store" =>
          /\ \A v \in Threads \ {u} : tab'[v] # tab'[u]
          /\ \A d \in Names : dbRouters'[d] # tab'[u]
    BY <2>1, <2>3 DEF Fresh, FreshQuiet, CacheFades
  <2>5. pc'[u] \in {"check", "waiting"} /\ tab'[u] # NoTable =>
          dbRouters'[sel'[u].name] # tab'[u] \/ due'[sel'[u].name] # "future"
    BY <2>1, <2>2 DEF Fresh, FreshQuiet, CacheFades
  <2> QED BY <2>1, <2>4, <2>5 DEF Fresh
<1> QED BY <1>1, <1>2

\* Every step keeps Fresh.
LEMMA FreshStep ==
  ASSUME Types, Types', Grows, Owned, Owned', Fresh, [Next]_vars
  PROVE  Fresh'
<1> USE DEF cacheVars, updateVars, readVars, callVars
<1>0. /\ DOMAIN pc = Threads /\ DOMAIN sel = Threads /\ DOMAIN tab = Threads
      /\ DOMAIN dbRouters = Names /\ DOMAIN due = Names
  BY DEF Types, RefsOK, LocalsOK
<1>1. ASSUME NEW t \in Threads, GetOrUpdate(t) \/ GetNameOfDefaultDatabase(t)
      PROVE  Fresh'
  <2>1. /\ pc[t] = "out" /\ pc'[t] \in {"check", "read"} /\ UNCHANGED <<dbRouters, due, tab>>
        /\ FreshQuiet(t)
    BY <1>0, <1>1 DEF GetOrUpdate, GetNameOfDefaultDatabase, Goto, FreshQuiet, CacheFades
  <2>2. tab'[t] = NoTable
    BY <2>1 DEF Fresh
  <2> QED BY <2>1, <2>2, FreshQuietly
<1>2. ASSUME NEW t \in Threads, getOrUpdateTable(t)
      PROVE  Fresh'
  <2>1. /\ pc[t] = "check" /\ pc'[t] \in {"waiting", "read", "got"}
        /\ UNCHANGED <<dbRouters, due, sel>>
        /\ FreshQuiet(t)
    BY <1>0, <1>2 DEF getOrUpdateTable, Goto, FreshQuiet, CacheFades
  <2>2. CASE UNCHANGED tab
    BY <2>1, <2>2, FreshQuietly DEF Fresh
  <2>3. CASE tab'[t] = dbRouters[sel[t].name] /\ pc'[t] = "got"
    <3>1. sel[t].name \in Names
      BY SelNames DEF Types
    <3>2. \A u \in Threads \ {t} : pc'[u] = pc[u] /\ sel'[u] = sel[u] /\ tab'[u] = tab[u]
      BY <2>1 DEF FreshQuiet
    <3>3. ASSUME NEW u \in Threads \ {t}, pc[u] = "store"
          PROVE  \A v \in Threads \ {u} : tab'[v] # tab'[u]
      BY <2>3, <3>1, <3>2, <3>3 DEF Fresh
    <3> QED BY <2>1, <2>3, <3>2, <3>3 DEF Fresh
  <2> QED BY <1>0, <1>2, <2>2, <2>3 DEF getOrUpdateTable, getTableLocked, Goto
<1>3. ASSUME NEW t \in Threads, WokenUp(t)
      PROVE  Fresh'
  <2>1. /\ pc[t] = "waiting" /\ pc'[t] = "check" /\ UNCHANGED <<dbRouters, due, sel, tab>>
        /\ FreshQuiet(t)
    BY <1>0, <1>3 DEF WokenUp, Goto, FreshQuiet, CacheFades
  <2> QED BY <2>1, FreshQuietly DEF Fresh
<1>4. ASSUME NEW t \in Threads, WaitTimeout(t) \/ ReturnServers(t)
      PROVE  Fresh'
  <2>1. pc'[t] = "out" /\ tab'[t] = NoTable /\ FreshQuiet(t)
    BY <1>0, <1>4 DEF WaitTimeout, ReturnServers, Leave, Goto, FreshQuiet, CacheFades
  <2> QED BY <2>1, FreshQuietly
<1>5. ASSUME NEW t \in Threads, BookmarksFail(t) \/ readTable(t)
      PROVE  Fresh'
  <2>1. pc'[t] \in {"ask", "done"} /\ tab'[t] = tab[t] /\ FreshQuiet(t)
    BY <1>0, <1>5 DEF BookmarksFail, readTable, Ask, Fail, Goto, FreshQuiet, CacheFades
  <2> QED BY <2>1, FreshQuietly
<1>6. ASSUME NEW t \in Threads,
             AskUnreachable(t) \/ AskFails(t) \/ AskTimesOut(t) \/ AskFatal(t)
      PROVE  Fresh'
  <2>1. pc[t] = "ask" /\ UNCHANGED <<dbRouters, due, sel, tab>>
    BY <1>6 DEF AskUnreachable, AskFails, AskTimesOut, AskFatal
  <2>2. NextStage(t) \/ NextRouter(t) \/ Fail(t, "fatal")
    BY <1>6 DEF AskUnreachable, AskFails, AskTimesOut, AskFatal
  <2>3. pc' = [pc EXCEPT ![t] = "done"] \/ pc' = [pc EXCEPT ![t] = "ask"] \/ pc' = pc
    BY <2>2 DEF NextRouter, NextStage, Ask, Fail, Goto
  <2>4. pc'[t] \in {"ask", "done"} /\ tab'[t] = tab[t] /\ FreshQuiet(t)
    BY <1>0, <2>1, <2>3 DEF FreshQuiet, CacheFades
  <2> QED BY <2>4, FreshQuietly
<1>7. ASSUME NEW t \in Threads, AskAnswered(t)
      PROVE  Fresh'
  <2>1. /\ pc'[t] = "store" /\ tab'[t] = Len(tables') /\ UNCHANGED <<dbRouters, due, sel>>
        /\ \A u \in Threads \ {t} : pc'[u] = pc[u] /\ tab'[u] = tab[u]
    BY <1>0, <1>7 DEF AskAnswered, Goto
  <2>2. Len(tables) \in Nat
    BY LenProperties DEF Types, TablesOK
  <2>3. Len(tables') = Len(tables) + 1
    <3>1. \E tb : tables' = Append(tables, tb)
      BY <1>7 DEF AskAnswered
    <3> QED BY <3>1, <2>2 DEF Types, TablesOK
  <2>4. /\ \A u \in Threads \ {t} : tab'[u] # tab'[t]
        /\ \A d \in Names : dbRouters'[d] # tab'[t]
    BY <2>1, <2>2, <2>3 DEF Types, RefsOK
  <2> QED BY <2>1, <2>4 DEF Fresh
<1>8. ASSUME NEW t \in Threads, storeRoutingTable(t)
      PROVE  Fresh'
  <2>1. /\ pc[t] = "store" /\ pc'[t] = "done" /\ UNCHANGED <<sel, tab>>
        /\ \A u \in Threads \ {t} : pc'[u] = pc[u]
    BY <1>0, <1>8 DEF storeRoutingTable, Goto
  <2>2. PICK d : /\ \A e \in Names \ {d} : dbRouters'[e] = dbRouters[e] /\ due'[e] = due[e]
                 /\ \A e \in Names : dbRouters'[e] \in {dbRouters[e], tab[t]}
                 /\ d \in Names => dbRouters'[d] = tab[t]
    BY <1>0, <1>8 DEF storeRoutingTable
  <2>3. \A u \in Threads \ {t} : tab[u] # tab[t]
    BY <2>1 DEF Fresh
  <2>4. \A u \in Threads : sel[u].name \in Names
    BY SelNames DEF Types
  <2>5. ASSUME NEW u \in Threads \ {t}, pc[u] \in {"check", "waiting"}, tab[u] # NoTable
        PROVE  dbRouters'[sel[u].name] # tab[u] \/ due'[sel[u].name] # "future"
    <3>1. CASE sel[u].name = d
      BY <2>2, <2>3, <2>4, <3>1
    <3>2. CASE sel[u].name # d
      BY <2>2, <2>4, <2>5, <3>2 DEF Fresh
    <3> QED BY <3>1, <3>2
  <2>6. ASSUME NEW u \in Threads \ {t}, pc[u] = "store"
        PROVE  \A e \in Names : dbRouters'[e] # tab[u]
    BY <2>2, <2>3, <2>6 DEF Fresh
  <2> QED BY <2>1, <2>5, <2>6 DEF Fresh
<1>9. ASSUME NEW t \in Threads, UpdateDone(t) \/ DefaultDatabaseDone(t)
      PROVE  Fresh'
  <2>1. /\ UNCHANGED <<dbRouters, due>>
        /\ Leave(t) \/ (Goto(t, "got") /\ UNCHANGED <<callVars, tab>>)
    BY <1>9 DEF UpdateDone, DefaultDatabaseDone
  <2>2. /\ FreshQuiet(t)
        /\ (pc'[t] = "out" /\ tab'[t] = NoTable) \/ (pc'[t] = "got" /\ tab'[t] = tab[t])
    BY <1>0, <2>1 DEF Leave, Goto, FreshQuiet, CacheFades
  <2> QED BY <2>2, FreshQuietly
<1>10. ASSUME NEW t \in Threads, RetryEmpty(t)
       PROVE  Fresh'
  <2>1. /\ pc[t] = "got" /\ pc'[t] = "check" /\ UNCHANGED <<dbRouters, sel, tab>>
        /\ \A u \in Threads \ {t} : pc'[u] = pc[u]
    BY <1>0, <1>10 DEF RetryEmpty, Goto
  <2>2. PICK d \in {tables[tab[t]].database, sel[t].name} : due' = [due EXCEPT ![d] = "past"]
    BY <1>10 DEF RetryEmpty, Invalidate
  <2>3. FreshQuiet(t)
    BY <1>0, <2>1, <2>2 DEF FreshQuiet, CacheFades
  <2>4. sel[t].name \in Names
    BY SelNames DEF Types
  <2>5. dbRouters[sel[t].name] # tab[t] \/ due'[sel[t].name] # "future"
    <3>1. CASE d = sel[t].name
      BY <1>0, <2>2, <2>4, <3>1
    <3>2. CASE d = tables[tab[t]].database /\ d # sel[t].name
      <4>1. tab[t] # NoTable
        BY <2>1 DEF Owned, OwnedBy
      <4>2. dbRouters[sel[t].name] = tab[t] => tables[tab[t]].database = sel[t].name
        BY <2>4, <4>1 DEF Owned, CacheOwned
      <4> QED BY <3>2, <4>2
    <3> QED BY <3>1, <3>2
  <2> QED BY <2>1, <2>3, <2>5, FreshQuietly
<1>11. CASE UNCHANGED <<pc, sel, tab>> /\ CacheFades
  <2> SUFFICES ASSUME NEW t \in Threads
               PROVE  /\ pc[t] = "out" => tab[t] = NoTable
                      /\ pc[t] = "store" =>
                           /\ \A u \in Threads \ {t} : tab[u] # tab[t]
                           /\ \A d \in Names : dbRouters'[d] # tab[t]
                      /\ pc[t] \in {"check", "waiting"} /\ tab[t] # NoTable =>
                           dbRouters'[sel[t].name] # tab[t] \/ due'[sel[t].name] # "future"
    BY <1>11 DEF Fresh
  <2>1. sel[t].name \in Names
    BY SelNames DEF Types
  <2>2. pc[t] = "store" => tab[t] # NoTable
    BY DEF Owned, OwnedBy, Answers
  <2> QED BY <1>11, <2>1, <2>2 DEF Fresh, CacheFades
<1>12. ASSUME NEW s \in Servers, NEW d \in Names,
              InvalidateWriter(d, s) \/ InvalidateReader(d, s)
       PROVE  Fresh'
  BY <1>11, <1>12 DEF InvalidateWriter, InvalidateReader, CacheFades
<1>13. ASSUME NEW s \in Servers, InvalidateServer(s)
       PROVE  Fresh'
  BY <1>11, <1>13 DEF InvalidateServer, CacheFades
<1>14. CASE (\E d \in Names : Expire(d)) \/ CleanUp
  <2>1. UNCHANGED <<pc, sel, tab>> /\ CacheFades
    BY <1>0, <1>14 DEF Expire, CleanUp, CacheFades
  <2> QED BY <1>11, <2>1
<1>15. CASE UNCHANGED vars
  BY <1>11, <1>15 DEF vars, CacheFades
<1> QED BY <1>1, <1>2, <1>3, <1>4, <1>5, <1>6, <1>7, <1>8, <1>9, <1>10, <1>12, <1>13, <1>14, <1>15
        DEF Next, Step

-----------------------------------------------------------------------------
(* The initial router is asked before an update gives up.                  *)

\* Behind the initial router, and when the routers are exhausted, the initial
\* router was asked; only a finished update has failed.
FallbackInv ==
  \A t \in Threads :
    /\ stage[t] = "custom" \/ failed[t] = "exhausted" => RootRouter \notin unasked[t]
    /\ failed[t] # "no" => pc[t] = "done"

\* What FallbackInv says of u is what it said before.
SameUpdate(u) ==
  /\ stage'[u] = stage[u] /\ failed'[u] = failed[u] /\ unasked'[u] = unasked[u]
  /\ failed[u] # "no" => pc'[u] = pc[u]

\* The last router of a list was asked: the next list, or the end.
LEMMA NextStageFallback ==
  ASSUME LocalsOK, FallbackInv, NEW t \in Threads, pc[t] = "ask", Asked(t), NextStage(t)
  PROVE  FallbackInv'
<1>1. /\ DOMAIN pc = Threads /\ DOMAIN stage = Threads /\ DOMAIN failed = Threads
      /\ DOMAIN unasked = Threads
  BY DEF LocalsOK
<1>2. unasked' = [unasked EXCEPT ![t] = unasked[t] \ {router(t)}]
  BY DEF Asked
<1>3. stage[t] = "root" => router(t) = RootRouter
  BY DEF router
<1>4. /\ RootRouter \notin unasked'[t] \/ stage[t] = "known"
      /\ \A u \in Threads \ {t} : unasked'[u] = unasked[u]
  <2>1. stage[t] = "custom" => RootRouter \notin unasked[t]
    BY DEF FallbackInv
  <2>2. stage[t] \in {"known", "root", "custom"}
    BY DEF NextStage
  <2> QED BY <1>1, <1>2, <1>3, <2>1, <2>2
<1>5. failed[t] = "no"
  BY DEF FallbackInv
<1>6. /\ \A u \in Threads \ {t} : SameUpdate(u)
      /\ \/ pc'[t] = "ask" /\ stage'[t] = "root" /\ failed'[t] = failed[t]
         \/ stage[t] = "root" /\ stage'[t] = "custom" /\ pc'[t] = "ask" /\ failed'[t] = failed[t]
         \/ stage[t] \in {"root", "custom"} /\ pc'[t] = "done" /\ stage'[t] = stage[t]
  BY <1>1, <1>4 DEF NextStage, Ask, Fail, Goto, SameUpdate
<1> QED BY <1>4, <1>5, <1>6 DEF FallbackInv, SameUpdate

\* Every step keeps it.
LEMMA FallbackStep ==
  ASSUME LocalsOK, FallbackInv, [Next]_vars
  PROVE  FallbackInv'
<1> USE DEF cacheVars, updateVars, readVars, callVars
<1>0. /\ DOMAIN pc = Threads /\ DOMAIN stage = Threads /\ DOMAIN failed = Threads
      /\ DOMAIN unasked = Threads
  BY DEF LocalsOK
<1>1. CASE \A u \in Threads : SameUpdate(u)
  BY <1>1 DEF FallbackInv, SameUpdate
<1>2. ASSUME NEW t \in Threads,
             \/ GetOrUpdate(t) \/ GetNameOfDefaultDatabase(t) \/ getOrUpdateTable(t) \/ WokenUp(t)
             \/ WaitTimeout(t) \/ storeRoutingTable(t) \/ ReturnServers(t) \/ RetryEmpty(t)
      PROVE  FallbackInv'
  <2>1. pc[t] # "done" /\ UNCHANGED <<stage, failed, unasked>>
    BY <1>2 DEF GetOrUpdate, GetNameOfDefaultDatabase, getOrUpdateTable, WokenUp, WaitTimeout,
                storeRoutingTable, ReturnServers, RetryEmpty
  <2>2. \E l : pc' = [pc EXCEPT ![t] = l]
    BY <1>2 DEF GetOrUpdate, GetNameOfDefaultDatabase, getOrUpdateTable, WokenUp, WaitTimeout,
                storeRoutingTable, ReturnServers, RetryEmpty, Leave, Goto
  <2>3. \A u \in Threads : SameUpdate(u)
    BY <1>0, <2>1, <2>2 DEF SameUpdate, FallbackInv
  <2> QED BY <1>1, <2>3
<1>3. ASSUME NEW t \in Threads, BookmarksFail(t)
      PROVE  FallbackInv'
  <2>1. /\ UNCHANGED <<stage, unasked>> /\ failed' = [failed EXCEPT ![t] = "fatal"]
        /\ pc' = [pc EXCEPT ![t] = "done"]
    BY <1>3 DEF BookmarksFail, Fail, Goto
  <2> QED BY <1>0, <2>1 DEF FallbackInv
<1>4. ASSUME NEW t \in Threads, readTable(t)
      PROVE  FallbackInv'
  <2>1. PICK st \in {"root", "known"} :
          /\ stage' = [stage EXCEPT ![t] = st] /\ pc' = [pc EXCEPT ![t] = "ask"]
          /\ UNCHANGED failed /\ pc[t] = "read"
    BY <1>4 DEF readTable, Ask, Goto
  <2>2. \A u \in Threads \ {t} : unasked'[u] = unasked[u]
    BY <1>0, <1>4 DEF readTable
  <2> QED BY <1>0, <2>1, <2>2 DEF FallbackInv
<1>5. ASSUME NEW t \in Threads, AskUnreachable(t) \/ AskFails(t) \/ AskTimesOut(t)
      PROVE  FallbackInv'
  <2>1. pc[t] = "ask" /\ Asked(t) /\ (NextRouter(t) \/ NextStage(t))
    BY <1>5 DEF AskUnreachable, AskFails, AskTimesOut
  <2>2. CASE NextStage(t)
    BY <2>1, <2>2, NextStageFallback
  <2>3. CASE UNCHANGED <<pc, old, stage, last, failed>>
    <3>1. \A u \in Threads : unasked'[u] \subseteq unasked[u]
      BY <1>0, <2>1 DEF Asked
    <3> QED BY <2>3, <3>1 DEF FallbackInv
  <2> QED BY <2>1, <2>2, <2>3 DEF NextRouter
<1>6. ASSUME NEW t \in Threads, AskFatal(t)
      PROVE  FallbackInv'
  <2>1. /\ UNCHANGED stage /\ failed' = [failed EXCEPT ![t] = "fatal"]
        /\ pc' = [pc EXCEPT ![t] = "done"]
    BY <1>6 DEF AskFatal, Fail, Goto
  <2>2. \A u \in Threads : unasked'[u] \subseteq unasked[u]
    BY <1>0, <1>6 DEF AskFatal, Asked
  <2> QED BY <1>0, <2>1, <2>2 DEF FallbackInv
<1>7. ASSUME NEW t \in Threads, AskAnswered(t)
      PROVE  FallbackInv'
  <2>1. UNCHANGED <<stage, failed>> /\ pc' = [pc EXCEPT ![t] = "store"] /\ pc[t] = "ask"
    BY <1>7 DEF AskAnswered, Goto
  <2>2. \A u \in Threads : unasked'[u] \subseteq unasked[u]
    BY <1>0, <1>7 DEF AskAnswered, Asked
  <2> QED BY <1>0, <2>1, <2>2 DEF FallbackInv
<1>8. ASSUME NEW t \in Threads, UpdateDone(t) \/ DefaultDatabaseDone(t)
      PROVE  FallbackInv'
  <2>1. ForgetRead(t)
    BY <1>8 DEF UpdateDone, DefaultDatabaseDone
  <2>2. \E l : pc' = [pc EXCEPT ![t] = l]
    BY <1>8 DEF UpdateDone, DefaultDatabaseDone, Leave, Goto
  <2> QED BY <1>0, <2>1, <2>2 DEF ForgetRead, FallbackInv
<1>9. CASE UNCHANGED <<pc, readVars, failed>>
  BY <1>1, <1>9 DEF SameUpdate
<1>10. ASSUME NEW s \in Servers, NEW d \in Names,
              InvalidateWriter(d, s) \/ InvalidateReader(d, s)
       PROVE  FallbackInv'
  BY <1>9, <1>10 DEF InvalidateWriter, InvalidateReader
<1>11. ASSUME NEW s \in Servers, InvalidateServer(s)
       PROVE  FallbackInv'
  BY <1>9, <1>11 DEF InvalidateServer
<1>12. CASE (\E d \in Names : Expire(d)) \/ CleanUp \/ UNCHANGED vars
  BY <1>9, <1>12 DEF Expire, CleanUp, vars
<1> QED BY <1>2, <1>3, <1>4, <1>5, <1>6, <1>7, <1>8, <1>10, <1>11, <1>12 DEF Next, Step

-----------------------------------------------------------------------------
(* The theorems.                                                           *)

\* Only the cache takes a goroutine from its look at the cache to a table.
LEMMA CheckToGot ==
  ASSUME LocalsOK, [Next]_vars, NEW t \in Threads, pc[t] = "check", pc'[t] = "got"
  PROVE  getOrUpdateTable(t)
<1> USE DEF cacheVars, updateVars, readVars, callVars
<1>0. DOMAIN pc = Threads
  BY DEF LocalsOK
<1>1. ASSUME NEW u \in Threads,
             \/ GetOrUpdate(u) \/ GetNameOfDefaultDatabase(u) \/ WokenUp(u) \/ WaitTimeout(u)
             \/ BookmarksFail(u) \/ readTable(u) \/ storeRoutingTable(u)
      PROVE  FALSE
  <2>1. pc[u] # "check" /\ \E l : pc' = [pc EXCEPT ![u] = l]
    BY <1>1 DEF GetOrUpdate, GetNameOfDefaultDatabase, WokenUp, WaitTimeout, BookmarksFail,
                readTable, storeRoutingTable, Fail, Ask, Leave, Goto
  <2> QED BY <1>0, <2>1
<1>2. ASSUME NEW u \in Threads,
             UpdateDone(u) \/ DefaultDatabaseDone(u) \/ ReturnServers(u) \/ RetryEmpty(u)
      PROVE  FALSE
  <2>1. pc[u] # "check" /\ \E l : pc' = [pc EXCEPT ![u] = l]
    BY <1>2 DEF UpdateDone, DefaultDatabaseDone, ReturnServers, RetryEmpty, Leave, Goto
  <2> QED BY <1>0, <2>1
<1>3. ASSUME NEW u \in Threads,
             \/ AskUnreachable(u) \/ AskFails(u) \/ AskTimesOut(u) \/ AskFatal(u) \/ AskAnswered(u)
      PROVE  FALSE
  <2>1. pc[u] = "ask"
    BY <1>3 DEF AskUnreachable, AskFails, AskTimesOut, AskFatal, AskAnswered
  <2>2. NextRouter(u) \/ NextStage(u) \/ (\E how : Fail(u, how)) \/ Goto(u, "store")
    BY <1>3 DEF AskUnreachable, AskFails, AskTimesOut, AskFatal, AskAnswered
  <2>3. pc' = pc \/ \E l : pc' = [pc EXCEPT ![u] = l]
    BY <2>2 DEF NextRouter, NextStage, Ask, Fail, Goto
  <2> QED BY <1>0, <2>1, <2>3
<1>4. ASSUME NEW u \in Threads, getOrUpdateTable(u)
      PROVE  u = t
  <2>1. \E l : pc' = [pc EXCEPT ![u] = l]
    BY <1>4 DEF getOrUpdateTable, Goto
  <2> QED BY <1>0, <2>1
<1>5. ASSUME NEW s \in Servers, NEW d \in Names,
             InvalidateWriter(d, s) \/ InvalidateReader(d, s)
      PROVE  FALSE
  BY <1>5 DEF InvalidateWriter, InvalidateReader
<1>6. ASSUME NEW s \in Servers, InvalidateServer(s)
      PROVE  FALSE
  BY <1>6 DEF InvalidateServer
<1>7. ~((\E d \in Names : Expire(d)) \/ CleanUp \/ UNCHANGED vars)
  BY DEF Expire, CleanUp, vars
<1> QED BY <1>1, <1>2, <1>3, <1>4, <1>5, <1>6, <1>7 DEF Next, Step

\* The inductive invariant of the tables.
TableInv == Types /\ Owned /\ Fresh /\ FallbackInv

\* Initially nothing was read and nobody has a table.
LEMMA TableInit == Init => TableInv
<1> SUFFICES ASSUME Init PROVE TableInv
  OBVIOUS
<1>1. TablesOK /\ Len(tables) = 0
  BY DEF Init, TablesOK
<1>2. RefsOK
  BY <1>1 DEF Init, RefsOK, NoTable
<1>3. LocalsOK
  <2>1. (CHOOSE u \in Users : TRUE) \in Users /\ MissingRetries \in Nat
    BY RouterConstants DEF RouterConstants
  <2>2. NoSelection \in [name : Names, guess : BOOLEAN, user : Users]
    BY <2>1 DEF NoSelection, Names
  <2> QED BY <2>1, <2>2 DEF Init, LocalsOK, Ops
<1>4. Owned
  BY DEF Init, Owned, CacheOwned, OwnedBy
<1>5. Fresh
  BY DEF Init, Fresh
<1>6. FallbackInv
  BY DEF Init, FallbackInv
<1> QED BY <1>1, <1>2, <1>3, <1>4, <1>5, <1>6 DEF TableInv, Types

\* Every step keeps the invariant.
LEMMA TableStep == FlightInv /\ TableInv /\ [Next]_vars => TableInv'
<1> SUFFICES ASSUME FlightInv, TableInv, [Next]_vars PROVE TableInv'
  OBVIOUS
<1>1. Types /\ Owned /\ Fresh /\ FallbackInv
  BY DEF TableInv
<1>2. TablesOK' /\ Grows
  BY <1>1, TablesStep DEF Types
<1>3. RefsOK'
  BY <1>1, <1>2, RefsStep, RefStepType DEF Types
<1>4. LocalsOK'
  BY <1>1, LocalsStep
<1>5. Owned'
  BY <1>1, <1>2, <1>3, <1>4, OwnedStep DEF Types
<1>6. Fresh'
  BY <1>1, <1>2, <1>3, <1>4, <1>5, FreshStep DEF Types
<1>7. FallbackInv'
  BY <1>1, FallbackStep DEF Types
<1> QED BY <1>2, <1>3, <1>4, <1>5, <1>6, <1>7 DEF TableInv, Types

\* The invariant of the tables holds in every reachable state: the cache holds
\* every table under its own database, and nobody has a table it did not ask for.
THEOREM TableInvariant == Spec => []TableInv
<1>1. Init => FlightInv
  BY DEF Init, FlightInv, FlightTypes, Callers, OneUpdater, Waiters, Updating,
         UpdatePcs, OtherPcs, Ops
<1> QED BY <1>1, FlightStep, TableInit, TableStep, PTL DEF Spec

\* Every reachable state of the router is well typed: every reference of the
\* cache and of a call is to a table that was read, and the retry loops of
\* GetOrUpdateReaders and GetOrUpdateWriters never run out of retries.
THEOREM RouterTypes == Spec => []TypeOK
<1>1. TableInv => TypeOK
  BY DEF TableInv, Types, TablesOK, RefsOK, LocalsOK, TypeOK, Table
<1> QED BY <1>1, TableInvariant, PTL

\* Whoever asks for a home database gets the table of a home database of its own
\* user or of the database it guessed, for any number of users who resolve theirs
\* at the same time.
THEOREM HomeDatabaseIsOwn == Spec => []HomeDbIsPerUser
<1>1. TableInv => HomeDbIsPerUser
  <2> SUFFICES ASSUME TableInv, NEW t \in Threads, pc[t] = "got"
               PROVE  \/ tables[tab[t]].database = sel[t].name
                      \/ IsHomeRead(t) /\ tables[tab[t]].database \in HomeDbs[sel[t].user]
    BY DEF HomeDbIsPerUser
  <2>1. Answers(t, tab[t]) \/ tables[tab[t]].database = sel[t].name
    BY DEF TableInv, Owned, OwnedBy
  <2>2. targetDatabase(t) = Home => IsHomeRead(t)
    BY DEF targetDatabase, IsHomeRead
  <2> QED BY <2>1, <2>2 DEF Answers
<1> QED BY <1>1, TableInvariant, PTL

\* An update gives up for want of a router only after the initial router was
\* asked, whatever lists of known and custom routers there are.
THEOREM RootIsAsked == Spec => []FallsBackToRoot
<1>1. TableInv => FallsBackToRoot
  BY DEF TableInv, FallbackInv, FallsBackToRoot
<1> QED BY <1>1, TableInvariant, PTL

\* A caller that starts over because a list was empty never gets the same table
\* again, although tables are shared, invalidated by name and stored by others.
THEOREM RetriesRefresh == Spec => RetryRefreshes
<1>1. TableInv /\ [Next]_vars =>
        [\A t \in Threads : pc[t] = "check" /\ pc'[t] = "got" => tab'[t] # tab[t]]_vars
  <2> SUFFICES ASSUME TableInv, [Next]_vars, NEW t \in Threads, pc[t] = "check", pc'[t] = "got"
               PROVE  tab'[t] # tab[t]
    OBVIOUS
  <2>1. getOrUpdateTable(t)
    BY CheckToGot DEF TableInv, Types
  <2>2. /\ getTableLocked(sel[t].name) # NoTable
        /\ tab' = [tab EXCEPT ![t] = getTableLocked(sel[t].name)]
    BY <2>1 DEF getOrUpdateTable, Goto, TableInv, Types, LocalsOK
  <2>3. tab'[t] = getTableLocked(sel[t].name)
    BY <2>2 DEF TableInv, Types, RefsOK
  <2>4. due[sel[t].name] = "future" /\ tab'[t] = dbRouters[sel[t].name]
    BY <2>2, <2>3 DEF getTableLocked
  <2>5. tab[t] = NoTable \/ dbRouters[sel[t].name] # tab[t]
    BY <2>4 DEF TableInv, Fresh
  <2> QED BY <2>2, <2>3, <2>4, <2>5
<1> QED BY <1>1, TableInvariant, PTL DEF Spec, RetryRefreshes
=============================================================================
