------------------------------- MODULE Router -------------------------------
(***************************************************************************)
(* The routing tables of a routing driver: neo4j/internal/router/router.go *)
(* and readtable.go.                                                       *)
(*                                                                         *)
(* A session asks for the readers or writers of a database, or for the     *)
(* name of its home database.  The table comes from the cache, from        *)
(* another goroutine that is reading it, or is read from the last known    *)
(* routers, the initial router and the custom resolver, in this order.     *)
(* One action is one critical section of dbRoutersMut, one request to a    *)
(* router, or one unsynchronised access to a shared table.                 *)
(*                                                                         *)
(* Tables are shared objects: the callers and the cache refer to the same  *)
(* one, and the pool shortens the lists of a table in place.  The list of  *)
(* routers is therefore an array and a length, as a Go slice is.           *)
(***************************************************************************)
EXTENDS Integers, Sequences, FiniteSets

CONSTANTS
  Threads,        \* goroutines that use the router
  Databases,      \* database names, without the empty one
  Home,           \* the empty name, idb.DefaultDatabase
  Users,          \* what HomeDbCacheKey tells apart
  HomeDbs,        \* the databases the server may resolve a user's home to
  Selections,     \* the DatabaseSelections of the callers
  Servers,
  RootRouter,     \* the initial router
  CustomRouters,  \* what the resolver returns, <<>> for none
  Contents,       \* what the server may answer: lists of routers, readers, writers
  MissingRetries, \* missingReaderRetries and missingWriterRetries
  MaxTables,      \* bound: tables read over the whole behaviour
  Events          \* what the environment may do, a subset of AllEvents

AllEvents == {"dial",       \* a router cannot be reached
              "error",      \* a router answers with an error that is not fatal
              "fatal",      \* an error that is fatal during discovery, or no bookmarks
              "deadline",   \* a caller's context is done
              "expire",     \* tables get old
              "invalidate", \* the pool invalidates servers
              "cleanup"}    \* a session is closed and cleans the router up

Names == Databases \cup {Home}
Ops   == {"readers", "writers", "default"}

ASSUME RouterConstants ==
  /\ Home \notin Databases
  /\ Users # {}
  /\ HomeDbs \in [Users -> SUBSET Names]
  /\ Selections \subseteq [name : Names, guess : BOOLEAN, user : Users]
  /\ RootRouter \in Servers
  /\ CustomRouters \in Seq(Servers)
  /\ Contents \subseteq [routers : Seq(Servers), readers : SUBSET Servers,
                         writers : SUBSET Servers]
  /\ MissingRetries \in Nat \ {0}
  /\ MaxTables \in Nat
  /\ Events \subseteq AllEvents

TableIds == 1..MaxTables
NoTable  == 0

VARIABLES
  dbRouters,  \* r.dbRouters: per name, its table or NoTable
  due,        \* dueUnix against the clock: "future", "now" or "past"
  tables,     \* the tables read so far
  updating,   \* the keys of r.updating
  waiters,    \* per key, the threads that wait on a channel in r.updating
  pc,         \* per thread, where it is
  op, sel,    \* per thread, the operation called and its DatabaseSelection
  old,        \* per thread, the table found in the cache, maybe expired
  tab,        \* per thread, the table it got
  stage,      \* per thread, which routers it is asking
  pos, last,  \* per thread, the position in that list and its length
  failed,     \* per thread, how the update failed
  retries,    \* per thread, retries left for an empty list
  unasked     \* per thread, the routers of this update not asked yet (history)

cacheVars  == <<dbRouters, due>>
updateVars == <<updating, waiters>>
readVars   == <<old, stage, pos, last, unasked>>
callVars   == <<op, sel, retries>>
vars == <<cacheVars, tables, updateVars, pc, callVars, readVars, tab, failed>>

\* Reads that resolve a home database are keyed per user, not per name.
IsHomeRead(t) == op[t] = "default" \/ sel[t].guess \/ sel[t].name = Home

Key(s) == IF s.guess \/ s.name = Home THEN [database |-> Home, user |-> {s.user}]
                                      ELSE [database |-> s.name, user |-> {}]

Keys == {Key(s) : s \in Selections}

\* The database a thread asks the server for; empty when the server is to
\* resolve the home database.
targetDatabase(t) == IF IsHomeRead(t) THEN Home ELSE sel[t].name

NoSelection == [name |-> Home, guess |-> FALSE, user |-> CHOOSE u \in Users : TRUE]

Init ==
  /\ dbRouters = [d \in Names |-> NoTable]
  /\ due = [d \in Names |-> "past"]
  /\ tables = <<>>
  /\ updating = {} /\ waiters = [k \in Keys |-> {}]
  /\ pc = [t \in Threads |-> "out"]
  /\ op = [t \in Threads |-> "readers"]
  /\ sel = [t \in Threads |-> NoSelection]
  /\ old = [t \in Threads |-> NoTable] /\ tab = [t \in Threads |-> NoTable]
  /\ stage = [t \in Threads |-> "none"]
  /\ pos = [t \in Threads |-> 0] /\ last = [t \in Threads |-> 0]
  /\ failed = [t \in Threads |-> "no"]
  /\ retries = [t \in Threads |-> 0]
  /\ unasked = [t \in Threads |-> {}]

Goto(t, l) == pc' = [pc EXCEPT ![t] = l]

\* A call ends: its locals are gone.
Leave(t) ==
  /\ Goto(t, "out")
  /\ op' = [op EXCEPT ![t] = "readers"]
  /\ sel' = [sel EXCEPT ![t] = NoSelection]
  /\ retries' = [retries EXCEPT ![t] = 0]
  /\ tab' = [tab EXCEPT ![t] = NoTable]

-----------------------------------------------------------------------------
(* Calls, the cache, and waiting for another goroutine's update.           *)

\* GetOrUpdateReaders, GetOrUpdateWriters.
GetOrUpdate(t) ==
  /\ pc[t] = "out"
  /\ \E s \in Selections, o \in {"readers", "writers"} :
       sel' = [sel EXCEPT ![t] = s] /\ op' = [op EXCEPT ![t] = o]
  /\ retries' = [retries EXCEPT ![t] = MissingRetries]
  /\ Goto(t, "check")
  /\ UNCHANGED <<cacheVars, tables, updateVars, readVars, tab, failed>>

\* GetNameOfDefaultDatabase reads a table in any case, from the initial router.
GetNameOfDefaultDatabase(t) ==
  /\ pc[t] = "out"
  /\ \E u \in Users :
       sel' = [sel EXCEPT ![t] = [name |-> Home, guess |-> FALSE, user |-> u]]
  /\ op' = [op EXCEPT ![t] = "default"]
  /\ Goto(t, "read")
  /\ UNCHANGED <<cacheVars, tables, updateVars, retries, readVars, tab, failed>>

\* getTableLocked: the table of a name, while it is valid.
getTableLocked(d) == IF due[d] = "future" THEN dbRouters[d] ELSE NoTable

\* Mutant: whoever finds no table reads it, even when somebody else does.
getOrUpdateTableUnshared(t) ==
  LET d == sel[t].name
      k == Key(sel[t])
  IN  /\ pc[t] = "check"
      /\ \/ /\ getTableLocked(d) # NoTable
            /\ tab' = [tab EXCEPT ![t] = getTableLocked(d)]
            /\ Goto(t, "got")
            /\ UNCHANGED <<updateVars, old>>
         \/ /\ getTableLocked(d) = NoTable
            /\ updating' = updating \cup {k}
            /\ old' = [old EXCEPT ![t] = dbRouters[d]]
            /\ Goto(t, "read")
            /\ UNCHANGED <<waiters, tab>>
      /\ UNCHANGED <<cacheVars, tables, callVars, stage, pos, last, unasked, failed>>

\* getOrUpdateTable under the lock: take the table, wait, or start to update.
getOrUpdateTable(t) ==
  LET d == sel[t].name
      k == Key(sel[t])
  IN  /\ pc[t] = "check"
      /\ \/ /\ getTableLocked(d) # NoTable
            /\ tab' = [tab EXCEPT ![t] = getTableLocked(d)]
            /\ Goto(t, "got")
            /\ UNCHANGED <<updateVars, old>>
         \/ /\ getTableLocked(d) = NoTable /\ k \in updating
            /\ waiters' = [waiters EXCEPT ![k] = @ \cup {t}]
            /\ Goto(t, "waiting")
            /\ UNCHANGED <<updating, old, tab>>
         \/ /\ getTableLocked(d) = NoTable /\ k \notin updating
            /\ updating' = updating \cup {k}
            /\ old' = [old EXCEPT ![t] = dbRouters[d]]
            /\ Goto(t, "read")
            /\ UNCHANGED <<waiters, tab>>
      /\ UNCHANGED <<cacheVars, tables, callVars, stage, pos, last, unasked, failed>>

\* The channel was closed.
WokenUp(t) ==
  /\ pc[t] = "waiting"
  /\ \A k \in Keys : t \notin waiters[k]
  /\ Goto(t, "check")
  /\ UNCHANGED <<cacheVars, tables, updateVars, callVars, readVars, tab, failed>>

\* ctx.Done; the channel stays in r.updating, but nobody listens to it.
WaitTimeout(t) ==
  /\ pc[t] = "waiting"
  /\ "deadline" \in Events
  /\ waiters' = [k \in Keys |-> waiters[k] \ {t}]
  /\ Leave(t)
  /\ UNCHANGED <<cacheVars, tables, updating, readVars, failed>>

-----------------------------------------------------------------------------
(* The update: updateTable and the two readTable functions.                *)

Listed(i) == {tables[i].array[j] : j \in 1..tables[i].len}

Rng(s) == {s[i] : i \in DOMAIN s}

\* The update is over without a table.
Fail(t, how) ==
  /\ failed' = [failed EXCEPT ![t] = how]
  /\ Goto(t, "done")
  /\ UNCHANGED <<old, stage, pos, last>>

\* updateTable: bookmarksFn fails.
BookmarksFail(t) ==
  /\ pc[t] = "read" /\ op[t] # "default"
  /\ "fatal" \in Events
  /\ Fail(t, "fatal")
  /\ UNCHANGED <<cacheVars, tables, updateVars, callVars, tab, unasked>>

Ask(t, st, n) ==
  /\ stage' = [stage EXCEPT ![t] = st]
  /\ pos' = [pos EXCEPT ![t] = 1] /\ last' = [last EXCEPT ![t] = n]
  /\ Goto(t, "ask")
  /\ UNCHANGED <<old, failed>>

\* Router.readTable begins with the last known routers, if there are any.
readTable(t) ==
  LET i == old[t]
      known == IF i = NoTable THEN {} ELSE Listed(i)
  IN  /\ pc[t] = "read"
      /\ IF known = {} THEN Ask(t, "root", 1) ELSE Ask(t, "known", tables[i].len)
      /\ unasked' = [unasked EXCEPT ![t] = known \cup {RootRouter} \cup Rng(CustomRouters)]
      /\ UNCHANGED <<cacheVars, tables, updateVars, callVars, tab>>

\* The element the range loop stands on.  The known routers are read from the
\* array of the table, as it is now.
router(t) == CASE stage[t] = "known"  -> tables[old[t]].array[pos[t]]
               [] stage[t] = "root"   -> RootRouter
               [] stage[t] = "custom" -> CustomRouters[pos[t]]

Asked(t) == unasked' = [unasked EXCEPT ![t] = @ \ {router(t)}]

\* Mutant: the initial router is only asked when no table was known.
NextStageNoRoot(t) ==
  \/ /\ stage[t] = "root" /\ CustomRouters # <<>>
     /\ Ask(t, "custom", Len(CustomRouters))
  \/ /\ stage[t] # "root" \/ CustomRouters = <<>>
     /\ Fail(t, "exhausted")

\* No table from this list of routers.
NextStage(t) ==
  \/ /\ stage[t] = "known"
     /\ Ask(t, "root", 1)
  \/ /\ stage[t] = "root" /\ CustomRouters # <<>>
     /\ Ask(t, "custom", Len(CustomRouters))
  \/ /\ stage[t] = "custom" \/ (stage[t] = "root" /\ CustomRouters = <<>>)
     /\ Fail(t, "exhausted")

\* The next router of the list, if any.
NextRouter(t) ==
  \/ /\ pos[t] < last[t]
     /\ pos' = [pos EXCEPT ![t] = @ + 1]
     /\ UNCHANGED <<pc, old, stage, last, failed>>
  \/ pos[t] = last[t] /\ NextStage(t)

\* removeServerFromList on a slice: the elements behind the first occurrence of
\* s move up in the shared array, and the slice gets shorter.
RemoveRouter(tb, s) ==
  LET at == {i \in 1..tb.len : tb.array[i] = s}
  IN  IF at = {} THEN tb
      ELSE LET i == CHOOSE i \in at : \A j \in at : i <= j
           IN  [tb EXCEPT !.len = @ - 1,
                          !.array = [j \in DOMAIN tb.array |->
                            tb.array[IF i <= j /\ j < tb.len THEN j + 1 ELSE j]]]

\* The tables in the cache lose s in their lists of the given kinds.
RemoveServer(ds, s, kinds) ==
  tables' = [i \in DOMAIN tables |->
    IF i \notin {dbRouters[d] : d \in ds} THEN tables[i]
    ELSE LET tb == IF "routers" \in kinds THEN RemoveRouter(tables[i], s) ELSE tables[i]
         IN  [tb EXCEPT !.readers = IF "readers" \in kinds THEN @ \ {s} ELSE @,
                        !.writers = IF "writers" \in kinds THEN @ \ {s} ELSE @]]

\* Borrow cannot reach the router: the pool deactivates it and with OnDialError
\* or OnIoError invalidates it here, in every table of the cache.
AskUnreachable(t) ==
  /\ pc[t] = "ask"
  /\ "dial" \in Events
  /\ RemoveServer(Names, router(t), {"routers", "readers", "writers"})
  /\ Asked(t)
  /\ NextRouter(t)
  /\ UNCHANGED <<cacheVars, updateVars, callVars, tab>>

\* Borrow or GetRoutingTable fails in another way that is not fatal.
AskFails(t) ==
  /\ pc[t] = "ask"
  /\ "error" \in Events \/ Len(tables) = MaxTables
  /\ Asked(t)
  /\ NextRouter(t)
  /\ UNCHANGED <<cacheVars, tables, updateVars, callVars, tab>>

\* Borrow fails because the context is done.  The error is wrapped, so it is not
\* fatal for Router.readTable, which goes on with the next list.
AskTimesOut(t) ==
  /\ pc[t] = "ask"
  /\ "deadline" \in Events
  /\ Asked(t)
  /\ NextStage(t)
  /\ UNCHANGED <<cacheVars, tables, updateVars, callVars, tab>>

\* An error that is fatal during discovery.
AskFatal(t) ==
  /\ pc[t] = "ask"
  /\ "fatal" \in Events
  /\ Asked(t)
  /\ Fail(t, "fatal")
  /\ UNCHANGED <<cacheVars, tables, updateVars, callVars, tab>>

\* The router answers.  It resolves the home database of the user.
AskAnswered(t) ==
  /\ pc[t] = "ask"
  /\ Len(tables) < MaxTables
  /\ \E c \in Contents,
        d \in IF targetDatabase(t) = Home THEN HomeDbs[sel[t].user] ELSE {sel[t].name} :
       tables' = Append(tables, [database |-> d, array |-> c.routers, len |-> Len(c.routers),
                                 readers |-> c.readers, writers |-> c.writers])
  /\ tab' = [tab EXCEPT ![t] = Len(tables')]
  /\ Asked(t)
  /\ Goto(t, "store")
  /\ UNCHANGED <<cacheVars, updateVars, callVars, old, stage, pos, last, failed>>

\* Mutant: the table is kept under the name the caller had guessed.
storeRoutingTableAsGuessed(t) ==
  /\ pc[t] = "store"
  /\ dbRouters' = [dbRouters EXCEPT ![sel[t].name] = tab[t]]
  /\ \E ttl \in {"now", "future"} : due' = [due EXCEPT ![sel[t].name] = ttl]
  /\ Goto(t, "done")
  /\ UNCHANGED <<tables, updateVars, callVars, readVars, tab, failed>>

\* The table goes into the cache; its time to live may be zero.
storeRoutingTable(t) ==
  LET d == IF targetDatabase(t) = Home THEN tables[tab[t]].database ELSE targetDatabase(t)
  IN  /\ pc[t] = "store"
      /\ dbRouters' = [dbRouters EXCEPT ![d] = tab[t]]
      /\ \E ttl \in {"now", "future"} : due' = [due EXCEPT ![d] = ttl]
      /\ Goto(t, "done")
      /\ UNCHANGED <<tables, updateVars, callVars, readVars, tab, failed>>

ForgetRead(t) ==
  /\ old' = [old EXCEPT ![t] = NoTable]
  /\ stage' = [stage EXCEPT ![t] = "none"]
  /\ pos' = [pos EXCEPT ![t] = 0] /\ last' = [last EXCEPT ![t] = 0]
  /\ failed' = [failed EXCEPT ![t] = "no"]
  /\ unasked' = [unasked EXCEPT ![t] = {}]

\* Mutant: the waiters are not told of a failed update.
UpdateDoneSilent(t) ==
  LET k == Key(sel[t])
  IN  /\ pc[t] = "done" /\ op[t] # "default"
      /\ updating' = updating \ {k}
      /\ waiters' = IF failed[t] = "no" THEN [waiters EXCEPT ![k] = {}] ELSE waiters
      /\ IF failed[t] = "no" THEN Goto(t, "got") /\ UNCHANGED <<callVars, tab>> ELSE Leave(t)
      /\ ForgetRead(t)
      /\ UNCHANGED <<cacheVars, tables>>

\* The last critical section of getOrUpdateTable: notify all waiters.
UpdateDone(t) ==
  LET k == Key(sel[t])
  IN  /\ pc[t] = "done" /\ op[t] # "default"
      /\ updating' = updating \ {k}
      /\ waiters' = [waiters EXCEPT ![k] = {}]
      /\ IF failed[t] = "no" THEN Goto(t, "got") /\ UNCHANGED <<callVars, tab>> ELSE Leave(t)
      /\ ForgetRead(t)
      /\ UNCHANGED <<cacheVars, tables>>

\* GetNameOfDefaultDatabase returns the name or the error.
DefaultDatabaseDone(t) ==
  /\ pc[t] = "done" /\ op[t] = "default"
  /\ Leave(t)
  /\ ForgetRead(t)
  /\ UNCHANGED <<cacheVars, tables, updateVars>>

-----------------------------------------------------------------------------
(* GetOrUpdateReaders and GetOrUpdateWriters with a table: return its list *)
(* or, when the list is empty, invalidate the table and start over.        *)

serverList(t) == IF op[t] = "readers" THEN tables[tab[t]].readers ELSE tables[tab[t]].writers

ReturnServers(t) ==
  /\ pc[t] = "got"
  /\ serverList(t) # {} \/ retries[t] = 1
  /\ Leave(t)
  /\ UNCHANGED <<cacheVars, tables, updateVars, readVars, failed>>

\* Invalidate resets the due time of the name.
Invalidate(d) == due' = [due EXCEPT ![d] = "past"]

\* Mutant: start over without invalidating the table.
RetryEmptyCached(t) ==
  /\ pc[t] = "got"
  /\ serverList(t) = {} /\ retries[t] > 1
  /\ retries' = [retries EXCEPT ![t] = @ - 1]
  /\ Goto(t, "check")
  /\ UNCHANGED <<cacheVars, tables, updateVars, op, sel, readVars, tab, failed>>

\* Mutant: one retry too many.
RetryEmptyOnceMore(t) ==
  /\ pc[t] = "got"
  /\ serverList(t) = {} /\ retries[t] > 0
  /\ retries' = [retries EXCEPT ![t] = @ - 1]
  /\ Invalidate(IF op[t] = "readers" THEN tables[tab[t]].database ELSE sel[t].name)
  /\ Goto(t, "check")
  /\ UNCHANGED <<dbRouters, tables, updateVars, op, sel, readVars, tab, failed>>

\* The readers' loop invalidates the name in the table, the writers' loop the
\* name that was asked for.
RetryEmpty(t) ==
  /\ pc[t] = "got"
  /\ serverList(t) = {} /\ retries[t] > 1
  /\ retries' = [retries EXCEPT ![t] = @ - 1]
  /\ Invalidate(IF op[t] = "readers" THEN tables[tab[t]].database ELSE sel[t].name)
  /\ Goto(t, "check")
  /\ UNCHANGED <<dbRouters, tables, updateVars, op, sel, readVars, tab, failed>>

-----------------------------------------------------------------------------
(* What the pool, closing sessions and the clock do to the router.         *)

InvalidateServer(s) ==
  /\ "invalidate" \in Events
  /\ RemoveServer(Names, s, {"routers", "readers", "writers"})
  /\ UNCHANGED <<cacheVars, updateVars, pc, callVars, readVars, tab, failed>>

InvalidateWriter(d, s) ==
  /\ "invalidate" \in Events
  /\ RemoveServer({d}, s, {"writers"})
  /\ UNCHANGED <<cacheVars, updateVars, pc, callVars, readVars, tab, failed>>

InvalidateReader(d, s) ==
  /\ "invalidate" \in Events
  /\ RemoveServer({d}, s, {"readers"})
  /\ UNCHANGED <<cacheVars, updateVars, pc, callVars, readVars, tab, failed>>

\* A table that is due this very second is neither valid nor removed.
CleanUp ==
  /\ "cleanup" \in Events
  /\ dbRouters' = [d \in Names |-> IF due[d] = "past" THEN NoTable ELSE dbRouters[d]]
  /\ UNCHANGED <<due, tables, updateVars, pc, callVars, readVars, tab, failed>>

\* The clock reaches, then passes the due time of d.
Expire(d) ==
  /\ "expire" \in Events
  /\ due[d] # "past"
  /\ due' = [due EXCEPT ![d] = IF @ = "future" THEN "now" ELSE "past"]
  /\ UNCHANGED <<dbRouters, tables, updateVars, pc, callVars, readVars, tab, failed>>

-----------------------------------------------------------------------------
\* What a goroutine does by itself once it has called the router.
Step(t) ==
  \/ getOrUpdateTable(t) \/ WokenUp(t)
  \/ BookmarksFail(t) \/ readTable(t)
  \/ AskUnreachable(t) \/ AskFails(t) \/ AskTimesOut(t) \/ AskFatal(t) \/ AskAnswered(t)
  \/ storeRoutingTable(t) \/ UpdateDone(t) \/ DefaultDatabaseDone(t)
  \/ ReturnServers(t) \/ RetryEmpty(t)

Next ==
  \/ \E t \in Threads :
       \/ GetOrUpdate(t) \/ GetNameOfDefaultDatabase(t)
       \/ Step(t)
       \/ WaitTimeout(t)
  \/ \E s \in Servers :
       InvalidateServer(s) \/ \E d \in Names : InvalidateWriter(d, s) \/ InvalidateReader(d, s)
  \/ CleanUp
  \/ \E d \in Names : Expire(d)

Spec == Init /\ [][Next]_vars

\* Goroutines are scheduled and requests to routers end.
FairSpec == Spec /\ \A t \in Threads : WF_vars(Step(t))

-----------------------------------------------------------------------------
(* Properties.                                                             *)

\* Every variable has its type.
TypeOK ==
  /\ dbRouters \in [Names -> 0..Len(tables)]
  /\ due \in [Names -> {"future", "now", "past"}]
  /\ tables \in Seq([database : Names, array : Seq(Servers), len : Nat,
                     readers : SUBSET Servers, writers : SUBSET Servers])
  /\ updating \subseteq Keys /\ waiters \in [Keys -> SUBSET Threads]
  /\ pc \in [Threads -> {"out", "check", "waiting", "read", "ask", "store", "done", "got"}]
  /\ op \in [Threads -> Ops]
  /\ sel \in [Threads -> [name : Names, guess : BOOLEAN, user : Users]]
  /\ old \in [Threads -> 0..Len(tables)] /\ tab \in [Threads -> 0..Len(tables)]
  /\ stage \in [Threads -> {"none", "known", "root", "custom"}]
  /\ pos \in [Threads -> Nat] /\ last \in [Threads -> Nat]
  /\ failed \in [Threads -> {"no", "fatal", "exhausted"}]
  /\ retries \in [Threads -> 0..MissingRetries]
  /\ \A t \in Threads : pc[t] # "out" /\ op[t] # "default" => retries[t] > 0
  /\ unasked \in [Threads -> SUBSET Servers]

\* The threads that are updating the table of key k.
Updaters(k) == {t \in Threads : /\ pc[t] \in {"read", "ask", "store", "done"}
                                /\ op[t] # "default" /\ Key(sel[t]) = k}

\* At most one goroutine reads the table of a key, it is there as long as the
\* key is marked, and everyone who waits for the key waits for that goroutine:
\* no update is done twice and no key stays marked by nobody.
SingleFlight ==
  \A k \in Keys :
    /\ Cardinality(Updaters(k)) = (IF k \in updating THEN 1 ELSE 0)
    /\ waiters[k] # {} => k \in updating
    /\ \A t \in waiters[k] : pc[t] = "waiting" /\ Key(sel[t]) = k

\* Whoever asks for a home database gets the table of a database that is the
\* home of this user, or the one it had guessed, whoever else is resolving a
\* home database at the same time.
HomeDbIsPerUser ==
  \A t \in Threads :
    pc[t] = "got" =>
      LET d == tables[tab[t]].database
      IN  \/ d = sel[t].name
          \/ IsHomeRead(t) /\ d \in HomeDbs[sel[t].user]

\* An update gives up for want of a router that answers only after the initial
\* router was asked, however many routers were known before.
FallsBackToRoot ==
  \A t \in Threads : failed[t] = "exhausted" => RootRouter \notin unasked[t]

\* A caller that found an empty list never gets the same table again: every
\* retry waits for a table that was read later.
RetryRefreshes ==
  [][\A t \in Threads : pc[t] = "check" /\ pc'[t] = "got" => tab'[t] # tab[t]]_vars

\* The initial router is asked only after every last known router was asked.
KnownRoutersAllAsked ==
  [][\A t \in Threads :
       stage[t] = "known" /\ stage'[t] = "root" => unasked'[t] \subseteq {RootRouter}]_vars

\* Whoever waits for another goroutine's update is woken, also when that update
\* fails.
EveryWaiterWakes ==
  \A t \in Threads : pc[t] = "waiting" ~> pc[t] # "waiting"
=============================================================================
