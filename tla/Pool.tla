-------------------------------- MODULE Pool --------------------------------
(***************************************************************************)
(* The connection pool of the driver: neo4j/internal/pool/pool.go with the *)
(* per-server lists of server.go and the SSR counters of ssr_tracker.go.   *)
(*                                                                         *)
(* Every goroutine that borrows or returns is a thread with a program      *)
(* counter.  One action is one critical section of serversMut or queueMut, *)
(* one unsynchronised access of shared state, or one call that leaves the  *)
(* pool (dial, HELLO, health check, RESET); everything a goroutine does    *)
(* between two of those touches only its own locals.                       *)
(*                                                                         *)
(* Time is abstract.  Connections are numbered in the order of their       *)
(* birth dates; lifetimeMark says which of them have reached               *)
(* MaxConnectionLifetime, and a remembered connect failure is forgotten at *)
(* an arbitrary moment.                                                    *)
(***************************************************************************)
EXTENDS Integers, Sequences, FiniteSets

CONSTANTS
  Servers,                \* server names
  Threads,                \* goroutines that use the pool
  MaxConnectionPoolSize,  \* config.MaxConnectionPoolSize
  MaxConns,               \* bound: connections dialled over the whole behaviour
  ServerLists,            \* what the callers' getServerNames may return
  SsrServers,             \* servers whose HELLO carries ssr.enabled = true
  NoWait,                 \* threads that call Borrow with wait = false
  Deadline,               \* threads whose context may be done while they wait
  Events,                 \* what the environment may do, a subset of AllEvents
  NoServer

AllEvents == {"dial",        \* connecting fails
              "health",      \* an idle connection fails its health check
              "io",          \* a connection breaks while it is in use
              "unavailable", \* the server answers DatabaseUnavailable
              "age",         \* connections reach MaxConnectionLifetime
              "cleanup",     \* a session is closed and cleans the pool up
              "close"}       \* the driver is closed

ASSUME PoolConstants ==
  /\ IsFiniteSet(Servers) /\ IsFiniteSet(Threads) /\ NoServer \notin Servers
  /\ MaxConnectionPoolSize \in Nat \ {0}
  /\ MaxConns \in Nat
  /\ ServerLists \subseteq SUBSET Servers
  /\ SsrServers \subseteq Servers
  /\ NoWait \subseteq Threads /\ Deadline \subseteq Threads
  /\ Events \subseteq AllEvents

Conns  == 1..MaxConns
NoConn == 0

VARIABLES
  servers,           \* the keys of the map p.servers
  idle, busy,        \* server.idle and server.busy, as sets
  reservations,      \* server.reservations
  closing,           \* server.closing
  failedConnect,     \* server.failedConnectAt is set and still remembered
  queue,             \* p.queue: the waiting threads, first come first served
  wakeup,            \* threads whose wakeup channel holds a token
  closePc,           \* progress of Pool.Close
  ssrEnabledCount, ssrDisabledCount,
  cacheEnabled,      \* homedb.Cache.enabled
  dead,              \* connections whose IsAlive is false
  released,          \* connections that were closed
  nextConn,          \* number of connections dialled so far
  lifetimeMark,      \* connections 1..lifetimeMark are too old
  pc,                \* per thread, where it is
  srv,               \* per thread, the server it is working on
  conn,              \* per thread, the connection it has
  names,             \* per thread, the server names of this Borrow round
  todo,              \* per thread, the servers still to be tried, best first
  tooOld,            \* per thread, Return found its connection too old
  ssrRead            \* per thread, the value ssrEnabled() returned

serverVars == <<servers, idle, busy, reservations, closing, failedConnect>>
queueVars  == <<queue, wakeup>>
ssrVars    == <<ssrEnabledCount, ssrDisabledCount>>
connVars   == <<dead, nextConn, lifetimeMark>>
localVars  == <<srv, conn, names, todo, tooOld, ssrRead>>
vars == <<serverVars, queueVars, closePc, ssrVars, cacheEnabled, connVars,
          released, pc, localVars>>

Init ==
  /\ servers = {}
  /\ idle = [s \in Servers |-> {}] /\ busy = [s \in Servers |-> {}]
  /\ reservations = [s \in Servers |-> 0]
  /\ closing = [s \in Servers |-> FALSE]
  /\ failedConnect = [s \in Servers |-> FALSE]
  /\ queue = <<>> /\ wakeup = {}
  /\ closePc = "open"
  /\ ssrEnabledCount = 0 /\ ssrDisabledCount = 0 /\ cacheEnabled = FALSE
  /\ dead = {} /\ released = {} /\ nextConn = 0 /\ lifetimeMark = 0
  /\ pc = [t \in Threads |-> "out"]
  /\ srv = [t \in Threads |-> NoServer]
  /\ conn = [t \in Threads |-> NoConn]
  /\ names = [t \in Threads |-> {}]
  /\ todo = [t \in Threads |-> <<>>]
  /\ tooOld = [t \in Threads |-> FALSE]
  /\ ssrRead = [t \in Threads |-> FALSE]

-----------------------------------------------------------------------------
(* Helpers on one server (server.go).                                      *)

\* What a thread may read in p.closed.  Close writes it without a lock: until
\* Close has been through serversMut a reader may still see the old value.
closed == CASE closePc = "open" -> {FALSE}
            [] closePc = "done" -> {TRUE}
            [] OTHER -> BOOLEAN

\* server.size: reservations count like connections.
size(s) == Cardinality(busy[s]) + Cardinality(idle[s]) + reservations[s]

\* Mutant: connections that are being opened are forgotten.
hasRoomOpenOnly(s) ==
  Cardinality(busy[s]) + Cardinality(idle[s]) < MaxConnectionPoolSize

hasRoom(s) == size(s) < MaxConnectionPoolSize

\* calculatePenalty without the round-robin byte: ties are broken arbitrarily.
calculatePenalty(s, idleNow) ==
  LET numBusy == Cardinality(busy[s])
  IN  IF s \in servers
      THEN   (IF failedConnect[s] THEN 512 ELSE 0)
           + 2 * (IF numBusy > 255 THEN 255 ELSE numBusy)
           + (IF idleNow = {} THEN 1 ELSE 0)
      ELSE 1                              \* newConnectionPenalty

\* The orders in which sort.Slice may leave the servers S.
SortedByPenalty(S, idleAfter) ==
  {o \in [1..Cardinality(S) -> S] :
     /\ \A i, j \in DOMAIN o : i # j => o[i] # o[j]
     /\ \A i, j \in DOMAIN o :
          i < j => calculatePenalty(o[i], idleAfter[o[i]])
                     <= calculatePenalty(o[j], idleAfter[o[j]])}

\* Connections as old as c or older; c = 0 stands for "none".
AsOldAs(c) == {d \in Conns : d <= c}

Only(s, C) == [x \in Servers |-> IF x = s THEN C ELSE {}]

\* Mutant: the connection is closed but stays counted.
closeConnectionUncounted(gone) ==
  /\ released' = released \cup UNION {gone[s] : s \in Servers}
  /\ UNCHANGED ssrVars

\* closeConnection for every connection of gone[s], s in Servers: it leaves
\* the SSR counters and is closed on a goroutine of its own.
closeConnection(gone) ==
  /\ released' = released \cup UNION {gone[s] : s \in Servers}
  /\ ssrEnabledCount' =
       ssrEnabledCount - Cardinality(UNION {gone[s] : s \in SsrServers})
  /\ ssrDisabledCount' =
       ssrDisabledCount - Cardinality(UNION {gone[s] : s \in Servers \ SsrServers})

\* removeIdleOlderThan on the servers S, every connection in old being too old.
removeIdleOlderThan(S, old) ==
  /\ idle' = [s \in Servers |-> IF s \in S THEN idle[s] \ old ELSE idle[s]]
  /\ closeConnection([s \in Servers |-> IF s \in S THEN idle[s] \cap old ELSE {}])

\* Mutant: the idle connections are closed, the list is not emptied.
startClosingKeepsList(S) ==
  /\ closing' = [s \in Servers |-> s \in S \/ closing[s]]
  /\ closeConnection([s \in Servers |-> IF s \in S THEN idle[s] ELSE {}])
  /\ UNCHANGED idle

\* Mutant: the closing flag is not raised.
startClosingUnflagged(S) ==
  removeIdleOlderThan(S, Conns) /\ UNCHANGED closing

\* closing makes returnBusy close what is still in use.
startClosing(S) ==
  /\ closing' = [s \in Servers |-> s \in S \/ closing[s]]
  /\ removeIdleOlderThan(S, Conns)

-----------------------------------------------------------------------------
(* The thread's control.                                                   *)

Goto(t, l) == pc' = [pc EXCEPT ![t] = l]

\* What Borrow does with the outcome of a tryBorrow that gave no connection:
\* "nil" the server is full, "stop" a timeout or an error that is fatal during
\* discovery, "error" any other error.
NextServer(t, outcome) ==
  /\ conn' = [conn EXCEPT ![t] = NoConn]
  /\ srv'  = [srv EXCEPT ![t] = NoServer]
  /\ IF outcome # "stop" /\ Len(todo[t]) > 1
     THEN /\ Goto(t, "try")
          /\ todo' = [todo EXCEPT ![t] = Tail(@)]
          /\ UNCHANGED names
     ELSE /\ todo' = [todo EXCEPT ![t] = <<>>]
          /\ IF outcome = "nil" /\ t \notin NoWait
             THEN Goto(t, "enqueue") /\ UNCHANGED names
             ELSE Goto(t, "out") /\ names' = [names EXCEPT ![t] = {}]

\* Borrow is called.
Borrow(t) ==
  /\ pc[t] = "out"
  /\ Goto(t, "loop")
  /\ UNCHANGED <<serverVars, queueVars, closePc, ssrVars, cacheEnabled,
                 connVars, released, localVars>>

checkClosed(t) ==
  /\ pc[t] = "loop"
  /\ \E stop \in closed : Goto(t, IF stop THEN "out" ELSE "penalties")
  /\ UNCHANGED <<serverVars, queueVars, closePc, ssrVars, cacheEnabled,
                 connVars, released, localVars>>

\* getServerNames, the penalties and their order.  An empty list is the error
\* PoolOutOfServers.
getPenaltiesForServers(t) ==
  /\ pc[t] = "penalties"
  /\ \E S \in ServerLists :
       \/ /\ S = {}
          /\ Goto(t, "out")
          /\ UNCHANGED <<idle, released, ssrVars, names, todo>>
       \/ /\ S # {}
          /\ removeIdleOlderThan(S \cap servers, AsOldAs(lifetimeMark))
          /\ \E order \in SortedByPenalty(S, idle') :
               todo' = [todo EXCEPT ![t] = order]
          /\ names' = [names EXCEPT ![t] = S]
          /\ Goto(t, "try")
  /\ UNCHANGED <<servers, busy, reservations, closing, failedConnect,
                 queueVars, closePc, cacheEnabled, connVars,
                 srv, conn, tooOld, ssrRead>>

\* Mutant: the connection stays on the idle list.
getIdlePeek(t, s, c) ==
  /\ busy' = [busy EXCEPT ![s] = @ \cup {c}]
  /\ conn' = [conn EXCEPT ![t] = c]
  /\ UNCHANGED idle

getIdle(t, s, c) ==
  /\ idle' = [idle EXCEPT ![s] = @ \ {c}]
  /\ busy' = [busy EXCEPT ![s] = @ \cup {c}]
  /\ conn' = [conn EXCEPT ![t] = c]

\* The body of tryBorrow's loop, under serversMut: reuse, give up or reserve.
getIdleOrReserve(t, s) ==
  \/ /\ s \in servers
     /\ closing' = [closing EXCEPT ![s] = FALSE]
     /\ \/ /\ \E c \in idle[s] : getIdle(t, s, c)
           /\ srv' = [srv EXCEPT ![t] = s]
           /\ Goto(t, "health")
           /\ UNCHANGED <<reservations, names, todo>>
        \/ /\ idle[s] = {}
           /\ ~hasRoom(s)
           /\ NextServer(t, "nil")
           /\ UNCHANGED <<idle, busy, reservations>>
        \/ /\ idle[s] = {}
           /\ hasRoom(s)
           /\ reservations' = [reservations EXCEPT ![s] = @ + 1]
           /\ srv' = [srv EXCEPT ![t] = s]
           /\ Goto(t, "dial")
           /\ UNCHANGED <<idle, busy, conn, names, todo>>
     /\ UNCHANGED <<servers, failedConnect>>
  \/ /\ s \notin servers                                        \* NewServer
     /\ servers' = servers \cup {s}
     /\ closing' = [closing EXCEPT ![s] = FALSE]
     /\ failedConnect' = [failedConnect EXCEPT ![s] = FALSE]
     /\ reservations' = [reservations EXCEPT ![s] = @ + 1]
     /\ srv' = [srv EXCEPT ![t] = s]
     /\ Goto(t, "dial")
     /\ UNCHANGED <<idle, busy, conn, names, todo>>

\* tryBorrow from its entry: only here is the pool checked for being closed.
tryBorrow(t) ==
  /\ pc[t] = "try"
  /\ \/ /\ TRUE \in closed
        /\ NextServer(t, "error")
        /\ UNCHANGED serverVars
     \/ /\ FALSE \in closed
        /\ getIdleOrReserve(t, Head(todo[t]))
  /\ UNCHANGED <<queueVars, closePc, ssrVars, cacheEnabled, connVars, released,
                 tooOld, ssrRead>>

\* tryBorrow locks again after it discarded a dead idle connection.
tryBorrowAgain(t) ==
  /\ pc[t] = "retry"
  /\ getIdleOrReserve(t, Head(todo[t]))
  /\ UNCHANGED <<queueVars, closePc, ssrVars, cacheEnabled, connVars, released,
                 tooOld, ssrRead>>

\* deactivate, called for dial errors, I/O errors and DatabaseUnavailable.
deactivate(s) == startClosing({s} \cap servers)

NoDeactivate == UNCHANGED <<idle, closing, released, ssrVars>>

\* Mutant: the connection is forgotten without being closed.
unregLockedUnclosed(s, c) ==
  /\ busy' = [busy EXCEPT ![s] = @ \ {c}]
  /\ UNCHANGED <<servers, released, ssrVars, idle, reservations, closing, failedConnect>>

\* unregLocked: c leaves the busy list, an empty server leaves the map unless a
\* connect failure is remembered.  The connection is closed in any case.
unregLocked(s, c) ==
  LET left == size(s) - Cardinality(busy[s] \cap {c})
  IN  /\ busy' = [busy EXCEPT ![s] = IF s \in servers THEN @ \ {c} ELSE @]
      /\ servers' = IF left = 0 /\ ~failedConnect[s] THEN servers \ {s} ELSE servers
      /\ closeConnection(Only(s, {c}))
      /\ UNCHANGED <<idle, reservations, closing, failedConnect>>

-----------------------------------------------------------------------------
(* An idle connection was found: server.healthCheck, outside every lock.   *)

Healthy(t) ==
  /\ pc[t] = "health"
  /\ Goto(t, "cache1")
  /\ names' = [names EXCEPT ![t] = {}] /\ todo' = [todo EXCEPT ![t] = <<>>]
  /\ UNCHANGED <<serverVars, queueVars, closePc, ssrVars, cacheEnabled,
                 connVars, released, srv, conn, tooOld, ssrRead>>

\* IsPeerAlive is false, or ForceReset or ReAuth fails.  The last two reach
\* OnIoError when the socket breaks.
Unhealthy(t) ==
  /\ pc[t] = "health"
  /\ "health" \in Events
  /\ deactivate(srv[t]) \/ NoDeactivate
  /\ Goto(t, "unhealthy")
  /\ UNCHANGED <<servers, busy, reservations, failedConnect, queueVars, closePc,
                 cacheEnabled, connVars, localVars>>

\* tryBorrow unregisters the connection, then tries again or returns the error.
DiscardUnhealthy(t) ==
  /\ pc[t] = "unhealthy"
  /\ unregLocked(srv[t], conn[t])
  /\ \/ /\ Goto(t, "retry")
        /\ conn' = [conn EXCEPT ![t] = NoConn]
        /\ srv' = [srv EXCEPT ![t] = NoServer]
        /\ UNCHANGED <<names, todo>>
     \/ \E outcome \in {"error", "stop"} : NextServer(t, outcome)
  /\ UNCHANGED <<queueVars, closePc, cacheEnabled, connVars, tooOld, ssrRead>>

-----------------------------------------------------------------------------
(* No idle connection: p.connect, outside every lock, then registration.   *)

\* The socket is open and the Bolt connection has its birth date.
Dial(t) ==
  /\ pc[t] = "dial"
  /\ nextConn < MaxConns
  /\ nextConn' = nextConn + 1
  /\ conn' = [conn EXCEPT ![t] = nextConn']
  /\ Goto(t, "hello")
  /\ UNCHANGED <<serverVars, queueVars, closePc, ssrVars, cacheEnabled, dead,
                 lifetimeMark, released, srv, names, todo, tooOld, ssrRead>>

\* Dialling or the TLS handshake fails; the connector calls OnDialError.
DialFails(t) ==
  /\ pc[t] = "dial"
  /\ "dial" \in Events \/ nextConn = MaxConns
  /\ deactivate(srv[t])
  /\ Goto(t, "connectFailed")
  /\ UNCHANGED <<servers, busy, reservations, failedConnect, queueVars, closePc,
                 cacheEnabled, connVars, localVars>>

\* The Bolt handshake or HELLO fails, with or without reaching OnIoError.
HelloFails(t) ==
  /\ pc[t] = "hello"
  /\ "dial" \in Events
  /\ deactivate(srv[t]) \/ NoDeactivate
  /\ Goto(t, "connectFailed")
  /\ UNCHANGED <<servers, busy, reservations, failedConnect, queueVars, closePc,
                 cacheEnabled, connVars, localVars>>

\* Mutant: a socket is closed even when none was opened.
ConnectFailedClosesNil(t) ==
  /\ pc[t] = "connectFailed"
  /\ reservations' = [reservations EXCEPT ![srv[t]] = @ - 1]
  /\ \E outcome \in {"error", "stop"} : NextServer(t, outcome)
  /\ \/ failedConnect' = [failedConnect EXCEPT ![srv[t]] = TRUE]
     \/ UNCHANGED failedConnect
  /\ released' = released \cup {conn[t]}
  /\ UNCHANGED <<servers, idle, busy, closing, queueVars, closePc, ssrVars,
                 cacheEnabled, connVars, tooOld, ssrRead>>

\* tryBorrow after an error of p.connect.  The connector has closed the socket
\* it opened, if any; FeatureNotSupportedError is not held against the server.
ConnectFailed(t) ==
  /\ pc[t] = "connectFailed"
  /\ reservations' = [reservations EXCEPT ![srv[t]] = @ - 1]
  /\ \E outcome \in {"error", "stop"} : NextServer(t, outcome)
  /\ \/ failedConnect' = [failedConnect EXCEPT ![srv[t]] = TRUE]
     \/ UNCHANGED failedConnect
  /\ released' = released \cup ({conn[t]} \ {NoConn})
  /\ UNCHANGED <<servers, idle, busy, closing, queueVars, closePc, ssrVars,
                 cacheEnabled, connVars, tooOld, ssrRead>>

\* tryBorrow after a successful p.connect: addConnection, registerBusy.
Connected(t) ==
  /\ pc[t] = "hello"
  /\ LET s == srv[t]
     IN  /\ reservations' = [reservations EXCEPT ![s] = @ - 1]
         /\ busy' = [busy EXCEPT ![s] = @ \cup {conn[t]}]
         /\ failedConnect' = [failedConnect EXCEPT ![s] = FALSE]
         /\ ssrEnabledCount' = ssrEnabledCount + (IF s \in SsrServers THEN 1 ELSE 0)
         /\ ssrDisabledCount' = ssrDisabledCount + (IF s \in SsrServers THEN 0 ELSE 1)
  /\ Goto(t, "cache1")
  /\ names' = [names EXCEPT ![t] = {}] /\ todo' = [todo EXCEPT ![t] = <<>>]
  /\ UNCHANGED <<servers, idle, closing, queueVars, closePc, cacheEnabled,
                 connVars, released, srv, conn, tooOld, ssrRead>>

-----------------------------------------------------------------------------
(* updateCacheState, at the end of Borrow and of Return, under no lock: two *)
(* atomic loads (the second only if the first is positive), then the flag. *)

LoadSsrEnabledCount(t) ==
  /\ pc[t] = "cache1"
  /\ ssrRead' = [ssrRead EXCEPT ![t] = ssrEnabledCount > 0]
  /\ Goto(t, IF ssrEnabledCount > 0 THEN "cache2" ELSE "cacheSet")
  /\ UNCHANGED <<serverVars, queueVars, closePc, ssrVars, cacheEnabled, connVars,
                 released, srv, conn, names, todo, tooOld>>

LoadSsrDisabledCount(t) ==
  /\ pc[t] = "cache2"
  /\ ssrRead' = [ssrRead EXCEPT ![t] = ssrDisabledCount = 0]
  /\ Goto(t, "cacheSet")
  /\ UNCHANGED <<serverVars, queueVars, closePc, ssrVars, cacheEnabled, connVars,
                 released, srv, conn, names, todo, tooOld>>

\* cache.SetEnabled, the end of updateCacheState.
SetEnabled(t) ==
  /\ pc[t] = "cacheSet"
  /\ cacheEnabled' = ssrRead[t]
  /\ ssrRead' = [ssrRead EXCEPT ![t] = FALSE]
  /\ Goto(t, IF conn[t] = NoConn THEN "wake" ELSE "held")
  /\ UNCHANGED <<serverVars, queueVars, closePc, ssrVars, connVars,
                 released, srv, conn, names, todo, tooOld>>

-----------------------------------------------------------------------------
(* Every server is full: wait for a connection to be returned.             *)

\* Mutant: no second look at the capacity.
anyHasCapacityUnchecked(S) == FALSE

\* A server that is no longer in the map does not count.
anyHasCapacity(S) ==
  \E s \in S \cap servers : idle[s] # {} \/ hasRoom(s)

Enqueue(t) ==
  /\ pc[t] = "enqueue"
  /\ names' = [names EXCEPT ![t] = {}]
  /\ \/ anyHasCapacity(names[t]) /\ Goto(t, "loop") /\ UNCHANGED queue
     \/ /\ ~anyHasCapacity(names[t])
        /\ queue' = Append(queue, t)
        /\ Goto(t, "waiting")
  /\ UNCHANGED <<serverVars, wakeup, closePc, ssrVars, cacheEnabled, connVars,
                 released, srv, conn, todo, tooOld, ssrRead>>

\* Mutant: the waiter that is woken stays in the queue.
WakeFrontKeeps ==
  /\ wakeup' = wakeup \cup {queue[i] : i \in DOMAIN queue \cap {1}}
  /\ UNCHANGED queue

\* Pop the first waiter and send on its wakeup channel.
WakeFront ==
  \/ queue # <<>> /\ queue' = Tail(queue) /\ wakeup' = wakeup \cup {Head(queue)}
  \/ queue = <<>> /\ UNCHANGED queueVars

WokenUp(t) ==
  /\ pc[t] = "waiting"
  /\ t \in wakeup
  /\ wakeup' = wakeup \ {t}
  /\ Goto(t, "loop")
  /\ UNCHANGED <<serverVars, queue, closePc, ssrVars, cacheEnabled, connVars,
                 released, localVars>>

\* Mutant: a waiter that gives up takes its token along.
WaitTimeoutDropsToken(t) ==
  /\ pc[t] = "waiting"
  /\ t \in Deadline
  /\ queue' = SelectSeq(queue, LAMBDA u : u # t)
  /\ wakeup' = wakeup \ {t}
  /\ Goto(t, "out")
  /\ UNCHANGED <<serverVars, closePc, ssrVars, cacheEnabled, connVars, released,
                 localVars>>

\* list.Remove of the element at position i.
RemoveAt(q, i) == SubSeq(q, 1, i - 1) \o SubSeq(q, i + 1, Len(q))

\* ctx.Done: give up, unless a token is there, which goes to the next waiter.
WaitTimeout(t) ==
  /\ pc[t] = "waiting"
  /\ t \in Deadline
  /\ \/ /\ t \in wakeup
        /\ queue' = IF queue = <<>> THEN queue ELSE Tail(queue)
        /\ wakeup' = (wakeup \ {t}) \cup {queue[i] : i \in DOMAIN queue \cap {1}}
        /\ Goto(t, "loop")
     \/ /\ t \notin wakeup
        /\ \E i \in DOMAIN queue : queue[i] = t /\ queue' = RemoveAt(queue, i)
        /\ UNCHANGED wakeup
        /\ Goto(t, "out")
  /\ UNCHANGED <<serverVars, closePc, ssrVars, cacheEnabled, connVars, released,
                 localVars>>

-----------------------------------------------------------------------------
(* The connection is in the hands of a session.                            *)

\* The connection breaks: OnIoError, then IsAlive is false.
OnIoError(t) ==
  /\ pc[t] = "held" /\ conn[t] \notin dead
  /\ "io" \in Events
  /\ deactivate(srv[t])
  /\ dead' = dead \cup {conn[t]}
  /\ UNCHANGED <<servers, busy, reservations, failedConnect, queueVars, closePc,
                 cacheEnabled, nextConn, lifetimeMark, pc, localVars>>

\* OnNeo4jError with DatabaseUnavailable: the connection stays alive.
OnNeo4jError(t) ==
  /\ pc[t] = "held" /\ conn[t] \notin dead
  /\ "unavailable" \in Events
  /\ deactivate(srv[t])
  /\ UNCHANGED <<servers, busy, reservations, failedConnect, queueVars, closePc,
                 cacheEnabled, connVars, pc, localVars>>

-----------------------------------------------------------------------------
(* Return.                                                                 *)

\* IsAlive, the age and removeIdleOlderThanOnServer: a dead connection takes
\* the idle connections of its age or older with it.
Return(t) ==
  LET c == conn[t]
      alive == c \notin dead
  IN  /\ pc[t] = "held"
      /\ removeIdleOlderThan({srv[t]} \cap servers,
                             AsOldAs(lifetimeMark) \cup (IF alive THEN {} ELSE AsOldAs(c)))
      /\ tooOld' = [tooOld EXCEPT ![t] = c <= lifetimeMark]
      /\ Goto(t, IF alive THEN "reset" ELSE "unreg")
      /\ UNCHANGED <<servers, busy, reservations, closing, failedConnect, queueVars,
                     closePc, cacheEnabled, connVars, srv, conn, names, todo, ssrRead>>

\* Mutant: a connection that is too old is put back if RESET succeeds.
ResetIgnoresAge(t) ==
  /\ pc[t] = "reset"
  /\ Goto(t, "giveBack")
  /\ UNCHANGED <<serverVars, queueVars, closePc, ssrVars, cacheEnabled, connVars,
                 released, localVars>>

\* RESET leaves the connection alive.
Reset(t) ==
  /\ pc[t] = "reset"
  /\ Goto(t, IF tooOld[t] THEN "unreg" ELSE "giveBack")
  /\ UNCHANGED <<serverVars, queueVars, closePc, ssrVars, cacheEnabled, connVars,
                 released, localVars>>

\* RESET finds the connection broken; OnIoError is not called for a connection
\* that was in the failed state.
ResetFails(t) ==
  /\ pc[t] = "reset"
  /\ "io" \in Events
  /\ deactivate(srv[t]) \/ NoDeactivate
  /\ dead' = dead \cup {conn[t]}
  /\ Goto(t, "unreg")
  /\ UNCHANGED <<servers, busy, reservations, failedConnect, queueVars, closePc,
                 cacheEnabled, nextConn, lifetimeMark, localVars>>

\* The thread is done with its connection and goes on to updateCacheState.
LetGo(t) ==
  /\ conn' = [conn EXCEPT ![t] = NoConn]
  /\ srv' = [srv EXCEPT ![t] = NoServer]
  /\ tooOld' = [tooOld EXCEPT ![t] = FALSE]
  /\ Goto(t, "cache1")

\* unreg of a dead or too old connection.
ReturnDiscards(t) ==
  /\ pc[t] = "unreg"
  /\ unregLocked(srv[t], conn[t])
  /\ LetGo(t)
  /\ UNCHANGED <<queueVars, closePc, cacheEnabled, connVars, names, todo, ssrRead>>

\* returnBusy: to the idle list, or closed if the server is being closed or is
\* no longer known.
ReturnBusy(t) ==
  LET s == srv[t]
      c == conn[t]
      left == size(s) - Cardinality(busy[s] \cap {c})
  IN  /\ pc[t] = "giveBack"
      /\ \/ /\ s \in servers /\ ~closing[s]
            /\ busy' = [busy EXCEPT ![s] = @ \ {c}]
            /\ idle' = [idle EXCEPT ![s] = @ \cup {c}]
            /\ UNCHANGED <<servers, released, ssrVars>>
         \/ /\ s \in servers /\ closing[s]
            /\ busy' = [busy EXCEPT ![s] = @ \ {c}]
            /\ closeConnection(Only(s, {c}))
            /\ servers' = IF left = 0 THEN servers \ {s} ELSE servers
            /\ UNCHANGED idle
         \/ /\ s \notin servers
            /\ closeConnection(Only(s, {c}))
            /\ UNCHANGED <<servers, busy, idle>>
      /\ LetGo(t)
      /\ UNCHANGED <<reservations, closing, failedConnect, queueVars, closePc,
                     cacheEnabled, connVars, names, todo, ssrRead>>

\* The last critical section of Return.
WakeWaiter(t) ==
  /\ pc[t] = "wake"
  /\ WakeFront
  /\ Goto(t, "out")
  /\ UNCHANGED <<serverVars, closePc, ssrVars, cacheEnabled, connVars, released,
                 localVars>>

-----------------------------------------------------------------------------
(* Pool.Close in its three parts, CleanUp, and the passing of time.        *)

CloseFlag ==
  /\ "close" \in Events /\ closePc = "open"
  /\ closePc' = "flagged"
  /\ UNCHANGED <<serverVars, queueVars, ssrVars, cacheEnabled, connVars, released,
                 pc, localVars>>

\* The loop over the queue removes the element it stands on; list.Remove clears
\* the element's links, so e.Next() ends the loop after the first waiter.
CloseWake ==
  /\ closePc = "flagged"
  /\ WakeFront
  /\ closePc' = "drained"
  /\ UNCHANGED <<serverVars, ssrVars, cacheEnabled, connVars, released, pc, localVars>>

CloseServers ==
  /\ closePc = "drained"
  /\ startClosing(servers)
  /\ closePc' = "done"
  /\ UNCHANGED <<servers, busy, reservations, failedConnect, queueVars,
                 cacheEnabled, connVars, pc, localVars>>

Close == CloseFlag \/ CloseWake \/ CloseServers

\* Mutant: a server that is being connected to counts as empty.
CleanUpUnreserved ==
  /\ "cleanup" \in Events
  /\ removeIdleOlderThan(servers, AsOldAs(lifetimeMark))
  /\ servers' = {s \in servers : failedConnect[s] \/ busy[s] \cup idle'[s] # {}}
  /\ UNCHANGED <<busy, reservations, closing, failedConnect, queueVars, closePc,
                 cacheEnabled, connVars, pc, localVars>>

CleanUp ==
  /\ "cleanup" \in Events
  /\ removeIdleOlderThan(servers, AsOldAs(lifetimeMark))
  /\ servers' = {s \in servers :
                    \/ failedConnect[s]
                    \/ Cardinality(busy[s]) + Cardinality(idle'[s]) + reservations[s] # 0}
  /\ UNCHANGED <<busy, reservations, closing, failedConnect, queueVars, closePc,
                 cacheEnabled, connVars, pc, localVars>>

\* The oldest connection that had not reached MaxConnectionLifetime reaches it.
GrowOld ==
  /\ "age" \in Events /\ lifetimeMark < nextConn
  /\ lifetimeMark' = lifetimeMark + 1
  /\ UNCHANGED <<serverVars, queueVars, closePc, ssrVars, cacheEnabled, dead,
                 nextConn, released, pc, localVars>>

\* rememberFailedConnectDuration is over.
ForgetFailedConnect(s) ==
  /\ failedConnect[s]
  /\ failedConnect' = [failedConnect EXCEPT ![s] = FALSE]
  /\ UNCHANGED <<servers, idle, busy, reservations, closing, queueVars, closePc,
                 ssrVars, cacheEnabled, connVars, released, pc, localVars>>

-----------------------------------------------------------------------------
\* What a thread does by itself once it has called Borrow or Return.
Step(t) ==
  \/ checkClosed(t) \/ getPenaltiesForServers(t) \/ tryBorrow(t) \/ tryBorrowAgain(t)
  \/ Healthy(t) \/ Unhealthy(t) \/ DiscardUnhealthy(t)
  \/ Dial(t) \/ DialFails(t) \/ HelloFails(t) \/ ConnectFailed(t) \/ Connected(t)
  \/ LoadSsrEnabledCount(t) \/ LoadSsrDisabledCount(t) \/ SetEnabled(t)
  \/ Enqueue(t) \/ WokenUp(t)
  \/ Reset(t) \/ ResetFails(t) \/ ReturnDiscards(t) \/ ReturnBusy(t) \/ WakeWaiter(t)

\* What the application, the server and the clock do to it.
Environment(t) ==
  Borrow(t) \/ Return(t) \/ OnIoError(t) \/ OnNeo4jError(t) \/ WaitTimeout(t)

Next ==
  \/ \E t \in Threads : Step(t) \/ Environment(t)
  \/ Close \/ CleanUp \/ GrowOld
  \/ \E s \in Servers : ForgetFailedConnect(s)

Spec == Init /\ [][Next]_vars

\* Goroutines are scheduled and calls to the network return.
Fairness == /\ \A t \in Threads : WF_vars(Step(t))
            /\ WF_vars(CloseWake \/ CloseServers)

\* The application returns what it borrowed.
ReturnFairness == \A t \in Threads : WF_vars(Return(t))

FairSpec == Spec /\ Fairness /\ ReturnFairness

-----------------------------------------------------------------------------
(* Properties.                                                             *)

\* Where a thread has a connection that is in the busy list of its server.
BusyPcs == {"health", "unhealthy", "cache1", "cache2", "cacheSet", "held", "reset",
            "unreg", "giveBack"}

\* Where a thread has a reservation.
ConnectPcs == {"dial", "hello", "connectFailed"}

Pcs == BusyPcs \cup ConnectPcs \cup
       {"out", "loop", "penalties", "try", "retry", "enqueue", "waiting", "wake"}

\* Every variable has its type.
TypeOK ==
  /\ servers \subseteq Servers
  /\ idle \in [Servers -> SUBSET Conns] /\ busy \in [Servers -> SUBSET Conns]
  /\ reservations \in [Servers -> Int]
  /\ closing \in [Servers -> BOOLEAN] /\ failedConnect \in [Servers -> BOOLEAN]
  /\ queue \in Seq(Threads) /\ wakeup \subseteq Threads
  /\ closePc \in {"open", "flagged", "drained", "done"}
  /\ ssrEnabledCount \in Int /\ ssrDisabledCount \in Int /\ cacheEnabled \in BOOLEAN
  /\ dead \subseteq Conns /\ released \subseteq Conns
  /\ nextConn \in 0..MaxConns /\ lifetimeMark \in 0..MaxConns
  /\ pc \in [Threads -> Pcs]
  /\ srv \in [Threads -> Servers \cup {NoServer}]
  /\ conn \in [Threads -> Conns \cup {NoConn}]
  /\ names \in [Threads -> SUBSET Servers] /\ todo \in [Threads -> Seq(Servers)]
  /\ tooOld \in [Threads -> BOOLEAN] /\ ssrRead \in [Threads -> BOOLEAN]

\* What a thread's locals are where it uses them: a server to try, a server and
\* a connection to work on.  NoConn and NoServer are never dereferenced.
ControlOK ==
  \A t \in Threads :
    /\ pc[t] \in ConnectPcs \cup {"try", "retry", "health", "unhealthy"} => todo[t] # <<>>
    /\ pc[t] \in (BusyPcs \ {"cache1", "cache2", "cacheSet"}) \cup {"hello"} => conn[t] # NoConn
    /\ pc[t] \in ConnectPcs \/ conn[t] # NoConn => srv[t] # NoServer
    /\ conn[t] # NoConn => pc[t] \in BusyPcs \cup {"hello", "connectFailed"}

\* Threads that have connection c.
Holders(c) == {t \in Threads : conn[t] = c}

Registered(s) == idle[s] \cup busy[s]

\* However borrows, failures and returns interleave, no server ever has more
\* than MaxConnectionPoolSize connections open or being opened: the check of
\* size in tryBorrow and the reservation it makes are one critical section.
PoolBounded == \A s \in Servers : size(s) <= MaxConnectionPoolSize

\* A borrowed connection is in the busy list of its server, that server is in
\* the map, the connection is not closed, and no other thread has it.  This is
\* what lets unregisterBusy find it and OnNeo4jError use the server unchecked.
ExclusiveLoan ==
  \A t \in Threads :
    conn[t] # NoConn /\ pc[t] \in BusyPcs =>
      /\ Holders(conn[t]) = {t}
      /\ srv[t] \in servers
      /\ conn[t] \in busy[srv[t]] \ idle[srv[t]]
      /\ conn[t] \notin released

\* Every connection ever dialled is in exactly one place: closed, idle on one
\* server, or with a thread.  None leaks and none is closed and kept.
NoConnectionLost ==
  \A c \in 1..nextConn :
    LET places == {s \in Servers : c \in Registered(s)}
        inIdle == \E s \in Servers : c \in idle[s]
    IN  /\ Cardinality(places) <= 1
        /\ (IF c \in released THEN 1 ELSE 0) + (IF inIdle THEN 1 ELSE 0)
             + Cardinality(Holders(c)) = 1

\* Every reservation belongs to a thread that is connecting, and keeps its
\* server in the map: tryBorrow uses the server it looked up before connecting.
ReservationsExact ==
  \A s \in Servers :
    /\ reservations[s] = Cardinality({t \in Threads : pc[t] \in ConnectPcs /\ srv[t] = s})
    /\ s \notin servers => size(s) = 0

\* Where the connections are: the inductive strengthening of ExclusiveLoan.  A
\* connection on its way into the pool is on no list, a connection in use is on
\* the busy list of its server, the lists are disjoint and hold nothing closed.
Placement ==
  /\ \A t, u \in Threads : t # u /\ conn[t] # NoConn => conn[t] # conn[u]
  /\ \A t \in Threads : conn[t] # NoConn =>
       /\ conn[t] <= nextConn /\ conn[t] \notin released
       /\ pc[t] \in BusyPcs => conn[t] \in busy[srv[t]]
       /\ pc[t] \notin BusyPcs => \A s \in Servers : conn[t] \notin Registered(s)
  /\ \A s, r \in Servers : s # r => Registered(s) \cap Registered(r) = {}
  /\ \A s \in Servers : idle[s] \cap busy[s] = {} /\ Registered(s) \cap released = {}
  /\ \A s \in Servers : \A c \in Registered(s) : c <= nextConn
  /\ \A c \in released : c <= nextConn

\* The SSR counters, unsigned in the code, count the registered connections of
\* either kind: what Borrow adds is removed exactly once on every path.
SsrCountsExact ==
  /\ ssrEnabledCount = Cardinality(UNION {Registered(s) : s \in SsrServers})
  /\ ssrDisabledCount = Cardinality(UNION {Registered(s) : s \in Servers \ SsrServers})

\* A waiter is in the queue once or has its token, never both: the send on the
\* wakeup channel of capacity one, done under queueMut, cannot block.
QueueConsistent ==
  /\ \A i, j \in DOMAIN queue : i # j => queue[i] # queue[j]
  /\ \A t \in Threads :
       LET queued == \E i \in DOMAIN queue : queue[i] = t
       IN  /\ pc[t] = "waiting" <=> queued \/ t \in wakeup
           /\ ~(queued /\ t \in wakeup)

\* As long as someone waits, someone else is on the way to a WakeFront: the
\* second look at the capacity in Borrow leaves no gap for a lost wakeup.
WaiterHasNotifier ==
  queue # <<>> => \E t \in Threads : pc[t] \notin {"out", "waiting"} \/ t \in wakeup

\* A closed pool keeps no connection: what is returned after Close is closed.
NoIdleAfterClose == closePc = "done" => \A s \in Servers : idle[s] = {}

\* Close wakes everyone who waits for a connection.
CloseWakesWaiters ==
  [][closePc = "flagged" /\ closePc' = "drained" => queue' = <<>>]_vars

Lending == INSTANCE ConnectionLending
             WITH lent <- busy, closed <- released, Limit <- MaxConnectionPoolSize

\* The pool implements the bounded, exclusive lending of connections: in all the
\* steps of Borrow, Return, deactivate, CleanUp and Close together a connection
\* is opened, lent, given back and closed as ConnectionLending allows.
ImplementsLending == Lending!Spec

\* A connection that had reached MaxConnectionLifetime when it was returned, or
\* was dead, is never put back on the idle list.
NoStaleReturn ==
  [][\A s \in Servers : \A c \in idle'[s] \ idle[s] :
       c \notin dead /\ \A t \in Holders(c) : ~tooOld[t]]_vars

\* Whoever waits for a connection gets another try, provided that whoever has a
\* connection returns it.
EveryWaiterIsServed ==
  \A t \in Threads : pc[t] = "waiting" ~> pc[t] # "waiting"
=============================================================================
