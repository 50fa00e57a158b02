------------------------------ MODULE Session -------------------------------
(***************************************************************************)
(* Sessions of one driver: auto-commit queries, explicit transactions,     *)
(* transaction functions with their retries, ExecuteQuery, results,        *)
(* bookmarks and the home database. A session has one caller at a time;    *)
(* sessions run concurrently and share the bookmark manager, the home      *)
(* database cache and the pool.                                            *)
(*                                                                         *)
(* A call is a sequence of steps, one for each request to router, pool,    *)
(* bookmark manager or server; pc names the step that comes next. The      *)
(* answers are nondeterministic: what the pool, the router and a Bolt      *)
(* connection do inside is the subject of other modules. Left out:         *)
(* telemetry, transaction configuration, notifications.                    *)
(***************************************************************************)
EXTENDS Integers, Sequences, FiniteSets

CONSTANTS
    Sessions, Conns, Databases,
    Scenarios,            \* bound: the calls of each session, one after the other, the sessions
                          \* that share the bookmark manager, the home database, what the cache
                          \* has of it at the start, and whether the driver is direct: a bolt
                          \* scheme, or a server before 4.4, which does not tell the name
    MaxDeadConnections    \* of retry.State

AllApis == {"begin", "managed", "query", "run", "info", "close"}
NoConn == 0
NoDb == "default"
Unnamed == "unnamed"    \* home database resolved by a router that has no name for it
Pool == "pool"

ASSUME ConstantsFit ==
    /\ NoConn \notin Conns /\ {NoDb, Unnamed} \cap Databases = {} /\ Pool \notin Sessions
    /\ MaxDeadConnections \in Nat
    /\ \A w \in Scenarios :
         /\ w.home \in Databases /\ w.cached \in Databases \cup {NoDb}
         /\ w.direct \in BOOLEAN /\ (w.direct => w.cached = NoDb)
         /\ w.managed \subseteq Sessions /\ \A s \in Sessions : w.calls[s] \in Seq(AllApis)

VARIABLES
    ss,        \* ss[s]: the session and the call that is under way in it
    res,       \* res[s]: the result that was returned last
    conns,     \* conns[c]: a connection: who has it, its bookmark, whether it failed
    mgr,       \* bookmarks of the manager
    cached,    \* home database in the cache; the users of all sessions are the same
    home,      \* the home database, external
    after,     \* after[n]: the bookmarks that the transaction of bookmark n comes after
    own        \* own[s]: last bookmark of a transaction that s was told to be committed

vars == <<ss, res, conns, mgr, cached, home, after, own>>
world == <<mgr, cached, home, after, own>>

NoResult == [conn |-> NoConn, stream |-> "none", err |-> FALSE, summary |-> FALSE,
             peeked |-> "no", hook |-> FALSE]
FreeConn == [owner |-> Pool, bookmark |-> 0, failed |-> FALSE]

Init ==
    /\ \E w \in Scenarios :
         /\ home = w.home /\ cached = w.cached
         /\ ss = [s \in Sessions |->
              [pc |-> "idle", api |-> "none", todo |-> w.calls[s], closed |-> FALSE,
               managed |-> s \in w.managed, direct |-> w.direct, db |-> NoDb, guess |-> w.cached,
               guessed |-> FALSE, fellBack |-> FALSE, ssr |-> TRUE, ran |-> {}, slipped |-> FALSE,
               conn |-> NoConn, tx |-> NoConn, auto |-> NoConn,
               marks |-> {}, sent |-> {}, err |-> "none", dead |-> 0,
               attempt |-> 0, commits |-> 0]]
    /\ res = [s \in Sessions |-> NoResult]
    /\ conns = [c \in Conns |-> FreeConn]
    /\ mgr = {} /\ after = << >> /\ own = [s \in Sessions |-> 0]

-----------------------------------------------------------------------------
(* Bookmarks *)

(* What the bookmarks of m are known to come after, themselves included *)
Covered(m) == m \cup UNION {after[n] : n \in m}

(* Mutant: the bookmarks of other sessions are dropped *)
UpdatedAlone(previous, new) == {new}

(* updateBookmarks of the manager *)
Updated(previous, new) == (mgr \ previous) \cup {new}

(* Mutant: the session's own bookmarks are not sent *)
CurrentOfManager(s) == IF ss[s].managed THEN mgr ELSE {}

(* getBookmarks *)
Current(s) == ss[s].marks \cup IF ss[s].managed THEN mgr ELSE {}

(* replaceBookmarks(sent, new) with a consumer that may fail: the manager has
   its bookmark by then, the session does not get it. m is ss[s].marks'. *)
ReplaceBookmarks(s, new, m) ==
    \/ new = 0 /\ m = ss[s].marks /\ UNCHANGED mgr
    \/ new # 0 /\ m = {new} /\ mgr' = IF ss[s].managed THEN Updated(ss[s].sent, new) ELSE mgr
    \/ new # 0 /\ ss[s].managed /\ m = ss[s].marks /\ mgr' = Updated(ss[s].sent, new)

(* The server's part of a commit: the bookmark of the transaction, external *)
Bookmark(s) == Len(after) + 1
Committed(s) == after' = Append(after, Covered(ss[s].sent))

-----------------------------------------------------------------------------
(* Home database *)

(* pinHomeDatabase(d): once for a session *)
Pinned(r, d) == IF r.db = NoDb THEN [r EXCEPT !.db = d, !.guess = d] ELSE r
PinHomeDatabase(s, d) == cached' = IF ss[s].db = NoDb THEN d ELSE cached

(* GetNameOfDefaultDatabase of the router, and "" of the direct router: the
   session is resolved with no name, and the server decides for every query *)
NameOfDefaultDatabase(s) == IF ss[s].direct THEN Unnamed ELSE home

HomeMoves ==
    /\ home' \in Databases /\ home' # home /\ after # << >>
    /\ UNCHANGED <<ss, res, conns, mgr, cached, after, own>>

-----------------------------------------------------------------------------
(* The pool's Return resets the connection *)
Return(c) == conns' = [conns EXCEPT ![c] = FreeConn]
Broken(c) == [conns EXCEPT ![c].failed = TRUE]

(* What a request to the server may come to. A failure may be one that can be
   retried; "idempotent" marks one of a query that was not executed. *)
Failures == {"retriable", "client", "idempotent", "dead"}
Alive(failure) == failure # "dead"

(* What getConnection fails with: PoolTimeout is not retried *)
AcquisitionErrors == {"connectivity", "poolTimeout", "client"}

(* Mutant: a commit that may have been applied is tried again *)
IsRetryableWhenDead(err) == err \in {"retriable", "idempotent", "dead", "connectivity", "commitFailedDead"}

(* IsRetryable(WrapError(err)) *)
IsRetryable(err) == err \in {"retriable", "idempotent", "dead", "connectivity"}

(* retry.State.OnFailure *)
OnFailure(r, err, alive, isCommitting) ==
    [r EXCEPT !.err = IF ~alive /\ isCommitting THEN "commitFailedDead" ELSE err,
              !.dead = IF alive THEN @ ELSE @ + 1]

Retried(api) == api \in {"managed", "query"}

(* ExecuteQuery and GetServerInfo close their session *)
Finished(r) == [r EXCEPT !.pc = IF r.api \in {"query", "info"} THEN "close" ELSE "idle",
                         !.api = "none", !.conn = NoConn, !.sent = {}, !.err = "none",
                         !.dead = 0, !.attempt = 0, !.guessed = FALSE, !.fellBack = FALSE, !.ssr = TRUE]

(* A call that is not retried returns its error *)
AfterFailure(r, err, alive, isCommitting) ==
    IF Retried(r.api)
    THEN [OnFailure(r, err, alive, isCommitting) EXCEPT !.pc = "retry", !.conn = NoConn, !.sent = {},
                !.guessed = FALSE, !.fellBack = FALSE, !.ssr = TRUE]
    ELSE Finished(r)

-----------------------------------------------------------------------------
(* Calls *)

(* BeginTransaction, ExecuteRead, ExecuteWrite, ExecuteQuery, Run, GetServerInfo:
   refused in a closed session and beside an explicit transaction *)
Call(s) ==
    /\ ss[s].pc = "idle" /\ ss[s].todo # << >> /\ Head(ss[s].todo) # "close"
    /\ ~ss[s].closed /\ ss[s].tx = NoConn
    /\ ss' = [ss EXCEPT ![s].api = Head(ss[s].todo), ![s].todo = Tail(@), ![s].commits = 0,
                        ![s].pc = IF ss[s].auto # NoConn THEN "done" ELSE "servers"]
    /\ UNCHANGED <<res, conns, world>>

(* Mutant: the rest of the result is left unread *)
FinishUnread(s, how) ==
    /\ ss[s].pc \in {"done", "close"} /\ ss[s].auto # NoConn
    /\ ss' = [ss EXCEPT ![s].auto = NoConn, ![s].sent = {},
                        ![s].pc = IF @ = "close" THEN @ ELSE "servers"]
    /\ Return(ss[s].auto) /\ UNCHANGED <<res, world>>

(* autocommitTransaction.done and discard: read or drop the rest, run the hook
   of the result, return the connection. how is the outcome of the stream. *)
FinishAutocommit(s, how) ==
    LET c == ss[s].auto
        r == res[s]
        ends == r.stream = "open" /\ how = "sum"
        new == IF ends THEN Bookmark(s) ELSE conns[c].bookmark
        consumed == r.hook /\ (ends \/ r.stream = "sum") /\ ~(ss[s].pc = "close" /\ r.err)
        next == IF ss[s].pc = "close" THEN "close" ELSE "servers"
    IN  /\ ss[s].pc \in {"done", "close"} /\ c # NoConn
        /\ how = IF r.stream = "open" THEN how ELSE r.stream
        /\ IF ends THEN Committed(s) ELSE UNCHANGED after
        /\ res' = [res EXCEPT ![s].stream = how, ![s].hook = r.hook /\ ~consumed,
                              ![s].err = IF ss[s].pc = "close" THEN @ \/ how = "err" ELSE how = "err"]
        /\ IF consumed
           THEN /\ \E m \in SUBSET (ss[s].marks \cup {new}) :
                     /\ ReplaceBookmarks(s, new, m)
                     /\ ss' = [ss EXCEPT ![s].auto = NoConn, ![s].sent = {}, ![s].pc = next, ![s].marks = m]
                /\ own' = [own EXCEPT ![s] = IF new = 0 THEN @ ELSE new]
           ELSE /\ ss' = [ss EXCEPT ![s].auto = NoConn, ![s].sent = {}, ![s].pc = next]
                /\ UNCHANGED <<mgr, own>>
        /\ Return(c)
        /\ UNCHANGED <<cached, home>>

(* getServerList: servers of the database, of the guessed home database, or of
   the home database that is looked up first. Whether the cache is enabled is
   any value: every Borrow and Return of every goroutine sets it, the session's
   own Return of a connection without SSR that is dead or too old included. *)
UsesGuess(s, enabled) ==
    ss[s].db = NoDb /\ ss[s].guess \notin {NoDb, Unnamed} /\ enabled /\ ss[s].api # "info"

(* The second answer to whether the guess was used, after a fallback, is dropped *)
GetServerList(s, enabled) ==
    LET r == [ss[s] EXCEPT !.pc = "borrow", !.guessed = UsesGuess(s, enabled) /\ ~ss[s].fellBack]
        d == NameOfDefaultDatabase(s)
    IN  /\ ss[s].pc = "servers"
        /\ \/ UsesGuess(s, enabled) /\ UNCHANGED cached /\ ss' = [ss EXCEPT ![s] = r]
           \/ PinHomeDatabase(s, d) /\ ss' = [ss EXCEPT ![s] = Pinned(r, d)]    \* onRoutingTableUpdated too
        /\ UNCHANGED <<res, conns, mgr, home, after, own>>

(* router or pool fail *)
AcquisitionFails(s, err) ==
    /\ ss[s].pc \in {"servers", "borrow"}
    /\ ss' = [ss EXCEPT ![s] = AfterFailure(ss[s], err, TRUE, FALSE)]
    /\ UNCHANGED <<res, conns, world>>

(* The pool waits as long as there is none *)
Free == {c \in Conns : conns[c].owner = Pool}

(* Mutant: a guess is good for every connection *)
BorrowWithoutFallback(s, c, ssr) ==
    /\ ss[s].pc = "borrow" /\ ss[s].api # "info"
    /\ c \in Free /\ c = CHOOSE free \in Free : TRUE
    /\ ss' = [ss EXCEPT ![s].pc = "bookmarks", ![s].conn = c, ![s].guessed = FALSE, ![s].ssr = ssr]
    /\ conns' = [conns EXCEPT ![c].owner = s]
    /\ UNCHANGED <<res, world>>

(* borrowConnection, and the fallback, once, for a guess on a connection without SSR *)
BorrowConnection(s, c, ssr) ==
    LET fallback == ~ssr /\ ss[s].guessed
    IN  /\ ss[s].pc = "borrow"
        /\ c \in Free /\ c = CHOOSE free \in Free : TRUE     \* they are alike
        /\ \/ /\ fallback \/ ss[s].api = "info"        \* back to the pool at once
              /\ ss' = [ss EXCEPT ![s] = IF fallback THEN [@ EXCEPT !.pc = "servers", !.guessed = FALSE, !.fellBack = TRUE]
                                         ELSE Finished(@)]
              /\ UNCHANGED conns
           \/ /\ ~fallback /\ ss[s].api # "info"
              /\ ss' = [ss EXCEPT ![s].pc = "bookmarks", ![s].conn = c, ![s].guessed = FALSE, ![s].ssr = ssr]
              /\ conns' = [conns EXCEPT ![c].owner = s]
        /\ UNCHANGED <<res, world>>

(* Mutant: the connection is not returned *)
PreparationLeaks(s) ==
    /\ ss[s].pc = "bookmarks"
    /\ ss' = [ss EXCEPT ![s] = AfterFailure(ss[s], "client", TRUE, FALSE)]
    /\ UNCHANGED <<res, conns, world>>

(* selectDatabase on a server without databases, or the supplier of bookmarks fails *)
PreparationFails(s) ==
    /\ ss[s].pc = "bookmarks"
    /\ ss' = [ss EXCEPT ![s] = AfterFailure(ss[s], "client", TRUE, FALSE)]
    /\ Return(ss[s].conn) /\ UNCHANGED <<res, world>>

GetBookmarks(s) ==
    /\ ss[s].pc = "bookmarks"
    /\ ss' = [ss EXCEPT ![s].pc = "send", ![s].sent = Current(s)]
    /\ UNCHANGED <<res, conns, world>>

(* TxBegin or Run succeeds: the server runs in the database that was selected or
   in the home database, which a connection with SSR tells the session. slipped
   notes that the session runs without a name because the fallback guessed again. *)
Send(s) ==
    LET r == ss[s]
        d == IF r.db \in {NoDb, Unnamed} THEN home ELSE r.db
        told == IF r.ssr THEN Pinned(r, d) ELSE r
        into == [told EXCEPT !.ran = @ \cup {d}, !.conn = NoConn, !.pc = "idle", !.api = "none",
                             !.attempt = 0, !.ssr = TRUE, !.fellBack = FALSE,
                             !.slipped = @ \/ (r.fellBack /\ r.db = NoDb /\ ~r.ssr)]
    IN  /\ r.pc = "send"
        /\ IF r.ssr THEN PinHomeDatabase(s, d) ELSE UNCHANGED cached
        /\ ss' = [ss EXCEPT ![s] =
                    CASE r.api = "begin" -> [into EXCEPT !.tx = r.conn]
                      [] r.api = "run" -> [into EXCEPT !.auto = r.conn]
                      [] OTHER -> [into EXCEPT !.conn = r.conn, !.pc = "work", !.api = r.api]]
        /\ res' = IF r.api # "run" THEN [res EXCEPT ![s] = NoResult]
                  ELSE [res EXCEPT ![s] = [NoResult EXCEPT !.conn = r.conn, !.stream = "open",
                                                           !.hook = TRUE]]
        /\ UNCHANGED <<conns, mgr, home, after, own>>

(* They fail: an auto-commit query may be run once more *)
SendFails(s, failure) ==
    LET again == ss[s].api = "run" /\ ss[s].attempt = 0 /\ failure = "idempotent"
    IN  /\ ss[s].pc = "send"
        /\ ss' = [ss EXCEPT ![s] =
                    IF again THEN [ss[s] EXCEPT !.attempt = 1, !.pc = "servers", !.conn = NoConn, !.sent = {},
                                               !.fellBack = FALSE, !.ssr = TRUE]
                    ELSE AfterFailure(ss[s], failure, Alive(failure), FALSE)]
        /\ Return(ss[s].conn) /\ UNCHANGED <<res, world>>

-----------------------------------------------------------------------------
(* Transaction functions: executeTransactionFunction and the loop around it *)

Work(s) ==
    /\ ss[s].pc = "work"
    /\ ss' = [ss EXCEPT ![s].pc = "commit"]
    /\ UNCHANGED <<res, conns, world>>

(* The user's function returns an error, its own or one of the server *)
WorkFails(s, failure) ==
    /\ ss[s].pc = "work"
    /\ ss' = [ss EXCEPT ![s] = AfterFailure(ss[s], failure, Alive(failure), FALSE)]
    /\ Return(ss[s].conn) /\ UNCHANGED <<res, world>>

Commit(s) ==
    LET new == Bookmark(s)
    IN  /\ ss[s].pc = "commit"
        /\ Committed(s)
        /\ \E m \in SUBSET (ss[s].marks \cup {new}) :
             /\ ReplaceBookmarks(s, new, m)
             /\ ss' = [ss EXCEPT ![s] = [Finished(ss[s]) EXCEPT !.marks = m, !.commits = @ + 1]]
        /\ own' = [own EXCEPT ![s] = new]
        /\ Return(ss[s].conn) /\ UNCHANGED <<res, cached, home>>

(* applied: the connection died after the server had committed *)
CommitFails(s, failure, applied) ==
    /\ ss[s].pc = "commit" /\ (applied => ~Alive(failure))
    /\ IF applied THEN Committed(s) ELSE UNCHANGED after
    /\ ss' = [ss EXCEPT ![s] = [AfterFailure(ss[s], failure, Alive(failure), TRUE)
                                EXCEPT !.commits = IF applied THEN @ + 1 ELSE @]]
    /\ Return(ss[s].conn) /\ UNCHANGED <<res, mgr, cached, home, own>>

(* The user's function panics: a deferred call returns the connection *)
WorkPanics(s) ==
    /\ ss[s].pc = "work"
    /\ ss' = [ss EXCEPT ![s] = Finished(ss[s])]
    /\ Return(ss[s].conn) /\ UNCHANGED <<res, world>>

(* Mutant: connections that die are not counted *)
MayContinueForever(r) == IsRetryable(r.err)

(* retry.State.Continue: may the call go on *)
MayContinue(r) == IsRetryable(r.err) /\ r.dead <= MaxDeadConnections

(* A new attempt, after a pause or at once *)
Continue(s) ==
    /\ ss[s].pc = "retry" /\ MayContinue(ss[s])
    /\ ss' = [ss EXCEPT ![s].pc = "servers", ![s].err = "none"]
    /\ UNCHANGED <<res, conns, world>>

(* Mutant: time is not looked at *)
GiveUpWhenRefused(s) ==
    /\ ss[s].pc = "retry" /\ ~MayContinue(ss[s])
    /\ ss' = [ss EXCEPT ![s] = Finished(ss[s])]
    /\ UNCHANGED <<res, conns, world>>

(* ProduceError: the error cannot be retried, MaxTransactionRetryTime has passed,
   or the caller's context is done *)
GiveUp(s) ==
    /\ ss[s].pc = "retry"
    /\ ss' = [ss EXCEPT ![s] = Finished(ss[s])]
    /\ UNCHANGED <<res, conns, world>>

-----------------------------------------------------------------------------
(* Explicit transactions *)

(* onClose: bookmarks, connection; the result of the transaction is failed or
   complete by then. new is the bookmark of the connection, 0 for none. *)
CloseTx(s, new, stream, failed) ==
    /\ \E m \in SUBSET (ss[s].marks \cup {new}) :
         /\ ReplaceBookmarks(s, new, m)
         /\ ss' = [ss EXCEPT ![s].tx = NoConn, ![s].sent = {}, ![s].marks = m]
    /\ Return(ss[s].tx)
    /\ res' = [res EXCEPT ![s].stream = IF @ = "open" THEN stream ELSE @,
                          ![s].err = @ \/ (failed /\ res[s].conn # NoConn)]
    /\ UNCHANGED <<cached, home>>

InTx(s) == ss[s].pc \in {"idle", "close"} /\ ss[s].tx # NoConn

TxRun(s) ==
    /\ InTx(s) /\ ss[s].pc = "idle" /\ ~conns[ss[s].tx].failed
    /\ res[s].stream # "open"
    /\ res' = [res EXCEPT ![s] = [NoResult EXCEPT !.conn = ss[s].tx, !.stream = "open"]]
    /\ UNCHANGED <<ss, conns, world>>

(* Run fails: txState.onError *)
TxRunFails(s) ==
    /\ InTx(s) /\ ss[s].pc = "idle"
    /\ CloseTx(s, 0, "err", TRUE) /\ UNCHANGED <<after, own>>

TxCommit(s) ==
    LET new == Bookmark(s)
    IN  /\ InTx(s) /\ ss[s].pc = "idle" /\ ~conns[ss[s].tx].failed
        /\ Committed(s) /\ own' = [own EXCEPT ![s] = new]
        /\ CloseTx(s, new, "sum", FALSE)

TxCommitFails(s, applied) ==
    /\ InTx(s) /\ ss[s].pc = "idle" /\ (applied => ~conns[ss[s].tx].failed)
    /\ IF applied THEN Committed(s) ELSE UNCHANGED after
    /\ CloseTx(s, 0, "err", FALSE) /\ UNCHANGED own

(* Rollback, Close of the transaction and of the session: without the server if
   the connection has failed; if the server fails to, the connection is closed too *)
TxRollback(s) ==
    /\ InTx(s)
    /\ \E stream \in {"sum", "err"} : CloseTx(s, 0, stream, FALSE)
    /\ UNCHANGED <<after, own>>

-----------------------------------------------------------------------------
(* Results of auto-commit queries and explicit transactions *)

InUse(s) == ss[s].pc = "idle" /\ res[s].stream # "none"
IsAuto(s) == res[s].conn = ss[s].auto /\ ss[s].auto # NoConn

(* conn.Next: got is "rec", "sum" or "err"; a stream that is complete has
   records that were buffered and then its summary or error *)
Fetch(s, got) ==
    LET c == res[s].conn
        ends == res[s].stream = "open" /\ got = "sum"
        new == IF ends /\ IsAuto(s) THEN Bookmark(s) ELSE 0
    IN  /\ \/ res[s].stream = "open"
           \/ res[s].stream = got
           \/ res[s].stream = "sum" /\ got = "rec" /\ ~res[s].summary
        /\ IF new # 0 THEN Committed(s) ELSE UNCHANGED after
        /\ \/ /\ got = "err" /\ res[s].stream = "open"
              /\ conns' = Broken(c)
           \/ /\ ~(got = "err" /\ res[s].stream = "open")
              /\ conns' = IF new # 0 THEN [conns EXCEPT ![c].bookmark = new] ELSE conns

FetchedStream(s, got) == IF got = "rec" THEN res[s].stream ELSE got

(* The hook of an auto-commit result, run when its end is seen *)
Hook(s, run, new) ==
    IF run /\ res[s].hook
    THEN /\ \E m \in SUBSET (ss[s].marks \cup {new}) :
              ReplaceBookmarks(s, new, m) /\ ss' = [ss EXCEPT ![s].marks = m]
         /\ own' = [own EXCEPT ![s] = IF new = 0 THEN @ ELSE new]
    ELSE UNCHANGED <<ss, mgr, own>>

(* Next, Records, Collect: a record or the end. An error ends an explicit transaction. *)
Next(s, got) ==
    LET r == res[s]
        seen == IF r.peeked = "no" THEN got ELSE r.peeked
        stream == IF r.peeked = "no" THEN FetchedStream(s, got) ELSE r.stream
    IN  /\ InUse(s) /\ ~r.err /\ ~r.summary
        /\ \/ /\ r.peeked = "no" /\ got = "err" /\ ss[s].tx # NoConn /\ r.conn = ss[s].tx
              /\ r.stream = "open"
              /\ CloseTx(s, 0, "err", TRUE) /\ UNCHANGED <<after, own>>
           \/ /\ ~(r.peeked = "no" /\ got = "err" /\ r.conn = ss[s].tx /\ ss[s].tx # NoConn)
              /\ IF r.peeked = "no" THEN Fetch(s, got)
                 ELSE got = r.peeked /\ UNCHANGED <<conns, after>>
              /\ res' = [res EXCEPT ![s].stream = stream, ![s].peeked = "no",
                                    ![s].summary = (seen = "sum"), ![s].err = (seen = "err"),
                                    ![s].hook = @ /\ seen # "sum"]
              /\ Hook(s, seen = "sum", IF r.conn \in Conns THEN conns'[r.conn].bookmark ELSE 0)
              /\ UNCHANGED <<cached, home>>

(* Peek keeps what it read for Next; an error does not reach the transaction *)
Peek(s, got) ==
    /\ InUse(s) /\ ~res[s].err /\ ~res[s].summary /\ res[s].peeked = "no"
    /\ Fetch(s, got)
    /\ res' = [res EXCEPT ![s].stream = FetchedStream(s, got), ![s].peeked = got,
                          ![s].err = (got = "err")]
    /\ UNCHANGED <<ss, mgr, cached, home, own>>

(* Consume, and Single when there is more than one record: the rest is dropped *)
Consume(s, got, asksForOne) ==
    /\ InUse(s) /\ ~res[s].err /\ got # "rec" /\ Fetch(s, got)
    /\ res' = [res EXCEPT ![s].stream = got, ![s].summary = (got = "sum"),
                          ![s].err = (got = "err" \/ asksForOne),
                          ![s].hook = @ /\ (got = "err" \/ asksForOne)]
    /\ Hook(s, got = "sum" /\ ~asksForOne,
            IF res[s].conn \in Conns THEN conns'[res[s].conn].bookmark ELSE 0)
    /\ UNCHANGED <<cached, home>>

(* LastBookmarks takes the bookmark of a query that has ended with it *)
LastBookmarks(s) ==
    /\ ss[s].pc = "idle" /\ ss[s].auto # NoConn /\ conns[ss[s].auto].bookmark # 0
    /\ ss' = [ss EXCEPT ![s].marks = {conns[ss[s].auto].bookmark}]
    /\ UNCHANGED <<res, conns, world>>

-----------------------------------------------------------------------------
(* Close: an explicit transaction is rolled back, an auto-commit query discarded *)
Close(s) ==
    /\ ss[s].pc = "idle" /\ ss[s].todo # << >> /\ Head(ss[s].todo) = "close" /\ ~ss[s].closed
    /\ ss' = [ss EXCEPT ![s].pc = "close", ![s].todo = << >>]
    /\ UNCHANGED <<res, conns, world>>

CloseDone(s) ==
    /\ ss[s].pc = "close" /\ ss[s].tx = NoConn /\ ss[s].auto = NoConn
    /\ ss' = [ss EXCEPT ![s].closed = TRUE, ![s].pc = "idle"]
    /\ UNCHANGED <<res, conns, world>>

-----------------------------------------------------------------------------
(* The steps of a call that is under way *)
Step(s) ==
    \/ \E how \in {"sum", "err"} : FinishAutocommit(s, how)
    \/ \E enabled \in BOOLEAN : GetServerList(s, enabled)
    \/ \E err \in AcquisitionErrors : AcquisitionFails(s, err)
    \/ \E c \in Conns, ssr \in BOOLEAN : BorrowConnection(s, c, ssr)
    \/ PreparationFails(s) \/ GetBookmarks(s) \/ Send(s) \/ Work(s) \/ Commit(s)
    \/ \E failure \in Failures : SendFails(s, failure) \/ WorkFails(s, failure)
    \/ \E failure \in Failures, applied \in BOOLEAN : CommitFails(s, failure, applied)
    \/ WorkPanics(s) \/ Continue(s) \/ GiveUp(s)
    \/ ss[s].pc = "close" /\ TxRollback(s)
    \/ CloseDone(s)

(* What the user calls *)
Use(s) ==
    \/ Call(s) \/ TxRun(s) \/ TxRunFails(s) \/ TxCommit(s) \/ Close(s) \/ LastBookmarks(s)
    \/ \E applied \in BOOLEAN : TxCommitFails(s, applied)
    \/ ss[s].pc = "idle" /\ TxRollback(s)
    \/ \E got \in {"rec", "sum", "err"} : Next(s, got) \/ Peek(s, got)
    \/ \E got \in {"sum", "err"}, asksForOne \in BOOLEAN : Consume(s, got, asksForOne)

NextState ==
    \/ \E s \in Sessions : Step(s) \/ Use(s)
    \/ HomeMoves

Spec == Init /\ [][NextState]_vars

(* A call that is under way goes on: the router, the pool and the server answer
   or time out. Retries take time, so that MaxTransactionRetryTime passes for a
   call that keeps retrying. *)
FairSpec == Spec /\ \A s \in Sessions : WF_vars(Step(s)) /\ SF_vars(GiveUp(s))

-----------------------------------------------------------------------------
TypeOK ==
    /\ \A s \in Sessions :
         /\ ss[s].pc \in {"idle", "done", "servers", "borrow", "bookmarks", "send", "work",
                          "commit", "retry", "close"}
         /\ {ss[s].conn, ss[s].tx, ss[s].auto} \subseteq Conns \cup {NoConn}
         /\ ss[s].db \in Databases \cup {NoDb, Unnamed}
         /\ ss[s].dead \in 0 .. MaxDeadConnections + 1
         /\ res[s].stream \in {"none", "open", "sum", "err"}
    /\ mgr \cup UNION {ss[s].marks : s \in Sessions} \subseteq DOMAIN after

Held(s) == {ss[s].conn, ss[s].tx, ss[s].auto} \ {NoConn}

(* A session has exactly the connection of the call, transaction or query that
   is under way, never two: on every path, errors included, a connection is
   returned once, and a session that waits for a connection holds none. *)
ConnectionsAccounted ==
    \A s \in Sessions :
        /\ {c \in Conns : conns[c].owner = s} = Held(s)
        /\ Cardinality(Held(s)) <= 1
        /\ ss[s].pc \in {"servers", "borrow", "retry"} \/ ss[s].closed => Held(s) = {}

(* A result that can still read from the network has its connection to itself:
   what outlives its query or transaction is complete or failed. *)
OpenResultsHaveConnections ==
    \A s \in Sessions :
        res[s].stream = "open" => res[s].conn \in {ss[s].tx, ss[s].auto} \ {NoConn}

(* A transaction function is committed at most once for a call, also when the
   connection dies while the commit is under way and the call is retried. *)
CommitsAtMostOnce == \A s \in Sessions : ss[s].commits <= 1

(* Read your writes: the bookmarks that a transaction is begun with come after
   the last transaction that this session was told to be committed, although
   other sessions replace bookmarks in the manager at the same time. *)
CausalChain ==
    \A s \in Sessions :
        ss[s].pc = "send" /\ own[s] # 0 => own[s] \in Covered(ss[s].sent)

(* No committed transaction of a session with a manager is forgotten by it: its
   bookmark is there, or one of a transaction that was begun with it. *)
NoBookmarkLost ==
    \A s \in Sessions : ss[s].managed /\ own[s] # 0 => own[s] \in Covered(mgr)

(* All queries of a session of a neo4j scheme run in one database, even if the
   home database of its user changes meanwhile: whatever the cache's flag does,
   the session keeps to the first name it learns. One path is excepted: after a
   connection without SSR was given back, the second getServerList may use the
   guess again (session.go:617 drops that answer), and the query is then sent
   without a name. Sessions of a bolt scheme leave it to the server every time. *)
OneDatabase ==
    \A s \in Sessions : ~ss[s].direct /\ ~ss[s].slipped => Cardinality(ss[s].ran) <= 1

(* Every call returns: retries end. *)
EveryCallReturns == \A s \in Sessions : (ss[s].pc # "idle") ~> (ss[s].pc = "idle")
=============================================================================
