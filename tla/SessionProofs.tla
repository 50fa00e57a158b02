--------------------------- MODULE SessionProofs ---------------------------
(***************************************************************************)
(* Proofs of the safety properties of Session, for all sets of sessions,   *)
(* connections and databases, for all sequences of calls and every         *)
(* MaxDeadConnections.                                                     *)
(*                                                                         *)
(* The inductive invariant SessionInv has four layers, each of which rests *)
(* on the ones before it:                                                  *)
(*   LocalInv     what holds of each session's record by itself: where its *)
(*                one connection is, which database it runs in, and that   *)
(*                what was or may have been committed is not tried again;  *)
(*   OwnerInv     a connection's owner and the sessions' records agree;    *)
(*   ResultInv    whose connection a result reads from, and which hook is  *)
(*                still to be run;                                         *)
(*   BookmarkInv  where the bookmark of a session's last transaction is.   *)
(* A step is one session's: Only, OnlyResult and MarksStep say what it     *)
(* leaves to the others, and the rest of a proof is about that session.    *)
(***************************************************************************)
EXTENDS Session, FiniteSetTheorems, TLAPS

Pcs == {"idle", "done", "servers", "borrow", "bookmarks", "send", "work", "commit", "retry", "close"}
Streams == {"none", "open", "sum", "err"}

\* Where a call has a connection, and where nothing of the session has one.
CallPcs == {"bookmarks", "send", "work", "commit"}
EmptyPcs == {"servers", "borrow", "retry"}

SessionFields == {"pc", "api", "todo", "closed", "managed", "direct", "db", "guess", "guessed",
                  "fellBack", "ssr", "ran", "slipped", "conn", "tx", "auto", "marks", "sent", "err", "dead", "attempt", "commits"}
ResultFields == {"conn", "stream", "err", "summary", "peeked", "hook"}
ConnFields == {"owner", "bookmark", "failed"}

SessionType(r) ==
  /\ DOMAIN r = SessionFields /\ r.pc \in Pcs /\ r.db \in Databases \cup {NoDb, Unnamed}
  /\ r.conn \in Conns \cup {NoConn} /\ r.tx \in Conns \cup {NoConn} /\ r.auto \in Conns \cup {NoConn}
  /\ r.ran \subseteq Databases /\ r.dead \in Nat /\ r.commits \in Nat

\* At most one of the call, the transaction and the query has a connection.
ConnectionOK(r) ==
  /\ (r.conn # NoConn) <=> (r.pc \in CallPcs)
  /\ r.pc \in CallPcs \cup EmptyPcs => r.tx = NoConn /\ r.auto = NoConn
  /\ r.closed => r.pc = "idle" /\ r.tx = NoConn /\ r.auto = NoConn
  /\ r.tx = NoConn \/ r.auto = NoConn
  /\ r.pc = "done" => r.tx = NoConn

\* Nothing runs before the database is known, except on a connection with SSR, which
\* tells it, and after a fallback that guessed again, which is a slip.
DatabaseOK(r) ==
  /\ r.db = Unnamed => r.direct
  /\ ~r.direct /\ ~r.slipped => \A d \in r.ran : d = r.db
  /\ r.pc = "borrow" /\ ~r.guessed /\ ~r.fellBack => r.db # NoDb
  /\ r.pc \in {"bookmarks", "send"} /\ ~r.ssr /\ ~r.fellBack => r.db # NoDb

\* What was committed, or may have been, is not tried again.
RetryOK(r) ==
  /\ r.commits <= 1
  /\ r.pc \in CallPcs \cup {"done", "servers", "borrow"} => r.commits = 0
  /\ r.pc = "retry" /\ r.commits # 0 => r.err = "commitFailedDead"
  /\ r.dead <= MaxDeadConnections + 1
  /\ r.pc # "retry" => r.dead <= MaxDeadConnections

LocalOK(r) == SessionType(r) /\ ConnectionOK(r) /\ DatabaseOK(r) /\ RetryOK(r)

LocalInv == DOMAIN ss = Sessions /\ home \in Databases /\ \A s \in Sessions : LocalOK(ss[s])

OwnerInv ==
  /\ DOMAIN conns = Conns /\ \A c \in Conns : DOMAIN conns[c] = ConnFields
  /\ \A c \in Conns : conns[c].owner \in Sessions \cup {Pool}
  /\ \A s \in Sessions, c \in Conns : conns[c].owner = s <=> c \in Held(s)

ResultOK(r, q) ==
  /\ DOMAIN q = ResultFields /\ q.stream \in Streams
  /\ q.stream = "open" => q.conn \in {r.tx, r.auto} \ {NoConn}
  /\ q.hook /\ ~q.err => q.conn = r.auto /\ r.auto # NoConn
  /\ r.auto # NoConn => q.conn = r.auto /\ q.stream # "none"

ResultInv == DOMAIN res = Sessions /\ \A s \in Sessions : ResultOK(ss[s], res[s])

\* Covered, with the transactions as an argument.
Cover(a, m) == m \cup UNION {a[n] : n \in m}

TypesOf(s) == /\ own[s] \in 0 .. Len(after)
              /\ ss[s].marks \subseteq DOMAIN after /\ ss[s].sent \subseteq DOMAIN after

\* An auto-commit query that has ended has a bookmark; what it was begun with comes before it.
QueryOf(s) ==
  ss[s].auto # NoConn =>
    LET n == conns[ss[s].auto].bookmark
    IN  /\ res[s].stream = "sum" <=> n # 0
        /\ n # 0 => Cover(after, ss[s].sent) \subseteq after[n]

\* Where the bookmark of the session's last transaction can be found.
OwnOf(s) ==
  own[s] # 0 =>
    /\ ss[s].managed => own[s] \in Cover(after, mgr)
    /\ ~ss[s].managed => own[s] \in Cover(after, ss[s].marks)
    /\ ss[s].pc = "send" => own[s] \in Cover(after, ss[s].sent)
    /\ ss[s].auto # NoConn => \/ own[s] \in Cover(after, ss[s].sent)
                              \/ own[s] = conns[ss[s].auto].bookmark

BookmarkInv ==
  /\ after \in Seq(SUBSET Nat) /\ mgr \subseteq DOMAIN after /\ DOMAIN own = Sessions
  /\ \A c \in Conns : /\ conns[c].bookmark \in 0 .. Len(after)
                      /\ conns[c].bookmark # 0 => \E s \in Sessions : ss[s].auto = c
  /\ \A s \in Sessions : TypesOf(s) /\ QueryOf(s) /\ OwnOf(s)

SessionInv == LocalInv /\ OwnerInv /\ ResultInv /\ BookmarkInv

-----------------------------------------------------------------------------
\* Records: what the transformers of a session's record do, field by field.

\* Finished empties the call and leaves the session.
LEMMA FinishedFields ==
  ASSUME NEW r, DOMAIN r = SessionFields, NEW f, f = Finished(r)
  PROVE  /\ DOMAIN f = SessionFields
         /\ f.pc \in {"close", "idle"} /\ f.conn = NoConn /\ f.sent = {} /\ f.dead = 0
         /\ f.closed = r.closed /\ f.db = r.db /\ f.managed = r.managed /\ f.ran = r.ran
         /\ f.direct = r.direct /\ f.slipped = r.slipped
         /\ f.tx = r.tx /\ f.auto = r.auto /\ f.marks = r.marks /\ f.commits = r.commits
BY DEF Finished, SessionFields

\* A failed attempt does the same, or leaves the call to retry.State.
LEMMA AfterFailureFields ==
  ASSUME NEW r, DOMAIN r = SessionFields, NEW err, NEW alive \in BOOLEAN, NEW committing \in BOOLEAN,
         NEW f, f = AfterFailure(r, err, alive, committing)
  PROVE  /\ DOMAIN f = SessionFields
         /\ f.conn = NoConn /\ f.sent = {}
         /\ f.closed = r.closed /\ f.db = r.db /\ f.managed = r.managed /\ f.ran = r.ran
         /\ f.direct = r.direct /\ f.slipped = r.slipped
         /\ f.tx = r.tx /\ f.auto = r.auto /\ f.marks = r.marks /\ f.commits = r.commits
         /\ \/ f.pc \in {"close", "idle"} /\ f.dead = 0
            \/ /\ f.pc = "retry" /\ f.dead = (IF alive THEN r.dead ELSE r.dead + 1)
               /\ ~alive /\ committing => f.err = "commitFailedDead"
<1>1. CASE Retried(r.api)
  BY <1>1 DEF AfterFailure, OnFailure, SessionFields
<1>2. CASE ~Retried(r.api)
  BY <1>2, FinishedFields DEF AfterFailure
<1> QED BY <1>1, <1>2

\* pinHomeDatabase sets the database of a session that has none.
LEMMA PinnedFields ==
  ASSUME NEW r, DOMAIN r = SessionFields, NEW d, NEW f, f = Pinned(r, d)
  PROVE  /\ DOMAIN f = SessionFields
         /\ f.db = (IF r.db = NoDb THEN d ELSE r.db)
         /\ f.pc = r.pc /\ f.api = r.api /\ f.conn = r.conn /\ f.sent = r.sent /\ f.err = r.err
         /\ f.dead = r.dead /\ f.attempt = r.attempt /\ f.guessed = r.guessed /\ f.ssr = r.ssr
         /\ f.fellBack = r.fellBack /\ f.todo = r.todo /\ f.closed = r.closed /\ f.managed = r.managed /\ f.ran = r.ran
         /\ f.direct = r.direct /\ f.slipped = r.slipped
         /\ f.tx = r.tx /\ f.auto = r.auto /\ f.marks = r.marks /\ f.commits = r.commits
BY DEF Pinned, SessionFields

\* A call that ends, well or not, leaves a record that is in order.
LEMMA FinishedOK ==
  ASSUME NEW r, LocalOK(r), r.pc \in CallPcs \cup EmptyPcs
  PROVE  LocalOK(Finished(r))
<1> DEFINE f == Finished(r)
<1>1. DOMAIN r = SessionFields /\ r.tx = NoConn /\ r.auto = NoConn /\ ~r.closed
  BY DEF LocalOK, SessionType, ConnectionOK, CallPcs, EmptyPcs
<1>2. /\ DOMAIN f = SessionFields
      /\ f.pc \in {"close", "idle"} /\ f.conn = NoConn /\ f.dead = 0
      /\ f.closed = r.closed /\ f.db = r.db /\ f.ran = r.ran
      /\ f.direct = r.direct /\ f.slipped = r.slipped
      /\ f.tx = r.tx /\ f.auto = r.auto /\ f.commits = r.commits
  BY <1>1, FinishedFields
<1> HIDE DEF f
<1> USE <1>1, <1>2
<1>3. SessionType(f)
  BY DEF LocalOK, SessionType, Pcs
<1>4. ConnectionOK(f)
  BY DEF ConnectionOK, CallPcs, EmptyPcs
<1>5. DatabaseOK(f)
  BY DEF LocalOK, DatabaseOK
<1>6. RetryOK(f)
  BY ConstantsFit DEF LocalOK, RetryOK, CallPcs, ConstantsFit
<1> QED BY <1>3, <1>4, <1>5, <1>6 DEF LocalOK, f

\* So does an attempt that fails, to be retried or not.
LEMMA AfterFailureOK ==
  ASSUME NEW r, LocalOK(r), r.pc \in CallPcs \cup {"servers", "borrow"},
         NEW err, NEW alive \in BOOLEAN, NEW committing \in BOOLEAN
  PROVE  LocalOK(AfterFailure(r, err, alive, committing))
<1> DEFINE f == AfterFailure(r, err, alive, committing)
<1>1. /\ DOMAIN r = SessionFields /\ r.tx = NoConn /\ r.auto = NoConn /\ ~r.closed
      /\ r.commits = 0 /\ r.dead \in Nat /\ r.dead <= MaxDeadConnections
  BY DEF LocalOK, SessionType, ConnectionOK, RetryOK, CallPcs, EmptyPcs
<1>2. /\ DOMAIN f = SessionFields /\ f.conn = NoConn
      /\ f.closed = r.closed /\ f.db = r.db /\ f.ran = r.ran
      /\ f.direct = r.direct /\ f.slipped = r.slipped
      /\ f.tx = r.tx /\ f.auto = r.auto /\ f.commits = r.commits
      /\ \/ f.pc \in {"close", "idle"} /\ f.dead = 0
         \/ f.pc = "retry" /\ f.dead = (IF alive THEN r.dead ELSE r.dead + 1)
  <2>1. PICK x : x = AfterFailure(r, err, alive, committing)
    OBVIOUS
  <2>2. /\ DOMAIN x = SessionFields /\ x.conn = NoConn
        /\ x.closed = r.closed /\ x.db = r.db /\ x.ran = r.ran
        /\ x.direct = r.direct /\ x.slipped = r.slipped
        /\ x.tx = r.tx /\ x.auto = r.auto /\ x.commits = r.commits
        /\ \/ x.pc \in {"close", "idle"} /\ x.dead = 0
           \/ x.pc = "retry" /\ x.dead = (IF alive THEN r.dead ELSE r.dead + 1)
    BY <1>1, <2>1, AfterFailureFields
  <2>3. x = f
    BY <2>1
  <2> HIDE DEF f
  <2> QED BY <2>2, <2>3
<1> HIDE DEF f
<1> USE <1>1, <1>2
<1>3. SessionType(f)
  BY DEF LocalOK, SessionType, Pcs
<1>4. ConnectionOK(f)
  BY DEF ConnectionOK, CallPcs, EmptyPcs
<1>5. DatabaseOK(f)
  BY DEF LocalOK, DatabaseOK
<1>6. RetryOK(f)
  BY ConstantsFit DEF LocalOK, RetryOK, CallPcs, ConstantsFit
<1> QED BY <1>3, <1>4, <1>5, <1>6 DEF LocalOK, f

-----------------------------------------------------------------------------
\* Sessions: a step is one session's, the records of the others stay.

Only(s) == DOMAIN ss' = Sessions /\ \A t \in Sessions \ {s} : ss'[t] = ss[t]

\* A step that replaces the record of a session.
LEMMA Replaced ==
  ASSUME DOMAIN ss = Sessions, NEW s \in Sessions, NEW r, ss' = [ss EXCEPT ![s] = r]
  PROVE  Only(s) /\ ss'[s] = r
BY DEF Only

\* The fields of a record that is in order, as the steps use them.
LEMMA RecordOf ==
  ASSUME LocalInv, NEW s \in Sessions
  PROVE  LocalOK(ss[s]) /\ DOMAIN ss = Sessions /\ DOMAIN ss[s] = SessionFields
BY DEF LocalInv, LocalOK, SessionType

\* A new call has committed nothing.
LEMMA CallLocal ==
  ASSUME LocalInv, NEW s \in Sessions, Call(s) PROVE Only(s) /\ LocalOK(ss'[s])
<1> DEFINE r == ss[s]  f == ss'[s]
<1>1. LocalOK(r) /\ DOMAIN ss = Sessions /\ DOMAIN r = SessionFields
  BY RecordOf
<1>2. /\ Only(s) /\ DOMAIN f = SessionFields
      /\ r.pc = "idle" /\ ~r.closed /\ r.tx = NoConn /\ f.commits = 0
      /\ f.pc = IF r.auto # NoConn THEN "done" ELSE "servers"
      /\ f.closed = r.closed /\ f.db = r.db /\ f.ran = r.ran /\ f.dead = r.dead
      /\ f.direct = r.direct /\ f.slipped = r.slipped
      /\ f.conn = r.conn /\ f.tx = r.tx /\ f.auto = r.auto
  BY <1>1 DEF Call, Only, SessionFields
<1> HIDE DEF r, f
<1> USE <1>1, <1>2
<1>6. SessionType(f)
  BY DEF LocalOK, SessionType, Pcs
<1>7. ConnectionOK(f)
  BY DEF LocalOK, ConnectionOK, CallPcs, EmptyPcs
<1>8. DatabaseOK(f)
  BY DEF LocalOK, DatabaseOK
<1>9. RetryOK(f)
  BY ConstantsFit DEF LocalOK, RetryOK, CallPcs, ConstantsFit
<1> QED BY <1>6, <1>7, <1>8, <1>9 DEF LocalOK, f

\* An auto-commit query is finished: its connection is gone.
LEMMA FinishAutocommitLocal ==
  ASSUME LocalInv, NEW s \in Sessions, NEW how, FinishAutocommit(s, how)
  PROVE  Only(s) /\ LocalOK(ss'[s])
<1> DEFINE r == ss[s]  f == ss'[s]
<1>1. LocalOK(r) /\ DOMAIN ss = Sessions /\ DOMAIN r = SessionFields
  BY RecordOf
<1>2. /\ Only(s) /\ DOMAIN f = SessionFields
      /\ r.pc \in {"done", "close"} /\ r.auto # NoConn /\ f.auto = NoConn
      /\ f.pc = IF r.pc = "close" THEN "close" ELSE "servers"
      /\ f.closed = r.closed /\ f.db = r.db /\ f.ran = r.ran /\ f.dead = r.dead
      /\ f.direct = r.direct /\ f.slipped = r.slipped
      /\ f.conn = r.conn /\ f.tx = r.tx /\ f.commits = r.commits
  BY <1>1 DEF FinishAutocommit, Only, SessionFields
<1> HIDE DEF r, f
<1> USE <1>1, <1>2
<1>6. SessionType(f)
  BY DEF LocalOK, SessionType, Pcs
<1>7. ConnectionOK(f)
  BY DEF LocalOK, ConnectionOK, CallPcs, EmptyPcs
<1>8. DatabaseOK(f)
  BY DEF LocalOK, DatabaseOK
<1>9. RetryOK(f)
  BY ConstantsFit DEF LocalOK, RetryOK, CallPcs, ConstantsFit
<1> QED BY <1>6, <1>7, <1>8, <1>9 DEF LocalOK, f

\* Without a guess the database is known, or the router has no name for it, when a
\* connection is asked for.
LEMMA GetServerListLocal ==
  ASSUME LocalInv, NEW s \in Sessions, NEW enabled \in BOOLEAN, GetServerList(s, enabled)
  PROVE  Only(s) /\ LocalOK(ss'[s])
<1> DEFINE r == ss[s]  f == ss'[s]  d == NameOfDefaultDatabase(s)
           b == [r EXCEPT !.pc = "borrow", !.guessed = UsesGuess(s, enabled) /\ ~r.fellBack]
<1>1. LocalOK(r) /\ DOMAIN ss = Sessions /\ DOMAIN r = SessionFields /\ home \in Databases
  BY RecordOf DEF LocalInv
<1>2. /\ r.pc = "servers" /\ Only(s)
      /\ (f = b /\ UsesGuess(s, enabled)) \/ f = Pinned(b, d)
  BY <1>1, Replaced DEF GetServerList
<1>3. /\ DOMAIN b = SessionFields /\ b.pc = "borrow" /\ b.db = r.db /\ b.fellBack = r.fellBack
      /\ b.closed = r.closed /\ b.ran = r.ran /\ b.dead = r.dead
      /\ b.direct = r.direct /\ b.slipped = r.slipped
      /\ b.conn = r.conn /\ b.tx = r.tx /\ b.auto = r.auto /\ b.commits = r.commits
  BY <1>1 DEF SessionFields
<1>a. UsesGuess(s, enabled) => b.guessed = ~r.fellBack
  BY <1>1 DEF SessionFields
<1>b. IF r.direct THEN d = Unnamed ELSE d = home
  BY DEF NameOfDefaultDatabase
<1>c. d # NoDb
  BY <1>1, <1>b, ConstantsFit DEF ConstantsFit, NoDb, Unnamed
<1> HIDE DEF r, f, b, d
<1>4. /\ DOMAIN f = SessionFields /\ f.pc = "borrow"
      /\ f.db = r.db \/ (r.db = NoDb /\ f.db = d)
      /\ (f.guessed = ~f.fellBack) \/ f.db # NoDb
      /\ f.closed = r.closed /\ f.ran = r.ran /\ f.dead = r.dead
      /\ f.direct = r.direct /\ f.slipped = r.slipped
      /\ f.conn = r.conn /\ f.tx = r.tx /\ f.auto = r.auto /\ f.commits = r.commits
  <2>1. CASE f = b /\ UsesGuess(s, enabled)
    BY <1>3, <1>a, <2>1
  <2>2. CASE f = Pinned(b, d)
    BY <1>3, <1>c, <2>2, PinnedFields
  <2> QED BY <1>2, <2>1, <2>2
<1>5. ~f.direct /\ ~f.slipped => \A x \in f.ran : x = f.db
  BY <1>1, <1>4, ConstantsFit DEF LocalOK, SessionType, DatabaseOK, ConstantsFit
<1>d. /\ f.db = Unnamed => f.direct
      /\ f.db \in Databases \cup {NoDb, Unnamed}
  BY <1>1, <1>4, <1>b, ConstantsFit DEF LocalOK, SessionType, DatabaseOK, ConstantsFit
<1>e. ~f.guessed /\ ~f.fellBack => f.db # NoDb
  BY <1>4
<1> USE <1>1, <1>2, <1>4, <1>5
<1>6. SessionType(f)
  BY <1>d DEF LocalOK, SessionType, Pcs
<1>7. ConnectionOK(f)
  BY DEF LocalOK, ConnectionOK, CallPcs, EmptyPcs
<1>8. DatabaseOK(f)
  BY <1>d, <1>e DEF DatabaseOK
<1>9. RetryOK(f)
  BY ConstantsFit DEF LocalOK, RetryOK, CallPcs, ConstantsFit
<1> QED BY <1>6, <1>7, <1>8, <1>9 DEF LocalOK, f

\* An attempt that fails before the commit.
LEMMA FailuresLocal ==
  ASSUME LocalInv, NEW s \in Sessions,
         NEW err, NEW alive \in BOOLEAN, ss[s].pc \in CallPcs \cup {"servers", "borrow"},
         ss' = [ss EXCEPT ![s] = AfterFailure(ss[s], err, alive, FALSE)]
  PROVE  Only(s) /\ LocalOK(ss'[s])
<1>1. LocalOK(ss[s]) /\ DOMAIN ss = Sessions
  BY RecordOf
<1>2. LocalOK(AfterFailure(ss[s], err, alive, FALSE))
  BY <1>1, AfterFailureOK
<1> QED BY <1>1, <1>2, Replaced

\* A call that ends.
LEMMA EndsLocal ==
  ASSUME LocalInv, NEW s \in Sessions, ss[s].pc \in CallPcs \cup EmptyPcs,
         ss' = [ss EXCEPT ![s] = Finished(ss[s])]
  PROVE  Only(s) /\ LocalOK(ss'[s])
<1>1. LocalOK(ss[s]) /\ DOMAIN ss = Sessions
  BY RecordOf
<1>2. LocalOK(Finished(ss[s]))
  BY <1>1, FinishedOK
<1> QED BY <1>1, <1>2, Replaced

\* A connection without SSR is used only if the database is known.
LEMMA BorrowConnectionLocal ==
  ASSUME LocalInv, NEW s \in Sessions, NEW c \in Conns, NEW ssr \in BOOLEAN,
         BorrowConnection(s, c, ssr)
  PROVE  Only(s) /\ LocalOK(ss'[s])
<1> DEFINE r == ss[s]  f == ss'[s]
<1>1. LocalOK(r) /\ DOMAIN ss = Sessions /\ DOMAIN r = SessionFields
  BY RecordOf
<1>2. r.pc = "borrow" /\ c # NoConn
  BY ConstantsFit DEF BorrowConnection, ConstantsFit
<1>3. CASE ss' = [ss EXCEPT ![s] = Finished(ss[s])]
  BY <1>2, <1>3, EndsLocal DEF CallPcs, EmptyPcs
<1>4. CASE ~ssr /\ r.guessed
  <2>1. ss' = [ss EXCEPT ![s] = [r EXCEPT !.pc = "servers", !.guessed = FALSE, !.fellBack = TRUE]]
    BY <1>4 DEF BorrowConnection
  <2>2. Only(s) /\ f = [r EXCEPT !.pc = "servers", !.guessed = FALSE, !.fellBack = TRUE]
    BY <1>1, <2>1, Replaced
  <2>3. /\ DOMAIN f = SessionFields /\ f.pc = "servers" /\ f.conn = r.conn
        /\ f.closed = r.closed /\ f.db = r.db /\ f.ran = r.ran /\ f.dead = r.dead
        /\ f.direct = r.direct /\ f.slipped = r.slipped
        /\ f.tx = r.tx /\ f.auto = r.auto /\ f.commits = r.commits
    BY <1>1, <2>2 DEF SessionFields
  <2> HIDE DEF r, f
  <2> USE <1>1, <1>2, <2>3
  <2>6. SessionType(f)
    BY DEF LocalOK, SessionType, Pcs
  <2>7. ConnectionOK(f)
    BY DEF LocalOK, ConnectionOK, CallPcs, EmptyPcs
  <2>8. DatabaseOK(f)
    BY DEF LocalOK, DatabaseOK
  <2>9. RetryOK(f)
    BY ConstantsFit DEF LocalOK, RetryOK, CallPcs, ConstantsFit
  <2> QED BY <2>2, <2>6, <2>7, <2>8, <2>9 DEF LocalOK, f
<1>5. CASE ~(~ssr /\ r.guessed) /\ r.api # "info"
  <2>1. ss' = [ss EXCEPT ![s].pc = "bookmarks", ![s].conn = c, ![s].guessed = FALSE, ![s].ssr = ssr]
    BY <1>5 DEF BorrowConnection
  <2>2. /\ Only(s) /\ DOMAIN f = SessionFields
        /\ f.pc = "bookmarks" /\ f.conn = c /\ f.ssr = ssr /\ f.fellBack = r.fellBack
        /\ f.closed = r.closed /\ f.db = r.db /\ f.ran = r.ran /\ f.dead = r.dead
        /\ f.direct = r.direct /\ f.slipped = r.slipped
        /\ f.tx = r.tx /\ f.auto = r.auto /\ f.commits = r.commits
    BY <1>1, <2>1 DEF Only, SessionFields
  <2> HIDE DEF r, f
  <2> USE <1>1, <1>2, <1>5, <2>2
  <2>6. SessionType(f)
    BY DEF LocalOK, SessionType, Pcs
  <2>7. ConnectionOK(f)
    BY DEF LocalOK, ConnectionOK, CallPcs, EmptyPcs
  <2>8. DatabaseOK(f)
    BY DEF LocalOK, DatabaseOK
  <2>9. RetryOK(f)
    BY ConstantsFit DEF LocalOK, RetryOK, CallPcs, ConstantsFit
  <2> QED BY <2>6, <2>7, <2>8, <2>9 DEF LocalOK, f
<1> QED BY <1>3, <1>4, <1>5 DEF BorrowConnection

\* A transaction or query runs in the database of the session, from now on its own.
LEMMA SendLocal ==
  ASSUME LocalInv, NEW s \in Sessions, Send(s)
  PROVE  Only(s) /\ LocalOK(ss'[s])
<1> DEFINE r == ss[s]  f == ss'[s]
           d == IF r.db \in {NoDb, Unnamed} THEN home ELSE r.db
           told == IF r.ssr THEN Pinned(r, d) ELSE r
           into == [told EXCEPT !.ran = @ \cup {d}, !.conn = NoConn, !.pc = "idle", !.api = "none",
                                !.attempt = 0, !.ssr = TRUE, !.fellBack = FALSE,
                                !.slipped = @ \/ (r.fellBack /\ r.db = NoDb /\ ~r.ssr)]
<1>1. LocalOK(r) /\ DOMAIN ss = Sessions /\ DOMAIN r = SessionFields /\ home \in Databases
  BY RecordOf DEF LocalInv
<1>2. r.pc = "send" /\ r.conn # NoConn /\ r.tx = NoConn /\ r.auto = NoConn /\ ~r.closed
  BY <1>1 DEF Send, LocalOK, ConnectionOK, CallPcs
<1>3. /\ d \in Databases /\ (r.db = Unnamed => r.direct)
      /\ r.db \notin {NoDb, Unnamed} => d = r.db
      /\ ~r.direct /\ ~r.slipped => \A x \in r.ran : x = r.db
      /\ ~r.ssr /\ ~r.fellBack => r.db # NoDb
  BY <1>1, <1>2, ConstantsFit DEF LocalOK, SessionType, DatabaseOK, ConstantsFit
<1>a. r.ran \subseteq Databases /\ d \notin {NoDb, Unnamed}
  BY <1>1, <1>3, ConstantsFit DEF LocalOK, SessionType, ConstantsFit
<1>4. /\ DOMAIN told = SessionFields /\ told.db = (IF r.ssr /\ r.db = NoDb THEN d ELSE r.db)
      /\ told.direct = r.direct /\ told.slipped = r.slipped
      /\ told.closed = r.closed /\ told.ran = r.ran /\ told.dead = r.dead
      /\ told.conn = r.conn /\ told.tx = r.tx /\ told.auto = r.auto /\ told.commits = r.commits
  <2> HIDE DEF d, r
  <2> QED BY <1>1, <1>3, PinnedFields
<1>5. /\ Only(s)
      /\ f = CASE r.api = "begin" -> [into EXCEPT !.tx = r.conn]
               [] r.api = "run" -> [into EXCEPT !.auto = r.conn]
               [] OTHER -> [into EXCEPT !.conn = r.conn, !.pc = "work", !.api = r.api]
  BY <1>1, Replaced DEF Send
<1> HIDE DEF d, told
<1>6. /\ DOMAIN into = SessionFields /\ into.db = told.db /\ into.ran = r.ran \cup {d}
      /\ into.direct = r.direct
      /\ into.slipped = (r.slipped \/ (r.fellBack /\ r.db = NoDb /\ ~r.ssr))
      /\ into.conn = NoConn /\ into.pc = "idle"
      /\ into.closed = r.closed /\ into.dead = r.dead
      /\ into.tx = r.tx /\ into.auto = r.auto /\ into.commits = r.commits
  BY <1>4 DEF SessionFields
<1> HIDE DEF r, f, into
<1>7. /\ DOMAIN f = SessionFields /\ f.db = told.db /\ f.ran = r.ran \cup {d}
      /\ f.direct = r.direct
      /\ f.slipped = (r.slipped \/ (r.fellBack /\ r.db = NoDb /\ ~r.ssr))
      /\ f.closed = r.closed /\ f.dead = r.dead /\ f.commits = r.commits
      /\ \/ f.pc = "idle" /\ f.conn = NoConn /\ f.tx = r.conn /\ f.auto = NoConn
         \/ f.pc = "idle" /\ f.conn = NoConn /\ f.tx = NoConn /\ f.auto = r.conn
         \/ f.pc = "work" /\ f.conn = r.conn /\ f.tx = NoConn /\ f.auto = NoConn
  BY <1>2, <1>5, <1>6 DEF SessionFields
<1>b. f.db \in Databases \cup {NoDb, Unnamed} /\ (f.db = Unnamed => f.direct)
  BY <1>1, <1>3, <1>4, <1>7, <1>a DEF LocalOK, SessionType
<1>c. ASSUME ~f.direct, ~f.slipped, NEW x \in f.ran PROVE x = f.db
  <2>1. ~r.direct /\ ~r.slipped /\ ~(r.fellBack /\ r.db = NoDb /\ ~r.ssr)
    BY <1>7, <1>c
  <2>2. r.db # Unnamed /\ (r.db = NoDb => r.ssr) /\ \A y \in r.ran : y = r.db
    BY <1>3, <2>1
  <2>3. f.db = d /\ (r.db = NoDb => r.ran = {})
    BY <1>3, <1>4, <1>7, <1>a, <2>2, ConstantsFit DEF ConstantsFit
  <2> QED BY <1>3, <1>7, <1>c, <2>2, <2>3
<1> USE <1>1, <1>2, <1>7
<1>8. SessionType(f)
  BY <1>3, <1>b DEF LocalOK, SessionType, Pcs
<1>9. ConnectionOK(f)
  BY DEF LocalOK, ConnectionOK, CallPcs, EmptyPcs
<1>10. DatabaseOK(f)
  BY <1>b, <1>c DEF DatabaseOK
<1>11. RetryOK(f)
  BY ConstantsFit DEF LocalOK, RetryOK, CallPcs, ConstantsFit
<1> QED BY <1>5, <1>8, <1>9, <1>10, <1>11 DEF LocalOK, f

\* The query is run once more, or the attempt has failed.
LEMMA SendFailsLocal ==
  ASSUME LocalInv, NEW s \in Sessions, NEW failure, SendFails(s, failure)
  PROVE  Only(s) /\ LocalOK(ss'[s])
<1> DEFINE r == ss[s]  f == ss'[s]
           g == [r EXCEPT !.attempt = 1, !.pc = "servers", !.conn = NoConn, !.sent = {},
                        !.fellBack = FALSE, !.ssr = TRUE]
<1>1. LocalOK(r) /\ DOMAIN ss = Sessions /\ DOMAIN r = SessionFields /\ r.pc = "send"
  BY RecordOf DEF SendFails
<1>2. Alive(failure) \in BOOLEAN
  BY DEF Alive
<1>3. CASE ss' = [ss EXCEPT ![s] = AfterFailure(ss[s], failure, Alive(failure), FALSE)]
  BY <1>1, <1>2, <1>3, FailuresLocal DEF CallPcs
<1>4. CASE ss' = [ss EXCEPT ![s] = g]
  <2>1. Only(s) /\ f = g
    BY <1>1, <1>4, Replaced
  <2>2. /\ DOMAIN f = SessionFields /\ f.pc = "servers" /\ f.conn = NoConn
        /\ f.closed = r.closed /\ f.db = r.db /\ f.ran = r.ran /\ f.dead = r.dead
        /\ f.direct = r.direct /\ f.slipped = r.slipped
        /\ f.tx = r.tx /\ f.auto = r.auto /\ f.commits = r.commits
    BY <1>1, <2>1 DEF SessionFields
  <2> HIDE DEF r, f
  <2> USE <1>1, <2>2
  <2>6. SessionType(f)
    BY DEF LocalOK, SessionType, Pcs
  <2>7. ConnectionOK(f)
    BY DEF LocalOK, ConnectionOK, CallPcs, EmptyPcs
  <2>8. DatabaseOK(f)
    BY DEF LocalOK, DatabaseOK
  <2>9. RetryOK(f)
    BY ConstantsFit DEF LocalOK, RetryOK, CallPcs, ConstantsFit
  <2> QED BY <2>1, <2>6, <2>7, <2>8, <2>9 DEF LocalOK, f
<1> QED BY <1>3, <1>4 DEF SendFails

\* GetBookmarks, Work and Continue go on with the call.
LEMMA GoesOnLocal ==
  ASSUME LocalInv, NEW s \in Sessions, GetBookmarks(s) \/ Work(s) \/ Continue(s)
  PROVE  Only(s) /\ LocalOK(ss'[s])
<1> DEFINE r == ss[s]  f == ss'[s]
<1>1. LocalOK(r) /\ DOMAIN ss = Sessions /\ DOMAIN r = SessionFields
  BY RecordOf
<1>2. /\ Only(s) /\ DOMAIN f = SessionFields
      /\ \/ r.pc = "bookmarks" /\ f.pc = "send" /\ f.ssr = r.ssr /\ f.fellBack = r.fellBack
         \/ r.pc = "work" /\ f.pc = "commit"
         \/ r.pc = "retry" /\ f.pc = "servers" /\ MayContinue(r)
      /\ f.conn = r.conn /\ f.closed = r.closed /\ f.db = r.db /\ f.ran = r.ran /\ f.dead = r.dead
      /\ f.direct = r.direct /\ f.slipped = r.slipped
      /\ f.tx = r.tx /\ f.auto = r.auto /\ f.commits = r.commits
  <2>1. CASE GetBookmarks(s)
    BY <1>1, <2>1 DEF Only, SessionFields, GetBookmarks
  <2>2. CASE Work(s)
    BY <1>1, <2>2 DEF Only, SessionFields, Work
  <2>3. CASE Continue(s)
    BY <1>1, <2>3 DEF Only, SessionFields, Continue
  <2> QED BY <2>1, <2>2, <2>3
<1> HIDE DEF r, f
<1> USE <1>1, <1>2
<1>6. SessionType(f)
  BY DEF LocalOK, SessionType, Pcs
<1>7. ConnectionOK(f)
  BY DEF LocalOK, ConnectionOK, CallPcs, EmptyPcs
<1>8. DatabaseOK(f)
  BY DEF LocalOK, DatabaseOK
<1>9. RetryOK(f)
  BY ConstantsFit DEF LocalOK, SessionType, RetryOK, CallPcs, MayContinue, IsRetryable, ConstantsFit
<1> QED BY <1>6, <1>7, <1>8, <1>9 DEF LocalOK, f

\* A commit, acknowledged or not, is the only one of its call.
LEMMA CommitLocal ==
  ASSUME LocalInv, NEW s \in Sessions, Commit(s)
  PROVE  Only(s) /\ LocalOK(ss'[s])
<1> DEFINE r == ss[s]  f == ss'[s]  g == Finished(r)
<1>1. LocalOK(r) /\ DOMAIN ss = Sessions /\ DOMAIN r = SessionFields /\ r.pc = "commit"
  BY RecordOf DEF Commit
<1>2. LocalOK(g) /\ DOMAIN g = SessionFields /\ g.pc \in {"idle", "close"} /\ g.commits = 0
  BY <1>1, FinishedOK, FinishedFields DEF LocalOK, RetryOK, CallPcs
<1>3. PICK m : ss' = [ss EXCEPT ![s] = [g EXCEPT !.marks = m, !.commits = @ + 1]]
  BY DEF Commit
<1> HIDE DEF g
<1>4. Only(s) /\ f = [g EXCEPT !.marks = m, !.commits = @ + 1]
  BY <1>1, <1>3, Replaced
<1>5. /\ DOMAIN f = SessionFields /\ f.pc = g.pc /\ f.conn = g.conn /\ f.commits = 1
      /\ f.closed = g.closed /\ f.db = g.db /\ f.ran = g.ran /\ f.dead = g.dead
      /\ f.direct = g.direct /\ f.slipped = g.slipped
      /\ f.tx = g.tx /\ f.auto = g.auto
  BY <1>2, <1>4 DEF SessionFields
<1> HIDE DEF r, f
<1> USE <1>2, <1>5
<1>6. SessionType(f)
  BY DEF LocalOK, SessionType, Pcs
<1>7. ConnectionOK(f)
  BY DEF LocalOK, ConnectionOK, CallPcs, EmptyPcs
<1>8. DatabaseOK(f)
  BY DEF LocalOK, DatabaseOK
<1>9. RetryOK(f)
  BY DEF LocalOK, RetryOK, CallPcs
<1> QED BY <1>4, <1>6, <1>7, <1>8, <1>9 DEF LocalOK, f

\* A commit that may have been applied is marked as such.
LEMMA CommitFailsLocal ==
  ASSUME LocalInv, NEW s \in Sessions, NEW failure, NEW applied \in BOOLEAN,
         CommitFails(s, failure, applied)
  PROVE  Only(s) /\ LocalOK(ss'[s])
<1> DEFINE r == ss[s]  f == ss'[s]  g == AfterFailure(r, failure, Alive(failure), TRUE)
<1>1. LocalOK(r) /\ DOMAIN ss = Sessions /\ DOMAIN r = SessionFields /\ r.pc = "commit"
  BY RecordOf DEF CommitFails
<1>2. Alive(failure) \in BOOLEAN /\ (applied => ~Alive(failure))
  BY DEF Alive, CommitFails
<1>3. LocalOK(g)
  BY <1>1, <1>2, AfterFailureOK DEF CallPcs
<1>4. /\ DOMAIN g = SessionFields /\ g.commits = 0
      /\ g.pc \in {"idle", "close"} \/ (g.pc = "retry" /\ (applied => g.err = "commitFailedDead"))
  <2>1. r.commits = 0
    BY <1>1 DEF LocalOK, RetryOK, CallPcs
  <2>2. PICK committing \in BOOLEAN : committing
    OBVIOUS
  <2>3. g = AfterFailure(r, failure, Alive(failure), committing)
    BY <1>2, <2>2 DEF AfterFailure, OnFailure
  <2>4. /\ DOMAIN g = SessionFields /\ g.commits = r.commits
        /\ \/ g.pc \in {"close", "idle"} /\ g.dead = 0
           \/ g.pc = "retry" /\ (~Alive(failure) /\ committing => g.err = "commitFailedDead")
    <3> HIDE DEF g, r
    <3> QED BY <1>1, <1>2, <2>3, AfterFailureFields
  <2> HIDE DEF g
  <2> QED BY <1>2, <2>1, <2>2, <2>4
<1>5. ss' = [ss EXCEPT ![s] = [g EXCEPT !.commits = IF applied THEN @ + 1 ELSE @]]
  BY DEF CommitFails
<1> HIDE DEF g
<1>6. Only(s) /\ f = [g EXCEPT !.commits = IF applied THEN @ + 1 ELSE @]
  BY <1>1, <1>5, Replaced
<1>7. /\ DOMAIN f = SessionFields /\ f.pc = g.pc /\ f.conn = g.conn
      /\ f.commits = (IF applied THEN 1 ELSE 0) /\ f.err = g.err
      /\ f.closed = g.closed /\ f.db = g.db /\ f.ran = g.ran /\ f.dead = g.dead
      /\ f.direct = g.direct /\ f.slipped = g.slipped
      /\ f.tx = g.tx /\ f.auto = g.auto
  BY <1>4, <1>6 DEF SessionFields
<1> HIDE DEF r, f
<1> USE <1>3, <1>4, <1>7
<1>8. SessionType(f)
  BY DEF LocalOK, SessionType, Pcs
<1>9. ConnectionOK(f)
  BY DEF LocalOK, ConnectionOK, CallPcs, EmptyPcs
<1>10. DatabaseOK(f)
  BY DEF LocalOK, DatabaseOK
<1>11. RetryOK(f)
  BY DEF LocalOK, RetryOK, CallPcs
<1> QED BY <1>6, <1>8, <1>9, <1>10, <1>11 DEF LocalOK, f

\* A session whose bookmarks are all that changes stays in order.
LEMMA MarksOnly ==
  ASSUME LocalInv, NEW s \in Sessions, Only(s), NEW m, ss'[s] = [ss[s] EXCEPT !.marks = m]
  PROVE  LocalOK(ss'[s])
<1> DEFINE r == ss[s]  f == ss'[s]
<1>1. LocalOK(r) /\ DOMAIN ss = Sessions /\ DOMAIN r = SessionFields
  BY RecordOf
<1>2. /\ DOMAIN f = SessionFields /\ f.pc = r.pc /\ f.conn = r.conn /\ f.err = r.err
      /\ f.guessed = r.guessed /\ f.ssr = r.ssr /\ f.fellBack = r.fellBack
      /\ f.closed = r.closed /\ f.db = r.db /\ f.ran = r.ran /\ f.dead = r.dead
      /\ f.direct = r.direct /\ f.slipped = r.slipped
      /\ f.tx = r.tx /\ f.auto = r.auto /\ f.commits = r.commits
  BY <1>1 DEF SessionFields
<1> HIDE DEF r, f
<1> USE <1>1, <1>2
<1>6. SessionType(f)
  BY DEF LocalOK, SessionType, Pcs
<1>7. ConnectionOK(f)
  BY DEF LocalOK, ConnectionOK, CallPcs, EmptyPcs
<1>8. DatabaseOK(f)
  BY DEF LocalOK, DatabaseOK
<1>9. RetryOK(f)
  BY DEF LocalOK, RetryOK, CallPcs
<1> QED BY <1>6, <1>7, <1>8, <1>9 DEF LocalOK, f

\* The end of an explicit transaction, however it comes about.
LEMMA CloseTxLocal ==
  ASSUME LocalInv, NEW s \in Sessions, ss[s].pc \in {"idle", "close"}, ss[s].tx # NoConn,
         NEW new, NEW stream, NEW failed, CloseTx(s, new, stream, failed)
  PROVE  Only(s) /\ LocalOK(ss'[s])
<1> DEFINE r == ss[s]  f == ss'[s]
<1>1. LocalOK(r) /\ DOMAIN ss = Sessions /\ DOMAIN r = SessionFields
  BY RecordOf
<1>2. PICK m : ss' = [ss EXCEPT ![s].tx = NoConn, ![s].sent = {}, ![s].marks = m]
  BY DEF CloseTx
<1>3. /\ Only(s) /\ DOMAIN f = SessionFields /\ f.pc = r.pc /\ f.conn = r.conn /\ f.tx = NoConn
      /\ f.closed = r.closed /\ f.db = r.db /\ f.ran = r.ran /\ f.dead = r.dead
      /\ f.direct = r.direct /\ f.slipped = r.slipped
      /\ f.auto = r.auto /\ f.commits = r.commits
  BY <1>1, <1>2 DEF Only, SessionFields
<1> HIDE DEF r, f
<1> USE <1>1, <1>3
<1>6. SessionType(f)
  BY DEF LocalOK, SessionType, Pcs
<1>7. ConnectionOK(f)
  BY DEF LocalOK, ConnectionOK, CallPcs, EmptyPcs
<1>8. DatabaseOK(f)
  BY DEF LocalOK, DatabaseOK, r
<1>9. RetryOK(f)
  BY DEF LocalOK, RetryOK, CallPcs, r
<1> QED BY <1>6, <1>7, <1>8, <1>9 DEF LocalOK, f

\* Close and CloseDone.
LEMMA CloseLocal ==
  ASSUME LocalInv, NEW s \in Sessions, Close(s) \/ CloseDone(s)
  PROVE  Only(s) /\ LocalOK(ss'[s])
<1> DEFINE r == ss[s]  f == ss'[s]
<1>1. LocalOK(r) /\ DOMAIN ss = Sessions /\ DOMAIN r = SessionFields
  BY RecordOf
<1>2. /\ Only(s) /\ DOMAIN f = SessionFields
      /\ \/ r.pc = "idle" /\ ~r.closed /\ f.pc = "close" /\ f.closed = r.closed
         \/ r.pc = "close" /\ f.pc = "idle" /\ r.tx = NoConn /\ r.auto = NoConn /\ f.closed = TRUE
      /\ f.conn = r.conn /\ f.db = r.db /\ f.ran = r.ran /\ f.dead = r.dead
      /\ f.direct = r.direct /\ f.slipped = r.slipped
      /\ f.tx = r.tx /\ f.auto = r.auto /\ f.commits = r.commits
  <2>1. CASE Close(s)
    BY <1>1, <2>1 DEF Only, SessionFields, Close
  <2>2. CASE CloseDone(s)
    BY <1>1, <2>2 DEF Only, SessionFields, CloseDone
  <2> QED BY <2>1, <2>2
<1> HIDE DEF r, f
<1> USE <1>1, <1>2
<1>6. SessionType(f)
  BY DEF LocalOK, SessionType, Pcs
<1>7. ConnectionOK(f)
  BY DEF LocalOK, ConnectionOK, CallPcs, EmptyPcs
<1>8. DatabaseOK(f)
  BY DEF LocalOK, DatabaseOK
<1>9. RetryOK(f)
  BY DEF LocalOK, RetryOK, CallPcs
<1> QED BY <1>6, <1>7, <1>8, <1>9 DEF LocalOK, f

\* A step of one session keeps what holds of each session by itself.
LEMMA SessionLocal ==
  ASSUME LocalInv, NEW s \in Sessions, Step(s) \/ Use(s)
  PROVE  Only(s) /\ LocalOK(ss'[s])
<1>0. DOMAIN ss = Sessions /\ LocalOK(ss[s]) /\ DOMAIN ss[s] = SessionFields
  BY RecordOf
<1>1. CASE UNCHANGED ss
  BY <1>0, <1>1 DEF Only
<1>2. ASSUME NEW m, ss' = [ss EXCEPT ![s].marks = m] PROVE Only(s) /\ LocalOK(ss'[s])
  <2>1. Only(s) /\ ss'[s] = [ss[s] EXCEPT !.marks = m]
    BY <1>0, <1>2 DEF Only
  <2> QED BY <2>1, MarksOnly
<1>3. ASSUME NEW run, NEW new, Hook(s, run, new) PROVE Only(s) /\ LocalOK(ss'[s])
  BY <1>1, <1>2, <1>3 DEF Hook
<1>4. \A failure : Alive(failure) \in BOOLEAN
  BY DEF Alive
<1>5. CASE Step(s)
  <2>1. ASSUME NEW how, FinishAutocommit(s, how) PROVE Only(s) /\ LocalOK(ss'[s])
    BY <2>1, FinishAutocommitLocal
  <2>2. ASSUME NEW enabled \in BOOLEAN, GetServerList(s, enabled) PROVE Only(s) /\ LocalOK(ss'[s])
    BY <2>2, GetServerListLocal
  <2>3. ASSUME NEW err, AcquisitionFails(s, err) PROVE Only(s) /\ LocalOK(ss'[s])
    BY <2>3, FailuresLocal DEF AcquisitionFails
  <2>4. ASSUME NEW c \in Conns, NEW ssr \in BOOLEAN, BorrowConnection(s, c, ssr)
        PROVE  Only(s) /\ LocalOK(ss'[s])
    BY <2>4, BorrowConnectionLocal
  <2>5. CASE PreparationFails(s)
    BY <2>5, FailuresLocal DEF PreparationFails, CallPcs
  <2>6. CASE GetBookmarks(s) \/ Work(s) \/ Continue(s)
    BY <2>6, GoesOnLocal
  <2>7. CASE Send(s)
    BY <2>7, SendLocal
  <2>8. ASSUME NEW failure, SendFails(s, failure) PROVE Only(s) /\ LocalOK(ss'[s])
    BY <2>8, SendFailsLocal
  <2>9. ASSUME NEW failure, WorkFails(s, failure) PROVE Only(s) /\ LocalOK(ss'[s])
    BY <1>4, <2>9, FailuresLocal DEF WorkFails, CallPcs
  <2>10. CASE Commit(s)
    BY <2>10, CommitLocal
  <2>11. ASSUME NEW failure, NEW applied \in BOOLEAN, CommitFails(s, failure, applied)
         PROVE  Only(s) /\ LocalOK(ss'[s])
    BY <2>11, CommitFailsLocal
  <2>12. CASE WorkPanics(s) \/ GiveUp(s)
    BY <2>12, EndsLocal DEF WorkPanics, GiveUp, CallPcs, EmptyPcs
  <2>13. CASE TxRollback(s)
    BY <2>13, CloseTxLocal DEF TxRollback, InTx
  <2>14. CASE CloseDone(s)
    BY <2>14, CloseLocal
  <2> QED BY <1>5, <2>1, <2>2, <2>3, <2>4, <2>5, <2>6, <2>7, <2>8, <2>9, <2>10, <2>11, <2>12,
             <2>13, <2>14 DEF Step
<1>6. CASE Use(s)
  <2>1. CASE Call(s)
    BY <2>1, CallLocal
  <2>2. CASE TxRun(s)
    BY <1>1, <2>2 DEF TxRun
  <2>3. CASE TxRunFails(s) \/ TxCommit(s) \/ TxRollback(s)
    BY <2>3, CloseTxLocal DEF TxRunFails, TxCommit, TxRollback, InTx
  <2>4. ASSUME NEW applied, TxCommitFails(s, applied) PROVE Only(s) /\ LocalOK(ss'[s])
    BY <2>4, CloseTxLocal DEF TxCommitFails, InTx
  <2>5. CASE Close(s)
    BY <2>5, CloseLocal
  <2>6. CASE LastBookmarks(s)
    BY <1>2, <2>6 DEF LastBookmarks
  <2>7. ASSUME NEW got, Next(s, got) PROVE Only(s) /\ LocalOK(ss'[s])
    BY <1>3, <2>7, CloseTxLocal DEF Next, InUse
  <2>8. ASSUME NEW got, Peek(s, got) PROVE Only(s) /\ LocalOK(ss'[s])
    BY <1>1, <2>8 DEF Peek
  <2>9. ASSUME NEW got, NEW asksForOne, Consume(s, got, asksForOne) PROVE Only(s) /\ LocalOK(ss'[s])
    BY <1>3, <2>9 DEF Consume
  <2> QED BY <1>6, <2>1, <2>2, <2>3, <2>4, <2>5, <2>6, <2>7, <2>8, <2>9 DEF Use
<1> QED BY <1>5, <1>6

-----------------------------------------------------------------------------
\* Connections: a step of a session keeps, returns or borrows a connection.

ConnTypes == DOMAIN conns = Conns /\ \A c \in Conns : DOMAIN conns[c] = ConnFields

SameOwners == ConnTypes' /\ \A c \in Conns : conns'[c].owner = conns[c].owner

Keeps(s) == SameOwners /\ Held(s)' = Held(s)
Returns(s) == \E c \in Held(s) : Return(c) /\ Held(s)' = {}
Borrows(s) == \E c \in Free : /\ conns' = [conns EXCEPT ![c].owner = s]
                              /\ Held(s) = {} /\ Held(s)' = {c}

\* A session has one connection at most.
LEMMA HeldOne ==
  ASSUME LocalInv, NEW s \in Sessions, NEW c \in Held(s)
  PROVE  c \in Conns /\ Held(s) = {c}
<1>1. LocalOK(ss[s])
  BY RecordOf
<1> QED BY <1>1 DEF Held, LocalOK, SessionType, ConnectionOK, CallPcs

\* What is kept, returned or borrowed by one session keeps the owners right.
LEMMA OwnerStep ==
  ASSUME LocalInv, OwnerInv, NEW s \in Sessions, Only(s), Keeps(s) \/ Returns(s) \/ Borrows(s)
  PROVE  OwnerInv'
<1>1. \A t \in Sessions \ {s} : Held(t)' = Held(t)
  BY DEF Only, Held
<1>2. CASE Keeps(s)
  BY <1>1, <1>2 DEF Keeps, SameOwners, ConnTypes, OwnerInv
<1>3. CASE Returns(s)
  <2>1. PICK c \in Held(s) : Return(c) /\ Held(s)' = {}
    BY <1>3 DEF Returns
  <2>2. c \in Conns /\ Held(s) = {c}
    BY HeldOne
  <2>3. /\ DOMAIN conns' = Conns /\ \A x \in Conns : DOMAIN conns'[x] = ConnFields
        /\ conns'[c].owner = Pool /\ \A x \in Conns \ {c} : conns'[x].owner = conns[x].owner
    BY <2>1, <2>2 DEF Return, FreeConn, OwnerInv, ConnFields
  <2>4. Pool \notin Sessions /\ conns[c].owner = s
    BY <2>2, ConstantsFit DEF OwnerInv, ConstantsFit
  <2> QED BY <1>1, <2>1, <2>2, <2>3, <2>4 DEF OwnerInv
<1>4. CASE Borrows(s)
  <2>1. PICK c \in Free : conns' = [conns EXCEPT ![c].owner = s] /\ Held(s) = {} /\ Held(s)' = {c}
    BY <1>4 DEF Borrows
  <2>2. c \in Conns /\ conns[c].owner = Pool
    BY DEF Free
  <2>3. /\ DOMAIN conns' = Conns /\ \A x \in Conns : DOMAIN conns'[x] = ConnFields
        /\ conns'[c].owner = s /\ \A x \in Conns \ {c} : conns'[x].owner = conns[x].owner
    BY <2>1, <2>2 DEF OwnerInv, ConnFields
  <2>4. Pool \notin Sessions
    BY ConstantsFit DEF ConstantsFit
  <2> QED BY <1>1, <2>1, <2>2, <2>3, <2>4 DEF OwnerInv
<1> QED BY <1>2, <1>3, <1>4

\* The connection that a record holds is at the place where the session is.
LEMMA HeldAt ==
  ASSUME LocalInv, NEW s \in Sessions
  PROVE  /\ ss[s].pc \in CallPcs => ss[s].conn \in Held(s)
         /\ ss[s].pc \in EmptyPcs => Held(s) = {}
         /\ ss[s].tx # NoConn => ss[s].tx \in Held(s)
         /\ ss[s].auto # NoConn => ss[s].auto \in Held(s)
<1>1. LocalOK(ss[s])
  BY RecordOf
<1> QED BY <1>1 DEF Held, LocalOK, SessionType, ConnectionOK, CallPcs, EmptyPcs

\* A call that fails or ends holds nothing afterwards.
LEMMA NothingLeft ==
  ASSUME LocalInv, NEW s \in Sessions, ss[s].pc \in CallPcs \cup EmptyPcs,
         NEW err, NEW alive \in BOOLEAN, NEW committing \in BOOLEAN,
         NEW f, f \in {Finished(ss[s]), AfterFailure(ss[s], err, alive, committing)},
         /\ ss'[s].conn = f.conn /\ ss'[s].tx = f.tx /\ ss'[s].auto = f.auto
  PROVE  Held(s)' = {}
<1>1. DOMAIN ss[s] = SessionFields /\ ss[s].tx = NoConn /\ ss[s].auto = NoConn
  BY RecordOf DEF LocalOK, ConnectionOK
<1>2. f.conn = NoConn /\ f.tx = NoConn /\ f.auto = NoConn
  BY <1>1, FinishedFields, AfterFailureFields
<1> QED BY <1>2 DEF Held

\* Send gives the connection of the call to a transaction or a query, or keeps it.
LEMMA SendHeld ==
  ASSUME LocalInv, NEW s \in Sessions, Send(s)
  PROVE  Held(s)' = Held(s)
<1> DEFINE r == ss[s]  f == ss'[s]
           d == IF r.db \in {NoDb, Unnamed} THEN home ELSE r.db
           told == IF r.ssr THEN Pinned(r, d) ELSE r
           into == [told EXCEPT !.ran = @ \cup {d}, !.conn = NoConn, !.pc = "idle", !.api = "none",
                                !.attempt = 0, !.ssr = TRUE, !.fellBack = FALSE,
                                !.slipped = @ \/ (r.fellBack /\ r.db = NoDb /\ ~r.ssr)]
<1>1. DOMAIN ss = Sessions /\ DOMAIN r = SessionFields /\ r.tx = NoConn /\ r.auto = NoConn
  BY RecordOf DEF Send, LocalOK, ConnectionOK, CallPcs
<1>2. f = CASE r.api = "begin" -> [into EXCEPT !.tx = r.conn]
            [] r.api = "run" -> [into EXCEPT !.auto = r.conn]
            [] OTHER -> [into EXCEPT !.conn = r.conn, !.pc = "work", !.api = r.api]
  BY <1>1, Replaced DEF Send
<1>3. DOMAIN told = SessionFields /\ told.tx = NoConn /\ told.auto = NoConn
  <2> HIDE DEF d, r
  <2> QED BY <1>1, PinnedFields
<1> HIDE DEF d, told
<1>4. DOMAIN into = SessionFields /\ into.conn = NoConn /\ into.tx = NoConn /\ into.auto = NoConn
  BY <1>3 DEF SessionFields
<1> HIDE DEF into
<1> QED BY <1>1, <1>2, <1>4 DEF Held, SessionFields

\* The end of an explicit transaction returns its connection.
LEMMA CloseTxHeld ==
  ASSUME LocalInv, NEW s \in Sessions, ss[s].pc \in {"idle", "close"}, ss[s].tx # NoConn,
         NEW new, NEW stream, NEW failed, CloseTx(s, new, stream, failed)
  PROVE  Returns(s)
<1>1. DOMAIN ss = Sessions /\ DOMAIN ss[s] = SessionFields /\ LocalOK(ss[s])
  BY RecordOf
<1>2. PICK m : ss' = [ss EXCEPT ![s].tx = NoConn, ![s].sent = {}, ![s].marks = m]
  BY DEF CloseTx
<1>3. ss'[s].tx = NoConn /\ ss'[s].conn = ss[s].conn /\ ss'[s].auto = ss[s].auto
  BY <1>1, <1>2 DEF SessionFields
<1>4. Held(s)' = {}
  BY <1>1, <1>3 DEF Held, LocalOK, ConnectionOK, CallPcs
<1> QED BY <1>4, HeldAt DEF Returns, CloseTx

\* Every step of a session keeps, returns or borrows a connection.
LEMMA SessionConns ==
  ASSUME LocalInv, OwnerInv, NEW s \in Sessions, Step(s) \/ Use(s)
  PROVE  Keeps(s) \/ Returns(s) \/ Borrows(s)
<1> DEFINE r == ss[s]  f == ss'[s]
<1>0. /\ DOMAIN ss = Sessions /\ DOMAIN r = SessionFields /\ LocalOK(r)
      /\ ConnTypes /\ Only(s) /\ LocalOK(f)
  BY RecordOf, SessionLocal DEF OwnerInv, ConnTypes
<1>1. ASSUME UNCHANGED conns PROVE SameOwners
  BY <1>0, <1>1 DEF SameOwners, ConnTypes
<1>2. ASSUME f.conn = r.conn, f.tx = r.tx, f.auto = r.auto PROVE Held(s)' = Held(s)
  BY <1>2 DEF Held
<1>3. CASE UNCHANGED <<ss, conns>>
  BY <1>1, <1>3 DEF Keeps, Held
<1>4. \A failure : Alive(failure) \in BOOLEAN
  BY DEF Alive
<1>5. CASE Step(s)
  <2>1. ASSUME NEW how, FinishAutocommit(s, how) PROVE Returns(s)
    <3>1. /\ r.auto # NoConn /\ r.pc \notin CallPcs /\ Return(r.auto)
          /\ f.auto = NoConn /\ f.tx = r.tx /\ f.conn = r.conn
      BY <1>0, <2>1 DEF FinishAutocommit, SessionFields, CallPcs
    <3> QED BY <1>0, <3>1, HeldAt DEF Returns, Held, LocalOK, ConnectionOK
  <2>2. ASSUME NEW enabled \in BOOLEAN, GetServerList(s, enabled) PROVE Keeps(s)
    <3>1. f.conn = r.conn /\ f.tx = r.tx /\ f.auto = r.auto
      <4> DEFINE b == [r EXCEPT !.pc = "borrow", !.guessed = UsesGuess(s, enabled) /\ ~r.fellBack]
                 d == NameOfDefaultDatabase(s)
      <4>1. f \in {b, Pinned(b, d)}
        BY <1>0, <2>2, Replaced DEF GetServerList
      <4>2. DOMAIN b = SessionFields /\ b.conn = r.conn /\ b.tx = r.tx /\ b.auto = r.auto
        BY <1>0 DEF SessionFields
      <4> HIDE DEF b, d, r, f
      <4> QED BY <4>1, <4>2, PinnedFields
    <3> QED BY <1>1, <1>2, <2>2, <3>1 DEF GetServerList, Keeps
  <2>3. ASSUME NEW err, AcquisitionFails(s, err) PROVE Keeps(s)
    <3>1. f = AfterFailure(r, err, TRUE, FALSE) /\ r.pc \in EmptyPcs /\ UNCHANGED conns
      BY <1>0, <2>3, Replaced DEF AcquisitionFails, EmptyPcs
    <3>2. Held(s)' = {}
      BY <3>1, NothingLeft
    <3> QED BY <1>1, <3>1, <3>2, HeldAt DEF Keeps
  <2>4. ASSUME NEW c \in Conns, NEW ssr \in BOOLEAN, BorrowConnection(s, c, ssr)
        PROVE  Keeps(s) \/ Borrows(s)
    <3>1. r.pc = "borrow" /\ Held(s) = {} /\ c \in Free /\ c # NoConn
      BY <2>4, HeldAt, ConstantsFit DEF BorrowConnection, EmptyPcs, ConstantsFit
    <3>2. CASE ss' = [ss EXCEPT ![s] = Finished(ss[s])] /\ UNCHANGED conns
      <4>1. Held(s)' = {}
        BY <1>0, <3>1, <3>2, Replaced, NothingLeft DEF EmptyPcs
      <4> QED BY <1>1, <3>1, <3>2, <4>1 DEF Keeps
    <3>3. CASE ss' = [ss EXCEPT ![s] = [ss[s] EXCEPT !.pc = "servers", !.guessed = FALSE, !.fellBack = TRUE]] /\ UNCHANGED conns
      <4>1. f.conn = r.conn /\ f.tx = r.tx /\ f.auto = r.auto
        BY <1>0, <3>3 DEF SessionFields
      <4> QED BY <1>1, <1>2, <3>3, <4>1 DEF Keeps
    <3>4. CASE /\ ss' = [ss EXCEPT ![s].pc = "bookmarks", ![s].conn = c, ![s].guessed = FALSE, ![s].ssr = ssr]
               /\ conns' = [conns EXCEPT ![c].owner = s]
      <4>1. f.conn = c /\ f.tx = r.tx /\ f.auto = r.auto
        BY <1>0, <3>4 DEF SessionFields
      <4>2. Held(s)' = {c}
        BY <3>1, <4>1 DEF Held
      <4> QED BY <3>1, <3>4, <4>2 DEF Borrows
    <3> QED BY <2>4, <3>2, <3>3, <3>4 DEF BorrowConnection
  <2>5. CASE PreparationFails(s)
    <3>1. f = AfterFailure(r, "client", TRUE, FALSE) /\ r.pc \in CallPcs /\ Return(r.conn)
      BY <1>0, <2>5, Replaced DEF PreparationFails, CallPcs
    <3>2. Held(s)' = {}
      BY <3>1, NothingLeft
    <3> QED BY <3>1, <3>2, HeldAt DEF Returns
  <2>6. CASE GetBookmarks(s) \/ Work(s) \/ Continue(s)
    <3>1. f.conn = r.conn /\ f.tx = r.tx /\ f.auto = r.auto /\ UNCHANGED conns
      BY <1>0, <2>6 DEF SessionFields, GetBookmarks, Work, Continue
    <3> QED BY <1>1, <1>2, <3>1 DEF Keeps
  <2>7. CASE Send(s)
    <3>1. Held(s)' = Held(s)
      BY <2>7, SendHeld
    <3> QED BY <1>1, <2>7, <3>1 DEF Send, Keeps
  <2>8. ASSUME NEW failure, SendFails(s, failure) PROVE Returns(s)
    <3> DEFINE g == [r EXCEPT !.attempt = 1, !.pc = "servers", !.conn = NoConn, !.sent = {},
                        !.fellBack = FALSE, !.ssr = TRUE]
    <3>1. r.pc \in CallPcs /\ Return(r.conn)
      BY <2>8 DEF SendFails, CallPcs
    <3>2. CASE ss' = [ss EXCEPT ![s] = AfterFailure(ss[s], failure, Alive(failure), FALSE)]
      <4>1. Held(s)' = {}
        BY <1>0, <1>4, <3>1, <3>2, Replaced, NothingLeft
      <4> QED BY <3>1, <4>1, HeldAt DEF Returns
    <3>3. CASE ss' = [ss EXCEPT ![s] = g]
      <4>1. f.conn = NoConn /\ f.tx = r.tx /\ f.auto = r.auto
        BY <1>0, <3>3, Replaced DEF SessionFields
      <4>2. Held(s)' = {}
        BY <1>0, <3>1, <4>1 DEF Held, LocalOK, ConnectionOK
      <4> QED BY <3>1, <4>2, HeldAt DEF Returns
    <3> QED BY <2>8, <3>2, <3>3 DEF SendFails
  <2>9. ASSUME NEW failure, WorkFails(s, failure) PROVE Returns(s)
    <3>1. f = AfterFailure(r, failure, Alive(failure), FALSE) /\ r.pc \in CallPcs /\ Return(r.conn)
      BY <1>0, <2>9, Replaced DEF WorkFails, CallPcs
    <3>2. Held(s)' = {}
      BY <1>4, <3>1, NothingLeft
    <3> QED BY <3>1, <3>2, HeldAt DEF Returns
  <2>10. CASE Commit(s)
    <3>1. PICK m : ss' = [ss EXCEPT ![s] = [Finished(r) EXCEPT !.marks = m, !.commits = @ + 1]]
      BY <2>10 DEF Commit
    <3>2. r.pc \in CallPcs /\ Return(r.conn)
      BY <2>10 DEF Commit, CallPcs
    <3> DEFINE g == Finished(r)
    <3>3. DOMAIN g = SessionFields
      BY <1>0, FinishedFields
    <3>4. f.conn = g.conn /\ f.tx = g.tx /\ f.auto = g.auto
      <4> HIDE DEF g
      <4>1. f = [g EXCEPT !.marks = m, !.commits = @ + 1]
        BY <1>0, <3>1, Replaced DEF g
      <4> QED BY <3>3, <4>1 DEF SessionFields
    <3>5. Held(s)' = {}
      BY <3>2, <3>4, NothingLeft
    <3> QED BY <3>2, <3>5, HeldAt DEF Returns
  <2>11. ASSUME NEW failure, NEW applied \in BOOLEAN, CommitFails(s, failure, applied) PROVE Returns(s)
    <3> DEFINE g == AfterFailure(r, failure, Alive(failure), TRUE)
    <3>1. ss' = [ss EXCEPT ![s] = [g EXCEPT !.commits = IF applied THEN @ + 1 ELSE @]]
      BY <2>11 DEF CommitFails
    <3>2. r.pc \in CallPcs /\ Return(r.conn)
      BY <2>11 DEF CommitFails, CallPcs
    <3>3. DOMAIN g = SessionFields
      BY <1>0, <1>4, AfterFailureFields
    <3>4. f.conn = g.conn /\ f.tx = g.tx /\ f.auto = g.auto
      <4> HIDE DEF g
      <4>1. f = [g EXCEPT !.commits = IF applied THEN @ + 1 ELSE @]
        BY <1>0, <3>1, Replaced DEF g
      <4> QED BY <3>3, <4>1 DEF SessionFields
    <3>5. Held(s)' = {}
      BY <1>4, <3>2, <3>4, NothingLeft
    <3> QED BY <3>2, <3>5, HeldAt DEF Returns
  <2>12. CASE WorkPanics(s) \/ GiveUp(s)
    <3>1. /\ f = Finished(r)
          /\ \/ r.pc \in CallPcs /\ Return(r.conn)
             \/ r.pc \in EmptyPcs /\ UNCHANGED conns
      BY <1>0, <2>12, Replaced DEF WorkPanics, GiveUp, CallPcs, EmptyPcs
    <3>2. Held(s)' = {}
      BY <3>1, NothingLeft
    <3> QED BY <1>1, <3>1, <3>2, HeldAt DEF Keeps, Returns
  <2>13. CASE TxRollback(s)
    BY <2>13, CloseTxHeld DEF TxRollback, InTx
  <2>14. CASE CloseDone(s)
    <3>1. f.conn = r.conn /\ f.tx = r.tx /\ f.auto = r.auto /\ UNCHANGED conns
      BY <1>0, <2>14 DEF SessionFields, CloseDone
    <3> QED BY <1>1, <1>2, <3>1 DEF Keeps
  <2> QED BY <1>5, <2>1, <2>2, <2>3, <2>4, <2>5, <2>6, <2>7, <2>8, <2>9, <2>10, <2>11, <2>12,
             <2>13, <2>14 DEF Step
<1>6. ASSUME NEW m, ss' = [ss EXCEPT ![s].marks = m] PROVE Held(s)' = Held(s)
  <2>1. f.conn = r.conn /\ f.tx = r.tx /\ f.auto = r.auto
    BY <1>0, <1>6 DEF SessionFields
  <2> QED BY <1>2, <2>1
<1>7. ASSUME NEW run, NEW new, Hook(s, run, new) PROVE Held(s)' = Held(s)
  <2>1. CASE UNCHANGED ss
    BY <2>1 DEF Held
  <2> QED BY <1>6, <1>7, <2>1 DEF Hook
<1>8. ASSUME NEW got, Fetch(s, got) PROVE SameOwners
  BY <1>0, <1>8 DEF Fetch, Broken, SameOwners, ConnTypes, ConnFields
<1>9. CASE Use(s)
  <2>1. CASE Call(s) \/ Close(s)
    <3>1. f.conn = r.conn /\ f.tx = r.tx /\ f.auto = r.auto /\ UNCHANGED conns
      BY <1>0, <2>1 DEF SessionFields, Call, Close
    <3> QED BY <1>1, <1>2, <3>1 DEF Keeps
  <2>2. CASE TxRun(s)
    BY <1>3, <2>2 DEF TxRun
  <2>3. CASE TxRunFails(s) \/ TxCommit(s) \/ TxRollback(s)
    BY <2>3, CloseTxHeld DEF TxRunFails, TxCommit, TxRollback, InTx
  <2>4. ASSUME NEW applied, TxCommitFails(s, applied) PROVE Returns(s)
    BY <2>4, CloseTxHeld DEF TxCommitFails, InTx
  <2>5. CASE LastBookmarks(s)
    BY <1>1, <1>6, <2>5 DEF LastBookmarks, Keeps
  <2>6. ASSUME NEW got, Next(s, got) PROVE Keeps(s) \/ Returns(s)
    BY <1>1, <1>7, <1>8, <2>6, CloseTxHeld DEF Next, InUse, Keeps
  <2>7. ASSUME NEW got, Peek(s, got) PROVE Keeps(s)
    <3>1. UNCHANGED ss /\ SameOwners
      BY <1>8, <2>7 DEF Peek
    <3> QED BY <3>1 DEF Keeps, Held
  <2>8. ASSUME NEW got, NEW asksForOne, Consume(s, got, asksForOne) PROVE Keeps(s)
    BY <1>7, <1>8, <2>8 DEF Consume, Keeps
  <2> QED BY <1>9, <2>1, <2>2, <2>3, <2>4, <2>5, <2>6, <2>7, <2>8 DEF Use
<1> QED BY <1>5, <1>9

-----------------------------------------------------------------------------
\* Results: most steps leave them, and the bookmarks, as they are.

\* A step of a call that neither commits nor returns a result.
Quiet(s) ==
  /\ UNCHANGED <<res, mgr, after, own>>
  /\ ss'[s].tx = ss[s].tx /\ ss'[s].auto = ss[s].auto
  /\ ss'[s].managed = ss[s].managed /\ ss'[s].marks = ss[s].marks
  /\ \/ ss'[s].sent = ss[s].sent
     \/ ss[s].auto = NoConn /\ ss'[s].sent \in {{}, Current(s)}
  /\ ss'[s].pc = "send" => ss'[s].sent = Current(s)
  /\ \/ UNCHANGED conns
     \/ ss[s].conn # NoConn /\ Return(ss[s].conn)
     \/ \E c \in Conns : conns' = [conns EXCEPT ![c].owner = s]

\* The calls of Step and Use that are quiet.
QuietStep(s) ==
  \/ \E enabled \in BOOLEAN : GetServerList(s, enabled)
  \/ \E err : AcquisitionFails(s, err)
  \/ \E c \in Conns, ssr \in BOOLEAN : BorrowConnection(s, c, ssr)
  \/ PreparationFails(s) \/ GetBookmarks(s) \/ Work(s)
  \/ \E failure : SendFails(s, failure) \/ WorkFails(s, failure)
  \/ WorkPanics(s) \/ Continue(s) \/ GiveUp(s) \/ CloseDone(s) \/ Call(s) \/ Close(s)

\* They are.
LEMMA QuietIsQuiet ==
  ASSUME LocalInv, NEW s \in Sessions, QuietStep(s)
  PROVE  Quiet(s)
<1> DEFINE r == ss[s]  f == ss'[s]
<1>0. DOMAIN ss = Sessions /\ DOMAIN r = SessionFields /\ LocalOK(r)
  BY RecordOf
<1>1. /\ r.pc \in CallPcs => r.conn # NoConn
      /\ r.pc \in CallPcs \cup EmptyPcs => r.auto = NoConn
  BY <1>0 DEF LocalOK, ConnectionOK
<1>2. \A failure : Alive(failure) \in BOOLEAN
  BY DEF Alive
<1> DEFINE Silent == UNCHANGED <<res, mgr, after, own>>
           Record == /\ f.tx = r.tx /\ f.auto = r.auto /\ f.managed = r.managed /\ f.marks = r.marks
                     /\ f.pc # "send"
                     /\ f.sent = r.sent \/ (r.auto = NoConn /\ f.sent = {})
<1>3. ASSUME NEW err, NEW alive \in BOOLEAN, NEW committing \in BOOLEAN,
             r.pc \in CallPcs \cup EmptyPcs,
             f \in {Finished(r), AfterFailure(r, err, alive, committing)}
      PROVE  Record
  <2>1. CASE f = Finished(r)
    <3> HIDE DEF r, f
    <3> QED BY <1>0, <1>1, <1>3, <2>1, FinishedFields
  <2>2. CASE f = AfterFailure(r, err, alive, committing)
    <3>1. /\ f.sent = {} /\ f.managed = r.managed /\ f.marks = r.marks
          /\ f.tx = r.tx /\ f.auto = r.auto /\ f.pc \in {"close", "idle", "retry"}
      BY <1>0, <1>3, <2>2, AfterFailureFields
    <3> QED BY <1>1, <1>3, <3>1
  <2> QED BY <1>3, <2>1, <2>2
<1>4. ASSUME NEW enabled \in BOOLEAN, GetServerList(s, enabled) PROVE Quiet(s)
  <2> DEFINE b == [r EXCEPT !.pc = "borrow", !.guessed = UsesGuess(s, enabled) /\ ~r.fellBack]
             d == NameOfDefaultDatabase(s)
  <2>1. f \in {b, Pinned(b, d)}
    BY <1>0, <1>4, Replaced DEF GetServerList
  <2>2. /\ DOMAIN b = SessionFields /\ b.tx = r.tx /\ b.auto = r.auto
        /\ b.managed = r.managed /\ b.marks = r.marks /\ b.sent = r.sent
        /\ b.pc = "borrow"
    BY <1>0 DEF SessionFields
  <2>3. Record
    <3> HIDE DEF b, d, r, f
    <3> QED BY <2>1, <2>2, PinnedFields
  <2> QED BY <1>4, <2>3 DEF GetServerList, Quiet
<1>5. ASSUME NEW err, AcquisitionFails(s, err) PROVE Quiet(s)
  <2>1. f = AfterFailure(r, err, TRUE, FALSE) /\ r.pc \in EmptyPcs
    BY <1>0, <1>5, Replaced DEF AcquisitionFails, EmptyPcs
  <2>2. Record
    BY <1>3, <2>1
  <2> QED BY <1>5, <2>2 DEF AcquisitionFails, world, Quiet
<1>6. ASSUME NEW c \in Conns, NEW ssr \in BOOLEAN, BorrowConnection(s, c, ssr) PROVE Quiet(s)
  <2>1. Silent /\ (UNCHANGED conns \/ conns' = [conns EXCEPT ![c].owner = s]) /\ r.pc \in EmptyPcs
    BY <1>6 DEF BorrowConnection, world, EmptyPcs
  <2>2. Record
    <3>1. CASE ss' = [ss EXCEPT ![s] = Finished(ss[s])]
      BY <1>0, <1>3, <2>1, <3>1, Replaced
    <3>2. CASE ss' = [ss EXCEPT ![s] = [ss[s] EXCEPT !.pc = "servers", !.guessed = FALSE, !.fellBack = TRUE]]
      BY <1>0, <3>2 DEF SessionFields
    <3>3. CASE ss' = [ss EXCEPT ![s].pc = "bookmarks", ![s].conn = c, ![s].guessed = FALSE, ![s].ssr = ssr]
      BY <1>0, <3>3 DEF SessionFields
    <3> QED BY <1>6, <3>1, <3>2, <3>3 DEF BorrowConnection
  <2> QED BY <2>1, <2>2 DEF Quiet
<1>7. CASE PreparationFails(s)
  <2>1. f = AfterFailure(r, "client", TRUE, FALSE) /\ r.pc \in CallPcs
    BY <1>0, <1>7, Replaced DEF PreparationFails, CallPcs
  <2>2. Record
    BY <1>3, <2>1
  <2> QED BY <1>1, <1>7, <2>1, <2>2 DEF PreparationFails, world, Quiet
<1>8. CASE GetBookmarks(s)
  <2>1. /\ f.tx = r.tx /\ f.auto = r.auto /\ f.managed = r.managed /\ f.marks = r.marks
        /\ f.sent = Current(s) /\ r.pc \in CallPcs
    BY <1>0, <1>8 DEF SessionFields, GetBookmarks, CallPcs
  <2> QED BY <1>1, <1>8, <2>1 DEF GetBookmarks, world, Quiet
<1>9. ASSUME NEW failure, WorkFails(s, failure) PROVE Quiet(s)
  <2>1. f = AfterFailure(r, failure, Alive(failure), FALSE) /\ r.pc \in CallPcs
    BY <1>0, <1>9, Replaced DEF WorkFails, CallPcs
  <2>2. Record
    BY <1>2, <1>3, <2>1
  <2> QED BY <1>1, <1>9, <2>1, <2>2 DEF WorkFails, world, Quiet
<1>10. ASSUME NEW failure, SendFails(s, failure) PROVE Quiet(s)
  <2> DEFINE g == [r EXCEPT !.attempt = 1, !.pc = "servers", !.conn = NoConn, !.sent = {},
                        !.fellBack = FALSE, !.ssr = TRUE]
  <2>1. r.pc \in CallPcs /\ f \in {g, AfterFailure(r, failure, Alive(failure), FALSE)}
    BY <1>0, <1>10, Replaced DEF SendFails, CallPcs
  <2>2. CASE f = AfterFailure(r, failure, Alive(failure), FALSE)
    <3>1. Record
      BY <1>2, <1>3, <2>1, <2>2
    <3> QED BY <1>1, <1>10, <2>1, <3>1 DEF SendFails, world, Quiet
  <2>3. CASE f = g
    <3>1. Record
      BY <1>0, <1>1, <2>1, <2>3 DEF SessionFields
    <3> QED BY <1>1, <1>10, <2>1, <3>1 DEF SendFails, world, Quiet
  <2> QED BY <2>1, <2>2, <2>3
<1>11. CASE WorkPanics(s) \/ GiveUp(s)
  <2>1. /\ Silent /\ f = Finished(r)
        /\ \/ r.pc \in CallPcs /\ Return(r.conn)
           \/ r.pc \in EmptyPcs /\ UNCHANGED conns
    BY <1>0, <1>11, Replaced DEF WorkPanics, GiveUp, CallPcs, EmptyPcs, world
  <2>2. Record
    BY <1>3, <2>1
  <2> QED BY <1>1, <2>1, <2>2 DEF Quiet
<1>12. CASE Work(s) \/ Continue(s) \/ CloseDone(s) \/ Call(s) \/ Close(s)
  <2>1. Silent /\ UNCHANGED conns
    BY <1>12 DEF Work, Continue, CloseDone, Call, Close, world
  <2>2. Record
    BY <1>0, <1>12 DEF SessionFields, Work, Continue, CloseDone, Call, Close
  <2> QED BY <2>1, <2>2 DEF Quiet
<1> QED BY <1>4, <1>5, <1>6, <1>7, <1>8, <1>9, <1>10, <1>11, <1>12 DEF QuietStep

\* What a commit leaves in the record of the session.
LEMMA CommitFields ==
  ASSUME LocalInv, NEW s \in Sessions, Commit(s)
  PROVE  /\ ss'[s].tx = ss[s].tx /\ ss'[s].auto = ss[s].auto /\ ss'[s].managed = ss[s].managed
         /\ ss'[s].pc # "send" /\ ss'[s].sent = {}
         /\ \E m \in SUBSET (ss[s].marks \cup {Bookmark(s)}) :
              ReplaceBookmarks(s, Bookmark(s), m) /\ ss'[s].marks = m
<1> DEFINE r == ss[s]  f == ss'[s]  g == Finished(r)
<1>1. DOMAIN ss = Sessions /\ DOMAIN r = SessionFields
  BY RecordOf
<1>2. /\ DOMAIN g = SessionFields /\ g.pc \in {"idle", "close"} /\ g.sent = {}
      /\ g.tx = r.tx /\ g.auto = r.auto /\ g.managed = r.managed
  BY <1>1, FinishedFields
<1>3. PICK m \in SUBSET (ss[s].marks \cup {Bookmark(s)}) :
        /\ ReplaceBookmarks(s, Bookmark(s), m)
        /\ ss' = [ss EXCEPT ![s] = [g EXCEPT !.marks = m, !.commits = @ + 1]]
  BY DEF Commit
<1>4. f = [g EXCEPT !.marks = m, !.commits = @ + 1]
  BY <1>1, <1>3, Replaced
<1> HIDE DEF g
<1>5. /\ f.pc = g.pc /\ f.sent = g.sent /\ f.marks = m
      /\ f.tx = g.tx /\ f.auto = g.auto /\ f.managed = g.managed
  BY <1>2, <1>4 DEF SessionFields
<1> QED BY <1>2, <1>3, <1>5

\* What a commit that fails leaves in it.
LEMMA CommitFailsFields ==
  ASSUME LocalInv, NEW s \in Sessions, NEW failure, NEW applied \in BOOLEAN,
         CommitFails(s, failure, applied)
  PROVE  /\ ss'[s].tx = ss[s].tx /\ ss'[s].auto = ss[s].auto /\ ss'[s].managed = ss[s].managed
         /\ ss'[s].pc # "send" /\ ss'[s].sent = {} /\ ss'[s].marks = ss[s].marks
<1> DEFINE r == ss[s]  f == ss'[s]  g == AfterFailure(r, failure, Alive(failure), TRUE)
<1>1. DOMAIN ss = Sessions /\ DOMAIN r = SessionFields
  BY RecordOf
<1>2. PICK committing \in BOOLEAN : committing
  OBVIOUS
<1>3. g = AfterFailure(r, failure, Alive(failure), committing)
  BY <1>2 DEF AfterFailure, OnFailure
<1>4. Alive(failure) \in BOOLEAN
  BY DEF Alive
<1>5. f = [g EXCEPT !.commits = IF applied THEN @ + 1 ELSE @]
  BY <1>1, Replaced DEF CommitFails
<1> HIDE DEF g, r, f
<1>6. /\ DOMAIN g = SessionFields /\ g.pc \in {"idle", "close", "retry"} /\ g.sent = {}
      /\ g.tx = r.tx /\ g.auto = r.auto /\ g.managed = r.managed /\ g.marks = r.marks
  BY <1>1, <1>3, <1>4, AfterFailureFields
<1>7. /\ f.pc = g.pc /\ f.sent = g.sent /\ f.marks = g.marks
      /\ f.tx = g.tx /\ f.auto = g.auto /\ f.managed = g.managed
  BY <1>5, <1>6 DEF SessionFields
<1> QED BY <1>6, <1>7 DEF f, r

OnlyResult(s) == DOMAIN res' = Sessions /\ \A t \in Sessions \ {s} : res'[t] = res[t]

\* The results of the other sessions are not touched.
LEMMA ResultFrame ==
  ASSUME ResultInv, NEW s \in Sessions, Only(s), OnlyResult(s), ResultOK(ss'[s], res'[s])
  PROVE  ResultInv'
BY DEF ResultInv, Only, OnlyResult

\* An auto-commit query that is finished runs its hook or keeps its error.
LEMMA FinishAutocommitResult ==
  ASSUME LocalInv, ResultInv, NEW s \in Sessions, NEW how \in {"sum", "err"}, FinishAutocommit(s, how)
  PROVE  OnlyResult(s) /\ ResultOK(ss'[s], res'[s])
<1> DEFINE q == res[s]  p == res'[s]
           ends == q.stream = "open" /\ how = "sum"
           consumed == q.hook /\ (ends \/ q.stream = "sum") /\ ~(ss[s].pc = "close" /\ q.err)
<1>1. DOMAIN ss = Sessions /\ DOMAIN ss[s] = SessionFields /\ LocalOK(ss[s]) /\ ResultOK(ss[s], q)
      /\ DOMAIN res = Sessions /\ DOMAIN q = ResultFields
  BY RecordOf DEF ResultInv, ResultOK
<1>2. ss'[s].auto = NoConn /\ ss'[s].tx = ss[s].tx /\ ss[s].auto # NoConn /\ ss[s].pc \in {"done", "close"}
  BY <1>1 DEF FinishAutocommit, SessionFields
<1>3. /\ OnlyResult(s) /\ DOMAIN p = ResultFields
      /\ p.stream = how /\ p.hook = (q.hook /\ ~consumed)
      /\ p.err = (IF ss[s].pc = "close" THEN q.err \/ how = "err" ELSE how = "err")
  BY <1>1 DEF FinishAutocommit, OnlyResult, ResultFields
<1>4. how = IF q.stream = "open" THEN how ELSE q.stream
  BY DEF FinishAutocommit
<1>5. ~(p.hook /\ ~p.err)
  BY <1>2, <1>3, <1>4
<1> HIDE DEF p
<1> QED BY <1>2, <1>3, <1>5 DEF ResultOK, Streams, p

\* The end of an explicit transaction leaves no result open.
LEMMA CloseTxResult ==
  ASSUME LocalInv, ResultInv, NEW s \in Sessions, ss[s].pc \in {"idle", "close"}, ss[s].tx # NoConn,
         NEW new, NEW stream \in {"sum", "err"}, NEW failed \in BOOLEAN, CloseTx(s, new, stream, failed)
  PROVE  OnlyResult(s) /\ ResultOK(ss'[s], res'[s])
<1> DEFINE q == res[s]  p == res'[s]
<1>1. DOMAIN ss = Sessions /\ DOMAIN ss[s] = SessionFields /\ LocalOK(ss[s]) /\ ResultOK(ss[s], q)
      /\ DOMAIN res = Sessions /\ DOMAIN q = ResultFields
  BY RecordOf DEF ResultInv, ResultOK
<1>2. ss[s].auto = NoConn
  BY <1>1 DEF LocalOK, ConnectionOK
<1>3. ss'[s].tx = NoConn /\ ss'[s].auto = NoConn
  BY <1>1, <1>2 DEF CloseTx, SessionFields
<1>4. /\ OnlyResult(s) /\ DOMAIN p = ResultFields /\ p.conn = q.conn /\ p.hook = q.hook
      /\ p.stream = (IF q.stream = "open" THEN stream ELSE q.stream)
      /\ p.err = (q.err \/ (failed /\ q.conn # NoConn))
  BY <1>1 DEF CloseTx, OnlyResult, ResultFields
<1>5. ~(p.hook /\ ~p.err)
  BY <1>1, <1>2, <1>4 DEF ResultOK
<1> HIDE DEF p
<1> QED BY <1>1, <1>3, <1>4, <1>5 DEF ResultOK, Streams, p

\* What is read from a result leaves it open or ends it.
LEMMA ReadResult ==
  ASSUME LocalInv, ResultInv, NEW s \in Sessions,
         ss'[s].tx = ss[s].tx, ss'[s].auto = ss[s].auto, ~res[s].err,
         NEW stream, stream \in {res[s].stream, "sum", "err"},
         NEW hook \in BOOLEAN, hook => res[s].hook,
         OnlyResult(s), DOMAIN res'[s] = ResultFields,
         res'[s].stream = stream, res'[s].conn = res[s].conn,
         res'[s].hook => hook
  PROVE  ResultOK(ss'[s], res'[s])
<1>1. ResultOK(ss[s], res[s])
  BY DEF ResultInv
<1> QED BY <1>1 DEF ResultOK, Streams

\* Send leaves the bookmarks alone; only a query has the connection as its own.
LEMMA SendFields ==
  ASSUME LocalInv, NEW s \in Sessions, Send(s)
  PROVE  /\ ss'[s].managed = ss[s].managed /\ ss'[s].marks = ss[s].marks /\ ss'[s].sent = ss[s].sent
         /\ ss'[s].pc # "send" /\ ss[s].conn # NoConn
         /\ IF ss[s].api = "run" THEN ss'[s].auto = ss[s].conn ELSE ss'[s].auto = NoConn
<1> DEFINE r == ss[s]  f == ss'[s]
           d == IF r.db \in {NoDb, Unnamed} THEN home ELSE r.db
           told == IF r.ssr THEN Pinned(r, d) ELSE r
           into == [told EXCEPT !.ran = @ \cup {d}, !.conn = NoConn, !.pc = "idle", !.api = "none",
                                !.attempt = 0, !.ssr = TRUE, !.fellBack = FALSE,
                                !.slipped = @ \/ (r.fellBack /\ r.db = NoDb /\ ~r.ssr)]
<1>1. /\ DOMAIN ss = Sessions /\ DOMAIN r = SessionFields /\ r.auto = NoConn /\ r.conn # NoConn
  BY RecordOf DEF Send, LocalOK, ConnectionOK, CallPcs
<1>2. f = CASE r.api = "begin" -> [into EXCEPT !.tx = r.conn]
            [] r.api = "run" -> [into EXCEPT !.auto = r.conn]
            [] OTHER -> [into EXCEPT !.conn = r.conn, !.pc = "work", !.api = r.api]
  BY <1>1, Replaced DEF Send
<1>3. /\ DOMAIN told = SessionFields /\ told.auto = NoConn
      /\ told.managed = r.managed /\ told.marks = r.marks /\ told.sent = r.sent
  <2> HIDE DEF d, r
  <2> QED BY <1>1, PinnedFields
<1> HIDE DEF d, told
<1>4. /\ DOMAIN into = SessionFields /\ into.auto = NoConn /\ into.pc = "idle"
      /\ into.managed = r.managed /\ into.marks = r.marks /\ into.sent = r.sent
  BY <1>3 DEF SessionFields
<1> HIDE DEF into
<1> QED BY <1>1, <1>2, <1>4 DEF SessionFields

\* The results of explicit transactions and queries that a step creates.
LEMMA SendResult ==
  ASSUME LocalInv, ResultInv, NEW s \in Sessions, Send(s)
  PROVE  OnlyResult(s) /\ ResultOK(ss'[s], res'[s])
<1> DEFINE r == ss[s]  f == ss'[s]
<1>1. DOMAIN res = Sessions
  BY DEF ResultInv
<1>5. r.conn # NoConn /\ IF r.api = "run" THEN f.auto = r.conn ELSE f.auto = NoConn
  BY SendFields
<1>6. /\ OnlyResult(s)
      /\ res'[s] = IF r.api # "run" THEN NoResult
                   ELSE [NoResult EXCEPT !.conn = r.conn, !.stream = "open", !.hook = TRUE]
  BY <1>1 DEF Send, OnlyResult
<1>7. /\ DOMAIN res'[s] = ResultFields
      /\ \/ r.api # "run" /\ res'[s].stream = "none" /\ res'[s].hook = FALSE
         \/ r.api = "run" /\ res'[s].stream = "open" /\ res'[s].conn = r.conn
  BY <1>6 DEF NoResult, ResultFields
<1> HIDE DEF r, f
<1> QED BY <1>1, <1>5, <1>6, <1>7 DEF ResultOK, Streams, f

\* Every step keeps what holds of the results.
LEMMA SessionResult ==
  ASSUME LocalInv, ResultInv, NEW s \in Sessions, Step(s) \/ Use(s)
  PROVE  OnlyResult(s) /\ ResultOK(ss'[s], res'[s])
<1> DEFINE r == ss[s]  f == ss'[s]  q == res[s]  p == res'[s]
           Goal == OnlyResult(s) /\ ResultOK(ss'[s], res'[s])
<1>0. /\ DOMAIN ss = Sessions /\ DOMAIN r = SessionFields /\ LocalOK(r)
      /\ DOMAIN res = Sessions /\ DOMAIN q = ResultFields /\ ResultOK(r, q) /\ q.stream \in Streams
  BY RecordOf DEF ResultInv, ResultOK
<1>1. ASSUME UNCHANGED res, f.tx = r.tx, f.auto = r.auto PROVE Goal
  BY <1>0, <1>1 DEF OnlyResult, ResultOK
<1>2. CASE QuietStep(s)
  BY <1>1, <1>2, QuietIsQuiet DEF Quiet
<1>3. ASSUME NEW run, NEW new, Hook(s, run, new) PROVE f.tx = r.tx /\ f.auto = r.auto
  BY <1>0, <1>3 DEF Hook, SessionFields
<1>4. CASE Step(s)
  <2>1. ASSUME NEW how \in {"sum", "err"}, FinishAutocommit(s, how) PROVE Goal
    BY <2>1, FinishAutocommitResult
  <2>2. CASE Send(s)
    BY <2>2, SendResult
  <2>3. CASE Commit(s)
    <3>1. f.tx = r.tx /\ f.auto = r.auto
      BY <2>3, CommitFields
    <3> QED BY <1>1, <2>3, <3>1 DEF Commit
  <2>4. ASSUME NEW failure, NEW applied \in BOOLEAN, CommitFails(s, failure, applied) PROVE Goal
    <3>1. f.tx = r.tx /\ f.auto = r.auto
      BY <2>4, CommitFailsFields
    <3> QED BY <1>1, <2>4, <3>1 DEF CommitFails
  <2>5. CASE TxRollback(s)
    BY <2>5, CloseTxResult DEF TxRollback, InTx
  <2> QED BY <1>2, <1>4, <2>1, <2>2, <2>3, <2>4, <2>5 DEF Step, QuietStep
<1>5. CASE Use(s)
  <2>1. CASE TxRun(s)
    <3>1. /\ UNCHANGED ss /\ r.tx # NoConn /\ OnlyResult(s)
          /\ p = [NoResult EXCEPT !.conn = r.tx, !.stream = "open"]
      BY <1>0, <2>1 DEF TxRun, InTx, OnlyResult
    <3>2. DOMAIN p = ResultFields /\ p.conn = r.tx /\ p.stream = "open" /\ p.hook = FALSE /\ r.auto = NoConn
      BY <1>0, <3>1 DEF NoResult, ResultFields, LocalOK, ConnectionOK
    <3> HIDE DEF p
    <3> QED BY <3>1, <3>2 DEF ResultOK, Streams, p
  <2>2. CASE TxRunFails(s) \/ TxCommit(s) \/ TxRollback(s)
    BY <2>2, CloseTxResult DEF TxRunFails, TxCommit, TxRollback, InTx
  <2>3. ASSUME NEW applied, TxCommitFails(s, applied) PROVE Goal
    BY <2>3, CloseTxResult DEF TxCommitFails, InTx
  <2>4. CASE LastBookmarks(s)
    <3>1. f.tx = r.tx /\ f.auto = r.auto /\ UNCHANGED res
      BY <1>0, <2>4 DEF LastBookmarks, SessionFields
    <3> QED BY <1>1, <3>1
  <2>5. ASSUME NEW got \in {"rec", "sum", "err"}, Next(s, got) PROVE Goal
    <3> DEFINE seen == IF q.peeked = "no" THEN got ELSE q.peeked
               stream == IF q.peeked = "no" THEN FetchedStream(s, got) ELSE q.stream
    <3>1. CASE CloseTx(s, 0, "err", TRUE) /\ r.pc = "idle" /\ r.tx # NoConn
      BY <3>1, CloseTxResult
    <3>2. ASSUME /\ res' = [res EXCEPT ![s].stream = stream, ![s].peeked = "no",
                                    ![s].summary = (seen = "sum"), ![s].err = (seen = "err"),
                                    ![s].hook = @ /\ seen # "sum"],
                 f.tx = r.tx, f.auto = r.auto, ~q.err
          PROVE  Goal
      <4>1. /\ OnlyResult(s) /\ DOMAIN p = ResultFields /\ p.stream = stream /\ p.conn = q.conn
            /\ p.hook = (q.hook /\ seen # "sum")
        BY <1>0, <3>2 DEF OnlyResult, ResultFields
      <4>2. stream \in {q.stream, "sum", "err"}
        BY DEF FetchedStream
      <4> HIDE DEF stream, seen
      <4> QED BY <3>2, <4>1, <4>2, ReadResult
    <3>3. InUse(s) /\ ~q.err
      BY <2>5 DEF Next
    <3>4. \/ CloseTx(s, 0, "err", TRUE) /\ r.tx # NoConn
          \/ /\ res' = [res EXCEPT ![s].stream = stream, ![s].peeked = "no",
                                    ![s].summary = (seen = "sum"), ![s].err = (seen = "err"),
                                    ![s].hook = @ /\ seen # "sum"]
             /\ \E run, new : Hook(s, run, new)
      BY <2>5 DEF Next
    <3> QED BY <1>3, <3>1, <3>2, <3>3, <3>4 DEF InUse
  <2>6. ASSUME NEW got \in {"rec", "sum", "err"}, Peek(s, got) PROVE Goal
    <3>1. /\ OnlyResult(s) /\ DOMAIN p = ResultFields /\ p.stream = FetchedStream(s, got)
          /\ p.conn = q.conn /\ p.hook = q.hook /\ UNCHANGED ss /\ ~q.err
      BY <1>0, <2>6 DEF Peek, OnlyResult, ResultFields
    <3>2. FetchedStream(s, got) \in {q.stream, "sum", "err"}
      BY DEF FetchedStream
    <3>3. ResultOK(r, p)
      BY <1>0, <3>1, <3>2 DEF ResultOK, Streams
    <3> QED BY <3>1, <3>3
  <2>7. ASSUME NEW got \in {"sum", "err"}, NEW asksForOne \in BOOLEAN, Consume(s, got, asksForOne)
        PROVE  Goal
    <3>1. /\ OnlyResult(s) /\ DOMAIN p = ResultFields /\ p.stream = got
          /\ p.conn = q.conn /\ (p.hook => q.hook) /\ ~q.err
      BY <1>0, <2>7 DEF Consume, OnlyResult, ResultFields
    <3>2. f.tx = r.tx /\ f.auto = r.auto
      BY <1>3, <2>7 DEF Consume
    <3>3. ResultOK(f, p)
      BY <1>0, <3>1, <3>2 DEF ResultOK, Streams
    <3> QED BY <3>1, <3>3
  <2> QED BY <1>2, <1>5, <2>1, <2>2, <2>3, <2>4, <2>5, <2>6, <2>7 DEF Use, QuietStep
<1> QED BY <1>4, <1>5

-----------------------------------------------------------------------------
\* Bookmarks: transactions are only added, and a bookmark covers more and more.

Grows == /\ after' \in Seq(SUBSET Nat) /\ Len(after) <= Len(after')
         /\ \A n \in DOMAIN after : n \in DOMAIN after' /\ after'[n] = after[n]

\* Membership in Cover.
LEMMA CoverIs == \A a, m, x : x \in Cover(a, m) <=> x \in m \/ \E n \in m : x \in a[n]
BY DEF Cover

\* What bookmarks cover does not change when transactions are added.
LEMMA CoverGrows ==
  ASSUME Grows, NEW m, m \subseteq DOMAIN after
  PROVE  Cover(after', m) = Cover(after, m)
<1>1. \A n \in m : after'[n] = after[n]
  BY DEF Grows
<1> QED BY <1>1 DEF Cover

\* Nothing added.
LEMMA SameGrows == ASSUME after \in Seq(SUBSET Nat), UNCHANGED after PROVE Grows
BY DEF Grows

\* A commit adds one transaction, after all that the session sent.
LEMMA CommittedGrows ==
  ASSUME after \in Seq(SUBSET Nat), NEW s \in Sessions, ss[s].sent \subseteq DOMAIN after, Committed(s)
  PROVE  /\ Grows /\ Len(after') = Bookmark(s) /\ Bookmark(s) \in DOMAIN after' /\ Bookmark(s) # 0
         /\ after'[Bookmark(s)] = Cover(after, ss[s].sent)
<1> DEFINE x == Cover(after, ss[s].sent)
<1>1. after' = Append(after, x)
  BY DEF Committed, Covered, Cover
<1>2. x \in SUBSET Nat
  <2>1. ASSUME NEW y \in x PROVE y \in Nat
    <3>1. y \in ss[s].sent \/ \E n \in ss[s].sent : y \in after[n]
      BY CoverIs
    <3>2. DOMAIN after = 1 .. Len(after) /\ Len(after) \in Nat
      OBVIOUS
    <3> QED BY <3>1, <3>2
  <2> QED BY <2>1
<1> HIDE DEF x
<1> QED BY <1>1, <1>2 DEF Grows, Bookmark, x

\* The manager forgets what the transaction of the new bookmark came after, nothing else.
LEMMA ReplaceKeeps ==
  ASSUME BookmarkInv, NEW s \in Sessions, Grows, NEW new \in 0 .. Len(after'),
         new # 0 => Cover(after, ss[s].sent) \subseteq after'[new],
         NEW m, ReplaceBookmarks(s, new, m)
  PROVE  /\ mgr' \subseteq DOMAIN after' /\ Cover(after, mgr) \subseteq Cover(after', mgr')
         /\ m \subseteq DOMAIN after'
         /\ new = 0 => m = ss[s].marks
         /\ new # 0 => IF ss[s].managed THEN new \in mgr' ELSE m = {new}
<1>1. /\ after \in Seq(SUBSET Nat) /\ mgr \subseteq DOMAIN after /\ ss[s].marks \subseteq DOMAIN after
      /\ DOMAIN after \subseteq DOMAIN after'
  BY DEF BookmarkInv, TypesOf, Grows
<1>2. new # 0 => new \in DOMAIN after'
  BY DEF Grows
<1>3. m \subseteq DOMAIN after' /\ (new = 0 => m = ss[s].marks)
  BY <1>1, <1>2 DEF ReplaceBookmarks
<1>4. CASE UNCHANGED mgr
  <2>1. Cover(after', mgr') = Cover(after, mgr)
    BY <1>1, <1>4, CoverGrows
  <2> QED BY <1>1, <1>3, <1>4, <2>1 DEF ReplaceBookmarks, Updated
<1>5. CASE new # 0 /\ ss[s].managed /\ mgr' = Updated(ss[s].sent, new)
  <2>1. mgr' = (mgr \ ss[s].sent) \cup {new}
    BY <1>5 DEF Updated
  <2>2. ASSUME NEW x \in Cover(after, mgr) PROVE x \in Cover(after', mgr')
    <3>1. PICK n \in mgr : x = n \/ x \in after[n]
      BY CoverIs
    <3>2. CASE n \in ss[s].sent
      <4>1. x \in Cover(after, ss[s].sent)
        BY <3>1, <3>2, CoverIs
      <4>2. x \in after'[new] /\ new \in mgr'
        BY <1>5, <2>1, <4>1
      <4> QED BY <4>2, CoverIs
    <3>3. CASE n \notin ss[s].sent
      <4>1. n \in mgr' /\ after'[n] = after[n]
        BY <1>1, <2>1, <3>3 DEF Grows
      <4> QED BY <3>1, <4>1, CoverIs
    <3> QED BY <3>2, <3>3
  <2> QED BY <1>1, <1>2, <1>3, <1>5, <2>1, <2>2
<1> QED BY <1>4, <1>5 DEF ReplaceBookmarks

\* Only the query of a session has a bookmark on its connection.
LEMMA HeldBookmark ==
  ASSUME SessionInv, NEW s \in Sessions, NEW c \in Held(s), conns[c].bookmark # 0
  PROVE  ss[s].auto = c
<1>1. c \in Conns /\ conns[c].owner = s
  BY HeldOne DEF SessionInv, OwnerInv
<1>2. PICK t \in Sessions : ss[t].auto = c
  BY <1>1 DEF SessionInv, BookmarkInv
<1>3. c # NoConn
  BY DEF Held
<1>4. conns[c].owner = t
  BY <1>1, <1>2, <1>3 DEF Held, SessionInv, OwnerInv
<1> QED BY <1>1, <1>2, <1>4

\* What a step of s may do to the bookmarks of the others.
MarksStep(s) ==
  /\ Grows /\ mgr' \subseteq DOMAIN after' /\ Cover(after, mgr) \subseteq Cover(after', mgr')
  /\ DOMAIN own' = Sessions /\ \A t \in Sessions \ {s} : own'[t] = own[t]
  /\ \A c \in Conns \ Held(s) : conns'[c].bookmark = conns[c].bookmark
  /\ \A c \in Held(s) : /\ conns'[c].bookmark \in 0 .. Len(after')
                        /\ conns'[c].bookmark # 0 => ss'[s].auto = c

\* Such a step keeps BookmarkInv if it leaves its own session in order.
LEMMA MarksFrame ==
  ASSUME SessionInv, NEW s \in Sessions, Only(s), OnlyResult(s), MarksStep(s),
         TypesOf(s)', QueryOf(s)', OwnOf(s)'
  PROVE  BookmarkInv'
<1>1. /\ after \in Seq(SUBSET Nat) /\ mgr \subseteq DOMAIN after
      /\ after' \in Seq(SUBSET Nat) /\ mgr' \subseteq DOMAIN after' /\ DOMAIN own' = Sessions
      /\ Len(after) <= Len(after') /\ Len(after) \in Nat /\ Len(after') \in Nat
      /\ DOMAIN after \subseteq DOMAIN after' /\ Grows
  BY DEF SessionInv, BookmarkInv, MarksStep, Grows
<1>2. ASSUME NEW c \in Conns
      PROVE  /\ conns'[c].bookmark \in 0 .. Len(after')
             /\ conns'[c].bookmark # 0 => \E t \in Sessions : ss'[t].auto = c
  <2>1. CASE c \in Held(s)
    BY <2>1 DEF MarksStep
  <2>2. CASE c \notin Held(s)
    <3>1. conns'[c].bookmark = conns[c].bookmark /\ conns[c].bookmark \in 0 .. Len(after)
      BY <2>2 DEF MarksStep, SessionInv, BookmarkInv
    <3>2. ASSUME conns[c].bookmark # 0 PROVE \E t \in Sessions : ss'[t].auto = c
      <4>1. PICK t \in Sessions : ss[t].auto = c
        BY <3>2 DEF SessionInv, BookmarkInv
      <4>2. c # NoConn
        BY ConstantsFit DEF ConstantsFit
      <4>3. t # s
        BY <2>2, <4>1, <4>2 DEF Held
      <4> QED BY <4>1, <4>3 DEF Only
    <3> QED BY <1>1, <3>1, <3>2
  <2> QED BY <2>1, <2>2
<1>3. ASSUME NEW t \in Sessions, t # s PROVE (TypesOf(t) /\ QueryOf(t) /\ OwnOf(t))'
  <2>1. /\ ss'[t] = ss[t] /\ res'[t] = res[t] /\ own'[t] = own[t]
        /\ TypesOf(t) /\ QueryOf(t) /\ OwnOf(t)
    BY <1>3 DEF Only, OnlyResult, MarksStep, SessionInv, BookmarkInv
  <2>2. TypesOf(t)'
    BY <1>1, <2>1 DEF TypesOf
  <2>3. ASSUME ss[t].auto # NoConn
        PROVE  /\ conns'[ss[t].auto].bookmark = conns[ss[t].auto].bookmark
               /\ conns[ss[t].auto].bookmark \in 0 .. Len(after)
    <3> DEFINE c == ss[t].auto
    <3>1. c \in Held(t) /\ c \in Conns
      BY <2>3, HeldAt, HeldOne DEF SessionInv
    <3>2. c \notin Held(s)
      BY <1>3, <3>1 DEF SessionInv, OwnerInv
    <3> QED BY <3>1, <3>2 DEF MarksStep, SessionInv, BookmarkInv
  <2>4. /\ Cover(after', ss[t].marks) = Cover(after, ss[t].marks)
        /\ Cover(after', ss[t].sent) = Cover(after, ss[t].sent)
    BY <1>1, <2>1, CoverGrows DEF TypesOf
  <2>5. QueryOf(t)'
    <3>1. \A n \in 0 .. Len(after) : n # 0 => after'[n] = after[n]
      BY <1>1 DEF Grows
    <3> QED BY <2>1, <2>3, <2>4, <3>1 DEF QueryOf
  <2>6. OwnOf(t)'
    <3>1. Cover(after, mgr) \subseteq Cover(after', mgr')
      BY DEF MarksStep
    <3> QED BY <2>1, <2>3, <2>4, <3>1 DEF OwnOf
  <2> QED BY <2>2, <2>5, <2>6
<1>4. \A t \in Sessions : (TypesOf(t) /\ QueryOf(t) /\ OwnOf(t))'
  BY <1>3
<1> QED BY <1>1, <1>2, <1>4 DEF BookmarkInv

\* Types that the steps keep using.
LEMMA MarksOf ==
  ASSUME SessionInv, NEW s \in Sessions
  PROVE  /\ after \in Seq(SUBSET Nat) /\ mgr \subseteq DOMAIN after /\ DOMAIN own = Sessions
         /\ TypesOf(s) /\ QueryOf(s) /\ OwnOf(s)
         /\ \A c \in Conns : DOMAIN conns[c] = ConnFields /\ conns[c].bookmark \in 0 .. Len(after)
         /\ DOMAIN conns = Conns /\ Held(s) \subseteq Conns /\ Len(after) \in Nat
         /\ DOMAIN ss = Sessions /\ DOMAIN ss[s] = SessionFields /\ LocalOK(ss[s])
         /\ DOMAIN res = Sessions /\ DOMAIN res[s] = ResultFields /\ ResultOK(ss[s], res[s])
<1>1. Held(s) \subseteq Conns
  BY HeldOne DEF SessionInv
<1> QED BY <1>1, RecordOf DEF SessionInv, BookmarkInv, OwnerInv, ResultInv, ResultOK

\* A connection that is returned loses its bookmark, the others keep theirs.
LEMMA ReturnMarks ==
  ASSUME SessionInv, NEW s \in Sessions, NEW c \in Held(s), Return(c)
  PROVE  /\ \A x \in Conns \ Held(s) : conns'[x].bookmark = conns[x].bookmark
         /\ \A x \in Held(s) : conns'[x].bookmark = 0
<1>1. Held(s) = {c} /\ c \in Conns
  BY HeldOne DEF SessionInv
<1> QED BY <1>1, MarksOf DEF Return, FreeConn

\* A quiet step sends at most what the session and its manager have.
LEMMA QuietMarks ==
  ASSUME SessionInv, NEW s \in Sessions, Quiet(s)
  PROVE  MarksStep(s) /\ TypesOf(s)' /\ QueryOf(s)' /\ OwnOf(s)'
<1> DEFINE r == ss[s]  f == ss'[s]
<1>1. /\ after \in Seq(SUBSET Nat) /\ mgr \subseteq DOMAIN after /\ DOMAIN own = Sessions
      /\ TypesOf(s) /\ QueryOf(s) /\ OwnOf(s) /\ LocalOK(r) /\ DOMAIN conns = Conns
      /\ \A c \in Conns : DOMAIN conns[c] = ConnFields /\ conns[c].bookmark \in 0 .. Len(after)
      /\ Held(s) \subseteq Conns
  BY MarksOf
<1>2. UNCHANGED <<res, mgr, after, own>> /\ Grows
  BY <1>1, SameGrows DEF Quiet
<1>3. Current(s) \subseteq DOMAIN after
  BY <1>1 DEF Current, TypesOf
<1>4. TypesOf(s)'
  BY <1>1, <1>2, <1>3 DEF TypesOf, Quiet
<1>5. /\ \A c \in Conns \ Held(s) : conns'[c].bookmark = conns[c].bookmark
      /\ \A c \in Held(s) : conns'[c].bookmark \in {0, conns[c].bookmark}
      /\ r.auto # NoConn => conns'[r.auto].bookmark = conns[r.auto].bookmark
  <2>1. CASE UNCHANGED conns
    BY <2>1
  <2>2. CASE r.conn # NoConn /\ Return(r.conn)
    <3>1. r.auto = NoConn
      BY <1>1, <2>2 DEF LocalOK, ConnectionOK
    <3>2. r.conn \in Held(s)
      BY <2>2 DEF Held
    <3> QED BY <2>2, <3>1, <3>2, ReturnMarks
  <2>3. ASSUME NEW c \in Conns, conns' = [conns EXCEPT ![c].owner = s]
        PROVE  \A x \in Conns : conns'[x].bookmark = conns[x].bookmark
    BY <1>1, <2>3 DEF ConnFields
  <2>4. r.auto # NoConn => r.auto \in Conns
    BY <1>1 DEF LocalOK, SessionType
  <2> QED BY <1>1, <2>1, <2>2, <2>3, <2>4 DEF Quiet
<1>6. MarksStep(s)
  <2>1. \A c \in Held(s) : conns'[c].bookmark # 0 => f.auto = c
    BY <1>5, HeldBookmark DEF Quiet
  <2>2. \A c \in Held(s) : conns'[c].bookmark \in 0 .. Len(after')
    BY <1>1, <1>2, <1>5
  <2> QED BY <1>1, <1>2, <1>5, <2>1, <2>2 DEF MarksStep
<1>7. f.auto = r.auto /\ (r.auto # NoConn => f.sent = r.sent)
  BY DEF Quiet
<1>8. QueryOf(s)'
  BY <1>1, <1>2, <1>5, <1>7 DEF QueryOf
<1>9. OwnOf(s)'
  <2>1. ASSUME own[s] # 0, f.pc = "send" PROVE own[s] \in Cover(after, f.sent)
    <3>1. f.sent = r.marks \cup IF r.managed THEN mgr ELSE {}
      BY <2>1 DEF Quiet, Current
    <3>2. own[s] \in Cover(after, r.marks) \/ (r.managed /\ own[s] \in Cover(after, mgr))
      BY <1>1, <2>1 DEF OwnOf
    <3> QED BY <3>1, <3>2, CoverIs
  <2>2. f.managed = r.managed /\ f.marks = r.marks
    BY DEF Quiet
  <2> QED BY <1>1, <1>2, <1>5, <1>7, <2>1, <2>2 DEF OwnOf
<1> QED BY <1>4, <1>6, <1>8, <1>9

\* A transaction is begun: what it was begun with covers the session's last one.
LEMMA SendMarks ==
  ASSUME SessionInv, NEW s \in Sessions, Send(s)
  PROVE  MarksStep(s) /\ TypesOf(s)' /\ QueryOf(s)' /\ OwnOf(s)'
<1> DEFINE r == ss[s]  f == ss'[s]
<1>1. /\ after \in Seq(SUBSET Nat) /\ mgr \subseteq DOMAIN after /\ DOMAIN own = Sessions
      /\ TypesOf(s) /\ OwnOf(s) /\ LocalOK(r) /\ DOMAIN conns = Conns
      /\ \A c \in Conns : conns[c].bookmark \in 0 .. Len(after)
      /\ Held(s) \subseteq Conns /\ DOMAIN res = Sessions
  BY MarksOf
<1>2. UNCHANGED <<conns, mgr, after, own>> /\ Grows /\ r.pc = "send"
  BY <1>1, SameGrows DEF Send
<1>3. /\ f.managed = r.managed /\ f.marks = r.marks /\ f.sent = r.sent /\ f.pc # "send"
      /\ IF r.api = "run" THEN f.auto = r.conn ELSE f.auto = NoConn
  BY SendFields DEF SessionInv
<1>4. r.conn \in Held(s) /\ r.auto = NoConn
  BY <1>1, <1>2, HeldAt DEF SessionInv, LocalOK, ConnectionOK, CallPcs
<1>5. \A c \in Held(s) : conns[c].bookmark = 0
  <2>1. \A c \in Held(s) : c # NoConn
    BY DEF Held
  <2> QED BY <1>4, <2>1, HeldBookmark
<1>6. r.api = "run" => res'[s].stream = "open"
  BY <1>1 DEF Send, NoResult
<1>7. TypesOf(s)'
  BY <1>1, <1>2, <1>3 DEF TypesOf
<1>8. MarksStep(s)
  BY <1>1, <1>2, <1>5 DEF MarksStep
<1>9. QueryOf(s)'
  BY <1>2, <1>3, <1>4, <1>5, <1>6 DEF QueryOf
<1>10. OwnOf(s)'
  BY <1>1, <1>2, <1>3 DEF OwnOf
<1> QED BY <1>7, <1>8, <1>9, <1>10

\* A transaction that the session is told to be committed: the session or its manager
\* has the bookmark.
LEMMA CommitMarks ==
  ASSUME SessionInv, NEW s \in Sessions, NEW c \in Held(s), Return(c),
         Committed(s), own' = [own EXCEPT ![s] = Bookmark(s)],
         ss'[s].managed = ss[s].managed, ss'[s].auto = NoConn, ss'[s].pc # "send", ss'[s].sent = {},
         ReplaceBookmarks(s, Bookmark(s), ss'[s].marks)
  PROVE  MarksStep(s) /\ TypesOf(s)' /\ QueryOf(s)' /\ OwnOf(s)'
<1> DEFINE r == ss[s]  f == ss'[s]  new == Bookmark(s)
<1>1. after \in Seq(SUBSET Nat) /\ DOMAIN own = Sessions /\ TypesOf(s)
  BY MarksOf
<1>2. /\ Grows /\ Len(after') = new /\ new \in DOMAIN after' /\ new # 0
      /\ after'[new] = Cover(after, r.sent)
  BY <1>1, CommittedGrows DEF TypesOf
<1>3. Len(after') \in Nat
  BY <1>2 DEF Grows
<1> HIDE DEF new
<1>4. /\ mgr' \subseteq DOMAIN after' /\ Cover(after, mgr) \subseteq Cover(after', mgr')
      /\ f.marks \subseteq DOMAIN after' /\ IF r.managed THEN new \in mgr' ELSE f.marks = {new}
  <2>1. BookmarkInv /\ new \in 0 .. Len(after') /\ ReplaceBookmarks(s, new, f.marks)
    BY <1>2, <1>3 DEF SessionInv, new
  <2> QED BY <1>2, <2>1, ReplaceKeeps
<1>5. /\ \A x \in Conns \ Held(s) : conns'[x].bookmark = conns[x].bookmark
      /\ \A x \in Held(s) : conns'[x].bookmark = 0
  BY ReturnMarks
<1>6. own'[s] = new /\ DOMAIN own' = Sessions /\ \A t \in Sessions \ {s} : own'[t] = own[t]
  BY <1>1 DEF new
<1>7. MarksStep(s)
  BY <1>2, <1>3, <1>4, <1>5, <1>6 DEF MarksStep
<1>8. TypesOf(s)'
  BY <1>2, <1>3, <1>4, <1>6 DEF TypesOf
<1>9. QueryOf(s)'
  BY DEF QueryOf
<1>10. OwnOf(s)'
  BY <1>4, <1>6, CoverIs DEF OwnOf
<1> QED BY <1>7, <1>8, <1>9, <1>10

\* A transaction ends without a bookmark for the session, committed or not.
LEMMA UntoldMarks ==
  ASSUME SessionInv, NEW s \in Sessions, NEW c \in Held(s), Return(c), UNCHANGED <<mgr, own>>,
         Committed(s) \/ UNCHANGED after, ss'[s].marks = ss[s].marks, ss'[s].sent = {},
         ss'[s].managed = ss[s].managed, ss'[s].auto = NoConn, ss'[s].pc # "send"
  PROVE  MarksStep(s) /\ TypesOf(s)' /\ QueryOf(s)' /\ OwnOf(s)'
<1> DEFINE r == ss[s]  f == ss'[s]
<1>1. /\ after \in Seq(SUBSET Nat) /\ mgr \subseteq DOMAIN after /\ DOMAIN own = Sessions
      /\ TypesOf(s) /\ OwnOf(s) /\ Len(after) \in Nat
  BY MarksOf
<1>2. Grows
  BY <1>1, CommittedGrows, SameGrows DEF TypesOf
<1>3. Len(after') \in Nat /\ DOMAIN after \subseteq DOMAIN after' /\ Len(after) <= Len(after')
  BY <1>2 DEF Grows
<1>4. /\ \A x \in Conns \ Held(s) : conns'[x].bookmark = conns[x].bookmark
      /\ \A x \in Held(s) : conns'[x].bookmark = 0
  BY ReturnMarks
<1>5. Cover(after', mgr) = Cover(after, mgr) /\ Cover(after', r.marks) = Cover(after, r.marks)
  BY <1>1, <1>2, CoverGrows DEF TypesOf
<1>6. MarksStep(s)
  BY <1>1, <1>2, <1>3, <1>4, <1>5 DEF MarksStep
<1>7. TypesOf(s)'
  BY <1>1, <1>3 DEF TypesOf
<1>8. QueryOf(s)'
  BY DEF QueryOf
<1>9. OwnOf(s)'
  BY <1>1, <1>5 DEF OwnOf
<1> QED BY <1>6, <1>7, <1>8, <1>9

\* The end of an auto-commit query, with or without its hook.
LEMMA FinishAutocommitMarks ==
  ASSUME SessionInv, NEW s \in Sessions, NEW how \in {"sum", "err"}, FinishAutocommit(s, how)
  PROVE  MarksStep(s) /\ TypesOf(s)' /\ QueryOf(s)' /\ OwnOf(s)'
<1> DEFINE r == ss[s]  f == ss'[s]  c == r.auto  q == res[s]
           ends == q.stream = "open" /\ how = "sum"
           new == IF ends THEN Bookmark(s) ELSE conns[c].bookmark
           consumed == q.hook /\ (ends \/ q.stream = "sum") /\ ~(r.pc = "close" /\ q.err)
<1>1. /\ after \in Seq(SUBSET Nat) /\ mgr \subseteq DOMAIN after /\ DOMAIN own = Sessions
      /\ TypesOf(s) /\ QueryOf(s) /\ OwnOf(s) /\ Len(after) \in Nat
      /\ DOMAIN ss = Sessions /\ DOMAIN r = SessionFields
      /\ \A x \in Conns : conns[x].bookmark \in 0 .. Len(after)
  BY MarksOf
<1>2. c # NoConn /\ c \in Held(s) /\ c \in Conns /\ Return(c)
  BY HeldAt, HeldOne DEF FinishAutocommit, SessionInv
<1>3. /\ f.auto = NoConn /\ f.sent = {} /\ f.managed = r.managed
      /\ f.pc # "send"
  BY <1>1 DEF FinishAutocommit, SessionFields
<1>4. IF ends THEN Committed(s) ELSE UNCHANGED after
  BY DEF FinishAutocommit
<1>5. CASE ~consumed
  <2>1. f.marks = r.marks /\ UNCHANGED <<mgr, own>>
    BY <1>1, <1>5 DEF FinishAutocommit, SessionFields
  <2> QED BY <1>2, <1>3, <1>4, <2>1, UntoldMarks
<1>6. CASE consumed
  <2>1. ReplaceBookmarks(s, new, f.marks)
    <3>1. PICK m : /\ ReplaceBookmarks(s, new, m)
                   /\ ss' = [ss EXCEPT ![s].auto = NoConn, ![s].sent = {},
                                       ![s].pc = IF r.pc = "close" THEN "close" ELSE "servers",
                                       ![s].marks = m]
      BY <1>6 DEF FinishAutocommit
    <3>2. f.marks = m
      BY <1>1, <3>1 DEF SessionFields
    <3> QED BY <3>1, <3>2
  <2>2. own' = [own EXCEPT ![s] = IF new = 0 THEN @ ELSE new]
    BY <1>6 DEF FinishAutocommit
  <2>3. CASE ends
    <3>1. new = Bookmark(s) /\ new # 0 /\ Committed(s)
      BY <1>1, <1>4, <2>3, CommittedGrows DEF TypesOf
    <3>2. own' = [own EXCEPT ![s] = Bookmark(s)]
      BY <2>2, <3>1
    <3> QED BY <1>2, <1>3, <2>1, <3>1, <3>2, CommitMarks
  <2>4. CASE ~ends
    <3>1. new = conns[c].bookmark /\ new # 0 /\ new \in DOMAIN after /\ UNCHANGED after /\ Grows
      BY <1>1, <1>2, <1>4, <1>6, <2>4, SameGrows DEF QueryOf
    <3>2. Cover(after, r.sent) \subseteq after[new]
      BY <1>1, <1>2, <3>1 DEF QueryOf
    <3> HIDE DEF new
    <3>3. /\ mgr' \subseteq DOMAIN after' /\ Cover(after, mgr) \subseteq Cover(after', mgr')
          /\ f.marks \subseteq DOMAIN after' /\ IF r.managed THEN new \in mgr' ELSE f.marks = {new}
      <4>1. BookmarkInv /\ new \in 0 .. Len(after')
        BY <1>1, <3>1 DEF SessionInv
      <4> QED BY <2>1, <3>1, <3>2, <4>1, ReplaceKeeps
    <3>4. /\ \A x \in Conns \ Held(s) : conns'[x].bookmark = conns[x].bookmark
          /\ \A x \in Held(s) : conns'[x].bookmark = 0
      BY <1>2, ReturnMarks
    <3>5. own'[s] = new /\ DOMAIN own' = Sessions /\ \A t \in Sessions \ {s} : own'[t] = own[t]
      BY <1>1, <2>2, <3>1
    <3>6. MarksStep(s)
      BY <1>1, <3>1, <3>3, <3>4, <3>5 DEF MarksStep
    <3>7. TypesOf(s)'
      BY <1>1, <1>3, <3>1, <3>3, <3>5 DEF TypesOf
    <3>8. QueryOf(s)'
      BY <1>3 DEF QueryOf
    <3>9. OwnOf(s)'
      BY <1>3, <3>3, <3>5, CoverIs DEF OwnOf
    <3> QED BY <3>6, <3>7, <3>8, <3>9
  <2> QED BY <2>3, <2>4
<1> QED BY <1>5, <1>6

\* What the end of an explicit transaction leaves in the record of the session.
LEMMA CloseTxFields ==
  ASSUME SessionInv, NEW s \in Sessions, ss[s].pc \in {"idle", "close"}, ss[s].tx # NoConn,
         NEW new, NEW stream, NEW failed, CloseTx(s, new, stream, failed)
  PROVE  /\ ss[s].tx \in Held(s) /\ Return(ss[s].tx)
         /\ ss'[s].managed = ss[s].managed /\ ss'[s].auto = NoConn /\ ss'[s].pc # "send"
         /\ ss'[s].sent = {} /\ ReplaceBookmarks(s, new, ss'[s].marks)
<1>1. DOMAIN ss = Sessions /\ DOMAIN ss[s] = SessionFields /\ ss[s].auto = NoConn
  BY RecordOf DEF SessionInv, LocalOK, ConnectionOK
<1>2. PICK m : /\ ReplaceBookmarks(s, new, m)
               /\ ss' = [ss EXCEPT ![s].tx = NoConn, ![s].sent = {}, ![s].marks = m]
  BY DEF CloseTx
<1>3. /\ ss'[s].managed = ss[s].managed /\ ss'[s].auto = NoConn /\ ss'[s].pc = ss[s].pc
      /\ ss'[s].sent = {} /\ ss'[s].marks = m
  BY <1>1, <1>2 DEF SessionFields
<1> QED BY <1>2, <1>3, HeldAt DEF CloseTx, SessionInv

\* An end without a bookmark.
LEMMA CloseTxMarks ==
  ASSUME SessionInv, NEW s \in Sessions, ss[s].pc \in {"idle", "close"}, ss[s].tx # NoConn,
         NEW stream, NEW failed, CloseTx(s, 0, stream, failed),
         Committed(s) \/ UNCHANGED after, UNCHANGED own
  PROVE  MarksStep(s) /\ TypesOf(s)' /\ QueryOf(s)' /\ OwnOf(s)'
<1>1. /\ ss[s].tx \in Held(s) /\ Return(ss[s].tx)
      /\ ss'[s].managed = ss[s].managed /\ ss'[s].auto = NoConn /\ ss'[s].pc # "send"
      /\ ss'[s].sent = {} /\ ReplaceBookmarks(s, 0, ss'[s].marks)
  BY CloseTxFields
<1>2. ss'[s].marks = ss[s].marks /\ UNCHANGED mgr
  BY <1>1 DEF ReplaceBookmarks
<1> QED BY <1>1, <1>2, UntoldMarks

\* What a read does to the connections and the transactions.
FetchDone(s, stream) ==
  /\ Grows
  /\ \A c \in Conns \ Held(s) : conns'[c].bookmark = conns[c].bookmark
  /\ \A c \in Held(s) : /\ conns'[c].bookmark \in 0 .. Len(after')
                        /\ conns'[c].bookmark # 0 => ss[s].auto = c
  /\ ss[s].auto # NoConn =>
       LET n == conns'[ss[s].auto].bookmark
       IN  /\ stream = "sum" <=> n # 0
           /\ n # 0 => Cover(after', ss[s].sent) \subseteq after'[n]
           /\ conns[ss[s].auto].bookmark \in {0, n}

\* Nothing was read.
LEMMA NothingFetched ==
  ASSUME SessionInv, NEW s \in Sessions, UNCHANGED after,
         \A c \in Conns : conns'[c].bookmark = conns[c].bookmark
  PROVE  FetchDone(s, res[s].stream)
<1>1. /\ after \in Seq(SUBSET Nat) /\ QueryOf(s) /\ Held(s) \subseteq Conns
      /\ \A c \in Conns : conns[c].bookmark \in 0 .. Len(after)
  BY MarksOf
<1>2. Grows
  BY <1>1, SameGrows
<1>3. ss[s].auto # NoConn => ss[s].auto \in Conns
  BY HeldAt, HeldOne DEF SessionInv
<1>4. \A c \in Held(s) : conns'[c].bookmark # 0 => ss[s].auto = c
  BY <1>1, HeldBookmark
<1> QED BY <1>1, <1>2, <1>3, <1>4 DEF FetchDone, QueryOf

\* The end of an auto-commit query gives its connection a bookmark.
LEMMA FetchMarks ==
  ASSUME SessionInv, NEW s \in Sessions, NEW got \in {"rec", "sum", "err"}, Fetch(s, got)
  PROVE  FetchDone(s, FetchedStream(s, got))
<1> DEFINE q == res[s]  c == q.conn  a == ss[s].auto
           ends == q.stream = "open" /\ got = "sum"
           new == IF ends /\ IsAuto(s) THEN Bookmark(s) ELSE 0
<1>1. /\ after \in Seq(SUBSET Nat) /\ QueryOf(s) /\ TypesOf(s) /\ Held(s) \subseteq Conns
      /\ \A x \in Conns : DOMAIN conns[x] = ConnFields /\ conns[x].bookmark \in 0 .. Len(after)
      /\ DOMAIN conns = Conns /\ ResultOK(ss[s], q) /\ Len(after) \in Nat
  BY MarksOf
<1>2. CASE ends /\ IsAuto(s)
  <2>1. Committed(s) /\ new = Bookmark(s)
    BY <1>1, <1>2, CommittedGrows DEF Fetch, Bookmark
  <2>2. /\ Grows /\ Len(after') = new /\ new \in DOMAIN after' /\ new # 0
        /\ after'[new] = Cover(after, ss[s].sent)
    BY <1>1, <2>1, CommittedGrows DEF TypesOf
  <2>3. c = a /\ a # NoConn
    BY <1>2 DEF IsAuto
  <2>4. a \in Held(s) /\ a \in Conns /\ Held(s) = {a}
    BY <2>3, HeldAt, HeldOne DEF SessionInv
  <2>5. conns' = [conns EXCEPT ![c].bookmark = new]
    BY <1>2, <2>2 DEF Fetch
  <2>6. conns'[a].bookmark = new /\ \A x \in Conns \ {a} : conns'[x].bookmark = conns[x].bookmark
    BY <1>1, <2>3, <2>4, <2>5 DEF ConnFields
  <2>7. conns[a].bookmark = 0
    BY <1>1, <1>2, <2>3 DEF QueryOf
  <2>8. Cover(after', ss[s].sent) = Cover(after, ss[s].sent)
    BY <1>1, <2>2, CoverGrows DEF TypesOf
  <2>9. FetchedStream(s, got) = "sum"
    BY <1>2 DEF FetchedStream
  <2>10. new \in 0 .. Len(after')
    BY <1>1, <2>2 DEF Bookmark
  <2> HIDE DEF new
  <2> QED BY <2>2, <2>3, <2>4, <2>6, <2>7, <2>8, <2>9, <2>10 DEF FetchDone
<1>3. CASE ~(ends /\ IsAuto(s))
  <2>1. UNCHANGED after /\ conns' \in {conns, Broken(c)}
    BY <1>3 DEF Fetch
  <2>2. \A x \in Conns : conns'[x].bookmark = conns[x].bookmark
    BY <1>1, <2>1 DEF Broken, ConnFields
  <2>3. FetchDone(s, q.stream)
    BY <2>1, <2>2, NothingFetched
  <2>4. a # NoConn => (FetchedStream(s, got) = "sum" <=> q.stream = "sum")
    BY <1>1, <1>3 DEF Fetch, FetchedStream, ResultOK, IsAuto
  <2> QED BY <2>3, <2>4 DEF FetchDone
<1> QED BY <1>2, <1>3

\* A result that is read, with the hook that the end of a query runs.
LEMMA ReadMarks ==
  ASSUME SessionInv, NEW s \in Sessions, ss[s].pc = "idle", ~res[s].err,
         FetchDone(s, res'[s].stream), NEW run, NEW new, Hook(s, run, new),
         new = IF res[s].conn \in Conns THEN conns'[res[s].conn].bookmark ELSE 0
  PROVE  MarksStep(s) /\ TypesOf(s)' /\ QueryOf(s)' /\ OwnOf(s)'
<1> DEFINE r == ss[s]  f == ss'[s]
<1>1. /\ after \in Seq(SUBSET Nat) /\ mgr \subseteq DOMAIN after /\ DOMAIN own = Sessions
      /\ TypesOf(s) /\ QueryOf(s) /\ OwnOf(s) /\ Len(after) \in Nat
      /\ DOMAIN ss = Sessions /\ DOMAIN r = SessionFields /\ ResultOK(r, res[s])
  BY MarksOf
<1>2. /\ Grows /\ Len(after') \in Nat /\ Len(after) <= Len(after') /\ DOMAIN after \subseteq DOMAIN after'
      /\ DOMAIN after' = 1 .. Len(after')
  BY DEF FetchDone, Grows
<1>3. /\ Cover(after', mgr) = Cover(after, mgr) /\ Cover(after', r.marks) = Cover(after, r.marks)
      /\ Cover(after', r.sent) = Cover(after, r.sent)
  BY <1>1, <1>2, CoverGrows DEF TypesOf
<1>4. ASSUME UNCHANGED <<mgr, own>>, f.auto = r.auto, f.marks = r.marks, f.sent = r.sent,
             f.managed = r.managed, f.pc = r.pc
      PROVE  MarksStep(s) /\ TypesOf(s)' /\ QueryOf(s)' /\ OwnOf(s)'
  <2>1. MarksStep(s)
    BY <1>1, <1>2, <1>3, <1>4 DEF MarksStep, FetchDone
  <2>2. TypesOf(s)'
    BY <1>1, <1>2, <1>4 DEF TypesOf
  <2>3. QueryOf(s)'
    BY <1>4 DEF QueryOf, FetchDone
  <2>4. OwnOf(s)'
    <3>1. r.auto # NoConn => conns[r.auto].bookmark \in {0, conns'[r.auto].bookmark}
      BY DEF FetchDone
    <3> QED BY <1>1, <1>3, <1>4, <3>1 DEF OwnOf
  <2> QED BY <2>1, <2>2, <2>3, <2>4
<1>5. CASE ~(run /\ res[s].hook)
  BY <1>4, <1>5 DEF Hook
<1>6. CASE run /\ res[s].hook
  <2>1. res[s].conn = r.auto /\ r.auto # NoConn
    BY <1>1, <1>6 DEF ResultOK
  <2>2. r.auto \in Held(s) /\ r.auto \in Conns
    BY <2>1, HeldAt, HeldOne DEF SessionInv
  <2>3. new = conns'[r.auto].bookmark /\ new \in 0 .. Len(after')
    BY <2>1, <2>2 DEF FetchDone
  <2>4. PICK m : ReplaceBookmarks(s, new, m) /\ ss' = [ss EXCEPT ![s].marks = m]
    BY <1>6 DEF Hook
  <2>5. /\ f.auto = r.auto /\ f.marks = m /\ f.sent = r.sent /\ f.managed = r.managed /\ f.pc = r.pc
    BY <1>1, <2>4 DEF SessionFields
  <2>6. own' = [own EXCEPT ![s] = IF new = 0 THEN @ ELSE new]
    BY <1>6 DEF Hook
  <2>7. CASE new = 0
    <3>1. UNCHANGED mgr /\ m = r.marks
      BY <2>4, <2>7 DEF ReplaceBookmarks
    <3>2. own'[s] = own[s] /\ DOMAIN own' = Sessions /\ \A t \in Sessions \ {s} : own'[t] = own[t]
      BY <1>1, <2>6, <2>7
    <3>3. MarksStep(s)
      BY <1>1, <1>2, <1>3, <2>5, <3>1, <3>2 DEF MarksStep, FetchDone
    <3>4. TypesOf(s)'
      BY <1>1, <1>2, <2>5, <3>1, <3>2 DEF TypesOf
    <3>5. QueryOf(s)'
      BY <2>5 DEF QueryOf, FetchDone
    <3>6. OwnOf(s)'
      <4>1. conns[r.auto].bookmark \in {0, conns'[r.auto].bookmark}
        BY <2>1 DEF FetchDone
      <4> QED BY <1>1, <1>3, <2>5, <3>1, <3>2, <4>1 DEF OwnOf
    <3> QED BY <3>3, <3>4, <3>5, <3>6
  <2>8. CASE new # 0
    <3>1. Cover(after, r.sent) \subseteq after'[new]
      BY <1>3, <2>1, <2>3, <2>8 DEF FetchDone
    <3>2. /\ mgr' \subseteq DOMAIN after' /\ Cover(after, mgr) \subseteq Cover(after', mgr')
          /\ m \subseteq DOMAIN after' /\ IF r.managed THEN new \in mgr' ELSE m = {new}
      BY <1>2, <2>3, <2>4, <2>8, <3>1, ReplaceKeeps DEF SessionInv
    <3>3. own'[s] = new /\ DOMAIN own' = Sessions /\ \A t \in Sessions \ {s} : own'[t] = own[t]
      BY <1>1, <2>6, <2>8
    <3>4. MarksStep(s)
      BY <1>2, <2>5, <3>2, <3>3 DEF MarksStep, FetchDone
    <3>5. TypesOf(s)'
      BY <1>1, <1>2, <2>3, <2>5, <3>2, <3>3 DEF TypesOf
    <3>6. QueryOf(s)'
      BY <2>5 DEF QueryOf, FetchDone
    <3>7. OwnOf(s)'
      BY <2>3, <2>5, <3>2, <3>3, CoverIs DEF OwnOf
    <3> QED BY <3>4, <3>5, <3>6, <3>7
  <2> QED BY <2>7, <2>8
<1> QED BY <1>5, <1>6

\* LastBookmarks takes a bookmark that covers what it replaces.
LEMMA LastBookmarksMarks ==
  ASSUME SessionInv, NEW s \in Sessions, LastBookmarks(s)
  PROVE  MarksStep(s) /\ TypesOf(s)' /\ QueryOf(s)' /\ OwnOf(s)'
<1> DEFINE r == ss[s]  f == ss'[s]  n == conns[r.auto].bookmark
<1>1. /\ after \in Seq(SUBSET Nat) /\ mgr \subseteq DOMAIN after /\ DOMAIN own = Sessions
      /\ TypesOf(s) /\ QueryOf(s) /\ OwnOf(s) /\ Len(after) \in Nat /\ Held(s) \subseteq Conns
      /\ DOMAIN ss = Sessions /\ DOMAIN r = SessionFields
      /\ \A c \in Conns : conns[c].bookmark \in 0 .. Len(after)
  BY MarksOf
<1>2. UNCHANGED <<res, conns, mgr, after, own>> /\ Grows /\ r.auto # NoConn /\ n # 0
  BY <1>1, SameGrows DEF LastBookmarks, world
<1>3. /\ f.auto = r.auto /\ f.marks = {n} /\ f.sent = r.sent /\ f.managed = r.managed /\ f.pc = r.pc
  BY <1>1 DEF LastBookmarks, SessionFields
<1>4. n \in 0 .. Len(after)
  BY <1>1, <1>2, HeldAt DEF SessionInv
<1>5. \A c \in Held(s) : conns[c].bookmark # 0 => r.auto = c
  BY HeldBookmark
<1>6. MarksStep(s)
  BY <1>1, <1>2, <1>3, <1>5 DEF MarksStep
<1>7. TypesOf(s)'
  BY <1>1, <1>2, <1>3, <1>4 DEF TypesOf
<1>8. QueryOf(s)'
  BY <1>1, <1>2, <1>3 DEF QueryOf
<1>9. OwnOf(s)'
  <2>1. own[s] # 0 => own[s] \in Cover(after, {n})
    <3>1. Cover(after, r.sent) \subseteq after[n]
      BY <1>1, <1>2 DEF QueryOf
    <3> QED BY <1>1, <1>2, <3>1, CoverIs DEF OwnOf
  <2> QED BY <1>1, <1>2, <1>3, <2>1 DEF OwnOf
<1> QED BY <1>6, <1>7, <1>8, <1>9

\* A new result of an explicit transaction.
LEMMA TxRunMarks ==
  ASSUME SessionInv, NEW s \in Sessions, TxRun(s)
  PROVE  MarksStep(s) /\ TypesOf(s)' /\ QueryOf(s)' /\ OwnOf(s)'
<1>1. /\ after \in Seq(SUBSET Nat) /\ mgr \subseteq DOMAIN after /\ DOMAIN own = Sessions
      /\ TypesOf(s) /\ OwnOf(s) /\ Held(s) \subseteq Conns /\ LocalOK(ss[s])
      /\ \A c \in Conns : conns[c].bookmark \in 0 .. Len(after)
  BY MarksOf
<1>2. UNCHANGED <<ss, conns, mgr, after, own>> /\ Grows
  BY <1>1, SameGrows DEF TxRun, world
<1>3. ss[s].auto = NoConn
  BY <1>1 DEF TxRun, InTx, LocalOK, ConnectionOK
<1>4. \A c \in Held(s) : conns[c].bookmark # 0 => ss[s].auto = c
  BY HeldBookmark
<1>5. MarksStep(s)
  BY <1>1, <1>2, <1>4 DEF MarksStep
<1>6. TypesOf(s)'
  BY <1>1, <1>2 DEF TypesOf
<1>7. QueryOf(s)'
  BY <1>2, <1>3 DEF QueryOf
<1>8. OwnOf(s)'
  BY <1>1, <1>2 DEF OwnOf
<1> QED BY <1>5, <1>6, <1>7, <1>8

\* Every step keeps what holds of the bookmarks.
LEMMA SessionMarks ==
  ASSUME SessionInv, NEW s \in Sessions, Step(s) \/ Use(s)
  PROVE  MarksStep(s) /\ TypesOf(s)' /\ QueryOf(s)' /\ OwnOf(s)'
<1> DEFINE r == ss[s]  f == ss'[s]  q == res[s]
           Goal == MarksStep(s) /\ TypesOf(s)' /\ QueryOf(s)' /\ OwnOf(s)'
<1>0. /\ DOMAIN ss = Sessions /\ DOMAIN r = SessionFields /\ LocalOK(r)
      /\ DOMAIN res = Sessions /\ DOMAIN q = ResultFields /\ OnlyResult(s)
      /\ LocalInv /\ ResultInv
  BY MarksOf, SessionResult DEF SessionInv
<1>1. CASE QuietStep(s)
  BY <1>0, <1>1, QuietIsQuiet, QuietMarks
<1>2. CASE Step(s)
  <2>1. ASSUME NEW how \in {"sum", "err"}, FinishAutocommit(s, how) PROVE Goal
    BY <2>1, FinishAutocommitMarks
  <2>2. CASE Send(s)
    BY <2>2, SendMarks
  <2>3. CASE Commit(s)
    <3>1. /\ f.tx = r.tx /\ f.auto = r.auto /\ f.managed = r.managed
          /\ f.pc # "send" /\ f.sent = {} /\ ReplaceBookmarks(s, Bookmark(s), f.marks)
      BY <1>0, <2>3, CommitFields
    <3>2. /\ r.conn \in Held(s) /\ Return(r.conn) /\ Committed(s)
          /\ own' = [own EXCEPT ![s] = Bookmark(s)] /\ r.auto = NoConn
      BY <1>0, <2>3, HeldAt DEF Commit, CallPcs, LocalOK, ConnectionOK
    <3> QED BY <3>1, <3>2, CommitMarks
  <2>4. ASSUME NEW failure, NEW applied \in BOOLEAN, CommitFails(s, failure, applied) PROVE Goal
    <3>1. /\ f.auto = r.auto /\ f.managed = r.managed
          /\ f.pc # "send" /\ f.sent = {} /\ f.marks = r.marks
      BY <1>0, <2>4, CommitFailsFields
    <3>2. /\ r.conn \in Held(s) /\ Return(r.conn) /\ (Committed(s) \/ UNCHANGED after)
          /\ UNCHANGED <<mgr, own>> /\ r.auto = NoConn
      BY <1>0, <2>4, HeldAt DEF CommitFails, CallPcs, LocalOK, ConnectionOK
    <3> QED BY <3>1, <3>2, UntoldMarks
  <2>5. CASE TxRollback(s)
    BY <2>5, CloseTxMarks DEF TxRollback, InTx
  <2> QED BY <1>1, <1>2, <2>1, <2>2, <2>3, <2>4, <2>5 DEF Step, QuietStep
<1>3. CASE Use(s)
  <2>1. CASE TxRun(s)
    BY <2>1, TxRunMarks
  <2>2. CASE TxRunFails(s) \/ TxRollback(s)
    BY <2>2, CloseTxMarks DEF TxRunFails, TxRollback, InTx
  <2>3. CASE TxCommit(s)
    <3>1. /\ r.pc = "idle" /\ r.tx # NoConn /\ CloseTx(s, Bookmark(s), "sum", FALSE)
          /\ Committed(s) /\ own' = [own EXCEPT ![s] = Bookmark(s)]
      BY <2>3 DEF TxCommit, InTx
    <3>2. /\ r.tx \in Held(s) /\ Return(r.tx)
          /\ f.managed = r.managed /\ f.auto = NoConn /\ f.pc # "send"
          /\ f.sent = {} /\ ReplaceBookmarks(s, Bookmark(s), f.marks)
      BY <3>1, CloseTxFields
    <3> QED BY <3>1, <3>2, CommitMarks
  <2>4. ASSUME NEW applied, TxCommitFails(s, applied) PROVE Goal
    BY <2>4, CloseTxMarks DEF TxCommitFails, InTx
  <2>5. CASE LastBookmarks(s)
    BY <2>5, LastBookmarksMarks
  <2>6. ASSUME NEW got \in {"rec", "sum", "err"}, Next(s, got) PROVE Goal
    <3> DEFINE seen == IF q.peeked = "no" THEN got ELSE q.peeked
               stream == IF q.peeked = "no" THEN FetchedStream(s, got) ELSE q.stream
               new == IF q.conn \in Conns THEN conns'[q.conn].bookmark ELSE 0
    <3>1. r.pc = "idle" /\ ~q.err
      BY <2>6 DEF Next, InUse
    <3>2. CASE /\ r.tx # NoConn
               /\ CloseTx(s, 0, "err", TRUE) /\ UNCHANGED <<after, own>>
      BY <3>1, <3>2, CloseTxMarks
    <3>3. CASE /\ IF q.peeked = "no" THEN Fetch(s, got) ELSE UNCHANGED <<conns, after>>
               /\ res' = [res EXCEPT ![s].stream = stream, ![s].peeked = "no",
                                     ![s].summary = (seen = "sum"), ![s].err = (seen = "err"),
                                     ![s].hook = @ /\ seen # "sum"]
               /\ Hook(s, seen = "sum", new)
      <4>1. res'[s].stream = stream
        BY <1>0, <3>3 DEF ResultFields
      <4>2. FetchDone(s, stream)
        BY <3>3, FetchMarks, NothingFetched
      <4> HIDE DEF stream, seen
      <4> QED BY <3>1, <3>3, <4>1, <4>2, ReadMarks
    <3> QED BY <2>6, <3>2, <3>3 DEF Next
  <2>7. ASSUME NEW got \in {"rec", "sum", "err"}, Peek(s, got) PROVE Goal
    <3> DEFINE new == IF q.conn \in Conns THEN conns'[q.conn].bookmark ELSE 0
    <3>1. r.pc = "idle" /\ ~q.err /\ res'[s].stream = FetchedStream(s, got)
      BY <1>0, <2>7 DEF Peek, InUse, ResultFields
    <3>2. FetchDone(s, FetchedStream(s, got))
      BY <2>7, FetchMarks DEF Peek
    <3>3. Hook(s, FALSE, new)
      BY <2>7 DEF Peek, Hook
    <3> QED BY <3>1, <3>2, <3>3, ReadMarks
  <2>8. ASSUME NEW got \in {"sum", "err"}, NEW asksForOne \in BOOLEAN, Consume(s, got, asksForOne)
        PROVE  Goal
    <3> DEFINE new == IF q.conn \in Conns THEN conns'[q.conn].bookmark ELSE 0
    <3>1. r.pc = "idle" /\ ~q.err /\ res'[s].stream = FetchedStream(s, got)
      BY <1>0, <2>8 DEF Consume, InUse, ResultFields, FetchedStream
    <3>2. FetchDone(s, FetchedStream(s, got))
      BY <2>8, FetchMarks DEF Consume
    <3>3. PICK run \in BOOLEAN : Hook(s, run, new)
      BY <2>8 DEF Consume
    <3> QED BY <3>1, <3>2, <3>3, ReadMarks
  <2> QED BY <1>1, <1>3, <2>1, <2>2, <2>3, <2>4, <2>5, <2>6, <2>7, <2>8 DEF Use, QuietStep
<1> QED BY <1>2, <1>3

-----------------------------------------------------------------------------
\* The invariant holds when the sessions are created.
LEMMA InitInv == Init => SessionInv
<1> SUFFICES ASSUME Init PROVE SessionInv
  OBVIOUS
<1>1. PICK w \in Scenarios :
         /\ home = w.home
         /\ ss = [s \in Sessions |->
              [pc |-> "idle", api |-> "none", todo |-> w.calls[s], closed |-> FALSE,
               managed |-> s \in w.managed, direct |-> w.direct, db |-> NoDb, guess |-> w.cached,
               guessed |-> FALSE, fellBack |-> FALSE, ssr |-> TRUE, ran |-> {}, slipped |-> FALSE,
               conn |-> NoConn, tx |-> NoConn, auto |-> NoConn,
               marks |-> {}, sent |-> {}, err |-> "none", dead |-> 0,
               attempt |-> 0, commits |-> 0]]
  BY DEF Init
<1>2. home \in Databases /\ DOMAIN ss = Sessions
  BY <1>1, ConstantsFit DEF ConstantsFit
<1>3. \A s \in Sessions :
         /\ DOMAIN ss[s] = SessionFields /\ ss[s].pc = "idle" /\ ss[s].closed = FALSE
         /\ ss[s].db = NoDb /\ ss[s].ran = {}
         /\ ss[s].conn = NoConn /\ ss[s].tx = NoConn /\ ss[s].auto = NoConn
         /\ ss[s].marks = {} /\ ss[s].sent = {} /\ ss[s].dead = 0 /\ ss[s].commits = 0
  BY <1>1 DEF SessionFields
<1>4. ASSUME NEW s \in Sessions PROVE LocalOK(ss[s])
  <2> DEFINE r == ss[s]
  <2>1. /\ DOMAIN r = SessionFields /\ r.pc = "idle" /\ r.closed = FALSE /\ r.db = NoDb
        /\ r.ran = {} /\ r.conn = NoConn /\ r.tx = NoConn /\ r.auto = NoConn
        /\ r.dead = 0 /\ r.commits = 0
    BY <1>3
  <2> HIDE DEF r
  <2> USE <2>1
  <2>2. SessionType(r)
    BY DEF SessionType, Pcs
  <2>3. ConnectionOK(r)
    BY DEF ConnectionOK, CallPcs, EmptyPcs
  <2>4. DatabaseOK(r)
    BY DEF DatabaseOK, NoDb, Unnamed
  <2>5. RetryOK(r)
    BY ConstantsFit DEF RetryOK, CallPcs, ConstantsFit
  <2> QED BY <2>2, <2>3, <2>4, <2>5 DEF LocalOK, r
<1>5. LocalInv
  BY <1>2, <1>4 DEF LocalInv
<1>6. \A c \in Conns : DOMAIN conns[c] = ConnFields /\ conns[c].owner = Pool /\ conns[c].bookmark = 0
  BY DEF Init, FreeConn, ConnFields
<1>7. OwnerInv
  <2>1. \A s \in Sessions : Held(s) = {}
    BY <1>3 DEF Held
  <2>2. Pool \notin Sessions /\ DOMAIN conns = Conns
    BY ConstantsFit DEF ConstantsFit, Init
  <2> QED BY <1>6, <2>1, <2>2 DEF OwnerInv
<1>8. ResultInv
  <2>1. DOMAIN res = Sessions /\ \A s \in Sessions : res[s] = NoResult
    BY DEF Init
  <2>2. DOMAIN NoResult = ResultFields /\ NoResult.stream = "none" /\ NoResult.hook = FALSE
    BY DEF NoResult, ResultFields
  <2> QED BY <1>3, <2>1, <2>2 DEF ResultInv, ResultOK, Streams
<1>9. BookmarkInv
  <2>1. after = << >> /\ mgr = {} /\ DOMAIN own = Sessions /\ \A s \in Sessions : own[s] = 0
    BY DEF Init
  <2>2. after \in Seq(SUBSET Nat) /\ Len(after) = 0
    BY <2>1
  <2>3. \A s \in Sessions : TypesOf(s)
    BY <1>3, <2>1, <2>2 DEF TypesOf
  <2>4. \A s \in Sessions : QueryOf(s) /\ OwnOf(s)
    BY <1>3, <2>1 DEF QueryOf, OwnOf
  <2>5. \A c \in Conns : conns[c].bookmark \in 0 .. Len(after)
    BY <1>6, <2>2
  <2> QED BY <1>6, <2>1, <2>2, <2>3, <2>4, <2>5 DEF BookmarkInv
<1> QED BY <1>5, <1>7, <1>8, <1>9 DEF SessionInv

\* Only the server moves the home database.
LEMMA HomeStays == ASSUME NEW s \in Sessions, Step(s) \/ Use(s) PROVE UNCHANGED home
<1>1. CASE Step(s)
  BY <1>1 DEF Step, world, FinishAutocommit, GetServerList, AcquisitionFails, BorrowConnection,
     PreparationFails, GetBookmarks, Send, Work, Commit, SendFails, WorkFails, CommitFails,
     WorkPanics, Continue, GiveUp, TxRollback, CloseTx, CloseDone
<1>2. CASE Use(s)
  BY <1>2 DEF Use, world, Call, TxRun, TxRunFails, TxCommit, Close, LastBookmarks, TxCommitFails,
     TxRollback, CloseTx, Next, Peek, Consume
<1> QED BY <1>1, <1>2

\* Every step keeps the invariant.
LEMMA NextInv == SessionInv /\ [NextState]_vars => SessionInv'
<1> SUFFICES ASSUME SessionInv, [NextState]_vars PROVE SessionInv'
  OBVIOUS
<1>1. CASE UNCHANGED <<ss, res, conns, mgr, after, own>> /\ home' \in Databases
  BY <1>1 DEF SessionInv, LocalInv, OwnerInv, ResultInv, BookmarkInv, Held, TypesOf, QueryOf, OwnOf
<1>2. CASE UNCHANGED vars
  BY <1>1, <1>2 DEF vars, SessionInv, LocalInv
<1>3. CASE HomeMoves
  BY <1>1, <1>3 DEF HomeMoves
<1>4. ASSUME NEW s \in Sessions, Step(s) \/ Use(s) PROVE SessionInv'
  <2>1. LocalInv /\ OwnerInv /\ ResultInv
    BY DEF SessionInv
  <2>2. Only(s) /\ LocalOK(ss'[s])
    BY <1>4, <2>1, SessionLocal
  <2>3. UNCHANGED home
    BY <1>4, HomeStays
  <2>4. LocalInv'
    BY <2>1, <2>2, <2>3 DEF LocalInv, Only
  <2>5. OwnerInv'
    BY <1>4, <2>1, <2>2, SessionConns, OwnerStep
  <2>6. OnlyResult(s) /\ ResultOK(ss'[s], res'[s])
    BY <1>4, <2>1, SessionResult
  <2>7. ResultInv'
    BY <2>1, <2>2, <2>6, ResultFrame
  <2>8. BookmarkInv'
    BY <1>4, <2>2, <2>6, SessionMarks, MarksFrame
  <2> QED BY <2>4, <2>5, <2>7, <2>8 DEF SessionInv
<1> QED BY <1>2, <1>3, <1>4 DEF NextState

\* SessionInv is an invariant: the four layers hold in every state that the sessions of
\* a driver reach, whatever the router, the pool and the servers answer.
THEOREM Invariance == Spec => []SessionInv
BY InitInv, NextInv, PTL DEF Spec

\* The records, results and bookmarks have their types; retry.State counts at most
\* MaxDeadConnections + 1 dead connections.
THEOREM Types == Spec => []TypeOK
<1>1. SessionInv => TypeOK
  <2> SUFFICES ASSUME SessionInv PROVE TypeOK
    OBVIOUS
  <2>1. ASSUME NEW s \in Sessions
        PROVE  /\ ss[s].pc \in Pcs /\ {ss[s].conn, ss[s].tx, ss[s].auto} \subseteq Conns \cup {NoConn}
               /\ ss[s].db \in Databases \cup {NoDb, Unnamed} /\ ss[s].dead \in 0 .. MaxDeadConnections + 1
               /\ res[s].stream \in Streams
    BY MarksOf, ConstantsFit DEF LocalOK, SessionType, RetryOK, ResultOK, ConstantsFit
  <2>2. mgr \cup UNION {ss[s].marks : s \in Sessions} \subseteq DOMAIN after
    BY DEF SessionInv, BookmarkInv, TypesOf
  <2> QED BY <2>1, <2>2 DEF TypeOK, Pcs, Streams
<1> QED BY <1>1, Invariance, PTL

\* On every path, errors, retries and panics included, a session returns its
\* connection once and never holds two.
THEOREM Accounted == Spec => []ConnectionsAccounted
<1>1. SessionInv => ConnectionsAccounted
  <2> SUFFICES ASSUME SessionInv, NEW s \in Sessions
               PROVE  /\ {c \in Conns : conns[c].owner = s} = Held(s)
                      /\ Cardinality(Held(s)) <= 1
                      /\ ss[s].pc \in {"servers", "borrow", "retry"} \/ ss[s].closed => Held(s) = {}
    BY DEF ConnectionsAccounted
  <2>1. Held(s) \subseteq Conns /\ LocalOK(ss[s])
    BY MarksOf
  <2>2. {c \in Conns : conns[c].owner = s} = Held(s)
    BY <2>1 DEF SessionInv, OwnerInv
  <2>3. Cardinality(Held(s)) <= 1
    <3>1. CASE Held(s) = {}
      BY <3>1, FS_EmptySet
    <3>2. ASSUME NEW c \in Held(s) PROVE Cardinality(Held(s)) <= 1
      <4>1. Held(s) = {c}
        BY HeldOne DEF SessionInv
      <4> QED BY <4>1, FS_Singleton
    <3> QED BY <3>1, <3>2
  <2>4. ss[s].pc \in {"servers", "borrow", "retry"} \/ ss[s].closed => Held(s) = {}
    BY <2>1 DEF LocalOK, ConnectionOK, CallPcs, EmptyPcs, Held
  <2> QED BY <2>2, <2>3, <2>4
<1> QED BY <1>1, Invariance, PTL

\* A result that may still read from the network has its connection to itself.
THEOREM OpenResults == Spec => []OpenResultsHaveConnections
<1>1. SessionInv => OpenResultsHaveConnections
  BY DEF SessionInv, ResultInv, ResultOK, OpenResultsHaveConnections
<1> QED BY <1>1, Invariance, PTL

\* Retries commit a transaction function at most once, also when the connection
\* dies during the commit.
THEOREM OneCommit == Spec => []CommitsAtMostOnce
<1>1. SessionInv => CommitsAtMostOnce
  BY DEF SessionInv, LocalInv, LocalOK, RetryOK, CommitsAtMostOnce
<1> QED BY <1>1, Invariance, PTL

\* All queries of a session of a neo4j scheme run in one database, even if the home
\* database moves and whatever the cache's flag is, unless getConnection fell back
\* from a connection without SSR and guessed again (session.go:617).
THEOREM SameDatabase == Spec => []OneDatabase
<1>1. SessionInv => OneDatabase
  <2> SUFFICES ASSUME SessionInv, NEW s \in Sessions, ~ss[s].direct, ~ss[s].slipped
               PROVE  Cardinality(ss[s].ran) <= 1
    BY DEF OneDatabase
  <2>1. \A d \in ss[s].ran : d = ss[s].db
    BY MarksOf DEF LocalOK, DatabaseOK
  <2>2. ss[s].ran = {} \/ ss[s].ran = {ss[s].db}
    BY <2>1
  <2>3. Cardinality(ss[s].ran) \in {0, 1}
    <3>1. CASE ss[s].ran = {}
      BY <3>1, FS_EmptySet
    <3>2. CASE ss[s].ran = {ss[s].db}
      BY <3>2, FS_Singleton
    <3> QED BY <2>2, <3>1, <3>2
  <2> QED BY <2>3
<1> QED BY <1>1, Invariance, PTL

\* The bookmark manager forgets no transaction that one of its sessions committed,
\* although sessions replace bookmarks in it concurrently.
THEOREM BookmarksKept == Spec => []NoBookmarkLost
<1>1. SessionInv => NoBookmarkLost
  BY DEF SessionInv, BookmarkInv, OwnOf, NoBookmarkLost, Covered, Cover
<1> QED BY <1>1, Invariance, PTL

\* What a transaction is begun with comes after the last transaction that its
\* session was told to be committed.
THEOREM ReadYourWrites == Spec => []CausalChain
<1>1. SessionInv => CausalChain
  BY DEF SessionInv, BookmarkInv, OwnOf, CausalChain, Covered, Cover
<1> QED BY <1>1, Invariance, PTL
=============================================================================
