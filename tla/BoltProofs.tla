----------------------------- MODULE BoltProofs -----------------------------
(***************************************************************************)
(* Proofs about Bolt, for every set of protocol versions and any number of *)
(* results and records: the connection is well typed, and every response   *)
(* is handled by the handler of its request.                               *)
(*                                                                         *)
(* The inductive invariant BoltInv has these parts:                        *)
(*   Conn, Server  the types of the connection and of the server;          *)
(*   Phase         which calls are possible in which part of a loan: a     *)
(*                 connection that is connected, reset or lent again has   *)
(*                 one of a few stacks, one that is idle or gone has none, *)
(*                 and the frames of a session's calls are about results   *)
(*                 that exist, with room for the one that a run makes;     *)
(*   ResetAlone    a RESET is sent when nothing else is pending;           *)
(*   Queue         handlers and requests match, or the connection is dead  *)
(*                 and stays so.                                           *)
(***************************************************************************)
EXTENDS Bolt, TLAPS, SequenceTheorems

States == {"unauthorized", "ready", "streaming", "tx", "streamingTx", "failed", "dead"}
Messages == {"hello", "logon", "logoff", "telemetry", "route", "begin", "commit", "rollback",
             "run", "pull", "discard", "reset", "goodbye"}
Fetches == FetchSizes \cup {All}

Requests == [m : Messages, s : 0 .. MaxStreams, n : Fetches \cup {0}, qid : Int, got : Nat]
Handlers == [on : Messages, s : 0 .. MaxStreams]

ConnFields == {"v", "state", "err", "txId", "curr", "num", "lastQid", "made", "live", "streams",
               "handlers", "out", "wire"}
StreamFields == {"attached", "given", "fifo", "done", "qid", "fetch", "safe", "endOfBatch", "discarding"}

StreamOK(q) == /\ DOMAIN q = StreamFields
               /\ q.done \in {"no", "sum", "err"} /\ q.qid \in Int /\ q.fetch \in Fetches

\* The connection, as the transformers of the model take and return it.
Conn(c) ==
  /\ DOMAIN c = ConnFields
  /\ c.v \in Protocols /\ c.state \in States /\ c.err \in BOOLEAN /\ c.txId \in BOOLEAN
  /\ c.made \in 0 .. MaxStreams /\ c.curr \in 0 .. c.made /\ c.live \in 1 .. c.made + 1
  /\ DOMAIN c.streams = Streams /\ \A s \in Streams : StreamOK(c.streams[s])
  /\ c.handlers \in Seq(Handlers) /\ c.out \in Seq(Requests) /\ c.wire \in Seq(Requests)

ServerOK(s) ==
  /\ DOMAIN s = {"st", "open", "last", "byQid", "sent", "refused"}
  /\ s.st \in {"new", "loggedOff", "ready", "streaming", "tx", "failed"}
  /\ s.byQid \in Seq(Nat)
Server == ServerOK(srv)

-----------------------------------------------------------------------------
(* The call under way.                                                     *)

\* The frames of calls of a session on a connection that has made m results.
Plain == [at : {"receive", "receiveAll", "begun", "ended"}]
OnStream(m) == [at : {"buffer", "pause", "attach"}, s : 1 .. m]
OnDiscard(m) == [at : {"discard"}, s : 1 .. m, discarded : BOOLEAN]
OnNext(m) == [at : {"next"}, s : 1 .. m, received : BOOLEAN]
OnExhaust(m) == [at : {"exhaust"}, s : 1 .. m, how : {"discard", "buffer"}, switch : BOOLEAN]
OnBegin == [at : {"begin"}, sync : BOOLEAN, supported : BOOLEAN]
OnEnd == [at : {"end"}, how : {"commit", "rollback"}, all : BOOLEAN]
OnRun == [at : {"run"}, n : Fetches, pack : Packs \cup {"ok"}]
OnTable == [at : {"table", "table3"}, left : Int]
OnSuccess3 == [at : {"success3"}, then : {"begin", "commit", "rollback", "run"}]
OnRecord3 == [at : {"record3"}, s : 0 .. MaxStreams, mode : {"next", "discard", "buffer"}]
OnBegin3 == [at : {"begin3"}, supported : BOOLEAN]
OnEnd3 == [at : {"end3"}, how : {"commit", "rollback"}]
OnRun3 == [at : {"run3"}, pack : Packs \cup {"ok"}]
Frames(m) ==
  Plain \cup OnStream(m) \cup OnDiscard(m) \cup OnNext(m) \cup OnExhaust(m)
  \cup OnBegin \cup OnEnd \cup OnRun \cup OnTable
  \cup OnSuccess3 \cup OnRecord3 \cup OnBegin3 \cup OnEnd3 \cup OnRun3

\* A frame that adds a result.
Makes(f) == f.at \in {"run", "run3"} \/ (f.at = "success3" /\ f.then = "run")

\* The frames that fit the connection c: there is room for what they add, and a routing
\* table is read from a query that was run. The quiet ones add nothing.
Fit(c) == {f \in Frames(c.made) : /\ Makes(f) => c.made < MaxStreams
                                  /\ f.at = "table" => c.made > 0 \/ c.err}
Quiet(c) == {f \in Fit(c) : ~Makes(f)}

\* A stack of such frames, of which one at most adds a result.
Calm(q, c) ==
  /\ q \in Seq(Fit(c))
  /\ \A i, j \in 1 .. Len(q) : Makes(q[i]) /\ Makes(q[j]) => i = j

\* The query for a routing table is about to be run.
Asking(q, c) ==
  /\ \E f \in OnRun, g \in OnTable : q = <<f, g>>
  /\ c.made < MaxStreams /\ AssertState(c, {"ready"})

-----------------------------------------------------------------------------
(* The parts of a loan.                                                    *)

\* The session has the connection.
Use == {"borrowed", "announced", "held", "tx", "pipelined", "single"}

F(at) == [at |-> at]
Hello3 == [at |-> "success3", then |-> "hello"]
Connecting == {<<F("receive"), F("connected")>>, <<F("receiveAll"), F("connected")>>, <<F("connected")>>,
               <<Hello3>>}
Returning ==
  {<<F("cleared")>>, <<F("forceReset"), F("cleared")>>, <<F("receive"), F("cleared")>>,
   <<F("receiveAll"), F("forceReset"), F("cleared")>>,
   <<F("cleared3")>>, <<F("forceReset3"), F("cleared3")>>, <<F("reset3"), F("cleared3")>>}
  \cup {<<f, F("forceReset3"), F("cleared3")>> : f \in OnRecord3}
Lending ==
  {<<F("reauth")>>, <<F("forceReset"), F("reauth")>>, <<F("receive"), F("reauth")>>,
   <<F("receiveAll"), F("forceReset"), F("reauth")>>,
   <<F("lent")>>, <<F("reauthed")>>, <<F("receiveAll"), F("reauthed")>>,
   <<F("forceCheck3"), F("reauth")>>, <<F("reset3"), F("reauth")>>}

NoResults == b.live > b.made
Phase ==
  /\ loan = "new" => Idle /\ NoResults /\ b.made = 0
  /\ loan = "connecting" => stack \in Connecting /\ NoResults
  /\ loan = "returning" => stack \in Returning
  /\ loan = "pooled" => /\ Idle /\ NoResults /\ b.curr = NoStream
                        /\ b.v.major # 3 => \A s \in Streams : ~b.streams[s].safe
  /\ loan = "lending" => stack \in Lending /\ NoResults
  /\ loan = "gone" => Idle /\ NoResults /\ (b.err \/ b.state = "dead")
  /\ loan \in Use => Calm(stack, b) \/ Asking(stack, b)
  /\ loan \in Use \cup {"new", "connecting", "returning", "pooled", "lending", "gone"}

-----------------------------------------------------------------------------
(* The queue.                                                              *)

NoReset(hs) == \A i \in 1 .. Len(hs) : hs[i].on # "reset"

ResetAlone ==
  /\ \/ NoReset(b.handlers)
     \/ loan = "gone"
     \/ loan \in {"returning", "lending"} /\ Top.at = "receive" /\ Len(b.handlers) = 1
     \/ loan \in {"returning", "lending"} /\ b.state = "dead" /\ Top.at \in {"cleared", "reauth", "lent"}
  /\ ~Idle /\ Top.at = "forceReset" /\ ~b.err => b.handlers = << >>

\* Handler by handler, the requests q are those that hs waits for.
Matches(hs, q) ==
  /\ Len(q) = Len(hs)
  /\ \A i \in 1 .. Len(q) : q[i].m = hs[i].on /\ q[i].s = hs[i].s

\* The connection died and has no way back.
Broken(c) == c.state = "dead" /\ c.err /\ NoReset(c.handlers)

Queue ==
  /\ b.v.major > 3 => \/ Matches(b.handlers, b.wire \o b.out)
                      \/ Broken(b)
                      \/ loan = "gone" /\ b.state = "dead"
  /\ b.v.major = 3 => b.handlers = << >>
  /\ loan # "gone" => \A i \in 1 .. Len(b.handlers) : b.handlers[i].s <= b.made

BoltInv == Conn(b) /\ Server /\ net \in {"up", "down"} /\ Phase /\ ResetAlone /\ Queue

-----------------------------------------------------------------------------
(* The transformers of the connection.                                     *)

AllKnown(hs, m) == \A i \in 1 .. Len(hs) : hs[i].s <= m

\* d comes from c without harm: what was sent or queued with its handler still is, or the
\* connection died.
Keeps(c, d) ==
  /\ Conn(d) /\ d.v = c.v /\ d.live = c.live /\ c.made <= d.made
  /\ c.err => d.err
  /\ c.err /\ c.state = "dead" => d.state = "dead"
  /\ c.v.major # 3 /\ Matches(c.handlers, c.wire \o c.out) =>
       Matches(d.handlers, d.wire \o d.out) \/ (d.err /\ d.state = "dead")
  /\ c.v.major = 3 => d.handlers = c.handlers
  /\ NoReset(c.handlers) => NoReset(d.handlers)
  /\ AllKnown(c.handlers, c.made) => AllKnown(d.handlers, d.made)

\* The queue is not touched.
SameQueue(c, d) ==
  d.v = c.v /\ d.live = c.live /\ d.made = c.made
  /\ d.handlers = c.handlers /\ d.out = c.out /\ d.wire = c.wire

\* Keeps can be chained.
LEMMA KeepsTrans ==
  ASSUME NEW c, NEW d, NEW e, Conn(c), Keeps(c, d), Keeps(d, e)
  PROVE  Keeps(c, e)
<1>1. c.made \in Int /\ d.made \in Int /\ e.made \in Int
  BY DEF Conn, Keeps
<1> QED
  BY <1>1 DEF Keeps

\* Where the queue is not touched there is nothing to show about it.
LEMMA SameKeeps ==
  ASSUME NEW c, NEW d, Conn(c), Conn(d), SameQueue(c, d), c.err => d.err,
         c.err /\ c.state = "dead" => d.state = "dead"
  PROVE  Keeps(c, d)
<1>1. c.made \in Int
  BY DEF Conn
<1> QED
  BY <1>1 DEF Keeps, SameQueue

\* A connection with the queue of c.
LEMMA SameConn ==
  ASSUME NEW c, NEW d, Conn(c), SameQueue(c, d), DOMAIN d = ConnFields,
         d.state \in States, d.err \in BOOLEAN, d.txId \in BOOLEAN, d.curr \in 0 .. c.made,
         DOMAIN d.streams = Streams, \A s \in Streams : StreamOK(d.streams[s])
  PROVE  Conn(d)
  BY DEF Conn, SameQueue

\* No stream is a place in every connection.
LEMMA NoStreamFits == \A c : Conn(c) => 0 \in 0 .. c.made /\ c.made \in Nat
  BY StreamsAreCounted DEF Conn

\* checkStreams changes the state only.
LEMMA CheckStreamsSame ==
  ASSUME NEW c, Conn(c)
  PROVE  /\ Conn(CheckStreams(c)) /\ SameQueue(c, CheckStreams(c))
         /\ CheckStreams(c).err = c.err /\ CheckStreams(c).curr = c.curr
         /\ CheckStreams(c).streams = c.streams /\ CheckStreams(c).txId = c.txId
         /\ CheckStreams(c).state = "dead" <=> c.state = "dead"
         /\ CheckStreams(c).state # c.state => c.state \in {"streaming", "streamingTx"}
  BY DEF CheckStreams, Conn, ConnFields, SameQueue, States

\* remove leaves everything but the streams alone.
LEMMA RemoveSame ==
  ASSUME NEW c, Conn(c), NEW s
  PROVE  /\ Conn(Remove(c, s)) /\ SameQueue(c, Remove(c, s))
         /\ Remove(c, s).err = c.err /\ Remove(c, s).state = c.state /\ Remove(c, s).txId = c.txId
<1> DEFINE d == Remove(c, s)
<1>1. DOMAIN d = ConnFields /\ d.streams = [c.streams EXCEPT ![s].safe = FALSE]
      /\ d.curr \in {c.curr, 0} /\ d.err = c.err /\ d.state = c.state /\ d.txId = c.txId
      /\ SameQueue(c, d)
  BY DEF Remove, Conn, ConnFields, SameQueue, NoStream
<1>2. DOMAIN d.streams = Streams /\ \A r \in Streams : StreamOK(d.streams[r])
  BY <1>1 DEF Conn, StreamOK, StreamFields
<1> HIDE DEF d
<1>3. Conn(d)
  <2>1. d.curr \in 0 .. c.made /\ c.state \in States /\ c.err \in BOOLEAN /\ c.txId \in BOOLEAN
    BY <1>1, NoStreamFits DEF Conn
  <2> QED
    BY <1>1, <1>2, <2>1, SameConn
<1> QED
  BY <1>1, <1>3 DEF d

\* A result is done, or gets other fields, and nothing else changes.
LEMMA DoneSame ==
  ASSUME NEW c, Conn(c), NEW s, NEW how \in {"no", "sum", "err"}
  PROVE  LET d == [c EXCEPT !.streams[s].done = how]
         IN  Conn(d) /\ SameQueue(c, d) /\ d.err = c.err /\ d.state = c.state /\ d.curr = c.curr
<1> DEFINE d == [c EXCEPT !.streams[s].done = how]
<1>1. DOMAIN d = ConnFields /\ d.streams = [c.streams EXCEPT ![s].done = how]
      /\ d.curr = c.curr /\ d.err = c.err /\ d.state = c.state /\ d.txId = c.txId
      /\ SameQueue(c, d)
  BY DEF Conn, ConnFields, SameQueue
<1>2. DOMAIN d.streams = Streams /\ \A r \in Streams : StreamOK(d.streams[r])
  BY <1>1 DEF Conn, StreamOK, StreamFields
<1> HIDE DEF d
<1>3. Conn(d)
  <2>1. d.curr \in 0 .. c.made /\ c.state \in States /\ c.err \in BOOLEAN /\ c.txId \in BOOLEAN
    BY <1>1 DEF Conn
  <2> QED
    BY <1>1, <1>2, <2>1, SameConn
<1> QED
  BY <1>1, <1>3 DEF d

\* The end of a result.
LEMMA FinishKeeps ==
  ASSUME NEW c, Conn(c), NEW s, NEW how \in {"no", "sum", "err"}
  PROVE  LET d == Finish(c, s, how)
         IN  Conn(d) /\ SameQueue(c, d) /\ d.err = c.err /\ (d.state = "dead" <=> c.state = "dead")
             /\ (d.state # c.state => c.state \in {"streaming", "streamingTx"})
<1> DEFINE d1 == [c EXCEPT !.streams[s].done = how]
           d2 == Remove(d1, s)
           d == CheckStreams(d2)
<1>1. Conn(d1) /\ SameQueue(c, d1) /\ d1.err = c.err /\ d1.state = c.state
  BY DoneSame
<1>0. Finish(c, s, how) = d
  BY DEF Finish
<1> HIDE DEF d1
<1>2. Conn(d2) /\ SameQueue(d1, d2) /\ d2.err = d1.err /\ d2.state = d1.state
  BY <1>1, RemoveSame
<1> HIDE DEF d2
<1>3. Conn(d) /\ SameQueue(d2, d) /\ d.err = d2.err /\ (d.state = "dead" <=> d2.state = "dead")
      /\ (d.state # d2.state => d2.state \in {"streaming", "streamingTx"})
  BY <1>2, CheckStreamsSame
<1> HIDE DEF d
<1> QED
  BY <1>0, <1>1, <1>2, <1>3 DEF SameQueue

\* An error stays, and a dead connection stays dead.
LEMMA SetErrorKeeps ==
  ASSUME NEW c, Conn(c), NEW fatal \in BOOLEAN
  PROVE  LET d == SetError(c, fatal)
         IN  Conn(d) /\ SameQueue(c, d) /\ d.err /\ (fatal => d.state = "dead") /\ Keeps(c, d)
<1> DEFINE e == [c EXCEPT !.err = TRUE,
                       !.state = IF fatal THEN "dead" ELSE IF c.err THEN @ ELSE "failed"]
           d == SetError(c, fatal)
<1>0. d = IF e.curr = NoStream THEN e ELSE Finish(e, e.curr, "err")
  BY DEF SetError
<1>1. DOMAIN e = ConnFields /\ e.err = TRUE /\ SameQueue(c, e) /\ e.curr = c.curr /\ e.txId = c.txId
      /\ e.streams = c.streams /\ e.state \in States
      /\ (fatal \/ (c.err /\ c.state = "dead") => e.state = "dead")
  BY DEF Conn, ConnFields, SameQueue, States
<1> HIDE DEF e
<1>2. Conn(e)
  <2>1. c.curr \in 0 .. c.made /\ c.txId \in BOOLEAN /\ DOMAIN c.streams = Streams
        /\ \A s \in Streams : StreamOK(c.streams[s])
    BY DEF Conn
  <2> QED
    BY <1>1, <2>1, SameConn
<1>3. e.curr # NoStream =>
        LET f == Finish(e, e.curr, "err")
        IN  Conn(f) /\ SameQueue(e, f) /\ f.err = e.err /\ (f.state = "dead" <=> e.state = "dead")
  BY <1>2, FinishKeeps
<1> HIDE DEF d
<1>4. Conn(d) /\ SameQueue(e, d) /\ d.err = e.err /\ (d.state = "dead" <=> e.state = "dead")
  BY <1>0, <1>2, <1>3 DEF SameQueue
<1>5. Conn(d) /\ SameQueue(c, d) /\ d.err /\ (fatal \/ (c.err /\ c.state = "dead") => d.state = "dead")
  BY <1>1, <1>4 DEF SameQueue
<1> QED
  BY <1>5, SameKeeps DEF d

\* A new key for the open streams.
LEMMA ResetStreamsKeeps ==
  ASSUME NEW c, Conn(c)
  PROVE  LET d == ResetStreams(c)
         IN  /\ Conn(d) /\ SameQueue(c, d) /\ d.err = c.err /\ d.state = c.state /\ Keeps(c, d)
             /\ d.curr = NoStream /\ d.txId = c.txId /\ \A s \in Streams : ~d.streams[s].safe
<1> DEFINE d == ResetStreams(c)
<1>1. DOMAIN d = ConnFields /\ d.curr = 0 /\ d.err = c.err /\ d.state = c.state /\ d.txId = c.txId
      /\ SameQueue(c, d) /\ d.streams = [s \in Streams |-> [c.streams[s] EXCEPT !.safe = FALSE]]
  BY DEF ResetStreams, Conn, ConnFields, SameQueue, NoStream
<1>2. DOMAIN d.streams = Streams
      /\ \A r \in Streams : StreamOK(d.streams[r]) /\ d.streams[r].safe = FALSE
  BY <1>1 DEF Conn, StreamOK, StreamFields
<1> HIDE DEF d
<1>3. Conn(d)
  <2>1. d.curr \in 0 .. c.made /\ c.state \in States /\ c.err \in BOOLEAN /\ c.txId \in BOOLEAN
    BY <1>1, NoStreamFits DEF Conn
  <2> QED
    BY <1>1, <1>2, <2>1, SameConn
<1>4. Keeps(c, d)
  BY <1>1, <1>3, SameKeeps
<1> QED
  BY <1>1, <1>2, <1>3, <1>4 DEF d, NoStream

\* attach: the stream becomes the current one.
LEMMA AttachKeeps ==
  ASSUME NEW c, Conn(c), NEW s \in 0 .. c.made
  PROVE  LET d == Attach(c, s)
         IN  Conn(d) /\ SameQueue(c, d) /\ d.err = c.err /\ d.state = c.state
<1> DEFINE d == [c EXCEPT !.num = @ + 1, !.curr = s, !.streams[s].safe = TRUE]
<1>1. DOMAIN d = ConnFields /\ d.streams = [c.streams EXCEPT ![s].safe = TRUE]
      /\ d.curr = s /\ d.err = c.err /\ d.state = c.state /\ d.txId = c.txId
      /\ SameQueue(c, d)
  BY DEF Conn, ConnFields, SameQueue
<1>2. DOMAIN d.streams = Streams /\ \A r \in Streams : StreamOK(d.streams[r])
  BY <1>1 DEF Conn, StreamOK, StreamFields
<1>0. Attach(c, s) = IF c.curr # NoStream THEN c ELSE d
  BY DEF Attach
<1> HIDE DEF d
<1>3. Conn(d)
  <2>1. d.curr \in 0 .. c.made /\ c.state \in States /\ c.err \in BOOLEAN /\ c.txId \in BOOLEAN
    BY <1>1 DEF Conn
  <2> QED
    BY <1>1, <1>2, <2>1, SameConn
<1> QED
  BY <1>0, <1>1, <1>3 DEF SameQueue

\* pause and resume change the current stream only.
LEMMA CurrKeeps ==
  ASSUME NEW c, Conn(c), NEW s \in 0 .. c.made
  PROVE  LET d == [c EXCEPT !.curr = s]
         IN  Conn(d) /\ SameQueue(c, d) /\ d.err = c.err /\ d.state = c.state /\ Keeps(c, d)
<1> DEFINE d == [c EXCEPT !.curr = s]
<1>1. DOMAIN d = ConnFields /\ d.streams = c.streams
      /\ d.curr = s /\ d.err = c.err /\ d.state = c.state /\ d.txId = c.txId
      /\ SameQueue(c, d)
  BY DEF Conn, ConnFields, SameQueue
<1> HIDE DEF d
<1>3. Conn(d)
  <2>1. d.curr \in 0 .. c.made /\ c.state \in States /\ c.err \in BOOLEAN /\ c.txId \in BOOLEAN
        /\ DOMAIN c.streams = Streams /\ \A r \in Streams : StreamOK(c.streams[r])
    BY <1>1 DEF Conn
  <2> QED
    BY <1>1, <2>1, SameConn
<1>4. Keeps(c, d)
  BY <1>1, <1>3, SameKeeps
<1> QED
  BY <1>1, <1>3, <1>4 DEF d

\* The state, and whether there is a transaction.
LEMMA StateKeeps ==
  ASSUME NEW c, Conn(c), NEW st \in States, NEW t \in BOOLEAN, c.err /\ c.state = "dead" => st = "dead"
  PROVE  /\ Keeps(c, [c EXCEPT !.state = st]) /\ Keeps(c, [c EXCEPT !.state = st, !.txId = t])
         /\ [c EXCEPT !.state = st].curr = c.curr /\ [c EXCEPT !.state = st].handlers = c.handlers
         /\ [c EXCEPT !.state = st].err = c.err /\ [c EXCEPT !.state = st].state = st
         /\ [c EXCEPT !.state = st].made = c.made
         /\ [c EXCEPT !.state = st, !.txId = t].made = c.made
         /\ [c EXCEPT !.state = st, !.txId = t].handlers = c.handlers
<1> DEFINE d == [c EXCEPT !.state = st]
           e == [c EXCEPT !.state = st, !.txId = t]
<1>1. DOMAIN d = ConnFields /\ d.streams = c.streams
      /\ d.curr = c.curr /\ d.err = c.err /\ d.state = st /\ d.txId = c.txId
      /\ SameQueue(c, d)
  BY DEF Conn, ConnFields, SameQueue
<1>2. DOMAIN e = ConnFields /\ e.streams = c.streams
      /\ e.curr = c.curr /\ e.err = c.err /\ e.state = st /\ e.txId = t
      /\ SameQueue(c, e)
  BY DEF Conn, ConnFields, SameQueue
<1> HIDE DEF d, e
<1>3. c.curr \in 0 .. c.made /\ c.state \in States /\ c.err \in BOOLEAN /\ c.txId \in BOOLEAN
        /\ DOMAIN c.streams = Streams /\ \A r \in Streams : StreamOK(c.streams[r])
    BY DEF Conn
<1>4. Conn(d)
  BY <1>1, <1>3, SameConn
<1>5. Conn(e)
  BY <1>2, <1>3, SameConn
<1>6. Keeps(c, d)
  BY <1>1, <1>4, SameKeeps
<1>7. Keeps(c, e)
  BY <1>2, <1>5, SameKeeps
<1> QED
  BY <1>1, <1>2, <1>6, <1>7 DEF d, e, SameQueue

\* One stream is replaced.
LEMMA StreamKeeps ==
  ASSUME NEW c, Conn(c), NEW s, NEW q, s \in Streams => StreamOK(q)
  PROVE  LET d == [c EXCEPT !.streams[s] = q]
         IN  /\ Conn(d) /\ SameQueue(c, d) /\ d.err = c.err /\ d.state = c.state /\ d.curr = c.curr
             /\ Keeps(c, d)
<1> DEFINE d == [c EXCEPT !.streams[s] = q]
<1>1. DOMAIN d = ConnFields /\ d.streams = [c.streams EXCEPT ![s] = q]
      /\ d.curr = c.curr /\ d.err = c.err /\ d.state = c.state /\ d.txId = c.txId
      /\ SameQueue(c, d)
  BY DEF Conn, ConnFields, SameQueue
<1>2. DOMAIN d.streams = Streams /\ \A r \in Streams : StreamOK(d.streams[r])
  BY <1>1 DEF Conn
<1> HIDE DEF d
<1>3. Conn(d)
  <2>1. d.curr \in 0 .. c.made /\ c.state \in States /\ c.err \in BOOLEAN /\ c.txId \in BOOLEAN
    BY <1>1 DEF Conn
  <2> QED
    BY <1>1, <1>2, <2>1, SameConn
<1>4. Keeps(c, d)
  BY <1>1, <1>3, SameKeeps
<1> QED
  BY <1>1, <1>3, <1>4 DEF d

\* The fields of a stream that the code sets.
LEMMA StreamFieldsKeep ==
  ASSUME NEW q, StreamOK(q), NEW x
  PROVE  /\ x \in Fetches => StreamOK([q EXCEPT !.fetch = x])
         /\ x \in {"no", "sum", "err"} => StreamOK([q EXCEPT !.done = x])
         /\ StreamOK([q EXCEPT !.discarding = x]) /\ StreamOK([q EXCEPT !.given = x])
         /\ StreamOK([q EXCEPT !.endOfBatch = x]) /\ StreamOK([q EXCEPT !.fifo = x])
         /\ StreamOK([q EXCEPT !.attached = x])
         /\ x \in Int => StreamOK([q EXCEPT !.qid = x])
  BY DEF StreamOK, StreamFields

\* The same in a connection.
LEMMA StreamFieldKeeps ==
  ASSUME NEW c, Conn(c), NEW s, NEW x
  PROVE  /\ Keeps(c, [c EXCEPT !.streams[s].fetch = All])
         /\ Keeps(c, [c EXCEPT !.streams[s].discarding = x])
         /\ Keeps(c, [c EXCEPT !.streams[s].given = x])
         /\ Keeps(c, [c EXCEPT !.streams[s].endOfBatch = x])
         /\ Keeps(c, [c EXCEPT !.streams[s].fifo = x])
<1>1. s \in Streams => StreamOK(c.streams[s])
  BY DEF Conn
<1>2. All \in Fetches
  BY DEF Fetches
<1> DEFINE q == c.streams[s]
<1>3. s \in Streams => /\ StreamOK([q EXCEPT !.fetch = All]) /\ StreamOK([q EXCEPT !.discarding = x])
                       /\ StreamOK([q EXCEPT !.given = x]) /\ StreamOK([q EXCEPT !.endOfBatch = x])
                       /\ StreamOK([q EXCEPT !.fifo = x])
  BY <1>1, <1>2, StreamFieldsKeep
<1>4. Keeps(c, [c EXCEPT !.streams[s] = [q EXCEPT !.fetch = All]])
  BY <1>3, StreamKeeps
<1>5. Keeps(c, [c EXCEPT !.streams[s] = [q EXCEPT !.discarding = x]])
  BY <1>3, StreamKeeps
<1>6. Keeps(c, [c EXCEPT !.streams[s] = [q EXCEPT !.given = x]])
  BY <1>3, StreamKeeps
<1>7. Keeps(c, [c EXCEPT !.streams[s] = [q EXCEPT !.endOfBatch = x]])
  BY <1>3, StreamKeeps
<1>8. Keeps(c, [c EXCEPT !.streams[s] = [q EXCEPT !.fifo = x]])
  BY <1>3, StreamKeeps
<1> QED
  BY <1>4, <1>5, <1>6, <1>7, <1>8, Zenon

-----------------------------------------------------------------------------
(* The queue of handlers and requests.                                     *)

\* A request is queued with its handler.
LEMMA MatchAppend ==
  ASSUME NEW hs \in Seq(Handlers), NEW q \in Seq(Requests), Matches(hs, q),
         NEW h \in Handlers, NEW r \in Requests, h.on = r.m, h.s = r.s
  PROVE  Matches(Append(hs, h), Append(q, r))
<1>1. Len(q) \in Nat /\ Len(hs) = Len(q)
  BY LenProperties DEF Matches
<1>2. Len(Append(hs, h)) = Len(q) + 1 /\ Len(Append(q, r)) = Len(q) + 1
  BY <1>1, AppendProperties
<1> SUFFICES ASSUME NEW i \in 1 .. Len(q) + 1
             PROVE  Append(q, r)[i].m = Append(hs, h)[i].on /\ Append(q, r)[i].s = Append(hs, h)[i].s
  BY <1>2 DEF Matches
<1>3. i \in 1 .. Len(q) \/ i = Len(q) + 1
  BY <1>1
<1> QED
  BY <1>1, <1>3, AppendProperties DEF Matches

\* The answer to the first request is given to the first handler.
LEMMA MatchTail ==
  ASSUME NEW hs \in Seq(Handlers), NEW q \in Seq(Requests), Matches(hs, q), q # << >>
  PROVE  /\ hs # << >> /\ Head(q).m = Head(hs).on /\ Head(q).s = Head(hs).s
         /\ Matches(Tail(hs), Tail(q))
<1>1. Len(q) \in Nat \ {0} /\ Len(hs) = Len(q)
  BY EmptySeq DEF Matches
<1>2. hs # << >>
  BY <1>1, EmptySeq
<1>3. Head(q) = q[1] /\ Head(hs) = hs[1]
  BY <1>1, <1>2
<1>4. Len(Tail(q)) = Len(q) - 1 /\ Len(Tail(hs)) = Len(q) - 1
  BY <1>1, <1>2, HeadTailProperties
<1>5. \A i \in 1 .. Len(q) - 1 : Tail(q)[i] = q[i + 1] /\ Tail(hs)[i] = hs[i + 1] /\ i + 1 \in 1 .. Len(q)
  BY <1>1, <1>2, <1>4, HeadTailProperties
<1> QED
  BY <1>1, <1>2, <1>3, <1>4, <1>5 DEF Matches

\* Both again in front, as after a record.
LEMMA MatchPush ==
  ASSUME NEW hs \in Seq(Handlers), NEW q \in Seq(Requests), Matches(hs, q),
         NEW h \in Handlers, NEW r \in Requests, h.on = r.m, h.s = r.s
  PROVE  Matches(<<h>> \o hs, <<r>> \o q)
<1>1. Len(q) \in Nat /\ Len(hs) = Len(q)
  BY LenProperties DEF Matches
<1>2. <<h>> \in Seq(Handlers) /\ Len(<<h>>) = 1 /\ <<h>>[1] = h
  OBVIOUS
<1>3. <<r>> \in Seq(Requests) /\ Len(<<r>>) = 1 /\ <<r>>[1] = r
  OBVIOUS
<1> DEFINE h1 == <<h>>
           r1 == <<r>>
<1> HIDE DEF h1, r1
<1>4. Len(h1 \o hs) = Len(q) + 1 /\ \A i \in 1 .. Len(q) + 1 : (h1 \o hs)[i] = IF i <= 1 THEN h1[i] ELSE hs[i - 1]
  BY <1>1, <1>2, ConcatProperties DEF h1
<1>5. Len(r1 \o q) = Len(q) + 1 /\ \A i \in 1 .. Len(q) + 1 : (r1 \o q)[i] = IF i <= 1 THEN r1[i] ELSE q[i - 1]
  BY <1>1, <1>3, ConcatProperties DEF r1
<1>6. h1[1] = h /\ r1[1] = r
  BY <1>2, <1>3 DEF h1, r1
<1> SUFFICES ASSUME NEW i \in 1 .. Len(q) + 1
             PROVE  (r1 \o q)[i].m = (h1 \o hs)[i].on /\ (r1 \o q)[i].s = (h1 \o hs)[i].s
  BY <1>4, <1>5 DEF Matches, h1, r1
<1>7. i = 1 \/ (i - 1 \in 1 .. Len(q) /\ ~(i <= 1))
  BY <1>1
<1>8. CASE i = 1
  BY <1>1, <1>4, <1>5, <1>6, <1>8
<1>9. CASE i - 1 \in 1 .. Len(q) /\ ~(i <= 1)
  <2>1. (r1 \o q)[i] = q[i - 1] /\ (h1 \o hs)[i] = hs[i - 1]
    BY <1>4, <1>5, <1>9
  <2> QED
    BY <1>9, <2>1 DEF Matches
<1> QED
  BY <1>7, <1>8, <1>9

\* One of the append functions: message and handler are queued together.
LEMMA EnqueueKeeps ==
  ASSUME NEW c, Conn(c), NEW r \in Requests, r.s <= c.made, c.v.major # 3
  PROVE  LET d == Enqueue(c, r)
         IN  /\ r.m # "reset" => Keeps(c, d)
             /\ Conn(d) /\ d.v = c.v /\ d.live = c.live /\ d.state = c.state /\ d.err = c.err
             /\ d.made = c.made /\ d.curr = c.curr /\ d.streams = c.streams /\ d.handlers # << >>
             /\ Len(d.handlers) = Len(c.handlers) + 1
             /\ Matches(c.handlers, c.wire \o c.out) => Matches(d.handlers, d.wire \o d.out)
             /\ AllKnown(c.handlers, c.made) => AllKnown(d.handlers, d.made)
<1> DEFINE d == Enqueue(c, r)
           h == [on |-> r.m, s |-> r.s]
<1>0. h \in Handlers /\ h.on = r.m /\ h.s = r.s
  BY DEF Handlers, Requests
<1>1. DOMAIN d = ConnFields /\ d.handlers = Append(c.handlers, h) /\ d.out = Append(c.out, r)
      /\ d.wire = c.wire /\ d.v = c.v /\ d.live = c.live /\ d.made = c.made /\ d.curr = c.curr
      /\ d.err = c.err /\ d.state = c.state /\ d.txId = c.txId /\ d.streams = c.streams
  BY DEF Conn, ConnFields, Enqueue
<1> HIDE DEF d, h
<1>2. c.handlers \in Seq(Handlers) /\ c.out \in Seq(Requests) /\ c.wire \in Seq(Requests)
  BY DEF Conn
<1>3. d.handlers \in Seq(Handlers) /\ d.out \in Seq(Requests) /\ d.handlers # << >>
  BY <1>0, <1>1, <1>2, AppendProperties
<1>4. Conn(d)
  BY <1>1, <1>3 DEF Conn
<1>5. d.wire \o d.out = Append(c.wire \o c.out, r) /\ c.wire \o c.out \in Seq(Requests)
  <2>1. Append(c.out, r) = c.out \o <<r>> /\ <<r>> \in Seq(Requests)
    BY <1>2, AppendIsConcat
  <2>2. (c.wire \o c.out) \o <<r>> = c.wire \o (c.out \o <<r>>)
    <3> DEFINE w == c.wire
               o == c.out
               t == <<r>>
    <3>1. w \in Seq(Requests) /\ o \in Seq(Requests) /\ t \in Seq(Requests)
      BY <1>2, <2>1
    <3> HIDE DEF w, o, t
    <3>2. (w \o o) \o t = w \o (o \o t)
      BY <3>1, ConcatAssociative
    <3> QED
      BY <3>2 DEF w, o, t
  <2>3. c.wire \o c.out \in Seq(Requests)
    BY <1>2, ConcatProperties
  <2>4. Append(c.wire \o c.out, r) = (c.wire \o c.out) \o <<r>>
    BY <2>3, AppendIsConcat
  <2> QED
    BY <1>1, <2>1, <2>2, <2>3, <2>4
<1>6. Matches(c.handlers, c.wire \o c.out) => Matches(d.handlers, d.wire \o d.out)
  BY <1>0, <1>1, <1>2, <1>5, MatchAppend
<1>7. /\ Len(c.handlers) \in Nat /\ Len(d.handlers) = Len(c.handlers) + 1
      /\ \A i \in 1 .. Len(c.handlers) : d.handlers[i] = c.handlers[i]
      /\ d.handlers[Len(c.handlers) + 1] = h
  BY <1>0, <1>1, <1>2, AppendProperties, LenProperties
<1>8. \A i \in 1 .. Len(d.handlers) : d.handlers[i] = h \/ \E j \in 1 .. Len(c.handlers) : d.handlers[i] = c.handlers[j]
  BY <1>7
<1>9. r.m # "reset" /\ NoReset(c.handlers) => NoReset(d.handlers)
  BY <1>0, <1>8 DEF NoReset
<1>10. AllKnown(c.handlers, c.made) => AllKnown(d.handlers, d.made)
  BY <1>0, <1>1, <1>8 DEF AllKnown
<1>11. c.made <= d.made
  BY <1>1, NoStreamFits
<1> QED
  BY <1>1, <1>3, <1>4, <1>6, <1>7, <1>9, <1>10, <1>11 DEF Keeps, d

\* A request without a stream.
LEMMA EnqueuePlainKeeps ==
  ASSUME NEW c, Conn(c), NEW m \in Messages, c.v.major # 3
  PROVE  LET d == EnqueuePlain(c, m)
         IN  /\ m # "reset" => Keeps(c, d)
             /\ Conn(d) /\ d.v = c.v /\ d.live = c.live /\ d.state = c.state /\ d.err = c.err
             /\ d.made = c.made /\ d.curr = c.curr /\ d.streams = c.streams /\ d.handlers # << >>
             /\ Len(d.handlers) = Len(c.handlers) + 1
             /\ Matches(c.handlers, c.wire \o c.out) => Matches(d.handlers, d.wire \o d.out)
             /\ AllKnown(c.handlers, c.made) => AllKnown(d.handlers, d.made)
<1> DEFINE r == Request(m, NoStream, 0, -1)
<1>1. r \in Requests /\ r.m = m /\ r.s <= c.made
  <2>1. c.made \in Nat /\ 0 \in 0 .. MaxStreams
    BY NoStreamFits, StreamsAreCounted
  <2> QED
    BY <2>1 DEF Request, Requests, NoStream, Fetches
<1> HIDE DEF r
<1> QED
  BY <1>1, EnqueueKeeps DEF EnqueuePlain, r

\* send: what is queued is on the wire, or the connection is dead.
LEMMA SendKeeps ==
  ASSUME NEW c, Conn(c)
  PROVE  LET d == Send(c)
         IN  /\ Keeps(c, d) /\ d.made = c.made /\ d.handlers = c.handlers /\ d.wire \o d.out = c.wire \o c.out
             /\ ~d.err => d.state = c.state /\ d.err = c.err /\ d.curr = c.curr /\ d.streams = c.streams
             /\ d.err => c.err \/ d.state = "dead"
<1> DEFINE d == [c EXCEPT !.wire = @ \o c.out, !.out = << >>]
           e == SetError(c, TRUE)
<1>0. Send(c) = IF net = "down" THEN e ELSE d
  BY DEF Send, OnIoError
<1>1. DOMAIN d = ConnFields /\ d.handlers = c.handlers /\ d.out = << >>
      /\ d.wire = c.wire \o c.out /\ d.v = c.v /\ d.live = c.live /\ d.made = c.made /\ d.curr = c.curr
      /\ d.err = c.err /\ d.state = c.state /\ d.txId = c.txId /\ d.streams = c.streams
  BY DEF Conn, ConnFields
<1>e. Keeps(c, e) /\ e.made = c.made /\ e.handlers = c.handlers /\ e.err /\ e.state = "dead"
      /\ e.wire = c.wire /\ e.out = c.out
  BY SetErrorKeeps DEF SameQueue
<1> HIDE DEF d, e
<1>2. c.out \in Seq(Requests) /\ c.wire \in Seq(Requests)
  BY DEF Conn
<1>3. d.out \in Seq(Requests) /\ d.wire \in Seq(Requests) /\ d.wire \o d.out = c.wire \o c.out
  <2>1. c.wire \o c.out \in Seq(Requests)
    BY <1>2, ConcatProperties
  <2> QED
    BY <1>1, <2>1, EmptySeq, ConcatEmptySeq
<1>4. Conn(d)
  BY <1>1, <1>3 DEF Conn
<1>5. c.made <= d.made
  BY <1>1, NoStreamFits
<1>6. Keeps(c, d)
  BY <1>1, <1>3, <1>4, <1>5 DEF Keeps
<1> QED
  BY <1>0, <1>1, <1>3, <1>6, <1>e

\* PULL for a stream.
LEMMA AppendPullNKeeps ==
  ASSUME NEW c, Conn(c), NEW s \in 1 .. c.made, c.v.major # 3
  PROVE  LET d == AppendPullN(c, s)
         IN  Keeps(c, d) /\ d.state = c.state /\ d.err = c.err /\ d.made = c.made
<1> DEFINE qid == IF c.state = "streamingTx" /\ c.streams[s].qid # c.lastQid
                  THEN c.streams[s].qid ELSE -1
           r == Request("pull", s, c.streams[s].fetch, qid)
<1>1. s \in Streams /\ s \in 0 .. MaxStreams /\ s <= c.made
  BY NoStreamFits, StreamsAreCounted DEF Conn, Streams
<1>2. c.streams[s].fetch \in Fetches /\ qid \in Int
  BY <1>1 DEF Conn, StreamOK
<1> HIDE DEF qid
<1>3. r \in Requests /\ r.m = "pull" /\ r.s <= c.made
  BY <1>1, <1>2 DEF Request, Requests, Messages
<1>4. AppendPullN(c, s) = IF c.state \in {"streaming", "streamingTx"} THEN Enqueue(c, r) ELSE c
  BY DEF AppendPullN, qid
<1> HIDE DEF r
<1>5. Keeps(c, c)
  BY SameKeeps DEF SameQueue
<1> QED
  BY <1>3, <1>4, <1>5, EnqueueKeeps

\* DISCARD for a stream.
LEMMA AppendDiscardAllKeeps ==
  ASSUME NEW c, Conn(c), NEW s \in 1 .. c.made, c.v.major # 3
  PROVE  LET d == AppendDiscardAll(c, s)
         IN  Keeps(c, d) /\ d.made = c.made
<1> DEFINE qid == IF c.state = "streamingTx" /\ c.streams[s].qid # c.lastQid
                  THEN c.streams[s].qid ELSE -1
           r == Request("discard", s, All, qid)
           e == [c EXCEPT !.streams[s].fetch = All]
<1>1. s \in Streams /\ s \in 0 .. MaxStreams /\ s <= c.made
  BY NoStreamFits, StreamsAreCounted DEF Conn, Streams
<1>2. qid \in Int
  BY <1>1 DEF Conn, StreamOK
<1> HIDE DEF qid
<1>3. r \in Requests /\ r.m = "discard" /\ r.s = s
  BY <1>1, <1>2 DEF Request, Requests, Messages, Fetches
<1>4. AppendDiscardAll(c, s) = Enqueue(e, r)
  BY DEF AppendDiscardAll, qid
<1> HIDE DEF r
<1>0. Keeps(c, e)
  BY StreamFieldKeeps
<1>6. e.made = c.made
  BY DEF Conn, ConnFields
<1> HIDE DEF e
<1>5. Keeps(c, e) /\ Conn(e) /\ e.v = c.v
  BY <1>0 DEF Keeps
<1>7. Keeps(e, Enqueue(e, r)) /\ Enqueue(e, r).made = e.made
  BY <1>1, <1>3, <1>5, <1>6, EnqueueKeeps
<1> QED
  BY <1>4, <1>5, <1>6, <1>7, KeepsTrans

-----------------------------------------------------------------------------
(* Responses.                                                              *)

\* What the server answers: a record for a PULL only, and a RESET is not ignored.
AnswerTo(r, a) ==
  /\ a.answer.k \in {"success", "failure", "ignored", "record"}
  /\ a.answer.k = "success" => a.answer.more \in BOOLEAN /\ a.answer.qid \in Int
  /\ a.answer.k = "record" => r.m = "pull"
  /\ a.answer.k = "ignored" => r.m # "reset"

\* The request is answered, or has one record more.
WireAfter(w, a) ==
  IF a.answer.k = "record" THEN a.wire = <<[Head(w) EXCEPT !.got = @ + 1]>> \o Tail(w)
  ELSE a.wire = Tail(w)

\* The server moves between its states.
LEMMA ServedOK ==
  ASSUME Server, NEW r \in Requests
  PROVE  ServerOK(Served(r)) /\ \A x : ServerOK(Closed(srv, x))
<1>1. ServerOK(srv) /\ << >> \in Seq(Nat)
  BY EmptySeq DEF Server, ServerOK
<1>2. r.s \in Nat
  BY StreamsAreCounted DEF Requests
<1>3. Append(srv.byQid, r.s) \in Seq(Nat)
  BY <1>1, <1>2, AppendProperties DEF ServerOK
<1>4. \A x : ServerOK(Closed(srv, x))
  BY <1>1 DEF ServerOK, Closed
<1>5. ServerOK(Served(r))
  <2>1. \A st \in {"ready", "loggedOff", "tx"} : ServerOK([srv EXCEPT !.st = st])
    BY <1>1 DEF ServerOK
  <2>2. ServerOK([srv EXCEPT !.st = "ready", !.open = {}, !.byQid = << >>])
    BY <1>1 DEF ServerOK
  <2>3. ServerOK([srv EXCEPT !.open = @ \cup {r.s}, !.last = r.s, !.byQid = Append(@, r.s)])
    BY <1>1, <1>3 DEF ServerOK
  <2>4. ServerOK([srv EXCEPT !.st = "streaming", !.open = {r.s}, !.last = r.s])
    BY <1>1 DEF ServerOK
  <2> QED
    BY <1>1, <1>4, <2>1, <2>2, <2>3, <2>4 DEF Served
<1> QED
  BY <1>4, <1>5

\* Every answer is one of these.
LEMMA AnswersOK ==
  ASSUME Conn(b), Server, b.wire # << >>, NEW a \in Answers
  PROVE  AnswerTo(Head(b.wire), a) /\ WireAfter(b.wire, a) /\ ServerOK(a.srv)
<1> DEFINE r == Head(b.wire)
           rest == Tail(b.wire)
           failures == {[answer |-> [k |-> "failure", code |-> code],
                      srv |-> [srv EXCEPT !.st = "failed", !.open = {}, !.byQid = << >>,
                                          !.refused = IF Allowed(r) THEN @ ELSE @ \cup {<<r.m, srv.st>>}],
                      wire |-> rest] : code \in Codes}
           qid == IF r.m = "run" /\ srv.st = "tx" /\ b.v.major > 3 THEN Len(srv.byQid) ELSE -1
           ignored == [answer |-> [k |-> "ignored"], srv |-> srv, wire |-> rest]
           done == [answer |-> [Success EXCEPT !.qid = qid], srv |-> Served(r), wire |-> rest]
<1>1. r \in Requests
  BY HeadTailProperties DEF Conn
<1>2. ServerOK(srv) /\ << >> \in Seq(Nat) /\ qid \in Int
  BY EmptySeq, LenProperties DEF Server, ServerOK
<1>3. \/ a = ignored /\ r.m # "reset"
      \/ a \in failures
      \/ a \in PullAnswers(r, rest) /\ r.m = "pull"
      \/ a = done
  BY DEF Answers
<1> HIDE DEF r, qid, rest
<1>4. CASE a = ignored /\ r.m # "reset"
  BY <1>2, <1>4 DEF AnswerTo, WireAfter, r, rest
<1>5. CASE a \in failures
  <2> DEFINE x == IF Allowed(r) THEN srv.refused ELSE srv.refused \cup {<<r.m, srv.st>>}
             s2 == [srv EXCEPT !.st = "failed", !.open = {}, !.byQid = << >>, !.refused = x]
  <2>1. PICK code \in Codes : a = [answer |-> [k |-> "failure", code |-> code], srv |-> s2, wire |-> rest]
    BY <1>5
  <2> HIDE DEF x
  <2>2. ServerOK(s2)
    BY <1>2 DEF ServerOK
  <2> HIDE DEF s2
  <2> QED
    BY <2>1, <2>2 DEF AnswerTo, WireAfter, r, rest
<1>6. CASE a \in PullAnswers(r, rest) /\ r.m = "pull"
  <2> DEFINE s == Target(r)
             one == [answer |-> [k |-> "record", record |-> <<s, srv.sent[s] + 1>>],
                   srv |-> [srv EXCEPT !.sent[s] = @ + 1],
                   wire |-> <<[r EXCEPT !.got = @ + 1]>> \o rest]
             batchEnd == [answer |-> [Success EXCEPT !.more = TRUE], srv |-> srv, wire |-> rest]
             end == [answer |-> Success, srv |-> Closed(srv, s), wire |-> rest]
  <2>1. a = one \/ a = batchEnd \/ a = end
    BY <1>6 DEF PullAnswers
  <2> HIDE DEF s
  <2>2. CASE a = one
    <3>1. ServerOK([srv EXCEPT !.sent[s] = @ + 1])
      BY <1>2 DEF ServerOK
    <3> QED
      BY <1>6, <2>2, <3>1 DEF AnswerTo, WireAfter, r, rest
  <2>3. CASE a = batchEnd
    <3> DEFINE t == [Success EXCEPT !.more = TRUE]
    <3>1. t.k = "success" /\ t.more \in BOOLEAN /\ t.qid \in Int
      BY DEF Success
    <3> HIDE DEF t
    <3>2. a.answer = t /\ a.srv = srv /\ a.wire = rest
      BY <2>3 DEF t
    <3> QED
      BY <1>2, <3>1, <3>2 DEF AnswerTo, WireAfter, rest
  <2>4. CASE a = end
    <3>1. ServerOK(Closed(srv, s))
      BY <1>1, ServedOK
    <3>2. Success.k = "success" /\ Success.more \in BOOLEAN /\ Success.qid \in Int
      BY DEF Success
    <3>3. a.answer = Success /\ a.srv = Closed(srv, s) /\ a.wire = rest
      BY <2>4
    <3> QED
      BY <3>1, <3>2, <3>3 DEF AnswerTo, WireAfter, rest
  <2> QED
    BY <2>1, <2>2, <2>3, <2>4
<1>7. CASE a = done
  BY <1>1, <1>2, <1>7, ServedOK DEF AnswerTo, WireAfter, r, rest, Success
<1> QED
  BY <1>3, <1>4, <1>5, <1>6, <1>7

\* What a handler may do to the connection: nothing to the queue, and errors stay.
Handled(c, d) ==
  Conn(d) /\ SameQueue(c, d) /\ (c.err => d.err) /\ (c.err /\ c.state = "dead" => d.state = "dead")

\* The answer to RUN: the stream is attached.
LEMMA RunHandled ==
  ASSUME NEW c, Conn(c), NEW s \in 0 .. c.made, NEW answer, answer.k \in {"success", "failure", "ignored"},
         answer.k = "success" => answer.qid \in Int
  PROVE  LET d == RunResponseHandler(c, s, answer)
         IN  Handled(c, d) /\ (answer.k = "failure" => d.err)
<1> DEFINE q == IF answer.qid > -1 THEN answer.qid ELSE c.lastQid
           e == [c EXCEPT !.streams[s].attached = TRUE, !.streams[s].qid = answer.qid, !.lastQid = q]
           d == RunResponseHandler(c, s, answer)
<1>1. CASE answer.k = "success"
  <2>1. d = Attach(e, s)
    BY <1>1 DEF RunResponseHandler, ExpectedSuccessHandler
  <2> HIDE DEF q
  <2>2. DOMAIN e = ConnFields /\ SameQueue(c, e) /\ e.curr = c.curr /\ e.err = c.err
        /\ e.state = c.state /\ e.txId = c.txId
        /\ e.streams = [[c.streams EXCEPT ![s].attached = TRUE] EXCEPT ![s].qid = answer.qid]
    BY DEF Conn, ConnFields, SameQueue
  <2>3. DOMAIN e.streams = Streams /\ \A r \in Streams : StreamOK(e.streams[r])
    BY <1>1, <2>2 DEF Conn, StreamOK, StreamFields
  <2> HIDE DEF e
  <2>4. Conn(e)
    <3>1. e.curr \in 0 .. c.made /\ c.state \in States /\ c.err \in BOOLEAN /\ c.txId \in BOOLEAN
      BY <2>2 DEF Conn
    <3> QED
      BY <2>2, <2>3, <3>1, SameConn
  <2>5. Conn(Attach(e, s)) /\ SameQueue(e, Attach(e, s)) /\ Attach(e, s).err = e.err
        /\ Attach(e, s).state = e.state
    <3>1. s \in 0 .. e.made
      BY <2>2 DEF SameQueue
    <3> QED
      BY <2>4, <3>1, AttachKeeps
  <2> QED
    BY <1>1, <2>1, <2>2, <2>5 DEF Handled, SameQueue
<1>2. CASE answer.k = "failure"
  <2>1. d = SetError(c, IsFatalError(answer.code)) /\ IsFatalError(answer.code) \in BOOLEAN
    BY <1>2 DEF RunResponseHandler, ExpectedSuccessHandler, OnFailure, IsFatalError
  <2> QED
    BY <2>1, SetErrorKeeps DEF Handled, Keeps
<1>3. CASE answer.k = "ignored"
  <2>1. d = c
    BY <1>3 DEF RunResponseHandler, ExpectedSuccessHandler
  <2> QED
    BY <1>3, <2>1 DEF Handled, SameQueue
<1> QED
  BY <1>1, <1>2, <1>3

\* The answers to PULL and DISCARD, records apart.
LEMMA StreamHandled ==
  ASSUME NEW c, Conn(c), NEW h \in Handlers, NEW answer, answer.k \in {"success", "failure", "ignored"},
         answer.k = "success" => answer.more \in BOOLEAN
  PROVE  LET d == StreamResponseHandler(c, h, answer)
         IN  Handled(c, d) /\ (answer.k = "failure" => d.err)
<1> DEFINE s == h.s
           f == IF c.streams[s].discarding THEN << >> ELSE c.streams[s].fifo
           e == [c EXCEPT !.streams[s].fifo = f]
           g == [c EXCEPT !.streams[s].done = "err"]
           d == StreamResponseHandler(c, h, answer)
<1>1. Conn(e) /\ Conn(g) /\ SameQueue(c, e) /\ SameQueue(c, g) /\ e.err = c.err /\ g.err = c.err
      /\ e.state = c.state /\ g.state = c.state
  <2>1. Conn(g) /\ SameQueue(c, g) /\ g.err = c.err /\ g.state = c.state
    BY DoneSame
  <2>2. Keeps(c, e)
    <3> HIDE DEF f
    <3> QED
      BY StreamFieldKeeps
  <2>3. SameQueue(c, e) /\ e.err = c.err /\ e.state = c.state
    <3> HIDE DEF f
    <3> QED
      BY DEF Conn, ConnFields, SameQueue
  <2> HIDE DEF e, g
  <2> QED
    BY <2>1, <2>2, <2>3 DEF Keeps
<1>2. CASE answer.k = "ignored"
  <2>1. d = Finish(c, s, "err")
    BY <1>2 DEF StreamResponseHandler
  <2> QED
    BY <1>2, <2>1, FinishKeeps DEF Handled
<1>3. CASE answer.k = "failure"
  <2>1. d = SetError(g, IsFatalError(answer.code)) /\ IsFatalError(answer.code) \in BOOLEAN
    BY <1>3 DEF StreamResponseHandler, OnFailure, IsFatalError
  <2> HIDE DEF e, g, d
  <2>2. Conn(d) /\ SameQueue(g, d) /\ d.err /\ Keeps(g, d)
    BY <1>1, <2>1, SetErrorKeeps
  <2>3. SameQueue(c, d)
    BY <1>1, <2>2 DEF SameQueue
  <2> QED
    BY <1>1, <2>2, <2>3 DEF Handled, Keeps, d
<1>4. CASE answer.k = "success" /\ answer.more
  <2> DEFINE z == [e EXCEPT !.streams[s].endOfBatch = TRUE]
  <2>1. d = z
    BY <1>4 DEF StreamResponseHandler
  <2> HIDE DEF e, g, d
  <2>2. Keeps(e, z)
    BY <1>1, StreamFieldKeeps
  <2>3. SameQueue(e, z)
    BY <1>1 DEF Conn, ConnFields, SameQueue
  <2> HIDE DEF z
  <2>4. SameQueue(c, z)
    BY <1>1, <2>3 DEF SameQueue
  <2> QED
    BY <1>1, <1>4, <2>1, <2>2, <2>4 DEF Handled, Keeps, d
<1>5. CASE answer.k = "success" /\ ~answer.more
  <2>1. d = Finish(e, s, "sum")
    BY <1>5 DEF StreamResponseHandler
  <2> HIDE DEF e, g, d
  <2>2. Conn(d) /\ SameQueue(e, d) /\ d.err = e.err /\ (d.state = "dead" <=> e.state = "dead")
    BY <1>1, <2>1, FinishKeeps
  <2>3. SameQueue(c, d)
    BY <1>1, <2>2 DEF SameQueue
  <2> QED
    BY <1>1, <1>5, <2>2, <2>3 DEF Handled, d
<1> QED
  BY <1>2, <1>3, <1>4, <1>5

\* Handle: what the handler h of a request makes of the answer.
LEMMA HandleOK ==
  ASSUME NEW c, Conn(c), NEW h \in Handlers, h.s <= c.made,
         NEW answer, answer.k \in {"success", "failure", "ignored", "record"},
         answer.k = "success" => answer.more \in BOOLEAN /\ answer.qid \in Int
  PROVE  LET d == Handle(c, h, answer)
         IN  /\ Conn(d) /\ d.v = c.v /\ d.live = c.live /\ d.made = c.made
             /\ d.wire = c.wire /\ d.out = c.out
             /\ d.handlers = IF answer.k = "record" /\ h.on = "pull" THEN <<h>> \o c.handlers
                             ELSE c.handlers
             /\ c.err => d.err
             /\ c.err /\ c.state = "dead" /\ h.on # "reset" => d.state = "dead"
             /\ answer.k = "failure" /\ h.on # "reset" => d.err
<1> DEFINE d == Handle(c, h, answer)
<1>1. CASE Unexpected(h, answer)
  <2>1. d = c
    BY <1>1 DEF Handle
  <2>2. answer.k # "failure" /\ ~(answer.k = "record" /\ h.on = "pull")
    BY <1>1 DEF Unexpected
  <2> QED
    BY <2>1, <2>2
<1>2. CASE ~Unexpected(h, answer) /\ h.on = "run"
  <2>1. d = RunResponseHandler(c, h.s, answer)
    BY <1>2 DEF Handle
  <2>2. answer.k # "record"
    BY <1>2 DEF Unexpected
  <2>3. h.s \in 0 .. c.made
    BY NoStreamFits, StreamsAreCounted DEF Handlers
  <2>4. Handled(c, d) /\ (answer.k = "failure" => d.err)
    BY <2>1, <2>2, <2>3, RunHandled
  <2> HIDE DEF d
  <2> QED
    BY <2>2, <2>4 DEF Handled, SameQueue, d
<1>3. CASE h.on \in {"pull", "discard"} /\ answer.k # "record"
  <2>1. d = StreamResponseHandler(c, h, answer)
    BY <1>3 DEF Handle, Unexpected
  <2>2. Handled(c, d) /\ (answer.k = "failure" => d.err)
    BY <1>3, <2>1, StreamHandled
  <2> HIDE DEF d
  <2> QED
    BY <1>3, <2>2 DEF Handled, SameQueue, d
<1>4. CASE h.on = "pull" /\ answer.k = "record"
  <2> DEFINE s == h.s
             f == IF c.streams[s].discarding THEN << >> ELSE Append(c.streams[s].fifo, answer.record)
             e == [c EXCEPT !.streams[s].fifo = f]
             hs == <<h>> \o c.handlers
  <2>1. d = [c EXCEPT !.streams[s].fifo = f, !.handlers = hs]
    BY <1>4 DEF Handle, Unexpected, StreamResponseHandler
  <2> HIDE DEF f
  <2>2. hs \in Seq(Handlers)
    <3>1. <<h>> \in Seq(Handlers) /\ c.handlers \in Seq(Handlers)
      BY DEF Conn
    <3> DEFINE one == <<h>>
               two == c.handlers
    <3> HIDE DEF one, two
    <3>2. one \o two \in Seq(Handlers)
      BY <3>1, ConcatProperties DEF one, two
    <3> QED
      BY <3>2 DEF one, two
  <2> HIDE DEF hs
  <2>3. Keeps(c, e) /\ SameQueue(c, e) /\ e.err = c.err /\ e.state = c.state
    BY StreamFieldKeeps DEF Conn, ConnFields, SameQueue
  <2>4. DOMAIN d = ConnFields /\ d.handlers = hs /\ d.out = c.out
      /\ d.wire = c.wire /\ d.v = c.v /\ d.live = c.live /\ d.made = c.made /\ d.curr = c.curr
      /\ d.err = c.err /\ d.state = c.state /\ d.txId = c.txId /\ d.streams = e.streams
    BY <2>1 DEF Conn, ConnFields
  <2> HIDE DEF d, e
  <2>5. Conn(d)
    BY <2>2, <2>3, <2>4 DEF Conn, Keeps
  <2> QED
    BY <1>4, <2>4, <2>5 DEF d, hs
<1>5. CASE ~Unexpected(h, answer) /\ h.on = "reset"
  <2> DEFINE st == IF answer.k = "success" THEN "ready" ELSE "dead"
  <2>1. d = [c EXCEPT !.state = st]
    BY <1>5 DEF Handle, ResetResponseHandler
  <2>2. st \in States
    BY DEF States
  <2> HIDE DEF st
  <2>3. DOMAIN d = ConnFields /\ SameQueue(c, d) /\ d.state = st /\ d.err = c.err /\ d.curr = c.curr
        /\ d.streams = c.streams /\ d.txId = c.txId
    BY <2>1 DEF Conn, ConnFields, SameQueue
  <2> HIDE DEF d
  <2>4. Conn(d)
    <3>1. c.curr \in 0 .. c.made /\ c.state \in States /\ c.err \in BOOLEAN /\ c.txId \in BOOLEAN
        /\ DOMAIN c.streams = Streams /\ \A r \in Streams : StreamOK(c.streams[r])
      BY DEF Conn
    <3> QED
      BY <2>2, <2>3, <3>1, SameConn
  <2> QED
    BY <1>5, <2>3, <2>4 DEF d, SameQueue
<1>6. CASE ~Unexpected(h, answer) /\ h.on \notin {"run", "pull", "discard", "reset"}
  <2>1. d = ExpectedSuccessHandler(c, h, answer, c) /\ answer.k # "record"
    BY <1>6 DEF Handle, Unexpected
  <2>2. CASE answer.k = "failure"
    <3>1. d = SetError(c, IsFatalError(answer.code)) /\ IsFatalError(answer.code) \in BOOLEAN
      BY <2>1, <2>2 DEF ExpectedSuccessHandler, OnFailure, IsFatalError
    <3>2. Conn(d) /\ SameQueue(c, d) /\ d.err /\ Keeps(c, d)
      BY <3>1, SetErrorKeeps
    <3> HIDE DEF d
    <3> QED
      BY <2>2, <3>2 DEF d, SameQueue, Keeps
  <2>3. CASE answer.k # "failure"
    <3>1. d = c
      BY <2>1, <2>3 DEF ExpectedSuccessHandler
    <3> QED
      BY <2>1, <2>3, <3>1
  <2> QED
    BY <2>2, <2>3
<1> QED
  BY <1>1, <1>2, <1>3, <1>4, <1>5, <1>6 DEF Unexpected

\* A sequence in front of another one.
LEMMA ConcatHeadTail ==
  ASSUME NEW S, NEW p \in Seq(S), NEW q \in Seq(S), p # << >>
  PROVE  /\ p \o q # << >> /\ p \o q \in Seq(S)
         /\ Head(p \o q) = Head(p) /\ Tail(p \o q) = Tail(p) \o q /\ Tail(p) \o q \in Seq(S)
<1>1. Len(p) \in Nat \ {0} /\ Len(q) \in Nat
  BY EmptySeq, LenProperties
<1>2. p \o q \in Seq(S) /\ Len(p \o q) = Len(p) + Len(q)
      /\ \A i \in 1 .. Len(p) + Len(q) : (p \o q)[i] = IF i <= Len(p) THEN p[i] ELSE q[i - Len(p)]
  BY ConcatProperties
<1>3. p \o q # << >>
  BY <1>1, <1>2, EmptySeq
<1>4. Tail(p) \in Seq(S) /\ Len(Tail(p)) = Len(p) - 1 /\ \A i \in 1 .. Len(p) - 1 : Tail(p)[i] = p[i + 1]
  BY HeadTailProperties
<1> DEFINE t == Tail(p)
           l == Tail(p \o q)
           r == t \o q
<1> HIDE DEF t
<1>5. r \in Seq(S) /\ Len(r) = Len(p) - 1 + Len(q)
      /\ \A i \in 1 .. Len(p) - 1 + Len(q) : r[i] = IF i <= Len(p) - 1 THEN t[i] ELSE q[i - (Len(p) - 1)]
  BY <1>4, ConcatProperties DEF t
<1>6. l \in Seq(S) /\ Len(l) = Len(p) + Len(q) - 1 /\ \A i \in 1 .. Len(p) + Len(q) - 1 : l[i] = (p \o q)[i + 1]
  BY <1>2, <1>3, HeadTailProperties
<1> HIDE DEF l, r
<1>7. \A i \in 1 .. Len(l) : l[i] = r[i]
  <2> SUFFICES ASSUME NEW i \in 1 .. Len(l)
               PROVE  l[i] = r[i]
    OBVIOUS
  <2>1. i \in 1 .. Len(p) + Len(q) - 1 /\ i + 1 \in 1 .. Len(p) + Len(q) /\ i \in Int
    BY <1>1, <1>6
  <2>2. l[i] = IF i + 1 <= Len(p) THEN p[i + 1] ELSE q[i + 1 - Len(p)]
    BY <1>2, <1>6, <2>1
  <2>3. r[i] = IF i <= Len(p) - 1 THEN t[i] ELSE q[i - (Len(p) - 1)]
    BY <1>1, <1>5, <2>1
  <2>4. CASE i <= Len(p) - 1
    <3>1. i \in 1 .. Len(p) - 1 /\ i + 1 <= Len(p)
      BY <1>1, <2>1, <2>4
    <3> QED
      BY <1>4, <2>2, <2>3, <2>4, <3>1 DEF t
  <2>5. CASE ~(i <= Len(p) - 1)
    <3>1. ~(i + 1 <= Len(p)) /\ i + 1 - Len(p) = i - (Len(p) - 1)
      BY <1>1, <2>1, <2>5
    <3> QED
      BY <2>2, <2>3, <2>5, <3>1
  <2> QED
    BY <2>4, <2>5
<1>8. l = r
  BY <1>1, <1>5, <1>6, <1>7, SeqEqual
<1>9. Head(p \o q) = Head(p)
  <2>1. Head(p) = p[1] /\ Head(p \o q) = (p \o q)[1] /\ 1 <= Len(p) /\ 1 \in 1 .. Len(p) + Len(q)
    BY <1>1, <1>2, <1>3
  <2> QED
    BY <1>2, <2>1
<1> QED
  BY <1>2, <1>3, <1>5, <1>8, <1>9 DEF l, r, t

\* A sequence is its head and its tail.
LEMMA HeadAndTail ==
  ASSUME NEW S, NEW q \in Seq(S), q # << >>
  PROVE  <<Head(q)>> \o Tail(q) = q
<1>1. Len(q) \in Nat \ {0} /\ Head(q) \in S /\ Tail(q) \in Seq(S) /\ Len(Tail(q)) = Len(q) - 1
      /\ \A i \in 1 .. Len(Tail(q)) : Tail(q)[i] = q[i + 1]
  BY EmptySeq, HeadTailProperties
<1>2. Head(q) = q[1]
  BY <1>1
<1> DEFINE o == <<Head(q)>>
           t == Tail(q)
<1>3. o \in Seq(S) /\ Len(o) = 1 /\ o[1] = q[1] /\ t \in Seq(S)
  BY <1>1, <1>2
<1> HIDE DEF o, t
<1>4. o \o t \in Seq(S) /\ Len(o \o t) = 1 + Len(t)
      /\ \A i \in 1 .. 1 + Len(t) : (o \o t)[i] = IF i <= 1 THEN o[i] ELSE t[i - 1]
  <2>1. o \o t \in Seq(S) /\ Len(o \o t) = Len(o) + Len(t)
        /\ \A i \in 1 .. Len(o) + Len(t) : (o \o t)[i] = IF i <= Len(o) THEN o[i] ELSE t[i - Len(o)]
    BY <1>3, ConcatProperties
  <2> QED
    BY <1>3, <2>1
<1>5. \A i \in 1 .. Len(q) : (o \o t)[i] = q[i]
  <2> SUFFICES ASSUME NEW i \in 1 .. Len(q)
               PROVE  (o \o t)[i] = q[i]
    OBVIOUS
  <2>0. i \in 1 .. 1 + Len(t)
    BY <1>1 DEF t
  <2>1. CASE i = 1
    BY <1>3, <1>4, <2>0, <2>1
  <2>2. CASE i # 1
    <3>1. i - 1 \in 1 .. Len(t) /\ ~(i <= 1) /\ (i - 1) + 1 = i
      BY <1>1, <2>2 DEF t
    <3>2. t[i - 1] = q[(i - 1) + 1]
      BY <1>1, <3>1 DEF t
    <3> QED
      BY <1>4, <2>0, <3>1, <3>2
  <2> QED
    BY <2>1, <2>2
<1> QED
  BY <1>1, <1>4, <1>5, SeqEqual DEF o, t

\* What Receive makes of the connection when the answer is a.
Received(a) ==
  LET read == [b EXCEPT !.wire = a.wire]
  IN  IF b.handlers = << >> THEN read
      ELSE Handle([read EXCEPT !.handlers = Tail(@)], Head(b.handlers), a.answer)

\* Every response reaches the handler of its own request.
LEMMA ReceivedOK ==
  ASSUME Conn(b), Server, b.wire # << >>, NEW a \in Answers, AllKnown(b.handlers, b.made)
  PROVE  LET c == Received(a)
             matched == Matches(b.handlers, b.wire \o b.out)
         IN  /\ Conn(c) /\ ServerOK(a.srv) /\ c.v = b.v /\ c.live = b.live /\ c.made = b.made
             /\ b.err => c.err
             /\ matched => /\ Matches(c.handlers, c.wire \o c.out)
                           /\ b.handlers # << >> /\ ~Unexpected(Head(b.handlers), a.answer)
             /\ NoReset(b.handlers) =>
                  /\ NoReset(c.handlers)
                  /\ b.err /\ b.state = "dead" => c.state = "dead"
                  /\ b.handlers # << >> /\ a.answer.k = "failure" => c.err
             /\ AllKnown(c.handlers, c.made)
             /\ b.handlers = << >> => c.handlers = << >>
             /\ matched /\ ~NoReset(b.handlers) /\ Len(b.handlers) = 1 => c.handlers = << >>
<1> DEFINE read == [b EXCEPT !.wire = a.wire]
           e == [read EXCEPT !.handlers = Tail(@)]
           h == Head(b.handlers)
           hs == b.handlers
           rest == Tail(b.wire)
           r == Head(b.wire)
           r2 == [Head(b.wire) EXCEPT !.got = @ + 1]
           matched == Matches(b.handlers, b.wire \o b.out)
<1>1. AnswerTo(r, a) /\ WireAfter(b.wire, a) /\ ServerOK(a.srv)
  BY AnswersOK
<1>2. b.handlers \in Seq(Handlers) /\ b.out \in Seq(Requests) /\ b.wire \in Seq(Requests)
  BY DEF Conn
<1>3. r \in Requests /\ rest \in Seq(Requests)
  BY <1>2, HeadTailProperties
<1>4. r2 \in Requests /\ r2.m = r.m /\ r2.s = r.s
  <2>1. r.got + 1 \in Nat
    BY <1>3 DEF Requests
  <2> DEFINE n == r.got + 1
  <2>2. r2 = [r EXCEPT !.got = n]
    OBVIOUS
  <2> HIDE DEF n, r
  <2>3. [r EXCEPT !.got = n] \in Requests /\ [r EXCEPT !.got = n].m = r.m /\ [r EXCEPT !.got = n].s = r.s
    BY <1>3, <2>1 DEF Requests, n
  <2> QED
    BY <2>2, <2>3
<1>5. a.wire \in Seq(Requests)
  <2>1. <<r2>> \in Seq(Requests)
    BY <1>4
  <2>2. <<r2>> \o rest \in Seq(Requests)
    <3> DEFINE o == <<r2>>
    <3> HIDE DEF o, rest, r2
    <3> QED
      BY <1>3, <2>1, ConcatProperties DEF o
  <2> QED
    BY <1>1, <1>3, <2>2 DEF WireAfter
<1>6. Conn(read) /\ read.handlers = b.handlers /\ read.out = b.out /\ read.wire = a.wire
      /\ read.v = b.v /\ read.live = b.live /\ read.made = b.made /\ read.err = b.err /\ read.state = b.state
  <2>1. DOMAIN read = ConnFields /\ read.handlers = b.handlers /\ read.out = b.out /\ read.wire = a.wire
      /\ read.v = b.v /\ read.live = b.live /\ read.made = b.made /\ read.err = b.err /\ read.state = b.state
      /\ read.curr = b.curr /\ read.txId = b.txId /\ read.streams = b.streams
    BY DEF Conn, ConnFields
  <2> HIDE DEF read
  <2> QED
    BY <1>5, <2>1 DEF Conn
<1>7. matched => /\ hs # << >> /\ r.m = h.on /\ r.s = h.s /\ Matches(Tail(hs), rest \o b.out)
                 /\ rest \o b.out \in Seq(Requests)
  <2>1. b.wire \o b.out # << >> /\ b.wire \o b.out \in Seq(Requests)
        /\ Head(b.wire \o b.out) = r /\ Tail(b.wire \o b.out) = rest \o b.out
        /\ rest \o b.out \in Seq(Requests)
    BY <1>2, ConcatHeadTail
  <2> DEFINE q == b.wire \o b.out
  <2> HIDE DEF q, r, rest
  <2>2. q \in Seq(Requests) /\ q # << >> /\ (matched <=> Matches(hs, q))
    BY <2>1 DEF q
  <2>3. Matches(hs, q) => hs # << >> /\ Head(q).m = h.on /\ Head(q).s = h.s /\ Matches(Tail(hs), Tail(q))
    BY <1>2, <2>2, MatchTail
  <2> QED
    BY <2>1, <2>2, <2>3 DEF q
<1> HIDE DEF read, r, rest, r2
<1>8. CASE b.handlers = << >>
  <2>1. Received(a) = read
    BY <1>8 DEF Received, read
  <2>2. ~matched
    BY <1>7, <1>8
  <2> QED
    BY <1>1, <1>6, <1>8, <2>1, <2>2
<1>9. CASE b.handlers # << >>
  <2> DEFINE c == Handle(e, h, a.answer)
  <2>1. Received(a) = c
    BY <1>9 DEF Received, read
  <2>2. h \in Handlers /\ Tail(hs) \in Seq(Handlers) /\ <<h>> \o Tail(hs) = hs
        /\ Len(hs) \in Nat \ {0} /\ Len(Tail(hs)) = Len(hs) - 1
        /\ \A i \in 1 .. Len(Tail(hs)) : Tail(hs)[i] = hs[i + 1] /\ i + 1 \in 1 .. Len(hs)
    BY <1>2, <1>9, HeadTailProperties, HeadAndTail, EmptySeq
  <2>3. h = hs[1] /\ 1 \in 1 .. Len(hs) /\ h.s <= b.made
    BY <2>2 DEF AllKnown
  <2>4. DOMAIN e = ConnFields /\ e.handlers = Tail(hs) /\ e.out = b.out /\ e.wire = a.wire
      /\ e.v = b.v /\ e.live = b.live /\ e.made = b.made /\ e.err = b.err /\ e.state = b.state
      /\ e.curr = read.curr /\ e.txId = read.txId /\ e.streams = read.streams
    BY <1>6 DEF Conn, ConnFields
  <2> HIDE DEF e
  <2>5. Conn(e)
    BY <1>6, <2>2, <2>4 DEF Conn
  <2>6. a.answer.k \in {"success", "failure", "ignored", "record"}
        /\ (a.answer.k = "success" => a.answer.more \in BOOLEAN /\ a.answer.qid \in Int)
    BY <1>1 DEF AnswerTo
  <2>7. /\ Conn(c) /\ c.v = e.v /\ c.live = e.live /\ c.made = e.made
        /\ c.wire = e.wire /\ c.out = e.out
        /\ c.handlers = IF a.answer.k = "record" /\ h.on = "pull" THEN <<h>> \o e.handlers
                             ELSE e.handlers
        /\ e.err => c.err
        /\ e.err /\ e.state = "dead" /\ h.on # "reset" => c.state = "dead"
        /\ a.answer.k = "failure" /\ h.on # "reset" => c.err
    BY <2>2, <2>3, <2>4, <2>5, <2>6, HandleOK
  <2> HIDE DEF c
  <2>8. c.handlers = IF a.answer.k = "record" /\ h.on = "pull" THEN hs ELSE Tail(hs)
    BY <2>2, <2>4, <2>7
  <2>9. NoReset(hs) => NoReset(c.handlers) /\ h.on # "reset"
    BY <2>2, <2>3, <2>8 DEF NoReset
  <2>10. AllKnown(c.handlers, c.made)
    BY <2>2, <2>4, <2>7, <2>8 DEF AllKnown
  <2>11. matched => ~Unexpected(h, a.answer)
    BY <1>1, <1>7 DEF Unexpected, AnswerTo
  <2>12. matched => Matches(c.handlers, c.wire \o c.out)
    <3> SUFFICES ASSUME matched
                 PROVE  Matches(c.handlers, a.wire \o b.out)
      BY <2>4, <2>7
    <3>1. CASE a.answer.k = "record"
      <4>1. a.wire = <<r2>> \o rest
        BY <1>1, <3>1 DEF WireAfter, r2, rest
      <4> DEFINE o == <<r2>>
                 t == rest \o b.out
      <4>2. o \in Seq(Requests)
        BY <1>4
      <4> HIDE DEF o
      <4>3. a.wire \o b.out = o \o t
        <5> DEFINE w == b.out
        <5>1. w \in Seq(Requests)
          BY <1>2
        <5> HIDE DEF w
        <5>2. (o \o rest) \o w = o \o (rest \o w)
          BY <1>3, <4>2, <5>1, ConcatAssociative
        <5> QED
          BY <4>1, <5>2 DEF o, w
      <4> HIDE DEF t
      <4>4. t \in Seq(Requests) /\ Matches(Tail(hs), t)
        BY <1>7 DEF t
      <4>5. Matches(<<h>> \o Tail(hs), <<r2>> \o t)
        BY <1>4, <1>7, <2>2, <4>4, MatchPush
      <4>6. h.on = "pull"
        BY <1>1, <1>7, <3>1 DEF AnswerTo
      <4> QED
        BY <2>2, <2>8, <3>1, <4>3, <4>5, <4>6 DEF o
    <3>2. CASE a.answer.k # "record"
      <4>1. a.wire = rest
        BY <1>1, <3>2 DEF WireAfter, rest
      <4> QED
        BY <1>7, <2>8, <3>2, <4>1
    <3> QED
      BY <3>1, <3>2
  <2>13. matched /\ ~NoReset(hs) /\ Len(hs) = 1 => c.handlers = << >>
    <3> SUFFICES ASSUME matched, ~NoReset(hs), Len(hs) = 1
                 PROVE  c.handlers = << >>
      OBVIOUS
    <3>1. h.on = "reset"
      BY <2>3 DEF NoReset
    <3>2. c.handlers = Tail(hs)
      BY <2>8, <3>1
    <3> QED
      BY <2>2, <3>2, EmptySeq
  <2> QED
    BY <1>1, <1>9, <2>1, <2>4, <2>7, <2>9, <2>10, <2>11, <2>12, <2>13
<1> QED
  BY <1>8, <1>9

-----------------------------------------------------------------------------
(* The stack of a session's calls.                                         *)

\* A longer list of choices.
LEMMA SeqMono ==
  ASSUME NEW S, NEW T, S \subseteq T, NEW q \in Seq(S)
  PROVE  q \in Seq(T)
<1>1. Len(q) \in Nat /\ \A i \in 1 .. Len(q) : q[i] \in T
  BY LenProperties, ElementOfSeq
<1>2. q = [i \in 1 .. Len(q) |-> q[i]]
  OBVIOUS
<1> QED
  BY <1>1, <1>2, IsASeq

\* What the frames that fit a connection carry.
LEMMA FrameKinds ==
  ASSUME NEW m, NEW f \in Frames(m)
  PROVE  /\ f.at \in {"receive", "receiveAll", "begun", "ended", "buffer", "pause", "attach", "discard",
                      "next", "exhaust", "begin", "end", "run", "table", "table3", "success3",
                      "record3", "begin3", "end3", "run3"}
         /\ f.at \in {"buffer", "pause", "attach"} => f \in OnStream(m)
         /\ f.at = "discard" => f \in OnDiscard(m)
         /\ f.at = "next" => f \in OnNext(m)
         /\ f.at = "exhaust" => f \in OnExhaust(m)
         /\ f.at = "end" => f \in OnEnd
         /\ f.at = "run" => f \in OnRun
         /\ f.at \in {"table", "table3"} => f \in OnTable
         /\ f.at = "success3" => f \in OnSuccess3
         /\ f.at = "record3" => f \in OnRecord3
         /\ f.at = "end3" => f \in OnEnd3
<1>1. f \in Plain => f.at \in {"receive", "receiveAll", "begun", "ended"}
  BY DEF Plain
<1>2. f \in OnStream(m) => f.at \in {"buffer", "pause", "attach"}
  BY DEF OnStream
<1>3. (f \in OnDiscard(m) => f.at = "discard") /\ (f \in OnNext(m) => f.at = "next")
      /\ (f \in OnExhaust(m) => f.at = "exhaust")
  BY DEF OnDiscard, OnNext, OnExhaust
<1>4. (f \in OnBegin => f.at = "begin") /\ (f \in OnEnd => f.at = "end") /\ (f \in OnRun => f.at = "run")
      /\ (f \in OnTable => f.at \in {"table", "table3"})
  BY DEF OnBegin, OnEnd, OnRun, OnTable
<1>5. (f \in OnSuccess3 => f.at = "success3") /\ (f \in OnRecord3 => f.at = "record3")
      /\ (f \in OnBegin3 => f.at = "begin3") /\ (f \in OnEnd3 => f.at = "end3") /\ (f \in OnRun3 => f.at = "run3")
  BY DEF OnSuccess3, OnRecord3, OnBegin3, OnEnd3, OnRun3
<1>6. \/ f \in Plain \/ f \in OnStream(m) \/ f \in OnDiscard(m) \/ f \in OnNext(m) \/ f \in OnExhaust(m)
      \/ f \in OnBegin \/ f \in OnEnd \/ f \in OnRun \/ f \in OnTable
      \/ f \in OnSuccess3 \/ f \in OnRecord3 \/ f \in OnBegin3 \/ f \in OnEnd3 \/ f \in OnRun3
  BY DEF Frames
<1> QED
  BY <1>1, <1>2, <1>3, <1>4, <1>5, <1>6

\* The frames that calls leave behind.
LEMMA QuietFrames ==
  ASSUME NEW c
  PROVE  /\ Plain \subseteq Quiet(c) /\ OnStream(c.made) \subseteq Quiet(c)
         /\ OnDiscard(c.made) \subseteq Quiet(c) /\ OnNext(c.made) \subseteq Quiet(c)
         /\ OnExhaust(c.made) \subseteq Quiet(c) /\ OnBegin \subseteq Quiet(c) /\ OnEnd \subseteq Quiet(c)
         /\ OnRecord3 \subseteq Quiet(c) /\ OnBegin3 \subseteq Quiet(c) /\ OnEnd3 \subseteq Quiet(c)
         /\ \A f \in OnTable : (f.at = "table" => c.made > 0 \/ c.err) => f \in Quiet(c)
         /\ \A f \in OnSuccess3 : f.then # "run" => f \in Quiet(c)
         /\ \A f \in OnRun \cup OnRun3 \cup OnSuccess3 : c.made < MaxStreams => f \in Fit(c)
<1>1. \A f \in Frames(c.made) : f.at \notin {"run", "run3", "success3", "table"} => f \in Quiet(c)
  BY DEF Quiet, Fit, Makes
<1>2. \A f \in Plain \cup OnStream(c.made) \cup OnDiscard(c.made) \cup OnNext(c.made) \cup OnExhaust(c.made)
        : f \in Frames(c.made) /\ f.at \notin {"run", "run3", "success3", "table"}
  BY DEF Frames, Plain, OnStream, OnDiscard, OnNext, OnExhaust
<1>3. \A f \in OnBegin \cup OnEnd \cup OnRecord3 \cup OnBegin3 \cup OnEnd3
        : f \in Frames(c.made) /\ f.at \notin {"run", "run3", "success3", "table"}
  BY DEF Frames, OnBegin, OnEnd, OnRecord3, OnBegin3, OnEnd3
<1>4. \A f \in OnTable : f \in Frames(c.made) /\ ~Makes(f)
  BY DEF Frames, OnTable, Makes
<1>5. \A f \in OnSuccess3 : f \in Frames(c.made) /\ f.at = "success3"
  BY DEF Frames, OnSuccess3
<1>6. \A f \in OnRun \cup OnRun3 : f \in Frames(c.made) /\ f.at # "table"
  BY DEF Frames, OnRun, OnRun3
<1>7. \A f \in OnTable : (f.at = "table" => c.made > 0 \/ c.err) => f \in Quiet(c)
  BY <1>4 DEF Quiet, Fit
<1>8. \A f \in OnSuccess3 : f.then # "run" => f \in Quiet(c)
  BY <1>5 DEF Quiet, Fit, Makes
<1>9. \A f \in OnRun \cup OnRun3 \cup OnSuccess3 : c.made < MaxStreams => f \in Fit(c)
  BY <1>5, <1>6 DEF Fit
<1> QED
  BY <1>1, <1>2, <1>3, <1>7, <1>8, <1>9

\* The frames below the top one.
LEMMA CalmTail ==
  ASSUME NEW c, NEW q, Calm(q, c), q # << >>
  PROVE  /\ Calm(Tail(q), c) /\ Head(q) \in Fit(c)
         /\ Makes(Head(q)) => Tail(q) \in Seq(Quiet(c))
<1>1. q \in Seq(Fit(c)) /\ \A i, j \in 1 .. Len(q) : Makes(q[i]) /\ Makes(q[j]) => i = j
  BY DEF Calm
<1>2. Len(q) \in Nat \ {0} /\ Head(q) \in Fit(c) /\ Tail(q) \in Seq(Fit(c)) /\ Len(Tail(q)) = Len(q) - 1
      /\ \A i \in 1 .. Len(Tail(q)) : Tail(q)[i] = q[i + 1]
  BY <1>1, EmptySeq, HeadTailProperties
<1>3. Head(q) = q[1] /\ \A i \in 1 .. Len(Tail(q)) : i + 1 \in 1 .. Len(q) /\ i + 1 # 1
  BY <1>1, <1>2
<1> DEFINE t == Tail(q)
<1> HIDE DEF t
<1>4. \A i, j \in 1 .. Len(t) : Makes(t[i]) /\ Makes(t[j]) => i = j
  <2> SUFFICES ASSUME NEW i \in 1 .. Len(t), NEW j \in 1 .. Len(t), Makes(t[i]), Makes(t[j])
               PROVE  i = j
    OBVIOUS
  <2>1. t[i] = q[i + 1] /\ t[j] = q[j + 1] /\ i + 1 \in 1 .. Len(q) /\ j + 1 \in 1 .. Len(q)
    BY <1>2, <1>3 DEF t
  <2>2. i + 1 = j + 1
    BY <1>1, <2>1
  <2> QED
    BY <2>2
<1>5. ASSUME Makes(Head(q))
      PROVE  t \in Seq(Quiet(c))
  <2>1. 1 \in 1 .. Len(q)
    BY <1>2
  <2>2. \A i \in 1 .. Len(t) : ~Makes(t[i]) /\ t[i] \in Fit(c)
    BY <1>1, <1>2, <1>3, <1>5, <2>1, ElementOfSeq DEF t
  <2>3. \A i \in 1 .. Len(t) : t[i] \in Quiet(c)
    BY <2>2 DEF Quiet
  <2>0. t \in Seq(Fit(c))
    BY <1>2 DEF t
  <2>4. t = [i \in 1 .. Len(t) |-> t[i]] /\ Len(t) \in Nat
    BY <2>0
  <2> QED
    BY <2>3, <2>4, IsASeq
<1> QED
  BY <1>2, <1>4, <1>5 DEF Calm, t

\* Quiet frames on top.
LEMMA CalmConcat ==
  ASSUME NEW c, NEW p \in Seq(Quiet(c)), NEW q, Calm(q, c)
  PROVE  Calm(p \o q, c)
<1>1. p \in Seq(Fit(c)) /\ q \in Seq(Fit(c))
  <2>1. Quiet(c) \subseteq Fit(c)
    BY DEF Quiet
  <2> QED
    BY <2>1, SeqMono DEF Calm
<1>2. p \o q \in Seq(Fit(c)) /\ Len(p \o q) = Len(p) + Len(q)
      /\ \A i \in 1 .. Len(p) + Len(q) : (p \o q)[i] = IF i <= Len(p) THEN p[i] ELSE q[i - Len(p)]
  BY <1>1, ConcatProperties
<1>3. Len(p) \in Nat /\ Len(q) \in Nat
  BY <1>1, LenProperties
<1> DEFINE r == p \o q
<1> HIDE DEF r
<1>4. \A i \in 1 .. Len(r) : Makes(r[i]) => i - Len(p) \in 1 .. Len(q) /\ Makes(q[i - Len(p)])
  <2> SUFFICES ASSUME NEW i \in 1 .. Len(r), Makes(r[i])
               PROVE  i - Len(p) \in 1 .. Len(q) /\ Makes(q[i - Len(p)])
    OBVIOUS
  <2>1. i \in 1 .. Len(p) + Len(q)
    BY <1>2 DEF r
  <2>2. i <= Len(p) => p[i] \in Quiet(c)
    <3>1. i <= Len(p) => i \in 1 .. Len(p)
      BY <1>3, <2>1
    <3> QED
      BY <3>1, ElementOfSeq
  <2>3. ~(i <= Len(p))
    BY <1>2, <2>1, <2>2 DEF r, Quiet
  <2>4. r[i] = q[i - Len(p)]
    BY <1>2, <2>1, <2>3 DEF r
  <2> QED
    BY <1>3, <2>1, <2>3, <2>4
<1>5. \A i, j \in 1 .. Len(r) : Makes(r[i]) /\ Makes(r[j]) => i = j
  <2> SUFFICES ASSUME NEW i \in 1 .. Len(r), NEW j \in 1 .. Len(r), Makes(r[i]), Makes(r[j])
               PROVE  i = j
    OBVIOUS
  <2>1. i - Len(p) = j - Len(p)
    BY <1>4 DEF Calm
  <2>2. i \in Int /\ j \in Int
    BY <1>2, <1>3 DEF r
  <2> QED
    BY <1>3, <2>1, <2>2
<1> QED
  BY <1>2, <1>5 DEF Calm, r

\* One quiet frame on top.
LEMMA CalmPush ==
  ASSUME NEW c, NEW f \in Quiet(c), NEW q, Calm(q, c)
  PROVE  Calm(<<f>> \o q, c)
<1> DEFINE p == <<f>>
<1>1. p \in Seq(Quiet(c))
  OBVIOUS
<1> HIDE DEF p
<1>2. Calm(p \o q, c)
  BY <1>1, CalmConcat
<1> QED
  BY <1>2 DEF p

\* Quiet frames are calm, and one frame is.
LEMMA CalmOnes ==
  ASSUME NEW c
  PROVE  /\ \A q \in Seq(Quiet(c)) : Calm(q, c)
         /\ \A f \in Fit(c) : Calm(<<f>>, c)
         /\ \A f \in Fit(c), q \in Seq(Quiet(c)) : Calm(<<f>> \o q, c)
<1>1. ASSUME NEW q \in Seq(Quiet(c))
      PROVE  Calm(q, c)
  <2>1. q \in Seq(Fit(c))
    <3>1. Quiet(c) \subseteq Fit(c)
      BY DEF Quiet
    <3> QED
      BY <3>1, SeqMono
  <2>2. \A i \in 1 .. Len(q) : ~Makes(q[i])
    BY <1>1, ElementOfSeq DEF Quiet
  <2> QED
    BY <2>1, <2>2 DEF Calm
<1>2. ASSUME NEW f \in Fit(c)
      PROVE  Calm(<<f>>, c)
  <2>1. <<f>> \in Seq(Fit(c)) /\ Len(<<f>>) = 1
    OBVIOUS
  <2> QED
    BY <2>1 DEF Calm
<1>3. ASSUME NEW f \in Fit(c), NEW q \in Seq(Quiet(c))
      PROVE  Calm(<<f>> \o q, c)
  <2> DEFINE p == <<f>>
  <2>1. p \in Seq(Fit(c)) /\ Len(p) = 1
    OBVIOUS
  <2> HIDE DEF p
  <2>2. q \in Seq(Fit(c)) /\ Len(q) \in Nat
    BY <1>1, LenProperties DEF Calm
  <2>3. p \o q \in Seq(Fit(c)) /\ Len(p \o q) = Len(p) + Len(q)
        /\ \A i \in 1 .. Len(p) + Len(q) : (p \o q)[i] = IF i <= Len(p) THEN p[i] ELSE q[i - Len(p)]
    BY <2>1, <2>2, ConcatProperties
  <2> DEFINE r == p \o q
  <2> HIDE DEF r
  <2>4. \A i \in 1 .. Len(r) : Makes(r[i]) => i = 1
    <3> SUFFICES ASSUME NEW i \in 1 .. Len(r), i # 1
                 PROVE  ~Makes(r[i])
      OBVIOUS
    <3>1. i \in 1 .. Len(p) + Len(q) /\ ~(i <= Len(p)) /\ i - Len(p) \in 1 .. Len(q)
      BY <2>1, <2>2, <2>3 DEF r
    <3>2. r[i] = q[i - Len(p)]
      BY <2>3, <3>1 DEF r
    <3>3. q[i - Len(p)] \in Quiet(c)
      BY <1>3, <3>1, ElementOfSeq
    <3> QED
      BY <3>2, <3>3 DEF Quiet
  <2>5. Calm(r, c)
    BY <2>3, <2>4 DEF Calm, r
  <2> QED
    BY <2>5 DEF r, p
<1> QED
  BY <1>1, <1>2, <1>3

\* The stack fits a connection that has as much and fails no less.
LEMMA CalmMove ==
  ASSUME NEW c, NEW d, c.made \in Int, d.made \in Int, c.made <= d.made, c.err => d.err
  PROVE  /\ Quiet(c) \subseteq Quiet(d)
         /\ d.made = c.made => \A q : Calm(q, c) => Calm(q, d)
<1>1. Frames(c.made) \subseteq Frames(d.made)
  <2>1. 1 .. c.made \subseteq 1 .. d.made
    OBVIOUS
  <2>2. OnStream(c.made) \subseteq OnStream(d.made) /\ OnDiscard(c.made) \subseteq OnDiscard(d.made)
        /\ OnNext(c.made) \subseteq OnNext(d.made) /\ OnExhaust(c.made) \subseteq OnExhaust(d.made)
    BY <2>1 DEF OnStream, OnDiscard, OnNext, OnExhaust
  <2> QED
    BY <2>2 DEF Frames
<1>2. Quiet(c) \subseteq Quiet(d)
  BY <1>1 DEF Quiet, Fit
<1>3. ASSUME d.made = c.made, NEW q, Calm(q, c)
      PROVE  Calm(q, d)
  <2>1. Fit(c) \subseteq Fit(d)
    BY <1>1, <1>3 DEF Fit
  <2> QED
    BY <1>3, <2>1, SeqMono DEF Calm
<1> QED
  BY <1>2, <1>3

\* What is below and at the top of a short stack.
LEMMA ShortStack ==
  /\ \A f : Head(<<f>>) = f /\ Tail(<<f>>) = << >>
  /\ \A f, g : Head(<<f, g>>) = f /\ Tail(<<f, g>>) = <<g>>
  /\ \A f, g, h : Head(<<f, g, h>>) = f /\ Tail(<<f, g, h>>) = <<g, h>>
  OBVIOUS

\* Short stacks, put together.
LEMMA ShortConcat ==
  ASSUME NEW f, NEW g, NEW h
  PROVE  /\ <<f>> \o << >> = <<f>> /\ << >> \o <<f>> = <<f>> /\ << >> \o << >> = << >>
         /\ << >> \o <<f, g>> = <<f, g>>
         /\ <<f>> \o <<g>> = <<f, g>> /\ <<f>> \o <<g, h>> = <<f, g, h>>
<1> DEFINE S == {f, g, h}
           p == <<f>>
           q == <<g>>
           r == <<g, h>>
           t == <<f, g>>
<1>1. p \in Seq(S) /\ q \in Seq(S) /\ r \in Seq(S) /\ t \in Seq(S)
      /\ Len(p) = 1 /\ Len(q) = 1 /\ Len(r) = 2 /\ p[1] = f /\ q[1] = g /\ r[1] = g /\ r[2] = h
  OBVIOUS
<1>2. t \in Seq(S) /\ Len(t) = 2 /\ t[1] = f /\ t[2] = g
  OBVIOUS
<1> DEFINE u == <<f, g, h>>
<1>3. u \in Seq(S) /\ Len(u) = 3 /\ u[1] = f /\ u[2] = g /\ u[3] = h
  OBVIOUS
<1> HIDE DEF p, q, r, t, u
<1>4. p \o << >> = p /\ << >> \o p = p /\ << >> \o t = t
  BY <1>1, ConcatEmptySeq
<1>5. p \o q = t
  <2>1. p \o q \in Seq(S) /\ Len(p \o q) = Len(p) + Len(q)
        /\ \A i \in 1 .. Len(p) + Len(q) : (p \o q)[i] = IF i <= Len(p) THEN p[i] ELSE q[i - Len(p)]
    BY <1>1, ConcatProperties
  <2>2. (p \o q)[1] = f /\ (p \o q)[2] = g /\ Len(p \o q) = 2
    BY <1>1, <2>1
  <2>3. \A i \in 1 .. Len(t) : (p \o q)[i] = t[i]
    BY <1>2, <2>2
  <2> QED
    BY <1>2, <2>1, <2>2, <2>3, SeqEqual
<1>6. p \o r = u
  <2>1. p \o r \in Seq(S) /\ Len(p \o r) = Len(p) + Len(r)
        /\ \A i \in 1 .. Len(p) + Len(r) : (p \o r)[i] = IF i <= Len(p) THEN p[i] ELSE r[i - Len(p)]
    BY <1>1, ConcatProperties
  <2>2. (p \o r)[1] = f /\ (p \o r)[2] = g /\ (p \o r)[3] = h /\ Len(p \o r) = 3
    BY <1>1, <2>1
  <2>3. \A i \in 1 .. Len(u) : (p \o r)[i] = u[i]
    BY <1>3, <2>2
  <2> QED
    BY <1>3, <2>1, <2>2, <2>3, SeqEqual
<1>7. << >> \o << >> = << >>
  BY EmptySeq, ConcatEmptySeq
<1> QED
  BY <1>4, <1>5, <1>6, <1>7 DEF p, q, r, t, u

\* A frame on top of others.
LEMMA OnTop ==
  ASSUME NEW S, NEW f \in S, NEW q \in Seq(S)
  PROVE  <<f>> \o q \in Seq(S)
<1> DEFINE p == <<f>>
<1>1. p \in Seq(S)
  OBVIOUS
<1> HIDE DEF p
<1>2. p \o q \in Seq(S)
  BY <1>1, ConcatProperties
<1> QED
  BY <1>2 DEF p

\* Waiting for responses is no harm.
LEMMA ReceiveAllQuiet ==
  ASSUME NEW c, NEW q
  PROVE  /\ q \in Seq(Quiet(c)) => ReceiveAll(c, q) \in Seq(Quiet(c))
         /\ Calm(q, c) => Calm(ReceiveAll(c, q), c)
<1> DEFINE f == [at |-> "receiveAll"]
<1>1. f \in Quiet(c)
  BY QuietFrames DEF Plain
<1>2. ReceiveAll(c, q) = q \/ ReceiveAll(c, q) = <<f>> \o q
  BY DEF ReceiveAll
<1> HIDE DEF f
<1> QED
  BY <1>1, <1>2, OnTop, CalmPush

\* The frames of bufferStream, pauseStream and discardStream.
LEMMA StreamFramesQuiet ==
  ASSUME NEW c, Conn(c), NEW q
  PROVE  /\ q \in Seq(Quiet(c)) => /\ BufferFrames(c, q) \in Seq(Quiet(c))
                                   /\ PauseFrames(c, q) \in Seq(Quiet(c))
                                   /\ DiscardFrames(c, q) \in Seq(Quiet(c))
         /\ Calm(q, c) => Calm(BufferFrames(c, q), c) /\ Calm(PauseFrames(c, q), c)
<1> DEFINE f == [at |-> "buffer", s |-> c.curr]
           g == [at |-> "pause", s |-> c.curr]
           h == [at |-> "discard", s |-> c.curr, discarded |-> FALSE]
<1>1. c.curr # NoStream => f \in Quiet(c) /\ g \in Quiet(c) /\ h \in Quiet(c)
  <2> SUFFICES ASSUME c.curr # NoStream
               PROVE  f \in Quiet(c) /\ g \in Quiet(c) /\ h \in Quiet(c)
    OBVIOUS
  <2>1. c.curr \in 1 .. c.made
    BY DEF Conn, NoStream
  <2>2. f \in OnStream(c.made) /\ g \in OnStream(c.made) /\ h \in OnDiscard(c.made)
    BY <2>1 DEF OnStream, OnDiscard
  <2> QED
    BY <2>2, QuietFrames
<1>2. BufferFrames(c, q) = IF c.curr = NoStream THEN q ELSE ReceiveAll(c, <<f>> \o q)
  BY DEF BufferFrames
<1>3. PauseFrames(c, q) = IF c.curr = NoStream THEN q ELSE ReceiveAll(c, <<g>> \o q)
  BY DEF PauseFrames
<1>4. DiscardFrames(c, q) = q \/ (c.curr # NoStream /\ DiscardFrames(c, q) = ReceiveAll(c, <<h>> \o q))
  BY DEF DiscardFrames
<1> HIDE DEF f, g, h
<1>5. ASSUME q \in Seq(Quiet(c))
      PROVE  BufferFrames(c, q) \in Seq(Quiet(c)) /\ PauseFrames(c, q) \in Seq(Quiet(c))
             /\ DiscardFrames(c, q) \in Seq(Quiet(c))
  <2>1. c.curr # NoStream => <<f>> \o q \in Seq(Quiet(c)) /\ <<g>> \o q \in Seq(Quiet(c))
                             /\ <<h>> \o q \in Seq(Quiet(c))
    BY <1>1, <1>5, OnTop
  <2>2. c.curr # NoStream => ReceiveAll(c, <<f>> \o q) \in Seq(Quiet(c))
    BY <2>1, ReceiveAllQuiet
  <2>3. c.curr # NoStream => ReceiveAll(c, <<g>> \o q) \in Seq(Quiet(c))
    BY <2>1, ReceiveAllQuiet
  <2>4. c.curr # NoStream => ReceiveAll(c, <<h>> \o q) \in Seq(Quiet(c))
    BY <2>1, ReceiveAllQuiet
  <2> QED
    BY <1>2, <1>3, <1>4, <1>5, <2>2, <2>3, <2>4
<1>6. ASSUME Calm(q, c)
      PROVE  Calm(BufferFrames(c, q), c) /\ Calm(PauseFrames(c, q), c)
  <2>1. c.curr # NoStream => Calm(<<f>> \o q, c) /\ Calm(<<g>> \o q, c)
    BY <1>1, <1>6, CalmPush
  <2>2. c.curr # NoStream => Calm(ReceiveAll(c, <<f>> \o q), c)
    BY <2>1, ReceiveAllQuiet
  <2>3. c.curr # NoStream => Calm(ReceiveAll(c, <<g>> \o q), c)
    BY <2>1, ReceiveAllQuiet
  <2> QED
    BY <1>2, <1>3, <1>6, <2>2, <2>3
<1> QED
  BY <1>5, <1>6

-----------------------------------------------------------------------------
(* Steps of a session's calls.                                             *)

\* No RESET is pending while a session has the connection.
LEMMA UseNoReset ==
  ASSUME BoltInv, loan \notin {"gone", "returning", "lending"}
  PROVE  NoReset(b.handlers)
  BY DEF BoltInv, ResetAlone

\* A step that keeps the queue and leaves a calm stack keeps the invariant.
LEMMA UseStep ==
  ASSUME BoltInv, loan \in Use, loan' \in Use, Keeps(b, b'), Calm(stack', b') \/ Asking(stack', b'),
         Server', net' \in {"up", "down"}
  PROVE  BoltInv'
<1>0. loan \notin {"gone", "returning", "lending"}
      /\ loan' \notin {"new", "connecting", "returning", "pooled", "lending", "gone"}
  BY DEF Use
<1>1. Conn(b')
  BY DEF Keeps
<1>2. Phase'
  BY <1>0 DEF Phase
<1>3. NoReset(b.handlers) /\ NoReset(b'.handlers)
  BY <1>0, UseNoReset DEF Keeps
<1>4. ~Idle' => Top'.at # "forceReset"
  <2> SUFFICES ASSUME ~Idle'
               PROVE  Top'.at # "forceReset"
    OBVIOUS
  <2>1. CASE Calm(stack', b')
    <3>1. stack' # << >>
      BY DEF Idle
    <3>2. Head(stack') \in Frames(b'.made)
      BY <2>1, <3>1, CalmTail DEF Fit
    <3> QED
      BY <3>2, FrameKinds DEF Top
  <2>2. CASE Asking(stack', b')
    BY <2>2 DEF Asking, OnRun, Top
  <2> QED
    BY <2>1, <2>2
<1>5. ResetAlone'
  BY <1>3, <1>4 DEF ResetAlone
<1>6. Queue'
  <2>1. b'.v = b.v /\ Conn(b)
    BY DEF Keeps, BoltInv
  <2>2. b.v.major > 3 => b.v.major # 3
    OBVIOUS
  <2>3. b.v.major > 3 => Matches(b'.handlers, b'.wire \o b'.out) \/ Broken(b')
    BY <1>0, <1>3, <2>2 DEF BoltInv, Queue, Keeps, Broken
  <2>4. b.v.major = 3 => b'.handlers = << >>
    BY DEF BoltInv, Queue, Keeps
  <2>5. AllKnown(b'.handlers, b'.made)
    BY <1>0 DEF BoltInv, Queue, Keeps, AllKnown
  <2> QED
    BY <2>1, <2>3, <2>4, <2>5 DEF Queue, AllKnown
<1> QED
  BY <1>1, <1>2, <1>5, <1>6 DEF BoltInv

\* A call starts.
LEMMA StartStep ==
  ASSUME BoltInv, loan \in Use, loan' \in Use, NEW c, NEW frames, Start(c, frames),
         Keeps(b, c), Calm(frames, c) \/ Asking(frames, c)
  PROVE  BoltInv'
<1>1. b' = c /\ stack' = frames /\ srv' = srv /\ net' = net
  BY DEF Start
<1>2. Server' /\ net' \in {"up", "down"}
  BY <1>1 DEF BoltInv, Server
<1> QED
  BY <1>1, <1>2, UseStep

\* The connection as it is.
LEMMA KeepsSelf ==
  ASSUME BoltInv
  PROVE  Conn(b) /\ Keeps(b, b)
<1>1. Conn(b)
  BY DEF BoltInv
<1> QED
  BY <1>1, SameKeeps DEF SameQueue

\* A call goes on, adding no result.
LEMMA ContinueStep ==
  ASSUME BoltInv, loan \in Use, loan' \in Use, ~Idle, Calm(stack, b), NEW c, NEW frames \in Seq(Quiet(c)),
         Continue(c, frames), Keeps(b, c), c.made = b.made
  PROVE  BoltInv'
<1>1. b' = c /\ stack' = frames \o Tail(stack) /\ srv' = srv /\ net' = net
  BY DEF Continue
<1>2. Server' /\ net' \in {"up", "down"}
  BY <1>1 DEF BoltInv, Server
<1>3. Calm(Tail(stack), b)
  BY CalmTail DEF Idle
<1>4. b.made \in Int
  BY NoStreamFits DEF BoltInv
<1>5. Calm(Tail(stack), c)
  BY <1>3, <1>4, CalmMove DEF Keeps
<1>6. Calm(frames \o Tail(stack), c)
  BY <1>5, CalmConcat
<1> QED
  BY <1>1, <1>2, <1>6, UseStep

\* A call goes on that has added a result, or not.
LEMMA MadeStep ==
  ASSUME BoltInv, loan \in Use, loan' \in Use, NEW c, NEW frames \in Seq(Quiet(c)),
         Tail(stack) \in Seq(Quiet(c)),
         Continue(c, frames), Keeps(b, c)
  PROVE  BoltInv'
<1>1. b' = c /\ stack' = frames \o Tail(stack) /\ srv' = srv /\ net' = net
  BY DEF Continue
<1>2. Server' /\ net' \in {"up", "down"}
  BY <1>1 DEF BoltInv, Server
<1>3. Calm(Tail(stack), c)
  BY CalmOnes
<1>4. Calm(frames \o Tail(stack), c)
  BY <1>3, CalmConcat
<1> QED
  BY <1>1, <1>2, <1>4, UseStep

\* The frames that only a session's calls have.
UseFrames == {"begun", "ended", "buffer", "pause", "attach", "discard", "next", "exhaust", "begin", "end",
              "run", "table", "table3", "begin3", "end3", "run3"}

\* A call with such a frame on top is one of the session.
LEMMA InUse ==
  ASSUME BoltInv, ~Idle, Top.at \in UseFrames
  PROVE  /\ loan \in Use
         /\ Top.at # "run" => Calm(stack, b) /\ Top \in Fit(b)
<1>1. loan \notin {"new", "pooled", "gone"}
  BY DEF BoltInv, Phase
<1>2. loan # "connecting"
  <2> SUFFICES ASSUME stack \in Connecting
               PROVE  FALSE
    BY DEF BoltInv, Phase
  <2>1. Top \in {F("receive"), F("receiveAll"), F("connected"), Hello3}
    BY DEF Connecting, Top
  <2> QED
    BY <2>1 DEF F, Hello3, UseFrames
<1>3. loan # "returning"
  <2> SUFFICES ASSUME stack \in Returning
               PROVE  FALSE
    BY DEF BoltInv, Phase
  <2>1. Top \in {F("cleared"), F("forceReset"), F("receive"), F("receiveAll"), F("cleared3"),
                 F("forceReset3"), F("reset3")} \cup OnRecord3
    BY DEF Returning, Top
  <2> QED
    BY <2>1 DEF F, OnRecord3, UseFrames
<1>4. loan # "lending"
  <2> SUFFICES ASSUME stack \in Lending
               PROVE  FALSE
    BY DEF BoltInv, Phase
  <2>1. Top \in {F("reauth"), F("forceReset"), F("receive"), F("receiveAll"), F("lent"),
                 F("reauthed"), F("forceCheck3"), F("reset3")}
    BY DEF Lending, Top
  <2> QED
    BY <2>1 DEF F, UseFrames
<1>5. loan \in Use
  BY <1>1, <1>2, <1>3, <1>4 DEF BoltInv, Phase
<1>6. Calm(stack, b) \/ Asking(stack, b)
  BY <1>5 DEF BoltInv, Phase
<1>7. Asking(stack, b) => Top.at = "run"
  BY DEF Asking, OnRun, Top
<1>8. Calm(stack, b) => Top \in Fit(b)
  BY CalmTail DEF Idle, Top
<1> QED
  BY <1>5, <1>6, <1>7, <1>8

-----------------------------------------------------------------------------
(* The calls of versions 4 to 6: moving through streams.                   *)

\* What is at the top of the stack.
LEMMA TopStream ==
  ASSUME BoltInv, ~Idle, Top.at \in {"buffer", "pause", "attach", "discard", "next", "exhaust"}
  PROVE  /\ Top.s \in 1 .. b.made /\ Top \in Quiet(b)
         /\ Top.at = "discard" => Top \in OnDiscard(b.made)
         /\ Top.at = "next" => Top \in OnNext(b.made)
<1>1. Top \in Fit(b)
  BY InUse DEF UseFrames
<1>2. Top \in Frames(b.made)
  BY <1>1 DEF Fit
<1> QED
  BY <1>1, <1>2, FrameKinds DEF OnStream, OnDiscard, OnNext, OnExhaust, Quiet, Makes

\* bufferStream.
LEMMA BufferStreamInv ==
  ASSUME BoltInv, b.v.major # 3, BufferStream
  PROVE  BoltInv'
<1> DEFINE s == Top.s
           e == [b EXCEPT !.streams[s].fetch = All]
           c == AppendPullN(e, s)
           d == Send(c)
<1>1. ~Idle /\ Top.at = "buffer" /\ loan' = loan
  BY DEF BufferStream, At
<1>2. loan \in Use /\ Calm(stack, b)
  BY <1>1, InUse DEF UseFrames
<1>3. s \in 1 .. b.made /\ Top \in Quiet(b) /\ Conn(b) /\ Keeps(b, b)
  BY <1>1, TopStream, KeepsSelf
<1>4. CASE Continue(b, << >>)
  BY <1>1, <1>2, <1>3, <1>4, EmptySeq, ContinueStep
<1>5. CASE Continue(d, ReceiveAll(d, <<Top>>))
  <2>0. Keeps(b, e)
    <3> HIDE DEF s
    <3> QED
      BY <1>3, StreamFieldKeeps
  <2>2. e.made = b.made
    BY <1>3 DEF Conn, ConnFields
  <2> HIDE DEF e
  <2>1. Keeps(b, e) /\ Conn(e) /\ e.v = b.v
    BY <2>0 DEF Keeps
  <2>3. Keeps(e, c) /\ Conn(c) /\ c.made = b.made
    BY <1>3, <2>1, <2>2, AppendPullNKeeps DEF Keeps
  <2> HIDE DEF c
  <2>4. Keeps(c, d) /\ d.made = b.made
    BY <2>3, SendKeeps
  <2> HIDE DEF d
  <2>5. Keeps(b, d)
    BY <1>3, <2>1, <2>3, <2>4, KeepsTrans
  <2>6. Top \in Quiet(d)
    BY <1>3, <2>4, <2>5, CalmMove, NoStreamFits DEF Keeps
  <2>7. ReceiveAll(d, <<Top>>) \in Seq(Quiet(d))
    <3>1. <<Top>> \in Seq(Quiet(d))
      BY <2>6
    <3> QED
      BY <3>1, ReceiveAllQuiet
  <2> QED
    BY <1>1, <1>2, <1>5, <2>4, <2>5, <2>7, ContinueStep
<1> QED
  BY <1>4, <1>5 DEF BufferStream

\* pauseStream.
LEMMA PauseStreamInv ==
  ASSUME BoltInv, PauseStream
  PROVE  BoltInv'
<1>1. ~Idle /\ Top.at = "pause" /\ loan' = loan
  BY DEF PauseStream, At
<1>2. loan \in Use /\ Calm(stack, b) /\ Conn(b) /\ Keeps(b, b)
  BY <1>1, InUse, KeepsSelf DEF UseFrames
<1> DEFINE d == Pause(b)
<1>3. Keeps(b, d) /\ d.made = b.made
  BY <1>2, NoStreamFits, CurrKeeps DEF Pause, SameQueue, NoStream
<1> HIDE DEF d
<1>4. Continue(b, << >>) \/ Continue(d, << >>)
  BY DEF PauseStream, d
<1>5. << >> \in Seq(Quiet(b)) /\ << >> \in Seq(Quiet(d))
  BY EmptySeq
<1>6. CASE Continue(b, << >>)
  BY <1>1, <1>2, <1>5, <1>6, ContinueStep
<1>7. CASE Continue(d, << >>)
  BY <1>1, <1>2, <1>3, <1>5, <1>7, ContinueStep
<1> QED
  BY <1>4, <1>6, <1>7

\* discardStream.
LEMMA DiscardStreamInv ==
  ASSUME BoltInv, b.v.major # 3, DiscardStream
  PROVE  BoltInv'
<1> DEFINE s == Top.s
           a == AppendDiscardAll(b, s)
           c == Send(a)
           g == [Top EXCEPT !.discarded = TRUE]
           r == Remove(b, s)
           d == CheckStreams(r)
<1>1. ~Idle /\ Top.at = "discard" /\ loan' = loan
  BY DEF DiscardStream, At
<1>2. loan \in Use /\ Calm(stack, b)
  BY <1>1, InUse DEF UseFrames
<1>3. s \in 1 .. b.made /\ Top \in OnDiscard(b.made) /\ Conn(b) /\ Keeps(b, b)
  BY <1>1, TopStream, KeepsSelf
<1>4. CASE Continue(b, << >>)
  BY <1>1, <1>2, <1>3, <1>4, EmptySeq, ContinueStep
<1>5. CASE Continue(d, << >>)
  <2>1. Conn(r) /\ SameQueue(b, r) /\ r.err = b.err /\ r.state = b.state
    BY <1>3, RemoveSame
  <2> HIDE DEF r
  <2>2. Conn(d) /\ SameQueue(r, d) /\ d.err = r.err /\ (d.state = "dead" <=> r.state = "dead")
    BY <2>1, CheckStreamsSame
  <2> HIDE DEF d
  <2>3. SameQueue(b, d) /\ (b.err => d.err) /\ (b.err /\ b.state = "dead" => d.state = "dead")
    BY <2>1, <2>2 DEF SameQueue
  <2>4. Keeps(b, d) /\ d.made = b.made
    BY <1>3, <2>2, <2>3, SameKeeps DEF SameQueue
  <2> QED
    BY <1>1, <1>2, <1>5, <2>4, EmptySeq, ContinueStep
<1>6. CASE Continue(c, IF c.err THEN << >> ELSE ReceiveAll(c, <<g>>))
  <2>1. Keeps(b, a) /\ Conn(a) /\ a.made = b.made
    BY <1>3, AppendDiscardAllKeeps DEF Keeps
  <2> HIDE DEF a
  <2>2. Keeps(a, c) /\ c.made = b.made
    BY <2>1, SendKeeps
  <2> HIDE DEF c
  <2>3. Keeps(b, c)
    BY <1>3, <2>1, <2>2, KeepsTrans
  <2>4. g \in OnDiscard(c.made)
    BY <1>3, <2>2 DEF OnDiscard
  <2> HIDE DEF g
  <2>5. ReceiveAll(c, <<g>>) \in Seq(Quiet(c)) /\ << >> \in Seq(Quiet(c))
    <3>1. g \in Quiet(c)
      BY <2>4, QuietFrames
    <3>2. <<g>> \in Seq(Quiet(c))
      BY <3>1
    <3> QED
      BY <3>2, ReceiveAllQuiet, EmptySeq
  <2> QED
    BY <1>1, <1>2, <1>6, <2>2, <2>3, <2>5, ContinueStep
<1> QED
  BY <1>4, <1>5, <1>6 DEF DiscardStream

-----------------------------------------------------------------------------
(* The calls of versions 4 to 6: transactions.                             *)

\* A list of one frame, perhaps behind receiveAll, or of none.
LEMMA OneFrame ==
  ASSUME NEW c, NEW f \in Quiet(c)
  PROVE  /\ << >> \in Seq(Quiet(c)) /\ <<f>> \in Seq(Quiet(c)) /\ ReceiveAll(c, <<f>>) \in Seq(Quiet(c))
         /\ (IF c.err THEN << >> ELSE ReceiveAll(c, <<f>>)) \in Seq(Quiet(c))
<1>1. <<f>> \in Seq(Quiet(c)) /\ << >> \in Seq(Quiet(c))
  BY EmptySeq
<1> QED
  BY <1>1, ReceiveAllQuiet

\* BEGIN is called for.
LEMMA TxBeginInv ==
  ASSUME BoltInv, NEW option \in Options, NEW sync \in BOOLEAN, TxBegin(option, sync)
  PROVE  BoltInv'
<1> DEFINE f == [at |-> "begin", sync |-> sync, supported |-> Supports(b.v, option)]
           frames == IF b.state = "streaming" THEN BufferFrames(b, <<f>>) ELSE <<f>>
<1>1. loan \in Use /\ loan' \in Use /\ Start(b, frames)
  BY DEF TxBegin, Usable, Use
<1>2. Conn(b) /\ Keeps(b, b)
  BY KeepsSelf
<1>3. f \in OnBegin
  <2>1. Supports(b.v, option) \in BOOLEAN
    BY DEF Supports, AtLeast, Options
  <2> QED
    BY <2>1 DEF OnBegin
<1> HIDE DEF f
<1>4. <<f>> \in Seq(Quiet(b))
  BY <1>3, QuietFrames, OneFrame
<1>5. frames \in Seq(Quiet(b))
  BY <1>2, <1>4, StreamFramesQuiet
<1> HIDE DEF frames
<1>6. Calm(frames, b)
  BY <1>5, CalmOnes
<1> QED
  BY <1>1, <1>2, <1>6, StartStep

\* BEGIN is queued, and sent unless it is pipelined.
LEMMA TxBeginSendInv ==
  ASSUME BoltInv, b.v.major # 3, TxBeginSend
  PROVE  BoltInv'
<1> DEFINE c == IF b.err THEN b ELSE ResetStreams(b)
           begun == EnqueuePlain(c, "begin")
           sent == Send(begun)
           open == [begun EXCEPT !.state = "tx", !.txId = TRUE]
           f == [at |-> "begun"]
<1>1. ~Idle /\ Top.at = "begin"
  BY DEF TxBeginSend, At
<1>2. loan \in Use /\ Calm(stack, b) /\ Conn(b) /\ Keeps(b, b)
  BY <1>1, InUse, KeepsSelf DEF UseFrames
<1>3. Keeps(b, c) /\ Conn(c) /\ c.made = b.made /\ c.v = b.v
  BY <1>2, ResetStreamsKeeps DEF Keeps, SameQueue
<1>0. /\ loan' \in {loan, "pipelined"}
      /\ \/ Continue(c, << >>)
         \/ Continue(sent, IF sent.err THEN << >> ELSE ReceiveAll(sent, <<f>>))
         \/ AssertState(c, {"ready"}) /\ Continue(open, << >>)
  BY DEF TxBeginSend
<1> HIDE DEF c
<1>4. Keeps(c, begun) /\ Conn(begun) /\ begun.made = b.made /\ begun.err = c.err
  BY <1>3, EnqueuePlainKeeps DEF Keeps, Messages
<1> HIDE DEF begun
<1>5. Keeps(begun, sent) /\ sent.made = b.made
  BY <1>4, SendKeeps
<1> HIDE DEF sent
<1>6. loan' \in Use
  BY <1>0, <1>2 DEF Use
<1>7. CASE Continue(c, << >>)
  BY <1>1, <1>2, <1>3, <1>6, <1>7, EmptySeq, ContinueStep
<1>8. CASE Continue(sent, IF sent.err THEN << >> ELSE ReceiveAll(sent, <<f>>))
  <2>1. Keeps(b, sent)
    BY <1>2, <1>3, <1>4, <1>5, KeepsTrans
  <2>2. f \in Quiet(sent)
    BY QuietFrames DEF Plain
  <2> HIDE DEF f
  <2> QED
    BY <1>1, <1>2, <1>5, <1>6, <1>8, <2>1, <2>2, OneFrame, ContinueStep
<1>9. CASE AssertState(c, {"ready"}) /\ Continue(open, << >>)
  <2>1. ~begun.err
    BY <1>4, <1>9 DEF AssertState
  <2>2. Keeps(begun, open) /\ open.made = b.made
    BY <1>4, <2>1, StateKeeps DEF States
  <2> HIDE DEF open
  <2>3. Keeps(b, open)
    BY <1>2, <1>3, <1>4, <2>2, KeepsTrans
  <2> QED
    BY <1>1, <1>2, <1>6, <1>9, <2>2, <2>3, EmptySeq, ContinueStep
<1> QED
  BY <1>0, <1>7, <1>8, <1>9

\* The transaction is open.
LEMMA TxBegunInv ==
  ASSUME BoltInv, TxBegun
  PROVE  BoltInv'
<1> DEFINE open == [b EXCEPT !.state = "tx", !.txId = TRUE]
<1>1. ~Idle /\ Top.at = "begun"
  BY DEF TxBegun, At
<1>2. loan \in Use /\ Calm(stack, b) /\ Conn(b) /\ Keeps(b, b)
  BY <1>1, InUse, KeepsSelf DEF UseFrames
<1>3. loan' \in Use
  BY <1>2 DEF TxBegun, Use
<1>4. CASE Continue(b, << >>)
  BY <1>1, <1>2, <1>3, <1>4, EmptySeq, ContinueStep
<1>5. CASE ~b.err /\ Continue(open, << >>)
  <2>1. Keeps(b, open) /\ open.made = b.made
    BY <1>2, <1>5, StateKeeps DEF States
  <2> HIDE DEF open
  <2> QED
    BY <1>1, <1>2, <1>3, <1>5, <2>1, EmptySeq, ContinueStep
<1> QED
  BY <1>4, <1>5 DEF TxBegun

\* The current stream is marked.
LEMMA DiscardingKeeps ==
  ASSUME NEW c, Conn(c)
  PROVE  Keeps(c, Discarding(c)) /\ Discarding(c).made = c.made
<1> DEFINE d == [c EXCEPT !.streams[c.curr].discarding = TRUE]
<1>1. Keeps(c, d) /\ Keeps(c, c)
  BY StreamFieldKeeps, SameKeeps DEF SameQueue
<1>2. d.made = c.made
  BY DEF Conn, ConnFields
<1> HIDE DEF d
<1>3. Discarding(c) = c \/ Discarding(c) = d
  BY DEF Discarding, d
<1> QED
  BY <1>1, <1>2, <1>3

\* COMMIT or ROLLBACK is called for.
LEMMA TxEndInv ==
  ASSUME BoltInv, NEW how \in {"commit", "rollback"}, TxEnd(how)
  PROVE  BoltInv'
<1> DEFINE f == [at |-> "end", how |-> how, all |-> b.state \in {"streaming", "streamingTx"}]
           d == Discarding(b)
           frames == DiscardFrames(b, <<f>>)
<1>1. loan \in Use /\ loan' \in Use /\ Start(d, frames)
  BY DEF TxEnd, Use
<1>2. Conn(b) /\ Keeps(b, b)
  BY KeepsSelf
<1>3. f \in OnEnd
  BY DEF OnEnd
<1> HIDE DEF f
<1>4. <<f>> \in Seq(Quiet(b))
  BY <1>3, QuietFrames, OneFrame
<1>5. frames \in Seq(Quiet(b))
  BY <1>2, <1>4, StreamFramesQuiet
<1> HIDE DEF frames
<1>6. Keeps(b, d) /\ d.made = b.made
  BY <1>2, DiscardingKeeps
<1> HIDE DEF d
<1>7. Calm(frames, d)
  BY <1>2, <1>5, <1>6, CalmOnes, CalmMove, NoStreamFits DEF Keeps
<1> QED
  BY <1>1, <1>6, <1>7, StartStep

\* COMMIT or ROLLBACK is sent.
LEMMA TxEndSendInv ==
  ASSUME BoltInv, b.v.major # 3, TxEndSend
  PROVE  BoltInv'
<1> DEFINE r == ResetStreams(b)
           c == IF Top.all THEN CheckStreams(r) ELSE b
           q == EnqueuePlain(c, Top.how)
           sent == Send(q)
           f == [at |-> "ended"]
<1>1. ~Idle /\ Top.at = "end" /\ loan' = loan
  BY DEF TxEndSend, At
<1>2. loan \in Use /\ Calm(stack, b) /\ Conn(b) /\ Keeps(b, b) /\ Top \in Frames(b.made)
  BY <1>1, InUse, KeepsSelf DEF UseFrames, Fit
<1>3. Top.how \in Messages /\ Top.how # "reset"
  BY <1>1, <1>2, FrameKinds DEF OnEnd, Messages
<1>4. Keeps(b, c) /\ Conn(c) /\ c.made = b.made /\ c.v = b.v
  <2>1. Conn(r) /\ SameQueue(b, r) /\ r.err = b.err /\ r.state = b.state
    BY <1>2, ResetStreamsKeeps
  <2> HIDE DEF r
  <2> DEFINE d == CheckStreams(r)
  <2>2. Conn(d) /\ SameQueue(r, d) /\ d.err = r.err /\ (d.state = "dead" <=> r.state = "dead")
    BY <2>1, CheckStreamsSame
  <2> HIDE DEF d
  <2>3. SameQueue(b, d) /\ (b.err => d.err) /\ (b.err /\ b.state = "dead" => d.state = "dead")
    BY <2>1, <2>2 DEF SameQueue
  <2>4. Keeps(b, d) /\ d.made = b.made
    BY <1>2, <2>2, <2>3, SameKeeps DEF SameQueue
  <2> QED
    BY <1>2, <2>2, <2>4 DEF Keeps, d
<1>0. \/ Continue(c, << >>)
      \/ Continue(sent, IF sent.err THEN << >> ELSE ReceiveAll(sent, <<f>>))
  BY DEF TxEndSend
<1> HIDE DEF c
<1>5. Keeps(c, q) /\ Conn(q) /\ q.made = b.made
  BY <1>3, <1>4, EnqueuePlainKeeps DEF Keeps
<1> HIDE DEF q
<1>6. Keeps(q, sent) /\ sent.made = b.made
  BY <1>5, SendKeeps
<1> HIDE DEF sent
<1>7. CASE Continue(c, << >>)
  BY <1>1, <1>2, <1>4, <1>7, EmptySeq, ContinueStep
<1>8. CASE Continue(sent, IF sent.err THEN << >> ELSE ReceiveAll(sent, <<f>>))
  <2>1. Keeps(b, sent)
    BY <1>2, <1>4, <1>5, <1>6, KeepsTrans
  <2>2. f \in Quiet(sent)
    BY QuietFrames DEF Plain
  <2> HIDE DEF f
  <2> QED
    BY <1>1, <1>2, <1>6, <1>8, <2>1, <2>2, OneFrame, ContinueStep
<1> QED
  BY <1>0, <1>7, <1>8

\* The transaction is over.
LEMMA TxEndedInv ==
  ASSUME BoltInv, TxEnded
  PROVE  BoltInv'
<1> DEFINE over == [b EXCEPT !.state = "ready"]
<1>1. ~Idle /\ Top.at = "ended" /\ loan' = loan
  BY DEF TxEnded, At
<1>2. loan \in Use /\ Calm(stack, b) /\ Conn(b) /\ Keeps(b, b)
  BY <1>1, InUse, KeepsSelf DEF UseFrames
<1>3. CASE Continue(b, << >>)
  BY <1>1, <1>2, <1>3, EmptySeq, ContinueStep
<1>4. CASE ~b.err /\ Continue(over, << >>)
  <2>1. Keeps(b, over) /\ over.made = b.made
    BY <1>2, <1>4, StateKeeps DEF States
  <2> HIDE DEF over
  <2> QED
    BY <1>1, <1>2, <1>4, <2>1, EmptySeq, ContinueStep
<1> QED
  BY <1>3, <1>4 DEF TxEnded

-----------------------------------------------------------------------------
(* The calls of versions 4 to 6: queries.                                  *)

\* The frames of a query.
LEMMA RunFramesCalm ==
  ASSUME NEW c, Conn(c), c.made < MaxStreams, NEW n \in Fetches, NEW pack \in Packs \cup {"ok"}
  PROVE  Calm(RunFrames(c, n, pack, << >>), c)
<1> DEFINE f == [at |-> "run", n |-> n, pack |-> pack]
           q == <<f>> \o << >>
<1>1. f \in OnRun
  BY DEF OnRun
<1>2. RunFrames(c, n, pack, << >>) \in {q, BufferFrames(c, q), PauseFrames(c, q)}
  BY DEF RunFrames
<1> HIDE DEF f
<1>3. f \in Fit(c)
  BY <1>1, QuietFrames
<1>4. Calm(q, c)
  BY <1>3, CalmOnes, EmptySeq
<1> HIDE DEF q
<1> QED
  BY <1>2, <1>4, StreamFramesQuiet

\* The empty stack.
LEMMA EmptyCalm == \A c : Calm(<< >>, c) /\ << >> \in Seq(Quiet(c))
  BY EmptySeq, CalmOnes

\* Run.
LEMMA RunInv ==
  ASSUME BoltInv, NEW option, NEW n \in FetchSizes, NEW pack \in Packs, Run(option, n, pack)
  PROVE  BoltInv'
<1> DEFINE frames == IF AssertState(b, {"streaming", "ready"}) /\ Supports(b.v, option)
                     THEN RunFrames(b, n, pack, << >>) ELSE << >>
<1>1. loan \in Use /\ loan' \in Use /\ Start(b, frames) /\ b.made < MaxStreams
  BY DEF Run, Usable, Use
<1>2. Conn(b) /\ Keeps(b, b)
  BY KeepsSelf
<1>3. n \in Fetches /\ pack \in Packs \cup {"ok"}
  BY DEF Fetches
<1>4. Calm(frames, b)
  BY <1>1, <1>2, <1>3, RunFramesCalm, EmptyCalm
<1> QED
  BY <1>1, <1>2, <1>4, StartStep

\* RunTx.
LEMMA RunTxInv ==
  ASSUME BoltInv, NEW n \in FetchSizes, NEW pack \in Packs, RunTx(n, pack)
  PROVE  BoltInv'
<1> DEFINE frames == RunFrames(b, n, pack, << >>)
<1>1. loan \in Use /\ loan' \in Use /\ Start(b, frames) /\ b.made < MaxStreams
  BY DEF RunTx, Use
<1>2. Conn(b) /\ Keeps(b, b)
  BY KeepsSelf
<1>3. n \in Fetches /\ pack \in Packs \cup {"ok"}
  BY DEF Fetches
<1>4. Calm(frames, b)
  BY <1>1, <1>2, <1>3, RunFramesCalm
<1> QED
  BY <1>1, <1>2, <1>4, StartStep

\* A result is added.
LEMMA MakeKeeps ==
  ASSUME NEW c, Conn(c), c.made < MaxStreams, NEW q, StreamOK(q)
  PROVE  LET d == [c EXCEPT !.made = c.made + 1, !.streams[c.made + 1] = q]
         IN  Keeps(c, d) /\ d.made = c.made + 1 /\ d.err = c.err /\ d.state = c.state
<1> DEFINE m == c.made + 1
           d == [c EXCEPT !.made = m, !.streams[m] = q]
<1>1. c.made \in Nat /\ m \in 0 .. MaxStreams /\ c.made <= m /\ m \in Int
  BY NoStreamFits, StreamsAreCounted
<1>8. c.curr \in 0 .. m /\ c.live \in 1 .. m + 1
  BY <1>1 DEF Conn
<1> HIDE DEF m
<1>2. DOMAIN d = ConnFields /\ d.streams = [c.streams EXCEPT ![m] = q] /\ d.made = m
      /\ d.curr = c.curr /\ d.err = c.err /\ d.state = c.state /\ d.txId = c.txId
      /\ d.v = c.v /\ d.live = c.live /\ d.handlers = c.handlers /\ d.out = c.out /\ d.wire = c.wire
  BY DEF Conn, ConnFields
<1>3. DOMAIN d.streams = Streams /\ \A r \in Streams : StreamOK(d.streams[r])
  BY <1>2 DEF Conn
<1> HIDE DEF d
<1>4. Conn(d)
  BY <1>1, <1>2, <1>3, <1>8 DEF Conn
<1>5. AllKnown(c.handlers, c.made) => AllKnown(d.handlers, d.made)
  <2> SUFFICES ASSUME AllKnown(c.handlers, c.made), NEW i \in 1 .. Len(c.handlers)
               PROVE  c.handlers[i].s <= m
    BY <1>2 DEF AllKnown
  <2>1. c.handlers[i] \in Handlers
    BY ElementOfSeq DEF Conn
  <2>2. c.handlers[i].s \in Int /\ c.handlers[i].s <= c.made
    BY <2>1, StreamsAreCounted DEF Handlers, AllKnown
  <2> QED
    BY <1>1, <2>2
<1> QED
  BY <1>1, <1>2, <1>4, <1>5 DEF Keeps, d, m

\* The frame of run, and what is below it.
LEMMA AtRun ==
  ASSUME BoltInv, ~Idle, Top.at = "run"
  PROVE  /\ loan \in Use /\ Top \in OnRun /\ b.made < MaxStreams
         /\ \A c : Keeps(b, c) /\ c.made = b.made + 1 => Tail(stack) \in Seq(Quiet(c))
         /\ ~AssertState(b, {"tx", "ready", "streamingTx"}) => Calm(stack, b)
<1>1. loan \in Use
  BY InUse DEF UseFrames
<1>2. Calm(stack, b) \/ Asking(stack, b)
  BY <1>1 DEF BoltInv, Phase
<1>3. CASE Calm(stack, b)
  <2>1. Top \in Fit(b) /\ Makes(Top)
    BY <1>3, CalmTail DEF Idle, Top, Makes
  <2>2. Top \in OnRun /\ b.made < MaxStreams
    BY <2>1, FrameKinds DEF Fit
  <2>3. Tail(stack) \in Seq(Quiet(b))
    BY <1>3, <2>1, CalmTail DEF Idle, Top
  <2>4. ASSUME NEW c, Keeps(b, c), c.made = b.made + 1
        PROVE  Tail(stack) \in Seq(Quiet(c))
    <3>1. b.made \in Nat
      BY NoStreamFits DEF BoltInv
    <3>2. Quiet(b) \subseteq Quiet(c)
      BY <2>4, <3>1, CalmMove DEF Keeps
    <3> QED
      BY <2>3, <3>2, SeqMono
  <2> QED
    BY <1>1, <1>3, <2>2, <2>4
<1>4. CASE Asking(stack, b)
  <2>1. PICK f \in OnRun, g \in OnTable : stack = <<f, g>>
    BY <1>4 DEF Asking
  <2>2. Top = f /\ Tail(stack) = <<g>>
    BY <2>1 DEF Top
  <2>3. ASSUME NEW c, Keeps(b, c), c.made = b.made + 1
        PROVE  Tail(stack) \in Seq(Quiet(c))
    <3>1. c.made > 0
      BY <2>3, NoStreamFits DEF BoltInv
    <3>2. g \in Quiet(c)
      BY <3>1, QuietFrames
    <3>3. <<g>> \in Seq(Quiet(c))
      BY <3>2
    <3> QED
      BY <2>2, <3>3
  <2> QED
    BY <1>1, <1>4, <2>2, <2>3 DEF Asking, AssertState
<1> QED
  BY <1>2, <1>3, <1>4

\* RUN is queued for a new result.
LEMMA RunQueuedKeeps ==
  ASSUME BoltInv, b.v.major # 3, ~Idle, Top.at = "run"
  PROVE  LET c == RunQueued
         IN  Keeps(b, c) /\ Conn(c) /\ c.v = b.v /\ c.made = b.made + 1 /\ c.handlers # << >>
             /\ b.made + 1 \in 1 .. MaxStreams
<1> DEFINE m == b.made + 1
           q == [NewStream EXCEPT !.fetch = Top.n]
           e == [b EXCEPT !.made = m, !.streams[m] = q]
           r == Request("run", m, 0, -1)
<1>1. Top \in OnRun /\ b.made < MaxStreams /\ Conn(b)
  BY AtRun DEF BoltInv
<1>2. StreamOK(q)
  BY <1>1 DEF OnRun, StreamOK, StreamFields, NewStream
<1> HIDE DEF q
<1>3. Keeps(b, e) /\ e.made = m
  BY <1>1, <1>2, MakeKeeps
<1>4. RunQueued = Enqueue(e, r)
  BY DEF RunQueued, q
<1> HIDE DEF e
<1>5. m \in 1 .. MaxStreams /\ m \in 0 .. MaxStreams /\ m <= m
  BY <1>1, NoStreamFits, StreamsAreCounted
<1> HIDE DEF m
<1>6. r \in Requests /\ r.m = "run" /\ r.s = m
  BY <1>5 DEF Request, Requests, Messages
<1> HIDE DEF r
<1>7. Conn(e) /\ e.v = b.v
  BY <1>3 DEF Keeps
<1>8. Keeps(e, Enqueue(e, r)) /\ Enqueue(e, r).made = m /\ Enqueue(e, r).v = e.v /\ Conn(Enqueue(e, r))
      /\ Enqueue(e, r).handlers # << >>
  BY <1>3, <1>5, <1>6, <1>7, EnqueueKeeps
<1> QED
  BY <1>1, <1>3, <1>4, <1>5, <1>7, <1>8, KeepsTrans DEF m

\* The rest of run, where what is left of an unpacked query is no harm.
LEMMA RunSendInv ==
  ASSUME BoltInv, b.v.major # 3, NEW unpacked, RunSend(unpacked),
         Top.pack # "ok" => Keeps(b, unpacked) /\ unpacked.made = b.made + 1
  PROVE  BoltInv'
<1> DEFINE s == b.made + 1
           c == RunQueued
           r == Request("pull", s, Top.n, -1)
           e == Enqueue(c, r)
           sent == Send(e)
           f == [at |-> "receive"]
           g == [at |-> "attach", s |-> s]
           frames == IF sent.err THEN << >> ELSE <<f, g>>
<1>1. ~Idle /\ Top.at = "run" /\ loan' = loan
  BY DEF RunSend, At
<1>2. loan \in Use /\ Top \in OnRun /\ b.made < MaxStreams /\ Conn(b) /\ Keeps(b, b)
  BY <1>1, AtRun, KeepsSelf
<1>3. Keeps(b, c) /\ Conn(c) /\ c.made = s /\ s \in 1 .. MaxStreams /\ c.v = b.v
  BY <1>1, RunQueuedKeeps
<1>4. CASE ~AssertState(b, {"tx", "ready", "streamingTx"}) /\ Continue(b, << >>)
  <2>1. Calm(stack, b)
    BY <1>1, <1>4, AtRun
  <2> QED
    BY <1>1, <1>2, <1>4, <2>1, EmptyCalm, ContinueStep
<1>5. CASE Top.pack # "ok" /\ Continue(unpacked, << >>)
  <2>1. Tail(stack) \in Seq(Quiet(unpacked))
    BY <1>1, <1>5, AtRun
  <2> QED
    BY <1>1, <1>2, <1>5, <2>1, EmptyCalm, MadeStep
<1>6. CASE Continue(sent, frames)
  <2> HIDE DEF c
  <2>1. r \in Requests /\ r.m = "pull" /\ r.s = s
    <3>1. s \in 0 .. MaxStreams /\ Top.n \in Fetches
      BY <1>2, <1>3 DEF OnRun
    <3> HIDE DEF s
    <3> QED
      BY <3>1 DEF Request, Requests, Messages
  <2> HIDE DEF r
  <2>2. Keeps(c, e) /\ Conn(e) /\ e.made = s
    <3>1. s <= c.made
      BY <1>3
    <3> QED
      BY <1>3, <2>1, <3>1, EnqueueKeeps
  <2> HIDE DEF e
  <2>3. Keeps(e, sent) /\ sent.made = s
    BY <2>2, SendKeeps
  <2> HIDE DEF sent
  <2>4. Keeps(b, sent)
    BY <1>2, <1>3, <2>2, <2>3, KeepsTrans
  <2>5. f \in Quiet(sent) /\ g \in Quiet(sent)
    <3>1. f \in Plain
      BY DEF Plain
    <3>2. s \in 1 .. sent.made
      BY <1>3, <2>3
    <3>3. g \in OnStream(sent.made)
      BY <3>2 DEF OnStream
    <3> QED
      BY <3>1, <3>3, QuietFrames
  <2> HIDE DEF f, g
  <2>6. frames \in Seq(Quiet(sent))
    <3>1. <<f, g>> \in Seq(Quiet(sent))
      BY <2>5
    <3> QED
      BY <3>1, EmptyCalm
  <2>7. Tail(stack) \in Seq(Quiet(sent))
    BY <1>1, <2>3, <2>4, AtRun
  <2> HIDE DEF frames
  <2> QED
    BY <1>1, <1>2, <1>6, <2>4, <2>6, <2>7, MadeStep
<1> QED
  BY <1>4, <1>5, <1>6 DEF RunSend

\* A query of versions 4 and 5 that cannot be packed: the connection is dead.
LEMMA PackErrorKeeps ==
  ASSUME BoltInv, b.v.major # 3, ~Idle, Top.at = "run"
  PROVE  LET d == PackError(RunQueued)
         IN  Keeps(b, d) /\ d.made = b.made + 1
<1> DEFINE c == RunQueued
           e == SetError(c, TRUE)
           d == Send(e)
<1>0. PackError(RunQueued) = d
  BY DEF PackError
<1>1. Keeps(b, c) /\ Conn(c) /\ c.made = b.made + 1 /\ Conn(b)
  BY RunQueuedKeeps DEF BoltInv
<1> HIDE DEF c
<1>2. Keeps(c, e) /\ Conn(e) /\ e.made = c.made
  BY <1>1, SetErrorKeeps DEF SameQueue
<1> HIDE DEF e
<1>3. Keeps(e, d) /\ d.made = e.made
  BY <1>2, SendKeeps
<1> HIDE DEF d
<1> QED
  BY <1>0, <1>1, <1>2, <1>3, KeepsTrans

\* The handler of RUN is the last one.
LEMMA RunQueuedQueue ==
  ASSUME Conn(b)
  PROVE  /\ RunQueued.wire = b.wire
         /\ \E h : RunQueued.handlers = Append(b.handlers, h)
<1> DEFINE m == b.made + 1
           q == [NewStream EXCEPT !.fetch = Top.n]
           e == [b EXCEPT !.made = m, !.streams[m] = q]
           r == Request("run", m, 0, -1)
           h == [on |-> r.m, s |-> r.s]
<1>1. RunQueued = Enqueue(e, r)
  BY DEF RunQueued
<1> HIDE DEF m, q, r
<1>2. DOMAIN e = ConnFields /\ e.wire = b.wire /\ e.handlers = b.handlers
  BY DEF Conn, ConnFields
<1> HIDE DEF e, h
<1>3. Enqueue(e, r).wire = e.wire /\ Enqueue(e, r).handlers = Append(e.handlers, h)
  BY <1>2 DEF Enqueue, ConnFields, h
<1> QED
  BY <1>1, <1>2, <1>3

\* A query of version 6 that cannot be packed: the queue is cut. The connection is dead,
\* unless the reason is a value that the server does not take; then the handler that goes
\* is the one of this query if no other is pending.
LEMMA PackError6Keeps ==
  ASSUME BoltInv, b.v.major # 3, ~Idle, Top.at = "run", Top.pack = "rejected" => b.handlers = << >>
  PROVE  LET d == PackError6(RunQueued)
         IN  Keeps(b, d) /\ d.made = b.made + 1
<1> DEFINE c == RunQueued
           fatal == Top.pack # "rejected"
           e == SetError(c, fatal)
           d == [e EXCEPT !.out = << >>, !.handlers = Tail(@)]
<1>0. PackError6(RunQueued) = d
  BY DEF PackError6
<1>1. Keeps(b, c) /\ Conn(c) /\ c.made = b.made + 1 /\ c.handlers # << >> /\ Conn(b) /\ c.v = b.v
  BY RunQueuedKeeps DEF BoltInv
<1>11. c.wire = b.wire /\ \E h : c.handlers = Append(b.handlers, h)
  BY <1>1, RunQueuedQueue
<1> HIDE DEF c
<1>2. Keeps(c, e) /\ Conn(e) /\ SameQueue(c, e) /\ e.err /\ (fatal => e.state = "dead")
  BY <1>1, SetErrorKeeps
<1> HIDE DEF e
<1>3. DOMAIN d = ConnFields /\ d.streams = e.streams /\ d.made = e.made
      /\ d.curr = e.curr /\ d.err = e.err /\ d.state = e.state /\ d.txId = e.txId
      /\ d.v = e.v /\ d.live = e.live /\ d.handlers = Tail(e.handlers) /\ d.out = << >> /\ d.wire = e.wire
  BY <1>2 DEF Conn, ConnFields
<1> HIDE DEF d
<1>4. e.handlers \in Seq(Handlers) /\ e.handlers # << >>
  BY <1>1, <1>2 DEF Conn, SameQueue
<1>5. /\ Len(e.handlers) \in Nat \ {0} /\ Tail(e.handlers) \in Seq(Handlers)
      /\ Len(Tail(e.handlers)) = Len(e.handlers) - 1
      /\ \A i \in 1 .. Len(Tail(e.handlers)) : Tail(e.handlers)[i] = e.handlers[i + 1]
  BY <1>4, HeadTailProperties, EmptySeq
<1>6. \A i \in 1 .. Len(d.handlers) : i + 1 \in 1 .. Len(e.handlers) /\ d.handlers[i] = e.handlers[i + 1]
  BY <1>3, <1>5
<1>7. Conn(d)
  BY <1>2, <1>3, <1>5, EmptySeq DEF Conn
<1>8. NoReset(e.handlers) => NoReset(d.handlers)
  BY <1>6 DEF NoReset
<1>9. AllKnown(e.handlers, e.made) => AllKnown(d.handlers, d.made)
  BY <1>3, <1>6 DEF AllKnown
<1>12. d.made = b.made + 1 /\ e.made <= d.made /\ e.v.major # 3
  BY <1>1, <1>2, <1>3, NoStreamFits DEF SameQueue
<1>13. CASE fatal
  <2>1. Keeps(e, d)
    BY <1>2, <1>3, <1>7, <1>8, <1>9, <1>12, <1>13 DEF Keeps
  <2> QED
    BY <1>0, <1>1, <1>2, <1>12, <2>1, KeepsTrans
<1>14. CASE ~fatal
  <2>1. b.handlers = << >>
    BY <1>14
  <2>2. d.handlers = << >>
    <3>1. PICK h : c.handlers = Append(<< >>, h)
      BY <1>11, <2>1
    <3>2. Append(<< >>, h) = <<h>>
      OBVIOUS
    <3>3. e.handlers = <<h>>
      BY <1>2, <3>1, <3>2 DEF SameQueue
    <3> QED
      BY <1>3, <3>3, ShortStack
  <2>3. Matches(b.handlers, b.wire \o b.out) => Matches(d.handlers, d.wire \o d.out)
    <3> SUFFICES ASSUME Matches(b.handlers, b.wire \o b.out)
                 PROVE  Matches(d.handlers, d.wire \o d.out)
      OBVIOUS
    <3>1. b.wire \in Seq(Requests) /\ b.out \in Seq(Requests)
      BY <1>1 DEF Conn
    <3>2. Len(b.wire \o b.out) = 0
      BY <2>1 DEF Matches
    <3>3. Len(b.wire) = 0
      <4> DEFINE w == b.wire
                 o == b.out
      <4>1. w \in Seq(Requests) /\ o \in Seq(Requests) /\ Len(w \o o) = 0
        BY <3>1, <3>2
      <4> HIDE DEF w, o
      <4>2. Len(w \o o) = Len(w) + Len(o) /\ Len(w) \in Nat /\ Len(o) \in Nat
        BY <4>1, ConcatProperties, LenProperties
      <4>3. Len(w) = 0
        BY <4>1, <4>2
      <4> QED
        BY <4>3 DEF w
    <3>4. d.wire = << >>
      BY <1>2, <1>3, <1>11, <3>1, <3>3, EmptySeq DEF SameQueue
    <3>5. d.wire \o d.out = << >>
      BY <1>3, <3>4, ShortConcat
    <3> QED
      BY <2>2, <3>5 DEF Matches
  <2>4. Keeps(b, e) /\ e.v = b.v /\ e.live = b.live
    BY <1>1, <1>2, KeepsTrans DEF Keeps
  <2>5. d.v = b.v /\ d.live = b.live /\ d.err /\ d.state = e.state /\ b.made <= d.made /\ b.v.major # 3
    BY <1>1, <1>2, <1>3, <1>12, <2>4, NoStreamFits
  <2>6. NoReset(d.handlers) /\ AllKnown(d.handlers, d.made)
    BY <2>2 DEF NoReset, AllKnown
  <2>7. b.err /\ b.state = "dead" => d.state = "dead"
    BY <2>4, <2>5 DEF Keeps
  <2>8. Keeps(b, d)
    BY <1>7, <2>3, <2>5, <2>6, <2>7 DEF Keeps
  <2> QED
    BY <1>0, <1>12, <2>8
<1> QED
  BY <1>13, <1>14

\* The answer to RUN was read.
LEMMA RunReceiveInv ==
  ASSUME BoltInv, NEW once \in BOOLEAN, RunReceive(once)
  PROVE  BoltInv'
<1> DEFINE s == Top.s
           st == CASE b.state = "ready" -> "streaming" [] b.state = "tx" -> "streamingTx" [] OTHER -> b.state
           e == [b EXCEPT !.streams[s].given = TRUE]
           d == [b EXCEPT !.streams[s].given = TRUE, !.state = st]
           f == [at |-> "receive"]
<1>1. ~Idle /\ Top.at = "attach" /\ loan' = loan
  BY DEF RunReceive, At
<1>2. loan \in Use /\ Calm(stack, b) /\ Conn(b) /\ Keeps(b, b) /\ Top \in Quiet(b)
  BY <1>1, InUse, TopStream, KeepsSelf DEF UseFrames
<1>3. CASE Continue(b, << >>)
  BY <1>1, <1>2, <1>3, EmptyCalm, ContinueStep
<1>4. CASE ~b.err /\ Continue(d, << >>)
  <2>1. st \in States
    BY <1>2 DEF Conn, States
  <2> HIDE DEF st
  <2>2. Keeps(b, e) /\ DOMAIN e.streams = Streams /\ \A x \in Streams : StreamOK(e.streams[x])
    <3>1. Keeps(b, e)
      <4> HIDE DEF s
      <4> QED
        BY <1>2, StreamFieldKeeps
    <3> HIDE DEF e
    <3> QED
      BY <3>1 DEF Keeps, Conn
  <2>3. DOMAIN d = ConnFields /\ SameQueue(b, d) /\ d.state = st /\ d.err = b.err /\ d.curr = b.curr
        /\ d.streams = e.streams /\ d.txId = b.txId
    BY <1>2 DEF Conn, ConnFields, SameQueue
  <2> HIDE DEF d, e
  <2>4. Conn(d)
    <3>1. b.curr \in 0 .. b.made /\ b.err \in BOOLEAN /\ b.txId \in BOOLEAN
      BY <1>2 DEF Conn
    <3> QED
      BY <1>2, <2>1, <2>2, <2>3, <3>1, SameConn
  <2>5. Keeps(b, d) /\ d.made = b.made
    BY <1>2, <1>4, <2>3, <2>4, SameKeeps DEF SameQueue
  <2> QED
    BY <1>1, <1>2, <1>4, <2>5, EmptyCalm, ContinueStep
<1>5. CASE Continue(b, <<f, Top>>)
  <2>1. f \in Quiet(b)
    BY QuietFrames DEF Plain
  <2> HIDE DEF f
  <2>2. <<f, Top>> \in Seq(Quiet(b))
    BY <1>2, <2>1
  <2> QED
    BY <1>1, <1>2, <1>5, <2>2, ContinueStep
<1> QED
  BY <1>3, <1>4, <1>5 DEF RunReceive

-----------------------------------------------------------------------------
(* The calls of versions 4 to 6: results and routing tables.               *)

\* Between calls the connection is not connected, reset or lent.
LEMMA IdleLoan ==
  ASSUME BoltInv, Idle
  PROVE  loan \in Use \cup {"new", "pooled", "gone"}
<1>1. stack \notin Connecting /\ stack \notin Returning /\ stack \notin Lending
  BY DEF Idle, Connecting, Returning, Lending
<1> QED
  BY <1>1 DEF BoltInv, Phase

\* Next is called for a result of this loan.
LEMMA NextInv ==
  ASSUME BoltInv, NEW s \in Streams, Next(s)
  PROVE  BoltInv'
<1> DEFINE f == [at |-> "next", s |-> s, received |-> FALSE]
<1>1. Idle /\ loan' = loan /\ s \in b.live .. b.made /\ Start(b, <<f>>)
  BY DEF Next, Start
<1>2. Conn(b) /\ Keeps(b, b)
  BY KeepsSelf
<1>3. s \in 1 .. b.made /\ ~NoResults
  BY <1>1, <1>2 DEF Conn, NoResults
<1>4. loan \in Use
  BY <1>1, <1>3, IdleLoan DEF BoltInv, Phase
<1>5. f \in OnNext(b.made)
  BY <1>3 DEF OnNext
<1> HIDE DEF f
<1>6. Calm(<<f>>, b)
  BY <1>5, QuietFrames, CalmOnes DEF Quiet
<1> QED
  BY <1>1, <1>2, <1>4, <1>6, StartStep

\* A step of Next.
LEMMA NextStepInv ==
  ASSUME BoltInv, b.v.major # 3, NextStep
  PROVE  BoltInv'
<1> DEFINE s == Top.s
           t == Tail(b.streams[s].fifo)
           d == [b EXCEPT !.streams[s].fifo = t]
           pull == AppendPullN(b, s)
           pulled == Send(pull)
           e == [pulled EXCEPT !.streams[s].endOfBatch = pulled.err]
           c == IF b.streams[s].endOfBatch THEN e ELSE b
           f == [at |-> "receive"]
           g == [Top EXCEPT !.received = TRUE]
           two == <<f, g>>
<1>1. ~Idle /\ Top.at = "next" /\ loan' = loan /\ srv' = srv /\ net' = net
  BY DEF NextStep
<1>2. loan \in Use /\ Calm(stack, b) /\ Conn(b) /\ Keeps(b, b) /\ Top \in OnNext(b.made) /\ s \in 1 .. b.made
  BY <1>1, InUse, TopStream, KeepsSelf DEF UseFrames
<1>3. Server' /\ net' \in {"up", "down"} /\ loan' \in Use
  BY <1>1, <1>2 DEF BoltInv, Server
<1>4. Calm(Tail(stack), b)
  BY <1>1, <1>2, CalmTail DEF Idle
<1>5. CASE b' = d /\ stack' = Tail(stack)
  <2>1. Keeps(b, d)
    <3> HIDE DEF t, s
    <3> QED
      BY <1>2, StreamFieldKeeps
  <2>2. d.made = b.made
    BY <1>2 DEF Conn, ConnFields
  <2> HIDE DEF d
  <2>3. Calm(Tail(stack), d)
    BY <1>2, <1>4, <2>1, <2>2, NoStreamFits, CalmMove DEF Keeps
  <2> QED
    BY <1>2, <1>3, <1>5, <2>1, <2>3, UseStep
<1>6. CASE b' = b /\ stack' = Tail(stack)
  BY <1>2, <1>3, <1>4, <1>6, UseStep
<1>7. CASE b' = c /\ (stack' = Tail(stack) \/ stack' = two \o Tail(stack))
  <2>1. Keeps(b, pull) /\ Conn(pull) /\ pull.made = b.made
    BY <1>2, AppendPullNKeeps DEF Keeps
  <2> HIDE DEF pull
  <2>2. Keeps(pull, pulled) /\ pulled.made = b.made /\ Conn(pulled)
    BY <2>1, SendKeeps DEF Keeps
  <2> HIDE DEF pulled
  <2>3. Keeps(pulled, e)
    <3> HIDE DEF s
    <3> QED
      BY <2>2, StreamFieldKeeps
  <2>4. e.made = b.made
    BY <2>2 DEF Conn, ConnFields
  <2> HIDE DEF e
  <2>5. Keeps(b, c) /\ c.made = b.made
    BY <1>2, <2>1, <2>2, <2>3, <2>4, KeepsTrans
  <2> HIDE DEF c
  <2>6. f \in Plain /\ g \in OnNext(c.made)
    BY <1>2, <2>5 DEF Plain, OnNext
  <2> HIDE DEF f, g
  <2>7. f \in Quiet(c) /\ g \in Quiet(c)
    BY <2>6, QuietFrames
  <2>8. two \in Seq(Quiet(c))
    BY <2>7
  <2> HIDE DEF two
  <2>9. Calm(Tail(stack), c) /\ Calm(two \o Tail(stack), c)
    <3>1. Calm(Tail(stack), c)
      BY <1>2, <1>4, <2>5, NoStreamFits, CalmMove DEF Keeps
    <3> QED
      BY <2>8, <3>1, CalmConcat
  <2> QED
    BY <1>2, <1>3, <1>7, <2>5, <2>9, UseStep
<1> QED
  BY <1>5, <1>6, <1>7 DEF NextStep

\* Consume or Buffer is called.
LEMMA ExhaustInv ==
  ASSUME BoltInv, b.v.major # 3, NEW s \in Streams, NEW how \in {"discard", "buffer"}, Exhaust(s, how)
  PROVE  BoltInv'
<1> DEFINE f == [at |-> "exhaust", s |-> s, how |-> how, switch |-> s # b.curr]
           q == <<f>>
           frames == IF s = b.curr THEN q ELSE PauseFrames(b, q)
<1>1. Idle /\ loan' = loan /\ s \in 1 .. b.made /\ Start(b, frames)
      /\ b.streams[s].safe /\ AssertState(b, {"streaming", "streamingTx"})
  BY DEF Exhaust, Start
<1>2. Conn(b) /\ Keeps(b, b)
  BY KeepsSelf
<1>3. loan \in Use
  <2>1. loan # "new" /\ loan # "pooled"
    BY <1>1 DEF BoltInv, Phase
  <2>2. loan # "gone"
    BY <1>1 DEF BoltInv, Phase, AssertState
  <2> QED
    BY <1>1, <2>1, <2>2, IdleLoan
<1>4. f \in OnExhaust(b.made)
  BY <1>1 DEF OnExhaust
<1> HIDE DEF f
<1>5. q \in Seq(Quiet(b))
  BY <1>4, QuietFrames, OneFrame
<1> HIDE DEF q
<1>6. frames \in Seq(Quiet(b))
  BY <1>2, <1>5, StreamFramesQuiet
<1> HIDE DEF frames
<1>7. Calm(frames, b)
  BY <1>6, CalmOnes
<1> QED
  BY <1>1, <1>2, <1>3, <1>7, StartStep

\* Consume or Buffer has paused the other result.
LEMMA ExhaustStepInv ==
  ASSUME BoltInv, b.v.major # 3, ExhaustStep
  PROVE  BoltInv'
<1> DEFINE s == Top.s
           r == Resume(b, s)
           p == AppendPullN(r, s)
           x == Send(p)
           c == IF Top.switch THEN x ELSE b
           d == Discarding(c)
<1>1. ~Idle /\ Top.at = "exhaust" /\ loan' = loan
  BY DEF ExhaustStep, At
<1>2. loan \in Use /\ Calm(stack, b) /\ Conn(b) /\ Keeps(b, b) /\ s \in 1 .. b.made
  BY <1>1, InUse, TopStream, KeepsSelf DEF UseFrames
<1>3. Keeps(b, r) /\ Conn(r) /\ r.made = b.made /\ r.v = b.v
  <2> DEFINE y == [b EXCEPT !.curr = s]
  <2>1. s \in 0 .. b.made
    BY <1>2, NoStreamFits
  <2>2. Conn(y) /\ SameQueue(b, y) /\ Keeps(b, y)
    <3> HIDE DEF s
    <3> QED
      BY <1>2, <2>1, CurrKeeps
  <2>3. r = b \/ r = y
    BY DEF Resume
  <2> HIDE DEF y, r
  <2> QED
    BY <1>2, <2>2, <2>3 DEF SameQueue
<1> HIDE DEF r
<1>4. Keeps(r, p) /\ Conn(p) /\ p.made = b.made
  BY <1>2, <1>3, AppendPullNKeeps DEF Keeps
<1> HIDE DEF p
<1>5. Keeps(p, x) /\ x.made = b.made
  BY <1>4, SendKeeps
<1>6. Keeps(b, x)
  BY <1>2, <1>3, <1>4, <1>5, KeepsTrans
<1> HIDE DEF x
<1>7. Keeps(b, c) /\ c.made = b.made /\ Conn(c)
  BY <1>2, <1>5, <1>6 DEF Keeps
<1>0. Continue(b, << >>) \/ Continue(d, DiscardFrames(c, << >>)) \/ Continue(c, BufferFrames(c, << >>))
  BY DEF ExhaustStep, r, p, x
<1> HIDE DEF c
<1>8. Keeps(c, d) /\ d.made = b.made
  BY <1>7, DiscardingKeeps
<1> HIDE DEF d
<1>9. Keeps(b, d)
  BY <1>2, <1>7, <1>8, KeepsTrans
<1>10. DiscardFrames(c, << >>) \in Seq(Quiet(c)) /\ BufferFrames(c, << >>) \in Seq(Quiet(c))
  BY <1>7, EmptyCalm, StreamFramesQuiet
<1>11. DiscardFrames(c, << >>) \in Seq(Quiet(d))
  <2>1. Quiet(c) \subseteq Quiet(d)
    BY <1>7, <1>8, NoStreamFits, CalmMove DEF Keeps
  <2> QED
    BY <1>10, <2>1, SeqMono
<1>12. CASE Continue(b, << >>)
  BY <1>1, <1>2, <1>12, EmptyCalm, ContinueStep
<1>13. CASE Continue(d, DiscardFrames(c, << >>))
  BY <1>1, <1>2, <1>8, <1>9, <1>11, <1>13, ContinueStep
<1>14. CASE Continue(c, BufferFrames(c, << >>))
  BY <1>1, <1>2, <1>7, <1>10, <1>14, ContinueStep
<1> QED
  BY <1>0, <1>12, <1>13, <1>14

\* TELEMETRY is queued.
LEMMA TelemetryInv ==
  ASSUME BoltInv, b.v.major # 3, Telemetry
  PROVE  BoltInv'
<1> DEFINE c == EnqueuePlain(b, "telemetry")
<1>1. loan \in Use /\ loan' \in Use /\ Start(c, << >>)
  BY DEF Telemetry, Use
<1>2. Keeps(b, c)
  BY KeepsSelf, EnqueuePlainKeeps DEF Messages
<1> HIDE DEF c
<1> QED
  BY <1>1, <1>2, EmptyCalm, StartStep

\* ROUTE is sent.
LEMMA GetRoutingTableInv ==
  ASSUME BoltInv, b.v.major # 3, GetRoutingTable
  PROVE  BoltInv'
<1> DEFINE c == EnqueuePlain(b, "route")
           sent == Send(c)
           frames == IF sent.err THEN << >> ELSE ReceiveAll(sent, << >>)
<1>1. loan \in Use /\ loan' \in Use /\ Start(sent, frames)
  BY DEF GetRoutingTable, Use
<1>2. Keeps(b, c) /\ Conn(c) /\ Conn(b)
  BY KeepsSelf, EnqueuePlainKeeps DEF Messages
<1> HIDE DEF c
<1>3. Keeps(c, sent)
  BY <1>2, SendKeeps
<1> HIDE DEF sent
<1>4. Keeps(b, sent)
  BY <1>2, <1>3, KeepsTrans
<1>5. frames \in Seq(Quiet(sent))
  BY EmptyCalm, ReceiveAllQuiet
<1> HIDE DEF frames
<1>6. Calm(frames, sent)
  BY <1>5, CalmOnes
<1> QED
  BY <1>1, <1>4, <1>6, StartStep

\* Before there was ROUTE: the query for the table.
LEMMA CallGetRoutingTableInv ==
  ASSUME BoltInv, CallGetRoutingTable
  PROVE  BoltInv'
<1> DEFINE f == [at |-> "run", n |-> All, pack |-> "ok"]
           g == [at |-> "table", left |-> 2]
           frames == RunFrames(b, All, "ok", <<g>>)
<1>1. loan \in Use /\ loan' \in Use /\ Start(b, frames) /\ b.made < MaxStreams /\ AssertState(b, {"ready"})
  BY DEF CallGetRoutingTable, Use
<1>2. frames = <<f>> \o <<g>>
  BY <1>1 DEF RunFrames, AssertState
<1>3. f \in OnRun /\ g \in OnTable
  BY DEF OnRun, OnTable, Fetches
<1> HIDE DEF f, g
<1>4. <<f>> \o <<g>> = <<f, g>>
  BY ShortConcat
<1>5. Asking(frames, b)
  BY <1>1, <1>2, <1>3, <1>4 DEF Asking
<1> QED
  BY <1>1, <1>5, KeepsSelf, StartStep

\* Its records are read.
LEMMA CallGetRoutingTableNextInv ==
  ASSUME BoltInv, CallGetRoutingTableNext
  PROVE  BoltInv'
<1> DEFINE f == [at |-> "next", s |-> b.made, received |-> FALSE]
           g == [Top EXCEPT !.left = @ - 1]
           frames == IF b.err \/ Top.left = 0 THEN << >> ELSE <<f, g>>
<1>1. ~Idle /\ Top.at = "table" /\ loan' = loan /\ Continue(b, frames)
  BY DEF CallGetRoutingTableNext, At
<1>2. loan \in Use /\ Calm(stack, b) /\ Conn(b) /\ Keeps(b, b) /\ Top \in Fit(b)
  BY <1>1, InUse, KeepsSelf DEF UseFrames
<1>3. Top \in OnTable /\ (b.made > 0 \/ b.err)
  BY <1>1, <1>2, FrameKinds DEF Fit
<1>4. frames \in Seq(Quiet(b))
  <2>1. CASE b.err
    BY <2>1, EmptyCalm
  <2>2. CASE ~b.err
    <3>1. b.made \in 1 .. b.made
      BY <1>2, <1>3, <2>2, NoStreamFits
    <3>2. f \in OnNext(b.made)
      BY <3>1 DEF OnNext
    <3>3. g \in OnTable
      BY <1>3 DEF OnTable
    <3> HIDE DEF f, g
    <3>4. f \in Quiet(b) /\ g \in Quiet(b)
      BY <1>3, <3>2, <3>3, QuietFrames
    <3>5. <<f, g>> \in Seq(Quiet(b))
      BY <3>4
    <3> QED
      BY <3>5, EmptyCalm
  <2> QED
    BY <2>1, <2>2
<1> HIDE DEF frames
<1> QED
  BY <1>1, <1>2, <1>4, ContinueStep

-----------------------------------------------------------------------------
(* Responses, and what connects, resets and lends a connection.            *)

\* A step that keeps the queue, in any part of a loan.
LEMMA KeepStep ==
  ASSUME BoltInv, loan # "gone", NoReset(b.handlers), Keeps(b, b'), Server', net' \in {"up", "down"}, Phase',
         ~Idle' /\ Top'.at = "forceReset" /\ ~b'.err => b'.handlers = << >>
  PROVE  BoltInv'
<1>1. Conn(b')
  BY DEF Keeps
<1>2. NoReset(b'.handlers)
  BY DEF Keeps
<1>3. ResetAlone'
  BY <1>2 DEF ResetAlone
<1>4. Queue'
  <2>1. b'.v = b.v
    BY DEF Keeps
  <2>2. b.v.major > 3 => b.v.major # 3
    OBVIOUS
  <2>3. b.v.major > 3 => Matches(b'.handlers, b'.wire \o b'.out) \/ Broken(b')
    BY <1>2, <2>2 DEF BoltInv, Queue, Keeps, Broken
  <2>4. b.v.major = 3 => b'.handlers = << >>
    BY DEF BoltInv, Queue, Keeps
  <2>5. AllKnown(b'.handlers, b'.made)
    BY DEF BoltInv, Queue, Keeps, AllKnown
  <2> QED
    BY <2>1, <2>3, <2>4, <2>5 DEF Queue, AllKnown
<1> QED
  BY <1>1, <1>3, <1>4 DEF BoltInv

\* The stack of a call that waits for responses in versions 4 to 6.
WaitStacks(x) == {<<F("receive"), F(x)>>, <<F("receiveAll"), F("forceReset"), F(x)>>}

\* Where a call waits, outside a session's.
LEMMA WaitingAt ==
  ASSUME BoltInv, Waiting
  PROVE  \/ loan \in Use /\ Calm(stack, b)
         \/ loan = "connecting" /\ stack \in {<<F("receive"), F("connected")>>, <<F("receiveAll"), F("connected")>>}
         \/ loan = "returning" /\ stack \in WaitStacks("cleared")
         \/ loan = "lending" /\ stack \in WaitStacks("reauth") \cup {<<F("receiveAll"), F("reauthed")>>}
<1>1. ~Idle /\ Top.at \in {"receive", "receiveAll"}
  BY DEF Waiting
<1>2. CASE loan \in Use
  <2>1. Calm(stack, b) \/ Asking(stack, b)
    BY <1>2 DEF BoltInv, Phase
  <2>2. Asking(stack, b) => Top.at = "run"
    BY DEF Asking, OnRun, Top
  <2> QED
    BY <1>1, <1>2, <2>1, <2>2
<1>3. CASE loan = "connecting"
  <2>1. stack \in Connecting
    BY <1>3 DEF BoltInv, Phase
  <2>2. \A f : stack = <<f>> => Top = f
    BY DEF Top
  <2>3. stack # <<F("connected")>> /\ stack # <<Hello3>>
    BY <1>1, <2>2 DEF F, Hello3
  <2> QED
    BY <1>3, <2>1, <2>3 DEF Connecting
<1>4. CASE loan = "returning"
  <2>1. stack \in Returning
    BY <1>4 DEF BoltInv, Phase
  <2>2. (\A f : stack = <<f>> => Top = f) /\ (\A f, g : stack = <<f, g>> => Top = f)
        /\ (\A f, g, h : stack = <<f, g, h>> => Top = f)
    BY DEF Top
  <2>3. stack # <<F("cleared")>> /\ stack # <<F("forceReset"), F("cleared")>> /\ stack # <<F("cleared3")>>
        /\ stack # <<F("forceReset3"), F("cleared3")>> /\ stack # <<F("reset3"), F("cleared3")>>
    BY <1>1, <2>2 DEF F
  <2>4. \A f \in OnRecord3 : stack # <<f, F("forceReset3"), F("cleared3")>>
    BY <1>1, <2>2 DEF OnRecord3
  <2> QED
    BY <1>4, <2>1, <2>3, <2>4 DEF Returning, WaitStacks
<1>5. CASE loan = "lending"
  <2>1. stack \in Lending
    BY <1>5 DEF BoltInv, Phase
  <2>2. (\A f : stack = <<f>> => Top = f) /\ (\A f, g : stack = <<f, g>> => Top = f)
        /\ (\A f, g, h : stack = <<f, g, h>> => Top = f)
    BY DEF Top
  <2>3. stack # <<F("reauth")>> /\ stack # <<F("forceReset"), F("reauth")>> /\ stack # <<F("lent")>>
        /\ stack # <<F("reauthed")>> /\ stack # <<F("forceCheck3"), F("reauth")>> /\ stack # <<F("reset3"), F("reauth")>>
    BY <1>1, <2>2 DEF F
  <2> QED
    BY <1>5, <2>1, <2>3 DEF Lending, WaitStacks
<1> QED
  BY <1>1, <1>2, <1>3, <1>4, <1>5 DEF BoltInv, Phase

\* Only a call that waits for the answer to RESET, or a dead connection, has one pending.
LEMMA NoResetUnless ==
  ASSUME BoltInv, loan # "gone",
         ~(loan \in {"returning", "lending"} /\ Top.at = "receive"),
         ~(loan \in {"returning", "lending"} /\ Top.at \in {"cleared", "reauth", "lent"} /\ b.state = "dead")
  PROVE  NoReset(b.handlers)
  BY DEF BoltInv, ResetAlone

\* The connection after a response, when no RESET is pending.
LEMMA ReceivedKeeps ==
  ASSUME BoltInv, b.v.major # 3, loan # "gone", b.wire # << >>, NoReset(b.handlers), NEW a \in Answers
  PROVE  Keeps(b, Received(a)) /\ Received(a).made = b.made /\ ServerOK(a.srv)
<1> DEFINE c == Received(a)
<1>1. Conn(b) /\ Server /\ AllKnown(b.handlers, b.made)
  BY DEF BoltInv, Queue, AllKnown
<1>2. /\ Conn(c) /\ ServerOK(a.srv) /\ c.v = b.v /\ c.live = b.live /\ c.made = b.made
      /\ b.err => c.err
      /\ Matches(b.handlers, b.wire \o b.out) => Matches(c.handlers, c.wire \o c.out)
      /\ NoReset(c.handlers)
      /\ b.err /\ b.state = "dead" => c.state = "dead"
      /\ AllKnown(c.handlers, c.made)
  BY <1>1, ReceivedOK
<1> HIDE DEF c
<1>3. b.made <= c.made
  BY <1>1, <1>2, NoStreamFits
<1> QED
  BY <1>2, <1>3 DEF Keeps, c

\* receive ends the loop of receiveAll when nothing is pending, or with an error.
LEMMA ReceivedOver ==
  ASSUME BoltInv, b.v.major > 3, loan # "gone", b.wire # << >>, NoReset(b.handlers), NEW a \in Answers,
         \/ a.answer.k = "failure" \/ Received(a).handlers = << >>
         \/ Unexpected(Head(b.handlers), a.answer)
  PROVE  Received(a).err \/ Received(a).handlers = << >>
<1> DEFINE c == Received(a)
           matched == Matches(b.handlers, b.wire \o b.out)
<1>1. Conn(b) /\ Server /\ AllKnown(b.handlers, b.made)
  BY DEF BoltInv, Queue, AllKnown
<1>2. /\ b.err => c.err
      /\ matched => ~Unexpected(Head(b.handlers), a.answer)
      /\ b.handlers # << >> /\ a.answer.k = "failure" => c.err
      /\ b.handlers = << >> => c.handlers = << >>
  BY <1>1, ReceivedOK
<1>3. matched \/ b.err
  BY DEF BoltInv, Queue, Broken
<1> HIDE DEF c, matched
<1> QED
  BY <1>2, <1>3 DEF c

\* Phase in a part of the loan with a few stacks.
LEMMA PhaseStays ==
  ASSUME BoltInv, loan' = loan, Keeps(b, b'), b'.made = b.made,
         \/ loan = "connecting" /\ stack' \in Connecting
         \/ loan = "returning" /\ stack' \in Returning
         \/ loan = "lending" /\ stack' \in Lending
  PROVE  Phase'
<1>1. loan # "returning" => NoResults'
  BY DEF BoltInv, Phase, Keeps, NoResults
<1> QED
  BY <1>1 DEF Phase, Use

\* A response is read in versions 4 to 6.
LEMMA ReceiveInv ==
  ASSUME BoltInv, b.v.major > 3, Receive
  PROVE  BoltInv'
<1>1. Waiting /\ net = "up" /\ b.wire # << >> /\ net' = net /\ loan' = loan /\ b.v.major # 3
  BY DEF Receive
<1> DEFINE over(a) == \/ a.answer.k = "failure" \/ Top.at = "receive" \/ Received(a).handlers = << >>
                      \/ Unexpected(Head(b.handlers), a.answer)
<1>2. PICK a \in Answers : b' = Received(a) /\ srv' = a.srv /\ stack' = IF over(a) THEN Tail(stack) ELSE stack
  BY DEF Receive, Received
<1> DEFINE c == Received(a)
<1>3. Waiting => ~Idle /\ Top.at \in {"receive", "receiveAll"} /\ Top = Head(stack)
  BY DEF Waiting, Top
<1>4. loan # "gone" /\ net' \in {"up", "down"}
  BY <1>1, <1>3 DEF BoltInv, Phase
<1>5. ASSUME NoReset(b.handlers)
      PROVE  Keeps(b, b') /\ b'.made = b.made /\ Server'
  BY <1>1, <1>2, <1>4, <1>5, ReceivedKeeps DEF Server
<1>6. CASE loan \in Use /\ Calm(stack, b)
  <2>1. NoReset(b.handlers)
    BY <1>6, UseNoReset DEF Use
  <2>2. Calm(Tail(stack), b)
    BY <1>1, <1>3, <1>6, CalmTail DEF Idle
  <2>3. Calm(stack', b)
    BY <1>2, <1>6, <2>2
  <2>4. Calm(stack', b')
    BY <1>5, <2>1, <2>3, CalmMove, NoStreamFits DEF BoltInv, Keeps
  <2> QED
    BY <1>1, <1>4, <1>5, <1>6, <2>1, <2>4, UseStep
<1>7. CASE loan = "connecting" /\ stack \in {<<F("receive"), F("connected")>>, <<F("receiveAll"), F("connected")>>}
  <2>1. NoReset(b.handlers)
    BY <1>7, UseNoReset
  <2>2. Tail(stack) = <<F("connected")>>
    BY <1>7, ShortStack
  <2>3. stack' \in Connecting
    BY <1>2, <1>7, <2>2 DEF Connecting
  <2>4. Phase'
    BY <1>1, <1>5, <1>7, <2>1, <2>3, PhaseStays
  <2>5. Top'.at # "forceReset"
    <3>1. Head(stack') \in {F("receive"), F("receiveAll"), F("connected")}
      BY <1>2, <1>7, <2>2, ShortStack
    <3> QED
      BY <3>1 DEF F, Top
  <2> QED
    BY <1>4, <1>5, <2>1, <2>4, <2>5, KeepStep
<1>8. ASSUME NEW x \in {"cleared", "reauth"}, stack \in WaitStacks(x),
             \/ loan = "returning" /\ x = "cleared"
             \/ loan = "lending" /\ x = "reauth"
      PROVE  BoltInv'
  <2>1. CASE stack = <<F("receive"), F(x)>>
    <3>1. Top.at = "receive" /\ Tail(stack) = <<F(x)>>
      BY <2>1, ShortStack DEF Top, F
    <3>2. stack' = <<F(x)>>
      BY <1>2, <3>1
    <3>3. stack' \in IF x = "cleared" THEN Returning ELSE Lending
      BY <1>8, <3>2 DEF Returning, Lending
    <3>4. Top'.at = x /\ x # "forceReset"
      BY <3>2, ShortStack DEF Top, F
    <3>5. CASE NoReset(b.handlers)
      <4>1. Phase'
        BY <1>1, <1>5, <1>8, <3>3, <3>5, PhaseStays
      <4> QED
        BY <1>4, <1>5, <3>4, <3>5, <4>1, KeepStep
    <3>6. CASE ~NoReset(b.handlers)
      <4>1. Len(b.handlers) = 1
        BY <1>4, <3>1, <3>6 DEF BoltInv, ResetAlone
      <4>2. Matches(b.handlers, b.wire \o b.out)
        BY <1>4, <3>6 DEF BoltInv, Queue, Broken
      <4>3. Conn(b) /\ Server /\ AllKnown(b.handlers, b.made)
        BY <1>4 DEF BoltInv, Queue, AllKnown
      <4>4. /\ Conn(c) /\ ServerOK(a.srv) /\ c.v = b.v /\ c.live = b.live /\ c.made = b.made
            /\ Matches(c.handlers, c.wire \o c.out) /\ c.handlers = << >>
        BY <1>1, <3>6, <4>1, <4>2, <4>3, ReceivedOK
      <4> HIDE DEF c
      <4>5. b' = c /\ Server'
        BY <1>2, <4>4 DEF c, Server
      <4>6. Phase'
        <5>1. loan # "returning" => NoResults'
          BY <1>8, <4>4, <4>5 DEF BoltInv, Phase, NoResults
        <5> QED
          BY <1>1, <1>8, <3>3, <5>1 DEF Phase, Use
      <4>7. NoReset(b'.handlers) /\ AllKnown(b'.handlers, b'.made)
        BY <4>4, <4>5, EmptySeq DEF NoReset, AllKnown
      <4>8. ResetAlone'
        BY <4>4, <4>5, <4>7 DEF ResetAlone
      <4>9. Queue'
        BY <4>4, <4>5, <4>7 DEF Queue, AllKnown
      <4> QED
        BY <1>4, <4>4, <4>5, <4>6, <4>8, <4>9 DEF BoltInv
    <3> QED
      BY <3>5, <3>6
  <2>2. CASE stack = <<F("receiveAll"), F("forceReset"), F(x)>>
    <3>1. Top.at = "receiveAll" /\ Tail(stack) = <<F("forceReset"), F(x)>>
      BY <2>2, ShortStack DEF Top, F
    <3>2. NoReset(b.handlers)
      BY <1>4, <3>1, NoResetUnless
    <3>3. stack' \in IF x = "cleared" THEN Returning ELSE Lending
      BY <1>2, <1>8, <2>2, <3>1 DEF Returning, Lending
    <3>4. Phase'
      BY <1>1, <1>5, <1>8, <3>2, <3>3, PhaseStays
    <3>5. ~Idle' /\ Top'.at = "forceReset" /\ ~b'.err => b'.handlers = << >>
      <4>1. CASE over(a)
        BY <1>1, <1>2, <1>4, <3>1, <3>2, <4>1, ReceivedOver
      <4>2. CASE ~over(a)
        <5>1. stack' = stack
          BY <1>2, <4>2
        <5>2. Top'.at = "receiveAll"
          BY <2>2, <5>1, ShortStack DEF Top, F
        <5> QED
          BY <5>2
      <4> QED
        BY <4>1, <4>2
    <3> QED
      BY <1>4, <1>5, <3>2, <3>4, <3>5, KeepStep
  <2> QED
    BY <1>8, <2>1, <2>2 DEF WaitStacks
<1>9. CASE loan = "lending" /\ stack = <<F("receiveAll"), F("reauthed")>>
  <2>1. Top.at = "receiveAll" /\ Tail(stack) = <<F("reauthed")>>
    BY <1>9, ShortStack DEF Top, F
  <2>2. NoReset(b.handlers)
    BY <1>4, <2>1, NoResetUnless
  <2>3. stack' \in Lending
    BY <1>2, <1>9, <2>1 DEF Lending
  <2>4. Phase'
    BY <1>1, <1>5, <1>9, <2>2, <2>3, PhaseStays
  <2>5. Top'.at # "forceReset"
    <3>1. Head(stack') \in {F("receiveAll"), F("reauthed")}
      BY <1>2, <1>9, <2>1, ShortStack
    <3> QED
      BY <3>1 DEF F, Top
  <2> QED
    BY <1>4, <1>5, <2>2, <2>4, <2>5, KeepStep
<1> QED
  BY <1>1, <1>6, <1>7, <1>8, <1>9, WaitingAt

\* The socket fails where a response is awaited.
LEMMA ReceiveIoErrorInv ==
  ASSUME BoltInv, b.v.major > 3, ReceiveIoError
  PROVE  BoltInv'
<1>1. Waiting /\ srv' = srv /\ net' = net /\ loan' = loan /\ b' = SetError(b, TRUE) /\ stack' = Tail(stack)
      /\ b.v.major # 3
  BY DEF ReceiveIoError, OnIoError
<1>2. Conn(b) /\ Server' /\ net' \in {"up", "down"}
  BY <1>1 DEF BoltInv, Server
<1>3. Conn(b') /\ SameQueue(b, b') /\ b'.err /\ b'.state = "dead" /\ Keeps(b, b') /\ b'.made = b.made
  BY <1>1, <1>2, SetErrorKeeps DEF SameQueue
<1>4. ~Idle /\ loan # "gone"
  BY <1>1 DEF BoltInv, Phase, Waiting
<1>5. CASE loan \in Use /\ Calm(stack, b)
  <2>1. Calm(Tail(stack), b)
    BY <1>4, <1>5, CalmTail DEF Idle
  <2>0. stack' = Tail(stack) /\ loan' = loan
    BY <1>1
  <2>2. Calm(stack', b')
    BY <1>2, <1>3, <2>0, <2>1, CalmMove, NoStreamFits DEF Keeps
  <2> QED
    BY <1>2, <1>3, <1>5, <2>0, <2>2, UseStep
<1>6. CASE loan = "connecting" /\ stack \in {<<F("receive"), F("connected")>>, <<F("receiveAll"), F("connected")>>}
  <2>1. NoReset(b.handlers)
    BY <1>6, UseNoReset
  <2>0. stack' = Tail(stack)
    BY <1>1
  <2>2. stack' \in Connecting
    BY <1>6, <2>0, ShortStack DEF Connecting
  <2>3. Phase'
    BY <1>1, <1>3, <1>6, <2>2, PhaseStays
  <2> QED
    BY <1>2, <1>3, <1>4, <2>1, <2>3, KeepStep
<1>7. CASE loan \in {"returning", "lending"}
  <2>0. \/ loan = "returning" /\ stack \in WaitStacks("cleared")
        \/ loan = "lending" /\ stack \in WaitStacks("reauth") \cup {<<F("receiveAll"), F("reauthed")>>}
    BY <1>1, <1>7, WaitingAt DEF Use
  <2>9. stack' = Tail(stack)
    BY <1>1
  <2>1. stack' \in IF loan = "returning" THEN {<<F("cleared")>>, <<F("forceReset"), F("cleared")>>}
                   ELSE {<<F("reauth")>>, <<F("forceReset"), F("reauth")>>, <<F("reauthed")>>}
    <3>1. Tail(<<F("receiveAll"), F("reauthed")>>) = <<F("reauthed")>>
      BY ShortStack
    <3>2. \A x : /\ Tail(<<F("receive"), F(x)>>) = <<F(x)>>
                 /\ Tail(<<F("receiveAll"), F("forceReset"), F(x)>>) = <<F("forceReset"), F(x)>>
      BY ShortStack
    <3>3. \A x : stack \in WaitStacks(x) => stack' \in {<<F(x)>>, <<F("forceReset"), F(x)>>}
      BY <2>9, <3>2 DEF WaitStacks
    <3> QED
      BY <2>0, <2>9, <3>1, <3>3
  <2>2. \/ loan = "returning" /\ stack' \in Returning
        \/ loan = "lending" /\ stack' \in Lending
    BY <1>7, <2>1 DEF Returning, Lending
  <2>3. Phase'
    BY <1>1, <1>3, <2>2, PhaseStays
  <2>4. ResetAlone'
    <3>1. CASE NoReset(b.handlers)
      BY <1>3, <3>1 DEF ResetAlone, Keeps
    <3>2. CASE ~NoReset(b.handlers)
      <4>1. Top.at = "receive"
        BY <1>1, <1>7, <3>2 DEF BoltInv, ResetAlone, Waiting
      <4>2. stack \notin {<<F("receiveAll"), F("forceReset"), F("cleared")>>,
                          <<F("receiveAll"), F("forceReset"), F("reauth")>>, <<F("receiveAll"), F("reauthed")>>}
        BY <4>1, ShortStack DEF Top, F
      <4>3. stack' \in {<<F("cleared")>>, <<F("reauth")>>}
        BY <2>0, <2>9, <4>2, ShortStack DEF WaitStacks
      <4>4. Top'.at \in {"cleared", "reauth"}
        BY <4>3, ShortStack DEF Top, F
      <4> QED
        BY <1>1, <1>3, <1>7, <4>4 DEF ResetAlone
    <3> QED
      BY <3>1, <3>2
  <2>5. Queue'
    <3>1. /\ b.v.major > 3 => Matches(b.handlers, b.wire \o b.out) \/ Broken(b)
          /\ b.v.major = 3 => b.handlers = << >>
          /\ AllKnown(b.handlers, b.made)
      BY <1>4 DEF BoltInv, Queue, AllKnown
    <3>2. Broken(b) => Broken(b')
      BY <1>3 DEF Broken, SameQueue
    <3> QED
      BY <1>3, <3>1, <3>2 DEF Queue, AllKnown, SameQueue
  <2> QED
    BY <1>2, <1>3, <2>3, <2>4, <2>5 DEF BoltInv
<1> QED
  BY <1>1, <1>5, <1>6, <1>7, WaitingAt

\* The socket breaks: nothing else changes yet.
LEMMA NetFailsInv ==
  ASSUME BoltInv, NetFails
  PROVE  BoltInv'
<1>1. b' = b /\ srv' = srv /\ stack' = stack /\ loan' = loan /\ net' = "down"
  BY DEF NetFails
<1> QED
  BY <1>1 DEF BoltInv, Conn, Server, ServerOK, Phase, ResetAlone, Queue, Idle, Top, NoResults, Calm, Asking,
              Broken

\* The stack of a call that connects, resets or lends.
LEMMA SpecialAt ==
  ASSUME BoltInv, ~Idle
  PROVE  /\ Top.at = "connected" => loan = "connecting" /\ stack = <<F("connected")>>
         /\ Top.at = "cleared" => loan = "returning" /\ stack = <<F("cleared")>>
         /\ Top.at = "forceReset" => \/ loan = "returning" /\ stack = <<F("forceReset"), F("cleared")>>
                                     \/ loan = "lending" /\ stack = <<F("forceReset"), F("reauth")>>
         /\ Top.at = "reauth" => loan = "lending" /\ stack = <<F("reauth")>>
         /\ Top.at = "lent" => loan = "lending" /\ stack = <<F("lent")>>
         /\ Top.at = "reauthed" => loan = "lending" /\ stack = <<F("reauthed")>>
         /\ Top.at = "cleared3" => loan = "returning" /\ stack = <<F("cleared3")>>
         /\ Top.at = "forceReset3" => loan = "returning" /\ stack = <<F("forceReset3"), F("cleared3")>>
         /\ Top.at = "forceCheck3" => loan = "lending" /\ stack = <<F("forceCheck3"), F("reauth")>>
         /\ Top.at = "reset3" => \/ loan = "returning" /\ stack = <<F("reset3"), F("cleared3")>>
                                 \/ loan = "lending" /\ stack = <<F("reset3"), F("reauth")>>
<1> DEFINE S == {"connected", "cleared", "forceReset", "reauth", "lent", "reauthed", "cleared3", "forceReset3",
                 "forceCheck3", "reset3"}
<1>1. \A x : F(x).at = x
  BY DEF F
<1>2. (\A f : stack = <<f>> => Top = f) /\ (\A f, g : stack = <<f, g>> => Top = f)
      /\ (\A f, g, h : stack = <<f, g, h>> => Top = f)
  BY DEF Top
<1>3. CASE loan \in Use
  <2>1. Calm(stack, b) \/ Asking(stack, b)
    BY <1>3 DEF BoltInv, Phase
  <2>2. Asking(stack, b) => Top.at = "run"
    BY DEF Asking, OnRun, Top
  <2>3. Calm(stack, b) => Top \in Frames(b.made)
    BY CalmTail DEF Idle, Top, Fit
  <2>4. Calm(stack, b) => Top.at \notin S
    BY <2>3, FrameKinds
  <2> QED
    BY <2>1, <2>2, <2>4
<1>4. CASE loan = "connecting"
  <2>1. stack \in Connecting
    BY <1>4 DEF BoltInv, Phase
  <2>2. stack = <<F("connected")>> \/ Top \in {F("receive"), F("receiveAll"), Hello3}
    BY <1>2, <2>1 DEF Connecting
  <2>3. stack = <<F("connected")>> \/ Top.at \notin S
    BY <1>1, <2>2 DEF Hello3
  <2>4. stack = <<F("connected")>> => Top.at = "connected"
    BY <1>1, <1>2
  <2> QED
    BY <1>4, <2>3, <2>4
<1>5. CASE loan = "returning"
  <2>1. stack \in Returning
    BY <1>5 DEF BoltInv, Phase
  <2>2. \/ stack = <<F("cleared")>> /\ Top = F("cleared")
        \/ stack = <<F("forceReset"), F("cleared")>> /\ Top = F("forceReset")
        \/ stack = <<F("cleared3")>> /\ Top = F("cleared3")
        \/ stack = <<F("forceReset3"), F("cleared3")>> /\ Top = F("forceReset3")
        \/ stack = <<F("reset3"), F("cleared3")>> /\ Top = F("reset3")
        \/ Top \in {F("receive"), F("receiveAll")} \/ Top \in OnRecord3
    BY <1>2, <2>1 DEF Returning
  <2>3. Top \in OnRecord3 => Top.at = "record3"
    BY DEF OnRecord3
  <2> QED
    BY <1>1, <1>5, <2>2, <2>3
<1>6. CASE loan = "lending"
  <2>1. stack \in Lending
    BY <1>6 DEF BoltInv, Phase
  <2>2. \/ stack = <<F("reauth")>> /\ Top = F("reauth")
        \/ stack = <<F("forceReset"), F("reauth")>> /\ Top = F("forceReset")
        \/ stack = <<F("lent")>> /\ Top = F("lent")
        \/ stack = <<F("reauthed")>> /\ Top = F("reauthed")
        \/ stack = <<F("forceCheck3"), F("reauth")>> /\ Top = F("forceCheck3")
        \/ stack = <<F("reset3"), F("reauth")>> /\ Top = F("reset3")
        \/ Top \in {F("receive"), F("receiveAll")}
    BY <1>2, <2>1 DEF Lending
  <2> QED
    BY <1>1, <1>6, <2>2
<1> QED
  BY <1>3, <1>4, <1>5, <1>6 DEF BoltInv, Phase

\* HELLO, and LOGON where it exists, are sent.
LEMMA ConnectInv ==
  ASSUME BoltInv, b.v.major > 3, NEW once \in BOOLEAN, Connect(once)
  PROVE  BoltInv'
<1> DEFINE hello == EnqueuePlain(b, "hello")
           logon == EnqueuePlain(hello, "logon")
           q == IF HasLogon(b.v) THEN logon ELSE hello
           sent == Send(q)
           f == [at |-> IF once THEN "receive" ELSE "receiveAll"]
           wait == <<f, [at |-> "connected"]>>
<1>1. loan = "new" /\ Start(sent, IF sent.err THEN << >> ELSE wait)
      /\ loan' = (IF sent.err THEN "gone" ELSE "connecting") /\ b.v.major # 3
  BY DEF Connect
<1>2. Conn(b) /\ NoReset(b.handlers) /\ NoResults
  BY <1>1, UseNoReset DEF BoltInv, Phase
<1>3. Keeps(b, hello) /\ Conn(hello) /\ hello.v = b.v /\ hello.made = b.made
  BY <1>1, <1>2, EnqueuePlainKeeps DEF Messages
<1> HIDE DEF hello
<1>4. Keeps(hello, logon) /\ Conn(logon) /\ logon.made = b.made
  BY <1>1, <1>3, EnqueuePlainKeeps DEF Messages
<1> HIDE DEF logon
<1>5. Keeps(b, q) /\ Conn(q) /\ q.made = b.made
  BY <1>2, <1>3, <1>4, KeepsTrans
<1> HIDE DEF q
<1>6. Keeps(q, sent) /\ sent.made = b.made
  BY <1>5, SendKeeps
<1> HIDE DEF sent
<1>7. Keeps(b, sent)
  BY <1>2, <1>5, <1>6, KeepsTrans
<1>8. b' = sent /\ srv' = srv /\ net' = net /\ stack' = IF sent.err THEN << >> ELSE wait
  BY <1>1 DEF Start
<1>9. NoResults' /\ Server' /\ net' \in {"up", "down"}
  BY <1>2, <1>6, <1>7, <1>8 DEF NoResults, Keeps, BoltInv, Server
<1>10. wait \in Connecting
  BY DEF Connecting, F
<1>11. Phase'
  <2>1. CASE sent.err
    BY <1>1, <1>8, <1>9, <2>1 DEF Phase, Use, Idle
  <2>2. CASE ~sent.err
    BY <1>1, <1>8, <1>9, <1>10, <2>2 DEF Phase, Use
  <2> QED
    BY <2>1, <2>2
<1>12. ~Idle' => Top'.at # "forceReset"
  <2>1. Head(wait) = f
    BY ShortStack
  <2>2. f.at # "forceReset"
    OBVIOUS
  <2> HIDE DEF wait, f
  <2> QED
    BY <1>8, <2>1, <2>2 DEF Idle, Top
<1> QED
  BY <1>1, <1>2, <1>7, <1>8, <1>9, <1>11, <1>12, KeepStep

\* The connection is made, or not.
LEMMA ConnectedInv ==
  ASSUME BoltInv, Connected
  PROVE  BoltInv'
<1> DEFINE e == [b EXCEPT !.state = "ready"]
           d == ResetStreams(e)
<1>1. loan = "connecting" /\ stack = <<F("connected")>> /\ ~Idle
  BY SpecialAt DEF Connected, At
<1>2. Conn(b) /\ Keeps(b, b) /\ NoReset(b.handlers) /\ NoResults
  BY <1>1, UseNoReset, KeepsSelf DEF BoltInv, Phase
<1>3. Tail(stack) = << >> /\ << >> \o Tail(stack) = << >>
  BY <1>1, ShortStack, ShortConcat
<1>4. CASE b.err /\ Continue(b, << >>) /\ loan' = "gone"
  <2>1. b' = b /\ stack' = << >> /\ srv' = srv /\ net' = net
    BY <1>3, <1>4 DEF Continue
  <2>2. Server' /\ net' \in {"up", "down"} /\ NoResults'
    BY <1>2, <2>1 DEF BoltInv, Server, NoResults
  <2>3. Phase'
    BY <1>4, <2>1, <2>2 DEF Phase, Use, Idle
  <2> QED
    BY <1>1, <1>2, <2>1, <2>2, <2>3, KeepStep DEF Idle
<1>5. CASE ~b.err /\ Continue(d, << >>) /\ loan' = "borrowed"
  <2>1. Keeps(b, e) /\ Conn(e)
    BY <1>2, <1>5, StateKeeps DEF States, Keeps
  <2> HIDE DEF e
  <2>2. Keeps(e, d)
    BY <2>1, ResetStreamsKeeps
  <2> HIDE DEF d
  <2>3. Keeps(b, d)
    BY <1>2, <2>1, <2>2, KeepsTrans
  <2>4. b' = d /\ stack' = << >> /\ srv' = srv /\ net' = net
    BY <1>3, <1>5 DEF Continue
  <2>5. Server' /\ net' \in {"up", "down"}
    BY <2>4 DEF BoltInv, Server
  <2>6. Phase'
    BY <1>5, <2>4, EmptyCalm DEF Phase, Use, Idle
  <2> QED
    BY <1>1, <1>2, <2>3, <2>4, <2>5, <2>6, KeepStep DEF Idle
<1> QED
  BY <1>4, <1>5 DEF Connected

\* ClearError forgets the error, unless the connection is dead.
LEMMA ClearErrorSame ==
  ASSUME NEW c, Conn(c)
  PROVE  LET d == ClearError(c)
         IN  Conn(d) /\ SameQueue(c, d) /\ d.state = c.state /\ (c.state = "dead" => d = c)
<1> DEFINE d == [c EXCEPT !.err = FALSE]
<1>1. DOMAIN d = ConnFields /\ d.streams = c.streams
      /\ d.curr = c.curr /\ d.err \in BOOLEAN /\ d.state = c.state /\ d.txId = c.txId
      /\ SameQueue(c, d)
  BY DEF Conn, ConnFields, SameQueue
<1>0. ClearError(c) = IF c.state = "dead" THEN c ELSE d
  BY DEF ClearError
<1> HIDE DEF d
<1>2. Conn(d)
  <2>1. c.curr \in 0 .. c.made /\ c.state \in States /\ c.err \in BOOLEAN /\ c.txId \in BOOLEAN
        /\ DOMAIN c.streams = Streams /\ \A r \in Streams : StreamOK(c.streams[r])
    BY DEF Conn
  <2> QED
    BY <1>1, <2>1, SameConn
<1> QED
  BY <1>0, <1>1, <1>2 DEF SameQueue

\* A reset starts, for the pool's Return or its health check, with c for the connection.
LEMMA ResetStarts ==
  ASSUME BoltInv, loan \notin {"gone", "returning", "lending"}, NEW x, Conn(b'),
         \/ x = "cleared" /\ loan' = "returning"
         \/ x = "reauth" /\ loan' = "lending" /\ NoResults',
         SameQueue(b, b'), b'.state = b.state, b.state = "dead" => b' = b,
         srv' = srv, net' = net,
         \/ stack' = <<F(x)>>
         \/ stack' = <<F("forceReset"), F(x)>> /\ b.handlers = << >>
         \/ stack' = <<F("receiveAll"), F("forceReset"), F(x)>>
  PROVE  BoltInv'
<1>1. NoReset(b.handlers) /\ NoReset(b'.handlers)
  BY UseNoReset DEF SameQueue
<1>2. Server' /\ net' \in {"up", "down"}
  BY DEF BoltInv, Server
<1>3. Phase'
  <2>1. x = "cleared" => stack' \in Returning
    BY DEF Returning
  <2>2. x = "reauth" => stack' \in Lending
    BY DEF Lending
  <2> QED
    BY <2>1, <2>2 DEF Phase, Use
<1>4. ~Idle' /\ Top'.at = "forceReset" => b'.handlers = << >>
  <2>1. F(x).at # "forceReset" /\ F("receiveAll").at # "forceReset"
    BY DEF F
  <2>2. CASE stack' = <<F(x)>>
    BY <2>1, <2>2, ShortStack DEF Top
  <2>3. CASE stack' = <<F("receiveAll"), F("forceReset"), F(x)>>
    BY <2>1, <2>3, ShortStack DEF Top
  <2> QED
    BY <2>2, <2>3 DEF SameQueue
<1>5. ResetAlone'
  BY <1>1, <1>4 DEF ResetAlone
<1>6. Queue'
  <2>1. /\ b.v.major > 3 => Matches(b.handlers, b.wire \o b.out) \/ Broken(b)
        /\ b.v.major = 3 => b.handlers = << >>
        /\ AllKnown(b.handlers, b.made)
    BY DEF BoltInv, Queue, AllKnown
  <2>2. Broken(b) => Broken(b')
    BY DEF Broken
  <2> QED
    BY <2>1, <2>2 DEF Queue, AllKnown, SameQueue
<1> QED
  BY <1>2, <1>3, <1>5, <1>6 DEF BoltInv

\* The frames of a reset.
LEMMA ForceResetStack ==
  ASSUME NEW c, NEW x
  PROVE  LET q == ForceResetFrames(c, <<F(x)>>)
         IN  \/ q = <<F(x)>>
             \/ q = <<F("forceReset"), F(x)>> /\ c.handlers = << >>
             \/ q = <<F("receiveAll"), F("forceReset"), F(x)>>
<1> DEFINE f == F("receiveAll")
           g == F("forceReset")
           h == F(x)
<1>1. ForceResetFrames(c, <<h>>) = IF c.state = "dead" THEN <<h>>
                                   ELSE IF c.handlers = << >> THEN <<g>> \o <<h>> ELSE <<f>> \o (<<g>> \o <<h>>)
  BY DEF ForceResetFrames, ReceiveAll, F
<1> HIDE DEF f, g, h
<1>2. <<g>> \o <<h>> = <<g, h>> /\ <<f>> \o <<g, h>> = <<f, g, h>>
  BY ShortConcat
<1> QED
  BY <1>1, <1>2 DEF f, g, h

\* Reset.
LEMMA ResetInv ==
  ASSUME BoltInv, Reset
  PROVE  BoltInv'
<1> DEFINE x == "cleared"
           c == ClearError(b)
           q == ForceResetFrames(b, <<F(x)>>)
<1>1. loan \notin {"gone", "returning", "lending"} /\ loan' = "returning"
  BY DEF Reset
<1>2. Conn(b) /\ SameQueue(b, b)
  BY DEF BoltInv, SameQueue
<1>3. Start(b, <<F(x)>>) \/ Start(c, q)
  BY DEF Reset, F
<1>4. CASE Start(b, <<F(x)>>)
  BY <1>1, <1>2, <1>4, ResetStarts DEF Start
<1>5. CASE Start(c, q)
  <2>1. Conn(c) /\ SameQueue(b, c) /\ c.state = b.state /\ (b.state = "dead" => c = b)
    BY <1>2, ClearErrorSame
  <2>2. \/ q = <<F(x)>>
        \/ q = <<F("forceReset"), F(x)>> /\ b.handlers = << >>
        \/ q = <<F("receiveAll"), F("forceReset"), F(x)>>
    BY ForceResetStack
  <2> HIDE DEF c, q
  <2>3. b' = c /\ stack' = q /\ srv' = srv /\ net' = net
    BY <1>5 DEF Start
  <2> QED
    BY <1>1, <2>1, <2>2, <2>3, ResetStarts
<1> QED
  BY <1>3, <1>4, <1>5

\* Borrow.
LEMMA BorrowInv ==
  ASSUME BoltInv, NEW check \in BOOLEAN, Borrow(check)
  PROVE  BoltInv'
<1> DEFINE x == "reauth"
           c == ClearError(b)
           q == ForceResetFrames(b, <<F(x)>>)
<1>1. loan \notin {"gone", "returning", "lending"} /\ loan' = "lending" /\ NoResults
  BY DEF Borrow, BoltInv, Phase
<1>2. Conn(b) /\ SameQueue(b, b)
  BY DEF BoltInv, SameQueue
<1>3. Start(b, <<F(x)>>) \/ Start(c, q)
  BY DEF Borrow, F
<1>4. CASE Start(b, <<F(x)>>)
  BY <1>1, <1>2, <1>4, ResetStarts DEF Start, NoResults
<1>5. CASE Start(c, q)
  <2>1. Conn(c) /\ SameQueue(b, c) /\ c.state = b.state /\ (b.state = "dead" => c = b)
    BY <1>2, ClearErrorSame
  <2>2. \/ q = <<F(x)>>
        \/ q = <<F("forceReset"), F(x)>> /\ b.handlers = << >>
        \/ q = <<F("receiveAll"), F("forceReset"), F(x)>>
    BY ForceResetStack
  <2> HIDE DEF c, q
  <2>3. b' = c /\ stack' = q /\ srv' = srv /\ net' = net
    BY <1>5 DEF Start
  <2>4. NoResults'
    BY <1>1, <2>1, <2>3 DEF NoResults, SameQueue
  <2> QED
    BY <1>1, <2>1, <2>2, <2>3, <2>4, ResetStarts
<1> QED
  BY <1>3, <1>4, <1>5

\* RESET is sent when nothing else is pending.
LEMMA ForceResetInv ==
  ASSUME BoltInv, b.v.major > 3, ForceReset
  PROVE  BoltInv'
<1> DEFINE q == EnqueuePlain(b, "reset")
           sent == Send(q)
           f == F("receive")
<1>1. PICK x \in {"cleared", "reauth"} :
        /\ stack = <<F("forceReset"), F(x)>>
        /\ \/ loan = "returning" /\ x = "cleared"
           \/ loan = "lending" /\ x = "reauth"
  BY SpecialAt DEF ForceReset, At
<1>2. ~Idle /\ Top.at = "forceReset" /\ loan' = loan /\ loan # "gone" /\ b.v.major # 3
  BY <1>1 DEF ForceReset, At
<1>3. Conn(b) /\ Keeps(b, b) /\ NoReset(b.handlers)
  BY <1>2, KeepsSelf, NoResetUnless
<1>4. Tail(stack) = <<F(x)>> /\ << >> \o <<F(x)>> = <<F(x)>> /\ <<f>> \o <<F(x)>> = <<f, F(x)>>
  BY <1>1, ShortStack, ShortConcat
<1>5. \A at : Head(<<F(at)>>).at = at /\ Head(<<F(at), F(x)>>).at = at
  BY ShortStack DEF F
<1>6. <<F(x)>> \in (IF x = "cleared" THEN Returning ELSE Lending)
      /\ <<f, F(x)>> \in (IF x = "cleared" THEN Returning ELSE Lending)
  BY DEF Returning, Lending
<1>0. \/ b.err /\ Continue(b, << >>)
      \/ ~b.err /\ Continue(sent, IF sent.err THEN << >> ELSE <<f>>)
  BY DEF ForceReset, F
<1>7. CASE b.err /\ Continue(b, << >>)
  <2>1. b' = b /\ stack' = <<F(x)>> /\ srv' = srv /\ net' = net
    BY <1>4, <1>7 DEF Continue
  <2>2. Server' /\ net' \in {"up", "down"}
    BY <2>1 DEF BoltInv, Server
  <2>3. Phase'
    BY <1>1, <1>2, <1>3, <1>6, <2>1, PhaseStays
  <2>4. Top'.at # "forceReset"
    BY <1>5, <2>1 DEF Top
  <2> QED
    BY <1>2, <1>3, <2>1, <2>2, <2>3, <2>4, KeepStep
<1>8. CASE ~b.err /\ Continue(sent, IF sent.err THEN << >> ELSE <<f>>)
  <2>1. b.handlers = << >> /\ Matches(b.handlers, b.wire \o b.out) /\ AllKnown(b.handlers, b.made)
    BY <1>2, <1>8 DEF BoltInv, ResetAlone, Queue, Broken, AllKnown
  <2>2. /\ Conn(q) /\ q.v = b.v /\ q.live = b.live /\ q.made = b.made /\ q.err = b.err
        /\ Len(q.handlers) = Len(b.handlers) + 1
        /\ Matches(q.handlers, q.wire \o q.out) /\ AllKnown(q.handlers, q.made)
    BY <1>2, <1>3, <2>1, EnqueuePlainKeeps DEF Messages
  <2>3. Len(q.handlers) = 1
    BY <2>1, <2>2, EmptySeq
  <2> HIDE DEF q
  <2>4. Keeps(q, sent) /\ sent.made = q.made /\ sent.handlers = q.handlers /\ sent.wire \o sent.out = q.wire \o q.out
        /\ (sent.err => q.err \/ sent.state = "dead")
    BY <2>2, SendKeeps
  <2> HIDE DEF sent
  <2>5. b' = sent /\ srv' = srv /\ net' = net /\ stack' = IF sent.err THEN <<F(x)>> ELSE <<f, F(x)>>
    BY <1>4, <1>8 DEF Continue
  <2>6. Server' /\ net' \in {"up", "down"} /\ Conn(b') /\ (sent.err => sent.state = "dead")
    BY <1>8, <2>2, <2>4, <2>5 DEF BoltInv, Server, Keeps
  <2>7. Phase'
    <3>1. loan # "returning" => NoResults'
      BY <1>1, <2>2, <2>4, <2>5 DEF BoltInv, Phase, Keeps, NoResults
    <3> QED
      BY <1>1, <1>2, <1>6, <2>5, <3>1 DEF Phase, Use
  <2>8. ResetAlone'
    <3>1. CASE sent.err
      <4>1. Top'.at = x
        BY <1>5, <2>5, <3>1 DEF Top
      <4> QED
        BY <1>1, <1>2, <2>5, <2>6, <3>1, <4>1 DEF ResetAlone
    <3>2. CASE ~sent.err
      <4>1. Top'.at = "receive"
        BY <1>5, <2>5, <3>2 DEF Top
      <4> QED
        BY <1>1, <1>2, <2>3, <2>4, <2>5, <4>1 DEF ResetAlone
    <3> QED
      BY <3>1, <3>2
  <2>9. Queue'
    <3>1. AllKnown(b'.handlers, b'.made) /\ b'.v = b.v
      BY <2>2, <2>4, <2>5 DEF Keeps
    <3>2. Matches(b'.handlers, b'.wire \o b'.out)
      BY <2>2, <2>4, <2>5
    <3> QED
      BY <3>1, <3>2 DEF Queue, AllKnown
  <2> QED
    BY <2>6, <2>7, <2>8, <2>9 DEF BoltInv
<1> QED
  BY <1>0, <1>7, <1>8

\* The connection goes back to the pool, or is dropped when it is dead.
LEMMA ReturnedInv ==
  ASSUME BoltInv, b.v.major > 3 \/ b.v.major = 3, loan = "returning", NEW f, stack = <<f>>, f.at # "receive",
         NEW c, Conn(c), SameQueue(b, c), c.state = b.state, c.curr = NoStream,
         b.v.major # 3 => \A s \in Streams : ~c.streams[s].safe,
         Returned(c)
  PROVE  BoltInv'
<1> DEFINE new == [s \in Streams |-> NewStream]
           fresh == [c EXCEPT !.made = 0, !.live = 1, !.streams = new]
           left == [c EXCEPT !.live = c.made + 1]
           s0 == [srv EXCEPT !.sent = [s \in Streams |-> 0], !.last = NoStream]
<1>1. stack' = << >> /\ net' \in {"up", "down"} /\ loan' = IF b.state = "dead" THEN "gone" ELSE "pooled"
  BY ShortStack DEF Returned, BoltInv
<1>2. \/ c.wire \o c.out = << >> /\ b' = fresh /\ srv' = s0
      \/ b' = left /\ srv' = srv
  BY DEF Returned
<1>3. ServerOK(srv) /\ ServerOK(s0)
  BY DEF BoltInv, Server, ServerOK
<1>4. Server'
  BY <1>2, <1>3 DEF Server
<1>5. DOMAIN fresh = ConnFields /\ fresh.streams = new /\ fresh.made = 0 /\ fresh.live = 1
      /\ fresh.curr = c.curr /\ fresh.err = c.err /\ fresh.state = c.state /\ fresh.txId = c.txId
      /\ fresh.v = c.v /\ fresh.handlers = c.handlers /\ fresh.out = c.out /\ fresh.wire = c.wire
  BY DEF Conn, ConnFields
<1>6. DOMAIN left = ConnFields /\ left.streams = c.streams /\ left.made = c.made /\ left.live = c.made + 1
      /\ left.curr = c.curr /\ left.err = c.err /\ left.state = c.state /\ left.txId = c.txId
      /\ left.v = c.v /\ left.handlers = c.handlers /\ left.out = c.out /\ left.wire = c.wire
  BY DEF Conn, ConnFields
<1>7. DOMAIN new = Streams /\ \A s \in Streams : StreamOK(new[s]) /\ ~new[s].safe
  BY DEF StreamOK, StreamFields, NewStream, Fetches
<1> HIDE DEF new, fresh, left, s0
<1>8. Conn(fresh)
  <2>1. fresh.made \in 0 .. MaxStreams /\ fresh.curr \in 0 .. fresh.made /\ fresh.live \in 1 .. fresh.made + 1
    BY <1>5, StreamsAreCounted DEF NoStream
  <2> QED
    BY <1>5, <1>7, <2>1 DEF Conn
<1>9. Conn(left)
  <2>1. left.live \in 1 .. left.made + 1
    BY <1>6, NoStreamFits
  <2> QED
    BY <1>6, <2>1 DEF Conn
<1>10. /\ Conn(b') /\ b'.v = b.v /\ b'.state = b.state /\ b'.handlers = b.handlers /\ b'.wire = b.wire
       /\ b'.out = b.out /\ b'.curr = NoStream /\ NoResults'
       /\ b.v.major # 3 => \A s \in Streams : ~b'.streams[s].safe
  <2>1. c.made + 1 > c.made
    BY NoStreamFits
  <2>2. CASE b' = fresh
    BY <1>5, <1>7, <1>8, <2>2 DEF NoResults, SameQueue
  <2>3. CASE b' = left
    BY <1>6, <1>9, <2>1, <2>3 DEF NoResults, SameQueue
  <2> QED
    BY <1>2, <2>2, <2>3
<1>11. Phase'
  BY <1>1, <1>10 DEF Phase, Use, Idle
<1>12. ResetAlone'
  <2>1. Top = f /\ ~Idle
    BY ShortStack DEF Top, Idle
  <2>2. b.state # "dead" => NoReset(b.handlers)
    BY <2>1 DEF BoltInv, ResetAlone
  <2> QED
    BY <1>1, <1>10, <2>2 DEF ResetAlone, Idle
<1>13. Queue'
  <2>1. b.v.major = 3 => b.handlers = << >>
    BY DEF BoltInv, Queue
  <2>2. b.v.major > 3 /\ b.state # "dead" => Matches(b.handlers, b.wire \o b.out)
    BY DEF BoltInv, Queue, Broken
  <2>3. AllKnown(b.handlers, b.made)
    BY DEF BoltInv, Queue, AllKnown
  <2>4. b.state # "dead" => AllKnown(b'.handlers, b'.made)
    <3> SUFFICES ASSUME b.state # "dead"
                 PROVE  AllKnown(b.handlers, b'.made)
      BY <1>10
    <3>1. CASE b' = left
      BY <1>6, <2>3, <3>1 DEF SameQueue
    <3>2. CASE c.wire \o c.out = << >>
      <4>1. b.handlers = << >>
        <5>1. CASE b.v.major > 3
          <6>1. Len(b.handlers) = Len(c.wire \o c.out)
            BY <2>2, <5>1 DEF Matches, SameQueue
          <6>2. Len(b.handlers) = 0
            BY <3>2, <6>1, EmptySeq
          <6> QED
            BY <6>2, EmptySeq DEF BoltInv, Conn
        <5> QED
          BY <2>1, <5>1
      <4> QED
        BY <4>1, EmptySeq DEF AllKnown
    <3> QED
      BY <1>2, <3>1, <3>2
  <2> QED
    BY <1>1, <1>10, <2>1, <2>2, <2>4 DEF Queue, AllKnown
<1> QED
  BY <1>1, <1>4, <1>10, <1>11, <1>12, <1>13 DEF BoltInv

\* The deferred part of Reset, and the pool.
LEMMA ResetDoneInv ==
  ASSUME BoltInv, b.v.major > 3, ResetDone
  PROVE  BoltInv'
<1> DEFINE e == [b EXCEPT !.txId = FALSE, !.err = FALSE, !.lastQid = -1]
           c == Cleared(b)
<1>1. loan = "returning" /\ stack = <<F("cleared")>> /\ Conn(b) /\ Returned(c)
  BY SpecialAt DEF ResetDone, At, BoltInv
<1>2. DOMAIN e = ConnFields /\ e.streams = b.streams
      /\ e.curr = b.curr /\ e.err \in BOOLEAN /\ e.state = b.state /\ e.txId \in BOOLEAN
      /\ SameQueue(b, e)
  BY <1>1 DEF Conn, ConnFields, SameQueue
<1>3. c = ResetStreams(e)
  BY DEF Cleared
<1> HIDE DEF e, c
<1>4. Conn(e)
  <2>1. b.curr \in 0 .. b.made /\ b.state \in States
        /\ DOMAIN b.streams = Streams /\ \A r \in Streams : StreamOK(b.streams[r])
    BY <1>1 DEF Conn
  <2> QED
    BY <1>1, <1>2, <2>1, SameConn
<1>5. Conn(c) /\ SameQueue(e, c) /\ c.state = e.state /\ c.curr = NoStream /\ \A s \in Streams : ~c.streams[s].safe
  BY <1>3, <1>4, ResetStreamsKeeps
<1>6. SameQueue(b, c) /\ c.state = b.state
  BY <1>2, <1>5 DEF SameQueue
<1>7. F("cleared").at # "receive"
  BY DEF F
<1> QED
  BY <1>1, <1>5, <1>6, <1>7, ReturnedInv

\* New credentials, and the end of the health check.
LEMMA LendStep ==
  ASSUME BoltInv, loan = "lending", NEW f, stack = <<f>>, loan' = loan, NEW c, Keeps(b, c), c.made = b.made,
         ~NoReset(b.handlers) => SameQueue(b, c) /\ c.state = "dead",
         NEW frames, Continue(c, frames), 
         frames \in {<<F("lent")>>, <<F("reauthed")>>, <<F("receiveAll"), F("reauthed")>>},
         ~NoReset(b.handlers) => frames = <<F("lent")>>
  PROVE  BoltInv'
<1>1. b' = c /\ stack' = frames /\ srv' = srv /\ net' = net
  <2>1. Tail(stack) = << >>
    BY ShortStack
  <2>2. frames \o << >> = frames
    <3>1. \A x : <<F(x)>> \o << >> = <<F(x)>>
      BY ShortConcat
    <3>2. <<F("receiveAll"), F("reauthed")>> \o << >> = <<F("receiveAll"), F("reauthed")>>
      <4> DEFINE e == F("receiveAll")
                 g == F("reauthed")
                 q == <<e, g>>
      <4> HIDE DEF e, g
      <4>1. q \in Seq({e, g})
        OBVIOUS
      <4> HIDE DEF q
      <4>2. q \o << >> = q
        BY <4>1, ConcatEmptySeq
      <4> QED
        BY <4>2 DEF q, e, g
    <3> QED
      BY <3>1, <3>2
  <2> QED
    BY <2>1, <2>2 DEF Continue
<1>2. Server' /\ net' \in {"up", "down"}
  BY <1>1 DEF BoltInv, Server
<1>3. stack' \in Lending
  BY <1>1 DEF Lending
<1>4. Phase'
  BY <1>1, <1>3, PhaseStays
<1>5. Top'.at # "forceReset" /\ (frames = <<F("lent")>> => Top'.at = "lent")
  BY <1>1, ShortStack DEF Top, F
<1>6. CASE NoReset(b.handlers)
  BY <1>1, <1>2, <1>4, <1>5, <1>6, KeepStep
<1>7. CASE ~NoReset(b.handlers)
  <2>1. SameQueue(b, b') /\ b'.state = "dead" /\ Top'.at = "lent" /\ ~NoReset(b'.handlers)
    BY <1>1, <1>5, <1>7 DEF SameQueue
  <2>3. ResetAlone'
    BY <2>1 DEF ResetAlone
  <2>4. Queue'
    BY <1>7, <2>1 DEF BoltInv, Queue, Broken, SameQueue
  <2>5. Conn(b')
    BY <1>1 DEF Keeps
  <2> QED
    BY <1>2, <1>4, <2>3, <2>4, <2>5 DEF BoltInv
<1> QED
  BY <1>6, <1>7

\* ReAuth with LOGOFF and LOGON.
LEMMA ReAuthInv ==
  ASSUME BoltInv, b.v.major # 3, NEW changed \in BOOLEAN, NEW force \in BOOLEAN, ReAuth(changed, force)
  PROVE  BoltInv'
<1> DEFINE off == EnqueuePlain(b, "logoff")
           on == EnqueuePlain(off, "logon")
           c == Send(on)
           frames == IF force /\ ~c.err THEN ReceiveAll(c, <<Reauthed>>) ELSE <<Reauthed>>
<1>1. loan = "lending" /\ stack = <<F("reauth")>> /\ loan' = loan /\ Top.at = "reauth"
  BY SpecialAt DEF ReAuth, At
<1>2. Conn(b) /\ Keeps(b, b) /\ Lent = F("lent") /\ Reauthed = F("reauthed")
      /\ [at |-> "receiveAll"] = F("receiveAll")
  BY KeepsSelf DEF Lent, Reauthed, F
<1>5. ~NoReset(b.handlers) => SameQueue(b, b) /\ b.state = "dead"
  BY <1>1, NoResetUnless DEF SameQueue
<1>0. Continue(b, <<Lent>>) \/ (b.state # "dead" /\ Continue(c, frames))
  BY DEF ReAuth
<1>3. CASE Continue(b, <<Lent>>)
  BY <1>1, <1>2, <1>3, <1>5, LendStep
<1>4. CASE b.state # "dead" /\ Continue(c, frames)
  <2>1. NoReset(b.handlers)
    BY <1>1, <1>4, NoResetUnless
  <2>2. Keeps(b, off) /\ Conn(off) /\ off.v = b.v /\ off.made = b.made
    BY <1>2, EnqueuePlainKeeps DEF Messages
  <2> HIDE DEF off
  <2>3. Keeps(off, on) /\ Conn(on) /\ on.made = b.made
    BY <2>2, EnqueuePlainKeeps DEF Messages
  <2> HIDE DEF on
  <2>4. Keeps(on, c) /\ c.made = b.made
    BY <2>3, SendKeeps
  <2> HIDE DEF c
  <2>5. Keeps(b, c)
    BY <1>2, <2>2, <2>3, <2>4, KeepsTrans
  <2>6. frames = <<F("reauthed")>> \/ frames = <<F("receiveAll")>> \o <<F("reauthed")>>
    BY <1>2 DEF ReceiveAll
  <2>7. <<F("receiveAll")>> \o <<F("reauthed")>> = <<F("receiveAll"), F("reauthed")>>
    BY ShortConcat
  <2> HIDE DEF frames
  <2> QED
    BY <1>1, <1>4, <2>1, <2>4, <2>5, <2>6, <2>7, LendStep
<1> QED
  BY <1>0, <1>3, <1>4

\* The error of the connection is that of ReAuth, and the pool closes it.
LEMMA ReAuthDoneInv ==
  ASSUME BoltInv, ReAuthDone
  PROVE  BoltInv'
<1> DEFINE c == [b EXCEPT !.state = "dead"]
<1>1. loan = "lending" /\ stack = <<F("reauthed")>> /\ loan' = loan /\ Top.at = "reauthed"
  BY SpecialAt DEF ReAuthDone, At
<1>2. Conn(b) /\ Keeps(b, b) /\ Lent = F("lent")
  BY KeepsSelf DEF Lent, F
<1>5. NoReset(b.handlers)
  BY <1>1, NoResetUnless
<1>0. Continue(b, <<Lent>>) \/ Continue(c, <<Lent>>)
  BY DEF ReAuthDone
<1>3. CASE Continue(b, <<Lent>>)
  BY <1>1, <1>2, <1>3, <1>5, LendStep
<1>4. CASE Continue(c, <<Lent>>)
  <2>1. Keeps(b, c) /\ c.made = b.made
    BY <1>2, StateKeeps DEF States
  <2> HIDE DEF c
  <2> QED
    BY <1>1, <1>2, <1>4, <1>5, <2>1, LendStep
<1> QED
  BY <1>0, <1>3, <1>4

\* Without LOGON, other credentials kill the connection.
LEMMA FallbackReAuthInv ==
  ASSUME BoltInv, NEW changed \in BOOLEAN, FallbackReAuth(changed)
  PROVE  BoltInv'
<1> DEFINE c == [b EXCEPT !.state = "dead"]
<1>1. loan = "lending" /\ stack = <<F("reauth")>> /\ loan' = loan /\ Top.at = "reauth"
  BY SpecialAt DEF FallbackReAuth, At
<1>2. Conn(b) /\ Keeps(b, b) /\ Lent = F("lent")
  BY KeepsSelf DEF Lent, F
<1>5. ~NoReset(b.handlers) => SameQueue(b, b) /\ b.state = "dead"
  BY <1>1, NoResetUnless DEF SameQueue
<1>0. Continue(b, <<Lent>>) \/ Continue(c, <<Lent>>)
  BY DEF FallbackReAuth
<1>3. CASE Continue(b, <<Lent>>)
  BY <1>1, <1>2, <1>3, <1>5, LendStep
<1>4. CASE Continue(c, <<Lent>>)
  <2>1. Keeps(b, c) /\ c.made = b.made
    BY <1>2, StateKeeps DEF States
  <2>2. SameQueue(b, c) /\ c.state = "dead"
    BY <1>2 DEF Conn, ConnFields, SameQueue
  <2> HIDE DEF c
  <2> QED
    BY <1>1, <1>2, <1>4, <2>1, <2>2, LendStep
<1> QED
  BY <1>0, <1>3, <1>4

\* The connection is lent, or dropped.
LEMMA LendingDoneInv ==
  ASSUME BoltInv, LendingDone
  PROVE  BoltInv'
<1>1. loan = "lending" /\ stack = <<F("lent")>> /\ Top.at = "lent" /\ Continue(b, << >>)
      /\ loan' = IF b.state = "dead" THEN "gone" ELSE "borrowed"
  BY SpecialAt DEF LendingDone, At
<1>2. b' = b /\ stack' = << >> /\ srv' = srv /\ net' = net
  BY <1>1, ShortStack, ShortConcat DEF Continue
<1>3. Conn(b') /\ Server' /\ net' \in {"up", "down"} /\ NoResults'
  BY <1>1, <1>2 DEF BoltInv, Server, Phase, NoResults
<1>4. Phase'
  BY <1>1, <1>2, <1>3, EmptyCalm DEF Phase, Use, Idle
<1>5. ResetAlone'
  <2>1. b.state # "dead" => NoReset(b.handlers)
    BY <1>1, NoResetUnless
  <2> QED
    BY <1>1, <1>2, <2>1 DEF ResetAlone, Idle
<1>6. Queue'
  BY <1>1, <1>2 DEF BoltInv, Queue, Broken
<1> QED
  BY <1>3, <1>4, <1>5, <1>6 DEF BoltInv

\* The pool closes the connection.
LEMMA CloseInv ==
  ASSUME BoltInv, Close
  PROVE  BoltInv'
<1> DEFINE r == Request("goodbye", NoStream, 0, -1)
           c == [b EXCEPT !.state = "dead", !.wire = Append(@, r)]
<1>1. loan = "pooled" /\ Start(c, << >>) /\ loan' = "gone" /\ Conn(b) /\ NoResults
  BY DEF Close, BoltInv, Phase
<1>2. r \in Requests
  BY StreamsAreCounted DEF Request, Requests, NoStream, Messages
<1> HIDE DEF r
<1>3. DOMAIN c = ConnFields /\ c.streams = b.streams /\ c.made = b.made /\ c.live = b.live
      /\ c.curr = b.curr /\ c.err = b.err /\ c.state = "dead" /\ c.txId = b.txId
      /\ c.v = b.v /\ c.handlers = b.handlers /\ c.out = b.out /\ c.wire = Append(b.wire, r)
  BY <1>1 DEF Conn, ConnFields
<1>4. b' = c /\ stack' = << >> /\ srv' = srv /\ net' = net
  BY <1>1 DEF Start
<1> HIDE DEF c
<1>5. Conn(c)
  <2>1. c.wire \in Seq(Requests)
    BY <1>1, <1>2, <1>3, AppendProperties DEF Conn
  <2> QED
    BY <1>1, <1>3, <2>1 DEF Conn, States
<1>6. Server' /\ net' \in {"up", "down"} /\ NoResults'
  BY <1>1, <1>3, <1>4 DEF BoltInv, Server, NoResults
<1>7. Phase'
  BY <1>1, <1>3, <1>4, <1>6 DEF Phase, Use, Idle
<1>8. ResetAlone'
  BY <1>1, <1>4 DEF ResetAlone, Idle
<1>9. Queue'
  BY <1>1, <1>3, <1>4 DEF BoltInv, Queue
<1> QED
  BY <1>4, <1>5, <1>6, <1>7, <1>8, <1>9 DEF BoltInv

-----------------------------------------------------------------------------
(* Version 3: there are no handlers, so the queue needs no argument.       *)

\* A step of version 3.
LEMMA Step3 ==
  ASSUME BoltInv, b.v.major = 3, Conn(b'), b'.v = b.v, b'.handlers = b.handlers,
         Server', net' \in {"up", "down"}, Phase'
  PROVE  BoltInv'
<1>1. b.handlers = << >>
  BY DEF BoltInv, Queue
<1>2. b'.handlers = << >> /\ b'.v.major = 3
  BY <1>1
<1>3. ResetAlone'
  BY <1>2 DEF ResetAlone, NoReset
<1>4. ~(b'.v.major > 3)
  BY <1>2
<1>5. Queue'
  BY <1>2, <1>4 DEF Queue
<1> QED
  BY <1>3, <1>5 DEF BoltInv

\* What a step of version 3 that adds no result makes of the connection.
Moves3(c, d) == Conn(d) /\ d.v = c.v /\ d.live = c.live /\ d.made = c.made /\ d.handlers = c.handlers

\* A step of version 3 in a call of the session.
LEMMA Use3 ==
  ASSUME BoltInv, b.v.major = 3, loan \in Use, loan' \in Use, Conn(b'), b'.v = b.v, b'.handlers = b.handlers,
         Calm(stack', b'), Server', net' \in {"up", "down"}
  PROVE  BoltInv'
<1>1. loan' \notin {"new", "connecting", "returning", "pooled", "lending", "gone"}
  BY DEF Use
<1>2. Phase'
  BY <1>1 DEF Phase
<1> QED
  BY <1>2, Step3

\* The fields that may change.
LEMMA Conn3 ==
  ASSUME NEW c, Conn(c), NEW d, DOMAIN d = ConnFields, d.v = c.v, d.live = c.live, d.made = c.made,
         d.handlers = c.handlers, d.out = c.out, d.wire \in Seq(Requests), d.state \in States,
         d.err \in BOOLEAN, d.txId \in BOOLEAN, d.curr \in 0 .. c.made,
         DOMAIN d.streams = Streams, \A s \in Streams : StreamOK(d.streams[s])
  PROVE  Moves3(c, d)
<1>1. Conn(d)
  BY DEF Conn
<1> QED
  BY <1>1 DEF Moves3

\* A request is sent, or the connection is dead.
LEMMA Send3Keeps ==
  ASSUME NEW c, Conn(c), c.v.major = 3, NEW m \in Messages, NEW s \in 0 .. MaxStreams
  PROVE  LET d == Send3(c, m, s)
         IN  Keeps(c, d) /\ d.made = c.made /\ Moves3(c, d) /\ d.v = c.v
<1> DEFINE r == Request(m, s, All, -1)
           e == [c EXCEPT !.err = TRUE, !.state = "dead"]
           f == [c EXCEPT !.wire = Append(@, r)]
           d == Send3(c, m, s)
<1>1. r \in Requests
  BY StreamsAreCounted DEF Request, Requests, Fetches
<1> HIDE DEF r
<1>2. Append(c.wire, r) \in Seq(Requests)
  BY <1>1, AppendProperties DEF Conn
<1>3. DOMAIN e = ConnFields /\ SameQueue(c, e) /\ e.out = c.out /\ e.wire = c.wire /\ e.state = "dead"
      /\ e.err \in BOOLEAN /\ e.err /\ e.txId = c.txId /\ e.curr = c.curr /\ e.streams = c.streams
  BY DEF Conn, ConnFields, SameQueue
<1>4. DOMAIN f = ConnFields /\ f.v = c.v /\ f.live = c.live /\ f.made = c.made /\ f.handlers = c.handlers
      /\ f.out = c.out /\ f.wire = Append(c.wire, r) /\ f.state = c.state
      /\ f.err = c.err /\ f.txId = c.txId /\ f.curr = c.curr /\ f.streams = c.streams
  BY DEF Conn, ConnFields
<1>5. d \in {e, f}
  BY DEF Send3, r
<1> HIDE DEF d, e, f
<1>6. DOMAIN d = ConnFields /\ d.v = c.v /\ d.live = c.live /\ d.made = c.made /\ d.handlers = c.handlers
      /\ d.out = c.out /\ d.wire \in Seq(Requests) /\ d.state \in {"dead", c.state}
      /\ d.err \in BOOLEAN /\ d.txId = c.txId /\ d.curr = c.curr /\ d.streams = c.streams
      /\ (c.err => d.err)
  BY <1>2, <1>3, <1>4, <1>5 DEF SameQueue, Conn
<1>7. Conn(d)
  BY <1>6 DEF Conn, States
<1>8. Moves3(c, d)
  BY <1>6, <1>7 DEF Moves3
<1>9. Keeps(c, d)
  BY <1>6, <1>7, NoStreamFits DEF Keeps
<1> QED
  BY <1>6, <1>8, <1>9 DEF d

\* The frame that waits for a success, where the request was sent.
LEMMA Await3Quiet ==
  ASSUME NEW c, NEW then \in {"begin", "commit", "rollback"}
  PROVE  Await3(c, then) \in Seq(Quiet(c))
<1> DEFINE f == [at |-> "success3", then |-> then]
<1>1. f \in OnSuccess3 /\ f.then # "run"
  BY DEF OnSuccess3
<1>2. Await3(c, then) = IF c.err THEN << >> ELSE <<f>>
  BY DEF Await3
<1> HIDE DEF f
<1>3. f \in Quiet(c)
  BY <1>1, QuietFrames
<1> QED
  BY <1>2, <1>3, OneFrame

\* The frames that read what is left of the stream.
LEMMA Read3Quiet ==
  ASSUME BoltInv, NEW mode \in {"next", "discard", "buffer"}, NEW q
  PROVE  /\ q \in Seq(Quiet(b)) => Read3(mode, q) \in Seq(Quiet(b))
         /\ Calm(q, b) => Calm(Read3(mode, q), b)
         /\ \/ Read3(mode, q) = q
            \/ \E f \in OnRecord3 : Read3(mode, q) = <<f>> \o q
<1> DEFINE f == [at |-> "record3", s |-> b.curr, mode |-> mode]
<1>1. b.curr \in 0 .. MaxStreams
  BY StreamsAreCounted DEF BoltInv, Conn
<1>2. f \in OnRecord3
  BY <1>1 DEF OnRecord3
<1>3. Read3(mode, q) = IF Streaming3 THEN <<f>> \o q ELSE q
  BY DEF Read3
<1> HIDE DEF f
<1>4. f \in Quiet(b)
  BY <1>2, QuietFrames
<1> QED
  BY <1>2, <1>3, <1>4, OnTop, CalmPush

\* BEGIN is called for.
LEMMA TxBegin3Inv ==
  ASSUME BoltInv, NEW option, TxBegin3(option)
  PROVE  BoltInv'
<1> DEFINE f == [at |-> "begin3", supported |-> option = "plain"]
           frames == IF b.state = "streaming" THEN Read3("buffer", <<f>>) ELSE <<f>>
<1>1. loan \in Use /\ loan' \in Use /\ Start(b, frames)
  BY DEF TxBegin3, Usable, Use
<1>2. f \in OnBegin3
  BY DEF OnBegin3
<1> HIDE DEF f
<1>3. f \in Quiet(b)
  BY <1>2, QuietFrames
<1>4. Calm(<<f>>, b)
  BY <1>3, CalmOnes DEF Quiet
<1>5. Calm(frames, b)
  BY <1>4, Read3Quiet
<1> QED
  BY <1>1, <1>5, KeepsSelf, StartStep

\* BEGIN is sent.
LEMMA TxBegin3SendInv ==
  ASSUME BoltInv, TxBegin3Send
  PROVE  BoltInv'
<1> DEFINE ok == AssertState(b, {"ready"}) /\ Top.supported
           c == IF ok THEN Send3(b, "begin", NoStream) ELSE b
           frames == IF ok THEN Await3(c, "begin") ELSE << >>
<1>1. ~Idle /\ Top.at = "begin3" /\ loan' = loan /\ Continue(c, frames) /\ b.v.major = 3
  BY DEF TxBegin3Send, At, Is3
<1>2. loan \in Use /\ Calm(stack, b) /\ Conn(b) /\ Keeps(b, b)
  BY <1>1, InUse, KeepsSelf DEF UseFrames
<1>3. NoStream \in 0 .. MaxStreams /\ "begin" \in Messages
  BY StreamsAreCounted DEF NoStream, Messages
<1>4. Keeps(b, c) /\ c.made = b.made
  BY <1>1, <1>2, <1>3, Send3Keeps
<1> HIDE DEF c
<1>5. frames \in Seq(Quiet(c))
  BY Await3Quiet, EmptyCalm
<1> HIDE DEF frames
<1> QED
  BY <1>1, <1>2, <1>4, <1>5, ContinueStep

\* COMMIT or ROLLBACK is called for.
LEMMA TxEnd3Inv ==
  ASSUME BoltInv, NEW how \in {"commit", "rollback"}, TxEnd3(how)
  PROVE  BoltInv'
<1> DEFINE f == [at |-> "end3", how |-> how]
           frames == IF b.state = "streamingTx" THEN Read3("discard", <<f>>) ELSE <<f>>
<1>1. loan \in Use /\ loan' \in Use /\ Start(b, frames)
  BY DEF TxEnd3, Use
<1>2. f \in OnEnd3
  BY DEF OnEnd3
<1> HIDE DEF f
<1>3. f \in Quiet(b)
  BY <1>2, QuietFrames
<1>4. Calm(<<f>>, b)
  BY <1>3, CalmOnes DEF Quiet
<1>5. Calm(frames, b)
  BY <1>4, Read3Quiet
<1> QED
  BY <1>1, <1>5, KeepsSelf, StartStep

\* COMMIT or ROLLBACK is sent.
LEMMA TxEnd3SendInv ==
  ASSUME BoltInv, TxEnd3Send
  PROVE  BoltInv'
<1> DEFINE ok == AssertState(b, {"tx"})
           c == IF ok THEN Send3(b, Top.how, NoStream) ELSE b
           frames == IF ok THEN Await3(c, Top.how) ELSE << >>
<1>1. ~Idle /\ Top.at = "end3" /\ loan' = loan /\ Continue(c, frames) /\ b.v.major = 3
  BY DEF TxEnd3Send, At, Is3
<1>2. loan \in Use /\ Calm(stack, b) /\ Conn(b) /\ Keeps(b, b) /\ Top \in Fit(b)
  BY <1>1, InUse, KeepsSelf DEF UseFrames
<1>3. Top.how \in {"commit", "rollback"}
  <2>1. Top \in OnEnd3
    BY <1>1, <1>2, FrameKinds DEF Fit
  <2> QED
    BY <2>1 DEF OnEnd3
<1>4. NoStream \in 0 .. MaxStreams /\ Top.how \in Messages
  BY <1>3, StreamsAreCounted DEF NoStream, Messages
<1>5. Keeps(b, c) /\ c.made = b.made
  BY <1>1, <1>2, <1>4, Send3Keeps
<1> HIDE DEF c
<1>6. frames \in Seq(Quiet(c))
  BY <1>3, Await3Quiet, EmptyCalm
<1> HIDE DEF frames
<1> QED
  BY <1>1, <1>2, <1>5, <1>6, ContinueStep

\* The frames of a query.
LEMMA Run3Calm ==
  ASSUME BoltInv, b.made < MaxStreams, NEW pack \in Packs \cup {"ok"}
  PROVE  Calm(Read3("buffer", <<[at |-> "run3", pack |-> pack]>>), b)
<1> DEFINE f == [at |-> "run3", pack |-> pack]
<1>1. f \in OnRun3
  BY DEF OnRun3
<1> HIDE DEF f
<1>2. Calm(<<f>>, b)
  BY <1>1, QuietFrames, CalmOnes
<1>3. Calm(Read3("buffer", <<f>>), b)
  BY <1>2, Read3Quiet
<1> QED
  BY <1>3 DEF f

\* Run and RunTx.
LEMMA Run3Inv ==
  ASSUME BoltInv, NEW option, NEW pack \in Packs, Run3(option, pack) \/ RunTx3(pack)
  PROVE  BoltInv'
<1> DEFINE q == Read3("buffer", <<[at |-> "run3", pack |-> pack]>>)
<1>1. loan \in Use /\ loan' \in Use /\ b.made < MaxStreams /\ (Start(b, q) \/ Start(b, << >>))
  BY DEF Run3, RunTx3, Usable, Use
<1>2. Calm(q, b)
  BY <1>1, Run3Calm
<1> HIDE DEF q
<1> QED
  BY <1>1, <1>2, EmptyCalm, KeepsSelf, StartStep

\* RUN and PULL_ALL are sent.
LEMMA Run3SendInv ==
  ASSUME BoltInv, Run3Send
  PROVE  BoltInv'
<1> DEFINE s == b.made + 1
           d == Send3(b, "run", s)
           c == Send3(d, "pull", s)
           e == [b EXCEPT !.err = TRUE, !.state = "dead"]
           f == [at |-> "success3", then |-> "run"]
<1>1. ~Idle /\ Top.at = "run3" /\ loan' = loan /\ b.v.major = 3
  BY DEF Run3Send, At, Is3
<1>2. loan \in Use /\ Calm(stack, b) /\ Conn(b) /\ Keeps(b, b) /\ Top \in Fit(b)
  BY <1>1, InUse, KeepsSelf DEF UseFrames
<1>3. Makes(Top) /\ b.made < MaxStreams
  BY <1>1, <1>2 DEF Fit, Makes
<1>4. Tail(stack) \in Seq(Quiet(b))
  BY <1>1, <1>2, <1>3, CalmTail DEF Top, Idle
<1>5. Continue(b, << >>) \/ Continue(c, Await3(c, "run")) \/ Continue(e, << >>)
  BY DEF Run3Send
<1>6. CASE Continue(b, << >>)
  BY <1>1, <1>2, <1>6, EmptyCalm, ContinueStep
<1>7. CASE Continue(e, << >>)
  <2>1. DOMAIN e = ConnFields /\ SameQueue(b, e) /\ e.state = "dead" /\ e.err \in BOOLEAN /\ e.err
        /\ e.txId = b.txId /\ e.curr = b.curr /\ e.streams = b.streams /\ e.made = b.made
    BY <1>2 DEF Conn, ConnFields, SameQueue
  <2> HIDE DEF e
  <2>2. Conn(e)
    BY <1>2, <2>1 DEF Conn, SameQueue, States
  <2>3. Keeps(b, e)
    BY <1>2, <2>1, <2>2, SameKeeps
  <2> QED
    BY <1>1, <1>2, <1>7, <2>1, <2>3, EmptyCalm, ContinueStep
<1>8. CASE Continue(c, Await3(c, "run"))
  <2>1. s \in 0 .. MaxStreams /\ "run" \in Messages /\ "pull" \in Messages
    BY <1>2, <1>3, NoStreamFits, StreamsAreCounted DEF Messages
  <2> HIDE DEF s
  <2>2. Keeps(b, d) /\ d.made = b.made /\ Conn(d) /\ d.v.major = 3
    BY <1>1, <1>2, <2>1, Send3Keeps DEF Keeps
  <2> HIDE DEF d
  <2>3. Keeps(d, c) /\ c.made = b.made
    BY <2>1, <2>2, Send3Keeps
  <2> HIDE DEF c
  <2>4. Keeps(b, c)
    BY <1>2, <2>2, <2>3, KeepsTrans
  <2>5. Await3(c, "run") = IF c.err THEN << >> ELSE <<f>>
    BY DEF Await3
  <2>6. CASE c.err
    BY <1>1, <1>2, <1>8, <2>3, <2>4, <2>5, <2>6, EmptyCalm, ContinueStep
  <2>7. CASE ~c.err
    <3>1. f \in OnSuccess3
      BY DEF OnSuccess3
    <3> HIDE DEF f
    <3>2. f \in Fit(c)
      BY <1>3, <2>3, <3>1, QuietFrames
    <3>3. Quiet(b) \subseteq Quiet(c)
      BY <1>2, <2>3, <2>4, NoStreamFits, CalmMove DEF Keeps
    <3>4. Tail(stack) \in Seq(Quiet(c))
      BY <1>4, <3>3, SeqMono
    <3>5. Calm(<<f>> \o Tail(stack), c)
      BY <3>2, <3>4, CalmOnes
    <3>6. b' = c /\ stack' = <<f>> \o Tail(stack) /\ srv' = srv /\ net' = net
      BY <1>8, <2>5, <2>7 DEF Continue
    <3>7. Server' /\ net' \in {"up", "down"}
      BY <3>6 DEF BoltInv, Server
    <3> QED
      BY <1>1, <1>2, <2>4, <3>5, <3>6, <3>7, UseStep
  <2> QED
    BY <2>6, <2>7
<1> QED
  BY <1>5, <1>6, <1>7, <1>8

\* Next: a record of the buffer, or one that is read.
LEMMA Next3Inv ==
  ASSUME BoltInv, NEW s \in Streams, Next3(s)
  PROVE  BoltInv'
<1> DEFINE e == [b EXCEPT !.streams[s].fifo = Tail(@)]
           x == Tail(b.streams[s].fifo)
           d == [b EXCEPT !.streams[s].fifo = x]
<1>1. Idle /\ loan' = loan /\ srv' = srv /\ net' = net /\ s \in b.live .. b.made
  BY DEF Next3
<1>2. Conn(b) /\ Keeps(b, b)
  BY KeepsSelf
<1>3. s \in 1 .. b.made /\ ~NoResults
  BY <1>1, <1>2 DEF Conn, NoResults
<1>4. loan \in Use
  BY <1>1, <1>3, IdleLoan DEF BoltInv, Phase
<1>5. Server' /\ net' \in {"up", "down"}
  BY <1>1 DEF BoltInv, Server
<1>6. \/ b' = e /\ stack' = stack
      \/ b' = b /\ stack' = Read3("next", << >>)
  BY DEF Next3
<1>7. CASE b' = e /\ stack' = stack
  <2>1. e = d
    OBVIOUS
  <2> HIDE DEF x
  <2>2. Keeps(b, d)
    BY <1>2, StreamFieldKeeps
  <2> HIDE DEF d, e
  <2>3. Keeps(b, b') /\ Calm(stack', b')
    BY <1>1, <1>7, <2>1, <2>2, EmptyCalm DEF Idle
  <2> QED
    BY <1>1, <1>4, <1>5, <2>3, UseStep
<1>8. CASE b' = b /\ stack' = Read3("next", << >>)
  <2>1. Calm(stack', b)
    BY <1>8, EmptyCalm, Read3Quiet
  <2>2. Keeps(b, b') /\ Calm(stack', b')
    BY <1>2, <1>8, <2>1
  <2> QED
    BY <1>1, <1>4, <1>5, <2>2, UseStep
<1> QED
  BY <1>6, <1>7, <1>8

\* Consume or Buffer.
LEMMA Exhaust3Inv ==
  ASSUME BoltInv, NEW s, NEW how \in {"discard", "buffer"}, Exhaust3(s, how)
  PROVE  BoltInv'
<1>1. Idle /\ loan' = loan /\ Start(b, Read3(how, << >>)) /\ s \in 1 .. b.made /\ s = b.curr
      /\ AssertState(b, {"streaming", "streamingTx"})
  BY DEF Exhaust3, Start
<1>2. b.made \in Nat
  BY NoStreamFits DEF BoltInv
<1>3. loan # "new" /\ loan # "pooled"
  BY <1>1, <1>2 DEF BoltInv, Phase, NoStream
<1>4. loan # "gone"
  BY <1>1 DEF BoltInv, Phase, AssertState
<1>5. loan \in Use
  BY <1>1, <1>3, <1>4, IdleLoan
<1>6. Calm(Read3(how, << >>), b)
  BY EmptyCalm, Read3Quiet
<1> QED
  BY <1>1, <1>5, <1>6, KeepsSelf, StartStep

\* The query for the routing table.
LEMMA GetRoutingTable3Inv ==
  ASSUME BoltInv, GetRoutingTable3
  PROVE  BoltInv'
<1> DEFINE f == [at |-> "run3", pack |-> "ok"]
           g == [at |-> "table3", left |-> 2]
<1>1. loan \in Use /\ loan' \in Use /\ Start(b, <<f, g>>) /\ b.made < MaxStreams
  BY DEF GetRoutingTable3, Use
<1>2. f \in OnRun3 /\ g \in OnTable /\ g.at # "table"
  BY DEF OnRun3, OnTable
<1> HIDE DEF f, g
<1>3. f \in Fit(b) /\ g \in Quiet(b)
  BY <1>1, <1>2, QuietFrames
<1>4. <<g>> \in Seq(Quiet(b))
  BY <1>3
<1>5. Calm(<<f>> \o <<g>>, b)
  BY <1>3, <1>4, CalmOnes
<1>6. <<f>> \o <<g>> = <<f, g>>
  BY ShortConcat
<1> QED
  BY <1>1, <1>5, <1>6, KeepsSelf, StartStep

\* Its record and its summary are read.
LEMMA GetRoutingTable3NextInv ==
  ASSUME BoltInv, GetRoutingTable3Next
  PROVE  BoltInv'
<1> DEFINE g == [Top EXCEPT !.left = @ - 1]
           read == AssertState(b, {"streaming"}) /\ Top.left > 0
           frames == IF read THEN Read3("next", <<g>>) ELSE << >>
<1>1. ~Idle /\ Top.at = "table3" /\ loan' = loan /\ Continue(b, frames)
  BY DEF GetRoutingTable3Next, At
<1>2. loan \in Use /\ Calm(stack, b) /\ Conn(b) /\ Keeps(b, b) /\ Top \in Fit(b)
  BY <1>1, InUse, KeepsSelf DEF UseFrames
<1>3. Top \in OnTable
  BY <1>1, <1>2, FrameKinds DEF Fit
<1>4. g \in OnTable /\ g.at # "table"
  BY <1>1, <1>3 DEF OnTable
<1> HIDE DEF g, read
<1>5. <<g>> \in Seq(Quiet(b))
  <2>1. g \in Quiet(b)
    BY <1>4, QuietFrames
  <2> QED
    BY <2>1
<1>6. frames \in Seq(Quiet(b))
  BY <1>5, Read3Quiet, EmptyCalm
<1> HIDE DEF frames
<1> QED
  BY <1>1, <1>2, <1>6, ContinueStep

\* HELLO is sent.
LEMMA Connect3Inv ==
  ASSUME BoltInv, Connect3
  PROVE  BoltInv'
<1> DEFINE c == Send3(b, "hello", NoStream)
<1>1. b.v.major = 3 /\ loan = "new" /\ Start(c, Await3(c, "hello")) /\ Conn(b) /\ NoResults
      /\ loan' = IF c.err THEN "gone" ELSE "connecting"
  BY DEF Connect3, Is3, BoltInv, Phase
<1>2. NoStream \in 0 .. MaxStreams /\ "hello" \in Messages
  BY StreamsAreCounted DEF NoStream, Messages
<1>3. Moves3(b, c)
  BY <1>1, <1>2, Send3Keeps
<1> HIDE DEF c
<1>4. b' = c /\ stack' = (IF c.err THEN << >> ELSE <<Hello3>>) /\ srv' = srv /\ net' = net
  BY <1>1 DEF Start, Await3, Hello3
<1>5. Server' /\ net' \in {"up", "down"} /\ NoResults'
  BY <1>1, <1>3, <1>4 DEF BoltInv, Server, NoResults, Moves3
<1>6. Phase'
  <2>1. CASE c.err
    BY <1>1, <1>4, <1>5, <2>1 DEF Phase, Use, Idle
  <2>2. CASE ~c.err
    <3>1. stack' \in Connecting
      BY <1>4, <2>2 DEF Connecting
    <3> QED
      BY <1>1, <1>5, <2>2, <3>1 DEF Phase, Use
  <2> QED
    BY <2>1, <2>2
<1> QED
  BY <1>1, <1>3, <1>4, <1>5, <1>6, Step3 DEF Moves3

\* Where version 3 waits for a success, and where for a record.
LEMMA Waiting3At ==
  ASSUME BoltInv, ~Idle
  PROVE  /\ Top.at = "success3" => \/ loan \in Use /\ Calm(stack, b) /\ Top \in Fit(b)
                                   \/ loan = "connecting" /\ stack = <<Hello3>>
         /\ Top.at = "record3" => \/ loan \in Use /\ Calm(stack, b)
                                  \/ /\ loan = "returning"
                                     /\ \E f \in OnRecord3 : stack = <<f, F("forceReset3"), F("cleared3")>>
<1>1. \A x : F(x).at = x
  BY DEF F
<1>2. (\A f : stack = <<f>> => Top = f) /\ (\A f, g : stack = <<f, g>> => Top = f)
      /\ (\A f, g, h : stack = <<f, g, h>> => Top = f)
  BY DEF Top
<1>3. CASE loan \in Use
  <2>1. Calm(stack, b) \/ Asking(stack, b)
    BY <1>3 DEF BoltInv, Phase
  <2>2. Asking(stack, b) => Top.at = "run"
    BY DEF Asking, OnRun, Top
  <2>3. Calm(stack, b) => Top \in Fit(b)
    BY CalmTail DEF Idle, Top
  <2> QED
    BY <1>3, <2>1, <2>2, <2>3
<1>4. CASE loan = "connecting"
  <2>1. stack \in Connecting
    BY <1>4 DEF BoltInv, Phase
  <2>2. (stack = <<Hello3>> /\ Top = Hello3) \/ Top \in {F("receive"), F("receiveAll"), F("connected")}
    BY <1>2, <2>1 DEF Connecting
  <2>3. Hello3.at = "success3"
    BY DEF Hello3
  <2> QED
    BY <1>1, <1>4, <2>2, <2>3
<1>5. CASE loan = "returning"
  <2>1. stack \in Returning
    BY <1>5 DEF BoltInv, Phase
  <2>2. \/ Top \in {F("cleared"), F("forceReset"), F("receive"), F("receiveAll"), F("cleared3"),
                    F("forceReset3"), F("reset3")}
        \/ Top \in OnRecord3 /\ \E f \in OnRecord3 : stack = <<f, F("forceReset3"), F("cleared3")>>
    BY <1>2, <2>1 DEF Returning
  <2>3. Top \in OnRecord3 => Top.at = "record3"
    BY DEF OnRecord3
  <2> QED
    BY <1>1, <1>5, <2>2, <2>3
<1>6. CASE loan = "lending"
  <2>1. stack \in Lending
    BY <1>6 DEF BoltInv, Phase
  <2>2. Top \in {F("reauth"), F("forceReset"), F("receive"), F("receiveAll"), F("lent"),
                 F("reauthed"), F("forceCheck3"), F("reset3")}
    BY <1>2, <2>1 DEF Lending
  <2> QED
    BY <1>1, <2>2
<1> QED
  BY <1>3, <1>4, <1>5, <1>6 DEF BoltInv, Phase

\* The request that is answered leaves the wire, or has one record more.
LEMMA Answered3 ==
  ASSUME BoltInv, b.wire # << >>, NEW a \in Answers
  PROVE  LET c == [b EXCEPT !.wire = a.wire]
         IN  /\ Moves3(b, c) /\ c.err = b.err /\ c.state = b.state /\ c.curr = b.curr /\ c.out = b.out
             /\ a.wire \in Seq(Requests)
             /\ ServerOK(a.srv) /\ a.answer.k \in {"success", "failure", "ignored", "record"}
<1> DEFINE c == [b EXCEPT !.wire = a.wire]
           r == Head(b.wire)
           q == [r EXCEPT !.got = @ + 1]
<1>1. Conn(b) /\ Server /\ b.wire \in Seq(Requests)
  BY DEF BoltInv, Conn
<1>2. AnswerTo(r, a) /\ WireAfter(b.wire, a) /\ ServerOK(a.srv)
  BY <1>1, AnswersOK
<1>3. r \in Requests /\ Tail(b.wire) \in Seq(Requests)
  BY <1>1, HeadTailProperties
<1>4. a.wire = <<q>> \o Tail(b.wire) \/ a.wire = Tail(b.wire)
  BY <1>2 DEF WireAfter
<1>5. q \in Requests
  <2>1. r.got + 1 \in Nat
    BY <1>3 DEF Requests
  <2> DEFINE n == r.got + 1
  <2>2. q = [r EXCEPT !.got = n]
    OBVIOUS
  <2> HIDE DEF n, r
  <2>3. [r EXCEPT !.got = n] \in Requests
    BY <1>3, <2>1 DEF Requests, n
  <2> QED
    BY <2>2, <2>3
<1> HIDE DEF q, r
<1>6. a.wire \in Seq(Requests)
  BY <1>3, <1>4, <1>5, OnTop
<1>7. DOMAIN c = ConnFields /\ c.v = b.v /\ c.live = b.live /\ c.made = b.made /\ c.handlers = b.handlers
      /\ c.out = b.out /\ c.wire = a.wire /\ c.state = b.state
      /\ c.err = b.err /\ c.txId = b.txId /\ c.curr = b.curr /\ c.streams = b.streams
  BY <1>1 DEF Conn, ConnFields
<1> HIDE DEF c
<1>8. Moves3(b, c)
  BY <1>1, <1>6, <1>7, Conn3 DEF Conn
<1> QED
  BY <1>2, <1>6, <1>7, <1>8 DEF AnswerTo, c

\* Other fields that version 3 sets.
LEMMA Set3 ==
  ASSUME NEW c, Conn(c)
  PROVE  /\ \A st \in States, e \in BOOLEAN :
              LET d == [c EXCEPT !.err = e, !.state = st] IN Moves3(c, d) /\ d.err = e /\ d.state = st
         /\ \A st \in States, t \in BOOLEAN :
              LET d == [c EXCEPT !.state = st, !.txId = t] IN Moves3(c, d) /\ d.err = c.err
         /\ \A st \in States : LET d == [c EXCEPT !.state = st] IN Moves3(c, d) /\ d.err = c.err
<1> SUFFICES ASSUME NEW st \in States, NEW e \in BOOLEAN, NEW t \in BOOLEAN
             PROVE  /\ LET d == [c EXCEPT !.err = e, !.state = st]
                       IN  Moves3(c, d) /\ d.err = e /\ d.state = st
                    /\ LET d == [c EXCEPT !.state = st, !.txId = t]
                       IN  Moves3(c, d) /\ d.err = c.err
                    /\ LET d == [c EXCEPT !.state = st]
                       IN  Moves3(c, d) /\ d.err = c.err
  OBVIOUS
<1> DEFINE d1 == [c EXCEPT !.err = e, !.state = st]
           d2 == [c EXCEPT !.state = st, !.txId = t]
           d3 == [c EXCEPT !.state = st]
<1>0. c.wire \in Seq(Requests) /\ c.err \in BOOLEAN /\ c.txId \in BOOLEAN /\ c.curr \in 0 .. c.made
      /\ DOMAIN c.streams = Streams /\ \A s \in Streams : StreamOK(c.streams[s])
  BY DEF Conn
<1>1. DOMAIN d1 = ConnFields /\ d1.v = c.v /\ d1.live = c.live /\ d1.made = c.made /\ d1.handlers = c.handlers
      /\ d1.out = c.out /\ d1.wire = c.wire /\ d1.state = st
      /\ d1.err = e /\ d1.txId = c.txId /\ d1.curr = c.curr /\ d1.streams = c.streams
  BY DEF Conn, ConnFields
<1>2. DOMAIN d2 = ConnFields /\ d2.v = c.v /\ d2.live = c.live /\ d2.made = c.made /\ d2.handlers = c.handlers
      /\ d2.out = c.out /\ d2.wire = c.wire /\ d2.state = st
      /\ d2.err = c.err /\ d2.txId = t /\ d2.curr = c.curr /\ d2.streams = c.streams
  BY DEF Conn, ConnFields
<1>3. DOMAIN d3 = ConnFields /\ d3.v = c.v /\ d3.live = c.live /\ d3.made = c.made /\ d3.handlers = c.handlers
      /\ d3.out = c.out /\ d3.wire = c.wire /\ d3.state = st
      /\ d3.err = c.err /\ d3.txId = c.txId /\ d3.curr = c.curr /\ d3.streams = c.streams
  BY DEF Conn, ConnFields
<1> HIDE DEF d1, d2, d3
<1>4. Moves3(c, d1)
  BY <1>0, <1>1, Conn3
<1>5. Moves3(c, d2)
  BY <1>0, <1>2, Conn3
<1>6. Moves3(c, d3)
  BY <1>0, <1>3, Conn3
<1> QED
  BY <1>1, <1>2, <1>3, <1>4, <1>5, <1>6 DEF d1, d2, d3

\* Moves can be chained.
LEMMA Moves3Trans ==
  ASSUME NEW c, NEW d, NEW e, Moves3(c, d), Moves3(d, e)
  PROVE  Moves3(c, e)
  BY DEF Moves3

\* A stream of version 3 is over.
LEMMA Ended3Moves ==
  ASSUME NEW c, Conn(c), NEW how \in {"sum", "err"}, NEW st \in States, NEW e \in BOOLEAN
  PROVE  LET d == Ended3(c, how, st, e)
         IN  Moves3(c, d) /\ d.err = e
<1> DEFINE d == Ended3(c, how, st, e)
           s == c.curr
<1>0. c.wire \in Seq(Requests) /\ c.txId \in BOOLEAN /\ 0 \in 0 .. c.made
  BY NoStreamFits DEF Conn
<1>1. DOMAIN d = ConnFields /\ d.v = c.v /\ d.live = c.live /\ d.made = c.made /\ d.handlers = c.handlers
      /\ d.out = c.out /\ d.wire = c.wire /\ d.state = st
      /\ d.err = e /\ d.txId = c.txId /\ d.curr = 0 /\ d.streams = [c.streams EXCEPT ![s].done = how]
  BY DEF Conn, ConnFields, Ended3, NoStream
<1> HIDE DEF s
<1>2. DOMAIN d.streams = Streams /\ \A r \in Streams : StreamOK(d.streams[r])
  BY <1>1 DEF Conn, StreamOK, StreamFields
<1> HIDE DEF d
<1>3. Moves3(c, d)
  BY <1>0, <1>1, <1>2, Conn3
<1> QED
  BY <1>1, <1>3 DEF d

\* The query of version 3 has a result.
LEMMA Run3Made ==
  ASSUME NEW c, Conn(c), c.made < MaxStreams
  PROVE  LET d == Then3(c, "run")
         IN  /\ Conn(d) /\ d.v = c.v /\ d.handlers = c.handlers /\ d.made = c.made + 1 /\ d.err = c.err
<1> DEFINE m == c.made + 1
           q == [NewStream EXCEPT !.attached = TRUE]
           st == IF c.state = "ready" THEN "streaming" ELSE "streamingTx"
           d == [c EXCEPT !.made = m, !.curr = m, !.streams[m] = q, !.state = st]
<1>1. Then3(c, "run") = d
  BY DEF Then3
<1>2. StreamOK(q)
  BY DEF StreamOK, StreamFields, NewStream, Fetches
<1>3. m \in 0 .. MaxStreams /\ m \in 0 .. m /\ c.live \in 1 .. m + 1
  BY NoStreamFits, StreamsAreCounted DEF Conn
<1>4. st \in States
  BY DEF States
<1> HIDE DEF m, q, st
<1>5. DOMAIN d = ConnFields /\ d.v = c.v /\ d.live = c.live /\ d.made = m /\ d.handlers = c.handlers
      /\ d.out = c.out /\ d.wire = c.wire /\ d.state = st
      /\ d.err = c.err /\ d.txId = c.txId /\ d.curr = m /\ d.streams = [c.streams EXCEPT ![m] = q]
  BY DEF Conn, ConnFields
<1>6. DOMAIN d.streams = Streams /\ \A r \in Streams : StreamOK(d.streams[r])
  BY <1>2, <1>5 DEF Conn
<1> HIDE DEF d
<1>7. Conn(d)
  BY <1>3, <1>4, <1>5, <1>6 DEF Conn
<1> QED
  BY <1>1, <1>5, <1>7 DEF m

\* The stack below the top, where nothing is added.
LEMMA Tail3 ==
  ASSUME BoltInv, ~Idle, Calm(stack, b), NEW c, Moves3(b, c), b.err => c.err
  PROVE  Calm(Tail(stack), c) /\ Calm(stack, c)
<1>1. Calm(Tail(stack), b)
  BY CalmTail DEF Idle
<1>2. b.made \in Int /\ c.made = b.made
  BY NoStreamFits DEF BoltInv, Moves3
<1> QED
  BY <1>1, <1>2, CalmMove

\* An answer to a request of version 3 that is not a query's record.
LEMMA ReceiveSuccess3Inv ==
  ASSUME BoltInv, ReceiveSuccess3
  PROVE  BoltInv'
<1> DEFINE dead == [b EXCEPT !.err = TRUE, !.state = "dead"]
<1>1. b.v.major = 3 /\ ~Idle /\ Top.at = "success3" /\ stack' = Tail(stack) /\ net' = net /\ Conn(b)
  BY DEF ReceiveSuccess3, Is3, BoltInv
<1>2. net' \in {"up", "down"}
  BY <1>1 DEF BoltInv
<1>3. Moves3(b, dead) /\ dead.err
  <2>1. TRUE \in BOOLEAN /\ "dead" \in States /\ b.txId \in BOOLEAN
    BY <1>1 DEF States, Conn
  <2> QED
    BY <1>1, <2>1, Set3
<1> HIDE DEF dead
\* What the call made of it: a failure, a success that adds nothing, or a new result.
<1> DEFINE Failed == Moves3(b, b') /\ b'.err /\ loan' = LoanAfter3(Top.then, FALSE)
           Went == /\ Top.then \in {"hello", "begin", "commit", "rollback"}
                   /\ Moves3(b, b') /\ (b.err => b'.err) /\ loan' = LoanAfter3(Top.then, TRUE)
           Made == /\ Top.then = "run" /\ loan' = LoanAfter3(Top.then, TRUE)
                   /\ b.made < MaxStreams =>
                        /\ Conn(b') /\ b'.v = b.v /\ b'.handlers = b.handlers
                        /\ b'.made = b.made + 1 /\ b'.err = b.err
<1>4. Server' /\ (Failed \/ Went \/ Made)
  <2>0. Top.then \in {"hello", "begin", "commit", "rollback", "run"}
    <3>1. CASE loan \in Use /\ Top \in Fit(b)
      <4>1. Top \in OnSuccess3
        BY <1>1, <3>1, FrameKinds DEF Fit
      <4> QED
        BY <4>1 DEF OnSuccess3
    <3>2. CASE stack = <<Hello3>>
      BY <3>2, ShortStack DEF Top, Hello3
    <3> QED
      BY <1>1, <3>1, <3>2, Waiting3At
  <2>1. CASE b' = dead /\ loan' = LoanAfter3(Top.then, FALSE) /\ srv' = srv
    <3>1. Server'
      BY <2>1 DEF BoltInv, Server
    <3> QED
      BY <1>3, <2>1, <3>1
  <2>2. ASSUME NEW a \in Answers, b.wire # << >>, srv' = a.srv,
               b' = IF a.answer.k = "success" THEN Then3([b EXCEPT !.wire = a.wire], Top.then)
                    ELSE [[b EXCEPT !.wire = a.wire] EXCEPT !.err = TRUE,
                             !.state = IF a.answer.k = "failure" THEN "failed" ELSE "dead"],
               loan' = LoanAfter3(Top.then, a.answer.k = "success")
        PROVE  Server' /\ (Failed \/ Went \/ Made)
    <3> DEFINE c == [b EXCEPT !.wire = a.wire]
               st == IF a.answer.k = "failure" THEN "failed" ELSE "dead"
    <3>1. Moves3(b, c) /\ c.err = b.err /\ ServerOK(a.srv) /\ Conn(c)
      BY <2>2, Answered3 DEF Moves3
    <3>2. Server'
      BY <2>2, <3>1 DEF Server
    <3>3. b' = IF a.answer.k = "success" THEN Then3(c, Top.then) ELSE [c EXCEPT !.err = TRUE, !.state = st]
      BY <2>2
    <3>4. st \in States /\ "ready" \in States /\ "tx" \in States /\ TRUE \in BOOLEAN
      BY DEF States
    <3> HIDE DEF c, st, Failed, Went, Made
    <3>5. CASE a.answer.k # "success"
      <4> DEFINE d == [c EXCEPT !.err = TRUE, !.state = st]
      <4>1. Moves3(c, d) /\ d.err
        BY <3>1, <3>4, Set3
      <4>2. b' = d
        BY <3>3, <3>5
      <4> HIDE DEF d
      <4>3. Failed
        <5>1. Moves3(b, b') /\ b'.err
          BY <3>1, <4>1, <4>2, Moves3Trans
        <5>2. loan' = LoanAfter3(Top.then, FALSE)
          BY <2>2, <3>5 DEF LoanAfter3
        <5> QED
          BY <5>1, <5>2 DEF Failed
      <4> QED
        BY <3>2, <4>3
    <3>6. CASE a.answer.k = "success" /\ Top.then # "run"
      <4> DEFINE d == Then3(c, Top.then)
      <4>1. Moves3(c, d) /\ d.err = c.err
        <5>1. CASE Top.then = "begin"
          <6> DEFINE x == [c EXCEPT !.state = "tx", !.txId = TRUE]
          <6>1. d = x
            BY <5>1 DEF Then3
          <6>2. Moves3(c, x) /\ x.err = c.err
            BY <3>1, <3>4, Set3
          <6> HIDE DEF d, x
          <6> QED
            BY <6>1, <6>2
        <5>2. CASE Top.then \in {"hello", "commit", "rollback"}
          <6> DEFINE x == [c EXCEPT !.state = "ready"]
          <6>1. d = x
            BY <5>2 DEF Then3
          <6>2. Moves3(c, x) /\ x.err = c.err
            BY <3>1, <3>4, Set3
          <6> HIDE DEF d, x
          <6> QED
            BY <6>1, <6>2
        <5> QED
          BY <2>0, <3>6, <5>1, <5>2
      <4>2. b' = d
        BY <3>3, <3>6
      <4> HIDE DEF d
      <4>3. Moves3(b, b') /\ (b.err => b'.err)
        BY <3>1, <4>1, <4>2, Moves3Trans
      <4>4. Went
        BY <2>0, <2>2, <3>6, <4>3 DEF Went
      <4> QED
        BY <3>2, <4>4
    <3>7. CASE a.answer.k = "success" /\ Top.then = "run"
      <4>1. b' = Then3(c, "run")
        BY <3>3, <3>7
      <4>2. c.made = b.made /\ c.v = b.v /\ c.handlers = b.handlers
        BY <3>1 DEF Moves3
      <4>3. Made
        BY <2>2, <3>1, <3>7, <4>1, <4>2, Run3Made DEF Made
      <4> QED
        BY <3>2, <4>3
    <3> QED
      BY <3>5, <3>6, <3>7
  <2>3. \/ b' = dead /\ loan' = LoanAfter3(Top.then, FALSE) /\ srv' = srv
        \/ \E a \in Answers :
             /\ b.wire # << >> /\ srv' = a.srv
             /\ b' = IF a.answer.k = "success" THEN Then3([b EXCEPT !.wire = a.wire], Top.then)
                     ELSE [[b EXCEPT !.wire = a.wire] EXCEPT !.err = TRUE,
                              !.state = IF a.answer.k = "failure" THEN "failed" ELSE "dead"]
             /\ loan' = LoanAfter3(Top.then, a.answer.k = "success")
    BY DEF ReceiveSuccess3, dead
  <2> HIDE DEF Failed, Went, Made
  <2> QED
    BY <2>1, <2>2, <2>3
<1>5. CASE loan \in Use /\ Calm(stack, b) /\ Top \in Fit(b)
  <2>1. Top \in OnSuccess3
    BY <1>1, <1>5, FrameKinds DEF Fit
  <2>2. Top.then \in {"begin", "commit", "rollback", "run"}
    BY <2>1 DEF OnSuccess3
  <2>3. loan' \in Use
    BY <1>4, <1>5, <2>2 DEF LoanAfter3, Use
  <2>4. CASE Failed \/ Went
    <3>1. Moves3(b, b') /\ (b.err => b'.err)
      BY <2>4
    <3>2. Calm(stack', b')
      BY <1>1, <1>5, <3>1, Tail3
    <3> QED
      BY <1>1, <1>2, <1>4, <1>5, <2>3, <3>1, <3>2, Use3 DEF Moves3
  <2>5. CASE Made
    <3>1. Makes(Top) /\ b.made < MaxStreams
      BY <1>1, <1>5, <2>5 DEF Makes, Fit
    <3>2. Conn(b') /\ b'.v = b.v /\ b'.handlers = b.handlers /\ b'.made = b.made + 1 /\ b'.err = b.err
      BY <2>5, <3>1
    <3>3. Tail(stack) \in Seq(Quiet(b))
      BY <1>1, <1>5, <3>1, CalmTail DEF Top, Idle
    <3>4. b.made \in Nat
      BY <1>1, NoStreamFits
    <3>5. Quiet(b) \subseteq Quiet(b')
      BY <3>2, <3>4, CalmMove
    <3>6. Tail(stack) \in Seq(Quiet(b'))
      BY <3>3, <3>5, SeqMono
    <3>7. Calm(stack', b')
      BY <1>1, <3>6, CalmOnes
    <3> QED
      BY <1>1, <1>2, <1>4, <1>5, <2>3, <3>2, <3>7, Use3
  <2> QED
    BY <1>4, <2>4, <2>5
<1>6. CASE loan = "connecting" /\ stack = <<Hello3>>
  <2>1. Top.then = "hello" /\ stack' = << >>
    BY <1>1, <1>6, ShortStack DEF Top, Hello3
  <2>2. NoResults
    BY <1>6 DEF BoltInv, Phase
  <2>3. Moves3(b, b') /\ (loan' = "borrowed" \/ (loan' = "gone" /\ b'.err))
    BY <1>4, <2>1 DEF LoanAfter3
  <2>4. NoResults'
    BY <2>2, <2>3 DEF NoResults, Moves3
  <2>5. Phase'
    BY <2>1, <2>3, <2>4, EmptyCalm DEF Phase, Use, Idle
  <2> QED
    BY <1>1, <1>2, <1>4, <2>3, <2>5, Step3 DEF Moves3
<1> QED
  BY <1>1, <1>5, <1>6, Waiting3At

\* A record or the end of a stream of version 3.
LEMMA ReceiveNext3Inv ==
  ASSUME BoltInv, ReceiveNext3
  PROVE  BoltInv'
<1> DEFINE dead == [b EXCEPT !.err = TRUE, !.state = "dead"]
<1>1. b.v.major = 3 /\ ~Idle /\ Top.at = "record3" /\ net' = net /\ loan' = loan /\ Conn(b)
  BY DEF ReceiveNext3, Is3, BoltInv
<1>2. net' \in {"up", "down"}
  BY <1>1 DEF BoltInv
<1>3. Moves3(b, dead) /\ dead.err
  <2>1. TRUE \in BOOLEAN /\ "dead" \in States
    BY DEF States
  <2> QED
    BY <1>1, <2>1, Set3
<1>4. /\ Server' /\ Moves3(b, b') /\ (b.err => b'.err)
      /\ stack' = stack \/ stack' = Tail(stack)
  <2>1. CASE b' = dead /\ srv' = srv /\ stack' = Tail(stack)
    <3> HIDE DEF dead
    <3>1. Server'
      BY <2>1 DEF BoltInv, Server
    <3> QED
      BY <1>3, <2>1, <3>1
  <2>2. ASSUME NEW a \in Answers, b.wire # << >>, srv' = a.srv,
               NEW c, c = [b EXCEPT !.wire = a.wire],
               b' = CASE a.answer.k = "record" /\ Top.mode = "buffer" ->
                           [c EXCEPT !.streams[Top.s].fifo = Append(@, a.answer.record)]
                      [] a.answer.k = "record" /\ Top.mode # "buffer" -> c
                      [] a.answer.k = "success" ->
                           Ended3(c, "sum", IF b.state = "streamingTx" THEN "tx" ELSE "ready", b.err)
                      [] a.answer.k = "failure" -> Ended3(c, "err", "failed", TRUE)
                      [] a.answer.k = "ignored" -> Ended3(c, "err", "dead", TRUE)
        PROVE  Server' /\ Moves3(b, b') /\ (b.err => b'.err)
    <3>1. Moves3(b, c) /\ c.err = b.err /\ ServerOK(a.srv) /\ Conn(c) /\ b.err \in BOOLEAN
          /\ a.answer.k \in {"success", "failure", "ignored", "record"}
      BY <1>1, <2>2, Answered3 DEF Moves3, Conn
    <3>2. Server'
      BY <2>2, <3>1 DEF Server
    <3>3. CASE a.answer.k = "record" /\ Top.mode = "buffer"
      <4> DEFINE x == Append(c.streams[Top.s].fifo, a.answer.record)
                 d == [c EXCEPT !.streams[Top.s].fifo = x]
      <4>1. b' = d
        BY <2>2, <3>3
      <4> HIDE DEF x
      <4>2. Keeps(c, d)
        BY <3>1, StreamFieldKeeps
      <4>3. d.made = c.made /\ d.handlers = c.handlers
        BY <3>1 DEF Conn, ConnFields
      <4> HIDE DEF d
      <4>4. Moves3(c, d) /\ (c.err => d.err)
        BY <4>2, <4>3 DEF Keeps, Moves3
      <4> QED
        BY <3>1, <3>2, <4>1, <4>4, Moves3Trans
    <3>4. CASE a.answer.k = "record" /\ Top.mode # "buffer"
      <4>1. b' = c
        BY <2>2, <3>4
      <4> QED
        BY <3>1, <3>2, <4>1
    <3>5. CASE a.answer.k = "success"
      <4> DEFINE st == IF b.state = "streamingTx" THEN "tx" ELSE "ready"
                 d == Ended3(c, "sum", st, b.err)
      <4>1. st \in States
        BY DEF States
      <4>2. b' = d
        BY <2>2, <3>5
      <4> HIDE DEF st
      <4>3. Moves3(c, d) /\ d.err = b.err
        BY <3>1, <4>1, Ended3Moves
      <4> HIDE DEF d
      <4> QED
        BY <3>1, <3>2, <4>2, <4>3, Moves3Trans
    <3>6. CASE a.answer.k = "failure"
      <4> DEFINE d == Ended3(c, "err", "failed", TRUE)
      <4>1. "failed" \in States /\ TRUE \in BOOLEAN
        BY DEF States
      <4>2. b' = d
        BY <2>2, <3>6
      <4>3. Moves3(c, d) /\ d.err
        BY <3>1, <4>1, Ended3Moves
      <4> HIDE DEF d
      <4> QED
        BY <3>1, <3>2, <4>2, <4>3, Moves3Trans
    <3>7. CASE a.answer.k = "ignored"
      <4> DEFINE d == Ended3(c, "err", "dead", TRUE)
      <4>1. "dead" \in States /\ TRUE \in BOOLEAN
        BY DEF States
      <4>2. b' = d
        BY <2>2, <3>7
      <4>3. Moves3(c, d) /\ d.err
        BY <3>1, <4>1, Ended3Moves
      <4> HIDE DEF d
      <4> QED
        BY <3>1, <3>2, <4>2, <4>3, Moves3Trans
    <3> QED
      BY <3>1, <3>3, <3>4, <3>5, <3>6, <3>7
  <2>3. \/ b' = dead /\ srv' = srv /\ stack' = Tail(stack)
        \/ /\ stack' = stack \/ stack' = Tail(stack)
           /\ \E a \in Answers : \E c \in {[b EXCEPT !.wire = a.wire]} :
             /\ b.wire # << >> /\ srv' = a.srv
             /\ b' = CASE a.answer.k = "record" /\ Top.mode = "buffer" ->
                           [c EXCEPT !.streams[Top.s].fifo = Append(@, a.answer.record)]
                      [] a.answer.k = "record" /\ Top.mode # "buffer" -> c
                      [] a.answer.k = "success" ->
                           Ended3(c, "sum", IF b.state = "streamingTx" THEN "tx" ELSE "ready", b.err)
                      [] a.answer.k = "failure" -> Ended3(c, "err", "failed", TRUE)
                      [] a.answer.k = "ignored" -> Ended3(c, "err", "dead", TRUE)
    BY DEF ReceiveNext3
  <2> HIDE DEF dead
  <2> QED
    BY <2>1, <2>2, <2>3
<1>5. CASE loan \in Use /\ Calm(stack, b)
  <2>1. Calm(stack', b')
    BY <1>1, <1>4, <1>5, Tail3
  <2> QED
    BY <1>1, <1>2, <1>4, <1>5, <2>1, Use3 DEF Moves3
<1>6. ASSUME loan = "returning", NEW f \in OnRecord3, stack = <<f, F("forceReset3"), F("cleared3")>>
      PROVE  BoltInv'
  <2>1. Tail(stack) = <<F("forceReset3"), F("cleared3")>>
    BY <1>6, ShortStack
  <2>2. stack' \in Returning
    BY <1>4, <1>6, <2>1 DEF Returning
  <2>3. Phase'
    BY <1>1, <1>6, <2>2 DEF Phase, Use
  <2> QED
    BY <1>1, <1>2, <1>4, <2>3, Step3 DEF Moves3
<1> QED
  BY <1>1, <1>5, <1>6, Waiting3At

\* Reset of version 3.
LEMMA Reset3Inv ==
  ASSUME BoltInv, Reset3
  PROVE  BoltInv'
<1> DEFINE rest == <<F("forceReset3"), F("cleared3")>>
           r == Read3("discard", << >>)
<1>1. b.v.major = 3 /\ loan' = "returning" /\ b' = b /\ srv' = srv /\ net' = net /\ Conn(b)
      /\ \/ stack' = <<F("cleared3")>>
         \/ stack' = << >> \o rest
         \/ stack' = r \o rest
  BY DEF Reset3, Is3, Start, F, BoltInv
<1>2. Server' /\ net' \in {"up", "down"}
  BY <1>1 DEF BoltInv, Server
<1>3. << >> \o rest = rest
  BY ShortConcat
<1>4. r = << >> \/ \E f \in OnRecord3 : r = <<f>>
  <2>1. r = << >> \/ \E f \in OnRecord3 : r = <<f>> \o << >>
    BY Read3Quiet
  <2>2. \A f : <<f>> \o << >> = <<f>>
    BY ShortConcat
  <2> QED
    BY <2>1, <2>2
<1>5. \A f : <<f>> \o rest = <<f, F("forceReset3"), F("cleared3")>>
  BY ShortConcat
<1> HIDE DEF r
<1>6. \/ stack' = <<F("cleared3")>>
      \/ stack' = <<F("forceReset3"), F("cleared3")>>
      \/ \E f \in OnRecord3 : stack' = <<f, F("forceReset3"), F("cleared3")>>
  BY <1>1, <1>3, <1>4, <1>5
<1>7. stack' \in Returning
  BY <1>6 DEF Returning
<1>8. Phase'
  BY <1>1, <1>7 DEF Phase, Use
<1> QED
  BY <1>1, <1>2, <1>8, Step3

\* The part of a loan that a RESET of version 3 is in stays.
LEMMA Phase3Stays ==
  ASSUME BoltInv, loan' = loan, Moves3(b, b'),
         \/ loan = "returning" /\ stack' \in Returning
         \/ loan = "lending" /\ stack' \in Lending
  PROVE  Phase'
<1>1. loan = "lending" => NoResults'
  BY DEF BoltInv, Phase, NoResults, Moves3
<1> QED
  BY <1>1 DEF Phase, Use

\* RESET is sent.
LEMMA ForceReset3Inv ==
  ASSUME BoltInv, ForceReset3
  PROVE  BoltInv'
<1> DEFINE e == [b EXCEPT !.err = FALSE]
           c == Send3(e, "reset", NoStream)
           need == b.state # "dead" /\ ~(Top.at = "forceReset3" /\ b.state = "ready")
           d == IF need THEN c ELSE b
           frames == IF need /\ ~c.err THEN <<F("reset3")>> ELSE << >>
<1>1. ~Idle /\ Top.at \in {"forceReset3", "forceCheck3"} /\ b.v.major = 3 /\ loan' = loan /\ Conn(b)
      /\ Continue(d, frames)
  BY DEF ForceReset3, Is3, F, BoltInv
<1>2. Conn(e) /\ Moves3(b, e) /\ e.v = b.v
  <2>1. DOMAIN e = ConnFields /\ SameQueue(b, e) /\ e.state = b.state /\ e.err \in BOOLEAN
        /\ e.txId = b.txId /\ e.curr = b.curr /\ e.streams = b.streams
    BY <1>1 DEF Conn, ConnFields, SameQueue
  <2> HIDE DEF e
  <2>2. Conn(e)
    BY <1>1, <2>1 DEF Conn, SameQueue
  <2> QED
    BY <2>1, <2>2 DEF Moves3, SameQueue
<1>3. NoStream \in 0 .. MaxStreams /\ "reset" \in Messages
  BY StreamsAreCounted DEF NoStream, Messages
<1> HIDE DEF e
<1>4. Moves3(b, c)
  BY <1>1, <1>2, <1>3, Send3Keeps, Moves3Trans
<1>5. Moves3(b, b)
  BY <1>1 DEF Moves3
<1> HIDE DEF c
<1>6. Moves3(b, d)
  BY <1>4, <1>5
<1>7. frames = <<F("reset3")>> \/ frames = << >>
  OBVIOUS
<1> HIDE DEF d, frames
<1>8. b' = d /\ stack' = frames \o Tail(stack) /\ srv' = srv /\ net' = net
  BY <1>1 DEF Continue
<1>9. Server' /\ net' \in {"up", "down"}
  BY <1>8 DEF BoltInv, Server
<1>10. CASE loan = "returning" /\ stack = <<F("forceReset3"), F("cleared3")>>
  <2>1. Tail(stack) = <<F("cleared3")>>
    BY <1>10, ShortStack
  <2>2. <<F("reset3")>> \o <<F("cleared3")>> = <<F("reset3"), F("cleared3")>>
        /\ << >> \o <<F("cleared3")>> = <<F("cleared3")>>
    BY ShortConcat
  <2>3. stack' \in Returning
    BY <1>7, <1>8, <2>1, <2>2 DEF Returning
  <2>4. Phase'
    BY <1>1, <1>6, <1>8, <1>10, <2>3, Phase3Stays
  <2> QED
    BY <1>1, <1>6, <1>8, <1>9, <2>4, Step3 DEF Moves3
<1>11. CASE loan = "lending" /\ stack = <<F("forceCheck3"), F("reauth")>>
  <2>1. Tail(stack) = <<F("reauth")>>
    BY <1>11, ShortStack
  <2>2. <<F("reset3")>> \o <<F("reauth")>> = <<F("reset3"), F("reauth")>>
        /\ << >> \o <<F("reauth")>> = <<F("reauth")>>
    BY ShortConcat
  <2>3. stack' \in Lending
    BY <1>7, <1>8, <2>1, <2>2 DEF Lending
  <2>4. Phase'
    BY <1>1, <1>6, <1>8, <1>11, <2>3, Phase3Stays
  <2> QED
    BY <1>1, <1>6, <1>8, <1>9, <2>4, Step3 DEF Moves3
<1> QED
  BY <1>1, <1>10, <1>11, SpecialAt

\* The answer to RESET.
LEMMA ReceiveReset3Inv ==
  ASSUME BoltInv, ReceiveReset3
  PROVE  BoltInv'
<1> DEFINE dead == [b EXCEPT !.err = TRUE, !.state = "dead"]
           St(k) == CASE k = "ignored" -> b.state [] k = "success" -> "ready" [] OTHER -> "dead"
           Got(a) == [b EXCEPT !.wire = a.wire, !.state = St(a.answer.k)]
<1>1. b.v.major = 3 /\ ~Idle /\ Top.at = "reset3" /\ net' = net /\ loan' = loan /\ Conn(b)
  BY DEF ReceiveReset3, Is3, BoltInv
<1>2. net' \in {"up", "down"}
  BY <1>1 DEF BoltInv
<1>3. (stack' = stack \/ stack' = Tail(stack))
      /\ \/ b' = dead /\ srv' = srv
         \/ \E a \in Answers : b.wire # << >> /\ srv' = a.srv /\ b' = Got(a)
  BY DEF ReceiveReset3
<1>4. Server' /\ Moves3(b, b')
  <2>1. CASE b' = dead /\ srv' = srv
    <3>1. Server'
      BY <2>1 DEF BoltInv, Server
    <3>2. TRUE \in BOOLEAN /\ "dead" \in States
      BY DEF States
    <3>3. Moves3(b, dead)
      BY <1>1, <3>2, Set3
    <3> QED
      BY <2>1, <3>1, <3>3
  <2>2. ASSUME NEW a \in Answers, b.wire # << >>, srv' = a.srv, b' = Got(a)
        PROVE  Server' /\ Moves3(b, b')
    <3> DEFINE st == St(a.answer.k)
               d == [b EXCEPT !.wire = a.wire, !.state = st]
    <3>1. a.wire \in Seq(Requests) /\ ServerOK(a.srv)
      BY <2>2, Answered3
    <3>2. st \in States
      BY <1>1 DEF States, Conn
    <3>3. b' = d
      BY <2>2
    <3> HIDE DEF st, St
    <3>4. DOMAIN d = ConnFields /\ d.v = b.v /\ d.live = b.live /\ d.made = b.made /\ d.handlers = b.handlers
          /\ d.out = b.out /\ d.wire = a.wire /\ d.state = st
          /\ d.err = b.err /\ d.txId = b.txId /\ d.curr = b.curr /\ d.streams = b.streams
      BY <1>1 DEF Conn, ConnFields
    <3> HIDE DEF d
    <3>5. Moves3(b, d)
      BY <1>1, <3>1, <3>2, <3>4, Conn3 DEF Conn
    <3> QED
      BY <2>2, <3>1, <3>3, <3>5 DEF Server
  <2> HIDE DEF dead, Got
  <2> QED
    BY <1>3, <2>1, <2>2
<1>5. CASE loan = "returning" /\ stack = <<F("reset3"), F("cleared3")>>
  <2>1. Tail(stack) = <<F("cleared3")>>
    BY <1>5, ShortStack
  <2>2. stack' \in Returning
    BY <1>3, <1>5, <2>1 DEF Returning
  <2>3. Phase'
    BY <1>1, <1>4, <1>5, <2>2, Phase3Stays
  <2> QED
    BY <1>1, <1>2, <1>4, <2>3, Step3 DEF Moves3
<1>6. CASE loan = "lending" /\ stack = <<F("reset3"), F("reauth")>>
  <2>1. Tail(stack) = <<F("reauth")>>
    BY <1>6, ShortStack
  <2>2. stack' \in Lending
    BY <1>3, <1>6, <2>1 DEF Lending
  <2>3. Phase'
    BY <1>1, <1>4, <1>6, <2>2, Phase3Stays
  <2> QED
    BY <1>1, <1>2, <1>4, <2>3, Step3 DEF Moves3
<1> QED
  BY <1>1, <1>5, <1>6, SpecialAt

\* The deferred part of Reset, and the pool.
LEMMA Reset3DoneInv ==
  ASSUME BoltInv, Reset3Done
  PROVE  BoltInv'
<1> DEFINE c == [b EXCEPT !.txId = FALSE, !.err = FALSE, !.curr = NoStream]
<1>1. loan = "returning" /\ stack = <<F("cleared3")>> /\ Conn(b) /\ Returned(c) /\ b.v.major = 3
  BY SpecialAt DEF Reset3Done, At, BoltInv, Is3
<1>2. DOMAIN c = ConnFields /\ c.streams = b.streams
      /\ c.curr = NoStream /\ c.err \in BOOLEAN /\ c.state = b.state /\ c.txId \in BOOLEAN
      /\ SameQueue(b, c)
  BY <1>1 DEF Conn, ConnFields, SameQueue
<1> HIDE DEF c
<1>3. NoStream \in 0 .. b.made
  BY <1>1, NoStreamFits DEF NoStream
<1>4. Conn(c)
  <2>1. b.state \in States /\ DOMAIN b.streams = Streams /\ \A r \in Streams : StreamOK(b.streams[r])
    BY <1>1 DEF Conn
  <2> QED
    BY <1>1, <1>2, <1>3, <2>1, SameConn
<1>5. F("cleared3").at # "receive"
  BY DEF F
<1> QED
  BY <1>1, <1>2, <1>4, <1>5, ReturnedInv

\* Borrow, with the health check or without.
LEMMA Borrow3Inv ==
  ASSUME BoltInv, NEW check, Borrow3(check)
  PROVE  BoltInv'
<1> DEFINE p == IF check THEN <<F("forceCheck3")>> ELSE << >>
<1>1. b.v.major = 3 /\ loan = "pooled" /\ loan' = "lending" /\ b' = b /\ srv' = srv /\ net' = net /\ Conn(b)
      /\ stack' = p \o <<F("reauth")>> /\ NoResults
  BY DEF Borrow3, Is3, Start, F, BoltInv, Phase
<1>2. Server' /\ net' \in {"up", "down"} /\ NoResults'
  BY <1>1 DEF BoltInv, Server, NoResults
<1>3. <<F("forceCheck3")>> \o <<F("reauth")>> = <<F("forceCheck3"), F("reauth")>>
      /\ << >> \o <<F("reauth")>> = <<F("reauth")>>
  BY ShortConcat
<1>4. stack' = <<F("forceCheck3"), F("reauth")>> \/ stack' = <<F("reauth")>>
  BY <1>1, <1>3
<1>5. stack' \in Lending
  BY <1>4 DEF Lending
<1>6. Phase'
  BY <1>1, <1>2, <1>5 DEF Phase, Use
<1> QED
  BY <1>1, <1>2, <1>6, Step3

-----------------------------------------------------------------------------
(* The versions.                                                           *)

\* A new connection.
LEMMA Starts == Init => BoltInv
<1> SUFFICES ASSUME Init
             PROVE  BoltInv
  OBVIOUS
<1>1. PICK v \in Protocols :
        b = [v |-> v, state |-> "unauthorized", err |-> FALSE, txId |-> FALSE,
             curr |-> NoStream, num |-> 0, lastQid |-> -1, made |-> 0, live |-> 1,
             streams |-> [s \in Streams |-> NewStream],
             handlers |-> << >>, out |-> << >>, wire |-> << >>]
  BY DEF Init
<1>2. DOMAIN b = ConnFields /\ b.v = v /\ b.state = "unauthorized" /\ b.err \in BOOLEAN /\ b.txId \in BOOLEAN
      /\ b.curr = 0 /\ b.made = 0 /\ b.live = 1 /\ b.streams = [s \in Streams |-> NewStream]
      /\ b.handlers = << >> /\ b.out = << >> /\ b.wire = << >>
  BY <1>1 DEF ConnFields, NoStream
<1>3. StreamOK(NewStream)
  BY DEF StreamOK, StreamFields, NewStream, Fetches
<1>4. 0 \in 0 .. MaxStreams /\ 0 \in 0 .. 0 /\ 1 \in 1 .. 0 + 1
  BY StreamsAreCounted
<1>5. Conn(b)
  BY <1>2, <1>3, <1>4, EmptySeq DEF Conn, States
<1>6. srv = [st |-> "new", open |-> {}, last |-> NoStream, byQid |-> << >>,
             sent |-> [s \in Streams |-> 0], refused |-> {}]
      /\ net = "up" /\ stack = << >> /\ loan = "new"
  BY DEF Init
<1>7. Server /\ net \in {"up", "down"}
  BY <1>6, EmptySeq DEF Server, ServerOK
<1>8. Phase
  BY <1>2, <1>6 DEF Phase, Idle, NoResults, Use
<1>9. ResetAlone
  BY <1>2, <1>6 DEF ResetAlone, NoReset, Idle
<1>10. Queue
  <2>1. << >> \o << >> = << >> /\ Len(<< >>) = 0
    BY ShortConcat
  <2>2. Matches(b.handlers, b.wire \o b.out)
    BY <1>2, <2>1 DEF Matches
  <2> QED
    BY <1>2, <2>2 DEF Queue
<1> QED
  BY <1>5, <1>7, <1>8, <1>9, <1>10 DEF BoltInv

\* Version 3.
LEMMA Steps3Inv ==
  ASSUME BoltInv, Steps3
  PROVE  BoltInv'
<1>1. CASE Connect3
  BY <1>1, Connect3Inv
<1>2. CASE TxBegin3Send
  BY <1>2, TxBegin3SendInv
<1>3. CASE TxEnd3Send
  BY <1>3, TxEnd3SendInv
<1>4. CASE Run3Send
  BY <1>4, Run3SendInv
<1>5. CASE Reset3
  BY <1>5, Reset3Inv
<1>6. CASE ForceReset3
  BY <1>6, ForceReset3Inv
<1>7. CASE ReceiveSuccess3
  BY <1>7, ReceiveSuccess3Inv
<1>8. CASE ReceiveNext3
  BY <1>8, ReceiveNext3Inv
<1>9. CASE ReceiveReset3
  BY <1>9, ReceiveReset3Inv
<1>10. CASE Reset3Done
  BY <1>10, Reset3DoneInv
<1>11. CASE GetRoutingTable3
  BY <1>11, GetRoutingTable3Inv
<1>12. CASE GetRoutingTable3Next
  BY <1>12, GetRoutingTable3NextInv
<1>13. CASE Close3
  BY <1>13, CloseInv DEF Close3
<1>14. CASE LendingDone
  BY <1>14, LendingDoneInv
<1>15. CASE \E option \in Options : TxBegin3(option)
  BY <1>15, TxBegin3Inv
<1>16. CASE \E option \in Options, pack \in Packs : Run3(option, pack)
  BY <1>16, Run3Inv
<1>17. CASE \E pack \in Packs : RunTx3(pack)
  BY <1>17, Run3Inv
<1>18. CASE \E how \in {"commit", "rollback"} : TxEnd3(how)
  BY <1>18, TxEnd3Inv
<1>19. CASE \E s \in Streams : Next3(s)
  BY <1>19, Next3Inv
<1>20. CASE \E s \in Streams, how \in {"discard", "buffer"} : Exhaust3(s, how)
  BY <1>20, Exhaust3Inv
<1>21. CASE \E x \in BOOLEAN : Borrow3(x) \/ ReAuth3(x)
  BY <1>21, Borrow3Inv, FallbackReAuthInv DEF ReAuth3
<1> QED
  BY <1>1, <1>2, <1>3, <1>4, <1>5, <1>6, <1>7, <1>8, <1>9, <1>10, <1>11, <1>12, <1>13, <1>14, <1>15,
     <1>16, <1>17, <1>18, <1>19, <1>20, <1>21 DEF Steps3

\* What versions 4 to 6 share.
Connects == (\E once \in BOOLEAN : Connect(once)) \/ Connected
Begins == (\E option \in Options, sync \in BOOLEAN : TxBegin(option, sync)) \/ TxBeginSend \/ TxBegun
Ends == (\E how \in {"commit", "rollback"} : TxEnd(how)) \/ TxEndSend \/ TxEnded
Moves == DiscardStream \/ BufferStream \/ PauseStream
Calls == \E n \in FetchSizes, pack \in Packs :
           RunTx(n, pack) \/ \E option \in Options : Run(option, n, pack)
Results == \/ \E s \in Streams : Next(s)
           \/ \E s \in Streams, how \in {"discard", "buffer"} : Exhaust(s, how)
           \/ NextStep \/ ExhaustStep
Resets == Reset \/ ForceReset \/ ResetDone \/ \E check \in BOOLEAN : Borrow(check)
Lends == \/ \E changed \in BOOLEAN : FallbackReAuth(changed)
         \/ \E changed, force \in BOOLEAN : ReAuth(changed, force)
         \/ ReAuthDone \/ LendingDone
Tables == GetRoutingTable \/ CallGetRoutingTable \/ CallGetRoutingTableNext
Reads == Receive \/ ReceiveIoError
Runs == RunSend(PackError(RunQueued)) \/ \E once \in BOOLEAN : RunReceive(once)
Shared == \/ Connects \/ Begins \/ Ends \/ Moves \/ Calls \/ Results \/ Resets \/ Lends \/ Tables
          \/ Reads \/ Runs \/ Telemetry \/ Close

\* Every call that versions 4 to 6 share keeps the invariant.
LEMMA SharedInv ==
  ASSUME BoltInv, b.v.major > 3, b.v.major # 3, Shared
  PROVE  BoltInv'
<1>1. CASE Connects
  BY <1>1, ConnectInv, ConnectedInv DEF Connects
<1>2. CASE Begins
  BY <1>2, TxBeginInv, TxBeginSendInv, TxBegunInv DEF Begins
<1>3. CASE Ends
  BY <1>3, TxEndInv, TxEndSendInv, TxEndedInv DEF Ends
<1>4. CASE Moves
  BY <1>4, DiscardStreamInv, BufferStreamInv, PauseStreamInv DEF Moves
<1>5. CASE Calls
  BY <1>5, RunInv, RunTxInv DEF Calls
<1>6. CASE Results
  BY <1>6, NextInv, ExhaustInv, NextStepInv, ExhaustStepInv DEF Results
<1>7. CASE Resets
  BY <1>7, ResetInv, ForceResetInv, ResetDoneInv, BorrowInv DEF Resets
<1>8. CASE Lends
  BY <1>8, FallbackReAuthInv, ReAuthInv, ReAuthDoneInv, LendingDoneInv DEF Lends
<1>9. CASE Tables
  BY <1>9, GetRoutingTableInv, CallGetRoutingTableInv, CallGetRoutingTableNextInv DEF Tables
<1>10. CASE Reads
  BY <1>10, ReceiveInv, ReceiveIoErrorInv DEF Reads
<1>11. CASE Runs
  <2>1. CASE RunSend(PackError(RunQueued))
    <3>1. ~Idle /\ Top.at = "run"
      BY <2>1 DEF RunSend, At
    <3> QED
      BY <2>1, <3>1, PackErrorKeeps, RunSendInv
  <2>2. CASE \E once \in BOOLEAN : RunReceive(once)
    BY <2>2, RunReceiveInv
  <2> QED
    BY <1>11, <2>1, <2>2 DEF Runs
<1>12. CASE Telemetry
  BY <1>12, TelemetryInv
<1>13. CASE Close
  BY <1>13, CloseInv
<1> QED
  BY <1>1, <1>2, <1>3, <1>4, <1>5, <1>6, <1>7, <1>8, <1>9, <1>10, <1>11, <1>12, <1>13 DEF Shared

\* Versions 4 and 5.
LEMMA Steps45Inv ==
  ASSUME BoltInv, Steps4 \/ Steps5
  PROVE  BoltInv'
<1>1. CASE Steps4
  <2>1. b.v.major = 4
    BY <1>1 DEF Steps4, Is4, Connect4, TxBegin4, TxEnd4, DiscardStream4, BufferStream4, Run4, RunCalls4, Next4,
                Exhaust4, Reset4, GetRoutingTable4, CallGetRoutingTable4, Close4, ReAuth4, Receive4
  <2>2. Shared
    <3>1. Connect4 \/ TxBegin4 \/ TxEnd4 \/ DiscardStream4 \/ BufferStream4 => Shared
      BY DEF Connect4, TxBegin4, TxEnd4, DiscardStream4, BufferStream4, Shared, Connects, Begins, Ends, Moves
    <3>2. Run4 \/ RunCalls4 => Shared
      BY DEF Run4, RunCalls4, Shared, Runs, Calls
    <3>3. Next4 \/ Exhaust4 \/ Reset4 => Shared
      BY DEF Next4, Exhaust4, Reset4, Shared, Results, Resets
    <3>4. GetRoutingTable4 \/ CallGetRoutingTable4 \/ Close4 \/ ReAuth4 \/ Receive4 => Shared
      BY DEF GetRoutingTable4, CallGetRoutingTable4, Close4, ReAuth4, Receive4, Shared, Tables, Lends, Reads
    <3> QED
      BY <1>1, <3>1, <3>2, <3>3, <3>4 DEF Steps4
  <2> QED
    BY <2>1, <2>2, SharedInv
<1>2. CASE Steps5
  <2>1. b.v.major = 5
    BY <1>2 DEF Steps5, Is5, Connect5, TxBegin5, TxEnd5, Streams5, Run5, RunCalls5, Results5, Reset5,
                GetRoutingTable5, ReAuth5, Telemetry5, Close5, Receive5
  <2>2. Shared
    <3>1. Connect5 \/ TxBegin5 \/ TxEnd5 \/ Streams5 => Shared
      BY DEF Connect5, TxBegin5, TxEnd5, Streams5, Shared, Connects, Begins, Ends, Moves
    <3>2. Run5 \/ RunCalls5 => Shared
      BY DEF Run5, RunCalls5, Shared, Runs, Calls
    <3>3. Results5 \/ Reset5 => Shared
      BY DEF Results5, Reset5, Shared, Results, Resets
    <3>4. GetRoutingTable5 \/ ReAuth5 \/ Telemetry5 \/ Close5 \/ Receive5 => Shared
      BY DEF GetRoutingTable5, ReAuth5, Telemetry5, Close5, Receive5, Shared, Tables, Lends, Reads
    <3> QED
      BY <1>2, <3>1, <3>2, <3>3, <3>4 DEF Steps5
  <2> QED
    BY <2>1, <2>2, SharedInv
<1> QED
  BY <1>1, <1>2

\* A query of version 6 is rejected only when no other request is pending. Else the handler
\* that is dropped with it is another one's (bolt6.go:570), and nothing holds any more.
RejectedAlone == b.v.major = 6 /\ At("run") /\ Top.pack = "rejected" => b.handlers = << >>

\* Version 6.
LEMMA Steps6Inv ==
  ASSUME RejectedAlone, BoltInv, Steps6
  PROVE  BoltInv'
<1>1. b.v.major = 6
  BY DEF Steps6, Is6, Connect6, TxBegin6, TxEnd6, Streams6, Run6, RunCalls6, Results6, Reset6,
         GetRoutingTable6, ReAuth6, Telemetry6, Close6, Receive6
<1>2. Shared \/ RunSend(PackError6(RunQueued))
  <2>1. Connect6 \/ TxBegin6 \/ TxEnd6 \/ Streams6 => Shared
    BY DEF Connect6, TxBegin6, TxEnd6, Streams6, Shared, Connects, Begins, Ends, Moves
  <2>2. Run6 \/ RunCalls6 => Shared \/ RunSend(PackError6(RunQueued))
    BY DEF Run6, RunCalls6, Shared, Runs, Calls
  <2>3. Results6 \/ Reset6 => Shared
    BY DEF Results6, Reset6, Shared, Results, Resets
  <2>4. GetRoutingTable6 \/ ReAuth6 \/ Telemetry6 \/ Close6 \/ Receive6 => Shared
    BY DEF GetRoutingTable6, ReAuth6, Telemetry6, Close6, Receive6, Shared, Tables, Lends, Reads
  <2> QED
    BY <2>1, <2>2, <2>3, <2>4 DEF Steps6
<1>3. CASE Shared
  BY <1>1, <1>3, SharedInv
<1>4. CASE RunSend(PackError6(RunQueued))
  <2>1. ~Idle /\ Top.at = "run"
    BY <1>4 DEF RunSend, At
  <2>2. Top.pack = "rejected" => b.handlers = << >>
    BY <1>1, <2>1 DEF RejectedAlone, At
  <2> QED
    BY <1>1, <1>4, <2>1, <2>2, PackError6Keeps, RunSendInv
<1> QED
  BY <1>2, <1>3, <1>4

\* The invariant is kept by every step of every version.
LEMMA Stays ==
  ASSUME RejectedAlone, BoltInv, [NextState]_vars
  PROVE  BoltInv'
<1>1. CASE Steps
  BY <1>1, Steps3Inv, Steps45Inv, Steps6Inv DEF Steps
<1>2. CASE NetFails
  BY <1>2, NetFailsInv
<1>3. CASE UNCHANGED vars
  <2>1. b' = b /\ srv' = srv /\ net' = net /\ stack' = stack /\ loan' = loan
    BY <1>3 DEF vars
  <2>2. Conn(b') /\ Server' /\ net' \in {"up", "down"}
    BY <2>1 DEF BoltInv, Server
  <2>3. Phase'
    BY <2>1 DEF BoltInv, Phase, Idle, NoResults
  <2>4. ResetAlone'
    BY <2>1 DEF BoltInv, ResetAlone, Idle, Top
  <2>5. Queue'
    BY <2>1 DEF BoltInv, Queue
  <2> QED
    BY <2>2, <2>3, <2>4, <2>5 DEF BoltInv
<1> QED
  BY <1>1, <1>2, <1>3 DEF NextState, Gone

\* TypeOK: whatever the server answers and wherever the socket breaks, the state of the
\* connection and of the server is one of those that the code knows, and the current
\* stream is one that a query of the connection has made.
THEOREM TypeCorrect ==
  Spec /\ []RejectedAlone => []TypeOK
<1>1. BoltInv => TypeOK
  BY DEF BoltInv, Conn, Server, ServerOK, StreamOK, States, TypeOK
<1>2. BoltInv /\ RejectedAlone /\ [NextState]_vars => BoltInv'
  BY Stays
<1> QED
  BY <1>1, <1>2, Starts, PTL DEF Spec

\* HandlersMatchRequests: the handlers of the queue are, in order, those of the requests
\* that were sent and not answered and of those that wait to be sent, so that every
\* response is given to the handler of its own request, in every version that has the
\* queue, with any number of results and of requests in flight, and after failures.
THEOREM EveryResponseToItsHandler ==
  Spec /\ []RejectedAlone => []HandlersMatchRequests
<1>1. BoltInv => HandlersMatchRequests
  <2> DEFINE pending == b.wire \o b.out
  <2> SUFFICES ASSUME BoltInv, b.v.major > 3, b.state # "dead"
               PROVE  /\ Len(pending) = Len(b.handlers)
                      /\ \A i \in DOMAIN pending :
                           pending[i].m = b.handlers[i].on /\ pending[i].s = b.handlers[i].s
    BY DEF HandlersMatchRequests
  <2>1. Matches(b.handlers, pending)
    BY DEF BoltInv, Queue, Broken
  <2>2. pending \in Seq(Requests)
    BY ConcatProperties DEF BoltInv, Conn
  <2> HIDE DEF pending
  <2>3. DOMAIN pending = 1 .. Len(pending)
    BY <2>2, LenProperties
  <2> QED
    BY <2>1, <2>3 DEF Matches
<1>2. BoltInv /\ RejectedAlone /\ [NextState]_vars => BoltInv'
  BY Stays
<1> QED
  BY <1>1, <1>2, Starts, PTL DEF Spec
=============================================================================
