--------------------------- MODULE BoltConnection ---------------------------
(***************************************************************************)
(* A Bolt connection of the driver and the server at its other end: the    *)
(* parts that the protocol versions share. The definitions follow bolt5.go,*)
(* message_queue.go and stream.go; Bolt3, Bolt4, Bolt5 and Bolt6 say what  *)
(* each version makes of them.                                             *)
(*                                                                         *)
(* A connection has one caller at a time and a call blocks only where it   *)
(* reads a response, so a call is a stack of frames, top first: a frame    *)
(* names the place where the code goes on, and a step runs the code from   *)
(* there up to the next read. The server answers requests in the order in  *)
(* which they were sent, so what it does is folded into the read.          *)
(*                                                                         *)
(* Left out: bookmarks, metadata, selected database, summaries and the     *)
(* calls of the error listener (module Pool has their effect). The server  *)
(* is compliant, so of the branches for responses out of protocol there is *)
(* only what the queue does when handlers and requests do not match.       *)
(***************************************************************************)
EXTENDS Integers, Sequences

CONSTANTS
    Protocols,    \* protocol versions, records with major and minor
    MaxStreams,   \* bound: queries run on the connection
    MaxRecords,   \* bound: records of one query
    FetchSizes,   \* normalised fetch sizes, All for everything
    MaxQueued,    \* bound: pending requests when LOGOFF or TELEMETRY is queued
    Packs,        \* what packing the parameters of a query may come to
    Codes         \* codes of the failures that the server answers with

ASSUME StreamsAreCounted == MaxStreams \in Nat
ASSUME VersionsAreNumbers == Protocols \subseteq [major : Nat, minor : Nat]

VARIABLES
    b,        \* the connection: the struct of the driver, its queue and streams
    srv,      \* the server's side of it
    net,      \* "up", or "down" once broken, timed out or closed
    stack,    \* the call that is under way, << >> between calls
    loan,     \* what the pool and the session do with the connection
    seen      \* seen[s]: the records of s that Next has returned

vars == <<b, srv, net, stack, loan, seen>>

All == -1
NoStream == 0
Streams == 1 .. MaxStreams

(* stream.go: type stream; key is abstracted to safe: the key is that of the open streams *)
NewStream == [attached |-> FALSE, given |-> FALSE, fifo |-> << >>, done |-> "no", qid |-> -1,
              fetch |-> All, safe |-> FALSE, endOfBatch |-> FALSE, discarding |-> FALSE]

AtLeast(v, major, minor) == v.major > major \/ (v.major = major /\ v.minor >= minor)
HasLogon(v) == AtLeast(v, 5, 1)
HasTelemetry(v) == AtLeast(v, 5, 4)
(* Options of a query or transaction that a version may have to refuse *)
Supports(v, option) ==
    CASE option = "plain" -> TRUE
      [] option = "filtering" -> AtLeast(v, 5, 2)
      [] option = "impersonation" -> AtLeast(v, 4, 4)
Options == {"plain", "filtering", "impersonation"}

-----------------------------------------------------------------------------
(* Open streams *)

Attach(c, s) ==
    IF c.curr # NoStream THEN c
    ELSE [c EXCEPT !.num = @ + 1, !.curr = s, !.streams[s].safe = TRUE]

Remove(c, s) ==
    [c EXCEPT !.num = @ - 1, !.streams[s].safe = FALSE,
              !.curr = IF @ = s THEN NoStream ELSE @]

Pause(c) == [c EXCEPT !.curr = NoStream]
Resume(c, s) == IF c.curr # NoStream THEN c ELSE [c EXCEPT !.curr = s]

(* A new key: no stream is safe any more *)
ResetStreams(c) ==
    [c EXCEPT !.num = 0, !.curr = NoStream,
              !.streams = [s \in Streams |-> [@[s] EXCEPT !.safe = FALSE]]]

CheckStreams(c) ==
    IF c.num > 0 THEN c
    ELSE [c EXCEPT !.state = CASE @ = "streamingTx" -> "tx"
                               [] @ = "streaming" -> "ready"
                               [] OTHER -> @]

Finish(c, s, how) == CheckStreams(Remove([c EXCEPT !.streams[s].done = how], s))

(* An error reaches the stream that is current, and only that one *)
SetError(c, fatal) ==
    LET e == [c EXCEPT !.err = TRUE,
                       !.state = IF fatal THEN "dead" ELSE IF c.err THEN @ ELSE "failed"]
    IN  IF e.curr = NoStream THEN e ELSE Finish(e, e.curr, "err")

IsFatalError(code) == code = "Status.Security.AuthorizationExpired"
OnFailure(c, code) == SetError(c, IsFatalError(code))
OnIoError(c) == SetError(c, TRUE)

AssertState(c, allowed) == ~c.err /\ c.state \in allowed

-----------------------------------------------------------------------------
(* Message queue *)

Request(m, s, n, qid) == [m |-> m, s |-> s, n |-> n, qid |-> qid, got |-> 0]

(* One of the append functions: pack the message and queue its handler *)
Enqueue(c, r) == [c EXCEPT !.out = Append(@, r),
                           !.handlers = Append(@, [on |-> r.m, s |-> r.s])]
EnqueuePlain(c, m) == Enqueue(c, Request(m, NoStream, 0, -1))

Send(c) == IF net = "down" THEN OnIoError(c)
           ELSE [c EXCEPT !.wire = @ \o c.out, !.out = << >>]

ReceiveAll(c, frames) ==
    IF c.handlers = << >> THEN frames ELSE <<[at |-> "receiveAll"]>> \o frames

(* Mutant: the query id is left out, which stands for the query run last *)
AppendPullNWithoutQid(c, s) ==
    IF c.state \in {"streaming", "streamingTx"}
    THEN Enqueue(c, Request("pull", s, c.streams[s].fetch, -1)) ELSE c

AppendPullN(c, s) ==
    LET qid == IF c.state = "streamingTx" /\ c.streams[s].qid # c.lastQid
               THEN c.streams[s].qid ELSE -1
    IN  IF c.state \in {"streaming", "streamingTx"}
        THEN Enqueue(c, Request("pull", s, c.streams[s].fetch, qid)) ELSE c

AppendDiscardAll(c, s) ==
    LET qid == IF c.state = "streamingTx" /\ c.streams[s].qid # c.lastQid
               THEN c.streams[s].qid ELSE -1
    IN  Enqueue([c EXCEPT !.streams[s].fetch = All], Request("discard", s, All, qid))

(* The response handlers: c is the connection with the handler h removed *)
ExpectedSuccessHandler(c, h, answer, onSuccess) ==
    CASE answer.k = "success" -> onSuccess
      [] answer.k = "failure" -> OnFailure(c, answer.code)
      [] answer.k = "ignored" -> c

RunResponseHandler(c, s, answer) ==
    ExpectedSuccessHandler(c, s, answer,
        Attach([c EXCEPT !.streams[s].attached = TRUE, !.streams[s].qid = answer.qid,
                         !.lastQid = IF answer.qid > -1 THEN answer.qid ELSE @], s))

(* Mutant: the handler of a PULL is not kept for what follows a record *)
StreamResponseHandlerOnce(c, h, answer) ==
    LET s == h.s
    IN  CASE answer.k = "record" -> [c EXCEPT !.streams[s].fifo = Append(@, answer.record)]
          [] answer.k = "ignored" -> Finish(c, s, "err")
          [] answer.k = "success" /\ answer.more -> [c EXCEPT !.streams[s].endOfBatch = TRUE]
          [] answer.k = "success" /\ ~answer.more -> Finish(c, s, "sum")
          [] answer.k = "failure" -> OnFailure([c EXCEPT !.streams[s].done = "err"], answer.code)

(* Pull and discard: they differ in the records, of which discard has none *)
StreamResponseHandler(c, h, answer) ==
    LET s == h.s
        empty == [c EXCEPT !.streams[s].fifo = IF c.streams[s].discarding THEN << >> ELSE @]
    IN  CASE answer.k = "record" ->
               [c EXCEPT !.streams[s].fifo = IF c.streams[s].discarding THEN << >>
                                              ELSE Append(@, answer.record),
                         !.handlers = <<h>> \o @]
          [] answer.k = "ignored" -> Finish(c, s, "err")
          [] answer.k = "success" /\ answer.more -> [empty EXCEPT !.streams[s].endOfBatch = TRUE]
          [] answer.k = "success" /\ ~answer.more -> Finish(empty, s, "sum")
          [] answer.k = "failure" -> OnFailure([c EXCEPT !.streams[s].done = "err"], answer.code)

(* Mutant: any answer to RESET will do *)
ResetResponseHandlerTrusting(c, answer) == [c EXCEPT !.state = "ready"]

ResetResponseHandler(c, answer) ==
    [c EXCEPT !.state = IF answer.k = "success" THEN "ready" ELSE "dead"]

(* The handler has no callback for the answer: receive returns an error, no more *)
Unexpected(h, answer) == \/ answer.k = "record" /\ h.on # "pull"
                         \/ answer.k = "ignored" /\ h.on = "reset"

Handle(c, h, answer) ==
    CASE Unexpected(h, answer) -> c
      [] ~Unexpected(h, answer) /\ h.on = "run" -> RunResponseHandler(c, h.s, answer)
      [] ~Unexpected(h, answer) /\ h.on \in {"pull", "discard"} -> StreamResponseHandler(c, h, answer)
      [] ~Unexpected(h, answer) /\ h.on = "reset" -> ResetResponseHandler(c, answer)
      [] ~Unexpected(h, answer) /\ h.on \notin {"run", "pull", "discard", "reset"} ->
           ExpectedSuccessHandler(c, h, answer, c)

-----------------------------------------------------------------------------
(* The server, external: answers to the request at the head of the wire    *)

Success == [k |-> "success", more |-> FALSE, qid |-> -1]
Target(r) == IF r.qid = -1 THEN srv.last ELSE srv.byQid[r.qid + 1]

(* The requests that the server's state allows *)
Allowed(r) ==
    CASE r.m = "hello" -> srv.st = "new"
      [] r.m = "logon" -> srv.st = "loggedOff"
      [] r.m \in {"logoff", "route", "begin", "telemetry"} -> srv.st = "ready"
      [] r.m = "run" -> \/ srv.st = "ready"
                        \/ srv.st = "tx" /\ (b.v.major > 3 \/ srv.open = {})
      [] r.m \in {"pull", "discard"} -> /\ r.qid < Len(srv.byQid)
                                        /\ Target(r) \in srv.open
      [] r.m \in {"commit", "rollback"} -> srv.st = "tx"
      [] OTHER -> TRUE

Closed(s, s2) == [s EXCEPT !.open = @ \ {s2}, !.st = IF @ = "streaming" THEN "ready" ELSE @]

(* The server after a request that succeeds; pull is in PullAnswers *)
Served(r) ==
    CASE r.m = "hello" -> [srv EXCEPT !.st = IF HasLogon(b.v) THEN "loggedOff" ELSE "ready"]
      [] r.m = "logoff" -> [srv EXCEPT !.st = "loggedOff"]
      [] r.m \in {"logon", "commit", "rollback", "reset"} ->
           [srv EXCEPT !.st = "ready", !.open = {}, !.byQid = << >>]
      [] r.m = "begin" -> [srv EXCEPT !.st = "tx"]
      [] r.m = "run" /\ srv.st = "tx" ->
           [srv EXCEPT !.open = @ \cup {r.s}, !.last = r.s, !.byQid = Append(@, r.s)]
      [] r.m = "run" /\ srv.st # "tx" ->
           [srv EXCEPT !.st = "streaming", !.open = {r.s}, !.last = r.s]
      [] r.m = "discard" -> Closed(srv, Target(r))
      [] OTHER -> srv

PullAnswers(r, rest) ==
    LET s == Target(r)
        left == srv.sent[s] < MaxRecords
        full == r.n # All /\ r.got = r.n
        record == [answer |-> [k |-> "record", record |-> <<s, srv.sent[s] + 1>>],
                   srv |-> [srv EXCEPT !.sent[s] = @ + 1],
                   wire |-> <<[r EXCEPT !.got = @ + 1]>> \o rest]
        batchEnd == [answer |-> [Success EXCEPT !.more = TRUE], srv |-> srv, wire |-> rest]
        end == [answer |-> Success, srv |-> Closed(srv, s), wire |-> rest]
    IN  {end} \cup IF ~left THEN {} ELSE IF full THEN {batchEnd} ELSE {record}

Answers ==
    LET r == Head(b.wire)
        rest == Tail(b.wire)
        failures == {[answer |-> [k |-> "failure", code |-> code],
                      srv |-> [srv EXCEPT !.st = "failed", !.open = {}, !.byQid = << >>,
                                          !.refused = IF Allowed(r) THEN @ ELSE @ \cup {<<r.m, srv.st>>}],
                      wire |-> rest] : code \in Codes}
        qid == IF r.m = "run" /\ srv.st = "tx" /\ b.v.major > 3 THEN Len(srv.byQid) ELSE -1
    IN  IF srv.st = "failed" /\ r.m # "reset"
        THEN {[answer |-> [k |-> "ignored"], srv |-> srv, wire |-> rest]}
        ELSE IF ~Allowed(r) THEN failures
        ELSE failures \cup
             IF r.m = "pull" THEN PullAnswers(r, rest)
             ELSE {[answer |-> [Success EXCEPT !.qid = qid], srv |-> Served(r), wire |-> rest]}

-----------------------------------------------------------------------------
(* Calls: a call starts on the empty stack, a frame is taken from its top *)

Idle == stack = << >>
Top == Head(stack)

Start(c, frames) ==
    /\ Idle
    /\ b' = c /\ stack' = frames
    /\ UNCHANGED <<srv, net, seen>>

At(at) == ~Idle /\ Top.at = at
Continue(c, frames) ==
    /\ b' = c /\ stack' = frames \o Tail(stack)
    /\ UNCHANGED <<srv, net, seen>>

Waiting == ~Idle /\ Top.at \in {"receive", "receiveAll"}

(* receive: one response, handed to the handler at the front, if there is one *)
Receive ==
    /\ Waiting /\ net = "up" /\ b.wire # << >>
    /\ \E a \in Answers :
         LET read == [b EXCEPT !.wire = a.wire]
             h == Head(b.handlers)
             c == IF b.handlers = << >> THEN read
                  ELSE Handle([read EXCEPT !.handlers = Tail(@)], h, a.answer)
             over == \/ a.answer.k = "failure" \/ Top.at = "receive" \/ c.handlers = << >>
                     \/ Unexpected(h, a.answer)
         IN  /\ b' = c /\ srv' = a.srv
             /\ stack' = IF over THEN Tail(stack) ELSE stack
    /\ UNCHANGED <<net, loan, seen>>

ReceiveIoError ==
    /\ Waiting /\ net = "down"
    /\ b' = OnIoError(b)
    /\ stack' = Tail(stack)
    /\ UNCHANGED <<srv, net, loan, seen>>

(* The socket breaks, or the caller's context ends. That is noticed where a
   call reads or sends, so a failure between calls is left to the next call. *)
NetFails ==
    /\ net = "up" /\ (~Idle \/ loan \in {"new", "borrowed"})
    /\ net' = "down"
    /\ UNCHANGED <<b, srv, stack, loan, seen>>

-----------------------------------------------------------------------------
(* Moving through streams *)

BufferFrames(c, frames) ==
    IF c.curr = NoStream THEN frames
    ELSE ReceiveAll(c, <<[at |-> "buffer", s |-> c.curr]>> \o frames)

(* Mutant: the PULL is queued and not sent *)
BufferStreamUnsent == At("buffer") /\
    LET s == Top.s
        c == AppendPullN([b EXCEPT !.streams[s].fetch = All], s)
    IN  /\ UNCHANGED loan
        /\ \/ (b.err \/ b.streams[s].done # "no") /\ Continue(b, << >>)
           \/ /\ ~b.err /\ b.streams[s].done = "no" /\ b.streams[s].endOfBatch
              /\ Continue(c, ReceiveAll(c, <<Top>>))

(* bufferStream: pull what is left of the current stream *)
BufferStream == At("buffer") /\
    LET s == Top.s
        c == AppendPullN([b EXCEPT !.streams[s].fetch = All], s)
    IN  /\ UNCHANGED loan
        /\ \/ /\ b.err \/ b.streams[s].done # "no"
              /\ Continue(b, << >>)
           \/ /\ ~b.err /\ b.streams[s].done = "no" /\ b.streams[s].endOfBatch
              /\ Continue(Send(c), ReceiveAll(Send(c), <<Top>>))

PauseFrames(c, frames) ==
    IF c.curr = NoStream THEN frames
    ELSE ReceiveAll(c, <<[at |-> "pause", s |-> c.curr]>> \o frames)

(* pauseStream: read the batch that is on its way and let go of the stream *)
PauseStream == At("pause") /\
    LET s == Top.s
        paused == ~b.err /\ b.streams[s].done = "no" /\ b.streams[s].endOfBatch
    IN  Continue(IF paused THEN Pause(b) ELSE b, << >>) /\ UNCHANGED loan

DiscardFrames(c, frames) ==
    IF c.state \notin {"streaming", "streamingTx"} \/ c.curr = NoStream THEN frames
    ELSE ReceiveAll(c, <<[at |-> "discard", s |-> c.curr, discarded |-> FALSE]>> \o frames)

Discarding(c) ==
    IF c.state \notin {"streaming", "streamingTx"} \/ c.curr = NoStream THEN c
    ELSE [c EXCEPT !.streams[c.curr].discarding = TRUE]

(* discardStream: drop what was pulled and let the server drop the rest *)
DiscardStream == At("discard") /\
    LET s == Top.s
        over == b.err \/ b.streams[s].done # "no"
        c == Send(AppendDiscardAll(b, s))
    IN  /\ UNCHANGED loan
        /\ \/ over /\ Continue(b, << >>)
           \/ /\ ~over /\ b.streams[s].endOfBatch /\ Top.discarded
              /\ Continue(CheckStreams(Remove(b, s)), << >>)
           \/ /\ ~over /\ ~(b.streams[s].endOfBatch /\ Top.discarded)
              /\ Continue(c,
                          IF c.err THEN << >>
                          ELSE ReceiveAll(c, <<[Top EXCEPT !.discarded = TRUE]>>))

-----------------------------------------------------------------------------
(* Transactions *)

(* A loan serves one transaction or query, or a query that cuts another short *)
Usable == loan \in {"borrowed", "announced"} \/ (loan = "held" /\ b.state = "streaming")

TxBegin(option, sync) ==
    /\ Usable
    /\ sync \/ b.made < MaxStreams
    /\ LET frame == [at |-> "begin", sync |-> sync, supported |-> Supports(b.v, option)]
       IN  Start(b, IF b.state = "streaming" THEN BufferFrames(b, <<frame>>) ELSE <<frame>>)
    /\ loan' = "held"

TxBeginSend == At("begin") /\
    LET c == IF b.err THEN b ELSE ResetStreams(b)
        begun == EnqueuePlain(c, "begin")
        sent == Send(begun)
        open == [begun EXCEPT !.state = "tx", !.txId = TRUE]
    IN  \/ /\ ~AssertState(c, {"ready"}) \/ ~Top.supported
           /\ Continue(c, << >>) /\ UNCHANGED loan
        \/ /\ AssertState(c, {"ready"}) /\ Top.supported /\ Top.sync
           /\ Continue(sent, IF sent.err THEN << >>
                                      ELSE ReceiveAll(sent, <<[at |-> "begun"]>>))
           /\ UNCHANGED loan
        \/ /\ AssertState(c, {"ready"}) /\ Top.supported /\ ~Top.sync
           /\ Continue(open, << >>) /\ loan' = "pipelined"

TxBegun == At("begun") /\
    \/ b.err /\ Continue(b, << >>) /\ UNCHANGED loan
    \/ /\ ~b.err
       /\ Continue([b EXCEPT !.state = "tx", !.txId = TRUE], << >>)
       /\ loan' = "tx"

(* TxCommit and TxRollback: the streams of the transaction are discarded first *)
TxEnd(how) ==
    /\ loan \in {"tx", "single"} /\ b.txId
    /\ LET all == b.state \in {"streaming", "streamingTx"}
       IN  Start(Discarding(b), DiscardFrames(b, <<[at |-> "end", how |-> how, all |-> all]>>))
    /\ loan' = "held"

TxEndSend == At("end") /\
    LET c == IF Top.all THEN CheckStreams(ResetStreams(b)) ELSE b
        sent == Send(EnqueuePlain(c, Top.how))
    IN  /\ UNCHANGED loan
        /\ \/ ~AssertState(c, {"tx"}) /\ Continue(c, << >>)
           \/ /\ AssertState(c, {"tx"})
              /\ Continue(sent, IF sent.err THEN << >>
                                       ELSE ReceiveAll(sent, <<[at |-> "ended"]>>))

TxEnded ==
    /\ At("ended")
    /\ UNCHANGED loan
    /\ Continue(IF b.err THEN b ELSE [b EXCEPT !.state = "ready"], << >>)

-----------------------------------------------------------------------------
(* Queries *)

RunFrames(c, n, pack, frames) ==
    LET f == <<[at |-> "run", n |-> n, pack |-> pack]>> \o frames
    IN  CASE c.state = "streaming" -> BufferFrames(c, f)
          [] c.state = "streamingTx" -> PauseFrames(c, f)
          [] OTHER -> f

(* Run: the auto-commit query *)
Run(option, n, pack) ==
    /\ Usable /\ b.made < MaxStreams
    /\ Start(b, IF AssertState(b, {"streaming", "ready"}) /\ Supports(b.v, option)
                THEN RunFrames(b, n, pack, << >>) ELSE << >>)
    /\ loan' = "held"

(* RunTx: only ExecuteQuery leaves BEGIN unanswered, and it runs a single query *)
RunTx(n, pack) ==
    /\ loan \in {"tx", "pipelined"} /\ b.txId /\ b.made < MaxStreams
    /\ Start(b, RunFrames(b, n, pack, << >>))
    /\ loan' = IF loan = "pipelined" THEN "single" ELSE "tx"

(* What is left of a run whose parameters cannot be packed, version 6 apart *)
PackError(c) == Send(SetError(c, TRUE))

(* The connection with a new stream and its RUN in the queue *)
RunQueued ==
    LET s == b.made + 1
    IN  Enqueue([b EXCEPT !.made = s, !.streams[s] = [NewStream EXCEPT !.fetch = Top.n]],
                Request("run", s, 0, -1))

(* The rest of run: queue RUN and PULL, send, read the answer to RUN. unpacked is
   what is left when the parameters cannot be packed. *)
RunSend(unpacked) == At("run") /\
    LET s == b.made + 1
        sent == Send(Enqueue(RunQueued, Request("pull", s, Top.n, -1)))
    IN  /\ UNCHANGED loan
        /\ \/ ~AssertState(b, {"tx", "ready", "streamingTx"}) /\ Continue(b, << >>)
           \/ /\ AssertState(b, {"tx", "ready", "streamingTx"}) /\ Top.pack # "ok"
              /\ Continue(unpacked, << >>)
           \/ /\ AssertState(b, {"tx", "ready", "streamingTx"}) /\ Top.pack = "ok"
              /\ Continue(sent,
                          IF sent.err THEN << >>
                          ELSE <<[at |-> "receive"], [at |-> "attach", s |-> s]>>)

(* once: whether one response is read whatever it answers *)
RunReceive(once) == At("attach") /\
    LET streaming == [b EXCEPT !.streams[Top.s].given = TRUE,
                               !.state = CASE @ = "ready" -> "streaming"
                                           [] @ = "tx" -> "streamingTx"
                                           [] OTHER -> @]
    IN  /\ UNCHANGED loan
        /\ \/ b.err /\ Continue(b, << >>)
           \/ /\ ~b.err /\ (once \/ b.streams[Top.s].attached)
              /\ Continue(streaming, << >>)
           \/ /\ ~b.err /\ ~once /\ ~b.streams[Top.s].attached
              /\ Continue(b, <<[at |-> "receive"], Top>>)

-----------------------------------------------------------------------------
(* Results. Next trusts its handle: the caller has it from the query or the *)
(* transaction that is under way. Consume and Buffer check the handle.      *)

Next(s) ==
    /\ s \in b.live .. b.made /\ b.streams[s].given
    /\ Start(b, <<[at |-> "next", s |-> s, received |-> FALSE]>>)
    /\ UNCHANGED loan

NextStep ==
    LET s == Top.s
        fifo == b.streams[s].fifo
        batch == b.streams[s].endOfBatch
        pulled == Send(AppendPullN(b, s))
        c == IF batch THEN [pulled EXCEPT !.streams[s].endOfBatch = pulled.err] ELSE b
        failed == Top.received /\ b.err
        dry == fifo = << >> /\ b.streams[s].done = "no"
    IN  /\ ~Idle /\ Top.at = "next"
        /\ \/ /\ ~failed /\ fifo # << >>
              /\ b' = [b EXCEPT !.streams[s].fifo = Tail(@)]
              /\ seen' = [seen EXCEPT ![s] = Append(@, Head(fifo))]
              /\ stack' = Tail(stack)
           \/ /\ failed \/ (fifo = << >> /\ ~dry)
              /\ stack' = Tail(stack) /\ UNCHANGED <<b, seen>>
           \/ /\ ~failed /\ dry
              /\ b' = c /\ UNCHANGED seen
              /\ stack' = IF (batch /\ c.err) \/ c.handlers = << >> THEN Tail(stack)
                          ELSE <<[at |-> "receive"], [Top EXCEPT !.received = TRUE]>> \o Tail(stack)
        /\ UNCHANGED <<srv, net, loan>>

(* Consume and Buffer, how being "discard" or "buffer" *)
Exhaust(s, how) ==
    LET safe == b.streams[s].safe /\ AssertState(b, {"streaming", "streamingTx"})
    IN  /\ s \in 1 .. b.made /\ b.streams[s].given /\ b.streams[s].done = "no" /\ safe
        /\ Start(b, LET f == <<[at |-> "exhaust", s |-> s, how |-> how, switch |-> s # b.curr]>>
                    IN  IF s = b.curr THEN f ELSE PauseFrames(b, f))
        /\ UNCHANGED loan

ExhaustStep == At("exhaust") /\
    LET s == Top.s
        c == IF Top.switch THEN Send(AppendPullN(Resume(b, s), s)) ELSE b
    IN  /\ UNCHANGED loan
        /\ \/ Top.switch /\ b.err /\ Continue(b, << >>)
           \/ /\ ~(Top.switch /\ b.err) /\ Top.how = "discard"
              /\ Continue(Discarding(c), DiscardFrames(c, << >>))
           \/ /\ ~(Top.switch /\ b.err) /\ Top.how = "buffer"
              /\ Continue(c, BufferFrames(c, << >>))

-----------------------------------------------------------------------------
(* Life of the connection: connect, lend, reset, close *)

Connect(once) ==
    LET hello == EnqueuePlain(b, "hello")
        sent == Send(IF HasLogon(b.v) THEN EnqueuePlain(hello, "logon") ELSE hello)
        wait == <<[at |-> IF once THEN "receive" ELSE "receiveAll"], [at |-> "connected"]>>
    IN  /\ loan = "new" /\ AssertState(b, {"unauthorized"})
        /\ Start(sent, IF sent.err THEN << >> ELSE wait)
        /\ loan' = IF sent.err THEN "gone" ELSE "connecting"

Connected == At("connected") /\
    \/ b.err /\ Continue(b, << >>) /\ loan' = "gone"
    \/ /\ ~b.err
       /\ Continue(ResetStreams([b EXCEPT !.state = "ready"]), << >>)
       /\ loan' = "borrowed"

(* Mutant: the streams are not reset *)
ClearedKeepingStreams(c) == [c EXCEPT !.txId = FALSE, !.err = FALSE, !.lastQid = -1]

(* Deferred part of Reset *)
Cleared(c) == ResetStreams([c EXCEPT !.txId = FALSE, !.err = FALSE, !.lastQid = -1])

ForceResetFrames(c, frames) ==
    IF c.state = "dead" THEN frames
    ELSE ReceiveAll(c, <<[at |-> "forceReset"]>> \o frames)
ClearError(c) == IF c.state = "dead" THEN c ELSE [c EXCEPT !.err = FALSE]

(* ForceReset: what is pending is read first; a failure on the way ends it *)
ForceReset == At("forceReset") /\
    LET sent == Send(EnqueuePlain(b, "reset"))
    IN  /\ UNCHANGED loan
        /\ \/ b.err /\ Continue(b, << >>)
           \/ /\ ~b.err
              /\ Continue(sent, IF sent.err THEN << >> ELSE <<[at |-> "receive"]>>)

(* Mutant: a stream that is under way is taken for nothing to reset *)
ResetIfFailed ==
    /\ loan \in {"borrowed", "held", "tx", "single"}
    /\ IF b.state \in {"ready", "streaming"} THEN Start(b, <<[at |-> "cleared"]>>)
       ELSE Start(ClearError(b), ForceResetFrames(b, <<[at |-> "cleared"]>>))
    /\ loan' = "returning"

(* The pool's Return: Reset, and the connection is idle or, when dead, dropped *)
Reset ==
    /\ loan \in {"borrowed", "held", "tx", "single"}
    /\ IF b.state = "ready" THEN Start(b, <<[at |-> "cleared"]>>)
       ELSE Start(ClearError(b), ForceResetFrames(b, <<[at |-> "cleared"]>>))
    /\ loan' = "returning"

(* The results of the loan are out of use. They are forgotten, which bounds
   the model, unless a response that one of them waits for is still to come. *)
Returned(c) ==
    /\ stack' = Tail(stack) /\ UNCHANGED net
    /\ \/ /\ c.wire \o c.out = << >>
          /\ b' = [c EXCEPT !.made = 0, !.live = 1, !.streams = [s \in Streams |-> NewStream]]
          /\ srv' = [srv EXCEPT !.sent = [s \in Streams |-> 0], !.last = NoStream]
          /\ seen' = [s \in Streams |-> << >>]
       \/ /\ c.wire \o c.out # << >>
          /\ b' = [c EXCEPT !.live = c.made + 1] /\ UNCHANGED <<srv, seen>>
    /\ loan' = IF c.state = "dead" THEN "gone" ELSE "pooled"

ResetDone == At("cleared") /\ Returned(Cleared(b))

(* The pool's health check: ForceReset if the connection was idle for long, then ReAuth *)
Borrow(check) ==
    /\ loan = "pooled"
    /\ IF check THEN Start(ClearError(b), ForceResetFrames(b, <<[at |-> "reauth"]>>))
       ELSE Start(b, <<[at |-> "reauth"]>>)
    /\ loan' = "lending"

Lent == [at |-> "lent"]
Reauthed == [at |-> "reauthed"]

(* Mutant: LOGON goes before LOGOFF *)
ReAuthSwapped(changed, force) == At("reauth") /\
    LET c == Send(EnqueuePlain(EnqueuePlain(b, "logon"), "logoff"))
    IN  /\ UNCHANGED loan /\ HasLogon(b.v) /\ b.state # "dead" /\ Len(b.handlers) + 2 <= MaxQueued
        /\ Continue(c, IF force /\ ~c.err THEN ReceiveAll(c, <<Reauthed>>) ELSE <<Reauthed>>)

(* ReAuth where LOGON exists: changed is any of the reasons but force *)
ReAuth(changed, force) == At("reauth") /\
    LET c == Send(EnqueuePlain(EnqueuePlain(b, "logoff"), "logon"))
    IN  /\ UNCHANGED loan /\ HasLogon(b.v)
        /\ \/ ~(changed \/ force) /\ Continue(b, <<Lent>>)
           \/ /\ (changed \/ force) /\ b.state # "dead" /\ Len(b.handlers) + 2 <= MaxQueued
              /\ Continue(c, IF force /\ ~c.err THEN ReceiveAll(c, <<Reauthed>>) ELSE <<Reauthed>>)
           \/ b.state = "dead" /\ Continue(b, <<Lent>>)

(* ReAuth returns the error of the connection, and the pool closes it *)
ReAuthDone ==
    /\ At("reauthed")
    /\ UNCHANGED loan
    /\ Continue(IF b.err THEN [b EXCEPT !.state = "dead"] ELSE b, <<Lent>>)

(* Where it does not, other credentials need another connection *)
FallbackReAuth(changed) ==
    /\ At("reauth")
    /\ UNCHANGED loan /\ ~HasLogon(b.v)
    /\ Continue(IF changed THEN [b EXCEPT !.state = "dead"] ELSE b, <<Lent>>)

LendingDone ==
    /\ At("lent")
    /\ Continue(b, << >>)
    /\ loan' = IF b.state = "dead" THEN "gone" ELSE "borrowed"

Telemetry ==
    /\ loan = "borrowed" /\ HasTelemetry(b.v) /\ Len(b.handlers) < MaxQueued
    /\ Start(EnqueuePlain(b, "telemetry"), << >>)
    /\ loan' = "announced"

GetRoutingTable ==
    LET sent == Send(EnqueuePlain(b, "route"))
    IN  /\ loan = "borrowed" /\ AssertState(b, {"ready"})
        /\ Start(sent, IF sent.err THEN << >> ELSE ReceiveAll(sent, << >>))
        /\ loan' = "held"

(* Before ROUTE: a query for the table, of which two records are asked *)
CallGetRoutingTable ==
    /\ loan = "borrowed" /\ AssertState(b, {"ready"}) /\ b.made < MaxStreams
    /\ Start(b, RunFrames(b, All, "ok", <<[at |-> "table", left |-> 2]>>))
    /\ loan' = "held"

CallGetRoutingTableNext ==
    /\ At("table")
    /\ UNCHANGED loan
    /\ Continue(b,
                IF b.err \/ Top.left = 0 THEN << >>
                ELSE <<[at |-> "next", s |-> b.made, received |-> FALSE],
                       [Top EXCEPT !.left = @ - 1]>>)

(* The pool closes connections that are idle *)
Close ==
    /\ loan = "pooled"
    /\ Start([b EXCEPT !.state = "dead", !.wire = Append(@, Request("goodbye", NoStream, 0, -1))],
             << >>)
    /\ loan' = "gone"

Init ==
    /\ \E v \in Protocols :
         b = [v |-> v, state |-> "unauthorized", err |-> FALSE, txId |-> FALSE,
              curr |-> NoStream, num |-> 0, lastQid |-> -1, made |-> 0, live |-> 1,
              streams |-> [s \in Streams |-> NewStream],
              handlers |-> << >>, out |-> << >>, wire |-> << >>]
    /\ srv = [st |-> "new", open |-> {}, last |-> NoStream, byQid |-> << >>,
              sent |-> [s \in Streams |-> 0], refused |-> {}]
    /\ net = "up" /\ stack = << >> /\ loan = "new"
    /\ seen = [s \in Streams |-> << >>]
=============================================================================
