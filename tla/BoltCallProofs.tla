--------------------------- MODULE BoltCallProofs ---------------------------
(***************************************************************************)
(* That a call waits only for what was sent, and that results of earlier   *)
(* loans get nothing from later ones, needs more than the queue, of which  *)
(* BoltProofs speaks: what the connection is at in each of its states, at  *)
(* each place of a call and in each part of a loan. That is the inductive  *)
(* invariant StateInv of versions 4 to 6, of                               *)
(*   General   what holds at all times of errors, of handlers that earlier *)
(*             loans left and of the key of the open streams;              *)
(*   Waited    what is waited for was sent, and nothing is left unsent     *)
(*             while a result is open;                                     *)
(*   IsNew, AtConnect, AtReturn, InPool, AtLend                            *)
(*             the connection outside the hands of a session;              *)
(*   Used      the connection in use: unless it failed, Shape, which is    *)
(*             Standing, by its state, and a part for each frame of a call.*)
(* Here are the invariant and the calls of a session up to what they read; *)
(* BoltStateProofs has the rest and the theorems.                          *)
(***************************************************************************)
EXTENDS BoltProofs

\* What a call reads at the moment, and the frames below that.
Waits(k) == k # << >> /\ k[1].at \in {"receive", "receiveAll"}
Below(k) == IF Waits(k) THEN Tail(k) ELSE k
Read(k) == IF Waits(k) THEN k[1].at ELSE "no"
On(m, ats) == m # << >> /\ m[1].at \in ats

Down(c) == c.state \in {"failed", "dead"}
InTx(c) == c.state \in {"tx", "streamingTx"}
Over(c, s) == c.streams[s].done # "no"
\* The results that a caller may ask for more of.
Open(c) == {s \in c.live .. c.made : c.streams[s].given /\ ~Over(c, s)}
\* Every handler has its request on the wire.
Sent(c) == c.out = << >> /\ Len(c.handlers) <= Len(c.wire)
OfResult == {"run", "pull", "discard"}
Plains(hs) == \A i \in 1 .. Len(hs) : hs[i].s = 0
\* The current stream is the only one that waits for something.
Single(c) == c.handlers = << >> \/ (Len(c.handlers) = 1 /\ c.handlers[1].s = c.curr /\ c.curr # 0)

-----------------------------------------------------------------------------
(* The invariant: the connection c, in a call of the frames m that reads w *)
(* ("no" for nothing), in the part l of a loan, the server sv.             *)

\* The handlers that earlier loans left: they get nothing but IGNORED.
OldOnes(c, sv) ==
  \A i \in 1 .. Len(c.handlers) :
    c.handlers[i].s # 0 /\ c.handlers[i].s < c.live =>
      c.live > c.made /\ (c.state = "dead" \/ sv.st = "failed")
Kinds(c) == \A i \in 1 .. Len(c.handlers) : c.handlers[i].on \in OfResult <=> c.handlers[i].s # 0
Keyed(c) == /\ \A s \in Streams : c.streams[s].safe => s >= c.live
            /\ c.curr # 0 => c.curr >= c.live
General(c, w, sv) ==
  /\ c.err => Down(c)
  /\ sv.st = "failed" => Down(c)
  /\ c.state = "failed" => sv.st = "failed" \/ Plains(c.handlers)
  /\ Kinds(c) /\ OldOnes(c, sv) /\ Keyed(c)
  /\ w # "no" /\ c.state = "dead" => c.live <= c.made
Waited(c, w) ==
  /\ Open(c) # {} => Sent(c)
  /\ w # "no" => c.state = "failed" \/ (c.handlers # << >> /\ Sent(c))

\* Before a session has the connection, and after.
Rested(c) == c.state = "ready" =>
  Plains(c.handlers) /\ c.out = << >> /\ (c.v.major = 4 => c.handlers = << >>)
IsNew(c) ==
  c.state = "unauthorized" /\ ~c.err /\ c.curr = 0 /\ c.handlers = << >> /\ c.out = << >> /\ c.wire = << >>
AtConnect(c, w) ==
  /\ c.curr = 0 /\ Plains(c.handlers)
  /\ w # "no" => c.state = "unauthorized" /\ ~c.err /\ c.out = << >>
  /\ w = "receive" => Len(c.handlers) = 1
  /\ w = "no" => c.err \/ (c.state = "unauthorized" /\ c.handlers = << >> /\ c.out = << >>)
Resetting(c, m, w) ==
  /\ w = "receive" => Len(c.handlers) = 1 /\ c.handlers[1].on = "reset" /\ c.out = << >> /\ ~c.err
  /\ w # "no" => c.state # "dead"
  /\ On(m, {"forceReset"}) => (c.state = "dead" => c.err)
AtReturn(c, m, w) ==
  /\ Resetting(c, m, w)
  /\ w = "no" /\ On(m, {"cleared"}) => c.state \in {"ready", "failed", "dead"} /\ Rested(c)
AtLend(c, m, w) ==
  /\ Resetting(c, m, w) /\ c.curr = 0 /\ c.state \in {"ready", "failed", "dead"}
  /\ c.state = "ready" => Plains(c.handlers)
  /\ w # "receive" /\ ~On(m, {"forceReset"}) => Rested(c)
InPool(c) == c.curr = 0 /\ c.state \in {"ready", "failed"} /\ ~c.err /\ Rested(c)

\* In use, by state.
Standing(c, m, w, l) ==
  /\ c.state \in {"ready", "streaming"} => l \in {"borrowed", "announced", "held"}
  /\ InTx(c) => \/ l \in {"tx", "single", "pipelined"}
                \/ l = "held" /\ (On(m, {"end", "ended"}) \/ (On(m, {"discard"}) /\ Len(m) = 2))
  /\ c.state # "unauthorized"
  /\ l = "pipelined" => Open(c) = {} /\ c.state = "tx" /\ w = "no" /\ (m = << >> \/ On(m, {"next"}))
  /\ c.out # << >> =>
       Open(c) = {} /\ w = "no" /\ (l \in {"announced", "pipelined"} \/ On(m, {"begin", "run"}))
  /\ c.state = "ready" /\ ~On(m, {"attach"}) =>
       Plains(c.handlers) /\ (c.v.major = 4 /\ w # "receiveAll" => c.handlers = << >>)
  /\ c.state = "streaming" =>
       /\ c.out = << >> /\ Open(c) \subseteq {c.curr} /\ Single(c)
       /\ ~On(m, {"buffer", "discard"}) /\ c.curr # 0 /\ c.streams[c.curr].endOfBatch => c.handlers = << >>

\* In use, by the frame that goes on when w was read.
AtBegin(c, m, w, l) ==
  /\ w = "no" /\ l = "held" /\ Len(m) = 1 /\ c.state \in {"ready", "streaming"} /\ Open(c) = {}
  /\ c.state = "streaming" => c.handlers = << >>
  /\ c.out # << >> => m[1].supported
AtBegun(c, m, w, l) ==
  l = "held" /\ Len(m) = 1 /\ c.state = "ready" /\ w # "receive" /\ (w = "no" => c.handlers = << >>)
Drains(c, s, w) ==
  /\ w = "no" => c.handlers = << >>
  /\ c.curr = s \/ Over(c, s)
  /\ c.state = "ready" => c.curr = 0 /\ Over(c, s)
AtBuffer(c, m, w, l) ==
  /\ w # "receive" /\ (Len(m) = 1 \/ (Len(m) = 2 /\ m[2].at \in {"begin", "run"} /\ ~InTx(c)))
  /\ ~InTx(c) => l = "held" /\ Drains(c, m[1].s, w) /\ Open(c) \subseteq {m[1].s}
AtPause(c, m, w, l) ==
  /\ w # "receive" /\ InTx(c) /\ Len(m) = 2 /\ l \in {"tx", "single"}
  /\ m[2].at = "run" \/ (m[2].at = "exhaust" /\ m[2].switch)
AtDiscard(c, m, w, l) ==
  /\ w # "receive"
  /\ InTx(c) => Len(m) = 1 \/ (Len(m) = 2 /\ m[2].at = "end" /\ m[2].all /\ l = "held")
  /\ ~InTx(c) => /\ l = "held" /\ Len(m) = 1 /\ Drains(c, m[1].s, w)
                 /\ m[1].discarded /\ ~Over(c, m[1].s) =>
                      Len(c.handlers) = 1 /\ c.handlers[1].on = "discard"
AtEnd(c, m, w, l) == w = "no" /\ l = "held" /\ Len(m) = 1 /\ InTx(c) /\ (m[1].all \/ c.state = "tx")
AtEnded(c, m, w, l) ==
  w # "receive" /\ l = "held" /\ Len(m) = 1 /\ InTx(c) /\ (w = "no" => c.handlers = << >>)
AtRunFrame(c, m, w, l) ==
  /\ w = "no"
  /\ InTx(c) => Len(m) = 1 /\ l \in {"tx", "single"}
  /\ ~InTx(c) =>
       /\ l = "held" /\ Open(c) = {}
       /\ Len(m) = 1 \/ (Len(m) = 2 /\ m[2].at = "table" /\ c.state = "ready")
       /\ c.state = "ready" => c.curr = 0 /\ (c.v.major = 4 => c.handlers = << >>)
       /\ c.state = "streaming" => c.handlers = << >>
\* RUN and PULL of s are under way, or RUN was answered.
Unanswered(c, s, w) ==
  /\ c.curr = 0 /\ ~c.streams[s].attached /\ Len(c.handlers) >= 2
  /\ c.handlers[Len(c.handlers) - 1] = [on |-> "run", s |-> s]
  /\ c.handlers[Len(c.handlers)] = [on |-> "pull", s |-> s]
  /\ \A i \in 1 .. Len(c.handlers) - 2 : c.handlers[i].s = 0
  /\ c.v.major = 4 => w = "receive" /\ Len(c.handlers) = 2
Attached(c, s, w) ==
  /\ w = "no" /\ c.curr = s /\ c.streams[s].attached
  /\ Len(c.handlers) = 1 /\ c.handlers[1] = [on |-> "pull", s |-> s]
Attaching(c, s, w) ==
  Open(c) = {} /\ ~c.streams[s].endOfBatch /\ (Unanswered(c, s, w) \/ Attached(c, s, w))
AttachingTx(c, s) ==
  \/ c.v.major = 4 \/ c.streams[s].attached
  \/ \E i \in 1 .. Len(c.handlers) : c.handlers[i] = [on |-> "run", s |-> s]
AtAttach(c, m, w, l) ==
  /\ w # "receiveAll" /\ m[1].s = c.made /\ c.made >= c.live
  /\ InTx(c) => Len(m) = 1 /\ AttachingTx(c, c.made) /\ l \in {"tx", "single"}
  /\ ~InTx(c) => /\ c.state = "ready" /\ l = "held" /\ Attaching(c, c.made, w)
                 /\ Len(m) = 1 \/ (Len(m) = 2 /\ m[2].at = "table")
HasTable(c, l) == l = "held" /\ ~InTx(c) /\ c.made >= c.live /\ c.streams[c.made].given
AtNext(c, m, w, l) ==
  w # "receiveAll" /\ (Len(m) = 1 \/ (Len(m) = 2 /\ m[2].at = "table" /\ HasTable(c, l)))
AtTable(c, m, w, l) == Len(m) = 1 /\ w = "no" /\ HasTable(c, l)
AtExhaust(c, m, w, l) ==
  /\ w = "no" /\ Len(m) = 1
  /\ m[1].switch => InTx(c)
  /\ ~m[1].switch => m[1].s = c.curr /\ c.state \in {"streaming", "streamingTx"}

CallFrames == {"begin", "begun", "buffer", "pause", "discard", "end", "ended", "run", "attach", "next",
               "table", "exhaust"}
Placed(c, m, w, l) ==
  /\ m[1].at \in CallFrames
  /\ m[1].at = "begin" => AtBegin(c, m, w, l)
  /\ m[1].at = "begun" => AtBegun(c, m, w, l)
  /\ m[1].at = "buffer" => AtBuffer(c, m, w, l)
  /\ m[1].at = "pause" => AtPause(c, m, w, l)
  /\ m[1].at = "discard" => AtDiscard(c, m, w, l)
  /\ m[1].at = "end" => AtEnd(c, m, w, l)
  /\ m[1].at = "ended" => AtEnded(c, m, w, l)
  /\ m[1].at = "run" => AtRunFrame(c, m, w, l)
  /\ m[1].at = "attach" => AtAttach(c, m, w, l)
  /\ m[1].at = "next" => AtNext(c, m, w, l)
  /\ m[1].at = "table" => AtTable(c, m, w, l)
  /\ m[1].at = "exhaust" => AtExhaust(c, m, w, l)
Shape(c, m, w, l) ==
  /\ Standing(c, m, w, l)
  /\ m = << >> => w # "receive" /\ (w = "receiveAll" => l = "held" /\ c.state = "ready")
  /\ m # << >> => Placed(c, m, w, l)

\* Frames of a call, in any state.
OnResult == {"buffer", "pause", "discard", "attach", "next", "exhaust"}
FrameOK(c, f, top) ==
  /\ f.at \notin {"receive", "receiveAll", "success3", "record3", "reset3"}
  /\ f.at \in OnResult => f.s \in c.live .. c.made
  /\ f.at = "next" => c.streams[f.s].given
  /\ f.at = "exhaust" /\ ~f.switch => top /\ ~Down(c)
FramesOK(c, m, w) == \A i \in 1 .. Len(m) : FrameOK(c, m[i], i = 1 /\ w = "no")
\* A connection that was lent although it failed is of no use.
LentFailed(c, m, w, l) ==
  /\ c.live > c.made /\ l \in {"borrowed", "announced", "held"} /\ w = "no"
  /\ m = << >> \/ (Len(m) = 1 /\ m[1].at = "begin")
JustLent(c, m, w) ==
  /\ m = << >> /\ w = "no" /\ c.live > c.made /\ c.state \in {"ready", "failed"} /\ c.curr = 0
  /\ c.state = "ready" /\ c.v.major = 4 => c.handlers = << >>
Used(c, m, w, l) ==
  /\ FramesOK(c, m, w)
  /\ Down(c) /\ ~c.err => LentFailed(c, m, w, l)
  /\ l \in {"borrowed", "announced"} => JustLent(c, m, w)
  /\ l = "announced" => HasTelemetry(c.v)
  /\ l = "pipelined" => ~Down(c)
  /\ ~Down(c) => Shape(c, m, w, l)

Conforms(c, m, w, l, sv, n) ==
  /\ General(c, w, sv)
  /\ n = "up" => Waited(c, w)
  /\ l = "new" => IsNew(c)
  /\ l = "connecting" => AtConnect(c, w)
  /\ l = "returning" => AtReturn(c, m, w)
  /\ l = "pooled" => InPool(c)
  /\ l = "lending" => AtLend(c, m, w)
  /\ l \in Use => Used(c, m, w, l)
  /\ l \notin Use => ~On(m, {"success3", "record3", "reset3"})
StateInv == b.v.major > 3 /\ loan # "gone" => Conforms(b, Below(stack), Read(stack), loan, srv, net)

-----------------------------------------------------------------------------
(* Stacks.                                                                 *)

\* A sequence without its first element, and with one or two in front.
LEMMA Popped ==
  ASSUME NEW S, NEW m \in Seq(S), m # << >>
  PROVE  /\ Len(m) \in Nat \ {0} /\ Head(m) = m[1] /\ Tail(m) \in Seq(S) /\ Len(Tail(m)) = Len(m) - 1
         /\ \A i \in 1 .. Len(Tail(m)) : Tail(m)[i] = m[i + 1] /\ i + 1 \in 2 .. Len(m)
         /\ Len(m) = 1 => Tail(m) = << >>
<1>1. Len(m) \in Nat \ {0} /\ Head(m) = m[1] /\ Tail(m) \in Seq(S) /\ Len(Tail(m)) = Len(m) - 1
      /\ \A i \in 1 .. Len(Tail(m)) : Tail(m)[i] = m[i + 1]
  BY HeadTailProperties, EmptySeq
<1> QED
  BY <1>1, EmptySeq

\* Something to read on top of frames.
LEMMA Pushed ==
  ASSUME NEW S, NEW f, NEW q \in Seq(S)
  PROVE  /\ <<f>> \o q # << >> /\ (<<f>> \o q)[1] = f /\ Tail(<<f>> \o q) = q
         /\ Len(<<f>> \o q) = Len(q) + 1 /\ \A i \in 1 .. Len(q) : (<<f>> \o q)[i + 1] = q[i]
<1> DEFINE T == S \cup {f}
           p == <<f>>
           r == p \o q
<1>1. p \in Seq(T) /\ q \in Seq(T) /\ Len(p) = 1 /\ p[1] = f /\ p # << >>
  <2>1. q \in Seq(T)
    BY SeqMono
  <2> QED
    BY <2>1
<1>2. Len(q) \in Nat
  BY LenProperties
<1>3. r \in Seq(T) /\ Len(r) = 1 + Len(q) /\ r[1] = f /\ \A i \in 1 .. Len(q) : r[i + 1] = q[i]
  <2>1. r \in Seq(T) /\ Len(r) = Len(p) + Len(q)
        /\ \A i \in 1 .. Len(p) + Len(q) : r[i] = IF i <= Len(p) THEN p[i] ELSE q[i - Len(p)]
    BY <1>1, ConcatProperties
  <2> HIDE DEF r, p
  <2> QED
    BY <1>1, <1>2, <2>1
<1>4. Tail(r) = q
  <2>1. Tail(r) = Tail(p) \o q
    BY <1>1, ConcatHeadTail
  <2>2. Tail(p) = << >>
    BY ShortStack
  <2> QED
    BY <1>1, <2>1, <2>2, ConcatEmptySeq
<1>5. r # << >>
  BY <1>1, ConcatHeadTail
<1> HIDE DEF r
<1> QED
  BY <1>2, <1>3, <1>4, <1>5 DEF r

\* Nothing is read: the frames are the stack.
LEMMA NothingRead ==
  ASSUME NEW m, m # << >> => m[1].at \notin {"receive", "receiveAll"}
  PROVE  Below(m) = m /\ Read(m) = "no"
  BY DEF Below, Read, Waits

\* Something is read.
LEMMA SomethingRead ==
  ASSUME NEW S, NEW q \in Seq(S), NEW w \in {"receive", "receiveAll"}
  PROVE  LET r == <<[at |-> w]>> \o q
         IN  Below(r) = q /\ Read(r) = w
<1> DEFINE f == [at |-> w]
           r == <<f>> \o q
<1>1. r # << >> /\ r[1] = f /\ Tail(r) = q
  BY Pushed
<1>2. f.at = w
  OBVIOUS
<1> HIDE DEF r, f
<1> QED
  BY <1>1, <1>2 DEF Below, Read, Waits, r, f

\* receiveAll reads if there is something to come.
LEMMA ReceiveAllReads ==
  ASSUME NEW S, NEW q \in Seq(S), NEW c, q # << >> => q[1].at \notin {"receive", "receiveAll"}
  PROVE  LET r == ReceiveAll(c, q)
         IN  /\ Below(r) = q /\ Read(r) = IF c.handlers = << >> THEN "no" ELSE "receiveAll"
<1>1. CASE c.handlers = << >>
  <2>1. ReceiveAll(c, q) = q
    BY <1>1 DEF ReceiveAll
  <2> QED
    BY <1>1, <2>1, NothingRead
<1>2. CASE c.handlers # << >>
  <2>1. ReceiveAll(c, q) = <<[at |-> "receiveAll"]>> \o q
    BY <1>2 DEF ReceiveAll
  <2> QED
    BY <1>2, <2>1, SomethingRead
<1> QED
  BY <1>1, <1>2

-----------------------------------------------------------------------------
(* What the transformers of the connection do to results and handlers.     *)

\* A handler for a request of this loan.
NewHandler(h, c) == IF h.on \in OfResult THEN h.s # 0 /\ h.s >= c.live ELSE h.s = 0

\* Results of earlier loans keep what they have, but for an error.
StaysPut(c, d, s) ==
  s < c.live => d.streams[s].fifo = c.streams[s].fifo /\ d.streams[s].done \in {c.streams[s].done, "err"}

TameStream(c, d, s) ==
  /\ d.streams[s].safe => c.streams[s].safe \/ s >= c.live
  /\ StaysPut(c, d, s)
  /\ d.streams[s].given => c.streams[s].given
  /\ s <= c.made => d.streams[s].given = c.streams[s].given /\ (Over(c, s) => Over(d, s))
\* d comes from c without harm to results of earlier loans.
Tame(c, d) ==
  /\ d.v = c.v /\ d.live = c.live /\ c.made <= d.made
  /\ \A s \in Streams : TameStream(c, d, s)
  /\ d.curr \in {0, c.curr} \/ d.curr >= c.live
  /\ \A i \in 1 .. Len(d.handlers) :
       (\E j \in 1 .. Len(c.handlers) : d.handlers[i] = c.handlers[j]) \/ NewHandler(d.handlers[i], c)

\* Tame can be chained.
LEMMA TameTrans ==
  ASSUME NEW c, NEW d, NEW e, Conn(c), Conn(d), Conn(e), Tame(c, d), Tame(d, e)
  PROVE  Tame(c, e)
<1>1. c.made \in Int /\ d.made \in Int /\ e.made \in Int /\ c.made <= d.made /\ d.live = c.live /\ d.v = c.v
      /\ c.made <= e.made /\ e.live = c.live /\ e.v = c.v
  BY DEF Conn, Tame
<1>2. ASSUME NEW s \in Streams
      PROVE  TameStream(c, e, s)
  <2>1. TameStream(c, d, s) /\ TameStream(d, e, s) /\ s \in Int
    BY StreamsAreCounted DEF Tame, Streams
  <2> QED
    BY <1>1, <2>1 DEF TameStream, StaysPut, Over
<1>3. e.curr \in {0, c.curr} \/ e.curr >= c.live
  BY <1>1 DEF Tame
<1>4. ASSUME NEW i \in 1 .. Len(e.handlers)
      PROVE  (\E j \in 1 .. Len(c.handlers) : e.handlers[i] = c.handlers[j]) \/ NewHandler(e.handlers[i], c)
  BY <1>1, <1>4 DEF Tame, NewHandler
<1> QED
  BY <1>1, <1>2, <1>3, <1>4 DEF Tame

\* No result is touched.
LEMMA TameSame ==
  ASSUME NEW c, NEW d, Conn(c), d.v = c.v, d.live = c.live, d.made = c.made, d.streams = c.streams,
         d.curr \in {0, c.curr} \/ d.curr >= c.live, d.handlers = c.handlers
  PROVE  Tame(c, d)
<1>1. c.made \in Int
  BY DEF Conn
<1> QED
  BY <1>1 DEF Tame, TameStream, StaysPut, Over

\* One result is touched.
LEMMA TameOne ==
  ASSUME NEW c, NEW d, Conn(c), NEW s, NEW q,
         d.v = c.v, d.live = c.live, d.made = c.made, d.streams = [c.streams EXCEPT ![s] = q],
         d.curr \in {0, c.curr} \/ d.curr >= c.live, d.handlers = c.handlers,
         s \in Streams =>
           /\ q.safe => c.streams[s].safe \/ s >= c.live
           /\ s < c.live => q.fifo = c.streams[s].fifo /\ q.done \in {c.streams[s].done, "err"}
           /\ q.given = c.streams[s].given /\ (c.streams[s].done # "no" => q.done # "no")
  PROVE  Tame(c, d)
<1>1. c.made \in Int /\ DOMAIN c.streams = Streams
  BY DEF Conn
<1>2. \A r \in Streams : r # s => d.streams[r] = c.streams[r]
  BY <1>1
<1>3. s \in Streams => d.streams[s] = q
  BY <1>1
<1>4. \A r \in Streams : TameStream(c, d, r)
  BY <1>2, <1>3 DEF TameStream, StaysPut, Over
<1> QED
  BY <1>1, <1>4 DEF Tame

\* checkStreams: no harm.
LEMMA CheckStreamsTame ==
  ASSUME NEW c, Conn(c)
  PROVE  LET d == CheckStreams(c)
         IN  /\ Tame(c, d) /\ d.handlers = c.handlers /\ d.out = c.out /\ d.wire = c.wire /\ d.made = c.made
             /\ d.curr = c.curr /\ d.streams = c.streams /\ d.err = c.err
             /\ d.state = c.state \/ (c.state = "streaming" /\ d.state = "ready")
                \/ (c.state = "streamingTx" /\ d.state = "tx")
<1> DEFINE d == CheckStreams(c)
<1>1. d.v = c.v /\ d.live = c.live /\ d.handlers = c.handlers /\ d.out = c.out /\ d.wire = c.wire /\ d.made = c.made
      /\ d.curr = c.curr /\ d.streams = c.streams /\ d.err = c.err
      /\ (d.state = c.state \/ (c.state = "streaming" /\ d.state = "ready")
            \/ (c.state = "streamingTx" /\ d.state = "tx"))
  BY DEF CheckStreams, Conn, ConnFields
<1> HIDE DEF d
<1>2. Tame(c, d)
  BY <1>1, TameSame
<1> QED
  BY <1>1, <1>2 DEF d

\* The end of a result.
LEMMA FinishTame ==
  ASSUME NEW c, Conn(c), NEW s \in 0 .. c.made, NEW how \in {"sum", "err"}, how = "err" \/ s >= c.live
  PROVE  LET d == Finish(c, s, how)
         IN  /\ Tame(c, d) /\ Conn(d)
             /\ d.handlers = c.handlers /\ d.out = c.out /\ d.wire = c.wire /\ d.made = c.made
             /\ d.curr = IF c.curr = s THEN 0 ELSE c.curr
             /\ s # 0 => Over(d, s)
             /\ d.err = c.err
             /\ \A r \in Streams : /\ d.streams[r].attached = c.streams[r].attached
                                   /\ d.streams[r].endOfBatch = c.streams[r].endOfBatch
             /\ d.state = c.state \/ (c.state = "streaming" /\ d.state = "ready")
                \/ (c.state = "streamingTx" /\ d.state = "tx")
<1> DEFINE q == [c.streams[s] EXCEPT !.done = how]
           d1 == [c EXCEPT !.streams[s].done = how]
           d2 == Remove(d1, s)
           d == CheckStreams(d2)
           p == [q EXCEPT !.safe = FALSE]
<1>0. Finish(c, s, how) = d
  BY DEF Finish
<1>1. Conn(d1)
  BY DoneSame
<1>2. DOMAIN d1 = ConnFields /\ d1.v = c.v /\ d1.live = c.live /\ d1.made = c.made /\ d1.curr = c.curr
      /\ d1.handlers = c.handlers /\ d1.out = c.out /\ d1.wire = c.wire /\ d1.err = c.err /\ d1.state = c.state
      /\ d1.streams = [c.streams EXCEPT ![s] = q]
  BY DEF Conn, ConnFields
<1>3. Conn(d2)
  <2> HIDE DEF d1
  <2> QED
    BY <1>1, RemoveSame
<1>4. d2.v = c.v /\ d2.live = c.live /\ d2.made = c.made /\ d2.curr = (IF c.curr = s THEN 0 ELSE c.curr)
      /\ d2.handlers = c.handlers /\ d2.out = c.out /\ d2.wire = c.wire /\ d2.err = c.err /\ d2.state = c.state
      /\ d2.streams = [d1.streams EXCEPT ![s].safe = FALSE]
  <2> HIDE DEF d1
  <2> QED
    BY <1>2 DEF Remove, ConnFields, NoStream
<1> HIDE DEF d1, d2
<1>5. DOMAIN c.streams = Streams /\ (s # 0 => s \in Streams)
  BY StreamsAreCounted DEF Conn, Streams
<1>6. d2.streams = [c.streams EXCEPT ![s] = p]
  BY <1>2, <1>4, <1>5
<1>7. s \in Streams => /\ StreamOK(c.streams[s])
                       /\ p.safe = FALSE /\ p.done = how /\ p.fifo = c.streams[s].fifo
                       /\ p.given = c.streams[s].given /\ p.attached = c.streams[s].attached
                       /\ p.endOfBatch = c.streams[s].endOfBatch
  BY DEF Conn, StreamOK, StreamFields
<1> HIDE DEF p, q
<1>8. Tame(c, d2)
  <2>1. s \in Streams => ~(s < c.live) \/ how = "err"
    BY StreamsAreCounted DEF Conn, Streams
  <2> QED
    BY <1>4, <1>6, <1>7, <2>1, TameOne
<1>9. Conn(d)
  BY <1>3, CheckStreamsSame
<1>10. Tame(c, d)
  BY <1>3, <1>8, <1>9, CheckStreamsTame, TameTrans
<1>11. d.handlers = d2.handlers /\ d.out = d2.out /\ d.wire = d2.wire /\ d.made = d2.made
             /\ d.curr = d2.curr /\ d.streams = d2.streams /\ d.err = d2.err
             /\ (d.state = d2.state \/ (d2.state = "streaming" /\ d.state = "ready")
                \/ (d2.state = "streamingTx" /\ d.state = "tx"))
  BY <1>3, CheckStreamsTame
<1> HIDE DEF d
<1>12. s # 0 => Over(d, s)
  BY <1>5, <1>6, <1>7, <1>11 DEF Over
<1>13. \A r \in Streams : /\ d.streams[r].attached = c.streams[r].attached
                          /\ d.streams[r].endOfBatch = c.streams[r].endOfBatch
  BY <1>5, <1>6, <1>7, <1>11
<1> QED
  BY <1>0, <1>4, <1>9, <1>10, <1>11, <1>12, <1>13

\* An error reaches the current result, of whatever loan.
LEMMA SetErrorTame ==
  ASSUME NEW c, Conn(c), NEW fatal \in BOOLEAN
  PROVE  LET d == SetError(c, fatal)
         IN  /\ Tame(c, d) /\ Conn(d) /\ d.err /\ d.curr = 0 /\ d.made = c.made /\ d.live = c.live
             /\ d.handlers = c.handlers /\ d.out = c.out /\ d.wire = c.wire
             /\ fatal => d.state = "dead"
             /\ ~fatal /\ ~c.err => d.state = "failed"
             /\ ~fatal /\ c.err /\ Down(c) => d.state = c.state
<1> DEFINE e == [c EXCEPT !.err = TRUE,
                       !.state = IF fatal THEN "dead" ELSE IF c.err THEN @ ELSE "failed"]
           f == Finish(e, e.curr, "err")
           d == SetError(c, fatal)
<1>0. d = IF e.curr = NoStream THEN e ELSE f
  BY DEF SetError
<1>1. DOMAIN e = ConnFields /\ e.err = TRUE /\ SameQueue(c, e) /\ e.curr = c.curr /\ e.txId = c.txId
      /\ e.streams = c.streams /\ e.state \in States
      /\ (fatal => e.state = "dead") /\ (~fatal /\ ~c.err => e.state = "failed")
      /\ (~fatal /\ c.err /\ Down(c) => e.state = c.state /\ e.state \in {"failed", "dead"})
  BY DEF Conn, ConnFields, SameQueue, States, Down
<1> HIDE DEF e
<1>2. Conn(e)
  <2>1. c.curr \in 0 .. c.made /\ c.txId \in BOOLEAN /\ DOMAIN c.streams = Streams
        /\ \A s \in Streams : StreamOK(c.streams[s])
    BY DEF Conn
  <2> QED
    BY <1>1, <2>1, SameConn
<1>3. Tame(c, e)
  BY <1>1, TameSame DEF SameQueue
<1>4. e.curr \in 0 .. e.made
  BY <1>2 DEF Conn
<1>5. /\ Tame(e, f) /\ Conn(f) /\ f.err = e.err /\ f.curr = 0 /\ f.made = e.made
      /\ f.handlers = e.handlers /\ f.out = e.out /\ f.wire = e.wire
      /\ (f.state = e.state \/ e.state \in {"streaming", "streamingTx"})
  BY <1>2, <1>4, FinishTame
<1> HIDE DEF f, d
<1>6. Tame(c, f) /\ f.live = c.live
  BY <1>1, <1>2, <1>3, <1>5, TameTrans DEF Tame
<1> QED
  BY <1>0, <1>1, <1>2, <1>3, <1>5, <1>6 DEF d, NoStream, SameQueue

\* A new key.
LEMMA ResetStreamsTame ==
  ASSUME NEW c, Conn(c)
  PROVE  LET d == ResetStreams(c)
         IN  /\ Tame(c, d) /\ Conn(d) /\ d.err = c.err /\ d.state = c.state /\ d.curr = 0 /\ d.made = c.made
             /\ d.handlers = c.handlers /\ d.out = c.out /\ d.wire = c.wire
             /\ \A s \in Streams : ~d.streams[s].safe
<1> DEFINE d == ResetStreams(c)
<1>1. Conn(d) /\ SameQueue(c, d) /\ d.err = c.err /\ d.state = c.state /\ d.curr = 0
  BY ResetStreamsKeeps DEF NoStream
<1>2. d.streams = [s \in Streams |-> [c.streams[s] EXCEPT !.safe = FALSE]]
  BY DEF ResetStreams, Conn, ConnFields
<1>3. \A s \in Streams : /\ d.streams[s].safe = FALSE /\ d.streams[s].fifo = c.streams[s].fifo
                         /\ d.streams[s].done = c.streams[s].done /\ d.streams[s].given = c.streams[s].given
  <2>1. \A s \in Streams : DOMAIN c.streams[s] = StreamFields
    BY DEF Conn, StreamOK
  <2> HIDE DEF d
  <2> QED
    BY <1>2, <2>1 DEF StreamFields
<1> HIDE DEF d
<1>4. \A s \in Streams : TameStream(c, d, s)
  BY <1>3 DEF TameStream, StaysPut, Over
<1>5. c.made \in Int
  BY DEF Conn
<1>6. Tame(c, d)
  BY <1>1, <1>4, <1>5 DEF Tame, SameQueue
<1> QED
  BY <1>1, <1>3, <1>6 DEF d, SameQueue

\* A request of this loan is queued.
LEMMA EnqueueTame ==
  ASSUME NEW c, Conn(c), NEW r \in Requests, r.s <= c.made, c.v.major # 3,
         NewHandler([on |-> r.m, s |-> r.s], c)
  PROVE  LET d == Enqueue(c, r)
         IN  /\ Tame(c, d) /\ Conn(d) /\ d.err = c.err /\ d.state = c.state /\ d.curr = c.curr
             /\ d.made = c.made /\ d.live = c.live /\ d.v = c.v /\ d.streams = c.streams /\ d.wire = c.wire
             /\ d.handlers = Append(c.handlers, [on |-> r.m, s |-> r.s]) /\ d.handlers # << >>
             /\ d.out = Append(c.out, r)
<1> DEFINE d == Enqueue(c, r)
           h == [on |-> r.m, s |-> r.s]
<1>1. /\ Conn(d) /\ d.v = c.v /\ d.live = c.live /\ d.state = c.state /\ d.err = c.err
      /\ d.made = c.made /\ d.curr = c.curr /\ d.streams = c.streams /\ d.handlers # << >>
  BY EnqueueKeeps
<1>2. d.wire = c.wire /\ d.handlers = Append(c.handlers, h) /\ d.out = Append(c.out, r)
  BY DEF Enqueue, Conn, ConnFields
<1>3. c.handlers \in Seq(Handlers) /\ c.made \in Int
  BY DEF Conn
<1>30. h \in Handlers
  BY DEF Handlers, Requests
<1> HIDE DEF d, h
<1>4. /\ Len(d.handlers) = Len(c.handlers) + 1 /\ Len(c.handlers) \in Nat
      /\ \A i \in 1 .. Len(c.handlers) : d.handlers[i] = c.handlers[i]
      /\ d.handlers[Len(c.handlers) + 1] = h
  BY <1>2, <1>3, <1>30, AppendProperties, LenProperties
<1>5. ASSUME NEW i \in 1 .. Len(d.handlers)
      PROVE  (\E j \in 1 .. Len(c.handlers) : d.handlers[i] = c.handlers[j]) \/ NewHandler(d.handlers[i], c)
  <2>1. CASE i = Len(c.handlers) + 1
    BY <1>4, <2>1 DEF h
  <2>2. CASE i # Len(c.handlers) + 1
    <3>1. i \in 1 .. Len(c.handlers)
      BY <1>4, <2>2
    <3> QED
      BY <1>4, <3>1
  <2> QED
    BY <2>1, <2>2
<1>6. \A s \in Streams : TameStream(c, d, s)
  BY <1>1 DEF TameStream, StaysPut, Over
<1>7. Tame(c, d)
  BY <1>1, <1>3, <1>5, <1>6 DEF Tame
<1> QED
  BY <1>1, <1>2, <1>7 DEF d, h

\* A request without a result.
LEMMA EnqueuePlainTame ==
  ASSUME NEW c, Conn(c), NEW m \in Messages, m \notin OfResult, c.v.major # 3
  PROVE  LET d == EnqueuePlain(c, m)
         IN  /\ Tame(c, d) /\ Conn(d) /\ d.err = c.err /\ d.state = c.state /\ d.curr = c.curr
             /\ d.made = c.made /\ d.live = c.live /\ d.v = c.v /\ d.streams = c.streams /\ d.wire = c.wire
             /\ d.handlers = Append(c.handlers, [on |-> m, s |-> 0]) /\ d.handlers # << >>
             /\ d.out = Append(c.out, Request(m, NoStream, 0, -1))
<1> DEFINE r == Request(m, NoStream, 0, -1)
<1>1. r \in Requests /\ r.m = m /\ r.s = 0
  BY StreamsAreCounted DEF Requests, Request, NoStream, Fetches
<1>2. r.s <= c.made
  BY <1>1, NoStreamFits
<1>3. EnqueuePlain(c, m) = Enqueue(c, r)
  BY DEF EnqueuePlain
<1> HIDE DEF r
<1>4. NewHandler([on |-> r.m, s |-> r.s], c)
  BY <1>1 DEF NewHandler
<1> QED
  BY <1>1, <1>2, <1>3, <1>4, EnqueueTame DEF r

\* The queue is sent, or the connection dies.
LEMMA SendTame ==
  ASSUME NEW c, Conn(c)
  PROVE  LET d == Send(c)
         IN  /\ Tame(c, d) /\ Conn(d) /\ d.handlers = c.handlers /\ d.made = c.made /\ d.live = c.live /\ d.v = c.v
             /\ net # "down" => /\ d.state = c.state /\ d.err = c.err /\ d.curr = c.curr /\ d.streams = c.streams
                                /\ d.out = << >> /\ d.wire = c.wire \o c.out
             /\ net = "down" => d.err /\ d.state = "dead"
<1> DEFINE e == SetError(c, TRUE)
           f == [c EXCEPT !.wire = @ \o c.out, !.out = << >>]
           d == Send(c)
<1>0. d = IF net = "down" THEN e ELSE f
  BY DEF Send, OnIoError
<1>1. Conn(d)
  BY SendKeeps DEF Keeps
<1>2. /\ Tame(c, e) /\ e.err /\ e.made = c.made /\ e.handlers = c.handlers /\ e.state = "dead"
  BY SetErrorTame
<1>3. f.v = c.v /\ f.live = c.live /\ f.made = c.made /\ f.streams = c.streams /\ f.curr = c.curr
      /\ f.handlers = c.handlers /\ f.state = c.state /\ f.err = c.err /\ f.out = << >>
      /\ f.wire = c.wire \o c.out
  BY DEF Conn, ConnFields
<1> HIDE DEF d, e, f
<1>4. Tame(c, f)
  BY <1>3, TameSame
<1>5. Tame(c, d)
  BY <1>0, <1>2, <1>4
<1> QED
  BY <1>0, <1>1, <1>2, <1>3, <1>5 DEF d, Tame

\* PULL for a result of this loan.
LEMMA PullTame ==
  ASSUME NEW c, Conn(c), NEW s \in 1 .. c.made, s >= c.live, c.v.major # 3
  PROVE  LET d == AppendPullN(c, s)
         IN  /\ Tame(c, d) /\ Conn(d) /\ d.err = c.err /\ d.state = c.state /\ d.curr = c.curr
             /\ d.made = c.made /\ d.live = c.live /\ d.v = c.v /\ d.streams = c.streams /\ d.wire = c.wire
             /\ IF c.state \in {"streaming", "streamingTx"}
                THEN d.handlers = Append(c.handlers, [on |-> "pull", s |-> s]) /\ d.handlers # << >>
                ELSE d = c
<1> DEFINE qid == IF c.state = "streamingTx" /\ c.streams[s].qid # c.lastQid
                  THEN c.streams[s].qid ELSE -1
           r == Request("pull", s, c.streams[s].fetch, qid)
<1>1. AppendPullN(c, s) = IF c.state \in {"streaming", "streamingTx"} THEN Enqueue(c, r) ELSE c
  BY DEF AppendPullN
<1>2. s \in Streams /\ StreamOK(c.streams[s]) /\ s \in 0 .. MaxStreams /\ s <= c.made /\ s # 0
  BY StreamsAreCounted DEF Conn, Streams
<1>3. c.streams[s].fetch \in Fetches /\ qid \in Int
  BY <1>2 DEF StreamOK
<1> HIDE DEF qid
<1>4. r \in Requests /\ r.m = "pull" /\ r.s = s
  BY <1>2, <1>3 DEF Requests, Request, Messages
<1> HIDE DEF r
<1>5. NewHandler([on |-> r.m, s |-> r.s], c)
  BY <1>2, <1>4 DEF NewHandler, OfResult
<1>6. LET d == Enqueue(c, r)
         IN  /\ Tame(c, d) /\ Conn(d) /\ d.err = c.err /\ d.state = c.state /\ d.curr = c.curr
             /\ d.made = c.made /\ d.live = c.live /\ d.v = c.v /\ d.streams = c.streams /\ d.wire = c.wire
             /\ d.handlers = Append(c.handlers, [on |-> "pull", s |-> s]) /\ d.handlers # << >>
  BY <1>2, <1>4, <1>5, EnqueueTame
<1>7. Tame(c, c)
  BY TameSame
<1> QED
  BY <1>1, <1>6, <1>7

\* One field of one result is set.
WithAll(c, s) == [c EXCEPT !.streams[s].fetch = All]

\* The fetch size of a result.
LEMMA FetchTame ==
  ASSUME NEW c, Conn(c), NEW s
  PROVE  LET d == WithAll(c, s)
         IN  /\ Tame(c, d) /\ Conn(d) /\ SameQueue(c, d) /\ d.state = c.state /\ d.err = c.err
             /\ d.curr = c.curr
             /\ \A r \in Streams : /\ d.streams[r].attached = c.streams[r].attached
                                   /\ d.streams[r].endOfBatch = c.streams[r].endOfBatch
                                   /\ d.streams[r].done = c.streams[r].done
<1> DEFINE q == c.streams[s]
           q1 == [q EXCEPT !.fetch = All]
           d == WithAll(c, s)
<1>1. Conn(d)
  BY StreamFieldKeeps DEF Keeps, WithAll
<1>2. DOMAIN c.streams = Streams /\ (s \in Streams => DOMAIN q = StreamFields)
  BY DEF Conn, StreamOK
<1>3. SameQueue(c, d) /\ d.state = c.state /\ d.err = c.err /\ d.curr = c.curr
      /\ d.streams = [c.streams EXCEPT ![s] = q1]
  BY DEF Conn, ConnFields, SameQueue, WithAll
<1> HIDE DEF d
<1>4. s \in Streams => /\ q1.safe = q.safe /\ q1.fifo = q.fifo /\ q1.done = q.done /\ q1.given = q.given
                       /\ q1.attached = q.attached /\ q1.endOfBatch = q.endOfBatch
  BY <1>2 DEF StreamFields
<1> HIDE DEF q1
<1>5. Tame(c, d)
  BY <1>3, <1>4, TameOne DEF SameQueue
<1>6. \A r \in Streams : /\ d.streams[r].attached = c.streams[r].attached
                         /\ d.streams[r].endOfBatch = c.streams[r].endOfBatch
                         /\ d.streams[r].done = c.streams[r].done
  BY <1>2, <1>3, <1>4
<1> QED
  BY <1>1, <1>3, <1>5, <1>6 DEF d

\* One field of one result is set.
WithDiscarding(c, s) == [c EXCEPT !.streams[s].discarding = TRUE]

\* A result that is discarded.
LEMMA DiscardingTame ==
  ASSUME NEW c, Conn(c), NEW s
  PROVE  LET d == WithDiscarding(c, s)
         IN  /\ Tame(c, d) /\ Conn(d) /\ SameQueue(c, d) /\ d.state = c.state /\ d.err = c.err
             /\ d.curr = c.curr
             /\ \A r \in Streams : /\ d.streams[r].attached = c.streams[r].attached
                                   /\ d.streams[r].endOfBatch = c.streams[r].endOfBatch
                                   /\ d.streams[r].done = c.streams[r].done
<1> DEFINE q == c.streams[s]
           q1 == [q EXCEPT !.discarding = TRUE]
           d == WithDiscarding(c, s)
<1>1. Conn(d)
  BY StreamFieldKeeps DEF Keeps, WithDiscarding
<1>2. DOMAIN c.streams = Streams /\ (s \in Streams => DOMAIN q = StreamFields)
  BY DEF Conn, StreamOK
<1>3. SameQueue(c, d) /\ d.state = c.state /\ d.err = c.err /\ d.curr = c.curr
      /\ d.streams = [c.streams EXCEPT ![s] = q1]
  BY DEF Conn, ConnFields, SameQueue, WithDiscarding
<1> HIDE DEF d
<1>4. s \in Streams => /\ q1.safe = q.safe /\ q1.fifo = q.fifo /\ q1.done = q.done /\ q1.given = q.given
                       /\ q1.attached = q.attached /\ q1.endOfBatch = q.endOfBatch
  BY <1>2 DEF StreamFields
<1> HIDE DEF q1
<1>5. Tame(c, d)
  BY <1>3, <1>4, TameOne DEF SameQueue
<1>6. \A r \in Streams : /\ d.streams[r].attached = c.streams[r].attached
                         /\ d.streams[r].endOfBatch = c.streams[r].endOfBatch
                         /\ d.streams[r].done = c.streams[r].done
  BY <1>2, <1>3, <1>4
<1> QED
  BY <1>1, <1>3, <1>5, <1>6 DEF d

\* One field of one result is set.
WithBatch(c, s, x) == [c EXCEPT !.streams[s].endOfBatch = x]

\* The end of a batch.
LEMMA BatchTame ==
  ASSUME NEW c, Conn(c), NEW s, NEW x
  PROVE  LET d == WithBatch(c, s, x)
         IN  /\ Tame(c, d) /\ Conn(d) /\ SameQueue(c, d) /\ d.state = c.state /\ d.err = c.err
             /\ d.curr = c.curr
             /\ \A r \in Streams : /\ d.streams[r].attached = c.streams[r].attached
                                   /\ d.streams[r].endOfBatch = (IF r = s THEN x ELSE c.streams[r].endOfBatch)
                                   /\ d.streams[r].done = c.streams[r].done
<1> DEFINE q == c.streams[s]
           q1 == [q EXCEPT !.endOfBatch = x]
           d == WithBatch(c, s, x)
<1>1. Conn(d)
  BY StreamFieldKeeps DEF Keeps, WithBatch
<1>2. DOMAIN c.streams = Streams /\ (s \in Streams => DOMAIN q = StreamFields)
  BY DEF Conn, StreamOK
<1>3. SameQueue(c, d) /\ d.state = c.state /\ d.err = c.err /\ d.curr = c.curr
      /\ d.streams = [c.streams EXCEPT ![s] = q1]
  BY DEF Conn, ConnFields, SameQueue, WithBatch
<1> HIDE DEF d
<1>4. s \in Streams => /\ q1.safe = q.safe /\ q1.fifo = q.fifo /\ q1.done = q.done /\ q1.given = q.given
                       /\ q1.attached = q.attached /\ q1.endOfBatch = x
  BY <1>2 DEF StreamFields
<1> HIDE DEF q1
<1>5. Tame(c, d)
  BY <1>3, <1>4, TameOne DEF SameQueue
<1>6. \A r \in Streams : /\ d.streams[r].attached = c.streams[r].attached
                         /\ d.streams[r].endOfBatch = (IF r = s THEN x ELSE c.streams[r].endOfBatch)
                         /\ d.streams[r].done = c.streams[r].done
  BY <1>2, <1>3, <1>4
<1> QED
  BY <1>1, <1>3, <1>5, <1>6 DEF d

\* One field of one result is set.
WithFifo(c, s, x) == [c EXCEPT !.streams[s].fifo = x]

\* The records of a result of this loan.
LEMMA FifoTame ==
  ASSUME NEW c, Conn(c), NEW s, NEW x, s >= c.live
  PROVE  LET d == WithFifo(c, s, x)
         IN  /\ Tame(c, d) /\ Conn(d) /\ SameQueue(c, d) /\ d.state = c.state /\ d.err = c.err
             /\ d.curr = c.curr
             /\ \A r \in Streams : /\ d.streams[r].attached = c.streams[r].attached
                                   /\ d.streams[r].endOfBatch = c.streams[r].endOfBatch
                                   /\ d.streams[r].done = c.streams[r].done
<1> DEFINE q == c.streams[s]
           q1 == [q EXCEPT !.fifo = x]
           d == WithFifo(c, s, x)
<1>1. Conn(d)
  BY StreamFieldKeeps DEF Keeps, WithFifo
<1>2. DOMAIN c.streams = Streams /\ (s \in Streams => DOMAIN q = StreamFields)
  BY DEF Conn, StreamOK
<1>3. SameQueue(c, d) /\ d.state = c.state /\ d.err = c.err /\ d.curr = c.curr
      /\ d.streams = [c.streams EXCEPT ![s] = q1]
  BY DEF Conn, ConnFields, SameQueue, WithFifo
<1> HIDE DEF d
<1>4. s \in Streams => /\ q1.safe = q.safe /\ q1.done = q.done /\ q1.given = q.given
                       /\ q1.attached = q.attached /\ q1.endOfBatch = q.endOfBatch
  BY <1>2 DEF StreamFields
<1> HIDE DEF q1
<1>5. Tame(c, d)
  <2>1. s \in Streams => ~(s < c.live)
    BY StreamsAreCounted DEF Conn, Streams
  <2> QED
    BY <1>3, <1>4, <2>1, TameOne DEF SameQueue
<1>6. \A r \in Streams : /\ d.streams[r].attached = c.streams[r].attached
                         /\ d.streams[r].endOfBatch = c.streams[r].endOfBatch
                         /\ d.streams[r].done = c.streams[r].done
  BY <1>2, <1>3, <1>4
<1> QED
  BY <1>1, <1>3, <1>5, <1>6 DEF d

\* DISCARD for a result of this loan.
LEMMA DiscardTame ==
  ASSUME NEW c, Conn(c), NEW s \in 1 .. c.made, s >= c.live, c.v.major # 3
  PROVE  LET d == AppendDiscardAll(c, s)
         IN  /\ Tame(c, d) /\ Conn(d) /\ d.err = c.err /\ d.state = c.state /\ d.curr = c.curr
             /\ d.made = c.made /\ d.live = c.live /\ d.v = c.v /\ d.wire = c.wire
             /\ d.handlers = Append(c.handlers, [on |-> "discard", s |-> s]) /\ d.handlers # << >>
             /\ \A r \in Streams : d.streams[r].endOfBatch = c.streams[r].endOfBatch
                                   /\ d.streams[r].done = c.streams[r].done
<1> DEFINE qid == IF c.state = "streamingTx" /\ c.streams[s].qid # c.lastQid
                  THEN c.streams[s].qid ELSE -1
           r == Request("discard", s, All, qid)
           e == WithAll(c, s)
           d == Enqueue(e, r)
<1>1. AppendDiscardAll(c, s) = d
  BY DEF AppendDiscardAll, WithAll
<1>2. s \in Streams /\ StreamOK(c.streams[s]) /\ s \in 0 .. MaxStreams /\ s <= c.made /\ s # 0
  BY StreamsAreCounted DEF Conn, Streams
<1>3. qid \in Int
  BY <1>2 DEF StreamOK
<1> HIDE DEF qid
<1>4. r \in Requests /\ r.m = "discard" /\ r.s = s
  BY <1>2, <1>3 DEF Requests, Request, Messages, Fetches, All
<1> HIDE DEF r
<1>5. /\ Tame(c, e) /\ Conn(e) /\ SameQueue(c, e) /\ e.state = c.state /\ e.err = c.err /\ e.curr = c.curr
      /\ \A x \in Streams : e.streams[x].endOfBatch = c.streams[x].endOfBatch
                            /\ e.streams[x].done = c.streams[x].done
  BY FetchTame
<1> HIDE DEF e
<1>6. NewHandler([on |-> r.m, s |-> r.s], e)
  BY <1>2, <1>4, <1>5 DEF NewHandler, OfResult, SameQueue
<1>7. r.s <= e.made /\ e.v.major # 3
  BY <1>2, <1>4, <1>5 DEF SameQueue
<1>8. /\ Tame(e, d) /\ Conn(d) /\ d.err = e.err /\ d.state = e.state /\ d.curr = e.curr
      /\ d.made = e.made /\ d.live = e.live /\ d.v = e.v /\ d.streams = e.streams /\ d.wire = e.wire
      /\ d.handlers = Append(e.handlers, [on |-> "discard", s |-> s]) /\ d.handlers # << >>
  BY <1>4, <1>5, <1>6, <1>7, EnqueueTame
<1> HIDE DEF d
<1>9. Tame(c, d)
  BY <1>5, <1>8, TameTrans
<1> QED
  BY <1>1, <1>5, <1>8, <1>9 DEF SameQueue

-----------------------------------------------------------------------------
(* The parts of the invariant under a transformer.                         *)

\* No result is opened.
LEMMA OpenShrinks ==
  ASSUME NEW c, NEW d, Conn(c), Conn(d), Tame(c, d), d.made = c.made
  PROVE  Open(d) \subseteq Open(c)
<1> SUFFICES ASSUME NEW s \in Open(d) PROVE s \in Open(c)
  OBVIOUS
<1>1. d.live = c.live /\ s \in d.live .. d.made /\ d.streams[s].given /\ ~Over(d, s)
  BY DEF Open, Tame
<1>2. s \in c.live .. c.made /\ s \in Streams /\ s <= c.made
  BY <1>1, StreamsAreCounted DEF Conn, Streams
<1>3. TameStream(c, d, s)
  BY <1>2 DEF Tame
<1> QED
  BY <1>1, <1>2, <1>3 DEF TameStream, Open

\* What holds at all times still does, if what is said of the state does.
LEMMA GeneralTame ==
  ASSUME NEW c, NEW d, NEW w, NEW x, NEW sv, Conn(c), Conn(d), General(c, w, sv), Tame(c, d),
         d.made = c.made \/ ~Down(c),
         d.err => Down(d), sv.st = "failed" => Down(d),
         d.state = "failed" => sv.st = "failed" \/ Plains(d.handlers),
         c.state = "dead" => d.state = "dead",
         x # "no" /\ d.state = "dead" => d.live <= d.made
  PROVE  General(d, x, sv)
<1>1. d.live = c.live /\ c.live \in Int
  BY DEF Tame, Conn
<1>2. Kinds(d)
  BY DEF Kinds, General, Tame, NewHandler
<1>3. Keyed(d)
  <2>1. \A s \in Streams : d.streams[s].safe => s >= d.live
    BY <1>1 DEF Keyed, General, Tame, TameStream
  <2>2. d.curr # 0 => d.curr >= d.live
    BY <1>1 DEF Keyed, General, Tame
  <2> QED
    BY <2>1, <2>2 DEF Keyed
<1>4. OldOnes(d, sv)
  <2> SUFFICES ASSUME NEW i \in 1 .. Len(d.handlers), d.handlers[i].s # 0, d.handlers[i].s < d.live
               PROVE  d.live > d.made /\ (d.state = "dead" \/ sv.st = "failed")
    BY DEF OldOnes
  <2>0. d.handlers[i].s \in Int
    <3>1. d.handlers \in Seq(Handlers)
      BY DEF Conn
    <3>2. d.handlers[i] \in Handlers
      BY <3>1, ElementOfSeq
    <3> QED
      BY <3>2, StreamsAreCounted DEF Handlers
  <2>1. ~NewHandler(d.handlers[i], c)
    BY <1>1, <2>0 DEF NewHandler
  <2>2. PICK j \in 1 .. Len(c.handlers) : d.handlers[i] = c.handlers[j]
    BY <2>1 DEF Tame
  <2>3. c.live > c.made /\ (c.state = "dead" \/ sv.st = "failed")
    BY <1>1, <2>2 DEF General, OldOnes
  <2> QED
    BY <1>1, <2>3 DEF General, Down
<1> QED
  BY <1>2, <1>3, <1>4 DEF General

\* A frame under a transformer.
LEMMA FrameTame ==
  ASSUME NEW c, NEW d, Conn(c), Conn(d), Tame(c, d), NEW f, NEW t, FrameOK(c, f, FALSE)
  PROVE  FrameOK(d, f, t)
<1>1. c.live \in Int /\ c.made \in Int /\ d.live = c.live /\ d.made \in Int /\ c.made <= d.made
      /\ \A s \in c.live .. c.made : s \in Streams /\ s <= c.made
  BY StreamsAreCounted DEF Conn, Tame, Streams
<1>2. f.at \in OnResult => f.s \in d.live .. d.made
  <2>1. f.at \in OnResult => f.s \in c.live .. c.made
    BY DEF FrameOK
  <2> QED
    BY <1>1, <2>1
<1>3. f.at = "next" => d.streams[f.s].given
  <2> SUFFICES ASSUME f.at = "next" PROVE d.streams[f.s].given
    OBVIOUS
  <2>1. f.s \in c.live .. c.made /\ c.streams[f.s].given
    BY DEF FrameOK, OnResult
  <2>2. TameStream(c, d, f.s) /\ f.s <= c.made
    BY <1>1, <2>1 DEF Tame
  <2> QED
    BY <2>1, <2>2 DEF TameStream
<1> QED
  BY <1>2, <1>3 DEF FrameOK

\* The frames of a call under a transformer: the one on top goes, or all stay.
LEMMA FramesTame ==
  ASSUME NEW S, NEW m \in Seq(S), NEW c, NEW d, NEW w, NEW x, Conn(c), Conn(d), Tame(c, d), FramesOK(c, m, w)
  PROVE  /\ m # << >> => FramesOK(d, Tail(m), "no") /\ Below(Tail(m)) = Tail(m) /\ Read(Tail(m)) = "no"
         /\ w # "no" => FramesOK(d, m, x) /\ Below(m) = m /\ Read(m) = "no"
         /\ Down(d) /\ Down(c) => FramesOK(d, m, w)
<1>2. ASSUME NEW f, NEW t, FrameOK(c, f, FALSE)
      PROVE  FrameOK(d, f, t)
  BY <1>2, FrameTame
<1>3. m # << >> => FramesOK(d, Tail(m), "no") /\ Below(Tail(m)) = Tail(m) /\ Read(Tail(m)) = "no"
  <2> SUFFICES ASSUME m # << >>
               PROVE  FramesOK(d, Tail(m), "no") /\ Below(Tail(m)) = Tail(m) /\ Read(Tail(m)) = "no"
    OBVIOUS
  <2>1. /\ Len(m) \in Nat \ {0} /\ Tail(m) \in Seq(S) /\ Len(Tail(m)) = Len(m) - 1
        /\ \A i \in 1 .. Len(Tail(m)) : Tail(m)[i] = m[i + 1] /\ i + 1 \in 2 .. Len(m)
    BY Popped
  <2>2. \A i \in 2 .. Len(m) : FrameOK(c, m[i], FALSE)
    BY <2>1 DEF FramesOK, FrameOK
  <2>3. \A i \in 1 .. Len(Tail(m)) : FrameOK(c, Tail(m)[i], FALSE)
    BY <2>1, <2>2
  <2>4. FramesOK(d, Tail(m), "no")
    BY <1>2, <2>3 DEF FramesOK
  <2>5. Tail(m) # << >> => 1 \in 1 .. Len(Tail(m))
    BY <2>1, EmptySeq, LenProperties
  <2>6. Tail(m) # << >> => Tail(m)[1].at \notin {"receive", "receiveAll"}
    BY <2>3, <2>5 DEF FrameOK
  <2> QED
    BY <2>4, <2>6, NothingRead
<1>4. w # "no" => FramesOK(d, m, x) /\ Below(m) = m /\ Read(m) = "no"
  <2> SUFFICES ASSUME w # "no" PROVE FramesOK(d, m, x) /\ Below(m) = m /\ Read(m) = "no"
    OBVIOUS
  <2>1. \A i \in 1 .. Len(m) : FrameOK(c, m[i], FALSE)
    BY DEF FramesOK, FrameOK
  <2>2. FramesOK(d, m, x)
    BY <1>2, <2>1 DEF FramesOK
  <2>3. m # << >> => 1 \in 1 .. Len(m)
    BY EmptySeq, LenProperties
  <2>4. m # << >> => m[1].at \notin {"receive", "receiveAll"}
    BY <2>1, <2>3 DEF FrameOK
  <2> QED
    BY <2>2, <2>4, NothingRead
<1>5. Down(d) /\ Down(c) => FramesOK(d, m, w)
  <2> SUFFICES ASSUME Down(d), Down(c) PROVE FramesOK(d, m, w)
    OBVIOUS
  <2>1. \A i \in 1 .. Len(m) : FrameOK(c, m[i], FALSE)
    BY DEF FramesOK, FrameOK
  <2> QED
    BY <1>2, <2>1 DEF FramesOK
<1> QED
  BY <1>3, <1>4, <1>5

\* The frame on top is another one.
LEMMA FramesReplace ==
  ASSUME NEW S, NEW m \in Seq(S), NEW k, NEW c, NEW d, NEW w, NEW x, Conn(c), Conn(d), Tame(c, d), FramesOK(c, m, w),
         Len(k) = Len(m), FrameOK(d, k[1], x = "no"), \A i \in 2 .. Len(m) : k[i] = m[i]
  PROVE  FramesOK(d, k, x)
<1> SUFFICES ASSUME NEW i \in 1 .. Len(k) PROVE FrameOK(d, k[i], i = 1 /\ x = "no")
  BY DEF FramesOK
<1>1. CASE i = 1
  BY <1>1
<1>2. CASE i # 1
  <2>1. i \in 2 .. Len(m) /\ i \in 1 .. Len(m)
    BY <1>2, LenProperties
  <2>2. FrameOK(c, m[i], FALSE)
    BY <1>2, <2>1 DEF FramesOK, FrameOK
  <2>3. FrameOK(d, m[i], FALSE)
    BY <2>2, FrameTame
  <2> QED
    BY <1>2, <2>1, <2>3
<1> QED
  BY <1>1, <1>2

\* Results of earlier loans stay as they are.
Put(c, d) == d.v = c.v /\ \A s \in Streams : s < d.live => StaysPut(c, d, s)

\* That is part of Tame.
LEMMA TamePut ==
  ASSUME NEW c, NEW d, Tame(c, d)
  PROVE  Put(c, d)
  BY DEF Tame, TameStream, Put

\* A stack of two frames at most.
LEMMA TwoFrames ==
  ASSUME NEW S, NEW m \in Seq(S)
  PROVE  /\ Len(m) = 1 => m = <<m[1]>> /\ Tail(m) = << >>
         /\ Len(m) = 2 => m = <<m[1], m[2]>> /\ Tail(m) = <<m[2]>>
<1>1. Len(m) = 1 => m = <<m[1]>>
  OBVIOUS
<1>2. Len(m) = 2 => m = <<m[1], m[2]>>
  OBVIOUS
<1> QED
  BY <1>1, <1>2, ShortStack

\* The stack is a sequence.
LEMMA StackSeq ==
  ASSUME BoltInv, loan \in Use
  PROVE  \E S : stack \in Seq(S)
<1>1. CASE Calm(stack, b)
  BY <1>1 DEF Calm
<1>2. CASE Asking(stack, b)
  <2>1. PICK f, g : stack = <<f, g>>
    BY <1>2 DEF Asking
  <2>2. <<f, g>> \in Seq({f, g})
    OBVIOUS
  <2> QED
    BY <2>1, <2>2
<1> QED
  BY <1>1, <1>2 DEF BoltInv, Phase

\* The invariant, in use.
LEMMA InUseState ==
  ASSUME loan \in Use, General(b, Read(stack), srv), net = "up" => Waited(b, Read(stack)),
         Used(b, Below(stack), Read(stack), loan)
  PROVE  StateInv
  BY DEF StateInv, Conforms, Use

\* The connection at a frame of a call of a session.
LEMMA AtFrame ==
  ASSUME BoltInv, StateInv, b.v.major > 3, ~Idle, Top.at \in CallFrames
  PROVE  /\ loan \in Use \ {"borrowed", "announced"} /\ Conn(b) /\ Top = stack[1] /\ b.v.major # 3
         /\ General(b, "no", srv) /\ (net = "up" => Waited(b, "no")) /\ Used(b, stack, "no", loan)
         /\ net \in {"up", "down"} /\ \E S : stack \in Seq(S)
         /\ Below(stack) = stack /\ Read(stack) = "no"
         /\ Len(stack) = 1 => stack = <<Top>> /\ Tail(stack) = << >>
         /\ Len(stack) = 2 => stack = <<Top, stack[2]>> /\ Tail(stack) = <<stack[2]>>
<1>1. loan \in Use
  BY InUse DEF CallFrames, UseFrames
<1>2. PICK S : stack \in Seq(S)
  BY <1>1, StackSeq
<1>3. Top = stack[1] /\ stack # << >>
  BY <1>2, Popped DEF Top, Idle
<1>4. Below(stack) = stack /\ Read(stack) = "no"
  BY <1>3, NothingRead DEF CallFrames
<1>5. Conforms(b, stack, "no", loan, srv, net)
  BY <1>1, <1>4 DEF StateInv, Use
<1>6. General(b, "no", srv) /\ (net = "up" => Waited(b, "no")) /\ Used(b, stack, "no", loan)
  BY <1>1, <1>5 DEF Conforms
<1>7. loan \notin {"borrowed", "announced"}
  BY <1>3, <1>6 DEF Used, JustLent
<1>8. b.v.major # 3
  OBVIOUS
<1>9. /\ Len(stack) = 1 => stack = <<Top>> /\ Tail(stack) = << >>
      /\ Len(stack) = 2 => stack = <<Top, stack[2]>> /\ Tail(stack) = <<stack[2]>>
  BY <1>2, <1>3, TwoFrames
<1> QED
  BY <1>1, <1>2, <1>3, <1>4, <1>6, <1>7, <1>8, <1>9 DEF BoltInv

\* The connection between calls of a session.
LEMMA AtIdle ==
  ASSUME BoltInv, StateInv, b.v.major > 3, Idle, loan \in Use
  PROVE  /\ Conn(b) /\ General(b, "no", srv) /\ (net = "up" => Waited(b, "no")) /\ Used(b, << >>, "no", loan)
         /\ net \in {"up", "down"} /\ Below(stack) = << >> /\ Read(stack) = "no" /\ b.v.major # 3
<1>1. Below(stack) = << >> /\ Read(stack) = "no"
  BY NothingRead DEF Idle
<1>2. Conforms(b, << >>, "no", loan, srv, net)
  BY <1>1 DEF StateInv, Use
<1>3. b.v.major # 3
  OBVIOUS
<1> QED
  BY <1>1, <1>2, <1>3 DEF Conforms, BoltInv

\* Where nothing is left to be sent, all was sent.
LEMMA SentIf ==
  ASSUME NEW c, Conn(c), Matches(c.handlers, c.wire \o c.out), c.out = << >>
  PROVE  Sent(c) /\ Len(c.wire) = Len(c.handlers)
<1>1. c.wire \in Seq(Requests) /\ c.handlers \in Seq(Handlers)
  BY DEF Conn
<1>2. c.wire \o c.out = c.wire
  BY <1>1, ConcatEmptySeq
<1>3. Len(c.wire) = Len(c.handlers) /\ Len(c.wire) \in Nat
  BY <1>1, <1>2, LenProperties DEF Matches
<1> QED
  BY <1>3 DEF Sent

\* A connection that is alive has its queue.
LEMMA AliveMatches ==
  ASSUME BoltInv, b.v.major > 3, loan # "gone", b.state # "dead"
  PROVE  Matches(b.handlers, b.wire \o b.out) /\ (b.out = << >> => Sent(b))
<1>1. Matches(b.handlers, b.wire \o b.out)
  BY DEF BoltInv, Queue, Broken
<1> QED
  BY <1>1, SentIf DEF BoltInv

\* The same after a step.
LEMMA AliveMatchesNext ==
  ASSUME BoltInv', b'.v.major > 3, loan' # "gone", b'.state # "dead"
  PROVE  Matches(b'.handlers, b'.wire \o b'.out) /\ (b'.out = << >> => Sent(b'))
<1>1. Matches(b'.handlers, b'.wire \o b'.out) /\ Conn(b')
  BY DEF BoltInv, Queue, Broken
<1> QED
  BY <1>1, SentIf

\* The same as InUseState, after a step.
LEMMA InUseNext ==
  ASSUME loan' \in Use, NEW m, NEW w, Below(stack') = m, Read(stack') = w, General(b', w, srv'),
         net' = "up" => Waited(b', w), Used(b', m, w, loan')
  PROVE  StateInv'
  BY DEF StateInv, Conforms, Use

\* An error in a call: what is left of the call sees it.
LEMMA ErrorNext ==
  ASSUME loan' \in {"held", "tx", "single"}, b'.err, Down(b'), NEW m, NEW w, Below(stack') = m, Read(stack') = w,
         FramesOK(b', m, w), General(b', w, srv'), net' = "up" => Waited(b', w)
  PROVE  StateInv'
<1>1. Used(b', m, w, loan')
  BY DEF Used
<1>2. loan' \in Use
  BY DEF Use
<1> QED
  BY <1>1, <1>2, InUseNext

-----------------------------------------------------------------------------
(* Calls that begin.                                                       *)

\* What a step has to show.
Goes == StateInv' /\ Put(b, b')
Here == BoltInv /\ BoltInv' /\ StateInv /\ b.v.major > 3

\* A frame of a call, and one below it.
LEMMA FrameReads ==
  ASSUME NEW c, NEW f, NEW g, f.at \notin {"receive", "receiveAll"}
  PROVE  LET w == IF c.handlers = << >> THEN "no" ELSE "receiveAll"
         IN  /\ Below(ReceiveAll(c, <<f>>)) = <<f>> /\ Read(ReceiveAll(c, <<f>>)) = w
             /\ Below(ReceiveAll(c, <<f, g>>)) = <<f, g>> /\ Read(ReceiveAll(c, <<f, g>>)) = w
<1> DEFINE p == <<f>>
           q == <<f, g>>
<1>1. p \in Seq({f}) /\ q \in Seq({f, g}) /\ p[1] = f /\ q[1] = f
  OBVIOUS
<1> HIDE DEF p, q
<1>2. (p # << >> => p[1].at \notin {"receive", "receiveAll"}) /\ (q # << >> => q[1].at \notin {"receive", "receiveAll"})
  BY <1>1
<1>3. Below(ReceiveAll(c, p)) = p /\ Read(ReceiveAll(c, p)) = IF c.handlers = << >> THEN "no" ELSE "receiveAll"
  BY <1>1, <1>2, ReceiveAllReads
<1>4. Below(ReceiveAll(c, q)) = q /\ Read(ReceiveAll(c, q)) = IF c.handlers = << >> THEN "no" ELSE "receiveAll"
  BY <1>1, <1>2, ReceiveAllReads
<1> QED
  BY <1>3, <1>4 DEF p, q

\* The frames of a stack of one and of two.
LEMMA FramesShort ==
  ASSUME NEW c, NEW f, NEW g, NEW w
  PROVE  /\ FramesOK(c, << >>, w)
         /\ FrameOK(c, f, w = "no") => FramesOK(c, <<f>>, w)
         /\ FrameOK(c, f, w = "no") /\ FrameOK(c, g, FALSE) => FramesOK(c, <<f, g>>, w)
<1>1. FramesOK(c, << >>, w)
  BY DEF FramesOK
<1>2. ASSUME FrameOK(c, f, w = "no")
      PROVE  FramesOK(c, <<f>>, w)
  <2> SUFFICES ASSUME NEW i \in 1 .. Len(<<f>>) PROVE FrameOK(c, <<f>>[i], i = 1 /\ w = "no")
    BY DEF FramesOK
  <2>1. i = 1 /\ <<f>>[i] = f
    OBVIOUS
  <2> QED
    BY <1>2, <2>1 DEF FrameOK
<1>3. ASSUME FrameOK(c, f, w = "no"), FrameOK(c, g, FALSE)
      PROVE  FramesOK(c, <<f, g>>, w)
  <2> SUFFICES ASSUME NEW i \in 1 .. Len(<<f, g>>) PROVE FrameOK(c, <<f, g>>[i], i = 1 /\ w = "no")
    BY DEF FramesOK
  <2>1. (i = 1 /\ <<f, g>>[i] = f) \/ (i = 2 /\ <<f, g>>[i] = g)
    OBVIOUS
  <2> QED
    BY <1>3, <2>1 DEF FrameOK
<1> QED
  BY <1>1, <1>2, <1>3

\* A frame of which nothing is said in every state.
LEMMA AnyFrame ==
  ASSUME NEW c, NEW t, NEW f,
         f.at \notin {"receive", "receiveAll", "success3", "record3", "reset3"} \cup OnResult
  PROVE  FrameOK(c, f, t)
  BY DEF FrameOK, OnResult

\* A frame about a result of this loan.
LEMMA ResultFrame ==
  ASSUME NEW c, NEW t, NEW f, f.at \in {"buffer", "pause", "discard", "attach"}, f.s \in c.live .. c.made
  PROVE  FrameOK(c, f, t)
  BY DEF FrameOK

\* The current stream is a result of this loan.
LEMMA CurrLive ==
  ASSUME NEW c, NEW sv, NEW w, Conn(c), General(c, w, sv), c.curr # 0
  PROVE  c.curr \in c.live .. c.made /\ c.curr \in Streams /\ c.curr \in 1 .. c.made
<1>1. c.curr \in 0 .. c.made /\ c.live \in 1 .. c.made + 1 /\ c.made \in 0 .. MaxStreams /\ c.curr >= c.live
  BY DEF Conn, General, Keyed
<1> QED
  BY <1>1, StreamsAreCounted DEF Streams

\* Where there is TELEMETRY every option is supported.
LEMMA TelemetrySupports ==
  ASSUME NEW v \in Protocols, HasTelemetry(v), NEW option \in Options
  PROVE  Supports(v, option) /\ v.major # 4
<1>1. v.major \in Nat /\ v.minor \in Nat
  BY VersionsAreNumbers
<1>2. AtLeast(v, 5, 2) /\ AtLeast(v, 4, 4) /\ v.major # 4
  BY <1>1 DEF HasTelemetry, AtLeast
<1> QED
  BY <1>2 DEF Supports, Options

\* A result that is lent to nobody: none is open.
LEMMA NoneOpen ==
  ASSUME NEW c, Conn(c), c.live > c.made
  PROVE  Open(c) = {}
<1>1. c.live .. c.made = {}
  BY DEF Conn
<1> QED
  BY <1>1 DEF Open

\* With nothing changed, what holds at all times holds.
LEMMA GeneralRead ==
  ASSUME NEW c, NEW sv, NEW w, General(c, "no", sv), c.state = "dead" => w = "no"
  PROVE  General(c, w, sv)
  BY DEF General

\* Nothing is put anywhere by a step that leaves the connection as it is.
LEMMA SamePut ==
  ASSUME b' = b
  PROVE  Put(b, b')
  BY DEF Put, StaysPut

\* The current stream is buffered before BEGIN or RUN.
LEMMA BufferStart ==
  ASSUME Here, Idle, loan = "held", b.state = "streaming", b.curr # 0, NEW g, g.at \in {"begin", "run"},
         stack' = BufferFrames(b, <<g>>), b' = b, srv' = srv, net' = net, loan' = "held"
  PROVE  StateInv'
<1> DEFINE f == [at |-> "buffer", s |-> b.curr]
           w == Read(stack')
<1>1. f.at = "buffer" /\ f.s = b.curr
  OBVIOUS
<1>2. stack' = ReceiveAll(b, <<f, g>>)
  BY ShortConcat DEF BufferFrames, NoStream
<1> HIDE DEF f
<1>3. /\ Conn(b) /\ General(b, "no", srv) /\ Used(b, << >>, "no", loan)
  BY AtIdle DEF Here, Use
<1>4. b.out = << >> /\ Open(b) \subseteq {b.curr} /\ Single(b)
  BY <1>3 DEF Used, Shape, Standing, Down
<1>5. Below(stack') = <<f, g>> /\ w = IF b.handlers = << >> THEN "no" ELSE "receiveAll"
  <2>1. f.at \notin {"receive", "receiveAll"}
    BY <1>1
  <2>2. LET r == ReceiveAll(b, <<f, g>>)
        IN  Below(r) = <<f, g>> /\ Read(r) = IF b.handlers = << >> THEN "no" ELSE "receiveAll"
    BY <2>1, FrameReads
  <2> QED
    BY <1>2, <2>2
<1>6. FramesOK(b, <<f, g>>, w)
  <2>1. FrameOK(b, f, w = "no")
    BY <1>1, <1>3, CurrLive, ResultFrame
  <2>2. FrameOK(b, g, FALSE)
    BY AnyFrame DEF OnResult
  <2> QED
    BY <2>1, <2>2, FramesShort
<1>7. <<f, g>>[1] = f /\ <<f, g>>[2] = g /\ Len(<<f, g>>) = 2 /\ <<f, g>> # << >>
  OBVIOUS
<1>8. Standing(b, <<f, g>>, w, "held")
  BY <1>1, <1>4, <1>7 DEF Standing, On, InTx
<1>9. AtBuffer(b, <<f, g>>, w, "held")
  BY <1>1, <1>4, <1>5, <1>7 DEF AtBuffer, Drains, InTx
<1>10. Used(b, <<f, g>>, w, "held")
  BY <1>1, <1>6, <1>7, <1>8, <1>9 DEF Used, Down, Shape, Placed, CallFrames
<1>11. General(b, w, srv)
  BY <1>3, GeneralRead
<1>12. Waited(b, w)
  <2>1. Sent(b)
    BY <1>4, AliveMatches DEF Here
  <2> QED
    BY <1>5, <2>1 DEF Waited
<1> QED
  BY <1>5, <1>10, <1>11, <1>12, InUseNext DEF Use

\* TxBegin.
LEMMA TxBeginGoes ==
  ASSUME Here, NEW option \in Options, NEW sync, TxBegin(option, sync)
  PROVE  Goes
<1> DEFINE g == [at |-> "begin", sync |-> sync, supported |-> Supports(b.v, option)]
           w == Read(stack')
           m == Below(stack')
<1>1. /\ Idle /\ b' = b /\ srv' = srv /\ net' = net /\ loan' = "held" /\ Usable
      /\ stack' = IF b.state = "streaming" THEN BufferFrames(b, <<g>>) ELSE <<g>>
  BY DEF TxBegin, Start
<1> SUFFICES StateInv'
  BY <1>1, SamePut DEF Goes
<1>2. loan \in Use
  BY <1>1 DEF Usable, Use
<1>3. /\ Conn(b) /\ General(b, "no", srv) /\ (net = "up" => Waited(b, "no")) /\ Used(b, << >>, "no", loan)
  BY <1>1, <1>2, AtIdle DEF Here
<1>4. g.at = "begin" /\ g.supported = Supports(b.v, option)
  OBVIOUS
<1> HIDE DEF g
<1>5. \A t : FrameOK(b, g, t)
  BY <1>4, AnyFrame DEF OnResult
<1>6. <<g>>[1] = g /\ Len(<<g>>) = 1 /\ <<g>> # << >>
  OBVIOUS
<1>7. ASSUME stack' = <<g>>, Open(b) = {}, b.state \in {"ready", "streaming"} \/ Down(b),
             b.state = "streaming" => b.handlers = << >>, b.state = "ready" => Plains(b.handlers) /\ (b.v.major = 4 => b.handlers = << >>),
             b.state = "streaming" => b.out = << >>, b.out # << >> => g.supported \/ Down(b)
      PROVE  StateInv'
  <2>1. m = <<g>> /\ w = "no"
    BY <1>4, <1>6, <1>7, NothingRead
  <2>2. FramesOK(b, <<g>>, "no")
    BY <1>5, FramesShort
  <2>3. Down(b) /\ ~b.err => LentFailed(b, <<g>>, "no", "held")
    BY <1>3, <1>4, <1>6 DEF Used, LentFailed
  <2>4. ~Down(b) => Shape(b, <<g>>, "no", "held")
    BY <1>4, <1>6, <1>7 DEF Shape, Standing, Placed, AtBegin, On, CallFrames, Down, InTx, LentFailed, Single
  <2>5. Used(b, <<g>>, "no", "held")
    BY <2>2, <2>3, <2>4 DEF Used
  <2> QED
    BY <1>1, <1>3, <2>1, <2>5, InUseNext DEF Use
<1>8. CASE loan \in {"borrowed", "announced"}
  <2>1. JustLent(b, << >>, "no")
    BY <1>3, <1>8 DEF Used
  <2>2. stack' = <<g>> /\ Open(b) = {}
    BY <1>1, <1>3, <2>1, NoneOpen DEF JustLent
  <2>3. b.state = "ready" => Plains(b.handlers) /\ (b.v.major = 4 => b.handlers = << >>)
    BY <1>3, <2>1 DEF Used, Shape, Standing, Down, On
  <2>4. b.out # << >> => g.supported \/ Down(b)
    <3>1. b.out # << >> /\ ~Down(b) => HasTelemetry(b.v)
      BY <1>3, <1>8 DEF Used, Shape, Standing, On
    <3> QED
      BY <1>3, <1>4, <3>1, TelemetrySupports DEF Conn
  <2> QED
    BY <1>7, <2>1, <2>2, <2>3, <2>4 DEF JustLent, Down
<1>9. CASE loan = "held" /\ b.state = "streaming"
  <2>1. b.out = << >> /\ Open(b) \subseteq {b.curr} /\ Single(b)
    BY <1>3, <1>9 DEF Used, Shape, Standing, Down
  <2>2. CASE b.curr = 0
    <3>1. stack' = <<g>>
      BY <1>1, <2>2 DEF BufferFrames, NoStream
    <3>2. Open(b) = {}
      <4>1. 0 \notin b.live .. b.made
        BY <1>3 DEF Conn
      <4> QED
        BY <2>1, <2>2, <4>1 DEF Open
    <3> QED
      BY <1>7, <1>9, <2>1, <2>2, <3>1, <3>2 DEF Single
  <2>3. CASE b.curr # 0
    BY <1>1, <1>4, <1>9, <2>3, BufferStart
  <2> QED
    BY <2>2, <2>3
<1> QED
  BY <1>1, <1>8, <1>9 DEF Usable
\* The frame of a query.
LEMMA RunFrame ==
  ASSUME NEW c, NEW n, NEW pack
  PROVE  LET g == [at |-> "run", n |-> n, pack |-> pack]
         IN  /\ g.at = "run" /\ <<g>>[1] = g /\ Len(<<g>>) = 1 /\ <<g>> # << >>
             /\ c.state = "streaming" => RunFrames(c, n, pack, << >>) = BufferFrames(c, <<g>>)
             /\ c.state = "streamingTx" => RunFrames(c, n, pack, << >>) = PauseFrames(c, <<g>>)
             /\ c.state \notin {"streaming", "streamingTx"} => RunFrames(c, n, pack, << >>) = <<g>>
<1> DEFINE g == [at |-> "run", n |-> n, pack |-> pack]
<1>1. g.at = "run"
  OBVIOUS
<1>2. RunFrames(c, n, pack, << >>) = CASE c.state = "streaming" -> BufferFrames(c, <<g>> \o << >>)
                                       [] c.state = "streamingTx" -> PauseFrames(c, <<g>> \o << >>)
                                       [] OTHER -> <<g>> \o << >>
  BY DEF RunFrames
<1> HIDE DEF g
<1>3. <<g>> \o << >> = <<g>> /\ <<g>>[1] = g /\ Len(<<g>>) = 1 /\ <<g>> # << >>
  BY ShortConcat
<1>4. /\ c.state = "streaming" => RunFrames(c, n, pack, << >>) = BufferFrames(c, <<g>>)
      /\ c.state = "streamingTx" => RunFrames(c, n, pack, << >>) = PauseFrames(c, <<g>>)
      /\ c.state \notin {"streaming", "streamingTx"} => RunFrames(c, n, pack, << >>) = <<g>>
  BY <1>2, <1>3
<1> QED
  BY <1>1, <1>3, <1>4 DEF g

\* A query in a connection that was just lent.
LEMMA LentReady ==
  ASSUME NEW c, NEW l, Conn(c), l \in {"borrowed", "announced"}, Used(c, << >>, "no", l)
  PROVE  /\ JustLent(c, << >>, "no") /\ Open(c) = {} /\ c.live > c.made /\ c.curr = 0 /\ c.state \in {"ready", "failed"}
         /\ c.state = "ready" => Plains(c.handlers) /\ (c.v.major = 4 => c.handlers = << >>)
         /\ c.state = "ready" /\ c.out # << >> => HasTelemetry(c.v)
<1>1. JustLent(c, << >>, "no")
  BY DEF Used
<1>2. c.live > c.made /\ c.curr = 0 /\ c.state \in {"ready", "failed"}
  BY <1>1 DEF JustLent
<1>3. Open(c) = {}
  BY <1>2, NoneOpen
<1>4. c.state = "ready" => Plains(c.handlers) /\ (c.v.major = 4 => c.handlers = << >>)
  BY DEF Used, Shape, Standing, Down, On
<1>5. c.state = "ready" /\ c.out # << >> => HasTelemetry(c.v)
  BY DEF Used, Shape, Standing, Down, On
<1> QED
  BY <1>1, <1>2, <1>3, <1>4, <1>5

\* The call ends at once.
LEMMA NothingDone ==
  ASSUME Here, Idle, loan \in {"borrowed", "announced", "held"}, b' = b, srv' = srv, net' = net,
         stack' = << >>, loan' = "held", b.out # << >> => Down(b)
  PROVE  StateInv'
<1>1. loan \in Use /\ "held" \in Use
  BY DEF Use
<1>2. /\ Conn(b) /\ General(b, "no", srv) /\ (net = "up" => Waited(b, "no")) /\ Used(b, << >>, "no", loan)
  BY <1>1, AtIdle DEF Here
<1>3. Below(stack') = << >> /\ Read(stack') = "no"
  BY NothingRead
<1>4. Used(b, << >>, "no", "held")
  <2>1. Down(b) /\ ~b.err => LentFailed(b, << >>, "no", "held")
    BY <1>2 DEF Used, LentFailed
  <2>2. ~Down(b) => Shape(b, << >>, "no", "held")
    <3>1. ~Down(b) => Shape(b, << >>, "no", loan)
      BY <1>2 DEF Used
    <3>2. Shape(b, << >>, "no", loan) /\ b.out = << >> => Shape(b, << >>, "no", "held")
      BY DEF Shape, Standing, On
    <3> QED
      BY <3>1, <3>2
  <2> QED
    BY <1>2, <2>1, <2>2 DEF Used
<1> QED
  BY <1>1, <1>2, <1>3, <1>4, InUseNext

\* The run frame on top, outside of a transaction.
LEMMA RunStart ==
  ASSUME Here, Idle, loan \in {"borrowed", "announced", "held"}, b' = b, srv' = srv, net' = net, loan' = "held",
         NEW m, stack' = m, Len(m) = 1 \/ (Len(m) = 2 /\ m[2].at = "table" /\ b.state = "ready"), m # << >>,
         m[1].at = "run", FramesOK(b, m, "no"), Open(b) = {},
         b.state \in {"ready", "streaming"}, b.state = "streaming" => b.handlers = << >> /\ b.out = << >>,
         b.state = "ready" => b.curr = 0 /\ Plains(b.handlers) /\ (b.v.major = 4 => b.handlers = << >>)
  PROVE  StateInv'
<1>1. loan \in Use /\ "held" \in Use
  BY DEF Use
<1>2. /\ Conn(b) /\ General(b, "no", srv) /\ (net = "up" => Waited(b, "no"))
  BY <1>1, AtIdle DEF Here
<1>3. Below(stack') = m /\ Read(stack') = "no"
  BY NothingRead
<1>4. Standing(b, m, "no", "held")
  BY DEF Standing, InTx, On, Single
<1>5. AtRunFrame(b, m, "no", "held")
  BY DEF AtRunFrame, InTx
<1>6. Used(b, m, "no", "held")
  BY <1>4, <1>5 DEF Used, Shape, Placed, CallFrames, Down
<1> QED
  BY <1>1, <1>2, <1>3, <1>6, InUseNext

\* Run.
LEMMA RunGoes ==
  ASSUME Here, NEW option \in Options, NEW n, NEW pack, Run(option, n, pack)
  PROVE  Goes
<1> DEFINE g == [at |-> "run", n |-> n, pack |-> pack]
<1>1. /\ Idle /\ b' = b /\ srv' = srv /\ net' = net /\ loan' = "held" /\ Usable
      /\ stack' = IF AssertState(b, {"streaming", "ready"}) /\ Supports(b.v, option)
                  THEN RunFrames(b, n, pack, << >>) ELSE << >>
  BY DEF Run, Start
<1> SUFFICES StateInv'
  BY <1>1, SamePut DEF Goes
<1>2. loan \in Use /\ loan \in {"borrowed", "announced", "held"}
  BY <1>1 DEF Usable, Use
<1>3. /\ Conn(b) /\ General(b, "no", srv) /\ Used(b, << >>, "no", loan)
  BY <1>1, <1>2, AtIdle DEF Here
<1>4. /\ g.at = "run" /\ <<g>>[1] = g /\ Len(<<g>>) = 1 /\ <<g>> # << >>
      /\ b.state = "streaming" => RunFrames(b, n, pack, << >>) = BufferFrames(b, <<g>>)
      /\ b.state \notin {"streaming", "streamingTx"} => RunFrames(b, n, pack, << >>) = <<g>>
  BY RunFrame
<1> HIDE DEF g
<1>5. FramesOK(b, <<g>>, "no")
  BY <1>4, AnyFrame, FramesShort DEF OnResult
<1>6. CASE loan \in {"borrowed", "announced"}
  <2>1. /\ Open(b) = {} /\ b.curr = 0 /\ b.state \in {"ready", "failed"}
        /\ b.state = "ready" => Plains(b.handlers) /\ (b.v.major = 4 => b.handlers = << >>)
        /\ b.state = "ready" /\ b.out # << >> => HasTelemetry(b.v)
    BY <1>3, <1>6, LentReady
  <2>2. CASE AssertState(b, {"streaming", "ready"}) /\ Supports(b.v, option)
    <3>1. b.state = "ready"
      BY <2>1, <2>2 DEF AssertState
    <3>2. stack' = <<g>>
      BY <1>1, <1>4, <2>2, <3>1
    <3> QED
      BY <1>1, <1>2, <1>4, <1>5, <2>1, <3>1, <3>2, RunStart
  <2>3. CASE ~(AssertState(b, {"streaming", "ready"}) /\ Supports(b.v, option))
    <3>1. b.state = "ready" => ~b.err
      BY <1>3 DEF General, Down
    <3>2. b.out # << >> => Down(b)
      <4> SUFFICES ASSUME b.out # << >>, b.state = "ready" PROVE FALSE
        BY <2>1 DEF Down
      <4>1. HasTelemetry(b.v) /\ b.v \in Protocols
        BY <1>3, <2>1 DEF Conn
      <4>2. Supports(b.v, option)
        BY <4>1, TelemetrySupports
      <4> QED
        BY <2>3, <3>1, <4>2 DEF AssertState
    <3>3. stack' = << >>
      BY <1>1, <2>3
    <3> QED
      BY <1>1, <1>2, <3>2, <3>3, NothingDone
  <2> QED
    BY <2>2, <2>3
<1>7. CASE loan = "held" /\ b.state = "streaming"
  <2>1. b.out = << >> /\ Open(b) \subseteq {b.curr} /\ Single(b)
    BY <1>3, <1>7 DEF Used, Shape, Standing, Down
  <2>2. CASE stack' = << >>
    BY <1>1, <1>2, <2>1, <2>2, NothingDone
  <2>3. CASE stack' # << >>
    <3>1. stack' = BufferFrames(b, <<g>>)
      BY <1>1, <1>4, <1>7, <2>3
    <3>2. CASE b.curr = 0
      <4>1. stack' = <<g>>
        BY <3>1, <3>2 DEF BufferFrames, NoStream
      <4>2. Open(b) = {}
        <5>1. 0 \notin b.live .. b.made
          BY <1>3 DEF Conn
        <5> QED
          BY <2>1, <3>2, <5>1 DEF Open
      <4>3. b.handlers = << >>
        BY <2>1, <3>2 DEF Single
      <4> QED
        BY <1>1, <1>2, <1>4, <1>5, <1>7, <2>1, <4>1, <4>2, <4>3, RunStart
    <3>3. CASE b.curr # 0
      BY <1>1, <1>4, <1>7, <3>1, <3>3, BufferStart
    <3> QED
      BY <3>2, <3>3
  <2> QED
    BY <2>2, <2>3
<1> QED
  BY <1>1, <1>6, <1>7 DEF Usable
\* The current stream is paused before RUN, or for another result.
LEMMA PauseStart ==
  ASSUME Here, Idle, loan \in {"tx", "single"}, b.state = "streamingTx", b.curr # 0, NEW g,
         g.at = "run" \/ (g.at = "exhaust" /\ g.switch /\ g.s \in b.live .. b.made),
         stack' = PauseFrames(b, <<g>>), b' = b, srv' = srv, net' = net, loan' = loan
  PROVE  StateInv'
<1> DEFINE f == [at |-> "pause", s |-> b.curr]
           w == Read(stack')
<1>1. f.at = "pause" /\ f.s = b.curr
  OBVIOUS
<1>2. stack' = ReceiveAll(b, <<f, g>>)
  BY ShortConcat DEF PauseFrames, NoStream
<1> HIDE DEF f
<1>3. /\ Conn(b) /\ General(b, "no", srv) /\ Used(b, << >>, "no", loan) /\ (net = "up" => Waited(b, "no"))
  BY AtIdle DEF Here, Use
<1>4. b.out = << >>
  BY <1>3 DEF Used, Shape, Standing, Down, On
<1>5. Below(stack') = <<f, g>> /\ w = IF b.handlers = << >> THEN "no" ELSE "receiveAll"
  <2>1. f.at \notin {"receive", "receiveAll"}
    BY <1>1
  <2>2. LET r == ReceiveAll(b, <<f, g>>)
        IN  Below(r) = <<f, g>> /\ Read(r) = IF b.handlers = << >> THEN "no" ELSE "receiveAll"
    BY <2>1, FrameReads
  <2> QED
    BY <1>2, <2>2
<1>6. FramesOK(b, <<f, g>>, w)
  <2>1. FrameOK(b, f, w = "no")
    BY <1>1, <1>3, CurrLive, ResultFrame
  <2>2. FrameOK(b, g, FALSE)
    BY DEF FrameOK, OnResult
  <2> QED
    BY <2>1, <2>2, FramesShort
<1>7. <<f, g>>[1] = f /\ <<f, g>>[2] = g /\ Len(<<f, g>>) = 2 /\ <<f, g>> # << >>
  OBVIOUS
<1>8. Standing(b, <<f, g>>, w, loan)
  BY <1>1, <1>4, <1>7 DEF Standing, On, InTx
<1>9. AtPause(b, <<f, g>>, w, loan)
  BY <1>1, <1>4, <1>5, <1>7 DEF AtPause, InTx
<1>10. Used(b, <<f, g>>, w, loan)
  BY <1>1, <1>6, <1>7, <1>8, <1>9 DEF Used, Down, Shape, Placed, CallFrames
<1>11. General(b, w, srv)
  BY <1>3, GeneralRead
<1>12. net = "up" => Waited(b, w)
  <2>1. Sent(b)
    BY <1>4, AliveMatches DEF Here
  <2> QED
    BY <1>5, <2>1 DEF Waited
<1> QED
  BY <1>5, <1>10, <1>11, <1>12, InUseNext DEF Use

\* RunTx.
LEMMA RunTxGoes ==
  ASSUME Here, NEW n, NEW pack, RunTx(n, pack)
  PROVE  Goes
<1> DEFINE g == [at |-> "run", n |-> n, pack |-> pack]
<1>1. /\ Idle /\ b' = b /\ srv' = srv /\ net' = net /\ loan \in {"tx", "pipelined"}
      /\ loan' = IF loan = "pipelined" THEN "single" ELSE "tx"
      /\ stack' = RunFrames(b, n, pack, << >>)
  BY DEF RunTx, Start
<1> SUFFICES StateInv'
  BY <1>1, SamePut DEF Goes
<1>2. loan \in Use /\ loan' \in Use /\ loan' \in {"tx", "single"}
  BY <1>1 DEF Use
<1>3. /\ Conn(b) /\ General(b, "no", srv) /\ Used(b, << >>, "no", loan) /\ (net = "up" => Waited(b, "no"))
  BY <1>1, <1>2, AtIdle DEF Here
<1>4. /\ g.at = "run" /\ <<g>>[1] = g /\ Len(<<g>>) = 1 /\ <<g>> # << >>
      /\ b.state = "streaming" => RunFrames(b, n, pack, << >>) = BufferFrames(b, <<g>>)
      /\ b.state = "streamingTx" => RunFrames(b, n, pack, << >>) = PauseFrames(b, <<g>>)
      /\ b.state \notin {"streaming", "streamingTx"} => RunFrames(b, n, pack, << >>) = <<g>>
  BY RunFrame
<1> HIDE DEF g
<1>5. FramesOK(b, <<g>>, "no")
  BY <1>4, AnyFrame, FramesShort DEF OnResult
<1>6. ~Down(b) => InTx(b)
  BY <1>1, <1>3 DEF Used, Shape, Standing, Down, InTx, Conn, States
<1>7. ~Down(b) => (b.out # << >> => Open(b) = {}) /\ (loan = "pipelined" => b.state = "tx")
  BY <1>1, <1>3 DEF Used, Shape, Standing
<1>8. CASE stack' = <<g>>
  <2>1. Below(stack') = <<g>> /\ Read(stack') = "no"
    BY <1>4, <1>8, NothingRead
  <2>2. ~Down(b) => Shape(b, <<g>>, "no", loan')
    <3>1. ~Down(b) => Standing(b, <<g>>, "no", loan')
      BY <1>2, <1>4, <1>6, <1>7 DEF Standing, InTx, On
    <3>2. ~Down(b) => AtRunFrame(b, <<g>>, "no", loan')
      BY <1>2, <1>4, <1>6 DEF AtRunFrame
    <3> QED
      BY <1>4, <3>1, <3>2 DEF Shape, Placed, CallFrames
  <2>3. Down(b) => b.err
    BY <1>1, <1>3 DEF Used, LentFailed
  <2>4. Used(b, <<g>>, "no", loan')
    BY <1>2, <1>5, <2>2, <2>3 DEF Used
  <2> QED
    BY <1>1, <1>2, <1>3, <2>1, <2>4, InUseNext
<1>9. CASE stack' # <<g>>
  <2>1. b.state = "streamingTx" /\ stack' = PauseFrames(b, <<g>>)
    BY <1>1, <1>4, <1>6, <1>9 DEF Down, InTx
  <2>2. b.curr # 0
    BY <1>9, <2>1 DEF PauseFrames, NoStream
  <2>3. loan = "tx" /\ loan' = "tx"
    BY <1>1, <1>7, <2>1 DEF Down
  <2> QED
    BY <1>1, <1>4, <2>1, <2>2, <2>3, PauseStart
<1> QED
  BY <1>8, <1>9

\* A result is asked for between calls: the session has the connection, and the loan has results.
LEMMA ResultsInUse ==
  ASSUME BoltInv, StateInv, b.v.major > 3, Idle, b.live <= b.made
  PROVE  /\ loan \in {"held", "tx", "single", "pipelined"} /\ Conn(b) /\ General(b, "no", srv)
         /\ Used(b, << >>, "no", loan) /\ (net = "up" => Waited(b, "no"))
         /\ Down(b) => b.err
<1>1. b.live \in Int /\ b.made \in Int
  BY DEF BoltInv, Conn
<1>2. loan \in Use
  <2>1. loan \in Use \cup {"new", "pooled", "gone"}
    BY IdleLoan
  <2> QED
    BY <1>1, <2>1 DEF BoltInv, Phase, NoResults
<1>3. /\ Conn(b) /\ General(b, "no", srv) /\ (net = "up" => Waited(b, "no")) /\ Used(b, << >>, "no", loan)
  BY <1>2, AtIdle
<1>4. loan \notin {"borrowed", "announced"} /\ (Down(b) => b.err)
  BY <1>1, <1>3 DEF Used, JustLent, LentFailed
<1> QED
  BY <1>2, <1>3, <1>4 DEF Use

\* Next is called.
LEMMA NextGoes ==
  ASSUME Here, NEW s, Next(s)
  PROVE  Goes
<1> DEFINE f == [at |-> "next", s |-> s, received |-> FALSE]
<1>1. /\ Idle /\ b' = b /\ srv' = srv /\ net' = net /\ loan' = loan /\ stack' = <<f>>
      /\ s \in b.live .. b.made /\ b.streams[s].given
  BY DEF Next, Start
<1> SUFFICES StateInv'
  BY <1>1, SamePut DEF Goes
<1>2. f.at = "next" /\ f.s = s
  OBVIOUS
<1> HIDE DEF f
<1>3. b.live <= b.made
  BY <1>1 DEF Here, BoltInv, Conn
<1>4. /\ loan \in {"held", "tx", "single", "pipelined"} /\ Conn(b) /\ General(b, "no", srv)
      /\ Used(b, << >>, "no", loan) /\ (net = "up" => Waited(b, "no")) /\ (Down(b) => b.err)
  BY <1>1, <1>3, ResultsInUse DEF Here
<1>5. <<f>>[1] = f /\ Len(<<f>>) = 1 /\ <<f>> # << >>
  OBVIOUS
<1>6. Below(stack') = <<f>> /\ Read(stack') = "no"
  BY <1>1, <1>2, <1>5, NothingRead
<1>7. FramesOK(b, <<f>>, "no")
  <2>1. \A t : FrameOK(b, f, t)
    BY <1>1, <1>2 DEF FrameOK
  <2> QED
    BY <2>1, FramesShort
<1>8. ~Down(b) => Shape(b, <<f>>, "no", loan)
  <2>1. ~Down(b) => Standing(b, << >>, "no", loan)
    BY <1>4 DEF Used, Shape
  <2>2. Standing(b, << >>, "no", loan) => Standing(b, <<f>>, "no", loan)
    BY <1>2, <1>5 DEF Standing, On
  <2>3. AtNext(b, <<f>>, "no", loan)
    BY <1>5 DEF AtNext
  <2> QED
    BY <1>2, <1>5, <2>1, <2>2, <2>3 DEF Shape, Placed, CallFrames
<1>9. Used(b, <<f>>, "no", loan)
  BY <1>4, <1>7, <1>8 DEF Used
<1> QED
  BY <1>1, <1>4, <1>6, <1>9, InUseNext DEF Use

\* Consume or Buffer is called.
LEMMA ExhaustGoes ==
  ASSUME Here, NEW s \in Streams, NEW how, Exhaust(s, how)
  PROVE  Goes
<1> DEFINE f == [at |-> "exhaust", s |-> s, how |-> how, switch |-> s # b.curr]
<1>1. /\ Idle /\ b' = b /\ srv' = srv /\ net' = net /\ loan' = loan
      /\ stack' = IF s = b.curr THEN <<f>> ELSE PauseFrames(b, <<f>>)
      /\ s \in 1 .. b.made /\ b.streams[s].given /\ b.streams[s].done = "no" /\ b.streams[s].safe
      /\ b.state \in {"streaming", "streamingTx"} /\ ~b.err
  BY DEF Exhaust, Start, AssertState
<1> SUFFICES StateInv'
  BY <1>1, SamePut DEF Goes
<1>2. f.at = "exhaust" /\ f.s = s /\ f.switch = (s # b.curr)
  OBVIOUS
<1> HIDE DEF f
<1>3. s \in b.live .. b.made /\ b.live <= b.made
  <2>1. Conn(b) /\ s >= b.live
    <3>1. Conn(b) /\ loan # "gone"
      BY <1>1 DEF Here, BoltInv, Phase, NoResults
    <3>2. General(b, Read(stack), srv)
      BY <3>1 DEF Here, StateInv, Conforms
    <3> QED
      BY <1>1, <3>1, <3>2 DEF General, Keyed
  <2>2. b.live \in Int /\ b.made \in Int /\ s \in Int /\ s <= b.made
    BY <1>1, <2>1 DEF Conn
  <2> QED
    BY <2>1, <2>2
<1>4. /\ loan \in {"held", "tx", "single", "pipelined"} /\ Conn(b) /\ General(b, "no", srv)
      /\ Used(b, << >>, "no", loan) /\ (net = "up" => Waited(b, "no"))
  BY <1>1, <1>3, ResultsInUse DEF Here
<1>5. <<f>>[1] = f /\ Len(<<f>>) = 1 /\ <<f>> # << >>
  OBVIOUS
<1>6. s \in Open(b)
  BY <1>1, <1>3 DEF Open, Over
<1>7. /\ b.state = "streaming" => s = b.curr /\ loan = "held"
      /\ b.state = "streamingTx" => loan \in {"tx", "single"}
      /\ Standing(b, << >>, "no", loan)
  <2>1. Standing(b, << >>, "no", loan)
    BY <1>1, <1>4 DEF Used, Shape, Down
  <2> QED
    BY <1>4, <1>6, <2>1 DEF Standing, InTx, On
<1>8. CASE stack' = <<f>>
  <2>1. Below(stack') = <<f>> /\ Read(stack') = "no"
    BY <1>2, <1>5, <1>8, NothingRead
  <2>2. FramesOK(b, <<f>>, "no")
    <3>1. FrameOK(b, f, TRUE)
      BY <1>1, <1>2, <1>3 DEF FrameOK, Down
    <3> QED
      BY <3>1, FramesShort
  <2>3. Standing(b, <<f>>, "no", loan)
    BY <1>2, <1>4, <1>5, <1>6, <1>7 DEF Standing, On, InTx
  <2>4. AtExhaust(b, <<f>>, "no", loan)
    BY <1>1, <1>2, <1>5, <1>7 DEF AtExhaust, InTx
  <2>5. Used(b, <<f>>, "no", loan)
    BY <1>1, <1>2, <1>4, <1>5, <2>2, <2>3, <2>4 DEF Used, Shape, Placed, CallFrames, Down
  <2> QED
    BY <1>1, <1>4, <2>1, <2>5, InUseNext DEF Use
<1>9. CASE stack' # <<f>>
  <2>1. s # b.curr /\ stack' = PauseFrames(b, <<f>>) /\ b.curr # 0
    BY <1>1, <1>9 DEF PauseFrames, NoStream
  <2>2. b.state = "streamingTx" /\ loan \in {"tx", "single"}
    BY <1>1, <1>7, <2>1
  <2> QED
    BY <1>1, <1>2, <1>3, <2>1, <2>2, PauseStart
<1> QED
  BY <1>8, <1>9
\* A transformer that leaves queue, state and error alone.
LEMMA LikeTame ==
  ASSUME NEW c, NEW d, NEW sv, NEW w, Conn(c), Conn(d), Tame(c, d), d.handlers = c.handlers, d.out = c.out,
         d.wire = c.wire, d.made = c.made, d.state = c.state, d.err = c.err, General(c, w, sv)
  PROVE  /\ \A x : (c.state = "dead" => x = "no") => General(d, x, sv)
         /\ Waited(c, "no") => Waited(d, "no")
         /\ Sent(c) => Sent(d)
         /\ Open(d) \subseteq Open(c)
<1>1. ASSUME NEW x, c.state = "dead" => x = "no"
      PROVE  General(d, x, sv)
  <2>1. /\ d.err => Down(d)
        /\ sv.st = "failed" => Down(d)
        /\ d.state = "failed" => sv.st = "failed" \/ Plains(d.handlers)
    BY DEF General, Down
  <2> QED
    BY <1>1, <2>1, GeneralTame
<1>2. Open(d) \subseteq Open(c)
  BY OpenShrinks
<1>3. Sent(c) => Sent(d)
  BY DEF Sent
<1>4. Waited(c, "no") => Waited(d, "no")
  BY <1>2, <1>3 DEF Waited
<1> QED
  BY <1>1, <1>2, <1>3, <1>4

\* What is current is to be discarded.
LEMMA DiscardingLike ==
  ASSUME NEW c, Conn(c)
  PROVE  LET d == Discarding(c)
         IN  /\ Tame(c, d) /\ Conn(d) /\ d.handlers = c.handlers /\ d.out = c.out /\ d.wire = c.wire
             /\ d.made = c.made /\ d.live = c.live /\ d.v = c.v /\ d.state = c.state /\ d.err = c.err /\ d.curr = c.curr
             /\ \A r \in Streams : d.streams[r].endOfBatch = c.streams[r].endOfBatch /\ d.streams[r].done = c.streams[r].done
<1> DEFINE e == WithDiscarding(c, c.curr)
<1>1. Tame(c, c)
  BY TameSame
<1>2. /\ Tame(c, e) /\ Conn(e) /\ SameQueue(c, e) /\ e.state = c.state /\ e.err = c.err /\ e.curr = c.curr
      /\ \A r \in Streams : /\ e.streams[r].attached = c.streams[r].attached
                            /\ e.streams[r].endOfBatch = c.streams[r].endOfBatch
                            /\ e.streams[r].done = c.streams[r].done
  BY DiscardingTame
<1>3. Discarding(c) = c \/ Discarding(c) = e
  BY DEF Discarding, WithDiscarding
<1> HIDE DEF e
<1> QED
  BY <1>1, <1>2, <1>3 DEF SameQueue

\* TxCommit and TxRollback.
LEMMA TxEndGoes ==
  ASSUME Here, NEW how, TxEnd(how)
  PROVE  Goes
<1> DEFINE e == [at |-> "end", how |-> how, all |-> b.state \in {"streaming", "streamingTx"}]
           f == [at |-> "discard", s |-> b.curr, discarded |-> FALSE]
           d == Discarding(b)
<1>1. /\ Idle /\ b' = d /\ srv' = srv /\ net' = net /\ loan \in {"tx", "single"} /\ loan' = "held"
      /\ stack' = DiscardFrames(b, <<e>>)
  BY DEF TxEnd, Start
<1>2. /\ e.at = "end" /\ e.all = (b.state \in {"streaming", "streamingTx"})
      /\ f.at = "discard" /\ f.s = b.curr /\ f.discarded = FALSE
  OBVIOUS
<1>3. DiscardFrames(b, <<e>>) = IF b.state \notin {"streaming", "streamingTx"} \/ b.curr = 0 THEN <<e>>
                                ELSE ReceiveAll(b, <<f>> \o <<e>>)
  BY DEF DiscardFrames, NoStream
<1> HIDE DEF e, f
<1>4. /\ Conn(b) /\ General(b, "no", srv) /\ Used(b, << >>, "no", loan) /\ (net = "up" => Waited(b, "no"))
  BY <1>1, AtIdle DEF Here, Use
<1>5. /\ Tame(b, d) /\ Conn(d) /\ d.handlers = b.handlers /\ d.out = b.out /\ d.wire = b.wire
      /\ d.made = b.made /\ d.live = b.live /\ d.v = b.v /\ d.state = b.state /\ d.err = b.err /\ d.curr = b.curr
  BY <1>4, DiscardingLike
<1> HIDE DEF d
<1>6. /\ \A x : (b.state = "dead" => x = "no") => General(d, x, srv)
      /\ net = "up" => Waited(d, "no")
      /\ Sent(b) => Sent(d)
  BY <1>4, <1>5, LikeTame
<1>7. <<e>>[1] = e /\ Len(<<e>>) = 1 /\ <<e>> # << >> /\ <<f>> \o <<e>> = <<f, e>>
      /\ <<f, e>>[1] = f /\ <<f, e>>[2] = e /\ Len(<<f, e>>) = 2 /\ <<f, e>> # << >>
  BY ShortConcat
<1>8. (~Down(b) => InTx(b) /\ b.out = << >>) /\ (Down(b) => b.err)
  BY <1>1, <1>4 DEF Used, Shape, Standing, Down, InTx, Conn, States, On, LentFailed
<1>9. \A t : FrameOK(d, e, t)
  BY <1>2, AnyFrame DEF OnResult
<1>10. Put(b, b')
  BY <1>1, <1>5, TamePut
<1>11. CASE stack' = <<e>>
  <2>1. Below(stack') = <<e>> /\ Read(stack') = "no"
    BY <1>2, <1>7, <1>11, NothingRead
  <2>2. ~Down(d) => Shape(d, <<e>>, "no", "held")
    <3>1. ~Down(d) => Standing(d, <<e>>, "no", "held")
      BY <1>2, <1>5, <1>7, <1>8 DEF Standing, InTx, On, Down
    <3>2. ~Down(d) => AtEnd(d, <<e>>, "no", "held")
      BY <1>2, <1>5, <1>7, <1>8 DEF AtEnd, InTx, Down
    <3> QED
      BY <1>2, <1>7, <3>1, <3>2 DEF Shape, Placed, CallFrames
  <2>3. Used(d, <<e>>, "no", "held")
    <3>1. FramesOK(d, <<e>>, "no")
      BY <1>9, FramesShort
    <3>2. Down(d) => d.err
      BY <1>5, <1>8 DEF Down
    <3> QED
      BY <2>2, <3>1, <3>2 DEF Used
  <2>4. StateInv'
    BY <1>1, <1>6, <2>1, <2>3, InUseNext DEF Use
  <2> QED
    BY <1>10, <2>4 DEF Goes
<1>12. CASE stack' # <<e>>
  <2>1. b.state = "streamingTx" /\ b.curr # 0 /\ stack' = ReceiveAll(b, <<f, e>>)
    BY <1>1, <1>3, <1>7, <1>8, <1>12 DEF Down, InTx
  <2>2. LET r == ReceiveAll(b, <<f, e>>)
        IN  Below(r) = <<f, e>> /\ Read(r) = IF b.handlers = << >> THEN "no" ELSE "receiveAll"
    <3>1. f.at \notin {"receive", "receiveAll"}
      BY <1>2
    <3> QED
      BY <3>1, FrameReads
  <2> DEFINE w == Read(stack')
  <2>3. Below(stack') = <<f, e>> /\ w = IF b.handlers = << >> THEN "no" ELSE "receiveAll"
    BY <2>1, <2>2
  <2> HIDE DEF w
  <2>4. FramesOK(d, <<f, e>>, w)
    <3>1. f.s \in d.live .. d.made
      BY <1>2, <1>4, <1>5, <2>1, CurrLive
    <3>2. FrameOK(d, f, w = "no")
      BY <1>2, <3>1, ResultFrame
    <3> QED
      BY <1>9, <3>2, FramesShort
  <2>5. Standing(d, <<f, e>>, w, "held")
    BY <1>2, <1>5, <1>7, <1>8, <2>1 DEF Standing, InTx, On, Down
  <2>6. AtDiscard(d, <<f, e>>, w, "held")
    BY <1>2, <1>5, <1>7, <2>1, <2>3 DEF AtDiscard, InTx
  <2>7. Used(d, <<f, e>>, w, "held")
    BY <1>2, <1>5, <1>7, <2>1, <2>4, <2>5, <2>6 DEF Used, Shape, Placed, CallFrames, Down
  <2>8. net = "up" => Waited(d, w)
    <3>1. Sent(d)
      BY <1>1, <1>6, <1>8, <2>1, AliveMatches DEF Here, Down, InTx
    <3> QED
      BY <1>5, <2>3, <3>1 DEF Waited
  <2>9. General(d, w, srv)
    BY <1>6, <2>1
  <2>10. StateInv'
    BY <1>1, <2>3, <2>7, <2>8, <2>9, InUseNext DEF Use, w
  <2> QED
    BY <1>10, <2>10 DEF Goes
<1> QED
  BY <1>11, <1>12

\* The query for a routing table.
LEMMA CallGetRoutingTableGoes ==
  ASSUME Here, CallGetRoutingTable
  PROVE  Goes
<1> DEFINE g == [at |-> "table", left |-> 2]
           f == [at |-> "run", n |-> All, pack |-> "ok"]
<1>1. /\ Idle /\ b' = b /\ srv' = srv /\ net' = net /\ loan = "borrowed" /\ loan' = "held"
      /\ b.state = "ready" /\ stack' = RunFrames(b, All, "ok", <<g>>)
  BY DEF CallGetRoutingTable, Start, AssertState
<1>2. f.at = "run" /\ g.at = "table"
  OBVIOUS
<1>3. RunFrames(b, All, "ok", <<g>>) = <<f>> \o <<g>>
  BY <1>1 DEF RunFrames
<1> HIDE DEF f, g
<1>4. stack' = <<f, g>> /\ <<f, g>>[1] = f /\ <<f, g>>[2] = g /\ Len(<<f, g>>) = 2 /\ <<f, g>> # << >>
  BY <1>1, <1>3, ShortConcat
<1>5. Conn(b) /\ Used(b, << >>, "no", loan)
  BY <1>1, AtIdle DEF Here, Use
<1>6. FramesOK(b, <<f, g>>, "no")
  BY <1>2, AnyFrame, FramesShort DEF OnResult
<1>7. Open(b) = {} /\ b.curr = 0 /\ Plains(b.handlers) /\ (b.v.major = 4 => b.handlers = << >>)
  BY <1>1, <1>5, LentReady
<1>8. StateInv'
  BY <1>1, <1>2, <1>4, <1>6, <1>7, RunStart
<1> QED
  BY <1>1, <1>8, SamePut DEF Goes
-----------------------------------------------------------------------------
(* Calls that go on.                                                       *)

\* A call goes on with the frames below.
LEMMA GoesBelow ==
  ASSUME NEW S, stack \in Seq(S), stack # << >>
  PROVE  << >> \o Tail(stack) = Tail(stack)
  BY Popped, ConcatEmptySeq

\* A call goes on with f on the frames below, when all was read.
LEMMA ReadOn ==
  ASSUME NEW S, stack \in Seq(S), stack # << >>, NEW f, f.at \notin {"receive", "receiveAll"}, NEW d
  PROVE  LET r == ReceiveAll(d, <<f>>) \o Tail(stack)
             m == <<f>> \o Tail(stack)
         IN  /\ Below(r) = m /\ Read(r) = (IF d.handlers = << >> THEN "no" ELSE "receiveAll")
             /\ m # << >> /\ m[1] = f /\ Tail(m) = Tail(stack) /\ Len(m) = Len(stack)
             /\ \A i \in 2 .. Len(stack) : m[i] = stack[i]
             /\ m \in Seq(S \cup {f})
<1> DEFINE g == [at |-> "receiveAll"]
           r == ReceiveAll(d, <<f>>) \o Tail(stack)
           m == <<f>> \o Tail(stack)
<1>1. /\ Len(stack) \in Nat \ {0} /\ Tail(stack) \in Seq(S) /\ Len(Tail(stack)) = Len(stack) - 1
      /\ \A i \in 1 .. Len(Tail(stack)) : Tail(stack)[i] = stack[i + 1]
  BY Popped
<1>2. /\ m # << >> /\ m[1] = f /\ Tail(m) = Tail(stack) /\ Len(m) = Len(Tail(stack)) + 1
      /\ \A i \in 1 .. Len(Tail(stack)) : m[i + 1] = Tail(stack)[i]
  BY <1>1, Pushed
<1>3. m \in Seq(S \cup {f})
  <2>1. Tail(stack) \in Seq(S \cup {f})
    BY <1>1, SeqMono
  <2> QED
    BY <2>1, OnTop
<1>4. \A i \in 2 .. Len(stack) : m[i] = stack[i]
  <2> SUFFICES ASSUME NEW i \in 2 .. Len(stack) PROVE m[i] = stack[i]
    OBVIOUS
  <2>1. i - 1 \in 1 .. Len(Tail(stack)) /\ (i - 1) + 1 = i
    BY <1>1
  <2>2. m[(i - 1) + 1] = Tail(stack)[i - 1] /\ Tail(stack)[i - 1] = stack[(i - 1) + 1]
    BY <1>1, <1>2, <2>1
  <2> QED
    BY <2>1, <2>2
<1> HIDE DEF m
<1>5. Below(r) = m /\ Read(r) = (IF d.handlers = << >> THEN "no" ELSE "receiveAll")
  <2>1. CASE d.handlers = << >>
    <3>1. r = m
      BY <2>1 DEF ReceiveAll, m
    <3> QED
      BY <1>2, <2>1, <3>1, NothingRead
  <2>2. CASE d.handlers # << >>
    <3>1. r = (<<g>> \o <<f>>) \o Tail(stack)
      BY <2>2 DEF ReceiveAll
    <3>2. (<<g>> \o <<f>>) \o Tail(stack) = <<g>> \o m
      <4> DEFINE T == S \cup {f, g}
                 p == <<g>>
                 q == <<f>>
                 t == Tail(stack)
      <4>1. p \in Seq(T) /\ q \in Seq(T)
        OBVIOUS
      <4>2. t \in Seq(T)
        BY <1>1, SeqMono
      <4> HIDE DEF p, q, t, T
      <4>3. (p \o q) \o t = p \o (q \o t)
        BY <4>1, <4>2, ConcatAssociative
      <4> QED
        BY <4>3 DEF p, q, t, m
    <3>3. Below(<<g>> \o m) = m /\ Read(<<g>> \o m) = "receiveAll"
      BY <1>3, SomethingRead
    <3> HIDE DEF r, g
    <3> QED
      BY <2>2, <3>1, <3>2, <3>3
  <2> QED
    BY <2>1, <2>2
<1> HIDE DEF r
<1>6. Len(m) = Len(stack)
  BY <1>1, <1>2
<1> QED
  BY <1>2, <1>3, <1>4, <1>5, <1>6 DEF m, r

\* An error ends what is on top.
LEMMA ErrorPop ==
  ASSUME Here, ~Idle, Top.at \in CallFrames, loan # "pipelined", loan' = loan, srv' = srv, net' = net,
         stack' = Tail(stack), Tame(b, b'), b'.err, Down(b'), b'.made = b.made \/ ~Down(b),
         b'.state = "failed" => srv.st = "failed" \/ Plains(b'.handlers), b.state = "dead" => b'.state = "dead",
         net = "up" => Waited(b', "no")
  PROVE  Goes
<1>1. /\ loan \in Use \ {"borrowed", "announced"} /\ Conn(b) /\ General(b, "no", srv) /\ Used(b, stack, "no", loan)
      /\ \E S : stack \in Seq(S)
  BY AtFrame DEF Here
<1>2. Conn(b')
  BY DEF Here, BoltInv
<1>3. General(b', "no", srv)
  BY <1>1, <1>2, GeneralTame
<1>4. FramesOK(b', Tail(stack), "no") /\ Below(Tail(stack)) = Tail(stack) /\ Read(Tail(stack)) = "no"
  <2>1. FramesOK(b, stack, "no") /\ stack # << >>
    BY <1>1 DEF Used, Idle
  <2> QED
    BY <1>1, <1>2, <2>1, FramesTame
<1>5. StateInv'
  BY <1>1, <1>3, <1>4, ErrorNext DEF Use
<1> QED
  BY <1>5, TamePut DEF Goes

\* A call that ends with an error of before.
LEMMA SamePop ==
  ASSUME Here, ~Idle, Top.at \in CallFrames, b.err, loan' = loan, srv' = srv, net' = net,
         stack' = Tail(stack), b' = b
  PROVE  Goes
<1>1. /\ Conn(b) /\ General(b, "no", srv) /\ Used(b, stack, "no", loan) /\ (net = "up" => Waited(b, "no"))
  BY AtFrame DEF Here
<1>2. Down(b)
  BY <1>1 DEF General
<1>3. Tame(b, b') /\ loan # "pipelined"
  BY <1>1, <1>2, TameSame DEF Used
<1>4. b.state = "failed" => srv.st = "failed" \/ Plains(b.handlers)
  BY <1>1 DEF General
<1> QED
  BY <1>1, <1>2, <1>3, <1>4, ErrorPop

\* The failed connection that was lent all the same is of no use to a call.
LEMMA UpIfNoError ==
  ASSUME Here, ~Idle, Top.at \in CallFrames, Top.at # "begin", ~b.err
  PROVE  ~Down(b) /\ Shape(b, stack, "no", loan) /\ Standing(b, stack, "no", loan) /\ Placed(b, stack, "no", loan)
<1>1. Used(b, stack, "no", loan) /\ Top = stack[1] /\ stack # << >>
  BY AtFrame DEF Here, Idle
<1>2. ~Down(b)
  BY <1>1 DEF Used, LentFailed
<1> QED
  BY <1>1, <1>2 DEF Used, Shape
\* A step of a connection that works.
LEMMA AliveNext ==
  ASSUME Here, loan \in Use, loan' \in Use \ {"borrowed", "announced"}, srv' = srv, net' = net, NEW y, General(b, y, srv),
         ~Down(b), ~Down(b'), ~b'.err, Tame(b, b'), NEW m, NEW w, Below(stack') = m, Read(stack') = w,
         FramesOK(b', m, w), Shape(b', m, w, loan'), net = "up" => Waited(b', w)
  PROVE  Goes
<1>1. Conn(b) /\ Conn(b')
  BY DEF Here, BoltInv
<1>2. General(b', w, srv)
  <2>1. srv.st # "failed" /\ b.state # "dead" /\ b'.state # "dead" /\ b'.state # "failed"
    BY DEF General, Down
  <2> QED
    BY <1>1, <2>1, GeneralTame
<1>3. Used(b', m, w, loan')
  BY DEF Used
<1>4. StateInv'
  BY <1>2, <1>3, InUseNext
<1> QED
  BY <1>4, TamePut DEF Goes

\* The same, for a call that ends what is on top and leaves the connection as it is.
LEMMA AlivePop ==
  ASSUME Here, ~Idle, Top.at \in CallFrames, ~Down(b), ~b.err, loan' = loan, srv' = srv, net' = net,
         stack' = Tail(stack), b' = b, Shape(b, Tail(stack), "no", loan)
  PROVE  Goes
<1>1. /\ loan \in Use \ {"borrowed", "announced"} /\ Conn(b) /\ General(b, "no", srv) /\ (net = "up" => Waited(b, "no"))
      /\ Used(b, stack, "no", loan) /\ \E S : stack \in Seq(S)
  BY AtFrame DEF Here
<1>2. Tame(b, b')
  BY <1>1, TameSame
<1>3. FramesOK(b, Tail(stack), "no") /\ Below(Tail(stack)) = Tail(stack) /\ Read(Tail(stack)) = "no"
  <2>1. FramesOK(b, stack, "no") /\ stack # << >> /\ Tame(b, b)
    BY <1>1, <1>2 DEF Used, Idle
  <2> QED
    BY <1>1, <2>1, FramesTame
<1> QED
  BY <1>1, <1>2, <1>3, AliveNext

\* A frame and what is below it.
LEMMA AtTop ==
  ASSUME Here, ~Idle, Top.at \in CallFrames
  PROVE  /\ stack # << >> /\ Top = stack[1] /\ << >> \o Tail(stack) = Tail(stack)
         /\ Len(stack) = 1 => Tail(stack) = << >>
         /\ Len(stack) = 2 => /\ Tail(stack) = <<stack[2]>> /\ Tail(stack) # << >> /\ Tail(stack)[1] = stack[2]
                              /\ Len(Tail(stack)) = 1
<1>1. /\ Top = stack[1] /\ \E S : stack \in Seq(S)
      /\ Len(stack) = 1 => stack = <<Top>> /\ Tail(stack) = << >>
      /\ Len(stack) = 2 => stack = <<Top, stack[2]>> /\ Tail(stack) = <<stack[2]>>
  BY AtFrame DEF Here
<1>2. stack # << >>
  BY DEF Idle
<1>3. << >> \o Tail(stack) = Tail(stack)
  BY <1>1, <1>2, GoesBelow
<1>4. <<stack[2]>> # << >> /\ <<stack[2]>>[1] = stack[2] /\ Len(<<stack[2]>>) = 1
  OBVIOUS
<1> QED
  BY <1>1, <1>2, <1>3, <1>4

\* bufferStream has what it wanted.
LEMMA BufferedGoes ==
  ASSUME Here, BufferStream, b.err \/ b.streams[Top.s].done # "no"
  PROVE  Goes
<1>1. /\ ~Idle /\ Top.at = "buffer" /\ loan' = loan /\ Continue(b, << >>)
  BY DEF BufferStream, At
<1>2. /\ stack # << >> /\ Top = stack[1] /\ << >> \o Tail(stack) = Tail(stack)
      /\ Len(stack) = 1 => Tail(stack) = << >>
      /\ Len(stack) = 2 => /\ Tail(stack) # << >> /\ Tail(stack)[1] = stack[2] /\ Len(Tail(stack)) = 1
  BY <1>1, AtTop DEF CallFrames
<1>3. b' = b /\ srv' = srv /\ net' = net /\ stack' = Tail(stack)
  BY <1>1, <1>2 DEF Continue
<1>4. CASE b.err
  BY <1>1, <1>3, <1>4, SamePop DEF CallFrames
<1>5. CASE ~b.err
  <2>1. ~Down(b) /\ Standing(b, stack, "no", loan) /\ Placed(b, stack, "no", loan) 
    BY <1>1, <1>5, UpIfNoError DEF CallFrames
  <2>2. AtBuffer(b, stack, "no", loan) /\ Over(b, stack[1].s)
    BY <1>1, <1>2, <1>5, <2>1 DEF Placed, Over
  <2>3. CASE InTx(b)
    <3>1. Len(stack) = 1
      BY <2>2, <2>3 DEF AtBuffer
    <3>2. Standing(b, << >>, "no", loan)
      BY <1>1, <1>2, <2>1, <2>3, <3>1 DEF Standing, On, InTx
    <3>3. Shape(b, Tail(stack), "no", loan)
      BY <1>2, <3>1, <3>2 DEF Shape
    <3> QED
      BY <1>1, <1>3, <1>5, <2>1, <3>3, AlivePop DEF CallFrames
  <2>4. CASE ~InTx(b)
    <3>1. /\ loan = "held" /\ Drains(b, stack[1].s, "no") /\ Open(b) \subseteq {stack[1].s}
          /\ Len(stack) = 1 \/ (Len(stack) = 2 /\ stack[2].at \in {"begin", "run"})
      BY <2>2, <2>4 DEF AtBuffer
    <3>2. Open(b) = {} /\ b.handlers = << >> /\ (b.state = "ready" => b.curr = 0)
      BY <2>2, <3>1 DEF Open, Drains
    <3>3. b.state \in {"ready", "streaming"} /\ b.out = << >>
      <4>1. b.state \in States
        BY DEF Here, BoltInv, Conn
      <4>2. b.state # "unauthorized"
        BY <2>1 DEF Standing
      <4>3. b.out = << >>
        BY <1>1, <1>2, <2>1, <3>1 DEF Standing, On
      <4> QED
        BY <2>1, <2>4, <4>1, <4>2, <4>3 DEF States, Down, InTx
    <3>4. Plains(b.handlers)
      BY <3>2 DEF Plains
    <3>5. Standing(b, Tail(stack), "no", "held")
      BY <3>2, <3>3, <3>4 DEF Standing, InTx, Single
    <3>6. Shape(b, Tail(stack), "no", "held")
      <4>1. CASE Len(stack) = 1
        BY <1>2, <3>3, <3>5, <4>1 DEF Shape
      <4>2. CASE Len(stack) = 2 /\ stack[2].at = "begin"
        BY <1>2, <3>2, <3>3, <3>5, <4>2 DEF Shape, Placed, AtBegin, CallFrames
      <4>3. CASE Len(stack) = 2 /\ stack[2].at = "run"
        BY <1>2, <2>4, <3>2, <3>3, <3>5, <4>3 DEF Shape, Placed, AtRunFrame, CallFrames
      <4> QED
        BY <3>1, <4>1, <4>2, <4>3
    <3> QED
      BY <1>1, <1>3, <1>5, <2>1, <3>1, <3>6, AlivePop DEF CallFrames
  <2> QED
    BY <2>3, <2>4
<1> QED
  BY <1>4, <1>5
\* The rest of a result is asked for.
LEMMA PullAllTame ==
  ASSUME NEW c, Conn(c), NEW s \in 1 .. c.made, s >= c.live, c.v.major # 3
  PROVE  LET e == AppendPullN([c EXCEPT !.streams[s].fetch = All], s)
         IN  /\ Tame(c, e) /\ Conn(e) /\ e.err = c.err /\ e.state = c.state /\ e.curr = c.curr
             /\ e.made = c.made /\ e.live = c.live /\ e.v = c.v /\ e.wire = c.wire
             /\ \A r \in Streams : e.streams[r].endOfBatch = c.streams[r].endOfBatch /\ e.streams[r].done = c.streams[r].done
             /\ IF c.state \in {"streaming", "streamingTx"}
                THEN e.handlers = Append(c.handlers, [on |-> "pull", s |-> s]) /\ e.handlers # << >>
                ELSE e.handlers = c.handlers
<1> DEFINE d == WithAll(c, s)
           e == AppendPullN(d, s)
<1>1. /\ Tame(c, d) /\ Conn(d) /\ SameQueue(c, d) /\ d.state = c.state /\ d.err = c.err /\ d.curr = c.curr
      /\ \A r \in Streams : d.streams[r].endOfBatch = c.streams[r].endOfBatch /\ d.streams[r].done = c.streams[r].done
  BY FetchTame
<1>2. [c EXCEPT !.streams[s].fetch = All] = d
  BY DEF WithAll
<1> HIDE DEF d
<1>3. s \in 1 .. d.made /\ s >= d.live /\ d.v.major # 3
  BY <1>1 DEF SameQueue
<1>4. /\ Tame(d, e) /\ Conn(e) /\ e.err = d.err /\ e.state = d.state /\ e.curr = d.curr
      /\ e.made = d.made /\ e.live = d.live /\ e.v = d.v /\ e.streams = d.streams /\ e.wire = d.wire
      /\ IF d.state \in {"streaming", "streamingTx"}
         THEN e.handlers = Append(d.handlers, [on |-> "pull", s |-> s]) /\ e.handlers # << >>
         ELSE e = d
  BY <1>1, <1>3, PullTame
<1> HIDE DEF e
<1>5. Tame(c, e)
  BY <1>1, <1>4, TameTrans
<1> QED
  BY <1>1, <1>2, <1>4, <1>5 DEF SameQueue, e

\* One handler more.
LEMMA OneHandler ==
  ASSUME NEW c, Conn(c), NEW h, c.handlers = << >>
  PROVE  Len(Append(c.handlers, h)) = 1 /\ Append(c.handlers, h)[1] = h
  OBVIOUS

\* What is sent can be waited for.
LEMMA SentNext ==
  ASSUME Here, net = "up", b'.state # "dead", loan' # "gone", b'.out = << >>, b'.v = b.v, NEW w,
         w # "no" => b'.handlers # << >>
  PROVE  Waited(b', w)
<1>1. Sent(b')
  BY AliveMatchesNext DEF Here
<1> QED
  BY <1>1 DEF Waited

\* The result that the frame on top is about.
LEMMA TopResult ==
  ASSUME Here, ~Idle, Top.at \in OnResult
  PROVE  /\ Top.s \in b.live .. b.made /\ Top.s \in 1 .. b.made /\ Top.s >= b.live /\ b.live <= b.made /\ Top.s \in Streams
         /\ Top.s # 0
<1>1. Used(b, stack, "no", loan) /\ Conn(b) /\ Top = stack[1] /\ \E S : stack \in Seq(S)
  BY AtFrame DEF Here, OnResult, CallFrames
<1>2. 1 \in 1 .. Len(stack)
  BY <1>1, Popped DEF Idle
<1>3. FrameOK(b, Top, TRUE)
  <2>1. FrameOK(b, stack[1], 1 = 1 /\ "no" = "no")
    BY <1>1, <1>2 DEF Used, FramesOK
  <2> QED
    BY <1>1, <2>1
<1>4. Top.s \in b.live .. b.made
  BY <1>3 DEF FrameOK
<1>5. b.live \in 1 .. b.made + 1 /\ b.made \in 0 .. MaxStreams
  BY <1>1 DEF Conn
<1> QED
  BY <1>4, <1>5, StreamsAreCounted DEF Streams

\* bufferStream asks for more.
LEMMA BufferMoreGoes ==
  ASSUME Here, BufferStream, ~b.err, b.streams[Top.s].done = "no"
  PROVE  Goes
<1> DEFINE s == Top.s
           c == AppendPullN([b EXCEPT !.streams[s].fetch = All], s)
           d == Send(c)
           m == <<Top>> \o Tail(stack)
           w == Read(stack')
<1>1. /\ ~Idle /\ Top.at = "buffer" /\ loan' = loan /\ b' = d /\ srv' = srv /\ net' = net
      /\ stack' = ReceiveAll(d, <<Top>>) \o Tail(stack)
  BY DEF BufferStream, At, Continue
<1>2. /\ loan \in Use \ {"borrowed", "announced"} /\ Conn(b) /\ b.v.major # 3 /\ General(b, "no", srv)
      /\ Used(b, stack, "no", loan) /\ \E S : stack \in Seq(S)
  BY <1>1, AtFrame DEF Here, CallFrames
<1>3. s \in b.live .. b.made /\ s \in 1 .. b.made /\ s >= b.live /\ b.live <= b.made /\ s \in Streams /\ s # 0
  BY <1>1, TopResult DEF OnResult
<1>4. /\ Tame(b, c) /\ Conn(c) /\ c.err = b.err /\ c.state = b.state /\ c.curr = b.curr
      /\ c.made = b.made /\ c.live = b.live /\ c.v = b.v
      /\ \A r \in Streams : c.streams[r].endOfBatch = b.streams[r].endOfBatch /\ c.streams[r].done = b.streams[r].done
      /\ IF b.state \in {"streaming", "streamingTx"}
         THEN c.handlers = Append(b.handlers, [on |-> "pull", s |-> s]) /\ c.handlers # << >>
         ELSE c.handlers = b.handlers
  BY <1>2, <1>3, PullAllTame
<1> HIDE DEF c
<1>5. /\ Tame(c, d) /\ Conn(d) /\ d.handlers = c.handlers /\ d.made = c.made /\ d.live = c.live /\ d.v = c.v
      /\ net # "down" => /\ d.state = c.state /\ d.err = c.err /\ d.curr = c.curr /\ d.streams = c.streams
                         /\ d.out = << >>
      /\ net = "down" => d.err /\ d.state = "dead"
  BY <1>4, SendTame
<1> HIDE DEF d
<1>6. Tame(b, d)
  BY <1>2, <1>4, <1>5, TameTrans
<1>7. /\ Below(stack') = m /\ w = (IF d.handlers = << >> THEN "no" ELSE "receiveAll")
      /\ m # << >> /\ m[1] = Top /\ Len(m) = Len(stack)
      /\ \A i \in 2 .. Len(stack) : m[i] = stack[i]
  <2>1. stack # << >> /\ Top.at \notin {"receive", "receiveAll"}
    BY <1>1 DEF Idle
  <2> QED
    BY <1>1, <1>2, <2>1, ReadOn
<1> HIDE DEF m
<1>8. FramesOK(d, m, w)
  <2>1. Top.s \in d.live .. d.made
    BY <1>3, <1>4, <1>5
  <2>2. FrameOK(d, m[1], w = "no")
    BY <1>1, <1>7, <2>1, ResultFrame
  <2>3. FramesOK(b, stack, "no")
    BY <1>2 DEF Used
  <2> QED
    BY <1>2, <1>5, <1>6, <1>7, <2>2, <2>3, FramesReplace
<1>9. ~Down(b) /\ Standing(b, stack, "no", loan) /\ Placed(b, stack, "no", loan) /\ Top = stack[1]
  BY <1>1, UpIfNoError, AtTop DEF CallFrames
<1>10. CASE net = "down"
  <2>1. General(d, w, srv)
    BY <1>2, <1>3, <1>4, <1>5, <1>6, <1>9, <1>10, GeneralTame DEF Down
  <2>2. loan \in {"held", "tx", "single"}
    <3>1. loan # "pipelined"
      BY <1>1, <1>7, <1>9 DEF Standing, On, Idle
    <3> QED
      BY <1>2, <3>1 DEF Use
  <2>3. StateInv'
    BY <1>1, <1>5, <1>7, <1>8, <1>10, <2>1, <2>2, ErrorNext DEF Down
  <2> QED
    BY <1>1, <1>6, <2>3, TamePut DEF Goes
<1>11. CASE net = "up"
  <2>1. d.state = b.state /\ ~d.err /\ d.curr = b.curr /\ d.out = << >> /\ ~Down(d) /\ (InTx(d) <=> InTx(b))
        /\ \A r \in Streams : d.streams[r].endOfBatch = b.streams[r].endOfBatch /\ d.streams[r].done = b.streams[r].done
    BY <1>4, <1>5, <1>9, <1>11 DEF Down, InTx
  <2>2. AtBuffer(b, stack, "no", loan)
    BY <1>1, <1>9 DEF Placed
  <2>3. Open(d) \subseteq Open(b)
    BY <1>2, <1>4, <1>5, <1>6, OpenShrinks
  <2>4. ~Over(b, s) /\ ~Over(d, s)
    BY <1>3, <2>1 DEF Over
  <2>5. Shape(d, m, w, loan)
    <3>1. CASE InTx(b)
      <4>1. Standing(d, m, w, loan)
        BY <1>1, <1>7, <1>9, <2>1, <3>1 DEF Standing, InTx, On
      <4>2. AtBuffer(d, m, w, loan)
        BY <1>7, <2>1, <2>2, <3>1 DEF AtBuffer
      <4> QED
        BY <1>1, <1>7, <4>1, <4>2 DEF Shape, Placed, CallFrames
    <3>2. CASE ~InTx(b)
      <4>1. /\ loan = "held" /\ Drains(b, s, "no") /\ Open(b) \subseteq {s}
            /\ Len(stack) = 1 \/ (Len(stack) = 2 /\ stack[2].at \in {"begin", "run"})
        BY <1>9, <2>2, <3>2 DEF AtBuffer
      <4>2. b.handlers = << >> /\ b.curr = s /\ b.state # "ready"
        BY <2>4, <4>1 DEF Drains
      <4>3. b.state = "streaming"
        <5>1. b.state \in States /\ b.state # "unauthorized"
          BY <1>2, <1>9 DEF Conn, Standing
        <5> QED
          BY <1>9, <3>2, <4>2, <5>1 DEF States, Down, InTx
      <4>4. Len(d.handlers) = 1 /\ d.handlers[1].s = s /\ d.handlers # << >>
        <5>1. PICK h : h = [on |-> "pull", s |-> s]
          OBVIOUS
        <5>2. d.handlers = Append(b.handlers, h) /\ d.handlers # << >>
          BY <1>4, <1>5, <4>3, <5>1
        <5> QED
          BY <1>2, <4>2, <5>1, <5>2, OneHandler
      <4>5. Single(d) /\ d.curr = s /\ d.state = "streaming"
        BY <1>3, <2>1, <4>2, <4>3, <4>4 DEF Single
      <4>6. Standing(d, m, w, "held")
        BY <1>1, <1>7, <2>1, <2>3, <4>1, <4>5 DEF Standing, InTx, On
      <4>7. Drains(d, s, w) /\ w = "receiveAll"
        BY <1>7, <4>4, <4>5 DEF Drains
      <4>8. AtBuffer(d, m, w, "held")
        <5>1. Len(m) = 1 \/ (Len(m) = 2 /\ m[2].at \in {"begin", "run"})
          BY <1>7, <4>1
        <5> QED
          BY <1>7, <2>1, <2>3, <3>2, <4>1, <4>7, <5>1 DEF AtBuffer
      <4> QED
        BY <1>1, <1>7, <4>1, <4>6, <4>8 DEF Shape, Placed, CallFrames
    <3> QED
      BY <3>1, <3>2
  <2>6. Waited(d, w)
    <3>1. w # "no" => d.handlers # << >>
      BY <1>7
    <3> QED
      BY <1>1, <1>2, <1>4, <1>5, <1>11, <2>1, <3>1, SentNext DEF Use, Down
  <2> QED
    BY <1>1, <1>2, <1>6, <1>7, <1>8, <1>9, <2>1, <2>5, <2>6, AliveNext
<1> QED
  BY <1>10, <1>11 DEF Here, BoltInv
\* A step of a connection that works, and ends what is on top.
LEMMA AlivePopTo ==
  ASSUME Here, ~Idle, Top.at \in CallFrames, ~Down(b), ~Down(b'), ~b'.err, loan' \in Use \ {"borrowed", "announced"},
         srv' = srv, net' = net, stack' = Tail(stack), Tame(b, b'), Shape(b', Tail(stack), "no", loan'),
         net = "up" => Waited(b', "no")
  PROVE  Goes
<1>1. /\ loan \in Use /\ Conn(b) /\ General(b, "no", srv) /\ Used(b, stack, "no", loan) /\ \E S : stack \in Seq(S)
  BY AtFrame DEF Here
<1>2. Conn(b')
  BY DEF Here, BoltInv
<1>3. FramesOK(b', Tail(stack), "no") /\ Below(Tail(stack)) = Tail(stack) /\ Read(Tail(stack)) = "no"
  <2>1. FramesOK(b, stack, "no") /\ stack # << >>
    BY <1>1 DEF Used, Idle
  <2> QED
    BY <1>1, <1>2, <2>1, FramesTame
<1> QED
  BY <1>1, <1>3, AliveNext

\* A call sends what it queued, and goes on unless that fails.
LEMMA SendGoes ==
  ASSUME Here, ~Idle, Top.at \in CallFrames, ~Down(b), ~b.err, loan' = loan, loan # "pipelined", srv' = srv, net' = net,
         NEW c, Conn(c), Tame(b, c), c.state = b.state, c.err = b.err, b' = Send(c),
         NEW m, NEW w, Below(stack') = m, Read(stack') = w, FramesOK(b', m, w),
         w # "no" => b'.handlers # << >>,
         net = "down" /\ w # "no" => b'.live <= b'.made,
         net = "up" => Shape(b', m, w, loan)
  PROVE  Goes
<1> DEFINE d == Send(c)
<1>1. /\ Tame(c, d) /\ Conn(d)
      /\ net # "down" => d.state = c.state /\ d.err = c.err /\ d.out = << >>
      /\ net = "down" => d.err /\ d.state = "dead"
  BY SendTame
<1> HIDE DEF d
<1>2. /\ loan \in Use \ {"borrowed", "announced"} /\ Conn(b) /\ General(b, "no", srv) /\ net \in {"up", "down"}
  BY AtFrame DEF Here
<1>3. Tame(b, d) /\ b' = d
  BY <1>1, <1>2, TameTrans DEF d
<1>4. CASE net = "down"
  <2>1. General(d, w, srv)
    BY <1>1, <1>2, <1>3, <1>4, GeneralTame DEF Down
  <2>2. loan \in {"held", "tx", "single"}
    BY <1>2 DEF Use
  <2>3. StateInv'
    BY <1>1, <1>3, <1>4, <2>1, <2>2, ErrorNext DEF Down
  <2> QED
    BY <1>3, <2>3, TamePut DEF Goes
<1>5. CASE net = "up"
  <2>1. d.state = b.state /\ ~d.err /\ d.out = << >> /\ ~Down(d) /\ d.v = b.v
    BY <1>1, <1>3, <1>5 DEF Down, Tame
  <2>2. Waited(d, w)
    BY <1>2, <1>3, <1>5, <2>1, SentNext DEF Use, Down
  <2> QED
    BY <1>2, <1>3, <1>5, <2>1, <2>2, AliveNext
<1> QED
  BY <1>2, <1>4, <1>5

\* A stream is paused.
LEMMA PauseTame ==
  ASSUME NEW c, Conn(c)
  PROVE  LET d == Pause(c)
         IN  /\ Tame(c, d) /\ d.handlers = c.handlers /\ d.out = c.out /\ d.wire = c.wire /\ d.made = c.made
             /\ d.state = c.state /\ d.err = c.err /\ d.v = c.v /\ d.live = c.live
<1> DEFINE d == Pause(c)
<1>1. /\ d.handlers = c.handlers /\ d.out = c.out /\ d.wire = c.wire /\ d.made = c.made /\ d.live = c.live
      /\ d.state = c.state /\ d.err = c.err /\ d.v = c.v /\ d.streams = c.streams /\ d.curr = 0
  BY DEF Pause, Conn, ConnFields, NoStream
<1> HIDE DEF d
<1>2. Tame(c, d)
  BY <1>1, TameSame
<1> QED
  BY <1>1, <1>2 DEF d

\* pauseStream.
LEMMA PauseStreamGoes ==
  ASSUME Here, PauseStream
  PROVE  Goes
<1>1. /\ ~Idle /\ Top.at = "pause" /\ loan' = loan
      /\ b' = b \/ (b' = Pause(b) /\ ~b.err)
      /\ srv' = srv /\ net' = net /\ stack' = << >> \o Tail(stack)
  BY DEF PauseStream, At, Continue
<1>2. /\ stack # << >> /\ Top = stack[1] /\ stack' = Tail(stack)
      /\ Len(stack) = 2 => Tail(stack) # << >> /\ Tail(stack)[1] = stack[2] /\ Len(Tail(stack)) = 1
  BY <1>1, AtTop DEF CallFrames
<1>3. /\ loan \in Use \ {"borrowed", "announced"} /\ Conn(b) /\ General(b, "no", srv) /\ (net = "up" => Waited(b, "no"))
  BY <1>1, AtFrame DEF Here, CallFrames
<1>4. CASE b.err
  BY <1>1, <1>2, <1>4, SamePop DEF CallFrames
<1>5. CASE ~b.err
  <2>1. ~Down(b) /\ Standing(b, stack, "no", loan) /\ Placed(b, stack, "no", loan)
    BY <1>1, <1>5, UpIfNoError DEF CallFrames
  <2>2. AtPause(b, stack, "no", loan)
    BY <1>1, <1>2, <2>1 DEF Placed
  <2>3. PICK d : d = b'
    OBVIOUS
  <2>4. /\ Tame(b, d) /\ d.handlers = b.handlers /\ d.out = b.out /\ d.wire = b.wire /\ d.made = b.made
        /\ d.state = b.state /\ d.err = b.err /\ d.v = b.v /\ d.live = b.live
    BY <1>1, <1>3, <2>3, PauseTame, TameSame
  <2>5. Conn(d)
    BY <2>3 DEF Here, BoltInv
  <2>6. b.out = << >>
    BY <1>1, <1>2, <2>1, <2>2 DEF Standing, On, AtPause
  <2>7. net = "up" => Waited(d, "no")
    BY <1>3, <2>4, <2>5, LikeTame
  <2>8. ~Down(d) /\ InTx(d) /\ ~d.err /\ d.out = << >> /\ loan \in {"tx", "single"}
    BY <1>5, <2>1, <2>2, <2>4, <2>6 DEF Down, InTx, AtPause
  <2>9. Standing(d, Tail(stack), "no", loan)
    BY <2>8 DEF Standing, InTx
  <2>10. Shape(d, Tail(stack), "no", loan)
    <3>1. CASE stack[2].at = "run"
      BY <1>2, <2>2, <2>8, <2>9, <3>1 DEF AtPause, Shape, Placed, CallFrames, AtRunFrame
    <3>2. CASE stack[2].at = "exhaust" /\ stack[2].switch
      BY <1>2, <2>2, <2>8, <2>9, <3>2 DEF AtPause, Shape, Placed, CallFrames, AtExhaust
    <3> QED
      BY <2>2, <3>1, <3>2 DEF AtPause
  <2> QED
    BY <1>1, <1>2, <1>3, <2>1, <2>3, <2>4, <2>7, <2>8, <2>10, AlivePopTo DEF CallFrames
<1> QED
  BY <1>4, <1>5

\* A stream that is let go of.
LEMMA RemoveTame ==
  ASSUME NEW c, Conn(c), NEW s \in 0 .. c.made
  PROVE  LET d == CheckStreams(Remove(c, s))
         IN  /\ Tame(c, d) /\ d.handlers = c.handlers /\ d.out = c.out /\ d.wire = c.wire /\ d.made = c.made
             /\ d.err = c.err /\ d.v = c.v /\ d.live = c.live
             /\ d.state = c.state \/ (c.state = "streaming" /\ d.state = "ready")
                \/ (c.state = "streamingTx" /\ d.state = "tx")
<1> DEFINE q == [c.streams[s] EXCEPT !.safe = FALSE]
           e == Remove(c, s)
           d == CheckStreams(e)
<1>1. Conn(e)
  BY RemoveSame
<1>2. e.v = c.v /\ e.live = c.live /\ e.made = c.made /\ e.curr = (IF c.curr = s THEN 0 ELSE c.curr)
      /\ e.handlers = c.handlers /\ e.out = c.out /\ e.wire = c.wire /\ e.err = c.err /\ e.state = c.state
      /\ e.streams = [c.streams EXCEPT ![s] = q]
  BY DEF Remove, Conn, ConnFields, NoStream
<1>3. s \in Streams => /\ q.safe = FALSE /\ q.done = c.streams[s].done /\ q.fifo = c.streams[s].fifo
                       /\ q.given = c.streams[s].given
  BY DEF Conn, StreamOK, StreamFields
<1> HIDE DEF e, q
<1>4. Tame(c, e)
  BY <1>2, <1>3, TameOne
<1>5. /\ Tame(e, d) /\ d.handlers = e.handlers /\ d.out = e.out /\ d.wire = e.wire /\ d.made = e.made
      /\ d.curr = e.curr /\ d.streams = e.streams /\ d.err = e.err
      /\ (d.state = e.state \/ (e.state = "streaming" /\ d.state = "ready")
         \/ (e.state = "streamingTx" /\ d.state = "tx"))
  BY <1>1, CheckStreamsTame
<1>6. Conn(d)
  BY <1>1, CheckStreamsSame
<1> HIDE DEF d
<1>7. Tame(c, d)
  BY <1>1, <1>4, <1>5, <1>6, TameTrans
<1> QED
  BY <1>2, <1>5, <1>7 DEF Tame, d, e
\* discardStream has nothing left to do: the result is over.
LEMMA DiscardOverGoes ==
  ASSUME Here, At("discard"), b.err \/ b.streams[Top.s].done # "no", Continue(b, << >>), UNCHANGED loan
  PROVE  Goes
<1>1. /\ ~Idle /\ Top.at = "discard" /\ loan' = loan /\ b' = b /\ srv' = srv /\ net' = net
      /\ stack' = << >> \o Tail(stack)
  BY DEF At, Continue
<1>2. /\ stack # << >> /\ Top = stack[1] /\ stack' = Tail(stack)
      /\ Len(stack) = 1 => Tail(stack) = << >>
      /\ Len(stack) = 2 => Tail(stack) # << >> /\ Tail(stack)[1] = stack[2] /\ Len(Tail(stack)) = 1
  BY <1>1, AtTop DEF CallFrames
<1>3. CASE b.err
  BY <1>1, <1>2, <1>3, SamePop DEF CallFrames
<1>4. CASE ~b.err
  <2>1. ~Down(b) /\ Standing(b, stack, "no", loan) /\ Placed(b, stack, "no", loan)
    BY <1>1, <1>4, UpIfNoError DEF CallFrames
  <2>2. AtDiscard(b, stack, "no", loan) /\ Over(b, Top.s)
    BY <1>1, <1>2, <1>4, <2>1 DEF Placed, Over
  <2>3. b.out = << >> /\ loan # "pipelined" /\ b.state # "unauthorized" /\ loan \in Use
    <3>1. loan \in Use \ {"borrowed", "announced"}
      BY <1>1, AtFrame DEF Here, CallFrames
    <3> QED
      BY <1>1, <1>2, <2>1, <3>1 DEF Standing, On
  <2>4. Shape(b, Tail(stack), "no", loan)
    <3>1. CASE InTx(b) /\ Len(stack) = 1
      <4>1. Standing(b, << >>, "no", loan)
        BY <1>1, <1>2, <2>1, <2>3, <3>1 DEF Standing, On, InTx
      <4> QED
        BY <1>2, <3>1, <4>1 DEF Shape
    <3>2. CASE InTx(b) /\ Len(stack) = 2
      <4>1. stack[2].at = "end" /\ stack[2].all /\ loan = "held"
        BY <2>2, <3>2 DEF AtDiscard
      <4>2. Standing(b, Tail(stack), "no", loan)
        BY <1>2, <2>3, <3>2, <4>1 DEF Standing, On, InTx
      <4> QED
        BY <1>2, <3>2, <4>1, <4>2 DEF Shape, Placed, CallFrames, AtEnd
    <3>3. CASE ~InTx(b)
      <4>1. loan = "held" /\ Len(stack) = 1 /\ b.handlers = << >>
        BY <2>2, <3>3 DEF AtDiscard, Drains
      <4>2. Plains(b.handlers)
        BY <4>1 DEF Plains
      <4>3. Standing(b, << >>, "no", "held")
        BY <2>1, <2>3, <3>3, <4>1, <4>2 DEF Standing, InTx, On, Single
      <4> QED
        BY <1>2, <4>1, <4>3 DEF Shape
    <3> QED
      BY <2>2, <3>1, <3>2, <3>3 DEF AtDiscard
  <2> QED
    BY <1>1, <1>2, <1>4, <2>1, <2>4, AlivePop DEF CallFrames
<1> QED
  BY <1>3, <1>4

\* discardStream lets go of a result whose DISCARD was answered.
LEMMA DiscardedGoes ==
  ASSUME Here, At("discard"), ~b.err, b.streams[Top.s].done = "no", Top.discarded,
         Continue(CheckStreams(Remove(b, Top.s)), << >>), UNCHANGED loan
  PROVE  Goes
<1> DEFINE d == CheckStreams(Remove(b, Top.s))
<1>1. /\ ~Idle /\ Top.at = "discard" /\ loan' = loan /\ b' = d /\ srv' = srv /\ net' = net
      /\ stack' = << >> \o Tail(stack)
  BY DEF At, Continue
<1>2. /\ stack # << >> /\ Top = stack[1] /\ stack' = Tail(stack)
      /\ Len(stack) = 1 => Tail(stack) = << >>
      /\ Len(stack) = 2 => Tail(stack) # << >> /\ Tail(stack)[1] = stack[2] /\ Len(Tail(stack)) = 1
  BY <1>1, AtTop DEF CallFrames
<1>3. /\ loan \in Use \ {"borrowed", "announced"} /\ Conn(b) /\ General(b, "no", srv) /\ (net = "up" => Waited(b, "no"))
  BY <1>1, AtFrame DEF Here, CallFrames
<1>4. ~Down(b) /\ Standing(b, stack, "no", loan) /\ Placed(b, stack, "no", loan)
  BY <1>1, UpIfNoError DEF CallFrames
<1>5. Top.s \in 0 .. b.made /\ Top.s \in 1 .. b.made
  <2>1. Top.s \in 1 .. b.made
    BY <1>1, TopResult DEF OnResult
  <2> QED
    BY <1>3, <2>1 DEF Conn
<1>6. /\ Tame(b, d) /\ d.handlers = b.handlers /\ d.out = b.out /\ d.wire = b.wire /\ d.made = b.made
      /\ d.err = b.err /\ d.v = b.v /\ d.live = b.live
      /\ (d.state = b.state \/ (b.state = "streaming" /\ d.state = "ready")
         \/ (b.state = "streamingTx" /\ d.state = "tx"))
  BY <1>3, <1>5, RemoveTame
<1> HIDE DEF d
<1>7. AtDiscard(b, stack, "no", loan) /\ ~Over(b, Top.s)
  BY <1>1, <1>2, <1>4 DEF Placed, Over
<1>8. InTx(b)
  <2> SUFFICES ASSUME ~InTx(b) PROVE FALSE
    OBVIOUS
  <2>1. b.handlers = << >> /\ Len(b.handlers) = 1
    BY <1>2, <1>7 DEF AtDiscard, Drains
  <2> QED
    BY <2>1
<1>9. b.out = << >> /\ loan # "pipelined"
  BY <1>1, <1>2, <1>3, <1>4 DEF Standing, On
<1>10. InTx(d) /\ ~Down(d) /\ ~d.err /\ d.out = << >>
  BY <1>6, <1>8, <1>9 DEF InTx, Down
<1>11. Shape(d, Tail(stack), "no", loan)
  <2>1. CASE Len(stack) = 1
    <3>1. loan # "held"
      BY <1>1, <1>2, <1>4, <1>8, <2>1 DEF Standing, On
    <3>2. Standing(d, << >>, "no", loan)
      BY <1>3, <1>9, <1>10, <3>1 DEF Standing, InTx, Use
    <3> QED
      BY <1>2, <2>1, <3>2 DEF Shape
  <2>2. CASE Len(stack) = 2
    <3>1. stack[2].at = "end" /\ stack[2].all /\ loan = "held"
      BY <1>7, <1>8, <2>2 DEF AtDiscard
    <3>2. Standing(d, Tail(stack), "no", loan)
      BY <1>2, <1>10, <2>2, <3>1 DEF Standing, On, InTx
    <3> QED
      BY <1>2, <1>10, <2>2, <3>1, <3>2 DEF Shape, Placed, CallFrames, AtEnd
  <2> QED
    BY <1>7, <1>8, <2>1, <2>2 DEF AtDiscard
<1>12. net = "up" => Waited(d, "no")
  <2>1. Conn(d)
    BY <1>1 DEF Here, BoltInv
  <2>2. Open(d) \subseteq Open(b)
    BY <1>3, <1>6, <2>1, OpenShrinks
  <2> QED
    BY <1>3, <1>6, <2>2 DEF Waited, Sent
<1> QED
  BY <1>1, <1>2, <1>3, <1>4, <1>6, <1>10, <1>11, <1>12, AlivePopTo DEF CallFrames

\* A call goes on with f on the frames below, and reads.
LEMMA GoesOn ==
  ASSUME Here, ~Idle, Top.at \in CallFrames, NEW d, Conn(d), Tame(b, d), d.handlers # << >>,
         NEW f, f.at \notin {"receive", "receiveAll"}, \A t : FrameOK(d, f, t)
  PROVE  LET m == <<f>> \o Tail(stack)
             k == ReceiveAll(d, <<f>>) \o Tail(stack)
         IN  /\ Below(k) = m /\ Read(k) = "receiveAll" /\ FramesOK(d, m, "receiveAll")
             /\ m # << >> /\ m[1] = f /\ Len(m) = Len(stack)
             /\ \A i \in 2 .. Len(stack) : m[i] = stack[i]
<1> DEFINE m == <<f>> \o Tail(stack)
           k == ReceiveAll(d, <<f>>) \o Tail(stack)
<1>1. /\ Conn(b) /\ Used(b, stack, "no", loan) /\ \E S : stack \in Seq(S)
  BY AtFrame DEF Here
<1>2. FramesOK(b, stack, "no") /\ stack # << >>
  BY <1>1 DEF Used, Idle
<1>3. PICK S : stack \in Seq(S)
  BY <1>1
<1>4. /\ Below(k) = m /\ Read(k) = "receiveAll"
      /\ m # << >> /\ m[1] = f /\ Len(m) = Len(stack)
      /\ \A i \in 2 .. Len(stack) : m[i] = stack[i]
  <2>1. LET r == ReceiveAll(d, <<f>>) \o Tail(stack)
        IN  /\ Below(r) = m /\ Read(r) = (IF d.handlers = << >> THEN "no" ELSE "receiveAll")
            /\ m # << >> /\ m[1] = f /\ Len(m) = Len(stack)
            /\ \A i \in 2 .. Len(stack) : m[i] = stack[i]
    BY <1>2, <1>3, ReadOn
  <2> QED
    BY <2>1
<1> HIDE DEF m, k
<1>5. FrameOK(d, m[1], "receiveAll" = "no")
  BY <1>4
<1>6. FramesOK(d, m, "receiveAll")
  BY <1>1, <1>2, <1>4, <1>5, FramesReplace
<1> QED
  BY <1>4, <1>6 DEF m, k

\* What a call sends fails, and the call ends.
LEMMA SendFails ==
  ASSUME Here, ~Idle, Top.at \in CallFrames, ~Down(b), ~b.err, loan' = loan, loan # "pipelined", srv' = srv, net' = net,
         NEW c, Conn(c), Tame(b, c), b' = Send(c), net = "down", stack' = Tail(stack)
  PROVE  Goes
<1> DEFINE d == Send(c)
<1>1. Tame(c, d) /\ Conn(d) /\ d.err /\ d.state = "dead"
  BY SendTame
<1> HIDE DEF d
<1>2. Conn(b) /\ b' = d
  BY DEF Here, BoltInv, d
<1>3. Tame(b, d)
  BY <1>1, <1>2, TameTrans
<1> QED
  BY <1>1, <1>2, <1>3, ErrorPop DEF Down

\* What a call sends is sent, and the call reads.
LEMMA SendWorks ==
  ASSUME Here, ~Idle, Top.at \in CallFrames, ~Down(b), ~b.err, loan' = loan, loan # "pipelined", srv' = srv, net' = net,
         NEW c, Conn(c), Tame(b, c), c.state = b.state, c.err = b.err, c.handlers # << >>, b' = Send(c), net # "down",
         NEW f, f.at \notin {"receive", "receiveAll"}, \A t : FrameOK(b', f, t),
         stack' = ReceiveAll(b', <<f>>) \o Tail(stack),
         ASSUME NEW m, m # << >>, m[1] = f, Len(m) = Len(stack), \A i \in 2 .. Len(stack) : m[i] = stack[i]
         PROVE  Shape(b', m, "receiveAll", loan)
  PROVE  Goes
<1> DEFINE d == Send(c)
           m == <<f>> \o Tail(stack)
<1>1. Tame(c, d) /\ Conn(d) /\ d.handlers = c.handlers
  BY SendTame
<1>2. b' = d
  OBVIOUS
<1> HIDE DEF d
<1>3. Conn(b)
  BY DEF Here, BoltInv
<1>4. Tame(b, d) /\ d.handlers # << >>
  BY <1>1, <1>3, TameTrans
<1>5. /\ Below(stack') = m /\ Read(stack') = "receiveAll" /\ FramesOK(d, m, "receiveAll")
      /\ m # << >> /\ m[1] = f /\ Len(m) = Len(stack)
      /\ \A i \in 2 .. Len(stack) : m[i] = stack[i]
  <2>1. \A t : FrameOK(d, f, t)
    BY <1>2
  <2>2. LET k == ReceiveAll(d, <<f>>) \o Tail(stack)
        IN  /\ Below(k) = m /\ Read(k) = "receiveAll" /\ FramesOK(d, m, "receiveAll")
            /\ m # << >> /\ m[1] = f /\ Len(m) = Len(stack)
            /\ \A i \in 2 .. Len(stack) : m[i] = stack[i]
    BY <1>1, <1>4, <2>1, GoesOn
  <2>3. stack' = ReceiveAll(d, <<f>>) \o Tail(stack)
    BY <1>2
  <2> QED
    BY <2>2, <2>3
<1> HIDE DEF m
<1>6. Shape(b', m, "receiveAll", loan)
  BY <1>5
<1>7. net # "down" /\ FramesOK(b', m, "receiveAll") /\ b'.handlers # << >>
  BY <1>2, <1>4, <1>5
<1>8. \A x : x = "receiveAll" => Below(stack') = m /\ Read(stack') = x /\ FramesOK(b', m, x) /\ Shape(b', m, x, loan)
  BY <1>5, <1>6, <1>7
<1>9. PICK w : w = "receiveAll"
  OBVIOUS
<1> QED
  BY <1>7, <1>8, <1>9, SendGoes
\* discardStream sends DISCARD.
LEMMA DiscardSendGoes ==
  ASSUME Here, At("discard"), ~b.err, b.streams[Top.s].done = "no", UNCHANGED loan,
         LET c == Send(AppendDiscardAll(b, Top.s))
         IN  Continue(c, IF c.err THEN << >> ELSE ReceiveAll(c, <<[Top EXCEPT !.discarded = TRUE]>>))
  PROVE  Goes
<1> DEFINE s == Top.s
           c == AppendDiscardAll(b, s)
           d == Send(c)
           f == [Top EXCEPT !.discarded = TRUE]
<1>1. /\ ~Idle /\ Top.at = "discard" /\ loan' = loan /\ b' = d /\ srv' = srv /\ net' = net
      /\ stack' = (IF d.err THEN << >> ELSE ReceiveAll(d, <<f>>)) \o Tail(stack)
  BY DEF At, Continue
<1>2. /\ loan \in Use \ {"borrowed", "announced"} /\ Conn(b) /\ b.v.major # 3 /\ General(b, "no", srv)
      /\ net \in {"up", "down"}
  BY <1>1, AtFrame DEF Here, CallFrames
<1>3. s \in b.live .. b.made /\ s \in 1 .. b.made /\ s >= b.live /\ b.live <= b.made /\ s \in Streams /\ s # 0
  BY <1>1, TopResult DEF OnResult
<1>4. /\ Tame(b, c) /\ Conn(c) /\ c.err = b.err /\ c.state = b.state /\ c.curr = b.curr
      /\ c.made = b.made /\ c.live = b.live /\ c.v = b.v
      /\ c.handlers = Append(b.handlers, [on |-> "discard", s |-> s]) /\ c.handlers # << >>
      /\ \A r \in Streams : c.streams[r].endOfBatch = b.streams[r].endOfBatch /\ c.streams[r].done = b.streams[r].done
  BY <1>2, <1>3, DiscardTame
<1> HIDE DEF c
<1>5. /\ Tame(c, d) /\ Conn(d) /\ d.handlers = c.handlers /\ d.made = c.made /\ d.live = c.live /\ d.v = c.v
      /\ net # "down" => /\ d.state = c.state /\ d.err = c.err /\ d.curr = c.curr /\ d.streams = c.streams
                         /\ d.out = << >>
      /\ net = "down" => d.err /\ d.state = "dead"
  BY <1>4, SendTame
<1>50. b' = Send(c)
  BY <1>1
<1> HIDE DEF d
<1>6. Tame(b, d)
  BY <1>2, <1>4, <1>5, TameTrans
<1>7. ~Down(b) /\ Standing(b, stack, "no", loan) /\ Placed(b, stack, "no", loan) /\ Top = stack[1] /\ stack # << >>
  BY <1>1, UpIfNoError, AtTop DEF CallFrames
<1>8. f.at = "discard" /\ f.s = s /\ f.discarded
  <2>1. Top \in OnDiscard(b.made)
    BY <1>1, TopStream DEF Here
  <2> QED
    BY <1>1, <2>1 DEF OnDiscard
<1> HIDE DEF f
<1>9. \A t : FrameOK(d, f, t)
  <2>1. f.s \in d.live .. d.made
    BY <1>3, <1>4, <1>5, <1>8
  <2> QED
    BY <1>8, <2>1 DEF FrameOK
<1>10. Top.at \in CallFrames /\ loan # "pipelined" /\ f.at \notin {"receive", "receiveAll"}
  BY <1>1, <1>7, <1>8 DEF Standing, On, CallFrames
<1>11. CASE net = "down"
  <2>1. d.err /\ stack' = << >> \o Tail(stack)
    BY <1>1, <1>5, <1>11
  <2>2. stack' = Tail(stack)
    BY <1>10, <2>1, <1>1, AtTop
  <2> QED
    BY <1>1, <1>4, <1>50, <1>7, <1>10, <1>11, <2>2, SendFails
<1>12. CASE net = "up"
  <2>1. d.state = b.state /\ ~d.err /\ d.curr = b.curr /\ d.out = << >> /\ ~Down(d) /\ (InTx(d) <=> InTx(b))
        /\ \A r \in Streams : d.streams[r].endOfBatch = b.streams[r].endOfBatch /\ d.streams[r].done = b.streams[r].done
    BY <1>4, <1>5, <1>7, <1>12 DEF Down, InTx
  <2>2. AtDiscard(b, stack, "no", loan)
    BY <1>1, <1>7 DEF Placed
  <2>3. Open(d) \subseteq Open(b)
    BY <1>2, <1>4, <1>5, <1>6, OpenShrinks
  <2>4. ~Over(b, s) /\ ~Over(d, s)
    BY <1>3, <2>1 DEF Over
  <2>5. ASSUME NEW m, m # << >>, m[1] = f, Len(m) = Len(stack), \A i \in 2 .. Len(stack) : m[i] = stack[i]
        PROVE  Shape(d, m, "receiveAll", loan)
    <3>1. Len(stack) = 2 => m[2] = stack[2]
      BY <2>5
    <3>2. CASE InTx(b)
      <4>1. Standing(d, m, "receiveAll", loan)
        BY <1>1, <1>7, <1>8, <2>1, <2>2, <2>5, <3>1, <3>2 DEF Standing, InTx, On
      <4>2. AtDiscard(d, m, "receiveAll", loan)
        BY <2>1, <2>2, <2>5, <3>1, <3>2 DEF AtDiscard
      <4> QED
        BY <1>8, <2>2, <2>5, <4>1, <4>2 DEF Shape, Placed, CallFrames
    <3>3. CASE ~InTx(b)
      <4>1. /\ loan = "held" /\ Drains(b, s, "no") /\ Len(stack) = 1
        BY <1>7, <2>2, <2>5, <3>3 DEF AtDiscard
      <4>2. b.handlers = << >> /\ b.curr = s /\ b.state # "ready"
        BY <2>4, <4>1 DEF Drains
      <4>3. b.state = "streaming"
        <5>1. b.state \in States /\ b.state # "unauthorized"
          BY <1>2, <1>7 DEF Conn, Standing
        <5> QED
          BY <1>7, <3>3, <4>2, <5>1 DEF States, Down, InTx
      <4>4. Len(d.handlers) = 1 /\ d.handlers[1].s = s /\ d.handlers[1].on = "discard" /\ d.handlers # << >>
        <5>1. PICK h : h = [on |-> "discard", s |-> s]
          OBVIOUS
        <5>2. d.handlers = Append(b.handlers, h) /\ d.handlers # << >>
          BY <1>4, <1>5, <5>1
        <5> QED
          BY <1>2, <4>2, <5>1, <5>2, OneHandler
      <4>5. Single(d) /\ d.curr = s /\ d.state = "streaming"
        BY <1>3, <2>1, <4>2, <4>3, <4>4 DEF Single
      <4>6. Standing(d, m, "receiveAll", "held")
        <5>1. Open(d) \subseteq {d.curr}
          BY <1>7, <2>1, <2>3, <4>3 DEF Standing
        <5> QED
          BY <1>8, <2>1, <2>2, <2>5, <4>5, <5>1 DEF Standing, InTx, On
      <4>7. Drains(d, s, "receiveAll")
        BY <3>1, <4>5 DEF Drains
      <4>8. AtDiscard(d, m, "receiveAll", "held")
        BY <1>8, <2>1, <2>2, <2>5, <3>1, <3>3, <4>1, <4>4, <4>7 DEF AtDiscard
      <4> QED
        BY <1>8, <2>2, <2>5, <4>1, <4>6, <4>8 DEF Shape, Placed, CallFrames
    <3> QED
      BY <3>2, <3>3
  <2> QED
    BY <1>1, <1>4, <1>50, <1>7, <1>9, <1>10, <1>12, <2>1, <2>5, SendWorks
<1> QED
  BY <1>2, <1>11, <1>12

\* discardStream.
LEMMA DiscardStreamGoes ==
  ASSUME Here, DiscardStream
  PROVE  Goes
<1>1. At("discard") /\ UNCHANGED loan
  BY DEF DiscardStream
<1>2. \/ (b.err \/ b.streams[Top.s].done # "no") /\ Continue(b, << >>)
      \/ /\ ~b.err /\ b.streams[Top.s].done = "no" /\ Top.discarded
         /\ Continue(CheckStreams(Remove(b, Top.s)), << >>)
      \/ /\ ~b.err /\ b.streams[Top.s].done = "no"
         /\ LET c == Send(AppendDiscardAll(b, Top.s))
            IN  Continue(c, IF c.err THEN << >> ELSE ReceiveAll(c, <<[Top EXCEPT !.discarded = TRUE]>>))
  BY DEF DiscardStream
<1> QED
  BY <1>1, <1>2, DiscardOverGoes, DiscardedGoes, DiscardSendGoes
\* One more handler that belongs to no result.
LEMMA PlainsAppend ==
  ASSUME NEW c, Conn(c), Plains(c.handlers), NEW k
  PROVE  Plains(Append(c.handlers, [on |-> k, s |-> 0]))
<1> DEFINE h == [on |-> k, s |-> 0]
           hs == c.handlers
<1>1. h.s = 0
  OBVIOUS
<1>2. hs \in Seq(Handlers \cup {h}) /\ h \in Handlers \cup {h}
  <2>1. hs \in Seq(Handlers)
    BY DEF Conn
  <2> QED
    BY <2>1, SeqMono
<1> HIDE DEF h, hs
<1>3. /\ Len(Append(hs, h)) = Len(hs) + 1 /\ Len(hs) \in Nat
      /\ \A i \in 1 .. Len(hs) : Append(hs, h)[i] = hs[i]
      /\ Append(hs, h)[Len(hs) + 1] = h
  BY <1>2, AppendProperties, LenProperties
<1>4. \A i \in 1 .. Len(hs) : hs[i].s = 0
  BY DEF Plains, hs
<1>5. \A i \in 1 .. Len(Append(hs, h)) : Append(hs, h)[i].s = 0
  BY <1>1, <1>3, <1>4
<1> QED
  BY <1>5 DEF Plains, h, hs

\* BEGIN, at its frame.
LEMMA AtBeginFrame ==
  ASSUME Here, At("begin")
  PROVE  /\ ~Idle /\ Top.at = "begin" /\ Top.at \in CallFrames /\ Conn(b) /\ b.v.major # 3 /\ General(b, "no", srv)
         /\ loan \in Use \ {"borrowed", "announced"} /\ net \in {"up", "down"} /\ stack # << >> /\ Top = stack[1]
         /\ << >> \o Tail(stack) = Tail(stack)
         /\ Used(b, stack, "no", loan)
         /\ ~Down(b) => /\ Standing(b, stack, "no", loan) /\ AtBegin(b, stack, "no", loan)
                        /\ loan = "held" /\ Tail(stack) = << >>
<1>1. ~Idle /\ Top.at = "begin" /\ Top.at \in CallFrames
  BY DEF At, CallFrames
<1>2. /\ Conn(b) /\ b.v.major # 3 /\ General(b, "no", srv)
      /\ loan \in Use \ {"borrowed", "announced"} /\ net \in {"up", "down"}
      /\ Used(b, stack, "no", loan)
  BY <1>1, AtFrame DEF Here
<1>3. stack # << >> /\ Top = stack[1] /\ << >> \o Tail(stack) = Tail(stack) /\ (Len(stack) = 1 => Tail(stack) = << >>)
  BY <1>1, AtTop
<1>4. ~Down(b) => Standing(b, stack, "no", loan) /\ AtBegin(b, stack, "no", loan)
  BY <1>1, <1>2, <1>3 DEF Used, Shape, Placed
<1>5. ~Down(b) => loan = "held" /\ Tail(stack) = << >>
  BY <1>3, <1>4 DEF AtBegin
<1> QED
  BY <1>1, <1>2, <1>3, <1>4, <1>5

\* BEGIN is refused.
LEMMA BeginRefusedGoes ==
  ASSUME Here, At("begin"), UNCHANGED loan,
         LET c == IF b.err THEN b ELSE ResetStreams(b)
         IN  (~AssertState(c, {"ready"}) \/ ~Top.supported) /\ Continue(c, << >>)
  PROVE  Goes
<1>1. /\ ~Idle /\ Top.at = "begin" /\ Top.at \in CallFrames /\ Conn(b) /\ General(b, "no", srv)
      /\ loan \in Use \ {"borrowed", "announced"} /\ stack # << >> /\ Top = stack[1]
      /\ << >> \o Tail(stack) = Tail(stack)
      /\ Used(b, stack, "no", loan)
      /\ ~Down(b) => /\ Standing(b, stack, "no", loan) /\ AtBegin(b, stack, "no", loan)
                     /\ loan = "held" /\ Tail(stack) = << >>
  BY AtBeginFrame
<1>2. CASE b.err
  <2>1. b' = b /\ srv' = srv /\ net' = net /\ stack' = Tail(stack) /\ loan' = loan
    BY <1>1, <1>2 DEF Continue
  <2> QED
    BY <1>1, <1>2, <2>1, SamePop
<1>3. CASE ~b.err
  <2> DEFINE d == ResetStreams(b)
  <2>1. b' = d /\ srv' = srv /\ net' = net /\ stack' = Tail(stack) /\ loan' = loan
        /\ (~AssertState(d, {"ready"}) \/ ~Top.supported)
    BY <1>1, <1>3 DEF Continue
  <2>2. /\ Tame(b, d) /\ Conn(d) /\ d.err = b.err /\ d.state = b.state /\ d.curr = 0 /\ d.made = b.made
        /\ d.handlers = b.handlers /\ d.out = b.out /\ d.wire = b.wire
    BY <1>1, ResetStreamsTame
  <2> HIDE DEF d
  <2>3. Open(d) \subseteq Open(b)
    BY <1>1, <2>2, OpenShrinks
  <2>4. CASE Down(b)
    <3>1. LentFailed(b, stack, "no", loan)
      BY <1>1, <1>3, <2>4 DEF Used
    <3>2. loan = "held" /\ Len(stack) = 1 /\ b.live > b.made
      BY <1>1, <3>1 DEF LentFailed
    <3>3. Tail(stack) = << >>
      BY <1>1, <3>2, AtTop
    <3>4. General(d, "no", srv)
      BY <1>1, <2>2, LikeTame
    <3>5. Below(stack') = << >> /\ Read(stack') = "no"
      BY <2>1, <3>3, NothingRead
    <3>6. Waited(d, "no")
      <4>1. Open(d) = {}
        BY <1>1, <2>3, <3>2, NoneOpen
      <4> QED
        BY <4>1 DEF Waited
    <3>7. Used(d, << >>, "no", "held")
      <4>1. d.live > d.made /\ Down(d)
        BY <2>2, <2>4, <3>2 DEF Tame, Down
      <4>2. LentFailed(d, << >>, "no", "held")
        BY <4>1 DEF LentFailed
      <4> QED
        BY <4>1, <4>2, FramesShort DEF Used
    <3>8. StateInv'
      BY <2>1, <3>2, <3>4, <3>5, <3>6, <3>7, InUseNext DEF Use
    <3> QED
      BY <2>1, <2>2, <3>8, TamePut DEF Goes
  <2>5. CASE ~Down(b)
    <3>1. /\ b.state \in {"ready", "streaming"} /\ Open(b) = {} /\ (b.state = "streaming" => b.handlers = << >>)
          /\ (b.out # << >> => Top.supported) /\ loan = "held" /\ Tail(stack) = << >>
      BY <1>1, <2>5 DEF AtBegin
    <3>2. b.out = << >>
      <4>1. CASE b.state = "ready"
        BY <1>3, <2>1, <2>2, <3>1, <4>1 DEF AssertState
      <4>2. CASE b.state = "streaming"
        BY <1>1, <2>5, <4>2 DEF Standing
      <4> QED
        BY <3>1, <4>1, <4>2
    <3>3. b.state = "ready" => Plains(b.handlers) /\ (b.v.major = 4 => b.handlers = << >>)
      BY <1>1, <2>5 DEF Standing, On
    <3>4. d.v = b.v /\ Open(d) = {} /\ ~Down(d) /\ ~d.err
      BY <1>3, <2>2, <2>3, <2>5, <3>1 DEF Tame, Down
    <3>5. Standing(d, << >>, "no", "held")
      BY <2>2, <3>1, <3>2, <3>3, <3>4 DEF Standing, InTx, Single, On
    <3>6. Shape(d, Tail(stack), "no", loan)
      BY <3>1, <3>5 DEF Shape
    <3>7. Waited(d, "no")
      BY <3>4 DEF Waited
    <3> QED
      BY <1>1, <2>1, <2>2, <2>5, <3>4, <3>6, <3>7, AlivePopTo
  <2> QED
    BY <2>4, <2>5
<1> QED
  BY <1>2, <1>3

\* BEGIN is queued, where it is allowed.
LEMMA BeginQueued ==
  ASSUME Here, At("begin"), AssertState(IF b.err THEN b ELSE ResetStreams(b), {"ready"})
  PROVE  /\ ~b.err /\ ~Down(b)
         /\ LET c == EnqueuePlain(ResetStreams(b), "begin")
            IN  /\ Tame(b, c) /\ Conn(c) /\ c.err = b.err /\ c.state = b.state /\ b.state = "ready" /\ c.v = b.v
                /\ c.made = b.made /\ Open(c) = {} /\ c.handlers # << >> /\ Plains(c.handlers)
<1>1. /\ Conn(b) /\ b.v.major # 3 /\ General(b, "no", srv)
      /\ ~Down(b) => /\ Standing(b, stack, "no", loan) /\ AtBegin(b, stack, "no", loan)
  BY AtBeginFrame
<1> DEFINE e == ResetStreams(b)
           c == EnqueuePlain(e, "begin")
<1>2. /\ Tame(b, e) /\ Conn(e) /\ e.err = b.err /\ e.state = b.state /\ e.curr = 0 /\ e.made = b.made
      /\ e.handlers = b.handlers
  BY <1>1, ResetStreamsTame
<1>3. ~b.err
  <2> SUFFICES ASSUME b.err PROVE FALSE
    OBVIOUS
  <2>1. AssertState(b, {"ready"})
    OBVIOUS
  <2> QED
    BY <2>1 DEF AssertState
<1>4. AssertState(e, {"ready"})
  BY <1>3
<1> HIDE DEF e
<1>5. b.state = "ready" /\ ~Down(b)
  BY <1>2, <1>4 DEF AssertState, Down
<1>6. Plains(b.handlers) /\ Open(b) = {}
  BY <1>1, <1>5, AtBeginFrame DEF Standing, On, AtBegin
<1>7. e.v = b.v /\ e.v.major # 3 /\ "begin" \in Messages /\ "begin" \notin OfResult
  BY <1>1, <1>2 DEF Tame, Messages, OfResult
<1>8. /\ Tame(e, c) /\ Conn(c) /\ c.err = e.err /\ c.state = e.state /\ c.made = e.made /\ c.v = e.v
      /\ c.handlers = Append(e.handlers, [on |-> "begin", s |-> 0]) /\ c.handlers # << >>
  BY <1>2, <1>7, EnqueuePlainTame
<1> HIDE DEF c
<1>9. Tame(b, c)
  BY <1>1, <1>2, <1>8, TameTrans
<1>10. Open(c) = {}
  BY <1>1, <1>2, <1>6, <1>8, <1>9, OpenShrinks
<1>11. Plains(c.handlers)
  BY <1>1, <1>2, <1>6, <1>8, PlainsAppend
<1> QED
  BY <1>2, <1>3, <1>5, <1>7, <1>8, <1>9, <1>10, <1>11 DEF c, e
\* BEGIN is sent, and its answer awaited.
LEMMA BeginSyncGoes ==
  ASSUME Here, At("begin"), UNCHANGED loan, AssertState(IF b.err THEN b ELSE ResetStreams(b), {"ready"}),
         LET c == IF b.err THEN b ELSE ResetStreams(b)
             d == Send(EnqueuePlain(c, "begin"))
         IN  Continue(d, IF d.err THEN << >> ELSE ReceiveAll(d, <<[at |-> "begun"]>>))
  PROVE  Goes
<1> DEFINE c == EnqueuePlain(ResetStreams(b), "begin")
           d == Send(c)
           f == [at |-> "begun"]
<1>1. /\ ~Idle /\ Top.at = "begin" /\ Top.at \in CallFrames /\ Conn(b)
      /\ net \in {"up", "down"} /\ << >> \o Tail(stack) = Tail(stack)
      /\ ~Down(b) => /\ AtBegin(b, stack, "no", loan) /\ loan = "held" /\ Tail(stack) = << >>
  BY AtBeginFrame
<1>2. /\ ~b.err /\ ~Down(b) /\ Tame(b, c) /\ Conn(c) /\ c.err = b.err /\ c.state = b.state /\ b.state = "ready"
      /\ c.v = b.v /\ c.made = b.made /\ Open(c) = {} /\ c.handlers # << >> /\ Plains(c.handlers)
  BY BeginQueued
<1>3. /\ b' = d /\ srv' = srv /\ net' = net /\ loan' = loan
      /\ stack' = (IF d.err THEN << >> ELSE ReceiveAll(d, <<f>>)) \o Tail(stack)
  BY <1>2 DEF Continue
<1> HIDE DEF c
<1>4. /\ Tame(c, d) /\ Conn(d) /\ d.handlers = c.handlers /\ d.made = c.made /\ d.v = c.v
      /\ net # "down" => /\ d.state = c.state /\ d.err = c.err /\ d.out = << >>
      /\ net = "down" => d.err
  BY <1>2, SendTame
<1>5. b' = Send(c)
  BY <1>3
<1>6. f.at = "begun" /\ f.at \notin {"receive", "receiveAll"}
  OBVIOUS
<1> HIDE DEF d, f
<1>7. \A t : FrameOK(d, f, t)
  BY <1>6, AnyFrame DEF OnResult
<1>8. CASE net = "down"
  BY <1>1, <1>2, <1>3, <1>4, <1>5, <1>8, SendFails
<1>9. CASE net = "up"
  <2>1. d.state = "ready" /\ ~d.err /\ d.out = << >> /\ Plains(d.handlers) /\ ~Down(d)
    BY <1>2, <1>4, <1>9 DEF Down
  <2>2. Open(d) = {}
    BY <1>2, <1>4, OpenShrinks
  <2>3. ASSUME NEW m, m # << >>, m[1] = f, Len(m) = Len(stack), \A i \in 2 .. Len(stack) : m[i] = stack[i]
        PROVE  Shape(d, m, "receiveAll", loan)
    <3>1. loan = "held" /\ Len(m) = 1
      BY <1>1, <1>2, <2>3 DEF AtBegin
    <3>2. Standing(d, m, "receiveAll", "held")
      BY <2>1 DEF Standing, InTx
    <3>3. AtBegun(d, m, "receiveAll", "held")
      BY <2>1, <3>1 DEF AtBegun
    <3> QED
      BY <1>6, <2>3, <3>1, <3>2, <3>3 DEF Shape, Placed, CallFrames
  <2>4. stack' = ReceiveAll(d, <<f>>) \o Tail(stack)
    BY <1>3, <2>1
  <2> QED
    BY <1>1, <1>2, <1>3, <1>5, <1>6, <1>7, <1>9, <2>3, <2>4, SendWorks
<1> QED
  BY <1>1, <1>8, <1>9

\* BEGIN is left in the buffer.
LEMMA BeginPipelinedGoes ==
  ASSUME Here, At("begin"), AssertState(IF b.err THEN b ELSE ResetStreams(b), {"ready"}),
         LET c == IF b.err THEN b ELSE ResetStreams(b)
         IN  Continue([EnqueuePlain(c, "begin") EXCEPT !.state = "tx", !.txId = TRUE], << >>),
         loan' = "pipelined"
  PROVE  Goes
<1> DEFINE c == EnqueuePlain(ResetStreams(b), "begin")
           d == [c EXCEPT !.state = "tx", !.txId = TRUE]
<1>1. /\ ~Idle /\ Top.at = "begin" /\ Top.at \in CallFrames /\ Conn(b) /\ General(b, "no", srv)
      /\ << >> \o Tail(stack) = Tail(stack)
      /\ ~Down(b) => Tail(stack) = << >>
  BY AtBeginFrame
<1>2. /\ ~b.err /\ ~Down(b) /\ Tame(b, c) /\ Conn(c) /\ c.err = b.err /\ c.made = b.made /\ Open(c) = {}
  BY BeginQueued
<1>3. /\ b' = d /\ srv' = srv /\ net' = net /\ stack' = Tail(stack)
  BY <1>1, <1>2 DEF Continue
<1> HIDE DEF c
<1>4. /\ d.v = c.v /\ d.live = c.live /\ d.made = c.made /\ d.streams = c.streams /\ d.curr = c.curr
      /\ d.handlers = c.handlers /\ d.err = c.err /\ d.state = "tx"
  BY <1>2 DEF Conn, ConnFields
<1> HIDE DEF d
<1>5. Tame(c, d) /\ Conn(d)
  BY <1>2, <1>3, <1>4, TameSame DEF Here, BoltInv
<1>6. Tame(b, d)
  BY <1>1, <1>2, <1>5, TameTrans
<1>7. Open(d) = {}
  BY <1>2, <1>4, <1>5, OpenShrinks
<1>8. ~Down(d) /\ ~d.err
  BY <1>2, <1>4 DEF Down
<1>9. Standing(d, << >>, "no", "pipelined")
  BY <1>4, <1>7 DEF Standing, InTx
<1>10. Shape(d, << >>, "no", "pipelined")
  BY <1>9 DEF Shape
<1>11. Waited(d, "no")
  BY <1>7 DEF Waited
<1>12. Shape(d, Tail(stack), "no", loan') /\ loan' \in Use \ {"borrowed", "announced"}
  BY <1>1, <1>2, <1>10 DEF Use
<1> QED
  BY <1>1, <1>2, <1>3, <1>6, <1>8, <1>11, <1>12, AlivePopTo

\* The rest of TxBegin.
LEMMA TxBeginSendGoes ==
  ASSUME Here, TxBeginSend
  PROVE  Goes
<1>1. At("begin")
  BY DEF TxBeginSend
<1>2. CASE LET c == IF b.err THEN b ELSE ResetStreams(b)
           IN  (~AssertState(c, {"ready"}) \/ ~Top.supported) /\ Continue(c, << >>) /\ UNCHANGED loan
  BY <1>1, <1>2, BeginRefusedGoes
<1>3. CASE LET c == IF b.err THEN b ELSE ResetStreams(b)
               d == Send(EnqueuePlain(c, "begin"))
           IN  /\ AssertState(c, {"ready"}) /\ UNCHANGED loan
               /\ Continue(d, IF d.err THEN << >> ELSE ReceiveAll(d, <<[at |-> "begun"]>>))
  BY <1>1, <1>3, BeginSyncGoes
<1>4. CASE LET c == IF b.err THEN b ELSE ResetStreams(b)
           IN  /\ AssertState(c, {"ready"}) /\ loan' = "pipelined"
               /\ Continue([EnqueuePlain(c, "begin") EXCEPT !.state = "tx", !.txId = TRUE], << >>)
  BY <1>1, <1>4, BeginPipelinedGoes
<1> QED
  BY <1>2, <1>3, <1>4 DEF TxBeginSend

\* The transaction has begun.
LEMMA TxBegunGoes ==
  ASSUME Here, TxBegun
  PROVE  Goes
<1>1. ~Idle /\ Top.at = "begun" /\ Top.at \in CallFrames
  BY DEF TxBegun, At, CallFrames
<1>2. stack # << >> /\ Top = stack[1] /\ << >> \o Tail(stack) = Tail(stack) /\ (Len(stack) = 1 => Tail(stack) = << >>)
  BY <1>1, AtTop
<1>3. /\ Conn(b) /\ General(b, "no", srv) /\ (net = "up" => Waited(b, "no"))
  BY <1>1, AtFrame DEF Here
<1>4. CASE b.err
  <2>1. b' = b /\ srv' = srv /\ net' = net /\ stack' = Tail(stack) /\ loan' = loan
    BY <1>2, <1>4 DEF TxBegun, Continue
  <2> QED
    BY <1>1, <1>4, <2>1, SamePop
<1>5. CASE ~b.err
  <2> DEFINE d == [b EXCEPT !.state = "tx", !.txId = TRUE]
  <2>1. b' = d /\ srv' = srv /\ net' = net /\ stack' = Tail(stack) /\ loan' = "tx"
    BY <1>2, <1>5 DEF TxBegun, Continue
  <2>2. /\ d.v = b.v /\ d.live = b.live /\ d.made = b.made /\ d.streams = b.streams /\ d.curr = b.curr
        /\ d.handlers = b.handlers /\ d.err = b.err /\ d.state = "tx" /\ d.out = b.out /\ d.wire = b.wire
    BY <1>3 DEF Conn, ConnFields
  <2> HIDE DEF d
  <2>3. ~Down(b) /\ Standing(b, stack, "no", loan) /\ Placed(b, stack, "no", loan)
    BY <1>1, <1>5, UpIfNoError
  <2>4. loan = "held" /\ Len(stack) = 1 /\ b.out = << >>
    BY <1>1, <1>2, <2>3 DEF Placed, AtBegun, Standing, On
  <2>5. Tame(b, d) /\ Conn(d)
    BY <1>3, <2>1, <2>2, TameSame DEF Here, BoltInv
  <2>6. Standing(d, << >>, "no", "tx")
    BY <2>2, <2>4 DEF Standing, InTx
  <2>7. Shape(d, Tail(stack), "no", loan') /\ loan' \in Use \ {"borrowed", "announced"}
    BY <1>2, <2>1, <2>4, <2>6 DEF Shape, Use
  <2>8. net = "up" => Waited(d, "no")
    <3>1. Open(d) \subseteq Open(b)
      BY <1>3, <2>2, <2>5, OpenShrinks
    <3> QED
      BY <1>3, <2>2, <3>1 DEF Waited, Sent
  <2>9. ~Down(d) /\ ~d.err
    BY <1>5, <2>2 DEF Down
  <2> QED
    BY <1>1, <2>1, <2>3, <2>5, <2>7, <2>8, <2>9, AlivePopTo
<1> QED
  BY <1>4, <1>5

\* The transaction has ended.
LEMMA TxEndedGoes ==
  ASSUME Here, TxEnded
  PROVE  Goes
<1>1. /\ ~Idle /\ Top.at = "ended" /\ Top.at \in CallFrames /\ loan' = loan
      /\ Continue(IF b.err THEN b ELSE [b EXCEPT !.state = "ready"], << >>)
  BY DEF TxEnded, At, CallFrames
<1>2. stack # << >> /\ Top = stack[1] /\ << >> \o Tail(stack) = Tail(stack) /\ (Len(stack) = 1 => Tail(stack) = << >>)
  BY <1>1, AtTop
<1>3. /\ Conn(b) /\ General(b, "no", srv) /\ (net = "up" => Waited(b, "no"))
  BY <1>1, AtFrame DEF Here
<1>4. CASE b.err
  <2>1. b' = b /\ srv' = srv /\ net' = net /\ stack' = Tail(stack)
    BY <1>1, <1>2, <1>4 DEF Continue
  <2> QED
    BY <1>1, <1>4, <2>1, SamePop
<1>5. CASE ~b.err
  <2> DEFINE d == [b EXCEPT !.state = "ready"]
  <2>1. b' = d /\ srv' = srv /\ net' = net /\ stack' = Tail(stack)
    BY <1>1, <1>2, <1>5 DEF Continue
  <2>2. /\ d.v = b.v /\ d.live = b.live /\ d.made = b.made /\ d.streams = b.streams /\ d.curr = b.curr
        /\ d.handlers = b.handlers /\ d.err = b.err /\ d.state = "ready" /\ d.out = b.out /\ d.wire = b.wire
    BY <1>3 DEF Conn, ConnFields
  <2> HIDE DEF d
  <2>3. ~Down(b) /\ Standing(b, stack, "no", loan) /\ Placed(b, stack, "no", loan)
    BY <1>1, <1>5, UpIfNoError
  <2>4. loan = "held" /\ Len(stack) = 1 /\ b.out = << >> /\ b.handlers = << >>
    BY <1>1, <1>2, <2>3 DEF Placed, AtEnded, Standing, On
  <2>5. Tame(b, d) /\ Conn(d)
    BY <1>3, <2>1, <2>2, TameSame DEF Here, BoltInv
  <2>6. Standing(d, << >>, "no", "held")
    <3>1. Plains(d.handlers)
      BY <2>2, <2>4 DEF Plains
    <3> QED
      BY <2>2, <2>4, <3>1 DEF Standing, InTx
  <2>7. Shape(d, Tail(stack), "no", loan) /\ loan \in Use \ {"borrowed", "announced"}
    BY <1>2, <2>4, <2>6 DEF Shape, Use
  <2>8. net = "up" => Waited(d, "no")
    <3>1. Open(d) \subseteq Open(b)
      BY <1>3, <2>2, <2>5, OpenShrinks
    <3> QED
      BY <1>3, <2>2, <3>1 DEF Waited, Sent
  <2>9. ~Down(d) /\ ~d.err
    BY <1>5, <2>2 DEF Down
  <2> QED
    BY <1>1, <2>1, <2>3, <2>5, <2>7, <2>8, <2>9, AlivePopTo
<1> QED
  BY <1>4, <1>5
\* COMMIT or ROLLBACK is sent.
LEMMA TxEndSendGoes ==
  ASSUME Here, TxEndSend
  PROVE  Goes
<1> DEFINE e == ResetStreams(b)
           q == CheckStreams(e)
           c == IF Top.all THEN q ELSE b
           k == EnqueuePlain(c, Top.how)
           d == Send(k)
           f == [at |-> "ended"]
<1>1. /\ ~Idle /\ Top.at = "end" /\ Top.at \in CallFrames /\ loan' = loan
      /\ \/ ~AssertState(c, {"tx"}) /\ Continue(c, << >>)
         \/ AssertState(c, {"tx"}) /\ Continue(d, IF d.err THEN << >> ELSE ReceiveAll(d, <<f>>))
  BY DEF TxEndSend, At, CallFrames
<1>2. stack # << >> /\ Top = stack[1] /\ << >> \o Tail(stack) = Tail(stack) /\ (Len(stack) = 1 => Tail(stack) = << >>)
  BY <1>1, AtTop
<1>3. /\ Conn(b) /\ General(b, "no", srv) /\ (net = "up" => Waited(b, "no")) /\ b.v.major # 3 /\ net \in {"up", "down"}
      /\ loan \in Use \ {"borrowed", "announced"} /\ Used(b, stack, "no", loan)
  BY <1>1, AtFrame DEF Here
<1>4. /\ Tame(b, e) /\ Conn(e) /\ e.err = b.err /\ e.state = b.state /\ e.made = b.made
      /\ e.handlers = b.handlers /\ e.out = b.out /\ e.wire = b.wire
  BY <1>3, ResetStreamsTame
<1>5. e.num = 0
  BY <1>3 DEF ResetStreams, Conn, ConnFields
<1> HIDE DEF e
<1>6. /\ Tame(e, q) /\ q.handlers = e.handlers /\ q.out = e.out /\ q.wire = e.wire /\ q.made = e.made /\ q.err = e.err
      /\ (Down(e) => q.state = e.state) /\ (InTx(e) => q.state = "tx")
  <2>1. /\ Tame(e, q) /\ q.handlers = e.handlers /\ q.out = e.out /\ q.wire = e.wire /\ q.made = e.made /\ q.err = e.err
        /\ (q.state = e.state \/ (e.state = "streaming" /\ q.state = "ready")
             \/ (e.state = "streamingTx" /\ q.state = "tx"))
    BY <1>4, CheckStreamsTame
  <2>2. InTx(e) => q.state = "tx"
    BY <1>4, <1>5 DEF CheckStreams, InTx, Conn, ConnFields
  <2> QED
    BY <2>1, <2>2 DEF Down
<1>7. Conn(q)
  BY <1>4, CheckStreamsSame
<1> HIDE DEF q
<1>8. Tame(b, q) /\ Tame(b, b)
  BY <1>3, <1>4, <1>6, <1>7, TameTrans, TameSame
<1>9. /\ Tame(b, c) /\ Conn(c) /\ c.handlers = b.handlers /\ c.out = b.out /\ c.wire = b.wire /\ c.made = b.made
      /\ c.err = b.err /\ (Down(b) => c.state = b.state)
      /\ (InTx(b) /\ Top.all => c.state = "tx") /\ (~Top.all => c.state = b.state)
  BY <1>3, <1>4, <1>6, <1>7, <1>8 DEF Down, InTx
<1>10. Open(c) \subseteq Open(b) /\ c.v = b.v
  BY <1>3, <1>9, OpenShrinks DEF Tame
<1>11. Top.how \in Messages /\ Top.how \notin OfResult
  <2>1. Top \in Frames(b.made)
    BY <1>1, InUse DEF UseFrames, Fit, Here
  <2> QED
    BY <1>1, <2>1, FrameKinds DEF OnEnd, Messages, OfResult
<1>12. f.at = "ended" /\ f.at \notin {"receive", "receiveAll"}
  OBVIOUS
<1> HIDE DEF c, f
<1>13. /\ Tame(c, k) /\ Conn(k) /\ k.err = c.err /\ k.state = c.state /\ k.handlers # << >> /\ k.v = c.v /\ k.made = c.made
  <2>1. PICK how : how = Top.how
    OBVIOUS
  <2>2. how \in Messages /\ how \notin OfResult /\ c.v.major # 3 /\ k = EnqueuePlain(c, how)
    BY <1>3, <1>10, <1>11, <2>1
  <2> HIDE DEF k
  <2> QED
    BY <1>9, <2>2, EnqueuePlainTame
<1> HIDE DEF k
<1>14. /\ Tame(k, d) /\ Conn(d) /\ d.handlers = k.handlers /\ d.made = k.made /\ d.v = k.v
       /\ net # "down" => d.state = k.state /\ d.err = k.err /\ d.out = << >>
       /\ net = "down" => d.err
  BY <1>13, SendTame
<1>15. d = Send(k)
  OBVIOUS
<1> HIDE DEF d
<1>16. CASE b.err
  <2>1. b' = c /\ srv' = srv /\ net' = net /\ stack' = Tail(stack)
    BY <1>1, <1>2, <1>9, <1>16 DEF Continue, AssertState
  <2>2. Down(b) /\ loan # "pipelined"
    BY <1>3, <1>16 DEF General, Used
  <2>3. Down(c) /\ c.err /\ c.state = b.state
    BY <1>9, <1>16, <2>2 DEF Down
  <2>4. net = "up" => Waited(c, "no")
    BY <1>3, <1>9, <1>10 DEF Waited, Sent
  <2>5. c.state = "failed" => srv.st = "failed" \/ Plains(c.handlers)
    BY <1>3, <1>9, <2>3 DEF General
  <2> QED
    BY <1>1, <1>9, <2>1, <2>2, <2>3, <2>4, <2>5, ErrorPop
<1>17. CASE ~b.err
  <2>1. ~Down(b) /\ Standing(b, stack, "no", loan) /\ Placed(b, stack, "no", loan)
    BY <1>1, <1>17, UpIfNoError
  <2>2. AtEnd(b, stack, "no", loan)
    BY <1>1, <1>2, <2>1 DEF Placed
  <2>3. c.state = "tx" /\ InTx(b) /\ loan = "held" /\ Len(stack) = 1
    BY <1>2, <1>9, <2>2 DEF AtEnd
  <2>4. /\ b' = d /\ srv' = srv /\ net' = net
        /\ stack' = (IF d.err THEN << >> ELSE ReceiveAll(d, <<f>>)) \o Tail(stack)
    BY <1>1, <1>9, <1>17, <2>3 DEF AssertState, Continue
  <2>5. Tame(b, k)
    BY <1>3, <1>9, <1>13, TameTrans
  <2>6. CASE net = "down"
    <3>1. stack' = Tail(stack)
      BY <1>2, <1>14, <2>4, <2>6
    <3> QED
      BY <1>1, <1>13, <1>15, <1>17, <2>1, <2>3, <2>4, <2>5, <2>6, <3>1, SendFails
  <2>7. CASE net = "up"
    <3>1. d.state = "tx" /\ ~d.err /\ d.out = << >> /\ ~Down(d) /\ InTx(d)
      BY <1>9, <1>13, <1>14, <1>17, <2>3, <2>7 DEF Down, InTx
    <3>2. \A t : FrameOK(d, f, t)
      BY <1>12, AnyFrame DEF OnResult
    <3>3. Tame(b, d) /\ d.handlers # << >>
      BY <1>3, <1>13, <1>14, <2>5, TameTrans
    <3> DEFINE m == <<f>> \o Tail(stack)
    <3>4. /\ Below(stack') = m /\ Read(stack') = "receiveAll" /\ FramesOK(d, m, "receiveAll")
          /\ m # << >> /\ m[1] = f /\ Len(m) = Len(stack)
      <4>1. LET r == ReceiveAll(d, <<f>>) \o Tail(stack)
            IN  /\ Below(r) = m /\ Read(r) = "receiveAll" /\ FramesOK(d, m, "receiveAll")
                /\ m # << >> /\ m[1] = f /\ Len(m) = Len(stack)
        BY <1>1, <1>12, <1>14, <3>2, <3>3, GoesOn
      <4>2. stack' = ReceiveAll(d, <<f>>) \o Tail(stack)
        BY <2>4, <3>1
      <4> QED
        BY <4>1, <4>2
    <3> HIDE DEF m
    <3>5. PICK w : w = "receiveAll"
      OBVIOUS
    <3>6. Standing(d, m, w, "held")
      BY <1>12, <3>1, <3>4, <3>5 DEF Standing, InTx, On
    <3>7. AtEnded(d, m, w, "held")
      BY <2>3, <3>1, <3>4, <3>5 DEF AtEnded
    <3>8. Shape(d, m, w, loan)
      BY <1>12, <2>3, <3>4, <3>5, <3>6, <3>7 DEF Shape, Placed, CallFrames
    <3>9. Waited(d, w)
      <4>1. b'.v = b.v /\ loan' # "gone" /\ b'.state # "dead" /\ b'.out = << >> /\ b'.handlers # << >>
        BY <1>1, <2>3, <2>4, <3>1, <3>3 DEF Tame
      <4> QED
        BY <2>4, <2>7, <4>1, SentNext
    <3>10. loan' \in Use \ {"borrowed", "announced"} /\ FramesOK(d, m, w) /\ Below(stack') = m /\ Read(stack') = w
      BY <1>1, <2>3, <3>4, <3>5 DEF Use
    <3>11. b' = d /\ Shape(b', m, w, loan') /\ Waited(b', w)
      BY <1>1, <2>4, <3>8, <3>9
    <3> QED
      BY <1>3, <2>1, <2>4, <3>1, <3>3, <3>10, <3>11, AliveNext
  <2> QED
    BY <1>3, <2>6, <2>7
<1> QED
  BY <1>16, <1>17
\* One request more, and one handler more.
LEMMA OneLonger ==
  ASSUME NEW S, NEW p \in Seq(S), NEW T, NEW q \in Seq(T), NEW r, NEW h
  PROVE  Len(p \o Append(<< >>, r)) = Len(p) + 1 /\ Len(Append(q, h)) = Len(q) + 1
<1>1. PICK U : U = S \cup {r}
  OBVIOUS
<1>2. p \in Seq(U) /\ r \in U
  BY <1>1, SeqMono
<1>3. Append(<< >>, r) = <<r>> /\ <<r>> \in Seq(U) /\ Len(<<r>>) = 1
  BY <1>2
<1>4. PICK x : x = <<r>>
  OBVIOUS
<1>5. Len(p \o x) = Len(p) + 1
  BY <1>2, <1>3, <1>4, ConcatProperties
<1>6. Len(Append(q, h)) = Len(q) + 1
  <2>1. q \in Seq(T \cup {h}) /\ h \in T \cup {h}
    BY SeqMono
  <2> QED
    BY <2>1, AppendProperties
<1> QED
  BY <1>3, <1>4, <1>5, <1>6

\* A new result, whose RUN is queued.
LEMMA RunQueuedTame ==
  ASSUME BoltInv, b.v.major # 3, ~Idle, Top.at = "run"
  PROVE  LET c == RunQueued
             s == b.made + 1
         IN  /\ Tame(b, c) /\ Conn(c) /\ c.made = s /\ c.err = b.err /\ c.state = b.state /\ c.curr = b.curr
             /\ c.v = b.v /\ c.live = b.live /\ c.wire = b.wire /\ s \in Streams /\ s >= b.live
             /\ c.handlers = Append(b.handlers, [on |-> "run", s |-> s]) /\ c.handlers # << >>
             /\ c.out = Append(b.out, Request("run", s, 0, -1))
             /\ ~c.streams[s].attached /\ ~c.streams[s].endOfBatch /\ ~c.streams[s].given
             /\ Open(c) \subseteq Open(b)
<1> DEFINE s == b.made + 1
           q == [NewStream EXCEPT !.fetch = Top.n]
           e == [b EXCEPT !.made = s, !.streams[s] = q]
           r == Request("run", s, 0, -1)
           c == RunQueued
<1>1. Top \in OnRun /\ b.made < MaxStreams /\ Conn(b)
  BY AtRun DEF BoltInv
<1>2. StreamOK(q) /\ ~q.attached /\ ~q.endOfBatch /\ ~q.given /\ ~q.safe
  BY <1>1 DEF OnRun, StreamOK, StreamFields, NewStream
<1> HIDE DEF q
<1>3. Keeps(b, e)
  BY <1>1, <1>2, MakeKeeps
<1>4. /\ e.made = s /\ e.err = b.err /\ e.state = b.state /\ e.curr = b.curr /\ e.v = b.v /\ e.live = b.live
      /\ e.wire = b.wire /\ e.handlers = b.handlers /\ e.out = b.out /\ e.streams = [b.streams EXCEPT ![s] = q]
  BY <1>1 DEF Conn, ConnFields
<1>5. c = Enqueue(e, r)
  BY DEF RunQueued, q
<1> HIDE DEF e, c
<1>6. s \in Streams /\ s >= b.live /\ b.made \in Nat /\ s > b.made /\ s # 0 /\ s \in 0 .. MaxStreams /\ b.live \in Nat
  BY <1>1, StreamsAreCounted DEF Conn, Streams
<1> HIDE DEF s
<1>7. Conn(e) /\ DOMAIN b.streams = Streams
  BY <1>1, <1>3 DEF Keeps, Conn
<1>8. e.streams[s] = q /\ \A t \in Streams : t # s => e.streams[t] = b.streams[t]
  BY <1>4, <1>6, <1>7
<1>9. Tame(b, e)
  <2>1. ASSUME NEW t \in Streams
        PROVE  TameStream(b, e, t)
    <3>1. CASE t = s
      BY <1>2, <1>6, <1>8, <3>1 DEF TameStream, StaysPut
    <3>2. CASE t # s
      BY <1>8, <3>2 DEF TameStream, StaysPut, Over
    <3> QED
      BY <3>1, <3>2
  <2>2. b.made <= e.made
    BY <1>4, <1>6 DEF s
  <2> QED
    BY <1>4, <2>1, <2>2 DEF Tame
<1>10. r \in Requests /\ r.m = "run" /\ r.s = s
  BY <1>6 DEF Request, Requests, Messages
<1> HIDE DEF r
<1>11. r.s <= e.made /\ NewHandler([on |-> r.m, s |-> r.s], e) /\ e.v.major # 3
  BY <1>4, <1>6, <1>10 DEF NewHandler, OfResult
<1>12. /\ Tame(e, c) /\ Conn(c) /\ c.err = e.err /\ c.state = e.state /\ c.curr = e.curr
       /\ c.made = e.made /\ c.live = e.live /\ c.v = e.v /\ c.streams = e.streams /\ c.wire = e.wire
       /\ c.handlers = Append(e.handlers, [on |-> r.m, s |-> r.s]) /\ c.handlers # << >>
       /\ c.out = Append(e.out, r)
  BY <1>5, <1>7, <1>10, <1>11, EnqueueTame
<1>13. Tame(b, c)
  BY <1>1, <1>7, <1>9, <1>12, TameTrans
<1>14. Open(c) \subseteq Open(b)
  <2> SUFFICES ASSUME NEW t \in Open(c) PROVE t \in Open(b)
    OBVIOUS
  <2>1. t \in b.live .. s /\ c.streams[t].given /\ ~Over(c, t)
    BY <1>4, <1>12 DEF Open
  <2>2. t # s
    BY <1>2, <1>8, <1>12, <2>1
  <2>3. t \in b.live .. b.made /\ t \in Streams
    BY <1>1, <1>6, <2>1, <2>2, StreamsAreCounted DEF s, Streams, Conn
  <2>4. c.streams[t] = b.streams[t]
    BY <1>8, <1>12, <2>2, <2>3
  <2> QED
    BY <2>1, <2>3, <2>4 DEF Open, Over
<1> QED
  BY <1>2, <1>4, <1>6, <1>8, <1>10, <1>12, <1>13, <1>14 DEF c, s, r

\* A query, at its frame.
LEMMA AtRunTop ==
  ASSUME Here, At("run")
  PROVE  /\ ~Idle /\ Top.at = "run" /\ Top.at \in CallFrames /\ Conn(b) /\ b.v.major # 3 /\ General(b, "no", srv)
         /\ loan \in Use \ {"borrowed", "announced"} /\ net \in {"up", "down"} /\ stack # << >> /\ Top = stack[1]
         /\ << >> \o Tail(stack) = Tail(stack) /\ (net = "up" => Waited(b, "no"))
         /\ ~b.err => /\ ~Down(b) /\ Standing(b, stack, "no", loan) /\ AtRunFrame(b, stack, "no", loan)
                      /\ loan \in {"held", "tx", "single"}
<1>1. ~Idle /\ Top.at = "run" /\ Top.at \in CallFrames
  BY DEF At, CallFrames
<1>2. /\ Conn(b) /\ b.v.major # 3 /\ General(b, "no", srv) /\ (net = "up" => Waited(b, "no"))
      /\ loan \in Use \ {"borrowed", "announced"} /\ net \in {"up", "down"}
  BY <1>1, AtFrame DEF Here
<1>3. stack # << >> /\ Top = stack[1] /\ << >> \o Tail(stack) = Tail(stack)
  BY <1>1, AtTop
<1>4. ~b.err => ~Down(b) /\ Standing(b, stack, "no", loan) /\ AtRunFrame(b, stack, "no", loan)
  BY <1>1, <1>3, UpIfNoError DEF Placed
<1>5. ~b.err => loan \in {"held", "tx", "single"}
  BY <1>4 DEF AtRunFrame
<1> QED
  BY <1>1, <1>2, <1>3, <1>4, <1>5

\* The query is refused.
LEMMA RunRefusedGoes ==
  ASSUME Here, At("run"), ~AssertState(b, {"tx", "ready", "streamingTx"}), Continue(b, << >>), UNCHANGED loan
  PROVE  Goes
<1>1. /\ ~Idle /\ Top.at \in CallFrames /\ Conn(b) /\ << >> \o Tail(stack) = Tail(stack)
      /\ ~b.err => /\ ~Down(b) /\ Standing(b, stack, "no", loan) /\ AtRunFrame(b, stack, "no", loan)
  BY AtRunTop
<1>2. b' = b /\ srv' = srv /\ net' = net /\ loan' = loan /\ stack' = Tail(stack)
  BY <1>1 DEF Continue
<1>3. CASE b.err
  BY <1>1, <1>2, <1>3, SamePop
<1>4. CASE ~b.err
  <2>1. b.state = "streaming"
    <3>1. b.state \in States /\ b.state # "unauthorized" /\ b.state \notin {"tx", "ready", "streamingTx"}
      BY <1>1, <1>4 DEF Conn, Standing, AssertState
    <3> QED
      BY <1>1, <1>4, <3>1 DEF States, Down
  <2>2. loan = "held" /\ Open(b) = {} /\ Len(stack) = 1 /\ b.handlers = << >> /\ b.out = << >>
    BY <1>1, <1>4, <2>1 DEF AtRunFrame, InTx, Standing
  <2>3. Tail(stack) = << >>
    BY <1>1, <2>2, AtTop
  <2>4. Standing(b, << >>, "no", "held")
    BY <2>1, <2>2 DEF Standing, InTx, Single
  <2>5. Shape(b, Tail(stack), "no", loan)
    BY <2>2, <2>3, <2>4 DEF Shape
  <2> QED
    BY <1>1, <1>2, <1>4, <2>5, AlivePop
<1> QED
  BY <1>3, <1>4

\* The parameters cannot be packed, before version 6.
LEMMA PackErrorGoes ==
  ASSUME Here, At("run"), ~b.err, Continue(PackError(RunQueued), << >>), UNCHANGED loan
  PROVE  Goes
<1> DEFINE c == RunQueued
           e == SetError(c, TRUE)
           d == Send(e)
<1>1. /\ ~Idle /\ Top.at = "run" /\ Top.at \in CallFrames /\ Conn(b) /\ b.v.major # 3 /\ << >> \o Tail(stack) = Tail(stack)
      /\ ~Down(b) /\ loan \in {"held", "tx", "single"} /\ (net = "up" => Waited(b, "no"))
      /\ net \in {"up", "down"}
  BY AtRunTop
<1>2. b' = d /\ srv' = srv /\ net' = net /\ loan' = loan /\ stack' = Tail(stack)
  BY <1>1 DEF Continue, PackError
<1>3. /\ Tame(b, c) /\ Conn(c) /\ c.wire = b.wire /\ Open(c) \subseteq Open(b)
      /\ c.handlers = Append(b.handlers, [on |-> "run", s |-> b.made + 1])
      /\ c.out = Append(b.out, Request("run", b.made + 1, 0, -1))
  BY <1>1, RunQueuedTame DEF Here
<1> HIDE DEF c
<1>4. PICK fatal \in BOOLEAN : fatal /\ e = SetError(c, fatal)
  OBVIOUS
<1> HIDE DEF e
<1>5. /\ Tame(c, e) /\ Conn(e) /\ e.err /\ e.made = c.made /\ e.state = "dead"
      /\ e.handlers = c.handlers /\ e.out = c.out /\ e.wire = c.wire
  BY <1>3, <1>4, SetErrorTame
<1>6. /\ Tame(e, d) /\ Conn(d) /\ d.handlers = e.handlers /\ d.made = e.made
      /\ net # "down" => /\ d.state = e.state /\ d.err = e.err /\ d.out = << >> /\ d.wire = e.wire \o e.out
      /\ net = "down" => d.err /\ d.state = "dead"
  BY <1>5, SendTame
<1> HIDE DEF d
<1>7. d.err /\ d.state = "dead"
  BY <1>5, <1>6
<1>8. Tame(b, e)
  BY <1>1, <1>3, <1>5, TameTrans
<1>9. Tame(b, d)
  BY <1>1, <1>5, <1>6, <1>8, TameTrans
<1>10. net = "up" => Waited(d, "no")
  <2> SUFFICES ASSUME net = "up", Open(d) # {} PROVE Sent(d)
    BY DEF Waited
  <2>1. Open(d) \subseteq Open(e) /\ Open(e) \subseteq Open(c)
    BY <1>3, <1>5, <1>6, OpenShrinks
  <2>2. Sent(b)
    BY <1>1, <1>3, <2>1 DEF Waited
  <2>3. PICK r, h : r = Request("run", b.made + 1, 0, -1) /\ h = [on |-> "run", s |-> b.made + 1]
    OBVIOUS
  <2>4. d.wire = b.wire \o Append(b.out, r) /\ d.handlers = Append(b.handlers, h) /\ d.out = << >>
    BY <1>3, <1>5, <1>6, <2>3
  <2>5. b.wire \in Seq(Requests) /\ b.handlers \in Seq(Handlers) /\ b.out = << >> /\ Len(b.handlers) <= Len(b.wire)
    BY <1>1, <2>2 DEF Conn, Sent
  <2>6. Len(d.wire) = Len(b.wire) + 1 /\ Len(d.handlers) = Len(b.handlers) + 1
    BY <2>4, <2>5, OneLonger
  <2> QED
    BY <2>4, <2>5, <2>6, LenProperties DEF Sent
<1> QED
  BY <1>1, <1>2, <1>7, <1>9, <1>10, ErrorPop DEF Down
\* The parameters cannot be packed, in version 6.
LEMMA PackError6Goes ==
  ASSUME Here, At("run"), ~b.err, Continue(PackError6(RunQueued), << >>), UNCHANGED loan,
         Top.pack = "rejected" => b.handlers = << >>
  PROVE  Goes
<1> DEFINE c == RunQueued
           fatal == Top.pack # "rejected"
           e == SetError(c, fatal)
           d == [e EXCEPT !.out = << >>, !.handlers = Tail(@)]
<1>1. /\ ~Idle /\ Top.at = "run" /\ Top.at \in CallFrames /\ Conn(b) /\ b.v.major # 3 /\ << >> \o Tail(stack) = Tail(stack)
      /\ ~Down(b) /\ loan \in {"held", "tx", "single"} /\ (net = "up" => Waited(b, "no"))
  BY AtRunTop
<1>2. b' = d /\ srv' = srv /\ net' = net /\ loan' = loan /\ stack' = Tail(stack)
  BY <1>1 DEF Continue, PackError6
<1>3. /\ Tame(b, c) /\ Conn(c) /\ c.wire = b.wire /\ Open(c) \subseteq Open(b) /\ c.err = b.err
      /\ c.handlers = Append(b.handlers, [on |-> "run", s |-> b.made + 1]) /\ c.handlers # << >>
  BY <1>1, RunQueuedTame DEF Here
<1> HIDE DEF c
<1>4. fatal \in BOOLEAN
  OBVIOUS
<1>5. fatal \/ b.handlers = << >>
  OBVIOUS
<1> HIDE DEF fatal
<1>6. /\ Tame(c, e) /\ Conn(e) /\ e.err /\ e.made = c.made /\ (fatal => e.state = "dead")
      /\ (~fatal => e.state = "failed")
      /\ e.handlers = c.handlers /\ e.wire = c.wire
  BY <1>3, <1>4, SetErrorTame
<1> HIDE DEF e
<1>7. /\ d.streams = e.streams /\ d.made = e.made /\ d.live = e.live /\ d.v = e.v
      /\ d.curr = e.curr /\ d.err = e.err /\ d.state = e.state
      /\ d.handlers = Tail(e.handlers) /\ d.out = << >> /\ d.wire = e.wire
  BY <1>6 DEF Conn, ConnFields
<1> HIDE DEF d
<1>8. Conn(d)
  BY <1>2 DEF Here, BoltInv
<1>9. /\ e.handlers \in Seq(Handlers) /\ e.handlers # << >> /\ Len(e.handlers) \in Nat
      /\ \A i \in 1 .. Len(d.handlers) : d.handlers[i] = e.handlers[i + 1] /\ i + 1 \in 2 .. Len(e.handlers)
      /\ Len(d.handlers) = Len(e.handlers) - 1
  <2>1. e.handlers \in Seq(Handlers) /\ e.handlers # << >>
    BY <1>3, <1>6 DEF Conn
  <2> QED
    BY <1>7, <2>1, Popped, LenProperties
<1>10. Tame(e, d)
  <2>1. \A i \in 1 .. Len(d.handlers) : \E j \in 1 .. Len(e.handlers) : d.handlers[i] = e.handlers[j]
    BY <1>9
  <2>2. e.made \in Int
    BY <1>6 DEF Conn
  <2> QED
    BY <1>7, <2>1, <2>2 DEF Tame, TameStream, StaysPut, Over
<1>11. Tame(b, e)
  BY <1>1, <1>3, <1>6, TameTrans
<1>12. Tame(b, d)
  BY <1>1, <1>6, <1>8, <1>10, <1>11, TameTrans
<1>13. Len(d.handlers) = Len(b.handlers) /\ Len(b.handlers) \in Nat
  <2>1. PICK h : h = [on |-> "run", s |-> b.made + 1]
    OBVIOUS
  <2>2. b.handlers \in Seq(Handlers) /\ b.wire \in Seq(Requests)
    BY <1>1 DEF Conn
  <2>3. Len(Append(b.handlers, h)) = Len(b.handlers) + 1
    BY <2>2, OneLonger
  <2>4. Len(e.handlers) = Len(b.handlers) + 1
    BY <1>3, <1>6, <2>1, <2>3
  <2> QED
    BY <1>9, <2>2, <2>4, LenProperties
<1>14. net = "up" => Waited(d, "no")
  <2> SUFFICES ASSUME net = "up", Open(d) # {} PROVE Sent(d)
    BY DEF Waited
  <2>1. Open(d) \subseteq Open(e) /\ Open(e) \subseteq Open(c)
    BY <1>3, <1>6, <1>7, <1>8, <1>10, OpenShrinks
  <2>2. Sent(b)
    BY <1>1, <1>3, <2>1 DEF Waited
  <2> QED
    BY <1>3, <1>6, <1>7, <1>13, <2>2 DEF Sent
<1>15. d.state = "failed" => Plains(d.handlers)
  <2>1. d.state = "failed" => Len(d.handlers) = 0
    BY <1>5, <1>6, <1>7, <1>13
  <2> QED
    BY <2>1 DEF Plains
<1>16. d.err /\ Down(d)
  BY <1>4, <1>6, <1>7 DEF Down
<1>17. b.state # "dead" /\ loan # "pipelined"
  BY <1>1 DEF Down
<1> QED
  BY <1>1, <1>2, <1>12, <1>14, <1>15, <1>16, <1>17, ErrorPop

\* RUN and PULL of a new result.
LEMMA RunAndPull ==
  ASSUME BoltInv, b.v.major # 3, ~Idle, Top.at = "run"
  PROVE  LET s == b.made + 1
             c == Enqueue(RunQueued, Request("pull", s, Top.n, -1))
         IN  /\ Tame(b, c) /\ Conn(c) /\ c.made = s /\ c.err = b.err /\ c.state = b.state /\ c.curr = b.curr
             /\ c.v = b.v /\ c.live = b.live /\ s \in Streams /\ s >= b.live
             /\ c.handlers = Append(Append(b.handlers, [on |-> "run", s |-> s]), [on |-> "pull", s |-> s])
             /\ c.handlers # << >>
             /\ ~c.streams[s].attached /\ ~c.streams[s].endOfBatch
             /\ Open(c) \subseteq Open(b)
<1> DEFINE s == b.made + 1
           e == RunQueued
           r == Request("pull", s, Top.n, -1)
           c == Enqueue(e, r)
<1>1. Top \in OnRun /\ Conn(b)
  BY AtRun DEF BoltInv
<1>2. /\ Tame(b, e) /\ Conn(e) /\ e.made = s /\ e.err = b.err /\ e.state = b.state /\ e.curr = b.curr
      /\ e.v = b.v /\ e.live = b.live /\ s \in Streams /\ s >= b.live
      /\ e.handlers = Append(b.handlers, [on |-> "run", s |-> s])
      /\ ~e.streams[s].attached /\ ~e.streams[s].endOfBatch /\ Open(e) \subseteq Open(b)
  BY RunQueuedTame
<1> HIDE DEF s, e
<1>3. s \in 1 .. MaxStreams /\ s \in 0 .. MaxStreams /\ s # 0 /\ s <= s
  BY <1>2, StreamsAreCounted DEF Streams
<1>4. r \in Requests /\ r.m = "pull" /\ r.s = s
  BY <1>1, <1>3 DEF Request, Requests, Messages, OnRun
<1> HIDE DEF r
<1>5. r.s <= e.made /\ NewHandler([on |-> r.m, s |-> r.s], e) /\ e.v.major # 3
  BY <1>2, <1>3, <1>4 DEF NewHandler, OfResult
<1>6. /\ Tame(e, c) /\ Conn(c) /\ c.err = e.err /\ c.state = e.state /\ c.curr = e.curr
      /\ c.made = e.made /\ c.live = e.live /\ c.v = e.v /\ c.streams = e.streams
      /\ c.handlers = Append(e.handlers, [on |-> r.m, s |-> r.s]) /\ c.handlers # << >>
  BY <1>2, <1>4, <1>5, EnqueueTame
<1> HIDE DEF c
<1>7. Tame(b, c)
  BY <1>1, <1>2, <1>6, TameTrans
<1>8. Open(c) \subseteq Open(e)
  BY <1>2, <1>6, OpenShrinks
<1> QED
  BY <1>2, <1>4, <1>6, <1>7, <1>8 DEF c, e, s, r

\* The last two handlers.
LEMMA TwoMore ==
  ASSUME NEW S, NEW q \in Seq(S), NEW g, NEW h
  PROVE  LET p == Append(Append(q, g), h)
         IN  /\ Len(q) \in Nat /\ Len(p) = Len(q) + 2 /\ p[Len(q) + 1] = g /\ p[Len(q) + 2] = h
             /\ \A i \in 1 .. Len(q) : p[i] = q[i]
<1> DEFINE T == S \cup {g, h}
           r == Append(q, g)
           p == Append(r, h)
<1>1. q \in Seq(T) /\ g \in T /\ h \in T
  BY SeqMono
<1> HIDE DEF T
<1>2. r \in Seq(T) /\ Len(r) = Len(q) + 1 /\ Len(q) \in Nat /\ r[Len(q) + 1] = g
      /\ \A i \in 1 .. Len(q) : r[i] = q[i]
  BY <1>1, AppendProperties, LenProperties
<1> HIDE DEF r
<1>3. p \in Seq(T) /\ Len(p) = Len(r) + 1 /\ p[Len(r) + 1] = h /\ \A i \in 1 .. Len(r) : p[i] = r[i]
  BY <1>1, <1>2, AppendProperties
<1> HIDE DEF p
<1>4. Len(p) = Len(q) + 2 /\ p[Len(q) + 2] = h
  BY <1>2, <1>3
<1>5. p[Len(q) + 1] = g /\ \A i \in 1 .. Len(q) : p[i] = q[i]
  BY <1>2, <1>3
<1> QED
  BY <1>2, <1>4, <1>5 DEF p, r
\* A call goes on with f on the frames below, when one response was read.
LEMMA ReceiveOn ==
  ASSUME NEW S, stack \in Seq(S), stack # << >>, NEW f
  PROVE  LET r == <<[at |-> "receive"], f>> \o Tail(stack)
             m == <<f>> \o Tail(stack)
         IN  /\ Below(r) = m /\ Read(r) = "receive"
             /\ m # << >> /\ m[1] = f /\ Len(m) = Len(stack)
             /\ \A i \in 2 .. Len(stack) : m[i] = stack[i]
<1> DEFINE g == [at |-> "receive"]
           r == <<g, f>> \o Tail(stack)
           m == <<f>> \o Tail(stack)
<1>1. /\ Len(stack) \in Nat \ {0} /\ Tail(stack) \in Seq(S) /\ Len(Tail(stack)) = Len(stack) - 1
      /\ \A i \in 1 .. Len(Tail(stack)) : Tail(stack)[i] = stack[i + 1]
  BY Popped
<1>2. /\ m # << >> /\ m[1] = f /\ Len(m) = Len(Tail(stack)) + 1
      /\ \A i \in 1 .. Len(Tail(stack)) : m[i + 1] = Tail(stack)[i]
  BY <1>1, Pushed
<1>3. m \in Seq(S \cup {f})
  <2>1. Tail(stack) \in Seq(S \cup {f})
    BY <1>1, SeqMono
  <2> QED
    BY <2>1, OnTop
<1>4. \A i \in 2 .. Len(stack) : m[i] = stack[i]
  <2> SUFFICES ASSUME NEW i \in 2 .. Len(stack) PROVE m[i] = stack[i]
    OBVIOUS
  <2>1. i - 1 \in 1 .. Len(Tail(stack)) /\ (i - 1) + 1 = i
    BY <1>1
  <2>2. m[(i - 1) + 1] = Tail(stack)[i - 1] /\ Tail(stack)[i - 1] = stack[(i - 1) + 1]
    BY <1>1, <1>2, <2>1
  <2> QED
    BY <2>1, <2>2
<1>5. r = <<g>> \o m
  <2> DEFINE T == S \cup {f, g}
             p == <<g>>
             q == <<f>>
             t == Tail(stack)
  <2>1. p \in Seq(T) /\ q \in Seq(T)
    OBVIOUS
  <2>2. t \in Seq(T)
    BY <1>1, SeqMono
  <2>3. p \o q = <<g, f>>
    BY ShortConcat
  <2> HIDE DEF p, q, t, T
  <2>4. (p \o q) \o t = p \o (q \o t)
    BY <2>1, <2>2, ConcatAssociative
  <2> QED
    BY <2>3, <2>4 DEF p, q, t
<1> HIDE DEF m
<1>6. Below(<<g>> \o m) = m /\ Read(<<g>> \o m) = "receive"
  BY <1>3, SomethingRead
<1> HIDE DEF r, g
<1>7. Len(m) = Len(stack)
  BY <1>1, <1>2
<1> QED
  BY <1>2, <1>4, <1>5, <1>6, <1>7 DEF r, m, g

\* The same for frames that fit.
LEMMA ReceiveGoesOn ==
  ASSUME Here, ~Idle, Top.at \in CallFrames, NEW d, Conn(d), Tame(b, d), NEW f, \A t : FrameOK(d, f, t)
  PROVE  LET m == <<f>> \o Tail(stack)
             k == <<[at |-> "receive"], f>> \o Tail(stack)
         IN  /\ Below(k) = m /\ Read(k) = "receive" /\ FramesOK(d, m, "receive")
             /\ m # << >> /\ m[1] = f /\ Len(m) = Len(stack)
             /\ \A i \in 2 .. Len(stack) : m[i] = stack[i]
<1> DEFINE m == <<f>> \o Tail(stack)
           k == <<[at |-> "receive"], f>> \o Tail(stack)
<1>1. /\ Conn(b) /\ Used(b, stack, "no", loan) /\ \E S : stack \in Seq(S)
  BY AtFrame DEF Here
<1>2. FramesOK(b, stack, "no") /\ stack # << >>
  BY <1>1 DEF Used, Idle
<1>3. PICK S : stack \in Seq(S)
  BY <1>1
<1>4. /\ Below(k) = m /\ Read(k) = "receive"
      /\ m # << >> /\ m[1] = f /\ Len(m) = Len(stack)
      /\ \A i \in 2 .. Len(stack) : m[i] = stack[i]
  BY <1>2, <1>3, ReceiveOn
<1> HIDE DEF m, k
<1>5. FrameOK(d, m[1], "receive" = "no")
  BY <1>4
<1>6. FramesOK(d, m, "receive")
  BY <1>1, <1>2, <1>4, <1>5, FramesReplace
<1> QED
  BY <1>4, <1>6 DEF m, k

\* What was sent is awaited.
LEMMA RunSentEnds ==
  ASSUME Here, ~Idle, Top.at \in CallFrames, ~Down(b), ~b.err, loan' = loan, loan \in {"held", "tx", "single"},
         srv' = srv, net' = net, net = "up",
         NEW c, Conn(c), Tame(b, c), c.state = b.state, c.err = b.err, c.handlers # << >>,
         NEW d, d = Send(c), b' = d, d.handlers = c.handlers,
         NEW m, Below(stack') = m, Read(stack') = "receive", FramesOK(d, m, "receive"),
         Shape(d, m, "receive", loan)
  PROVE  Goes
<1>1. PICK w : w = "receive"
  OBVIOUS
<1>2. Read(stack') = w /\ FramesOK(b', m, w) /\ Shape(b', m, w, loan) /\ b' = Send(c) /\ b'.handlers # << >>
  BY <1>1
<1>3. loan # "pipelined" /\ net # "down"
  OBVIOUS
<1> QED
  BY <1>2, <1>3, SendGoes

\* RUN and PULL are sent.
LEMMA RunSentGoes ==
  ASSUME Here, At("run"), AssertState(b, {"tx", "ready", "streamingTx"}), UNCHANGED loan,
         LET s == b.made + 1
             d == Send(Enqueue(RunQueued, Request("pull", s, Top.n, -1)))
         IN  Continue(d, IF d.err THEN << >> ELSE <<[at |-> "receive"], [at |-> "attach", s |-> s]>>)
  PROVE  Goes
<1> DEFINE s == b.made + 1
           c == Enqueue(RunQueued, Request("pull", s, Top.n, -1))
           d == Send(c)
           f == [at |-> "attach", s |-> s]
           m == <<f>> \o Tail(stack)
           h1 == [on |-> "run", s |-> s]
           h2 == [on |-> "pull", s |-> s]
           n == Len(b.handlers)
<1>1. ~b.err /\ b.state \in {"tx", "ready", "streamingTx"}
  BY DEF AssertState
<1>2. /\ ~Idle /\ Top.at = "run" /\ Top.at \in CallFrames /\ Conn(b) /\ b.v.major # 3 /\ General(b, "no", srv)
      /\ loan \in Use \ {"borrowed", "announced"} /\ net \in {"up", "down"} /\ stack # << >> /\ Top = stack[1]
      /\ << >> \o Tail(stack) = Tail(stack)
      /\ ~Down(b) /\ Standing(b, stack, "no", loan) /\ AtRunFrame(b, stack, "no", loan)
      /\ loan \in {"held", "tx", "single"}
  BY <1>1, AtRunTop
<1>3. /\ b' = d /\ srv' = srv /\ net' = net /\ loan' = loan
      /\ stack' = (IF d.err THEN << >> ELSE <<[at |-> "receive"], f>>) \o Tail(stack)
  BY DEF Continue
<1>4. /\ Tame(b, c) /\ Conn(c) /\ c.made = s /\ c.err = b.err /\ c.state = b.state /\ c.curr = b.curr
      /\ c.v = b.v /\ c.live = b.live /\ s \in Streams /\ s >= b.live
      /\ c.handlers = Append(Append(b.handlers, h1), h2) /\ c.handlers # << >>
      /\ ~c.streams[s].attached /\ ~c.streams[s].endOfBatch
      /\ Open(c) \subseteq Open(b)
  BY <1>2, RunAndPull DEF Here
<1>5. f.at = "attach" /\ f.s = s
  OBVIOUS
<1> HIDE DEF c, f, s, h1, h2
<1>6. /\ Tame(c, d) /\ Conn(d) /\ d.handlers = c.handlers /\ d.made = c.made /\ d.live = c.live /\ d.v = c.v
      /\ net # "down" => /\ d.state = c.state /\ d.err = c.err /\ d.curr = c.curr /\ d.streams = c.streams
                         /\ d.out = << >>
      /\ net = "down" => d.err
  BY <1>4, SendTame
<1>7. d = Send(c)
  OBVIOUS
<1> HIDE DEF d
<1>8. CASE net = "down"
  <2>1. stack' = Tail(stack) /\ loan # "pipelined" /\ b' = Send(c)
    BY <1>2, <1>3, <1>6, <1>7, <1>8
  <2> QED
    BY <1>1, <1>2, <1>3, <1>4, <1>8, <2>1, SendFails
<1>9. CASE net = "up"
  <2>1. /\ d.state = b.state /\ ~d.err /\ d.out = << >> /\ d.curr = b.curr /\ ~Down(d) /\ (InTx(d) <=> InTx(b))
        /\ ~d.streams[s].attached /\ ~d.streams[s].endOfBatch /\ d.made = s /\ d.v = b.v /\ d.live = b.live
    BY <1>1, <1>2, <1>4, <1>6, <1>9 DEF Down, InTx
  <2>2. Tame(b, d) /\ Open(d) \subseteq Open(b)
    <3>1. Tame(b, d)
      BY <1>2, <1>4, <1>6, TameTrans
    <3>2. Open(d) \subseteq Open(c)
      BY <1>4, <1>6, OpenShrinks
    <3> QED
      BY <1>4, <3>1, <3>2
  <2>3. s \in d.live .. d.made /\ s \in Int /\ s <= s
    BY <1>2, <1>4, <2>1, StreamsAreCounted DEF Streams, Conn
  <2>4. \A t : FrameOK(d, f, t)
    BY <1>5, <2>3 DEF FrameOK
  <2>5. /\ Below(stack') = m /\ Read(stack') = "receive" /\ FramesOK(d, m, "receive")
        /\ m # << >> /\ m[1] = f /\ Len(m) = Len(stack)
        /\ \A i \in 2 .. Len(stack) : m[i] = stack[i]
    <3>1. stack' = <<[at |-> "receive"], f>> \o Tail(stack)
      BY <1>3, <2>1
    <3>2. ~Idle /\ Top.at \in CallFrames /\ Conn(d) /\ Tame(b, d)
      BY <1>2, <1>6, <2>2
    <3>3. LET u == <<f>> \o Tail(stack)
              k == <<[at |-> "receive"], f>> \o Tail(stack)
          IN  /\ Below(k) = u /\ Read(k) = "receive" /\ FramesOK(d, u, "receive")
              /\ u # << >> /\ u[1] = f /\ Len(u) = Len(stack)
              /\ \A i \in 2 .. Len(stack) : u[i] = stack[i]
      BY <2>4, <3>2, ReceiveGoesOn
    <3> QED
      BY <3>1, <3>3
  <2> HIDE DEF m
  <2>6. /\ n \in Nat /\ Len(d.handlers) = n + 2 /\ d.handlers[n + 1] = h1 /\ d.handlers[n + 2] = h2
        /\ \A i \in 1 .. n : d.handlers[i] = b.handlers[i]
    <3>1. b.handlers \in Seq(Handlers) /\ d.handlers = Append(Append(b.handlers, h1), h2)
      BY <1>2, <1>4, <1>6 DEF Conn
    <3>2. LET p == Append(Append(b.handlers, h1), h2)
          IN  /\ n \in Nat /\ Len(p) = n + 2 /\ p[n + 1] = h1 /\ p[n + 2] = h2
              /\ \A i \in 1 .. n : p[i] = b.handlers[i]
      BY <3>1, TwoMore
    <3> QED
      BY <3>1, <3>2
  <2>60. b.handlers = << >> => n = 0
    OBVIOUS
  <2> HIDE DEF n
  <2>7. CASE InTx(b)
    <3>1. Len(stack) = 1 /\ loan \in {"tx", "single"}
      BY <1>2, <2>7 DEF AtRunFrame
    <3>2. AttachingTx(d, d.made)
      <4>1. n + 1 \in 1 .. Len(d.handlers)
        BY <2>6
      <4> QED
        BY <2>1, <2>6, <4>1 DEF AttachingTx, h1
    <3>3. Standing(d, m, "receive", loan)
      BY <2>1, <2>7, <3>1 DEF Standing, InTx
    <3>4. AtAttach(d, m, "receive", loan)
      BY <1>4, <1>5, <2>1, <2>5, <2>7, <3>1, <3>2 DEF AtAttach
    <3>5. Shape(d, m, "receive", loan)
      BY <1>5, <2>5, <3>3, <3>4 DEF Shape, Placed, CallFrames
    <3> QED
      BY <1>1, <1>2, <1>3, <1>4, <1>6, <1>7, <1>9, <2>5, <3>5, RunSentEnds
  <2>8. CASE ~InTx(b)
    <3>1. /\ loan = "held" /\ Open(b) = {} /\ b.state = "ready"
          /\ Len(stack) = 1 \/ (Len(stack) = 2 /\ stack[2].at = "table")
          /\ b.curr = 0 /\ (b.v.major = 4 => b.handlers = << >>)
      BY <1>1, <1>2, <2>8 DEF AtRunFrame, InTx
    <3>2. Plains(b.handlers)
      BY <1>2, <3>1 DEF Standing, On
    <3>3. Unanswered(d, s, "receive")
      <4>1. d.handlers[Len(d.handlers) - 1] = h1 /\ d.handlers[Len(d.handlers)] = h2 /\ Len(d.handlers) >= 2
        <5>1. Len(d.handlers) - 1 = n + 1 /\ Len(d.handlers) = n + 2 /\ Len(d.handlers) >= 2
          BY <2>6
        <5> QED
          BY <2>6, <5>1
      <4>2. \A i \in 1 .. Len(d.handlers) - 2 : d.handlers[i].s = 0
        <5>1. Len(d.handlers) - 2 = n
          BY <2>6
        <5>2. \A i \in 1 .. n : b.handlers[i].s = 0
          BY <3>2 DEF Plains, n
        <5> QED
          BY <2>6, <5>1, <5>2
      <4>3. b.v.major = 4 => Len(d.handlers) = 2
        BY <2>6, <2>60, <3>1
      <4> QED
        BY <2>1, <3>1, <4>1, <4>2, <4>3 DEF Unanswered, h1, h2
    <3>4. Attaching(d, d.made, "receive")
      BY <2>1, <2>2, <3>1, <3>3 DEF Attaching
    <3>5. Standing(d, m, "receive", "held")
      BY <1>5, <2>1, <2>5, <3>1 DEF Standing, InTx, On
    <3>6. AtAttach(d, m, "receive", "held")
      <4>1. Len(m) = 1 \/ (Len(m) = 2 /\ m[2].at = "table")
        BY <2>5, <3>1
      <4> QED
        BY <1>4, <1>5, <2>1, <2>5, <2>8, <3>1, <3>4, <4>1 DEF AtAttach
    <3>7. Shape(d, m, "receive", loan)
      BY <1>5, <2>5, <3>1, <3>5, <3>6 DEF Shape, Placed, CallFrames
    <3> QED
      BY <1>1, <1>2, <1>3, <1>4, <1>6, <1>7, <1>9, <2>5, <3>7, RunSentEnds
  <2> QED
    BY <2>7, <2>8
<1> QED
  BY <1>2, <1>8, <1>9
\* bufferStream.
LEMMA BufferStreamGoes ==
  ASSUME Here, BufferStream
  PROVE  Goes
<1>1. CASE b.err \/ b.streams[Top.s].done # "no"
  BY <1>1, BufferedGoes
<1>2. CASE ~b.err /\ b.streams[Top.s].done = "no"
  BY <1>2, BufferMoreGoes
<1> QED
  BY <1>1, <1>2

\* The rest of run, up to version 5.
LEMMA RunSendGoes ==
  ASSUME Here, RunSend(PackError(RunQueued))
  PROVE  Goes
<1>1. At("run") /\ loan' = loan
  BY DEF RunSend
<1>2. CASE ~AssertState(b, {"tx", "ready", "streamingTx"})
  BY <1>1, <1>2, RunRefusedGoes DEF RunSend
<1>3. CASE AssertState(b, {"tx", "ready", "streamingTx"}) /\ Top.pack # "ok"
  BY <1>1, <1>3, PackErrorGoes DEF RunSend, AssertState
<1>4. CASE AssertState(b, {"tx", "ready", "streamingTx"}) /\ Top.pack = "ok"
  BY <1>1, <1>4, RunSentGoes DEF RunSend
<1> QED
  BY <1>2, <1>3, <1>4

\* The same in version 6.
LEMMA RunSend6Goes ==
  ASSUME Here, RunSend(PackError6(RunQueued)), Top.pack = "rejected" => b.handlers = << >>
  PROVE  Goes
<1>1. At("run") /\ loan' = loan
  BY DEF RunSend
<1>2. CASE ~AssertState(b, {"tx", "ready", "streamingTx"})
  BY <1>1, <1>2, RunRefusedGoes DEF RunSend
<1>3. CASE AssertState(b, {"tx", "ready", "streamingTx"}) /\ Top.pack # "ok"
  BY <1>1, <1>3, PackError6Goes DEF RunSend, AssertState
<1>4. CASE AssertState(b, {"tx", "ready", "streamingTx"}) /\ Top.pack = "ok"
  BY <1>1, <1>4, RunSentGoes DEF RunSend
<1> QED
  BY <1>2, <1>3, <1>4

\* A result is given to the caller.
Given(c, s) == [c EXCEPT !.streams[s].given = TRUE,
                         !.state = CASE @ = "ready" -> "streaming"
                                     [] @ = "tx" -> "streamingTx"
                                     [] OTHER -> @]

\* What that changes.
LEMMA GivenSame ==
  ASSUME NEW c, Conn(c), NEW s \in Streams
  PROVE  LET d == Given(c, s)
         IN  /\ d.v = c.v /\ d.live = c.live /\ d.made = c.made /\ d.curr = c.curr /\ d.err = c.err
             /\ d.handlers = c.handlers /\ d.out = c.out /\ d.wire = c.wire
             /\ c.state = "ready" => d.state = "streaming"
             /\ c.state \in {"tx", "streamingTx"} => d.state = "streamingTx"
             /\ \A r \in Streams :
                  /\ d.streams[r].safe = c.streams[r].safe /\ d.streams[r].fifo = c.streams[r].fifo
                  /\ d.streams[r].done = c.streams[r].done /\ d.streams[r].endOfBatch = c.streams[r].endOfBatch
                  /\ r # s => d.streams[r].given = c.streams[r].given
             /\ d.streams[s].given
<1> DEFINE q == c.streams[s]
           q1 == [q EXCEPT !.given = TRUE]
           d == Given(c, s)
<1>1. DOMAIN c.streams = Streams /\ DOMAIN q = StreamFields
  BY DEF Conn, StreamOK
<1>2. /\ d.v = c.v /\ d.live = c.live /\ d.made = c.made /\ d.curr = c.curr /\ d.err = c.err
      /\ d.handlers = c.handlers /\ d.out = c.out /\ d.wire = c.wire
      /\ c.state = "ready" => d.state = "streaming"
      /\ c.state \in {"tx", "streamingTx"} => d.state = "streamingTx"
      /\ d.streams = [c.streams EXCEPT ![s] = q1]
  BY DEF Conn, ConnFields, Given
<1> HIDE DEF d
<1>3. /\ q1.safe = q.safe /\ q1.fifo = q.fifo /\ q1.done = q.done /\ q1.given = TRUE
      /\ q1.endOfBatch = q.endOfBatch
  BY <1>1 DEF StreamFields
<1> HIDE DEF q1
<1>4. /\ \A r \in Streams :
           /\ d.streams[r].safe = c.streams[r].safe /\ d.streams[r].fifo = c.streams[r].fifo
           /\ d.streams[r].done = c.streams[r].done /\ d.streams[r].endOfBatch = c.streams[r].endOfBatch
           /\ r # s => d.streams[r].given = c.streams[r].given
      /\ d.streams[s].given
  BY <1>1, <1>2, <1>3
<1> QED
  BY <1>2, <1>4 DEF d

\* The caller has its result.
LEMMA RunGivenGoes ==
  ASSUME Here, At("attach"), ~b.err, Continue(Given(b, Top.s), << >>), loan' = loan,
         b.v.major = 4 \/ b.streams[Top.s].attached
  PROVE  Goes
<1> DEFINE s == Top.s
           d == Given(b, s)
<1>1. ~Idle /\ Top.at = "attach" /\ Top.at \in CallFrames
  BY DEF At, CallFrames
<1>2. /\ ~Down(b) /\ Standing(b, stack, "no", loan) /\ AtAttach(b, stack, "no", loan)
  BY <1>1, UpIfNoError, AtTop DEF Placed
<1>3. /\ Conn(b) /\ General(b, "no", srv) /\ Used(b, stack, "no", loan) /\ \E S : stack \in Seq(S)
      /\ loan \in Use \ {"borrowed", "announced"} /\ Top = stack[1]
  BY <1>1, AtFrame DEF Here
<1>4. /\ stack # << >> /\ << >> \o Tail(stack) = Tail(stack)
      /\ Len(stack) = 1 => Tail(stack) = << >>
      /\ Len(stack) = 2 => /\ Tail(stack) = <<stack[2]>> /\ Tail(stack) # << >> /\ Tail(stack)[1] = stack[2]
                           /\ Len(Tail(stack)) = 1
  BY <1>1, AtTop
<1>5. s = b.made /\ b.made >= b.live /\ s \in Streams
  BY <1>1, <1>2, <1>3, TopResult DEF AtAttach, OnResult
<1>6. b' = d /\ srv' = srv /\ net' = net /\ stack' = Tail(stack)
  BY <1>4 DEF Continue
<1>7. /\ d.v = b.v /\ d.live = b.live /\ d.made = b.made /\ d.curr = b.curr /\ d.err = b.err
      /\ d.handlers = b.handlers /\ d.out = b.out /\ d.wire = b.wire
      /\ b.state = "ready" => d.state = "streaming"
      /\ b.state \in {"tx", "streamingTx"} => d.state = "streamingTx"
      /\ \A r \in Streams :
           /\ d.streams[r].safe = b.streams[r].safe /\ d.streams[r].fifo = b.streams[r].fifo
           /\ d.streams[r].done = b.streams[r].done /\ d.streams[r].endOfBatch = b.streams[r].endOfBatch
           /\ r # s => d.streams[r].given = b.streams[r].given
      /\ d.streams[s].given
  BY <1>3, <1>5, GivenSame
<1> HIDE DEF d
<1>8. Conn(d)
  BY <1>6 DEF Here, BoltInv
<1>9. b.out = << >> /\ loan \in {"held", "tx", "single"} /\ b.state \in {"ready", "tx", "streamingTx"}
  <2>1. loan \in {"held", "tx", "single"}
    BY <1>2 DEF AtAttach
  <2>2. ~On(stack, {"begin", "run"})
    BY <1>1, <1>3 DEF On
  <2> QED
    BY <1>2, <2>1, <2>2 DEF Standing, AtAttach, InTx
<1>10. d.state \in {"streaming", "streamingTx"} /\ ~Down(d)
  BY <1>7, <1>9 DEF Down
<1>11. Open(d) \subseteq Open(b) \cup {s}
  <2> SUFFICES ASSUME NEW r \in Open(d), r # s PROVE r \in Open(b)
    OBVIOUS
  <2>1. r \in d.live .. d.made /\ d.streams[r].given /\ ~Over(d, r)
    BY DEF Open
  <2>2. r \in Streams
    BY <1>8, <2>1, StreamsAreCounted DEF Conn, Streams
  <2> QED
    BY <1>7, <2>1, <2>2 DEF Open, Over
<1>12. General(d, "no", srv)
  <2>1. b.made \in Int /\ b.live \in Int /\ ~(b.live > b.made)
    BY <1>3, <1>5 DEF Conn
  <2>2. Kinds(d) /\ OldOnes(d, srv) /\ Keyed(d)
    BY <1>3, <1>7, <2>1 DEF General, Kinds, OldOnes, Keyed
  <2>3. srv.st # "failed"
    BY <1>2, <1>3 DEF General
  <2> QED
    BY <1>7, <1>10, <2>2, <2>3 DEF General, Down
<1>13. net = "up" => Waited(d, "no")
  BY <1>6, <1>7, <1>9, <1>10, SentNext DEF Down
<1>14. FramesOK(d, Tail(stack), "no") /\ Below(stack') = Tail(stack) /\ Read(stack') = "no"
  <2>1. PICK S : stack \in Seq(S)
    BY <1>3
  <2>2. FramesOK(b, stack, "no")
    BY <1>3 DEF Used
  <2>3. FramesOK(b, Tail(stack), "no") /\ Below(Tail(stack)) = Tail(stack) /\ Read(Tail(stack)) = "no"
    <3>1. b.made \in Int
      BY <1>3 DEF Conn
    <3>2. Tame(b, b)
      BY <1>3, TameSame
    <3> QED
      BY <1>3, <1>4, <2>1, <2>2, <3>2, FramesTame
  <2>4. Len(stack) = 1 \/ (Len(stack) = 2 /\ stack[2].at = "table")
    BY <1>2 DEF AtAttach
  <2>5. CASE Len(stack) = 1
    <3>1. FramesOK(d, << >>, "no")
      BY FramesShort
    <3> QED
      BY <1>4, <1>6, <2>3, <2>5, <3>1
  <2>6. CASE Len(stack) = 2 /\ stack[2].at = "table"
    <3>1. FrameOK(d, stack[2], "no" = "no")
      BY <2>6, AnyFrame DEF OnResult
    <3>2. FramesOK(d, <<stack[2]>>, "no")
      BY <3>1, FramesShort
    <3> QED
      BY <1>4, <1>6, <2>3, <2>6, <3>2
  <2> QED
    BY <2>4, <2>5, <2>6
<1>15. Shape(d, Tail(stack), "no", loan)
  <2>1. CASE InTx(b)
    <3>1. Len(stack) = 1 /\ loan \in {"tx", "single"} /\ InTx(d) /\ d.state = "streamingTx"
      BY <1>2, <1>7, <2>1 DEF AtAttach, InTx
    <3>2. Standing(d, Tail(stack), "no", loan)
      BY <1>7, <1>9, <3>1 DEF Standing, InTx
    <3> QED
      BY <1>4, <3>1, <3>2 DEF Shape
  <2>2. CASE ~InTx(b)
    <3>1. /\ b.state = "ready" /\ loan = "held" /\ Attaching(b, s, "no")
          /\ Len(stack) = 1 \/ (Len(stack) = 2 /\ stack[2].at = "table")
      BY <1>2, <1>5, <2>2 DEF AtAttach
    <3>2. Attached(b, s, "no") /\ Open(b) = {} /\ ~b.streams[s].endOfBatch
      <4>1. ~Unanswered(b, s, "no")
        BY DEF Unanswered
      <4> QED
        BY <3>1, <4>1 DEF Attaching
    <3>3. d.curr = s /\ Len(d.handlers) = 1 /\ d.handlers[1].s = s /\ s # 0
      <4>1. b.handlers[1].s = s
        BY <3>2 DEF Attached
      <4>2. s # 0
        BY <1>5, StreamsAreCounted DEF Streams
      <4> QED
        BY <1>7, <3>2, <4>1, <4>2 DEF Attached
    <3>4. Open(d) \subseteq {d.curr} /\ Single(d) /\ d.state = "streaming" /\ d.out = << >>
          /\ ~d.streams[d.curr].endOfBatch
      BY <1>5, <1>7, <1>9, <1>11, <3>1, <3>2, <3>3 DEF Single
    <3>5. Standing(d, Tail(stack), "no", loan)
      BY <3>1, <3>4 DEF Standing, InTx
    <3>6. HasTable(d, loan)
      BY <1>5, <1>7, <3>1, <3>4 DEF HasTable, InTx
    <3>7. Tail(stack) # << >> => Placed(d, Tail(stack), "no", loan)
      BY <1>4, <3>1, <3>6 DEF Placed, CallFrames, AtTable
    <3> QED
      BY <3>5, <3>7 DEF Shape
  <2> QED
    BY <2>1, <2>2
<1>16. Used(d, Tail(stack), "no", loan)
  BY <1>9, <1>10, <1>14, <1>15 DEF Used
<1>17. StateInv'
  BY <1>3, <1>6, <1>12, <1>13, <1>14, <1>16, InUseNext
<1>18. Put(b, d)
  BY <1>7 DEF Put, StaysPut
<1> QED
  BY <1>6, <1>17, <1>18 DEF Goes

\* The answer to RUN is still to come.
LEMMA RunAwaitsGoes ==
  ASSUME Here, At("attach"), ~b.err, b.v.major # 4, ~b.streams[Top.s].attached, loan' = loan,
         Continue(b, <<[at |-> "receive"], Top>>)
  PROVE  Goes
<1>1. ~Idle /\ Top.at = "attach" /\ Top.at \in CallFrames
  BY DEF At, CallFrames
<1>2. /\ ~Down(b) /\ Standing(b, stack, "no", loan) /\ AtAttach(b, stack, "no", loan)
  BY <1>1, UpIfNoError, AtTop DEF Placed
<1>3. /\ Conn(b) /\ General(b, "no", srv) /\ Used(b, stack, "no", loan) /\ \E S : stack \in Seq(S)
      /\ loan \in Use \ {"borrowed", "announced"} /\ Top = stack[1]
  BY <1>1, AtFrame DEF Here
<1>4. b' = b /\ srv' = srv /\ net' = net /\ stack' = <<[at |-> "receive"], Top>> \o Tail(stack)
  BY DEF Continue
<1>5. Top.s = b.made /\ b.made >= b.live /\ loan \in {"held", "tx", "single"}
  BY <1>2, <1>3 DEF AtAttach
<1>6. Tame(b, b)
  BY <1>3, TameSame
<1>7. \A t : FrameOK(b, Top, t)
  <2>1. Top.s \in b.live .. b.made
    BY <1>1, TopResult DEF OnResult
  <2> QED
    BY <1>1, <2>1, ResultFrame
<1>8. PICK m : /\ Below(stack') = m /\ Read(stack') = "receive" /\ FramesOK(b, m, "receive")
               /\ m # << >> /\ m[1] = Top /\ Len(m) = Len(stack)
               /\ \A i \in 2 .. Len(stack) : m[i] = stack[i]
  <2>1. LET u == <<Top>> \o Tail(stack)
            k == <<[at |-> "receive"], Top>> \o Tail(stack)
        IN  /\ Below(k) = u /\ Read(k) = "receive" /\ FramesOK(b, u, "receive")
            /\ u # << >> /\ u[1] = Top /\ Len(u) = Len(stack)
            /\ \A i \in 2 .. Len(stack) : u[i] = stack[i]
    BY <1>1, <1>3, <1>6, <1>7, ReceiveGoesOn
  <2> QED
    BY <1>4, <2>1
<1>9. b.out = << >>
  <2>1. ~On(stack, {"begin", "run"})
    BY <1>1, <1>3 DEF On
  <2> QED
    BY <1>2, <1>5, <2>1 DEF Standing
<1>10. On(m, {"attach"}) /\ m[1].at = "attach" /\ m[1].s = b.made
  BY <1>1, <1>5, <1>8 DEF On
<1>11. Standing(b, m, "receive", loan)
  BY <1>2, <1>5, <1>9, <1>10 DEF Standing, On, AtAttach
<1>12. AtAttach(b, m, "receive", loan) /\ b.handlers # << >>
  <2>1. CASE InTx(b)
    <3>1. AttachingTx(b, b.made) /\ Len(m) = 1 /\ loan \in {"tx", "single"}
      BY <1>2, <1>8, <2>1 DEF AtAttach
    <3>2. b.handlers # << >>
      BY <1>5, <3>1 DEF AttachingTx
    <3> QED
      BY <1>5, <1>10, <2>1, <3>1, <3>2 DEF AtAttach
  <2>2. CASE ~InTx(b)
    <3>1. /\ b.state = "ready" /\ loan = "held" /\ Attaching(b, b.made, "no")
          /\ Len(stack) = 1 \/ (Len(stack) = 2 /\ stack[2].at = "table")
      BY <1>2, <2>2 DEF AtAttach
    <3>2. Unanswered(b, b.made, "no") /\ Open(b) = {} /\ ~b.streams[b.made].endOfBatch
      BY <1>5, <3>1 DEF Attaching, Attached
    <3>3. Unanswered(b, b.made, "receive") /\ b.handlers # << >>
      BY <3>2 DEF Unanswered
    <3>4. Len(m) = 1 \/ (Len(m) = 2 /\ m[2].at = "table")
      BY <1>8, <3>1
    <3> QED
      BY <1>5, <1>10, <2>2, <3>1, <3>2, <3>3, <3>4 DEF AtAttach, Attaching
  <2> QED
    BY <2>1, <2>2
<1>13. Shape(b, m, "receive", loan)
  BY <1>8, <1>10, <1>11, <1>12 DEF Shape, Placed, CallFrames
<1>14. PICK w : w = "receive"
  OBVIOUS
<1>15. net = "up" => Waited(b', w)
  BY <1>2, <1>4, <1>5, <1>9, <1>12, SentNext DEF Down
<1> QED
  BY <1>2, <1>3, <1>4, <1>6, <1>8, <1>13, <1>14, <1>15, AliveNext

\* The answer to RUN is there, or the next response is read.
LEMMA RunReceiveGoes ==
  ASSUME Here, NEW once \in BOOLEAN, once <=> b.v.major = 4, RunReceive(once)
  PROVE  Goes
<1>1. At("attach") /\ loan' = loan
  BY DEF RunReceive
<1>2. CASE b.err
  <2>1. ~Idle /\ Top.at \in CallFrames
    BY <1>1 DEF At, CallFrames
  <2>2. Continue(b, << >>) /\ << >> \o Tail(stack) = Tail(stack)
    BY <1>2, <2>1, AtTop DEF RunReceive
  <2> QED
    BY <1>1, <1>2, <2>1, <2>2, SamePop DEF Continue
<1>3. CASE ~b.err /\ (once \/ b.streams[Top.s].attached)
  <2>1. Continue(Given(b, Top.s), << >>)
    BY <1>3 DEF RunReceive, Given
  <2> QED
    BY <1>1, <1>3, <2>1, RunGivenGoes
<1>4. CASE ~b.err /\ ~once /\ ~b.streams[Top.s].attached
  <2>1. Continue(b, <<[at |-> "receive"], Top>>)
    BY <1>4 DEF RunReceive
  <2> QED
    BY <1>1, <1>4, <2>1, RunAwaitsGoes
<1> QED
  BY <1>2, <1>3, <1>4

\* A connection that is like c, but for records of a result.
Alike(c, d) ==
  /\ Tame(c, d) /\ Conn(d) /\ d.handlers = c.handlers /\ d.out = c.out /\ d.wire = c.wire /\ d.made = c.made
  /\ d.live = c.live /\ d.v = c.v /\ d.state = c.state /\ d.err = c.err /\ d.curr = c.curr
  /\ \A r \in Streams : d.streams[r].endOfBatch => c.streams[r].endOfBatch

\* Every connection is like itself.
LEMMA AlikeSelf ==
  ASSUME NEW c, Conn(c)
  PROVE  Alike(c, c)
  BY TameSame DEF Alike

\* What holds at the end of Next.
LEMMA AtNextTop ==
  ASSUME Here, At("next")
  PROVE  /\ ~Idle /\ Top.at = "next" /\ Top.at \in CallFrames /\ Top = stack[1] /\ stack # << >>
         /\ Conn(b) /\ b.v.major # 3 /\ General(b, "no", srv) /\ (net = "up" => Waited(b, "no"))
         /\ FramesOK(b, stack, "no") /\ \E S : stack \in Seq(S)
         /\ loan \in Use \ {"borrowed", "announced"} /\ net \in {"up", "down"}
         /\ Top.s \in b.live .. b.made /\ Top.s \in 1 .. b.made /\ Top.s >= b.live /\ b.live <= b.made
         /\ Top.s \in Streams /\ Top.s # 0 /\ b.streams[Top.s].given /\ Top \in OnNext(b.made)
         /\ b.err => Down(b) /\ loan # "pipelined"
         /\ ~b.err => ~Down(b) /\ Standing(b, stack, "no", loan) /\ AtNext(b, stack, "no", loan)
<1>1. ~Idle /\ Top.at = "next" /\ Top.at \in CallFrames
  BY DEF At, CallFrames
<1>2. /\ Conn(b) /\ General(b, "no", srv) /\ Used(b, stack, "no", loan) /\ \E S : stack \in Seq(S)
      /\ loan \in Use \ {"borrowed", "announced"} /\ Top = stack[1] /\ b.v.major # 3
      /\ (net = "up" => Waited(b, "no")) /\ net \in {"up", "down"}
  BY <1>1, AtFrame DEF Here
<1>3. /\ Top.s \in b.live .. b.made /\ Top.s \in 1 .. b.made /\ Top.s >= b.live /\ b.live <= b.made
      /\ Top.s \in Streams /\ Top.s # 0
  BY <1>1, TopResult DEF OnResult
<1>4. stack # << >> /\ FramesOK(b, stack, "no")
  BY <1>1, <1>2 DEF Used, Idle
<1>5. b.streams[Top.s].given
  <2>1. Len(stack) \in Nat \ {0}
    BY <1>2, <1>4, Popped
  <2>2. FrameOK(b, stack[1], 1 = 1 /\ "no" = "no")
    BY <1>4, <2>1 DEF FramesOK
  <2> QED
    BY <1>1, <1>2, <2>2 DEF FrameOK
<1>6. Top \in OnNext(b.made)
  BY <1>1, TopStream DEF Here
<1>7. b.err => Down(b) /\ loan # "pipelined"
  BY <1>2 DEF General, Used
<1>8. ~b.err => ~Down(b) /\ Standing(b, stack, "no", loan) /\ AtNext(b, stack, "no", loan)
  <2>1. ~b.err => ~Down(b) /\ Standing(b, stack, "no", loan) /\ Placed(b, stack, "no", loan)
    BY <1>1, UpIfNoError
  <2> QED
    BY <1>1, <1>2, <2>1 DEF Placed
<1> QED
  BY <1>1, <1>2, <1>3, <1>4, <1>5, <1>6, <1>7, <1>8

\* Next returns.
LEMMA NextReturns ==
  ASSUME Here, At("next"), loan' = loan, srv' = srv, net' = net, stack' = Tail(stack), Alike(b, b')
  PROVE  Goes
<1>1. /\ ~Idle /\ Top.at = "next" /\ Top.at \in CallFrames /\ Top = stack[1] /\ stack # << >>
      /\ Conn(b) /\ General(b, "no", srv) /\ (net = "up" => Waited(b, "no"))
      /\ loan \in Use \ {"borrowed", "announced"} /\ Top.s \in b.live .. b.made
      /\ b.err => Down(b) /\ loan # "pipelined"
      /\ ~b.err => ~Down(b) /\ Standing(b, stack, "no", loan) /\ AtNext(b, stack, "no", loan)
  BY AtNextTop
<1>2. /\ Tame(b, b') /\ Conn(b') /\ b'.handlers = b.handlers /\ b'.out = b.out /\ b'.wire = b.wire /\ b'.made = b.made
      /\ b'.live = b.live /\ b'.v = b.v /\ b'.state = b.state /\ b'.err = b.err /\ b'.curr = b.curr
      /\ \A r \in Streams : b'.streams[r].endOfBatch => b.streams[r].endOfBatch
  BY DEF Alike
<1>3. Open(b') \subseteq Open(b) /\ (Waited(b, "no") => Waited(b', "no"))
  BY <1>1, <1>2, LikeTame
<1>4. CASE b.err
  <2>1. Down(b') /\ (b'.state = "failed" => srv.st = "failed" \/ Plains(b'.handlers))
    BY <1>1, <1>2, <1>4 DEF Down, General
  <2> QED
    BY <1>1, <1>2, <1>3, <1>4, <2>1, ErrorPop
<1>5. CASE ~b.err
  <2>1. ~Down(b) /\ Standing(b, stack, "no", loan) /\ AtNext(b, stack, "no", loan) /\ ~Down(b')
    BY <1>1, <1>2, <1>5 DEF Down
  <2>2. /\ Len(stack) = 1 => Tail(stack) = << >>
        /\ Len(stack) = 2 => /\ Tail(stack) = <<stack[2]>> /\ Tail(stack) # << >> /\ Tail(stack)[1] = stack[2]
                             /\ Len(Tail(stack)) = 1
    BY <1>1, AtTop
  <2>3. /\ ~On(stack, {"end", "ended"}) /\ ~On(stack, {"begin", "run"}) /\ ~On(stack, {"attach"})
        /\ ~On(stack, {"buffer", "discard"}) /\ ~On(stack, {"discard"})
    BY <1>1 DEF On
  <2>4. Len(stack) = 1 \/ (Len(stack) = 2 /\ stack[2].at = "table" /\ HasTable(b, loan))
    BY <2>1 DEF AtNext
  <2>5. loan = "pipelined" => Tail(stack) = << >>
    BY <2>2, <2>4 DEF HasTable
  <2>6. /\ b.state = "streaming" => Single(b') /\ Open(b') \subseteq {b'.curr} /\ b'.out = << >>
        /\ b.state = "streaming" /\ b'.curr # 0 /\ b'.streams[b'.curr].endOfBatch => b'.handlers = << >>
    <3>1. b.curr # 0 => b.curr \in Streams
      BY <1>1, StreamsAreCounted DEF Conn, Streams
    <3> QED
      BY <1>2, <1>3, <2>1, <2>3, <3>1 DEF Standing, Single
  <2>7. Standing(b', Tail(stack), "no", loan)
    BY <1>2, <1>3, <2>1, <2>3, <2>5, <2>6 DEF Standing, InTx
  <2>8. Tail(stack) # << >> => Placed(b', Tail(stack), "no", loan)
    <3> SUFFICES ASSUME Tail(stack) # << >> PROVE Placed(b', Tail(stack), "no", loan)
      OBVIOUS
    <3>1. Len(stack) = 2 /\ stack[2].at = "table" /\ HasTable(b, loan)
      BY <2>2, <2>4
    <3>2. HasTable(b', loan)
      <4>1. b.made \in Streams
        BY <1>1, <3>1, StreamsAreCounted DEF Conn, Streams, HasTable
      <4>2. b.made <= b.made
        BY <1>1 DEF Conn
      <4>3. b'.streams[b.made].given = b.streams[b.made].given
        BY <1>2, <4>1, <4>2 DEF Tame, TameStream
      <4> QED
        BY <1>2, <3>1, <4>3 DEF HasTable, InTx
    <3> QED
      BY <2>2, <3>1, <3>2 DEF Placed, CallFrames, AtTable
  <2>9. Shape(b', Tail(stack), "no", loan)
    BY <2>7, <2>8 DEF Shape
  <2> QED
    BY <1>1, <1>2, <1>3, <1>5, <2>1, <2>9, AlivePopTo
<1> QED
  BY <1>4, <1>5

\* Next reads on.
LEMMA NextOn ==
  ASSUME Here, At("next"), NEW d, Conn(d), Tame(b, d)
  PROVE  LET f == [Top EXCEPT !.received = TRUE]
             k == <<[at |-> "receive"], f>> \o Tail(stack)
         IN  \E m : /\ Below(k) = m /\ Read(k) = "receive" /\ FramesOK(d, m, "receive")
                    /\ m # << >> /\ m[1].at = "next" /\ Len(m) = Len(stack)
                    /\ Len(stack) = 2 => m[2] = stack[2]
<1> DEFINE f == [Top EXCEPT !.received = TRUE]
           k == <<[at |-> "receive"], f>> \o Tail(stack)
           m == <<f>> \o Tail(stack)
<1>1. /\ ~Idle /\ Top.at = "next" /\ Top.at \in CallFrames /\ Conn(b)
      /\ Top.s \in b.live .. b.made /\ Top.s \in Streams /\ b.streams[Top.s].given /\ Top \in OnNext(b.made)
  BY AtNextTop
<1>2. f.at = "next" /\ f.s = Top.s
  BY <1>1 DEF OnNext
<1> HIDE DEF f
<1>3. f.s \in d.live .. d.made /\ d.streams[f.s].given
  <2>1. Top.s <= b.made /\ b.made \in Int /\ d.made \in Int /\ d.live = b.live /\ b.made <= d.made
    BY <1>1 DEF Conn, Tame
  <2>2. d.streams[Top.s].given
    BY <1>1, <2>1 DEF Tame, TameStream
  <2>3. Top.s \in Int /\ b.live \in Int /\ Top.s >= b.live
    BY <1>1 DEF Conn
  <2> QED
    BY <1>2, <2>1, <2>2, <2>3
<1>4. \A t : FrameOK(d, f, t)
  BY <1>2, <1>3 DEF FrameOK
<1>5. LET u == <<f>> \o Tail(stack)
          j == <<[at |-> "receive"], f>> \o Tail(stack)
      IN  /\ Below(j) = u /\ Read(j) = "receive" /\ FramesOK(d, u, "receive")
          /\ u # << >> /\ u[1] = f /\ Len(u) = Len(stack)
          /\ \A i \in 2 .. Len(stack) : u[i] = stack[i]
  BY <1>1, <1>4, ReceiveGoesOn
<1>6. Len(stack) = 2 => m[2] = stack[2]
  BY <1>5
<1> HIDE DEF m
<1>7. /\ Below(k) = m /\ Read(k) = "receive" /\ FramesOK(d, m, "receive")
      /\ m # << >> /\ m[1].at = "next" /\ Len(m) = Len(stack)
  BY <1>2, <1>5 DEF m
<1> QED
  BY <1>6, <1>7 DEF f

\* Next waits for a record, or for the end.
LEMMA NextWaits ==
  ASSUME Here, At("next"), b' = b, loan' = loan, srv' = srv, net' = net, b.handlers # << >>,
         b.streams[Top.s].done = "no",
         stack' = <<[at |-> "receive"], [Top EXCEPT !.received = TRUE]>> \o Tail(stack)
  PROVE  Goes
<1>1. /\ ~Idle /\ Top.at = "next" /\ Top.at \in CallFrames /\ Top = stack[1] /\ stack # << >>
      /\ Conn(b) /\ General(b, "no", srv) /\ (net = "up" => Waited(b, "no"))
      /\ loan \in Use \ {"borrowed", "announced"} /\ Top.s \in b.live .. b.made /\ b.live <= b.made
      /\ b.streams[Top.s].given
      /\ b.err => Down(b) /\ loan # "pipelined"
      /\ ~b.err => ~Down(b) /\ Standing(b, stack, "no", loan) /\ AtNext(b, stack, "no", loan)
  BY AtNextTop
<1>2. Tame(b, b)
  BY <1>1, TameSame
<1>3. PICK m : /\ Below(stack') = m /\ Read(stack') = "receive" /\ FramesOK(b, m, "receive")
               /\ m # << >> /\ m[1].at = "next" /\ Len(m) = Len(stack)
               /\ Len(stack) = 2 => m[2] = stack[2]
  BY <1>1, <1>2, NextOn
<1>4. Open(b) # {}
  <2>1. Top.s \in Open(b)
    BY <1>1 DEF Open, Over
  <2> QED
    BY <2>1
<1>5. PICK w : w = "receive"
  OBVIOUS
<1>6. net = "up" => Waited(b', w)
  BY <1>1, <1>4 DEF Waited
<1>7. General(b, w, srv)
  BY <1>1 DEF General
<1>8. CASE b.err
  <2>1. loan' \in {"held", "tx", "single"}
    BY <1>1, <1>8 DEF Use
  <2>2. StateInv'
    BY <1>1, <1>3, <1>5, <1>6, <1>7, <1>8, <2>1, ErrorNext
  <2> QED
    BY <2>2, SamePut DEF Goes
<1>9. CASE ~b.err
  <2>1. ~Down(b) /\ Standing(b, stack, "no", loan) /\ AtNext(b, stack, "no", loan)
    BY <1>1, <1>9
  <2>2. /\ ~On(stack, {"end", "ended"}) /\ ~On(stack, {"begin", "run"}) /\ ~On(stack, {"attach"})
        /\ ~On(stack, {"buffer", "discard"}) /\ ~On(stack, {"discard"})
    BY <1>1 DEF On
  <2>3. Standing(b, m, "receive", loan)
    BY <1>4, <2>1, <2>2 DEF Standing
  <2>4. AtNext(b, m, "receive", loan)
    BY <1>3, <2>1 DEF AtNext
  <2>5. Shape(b, m, w, loan)
    BY <1>3, <1>5, <2>3, <2>4 DEF Shape, Placed, CallFrames
  <2> QED
    BY <1>1, <1>2, <1>3, <1>5, <1>6, <1>9, <2>1, <2>5, AliveNext
<1> QED
  BY <1>8, <1>9

\* Next asks for the next batch.
Pulled(s) == LET p == Send(AppendPullN(b, s)) IN WithBatch(p, s, p.err)

\* What is left of the connection.
LEMMA PulledTame ==
  ASSUME Here, At("next"), b.streams[Top.s].done = "no"
  PROVE  LET c == Pulled(Top.s)
         IN  /\ Tame(b, c) /\ Conn(c) /\ c.made = b.made /\ c.live = b.live /\ c.v = b.v
             /\ \A r \in Streams : c.streams[r].endOfBatch => b.streams[r].endOfBatch \/ c.err
             /\ ~c.err => ~c.streams[Top.s].endOfBatch
             /\ net = "down" => c.err /\ c.state = "dead"
             /\ net = "up" => c.err = b.err /\ c.state = b.state /\ c.curr = b.curr /\ c.out = << >>
             /\ net = "up" /\ b.out = << >> /\ b.state \notin {"streaming", "streamingTx"} => c.wire = b.wire
             /\ IF b.state \in {"streaming", "streamingTx"}
                THEN c.handlers = Append(b.handlers, [on |-> "pull", s |-> Top.s]) /\ c.handlers # << >>
                ELSE c.handlers = b.handlers
             /\ Open(c) \subseteq Open(b)
<1> DEFINE s == Top.s
           e == AppendPullN(b, s)
           p == Send(e)
           c == WithBatch(p, s, p.err)
<1>1. /\ Conn(b) /\ b.v.major # 3 /\ net \in {"up", "down"} /\ s \in 1 .. b.made /\ s >= b.live /\ s \in Streams
  BY AtNextTop
<1>2. /\ Tame(b, e) /\ Conn(e) /\ e.err = b.err /\ e.state = b.state /\ e.curr = b.curr
      /\ e.made = b.made /\ e.live = b.live /\ e.v = b.v /\ e.streams = b.streams /\ e.wire = b.wire
      /\ IF b.state \in {"streaming", "streamingTx"}
         THEN e.handlers = Append(b.handlers, [on |-> "pull", s |-> s]) /\ e.handlers # << >>
         ELSE e = b
  BY <1>1, PullTame
<1>20. e.out = << >> => e.wire \o e.out = e.wire
  <2>1. e.wire \in Seq(Requests)
    BY <1>2 DEF Conn
  <2> QED
    BY <2>1, ConcatEmptySeq
<1>21. b.out = << >> /\ b.state \notin {"streaming", "streamingTx"} => e.out = << >>
  BY <1>2
<1> HIDE DEF e
<1>3. /\ Tame(e, p) /\ Conn(p) /\ p.handlers = e.handlers /\ p.made = e.made /\ p.live = e.live /\ p.v = e.v
      /\ net # "down" => /\ p.state = e.state /\ p.err = e.err /\ p.curr = e.curr /\ p.streams = e.streams
                         /\ p.out = << >> /\ p.wire = e.wire \o e.out
      /\ net = "down" => p.err /\ p.state = "dead"
  BY <1>2, SendTame
<1>30. \A r \in Streams : p.streams[r].endOfBatch => b.streams[r].endOfBatch \/ p.err
  BY <1>2, <1>3
<1> HIDE DEF p
<1>4. /\ Tame(p, c) /\ Conn(c) /\ SameQueue(p, c) /\ c.state = p.state /\ c.err = p.err /\ c.curr = p.curr
      /\ \A r \in Streams : /\ c.streams[r].endOfBatch = (IF r = s THEN p.err ELSE p.streams[r].endOfBatch)
  BY <1>3, BatchTame
<1> HIDE DEF c
<1>5. Tame(b, c)
  BY <1>1, <1>2, <1>3, <1>4, TameTrans
<1>6. /\ c.made = b.made /\ c.live = b.live /\ c.v = b.v /\ c.handlers = e.handlers /\ c.out = p.out /\ c.wire = p.wire
  BY <1>2, <1>3, <1>4 DEF SameQueue
<1>7. Open(c) \subseteq Open(b)
  BY <1>1, <1>4, <1>5, <1>6, OpenShrinks
<1>8. \A r \in Streams : c.streams[r].endOfBatch => b.streams[r].endOfBatch \/ c.err
  BY <1>4, <1>30
<1>9. ~c.err => ~c.streams[s].endOfBatch
  BY <1>1, <1>4
<1>10. /\ net = "down" => c.err /\ c.state = "dead"
       /\ net = "up" => c.err = b.err /\ c.state = b.state /\ c.curr = b.curr /\ c.out = << >>
  BY <1>2, <1>3, <1>4, <1>6
<1>11. IF b.state \in {"streaming", "streamingTx"}
       THEN c.handlers = Append(b.handlers, [on |-> "pull", s |-> s]) /\ c.handlers # << >>
       ELSE c.handlers = b.handlers
  BY <1>2, <1>6
<1>12. net = "up" /\ b.out = << >> /\ b.state \notin {"streaming", "streamingTx"} => c.wire = b.wire
  BY <1>2, <1>3, <1>6, <1>20, <1>21
<1> QED
  BY <1>12, <1>4, <1>5, <1>6, <1>7, <1>8, <1>9, <1>10, <1>11 DEF c, p, e, Pulled

\* The batch was asked for, or that failed.
LEMMA NextPullGoes ==
  ASSUME Here, At("next"), loan' = loan, srv' = srv, net' = net,
         b.streams[Top.s].done = "no", b.streams[Top.s].endOfBatch, b' = Pulled(Top.s),
         stack' = IF b'.err \/ b'.handlers = << >> THEN Tail(stack)
                  ELSE <<[at |-> "receive"], [Top EXCEPT !.received = TRUE]>> \o Tail(stack)
  PROVE  Goes
<1> DEFINE s == Top.s
           c == Pulled(s)
<1>1. /\ ~Idle /\ Top.at = "next" /\ Top.at \in CallFrames /\ Top = stack[1] /\ stack # << >>
      /\ Conn(b) /\ General(b, "no", srv) /\ (net = "up" => Waited(b, "no")) /\ net \in {"up", "down"}
      /\ loan \in Use \ {"borrowed", "announced"} /\ Top.s \in b.live .. b.made /\ b.live <= b.made
      /\ b.streams[Top.s].given /\ s \in Streams /\ s # 0
      /\ b.err => Down(b) /\ loan # "pipelined"
      /\ ~b.err => ~Down(b) /\ Standing(b, stack, "no", loan) /\ AtNext(b, stack, "no", loan)
  BY AtNextTop
<1>2. /\ Tame(b, c) /\ Conn(c) /\ c.made = b.made /\ c.live = b.live /\ c.v = b.v
      /\ \A r \in Streams : c.streams[r].endOfBatch => b.streams[r].endOfBatch \/ c.err
      /\ ~c.err => ~c.streams[s].endOfBatch
      /\ net = "down" => c.err /\ c.state = "dead"
      /\ net = "up" => c.err = b.err /\ c.state = b.state /\ c.curr = b.curr /\ c.out = << >>
      /\ net = "up" /\ b.out = << >> /\ b.state \notin {"streaming", "streamingTx"} => c.wire = b.wire
      /\ IF b.state \in {"streaming", "streamingTx"}
         THEN c.handlers = Append(b.handlers, [on |-> "pull", s |-> s]) /\ c.handlers # << >>
         ELSE c.handlers = b.handlers
      /\ Open(c) \subseteq Open(b)
  BY PulledTame
<1>3. b' = c
  OBVIOUS
<1> HIDE DEF c
<1>4. s \in Open(b) /\ Open(b) # {}
  <2>1. s \in Open(b)
    BY <1>1 DEF Open, Over
  <2> QED
    BY <2>1
<1>5. CASE c.err
  <2>1. stack' = Tail(stack)
    BY <1>3, <1>5
  <2>2. loan # "pipelined"
    BY <1>1, <1>4 DEF Standing
  <2>3. /\ Down(c) /\ (b.state = "dead" => c.state = "dead")
        /\ net = "up" => /\ b.err /\ Down(b) /\ b.state \notin {"streaming", "streamingTx"} /\ c.handlers = b.handlers
                         /\ c.state = b.state
    BY <1>1, <1>2, <1>5 DEF Down
  <2>4. c.state = "failed" => srv.st = "failed" \/ Plains(c.handlers)
    BY <1>1, <1>2, <2>3 DEF General
  <2>5. net = "up" => Waited(c, "no")
    <3> SUFFICES ASSUME net = "up" PROVE Waited(c, "no")
      OBVIOUS
    <3>1. Sent(b)
      BY <1>1, <1>4 DEF Waited
    <3>2. Sent(c)
      BY <1>2, <2>3, <3>1 DEF Sent
    <3> QED
      BY <3>2 DEF Waited
  <2> QED
    BY <1>1, <1>2, <1>3, <1>5, <2>1, <2>2, <2>3, <2>4, <2>5, ErrorPop
<1>6. CASE ~c.err
  <2>1. /\ ~b.err /\ net = "up" /\ ~Down(b) /\ Standing(b, stack, "no", loan) /\ AtNext(b, stack, "no", loan)
        /\ c.err = b.err /\ c.state = b.state /\ c.curr = b.curr /\ c.out = << >> /\ ~Down(c)
    BY <1>1, <1>2, <1>6 DEF Down
  <2>2. b.out = << >> /\ loan # "pipelined"
    BY <1>4, <2>1 DEF Standing
  <2>3. CASE c.handlers = << >>
    <3>1. b.state \notin {"streaming", "streamingTx"} /\ c.handlers = b.handlers /\ c.wire = b.wire
      BY <1>2, <2>1, <2>2, <2>3
    <3>2. Alike(b, b')
      BY <1>2, <1>3, <1>6, <2>1, <2>2, <3>1 DEF Alike
    <3>3. stack' = Tail(stack)
      BY <1>3, <2>3
    <3> QED
      BY <3>2, <3>3, NextReturns
  <2>4. CASE c.handlers # << >>
    <3>1. stack' = <<[at |-> "receive"], [Top EXCEPT !.received = TRUE]>> \o Tail(stack)
      BY <1>3, <1>6, <2>4
    <3>2. PICK m : /\ Below(stack') = m /\ Read(stack') = "receive" /\ FramesOK(c, m, "receive")
                   /\ m # << >> /\ m[1].at = "next" /\ Len(m) = Len(stack)
                   /\ Len(stack) = 2 => m[2] = stack[2]
      BY <1>2, <3>1, NextOn
    <3>3. /\ ~On(stack, {"end", "ended"}) /\ ~On(stack, {"begin", "run"}) /\ ~On(stack, {"attach"})
          /\ ~On(stack, {"buffer", "discard"}) /\ ~On(stack, {"discard"})
      BY <1>1 DEF On
    <3>4. c.state = "streaming" =>
            /\ Open(c) \subseteq {c.curr} /\ Single(c) /\ ~c.streams[c.curr].endOfBatch
      <4> SUFFICES ASSUME c.state = "streaming"
                   PROVE  Open(c) \subseteq {c.curr} /\ Single(c) /\ ~c.streams[c.curr].endOfBatch
        OBVIOUS
      <4>1. b.state = "streaming" /\ Open(b) \subseteq {b.curr} /\ s = b.curr
        BY <1>4, <2>1 DEF Standing
      <4>2. b.handlers = << >>
        BY <1>1, <2>1, <3>3, <4>1 DEF Standing
      <4>3. Len(c.handlers) = 1 /\ c.handlers[1].s = s
        <5>1. PICK h : h = [on |-> "pull", s |-> s]
          OBVIOUS
        <5>2. Len(Append(b.handlers, h)) = 1 /\ Append(b.handlers, h)[1] = h
          BY <1>1, <4>2, OneHandler
        <5>3. c.handlers = Append(b.handlers, h)
          BY <1>2, <4>1, <5>1
        <5>4. h.s = s
          BY <5>1
        <5> QED
          BY <5>2, <5>3, <5>4
      <4> QED
        BY <1>1, <1>2, <1>6, <2>1, <4>1, <4>3 DEF Single
    <3>5. Standing(c, m, "receive", loan)
      BY <1>2, <2>1, <2>2, <3>3, <3>4 DEF Standing, InTx
    <3>6. AtNext(c, m, "receive", loan)
      <4>1. HasTable(b, loan) => HasTable(c, loan)
        <5> SUFFICES ASSUME HasTable(b, loan) PROVE HasTable(c, loan)
          OBVIOUS
        <5>1. b.made \in Streams /\ b.made <= b.made
          BY <1>1, StreamsAreCounted DEF Conn, Streams, HasTable
        <5>2. c.streams[b.made].given = b.streams[b.made].given
          BY <1>2, <5>1 DEF Tame, TameStream
        <5> QED
          BY <1>2, <2>1, <5>2 DEF HasTable, InTx
      <4> QED
        BY <2>1, <3>2, <4>1 DEF AtNext
    <3>7. PICK w : w = "receive"
      OBVIOUS
    <3>8. Shape(c, m, w, loan)
      BY <3>2, <3>5, <3>6, <3>7 DEF Shape, Placed, CallFrames
    <3>9. Waited(b', w)
      BY <1>1, <1>2, <1>3, <2>1, <2>4, SentNext DEF Use, Down
    <3> QED
      BY <1>1, <1>2, <1>3, <1>6, <2>1, <3>2, <3>7, <3>8, <3>9, AliveNext
  <2> QED
    BY <2>3, <2>4
<1> QED
  BY <1>5, <1>6

\* Next.
LEMMA NextStepGoes ==
  ASSUME Here, NextStep
  PROVE  Goes
<1> DEFINE s == Top.s
           fifo == b.streams[s].fifo
<1>1. At("next") /\ loan' = loan /\ srv' = srv /\ net' = net
  BY DEF NextStep, At
<1>2. Conn(b) /\ s >= b.live
  BY <1>1, AtNextTop
<1>3. CASE b' = [b EXCEPT !.streams[s].fifo = Tail(@)] /\ stack' = Tail(stack)
  <2> DEFINE d == WithFifo(b, s, Tail(b.streams[s].fifo))
  <2>1. /\ Tame(b, d) /\ Conn(d) /\ SameQueue(b, d) /\ d.state = b.state /\ d.err = b.err /\ d.curr = b.curr
        /\ \A r \in Streams : /\ d.streams[r].endOfBatch = b.streams[r].endOfBatch
    BY <1>2, FifoTame
  <2>2. b' = d
    BY <1>3 DEF WithFifo
  <2> HIDE DEF d
  <2>3. Alike(b, b')
    BY <2>1, <2>2 DEF Alike, SameQueue
  <2> QED
    BY <1>1, <1>3, <2>3, NextReturns
<1>4. CASE b' = b /\ stack' = Tail(stack)
  <2>1. Alike(b, b')
    BY <1>2, <1>4, AlikeSelf
  <2> QED
    BY <1>1, <1>4, <2>1, NextReturns
<1>5. CASE /\ b.streams[s].done = "no" /\ ~b.streams[s].endOfBatch /\ b' = b
           /\ stack' = IF b.handlers = << >> THEN Tail(stack)
                       ELSE <<[at |-> "receive"], [Top EXCEPT !.received = TRUE]>> \o Tail(stack)
  BY <1>1, <1>4, <1>5, NextWaits
<1>6. CASE /\ b.streams[s].done = "no" /\ b.streams[s].endOfBatch /\ b' = Pulled(s)
           /\ stack' = IF b'.err \/ b'.handlers = << >> THEN Tail(stack)
                       ELSE <<[at |-> "receive"], [Top EXCEPT !.received = TRUE]>> \o Tail(stack)
  BY <1>1, <1>6, NextPullGoes
<1> QED
  BY <1>3, <1>4, <1>5, <1>6 DEF NextStep, Pulled, WithBatch

\* A result of the transaction becomes the current one.
LEMMA ResumeTame ==
  ASSUME NEW c, Conn(c), NEW s \in 1 .. c.made, s >= c.live
  PROVE  LET d == Resume(c, s)
         IN  /\ Tame(c, d) /\ Conn(d) /\ d.handlers = c.handlers /\ d.out = c.out /\ d.wire = c.wire
             /\ d.made = c.made /\ d.live = c.live /\ d.v = c.v /\ d.state = c.state /\ d.err = c.err
             /\ d.curr = (IF c.curr # 0 THEN c.curr ELSE s)
<1> DEFINE e == [c EXCEPT !.curr = s]
<1>1. s \in 0 .. c.made
  BY DEF Conn
<1>2. Conn(e) /\ SameQueue(c, e) /\ e.err = c.err /\ e.state = c.state
  BY <1>1, CurrKeeps
<1>3. e.curr = s /\ e.streams = c.streams
  BY DEF Conn, ConnFields
<1> HIDE DEF e
<1>4. Tame(c, e)
  BY <1>2, <1>3, TameSame DEF SameQueue
<1>5. Tame(c, c)
  BY TameSame
<1> QED
  BY <1>2, <1>3, <1>4, <1>5 DEF Resume, NoStream, SameQueue, e

\* A connection that cannot send has no current result.
LEMMA SendDown ==
  ASSUME NEW c, Conn(c), net = "down"
  PROVE  Send(c).curr = 0 /\ Send(c).state = "dead" /\ Send(c).err
<1>1. PICK t \in BOOLEAN : t = TRUE
  OBVIOUS
<1>2. LET d == SetError(c, t)
      IN  d.curr = 0 /\ d.err /\ (t => d.state = "dead")
  BY SetErrorTame
<1>3. Send(c) = SetError(c, t)
  BY <1>1 DEF Send, OnIoError
<1> QED
  BY <1>1, <1>2, <1>3

\* Nothing is below.
LEMMA NothingBelow ==
  ASSUME NEW c, NEW f
  PROVE  ReceiveAll(c, <<f>> \o << >>) \o << >> = ReceiveAll(c, <<f>>)
<1> DEFINE g == [at |-> "receiveAll"]
<1>1. <<f>> \o << >> = <<f>>
  BY ShortConcat
<1>2. <<g>> \o <<f>> = <<g, f>>
  BY ShortConcat
<1>3. <<g, f>> \o << >> = <<g, f>>
  <2>1. <<g, f>> \in Seq({g, f})
    OBVIOUS
  <2> QED
    BY <2>1, ConcatEmptySeq
<1> QED
  BY <1>1, <1>2, <1>3 DEF ReceiveAll

\* The result is buffered or discarded.
LEMMA ExhaustGoesOn ==
  ASSUME Here, At("exhaust"), ~Down(b), ~b.err, loan \in {"held", "tx", "single"}, loan' = loan, srv' = srv,
         net' = net, Tame(b, b'), b'.state = b.state, ~b'.err, b'.out = << >>,
         InTx(b) => loan # "held",
         NEW f, f.at \in {"buffer", "discard"}, f.s \in b'.live .. b'.made, f.at = "discard" => ~f.discarded,
         stack' = ReceiveAll(b', <<f>>),
         ~InTx(b) => /\ b.state = "streaming" /\ loan = "held" /\ b'.curr = f.s /\ f.s # 0
                     /\ Open(b') \subseteq {f.s} /\ Single(b')
  PROVE  Goes
<1> DEFINE m == <<f>>
           w == IF b'.handlers = << >> THEN "no" ELSE "receiveAll"
<1>1. ~Idle /\ Top.at \in CallFrames /\ loan \in Use \ {"borrowed", "announced"}
  BY DEF At, CallFrames, Use
<1>2. Conn(b) /\ General(b, "no", srv)
  BY <1>1, AtFrame DEF Here
<1>3. Below(stack') = m /\ Read(stack') = w
  BY FrameReads
<1>4. m # << >> /\ m[1] = f /\ Len(m) = 1
  OBVIOUS
<1>5. w # "no" => b'.handlers # << >>
  OBVIOUS
<1>6. w = "no" => b'.handlers = << >>
  OBVIOUS
<1>7. w # "receive"
  OBVIOUS
<1>8. FrameOK(b', f, w = "no")
  BY ResultFrame
<1>9. FramesOK(b', m, w)
  BY <1>8, FramesShort
<1> HIDE DEF m, w
<1>10. b'.v = b.v /\ ~Down(b') /\ (InTx(b') <=> InTx(b))
  BY DEF Tame, Down, InTx
<1>11. net = "up" => Waited(b', w)
  BY <1>5, <1>10, SentNext DEF Down
<1>12. Shape(b', m, w, loan)
  <2>1. CASE InTx(b)
    <3>1. Standing(b', m, w, loan)
      BY <1>10, <2>1 DEF Standing, InTx
    <3>2. AtBuffer(b', m, w, loan) /\ AtDiscard(b', m, w, loan)
      BY <1>4, <1>7, <1>10, <2>1 DEF AtBuffer, AtDiscard
    <3> QED
      BY <1>4, <3>1, <3>2 DEF Shape, Placed, CallFrames
  <2>2. CASE ~InTx(b)
    <3>1. Standing(b', m, w, loan)
      BY <1>4, <1>10, <2>2 DEF Standing, InTx, On
    <3>2. Drains(b', f.s, w)
      BY <1>6, <2>2 DEF Drains
    <3>3. AtBuffer(b', m, w, loan) /\ (f.at = "discard" => AtDiscard(b', m, w, loan))
      BY <1>4, <1>7, <1>10, <2>2, <3>2 DEF AtBuffer, AtDiscard
    <3> QED
      BY <1>4, <3>1, <3>3 DEF Shape, Placed, CallFrames
  <2> QED
    BY <2>1, <2>2
<1> QED
  BY <1>1, <1>2, <1>3, <1>9, <1>10, <1>11, <1>12, AliveNext

\* What holds where Consume and Buffer go on.
LEMMA AtExhaustTop ==
  ASSUME Here, At("exhaust"), ~(Top.switch /\ b.err)
  PROVE  /\ ~Idle /\ Top.at = "exhaust" /\ Top.at \in CallFrames /\ Conn(b) /\ b.v.major # 3 /\ General(b, "no", srv)
         /\ net \in {"up", "down"} /\ Tail(stack) = << >> /\ ~b.err /\ ~Down(b)
         /\ Standing(b, stack, "no", loan) /\ loan \in {"held", "tx", "single"} /\ b.out = << >>
         /\ InTx(b) => loan # "held"
         /\ ~InTx(b) => b.state = "streaming" /\ loan = "held" /\ Open(b) \subseteq {b.curr} /\ Single(b)
         /\ Top.s \in b.live .. b.made /\ Top.s \in 1 .. b.made /\ Top.s >= b.live /\ Top.s \in Streams /\ Top.s # 0
         /\ Top.switch => InTx(b)
         /\ ~Top.switch => Top.s = b.curr /\ b.state \in {"streaming", "streamingTx"}
<1>1. ~Idle /\ Top.at = "exhaust" /\ Top.at \in CallFrames
  BY DEF At, CallFrames
<1>2. /\ Conn(b) /\ General(b, "no", srv) /\ Used(b, stack, "no", loan) /\ \E S : stack \in Seq(S)
      /\ loan \in Use \ {"borrowed", "announced"} /\ Top = stack[1] /\ b.v.major # 3 /\ net \in {"up", "down"}
      /\ Len(stack) = 1 => Tail(stack) = << >>
  BY <1>1, AtFrame DEF Here
<1>3. /\ Top.s \in b.live .. b.made /\ Top.s \in 1 .. b.made /\ Top.s >= b.live /\ Top.s \in Streams /\ Top.s # 0
  BY <1>1, TopResult DEF OnResult
<1>4. ~b.err
  <2>1. stack # << >> /\ FramesOK(b, stack, "no")
    BY <1>1, <1>2 DEF Used, Idle
  <2>2. Len(stack) \in Nat \ {0}
    BY <1>2, <2>1, Popped
  <2>3. FrameOK(b, stack[1], 1 = 1 /\ "no" = "no")
    BY <2>1, <2>2 DEF FramesOK
  <2>4. ~Top.switch => ~Down(b)
    BY <1>1, <1>2, <2>3 DEF FrameOK
  <2> QED
    BY <1>2, <2>4 DEF General
<1>5. ~Down(b) /\ Standing(b, stack, "no", loan) /\ AtExhaust(b, stack, "no", loan)
  BY <1>1, <1>2, <1>4, UpIfNoError DEF Placed
<1>6. /\ ~On(stack, {"end", "ended"}) /\ ~On(stack, {"begin", "run"}) /\ ~On(stack, {"next"}) /\ ~On(stack, {"discard"})
      /\ stack # << >>
  BY <1>1, <1>2 DEF On, Idle
<1>7. loan \in {"held", "tx", "single"}
  BY <1>2, <1>5, <1>6 DEF Standing, Use
<1>8. b.out = << >> /\ (InTx(b) => loan # "held")
  BY <1>5, <1>6, <1>7 DEF Standing
<1>9. /\ Top.switch => InTx(b)
      /\ ~Top.switch => Top.s = b.curr /\ b.state \in {"streaming", "streamingTx"}
  BY <1>2, <1>5 DEF AtExhaust
<1>10. ~InTx(b) => b.state = "streaming" /\ loan = "held" /\ Open(b) \subseteq {b.curr} /\ Single(b)
  BY <1>5, <1>7, <1>9 DEF Standing, InTx
<1> QED
  BY <1>1, <1>2, <1>3, <1>4, <1>5, <1>7, <1>8, <1>9, <1>10 DEF AtExhaust

\* The frames that buffer or discard the current result.
LEMMA MoveFrames ==
  ASSUME NEW c
  PROVE  /\ c.curr = 0 => BufferFrames(c, << >>) \o << >> = << >> /\ DiscardFrames(c, << >>) \o << >> = << >>
         /\ c.state \notin {"streaming", "streamingTx"} => DiscardFrames(c, << >>) \o << >> = << >> /\ Discarding(c) = c
         /\ c.curr # 0 => BufferFrames(c, << >>) \o << >> = ReceiveAll(c, <<[at |-> "buffer", s |-> c.curr]>>)
         /\ c.curr # 0 /\ c.state \in {"streaming", "streamingTx"} =>
              DiscardFrames(c, << >>) \o << >> = ReceiveAll(c, <<[at |-> "discard", s |-> c.curr, discarded |-> FALSE]>>)
<1> DEFINE f == [at |-> "buffer", s |-> c.curr]
           g == [at |-> "discard", s |-> c.curr, discarded |-> FALSE]
<1>1. << >> \o << >> = << >>
  BY ShortConcat
<1>2. ReceiveAll(c, <<f>> \o << >>) \o << >> = ReceiveAll(c, <<f>>)
  BY NothingBelow
<1>3. ReceiveAll(c, <<g>> \o << >>) \o << >> = ReceiveAll(c, <<g>>)
  BY NothingBelow
<1> QED
  BY <1>1, <1>2, <1>3 DEF BufferFrames, DiscardFrames, Discarding, NoStream

\* The same for the connection that is discarding.
LEMMA ReceiveAllLike ==
  ASSUME NEW c, NEW d, NEW q, d.handlers = c.handlers
  PROVE  ReceiveAll(c, q) = ReceiveAll(d, q)
  BY DEF ReceiveAll

\* Consume and Buffer go on, with c for the connection that they work on.
LEMMA ExhaustMoves ==
  ASSUME Here, At("exhaust"), ~Down(b), ~b.err, loan \in {"held", "tx", "single"}, loan' = loan, srv' = srv,
         net' = net, InTx(b) => loan # "held",
         NEW c, Conn(c), Tame(b, c), c.state = b.state, ~c.err, c.out = << >>, c.made = b.made,
         c.curr # 0, c.curr \in c.live .. c.made,
         ~InTx(b) => b.state = "streaming" /\ loan = "held" /\ Open(c) \subseteq {c.curr} /\ Single(c),
         \/ b' = c /\ stack' = BufferFrames(c, << >>) \o << >>
         \/ /\ c.state \in {"streaming", "streamingTx"}
            /\ b' = Discarding(c) /\ stack' = DiscardFrames(c, << >>) \o << >>
  PROVE  Goes
<1>1. CASE b' = c /\ stack' = BufferFrames(c, << >>) \o << >>
  <2>1. PICK f : f = [at |-> "buffer", s |-> c.curr]
    OBVIOUS
  <2>2. f.at = "buffer" /\ f.s = c.curr
    BY <2>1
  <2>3. stack' = ReceiveAll(b', <<f>>)
    BY <1>1, <2>1, MoveFrames
  <2> QED
    BY <1>1, <2>2, <2>3, ExhaustGoesOn
<1>2. CASE /\ c.state \in {"streaming", "streamingTx"}
           /\ b' = Discarding(c) /\ stack' = DiscardFrames(c, << >>) \o << >>
  <2>1. PICK f : f = [at |-> "discard", s |-> c.curr, discarded |-> FALSE]
    OBVIOUS
  <2>2. f.at = "discard" /\ f.s = c.curr /\ ~f.discarded
    BY <2>1
  <2>3. stack' = ReceiveAll(c, <<f>>)
    BY <1>2, <2>1, MoveFrames
  <2>4. LET d == Discarding(c)
        IN  /\ Tame(c, d) /\ Conn(d) /\ d.handlers = c.handlers /\ d.out = c.out /\ d.wire = c.wire
            /\ d.made = c.made /\ d.live = c.live /\ d.v = c.v /\ d.state = c.state /\ d.err = c.err /\ d.curr = c.curr
    BY DiscardingLike
  <2>5. stack' = ReceiveAll(b', <<f>>)
    BY <1>2, <2>3, <2>4, ReceiveAllLike
  <2>6. Tame(b, b')
    <3>1. Conn(b)
      BY DEF Here, BoltInv
    <3> QED
      BY <1>2, <2>4, <3>1, TameTrans
  <2>7. Open(b') \subseteq Open(c)
    BY <1>2, <2>4, OpenShrinks
  <2>8. ~InTx(b) => Open(b') \subseteq {f.s} /\ Single(b')
    BY <1>2, <2>2, <2>4, <2>7 DEF Single
  <2> QED
    BY <1>2, <2>2, <2>4, <2>5, <2>6, <2>8, ExhaustGoesOn
<1> QED
  BY <1>1, <1>2

\* Of the current result.
LEMMA ExhaustCurrentGoes ==
  ASSUME Here, ExhaustStep, ~Top.switch
  PROVE  Goes
<1>1. At("exhaust") /\ loan' = loan
  BY DEF ExhaustStep
<1>2. /\ Conn(b) /\ Tail(stack) = << >> /\ ~b.err /\ ~Down(b)
      /\ loan \in {"held", "tx", "single"} /\ b.out = << >>
      /\ InTx(b) => loan # "held"
      /\ ~InTx(b) => b.state = "streaming" /\ loan = "held" /\ Open(b) \subseteq {b.curr} /\ Single(b)
      /\ Top.s \in b.live .. b.made /\ Top.s # 0
      /\ Top.s = b.curr /\ b.state \in {"streaming", "streamingTx"}
  BY <1>1, AtExhaustTop
<1>3. /\ \/ Continue(Discarding(b), DiscardFrames(b, << >>))
         \/ Continue(b, BufferFrames(b, << >>))
  BY <1>1 DEF ExhaustStep
<1>4. /\ srv' = srv /\ net' = net
      /\ \/ b' = b /\ stack' = BufferFrames(b, << >>) \o << >>
         \/ b' = Discarding(b) /\ stack' = DiscardFrames(b, << >>) \o << >>
  BY <1>2, <1>3 DEF Continue
<1>5. Tame(b, b)
  BY <1>2, TameSame
<1> QED
  BY <1>1, <1>2, <1>4, <1>5, ExhaustMoves

\* Of another one.
LEMMA ExhaustSwitchGoes ==
  ASSUME Here, ExhaustStep, Top.switch, ~b.err
  PROVE  Goes
<1> DEFINE s == Top.s
           r == Resume(b, s)
           e == AppendPullN(r, s)
           c == Send(e)
<1>1. At("exhaust") /\ loan' = loan
  BY DEF ExhaustStep
<1>2. /\ ~Idle /\ Top.at \in CallFrames /\ Conn(b) /\ b.v.major # 3 /\ net \in {"up", "down"} /\ Tail(stack) = << >>
      /\ ~Down(b) /\ General(b, "no", srv)
      /\ loan \in {"held", "tx", "single"} /\ b.out = << >> /\ loan # "held" /\ InTx(b)
      /\ Standing(b, stack, "no", loan)
      /\ s \in b.live .. b.made /\ s \in 1 .. b.made /\ s >= b.live /\ s # 0
  BY <1>1, AtExhaustTop
<1>3. /\ srv' = srv /\ net' = net
      /\ \/ b' = c /\ stack' = BufferFrames(c, << >>) \o << >>
         \/ b' = Discarding(c) /\ stack' = DiscardFrames(c, << >>) \o << >>
  BY <1>2 DEF ExhaustStep, Continue
<1>4. /\ Tame(b, r) /\ Conn(r) /\ r.made = b.made /\ r.live = b.live /\ r.v = b.v /\ r.state = b.state /\ r.err = b.err
      /\ r.curr = (IF b.curr # 0 THEN b.curr ELSE s)
  BY <1>2, ResumeTame
<1> HIDE DEF r
<1>5. s \in 1 .. r.made /\ s >= r.live /\ r.v.major # 3
  BY <1>2, <1>4
<1>6. /\ Tame(r, e) /\ Conn(e) /\ e.err = r.err /\ e.state = r.state /\ e.curr = r.curr
      /\ e.made = r.made /\ e.live = r.live /\ e.v = r.v
  BY <1>4, <1>5, PullTame
<1> HIDE DEF e
<1>7. Tame(b, e)
  BY <1>2, <1>4, <1>6, TameTrans
<1>8. /\ Tame(e, c) /\ Conn(c) /\ c.made = e.made /\ c.live = e.live
      /\ net # "down" => c.state = e.state /\ c.err = e.err /\ c.curr = e.curr /\ c.out = << >>
  BY <1>6, SendTame
<1>9. net = "down" => c.curr = 0 /\ c.state = "dead" /\ c.err
  BY <1>6, SendDown
<1>10. c = Send(e)
  OBVIOUS
<1> HIDE DEF c
<1>11. Tame(b, c)
  BY <1>2, <1>6, <1>7, <1>8, TameTrans
<1>12. CASE net = "down"
  <2>1. b' = c /\ stack' = << >>
    BY <1>3, <1>9, <1>12, MoveFrames
  <2>2. loan # "pipelined"
    BY <1>2
  <2> QED
    BY <1>1, <1>2, <1>3, <1>6, <1>7, <1>10, <1>12, <2>1, <2>2, SendFails
<1>13. CASE net = "up"
  <2>1. /\ c.state = b.state /\ ~c.err /\ c.out = << >> /\ c.made = b.made /\ c.live = b.live
        /\ c.curr = (IF b.curr # 0 THEN b.curr ELSE s) /\ InTx(c)
    BY <1>2, <1>4, <1>6, <1>8, <1>13 DEF InTx
  <2>2. c.curr # 0 /\ c.curr \in c.live .. c.made
    BY <1>2, <2>1, CurrLive
  <2>3. CASE c.state = "tx" /\ b' = Discarding(c) /\ stack' = DiscardFrames(c, << >>) \o << >>
    <3>1. b' = c /\ stack' = << >> /\ b' = Send(e)
      BY <1>10, <2>3, MoveFrames
    <3>2. Below(stack') = << >> /\ Read(stack') = "no" /\ FramesOK(b', << >>, "no")
      BY <3>1, FramesShort, NothingRead
    <3>3. Standing(c, << >>, "no", loan)
      BY <1>2, <2>1 DEF Standing, InTx
    <3>4. Shape(b', << >>, "no", loan)
      BY <3>1, <3>3 DEF Shape
    <3>5. PICK w : w = "no"
      OBVIOUS
    <3>6. e.state = b.state /\ e.err = b.err /\ loan # "pipelined"
      BY <1>2, <1>4, <1>6
    <3> QED
      BY <1>1, <1>2, <1>3, <1>6, <1>7, <3>1, <3>2, <3>4, <3>5, <3>6, SendGoes
  <2>4. CASE \/ b' = c /\ stack' = BufferFrames(c, << >>) \o << >>
             \/ /\ c.state \in {"streaming", "streamingTx"}
                /\ b' = Discarding(c) /\ stack' = DiscardFrames(c, << >>) \o << >>
    BY <1>1, <1>2, <1>3, <1>8, <1>11, <2>1, <2>2, <2>4, ExhaustMoves
  <2> QED
    BY <1>3, <2>1, <2>3, <2>4 DEF InTx
<1> QED
  BY <1>2, <1>12, <1>13

\* Consume and Buffer.
LEMMA ExhaustStepGoes ==
  ASSUME Here, ExhaustStep
  PROVE  Goes
<1>1. At("exhaust") /\ loan' = loan
  BY DEF ExhaustStep
<1>2. CASE Top.switch /\ b.err
  <2>1. ~Idle /\ Top.at \in CallFrames
    BY <1>1 DEF At, CallFrames
  <2>2. Continue(b, << >>) /\ << >> \o Tail(stack) = Tail(stack)
    BY <1>2, <2>1, AtTop DEF ExhaustStep
  <2> QED
    BY <1>1, <1>2, <2>1, <2>2, SamePop DEF Continue
<1>3. CASE Top.switch /\ ~b.err
  BY <1>3, ExhaustSwitchGoes
<1>4. CASE ~Top.switch
  BY <1>4, ExhaustCurrentGoes
<1> QED
  BY <1>2, <1>3, <1>4

\* The routing table is read.
LEMMA CallGetRoutingTableNextGoes ==
  ASSUME Here, CallGetRoutingTableNext
  PROVE  Goes
<1>1. ~Idle /\ Top.at = "table" /\ Top.at \in CallFrames /\ loan' = loan
  BY DEF CallGetRoutingTableNext, At, CallFrames
<1>2. CASE b.err
  <2>1. Continue(b, << >>) /\ << >> \o Tail(stack) = Tail(stack)
    BY <1>1, <1>2, AtTop DEF CallGetRoutingTableNext
  <2> QED
    BY <1>1, <1>2, <2>1, SamePop DEF Continue
<1>3. CASE ~b.err
  <2>1. /\ Conn(b) /\ General(b, "no", srv) /\ Used(b, stack, "no", loan)
        /\ loan \in Use \ {"borrowed", "announced"} /\ Top = stack[1] /\ (net = "up" => Waited(b, "no"))
        /\ Len(stack) = 1 => Tail(stack) = << >>
    BY <1>1, AtFrame DEF Here
  <2>2. ~Down(b) /\ Standing(b, stack, "no", loan) /\ AtTable(b, stack, "no", loan)
    BY <1>1, <1>3, <2>1, UpIfNoError DEF Placed
  <2>3. loan = "held" /\ ~InTx(b) /\ b.made >= b.live /\ b.streams[b.made].given /\ Tail(stack) = << >>
    BY <2>1, <2>2 DEF AtTable, HasTable
  <2>4. b' = b /\ srv' = srv /\ net' = net
    BY DEF CallGetRoutingTableNext, Continue
  <2>5. /\ ~On(stack, {"end", "ended"}) /\ ~On(stack, {"begin", "run"}) /\ ~On(stack, {"attach"})
        /\ ~On(stack, {"buffer", "discard"}) /\ ~On(stack, {"discard"})
    BY <1>1, <2>1 DEF On
  <2>6. \A m : Standing(b, m, "no", loan) \/ On(m, {"attach", "buffer", "discard"})
    BY <2>2, <2>3, <2>5 DEF Standing, On, InTx
  <2>7. CASE Top.left = 0
    <3>1. stack' = Tail(stack)
      BY <1>1, <2>7, AtTop DEF CallGetRoutingTableNext, Continue
    <3>2. Shape(b, Tail(stack), "no", loan)
      BY <2>3, <2>6 DEF Shape, On
    <3> QED
      BY <1>1, <1>3, <2>2, <2>4, <3>1, <3>2, AlivePop
  <2>8. CASE Top.left # 0
    <3> DEFINE f == [at |-> "next", s |-> b.made, received |-> FALSE]
               g == [Top EXCEPT !.left = @ - 1]
               m == <<f, g>>
    <3>1. stack' = m
      <4>1. stack' = <<f, g>> \o << >>
        BY <1>3, <2>3, <2>8 DEF CallGetRoutingTableNext, Continue
      <4>2. <<f, g>> \in Seq({f, g})
        OBVIOUS
      <4> HIDE DEF f, g
      <4> QED
        BY <4>1, <4>2, ConcatEmptySeq
    <3>2. f.at = "next" /\ f.s = b.made
      OBVIOUS
    <3>3. g.at = "table"
      <4>1. Top \in Fit(b)
        BY <1>1, InUse DEF Here, UseFrames
      <4>2. Top \in OnTable
        BY <1>1, <4>1, FrameKinds DEF Fit
      <4> QED
        BY <1>1, <4>2 DEF OnTable
    <3> HIDE DEF f, g
    <3>4. m # << >> /\ m[1] = f /\ m[2] = g /\ Len(m) = 2
      OBVIOUS
    <3>5. FrameOK(b, f, "no" = "no") /\ FrameOK(b, g, FALSE)
      <4>1. b.made \in b.live .. b.made
        BY <2>1, <2>3 DEF Conn
      <4> QED
        BY <2>3, <3>2, <3>3, <4>1 DEF FrameOK, OnResult
    <3>6. FramesOK(b, m, "no")
      BY <3>5, FramesShort
    <3> HIDE DEF m
    <3>7. Below(m) = m /\ Read(m) = "no"
      BY <3>2, <3>4, NothingRead
    <3>8. Standing(b, m, "no", loan)
      BY <2>6, <3>2, <3>4 DEF On
    <3>9. AtNext(b, m, "no", loan)
      BY <2>3, <3>3, <3>4 DEF AtNext, HasTable
    <3>10. Shape(b, m, "no", loan)
      BY <3>2, <3>4, <3>8, <3>9 DEF Shape, Placed, CallFrames
    <3>11. Tame(b, b)
      BY <2>1, TameSame
    <3>12. PICK w : w = "no"
      OBVIOUS
    <3> QED
      BY <1>1, <1>3, <2>1, <2>2, <2>4, <3>1, <3>6, <3>7, <3>10, <3>11, <3>12, AliveNext
  <2> QED
    BY <2>7, <2>8
<1> QED
  BY <1>2, <1>3
=============================================================================
