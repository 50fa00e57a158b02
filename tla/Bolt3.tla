------------------------------- MODULE Bolt3 --------------------------------
(***************************************************************************)
(* Version 3 of the protocol: no queue of handlers, every request is       *)
(* answered before the next one is sent, but for the PULL_ALL that goes    *)
(* with each RUN. There is one stream at a time, b.curr.                   *)
(***************************************************************************)
EXTENDS BoltConnection

Is3 == b.v.major = 3

Send3(c, m, s) ==
    IF net = "down" THEN [c EXCEPT !.err = TRUE, !.state = "dead"]
    ELSE [c EXCEPT !.wire = Append(@, Request(m, s, All, -1))]

(* Send one request and expect its success, unless the send failed *)
Await3(c, then) == IF c.err THEN << >> ELSE <<[at |-> "success3", then |-> then]>>

Streaming3 == b.state \in {"streaming", "streamingTx"}
Read3(mode, frames) ==
    IF Streaming3 THEN <<[at |-> "record3", s |-> b.curr, mode |-> mode]>> \o frames ELSE frames

(* What the code does with the success it waited for *)
Then3(c, then) ==
    CASE then = "hello" -> [c EXCEPT !.state = "ready"]
      [] then = "begin" -> [c EXCEPT !.state = "tx", !.txId = TRUE]
      [] then \in {"commit", "rollback"} -> [c EXCEPT !.state = "ready"]
      [] then = "run" ->
           [c EXCEPT !.made = @ + 1, !.curr = c.made + 1,
                     !.streams[c.made + 1] = [NewStream EXCEPT !.attached = TRUE],
                     !.state = IF @ = "ready" THEN "streaming" ELSE "streamingTx"]

LoanAfter3(then, ok) ==
    CASE then = "hello" -> IF ok THEN "borrowed" ELSE "gone"
      [] then = "begin" -> IF ok THEN "tx" ELSE loan
      [] OTHER -> loan

ReceiveSuccess3 ==
    /\ Is3 /\ ~Idle /\ Top.at = "success3" /\ stack' = Tail(stack)
    /\ \/ /\ net = "up" /\ b.wire # << >>
          /\ \E a \in Answers :
               LET c == [b EXCEPT !.wire = a.wire]
                   ok == a.answer.k = "success"
               IN  /\ srv' = a.srv
                   /\ b' = IF ok THEN Then3(c, Top.then)
                           ELSE [c EXCEPT !.err = TRUE,
                                          !.state = IF a.answer.k = "failure" THEN "failed" ELSE "dead"]
                   /\ loan' = LoanAfter3(Top.then, ok)
       \/ /\ net = "down" /\ b' = [b EXCEPT !.err = TRUE, !.state = "dead"]
          /\ loan' = LoanAfter3(Top.then, FALSE) /\ UNCHANGED srv
    /\ UNCHANGED <<net, seen>>

Ended3(c, how, state, err) ==
    [c EXCEPT !.streams[c.curr].done = how, !.curr = NoStream, !.state = state, !.err = err]

(* receiveNext, and the loops of discardStream and bufferStream around it *)
ReceiveNext3 ==
    /\ Is3 /\ ~Idle /\ Top.at = "record3"
    /\ \/ /\ net = "up" /\ b.wire # << >>
          /\ \E a \in Answers :
               LET c == [b EXCEPT !.wire = a.wire]
                   k == a.answer.k
               IN  /\ srv' = a.srv
                   /\ b' = CASE k = "record" /\ Top.mode = "buffer" ->
                                  [c EXCEPT !.streams[Top.s].fifo = Append(@, a.answer.record)]
                             [] k = "record" /\ Top.mode # "buffer" -> c
                             [] k = "success" ->
                                  Ended3(c, "sum", IF b.state = "streamingTx" THEN "tx" ELSE "ready", b.err)
                             [] k = "failure" -> Ended3(c, "err", "failed", TRUE)
                             [] k = "ignored" -> Ended3(c, "err", "dead", TRUE)
                   /\ seen' = IF k = "record" /\ Top.mode = "next"
                              THEN [seen EXCEPT ![Top.s] = Append(@, a.answer.record)] ELSE seen
                   /\ stack' = IF k = "record" /\ Top.mode # "next" THEN stack ELSE Tail(stack)
       \/ /\ net = "down" /\ b' = [b EXCEPT !.err = TRUE, !.state = "dead"]
          /\ stack' = Tail(stack) /\ UNCHANGED <<srv, seen>>
    /\ UNCHANGED <<net, loan>>

Connect3 ==
    LET c == Send3(b, "hello", NoStream)
    IN  /\ Is3 /\ loan = "new" /\ AssertState(b, {"unauthorized"})
        /\ Start(c, Await3(c, "hello"))
        /\ loan' = IF c.err THEN "gone" ELSE "connecting"

TxBegin3(option) ==
    /\ Is3 /\ Usable
    /\ Start(b, LET f == <<[at |-> "begin3", supported |-> option = "plain"]>>
                IN  IF b.state = "streaming" THEN Read3("buffer", f) ELSE f)
    /\ loan' = "held"

TxBegin3Send == At("begin3") /\
    LET ok == AssertState(b, {"ready"}) /\ Top.supported
        c == IF ok THEN Send3(b, "begin", NoStream) ELSE b
    IN  Is3 /\ UNCHANGED loan /\ Continue(c, IF ok THEN Await3(c, "begin") ELSE << >>)

TxEnd3(how) ==
    /\ Is3 /\ loan = "tx" /\ b.txId
    /\ Start(b, LET f == <<[at |-> "end3", how |-> how]>>
                IN  IF b.state = "streamingTx" THEN Read3("discard", f) ELSE f)
    /\ loan' = "held"

TxEnd3Send == At("end3") /\
    LET ok == AssertState(b, {"tx"})
        c == IF ok THEN Send3(b, Top.how, NoStream) ELSE b
    IN  Is3 /\ UNCHANGED loan /\ Continue(c, IF ok THEN Await3(c, Top.how) ELSE << >>)

Run3(option, pack) ==
    /\ Is3 /\ Usable /\ b.made < MaxStreams
    /\ Start(b, IF AssertState(b, {"streaming", "ready"}) /\ option = "plain"
                THEN Read3("buffer", <<[at |-> "run3", pack |-> pack]>>) ELSE << >>)
    /\ loan' = "held"

RunTx3(pack) ==
    /\ Is3 /\ loan = "tx" /\ b.txId /\ b.made < MaxStreams
    /\ Start(b, Read3("buffer", <<[at |-> "run3", pack |-> pack]>>))
    /\ UNCHANGED loan

Run3Send == At("run3") /\
    LET ok == AssertState(b, {"tx", "ready"})
        s == b.made + 1
        c == Send3(Send3(b, "run", s), "pull", s)
    IN  /\ Is3 /\ UNCHANGED loan
        /\ \/ ~ok /\ Continue(b, << >>)
           \/ ok /\ Top.pack = "ok" /\ Continue(c, Await3(c, "run"))
           \/ /\ ok /\ Top.pack # "ok"
              /\ Continue([b EXCEPT !.err = TRUE, !.state = "dead"], << >>)

(* Next: from the buffer, else from the network if the stream is the current one *)
Next3(s) ==
    LET fifo == b.streams[s].fifo
    IN  /\ Is3 /\ Idle /\ s \in b.live .. b.made
        /\ \/ /\ fifo # << >>
              /\ b' = [b EXCEPT !.streams[s].fifo = Tail(@)]
              /\ seen' = [seen EXCEPT ![s] = Append(@, Head(fifo))]
              /\ UNCHANGED stack
           \/ /\ fifo = << >> /\ b.streams[s].done = "no" /\ s = b.curr
              /\ AssertState(b, {"streaming", "streamingTx"})
              /\ stack' = Read3("next", << >>) /\ UNCHANGED <<b, seen>>
        /\ UNCHANGED <<srv, net, loan>>

Exhaust3(s, how) ==
    /\ Is3 /\ s \in 1 .. b.made /\ s = b.curr /\ b.streams[s].done = "no"
    /\ AssertState(b, {"streaming", "streamingTx"})
    /\ Start(b, Read3(how, << >>)) /\ UNCHANGED loan

(* Reset: the stream is read to its end before RESET is sent *)
Reset3 ==
    /\ Is3 /\ loan \in {"borrowed", "held", "tx"}
    /\ Start(b, IF b.state \in {"ready", "dead"} THEN <<[at |-> "cleared3"]>>
                ELSE (IF b.err THEN << >> ELSE Read3("discard", << >>))
                     \o <<[at |-> "forceReset3"], [at |-> "cleared3"]>>)
    /\ loan' = "returning"

ForceReset3 ==
    LET c == Send3([b EXCEPT !.err = FALSE], "reset", NoStream)
        need == b.state # "dead" /\ ~(Top.at = "forceReset3" /\ b.state = "ready")
    IN  /\ ~Idle /\ Top.at \in {"forceReset3", "forceCheck3"} /\ Is3
        /\ UNCHANGED loan
        /\ Continue(IF need THEN c ELSE b,
                    IF need /\ ~c.err THEN <<[at |-> "reset3"]>> ELSE << >>)

(* IGNORED until SUCCESS; anything else kills the connection *)
ReceiveReset3 ==
    /\ Is3 /\ ~Idle /\ Top.at = "reset3"
    /\ \/ /\ net = "up" /\ b.wire # << >>
          /\ \E a \in Answers :
               LET k == a.answer.k
               IN  /\ srv' = a.srv
                   /\ b' = [b EXCEPT !.wire = a.wire,
                                     !.state = CASE k = "ignored" -> @ [] k = "success" -> "ready"
                                                 [] OTHER -> "dead"]
                   /\ stack' = IF k = "ignored" THEN stack ELSE Tail(stack)
       \/ /\ net = "down" /\ b' = [b EXCEPT !.err = TRUE, !.state = "dead"]
          /\ stack' = Tail(stack) /\ UNCHANGED srv
    /\ UNCHANGED <<net, loan, seen>>

Reset3Done ==
    At("cleared3") /\ Is3 /\ Returned([b EXCEPT !.txId = FALSE, !.err = FALSE, !.curr = NoStream])

Borrow3(check) ==
    /\ Is3 /\ loan = "pooled"
    /\ Start(b, (IF check THEN <<[at |-> "forceCheck3"]>> ELSE << >>) \o <<[at |-> "reauth"]>>)
    /\ loan' = "lending"

ReAuth3(changed) == Is3 /\ FallbackReAuth(changed)

(* The routing table is a query: its record and its summary are read *)
GetRoutingTable3 ==
    /\ Is3 /\ loan = "borrowed" /\ AssertState(b, {"ready"}) /\ b.made < MaxStreams
    /\ Start(b, <<[at |-> "run3", pack |-> "ok"], [at |-> "table3", left |-> 2]>>)
    /\ loan' = "held"

GetRoutingTable3Next == At("table3") /\
    LET read == AssertState(b, {"streaming"}) /\ Top.left > 0
    IN  /\ Is3 /\ UNCHANGED loan
        /\ Continue(b, IF read THEN Read3("next", <<[Top EXCEPT !.left = @ - 1]>>) ELSE << >>)

Close3 == Is3 /\ Close

Steps3 ==
    \/ Connect3 \/ TxBegin3Send \/ TxEnd3Send \/ Run3Send \/ Reset3 \/ ForceReset3
    \/ ReceiveSuccess3 \/ ReceiveNext3 \/ ReceiveReset3 \/ Reset3Done
    \/ GetRoutingTable3 \/ GetRoutingTable3Next \/ Close3 \/ (Is3 /\ LendingDone)
    \/ \E option \in Options : TxBegin3(option)
    \/ \E option \in Options, pack \in Packs : Run3(option, pack)
    \/ \E pack \in Packs : RunTx3(pack)
    \/ \E how \in {"commit", "rollback"} : TxEnd3(how)
    \/ \E s \in Streams : Next3(s)
    \/ \E s \in Streams, how \in {"discard", "buffer"} : Exhaust3(s, how)
    \/ \E x \in BOOLEAN : Borrow3(x) \/ ReAuth3(x)
=============================================================================
