-------------------------- MODULE BoltStateProofs ---------------------------
(***************************************************************************)
(* Proofs about Bolt: a call waits only for what was sent, and results of  *)
(* earlier loans get nothing from later ones. By StateInv, which the calls *)
(* of a session keep (BoltCallProofs): here are connect, return, reset and *)
(* lending, then the responses, which any call may read.                   *)
(* Version 3 reads every response in the call that asked for it, so its    *)
(* invariant StateInv3 only says what is open and what is on the wire.     *)
(***************************************************************************)
EXTENDS BoltCallProofs

-----------------------------------------------------------------------------
(* Outside the hands of a session.                                         *)

\* Such a connection conforms.
LEMMA OutsideNext ==
  ASSUME loan' \in {"connecting", "returning", "lending", "pooled"}, NEW m, NEW w, Below(stack') = m, Read(stack') = w,
         ~On(m, {"success3", "record3", "reset3"}),
         General(b', w, srv'), net' = "up" => Waited(b', w),
         loan' = "connecting" => AtConnect(b', w), loan' = "returning" => AtReturn(b', m, w),
         loan' = "lending" => AtLend(b', m, w), loan' = "pooled" => InPool(b')
  PROVE  StateInv'
  BY DEF StateInv, Conforms, Use

\* Short stacks on which nothing is read.
LEMMA QuietReads ==
  ASSUME NEW x, x \notin {"receive", "receiveAll"}
  PROVE  /\ Below(<<F(x)>>) = <<F(x)>> /\ Read(<<F(x)>>) = "no"
         /\ \A y : Below(<<F(x), F(y)>>) = <<F(x), F(y)>> /\ Read(<<F(x), F(y)>>) = "no"
<1>1. PICK f : f = F(x)
  OBVIOUS
<1>2. f.at = x
  BY <1>1 DEF F
<1>3. Below(<<f>>) = <<f>> /\ Read(<<f>>) = "no"
  BY <1>2, NothingRead
<1>4. \A g : Below(<<f, g>>) = <<f, g>> /\ Read(<<f, g>>) = "no"
  BY <1>2, NothingRead
<1> QED
  BY <1>1, <1>3, <1>4

\* Short stacks on which something is read.
LEMMA ShortReads ==
  ASSUME NEW z \in {"receive", "receiveAll"}
  PROVE  /\ Below(<<F(z)>>) = << >> /\ Read(<<F(z)>>) = z
         /\ \A x : Below(<<F(z), F(x)>>) = <<F(x)>> /\ Read(<<F(z), F(x)>>) = z
         /\ \A x, y : Below(<<F(z), F(x), F(y)>>) = <<F(x), F(y)>> /\ Read(<<F(z), F(x), F(y)>>) = z
<1>1. PICK h : h = F(z)
  OBVIOUS
<1>2. h.at = z
  BY <1>1 DEF F
<1>3. /\ Below(<<h>>) = << >> /\ Read(<<h>>) = z
      /\ \A f : Below(<<h, f>>) = <<f>> /\ Read(<<h, f>>) = z
      /\ \A f, g : Below(<<h, f, g>>) = <<f, g>> /\ Read(<<h, f, g>>) = z
  <2>1. Waits(<<h>>) /\ (\A f : Waits(<<h, f>>)) /\ (\A f, g : Waits(<<h, f, g>>))
    BY <1>2 DEF Waits
  <2> QED
    BY <1>2, <2>1, ShortStack DEF Below, Read
<1> QED
  BY <1>1, <1>3

\* A frame is the top one or none.
LEMMA OnShort ==
  ASSUME NEW x, NEW ats
  PROVE  /\ On(<<F(x)>>, ats) <=> x \in ats
         /\ \A y : On(<<F(x), F(y)>>, ats) <=> x \in ats
         /\ ~On(<< >>, ats)
  BY DEF On, F

\* connect.
LEMMA ConnectGoes ==
  ASSUME Here, NEW once \in BOOLEAN, once => b.v.major = 4, Connect(once)
  PROVE  Goes
<1> DEFINE h == EnqueuePlain(b, "hello")
           e == IF HasLogon(b.v) THEN EnqueuePlain(h, "logon") ELSE h
           d == Send(e)
           z == IF once THEN "receive" ELSE "receiveAll"
<1>1. /\ loan = "new" /\ b' = d /\ srv' = srv /\ net' = net /\ Idle
      /\ stack' = (IF d.err THEN << >> ELSE <<F(z), F("connected")>>)
      /\ loan' = IF d.err THEN "gone" ELSE "connecting"
  BY DEF Connect, Start, F
<1>2. /\ Conn(b) /\ b.v.major # 3 /\ net \in {"up", "down"} /\ b.live > b.made
  BY <1>1 DEF Here, BoltInv, Phase, NoResults
<1>3. IsNew(b) /\ General(b, "no", srv)
  <2>1. Read(stack) = "no" /\ Below(stack) = << >>
    BY <1>1, NothingRead DEF Idle
  <2> QED
    BY <1>1, <2>1 DEF Here, StateInv, Conforms
<1>4. b.state = "unauthorized" /\ ~b.err /\ b.curr = 0 /\ b.handlers = << >> /\ b.out = << >> /\ b.wire = << >>
  BY <1>3 DEF IsNew
<1>5. /\ Tame(b, h) /\ Conn(h) /\ h.err = b.err /\ h.state = b.state /\ h.curr = b.curr /\ h.made = b.made
      /\ h.live = b.live /\ h.v = b.v /\ h.handlers = Append(b.handlers, [on |-> "hello", s |-> 0]) /\ h.handlers # << >>
  BY <1>2, EnqueuePlainTame DEF Messages, OfResult
<1>6. Plains(h.handlers) /\ Len(h.handlers) = 1
  <2>1. Plains(b.handlers)
    BY <1>4 DEF Plains
  <2>2. Plains(h.handlers)
    BY <1>2, <1>5, <2>1, PlainsAppend
  <2>3. PICK q : q = [on |-> "hello", s |-> 0]
    OBVIOUS
  <2>4. Len(Append(b.handlers, q)) = 1
    BY <1>2, <1>4, OneHandler
  <2> QED
    BY <1>5, <2>2, <2>3, <2>4
<1> HIDE DEF h
<1>7. /\ Tame(b, e) /\ Conn(e) /\ e.err = b.err /\ e.state = b.state /\ e.curr = b.curr /\ e.made = b.made
      /\ e.live = b.live /\ e.v = b.v /\ e.handlers # << >> /\ Plains(e.handlers)
      /\ once => Len(e.handlers) = 1
  <2>1. CASE ~HasLogon(b.v)
    BY <1>5, <1>6, <2>1
  <2>2. CASE HasLogon(b.v)
    <3> DEFINE k == EnqueuePlain(h, "logon")
    <3>1. /\ Tame(h, k) /\ Conn(k) /\ k.err = h.err /\ k.state = h.state /\ k.curr = h.curr /\ k.made = h.made
          /\ k.live = h.live /\ k.v = h.v /\ k.handlers = Append(h.handlers, [on |-> "logon", s |-> 0])
          /\ k.handlers # << >>
      BY <1>2, <1>5, EnqueuePlainTame DEF Messages, OfResult
    <3>2. e = k
      BY <2>2
    <3> HIDE DEF k, e
    <3>3. Tame(b, k)
      BY <1>2, <1>5, <3>1, TameTrans
    <3>4. Plains(k.handlers)
      BY <1>5, <1>6, <3>1, PlainsAppend
    <3>5. ~once
      BY <1>2, <2>2, VersionsAreNumbers DEF HasLogon, AtLeast, Conn
    <3> QED
      BY <1>5, <3>1, <3>2, <3>3, <3>4, <3>5
  <2> QED
    BY <2>1, <2>2
<1> HIDE DEF e
<1>8. /\ Tame(e, d) /\ Conn(d) /\ d.handlers = e.handlers /\ d.made = e.made /\ d.live = e.live /\ d.v = e.v
      /\ net # "down" => d.state = e.state /\ d.err = e.err /\ d.curr = e.curr /\ d.out = << >>
      /\ net = "down" => d.err
  BY <1>7, SendTame
<1> HIDE DEF d
<1>9. Tame(b, d)
  BY <1>2, <1>7, <1>8, TameTrans
<1>10. CASE d.err
  BY <1>1, <1>9, <1>10, TamePut DEF Goes, StateInv
<1>11. CASE ~d.err
  <2>1. /\ d.state = "unauthorized" /\ d.curr = 0 /\ d.out = << >> /\ d.handlers # << >> /\ Plains(d.handlers)
        /\ once => Len(d.handlers) = 1
    BY <1>2, <1>4, <1>7, <1>8, <1>11
  <2>2. /\ z \in {"receive", "receiveAll"} /\ z # "no" /\ (z = "receive" => once)
    OBVIOUS
  <2> HIDE DEF z
  <2>3. Below(stack') = <<F("connected")>> /\ Read(stack') = z
    <3>1. stack' = <<F(z), F("connected")>>
      BY <1>1, <1>11
    <3> QED
      BY <2>2, <3>1, ShortReads
  <2>4. General(d, z, srv)
    <3>1. srv.st # "failed"
      BY <1>3, <1>4 DEF General, Down
    <3>2. d.made = b.made
      BY <1>7, <1>8
    <3> QED
      BY <1>2, <1>3, <1>4, <1>8, <1>9, <1>11, <2>1, <3>1, <3>2, GeneralTame
  <2>5. AtConnect(d, z)
    BY <1>11, <2>1, <2>2 DEF AtConnect
  <2>6. net = "up" => Waited(b', z)
    BY <1>1, <1>7, <1>8, <1>11, <2>1, SentNext
  <2>7. StateInv'
    <3>1. PICK m : m = <<F("connected")>>
      OBVIOUS
    <3>2. ~On(m, {"success3", "record3", "reset3"})
      BY <3>1 DEF On, F
    <3> QED
      BY <1>1, <1>11, <2>3, <2>4, <2>5, <2>6, <3>1, <3>2, OutsideNext
  <2> QED
    BY <1>1, <1>9, <2>7, TamePut DEF Goes
<1> QED
  BY <1>10, <1>11

\* The end of connect.
LEMMA ConnectedGoes ==
  ASSUME Here, Connected
  PROVE  Goes
<1>1. ~Idle /\ Top.at = "connected"
  BY DEF Connected, At
<1>2. loan = "connecting" /\ stack = <<F("connected")>>
  BY <1>1, SpecialAt DEF Here
<1>3. Conn(b) /\ b.live > b.made
  BY <1>2 DEF Here, BoltInv, Phase, NoResults
<1>4. Below(stack) = <<F("connected")>> /\ Read(stack) = "no"
  BY <1>2, QuietReads
<1>5. AtConnect(b, "no") /\ General(b, "no", srv)
  BY <1>2, <1>4 DEF Here, StateInv, Conforms
<1>6. Tail(stack) = << >> /\ << >> \o Tail(stack) = << >>
  BY <1>2, ShortStack, ShortConcat
<1>7. CASE b.err
  BY <1>7, SamePut DEF Connected, Continue, Goes, StateInv
<1>8. CASE ~b.err
  <2> DEFINE e == [b EXCEPT !.state = "ready"]
             d == ResetStreams(e)
  <2>1. b' = d /\ srv' = srv /\ net' = net /\ stack' = << >> /\ loan' = "borrowed"
    BY <1>6, <1>8 DEF Connected, Continue
  <2>2. b.state = "unauthorized" /\ b.handlers = << >> /\ b.out = << >>
    BY <1>5, <1>8 DEF AtConnect
  <2>3. /\ e.v = b.v /\ e.live = b.live /\ e.made = b.made /\ e.streams = b.streams /\ e.curr = b.curr
        /\ e.handlers = b.handlers /\ e.out = b.out /\ e.err = b.err /\ e.state = "ready"
    BY <1>3 DEF Conn, ConnFields
  <2>4. Conn(e)
    <3>1. PICK t \in BOOLEAN : t
      OBVIOUS
    <3>2. Keeps(b, e)
      BY <1>3, <1>8, <3>1, StateKeeps DEF States
    <3> QED
      BY <3>2 DEF Keeps
  <2> HIDE DEF e
  <2>5. Tame(b, e)
    BY <1>3, <2>3, TameSame
  <2>6. /\ Tame(e, d) /\ Conn(d) /\ d.err = e.err /\ d.state = e.state /\ d.curr = 0 /\ d.made = e.made
        /\ d.handlers = e.handlers /\ d.out = e.out /\ \A s \in Streams : ~d.streams[s].safe
    BY <2>4, ResetStreamsTame
  <2> HIDE DEF d
  <2>7. Tame(b, d)
    BY <1>3, <2>4, <2>5, <2>6, TameTrans
  <2>8. /\ ~d.err /\ d.state = "ready" /\ ~Down(d) /\ d.handlers = << >> /\ d.out = << >> /\ d.live > d.made
        /\ d.live = b.live /\ d.v = b.v /\ ~InTx(d)
    BY <1>3, <1>8, <2>2, <2>3, <2>6, <2>7 DEF Down, Tame, InTx
  <2>9. General(d, "no", srv)
    <3>1. srv.st # "failed"
      BY <1>5, <2>2 DEF General, Down
    <3> QED
      BY <2>6, <2>8, <3>1 DEF General, Down, Kinds, OldOnes, Keyed
  <2>10. Open(d) = {}
    BY <2>6, <2>8, NoneOpen
  <2>11. Standing(d, << >>, "no", "borrowed")
    BY <2>8, <2>10 DEF Standing, Plains
  <2>12. JustLent(d, << >>, "no")
    BY <2>6, <2>8 DEF JustLent
  <2>13. FramesOK(d, << >>, "no")
    BY FramesShort
  <2>14. Used(d, << >>, "no", "borrowed")
    BY <2>8, <2>11, <2>12, <2>13 DEF Used, Shape
  <2>15. Below(stack') = << >> /\ Read(stack') = "no"
    BY <2>1, NothingRead
  <2>16. StateInv'
    BY <2>1, <2>9, <2>10, <2>14, <2>15, InUseNext DEF Waited, Use
  <2> QED
    BY <2>1, <2>7, <2>16, TamePut DEF Goes
<1> QED
  BY <1>7, <1>8

\* TELEMETRY is queued.
LEMMA TelemetryGoes ==
  ASSUME Here, Telemetry
  PROVE  Goes
<1> DEFINE d == EnqueuePlain(b, "telemetry")
<1>1. /\ loan = "borrowed" /\ Idle /\ HasTelemetry(b.v) /\ b' = d /\ stack' = << >> /\ srv' = srv /\ net' = net
      /\ loan' = "announced"
  BY DEF Telemetry, Start
<1>2. /\ Conn(b) /\ General(b, "no", srv) /\ (net = "up" => Waited(b, "no")) /\ Used(b, << >>, "no", loan) /\ b.v.major # 3
  BY <1>1, AtIdle DEF Use, Here
<1>3. /\ Open(b) = {} /\ b.live > b.made /\ b.curr = 0 /\ b.state \in {"ready", "failed"}
      /\ b.state = "ready" => Plains(b.handlers)
  BY <1>1, <1>2, LentReady
<1>4. /\ Tame(b, d) /\ Conn(d) /\ d.err = b.err /\ d.state = b.state /\ d.curr = b.curr /\ d.made = b.made
      /\ d.live = b.live /\ d.v = b.v /\ d.handlers = Append(b.handlers, [on |-> "telemetry", s |-> 0])
  BY <1>2, EnqueuePlainTame DEF Messages, OfResult
<1> HIDE DEF d
<1>5. Plains(b.handlers) => Plains(d.handlers)
  BY <1>2, <1>4, PlainsAppend
<1>6. General(d, "no", srv)
  <2>1. d.state = "failed" => srv.st = "failed" \/ Plains(d.handlers)
    BY <1>2, <1>4, <1>5 DEF General
  <2>2. (d.err => Down(d)) /\ (srv.st = "failed" => Down(d))
    BY <1>2, <1>4 DEF General, Down
  <2> QED
    BY <1>2, <1>3, <1>4, <2>1, <2>2, GeneralTame
<1>7. Open(d) = {}
  BY <1>3, <1>4, NoneOpen
<1>8. d.v.major # 4
  <2>1. b.v \in Protocols
    BY <1>2 DEF Conn
  <2> QED
    BY <1>1, <1>4, <2>1, TelemetrySupports DEF Options
<1>9. JustLent(d, << >>, "no") /\ LentFailed(d, << >>, "no", "announced")
  BY <1>3, <1>4, <1>8 DEF JustLent, LentFailed
<1>10. ~Down(d) => Standing(d, << >>, "no", "announced")
  BY <1>3, <1>4, <1>5, <1>7, <1>8 DEF Standing, InTx, Down
<1>11. FramesOK(d, << >>, "no")
  BY FramesShort
<1>12. Used(d, << >>, "no", "announced")
  BY <1>1, <1>4, <1>9, <1>10, <1>11 DEF Used, Shape
<1>13. Below(stack') = << >> /\ Read(stack') = "no"
  BY <1>1, NothingRead
<1>14. StateInv'
  BY <1>1, <1>6, <1>7, <1>12, <1>13, InUseNext DEF Waited, Use
<1> QED
  BY <1>1, <1>4, <1>14, TamePut DEF Goes

\* getRoutingTable.
LEMMA GetRoutingTableGoes ==
  ASSUME Here, GetRoutingTable
  PROVE  Goes
<1> DEFINE e == EnqueuePlain(b, "route")
           d == Send(e)
<1>1. /\ loan = "borrowed" /\ Idle /\ AssertState(b, {"ready"}) /\ b' = d /\ srv' = srv /\ net' = net
      /\ stack' = (IF d.err THEN << >> ELSE ReceiveAll(d, << >>)) /\ loan' = "held"
  BY DEF GetRoutingTable, Start
<1>2. /\ Conn(b) /\ General(b, "no", srv) /\ Used(b, << >>, "no", loan) /\ b.v.major # 3 /\ net \in {"up", "down"}
  BY <1>1, AtIdle DEF Use, Here
<1>3. /\ Open(b) = {} /\ b.live > b.made /\ b.curr = 0 /\ b.state = "ready" /\ ~b.err /\ Plains(b.handlers) /\ ~Down(b)
  BY <1>1, <1>2, LentReady DEF AssertState, Down
<1>4. /\ Tame(b, e) /\ Conn(e) /\ e.err = b.err /\ e.state = b.state /\ e.made = b.made /\ e.live = b.live
      /\ e.handlers = Append(b.handlers, [on |-> "route", s |-> 0]) /\ e.handlers # << >>
  BY <1>2, EnqueuePlainTame DEF Messages, OfResult
<1> HIDE DEF e
<1>5. Plains(e.handlers)
  BY <1>2, <1>3, <1>4, PlainsAppend
<1>6. /\ Tame(e, d) /\ Conn(d) /\ d.handlers = e.handlers /\ d.made = e.made /\ d.live = e.live
      /\ net # "down" => d.state = e.state /\ d.err = e.err /\ d.out = << >>
      /\ net = "down" => d.err /\ d.state = "dead"
  BY <1>4, SendTame
<1> HIDE DEF d
<1>7. Tame(b, d)
  BY <1>2, <1>4, <1>6, TameTrans
<1>8. FramesOK(d, << >>, "no") /\ FramesOK(d, << >>, "receiveAll")
  BY FramesShort
<1>9. CASE net = "down"
  <2>1. Below(stack') = << >> /\ Read(stack') = "no"
    BY <1>1, <1>6, <1>9, NothingRead
  <2>2. General(d, "no", srv)
    BY <1>2, <1>3, <1>4, <1>6, <1>7, <1>9, GeneralTame DEF Down
  <2>3. StateInv'
    BY <1>1, <1>6, <1>8, <1>9, <2>1, <2>2, ErrorNext DEF Down
  <2> QED
    BY <1>1, <1>7, <2>3, TamePut DEF Goes
<1>10. CASE net = "up"
  <2>1. d.state = "ready" /\ ~d.err /\ d.out = << >> /\ ~Down(d) /\ ~InTx(d) /\ Plains(d.handlers) /\ d.handlers # << >>
    BY <1>3, <1>4, <1>5, <1>6, <1>10 DEF Down, InTx
  <2>2. stack' = <<F("receiveAll")>>
    <3>1. <<F("receiveAll")>> \o << >> = <<F("receiveAll")>>
      BY ShortConcat
    <3> QED
      BY <1>1, <2>1, <3>1 DEF ReceiveAll, F
  <2>3. PICK w : w = "receiveAll"
    OBVIOUS
  <2>4. Below(stack') = << >> /\ Read(stack') = w
    BY <2>2, <2>3, ShortReads
  <2>5. Standing(d, << >>, w, "held")
    BY <2>1, <2>3 DEF Standing
  <2>6. Shape(b', << >>, w, loan')
    BY <1>1, <2>1, <2>3, <2>5 DEF Shape
  <2>7. Waited(b', w)
    BY <1>1, <1>7, <1>10, <2>1, SentNext DEF Tame
  <2> QED
    BY <1>1, <1>2, <1>3, <1>7, <1>8, <2>1, <2>3, <2>4, <2>6, <2>7, AliveNext DEF Use
<1> QED
  BY <1>2, <1>9, <1>10

\* close.
LEMMA CloseGoes ==
  ASSUME Here, Close
  PROVE  Goes
<1>1. loan' = "gone" /\ b'.live = b.live /\ b'.streams = b.streams /\ b'.v = b.v
  BY DEF Close, Start, Here, BoltInv, Conn, ConnFields
<1> QED
  BY <1>1 DEF Goes, StateInv, Put, StaysPut

\* The socket breaks.
LEMMA NetFailsGoes ==
  ASSUME Here, NetFails
  PROVE  Goes
<1>1. b' = b /\ srv' = srv /\ stack' = stack /\ loan' = loan /\ net' = "down"
  BY DEF NetFails
<1>2. StateInv'
  BY <1>1 DEF Here, StateInv, Conforms
<1> QED
  BY <1>1, <1>2, SamePut DEF Goes

\* The error is cleared before ForceReset.
LEMMA ClearErrorTame ==
  ASSUME NEW c, Conn(c), c.state # "dead"
  PROVE  LET d == ClearError(c)
         IN  /\ Tame(c, d) /\ d.handlers = c.handlers /\ d.out = c.out /\ d.wire = c.wire /\ d.made = c.made
             /\ d.live = c.live /\ d.v = c.v /\ d.state = c.state /\ ~d.err /\ d.curr = c.curr
             /\ Open(d) = Open(c)
             /\ \A w, sv : General(c, "no", sv) => General(d, w, sv)
<1> DEFINE d == ClearError(c)
<1>1. /\ d.handlers = c.handlers /\ d.out = c.out /\ d.wire = c.wire /\ d.made = c.made
      /\ d.live = c.live /\ d.v = c.v /\ d.state = c.state /\ ~d.err /\ d.curr = c.curr /\ d.streams = c.streams
  BY DEF ClearError, Conn, ConnFields
<1> HIDE DEF d
<1>2. Tame(c, d)
  BY <1>1, TameSame
<1>3. Open(d) = Open(c)
  BY <1>1 DEF Open, Over
<1>4. \A w, sv : General(c, "no", sv) => General(d, w, sv)
  BY <1>1 DEF General, Kinds, OldOnes, Keyed, Down
<1> QED
  BY <1>1, <1>2, <1>3, <1>4 DEF d

\* The frames of ForceReset on a connection that is not dead.
LEMMA ForceResetReads ==
  ASSUME NEW c, NEW x, c.state # "dead"
  PROVE  LET k == ForceResetFrames(c, <<F(x)>>)
         IN  /\ Below(k) = <<F("forceReset"), F(x)>>
             /\ Read(k) = IF c.handlers = << >> THEN "no" ELSE "receiveAll"
<1> DEFINE f == F("receiveAll")
           g == F("forceReset")
           h == F(x)
<1>1. ForceResetFrames(c, <<h>>) = IF c.handlers = << >> THEN <<g>> \o <<h>> ELSE <<f>> \o (<<g>> \o <<h>>)
  BY DEF ForceResetFrames, ReceiveAll, F
<1> HIDE DEF f, g, h
<1>2. <<g>> \o <<h>> = <<g, h>> /\ <<f>> \o <<g, h>> = <<f, g, h>>
  BY ShortConcat
<1>3. Below(<<g, h>>) = <<g, h>> /\ Read(<<g, h>>) = "no"
  BY QuietReads DEF g, h
<1>4. Below(<<f, g, h>>) = <<g, h>> /\ Read(<<f, g, h>>) = "receiveAll"
  BY ShortReads DEF f, g, h
<1> QED
  BY <1>1, <1>2, <1>3, <1>4 DEF g, h

\* Reset.
LEMMA ResetGoes ==
  ASSUME Here, Reset
  PROVE  Goes
<1>1. /\ loan \in {"borrowed", "held", "tx", "single"} /\ Idle /\ loan' = "returning" /\ srv' = srv /\ net' = net
      /\ b.state = "ready" => b' = b /\ stack' = <<F("cleared")>>
      /\ b.state # "ready" => b' = ClearError(b) /\ stack' = ForceResetFrames(b, <<F("cleared")>>)
  BY DEF Reset, Start, F
<1>2. /\ Conn(b) /\ General(b, "no", srv) /\ (net = "up" => Waited(b, "no")) /\ Used(b, << >>, "no", loan)
  BY <1>1, AtIdle DEF Use, Here
<1>3. ~Down(b) => Standing(b, << >>, "no", loan) /\ b.out = << >> /\ b.state # "unauthorized"
  <2>1. ~On(<< >>, {"begin", "run"})
    BY DEF On
  <2> QED
    BY <1>1, <1>2, <2>1 DEF Used, Shape, Standing
<1>4. CASE b.state \in {"ready", "dead"}
  <2>1. b' = b /\ stack' = <<F("cleared")>>
    BY <1>1, <1>4 DEF ClearError, ForceResetFrames
  <2>2. PICK m : m = <<F("cleared")>>
    OBVIOUS
  <2>3. Below(stack') = m /\ Read(stack') = "no"
    BY <2>1, <2>2, QuietReads
  <2>4. ~On(m, {"forceReset"}) /\ ~On(m, {"success3", "record3", "reset3"})
    BY <2>2 DEF On, F
  <2>5. Rested(b)
    <3>1. CASE b.state = "ready"
      <4>1. ~Down(b) /\ ~On(<< >>, {"attach"})
        BY <3>1 DEF Down, On
      <4> QED
        BY <1>3, <3>1, <4>1 DEF Standing, Rested
    <3>2. CASE b.state = "dead"
      BY <3>2 DEF Rested
    <3> QED
      BY <1>4, <3>1, <3>2
  <2>6. AtReturn(b, m, "no")
    BY <1>4, <2>4, <2>5 DEF AtReturn, Resetting
  <2>7. PICK w : w = "no"
    OBVIOUS
  <2>8. StateInv'
    BY <1>1, <1>2, <2>1, <2>3, <2>4, <2>6, <2>7, OutsideNext
  <2> QED
    BY <2>1, <2>8, SamePut DEF Goes
<1>5. CASE b.state \notin {"ready", "dead"}
  <2>1. b' = ClearError(b) /\ stack' = ForceResetFrames(b, <<F("cleared")>>)
    BY <1>1, <1>5
  <2>2. LET d == ClearError(b)
        IN  /\ Tame(b, d) /\ d.handlers = b.handlers /\ d.out = b.out /\ d.wire = b.wire /\ d.made = b.made
            /\ d.live = b.live /\ d.v = b.v /\ d.state = b.state /\ ~d.err /\ d.curr = b.curr
            /\ Open(d) = Open(b)
            /\ \A w, sv : General(b, "no", sv) => General(d, w, sv)
    BY <1>2, <1>5, ClearErrorTame
  <2>3. PICK m : m = <<F("forceReset"), F("cleared")>>
    OBVIOUS
  <2>4. PICK w : w = IF b.handlers = << >> THEN "no" ELSE "receiveAll"
    OBVIOUS
  <2>5. Below(stack') = m /\ Read(stack') = w
    BY <1>5, <2>1, <2>3, <2>4, ForceResetReads
  <2>6. ~On(m, {"cleared"}) /\ ~On(m, {"success3", "record3", "reset3"})
    BY <2>3 DEF On, F
  <2>7. b'.state # "dead" /\ w # "receive" /\ (w # "no" => b.handlers # << >>)
    BY <1>5, <2>1, <2>2, <2>4
  <2>8. AtReturn(b', m, w)
    BY <2>6, <2>7 DEF AtReturn, Resetting
  <2>9. General(b', w, srv)
    BY <1>2, <2>1, <2>2
  <2>10. net = "up" => Waited(b', w)
    <3>1. CASE b.state = "failed"
      BY <1>2, <2>1, <2>2, <3>1 DEF Waited, Sent
    <3>2. CASE b.state # "failed"
      BY <1>1, <1>3, <1>5, <2>1, <2>2, <2>7, <3>2, SentNext DEF Down
    <3> QED
      BY <3>1, <3>2
  <2>11. StateInv'
    BY <1>1, <2>5, <2>6, <2>8, <2>9, <2>10, OutsideNext
  <2> QED
    BY <2>1, <2>2, <2>11, TamePut DEF Goes
<1> QED
  BY <1>4, <1>5

\* Borrow.
LEMMA BorrowGoes ==
  ASSUME Here, NEW check \in BOOLEAN, Borrow(check)
  PROVE  Goes
<1>1. /\ loan = "pooled" /\ Idle /\ loan' = "lending" /\ srv' = srv /\ net' = net
      /\ ~check => b' = b /\ stack' = <<F("reauth")>>
      /\ check => b' = ClearError(b) /\ stack' = ForceResetFrames(b, <<F("reauth")>>)
  BY DEF Borrow, Start, F
<1>2. Conn(b)
  BY DEF Here, BoltInv
<1>3. InPool(b) /\ General(b, "no", srv) /\ (net = "up" => Waited(b, "no"))
  <2>1. Read(stack) = "no" /\ Below(stack) = << >>
    BY <1>1, NothingRead DEF Idle
  <2> QED
    BY <1>1, <2>1 DEF Here, StateInv, Conforms
<1>4. b.curr = 0 /\ b.state \in {"ready", "failed"} /\ ~b.err /\ Rested(b)
  BY <1>3 DEF InPool
<1>5. CASE ~check
  <2>1. PICK m : m = <<F("reauth")>>
    OBVIOUS
  <2>2. b' = b /\ Below(stack') = m /\ Read(stack') = "no"
    BY <1>1, <1>5, <2>1, QuietReads
  <2>3. ~On(m, {"forceReset"}) /\ ~On(m, {"success3", "record3", "reset3"})
    BY <2>1 DEF On, F
  <2>4. AtLend(b, m, "no")
    BY <1>4, <2>3 DEF AtLend, Resetting, Rested
  <2>5. PICK w : w = "no"
    OBVIOUS
  <2>6. StateInv'
    BY <1>1, <1>3, <2>2, <2>3, <2>4, <2>5, OutsideNext
  <2> QED
    BY <2>2, <2>6, SamePut DEF Goes
<1>6. CASE check
  <2>1. b' = ClearError(b) /\ stack' = ForceResetFrames(b, <<F("reauth")>>)
    BY <1>1, <1>6
  <2>2. LET d == ClearError(b)
        IN  /\ Tame(b, d) /\ d.handlers = b.handlers /\ d.out = b.out /\ d.wire = b.wire /\ d.made = b.made
            /\ d.live = b.live /\ d.v = b.v /\ d.state = b.state /\ ~d.err /\ d.curr = b.curr
            /\ Open(d) = Open(b)
            /\ \A w, sv : General(b, "no", sv) => General(d, w, sv)
    BY <1>2, <1>4, ClearErrorTame
  <2>3. PICK m : m = <<F("forceReset"), F("reauth")>>
    OBVIOUS
  <2>4. PICK w : w = IF b.handlers = << >> THEN "no" ELSE "receiveAll"
    OBVIOUS
  <2>5. Below(stack') = m /\ Read(stack') = w
    BY <1>4, <2>1, <2>3, <2>4, ForceResetReads
  <2>6. On(m, {"forceReset"}) /\ ~On(m, {"success3", "record3", "reset3"})
    BY <2>3 DEF On, F
  <2>7. b'.state # "dead" /\ w # "receive" /\ (w # "no" => b.handlers # << >>)
    BY <1>4, <2>1, <2>2, <2>4
  <2>8. AtLend(b', m, w)
    BY <1>4, <2>1, <2>2, <2>6, <2>7 DEF AtLend, Resetting, Rested
  <2>9. General(b', w, srv)
    BY <1>3, <2>1, <2>2
  <2>10. net = "up" => Waited(b', w)
    <3>1. CASE b.state = "failed"
      BY <1>3, <2>1, <2>2, <3>1 DEF Waited, Sent
    <3>2. CASE b.state = "ready"
      BY <1>1, <1>4, <2>1, <2>2, <2>7, <3>2, SentNext DEF Rested
    <3> QED
      BY <1>4, <3>1, <3>2
  <2>11. StateInv'
    BY <1>1, <2>5, <2>6, <2>8, <2>9, <2>10, OutsideNext
  <2> QED
    BY <2>1, <2>2, <2>11, TamePut DEF Goes
<1> QED
  BY <1>5, <1>6

\* forceReset.
LEMMA ForceResetGoes ==
  ASSUME Here, ForceReset
  PROVE  Goes
<1> DEFINE e == EnqueuePlain(b, "reset")
           d == Send(e)
<1>1. ~Idle /\ Top.at = "forceReset"
  BY DEF ForceReset, At
<1>2. PICK x \in {"cleared", "reauth"} : /\ loan = IF x = "cleared" THEN "returning" ELSE "lending"
                                         /\ stack = <<F("forceReset"), F(x)>>
  BY <1>1, SpecialAt DEF Here
<1>3. /\ loan' = loan /\ srv' = srv /\ net' = net /\ loan \in {"returning", "lending"}
      /\ b.err => b' = b /\ stack' = << >> \o Tail(stack)
      /\ ~b.err => b' = d /\ stack' = (IF d.err THEN << >> ELSE <<F("receive")>>) \o Tail(stack)
  BY <1>2 DEF ForceReset, Continue, F
<1>4. PICK m : m = <<F(x)>>
  OBVIOUS
<1>5. /\ Tail(stack) = m /\ << >> \o m = m /\ <<F("receive")>> \o m = <<F("receive"), F(x)>>
  BY <1>2, <1>4, ShortStack, ShortConcat
<1>6. /\ Below(m) = m /\ Read(m) = "no"
      /\ Below(<<F("receive"), F(x)>>) = m /\ Read(<<F("receive"), F(x)>>) = "receive"
  <2>1. Below(m) = m /\ Read(m) = "no"
    BY <1>4, QuietReads
  <2>2. Below(<<F("receive"), F(x)>>) = m /\ Read(<<F("receive"), F(x)>>) = "receive"
    BY <1>4, ShortReads
  <2> QED
    BY <2>1, <2>2
<1>7. ~On(m, {"forceReset"}) /\ ~On(m, {"success3", "record3", "reset3"})
  BY <1>2, <1>4 DEF On, F
<1>8. PICK k : k = <<F("forceReset"), F(x)>>
  OBVIOUS
<1>9. Below(stack) = k /\ Read(stack) = "no" /\ On(k, {"forceReset"})
  <2>1. Below(stack) = k /\ Read(stack) = "no"
    BY <1>2, <1>8, QuietReads
  <2> QED
    BY <2>1, <1>8 DEF On, F
<1>10. /\ Conn(b) /\ b.v.major # 3 /\ net \in {"up", "down"} /\ (~b.err => b.handlers = << >>)
  BY <1>1 DEF Here, BoltInv, ResetAlone
<1>11. /\ General(b, "no", srv) /\ (net = "up" => Waited(b, "no"))
       /\ loan = "returning" => AtReturn(b, k, "no")
       /\ loan = "lending" => AtLend(b, k, "no")
  BY <1>3, <1>9 DEF Here, StateInv, Conforms
<1>12. /\ b.state = "dead" => b.err
       /\ loan = "lending" => b.curr = 0 /\ b.state \in {"ready", "failed", "dead"}
  BY <1>3, <1>9, <1>11 DEF AtReturn, AtLend, Resetting
<1>13. CASE b.err
  <2>1. b' = b /\ stack' = m
    BY <1>3, <1>5, <1>13
  <2>2. Down(b)
    BY <1>11, <1>13 DEF General
  <2>3. /\ loan = "returning" => AtReturn(b, m, "no")
        /\ loan = "lending" => AtLend(b, m, "no")
    BY <1>7, <1>12, <2>2 DEF AtReturn, AtLend, Resetting, Rested, Down
  <2>4. PICK w : w = "no"
    OBVIOUS
  <2>5. StateInv'
    BY <1>3, <1>6, <1>7, <1>11, <2>1, <2>3, <2>4, OutsideNext
  <2> QED
    BY <2>1, <2>5, SamePut DEF Goes
<1>14. CASE ~b.err
  <2>1. /\ Tame(b, e) /\ Conn(e) /\ e.err = b.err /\ e.state = b.state /\ e.curr = b.curr /\ e.made = b.made
        /\ e.live = b.live /\ e.v = b.v /\ e.handlers = Append(b.handlers, [on |-> "reset", s |-> 0])
    BY <1>10, EnqueuePlainTame DEF Messages, OfResult
  <2>2. Len(e.handlers) = 1 /\ e.handlers[1].on = "reset" /\ e.handlers[1].s = 0 /\ e.handlers # << >>
    <3>1. PICK q : q = [on |-> "reset", s |-> 0]
      OBVIOUS
    <3>2. Len(Append(b.handlers, q)) = 1 /\ Append(b.handlers, q)[1] = q
      BY <1>10, <1>14, OneHandler
    <3>3. Len(e.handlers) = 1 /\ e.handlers[1] = q
      BY <2>1, <3>1, <3>2
    <3> QED
      BY <3>1, <3>3
  <2>3. Plains(e.handlers)
    BY <2>2 DEF Plains
  <2> HIDE DEF e
  <2>4. /\ Tame(e, d) /\ Conn(d) /\ d.handlers = e.handlers /\ d.made = e.made /\ d.live = e.live /\ d.v = e.v
        /\ net # "down" => d.state = e.state /\ d.err = e.err /\ d.curr = e.curr /\ d.out = << >>
        /\ net = "down" => d.err
    BY <2>1, SendTame
  <2>5. net = "down" => d.curr = 0 /\ d.state = "dead"
    BY <2>1, SendDown
  <2> HIDE DEF d
  <2>6. Tame(b, d)
    BY <1>10, <2>1, <2>4, TameTrans
  <2>7. CASE net = "down"
    <3>1. b' = d /\ stack' = m
      BY <1>3, <1>5, <1>14, <2>4, <2>7
    <3>2. /\ loan = "returning" => AtReturn(d, m, "no")
          /\ loan = "lending" => AtLend(d, m, "no")
      BY <1>7, <2>5, <2>7 DEF AtReturn, AtLend, Resetting, Rested
    <3>3. PICK w : w = "no"
      OBVIOUS
    <3>4. General(d, w, srv)
      BY <1>10, <1>11, <2>1, <2>4, <2>5, <2>6, <2>7, <3>3, GeneralTame DEF Down
    <3>5. StateInv'
      BY <1>3, <1>6, <1>7, <2>7, <3>1, <3>2, <3>3, <3>4, OutsideNext
    <3> QED
      BY <2>6, <3>1, <3>5, TamePut DEF Goes
  <2>8. CASE net # "down"
    <3>1. b' = d /\ stack' = <<F("receive"), F(x)>>
      BY <1>3, <1>5, <1>14, <2>1, <2>4, <2>8
    <3>2. PICK w : w = "receive"
      OBVIOUS
    <3>3. /\ d.state = b.state /\ d.state # "dead" /\ ~d.err /\ d.curr = b.curr /\ d.out = << >>
          /\ Len(d.handlers) = 1 /\ d.handlers[1].on = "reset" /\ d.handlers # << >> /\ Plains(d.handlers)
      BY <1>12, <1>14, <2>1, <2>2, <2>3, <2>4, <2>8
    <3>4. /\ loan = "returning" => AtReturn(d, m, w)
          /\ loan = "lending" => AtLend(d, m, w)
      BY <1>7, <1>12, <3>2, <3>3 DEF AtReturn, AtLend, Resetting
    <3>5. General(d, w, srv)
      <4>1. srv.st = "failed" => Down(d)
        BY <1>11, <3>3 DEF General, Down
      <4> QED
        BY <1>10, <1>11, <1>12, <1>14, <2>1, <2>4, <2>6, <3>3, <4>1, GeneralTame
    <3>6. net' = "up" => Waited(b', w)
      BY <1>3, <2>1, <2>4, <3>1, <3>2, <3>3, SentNext
    <3>7. Below(stack') = m /\ Read(stack') = w
      BY <1>6, <3>1, <3>2
    <3>8. StateInv'
      BY <1>3, <1>7, <3>1, <3>4, <3>5, <3>6, <3>7, OutsideNext
    <3> QED
      BY <2>6, <3>1, <3>8, TamePut DEF Goes
  <2> QED
    BY <2>7, <2>8
<1> QED
  BY <1>13, <1>14

\* The frame that a connection is at while it is lent.
LEMMA LendingAt ==
  ASSUME Here, ~Idle, Top.at \in {"reauth", "reauthed", "lent"}
  PROVE  /\ loan = "lending" /\ stack = <<F(Top.at)>> /\ Tail(stack) = << >> /\ Conn(b) /\ b.live > b.made
         /\ b.v.major # 3 /\ b.v \in Protocols /\ net \in {"up", "down"}
         /\ General(b, "no", srv) /\ (net = "up" => Waited(b, "no")) /\ Rested(b) /\ b.curr = 0
         /\ b.state \in {"ready", "failed", "dead"}
<1>1. loan = "lending" /\ stack = <<F(Top.at)>>
  BY SpecialAt DEF Here
<1>2. PICK m : m = <<F(Top.at)>>
  OBVIOUS
<1>3. Below(stack) = m /\ Read(stack) = "no"
  BY <1>1, <1>2, QuietReads
<1>4. ~On(m, {"forceReset"})
  BY <1>2 DEF On, F
<1>5. General(b, "no", srv) /\ (net = "up" => Waited(b, "no")) /\ AtLend(b, m, "no")
  BY <1>1, <1>3 DEF Here, StateInv, Conforms
<1>6. Rested(b) /\ b.curr = 0 /\ b.state \in {"ready", "failed", "dead"}
  BY <1>4, <1>5 DEF AtLend
<1>7. Conn(b) /\ b.live > b.made /\ net \in {"up", "down"} /\ b.v \in Protocols
  BY <1>1 DEF Here, BoltInv, Phase, NoResults, Conn
<1>8. Tail(stack) = << >>
  BY <1>1, ShortStack
<1> QED
  BY <1>1, <1>5, <1>6, <1>7, <1>8 DEF Here

\* Such a frame is next.
LEMMA LendNext ==
  ASSUME loan' = "lending", NEW x \in {"reauth", "reauthed", "lent"}, NEW w \in {"no", "receiveAll"},
         stack' = (IF w = "no" THEN << >> ELSE <<F(w)>>) \o <<F(x)>>, General(b', w, srv'),
         net' = "up" => Waited(b', w), b'.curr = 0, b'.state \in {"ready", "failed", "dead"}, Rested(b'),
         w # "no" => b'.state # "dead"
  PROVE  StateInv'
<1>1. PICK m : m = <<F(x)>>
  OBVIOUS
<1>2. Below(stack') = m /\ Read(stack') = w
  <2>1. CASE w = "no"
    <3>1. stack' = m
      BY <1>1, <2>1, ShortConcat
    <3> QED
      BY <1>1, <2>1, <3>1, QuietReads
  <2>2. CASE w = "receiveAll"
    <3>1. stack' = <<F(w), F(x)>>
      BY <2>2, ShortConcat
    <3> QED
      BY <1>1, <2>2, <3>1, ShortReads
  <2> QED
    BY <2>1, <2>2
<1>3. ~On(m, {"forceReset"}) /\ ~On(m, {"success3", "record3", "reset3"})
  BY <1>1 DEF On, F
<1>4. AtLend(b', m, w)
  BY <1>3 DEF AtLend, Resetting, Rested
<1> QED
  BY <1>2, <1>3, <1>4, OutsideNext

\* LOGOFF and LOGON are sent.
LEMMA LogonTame ==
  ASSUME Here, Conn(b), b.v.major # 3, b.v \in Protocols, HasLogon(b.v), b.live > b.made, Rested(b), b.curr = 0,
         b.state \in {"ready", "failed"}, General(b, "no", srv), net \in {"up", "down"}
  PROVE  LET c == Send(EnqueuePlain(EnqueuePlain(b, "logoff"), "logon"))
         IN  /\ Tame(b, c) /\ Rested(c) /\ c.curr = 0 /\ c.state \in {"ready", "failed", "dead"} /\ c.v = b.v
             /\ c.handlers # << >> /\ (\A w : (c.state = "dead" => w = "no") => General(c, w, srv))
             /\ net = "up" => c.err = b.err /\ c.state # "dead" /\ c.out = << >>
             /\ net = "down" => c.err /\ c.state = "dead"
<1> DEFINE h == EnqueuePlain(b, "logoff")
           e == EnqueuePlain(h, "logon")
           c == Send(e)
<1>1. /\ Tame(b, h) /\ Conn(h) /\ h.err = b.err /\ h.state = b.state /\ h.curr = b.curr /\ h.made = b.made
      /\ h.live = b.live /\ h.v = b.v /\ h.handlers = Append(b.handlers, [on |-> "logoff", s |-> 0])
  BY EnqueuePlainTame DEF Messages, OfResult
<1>2. Plains(b.handlers) => Plains(h.handlers)
  BY <1>1, PlainsAppend
<1> HIDE DEF h
<1>3. /\ Tame(h, e) /\ Conn(e) /\ e.err = h.err /\ e.state = h.state /\ e.curr = h.curr /\ e.made = h.made
      /\ e.live = h.live /\ e.v = h.v /\ e.handlers = Append(h.handlers, [on |-> "logon", s |-> 0])
      /\ e.handlers # << >>
  BY <1>1, EnqueuePlainTame DEF Messages, OfResult
<1>4. Plains(b.handlers) => Plains(e.handlers)
  BY <1>1, <1>2, <1>3, PlainsAppend
<1> HIDE DEF e
<1>5. Tame(b, e)
  BY <1>1, <1>3, TameTrans
<1>6. /\ Tame(e, c) /\ Conn(c) /\ c.handlers = e.handlers /\ c.made = e.made /\ c.live = e.live /\ c.v = e.v
      /\ net # "down" => c.state = e.state /\ c.err = e.err /\ c.curr = e.curr /\ c.out = << >>
      /\ net = "down" => c.err /\ c.state = "dead"
  BY <1>3, SendTame
<1>7. net = "down" => c.curr = 0
  BY <1>3, SendDown
<1> HIDE DEF c
<1>8. Tame(b, c)
  BY <1>3, <1>5, <1>6, TameTrans
<1>9. /\ net = "up" => c.err = b.err /\ c.state = b.state /\ c.out = << >>
      /\ c.curr = 0 /\ c.v = b.v /\ c.handlers # << >> /\ (Plains(b.handlers) => Plains(c.handlers))
      /\ c.made = b.made
  BY <1>1, <1>3, <1>4, <1>6, <1>7
<1>10. Rested(c)
  <2>1. b.v.major # 4
    BY VersionsAreNumbers DEF HasLogon, AtLeast
  <2> QED
    BY <1>6, <1>9, <2>1 DEF Rested
<1>11. ASSUME NEW w, c.state = "dead" => w = "no"
       PROVE  General(c, w, srv)
  <2>1. c.err => Down(c)
    BY <1>6, <1>9 DEF General, Down
  <2>2. srv.st = "failed" => Down(c)
    BY <1>6, <1>9 DEF General, Down
  <2>3. c.state = "failed" => srv.st = "failed" \/ Plains(c.handlers)
    BY <1>6, <1>9 DEF General
  <2>4. General(c, "no", srv)
    BY <1>6, <1>8, <1>9, <2>1, <2>2, <2>3, GeneralTame
  <2> QED
    BY <1>11, <2>4, GeneralRead
<1>12. /\ c.state \in {"ready", "failed", "dead"}
       /\ net = "up" => c.state # "dead"
       /\ net = "down" => c.err /\ c.state = "dead"
  BY <1>6, <1>9
<1>13. \A w : (c.state = "dead" => w = "no") => General(c, w, srv)
  BY <1>11
<1> QED
  BY <1>8, <1>9, <1>10, <1>12, <1>13 DEF c, e, h

\* ReAuth.
LEMMA ReAuthGoes ==
  ASSUME Here, NEW changed \in BOOLEAN, NEW force \in BOOLEAN, ReAuth(changed, force)
  PROVE  Goes
<1> DEFINE c == Send(EnqueuePlain(EnqueuePlain(b, "logoff"), "logon"))
           g == F("reauthed")
           f == F("receiveAll")
<1>1. ~Idle /\ Top.at = "reauth" /\ HasLogon(b.v) /\ loan' = loan /\ srv' = srv /\ net' = net
  BY DEF ReAuth, At, Continue
<1>2. /\ loan = "lending" /\ Tail(stack) = << >> /\ Conn(b) /\ b.live > b.made
      /\ b.v.major # 3 /\ b.v \in Protocols /\ net \in {"up", "down"}
      /\ General(b, "no", srv) /\ (net = "up" => Waited(b, "no")) /\ Rested(b) /\ b.curr = 0
      /\ b.state \in {"ready", "failed", "dead"}
  BY <1>1, LendingAt
<1>3. /\ <<F("lent")>> \o << >> = <<F("lent")>> /\ << >> \o <<F("lent")>> = <<F("lent")>>
      /\ <<g>> \o << >> = <<g>> /\ << >> \o <<g>> = <<g>> /\ <<f>> \o <<g>> = <<f, g>> /\ <<f, g>> \o << >> = <<f, g>>
  <2> HIDE DEF f, g
  <2>1. <<f, g>> \o << >> = <<f, g>>
    OBVIOUS
  <2> QED
    BY <2>1, ShortConcat
<1>4. CASE Continue(b, <<Lent>>)
  <2>1. PICK w \in {"no", "receiveAll"} : w = "no"
    OBVIOUS
  <2>2. PICK x \in {"reauth", "reauthed", "lent"} : x = "lent"
    OBVIOUS
  <2>3. b' = b /\ stack' = (IF w = "no" THEN << >> ELSE <<F(w)>>) \o <<F(x)>>
    BY <1>2, <1>3, <1>4, <2>1, <2>2 DEF Continue, Lent, F
  <2>4. StateInv'
    BY <1>1, <1>2, <2>1, <2>3, LendNext
  <2> QED
    BY <2>3, <2>4, SamePut DEF Goes
<1>5. CASE b.state # "dead" /\ Continue(c, IF force /\ ~c.err THEN ReceiveAll(c, <<Reauthed>>) ELSE <<Reauthed>>)
  <2>1. /\ Tame(b, c) /\ Rested(c) /\ c.curr = 0 /\ c.state \in {"ready", "failed", "dead"} /\ c.v = b.v
        /\ c.handlers # << >> /\ (\A w : (c.state = "dead" => w = "no") => General(c, w, srv))
        /\ net = "up" => c.err = b.err /\ c.state # "dead" /\ c.out = << >>
        /\ net = "down" => c.err /\ c.state = "dead"
    BY <1>1, <1>2, <1>5, LogonTame
  <2> HIDE DEF c
  <2>2. PICK w \in {"no", "receiveAll"} : w = IF force /\ ~c.err THEN "receiveAll" ELSE "no"
    OBVIOUS
  <2>3. PICK x \in {"reauth", "reauthed", "lent"} : x = "reauthed"
    OBVIOUS
  <2>4. b' = c /\ stack' = (IF w = "no" THEN << >> ELSE <<F(w)>>) \o <<F(x)>>
    <3>1. b' = c /\ stack' = (IF force /\ ~c.err THEN ReceiveAll(c, <<g>>) ELSE <<g>>) \o << >>
      BY <1>2, <1>5 DEF Continue, Reauthed, F
    <3>2. ReceiveAll(c, <<g>>) = <<f>> \o <<g>>
      BY <2>1 DEF ReceiveAll, F
    <3> QED
      BY <1>3, <2>2, <2>3, <3>1, <3>2
  <2>5. c.state = "dead" => w = "no"
    BY <1>2, <2>1, <2>2
  <2>6. General(c, w, srv)
    BY <2>1, <2>5
  <2>7. net' = "up" => Waited(b', w)
    <3>1. loan' # "gone"
      BY <1>1, <1>2
    <3> QED
      BY <1>1, <2>1, <2>4, <3>1, SentNext
  <2>8. StateInv'
    BY <1>1, <1>2, <2>1, <2>4, <2>5, <2>6, <2>7, LendNext
  <2> QED
    BY <2>1, <2>4, <2>8, TamePut DEF Goes
<1> QED
  BY <1>4, <1>5 DEF ReAuth

\* The connection is closed in place.
LEMMA ClosedGoes ==
  ASSUME Here, ~Idle, Top.at \in {"reauth", "reauthed"}, NEW t \in BOOLEAN, loan' = loan,
         Continue(IF t THEN [b EXCEPT !.state = "dead"] ELSE b, <<Lent>>)
  PROVE  Goes
<1> DEFINE c == [b EXCEPT !.state = "dead"]
           d == IF t THEN c ELSE b
<1>1. /\ loan = "lending" /\ Tail(stack) = << >> /\ Conn(b)
      /\ General(b, "no", srv) /\ (net = "up" => Waited(b, "no")) /\ Rested(b) /\ b.curr = 0
      /\ b.state \in {"ready", "failed", "dead"}
  BY LendingAt
<1>2. PICK w \in {"no", "receiveAll"} : w = "no"
  OBVIOUS
<1>3. PICK x \in {"reauth", "reauthed", "lent"} : x = "lent"
  OBVIOUS
<1>4. b' = d /\ srv' = srv /\ net' = net /\ stack' = (IF w = "no" THEN << >> ELSE <<F(w)>>) \o <<F(x)>>
  <2>1. <<F("lent")>> \o << >> = <<F("lent")>> /\ << >> \o <<F("lent")>> = <<F("lent")>>
    BY ShortConcat
  <2> QED
    BY <1>1, <1>2, <1>3, <2>1 DEF Continue, Lent, F
<1>5. /\ c.v = b.v /\ c.live = b.live /\ c.made = b.made /\ c.streams = b.streams /\ c.curr = b.curr
      /\ c.handlers = b.handlers /\ c.out = b.out /\ c.wire = b.wire /\ c.err = b.err /\ c.state = "dead"
  BY <1>1 DEF Conn, ConnFields
<1> HIDE DEF c
<1>6. Tame(b, c)
  BY <1>1, <1>5, TameSame
<1>7. General(c, "no", srv)
  BY <1>1, <1>5 DEF General, Kinds, OldOnes, Keyed, Down
<1>8. Open(c) = Open(b)
  BY <1>5 DEF Open, Over
<1>9. net = "up" => Waited(c, "no")
  BY <1>1, <1>5, <1>8 DEF Waited, Sent
<1>10. Rested(c)
  BY <1>5 DEF Rested
<1>11. StateInv'
  BY <1>1, <1>2, <1>4, <1>5, <1>7, <1>9, <1>10, LendNext
<1>12. Put(b, b')
  BY <1>4, <1>6, SamePut, TamePut
<1> QED
  BY <1>11, <1>12 DEF Goes

\* ReAuth is over.
LEMMA ReAuthDoneGoes ==
  ASSUME Here, ReAuthDone
  PROVE  Goes
<1>1. Conn(b)
  BY DEF Here, BoltInv
<1>2. PICK t \in BOOLEAN : t = b.err
  BY <1>1 DEF Conn
<1> QED
  BY <1>2, ClosedGoes DEF ReAuthDone, At

\* ReAuth before LOGON.
LEMMA FallbackReAuthGoes ==
  ASSUME Here, NEW changed \in BOOLEAN, FallbackReAuth(changed)
  PROVE  Goes
  BY ClosedGoes DEF FallbackReAuth, At

\* The connection is lent.
LEMMA LendingDoneGoes ==
  ASSUME Here, LendingDone
  PROVE  Goes
<1>1. /\ ~Idle /\ Top.at = "lent" /\ b' = b /\ srv' = srv /\ net' = net /\ stack' = << >> \o Tail(stack)
      /\ loan' = IF b.state = "dead" THEN "gone" ELSE "borrowed"
  BY DEF LendingDone, At, Continue
<1>2. /\ Tail(stack) = << >> /\ Conn(b) /\ b.live > b.made
      /\ General(b, "no", srv) /\ (net = "up" => Waited(b, "no")) /\ Rested(b) /\ b.curr = 0
      /\ b.state \in {"ready", "failed", "dead"}
  BY <1>1, LendingAt
<1> SUFFICES StateInv'
  BY <1>1, SamePut DEF Goes
<1>3. CASE b.state = "dead"
  BY <1>1, <1>3 DEF StateInv
<1>4. CASE b.state # "dead"
  <2>1. << >> \o << >> = << >>
    BY ShortConcat
  <2>2. loan' = "borrowed" /\ Below(stack') = << >> /\ Read(stack') = "no"
    BY <1>1, <1>2, <1>4, <2>1, NothingRead
  <2>3. Open(b) = {}
    BY <1>2, NoneOpen
  <2>4. ~On(<< >>, {"attach"}) /\ ~On(<< >>, {"begin", "run"})
    BY DEF On
  <2>5. ~Down(b) => Standing(b, << >>, "no", "borrowed")
    BY <1>2, <1>4, <2>3, <2>4 DEF Standing, Down, Rested, InTx
  <2>6. JustLent(b, << >>, "no")
    BY <1>2, <1>4 DEF JustLent, Rested
  <2>7. FramesOK(b, << >>, "no")
    BY FramesShort
  <2>8. Used(b, << >>, "no", "borrowed")
    BY <1>2, <2>5, <2>6, <2>7 DEF Used, Shape, LentFailed
  <2> QED
    BY <1>1, <1>2, <2>2, <2>8, InUseNext DEF Use
<1> QED
  BY <1>3, <1>4

\* The connection that Reset leaves.
LEMMA ClearedTame ==
  ASSUME Conn(b)
  PROVE  LET c == Cleared(b)
         IN  /\ Tame(b, c) /\ Conn(c) /\ SameQueue(b, c) /\ c.state = b.state /\ ~c.err /\ c.curr = 0
             /\ \A s \in Streams : ~c.streams[s].safe
<1> DEFINE e == [b EXCEPT !.txId = FALSE, !.err = FALSE, !.lastQid = -1]
           c == ResetStreams(e)
<1>1. DOMAIN e = ConnFields /\ e.streams = b.streams
      /\ e.curr = b.curr /\ e.err = FALSE /\ e.state = b.state /\ e.txId \in BOOLEAN
      /\ SameQueue(b, e)
  BY DEF Conn, ConnFields, SameQueue
<1>2. Cleared(b) = c
  BY DEF Cleared
<1> HIDE DEF e
<1>3. Conn(e)
  <2>1. b.curr \in 0 .. b.made /\ b.state \in States
        /\ DOMAIN b.streams = Streams /\ \A r \in Streams : StreamOK(b.streams[r])
    BY DEF Conn
  <2> QED
    BY <1>1, <2>1, SameConn
<1>4. Tame(b, e)
  BY <1>1, TameSame DEF SameQueue
<1>5. /\ Tame(e, c) /\ Conn(c) /\ c.err = e.err /\ c.state = e.state /\ c.curr = 0 /\ c.made = e.made
      /\ c.handlers = e.handlers /\ c.out = e.out /\ c.wire = e.wire /\ \A s \in Streams : ~c.streams[s].safe
  BY <1>3, ResetStreamsTame
<1> HIDE DEF c
<1>6. Tame(b, c)
  BY <1>3, <1>4, <1>5, TameTrans
<1>7. SameQueue(b, c)
  BY <1>1, <1>5 DEF SameQueue, Tame
<1> QED
  BY <1>1, <1>2, <1>5, <1>6, <1>7

\* A connection that is alive and has nothing under way waits for nothing.
LEMMA NothingAwaited ==
  ASSUME BoltInv, b.v.major > 3, loan # "gone", b.state # "dead", b.wire \o b.out = << >>
  PROVE  b.handlers = << >>
<1>1. Matches(b.handlers, b.wire \o b.out)
  BY AliveMatches
<1>2. Len(b.handlers) = 0 /\ b.handlers \in Seq(Handlers)
  BY <1>1 DEF Matches, BoltInv, Conn
<1> QED
  BY <1>2, EmptySeq

\* Reset is over.
LEMMA ResetDoneGoes ==
  ASSUME Here, ResetDone
  PROVE  Goes
<1> DEFINE c == Cleared(b)
           new == [s \in Streams |-> NewStream]
           fresh == [c EXCEPT !.made = 0, !.live = 1, !.streams = new]
           left == [c EXCEPT !.live = c.made + 1]
<1>1. ~Idle /\ Top.at = "cleared" /\ Returned(c)
  BY DEF ResetDone, At
<1>2. loan = "returning" /\ stack = <<F("cleared")>> /\ Conn(b) /\ Conn(b')
  BY <1>1, SpecialAt DEF Here, BoltInv
<1>3. PICK m : m = <<F("cleared")>>
  OBVIOUS
<1>4. Below(stack) = m /\ Read(stack) = "no" /\ On(m, {"cleared"})
  <2>1. Below(stack) = m /\ Read(stack) = "no"
    BY <1>2, <1>3, QuietReads
  <2> QED
    BY <2>1, <1>3 DEF On, F
<1>5. General(b, "no", srv) /\ b.state \in {"ready", "failed", "dead"} /\ Rested(b)
  <2>1. General(b, "no", srv) /\ AtReturn(b, m, "no")
    BY <1>2, <1>4 DEF Here, StateInv, Conforms
  <2> QED
    BY <1>4, <2>1 DEF AtReturn
<1>6. /\ Tame(b, c) /\ Conn(c) /\ SameQueue(b, c) /\ c.state = b.state /\ ~c.err /\ c.curr = 0
      /\ \A s \in Streams : ~c.streams[s].safe
  BY <1>2, ClearedTame
<1>7. /\ stack' = << >> /\ loan' = IF b.state = "dead" THEN "gone" ELSE "pooled"
      /\ \/ c.wire \o c.out = << >> /\ b' = fresh /\ srv' = [srv EXCEPT !.sent = [s \in Streams |-> 0], !.last = NoStream]
         \/ b' = left /\ srv' = srv
  BY <1>1, <1>2, <1>6, ShortStack DEF Returned
<1> HIDE DEF c
<1>8. /\ c.handlers = b.handlers /\ c.out = b.out /\ c.wire = b.wire /\ c.v = b.v /\ c.made = b.made /\ c.live = b.live
      /\ DOMAIN c = ConnFields
  BY <1>6 DEF SameQueue, Conn
<1>9. srv'.st = srv.st
  BY <1>7 DEF Here, BoltInv, Server, ServerOK
<1>10. Put(b, b')
  <2>1. CASE b' = fresh
    <3>1. b'.live = 1 /\ b'.v = b.v
      BY <1>8, <2>1 DEF ConnFields
    <3>2. \A s \in Streams : ~(s < b'.live)
      BY <3>1, StreamsAreCounted DEF Streams
    <3> QED
      BY <3>1, <3>2 DEF Put
  <2>2. CASE b' = left
    <3>1. b'.streams = c.streams /\ b'.v = b.v
      BY <1>8, <2>2 DEF ConnFields
    <3> QED
      BY <1>6, <3>1 DEF Put, Tame, TameStream, StaysPut
  <2> QED
    BY <1>7, <2>1, <2>2
<1>11. CASE b.state = "dead"
  BY <1>7, <1>10, <1>11 DEF Goes, StateInv
<1>12. CASE b.state # "dead"
  <2>1. /\ b'.state = b.state /\ ~b'.err /\ b'.curr = 0 /\ b'.handlers = b.handlers /\ b'.out = b.out /\ b'.v = b.v
        /\ b'.live > b'.made
    <3>1. b.made \in Nat /\ b.made + 1 > b.made
      BY <1>2, NoStreamFits
    <3>2. CASE b' = fresh
      BY <1>6, <1>8, <3>2 DEF ConnFields
    <3>3. CASE b' = left
      BY <1>6, <1>8, <3>1, <3>3 DEF ConnFields
    <3> QED
      BY <1>7, <3>2, <3>3
  <2>2. \A s \in Streams : ~b'.streams[s].safe
    <3>1. CASE b' = fresh
      <4>1. b'.streams = new
        BY <1>8, <3>1 DEF ConnFields
      <4> QED
        BY <4>1 DEF NewStream
    <3>2. CASE b' = left
      <4>1. b'.streams = c.streams
        BY <1>8, <3>2 DEF ConnFields
      <4> QED
        BY <1>6, <4>1
    <3> QED
      BY <1>7, <3>1, <3>2
  <2>3. Plains(b.handlers) \/ srv.st = "failed"
    BY <1>5, <1>12 DEF Rested, General
  <2>4. General(b', "no", srv')
    <3>1. OldOnes(b', srv')
      BY <1>9, <2>1, <2>3 DEF OldOnes, Plains
    <3>2. Keyed(b') /\ Kinds(b')
      BY <1>5, <2>1, <2>2 DEF Keyed, Kinds, General
    <3> QED
      BY <1>5, <1>9, <2>1, <3>1, <3>2 DEF General, Down
  <2>5. Rested(b')
    BY <1>5, <2>1 DEF Rested
  <2>6. InPool(b')
    BY <1>5, <1>12, <2>1, <2>5 DEF InPool
  <2>7. Open(b') = {}
    BY <1>2, <2>1, NoneOpen
  <2>8. PICK w : w = "no"
    OBVIOUS
  <2>9. Waited(b', w)
    BY <2>7, <2>8 DEF Waited
  <2>10. Below(stack') = << >> /\ Read(stack') = w /\ ~On(<< >>, {"success3", "record3", "reset3"})
    BY <1>7, <2>8, NothingRead DEF On
  <2>11. StateInv'
    <3>1. loan' = "pooled"
      BY <1>7, <1>12
    <3> QED
      BY <2>4, <2>6, <2>8, <2>9, <2>10, <3>1, OutsideNext
  <2> QED
    BY <1>10, <2>11 DEF Goes
<1> QED
  BY <1>11, <1>12

-----------------------------------------------------------------------------
(* Responses.                                                              *)

\* A call that waits, outside the hands of a session.
LEMMA OutsideWait ==
  ASSUME BoltInv, Waiting, loan \notin Use
  PROVE  /\ Below(stack) = Tail(stack) /\ Read(stack) = Top.at
         /\ Below(Tail(stack)) = Tail(stack) /\ Read(Tail(stack)) = "no"
         /\ loan \in {"connecting", "returning", "lending"}
         /\ loan = "returning" => (On(Tail(stack), {"cleared"}) <=> Top.at = "receive")
         /\ loan = "returning" => (On(Tail(stack), {"forceReset"}) <=> Top.at = "receiveAll")
         /\ loan = "lending" /\ Top.at = "receive" => ~On(Tail(stack), {"forceReset"})
<1>1. PICK z \in {"receive", "receiveAll"}, x \in {"connected", "cleared", "reauth", "reauthed"}, t \in BOOLEAN :
         /\ stack = IF t THEN <<F(z), F("forceReset"), F(x)>> ELSE <<F(z), F(x)>>
         /\ loan = IF x = "connected" THEN "connecting" ELSE IF x = "cleared" THEN "returning" ELSE "lending"
         /\ loan = "returning" => (t <=> z = "receiveAll")
         /\ loan = "lending" /\ z = "receive" => ~t
  BY WaitingAt DEF WaitStacks
<1>2. PICK f : f = F(z)
  OBVIOUS
<1>3. PICK g : g = F("forceReset")
  OBVIOUS
<1>4. PICK h : h = F(x)
  OBVIOUS
<1>5. f.at = z /\ g.at = "forceReset" /\ h.at = x
  BY <1>2, <1>3, <1>4 DEF F
<1>6. PICK q : q = IF t THEN <<g, h>> ELSE <<h>>
  OBVIOUS
<1>7. Tail(stack) = q /\ Top = f /\ Below(stack) = q /\ Read(stack) = z
  <2>1. CASE t
    <3>1. stack = <<f, g, h>> /\ q = <<g, h>>
      BY <1>1, <1>2, <1>3, <1>4, <1>6, <2>1
    <3>2. Below(<<F(z), F("forceReset"), F(x)>>) = <<F("forceReset"), F(x)>>
          /\ Read(<<F(z), F("forceReset"), F(x)>>) = z
      BY ShortReads
    <3>3. Tail(<<f, g, h>>) = <<g, h>> /\ Head(<<f, g, h>>) = f
      BY ShortStack
    <3> QED
      BY <1>2, <1>3, <1>4, <3>1, <3>2, <3>3 DEF Top
  <2>2. CASE ~t
    <3>1. stack = <<f, h>> /\ q = <<h>>
      BY <1>1, <1>2, <1>4, <1>6, <2>2
    <3>2. Below(<<F(z), F(x)>>) = <<F(x)>> /\ Read(<<F(z), F(x)>>) = z
      BY ShortReads
    <3>3. Tail(<<f, h>>) = <<h>> /\ Head(<<f, h>>) = f
      BY ShortStack
    <3> QED
      BY <1>2, <1>4, <3>1, <3>2, <3>3 DEF Top
  <2> QED
    BY <2>1, <2>2
<1>8. q # << >> /\ q[1] = IF t THEN g ELSE h
  BY <1>6
<1>9. Below(q) = q /\ Read(q) = "no"
  BY <1>5, <1>8, NothingRead
<1>10. On(q, {"cleared"}) <=> ~t /\ x = "cleared"
  BY <1>5, <1>8 DEF On
<1>11. On(q, {"forceReset"}) <=> t
  BY <1>5, <1>8 DEF On
<1> QED
  BY <1>1, <1>5, <1>7, <1>9, <1>10, <1>11

\* A call that waits, of a session.
LEMMA UseWait ==
  ASSUME Here, Waiting, loan \in Use
  PROVE  /\ Below(stack) = Tail(stack) /\ Read(stack) = Top.at
         /\ Below(Tail(stack)) = Tail(stack) /\ Read(Tail(stack)) = "no"
         /\ loan \in {"held", "tx", "single"} /\ Conn(b) /\ NoReset(b.handlers)
         /\ General(b, Top.at, srv) /\ (net = "up" => Waited(b, Top.at)) /\ Used(b, Tail(stack), Top.at, loan)
         /\ \A d, x : Conn(d) /\ Tame(b, d) => FramesOK(d, Tail(stack), x)
<1>1. PICK S : stack \in Seq(S)
  BY StackSeq DEF Here
<1>2. Top.at \in {"receive", "receiveAll"} /\ stack # << >>
  BY DEF Waiting, Idle
<1>3. Top = stack[1] /\ Tail(stack) \in Seq(S)
  BY <1>1, <1>2, Popped DEF Top
<1>4. Below(stack) = Tail(stack) /\ Read(stack) = Top.at
  BY <1>2, <1>3 DEF Below, Read, Waits
<1>5. Conforms(b, Tail(stack), Top.at, loan, srv, net)
  BY <1>4 DEF Here, StateInv, Use
<1>6. General(b, Top.at, srv) /\ (net = "up" => Waited(b, Top.at)) /\ Used(b, Tail(stack), Top.at, loan)
  BY <1>5 DEF Conforms
<1>7. Conn(b) /\ NoReset(b.handlers)
  BY UseNoReset DEF Here, BoltInv, Use
<1>8. \A d, x : Conn(d) /\ Tame(b, d) => FramesOK(d, Tail(stack), x)
  <2> SUFFICES ASSUME NEW d, NEW x, Conn(d), Tame(b, d) PROVE FramesOK(d, Tail(stack), x)
    OBVIOUS
  <2>1. FramesOK(b, Tail(stack), Top.at) /\ Top.at # "no"
    BY <1>2, <1>6 DEF Used
  <2> QED
    BY <1>3, <1>7, <2>1, FramesTame
<1>9. Below(Tail(stack)) = Tail(stack) /\ Read(Tail(stack)) = "no"
  <2>1. FramesOK(b, Tail(stack), Top.at) /\ Top.at # "no"
    BY <1>2, <1>6 DEF Used
  <2>2. Tame(b, b)
    BY <1>7, TameSame
  <2> QED
    BY <1>3, <1>7, <2>1, <2>2, FramesTame
<1>10. loan \in {"held", "tx", "single"}
  <2>1. loan \notin {"borrowed", "announced"}
    BY <1>2, <1>6 DEF Used, JustLent
  <2>2. loan # "pipelined"
    BY <1>2, <1>6 DEF Used, Shape, Standing
  <2> QED
    BY <2>1, <2>2 DEF Use
<1> QED
  BY <1>4, <1>6, <1>7, <1>8, <1>9, <1>10

\* A read fails.
LEMMA ReceiveIoErrorGoes ==
  ASSUME Here, ReceiveIoError
  PROVE  Goes
<1> DEFINE d == OnIoError(b)
           m == Tail(stack)
<1>1. Waiting /\ net' = "down" /\ b' = d /\ stack' = m /\ srv' = srv /\ loan' = loan
  BY DEF ReceiveIoError
<1>2. Conn(b) /\ Top.at \in {"receive", "receiveAll"}
  BY <1>1 DEF Here, BoltInv, Waiting
<1>3. /\ Tame(b, d) /\ Conn(d) /\ d.err /\ d.curr = 0 /\ d.made = b.made /\ d.live = b.live
      /\ d.handlers = b.handlers /\ d.state = "dead"
  <2>1. PICK t \in BOOLEAN : t = TRUE
    OBVIOUS
  <2>2. LET x == SetError(b, t)
        IN  /\ Tame(b, x) /\ Conn(x) /\ x.err /\ x.curr = 0 /\ x.made = b.made /\ x.live = b.live
            /\ x.handlers = b.handlers /\ (t => x.state = "dead")
    BY <1>2, SetErrorTame
  <2> QED
    BY <2>1, <2>2 DEF OnIoError
<1> HIDE DEF d
<1>4. ASSUME NEW w, General(b, w, srv)
      PROVE  General(d, "no", srv)
  BY <1>2, <1>3, <1>4, GeneralTame DEF Down
<1>5. PICK w : w = "no"
  OBVIOUS
<1>6. CASE loan \in Use
  <2>1. /\ Below(m) = m /\ Read(m) = "no" /\ loan \in {"held", "tx", "single"}
        /\ General(b, Top.at, srv) /\ (\A e, x : Conn(e) /\ Tame(b, e) => FramesOK(e, m, x))
    BY <1>1, <1>6, UseWait
  <2>2. General(d, w, srv) /\ FramesOK(d, m, w) /\ Below(m) = m /\ Read(m) = w
    BY <1>3, <1>4, <1>5, <2>1
  <2> HIDE DEF m
  <2>3. StateInv'
    BY <1>1, <1>3, <2>1, <2>2, ErrorNext DEF Down
  <2> QED
    BY <1>1, <1>3, <2>3, TamePut DEF Goes
<1>7. CASE loan \notin Use
  <2>1. /\ Below(stack) = m /\ Read(stack) = Top.at /\ Below(m) = m /\ Read(m) = w
        /\ loan \in {"connecting", "returning", "lending"}
    BY <1>1, <1>5, <1>7, OutsideWait DEF Here
  <2>2. General(b, Top.at, srv) /\ (loan = "connecting" => AtConnect(b, Top.at))
        /\ ~On(m, {"success3", "record3", "reset3"})
    BY <1>7, <2>1 DEF Here, StateInv, Conforms
  <2>3. General(d, w, srv)
    BY <1>4, <1>5, <2>2
  <2> HIDE DEF m
  <2>4. loan = "connecting" => AtConnect(d, w)
    BY <1>3, <1>5, <2>2 DEF AtConnect
  <2>5. /\ loan = "returning" => AtReturn(d, m, w)
        /\ loan = "lending" => AtLend(d, m, w)
    BY <1>3, <1>5 DEF AtReturn, AtLend, Resetting, Rested
  <2>6. StateInv'
    BY <1>1, <2>1, <2>2, <2>3, <2>4, <2>5, OutsideNext
  <2> QED
    BY <1>1, <1>3, <2>6, TamePut DEF Goes
<1> QED
  BY <1>6, <1>7

\* What a response makes of the connection.
Fails(c, d) == Tame(c, d) /\ d.err /\ Down(d) /\ d.curr = 0 /\ (c.state = "dead" => d.state = "dead")
Steady(c, d) ==
  /\ Tame(c, d) /\ d.state = c.state /\ d.err = c.err /\ d.curr = c.curr
  /\ \A r \in Streams : /\ d.streams[r].attached = c.streams[r].attached
                        /\ d.streams[r].endOfBatch = c.streams[r].endOfBatch
Attaches(c, d, s) ==
  /\ Tame(c, d) /\ d.state = c.state /\ d.err = c.err /\ d.curr = (IF c.curr # 0 THEN c.curr ELSE s)
  /\ d.streams[s].attached
  /\ \A r \in Streams : /\ c.streams[r].attached => d.streams[r].attached
                        /\ d.streams[r].endOfBatch = c.streams[r].endOfBatch
Batches(c, d, s) ==
  /\ Tame(c, d) /\ d.state = c.state /\ d.err = c.err /\ d.curr = c.curr
  /\ \A r \in Streams : /\ d.streams[r].attached = c.streams[r].attached
                        /\ r # s => d.streams[r].endOfBatch = c.streams[r].endOfBatch
Closes(c, d, s) ==
  /\ Tame(c, d) /\ d.err = c.err /\ d.curr = (IF c.curr = s THEN 0 ELSE c.curr) /\ Over(d, s)
  /\ \A r \in Streams : /\ d.streams[r].attached = c.streams[r].attached
                        /\ d.streams[r].endOfBatch = c.streams[r].endOfBatch
  /\ d.state = c.state \/ (c.state = "streaming" /\ d.state = "ready")
     \/ (c.state = "streamingTx" /\ d.state = "tx")

\* FAILURE.
LEMMA FailureTame ==
  ASSUME NEW c, Conn(c), c.err => Down(c), c.state = "dead" => c.err, NEW code
  PROVE  Fails(c, OnFailure(c, code)) /\ Conn(OnFailure(c, code))
<1>1. PICK t \in BOOLEAN : t = IsFatalError(code)
  BY DEF IsFatalError
<1>2. LET d == SetError(c, t)
      IN  /\ Tame(c, d) /\ Conn(d) /\ d.err /\ d.curr = 0
          /\ t => d.state = "dead"
          /\ ~t /\ ~c.err => d.state = "failed"
          /\ ~t /\ c.err /\ Down(c) => d.state = c.state
  BY SetErrorTame
<1>3. OnFailure(c, code) = SetError(c, t)
  BY <1>1 DEF OnFailure
<1> QED
  BY <1>2, <1>3 DEF Fails, Down

\* The answer to RUN is in.
WithAnswer(c, s, qid) ==
  [c EXCEPT !.streams[s].attached = TRUE, !.streams[s].qid = qid,
            !.lastQid = IF qid > -1 THEN qid ELSE @]

\* Its effect on the stream.
LEMMA AnswerTame ==
  ASSUME NEW c, Conn(c), NEW s \in 1 .. c.made, NEW qid \in Int
  PROVE  LET d == WithAnswer(c, s, qid)
         IN  /\ Tame(c, d) /\ Conn(d) /\ SameQueue(c, d) /\ d.state = c.state /\ d.err = c.err /\ d.curr = c.curr
             /\ d.streams[s].attached
             /\ \A r \in Streams : /\ c.streams[r].attached => d.streams[r].attached
                                   /\ d.streams[r].endOfBatch = c.streams[r].endOfBatch
<1> DEFINE q == c.streams[s]
           q1 == [[q EXCEPT !.attached = TRUE] EXCEPT !.qid = qid]
           n == IF qid > -1 THEN qid ELSE c.lastQid
           d == WithAnswer(c, s, qid)
<1>1. s \in Streams /\ DOMAIN c.streams = Streams /\ StreamOK(q)
  BY StreamsAreCounted DEF Conn, Streams
<1>2. d = [c EXCEPT !.streams[s].attached = TRUE, !.streams[s].qid = qid, !.lastQid = n]
  BY DEF WithAnswer
<1> HIDE DEF n
<1>3. DOMAIN d = ConnFields /\ SameQueue(c, d) /\ d.state = c.state /\ d.err = c.err /\ d.curr = c.curr /\ d.txId = c.txId
      /\ d.streams = [[c.streams EXCEPT ![s].attached = TRUE] EXCEPT ![s].qid = qid]
  BY <1>2 DEF Conn, ConnFields, SameQueue
<1> HIDE DEF d
<1>4. d.streams = [c.streams EXCEPT ![s] = q1]
  BY <1>1, <1>3
<1>5. /\ StreamOK(q1) /\ q1.safe = q.safe /\ q1.fifo = q.fifo /\ q1.done = q.done /\ q1.given = q.given
      /\ q1.attached = TRUE /\ q1.endOfBatch = q.endOfBatch
  BY <1>1 DEF StreamOK, StreamFields
<1> HIDE DEF q1
<1>6. Tame(c, d)
  BY <1>3, <1>4, <1>5, TameOne DEF SameQueue
<1>7. DOMAIN d.streams = Streams /\ d.streams[s] = q1 /\ \A r \in Streams : r # s => d.streams[r] = c.streams[r]
  BY <1>1, <1>4
<1>8. Conn(d)
  <2>1. \A r \in Streams : StreamOK(d.streams[r])
    BY <1>5, <1>7 DEF Conn
  <2>2. c.curr \in 0 .. c.made /\ c.state \in States /\ c.err \in BOOLEAN /\ c.txId \in BOOLEAN
    BY DEF Conn
  <2> QED
    BY <1>3, <1>7, <2>1, <2>2, SameConn
<1>9. \A r \in Streams : /\ c.streams[r].attached => d.streams[r].attached
                         /\ d.streams[r].endOfBatch = c.streams[r].endOfBatch
  BY <1>5, <1>7
<1>10. d.streams[s].attached
  BY <1>5, <1>7
<1> QED
  BY <1>3, <1>6, <1>8, <1>9, <1>10 DEF d

\* The stream becomes the current one, if there is none.
LEMMA AttachTame ==
  ASSUME NEW c, Conn(c), NEW s \in 1 .. c.made, s >= c.live
  PROVE  LET d == Attach(c, s)
         IN  /\ Tame(c, d) /\ Conn(d) /\ SameQueue(c, d) /\ d.state = c.state /\ d.err = c.err
             /\ d.curr = (IF c.curr # 0 THEN c.curr ELSE s)
             /\ \A r \in Streams : /\ d.streams[r].attached = c.streams[r].attached
                                   /\ d.streams[r].endOfBatch = c.streams[r].endOfBatch
<1> DEFINE d == Attach(c, s)
           q == c.streams[s]
           q1 == [q EXCEPT !.safe = TRUE]
<1>1. s \in Streams /\ DOMAIN c.streams = Streams /\ StreamOK(q) /\ s \in 0 .. c.made
  BY StreamsAreCounted DEF Conn, Streams
<1>2. Conn(d) /\ SameQueue(c, d) /\ d.err = c.err /\ d.state = c.state
  BY <1>1, AttachKeeps
<1>3. CASE c.curr # 0
  <2>1. d = c
    BY <1>3 DEF Attach, NoStream
  <2> QED
    BY <1>2, <1>3, <2>1, TameSame
<1>4. CASE c.curr = 0
  <2>1. d.curr = s /\ d.streams = [c.streams EXCEPT ![s] = q1]
    BY <1>4 DEF Attach, NoStream, Conn, ConnFields
  <2>2. q1.safe = TRUE /\ q1.fifo = q.fifo /\ q1.done = q.done /\ q1.given = q.given /\ q1.attached = q.attached
        /\ q1.endOfBatch = q.endOfBatch
    BY <1>1 DEF StreamOK, StreamFields
  <2> HIDE DEF q1, d
  <2>3. Tame(c, d)
    BY <1>2, <2>1, <2>2, TameOne DEF SameQueue
  <2>4. \A r \in Streams : /\ d.streams[r].attached = c.streams[r].attached
                           /\ d.streams[r].endOfBatch = c.streams[r].endOfBatch
    BY <1>1, <2>1, <2>2
  <2> QED
    BY <1>2, <1>4, <2>1, <2>3, <2>4 DEF d
<1> QED
  BY <1>3, <1>4

\* RUN succeeds.
LEMMA RunAnswered ==
  ASSUME NEW c, Conn(c), NEW s \in 1 .. c.made, s >= c.live, NEW answer, answer.k = "success", answer.qid \in Int
  PROVE  Attaches(c, RunResponseHandler(c, s, answer), s)
<1> DEFINE e == WithAnswer(c, s, answer.qid)
           d == Attach(e, s)
<1>1. RunResponseHandler(c, s, answer) = d
  BY DEF RunResponseHandler, ExpectedSuccessHandler, WithAnswer
<1>2. /\ Tame(c, e) /\ Conn(e) /\ SameQueue(c, e) /\ e.state = c.state /\ e.err = c.err /\ e.curr = c.curr
      /\ e.streams[s].attached
      /\ \A r \in Streams : /\ c.streams[r].attached => e.streams[r].attached
                            /\ e.streams[r].endOfBatch = c.streams[r].endOfBatch
  BY AnswerTame
<1> HIDE DEF e
<1>3. s \in 1 .. e.made /\ s >= e.live /\ s \in Streams
  BY <1>2, StreamsAreCounted DEF SameQueue, Streams, Conn
<1>4. /\ Tame(e, d) /\ Conn(d) /\ SameQueue(e, d) /\ d.state = e.state /\ d.err = e.err
      /\ d.curr = (IF e.curr # 0 THEN e.curr ELSE s)
      /\ \A r \in Streams : /\ d.streams[r].attached = e.streams[r].attached
                            /\ d.streams[r].endOfBatch = e.streams[r].endOfBatch
  BY <1>2, <1>3, AttachTame
<1> HIDE DEF d
<1>5. Tame(c, d)
  BY <1>2, <1>4, TameTrans
<1> QED
  BY <1>1, <1>2, <1>3, <1>4, <1>5 DEF Attaches

\* Nothing changes.
LEMMA SteadySelf ==
  ASSUME NEW c, Conn(c)
  PROVE  Steady(c, c)
  BY TameSame DEF Steady

\* The records of a result that is discarded go.
Emptied(c, s) == [c EXCEPT !.streams[s].fifo = IF c.streams[s].discarding THEN << >> ELSE @]

\* The answers to PULL and DISCARD.
LEMMA StreamAnswered ==
  ASSUME NEW c, Conn(c), c.err => Down(c), c.state = "dead" => c.err,
         NEW h \in Handlers, h.s \in 1 .. c.made, NEW answer, h.s >= c.live \/ answer.k = "ignored",
         answer.k \in {"success", "failure", "ignored", "record"}, answer.k = "success" => answer.more \in BOOLEAN
  PROVE  LET d == StreamResponseHandler(c, h, answer)
             s == h.s
         IN  /\ answer.k = "record" /\ h.on = "pull" => Steady(c, d)
             /\ answer.k = "ignored" => Closes(c, d, s)
             /\ answer.k = "success" /\ answer.more => Batches(c, d, s)
             /\ answer.k = "success" /\ ~answer.more => Closes(c, d, s)
             /\ answer.k = "failure" => Fails(c, d)
<1> DEFINE s == h.s
           d == StreamResponseHandler(c, h, answer)
           x == IF c.streams[s].discarding THEN << >> ELSE c.streams[s].fifo
           e == Emptied(c, s)
<1>1. s \in Streams /\ s \in 0 .. c.made /\ s # 0
  BY StreamsAreCounted DEF Streams, Conn
<1>2. e = WithFifo(c, s, x)
  BY DEF WithFifo, Emptied
<1>3. CASE answer.k = "record" /\ h.on = "pull"
  <2> DEFINE f == IF c.streams[s].discarding THEN << >> ELSE Append(c.streams[s].fifo, answer.record)
             g == WithFifo(c, s, f)
             hs == <<h>> \o c.handlers
  <2>1. d = [c EXCEPT !.streams[s].fifo = f, !.handlers = hs]
    BY <1>3 DEF StreamResponseHandler
  <2> HIDE DEF f
  <2>2. /\ Tame(c, g) /\ Conn(g) /\ SameQueue(c, g) /\ g.state = c.state /\ g.err = c.err
        /\ g.curr = c.curr
        /\ \A r \in Streams : /\ g.streams[r].attached = c.streams[r].attached
                              /\ g.streams[r].endOfBatch = c.streams[r].endOfBatch
    BY <1>3, FifoTame
  <2>3. /\ d.v = g.v /\ d.live = g.live /\ d.made = g.made /\ d.streams = g.streams /\ d.curr = g.curr
        /\ d.state = g.state /\ d.err = g.err /\ d.handlers = hs
    <3> HIDE DEF hs
    <3> QED
      BY <2>1 DEF WithFifo, Conn, ConnFields
  <2> HIDE DEF g, d
  <2>4. ASSUME NEW i \in 1 .. Len(d.handlers)
        PROVE  (\E j \in 1 .. Len(c.handlers) : d.handlers[i] = c.handlers[j]) \/ NewHandler(d.handlers[i], c)
    <3>1. c.handlers \in Seq(Handlers)
      BY DEF Conn
    <3>2. Len(hs) = Len(c.handlers) + 1 /\ hs[1] = h /\ \A j \in 1 .. Len(c.handlers) : hs[j + 1] = c.handlers[j]
      BY <3>1, Pushed
    <3>3. Len(c.handlers) \in Nat
      BY <3>1, LenProperties
    <3> HIDE DEF hs
    <3>4. CASE i = 1
      BY <1>1, <1>3, <2>3, <3>2, <3>4 DEF NewHandler, OfResult
    <3>5. CASE i # 1
      <4>1. i - 1 \in 1 .. Len(c.handlers) /\ (i - 1) + 1 = i
        BY <2>3, <2>4, <3>2, <3>3, <3>5
      <4>2. hs[i] = c.handlers[i - 1]
        BY <3>2, <4>1
      <4> QED
        BY <2>3, <4>1, <4>2
    <3> QED
      BY <3>4, <3>5
  <2>5. Tame(c, d)
    BY <2>2, <2>3, <2>4 DEF Tame, TameStream, StaysPut, Over
  <2>6. Steady(c, d)
    BY <2>2, <2>3, <2>5 DEF Steady
  <2> QED
    BY <1>3, <2>6 DEF d
<1>4. CASE answer.k = "ignored"
  <2>1. PICK how \in {"sum", "err"} : how = "err"
    OBVIOUS
  <2>2. LET g == Finish(c, s, how)
        IN  /\ Tame(c, g) /\ g.curr = IF c.curr = s THEN 0 ELSE c.curr
            /\ s # 0 => Over(g, s)
            /\ g.err = c.err
            /\ \A r \in Streams : /\ g.streams[r].attached = c.streams[r].attached
                                  /\ g.streams[r].endOfBatch = c.streams[r].endOfBatch
            /\ g.state = c.state \/ (c.state = "streaming" /\ g.state = "ready")
               \/ (c.state = "streamingTx" /\ g.state = "tx")
    BY <1>1, <2>1, FinishTame
  <2>3. d = Finish(c, s, how)
    BY <1>4, <2>1 DEF StreamResponseHandler
  <2>4. Closes(c, d, s)
    <3> HIDE DEF d, s
    <3> QED
      BY <1>1, <2>2, <2>3 DEF Closes
  <2> QED
    BY <1>4, <2>4
<1>5. CASE answer.k = "success"
  <2>1. /\ Tame(c, e) /\ Conn(e) /\ SameQueue(c, e) /\ e.state = c.state /\ e.err = c.err
        /\ e.curr = c.curr
        /\ \A r \in Streams : /\ e.streams[r].attached = c.streams[r].attached
                              /\ e.streams[r].endOfBatch = c.streams[r].endOfBatch
    BY <1>2, <1>5, FifoTame
  <2>2. CASE answer.more
    <3>1. PICK t : t = TRUE
      OBVIOUS
    <3>2. d = WithBatch(e, s, t)
      BY <1>5, <2>2, <3>1 DEF StreamResponseHandler, Emptied, WithBatch
    <3> HIDE DEF e
    <3>3. LET g == WithBatch(e, s, t)
          IN  /\ Tame(e, g) /\ Conn(g) /\ g.state = e.state /\ g.err = e.err /\ g.curr = e.curr
              /\ \A r \in Streams : /\ g.streams[r].attached = e.streams[r].attached
                                    /\ g.streams[r].endOfBatch = (IF r = s THEN t ELSE e.streams[r].endOfBatch)
      BY <2>1, BatchTame
    <3> HIDE DEF d, s
    <3>4. Tame(c, d)
      BY <2>1, <3>2, <3>3, TameTrans
    <3>5. Batches(c, d, s)
      BY <2>1, <3>2, <3>3, <3>4 DEF Batches
    <3> QED
      BY <1>5, <2>2, <3>5 DEF s, d
  <2>3. CASE ~answer.more
    <3>1. PICK how \in {"sum", "err"} : how = "sum"
      OBVIOUS
    <3>2. d = Finish(e, s, how)
      BY <1>5, <2>3, <3>1 DEF StreamResponseHandler, Emptied
    <3>3. s \in 0 .. e.made /\ s >= e.live
      BY <1>1, <1>5, <2>1 DEF SameQueue
    <3> HIDE DEF e
    <3>4. LET g == Finish(e, s, how)
          IN  /\ Tame(e, g) /\ Conn(g) /\ g.curr = IF e.curr = s THEN 0 ELSE e.curr
              /\ s # 0 => Over(g, s)
              /\ g.err = e.err
              /\ \A r \in Streams : /\ g.streams[r].attached = e.streams[r].attached
                                    /\ g.streams[r].endOfBatch = e.streams[r].endOfBatch
              /\ g.state = e.state \/ (e.state = "streaming" /\ g.state = "ready")
                 \/ (e.state = "streamingTx" /\ g.state = "tx")
      BY <2>1, <3>1, <3>3, FinishTame
    <3> HIDE DEF d, s
    <3>5. Tame(c, d)
      BY <2>1, <3>2, <3>4, TameTrans
    <3>6. Closes(c, d, s)
      BY <1>1, <2>1, <3>2, <3>4, <3>5 DEF Closes
    <3> QED
      BY <1>5, <2>3, <3>6 DEF s, d
  <2> QED
    BY <1>5, <2>2, <2>3
<1>6. CASE answer.k = "failure"
  <2> DEFINE g == [c EXCEPT !.streams[s].done = "err"]
             q == c.streams[s]
             q1 == [q EXCEPT !.done = "err"]
  <2>1. d = OnFailure(g, answer.code)
    BY <1>6 DEF StreamResponseHandler
  <2>2. PICK how \in {"no", "sum", "err"} : how = "err"
    OBVIOUS
  <2>3. Conn(g) /\ SameQueue(c, g) /\ g.err = c.err /\ g.state = c.state /\ g.curr = c.curr
    <3>1. LET y == [c EXCEPT !.streams[s].done = how]
          IN  Conn(y) /\ SameQueue(c, y) /\ y.err = c.err /\ y.state = c.state /\ y.curr = c.curr
      BY DoneSame
    <3> QED
      BY <2>2, <3>1
  <2>4. g.streams = [c.streams EXCEPT ![s] = q1]
    BY DEF Conn, ConnFields
  <2>5. q1.safe = q.safe /\ q1.fifo = q.fifo /\ q1.done = "err" /\ q1.given = q.given
    <3>1. StreamOK(q)
      BY <1>1 DEF Conn
    <3> QED
      BY <3>1 DEF StreamOK, StreamFields
  <2> HIDE DEF g, q1
  <2>6. Tame(c, g)
    BY <2>3, <2>4, <2>5, TameOne DEF SameQueue
  <2>7. Fails(g, d) /\ Conn(d)
    <3>1. (g.err => Down(g)) /\ (g.state = "dead" => g.err)
      BY <2>3 DEF Down
    <3> QED
      BY <2>1, <2>3, <3>1, FailureTame
  <2> HIDE DEF d
  <2>8. Tame(c, d)
    BY <2>3, <2>6, <2>7, TameTrans DEF Fails
  <2>9. Fails(c, d)
    BY <2>3, <2>7, <2>8 DEF Fails
  <2> QED
    BY <1>6, <2>9 DEF d
<1> QED
  BY <1>3, <1>4, <1>5, <1>6

\* The connection without the handler at the front of the queue.
Unqueued(a) == [[b EXCEPT !.wire = a.wire] EXCEPT !.handlers = Tail(@)]

\* It differs from the connection in the queue only.
LEMMA UnqueuedSame ==
  ASSUME Conn(b), b.handlers # << >>, NEW a, a.wire \in Seq(Requests)
  PROVE  LET c == Unqueued(a)
         IN  /\ Conn(c) /\ Tame(b, c) /\ c.v = b.v /\ c.live = b.live /\ c.made = b.made /\ c.streams = b.streams
             /\ c.state = b.state /\ c.err = b.err /\ c.curr = b.curr /\ c.out = b.out /\ c.wire = a.wire
             /\ c.handlers = Tail(b.handlers)
<1> DEFINE c == Unqueued(a)
           t == Tail(b.handlers)
<1>1. /\ DOMAIN c = ConnFields /\ c.v = b.v /\ c.live = b.live /\ c.made = b.made /\ c.streams = b.streams
      /\ c.state = b.state /\ c.err = b.err /\ c.curr = b.curr /\ c.out = b.out /\ c.wire = a.wire
      /\ c.txId = b.txId /\ c.handlers = t
  BY DEF Unqueued, Conn, ConnFields
<1>2. b.handlers \in Seq(Handlers)
  BY DEF Conn
<1>3. /\ t \in Seq(Handlers)
      /\ \A i \in 1 .. Len(t) : t[i] = b.handlers[i + 1] /\ i + 1 \in 2 .. Len(b.handlers)
  BY <1>2, Popped
<1> HIDE DEF c, t
<1>4. Conn(c)
  BY <1>1, <1>3 DEF Conn
<1>5. \A i \in 1 .. Len(c.handlers) : \E j \in 1 .. Len(b.handlers) : c.handlers[i] = b.handlers[j]
  <2> SUFFICES ASSUME NEW i \in 1 .. Len(c.handlers)
               PROVE  \E j \in 1 .. Len(b.handlers) : c.handlers[i] = b.handlers[j]
    OBVIOUS
  <2>1. i + 1 \in 1 .. Len(b.handlers) /\ c.handlers[i] = b.handlers[i + 1]
    BY <1>1, <1>3
  <2> QED
    BY <2>1
<1>6. b.made \in Int
  BY DEF Conn
<1>7. Tame(b, c)
  BY <1>1, <1>5, <1>6 DEF Tame, TameStream, StaysPut, Over
<1> QED
  BY <1>1, <1>4, <1>7 DEF c, t

\* What a response makes of the connection does not depend on the queue.
LEMMA OutcomeOf ==
  ASSUME NEW c, NEW e, NEW d, Conn(c), Conn(e), Conn(d), Tame(c, e), e.streams = c.streams,
         e.state = c.state, e.err = c.err, e.curr = c.curr
  PROVE  /\ Fails(e, d) => Fails(c, d)
         /\ Steady(e, d) => Steady(c, d)
         /\ \A s : Attaches(e, d, s) => Attaches(c, d, s)
         /\ \A s : Batches(e, d, s) => Batches(c, d, s)
         /\ \A s : Closes(e, d, s) => Closes(c, d, s)
<1>1. Tame(e, d) => Tame(c, d)
  BY TameTrans
<1> QED
  BY <1>1 DEF Fails, Steady, Attaches, Batches, Closes

\* A response in the hands of its handler.
LEMMA HandleTame ==
  ASSUME NEW c, Conn(c), c.err => Down(c), c.state = "dead" => c.err, NEW h \in Handlers, h.s <= c.made,
         h.on \in OfResult <=> h.s # 0, h.on # "reset", NEW answer,
         answer.k \in {"success", "failure", "ignored", "record"},
         answer.k = "success" => answer.more \in BOOLEAN /\ answer.qid \in Int,
         h.s # 0 /\ h.s < c.live => answer.k = "ignored"
  PROVE  LET d == Handle(c, h, answer)
         IN  /\ answer.k = "failure" => Fails(c, d)
             /\ answer.k = "record" => Steady(c, d)
             /\ answer.k = "ignored" => Steady(c, d) \/ Closes(c, d, h.s)
             /\ answer.k = "success" /\ h.s = 0 => Steady(c, d)
             /\ answer.k = "success" /\ h.on = "run" => Attaches(c, d, h.s)
             /\ answer.k = "success" /\ h.on \in {"pull", "discard"} =>
                  IF answer.more THEN Batches(c, d, h.s) ELSE Closes(c, d, h.s)
<1> DEFINE d == Handle(c, h, answer)
<1>1. h.s \in Int /\ c.live \in Int /\ c.made \in Int /\ h.s >= 0
  BY StreamsAreCounted DEF Conn, Handlers
<1>2. h.s # 0 => h.s \in 1 .. c.made /\ (h.s >= c.live \/ answer.k = "ignored")
  BY <1>1
<1>3. Steady(c, c)
  BY SteadySelf
<1>4. CASE Unexpected(h, answer)
  <2>1. d = c /\ answer.k = "record"
    BY <1>4 DEF Handle, Unexpected
  <2> QED
    BY <1>3, <2>1
<1>5. CASE ~Unexpected(h, answer) /\ h.on = "run"
  <2>1. d = RunResponseHandler(c, h.s, answer) /\ answer.k # "record" /\ h.s # 0
    BY <1>5 DEF Handle, Unexpected, OfResult
  <2>2. CASE answer.k = "failure"
    <3>1. d = OnFailure(c, answer.code)
      BY <2>1, <2>2 DEF RunResponseHandler, ExpectedSuccessHandler
    <3>2. Fails(c, d)
      BY <3>1, FailureTame
    <3> QED
      BY <2>2, <3>2
  <2>3. CASE answer.k = "ignored"
    <3>1. d = c
      BY <2>1, <2>3 DEF RunResponseHandler, ExpectedSuccessHandler
    <3> QED
      BY <1>3, <2>3, <3>1
  <2>4. CASE answer.k = "success"
    <3>1. Attaches(c, d, h.s)
      <4>1. h.s \in 1 .. c.made /\ h.s >= c.live
        BY <1>2, <2>1, <2>4
      <4> QED
        BY <2>1, <2>4, <4>1, RunAnswered
    <3> QED
      BY <1>5, <2>1, <2>4, <3>1
  <2> QED
    BY <2>1, <2>2, <2>3, <2>4
<1>6. CASE ~Unexpected(h, answer) /\ h.on \in {"pull", "discard"}
  <2>1. d = StreamResponseHandler(c, h, answer) /\ h.s # 0 /\ (answer.k = "record" => h.on = "pull")
    BY <1>6 DEF Handle, Unexpected, OfResult
  <2>2. LET g == StreamResponseHandler(c, h, answer)
            s == h.s
        IN  /\ answer.k = "record" /\ h.on = "pull" => Steady(c, g)
            /\ answer.k = "ignored" => Closes(c, g, s)
            /\ answer.k = "success" /\ answer.more => Batches(c, g, s)
            /\ answer.k = "success" /\ ~answer.more => Closes(c, g, s)
            /\ answer.k = "failure" => Fails(c, g)
    BY <1>2, <2>1, StreamAnswered
  <2> HIDE DEF d
  <2> QED
    BY <1>6, <2>1, <2>2 DEF d
<1>7. CASE ~Unexpected(h, answer) /\ h.on \notin {"run", "pull", "discard", "reset"}
  <2>1. d = ExpectedSuccessHandler(c, h, answer, c) /\ answer.k # "record"
    BY <1>7 DEF Handle, Unexpected
  <2>2. CASE answer.k = "failure"
    <3>1. d = OnFailure(c, answer.code)
      BY <2>1, <2>2 DEF ExpectedSuccessHandler
    <3>2. Fails(c, d)
      BY <3>1, FailureTame
    <3> QED
      BY <2>2, <3>2
  <2>3. CASE answer.k # "failure"
    <3>1. d = c
      BY <2>1, <2>3 DEF ExpectedSuccessHandler
    <3> QED
      BY <1>3, <1>7, <2>1, <2>3, <3>1
  <2> QED
    BY <2>2, <2>3
<1> QED
  BY <1>4, <1>5, <1>6, <1>7

\* What the state of the server says about its answers.
LEMMA AnswersSaid ==
  ASSUME Conn(b), Server, b.wire # << >>, NEW a \in Answers
  PROVE  /\ srv.st = "failed" /\ Head(b.wire).m # "reset" => a.answer.k = "ignored"
         /\ a.answer.k = "ignored" => srv.st = "failed" /\ a.srv = srv
         /\ a.answer.k = "failure" => a.srv.st = "failed"
         /\ a.answer.k \in {"success", "record"} => a.srv.st # "failed"
         /\ a.answer.k = "success" /\ a.answer.more => Head(b.wire).m = "pull"
<1> DEFINE r == Head(b.wire)
           rest == Tail(b.wire)
           failures == {[answer |-> [k |-> "failure", code |-> code],
                      srv |-> [srv EXCEPT !.st = "failed", !.open = {}, !.byQid = << >>,
                                          !.refused = IF Allowed(r) THEN @ ELSE @ \cup {<<r.m, srv.st>>}],
                      wire |-> rest] : code \in Codes}
           qid == IF r.m = "run" /\ srv.st = "tx" /\ b.v.major > 3 THEN Len(srv.byQid) ELSE -1
           ignored == [answer |-> [k |-> "ignored"], srv |-> srv, wire |-> rest]
           done == [answer |-> [Success EXCEPT !.qid = qid], srv |-> Served(r), wire |-> rest]
           alive == ~(srv.st = "failed" /\ r.m # "reset")
<1>1. r \in Requests /\ ServerOK(srv)
  BY HeadTailProperties DEF Conn, Server
<1>2. \/ a = ignored /\ ~alive
      \/ a \in failures /\ alive
      \/ a \in PullAnswers(r, rest) /\ r.m = "pull" /\ alive
      \/ a = done /\ alive
  BY DEF Answers
<1> HIDE DEF r, qid, rest
<1>3. CASE a = ignored /\ ~alive
  <2>1. a.answer.k = "ignored" /\ a.srv = srv
    BY <1>3
  <2> QED
    BY <1>3, <2>1
<1>4. CASE a \in failures /\ alive
  <2> DEFINE x == IF Allowed(r) THEN srv.refused ELSE srv.refused \cup {<<r.m, srv.st>>}
             s2 == [srv EXCEPT !.st = "failed", !.open = {}, !.byQid = << >>, !.refused = x]
  <2>1. PICK code \in Codes : a = [answer |-> [k |-> "failure", code |-> code], srv |-> s2, wire |-> rest]
    BY <1>4
  <2> HIDE DEF x
  <2>2. s2.st = "failed"
    BY <1>1 DEF ServerOK
  <2>3. a.answer.k = "failure" /\ a.srv = s2
    BY <2>1
  <2> QED
    BY <1>4, <2>2, <2>3 DEF r
<1>5. CASE a \in PullAnswers(r, rest) /\ r.m = "pull" /\ alive
  <2> DEFINE s == Target(r)
             one == [answer |-> [k |-> "record", record |-> <<s, srv.sent[s] + 1>>],
                   srv |-> [srv EXCEPT !.sent[s] = @ + 1],
                   wire |-> <<[r EXCEPT !.got = @ + 1]>> \o rest]
             batchEnd == [answer |-> [Success EXCEPT !.more = TRUE], srv |-> srv, wire |-> rest]
             end == [answer |-> Success, srv |-> Closed(srv, s), wire |-> rest]
  <2>0. srv.st # "failed"
    BY <1>5
  <2>1. a = one \/ a = batchEnd \/ a = end
    BY <1>5 DEF PullAnswers
  <2> HIDE DEF s
  <2>2. CASE a = one
    <3>1. a.answer.k = "record" /\ a.srv.st = srv.st
      BY <1>1, <2>2 DEF ServerOK
    <3> QED
      BY <1>5, <2>0, <3>1 DEF r
  <2>3. CASE a = batchEnd
    <3>1. a.answer.k = "success" /\ a.srv = srv
      BY <2>3 DEF Success
    <3> QED
      BY <1>5, <2>0, <3>1 DEF r
  <2>4. CASE a = end
    <3>1. a.answer.k = "success" /\ a.srv = Closed(srv, s)
      BY <2>4 DEF Success
    <3>2. a.srv.st # "failed"
      BY <1>1, <2>0, <3>1 DEF Closed, ServerOK
    <3> QED
      BY <1>5, <2>0, <3>1, <3>2 DEF r
  <2> QED
    BY <2>1, <2>2, <2>3, <2>4
<1>6. CASE a = done /\ alive
  <2>1. a.answer = [Success EXCEPT !.qid = qid] /\ a.srv = Served(r)
    BY <1>6
  <2>2. a.answer.k = "success" /\ ~a.answer.more
    BY <2>1 DEF Success
  <2>3. Served(r).st # "failed"
    <3>1. \A x : srv.st # "failed" => Closed(srv, x).st # "failed"
      BY <1>1 DEF Closed, ServerOK
    <3>2. r.m # "reset" => srv.st # "failed"
      BY <1>6
    <3> QED
      BY <1>1, <3>1, <3>2 DEF Served, ServerOK
  <2> QED
    BY <2>1, <2>2, <2>3, <1>6 DEF r
<1> QED
  BY <1>2, <1>3, <1>4, <1>5, <1>6

\* What an answer makes of the connection, by the handler that it is given to.
Outcome(c, d, h, answer) ==
  /\ answer.k = "failure" => Fails(c, d)
  /\ answer.k = "record" => Steady(c, d)
  /\ answer.k = "ignored" => Steady(c, d) \/ Closes(c, d, h.s)
  /\ answer.k = "success" /\ h.s = 0 => Steady(c, d)
  /\ answer.k = "success" /\ h.on = "run" => Attaches(c, d, h.s)
  /\ answer.k = "success" /\ h.on \in {"pull", "discard"} =>
       IF answer.more THEN Batches(c, d, h.s) ELSE Closes(c, d, h.s)

\* The handler in front, and its request.
LEMMA RequestOf ==
  ASSUME BoltInv, b.v.major > 3, loan # "gone", b.wire # << >>, b.state # "dead"
  PROVE  /\ b.handlers # << >> /\ Head(b.wire).m = Head(b.handlers).on
<1>1. Matches(b.handlers, b.wire \o b.out)
  BY AliveMatches
<1>2. b.wire \in Seq(Requests) /\ b.out \in Seq(Requests) /\ b.handlers \in Seq(Handlers)
  BY DEF BoltInv, Conn
<1>3. /\ b.wire \o b.out \in Seq(Requests) /\ b.wire \o b.out # << >> /\ Head(b.wire \o b.out) = Head(b.wire)
  BY <1>2, ConcatHeadTail
<1> QED
  BY <1>1, <1>2, <1>3, MatchTail

\* A call that reads has the handler of what it reads.
LEMMA HandlerThere ==
  ASSUME BoltInv, b.v.major > 3, loan # "gone", b.wire # << >>, NEW w, w # "no", Waited(b, w)
  PROVE  b.handlers # << >>
<1>1. CASE b.state = "dead"
  BY <1>1 DEF Waited
<1>2. CASE b.state # "dead"
  BY <1>2, RequestOf
<1> QED
  BY <1>1, <1>2

\* An old handler gets nothing but IGNORED.
LEMMA OldIgnored ==
  ASSUME BoltInv, b.v.major > 3, loan # "gone", b.wire # << >>, NEW a \in Answers, NEW w, w # "no",
         General(b, w, srv), NoReset(b.handlers), b.handlers # << >>,
         Head(b.handlers).s # 0, Head(b.handlers).s < b.live
  PROVE  a.answer.k = "ignored"
<1>1. b.handlers \in Seq(Handlers) /\ Conn(b) /\ Server
  BY DEF BoltInv, Conn
<1>2. Len(b.handlers) \in Nat \ {0} /\ Head(b.handlers) = b.handlers[1]
  BY <1>1, Popped
<1>3. b.live > b.made /\ (b.state = "dead" \/ srv.st = "failed")
  BY <1>2 DEF General, OldOnes
<1>4. b.state # "dead"
  <2>1. b.live \in Int /\ b.made \in Int
    BY <1>1 DEF Conn
  <2> QED
    BY <1>3, <2>1 DEF General
<1>5. Head(b.wire).m # "reset"
  BY <1>2, <1>4, RequestOf DEF NoReset
<1> QED
  BY <1>1, <1>3, <1>4, <1>5, AnswersSaid

\* What Receive makes of the connection, when no RESET is pending.
LEMMA ReceivedMoves ==
  ASSUME BoltInv, b.v.major > 3, loan # "gone", b.wire # << >>, NEW a \in Answers, NEW w, w # "no",
         General(b, w, srv), Waited(b, w), NoReset(b.handlers), b.state = "dead" => b.err
  PROVE  LET d == Received(a)
             h == Head(b.handlers)
         IN  /\ b.handlers # << >> /\ Conn(d) /\ d.v = b.v /\ d.live = b.live /\ d.made = b.made /\ d.out = b.out
             /\ d.handlers = IF a.answer.k = "record" /\ h.on = "pull" THEN b.handlers ELSE Tail(b.handlers)
             /\ Outcome(b, d, h, a.answer)
             /\ Sent(b) => Sent(d)
<1> DEFINE d == Received(a)
           h == Head(b.handlers)
           e == Unqueued(a)
           t == Tail(b.handlers)
<1>1. b.handlers # << >> /\ Conn(b) /\ Server
  BY HandlerThere DEF BoltInv
<1>2. AnswerTo(Head(b.wire), a) /\ WireAfter(b.wire, a) /\ ServerOK(a.srv)
  BY <1>1, AnswersOK
<1>3. b.handlers \in Seq(Handlers) /\ b.wire \in Seq(Requests)
  BY <1>1 DEF Conn
<1>4. h \in Handlers /\ h = b.handlers[1] /\ t \in Seq(Handlers) /\ Len(t) = Len(b.handlers) - 1 /\ <<h>> \o t = b.handlers
      /\ Len(b.handlers) \in Nat \ {0}
  BY <1>1, <1>3, Popped, HeadTailProperties, HeadAndTail
<1>5. /\ a.wire \in Seq(Requests)
      /\ Len(a.wire) = IF a.answer.k = "record" THEN Len(b.wire) ELSE Len(b.wire) - 1
      /\ Len(b.wire) \in Nat
  <2>1. Head(b.wire) \in Requests /\ Tail(b.wire) \in Seq(Requests) /\ Len(Tail(b.wire)) = Len(b.wire) - 1
        /\ Len(b.wire) \in Nat
    BY <1>3, HeadTailProperties, LenProperties
  <2>2. CASE a.answer.k = "record"
    <3> DEFINE r == [Head(b.wire) EXCEPT !.got = @ + 1]
    <3>1. r \in Requests
      <4>1. Head(b.wire).got + 1 \in Nat
        BY <2>1 DEF Requests
      <4> QED
        BY <2>1, <4>1 DEF Requests
    <3>2. a.wire = <<r>> \o Tail(b.wire)
      BY <1>2, <2>2 DEF WireAfter
    <3> HIDE DEF r
    <3>3. <<r>> \in Seq(Requests) /\ Len(<<r>>) = 1
      BY <3>1
    <3>4. a.wire \in Seq(Requests) /\ Len(a.wire) = 1 + Len(Tail(b.wire))
      BY <2>1, <3>2, <3>3, ConcatProperties
    <3> QED
      BY <2>1, <2>2, <3>4
  <2>3. CASE a.answer.k # "record"
    BY <1>2, <2>1, <2>3 DEF WireAfter
  <2> QED
    BY <2>2, <2>3
<1>6. /\ Conn(e) /\ Tame(b, e) /\ e.v = b.v /\ e.live = b.live /\ e.made = b.made /\ e.streams = b.streams
      /\ e.state = b.state /\ e.err = b.err /\ e.curr = b.curr /\ e.out = b.out /\ e.wire = a.wire
      /\ e.handlers = t
  BY <1>1, <1>5, UnqueuedSame
<1>7. d = Handle(e, h, a.answer)
  BY <1>1 DEF Received, Unqueued
<1>8. /\ h.s <= e.made /\ (h.on \in OfResult <=> h.s # 0) /\ h.on # "reset"
      /\ h.s # 0 /\ h.s < e.live => a.answer.k = "ignored"
  <2>1. h.s <= b.made /\ (h.on \in OfResult <=> h.s # 0) /\ h.on # "reset"
    BY <1>4 DEF BoltInv, Queue, General, Kinds, NoReset
  <2> QED
    BY <1>1, <1>6, <2>1, OldIgnored
<1>9. (e.err => Down(e)) /\ (e.state = "dead" => e.err)
  BY <1>6 DEF General, Down
<1>10. /\ a.answer.k \in {"success", "failure", "ignored", "record"}
       /\ a.answer.k = "success" => a.answer.more \in BOOLEAN /\ a.answer.qid \in Int
  BY <1>2 DEF AnswerTo
<1> HIDE DEF e, h, t
<1>11. LET x == Handle(e, h, a.answer)
       IN  /\ Conn(x) /\ x.v = e.v /\ x.live = e.live /\ x.made = e.made
           /\ x.wire = e.wire /\ x.out = e.out
           /\ x.handlers = IF a.answer.k = "record" /\ h.on = "pull" THEN <<h>> \o e.handlers ELSE e.handlers
  BY <1>4, <1>6, <1>8, <1>10, HandleOK
<1>12. PICK answer : answer = a.answer
  OBVIOUS
<1>13. LET x == Handle(e, h, answer)
       IN  /\ answer.k = "failure" => Fails(e, x)
           /\ answer.k = "record" => Steady(e, x)
           /\ answer.k = "ignored" => Steady(e, x) \/ Closes(e, x, h.s)
           /\ answer.k = "success" /\ h.s = 0 => Steady(e, x)
           /\ answer.k = "success" /\ h.on = "run" => Attaches(e, x, h.s)
           /\ answer.k = "success" /\ h.on \in {"pull", "discard"} =>
                  IF answer.more THEN Batches(e, x, h.s) ELSE Closes(e, x, h.s)
  BY <1>4, <1>6, <1>8, <1>9, <1>10, <1>12, HandleTame
<1> HIDE DEF d
<1>14. /\ Conn(d) /\ d.v = b.v /\ d.live = b.live /\ d.made = b.made /\ d.wire = a.wire /\ d.out = b.out
       /\ d.handlers = IF a.answer.k = "record" /\ h.on = "pull" THEN b.handlers ELSE t
  BY <1>4, <1>6, <1>7, <1>11
<1>15. /\ Fails(e, d) => Fails(b, d)
       /\ Steady(e, d) => Steady(b, d)
       /\ \A s : Attaches(e, d, s) => Attaches(b, d, s)
       /\ \A s : Batches(e, d, s) => Batches(b, d, s)
       /\ \A s : Closes(e, d, s) => Closes(b, d, s)
  BY <1>1, <1>6, <1>14, OutcomeOf
<1>16. Outcome(b, d, h, answer)
  BY <1>7, <1>12, <1>13, <1>15 DEF Outcome
<1>17. Sent(b) => Sent(d)
  BY <1>4, <1>5, <1>14, LenProperties DEF Sent
<1> QED
  BY <1>1, <1>12, <1>14, <1>16, <1>17 DEF d, h, t

\* An outcome, whatever it is.
LEMMA OutcomeTame ==
  ASSUME NEW c, NEW d, NEW h, NEW answer, Outcome(c, d, h, answer), h.s = 0 \/ h.on \in OfResult,
         answer.k \in {"success", "failure", "ignored", "record"}
  PROVE  /\ Tame(c, d)
         /\ answer.k = "failure" => Fails(c, d)
         /\ answer.k # "failure" =>
              /\ d.err = c.err
              /\ d.state = c.state \/ (c.state = "streaming" /\ d.state = "ready")
                 \/ (c.state = "streamingTx" /\ d.state = "tx")
  BY DEF Outcome, Fails, Steady, Attaches, Batches, Closes, OfResult

\* What holds at all times, when the server moves too.
LEMMA GeneralMoves ==
  ASSUME NEW c, NEW d, NEW w, NEW x, NEW sv, NEW sw, Conn(c), Conn(d), General(c, w, sv), Tame(c, d),
         d.made = c.made, d.err => Down(d), sw.st = "failed" => Down(d),
         d.state = "failed" => sw.st = "failed" \/ Plains(d.handlers),
         c.state = "dead" => d.state = "dead",
         sv.st = "failed" => sw.st = "failed" \/ d.handlers = << >> \/ c.state = "dead",
         x # "no" /\ d.state = "dead" => d.live <= d.made
  PROVE  General(d, x, sw)
<1>1. d.live = c.live /\ c.live \in Int
  BY DEF Tame, Conn
<1>2. Kinds(d)
  BY DEF Kinds, General, Tame, NewHandler
<1>3. Keyed(d)
  <2>1. \A s \in Streams : d.streams[s].safe => s >= d.live
    BY <1>1 DEF Keyed, General, Tame, TameStream
  <2>2. d.curr # 0 => d.curr >= d.live
    BY <1>1 DEF Keyed, General, Tame
  <2> QED
    BY <2>1, <2>2 DEF Keyed
<1>4. OldOnes(d, sw)
  <2> SUFFICES ASSUME NEW i \in 1 .. Len(d.handlers), d.handlers[i].s # 0, d.handlers[i].s < d.live
               PROVE  d.live > d.made /\ (d.state = "dead" \/ sw.st = "failed")
    BY DEF OldOnes
  <2>0. d.handlers[i].s \in Int
    <3>1. d.handlers \in Seq(Handlers)
      BY DEF Conn
    <3>2. d.handlers[i] \in Handlers
      BY <3>1, ElementOfSeq
    <3> QED
      BY <3>2, StreamsAreCounted DEF Handlers
  <2>1. ~NewHandler(d.handlers[i], c)
    BY <1>1, <2>0 DEF NewHandler
  <2>2. PICK j \in 1 .. Len(c.handlers) : d.handlers[i] = c.handlers[j]
    BY <2>1 DEF Tame
  <2>3. c.live > c.made /\ (c.state = "dead" \/ sv.st = "failed")
    BY <1>1, <2>2 DEF General, OldOnes
  <2>4. d.handlers # << >>
    OBVIOUS
  <2> QED
    BY <1>1, <2>3, <2>4
<1> QED
  BY <1>2, <1>3, <1>4 DEF General

\* What holds at all times, after a response.
LEMMA ReceivedGeneral ==
  ASSUME BoltInv, b.v.major > 3, loan # "gone", b.wire # << >>, NEW a \in Answers, NEW w, w # "no",
         General(b, w, srv), Waited(b, w), NoReset(b.handlers), b.state = "dead" => b.err
  PROVE  LET d == Received(a)
         IN  /\ Tame(b, d) /\ (d.err => Down(d))
             /\ \A x : (x = "no" \/ d.state # "dead" \/ b.state = "dead") => General(d, x, a.srv)
             /\ \A x : (x # "no" => d.handlers # << >> /\ a.answer.k # "failure") => Waited(d, x)
<1> DEFINE d == Received(a)
           h == Head(b.handlers)
<1>1. /\ b.handlers # << >> /\ Conn(d) /\ d.v = b.v /\ d.live = b.live /\ d.made = b.made /\ d.out = b.out
      /\ d.handlers = IF a.answer.k = "record" /\ h.on = "pull" THEN b.handlers ELSE Tail(b.handlers)
      /\ Outcome(b, d, h, a.answer)
      /\ Sent(b) => Sent(d)
  BY ReceivedMoves
<1>2. Conn(b) /\ Server /\ b.handlers \in Seq(Handlers)
  BY DEF BoltInv, Conn
<1>3. a.answer.k \in {"success", "failure", "ignored", "record"}
  BY <1>2, AnswersOK DEF AnswerTo
<1>4. /\ srv.st = "failed" /\ Head(b.wire).m # "reset" => a.answer.k = "ignored"
      /\ a.answer.k = "ignored" => srv.st = "failed" /\ a.srv = srv
      /\ a.answer.k = "failure" => a.srv.st = "failed"
      /\ a.answer.k \in {"success", "record"} => a.srv.st # "failed"
  BY <1>2, AnswersSaid
<1>5. h = b.handlers[1] /\ 1 \in 1 .. Len(b.handlers)
  BY <1>1, <1>2, Popped
<1>6. h.s = 0 \/ h.on \in OfResult
  BY <1>5 DEF General, Kinds
<1>7. b.state # "dead" => Head(b.wire).m # "reset"
  BY <1>5, RequestOf DEF NoReset
<1> HIDE DEF d, h
<1>8. PICK answer : answer = a.answer
  OBVIOUS
<1>9. /\ Tame(b, d)
      /\ answer.k = "failure" => Fails(b, d)
      /\ answer.k # "failure" =>
              /\ d.err = b.err
              /\ d.state = b.state \/ (b.state = "streaming" /\ d.state = "ready")
                 \/ (b.state = "streamingTx" /\ d.state = "tx")
  BY <1>1, <1>3, <1>6, <1>8, OutcomeTame
<1>10. d.err => Down(d)
  BY <1>9 DEF Fails, General, Down
<1>11. a.srv.st = "failed" => Down(d)
  BY <1>3, <1>4, <1>8, <1>9 DEF Fails, General, Down
<1>12. Plains(b.handlers) => Plains(d.handlers)
  <2>1. \A i \in 1 .. Len(Tail(b.handlers)) : Tail(b.handlers)[i] = b.handlers[i + 1] /\ i + 1 \in 2 .. Len(b.handlers)
    BY <1>1, <1>2, Popped
  <2>2. Len(b.handlers) \in Nat
    BY <1>2, LenProperties
  <2>3. Plains(b.handlers) => Plains(Tail(b.handlers))
    BY <2>1, <2>2 DEF Plains
  <2> QED
    BY <1>1, <2>3
<1>13. d.state = "failed" => a.srv.st = "failed" \/ Plains(d.handlers)
  <2>1. CASE answer.k = "failure"
    BY <1>4, <1>8, <2>1
  <2>2. CASE answer.k # "failure" /\ d.state = "failed"
    <3>1. b.state = "failed"
      BY <1>9, <2>2
    <3> QED
      BY <1>4, <1>7, <1>12, <3>1 DEF General
  <2> QED
    BY <2>1, <2>2
<1>14. b.state = "dead" => d.state = "dead"
  BY <1>9 DEF Fails
<1>15. srv.st = "failed" => a.srv.st = "failed" \/ d.handlers = << >> \/ b.state = "dead"
  BY <1>4, <1>7
<1>16. ASSUME NEW x, x = "no" \/ d.state # "dead" \/ b.state = "dead"
       PROVE  General(d, x, a.srv)
  <2>1. x # "no" /\ d.state = "dead" => d.live <= d.made
    BY <1>1, <1>16 DEF General
  <2> QED
    BY <1>1, <1>2, <1>9, <1>10, <1>11, <1>13, <1>14, <1>15, <2>1, GeneralMoves
<1>17. ASSUME NEW x, x # "no" => d.handlers # << >> /\ a.answer.k # "failure"
       PROVE  Waited(d, x)
  <2>1. Open(d) \subseteq Open(b)
    BY <1>1, <1>2, <1>9, OpenShrinks
  <2>2. b.state = "failed" /\ answer.k # "failure" => d.state = "failed"
    BY <1>9
  <2> QED
    BY <1>1, <1>8, <1>17, <2>1, <2>2 DEF Waited
<1> QED
  BY <1>9, <1>10, <1>16, <1>17 DEF d

\* A response to the request of the handler in front, other than FAILURE.
Answered(c, d) ==
  LET h == Head(c.handlers)
  IN  \/ Steady(c, d) /\ d.handlers = c.handlers /\ h.on = "pull"
      \/ Steady(c, d) /\ d.handlers = Tail(c.handlers) /\ h.s = 0
      \/ Attaches(c, d, h.s) /\ d.handlers = Tail(c.handlers) /\ h.on = "run"
      \/ Batches(c, d, h.s) /\ d.handlers = Tail(c.handlers) /\ h.on = "pull"
      \/ Closes(c, d, h.s) /\ d.handlers = Tail(c.handlers) /\ h.on \in {"pull", "discard"}
\* The call reads w, is given a response, and reads x after that.
Takes(c, d, w, x) ==
  /\ Conn(c) /\ Conn(d) /\ c.handlers # << >> /\ Answered(c, d) /\ d.made = c.made /\ d.out = c.out
  /\ ~Down(c) /\ Kinds(c)
  /\ w \in {"receive", "receiveAll"}
  /\ x = "no" \/ (x = "receiveAll" /\ w = "receiveAll")
  /\ x = "no" /\ w = "receiveAll" => d.handlers = << >>

\* The consequences that most places need.
LEMMA TakesSays ==
  ASSUME NEW c, NEW d, NEW w, NEW x, Takes(c, d, w, x)
  PROVE  /\ Tame(c, d) /\ d.err = c.err /\ d.v = c.v /\ d.live = c.live /\ ~Down(d) /\ (InTx(d) <=> InTx(c))
         /\ c.state = "ready" => d.state = "ready"
         /\ d.state = "streaming" => c.state = "streaming"
         /\ d.state = "ready" => c.state \in {"ready", "streaming"}
         /\ d.state = "unauthorized" => c.state = "unauthorized"
         /\ Open(d) \subseteq Open(c)
         /\ \A r \in Streams : c.streams[r].attached => d.streams[r].attached
         /\ \A s \in 1 .. c.made : d.streams[s].given = c.streams[s].given /\ (Over(c, s) => Over(d, s))
         /\ Len(c.handlers) \in Nat \ {0} /\ Head(c.handlers) = c.handlers[1]
         /\ \A i \in 1 .. Len(Tail(c.handlers)) : Tail(c.handlers)[i] = c.handlers[i + 1] /\ i + 1 \in 2 .. Len(c.handlers)
         /\ Len(Tail(c.handlers)) = Len(c.handlers) - 1
         /\ d.handlers \in {c.handlers, Tail(c.handlers)}
         /\ Plains(c.handlers) => Plains(d.handlers) /\ Steady(c, d) /\ d.handlers = Tail(c.handlers)
         /\ Len(c.handlers) = 1 => Tail(c.handlers) = << >>
<1>1. Conn(c) /\ Conn(d) /\ c.handlers # << >> /\ Answered(c, d) /\ d.made = c.made /\ ~Down(c) /\ Kinds(c)
  BY DEF Takes
<1>2. c.handlers \in Seq(Handlers)
  BY <1>1 DEF Conn
<1>3. /\ Len(c.handlers) \in Nat \ {0} /\ Head(c.handlers) = c.handlers[1]
      /\ \A i \in 1 .. Len(Tail(c.handlers)) : Tail(c.handlers)[i] = c.handlers[i + 1] /\ i + 1 \in 2 .. Len(c.handlers)
      /\ Len(Tail(c.handlers)) = Len(c.handlers) - 1
      /\ Len(c.handlers) = 1 => Tail(c.handlers) = << >>
  BY <1>1, <1>2, Popped
<1>4. /\ Tame(c, d) /\ d.err = c.err /\ d.handlers \in {c.handlers, Tail(c.handlers)}
      /\ \A r \in Streams : c.streams[r].attached => d.streams[r].attached
      /\ d.state = c.state \/ (c.state = "streaming" /\ d.state = "ready")
         \/ (c.state = "streamingTx" /\ d.state = "tx")
  BY <1>1 DEF Answered, Steady, Attaches, Batches, Closes
<1>5. Open(d) \subseteq Open(c)
  BY <1>1, <1>4, OpenShrinks
<1>6. \A s \in 1 .. c.made : d.streams[s].given = c.streams[s].given /\ (Over(c, s) => Over(d, s))
  <2>1. \A s \in 1 .. c.made : s \in Streams /\ s <= c.made
    BY <1>1, StreamsAreCounted DEF Conn, Streams
  <2> QED
    BY <1>4, <2>1 DEF Tame, TameStream
<1>7. d.v = c.v /\ d.live = c.live
  BY <1>4 DEF Tame
<1>8. Plains(c.handlers) => Plains(d.handlers) /\ Steady(c, d) /\ d.handlers = Tail(c.handlers)
  <2> SUFFICES ASSUME Plains(c.handlers) PROVE Plains(d.handlers) /\ Steady(c, d) /\ d.handlers = Tail(c.handlers)
    OBVIOUS
  <2>1. c.handlers[1].s = 0 /\ c.handlers[1].on \notin OfResult
    BY <1>1, <1>3 DEF Plains, Kinds
  <2>2. Steady(c, d) /\ d.handlers = Tail(c.handlers)
    BY <1>1, <1>3, <2>1 DEF Answered, OfResult
  <2>3. Plains(Tail(c.handlers))
    BY <1>3 DEF Plains
  <2> QED
    BY <2>2, <2>3
<1>9. ~Down(d) /\ (InTx(d) <=> InTx(c))
  BY <1>1, <1>4 DEF Down, InTx
<1> QED
  BY <1>3, <1>4, <1>5, <1>6, <1>7, <1>8, <1>9

\* By state.
LEMMA StandingReceived ==
  ASSUME NEW c, NEW d, NEW w, NEW x, Takes(c, d, w, x), NEW m, NEW l \in {"held", "tx", "single"},
         Standing(c, m, w, l)
  PROVE  Standing(d, m, x, l)
<1>1. /\ Conn(c) /\ Conn(d) /\ c.handlers # << >> /\ Answered(c, d) /\ d.made = c.made /\ d.out = c.out
      /\ w \in {"receive", "receiveAll"} /\ (x = "no" \/ (x = "receiveAll" /\ w = "receiveAll"))
      /\ x = "no" /\ w = "receiveAll" => d.handlers = << >>
  BY DEF Takes
<1>2. /\ d.v = c.v /\ (InTx(d) <=> InTx(c)) /\ ~Down(d)
      /\ d.state = "streaming" => c.state = "streaming"
      /\ d.state = "ready" => c.state \in {"ready", "streaming"}
      /\ d.state = "unauthorized" => c.state = "unauthorized"
      /\ Open(d) \subseteq Open(c)
      /\ Head(c.handlers) = c.handlers[1]
      /\ d.handlers \in {c.handlers, Tail(c.handlers)}
      /\ Plains(c.handlers) => Plains(d.handlers) /\ Steady(c, d) /\ d.handlers = Tail(c.handlers)
      /\ Len(c.handlers) = 1 => Tail(c.handlers) = << >>
  BY TakesSays
<1>3. c.out = << >> /\ d.out = << >>
  BY <1>1 DEF Standing
<1>4. d.state \in {"ready", "streaming"} => l \in {"borrowed", "announced", "held"}
  BY <1>2 DEF Standing
<1>5. InTx(d) => \/ l \in {"tx", "single", "pipelined"}
                 \/ l = "held" /\ (On(m, {"end", "ended"}) \/ (On(m, {"discard"}) /\ Len(m) = 2))
  BY <1>2 DEF Standing
<1>6. d.state = "ready" /\ ~On(m, {"attach"}) =>
        Plains(d.handlers) /\ (d.v.major = 4 /\ x # "receiveAll" => d.handlers = << >>)
  <2> SUFFICES ASSUME d.state = "ready", ~On(m, {"attach"})
               PROVE  Plains(d.handlers) /\ (d.v.major = 4 /\ x # "receiveAll" => d.handlers = << >>)
    OBVIOUS
  <2>1. CASE c.state = "ready"
    <3>1. Plains(c.handlers) /\ (c.v.major = 4 /\ w # "receiveAll" => c.handlers = << >>)
      BY <2>1 DEF Standing
    <3> QED
      BY <1>1, <1>2, <3>1
  <2>2. CASE c.state = "streaming"
    <3>1. Single(c)
      BY <2>2 DEF Standing
    <3>2. d.handlers = << >>
      <4>1. Tail(c.handlers) = << >>
        BY <1>1, <1>2, <3>1 DEF Single
      <4>2. d.handlers = Tail(c.handlers)
        BY <1>1, <2>2 DEF Answered, Steady
      <4> QED
        BY <4>1, <4>2
    <3> QED
      BY <3>2 DEF Plains
  <2> QED
    BY <1>2, <2>1, <2>2
<1>7. d.state = "streaming" =>
       /\ d.out = << >> /\ Open(d) \subseteq {d.curr} /\ Single(d)
       /\ ~On(m, {"buffer", "discard"}) /\ d.curr # 0 /\ d.streams[d.curr].endOfBatch => d.handlers = << >>
  <2> SUFFICES ASSUME d.state = "streaming"
               PROVE  /\ Open(d) \subseteq {d.curr} /\ Single(d)
                      /\ ~On(m, {"buffer", "discard"}) /\ d.curr # 0 /\ d.streams[d.curr].endOfBatch => d.handlers = << >>
    BY <1>3
  <2>1. /\ Open(c) \subseteq {c.curr} /\ Single(c)
        /\ ~On(m, {"buffer", "discard"}) /\ c.curr # 0 /\ c.streams[c.curr].endOfBatch => c.handlers = << >>
    BY <1>2 DEF Standing
  <2>2. Head(c.handlers).s = c.curr /\ c.curr # 0 /\ Tail(c.handlers) = << >>
    BY <1>1, <1>2, <2>1 DEF Single
  <2>3. CASE Steady(c, d) /\ d.handlers = c.handlers
    <3>1. c.curr \in Streams
      BY <1>1, <2>2, StreamsAreCounted DEF Conn, Streams
    <3>2. d.curr = c.curr /\ d.streams[c.curr].endOfBatch = c.streams[c.curr].endOfBatch
      BY <2>3, <3>1 DEF Steady
    <3>3. Open(d) \subseteq {d.curr}
      BY <1>2, <2>1, <3>2
    <3>4. Single(d)
      BY <2>1, <2>3, <3>2 DEF Single
    <3> QED
      BY <1>1, <2>1, <2>3, <3>2, <3>3, <3>4
  <2>4. CASE d.handlers = Tail(c.handlers)
    <3>1. d.handlers = << >>
      BY <2>2, <2>4
    <3>2. d.curr = c.curr \/ Over(d, c.curr)
      BY <1>1, <2>2 DEF Answered, Steady, Attaches, Batches, Closes
    <3>3. Open(d) \subseteq {d.curr}
      BY <1>2, <2>1, <3>2 DEF Open
    <3> QED
      BY <3>1, <3>3 DEF Single
  <2> QED
    BY <1>1, <2>3, <2>4 DEF Answered
<1>8. d.state # "unauthorized" /\ l # "pipelined"
  BY <1>2 DEF Standing
<1> QED
  BY <1>3, <1>4, <1>5, <1>6, <1>7, <1>8 DEF Standing

\* The stream s is drained.
LEMMA DrainsReceived ==
  ASSUME NEW c, NEW d, NEW w, NEW x, Takes(c, d, w, x), NEW m, NEW l, Standing(c, m, w, l), ~On(m, {"attach"}),
         ~InTx(c), w = "receiveAll", NEW s \in 1 .. c.made, Drains(c, s, w)
  PROVE  Drains(d, s, x)
<1>1. /\ Conn(c) /\ Conn(d) /\ c.handlers # << >> /\ Answered(c, d) /\ d.made = c.made
      /\ x = "no" /\ w = "receiveAll" => d.handlers = << >>
  BY DEF Takes
<1>2. /\ d.state = "ready" => c.state \in {"ready", "streaming"}
      /\ Head(c.handlers) = c.handlers[1]
      /\ Over(c, s) => Over(d, s)
      /\ Plains(c.handlers) => Steady(c, d)
  BY TakesSays
<1>3. c.curr = s \/ Over(c, s)
  BY DEF Drains
<1>4. d.curr = s \/ Over(d, s)
  <2>1. s # 0
    OBVIOUS
  <2>2. c.curr = s => d.curr = s \/ Over(d, s)
    BY <1>1, <2>1 DEF Answered, Steady, Attaches, Batches, Closes
  <2> QED
    BY <1>2, <1>3, <2>2
<1>5. d.state = "ready" => d.curr = 0 /\ Over(d, s)
  <2> SUFFICES ASSUME d.state = "ready" PROVE d.curr = 0 /\ Over(d, s)
    OBVIOUS
  <2>1. CASE c.state = "ready"
    <3>1. c.curr = 0 /\ Over(c, s) /\ Plains(c.handlers)
      BY <2>1 DEF Drains, Standing
    <3> QED
      BY <1>2, <3>1 DEF Steady
  <2>2. CASE c.state = "streaming"
    <3>1. Single(c)
      BY <2>2 DEF Standing
    <3>2. Head(c.handlers).s = c.curr
      BY <1>1, <1>2, <3>1 DEF Single
    <3>3. Closes(c, d, c.curr)
      BY <1>1, <2>2, <3>2 DEF Answered, Steady, Attaches, Batches
    <3> QED
      BY <1>2, <1>3, <3>3 DEF Closes
  <2> QED
    BY <1>2, <2>1, <2>2
<1> QED
  BY <1>1, <1>4, <1>5 DEF Drains

\* RUN and PULL of the result s are under way.
LEMMA UnansweredReceived ==
  ASSUME NEW c, NEW d, NEW w, NEW x, Takes(c, d, w, x), w = "receive", NEW s \in 1 .. c.made,
         Attaching(c, s, w)
  PROVE  Attaching(d, s, x)
<1>1. /\ Conn(c) /\ Conn(d) /\ c.handlers # << >> /\ Answered(c, d) /\ d.made = c.made /\ Kinds(c) /\ x = "no"
  BY DEF Takes
<1>2. /\ Tame(c, d) /\ d.v = c.v /\ Open(d) \subseteq Open(c)
      /\ Len(c.handlers) \in Nat \ {0} /\ Head(c.handlers) = c.handlers[1]
      /\ \A i \in 1 .. Len(Tail(c.handlers)) : Tail(c.handlers)[i] = c.handlers[i + 1] /\ i + 1 \in 2 .. Len(c.handlers)
      /\ Len(Tail(c.handlers)) = Len(c.handlers) - 1
  BY TakesSays
<1>3. s \in Streams /\ s # 0
  BY <1>1, StreamsAreCounted DEF Conn, Streams
<1>4. Open(c) = {} /\ ~c.streams[s].endOfBatch /\ Unanswered(c, s, w)
  BY DEF Attaching, Attached
<1>5. Open(d) = {}
  BY <1>2, <1>4
<1> DEFINE n == Len(c.handlers)
           hs == c.handlers
           t == Tail(c.handlers)
<1>6. /\ n >= 2 /\ hs[n - 1] = [on |-> "run", s |-> s] /\ hs[n] = [on |-> "pull", s |-> s]
      /\ (\A i \in 1 .. n - 2 : hs[i].s = 0) /\ c.curr = 0 /\ ~c.streams[s].attached
      /\ c.v.major = 4 => n = 2
  BY <1>4 DEF Unanswered
<1>7. CASE n = 2
  <2>1. Head(c.handlers).on = "run" /\ Head(c.handlers).s = s
    BY <1>2, <1>6, <1>7
  <2>2. Attaches(c, d, s) /\ d.handlers = t
    BY <1>1, <1>3, <2>1 DEF Answered
  <2>3. Len(t) = 1 /\ t[1] = hs[2]
    BY <1>2, <1>7
  <2>4. d.curr = s /\ d.streams[s].attached /\ d.streams[s].endOfBatch = c.streams[s].endOfBatch
    BY <1>3, <1>6, <2>2 DEF Attaches
  <2>5. Attached(d, s, x)
    BY <1>1, <1>6, <1>7, <2>2, <2>3, <2>4 DEF Attached
  <2> QED
    BY <1>4, <1>5, <2>4, <2>5 DEF Attaching
<1>8. CASE n > 2
  <2>1. Head(c.handlers).s = 0 /\ Head(c.handlers).on \notin OfResult
    <3>1. 1 \in 1 .. n - 2 /\ 1 \in 1 .. n
      BY <1>2, <1>8
    <3> QED
      BY <1>1, <1>2, <1>6, <3>1 DEF Kinds
  <2>2. Steady(c, d) /\ d.handlers = t
    BY <1>1, <2>1 DEF Answered, OfResult
  <2>3. Len(t) = n - 1 /\ Len(t) >= 2 /\ n \in Nat
    BY <1>2, <1>8
  <2>4. t[Len(t) - 1] = hs[n - 1] /\ t[Len(t)] = hs[n]
    <3>1. n - 2 \in 1 .. Len(t) /\ n - 1 \in 1 .. Len(t) /\ (n - 2) + 1 = n - 1 /\ (n - 1) + 1 = n /\ Len(t) - 1 = n - 2
      BY <2>3
    <3>2. t[n - 2] = hs[(n - 2) + 1] /\ t[n - 1] = hs[(n - 1) + 1]
      BY <1>2, <3>1
    <3> QED
      BY <2>3, <3>1, <3>2
  <2>5. \A i \in 1 .. Len(t) - 2 : t[i].s = 0
    <3> SUFFICES ASSUME NEW i \in 1 .. Len(t) - 2 PROVE t[i].s = 0
      OBVIOUS
    <3>1. i \in 1 .. Len(t) /\ i + 1 \in 1 .. n - 2
      BY <2>3
    <3>2. t[i] = hs[i + 1]
      BY <1>2, <3>1
    <3> QED
      BY <1>6, <3>1, <3>2
  <2>6. d.curr = 0 /\ ~d.streams[s].attached /\ ~d.streams[s].endOfBatch
    BY <1>3, <1>4, <1>6, <2>2 DEF Steady
  <2>7. c.v.major # 4
    BY <1>6, <1>8
  <2> HIDE DEF t, n
  <2>8. Unanswered(d, s, x)
    BY <1>2, <1>6, <2>2, <2>3, <2>4, <2>5, <2>6, <2>7 DEF Unanswered
  <2> QED
    BY <1>5, <2>6, <2>8 DEF Attaching
<1>9. n = 2 \/ n > 2
  <2>1. n \in Nat /\ n >= 2
    BY <1>2, <1>6
  <2> HIDE DEF n
  <2> QED
    BY <2>1
<1> QED
  BY <1>7, <1>8, <1>9

\* RUN of the result s of a transaction is under way, or was answered.
LEMMA AttachingTxReceived ==
  ASSUME NEW c, NEW d, NEW w, NEW x, Takes(c, d, w, x), NEW s \in 1 .. c.made, AttachingTx(c, s)
  PROVE  AttachingTx(d, s)
<1>1. /\ Conn(c) /\ Answered(c, d)
  BY DEF Takes
<1>2. /\ d.v = c.v /\ (\A r \in Streams : c.streams[r].attached => d.streams[r].attached)
      /\ Len(c.handlers) \in Nat \ {0} /\ Head(c.handlers) = c.handlers[1]
      /\ \A i \in 1 .. Len(Tail(c.handlers)) : Tail(c.handlers)[i] = c.handlers[i + 1] /\ i + 1 \in 2 .. Len(c.handlers)
      /\ Len(Tail(c.handlers)) = Len(c.handlers) - 1
  BY TakesSays
<1>3. s \in Streams /\ s # 0
  BY <1>1, StreamsAreCounted DEF Conn, Streams
<1>4. CASE c.v.major = 4 \/ c.streams[s].attached
  BY <1>2, <1>3, <1>4 DEF AttachingTx
<1>5. CASE \E i \in 1 .. Len(c.handlers) : c.handlers[i] = [on |-> "run", s |-> s]
  <2>1. PICK i \in 1 .. Len(c.handlers) : c.handlers[i] = [on |-> "run", s |-> s]
    BY <1>5
  <2>2. CASE d.handlers = c.handlers
    BY <2>1, <2>2 DEF AttachingTx
  <2>3. CASE d.handlers = Tail(c.handlers) /\ i = 1
    <3>1. Head(c.handlers).on = "run" /\ Head(c.handlers).s = s
      BY <1>2, <2>1, <2>3
    <3>2. Attaches(c, d, s)
      BY <1>1, <1>3, <3>1 DEF Answered
    <3> QED
      BY <3>2 DEF Attaches, AttachingTx
  <2>4. CASE d.handlers = Tail(c.handlers) /\ i # 1
    <3>1. i - 1 \in 1 .. Len(Tail(c.handlers)) /\ (i - 1) + 1 = i
      BY <1>2, <2>4
    <3>2. d.handlers[i - 1] = c.handlers[i]
      BY <1>2, <2>4, <3>1
    <3> QED
      BY <2>1, <2>4, <3>1, <3>2 DEF AttachingTx
  <2> QED
    BY <1>1, <2>2, <2>3, <2>4 DEF Answered
<1> QED
  BY <1>4, <1>5 DEF AttachingTx

\* The call that reads.
LEMMA ShapeReceived ==
  ASSUME NEW c, NEW d, NEW w, NEW x, Takes(c, d, w, x), NEW m, NEW l \in {"held", "tx", "single"},
         Shape(c, m, w, l), FramesOK(c, m, w), m # << >> => Len(m) \in Nat \ {0}
  PROVE  Shape(d, m, x, l)
<1>1. /\ Conn(c) /\ Conn(d) /\ c.handlers # << >> /\ Answered(c, d) /\ d.made = c.made
      /\ w \in {"receive", "receiveAll"} /\ (x = "no" \/ (x = "receiveAll" /\ w = "receiveAll"))
      /\ x = "no" /\ w = "receiveAll" => d.handlers = << >>
      /\ w # "no" /\ x # "receive"
  BY DEF Takes
<1>2. /\ d.v = c.v /\ d.live = c.live /\ (InTx(d) <=> InTx(c)) /\ ~Down(d) /\ Open(d) \subseteq Open(c)
      /\ c.state = "ready" => d.state = "ready"
      /\ Head(c.handlers) = c.handlers[1]
      /\ \A s \in 1 .. c.made : d.streams[s].given = c.streams[s].given /\ (Over(c, s) => Over(d, s))
  BY TakesSays
<1>3. Standing(c, m, w, l) /\ Standing(d, m, x, l)
  BY StandingReceived DEF Shape
<1>4. CASE m = << >>
  BY <1>1, <1>2, <1>3, <1>4 DEF Shape
<1>5. CASE m # << >>
  <2>1. Placed(c, m, w, l)
    BY <1>5 DEF Shape
  <2>2. m[1].at \in CallFrames \ {"begin", "end", "run", "table", "exhaust"}
    BY <1>1, <2>1 DEF Placed, AtBegin, AtEnd, AtRunFrame, AtTable, AtExhaust
  <2>3. m[1].at \in OnResult => m[1].s \in 1 .. c.made
    <3>1. 1 \in 1 .. Len(m)
      BY <1>5
    <3>2. m[1].at \in OnResult => m[1].s \in c.live .. c.made
      BY <3>1 DEF FramesOK, FrameOK
    <3>3. c.live \in Nat \ {0} /\ c.made \in Nat
      BY <1>1, StreamsAreCounted DEF Conn
    <3> QED
      BY <3>2, <3>3
  <2>4. m[1].at = "begun" => AtBegun(d, m, x, l)
    BY <1>1, <1>2, <2>1 DEF Placed, AtBegun
  <2>5. m[1].at = "buffer" => AtBuffer(d, m, x, l)
    <3> SUFFICES ASSUME m[1].at = "buffer" PROVE AtBuffer(d, m, x, l)
      OBVIOUS
    <3>1. AtBuffer(c, m, w, l) /\ w = "receiveAll" /\ ~On(m, {"attach"}) /\ m[1].s \in 1 .. c.made
      BY <1>1, <2>1, <2>3 DEF Placed, AtBuffer, OnResult, On
    <3>2. CASE InTx(c)
      BY <1>1, <1>2, <3>1, <3>2 DEF AtBuffer
    <3>3. CASE ~InTx(c)
      <4>1. l = "held" /\ Drains(c, m[1].s, w) /\ Open(c) \subseteq {m[1].s}
        BY <3>1, <3>3 DEF AtBuffer
      <4>2. Drains(d, m[1].s, x)
        BY <1>3, <3>1, <3>3, <4>1, DrainsReceived
      <4> QED
        BY <1>1, <1>2, <3>1, <4>1, <4>2 DEF AtBuffer
    <3> QED
      BY <3>2, <3>3
  <2>6. m[1].at = "pause" => AtPause(d, m, x, l)
    BY <1>1, <1>2, <2>1 DEF Placed, AtPause
  <2>7. m[1].at = "discard" => AtDiscard(d, m, x, l)
    <3> SUFFICES ASSUME m[1].at = "discard" PROVE AtDiscard(d, m, x, l)
      OBVIOUS
    <3>1. AtDiscard(c, m, w, l) /\ w = "receiveAll" /\ ~On(m, {"attach"}) /\ m[1].s \in 1 .. c.made
      BY <1>1, <2>1, <2>3 DEF Placed, AtDiscard, OnResult, On
    <3>2. CASE InTx(c)
      BY <1>1, <1>2, <3>1, <3>2 DEF AtDiscard
    <3>3. CASE ~InTx(c)
      <4>1. /\ l = "held" /\ Len(m) = 1 /\ Drains(c, m[1].s, w)
            /\ m[1].discarded /\ ~Over(c, m[1].s) => Len(c.handlers) = 1 /\ c.handlers[1].on = "discard"
        BY <3>1, <3>3 DEF AtDiscard
      <4>2. Drains(d, m[1].s, x)
        BY <1>3, <3>1, <3>3, <4>1, DrainsReceived
      <4>3. m[1].discarded => Over(d, m[1].s)
        <5> SUFFICES ASSUME m[1].discarded, ~Over(c, m[1].s) PROVE Over(d, m[1].s)
          BY <1>2, <3>1
        <5>1. Head(c.handlers).on = "discard" /\ c.curr = m[1].s /\ c.state # "ready"
          BY <1>2, <4>1 DEF Drains
        <5>2. c.state = "streaming"
          <6>1. c.state \in States /\ ~Down(c)
            BY <1>1 DEF Takes, Conn
          <6> QED
            BY <1>3, <3>3, <5>1, <6>1 DEF States, Down, InTx, Standing
        <5>3. Head(c.handlers).s = c.curr /\ c.curr # 0
          <6>1. Single(c)
            BY <1>3, <5>2 DEF Standing
          <6> QED
            BY <1>1, <1>2, <6>1 DEF Single
        <5>4. Closes(c, d, c.curr)
          BY <1>1, <5>1, <5>3 DEF Answered
        <5> QED
          BY <5>1, <5>4 DEF Closes
      <4> QED
        BY <1>1, <1>2, <4>1, <4>2, <4>3 DEF AtDiscard
    <3> QED
      BY <3>2, <3>3
  <2>8. m[1].at = "ended" => AtEnded(d, m, x, l)
    BY <1>1, <1>2, <2>1 DEF Placed, AtEnded
  <2>9. m[1].at = "attach" => AtAttach(d, m, x, l)
    <3> SUFFICES ASSUME m[1].at = "attach" PROVE AtAttach(d, m, x, l)
      OBVIOUS
    <3>1. AtAttach(c, m, w, l) /\ w = "receive" /\ c.made \in 1 .. c.made
      BY <1>1, <2>1, <2>3 DEF Placed, AtAttach, OnResult
    <3>2. CASE InTx(c)
      <4>1. Len(m) = 1 /\ AttachingTx(c, c.made) /\ l \in {"tx", "single"}
        BY <3>1, <3>2 DEF AtAttach
      <4>2. AttachingTx(d, c.made)
        BY <3>1, <4>1, AttachingTxReceived
      <4> QED
        BY <1>1, <1>2, <3>1, <3>2, <4>1, <4>2 DEF AtAttach
    <3>3. CASE ~InTx(c)
      <4>1. c.state = "ready" /\ l = "held" /\ Attaching(c, c.made, w) /\ (Len(m) = 1 \/ (Len(m) = 2 /\ m[2].at = "table"))
        BY <3>1, <3>3 DEF AtAttach
      <4>2. Attaching(d, c.made, x)
        BY <3>1, <4>1, UnansweredReceived
      <4> QED
        BY <1>1, <1>2, <3>1, <3>3, <4>1, <4>2 DEF AtAttach
    <3> QED
      BY <3>2, <3>3
  <2>10. m[1].at = "next" => AtNext(d, m, x, l)
    <3> SUFFICES ASSUME m[1].at = "next" PROVE AtNext(d, m, x, l)
      OBVIOUS
    <3>1. AtNext(c, m, w, l) /\ w = "receive" /\ x = "no"
      BY <1>1, <2>1 DEF Placed, AtNext
    <3>2. HasTable(c, l) => HasTable(d, l)
      <4>1. c.live \in Nat \ {0} /\ c.made \in Nat
        BY <1>1, StreamsAreCounted DEF Conn
      <4>2. c.made >= c.live => c.made \in 1 .. c.made
        BY <4>1
      <4> QED
        BY <1>1, <1>2, <4>2 DEF HasTable
    <3> QED
      BY <3>1, <3>2 DEF AtNext
  <2>11. Placed(d, m, x, l)
    BY <2>2, <2>4, <2>5, <2>6, <2>7, <2>8, <2>9, <2>10 DEF Placed
  <2> QED
    BY <1>3, <1>5, <2>11 DEF Shape
<1> QED
  BY <1>4, <1>5

\* The response was the last that the call reads.
LastRead(a) == \/ a.answer.k = "failure" \/ Top.at = "receive" \/ Received(a).handlers = << >>
               \/ Unexpected(Head(b.handlers), a.answer)

\* Receive, in these terms.
LEMMA ReceiveParts ==
  ASSUME Receive
  PROVE  /\ Waiting /\ net = "up" /\ net' = net /\ loan' = loan /\ b.wire # << >>
         /\ Top.at \in {"receive", "receiveAll"}
         /\ \E a \in Answers : /\ b' = Received(a) /\ srv' = a.srv
                               /\ stack' = IF LastRead(a) THEN Tail(stack) ELSE stack
<1>1. /\ Waiting /\ net = "up" /\ net' = net /\ loan' = loan /\ b.wire # << >>
      /\ Top.at \in {"receive", "receiveAll"}
  BY DEF Receive, Waiting
<1>2. \E a \in Answers : /\ b' = Received(a) /\ srv' = a.srv
                         /\ stack' = IF LastRead(a) THEN Tail(stack) ELSE stack
  BY DEF Receive, Received, LastRead
<1> QED
  BY <1>1, <1>2

\* Neither FAILURE nor IGNORED.
LEMMA ReceivedAnswered ==
  ASSUME BoltInv, b.v.major > 3, loan # "gone", b.wire # << >>, NEW a \in Answers, NEW w, w # "no",
         General(b, w, srv), Waited(b, w), NoReset(b.handlers), b.state = "dead" => b.err,
         b.state # "dead", a.answer.k \in {"success", "record"}
  PROVE  Answered(b, Received(a)) /\ ~Unexpected(Head(b.handlers), a.answer)
<1> DEFINE d == Received(a)
           h == Head(b.handlers)
<1>1. /\ b.handlers # << >>
      /\ d.handlers = IF a.answer.k = "record" /\ h.on = "pull" THEN b.handlers ELSE Tail(b.handlers)
      /\ Outcome(b, d, h, a.answer)
  BY ReceivedMoves
<1>2. Conn(b) /\ Server /\ b.handlers \in Seq(Handlers)
  BY DEF BoltInv, Conn
<1>3. h = b.handlers[1] /\ 1 \in 1 .. Len(b.handlers)
  BY <1>1, <1>2, Popped
<1>4. h.on \in OfResult <=> h.s # 0
  BY <1>3 DEF General, Kinds
<1>5. Head(b.wire).m = h.on
  BY RequestOf
<1>6. /\ a.answer.k = "record" => h.on = "pull"
      /\ a.answer.k = "success" => a.answer.more \in BOOLEAN
  BY <1>2, <1>5, AnswersOK DEF AnswerTo
<1>7. a.answer.k = "success" /\ a.answer.more => h.on = "pull"
  BY <1>2, <1>5, AnswersSaid
<1> HIDE DEF d, h
<1>8. ~Unexpected(h, a.answer)
  BY <1>6 DEF Unexpected
<1>9. Answered(b, d)
  <2>1. CASE a.answer.k = "record"
    BY <1>1, <1>6, <2>1 DEF Outcome, Answered, h
  <2>2. CASE a.answer.k = "success"
    <3>1. d.handlers = Tail(b.handlers)
      BY <1>1, <2>2
    <3>2. h.s = 0 \/ h.on = "run" \/ h.on \in {"pull", "discard"}
      BY <1>4 DEF OfResult
    <3>3. /\ h.s = 0 => Steady(b, d)
          /\ h.on = "run" => Attaches(b, d, h.s)
          /\ h.on \in {"pull", "discard"} => IF a.answer.more THEN Batches(b, d, h.s) ELSE Closes(b, d, h.s)
      BY <1>1, <2>2 DEF Outcome
    <3>4. CASE a.answer.more
      BY <1>7, <2>2, <3>1, <3>2, <3>3, <3>4 DEF Answered, h
    <3>5. CASE ~a.answer.more
      BY <3>1, <3>2, <3>3, <3>5 DEF Answered, h
    <3> QED
      BY <3>4, <3>5
  <2> QED
    BY <2>1, <2>2
<1> QED
  BY <1>8, <1>9 DEF d, h

\* A session's call reads a response.
LEMMA ReceiveInUse ==
  ASSUME Here, Receive, loan \in Use
  PROVE  Goes
<1> DEFINE m == Tail(stack)
           w == Top.at
<1>1. /\ Waiting /\ net = "up" /\ net' = net /\ loan' = loan /\ b.wire # << >>
      /\ w \in {"receive", "receiveAll"}
  BY ReceiveParts
<1>2. PICK a \in Answers : /\ b' = Received(a) /\ srv' = a.srv
                           /\ stack' = IF LastRead(a) THEN Tail(stack) ELSE stack
  BY ReceiveParts
<1>3. /\ Below(stack) = m /\ Read(stack) = w /\ Below(m) = m /\ Read(m) = "no"
      /\ loan \in {"held", "tx", "single"} /\ Conn(b) /\ NoReset(b.handlers)
      /\ General(b, w, srv) /\ Waited(b, w) /\ Used(b, m, w, loan)
      /\ \A d, y : Conn(d) /\ Tame(b, d) => FramesOK(d, m, y)
  BY <1>1, UseWait
<1>4. BoltInv /\ b.v.major > 3 /\ loan # "gone" /\ w # "no"
  BY <1>1 DEF Here, Use
<1>5. Down(b) => b.err
  BY <1>1, <1>3 DEF Used, LentFailed
<1>6. b.state = "dead" => b.err
  BY <1>5 DEF Down
<1>7. PICK x : x = IF LastRead(a) THEN "no" ELSE w
  OBVIOUS
<1>8. Below(stack') = m /\ Read(stack') = x
  BY <1>2, <1>3, <1>7
<1>9. LET d == Received(a)
          h == Head(b.handlers)
      IN  /\ b.handlers # << >> /\ Conn(d) /\ d.v = b.v /\ d.live = b.live /\ d.made = b.made /\ d.out = b.out
          /\ d.handlers = IF a.answer.k = "record" /\ h.on = "pull" THEN b.handlers ELSE Tail(b.handlers)
          /\ Outcome(b, d, h, a.answer)
          /\ Sent(b) => Sent(d)
  BY <1>1, <1>3, <1>4, <1>6, ReceivedMoves
<1>10. LET d == Received(a)
       IN  /\ Tame(b, d) /\ (d.err => Down(d))
           /\ \A y : (y = "no" \/ d.state # "dead" \/ b.state = "dead") => General(d, y, a.srv)
           /\ \A y : (y # "no" => d.handlers # << >> /\ a.answer.k # "failure") => Waited(d, y)
  BY <1>1, <1>3, <1>4, <1>6, ReceivedGeneral
<1>11. a.answer.k \in {"success", "failure", "ignored", "record"}
  BY <1>1, <1>3, AnswersOK DEF Here, BoltInv, AnswerTo
<1> HIDE DEF m, w
<1>12. Conn(b') /\ Tame(b, b') /\ (b'.err => Down(b')) /\ FramesOK(b', m, x)
  BY <1>2, <1>3, <1>9, <1>10
<1>13. Waited(b', x)
  <2>1. x # "no" => b'.handlers # << >> /\ a.answer.k # "failure"
    BY <1>2, <1>7 DEF LastRead
  <2> QED
    BY <1>2, <1>10, <2>1
<1>14. /\ a.answer.k = "failure" => Fails(b, b')
       /\ a.answer.k # "failure" =>
              /\ b'.err = b.err
              /\ b'.state = b.state \/ (b.state = "streaming" /\ b'.state = "ready")
                 \/ (b.state = "streamingTx" /\ b'.state = "tx")
  <2>1. Head(b.handlers).s = 0 \/ Head(b.handlers).on \in OfResult
    <3>1. b.handlers \in Seq(Handlers)
      BY <1>3 DEF Conn
    <3>2. Head(b.handlers) = b.handlers[1] /\ 1 \in 1 .. Len(b.handlers)
      BY <1>9, <3>1, Popped
    <3> QED
      BY <1>3, <3>2 DEF General, Kinds
  <2>2. PICK answer : answer = a.answer
    OBVIOUS
  <2>3. PICK h : h = Head(b.handlers)
    OBVIOUS
  <2>4. Outcome(b, b', h, answer)
    BY <1>2, <1>9, <2>2, <2>3
  <2> QED
    BY <1>11, <2>1, <2>2, <2>3, <2>4, OutcomeTame
<1>15. General(b', x, srv')
  <2>1. x = "no" \/ b'.state # "dead" \/ b.state = "dead"
    BY <1>7, <1>14 DEF LastRead
  <2> QED
    BY <1>2, <1>10, <2>1
<1>16. CASE Down(b) \/ a.answer.k = "failure"
  <2>1. b'.err
    BY <1>5, <1>14, <1>16 DEF Fails
  <2>2. StateInv'
    BY <1>1, <1>3, <1>8, <1>12, <1>13, <1>15, <2>1, ErrorNext
  <2> QED
    BY <1>12, <2>2, TamePut DEF Goes
<1>17. CASE ~Down(b) /\ a.answer.k # "failure"
  <2>1. a.answer.k \in {"success", "record"} /\ b.state # "dead"
    <3>1. a.answer.k = "ignored" => srv.st = "failed"
      BY <1>1, <1>3, AnswersSaid DEF Here, BoltInv
    <3> QED
      BY <1>3, <1>11, <1>17, <3>1 DEF General, Down
  <2>2. Answered(b, Received(a)) /\ ~Unexpected(Head(b.handlers), a.answer)
    BY <1>1, <1>3, <1>4, <1>6, <2>1, ReceivedAnswered
  <2>3. /\ x = "no" \/ (x = "receiveAll" /\ w = "receiveAll")
        /\ x = "no" /\ w = "receiveAll" => b'.handlers = << >>
    BY <1>1, <1>2, <1>7, <1>17, <2>2 DEF LastRead, w
  <2>4. Takes(b, b', w, x)
    BY <1>1, <1>2, <1>3, <1>9, <1>17, <2>2, <2>3 DEF Takes, General
  <2>5. Shape(b, m, w, loan) /\ FramesOK(b, m, w)
    BY <1>3, <1>17 DEF Used
  <2>6. m # << >> => Len(m) \in Nat \ {0}
    <3>1. PICK S : stack \in Seq(S)
      BY StackSeq DEF Here
    <3>2. stack # << >>
      BY <1>1 DEF Waiting, Idle
    <3>3. m \in Seq(S)
      BY <3>1, <3>2, Popped DEF m
    <3> QED
      BY <3>3, Popped
  <2>7. Shape(b', m, x, loan')
    BY <1>1, <1>3, <2>4, <2>5, <2>6, ShapeReceived
  <2>8. ~Down(b')
    BY <2>4, TakesSays
  <2>9. Used(b', m, x, loan')
    BY <1>1, <1>3, <1>12, <2>7, <2>8 DEF Used
  <2>10. StateInv'
    BY <1>1, <1>8, <1>13, <1>15, <2>9, InUseNext
  <2> QED
    BY <1>12, <2>10, TamePut DEF Goes
<1> QED
  BY <1>16, <1>17

\* The answer to RESET.
LEMMA ResetAnswered ==
  ASSUME Here, Receive, loan \in {"returning", "lending"}, Top.at = "receive"
  PROVE  Goes
<1> DEFINE m == Tail(stack)
<1>1. /\ Waiting /\ net = "up" /\ net' = net /\ loan' = loan /\ b.wire # << >>
  BY ReceiveParts
<1>2. PICK a \in Answers : /\ b' = Received(a) /\ srv' = a.srv
                           /\ stack' = IF LastRead(a) THEN Tail(stack) ELSE stack
  BY ReceiveParts
<1>3. PICK w : w = "receive"
  OBVIOUS
<1>4. /\ Below(stack) = m /\ Read(stack) = w /\ Below(m) = m /\ Read(m) = "no" /\ ~On(m, {"forceReset"})
  BY <1>1, <1>3, OutsideWait DEF Here, Use
<1>5. /\ General(b, w, srv) /\ Resetting(b, m, w) /\ ~On(m, {"success3", "record3", "reset3"})
      /\ loan = "lending" => AtLend(b, m, w)
  BY <1>4 DEF Here, StateInv, Conforms, AtReturn, AtLend, Use
<1>6. Len(b.handlers) = 1 /\ b.handlers[1].on = "reset" /\ b.out = << >> /\ ~b.err /\ b.state # "dead"
  BY <1>3, <1>5 DEF Resetting
<1>7. Conn(b) /\ Server /\ b.handlers \in Seq(Handlers) /\ b.wire \in Seq(Requests) /\ BoltInv /\ loan # "gone" /\ Conn(b')
  BY DEF Here, BoltInv, Conn
<1>8. b.handlers # << >> /\ Head(b.handlers) = b.handlers[1] /\ Tail(b.handlers) = << >>
  BY <1>6, <1>7, Popped, EmptySeq
<1>9. Head(b.wire).m = "reset"
  BY <1>1, <1>6, <1>7, <1>8, RequestOf DEF Here
<1>10. AnswerTo(Head(b.wire), a) /\ WireAfter(b.wire, a)
  BY <1>1, <1>7, AnswersOK
<1>11. a.answer.k \in {"success", "failure"} /\ a.wire \in Seq(Requests)
  <2>1. a.answer.k \in {"success", "failure"}
    BY <1>9, <1>10 DEF AnswerTo
  <2>2. a.wire = Tail(b.wire)
    BY <1>10, <2>1 DEF WireAfter
  <2> QED
    BY <1>1, <1>7, <2>1, <2>2, HeadTailProperties
<1> DEFINE e == Unqueued(a)
           st == IF a.answer.k = "success" THEN "ready" ELSE "dead"
           d == [e EXCEPT !.state = st]
<1>12. /\ Conn(e) /\ Tame(b, e) /\ e.v = b.v /\ e.live = b.live /\ e.made = b.made /\ e.streams = b.streams
       /\ e.state = b.state /\ e.err = b.err /\ e.curr = b.curr /\ e.out = b.out
       /\ e.handlers = Tail(b.handlers)
  BY <1>7, <1>8, <1>11, UnqueuedSame
<1>13. b' = d
  <2>1. Received(a) = Handle(e, Head(b.handlers), a.answer)
    BY <1>8 DEF Received, Unqueued
  <2>2. ~Unexpected(Head(b.handlers), a.answer)
    BY <1>6, <1>8, <1>11 DEF Unexpected
  <2> HIDE DEF e
  <2>3. Handle(e, Head(b.handlers), a.answer) = ResetResponseHandler(e, a.answer)
    BY <1>6, <1>8, <2>2 DEF Handle
  <2> QED
    BY <1>2, <2>1, <2>3 DEF ResetResponseHandler
<1> HIDE DEF e
<1>14. /\ d.v = e.v /\ d.live = e.live /\ d.made = e.made /\ d.streams = e.streams /\ d.state = st /\ d.err = e.err
       /\ d.curr = e.curr /\ d.out = e.out /\ d.handlers = e.handlers
  BY <1>12 DEF Conn, ConnFields
<1> HIDE DEF d
<1>15. Tame(e, d)
  BY <1>12, <1>14, TameSame
<1>16. Tame(b, b')
  BY <1>7, <1>12, <1>13, <1>15, TameTrans
<1>17. /\ b'.made = b.made /\ b'.live = b.live /\ ~b'.err /\ b'.curr = b.curr /\ b'.out = << >> /\ b'.handlers = << >>
       /\ b'.state = st /\ st \in {"ready", "dead"}
  BY <1>6, <1>8, <1>12, <1>13, <1>14
<1>18. srv'.st = "failed" => b'.state = "dead"
  <2>1. a.answer.k \in {"success", "record"} => a.srv.st # "failed"
    BY <1>1, <1>7, AnswersSaid
  <2> QED
    BY <1>2, <1>11, <1>17, <2>1
<1> HIDE DEF st
<1>19. PICK x : x = "no"
  OBVIOUS
<1>20. General(b', x, srv')
  BY <1>5, <1>6, <1>7, <1>16, <1>17, <1>18, <1>19, GeneralMoves DEF Down
<1>21. Waited(b', x)
  <2>1. b'.wire \in Seq(Requests)
    BY <1>7 DEF Conn
  <2>2. Len(b'.wire) >= 0 /\ Len(b'.handlers) = 0
    BY <1>17, <2>1, LenProperties
  <2> QED
    BY <1>17, <1>19, <2>2 DEF Waited, Sent
<1>22. Below(stack') = m /\ Read(stack') = x
  BY <1>2, <1>4, <1>19 DEF LastRead
<1> HIDE DEF m
<1>23. Rested(b')
  BY <1>17 DEF Rested, Plains
<1>24. Resetting(b', m, x)
  BY <1>4, <1>19 DEF Resetting
<1>25. AtReturn(b', m, x)
  BY <1>17, <1>23, <1>24 DEF AtReturn
<1>26. loan = "lending" => AtLend(b', m, x)
  BY <1>5, <1>17, <1>23, <1>24 DEF AtLend, Plains
<1>27. StateInv'
  BY <1>1, <1>5, <1>20, <1>21, <1>22, <1>25, <1>26, OutsideNext
<1> QED
  BY <1>16, <1>27, TamePut DEF Goes

\* A response to HELLO or LOGON, or to what was under way before RESET or LOGON.
LEMMA ReceiveOutside ==
  ASSUME Here, Receive, loan \notin Use, loan # "connecting" => Top.at # "receive"
  PROVE  Goes
<1> DEFINE m == Tail(stack)
           w == Top.at
<1>1. /\ Waiting /\ net = "up" /\ net' = net /\ loan' = loan /\ b.wire # << >>
      /\ w \in {"receive", "receiveAll"}
  BY ReceiveParts
<1>2. PICK a \in Answers : /\ b' = Received(a) /\ srv' = a.srv
                           /\ stack' = IF LastRead(a) THEN Tail(stack) ELSE stack
  BY ReceiveParts
<1>3. /\ Below(stack) = m /\ Read(stack) = w /\ Below(m) = m /\ Read(m) = "no"
      /\ loan \in {"connecting", "returning", "lending"}
      /\ loan = "returning" => ~On(m, {"cleared"})
  BY <1>1, OutsideWait DEF Here
<1>4. BoltInv /\ b.v.major > 3 /\ loan # "gone" /\ w # "no" /\ Conn(b) /\ Server
  BY <1>1, <1>3 DEF Here, BoltInv
<1>5. /\ General(b, w, srv) /\ Waited(b, w) /\ ~On(m, {"success3", "record3", "reset3"})
      /\ loan = "connecting" => AtConnect(b, w)
      /\ loan = "returning" => AtReturn(b, m, w)
      /\ loan = "lending" => AtLend(b, m, w)
  BY <1>1, <1>3 DEF Here, StateInv, Conforms
<1>6. NoReset(b.handlers) /\ b.state # "dead"
  <2>1. NoReset(b.handlers)
    BY <1>1, <1>3, <1>4, NoResetUnless
  <2>2. b.state # "dead"
    BY <1>3, <1>4, <1>5 DEF AtConnect, AtReturn, AtLend, Resetting
  <2> QED
    BY <2>1, <2>2
<1>7. PICK x : x = IF LastRead(a) THEN "no" ELSE w
  OBVIOUS
<1>8. Below(stack') = m /\ Read(stack') = x
  BY <1>2, <1>3, <1>7
<1>9. LET d == Received(a)
          h == Head(b.handlers)
      IN  /\ b.handlers # << >> /\ Conn(d) /\ d.v = b.v /\ d.live = b.live /\ d.made = b.made /\ d.out = b.out
          /\ d.handlers = IF a.answer.k = "record" /\ h.on = "pull" THEN b.handlers ELSE Tail(b.handlers)
          /\ Outcome(b, d, h, a.answer)
          /\ Sent(b) => Sent(d)
  BY <1>1, <1>4, <1>5, <1>6, ReceivedMoves
<1>10. LET d == Received(a)
       IN  /\ Tame(b, d) /\ (d.err => Down(d))
           /\ \A y : (y = "no" \/ d.state # "dead" \/ b.state = "dead") => General(d, y, a.srv)
           /\ \A y : (y # "no" => d.handlers # << >> /\ a.answer.k # "failure") => Waited(d, y)
  BY <1>1, <1>4, <1>5, <1>6, ReceivedGeneral
<1>11. a.answer.k \in {"success", "failure", "ignored", "record"}
  BY <1>1, <1>4, AnswersOK DEF AnswerTo
<1>12. Conn(b') /\ Tame(b, b') /\ b'.out = b.out /\ b'.v = b.v /\ b.handlers \in Seq(Handlers)
  BY <1>2, <1>4, <1>9, <1>10 DEF Conn
<1> DEFINE h == Head(b.handlers)
<1>13. h = b.handlers[1] /\ 1 \in 1 .. Len(b.handlers) /\ (h.on \in OfResult <=> h.s # 0)
  <2>1. h = b.handlers[1] /\ 1 \in 1 .. Len(b.handlers)
    BY <1>9, <1>12, Popped
  <2> QED
    BY <1>5, <2>1 DEF General, Kinds
<1>14. Outcome(b, b', h, a.answer) /\ b.handlers # << >>
  BY <1>2, <1>9
<1> HIDE DEF m, w, h
<1>15. /\ a.answer.k = "failure" => Fails(b, b')
       /\ a.answer.k # "failure" =>
              /\ b'.err = b.err
              /\ b'.state = b.state \/ (b.state = "streaming" /\ b'.state = "ready")
                 \/ (b.state = "streamingTx" /\ b'.state = "tx")
  <2>1. PICK answer : answer = a.answer
    OBVIOUS
  <2> QED
    BY <1>11, <1>13, <1>14, <2>1, OutcomeTame
<1>16. Waited(b', x)
  <2>1. x # "no" => b'.handlers # << >> /\ a.answer.k # "failure"
    BY <1>2, <1>7 DEF LastRead
  <2> QED
    BY <1>2, <1>10, <2>1
<1>17. General(b', x, srv')
  <2>1. x = "no" \/ b'.state # "dead" \/ b.state = "dead"
    BY <1>7, <1>15 DEF LastRead
  <2> QED
    BY <1>2, <1>10, <2>1
<1>18. a.answer.k = "ignored" => srv.st = "failed"
  BY <1>1, <1>4, AnswersSaid
<1>19. ~Down(b) /\ a.answer.k # "failure" => Takes(b, b', w, x)
  <2> SUFFICES ASSUME ~Down(b), a.answer.k # "failure" PROVE Takes(b, b', w, x)
    OBVIOUS
  <2>1. a.answer.k \in {"success", "record"}
    BY <1>5, <1>11, <1>18 DEF General
  <2>2. Answered(b, Received(a)) /\ ~Unexpected(Head(b.handlers), a.answer)
    BY <1>1, <1>4, <1>5, <1>6, <2>1, ReceivedAnswered
  <2>3. /\ x = "no" \/ (x = "receiveAll" /\ w = "receiveAll")
        /\ x = "no" /\ w = "receiveAll" => b'.handlers = << >>
    BY <1>1, <1>2, <1>7, <2>2 DEF LastRead, w
  <2> QED
    BY <1>1, <1>2, <1>4, <1>5, <1>9, <2>2, <2>3 DEF Takes, General
<1>20. ~Down(b) /\ a.answer.k # "failure" /\ Plains(b.handlers) =>
         Plains(b'.handlers) /\ Steady(b, b') /\ b'.handlers = Tail(b.handlers)
  BY <1>19, TakesSays
<1>21. /\ Len(b.handlers) \in Nat \ {0}
       /\ \A i \in 1 .. Len(Tail(b.handlers)) : Tail(b.handlers)[i] = b.handlers[i + 1] /\ i + 1 \in 2 .. Len(b.handlers)
       /\ Len(b.handlers) = 1 => Tail(b.handlers) = << >>
  BY <1>12, <1>14, Popped
<1>22. a.answer.k = "failure" => b'.handlers = Tail(b.handlers)
  BY <1>2, <1>9
<1>23. Plains(b.handlers) /\ a.answer.k = "failure" => Plains(b'.handlers)
  <2>1. Len(b.handlers) \in Nat
    BY <1>21
  <2>2. Plains(b.handlers) => Plains(Tail(b.handlers))
    BY <1>21, <2>1 DEF Plains
  <2> QED
    BY <1>22, <2>2
<1>24. loan = "connecting" => AtConnect(b', x)
  <2> SUFFICES ASSUME loan = "connecting" PROVE AtConnect(b', x)
    OBVIOUS
  <2>1. /\ b.curr = 0 /\ Plains(b.handlers) /\ b.state = "unauthorized" /\ ~b.err /\ b.out = << >>
        /\ w = "receive" => Len(b.handlers) = 1
    BY <1>4, <1>5 DEF AtConnect
  <2>2. CASE a.answer.k = "failure"
    <3>1. b'.err /\ b'.curr = 0 /\ Plains(b'.handlers) /\ x = "no"
      BY <1>7, <1>15, <1>23, <2>1, <2>2 DEF Fails, LastRead
    <3> QED
      BY <3>1 DEF AtConnect
  <2>3. CASE a.answer.k # "failure"
    <3>1. Takes(b, b', w, x) /\ Plains(b'.handlers) /\ Steady(b, b') /\ b'.handlers = Tail(b.handlers)
      BY <1>19, <1>20, <2>1, <2>3 DEF Down
    <3>2. b'.curr = 0 /\ b'.state = "unauthorized" /\ ~b'.err /\ b'.out = << >>
      BY <1>12, <2>1, <3>1 DEF Steady
    <3>3. x # "receive" /\ (x = "no" => b'.handlers = << >>)
      BY <1>21, <2>1, <3>1 DEF Takes
    <3> QED
      BY <3>1, <3>2, <3>3 DEF AtConnect
  <2> QED
    BY <2>2, <2>3
<1>25. loan # "connecting" => Resetting(b', m, x)
  <2>1. loan # "connecting" => x # "receive"
    BY <1>7 DEF w
  <2>2. x # "no" => b'.state # "dead"
    BY <1>6, <1>7, <1>15 DEF LastRead
  <2>3. b'.state = "dead" => b'.err
    BY <1>6, <1>15 DEF Fails
  <2> QED
    BY <2>1, <2>2, <2>3 DEF Resetting
<1>26. loan = "returning" => AtReturn(b', m, x)
  BY <1>3, <1>25 DEF AtReturn
<1>27. loan = "lending" => AtLend(b', m, x)
  <2> SUFFICES ASSUME loan = "lending" PROVE AtLend(b', m, x)
    OBVIOUS
  <2>1. /\ b.curr = 0 /\ b.state \in {"ready", "failed"} /\ (b.state = "ready" => Plains(b.handlers))
        /\ ~On(m, {"forceReset"}) => Rested(b)
    BY <1>5, <1>6 DEF AtLend, w
  <2>2. b'.state \in {"ready", "failed", "dead"} /\ (b'.state = "ready" => b.state = "ready" /\ a.answer.k # "failure")
    BY <1>15, <2>1 DEF Fails, Down
  <2>3. b'.state = "ready" => Plains(b'.handlers) /\ Steady(b, b')
    BY <1>20, <2>1, <2>2 DEF Down
  <2>4. b'.curr = 0
    <3>1. CASE a.answer.k = "failure"
      BY <1>15, <3>1 DEF Fails
    <3>2. CASE a.answer.k # "failure" /\ b.state = "ready"
      BY <1>20, <2>1, <3>2 DEF Steady, Down
    <3>3. CASE a.answer.k # "failure" /\ b.state = "failed"
      <4>1. srv.st = "failed" \/ Plains(b.handlers)
        BY <1>5, <3>3 DEF General
      <4>2. h.on # "reset"
        BY <1>6, <1>13 DEF NoReset
      <4>3. Head(b.wire).m = h.on
        BY <1>1, <1>4, <1>6, RequestOf DEF h
      <4>4. srv.st = "failed" => a.answer.k = "ignored"
        BY <1>1, <1>4, <4>2, <4>3, AnswersSaid
      <4>5. Plains(b.handlers) => h.s = 0
        BY <1>13 DEF Plains
      <4>6. Steady(b, b') \/ Closes(b, b', h.s)
        BY <1>11, <1>14, <3>3, <4>1, <4>4, <4>5 DEF Outcome
      <4> QED
        BY <2>1, <4>6 DEF Steady, Closes
    <3> QED
      BY <2>1, <3>1, <3>2, <3>3
  <2>5. ~On(m, {"forceReset"}) => Rested(b')
    <3>1. b.v.major = 4 /\ Rested(b) /\ b.state = "ready" => FALSE
      BY <1>14 DEF Rested
    <3> QED
      BY <1>12, <2>1, <2>2, <2>3, <3>1 DEF Rested
  <2> QED
    BY <1>25, <2>2, <2>3, <2>4, <2>5 DEF AtLend
<1>28. StateInv'
  BY <1>1, <1>3, <1>5, <1>8, <1>16, <1>17, <1>24, <1>26, <1>27, OutsideNext
<1> QED
  BY <1>12, <1>28, TamePut DEF Goes

\* A response is read.
LEMMA ReceiveGoes ==
  ASSUME Here, Receive
  PROVE  Goes
<1>1. CASE loan \in Use
  BY <1>1, ReceiveInUse
<1>2. CASE loan \notin Use
  <2>1. Waiting /\ Top.at \in {"receive", "receiveAll"}
    BY ReceiveParts
  <2>2. loan \in {"connecting", "returning", "lending"}
    BY <1>2, <2>1, OutsideWait DEF Here
  <2> QED
    BY <1>2, <2>2, ResetAnswered, ReceiveOutside
<1> QED
  BY <1>1, <1>2

-----------------------------------------------------------------------------
(* The steps of versions 4 to 6.                                           *)

\* What they share; once, whether a call reads one response whatever it answers.
SharedBy(once) ==
  \/ Connect(once) \/ Connected \/ Begins \/ Ends \/ Moves \/ Calls \/ Results \/ Resets \/ Lends \/ Tables
  \/ Reads \/ RunReceive(once) \/ Telemetry \/ Close

\* Every call that versions 4 to 6 share.
LEMMA SharedGoes ==
  ASSUME Here, NEW once \in BOOLEAN, once <=> b.v.major = 4, SharedBy(once)
  PROVE  Goes
<1>1. CASE Connect(once) \/ Connected
  BY <1>1, ConnectGoes, ConnectedGoes
<1>2. CASE Begins
  BY <1>2, TxBeginGoes, TxBeginSendGoes, TxBegunGoes DEF Begins
<1>3. CASE Ends
  BY <1>3, TxEndGoes, TxEndSendGoes, TxEndedGoes DEF Ends
<1>4. CASE Moves
  BY <1>4, DiscardStreamGoes, BufferStreamGoes, PauseStreamGoes DEF Moves
<1>5. CASE Calls
  BY <1>5, RunGoes, RunTxGoes DEF Calls
<1>6. CASE Results
  BY <1>6, NextGoes, ExhaustGoes, NextStepGoes, ExhaustStepGoes DEF Results
<1>7. CASE Resets
  BY <1>7, ResetGoes, ForceResetGoes, ResetDoneGoes, BorrowGoes DEF Resets
<1>8. CASE Lends
  BY <1>8, FallbackReAuthGoes, ReAuthGoes, ReAuthDoneGoes, LendingDoneGoes DEF Lends
<1>9. CASE Tables
  BY <1>9, GetRoutingTableGoes, CallGetRoutingTableGoes, CallGetRoutingTableNextGoes DEF Tables
<1>10. CASE Reads
  BY <1>10, ReceiveGoes, ReceiveIoErrorGoes DEF Reads
<1>11. CASE RunReceive(once)
  BY <1>11, RunReceiveGoes
<1>12. CASE Telemetry
  BY <1>12, TelemetryGoes
<1>13. CASE Close
  BY <1>13, CloseGoes
<1> QED
  BY <1>1, <1>2, <1>3, <1>4, <1>5, <1>6, <1>7, <1>8, <1>9, <1>10, <1>11, <1>12, <1>13 DEF SharedBy

\* Version 4.
LEMMA Steps4Goes ==
  ASSUME BoltInv, BoltInv', StateInv, Steps4
  PROVE  Goes
<1>1. b.v.major = 4
  BY DEF Steps4, Is4, Connect4, TxBegin4, TxEnd4, DiscardStream4, BufferStream4, Run4, RunCalls4, Next4,
         Exhaust4, Reset4, GetRoutingTable4, CallGetRoutingTable4, Close4, ReAuth4, Receive4
<1>2. PICK t \in BOOLEAN : t = TRUE
  OBVIOUS
<1>3. SharedBy(t) \/ RunSend(PackError(RunQueued))
  <2>1. Connect4 \/ TxBegin4 \/ TxEnd4 \/ DiscardStream4 \/ BufferStream4 => SharedBy(t)
    BY <1>2 DEF Connect4, TxBegin4, TxEnd4, DiscardStream4, BufferStream4, SharedBy, Begins, Ends, Moves
  <2>2. Run4 \/ RunCalls4 => SharedBy(t) \/ RunSend(PackError(RunQueued))
    BY <1>2 DEF Run4, RunCalls4, SharedBy, Calls
  <2>3. Next4 \/ Exhaust4 \/ Reset4 => SharedBy(t)
    BY DEF Next4, Exhaust4, Reset4, SharedBy, Results, Resets
  <2>4. GetRoutingTable4 \/ CallGetRoutingTable4 \/ Close4 \/ ReAuth4 \/ Receive4 => SharedBy(t)
    BY DEF GetRoutingTable4, CallGetRoutingTable4, Close4, ReAuth4, Receive4, SharedBy, Tables, Lends, Reads
  <2> QED
    BY <2>1, <2>2, <2>3, <2>4 DEF Steps4
<1>4. Here
  BY <1>1 DEF Here
<1> QED
  BY <1>1, <1>2, <1>3, <1>4, SharedGoes, RunSendGoes

\* Version 5.
LEMMA Steps5Goes ==
  ASSUME BoltInv, BoltInv', StateInv, Steps5
  PROVE  Goes
<1>1. b.v.major = 5
  BY DEF Steps5, Is5, Connect5, TxBegin5, TxEnd5, Streams5, Run5, RunCalls5, Results5, Reset5,
         GetRoutingTable5, ReAuth5, Telemetry5, Close5, Receive5
<1>2. PICK t \in BOOLEAN : t = FALSE
  OBVIOUS
<1>3. SharedBy(t) \/ RunSend(PackError(RunQueued))
  <2>1. Connect5 \/ TxBegin5 \/ TxEnd5 \/ Streams5 => SharedBy(t)
    BY <1>2 DEF Connect5, TxBegin5, TxEnd5, Streams5, SharedBy, Begins, Ends, Moves
  <2>2. Run5 \/ RunCalls5 => SharedBy(t) \/ RunSend(PackError(RunQueued))
    BY <1>2 DEF Run5, RunCalls5, SharedBy, Calls
  <2>3. Results5 \/ Reset5 => SharedBy(t)
    BY DEF Results5, Reset5, SharedBy, Results, Resets
  <2>4. GetRoutingTable5 \/ ReAuth5 \/ Telemetry5 \/ Close5 \/ Receive5 => SharedBy(t)
    BY DEF GetRoutingTable5, ReAuth5, Telemetry5, Close5, Receive5, SharedBy, Tables, Lends, Reads
  <2> QED
    BY <2>1, <2>2, <2>3, <2>4 DEF Steps5
<1>4. Here
  BY <1>1 DEF Here
<1> QED
  BY <1>1, <1>2, <1>3, <1>4, SharedGoes, RunSendGoes

\* Version 6.
LEMMA Steps6Goes ==
  ASSUME BoltInv, BoltInv', StateInv, RejectedAlone, Steps6
  PROVE  Goes
<1>1. b.v.major = 6
  BY DEF Steps6, Is6, Connect6, TxBegin6, TxEnd6, Streams6, Run6, RunCalls6, Results6, Reset6,
         GetRoutingTable6, ReAuth6, Telemetry6, Close6, Receive6
<1>2. PICK t \in BOOLEAN : t = FALSE
  OBVIOUS
<1>3. SharedBy(t) \/ RunSend(PackError6(RunQueued))
  <2>1. Connect6 \/ TxBegin6 \/ TxEnd6 \/ Streams6 => SharedBy(t)
    BY <1>2 DEF Connect6, TxBegin6, TxEnd6, Streams6, SharedBy, Begins, Ends, Moves
  <2>2. Run6 \/ RunCalls6 => SharedBy(t) \/ RunSend(PackError6(RunQueued))
    BY <1>2 DEF Run6, RunCalls6, SharedBy, Calls
  <2>3. Results6 \/ Reset6 => SharedBy(t)
    BY DEF Results6, Reset6, SharedBy, Results, Resets
  <2>4. GetRoutingTable6 \/ ReAuth6 \/ Telemetry6 \/ Close6 \/ Receive6 => SharedBy(t)
    BY DEF GetRoutingTable6, ReAuth6, Telemetry6, Close6, Receive6, SharedBy, Tables, Lends, Reads
  <2> QED
    BY <2>1, <2>2, <2>3, <2>4 DEF Steps6
<1>4. Here
  BY <1>1 DEF Here
<1>5. CASE RunSend(PackError6(RunQueued))
  <2>1. Top.pack = "rejected" => b.handlers = << >>
    BY <1>1, <1>5 DEF RejectedAlone, RunSend
  <2> QED
    BY <1>4, <1>5, <2>1, RunSend6Goes
<1> QED
  BY <1>1, <1>2, <1>3, <1>4, <1>5, SharedGoes

-----------------------------------------------------------------------------
(* Version 3. It has no queue: what a call waits for is on the wire because *)
(* the call sent it, and the only stream is of this loan.                   *)

ReadFrames == {"receive", "receiveAll", "success3", "record3", "reset3"}
NoRead(q) == \A i \in 1 .. Len(q) : q[i].at \notin ReadFrames

\* What is read at f was sent.
Awaits3(c, f) ==
  \/ f.at = "success3" /\ c.wire # << >> /\ (f.then = "run" => Len(c.wire) >= 2)
  \/ f.at = "record3" /\ f.s = c.curr /\ c.state \in {"streaming", "streamingTx"}
  \/ f.at = "reset3" /\ c.wire # << >> /\ c.wire[Len(c.wire)].m = "reset"
Stack3(c, k) == NoRead(k) \/ (k # << >> /\ NoRead(Tail(k)) /\ Awaits3(c, Head(k)))
Conforms3(c, k) ==
  /\ c.curr # 0 => c.curr >= c.live
  /\ c.state \in {"streaming", "streamingTx"} => c.wire # << >>
  /\ Stack3(c, k)
StateInv3 == b.v.major = 3 => Conforms3(b, stack)

Goes3 == StateInv3' /\ Put(b, b')
Here3 == BoltInv /\ StateInv3 /\ b.v.major = 3

\* The frames of a call are a sequence.
LEMMA FramesSeq ==
  ASSUME BoltInv
  PROVE  \E S : stack \in Seq(S)
<1>1. CASE loan \in Use
  BY <1>1, StackSeq
<1>2. CASE loan \notin Use
  <2>1. \/ stack = << >> \/ (\E f : stack = <<f>>) \/ (\E f, g : stack = <<f, g>>)
        \/ \E f, g, h : stack = <<f, g, h>>
    BY <1>2 DEF BoltInv, Phase, Idle, Connecting, Returning, Lending
  <2>2. CASE stack = << >>
    BY <2>2, EmptySeq
  <2>3. ASSUME NEW f, stack = <<f>> PROVE \E S : stack \in Seq(S)
    <3>1. <<f>> \in Seq({f})
      OBVIOUS
    <3> QED
      BY <2>3, <3>1
  <2>4. ASSUME NEW f, NEW g, stack = <<f, g>> PROVE \E S : stack \in Seq(S)
    <3>1. <<f, g>> \in Seq({f, g})
      OBVIOUS
    <3> QED
      BY <2>4, <3>1
  <2>5. ASSUME NEW f, NEW g, NEW h, stack = <<f, g, h>> PROVE \E S : stack \in Seq(S)
    <3>1. <<f, g, h>> \in Seq({f, g, h})
      OBVIOUS
    <3> QED
      BY <2>5, <3>1
  <2> QED
    BY <2>1, <2>2, <2>3, <2>4, <2>5
<1> QED
  BY <1>1, <1>2

\* A frame is put on others.
LEMMA OnFrames3 ==
  ASSUME NEW S, NEW q \in Seq(S), NoRead(q), NEW c
  PROVE  /\ Stack3(c, q) /\ << >> \o q = q
         /\ \A f : Awaits3(c, f) => Stack3(c, <<f>> \o q)
         /\ \A f : f.at \notin ReadFrames => NoRead(<<f>> \o q) /\ Stack3(c, <<f>> \o q)
<1>1. << >> \o q = q
  OBVIOUS
<1>2. ASSUME NEW f PROVE /\ Awaits3(c, f) => Stack3(c, <<f>> \o q)
                         /\ f.at \notin ReadFrames => NoRead(<<f>> \o q)
  <2>1. PICK k : k = <<f>> \o q
    OBVIOUS
  <2>2. /\ k # << >> /\ k[1] = f /\ Tail(k) = q
        /\ Len(k) = Len(q) + 1 /\ \A i \in 1 .. Len(q) : k[i + 1] = q[i]
    BY <2>1, Pushed
  <2>3. k \in Seq(S \cup {f})
    <3>1. q \in Seq(S \cup {f})
      BY SeqMono
    <3> QED
      BY <2>1, <3>1, OnTop
  <2>4. Head(k) = f
    BY <2>2, <2>3, Popped
  <2>5. Awaits3(c, f) => Stack3(c, k)
    BY <2>2, <2>4 DEF Stack3
  <2>6. f.at \notin ReadFrames => NoRead(k)
    <3> SUFFICES ASSUME f.at \notin ReadFrames, NEW i \in 1 .. Len(k) PROVE k[i].at \notin ReadFrames
      BY DEF NoRead
    <3>1. Len(q) \in Nat
      BY LenProperties
    <3>2. CASE i = 1
      BY <2>2, <3>2
    <3>3. CASE i # 1
      <4>1. i - 1 \in 1 .. Len(q) /\ (i - 1) + 1 = i
        BY <2>2, <3>1, <3>3
      <4>2. k[i] = q[i - 1]
        BY <2>2, <4>1
      <4> QED
        BY <4>1, <4>2 DEF NoRead
    <3> QED
      BY <3>2, <3>3
  <2> QED
    BY <2>1, <2>5, <2>6
<1> QED
  BY <1>1, <1>2 DEF Stack3

\* Where a call of version 3 is.
LEMMA Top3 ==
  ASSUME Here3, ~Idle
  PROVE  /\ NoRead(Tail(stack)) /\ (\E S : Tail(stack) \in Seq(S))
         /\ Top.at \in ReadFrames => Awaits3(b, Top)
         /\ \A c : Stack3(c, Tail(stack)) /\ Stack3(c, << >> \o Tail(stack))
         /\ \A c, f : Awaits3(c, f) => Stack3(c, <<f>> \o Tail(stack))
         /\ \A c : Awaits3(c, Top) => Stack3(c, stack)
<1>1. PICK S : stack \in Seq(S)
  BY FramesSeq DEF Here3
<1>2. /\ Len(stack) \in Nat \ {0} /\ Top = stack[1] /\ Tail(stack) \in Seq(S) /\ stack # << >>
      /\ Len(Tail(stack)) = Len(stack) - 1
      /\ \A i \in 1 .. Len(Tail(stack)) : Tail(stack)[i] = stack[i + 1] /\ i + 1 \in 2 .. Len(stack)
  BY <1>1, Popped DEF Top, Idle
<1>3. NoRead(stack) => NoRead(Tail(stack)) /\ Top.at \notin ReadFrames
  <2> SUFFICES ASSUME NoRead(stack) PROVE NoRead(Tail(stack)) /\ Top.at \notin ReadFrames
    OBVIOUS
  <2>1. 1 \in 1 .. Len(stack) /\ 2 .. Len(stack) \subseteq 1 .. Len(stack)
    BY <1>2
  <2>2. \A i \in 1 .. Len(Tail(stack)) : Tail(stack)[i].at \notin ReadFrames
    BY <1>2, <2>1 DEF NoRead
  <2> QED
    BY <1>2, <2>1, <2>2 DEF NoRead
<1>4. NoRead(Tail(stack)) /\ (Top.at \in ReadFrames => Awaits3(b, Top))
  BY <1>3 DEF Here3, StateInv3, Conforms3, Stack3, Top
<1>5. \A c : /\ Stack3(c, Tail(stack)) /\ << >> \o Tail(stack) = Tail(stack)
             /\ \A f : Awaits3(c, f) => Stack3(c, <<f>> \o Tail(stack))
  BY <1>2, <1>4, OnFrames3
<1>6. \A c : Awaits3(c, Top) => Stack3(c, stack)
  BY <1>2, <1>4 DEF Stack3, Top
<1> QED
  BY <1>2, <1>4, <1>5, <1>6

\* The stream is read to its end first.
LEMMA Read3Stack ==
  ASSUME NEW S, NEW q \in Seq(S), NoRead(q), NEW mode
  PROVE  Stack3(b, Read3(mode, q))
<1>1. PICK f : f = [at |-> "record3", s |-> b.curr, mode |-> mode]
  OBVIOUS
<1>2. Read3(mode, q) = IF Streaming3 THEN <<f>> \o q ELSE q
  BY <1>1 DEF Read3
<1>3. Streaming3 => Awaits3(b, f)
  BY <1>1 DEF Awaits3, Streaming3
<1> QED
  BY <1>2, <1>3, OnFrames3

\* A step that leaves the streams alone.
LEMMA Still3 ==
  ASSUME Here3, b'.live = b.live, b'.v = b.v, b'.streams = b.streams, b'.curr \in {0, b.curr},
         b'.state \in {"streaming", "streamingTx"} => b'.wire # << >>, Stack3(b', stack')
  PROVE  Goes3
<1>1. StateInv3'
  BY DEF Here3, StateInv3, Conforms3
<1>2. Put(b, b')
  BY DEF Put, StaysPut
<1> QED
  BY <1>1, <1>2 DEF Goes3

\* A step that leaves the connection alone.
LEMMA Same3 ==
  ASSUME Here3, b' = b, Stack3(b, stack')
  PROVE  Goes3
<1>1. b.state \in {"streaming", "streamingTx"} => b.wire # << >>
  BY DEF Here3, StateInv3, Conforms3
<1> QED
  BY <1>1, Still3

-----------------------------------------------------------------------------
(* Requests of version 3.                                                  *)

\* What becomes of a request.
LEMMA Send3Does ==
  ASSUME NEW c, Conn(c), NEW m, NEW s
  PROVE  LET d == Send3(c, m, s)
             r == Request(m, s, All, -1)
         IN  /\ d.live = c.live /\ d.v = c.v /\ d.streams = c.streams /\ d.curr = c.curr
             /\ d.state \in {c.state, "dead"}
             /\ d.wire = c.wire \/ d.wire = Append(c.wire, r)
             /\ ~d.err => d.wire = Append(c.wire, r) /\ d.state = c.state
<1>1. DOMAIN c = ConnFields
  BY DEF Conn
<1> QED
  BY <1>1 DEF Send3, ConnFields

\* A longer wire.
LEMMA Appended ==
  ASSUME NEW w \in Seq(Requests), NEW r
  PROVE  /\ Append(w, r) # << >> /\ Len(Append(w, r)) = Len(w) + 1 /\ Append(w, r)[Len(Append(w, r))] = r
         /\ Len(w) \in Nat
<1>1. w \in Seq(Requests \cup {r}) /\ r \in Requests \cup {r}
  BY SeqMono
<1>2. Len(w) \in Nat
  BY LenProperties
<1>3. Append(w, r) \in Seq(Requests \cup {r}) /\ Len(Append(w, r)) = Len(w) + 1 /\ Append(w, r)[Len(w) + 1] = r
  BY <1>1, AppendProperties
<1>4. Append(w, r) # << >>
  BY <1>1, <1>2, <1>3, EmptySeq
<1> QED
  BY <1>2, <1>3, <1>4

\* A request is sent and its success awaited.
LEMMA SendsGoes ==
  ASSUME Here3, ~Idle, NEW m, NEW then, then # "run", b.state \notin {"streaming", "streamingTx"},
         b' = Send3(b, m, NoStream), stack' = Await3(b', then) \o Tail(stack)
  PROVE  Goes3
<1>1. PICK r : r = Request(m, NoStream, All, -1)
  OBVIOUS
<1>2. Conn(b) /\ b.wire \in Seq(Requests)
  BY DEF Here3, BoltInv, Conn
<1>3. /\ b'.live = b.live /\ b'.v = b.v /\ b'.streams = b.streams /\ b'.curr = b.curr
      /\ b'.state \in {b.state, "dead"} /\ (~b'.err => b'.wire = Append(b.wire, r))
  BY <1>1, <1>2, Send3Does
<1>4. PICK f : f = [at |-> "success3", then |-> then]
  OBVIOUS
<1>5. stack' = (IF b'.err THEN << >> ELSE <<f>>) \o Tail(stack)
  BY <1>4 DEF Await3
<1>6. ~b'.err => Awaits3(b', f)
  BY <1>2, <1>3, <1>4, Appended DEF Awaits3
<1>7. Stack3(b', stack')
  BY <1>5, <1>6, Top3
<1> QED
  BY <1>3, <1>7, Still3

\* A frame that is not read at leaves the stack.
LEMMA Drop3 ==
  ASSUME Here3, ~Idle, b' = b, stack' = << >> \o Tail(stack)
  PROVE  Goes3
<1>1. Stack3(b, stack')
  BY Top3
<1> QED
  BY <1>1, Same3

\* TxBegin3Send.
LEMMA TxBegin3SendGoes ==
  ASSUME Here3, TxBegin3Send
  PROVE  Goes3
<1>1. ~Idle /\ (AssertState(b, {"ready"}) => b.state = "ready")
  BY DEF TxBegin3Send, At, AssertState
<1>2. PICK ok \in BOOLEAN : ok = (AssertState(b, {"ready"}) /\ Top.supported)
  OBVIOUS
<1>3. \/ ~ok /\ b' = b /\ stack' = << >> \o Tail(stack)
      \/ ok /\ b' = Send3(b, "begin", NoStream) /\ stack' = Await3(b', "begin") \o Tail(stack)
  BY <1>2 DEF TxBegin3Send, Continue
<1>4. PICK m, then : m = "begin" /\ then = "begin"
  OBVIOUS
<1> QED
  BY <1>1, <1>2, <1>3, <1>4, Drop3, SendsGoes

\* TxEnd3Send.
LEMMA TxEnd3SendGoes ==
  ASSUME Here3, TxEnd3Send
  PROVE  Goes3
<1>1. ~Idle /\ Top.at = "end3" /\ (AssertState(b, {"tx"}) => b.state = "tx")
  BY DEF TxEnd3Send, At, AssertState
<1>2. Top.how # "run"
  <2>1. loan \in Use /\ Top \in Fit(b)
    BY <1>1, InUse DEF UseFrames, Here3
  <2>2. Top \in OnEnd3
    BY <1>1, <2>1, FrameKinds DEF Fit
  <2> QED
    BY <2>2 DEF OnEnd3
<1>3. \/ b' = b /\ stack' = << >> \o Tail(stack)
      \/ b.state = "tx" /\ b' = Send3(b, Top.how, NoStream) /\ stack' = Await3(b', Top.how) \o Tail(stack)
  BY <1>1 DEF TxEnd3Send, Continue
<1> QED
  BY <1>1, <1>2, <1>3, Drop3, SendsGoes

\* Connect3.
LEMMA Connect3Goes ==
  ASSUME Here3, Connect3
  PROVE  Goes3
<1>1. /\ Idle /\ b.state = "unauthorized" /\ b' = Send3(b, "hello", NoStream) /\ stack' = Await3(b', "hello")
  BY DEF Connect3, Start, AssertState
<1>2. PICK r : r = Request("hello", NoStream, All, -1)
  OBVIOUS
<1>3. Conn(b) /\ b.wire \in Seq(Requests)
  BY DEF Here3, BoltInv, Conn
<1>4. /\ b'.live = b.live /\ b'.v = b.v /\ b'.streams = b.streams /\ b'.curr = b.curr
      /\ b'.state \in {b.state, "dead"} /\ (~b'.err => b'.wire = Append(b.wire, r))
  BY <1>1, <1>2, <1>3, Send3Does
<1>5. PICK f : f = [at |-> "success3", then |-> "hello"]
  OBVIOUS
<1>6. stack' = IF b'.err THEN << >> ELSE <<f>>
  BY <1>1, <1>5 DEF Await3
<1>7. ~b'.err => Awaits3(b', f)
  BY <1>3, <1>4, <1>5, Appended DEF Awaits3
<1>8. Stack3(b', stack')
  <2>1. NoRead(<< >>)
    BY DEF NoRead
  <2>2. Tail(<<f>>) = << >> /\ Head(<<f>>) = f /\ <<f>> # << >>
    BY ShortStack
  <2> QED
    BY <1>6, <1>7, <2>1, <2>2 DEF Stack3
<1> QED
  BY <1>1, <1>4, <1>8, Still3

\* Run3Send: RUN and PULL_ALL are sent together.
LEMMA Run3SendGoes ==
  ASSUME Here3, Run3Send
  PROVE  Goes3
<1> DEFINE s == b.made + 1
           d == Send3(b, "run", s)
           e == Send3(d, "pull", s)
           dead == [b EXCEPT !.err = TRUE, !.state = "dead"]
<1>1. ~Idle /\ Top.at = "run3" /\ (AssertState(b, {"tx", "ready"}) => b.state \in {"tx", "ready"}) /\ Conn(b)
  BY DEF Run3Send, At, AssertState, Here3, BoltInv
<1>2. \/ b' = b /\ stack' = << >> \o Tail(stack)
      \/ b.state \in {"tx", "ready"} /\ b' = e /\ stack' = Await3(e, "run") \o Tail(stack)
      \/ b' = dead /\ stack' = << >> \o Tail(stack)
  BY <1>1 DEF Run3Send, Continue
<1>3. CASE b' = b /\ stack' = << >> \o Tail(stack)
  BY <1>1, <1>3, Drop3
<1>4. CASE b' = dead /\ stack' = << >> \o Tail(stack)
  <2>1. /\ dead.live = b.live /\ dead.v = b.v /\ dead.streams = b.streams /\ dead.curr = b.curr /\ dead.state = "dead"
    BY <1>1 DEF Conn, ConnFields
  <2> HIDE DEF dead
  <2>2. Stack3(b', stack')
    BY <1>1, <1>4, Top3
  <2> QED
    BY <1>4, <2>1, <2>2, Still3
<1>5. CASE b.state \in {"tx", "ready"} /\ b' = e /\ stack' = Await3(e, "run") \o Tail(stack)
  <2>1. loan \in Use /\ Top \in Fit(b)
    BY <1>1, InUse DEF UseFrames, Here3
  <2>2. b.made < MaxStreams
    BY <1>1, <2>1 DEF Fit, Makes
  <2>3. s \in 0 .. MaxStreams /\ "run" \in Messages /\ "pull" \in Messages
    BY <1>1, <2>2, NoStreamFits, StreamsAreCounted DEF Messages
  <2> HIDE DEF s
  <2>4. PICK r, q : r = Request("run", s, All, -1) /\ q = Request("pull", s, All, -1)
    OBVIOUS
  <2>5. /\ d.live = b.live /\ d.v = b.v /\ d.streams = b.streams /\ d.curr = b.curr
        /\ d.state \in {b.state, "dead"}
        /\ d.wire = b.wire \/ d.wire = Append(b.wire, r)
        /\ ~d.err => d.wire = Append(b.wire, r)
    BY <1>1, <2>4, Send3Does
  <2>6. Conn(d) /\ d.v.major = 3
    BY <1>1, <2>3, Send3Keeps DEF Moves3, Here3
  <2> HIDE DEF d
  <2>7. /\ e.live = d.live /\ e.v = d.v /\ e.streams = d.streams /\ e.curr = d.curr
        /\ e.state \in {d.state, "dead"}
        /\ ~e.err => e.wire = Append(d.wire, q)
    BY <2>4, <2>6, Send3Does
  <2>8. d.err => e.err
    BY <2>3, <2>6, Send3Keeps DEF Keeps
  <2> HIDE DEF e
  <2>9. PICK f : f = [at |-> "success3", then |-> "run"]
    OBVIOUS
  <2>10. Await3(e, "run") = IF e.err THEN << >> ELSE <<f>>
    BY <2>9 DEF Await3
  <2>11. ~e.err => Awaits3(e, f)
    <3> SUFFICES ASSUME ~e.err PROVE Awaits3(e, f)
      OBVIOUS
    <3>1. d.wire = Append(b.wire, r) /\ e.wire = Append(d.wire, q)
      BY <2>5, <2>7, <2>8
    <3>2. b.wire \in Seq(Requests) /\ d.wire \in Seq(Requests)
      BY <1>1, <2>6 DEF Conn
    <3>3. Len(b.wire) \in Nat /\ Len(d.wire) = Len(b.wire) + 1
      BY <3>1, <3>2, Appended
    <3>4. Len(e.wire) = Len(d.wire) + 1 /\ e.wire # << >>
      BY <3>1, <3>2, Appended
    <3> QED
      BY <2>9, <3>3, <3>4 DEF Awaits3
  <2>12. Stack3(b', stack')
    BY <1>1, <1>5, <2>10, <2>11, Top3
  <2>13. b'.state \notin {"streaming", "streamingTx"}
    BY <1>5, <2>5, <2>7
  <2> QED
    BY <1>5, <2>5, <2>7, <2>12, <2>13, Still3
<1> QED
  BY <1>2, <1>3, <1>4, <1>5

\* A stack of one frame or two at which nothing is read.
LEMMA Short3 ==
  ASSUME NEW f, NEW g, f.at \notin ReadFrames, g.at \notin ReadFrames, NEW mode
  PROVE  /\ Stack3(b, << >>) /\ Stack3(b, <<f>>) /\ Stack3(b, <<f, g>>)
         /\ Stack3(b, Read3(mode, << >>)) /\ Stack3(b, Read3(mode, <<f>>)) /\ Stack3(b, Read3(mode, <<f, g>>))
<1>1. NoRead(<< >>) /\ << >> \in Seq({})
  BY EmptySeq DEF NoRead
<1>2. NoRead(<<f>>) /\ <<f>> \in Seq({f})
  BY DEF NoRead
<1>3. NoRead(<<f, g>>) /\ <<f, g>> \in Seq({f, g})
  BY DEF NoRead
<1>4. PICK k : k = <<f>>
  OBVIOUS
<1>5. PICK l : l = <<f, g>>
  OBVIOUS
<1>6. Stack3(b, k) /\ Stack3(b, Read3(mode, k))
  BY <1>2, <1>4, Read3Stack DEF Stack3
<1>7. Stack3(b, l) /\ Stack3(b, Read3(mode, l))
  BY <1>3, <1>5, Read3Stack DEF Stack3
<1>8. Stack3(b, << >>) /\ Stack3(b, Read3(mode, << >>))
  BY <1>1, Read3Stack DEF Stack3
<1> QED
  BY <1>4, <1>5, <1>6, <1>7, <1>8

\* Calls that start.
LEMMA Starts3Goes ==
  ASSUME Here3,
         \/ \E option \in Options : TxBegin3(option)
         \/ \E how \in {"commit", "rollback"} : TxEnd3(how)
         \/ \E option \in Options, pack \in Packs : Run3(option, pack)
         \/ \E pack \in Packs : RunTx3(pack)
         \/ \E s \in Streams, how \in {"discard", "buffer"} : Exhaust3(s, how)
         \/ GetRoutingTable3
         \/ \E x \in BOOLEAN : Borrow3(x)
  PROVE  Goes3
<1>1. b' = b
  BY DEF TxBegin3, TxEnd3, Run3, RunTx3, Exhaust3, GetRoutingTable3, Borrow3, Start
<1>2. Stack3(b, stack')
  <2>1. ASSUME NEW option, TxBegin3(option) PROVE Stack3(b, stack')
    <3>1. PICK f : f = [at |-> "begin3", supported |-> option = "plain"]
      OBVIOUS
    <3>2. f.at \notin ReadFrames
      BY <3>1 DEF ReadFrames
    <3>3. stack' = IF b.state = "streaming" THEN Read3("buffer", <<f>>) ELSE <<f>>
      BY <2>1, <3>1 DEF TxBegin3, Start
    <3> QED
      BY <3>2, <3>3, Short3
  <2>2. ASSUME NEW how, TxEnd3(how) PROVE Stack3(b, stack')
    <3>1. PICK f : f = [at |-> "end3", how |-> how]
      OBVIOUS
    <3>2. f.at \notin ReadFrames
      BY <3>1 DEF ReadFrames
    <3>3. stack' = IF b.state = "streamingTx" THEN Read3("discard", <<f>>) ELSE <<f>>
      BY <2>2, <3>1 DEF TxEnd3, Start
    <3> QED
      BY <3>2, <3>3, Short3
  <2>3. ASSUME NEW option, NEW pack, Run3(option, pack) \/ RunTx3(pack) PROVE Stack3(b, stack')
    <3>1. PICK f : f = [at |-> "run3", pack |-> pack]
      OBVIOUS
    <3>2. f.at \notin ReadFrames
      BY <3>1 DEF ReadFrames
    <3>3. stack' = Read3("buffer", <<f>>) \/ stack' = << >>
      BY <2>3, <3>1 DEF Run3, RunTx3, Start
    <3> QED
      BY <3>2, <3>3, Short3
  <2>4. ASSUME NEW s, NEW how, Exhaust3(s, how) PROVE Stack3(b, stack')
    <3>1. PICK f : f = F("run3")
      OBVIOUS
    <3>2. f.at \notin ReadFrames
      BY <3>1 DEF ReadFrames, F
    <3>3. stack' = Read3(how, << >>)
      BY <2>4 DEF Exhaust3, Start
    <3> QED
      BY <3>2, <3>3, Short3
  <2>5. CASE GetRoutingTable3
    <3>1. PICK f, g : f = [at |-> "run3", pack |-> "ok"] /\ g = [at |-> "table3", left |-> 2]
      OBVIOUS
    <3>2. f.at \notin ReadFrames /\ g.at \notin ReadFrames
      BY <3>1 DEF ReadFrames
    <3>3. stack' = <<f, g>>
      BY <2>5, <3>1 DEF GetRoutingTable3, Start
    <3>4. PICK mode : mode = "next"
      OBVIOUS
    <3> QED
      BY <3>2, <3>3, Short3
  <2>6. ASSUME NEW x \in BOOLEAN, Borrow3(x) PROVE Stack3(b, stack')
    <3>1. PICK f, g : f = F("forceCheck3") /\ g = F("reauth")
      OBVIOUS
    <3>2. f.at \notin ReadFrames /\ g.at \notin ReadFrames
      BY <3>1 DEF ReadFrames, F
    <3>3. stack' = (IF x THEN <<f>> ELSE << >>) \o <<g>>
      BY <2>6, <3>1 DEF Borrow3, Start, F
    <3>4. stack' = <<f, g>> \/ stack' = <<g>>
      BY <3>3, ShortConcat
    <3>5. PICK mode : mode = "next"
      OBVIOUS
    <3> QED
      BY <3>2, <3>4, Short3
  <2> QED
    BY <2>1, <2>2, <2>3, <2>4, <2>5, <2>6
<1> QED
  BY <1>1, <1>2, Same3

\* Next3: a record of the buffer, or one that is read.
LEMMA Next3Goes ==
  ASSUME Here3, NEW s \in Streams, Next3(s)
  PROVE  Goes3
<1> DEFINE d == [b EXCEPT !.streams[s].fifo = Tail(@)]
<1>1. /\ Idle /\ s \in b.live .. b.made /\ Conn(b) /\ b.live \in Int
      /\ \/ b' = d /\ stack' = stack
         \/ b' = b /\ stack' = Read3("next", << >>)
  BY DEF Next3, Here3, BoltInv, Conn
<1>2. CASE b' = d /\ stack' = stack
  <2>1. /\ d.live = b.live /\ d.v = b.v /\ d.curr = b.curr /\ d.wire = b.wire /\ d.state = b.state
        /\ \A r \in Streams : r # s => d.streams[r] = b.streams[r]
    BY <1>1 DEF Conn, ConnFields
  <2> HIDE DEF d
  <2>2. NoRead(stack')
    BY <1>1, <1>2 DEF NoRead, Idle
  <2>3. StateInv3'
    BY <1>2, <2>1, <2>2 DEF Here3, StateInv3, Conforms3, Stack3
  <2>4. Put(b, b')
    <3> SUFFICES ASSUME NEW r \in Streams, r < b'.live PROVE StaysPut(b, b', r)
      BY <1>2, <2>1 DEF Put
    <3>1. r # s
      BY <1>1, <1>2, <2>1 DEF Streams
    <3> QED
      BY <1>2, <2>1, <3>1 DEF StaysPut
  <2> QED
    BY <2>3, <2>4 DEF Goes3
<1>3. CASE b' = b /\ stack' = Read3("next", << >>)
  <2>1. << >> \in Seq({}) /\ NoRead(<< >>)
    BY EmptySeq DEF NoRead
  <2>2. Stack3(b, stack')
    BY <1>3, <2>1, Read3Stack
  <2> QED
    BY <1>3, <2>2, Same3
<1> QED
  BY <1>1, <1>2, <1>3

\* GetRoutingTable3Next.
LEMMA GetRoutingTable3NextGoes ==
  ASSUME Here3, GetRoutingTable3Next
  PROVE  Goes3
<1>1. ~Idle /\ Top.at = "table3"
  BY DEF GetRoutingTable3Next, At
<1>2. PICK g : g = [Top EXCEPT !.left = @ - 1]
  OBVIOUS
<1>3. g.at = "table3"
  <2>1. loan \in Use /\ Top \in Fit(b)
    BY <1>1, InUse DEF UseFrames, Here3
  <2>2. Top \in OnTable
    BY <1>1, <2>1, FrameKinds DEF Fit
  <2> QED
    BY <1>1, <1>2, <2>2 DEF OnTable
<1>4. b' = b /\ (stack' = << >> \o Tail(stack) \/ stack' = Read3("next", <<g>>) \o Tail(stack))
  BY <1>2 DEF GetRoutingTable3Next, Continue
<1>5. CASE stack' = << >> \o Tail(stack)
  BY <1>1, <1>4, <1>5, Drop3
<1>6. CASE stack' = Read3("next", <<g>>) \o Tail(stack)
  <2>1. PICK S : Tail(stack) \in Seq(S) /\ NoRead(Tail(stack))
    BY <1>1, Top3
  <2>2. PICK k : k = <<g>> \o Tail(stack)
    OBVIOUS
  <2>3. NoRead(k)
    BY <1>3, <2>1, <2>2, OnFrames3 DEF ReadFrames
  <2>4. k \in Seq(S \cup {g})
    <3>1. Tail(stack) \in Seq(S \cup {g})
      BY <2>1, SeqMono
    <3> QED
      BY <2>2, <3>1, OnTop
  <2>5. PICK f : f = [at |-> "record3", s |-> b.curr, mode |-> "next"]
    OBVIOUS
  <2>6. (<<f>> \o <<g>>) \o Tail(stack) = <<f>> \o k
    <3>1. PICK p, q, t : p = <<f>> /\ q = <<g>> /\ t = Tail(stack)
      OBVIOUS
    <3>2. p \in Seq(S \cup {f, g}) /\ q \in Seq(S \cup {f, g})
      BY <3>1
    <3>3. t \in Seq(S \cup {f, g})
      BY <2>1, <3>1, SeqMono
    <3>4. (p \o q) \o t = p \o (q \o t)
      BY <3>2, <3>3, ConcatAssociative
    <3> QED
      BY <2>2, <3>1, <3>4
  <2>7. Read3("next", <<g>>) = IF Streaming3 THEN <<f>> \o <<g>> ELSE <<g>>
    BY <2>5 DEF Read3
  <2>8. stack' = Read3("next", k)
    BY <1>6, <2>2, <2>5, <2>6, <2>7 DEF Read3
  <2>9. Stack3(b, stack')
    BY <2>3, <2>4, <2>8, Read3Stack
  <2> QED
    BY <1>4, <2>9, Same3
<1> QED
  BY <1>4, <1>5, <1>6

\* Reset3.
LEMMA Reset3Goes ==
  ASSUME Here3, Reset3
  PROVE  Goes3
<1>1. PICK f, g : f = F("forceReset3") /\ g = F("cleared3")
  OBVIOUS
<1>2. f.at \notin ReadFrames /\ g.at \notin ReadFrames
  BY <1>1 DEF ReadFrames, F
<1>3. PICK h : h = [at |-> "record3", s |-> b.curr, mode |-> "discard"]
  OBVIOUS
<1>4. b' = b /\ \/ stack' = <<g>> \/ stack' = << >> \o <<f, g>>
                \/ stack' = Read3("discard", << >>) \o <<f, g>>
  BY <1>1 DEF Reset3, Start, F
<1>5. Read3("discard", << >>) = (IF Streaming3 THEN <<h>> \o << >> ELSE << >>)
  BY <1>3 DEF Read3
<1>6. /\ << >> \o <<f, g>> = <<f, g>> /\ <<h>> \o << >> = <<h>> /\ <<h>> \o <<f, g>> = <<h, f, g>>
  BY ShortConcat
<1>7. Read3("discard", << >>) \o <<f, g>> = Read3("discard", <<f, g>>)
  BY <1>3, <1>5, <1>6 DEF Read3
<1>8. PICK mode : mode = "discard"
  OBVIOUS
<1>9. Stack3(b, <<g>>) /\ Stack3(b, <<f, g>>) /\ Stack3(b, Read3("discard", <<f, g>>))
  BY <1>2, Short3
<1>10. Stack3(b, stack')
  BY <1>4, <1>6, <1>7, <1>9
<1> QED
  BY <1>4, <1>10, Same3

\* ForceReset3.
LEMMA ForceReset3Goes ==
  ASSUME Here3, ForceReset3
  PROVE  Goes3
<1> DEFINE e == [b EXCEPT !.err = FALSE]
           c == Send3(e, "reset", NoStream)
<1>1. ~Idle /\ Conn(b) /\ \/ b' = b /\ stack' = << >> \o Tail(stack)
                          \/ b' = c /\ stack' = (IF c.err THEN << >> ELSE <<F("reset3")>>) \o Tail(stack)
  BY DEF ForceReset3, Continue, F, Here3, BoltInv
<1>2. CASE b' = b /\ stack' = << >> \o Tail(stack)
  BY <1>1, <1>2, Drop3
<1>3. CASE b' = c /\ stack' = (IF c.err THEN << >> ELSE <<F("reset3")>>) \o Tail(stack)
  <2>1. /\ e.live = b.live /\ e.v = b.v /\ e.streams = b.streams /\ e.curr = b.curr /\ e.wire = b.wire
        /\ e.state = b.state /\ DOMAIN e = ConnFields /\ e.err \in BOOLEAN /\ e.txId = b.txId
        /\ e.made = b.made /\ e.handlers = b.handlers /\ e.out = b.out
    BY <1>1 DEF Conn, ConnFields
  <2> HIDE DEF e
  <2>2. Conn(e)
    BY <1>1, <2>1 DEF Conn
  <2>3. PICK r : r = Request("reset", NoStream, All, -1)
    OBVIOUS
  <2>4. r.m = "reset"
    BY <2>3 DEF Request
  <2>5. /\ c.live = e.live /\ c.v = e.v /\ c.streams = e.streams /\ c.curr = e.curr
        /\ c.state \in {e.state, "dead"}
        /\ c.wire = e.wire \/ c.wire = Append(e.wire, r)
        /\ ~c.err => c.wire = Append(e.wire, r)
    BY <2>2, <2>3, Send3Does
  <2> HIDE DEF c
  <2>6. b.wire \in Seq(Requests)
    BY <1>1 DEF Conn
  <2>7. Append(b.wire, r) # << >> /\ Append(b.wire, r)[Len(Append(b.wire, r))] = r
    BY <2>6, Appended
  <2>8. PICK f : f = F("reset3")
    OBVIOUS
  <2>9. ~c.err => Awaits3(c, f)
    <3>1. f.at = "reset3"
      BY <2>8 DEF F
    <3> QED
      BY <2>1, <2>4, <2>5, <2>7, <3>1 DEF Awaits3
  <2>10. Stack3(b', stack')
    BY <1>1, <1>3, <2>8, <2>9, Top3
  <2>11. b.state \in {"streaming", "streamingTx"} => b.wire # << >>
    BY DEF Here3, StateInv3, Conforms3
  <2>12. b'.state \in {"streaming", "streamingTx"} => b'.wire # << >>
    BY <1>3, <2>1, <2>5, <2>7, <2>11
  <2> QED
    BY <1>3, <2>1, <2>5, <2>10, <2>12, Still3
<1> QED
  BY <1>1, <1>2, <1>3

\* Reset3Done.
LEMMA Reset3DoneGoes ==
  ASSUME Here3, Reset3Done
  PROVE  Goes3
<1> DEFINE c == [b EXCEPT !.txId = FALSE, !.err = FALSE, !.curr = NoStream]
           new == [s \in Streams |-> NewStream]
           fresh == [c EXCEPT !.made = 0, !.live = 1, !.streams = new]
           left == [c EXCEPT !.live = c.made + 1]
<1>1. ~Idle /\ Conn(b) /\ stack' = Tail(stack) /\ (b' = fresh \/ b' = left)
  BY DEF Reset3Done, At, Returned, Here3, BoltInv
<1>2. DOMAIN c = ConnFields /\ c.curr = 0 /\ c.state = b.state /\ c.wire = b.wire /\ c.streams = b.streams /\ c.v = b.v
  BY <1>1 DEF Conn, ConnFields, NoStream
<1> HIDE DEF c, new
<1>3. /\ fresh.curr = 0 /\ fresh.state = b.state /\ fresh.wire = b.wire /\ fresh.live = 1 /\ fresh.v = b.v
      /\ left.curr = 0 /\ left.state = b.state /\ left.wire = b.wire /\ left.streams = b.streams /\ left.v = b.v
  BY <1>2 DEF ConnFields
<1> HIDE DEF fresh, left
<1>4. Stack3(b', stack')
  BY <1>1, Top3
<1>5. b.state \in {"streaming", "streamingTx"} => b.wire # << >>
  BY DEF Here3, StateInv3, Conforms3
<1>6. StateInv3'
  BY <1>1, <1>3, <1>4, <1>5 DEF StateInv3, Conforms3
<1>7. Put(b, b')
  <2>1. CASE b' = fresh
    <3> SUFFICES ASSUME NEW s \in Streams, s < b'.live PROVE FALSE
      BY <1>3, <2>1 DEF Put
    <3> QED
      BY <1>3, <2>1 DEF Streams
  <2>2. CASE b' = left
    BY <1>3, <2>2 DEF Put, StaysPut
  <2> QED
    BY <1>1, <2>1, <2>2
<1> QED
  BY <1>6, <1>7 DEF Goes3

\* ReAuth3, and the end of the pool's part.
LEMMA Lend3Goes ==
  ASSUME Here3, (\E x \in BOOLEAN : ReAuth3(x)) \/ LendingDone
  PROVE  Goes3
<1> DEFINE dead == [b EXCEPT !.state = "dead"]
<1>1. Conn(b)
  BY DEF Here3, BoltInv
<1>2. dead.live = b.live /\ dead.v = b.v /\ dead.streams = b.streams /\ dead.curr = b.curr /\ dead.state = "dead"
  BY <1>1 DEF Conn, ConnFields
<1>3. CASE LendingDone
  BY <1>3, Drop3 DEF LendingDone, At, Continue
<1>4. CASE \E x \in BOOLEAN : ReAuth3(x)
  <2>1. PICK f : f = Lent
    OBVIOUS
  <2>2. f.at \notin ReadFrames
    BY <2>1 DEF Lent, ReadFrames
  <2>3. ~Idle /\ (b' = dead \/ b' = b) /\ stack' = <<f>> \o Tail(stack)
    BY <1>4, <2>1 DEF ReAuth3, FallbackReAuth, At, Continue
  <2> HIDE DEF dead
  <2>4. PICK S : Tail(stack) \in Seq(S) /\ NoRead(Tail(stack))
    BY <2>3, Top3
  <2>5. Stack3(b, stack') /\ Stack3(b', stack')
    BY <2>2, <2>3, <2>4, OnFrames3
  <2> QED
    BY <1>2, <2>3, <2>5, Same3, Still3
<1> QED
  BY <1>3, <1>4

\* Close3.
LEMMA Close3Goes ==
  ASSUME Here3, Close3
  PROVE  Goes3
<1> DEFINE w == Append(b.wire, Request("goodbye", NoStream, 0, -1))
           d == [b EXCEPT !.state = "dead", !.wire = w]
<1>1. Conn(b) /\ b' = d /\ stack' = << >>
  BY DEF Here3, BoltInv, Close3, Close, Start
<1> HIDE DEF w
<1>2. d.live = b.live /\ d.v = b.v /\ d.streams = b.streams /\ d.curr = b.curr /\ d.state = "dead"
  BY <1>1 DEF Conn, ConnFields
<1> HIDE DEF d
<1>3. Stack3(b', stack')
  BY <1>1 DEF Stack3, NoRead
<1> QED
  BY <1>1, <1>2, <1>3, Still3

-----------------------------------------------------------------------------
(* Answers in version 3.                                                   *)

\* What is left of the wire.
LEMMA Wire3 ==
  ASSUME Here3, b.wire # << >>, NEW a \in Answers
  PROVE  /\ a.answer.k \in {"success", "failure", "ignored", "record"} /\ a.wire \in Seq(Requests)
         /\ a.answer.k = "record" => a.wire # << >>
         /\ Len(b.wire) >= 2 => a.wire # << >>
         /\ a.answer.k = "ignored" /\ b.wire[Len(b.wire)].m = "reset" =>
              a.wire # << >> /\ a.wire[Len(a.wire)].m = "reset"
<1> DEFINE w == b.wire
           t == Tail(w)
<1>1. Conn(b) /\ Server /\ w \in Seq(Requests) /\ BoltInv
  BY DEF Here3, BoltInv, Conn
<1>2. AnswerTo(Head(w), a) /\ WireAfter(w, a)
  BY <1>1, AnswersOK
<1>3. a.wire \in Seq(Requests) /\ a.answer.k \in {"success", "failure", "ignored", "record"}
  BY <1>1, Answered3
<1>4. /\ Len(w) \in Nat \ {0} /\ Head(w) = w[1] /\ t \in Seq(Requests) /\ Len(t) = Len(w) - 1
      /\ \A i \in 1 .. Len(t) : t[i] = w[i + 1]
  BY <1>1, Popped
<1>5. a.answer.k = "record" => a.wire # << >>
  <2>1. PICK f : f = [Head(w) EXCEPT !.got = @ + 1]
    OBVIOUS
  <2>2. <<f>> \o t # << >>
    BY <1>4, Pushed
  <2> QED
    BY <1>2, <2>1, <2>2 DEF WireAfter
<1>6. a.answer.k # "record" => a.wire = t
  BY <1>2 DEF WireAfter
<1> HIDE DEF w, t
<1>7. Len(w) >= 2 => t # << >>
  <2>1. Len(w) >= 2 => Len(t) # 0
    BY <1>4
  <2> QED
    BY <2>1, EmptySeq
<1>8. ASSUME a.answer.k = "ignored", w[Len(w)].m = "reset"
      PROVE  a.wire # << >> /\ a.wire[Len(a.wire)].m = "reset"
  <2>1. w[1].m # "reset"
    BY <1>2, <1>4, <1>8 DEF AnswerTo
  <2>2. Len(w) # 1
    BY <1>8, <2>1
  <2>3. Len(t) \in 1 .. Len(t) /\ Len(t) + 1 = Len(w) /\ Len(w) >= 2
    <3>1. PICK n \in Nat \ {0} : n = Len(w)
      BY <1>4
    <3>2. n # 1 /\ Len(t) = n - 1
      BY <1>4, <2>2, <3>1
    <3> QED
      BY <3>1, <3>2
  <2>4. t[Len(t)] = w[Len(w)]
    BY <1>4, <2>3
  <2> QED
    BY <1>6, <1>7, <1>8, <2>3, <2>4
<1> QED
  BY <1>3, <1>5, <1>6, <1>7, <1>8 DEF w

\* ReceiveReset3.
LEMMA ReceiveReset3Goes ==
  ASSUME Here3, ReceiveReset3
  PROVE  Goes3
<1> DEFINE dead == [b EXCEPT !.err = TRUE, !.state = "dead"]
           St(k) == CASE k = "ignored" -> b.state [] k = "success" -> "ready" [] OTHER -> "dead"
           Got(a) == [b EXCEPT !.wire = a.wire, !.state = St(a.answer.k)]
<1>1. ~Idle /\ Top.at = "reset3" /\ Conn(b)
  BY DEF ReceiveReset3, Here3, BoltInv
<1>2. Awaits3(b, Top)
  BY <1>1, Top3 DEF ReadFrames
<1>3. \/ b' = dead /\ stack' = Tail(stack)
      \/ \E a \in Answers : /\ b.wire # << >> /\ b' = Got(a)
                            /\ stack' = IF a.answer.k = "ignored" THEN stack ELSE Tail(stack)
  BY DEF ReceiveReset3
<1>4. CASE b' = dead /\ stack' = Tail(stack)
  <2>1. dead.live = b.live /\ dead.v = b.v /\ dead.streams = b.streams /\ dead.curr = b.curr /\ dead.state = "dead"
    BY <1>1 DEF Conn, ConnFields
  <2> HIDE DEF dead
  <2>2. Stack3(b', stack')
    BY <1>1, <1>4, Top3
  <2> QED
    BY <1>4, <2>1, <2>2, Still3
<1>5. ASSUME NEW a \in Answers, b.wire # << >>, b' = Got(a),
             stack' = IF a.answer.k = "ignored" THEN stack ELSE Tail(stack)
      PROVE  Goes3
  <2> DEFINE st == St(a.answer.k)
             d == [b EXCEPT !.wire = a.wire, !.state = st]
  <2>1. b' = d /\ (a.answer.k # "ignored" => st \in {"ready", "dead"})
    BY <1>5
  <2> HIDE DEF st, St
  <2>2. /\ d.live = b.live /\ d.v = b.v /\ d.streams = b.streams /\ d.curr = b.curr /\ d.state = st
        /\ d.wire = a.wire
    BY <1>1 DEF Conn, ConnFields
  <2> HIDE DEF d
  <2>3. b.wire[Len(b.wire)].m = "reset"
    BY <1>1, <1>2 DEF Awaits3
  <2>4. CASE a.answer.k = "ignored"
    <3>1. a.wire # << >> /\ a.wire[Len(a.wire)].m = "reset"
      BY <1>5, <2>3, <2>4, Wire3
    <3>2. Awaits3(b', Top)
      BY <1>1, <2>1, <2>2, <3>1 DEF Awaits3
    <3>3. Stack3(b', stack')
      BY <1>1, <1>5, <2>4, <3>2, Top3
    <3> QED
      BY <2>1, <2>2, <3>1, <3>3, Still3
  <2>5. CASE a.answer.k # "ignored"
    <3>1. Stack3(b', stack')
      BY <1>1, <1>5, <2>5, Top3
    <3> QED
      BY <2>1, <2>2, <2>5, <3>1, Still3
  <2> QED
    BY <2>4, <2>5
<1> HIDE DEF dead, Got
<1> QED
  BY <1>3, <1>4, <1>5

\* ReceiveSuccess3.
LEMMA ReceiveSuccess3Goes ==
  ASSUME Here3, ReceiveSuccess3
  PROVE  Goes3
<1> DEFINE dead == [b EXCEPT !.err = TRUE, !.state = "dead"]
<1>1. ~Idle /\ Top.at = "success3" /\ Conn(b) /\ stack' = Tail(stack) /\ b.v.major = 3
  BY DEF ReceiveSuccess3, Here3, BoltInv
<1>2. Awaits3(b, Top)
  BY <1>1, Top3 DEF ReadFrames
<1>3. Stack3(b', stack')
  BY <1>1, Top3
<1>4. \/ b' = dead
      \/ \E a \in Answers : \E c \in {[b EXCEPT !.wire = a.wire]} :
           /\ b.wire # << >>
           /\ b' = IF a.answer.k = "success" THEN Then3(c, Top.then)
                   ELSE [c EXCEPT !.err = TRUE, !.state = IF a.answer.k = "failure" THEN "failed" ELSE "dead"]
  BY DEF ReceiveSuccess3
<1>5. CASE b' = dead
  <2>1. dead.live = b.live /\ dead.v = b.v /\ dead.streams = b.streams /\ dead.curr = b.curr /\ dead.state = "dead"
    BY <1>1 DEF Conn, ConnFields
  <2> HIDE DEF dead
  <2> QED
    BY <1>3, <1>5, <2>1, Still3
<1>6. ASSUME NEW a \in Answers, NEW c, c = [b EXCEPT !.wire = a.wire], b.wire # << >>,
             b' = IF a.answer.k = "success" THEN Then3(c, Top.then)
                  ELSE [c EXCEPT !.err = TRUE, !.state = IF a.answer.k = "failure" THEN "failed" ELSE "dead"]
      PROVE  Goes3
  <2>1. /\ DOMAIN c = ConnFields /\ c.live = b.live /\ c.v = b.v /\ c.streams = b.streams /\ c.curr = b.curr
        /\ c.wire = a.wire /\ c.made = b.made
    BY <1>1, <1>6 DEF Conn, ConnFields
  <2>2. CASE a.answer.k # "success"
    <3> DEFINE st == IF a.answer.k = "failure" THEN "failed" ELSE "dead"
               d == [c EXCEPT !.err = TRUE, !.state = st]
    <3>1. b' = d /\ st \in {"failed", "dead"}
      BY <1>6, <2>2
    <3> HIDE DEF st
    <3>2. d.live = b.live /\ d.v = b.v /\ d.streams = b.streams /\ d.curr = b.curr /\ d.state = st
      BY <2>1 DEF ConnFields
    <3> HIDE DEF d
    <3> QED
      BY <1>3, <3>1, <3>2, Still3
  <2>3. CASE a.answer.k = "success" /\ Top.then \in {"hello", "begin", "commit", "rollback"}
    <3>1. b' = [c EXCEPT !.state = "ready"] \/ b' = [c EXCEPT !.state = "tx", !.txId = TRUE]
      BY <1>6, <2>3 DEF Then3
    <3>2. b'.live = b.live /\ b'.v = b.v /\ b'.streams = b.streams /\ b'.curr = b.curr /\ b'.state \in {"ready", "tx"}
      BY <2>1, <3>1 DEF ConnFields
    <3> QED
      BY <1>3, <3>2, Still3
  <2>4. CASE a.answer.k = "success" /\ Top.then = "run"
    <3> DEFINE m == c.made + 1
               q == [NewStream EXCEPT !.attached = TRUE]
               st == IF c.state = "ready" THEN "streaming" ELSE "streamingTx"
               d == [c EXCEPT !.made = m, !.curr = m, !.streams[m] = q, !.state = st]
    <3>1. b' = d
      BY <1>6, <2>4 DEF Then3
    <3>2. m \in Nat /\ b.live \in Nat /\ b.live <= m
      BY <1>1, <2>1, NoStreamFits DEF Conn
    <3> HIDE DEF m, q, st
    <3>3. /\ d.live = b.live /\ d.v = b.v /\ d.curr = m /\ d.wire = a.wire
          /\ d.streams = [b.streams EXCEPT ![m] = q]
      BY <2>1 DEF ConnFields
    <3> HIDE DEF d
    <3>4. a.wire # << >>
      BY <1>1, <1>2, <1>6, <2>4, Wire3 DEF Awaits3
    <3>5. StateInv3'
      BY <1>3, <3>1, <3>2, <3>3, <3>4 DEF StateInv3, Conforms3
    <3>6. Put(b, b')
      <4> SUFFICES ASSUME NEW s \in Streams, s < b'.live PROVE StaysPut(b, b', s)
        BY <3>1, <3>3 DEF Put
      <4>1. s # m
        BY <3>1, <3>2, <3>3 DEF Streams
      <4>2. b'.streams[s] = b.streams[s]
        BY <1>1, <3>1, <3>3, <4>1 DEF Conn
      <4> QED
        BY <4>2 DEF StaysPut
    <3> QED
      BY <3>5, <3>6 DEF Goes3
  <2>5. Top.then \in {"hello", "begin", "commit", "rollback", "run"}
    <3>1. CASE loan \in Use /\ Top \in Fit(b)
      <4>1. Top \in OnSuccess3
        BY <1>1, <3>1, FrameKinds DEF Fit
      <4> QED
        BY <4>1 DEF OnSuccess3
    <3>2. CASE stack = <<Hello3>>
      BY <3>2, ShortStack DEF Top, Hello3
    <3> QED
      BY <1>1, <3>1, <3>2, Waiting3At DEF Here3
  <2> QED
    BY <2>2, <2>3, <2>4, <2>5
<1> HIDE DEF dead
<1> QED
  BY <1>4, <1>5, <1>6

\* The stream that is read is no earlier one.
LEMMA NotCurrent ==
  ASSUME Here3, NEW s \in Streams, s < b.live
  PROVE  s # b.curr
<1>1. b.curr # 0 => b.curr >= b.live
  BY DEF Here3, StateInv3, Conforms3
<1>2. b.curr \in Int /\ b.live \in Int
  BY NoStreamFits DEF Here3, BoltInv, Conn
<1> QED
  BY <1>1, <1>2 DEF Streams

\* ReceiveNext3.
LEMMA ReceiveNext3Goes ==
  ASSUME Here3, ReceiveNext3
  PROVE  Goes3
<1> DEFINE dead == [b EXCEPT !.err = TRUE, !.state = "dead"]
<1>1. ~Idle /\ Top.at = "record3" /\ Conn(b) /\ b.v.major = 3
  BY DEF ReceiveNext3, Here3, BoltInv
<1>2. Awaits3(b, Top)
  BY <1>1, Top3 DEF ReadFrames
<1>3. Top.s = b.curr /\ b.state \in {"streaming", "streamingTx"}
  BY <1>1, <1>2 DEF Awaits3
<1>4. \/ b' = dead /\ stack' = Tail(stack)
      \/ \E a \in Answers : \E c \in {[b EXCEPT !.wire = a.wire]} :
           /\ b.wire # << >>
           /\ stack' = IF a.answer.k = "record" /\ Top.mode # "next" THEN stack ELSE Tail(stack)
           /\ b' = CASE a.answer.k = "record" /\ Top.mode = "buffer" ->
                           [c EXCEPT !.streams[Top.s].fifo = Append(@, a.answer.record)]
                      [] a.answer.k = "record" /\ Top.mode # "buffer" -> c
                      [] a.answer.k = "success" ->
                           Ended3(c, "sum", IF b.state = "streamingTx" THEN "tx" ELSE "ready", b.err)
                      [] a.answer.k = "failure" -> Ended3(c, "err", "failed", TRUE)
                      [] a.answer.k = "ignored" -> Ended3(c, "err", "dead", TRUE)
  BY DEF ReceiveNext3
<1>5. CASE b' = dead /\ stack' = Tail(stack)
  <2>1. dead.live = b.live /\ dead.v = b.v /\ dead.streams = b.streams /\ dead.curr = b.curr /\ dead.state = "dead"
    BY <1>1 DEF Conn, ConnFields
  <2> HIDE DEF dead
  <2>2. Stack3(b', stack')
    BY <1>1, <1>5, Top3
  <2> QED
    BY <1>5, <2>1, <2>2, Still3
<1>6. ASSUME NEW a \in Answers, NEW c, c = [b EXCEPT !.wire = a.wire], b.wire # << >>,
             stack' = IF a.answer.k = "record" /\ Top.mode # "next" THEN stack ELSE Tail(stack),
             b' = CASE a.answer.k = "record" /\ Top.mode = "buffer" ->
                           [c EXCEPT !.streams[Top.s].fifo = Append(@, a.answer.record)]
                      [] a.answer.k = "record" /\ Top.mode # "buffer" -> c
                      [] a.answer.k = "success" ->
                           Ended3(c, "sum", IF b.state = "streamingTx" THEN "tx" ELSE "ready", b.err)
                      [] a.answer.k = "failure" -> Ended3(c, "err", "failed", TRUE)
                      [] a.answer.k = "ignored" -> Ended3(c, "err", "dead", TRUE)
      PROVE  Goes3
  <2>1. /\ DOMAIN c = ConnFields /\ c.live = b.live /\ c.v = b.v /\ c.streams = b.streams /\ c.curr = b.curr
        /\ c.wire = a.wire /\ c.state = b.state
    BY <1>1, <1>6 DEF Conn, ConnFields
  <2>2. /\ a.answer.k \in {"success", "failure", "ignored", "record"} /\ (a.answer.k = "record" => a.wire # << >>)
    BY <1>6, Wire3
  <2>3. CASE a.answer.k = "record"
    <3> DEFINE x == Append(c.streams[Top.s].fifo, a.answer.record)
               d == [c EXCEPT !.streams[Top.s].fifo = x]
    <3>1. b' = d \/ b' = c
      BY <1>6, <2>3
    <3> HIDE DEF x
    <3>2. /\ d.live = b.live /\ d.v = b.v /\ d.curr = b.curr /\ d.wire = a.wire /\ d.state = b.state
          /\ \A s \in Streams : s # Top.s => d.streams[s] = b.streams[s]
      BY <1>1, <2>1 DEF Conn, ConnFields
    <3> HIDE DEF d
    <3>3. /\ b'.live = b.live /\ b'.v = b.v /\ b'.curr = b.curr /\ b'.wire = a.wire /\ b'.state = b.state
          /\ \A s \in Streams : s # Top.s => b'.streams[s] = b.streams[s]
      BY <2>1, <3>1, <3>2
    <3>4. Awaits3(b', Top)
      BY <1>1, <1>3, <3>3 DEF Awaits3
    <3>5. Stack3(b', stack')
      BY <1>1, <1>6, <3>4, Top3
    <3>6. StateInv3'
      BY <2>2, <2>3, <3>3, <3>5 DEF Here3, StateInv3, Conforms3
    <3>7. Put(b, b')
      BY <1>3, <3>3, NotCurrent DEF Put, StaysPut
    <3> QED
      BY <3>6, <3>7 DEF Goes3
  <2>4. CASE a.answer.k # "record"
    <3>1. PICK how, st, e : b' = Ended3(c, how, st, e) /\ st \in {"tx", "ready", "failed", "dead"}
      <4>1. PICK st : st = IF b.state = "streamingTx" THEN "tx" ELSE "ready"
        OBVIOUS
      <4> QED
        BY <1>6, <2>2, <2>4, <4>1
    <3>2. /\ b'.live = b.live /\ b'.v = b.v /\ b'.curr = 0 /\ b'.state = st
          /\ \A s \in Streams : s # b.curr => b'.streams[s] = b.streams[s]
      <4>1. /\ b'.live = c.live /\ b'.v = c.v /\ b'.curr = 0 /\ b'.state = st
            /\ b'.streams = [c.streams EXCEPT ![c.curr].done = how]
        BY <2>1, <3>1 DEF Ended3, ConnFields, NoStream
      <4>2. DOMAIN c.streams = Streams
        BY <1>1, <2>1 DEF Conn
      <4> QED
        BY <2>1, <4>1, <4>2
    <3>3. Stack3(b', stack')
      BY <1>1, <1>6, <2>4, Top3
    <3>4. StateInv3'
      BY <3>1, <3>2, <3>3 DEF StateInv3, Conforms3
    <3>5. Put(b, b')
      BY <3>2, NotCurrent DEF Put, StaysPut
    <3> QED
      BY <3>4, <3>5 DEF Goes3
  <2> QED
    BY <2>3, <2>4
<1> HIDE DEF dead
<1> QED
  BY <1>4, <1>5, <1>6

\* Version 3.
LEMMA Steps3Goes ==
  ASSUME BoltInv, StateInv3, Steps3
  PROVE  Goes3
<1>1. b.v.major = 3
  BY DEF Steps3, Connect3, TxBegin3Send, TxEnd3Send, Run3Send, Reset3, ForceReset3, ReceiveSuccess3, ReceiveNext3,
         ReceiveReset3, Reset3Done, GetRoutingTable3, GetRoutingTable3Next, Close3, TxBegin3, Run3, RunTx3, TxEnd3,
         Next3, Exhaust3, Borrow3, ReAuth3, Is3
<1>2. Here3
  BY <1>1 DEF Here3
<1>3. CASE Connect3 \/ TxBegin3Send \/ TxEnd3Send \/ Run3Send
  BY <1>2, <1>3, Connect3Goes, TxBegin3SendGoes, TxEnd3SendGoes, Run3SendGoes
<1>4. CASE Reset3 \/ ForceReset3 \/ Reset3Done
  BY <1>2, <1>4, Reset3Goes, ForceReset3Goes, Reset3DoneGoes
<1>5. CASE ReceiveSuccess3 \/ ReceiveNext3 \/ ReceiveReset3
  BY <1>2, <1>5, ReceiveSuccess3Goes, ReceiveNext3Goes, ReceiveReset3Goes
<1>6. CASE GetRoutingTable3Next \/ Close3 \/ LendingDone \/ (\E x \in BOOLEAN : ReAuth3(x))
  BY <1>2, <1>6, GetRoutingTable3NextGoes, Close3Goes, Lend3Goes
<1>7. CASE \E s \in Streams : Next3(s)
  BY <1>2, <1>7, Next3Goes
<1>8. CASE \/ \E option \in Options : TxBegin3(option)
           \/ \E how \in {"commit", "rollback"} : TxEnd3(how)
           \/ \E option \in Options, pack \in Packs : Run3(option, pack)
           \/ \E pack \in Packs : RunTx3(pack)
           \/ \E s \in Streams, how \in {"discard", "buffer"} : Exhaust3(s, how)
           \/ GetRoutingTable3
           \/ \E x \in BOOLEAN : Borrow3(x)
  BY <1>2, <1>8, Starts3Goes
<1> QED
  BY <1>3, <1>4, <1>5, <1>6, <1>7, <1>8 DEF Steps3

-----------------------------------------------------------------------------
(* Every version.                                                          *)

\* A connection of another version, of which there is none, would never be used.
Unused == b.v.major \notin {3, 4, 5, 6} => Idle
AllInv == BoltInv /\ StateInv /\ StateInv3 /\ Unused

\* A new connection.
LEMMA StartsAll ==
  ASSUME Init
  PROVE  AllInv
<1>1. BoltInv
  BY Starts
<1>2. PICK v \in Protocols :
        b = [v |-> v, state |-> "unauthorized", err |-> FALSE, txId |-> FALSE,
             curr |-> NoStream, num |-> 0, lastQid |-> -1, made |-> 0, live |-> 1,
             streams |-> [s \in Streams |-> NewStream],
             handlers |-> << >>, out |-> << >>, wire |-> << >>]
  BY DEF Init
<1>3. /\ b.state = "unauthorized" /\ ~b.err /\ b.curr = 0 /\ b.made = 0 /\ b.live = 1
      /\ b.streams = [s \in Streams |-> NewStream]
      /\ b.handlers = << >> /\ b.out = << >> /\ b.wire = << >>
  BY <1>2 DEF NoStream
<1>4. srv.st = "new" /\ stack = << >> /\ loan = "new"
  BY DEF Init
<1>5. StateInv3 /\ Unused
  BY <1>3, <1>4 DEF StateInv3, Conforms3, Stack3, NoRead, Unused, Idle
<1>6. Below(stack) = << >> /\ Read(stack) = "no" /\ ~On(<< >>, {"success3", "record3", "reset3"})
  BY <1>4, NothingRead DEF On
<1>7. General(b, "no", srv)
  <2>1. Kinds(b) /\ OldOnes(b, srv)
    BY <1>3 DEF Kinds, OldOnes
  <2>2. \A s \in Streams : ~b.streams[s].safe
    BY <1>3 DEF NewStream
  <2>3. Keyed(b)
    BY <1>3, <2>2 DEF Keyed
  <2> QED
    BY <1>3, <1>4, <2>1, <2>3 DEF General
<1>8. Waited(b, "no")
  <2>1. Open(b) = {}
    BY <1>3 DEF Open
  <2> QED
    BY <2>1 DEF Waited
<1>9. StateInv
  BY <1>3, <1>4, <1>6, <1>7, <1>8 DEF StateInv, Conforms, IsNew, Use
<1> QED
  BY <1>1, <1>5, <1>9 DEF AllInv

\* A step of a version leaves the others alone.
LEMMA VersionsApart ==
  ASSUME AllInv, b'.v = b.v, b.v.major \in {3, 4, 5, 6}
  PROVE  /\ Unused' /\ b.v.major \in Int
         /\ b.v.major = 3 => StateInv'
         /\ b.v.major # 3 => StateInv3'
<1>1. b'.v.major = b.v.major /\ b.v.major \in Int
  OBVIOUS
<1> QED
  BY <1>1 DEF Unused, StateInv, StateInv3

\* The steps of version 3 are those of a connection of version 3.
LEMMA Version3 ==
  ASSUME Steps3
  PROVE  b.v.major = 3
BY DEF Steps3, Connect3, TxBegin3Send, TxEnd3Send, Run3Send, Reset3, ForceReset3, ReceiveSuccess3, ReceiveNext3,
       ReceiveReset3, Reset3Done, GetRoutingTable3, GetRoutingTable3Next, Close3, TxBegin3, Run3, RunTx3, TxEnd3,
       Next3, Exhaust3, Borrow3, ReAuth3, Is3

\* So are those of versions 4 to 6.
LEMMA Versions456 ==
  ASSUME Steps4 \/ Steps5 \/ Steps6
  PROVE  b.v.major \in {4, 5, 6}
<1>1. Steps4 => b.v.major = 4
  BY DEF Steps4, Is4, Connect4, TxBegin4, TxEnd4, DiscardStream4, BufferStream4, Run4, RunCalls4, Next4,
         Exhaust4, Reset4, GetRoutingTable4, CallGetRoutingTable4, Close4, ReAuth4, Receive4
<1>2. Steps5 => b.v.major = 5
  BY DEF Steps5, Is5, Connect5, TxBegin5, TxEnd5, Streams5, Run5, RunCalls5, Results5, Reset5,
         GetRoutingTable5, ReAuth5, Telemetry5, Close5, Receive5
<1>3. Steps6 => b.v.major = 6
  BY DEF Steps6, Is6, Connect6, TxBegin6, TxEnd6, Streams6, Run6, RunCalls6, Results6, Reset6,
         GetRoutingTable6, ReAuth6, Telemetry6, Close6, Receive6
<1> QED
  BY <1>1, <1>2, <1>3

\* Every step keeps the invariant, and the results of earlier loans.
LEMMA StaysAll ==
  ASSUME RejectedAlone, AllInv, [NextState]_vars
  PROVE  AllInv' /\ Put(b, b')
<1>1. BoltInv /\ StateInv /\ StateInv3 /\ Unused /\ BoltInv'
  BY Stays DEF AllInv
<1>2. CASE Steps3
  <2>1. b.v.major = 3
    BY <1>2, Version3
  <2>2. StateInv3' /\ Put(b, b')
    BY <1>1, <1>2, Steps3Goes DEF Goes3
  <2>3. b'.v = b.v
    BY <2>2 DEF Put
  <2> QED
    BY <1>1, <2>1, <2>2, <2>3, VersionsApart DEF AllInv
<1>3. CASE Steps4 \/ Steps5 \/ Steps6
  <2>1. b.v.major \in {4, 5, 6}
    BY <1>3, Versions456
  <2>2. StateInv' /\ Put(b, b')
    BY <1>1, <1>3, Steps4Goes, Steps5Goes, Steps6Goes DEF Goes
  <2>3. b'.v = b.v
    BY <2>2 DEF Put
  <2> QED
    BY <1>1, <2>1, <2>2, <2>3, VersionsApart DEF AllInv
<1>4. CASE NetFails
  <2>1. b' = b /\ stack' = stack
    BY <1>4 DEF NetFails
  <2>2. StateInv3' /\ Unused' /\ Put(b, b')
    BY <1>1, <2>1, SamePut DEF StateInv3, Unused, Idle
  <2>3. StateInv'
    <3>1. CASE b.v.major > 3
      BY <1>1, <1>4, <3>1, NetFailsGoes DEF Here, Goes
    <3>2. CASE ~(b.v.major > 3)
      BY <2>1, <3>2 DEF StateInv
    <3> QED
      BY <3>1, <3>2
  <2> QED
    BY <1>1, <2>2, <2>3 DEF AllInv
<1>5. CASE UNCHANGED vars
  <2>1. b' = b /\ srv' = srv /\ net' = net /\ stack' = stack /\ loan' = loan
    BY <1>5 DEF vars
  <2> QED
    BY <1>1, <2>1, SamePut DEF StateInv, StateInv3, Unused, Idle, AllInv
<1> QED
  BY <1>2, <1>3, <1>4, <1>5 DEF NextState, Steps, Gone

\* What a call waits for was sent.
LEMMA AllWait ==
  ASSUME AllInv
  PROVE  WaitsOnlyForSent
<1> SUFFICES ASSUME Reading, net = "up", b.wire = << >>
             PROVE  b.state = "failed"
  BY DEF WaitsOnlyForSent
<1>1. ~Idle /\ Top.at \in ReadFrames /\ BoltInv /\ loan # "gone"
  BY DEF Reading, ReadFrames, AllInv, BoltInv, Phase
<1>2. PICK S : stack \in Seq(S)
  BY <1>1, FramesSeq
<1>3. stack # << >> /\ Top = stack[1]
  BY <1>1, <1>2, Popped DEF Idle, Top
<1>4. b.v.major \in {3, 4, 5, 6}
  BY <1>1 DEF AllInv, Unused
<1>5. CASE b.v.major = 3
  <2>1. Here3
    BY <1>5 DEF AllInv, Here3
  <2>2. Awaits3(b, Top)
    BY <1>1, <2>1, Top3
  <2>3. b.state \in {"streaming", "streamingTx"} => b.wire # << >>
    BY <2>1 DEF Here3, StateInv3, Conforms3
  <2> QED
    BY <2>2, <2>3 DEF Awaits3
<1>6. CASE b.v.major \in {4, 5, 6}
  <2>1. Conforms(b, Below(stack), Read(stack), loan, srv, net)
    BY <1>1, <1>6 DEF AllInv, StateInv
  <2>2. CASE Waits(stack)
    <3>1. Read(stack) # "no"
      BY <2>2 DEF Read, Waits
    <3>2. b.state = "failed" \/ (b.handlers # << >> /\ Len(b.handlers) <= Len(b.wire))
      BY <2>1, <3>1 DEF Conforms, Waited, Sent
    <3>3. b.handlers \in Seq(Handlers) /\ b.wire = << >>
      BY <1>1 DEF BoltInv, Conn
    <3>4. Len(b.handlers) \in Nat /\ (b.handlers # << >> => Len(b.handlers) # 0) /\ Len(b.wire) = 0
      BY <3>3, EmptySeq, LenProperties
    <3> QED
      BY <3>2, <3>4
  <2>3. CASE ~Waits(stack)
    <3>1. Below(stack) = stack /\ Top.at \in {"success3", "record3", "reset3"}
      BY <1>1, <1>3, <2>3 DEF Below, Waits, ReadFrames
    <3>2. On(stack, {"success3", "record3", "reset3"})
      BY <1>3, <3>1 DEF On
    <3>3. loan \in Use
      BY <2>1, <3>1, <3>2 DEF Conforms
    <3>4. FramesOK(b, stack, Read(stack))
      BY <2>1, <3>1, <3>3 DEF Conforms, Used
    <3>5. 1 \in 1 .. Len(stack)
      BY <1>2, <1>3, Popped
    <3>6. FALSE
      BY <1>3, <3>1, <3>4, <3>5 DEF FramesOK, FrameOK
    <3> QED
      BY <3>6
  <2> QED
    BY <2>2, <2>3
<1> QED
  BY <1>4, <1>5, <1>6

\* WaitsOnlyForSent: in every version a call that reads has a request on the wire that is
\* still to be answered, unless it is the reset of a connection that an earlier reset left
\* failed, so that no call waits for what the server was never asked.
THEOREM CallsWaitForWhatWasSent ==
  Spec /\ []RejectedAlone => []WaitsOnlyForSent
<1>1. Init => AllInv
  BY StartsAll
<1>2. AllInv /\ RejectedAlone /\ [NextState]_vars => AllInv'
  BY StaysAll
<1>3. AllInv => WaitsOnlyForSent
  BY AllWait
<1> QED
  BY <1>1, <1>2, <1>3, PTL DEF Spec

\* OldResultsStayPut: a connection that is lent again, with responses of the last loan still
\* on their way, puts no record into a result of an earlier loan and completes none, but for
\* the error that a response left over from its own loan may bring.
THEOREM EarlierResultsStayPut ==
  Spec /\ []RejectedAlone => OldResultsStayPut
<1> DEFINE Old == \A s \in 1 .. b.live - 1 :
                    s < b'.live =>
                      /\ b'.streams[s].fifo = b.streams[s].fifo
                      /\ b'.streams[s].done \in {b.streams[s].done, "err"}
<1>1. Init => AllInv
  BY StartsAll
<1>2. AllInv /\ RejectedAlone /\ [NextState]_vars => AllInv'
  BY StaysAll
<1>3. AllInv /\ RejectedAlone /\ [NextState]_vars => Old
  <2> SUFFICES ASSUME AllInv, RejectedAlone, [NextState]_vars, NEW s \in 1 .. b.live - 1, s < b'.live
               PROVE  /\ b'.streams[s].fifo = b.streams[s].fifo
                      /\ b'.streams[s].done \in {b.streams[s].done, "err"}
    OBVIOUS
  <2>1. Put(b, b') /\ Conn(b)
    BY StaysAll DEF AllInv, BoltInv
  <2>2. s \in Streams /\ s < b.live
    BY <2>1, NoStreamFits, StreamsAreCounted DEF Conn, Streams
  <2> QED
    BY <2>1, <2>2 DEF Put, StaysPut
<1> QED
  BY <1>1, <1>2, <1>3, PTL DEF Spec, OldResultsStayPut
=============================================================================
