-------------------------------- MODULE Bolt --------------------------------
(***************************************************************************)
(* The four protocol versions together, in the hands of a session and the  *)
(* pool. Connections are lent, used, reset and lent again, and a session   *)
(* uses a connection as session.go does: TELEMETRY is queued right before  *)
(* a BEGIN or RUN, and a BEGIN that is not awaited is followed by a query. *)
(***************************************************************************)
EXTENDS Bolt3, Bolt4, Bolt5, Bolt6

(* The connection was dropped by the pool *)
Gone == Idle /\ loan = "gone" /\ UNCHANGED vars

Steps == Steps3 \/ Steps4 \/ Steps5 \/ Steps6
NextState == Steps \/ NetFails \/ Gone
Spec == Init /\ [][NextState]_vars

-----------------------------------------------------------------------------
TypeOK ==
    /\ b.v \in Protocols
    /\ b.state \in {"unauthorized", "ready", "streaming", "tx", "streamingTx", "failed", "dead"}
    /\ b.err \in BOOLEAN /\ b.txId \in BOOLEAN
    /\ b.curr \in 0 .. b.made /\ b.made \in 0 .. MaxStreams /\ b.live \in 1 .. b.made + 1
    /\ \A s \in Streams : b.streams[s].done \in {"no", "sum", "err"}
    /\ srv.st \in {"new", "loggedOff", "ready", "streaming", "tx", "failed"}
    /\ net \in {"up", "down"}

(* The handlers of the queue are, in order, those of the requests that were
   sent and not answered and of those that wait to be sent: every response is
   given to the handler of its own request, also with BEGIN, RUN, PULL, LOGOFF,
   LOGON and TELEMETRY in flight together and after failures. *)
HandlersMatchRequests ==
    b.v.major > 3 /\ b.state # "dead" =>
        LET pending == b.wire \o b.out
        IN  /\ Len(pending) = Len(b.handlers)
            /\ \A i \in DOMAIN pending :
                 pending[i].m = b.handlers[i].on /\ pending[i].s = b.handlers[i].s

(* The server is never sent what its state does not allow (in the failed state
   it ignores): COMMIT finds a transaction, RUN no unfinished auto-commit query,
   LOGON a connection that is logged off, PULL and DISCARD their stream open.
   Except in a transaction, where Consume and Buffer of a result that is not the
   current one send a second PULL for it while the first is under way. *)
RequestsFit == srv.refused \subseteq {<<"pull", "tx">>, <<"discard", "tx">>}

(* The records of a query reach its result once each and in order, whether
   they were awaited or buffered, and none goes to another result, although
   PULL without a query id pulls from the query that the server saw last. *)
RecordsInOrder ==
    \A s \in Streams :
        LET all == seen[s] \o b.streams[s].fifo
        IN  \A i \in DOMAIN all : all[i] = <<s, i>>

Reading == ~Idle /\ Top.at \in {"receive", "receiveAll", "success3", "record3", "reset3"}

(* A call never waits for the answer to a request that was not sent, unless it
   is the reset of a connection that an earlier reset left failed. *)
WaitsOnlyForSent ==
    Reading /\ net = "up" /\ b.wire = << >> => b.state = "failed"

(* What the pool lends out as ready is ready at the server as well, once the
   answers that are on their way have arrived. *)
ReadyAtBothEnds ==
    Idle /\ loan \in {"pooled", "borrowed"} /\ b.state = "ready" /\ b.wire = << >> =>
        srv.st = "ready" /\ b.curr = NoStream

(* Results of an earlier loan get nothing from a later one: no record is put
   into them and none of them is completed, but for the error that a response
   left over from their own loan may bring. *)
OldResultsStayPut ==
    [][\A s \in 1 .. b.live - 1 :
         s < b'.live =>
         /\ b'.streams[s].fifo = b.streams[s].fifo
         /\ b'.streams[s].done \in {b.streams[s].done, "err"}]_vars

(* After Reset the connection is as after it was connected, or dead. *)
ResetRestores == [][loan = "returning" /\ loan' = "pooled" => b'.state = "ready"]_vars
=============================================================================
