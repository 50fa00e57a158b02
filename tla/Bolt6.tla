------------------------------- MODULE Bolt6 --------------------------------
(***************************************************************************)
(* Version 6 of the protocol: as version 5 with LOGON and TELEMETRY, but a *)
(* parameter that the server does not support is meant to be recoverable.  *)
(***************************************************************************)
EXTENDS BoltConnection

Is6 == b.v.major = 6

(* The unsent messages go, and with them the handler at the front of the queue *)
PackError6(c) ==
    LET e == SetError(c, Top.pack # "rejected")
    IN  [e EXCEPT !.out = << >>, !.handlers = Tail(@)]

Connect6 == Is6 /\ (Connect(FALSE) \/ Connected)
TxBegin6 == Is6 /\ ((\E option \in Options, sync \in BOOLEAN : TxBegin(option, sync))
                    \/ TxBeginSend \/ TxBegun)
TxEnd6 == Is6 /\ ((\E how \in {"commit", "rollback"} : TxEnd(how)) \/ TxEndSend \/ TxEnded)
Streams6 == Is6 /\ (DiscardStream \/ BufferStream \/ PauseStream)
Run6 == Is6 /\ (RunSend(PackError6(RunQueued)) \/ RunReceive(FALSE))
RunCalls6 == Is6 /\ \E n \in FetchSizes, pack \in Packs :
                      RunTx(n, pack) \/ \E option \in Options : Run(option, n, pack)
Results6 == Is6 /\ \/ \E s \in Streams : Next(s)
                   \/ \E s \in Streams, how \in {"discard", "buffer"} : Exhaust(s, how)
                   \/ NextStep \/ ExhaustStep
Reset6 == Is6 /\ (Reset \/ ForceReset \/ ResetDone \/ \E check \in BOOLEAN : Borrow(check))
GetRoutingTable6 == Is6 /\ GetRoutingTable
ReAuth6 == Is6 /\ (ReAuthDone \/ LendingDone \/ \E changed, force \in BOOLEAN : ReAuth(changed, force))
Telemetry6 == Is6 /\ Telemetry
Close6 == Is6 /\ Close
Receive6 == Is6 /\ (Receive \/ ReceiveIoError)

Steps6 == \/ Connect6 \/ TxBegin6 \/ TxEnd6 \/ Streams6 \/ Run6 \/ RunCalls6 \/ Results6
          \/ Reset6 \/ GetRoutingTable6 \/ ReAuth6 \/ Telemetry6 \/ Close6 \/ Receive6
=============================================================================
