------------------------------- MODULE Bolt4 --------------------------------
(***************************************************************************)
(* Version 4 of the protocol. What differs from BoltConnection: run reads  *)
(* one response whatever it answers, so with a pipelined BEGIN the query   *)
(* is not attached yet when run returns; no LOGON and no TELEMETRY; before *)
(* 4.3 a query stands in for ROUTE.                                        *)
(***************************************************************************)
EXTENDS BoltConnection

Is4 == b.v.major = 4

Connect4 == Is4 /\ (Connect(TRUE) \/ Connected)
TxBegin4 == Is4 /\ ((\E option \in Options, sync \in BOOLEAN : TxBegin(option, sync))
                    \/ TxBeginSend \/ TxBegun)
TxEnd4 == Is4 /\ ((\E how \in {"commit", "rollback"} : TxEnd(how)) \/ TxEndSend \/ TxEnded)
DiscardStream4 == Is4 /\ DiscardStream
BufferStream4 == Is4 /\ (BufferStream \/ PauseStream)
Run4 == Is4 /\ (RunSend(PackError(RunQueued)) \/ RunReceive(TRUE))
RunCalls4 == Is4 /\ \E n \in FetchSizes, pack \in Packs :
                      RunTx(n, pack) \/ \E option \in Options : Run(option, n, pack)
Next4 == Is4 /\ ((\E s \in Streams : Next(s)) \/ NextStep)
Exhaust4 == Is4 /\ ((\E s \in Streams, how \in {"discard", "buffer"} : Exhaust(s, how)) \/ ExhaustStep)
Reset4 == Is4 /\ (Reset \/ ForceReset \/ ResetDone \/ \E check \in BOOLEAN : Borrow(check))
GetRoutingTable4 == Is4 /\ b.v.minor > 2 /\ GetRoutingTable
CallGetRoutingTable4 == Is4 /\ b.v.minor <= 2 /\ (CallGetRoutingTable \/ CallGetRoutingTableNext)
Close4 == Is4 /\ Close
ReAuth4 == Is4 /\ (LendingDone \/ \E changed \in BOOLEAN : FallbackReAuth(changed))
(* The handlers of the version and what they do with errors *)
Receive4 == Is4 /\ (Receive \/ ReceiveIoError)

Steps4 == \/ Connect4 \/ TxBegin4 \/ TxEnd4 \/ DiscardStream4 \/ BufferStream4 \/ Run4 \/ RunCalls4
          \/ Next4 \/ Exhaust4 \/ Reset4 \/ GetRoutingTable4 \/ CallGetRoutingTable4
          \/ Close4 \/ ReAuth4 \/ Receive4
=============================================================================
