------------------------------- MODULE Bolt5 --------------------------------
(***************************************************************************)
(* Version 5 of the protocol, the one that BoltConnection follows: run     *)
(* reads until the query is attached. From 5.1 on credentials are changed  *)
(* with LOGOFF and LOGON, from 5.4 on there is TELEMETRY.                  *)
(***************************************************************************)
EXTENDS BoltConnection

Is5 == b.v.major = 5

Connect5 == Is5 /\ (Connect(FALSE) \/ Connected)
TxBegin5 == Is5 /\ ((\E option \in Options, sync \in BOOLEAN : TxBegin(option, sync))
                    \/ TxBeginSend \/ TxBegun)
TxEnd5 == Is5 /\ ((\E how \in {"commit", "rollback"} : TxEnd(how)) \/ TxEndSend \/ TxEnded)
Streams5 == Is5 /\ (DiscardStream \/ BufferStream \/ PauseStream)
Run5 == Is5 /\ (RunSend(PackError(RunQueued)) \/ RunReceive(FALSE))
RunCalls5 == Is5 /\ \E n \in FetchSizes, pack \in Packs :
                      RunTx(n, pack) \/ \E option \in Options : Run(option, n, pack)
Results5 == Is5 /\ \/ \E s \in Streams : Next(s)
                   \/ \E s \in Streams, how \in {"discard", "buffer"} : Exhaust(s, how)
                   \/ NextStep \/ ExhaustStep
Reset5 == Is5 /\ (Reset \/ ForceReset \/ ResetDone \/ \E check \in BOOLEAN : Borrow(check))
GetRoutingTable5 == Is5 /\ GetRoutingTable
ReAuth5 == Is5 /\ \/ \E changed \in BOOLEAN : FallbackReAuth(changed)
                  \/ \E changed, force \in BOOLEAN : ReAuth(changed, force)
                  \/ ReAuthDone \/ LendingDone
Telemetry5 == Is5 /\ Telemetry
Close5 == Is5 /\ Close
Receive5 == Is5 /\ (Receive \/ ReceiveIoError)

Steps5 == \/ Connect5 \/ TxBegin5 \/ TxEnd5 \/ Streams5 \/ Run5 \/ RunCalls5 \/ Results5
          \/ Reset5 \/ GetRoutingTable5 \/ ReAuth5 \/ Telemetry5 \/ Close5 \/ Receive5
=============================================================================
