-------------------------------- MODULE Wire --------------------------------
(***************************************************************************)
(* Messages on a socket: chunker and dechunker, the goroutine that reads   *)
(* ahead, and Close. The peer writes what this chunker would, with nop     *)
(* chunks between messages. A byte is below Base (256 in the code), a size *)
(* takes two bytes; MaxChunk stands for 0xffff. Contexts have no deadline: *)
(* a reader or writer gives up by closing the connection.                  *)
(***************************************************************************)
EXTENDS Integers, Sequences, SequencesExt

CONSTANTS
    Base,
    Conversations,    \* bound: sequences of messages, a message is a sequence of bytes
    BufferSize,       \* of the goroutine that reads ahead
    MaxNops           \* bound: nop chunks

(* Two digits make a size; a message has at least the header of its structure *)
ASSUME SizesHaveTwoBytes == Base \in Nat /\ Base > 1
ASSUME MessagesAreNotEmpty ==
    \A messages \in Conversations :
        messages \in Seq(Seq(0 .. Base - 1)) /\ \A i \in DOMAIN messages : messages[i] # << >>
ASSUME BufferIsNotEmpty == BufferSize \in Nat \ {0}

MaxChunk == Base * Base - 1

VARIABLES
    out,       \* chunker: todo (messages to come), buf, sizes; start, end, left of send
    network,   \* bytes: what is on its way; nops so far; open, as the peer sees it
    sock,      \* socketConnection: pending, wantRead, done; buffer of readAhead
    ahead,     \* readAhead: at, and the slice that it is about to hand over
    reader,    \* dechunkMessage: part, left to read, bytes so far, message; slice it holds
    sentMsgs, gotMsgs

wireVars == <<out, network, sock, ahead, reader, sentMsgs, gotMsgs>>

NoSlice == [lo |-> 0, hi |-> 0, err |-> FALSE]
Idle == [part |-> "size", left |-> 2, bytes |-> << >>, msg |-> << >>, held |-> << >>]
EmptyBuffer == [i \in 1 .. BufferSize |-> 0]
NothingToSend == [todo |-> << >>, buf |-> << >>, sizes |-> << >>, start |-> 0, end |-> 0,
                  sending |-> FALSE]

WireStart(messages) ==
    /\ out = [NothingToSend EXCEPT !.todo = messages]
    /\ network = [bytes |-> << >>, nops |-> 0, open |-> TRUE]
    /\ sock = [pending |-> << >>, wantRead |-> 1, done |-> FALSE, buffer |-> EmptyBuffer]
    /\ ahead = [at |-> "wait", slice |-> NoSlice]
    /\ reader = Idle
    /\ sentMsgs = << >> /\ gotMsgs = << >>

WireInit == \E messages \in Conversations : WireStart(messages)

-----------------------------------------------------------------------------
(* chunker *)

(* beginMessage, the packed message, endMessage *)
AppendMessage ==
    /\ out.todo # << >> /\ ~out.sending /\ Len(out.sizes) < 2
    /\ out' = [out EXCEPT !.buf = @ \o <<0, 0>> \o Head(out.todo) \o <<0, 0>>,
                          !.sizes = Append(@, Len(Head(out.todo))), !.todo = Tail(@)]
    /\ sentMsgs' = Append(sentMsgs, Head(out.todo))
    /\ UNCHANGED <<network, sock, ahead, reader, gotMsgs>>

StartSend ==
    /\ out.sizes # << >> /\ ~out.sending
    /\ out' = [out EXCEPT !.sending = TRUE]
    /\ UNCHANGED <<network, sock, ahead, reader, sentMsgs, gotMsgs>>

PutSize(buf, end, size) ==
    [buf EXCEPT ![end + 1] = size \div Base, ![end + 2] = size % Base]

(* Where the size of the next chunk of the message goes: over the last bytes written *)
ChunkStart(end) == end + 2 + MaxChunk - 2

(* One turn of the loop of send: a message that fits is left for a later write, a
   larger one is written chunk by chunk *)
SendTurn ==
    /\ out.sending /\ out.sizes # << >> /\ network.open
    /\ LET size == Head(out.sizes)
       IN  IF size <= MaxChunk
           THEN /\ out' = [out EXCEPT !.buf = PutSize(@, out.end, size), !.end = @ + 2 + size + 2,
                                      !.sizes = Tail(@)]
                /\ UNCHANGED network
           ELSE LET buf == PutSize(out.buf, out.end, MaxChunk)
                    next == ChunkStart(out.end)
                IN  /\ out' = [out EXCEPT !.buf = buf, !.end = next, !.start = next,
                                          !.sizes = <<size - MaxChunk>> \o Tail(@)]
                    /\ network' = [network EXCEPT !.bytes =
                                    @ \o SubSeq(buf, out.start + 1, out.end + 2 + MaxChunk)]
    /\ UNCHANGED <<sock, ahead, reader, sentMsgs, gotMsgs>>

(* The last write, and reset *)
EndSend ==
    /\ out.sending /\ out.sizes = << >> /\ network.open
    /\ network' = [network EXCEPT !.bytes = @ \o SubSeq(out.buf, out.start + 1, out.end)]
    /\ out' = [NothingToSend EXCEPT !.todo = out.todo]
    /\ UNCHANGED <<sock, ahead, reader, sentMsgs, gotMsgs>>

(* The peer keeps the connection alive; it closes it *)
Nop ==
    /\ ~out.sending /\ network.open /\ network.nops < MaxNops
    /\ network' = [network EXCEPT !.bytes = @ \o <<0, 0>>, !.nops = @ + 1]
    /\ UNCHANGED <<out, sock, ahead, reader, sentMsgs, gotMsgs>>

PeerCloses ==
    /\ network.open
    /\ network' = [network EXCEPT !.open = FALSE]
    /\ UNCHANGED <<out, sock, ahead, reader, sentMsgs, gotMsgs>>

(* A write that fails ends the send, wherever in a message it is *)
WriteFails ==
    /\ out.sending /\ ~network.open
    /\ out' = NothingToSend
    /\ UNCHANGED <<network, sock, ahead, reader, sentMsgs, gotMsgs>>

-----------------------------------------------------------------------------
(* readAhead *)

TakeToken ==
    /\ ahead.at = "wait" /\ sock.wantRead > 0
    /\ sock' = [sock EXCEPT !.wantRead = @ - 1]
    /\ ahead' = [ahead EXCEPT !.at = "read"]
    /\ UNCHANGED <<out, network, reader, sentMsgs, gotMsgs>>

ReadSocket(n) ==
    /\ ahead.at = "read" /\ ~sock.done /\ n <= Len(network.bytes)
    /\ sock' = [sock EXCEPT !.buffer = [i \in 1 .. BufferSize |-> IF i <= n THEN network.bytes[i]
                                                                  ELSE @[i]]]
    /\ network' = [network EXCEPT !.bytes = SubSeq(@, n + 1, Len(@))]
    /\ ahead' = [at |-> "push", slice |-> [lo |-> 0, hi |-> n, err |-> FALSE]]
    /\ UNCHANGED <<out, reader, sentMsgs, gotMsgs>>

ReadSocketFails ==
    /\ ahead.at = "read"
    /\ sock.done \/ ~network.open
    /\ ahead' = [at |-> "push", slice |-> [NoSlice EXCEPT !.err = TRUE]]
    /\ UNCHANGED <<out, network, sock, reader, sentMsgs, gotMsgs>>

HandOver ==
    /\ ahead.at = "push" /\ sock.pending = << >>
    /\ sock' = [sock EXCEPT !.pending = <<ahead.slice>>]
    /\ ahead' = [ahead EXCEPT !.at = "wait"]
    /\ UNCHANGED <<out, network, reader, sentMsgs, gotMsgs>>

ReadAheadEnds ==
    /\ ahead.at = "wait" /\ sock.done
    /\ ahead' = [ahead EXCEPT !.at = "ended"]
    /\ UNCHANGED <<out, network, sock, reader, sentMsgs, gotMsgs>>

-----------------------------------------------------------------------------
(* dechunkMessage, through ReadFull and socketConnection.Read *)

(* Mutant: readAhead is asked for more before the bytes are copied *)
TakePendingEarly ==
    /\ reader.part # "failed" /\ reader.held = << >> /\ reader.left > 0
    /\ sock.pending # << >>
    /\ reader' = [reader EXCEPT !.held = sock.pending]
    /\ sock' = [sock EXCEPT !.pending = << >>, !.wantRead = 1]
    /\ UNCHANGED <<out, network, ahead, sentMsgs, gotMsgs>>

(* A reader that waits may still be handed bytes when the socket is closed meanwhile *)
TakePending ==
    /\ reader.part # "failed" /\ reader.held = << >> /\ reader.left > 0
    /\ sock.pending # << >>
    /\ reader' = [reader EXCEPT !.held = sock.pending]
    /\ sock' = [sock EXCEPT !.pending = << >>]
    /\ UNCHANGED <<out, network, ahead, sentMsgs, gotMsgs>>

(* Mutant: readAhead is asked for more only when this read wants more *)
CopyPendingLazily ==
    /\ reader.held # << >> /\ ~Head(reader.held).err
    /\ LET s == Head(reader.held)
           n == IF reader.left < s.hi - s.lo THEN reader.left ELSE s.hi - s.lo
       IN  /\ reader' = [reader EXCEPT !.bytes = @ \o SubSeq(sock.buffer, s.lo + 1, s.lo + n),
                                       !.left = @ - n, !.held = << >>]
           /\ sock' = IF n < reader.left THEN [sock EXCEPT !.wantRead = 1]
                      ELSE IF n = s.hi - s.lo THEN sock
                      ELSE [sock EXCEPT !.pending = <<[s EXCEPT !.lo = @ + n]>>]
    /\ UNCHANGED <<out, network, ahead, sentMsgs, gotMsgs>>

(* copy: what the reader does not want yet stays pending, else readAhead may go on *)
CopyPending ==
    /\ reader.held # << >> /\ ~Head(reader.held).err
    /\ LET s == Head(reader.held)
           n == IF reader.left < s.hi - s.lo THEN reader.left ELSE s.hi - s.lo
           all == n = s.hi - s.lo
       IN  /\ reader' = [reader EXCEPT !.bytes = @ \o SubSeq(sock.buffer, s.lo + 1, s.lo + n),
                                       !.left = @ - n, !.held = << >>]
           /\ sock' = IF all THEN [sock EXCEPT !.wantRead = 1]
                      ELSE [sock EXCEPT !.pending = <<[s EXCEPT !.lo = @ + n]>>]
    /\ UNCHANGED <<out, network, ahead, sentMsgs, gotMsgs>>

(* The size of a chunk, zero for the end of a message or a nop; the chunk *)
Dechunk ==
    /\ reader.left = 0
    /\ LET size == reader.bytes[1] * Base + reader.bytes[2]
       IN  IF reader.part = "chunk"
           THEN /\ reader' = [Idle EXCEPT !.msg = reader.msg \o reader.bytes] /\ UNCHANGED gotMsgs
           ELSE IF size # 0
           THEN /\ reader' = [reader EXCEPT !.part = "chunk", !.left = size, !.bytes = << >>]
                /\ UNCHANGED gotMsgs
           ELSE /\ reader' = Idle
                /\ gotMsgs' = IF reader.msg = << >> THEN gotMsgs ELSE Append(gotMsgs, reader.msg)
    /\ UNCHANGED <<out, network, sock, ahead, sentMsgs>>

(* Close: by the owner, after a timeout, after an error *)
CloseSocket ==
    /\ ~sock.done
    /\ sock' = [sock EXCEPT !.done = TRUE]
    /\ UNCHANGED <<out, network, ahead, reader, sentMsgs, gotMsgs>>

ReadFails ==
    /\ reader.held # << >> /\ Head(reader.held).err
    /\ reader' = [Idle EXCEPT !.part = "failed"]
    /\ sock' = [sock EXCEPT !.wantRead = 1]
    /\ UNCHANGED <<out, network, ahead, sentMsgs, gotMsgs>>

ReadClosed ==
    /\ sock.done /\ reader.part # "failed" /\ reader.held = << >> /\ reader.left > 0
    /\ reader' = [Idle EXCEPT !.part = "failed"]
    /\ UNCHANGED <<out, network, sock, ahead, sentMsgs, gotMsgs>>

(* peerAlive, asked of an idle connection: an error that was read ahead is seen *)
PeerFoundDead ==
    /\ reader = Idle /\ ~sock.done
    /\ sock.pending # << >> /\ Head(sock.pending).err
    /\ sock' = [sock EXCEPT !.done = TRUE]
    /\ UNCHANGED <<out, network, ahead, reader, sentMsgs, gotMsgs>>

-----------------------------------------------------------------------------
(* The three threads: who sends, the goroutine that reads ahead, who receives *)
Sender == AppendMessage \/ StartSend \/ SendTurn \/ EndSend \/ WriteFails
ReadAhead ==
    \/ TakeToken \/ \E n \in 1 .. BufferSize : ReadSocket(n)
    \/ ReadSocketFails \/ HandOver \/ ReadAheadEnds
Receiver == TakePending \/ CopyPending \/ Dechunk \/ ReadFails \/ ReadClosed

WireNext == Sender \/ ReadAhead \/ Receiver \/ Nop \/ PeerCloses \/ CloseSocket \/ PeerFoundDead

WireSpec == WireInit /\ [][WireNext]_wireVars

(* What arrives is what was sent, message by message and byte by byte, although
   chunk sizes overwrite the buffer while it is being written, nop chunks come
   between messages, and the reader copies from the buffer that readAhead fills. *)
MessagesIntact == IsPrefix(gotMsgs, sentMsgs)

(* A message that was sent arrives, unless the connection is closed; and a
   connection that is closed leaves neither goroutine nor reader behind. *)
WireSettles ==
    /\ \A n \in 1 .. 3 : (Len(sentMsgs) >= n) ~>
            (Len(gotMsgs) >= n \/ sock.done \/ ~network.open)
    /\ sock.done ~> (ahead.at = "ended" /\ reader.part = "failed")
=============================================================================
