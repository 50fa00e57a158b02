----------------------------- MODULE WireProofs -----------------------------
(***************************************************************************)
(* Proof that messages arrive intact: MessagesIntact of Wire, for all      *)
(* conversations, every base in which the two bytes of a size are written  *)
(* and every size of the buffer of readAhead.                              *)
(*                                                                         *)
(* The inductive invariant says that there is one stream of bytes, laid    *)
(* out in the chunks of the messages, and that every place a byte can be   *)
(* in holds a part of it: what the reader has assembled, the slice of the  *)
(* buffer, the network, and the chunker's buffer before and after the size *)
(* bytes are filled in.  It holds until the reader fails, and a reader     *)
(* that has failed delivers nothing any more.                              *)
(***************************************************************************)
EXTENDS Wire, TLAPS, SequenceTheorems

-----------------------------------------------------------------------------
(* The types of chunker, socket and dechunker.                             *)

Byte == 0 .. Base - 1
Count == Nat
Message == Seq(Byte) \ {<< >>}
Slices == {s \in [lo : Nat, hi : Nat, err : BOOLEAN] : s.lo <= s.hi /\ s.hi <= BufferSize}
OutFields == {"todo", "buf", "sizes", "start", "end", "sending"}
NetFields == {"bytes", "nops", "open"}
SockFields == {"pending", "wantRead", "done", "buffer"}
ReaderFields == {"part", "left", "bytes", "msg", "held"}

OutTypes ==
  /\ DOMAIN out = OutFields
  /\ out.todo \in Seq(Message) /\ out.buf \in Seq(Byte) /\ out.sizes \in Seq(Count)
  /\ out.start \in Nat /\ out.end \in Nat /\ out.sending \in BOOLEAN
NetTypes == DOMAIN network = NetFields /\ network.bytes \in Seq(Byte) /\ network.open \in BOOLEAN
SockTypes ==
  /\ DOMAIN sock = SockFields /\ DOMAIN ahead = {"at", "slice"}
  /\ sock.pending \in Seq(Slices) /\ sock.wantRead \in Nat
  /\ sock.buffer \in [1 .. BufferSize -> Byte]
  /\ ahead.slice \in Slices /\ ahead.at \in {"wait", "read", "push", "ended"}
ReaderTypes ==
  /\ DOMAIN reader = ReaderFields
  /\ reader.part \in {"size", "chunk"} /\ reader.left \in Nat
  /\ reader.bytes \in Seq(Byte) /\ reader.msg \in Seq(Byte) /\ reader.held \in Seq(Slices)
MsgTypes == sentMsgs \in Seq(Message) /\ gotMsgs \in Seq(Message)
WireTypes == OutTypes /\ NetTypes /\ SockTypes /\ ReaderTypes /\ MsgTypes

\* The buffer of readAhead has one user: the goroutine that fills it, the slice that waits
\* for a reader, or the reader that copies from it.
BufferToken ==
  /\ Len(sock.pending) <= 1 /\ Len(reader.held) <= 1 /\ sock.wantRead <= 1
  /\ ahead.at \in {"read", "push"} => sock.wantRead = 0
  /\ sock.pending # << >> => sock.wantRead = 0 /\ ahead.at \notin {"read", "push"}
  /\ reader.held # << >> => /\ sock.wantRead = 0 /\ ahead.at \notin {"read", "push"}
                            /\ sock.pending = << >> /\ reader.left > 0

\* What has arrived is what was sent first.
Got == Len(gotMsgs) <= Len(sentMsgs) /\ \A i \in 1 .. Len(gotMsgs) : gotMsgs[i] = sentMsgs[i]

-----------------------------------------------------------------------------
(* The bytes of a connection are one stream T, of which every place has a  *)
(* part: the reader, the slice of the buffer, the network, the chunker.    *)
(* It is laid out in chunks: chunk i starts after position P[i], with what *)
(* follows the first O[i] bytes of message I[i]. The reader is in chunk a, *)
(* and chunk z is the one to be made next.                                 *)

Size(P, i) == P[i + 1] - P[i] - 2

\* The size n, in the two bytes of q after position p.
Digits(q, p, n) == q[p + 1] = n \div Base /\ q[p + 2] = n % Base

DataChunk(T, P, I, O, i, sent) ==
  /\ I[i] \in 1 .. Len(sent) /\ O[i] + Size(P, i) <= Len(sent[I[i]])
  /\ \A j \in 1 .. Size(P, i) : T[P[i] + 2 + j] = sent[I[i]][O[i] + j]
  /\ I[i + 1] = I[i] /\ O[i + 1] = O[i] + Size(P, i)
NopChunk(I, O, i) == O[i] = 0 /\ I[i + 1] = I[i] /\ O[i + 1] = 0
LastChunk(I, O, i, sent) ==
  /\ I[i] \in 1 .. Len(sent) /\ O[i] > 0 /\ O[i] = Len(sent[I[i]])
  /\ I[i + 1] = I[i] + 1 /\ O[i + 1] = 0
Chunk(T, P, I, O, i, sent) ==
  /\ Size(P, i) \in 0 .. MaxChunk
  /\ Digits(T, P[i], Size(P, i))
  /\ Size(P, i) > 0 => DataChunk(T, P, I, O, i, sent)
  /\ Size(P, i) = 0 => NopChunk(I, O, i) \/ LastChunk(I, O, i, sent)

Chunks(T, P, I, O, a, z, sent) ==
  /\ a <= z
  /\ \A i \in a .. z - 1 : Chunk(T, P, I, O, i, sent)
  /\ \A i, j \in a .. z : i <= j => P[i] <= P[j]

\* A chunk of n bytes, f with its size, can follow; then message m goes on after o bytes.
Follows(I, O, z, n, f, sent, m, o) ==
  /\ Digits(f, 0, n)
  /\ n > 0 => /\ I[z] \in 1 .. Len(sent) /\ O[z] + n <= Len(sent[I[z]])
              /\ \A j \in 1 .. n : f[2 + j] = sent[I[z]][O[z] + j]
              /\ m = I[z] /\ o = O[z] + n
  /\ n = 0 => \/ O[z] = 0 /\ m = I[z] /\ o = 0
              \/ /\ I[z] \in 1 .. Len(sent) /\ O[z] > 0
                 /\ O[z] = Len(sent[I[z]]) /\ m = I[z] + 1 /\ o = 0

\* U with Q, J and R is the stream after that chunk.
Added(T, P, I, O, U, Q, J, R, a, z, n, f, sent, m, o) ==
  /\ Chunks(U, Q, J, R, a, z + 1, sent)
  /\ \A q \in 0 .. P[z] : U[q] = T[q]
  /\ \A i \in 1 .. n + 2 : U[P[z] + i] = f[i]
  /\ \A i \in 0 .. z : Q[i] = P[i] /\ J[i] = I[i] /\ R[i] = O[i]
  /\ Q[z + 1] = P[z] + n + 2 /\ J[z + 1] = m /\ R[z + 1] = o

\* The sequence q is the part of T after position p.
Window(T, p, q) == \A i \in 1 .. Len(q) : q[i] = T[p + i]

From(P, a) == IF reader.part = "chunk" THEN P[a] + 2 ELSE P[a]
ReadTo(P, a) == From(P, a) + Len(reader.bytes)
Receives(T, P, I, O, a, z) ==
  /\ Window(T, From(P, a), reader.bytes)
  /\ reader.part = "size" => Len(reader.bytes) + reader.left = 2
  /\ reader.part = "chunk" => a < z /\ Size(P, a) > 0 /\ Len(reader.bytes) + reader.left = Size(P, a)
  /\ I[a] = Len(gotMsgs) + 1 /\ O[a] = Len(reader.msg)
  /\ Len(reader.msg) > 0 =>
       /\ I[a] <= Len(sentMsgs) /\ Len(reader.msg) <= Len(sentMsgs[I[a]])
       /\ \A i \in 1 .. Len(reader.msg) : reader.msg[i] = sentMsgs[I[a]][i]

Slice == IF reader.held # << >> THEN Head(reader.held)
         ELSE IF sock.pending # << >> THEN Head(sock.pending)
         ELSE IF ahead.at = "push" THEN ahead.slice ELSE NoSlice
Held == Slice.hi - Slice.lo
Carries(T, p) ==
  /\ \A i \in 1 .. Held : sock.buffer[Slice.lo + i] = T[p + i]
  /\ Window(T, p + Held, network.bytes)
Travels(T, P, z, p) == Carries(T, p) /\ p + Held + Len(network.bytes) <= P[z]

\* The chunker: what is written but not sent, and which message comes next.
Unsent(T, P, z, p) ==
  /\ out.start <= out.end /\ out.end <= Len(out.buf)
  /\ p + (out.end - out.start) = P[z]
  /\ \A i \in 1 .. out.end - out.start : out.buf[out.start + i] = T[p + i]
Upcoming(I, O, z) ==
  /\ Len(out.sizes) <= Len(sentMsgs)
  /\ I[z] = Len(sentMsgs) - Len(out.sizes) + 1
  /\ ~out.sending => out.start = 0 /\ out.end = 0 /\ O[z] = 0
  /\ out.sizes = << >> => O[z] = 0
  /\ out.sizes # << >> => O[z] + out.sizes[1] = Len(sentMsgs[I[z]])
Sends(T, P, I, O, z, p) == Unsent(T, P, z, p) /\ Upcoming(I, O, z)

\* A message of the chunker's buffer begins at B[i]: room for the size, data, end.
Queued(B, i, size, buf, msg) ==
  /\ size \in 1 .. Len(msg) /\ B[i + 1] = B[i] + 4 + size
  /\ i > 1 => size = Len(msg)
  /\ \A j \in 1 .. size : buf[B[i] + 2 + j] = msg[Len(msg) - size + j]
  /\ buf[B[i] + 2 + size + 1] = 0 /\ buf[B[i] + 2 + size + 2] = 0
Buffered(B) ==
  /\ B[1] = out.end /\ B[Len(out.sizes) + 1] = Len(out.buf)
  /\ \A i, j \in 1 .. Len(out.sizes) + 1 : i <= j => B[i] <= B[j]
  /\ \A i \in 1 .. Len(out.sizes) :
       Queued(B, i, out.sizes[i], out.buf, sentMsgs[Len(sentMsgs) - Len(out.sizes) + i])

Pipe(T, P, I, O, a, z, B) ==
  /\ Chunks(T, P, I, O, a, z, sentMsgs)
  /\ Receives(T, P, I, O, a, z)
  /\ Travels(T, P, z, ReadTo(P, a))
  /\ network.open => /\ Sends(T, P, I, O, z, ReadTo(P, a) + Held + Len(network.bytes))
                     /\ Buffered(B)

Piped == \E T \in [Nat -> Byte], P, I, O, B \in [Nat -> Nat], a, z \in Nat :
            Pipe(T, P, I, O, a, z, B)

Flows == WireTypes /\ BufferToken /\ Got /\ Piped

\* A reader that has failed reads no more, whatever the chunker does.
Stopped ==
  /\ reader.part = "failed" /\ reader.left = 2 /\ reader.held = << >> /\ Got
  /\ DOMAIN out = OutFields /\ out.todo \in Seq(Message) /\ MsgTypes

WireInv == Flows \/ Stopped

-----------------------------------------------------------------------------
(* The operators of the invariant: digits, chunks that are added, parts    *)
(* that move.                                                              *)

\* The two digits of a size give the size back.
LEMMA SizeDigits ==
  ASSUME NEW n \in Nat
  PROVE  /\ n \div Base \in Int /\ n % Base \in Int
         /\ (n \div Base) * Base + (n % Base) = n
  BY SizesHaveTwoBytes

\* The largest chunk that two bytes can announce has at least three bytes.
LEMMA ChunkIsLarge == MaxChunk \in Nat /\ MaxChunk >= 3
<1> DEFINE d == Base
<1>1. d \in Nat /\ d >= 2
  BY SizesHaveTwoBytes
<1>2. MaxChunk = d * d - 1
  BY DEF MaxChunk
<1> HIDE DEF d
<1>3. d * d \in Nat /\ d * d >= 4
  BY <1>1
<1> QED
  BY <1>2, <1>3

\* A chunk is added to the stream.
LEMMA AddChunk ==
  ASSUME NEW T \in [Nat -> Byte], NEW P \in [Nat -> Nat], NEW I \in [Nat -> Nat], NEW O \in [Nat -> Nat],
         NEW a \in Nat, NEW z \in Nat, NEW sent, Chunks(T, P, I, O, a, z, sent),
         NEW n \in 0 .. MaxChunk, NEW f, \A i \in 1 .. n + 2 : f[i] \in Byte, NEW m \in Nat, NEW o \in Nat,
         Follows(I, O, z, n, f, sent, m, o)
  PROVE  \E U \in [Nat -> Byte], Q, J, R \in [Nat -> Nat] :
           Added(T, P, I, O, U, Q, J, R, a, z, n, f, sent, m, o)
<1> DEFINE p == P[z]
           U == [q \in Nat |-> IF q \in p + 1 .. p + n + 2 THEN f[q - p] ELSE T[q]]
           Q == [P EXCEPT ![z + 1] = p + n + 2]
           J == [I EXCEPT ![z + 1] = m]
           R == [O EXCEPT ![z + 1] = o]
<1>0. n \in Nat /\ n <= MaxChunk /\ p \in Nat
  BY ChunkIsLarge
<1> HIDE DEF p
<1>1. U \in [Nat -> Byte]
  <2> SUFFICES ASSUME NEW q \in Nat PROVE (IF q \in p + 1 .. p + n + 2 THEN f[q - p] ELSE T[q]) \in Byte
    OBVIOUS
  <2>1. CASE q \in p + 1 .. p + n + 2
    <3>1. q - p \in 1 .. n + 2
      BY <1>0, <2>1
    <3> QED
      BY <2>1, <3>1
  <2> QED
    BY <2>1
<1>2. Q \in [Nat -> Nat] /\ J \in [Nat -> Nat] /\ R \in [Nat -> Nat]
  BY <1>0
<1>3. \A q \in 0 .. p : U[q] = T[q]
  BY <1>0
<1>4. \A i \in 1 .. n + 2 : U[p + i] = f[i]
  <2> TAKE i \in 1 .. n + 2
  <2>1. p + i \in p + 1 .. p + n + 2 /\ p + i \in Nat /\ (p + i) - p = i
    BY <1>0
  <2> QED
    BY <2>1
<1>5. \A i \in 0 .. z : Q[i] = P[i] /\ J[i] = I[i] /\ R[i] = O[i]
  OBVIOUS
<1>6. Q[z + 1] = p + n + 2 /\ J[z + 1] = m /\ R[z + 1] = o
  OBVIOUS
<1> HIDE DEF U, Q, J, R
<1>7. a <= z /\ Q[z] = p /\ J[z] = I[z] /\ R[z] = O[z]
  BY <1>5 DEF Chunks, p
<1>8. Size(Q, z) = n
  BY <1>0, <1>6, <1>7 DEF Size
<1>9. Chunk(U, Q, J, R, z, sent)
  <2>0. U[p + 1] = f[1] /\ U[p + 2] = f[2]
    BY <1>0, <1>4
  <2>1. Digits(U, Q[z], n)
    BY <1>7, <2>0 DEF Digits, Follows
  <2>2. ASSUME n > 0 PROVE DataChunk(U, Q, J, R, z, sent)
    <3>1. \A j \in 1 .. n : U[Q[z] + 2 + j] = sent[J[z]][R[z] + j]
      <4> TAKE j \in 1 .. n
      <4>1. 2 + j \in 1 .. n + 2 /\ p + (2 + j) = p + 2 + j
        BY <1>0
      <4> QED
        BY <1>4, <1>7, <2>2, <4>1 DEF Follows
    <3> QED
      BY <1>6, <1>7, <1>8, <2>2, <3>1 DEF DataChunk, Follows
  <2>3. ASSUME n = 0 PROVE NopChunk(J, R, z) \/ LastChunk(J, R, z, sent)
    BY <1>6, <1>7, <2>3 DEF NopChunk, LastChunk, Follows
  <2> QED
    BY <1>0, <1>8, <2>1, <2>2, <2>3 DEF Chunk
<1>10. ASSUME NEW i \in a .. z - 1 PROVE Chunk(U, Q, J, R, i, sent)
  <2>1. i \in 0 .. z /\ i + 1 \in 0 .. z /\ i \in a .. z /\ i + 1 \in a .. z /\ z \in a .. z
    OBVIOUS
  <2>2. /\ Q[i] = P[i] /\ Q[i + 1] = P[i + 1] /\ Size(Q, i) = Size(P, i)
        /\ J[i] = I[i] /\ J[i + 1] = I[i + 1] /\ R[i] = O[i] /\ R[i + 1] = O[i + 1]
    BY <1>5, <2>1 DEF Size
  <2>3. Chunk(T, P, I, O, i, sent)
    BY DEF Chunks
  <2>4. P[i] \in Nat /\ P[i + 1] \in Nat /\ P[i + 1] <= p
    BY <2>1 DEF Chunks, p
  <2>5. Size(P, i) \in Nat /\ P[i] + 2 + Size(P, i) = P[i + 1]
    BY <1>0, <2>3, <2>4, ChunkIsLarge DEF Chunk, Size
  <2>6. U[P[i] + 1] = T[P[i] + 1] /\ U[P[i] + 2] = T[P[i] + 2]
    BY <1>0, <1>3, <2>4, <2>5
  <2>7. \A j \in 1 .. Size(P, i) : U[P[i] + 2 + j] = T[P[i] + 2 + j]
    <3> TAKE j \in 1 .. Size(P, i)
    <3>1. P[i] + 2 + j \in 0 .. p
      BY <1>0, <2>4, <2>5
    <3> QED
      BY <1>3, <3>1
  <2>8. Digits(T, P[i], Size(P, i)) => Digits(U, P[i], Size(P, i))
    BY <2>6 DEF Digits
  <2> QED
    BY <2>2, <2>3, <2>7, <2>8 DEF Chunk, DataChunk, NopChunk, LastChunk
<1>11. \A i, j \in a .. z + 1 : i <= j => Q[i] <= Q[j]
  <2> SUFFICES ASSUME NEW i \in a .. z + 1, NEW j \in a .. z + 1, i <= j
               PROVE  Q[i] <= Q[j]
    OBVIOUS
  <2>1. CASE j = z + 1 /\ i = z + 1
    BY <1>0, <1>6, <2>1
  <2>2. CASE j = z + 1 /\ i # z + 1
    <3>1. i \in a .. z /\ z \in a .. z /\ i \in 0 .. z
      BY <1>7, <2>2
    <3>2. P[i] <= p /\ P[i] \in Nat
      BY <3>1 DEF Chunks, p
    <3> QED
      BY <1>0, <1>5, <1>6, <2>2, <3>1, <3>2
  <2>3. CASE j # z + 1
    <3>1. i \in a .. z /\ j \in a .. z /\ i \in 0 .. z /\ j \in 0 .. z
      BY <2>3
    <3> QED
      BY <1>5, <3>1 DEF Chunks
  <2> QED
    BY <2>1, <2>2, <2>3
<1>12. Chunks(U, Q, J, R, a, z + 1, sent)
  <2>1. \A i \in a .. (z + 1) - 1 : Chunk(U, Q, J, R, i, sent)
    BY <1>9, <1>10
  <2>2. a <= z + 1
    BY <1>7
  <2> QED
    BY <1>11, <2>1, <2>2 DEF Chunks
<1>13. Added(T, P, I, O, U, Q, J, R, a, z, n, f, sent, m, o)
  BY <1>3, <1>4, <1>5, <1>6, <1>12 DEF p, Added
<1> QED
  BY <1>1, <1>2, <1>13

\* What the types say in numbers.
LEMMA WireNumbers ==
  ASSUME WireTypes
  PROVE  /\ Len(reader.bytes) \in Nat /\ Len(reader.msg) \in Nat /\ reader.left \in Nat
         /\ Len(gotMsgs) \in Nat /\ Len(sentMsgs) \in Nat /\ Len(network.bytes) \in Nat
         /\ Len(out.buf) \in Nat /\ Len(out.sizes) \in Nat /\ out.start \in Nat /\ out.end \in Nat
         /\ \A i \in 1 .. Len(out.sizes) : out.sizes[i] \in Nat
         /\ \A i \in 1 .. Len(sentMsgs) : Len(sentMsgs[i]) \in Nat /\ Len(sentMsgs[i]) > 0
         /\ Slice \in Slices /\ Slice.lo \in Nat /\ Slice.hi \in Nat /\ Slice.lo <= Slice.hi
         /\ Slice.hi <= BufferSize /\ Held \in Nat
<1>1. /\ Len(reader.bytes) \in Nat /\ Len(reader.msg) \in Nat /\ reader.left \in Nat
      /\ Len(gotMsgs) \in Nat /\ Len(sentMsgs) \in Nat /\ Len(network.bytes) \in Nat
  BY LenProperties DEF WireTypes, ReaderTypes, MsgTypes, NetTypes
<1>2. Len(out.buf) \in Nat /\ Len(out.sizes) \in Nat /\ out.start \in Nat /\ out.end \in Nat
  BY LenProperties DEF WireTypes, OutTypes
<1>3. \A i \in 1 .. Len(out.sizes) : out.sizes[i] \in Nat
  BY ElementOfSeq DEF WireTypes, OutTypes, Count
<1>4. \A i \in 1 .. Len(sentMsgs) : Len(sentMsgs[i]) \in Nat /\ Len(sentMsgs[i]) > 0
  <2> TAKE i \in 1 .. Len(sentMsgs)
  <2>1. sentMsgs[i] \in Message
    BY ElementOfSeq DEF WireTypes, MsgTypes
  <2> QED
    BY <2>1, EmptySeq DEF Message
<1>5. NoSlice \in Slices
  BY BufferIsNotEmpty DEF NoSlice, Slices
<1>6. /\ reader.held # << >> => Head(reader.held) \in Slices
      /\ sock.pending # << >> => Head(sock.pending) \in Slices
      /\ ahead.slice \in Slices
  BY HeadTailProperties DEF WireTypes, ReaderTypes, SockTypes
<1>7. Slice \in Slices
  BY <1>5, <1>6 DEF Slice
<1>8. Slice.lo \in Nat /\ Slice.hi \in Nat /\ Slice.lo <= Slice.hi /\ Slice.hi <= BufferSize
  BY <1>7 DEF Slices
<1>9. Held \in Nat
  BY <1>8 DEF Held
<1> QED
  BY <1>1, <1>2, <1>3, <1>4, <1>7, <1>8, <1>9

\* Where the reader is.
LEMMA ReadToNat ==
  ASSUME WireTypes, NEW P \in [Nat -> Nat], NEW a \in Nat
  PROVE  From(P, a) \in Nat /\ ReadTo(P, a) \in Nat
<1> DEFINE n == Len(reader.bytes)
<1>1. n \in Nat
  BY WireNumbers
<1> HIDE DEF n
<1>2. From(P, a) \in Nat
  BY DEF From
<1>3. From(P, a) + n \in Nat
  BY <1>1, <1>2
<1> QED
  BY <1>2, <1>3 DEF ReadTo, n

\* Nothing that the stream is about has changed, but for a network that may have closed.
LEMMA SamePipe ==
  ASSUME /\ reader'.part = reader.part /\ reader'.left = reader.left
         /\ reader'.bytes = reader.bytes /\ reader'.msg = reader.msg,
         gotMsgs' = gotMsgs, sentMsgs' = sentMsgs,
         Slice'.lo = Slice.lo /\ Slice'.hi = Slice.hi /\ sock'.buffer = sock.buffer,
         network'.bytes = network.bytes, network'.open => network.open,
         network'.open => /\ out'.buf = out.buf /\ out'.sizes = out.sizes
                          /\ out'.start = out.start /\ out'.end = out.end
                          /\ out'.sending = out.sending
  PROVE  Piped => Piped'
<1> SUFFICES ASSUME Piped PROVE Piped'
  OBVIOUS
<1>0. PICK T \in [Nat -> Byte], P \in [Nat -> Nat], I \in [Nat -> Nat], O \in [Nat -> Nat],
           B \in [Nat -> Nat], a \in Nat, z \in Nat : Pipe(T, P, I, O, a, z, B)
  BY DEF Piped
<1>1. Held' = Held /\ ReadTo(P, a)' = ReadTo(P, a)
  BY DEF Held, ReadTo, From
<1>2. Chunks(T, P, I, O, a, z, sentMsgs)'
  BY <1>0 DEF Pipe
<1>3. Receives(T, P, I, O, a, z)'
  BY <1>0 DEF Pipe, Receives, From
<1>4. Travels(T, P, z, ReadTo(P, a))'
  BY <1>0, <1>1 DEF Pipe, Travels, Carries
<1>5. ASSUME network'.open
      PROVE  (Sends(T, P, I, O, z, ReadTo(P, a) + Held + Len(network.bytes)) /\ Buffered(B))'
  BY <1>0, <1>1, <1>5 DEF Pipe, Sends, Unsent, Upcoming, Buffered
<1>6. Pipe(T, P, I, O, a, z, B)'
  BY <1>2, <1>3, <1>4, <1>5 DEF Pipe
<1> QED
  BY <1>6 DEF Piped

\* Types and the slice, where only the socket or the goroutine that reads ahead moves on.
LEMMA TakeTokenInv ==
  ASSUME Flows, TakeToken
  PROVE  Flows'
<1>1. /\ sock'.pending = sock.pending /\ sock'.buffer = sock.buffer /\ sock'.wantRead = sock.wantRead - 1
      /\ DOMAIN sock' = SockFields /\ DOMAIN ahead' = {"at", "slice"}
      /\ ahead'.at = "read" /\ ahead'.slice = ahead.slice /\ ahead.at = "wait" /\ sock.wantRead > 0
      /\ UNCHANGED <<out, network, reader, sentMsgs, gotMsgs>>
  BY DEF TakeToken, Flows, WireTypes, SockTypes, SockFields
<1>2. sock.wantRead = 1 /\ sock.pending = << >> /\ reader.held = << >>
  BY <1>1 DEF Flows, BufferToken, WireTypes, SockTypes
<1>3. WireTypes'
  BY <1>1, <1>2 DEF Flows, WireTypes, OutTypes, NetTypes, SockTypes, ReaderTypes, MsgTypes
<1>4. BufferToken'
  BY <1>1, <1>2 DEF Flows, BufferToken
<1>5. Slice' = Slice
  BY <1>1 DEF Slice, NoSlice
<1> QED
  BY <1>1, <1>3, <1>4, <1>5, SamePipe DEF Flows, Got

\* A failed read of the socket hands over an empty slice.
LEMMA ReadSocketFailsInv ==
  ASSUME Flows, ReadSocketFails
  PROVE  Flows'
<1>1. /\ DOMAIN ahead' = {"at", "slice"} /\ ahead'.at = "push" /\ ahead.at = "read"
      /\ ahead'.slice = [NoSlice EXCEPT !.err = TRUE]
      /\ UNCHANGED <<out, network, sock, reader, sentMsgs, gotMsgs>>
  BY DEF ReadSocketFails
<1>2. ahead'.slice.lo = 0 /\ ahead'.slice.hi = 0 /\ ahead'.slice \in Slices
  <2>1. \A e \in BOOLEAN : [NoSlice EXCEPT !.err = e] = [lo |-> 0, hi |-> 0, err |-> e]
    BY DEF NoSlice
  <2>2. \A e \in BOOLEAN : [lo |-> 0, hi |-> 0, err |-> e] \in Slices
    BY BufferIsNotEmpty DEF Slices
  <2> QED
    BY <1>1, <2>1, <2>2
<1>3. WireTypes'
  BY <1>1, <1>2 DEF Flows, WireTypes, OutTypes, NetTypes, SockTypes, ReaderTypes, MsgTypes
<1>4. BufferToken'
  BY <1>1 DEF Flows, BufferToken
<1>5. Slice'.lo = Slice.lo /\ Slice'.hi = Slice.hi
  BY <1>1, <1>2 DEF Slice, NoSlice, Flows, BufferToken
<1> QED
  BY <1>1, <1>3, <1>4, <1>5, SamePipe DEF Flows, Got

\* readAhead hands its slice over: the slice stays the same, only its place changes.
LEMMA HandOverInv ==
  ASSUME Flows, HandOver
  PROVE  Flows'
<1>1. /\ sock'.pending = <<ahead.slice>> /\ sock'.buffer = sock.buffer /\ sock'.wantRead = sock.wantRead
      /\ DOMAIN sock' = SockFields /\ DOMAIN ahead' = {"at", "slice"}
      /\ ahead'.at = "wait" /\ ahead'.slice = ahead.slice /\ ahead.at = "push" /\ sock.pending = << >>
      /\ UNCHANGED <<out, network, reader, sentMsgs, gotMsgs>>
  BY DEF HandOver, Flows, WireTypes, SockTypes, SockFields
<1>2. /\ <<ahead.slice>> \in Seq(Slices) /\ <<ahead.slice>> # << >>
      /\ Len(<<ahead.slice>>) = 1 /\ Head(<<ahead.slice>>) = ahead.slice
  BY DEF Flows, WireTypes, SockTypes
<1>3. sock.wantRead = 0 /\ reader.held = << >>
  BY <1>1 DEF Flows, BufferToken
<1>4. WireTypes'
  BY <1>1, <1>2 DEF Flows, WireTypes, OutTypes, NetTypes, SockTypes, ReaderTypes, MsgTypes
<1>5. BufferToken'
  BY <1>1, <1>2, <1>3 DEF Flows, BufferToken
<1>6. Slice' = Slice
  BY <1>1, <1>2, <1>3 DEF Slice
<1> QED
  BY <1>1, <1>4, <1>5, <1>6, SamePipe DEF Flows, Got

\* readAhead ends after an error; it has no slice by then.
LEMMA ReadAheadEndsInv ==
  ASSUME Flows, ReadAheadEnds
  PROVE  Flows'
<1>1. /\ DOMAIN ahead' = {"at", "slice"} /\ ahead'.at = "ended" /\ ahead'.slice = ahead.slice
      /\ ahead.at = "wait" /\ UNCHANGED <<out, network, sock, reader, sentMsgs, gotMsgs>>
  BY DEF ReadAheadEnds, Flows, WireTypes, SockTypes
<1>2. WireTypes'
  BY <1>1 DEF Flows, WireTypes, OutTypes, NetTypes, SockTypes, ReaderTypes, MsgTypes
<1>3. BufferToken'
  BY <1>1 DEF Flows, BufferToken
<1>4. Slice' = Slice
  BY <1>1 DEF Slice, NoSlice
<1> QED
  BY <1>1, <1>2, <1>3, <1>4, SamePipe DEF Flows, Got

\* The reader takes the slice that waits for it.
LEMMA TakePendingInv ==
  ASSUME Flows, TakePending
  PROVE  Flows'
<1>1. /\ sock'.pending = << >> /\ sock'.buffer = sock.buffer /\ sock'.wantRead = sock.wantRead
      /\ DOMAIN sock' = SockFields /\ DOMAIN reader' = ReaderFields
      /\ reader'.held = sock.pending /\ reader.held = << >> /\ sock.pending # << >> /\ reader.left > 0
      /\ reader'.part = reader.part /\ reader'.left = reader.left /\ reader'.bytes = reader.bytes
      /\ reader'.msg = reader.msg
      /\ UNCHANGED <<out, network, ahead, sentMsgs, gotMsgs>>
  BY DEF TakePending, Flows, WireTypes, SockTypes, SockFields, ReaderTypes, ReaderFields
<1>2. << >> \in Seq(Slices) /\ Len(<< >>) = 0
  BY EmptySeq
<1>3. WireTypes'
  BY <1>1, <1>2 DEF Flows, WireTypes, OutTypes, NetTypes, SockTypes, ReaderTypes, MsgTypes
<1>4. BufferToken'
  BY <1>1, <1>2 DEF Flows, BufferToken
<1>5. Slice' = Slice
  BY <1>1 DEF Slice
<1> QED
  BY <1>1, <1>3, <1>4, <1>5, SamePipe DEF Flows, Got

\* Close, by whomever.
LEMMA SockDoneInv ==
  ASSUME Flows, sock' = [sock EXCEPT !.done = TRUE],
         UNCHANGED <<out, network, ahead, reader, sentMsgs, gotMsgs>>
  PROVE  Flows'
<1>1. /\ sock'.pending = sock.pending /\ sock'.buffer = sock.buffer /\ sock'.wantRead = sock.wantRead
      /\ DOMAIN sock' = SockFields
  BY DEF Flows, WireTypes, SockTypes, SockFields
<1>2. WireTypes'
  BY <1>1 DEF Flows, WireTypes, OutTypes, NetTypes, SockTypes, ReaderTypes, MsgTypes
<1>3. BufferToken'
  BY <1>1 DEF Flows, BufferToken
<1>4. Slice' = Slice
  BY <1>1 DEF Slice
<1> QED
  BY <1>1, <1>2, <1>3, <1>4, SamePipe DEF Flows, Got

\* The peer closes; what it sent before stays in the network.
LEMMA PeerClosesInv ==
  ASSUME Flows, PeerCloses
  PROVE  Flows'
<1>1. /\ network'.bytes = network.bytes /\ network'.open = FALSE /\ DOMAIN network' = NetFields
      /\ UNCHANGED <<out, sock, ahead, reader, sentMsgs, gotMsgs>>
  BY DEF PeerCloses, Flows, WireTypes, NetTypes, NetFields
<1>2. WireTypes'
  BY <1>1 DEF Flows, WireTypes, OutTypes, NetTypes, SockTypes, ReaderTypes, MsgTypes
<1>3. BufferToken'
  BY <1>1 DEF Flows, BufferToken
<1>4. Slice' = Slice
  BY <1>1 DEF Slice
<1> QED
  BY <1>1, <1>2, <1>3, <1>4, SamePipe DEF Flows, Got

\* The chunker gives up, and the network is closed.
LEMMA WriteFailsInv ==
  ASSUME Flows, WriteFails
  PROVE  Flows'
<1>1. ~network.open /\ out' = NothingToSend /\ UNCHANGED <<network, sock, ahead, reader, sentMsgs, gotMsgs>>
  BY DEF WriteFails
<1>2. OutTypes'
  BY <1>1, EmptySeq DEF OutTypes, OutFields, NothingToSend
<1>3. WireTypes'
  BY <1>1, <1>2 DEF Flows, WireTypes, NetTypes, SockTypes, ReaderTypes, MsgTypes
<1>4. BufferToken'
  BY <1>1 DEF Flows, BufferToken
<1>5. Slice' = Slice
  BY <1>1 DEF Slice
<1> QED
  BY <1>1, <1>3, <1>4, <1>5, SamePipe DEF Flows, Got

\* The reader gets an error, or sees that the socket is closed: it reads no more.
LEMMA ReadFailsInv ==
  ASSUME Flows, ReadFails \/ ReadClosed
  PROVE  Stopped'
<1>1. reader' = [Idle EXCEPT !.part = "failed"] /\ UNCHANGED <<out, sentMsgs, gotMsgs>>
  BY DEF ReadFails, ReadClosed
<1>2. reader'.part = "failed" /\ reader'.left = 2 /\ reader'.held = << >>
  BY <1>1 DEF Idle
<1> QED
  BY <1>1, <1>2 DEF Flows, Stopped, WireTypes, OutTypes, MsgTypes, Got

\* The goroutine reads: what it puts into the buffer is what the network had first.
LEMMA ReadSocketInv ==
  ASSUME Flows, NEW n \in 1 .. BufferSize, ReadSocket(n)
  PROVE  Flows'
<1> DEFINE w == network.bytes
           l == Len(w)
           rest == SubSeq(w, n + 1, Len(w))
           buffer == [i \in 1 .. BufferSize |-> IF i <= n THEN w[i] ELSE sock.buffer[i]]
<1>0. n \in Nat /\ n <= BufferSize /\ BufferSize \in Nat
  BY BufferIsNotEmpty
<1>1. /\ ahead.at = "read" /\ n <= Len(w)
      /\ sock'.pending = sock.pending /\ sock'.buffer = buffer /\ sock'.wantRead = sock.wantRead
      /\ DOMAIN sock' = SockFields
      /\ network'.bytes = rest /\ network'.open = network.open /\ DOMAIN network' = NetFields
      /\ ahead' = [at |-> "push", slice |-> [lo |-> 0, hi |-> n, err |-> FALSE]]
      /\ UNCHANGED <<out, reader, sentMsgs, gotMsgs>>
  BY DEF ReadSocket, Flows, WireTypes, SockTypes, SockFields, NetTypes, NetFields
<1>2. /\ ahead'.at = "push" /\ DOMAIN ahead' = {"at", "slice"}
      /\ ahead'.slice.lo = 0 /\ ahead'.slice.hi = n /\ ahead'.slice \in Slices
  <2>1. \A e \in BOOLEAN : [lo |-> 0, hi |-> n, err |-> e] \in Slices
    BY <1>0 DEF Slices
  <2> QED
    BY <1>1, <2>1
<1>3. l \in Nat /\ \A i \in 1 .. l : w[i] \in Byte
  BY LenProperties, ElementOfSeq DEF Flows, WireTypes, NetTypes
<1>12. n <= l
  BY <1>1
<1> HIDE DEF l
<1>4. rest \in Seq(Byte) /\ Len(rest) = l - n /\ \A i \in 1 .. l - n : rest[i] = w[n + i]
  <2>1. \A i \in n + 1 .. l : w[i] \in Byte
    BY <1>0, <1>3
  <2>2. n + 1 \in Int /\ l \in Int
    BY <1>0, <1>3
  <2> HIDE DEF w
  <2>3. /\ SubSeq(w, n + 1, Len(w)) \in Seq(Byte)
        /\ Len(SubSeq(w, n + 1, Len(w))) = IF n + 1 <= l THEN l - (n + 1) + 1 ELSE 0
        /\ \A i \in 1 .. l - (n + 1) + 1 : SubSeq(w, n + 1, Len(w))[i] = w[(n + 1) + i - 1]
    BY <2>1, <2>2, SubSeqProperties DEF l
  <2> DEFINE m == Len(rest)
  <2>4. m = IF n + 1 <= l THEN l - (n + 1) + 1 ELSE 0
    BY <2>3 DEF l
  <2> HIDE DEF m
  <2>6. m = l - n /\ \A i \in 1 .. l - n : i \in 1 .. l - (n + 1) + 1 /\ (n + 1) + i - 1 = n + i
    BY <1>0, <1>3, <1>12, <2>4
  <2>7. \A i \in 1 .. l - n : rest[i] = w[n + i]
    BY <2>3, <2>6
  <2> QED
    BY <2>3, <2>6, <2>7 DEF m
<1>11. Len(rest) = l - n /\ \A i \in 1 .. l - n : rest[i] = w[n + i]
  BY <1>4
<1> HIDE DEF rest
<1>5. buffer \in [1 .. BufferSize -> Byte]
  <2>1. sock.buffer \in [1 .. BufferSize -> Byte]
    BY DEF Flows, WireTypes, SockTypes
  <2> QED
    BY <1>0, <1>3, <1>12, <2>1
<1>6. \A i \in 1 .. n : buffer[i] = w[i]
  BY <1>0
<1> HIDE DEF buffer
<1>7. WireTypes'
  BY <1>1, <1>2, <1>4, <1>5 DEF Flows, WireTypes, OutTypes, NetTypes, SockTypes, ReaderTypes, MsgTypes
<1>8. sock.pending = << >> /\ reader.held = << >>
  BY <1>1 DEF Flows, BufferToken
<1>9. BufferToken'
  BY <1>1, <1>2, <1>8 DEF Flows, BufferToken
<1>10. ASSUME Piped
       PROVE  Piped'
  <2>0. PICK T \in [Nat -> Byte], P \in [Nat -> Nat], I \in [Nat -> Nat], O \in [Nat -> Nat],
             B \in [Nat -> Nat], a \in Nat, z \in Nat : Pipe(T, P, I, O, a, z, B)
    BY <1>10 DEF Piped
  <2> DEFINE p == ReadTo(P, a)
  <2>1. Slice.lo = 0 /\ Slice.hi = 0 /\ Slice'.lo = 0 /\ Slice'.hi = n
    BY <1>1, <1>2, <1>8 DEF Slice, NoSlice
  <2>2. Held = 0 /\ Held' = n
    BY <1>0, <2>1 DEF Held
  <2>3. p' = p /\ p \in Nat
    BY <1>1, ReadToNat DEF ReadTo, From, Flows
  <2> HIDE DEF p
  <2>4. Travels(T, P, z, p)
    BY <2>0 DEF Pipe, p
  <2>14. p + 0 = p /\ p + 0 + l = p + l
    BY <1>3, <2>3
  <2>5. \A i \in 1 .. l : w[i] = T[p + i]
    BY <2>2, <2>4, <2>14 DEF Travels, Carries, Window, l
  <2>6. \A i \in 1 .. l - n : rest[i] = T[p + n + i]
    <3> TAKE i \in 1 .. l - n
    <3>1. n + i \in 1 .. l /\ p + (n + i) = p + n + i
      BY <1>0, <1>3, <2>3
    <3> QED
      BY <1>11, <2>5, <3>1
  <2>7. Len(rest) = l - n /\ p + n + (l - n) = p + 0 + l
    BY <1>0, <1>3, <1>11, <2>3
  <2>8. \A i \in 1 .. n : buffer[0 + i] = T[p + i]
    <3> TAKE i \in 1 .. n
    <3>1. i \in 1 .. l /\ 0 + i = i
      BY <1>0, <1>12, <1>3
    <3> QED
      BY <1>6, <2>5, <3>1
  <2>9. Travels(T, P, z, p)'
    BY <1>1, <2>1, <2>2, <2>3, <2>4, <2>6, <2>7, <2>8 DEF Travels, Carries, Window, l
  <2>10. Receives(T, P, I, O, a, z)'
    BY <1>1, <2>0 DEF Pipe, Receives, From
  <2>11. p + Held + Len(network.bytes) = (p + Held + Len(network.bytes))'
    BY <1>1, <2>2, <2>3, <2>7 DEF l
  <2>12. ASSUME network'.open
         PROVE  (Sends(T, P, I, O, z, p + Held + Len(network.bytes)) /\ Buffered(B))'
    <3>1. Sends(T, P, I, O, z, p + Held + Len(network.bytes)) /\ Buffered(B)
      BY <1>1, <2>0, <2>12 DEF Pipe, p
    <3> QED
      BY <1>1, <2>11, <3>1 DEF Sends, Unsent, Upcoming, Buffered
  <2>13. Pipe(T, P, I, O, a, z, B)'
    BY <1>1, <2>0, <2>9, <2>10, <2>12 DEF Pipe, p
  <2> QED
    BY <2>13 DEF Piped
<1> QED
  BY <1>1, <1>7, <1>9, <1>10 DEF Flows, Got

\* A stream that goes on does not change what is read or under way.
LEMMA Grows ==
  ASSUME WireTypes,
         NEW T \in [Nat -> Byte], NEW P \in [Nat -> Nat], NEW I \in [Nat -> Nat], NEW O \in [Nat -> Nat],
         NEW U \in [Nat -> Byte], NEW Q \in [Nat -> Nat], NEW J \in [Nat -> Nat], NEW R \in [Nat -> Nat],
         NEW a \in Nat, NEW z \in Nat, NEW n \in Nat, NEW f, NEW sent, NEW m, NEW o,
         Chunks(T, P, I, O, a, z, sent), Added(T, P, I, O, U, Q, J, R, a, z, n, f, sent, m, o),
         Receives(T, P, I, O, a, z), Travels(T, P, z, ReadTo(P, a))
  PROVE  /\ ReadTo(Q, a) = ReadTo(P, a) /\ Receives(U, Q, J, R, a, z + 1)
         /\ Travels(U, Q, z + 1, ReadTo(P, a))
<1> DEFINE p == ReadTo(P, a)
           k == Len(reader.bytes)
           l == Len(network.bytes)
           v == From(P, a)
<1>1. a <= z /\ a \in 0 .. z
  BY DEF Chunks
<1>2. Q[a] = P[a] /\ J[a] = I[a] /\ R[a] = O[a] /\ (\A q \in 0 .. P[z] : U[q] = T[q]) /\ Q[z + 1] = P[z] + n + 2
  BY <1>1 DEF Added
<1>3. a < z => Size(Q, a) = Size(P, a)
  <2> SUFFICES ASSUME a < z PROVE Size(Q, a) = Size(P, a)
    OBVIOUS
  <2>1. a + 1 \in 0 .. z
    BY <1>1
  <2>2. Q[a + 1] = P[a + 1]
    BY <2>1 DEF Added
  <2> QED
    BY <1>2, <2>2 DEF Size
<1>4. From(Q, a) = From(P, a) /\ ReadTo(Q, a) = p
  BY <1>2 DEF From, ReadTo
<1>5. k \in Nat /\ l \in Nat /\ Held \in Nat /\ p \in Nat /\ v \in Nat /\ p = v + k
  BY WireNumbers, ReadToNat DEF ReadTo
<1>6. p + Held + l <= P[z]
  BY DEF Travels, Carries
<1> HIDE DEF p, k, l, v
<1>7. \A i \in 1 .. k : U[v + i] = T[v + i]
  <2> TAKE i \in 1 .. k
  <2>1. v + i \in 0 .. P[z]
    BY <1>5, <1>6
  <2> QED
    BY <1>2, <2>1
<1>8. \A i \in 1 .. Held : U[p + i] = T[p + i]
  <2> TAKE i \in 1 .. Held
  <2>1. p + i \in 0 .. P[z]
    BY <1>5, <1>6
  <2> QED
    BY <1>2, <2>1
<1>9. \A i \in 1 .. l : U[p + Held + i] = T[p + Held + i]
  <2> TAKE i \in 1 .. l
  <2>1. p + Held + i \in 0 .. P[z]
    BY <1>5, <1>6
  <2> QED
    BY <1>2, <2>1
<1>10. p + Held + l <= Q[z + 1]
  BY <1>2, <1>5, <1>6
<1>11. a < z => a < z + 1
  BY <1>1
<1>12. Window(U, From(Q, a), reader.bytes)
  BY <1>4, <1>7 DEF Receives, Window, k, v
<1>13. Receives(U, Q, J, R, a, z + 1)
  BY <1>2, <1>3, <1>11, <1>12 DEF Receives
<1>14. Travels(U, Q, z + 1, p)
  BY <1>8, <1>9, <1>10 DEF Travels, Carries, Window, l, p
<1> QED
  BY <1>4, <1>13, <1>14 DEF p

\* Bytes of the stream are written to the network.
LEMMA Written ==
  ASSUME WireTypes, NEW T \in [Nat -> Byte], NEW p \in Nat, NEW g, g \in Seq(Byte),
         network'.bytes = network.bytes \o g, UNCHANGED <<reader, sock, ahead>>,
         Carries(T, p), Window(T, p + Held + Len(network.bytes), g)
  PROVE  /\ Held' = Held /\ Carries(T, p)' /\ network'.bytes \in Seq(Byte)
         /\ Len(network'.bytes) = Len(network.bytes) + Len(g)
<1> DEFINE w == network.bytes
           x == network'.bytes
           l == Len(w)
           k == Len(g)
           t == Len(x)
<1>1. Held' = Held /\ Slice' = Slice /\ sock'.buffer = sock.buffer
  BY DEF Held, Slice
<1>2. l \in Nat /\ k \in Nat /\ Held \in Nat
  BY WireNumbers, LenProperties
<1>3. x \in Seq(Byte) /\ t = l + k /\ \A i \in 1 .. l + k : x[i] = IF i <= l THEN w[i] ELSE g[i - l]
  <2>1. w \in Seq(Byte) /\ g \in Seq(Byte) /\ x = w \o g
    BY DEF WireTypes, NetTypes
  <2> HIDE DEF w, x
  <2> QED
    BY <2>1, ConcatProperties
<1>4. t = l + k /\ \A i \in 1 .. l + k : x[i] = IF i <= l THEN w[i] ELSE g[i - l]
  BY <1>3
<1>5. \A i \in 1 .. l : w[i] = T[p + Held + i]
  BY DEF Carries, Window
<1>6. \A i \in 1 .. k : g[i] = T[p + Held + l + i]
  BY DEF Window
<1> HIDE DEF l, k, t, w, x
<1>7. \A i \in 1 .. t : x[i] = T[p + Held + i]
  <2> SUFFICES ASSUME NEW i \in 1 .. l + k PROVE x[i] = T[p + Held + i]
    BY <1>4
  <2>1. CASE i <= l
    <3>1. i \in 1 .. l
      BY <1>2, <2>1
    <3> QED
      BY <1>4, <1>5, <2>1, <3>1
  <2>2. CASE ~(i <= l)
    <3>1. i - l \in 1 .. k /\ p + Held + l + (i - l) = p + Held + i
      BY <1>2, <2>2
    <3> QED
      BY <1>4, <1>6, <2>2, <3>1
  <2> QED
    BY <2>1, <2>2
<1>9. Carries(T, p)'
  BY <1>1, <1>7 DEF Carries, Window, t, x
<1> QED
  BY <1>1, <1>3, <1>9 DEF t, x, l, k, w

\* Where the network ends.
LEMMA StreamEnd ==
  ASSUME WireTypes, NEW P \in [Nat -> Nat], NEW a \in Nat
  PROVE  ReadTo(P, a) + Held + Len(network.bytes) \in Nat
<1> DEFINE p == ReadTo(P, a)
           h == Held
           l == Len(network.bytes)
<1>1. p \in Nat /\ h \in Nat /\ l \in Nat
  BY WireNumbers, ReadToNat
<1> HIDE DEF p, h, l
<1>2. p + h + l \in Nat
  BY <1>1
<1> QED
  BY <1>2 DEF p, h, l

\* The bytes g, k of them, are written, where the network ended at position e.
Writes(T, Q, a, y, g, k, e) ==
  /\ T \in [Nat -> Byte] /\ Q \in [Nat -> Nat] /\ a \in Nat /\ y \in Nat /\ e \in Nat
  /\ g \in Seq(Byte) /\ k \in Nat /\ k = Len(g) /\ e = ReadTo(Q, a) + Held + Len(network.bytes)
  /\ network'.bytes = network.bytes \o g /\ UNCHANGED <<reader, sock, ahead>>
  /\ Carries(T, ReadTo(Q, a)) /\ Window(T, e, g) /\ e + k <= Q[y]

\* The same, as the end of the network moves on.
LEMMA WrittenEnd ==
  ASSUME WireTypes, NEW T, NEW Q, NEW a, NEW y, NEW g, NEW k, NEW e, Writes(T, Q, a, y, g, k, e)
  PROVE  /\ ReadTo(Q, a)' = ReadTo(Q, a) /\ Travels(T, Q, y, ReadTo(Q, a))'
         /\ (ReadTo(Q, a) + Held + Len(network.bytes))' = e + k
         /\ network'.bytes \in Seq(Byte)
<1>0. /\ T \in [Nat -> Byte] /\ Q \in [Nat -> Nat] /\ a \in Nat /\ y \in Nat
      /\ g \in Seq(Byte) /\ e = ReadTo(Q, a) + Held + Len(network.bytes) /\ k = Len(g)
      /\ network'.bytes = network.bytes \o g /\ UNCHANGED <<reader, sock, ahead>>
      /\ Carries(T, ReadTo(Q, a)) /\ Window(T, e, g)
  BY DEF Writes
<1>11. k \in Nat /\ e \in Nat
  BY DEF Writes
<1>12. e + k <= Q[y]
  BY DEF Writes
<1>1. PICK p \in Nat : p = ReadTo(Q, a)
  BY <1>0, ReadToNat
<1>2. PICK h \in Nat : h = Held
  BY WireNumbers
<1>3. PICK l \in Nat : l = Len(network.bytes)
  BY WireNumbers
<1>4. ReadTo(Q, a)' = p
  BY <1>0, <1>1 DEF ReadTo, From
<1>5. Carries(T, p) /\ Window(T, p + Held + Len(network.bytes), g)
  BY <1>0, <1>1
<1>6. /\ Held' = h /\ Carries(T, p)' /\ Len(network'.bytes) = l + k
      /\ network'.bytes \in Seq(Byte)
  BY <1>0, <1>2, <1>3, <1>5, Written
<1>7. e = p + h + l
  BY <1>0, <1>1, <1>2, <1>3
<1>8. p + h + (l + k) = e + k
  <2>1. p + h + (l + k) = (p + h + l) + k
    BY <1>11
  <2> QED
    BY <1>7, <2>1
<1>9. (ReadTo(Q, a) + Held + Len(network.bytes))' = e + k
  BY <1>4, <1>6, <1>8
<1>10. Travels(T, Q, y, ReadTo(Q, a))'
  BY <1>4, <1>6, <1>9, <1>12 DEF Travels
<1> QED
  BY <1>1, <1>4, <1>6, <1>9, <1>10

\* The size zero.
LEMMA ZeroDigits == \A f : f[1] = 0 /\ f[2] = 0 => Digits(f, 0, 0)
<1> DEFINE d == Base
<1>1. d \in Nat /\ d > 1
  BY SizesHaveTwoBytes
<1> HIDE DEF d
<1>2. 0 \div d = 0 /\ 0 % d = 0
  BY <1>1
<1>3. 0 + 1 = 1 /\ 0 + 2 = 2
  OBVIOUS
<1> QED
  BY <1>2, <1>3 DEF Digits, d

\* The peer sends a nop between two messages.
LEMMA NopInv ==
  ASSUME Flows, Nop
  PROVE  Flows'
<1>0. PICK f : f = <<0, 0>>
  OBVIOUS
<1>1. /\ network'.bytes = network.bytes \o f /\ network'.open = network.open
      /\ DOMAIN network' = NetFields /\ ~out.sending /\ network.open
      /\ UNCHANGED <<out, sock, ahead, reader, sentMsgs, gotMsgs>>
  BY <1>0 DEF Nop, Flows, WireTypes, NetTypes, NetFields
<1>2. f \in Seq(Byte) /\ Len(f) = 2 /\ f[1] = 0 /\ f[2] = 0
  <2>1. 0 \in Byte
    BY SizesHaveTwoBytes DEF Byte
  <2> QED
    BY <1>0, <2>1
<1>3. Len(f) = 2 /\ f[1] = 0 /\ f[2] = 0
  BY <1>2
<1>4. 0 \in Byte
  BY SizesHaveTwoBytes DEF Byte
<1>5. network'.bytes \in Seq(Byte)
  <2>1. network.bytes \in Seq(Byte)
    BY DEF Flows, WireTypes, NetTypes
  <2> QED
    BY <1>1, <1>2, <2>1, ConcatProperties
<1>6. WireTypes'
  BY <1>1, <1>5 DEF Flows, WireTypes, OutTypes, NetTypes, SockTypes, ReaderTypes, MsgTypes
<1>7. BufferToken'
  BY <1>1 DEF Flows, BufferToken
<1>8. ASSUME Piped
      PROVE  Piped'
  <2>0. PICK T \in [Nat -> Byte], P \in [Nat -> Nat], I \in [Nat -> Nat], O \in [Nat -> Nat],
             B \in [Nat -> Nat], a \in Nat, z \in Nat : Pipe(T, P, I, O, a, z, B)
    BY <1>8 DEF Piped
  <2>3. PICK e \in Nat : e = ReadTo(P, a) + Held + Len(network.bytes)
    BY StreamEnd DEF Flows
  <2>1. /\ Chunks(T, P, I, O, a, z, sentMsgs) /\ Receives(T, P, I, O, a, z)
        /\ Travels(T, P, z, ReadTo(P, a)) /\ Sends(T, P, I, O, z, e) /\ Buffered(B)
    BY <1>1, <2>0, <2>3 DEF Pipe
  <2>2. O[z] = 0 /\ out.start = 0 /\ out.end = 0 /\ e + (0 - 0) = P[z]
    BY <1>1, <2>1 DEF Sends, Unsent, Upcoming
  <2>4. e = P[z]
    BY <2>2, <2>3
  <2>5. Follows(I, O, z, 0, f, sentMsgs, I[z], 0)
    BY <1>3, <2>2, ZeroDigits DEF Follows
  <2>6. PICK U \in [Nat -> Byte], Q \in [Nat -> Nat], J \in [Nat -> Nat], R \in [Nat -> Nat] :
          Added(T, P, I, O, U, Q, J, R, a, z, 0, f, sentMsgs, I[z], 0)
    <3>1. \A i \in 1 .. 0 + 2 : f[i] \in Byte
      BY <1>3, <1>4
    <3>2. 0 \in 0 .. MaxChunk /\ I[z] \in Nat
      BY ChunkIsLarge
    <3> QED
      BY <2>1, <2>5, <3>1, <3>2, AddChunk
  <2>7. /\ ReadTo(Q, a) = ReadTo(P, a) /\ Receives(U, Q, J, R, a, z + 1)
        /\ Travels(U, Q, z + 1, ReadTo(P, a))
    BY <2>1, <2>6, Grows DEF Flows
  <2>8. \A i \in 1 .. 2 : f[i] = U[e + i]
    <3>1. \A i \in 1 .. 0 + 2 : U[P[z] + i] = f[i]
      BY <2>6 DEF Added
    <3> TAKE i \in 1 .. 2
    <3>2. i \in 1 .. 0 + 2
      OBVIOUS
    <3> QED
      BY <2>4, <3>1, <3>2
  <2>9. e + 2 <= Q[z + 1] /\ e + 2 = Q[z + 1] /\ J[z + 1] = I[z] /\ R[z + 1] = 0 /\ z + 1 \in Nat
    BY <2>3, <2>4, <2>6 DEF Added
  <2>10. /\ ReadTo(Q, a)' = ReadTo(Q, a) /\ Travels(U, Q, z + 1, ReadTo(Q, a))'
         /\ (ReadTo(Q, a) + Held + Len(network.bytes))' = e + 2
    <3>1. Window(U, e, f)
      BY <1>3, <2>8 DEF Window
    <3>2. e + 2 <= Q[z + 1] /\ e = ReadTo(Q, a) + Held + Len(network.bytes) /\ 2 = Len(f)
      BY <1>3, <2>3, <2>7, <2>9
    <3>3. Carries(U, ReadTo(Q, a)) /\ z + 1 \in Nat
      BY <2>7, <2>9 DEF Travels
    <3>4. WireTypes /\ f \in Seq(Byte) /\ network'.bytes = network.bytes \o f /\ UNCHANGED <<reader, sock, ahead>>
      BY <1>1, <1>2 DEF Flows
    <3>5. Writes(U, Q, a, z + 1, f, 2, e)
      BY <3>1, <3>2, <3>3, <3>4 DEF Writes
    <3> QED
      BY <3>4, <3>5, WrittenEnd
  <2>11. PICK c \in Nat : c = e + 2
    BY <2>3
  <2>12. Sends(U, Q, J, R, z + 1, c)'
    <3>1. c + (0 - 0) = Q[z + 1] /\ 0 <= 0 /\ \A i \in 1 .. 0 - 0 : out.buf[0 + i] = U[c + i]
      BY <2>3, <2>9, <2>11
    <3>2. 0 <= Len(out.buf)
      BY <2>1, <2>2 DEF Sends, Unsent
    <3>3. Unsent(U, Q, z + 1, c)'
      BY <1>1, <2>2, <3>1, <3>2 DEF Unsent
    <3>4. J[z + 1] = I[z] /\ R[z + 1] = O[z]
      BY <2>2, <2>9
    <3>5. Upcoming(J, R, z + 1)'
      BY <1>1, <2>1, <3>4 DEF Sends, Upcoming
    <3> QED
      BY <3>3, <3>5 DEF Sends
  <2>13. Buffered(B)'
    BY <1>1, <2>1 DEF Buffered
  <2>14. Receives(U, Q, J, R, a, z + 1)'
    BY <1>1, <2>7 DEF Receives, From
  <2>15. Chunks(U, Q, J, R, a, z + 1, sentMsgs)'
    BY <1>1, <2>6 DEF Added
  <2>16. Pipe(U, Q, J, R, a, z + 1, B)'
    BY <2>10, <2>11, <2>12, <2>13, <2>14, <2>15 DEF Pipe
  <2> QED
    BY <2>9, <2>16 DEF Piped
<1> QED
  BY <1>1, <1>6, <1>7, <1>8 DEF Flows, Got

\* A part of a sequence of bytes.
Part(s, b, c) == s \in Seq(Byte) /\ b \in Nat /\ c \in Nat /\ b <= c /\ c <= Len(s)
IsPart(g, s, b, c) == g \in Seq(Byte) /\ Len(g) = c - b /\ \A i \in 1 .. c - b : g[i] = s[b + i]

\* The bytes of buf[b:c].
LEMMA PartOf ==
  ASSUME NEW s, NEW b, NEW c, Part(s, b, c)
  PROVE  IsPart(SubSeq(s, b + 1, c), s, b, c)
<1>0. s \in Seq(Byte)
  BY DEF Part
<1>10. b \in Nat /\ c \in Nat /\ b <= c /\ c <= Len(s)
  BY DEF Part
<1>1. PICK l \in Nat : l = Len(s)
  BY <1>0, LenProperties
<1>2. \A i \in 1 .. l : s[i] \in Byte
  BY <1>0, <1>1, ElementOfSeq
<1>3. \A i \in b + 1 .. c : i \in 1 .. l
  BY <1>1, <1>10
<1>11. b \in Nat /\ c \in Nat
  BY <1>10
<1>12. b + 1 \in Int /\ c \in Int
  BY <1>11
<1>4. b + 1 \in Int /\ c \in Int /\ \A i \in b + 1 .. c : s[i] \in Byte
  BY <1>2, <1>3, <1>12
<1>5. PICK m : m = Len(SubSeq(s, b + 1, c))
  OBVIOUS
<1>6. /\ SubSeq(s, b + 1, c) \in Seq(Byte)
      /\ m = IF b + 1 <= c THEN c - (b + 1) + 1 ELSE 0
      /\ \A i \in 1 .. c - (b + 1) + 1 : SubSeq(s, b + 1, c)[i] = s[(b + 1) + i - 1]
  BY <1>4, <1>5, SubSeqProperties
<1>7. m = IF b + 1 <= c THEN c - (b + 1) + 1 ELSE 0
  BY <1>6
<1>8. m = c - b /\ \A i \in 1 .. c - b : i \in 1 .. c - (b + 1) + 1 /\ (b + 1) + i - 1 = b + i
  BY <1>7, <1>10
<1>9. \A i \in 1 .. c - b : SubSeq(s, b + 1, c)[i] = s[b + i]
  BY <1>6, <1>8
<1> QED
  BY <1>5, <1>6, <1>8, <1>9 DEF IsPart

\* The last write of send, and reset.
LEMMA EndSendInv ==
  ASSUME Flows, EndSend
  PROVE  Flows'
<1>0. PICK g : g = SubSeq(out.buf, out.start + 1, out.end)
  OBVIOUS
<1>1. /\ network'.bytes = network.bytes \o g /\ network'.open = network.open
      /\ DOMAIN network' = NetFields /\ network.open /\ out.sizes = << >>
      /\ out' = [NothingToSend EXCEPT !.todo = out.todo]
      /\ UNCHANGED <<sock, ahead, reader, sentMsgs, gotMsgs>>
  BY <1>0 DEF EndSend, Flows, WireTypes, NetTypes, NetFields
<1>2. /\ DOMAIN out' = OutFields /\ out'.todo = out.todo /\ out'.buf = << >> /\ out'.sizes = << >>
      /\ out'.start = 0 /\ out'.end = 0 /\ ~out'.sending /\ out'.sending \in BOOLEAN
  BY <1>1 DEF NothingToSend, OutFields
<1>3. OutTypes'
  BY <1>2, EmptySeq DEF Flows, WireTypes, OutTypes
<1>5. BufferToken'
  BY <1>1 DEF Flows, BufferToken
<1>7. Piped' /\ network'.bytes \in Seq(Byte)
  <2>0. PICK T \in [Nat -> Byte], P \in [Nat -> Nat], I \in [Nat -> Nat], O \in [Nat -> Nat],
             B \in [Nat -> Nat], a \in Nat, z \in Nat : Pipe(T, P, I, O, a, z, B)
    BY DEF Flows, Piped
  <2>1. PICK e \in Nat : e = ReadTo(P, a) + Held + Len(network.bytes)
    BY StreamEnd DEF Flows
  <2>2. PICK s \in Nat : s = out.start
    BY DEF Flows, WireTypes, OutTypes
  <2>3. PICK d \in Nat : d = out.end
    BY DEF Flows, WireTypes, OutTypes
  <2>4. /\ Chunks(T, P, I, O, a, z, sentMsgs) /\ Receives(T, P, I, O, a, z)
        /\ Travels(T, P, z, ReadTo(P, a)) /\ Unsent(T, P, z, e) /\ Upcoming(I, O, z)
    BY <1>1, <2>0, <2>1 DEF Pipe, Sends
  <2>5. s <= d /\ d <= Len(out.buf) /\ e + (d - s) = P[z] /\ \A i \in 1 .. d - s : out.buf[s + i] = T[e + i]
    BY <2>2, <2>3, <2>4 DEF Unsent
  <2>6. g \in Seq(Byte) /\ Len(g) = d - s /\ \A i \in 1 .. d - s : g[i] = out.buf[s + i]
    <3>1. g = SubSeq(out.buf, s + 1, d) /\ out.buf \in Seq(Byte)
      BY <1>0, <2>2, <2>3 DEF Flows, WireTypes, OutTypes
    <3>2. s <= d /\ d <= Len(out.buf)
      BY <2>5
    <3>3. Part(out.buf, s, d)
      BY <3>1, <3>2 DEF Part
    <3>4. IsPart(g, out.buf, s, d)
      BY <3>1, <3>3, PartOf
    <3> QED
      BY <3>4 DEF IsPart
  <2>7. PICK k \in Nat : k = d - s
    BY <2>5
  <2>8. Window(T, e, g)
    BY <2>5, <2>6 DEF Window
  <2>9. Writes(T, P, a, z, g, k, e)
    <3>1. e + k <= P[z]
      BY <2>5, <2>7
    <3>2. Carries(T, ReadTo(P, a)) /\ UNCHANGED <<reader, sock, ahead>>
      BY <1>1, <2>4 DEF Travels
    <3> QED
      BY <1>1, <2>1, <2>6, <2>7, <2>8, <3>1, <3>2 DEF Writes
  <2>10. /\ ReadTo(P, a)' = ReadTo(P, a) /\ Travels(T, P, z, ReadTo(P, a))'
         /\ (ReadTo(P, a) + Held + Len(network.bytes))' = e + k /\ network'.bytes \in Seq(Byte)
    BY <2>9, WrittenEnd DEF Flows
  <2>11. PICK c \in Nat : c = e + k
    OBVIOUS
  <2>12. Unsent(T, P, z, c)'
    <3>1. c + (0 - 0) = P[z] /\ 0 <= 0 /\ 1 .. 0 - 0 = {}
      BY <2>5, <2>7, <2>11
    <3>2. Len(out'.buf) = 0
      BY <1>2, EmptySeq
    <3> QED
      BY <1>2, <3>1, <3>2 DEF Unsent
  <2>13. Upcoming(I, O, z)'
    BY <1>1, <1>2, <2>4 DEF Upcoming
  <2>14. PICK C \in [Nat -> Nat] : C = [i \in Nat |-> 0]
    OBVIOUS
  <2>15. Buffered(C)'
    <3>1. Len(out'.sizes) = 0 /\ Len(out'.buf) = 0 /\ out'.end = 0
      BY <1>2, EmptySeq
    <3>2. C[1] = 0 /\ C[0 + 1] = 0 /\ \A i \in 1 .. 0 + 1 : C[i] = 0
      BY <2>14
    <3> QED
      BY <3>1, <3>2 DEF Buffered
  <2>16. Receives(T, P, I, O, a, z)'
    BY <1>1, <2>4 DEF Receives, From
  <2>17. Chunks(T, P, I, O, a, z, sentMsgs)'
    BY <1>1, <2>4
  <2>18. Pipe(T, P, I, O, a, z, C)'
    BY <2>10, <2>11, <2>12, <2>13, <2>15, <2>16, <2>17 DEF Pipe, Sends
  <2> QED
    BY <2>10, <2>18 DEF Piped
<1>4. WireTypes'
  BY <1>1, <1>3, <1>7 DEF Flows, WireTypes, NetTypes, SockTypes, ReaderTypes, MsgTypes
<1> QED
  BY <1>1, <1>4, <1>5, <1>7 DEF Flows, Got

\* The bytes of buf between s and d are those of the stream up to chunk z, from e on.
Pending(T, P, z, e, buf, s, d) ==
  s <= d /\ e + (d - s) = P[z] /\ \A i \in 1 .. d - s : buf[s + i] = T[e + i]

Stream(T, P, I, O, a, z, e, buf, s, d) ==
  /\ T \in [Nat -> Byte] /\ P \in [Nat -> Nat] /\ I \in [Nat -> Nat] /\ O \in [Nat -> Nat]
  /\ a \in Nat /\ z \in Nat /\ e \in Nat /\ s \in Nat /\ d \in Nat
  /\ Chunks(T, P, I, O, a, z, sentMsgs) /\ Receives(T, P, I, O, a, z)
  /\ Travels(T, P, z, ReadTo(P, a)) /\ e = ReadTo(P, a) + Held + Len(network.bytes)
  /\ Pending(T, P, z, e, buf, s, d)

\* The next n + 2 bytes of buf make a chunk that can follow.
Extends(I, O, z, n, f, m, o, buf, d) ==
  /\ n \in 0 .. MaxChunk /\ m \in Nat /\ o \in Nat /\ Follows(I, O, z, n, f, sentMsgs, m, o)
  /\ \A i \in 1 .. n + 2 : f[i] = buf[d + i] /\ f[i] \in Byte

\* When a chunk is added to the stream the chunker has that much more to send.
LEMMA PendingGrows ==
  ASSUME NEW T, NEW P \in [Nat -> Nat], NEW I, NEW O, NEW U, NEW Q \in [Nat -> Nat], NEW J, NEW R, NEW a,
         NEW z \in Nat, NEW n \in Nat, NEW f, NEW sent, NEW m, NEW o,
         Added(T, P, I, O, U, Q, J, R, a, z, n, f, sent, m, o),
         NEW e \in Nat, NEW s \in Nat, NEW d \in Nat, NEW buf, Pending(T, P, z, e, buf, s, d),
         \A i \in 1 .. n + 2 : f[i] = buf[d + i]
  PROVE  Pending(U, Q, z + 1, e, buf, s, d + n + 2)
<1>0. PICK p \in Nat : p = P[z]
  OBVIOUS
<1>1. s <= d /\ e + (d - s) = p /\ \A i \in 1 .. d - s : buf[s + i] = T[e + i]
  BY <1>0 DEF Pending
<1>2. /\ \A q \in 0 .. p : U[q] = T[q]
      /\ \A i \in 1 .. n + 2 : U[p + i] = f[i]
      /\ Q[z + 1] = p + n + 2
  BY <1>0 DEF Added
<1>3. s <= d + n + 2 /\ e + (d + n + 2 - s) = Q[z + 1]
  BY <1>1, <1>2
<1>4. \A i \in 1 .. d + n + 2 - s : buf[s + i] = U[e + i]
  <2> TAKE i \in 1 .. d + n + 2 - s
  <2>1. CASE i <= d - s
    <3>1. i \in 1 .. d - s /\ e + i \in 0 .. p
      BY <1>1, <2>1
    <3> QED
      BY <1>1, <1>2, <3>1
  <2>2. CASE ~(i <= d - s)
    <3>1. PICK j \in Int : j = i - (d - s)
      OBVIOUS
    <3>2. j \in 1 .. n + 2 /\ d + j = s + i /\ p + j = e + i
      BY <1>1, <2>2, <3>1
    <3>3. U[p + j] = f[j] /\ f[j] = buf[d + j]
      BY <1>2, <3>2
    <3> QED
      BY <3>2, <3>3
  <2> QED
    BY <2>1, <2>2
<1> QED
  BY <1>3, <1>4 DEF Pending

\* The stream goes on with the chunk that the next bytes of the buffer make, and nothing
\* that is on its way already changes.
LEMMA Extend ==
  ASSUME WireTypes, NEW T, NEW P, NEW I, NEW O, NEW a, NEW z, NEW e, NEW buf, NEW s, NEW d,
         Stream(T, P, I, O, a, z, e, buf, s, d),
         NEW n, NEW f, NEW m, NEW o, Extends(I, O, z, n, f, m, o, buf, d)
  PROVE  \E U, Q, J, R : /\ Stream(U, Q, J, R, a, z + 1, e, buf, s, d + n + 2)
                         /\ Q[z + 1] = P[z] + n + 2 /\ J[z + 1] = m /\ R[z + 1] = o
<1>1. /\ T \in [Nat -> Byte] /\ P \in [Nat -> Nat] /\ I \in [Nat -> Nat] /\ O \in [Nat -> Nat]
      /\ a \in Nat /\ z \in Nat /\ e \in Nat /\ s \in Nat /\ d \in Nat
  BY DEF Stream
<1>2. /\ Chunks(T, P, I, O, a, z, sentMsgs) /\ Receives(T, P, I, O, a, z)
      /\ Travels(T, P, z, ReadTo(P, a)) /\ Pending(T, P, z, e, buf, s, d)
  BY DEF Stream
<1>3. e = ReadTo(P, a) + Held + Len(network.bytes)
  BY DEF Stream
<1>4. n \in 0 .. MaxChunk /\ m \in Nat /\ o \in Nat /\ Follows(I, O, z, n, f, sentMsgs, m, o)
  BY DEF Extends
<1>5. (\A i \in 1 .. n + 2 : f[i] \in Byte) /\ \A i \in 1 .. n + 2 : f[i] = buf[d + i]
  BY DEF Extends
<1>6. PICK U \in [Nat -> Byte], Q \in [Nat -> Nat], J \in [Nat -> Nat], R \in [Nat -> Nat] :
        Added(T, P, I, O, U, Q, J, R, a, z, n, f, sentMsgs, m, o)
  BY <1>1, <1>2, <1>4, <1>5, AddChunk
<1>7. n \in Nat
  BY <1>4, ChunkIsLarge
<1>8. /\ ReadTo(Q, a) = ReadTo(P, a) /\ Receives(U, Q, J, R, a, z + 1)
      /\ Travels(U, Q, z + 1, ReadTo(P, a))
  BY <1>1, <1>2, <1>6, <1>7, Grows
<1>9. Pending(U, Q, z + 1, e, buf, s, d + n + 2)
  BY <1>1, <1>2, <1>5, <1>6, <1>7, PendingGrows
<1>10. /\ Chunks(U, Q, J, R, a, z + 1, sentMsgs)
       /\ Q[z + 1] = P[z] + n + 2 /\ J[z + 1] = m /\ R[z + 1] = o
  BY <1>6 DEF Added
<1>11. z + 1 \in Nat /\ d + n + 2 \in Nat
  BY <1>1, <1>7
<1>12. Stream(U, Q, J, R, a, z + 1, e, buf, s, d + n + 2)
  BY <1>1, <1>3, <1>8, <1>9, <1>10, <1>11 DEF Stream
<1> QED
  BY <1>10, <1>12

\* A size of a chunk has two digits.
LEMMA DigitsAreBytes ==
  ASSUME NEW n \in 0 .. MaxChunk
  PROVE  n \div Base \in Byte /\ n % Base \in Byte
<1>1. PICK d \in Nat : d = Base /\ d > 1
  BY SizesHaveTwoBytes
<1>2. n \in Nat /\ n <= d * d - 1
  BY <1>1, ChunkIsLarge DEF MaxChunk
<1>3. PICK q \in Int : q = n \div d
  BY <1>1, <1>2
<1>4. PICK r \in Int : r = n % d
  BY <1>1, <1>2
<1>5. n = q * d + r /\ r \in 0 .. d - 1 /\ q >= 0
  BY <1>1, <1>2, <1>3, <1>4
<1>6. q <= d - 1
  <2> SUFFICES ASSUME q >= d PROVE FALSE
    BY <1>1, <1>3
  <2>1. q * d >= d * d
    <3>1. (q - d) * d >= 0
      BY <1>1, <1>3
    <3>2. (q - d) * d = q * d - d * d
      BY <1>1, <1>3
    <3>3. q * d \in Int /\ d * d \in Int
      BY <1>1, <1>3
    <3> QED
      BY <3>1, <3>2, <3>3
  <2>2. q * d \in Int /\ d * d \in Int
    BY <1>1, <1>3
  <2> QED
    BY <1>2, <1>5, <2>1, <2>2
<1>7. q \in 0 .. d - 1
  BY <1>1, <1>3, <1>5, <1>6
<1> QED
  BY <1>1, <1>3, <1>4, <1>5, <1>7 DEF Byte

\* In buf, of length l, there is room for the size n at d.
Room(buf, l, d, n) ==
  buf \in Seq(Byte) /\ l \in Nat /\ l = Len(buf) /\ d \in Nat /\ d + 2 <= l /\ n \in 0 .. MaxChunk

\* Two buffers differ in the size at d only.
SameBut(b, buf, l, d) == \A i \in 1 .. l : i # d + 1 /\ i # d + 2 => b[i] = buf[i]

\* PutSize writes two bytes, and leaves the others.
LEMMA PutSizeBytes ==
  ASSUME NEW buf, NEW l, NEW d, NEW n, Room(buf, l, d, n)
  PROVE  /\ PutSize(buf, d, n) \in Seq(Byte) /\ Len(PutSize(buf, d, n)) = l
         /\ Digits(PutSize(buf, d, n), d, n)
         /\ SameBut(PutSize(buf, d, n), buf, l, d)
         /\ \A i \in 1 .. l : PutSize(buf, d, n)[i] \in Byte
<1>0. buf \in Seq(Byte) /\ l = Len(buf) /\ n \in 0 .. MaxChunk
  BY DEF Room
<1>13. l \in Nat /\ d \in Nat /\ d + 2 <= l
  BY DEF Room
<1>1. PICK u \in Byte : u = n \div Base
  BY <1>0, DigitsAreBytes
<1>2. PICK v \in Byte : v = n % Base
  BY <1>0, DigitsAreBytes
<1>3. PICK x \in 1 .. l : x = d + 1
  BY <1>13
<1>4. PICK y \in 1 .. l : y = d + 2 /\ y # x
  BY <1>3, <1>13
<1>5. PICK g : g = [buf EXCEPT ![x] = u]
  OBVIOUS
<1>6. g \in Seq(Byte) /\ Len(g) = l /\ \A i \in 1 .. l : g[i] = IF i = x THEN u ELSE buf[i]
  BY <1>0, <1>5, ExceptSeq
<1>7. PICK h : h = [g EXCEPT ![y] = v]
  OBVIOUS
<1>8. h \in Seq(Byte) /\ Len(h) = l /\ \A i \in 1 .. l : h[i] = IF i = y THEN v ELSE g[i]
  BY <1>6, <1>7, ExceptSeq
<1>9. h = PutSize(buf, d, n)
  BY <1>1, <1>2, <1>3, <1>4, <1>5, <1>7 DEF PutSize
<1>10. \A i \in 1 .. l : i # x /\ i # y => h[i] = buf[i]
  BY <1>6, <1>8
<1>11. h[x] = u /\ h[y] = v
  BY <1>4, <1>6, <1>8
<1>12. \A i \in 1 .. l : h[i] \in Byte
  BY <1>8, ElementOfSeq
<1> QED
  BY <1>1, <1>2, <1>3, <1>4, <1>8, <1>9, <1>10, <1>11, <1>12 DEF Digits, SameBut

\* One turn of the loop of send. The chunk has c bytes: the message, or as many as a chunk can have.
LEMMA SendTurnInv ==
  ASSUME Flows, SendTurn
  PROVE  Flows'
<1>1. /\ out.sending /\ out.sizes # << >> /\ network.open
      /\ UNCHANGED <<sock, ahead, reader, sentMsgs, gotMsgs>>
  BY DEF SendTurn
<1>2. PICK n \in Nat : n = Len(out.sizes)
  BY WireNumbers DEF Flows
<1>3. PICK N \in Nat : N = Len(sentMsgs)
  BY WireNumbers DEF Flows
<1>4. PICK l \in Nat : l = Len(out.buf)
  BY WireNumbers DEF Flows
<1>5. PICK s \in Nat : s = out.start
  BY WireNumbers DEF Flows
<1>6. PICK d \in Nat : d = out.end
  BY WireNumbers DEF Flows
<1>7. n >= 1
  <2>1. out.sizes \in Seq(Count)
    BY DEF Flows, WireTypes, OutTypes
  <2> QED
    BY <1>1, <1>2, <2>1, EmptySeq
<1>8. PICK size \in Nat : size = out.sizes[1] /\ size = Head(out.sizes)
  <2>1. 1 \in 1 .. n
    BY <1>7
  <2> QED
    BY <1>2, <2>1, WireNumbers DEF Flows
<1>9. PICK T \in [Nat -> Byte], P \in [Nat -> Nat], I \in [Nat -> Nat], O \in [Nat -> Nat],
           B \in [Nat -> Nat], a \in Nat, z \in Nat : Pipe(T, P, I, O, a, z, B)
  BY DEF Flows, Piped
<1>10. PICK e \in Nat : e = ReadTo(P, a) + Held + Len(network.bytes)
  BY StreamEnd DEF Flows
<1>11. /\ Chunks(T, P, I, O, a, z, sentMsgs) /\ Receives(T, P, I, O, a, z)
       /\ Travels(T, P, z, ReadTo(P, a)) /\ Unsent(T, P, z, e) /\ Upcoming(I, O, z) /\ Buffered(B)
  BY <1>1, <1>9, <1>10 DEF Pipe, Sends
<1>12. s <= d /\ d <= l /\ e + (d - s) = P[z] /\ \A i \in 1 .. d - s : out.buf[s + i] = T[e + i]
  BY <1>4, <1>5, <1>6, <1>11 DEF Unsent
<1>13. n <= N /\ I[z] = N - n + 1
  BY <1>2, <1>3, <1>11 DEF Upcoming
<1>14. PICK m \in Nat : m = I[z] /\ m = N - n + 1 /\ m \in 1 .. N
  BY <1>7, <1>13
<1>15. PICK w \in Nat : w = Len(sentMsgs[m]) /\ w > 0
  BY <1>3, <1>14, WireNumbers DEF Flows
<1>16. O[z] + size = w
  BY <1>1, <1>8, <1>11, <1>14, <1>15 DEF Upcoming
<1>17. /\ B[1] = d /\ B[n + 1] = l /\ \A i, j \in 1 .. n + 1 : i <= j => B[i] <= B[j]
       /\ \A i \in 1 .. n : Queued(B, i, out.sizes[i], out.buf, sentMsgs[N - n + i])
  BY <1>2, <1>3, <1>4, <1>6, <1>11 DEF Buffered
<1>18. /\ size \in 1 .. w /\ B[2] = d + 4 + size /\ B[2] <= l
       /\ \A j \in 1 .. size : out.buf[d + 2 + j] = sentMsgs[m][w - size + j]
       /\ out.buf[d + 2 + size + 1] = 0 /\ out.buf[d + 2 + size + 2] = 0
  <2>1. Queued(B, 1, size, out.buf, sentMsgs[m])
    <3>1. 1 \in 1 .. n /\ N - n + 1 = m
      BY <1>7, <1>14
    <3> QED
      BY <1>8, <1>17, <3>1
  <2>2. 1 + 1 = 2 /\ 2 \in 1 .. n + 1 /\ n + 1 \in 1 .. n + 1 /\ 2 <= n + 1
    BY <1>7
  <2>3. B[2] <= l
    BY <1>17, <2>2
  <2>4. B[1] = d
    BY <1>17
  <2> QED
    BY <1>15, <2>1, <2>2, <2>3, <2>4 DEF Queued
<1>19. size \in 1 .. w /\ B[2] = d + 4 + size /\ B[2] <= l
  BY <1>18
<1>20. PICK c \in 0 .. MaxChunk : c = (IF size <= MaxChunk THEN size ELSE MaxChunk) /\ c \in Nat /\ c > 0 /\ c <= size
  BY <1>19, ChunkIsLarge
<1>28. c \in Nat /\ c > 0 /\ c <= size
  BY <1>20
<1>29. PICK o \in Nat : o = O[z] /\ o + size = w
  BY <1>16
<1>21. PICK b : b = PutSize(out.buf, d, c)
  OBVIOUS
<1>22. /\ b \in Seq(Byte) /\ Len(b) = l /\ Digits(b, d, c)
       /\ \A i \in 1 .. l : i # d + 1 /\ i # d + 2 => b[i] = out.buf[i]
       /\ \A i \in 1 .. l : b[i] \in Byte
  <2>1. out.buf \in Seq(Byte) /\ l = Len(out.buf)
    BY <1>4 DEF Flows, WireTypes, OutTypes
  <2>2. d + 2 <= l
    BY <1>19
  <2>3. Room(out.buf, l, d, c)
    BY <2>1, <2>2 DEF Room
  <2>4. /\ PutSize(out.buf, d, c) \in Seq(Byte) /\ Len(PutSize(out.buf, d, c)) = l
        /\ Digits(PutSize(out.buf, d, c), d, c)
    BY <2>3, PutSizeBytes
  <2>5. SameBut(PutSize(out.buf, d, c), out.buf, l, d)
    BY <2>3, PutSizeBytes
  <2>6. \A i \in 1 .. l : PutSize(out.buf, d, c)[i] \in Byte
    BY <2>3, PutSizeBytes
  <2> QED
    BY <1>21, <2>4, <2>5, <2>6 DEF SameBut
<1>23. /\ Digits(b, d, c)
       /\ \A i \in 1 .. l : i # d + 1 /\ i # d + 2 => b[i] = out.buf[i]
       /\ \A i \in 1 .. l : b[i] \in Byte
  BY <1>22
<1>24. Stream(T, P, I, O, a, z, e, b, s, d)
  <2>1. \A i \in 1 .. d - s : b[s + i] = T[e + i]
    <3> TAKE i \in 1 .. d - s
    <3>1. s + i \in 1 .. l /\ s + i # d + 1 /\ s + i # d + 2
      BY <1>12
    <3> QED
      BY <1>12, <1>23, <3>1
  <2>2. Pending(T, P, z, e, b, s, d)
    BY <1>12, <2>1 DEF Pending
  <2> QED
    BY <1>10, <1>11, <2>2 DEF Stream
<1>25. PICK f : f = [i \in 1 .. c + 2 |-> b[d + i]]
  OBVIOUS
<1>26. Extends(I, O, z, c, f, m, O[z] + c, b, d)
  <2>1. \A i \in 1 .. c + 2 : f[i] = b[d + i]
    BY <1>25
  <2>2. \A i \in 1 .. c + 2 : d + i \in 1 .. l
    BY <1>19, <1>20
  <2>3. \A i \in 1 .. c + 2 : f[i] \in Byte
    BY <1>23, <2>1, <2>2
  <2>4. Digits(f, 0, c)
    <3>1. 0 + 1 \in 1 .. c + 2 /\ 0 + 2 \in 1 .. c + 2 /\ d + (0 + 1) = d + 1 /\ d + (0 + 2) = d + 2
      BY <1>20
    <3>2. f[0 + 1] = b[d + 1] /\ f[0 + 2] = b[d + 2]
      BY <2>1, <3>1
    <3> QED
      BY <1>23, <3>2 DEF Digits
  <2>5. \A j \in 1 .. c : f[2 + j] = sentMsgs[m][O[z] + j]
    <3> TAKE j \in 1 .. c
    <3>1. /\ 2 + j \in 1 .. c + 2 /\ d + (2 + j) = d + 2 + j /\ d + 2 + j \in 1 .. l /\ j \in 1 .. size
          /\ d + 2 + j # d + 1 /\ d + 2 + j # d + 2 /\ w - size + j = O[z] + j
      <4>1. /\ 2 + j \in 1 .. c + 2 /\ d + (2 + j) = d + 2 + j /\ d + 2 + j \in 1 .. l /\ j \in 1 .. size
            /\ d + 2 + j # d + 1 /\ d + 2 + j # d + 2
        BY <1>19, <1>28
      <4>2. w - size + j = o + j
        BY <1>29
      <4> QED
        BY <1>29, <4>1, <4>2
    <3>2. f[2 + j] = b[d + 2 + j]
      BY <2>1, <3>1
    <3>3. b[d + 2 + j] = out.buf[d + 2 + j]
      BY <1>23, <3>1
    <3>4. out.buf[d + 2 + j] = sentMsgs[m][w - size + j]
      BY <1>18, <3>1
    <3> QED
      BY <3>1, <3>2, <3>3, <3>4
  <2>6. O[z] + c <= w /\ O[z] + c \in Nat
    BY <1>28, <1>29
  <2>7. Follows(I, O, z, c, f, sentMsgs, m, O[z] + c)
    <3>1. I[z] \in 1 .. Len(sentMsgs) /\ O[z] + c <= Len(sentMsgs[I[z]]) /\ m = I[z]
      BY <1>3, <1>14, <1>15, <2>6
    <3>2. \A j \in 1 .. c : f[2 + j] = sentMsgs[I[z]][O[z] + j]
      BY <1>14, <2>5
    <3>3. c # 0
      BY <1>28
    <3> QED
      BY <2>4, <3>1, <3>2, <3>3 DEF Follows
  <2> QED
    BY <1>20, <2>1, <2>3, <2>6, <2>7 DEF Extends
<1>27. PICK U, Q, J, R : /\ Stream(U, Q, J, R, a, z + 1, e, b, s, d + c + 2)
                         /\ Q[z + 1] = P[z] + c + 2 /\ J[z + 1] = m /\ R[z + 1] = O[z] + c
  BY <1>24, <1>26, Extend DEF Flows
<1>30. /\ Tail(out.sizes) \in Seq(Count) /\ Len(Tail(out.sizes)) = n - 1
       /\ \A i \in 1 .. n - 1 : Tail(out.sizes)[i] = out.sizes[i + 1]
  <2>1. out.sizes \in Seq(Count)
    BY DEF Flows, WireTypes, OutTypes
  <2> QED
    BY <1>1, <1>2, <2>1, HeadTailProperties
\* In the messages that follow, nothing is overwritten.
<1>31. \A i \in 2 .. n : Queued(B, i, out.sizes[i], b, sentMsgs[N - n + i])
  <2> TAKE i \in 2 .. n
  <2>1. i \in 1 .. n /\ i + 1 \in 1 .. n + 1 /\ i \in 1 .. n + 1 /\ 2 \in 1 .. n + 1 /\ n + 1 \in 1 .. n + 1
    BY <1>7
  <2>2. Queued(B, i, out.sizes[i], out.buf, sentMsgs[N - n + i])
    BY <1>17, <2>1
  <2>3. PICK x \in Nat : x = B[i]
    OBVIOUS
  <2>4. d + 4 + size <= x
    <3>1. B[2] <= B[i]
      BY <1>17, <2>1
    <3> QED
      BY <1>19, <2>3, <3>1
  <2>5. PICK k \in Nat : k = out.sizes[i]
    BY <1>2, <2>1, WireNumbers DEF Flows
  <2>6. B[i + 1] = x + 4 + k
    BY <2>2, <2>3, <2>5 DEF Queued
  <2>7. x + 4 + k <= l
    <3>1. B[i + 1] <= B[n + 1]
      BY <1>17, <2>1
    <3> QED
      BY <1>17, <2>6, <3>1
  <2>8. \A j \in 1 .. k + 2 : b[x + 2 + j] = out.buf[x + 2 + j]
    <3> TAKE j \in 1 .. k + 2
    <3>1. x + 2 + j \in 1 .. l /\ x + 2 + j # d + 1 /\ x + 2 + j # d + 2
      BY <2>4, <2>7
    <3> QED
      BY <1>23, <3>1
  <2>9. /\ \A j \in 1 .. k : b[x + 2 + j] = out.buf[x + 2 + j]
        /\ b[x + 2 + k + 1] = out.buf[x + 2 + k + 1] /\ b[x + 2 + k + 2] = out.buf[x + 2 + k + 2]
    <3>1. k + 1 \in 1 .. k + 2 /\ k + 2 \in 1 .. k + 2 /\ x + 2 + (k + 1) = x + 2 + k + 1 /\ x + 2 + (k + 2) = x + 2 + k + 2
      OBVIOUS
    <3>2. \A j \in 1 .. k : j \in 1 .. k + 2
      OBVIOUS
    <3> QED
      BY <2>8, <3>1, <3>2
  <2> QED
    BY <2>2, <2>3, <2>5, <2>9 DEF Queued
<1>32. BufferToken'
  BY <1>1 DEF Flows, BufferToken
<1>33. CASE size <= MaxChunk
  <2>1. /\ out'.buf = b /\ out'.end = d + 2 + size + 2 /\ out'.sizes = Tail(out.sizes)
        /\ out'.start = s /\ out'.todo = out.todo /\ out'.sending = out.sending
        /\ DOMAIN out' = OutFields /\ network' = network
    BY <1>5, <1>6, <1>8, <1>20, <1>21, <1>33 DEF SendTurn, Flows, WireTypes, OutTypes, OutFields
  <2>2. c = size /\ d + 2 + size + 2 \in Nat /\ d + 2 + size + 2 = d + c + 2 + 0 + 2
    BY <1>20, <1>33
  <2>3. WireTypes'
    BY <1>1, <1>22, <1>30, <2>1, <2>2 DEF Flows, WireTypes, OutTypes, NetTypes, SockTypes, ReaderTypes, MsgTypes
  <2>4. PICK f0 : f0 = <<0, 0>>
    OBVIOUS
  <2>5. f0[1] = 0 /\ f0[2] = 0
    BY <2>4
  <2>6. J[z + 1] = m /\ R[z + 1] = w
    BY <1>27, <1>29, <2>2
  <2>7. Extends(J, R, z + 1, 0, f0, m + 1, 0, b, d + c + 2)
    <3>1. Follows(J, R, z + 1, 0, f0, sentMsgs, m + 1, 0)
      <4>1. Digits(f0, 0, 0)
        BY <2>5, ZeroDigits
      <4>2. J[z + 1] \in 1 .. Len(sentMsgs) /\ m + 1 = J[z + 1] + 1
        BY <1>3, <1>14, <2>6
      <4>3. R[z + 1] > 0 /\ R[z + 1] = Len(sentMsgs[J[z + 1]])
        BY <1>15, <2>6
      <4>4. ~(0 > 0)
        OBVIOUS
      <4> QED
        BY <4>1, <4>2, <4>3, <4>4 DEF Follows
    <3>2. b[d + c + 2 + 1] = 0 /\ b[d + c + 2 + 2] = 0
      <4>1. /\ d + c + 2 + 1 \in 1 .. l /\ d + c + 2 + 1 # d + 1 /\ d + c + 2 + 1 # d + 2
            /\ d + c + 2 + 2 \in 1 .. l /\ d + c + 2 + 2 # d + 1 /\ d + c + 2 + 2 # d + 2
            /\ d + c + 2 + 1 = d + 2 + size + 1 /\ d + c + 2 + 2 = d + 2 + size + 2
        BY <1>19, <1>28, <2>2
      <4>2. b[d + c + 2 + 1] = out.buf[d + 2 + size + 1] /\ b[d + c + 2 + 2] = out.buf[d + 2 + size + 2]
        BY <1>23, <4>1
      <4> QED
        BY <1>18, <4>2
    <3>3. 0 \in Byte
      BY SizesHaveTwoBytes DEF Byte
    <3>4. \A i \in 1 .. 0 + 2 : i = 1 \/ i = 2
      OBVIOUS
    <3>5. \A i \in 1 .. 0 + 2 : f0[i] = b[d + c + 2 + i] /\ f0[i] \in Byte
      BY <2>5, <3>2, <3>3, <3>4
    <3>6. 0 \in 0 .. MaxChunk /\ m + 1 \in Nat /\ 0 \in Nat
      BY ChunkIsLarge
    <3> QED
      BY <3>1, <3>5, <3>6 DEF Extends
  <2>8. PICK V, S, K, L : /\ Stream(V, S, K, L, a, z + 1 + 1, e, b, s, d + c + 2 + 0 + 2)
                          /\ K[z + 1 + 1] = m + 1 /\ L[z + 1 + 1] = 0
    BY <1>27, <2>7, Extend DEF Flows
  <2>9. PICK y \in Nat : y = z + 1 + 1
    OBVIOUS
  <2>10. Stream(V, S, K, L, a, y, e, b, s, d + 2 + size + 2) /\ K[y] = m + 1 /\ L[y] = 0
    BY <2>2, <2>8, <2>9
  <2>11. Unsent(V, S, y, e)'
    <3>1. Pending(V, S, y, e, b, s, d + 2 + size + 2)
      BY <2>10 DEF Stream
    <3>2. d + 2 + size + 2 <= l
      BY <1>19
    <3>3. d + 2 + size + 2 <= Len(b)
      BY <1>22, <3>2
    <3> QED
      BY <2>1, <3>1, <3>3 DEF Unsent, Pending
  <2>12. Upcoming(K, L, y)'
    <3>1. Len(out'.sizes) = n - 1 /\ Len(sentMsgs') = N /\ out'.sending
      BY <1>1, <1>3, <1>30, <2>1
    <3>2. n - 1 <= N /\ K[y] = N - (n - 1) + 1
      BY <1>13, <1>14, <2>10
    <3>3. ASSUME out'.sizes # << >>
          PROVE  0 + out'.sizes[1] = Len(sentMsgs[m + 1])
      <4>1. n - 1 # 0
        BY <1>30, <2>1, <3>3, EmptySeq
      <4>2. 2 \in 2 .. n /\ 1 \in 1 .. n - 1 /\ N - n + 2 = m + 1 /\ 1 + 1 = 2 /\ 2 > 1
        BY <1>7, <1>14, <4>1
      <4>3. out'.sizes[1] = out.sizes[2]
        BY <1>30, <2>1, <4>2
      <4>4. Queued(B, 2, out.sizes[2], b, sentMsgs[m + 1])
        BY <1>31, <4>2
      <4>5. out.sizes[2] = Len(sentMsgs[m + 1])
        BY <4>2, <4>4 DEF Queued
      <4>6. out.sizes[2] \in Nat
        <5>1. 2 \in 1 .. n
          BY <4>2
        <5> QED
          BY <1>2, <5>1, WireNumbers DEF Flows
      <4>7. 0 + out.sizes[2] = out.sizes[2]
        BY <4>6
      <4> QED
        BY <4>3, <4>5, <4>7
    <3> QED
      BY <1>1, <2>10, <3>1, <3>2, <3>3 DEF Upcoming
  <2>13. PICK C \in [Nat -> Nat] : C = [i \in Nat |-> B[i + 1]]
    <3>1. \A i \in Nat : B[i + 1] \in Nat
      OBVIOUS
    <3>2. [i \in Nat |-> B[i + 1]] \in [Nat -> Nat]
      BY <3>1
    <3> QED
      BY <3>2
  <2>14. Buffered(C)'
    <3>1. Len(out'.sizes) = n - 1 /\ Len(sentMsgs') = N /\ Len(out'.buf) = l
      BY <1>1, <1>3, <1>22, <1>30, <2>1
    <3>2. \A i \in 1 .. n : C[i] = B[i + 1] /\ i + 1 \in 1 .. n + 1
      BY <2>13
    <3>3. C[1] = d + 2 + size + 2 /\ C[(n - 1) + 1] = l
      <4>1. 1 \in 1 .. n /\ 1 + 1 = 2 /\ (n - 1) + 1 = n /\ n \in 1 .. n /\ d + 4 + size = d + 2 + size + 2
        BY <1>7
      <4>2. C[1] = B[2] /\ C[n] = B[n + 1]
        BY <3>2, <4>1
      <4> QED
        BY <1>17, <1>19, <4>1, <4>2
    <3>4. \A i, j \in 1 .. (n - 1) + 1 : i <= j => C[i] <= C[j]
      <4> SUFFICES ASSUME NEW i \in 1 .. n, NEW j \in 1 .. n, i <= j PROVE C[i] <= C[j]
        BY <1>7
      <4>1. i + 1 <= j + 1
        OBVIOUS
      <4> QED
        BY <1>17, <3>2, <4>1
    <3>5. \A i \in 1 .. n - 1 : Queued(C, i, out'.sizes[i], b, sentMsgs[N - (n - 1) + i])
      <4> TAKE i \in 1 .. n - 1
      <4>1. i + 1 \in 2 .. n /\ i \in 1 .. n /\ i + 1 \in 1 .. n /\ N - n + (i + 1) = N - (n - 1) + i /\ i + 1 > 1
        OBVIOUS
      <4>2. Queued(B, i + 1, out'.sizes[i], b, sentMsgs[N - (n - 1) + i])
        BY <1>30, <1>31, <2>1, <4>1
      <4>3. C[i] = B[i + 1] /\ C[i + 1] = B[i + 1 + 1]
        BY <3>2, <4>1
      <4> QED
        BY <4>1, <4>2, <4>3 DEF Queued
    <3> QED
      BY <1>1, <2>1, <3>1, <3>3, <3>4, <3>5 DEF Buffered
  <2>15. /\ Chunks(V, S, K, L, a, y, sentMsgs) /\ Receives(V, S, K, L, a, y)
         /\ Travels(V, S, y, ReadTo(S, a)) /\ e = ReadTo(S, a) + Held + Len(network.bytes)
         /\ V \in [Nat -> Byte] /\ S \in [Nat -> Nat] /\ K \in [Nat -> Nat] /\ L \in [Nat -> Nat]
    BY <2>10 DEF Stream
  <2>16. (ReadTo(S, a) = ReadTo(S, a)') /\ (Held = Held') /\ e = (ReadTo(S, a) + Held + Len(network.bytes))'
    BY <1>1, <2>1, <2>15 DEF ReadTo, From, Held, Slice
  <2>17. Travels(V, S, y, ReadTo(S, a))'
    BY <1>1, <2>1, <2>15, <2>16 DEF Travels, Carries, Held, Slice
  <2>18. Receives(V, S, K, L, a, y)' /\ Chunks(V, S, K, L, a, y, sentMsgs)'
    BY <1>1, <2>15 DEF Receives, From
  <2>19. Pipe(V, S, K, L, a, y, C)'
    BY <2>11, <2>12, <2>14, <2>16, <2>17, <2>18 DEF Pipe, Sends
  <2>20. Piped'
    BY <2>15, <2>19 DEF Piped
  <2> QED
    BY <1>1, <1>32, <2>3, <2>20 DEF Flows, Got
<1>34. CASE ~(size <= MaxChunk)
  <2>0. PICK M \in Nat : M = MaxChunk /\ M >= 3
    BY ChunkIsLarge
  <2>1. c = M /\ size > M /\ d + 2 + M - 2 = d + M /\ d + M \in Nat /\ size - M \in Nat /\ size - M >= 1
    BY <1>20, <1>34, <2>0
  <2>2. PICK g : g = SubSeq(b, s + 1, d + 2 + M)
    OBVIOUS
  <2>3. /\ out'.buf = b /\ out'.end = d + M /\ out'.start = d + M
        /\ out'.sizes = <<size - M>> \o Tail(out.sizes)
        /\ out'.todo = out.todo /\ out'.sending = out.sending /\ DOMAIN out' = OutFields
        /\ network'.bytes = network.bytes \o g /\ network'.open = network.open /\ DOMAIN network' = NetFields
    <3>1. /\ out' = [out EXCEPT !.buf = b, !.end = d + M, !.start = d + M,
                                !.sizes = <<size - M>> \o Tail(out.sizes)]
          /\ network' = [network EXCEPT !.bytes = network.bytes \o g]
      BY <1>5, <1>6, <1>8, <1>20, <1>21, <1>34, <2>0, <2>1, <2>2 DEF SendTurn, ChunkStart
    <3> QED
      BY <3>1 DEF Flows, WireTypes, OutTypes, OutFields, NetTypes, NetFields
  <2>4. /\ out'.sizes \in Seq(Count) /\ Len(out'.sizes) = n /\ out'.sizes[1] = size - M
        /\ out'.sizes # << >> /\ \A i \in 2 .. n : out'.sizes[i] = out.sizes[i]
    <3>1. PICK r : r = size - M
      OBVIOUS
    <3>2. <<r>> \in Seq(Count) /\ Len(<<r>>) = 1 /\ <<r>>[1] = r
      BY <2>1, <3>1 DEF Count
    <3>3. PICK x : x = <<r>>
      OBVIOUS
    <3>4. PICK t : t = Tail(out.sizes)
      OBVIOUS
    <3>5. out'.sizes = x \o t /\ x \in Seq(Count) /\ t \in Seq(Count) /\ Len(x) = 1 /\ x[1] = r
      BY <1>30, <2>3, <3>1, <3>2, <3>3, <3>4
    <3>6. /\ out'.sizes \in Seq(Count) /\ Len(out'.sizes) = 1 + Len(t)
          /\ \A i \in 1 .. 1 + Len(t) : out'.sizes[i] = IF i <= 1 THEN x[i] ELSE t[i - 1]
      <4>1. /\ x \o t \in Seq(Count) /\ Len(x \o t) = Len(x) + Len(t)
            /\ \A i \in 1 .. Len(x) + Len(t) : (x \o t)[i] = IF i <= Len(x) THEN x[i] ELSE t[i - Len(x)]
        BY <3>5, ConcatProperties
      <4> QED
        BY <3>5, <4>1
    <3>7. Len(t) = n - 1 /\ 1 + (n - 1) = n
      BY <1>7, <1>30, <3>4
    <3>8. Len(out'.sizes) = n /\ \A i \in 1 .. n : out'.sizes[i] = IF i <= 1 THEN x[i] ELSE t[i - 1]
      BY <3>6, <3>7
    <3>9. out'.sizes[1] = size - M
      <4>1. 1 \in 1 .. n /\ 1 <= 1
        BY <1>7
      <4> QED
        BY <3>1, <3>5, <3>8, <4>1
    <3>10. \A i \in 2 .. n : out'.sizes[i] = out.sizes[i]
      <4> TAKE i \in 2 .. n
      <4>1. i \in 1 .. n /\ ~(i <= 1) /\ i - 1 \in 1 .. n - 1 /\ (i - 1) + 1 = i
        OBVIOUS
      <4>2. t[i - 1] = out.sizes[(i - 1) + 1]
        BY <1>30, <3>4, <4>1
      <4> QED
        BY <3>8, <4>1, <4>2
    <3>11. out'.sizes # << >>
      <4>1. << >> \in Seq(Count) /\ Len(<< >>) = 0
        BY EmptySeq
      <4>2. n # 0
        BY <1>7
      <4> QED
        BY <3>8, <4>1, <4>2
    <3> QED
      BY <3>6, <3>8, <3>9, <3>10, <3>11
  <2>5. PICK y \in Nat : y = z + 1
    OBVIOUS
  <2>6. PICK h \in Nat : h = d + M + 2
    BY <2>1
  <2>7. /\ Stream(U, Q, J, R, a, y, e, b, s, h) /\ J[y] = m /\ R[y] = O[z] + M
    BY <1>27, <2>1, <2>5, <2>6
  <2>8. /\ Chunks(U, Q, J, R, a, y, sentMsgs) /\ Receives(U, Q, J, R, a, y)
        /\ Travels(U, Q, y, ReadTo(Q, a)) /\ e = ReadTo(Q, a) + Held + Len(network.bytes)
        /\ U \in [Nat -> Byte] /\ Q \in [Nat -> Nat] /\ J \in [Nat -> Nat] /\ R \in [Nat -> Nat]
        /\ s <= h /\ e + (h - s) = Q[y] /\ \A i \in 1 .. h - s : b[s + i] = U[e + i]
    BY <2>7 DEF Stream, Pending
  <2>9. PICK k \in Nat : k = h - s
    BY <2>8
  <2>10. h <= l /\ d + M <= l /\ h = d + 2 + M
    BY <1>19, <2>1, <2>6
  <2>11. g \in Seq(Byte) /\ Len(g) = h - s /\ \A i \in 1 .. h - s : g[i] = b[s + i]
    <3>1. g = SubSeq(b, s + 1, h) /\ b \in Seq(Byte) /\ s <= h /\ h <= Len(b)
      BY <1>22, <2>2, <2>8, <2>10
    <3>2. Part(b, s, h)
      BY <3>1 DEF Part
    <3>3. IsPart(g, b, s, h)
      BY <3>1, <3>2, PartOf
    <3> QED
      BY <3>3 DEF IsPart
  <2>12. Window(U, e, g)
    BY <2>8, <2>11 DEF Window
  <2>13. Writes(U, Q, a, y, g, k, e)
    <3>1. e + k <= Q[y]
      BY <2>8, <2>9
    <3>2. Carries(U, ReadTo(Q, a)) /\ UNCHANGED <<reader, sock, ahead>>
      BY <1>1, <2>8 DEF Travels
    <3>3. e = ReadTo(Q, a) + Held + Len(network.bytes)
      BY <2>8
    <3> QED
      BY <2>3, <2>8, <2>9, <2>11, <2>12, <3>1, <3>2, <3>3 DEF Writes
  <2>14. /\ ReadTo(Q, a)' = ReadTo(Q, a) /\ Travels(U, Q, y, ReadTo(Q, a))'
         /\ (ReadTo(Q, a) + Held + Len(network.bytes))' = e + k /\ network'.bytes \in Seq(Byte)
    BY <2>13, WrittenEnd DEF Flows
  <2>15. WireTypes'
    BY <1>1, <1>22, <2>1, <2>3, <2>4, <2>14 DEF Flows, WireTypes, OutTypes, NetTypes, SockTypes, ReaderTypes, MsgTypes
  <2>16. PICK v \in Nat : v = e + k
    OBVIOUS
  <2>17. Unsent(U, Q, y, v)'
    <3>1. PICK x \in Nat : x = d + M
      BY <2>1
    <3>2. v + (x - x) = Q[y] /\ x <= x /\ \A i \in 1 .. x - x : b[x + i] = U[v + i]
      BY <2>8, <2>9, <2>16
    <3>3. x <= Len(b)
      BY <1>22, <2>10, <3>1
    <3> QED
      BY <2>3, <3>1, <3>2, <3>3 DEF Unsent
  <2>18. Upcoming(J, R, y)'
    <3>1. Len(out'.sizes) = n /\ Len(sentMsgs') = N /\ out'.sending /\ out'.sizes[1] = size - M
      BY <1>1, <1>3, <2>3, <2>4
    <3>2. n <= N /\ J[y] = N - n + 1 /\ J[y] = m
      BY <1>13, <1>14, <2>7
    <3>3. R[y] + (size - M) = w
      BY <1>29, <2>1, <2>7
    <3> QED
      BY <1>1, <1>15, <2>4, <3>1, <3>2, <3>3 DEF Upcoming
  <2>19. PICK C \in [Nat -> Nat] : C = [B EXCEPT ![1] = d + M]
    BY <2>1
  <2>20. C[1] = d + M /\ \A i \in 2 .. n + 1 : C[i] = B[i]
    BY <2>19
  <2>21. Queued(C, 1, size - M, b, sentMsgs[m])
    <3>1. size - M \in 1 .. w
      BY <1>19, <2>1
    <3>2. C[1 + 1] = d + M + 4 + (size - M)
      <4>1. 2 \in 2 .. n + 1 /\ 1 + 1 = 2 /\ d + M + 4 + (size - M) = d + 4 + size
        BY <1>7, <2>1
      <4> QED
        BY <1>19, <2>20, <4>1
    <3>3. \A j \in 1 .. size - M : b[d + M + 2 + j] = sentMsgs[m][w - (size - M) + j]
      <4> TAKE j \in 1 .. size - M
      <4>1. /\ d + M + 2 + j \in 1 .. l /\ d + M + 2 + j # d + 1 /\ d + M + 2 + j # d + 2
            /\ M + j \in 1 .. size /\ d + 2 + (M + j) = d + M + 2 + j /\ w - size + (M + j) = w - (size - M) + j
        BY <1>19, <2>0, <2>1
      <4>2. b[d + M + 2 + j] = out.buf[d + M + 2 + j]
        BY <1>23, <4>1
      <4>3. out.buf[d + 2 + (M + j)] = sentMsgs[m][w - size + (M + j)]
        BY <1>18, <4>1
      <4> QED
        BY <4>1, <4>2, <4>3
    <3>4. b[d + M + 2 + (size - M) + 1] = 0 /\ b[d + M + 2 + (size - M) + 2] = 0
      <4>1. /\ d + M + 2 + (size - M) + 1 = d + 2 + size + 1 /\ d + M + 2 + (size - M) + 2 = d + 2 + size + 2
            /\ d + 2 + size + 1 \in 1 .. l /\ d + 2 + size + 1 # d + 1 /\ d + 2 + size + 1 # d + 2
            /\ d + 2 + size + 2 \in 1 .. l /\ d + 2 + size + 2 # d + 1 /\ d + 2 + size + 2 # d + 2
        BY <1>19, <2>0, <2>1
      <4>2. b[d + 2 + size + 1] = out.buf[d + 2 + size + 1] /\ b[d + 2 + size + 2] = out.buf[d + 2 + size + 2]
        BY <1>23, <4>1
      <4> QED
        BY <1>18, <4>1, <4>2
    <3>5. ~(1 > 1)
      OBVIOUS
    <3> QED
      BY <1>15, <2>20, <3>1, <3>2, <3>3, <3>4, <3>5 DEF Queued
  <2>22. Buffered(C)'
    <3>1. Len(out'.sizes) = n /\ Len(sentMsgs') = N /\ Len(out'.buf) = l
      BY <1>1, <1>3, <1>22, <2>3, <2>4
    <3>2. C[1] = d + M /\ C[n + 1] = l
      <4>1. n + 1 \in 2 .. n + 1
        BY <1>7
      <4> QED
        BY <1>17, <2>20, <4>1
    <3>3. \A i, j \in 1 .. n + 1 : i <= j => C[i] <= C[j]
      <4> SUFFICES ASSUME NEW i \in 1 .. n + 1, NEW j \in 1 .. n + 1, i <= j PROVE C[i] <= C[j]
        OBVIOUS
      <4>1. CASE i = 1 /\ j = 1
        BY <2>1, <2>20, <4>1
      <4>2. CASE i = 1 /\ j # 1
        <5>1. j \in 2 .. n + 1 /\ 2 \in 1 .. n + 1 /\ 2 <= j
          BY <4>2
        <5>2. B[2] <= B[j] /\ C[j] = B[j]
          BY <1>17, <2>20, <5>1
        <5>3. d + M <= B[2] /\ B[2] \in Nat /\ B[j] \in Nat
          BY <1>19, <2>1
        <5> QED
          BY <2>1, <2>20, <4>2, <5>2, <5>3
      <4>3. CASE i # 1
        <5>1. i \in 2 .. n + 1 /\ j \in 2 .. n + 1
          BY <4>3
        <5> QED
          BY <1>17, <2>20, <5>1
      <4> QED
        BY <4>1, <4>2, <4>3
    <3>4. \A i \in 1 .. n : Queued(C, i, out'.sizes[i], b, sentMsgs[N - n + i])
      <4> TAKE i \in 1 .. n
      <4>1. CASE i = 1
        <5>1. N - n + i = m
          BY <1>14, <4>1
        <5> QED
          BY <2>4, <2>21, <4>1, <5>1
      <4>2. CASE i # 1
        <5>1. i \in 2 .. n /\ i \in 2 .. n + 1 /\ i + 1 \in 2 .. n + 1
          BY <4>2
        <5>2. C[i] = B[i] /\ C[i + 1] = B[i + 1] /\ out'.sizes[i] = out.sizes[i]
          BY <2>4, <2>20, <5>1
        <5>3. Queued(B, i, out.sizes[i], b, sentMsgs[N - n + i])
          BY <1>31, <5>1
        <5> QED
          BY <5>2, <5>3 DEF Queued
      <4> QED
        BY <4>1, <4>2
    <3> QED
      BY <1>1, <2>3, <3>1, <3>2, <3>3, <3>4 DEF Buffered
  <2>23. Receives(U, Q, J, R, a, y)' /\ Chunks(U, Q, J, R, a, y, sentMsgs)'
    BY <1>1, <2>8 DEF Receives, From
  <2>24. Pipe(U, Q, J, R, a, y, C)'
    BY <2>14, <2>16, <2>17, <2>18, <2>22, <2>23 DEF Pipe, Sends
  <2>25. Piped'
    BY <2>8, <2>24 DEF Piped
  <2> QED
    BY <1>1, <1>32, <2>15, <2>25 DEF Flows, Got
<1> QED
  BY <1>33, <1>34

\* send begins.
LEMMA StartSendInv ==
  ASSUME Flows, StartSend
  PROVE  Flows'
<1>1. /\ out'.buf = out.buf /\ out'.sizes = out.sizes /\ out'.start = out.start /\ out'.end = out.end
      /\ out'.todo = out.todo /\ out'.sending = TRUE /\ DOMAIN out' = OutFields
      /\ UNCHANGED <<network, sock, ahead, reader, sentMsgs, gotMsgs>>
  BY DEF StartSend, Flows, WireTypes, OutTypes, OutFields
<1>2. WireTypes'
  BY <1>1 DEF Flows, WireTypes, OutTypes, NetTypes, SockTypes, ReaderTypes, MsgTypes
<1>3. BufferToken'
  BY <1>1 DEF Flows, BufferToken
<1>4. PICK T \in [Nat -> Byte], P \in [Nat -> Nat], I \in [Nat -> Nat], O \in [Nat -> Nat],
           B \in [Nat -> Nat], a \in Nat, z \in Nat : Pipe(T, P, I, O, a, z, B)
  BY DEF Flows, Piped
<1>5. Held' = Held /\ ReadTo(P, a)' = ReadTo(P, a) /\ Slice' = Slice
  BY <1>1 DEF Held, ReadTo, From, Slice
<1>6. Chunks(T, P, I, O, a, z, sentMsgs)' /\ Receives(T, P, I, O, a, z)'
  BY <1>1, <1>4 DEF Pipe, Receives, From
<1>7. Travels(T, P, z, ReadTo(P, a))'
  BY <1>1, <1>4, <1>5 DEF Pipe, Travels, Carries
<1>8. ASSUME network'.open
      PROVE  (Sends(T, P, I, O, z, ReadTo(P, a) + Held + Len(network.bytes)) /\ Buffered(B))'
  BY <1>1, <1>4, <1>5, <1>8 DEF Pipe, Sends, Unsent, Upcoming, Buffered
<1>9. Pipe(T, P, I, O, a, z, B)'
  BY <1>6, <1>7, <1>8 DEF Pipe
<1>10. Piped'
  BY <1>9 DEF Piped
<1> QED
  BY <1>1, <1>2, <1>3, <1>10 DEF Flows, Got

\* Two sequences of bytes, u and v, are joined to x.
Joins(u, k, v, l) == u \in Seq(Byte) /\ v \in Seq(Byte) /\ k = Len(u) /\ l = Len(v) /\ k \in Nat /\ l \in Nat
Joined(x, u, k, v, l) == (\A i \in 1 .. k : x[i] = u[i]) /\ \A i \in 1 .. l : x[k + i] = v[i]

\* What the bytes of a concatenation are.
LEMMA Join ==
  ASSUME NEW u, NEW k, NEW v, NEW l, Joins(u, k, v, l)
  PROVE  Joined(u \o v, u, k, v, l) /\ u \o v \in Seq(Byte) /\ Len(u \o v) = k + l
<1>1. u \in Seq(Byte) /\ v \in Seq(Byte) /\ k = Len(u) /\ l = Len(v)
  BY DEF Joins
<1>2. k \in Nat /\ l \in Nat
  BY DEF Joins
<1>3. PICK x : x = u \o v
  OBVIOUS
<1>4. /\ x \in Seq(Byte) /\ Len(x) = Len(u) + Len(v)
      /\ \A i \in 1 .. Len(u) + Len(v) : x[i] = IF i <= Len(u) THEN u[i] ELSE v[i - Len(u)]
  BY <1>1, <1>3, ConcatProperties
<1>5. \A i \in 1 .. k + l : x[i] = IF i <= k THEN u[i] ELSE v[i - k]
  BY <1>1, <1>4
<1>6. \A i \in 1 .. k : i \in 1 .. k + l /\ i <= k
  BY <1>2
<1>7. \A i \in 1 .. l : k + i \in 1 .. k + l /\ ~(k + i <= k) /\ (k + i) - k = i
  BY <1>2
<1>8. Joined(x, u, k, v, l)
  BY <1>5, <1>6, <1>7 DEF Joined
<1> QED
  BY <1>1, <1>3, <1>4, <1>8

\* x is buf, of length l, with the message h, of length k, in front of which room is left.
Appended(x, buf, l, h, k) ==
  /\ \A i \in 1 .. l : x[i] = buf[i]
  /\ \A j \in 1 .. k : x[l + 2 + j] = h[j]
  /\ x[l + 2 + k + 1] = 0 /\ x[l + 2 + k + 2] = 0
Appends(buf, l, h, k) == buf \in Seq(Byte) /\ h \in Seq(Byte) /\ l = Len(buf) /\ k = Len(h)

Lengthened(x, buf, l, h, k) == Appended(x, buf, l, h, k) /\ x \in Seq(Byte) /\ Len(x) = l + 2 + k + 2

\* endMessage leaves in the buffer what was there, room for a size, the message and its end.
LEMMA AppendedBytes ==
  ASSUME NEW buf, NEW l, NEW h, NEW k, Appends(buf, l, h, k)
  PROVE  Lengthened(buf \o <<0, 0>> \o h \o <<0, 0>>, buf, l, h, k)
<1>1. buf \in Seq(Byte) /\ h \in Seq(Byte) /\ l = Len(buf) /\ k = Len(h)
  BY DEF Appends
<1>2. l \in Nat /\ k \in Nat
  BY <1>1, LenProperties
<1>3. PICK f : f = <<0, 0>>
  OBVIOUS
<1>4. f \in Seq(Byte) /\ Len(f) = 2 /\ f[1] = 0 /\ f[2] = 0
  <2>1. 0 \in Byte
    BY SizesHaveTwoBytes DEF Byte
  <2> QED
    BY <1>3, <2>1
<1>5. PICK x1 : x1 = buf \o f
  OBVIOUS
<1>6. Joined(x1, buf, l, f, 2) /\ x1 \in Seq(Byte) /\ Len(x1) = l + 2
  <2>1. Joins(buf, l, f, 2)
    BY <1>1, <1>2, <1>4 DEF Joins
  <2> QED
    BY <1>5, <2>1, Join
<1>7. PICK x2 : x2 = x1 \o h
  OBVIOUS
<1>8. PICK l2 \in Nat : l2 = l + 2
  BY <1>2
<1>9. Joined(x2, x1, l2, h, k) /\ x2 \in Seq(Byte) /\ Len(x2) = l2 + k
  <2>1. Joins(x1, l2, h, k)
    BY <1>1, <1>2, <1>6, <1>8 DEF Joins
  <2> QED
    BY <1>7, <2>1, Join
<1>10. PICK x3 : x3 = x2 \o f
  OBVIOUS
<1>11. PICK l3 \in Nat : l3 = l2 + k
  BY <1>2
<1>12. Joined(x3, x2, l3, f, 2) /\ x3 \in Seq(Byte) /\ Len(x3) = l3 + 2
  <2>1. Joins(x2, l3, f, 2)
    BY <1>4, <1>9, <1>11 DEF Joins
  <2> QED
    BY <1>10, <2>1, Join
<1>19. /\ (\A i \in 1 .. l : x1[i] = buf[i]) /\ (\A i \in 1 .. l2 : x2[i] = x1[i])
       /\ (\A i \in 1 .. k : x2[l2 + i] = h[i]) /\ (\A i \in 1 .. l3 : x3[i] = x2[i])
       /\ x3[l3 + 1] = 0 /\ x3[l3 + 2] = 0
  BY <1>4, <1>6, <1>9, <1>12 DEF Joined
<1>13. \A i \in 1 .. l : x3[i] = buf[i]
  <2> TAKE i \in 1 .. l
  <2>1. i \in 1 .. l3 /\ i \in 1 .. l2
    BY <1>2, <1>8, <1>11
  <2> QED
    BY <1>19, <2>1
<1>14. \A j \in 1 .. k : x3[l + 2 + j] = h[j]
  <2> TAKE j \in 1 .. k
  <2>1. l2 + j \in 1 .. l3 /\ l + 2 + j = l2 + j
    BY <1>2, <1>8, <1>11
  <2> QED
    BY <1>19, <2>1
<1>15. x3[l + 2 + k + 1] = 0 /\ x3[l + 2 + k + 2] = 0
  <2>1. l + 2 + k + 1 = l3 + 1 /\ l + 2 + k + 2 = l3 + 2
    BY <1>2, <1>8, <1>11
  <2> QED
    BY <1>19, <2>1
<1>16. Appended(x3, buf, l, h, k)
  BY <1>13, <1>14, <1>15 DEF Appended
<1>17. x3 = buf \o <<0, 0>> \o h \o <<0, 0>>
  BY <1>3, <1>5, <1>7, <1>10
<1>18. l3 + 2 = l + 2 + k + 2
  BY <1>8, <1>11
<1> QED
  BY <1>12, <1>16, <1>17, <1>18 DEF Lengthened

\* Messages are added to those that were sent.
Longer(next, sent, N) ==
  N = Len(sent) /\ N \in Nat /\ Len(next) = N + 1 /\ \A i \in 1 .. N : next[i] = sent[i]

\* The layout of the stream stays as it is when one more message is sent.
LEMMA ChunksStay ==
  ASSUME NEW T, NEW P, NEW I, NEW O, NEW a, NEW z, NEW sent, NEW next, NEW N,
         Longer(next, sent, N), Chunks(T, P, I, O, a, z, sent)
  PROVE  Chunks(T, P, I, O, a, z, next)
<1>1. \A i \in 1 .. Len(sent) : i \in 1 .. Len(next) /\ next[i] = sent[i]
  BY DEF Longer
<1>2. ASSUME NEW i, Chunk(T, P, I, O, i, sent)
      PROVE  Chunk(T, P, I, O, i, next)
  <2>1. DataChunk(T, P, I, O, i, sent) => DataChunk(T, P, I, O, i, next)
    BY <1>1 DEF DataChunk
  <2>2. LastChunk(I, O, i, sent) => LastChunk(I, O, i, next)
    BY <1>1 DEF LastChunk
  <2> QED
    BY <1>2, <2>1, <2>2 DEF Chunk
<1> QED
  BY <1>2 DEF Chunks

\* A message is packed behind those that wait.
LEMMA AppendMessageInv ==
  ASSUME Flows, AppendMessage
  PROVE  Flows'
<1>0. PICK h : h = Head(out.todo)
  OBVIOUS
<1>1. PICK x : x = out.buf \o <<0, 0>> \o h \o <<0, 0>>
  OBVIOUS
<1>2. PICK k : k = Len(h)
  OBVIOUS
<1>3. /\ out'.buf = x /\ out'.sizes = Append(out.sizes, k) /\ out'.todo = Tail(out.todo)
      /\ out'.start = out.start /\ out'.end = out.end /\ out'.sending = out.sending /\ DOMAIN out' = OutFields
      /\ out.todo # << >> /\ ~out.sending /\ sentMsgs' = Append(sentMsgs, h)
      /\ UNCHANGED <<network, sock, ahead, reader, gotMsgs>>
  BY <1>0, <1>1, <1>2 DEF AppendMessage, Flows, WireTypes, OutTypes, OutFields
<1>4. h \in Message /\ Tail(out.todo) \in Seq(Message)
  BY <1>0, <1>3, HeadTailProperties DEF Flows, WireTypes, OutTypes
<1>5. h \in Seq(Byte) /\ k \in Nat /\ k > 0
  BY <1>2, <1>4, EmptySeq DEF Message
<1>6. k \in Nat /\ k > 0
  BY <1>5
<1>7. PICK n \in Nat : n = Len(out.sizes)
  BY WireNumbers DEF Flows
<1>8. PICK N \in Nat : N = Len(sentMsgs)
  BY WireNumbers DEF Flows
<1>9. PICK l \in Nat : l = Len(out.buf)
  BY WireNumbers DEF Flows
<1>10. Appended(x, out.buf, l, h, k) /\ x \in Seq(Byte) /\ Len(x) = l + 2 + k + 2
  <2>1. Appends(out.buf, l, h, k)
    BY <1>2, <1>5, <1>9 DEF Appends, Flows, WireTypes, OutTypes
  <2>2. Lengthened(x, out.buf, l, h, k)
    BY <1>1, <2>1, AppendedBytes
  <2> QED
    BY <2>2 DEF Lengthened
<1>11. /\ out'.sizes \in Seq(Count) /\ out'.sizes # << >> /\ Len(out'.sizes) = n + 1
       /\ out'.sizes[n + 1] = k /\ \A i \in 1 .. n : out'.sizes[i] = out.sizes[i]
  <2>1. out.sizes \in Seq(Count) /\ k \in Count
    BY <1>6 DEF Flows, WireTypes, OutTypes, Count
  <2> QED
    BY <1>3, <1>7, <2>1, AppendProperties
<1>12. /\ sentMsgs' \in Seq(Message) /\ Len(sentMsgs') = N + 1 /\ sentMsgs'[N + 1] = h
       /\ \A i \in 1 .. N : sentMsgs'[i] = sentMsgs[i]
  <2>1. sentMsgs \in Seq(Message)
    BY DEF Flows, WireTypes, MsgTypes
  <2> QED
    BY <1>3, <1>4, <1>8, <2>1, AppendProperties
<1>13. Len(sentMsgs') = N + 1 /\ sentMsgs'[N + 1] = h /\ \A i \in 1 .. N : sentMsgs'[i] = sentMsgs[i]
  BY <1>12
<1>14. WireTypes'
  BY <1>3, <1>4, <1>10, <1>11, <1>12 DEF Flows, WireTypes, OutTypes, NetTypes, SockTypes, ReaderTypes, MsgTypes
<1>15. BufferToken'
  BY <1>3 DEF Flows, BufferToken
<1>16. PICK g \in Nat : g = Len(gotMsgs)
  BY WireNumbers DEF Flows
<1>17. Got'
  <2>1. g <= N /\ \A i \in 1 .. g : gotMsgs[i] = sentMsgs[i]
    BY <1>8, <1>16 DEF Flows, Got
  <2>2. g <= N + 1 /\ \A i \in 1 .. g : i \in 1 .. N
    BY <2>1
  <2> QED
    BY <1>3, <1>13, <1>16, <2>1, <2>2 DEF Got
<1>18. PICK T \in [Nat -> Byte], P \in [Nat -> Nat], I \in [Nat -> Nat], O \in [Nat -> Nat],
            B \in [Nat -> Nat], a \in Nat, z \in Nat : Pipe(T, P, I, O, a, z, B)
  BY DEF Flows, Piped
<1>19. Held' = Held /\ ReadTo(P, a)' = ReadTo(P, a) /\ Slice' = Slice
  BY <1>3 DEF Held, ReadTo, From, Slice
<1>20. Chunks(T, P, I, O, a, z, sentMsgs)'
  <2>1. Longer(sentMsgs', sentMsgs, N)
    BY <1>8, <1>13 DEF Longer
  <2>2. Chunks(T, P, I, O, a, z, sentMsgs)
    BY <1>18 DEF Pipe
  <2> QED
    BY <2>1, <2>2, ChunksStay
<1>21. Receives(T, P, I, O, a, z)'
  <2>1. Receives(T, P, I, O, a, z)
    BY <1>18 DEF Pipe
  <2>2. ASSUME Len(reader.msg) > 0
        PROVE  /\ I[a] <= Len(sentMsgs') /\ Len(reader.msg) <= Len(sentMsgs'[I[a]])
               /\ \A i \in 1 .. Len(reader.msg) : reader.msg[i] = sentMsgs'[I[a]][i]
    <3>1. I[a] <= N /\ I[a] = g + 1
      BY <1>8, <1>16, <2>1, <2>2 DEF Receives
    <3>2. I[a] \in 1 .. N /\ I[a] <= N + 1
      BY <3>1
    <3>3. sentMsgs'[I[a]] = sentMsgs[I[a]]
      BY <1>13, <3>2
    <3> QED
      BY <1>13, <2>1, <2>2, <3>2, <3>3 DEF Receives
  <2> QED
    BY <1>3, <2>1, <2>2 DEF Receives, From
<1>22. Travels(T, P, z, ReadTo(P, a))'
  BY <1>3, <1>18, <1>19 DEF Pipe, Travels, Carries
<1>23. PICK C \in [Nat -> Nat] : C = [B EXCEPT ![n + 2] = B[n + 1] + 4 + k]
  <2>1. B[n + 1] + 4 + k \in Nat
    BY <1>6
  <2> QED
    BY <2>1
<1>24. C[n + 2] = B[n + 1] + 4 + k /\ \A i \in 1 .. n + 1 : C[i] = B[i]
  BY <1>23
<1>25. ASSUME network'.open
       PROVE  (Sends(T, P, I, O, z, ReadTo(P, a) + Held + Len(network.bytes)) /\ Buffered(C))'
  <2>1. Sends(T, P, I, O, z, ReadTo(P, a) + Held + Len(network.bytes)) /\ Buffered(B)
    BY <1>3, <1>18, <1>25 DEF Pipe
  <2>2. out.start = 0 /\ out.end = 0 /\ O[z] = 0 /\ n <= N /\ I[z] = N - n + 1
    BY <1>3, <1>7, <1>8, <2>1 DEF Sends, Upcoming
  <2>3. PICK e : e = ReadTo(P, a) + Held + Len(network.bytes)
    OBVIOUS
  <2>4. (ReadTo(P, a) + Held + Len(network.bytes))' = e
    BY <1>3, <1>19, <2>3
  <2>5. Unsent(T, P, z, e)'
    <3>1. e + (0 - 0) = P[z]
      BY <2>1, <2>2, <2>3 DEF Sends, Unsent
    <3>2. 0 <= l + 2 + k + 2 /\ 0 <= 0 /\ \A i \in 1 .. 0 - 0 : x[0 + i] = T[e + i]
      BY <1>6
    <3> QED
      BY <1>3, <1>10, <2>2, <3>1, <3>2 DEF Unsent
  <2>6. 0 + out'.sizes[1] = Len(sentMsgs'[I[z]])
    <3>1. CASE n = 0
      <4>1. I[z] = N + 1 /\ 0 + k = k /\ n + 1 = 1
        BY <1>6, <2>2, <3>1
      <4> QED
        BY <1>2, <1>11, <1>13, <4>1
    <3>2. CASE n # 0
      <4>1. I[z] \in 1 .. N /\ 1 \in 1 .. n
        BY <2>2, <3>2
      <4>2. out.sizes # << >>
        BY <1>7, <3>2, EmptySeq
      <4>3. O[z] + out.sizes[1] = Len(sentMsgs[I[z]])
        BY <2>1, <4>2 DEF Sends, Upcoming
      <4> QED
        BY <1>11, <1>13, <2>2, <4>1, <4>3
    <3> QED
      BY <3>1, <3>2
  <2>7. Upcoming(I, O, z)'
    <3>1. n + 1 <= N + 1 /\ I[z] = (N + 1) - (n + 1) + 1
      BY <2>2
    <3> QED
      BY <1>3, <1>11, <1>13, <2>2, <2>6, <3>1 DEF Upcoming
  <2>8. /\ B[1] = out.end /\ B[n + 1] = l /\ \A i, j \in 1 .. n + 1 : i <= j => B[i] <= B[j]
        /\ \A i \in 1 .. n : Queued(B, i, out.sizes[i], out.buf, sentMsgs[N - n + i])
    BY <1>7, <1>8, <1>9, <2>1 DEF Buffered
  <2>9. C[1] = out.end /\ C[(n + 1) + 1] = l + 2 + k + 2
    <3>1. 1 \in 1 .. n + 1 /\ (n + 1) + 1 = n + 2 /\ l + 4 + k = l + 2 + k + 2
      BY <1>6
    <3> QED
      BY <1>24, <2>8, <3>1
  <2>10. \A i, j \in 1 .. (n + 1) + 1 : i <= j => C[i] <= C[j]
    <3> SUFFICES ASSUME NEW i \in 1 .. n + 2, NEW j \in 1 .. n + 2, i <= j PROVE C[i] <= C[j]
      OBVIOUS
    <3>1. CASE j # n + 2
      <4>1. i \in 1 .. n + 1 /\ j \in 1 .. n + 1
        BY <3>1
      <4> QED
        BY <1>24, <2>8, <4>1
    <3>2. CASE j = n + 2 /\ i = n + 2
      BY <1>6, <1>24, <3>2
    <3>3. CASE j = n + 2 /\ i # n + 2
      <4>1. i \in 1 .. n + 1 /\ n + 1 \in 1 .. n + 1 /\ i <= n + 1
        BY <3>3
      <4>2. C[i] = B[i] /\ B[i] <= B[n + 1] /\ B[i] \in Nat /\ B[n + 1] \in Nat
        BY <1>24, <2>8, <4>1
      <4> QED
        BY <1>6, <1>24, <3>3, <4>2
    <3> QED
      BY <3>1, <3>2, <3>3
  <2>11. ASSUME NEW i \in 1 .. n
         PROVE  Queued(C, i, out'.sizes[i], x, sentMsgs'[(N + 1) - (n + 1) + i])
    <3>1. /\ N - n + i \in 1 .. N /\ (N + 1) - (n + 1) + i = N - n + i /\ i \in 1 .. n + 1
          /\ i + 1 \in 1 .. n + 1 /\ n + 1 \in 1 .. n + 1 /\ i + 1 <= n + 1
      BY <2>2
    <3>2. Queued(B, i, out.sizes[i], out.buf, sentMsgs[N - n + i])
      BY <2>8
    <3>3. PICK u \in Nat : u = out.sizes[i]
      BY <1>7, WireNumbers DEF Flows
    <3>4. PICK y \in Nat : y = B[i]
      OBVIOUS
    <3>5. y + 4 + u <= l
      <4>1. B[i + 1] = y + 4 + u
        BY <3>2, <3>3, <3>4 DEF Queued
      <4>2. B[i + 1] <= B[n + 1]
        BY <2>8, <3>1
      <4> QED
        BY <2>8, <4>1, <4>2
    <3>6. /\ \A j \in 1 .. u : x[y + 2 + j] = out.buf[y + 2 + j]
          /\ x[y + 2 + u + 1] = out.buf[y + 2 + u + 1] /\ x[y + 2 + u + 2] = out.buf[y + 2 + u + 2]
      <4>1. \A j \in 1 .. u : y + 2 + j \in 1 .. l
        BY <3>5
      <4>2. y + 2 + u + 1 \in 1 .. l /\ y + 2 + u + 2 \in 1 .. l
        BY <3>5
      <4>3. \A j \in 1 .. l : x[j] = out.buf[j]
        BY <1>10 DEF Appended
      <4> QED
        BY <4>1, <4>2, <4>3
    <3>7. C[i] = B[i] /\ C[i + 1] = B[i + 1] /\ out'.sizes[i] = out.sizes[i]
          /\ sentMsgs'[(N + 1) - (n + 1) + i] = sentMsgs[N - n + i]
      BY <1>11, <1>13, <1>24, <3>1
    <3>8. PICK t : t = sentMsgs[N - n + i]
      OBVIOUS
    <3>9. Queued(B, i, u, out.buf, t)
      BY <3>2, <3>3, <3>8
    <3>10. Queued(C, i, u, x, t)
      BY <3>4, <3>6, <3>7, <3>9 DEF Queued
    <3> QED
      BY <3>3, <3>7, <3>8, <3>10
  <2>12. Queued(C, n + 1, k, x, h)
    <3>1. n + 1 \in 1 .. n + 1 /\ (n + 1) + 1 = n + 2 /\ k \in 1 .. k /\ \A j \in 1 .. k : k - k + j = j
      BY <1>6
    <3>2. C[n + 1] = l /\ C[(n + 1) + 1] = l + 4 + k
      BY <1>24, <2>8, <3>1
    <3> QED
      BY <1>2, <1>10, <3>1, <3>2 DEF Queued, Appended
  <2>13. \A i \in 1 .. n + 1 : Queued(C, i, out'.sizes[i], x, sentMsgs'[(N + 1) - (n + 1) + i])
    <3> TAKE i \in 1 .. n + 1
    <3>1. CASE i = n + 1
      <4>1. (N + 1) - (n + 1) + i = N + 1
        BY <3>1
      <4> QED
        BY <1>11, <1>13, <2>12, <3>1, <4>1
    <3>2. CASE i # n + 1
      <4>1. i \in 1 .. n
        BY <3>2
      <4> QED
        BY <2>11, <4>1
    <3> QED
      BY <3>1, <3>2
  <2>14. Buffered(C)'
    BY <1>3, <1>10, <1>11, <1>13, <2>9, <2>10, <2>13 DEF Buffered
  <2> QED
    BY <2>4, <2>5, <2>7, <2>14 DEF Sends
<1>26. Pipe(T, P, I, O, a, z, C)'
  BY <1>20, <1>21, <1>22, <1>25 DEF Pipe
<1>27. Piped'
  BY <1>26 DEF Piped
<1> QED
  BY <1>14, <1>15, <1>17, <1>27 DEF Flows

\* A read copies from the slice that the reader holds.
LEMMA CopyPendingInv ==
  ASSUME Flows, CopyPending
  PROVE  Flows'
<1>1. PICK s : s = Head(reader.held)
  OBVIOUS
<1>2. s \in Slices /\ Slice = s /\ reader.held # << >>
  <2>1. reader.held # << >> /\ reader.held \in Seq(Slices)
    BY DEF CopyPending, Flows, WireTypes, ReaderTypes
  <2> QED
    BY <1>1, <2>1, HeadTailProperties DEF Slice
<1>3. PICK lo \in Nat : lo = s.lo
  BY <1>2 DEF Slices
<1>4. PICK hi \in Nat : hi = s.hi /\ lo <= hi /\ hi <= BufferSize
  BY <1>2, <1>3 DEF Slices
<1>5. PICK left \in Nat : left = reader.left
  BY DEF Flows, WireTypes, ReaderTypes
<1>6. PICK n \in Nat : n = (IF left < hi - lo THEN left ELSE hi - lo) /\ n <= left /\ n <= hi - lo
  BY <1>4
<1>7. PICK g : g = SubSeq(sock.buffer, lo + 1, lo + n)
  OBVIOUS
<1>8. PICK rest : rest = [s EXCEPT !.lo = lo + n]
  OBVIOUS
<1>9. /\ reader' = [reader EXCEPT !.bytes = reader.bytes \o g, !.left = left - n, !.held = << >>]
      /\ sock' = IF n = hi - lo THEN [sock EXCEPT !.wantRead = 1] ELSE [sock EXCEPT !.pending = <<rest>>]
      /\ UNCHANGED <<out, network, ahead, sentMsgs, gotMsgs>>
  BY <1>1, <1>3, <1>4, <1>5, <1>6, <1>7, <1>8 DEF CopyPending
<1>10. /\ DOMAIN reader' = ReaderFields /\ reader'.part = reader.part /\ reader'.left = left - n
       /\ reader'.bytes = reader.bytes \o g /\ reader'.msg = reader.msg /\ reader'.held = << >>
  BY <1>9 DEF Flows, WireTypes, ReaderTypes, ReaderFields
<1>11. /\ DOMAIN sock' = SockFields /\ sock'.buffer = sock.buffer
       /\ n = hi - lo => sock'.wantRead = 1 /\ sock'.pending = sock.pending
       /\ n # hi - lo => sock'.wantRead = sock.wantRead /\ sock'.pending = <<rest>>
  BY <1>9 DEF Flows, WireTypes, SockTypes, SockFields
<1>12. sock.wantRead = 0 /\ ahead.at \notin {"read", "push"} /\ sock.pending = << >>
  BY <1>2 DEF Flows, BufferToken
<1>13. rest.lo = lo + n /\ rest.hi = hi /\ rest \in Slices
  <2>1. s \in [lo : Nat, hi : Nat, err : BOOLEAN]
    BY <1>2 DEF Slices
  <2>2. lo + n \in Nat /\ lo + n <= hi
    BY <1>4, <1>6
  <2>3. rest \in [lo : Nat, hi : Nat, err : BOOLEAN] /\ rest.lo = lo + n /\ rest.hi = hi
    BY <1>4, <1>8, <2>1, <2>2
  <2> QED
    BY <1>4, <2>2, <2>3 DEF Slices
<1>14. /\ <<rest>> \in Seq(Slices) /\ <<rest>> # << >> /\ Len(<<rest>>) = 1 /\ Head(<<rest>>) = rest
       /\ << >> \in Seq(Slices) /\ Len(<< >>) = 0
  BY <1>13, EmptySeq
<1>15. IsPart(g, sock.buffer, lo, lo + n)
  <2>1. PICK m \in Nat : m = BufferSize
    BY BufferIsNotEmpty
  <2>2. sock.buffer \in [1 .. m -> Byte]
    BY <2>1 DEF Flows, WireTypes, SockTypes
  <2>3. sock.buffer \in Seq(Byte)
    BY <2>2, SeqDef
  <2>4. Len(sock.buffer) = m
    BY <2>2, <2>3, LenProperties
  <2>5. lo + n \in Nat /\ lo <= lo + n /\ lo + n <= m
    BY <1>4, <1>6, <2>1
  <2>6. Part(sock.buffer, lo, lo + n)
    BY <2>3, <2>4, <2>5 DEF Part
  <2> QED
    BY <1>7, <2>6, PartOf
<1>16. (lo + n) - lo = n
  OBVIOUS
<1>17. g \in Seq(Byte) /\ Len(g) = n /\ \A i \in 1 .. n : g[i] = sock.buffer[lo + i]
  BY <1>15, <1>16 DEF IsPart
<1>18. PICK k \in Nat : k = Len(reader.bytes)
  BY WireNumbers DEF Flows
<1>19. Joined(reader'.bytes, reader.bytes, k, g, n) /\ reader'.bytes \in Seq(Byte) /\ Len(reader'.bytes) = k + n
  <2>1. Joins(reader.bytes, k, g, n)
    BY <1>17, <1>18 DEF Joins, Flows, WireTypes, ReaderTypes
  <2> QED
    BY <1>10, <2>1, Join
<1>20. left - n \in Nat
  BY <1>6
<1>21. WireTypes'
  <2>1. ReaderTypes'
    BY <1>10, <1>14, <1>19, <1>20 DEF Flows, WireTypes, ReaderTypes
  <2>2. sock'.pending \in Seq(Slices) /\ sock'.wantRead \in Nat
    <3>1. \/ sock'.wantRead = 1 /\ sock'.pending = << >>
          \/ sock'.wantRead = 0 /\ sock'.pending = <<rest>>
      BY <1>11, <1>12, Zenon
    <3>2. <<rest>> \in Seq(Slices) /\ << >> \in Seq(Slices)
      BY <1>14
    <3>3. sock'.wantRead \in Nat
      BY <3>1
    <3> QED
      BY <3>1, <3>2, <3>3, Zenon
  <2>3. SockTypes'
    BY <1>9, <1>11, <2>2 DEF Flows, WireTypes, SockTypes
  <2> QED
    BY <1>9, <2>1, <2>3 DEF Flows, WireTypes, OutTypes, NetTypes, MsgTypes
<1>22. BufferToken'
  BY <1>9, <1>10, <1>11, <1>12, <1>14 DEF Flows, BufferToken
<1>23. Held = hi - lo /\ Held' = hi - lo - n
  <2>1. n = hi - lo => Slice' = NoSlice
    BY <1>9, <1>10, <1>11, <1>12 DEF Slice
  <2>2. n # hi - lo => Slice' = rest
    BY <1>10, <1>11, <1>14 DEF Slice
  <2>3. n = hi - lo => Held' = 0
    BY <2>1 DEF Held, NoSlice
  <2>4. n # hi - lo => Held' = hi - (lo + n)
    BY <1>13, <2>2 DEF Held
  <2>5. hi - (lo + n) = hi - lo - n /\ (n = hi - lo => 0 = hi - lo - n)
    OBVIOUS
  <2> QED
    BY <1>2, <1>3, <1>4, <2>3, <2>4, <2>5 DEF Held
<1>24. n # hi - lo => Slice'.lo = lo + n
  BY <1>10, <1>11, <1>13, <1>14 DEF Slice
<1>25. PICK T \in [Nat -> Byte], P \in [Nat -> Nat], I \in [Nat -> Nat], O \in [Nat -> Nat],
            B \in [Nat -> Nat], a \in Nat, z \in Nat : Pipe(T, P, I, O, a, z, B)
  BY DEF Flows, Piped
<1>26. PICK v \in Nat : v = From(P, a) /\ From(P, a)' = v
  BY <1>10, ReadToNat DEF Flows, From
<1>27. ReadTo(P, a) = v + k /\ ReadTo(P, a)' = v + k + n
  <2>1. ReadTo(P, a) = v + k /\ ReadTo(P, a)' = v + (k + n)
    BY <1>18, <1>19, <1>26 DEF ReadTo
  <2>2. v + (k + n) = v + k + n
    OBVIOUS
  <2> QED
    BY <2>1, <2>2
<1>28. PICK w \in Nat : w = Len(network.bytes)
  BY WireNumbers DEF Flows
<1>29. /\ Chunks(T, P, I, O, a, z, sentMsgs) /\ Receives(T, P, I, O, a, z) /\ Travels(T, P, z, v + k)
  BY <1>25, <1>27 DEF Pipe
<1>30. /\ (\A i \in 1 .. hi - lo : sock.buffer[lo + i] = T[v + k + i])
       /\ Window(T, v + k + (hi - lo), network.bytes) /\ v + k + (hi - lo) + w <= P[z]
  BY <1>2, <1>3, <1>23, <1>28, <1>29 DEF Travels, Carries
<1>31. Travels(T, P, z, v + k + n)'
  <2>1. v + k + n + (hi - lo - n) = v + k + (hi - lo)
    BY <1>4
  <2>2. \A i \in 1 .. Held' : sock'.buffer[Slice'.lo + i] = T[v + k + n + i]
    <3>1. CASE n = hi - lo
      <4>1. Held' = 0 /\ 1 .. 0 = {}
        BY <1>23, <3>1
      <4> QED
        BY <4>1
    <3>2. CASE n # hi - lo
      <4> SUFFICES ASSUME NEW i \in 1 .. hi - lo - n
                   PROVE  sock.buffer[lo + n + i] = T[v + k + n + i]
        BY <1>11, <1>23, <1>24, <3>2
      <4>1. n + i \in 1 .. hi - lo /\ lo + (n + i) = lo + n + i /\ v + k + (n + i) = v + k + n + i
        BY <1>4
      <4> QED
        BY <1>30, <4>1
    <3> QED
      BY <3>1, <3>2
  <2>3. Carries(T, v + k + n)'
    BY <1>9, <1>23, <1>30, <2>1, <2>2 DEF Carries
  <2>4. v + k + n + Held' + Len(network'.bytes) <= P[z]
    BY <1>9, <1>23, <1>28, <1>30, <2>1
  <2> QED
    BY <2>3, <2>4 DEF Travels
<1>32. Receives(T, P, I, O, a, z)'
  <2>1. \A i \in 1 .. k + n : reader'.bytes[i] = T[v + i]
    <3> TAKE i \in 1 .. k + n
    <3>1. CASE i <= k
      <4>1. i \in 1 .. k
        BY <3>1
      <4>2. reader'.bytes[i] = reader.bytes[i]
        BY <1>19, <4>1 DEF Joined
      <4>3. reader.bytes[i] = T[v + i]
        BY <1>18, <1>26, <1>29, <4>1 DEF Receives, Window
      <4> QED
        BY <4>2, <4>3
    <3>2. CASE ~(i <= k)
      <4>1. PICK j \in Int : j = i - k
        OBVIOUS
      <4>2. j \in 1 .. n /\ k + j = i /\ j \in 1 .. hi - lo /\ v + k + j = v + i
        BY <1>4, <1>6, <3>2, <4>1
      <4>3. reader'.bytes[k + j] = g[j]
        BY <1>19, <4>2 DEF Joined
      <4>4. g[j] = sock.buffer[lo + j]
        BY <1>17, <4>2
      <4>5. sock.buffer[lo + j] = T[v + k + j]
        BY <1>30, <4>2
      <4> QED
        BY <4>2, <4>3, <4>4, <4>5
    <3> QED
      BY <3>1, <3>2
  <2>2. Window(T, From(P, a), reader.bytes)'
    BY <1>19, <1>26, <2>1 DEF Window
  <2>3. k + n + (left - n) = k + left
    BY <1>6
  <2>4. Len(reader'.bytes) + reader'.left = Len(reader.bytes) + reader.left
    BY <1>5, <1>10, <1>18, <1>19, <2>3
  <2> QED
    BY <1>9, <1>10, <1>29, <2>2, <2>4 DEF Receives
<1>33. (ReadTo(P, a) + Held + Len(network.bytes))' = ReadTo(P, a) + Held + Len(network.bytes)
  <2>1. v + k + n + (hi - lo - n) + w = v + k + (hi - lo) + w
    BY <1>4
  <2> QED
    BY <1>9, <1>23, <1>27, <1>28, <2>1
<1>34. ASSUME network'.open
       PROVE  (Sends(T, P, I, O, z, ReadTo(P, a) + Held + Len(network.bytes)) /\ Buffered(B))'
  <2>1. Sends(T, P, I, O, z, ReadTo(P, a) + Held + Len(network.bytes)) /\ Buffered(B)
    BY <1>9, <1>25, <1>34 DEF Pipe
  <2> QED
    BY <1>9, <1>33, <2>1 DEF Sends, Unsent, Upcoming, Buffered
<1>35. Chunks(T, P, I, O, a, z, sentMsgs)' /\ Travels(T, P, z, ReadTo(P, a))'
  BY <1>9, <1>27, <1>29, <1>31
<1>36. Pipe(T, P, I, O, a, z, B)'
  BY <1>32, <1>34, <1>35 DEF Pipe
<1>37. Piped'
  BY <1>36 DEF Piped
<1> QED
  BY <1>9, <1>21, <1>22, <1>37 DEF Flows, Got

\* The chunks after the first one are chunks.
LEMMA ChunksRest ==
  ASSUME NEW T, NEW P \in [Nat -> Nat], NEW I, NEW O, NEW a \in Nat, NEW z \in Nat, NEW sent,
         Chunks(T, P, I, O, a, z, sent), a < z
  PROVE  Chunks(T, P, I, O, a + 1, z, sent)
<1>1. a + 1 <= z /\ (\A i \in a + 1 .. z - 1 : i \in a .. z - 1) /\ \A i \in a + 1 .. z : i \in a .. z
  OBVIOUS
<1> QED
  BY <1>1 DEF Chunks

\* dechunkMessage has the size of a chunk, or the chunk.
LEMMA DechunkInv ==
  ASSUME Flows, Dechunk
  PROVE  Flows'
<1>1. /\ reader.left = 0 /\ UNCHANGED <<out, network, sock, ahead, sentMsgs>> /\ reader.held = << >>
  BY DEF Dechunk, Flows, BufferToken
<1>2. PICK g \in Nat : g = Len(gotMsgs)
  BY WireNumbers DEF Flows
<1>3. PICK N \in Nat : N = Len(sentMsgs)
  BY WireNumbers DEF Flows
<1>4. PICK k \in Nat : k = Len(reader.bytes)
  BY WireNumbers DEF Flows
<1>5. PICK q \in Nat : q = Len(reader.msg)
  BY WireNumbers DEF Flows
<1>6. PICK T \in [Nat -> Byte], P \in [Nat -> Nat], I \in [Nat -> Nat], O \in [Nat -> Nat],
           B \in [Nat -> Nat], a \in Nat, z \in Nat : Pipe(T, P, I, O, a, z, B)
  BY DEF Flows, Piped
<1>7. /\ Chunks(T, P, I, O, a, z, sentMsgs) /\ Receives(T, P, I, O, a, z)
      /\ Travels(T, P, z, ReadTo(P, a))
  BY <1>6 DEF Pipe
<1>8. PICK p \in Nat : p = P[a]
  OBVIOUS
<1>9. /\ reader.part = "size" => k + 0 = 2
      /\ reader.part = "chunk" => a < z /\ Size(P, a) > 0 /\ k + 0 = Size(P, a)
      /\ I[a] = g + 1 /\ O[a] = q
      /\ q > 0 => /\ I[a] <= N /\ q <= Len(sentMsgs[I[a]])
                  /\ \A i \in 1 .. q : reader.msg[i] = sentMsgs[I[a]][i]
  BY <1>1, <1>2, <1>3, <1>4, <1>5, <1>7 DEF Receives
<1>10. /\ reader.part = "size" => (\A i \in 1 .. k : reader.bytes[i] = T[p + i]) /\ ReadTo(P, a) = p + k
       /\ reader.part = "chunk" => (\A i \in 1 .. k : reader.bytes[i] = T[p + 2 + i]) /\ ReadTo(P, a) = p + 2 + k
  BY <1>4, <1>7, <1>8 DEF Receives, Window, From, ReadTo
<1>11. ASSUME NEW b \in Nat, Chunks(T, P, I, O, b, z, sentMsgs), Receives(T, P, I, O, b, z)',
              ReadTo(P, b)' = ReadTo(P, a), reader'.held = << >>
       PROVE  Piped'
  <2>1. Held' = Held /\ Slice' = Slice
    BY <1>1, <1>11 DEF Held, Slice
  <2>2. Travels(T, P, z, ReadTo(P, b))'
    BY <1>1, <1>7, <1>11, <2>1 DEF Travels, Carries
  <2>3. (ReadTo(P, b) + Held + Len(network.bytes))' = ReadTo(P, a) + Held + Len(network.bytes)
    BY <1>1, <1>11, <2>1
  <2>4. ASSUME network'.open
        PROVE  (Sends(T, P, I, O, z, ReadTo(P, b) + Held + Len(network.bytes)) /\ Buffered(B))'
    <3>1. Sends(T, P, I, O, z, ReadTo(P, a) + Held + Len(network.bytes)) /\ Buffered(B)
      BY <1>1, <1>6, <2>4 DEF Pipe
    <3> QED
      BY <1>1, <2>3, <3>1 DEF Sends, Unsent, Upcoming, Buffered
  <2>5. Chunks(T, P, I, O, b, z, sentMsgs)'
    BY <1>1, <1>11
  <2>6. Pipe(T, P, I, O, b, z, B)'
    BY <1>11, <2>2, <2>4, <2>5 DEF Pipe
  <2> QED
    BY <2>6 DEF Piped
<1>12. a < z
  <2>1. CASE reader.part = "chunk"
    BY <1>9, <2>1
  <2>2. CASE reader.part = "size"
    <3>1. ReadTo(P, a) = p + 2
      BY <1>9, <1>10, <2>2
    <3>2. p + 2 + Held + Len(network.bytes) <= P[z]
      BY <1>7, <3>1 DEF Travels
    <3>3. PICK h \in Nat : h = Held
      BY WireNumbers DEF Flows
    <3>4. PICK w \in Nat : w = Len(network.bytes)
      BY WireNumbers DEF Flows
    <3>5. p + 2 + h + w <= P[z]
      BY <3>2, <3>3, <3>4
    <3>6. a <= z
      BY <1>7 DEF Chunks
    <3>7. a # z
      BY <1>8, <3>5
    <3> QED
      BY <3>6, <3>7
  <2> QED
    BY <2>1, <2>2 DEF Flows, WireTypes, ReaderTypes
<1>13. Chunk(T, P, I, O, a, sentMsgs)
  <2>1. a \in a .. z - 1
    BY <1>12
  <2> QED
    BY <1>7, <2>1 DEF Chunks
<1>14. Chunks(T, P, I, O, a + 1, z, sentMsgs) /\ a + 1 \in Nat
  BY <1>7, <1>12, ChunksRest
<1>15. PICK c \in Nat : c = Size(P, a) /\ P[a + 1] = p + 2 + c
  <2>1. Size(P, a) \in Nat
    BY <1>13, ChunkIsLarge DEF Chunk
  <2>2. P[a + 1] \in Nat
    OBVIOUS
  <2> QED
    BY <1>8, <2>1, <2>2 DEF Size
<1>16. << >> \in Seq(Byte) /\ << >> \in Seq(Slices) /\ Len(<< >>) = 0
  BY EmptySeq
<1>17. BufferToken /\ WireTypes /\ Got
  BY DEF Flows
<1>18. CASE reader.part = "chunk"
  <2>1. PICK x : x = reader.msg \o reader.bytes
    OBVIOUS
  <2>2. /\ DOMAIN reader' = ReaderFields /\ reader'.part = "size" /\ reader'.left = 2
        /\ reader'.bytes = << >> /\ reader'.msg = x /\ reader'.held = << >> /\ gotMsgs' = gotMsgs
    BY <1>18, <2>1 DEF Dechunk, Idle, ReaderFields
  <2>3. Joined(x, reader.msg, q, reader.bytes, k) /\ x \in Seq(Byte) /\ Len(x) = q + k
    <3>1. Joins(reader.msg, q, reader.bytes, k)
      BY <1>4, <1>5 DEF Joins, Flows, WireTypes, ReaderTypes
    <3> QED
      BY <2>1, <3>1, Join
  <2>4. c > 0 /\ k = c
    BY <1>9, <1>15, <1>18
  <2>5. DataChunk(T, P, I, O, a, sentMsgs)
    BY <1>13, <1>15, <2>4 DEF Chunk
  <2>6. /\ I[a] \in 1 .. N /\ q + c <= Len(sentMsgs[I[a]])
        /\ (\A j \in 1 .. c : T[p + 2 + j] = sentMsgs[I[a]][q + j])
        /\ I[a + 1] = I[a] /\ O[a + 1] = q + c
    BY <1>3, <1>8, <1>9, <1>15, <2>5 DEF DataChunk
  <2>7. \A i \in 1 .. q + c : x[i] = sentMsgs[I[a]][i]
    <3> TAKE i \in 1 .. q + c
    <3>1. CASE i <= q
      <4>1. i \in 1 .. q /\ q > 0
        BY <3>1
      <4>2. x[i] = reader.msg[i]
        BY <2>3, <4>1 DEF Joined
      <4> QED
        BY <1>9, <4>1, <4>2
    <3>2. CASE ~(i <= q)
      <4>1. PICK j \in Int : j = i - q
        OBVIOUS
      <4>2. j \in 1 .. k /\ j \in 1 .. c /\ q + j = i
        BY <2>4, <3>2, <4>1
      <4>3. x[q + j] = reader.bytes[j]
        BY <2>3, <4>2 DEF Joined
      <4>4. reader.bytes[j] = T[p + 2 + j]
        BY <1>10, <1>18, <4>2
      <4>5. T[p + 2 + j] = sentMsgs[I[a]][q + j]
        BY <2>6, <4>2
      <4> QED
        BY <4>2, <4>3, <4>4, <4>5
    <3> QED
      BY <3>1, <3>2
  <2>8. ReadTo(P, a + 1)' = ReadTo(P, a)
    <3>1. p + 2 + c + 0 = p + 2 + k
      BY <2>4
    <3> QED
      BY <1>10, <1>15, <1>16, <1>18, <2>2, <3>1 DEF ReadTo, From
  <2>9. Receives(T, P, I, O, a + 1, z)'
    <3>1. Window(T, From(P, a + 1), reader.bytes)'
      BY <1>16, <2>2 DEF Window
    <3>2. Len(reader'.bytes) + reader'.left = 2
      BY <1>16, <2>2
    <3>3. I[a + 1] = Len(gotMsgs') + 1 /\ O[a + 1] = Len(reader'.msg)
      BY <1>2, <1>9, <2>2, <2>3, <2>4, <2>6
    <3>4. I[a] <= N
      BY <2>6
    <3>5. /\ I[a + 1] <= Len(sentMsgs') /\ Len(reader'.msg) <= Len(sentMsgs'[I[a + 1]])
          /\ \A i \in 1 .. Len(reader'.msg) : reader'.msg[i] = sentMsgs'[I[a + 1]][i]
      BY <1>1, <1>3, <2>2, <2>3, <2>4, <2>6, <2>7, <3>4
    <3> QED
      BY <2>2, <3>1, <3>2, <3>3, <3>5 DEF Receives
  <2>10. Piped'
    BY <1>11, <1>14, <2>2, <2>8, <2>9
  <2>11. WireTypes'
    BY <1>1, <1>16, <1>17, <2>2, <2>3 DEF WireTypes, OutTypes, NetTypes, SockTypes, ReaderTypes, MsgTypes
  <2>12. BufferToken'
    BY <1>1, <1>16, <1>17, <2>2 DEF BufferToken
  <2> QED
    BY <1>1, <1>17, <2>2, <2>10, <2>11, <2>12 DEF Flows, Got
<1>19. ASSUME reader.part = "size"
       PROVE  reader.bytes[1] * Base + reader.bytes[2] = c
  <2>1. 1 \in 1 .. k /\ 2 \in 1 .. k
    BY <1>9, <1>19
  <2>2. reader.bytes[1] = T[p + 1] /\ reader.bytes[2] = T[p + 2]
    BY <1>10, <1>19, <2>1
  <2>3. T[p + 1] = c \div Base /\ T[p + 2] = c % Base
    BY <1>8, <1>13, <1>15 DEF Chunk, Digits
  <2>4. (c \div Base) * Base + (c % Base) = c
    BY SizeDigits
  <2> QED
    BY <2>2, <2>3, <2>4
<1>20. CASE reader.part = "size" /\ c # 0
  <2>1. /\ DOMAIN reader' = ReaderFields /\ reader'.part = "chunk" /\ reader'.left = c
        /\ reader'.bytes = << >> /\ reader'.msg = reader.msg /\ reader'.held = << >> /\ gotMsgs' = gotMsgs
    <3>1. reader' = [reader EXCEPT !.part = "chunk", !.left = c, !.bytes = << >>] /\ gotMsgs' = gotMsgs
      BY <1>19, <1>20 DEF Dechunk
    <3> QED
      BY <1>1, <3>1 DEF Flows, WireTypes, ReaderTypes, ReaderFields
  <2>2. ReadTo(P, a)' = ReadTo(P, a)
    <3>1. p + 2 + 0 = p + k
      BY <1>9, <1>20
    <3> QED
      BY <1>8, <1>10, <1>16, <1>20, <2>1, <3>1 DEF ReadTo, From
  <2>3. Receives(T, P, I, O, a, z)'
    <3>1. Window(T, From(P, a), reader.bytes)'
      BY <1>16, <2>1 DEF Window
    <3>2. 0 + c = c /\ c > 0
      BY <1>20
    <3>3. a < z /\ Size(P, a) > 0 /\ Len(reader'.bytes) + reader'.left = Size(P, a)
      BY <1>12, <1>15, <1>16, <2>1, <3>2
    <3> QED
      BY <1>1, <1>7, <2>1, <3>1, <3>3 DEF Receives
  <2>4. Piped'
    BY <1>7, <1>11, <2>1, <2>2, <2>3
  <2>5. WireTypes'
    BY <1>1, <1>16, <1>17, <2>1 DEF WireTypes, OutTypes, NetTypes, SockTypes, ReaderTypes, MsgTypes
  <2>6. BufferToken'
    BY <1>1, <1>16, <1>17, <2>1 DEF BufferToken
  <2> QED
    BY <1>1, <1>17, <2>1, <2>4, <2>5, <2>6 DEF Flows, Got
<1>21. CASE reader.part = "size" /\ c = 0
  <2>1. /\ reader' = Idle /\ gotMsgs' = IF reader.msg = << >> THEN gotMsgs ELSE Append(gotMsgs, reader.msg)
    BY <1>19, <1>21 DEF Dechunk
  <2>2. /\ DOMAIN reader' = ReaderFields /\ reader'.part = "size" /\ reader'.left = 2
        /\ reader'.bytes = << >> /\ reader'.msg = << >> /\ reader'.held = << >>
    BY <2>1 DEF Idle, ReaderFields
  <2>3. q = 0 <=> reader.msg = << >>
    <3>1. reader.msg \in Seq(Byte)
      BY <1>17 DEF WireTypes, ReaderTypes
    <3> QED
      BY <1>5, <1>16, <3>1, EmptySeq
  <2>4. NopChunk(I, O, a) \/ LastChunk(I, O, a, sentMsgs)
    BY <1>13, <1>15, <1>21 DEF Chunk
  <2>5. /\ gotMsgs' \in Seq(Message) /\ I[a + 1] = Len(gotMsgs') + 1 /\ O[a + 1] = 0 /\ Got'
    <3>1. CASE NopChunk(I, O, a)
      <4>1. gotMsgs' = gotMsgs /\ I[a + 1] = g + 1 /\ O[a + 1] = 0
        BY <1>9, <2>1, <2>3, <3>1 DEF NopChunk
      <4> QED
        BY <1>1, <1>2, <1>17, <4>1 DEF Got, WireTypes, MsgTypes
    <3>2. CASE LastChunk(I, O, a, sentMsgs)
      <4>1. /\ I[a] \in 1 .. N /\ q > 0 /\ q = Len(sentMsgs[I[a]])
            /\ I[a + 1] = I[a] + 1 /\ O[a + 1] = 0
        BY <1>3, <1>9, <3>2 DEF LastChunk
      <4>2. I[a] = g + 1 /\ I[a] <= N /\ \A i \in 1 .. q : reader.msg[i] = sentMsgs[I[a]][i]
        BY <1>9, <4>1
      <4>3. reader.msg = sentMsgs[I[a]]
        <5>1. sentMsgs[I[a]] \in Message
          BY <1>3, <1>17, <4>1, ElementOfSeq DEF WireTypes, MsgTypes
        <5>2. sentMsgs[I[a]] \in Seq(Byte) /\ reader.msg \in Seq(Byte)
          BY <1>17, <5>1 DEF Message, WireTypes, ReaderTypes
        <5> QED
          BY <1>5, <4>1, <4>2, <5>2, SeqEqual
      <4>11. reader.msg # << >>
        <5>1. q > 0
          BY <4>1
        <5>2. q # 0
          BY <5>1
        <5> QED
          BY <2>3, <5>2, Zenon
      <4>4. reader.msg \in Message
        BY <1>17, <4>11 DEF Message, WireTypes, ReaderTypes
      <4>5. gotMsgs' = Append(gotMsgs, reader.msg)
        BY <2>1, <4>11
      <4>6. /\ gotMsgs' \in Seq(Message) /\ Len(gotMsgs') = g + 1 /\ gotMsgs'[g + 1] = reader.msg
            /\ \A i \in 1 .. g : gotMsgs'[i] = gotMsgs[i]
        <5>1. gotMsgs \in Seq(Message)
          BY <1>17 DEF WireTypes, MsgTypes
        <5> QED
          BY <1>2, <4>4, <4>5, <5>1, AppendProperties
      <4>7. g + 1 <= N /\ I[a + 1] = (g + 1) + 1 /\ \A i \in 1 .. g + 1 : i \in 1 .. g \/ i = g + 1
        BY <4>1, <4>2
      <4>8. \A i \in 1 .. g : gotMsgs[i] = sentMsgs[i]
        BY <1>2, <1>17 DEF Got
      <4>9. \A i \in 1 .. g + 1 : gotMsgs'[i] = sentMsgs[i]
        BY <4>2, <4>3, <4>6, <4>7, <4>8
      <4>10. Got'
        BY <1>1, <1>3, <4>6, <4>7, <4>9 DEF Got
      <4> QED
        BY <4>1, <4>6, <4>7, <4>10
    <3> QED
      BY <2>4, <3>1, <3>2
  <2>6. ReadTo(P, a + 1)' = ReadTo(P, a)
    <3>1. p + 2 + c + 0 = p + k
      BY <1>9, <1>21
    <3> QED
      BY <1>10, <1>15, <1>16, <1>21, <2>2, <3>1 DEF ReadTo, From
  <2>7. Receives(T, P, I, O, a + 1, z)'
    <3>1. Window(T, From(P, a + 1), reader.bytes)'
      BY <1>16, <2>2 DEF Window
    <3>2. Len(reader'.bytes) + reader'.left = 2 /\ Len(reader'.msg) = 0 /\ ~(0 > 0)
      BY <1>16, <2>2
    <3> QED
      BY <2>2, <2>5, <3>1, <3>2 DEF Receives
  <2>8. Piped'
    BY <1>11, <1>14, <2>2, <2>6, <2>7
  <2>9. WireTypes'
    BY <1>1, <1>16, <1>17, <2>2, <2>5 DEF WireTypes, OutTypes, NetTypes, SockTypes, ReaderTypes, MsgTypes
  <2>10. BufferToken'
    BY <1>1, <1>16, <1>17, <2>2 DEF BufferToken
  <2> QED
    BY <2>5, <2>8, <2>9, <2>10 DEF Flows
<1> QED
  BY <1>17, <1>18, <1>19, <1>20, <1>21 DEF WireTypes, ReaderTypes

\* A reader that has failed stays so, and only messages to be sent are added.
LEMMA StoppedInv ==
  ASSUME Stopped, WireNext
  PROVE  Stopped'
<1>1. reader' = reader /\ gotMsgs' = gotMsgs
  BY DEF Stopped, WireNext, Sender, ReadAhead, Receiver, AppendMessage, StartSend, SendTurn, EndSend,
         WriteFails, TakeToken, ReadSocket, ReadSocketFails, HandOver, ReadAheadEnds, TakePending,
         CopyPending, Dechunk, ReadFails, ReadClosed, Nop, PeerCloses, CloseSocket, PeerFoundDead
<1>2. CASE AppendMessage
  <2>1. PICK h : h = Head(out.todo)
    OBVIOUS
  <2>2. /\ out.todo # << >> /\ DOMAIN out' = OutFields /\ out'.todo = Tail(out.todo)
        /\ sentMsgs' = Append(sentMsgs, h)
    BY <1>2, <2>1 DEF AppendMessage, Stopped, OutFields
  <2>3. out.todo \in Seq(Message) /\ sentMsgs \in Seq(Message) /\ gotMsgs \in Seq(Message)
    BY DEF Stopped, MsgTypes
  <2>4. h \in Message /\ out'.todo \in Seq(Message)
    BY <2>1, <2>2, <2>3, HeadTailProperties
  <2>5. /\ sentMsgs' \in Seq(Message) /\ Len(sentMsgs') = Len(sentMsgs) + 1
        /\ \A i \in 1 .. Len(sentMsgs) : sentMsgs'[i] = sentMsgs[i]
    BY <2>2, <2>3, <2>4, AppendProperties
  <2>6. PICK g \in Nat : g = Len(gotMsgs)
    BY <2>3, LenProperties
  <2>7. PICK N \in Nat : N = Len(sentMsgs)
    BY <2>3, LenProperties
  <2>8. g <= N /\ \A i \in 1 .. g : gotMsgs[i] = sentMsgs[i]
    BY <2>6, <2>7 DEF Stopped, Got
  <2>9. g <= N + 1 /\ \A i \in 1 .. g : i \in 1 .. N
    BY <2>8
  <2>10. Got'
    BY <1>1, <2>5, <2>6, <2>7, <2>8, <2>9 DEF Got
  <2> QED
    BY <1>1, <2>2, <2>3, <2>4, <2>5, <2>10 DEF Stopped, MsgTypes
<1>3. CASE ~AppendMessage
  <2>1. sentMsgs' = sentMsgs
    BY <1>3 DEF WireNext, Sender, ReadAhead, Receiver, StartSend, SendTurn, EndSend,
           WriteFails, TakeToken, ReadSocket, ReadSocketFails, HandOver, ReadAheadEnds, TakePending,
           CopyPending, Dechunk, ReadFails, ReadClosed, Nop, PeerCloses, CloseSocket, PeerFoundDead
  <2>2. DOMAIN out' = OutFields /\ out'.todo \in Seq(Message)
    <3>1. DOMAIN out = OutFields /\ out.todo \in Seq(Message)
      BY DEF Stopped
    <3>2. CASE StartSend \/ SendTurn
      BY <3>1, <3>2 DEF StartSend, SendTurn, OutFields
    <3>3. CASE EndSend
      BY <3>1, <3>3 DEF EndSend, NothingToSend, OutFields
    <3>4. CASE WriteFails
      <4>1. DOMAIN out' = OutFields /\ out'.todo = << >>
        BY <3>4 DEF WriteFails, NothingToSend, OutFields
      <4> QED
        BY <4>1, EmptySeq
    <3>5. CASE ReadAhead \/ Receiver \/ Nop \/ PeerCloses \/ CloseSocket \/ PeerFoundDead
      <4>1. out' = out
        BY <3>5 DEF ReadAhead, Receiver,
           TakeToken, ReadSocket, ReadSocketFails, HandOver, ReadAheadEnds, TakePending,
           CopyPending, Dechunk, ReadFails, ReadClosed, Nop, PeerCloses, CloseSocket, PeerFoundDead
      <4> QED
        BY <3>1, <4>1
    <3> QED
      BY <1>3, <3>2, <3>3, <3>4, <3>5 DEF WireNext, Sender
  <2> QED
    BY <1>1, <2>1, <2>2 DEF Stopped, Got, MsgTypes
<1> QED
  BY <1>2, <1>3

\* Before anything is sent.
LEMMA WireStarts == WireInit => Flows
<1> SUFFICES ASSUME WireInit PROVE Flows
  OBVIOUS
<1>1. PICK messages \in Conversations : WireStart(messages)
  BY DEF WireInit
<1>2. /\ DOMAIN out = OutFields /\ out.todo = messages /\ out.buf = << >> /\ out.sizes = << >>
      /\ out.start = 0 /\ out.end = 0 /\ ~out.sending /\ out.sending \in BOOLEAN
  BY <1>1 DEF WireStart, NothingToSend, OutFields
<1>3. DOMAIN network = NetFields /\ network.bytes = << >> /\ network.open \in BOOLEAN
  BY <1>1 DEF WireStart, NetFields
<1>4. /\ DOMAIN sock = SockFields /\ sock.pending = << >> /\ sock.wantRead = 1 /\ sock.buffer = EmptyBuffer
      /\ DOMAIN ahead = {"at", "slice"} /\ ahead.at = "wait" /\ ahead.slice = NoSlice
  BY <1>1 DEF WireStart, SockFields
<1>5. /\ DOMAIN reader = ReaderFields /\ reader.part = "size" /\ reader.left = 2 /\ reader.bytes = << >>
      /\ reader.msg = << >> /\ reader.held = << >> /\ sentMsgs = << >> /\ gotMsgs = << >>
  BY <1>1 DEF WireStart, Idle, ReaderFields
<1>6. 0 \in Byte
  BY SizesHaveTwoBytes DEF Byte
<1>7. messages \in Seq(Message)
  <2>1. messages \in Seq(Seq(Byte)) /\ \A i \in DOMAIN messages : messages[i] # << >>
    BY MessagesAreNotEmpty DEF Byte
  <2>2. PICK n \in Nat : messages \in [1 .. n -> Seq(Byte)]
    BY <2>1, SeqDef
  <2>3. messages \in [1 .. n -> Message]
    BY <2>1, <2>2 DEF Message
  <2> QED
    BY <2>3, SeqDef
<1>8. /\ << >> \in Seq(Byte) /\ << >> \in Seq(Count) /\ << >> \in Seq(Slices) /\ << >> \in Seq(Message)
      /\ Len(<< >>) = 0
  BY EmptySeq
<1>9. EmptyBuffer \in [1 .. BufferSize -> Byte] /\ NoSlice \in Slices
  BY <1>6, BufferIsNotEmpty DEF EmptyBuffer, NoSlice, Slices
<1>10. WireTypes
  BY <1>2, <1>3, <1>4, <1>5, <1>7, <1>8, <1>9
  DEF WireTypes, OutTypes, NetTypes, SockTypes, ReaderTypes, MsgTypes
<1>11. BufferToken
  BY <1>4, <1>5, <1>8 DEF BufferToken
<1>12. Got
  BY <1>5, <1>8 DEF Got
<1>13. PICK T \in [Nat -> Byte] : \A i \in Nat : T[i] = 0
  <2>1. [i \in Nat |-> 0] \in [Nat -> Byte]
    BY <1>6
  <2> QED
    BY <2>1
<1>14. PICK P \in [Nat -> Nat] : \A i \in Nat : P[i] = 0
  <2>1. [i \in Nat |-> 0] \in [Nat -> Nat]
    OBVIOUS
  <2> QED
    BY <2>1
<1>15. PICK I \in [Nat -> Nat] : \A i \in Nat : I[i] = 1
  <2>1. [i \in Nat |-> 1] \in [Nat -> Nat]
    OBVIOUS
  <2> QED
    BY <2>1
<1>16. Slice = NoSlice /\ Held = 0
  <2>1. Slice = NoSlice
    BY <1>4, <1>5 DEF Slice
  <2> QED
    BY <2>1 DEF Held, NoSlice
<1>17. From(P, 0) = 0 /\ ReadTo(P, 0) = 0
  BY <1>5, <1>8, <1>14 DEF ReadTo, From
<1>18. Chunks(T, P, I, P, 0, 0, sentMsgs)
  <2>1. 0 .. 0 - 1 = {} /\ (\A i \in 0 .. 0 : i = 0) /\ 0 <= 0 /\ P[0] = 0
    BY <1>14
  <2> QED
    BY <2>1 DEF Chunks
<1>19. Receives(T, P, I, P, 0, 0)
  <2>1. I[0] = 1 /\ P[0] = 0
    BY <1>14, <1>15
  <2> QED
    BY <1>5, <1>8, <2>1 DEF Receives, Window
<1>20. Travels(T, P, 0, 0)
  BY <1>3, <1>8, <1>14, <1>16 DEF Travels, Carries, Window
<1>21. Sends(T, P, I, P, 0, 0 + 0 + 0)
  <2>1. I[0] = 1 /\ P[0] = 0
    BY <1>14, <1>15
  <2>2. Unsent(T, P, 0, 0 + 0 + 0)
    BY <1>2, <1>8, <2>1 DEF Unsent
  <2>3. Upcoming(I, P, 0)
    BY <1>2, <1>5, <1>8, <2>1 DEF Upcoming
  <2> QED
    BY <2>2, <2>3 DEF Sends
<1>22. Buffered(P)
  <2>1. P[1] = 0 /\ P[0 + 1] = 0 /\ (\A i \in 1 .. 0 + 1 : P[i] = 0) /\ 1 .. 0 = {}
    BY <1>14
  <2> QED
    BY <1>2, <1>8, <2>1 DEF Buffered
<1>23. Pipe(T, P, I, P, 0, 0, P)
  BY <1>3, <1>8, <1>16, <1>17, <1>18, <1>19, <1>20, <1>21, <1>22 DEF Pipe
<1>24. Piped
  <2>1. 0 \in Nat
    OBVIOUS
  <2> QED
    BY <1>23, <2>1 DEF Piped
<1> QED
  BY <1>10, <1>11, <1>12, <1>24 DEF Flows

\* Every step of the chunker, the goroutine that reads ahead and the reader.
LEMMA WireStep == WireInv /\ [WireNext]_wireVars => WireInv'
<1> SUFFICES ASSUME WireInv, [WireNext]_wireVars PROVE WireInv'
  OBVIOUS
<1>1. CASE Stopped /\ WireNext
  BY <1>1, StoppedInv DEF WireInv
<1>2. CASE Stopped /\ UNCHANGED wireVars
  BY <1>2 DEF wireVars, WireInv, Stopped, Got, MsgTypes
<1>3. CASE Flows /\ UNCHANGED wireVars
  <2>1. /\ UNCHANGED <<out, network, sock, ahead, reader, sentMsgs, gotMsgs>>
    BY <1>3 DEF wireVars
  <2>2. Slice' = Slice
    BY <2>1 DEF Slice
  <2>3. Piped'
    BY <1>3, <2>1, <2>2, SamePipe DEF Flows
  <2> QED
    BY <1>3, <2>1, <2>3
    DEF WireInv, Flows, Got, BufferToken, WireTypes, OutTypes, NetTypes, SockTypes, ReaderTypes, MsgTypes
<1>4. CASE Flows /\ Sender
  BY <1>4, AppendMessageInv, StartSendInv, SendTurnInv, EndSendInv, WriteFailsInv DEF Sender, WireInv
<1>5. CASE Flows /\ ReadAhead
  BY <1>5, TakeTokenInv, ReadSocketInv, ReadSocketFailsInv, HandOverInv, ReadAheadEndsInv
  DEF ReadAhead, WireInv
<1>6. CASE Flows /\ Receiver
  BY <1>6, TakePendingInv, CopyPendingInv, DechunkInv, ReadFailsInv DEF Receiver, WireInv
<1>7. CASE Flows /\ (Nop \/ PeerCloses)
  BY <1>7, NopInv, PeerClosesInv DEF WireInv
<1>8. CASE Flows /\ (CloseSocket \/ PeerFoundDead)
  BY <1>8, SockDoneInv DEF CloseSocket, PeerFoundDead, WireInv
<1> QED
  BY <1>1, <1>2, <1>3, <1>4, <1>5, <1>6, <1>7, <1>8 DEF WireInv, WireNext

\* What arrives on a connection is what was sent, message by message and byte by byte, whatever
\* the messages, their sizes, the sizes of the reads and the order of the three threads.
THEOREM WireDelivers == WireSpec => []MessagesIntact
<1>1. WireInit => WireInv
  BY WireStarts DEF WireInv
<1>2. WireInv => MessagesIntact
  <2> SUFFICES ASSUME WireInv PROVE MessagesIntact
    OBVIOUS
  <2>1. Got /\ gotMsgs \in Seq(Message) /\ sentMsgs \in Seq(Message)
    BY DEF WireInv, Flows, Stopped, WireTypes, MsgTypes
  <2>2. PICK g \in Nat : g = Len(gotMsgs)
    BY <2>1, LenProperties
  <2>3. PICK N \in Nat : N = Len(sentMsgs)
    BY <2>1, LenProperties
  <2>4. g <= N /\ \A i \in 1 .. g : gotMsgs[i] = sentMsgs[i]
    BY <2>1, <2>2, <2>3 DEF Got
  <2>5. /\ 1 \in Int /\ g \in Int /\ (\A i \in 1 .. g : gotMsgs[i] \in Message)
        /\ \A i \in 1 .. g : sentMsgs[i] \in Message
    <3>1. \A i \in 1 .. g : gotMsgs[i] \in Message
      BY <2>1, <2>2, ElementOfSeq
    <3> QED
      BY <2>4, <3>1
  <2>6. PICK x : x = SubSeq(gotMsgs, 1, g)
    OBVIOUS
  <2>7. PICK y : y = SubSeq(sentMsgs, 1, g)
    OBVIOUS
  <2>8. /\ x \in Seq(Message) /\ Len(x) = (IF 1 <= g THEN g - 1 + 1 ELSE 0)
        /\ \A i \in 1 .. g - 1 + 1 : x[i] = gotMsgs[1 + i - 1]
    BY <2>5, <2>6, SubSeqProperties
  <2>9. /\ y \in Seq(Message) /\ Len(y) = (IF 1 <= g THEN g - 1 + 1 ELSE 0)
        /\ \A i \in 1 .. g - 1 + 1 : y[i] = sentMsgs[1 + i - 1]
    BY <2>5, <2>7, SubSeqProperties
  <2>10. (IF 1 <= g THEN g - 1 + 1 ELSE 0) = g /\ \A i \in 1 .. g : i \in 1 .. g - 1 + 1 /\ 1 + i - 1 = i
    OBVIOUS
  <2>11. Len(x) = g /\ Len(y) = g /\ \A i \in 1 .. g : x[i] = y[i]
    BY <2>4, <2>8, <2>9, <2>10
  <2>12. x = y
    BY <2>8, <2>9, <2>11, SeqEqual
  <2> QED
    BY <2>2, <2>3, <2>4, <2>6, <2>7, <2>12 DEF MessagesIntact, IsPrefix
<1> QED
  BY <1>1, <1>2, WireStep, PTL DEF WireSpec
=============================================================================
