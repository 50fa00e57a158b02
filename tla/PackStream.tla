----------------------------- MODULE PackStream -----------------------------
(***************************************************************************)
(* Packer and Unpacker. A buffer is a sequence of bytes, except that the   *)
(* characters of a string are any values: a name of the protocol is a      *)
(* string of one character. Integers beyond 32 bits and floats are given   *)
(* by their 8 bytes. An Unpacker is a record that every read hands on.     *)
(***************************************************************************)
EXTENDS Integers, Sequences

(* The big-endian bytes of n in w bytes, two's complement for a negative n *)
BigEndian(n, w) == [i \in 1 .. w |-> (n \div 256 ^ (w - i)) % 256]

-----------------------------------------------------------------------------
(* Packer *)

StructHeader(tag, num) == <<176 + num, tag>>

PackInt64(i) ==
    CASE i \in -16 .. 127 -> <<i % 256>>
      [] i \in -128 .. -17 -> <<200, i % 256>>
      [] i \in (-32768 .. -129) \cup (128 .. 32767) -> <<201>> \o BigEndian(i, 2)
      [] OTHER -> <<202>> \o BigEndian(i, 4)

PackWide(bytes) == <<203>> \o bytes
PackFloat64(bytes) == <<193>> \o bytes

listHeader(l, short, long) ==
    CASE l < 16 -> <<short + l>>
      [] l \in 16 .. 255 -> <<long, l>>
      [] l \in 256 .. 65535 -> <<long + 1>> \o BigEndian(l, 2)
      [] OTHER -> <<long + 2>> \o BigEndian(l, 4)

PackString(s) == listHeader(Len(s), 128, 208) \o s
ArrayHeader(l) == listHeader(l, 144, 212)
MapHeader(l) == listHeader(l, 160, 216)

bytesHeader(l) ==
    CASE l < 256 -> <<204, l>>
      [] l \in 256 .. 65535 -> <<205>> \o BigEndian(l, 2)
      [] OTHER -> <<206>> \o BigEndian(l, 4)

PackBytes(b) == bytesHeader(Len(b)) \o b
PackBool(b) == IF b THEN <<195>> ELSE <<194>>
PackNil == <<192>>
PackUUID(bytes) == <<224>> \o bytes

(* The six vectors: a marker of the element type, then the elements end to end *)
VectorMarker == [float64 |-> 193, float32 |-> 198, int8 |-> 200, int16 |-> 201, int32 |-> 202,
                 int64 |-> 203]
ElementSize == [float64 |-> 8, float32 |-> 4, int8 |-> 1, int16 |-> 2, int32 |-> 4, int64 |-> 8]
PackVector(type, bytes) == StructHeader(86, 2) \o PackBytes(<<VectorMarker[type]>>) \o PackBytes(bytes)

-----------------------------------------------------------------------------
(* Unpacker *)

Reset(buf) == [buf |-> buf, off |-> 0, typ |-> "Undef", short |-> 0, lenbytes |-> 0, err |-> FALSE]
Ret(v, u) == [v |-> v, u |-> u]
SetErr(u) == [u EXCEPT !.err = TRUE]

(* The table of markers *)
Mark(typ, short, lenbytes) == [typ |-> typ, short |-> short, lenbytes |-> lenbytes]
Sized == [i \in {200, 201, 202, 203, 204, 205, 206, 208, 209, 210, 212, 213, 214, 216, 217, 218} |->
             2 ^ (i % 4)]
Marker(b) ==
    CASE b < 128 -> Mark("Int", b, 0)
      [] b \in 128 .. 143 -> Mark("Str", b - 128, 0)
      [] b \in 144 .. 159 -> Mark("Array", b - 144, 0)
      [] b \in 160 .. 175 -> Mark("Map", b - 160, 0)
      [] b \in 176 .. 191 -> Mark("Struct", b - 176, 0)
      [] b = 192 -> Mark("Nil", 0, 0)
      [] b = 193 -> Mark("Float", 0, 8)
      [] b = 194 -> Mark("False", 0, 0)
      [] b = 195 -> Mark("True", 0, 0)
      [] b \in 200 .. 203 -> Mark("Int", 0, Sized[b])
      [] b \in 204 .. 206 -> Mark("ByteArray", 0, Sized[b])
      [] b \in 208 .. 210 -> Mark("Str", 0, Sized[b])
      [] b \in 212 .. 214 -> Mark("Array", 0, Sized[b])
      [] b \in 216 .. 218 -> Mark("Map", 0, Sized[b])
      [] b = 224 -> Mark("UUID", 0, 0)
      [] b \in 240 .. 255 -> Mark("Int", b - 256, 0)
      [] OTHER -> Mark("Undef", 0, 0)

(* pop and read: past the end there is an error, and a zero or nothing *)
Pop(u) ==
    IF u.off < Len(u.buf) THEN Ret(u.buf[u.off + 1], [u EXCEPT !.off = @ + 1]) ELSE Ret(0, SetErr(u))
Beyond(u, n) == n > Len(u.buf) - u.off
ReadBytes(u, n) ==
    IF Beyond(u, n) THEN Ret(<< >>, SetErr(u))
    ELSE Ret(SubSeq(u.buf, u.off + 1, u.off + n), [u EXCEPT !.off = @ + n])

Marked(u, m) == [u EXCEPT !.typ = m.typ, !.short = m.short, !.lenbytes = m.lenbytes]
NextMarker(u) == LET p == Pop(u) IN Marked(p.u, Marker(p.v))

Unsigned(bytes) ==
    CASE Len(bytes) = 1 -> bytes[1]
      [] Len(bytes) = 2 -> bytes[1] * 256 + bytes[2]
      [] OTHER -> ((bytes[1] * 256 + bytes[2]) * 256 + bytes[3]) * 256 + bytes[4]
Signed(bytes) ==
    LET high == IF bytes[1] < 128 THEN bytes[1] ELSE bytes[1] - 256 IN Unsigned([bytes EXCEPT ![1] = high])

readlen(u) ==
    IF Beyond(u, u.lenbytes) THEN Ret(0, SetErr(u))
    ELSE LET r == ReadBytes(u, u.lenbytes) IN Ret(Unsigned(r.v), r.u)
Typed(t, r) == Ret([t |-> t, v |-> r.v], r.u)
UnpackLen(u) == IF u.lenbytes = 0 THEN Ret(u.short, u) ELSE readlen(u)
Counted(n) == ReadBytes(n.u, n.v)

(* An integer of 8 bytes stays as its bytes *)
AsInt(r) == IF Len(r.v) = 8 THEN Typed("wide", r) ELSE Ret([t |-> "int", v |-> Signed(r.v)], r.u)
UnpackInt(u) ==
    IF u.lenbytes = 0 THEN Ret([t |-> "int", v |-> u.short], u)
    ELSE IF Beyond(u, u.lenbytes) THEN Ret([t |-> "int", v |-> 0], SetErr(u))
    ELSE AsInt(ReadBytes(u, u.lenbytes))

UnpackFloat(u) == Typed("float", ReadBytes(u, 8))
(* Mutant: a string may end early *)
CountedShort(n) == ReadBytes(n.u, IF Beyond(n.u, n.v) THEN Len(n.u.buf) - n.u.off ELSE n.v)
UnpackString(u) == Typed("str", Counted(UnpackLen(u)))
UnpackBool(u) ==
    IF u.typ \in {"True", "False"} THEN Ret([t |-> "bool", v |-> u.typ = "True"], u)
    ELSE Ret([t |-> "bool", v |-> FALSE], SetErr(u))
ByteArray(u) == Typed("bytes", Counted(UnpackLen(u)))
UnpackUUID(u) == Typed("uuid", ReadBytes(u, 16))
=============================================================================
