------------------------------ MODULE Outgoing ------------------------------
(***************************************************************************)
(* What the driver writes: the requests of outgoing.go, and the values     *)
(* that a user may pass. A value is a record of its kind t and content v.  *)
(* Time is counted in hours, a day has 24; a second has NanosPerSecond.    *)
(* The one named zone with a history is Paris: an hour ahead of UTC, two   *)
(* between the instants SummerStarts and SummerEnds.                       *)
(***************************************************************************)
EXTENDS PackStream, SequencesExt

Day == 24
NanosPerSecond == 1000     \* bound: 10^9
SummerStarts == 100
SummerEnds == 200

(* time.Location: a named zone, or a fixed offset under another name *)
Zones == {<<"Paris">>, <<"UTC">>}
ZoneStart(id, unix) == IF id = <<"UTC">> THEN 0
                       ELSE CASE unix < SummerStarts -> 1
                              [] unix \in SummerStarts .. SummerEnds - 1 -> 2
                              [] OTHER -> 1
Offset(loc, unix) == IF loc.id \in Zones /\ ~loc.isFixed THEN ZoneStart(loc.id, unix) ELSE loc.fixed
NamedZone(id) == [id |-> id, isFixed |-> FALSE, fixed |-> 0]
FixedZone(id, offset) == [id |-> id, isFixed |-> TRUE, fixed |-> offset]

(* timezone.ID: the name is sent only if it loads and means the same offset *)
HasID(t) == t.zone.id \in Zones /\ ZoneStart(t.zone.id, t.unix) = Offset(t.zone, t.unix)
Wall(t) == t.unix + Offset(t.zone, t.unix)

packDateTime(t, useUtc) ==
    LET offset == Offset(t.zone, t.unix)
        secs == PackInt64(IF useUtc THEN t.unix ELSE t.unix + offset)
        zone == IF HasID(t) THEN PackString(t.zone.id) ELSE PackInt64(offset)
        tag == CASE useUtc /\ HasID(t) -> 105 [] useUtc /\ ~HasID(t) -> 73
                 [] ~useUtc /\ HasID(t) -> 102 [] OTHER -> 70
    IN  StructHeader(tag, 3) \o secs \o PackInt64(t.nanos) \o zone

(* Mutant: the quotient of a negative number is not rounded down *)
DaysTruncated(secs) == IF secs < 0 THEN -((-secs) \div Day) ELSE secs \div Day
(* The quotient of Go, and one less for a date before 1970 with a time of day *)
DaysOf(secs) ==
    LET days == IF secs < 0 THEN -((-secs) \div Day) ELSE secs \div Day
    IN  IF secs - days * Day < 0 THEN days - 1 ELSE days

packStruct(x, h) ==
    CASE x.t = "point2d" -> StructHeader(88, 3) \o PackInt64(x.v.srid) \o PackFloat64(x.v.x)
                            \o PackFloat64(x.v.y)
      [] x.t = "point3d" -> StructHeader(89, 4) \o PackInt64(x.v.srid) \o PackFloat64(x.v.x)
                            \o PackFloat64(x.v.y) \o PackFloat64(x.v.z)
      [] x.t = "time" -> packDateTime(x.v, h.useUtc)
      [] x.t = "localDateTime" -> StructHeader(100, 2) \o PackInt64(Wall(x.v)) \o PackInt64(x.v.nanos)
      [] x.t = "date" -> StructHeader(68, 1) \o PackInt64(DaysOf(Wall(x.v)))
      [] x.t = "timeOfDay" -> StructHeader(84, 2)
                              \o PackInt64(x.v.secs * NanosPerSecond + x.v.nanos) \o PackInt64(x.v.offset)
      [] x.t = "localTime" -> StructHeader(116, 1) \o PackInt64(x.v.secs * NanosPerSecond + x.v.nanos)
      [] x.t = "duration" -> StructHeader(69, 4) \o PackInt64(x.v.months) \o PackInt64(x.v.days)
                             \o PackInt64(x.v.seconds) \o PackInt64(x.v.nanos)
      [] x.t = "vector" -> PackVector(x.v.type, x.v.bytes)

Structs == {"point2d", "point3d", "time", "localDateTime", "date", "timeOfDay", "localTime",
            "duration", "vector"}

(* packStruct of a pointer knows points and vectors; any other struct is sent as the
   map of its exported fields (StructAsMap): a Duration has four, a time.Time and the
   types made of it have none *)
PointerCases == {"point2d", "point3d", "vector"}
ExportedFields(x) ==
    IF x.t = "duration"
    THEN <<<<<<"Months">>, [t |-> "int", v |-> x.v.months]>>, <<<<"Days">>, [t |-> "int", v |-> x.v.days]>>,
           <<<<"Seconds">>, [t |-> "int", v |-> x.v.seconds]>>, <<<<"Nanos">>, [t |-> "int", v |-> x.v.nanos]>>>>
    ELSE << >>
Pointee(x) == IF x.t \in Structs \ PointerCases THEN [t |-> "map", v |-> ExportedFields(x)] ELSE x

(* packX and packV: a value by its kind. The shortcuts for slices and maps of one
   type write the same bytes. "raw" is a struct as the server writes it. *)
RECURSIVE packX(_, _)
packAll(xs, h) == FlattenSeq([i \in 1 .. Len(xs) |-> packX(xs[i], h)])
packPairs(ps, h) == FlattenSeq([i \in 1 .. Len(ps) |-> PackString(ps[i][1]) \o packX(ps[i][2], h)])
packX(x, h) ==
    CASE x.t \in {"nil", "nilptr"} -> PackNil
      [] x.t = "bool" -> PackBool(x.v)
      [] x.t = "int" -> PackInt64(x.v)
      [] x.t = "wide" -> PackWide(x.v)
      [] x.t = "float" -> PackFloat64(x.v)
      [] x.t = "str" -> PackString(x.v)
      [] x.t = "bytes" -> PackBytes(x.v)
      [] x.t = "uuid" -> PackUUID(x.v)
      [] x.t = "ptr" -> packX(Pointee(x.v), h)
      [] x.t = "list" -> ArrayHeader(Len(x.v)) \o packAll(x.v, h)
      [] x.t \in {"map", "struct"} -> MapHeader(Len(x.v)) \o packPairs(x.v, h)
      [] x.t = "raw" -> StructHeader(x.v.tag, Len(x.v.fields)) \o packAll(x.v.fields, h)
      [] x.t \in Structs -> packStruct(x, h)

(* The values that onPackErr is told of: an integer beyond int64, a type that has no
   counterpart, a map whose keys are no strings, an array that is no UUID, and a UUID
   for a server before 6.1 *)
Unpackable(x) == x.t \in {"uint64 overflow", "chan", "map of ints"}
UnpackableArray(x, h) == x.t = "array" \/ (x.t = "uuid" /\ ~h.supportsUuid)
RECURSIVE PackFails(_, _)
PackFails(x, h) ==
    \/ Unpackable(x) \/ UnpackableArray(x, h)
    \/ x.t = "ptr" /\ PackFails(x.v, h)
    \/ x.t = "list" /\ \E i \in 1 .. Len(x.v) : PackFails(x.v[i], h)
    \/ x.t \in {"map", "struct"} /\ \E i \in 1 .. Len(x.v) : PackFails(x.v[i][2], h)

-----------------------------------------------------------------------------
(* The requests: a tag and fields *)

Request(tag, fields, h) ==
    StructHeader(tag, Len(fields)) \o packAll(fields, h)

AString(s) == [t |-> "str", v |-> s]
AnInt(i) == [t |-> "int", v |-> i]
AMap(pairs) == [t |-> "map", v |-> pairs]
Strings(ss) == [t |-> "list", v |-> [i \in 1 .. Len(ss) |-> AString(ss[i])]]
DefaultDatabase == << >>

appendHello(hello, h) == Request(1, <<AMap(hello)>>, h)
appendLogoff(h) == Request(107, << >>, h)
appendLogon(logon, h) == Request(106, <<AMap(logon)>>, h)
appendBegin(meta, h) == Request(17, <<AMap(meta)>>, h)
appendCommit(h) == Request(18, << >>, h)
appendRollback(h) == Request(19, << >>, h)
appendRun(cypher, params, meta, h) == Request(16, <<AString(cypher), AMap(params), AMap(meta)>>, h)
appendPullAll(h) == Request(63, << >>, h)
appendReset(h) == Request(15, << >>, h)
appendGoodbye(h) == Request(2, << >>, h)
appendTelemetry(api, h) == Request(84, <<AnInt(api)>>, h)

(* PULL and DISCARD, for the last query or for the one of a qid *)
Amount(n, qid) == IF qid < 0 THEN << <<<<"n">>, AnInt(n)>> >>
                  ELSE << <<<<"n">>, AnInt(n)>>, <<<<"qid">>, AnInt(qid)>> >>
appendPullN(n, qid, h) == Request(63, <<AMap(Amount(n, qid))>>, h)
appendDiscardN(n, qid, h) == Request(47, <<AMap(Amount(n, qid))>>, h)

appendRouteToV43(context, bookmarks, database, h) ==
    Request(102, <<AMap(context), Strings(bookmarks),
                   IF database = DefaultDatabase THEN [t |-> "nil", v |-> 0] ELSE AString(database)>>, h)
appendRoute(context, bookmarks, what, h) ==
    Request(102, <<AMap(context), Strings(bookmarks), AMap(what)>>, h)
=============================================================================
