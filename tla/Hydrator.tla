------------------------------ MODULE Hydrator ------------------------------
(***************************************************************************)
(* hydrator.go and path.go: from the bytes of a response to values. h is   *)
(* the configuration: boltMajor, useUtc, supportsUuid. A map is a sequence *)
(* of pairs, the last of a key counts.                                     *)
(***************************************************************************)
EXTENDS Outgoing, TLC

Local == FixedZone(<<"Local">>, 1)     \* time.Local of the host
Nil == [t |-> "nil", v |-> 0]
NoPlan == << >>

(* The unpacker with the hydrator's own error *)
Start(buf, h) == Reset(buf) @@ [herr |-> FALSE, h |-> h]
HSetErr(u) == [u EXCEPT !.herr = TRUE]
HasErr(u) == u.err \/ u.herr

-----------------------------------------------------------------------------
(* Structs: the length that is asserted, if any, and how each field is read *)

NotAsserted == 16
Layout(name, len, fields) == [name |-> name, len |-> len, fields |-> fields]
Unknown == Layout("unknown", NotAsserted, << >>)

StructLayout(tag, h) ==
    LET elementId == h.boltMajor >= 5
    IN  CASE tag = 78 /\ ~elementId -> Layout("node", 3, <<"int", "strings", "amap">>)
          [] tag = 78 /\ elementId -> Layout("node", 4, <<"int", "strings", "amap", "string">>)
          [] tag = 82 /\ ~elementId -> Layout("relationship", 5, <<"int", "int", "int", "string", "amap">>)
          [] tag = 82 /\ elementId -> Layout("relationship", 8, <<"int", "int", "int", "string", "amap",
                                                                 "string", "string", "string">>)
          [] tag = 114 /\ ~elementId -> Layout("relnode", 3, <<"int", "string", "amap">>)
          [] tag = 114 /\ elementId -> Layout("relnode", 4, <<"int", "string", "amap", "string">>)
          [] tag = 80 -> Layout("path", 3, <<"nodes", "relnodes", "ints">>)
          [] tag = 88 -> Layout("point2d", NotAsserted, <<"int", "float", "float">>)
          [] tag = 89 -> Layout("point3d", NotAsserted, <<"int", "float", "float", "float">>)
          [] tag = 86 -> Layout("vector", 2, <<"bytes", "bytes">>)
          [] tag = 70 /\ ~h.useUtc -> Layout("dateTimeOffset", NotAsserted, <<"int", "int", "int">>)
          [] tag = 73 /\ h.useUtc -> Layout("utcDateTimeOffset", NotAsserted, <<"int", "int", "int">>)
          [] tag = 102 /\ ~h.useUtc -> Layout("dateTimeNamedZone", NotAsserted, <<"int", "int", "string">>)
          [] tag = 105 /\ h.useUtc -> Layout("utcDateTimeNamedZone", NotAsserted, <<"int", "int", "string">>)
          [] tag = 100 -> Layout("localDateTime", NotAsserted, <<"int", "int">>)
          [] tag = 68 -> Layout("date", NotAsserted, <<"int">>)
          [] tag = 84 -> Layout("timeOfDay", NotAsserted, <<"int", "int">>)
          [] tag = 116 -> Layout("localTime", NotAsserted, <<"int">>)
          [] tag = 69 -> Layout("duration", NotAsserted, <<"int", "int", "int", "int">>)
          [] tag = 63 -> Layout("unsupported", 4, <<"string", "int", "int", "amap">>)
          [] OTHER -> Unknown

(* time.Date: the instant of a wall clock reading in a location. The offset is looked
   up as if the reading were UTC, and again if that leads out of its period. *)
Period(unix) == CASE unix < SummerStarts -> 0 [] unix \in SummerStarts .. SummerEnds - 1 -> 1
                  [] OTHER -> 2
TimeDate(wall, loc) ==
    LET first == Offset(loc, wall)
        offset == IF first # 0 /\ Period(wall - first) # Period(wall) THEN Offset(loc, wall - first)
                  ELSE first
    IN  wall - offset
Instant(unix, nanos, zone) == [unix |-> unix, nanos |-> nanos, zone |-> zone]

(* A named zone that cannot be loaded gives an InvalidValue *)
InZone(id, time) == IF id \in Zones THEN [t |-> "time", v |-> time] ELSE [t |-> "invalid", v |-> id]

(* buildPath: the relationships of a path get the ids of their nodes. An index is 1
   more than the place of a relationship, negative against its direction. *)
buildPath(nodes, rels, ix) ==
    LET place(k) == IF k = 0 THEN 1 ELSE ix[2 * k].v + 1
        step(k) == LET r == ix[2 * k - 1].v
                       rel == rels[IF r < 0 THEN -r ELSE r].v
                       here == nodes[place(k - 1)].v
                       there == nodes[place(k)].v
                       from == IF r < 0 THEN there ELSE here
                       to == IF r < 0 THEN here ELSE there
                   IN  [id |-> rel.id, type |-> rel.type, props |-> rel.props,
                        elementId |-> rel.elementId, start |-> from.id, end |-> to.id,
                        startElementId |-> from.elementId, endElementId |-> to.elementId]
    IN  [t |-> "path", v |-> [nodes |-> nodes, rels |-> [k \in 1 .. Len(ix) \div 2 |-> step(k)]]]

(* What makes a struct with these fields illegal *)
IllFormedPath(f) ==
    \/ \E i \in 1 .. Len(f[1]) : f[1][i].t # "node"
    \/ \E i \in 1 .. Len(f[2]) : f[2][i].t # "relnode"
    \/ Len(f[3]) % 2 = 1
IllFormedVector(f) ==
    \/ f[1].t # "bytes" \/ f[2].t # "bytes" \/ Len(f[1].v) # 1
    \/ ~\E type \in DOMAIN VectorMarker :
           VectorMarker[type] = f[1].v[1] /\ Len(f[2].v) % ElementSize[type] = 0
IllFormed(name, f) ==
    \/ name = "unknown"
    \/ name = "path" /\ IllFormedPath(f)
    \/ name = "vector" /\ IllFormedVector(f)

(* The values of structs. Servers before 5.0 have no element ids: the id in decimal *)
ElementId(f, i, own) == IF Len(f) >= i THEN f[i] ELSE AString(<<ToString(own.v)>>)
entity(name, f) ==
    CASE name = "node" -> [id |-> f[1], labels |-> f[2], props |-> f[3], elementId |-> ElementId(f, 4, f[1])]
      [] name = "relnode" -> [id |-> f[1], type |-> f[2], props |-> f[3], elementId |-> ElementId(f, 4, f[1])]
      [] name = "relationship" ->
             [id |-> f[1], start |-> f[2], end |-> f[3], type |-> f[4], props |-> f[5],
              elementId |-> ElementId(f, 6, f[1]), startElementId |-> ElementId(f, 7, f[2]),
              endElementId |-> ElementId(f, 8, f[3])]

point(f) == [srid |-> f[1].v, x |-> f[2].v, y |-> f[3].v] @@ (IF Len(f) = 4 THEN [z |-> f[4].v] ELSE << >>)

dateTime(name, f) ==
    LET offset == FixedZone(<<"Offset">>, f[3].v)
        zone == NamedZone(f[3].v)
    IN  CASE name = "dateTimeOffset" ->
                 [t |-> "time", v |-> Instant(TimeDate(f[1].v, offset), f[2].v, offset)]
          [] name = "utcDateTimeOffset" -> [t |-> "time", v |-> Instant(f[1].v, f[2].v, offset)]
          [] name = "dateTimeNamedZone" -> InZone(f[3].v, Instant(TimeDate(f[1].v, zone), f[2].v, zone))
          [] name = "utcDateTimeNamedZone" -> InZone(f[3].v, Instant(f[1].v, f[2].v, zone))

SecsAndNanos(nans) == [secs |-> nans \div NanosPerSecond, nanos |-> nans % NanosPerSecond]
localOrDuration(name, f) ==
    CASE name = "localDateTime" -> Instant(TimeDate(f[1].v, Local), f[2].v, Local)
      [] name = "date" -> Instant(f[1].v * Day, 0, NamedZone(<<"UTC">>))
      [] name = "timeOfDay" -> SecsAndNanos(f[1].v) @@ [offset |-> f[2].v]
      [] name = "localTime" -> SecsAndNanos(f[1].v)
      [] name = "duration" -> [months |-> f[1].v, days |-> f[2].v, seconds |-> f[3].v, nanos |-> f[4].v]

vector(f) == [type |-> CHOOSE type \in DOMAIN VectorMarker : VectorMarker[type] = f[1].v[1],
              bytes |-> f[2].v]

unsupportedType(f) == [name |-> f[1], major |-> f[2], minor |-> f[3], extra |-> f[4]]

Built(name, f) ==
    CASE name = "path" -> buildPath(f[1], f[2], f[3])
      [] name \in {"dateTimeOffset", "utcDateTimeOffset", "dateTimeNamedZone", "utcDateTimeNamedZone"} ->
             dateTime(name, f)
      [] OTHER -> [t |-> name,
                   v |-> CASE name \in {"node", "relationship", "relnode"} -> entity(name, f)
                           [] name \in {"point2d", "point3d"} -> point(f)
                           [] name = "vector" -> vector(f)
                           [] name = "unsupported" -> unsupportedType(f)
                           [] OTHER -> localOrDuration(name, f)]
=============================================================================
