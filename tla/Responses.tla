------------------------------ MODULE Responses ------------------------------
(***************************************************************************)
(* hydrate: SUCCESS, FAILURE, IGNORED and RECORD, and the metadata in them.*)
(* A reader is named by the kind of what it reads; the keys of a map that  *)
(* a table does not list are read as values and dropped.                   *)
(***************************************************************************)
EXTENDS Hydrator

Tables == [
    success |-> [fields |-> "strings", t_first |-> "int", qid |-> "int", bookmark |-> "string",
                 connection_id |-> "string", server |-> "string", has_more |-> "bool",
                 t_last |-> "int", type |-> "qtype", db |-> "string", stats |-> "stats",
                 plan |-> "amap", profile |-> "amap", notifications |-> "array",
                 statuses |-> "array", rt |-> "rt", hints |-> "amap", patch_bolt |-> "strings"],
    failure |-> [gql_status |-> "string", description |-> "string", neo4j_code |-> "string",
                 code |-> "string", message |-> "string", diagnostic_record |-> "amap",
                 cause |-> "failure"],
    rt |-> [ttl |-> "int", servers |-> "servers", db |-> "string"],
    role |-> [role |-> "string", addresses |-> "strings"],
    any |-> << >> ]

(* A counter is an integer but for two flags *)
StatFlags == {"contains-system-updates", "contains-updates"}

KeyReader(table, key) ==
    CASE table = "stats" -> IF Len(key) = 1 /\ key[1] \in StatFlags THEN "bool" ELSE "int"
      [] table # "stats" /\ Len(key) = 1 /\ key[1] \in DOMAIN Tables[table] -> Tables[table][key[1]]
      [] OTHER -> "value"

(* A type that is none of the four is an error *)
queryType(r) == IF r.v.v \in {<<"r">>, <<"w">>, <<"rw">>, <<"s">>} THEN r ELSE Ret(r.v, HSetErr(r.u))

RECURSIVE Read(_, _), Many(_, _), Fields(_, _)

Keys == {"any", "role", "stats", "rt", "success", "failure"}

(* One item after its marker: of a table a key and what is read for it, else a value *)
Pair(key, r) == Ret(<<key, r.v>>, r.u)
Keyed(table, k) == Pair(k.v.v, Read(KeyReader(table, k.v.v), NextMarker(k.u)))
Item(kind, u) == IF kind \in Keys THEN Keyed(kind, UnpackString(u)) ELSE Read(kind, u)

(* As many in a row as n says *)
Prefixed(v, rest) == Ret(<<v>> \o rest.v, rest.u)
Many(kind, n) ==
    IF n.v = 0 THEN Ret(<< >>, n.u)
    ELSE LET r == Item(kind, NextMarker(n.u)) IN Prefixed(r.v, Many(kind, Ret(n.v - 1, r.u)))
Items(kind, u) == Many(kind, UnpackLen(u))

Fields(kinds, u) ==
    IF kinds = << >> THEN Ret(<< >>, u)
    ELSE LET r == Read(Head(kinds), NextMarker(u)) IN Prefixed(r.v, Fields(Tail(kinds), r.u))

StructOf(layout, short, tag) ==
    IF layout.len # NotAsserted /\ (short # layout.len \/ HasErr(tag.u))
    THEN Ret(Nil, IF short # layout.len THEN HSetErr(tag.u) ELSE tag.u)
    ELSE LET f == Fields(layout.fields, tag.u)
         IN  IF IllFormed(layout.name, f.v) THEN Ret(Nil, HSetErr(f.u))
             ELSE Ret(Built(layout.name, f.v), f.u)
readStruct(u) == LET tag == Pop(u) IN StructOf(StructLayout(tag.v, u.h), u.short, tag)

(* What stands in the place of a value, by its marker *)
value(u) ==
    CASE u.typ = "Int" -> "int"
      [] u.typ = "Float" -> "float"
      [] u.typ = "Str" -> "string"
      [] u.typ = "Struct" -> "struct"
      [] u.typ = "ByteArray" -> "bytes"
      [] u.typ = "UUID" /\ u.h.supportsUuid -> "uuid"
      [] u.typ = "Array" -> "array"
      [] u.typ = "Map" -> "amap"
      [] u.typ = "Nil" -> "nil"
      [] u.typ \in {"True", "False"} -> "bool"
      [] OTHER -> "illegal"

(* The items of lists and maps; those that are values themselves get a type *)
ItemKind == [nodes |-> "value", relnodes |-> "value", ints |-> "int", servers |-> "server",
             strings |-> "string", array |-> "value", amap |-> "any", server |-> "role",
             stats |-> "stats", rt |-> "rt", success |-> "success", failure |-> "failure"]
Wrapped(kind, r) ==
    CASE kind \in {"strings", "array"} -> Typed("list", r)
      [] kind = "amap" -> Typed("map", r)
      [] OTHER -> r

Read(reader, u) ==
    LET kind == IF reader = "value" THEN value(u) ELSE reader
    IN  CASE kind = "int" -> UnpackInt(u)
          [] kind = "float" -> UnpackFloat(u)
          [] kind = "string" -> UnpackString(u)
          [] kind = "bool" -> UnpackBool(u)
          [] kind = "bytes" -> IF u.typ = "ByteArray" THEN ByteArray(u) ELSE Ret(Nil, u)
          [] kind = "uuid" -> UnpackUUID(u)
          [] kind = "nil" -> Ret(Nil, u)
          [] kind = "illegal" -> Ret(Nil, HSetErr(u))
          [] kind = "struct" -> readStruct(u)
          [] kind = "qtype" -> queryType(UnpackString(u))
          [] kind \in DOMAIN ItemKind -> Wrapped(kind, Items(ItemKind[kind], u))

-----------------------------------------------------------------------------
(* Maps, and type assertions that fall back to a zero value *)

Places(m, k) == {i \in 1 .. Len(m) : m[i][1] = <<k>>}
Get(m, k, default) ==
    IF Places(m, k) = {} THEN default ELSE m[CHOOSE i \in Places(m, k) : \A j \in Places(m, k) : j <= i][2]
As(m, k, type, default) == LET x == Get(m, k, Nil) IN IF x.t = type THEN x.v ELSE default
Empty == << >>

parsePlanOpIdArgsChildren(m) ==
    [operator |-> As(m, "operatorType", "str", Empty),
     identifiers |-> LET ids == As(m, "identifiers", "list", Empty)
                     IN  [i \in 1 .. Len(ids) |-> IF ids[i].t = "str" THEN ids[i].v ELSE Empty],
     arguments |-> As(m, "args", "map", Empty)]

(* Children that are no maps, or empty, are left out *)
ChildMaps(m) == SelectSeq(As(m, "children", "list", Empty), LAMBDA c : c.t = "map" /\ c.v # Empty)

RECURSIVE parsePlan(_), parseProfile(_)
parsePlan(m) ==
    parsePlanOpIdArgsChildren(m) @@
    [children |-> [i \in 1 .. Len(ChildMaps(m)) |-> parsePlan(ChildMaps(m)[i].v)]]

Absent == -1
parseProfile(m) ==
    parsePlanOpIdArgsChildren(m) @@
    [children |-> [i \in 1 .. Len(ChildMaps(m)) |-> parseProfile(ChildMaps(m)[i].v)],
     dbHits |-> As(m, "dbHits", "int", Absent), rows |-> As(m, "rows", "int", Absent),
     time |-> As(m, "time", "int", Absent), pageCacheMisses |-> As(m, "pageCacheMisses", "int", Absent),
     pageCacheHits |-> As(m, "pageCacheHits", "int", Absent),
     pageCacheHitRatio |-> As(m, "pageCacheHitRatio", "float", Empty)]

parseInputPosition(m) == [column |-> As(m, "column", "int", 0), line |-> As(m, "line", "int", 0),
                          offset |-> As(m, "offset", "int", 0)]
PositionOf(m, k) == IF Get(m, k, Nil).t = "map" THEN <<parseInputPosition(Get(m, k, Nil).v)>> ELSE Empty

parseNotification(m) ==
    [code |-> As(m, "code", "str", Empty), description |-> As(m, "description", "str", Empty),
     severity |-> As(m, "severity", "str", Empty), category |-> As(m, "category", "str", Empty),
     title |-> As(m, "title", "str", Empty), position |-> PositionOf(m, "position")]

(* NewDefaultDiagnosticRecord, and a record merged over it *)
DefaultRecord == << <<<<"OPERATION">>, AString(Empty)>>, <<<<"OPERATION_CODE">>, AString(<<"0">>)>>,
                    <<<<"CURRENT_SCHEMA">>, AString(<<"/">>)>> >>
Merged(record) ==
    record \o SelectSeq(DefaultRecord, LAMBDA p : \A i \in 1 .. Len(record) : record[i][1] # p[1])

parseGqlStatusObject(m) ==
    LET record == As(m, "diagnostic_record", "map", Empty)
    IN  [gqlStatus |-> As(m, "gql_status", "str", Empty),
         statusDescription |-> As(m, "status_description", "str", Empty),
         code |-> As(m, "neo4j_code", "str", Empty),
         isNotification |-> Get(m, "neo4j_code", Nil).t = "str",
         title |-> As(m, "title", "str", Empty), description |-> As(m, "description", "str", Empty),
         position |-> PositionOf(record, "_position"),
         classification |-> As(record, "_classification", "str", Empty),
         severity |-> As(record, "_severity", "str", Empty),
         diagnosticRecord |-> Merged(record)]

MapsOf(list) == SelectSeq(list.v, LAMBDA x : x.t = "map")
parseNotifications(list) == [i \in 1 .. Len(MapsOf(list)) |-> parseNotification(MapsOf(list)[i].v)]
parseGqlStatusObjects(list) == [i \in 1 .. Len(MapsOf(list)) |-> parseGqlStatusObject(MapsOf(list)[i].v)]

(* The addresses of the last entry of a role *)
AddressesOf(servers, role) ==
    LET of == SelectSeq(servers, LAMBDA s : As(s, "role", "str", Empty) = <<role>>)
    IN  IF of = Empty THEN Empty ELSE As(Last(of), "addresses", "list", Empty)
routingTable(m) ==
    LET servers == Get(m, "servers", Empty)
    IN  [ttl |-> As(m, "ttl", "int", 0), db |-> As(m, "db", "str", Empty),
         readers |-> AddressesOf(servers, "READ"), writers |-> AddressesOf(servers, "WRITE"),
         routers |-> AddressesOf(servers, "ROUTE")]

(* The record with a routing table of servers before 4.3. What has another type than it
   should makes the whole record useless. *)
RoleUsable(x) ==
    /\ x.t = "map" /\ Get(x.v, "role", Nil).t = "str" /\ Get(x.v, "addresses", Nil).t = "list"
    /\ \A i \in 1 .. Len(Get(x.v, "addresses", Nil).v) : Get(x.v, "addresses", Nil).v[i].t = "str"
NoTable == << >>
parseRoutingTableRecord(values) ==
    IF values[1].t # "int" \/ values[2].t # "list" THEN NoTable
    ELSE IF \E i \in 1 .. Len(values[2].v) : ~RoleUsable(values[2].v[i]) THEN NoTable
    ELSE LET servers == [i \in 1 .. Len(values[2].v) |-> values[2].v[i].v]
         IN  <<[ttl |-> values[1].v, readers |-> AddressesOf(servers, "READ"),
                writers |-> AddressesOf(servers, "WRITE"), routers |-> AddressesOf(servers, "ROUTE")]>>

-----------------------------------------------------------------------------
(* The four responses *)

success(m) ==
    [fields |-> As(m, "fields", "list", Empty), tfirst |-> As(m, "t_first", "int", -1),
     qid |-> As(m, "qid", "int", -1), bookmark |-> As(m, "bookmark", "str", Empty),
     connectionId |-> As(m, "connection_id", "str", Empty), server |-> As(m, "server", "str", Empty),
     hasMore |-> As(m, "has_more", "bool", FALSE), tlast |-> As(m, "t_last", "int", -1),
     qtype |-> As(m, "type", "str", Empty), db |-> As(m, "db", "str", Empty),
     counters |-> Get(m, "stats", Empty),
     plan |-> IF Places(m, "plan") = {} THEN NoPlan ELSE <<parsePlan(Get(m, "plan", Nil).v)>>,
     profile |-> IF Places(m, "profile") = {} THEN NoPlan ELSE <<parseProfile(Get(m, "profile", Nil).v)>>,
     notifications |-> parseNotifications(Get(m, "notifications", [t |-> "list", v |-> Empty])),
     statuses |-> parseGqlStatusObjects(Get(m, "statuses", [t |-> "list", v |-> Empty])),
     routingTable |-> IF Places(m, "rt") = {} THEN Empty ELSE <<routingTable(Get(m, "rt", Empty))>>,
     num |-> Len(m), hints |-> As(m, "hints", "map", Empty), patches |-> As(m, "patch_bolt", "list", Empty)]

(* The counters of the summary, without the flags, which may be absent *)
summary(s) ==
    [bookmark |-> s.bookmark, queryType |-> s.qtype, tlast |-> s.tlast, plan |-> s.plan,
     profile |-> s.profile, notifications |-> s.notifications, statuses |-> s.statuses, db |-> s.db,
     counters |-> SelectSeq(s.counters, LAMBDA p : p[1] \notin {<<f>> : f \in StatFlags}),
     flags |-> [f \in StatFlags |-> {s.counters[i][2].v : i \in Places(s.counters, f)}]]

(* A code under one of two keys, a cause of the same kind, and what is missing filled
   in: PolyfillGqlError *)
OrElse(s, default) == IF s = Empty THEN default ELSE s
Classifications == {<<"CLIENT_ERROR">>, <<"DATABASE_ERROR">>, <<"TRANSIENT_ERROR">>}
RECURSIVE failure(_)
failure(m) ==
    LET codes == SelectSeq(m, LAMBDA p : p[1] \in {<<"code">>, <<"neo4j_code">>})
        msg == OrElse(As(m, "message", "str", Empty), <<"An unknown error occurred">>)
        record == Merged(As(m, "diagnostic_record", "map", Empty))
        class == As(record, "_classification", "str", Empty)
    IN  [code |-> OrElse(IF codes = Empty THEN Empty ELSE Last(codes)[2].v, <<"UnknownError">>), msg |-> msg,
         status |-> OrElse(As(m, "gql_status", "str", Empty), <<"50N42">>),
         description |-> OrElse(As(m, "description", "str", Empty), <<"general processing exception">> \o msg),
         record |-> record, rawClassification |-> class,
         classification |-> IF class \in Classifications THEN class ELSE <<"UNKNOWN">>,
         cause |-> IF Places(m, "cause") = {} THEN Empty ELSE <<failure(Get(m, "cause", Empty))>>]

msgSuccess == 112
msgRecord == 113
msgIgnored == 126
msgFailure == 127

(* What hydrate returns: a message, and whether there was an error *)
Hydrated(tag, r) == [tag |-> tag, x |-> r.v, err |-> HasErr(r.u)]
Parsed(tag, r) ==
    IF HasErr(r.u) THEN Ret(Empty, r.u)
    ELSE Ret(IF tag = msgSuccess THEN success(r.v) ELSE failure(r.v), r.u)
Response(tag, u) ==
    CASE tag = msgIgnored -> Ret(Empty, u)
      [] tag = msgSuccess -> Parsed(tag, Read("success", NextMarker(u)))
      [] tag = msgFailure -> Parsed(tag, Read("failure", NextMarker(u)))
      [] tag = msgRecord -> Items("value", NextMarker(u))
hydrate(buf, h) ==
    LET u == NextMarker(Start(buf, h))
        tag == Pop(u)
    IN  IF \/ u.typ # "Struct" \/ tag.v \notin {msgSuccess, msgRecord, msgIgnored, msgFailure}
           \/ u.short # (IF tag.v = msgIgnored THEN 0 ELSE 1) \/ HasErr(tag.u)
        THEN Hydrated(0, Ret(Empty, HSetErr(u)))
        ELSE Hydrated(tag.v, Response(tag.v, tag.u))
=============================================================================
