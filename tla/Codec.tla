------------------------------- MODULE Codec -------------------------------
(***************************************************************************)
(* Messages there and back. The driver packs a request and the server      *)
(* reads it; the server returns the values it was sent, or answers with    *)
(* metadata or values of its own, and the driver hydrates the response,    *)
(* which may arrive cut short. The server is external: it writes           *)
(* PackStream as the packer does, and its own structs field by field.      *)
(***************************************************************************)
EXTENDS PropertyCodec

CONSTANTS CodecJobs     \* bound: a sequence of what is exchanged, see the kinds below

VARIABLES codec         \* job; at; bytes on the wire; cut; got, what the reader made of them

(* kind "echo": values; "request": name, args, and the tag and fields that the server
   should see; "success", "failure": pairs of metadata; "record": values of the server;
   "table", "no table": a record that should, or should not, have a routing table;
   "bad": values that it may not send; "property": a request to encrypt a value, the keys
   and the additional data when it is decrypted, and the outcome; "stored": a value that
   another driver encrypted *)
CodecStart(job) == codec = [job |-> job, at |-> "start", bytes |-> << >>, cut |-> FALSE, got |-> << >>]
CodecInit == \E i \in 1 .. Len(CodecJobs) : CodecStart(CodecJobs[i])

RequestBytes(name, a, h) ==
    CASE name = "HELLO" -> appendHello(a[1], h)
      [] name = "LOGOFF" -> appendLogoff(h)
      [] name = "LOGON" -> appendLogon(a[1], h)
      [] name = "BEGIN" -> appendBegin(a[1], h)
      [] name = "COMMIT" -> appendCommit(h)
      [] name = "ROLLBACK" -> appendRollback(h)
      [] name = "RUN" -> appendRun(a[1], a[2], a[3], h)
      [] name = "PULL" -> appendPullN(a[1], a[2], h)
      [] name = "DISCARD" -> appendDiscardN(a[1], a[2], h)
      [] name = "PULL ALL" -> appendPullAll(h)
      [] name = "ROUTE 4.3" -> appendRouteToV43(a[1], a[2], a[3], h)
      [] name = "ROUTE" -> appendRoute(a[1], a[2], a[3], h)
      [] name = "RESET" -> appendReset(h)
      [] name = "GOODBYE" -> appendGoodbye(h)
      [] name = "TELEMETRY" -> appendTelemetry(a[1], h)

(* begin, the request, end *)
PackRequest ==
    /\ codec.at = "start" /\ codec.job.kind = "request"
    /\ codec' = [codec EXCEPT !.at = "requested",
                    !.bytes = RequestBytes(codec.job.name, codec.job.args, codec.job.h)]

(* A RUN with the values as parameters; the message is not sent if one cannot be packed *)
PackValues ==
    /\ codec.at = "start" /\ codec.job.kind = "echo"
    /\ LET values == [t |-> "list", v |-> codec.job.values]
       IN  codec' = IF PackFails(values, codec.job.h) THEN [codec EXCEPT !.at = "refused"]
                    ELSE [codec EXCEPT !.at = "sent", !.bytes = packX(values, codec.job.h)]

(* The server *)
ServerReads ==
    /\ codec.at = "requested"
    /\ LET u == NextMarker(Start(codec.bytes, codec.job.h))
           tag == Pop(u)
           fields == Many("value", Ret(u.short, tag.u))
       IN  codec' = [codec EXCEPT !.at = "done",
                        !.got = [tag |-> tag.v, x |-> fields.v,
                                 err |-> HasErr(fields.u) \/ fields.u.off # Len(codec.bytes)]]

ServerEchoes ==
    /\ codec.at = "sent"
    /\ codec' = [codec EXCEPT !.at = "answered", !.bytes = StructHeader(msgRecord, 1) \o @]

ServerAnswers ==
    /\ codec.at = "start" /\ codec.job.kind \notin {"request", "echo", "property", "stored", "none"}
    /\ LET h == codec.job.h
       IN  codec' = [codec EXCEPT !.at = "answered",
              !.bytes = CASE codec.job.kind = "success" -> Request(msgSuccess, <<AMap(codec.job.pairs)>>, h)
                          [] codec.job.kind = "failure" -> Request(msgFailure, <<AMap(codec.job.pairs)>>, h)
                          [] codec.job.kind = "ignored" -> Request(msgIgnored, << >>, h)
                          [] OTHER -> Request(msgRecord, <<[t |-> "list", v |-> codec.job.values]>>, h)]

(* An iv is random; any will do *)
AnIV == [i \in 1 .. IVSize |-> i]
EncryptValue ==
    /\ codec.at = "start" /\ codec.job.kind = "property"
    /\ LET job == codec.job
       IN  codec' = IF EncryptFails(job.profiles, job.keys, job.request) THEN [codec EXCEPT !.at = "refused"]
                    ELSE [codec EXCEPT !.at = "stored",
                             !.bytes = encrypt(job.profiles, job.keys, job.request, AnIV)]

(* Another driver, of another version *)
EncryptedElsewhere ==
    /\ codec.at = "start" /\ codec.job.kind = "stored"
    /\ codec' = [codec EXCEPT !.at = "stored", !.bytes = EncodeEncrypted(codec.job.encrypted)]

DecryptValue ==
    /\ codec.at = "stored"
    /\ codec' = [codec EXCEPT !.at = "done",
                    !.got = decrypt(codec.bytes, codec.job.profiles, codec.job.later, codec.job.aad)]

CutShort(k) ==
    /\ codec.at \in {"answered", "stored"} /\ ~codec.cut /\ codec.job.cuttable
    /\ k < Len(codec.bytes)
    /\ codec' = [codec EXCEPT !.bytes = SubSeq(@, 1, k), !.cut = TRUE]

HydrateResponse ==
    /\ codec.at = "answered"
    /\ codec' = [codec EXCEPT !.at = "done", !.got = hydrate(codec.bytes, codec.job.h)]

CodecNext ==
    \/ PackRequest \/ PackValues \/ ServerReads \/ ServerEchoes \/ ServerAnswers \/ HydrateResponse
    \/ EncryptValue \/ EncryptedElsewhere \/ DecryptValue
    \/ \E k \in 0 .. 400 : CutShort(k)

-----------------------------------------------------------------------------
(* A node or relationship that was sent as a struct of these fields *)
IdsOf(x, i, own) == IF Len(x) >= i THEN x[i] ELSE AString(<<ToString(own.v)>>)

(* time.Time and the types made of it *)
Timelike == {"time", "localDateTime", "date", "timeOfDay", "localTime"}

(* y is what a user should get for x. A date keeps its day in its own zone, local
   times and the date times of servers without UTC keep what the clock on the wall says,
   others the instant too. A pointer stands for what it points to, unless that is a
   duration or a time: those arrive as structs that the driver does not know, maps
   of their exported fields (driver.go:482), of which a time has none. *)
RECURSIVE Same(_, _, _)
Same(x, y, h) ==
    LET f == IF x.t = "raw" THEN x.v.fields ELSE << >>
        tag == IF x.t = "raw" THEN x.v.tag ELSE 0
    IN  CASE x.t = "ptr" /\ x.v.t \in Timelike -> y = AMap(<< >>)
          [] x.t = "ptr" /\ x.v.t = "duration" -> y = AMap(ExportedFields(x.v))
          [] x.t = "ptr" /\ x.v.t \notin Timelike \cup {"duration"} -> Same(x.v, y, h)
          [] x.t = "nilptr" -> y.t = "nil"
          [] x.t = "list" -> /\ y.t = "list" /\ Len(y.v) = Len(x.v)
                             /\ \A i \in 1 .. Len(x.v) : Same(x.v[i], y.v[i], h)
          [] x.t \in {"map", "struct"} ->
                 /\ y.t = "map" /\ Len(y.v) = Len(x.v)
                 /\ \A i \in 1 .. Len(x.v) : y.v[i][1] = x.v[i][1] /\ Same(x.v[i][2], y.v[i][2], h)
          [] x.t = "time" ->
                 /\ y.t = "time" /\ y.v.nanos = x.v.nanos /\ Wall(y.v) = Wall(x.v)
                 /\ h.useUtc => y.v.unix = x.v.unix
                 /\ x.v.zone.id \in Zones /\ ~x.v.zone.isFixed => y.v.zone = x.v.zone
          [] x.t = "localDateTime" -> y.t = x.t /\ y.v.nanos = x.v.nanos /\ Wall(y.v) = Wall(x.v)
          [] x.t = "date" -> y.t = x.t /\ Wall(y.v) <= Wall(x.v) /\ Wall(x.v) < Wall(y.v) + Day
                             /\ Wall(y.v) % Day = 0
          [] tag = 78 -> /\ y.t = "node" /\ y.v.id = f[1] /\ Same(f[2], y.v.labels, h)
                         /\ Same(f[3], y.v.props, h) /\ y.v.elementId = IdsOf(f, 4, f[1])
          [] tag = 82 -> /\ y.t = "relationship" /\ y.v.id = f[1] /\ y.v.start = f[2] /\ y.v.end = f[3]
                         /\ y.v.type = f[4] /\ y.v.elementId = IdsOf(f, 6, f[1])
                         /\ y.v.startElementId = IdsOf(f, 7, f[2]) /\ y.v.endElementId = IdsOf(f, 8, f[3])
          [] tag = 80 ->
                 LET ix == f[3].v
                     walk == <<0>> \o [k \in 1 .. Len(ix) \div 2 |-> ix[2 * k].v]
                     node(k) == f[1].v[walk[k] + 1].v.fields
                 IN  /\ y.t = "path" /\ Len(y.v.rels) = Len(ix) \div 2
                     /\ \A i \in 1 .. Len(f[1].v) : Same(f[1].v[i], y.v.nodes[i], h)
                     /\ \A k \in 1 .. Len(ix) \div 2 :
                           LET forward == ix[2 * k - 1].v > 0
                               rel == f[2].v[IF forward THEN ix[2 * k - 1].v ELSE -ix[2 * k - 1].v].v.fields
                               a == node(IF forward THEN k ELSE k + 1)
                               b == node(IF forward THEN k + 1 ELSE k)
                           IN  /\ y.v.rels[k].id = rel[1] /\ y.v.rels[k].type = rel[2]
                               /\ y.v.rels[k].start = a[1] /\ y.v.rels[k].end = b[1]
                               /\ y.v.rels[k].startElementId = IdsOf(a, 4, a[1])
                               /\ y.v.rels[k].endElementId = IdsOf(b, 4, b[1])
          [] tag = 63 -> y.t = "unsupported" /\ y.v.name = f[1] /\ y.v.major = f[2] /\ y.v.minor = f[3]
          [] x.t = "raw" /\ x.v.tag \notin {63, 78, 80, 82} -> y.t \in {"invalid", "nil"}
          [] OTHER -> y = x

(* The servers of a routing table, and the table that was made of them *)
TableSame(servers, table) ==
    LET sent(role) == UNION {Range(As(servers[i].v, "addresses", "list", Empty)) :
                               i \in {j \in 1 .. Len(servers) :
                                        As(servers[j].v, "role", "str", Empty) = <<role>>}}
    IN  /\ Range(table[1].readers) = sent("READ")
        /\ Range(table[1].writers) = sent("WRITE")
        /\ Range(table[1].routers) = sent("ROUTE")

(* The metadata m and the success made of it *)
RECURSIVE PlanSame(_, _)
PlanSame(m, plan) ==
    LET kids == As(m, "children", "list", Empty)
    IN  /\ plan.operator = As(m, "operatorType", "str", Empty)
        /\ Len(plan.children) = Len(kids)
        /\ \A i \in 1 .. Len(kids) : PlanSame(kids[i].v, plan.children[i])
Understood(m, s, sum) ==
    /\ s.bookmark = As(m, "bookmark", "str", Empty) /\ s.server = As(m, "server", "str", Empty)
    /\ s.db = As(m, "db", "str", Empty) /\ s.connectionId = As(m, "connection_id", "str", Empty)
    /\ s.qid = As(m, "qid", "int", -1) /\ s.tfirst = As(m, "t_first", "int", -1)
    /\ s.tlast = As(m, "t_last", "int", -1) /\ s.hasMore = As(m, "has_more", "bool", FALSE)
    /\ s.fields = As(m, "fields", "list", Empty) /\ s.patches = As(m, "patch_bolt", "list", Empty)
    /\ s.hints = As(m, "hints", "map", Empty) /\ sum.queryType = As(m, "type", "str", Empty)
    /\ LET stats == As(m, "stats", "map", Empty)
       IN  \A i \in 1 .. Len(stats) :
              IF stats[i][2].t = "bool" THEN sum.flags[stats[i][1][1]] = {stats[i][2].v}
              ELSE \E j \in 1 .. Len(sum.counters) : sum.counters[j] = stats[i]
    /\ \A p \in {"plan", "profile"} :
          IF Places(m, p) = {} THEN s[p] = NoPlan ELSE PlanSame(Get(m, p, Nil).v, s[p][1])
    /\ \A l \in {"notifications", "statuses"} :
          LET sent == As(m, l, "list", Empty)
              key == IF l = "statuses" THEN "neo4j_code" ELSE "code"
          IN  /\ Len(s[l]) = Len(sent)
              /\ \A i \in 1 .. Len(sent) : s[l][i].code = As(sent[i].v, key, "str", Empty)
    /\ Places(m, "rt") # {} => TableSame(As(Get(m, "rt", Nil).v, "servers", "list", Empty), s.routingTable)

(* An error and its chain of causes *)
RECURSIVE FailureSame(_, _)
FailureSame(m, e) ==
    /\ Places(m, "code") # {} => e.code = As(m, "code", "str", Empty)
    /\ Places(m, "neo4j_code") # {} => e.code = As(m, "neo4j_code", "str", Empty)
    /\ Places(m, "gql_status") # {} => e.status = As(m, "gql_status", "str", Empty)
    /\ Places(m, "message") # {} => e.msg = As(m, "message", "str", Empty)
    /\ \A f \in {"code", "msg", "status", "description"} : e[f] # Empty
    /\ \A i \in 1 .. Len(DefaultRecord) : \E j \in 1 .. Len(e.record) : e.record[j][1] = DefaultRecord[i][1]
    /\ IF Places(m, "cause") = {} THEN e.cause = Empty ELSE FailureSame(Get(m, "cause", Nil).v, e.cause[1])

(* What the user of property encryption gets *)
Decrypts(job, got) ==
    CASE job.outcome = "same" -> ~got.err /\ Same(Followed(job.request.value), got.x, Scheme)
      [] job.outcome = "unsupported" ->
             ~got.err /\ got.x = newUnsupportedType(job.encrypted.typeName, job.encrypted.baseline)
      [] OTHER -> job.outcome = "denied" /\ got.err

=============================================================================
