----------------------------- MODULE MCServices -----------------------------
(* Inputs for the model checker: boundary lengths, widths and times, and every message. *)
EXTENDS Services

(* Framing: messages below, at and above the size of a chunk, alone and in a row *)
Msg(n) == [i \in 1 .. n |-> i % 2]
MCConversations == {<<Msg(1), Msg(4)>>, <<Msg(7)>>, <<Msg(3)>>}

(* Handshake: first answers, and manifests in several orders with short and long varints *)
FirstAnswer(v) == [major |-> v[1], minor |-> v[2], count |-> <<0>>, offers |-> << >>, mask |-> <<0>>]
Offers(count, offers, mask) == [major |-> 255, minor |-> 1, count |-> count, offers |-> offers, mask |-> mask]
O(a, i, b) == [major |-> a, minor |-> i, back |-> b]
Manifests == {<<O(4, 4, 0), O(5, 4, 4)>>, <<O(4, 1, 1), O(7, 3, 3)>>, <<O(3, 0, 0), O(4, 3, 1)>>,
            <<O(6, 5, 2), O(5, 0, 0)>>, <<O(6, 5, 4), O(5, 8, 8)>>}
MCServers ==
    {FirstAnswer(v) : v \in {<<0, 0>>, Http, <<9, 0>>}
                             \cup {<<p.major, p.minor - b>> : p \in Range(handshakeProposals), b \in {0}}}
    \cup {Offers(<<0>>, << >>, <<0>>), Offers(<<1>>, <<O(5, 8, 8)>>, [i \in 1 .. 10 |-> 128]),
          Offers(<<1>>, <<O(5, 8, 8)>>, [i \in 1 .. 10 |-> IF i < 10 THEN 128 ELSE 2]),
          Offers(<<1>>, <<O(5, 8, 8)>>, <<0>>),
          Offers(<<3>>, <<O(5, 2, 0), O(6, 3, 3), O(5, 8, 0)>>, <<1>>)}
    \cup {Offers(c, o, <<129, 1>>) : c \in {<<2>>, <<130, 0>>}, o \in Manifests}

(* Encoding: servers with UTC date times and UUIDs, and servers before 5.0 *)
Utc == [boltMajor |-> 6, useUtc |-> TRUE, supportsUuid |-> TRUE]
Old == [boltMajor |-> 4, useUtc |-> FALSE, supportsUuid |-> FALSE]

V(t, v) == [t |-> t, v |-> v]
Chars(n) == [i \in 1 .. n |-> "c"]
Count(n) == [i \in 1 .. n |-> i % 7]
P(k, v) == <<<<k>>, v>>
S(s) == AString(<<s>>)
L(s) == V("list", s)
Raw(tag, fields) == V("raw", [tag |-> tag, fields |-> fields])
Eight == <<64, 9, 33, 251, 84, 68, 45, 24>>
Clock(t, u, z) == V(t, [unix |-> u, nanos |-> 5, zone |-> z])
Paris == NamedZone(<<"Paris">>)

Scalars == <<V("nil", 0), V("nilptr", 0), V("bool", TRUE), V("bool", FALSE), V("float", Eight),
             V("wide", <<127, 255, 255, 255, 255, 255, 255, 255>>), V("ptr", AnInt(7)),
             V("ptr", V("ptr", S("deep")))>>
Edges == <<0, -1, -16, -17, 127, 128, -128, -129, 255, 256, 32767, 32768, -32768, -32769, 70000,
           2147483647, -2147483647>>
Ints == [i \in 1 .. Len(Edges) |-> AnInt(Edges[i])]
Lengths == <<AString(<< >>), AString(Chars(15)), AString(Chars(16)), AString(Chars(255)),
             AString(Chars(256)), V("bytes", Count(255)), V("bytes", Count(256)),
             L([i \in 1 .. 16 |-> AnInt(i)]), AMap([i \in 1 .. 17 |-> P("k", AnInt(i))])>>
Nested == <<L(<<L(<<AnInt(1), S("x")>>), AMap(<<P("a", L(<< >>)), P("b", V("nil", 0))>>)>>),
            V("struct", <<P("f", AnInt(3))>>)>>
Days == <<0, -1, -24, -25, 23, 24, 47, -30>>
Dates == [i \in 1 .. Len(Days) |-> Clock("date", Days[i], Paris)]
Hours == <<0, -3, 98, 99, 100, 199, 200, 201>>
Times == [i \in 1 .. Len(Hours) |-> Clock("time", Hours[i], Paris)]
         \o <<Clock("time", 50, FixedZone(<<"Offset">>, -5)), Clock("time", 150, FixedZone(<<"Paris">>, 7)),
              Clock("time", 150, FixedZone(<<"Paris">>, 2)), Clock("time", 150, NamedZone(<<"UTC">>)),
              Clock("time", 150, Local)>>
Others == <<V("point2d", [srid |-> 4326, x |-> Eight, y |-> Eight]),
            V("point3d", [srid |-> 9157, x |-> Eight, y |-> Eight, z |-> Eight]),
            Clock("localDateTime", 150, Paris), Clock("localDateTime", -5, NamedZone(<<"UTC">>)),
            V("timeOfDay", [secs |-> 12, nanos |-> 999, offset |-> -3600]),
            V("localTime", [secs |-> 0, nanos |-> 1]),
            V("duration", [months |-> 14, days |-> -200, seconds |-> 0, nanos |-> 5])>>
Vector(type, bytes) == V("vector", [type |-> type, bytes |-> bytes])
Vectors == <<Vector("float64", Eight), Vector("float32", << >>), Vector("int8", Count(300)),
             Vector("int16", Count(4)), Vector("int32", Count(4)), Vector("int64", Count(16))>>
Uuids == <<V("uuid", Count(16)), V("ptr", V("uuid", Count(16)))>>
(* Behind a pointer, and a pointer to it *)
Pointers(vs) == [i \in 1 .. Len(vs) |-> V("ptr", vs[i])] \o <<V("ptr", V("ptr", vs[Len(vs)]))>>
Behind == Pointers(SubSeq(Dates, 1, 1) \o SubSeq(Times, 1, 2) \o SubSeq(Vectors, 1, 1) \o Nested \o Others)

Echo(vs, h, c) == [kind |-> "echo", values |-> vs, h |-> h, cuttable |-> c]
Echoes == <<Echo(Scalars, Utc, TRUE), Echo(Ints, Old, TRUE), Echo(Lengths, Utc, FALSE),
            Echo(Nested, Old, TRUE), Echo(Dates, Utc, TRUE), Echo(Times, Utc, TRUE), Echo(Times, Old, TRUE),
            Echo(Others, Old, TRUE), Echo(Behind, Utc, TRUE), Echo(Vectors, Utc, FALSE), Echo(Uuids, Utc, TRUE),
            Echo(Uuids, Old, FALSE), Echo(<<V("bytes", Count(65536))>>, Utc, FALSE),
            Echo(<<AnInt(1), V("chan", 0)>>, Utc, FALSE), Echo(<<L(<<V("uint64 overflow", 0)>>)>>, Utc, FALSE),
            Echo(<<AMap(<<P("a", V("map of ints", 0))>>)>>, Utc, FALSE),
            Echo(<<V("ptr", V("array", 0))>>, Utc, FALSE)>>

(* Structs as the server writes them *)
Ids(h, s) == IF h.boltMajor < 5 THEN << >> ELSE [i \in 1 .. Len(s) |-> S(s[i])]
N(id, h) == Raw(78, <<AnInt(id), L(<<S("A")>>), AMap(<<P("p", AnInt(id))>>)>> \o Ids(h, <<"n">>))
Rn(id, h) == Raw(114, <<AnInt(id), S("KNOWS"), AMap(<< >>)>> \o Ids(h, <<"r">>))
Rel(id, h) == Raw(82, <<AnInt(id), AnInt(1), AnInt(200), S("KNOWS"), AMap(<< >>)>> \o Ids(h, <<"r", "a", "b">>))
Path(h, ix) == Raw(80, <<L(<<N(1, h), N(2, h), N(300, h)>>), L(<<Rn(7, h), Rn(8, h)>>),
                         L([i \in 1 .. Len(ix) |-> AnInt(ix[i])])>>)
Record(vs, h, c) == [kind |-> "record", values |-> vs, h |-> h, cuttable |-> c]
RecordsOf(h) ==
    <<Record(<<N(40, h), Rel(5, h), AnInt(1)>>, h, TRUE),
      Record(<<Path(h, <<1, 1, -2, 2, 2, 1, -1, 0>>), Path(h, << >>), S("end")>>, h, FALSE),
      Record(<<Raw(63, <<S("New"), AnInt(7), AnInt(0), AMap(<<P("message", S("m"))>>)>>), S("end")>>, h, TRUE)>>
Records == RecordsOf(Utc) \o RecordsOf(Old)
           \o <<Record(<<Raw(105, <<AnInt(1), AnInt(2), S("Fake")>>), S("end")>>, Utc, FALSE),
                Record(<<Raw(102, <<AnInt(1), AnInt(2), S("Local")>>)>>, Old, FALSE)>>
Bad(v, h) == [kind |-> "bad", values |-> <<v>>, h |-> h, cuttable |-> FALSE]
Bads == <<Bad(N(1, Old), Utc), Bad(N(1, Utc), Old), Bad(Raw(70, <<AnInt(1), AnInt(2), AnInt(3)>>), Utc),
          Bad(Raw(105, <<AnInt(1), AnInt(2), S("Paris")>>), Old), Bad(Path(Old, <<1>>), Old),
          Bad(Raw(80, <<L(<<AnInt(1)>>), L(<< >>), L(<< >>)>>), Utc),
          Bad(Raw(86, <<V("bytes", <<193>>), V("bytes", Count(7))>>), Utc),
          Bad(Raw(86, <<AnInt(1), V("bytes", Count(8))>>), Utc), Bad(V("uuid", Count(16)), Old),
          Bad(Raw(99, << >>), Utc)>>

(* Requests, and what the server should see *)
Req(name, args, tag, fields) == [kind |-> "request", name |-> name, args |-> args, tag |-> tag,
                                 fields |-> fields, h |-> Utc, cuttable |-> FALSE]
Meta == <<P("db", S("neo4j")), P("bookmarks", L(<<S("b1")>>)), P("tx_timeout", AnInt(5000))>>
Requests ==
    <<Req("HELLO", <<Meta>>, 1, <<AMap(Meta)>>), Req("LOGON", <<Meta>>, 106, <<AMap(Meta)>>),
      Req("LOGOFF", << >>, 107, << >>), Req("BEGIN", <<Meta>>, 17, <<AMap(Meta)>>),
      Req("COMMIT", << >>, 18, << >>), Req("ROLLBACK", << >>, 19, << >>),
      Req("RUN", <<Chars(40), << >>, Meta>>, 16, <<AString(Chars(40)), AMap(<< >>), AMap(Meta)>>),
      Req("PULL", <<1000, -1>>, 63, <<AMap(<<P("n", AnInt(1000))>>)>>),
      Req("PULL", <<-1, 300>>, 63, <<AMap(<<P("n", AnInt(-1)), P("qid", AnInt(300))>>)>>),
      Req("DISCARD", <<-1, 0>>, 47, <<AMap(<<P("n", AnInt(-1)), P("qid", AnInt(0))>>)>>),
      Req("DISCARD", <<-1, -1>>, 47, <<AMap(<<P("n", AnInt(-1))>>)>>), Req("PULL ALL", << >>, 63, << >>),
      Req("ROUTE 4.3", <<<<P("address", S("a"))>>, <<<<"b1">>>>, << >>>>, 102,
          <<AMap(<<P("address", S("a"))>>), L(<<S("b1")>>), V("nil", 0)>>),
      Req("ROUTE 4.3", <<<< >>, << >>, <<"db">>>>, 102, <<AMap(<< >>), L(<< >>), S("db")>>),
      Req("ROUTE", <<<< >>, << >>, Meta>>, 102, <<AMap(<< >>), L(<< >>), AMap(Meta)>>),
      Req("RESET", << >>, 15, << >>), Req("GOODBYE", << >>, 2, << >>),
      Req("TELEMETRY", <<3>>, 84, <<AnInt(3)>>)>>

(* Metadata, with keys that the driver does not know *)
Odd == P("new_key", L(<<AMap(<<P("bookmark", S("no"))>>), Raw(100, <<AnInt(1), AnInt(2)>>), V("float", Eight)>>))
Plan(kids) == AMap(<<P("operatorType", S("op")), P("args", AMap(<< >>)), P("children", L(kids)),
                     P("identifiers", L(<<S("n"), AnInt(1)>>)), P("dbHits", AnInt(300)),
                     P("pageCacheHitRatio", V("float", Eight))>>)
Note(key) == AMap(<<P(key, S("warn")), P("severity", S("WARNING")),
                    P("position", AMap(<<P("line", AnInt(3))>>)),
                    P("diagnostic_record", AMap(<<P("_severity", S("W")), P("OPERATION", S("x")),
                                                  P("_position", AMap(<<P("column", AnInt(4))>>))>>))>>)
Role(r, a) == AMap(<<P("addresses", L(a)), P("version", AnInt(1)), P("role", S(r))>>)
Table(kind, ttl, servers) == [kind |-> kind, values |-> <<ttl, servers>>, h |-> Old, cuttable |-> FALSE]
OldTables ==
    <<Table("table", AnInt(300), L(<<Role("ROUTE", <<S("r1"), S("r2")>>), Role("WRITE", <<S("b")>>)>>)),
      Table("no table", S("300"), L(<< >>)), Table("no table", AnInt(1), V("nil", 0)),
      Table("no table", AnInt(1), L(<<Role("READ", <<S("a")>>), Role("READ", <<AnInt(1)>>)>>))>>
Succ(ps, h) == [kind |-> "success", pairs |-> ps, h |-> h, cuttable |-> TRUE]
Successes ==
    <<Succ(<< >>, Utc), Succ(<<P("has_more", V("bool", TRUE))>>, Old),
      Succ(<<P("fields", L(<<S("a"), S("b")>>)), Odd, P("t_first", AnInt(1000)), P("qid", AnInt(0))>>, Utc),
      Succ(<<Odd, P("bookmark", S("bm")), P("t_last", AnInt(3)), P("type", S("rw")), P("db", S("neo4j")),
             P("stats", AMap(<<P("nodes-created", AnInt(200)), P("contains-updates", V("bool", TRUE))>>)),
             Odd>>, Utc),
      Succ(<<P("plan", Plan(<<Plan(<< >>), Plan(<<Plan(<< >>)>>)>>)), P("type", S("r"))>>, Old),
      Succ(<<P("profile", Plan(<<Plan(<< >>)>>)), P("db", S("x"))>>, Old),
      Succ(<<P("notifications", L(<<Note("code"), Note("code")>>)), P("statuses", L(<<Note("neo4j_code")>>))>>, Utc),
      Succ(<<P("rt", AMap(<<P("ttl", AnInt(300)), P("other", AnInt(1)),
                            P("servers", L(<<Role("ROUTE", <<S("r1"), S("r2")>>), Role("READ", <<S("a")>>),
                                             Role("WRITE", <<S("b")>>)>>)), P("db", S("home"))>>))>>, Utc),
      Succ(<<P("server", S("Neo4j")), P("connection_id", S("c1")),
             P("hints", AMap(<<P("recv_timeout", AnInt(120))>>)), P("patch_bolt", L(<<S("utc")>>))>>, Old)>>
Fail(ps, h) == [kind |-> "failure", pairs |-> ps, h |-> h, cuttable |-> TRUE]
Failures ==
    <<Fail(<<P("code", S("Neo.X")), P("message", S("m"))>>, Old), Fail(<<P("message", S("m"))>>, Old),
      Fail(<<P("cause", AMap(<<P("gql_status", S("22N01")),
                               P("cause", AMap(<<P("message", S("deep")), Odd>>)), P("message", S("in"))>>)),
             P("neo4j_code", S("Neo.Y")), Odd, P("gql_status", S("01N00")), P("description", S("d")),
             P("diagnostic_record", AMap(<<P("_classification", S("CLIENT_ERROR")), P("OPERATION", S("x"))>>)),
             P("message", S("m"))>>, Utc)>>

(* Properties: a driver with one profile and two keys, one of which has an alias *)
K(id) == <<id>>
OneKey == [ids |-> {K("k1")}, bound |-> {<<<<"al">>, K("k1")>>}]
TwoKeys == [ids |-> {K("k1"), K("k2")}, bound |-> {<<<<"al">>, K("k1")>>}]
Rotated == [ids |-> {K("k1"), K("k2")}, bound |-> {<<<<"al">>, K("k2")>>}]
Ref(kind, v) == [kind |-> kind, value |-> v]
Property(v, aad, ref, profile) == [value |-> v, aad |-> aad, key |-> ref, profile |-> profile]
EncryptJob(profiles, request, later, aad, outcome, cuttable) ==
    [kind |-> "property", profiles |-> profiles, request |-> request, keys |-> TwoKeys, later |-> later,
     aad |-> aad, outcome |-> outcome, h |-> Utc, cuttable |-> cuttable]
OneProfile == <<<<"p">>>>
TwoProfiles == <<<<"p">>, <<"q">>>>
ByAlias == Ref("alias", <<"al">>)
Plain(v, outcome) == EncryptJob(OneProfile, Property(v, NoAad, ByAlias, << >>), Rotated, NoAad, outcome, FALSE)
WithAad(aad, later, outcome) ==
    EncryptJob(OneProfile, Property(AnInt(7), aad, Ref("id", K("k2")), <<"p">>), TwoKeys, later, outcome, TRUE)

Point2(srid) == V("point2d", [srid |-> srid, x |-> Eight, y |-> Eight])
Point3(srid) == V("point3d", [srid |-> srid, x |-> Eight, y |-> Eight, z |-> Eight])
Kept == Scalars \o Ints \o SubSeq(Lengths, 1, 8) \o Dates \o Times \o Others \o Vectors \o Uuids
        \o Pointers(SubSeq(Dates, 1, 1) \o SubSeq(Times, 1, 1) \o Others)
        \o <<L(<<Point2(1), Point2(1)>>), L(<<S("a"), V("ptr", S("b"))>>), L(<<V("bytes", Count(3))>>),
             L(<<Clock("date", -1, Paris), Clock("date", 1, Paris)>>), L(<< >>)>>
Refused == <<V("chan", 0), V("uint64 overflow", 0), AMap(<< >>), L(<<AnInt(1), S("x")>>), L(<<V("nil", 0)>>),
             L(<<L(<< >>)>>), L(<<V("vector", [type |-> "int8", bytes |-> <<1>>])>>), L(<<Point2(1), Point2(2)>>),
             L(<<Point2(1), Point3(1)>>), L(<<AnInt(1), V("nilptr", 0)>>), L(<<S("x"), V("chan", 0)>>)>>
Properties ==
    [i \in 1 .. Len(Kept) |-> Plain(Kept[i], "same")]
    \o [i \in 1 .. Len(Refused) |-> Plain(Refused[i], "refused")]
    \o <<WithAad(S("ctx"), S("ctx"), "same"), WithAad(S("ctx"), NoAad, "same"), WithAad(S("ctx"), S("other"), "denied"),
         WithAad(S("ctx"), V("float", Eight), "denied"), WithAad(NoAad, S("ctx"), "denied"),
         WithAad(V("float", Eight), NoAad, "refused"), WithAad(L(<<S("a")>>), NoAad, "refused"),
         WithAad(V("nil", 0), NoAad, "refused"), WithAad(AnInt(7), V("ptr", AnInt(7)), "same"),
         EncryptJob(OneProfile, Property(S("x"), NoAad, Ref("none", << >>), << >>), TwoKeys, NoAad, "refused", FALSE),
         EncryptJob(OneProfile, Property(S("x"), NoAad, Ref("id", K("k3")), << >>), TwoKeys, NoAad, "refused", FALSE),
         EncryptJob(OneProfile, Property(S("x"), NoAad, ByAlias, <<"q">>), TwoKeys, NoAad, "refused", FALSE),
         EncryptJob(TwoProfiles, Property(S("x"), NoAad, ByAlias, << >>), TwoKeys, NoAad, "refused", FALSE),
         EncryptJob(TwoProfiles, Property(S("x"), NoAad, ByAlias, <<"q">>), TwoKeys, NoAad, "same", FALSE),
         EncryptJob(OneProfile, Property(S("x"), NoAad, Ref("id", K("k2")), << >>), OneKey, NoAad, "denied", FALSE)>>

(* Values of other drivers: newer schemes and types, other profiles, broken structures *)
IVMeta == P("iv", V("bytes", AnIV))
KeyMeta == P("key_id", S("k1"))
Foreign(version, profile, plaintext, baseline, meta, outcome) ==
    [kind |-> "stored", profiles |-> OneProfile, later |-> OneKey, aad |-> NoAad, outcome |-> outcome,
     h |-> Utc, cuttable |-> FALSE,
     encrypted |-> [profileType |-> Envelope, profileVersion |-> version, profileName |-> profile,
                    cipherOutput |-> Seal(K("k1"), AnIV, plaintext, << >>), typeName |-> <<"SOME">>,
                    baseline |-> baseline, metadata |-> meta]]
Stranger(v, outcome) == Foreign(1, <<"p">>, packX(v, Utc), <<1, 0>>, <<IVMeta, KeyMeta>>, outcome)
Strangers ==
    <<Foreign(1, <<"p">>, <<7>>, <<1, 1>>, <<IVMeta, KeyMeta>>, "unsupported"),
      Foreign(1, <<"p">>, <<7>>, <<2, 0>>, <<IVMeta, KeyMeta>>, "unsupported"),
      Foreign(1, <<"p">>, <<7>>, <<0, 9>>, <<IVMeta, KeyMeta>>, "unsupported"),
      Foreign(1, <<"p">>, <<7>>, <<1, -1>>, <<IVMeta, KeyMeta>>, "unsupported"),
      Foreign(1, <<"p">>, <<144>>, <<1, -1>>, <<IVMeta, KeyMeta>>, "unsupported"),
      Foreign(1, <<"p">>, PackVector("int8", <<1>>), <<1, -1>>, <<IVMeta, KeyMeta>>, "unsupported"),
      Foreign(2, <<"p">>, <<7>>, <<1, 0>>, <<IVMeta, KeyMeta>>, "denied"),
      Foreign(1, <<"q">>, <<7>>, <<1, 0>>, <<IVMeta, KeyMeta>>, "denied"),
      Foreign(1, <<"p">>, <<7>>, <<1, 0>>, <<KeyMeta>>, "denied"),
      Foreign(1, <<"p">>, <<7>>, <<1, 0>>, <<P("iv", S("x")), KeyMeta>>, "denied"),
      Foreign(1, <<"p">>, <<7>>, <<1, 0>>, <<IVMeta, P("key_id", AnInt(1))>>, "denied"),
      Foreign(1, <<"p">>, <<7>>, <<1, 0>>, <<IVMeta, KeyMeta, P("new", V("float", Eight))>>, "denied"),
      Stranger(AMap(<< >>), "unsupported"), Stranger(Raw(78, <<AnInt(1)>>), "unsupported"),
      Stranger(L(<<Raw(99, << >>)>>), "unsupported"), Stranger(L(<<V("nil", 0)>>), "denied"),
      Stranger(Raw(68, <<AnInt(1), AnInt(2)>>), "denied"), Stranger(Raw(68, <<S("x")>>), "denied"),
      Stranger(Raw(105, <<AnInt(1), AnInt(2), S("Fake")>>), "denied"),
      Stranger(Raw(86, <<V("bytes", <<150>>), V("bytes", <<1>>)>>), "unsupported"),
      Stranger(Raw(86, <<V("bytes", << >>), V("bytes", <<1>>)>>), "denied"),
      Stranger(Raw(86, <<V("bytes", <<193>>), V("bytes", Count(7))>>), "denied"),
      Foreign(1, <<"p">>, <<130, 65>>, <<1, 0>>, <<IVMeta, KeyMeta>>, "denied"),
      Foreign(1, <<"p">>, <<146, 1>>, <<1, 0>>, <<IVMeta, KeyMeta>>, "denied")>>

MCJobs == Echoes \o Records \o OldTables \o Bads \o Requests \o Successes \o Failures
          \o Properties \o Strangers \o <<[kind |-> "ignored", h |-> Utc, cuttable |-> TRUE]>>

(* Home databases: two ways to be ann, a bearer token, and no token *)
Caller(i, s, p, c, person) ==
    [impersonated |-> i, token |-> [scheme |-> s, principal |-> p, credentials |-> c], person |-> person]
MCCallers == {Caller("ann", "absent", "", "", "ann"), Caller("", "basic", "ann", "pw", "ann"),
              Caller("", "bearer", "", "jwt", "bob"), Caller("", "absent", "", "", "driver")}

(* Keys: one that has the alias, one that is still to be created *)
MCStoredKeys == {[k1 |-> "a", k2 |-> "unused"]}
=============================================================================
