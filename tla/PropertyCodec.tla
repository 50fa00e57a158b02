--------------------------- MODULE PropertyCodec ---------------------------
(***************************************************************************)
(* Encrypt and Decrypt of property encryption: what a value becomes on its *)
(* way to the bytes that the application stores, and back. The cipher is   *)
(* symbolic: its output is one block that only its key, iv and additional  *)
(* data open. Which keys there are is a parameter, PropertyKeys says how   *)
(* they are found. Names of types, profiles and keys are strings of one    *)
(* character; metadata are pairs in the order of their keys.               *)
(***************************************************************************)
EXTENDS Responses

(* Date times are written as UTC whatever server the driver talks to *)
Scheme == [boltMajor |-> 6, useUtc |-> TRUE, supportsUuid |-> TRUE]
Implemented == <<1, 0>>
atLeast(v, w) == v[1] > w[1] \/ (v[1] = w[1] /\ v[2] >= w[2])

TypeName == [bool |-> "BOOLEAN", bytes |-> "BYTES", date |-> "DATE", duration |-> "DURATION",
             float |-> "FLOAT", int |-> "INTEGER", wide |-> "INTEGER", list |-> "LIST",
             localDateTime |-> "LOCAL DATETIME", localTime |-> "LOCAL TIME", nil |-> "NULL",
             nilptr |-> "NULL", point2d |-> "POINT", point3d |-> "POINT", str |-> "STRING",
             uuid |-> "UUID", vector |-> "VECTOR", time |-> "ZONED DATETIME", timeOfDay |-> "ZONED TIME"]
PropertyTypes == {TypeName[t] : t \in DOMAIN TypeName}
typeBaselines == [type \in PropertyTypes |-> <<1, 0>>]
aadTypes == {"BOOLEAN", "BYTES", "DATE", "INTEGER", "LOCAL TIME", "POINT", "STRING", "UUID", "ZONED TIME"}

-----------------------------------------------------------------------------
(* encode *)

RECURSIVE Deref(_)
Deref(x) == IF x.t = "ptr" THEN Deref(x.v) ELSE x

(* Other types, and integers that the packer refuses, are no property types *)
accept(x, permitted) == x.t \in DOMAIN TypeName /\ TypeName[x.t] \in permitted

(* What the elements of a list have in common *)
elemKind(x) == [typeName |-> TypeName[x.t],
                srid |-> IF TypeName[x.t] = "POINT" THEN x.v.srid ELSE 0,
                dimensions |-> CASE x.t = "point2d" -> 2 [] x.t = "point3d" -> 3 [] OTHER -> 0]
EncodeFails(val, permitted) ==
    LET x == Deref(val)
    IN  \/ ~accept(x, permitted)
        \/ x.t = "list" /\ \E i \in 1 .. Len(x.v) :
              \/ ~accept(Deref(x.v[i]), permitted)
              \/ TypeName[Deref(x.v[i]).t] \in {"NULL", "LIST", "VECTOR"}
              \/ elemKind(Deref(x.v[i])) # elemKind(Deref(x.v[1]))

(* The greatest baseline of the types in a value *)
Baseline(val) ==
    LET x == Deref(val)
        types == {TypeName[x.t]} \cup
                 (IF x.t = "list" THEN {TypeName[Deref(x.v[i]).t] : i \in 1 .. Len(x.v)} ELSE {})
        met == {typeBaselines[type] : type \in types}
    IN  CHOOSE v \in met : \A w \in met : atLeast(v, w)

(* Pointers are followed, whatever they point to *)
Followed(val) ==
    LET x == Deref(val)
    IN  IF x.t = "list" THEN [x EXCEPT !.v = [i \in 1 .. Len(x.v) |-> Deref(x.v[i])]] ELSE x
PropertyBytes(val) == packX(Followed(val), Scheme)

-----------------------------------------------------------------------------
(* decode *)

Decoder(buf, recorded) == Reset(buf) @@ [derr |-> "none", recorded |-> recorded]
Abandon(u, why) == IF u.derr = "none" THEN [u EXCEPT !.derr = why] ELSE u
Abandoned(u) == u.derr # "none"

require(type, u) == IF atLeast(u.recorded, typeBaselines[type]) THEN u ELSE Abandon(u, "unsupported")

(* A field of a known type. What is read after an error is thrown away. *)
Field(kind, u) ==
    LET n == NextMarker(u)
    IN  CASE Abandoned(u) -> Ret(Nil, u)
          [] ~Abandoned(u) /\ kind = "int" /\ n.typ = "Int" -> UnpackInt(n)
          [] ~Abandoned(u) /\ kind = "float" /\ n.typ = "Float" -> UnpackFloat(n)
          [] ~Abandoned(u) /\ kind = "string" /\ n.typ = "Str" -> UnpackString(n)
          [] ~Abandoned(u) /\ kind = "bytes" /\ n.typ = "ByteArray" -> ByteArray(n)
          [] OTHER -> Ret(Nil, Abandon(n, "malformed"))
AndField(sofar, kind) ==
    LET f == Field(kind, sofar.u) IN Ret(Append(sofar.v, f.v), f.u)
FieldsOf(kinds, u) == FoldLeft(AndField, Ret(<< >>, u), kinds)

(* The structs of the scheme are those of the protocol, with as many fields as they should have *)
SchemeTags == {68, 69, 73, 84, 86, 88, 89, 100, 105, 116}
TypeOfStruct(name) == TypeName[IF name \in {"utcDateTimeOffset", "utcDateTimeNamedZone"} THEN "time" ELSE name]
BadField(name, f) ==
    CASE name = "utcDateTimeNamedZone" /\ f[3].v \notin Zones -> "malformed"
      [] name = "vector" /\ Len(f[1].v) # 1 -> "malformed"
      [] name = "vector" /\ Len(f[1].v) = 1 /\ ~\E type \in DOMAIN VectorMarker : VectorMarker[type] = f[1].v[1] ->
             "unsupported"
      [] name = "vector" /\ IllFormedVector(f) -> "malformed"
      [] OTHER -> "none"
Checked(name, r) ==
    IF Abandoned(r.u) THEN Ret(Nil, r.u)
    ELSE IF BadField(name, r.v) # "none" THEN Ret(Nil, Abandon(r.u, BadField(name, r.v)))
    ELSE Ret(Built(name, r.v), r.u)
structured(layout, count, u) ==
    LET known == require(TypeOfStruct(layout.name), u)
    IN  IF Abandoned(known) THEN Ret(Nil, known)
        ELSE IF count # Len(layout.fields) THEN Ret(Nil, Abandon(known, "malformed"))
        ELSE Checked(layout.name, FieldsOf(layout.fields, known))
structure(u) ==
    LET tag == Pop(u)
    IN  IF tag.u.err THEN Ret(Nil, tag.u)
        ELSE IF tag.v \notin SchemeTags THEN Ret(Nil, Abandon(tag.u, "unsupported"))
        ELSE structured(StructLayout(tag.v, Scheme), u.short, tag.u)

ScalarOf(u) ==
    CASE u.typ = "Int" -> UnpackInt(u)
      [] u.typ = "Float" -> UnpackFloat(u)
      [] u.typ = "Str" -> UnpackString(u)
      [] u.typ = "ByteArray" -> ByteArray(u)
      [] u.typ \in {"True", "False"} -> UnpackBool(u)
      [] u.typ = "UUID" -> UnpackUUID(u)
      [] u.typ = "Nil" -> Ret(Nil, u)
ScalarType == [Int |-> "INTEGER", Float |-> "FLOAT", Str |-> "STRING", ByteArray |-> "BYTES",
               True |-> "BOOLEAN", False |-> "BOOLEAN", UUID |-> "UUID", Nil |-> "NULL"]

RECURSIVE decoded(_, _)
AndItem(sofar, i) ==
    IF Abandoned(sofar.u) \/ sofar.u.err THEN sofar
    ELSE LET item == decoded(sofar.u, TRUE) IN Ret(Append(sofar.v, item.v), item.u)
list(n) ==
    IF n.u.err THEN Ret(Nil, n.u)
    ELSE Typed("list", FoldLeft(AndItem, Ret(<< >>, n.u), [i \in 1 .. n.v |-> i]))
decoded(before, inList) ==
    LET u == NextMarker(before)
        known == IF u.typ \in DOMAIN ScalarType THEN require(ScalarType[u.typ], u)
                 ELSE IF u.typ = "Array" THEN require("LIST", u) ELSE u
    IN  CASE u.typ = "Nil" /\ inList -> Ret(Nil, Abandon(u, "malformed"))
          [] Abandoned(known) -> Ret(Nil, known)
          [] u.typ = "Array" /\ ~Abandoned(known) -> list(UnpackLen(u))
          [] u.typ = "Struct" -> structure(u)
          [] u.typ \in {"Map", "Undef"} -> Ret(Nil, Abandon(u, "unsupported"))
          [] OTHER -> ScalarOf(u)

newUnsupportedType(typeName, recorded) ==
    [t |-> "unsupported", v |-> [name |-> typeName, major |-> recorded[1], minor |-> recorded[2]]]
DecodeValue(plaintext, typeName, recorded) ==
    IF recorded[1] # Implemented[1] \/ recorded[2] > Implemented[2]
    THEN [err |-> FALSE, x |-> newUnsupportedType(typeName, recorded)]
    ELSE LET r == decoded(Decoder(plaintext, recorded), FALSE)
         IN  CASE r.u.derr = "unsupported" -> [err |-> FALSE, x |-> newUnsupportedType(typeName, recorded)]
               [] r.u.derr = "malformed" -> [err |-> TRUE, x |-> Nil]
               [] OTHER -> [err |-> r.u.err, x |-> r.v]

-----------------------------------------------------------------------------
(* The Encrypted structure *)

Envelope == <<"ENVELOPE">>
EncodeEncrypted(e) ==
    <<1>> \o StructHeader(101, 8) \o PackString(e.profileType) \o PackInt64(e.profileVersion)
    \o PackString(e.profileName) \o PackBytes(e.cipherOutput) \o PackString(e.typeName)
    \o PackInt64(e.baseline[1]) \o PackInt64(e.baseline[2])
    \o MapHeader(Len(e.metadata)) \o packPairs(e.metadata, Scheme)

MetadataKinds == [Str |-> "string", ByteArray |-> "bytes", Int |-> "int"]
Entry(sofar, key) ==
    LET n == NextMarker(key.u)
    IN  IF Abandoned(key.u) THEN Ret(sofar, key.u)
        ELSE IF n.typ \notin DOMAIN MetadataKinds THEN Ret(sofar, Abandon(n, "malformed"))
        ELSE LET val == Field(MetadataKinds[n.typ], key.u)
             IN  Ret(Append(sofar, <<key.v.v, val.v>>), val.u)
AndEntry(sofar, i) == IF Abandoned(sofar.u) THEN sofar ELSE Entry(sofar.v, Field("string", sofar.u))
Entries(n) == IF n.u.err THEN Ret(<< >>, n.u)
              ELSE FoldLeft(AndEntry, Ret(<< >>, n.u), [i \in 1 .. n.v |-> i])
metadata(u) ==
    LET n == NextMarker(u)
    IN  IF Abandoned(u) \/ n.typ # "Map" THEN Ret(<< >>, Abandon(n, "malformed")) ELSE Entries(UnpackLen(n))

NotEncrypted == [err |-> TRUE]
EncryptedOf(head, f, meta) ==
    IF Abandoned(meta.u) \/ meta.u.err THEN NotEncrypted
    ELSE [err |-> FALSE, profileName |-> f[1].v, cipherOutput |-> f[2].v, typeName |-> f[3].v,
          baseline |-> <<f[4].v, f[5].v>>, metadata |-> meta.v]
AfterHead(head) ==
    IF Abandoned(head.u) \/ head.v[1].v # Envelope \/ head.v[2].v # 1 THEN NotEncrypted
    ELSE LET f == FieldsOf(<<"string", "bytes", "string", "int", "int">>, head.u)
         IN  EncryptedOf(head, f.v, metadata(f.u))
AfterMarker(u, tag) ==
    IF u.typ # "Struct" \/ tag.v # 101 \/ u.short # 8 THEN NotEncrypted
    ELSE AfterHead(FieldsOf(<<"string", "int">>, tag.u))
DecodeEncrypted(buf) ==
    IF buf = << >> \/ buf[1] # 1 THEN NotEncrypted
    ELSE LET u == NextMarker(Decoder(Tail(buf), Implemented)) IN AfterMarker(u, Pop(u))

-----------------------------------------------------------------------------
(* Encryption *)

IVSize == 12
Seal(key, iv, plaintext, aad) == <<[key |-> key, iv |-> iv, plaintext |-> plaintext, aad |-> aad]>>
OpenFails(key, iv, block, aad) == Len(iv) # IVSize \/ block.key # key \/ block.iv # iv \/ block.aad # aad

NoProfile == <<"no profile">>
profileFor(profiles, name) ==
    CASE name = << >> /\ Len(profiles) = 1 -> profiles[1]
      [] name # << >> /\ name \in Range(profiles) -> name
      [] OTHER -> NoProfile

(* keys: the ids that are stored, and the aliases that are bound to them *)
NoKey == <<"no key">>
resolve(keys, ref) ==
    LET ids == IF ref.kind = "alias" THEN {b[2] : b \in {p \in keys.bound : p[1] = ref.value}} ELSE {ref.value}
    IN  IF ids \cap keys.ids = {} THEN NoKey ELSE CHOOSE id \in ids \cap keys.ids : TRUE

NoAad == [t |-> "no aad", v |-> 0]
HasAad(aad) == aad.t # NoAad.t
AadFails(aad) == HasAad(aad) /\ EncodeFails(aad, aadTypes)
EncryptFails(profiles, keys, r) ==
    \/ profileFor(profiles, r.profile) = NoProfile
    \/ r.key.kind = "none"
    \/ EncodeFails(r.value, PropertyTypes)
    \/ AadFails(r.aad)
    \/ resolve(keys, r.key) = NoKey

AadMetadata(aad) ==
    IF ~HasAad(aad) THEN << >>
    ELSE <<<<<<"aad">>, [t |-> "bytes", v |-> PropertyBytes(aad)]>>,
           <<<<"aad_encoding_scheme_major">>, AnInt(Baseline(aad)[1])>>,
           <<<<"aad_encoding_scheme_minor">>, AnInt(Baseline(aad)[2])>>>>
AadBytes(aad) == IF ~HasAad(aad) THEN << >> ELSE PropertyBytes(aad)

encrypt(profiles, keys, r, iv) ==
    LET id == resolve(keys, r.key)
    IN  EncodeEncrypted(
            [profileType |-> Envelope, profileVersion |-> 1, profileName |-> profileFor(profiles, r.profile),
             cipherOutput |-> Seal(id, iv, PropertyBytes(r.value), AadBytes(r.aad)),
             typeName |-> <<TypeName[Deref(r.value).t]>>, baseline |-> Baseline(r.value),
             metadata |-> AadMetadata(r.aad) \o <<<<<<"iv">>, [t |-> "bytes", v |-> iv]>>,
                                                  <<<<"key_id">>, AString(id)>>>>])

(* The additional data that the caller gives must have been given when the value was
   encrypted, under the same scheme; without it the stored ones count *)
HasMetadata(m, key, t) == Places(m, key) # {} /\ Get(m, key, Nil).t = t
AadRefused(m, aad) ==
    /\ HasAad(aad)
    /\ \/ AadFails(aad)
       \/ IF HasMetadata(m, "aad_encoding_scheme_major", "int") /\ HasMetadata(m, "aad_encoding_scheme_minor", "int")
          THEN Baseline(aad) # <<Get(m, "aad_encoding_scheme_major", Nil).v,
                                 Get(m, "aad_encoding_scheme_minor", Nil).v>>
          ELSE ~HasMetadata(m, "aad", "bytes")
aadFor(m, aad) == IF HasAad(aad) THEN AadBytes(aad) ELSE As(m, "aad", "bytes", << >>)

Denied == [err |-> TRUE, x |-> Nil]
opened(e, keys, aad) ==
    LET id == resolve(keys, [kind |-> "id", value |-> Get(e.metadata, "key_id", Nil).v])
    IN  IF id = NoKey \/ OpenFails(id, Get(e.metadata, "iv", Nil).v, e.cipherOutput[1], aadFor(e.metadata, aad))
        THEN Denied
        ELSE DecodeValue(e.cipherOutput[1].plaintext, e.typeName, e.baseline)
decryptOf(e, profiles, keys, aad) ==
    IF e.err THEN Denied
    ELSE IF \/ profileFor(profiles, e.profileName) = NoProfile
            \/ ~HasMetadata(e.metadata, "iv", "bytes") \/ ~HasMetadata(e.metadata, "key_id", "str")
            \/ AadRefused(e.metadata, aad)
         THEN Denied
    ELSE opened(e, keys, aad)
decrypt(bytes, profiles, keys, aad) == decryptOf(DecodeEncrypted(bytes), profiles, keys, aad)
=============================================================================
