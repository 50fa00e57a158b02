----------------------------- MODULE Handshake -----------------------------
(***************************************************************************)
(* The negotiation of the Bolt version in connect.go: four proposals, then *)
(* the version that the server chose or, after the manifest marker, the    *)
(* list of what it offers, from which the driver chooses and confirms. The *)
(* server is an answer of Servers: bytes 3 and 2 of its first answer, and  *)
(* for a manifest the bytes of the count, the offers, the capability mask. *)
(***************************************************************************)
EXTENDS Integers, Sequences

CONSTANTS Servers     \* bound: records [major, minor, count, offers, mask]

VARIABLES
    server,    \* the answer of the peer
    shake,     \* where Connect is; the offers read; the version; bytes of a varint
    told,      \* what the driver confirmed, as the server sees it
    dialErrors \* calls of OnDialError

shakeVars == <<server, shake, told, dialErrors>>

Nothing == <<0, 0>>
Manifest == <<255, 1>>
Http == <<80, 84>>
MaxVarintLen64 == 10

(* A byte that may be followed by more; the value of a varint of bytes *)
Continues(b) == b >= 128
Value[bytes \in Seq(0 .. 255)] ==
    IF bytes = << >> THEN 0 ELSE (Head(bytes) % 128) + 128 * Value[Tail(bytes)]

(* A server that sends a manifest keeps to its form: the count is a varint and counts the
   offers, and no range goes below minor version 0. The mask may be anything. *)
Offer == [major : 0 .. 255, minor : 0 .. 255, back : 0 .. 255]
WellFormed(s) ==
    /\ s.count \in Seq(0 .. 255) /\ Len(s.count) \in 1 .. MaxVarintLen64
    /\ \A i \in 1 .. Len(s.count) : Continues(s.count[i]) <=> i < Len(s.count)
    /\ s.offers \in Seq(Offer) /\ Value[s.count] = Len(s.offers)
    /\ \A i \in 1 .. Len(s.offers) : s.offers[i].back <= s.offers[i].minor
ASSUME ServersKeepToForm ==
    \A s \in Servers : <<s.major, s.minor>> = Manifest => WellFormed(s)

supportedVersions == << [major |-> 6, minor |-> 1, back |-> 1], [major |-> 5, minor |-> 8, back |-> 8],
                        [major |-> 4, minor |-> 4, back |-> 2], [major |-> 3, minor |-> 0, back |-> 0] >>

(* The proposals after the manifest marker: version 6 has a manifest only *)
handshakeProposals == Tail(supportedVersions)

(* The driver's versions in the order in which they are tried *)
Candidates ==
    LET expand(v) == [i \in 1 .. v.back + 1 |-> <<v.major, v.minor - (i - 1)>>]
    IN  expand(supportedVersions[1]) \o expand(supportedVersions[2])
        \o expand(supportedVersions[3]) \o expand(supportedVersions[4])

(* Mutant: the first version of the range is left out *)
InOfferOffByOne(v, offer) ==
    /\ v[1] = offer.major
    /\ v[2] <= offer.minor /\ v[2] > (offer.minor - offer.back) % 256

(* The lower end of the range is a difference of two bytes *)
InOffer(v, offer) ==
    /\ v[1] = offer.major
    /\ v[2] <= offer.minor /\ v[2] >= (offer.minor - offer.back) % 256

(* Indexes of the candidates that some offer covers: the first one is chosen *)
Matching(offers) ==
    {i \in 1 .. Len(Candidates) : \E k \in 1 .. Len(offers) : InOffer(Candidates[i], offers[k])}
selectProtocol(offers) ==
    IF Matching(offers) = {} THEN Nothing
    ELSE Candidates[CHOOSE i \in Matching(offers) : \A j \in Matching(offers) : i <= j]

ShakeStart(s) ==
    /\ server = s
    /\ shake = [at |-> "propose", offers |-> << >>, version |-> Nothing, varint |-> << >>]
    /\ told = Nothing /\ dialErrors = 0

ShakeInit == \E s \in Servers : ShakeStart(s)

Goto(l) == shake' = [shake EXCEPT !.at = l]

(* An error of the network: in the negotiation it is reported to the listener; HELLO
   reports its own *)
ShakeBreaks ==
    /\ shake.at \notin {"connected", "failed", "none", "choose", "refuse"}
    /\ Goto("failed")
    /\ dialErrors' = IF shake.at = "hello" THEN dialErrors ELSE dialErrors + 1
    /\ UNCHANGED <<server, told>>

Propose ==
    /\ shake.at = "propose" /\ Goto("answer")
    /\ UNCHANGED <<server, told, dialErrors>>

(* The first answer: HTTP, the manifest marker, nothing in common, or a version *)
ReadAnswer ==
    /\ shake.at = "answer"
    /\ LET v == <<server.major, server.minor>>
       IN  shake' = [shake EXCEPT !.version = IF v = Manifest THEN Nothing ELSE v,
                        !.at = CASE v = Http -> "none"
                                 [] v = Manifest -> "count"
                                 [] v # Manifest /\ server.major \in 3 .. 6 -> "hello"
                                 [] OTHER -> "none"]
    /\ UNCHANGED <<server, told, dialErrors>>

(* readVarInt, one byte at a time; next is where it goes when the last one is read.
   The tenth byte is too much unless it ends the number within 64 bits. *)
ReadVarInt(label, bytes, next) ==
    /\ shake.at = label
    /\ LET b == bytes[Len(shake.varint) + 1]
       IN  IF Len(shake.varint) + 1 = MaxVarintLen64 /\ b > 1
           THEN Goto("failed") /\ dialErrors' = dialErrors + 1
           ELSE IF Continues(b)
           THEN shake' = [shake EXCEPT !.varint = Append(@, b)] /\ UNCHANGED dialErrors
           ELSE /\ shake' = [shake EXCEPT !.varint = << >>, !.at =
                                IF label = "count" /\ Value[Append(shake.varint, b)] = 0
                                THEN "mask" ELSE next]
                /\ UNCHANGED dialErrors
    /\ UNCHANGED <<server, told>>

ReadCount == ReadVarInt("count", server.count, "offers")
ReadCapabilityMask == ReadVarInt("mask", server.mask, "choose")

ReadOffer ==
    /\ shake.at = "offers"
    /\ LET read == Append(shake.offers, server.offers[Len(shake.offers) + 1])
       IN  shake' = [shake EXCEPT !.offers = read,
                                  !.at = IF Len(read) = Value[server.count] THEN "mask" ELSE @]
    /\ UNCHANGED <<server, told, dialErrors>>

Choose ==
    /\ shake.at = "choose"
    /\ LET v == selectProtocol(shake.offers)
       IN  /\ shake' = [shake EXCEPT !.version = v,
                                     !.at = IF v = Nothing THEN "refuse" ELSE "confirm"]
           /\ dialErrors' = IF v = Nothing THEN dialErrors + 1 ELSE dialErrors
    /\ UNCHANGED <<server, told>>

(* Best effort: the server is told that nothing fits, an error is ignored *)
Refuse ==
    /\ shake.at = "refuse" /\ Goto("none")
    /\ UNCHANGED <<server, told, dialErrors>>

Confirm ==
    /\ shake.at = "confirm" /\ Goto("confirm mask")
    /\ told' = shake.version
    /\ UNCHANGED <<server, dialErrors>>

ConfirmMask ==
    /\ shake.at = "confirm mask" /\ Goto("hello")
    /\ UNCHANGED <<server, told, dialErrors>>

(* Connect of the protocol's connection *)
Hello ==
    /\ shake.at = "hello" /\ Goto("connected")
    /\ UNCHANGED <<server, told, dialErrors>>

ShakeNext ==
    \/ Propose \/ ReadAnswer \/ ReadCount \/ ReadOffer \/ ReadCapabilityMask
    \/ Choose \/ Refuse \/ Confirm \/ ConfirmMask \/ Hello \/ ShakeBreaks

ShakeSpec == ShakeInit /\ [][ShakeNext]_shakeVars

-----------------------------------------------------------------------------
Spoken(list) == UNION {{<<v.major, v.minor - b>> : b \in 0 .. v.back} :
                          v \in {list[i] : i \in 1 .. Len(list)}}
Common == Spoken(supportedVersions) \cap Spoken(server.offers)
Better(v, w) == v[1] > w[1] \/ (v[1] = w[1] /\ v[2] > w[2])

(* After a manifest the two ends speak the best version that both know, whatever the
   ranges and the order in which the server offers them, and the confirmed version is
   the one that is used; there is none only when they have nothing in common. *)
BestCommonVersion ==
    <<server.major, server.minor>> = Manifest =>
        /\ shake.at \in {"hello", "connected"} =>
               /\ shake.version \in Common /\ told = shake.version
               /\ ~\E v \in Common : Better(v, shake.version)
        /\ shake.at = "none" => Common = {}
=============================================================================
