------------------------------ MODULE Services ------------------------------
(***************************************************************************)
(* The parts below and beside a connection that share no state with each   *)
(* other: framing, handshake, encoding, tokens, home databases, keys of    *)
(* property encryption. A behaviour is a behaviour of one of them, the     *)
(* others stay as they start.                                              *)
(***************************************************************************)
EXTENDS Wire, Handshake, Codec, TokenManager, HomeDbCache, PropertyKeys

VARIABLES part

servicesVars == <<part, wireVars, shakeVars, codec, tokenVars, cacheVars, keyVars>>

NoServer == [major |-> 0, minor |-> 0, count |-> << >>, offers |-> << >>, mask |-> << >>]
NoJob == [kind |-> "none", h |-> 0, cuttable |-> FALSE]

ServicesInit ==
    /\ part \in {"wire", "handshake", "codec", "tokens", "cache", "keys"}
    /\ TokenStart /\ CacheStart
    /\ IF part = "wire" THEN WireInit ELSE WireStart(<< >>)
    /\ IF part = "handshake" THEN ShakeInit ELSE ShakeStart(NoServer)
    /\ IF part = "keys" THEN KeysInit ELSE KeysStart([id \in KeyIds |-> "unused"])
    /\ IF part = "codec" THEN CodecInit ELSE CodecStart(NoJob)

WireStep == part = "wire" /\ WireNext /\ UNCHANGED <<part, shakeVars, codec, tokenVars, cacheVars, keyVars>>
ShakeStep == part = "handshake" /\ ShakeNext /\ UNCHANGED <<part, wireVars, codec, tokenVars, cacheVars, keyVars>>
CodecStep == part = "codec" /\ CodecNext /\ UNCHANGED <<part, wireVars, shakeVars, tokenVars, cacheVars, keyVars>>
TokenStep == part = "tokens" /\ TokenNext /\ UNCHANGED <<part, wireVars, shakeVars, codec, cacheVars, keyVars>>
CacheStep == part = "cache" /\ CacheNext /\ UNCHANGED <<part, wireVars, shakeVars, codec, tokenVars, keyVars>>
KeysStep == part = "keys" /\ KeysNext /\ UNCHANGED <<part, wireVars, shakeVars, codec, tokenVars, cacheVars>>

ServicesNext == WireStep \/ ShakeStep \/ CodecStep \/ TokenStep \/ CacheStep \/ KeysStep

(* Threads of a connection that can go on do *)
ServicesSpec ==
    /\ ServicesInit /\ [][ServicesNext]_servicesVars
    /\ WF_servicesVars(part = "wire" /\ Sender /\ UNCHANGED <<part, shakeVars, codec, tokenVars, cacheVars, keyVars>>)
    /\ WF_servicesVars(part = "wire" /\ ReadAhead /\ UNCHANGED <<part, shakeVars, codec, tokenVars, cacheVars, keyVars>>)
    /\ WF_servicesVars(part = "wire" /\ Receiver /\ UNCHANGED <<part, shakeVars, codec, tokenVars, cacheVars, keyVars>>)
=============================================================================
