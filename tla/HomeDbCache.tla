---------------------------- MODULE HomeDbCache ----------------------------
(***************************************************************************)
(* homedb.Cache: the home database per user, the least recently used       *)
(* entries pruned when it grows too large. The clock is coarse: it may     *)
(* stand still between two calls, and the sort puts equal times in any     *)
(* order. latest and access keep what the callers did.                     *)
(***************************************************************************)
EXTENDS Integers, FiniteSets

CONSTANTS
    CacheUsers,          \* callers: whom they impersonate, their token, the person that is
    CacheDatabases,
    MaxCacheSize, PruneFactor,
    MaxClock             \* bound

(* NewCache refuses a size of 0 and prunes one entry at least *)
ASSUME CacheLimits == MaxCacheSize \in Nat \ {0} /\ PruneFactor \in Nat \ {0}

VARIABLES
    entries,      \* a function of the keys that have one: database, lastUsed
    cacheOn, clock,
    readers,      \* the callers of Get between its check of enabled and its lock
    latest, access   \* per person: the last database set, the time of the last call

cacheVars == <<entries, cacheOn, clock, readers, latest, access>>

Never == -1
Persons == {u.person : u \in CacheUsers}

CacheStart ==
    /\ entries = << >> /\ cacheOn = FALSE /\ clock = 0 /\ readers = {}
    /\ latest = [p \in Persons |-> "none"] /\ access = [p \in Persons |-> Never]

(* ComputeKey: whom an entry is for. An impersonated user and one who logs in with a
   name have the same key, other schemes are told apart by their credentials. *)
ComputeKey(impersonated, token) ==
    CASE impersonated # "" -> <<"basic", impersonated>>
      [] impersonated = "" /\ token.scheme = "absent" -> <<"DEFAULT", "">>
      [] impersonated = "" /\ token.scheme = "none" -> <<"none", "">>
      [] impersonated = "" /\ token.scheme = "basic" -> <<"basic", token.principal>>
      [] impersonated = "" /\ token.scheme \in {"kerberos", "bearer"} -> <<token.scheme, token.credentials>>
      [] OTHER -> <<token.scheme, token.principal, token.credentials>>
KeyOf(u) == ComputeKey(u.impersonated, u.token)

(* A person is whom a key stands for *)
ASSUME OneKeyPerPerson == \A u, w \in CacheUsers : KeyOf(u) = KeyOf(w) <=> u.person = w.person

(* The sets that may come first in the sort *)
Oldest(es) == {S \in SUBSET DOMAIN es :
                  /\ Cardinality(S) = IF PruneFactor > Cardinality(DOMAIN es) THEN Cardinality(DOMAIN es)
                                      ELSE PruneFactor
                  /\ \A u \in S, w \in DOMAIN es \ S : es[u].lastUsed <= es[w].lastUsed}

prune(es) ==
    IF Cardinality(DOMAIN es) <= MaxCacheSize THEN {es}
    ELSE {[u \in DOMAIN es \ S |-> es[u]] : S \in Oldest(es)}

WithEntry(k, e) == [x \in {k} \cup DOMAIN entries |-> IF x = k THEN e ELSE entries[x]]

CacheSet(u, d) ==
    /\ entries' \in prune(WithEntry(KeyOf(u), [database |-> d, lastUsed |-> clock]))
    /\ latest' = [latest EXCEPT ![u.person] = d] /\ access' = [access EXCEPT ![u.person] = clock]
    /\ UNCHANGED <<cacheOn, clock, readers>>

(* Get: enabled is read under a lock of its own *)
CacheGetStarts(u) ==
    /\ cacheOn /\ u \notin readers
    /\ readers' = readers \cup {u}
    /\ UNCHANGED <<entries, cacheOn, clock, latest, access>>

(* Mutant: reading an entry is no use of it *)
CacheGetOnlyReads(u) ==
    /\ u \in readers
    /\ readers' = readers \ {u}
    /\ access' = IF KeyOf(u) \in DOMAIN entries THEN [access EXCEPT ![u.person] = clock] ELSE access
    /\ UNCHANGED <<entries, cacheOn, clock, latest>>

CacheGet(u) ==
    /\ u \in readers
    /\ readers' = readers \ {u}
    /\ IF KeyOf(u) \in DOMAIN entries
       THEN /\ entries' = [entries EXCEPT ![KeyOf(u)].lastUsed = clock]
            /\ access' = [access EXCEPT ![u.person] = clock]
       ELSE UNCHANGED <<entries, access>>
    /\ UNCHANGED <<cacheOn, clock, latest>>

CacheSetEnabled(b) ==
    /\ cacheOn # b /\ cacheOn' = b
    /\ UNCHANGED <<entries, clock, readers, latest, access>>

ClockTicks ==
    /\ clock < MaxClock /\ clock' = clock + 1
    /\ UNCHANGED <<entries, cacheOn, readers, latest, access>>

CacheNext ==
    \/ \E u \in CacheUsers : CacheGetStarts(u) \/ CacheGet(u) \/ \E d \in CacheDatabases : CacheSet(u, d)
    \/ \E b \in BOOLEAN : CacheSetEnabled(b)
    \/ ClockTicks

CacheSpec == CacheStart /\ [][CacheNext]_cacheVars

(* Whatever order the calls come in, the cache never holds more than its limit, an entry
   is the last database that was set for the person it is found for, and nobody is
   pruned who used the cache later than somebody who stays. *)
CacheKeepsLatest ==
    [][/\ Cardinality(DOMAIN entries') <= MaxCacheSize
       /\ \A u \in CacheUsers : KeyOf(u) \in DOMAIN entries' => entries'[KeyOf(u)].database = latest'[u.person]
       /\ \A u, w \in CacheUsers :
             (KeyOf(u) \in DOMAIN entries \ DOMAIN entries' /\ KeyOf(w) \in DOMAIN entries')
                 => access[u.person] <= access'[w.person]]_cacheVars
=============================================================================
