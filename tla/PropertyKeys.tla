---------------------------- MODULE PropertyKeys ----------------------------
(***************************************************************************)
(* profileState and KeyManager of property encryption: keys are found      *)
(* through two caches, the index of aliases and the cache of keys, each    *)
(* with a lock of its own, in front of a repository that other processes   *)
(* change too. A cache is a set of entries, each with its place in the     *)
(* order of use; the one at place 0 was used last.                         *)
(*                                                                         *)
(* What a call relies on are facts: the key id is stored, <<Stored, id>>,  *)
(* or an alias is bound to it, <<alias, id>>. ended, settled and raced     *)
(* record what became of them.                                             *)
(***************************************************************************)
EXTENDS Integers, FiniteSets

CONSTANTS
    KeyIds, KeyAliases, KeyCallers,
    KeyCacheTTL, KeyCacheSize, KeyAliasIndexTTL, KeyAliasIndexSize,
    StoredKeys,     \* what the repository may hold at the start
    MaxKeyCalls,    \* bound on the calls and the changes made elsewhere
    MaxKeyTime      \* bound on time, counted in the longest time that a call takes

VARIABLES
    repository,     \* per id: "unused", "deleted", or the alias, NoAlias if it has none
    aliasIndex, keyCache, keyTime,
    keyCalls,       \* how many there were
    call,           \* per caller: at; by, how it names the key; ref; id; began; when it was done;
                    \* ends, the facts that it ended; after, the facts settled before it began
    ended,          \* per fact: when it stopped to hold, Never if it holds or was not yet true
    settled,        \* facts that a call of this driver, now over, has ended
    raced           \* facts that some lookup had read and not yet cached at that time

keyVars == <<repository, aliasIndex, keyCache, keyTime, keyCalls, call, ended, settled, raced>>

NoAlias == "no alias"
Stored == "stored"
NotEnded == -1

(* Aliases are none of the words for a key that has none *)
ASSUME KeyConstants ==
    /\ KeyCacheTTL \in Nat /\ KeyAliasIndexTTL \in Nat
    /\ KeyAliases \cap {NoAlias, Stored, "unused", "deleted"} = {}
    /\ StoredKeys \subseteq [KeyIds -> KeyAliases \cup {NoAlias, "unused", "deleted"}]

Facts == {<<f, id>> : f \in KeyAliases \cup {Stored}, id \in KeyIds}
IdleCall == [at |-> "idle", by |-> "", ref |-> "", id |-> "", began |-> 0, done |-> 0, ends |-> {}, after |-> {}]

KeysStart(stored) ==
    /\ repository = stored /\ keyCalls = 0
    /\ aliasIndex = {} /\ keyCache = {} /\ keyTime = 0
    /\ call = [c \in KeyCallers |-> IdleCall]
    /\ ended = [f \in Facts |-> NotEnded] /\ settled = {} /\ raced = {}
KeysInit == \E stored \in StoredKeys : KeysStart(stored)

-----------------------------------------------------------------------------
(* Cache *)

hasExpired(entry) == keyTime >= entry.expires
Placed(entry, n) == [key |-> entry.key, value |-> entry.value, expires |-> entry.expires, place |-> n]

(* What is left of a cache, in the same order *)
Without(cache, gone) ==
    LET left == cache \ gone
    IN  {Placed(e, Cardinality({d \in left : d.place < e.place})) : e \in left}
Dropped(cache, key) == Without(cache, {e \in cache : e.key = key})
purgeExpired(cache) == Without(cache, {e \in cache : hasExpired(e)})
evict(cache, maxSize) == {e \in cache : e.place < maxSize}
PushFront(entry, cache) == {Placed(entry, 0)} \cup {Placed(e, e.place + 1) : e \in cache}

Cached(cache, key) == {e \in cache : e.key = key /\ ~hasExpired(e)}
AfterGet(cache, key) ==
    IF Cached(cache, key) = {} THEN Dropped(cache, key)
    ELSE PushFront(CHOOSE e \in Cached(cache, key) : TRUE, Dropped(cache, key))
AfterPut(cache, key, value, ttl, maxSize) ==
    evict(PushFront([key |-> key, value |-> value, expires |-> keyTime + ttl],
                    purgeExpired(Dropped(cache, key))), maxSize)

-----------------------------------------------------------------------------
(* Facts *)

End(facts) == ended' = [f \in Facts |-> IF f \in facts THEN keyTime ELSE ended[f]]

(* The lookups and creations that know of a fact and are about to cache it *)
Holds(d, f) ==
    /\ call[d].id = f[2]
    /\ IF f[1] = Stored THEN call[d].at \in {"index", "cache"}
       ELSE call[d].at = "index" /\ call[d].ref = f[1]
Races(facts) == raced' = raced \cup {f \in facts : \E d \in KeyCallers : Holds(d, f)}

Begin(at, by, ref, id) ==
    [at |-> at, by |-> by, ref |-> ref, id |-> id, began |-> keyTime, done |-> 0, ends |-> {}, after |-> settled]
Counts == keyCalls < MaxKeyCalls /\ keyCalls' = keyCalls + 1
(* Callers are alike: the first of them to call is always the same *)
FirstCaller == CHOOSE c \in KeyCallers : TRUE
Begins(c) ==
    /\ call[c].at \in {"idle", "done"} /\ Counts
    /\ (\A d \in KeyCallers : call[d] = IdleCall) => c = FirstCaller
Moves(c, at) == call' = [call EXCEPT ![c].at = at]
Uses(c, id) == [call EXCEPT ![c].at = "done", ![c].id = id, ![c].done = keyTime]
Bound(id) == IF repository[id] \in KeyAliases THEN {<<repository[id], id>>} ELSE {}
Holders(alias) == {id \in KeyIds : repository[id] = alias}
Exists(id) == repository[id] \notin {"unused", "deleted"}

(* A binding made: whoever relies on it is right again *)
Binds(facts, moved) ==
    /\ settled' = settled \ facts
    /\ call' = [d \in KeyCallers |-> [moved[d] EXCEPT !.after = @ \ facts]]

-----------------------------------------------------------------------------
(* resolve *)

resolveByID(c, id) ==
    /\ Begins(c) /\ repository[id] # "unused"
    /\ keyCache' = AfterGet(keyCache, id)
    /\ call' = [call EXCEPT ![c] = IF Cached(keyCache, id) # {}
                                   THEN [Begin("done", "id", id, id) EXCEPT !.done = keyTime]
                                   ELSE Begin("find", "id", id, id)]
    /\ UNCHANGED <<repository, aliasIndex, keyTime, ended, settled, raced>>

resolveByAlias(c, alias) ==
    /\ Begins(c)
    /\ aliasIndex' = AfterGet(aliasIndex, alias)
    /\ LET hit == Cached(aliasIndex, alias)
       IN  call' = [call EXCEPT ![c] =
                       IF hit = {} THEN Begin("find", "alias", alias, "")
                       ELSE Begin("key", "alias", alias, (CHOOSE e \in hit : TRUE).value)]
    /\ UNCHANGED <<repository, keyCache, keyTime, ended, settled, raced>>

KeyOfAlias(c) ==
    /\ call[c].at = "key"
    /\ keyCache' = AfterGet(keyCache, call[c].id)
    /\ IF Cached(keyCache, call[c].id) # {} THEN call' = Uses(c, call[c].id) ELSE Moves(c, "forget")
    /\ UNCHANGED <<repository, aliasIndex, keyTime, keyCalls, ended, settled, raced>>

ForgetAlias(c) ==
    /\ call[c].at = "forget"
    /\ aliasIndex' = Dropped(aliasIndex, call[c].ref)
    /\ Moves(c, "find")
    /\ UNCHANGED <<repository, keyCache, keyTime, keyCalls, ended, settled, raced>>

(* FindByID or FindByAlias, then decapsulate, which shares nothing *)
Find(c) ==
    /\ call[c].at = "find"
    /\ \E id \in KeyIds :
          /\ Exists(id)
          /\ IF call[c].by = "id" THEN id = call[c].ref ELSE id \in Holders(call[c].ref)
          /\ call' = [call EXCEPT ![c].id = id, ![c].at = IF call[c].by = "id" THEN "cache" ELSE "index"]
    /\ UNCHANGED <<repository, aliasIndex, keyCache, keyTime, keyCalls, ended, settled, raced>>

PutAlias(c) ==
    /\ call[c].at = "index"
    /\ aliasIndex' = AfterPut(aliasIndex, call[c].ref, call[c].id, KeyAliasIndexTTL, KeyAliasIndexSize)
    /\ Moves(c, "cache")
    /\ UNCHANGED <<repository, keyCache, keyTime, keyCalls, ended, settled, raced>>

PutKey(c) ==
    /\ call[c].at = "cache"
    /\ keyCache' = AfterPut(keyCache, call[c].id, call[c].id, KeyCacheTTL, KeyCacheSize)
    /\ call' = IF call[c].by = "create" THEN [call EXCEPT ![c] = IdleCall] ELSE Uses(c, call[c].id)
    /\ UNCHANGED <<repository, aliasIndex, keyTime, keyCalls, ended, settled, raced>>

(* Not found, refused, or an error of the repository or the encapsulation service *)
CallFails(c) ==
    /\ \/ call[c].at = "find"
       \/ call[c].at = "index" /\ call[c].by = "alias"
       \/ call[c].at = "cache" /\ call[c].by = "id"
    /\ call' = [call EXCEPT ![c] = IdleCall]
    /\ UNCHANGED <<repository, aliasIndex, keyCache, keyTime, keyCalls, ended, settled, raced>>

-----------------------------------------------------------------------------
(* KeyManager *)

(* Encapsulate and the check of the new key share nothing. If the repository refuses,
   nothing has changed. *)
Create(c, alias) ==
    /\ Begins(c)
    /\ alias # NoAlias => Holders(alias) = {}
    /\ \E id \in KeyIds :
          /\ repository[id] = "unused"
          /\ repository' = [repository EXCEPT ![id] = alias]
          /\ call' = [call EXCEPT ![c] = Begin(IF alias = NoAlias THEN "cache" ELSE "index", "create", alias, id)]
    /\ UNCHANGED <<aliasIndex, keyCache, keyTime, ended, settled, raced>>

(* The repository binds an alias that no other key holds *)
Rebind(id, alias, moved) ==
    /\ Exists(id)
    /\ alias # NoAlias => Holders(alias) \subseteq {id}
    /\ repository' = [repository EXCEPT ![id] = alias]
    /\ LET made == {<<alias, id>>} \cap Facts
       IN  /\ ended' = [f \in Facts |-> IF f \in made THEN NotEnded
                                        ELSE IF f \in Bound(id) THEN keyTime ELSE ended[f]]
           /\ raced' = raced \ made
           /\ Binds(made, moved)

(* SetAlias, and DeleteAlias, for which alias is NoAlias *)
SetAlias(c, id, alias) ==
    /\ Begins(c)
    /\ Rebind(id, alias, [call EXCEPT ![c] = [Begin("clear", "set", alias, id)
                                                 EXCEPT !.ends = Bound(id) \ {<<alias, id>>}]])
    /\ UNCHANGED <<aliasIndex, keyCache, keyTime>>

Gone(id) == {<<Stored, id>>} \cup Bound(id)
DeleteByID(c, id) ==
    /\ Begins(c) /\ Exists(id)
    /\ repository' = [repository EXCEPT ![id] = "deleted"]
    /\ End(Gone(id))
    /\ call' = [call EXCEPT ![c] = [Begin("remove", "delete", id, id) EXCEPT !.ends = Gone(id)]]
    /\ UNCHANGED <<aliasIndex, keyCache, keyTime, settled, raced>>

RemoveKey(c) ==
    /\ call[c].at = "remove"
    /\ keyCache' = Dropped(keyCache, call[c].id)
    /\ Races({<<Stored, call[c].id>>})
    /\ Moves(c, "clear")
    /\ UNCHANGED <<repository, aliasIndex, keyTime, keyCalls, ended, settled>>

Settles(c) ==
    /\ Races(call[c].ends)
    /\ settled' = settled \cup {f \in call[c].ends : ended[f] # NotEnded}
    /\ call' = [call EXCEPT ![c] = IdleCall]
    /\ UNCHANGED <<repository, keyCache, keyTime, keyCalls, ended>>

(* Mutant: only the alias that the call named is forgotten *)
ClearOwnAlias(c) ==
    /\ call[c].at = "clear"
    /\ aliasIndex' = Dropped(aliasIndex, call[c].ref)
    /\ Settles(c)

ClearAliases(c) ==
    /\ call[c].at = "clear"
    /\ aliasIndex' = {}
    /\ Settles(c)

-----------------------------------------------------------------------------
(* Another process changes the repository, or an answer of it to this one is lost *)
ChangedElsewhere(id) ==
    /\ Counts
    /\ \/ \E alias \in (KeyAliases \cup {NoAlias}) \ {repository[id]} : Rebind(id, alias, call)
       \/ /\ Exists(id)
          /\ repository' = [repository EXCEPT ![id] = "deleted"]
          /\ End(Gone(id))
          /\ UNCHANGED <<call, settled, raced>>
    /\ UNCHANGED <<aliasIndex, keyCache, keyTime>>

(* A call takes one unit of time at most *)
TimePasses ==
    /\ keyTime < MaxKeyTime
    /\ \A c \in KeyCallers : call[c].at \in {"idle", "done"} \/ call[c].began = keyTime
    /\ keyTime' = keyTime + 1
    /\ UNCHANGED <<repository, aliasIndex, keyCache, keyCalls, call, ended, settled, raced>>

KeysNext ==
    \/ \E c \in KeyCallers :
          \/ KeyOfAlias(c) \/ ForgetAlias(c) \/ Find(c) \/ PutAlias(c) \/ PutKey(c)
          \/ CallFails(c) \/ RemoveKey(c) \/ ClearAliases(c)
          \/ \E id \in KeyIds : resolveByID(c, id) \/ DeleteByID(c, id)
          \/ \E alias \in KeyAliases : resolveByAlias(c, alias)
          \/ \E alias \in KeyAliases \cup {NoAlias} : Create(c, alias) \/ \E id \in KeyIds : SetAlias(c, id, alias)
    \/ \E id \in KeyIds : ChangedElsewhere(id)
    \/ TimePasses

KeysSpec == KeysInit /\ [][KeysNext]_keyVars

-----------------------------------------------------------------------------
ReliesOn(c) == {<<Stored, call[c].id>>} \cup (IF call[c].by = "alias" THEN {<<call[c].ref, call[c].id>>} ELSE {})
LivesFor(f) == IF f[1] = Stored THEN KeyCacheTTL ELSE KeyAliasIndexTTL

(* A call that starts after DeleteByID, SetAlias or DeleteAlias has returned does not
   use the deleted key or the key that the alias left, unless some lookup overlapped the
   change; and a change that was overlapped, or made elsewhere, or whose answer was
   lost, is noticed when a cache entry of its kind has expired. *)
ChangedKeysNoticed ==
    \A c \in KeyCallers : call[c].at = "done" =>
        \A f \in ReliesOn(c) :
           /\ f \in call[c].after => f \in raced
           /\ ended[f] # NotEnded => call[c].done <= ended[f] + LivesFor(f) + 1
=============================================================================
