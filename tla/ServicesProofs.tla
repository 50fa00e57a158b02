--------------------------- MODULE ServicesProofs ---------------------------
(***************************************************************************)
(* The components that share no state with the others: the token manager,  *)
(* the home database cache, the handshake and the keys of property         *)
(* encryption, each for any constants. A step of Services is a step of one *)
(* of them or leaves it as it is.                                          *)
(***************************************************************************)
EXTENDS TokenManager, HomeDbCache, Handshake, PropertyKeys, TLAPS, FiniteSetTheorems, SequenceTheorems, WellFoundedInduction

-----------------------------------------------------------------------------
(* neo4jAuthTokenManager.                                                  *)

Tokens == 0 .. manager.provided
Asking == {"check", "provider"}

\* Everything that is known of a token is about one that the provider gave out.
TokensKnown ==
  /\ manager \in [token : Nat, expired : BOOLEAN, provided : Nat]
  /\ manager.token \in Tokens
  /\ users \in [TokenUsers -> [at : {"idle", "lock", "reject"} \cup Asking, token : Nat]]
  /\ \A u \in TokenUsers : users[u].token \in Tokens
  /\ dropped \subseteq Tokens

\* The user that looks at the token or asks the provider has the lock.
TokenLocked == \A u \in TokenUsers : users[u].at \in Asking => tokenLock = u

\* The provider is asked only when there is no good token, and nobody but the one
\* who asks changes that.
AskedInNeed ==
  \A u \in TokenUsers : users[u].at = "provider" => manager.token = 0 \/ manager.expired

\* The manager never holds a token whose rejection it has handled, and only a user
\* that was given one reports it.
HeldIsGood ==
  /\ manager.token # 0 => manager.token \notin dropped
  /\ 0 \notin dropped
  /\ \A u \in TokenUsers : users[u].at = "reject" => users[u].token # 0

TokenInv == TokensKnown /\ TokenLocked /\ AskedInNeed /\ HeldIsGood

\* Nothing is given out before anyone asks.
LEMMA TokenInvStarts == TokenStart => TokenInv
  BY NobodyIsNoUser DEF TokenStart, TokenInv, TokensKnown, TokenLocked, AskedInNeed,
     HeldIsGood, Tokens, Asking

\* What a user knows after it was given a token.
LEMMA GivenToken ==
  ASSUME NEW S, NEW r \in [at : S, token : Nat], NEW t \in Nat
  PROVE  [r EXCEPT !.at = "idle", !.token = t] = [at |-> "idle", token |-> t]
<1> DEFINE one == [r EXCEPT !.at = "idle"]
           two == [one EXCEPT !.token = t]
<1>1. one = [at |-> "idle", token |-> r.token]
  OBVIOUS
<1> HIDE DEF one
<1>2. DOMAIN one = {"at", "token"} /\ one.at = "idle" /\ one = [f \in DOMAIN one |-> one[f]]
  BY <1>1
<1>3. two = [at |-> "idle", token |-> t]
  BY <1>2
<1> USE DEF one
<1> QED
  BY <1>3

\* Every step of GetAuthToken and HandleSecurityException keeps the invariant.
LEMMA TokenInvStays == TokenInv /\ [TokenNext]_tokenVars => TokenInv'
<1> SUFFICES ASSUME TokenInv, [TokenNext]_tokenVars
             PROVE  TokenInv'
  OBVIOUS
<1> USE NobodyIsNoUser DEF TokenInv, TokensKnown, TokenLocked, AskedInNeed, HeldIsGood,
        Tokens, Asking
<1>1. CASE TokenExpires
  BY <1>1 DEF TokenExpires
<1>2. ASSUME NEW u \in TokenUsers, AskToken(u)
      PROVE  TokenInv'
  BY <1>2 DEF AskToken
<1>3. ASSUME NEW u \in TokenUsers, TokenTryLock(u)
      PROVE  TokenInv'
  BY <1>3 DEF TokenTryLock
<1>4. ASSUME NEW u \in TokenUsers, TokenLockTimesOut(u)
      PROVE  TokenInv'
  BY <1>4 DEF TokenLockTimesOut
<1>5. ASSUME NEW u \in TokenUsers, CheckToken(u)
      PROVE  TokenInv'
  <2>1. CASE manager.token = 0 \/ manager.expired
    BY <1>5, <2>1 DEF CheckToken
  <2>2. CASE ~(manager.token = 0 \/ manager.expired)
    <3>1. /\ users' = [users EXCEPT ![u] = [at |-> "idle", token |-> manager.token]]
          /\ tokenLock' = Nobody /\ UNCHANGED <<manager, dropped>>
          /\ users[u].at = "check"
      BY <1>5, <2>2 DEF CheckToken
    <3> QED
      BY <3>1
  <2> QED
    BY <2>1, <2>2
<1>6. ASSUME NEW u \in TokenUsers, ProviderReturns(u)
      PROVE  TokenInv'
  <2> DEFINE t == manager.provided + 1
  <2>1. /\ manager' = [token |-> t, expired |-> FALSE, provided |-> t]
        /\ users' = [users EXCEPT ![u] = [at |-> "idle", token |-> t]]
        /\ tokenLock' = Nobody /\ UNCHANGED dropped
        /\ users[u].at = "provider"
    <3>1. t \in Nat
      OBVIOUS
    <3>2. /\ users' = [users EXCEPT ![u] = [@ EXCEPT !.at = "idle", !.token = t]]
          /\ users[u].at = "provider"
      BY <1>6 DEF ProviderReturns
    <3> HIDE DEF t
    <3>3. users[u] \in [at : {"idle", "lock", "reject"} \cup Asking, token : Nat]
      OBVIOUS
    <3>5. [users[u] EXCEPT !.at = "idle", !.token = t] = [at |-> "idle", token |-> t]
      BY <3>1, <3>3, GivenToken, Zenon
    <3>4. users' = [users EXCEPT ![u] = [at |-> "idle", token |-> t]]
      BY <3>2, <3>5
    <3> QED
      BY <1>6, <3>2, <3>4 DEF ProviderReturns, t
  <2>2. \A w \in TokenUsers \ {u} : users[w].at \notin Asking
    BY <2>1
  <2>3. TokensKnown'
    BY <2>1
  <2>4. HeldIsGood'
    BY <2>1
  <2>5. TokenLocked' /\ AskedInNeed'
    BY <2>1, <2>2
  <2> QED
    BY <2>3, <2>4, <2>5
<1>7. ASSUME NEW u \in TokenUsers, ProviderFails(u)
      PROVE  TokenInv'
  BY <1>7 DEF ProviderFails
<1>8. ASSUME NEW u \in TokenUsers, HandleSecurityException(u)
      PROVE  TokenInv'
  BY <1>8 DEF HandleSecurityException
<1>9. ASSUME NEW u \in TokenUsers, NEW code \in SecurityCodes, ServerRejects(u, code)
      PROVE  TokenInv'
  BY <1>9 DEF ServerRejects
<1>10. CASE UNCHANGED tokenVars
  BY <1>10 DEF tokenVars
<1> QED
  BY <1>1, <1>2, <1>3, <1>4, <1>5, <1>6, <1>7, <1>8, <1>9, <1>10 DEF TokenNext

\* A user is given a good token, and the manager gives one up only when it has expired
\* or was itself rejected.
LEMMA TokenSteps ==
  ASSUME TokenInv, TokenNext
  PROVE  /\ \A u \in TokenUsers : users'[u].token # users[u].token => users'[u].token \notin dropped
         /\ (manager.token # 0 /\ manager'.token # manager.token) =>
                (manager.expired \/ manager.token \in dropped')
<1> DEFINE Given == \A u \in TokenUsers : users'[u].token # users[u].token => users'[u].token \notin dropped
           Kept == (manager.token # 0 /\ manager'.token # manager.token) =>
                      (manager.expired \/ manager.token \in dropped')
<1> USE DEF TokenInv, TokensKnown, TokenLocked, AskedInNeed, HeldIsGood, Tokens, Asking
<1>1. CASE TokenExpires
  BY <1>1 DEF TokenExpires
<1>2. ASSUME NEW u \in TokenUsers,
             \/ AskToken(u) \/ TokenTryLock(u) \/ TokenLockTimesOut(u) \/ ProviderFails(u)
             \/ \E code \in SecurityCodes : ServerRejects(u, code)
      PROVE  Given /\ Kept
  <2>1. \E l \in {"idle", "lock", "check", "reject"} : users' = [users EXCEPT ![u].at = l]
    BY <1>2 DEF AskToken, TokenTryLock, TokenLockTimesOut, ProviderFails, ServerRejects
  <2>2. UNCHANGED manager
    BY <1>2 DEF AskToken, TokenTryLock, TokenLockTimesOut, ProviderFails, ServerRejects
  <2> QED
    BY <2>1, <2>2
<1>3. ASSUME NEW u \in TokenUsers, CheckToken(u)
      PROVE  Given /\ Kept
  <2>1. CASE manager.token = 0 \/ manager.expired
    BY <1>3, <2>1 DEF CheckToken
  <2>2. CASE ~(manager.token = 0 \/ manager.expired)
    <3>1. /\ users' = [users EXCEPT ![u] = [at |-> "idle", token |-> manager.token]]
          /\ UNCHANGED manager
      BY <1>3, <2>2 DEF CheckToken
    <3> QED
      BY <2>2, <3>1
  <2> QED
    BY <2>1, <2>2
<1>4. ASSUME NEW u \in TokenUsers, ProviderReturns(u)
      PROVE  Given /\ Kept
  <2> DEFINE t == manager.provided + 1
  <2>1. /\ users' = [users EXCEPT ![u] = [at |-> "idle", token |-> t]]
        /\ users[u].at = "provider"
    <3>1. t \in Nat
      OBVIOUS
    <3>2. /\ users' = [users EXCEPT ![u] = [@ EXCEPT !.at = "idle", !.token = t]]
          /\ users[u].at = "provider"
      BY <1>4 DEF ProviderReturns
    <3> HIDE DEF t
    <3>3. users[u] \in [at : {"idle", "lock", "reject"} \cup Asking, token : Nat]
      OBVIOUS
    <3>5. [users[u] EXCEPT !.at = "idle", !.token = t] = [at |-> "idle", token |-> t]
      BY <3>1, <3>3, GivenToken, Zenon
    <3>4. users' = [users EXCEPT ![u] = [at |-> "idle", token |-> t]]
      BY <3>2, <3>5
    <3> QED
      BY <1>4, <3>2, <3>4 DEF ProviderReturns, t
  <2>2. t \notin dropped
    OBVIOUS
  <2> HIDE DEF t
  <2> QED
    BY <2>1, <2>2
<1>5. ASSUME NEW u \in TokenUsers, HandleSecurityException(u)
      PROVE  Given /\ Kept
  BY <1>5 DEF HandleSecurityException
<1> QED
  BY <1>1, <1>2, <1>3, <1>4, <1>5 DEF TokenNext

\* A token whose rejection HandleSecurityException has handled is never given to anyone
\* again, and a late rejection of an older token costs the current one nothing: for any
\* number of sessions and connections that share the manager.
THEOREM RejectedTokensStayOut == TokenSpec => RejectedTokenReplaced
<1>1. TokenInv /\ TokenNext =>
        /\ \A u \in TokenUsers : users'[u].token # users[u].token => users'[u].token \notin dropped
        /\ (manager.token # 0 /\ manager'.token # manager.token) =>
               (manager.expired \/ manager.token \in dropped')
  BY TokenSteps
<1>2. QED
  BY <1>1, TokenInvStarts, TokenInvStays, PTL DEF TokenSpec, RejectedTokenReplaced

-----------------------------------------------------------------------------
(* homedb.Cache.                                                           *)

\* The cache is within its limit, and an entry is what the callers last did for the
\* person whose key it has: this is more than CacheKeepsLatest says, and is needed to
\* know that an entry which is pruned was used before all that stay.
CacheTypes ==
  /\ clock \in Nat
  /\ entries \in [DOMAIN entries -> [database : CacheDatabases, lastUsed : Nat]]
  /\ latest \in [Persons -> CacheDatabases \cup {"none"}]
  /\ access \in [Persons -> Nat \cup {Never}]
  /\ readers \subseteq CacheUsers
CacheFits == IsFiniteSet(DOMAIN entries) /\ Cardinality(DOMAIN entries) <= MaxCacheSize
EntryOf(u) ==
  KeyOf(u) \in DOMAIN entries =>
    /\ entries[KeyOf(u)].database = latest[u.person]
    /\ entries[KeyOf(u)].lastUsed = access[u.person]
CacheInv ==
  /\ CacheTypes /\ CacheFits
  /\ \A u \in CacheUsers : EntryOf(u)
  /\ \A p \in Persons : access[p] <= clock

\* The cache starts empty.
LEMMA CacheInvStarts == CacheStart => CacheInv
<1> SUFFICES ASSUME CacheStart
             PROVE  CacheInv
  OBVIOUS
<1>1. DOMAIN entries = {}
  BY DEF CacheStart
<1>2. CacheFits
  BY <1>1, FS_EmptySet, CacheLimits DEF CacheFits
<1> QED
  BY <1>1, <1>2 DEF CacheStart, CacheInv, CacheTypes, EntryOf, Never

\* What prune leaves of the entries es is within the limit and as it was, and nothing
\* that it takes away was used later than anything it leaves.
LEMMA PruneKeepsRecent ==
  ASSUME NEW es, es = [k \in DOMAIN es |-> es[k]],
         IsFiniteSet(DOMAIN es), Cardinality(DOMAIN es) <= MaxCacheSize + 1,
         NEW left \in prune(es)
  PROVE  /\ DOMAIN left \subseteq DOMAIN es /\ IsFiniteSet(DOMAIN left)
         /\ left = [k \in DOMAIN left |-> es[k]]
         /\ Cardinality(DOMAIN left) <= MaxCacheSize
         /\ \A k \in DOMAIN es \ DOMAIN left, l \in DOMAIN left : es[k].lastUsed <= es[l].lastUsed
<1> DEFINE n == Cardinality(DOMAIN es)
<1>1. n \in Nat
  BY FS_CardinalityType
<1>2. CASE n <= MaxCacheSize
  BY <1>2 DEF prune
<1>3. CASE ~(n <= MaxCacheSize)
  <2>1. PICK S \in Oldest(es) : left = [k \in DOMAIN es \ S |-> es[k]]
    BY <1>3 DEF prune
  <2>2. /\ S \subseteq DOMAIN es
        /\ Cardinality(S) = IF PruneFactor > n THEN n ELSE PruneFactor
        /\ \A k \in S, l \in DOMAIN es \ S : es[k].lastUsed <= es[l].lastUsed
    BY <2>1 DEF Oldest
  <2>3. DOMAIN left = DOMAIN es \ S /\ left = [k \in DOMAIN left |-> es[k]]
    BY <2>1
  <2>4. (DOMAIN es) \cap S = S
    BY <2>2
  <2>5. IsFiniteSet(DOMAIN left) /\ Cardinality(DOMAIN left) = n - Cardinality(S)
    <3>1. /\ IsFiniteSet((DOMAIN es) \ S)
          /\ Cardinality((DOMAIN es) \ S) = Cardinality(DOMAIN es) - Cardinality((DOMAIN es) \cap S)
      BY FS_Difference
    <3> QED
      BY <3>1, <2>3, <2>4
  <2>6. Cardinality(S) \in Nat \ {0}
    BY <2>2, <1>1, <1>3, CacheLimits
  <2>7. Cardinality(DOMAIN left) <= MaxCacheSize
    BY <2>5, <2>6, <1>1, CacheLimits
  <2> QED
    BY <2>2, <2>3, <2>5, <2>7
<1> QED
  BY <1>2, <1>3

\* Set puts the entry of its caller and prunes: it keeps the invariant, and nobody is
\* pruned who used the cache later than somebody who stays.
LEMMA SetKeepsLatest ==
  ASSUME CacheInv, NEW u \in CacheUsers, NEW d \in CacheDatabases, CacheSet(u, d)
  PROVE  /\ CacheInv'
         /\ \A x, w \in CacheUsers :
               (KeyOf(x) \in DOMAIN entries \ DOMAIN entries' /\ KeyOf(w) \in DOMAIN entries')
                   => access[x.person] <= access'[w.person]
<1> DEFINE e == [database |-> d, lastUsed |-> clock]
           es == WithEntry(KeyOf(u), e)
<1>1. /\ entries' \in prune(es)
      /\ latest' = [latest EXCEPT ![u.person] = d] /\ access' = [access EXCEPT ![u.person] = clock]
      /\ UNCHANGED <<clock, readers>>
  BY DEF CacheSet
<1>2. u.person \in Persons /\ \A w \in CacheUsers : w.person \in Persons
  BY DEF Persons
<1>3. /\ es = [k \in DOMAIN es |-> es[k]] /\ DOMAIN es = {KeyOf(u)} \cup DOMAIN entries
      /\ es[KeyOf(u)] = e /\ \A k \in DOMAIN entries : k # KeyOf(u) => es[k] = entries[k]
  BY DEF WithEntry
<1>4. e \in [database : CacheDatabases, lastUsed : Nat] /\ e.database = d /\ e.lastUsed = clock
  BY DEF CacheInv, CacheTypes
<1>5. IsFiniteSet(DOMAIN es) /\ Cardinality(DOMAIN es) <= MaxCacheSize + 1
  <2>1. DOMAIN es = (DOMAIN entries) \cup {KeyOf(u)}
    BY <1>3
  <2>2. IsFiniteSet(DOMAIN entries) /\ Cardinality(DOMAIN entries) <= MaxCacheSize
    BY DEF CacheInv, CacheFits
  <2>3. Cardinality(DOMAIN entries) \in Nat
    BY <2>2, FS_CardinalityType
  <2>4. /\ IsFiniteSet((DOMAIN entries) \cup {KeyOf(u)})
        /\ Cardinality((DOMAIN entries) \cup {KeyOf(u)})
             = IF KeyOf(u) \in DOMAIN entries THEN Cardinality(DOMAIN entries)
               ELSE Cardinality(DOMAIN entries) + 1
    BY <2>2, FS_AddElement
  <2> HIDE DEF es
  <2> QED
    BY <2>1, <2>2, <2>3, <2>4, CacheLimits
<1> HIDE DEF es, e
<1>6. /\ DOMAIN entries' \subseteq DOMAIN es /\ IsFiniteSet(DOMAIN entries')
      /\ entries' = [k \in DOMAIN entries' |-> es[k]]
      /\ Cardinality(DOMAIN entries') <= MaxCacheSize
      /\ \A k \in DOMAIN es \ DOMAIN entries', l \in DOMAIN entries' : es[k].lastUsed <= es[l].lastUsed
  BY <1>1, <1>3, <1>5, PruneKeepsRecent
<1>7. \A k \in DOMAIN entries' : entries'[k] = es[k]
  BY <1>6
<1>8. \A w \in CacheUsers : KeyOf(w) \in DOMAIN es =>
         es[KeyOf(w)].database = latest'[w.person] /\ es[KeyOf(w)].lastUsed = access'[w.person]
  <2> SUFFICES ASSUME NEW w \in CacheUsers, KeyOf(w) \in DOMAIN es
               PROVE  es[KeyOf(w)].database = latest'[w.person] /\ es[KeyOf(w)].lastUsed = access'[w.person]
    OBVIOUS
  <2>1. CASE KeyOf(w) = KeyOf(u)
    <3>1. w.person = u.person
      BY <2>1, OneKeyPerPerson
    <3> QED
      BY <2>1, <3>1, <1>1, <1>2, <1>3, <1>4 DEF CacheInv, CacheTypes
  <2>2. CASE KeyOf(w) # KeyOf(u)
    <3>1. w.person # u.person
      BY <2>2, OneKeyPerPerson
    <3> QED
      BY <2>2, <3>1, <1>1, <1>2, <1>3 DEF CacheInv, CacheTypes, EntryOf
  <2> QED
    BY <2>1, <2>2
<1>9. CacheTypes'
  <2>1. \A k \in DOMAIN es : es[k] \in [database : CacheDatabases, lastUsed : Nat]
    BY <1>3, <1>4 DEF CacheInv, CacheTypes
  <2>2. entries' \in [DOMAIN entries' -> [database : CacheDatabases, lastUsed : Nat]]
    BY <2>1, <1>6
  <2> QED
    BY <2>2, <1>1, <1>2 DEF CacheInv, CacheTypes
<1>10. \A p \in Persons : access'[p] <= clock'
  BY <1>1 DEF CacheInv, CacheTypes
<1>11. CacheInv'
  BY <1>6, <1>7, <1>8, <1>9, <1>10 DEF CacheInv, CacheFits, EntryOf
<1>12. ASSUME NEW x \in CacheUsers, NEW w \in CacheUsers,
              KeyOf(x) \in DOMAIN entries \ DOMAIN entries', KeyOf(w) \in DOMAIN entries'
       PROVE  access[x.person] <= access'[w.person]
  <2>1. es[KeyOf(x)].lastUsed <= access'[w.person]
    BY <1>12, <1>3, <1>6, <1>8
  <2>2. access[x.person] \in Int /\ access[x.person] <= es[KeyOf(x)].lastUsed
    BY <1>12, <1>2, <1>3, <1>4 DEF CacheInv, CacheTypes, EntryOf, Never
  <2>3. es[KeyOf(x)].lastUsed \in Nat
    BY <1>12, <1>3, <1>4 DEF CacheInv, CacheTypes
  <2>4. access'[w.person] \in Int
    BY <1>9, <1>2 DEF CacheTypes, Never
  <2> QED
    BY <2>1, <2>2, <2>3, <2>4
<1> QED
  BY <1>11, <1>12

\* Get stamps the entry that it finds.
LEMMA GetKeepsLatest ==
  ASSUME CacheInv, NEW u \in CacheUsers, CacheGet(u)
  PROVE  CacheInv' /\ DOMAIN entries' = DOMAIN entries
<1>1. CASE KeyOf(u) \notin DOMAIN entries
  BY <1>1 DEF CacheGet, CacheInv, CacheTypes, CacheFits, EntryOf
<1>2. CASE KeyOf(u) \in DOMAIN entries
  <2> DEFINE k == KeyOf(u)
             e == [database |-> entries[k].database, lastUsed |-> clock]
  <2>1. /\ entries' = [entries EXCEPT ![k].lastUsed = clock]
        /\ access' = [access EXCEPT ![u.person] = clock]
        /\ readers' = readers \ {u} /\ UNCHANGED <<clock, latest>>
    BY <1>2 DEF CacheGet
  <2>2. entries[k] \in [database : CacheDatabases, lastUsed : Nat] /\ clock \in Nat
    BY <1>2 DEF CacheInv, CacheTypes
  <2>3. [entries[k] EXCEPT !.lastUsed = clock] = e
    BY <2>2
  <2>4. entries' = [entries EXCEPT ![k] = e] /\ e \in [database : CacheDatabases, lastUsed : Nat]
    BY <2>1, <2>2, <2>3
  <2>5. e.lastUsed = clock /\ e.database = entries[k].database
    OBVIOUS
  <2> HIDE DEF e, k
  <2>6. DOMAIN entries' = DOMAIN entries
    BY <2>4
  <2>7. CacheTypes'
    <3>1. CacheTypes
      BY DEF CacheInv
    <3>2. entries' \in [DOMAIN entries -> [database : CacheDatabases, lastUsed : Nat]]
      BY <2>4, <3>1 DEF CacheTypes
    <3>3. access' \in [Persons -> Nat \cup {Never}]
      BY <2>1, <3>1 DEF CacheTypes
    <3>4. latest' \in [Persons -> CacheDatabases \cup {"none"}] /\ clock' \in Nat /\ readers' \subseteq CacheUsers
      BY <2>1, <3>1 DEF CacheTypes
    <3> QED
      BY <2>6, <3>2, <3>3, <3>4 DEF CacheTypes
  <2>8. u.person \in Persons /\ \A w \in CacheUsers : w.person \in Persons
    BY DEF Persons
  <2>9. ASSUME NEW w \in CacheUsers, KeyOf(w) \in DOMAIN entries
        PROVE  /\ entries'[KeyOf(w)].database = latest'[w.person]
               /\ entries'[KeyOf(w)].lastUsed = access'[w.person]
    <3>0. entries[KeyOf(w)].database = latest[w.person] /\ entries[KeyOf(w)].lastUsed = access[w.person]
      BY <2>9 DEF CacheInv, EntryOf
    <3>1. CASE KeyOf(w) = k
      <4>1. w.person = u.person
        BY <3>1, OneKeyPerPerson DEF k
      <4> QED
        BY <3>0, <3>1, <4>1, <2>1, <2>4, <2>5, <2>8, <2>9 DEF CacheInv, CacheTypes
    <3>2. CASE KeyOf(w) # k
      <4>1. w.person # u.person
        BY <3>2, OneKeyPerPerson DEF k
      <4> QED
        BY <3>0, <3>2, <4>1, <2>1, <2>4, <2>8, <2>9 DEF CacheInv, CacheTypes
    <3> QED
      BY <3>1, <3>2
  <2>10. \A p \in Persons : access'[p] <= clock'
    BY <2>1 DEF CacheInv, CacheTypes
  <2> QED
    BY <2>6, <2>7, <2>9, <2>10 DEF CacheInv, CacheFits, EntryOf
<1> QED
  BY <1>1, <1>2

\* What every step of the cache does: the invariant stays, and nobody is pruned who used
\* the cache later than somebody who stays.
LEMMA CacheSteps ==
  ASSUME CacheInv, CacheNext
  PROVE  /\ CacheInv'
         /\ \A x, w \in CacheUsers :
               (KeyOf(x) \in DOMAIN entries \ DOMAIN entries' /\ KeyOf(w) \in DOMAIN entries')
                   => access[x.person] <= access'[w.person]
<1>1. ASSUME NEW u \in CacheUsers, CacheGetStarts(u)
      PROVE  CacheInv' /\ DOMAIN entries' = DOMAIN entries
  BY <1>1 DEF CacheGetStarts, CacheInv, CacheTypes, CacheFits, EntryOf
<1>2. ASSUME NEW b \in BOOLEAN, CacheSetEnabled(b)
      PROVE  CacheInv' /\ DOMAIN entries' = DOMAIN entries
  BY <1>2 DEF CacheSetEnabled, CacheInv, CacheTypes, CacheFits, EntryOf
<1>3. CASE ClockTicks
  <2>1. \A p \in Persons : access'[p] <= clock'
    BY <1>3 DEF ClockTicks, CacheInv, CacheTypes, Never
  <2> QED
    BY <1>3, <2>1 DEF ClockTicks, CacheInv, CacheTypes, CacheFits, EntryOf
<1> QED
  BY <1>1, <1>2, <1>3, SetKeepsLatest, GetKeepsLatest DEF CacheNext

\* For any number of callers and any limit, the cache of home databases never outgrows its
\* limit, Get returns the last database that Set was given for the person, and prune takes
\* the least recently used: whatever Get and Set interleave and however coarse the clock.
THEOREM CacheIsLeastRecentlyUsed == CacheSpec => CacheKeepsLatest
<1> DEFINE Step ==
      /\ Cardinality(DOMAIN entries') <= MaxCacheSize
      /\ \A u \in CacheUsers : KeyOf(u) \in DOMAIN entries' => entries'[KeyOf(u)].database = latest'[u.person]
      /\ \A u, w \in CacheUsers :
            (KeyOf(u) \in DOMAIN entries \ DOMAIN entries' /\ KeyOf(w) \in DOMAIN entries')
                => access[u.person] <= access'[w.person]
<1>1. CacheInv /\ CacheNext => Step
  BY CacheSteps DEF CacheInv, CacheFits, EntryOf
<1>2. CacheInv /\ UNCHANGED cacheVars => CacheInv'
  BY DEF CacheInv, CacheTypes, CacheFits, EntryOf, cacheVars
<1>3. CacheInv /\ CacheNext => CacheInv'
  BY CacheSteps
<1>4. QED
  BY <1>1, <1>2, <1>3, CacheInvStarts, PTL DEF CacheSpec, CacheKeepsLatest

-----------------------------------------------------------------------------
(* The handshake.                                                          *)

\* A set of numbers that is not empty has a least one.
LEMMA LeastExists ==
  ASSUME NEW T, T \subseteq Nat, T # {}
  PROVE  \E i \in T : \A j \in T : i <= j
<1>1. PICK i \in T : \A j \in T : ~(<<j, i>> \in OpToRel(<, Nat))
  BY NatLessThanWellFounded, WFMin
<1>2. \A j \in T : ~(j < i)
  BY <1>1 DEF OpToRel
<1> QED
  BY <1>2

\* The version that expand puts at a place.
VersionAt(i) ==
  IF i <= 2 THEN <<6, 2 - i>>
  ELSE IF i <= 11 THEN <<5, 11 - i>>
  ELSE IF i <= 14 THEN <<4, 16 - i>>
  ELSE <<3, 0>>

\* A list that goes on where another ends.
LEMMA Continued ==
  ASSUME NEW V, NEW s \in Seq(V), NEW t \in Seq(V),
         \A i \in 1 .. Len(s) : s[i] = VersionAt(i),
         \A i \in 1 .. Len(t) : t[i] = VersionAt(i + Len(s))
  PROVE  /\ s \o t \in Seq(V) /\ Len(s \o t) = Len(s) + Len(t)
         /\ \A i \in 1 .. Len(s \o t) : (s \o t)[i] = VersionAt(i)
<1>1. /\ s \o t \in Seq(V)
      /\ Len(s \o t) = Len(s) + Len(t)
      /\ \A i \in 1 .. Len(s) + Len(t) : (s \o t)[i] = IF i <= Len(s) THEN s[i] ELSE t[i - Len(s)]
  BY ConcatProperties
<1>2. Len(s) \in Nat /\ Len(t) \in Nat
  OBVIOUS
<1>3. ASSUME NEW i \in 1 .. Len(s) + Len(t)
      PROVE  (s \o t)[i] = VersionAt(i)
  <2>1. CASE i <= Len(s)
    BY <1>1, <1>2, <1>3, <2>1
  <2>2. CASE ~(i <= Len(s))
    <3>1. i - Len(s) \in 1 .. Len(t) /\ (i - Len(s)) + Len(s) = i
      BY <1>2, <1>3, <2>2
    <3>2. t[i - Len(s)] = VersionAt((i - Len(s)) + Len(s))
      BY <3>1
    <3> QED
      BY <1>1, <1>3, <2>2, <3>1, <3>2
  <2> QED
    BY <2>1, <2>2
<1> QED
  BY <1>1, <1>3

\* supportedVersions expanded: 6.1, 6.0, 5.8 down to 5.0, 4.4 down to 4.2 and 3.0.
LEMMA CandidatesExpanded ==
  Len(Candidates) = 15 /\ \A i \in 1 .. 15 : Candidates[i] = VersionAt(i)
<1> DEFINE V == Nat \X Nat
           six == [i \in 1 .. 2 |-> <<6, 1 - (i - 1)>>]
           five == [i \in 1 .. 9 |-> <<5, 8 - (i - 1)>>]
           four == [i \in 1 .. 3 |-> <<4, 4 - (i - 1)>>]
           three == [i \in 1 .. 1 |-> <<3, 0 - (i - 1)>>]
<1>1. Candidates = six \o five \o four \o three
  <2> DEFINE expand(v) == [i \in 1 .. v.back + 1 |-> <<v.major, v.minor - (i - 1)>>]
  <2>1. Candidates = expand(supportedVersions[1]) \o expand(supportedVersions[2])
                     \o expand(supportedVersions[3]) \o expand(supportedVersions[4])
    BY DEF Candidates
  <2>2. /\ supportedVersions[1] = [major |-> 6, minor |-> 1, back |-> 1]
        /\ supportedVersions[2] = [major |-> 5, minor |-> 8, back |-> 8]
        /\ supportedVersions[3] = [major |-> 4, minor |-> 4, back |-> 2]
        /\ supportedVersions[4] = [major |-> 3, minor |-> 0, back |-> 0]
    BY DEF supportedVersions
  <2>3. expand(supportedVersions[1]) = six /\ expand(supportedVersions[2]) = five
    BY <2>2
  <2>4. expand(supportedVersions[3]) = four /\ expand(supportedVersions[4]) = three
    BY <2>2
  <2> HIDE DEF expand, six, five, four, three
  <2> QED
    BY <2>1, <2>3, <2>4
<1>2. six \in Seq(V) /\ Len(six) = 2
  OBVIOUS
<1>3. five \in Seq(V) /\ Len(five) = 9
  OBVIOUS
<1>4. four \in Seq(V) /\ Len(four) = 3
  OBVIOUS
<1>5. three \in Seq(V) /\ Len(three) = 1
  OBVIOUS
<1>6. /\ \A i \in 1 .. 2 : six[i] = VersionAt(i)
      /\ \A i \in 1 .. 9 : five[i] = VersionAt(i + 2)
      /\ \A i \in 1 .. 3 : four[i] = VersionAt(i + 11)
      /\ \A i \in 1 .. 1 : three[i] = VersionAt(i + 14)
  BY DEF VersionAt
<1> HIDE DEF six, five, four, three, V
<1> DEFINE upTo5 == six \o five
           upTo4 == upTo5 \o four
           upTo3 == upTo4 \o three
<1> HIDE DEF upTo5, upTo4, upTo3
<1>7. /\ upTo5 \in Seq(V) /\ Len(upTo5) = 11
      /\ \A i \in 1 .. 11 : upTo5[i] = VersionAt(i)
  <2>1. six \in Seq(V) /\ five \in Seq(V)
    BY <1>2, <1>3
  <2>2. \A i \in 1 .. Len(six) : six[i] = VersionAt(i)
    BY <1>2, <1>3, <1>6
  <2>3. \A i \in 1 .. Len(five) : five[i] = VersionAt(i + Len(six))
    BY <1>2, <1>3, <1>6
  <2>4. /\ upTo5 \in Seq(V) /\ Len(upTo5) = Len(six) + Len(five)
        /\ \A i \in 1 .. Len(upTo5) : upTo5[i] = VersionAt(i)
    BY <2>1, <2>2, <2>3, Continued DEF upTo5
  <2> QED
    BY <1>2, <1>3, <2>4
<1>8. /\ upTo4 \in Seq(V) /\ Len(upTo4) = 14
      /\ \A i \in 1 .. 14 : upTo4[i] = VersionAt(i)
  <2>1. upTo5 \in Seq(V) /\ four \in Seq(V)
    BY <1>4, <1>7
  <2>2. \A i \in 1 .. Len(upTo5) : upTo5[i] = VersionAt(i)
    BY <1>4, <1>7, <1>6
  <2>3. \A i \in 1 .. Len(four) : four[i] = VersionAt(i + Len(upTo5))
    BY <1>4, <1>7, <1>6
  <2>4. /\ upTo4 \in Seq(V) /\ Len(upTo4) = Len(upTo5) + Len(four)
        /\ \A i \in 1 .. Len(upTo4) : upTo4[i] = VersionAt(i)
    BY <2>1, <2>2, <2>3, Continued DEF upTo4
  <2> QED
    BY <1>4, <1>7, <2>4
<1>9. /\ upTo3 \in Seq(V) /\ Len(upTo3) = 15
      /\ \A i \in 1 .. 15 : upTo3[i] = VersionAt(i)
  <2>1. upTo4 \in Seq(V) /\ three \in Seq(V)
    BY <1>5, <1>8
  <2>2. \A i \in 1 .. Len(upTo4) : upTo4[i] = VersionAt(i)
    BY <1>5, <1>8, <1>6
  <2>3. \A i \in 1 .. Len(three) : three[i] = VersionAt(i + Len(upTo4))
    BY <1>5, <1>8, <1>6
  <2>4. /\ upTo3 \in Seq(V) /\ Len(upTo3) = Len(upTo4) + Len(three)
        /\ \A i \in 1 .. Len(upTo3) : upTo3[i] = VersionAt(i)
    BY <2>1, <2>2, <2>3, Continued DEF upTo3
  <2> QED
    BY <1>5, <1>8, <2>4
<1> QED
  BY <1>1, <1>9 DEF upTo3, upTo4, upTo5

\* The versions of the driver are its candidates, the better ones first.
LEMMA CandidatesOrdered ==
  /\ \A v : v \in Spoken(supportedVersions) <=> \E i \in 1 .. 15 : v = VersionAt(i)
  /\ \A i, j \in 1 .. 15 : i <= j => ~Better(VersionAt(j), VersionAt(i))
<1>1. Len(supportedVersions) = 4
  BY DEF supportedVersions
<1>2. /\ supportedVersions[1] = [major |-> 6, minor |-> 1, back |-> 1]
      /\ supportedVersions[2] = [major |-> 5, minor |-> 8, back |-> 8]
      /\ supportedVersions[3] = [major |-> 4, minor |-> 4, back |-> 2]
      /\ supportedVersions[4] = [major |-> 3, minor |-> 0, back |-> 0]
  BY DEF supportedVersions
<1>3. ASSUME NEW v, v \in Spoken(supportedVersions)
      PROVE  \E i \in 1 .. 15 : v = VersionAt(i)
  <2>1. PICK k \in 1 .. 4 : \E b \in 0 .. supportedVersions[k].back :
           v = <<supportedVersions[k].major, supportedVersions[k].minor - b>>
    BY <1>1, <1>3 DEF Spoken
  <2>2. CASE k = 1
    <3>1. PICK b \in 0 .. 1 : v = <<6, 1 - b>>
      BY <1>2, <2>1, <2>2
    <3>2. 1 + b \in 1 .. 15 /\ v = VersionAt(1 + b)
      BY <3>1 DEF VersionAt
    <3> QED
      BY <3>2
  <2>3. CASE k = 2
    <3>1. PICK b \in 0 .. 8 : v = <<5, 8 - b>>
      BY <1>2, <2>1, <2>3
    <3>2. 3 + b \in 1 .. 15 /\ v = VersionAt(3 + b)
      BY <3>1 DEF VersionAt
    <3> QED
      BY <3>2
  <2>4. CASE k = 3
    <3>1. PICK b \in 0 .. 2 : v = <<4, 4 - b>>
      BY <1>2, <2>1, <2>4
    <3>2. 12 + b \in 1 .. 15 /\ v = VersionAt(12 + b)
      BY <3>1 DEF VersionAt
    <3> QED
      BY <3>2
  <2>5. CASE k = 4
    <3>1. PICK b \in 0 .. 0 : v = <<3, 0 - b>>
      BY <1>2, <2>1, <2>5
    <3>2. b = 0
      BY <3>1
    <3>3. v = VersionAt(15)
      BY <3>1, <3>2, 0 - 0 = 0 DEF VersionAt
    <3> QED
      BY <3>3
  <2> QED
    BY <2>2, <2>3, <2>4, <2>5
<1>4. ASSUME NEW i \in 1 .. 15
      PROVE  VersionAt(i) \in Spoken(supportedVersions)
  <2>1. \E k \in 1 .. 4 : \E b \in 0 .. supportedVersions[k].back :
           VersionAt(i) = <<supportedVersions[k].major, supportedVersions[k].minor - b>>
    <3>1. CASE i \in 1 .. 2
      <4>1. i - 1 \in 0 .. 1 /\ VersionAt(i) = <<6, 1 - (i - 1)>>
        BY <3>1 DEF VersionAt
      <4> QED
        BY <4>1, <1>2
    <3>2. CASE i \in 3 .. 11
      <4>1. i - 3 \in 0 .. 8 /\ VersionAt(i) = <<5, 8 - (i - 3)>>
        BY <3>2 DEF VersionAt
      <4> QED
        BY <4>1, <1>2
    <3>3. CASE i \in 12 .. 14
      <4>1. i - 12 \in 0 .. 2 /\ VersionAt(i) = <<4, 4 - (i - 12)>>
        BY <3>3 DEF VersionAt
      <4> QED
        BY <4>1, <1>2
    <3>4. CASE i = 15
      <4>1. 0 \in 0 .. 0 /\ VersionAt(i) = <<3, 0 - 0>>
        BY <3>4 DEF VersionAt
      <4> QED
        BY <4>1, <1>2
    <3> QED
      BY <3>1, <3>2, <3>3, <3>4
  <2> QED
    BY <1>1, <2>1 DEF Spoken
<1>5. ASSUME NEW i \in 1 .. 15, NEW j \in 1 .. 15, i <= j
      PROVE  ~Better(VersionAt(j), VersionAt(i))
  BY <1>5 DEF VersionAt, Better
<1> QED
  BY <1>3, <1>4, <1>5

\* What the byte arithmetic of the comparison says of a range that does not go below 0.
LEMMA OfferCovers ==
  ASSUME NEW offer \in Offer, offer.back <= offer.minor, NEW i \in 1 .. 15
  PROVE  InOffer(VersionAt(i), offer) <=>
           \E b \in 0 .. offer.back : VersionAt(i) = <<offer.major, offer.minor - b>>
<1> DEFINE a == VersionAt(i)[1]
           n == VersionAt(i)[2]
           minor == offer.minor
           back == offer.back
<1>1. VersionAt(i) = <<a, n>> /\ a \in Nat /\ n \in Nat
  BY DEF VersionAt
<1>2. minor \in Nat /\ minor <= 255 /\ back \in Nat /\ back <= minor
  BY DEF Offer
<1>3. InOffer(VersionAt(i), offer) <=> a = offer.major /\ n <= minor /\ n >= (minor - back) % 256
  BY DEF InOffer
<1> HIDE DEF a, n, minor, back
<1>4. (minor - back) % 256 = minor - back
  BY <1>2
<1>5. ASSUME a = offer.major, n <= minor, n >= minor - back
      PROVE  \E b \in 0 .. back : VersionAt(i) = <<offer.major, minor - b>>
  <2>1. minor - n \in 0 .. back /\ minor - (minor - n) = n
    BY <1>1, <1>2, <1>5
  <2> QED
    BY <1>1, <1>5, <2>1
<1>6. ASSUME NEW b \in 0 .. back, VersionAt(i) = <<offer.major, minor - b>>
      PROVE  a = offer.major /\ n <= minor /\ n >= minor - back
  <2>1. a = offer.major /\ n = minor - b
    BY <1>1, <1>6
  <2> QED
    BY <1>2, <2>1
<1> QED
  BY <1>3, <1>4, <1>5, <1>6 DEF minor, back

Shared(offers) == Spoken(supportedVersions) \cap Spoken(offers)

\* selectProtocol finds the best version that both ends speak, and none only if there is none.
LEMMA SelectsBest ==
  ASSUME NEW offers \in Seq(Offer), \A k \in 1 .. Len(offers) : offers[k].back <= offers[k].minor
  PROVE  IF selectProtocol(offers) = Nothing THEN Shared(offers) = {}
         ELSE /\ selectProtocol(offers) \in Shared(offers)
              /\ \A v \in Shared(offers) : ~Better(v, selectProtocol(offers))
<1> DEFINE Match == Matching(offers)
<1>1. \A k \in 1 .. Len(offers) : offers[k] \in Offer
  OBVIOUS
<1>2. Match = {i \in 1 .. 15 : \E k \in 1 .. Len(offers) : InOffer(VersionAt(i), offers[k])}
  BY CandidatesExpanded DEF Matching
<1>3. \A i \in 1 .. 15 : i \in Match <=> VersionAt(i) \in Spoken(offers)
  <2>1. \A i \in 1 .. 15 : i \in Match <=>
           \E k \in 1 .. Len(offers) : \E b \in 0 .. offers[k].back :
              VersionAt(i) = <<offers[k].major, offers[k].minor - b>>
    BY <1>1, <1>2, OfferCovers
  <2>2. ASSUME NEW v, v \in Spoken(offers)
        PROVE  \E k \in 1 .. Len(offers) : \E b \in 0 .. offers[k].back :
                  v = <<offers[k].major, offers[k].minor - b>>
    BY <2>2 DEF Spoken
  <2>3. ASSUME NEW v, NEW k \in 1 .. Len(offers), NEW b \in 0 .. offers[k].back,
               v = <<offers[k].major, offers[k].minor - b>>
        PROVE  v \in Spoken(offers)
    BY <2>3 DEF Spoken
  <2> QED
    BY <2>1, <2>2, <2>3
<1>4. \A v : v \in Shared(offers) <=> \E i \in Match : v = VersionAt(i)
  BY <1>2, <1>3, CandidatesOrdered DEF Shared
<1>5. CASE Match = {}
  <2>1. selectProtocol(offers) = Nothing
    BY <1>5 DEF selectProtocol
  <2> QED
    BY <2>1, <1>4, <1>5
<1>6. CASE Match # {}
  <2> DEFINE first == CHOOSE i \in Match : \A j \in Match : i <= j
  <2>1. Match \subseteq Nat
    BY <1>2
  <2>2. first \in Match /\ \A j \in Match : first <= j
    BY <1>6, <2>1, LeastExists
  <2>3. selectProtocol(offers) = Candidates[first]
    BY <1>6 DEF selectProtocol
  <2> HIDE DEF first, Match
  <2>4. first \in 1 .. 15 /\ \A j \in Match : j \in 1 .. 15
    BY <1>2, <2>2
  <2>5. selectProtocol(offers) = VersionAt(first)
    BY <2>3, <2>4, CandidatesExpanded
  <2>6. selectProtocol(offers) # Nothing
    BY <2>4, <2>5 DEF VersionAt, Nothing
  <2>7. selectProtocol(offers) \in Shared(offers)
    BY <1>4, <2>2, <2>5
  <2>8. \A v \in Shared(offers) : ~Better(v, selectProtocol(offers))
    BY <1>4, <2>2, <2>4, <2>5, CandidatesOrdered
  <2> QED
    BY <2>6, <2>7, <2>8
<1> QED
  BY <1>5, <1>6

\* A part of a list has been read, and there is more.
PartOf(read, all, S) ==
  read \in Seq(S) /\ Len(read) < Len(all) /\ \A i \in 1 .. Len(read) : read[i] = all[i]

\* Reading one more gives a longer part, or the whole.
LEMMA ReadsOn ==
  ASSUME NEW S, NEW all \in Seq(S), NEW read, PartOf(read, all, S)
  PROVE  LET more == Append(read, all[Len(read) + 1])
         IN  /\ Len(more) = Len(read) + 1
             /\ IF Len(more) = Len(all) THEN more = all ELSE PartOf(more, all, S)
<1> DEFINE b == all[Len(read) + 1]
           more == Append(read, b)
<1>1. Len(read) \in Nat /\ Len(all) \in Nat /\ Len(read) + 1 \in 1 .. Len(all) /\ read \in Seq(S)
  BY DEF PartOf
<1>2. b \in S
  BY <1>1
<1>3. /\ more \in Seq(S) /\ Len(more) = Len(read) + 1
      /\ \A i \in 1 .. Len(read) : more[i] = read[i]
      /\ more[Len(read) + 1] = b
  BY <1>1, <1>2, AppendProperties
<1>4. \A i \in 1 .. Len(more) : more[i] = all[i]
  <2> SUFFICES ASSUME NEW i \in 1 .. Len(more)
               PROVE  more[i] = all[i]
    OBVIOUS
  <2>1. i \in 1 .. Len(read) \/ i = Len(read) + 1
    BY <1>1, <1>3
  <2> HIDE DEF more
  <2> QED
    BY <1>3, <2>1 DEF PartOf
<1> HIDE DEF more, b
<1>5. CASE Len(more) = Len(all)
  <2>1. more = all
    BY <1>3, <1>4, <1>5, SeqEqual
  <2> QED
    BY <1>3, <1>5, <2>1 DEF more, b
<1>6. CASE Len(more) # Len(all)
  <2>1. Len(more) < Len(all)
    BY <1>1, <1>3, <1>6
  <2>2. PartOf(more, all, S)
    BY <1>3, <1>4, <2>1 DEF PartOf
  <2> QED
    BY <1>3, <1>6, <2>2 DEF more, b
<1> QED
  BY <1>5, <1>6

Byte == 0 .. 255

\* How far the negotiation with a server that sends a manifest has come: what was read is
\* a part of what the server sends, in its order, and the version is chosen from all of it.
Progress ==
  /\ shake.at \in {"propose", "answer"} => shake.offers = << >> /\ shake.varint = << >>
  /\ shake.at = "count" => shake.offers = << >> /\ PartOf(shake.varint, server.count, Byte)
  /\ shake.at = "offers" => PartOf(shake.offers, server.offers, Offer)
  /\ shake.at \in {"mask", "choose"} => shake.offers = server.offers
  /\ shake.at \in {"confirm", "confirm mask", "hello", "connected"} =>
       shake.version = selectProtocol(server.offers) /\ shake.version # Nothing
  /\ shake.at \in {"confirm mask", "hello", "connected"} => told = shake.version
  /\ shake.at \in {"refuse", "none"} => selectProtocol(server.offers) = Nothing

ShakeRecord(r) ==
  r = [at |-> r.at, offers |-> r.offers, version |-> r.version, varint |-> r.varint]
SendsManifest == <<server.major, server.minor>> = Manifest
ShakeInv == server \in Servers /\ ShakeRecord(shake) /\ (SendsManifest => Progress)

\* Nothing has been read before the proposals are sent.
LEMMA ShakeInvStarts == ShakeInit => ShakeInv
  BY DEF ShakeInit, ShakeStart, ShakeInv, ShakeRecord, Progress

\* A new place, the rest as it was.
LEMMA GoesTo ==
  ASSUME ShakeRecord(shake), NEW l, Goto(l)
  PROVE  /\ ShakeRecord(shake') /\ shake'.at = l /\ shake'.offers = shake.offers
         /\ shake'.version = shake.version /\ shake'.varint = shake.varint
<1> DEFINE o == shake.offers
           v == shake.version
           n == shake.varint
           a == shake.at
<1>1. shake = [at |-> a, offers |-> o, version |-> v, varint |-> n] /\ shake' = [shake EXCEPT !.at = l]
  BY DEF ShakeRecord, Goto
<1> HIDE DEF o, v, n, a
<1>2. shake' = [at |-> l, offers |-> o, version |-> v, varint |-> n]
  BY <1>1
<1> QED
  BY <1>2 DEF ShakeRecord, o, v, n

\* The fields after the other assignments to the state of the negotiation.
LEMMA Assigned ==
  ASSUME NEW r, ShakeRecord(r), NEW x, NEW l
  PROVE  /\ [r EXCEPT !.varint = x] = [at |-> r.at, offers |-> r.offers, version |-> r.version, varint |-> x]
         /\ [r EXCEPT !.varint = x, !.at = l]
               = [at |-> l, offers |-> r.offers, version |-> r.version, varint |-> x]
         /\ [r EXCEPT !.version = x, !.at = l]
               = [at |-> l, offers |-> r.offers, version |-> x, varint |-> r.varint]
<1> DEFINE o == r.offers
           v == r.version
           n == r.varint
           a == r.at
<1>1. r = [at |-> a, offers |-> o, version |-> v, varint |-> n]
  BY DEF ShakeRecord
<1> HIDE DEF o, v, n, a
<1>2. [r EXCEPT !.varint = x] = [at |-> a, offers |-> o, version |-> v, varint |-> x]
  BY <1>1
<1>3. [r EXCEPT !.varint = x, !.at = l] = [at |-> l, offers |-> o, version |-> v, varint |-> x]
  <2> DEFINE q == [r EXCEPT !.varint = x]
  <2>1. q = [at |-> a, offers |-> o, version |-> v, varint |-> x]
    BY <1>1
  <2> HIDE DEF q
  <2>2. [q EXCEPT !.at = l] = [at |-> l, offers |-> o, version |-> v, varint |-> x]
    BY <2>1
  <2> QED
    BY <2>2 DEF q
<1>4. [r EXCEPT !.version = x, !.at = l] = [at |-> l, offers |-> o, version |-> x, varint |-> n]
  <2> DEFINE q == [r EXCEPT !.version = x]
  <2>1. q = [at |-> a, offers |-> o, version |-> x, varint |-> n]
    BY <1>1
  <2> HIDE DEF q
  <2>2. [q EXCEPT !.at = l] = [at |-> l, offers |-> o, version |-> x, varint |-> n]
    BY <2>1
  <2> QED
    BY <2>2 DEF q
<1> QED
  BY <1>2, <1>3, <1>4 DEF o, v, n, a

\* The count is read to its end and no further, and says how many offers follow.
LEMMA CountRead ==
  ASSUME ShakeInv, ReadCount
  PROVE  ShakeInv'
<1> DEFINE n == Len(shake.varint) + 1
           b == server.count[n]
           TooLong == n = MaxVarintLen64 /\ b > 1
<1>0. /\ shake.at = "count" /\ UNCHANGED <<server, told>> /\ ShakeRecord(shake)
      /\ IF TooLong THEN Goto("failed")
         ELSE IF Continues(b) THEN shake' = [shake EXCEPT !.varint = Append(@, b)]
         ELSE shake' = [shake EXCEPT !.varint = << >>,
                          !.at = IF Value[Append(shake.varint, b)] = 0 THEN "mask" ELSE "offers"]
  BY DEF ReadCount, ReadVarInt, ShakeInv
<1>1. CASE ~TooLong /\ ~Continues(b)
  <2> DEFINE l == IF Value[Append(shake.varint, b)] = 0 THEN "mask" ELSE "offers"
  <2>1. shake' = [shake EXCEPT !.varint = << >>, !.at = l]
    BY <1>0, <1>1
  <2>2. l \in {"mask", "offers"}
    OBVIOUS
  <2> HIDE DEF l
  <2>3. shake' = [at |-> l, offers |-> shake.offers, version |-> shake.version, varint |-> << >>]
    BY <1>0, <2>1, Assigned
  <2>4. ShakeRecord(shake') /\ shake'.at = l /\ shake'.offers = shake.offers
    BY <2>3 DEF ShakeRecord
  <2>5. ASSUME SendsManifest
        PROVE  Progress'
    <3>1. WellFormed(server) /\ shake.offers = << >> /\ PartOf(shake.varint, server.count, Byte)
      BY <1>0, <2>5, ServersKeepToForm DEF ShakeInv, SendsManifest, Progress
    <3>2. server.count \in Seq(Byte) /\ n \in 1 .. Len(server.count) /\ Len(server.offers) \in Nat
      BY <3>1 DEF WellFormed, PartOf, Byte
    <3>3. n = Len(server.count)
      BY <1>1, <3>1, <3>2 DEF WellFormed
    <3>4. Append(shake.varint, b) = server.count
      BY <3>1, <3>2, <3>3, ReadsOn
    <3>5. l = IF Len(server.offers) = 0 THEN "mask" ELSE "offers"
      BY <3>1, <3>4 DEF WellFormed, l
    <3>6. CASE Len(server.offers) = 0
      <4>1. server.offers = << >>
        BY <3>1, <3>6 DEF WellFormed
      <4> QED
        BY <1>0, <2>4, <3>1, <3>5, <3>6, <4>1 DEF Progress
    <3>7. CASE Len(server.offers) # 0
      <4>1. PartOf(<< >>, server.offers, Offer)
        BY <3>2, <3>7 DEF PartOf
      <4> QED
        BY <1>0, <2>4, <3>1, <3>5, <3>7, <4>1 DEF Progress
    <3> QED
      BY <3>6, <3>7
  <2> QED
    BY <1>0, <2>4, <2>5 DEF ShakeInv, SendsManifest
<1>2. CASE TooLong
  <2>1. Goto("failed")
    BY <1>0, <1>2
  <2>2. ShakeRecord(shake') /\ shake'.at = "failed"
    BY <1>0, <2>1, GoesTo
  <2> QED
    BY <1>0, <2>2 DEF ShakeInv, Progress, SendsManifest
<1>3. CASE ~TooLong /\ Continues(b)
  <2> DEFINE x == Append(shake.varint, b)
  <2>1. shake' = [shake EXCEPT !.varint = x]
    BY <1>0, <1>3
  <2> HIDE DEF x
  <2>3. shake' = [at |-> shake.at, offers |-> shake.offers, version |-> shake.version, varint |-> x]
    BY <1>0, <2>1, Assigned
  <2>4. ShakeRecord(shake') /\ shake'.at = "count" /\ shake'.offers = shake.offers /\ shake'.varint = x
    BY <1>0, <2>3 DEF ShakeRecord
  <2>5. ASSUME SendsManifest
        PROVE  Progress'
    <3>1. WellFormed(server) /\ shake.offers = << >> /\ PartOf(shake.varint, server.count, Byte)
      BY <1>0, <2>5, ServersKeepToForm DEF ShakeInv, SendsManifest, Progress
    <3>2. server.count \in Seq(Byte) /\ n \in 1 .. Len(server.count)
      BY <3>1 DEF WellFormed, PartOf, Byte
    <3>3. n # Len(server.count)
      BY <1>3, <3>1, <3>2 DEF WellFormed
    <3>4. PartOf(x, server.count, Byte)
      BY <3>1, <3>2, <3>3, ReadsOn DEF x
    <3> QED
      BY <1>0, <2>4, <3>1, <3>4 DEF Progress
  <2> QED
    BY <1>0, <2>4, <2>5 DEF ShakeInv, SendsManifest
<1> QED
  BY <1>1, <1>2, <1>3

\* The offers are read to the last one and in order.
LEMMA OfferRead ==
  ASSUME ShakeInv, ReadOffer
  PROVE  ShakeInv'
<1> DEFINE read == Append(shake.offers, server.offers[Len(shake.offers) + 1])
           l == IF Len(read) = Value[server.count] THEN "mask" ELSE shake.at
<1>0. shake.at = "offers" /\ UNCHANGED <<server, told>> /\ ShakeRecord(shake)
  BY DEF ReadOffer, ShakeInv
<1>1. shake' = [shake EXCEPT !.offers = read, !.at = l]
  BY DEF ReadOffer
<1>2. l = IF Len(read) = Value[server.count] THEN "mask" ELSE "offers"
  BY <1>0
<1> HIDE DEF read, l
<1>3. shake' = [at |-> l, offers |-> read, version |-> shake.version, varint |-> shake.varint]
  <2> DEFINE v == shake.version
             n == shake.varint
             o == shake.offers
             a == shake.at
             q == [shake EXCEPT !.offers = read]
  <2>1. shake = [at |-> a, offers |-> o, version |-> v, varint |-> n]
    BY <1>0 DEF ShakeRecord
  <2> HIDE DEF v, n, o, a
  <2>2. q = [at |-> a, offers |-> read, version |-> v, varint |-> n]
    BY <2>1
  <2>3. shake' = [q EXCEPT !.at = l]
    BY <1>1
  <2> HIDE DEF q
  <2>4. shake' = [at |-> l, offers |-> read, version |-> v, varint |-> n]
    BY <2>2, <2>3
  <2> QED
    BY <2>4 DEF v, n
<1>4. ShakeRecord(shake') /\ shake'.at = l /\ shake'.offers = read
  BY <1>3 DEF ShakeRecord
<1>5. ASSUME SendsManifest
      PROVE  Progress'
  <2>1. WellFormed(server) /\ PartOf(shake.offers, server.offers, Offer)
    BY <1>0, <1>5, ServersKeepToForm DEF ShakeInv, SendsManifest, Progress
  <2>2. server.offers \in Seq(Offer) /\ Value[server.count] = Len(server.offers)
    BY <2>1 DEF WellFormed
  <2>3. IF Len(read) = Len(server.offers) THEN read = server.offers ELSE PartOf(read, server.offers, Offer)
    BY <2>1, <2>2, ReadsOn DEF read
  <2>4. CASE Len(read) = Len(server.offers)
    BY <1>0, <1>2, <1>4, <2>2, <2>3, <2>4 DEF Progress
  <2>5. CASE Len(read) # Len(server.offers)
    BY <1>0, <1>2, <1>4, <2>2, <2>3, <2>5 DEF Progress
  <2> QED
    BY <2>4, <2>5
<1> QED
  BY <1>0, <1>4, <1>5 DEF ShakeInv, SendsManifest

\* The capability mask changes nothing of the offers, however long it is.
LEMMA MaskRead ==
  ASSUME ShakeInv, ReadCapabilityMask
  PROVE  ShakeInv'
<1> DEFINE b == server.mask[Len(shake.varint) + 1]
<1>0. /\ shake.at = "mask" /\ UNCHANGED <<server, told>> /\ ShakeRecord(shake)
      /\ \/ shake' = [shake EXCEPT !.varint = << >>, !.at = "choose"]
         \/ Goto("failed")
         \/ shake' = [shake EXCEPT !.varint = Append(@, b)]
  BY DEF ReadCapabilityMask, ReadVarInt, ShakeInv
<1>1. ShakeRecord(shake') /\ shake'.offers = shake.offers /\ shake'.at \in {"choose", "failed", "mask"}
  <2>1. CASE shake' = [shake EXCEPT !.varint = << >>, !.at = "choose"]
    <3>1. shake' = [at |-> "choose", offers |-> shake.offers, version |-> shake.version, varint |-> << >>]
      BY <1>0, <2>1, Assigned
    <3> QED
      BY <3>1 DEF ShakeRecord
  <2>2. CASE Goto("failed")
    BY <1>0, <2>2, GoesTo
  <2>3. CASE shake' = [shake EXCEPT !.varint = Append(@, b)]
    <3> DEFINE x == Append(shake.varint, b)
    <3>1. shake' = [shake EXCEPT !.varint = x]
      BY <2>3
    <3> HIDE DEF x
    <3>2. shake' = [at |-> shake.at, offers |-> shake.offers, version |-> shake.version, varint |-> x]
      BY <1>0, <3>1, Assigned
    <3> QED
      BY <1>0, <3>2 DEF ShakeRecord
  <2> QED
    BY <1>0, <2>1, <2>2, <2>3
<1> QED
  BY <1>0, <1>1 DEF ShakeInv, Progress, SendsManifest

\* The version is chosen from all the offers.
LEMMA VersionChosen ==
  ASSUME ShakeInv, Choose
  PROVE  ShakeInv'
<1> DEFINE v == selectProtocol(shake.offers)
           l == IF v = Nothing THEN "refuse" ELSE "confirm"
<1>0. /\ shake.at = "choose" /\ UNCHANGED <<server, told>> /\ ShakeRecord(shake)
      /\ shake' = [shake EXCEPT !.version = v, !.at = l]
  BY DEF Choose, ShakeInv
<1>1. (v = Nothing /\ l = "refuse") \/ (v # Nothing /\ l = "confirm")
  OBVIOUS
<1>2. SendsManifest => v = selectProtocol(server.offers)
  BY <1>0 DEF ShakeInv, Progress
<1> HIDE DEF v, l
<1>3. shake' = [at |-> l, offers |-> shake.offers, version |-> v, varint |-> shake.varint]
  BY <1>0, Assigned
<1>4. ShakeRecord(shake') /\ shake'.at = l /\ shake'.version = v
  BY <1>3 DEF ShakeRecord
<1> QED
  BY <1>0, <1>1, <1>2, <1>4 DEF ShakeInv, Progress, SendsManifest

\* The first answer: whatever it is, a manifest is read from its start.
LEMMA AnswerRead ==
  ASSUME ShakeInv, ReadAnswer
  PROVE  ShakeInv'
<1> DEFINE w == <<server.major, server.minor>>
           v == IF w = Manifest THEN Nothing ELSE w
           l == CASE w = Http -> "none"
                  [] w = Manifest -> "count"
                  [] w # Manifest /\ server.major \in 3 .. 6 -> "hello"
                  [] OTHER -> "none"
<1>0. /\ shake.at = "answer" /\ UNCHANGED <<server, told>> /\ ShakeRecord(shake)
      /\ shake' = [shake EXCEPT !.version = v, !.at = l]
  BY DEF ReadAnswer, ShakeInv
<1>1. SendsManifest => l = "count"
  BY DEF SendsManifest, Manifest, Http
<1> HIDE DEF v, l
<1>3. shake' = [at |-> l, offers |-> shake.offers, version |-> v, varint |-> shake.varint]
  BY <1>0, Assigned
<1>4. ShakeRecord(shake') /\ shake'.at = l /\ shake'.offers = shake.offers /\ shake'.varint = shake.varint
  BY <1>3 DEF ShakeRecord
<1>5. ASSUME SendsManifest
      PROVE  Progress'
  <2>1. WellFormed(server) /\ shake.offers = << >> /\ shake.varint = << >>
    BY <1>0, <1>5, ServersKeepToForm DEF ShakeInv, SendsManifest, Progress
  <2>2. PartOf(<< >>, server.count, Byte)
    BY <2>1 DEF WellFormed, PartOf
  <2> QED
    BY <1>0, <1>1, <1>4, <1>5, <2>1, <2>2 DEF Progress
<1> QED
  BY <1>0, <1>4, <1>5 DEF ShakeInv, SendsManifest

\* Every step of connect.go keeps the invariant.
LEMMA ShakeInvStays == ShakeInv /\ [ShakeNext]_shakeVars => ShakeInv'
<1> SUFFICES ASSUME ShakeInv, [ShakeNext]_shakeVars
             PROVE  ShakeInv'
  OBVIOUS
<1>0. ShakeRecord(shake)
  BY DEF ShakeInv
<1>1. CASE Propose
  <2>1. shake.at = "propose" /\ Goto("answer") /\ UNCHANGED <<server, told>>
    BY <1>1 DEF Propose
  <2>2. /\ ShakeRecord(shake') /\ shake'.at = "answer" /\ shake'.offers = shake.offers
        /\ shake'.version = shake.version /\ shake'.varint = shake.varint
    BY <1>0, <2>1, GoesTo
  <2> QED
    BY <2>1, <2>2 DEF ShakeInv, Progress, SendsManifest
<1>2. CASE Refuse
  <2>1. shake.at = "refuse" /\ Goto("none") /\ UNCHANGED <<server, told>>
    BY <1>2 DEF Refuse
  <2>2. /\ ShakeRecord(shake') /\ shake'.at = "none" /\ shake'.offers = shake.offers
        /\ shake'.version = shake.version /\ shake'.varint = shake.varint
    BY <1>0, <2>1, GoesTo
  <2> QED
    BY <2>1, <2>2 DEF ShakeInv, Progress, SendsManifest
<1>3. CASE Confirm
  <2>1. shake.at = "confirm" /\ Goto("confirm mask") /\ told' = shake.version /\ UNCHANGED server
    BY <1>3 DEF Confirm
  <2>2. /\ ShakeRecord(shake') /\ shake'.at = "confirm mask" /\ shake'.offers = shake.offers
        /\ shake'.version = shake.version /\ shake'.varint = shake.varint
    BY <1>0, <2>1, GoesTo
  <2> QED
    BY <2>1, <2>2 DEF ShakeInv, Progress, SendsManifest
<1>4. CASE ConfirmMask
  <2>1. shake.at = "confirm mask" /\ Goto("hello") /\ UNCHANGED <<server, told>>
    BY <1>4 DEF ConfirmMask
  <2>2. /\ ShakeRecord(shake') /\ shake'.at = "hello" /\ shake'.offers = shake.offers
        /\ shake'.version = shake.version /\ shake'.varint = shake.varint
    BY <1>0, <2>1, GoesTo
  <2> QED
    BY <2>1, <2>2 DEF ShakeInv, Progress, SendsManifest
<1>5. CASE Hello
  <2>1. shake.at = "hello" /\ Goto("connected") /\ UNCHANGED <<server, told>>
    BY <1>5 DEF Hello
  <2>2. /\ ShakeRecord(shake') /\ shake'.at = "connected" /\ shake'.offers = shake.offers
        /\ shake'.version = shake.version /\ shake'.varint = shake.varint
    BY <1>0, <2>1, GoesTo
  <2> QED
    BY <2>1, <2>2 DEF ShakeInv, Progress, SendsManifest
<1>6. CASE ShakeBreaks
  <2>1. Goto("failed") /\ UNCHANGED <<server, told>>
    BY <1>6 DEF ShakeBreaks
  <2>2. /\ ShakeRecord(shake') /\ shake'.at = "failed" /\ shake'.offers = shake.offers
        /\ shake'.version = shake.version /\ shake'.varint = shake.varint
    BY <1>0, <2>1, GoesTo
  <2> QED
    BY <2>1, <2>2 DEF ShakeInv, Progress, SendsManifest
<1>7. CASE UNCHANGED shakeVars
  BY <1>7 DEF shakeVars, ShakeInv, ShakeRecord, Progress, SendsManifest
<1> QED
  BY <1>1, <1>2, <1>3, <1>4, <1>5, <1>6, <1>7, AnswerRead, CountRead, OfferRead, MaskRead,
     VersionChosen DEF ShakeNext

\* With every server that keeps to the form of a manifest, whatever ranges it offers in
\* whatever order, the driver confirms and uses the best version that both ends speak, and
\* finds none only when they have none in common.
THEOREM BestVersionIsUsed == ShakeSpec => []BestCommonVersion
<1>1. ShakeInv => BestCommonVersion
  <2> SUFFICES ASSUME ShakeInv, SendsManifest
               PROVE  /\ shake.at \in {"hello", "connected"} =>
                             /\ shake.version \in Common /\ told = shake.version
                             /\ ~\E v \in Common : Better(v, shake.version)
                      /\ shake.at = "none" => Common = {}
    BY DEF BestCommonVersion, SendsManifest
  <2>1. WellFormed(server) /\ Progress
    BY ServersKeepToForm DEF ShakeInv, SendsManifest
  <2>2. Common = Shared(server.offers)
    BY DEF Common, Shared
  <2>3. IF selectProtocol(server.offers) = Nothing THEN Common = {}
        ELSE /\ selectProtocol(server.offers) \in Common
             /\ \A v \in Common : ~Better(v, selectProtocol(server.offers))
    BY <2>1, <2>2, SelectsBest DEF WellFormed
  <2> QED
    BY <2>1, <2>3 DEF Progress
<1>2. QED
  BY <1>1, ShakeInvStarts, ShakeInvStays, PTL DEF ShakeSpec

-----------------------------------------------------------------------------
(* The keys of property encryption.                                        *)
(*                                                                         *)
(* Changes of a key are noticed, whatever the callers, keys, aliases, the  *)
(* sizes of the caches and the times that their entries live.              *)
(*                                                                         *)
(* The invariant follows each fact from the repository to its use: a call  *)
(* that is about to cache a fact has known it since it began, an entry     *)
(* since a call's time before it was put, a call that is done since an     *)
(* entry's life before; so none knows it from after its end. And a fact    *)
(* that a call of this driver has ended is cached, or about to be, only if *)
(* it was raced: at the end of such a call both caches are empty of it     *)
(* unless a lookup had it in hand (ChangeOK, Touched).                     *)

-----------------------------------------------------------------------------
(* What the invariant says of a fact.                                      *)

\* Something known since time n, of now or before, was known before f ended.
Early(f, n) == n <= keyTime /\ (ended[f] # NotEnded => n <= ended[f])

\* A fact that was ended by a call of this driver has been raced.
Flag(f) == f \in settled => f \in raced

OfKey(r) == <<Stored, r.id>>
OfAlias(r) == <<r.ref, r.id>>

\* A call knows f since n; if f had been settled before the call began, f was raced.
Knows(r, f, n) == f \in Facts /\ Early(f, n) /\ (f \in r.after => f \in raced)

\* A call is about to cache f, which it knows since it began.
Brings(r, f) == f \in Facts /\ Early(f, r.began) /\ Flag(f)

-----------------------------------------------------------------------------
(* The invariant, call by call and entry by entry.                         *)

CallFields == {"at", "by", "ref", "id", "began", "done", "ends", "after"}
CallTypes(r) ==
  /\ DOMAIN r = CallFields /\ r.began \in Nat /\ r.done \in Nat /\ r.after \subseteq settled
  /\ r.at \in {"idle", "find", "key", "forget", "index", "cache", "remove", "clear", "done"}
  /\ r.at \in {"find", "cache", "done"} => r.by \in {"id", "alias", "create"}
  /\ r.at \in {"find", "done"} => r.by # "create"
  /\ r.at \in {"key", "forget"} => r.by = "alias"
  /\ r.at = "index" => r.by \in {"alias", "create"}
  /\ r.at \notin {"idle", "done"} => r.began <= keyTime /\ keyTime <= r.began + 1

\* Calls that look a key up.
LookupOK(r) ==
  /\ r.at = "key" => Knows(r, OfAlias(r), r.began - KeyAliasIndexTTL)
  /\ r.at \in {"index", "cache"} => Brings(r, OfKey(r))
  /\ r.at = "index" => Brings(r, OfAlias(r))
  /\ r.at = "cache" /\ r.by = "alias" => Knows(r, OfAlias(r), r.began)
  /\ r.by = "alias" \/ r.at = "index" => r.ref \in KeyAliases
  /\ r.at = "done" => Knows(r, OfKey(r), r.done - KeyCacheTTL - 1)
  /\ r.at = "done" /\ r.by = "alias" => Knows(r, OfAlias(r), r.done - KeyAliasIndexTTL - 1)

\* The key is brought back by a call that had read it.
Returns(id) ==
  \/ \E d \in KeyCallers : call[d].at \in {"index", "cache"} /\ call[d].id = id
  \/ \E e \in keyCache : e.key = id

\* Calls that change a key.
ChangeOK(r) ==
  /\ r.at \in {"remove", "clear"} =>
       r.ends \subseteq Facts /\ \A id \in KeyIds : <<Stored, id>> \in r.ends => repository[id] = "deleted"
  /\ r.at = "remove" => \A id \in KeyIds : <<Stored, id>> \in r.ends => id = r.id
  /\ r.at = "clear" =>
       \A id \in KeyIds : <<Stored, id>> \in r.ends /\ Returns(id) => <<Stored, id>> \in raced

CallOK(r) == CallTypes(r) /\ LookupOK(r) /\ ChangeOK(r)
CallsOK == call = [c \in KeyCallers |-> call[c]] /\ \A c \in KeyCallers : CallOK(call[c])

EntryOK(e, f, ttl) == f \in Facts /\ e.expires \in Int /\ Early(f, e.expires - ttl - 1) /\ Flag(f)
CachesOK ==
  /\ \A e \in keyCache : EntryOK(e, <<Stored, e.key>>, KeyCacheTTL)
  /\ \A e \in aliasIndex : e.key \in KeyAliases /\ EntryOK(e, <<e.key, e.value>>, KeyAliasIndexTTL)

\* When a fact has not ended: the key is stored or was never made, the alias is bound to it.
FactsOK ==
  /\ keyTime \in Nat
  /\ repository \in [KeyIds -> KeyAliases \cup {NoAlias, "unused", "deleted"}]
  /\ ended \in [Facts -> Int] /\ \A f \in Facts : ended[f] # NotEnded => ended[f] \in 0 .. keyTime
  /\ settled \subseteq {f \in Facts : ended[f] # NotEnded}
  /\ \A id \in KeyIds :
       /\ repository[id] # "deleted" => ended[<<Stored, id>>] = NotEnded
       /\ \A a \in KeyAliases : repository[id] \in {a, "unused"} => ended[<<a, id>>] = NotEnded

KeysInv == FactsOK /\ CallsOK /\ CachesOK

-----------------------------------------------------------------------------
(* Facts, and what a cache keeps.                                          *)

\* Facts are pairs.
LEMMA FactPairs ==
  /\ \A a, id : <<a, id>> \in Facts <=> a \in KeyAliases \cup {Stored} /\ id \in KeyIds
  /\ \A f \in Facts : f = <<f[1], f[2]>> /\ f[1] \in KeyAliases \cup {Stored} /\ f[2] \in KeyIds
BY DEF Facts

\* An entry is found again after it was moved.
Same(e, d) == e.key = d.key /\ e.value = d.value /\ e.expires = d.expires

\* What is left of a cache was there before.
LEMMA WithoutKeeps ==
  ASSUME NEW cache, NEW gone, NEW e \in Without(cache, gone)
  PROVE  \E d \in cache \ gone : Same(e, d)
<1>1. PICK d \in cache \ gone : \E n : e = Placed(d, n)
  BY DEF Without
<1>2. Same(e, d)
  BY <1>1 DEF Placed, Same
<1> QED BY <1>2

\* Remove leaves the entries of other keys.
LEMMA DroppedKeeps ==
  ASSUME NEW cache, NEW key, NEW e \in Dropped(cache, key)
  PROVE  \E d \in cache : Same(e, d) /\ d.key # key
BY WithoutKeeps DEF Dropped

\* A new front and the rest.
LEMMA FrontKeeps ==
  ASSUME NEW entry, NEW cache, NEW e \in PushFront(entry, cache)
  PROVE  Same(e, entry) \/ \E d \in cache : Same(e, d)
BY DEF PushFront, Placed, Same

\* Get adds nothing.
LEMMA GetKeeps ==
  ASSUME NEW cache, NEW key, NEW e \in AfterGet(cache, key)
  PROVE  \E d \in cache : Same(e, d)
<1>1. CASE Cached(cache, key) = {}
  BY <1>1, DroppedKeeps DEF AfterGet
<1>2. CASE Cached(cache, key) # {}
  <2>1. PICK h \in Cached(cache, key) : AfterGet(cache, key) = PushFront(h, Dropped(cache, key))
    BY <1>2 DEF AfterGet
  <2>2. h \in cache
    BY DEF Cached
  <2>3. Same(e, h) \/ \E d \in Dropped(cache, key) : Same(e, d)
    BY <2>1, FrontKeeps
  <2>4. ASSUME NEW d \in Dropped(cache, key), Same(e, d)
        PROVE  \E x \in cache : Same(e, x)
    <3>1. PICK x \in cache : Same(d, x)
      BY DroppedKeeps
    <3> QED BY <2>4, <3>1 DEF Same
  <2> QED BY <2>2, <2>3, <2>4
<1> QED BY <1>1, <1>2

\* Put adds the one entry.
LEMMA PutKeeps ==
  ASSUME NEW cache, NEW key, NEW value, NEW ttl, NEW maxSize,
         NEW e \in AfterPut(cache, key, value, ttl, maxSize)
  PROVE  \/ e.key = key /\ e.value = value /\ e.expires = keyTime + ttl
         \/ \E d \in cache : Same(e, d)
<1> DEFINE new == [key |-> key, value |-> value, expires |-> keyTime + ttl]
           left == purgeExpired(Dropped(cache, key))
<1>1. e \in PushFront(new, left)
  BY DEF AfterPut, evict
<1> HIDE DEF left
<1>2. Same(e, new) \/ \E d \in left : Same(e, d)
  <2> HIDE DEF new
  <2> QED BY <1>1, FrontKeeps
<1>3. ASSUME NEW d \in left, Same(e, d)
      PROVE  \E x \in cache : Same(e, x)
  <2>1. PICK y \in Dropped(cache, key) : Same(d, y)
    BY WithoutKeeps DEF left, purgeExpired
  <2>2. PICK x \in cache : Same(y, x)
    BY DroppedKeeps
  <2> QED BY <1>3, <2>1, <2>2 DEF Same
<1> QED BY <1>2, <1>3 DEF Same

-----------------------------------------------------------------------------
(* What any step does to the facts.                                        *)

\* A fact that someone is about to cache, or has cached.
Touched(f) ==
  \/ \E d \in KeyCallers : Holds(d, f)
  \/ \E e \in keyCache : f = <<Stored, e.key>>
  \/ f[1] \in KeyAliases /\ aliasIndex' # {}

FactStep ==
  /\ keyTime' \in Nat /\ keyTime <= keyTime'
  /\ \A f \in Facts : ended'[f] \in {ended[f], NotEnded, keyTime}
  /\ \A f \in Facts : Touched(f) /\ Flag(f) => Flag(f)'
  /\ \A f \in Facts : f \in raced /\ f \in settled' => f \in raced'
  /\ \A id \in KeyIds : /\ repository[id] = "deleted" => repository'[id] = "deleted"
                        /\ <<Stored, id>> \in raced => <<Stored, id>> \in raced'

\* The call goes on as it was; what it began after may have been undone.
Stays(d) ==
  /\ DOMAIN call'[d] = CallFields /\ call'[d].after \subseteq call[d].after
  /\ call'[d].after \subseteq settled'
  /\ call'[d].at = call[d].at /\ call'[d].by = call[d].by /\ call'[d].ref = call[d].ref
  /\ call'[d].id = call[d].id /\ call'[d].began = call[d].began /\ call'[d].done = call[d].done
  /\ call'[d].ends = call[d].ends

\* What was known early stays so: a fact that ends now ends late enough.
LEMMA EarlyStays ==
  ASSUME FactsOK, FactStep, NEW f \in Facts, NEW n \in Int, Early(f, n)
  PROVE  Early(f, n)'
<1>1. ended'[f] \in {ended[f], NotEnded, keyTime} /\ keyTime' \in Nat /\ keyTime <= keyTime'
  BY DEF FactStep
<1>2. keyTime \in Nat /\ ended[f] \in Int
  BY DEF FactsOK
<1> QED BY <1>1, <1>2 DEF Early

\* The calls that a step does not concern are as good as before.
LEMMA CallStays ==
  ASSUME KeysInv, FactStep, NEW d \in KeyCallers, Stays(d),
         call[d].at \notin {"idle", "done"} => keyTime' <= call[d].began + 1,
         \A id \in KeyIds : repository[id] = "deleted" /\ Returns(id)' => Returns(id)
  PROVE  CallOK(call[d])'
<1>0. FactsOK /\ CallTypes(call[d]) /\ LookupOK(call[d]) /\ ChangeOK(call[d])
  BY DEF KeysInv, CallsOK, CallOK
<1>1. PICK r : r = call[d]
  OBVIOUS
<1>2. PICK q : q = call'[d]
  OBVIOUS
<1>3. /\ DOMAIN q = CallFields /\ q.after \subseteq r.after /\ q.after \subseteq settled'
      /\ q.at = r.at /\ q.by = r.by /\ q.ref = r.ref /\ q.id = r.id /\ q.began = r.began
      /\ q.done = r.done /\ q.ends = r.ends
  BY <1>1, <1>2 DEF Stays
<1>4. r.began \in Nat /\ r.done \in Nat
  BY <1>0, <1>1 DEF CallTypes
<1>5. CallTypes(call[d])'
  <2>1. keyTime' \in Nat /\ keyTime \in Nat /\ keyTime <= keyTime'
    BY <1>0 DEF FactStep, FactsOK
  <2>2. q.at \notin {"idle", "done"} => q.began <= keyTime' /\ keyTime' <= q.began + 1
    BY <1>0, <1>1, <1>3, <1>4, <2>1 DEF CallTypes
  <2> QED BY <1>0, <1>1, <1>2, <1>3, <2>2 DEF CallTypes
<1>6. ASSUME NEW f, NEW n \in Int, f \in Facts /\ Early(f, n) /\ (f \in r.after => f \in raced)
      PROVE  Knows(call[d], f, n)'
  <2>1. Early(f, n)'
    BY <1>0, <1>6, EarlyStays
  <2>2. f \in q.after => f \in raced'
    BY <1>3, <1>6 DEF FactStep
  <2> QED BY <1>2, <1>6, <2>1, <2>2 DEF Knows
<1>7. ASSUME NEW f, Brings(r, f), Holds(d, f)
      PROVE  Brings(call[d], f)'
  <2>1. f \in Facts /\ Early(f, r.began) /\ Flag(f)
    BY <1>7 DEF Brings
  <2>2. Early(f, r.began)'
    BY <1>0, <1>4, <2>1, EarlyStays
  <2>3. Flag(f)'
    BY <1>7, <2>1 DEF FactStep, Touched
  <2> QED BY <1>2, <1>3, <2>1, <2>2, <2>3 DEF Brings
<1>8. LookupOK(call[d])'
  <2>1. OfKey(call[d])' = OfKey(r) /\ OfAlias(call[d])' = OfAlias(r)
    BY <1>2, <1>3 DEF OfKey, OfAlias
  <2>2. /\ r.at = "key" => Knows(r, OfAlias(r), r.began - KeyAliasIndexTTL)
        /\ r.at \in {"index", "cache"} => Brings(r, OfKey(r))
        /\ r.at = "index" => Brings(r, OfAlias(r))
        /\ r.at = "cache" /\ r.by = "alias" => Knows(r, OfAlias(r), r.began)
        /\ r.by = "alias" \/ r.at = "index" => r.ref \in KeyAliases
        /\ r.at = "done" => Knows(r, OfKey(r), r.done - KeyCacheTTL - 1)
        /\ r.at = "done" /\ r.by = "alias" => Knows(r, OfAlias(r), r.done - KeyAliasIndexTTL - 1)
    BY <1>0, <1>1 DEF LookupOK
  <2>3. /\ r.began - KeyAliasIndexTTL \in Int /\ r.done - KeyCacheTTL - 1 \in Int
        /\ r.done - KeyAliasIndexTTL - 1 \in Int
    BY <1>4, KeyConstants DEF KeyConstants
  <2>4. r.at = "key" => Knows(call[d], OfAlias(r), r.began - KeyAliasIndexTTL)'
    BY <1>6, <2>2, <2>3 DEF Knows
  <2>5. r.at \in {"index", "cache"} => Holds(d, OfKey(r))
    BY <1>1 DEF Holds, OfKey
  <2>6. r.at = "index" => Holds(d, OfAlias(r))
    BY <1>1 DEF Holds, OfAlias
  <2>7. /\ r.at \in {"index", "cache"} => Brings(call[d], OfKey(r))'
        /\ r.at = "index" => Brings(call[d], OfAlias(r))'
    BY <1>7, <2>2, <2>5, <2>6
  <2>8. r.at = "cache" /\ r.by = "alias" => Knows(call[d], OfAlias(r), r.began)'
    BY <1>4, <1>6, <2>2 DEF Knows
  <2>9. r.at = "done" => Knows(call[d], OfKey(r), r.done - KeyCacheTTL - 1)'
    BY <1>6, <2>2, <2>3 DEF Knows
  <2>10. r.at = "done" /\ r.by = "alias" => Knows(call[d], OfAlias(r), r.done - KeyAliasIndexTTL - 1)'
    BY <1>6, <2>2, <2>3 DEF Knows
  <2> QED BY <1>2, <1>3, <2>1, <2>2, <2>4, <2>7, <2>8, <2>9, <2>10 DEF LookupOK
<1>9. ChangeOK(call[d])'
  <2>1. \A id \in KeyIds : repository[id] = "deleted" => repository'[id] = "deleted"
    BY DEF FactStep
  <2>2. \A id \in KeyIds : <<Stored, id>> \in raced => <<Stored, id>> \in raced'
    BY DEF FactStep
  <2> QED BY <1>0, <1>1, <1>2, <1>3, <2>1, <2>2 DEF ChangeOK
<1> QED BY <1>5, <1>8, <1>9 DEF CallOK

\* Entries that were there before are as good as before.
LEMMA EntryStays ==
  ASSUME FactsOK, FactStep, NEW e, NEW d, NEW f, NEW ttl \in Nat, EntryOK(d, f, ttl), Same(e, d), Touched(f)
  PROVE  f \in Facts /\ e.expires \in Int /\ Early(f, e.expires - ttl - 1)' /\ Flag(f)'
<1>1. f \in Facts /\ d.expires \in Int /\ e.expires = d.expires /\ Early(f, d.expires - ttl - 1) /\ Flag(f)
  BY DEF EntryOK, Same
<1>2. e.expires - ttl - 1 \in Int
  BY <1>1
<1>3. PICK n \in Int : n = e.expires - ttl - 1
  BY <1>2
<1>4. Early(f, n)'
  BY <1>1, <1>3, EarlyStays
<1> QED BY <1>1, <1>3, <1>4 DEF FactStep

-----------------------------------------------------------------------------
(* How a step is put together.                                             *)

\* An earlier time is early enough too.
LEMMA EarlierStill ==
  ASSUME FactsOK, NEW f \in Facts, NEW n \in Int, NEW m \in Int, m <= n, Early(f, n)
  PROVE  Early(f, m)
<1>1. keyTime \in Nat /\ ended[f] \in Int
  BY DEF FactsOK
<1> QED BY <1>1 DEF Early

\* Every key in the cache was there before or may be there.
KeysKept ==
  \A e \in keyCache' : (\E d \in keyCache : Same(e, d)) \/ EntryOK(e, <<Stored, e.key>>, KeyCacheTTL)'
AliasesKept ==
  \A e \in aliasIndex' :
     \/ \E d \in aliasIndex : Same(e, d)
     \/ e.key \in KeyAliases /\ EntryOK(e, <<e.key, e.value>>, KeyAliasIndexTTL)'

\* No deleted key comes back that was not about to.
NoReturn == \A id \in KeyIds : repository[id] = "deleted" /\ Returns(id)' => Returns(id)

\* Both caches stay right.
LEMMA CachesStay ==
  ASSUME KeysInv, FactStep, KeysKept, AliasesKept
  PROVE  CachesOK'
<1>0. FactsOK /\ CachesOK /\ KeyCacheTTL \in Nat /\ KeyAliasIndexTTL \in Nat
  BY KeyConstants DEF KeysInv, KeyConstants
<1>1. ASSUME NEW e \in keyCache'
      PROVE  EntryOK(e, <<Stored, e.key>>, KeyCacheTTL)'
  <2>1. SUFFICES ASSUME NEW d \in keyCache, Same(e, d)
                 PROVE  EntryOK(e, <<Stored, e.key>>, KeyCacheTTL)'
    BY DEF KeysKept
  <2>2. PICK f : f = <<Stored, d.key>>
    OBVIOUS
  <2>3. EntryOK(d, f, KeyCacheTTL)
    BY <1>0, <2>2 DEF CachesOK
  <2>4. Touched(f)
    BY <2>2 DEF Touched
  <2>5. f \in Facts /\ e.expires \in Int /\ Early(f, e.expires - KeyCacheTTL - 1)' /\ Flag(f)'
    BY <1>0, <2>1, <2>3, <2>4, EntryStays
  <2>6. f = <<Stored, e.key>>
    BY <2>1, <2>2 DEF Same
  <2> QED BY <2>5, <2>6 DEF EntryOK
<1>2. ASSUME NEW e \in aliasIndex'
      PROVE  e.key \in KeyAliases /\ EntryOK(e, <<e.key, e.value>>, KeyAliasIndexTTL)'
  <2>1. SUFFICES ASSUME NEW d \in aliasIndex, Same(e, d)
                 PROVE  e.key \in KeyAliases /\ EntryOK(e, <<e.key, e.value>>, KeyAliasIndexTTL)'
    BY DEF AliasesKept
  <2>2. PICK f : f = <<d.key, d.value>>
    OBVIOUS
  <2>3. EntryOK(d, f, KeyAliasIndexTTL)
    BY <1>0, <2>2 DEF CachesOK
  <2>4. d.key \in KeyAliases
    BY <1>0 DEF CachesOK
  <2>5. Touched(f)
    BY <2>2, <2>4 DEF Touched
  <2>6. f \in Facts /\ e.expires \in Int /\ Early(f, e.expires - KeyAliasIndexTTL - 1)' /\ Flag(f)'
    BY <1>0, <2>1, <2>3, <2>5, EntryStays
  <2>7. f = <<e.key, e.value>> /\ e.key = d.key
    BY <2>1, <2>2 DEF Same
  <2> QED BY <2>4, <2>6, <2>7 DEF EntryOK
<1> QED BY <1>1, <1>2 DEF CachesOK

\* A step that leaves every call alone, or has a new one that is right.
LEMMA StepKeeps ==
  ASSUME KeysInv, FactStep, FactsOK', KeysKept, AliasesKept, NoReturn,
         call' = [d \in KeyCallers |-> call'[d]],
         \A d \in KeyCallers :
            \/ Stays(d) /\ (call[d].at \notin {"idle", "done"} => keyTime' <= call[d].began + 1)
            \/ CallOK(call[d])'
  PROVE  KeysInv'
<1>1. CachesOK'
  BY CachesStay
<1>2. ASSUME NEW d \in KeyCallers
      PROVE  CallOK(call[d])'
  <2>1. CASE Stays(d) /\ (call[d].at \notin {"idle", "done"} => keyTime' <= call[d].began + 1)
    BY <2>1, CallStays DEF NoReturn
  <2> QED BY <2>1
<1> QED BY <1>1, <1>2 DEF KeysInv, CallsOK

\* What is the same for every call that a step does not concern.
LEMMA OthersStay ==
  ASSUME KeysInv, NEW d \in KeyCallers, call'[d] = call[d], settled \subseteq settled', keyTime' = keyTime
  PROVE  Stays(d) /\ (call[d].at \notin {"idle", "done"} => keyTime' <= call[d].began + 1)
<1>1. CallTypes(call[d])
  BY DEF KeysInv, CallsOK, CallOK
<1> QED BY <1>1 DEF Stays, CallTypes

\* What a fact is may be left alone.
LEMMA QuietFacts ==
  ASSUME FactsOK, UNCHANGED <<repository, keyTime, ended, settled, raced>>
  PROVE  FactStep /\ FactsOK'
<1>1. FactsOK'
  BY DEF FactsOK
<1>2. \A f \in Facts : Flag(f) => Flag(f)'
  BY DEF Flag
<1>3. keyTime' \in Nat /\ keyTime <= keyTime'
  BY DEF FactsOK
<1> QED BY <1>1, <1>2, <1>3 DEF FactStep

\* A deleted key comes back with a call or an entry only if it was about to.
LEMMA NothingReturns ==
  ASSUME CallsOK, NEW c \in KeyCallers, NEW r, call' = [call EXCEPT ![c] = r],
         r.at \in {"index", "cache"} /\ r.id \in KeyIds /\ repository[r.id] = "deleted" => Returns(r.id),
         \A e \in keyCache' : (\E d \in keyCache : Same(e, d)) \/ Returns(e.key)
  PROVE  NoReturn
<1> SUFFICES ASSUME NEW id \in KeyIds, repository[id] = "deleted", Returns(id)'
             PROVE  Returns(id)
  BY DEF NoReturn
<1>1. ASSUME NEW d \in KeyCallers, call'[d].at \in {"index", "cache"}, call'[d].id = id
      PROVE  Returns(id)
  <2>1. CASE d = c
    <3>1. call'[d] = r
      BY <2>1 DEF CallsOK
    <3> QED BY <1>1, <3>1
  <2>2. CASE d # c
    <3>1. call'[d] = call[d]
      BY <2>2 DEF CallsOK
    <3> QED BY <1>1, <3>1 DEF Returns
  <2> QED BY <2>1, <2>2
<1>2. ASSUME NEW e \in keyCache', e.key = id
      PROVE  Returns(id)
  BY <1>2 DEF Returns, Same
<1> QED BY <1>1, <1>2 DEF Returns

\* A call goes on, and nothing happens to any fact.
LEMMA QuietStep ==
  ASSUME KeysInv, UNCHANGED <<repository, keyTime, ended, settled, raced>>,
         NEW c \in KeyCallers, NEW r, call' = [call EXCEPT ![c] = r],
         r.at \notin {"remove", "clear"}, CallTypes(r), LookupOK(r),
         KeysKept, AliasesKept, NoReturn
  PROVE  KeysInv'
<1>0. FactsOK /\ CallsOK
  BY DEF KeysInv
<1>1. FactStep /\ FactsOK'
  BY <1>0, QuietFacts
<1>2. CallOK(r)'
  <2>1. CallTypes(r)'
    BY DEF CallTypes
  <2>2. LookupOK(r)'
    BY DEF LookupOK, Knows, Brings, Early, Flag, OfKey, OfAlias
  <2>3. ChangeOK(r)'
    BY DEF ChangeOK
  <2> QED BY <2>1, <2>2, <2>3 DEF CallOK
<1>3. call' = [d \in KeyCallers |-> call'[d]]
  BY <1>0 DEF CallsOK
<1>4. \A d \in KeyCallers :
            \/ Stays(d) /\ (call[d].at \notin {"idle", "done"} => keyTime' <= call[d].began + 1)
            \/ CallOK(call[d])'
  <2> TAKE d \in KeyCallers
  <2>1. CASE d = c
    <3>1. call'[d] = r
      BY <1>0, <2>1 DEF CallsOK
    <3> QED BY <1>2, <3>1
  <2>2. CASE d # c
    <3>1. call'[d] = call[d] /\ settled \subseteq settled' /\ keyTime' = keyTime
      BY <1>0, <2>2 DEF CallsOK
    <3> QED BY <3>1, OthersStay
  <2> QED BY <2>1, <2>2
<1> QED BY <1>1, <1>3, <1>4, StepKeeps

-----------------------------------------------------------------------------
(* Reads and removals add nothing to a cache.                              *)

KeysOld == \A e \in keyCache' : \E d \in keyCache : Same(e, d)
AliasesOld == \A e \in aliasIndex' : \E d \in aliasIndex : Same(e, d)

\* The cache of keys, read, pruned or left alone.
LEMMA KeysRead ==
  ASSUME NEW key, keyCache' \in {keyCache, AfterGet(keyCache, key), Dropped(keyCache, key)}
  PROVE  KeysOld /\ KeysKept
<1>1. KeysOld
  <2>1. CASE keyCache' = keyCache
    BY <2>1 DEF KeysOld, Same
  <2>2. CASE keyCache' = AfterGet(keyCache, key)
    BY <2>2, GetKeeps DEF KeysOld
  <2>3. CASE keyCache' = Dropped(keyCache, key)
    BY <2>3, DroppedKeeps DEF KeysOld
  <2> QED BY <2>1, <2>2, <2>3
<1> QED BY <1>1 DEF KeysOld, KeysKept

\* The index of aliases, read, pruned, cleared or left alone.
LEMMA AliasesRead ==
  ASSUME NEW key, aliasIndex' \in {aliasIndex, AfterGet(aliasIndex, key), Dropped(aliasIndex, key), {}}
  PROVE  AliasesKept
<1>1. AliasesOld
  <2>1. CASE aliasIndex' = aliasIndex
    BY <2>1 DEF AliasesOld, Same
  <2>2. CASE aliasIndex' = AfterGet(aliasIndex, key)
    BY <2>2, GetKeeps DEF AliasesOld
  <2>3. CASE aliasIndex' = Dropped(aliasIndex, key)
    BY <2>3, DroppedKeeps DEF AliasesOld
  <2>4. CASE aliasIndex' = {}
    BY <2>4 DEF AliasesOld
  <2> QED BY <2>1, <2>2, <2>3, <2>4
<1> QED BY <1>1 DEF AliasesOld, AliasesKept

\* What a hit of the cache of keys is worth.
LEMMA KeyHit ==
  ASSUME KeysInv, NEW id, Cached(keyCache, id) # {}
  PROVE  /\ <<Stored, id>> \in Facts /\ Flag(<<Stored, id>>)
         /\ keyTime - KeyCacheTTL - 1 \in Int /\ Early(<<Stored, id>>, keyTime - KeyCacheTTL - 1)
<1>1. PICK e \in keyCache : e.key = id /\ ~hasExpired(e)
  BY DEF Cached
<1>2. FactsOK /\ keyTime \in Nat /\ KeyCacheTTL \in Nat
  BY KeyConstants DEF KeysInv, FactsOK, KeyConstants
<1>3. EntryOK(e, <<Stored, id>>, KeyCacheTTL)
  BY <1>1 DEF KeysInv, CachesOK
<1>4. PICK n \in Int : n = e.expires - KeyCacheTTL - 1
  BY <1>2, <1>3 DEF EntryOK
<1>5. PICK m \in Int : m = keyTime - KeyCacheTTL - 1
  BY <1>2
<1>6. m <= n
  BY <1>1, <1>2, <1>3, <1>4, <1>5 DEF EntryOK, hasExpired
<1>7. <<Stored, id>> \in Facts /\ Flag(<<Stored, id>>) /\ Early(<<Stored, id>>, n)
  BY <1>3, <1>4 DEF EntryOK
<1>8. Early(<<Stored, id>>, m)
  BY <1>2, <1>6, <1>7, EarlierStill
<1> QED BY <1>5, <1>7, <1>8

\* What a hit of the index of aliases is worth.
LEMMA AliasHit ==
  ASSUME KeysInv, NEW alias, NEW e \in Cached(aliasIndex, alias)
  PROVE  /\ <<alias, e.value>> \in Facts /\ Flag(<<alias, e.value>>)
         /\ keyTime - KeyAliasIndexTTL \in Int /\ Early(<<alias, e.value>>, keyTime - KeyAliasIndexTTL)
<1>1. e \in aliasIndex /\ e.key = alias /\ ~hasExpired(e)
  BY DEF Cached
<1>2. FactsOK /\ keyTime \in Nat /\ KeyAliasIndexTTL \in Nat
  BY KeyConstants DEF KeysInv, FactsOK, KeyConstants
<1>3. EntryOK(e, <<alias, e.value>>, KeyAliasIndexTTL)
  BY <1>1 DEF KeysInv, CachesOK
<1>4. PICK n \in Int : n = e.expires - KeyAliasIndexTTL - 1
  BY <1>2, <1>3 DEF EntryOK
<1>5. PICK m \in Int : m = keyTime - KeyAliasIndexTTL
  BY <1>2
<1>6. m <= n
  BY <1>1, <1>2, <1>3, <1>4, <1>5 DEF EntryOK, hasExpired
<1>7. <<alias, e.value>> \in Facts /\ Flag(<<alias, e.value>>) /\ Early(<<alias, e.value>>, n)
  BY <1>3, <1>4 DEF EntryOK
<1>8. Early(<<alias, e.value>>, m)
  BY <1>2, <1>6, <1>7, EarlierStill
<1> QED BY <1>5, <1>7, <1>8

\* A call that is over and used nothing.
LEMMA IdleIsRight == ASSUME FactsOK PROVE CallTypes(IdleCall) /\ LookupOK(IdleCall) /\ ChangeOK(IdleCall)
BY DEF FactsOK, IdleCall, CallTypes, CallFields, LookupOK, ChangeOK

-----------------------------------------------------------------------------
(* The steps of a lookup.                                                  *)

\* A key named by its id.
LEMMA ByIDStep ==
  ASSUME KeysInv, NEW c \in KeyCallers, NEW id \in KeyIds, resolveByID(c, id)
  PROVE  KeysInv'
<1>0. FactsOK /\ CallsOK /\ keyTime \in Nat
  BY DEF KeysInv, FactsOK
<1>1. KeysOld /\ KeysKept /\ AliasesKept
  BY KeysRead, AliasesRead DEF resolveByID
<1>2. PICK r : r = IF Cached(keyCache, id) # {}
                   THEN [Begin("done", "id", id, id) EXCEPT !.done = keyTime]
                   ELSE Begin("find", "id", id, id)
  OBVIOUS
<1>3. call' = [call EXCEPT ![c] = r] /\ UNCHANGED <<repository, keyTime, ended, settled, raced>>
  BY <1>2 DEF resolveByID
<1>4. /\ DOMAIN r = CallFields /\ r.by = "id" /\ r.id = id /\ r.began = keyTime /\ r.after = settled
      /\ r.at \in {"done", "find"} /\ r.done \in Nat
      /\ r.at = "done" => r.done = keyTime /\ Cached(keyCache, id) # {}
  BY <1>0, <1>2 DEF Begin, CallFields
<1>5. CallTypes(r)
  BY <1>0, <1>4 DEF CallTypes
<1>6. r.at = "done" => Knows(r, OfKey(r), r.done - KeyCacheTTL - 1)
  BY <1>4, KeyHit DEF Knows, OfKey, Flag
<1>7. LookupOK(r)
  BY <1>4, <1>6 DEF LookupOK
<1>8. NoReturn
  BY <1>0, <1>1, <1>3, <1>4, NothingReturns DEF KeysOld
<1> QED BY <1>1, <1>3, <1>4, <1>5, <1>7, <1>8, QuietStep

\* A key named by its alias.
LEMMA ByAliasStep ==
  ASSUME KeysInv, NEW c \in KeyCallers, NEW alias \in KeyAliases, resolveByAlias(c, alias)
  PROVE  KeysInv'
<1>0. FactsOK /\ CallsOK /\ keyTime \in Nat
  BY DEF KeysInv, FactsOK
<1>1. KeysOld /\ KeysKept /\ AliasesKept
  <2>1. keyCache' \in {keyCache, AfterGet(keyCache, alias), Dropped(keyCache, alias)}
    BY DEF resolveByAlias
  <2>2. aliasIndex' \in {aliasIndex, AfterGet(aliasIndex, alias), Dropped(aliasIndex, alias), {}}
    BY DEF resolveByAlias
  <2> QED BY <2>1, <2>2, KeysRead, AliasesRead
<1>2. PICK h : h = CHOOSE e \in Cached(aliasIndex, alias) : TRUE
  OBVIOUS
<1>3. PICK r : r = IF Cached(aliasIndex, alias) = {} THEN Begin("find", "alias", alias, "")
                   ELSE Begin("key", "alias", alias, h.value)
  OBVIOUS
<1>4. call' = [call EXCEPT ![c] = r] /\ UNCHANGED <<repository, keyTime, ended, settled, raced>>
  BY <1>2, <1>3 DEF resolveByAlias
<1>5. /\ DOMAIN r = CallFields /\ r.by = "alias" /\ r.ref = alias /\ r.began = keyTime /\ r.after = settled
      /\ r.at \in {"key", "find"} /\ r.done \in Nat
      /\ r.at = "key" => r.id = h.value /\ Cached(aliasIndex, alias) # {}
  BY <1>0, <1>3 DEF Begin, CallFields
<1>6. CallTypes(r)
  BY <1>0, <1>5 DEF CallTypes
<1>7. r.at = "key" => h \in Cached(aliasIndex, alias)
  BY <1>2, <1>5
<1>8. r.at = "key" => Knows(r, OfAlias(r), r.began - KeyAliasIndexTTL)
  BY <1>5, <1>7, AliasHit DEF Knows, OfAlias, Flag
<1>9. LookupOK(r)
  BY <1>5, <1>8 DEF LookupOK
<1>10. NoReturn
  BY <1>0, <1>1, <1>4, <1>5, NothingReturns DEF KeysOld
<1> QED BY <1>1, <1>4, <1>5, <1>6, <1>9, <1>10, QuietStep

\* A call that moves on keeps what it is about.
MovesTo(r, q, at) ==
  /\ DOMAIN q = CallFields /\ q.at = at /\ q.by = r.by /\ q.ref = r.ref /\ q.id = r.id
  /\ q.began = r.began /\ q.done = r.done /\ q.ends = r.ends /\ q.after = r.after

\* A call's record after it moved on.
LEMMA MovesIs ==
  ASSUME CallsOK, NEW c \in KeyCallers, NEW at, Moves(c, at)
  PROVE  \E q : call' = [call EXCEPT ![c] = q] /\ MovesTo(call[c], q, at)
<1>1. DOMAIN call[c] = CallFields
  BY DEF CallsOK, CallOK, CallTypes
<1>2. PICK q : q = [call[c] EXCEPT !.at = at]
  OBVIOUS
<1>3. call' = [call EXCEPT ![c] = q]
  BY <1>2 DEF Moves
<1>4. MovesTo(call[c], q, at)
  BY <1>1, <1>2 DEF MovesTo, CallFields
<1> QED BY <1>3, <1>4

\* A call's record after it has its key.
LEMMA UsesIs ==
  ASSUME CallsOK, NEW c \in KeyCallers, NEW id, call' = Uses(c, id)
  PROVE  \E q : /\ call' = [call EXCEPT ![c] = q]
                /\ DOMAIN q = CallFields /\ q.at = "done" /\ q.by = call[c].by /\ q.ref = call[c].ref /\ q.id = id
                /\ q.began = call[c].began /\ q.done = keyTime /\ q.after = call[c].after
<1>1. DOMAIN call[c] = CallFields
  BY DEF CallsOK, CallOK, CallTypes
<1>2. PICK q : q = [call[c] EXCEPT !.at = "done", !.id = id, !.done = keyTime]
  OBVIOUS
<1>3. call' = [call EXCEPT ![c] = q]
  BY <1>2 DEF Uses
<1>4. /\ DOMAIN q = CallFields /\ q.at = "done" /\ q.by = call[c].by /\ q.ref = call[c].ref /\ q.id = id
      /\ q.began = call[c].began /\ q.done = keyTime /\ q.after = call[c].after
  BY <1>1, <1>2 DEF CallFields
<1> QED BY <1>3, <1>4

\* The key of an alias that was in the index.
LEMMA KeyOfAliasStep ==
  ASSUME KeysInv, NEW c \in KeyCallers, KeyOfAlias(c)
  PROVE  KeysInv'
<1>0. FactsOK /\ CallsOK /\ keyTime \in Nat /\ KeyAliasIndexTTL \in Nat
  BY KeyConstants DEF KeysInv, FactsOK, KeyConstants
<1>1. PICK r : r = call[c]
  OBVIOUS
<1>2. r.at = "key" /\ UNCHANGED <<repository, keyTime, ended, settled, raced>>
  BY <1>1 DEF KeyOfAlias
<1>3. CallTypes(r) /\ LookupOK(r)
  BY <1>0, <1>1 DEF CallsOK, CallOK
<1>4. KeysOld /\ KeysKept /\ AliasesKept
  <2>1. keyCache' \in {keyCache, AfterGet(keyCache, r.id), Dropped(keyCache, r.id)}
    BY <1>1 DEF KeyOfAlias
  <2>2. aliasIndex' \in {aliasIndex, AfterGet(aliasIndex, r.id), Dropped(aliasIndex, r.id), {}}
    BY DEF KeyOfAlias
  <2> QED BY <2>1, <2>2, KeysRead, AliasesRead
<1>5. /\ r.began \in Nat /\ r.done \in Nat /\ r.after \subseteq settled /\ r.by = "alias" /\ r.ref \in KeyAliases
      /\ r.began <= keyTime /\ keyTime <= r.began + 1 /\ Knows(r, OfAlias(r), r.began - KeyAliasIndexTTL)
  BY <1>2, <1>3 DEF CallTypes, LookupOK
<1>6. CASE Cached(keyCache, r.id) # {}
  <2>1. PICK q : /\ call' = [call EXCEPT ![c] = q]
                 /\ DOMAIN q = CallFields /\ q.at = "done" /\ q.by = r.by /\ q.ref = r.ref /\ q.id = r.id
                 /\ q.began = r.began /\ q.done = keyTime /\ q.after = r.after
    BY <1>0, <1>1, <1>6, UsesIs DEF KeyOfAlias
  <2>2. CallTypes(q)
    BY <1>0, <1>5, <2>1 DEF CallTypes
  <2>3. Knows(q, OfKey(q), q.done - KeyCacheTTL - 1)
    BY <1>5, <1>6, <2>1, KeyHit DEF Knows, OfKey, Flag
  <2>4. Knows(q, OfAlias(q), q.done - KeyAliasIndexTTL - 1)
    <3>1. PICK n \in Int : n = r.began - KeyAliasIndexTTL
      BY <1>0, <1>5
    <3>2. PICK m \in Int : m = keyTime - KeyAliasIndexTTL - 1
      BY <1>0
    <3>3. m <= n
      BY <1>0, <1>5, <3>1, <3>2
    <3>4. OfAlias(q) = OfAlias(r) /\ OfAlias(r) \in Facts /\ Early(OfAlias(r), n)
      BY <1>5, <2>1, <3>1 DEF Knows, OfAlias
    <3>5. Early(OfAlias(r), m)
      BY <1>0, <3>3, <3>4, EarlierStill
    <3> QED BY <1>5, <2>1, <3>2, <3>4, <3>5 DEF Knows
  <2>5. LookupOK(q)
    BY <1>5, <2>1, <2>3, <2>4 DEF LookupOK
  <2>6. NoReturn
    BY <1>0, <1>4, <2>1, NothingReturns DEF KeysOld
  <2> QED BY <1>2, <1>4, <2>1, <2>2, <2>5, <2>6, QuietStep
<1>7. CASE Cached(keyCache, r.id) = {}
  <2>1. PICK q : call' = [call EXCEPT ![c] = q] /\ MovesTo(r, q, "forget")
    BY <1>0, <1>1, <1>7, MovesIs DEF KeyOfAlias
  <2>2. CallTypes(q)
    BY <1>5, <2>1 DEF CallTypes, MovesTo
  <2>3. LookupOK(q)
    BY <1>5, <2>1 DEF LookupOK, MovesTo
  <2>4. q.at = "forget"
    BY <2>1 DEF MovesTo
  <2>5. NoReturn
    BY <1>0, <1>4, <2>1, <2>4, NothingReturns DEF KeysOld
  <2> QED BY <1>2, <1>4, <2>1, <2>2, <2>3, <2>4, <2>5, QuietStep
<1> QED BY <1>6, <1>7

\* An alias whose key is no longer in the cache.
LEMMA ForgetAliasStep ==
  ASSUME KeysInv, NEW c \in KeyCallers, ForgetAlias(c)
  PROVE  KeysInv'
<1>0. FactsOK /\ CallsOK
  BY DEF KeysInv
<1>1. PICK r : r = call[c]
  OBVIOUS
<1>2. r.at = "forget" /\ UNCHANGED <<repository, keyTime, ended, settled, raced>>
  BY <1>1 DEF ForgetAlias
<1>3. CallTypes(r) /\ LookupOK(r)
  BY <1>0, <1>1 DEF CallsOK, CallOK
<1>4. KeysOld /\ KeysKept /\ AliasesKept
  <2>1. keyCache' \in {keyCache, AfterGet(keyCache, r.ref), Dropped(keyCache, r.ref)}
    BY DEF ForgetAlias
  <2>2. aliasIndex' \in {aliasIndex, AfterGet(aliasIndex, r.ref), Dropped(aliasIndex, r.ref), {}}
    BY <1>1 DEF ForgetAlias
  <2> QED BY <2>1, <2>2, KeysRead, AliasesRead
<1>5. PICK q : call' = [call EXCEPT ![c] = q] /\ MovesTo(r, q, "find")
  BY <1>0, <1>1, MovesIs DEF ForgetAlias
<1>6. CallTypes(q)
  BY <1>2, <1>3, <1>5 DEF CallTypes, MovesTo
<1>7. LookupOK(q)
  BY <1>2, <1>3, <1>5 DEF LookupOK, MovesTo
<1>8. q.at = "find"
  BY <1>5 DEF MovesTo
<1>9. NoReturn
  BY <1>0, <1>4, <1>5, <1>8, NothingReturns DEF KeysOld
<1> QED BY <1>2, <1>4, <1>5, <1>6, <1>7, <1>8, <1>9, QuietStep

\* What holds in the repository has not ended, so no call has settled it.
LEMMA TrueNow ==
  ASSUME FactsOK, NEW f \in Facts, ended[f] = NotEnded, NEW n \in Int, n <= keyTime
  PROVE  Early(f, n) /\ Flag(f)
BY DEF FactsOK, Early, Flag

\* The repository finds a key.
LEMMA FindStep ==
  ASSUME KeysInv, NEW c \in KeyCallers, Find(c)
  PROVE  KeysInv'
<1>0. FactsOK /\ CallsOK
  BY DEF KeysInv
<1>1. PICK r : r = call[c]
  OBVIOUS
<1>2. r.at = "find" /\ UNCHANGED <<repository, keyTime, ended, settled, raced>>
  BY <1>1 DEF Find
<1>3. CallTypes(r) /\ LookupOK(r) /\ DOMAIN r = CallFields
  BY <1>0, <1>1 DEF CallsOK, CallOK, CallTypes
<1>4. PICK id \in KeyIds :
          /\ Exists(id)
          /\ IF r.by = "id" THEN id = r.ref ELSE id \in Holders(r.ref)
          /\ call' = [call EXCEPT ![c].id = id, ![c].at = IF r.by = "id" THEN "cache" ELSE "index"]
  BY <1>1 DEF Find
<1>5. PICK q : q = [r EXCEPT !.id = id, !.at = IF r.by = "id" THEN "cache" ELSE "index"]
  OBVIOUS
<1>6. call' = [call EXCEPT ![c] = q]
  <2>1. r = call[c]
    BY <1>1
  <2> QED BY <1>4, <1>5, <2>1
<1>7. /\ DOMAIN q = CallFields /\ q.by = r.by /\ q.ref = r.ref /\ q.id = id /\ q.began = r.began
      /\ q.done = r.done /\ q.after = r.after /\ q.at = IF r.by = "id" THEN "cache" ELSE "index"
  BY <1>3, <1>5 DEF CallFields
<1>8. KeysOld /\ KeysKept /\ AliasesKept
  <2>1. keyCache' \in {keyCache, AfterGet(keyCache, id), Dropped(keyCache, id)}
    BY DEF Find
  <2>2. aliasIndex' \in {aliasIndex, AfterGet(aliasIndex, id), Dropped(aliasIndex, id), {}}
    BY DEF Find
  <2> QED BY <2>1, <2>2, KeysRead, AliasesRead
<1>9. /\ r.by \in {"id", "alias"} /\ (r.by = "alias" => r.ref \in KeyAliases) /\ r.began \in Nat
      /\ r.began <= keyTime
  BY <1>2, <1>3 DEF CallTypes, LookupOK
<1>10. CallTypes(q)
  BY <1>2, <1>3, <1>7, <1>9 DEF CallTypes
<1>11. repository[id] # "deleted"
  BY <1>4 DEF Exists
<1>12. Brings(q, OfKey(q))
  <2>1. <<Stored, id>> \in Facts /\ ended[<<Stored, id>>] = NotEnded
    BY <1>0, <1>11, FactPairs DEF FactsOK
  <2> QED BY <1>0, <1>7, <1>9, <2>1, TrueNow DEF Brings, OfKey
<1>13. r.by = "alias" => Brings(q, OfAlias(q))
  <2> SUFFICES ASSUME r.by = "alias" PROVE Brings(q, OfAlias(q))
    OBVIOUS
  <2>1. repository[id] = r.ref
    BY <1>4 DEF Holders
  <2>2. <<r.ref, id>> \in Facts /\ ended[<<r.ref, id>>] = NotEnded
    BY <1>0, <1>9, <2>1, FactPairs DEF FactsOK
  <2> QED BY <1>0, <1>7, <1>9, <2>2, TrueNow DEF Brings, OfAlias
<1>14. LookupOK(q)
  BY <1>7, <1>9, <1>12, <1>13 DEF LookupOK
<1>15. q.at \in {"index", "cache"} /\ q.id = id
  BY <1>7
<1>16. NoReturn
  BY <1>0, <1>6, <1>8, <1>11, <1>15, NothingReturns DEF KeysOld
<1> QED BY <1>2, <1>6, <1>8, <1>10, <1>14, <1>15, <1>16, QuietStep

\* The index takes an alias.
LEMMA PutAliasStep ==
  ASSUME KeysInv, NEW c \in KeyCallers, PutAlias(c)
  PROVE  KeysInv'
<1>0. FactsOK /\ CallsOK /\ keyTime \in Nat /\ KeyAliasIndexTTL \in Nat
  BY KeyConstants DEF KeysInv, FactsOK, KeyConstants
<1>1. PICK r : r = call[c]
  OBVIOUS
<1>2. r.at = "index" /\ UNCHANGED <<repository, keyTime, ended, settled, raced>>
  BY <1>1 DEF PutAlias
<1>3. CallTypes(r) /\ LookupOK(r)
  BY <1>0, <1>1 DEF CallsOK, CallOK
<1>4. /\ r.began \in Nat /\ r.began <= keyTime /\ keyTime <= r.began + 1 /\ r.after \subseteq settled
      /\ r.ref \in KeyAliases /\ Brings(r, OfKey(r)) /\ Brings(r, OfAlias(r))
  BY <1>2, <1>3 DEF CallTypes, LookupOK
<1>5. AliasesKept
  <2> SUFFICES ASSUME NEW e \in aliasIndex', ~\E d \in aliasIndex : Same(e, d)
               PROVE  e.key \in KeyAliases /\ EntryOK(e, <<e.key, e.value>>, KeyAliasIndexTTL)'
    BY DEF AliasesKept
  <2>1. e.key = r.ref /\ e.value = r.id /\ e.expires = keyTime + KeyAliasIndexTTL
    BY <1>1, PutKeeps DEF PutAlias
  <2>2. PICK m \in Int : m = e.expires - KeyAliasIndexTTL - 1
    BY <1>0, <2>1
  <2>3. m <= r.began
    BY <1>0, <1>4, <2>1, <2>2
  <2>4. OfAlias(r) = <<e.key, e.value>> /\ OfAlias(r) \in Facts /\ Early(OfAlias(r), r.began) /\ Flag(OfAlias(r))
    BY <1>4, <2>1 DEF Brings, OfAlias
  <2>5. Early(OfAlias(r), m)
    BY <1>0, <1>4, <2>3, <2>4, EarlierStill
  <2>6. Early(OfAlias(r), m)' /\ Flag(OfAlias(r))'
    BY <1>2, <2>4, <2>5 DEF Early, Flag
  <2>7. e.expires \in Int
    BY <1>0, <2>1
  <2> QED BY <1>4, <2>1, <2>2, <2>4, <2>6, <2>7 DEF EntryOK
<1>6. KeysOld /\ KeysKept
  <2>1. keyCache' \in {keyCache, AfterGet(keyCache, r.ref), Dropped(keyCache, r.ref)}
    BY DEF PutAlias
  <2> QED BY <2>1, KeysRead
<1>7. PICK q : call' = [call EXCEPT ![c] = q] /\ MovesTo(r, q, "cache")
  BY <1>0, <1>1, MovesIs DEF PutAlias
<1>8. CallTypes(q)
  BY <1>2, <1>3, <1>7 DEF CallTypes, MovesTo
<1>9. OfKey(q) = OfKey(r) /\ OfAlias(q) = OfAlias(r) /\ q.at = "cache" /\ q.began = r.began /\ q.after = r.after
  BY <1>7 DEF MovesTo, OfKey, OfAlias
<1>10. Brings(q, OfKey(q)) /\ Knows(q, OfAlias(q), q.began)
  BY <1>4, <1>9 DEF Brings, Knows, Flag
<1>11. LookupOK(q)
  BY <1>4, <1>7, <1>9, <1>10 DEF LookupOK, MovesTo
<1>12. Returns(r.id) /\ q.id = r.id
  BY <1>1, <1>2, <1>7 DEF Returns, MovesTo
<1>13. NoReturn
  BY <1>0, <1>6, <1>7, <1>12, NothingReturns DEF KeysOld
<1> QED BY <1>2, <1>5, <1>6, <1>7, <1>8, <1>9, <1>11, <1>13, QuietStep

\* The cache takes a key.
LEMMA PutKeyStep ==
  ASSUME KeysInv, NEW c \in KeyCallers, PutKey(c)
  PROVE  KeysInv'
<1>0. FactsOK /\ CallsOK /\ keyTime \in Nat /\ KeyAliasIndexTTL \in Nat /\ KeyCacheTTL \in Nat
  BY KeyConstants DEF KeysInv, FactsOK, KeyConstants
<1>1. PICK r : r = call[c]
  OBVIOUS
<1>2. r.at = "cache" /\ UNCHANGED <<repository, keyTime, ended, settled, raced>>
  BY <1>1 DEF PutKey
<1>3. CallTypes(r) /\ LookupOK(r)
  BY <1>0, <1>1 DEF CallsOK, CallOK
<1>4. /\ r.began \in Nat /\ r.done \in Nat /\ r.began <= keyTime /\ keyTime <= r.began + 1 /\ r.after \subseteq settled
      /\ Brings(r, OfKey(r)) /\ r.by \in {"id", "alias", "create"}
      /\ r.by = "alias" => r.ref \in KeyAliases /\ Knows(r, OfAlias(r), r.began)
  BY <1>2, <1>3 DEF CallTypes, LookupOK
<1>5. \A e \in keyCache' : \/ \E d \in keyCache : Same(e, d)
                           \/ e.key = r.id /\ e.expires = keyTime + KeyCacheTTL
  BY <1>1, PutKeeps DEF PutKey
<1>6. KeysKept
  <2> SUFFICES ASSUME NEW e \in keyCache', ~\E d \in keyCache : Same(e, d)
               PROVE  EntryOK(e, <<Stored, e.key>>, KeyCacheTTL)'
    BY DEF KeysKept
  <2>1. e.key = r.id /\ e.expires = keyTime + KeyCacheTTL
    BY <1>5
  <2>2. PICK m \in Int : m = e.expires - KeyCacheTTL - 1
    BY <1>0, <2>1
  <2>3. m <= r.began
    BY <1>0, <1>4, <2>1, <2>2
  <2>4. OfKey(r) = <<Stored, e.key>> /\ OfKey(r) \in Facts /\ Early(OfKey(r), r.began) /\ Flag(OfKey(r))
    BY <1>4, <2>1 DEF Brings, OfKey
  <2>5. Early(OfKey(r), m)
    BY <1>0, <1>4, <2>3, <2>4, EarlierStill
  <2>6. Early(OfKey(r), m)' /\ Flag(OfKey(r))'
    BY <1>2, <2>4, <2>5 DEF Early, Flag
  <2>7. e.expires \in Int
    BY <1>0, <2>1
  <2> QED BY <2>2, <2>4, <2>6, <2>7 DEF EntryOK
<1>7. AliasesKept
  <2>1. aliasIndex' \in {aliasIndex, AfterGet(aliasIndex, r.id), Dropped(aliasIndex, r.id), {}}
    BY DEF PutKey
  <2> QED BY <2>1, AliasesRead
<1>8. Returns(r.id)
  BY <1>1, <1>2 DEF Returns
<1>9. CASE r.by = "create"
  <2>1. PICK q : q = IdleCall
    OBVIOUS
  <2>2. call' = [call EXCEPT ![c] = q]
    BY <1>1, <1>9, <2>1 DEF PutKey
  <2>3. CallTypes(q) /\ LookupOK(q) /\ q.at = "idle"
    BY <1>0, <2>1, IdleIsRight DEF IdleCall
  <2>4. NoReturn
    BY <1>0, <1>5, <1>8, <2>2, <2>3, NothingReturns
  <2> QED BY <1>2, <1>6, <1>7, <2>2, <2>3, <2>4, QuietStep
<1>10. CASE r.by # "create"
  <2>1. PICK q : /\ call' = [call EXCEPT ![c] = q]
                 /\ DOMAIN q = CallFields /\ q.at = "done" /\ q.by = r.by /\ q.ref = r.ref /\ q.id = r.id
                 /\ q.began = r.began /\ q.done = keyTime /\ q.after = r.after
    BY <1>0, <1>1, <1>10, UsesIs DEF PutKey
  <2>2. CallTypes(q)
    BY <1>0, <1>4, <1>10, <2>1 DEF CallTypes
  <2>3. ASSUME NEW f \in Facts, Early(f, r.began), f \in r.after => f \in raced, NEW ttl \in Nat
        PROVE  Knows(q, f, q.done - ttl - 1)
    <3>1. PICK m \in Int : m = keyTime - ttl - 1
      BY <1>0
    <3>2. m <= r.began
      BY <1>0, <1>4, <3>1
    <3>3. Early(f, m)
      BY <1>0, <1>4, <2>3, <3>2, EarlierStill
    <3> QED BY <2>1, <2>3, <3>1, <3>3 DEF Knows
  <2>4. OfKey(q) = OfKey(r) /\ OfAlias(q) = OfAlias(r)
    BY <2>1 DEF OfKey, OfAlias
  <2>5. Knows(q, OfKey(q), q.done - KeyCacheTTL - 1)
    BY <1>0, <1>4, <2>3, <2>4 DEF Brings, Flag
  <2>6. r.by = "alias" => Knows(q, OfAlias(q), q.done - KeyAliasIndexTTL - 1)
    BY <1>0, <1>4, <2>3, <2>4 DEF Knows
  <2>7. LookupOK(q)
    BY <1>4, <2>1, <2>5, <2>6 DEF LookupOK
  <2>8. NoReturn
    BY <1>0, <1>5, <1>8, <2>1, NothingReturns
  <2> QED BY <1>2, <1>6, <1>7, <2>1, <2>2, <2>7, <2>8, QuietStep
<1> QED BY <1>9, <1>10

\* A call fails.
LEMMA CallFailsStep ==
  ASSUME KeysInv, NEW c \in KeyCallers, CallFails(c)
  PROVE  KeysInv'
<1>0. FactsOK /\ CallsOK
  BY DEF KeysInv
<1>1. PICK q : q = IdleCall
  OBVIOUS
<1>2. call' = [call EXCEPT ![c] = q] /\ UNCHANGED <<repository, keyTime, ended, settled, raced>>
  BY <1>1 DEF CallFails
<1>3. KeysOld /\ KeysKept /\ AliasesKept
  <2>1. keyCache' \in {keyCache, AfterGet(keyCache, c), Dropped(keyCache, c)}
    BY DEF CallFails
  <2>2. aliasIndex' \in {aliasIndex, AfterGet(aliasIndex, c), Dropped(aliasIndex, c), {}}
    BY DEF CallFails
  <2> QED BY <2>1, <2>2, KeysRead, AliasesRead
<1>4. CallTypes(q) /\ LookupOK(q) /\ q.at = "idle"
  BY <1>0, <1>1, IdleIsRight DEF IdleCall
<1>5. NoReturn
  BY <1>0, <1>2, <1>3, <1>4, NothingReturns DEF KeysOld
<1> QED BY <1>2, <1>3, <1>4, <1>5, QuietStep

-----------------------------------------------------------------------------
(* The steps that change a key.                                            *)

\* A call has a new record, no other call is concerned, and the caches stay as they are
\* or lose entries.
LEMMA ChangeStep ==
  ASSUME KeysInv, FactStep, FactsOK', KeysKept, AliasesKept, NoReturn,
         UNCHANGED keyTime, settled \subseteq settled',
         NEW c \in KeyCallers, NEW q, call' = [call EXCEPT ![c] = q], CallOK(q)'
  PROVE  KeysInv'
<1>0. CallsOK
  BY DEF KeysInv
<1>1. call' = [d \in KeyCallers |-> call'[d]]
  BY <1>0 DEF CallsOK
<1>2. \A d \in KeyCallers :
            \/ Stays(d) /\ (call[d].at \notin {"idle", "done"} => keyTime' <= call[d].began + 1)
            \/ CallOK(call[d])'
  <2> TAKE d \in KeyCallers
  <2>1. CASE d = c
    <3>1. call'[d] = q
      BY <1>0, <2>1 DEF CallsOK
    <3> QED BY <3>1
  <2>2. CASE d # c
    <3>1. call'[d] = call[d]
      BY <1>0, <2>2 DEF CallsOK
    <3> QED BY <3>1, OthersStay
  <2> QED BY <2>1, <2>2
<1> QED BY <1>1, <1>2, StepKeeps

\* The caches are left alone.
LEMMA CachesUntouched ==
  ASSUME UNCHANGED <<keyCache, aliasIndex>>
  PROVE  KeysOld /\ KeysKept /\ AliasesKept
<1>1. keyCache' \in {keyCache, AfterGet(keyCache, Stored), Dropped(keyCache, Stored)}
  OBVIOUS
<1>2. aliasIndex' \in {aliasIndex, AfterGet(aliasIndex, Stored), Dropped(aliasIndex, Stored), {}}
  OBVIOUS
<1> QED BY <1>1, <1>2, KeysRead, AliasesRead

\* A key is made. Nothing was ever said of it.
LEMMA CreateStep ==
  ASSUME KeysInv, NEW c \in KeyCallers, NEW alias \in KeyAliases \cup {NoAlias}, Create(c, alias)
  PROVE  KeysInv'
<1>0. FactsOK /\ CallsOK /\ keyTime \in Nat
  BY DEF KeysInv, FactsOK
<1>1. PICK id \in KeyIds :
          /\ repository[id] = "unused"
          /\ repository' = [repository EXCEPT ![id] = alias]
          /\ call' = [call EXCEPT ![c] = Begin(IF alias = NoAlias THEN "cache" ELSE "index", "create", alias, id)]
  BY DEF Create
<1>2. UNCHANGED <<aliasIndex, keyCache, keyTime, ended, settled, raced>>
  BY DEF Create
<1>3. PICK q : q = Begin(IF alias = NoAlias THEN "cache" ELSE "index", "create", alias, id)
  OBVIOUS
<1>4. /\ DOMAIN q = CallFields /\ q.by = "create" /\ q.ref = alias /\ q.id = id /\ q.began = keyTime
      /\ q.done = 0 /\ q.after = settled /\ q.at = IF alias = NoAlias THEN "cache" ELSE "index"
  BY <1>3 DEF Begin, CallFields
<1>5. call' = [call EXCEPT ![c] = q]
  BY <1>1, <1>3
<1>6. KeysOld /\ KeysKept /\ AliasesKept
  BY <1>2, CachesUntouched
<1>7. FactsOK'
  <2>1. repository' \in [KeyIds -> KeyAliases \cup {NoAlias, "unused", "deleted"}]
    BY <1>0, <1>1 DEF FactsOK
  <2>2. ASSUME NEW i \in KeyIds
        PROVE  /\ repository'[i] # "deleted" => ended[<<Stored, i>>] = NotEnded
               /\ \A a \in KeyAliases : repository'[i] \in {a, "unused"} => ended[<<a, i>>] = NotEnded
    BY <1>0, <1>1 DEF FactsOK
  <2> QED BY <1>0, <1>2, <2>1, <2>2 DEF FactsOK
<1>8. FactStep
  <2>1. \A f \in Facts : Flag(f) => Flag(f)'
    BY <1>2 DEF Flag
  <2>2. \A i \in KeyIds : repository[i] = "deleted" => repository'[i] = "deleted"
    BY <1>0, <1>1 DEF FactsOK
  <2> QED BY <1>0, <1>2, <2>1, <2>2 DEF FactStep
<1>9. CallOK(q)'
  <2>1. CallTypes(q)'
    BY <1>0, <1>2, <1>4 DEF CallTypes
  <2>2. ASSUME NEW f \in Facts, ended[f] = NotEnded
        PROVE  Brings(q, f)'
    <3>1. Early(f, keyTime) /\ Flag(f)
      BY <1>0, <2>2, TrueNow
    <3> QED BY <1>2, <1>4, <3>1 DEF Brings, Early, Flag
  <2>3. <<Stored, id>> \in Facts /\ ended[<<Stored, id>>] = NotEnded
    BY <1>0, <1>1, FactPairs DEF FactsOK
  <2>4. alias # NoAlias => <<alias, id>> \in Facts /\ ended[<<alias, id>>] = NotEnded
    BY <1>0, <1>1, FactPairs DEF FactsOK
  <2>5. OfKey(q)' = <<Stored, id>> /\ OfAlias(q)' = <<alias, id>>
    BY <1>4 DEF OfKey, OfAlias
  <2>6. LookupOK(q)'
    BY <1>4, <2>2, <2>3, <2>4, <2>5 DEF LookupOK
  <2>7. ChangeOK(q)'
    BY <1>4 DEF ChangeOK
  <2> QED BY <2>1, <2>6, <2>7 DEF CallOK
<1>10. NoReturn
  <2>1. repository[q.id] # "deleted"
    BY <1>1, <1>4
  <2> QED BY <1>0, <1>5, <1>6, <2>1, NothingReturns DEF KeysOld
<1> QED BY <1>2, <1>5, <1>6, <1>7, <1>8, <1>9, <1>10, ChangeStep

\* What a key is bound to is a fact about it, and not that it is stored.
LEMMA BoundFacts ==
  ASSUME NEW id \in KeyIds
  PROVE  /\ Bound(id) \subseteq Facts
         /\ \A a, i : <<a, i>> \in Bound(id) => i = id /\ a = repository[id] /\ a \in KeyAliases /\ a # Stored
         /\ Gone(id) \subseteq Facts /\ \A i : <<Stored, i>> \in Gone(id) => i = id
<1>1. /\ Bound(id) \subseteq Facts
      /\ \A a, i : <<a, i>> \in Bound(id) => i = id /\ a = repository[id] /\ a \in KeyAliases /\ a # Stored
  BY FactPairs, KeyConstants DEF Bound, KeyConstants
<1> QED BY <1>1, FactPairs DEF Gone

\* The repository binds a key to another alias.
LEMMA RebindFacts ==
  ASSUME KeysInv, NEW id \in KeyIds, NEW alias \in KeyAliases \cup {NoAlias}, NEW moved,
         Rebind(id, alias, moved), UNCHANGED keyTime
  PROVE  FactStep /\ FactsOK'
<1>0. FactsOK /\ keyTime \in Nat
  BY DEF KeysInv, FactsOK
<1>1. PICK made : made = {<<alias, id>>} \cap Facts
  OBVIOUS
<1>2. /\ Exists(id) /\ repository' = [repository EXCEPT ![id] = alias]
      /\ ended' = [f \in Facts |-> IF f \in made THEN NotEnded
                                   ELSE IF f \in Bound(id) THEN keyTime ELSE ended[f]]
      /\ raced' = raced \ made /\ settled' = settled \ made
  BY <1>1 DEF Rebind, Binds
<1>3. \A i : <<Stored, i>> \notin made
  BY <1>1, KeyConstants DEF KeyConstants, NoAlias, Stored
<1>4. \A f \in Facts : ended'[f] = IF f \in made THEN NotEnded
                                   ELSE IF f \in Bound(id) THEN keyTime ELSE ended[f]
  BY <1>2
<1>5. FactsOK'
  <2>1. repository' \in [KeyIds -> KeyAliases \cup {NoAlias, "unused", "deleted"}]
    BY <1>0, <1>2 DEF FactsOK
  <2>2. ended' \in [Facts -> Int]
    <3>1. \A f \in Facts : ended[f] \in Int /\ NotEnded \in Int /\ keyTime \in Int
      BY <1>0 DEF FactsOK, NotEnded
    <3> QED BY <1>2, <3>1
  <2>3. \A f \in Facts : ended'[f] # NotEnded => ended'[f] \in 0 .. keyTime
    <3>1. \A f \in Facts : ended[f] # NotEnded => ended[f] \in 0 .. keyTime
      BY <1>0 DEF FactsOK
    <3>2. keyTime \in 0 .. keyTime
      BY <1>0
    <3> QED BY <1>4, <3>1, <3>2
  <2>4. settled' \subseteq {f \in Facts : ended'[f] # NotEnded}
    <3>1. keyTime # NotEnded
      BY <1>0 DEF NotEnded
    <3> QED BY <1>0, <1>2, <1>4, <3>1 DEF FactsOK
  <2>5. ASSUME NEW i \in KeyIds
        PROVE  /\ repository'[i] # "deleted" => ended'[<<Stored, i>>] = NotEnded
               /\ \A a \in KeyAliases : repository'[i] \in {a, "unused"} => ended'[<<a, i>>] = NotEnded
    <3>1. /\ repository[i] # "deleted" => ended[<<Stored, i>>] = NotEnded
          /\ \A a \in KeyAliases : repository[i] \in {a, "unused"} => ended[<<a, i>>] = NotEnded
      BY <1>0 DEF FactsOK
    <3>2. ended'[<<Stored, i>>] = ended[<<Stored, i>>]
      BY <1>3, <1>4, BoundFacts, FactPairs
    <3>3. CASE i = id
      <4>1. repository'[i] = alias /\ repository[i] # "deleted" /\ alias # "unused"
        BY <1>0, <1>2, <3>3, KeyConstants DEF FactsOK, Exists, KeyConstants, NoAlias
      <4>2. ASSUME NEW a \in KeyAliases, a = alias
            PROVE  ended'[<<a, i>>] = NotEnded
        BY <1>1, <1>4, <3>3, <4>2, FactPairs
      <4> QED BY <3>1, <3>2, <4>1, <4>2
    <3>4. CASE i # id
      <4>1. repository'[i] = repository[i]
        BY <1>0, <1>2, <3>4 DEF FactsOK
      <4>2. \A a \in KeyAliases : ended'[<<a, i>>] = ended[<<a, i>>]
        BY <1>1, <1>4, <3>4, BoundFacts, FactPairs
      <4> QED BY <3>1, <3>2, <4>1, <4>2
    <3> QED BY <3>3, <3>4
  <2> QED BY <1>0, <2>1, <2>2, <2>3, <2>4, <2>5 DEF FactsOK
<1>6. FactStep
  <2>1. \A f \in Facts : ended'[f] \in {ended[f], NotEnded, keyTime}
    BY <1>4
  <2>2. \A f \in Facts : Flag(f) => Flag(f)'
    BY <1>2 DEF Flag
  <2>3. \A f \in Facts : f \in raced /\ f \in settled' => f \in raced'
    BY <1>2
  <2>4. \A i \in KeyIds : repository[i] = "deleted" => repository'[i] = "deleted"
    BY <1>0, <1>2 DEF FactsOK, Exists
  <2>5. \A i \in KeyIds : <<Stored, i>> \in raced => <<Stored, i>> \in raced'
    BY <1>2, <1>3
  <2> QED BY <1>0, <2>1, <2>2, <2>3, <2>4, <2>5 DEF FactStep
<1> QED BY <1>5, <1>6

\* A call that the binding does not concern may have begun after a change that is undone.
LEMMA RebindStays ==
  ASSUME KeysInv, NEW id, NEW alias, NEW moved, Rebind(id, alias, moved), UNCHANGED keyTime,
         NEW d \in KeyCallers, moved[d] = call[d]
  PROVE  Stays(d) /\ (call[d].at \notin {"idle", "done"} => keyTime' <= call[d].began + 1)
<1>1. CallTypes(call[d]) /\ DOMAIN call[d] = CallFields
  BY DEF KeysInv, CallsOK, CallOK, CallTypes
<1>2. PICK made : made = {<<alias, id>>} \cap Facts
  OBVIOUS
<1>3. call'[d] = [call[d] EXCEPT !.after = @ \ made] /\ settled' = settled \ made
  BY <1>2 DEF Rebind, Binds
<1>4. Stays(d)
  BY <1>1, <1>3 DEF Stays, CallTypes, CallFields
<1> QED BY <1>1, <1>4 DEF CallTypes

\* No call or entry appears.
LEMMA SameCallsReturn ==
  ASSUME KeysOld, \A d \in KeyCallers : call'[d].at \in {"index", "cache"} =>
                     call'[d].at = call[d].at /\ call'[d].id = call[d].id
  PROVE  NoReturn
BY DEF KeysOld, Same, NoReturn, Returns

\* SetAlias and DeleteAlias at the repository.
LEMMA SetAliasStep ==
  ASSUME KeysInv, NEW c \in KeyCallers, NEW id \in KeyIds, NEW alias \in KeyAliases \cup {NoAlias},
         SetAlias(c, id, alias)
  PROVE  KeysInv'
<1>0. FactsOK /\ CallsOK /\ keyTime \in Nat
  BY DEF KeysInv, FactsOK
<1>1. PICK r : r = [Begin("clear", "set", alias, id) EXCEPT !.ends = Bound(id) \ {<<alias, id>>}]
  OBVIOUS
<1>2. PICK moved : moved = [call EXCEPT ![c] = r]
  OBVIOUS
<1>3. Rebind(id, alias, moved) /\ UNCHANGED <<aliasIndex, keyCache, keyTime>>
  BY <1>1, <1>2 DEF SetAlias
<1>4. KeysOld /\ KeysKept /\ AliasesKept
  BY <1>3, CachesUntouched
<1>5. FactStep /\ FactsOK'
  BY <1>3, RebindFacts
<1>6. PICK made : made = {<<alias, id>>} \cap Facts
  OBVIOUS
<1>7. call' = [d \in KeyCallers |-> [moved[d] EXCEPT !.after = @ \ made]] /\ settled' = settled \ made
  BY <1>3, <1>6 DEF Rebind, Binds
<1>8. /\ DOMAIN r = CallFields /\ r.at = "clear" /\ r.by = "set" /\ r.began = keyTime /\ r.done = 0
      /\ r.ends = Bound(id) \ {<<alias, id>>} /\ r.after = settled
  BY <1>1 DEF Begin, CallFields
<1>9. PICK q : q = call'[c]
  OBVIOUS
<1>10. /\ DOMAIN q = CallFields /\ q.at = "clear" /\ q.by = "set" /\ q.began = keyTime /\ q.done = 0
       /\ q.ends = Bound(id) \ {<<alias, id>>} /\ q.after = settled \ made
  <2>1. q = [r EXCEPT !.after = @ \ made]
    BY <1>0, <1>2, <1>7, <1>9 DEF CallsOK
  <2> QED BY <1>8, <2>1 DEF CallFields
<1>11. CallOK(q)'
  <2>1. CallTypes(q)'
    BY <1>0, <1>3, <1>7, <1>10 DEF CallTypes
  <2>2. LookupOK(q)'
    BY <1>10 DEF LookupOK
  <2>3. q.ends \subseteq Facts /\ \A i : <<Stored, i>> \notin q.ends
    BY <1>10, BoundFacts
  <2>4. ChangeOK(q)'
    BY <1>10, <2>3 DEF ChangeOK
  <2> QED BY <2>1, <2>2, <2>4 DEF CallOK
<1>12. \A d \in KeyCallers : d # c => moved[d] = call[d]
  BY <1>0, <1>2 DEF CallsOK
<1>13. \A d \in KeyCallers :
            \/ Stays(d) /\ (call[d].at \notin {"idle", "done"} => keyTime' <= call[d].began + 1)
            \/ CallOK(call[d])'
  <2> TAKE d \in KeyCallers
  <2>1. CASE d = c
    BY <1>9, <1>11, <2>1
  <2>2. CASE d # c
    BY <1>3, <1>12, <2>2, RebindStays
  <2> QED BY <2>1, <2>2
<1>14. NoReturn
  <2>1. \A d \in KeyCallers : d # c => Stays(d)
    BY <1>3, <1>12, RebindStays
  <2>2. \A d \in KeyCallers : call'[d].at \in {"index", "cache"} =>
                     call'[d].at = call[d].at /\ call'[d].id = call[d].id
    BY <1>9, <1>10, <2>1 DEF Stays
  <2> QED BY <1>4, <2>2, SameCallsReturn
<1>15. call' = [d \in KeyCallers |-> call'[d]]
  BY <1>7
<1> QED BY <1>4, <1>5, <1>13, <1>14, <1>15, StepKeeps

\* The repository deletes a key.
LEMMA DeleteFacts ==
  ASSUME KeysInv, NEW id \in KeyIds, Exists(id), repository' = [repository EXCEPT ![id] = "deleted"],
         End(Gone(id)), UNCHANGED <<keyTime, settled, raced>>
  PROVE  FactStep /\ FactsOK'
<1>0. FactsOK /\ keyTime \in Nat
  BY DEF KeysInv, FactsOK
<1>1. \A f \in Facts : ended'[f] = IF f \in Gone(id) THEN keyTime ELSE ended[f]
  BY DEF End
<1>2. FactsOK'
  <2>1. repository' \in [KeyIds -> KeyAliases \cup {NoAlias, "unused", "deleted"}]
    BY <1>0 DEF FactsOK
  <2>2. ended' \in [Facts -> Int]
    <3>1. \A f \in Facts : ended[f] \in Int /\ keyTime \in Int
      BY <1>0 DEF FactsOK
    <3> QED BY <3>1 DEF End
  <2>3. \A f \in Facts : ended'[f] # NotEnded => ended'[f] \in 0 .. keyTime
    <3>1. \A f \in Facts : ended[f] # NotEnded => ended[f] \in 0 .. keyTime
      BY <1>0 DEF FactsOK
    <3>2. keyTime \in 0 .. keyTime
      BY <1>0
    <3> QED BY <1>1, <3>1, <3>2
  <2>4. settled' \subseteq {f \in Facts : ended'[f] # NotEnded}
    <3>1. keyTime # NotEnded
      BY <1>0 DEF NotEnded
    <3> QED BY <1>0, <1>1, <3>1 DEF FactsOK
  <2>5. ASSUME NEW i \in KeyIds
        PROVE  /\ repository'[i] # "deleted" => ended'[<<Stored, i>>] = NotEnded
               /\ \A a \in KeyAliases : repository'[i] \in {a, "unused"} => ended'[<<a, i>>] = NotEnded
    <3>1. CASE i = id
      BY <1>0, <3>1, KeyConstants DEF FactsOK, KeyConstants
    <3>2. CASE i # id
      <4>1. repository'[i] = repository[i]
        BY <1>0, <3>2 DEF FactsOK
      <4>2. ended'[<<Stored, i>>] = ended[<<Stored, i>>]
        BY <1>1, <3>2, BoundFacts, FactPairs
      <4>3. \A a \in KeyAliases : <<a, i>> \notin Gone(id)
        BY <3>2, BoundFacts DEF Gone
      <4>4. \A a \in KeyAliases : ended'[<<a, i>>] = ended[<<a, i>>]
        BY <1>1, <4>3, FactPairs
      <4> QED BY <1>0, <4>1, <4>2, <4>4 DEF FactsOK
    <3> QED BY <3>1, <3>2
  <2> QED BY <1>0, <2>1, <2>2, <2>3, <2>4, <2>5 DEF FactsOK
<1>3. FactStep
  <2>1. \A f \in Facts : Flag(f) => Flag(f)'
    BY DEF Flag
  <2>2. \A f \in Facts : ended'[f] \in {ended[f], NotEnded, keyTime}
    BY <1>1
  <2>3. \A i \in KeyIds : repository[i] = "deleted" => repository'[i] = "deleted"
    BY <1>0 DEF FactsOK
  <2> QED BY <1>0, <2>1, <2>2, <2>3 DEF FactStep
<1> QED BY <1>2, <1>3

\* DeleteByID at the repository.
LEMMA DeleteStep ==
  ASSUME KeysInv, NEW c \in KeyCallers, NEW id \in KeyIds, DeleteByID(c, id)
  PROVE  KeysInv'
<1>0. FactsOK /\ CallsOK /\ keyTime \in Nat
  BY DEF KeysInv, FactsOK
<1>1. PICK q : q = [Begin("remove", "delete", id, id) EXCEPT !.ends = Gone(id)]
  OBVIOUS
<1>2. /\ Exists(id) /\ repository' = [repository EXCEPT ![id] = "deleted"] /\ End(Gone(id))
      /\ call' = [call EXCEPT ![c] = q] /\ UNCHANGED <<aliasIndex, keyCache, keyTime, settled, raced>>
  BY <1>1 DEF DeleteByID
<1>3. FactStep /\ FactsOK'
  BY <1>2, DeleteFacts
<1>4. KeysOld /\ KeysKept /\ AliasesKept
  BY <1>2, CachesUntouched
<1>5. /\ DOMAIN q = CallFields /\ q.at = "remove" /\ q.by = "delete" /\ q.id = id /\ q.began = keyTime
      /\ q.done = 0 /\ q.ends = Gone(id) /\ q.after = settled
  BY <1>1 DEF Begin, CallFields
<1>6. CallOK(q)'
  <2>1. CallTypes(q)'
    BY <1>0, <1>2, <1>5 DEF CallTypes
  <2>2. LookupOK(q)'
    BY <1>5 DEF LookupOK
  <2>3. q.ends \subseteq Facts /\ \A i : <<Stored, i>> \in q.ends => i = id
    BY <1>5, BoundFacts
  <2>4. repository'[id] = "deleted"
    BY <1>0, <1>2 DEF FactsOK
  <2>5. ChangeOK(q)'
    BY <1>5, <2>3, <2>4 DEF ChangeOK
  <2> QED BY <2>1, <2>2, <2>5 DEF CallOK
<1>7. NoReturn
  BY <1>0, <1>2, <1>4, <1>5, NothingReturns DEF KeysOld
<1> QED BY <1>2, <1>3, <1>4, <1>6, <1>7, ChangeStep

\* DeleteByID at the cache: whoever still brings the key back is seen to race it.
LEMMA RemoveKeyStep ==
  ASSUME KeysInv, NEW c \in KeyCallers, RemoveKey(c)
  PROVE  KeysInv'
<1>0. FactsOK /\ CallsOK /\ keyTime \in Nat
  BY DEF KeysInv, FactsOK
<1>1. PICK r : r = call[c]
  OBVIOUS
<1>2. /\ r.at = "remove" /\ keyCache' = Dropped(keyCache, r.id) /\ Races({<<Stored, r.id>>})
      /\ UNCHANGED <<repository, aliasIndex, keyTime, ended, settled>>
  BY <1>1 DEF RemoveKey
<1>3. CallTypes(r) /\ LookupOK(r) /\ ChangeOK(r)
  BY <1>0, <1>1 DEF CallsOK, CallOK
<1>4. PICK q : call' = [call EXCEPT ![c] = q] /\ MovesTo(r, q, "clear")
  BY <1>0, <1>1, MovesIs DEF RemoveKey
<1>5. KeysOld /\ KeysKept /\ AliasesKept
  <2>1. keyCache' \in {keyCache, AfterGet(keyCache, r.id), Dropped(keyCache, r.id)}
    BY <1>2
  <2>2. aliasIndex' \in {aliasIndex, AfterGet(aliasIndex, r.id), Dropped(aliasIndex, r.id), {}}
    BY <1>2
  <2> QED BY <2>1, <2>2, KeysRead, AliasesRead
<1>6. raced \subseteq raced'
  BY <1>2 DEF Races
<1>7. FactsOK'
  BY <1>0, <1>2 DEF FactsOK
<1>8. FactStep
  <2>1. \A f \in Facts : Flag(f) => Flag(f)'
    BY <1>2, <1>6 DEF Flag
  <2> QED BY <1>0, <1>2, <1>6, <2>1 DEF FactStep
<1>9. q.at = "clear" /\ q.ends = r.ends
  BY <1>4 DEF MovesTo
<1>10. NoReturn
  BY <1>0, <1>4, <1>5, <1>9, NothingReturns DEF KeysOld
<1>11. Returns(r.id)' => <<Stored, r.id>> \in raced'
  <2>1. ASSUME NEW e \in keyCache'
        PROVE  e.key # r.id
    BY <1>2, DroppedKeeps DEF Same
  <2>2. ASSUME NEW d \in KeyCallers, call'[d].at \in {"index", "cache"}, call'[d].id = r.id
        PROVE  <<Stored, r.id>> \in raced'
    <3>1. d # c
      BY <1>0, <1>4, <1>9, <2>2 DEF CallsOK
    <3>2. call'[d] = call[d]
      BY <1>0, <1>4, <3>1 DEF CallsOK
    <3>3. Holds(d, <<Stored, r.id>>)
      BY <2>2, <3>2 DEF Holds
    <3> QED BY <1>2, <3>3 DEF Races
  <2> QED BY <2>1, <2>2 DEF Returns
<1>12. CallOK(q)'
  <2>1. CallTypes(q)'
    BY <1>2, <1>3, <1>4 DEF CallTypes, MovesTo
  <2>2. q.by # "alias" \/ q.ref \in KeyAliases
    BY <1>3, <1>4 DEF LookupOK, MovesTo
  <2>3. LookupOK(q)'
    BY <1>9, <2>2 DEF LookupOK
  <2>4. /\ r.ends \subseteq Facts /\ \A id \in KeyIds : <<Stored, id>> \in r.ends => repository[id] = "deleted"
        /\ \A id \in KeyIds : <<Stored, id>> \in r.ends => id = r.id
    BY <1>2, <1>3 DEF ChangeOK
  <2>5. ChangeOK(q)'
    BY <1>2, <1>9, <1>11, <2>4 DEF ChangeOK
  <2> QED BY <2>1, <2>3, <2>5 DEF CallOK
<1> QED BY <1>2, <1>4, <1>5, <1>7, <1>8, <1>10, <1>12, ChangeStep

\* The index is cleared and the call is over: what it ended is settled, and whoever still
\* knows of it is seen to race it.
LEMMA ClearStep ==
  ASSUME KeysInv, NEW c \in KeyCallers, ClearAliases(c)
  PROVE  KeysInv'
<1>0. FactsOK /\ CallsOK /\ keyTime \in Nat
  BY DEF KeysInv, FactsOK
<1>1. PICK r : r = call[c]
  OBVIOUS
<1>2. PICK q : q = IdleCall
  OBVIOUS
<1>3. /\ r.at = "clear" /\ aliasIndex' = {} /\ Races(r.ends) /\ call' = [call EXCEPT ![c] = q]
      /\ settled' = settled \cup {f \in r.ends : ended[f] # NotEnded}
      /\ UNCHANGED <<repository, keyCache, keyTime, ended>>
  BY <1>1, <1>2 DEF ClearAliases, Settles
<1>4. /\ r.ends \subseteq Facts
      /\ \A id \in KeyIds : <<Stored, id>> \in r.ends /\ Returns(id) => <<Stored, id>> \in raced
  BY <1>0, <1>1, <1>3 DEF CallsOK, CallOK, ChangeOK
<1>5. KeysOld /\ KeysKept /\ AliasesKept
  <2>1. keyCache' \in {keyCache, AfterGet(keyCache, Stored), Dropped(keyCache, Stored)}
    BY <1>3
  <2>2. aliasIndex' \in {aliasIndex, AfterGet(aliasIndex, Stored), Dropped(aliasIndex, Stored), {}}
    BY <1>3
  <2> QED BY <2>1, <2>2, KeysRead, AliasesRead
<1>6. raced \subseteq raced' /\ settled \subseteq settled'
  BY <1>3 DEF Races
<1>7. FactsOK'
  <2>1. settled' \subseteq {f \in Facts : ended'[f] # NotEnded}
    BY <1>0, <1>3, <1>4 DEF FactsOK
  <2> QED BY <1>0, <1>3, <2>1 DEF FactsOK
<1>8. ASSUME NEW f \in Facts, Touched(f), Flag(f)
      PROVE  Flag(f)'
  <2> SUFFICES ASSUME f \in r.ends PROVE f \in raced'
    BY <1>3, <1>6, <1>8 DEF Flag
  <2>1. CASE \E d \in KeyCallers : Holds(d, f)
    BY <1>3, <2>1 DEF Races
  <2>2. CASE \E e \in keyCache : f = <<Stored, e.key>>
    <3>1. PICK e \in keyCache : f = <<Stored, e.key>>
      BY <2>2
    <3>2. e.key \in KeyIds /\ Returns(e.key)
      BY <3>1, FactPairs DEF Returns
    <3> QED BY <1>4, <1>6, <3>1, <3>2
  <2> QED BY <1>3, <1>8, <2>1, <2>2 DEF Touched
<1>9. FactStep
  BY <1>0, <1>3, <1>6, <1>8 DEF FactStep
<1>10. CallOK(q)'
  <2>1. CallTypes(q)'
    BY <1>0, <1>2, <1>3, <1>7 DEF IdleCall, CallTypes, CallFields
  <2>2. LookupOK(q)' /\ ChangeOK(q)'
    BY <1>2 DEF IdleCall, LookupOK, ChangeOK
  <2> QED BY <2>1, <2>2 DEF CallOK
<1>11. NoReturn
  <2>1. q.at = "idle"
    BY <1>2 DEF IdleCall
  <2> QED BY <1>0, <1>3, <1>5, <2>1, NothingReturns DEF KeysOld
<1> QED BY <1>3, <1>5, <1>6, <1>7, <1>9, <1>10, <1>11, ChangeStep

\* Another process changes a key.
LEMMA ElsewhereStep ==
  ASSUME KeysInv, NEW id \in KeyIds, ChangedElsewhere(id)
  PROVE  KeysInv'
<1>0. CallsOK /\ UNCHANGED <<aliasIndex, keyCache, keyTime>>
  BY DEF KeysInv, ChangedElsewhere
<1>1. KeysOld /\ KeysKept /\ AliasesKept
  BY <1>0, CachesUntouched
<1>2. ASSUME NEW alias \in KeyAliases \cup {NoAlias}, Rebind(id, alias, call)
      PROVE  KeysInv'
  <2>1. FactStep /\ FactsOK'
    <3>1. PICK moved : moved = call
      OBVIOUS
    <3> QED BY <1>0, <1>2, <3>1, RebindFacts
  <2>2. \A d \in KeyCallers :
           Stays(d) /\ (call[d].at \notin {"idle", "done"} => keyTime' <= call[d].began + 1)
    <3>1. PICK moved : moved = call
      OBVIOUS
    <3> QED BY <1>0, <1>2, <3>1, RebindStays
  <2>3. NoReturn
    BY <1>1, <2>2, SameCallsReturn DEF Stays
  <2>4. call' = [d \in KeyCallers |-> call'[d]]
    BY <1>2 DEF Rebind, Binds
  <2> QED BY <1>1, <2>1, <2>2, <2>3, <2>4, StepKeeps
<1>3. ASSUME Exists(id), repository' = [repository EXCEPT ![id] = "deleted"],
             End(Gone(id)), UNCHANGED <<call, settled, raced>>
      PROVE  KeysInv'
  <2>1. FactStep /\ FactsOK'
    BY <1>0, <1>3, DeleteFacts
  <2>2. \A d \in KeyCallers :
           Stays(d) /\ (call[d].at \notin {"idle", "done"} => keyTime' <= call[d].began + 1)
    BY <1>0, <1>3, OthersStay
  <2>3. NoReturn
    BY <1>1, <1>3, SameCallsReturn
  <2>4. call' = [d \in KeyCallers |-> call'[d]]
    BY <1>0, <1>3 DEF CallsOK
  <2> QED BY <1>1, <2>1, <2>2, <2>3, <2>4, StepKeeps
<1> QED BY <1>2, <1>3 DEF ChangedElsewhere

\* Time passes, but not past a call that has taken its time.
LEMMA TimeStep ==
  ASSUME KeysInv, TimePasses
  PROVE  KeysInv'
<1>0. FactsOK /\ CallsOK /\ keyTime \in Nat
  BY DEF KeysInv, FactsOK
<1>1. UNCHANGED <<repository, aliasIndex, keyCache, call, ended, settled, raced>> /\ keyTime' = keyTime + 1
  BY DEF TimePasses
<1>2. KeysOld /\ KeysKept /\ AliasesKept
  BY <1>1, CachesUntouched
<1>3. FactsOK'
  <2>1. \A f \in Facts : ended'[f] # NotEnded => ended'[f] \in 0 .. keyTime'
    <3>1. \A f \in Facts : ended[f] \in Int /\ (ended[f] # NotEnded => ended[f] \in 0 .. keyTime)
      BY <1>0 DEF FactsOK
    <3> QED BY <1>0, <1>1, <3>1
  <2>2. keyTime' \in Nat
    BY <1>0, <1>1
  <2> QED BY <1>0, <1>1, <2>1, <2>2 DEF FactsOK
<1>4. FactStep
  <2>1. \A f \in Facts : Flag(f) => Flag(f)'
    BY <1>1 DEF Flag
  <2>2. keyTime' \in Nat /\ keyTime <= keyTime'
    BY <1>0, <1>1
  <2> QED BY <1>1, <2>1, <2>2 DEF FactStep
<1>5. ASSUME NEW d \in KeyCallers
      PROVE  Stays(d) /\ (call[d].at \notin {"idle", "done"} => keyTime' <= call[d].began + 1)
  <2>1. CallTypes(call[d])
    BY <1>0 DEF CallsOK, CallOK
  <2>2. call[d].at \notin {"idle", "done"} => call[d].began = keyTime
    BY DEF TimePasses
  <2>3. Stays(d)
    BY <1>1, <2>1 DEF Stays, CallTypes
  <2> QED BY <1>0, <1>1, <2>2, <2>3
<1>6. NoReturn
  BY <1>1, <1>2, SameCallsReturn
<1>7. call' = [d \in KeyCallers |-> call'[d]]
  BY <1>0, <1>1 DEF CallsOK
<1> QED BY <1>2, <1>3, <1>4, <1>5, <1>6, <1>7, StepKeeps

-----------------------------------------------------------------------------
(* The theorem.                                                            *)

\* At the start nothing is cached and nothing has ended.
LEMMA KeysInitially == ASSUME KeysInit PROVE KeysInv
<1>1. PICK stored \in StoredKeys : KeysStart(stored)
  BY DEF KeysInit
<1>2. FactsOK
  <2>1. repository \in [KeyIds -> KeyAliases \cup {NoAlias, "unused", "deleted"}]
    BY <1>1, KeyConstants DEF KeysStart, KeyConstants
  <2>2. keyTime \in Nat /\ settled = {} /\ ended \in [Facts -> Int] /\ \A f \in Facts : ended[f] = NotEnded
    BY <1>1 DEF KeysStart, NotEnded
  <2> QED BY <2>1, <2>2, FactPairs DEF FactsOK
<1>3. CallsOK
  <2>1. CallOK(IdleCall)
    BY <1>2, IdleIsRight DEF CallOK
  <2> QED BY <1>1, <2>1 DEF KeysStart, CallsOK
<1>4. CachesOK
  BY <1>1 DEF KeysStart, CachesOK
<1> QED BY <1>2, <1>3, <1>4 DEF KeysInv

\* Whatever a call used, it knew early enough.
LEMMA KnownIsNoticed == ASSUME KeysInv PROVE ChangedKeysNoticed
<1> SUFFICES ASSUME NEW c \in KeyCallers, call[c].at = "done", NEW f \in ReliesOn(c)
             PROVE  /\ f \in call[c].after => f \in raced
                    /\ ended[f] # NotEnded => call[c].done <= ended[f] + LivesFor(f) + 1
  BY DEF ChangedKeysNoticed
<1>0. FactsOK /\ KeyCacheTTL \in Nat /\ KeyAliasIndexTTL \in Nat /\ Stored \notin KeyAliases
  BY KeyConstants DEF KeysInv, KeyConstants
<1>1. CallTypes(call[c]) /\ LookupOK(call[c])
  BY DEF KeysInv, CallsOK, CallOK
<1>2. PICK r : r = call[c]
  OBVIOUS
<1>3. PICK ttl \in Nat : ttl = LivesFor(f)
  BY <1>0 DEF LivesFor
<1>4. Knows(r, f, r.done - ttl - 1)
  <2>1. CASE f = OfKey(r)
    BY <1>1, <1>2, <1>3, <2>1 DEF LookupOK, LivesFor, OfKey
  <2>2. CASE f = OfAlias(r) /\ r.by = "alias"
    BY <1>0, <1>1, <1>2, <1>3, <2>2 DEF LookupOK, LivesFor, OfAlias
  <2> QED BY <1>2, <2>1, <2>2 DEF ReliesOn, OfKey, OfAlias
<1>5. f \in Facts /\ (f \in r.after => f \in raced) /\ (ended[f] # NotEnded => r.done - ttl - 1 <= ended[f])
  BY <1>4 DEF Knows, Early
<1>6. r.done \in Nat /\ ended[f] \in Int
  BY <1>0, <1>1, <1>2, <1>5 DEF CallTypes, FactsOK
<1>7. ended[f] # NotEnded => r.done <= ended[f] + ttl + 1
  BY <1>5, <1>6
<1> QED BY <1>2, <1>3, <1>5, <1>7

(* However the lookups, the changes made here and elsewhere and the passing of time
   interleave, a key that was deleted or an alias that left its key is not used by a call
   that starts after the change, unless a lookup overlapped it, and never for longer
   than a cache entry lives. *)
THEOREM ChangesAreNoticed == KeysSpec => []ChangedKeysNoticed
<1>1. KeysInit => KeysInv
  BY KeysInitially
<1>2. KeysInv /\ [KeysNext]_keyVars => KeysInv'
  <2> SUFFICES ASSUME KeysInv, [KeysNext]_keyVars PROVE KeysInv'
    OBVIOUS
  <2>1. ASSUME NEW c \in KeyCallers,
               \/ KeyOfAlias(c) \/ ForgetAlias(c) \/ Find(c) \/ PutAlias(c) \/ PutKey(c)
               \/ CallFails(c) \/ RemoveKey(c) \/ ClearAliases(c)
        PROVE  KeysInv'
    BY <2>1, KeyOfAliasStep, ForgetAliasStep, FindStep, PutAliasStep, PutKeyStep, CallFailsStep,
       RemoveKeyStep, ClearStep
  <2>2. ASSUME NEW c \in KeyCallers, NEW id \in KeyIds, resolveByID(c, id) \/ DeleteByID(c, id)
        PROVE  KeysInv'
    BY <2>2, ByIDStep, DeleteStep
  <2>3. ASSUME NEW c \in KeyCallers, NEW alias \in KeyAliases, resolveByAlias(c, alias)
        PROVE  KeysInv'
    BY <2>3, ByAliasStep
  <2>4. ASSUME NEW c \in KeyCallers, NEW alias \in KeyAliases \cup {NoAlias},
               Create(c, alias) \/ \E id \in KeyIds : SetAlias(c, id, alias)
        PROVE  KeysInv'
    BY <2>4, CreateStep, SetAliasStep
  <2>5. ASSUME NEW id \in KeyIds, ChangedElsewhere(id)
        PROVE  KeysInv'
    BY <2>5, ElsewhereStep
  <2>6. CASE TimePasses
    BY <2>6, TimeStep
  <2>7. CASE UNCHANGED keyVars
    <3>1. FactsOK' /\ CallsOK' /\ CachesOK'
      BY <2>7 DEF keyVars, KeysInv, FactsOK, CallsOK, CachesOK, CallOK, CallTypes, LookupOK, ChangeOK,
                  Knows, Brings, Early, Flag, OfKey, OfAlias, Returns, EntryOK
    <3> QED BY <3>1 DEF KeysInv
  <2> QED BY <2>1, <2>2, <2>3, <2>4, <2>5, <2>6, <2>7 DEF KeysNext
<1>3. KeysInv => ChangedKeysNoticed
  BY KnownIsNoticed
<1> QED BY <1>1, <1>2, <1>3, PTL DEF KeysSpec
=============================================================================
