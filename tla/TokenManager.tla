---------------------------- MODULE TokenManager ----------------------------
(***************************************************************************)
(* neo4jAuthTokenManager: one token behind a lock, asked of a provider     *)
(* when there is none or it has expired, dropped when a server rejects it. *)
(* A token is a number, 0 is none; the provider gives out new ones.        *)
(***************************************************************************)
EXTENDS Integers

CONSTANTS
    TokenUsers,      \* sessions and pools that ask
    MaxTokens        \* bound: what the provider gives out

(* Unauthorized is handled by both managers, TokenExpired by BearerTokenManager *)
CONSTANTS HandledSecurityCodes, SecurityCodes

VARIABLES
    manager,     \* token, expired; provided: how many the provider gave
    tokenLock,   \* the user that has the lock, or none
    users,       \* at; token that it was given
    dropped      \* tokens whose rejection was handled

tokenVars == <<manager, tokenLock, users, dropped>>

Nobody == "nobody"
ASSUME NobodyIsNoUser == Nobody \notin TokenUsers

TokenStart ==
    /\ manager = [token |-> 0, expired |-> FALSE, provided |-> 0]
    /\ tokenLock = Nobody
    /\ users = [u \in TokenUsers |-> [at |-> "idle", token |-> 0]]
    /\ dropped = {}

(* GetAuthToken: the lock, or a timeout *)
AskToken(u) ==
    /\ users[u].at = "idle"
    /\ users' = [users EXCEPT ![u].at = "lock"]
    /\ UNCHANGED <<manager, tokenLock, dropped>>

TokenTryLock(u) ==
    /\ users[u].at = "lock" /\ tokenLock = Nobody
    /\ tokenLock' = u
    /\ users' = [users EXCEPT ![u].at = "check"]
    /\ UNCHANGED <<manager, dropped>>

TokenLockTimesOut(u) ==
    /\ users[u].at \in {"lock", "reject"} /\ tokenLock # Nobody
    /\ users' = [users EXCEPT ![u].at = "idle"]
    /\ UNCHANGED <<manager, tokenLock, dropped>>

(* A good token is handed out, else the provider is called, under the lock *)
CheckToken(u) ==
    /\ users[u].at = "check"
    /\ IF manager.token = 0 \/ manager.expired
       THEN users' = [users EXCEPT ![u].at = "provider"] /\ UNCHANGED tokenLock
       ELSE /\ users' = [users EXCEPT ![u] = [@ EXCEPT !.at = "idle", !.token = manager.token]]
            /\ tokenLock' = Nobody
    /\ UNCHANGED <<manager, dropped>>

ProviderReturns(u) ==
    /\ users[u].at = "provider" /\ manager.provided < MaxTokens
    /\ LET t == manager.provided + 1
       IN  /\ manager' = [token |-> t, expired |-> FALSE, provided |-> t]
           /\ users' = [users EXCEPT ![u] = [@ EXCEPT !.at = "idle", !.token = t]]
    /\ tokenLock' = Nobody
    /\ UNCHANGED dropped

ProviderFails(u) ==
    /\ users[u].at = "provider"
    /\ users' = [users EXCEPT ![u].at = "idle"]
    /\ tokenLock' = Nobody
    /\ UNCHANGED <<manager, dropped>>

TokenExpires ==
    /\ manager.token # 0 /\ ~manager.expired
    /\ manager' = [manager EXCEPT !.expired = TRUE]
    /\ UNCHANGED <<tokenLock, users, dropped>>

(* A server rejects the token that a connection was made with *)
ServerRejects(u, code) ==
    /\ users[u].at = "idle" /\ users[u].token # 0
    /\ code \in HandledSecurityCodes     \* else the manager leaves it at that
    /\ users' = [users EXCEPT ![u].at = "reject"]
    /\ UNCHANGED <<manager, tokenLock, dropped>>

(* Mutant: whatever token there is is dropped *)
DropAnyToken(u) ==
    /\ users[u].at = "reject" /\ tokenLock = Nobody
    /\ manager' = [manager EXCEPT !.token = 0]
    /\ users' = [users EXCEPT ![u].at = "idle"]
    /\ dropped' = dropped \cup {users[u].token}
    /\ UNCHANGED tokenLock

(* HandleSecurityException under the lock: only the rejected token is dropped *)
HandleSecurityException(u) ==
    /\ users[u].at = "reject" /\ tokenLock = Nobody
    /\ manager' = IF manager.token = users[u].token THEN [manager EXCEPT !.token = 0] ELSE manager
    /\ users' = [users EXCEPT ![u].at = "idle"]
    /\ dropped' = dropped \cup {users[u].token}
    /\ UNCHANGED tokenLock

TokenNext ==
    \/ TokenExpires
    \/ \E u \in TokenUsers :
          \/ AskToken(u) \/ TokenTryLock(u) \/ TokenLockTimesOut(u) \/ CheckToken(u)
          \/ ProviderReturns(u) \/ ProviderFails(u) \/ HandleSecurityException(u)
          \/ \E code \in SecurityCodes : ServerRejects(u, code)

TokenSpec == TokenStart /\ [][TokenNext]_tokenVars

(* A token whose rejection was handled is not given to anyone again, and a token is
   given up only if it expired or was itself rejected: the rejection of an older one,
   which may come late and from many connections, costs no call of the provider. *)
RejectedTokenReplaced ==
    [][/\ \A u \in TokenUsers : users'[u].token # users[u].token => users'[u].token \notin dropped
       /\ (manager.token # 0 /\ manager'.token # manager.token) =>
              (manager.expired \/ manager.token \in dropped')]_tokenVars
=============================================================================
