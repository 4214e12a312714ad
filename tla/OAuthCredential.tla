--------------------------- MODULE OAuthCredential --------------------------
(***************************************************************************)
(* One stored OAuth credential and the oauthRuntimes that share it         *)
(* (src/internal/cli/oauth.go over src/internal/oauthstore/store.go): the  *)
(* retained sessions of the daemon and the one-shot `--direct' processes   *)
(* load it, refresh its token, authorize anew and save, while `auth        *)
(* logout' deletes it.                                                     *)
(*                                                                         *)
(* Load, Save and Delete run under the store's flock and are one step      *)
(* each (CredentialStore has their steps); a Save or a Load may also fail  *)
(* (the keyring is locked, a sync fails).  A token is known by the authorization it descends from and   *)
(* by how many refreshes lie between.                                      *)
(***************************************************************************)
EXTENDS Naturals

CONSTANTS
    Runtimes,            \* oauthRuntime values, over all processes
    InDaemon,            \* those of the daemon, which register in d.authFlows
    Interactive,         \* those that may open a browser
    Forced,              \* `auth login': they ignore the stored token
    None,                \* null value: no runtime, no token
    MaxAuthorizations,   \* bound: completed token exchanges considered
    MaxRefreshes,        \* bound: refreshes of one token considered
    MaxGenerations       \* bound: credential generations considered

Tokens == [from : 1..MaxAuthorizations, nth : 0..MaxRefreshes]

ASSUME RuntimesAssumption ==
    InDaemon \subseteq Runtimes /\ Interactive \subseteq Runtimes /\ Forced \subseteq Interactive
ASSUME NoneAssumption == None \notin Runtimes \cup Tokens
ASSUME BoundsAssumption ==
    MaxAuthorizations \in Nat /\ MaxRefreshes \in Nat /\ MaxGenerations \in Nat

VARIABLES
    generation,      \* generation of the stored record, 0 = no record
    stored,          \* its token
    generations,     \* generations issued so far
    authorizations,  \* token exchanges completed so far
    authLock,        \* holder of the flock LockAuthorization takes
    authFlows,       \* the daemon's d.authFlows has this identity
    (* per runtime *)
    stage,           \* newOAuthRuntime and Close
    record,          \* r.record.Generation, 0 = ""
    found,           \* r.found
    held,            \* r.payload.Token
    source,          \* the token its current TokenSource caches
    pending,         \* tokens that source.Token returned, not yet seen by Token
    flow,            \* progress of fetchAuthorizationCode; not "none" = r.flowActive
    code             \* the browser flow returned a code

storeVars   == <<generation, stored, generations>>
flowVars    == <<authLock, authFlows, flow, code>>
tokenVars   == <<held, source, pending>>
vars == <<storeVars, authorizations, flowVars, stage, record, found, tokenVars>>

Init ==
    /\ generation = 0 /\ stored = None /\ generations = 0
    /\ authorizations = 0
    /\ authLock = None /\ authFlows = FALSE
    /\ stage = [r \in Runtimes |-> "absent"]
    /\ record = [r \in Runtimes |-> 0]
    /\ found = [r \in Runtimes |-> FALSE]
    /\ held = [r \in Runtimes |-> None]
    /\ source = [r \in Runtimes |-> None]
    /\ pending = [r \in Runtimes |-> {}]
    /\ flow = [r \in Runtimes |-> "none"]
    /\ code = [r \in Runtimes |-> FALSE]

-----------------------------------------------------------------------------
(* The store.  Save with no generation replaces whatever is stored and     *)
(* issues a new generation; Save with one requires that it is still the    *)
(* stored one.                                                             *)

(* Mutant: a Save that does not compare the stored generation.             *)
SaveUnchecked(g, t) ==
    IF g = 0
    THEN /\ generations < MaxGenerations
         /\ generations' = generations + 1
         /\ generation' = generations + 1
         /\ stored' = t
    ELSE /\ generation' = g
         /\ stored' = t
         /\ UNCHANGED generations

Save(g, t) ==
    \/ /\ g = 0 /\ generations < MaxGenerations
       /\ generations' = generations + 1
       /\ generation' = generations + 1
       /\ stored' = t
    \/ /\ g # 0 /\ g = generation
       /\ stored' = t
       /\ UNCHANGED <<generation, generations>>

(* ErrStale, or any other error.  Usually the store is unchanged; but when *)
(* only the final sync of the directory fails the record is stored (see    *)
(* CredentialStore), and the caller is given an empty one all the same.    *)
SaveFails(g, t) == UNCHANGED storeVars \/ Save(g, t)

(* Mutant: a logout that empties the record instead of removing it.        *)
DeletePayload ==
    /\ generation # 0
    /\ stored' = None
    /\ UNCHANGED <<generation, generations, authorizations, flowVars, stage, record, found,
                   tokenVars>>

(* store.Delete: auth logout, through the daemon or direct.                *)
Delete ==
    /\ generation # 0
    /\ generation' = 0 /\ stored' = None
    /\ UNCHANGED <<generations, authorizations, flowVars, stage, record, found, tokenVars>>

-----------------------------------------------------------------------------
(* newOAuthRuntime and Handler: load the record; a forced login starts     *)
(* without a token source.                                                 *)
Load(r) ==
    /\ stage[r] = "absent"
    /\ stage' = [stage EXCEPT ![r] = "open"]
    /\ record' = [record EXCEPT ![r] = generation]
    /\ found' = [found EXCEPT ![r] = generation # 0]
    /\ held' = [held EXCEPT ![r] = stored]
    /\ source' = [source EXCEPT ![r] = IF r \in Forced THEN None ELSE stored]
    /\ UNCHANGED <<storeVars, authorizations, flowVars, pending>>

(* ErrUnavailable: the session is used without OAuth.                      *)
LoadUnavailable(r) ==
    /\ stage[r] = "absent"
    /\ stage' = [stage EXCEPT ![r] = "unavailable"]
    /\ UNCHANGED <<storeVars, authorizations, flowVars, record, found, tokenVars>>

(* The session closes: no operation runs, but the transport's own requests *)
(* may still be asking for a token.                                        *)
Close(r) ==
    /\ stage[r] \in {"open", "unavailable"}
    /\ flow[r] = "none"
    /\ stage' = [stage EXCEPT ![r] = "closed"]
    /\ UNCHANGED <<storeVars, authorizations, flowVars, record, found, tokenVars>>

(* A one-shot process ends at any point (a signal, a crash): its flock on  *)
(* the authorization lock ends with it.                                    *)
Crash(r) ==
    /\ r \notin InDaemon /\ stage[r] # "absent"
    /\ stage' = [stage EXCEPT ![r] = "closed"]
    /\ flow' = [flow EXCEPT ![r] = "none"]
    /\ code' = [code EXCEPT ![r] = FALSE]
    /\ record' = [record EXCEPT ![r] = 0] /\ found' = [found EXCEPT ![r] = FALSE]
    /\ held' = [held EXCEPT ![r] = None] /\ source' = [source EXCEPT ![r] = None]
    /\ pending' = [pending EXCEPT ![r] = {}]
    /\ authLock' = IF authLock = r THEN None ELSE authLock
    /\ UNCHANGED <<storeVars, authorizations, authFlows>>

(* CredentialsCurrent, for a runtime that could read the store.            *)
Current(r) == found[r] = (generation # 0) /\ (found[r] => record[r] = generation)

-----------------------------------------------------------------------------
(* savingTokenSource.Token.  The SDK's transport calls it for every HTTP   *)
(* request of the session.  First the oauth2 source answers: its cached    *)
(* token, or a refreshed one.  A source answers one caller at a time, but  *)
(* an answer of the previous source may still be under way.                *)
Obtain(r) ==
    /\ stage[r] = "open" /\ source[r] # None
    /\ \A t \in pending[r] : t.from # source[r].from
    /\ \E n \in {source[r].nth, source[r].nth + 1} :
         LET t == [source[r] EXCEPT !.nth = n]
         IN  /\ n <= MaxRefreshes
             /\ source' = [source EXCEPT ![r] = t]
             /\ pending' = [pending EXCEPT ![r] = @ \cup {t}]
    /\ UNCHANGED <<storeVars, authorizations, flowVars, stage, record, found, held>>

(* Then, under the runtime's mutex: a token it does not hold yet is saved. *)
Token(r, t) ==
    /\ t \in pending[r]
    /\ pending' = [pending EXCEPT ![r] = @ \ {t}]
    /\ UNCHANGED <<authorizations, flowVars, stage, found, source>>

TokenUnchanged(r, t) ==
    /\ Token(r, t)
    /\ t = held[r]
    /\ UNCHANGED <<storeVars, record, held>>

TokenSaved(r, t) ==
    /\ Token(r, t)
    /\ t # held[r]
    /\ held' = [held EXCEPT ![r] = t]
    /\ Save(record[r], t)
    /\ record' = [record EXCEPT ![r] = generation']

(* The record the failed Save returns, an empty one, is kept.              *)
TokenNotSaved(r, t) ==
    /\ Token(r, t)
    /\ t # held[r]
    /\ held' = [held EXCEPT ![r] = t]
    /\ SaveFails(record[r], t)
    /\ record' = [record EXCEPT ![r] = 0]

-----------------------------------------------------------------------------
(* fetchAuthorizationCode, called by the SDK when the server challenges a  *)
(* request of an interactive session.                                      *)

FlowStep(r, from, to) == flow[r] = from /\ flow' = [flow EXCEPT ![r] = to]

BeginFlow(r) ==
    /\ stage[r] = "open" /\ r \in Interactive
    /\ FlowStep(r, "none", "locking")
    /\ code' = [code EXCEPT ![r] = FALSE]
    /\ UNCHANGED <<storeVars, authorizations, authLock, authFlows, stage, record, found, tokenVars>>

(* Mutant: the authorization lock waits for nobody.                        *)
LockAuthorizationShared(r) ==
    /\ FlowStep(r, "locking", "registering")
    /\ authLock' = r
    /\ UNCHANGED <<storeVars, authorizations, authFlows, code, stage, record, found, tokenVars>>

LockAuthorization(r) ==
    /\ authLock = None
    /\ FlowStep(r, "locking", "registering")
    /\ authLock' = r
    /\ UNCHANGED <<storeVars, authorizations, authFlows, code, stage, record, found, tokenVars>>

(* ErrAuthorizationLocked, or a store that fails.                          *)
LockRefused(r) ==
    /\ FlowStep(r, "locking", "none")
    /\ UNCHANGED <<storeVars, authorizations, authLock, authFlows, code, stage, record, found,
                   tokenVars>>

(* onFlowStart: beginOAuthFlow, for the daemon's runtimes.                 *)
RegisterFlow(r) ==
    /\ FlowStep(r, "registering", IF r \in InDaemon /\ authFlows THEN "unlocking" ELSE "browser")
    /\ authFlows' = (authFlows \/ r \in InDaemon)
    /\ UNCHANGED <<storeVars, authorizations, authLock, code, stage, record, found, tokenVars>>

(* The callback, a provider error, a canceled context, or no listener.     *)
BrowserDone(r) ==
    /\ FlowStep(r, "browser", "leaving")
    /\ \E got \in BOOLEAN : code' = [code EXCEPT ![r] = got]
    /\ UNCHANGED <<storeVars, authorizations, authLock, authFlows, stage, record, found, tokenVars>>

(* Mutant: the flow is unregistered only when it succeeded.                *)
LeaveFlowOnSuccess(r) ==
    /\ FlowStep(r, "leaving", "unlocking")
    /\ authFlows' = (authFlows /\ ~(r \in InDaemon /\ code[r]))
    /\ UNCHANGED <<storeVars, authorizations, authLock, code, stage, record, found, tokenVars>>

(* The deferred cleanup: endOAuthFlow, then the lock.                      *)
LeaveFlow(r) ==
    /\ FlowStep(r, "leaving", "unlocking")
    /\ authFlows' = (authFlows /\ r \notin InDaemon)
    /\ UNCHANGED <<storeVars, authorizations, authLock, code, stage, record, found, tokenVars>>

Unlock(r) ==
    /\ FlowStep(r, "unlocking", IF code[r] THEN "exchanging" ELSE "none")
    /\ authLock' = None
    /\ UNCHANGED <<storeVars, authorizations, authFlows, code, stage, record, found, tokenVars>>

(* The SDK exchanges the code, or fails to.                                *)
ExchangeFails(r) ==
    /\ FlowStep(r, "exchanging", "none")
    /\ UNCHANGED <<storeVars, authorizations, authLock, authFlows, code, stage, record, found,
                   tokenVars>>

(* NewTokenSource: the payload is replaced, then saved as a new record.    *)
Exchange(r, t) ==
    /\ FlowStep(r, "exchanging", "none")
    /\ authorizations < MaxAuthorizations
    /\ authorizations' = authorizations + 1
    /\ t = [from |-> authorizations + 1, nth |-> 0]
    /\ held' = [held EXCEPT ![r] = t]
    /\ UNCHANGED <<authLock, authFlows, code, stage, pending>>

(* Mutant: r.found keeps what newOAuthRuntime read.                        *)
AuthorizedUnnoticed(r) ==
    \E t \in Tokens :
        /\ Exchange(r, t)
        /\ Save(0, t)
        /\ record' = [record EXCEPT ![r] = generation']
        /\ source' = [source EXCEPT ![r] = t]
        /\ UNCHANGED found

Authorized(r) ==
    \E t \in Tokens :
        /\ Exchange(r, t)
        /\ Save(0, t)
        /\ record' = [record EXCEPT ![r] = generation']
        /\ found' = [found EXCEPT ![r] = TRUE]
        /\ source' = [source EXCEPT ![r] = t]

AuthorizedNotSaved(r) ==
    \E t \in Tokens :
        /\ Exchange(r, t)
        /\ SaveFails(0, t)
        /\ record' = [record EXCEPT ![r] = 0]
        /\ UNCHANGED <<found, source>>

-----------------------------------------------------------------------------
Flow(r) ==
    \/ BeginFlow(r) \/ LockAuthorization(r) \/ LockRefused(r) \/ RegisterFlow(r)
    \/ BrowserDone(r) \/ LeaveFlow(r) \/ Unlock(r)
    \/ ExchangeFails(r) \/ Authorized(r) \/ AuthorizedNotSaved(r)

Use(r) ==
    \/ Obtain(r)
    \/ \E t \in pending[r] : TokenUnchanged(r, t) \/ TokenSaved(r, t) \/ TokenNotSaved(r, t)

Next ==
    \/ Delete
    \/ \E r \in Runtimes : Load(r) \/ LoadUnavailable(r) \/ Close(r) \/ Crash(r)
    \/ \E r \in Runtimes : Use(r) \/ Flow(r)

Spec == Init /\ [][Next]_vars

-----------------------------------------------------------------------------
(* Properties.                                                             *)

(* Every variable keeps its type.                                          *)
TypeOK ==
    /\ generation \in 0..generations
    /\ stored \in IF generation = 0 THEN {None} ELSE Tokens
    /\ generations \in 0..MaxGenerations
    /\ authorizations \in 0..MaxAuthorizations
    /\ authLock \in Runtimes \cup {None}
    /\ authFlows \in BOOLEAN
    /\ stage \in [Runtimes -> {"absent", "open", "unavailable", "closed"}]
    /\ record \in [Runtimes -> 0..MaxGenerations]
    /\ found \in [Runtimes -> BOOLEAN]
    /\ held \in [Runtimes -> Tokens \cup {None}]
    /\ source \in [Runtimes -> Tokens \cup {None}]
    /\ pending \in [Runtimes -> SUBSET Tokens]
    /\ flow \in [Runtimes -> {"none", "locking", "registering", "browser", "leaving",
                              "unlocking", "exchanging"}]
    /\ code \in [Runtimes -> BOOLEAN]

(* A session that still sends tokens is not taken for current once its     *)
(* credential was deleted, whoever deleted it, and whether the session     *)
(* loaded the credential or authorized it itself.                          *)
LogoutNoticed ==
    \A r \in Runtimes :
        generation = 0 /\ (source[r] # None \/ pending[r] # {}) => ~Current(r)

(* A generation that was replaced or deleted never comes back: a stored    *)
(* record changes its generation only to one never seen before.            *)
GenerationNeverReturns ==
    [][generation' # generation => generation' = 0 \/ generation' = generations + 1]_vars

(* At most one browser flow is open for the credential, over all           *)
(* processes; it holds the authorization lock until it is over.            *)
InFlow(r) == flow[r] \in {"registering", "browser", "leaving", "unlocking"}

OneBrowserFlow == \A r \in Runtimes : InFlow(r) => authLock = r

(* The daemon's table of flows is exact: every way out of a flow removes   *)
(* it, so that a failed authorization never blocks the next one.           *)
FlowsRegistered ==
    authFlows = (\E r \in InDaemon : flow[r] \in {"browser", "leaving"})

(* A credential that was deleted, by a logout in any process, is stored    *)
(* again only by an authorization: no refresh resurrects it.               *)
LogoutStands ==
    [][generation = 0 /\ generation' # 0 => authorizations' = authorizations + 1]_vars
=============================================================================
