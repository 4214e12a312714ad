----------------------------- MODULE DaemonPool -----------------------------
(***************************************************************************)
(* The retained-instance pool of the wirecmd daemon                        *)
(* (src/internal/cli/daemon.go): client connections are handled one        *)
(* goroutine each, coalesce on a pooled upstream session, lease it, run    *)
(* one operation under the session's mutex and give it back, while         *)
(* `daemon reload', OAuth logins and logouts, and shutdown retire and      *)
(* close sessions under them.                                              *)
(*                                                                         *)
(* One action is one critical section of d.mu or instance.mu, or one wait  *)
(* on a channel; everything a goroutine does in between is local to it.    *)
(*                                                                         *)
(* A request creates at most one pool entry, and an entry holds at most    *)
(* one retainedInstance, so an entry and its instance carry the name of    *)
(* the request that created them: pools maps a key to a request.  The      *)
(* entry's key and generation are the ones that request captured.          *)
(***************************************************************************)
EXTENDS Naturals, FiniteSets

CONSTANTS
    Requests,        \* client connections; each carries one request
    Keys,            \* pool identities: provider, owner, workspace, execution, auth
    HTTPKeys,        \* keys of HTTP targets: a canceled operation breaks the session
    OAuthKeys,       \* HTTP keys that use the stored OAuth credential
    None,            \* null value: no request, no key, no credential
    MaxGeneration,   \* bound: reloads considered
    MaxLogins        \* bound: OAuth credential generations considered

ASSUME KeysAssumption == OAuthKeys \subseteq HTTPKeys /\ HTTPKeys \subseteq Keys
ASSUME NoneAssumption == None \notin Requests \cup Keys \cup 0..MaxLogins
ASSUME BoundsAssumption == MaxGeneration \in Nat /\ MaxLogins \in Nat
ASSUME RequestsAssumption == IsFiniteSet(Requests)

VARIABLES
    (* the daemon value, guarded by d.mu *)
    generation,      \* d.generation
    pools,           \* d.pools: the entry (named by its creator) of each key
    retiring,        \* d.retiring: instances withdrawn from d.pools, not yet closed
    shutdown,        \* progress of daemon.close
    shutdownTodo,    \* the instances daemon.close still has to close
    (* pool entries and their instances *)
    phase,           \* progress of startInstance; "live" and "failed" are ready
    auth,            \* OAuth flow during startup; not "none" = authStarted closed
    retired,         \* entry.retiring, and instance.retiring once published
    broken,          \* instance.broken and entry.broken
    closed,          \* instance.closed
    active,          \* instance.active
    loaded,          \* the credential its oauthRuntime holds; None if the store could
                     \* not be read at startup, or without an oauthRuntime
    (* request goroutines *)
    pc, gen, key,
    at,              \* the entry the request waits on or leases
    todo,            \* the toClose slice of the handler
    current,         \* the element of toClose it is closing
    gone,            \* the client has disconnected
    (* the OAuth credential store, shared with other processes *)
    credential,      \* stored credential generation, 0 = no record
    logins,          \* credential generations issued so far
    stored           \* history: credentials stored since the request was made

daemonVars  == <<generation, pools, retiring, shutdown, shutdownTodo>>
entryVars   == <<phase, auth, retired, broken, closed, active, loaded>>
requestVars == <<pc, gen, key, at, todo, current, gone>>
storeVars   == <<credential, logins, stored>>
vars == <<daemonVars, entryVars, requestVars, storeVars>>

Init ==
    /\ generation = 0
    /\ pools = [k \in Keys |-> None]
    /\ retiring = {}
    /\ shutdown = "up"
    /\ shutdownTodo = {}
    /\ phase = [e \in Requests |-> "none"]
    /\ auth = [e \in Requests |-> "none"]
    /\ retired = [e \in Requests |-> FALSE]
    /\ broken = [e \in Requests |-> FALSE]
    /\ closed = [e \in Requests |-> FALSE]
    /\ active = [e \in Requests |-> 0]
    /\ loaded = [e \in Requests |-> None]
    /\ pc = [r \in Requests |-> "new"]
    /\ gen = [r \in Requests |-> 0]
    /\ key = [r \in Requests |-> None]
    /\ at = [r \in Requests |-> None]
    /\ todo = [r \in Requests |-> {}]
    /\ current = [r \in Requests |-> None]
    /\ gone = [r \in Requests |-> FALSE]
    /\ credential = 0
    /\ logins = 0
    /\ stored = [r \in Requests |-> {}]

-----------------------------------------------------------------------------
(* State predicates the handlers test.                                     *)

Closing == shutdown \in {"closing", "down"}             \* d.closing

(* Mutant: a context that is not derived from d.ctx.                       *)
CanceledByClient(r) == gone[r]

(* The request's context: canceled with d.ctx and by its client's EOF.     *)
Canceled(r) == gone[r] \/ shutdown # "up"

Ready(e) == phase[e] \in {"live", "failed"}             \* entry.ready is closed

Pooled == {pools[k] : k \in Keys} \ {None}

(* A request's operation holds the instance mutex; closing takes it too.   *)
Busy(e) == \E r \in Requests : pc[r] = "operate" /\ at[r] = e

(* Mutant: a startup that only asks whether a reload intervened.           *)
OutdatedByReload(e, g) == generation # g

(* The entry must not serve, or be published, any more.                    *)
Outdated(e, g) == retired[e] \/ Closing \/ generation # g

(* An authorization stores a fresh credential generation: oauthstore.Save  *)
(* with no generation.  Every request under way may now use it.            *)
StoreCredential(c) ==
    /\ credential' = c
    /\ stored' = [r \in Requests |->
                    IF pc[r] \in {"new", "done"} THEN stored[r] ELSE stored[r] \cup {c}]

FreshCredential ==
    /\ logins < MaxLogins
    /\ logins' = logins + 1
    /\ StoreCredential(logins + 1)

(* What a handler does once its toClose slice is exhausted: a request that *)
(* still has a lease releases it, any other replies.                       *)
AfterClosing(r, rest) ==
    IF rest # {} THEN "close" ELSE IF at[r] = None THEN "done" ELSE "release"

Step(r, from, to) == pc[r] = from /\ pc' = [pc EXCEPT ![r] = to]

-----------------------------------------------------------------------------
(* The credential store as other wirecmd processes change it: a --direct   *)
(* login or logout.                                                        *)

DirectAuth ==
    /\ \/ FreshCredential
       \/ credential # 0 /\ StoreCredential(0) /\ UNCHANGED logins
    /\ UNCHANGED <<daemonVars, entryVars, requestVars>>

-----------------------------------------------------------------------------
(* execute: a tool, resource or language-server request.                   *)

Accepted(r) == pc[r] = "new" /\ ~Closing

(* serve accepts the connection; execute captures the generation and       *)
(* derives the pool key from the configuration and the resolved secrets.   *)
Call(r, k) ==
    /\ Accepted(r)
    /\ Step(r, "new", "acquire")
    /\ gen' = [gen EXCEPT ![r] = generation]
    /\ key' = [key EXCEPT ![r] = k]
    /\ stored' = [stored EXCEPT ![r] = {credential}]
    /\ UNCHANGED <<daemonVars, entryVars, at, todo, current, gone, credential, logins>>

(* The client closes its connection (or is killed) before its reply.       *)
Disconnect(r) ==
    /\ pc[r] \notin {"new", "done"} /\ ~gone[r]
    /\ gone' = [gone EXCEPT ![r] = TRUE]
    /\ UNCHANGED <<daemonVars, entryVars, storeVars, pc, gen, key, at, todo, current>>

AcquireRefused(r) ==
    /\ Step(r, "acquire", "done")
    /\ Closing \/ generation # gen[r]
    /\ UNCHANGED <<daemonVars, entryVars, storeVars, gen, key, at, todo, current, gone>>

AcquireExisting(r) ==
    /\ Step(r, "acquire", "wait")
    /\ ~Closing /\ generation = gen[r]
    /\ pools[key[r]] # None
    /\ at' = [at EXCEPT ![r] = pools[key[r]]]
    /\ UNCHANGED <<daemonVars, entryVars, storeVars, gen, key, todo, current, gone>>

AcquireFresh(r) ==
    /\ Step(r, "acquire", "wait")
    /\ ~Closing /\ generation = gen[r]
    /\ pools[key[r]] = None
    /\ pools' = [pools EXCEPT ![key[r]] = r]
    /\ phase' = [phase EXCEPT ![r] = "spawned"]
    /\ at' = [at EXCEPT ![r] = r]
    /\ UNCHANGED <<generation, retiring, shutdown, shutdownTodo, auth, retired, broken,
                   closed, active, loaded, storeVars, gen, key, todo, current, gone>>

(* Mutant: waitForInstance without its checks under d.mu.                  *)
ServesWhenReady(e, g) == phase[e] = "live" /\ ~broken[e]

(* waitForInstance, ready case, then its d.mu section.                     *)
Serves(e, g) == phase[e] = "live" /\ ~broken[e] /\ ~Outdated(e, g)

(* Mutant: waitForInstance without active++.                               *)
LeaseUncounted(r) ==
    /\ Step(r, "wait", IF key[r] \in OAuthKeys THEN "check" ELSE "lock")
    /\ Serves(at[r], gen[r])
    /\ UNCHANGED <<daemonVars, entryVars, storeVars, gen, key, at, todo, current, gone>>

Lease(r) ==
    /\ Step(r, "wait", IF key[r] \in OAuthKeys THEN "check" ELSE "lock")
    /\ Serves(at[r], gen[r])
    /\ active' = [active EXCEPT ![at[r]] = @ + 1]
    /\ UNCHANGED <<daemonVars, storeVars, phase, auth, retired, broken, closed, loaded,
                   gen, key, at, todo, current, gone>>

(* Mutant: only a startup error wakes a waiter without a lease.            *)
LeaseRefusedOnError(r) ==
    /\ Step(r, "wait", "done")
    /\ phase[at[r]] = "failed"
    /\ at' = [at EXCEPT ![r] = None]
    /\ UNCHANGED <<daemonVars, entryVars, storeVars, gen, key, todo, current, gone>>

LeaseRefused(r) ==
    /\ Step(r, "wait", "done")
    /\ Ready(at[r]) /\ ~Serves(at[r], gen[r])
    /\ at' = [at EXCEPT ![r] = None]
    /\ UNCHANGED <<daemonVars, entryVars, storeVars, gen, key, todo, current, gone>>

(* waitForInstance, ctx.Done case: startup goes on without this request.   *)
WaitCanceled(r) ==
    /\ Step(r, "wait", "done")
    /\ Canceled(r)
    /\ at' = [at EXCEPT ![r] = None]
    /\ UNCHANGED <<daemonVars, entryVars, storeVars, gen, key, todo, current, gone>>

(* waitForInstance, authStarted case: authorization_in_progress, unless    *)
(* startup completed meanwhile.                                            *)
WaitAuthorizing(r) ==
    /\ Step(r, "wait", "done")
    /\ at[r] # r
    /\ auth[at[r]] # "none" /\ ~Ready(at[r])
    /\ at' = [at EXCEPT ![r] = None]
    /\ UNCHANGED <<daemonVars, entryVars, storeVars, gen, key, todo, current, gone>>

(* Mutant: the credential checked when the session started is trusted.     *)
CheckNothing(r) ==
    /\ Step(r, "check", "lock")
    /\ UNCHANGED <<daemonVars, entryVars, storeVars, gen, key, at, todo, current, gone>>

(* CredentialsCurrent compares the stored generation with the one the      *)
(* session holds, unless the session could read none when it started; a    *)
(* store that cannot be read now ends the request.                         *)
CheckCredential(r) ==
    /\ \/ Step(r, "check", IF loaded[at[r]] \in {credential, None} THEN "lock" ELSE "retire")
       \/ Step(r, "check", "release")
    /\ UNCHANGED <<daemonVars, entryVars, storeVars, gen, key, at, todo, current, gone>>

(* Mutant: broken is not read again once the mutex is held.                *)
UsableIfOpen(r) == ~Canceled(r) /\ ~closed[at[r]]

(* instance.mu.Lock, then the checks made under it.                        *)
Usable(r) == ~Canceled(r) /\ ~closed[at[r]] /\ ~broken[at[r]]

BeginOperation(r) ==
    /\ Step(r, "lock", "operate")
    /\ ~Busy(at[r]) /\ Usable(r)
    /\ UNCHANGED <<daemonVars, entryVars, storeVars, gen, key, at, todo, current, gone>>

(* Mutant: an early return that skips the deferred release.                *)
RefuseUnreleased(r) ==
    /\ Step(r, "lock", "done")
    /\ ~Busy(at[r]) /\ ~Usable(r)
    /\ at' = [at EXCEPT ![r] = None]
    /\ UNCHANGED <<daemonVars, entryVars, storeVars, gen, key, todo, current, gone>>

RefuseOperation(r) ==
    /\ Step(r, "lock", "release")
    /\ ~Busy(at[r]) /\ ~Usable(r)
    /\ UNCHANGED <<daemonVars, entryVars, storeVars, gen, key, at, todo, current, gone>>

(* The upstream session answers, with a result or an ordinary error.       *)
FinishOperation(r) ==
    /\ Step(r, "operate", "release")
    /\ UNCHANGED <<daemonVars, entryVars, storeVars, gen, key, at, todo, current, gone>>

(* noteSDKOperation: the transport closed under the operation.             *)
LoseSession(r) ==
    /\ Step(r, "operate", "release")
    /\ broken' = [broken EXCEPT ![at[r]] = TRUE]
    /\ UNCHANGED <<daemonVars, storeVars, phase, auth, retired, closed, active, loaded,
                   gen, key, at, todo, current, gone>>

(* noteSDKOperation: the operation observed its context's cancellation.    *)
AbandonOperation(r) ==
    /\ Step(r, "operate", "release")
    /\ Canceled(r)
    /\ broken' = [broken EXCEPT ![at[r]] = @ \/ key[r] \in HTTPKeys]
    /\ UNCHANGED <<daemonVars, storeVars, phase, auth, retired, closed, active, loaded,
                   gen, key, at, todo, current, gone>>

(* The server challenges an operation and an interactive session completes *)
(* a new authorization within it (NewTokenSource).                         *)
Reauthorize(r) ==
    /\ pc[r] = "operate" /\ loaded[at[r]] # None /\ ~Canceled(r)
    /\ FreshCredential
    /\ loaded' = [loaded EXCEPT ![at[r]] = logins + 1]
    /\ UNCHANGED <<daemonVars, requestVars, phase, auth, retired, broken, closed, active>>

(* Mutants: a release that leaves closing to others, and one that closes   *)
(* a retired instance other requests still lease.                          *)
ReleaseClosing(r, rest) ==
    /\ Step(r, "release", IF rest = {} THEN "done" ELSE "close")
    /\ active' = [active EXCEPT ![at[r]] = @ - 1]
    /\ todo' = [todo EXCEPT ![r] = rest]
    /\ at' = [at EXCEPT ![r] = None]
    /\ UNCHANGED <<daemonVars, storeVars, phase, auth, retired, broken, closed, loaded,
                   gen, key, current, gone>>

ReleaseOnly(r) == ReleaseClosing(r, {})

ReleaseEarly(r) == ReleaseClosing(r, IF retired[at[r]] THEN {at[r]} ELSE {})

(* release: the last lease of a retired instance closes it.                *)
Release(r) ==
    LET e == at[r]
        rest == IF retired[e] /\ active[e] = 1 THEN {e} ELSE {}
    IN  /\ Step(r, "release", IF rest = {} THEN "done" ELSE "close")
        /\ active' = [active EXCEPT ![e] = @ - 1]
        /\ todo' = [todo EXCEPT ![r] = rest]
        /\ at' = [at EXCEPT ![r] = None]
        /\ UNCHANGED <<daemonVars, storeVars, phase, auth, retired, broken, closed, loaded,
                       gen, key, current, gone>>

-----------------------------------------------------------------------------
(* Handlers that withdraw entries from d.pools, and the closing loop they  *)
(* share: instance.mu, close, then d.mu to forget the instance.            *)

(* Mutants: withdrawing closes leased instances too, tracks idle ones      *)
(* only, or marks no entry that is still starting.                         *)
WithdrawMutant(r, entries, marked, tracked, closing) ==
    /\ pools' = [k \in Keys |-> IF pools[k] \in entries THEN None ELSE pools[k]]
    /\ retired' = [e \in Requests |-> retired[e] \/ e \in marked]
    /\ retiring' = retiring \cup tracked
    /\ todo' = [todo EXCEPT ![r] = closing]
    /\ pc' = [pc EXCEPT ![r] = AfterClosing(r, closing)]

Published(entries) == {e \in entries : phase[e] = "live"}

Idle(entries) == {e \in Published(entries) : active[e] = 0}

WithdrawLeased(r, entries) ==
    WithdrawMutant(r, entries, entries, Published(entries), Published(entries))

WithdrawUntracked(r, entries) ==
    WithdrawMutant(r, entries, entries, Idle(entries), Idle(entries))

WithdrawPublished(r, entries) ==
    WithdrawMutant(r, entries, Published(entries), Published(entries), Idle(entries))

Withdraw(r, entries) ==
    LET live == {e \in entries : phase[e] = "live"}
        idle == {e \in live : active[e] = 0}
    IN  /\ pools' = [k \in Keys |-> IF pools[k] \in entries THEN None ELSE pools[k]]
        /\ retired' = [e \in Requests |-> retired[e] \/ e \in entries]
        /\ retiring' = retiring \cup live
        /\ todo' = [todo EXCEPT ![r] = idle]
        /\ pc' = [pc EXCEPT ![r] = AfterClosing(r, idle)]

(* executeAdmin "reload".                                                  *)
Reload(r) ==
    /\ Accepted(r) /\ generation < MaxGeneration
    /\ Withdraw(r, Pooled)
    /\ generation' = generation + 1
    /\ UNCHANGED <<shutdown, shutdownTodo, phase, auth, broken, closed, active, loaded,
                   storeVars, gen, key, at, current, gone>>

(* executeAuth "logout": store.Delete, then retireOAuthCredential.         *)
Logout(r) ==
    /\ Accepted(r)
    /\ Step(r, "new", "retire")
    /\ StoreCredential(0)
    /\ UNCHANGED <<daemonVars, entryVars, gen, key, at, todo, current, gone, logins>>

(* executeAuth "login": the browser flow saves a credential; the session   *)
(* used for it may still fail, and then nothing is retired.                *)
Login(r) ==
    /\ Accepted(r)
    /\ Step(r, "new", "confirm")
    /\ FreshCredential
    /\ UNCHANGED <<daemonVars, entryVars, gen, key, at, todo, current, gone>>

ConfirmLogin(r) ==
    /\ Step(r, "confirm", "retire") \/ Step(r, "confirm", "done")
    /\ UNCHANGED <<daemonVars, entryVars, storeVars, gen, key, at, todo, current, gone>>

(* retireOAuthCredential skips entries that are still starting.            *)
RetireCredential(r) ==
    /\ pc[r] = "retire"
    /\ Withdraw(r, {e \in Pooled : phase[e] = "live" /\ key[e] \in OAuthKeys})
    /\ UNCHANGED <<generation, shutdown, shutdownTodo, phase, auth, broken, closed, active,
                   loaded, storeVars, gen, key, at, current, gone>>

CloseRetired(r) ==
    /\ Step(r, "close", "forget")
    /\ \E e \in todo[r] :
         /\ ~Busy(e)
         /\ closed' = [closed EXCEPT ![e] = TRUE]
         /\ current' = [current EXCEPT ![r] = e]
    /\ UNCHANGED <<daemonVars, storeVars, phase, auth, retired, broken, active, loaded,
                   gen, key, at, todo, gone>>

Forget(r) ==
    LET rest == todo[r] \ {current[r]}
    IN  /\ Step(r, "forget", AfterClosing(r, rest))
        /\ retiring' = retiring \ {current[r]}
        /\ todo' = [todo EXCEPT ![r] = rest]
        /\ current' = [current EXCEPT ![r] = None]
        /\ UNCHANGED <<generation, pools, shutdown, shutdownTodo, entryVars, storeVars,
                       gen, key, at, gone>>

-----------------------------------------------------------------------------
(* startInstance and startLSPInstance: one goroutine per entry, running    *)
(* under d.ctx whatever becomes of the request that created the entry.     *)

EntryStep(e, from, to) == phase[e] = from /\ phase' = [phase EXCEPT ![e] = to]

(* Publishing an error drops the entry, unless a later one took its key.   *)
PublishError(e) ==
    pools' = [pools EXCEPT ![key[e]] = IF @ = e THEN None ELSE @]

(* makeTarget and attachOAuth, which loads the stored credential.          *)
LoadTarget(e) ==
    /\ EntryStep(e, "spawned", "connecting")
    /\ \E c \in IF key[e] \in OAuthKeys THEN {credential, None} ELSE {None} :
         loaded' = [loaded EXCEPT ![e] = c]
    /\ UNCHANGED <<daemonVars, requestVars, storeVars, auth, retired, broken, closed, active>>

(* onFlowStart closes authStarted.                                         *)
BeginAuthorization(e) ==
    /\ phase[e] = "connecting" /\ loaded[e] # None /\ auth[e] = "none"
    /\ auth' = [auth EXCEPT ![e] = "started"]
    /\ UNCHANGED <<daemonVars, requestVars, storeVars, phase, retired, broken, closed,
                   active, loaded>>

(* The callback arrived; NewTokenSource saves the new credential.          *)
SaveAuthorization(e) ==
    /\ phase[e] = "connecting" /\ auth[e] = "started"
    /\ FreshCredential
    /\ auth' = [auth EXCEPT ![e] = "saved"]
    /\ loaded' = [loaded EXCEPT ![e] = logins + 1]
    /\ UNCHANGED <<daemonVars, requestVars, phase, retired, broken, closed, active>>

(* connectTarget returned a session: a child process or an open transport. *)
Connect(e) ==
    /\ EntryStep(e, "connecting", "connected")
    /\ auth[e] # "started" /\ shutdown = "up"
    /\ UNCHANGED <<daemonVars, requestVars, storeVars, auth, retired, broken, closed,
                   active, loaded>>

StartFailed(e) ==
    /\ EntryStep(e, "spawned", "failed") \/ EntryStep(e, "connecting", "failed")
    /\ PublishError(e)
    /\ UNCHANGED <<generation, retiring, shutdown, shutdownTodo, requestVars, storeVars,
                   auth, retired, broken, closed, active, loaded>>

Publish(e) ==
    /\ EntryStep(e, "connected", "live")
    /\ ~Outdated(e, gen[e])
    /\ UNCHANGED <<daemonVars, requestVars, storeVars, auth, retired, broken, closed,
                   active, loaded>>

(* Mutant: the session connected in vain is left open.                     *)
DiscardUnclosed(e) ==
    /\ EntryStep(e, "connected", "failed")
    /\ Outdated(e, gen[e])
    /\ PublishError(e)
    /\ UNCHANGED <<generation, retiring, shutdown, shutdownTodo, requestVars, storeVars,
                   auth, retired, broken, closed, active, loaded>>

(* Retired while starting: close the session, then publish the error.      *)
(* Only the startup goroutine refers to the session, so that this is one   *)
(* step although d.mu is not held while the session closes.                *)
Discard(e) ==
    /\ EntryStep(e, "connected", "failed")
    /\ Outdated(e, gen[e])
    /\ closed' = [closed EXCEPT ![e] = TRUE]
    /\ PublishError(e)
    /\ UNCHANGED <<generation, retiring, shutdown, shutdownTodo, requestVars, storeVars,
                   auth, retired, broken, active, loaded>>

-----------------------------------------------------------------------------
(* daemon.close.                                                           *)

(* d.cancel, by serve's watcher or by close.                               *)
CancelContext ==
    /\ shutdown = "up"
    /\ shutdown' = "canceled"
    /\ UNCHANGED <<generation, pools, retiring, shutdownTodo, entryVars, requestVars, storeVars>>

MarkClosing ==
    /\ shutdown = "canceled"
    /\ shutdown' = "closing"
    /\ retired' = [e \in Requests |-> retired[e] \/ e \in Pooled]
    /\ shutdownTodo' = {e \in Pooled : phase[e] = "live"} \cup retiring
    /\ UNCHANGED <<generation, pools, retiring, phase, auth, broken, closed, active, loaded,
                   requestVars, storeVars>>

(* Instances are closed even while leased, but never during an operation.  *)
CloseAtShutdown ==
    /\ shutdown = "closing"
    /\ \E e \in shutdownTodo :
         /\ ~Busy(e)
         /\ closed' = [closed EXCEPT ![e] = TRUE]
         /\ shutdownTodo' = shutdownTodo \ {e}
    /\ UNCHANGED <<generation, pools, retiring, shutdown, phase, auth, retired, broken,
                   active, loaded, requestVars, storeVars>>

Starting(e) == phase[e] \in {"spawned", "connecting", "connected"}

(* wg.Wait returns, the socket and the lock are given up.                  *)
Stop ==
    /\ shutdown = "closing" /\ shutdownTodo = {}
    /\ \A r \in Requests : pc[r] \in {"new", "done"} /\ ~Starting(r)
    /\ shutdown' = "down"
    /\ UNCHANGED <<generation, pools, retiring, shutdownTodo, entryVars, requestVars, storeVars>>

Stopped == shutdown = "down" /\ UNCHANGED vars

-----------------------------------------------------------------------------
(* The handler's own steps, which only the scheduler can delay.            *)
Handle(r) ==
    \/ AcquireRefused(r) \/ AcquireExisting(r) \/ AcquireFresh(r)
    \/ Lease(r) \/ LeaseRefused(r) \/ WaitCanceled(r) \/ WaitAuthorizing(r)
    \/ CheckCredential(r) \/ BeginOperation(r) \/ RefuseOperation(r)
    \/ Release(r)
    \/ ConfirmLogin(r) \/ RetireCredential(r) \/ CloseRetired(r) \/ Forget(r)

EndOperation(r) == FinishOperation(r) \/ LoseSession(r) \/ AbandonOperation(r)

Start(e) == LoadTarget(e) \/ Publish(e) \/ Discard(e)

EndConnect(e) == Connect(e) \/ StartFailed(e)

Shutdown == MarkClosing \/ CloseAtShutdown \/ Stop

Next ==
    \/ \E r \in Requests, k \in Keys : Call(r, k)
    \/ \E r \in Requests : Disconnect(r) \/ Reload(r) \/ Login(r) \/ Logout(r)
    \/ \E r \in Requests : Handle(r) \/ EndOperation(r) \/ Reauthorize(r)
    \/ \E e \in Requests : Start(e) \/ EndConnect(e)
    \/ \E e \in Requests : BeginAuthorization(e) \/ SaveAuthorization(e)
    \/ DirectAuth
    \/ CancelContext \/ Shutdown
    \/ Stopped

Spec == Init /\ [][Next]_vars

(* A connection attempt ends with d.ctx, and an authorization flow with    *)
(* the client that started it (initialCtx).                                *)
StartAborted(e) == shutdown # "up" \/ (gone[e] /\ auth[e] = "started")

(* The Go scheduler runs every runnable goroutine.  An operation or a      *)
(* connection attempt whose context is canceled returns; nothing in the    *)
(* code bounds one whose context is not.                                   *)
SchedulerFairness ==
    /\ \A r \in Requests : WF_vars(Handle(r))
    /\ \A r \in Requests : WF_vars(Canceled(r) /\ EndOperation(r))
    /\ \A e \in Requests : WF_vars(Start(e))
    /\ \A e \in Requests : WF_vars(StartAborted(e) /\ StartFailed(e))
    /\ WF_vars(Shutdown)

FairSpec == Spec /\ SchedulerFairness

(* Upstream servers that answer, and connection attempts that end: an      *)
(* assumption of the properties that need it, not of the specification.    *)
UpstreamAnswers ==
    /\ \A r \in Requests : WF_vars(EndOperation(r))
    /\ \A e \in Requests : WF_vars(EndConnect(e))
-----------------------------------------------------------------------------
(* Properties.                                                             *)

(* Every variable keeps its type.                                          *)
TypeOK ==
    /\ generation \in 0..MaxGeneration
    /\ pools \in [Keys -> Requests \cup {None}]
    /\ retiring \subseteq Requests
    /\ shutdown \in {"up", "canceled", "closing", "down"}
    /\ shutdownTodo \subseteq Requests
    /\ phase \in [Requests -> {"none", "spawned", "connecting", "connected", "live", "failed"}]
    /\ auth \in [Requests -> {"none", "started", "saved"}]
    /\ retired \in [Requests -> BOOLEAN]
    /\ broken \in [Requests -> BOOLEAN]
    /\ closed \in [Requests -> BOOLEAN]
    /\ active \in [Requests -> Nat]
    /\ loaded \in [Requests -> (0..MaxLogins) \cup {None}]
    /\ pc \in [Requests -> {"new", "acquire", "wait", "check", "lock", "operate", "release",
                            "confirm", "retire", "close", "forget", "done"}]
    /\ gen \in [Requests -> 0..MaxGeneration]
    /\ key \in [Requests -> Keys \cup {None}]
    /\ at \in [Requests -> Requests \cup {None}]
    /\ todo \in [Requests -> SUBSET Requests]
    /\ current \in [Requests -> Requests \cup {None}]
    /\ gone \in [Requests -> BOOLEAN]
    /\ credential \in 0..MaxLogins
    /\ logins \in 0..MaxLogins
    /\ stored \in [Requests -> SUBSET (0..MaxLogins)]

(* The requests that hold a lease: between waitForInstance's active++ and  *)
(* release's active--.                                                     *)
Leaseholder(r, e) == at[r] = e /\ pc[r] # "wait"

Leaseholders(e) == {r \in Requests : Leaseholder(r, e)}

(* instance.active counts the requests that hold a lease, so that neither  *)
(* an early return nor a handler that retires sessions while it holds one  *)
(* leaks a lease or gives one back twice.                                  *)
LeaseCount == \A e \in Requests : active[e] = Cardinality(Leaseholders(e))

(* Nobody's session is closed under it: reload, logout, a credential       *)
(* change and the last release close an instance only when no request      *)
(* holds a lease on it.  Only daemon shutdown may.                         *)
LeaseSafety ==
    \A r, e \in Requests : Leaseholder(r, e) /\ closed[e] => Closing

(* An operation runs on an open, unbroken session of the key and of the    *)
(* generation its request captured, whatever was reloaded, retired or      *)
(* closed between the request's acquire and its turn at the mutex.         *)
ServesOwnGeneration ==
    \A r \in Requests : pc[r] = "operate" =>
        LET e == at[r]
        IN  /\ phase[e] = "live" /\ ~closed[e] /\ ~broken[e]
            /\ key[e] = key[r] /\ gen[e] = gen[r]

(* A request that passed CredentialsCurrent runs on a session whose        *)
(* credential was the stored one at some moment since the request was      *)
(* made: a login or logout that completed before it is never ignored, even *)
(* when another process made it.                                           *)
CredentialFresh ==
    \A r \in Requests :
        pc[r] \in {"lock", "operate"} => loaded[at[r]] \in stored[r] \cup {None}

(* At any time at most one session per key is offered to new requests, and *)
(* it is of the current generation: every entry that is neither failed nor *)
(* retired is the one d.pools holds for its key.                           *)
Offered(e) == phase[e] \notin {"none", "failed"} /\ ~retired[e]

OneOfferedSession ==
    \A e \in Requests : Offered(e) => pools[key[e]] = e /\ gen[e] = generation

(* A session somebody still has to close: open, and published or about to  *)
(* be.                                                                     *)
Open(e) == phase[e] \in {"connected", "live"} /\ ~closed[e]

(* No open session is forgotten: its startup goroutine, d.pools or         *)
(* d.retiring refers to it, so reload or shutdown will find it; once       *)
(* daemon.close collected its list, that list does.                        *)
NoLostSession ==
    \A e \in Requests : Open(e) =>
        \/ phase[e] = "connected"
        \/ IF Closing THEN e \in shutdownTodo ELSE e \in Pooled \cup retiring

(* When the daemon gave up its socket and lock no session it started is    *)
(* left open: no orphaned child process survives it.                       *)
NoOrphanAtExit == shutdown = "down" => \A e \in Requests : ~Open(e)

(* What status reports as retiring either serves its last requests or is   *)
(* being closed by a handler that will then forget it.                     *)
RetiringAccounted ==
    \A e \in retiring :
        active[e] = 0 => \E r \in Requests : e \in todo[r]

(* A daemon told to stop does stop, whatever its clients and upstream      *)
(* servers do: cancellation reaches every wait.                            *)
ShutdownCompletes == (shutdown # "up") ~> (shutdown = "down")

(* A session withdrawn from the pool is closed in the end, if upstream     *)
(* servers answer the operations that still use it.                        *)
RetiredIsClosed ==
    UpstreamAnswers => \A e \in Requests : (retired[e] /\ Open(e)) ~> closed[e]

(* Every request is answered if upstream servers answer.                   *)
EveryRequestAnswered ==
    UpstreamAnswers => \A r \in Requests : (pc[r] # "new") ~> (pc[r] = "done")
=============================================================================
