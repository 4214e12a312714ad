# Verification of wirecmd

wirecmd gives MCP tools, MCP resources and language servers a command line. A
command runs either *direct*, in one process that opens the upstream session,
asks once and closes it, or through a per-user *daemon* that retains upstream
sessions and shares them among commands. This directory holds TLA+ models of the
parts in which order matters, TLC configurations that check them on small
instances, and TLAPS proofs of their safety properties for every instance.

Paths below are relative to the repository (`src/` is its root here). Every
definition that models code is listed with its lines in `PROJECT.json`, under
`map`; the hazards the properties are aimed at are listed there under `hazards`.

    tlc -workers 2 -config MCDaemonPoolReload.cfg MCDaemonPool
    tlapm DaemonPoolProofs.tla

## 1. Inventory

### 1.1 Components

| component | code | state it keeps | operations |
|---|---|---|---|
| daemon instance pool | `internal/cli/daemon.go` | `d.generation`, `d.pools`, `d.retiring`, `d.closing`; per entry `ready`, `authStarted`, `retiring`, `broken`; per instance `active`, `closed`, `broken`, a mutex | acquire, wait, lease, credential check, operate, release; start, publish, discard; reload, login, logout; shutdown |
| OAuth credential use | `internal/cli/oauth.go` | per session: the record's generation, `found`, the token payload, `flowActive`; in the daemon `authFlows` | load, refresh and save, authorize and save, `CredentialsCurrent`, close |
| OAuth credential store | `internal/oauthstore/store.go` | encrypted file, keyring master key, lock files | `Load`, `Save`, `Delete`, `LockAuthorization` |
| OAuth callback server | `oauth.go`, `browser_open_*.go` | listener, result channels | start, callback, cancel, shut down |
| language-server session | `internal/lspclient/client.go` | child process, negotiated synchronisation, `documents`, `closed` | start, synchronise and ask, close |
| language-server fan-out | `daemon.go` (`executeLSP`), `lsp_cli.go` | one lease per provider | ask every provider, aggregate, page |
| configuration cache | `daemon.go`, `config_admin.go` | `d.configs` with fingerprints | load, reuse, drop on reload |
| secret snapshot reuse | `daemon.go`, `secrets.go` | `d.secretCache` | `cachedInstance`, `rememberSecretPools` |
| daemon lifecycle | `daemon.go`, `runtime_dir_*.go` | lock file, socket file | start, listen, stop, recover from a crash |
| wire protocol | `daemon.go`, `cli.go` | the two ends of a connection | request, notice, reply, cancel by EOF |
| direct MCP calls | `cli.go` | one session | connect, call, close |
| configuration composition | `internal/config`, `context.go`, `scope.go`, `materialize.go` | none | compose layers, validate |
| discovery and trust | `internal/discovery` | trust file and its lock | walk, trust, untrust |
| secret resolution | `internal/secrets`, `secrets.go` | none | resolve one batch |
| templates, redaction, output, help | `contexttmpl`, `jsontemplate`, `cli` | a streaming redactor's tail | expand, redact, render |

### 1.2 How they interact

A client connects to the daemon's Unix socket and sends one framed request. The
daemon runs one goroutine per connection. It loads or reuses the configuration,
resolves secrets (or recognises an unchanged snapshot), derives a *pool key* from
provider, owner, workspace, execution and authentication identity, and either
joins the `poolEntry` of that key or creates one, whose startup runs in a
goroutine of its own under the daemon's context. A waiter that finds the entry
ready leases its `retainedInstance` (`active++`), takes the instance's mutex,
asks, and gives the lease back (`active--`). Handlers of `daemon reload`, `auth
login` and `auth logout` withdraw entries from the pool; whoever sees the last
lease of a withdrawn instance go closes it. Shutdown cancels the daemon's context,
closes everything and waits for every goroutine.

OAuth sessions, in the daemon and in direct commands, share one stored credential
per identity through the store's file lock. An HTTP request asks the session's
token source for a token; a refreshed token is saved under the generation the
session holds. A challenge from the server starts a browser flow, guarded by an
authorization lock over all processes and a table of flows in the daemon.

A language-server session mirrors files into the server's memory: each request
reads the file, brings the server's copy up to date and then asks.

### 1.3 What is hard

- **Interleaving.** `d.mu` is dropped before sessions are connected or closed, and
  before a waiter's entry becomes ready; `instance.mu` is queued for without it.
  Every decision made under one lock may be outdated under the next.
- **Cancellation.** A client may vanish at any step. Its context is derived from
  the daemon's; some waits observe it (a channel), some do not (a mutex).
- **Shared credentials.** Other processes replace and delete the credential at any
  time; a session holds a copy, and a refused save is an ordinary outcome.
- **Partial failure.** Early returns with a lease, browser flows that end in many
  ways, notifications that fail between two messages.
- **Shutdown.** It waits for handlers that wait for entries, mutexes, servers.

### 1.4 What makes each part correct

*Pool*: leases are counted exactly; no session is closed under its lessee except by
shutdown; an operation runs on an open, unbroken session of its own key and
generation, with a credential that was current at some time since the request was
made; at most one session per key is offered; no open session is forgotten, and
none survives the daemon; requests are answered, withdrawn sessions closed and
shutdown completes. *Credential*: logout and login are noticed by sessions that
still send a token; at most one browser flow is open; a failed flow does not block
the next; a generation never returns; no refresh undoes a logout. *Language-server
session*: a question is asked about the text that was read from disk; versions
grow; a session ends with the documents closed and the handshake performed; Close
returns and leaves no child. *Others*: see the plan.

## 2. Modules

| module | what it is |
|---|---|
| `DaemonPool` | the pool: request, startup, admin, login/logout and shutdown goroutines, and the stored credential as the pool sees it |
| `SessionLease` | what the pool promises: sessions are offered, lent, withdrawn, and closed when the last holder gave them back |
| `PoolImplementsLease` | the refinement mapping from the pool to `SessionLease` |
| `DaemonPoolInv`, `DaemonPoolProofs` | the pool's inductive invariant; its proof, the safety theorems and the refinement |
| `SecretReuse` | the daemon's caches in front of the pool: configurations by generation, remembered secret snapshots, and what they withdraw |
| `DaemonProcess`, `DaemonProcessProofs` | the daemon as a process (lock, socket file, crash) and both ends of a connection; invariants and theorems |
| `OAuthCredential`, `OAuthCredentialProofs` | one stored credential, the sessions of several processes that use it, the authorization lock and the browser flow; its invariant and theorems |
| `OAuthCallback` | one session's loopback server, which outlives the flow it was started for |
| `CredentialStore`, `CredentialStoreProofs` | the store's operations, system call by system call, through kills and power loss; invariant, theorems and refinement |
| `AtomicStore` | what the store promises, implemented by `CredentialStore` |
| `WorkspaceTrust` | trust commands, discovery, project roots, secret store candidates, and the daemon's check of them |
| `ConfigCompose` | configuration files parsed, composed, validated and materialised, against a field-by-field definition of the result |
| `ConfigurationProofs` | what files compose to and what requests then run with: invariants and theorems of `ConfigCompose` and `SecretReuse` |
| `SecretResolve` | one operation's secrets: stores captured, decrypted once, environment, all or nothing |
| `LspFanout` | one language-server request asked of several servers, and the aggregation of their answers |
| `LspSession`, `LspSessionProofs` | one language-server session, its server's copies of the documents, and the closing handshake; its invariant and theorems |
| `Redactor`, `RedactorProofs` | the streaming redactor; invariant and theorem |
| `Filtering` | what a loop that appends the members it keeps makes of a slice; used by `WorkspaceTrust` and `LspFanout` |
| `InvocationProofs` | the theorems about the scenes of `MCInvocation`: those of `WorkspaceTrust`, `OAuthCallback`, `LspFanout` and `SecretResolve` are proved here, the others carried over |
| `MC*` and `*.cfg` | instances for TLC |

`SecretReuse` uses `SessionLease`, not `DaemonPool`, for its sessions: `DaemonPool` shows
that the pool implements it. `MCOAuthCredential` and `MCInvocation` each put modules that
share no state side by side as *scenes*: the first state chooses one, the others rest.
`MCOAuthCredential` holds `OAuthCredential` (`runtimes`) and, below it, `CredentialStore`
(`store`); `MCInvocation` the parts of one request's path, in their order: `trust`
(`WorkspaceTrust`), `config` (`ConfigCompose`), `reuse` (`SecretReuse`), `callback`
(`OAuthCallback`), `secrets` (`SecretResolve`), `fanout` (`LspFanout`), `redaction`
(`Redactor`). A property of a scene is stated in its module and holds vacuously in the
others. The scenes are instances of the modules that hold their proofs where there is
one (`Store == INSTANCE CredentialStoreProofs`), so that a theorem about the composition
can cite `Store!...`; `Configuring` is `ConfigCompose`, with `SecretReuse` in it as
`Configuring!Reuse`.

Mutants (definitions introduced by a comment `Mutant: ...`) are variants of a
definition with a plausible bug. `PROJECT.json` says which property each one breaks;
no specification uses them.

### 2.1 DaemonPool and the code

A step is one critical section of `d.mu` or of `instance.mu`, or one wait on a
channel. A request creates at most one entry and an entry has at most one
instance, so entries and instances carry the name of the request that created
them, and `pools` maps a key to a request.

`pc[r]` is where the handler of request `r` is: `Call` stands for accepting the
connection, loading the configuration and deriving the key; `Acquire...` for the
first section of `acquire` and `acquireLSP`; `Lease`, `LeaseRefused`,
`WaitCanceled` and `WaitAuthorizing` for the cases of `waitForInstance`;
`CheckCredential` for `CredentialsCurrent`; `BeginOperation` and `RefuseOperation`
for what is tested once the mutex is held; `FinishOperation`, `LoseSession` and
`AbandonOperation` for the three ways an operation ends (`noteSDKOperation`);
`Release` for `release`, and `CloseRetired`/`Forget` for the loop that closes
withdrawn instances, which all handlers share. `Withdraw` is the loop over
`d.pools` in `executeAdmin` and `retireOAuthCredential`. `phase[e]` is the progress of
`startInstance`/`startLSPInstance`. `shutdown` is the progress of `daemon.close`.

The credential is a number, `0` when none is stored. Other processes change it
(`DirectAuth`), so do a login and a logout through the daemon (`Login`, `Logout`), a
challenge during startup (`SaveAuthorization`) and one during an operation
(`Reauthorize`). `stored[r]` is a history variable.

### 2.2 OAuthCredential and the code

`Load`, `Save` and `Delete` hold the store's flock and are atomic steps; `Save` and
`Load` may fail. `Obtain` is the inner token source, `TokenUnchanged`, `TokenSaved`
and `TokenNotSaved` the rest of `savingTokenSource.Token`, which runs later: the
session may have been authorized anew between the two. The flow's steps follow
`fetchAuthorizationCode`: lock, register, browser, unregister, unlock, and then the
SDK's exchange. A token is known by the authorization it descends from and by the
number of refreshes in between.

`DaemonPool` abstracts the token away and keeps the generation; `OAuthCredential`
abstracts the pool away and keeps the sessions. Refreshes keep the generation, which
is why the pool does not have them.

### 2.3 LspSession and the code

`Session.mu` admits one request or `Close` at a time, so `stage` is one variable.
`Prepare` reads the file under the instance's mutex; the branches of `synchronize`
are `OpenDocument`, `ReopenDocument`, `KeepDocument` and `ChangeDocument`, each with
the outcomes "sent", and "failed" at every notification it sends. `Unsupported` is
the early return of `supports`, `Answer` the end of the question. `CloseDocuments`,
`Shutdown`, `Exit` and `Reap` are the parts of `Close`. `server` is the server's own copy
of each document; how it treats the notifications is the language-server protocol,
the only assumption about it. An incremental change replaces the extent of the text
the *session* believes the server to have, so it is right only if they agree;
otherwise the copy becomes `Garbled`.

### 2.4 CredentialStore, AtomicStore and the code

An operation is the sequence of its steps still to take (`left`), taken from `Program`;
each step is one system call. `Load` and `Delete` read the keyring before they take the
flock, `Save` and `LockAuthorization` under it, and the module keeps that difference. A
record file's name is derived from the master key and the identity, so a second master
key would hide the records of the first. A step may fail before its effect (`Fail`),
except that a failed chmod or write of the temporary file goes unnoticed (`WriteFails`,
section 6). `Crash` kills one process; `MachineCrash` loses power: of each directory
entry any state since the last sync may survive (`disk`), and content that was not
synced is torn.

`AtomicStore` has one record per identity, operations that take effect at one instant
between call and reply, and a lease with one holder. The mapping takes the record to be
the file that the key in the keyring leads to; an operation whose rename or removal is
done but not synced is `settle`: its effect may still be lost by a power loss, but not
once it was reported. A record left unreadable by a failed write counts as its
generation's, and reading it as a failed operation.

### 2.5 The daemon around the pool

`SecretReuse`. `Arrive` captures the generation; `FindConfig`, `LoadConfig` (without the
lock) and `KeepConfig` are the lookup of `d.configs`; `Mismatch` and `Capture` follow the
comparison of fingerprints. `Reuse` to `GiveBackReused` are `cachedInstance` for one
provider after the other, all or nothing; `Acquire` to `Release` the workers; `Remember`
is `rememberSecretPools`, before an MCP operation and after the language servers'.
Configurations and snapshots are version numbers; `ExecutionOf` and `SecretsOf` say which
of them are indistinguishable by execution or by secret values.

`DaemonProcess`. `TakeLock` to `Serve` is `newDaemon`, `Stop` to `Unlock` `daemon.close`. A
daemon that ended may be started again, which is what a client with an unavailable
daemon asks for. A connection is two queues of frames and two end marks. `Cancel` is the
end of the caller's context; `SendCancel`, `CloseWrite` and `ExpireRead` are
`cancelDaemonRequest`, which runs beside the client; `Watch` is the goroutine of
`requestContext`.

`OAuthCallback`. `Begin` to `Leave` is `fetchAuthorizationCode`; `Arrive`, `Look` and
`Answer` are one HTTP request: `handleCallback` copies the channels under the mutex and
uses them after it. `Refuse` is every early return, `Interrupt` a context that is done while
the flow waits. `Close` is `oauthRuntime.Close`, which asks for nothing
but a listener: a flow may be under way, and handlers that run go on. A handler knows no tab, so a request that an earlier flow's tab
sends during a later flow is taken for that flow's own.

### 2.6 What an invocation reads and shows

`WorkspaceTrust` has trust commands of several administrators, each a locked
read-modify-write (`discovery.update`) that unlocks before it reports, around one invocation
that reads the list twice. `outcome` and `contested` are history: what was reported, and which
commands a contrary one on the same directory overlapped, whose report promises nothing.
A path is a sequence of names, and a name has a length in bytes because `within` looks
at it. The file system around the invocation stays as it is (`world`).

`ConfigCompose` takes a file as a tree of nodes. `Load` is the parser, `ComposeNext` one
round of `Compose`'s loop, `Complete` its end with the defaults and the validation,
`Materialize` what an invocation makes of the server it selects. `Documented` defines the
result by looking at all files at once, per field. Loops over fields and definitions are
recursive functions (`composeHTTPFields`, `ComposeNamed`) of one step each (`PlaceField`,
`PlaceNamed`).

`SecretResolve` resolves one scope after the other: `Capture` reads one store,
`Recall`/`Decrypt` is `AgeProvider.document`, `Complete` the environment and the outcome.
A direct command captures after `Qualify`, the daemon before.

`LspFanout`: `Match` or `MatchRefused` (ambiguous selectors, no global root), the scope-by-scope setup with leases of reused sessions
(`ScopeReused`, `ScopeResolved`, `SetupFails`), one worker per server, and
`aggregateLSPResults` over what they stored. `Redactor` is `consume` on sequences of
characters, as a recursive function.

## 3. What the runs check

| run | instance | shows |
|---|---|---|
| `pool_reload` | 3 requests, an HTTP and a stdio key, 1 reload, shutdown; 377 k states | counted leases, lease safety, own generation, one session per key, nothing lost or orphaned, retiring instances accounted for, refinement of `SessionLease` |
| `pool_credential` | 2 requests, one OAuth key, 2 logins, any logouts; 1.6 M states | `CredentialFresh` |
| `pool_live` | 2 requests, 1 key, 1 reload; servers may answer or never do | shutdown completes in any case; when servers answer, every request is answered and every withdrawn session closed |
| `oauth_credential` | `runtimes`: a daemon session and a direct login, 2 authorizations, 1 refresh each, 2 generations; 573 k states. `store`: 2 processes, 1 identity, 2 generations, 1 crash; 248 k states | a logout is noticed, one browser flow, exact flow table, generations never return; no file is cut short by a crash, one authorization lease, refinement of `AtomicStore` |
| `oauth_refresh` | one session | **violated**: a refresh undoes a logout |
| `store_atomic` | 1 process | **violated**: a failed write replaces a record |
| `lsp_session` | 1 path, 2 contents, 2 languages, 3 versions; 287 k states | the question is about the snapshot, versions grow, retirement performs the handshake, Close returns |
| `lsp_shutdown` | 1 path, 2 contents, 1 language | **violated**: daemon shutdown skips the handshake |
| `daemon_process` | 2 daemons, 1 client, 2 crashes, 1 authorization URL; 88 k states | the socket leads to the serving daemon, outcomes are true, a cancellation ends the call and reaches the operation |
| `invocation` | seven scenes, below; 1.7 M states | see the table of scenes |
| `trust_recursive` | scene `trust` | **violated**: trust is not recursive for short names |
| `trust_atomic` | scene `trust` | **violated**: a failed write replaces the trust file |

| scene | instance | property |
|---|---|---|
| `trust` | 2 administrators, 2 commands on any of 4 directories, 30 arrangements of files, roots and options | `AcknowledgedStands`: commands do not undo each other. `SourcesTrusted`: only trusted directories are read, also when the list changes between the two readings, and the daemon accepts what the client resolved |
| `config` | up to 3 of 19 files | `ComposedAsDocumented` |
| `reuse` | 2 requests for an MCP server or for two language servers, 2 configurations, 2 snapshots, 1 reload | `ServedAsCaptured`, `OneConfiguration`, `FreshAfterReload` |
| `callback` | 2 flows, 3 browser requests | `FlowsKeptApart`: a flow is ended only by a request that was looked up for it, from its own tab or an earlier one, and an acknowledged code reaches its flow |
| `secrets` | 2 stores (one shared by both scopes), 3 versions of which one does not decrypt, 4 names, 1 update | `ResolvedAsCaptured` |
| `fanout` | 3 servers, 2 scopes, 2 languages, 3 answers | `AnswerComplete` |
| `redaction` | 1 or 2 of all secrets up to 3 characters over 2, 5 characters written one or two at a time | `SecretsWithheld` |

**Bounds.** Every race of the pool involves one session and at most three parties: a
request with a lease, one that waits or queues, and a handler that withdraws. Three
requests are all three; a shutdown comes on top as a process of its own. Two keys
let a reload retire a session that serves while another still starts, and the two
kinds of transport differ after a canceled operation. One reload suffices to make a
captured generation stale. Two logins give a session that is older than the stored
credential, a login it may miss, and one that arrives during startup; requests on
different keys share nothing but the credential, so one key is enough there. Request
symmetry is used in the safety runs only.

The credential needs a second runtime to replace a record under the first one; the
violation of `oauth_refresh` needs two refreshes and has its own instance. The store
needs two processes for every race of the lock and the master key, and a second
generation to be stale; every step is a place for the one crash. Documents are
independent, so one path suffices; the version bound admits two changes after an open,
the smallest number after which a failed and a successful change can be told apart.

Two daemons are enough for the socket file: a third would only wait for the same lock.
Two crashes allow a daemon to be killed, its successor to be killed while it cleans up,
and the first to start again. Two requests suffice for the caches because an entry is
made by one and met by the other. Three browser requests over two flows are one late,
one of the present flow, and one to fill a channel twice. The redactor's five characters
hold two secrets and a cut inside each. Configuration: a change of transport and back
takes three files. The files were chosen so that every field is given, overridden and
left out by some of them; `Refused` ones break one rule each.

**Deadlock** is checked in the pool (`Stopped` is the only state it may stay in). The
other models stop when the session is closed, the request answered or a bound reached.

## 4. Fairness

`FairSpec` of `DaemonPool` (`pool_live`): the Go scheduler runs every runnable goroutine
(`WF` of each handler's, each startup's and shutdown's steps); an operation or a
connection attempt returns once its context is canceled. Nothing is assumed about an
operation whose context is not canceled, because the code bounds none: a request queued
on `instance.mu` is not answered while the operation before it hangs. `RetiredIsClosed`
and `EveryRequestAnswered` therefore have an antecedent of their own, `UpstreamAnswers`:
upstream servers answer and connection attempts end. `ShutdownCompletes` does not.

Weak fairness is enough although mutexes are contended: every request is handled
once, so no request can be overtaken for ever.

`LspSession` assumes `WF` of `Closing` only: `Close`'s calls end with its two-second
context and its timer fires. A write to a server that stopped reading is taken to
return; see the hazard at `client.go:906`.

`DaemonProcess` assumes that the client's goroutine, its cancellation and the daemon's
watcher of the connection run (`WF` of `ClientStep`, `CancelStep`, `Watch`), and nothing of
the daemon otherwise: it may hang, and a canceled client still returns, because of the
read deadline.

`OAuthCredential`, `OAuthCallback`, `CredentialStore` and the scenes of `MCInvocation` have
no liveness property: their waits are for a person, a lock's holder or a server, and nothing
bounds them but cancellation.

## 5. What is proved

All theorems are `Spec => ...` for every value of the constants that satisfies the
named assumptions: `None` is outside the sets it completes, the bounds are natural
numbers, `OAuthKeys \subseteq HTTPKeys \subseteq Keys`, and there are finitely many
requests (leases are counted by cardinality).

`DaemonPoolProofs`. No safety property of the pool is inductive alone. `IInv` adds
where a handler stands relative to its entry (`Placement`: in particular, who leases
refers to a published instance of its own key and generation), which slice a closing
loop owns (`ClosingLoop`), that `d.pools` is up to date (`PoolsCurrent`), that
whatever is about to be closed is withdrawn and idle (`CloseDiscipline`), that an
operation has its mutex to itself (`OneOperation`), that the history knows the stored
credential (`StoredKnown`), who holds a credential (`CredentialHeld`) and that nothing
starts after the stop (`DownIsFinal`). The argument for `LeaseSafety`: an instance is
closed only from a `toClose` slice or at shutdown; it enters a slice withdrawn and
with `active = 0`; a withdrawn instance gets no new lease; `active` counts the leases.
Each conjunct has a lemma with one step per action. `PoolImplementsSessionLease`
maps every step to a step of `SessionLease` or a stutter.

`OAuthCredentialProofs`. `Inv` adds `SenderFound`: whoever can still send a token knows
that a credential existed. That makes `CredentialsCurrent` notice its deletion. The
lock and the flow table are inductive as they stand. `GenerationsNeverReturn` is an
action property that follows from the types.

`LspSessionProofs`. `Inv` adds `Mirror` (on a live server a copy is the recorded one and
no newer; only a failed `didOpen` leaves a recorded document without a copy),
`RecordBounds`, `AskedRecorded` and `Handshake` (how far the closing got on a server
that did not fail).

`CredentialStoreProofs`. `IInv` adds `Placement` (what is left of an operation is an end
of its program), `Exclusive` (between its lock and its unlock a process holds the flock),
`OneKey`, `FilesWhole` and `StillChecked`. `OneKey` carries most of the proof: a save makes
a master key only when it finds none under the lock, so nothing has a name under another
one, even though `Load` and `Delete` read the key before they have the lock; without it a
record could be stored and never found. `FilesWhole` says that a file is synced before it
is renamed, or its write had failed, which gives `RecordsWhole` after any power loss.
`StillChecked` says that the generation a save compared is still the stored one when it
renames. On these rests the refinement: every system call, failure, kill and power loss is
a step of `AtomicStore` or a stutter (`Simulate...`, one lemma for each). The power loss is
the step that needs the pending syncs: a lost effect is one that was not reported.

`DaemonProcessProofs`. `DaemonInv`: whoever is past `TakeLock` holds the flock (`LockHeld`),
and a socket is open exactly while its daemon serves, when the file leads to it
(`SocketHeld`); a crash closes the socket and leaves the file, which only the next holder of
the flock removes. `ClientInv` follows a request through both queues: an operation runs only for a
client that sent one (`AskedOnlyBySending`), a result in the queue or with the client is
of an operation that completed (`CompletedOnce`), and no client is told anything before
its end. A frame is anywhere in its queue, so the proof has lemmas on what `Head`, `Tail`
and `Append` keep. Kills are not excluded anywhere: a client that lost its daemon has one
of the outcomes that promise nothing.

`ConfigurationProofs`. *Composition*: `ComposedAsDocumented` speaks of the end, and says
nothing while files are still being composed. `IInv` says of every moment of it that the
configuration is `Documented` for the files composed so far (`Composed`, the first `next`
of those read), with no default for a scope or for `git-root` yet; and that what was read is what the
parser accepts. One more file is one step for every part of the result. A function of the
files that name something `Grows` by one value, later than all others; then the nearest
value is that one, or stays (`StrongestOfMore`), and a field or a definition that is put in its
place, or after the others, leaves every name once, in the order of introduction
(`FieldPlaced`, `NamesGrow`). A definition needs that its own file names it once, which
is what the parser checks, and a server that the run of nodes that follows the last change of
transport either grows or begins anew. The loops are unfolded as under *Lists*
below. The end adds the defaults to what is `Documented` without them, and a materialised server
holds no template because its values are those of its definition, each expanded.
`ComposeAssumption` says of a file only that the children of a node are a list.
*Reuse*: `ConfigInv` says that a cached configuration is not older than the
reload that began its generation and belongs to the generation under way, that the requests
admitted in it were given that one, and that one being kept was not read before the reload
(`CachedForNow`, `AdmittedAlike`, `ConfigLoaded`,
`Chronological`); it gives `OneConfiguration` and `FreshAfterReload`. `SessionsInv` says that
whatever is pooled, remembered, or found by a worker was made under the key it is found
under (`PooledUnderKey`, `RememberedAsMade`, `FoundUnderKey`), by a request whose key is
final by then (`ReuseSettled`); it gives `ServedAsCaptured`.

`RedactorProofs`. `RedactingInv` says that no secret begins anywhere in what has left the
writer (`Hidden`); that where only plain characters left, none begins that ends in the pending
text or outlasts it (`Quiet`); and that what left, followed by the scan of what is pending, is
what masking the text read so far gives, whatever follows it (`Parted`). It rests on what one
scan does with any text (`ConsumeStep`, `Hides`, `Split`).

`InvocationProofs`. *Trust*: `AcknowledgedStands` needs that only the lock's holder is between
its read and its unlock (`TrustAlone`), that its copy is the list with its change in it and
that the list still agrees with a command that has yet to report (`CopyCurrent`), that while
an outcome stands no contrary command is under way (`Uncontested`), and that commands which
overlap a contrary one are marked (`Marked`): after the unlock it is only by these that the
list may be changed back before the report. *Sources*: `SourcesInv` says that the context of an invocation is what
discovery makes of the list it read first (`Discovered`: within a directory of the list,
broad to near, nothing left out below the boundary, and as the daemon will ask for it),
and that the stores of a request are within directories of the list it read last
(`StoresTrusted`). `Discovered` rests on the operators: the ancestors of the working
directory are its prefixes (`Ancestors`, `Above`), the deepest trusted one is found
whatever the list (`DeepestTrusted`), the way down from it has every directory between
once (`WayDown`), and filtering it keeps order and members (`ConfiguredOnTheWay`).
*Callback*: a flow's channels hold only requests
that were looked up during it (`ChannelsOwn`), although handlers may send long after it
(`Numbered`, `ActiveBegun`, `Heard`), and only tabs of flows begun are answered
(`TabsBegun`). The theorem does not say that an earlier tab's request is refused when it
arrives during a later flow; the code does not refuse it. *Fan-out*: the leases of a language-server request are
those of the scopes set up so far, then one of each worker that was given or acquired one
(`LeasedInSetup`, `LeasedByWorker`), so every lease is given back once on every early return.
A worker that is done has stored what its own server said (`Recorded`), one that is not has
heard nothing, and an answer that is not an early return is the aggregation of what they
stored (`FanoutAnswers`). What the aggregation knows after n matches is `SumsUp`: that it
succeeded, or failed, exactly if one of them did, which failed first, and that its items are
the contributions so far.
*Secrets*: along the scopes still to do (`ScopesToCome`), what was decrypted is what was
captured and age ran at most once on it (`DecryptedOnce`), the position in the list of stores
and what was found before it (`ResolveProgress`, `FoundSoFar`), and what is reported is
final (`TrulyReported`). `ResolvedAsCaptured` is `TrulyReported` for every scope and that age
never ran twice.
Theorems about the composition follow because `scene` never changes and every step of
`Spec` is a step of the scene's module or a stutter of it.

*Lists.* Composition, sources, fan-out and the redactor need facts about loops of any length, and the
library's induction theorems cannot be used. `Counting` (in `RedactorProofs`) replaces them: a set that has 0 and every successor has
every number, for the numbers up to a bound that it lacked would map, one down, into fewer,
which the pigeonhole principle of `FiniteSetTheorems` excludes. With it a recursive function
is shown to exist and to satisfy its equations (`KeptUnfolds`, `AggregatedUnfolds`,
`FlattenUnfolds`, `ConsumeUnfolds`, `FieldsUnfold`, `NamedUnfold`), and what its n-th value knows is proved for every n
(`KeptPicks`, `Summed`), or for every text of n characters (`ConsumeTyped`, `Hides`, `Split`).
This is why `Kept`, `composeHTTPFields`, `ComposeNamed` and `Aggregated` are recursive
functions where `SelectSeq` and `FoldLeft` would do.

The store's, caches' and secrets' named assumptions ask no more than the code gives: bounds
are natural numbers, a value that stands for absence is not among the values, a request
asks at least one provider, language servers are providers, and a scope's candidates are
a sequence of stores. Those of trust and fan-out ask that the working directory is a path of
named components, that no provider is defined twice, and that answers are sequences. That of the redactor asks
that the mask is not in the alphabet and that secrets are non-empty texts over it
(`ProtectSecrets` drops the empty one).

Only model-checked:

- all liveness properties (`ShutdownCompletes`, `RetiredIsClosed`, `EveryRequestAnswered`,
  `CloseReaps`, `CanceledClientReturns`, `CancelReachesOperation`): TLAPS proves neither
  `ENABLED` nor liveness under fairness.

Every invariant that a passing run checks is stated by a theorem.

`RECURSIVE` operators are out of the prover's reach too; no module has one
(`ConfigCompose.Nodes` has a tree's nodes level by level, and `Contents` nest no deeper).

## 6. Where the code and its documentation disagree

- **A refresh can undo a logout** (`oauth_refresh`). A save refused with `ErrStale`
  returns an empty record, which the runtime keeps (`oauth.go:290`). The next refresh
  of the same session saves without a generation, which creates the record anew.
- **Shutdown kills language servers before the handshake** (`lsp_shutdown`).
  `daemon.close` cancels the context the child was started under (`daemon.go:546`)
  before it closes sessions; `docs/plans/lsp-plan.md:151` promises the
  shutdown/exit sequence. `RetiredInOrder` shows that reload and retirement keep it.

- **Trust is not recursive for short names** (`trust_recursive`). `within` asks for more
  than two bytes of relative path (`discovery.go:474`), so `/work/ab` is not covered by a
  trusted `/work`; `docs/configuration.md:74` says that trust is recursive.
- **A failed write is renamed over the file it should leave alone** (`trust_atomic`,
  `store_atomic`). The error of the temporary file's chmod and write is a variable of the
  `if` statement alone (`discovery.go:295`, `oauthstore/store.go:534`). The command
  reports success; the trust file, or the credential, is unreadable afterwards.
  `docs/plans/discovery-plan.md:79` and `docs/plans/oauth-plan.md:120` promise atomic
  replacement. `AcknowledgedStands` holds as long as the list can be read, and
  `ImplementsAtomicStore` because an unreadable record fails as any read may.

Four observations have no run of their own. A document whose `didOpen` failed, because
its client left at that moment, stays recorded as open: `AsksOnSnapshot` names it as its
only exception (`lost`), and does not hold without it. A request with an older snapshot of
the secrets that finishes late withdraws the session of the newer one
(`rememberSecretPools`), and a request that fails to reuse a session forgets what another
has remembered since; both cost a new session and serve nothing wrong
(`ServedAsCaptured`). Of two secrets of which one begins the other, the redactor shows the
rest of the longer one when the text is cut after the shorter; `SecretsWithheld` asks for
independence of the cutting only of secrets none of which begins another. And a canceled
authorization leaves its listener open: `docs/plans/oauth-plan.md:104` says that
cancellation closes it, but a flow that ends only forgets its channels (`oauth.go:340`), and
the server is closed when the session could not connect or is retired. The tab of the
canceled flow is answered until then, with a conflict, or, while a later flow of the session
waits, as if it were that flow's (`FlowsKeptApart` allows an earlier `tab`); the SDK then
refuses a state it does not know.

## 7. What is not modelled

*Parts.* One-shot MCP calls (one sequential session; what is left of them is the
projection of arguments onto a JSON schema), templates (string scanners;
`ConfigCompose` takes an expansion for given), command line, help, completion and
rendering, the walk over JSON documents in `json_redaction.go`, entry point and build
information. They keep no state and depend on no order.

*Detail of modelled parts.* Well-formedness of references, keys, URLs and JSON text is a
property of a value, not its characters. `LspSession` leaves out `rejectingClient`'s note
of refused server requests, everything about answers, and the UTF-16 position
conversion. `LspFanout` leaves out the sorting and paging of locations. `OAuthCredential`
has the callback server as one step (`OAuthCallback` has it in full), the store as an
atomic register (`CredentialStore`), and no record left unreadable by a failed write.
`DaemonPool` has neither the withdrawals of `rememberSecretPools` nor the several leases
of one language-server request; `SecretReuse` has both, over the abstract pool. A pipe
and a socket take every frame that is written. The file system around an invocation does
not change while it runs, except for the trust file and the secret stores.

*External.* age, the keyring, the JSON-RPC and MCP libraries, the OAuth exchange in the
SDK, browsers, the servers, and the kernel's files and locks, which are modelled as the
code uses them.

## 8. Plan

Done: every part above with concurrency, failure or a composition rule, and the safety of
all that runs concurrently or fails between two steps. What is left, in order of
importance:

1. `LspSession`: a theorem that the extent replaced by an incremental change is the
   server's, stated for any text (`Mirror` has it for the copies of one session).
2. Action properties of the pool that follow from `IInv`: an instance once withdrawn is
   never offered again, a generation never decreases.
