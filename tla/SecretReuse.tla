----------------------------- MODULE SecretReuse -----------------------------
(* What a daemon request runs with (src/internal/cli/daemon.go, execute and  *)
(* executeLSP up to the lease): the configuration cached for its generation, *)
(* the age secrets of the store snapshot it captured, and a retained session *)
(* it may reuse without decrypting anything, when the snapshot is the one    *)
(* that session's secrets came from.  Files change under the daemon all the  *)
(* time, reloads withdraw everything, and requests overtake each other       *)
(* between any two critical sections of d.mu.                                *)
(*                                                                           *)
(* The sessions are SessionLease's, which DaemonPool implements.  Left to    *)
(* DaemonPool: shutdown, which refuses a request where a reload does, and    *)
(* the closing of withdrawn sessions, of which a request sees nothing.       *)
EXTENDS Naturals, FiniteSets

CONSTANTS Requests, Providers,
          Asks,           \* the sets of providers a request may ask for
          LSPs,           \* the providers that are language servers
          Versions,       \* contents of the configuration files, in time order
          ExecutionOf,    \* ExecutionOf[v]: what v says of these providers
          Snapshots,      \* contents of the secret stores, in time order
          SecretsOf,      \* SecretsOf[s]: the secrets' values in snapshot s
          MaxGeneration,  \* bound: reloads considered
          None

(* What the constants must satisfy. *)
ReuseAssumption ==
  /\ Asks \subseteq (SUBSET Providers) \ {{}} /\ LSPs \subseteq Providers
  /\ Versions \subseteq Nat /\ Snapshots \subseteq Nat /\ MaxGeneration \in Nat
  /\ 1 \in Versions /\ 1 \in Snapshots /\ None \notin Versions

VARIABLES
  session, holders, stopping,  \* the leased sessions (SessionLease)
  generation,  \* d.generation
  configs,     \* d.configs: the configuration version cached per generation
  pools,       \* d.pools: an entry is named by the request that created it
  secretCache, \* d.secretCache: snapshot and pool keys per metadata key
  starting,    \* entries whose startInstance goroutine is under way
  file, store, \* the configuration files and secret stores as they are now
  floor,       \* history: floor[g]: the files' version when g began
  pc, gen,     \* where a request's handler is; the generation it captured
  wants,       \* the providers it asks for: one MCP server, or language servers
  mine,        \* the version its client loaded, until it was compared
  cached,      \* the version the daemon loaded or found for it
  snap,        \* the snapshot it captured
  at,          \* at[w]: the entry that w = <<request, provider>> waits on or leases
  work         \* work[w]: where w's own goroutine is, once there is one

poolVars == <<session, holders, stopping>>
daemonVars == <<generation, configs, pools, secretCache, starting>>
fileVars == <<file, store, floor>>
requestVars == <<pc, gen, wants, mine, cached, snap, at, work>>
vars == <<poolVars, daemonVars, fileVars, requestVars>>

Entries == Requests \X Providers
Workers == Entries
WorkersOf(r) == {r} \X wants[r]
Executions == {ExecutionOf[v] : v \in Versions}
Values == {SecretsOf[s] : s \in Snapshots}
Generations == 0..MaxGeneration

Pool == INSTANCE SessionLease WITH Sessions <- Entries, Clients <- Workers

(* mcpPoolKey, lspPoolKey: provider, execution, generation and the identity  *)
(* of the resolved secrets.                                                  *)
PoolKeys == [provider : Providers, gen : Generations, execution : Executions,
             value : Values]
PoolKey(w, r) == [provider |-> w[2], gen |-> gen[r],
                  execution |-> ExecutionOf[cached[r]], value |-> SecretsOf[snap[r]]]

(* serverSecretCacheKey, lspSecretCacheKey: everything but the secrets.      *)
MetadataKeys == [wants : Asks, gen : Generations,
                 execution : Executions]
MetadataKey(r) == [wants |-> wants[r], gen |-> gen[r],
                   execution |-> ExecutionOf[cached[r]]]

IsLSP(r) == wants[r] \subseteq LSPs
Pooled == {pools[k] : k \in PoolKeys} \ {None}

Init ==
  /\ Pool!Init
  /\ generation = 0 /\ configs = [g \in Generations |-> None]
  /\ pools = [k \in PoolKeys |-> None] /\ secretCache = [m \in MetadataKeys |-> None]
  /\ starting = {}
  /\ file = 1 /\ store = 1 /\ floor = [g \in Generations |-> 1]
  /\ pc = [r \in Requests |-> "new"] /\ gen = [r \in Requests |-> 0]
  /\ wants = [r \in Requests |-> {}] /\ mine = [r \in Requests |-> 1] /\ cached = [r \in Requests |-> 1]
  /\ snap = [r \in Requests |-> 1]
  /\ at = [w \in Workers |-> None] /\ work = [w \in Workers |-> "none"]

-----------------------------------------------------------------------------
(* The files change: an edit of the configuration, an update of a store.     *)
Edit ==
  /\ file + 1 \in Versions /\ file' = file + 1
  /\ UNCHANGED <<poolVars, daemonVars, store, floor, requestVars>>

UpdateSecrets ==
  /\ store + 1 \in Snapshots /\ store' = store + 1
  /\ UNCHANGED <<poolVars, daemonVars, file, floor, requestVars>>

Withdraw(entries) == Pool!Withdraw({e \in entries : session[e] = "offered"})

(* Mutant: a reload that clears the caches and stays in its generation.      *)
ReloadInPlace ==
  /\ floor' = [floor EXCEPT ![generation] = file]
  /\ configs' = [g \in Generations |-> None]
  /\ pools' = [k \in PoolKeys |-> None]
  /\ secretCache' = [m \in MetadataKeys |-> None]
  /\ Withdraw(Pooled)
  /\ UNCHANGED <<generation, starting, file, store, requestVars>>

(* executeAdmin "reload".                                                    *)
Reload ==
  /\ generation < MaxGeneration
  /\ generation' = generation + 1
  /\ floor' = [floor EXCEPT ![generation + 1] = file]
  /\ configs' = [g \in Generations |-> None]
  /\ pools' = [k \in PoolKeys |-> None]
  /\ secretCache' = [m \in MetadataKeys |-> None]
  /\ Withdraw(Pooled)
  /\ UNCHANGED <<starting, file, store, requestVars>>

-----------------------------------------------------------------------------
(* startInstance: it publishes the session, unless the entry was withdrawn,  *)
(* the generation changed, or the upstream does not start.                   *)
KeyOf(e) == CHOOSE k \in PoolKeys : pools[k] = e

Publish(e) ==
  /\ e \in starting /\ e \in Pooled
  /\ starting' = starting \ {e}
  /\ Pool!Offer(e)
  /\ UNCHANGED <<generation, configs, pools, secretCache, fileVars, requestVars>>

PublishError(e) ==
  /\ e \in starting
  /\ starting' = starting \ {e}
  /\ pools' = IF e \in Pooled THEN [pools EXCEPT ![KeyOf(e)] = None] ELSE pools
  /\ UNCHANGED <<poolVars, generation, configs, secretCache, fileVars, requestVars>>

-----------------------------------------------------------------------------
(* The handler, up to its workers.                                           *)
Goto(r, from, to) == pc[r] = from /\ pc' = [pc EXCEPT ![r] = to]

(* The client has loaded the configuration at some time; execute captures    *)
(* the generation.                                                           *)
Arrive(r) ==
  /\ Goto(r, "new", "lookup")
  /\ gen' = [gen EXCEPT ![r] = generation]
  /\ \E W \in Asks : wants' = [wants EXCEPT ![r] = W]
  /\ \E v \in Versions : v <= file /\ mine' = [mine EXCEPT ![r] = v]
  /\ UNCHANGED <<poolVars, daemonVars, fileVars, cached, snap, at, work>>

FindConfig(r) ==
  /\ configs[gen[r]] # None
  /\ Goto(r, "lookup", "admit")
  /\ cached' = [cached EXCEPT ![r] = configs[gen[r]]]
  /\ UNCHANGED <<poolVars, daemonVars, fileVars, gen, wants, mine, snap, at, work>>

(* loadContextConfig runs without the lock.                                  *)
LoadConfig(r) ==
  /\ configs[gen[r]] = None
  /\ Goto(r, "lookup", "keep")
  /\ cached' = [cached EXCEPT ![r] = file]
  /\ UNCHANGED <<poolVars, daemonVars, fileVars, gen, wants, mine, snap, at, work>>

Retired(r) == generation # gen[r]

KeepRefused(r) ==
  /\ Retired(r) /\ Goto(r, "keep", "done")
  /\ UNCHANGED <<poolVars, daemonVars, fileVars, gen, wants, mine, cached, snap, at, work>>

(* Mutant: the later of two loaders wins.                                    *)
KeepLatest(r) ==
  /\ ~Retired(r) /\ Goto(r, "keep", "admit")
  /\ configs' = [configs EXCEPT ![gen[r]] = cached[r]]
  /\ UNCHANGED <<poolVars, generation, pools, secretCache, starting, fileVars,
                 gen, wants, mine, cached, snap, at, work>>

(* Of concurrent loaders the first decides what the generation runs with.    *)
KeepConfig(r) ==
  /\ ~Retired(r) /\ Goto(r, "keep", "admit")
  /\ LET kept == IF configs[gen[r]] = None THEN cached[r] ELSE configs[gen[r]] IN
       /\ configs' = [configs EXCEPT ![gen[r]] = kept]
       /\ cached' = [cached EXCEPT ![r] = kept]
  /\ UNCHANGED <<poolVars, generation, pools, secretCache, starting, fileVars,
                 gen, wants, mine, snap, at, work>>

(* A client whose configuration differs is served, with a warning, if the    *)
(* selected providers are executed alike; otherwise config_mismatch.  Then   *)
(* captureAgeStores, and an empty-handed start of the reuse loop.  The       *)
(* fingerprints are compared once: mine is forgotten.                        *)
Admissible(r) == ExecutionOf[mine[r]] = ExecutionOf[cached[r]]

Mismatch(r) ==
  /\ ~Admissible(r) /\ Goto(r, "admit", "done")
  /\ UNCHANGED <<poolVars, daemonVars, fileVars, gen, wants, mine, cached, snap, at, work>>

Capture(r) ==
  /\ Admissible(r) /\ Goto(r, "admit", "reuse")
  /\ snap' = [snap EXCEPT ![r] = store]
  /\ mine' = [mine EXCEPT ![r] = cached[r]]
  /\ UNCHANGED <<poolVars, daemonVars, fileVars, gen, wants, cached, at, work>>

-----------------------------------------------------------------------------
(* cachedInstance, for one provider after the other.                         *)
Leasing(w) == at[w] # None /\ w \in holders[at[w]]

(* Mutant: whatever was remembered for the same execution is reused.         *)
RememberedEver(w, r) ==
  LET m == secretCache[MetadataKey(r)] IN
  IF m = None THEN None ELSE pools[m.keys[w[2]]]

(* The entry remembered for the very snapshot this request captured.         *)
Remembered(w, r) ==
  LET m == secretCache[MetadataKey(r)] IN
  IF m = None \/ m.snapshot # snap[r] THEN None ELSE pools[m.keys[w[2]]]

Reuse(w) == LET r == w[1] IN
  /\ pc[r] = "reuse" /\ w \in WorkersOf(r) /\ at[w] = None
  /\ \A v \in WorkersOf(r) : at[v] # None => Leasing(v)
  /\ Remembered(w, r) # None
  /\ at' = [at EXCEPT ![w] = Remembered(w, r)]
  /\ UNCHANGED <<poolVars, daemonVars, fileVars, pc, gen, wants, mine, cached, snap, work>>

NoReuse(w) == LET r == w[1] IN
  /\ pc[r] = "reuse" /\ w \in WorkersOf(r) /\ at[w] = None /\ Remembered(w, r) = None
  /\ \A v \in WorkersOf(r) : at[v] # None => Leasing(v)
  /\ Goto(r, "reuse", "drop")
  /\ UNCHANGED <<poolVars, daemonVars, fileVars, gen, wants, mine, cached, snap, at, work>>

(* waitForInstance.                                                          *)
Serves(w) == session[at[w]] = "offered" /\ ~Retired(w[1])

ReuseLeased(w) ==
  /\ pc[w[1]] = "reuse" /\ at[w] # None /\ ~Leasing(w) /\ Serves(w)
  /\ Pool!Lend(at[w], w)
  /\ UNCHANGED <<daemonVars, fileVars, requestVars>>

(* The session failed or was withdrawn, or the client left: what is          *)
(* remembered under the key is forgotten, even if it is not what was found.  *)
ReuseFailed(w) == LET r == w[1] IN
  /\ at[w] # None /\ ~Leasing(w)
  /\ Goto(r, "reuse", "drop")
  /\ at' = [at EXCEPT ![w] = None]
  /\ secretCache' = [secretCache EXCEPT ![MetadataKey(r)] = None]
  /\ UNCHANGED <<poolVars, generation, configs, pools, starting, fileVars,
                 gen, wants, mine, cached, snap, work>>

(* Everything is reused, or nothing: the leases so far are given back, and   *)
(* the secrets of the captured snapshot are resolved.                        *)
GiveBackReused(w) ==
  /\ pc[w[1]] = "drop" /\ Leasing(w)
  /\ Pool!GiveBack(at[w], w)
  /\ at' = [at EXCEPT ![w] = None]
  /\ UNCHANGED <<daemonVars, fileVars, pc, gen, wants, mine, cached, snap, work>>

Spawn(r, from, state) ==
  /\ Goto(r, from, "work")
  /\ work' = [w \in Workers |-> IF w \in WorkersOf(r) THEN state ELSE work[w]]
  /\ UNCHANGED <<poolVars, daemonVars, fileVars, gen, wants, mine, cached, snap, at>>

AllReused(r) ==
  /\ \A w \in WorkersOf(r) : Leasing(w)
  /\ Spawn(r, "reuse", "reused")

Resolve(r) ==
  /\ \A w \in WorkersOf(r) : at[w] = None
  /\ Spawn(r, "drop", "acquire")

ResolveFails(r) ==
  /\ \A w \in WorkersOf(r) : at[w] = None
  /\ Goto(r, "drop", "done")
  /\ UNCHANGED <<poolVars, daemonVars, fileVars, gen, wants, mine, cached, snap, at, work>>

-----------------------------------------------------------------------------
(* One worker per provider: acquire or acquireLSP, the operation, release.   *)
Turn(w, from, to) == work[w] = from /\ work' = [work EXCEPT ![w] = to]

Acquire(w) == LET r == w[1]  k == PoolKey(w, r) IN
  /\ ~Retired(r) /\ Turn(w, "acquire", "wait")
  /\ IF pools[k] # None
     THEN at' = [at EXCEPT ![w] = pools[k]] /\ UNCHANGED <<pools, starting>>
     ELSE /\ at' = [at EXCEPT ![w] = w]
          /\ pools' = [pools EXCEPT ![k] = w] /\ starting' = starting \cup {w}
  /\ UNCHANGED <<poolVars, generation, configs, secretCache, fileVars,
                 pc, gen, wants, mine, cached, snap>>

AcquireRefused(w) ==
  /\ Turn(w, "acquire", "failed") /\ Retired(w[1])
  /\ UNCHANGED <<poolVars, daemonVars, fileVars, pc, gen, wants, mine, cached, snap, at>>

Lease(w) ==
  /\ Turn(w, "wait", "leased") /\ Serves(w)
  /\ Pool!Lend(at[w], w)
  /\ UNCHANGED <<daemonVars, fileVars, pc, gen, wants, mine, cached, snap, at>>

(* The startup failed, the entry was withdrawn, or the client left.          *)
LeaseRefused(w) ==
  /\ Turn(w, "wait", "failed")
  /\ at' = [at EXCEPT ![w] = None]
  /\ UNCHANGED <<poolVars, daemonVars, fileVars, pc, gen, wants, mine, cached, snap>>

(* The operation ends.  An MCP request remembers its pool before it.         *)
Release(w) ==
  /\ \/ Turn(w, "leased", "acquired") /\ IsLSP(w[1])
     \/ Turn(w, "remembered", "acquired")
     \/ Turn(w, "reused", "kept")
  /\ Pool!GiveBack(at[w], w)
  /\ at' = [at EXCEPT ![w] = None]
  /\ UNCHANGED <<daemonVars, fileVars, pc, gen, wants, mine, cached, snap>>

-----------------------------------------------------------------------------
(* rememberSecretPools: what the same metadata led to before is withdrawn,   *)
(* whichever of the two snapshots is the newer one.                          *)
Displaced(r) ==
  LET m == secretCache[MetadataKey(r)] IN
  IF m = None THEN {}
  ELSE {pools[m.keys[w[2]]] : w \in {v \in WorkersOf(r) : m.keys[v[2]] # PoolKey(v, r)}}
       \ {None}

Remember(r) ==
  /\ secretCache' = [secretCache EXCEPT ![MetadataKey(r)] =
       [snapshot |-> snap[r],
        keys |-> [p \in wants[r] |-> PoolKey(<<r, p>>, r)]]]
  /\ pools' = [k \in PoolKeys |-> IF pools[k] \in Displaced(r) THEN None ELSE pools[k]]
  /\ Withdraw(Displaced(r))
  /\ UNCHANGED <<generation, configs, starting, fileVars, gen, wants, mine, cached, snap, at>>


RememberMCP(r) ==
  /\ ~IsLSP(r) /\ pc[r] = "work"
  /\ \E w \in WorkersOf(r) : Turn(w, "leased", "remembered")
  /\ Remember(r) /\ UNCHANGED pc

(* A language-server request remembers after the operations, and only if     *)
(* every provider could be acquired.                                         *)
RememberLSP(r) ==
  /\ IsLSP(r) /\ \A w \in WorkersOf(r) : work[w] = "acquired"
  /\ Goto(r, "work", "done")
  /\ Remember(r) /\ UNCHANGED work

Answer(r) ==
  /\ \A w \in WorkersOf(r) : work[w] \in {"acquired", "kept", "failed"}
  /\ ~IsLSP(r) \/ \E w \in WorkersOf(r) : work[w] # "acquired"
  /\ Goto(r, "work", "done")
  /\ UNCHANGED <<poolVars, daemonVars, fileVars, gen, wants, mine, cached, snap, at, work>>

Next ==
  \/ Edit \/ UpdateSecrets \/ Reload
  \/ \E e \in Entries : Publish(e) \/ PublishError(e)
  \/ \E r \in Requests :
       \/ Arrive(r) \/ FindConfig(r) \/ LoadConfig(r) \/ KeepRefused(r) \/ KeepConfig(r)
       \/ Mismatch(r) \/ Capture(r) \/ AllReused(r) \/ Resolve(r) \/ ResolveFails(r)
       \/ RememberMCP(r) \/ RememberLSP(r) \/ Answer(r)
  \/ \E w \in Workers :
       \/ Reuse(w) \/ NoReuse(w) \/ ReuseLeased(w) \/ ReuseFailed(w) \/ GiveBackReused(w)
       \/ Acquire(w) \/ AcquireRefused(w) \/ Lease(w) \/ LeaseRefused(w) \/ Release(w)

Spec == Init /\ [][Next]_vars

-----------------------------------------------------------------------------
(* The key an entry was created under: its creator's, which cannot change    *)
(* any more.                                                                 *)
CreatedUnder(e) == PoolKey(e, e[1])

(* Whether a session is new, shared or reused, it runs with the execution    *)
(* of the configuration the request was admitted with, and with the secret   *)
(* values of the snapshot the request itself captured.                       *)
ServedAsCaptured == \A w \in Workers :
  Leasing(w) => CreatedUnder(at[w]) = PoolKey(w, w[1])

(* All requests of one generation run with one configuration, however their  *)
(* loads and the edits of the files interleave; and a reload is final: who   *)
(* arrives after it does not run with what the files held before it.         *)
Admitted(r) == pc[r] \in {"admit", "reuse", "drop", "work"}

OneConfiguration == \A q, r \in Requests :
  Admitted(q) /\ Admitted(r) /\ gen[q] = gen[r] => cached[q] = cached[r]

FreshAfterReload == \A r \in Requests : Admitted(r) => cached[r] >= floor[gen[r]]
=============================================================================
