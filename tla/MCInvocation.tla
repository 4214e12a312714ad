---------------------------- MODULE MCInvocation ----------------------------
(* The path of one request, part by part: the workspaces it may read from,   *)
(* the configuration composed of what it reads, the secrets and sessions it  *)
(* is served with, the browser it may wait for, the language servers it fans *)
(* out to, the text it shows.                                                *)
(* The parts share no state, so a behaviour is one of one part: the scene    *)
(* chosen in its first state, the variables of the others resting.           *)
EXTENDS MCConfig, FiniteSetsExt, TLC

CONSTANTS Scenes, None

-----------------------------------------------------------------------------
(* Two administrators, and a directory whose name has two bytes.  Around it   *)
(* either what each directory may have for configuration, with or without a   *)
(* root declared by the nearest file, a Git worktree elsewhere and the user's *)
(* own configuration; or every choice of scope, transport, secrets and files  *)
(* given.                                                                     *)
CONSTANTS Admins, Cwd, NameLength, Worlds, MaxCommands, Torn

MCCwd == <<"work", "src", "ab">>
MCNameLength == [work |-> 4, src |-> 3, ab |-> 2]

Work == <<"work">>
Src == <<"work", "src">>
Home == <<"home", "wirecmd">>
FileOf(dir) == dir \o <<".wirecmd">>
Directories == {<<>>, Work, Src, MCCwd}
RootsDeclared(near, given) ==
    [f \in {FileOf(d) : d \in Directories} \cup {Home, Work, Src} |->
        CASE f = FileOf(MCCwd) -> near
          [] f \in {FileOf(Work), Home} -> <<"elsewhere">>
          [] f = Src -> given
          [] OTHER -> None]

Placements ==
    {[metadata |-> [d \in Directories |-> CASE d = <<>> -> "none" [] d = Work -> outer
                                            [] d = Src -> middle [] OTHER -> inner[1]],
      global |-> inner[2] = None, given |-> <<>>, roots |-> RootsDeclared(inner[2], None),
      git |-> IF inner[2] = None THEN <<"other">> ELSE None,
      scope |-> "workspace", local |-> TRUE, age |-> TRUE, globalDirectory |-> TRUE] :
        outer \in {"config", "unsafe"}, middle \in {"empty", "config"},
        inner \in {<<"none", None>>, <<"irregular", None>>,
                   <<"config", None>>, <<"config", Src>>}}

Selections ==
    {[metadata |-> [d \in Directories |-> IF d = Src THEN "config" ELSE "none"],
      global |-> TRUE, given |-> files, git |-> Src,
      roots |-> RootsDeclared(None, IF age THEN Work ELSE None),
      scope |-> scope[1], local |-> scope[2], age |-> age, globalDirectory |-> scope[2]] :
        files \in {<<>>, <<Work, Src>>}, age \in BOOLEAN,
        scope \in {<<"workspace", TRUE>>, <<"global", TRUE>>, <<"global", FALSE>>}}
    \cup
    {[metadata |-> [d \in Directories |-> "none"], global |-> global, given |-> <<>>,
      roots |-> RootsDeclared(None, None), git |-> None,
      scope |-> "global", local |-> TRUE, age |-> TRUE, globalDirectory |-> FALSE] :
        global \in BOOLEAN}

MCWorlds == Placements \cup Selections

VARIABLES trust, holder, commands, admin, outcome, contested, world, stage, seen, context, listed, request
Trust == INSTANCE WorkspaceTrust

-----------------------------------------------------------------------------
(* Three files out of MCConfig's.  Two requests, each for the MCP server c or *)
(* for the language servers a and b; the edit of the configuration changes    *)
(* what is executed, the update of the stores the secrets' values.            *)
CONSTANTS Documents, MaxSources, LowerCase, Destinations, AbsolutePaths, ReservedHeaders,
          Contexts, Expansion
VARIABLES phase, read, next, config
CONSTANTS Requests, Providers, Asks, LSPs, Versions, ExecutionOf, Snapshots, SecretsOf,
          MaxGeneration, a, b, c
VARIABLES session, holders, stopping, generation, configs, pools, secretCache, starting,
          file, store, floor, pc, gen, wants, mine, cached, snap, at, work
Configuring == INSTANCE ConfigurationProofs

MCAsks == {{a, b}, {c}}
MCExecutionOf == <<1, 2>>
MCSecretsOf == <<1, 2>>

-----------------------------------------------------------------------------
(* Two authorizations, three requests of browsers.                            *)
CONSTANTS Callbacks, MaxFlows
VARIABLES flow, flows, result, failure, server, tabs, callback, returned
Callback == INSTANCE OAuthCallback

-----------------------------------------------------------------------------
(* Two stores, the global one a candidate of both scopes, two encrypted       *)
(* secrets and two names of the environment, of which one is set.             *)
CONSTANTS StoresOf, AgeKeys, Environment, EnvNames, Namings, ContentOf, Unreadable,
          Absent, MaxUpdates
VARIABLES disk, updates, alone, asked, todo, step, captured, documents, runs, found,
          tried, answer
Secrets == INSTANCE SecretResolve
             WITH Candidates <- StoresOf, Selections <- Namings, direct <- alone

MCStoresOf == [workspace |-> <<"near", "home">>, global |-> <<"home">>]
MCEnvironment == "E" :> "e"
MCNamings == {{}, {"k1"}, {"k2"}, {"k1", "k2"}, {"k1", "E"}, {"k2", "F"}}
MCContentOf == <<"k1" :> "x", "k1" :> "y" @@ "k2" :> "z", Unreadable>>

-----------------------------------------------------------------------------
(* Three language servers, one of them global, and an answer with a secret.   *)
CONSTANTS Matches, ScopeOf, Languages, Answers, Protected, p, q, s
VARIABLES direct, chosen, at_match, scopes, instances, leases, worker, results, said,
          canceled, reply
Fanout == INSTANCE LspFanout WITH Providers <- Matches, pc <- at_match, work <- worker

MCMatches == <<p, q, s>>
MCScopeOf == [x \in {p, q, s} |-> IF x = q THEN "global" ELSE "workspace"]
MCAnswers == {<<>>, <<"x">>, <<"x", "secret">>}

-----------------------------------------------------------------------------
(* One or two secrets of up to three of two characters, in five characters    *)
(* of text written one or two at a time.                                      *)
CONSTANTS Alphabet, Mask, SecretSets, Chunks, MaxInput
VARIABLES secrets, pending, output, written, flushed
Redacting == INSTANCE RedactorProofs

Texts(n) == UNION {[1..k -> Alphabet] : k \in 1..n}
MCSecretSets == UNION {kSubset(k, Texts(3)) : k \in 1..2}
MCChunks == Texts(2)

-----------------------------------------------------------------------------
ASSUME ConstantsAssumption ==
    /\ Trust!TrustAssumption /\ Configuring!ComposeAssumption /\ Configuring!Reuse!ReuseAssumption
    /\ Callback!CallbackAssumption /\ Secrets!SecretsAssumption
    /\ Fanout!ProvidersAssumption /\ Redacting!MaskAssumption

VARIABLE scene

TrustVars == <<trust, holder, commands, admin, outcome, contested, world,
               stage, seen, context, listed, request>>
ComposingVars == <<phase, read, next, config>>
ReuseVars == <<session, holders, stopping, generation, configs, pools,
               secretCache, starting, file, store, floor, pc, gen, wants,
               mine, cached, snap, at, work>>
CallbackVars == <<flow, flows, result, failure, server, tabs, callback,
                  returned>>
SecretsVars == <<disk, updates, alone, asked, todo, step, captured, documents,
                   runs, found, tried, answer>>
FanoutVars == <<direct, chosen, at_match, scopes, instances, leases, worker,
                results, said, canceled, reply>>
RedactingVars == <<secrets, pending, output, written, flushed>>
vars == <<scene, TrustVars, ComposingVars, ReuseVars, CallbackVars,
          SecretsVars, FanoutVars, RedactingVars>>

TrustRests ==
    /\ trust = None /\ holder = None /\ commands = None /\ admin = None
    /\ outcome = None /\ contested = None /\ world = None /\ stage = None /\ seen = None
    /\ context = None /\ listed = None /\ request = None
ComposingRests ==
    /\ phase = None /\ read = None /\ next = None /\ config = None
ReuseRests ==
    /\ session = None /\ holders = None /\ stopping = None
    /\ generation = None /\ configs = None /\ pools = None
    /\ secretCache = None /\ starting = None /\ file = None /\ store = None
    /\ floor = None /\ pc = None /\ gen = None /\ wants = None /\ mine = None
    /\ cached = None /\ snap = None /\ at = None /\ work = None
CallbackRests ==
    /\ flow = None /\ flows = None /\ result = None /\ failure = None
    /\ server = None /\ tabs = None /\ callback = None /\ returned = None
SecretsRests ==
    /\ disk = None /\ updates = None /\ alone = None /\ asked = None
    /\ todo = None /\ step = None /\ captured = None /\ documents = None
    /\ runs = None /\ found = None /\ tried = None /\ answer = None
FanoutRests ==
    /\ direct = None /\ chosen = None /\ at_match = None /\ scopes = None
    /\ instances = None /\ leases = None /\ worker = None /\ results = None
    /\ said = None /\ canceled = None /\ reply = None
RedactingRests ==
    /\ secrets = None /\ pending = None /\ output = None /\ written = None
    /\ flushed = None

Init ==
    /\ scene \in Scenes
    /\ IF scene = "trust" THEN Trust!Init ELSE TrustRests
    /\ IF scene = "config" THEN Configuring!Init ELSE ComposingRests
    /\ IF scene = "reuse" THEN Configuring!Reuse!Init ELSE ReuseRests
    /\ IF scene = "callback" THEN Callback!Init ELSE CallbackRests
    /\ IF scene = "secrets" THEN Secrets!Init ELSE SecretsRests
    /\ IF scene = "fanout" THEN Fanout!Init ELSE FanoutRests
    /\ IF scene = "redaction" THEN Redacting!Init ELSE RedactingRests

Next ==
    \/ /\ scene = "trust" /\ Trust!Next
       /\ UNCHANGED <<scene, ComposingVars, ReuseVars, CallbackVars,
                      SecretsVars, FanoutVars, RedactingVars>>
    \/ /\ scene = "config" /\ Configuring!Next
       /\ UNCHANGED <<scene, TrustVars, ReuseVars, CallbackVars,
                      SecretsVars, FanoutVars, RedactingVars>>
    \/ /\ scene = "reuse" /\ Configuring!Reuse!Next
       /\ UNCHANGED <<scene, TrustVars, ComposingVars, CallbackVars,
                      SecretsVars, FanoutVars, RedactingVars>>
    \/ /\ scene = "callback" /\ Callback!Next
       /\ UNCHANGED <<scene, TrustVars, ComposingVars, ReuseVars,
                      SecretsVars, FanoutVars, RedactingVars>>
    \/ /\ scene = "secrets" /\ Secrets!Next
       /\ UNCHANGED <<scene, TrustVars, ComposingVars, ReuseVars,
                      CallbackVars, FanoutVars, RedactingVars>>
    \/ /\ scene = "fanout" /\ Fanout!Next
       /\ UNCHANGED <<scene, TrustVars, ComposingVars, ReuseVars,
                      CallbackVars, SecretsVars, RedactingVars>>
    \/ /\ scene = "redaction" /\ Redacting!Next
       /\ UNCHANGED <<scene, TrustVars, ComposingVars, ReuseVars,
                      CallbackVars, SecretsVars, FanoutVars>>

Spec == Init /\ [][Next]_vars

Interchangeable == {f @@ g : f \in Permutations(Requests), g \in Permutations({a, b})}

-----------------------------------------------------------------------------
(* WorkspaceTrust: what a trust command reported stands until a contrary     *)
(* command on the same directory is begun, unless one overlapped it.         *)
AcknowledgedStands == scene = "trust" => Trust!AcknowledgedStands

(* WorkspaceTrust: only files of trusted directories are read, broad before  *)
(* near, and the daemon accepts what the CLI resolved.                       *)
SourcesTrusted == scene = "trust" => Trust!SourcesTrusted

(* WorkspaceTrust, docs/configuration.md: trust is recursive.                *)
TrustIsRecursive == scene = "trust" => Trust!TrustIsRecursive

(* WorkspaceTrust, docs/plans/discovery-plan.md: trust is written atomically. *)
TrustUpdatesAtomic == scene = "trust" => Trust!TrustUpdatesAtomic

(* ConfigCompose: an accepted configuration is the documented composition of *)
(* its files, and an expanded one holds no template.                         *)
ComposedAsDocumented == scene = "config" => Configuring!ComposedAsDocumented

(* SecretReuse: a leased session runs with the execution and the secrets of  *)
(* the request's own configuration and snapshot.                             *)
ServedAsCaptured == scene = "reuse" => Configuring!Reuse!ServedAsCaptured

(* SecretReuse: a generation runs with one configuration.                    *)
OneConfiguration == scene = "reuse" => Configuring!Reuse!OneConfiguration

(* SecretReuse: after a reload nothing older than it is run with.            *)
FreshAfterReload == scene = "reuse" => Configuring!Reuse!FreshAfterReload

(* OAuthCallback: a flow is ended only by a request that was looked up while *)
(* it was the active one, from its own tab or from an earlier one; a browser *)
(* told that the authorization is complete was heard.                        *)
FlowsKeptApart == scene = "callback" => Callback!FlowsKeptApart

(* SecretResolve: a scope gets every secret it names, as its stores were when  *)
(* they were read for it, or none.                                            *)
ResolvedAsCaptured == scene = "secrets" => Secrets!ResolvedAsCaptured

(* LspFanout: the reply is made of what the servers said, whatever order     *)
(* they said it in, and every lease is given back once.                      *)
AnswerComplete == scene = "fanout" => Fanout!AnswerComplete

(* Redactor: no secret is shown, however the text is cut, and nothing else   *)
(* is lost.                                                                  *)
SecretsWithheld == scene = "redaction" => Redacting!SecretsWithheld
=============================================================================
