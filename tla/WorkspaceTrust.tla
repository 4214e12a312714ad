---------------------------- MODULE WorkspaceTrust ----------------------------
(* Which files one command may read: the trusted workspaces that `config     *)
(* trust' and `config untrust' keep in trust.json (src/internal/discovery),  *)
(* and an invocation that lists them, walks from the nearest one to its      *)
(* directory, resolves its roots (src/internal/cli/context.go, scope.go),    *)
(* lists them again for its secret stores and sends all that to the daemon,  *)
(* which checks it anew (daemon.go).                                         *)
(*                                                                           *)
(* A path is the sequence of its names, symlinks resolved.  A configuration  *)
(* file and a secret store are named by the directory they lie in.           *)
EXTENDS Naturals, SequencesExt, FiniteSetsExt, Filtering

CONSTANTS Admins,       \* processes running trust commands
          Cwd,          \* the invocation's directory
          NameLength,   \* bytes of each name
          Worlds,       \* what the invocation may find around it
          MaxCommands,  \* bound: trust commands begun
          Torn,         \* a trust.json that does not decode
          None

(* What the constants must satisfy. *)
TrustAssumption ==
  /\ Cwd \in Seq(DOMAIN NameLength) /\ Cwd # <<>>
  /\ MaxCommands \in Nat /\ None \notin Admins
  /\ None \notin {"config_discovery_failed", "config_not_found", "workspace_untrusted"}

VARIABLES
  trust,      \* trust.json
  holder,     \* who holds the flock on trust.lock
  commands,   \* trust commands begun
  admin,      \* each admin's update: where it is, its change, its new list
  outcome,    \* history: what the last command on a directory reported
  contested,  \* history: the admins whose command a contrary one overlapped
  world,      \* the file system around Cwd and the options given
  stage,      \* where the invocation is
  seen,       \* the list it resolved its sources from
  context,    \* configContext, then invocationContext
  listed,     \* the list its secret stores come from
  request     \* what it sent

trustVars == <<trust, holder, commands, admin, outcome, contested>>
callVars == <<world, stage, seen, context, listed, request>>
vars == <<trustVars, callVars>>

Dirs == {SubSeq(Cwd, 1, n) : n \in 0..Len(Cwd)}
Metadata(dir) == dir \o <<".wirecmd">>
Global == <<"home", "wirecmd">>

-----------------------------------------------------------------------------
(* Paths.  discovery.within asks for more than two bytes below the root;     *)
(* pathContains, of the CLI and the daemon, does not.                        *)
RelativeLength(root, path) ==
  LET names == SubSeq(path, Len(root) + 1, Len(path))
  IN FoldLeft(LAMBDA sum, name : sum + NameLength[name], 0, names) + Len(names) - 1

pathContains(root, path) == IsPrefix(root, path)
within(root, path) ==
  root = path \/ (IsStrictPrefix(root, path) /\ RelativeLength(root, path) > 2)

Deepest(paths) ==
  IF paths = {} THEN None ELSE CHOOSE p \in paths : \A q \in paths : Len(q) <= Len(p)
nearestTrustedAncestor(path, trusted) == Deepest({r \in trusted : within(r, path)})

-----------------------------------------------------------------------------
(* discovery.update, under the lock: read, change, write, sync, rename.      *)
Idle == [pc |-> "idle", change |-> None, dir |-> <<>>, copy |-> None]

Changed(list, a) ==
  IF admin[a].change = "trust" THEN list \cup {admin[a].dir} ELSE list \ {admin[a].dir}

Goto(a, from, to) == admin[a].pc = from /\ admin' = [admin EXCEPT ![a].pc = to]

Contrary(dir, change) ==
  {a \in Admins : admin[a].pc # "idle" /\ admin[a].dir = dir /\ admin[a].change # change}

Begin(a, change, dir) ==
  /\ admin[a].pc = "idle" /\ commands < MaxCommands
  /\ commands' = commands + 1
  /\ admin' = [admin EXCEPT ![a] = [pc |-> "lock", change |-> change, dir |-> dir, copy |-> None]]
  /\ outcome' = [outcome EXCEPT ![dir] = IF @ = change THEN @ ELSE "open"]
  /\ contested' = IF Contrary(dir, change) = {} THEN contested
                  ELSE contested \cup Contrary(dir, change) \cup {a}
  /\ UNCHANGED <<trust, holder, callVars>>

Lock(a) ==
  /\ holder = None /\ holder' = a
  /\ Goto(a, "lock", "read")
  /\ UNCHANGED <<trust, commands, outcome, contested, callVars>>

(* Mutant: a command does not wait for the lock.                             *)
ReadUnlocked(a) ==
  /\ admin[a].pc \in {"lock", "read"} /\ trust # Torn
  /\ admin' = [admin EXCEPT ![a].pc = "write", ![a].copy = Changed(trust, a)]
  /\ UNCHANGED <<trust, holder, commands, outcome, contested, callVars>>

ReadState(a) ==
  /\ admin[a].pc = "read" /\ trust # Torn
  /\ admin' = [admin EXCEPT ![a].pc = "write", ![a].copy = Changed(trust, a)]
  /\ UNCHANGED <<trust, holder, commands, outcome, contested, callVars>>

(* The temporary file.  An error of its Chmod or Write stays in the scope of *)
(* the if statement: what was written until then goes on as the new list.    *)
WriteTemp(a) ==
  /\ Goto(a, "write", "rename")
  /\ UNCHANGED <<trust, holder, commands, outcome, contested, callVars>>

WriteFails(a) ==
  /\ admin[a].pc = "write"
  /\ admin' = [admin EXCEPT ![a].pc = "rename", ![a].copy = Torn]
  /\ UNCHANGED <<trust, holder, commands, outcome, contested, callVars>>

Rename(a) ==
  /\ Goto(a, "rename", "unlock")
  /\ trust' = admin[a].copy
  /\ UNCHANGED <<holder, commands, outcome, contested, callVars>>

(* The deferred unlock; the command reports after it.                        *)
Release(a) == holder' = IF holder = a THEN None ELSE holder

Unlock(a) ==
  /\ Goto(a, "unlock", "report") /\ Release(a)
  /\ UNCHANGED <<trust, commands, outcome, contested, callVars>>

Report(a) ==
  /\ admin[a].pc = "report"
  /\ admin' = [admin EXCEPT ![a] = Idle] /\ contested' = contested \ {a}
  /\ outcome' = [outcome EXCEPT ![admin[a].dir] =
                   IF a \in contested THEN "open" ELSE admin[a].change]
  /\ UNCHANGED <<trust, holder, commands, callVars>>

(* An error, of a list that does not decode or of any call whose error is    *)
(* looked at, or a crash: the kernel drops the lock.                         *)
Abort(a) ==
  /\ admin[a].pc # "idle"
  /\ admin' = [admin EXCEPT ![a] = Idle] /\ contested' = contested \ {a} /\ Release(a)
  /\ UNCHANGED <<trust, commands, outcome, callVars>>

-----------------------------------------------------------------------------
(* discovery.Resolve.  world.metadata[dir] is what dir has for .wirecmd:     *)
(* "none", "empty", a "config", an "irregular" one, or "unsafe" itself.      *)
From(root) == [n \in 1..(Len(Cwd) - Len(root) + 1) |-> SubSeq(Cwd, 1, Len(root) + n - 1)]
FromFilesystemRoot(root) == From(<<>>)

(* Mutant below: FromFilesystemRoot ignores the boundary.                    *)
(* The directories walked, from the boundary to Cwd.                         *)
Walk(root) == From(root)

GlobalSources == IF world.global THEN <<Global>> ELSE <<>>
Configured(dirs) == Kept(dirs, {d \in Dirs : world.metadata[d] = "config"})
Bearing(kinds) == Deepest({d \in Dirs : world.metadata[d] \in kinds})

ContextOf(sources, boundary, dir) ==
  [error |-> None, configs |-> sources, discovered |-> TRUE, boundary |-> boundary, directory |-> dir]
Refused(error) == [ContextOf(<<>>, None, None) EXCEPT !.error = error]
Given(files) == [ContextOf(files, None, None) EXCEPT !.discovered = FALSE]

(* No trusted ancestor: the first thing met on the way up decides.           *)
ResolveUntrusted ==
  LET met == Bearing({"config", "irregular", "unsafe"})
  IN CASE met # None -> Refused(IF world.metadata[met] = "unsafe"
                                THEN "config_discovery_failed" ELSE "workspace_untrusted")
       [] met = None /\ ~world.global -> Refused("config_not_found")
       [] OTHER -> ContextOf(GlobalSources, None, None)

ResolveWithin(root) ==
  LET dirs == Walk(root)
      found == Configured(dirs)
      sources == GlobalSources \o [n \in 1..Len(found) |-> Metadata(found[n])]
  IN CASE \E d \in ToSet(dirs) : world.metadata[d] \in {"irregular", "unsafe"} ->
              Refused("config_discovery_failed")
       [] sources = <<>> -> Refused("config_not_found")
       [] OTHER -> ContextOf(sources, root, IF found = <<>> THEN None ELSE Last(found))

Resolve(trusted) ==
  LET root == nearestTrustedAncestor(Cwd, trusted)
  IN IF root = None THEN ResolveUntrusted ELSE ResolveWithin(root)

(* resolveConfigContext: files given with --config replace discovery.        *)
ResolveConfigContext ==
  /\ stage = "start"
  /\ seen' = trust
  /\ context' = CASE world.given # <<>> -> Given(world.given)
                  [] world.given = <<>> /\ trust = Torn -> Refused("config_discovery_failed")
                  [] OTHER -> Resolve(trust)
  /\ stage' = IF context'.error = None THEN "context" ELSE "failed"
  /\ UNCHANGED <<trustVars, world, listed, request>>

-----------------------------------------------------------------------------
(* loadContextConfig: only the nearest workspace file may declare the root.  *)
DeclaredRoot(c) ==
  LET declaring == {n \in 1..Len(c.configs) : world.roots[c.configs[n]] # None}
  IN CASE c.directory # None -> world.roots[Metadata(c.directory)]
       [] c.directory = None /\ declaring # {} -> world.roots[c.configs[Max(declaring)]]
       [] OTHER -> None

(* resolveInvocationContext.  A Git root that does not contain Cwd (a GIT_DIR, *)
(* a linked worktree) is no candidate.                                       *)
ProjectRoot(c) ==
  LET candidates == {d \in {c.directory, world.git} : d # None /\ pathContains(d, Cwd)}
  IN CASE DeclaredRoot(c) # None -> DeclaredRoot(c)
       [] DeclaredRoot(c) = None /\ candidates # {} -> Deepest(candidates)
       [] OTHER -> IF c.boundary # None THEN c.boundary ELSE Cwd

(* runtimeContextForScope: what the scope makes the owner and the root.      *)
Scoped(scope, root, local) ==
  CASE scope = "workspace" -> [owner |-> root, root |-> root]
    [] scope = "global" /\ local -> [owner |-> "daemon-global", root |-> Global]
    [] OTHER -> [owner |-> "daemon-global", root |-> None]

ResolveInvocationContext ==
  /\ stage = "context"
  /\ stage' = IF world.scope = "global" /\ world.local /\ ~world.globalDirectory
              THEN "failed" ELSE "stores"
  /\ UNCHANGED <<trustVars, world, seen, context, listed, request>>

-----------------------------------------------------------------------------
(* SecretStoreCandidates, strongest first: for automatic discovery the list  *)
(* is read again.                                                            *)
Candidates(trusted) ==
  LET root == nearestTrustedAncestor(Cwd, trusted)
      dirs == From(root)
  IN CASE root = None -> <<Global>>
       [] root # None /\ (\E d \in ToSet(dirs) : world.metadata[d] = "unsafe") -> None
       [] OTHER -> Reverse([n \in 1..Len(dirs) |-> Metadata(dirs[n])]) \o <<Global>>

Stores(trusted) ==
  CASE ~world.age -> <<>>
    [] world.age /\ world.scope = "global" -> <<Global>>
    [] world.age /\ world.scope # "global" /\ ~context.discovered -> Reverse(context.configs) \o <<Global>>
    [] OTHER -> IF trusted = Torn THEN None ELSE Candidates(trusted)

Send ==
  /\ stage = "stores"
  /\ listed' = trust
  /\ IF Stores(trust) = None
     THEN stage' = "failed" /\ UNCHANGED request
     ELSE /\ stage' = "sent"
          /\ request' = [projectRoot |-> ProjectRoot(context),
                         provider |-> Scoped(world.scope, ProjectRoot(context), world.local),
                         stores |-> Stores(trust)]
  /\ UNCHANGED <<trustVars, world, seen, context>>

(* What execute checks: the discovery context, the provider's root and owner *)
(* as it derives them from its own reading of the files, and a global        *)
(* provider's only store.                                                    *)
validateDaemonDiscoveryContext(c) ==
  IF ~c.discovered THEN c.boundary = None /\ c.directory = None
  ELSE /\ c.boundary # None => pathContains(c.boundary, Cwd)
       /\ c.directory # None =>
            /\ pathContains(c.directory, Cwd)
            /\ Metadata(c.directory) \in ToSet(c.configs)
            /\ c.boundary # None => pathContains(c.boundary, c.directory)

ExpectedProjectRoot(c) == IF DeclaredRoot(c) # None THEN DeclaredRoot(c) ELSE request.projectRoot

Accepted ==
  /\ context.configs # <<>>
  /\ validateDaemonDiscoveryContext(context)
  /\ request.provider = Scoped(world.scope, ExpectedProjectRoot(context), world.local)
  /\ world.scope = "global" => request.stores = IF world.age THEN <<Global>> ELSE <<>>

Execute ==
  /\ stage = "sent"
  /\ stage' = IF Accepted THEN "served" ELSE "rejected"
  /\ UNCHANGED <<trustVars, world, seen, context, listed, request>>

-----------------------------------------------------------------------------
Init ==
  /\ trust = {} /\ holder = None /\ commands = 0
  /\ admin = [a \in Admins |-> Idle]
  /\ outcome = [d \in Dirs |-> "open"] /\ contested = {}
  /\ world \in Worlds
  /\ stage = "start" /\ seen = {} /\ context = None /\ listed = {} /\ request = None

Update(a) ==
  \/ \E change \in {"trust", "untrust"}, dir \in Dirs : Begin(a, change, dir)
  \/ Lock(a) \/ ReadState(a) \/ WriteTemp(a) \/ WriteFails(a) \/ Rename(a)
  \/ Unlock(a) \/ Report(a) \/ Abort(a)

Invoke == ResolveConfigContext \/ ResolveInvocationContext \/ Send \/ Execute

Next == (\E a \in Admins : Update(a)) \/ Invoke

Spec == Init /\ [][Next]_vars

-----------------------------------------------------------------------------
(* What a trust command reported stands: a directory reported trusted is in  *)
(* the list, one reported untrusted is not, until a contrary command on the  *)
(* same directory is begun, unless one overlapped it.  Commands on other     *)
(* directories, aborted ones included, never undo it.  (A list that no longer *)
(* decodes trusts nothing.)                                                  *)
AcknowledgedStands ==
  trust # Torn => \A d \in Dirs : /\ outcome[d] = "trust" => d \in trust
                                  /\ outcome[d] = "untrust" => d \notin trust

(* A source is at or below a directory of a list, and above Cwd.  The files  *)
(* of a workspace follow the user's own.                                    *)
Trusted(s, list) == pathContains(Front(s), Cwd) /\ \E r \in list : pathContains(r, Front(s))
Workspace(c) == SubSeq(c.configs, Len(GlobalSources) + 1, Len(c.configs))

BroadToNear(c) ==
  /\ c.configs = GlobalSources \o Workspace(c)
  /\ \A s \in ToSet(Workspace(c)) : s # Global
  /\ \A i, j \in 1..Len(Workspace(c)) : i < j => Len(Workspace(c)[i]) < Len(Workspace(c)[j])

(* Automatic discovery reads configuration and secret stores only from       *)
(* directories above Cwd and at or below one that was trusted when they were *)
(* looked for; configuration from broad to near, the user's own first, none  *)
(* of the boundary's left out; and the daemon accepts whatever the CLI       *)
(* resolved, although it checks with rules of its own.                       *)
SourcesTrusted ==
  LET automatic == world.given = <<>> /\ stage \notin {"start", "failed"}
  IN /\ automatic =>
          /\ \A s \in ToSet(Workspace(context)) : Trusted(s, seen)
          /\ BroadToNear(context)
          /\ \A d \in Dirs : /\ context.boundary # None /\ pathContains(context.boundary, d)
                             /\ world.metadata[d] = "config"
                            => Metadata(d) \in ToSet(Workspace(context))
     /\ automatic /\ request # None =>
          \A s \in ToSet(request.stores) \ {Global} : Trusted(s, listed)
     /\ stage # "rejected"

(* docs/configuration.md: trust is recursive, and the nearest trusted        *)
(* ancestor is the discovery boundary.  False of within, which leaves out a  *)
(* child with a name of one or two bytes.                                    *)
TrustIsRecursive ==
  LET covering == {r \in seen : pathContains(r, Cwd)}
  IN world.given = <<>> /\ stage # "start" /\ seen # Torn /\ covering # {} =>
       /\ context.error # "workspace_untrusted"
       /\ context.error = None => context.boundary = Deepest(covering)

(* docs/plans/discovery-plan.md: trust state is written atomically, so an    *)
(* update that fails leaves a list that can be read.  False of update, which *)
(* renames a file it failed to write.                                        *)
TrustUpdatesAtomic == trust # Torn
=============================================================================
