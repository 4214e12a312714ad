-------------------------- MODULE MCOAuthCredential -------------------------
(* Finite instances of OAuthCredential, and of CredentialStore below it,   *)
(* whose operations the runtimes take for one step.  The two share no      *)
(* state: a behaviour is one of either, the other resting in its first     *)
(* state.                                                                  *)
EXTENDS OAuthCredential, TLC

CONSTANTS Scenes,
          Procs, Identities, MaxGen, MaxCrashes, NoProc, NoKey, Absent

VARIABLES keyring, lock, auth, dir, disk, temp, key, left, op, reply, nextGen, crashes, scene

StoreVars == <<keyring, lock, auth, dir, disk, temp, key, left, op, reply, nextGen, crashes>>

Store == INSTANCE CredentialStoreProofs

ASSUME StoreConstantsAssumption == Store!StoreAssumption

SceneInit == scene \in Scenes /\ Init /\ Store!Init

SceneNext ==
    \/ scene = "runtimes" /\ Next /\ UNCHANGED <<scene, StoreVars>>
    \/ scene = "store" /\ Store!Next /\ UNCHANGED <<scene, vars>>

SceneSpec == SceneInit /\ [][SceneNext]_<<scene, vars, StoreVars>>

Interchangeable == Permutations(Procs)

-----------------------------------------------------------------------------
(* CredentialStore: a crash leaves under a record's name what some save    *)
(* put there.                                                              *)
RecordsWhole == Store!RecordsWhole

(* CredentialStore: one authorization lease per identity.                  *)
OneAuthorization == Store!OneAuthorization

(* CredentialStore: its operations are atomic and, once reported, durable. *)
ImplementsAtomicStore == Store!ImplementsAtomicStore

(* CredentialStore, docs/plans/oauth-plan.md: atomic replacement.          *)
ReplacedAtomically == Store!ReplacedAtomically
=============================================================================
