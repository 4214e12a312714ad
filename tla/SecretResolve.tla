---------------------------- MODULE SecretResolve ----------------------------
(* How one operation gets the secrets it names (internal/secrets, and        *)
(* internal/cli/secrets.go): scope by scope, the encrypted stores are read   *)
(* once, from the nearest to the global one; age decrypts as few of them as  *)
(* the names need; the environment gives the rest.  The two scopes of a      *)
(* language-server request share what was decrypted.  Other tools may write  *)
(* the stores at any time.                                                   *)
(*                                                                           *)
(* SecretReuse takes this for one step, and a snapshot's secrets for given.  *)
EXTENDS Naturals, SequencesExt, FiniteSetsExt

CONSTANTS Candidates,   \* Candidates[s]: the stores of scope s, strongest first
          AgeKeys,      \* locators of the age scheme
          Environment,  \* Environment[n]: variables that are set
          EnvNames,     \* locators of the env scheme
          Selections,   \* what the definitions of one scope may name
          ContentOf,    \* ContentOf[v]: what version v of a store holds
          Unreadable,   \* the content of a version that does not decrypt to a document
          Absent, MaxUpdates

(* What the constants must satisfy. *)
SecretsAssumption ==
    /\ DOMAIN Candidates \subseteq {"workspace", "global"} /\ DOMAIN Candidates # {}
    /\ MaxUpdates \in Nat
    /\ \A s \in DOMAIN Candidates : Candidates[s] \in Seq(ToSet(Candidates[s]))
    /\ AgeKeys \cap EnvNames = {} /\ DOMAIN Environment \subseteq EnvNames
    /\ UNION Selections \subseteq AgeKeys \cup EnvNames /\ Absent \notin DOMAIN ContentOf

VARIABLES disk,       \* disk[st]: the version of store st
          updates,
          direct,     \* the command reads the stores itself, not the daemon
          asked,      \* asked[s]: what the definitions of scope s name
          todo,       \* the scopes still to resolve, the first being resolved
          step,       \* how far it is
          captured,   \* captured[s]: the versions read for s, strongest first
          documents,  \* the decrypted documents of the operation
          runs,       \* how often age was run on a version of a store
          tried,      \* stores of its candidates that were gone through
          found,      \* the values found for the scope being resolved
          answer      \* answer[s]: what resolving s gave

storeVars == <<disk, updates>>
inputVars == <<direct, asked>>
ageVars == <<documents, runs>>
vars == <<storeVars, inputVars, todo, step, captured, ageVars, found, tried, answer>>

Scopes == DOMAIN Candidates
Stores == UNION {ToSet(Candidates[s]) : s \in Scopes}
Ciphertexts == DOMAIN ContentOf
NoValues == [k \in {} |-> k]
NoAnswer == [kind |-> "none"]

Scope == Head(todo)
Wanted == asked[Scope] \cap AgeKeys
Named == asked[Scope] \cap EnvNames

(* lspScopeOrder; a scope no definition of which names a secret has nothing  *)
(* to resolve.                                                               *)
Init ==
    /\ disk \in [Stores -> Ciphertexts \cup {Absent}] /\ updates = 0
    /\ direct \in BOOLEAN
    /\ asked \in [Scopes -> Selections]
    /\ todo = IF "workspace" \notin Scopes THEN <<"global">>
              ELSE IF "global" \notin Scopes THEN <<"workspace">> ELSE <<"workspace", "global">>
    /\ step = "begin"
    /\ captured = [s \in Scopes |-> <<>>] /\ documents = NoValues
    /\ runs = [d \in Stores \X Ciphertexts |-> 0]
    /\ found = NoValues /\ tried = 0 /\ answer = [s \in Scopes |-> NoAnswer]

Goto(from, to) == todo # <<>> /\ step = from /\ step' = to

(* The scope is resolved, and the next one begins; or the operation ends     *)
(* with the first error.                                                     *)
Answer(reply) ==
    /\ answer' = [answer EXCEPT ![Scope] = reply]
    /\ todo' = IF reply.kind = "values" THEN Tail(todo) ELSE <<>>
    /\ step' = "begin" /\ found' = NoValues /\ tried' = 0

Fail ==
    /\ todo # <<>> /\ step \in {"capture", "qualify", "decrypt"}
    /\ Answer([kind |-> "error"])
    /\ UNCHANGED <<storeVars, inputVars, captured, ageVars>>

-----------------------------------------------------------------------------
(* Registry.Resolve: one batch for each scheme, age before env.  The daemon  *)
(* captures the stores before it looks for age, a direct command after.      *)
Begin ==
    /\ Goto("begin", IF Wanted = {} THEN "env" ELSE IF direct THEN "qualify" ELSE "capture")
    /\ UNCHANGED <<storeVars, inputVars, todo, captured, ageVars, found, tried, answer>>

(* AgeProvider.qualify: age is there, and new enough.                        *)
Qualify ==
    /\ Goto("qualify", IF direct THEN "capture" ELSE "decrypt")
    /\ UNCHANGED <<storeVars, inputVars, todo, captured, ageVars, found, tried, answer>>

(* CaptureStores, snapshotStores: one store after the other.                 *)
Capture ==
    LET have == captured[Scope]
        store == Candidates[Scope][Len(have) + 1]
    IN  /\ todo # <<>> /\ step = "capture" /\ Len(have) < Len(Candidates[Scope])
        /\ captured' = [captured EXCEPT ![Scope] = Append(@, disk[store])]
        /\ UNCHANGED <<storeVars, inputVars, todo, step, ageVars, found, tried, answer>>

Captured ==
    /\ Goto("capture", IF direct THEN "decrypt" ELSE "qualify")
    /\ Len(captured[Scope]) = Len(Candidates[Scope])
    /\ UNCHANGED <<storeVars, inputVars, todo, captured, ageVars, found, tried, answer>>

-----------------------------------------------------------------------------
(* Mutant: a document is known by its path alone.                            *)
DocumentKeyPath(store, version) == <<store, CHOOSE v \in Ciphertexts : TRUE>>

(* A document of the operation is known by its path and its ciphertext.      *)
DocumentKey(store, version) == <<store, version>>

(* AgeProvider.Resolve and document: the next store, as long as something is *)
(* missing.  What the operation decrypted before is not decrypted again.     *)
Store == Candidates[Scope][tried + 1]
Version == captured[Scope][tried + 1]
Missing == Wanted \ DOMAIN found
Exhausted == Missing = {} \/ tried = Len(Candidates[Scope])

Skip ==
    /\ Goto("decrypt", "decrypt") /\ ~Exhausted /\ Version = Absent
    /\ tried' = tried + 1
    /\ UNCHANGED <<storeVars, inputVars, todo, captured, ageVars, found, answer>>

(* Of a document only what stronger stores do not have is taken.             *)
TakeFrom(document) ==
    /\ found' = [k \in DOMAIN found \cup (Missing \cap DOMAIN document) |->
                   IF k \in DOMAIN found THEN found[k] ELSE document[k]]
    /\ tried' = tried + 1
    /\ UNCHANGED <<storeVars, inputVars, todo, step, captured, answer>>

Recall ==
    /\ todo # <<>> /\ step = "decrypt" /\ ~Exhausted /\ Version # Absent
    /\ DocumentKey(Store, Version) \in DOMAIN documents
    /\ TakeFrom(documents[DocumentKey(Store, Version)])
    /\ UNCHANGED ageVars

Decrypt ==
    /\ todo # <<>> /\ step = "decrypt" /\ ~Exhausted /\ Version # Absent
    /\ DocumentKey(Store, Version) \notin DOMAIN documents
    /\ runs' = [runs EXCEPT ![<<Store, Version>>] = @ + 1]
    /\ \/ /\ ContentOf[Version] # Unreadable
          /\ documents' = [d \in DOMAIN documents \cup {DocumentKey(Store, Version)} |->
                            IF d \in DOMAIN documents THEN documents[d] ELSE ContentOf[Version]]
          /\ TakeFrom(ContentOf[Version])
       \/ /\ ContentOf[Version] = Unreadable
          /\ Answer([kind |-> "error"])
          /\ UNCHANGED <<storeVars, inputVars, captured, documents>>

Decrypted ==
    /\ Goto("decrypt", "env") /\ Exhausted
    /\ UNCHANGED <<storeVars, inputVars, todo, captured, ageVars, found, tried, answer>>

(* EnvProvider.Resolve; then everything is there, or all that is missing is  *)
(* named and nothing is used.                                                *)
Complete ==
    LET all == [k \in DOMAIN found \cup (Named \cap DOMAIN Environment) |->
                  IF k \in DOMAIN found THEN found[k] ELSE Environment[k]]
        absent == asked[Scope] \ DOMAIN all
    IN  /\ todo # <<>> /\ step = "env"
        /\ Answer(IF absent = {} THEN [kind |-> "values", values |-> all]
                  ELSE [kind |-> "missing", missing |-> absent])
        /\ UNCHANGED <<storeVars, inputVars, captured, ageVars>>

(* Another tool writes, replaces or removes a store.                         *)
Update ==
    /\ updates < MaxUpdates /\ updates' = updates + 1
    /\ \E store \in Stores, version \in Ciphertexts \cup {Absent} :
         disk' = [disk EXCEPT ![store] = version]
    /\ UNCHANGED <<inputVars, todo, step, captured, ageVars, found, tried, answer>>

Next ==
    \/ Begin \/ Qualify \/ Capture \/ Captured \/ Skip \/ Recall \/ Decrypt \/ Decrypted
    \/ Complete \/ Fail \/ Update

Spec == Init /\ [][Next]_vars

-----------------------------------------------------------------------------
(* A scope gets every value it names or none: each from the strongest store  *)
(* that holds it, as the store was when it was read for that scope, whatever *)
(* the stores hold since and whatever another scope read (the identity that  *)
(* lets a session be reused is that of exactly these versions).  What is     *)
(* reported missing is missing, and age is asked at most once for any one    *)
(* version of a store.                                                       *)
Holding(s, k) ==
    {i \in 1..Len(captured[s]) :
        captured[s][i] # Absent /\ ContentOf[captured[s][i]] # Unreadable
          /\ k \in DOMAIN ContentOf[captured[s][i]]}

Strongest(s, k) == IF k \in EnvNames THEN Environment[k]
                 ELSE ContentOf[captured[s][Min(Holding(s, k))]][k]

Available(s, k) == IF k \in EnvNames THEN k \in DOMAIN Environment ELSE Holding(s, k) # {}

ResolvedAsCaptured ==
    /\ \A s \in Scopes :
         /\ answer[s].kind = "values" =>
              /\ \A k \in asked[s] : Available(s, k)
              /\ answer[s].values = [k \in asked[s] |-> Strongest(s, k)]
         /\ answer[s].kind = "missing" =>
              answer[s].missing = {k \in asked[s] : ~Available(s, k)}
    /\ \A d \in DOMAIN runs : runs[d] <= 1
=============================================================================
