--------------------------- MODULE CredentialStore ---------------------------
(* internal/oauthstore/store.go: the encrypted records of one state          *)
(* directory, shared by processes that may crash at any step, on a machine   *)
(* that may lose power.  A record file's name is derived from the master     *)
(* key and the identity; the master key lives in the system keyring and is   *)
(* created on first use.  An operation is the sequence of its steps, each    *)
(* one system call (or a run of them no other process can tell apart).       *)
EXTENDS Naturals, Sequences

CONSTANTS Procs,        \* processes (or goroutines) that use the directory
          Identities,   \* credential identities
          MaxGen,       \* bound: generations ever drawn
          MaxCrashes,   \* bound: crashes, of processes and of the machine
          NoProc, NoKey, Absent

(* A file is written, then its content synced; a machine that stops between *)
(* the two leaves it torn.  What a failed write left of it is partial.       *)
Files == [gen : 0..MaxGen, data : {"written", "synced", "torn", "partial"}]

(* What the constants must satisfy. *)
StoreAssumption ==
  /\ MaxGen \in Nat /\ MaxCrashes \in Nat
  /\ NoProc \notin Procs /\ NoKey \notin Procs /\ Absent \notin Files

VARIABLES keyring,  \* the master key: named by the process that made it
          lock,     \* holder of the flock on credentials.lock
          auth,     \* auth[id]: holder of the flock on id's .auth.lock
          dir,      \* dir[id]: the record file as a reader finds it
          disk,     \* disk[id]: what the directory on disk may hold for id
          temp,     \* temp[p]: p's temporary file
          key,      \* key[p]: the key p read or made
          left,     \* left[p]: the steps p has still to take
          op,       \* op[p]: the operation p is in
          reply,    \* the last answer, until the next call or crash
          nextGen, crashes

fileVars == <<dir, disk, temp>>
callVars == <<op, reply, left, key, nextGen, crashes>>
vars == <<keyring, lock, auth, fileVars, callVars>>

(* opaqueID: the file name stands for the key and the identity.             *)
Ids == Procs \X Identities
opaqueID(k, i) == <<k, i>>

Idle == [kind |-> "idle"]
NoReply == <<"none", 0>>
Calls == [kind : {"load", "delete", "authorize"}, who : Identities]
  \cup [kind : {"save"}, who : Identities, gen : 1..MaxGen, fresh : BOOLEAN]

(* Mutants: no sync before the rename; the key, or the generation check,     *)
(* ahead of the lock.                                                        *)
ProgramUnsynced == [
  load      |-> <<"key", "lock", "read">>,
  save      |-> <<"lock", "key", "make", "check", "write", "rename", "syncdir">>,
  delete    |-> <<"key", "lock", "remove", "syncdir">>,
  authorize |-> <<"lock", "key", "make", "unlock", "try">>]
ProgramKeyFirst == [ProgramUnsynced EXCEPT
  !.save = <<"key", "make", "lock", "check", "write", "sync", "rename", "syncdir">>,
  !.authorize = <<"key", "make", "try">>]
ProgramCheckFirst == [ProgramUnsynced EXCEPT
  !.save = <<"key", "make", "check", "lock", "write", "sync", "rename", "syncdir">>]

(* The order of each operation's steps: Load and Delete read the key before *)
(* they take the lock, Save and LockAuthorization after.                    *)
Program == [
  load      |-> <<"key", "lock", "read">>,
  save      |-> <<"lock", "key", "make", "check", "write", "sync", "rename", "syncdir">>,
  delete    |-> <<"key", "lock", "remove", "syncdir">>,
  authorize |-> <<"lock", "key", "make", "unlock", "try">>]

At(p, step) == left[p] # <<>> /\ Head(left[p]) = step
Id(p) == opaqueID(key[p], op[p].who)

TypeOK ==
  /\ keyring \in Procs \cup {NoKey} /\ lock \in Procs \cup {NoProc}
  /\ auth \in [Ids -> Procs \cup {NoProc}]
  /\ dir \in [Ids -> Files \cup {Absent}]
  /\ disk \in [Ids -> SUBSET (Files \cup {Absent})]
  /\ temp \in [Procs -> Files \cup {Absent}]
  /\ key \in [Procs -> Procs \cup {NoKey}] /\ \A p \in Procs : Len(left[p]) \in 0..8
  /\ op \in [Procs -> Calls \cup {Idle}]
  /\ reply \in {"none", "loaded", "ok", "stale", "missing", "locked", "error"} \X (0..MaxGen)
  /\ nextGen \in 1..MaxGen + 1 /\ crashes \in 0..MaxCrashes

Init ==
  /\ keyring = NoKey /\ lock = NoProc /\ auth = [id \in Ids |-> NoProc]
  /\ dir = [id \in Ids |-> Absent] /\ disk = [id \in Ids |-> {Absent}]
  /\ temp = [p \in Procs |-> Absent] /\ key = [p \in Procs |-> NoKey]
  /\ left = [p \in Procs |-> <<>>] /\ op = [p \in Procs |-> Idle]
  /\ reply = NoReply /\ nextGen = 1 /\ crashes = 0

-----------------------------------------------------------------------------
(* A caller starts Load, Save, Delete or LockAuthorization.  Save draws a    *)
(* fresh generation when the record names none.                              *)
Invoke(p, c) ==
  /\ op[p] = Idle
  /\ c.kind = "save" =>
       IF c.fresh THEN c.gen = nextGen ELSE c.gen < nextGen
  /\ nextGen' = IF c.kind = "save" /\ c.fresh THEN nextGen + 1 ELSE nextGen
  /\ op' = [op EXCEPT ![p] = c]
  /\ reply' = NoReply
  /\ left' = [left EXCEPT ![p] = Program[c.kind]] /\ key' = [key EXCEPT ![p] = NoKey]
  /\ UNCHANGED <<keyring, lock, auth, fileVars, crashes>>

Unlocked(p) == IF lock = p THEN NoProc ELSE lock

(* Every return runs the deferred unlock and removes the temporary file.    *)
Return(p, answer, gen) ==
  /\ op' = [op EXCEPT ![p] = Idle] /\ reply' = <<answer, gen>>
  /\ left' = [left EXCEPT ![p] = <<>>] /\ key' = [key EXCEPT ![p] = NoKey]
  /\ lock' = Unlocked(p)
  /\ temp' = [temp EXCEPT ![p] = Absent]
  /\ UNCHANGED <<nextGen, crashes>>

Advance(p) ==
  /\ left' = [left EXCEPT ![p] = Tail(@)]
  /\ UNCHANGED <<op, reply, nextGen, crashes>>

(* withLock: a blocking flock.                                               *)
Lock(p) ==
  /\ At(p, "lock") /\ lock = NoProc
  /\ lock' = p
  /\ Advance(p) /\ UNCHANGED <<key, keyring, auth, fileVars>>

(* LockAuthorization leaves withLock once it has the key.                    *)
Unlock(p) ==
  /\ At(p, "unlock")
  /\ lock' = Unlocked(p)
  /\ Advance(p) /\ UNCHANGED <<key, keyring, auth, fileVars>>

(* masterKey(false): no key means that nothing was ever stored.              *)
ReadKey(p) ==
  /\ At(p, "key")
  /\ IF keyring = NoKey /\ op[p].kind \in {"load", "delete"}
     THEN Return(p, IF op[p].kind = "load" THEN "loaded" ELSE "missing", 0)
          /\ UNCHANGED <<dir, disk>>
     ELSE key' = [key EXCEPT ![p] = keyring] /\ Advance(p)
          /\ UNCHANGED <<lock, fileVars>>
  /\ UNCHANGED <<keyring, auth>>

(* masterKey(true): the keyring had no key when it was read, so make one.    *)
MakeKey(p) ==
  /\ At(p, "make")
  /\ IF key[p] = NoKey
     THEN keyring' = p /\ key' = [key EXCEPT ![p] = p]
     ELSE UNCHANGED <<keyring, key>>
  /\ Advance(p) /\ UNCHANGED <<lock, auth, fileVars>>

(* Without a file there is nothing stored; a file that is not whole fails    *)
(* authentication in decryptRecord.                                          *)
Unreadable(f) == f # Absent /\ f.data \in {"torn", "partial"}

Gen(f) == IF f = Absent THEN 0 ELSE f.gen

ReadRecord(p) ==
  /\ At(p, "read")
  /\ LET f == dir[Id(p)] IN
     IF Unreadable(f) THEN Return(p, "error", 0) ELSE Return(p, "loaded", Gen(f))
  /\ UNCHANGED <<keyring, auth, dir, disk>>

(* Save of a known generation: ErrStale unless that very generation is there. *)
CheckGeneration(p) ==
  /\ At(p, "check")
  /\ LET f == dir[Id(p)] IN
     IF op[p].fresh \/ (f # Absent /\ ~Unreadable(f) /\ f.gen = op[p].gen)
     THEN Advance(p) /\ UNCHANGED <<key, lock, temp>>
     ELSE Return(p, IF Unreadable(f) THEN "error" ELSE "stale", 0)
  /\ UNCHANGED <<keyring, auth, dir, disk>>

(* os.CreateTemp and Write, Sync, then the rename over the record.           *)
WriteTemp(p) ==
  /\ At(p, "write")
  /\ temp' = [temp EXCEPT ![p] = [gen |-> op[p].gen, data |-> "written"]]
  /\ Advance(p) /\ UNCHANGED <<key, keyring, lock, auth, dir, disk>>

(* The error of a Chmod or Write that failed stays in the scope of its if    *)
(* statement: what was written until then is synced and renamed.             *)
WriteFails(p) ==
  /\ At(p, "write")
  /\ temp' = [temp EXCEPT ![p] = [gen |-> op[p].gen, data |-> "partial"]]
  /\ Advance(p) /\ UNCHANGED <<key, keyring, lock, auth, dir, disk>>

SyncTemp(p) ==
  /\ At(p, "sync")
  /\ temp' = [temp EXCEPT ![p].data = IF @ = "partial" THEN @ ELSE "synced"]
  /\ Advance(p) /\ UNCHANGED <<key, keyring, lock, auth, dir, disk>>

Put(id, f) ==
  /\ dir' = [dir EXCEPT ![id] = f]
  /\ disk' = [disk EXCEPT ![id] = @ \cup {f}]

Rename(p) ==
  /\ At(p, "rename")
  /\ Put(Id(p), temp[p])
  /\ temp' = [temp EXCEPT ![p] = Absent]
  /\ Advance(p) /\ UNCHANGED <<key, keyring, lock, auth>>

(* removePrivateFile: no file is no error, and nothing to sync.              *)
RemoveRecord(p) ==
  /\ At(p, "remove")
  /\ IF dir[Id(p)] = Absent
     THEN Return(p, "missing", 0) /\ UNCHANGED <<dir, disk>>
     ELSE Put(Id(p), Absent) /\ Advance(p) /\ UNCHANGED <<key, lock, temp>>
  /\ UNCHANGED <<keyring, auth>>

(* syncDirectory: what the directory shows is what the disk holds.           *)
SyncDirectory(p) ==
  /\ At(p, "syncdir")
  /\ disk' = [id \in Ids |-> {dir[id]}]
  /\ Return(p, "ok", 0) /\ UNCHANGED <<keyring, auth, dir>>

(* The non-blocking flock of LockAuthorization.                              *)
TryAuthorization(p) ==
  /\ At(p, "try")
  /\ IF auth[Id(p)] = NoProc
     THEN auth' = [auth EXCEPT ![Id(p)] = p] /\ Return(p, "ok", 0)
     ELSE UNCHANGED auth /\ Return(p, "locked", 0)
  /\ UNCHANGED <<keyring, dir, disk>>

ReleaseAuthorization(p) == \E id \in Ids :
  /\ op[p] = Idle /\ auth[id] = p
  /\ auth' = [auth EXCEPT ![id] = NoProc]
  /\ UNCHANGED <<keyring, lock, fileVars, callVars>>

(* A step may fail (keyring unavailable, unsafe file, no temporary file,     *)
(* failed sync) before it has its effect; the operation returns the error.   *)
Fail(p) ==
  /\ op[p] # Idle
  /\ Return(p, "error", 0) /\ UNCHANGED <<keyring, auth, dir, disk>>

(* A crash closes the descriptors, which drops the flocks.  The temporary    *)
(* file it leaves has a random name nobody opens again.                      *)
Dropped(P) == [id \in Ids |-> IF auth[id] \in P THEN NoProc ELSE auth[id]]

Crash(p) ==
  /\ crashes < MaxCrashes /\ crashes' = crashes + 1
  /\ op' = [op EXCEPT ![p] = Idle] /\ reply' = NoReply
  /\ left' = [left EXCEPT ![p] = <<>>] /\ key' = [key EXCEPT ![p] = NoKey]
  /\ lock' = Unlocked(p) /\ temp' = [temp EXCEPT ![p] = Absent]
  /\ auth' = Dropped({p})
  /\ UNCHANGED <<keyring, dir, disk, nextGen>>

(* Power loss: of each name the disk holds one of the entries made since the *)
(* last sync of the directory, and content that was not synced is torn.      *)
Surviving(f) == IF f # Absent /\ f.data \notin {"synced", "partial"}
                THEN [f EXCEPT !.data = "torn"] ELSE f

MachineCrash ==
  /\ crashes < MaxCrashes /\ crashes' = crashes + 1
  /\ \E kept \in [Ids -> UNION {disk[id] : id \in Ids}] :
       /\ \A id \in Ids : kept[id] \in disk[id]
       /\ dir' = [id \in Ids |-> Surviving(kept[id])]
       /\ disk' = [id \in Ids |-> {Surviving(kept[id])}]
  /\ op' = [p \in Procs |-> Idle] /\ reply' = NoReply
  /\ left' = [p \in Procs |-> <<>>] /\ key' = [p \in Procs |-> NoKey]
  /\ lock' = NoProc /\ temp' = [p \in Procs |-> Absent]
  /\ auth' = [id \in Ids |-> NoProc]
  /\ UNCHANGED <<keyring, nextGen>>

Step(p) ==
  \/ Lock(p) \/ Unlock(p) \/ ReadKey(p) \/ MakeKey(p) \/ ReadRecord(p)
  \/ CheckGeneration(p) \/ WriteTemp(p) \/ WriteFails(p)
  \/ SyncTemp(p) \/ Rename(p) \/ RemoveRecord(p) \/ SyncDirectory(p)
  \/ TryAuthorization(p)

Next ==
  \/ \E p \in Procs :
       \/ \E c \in Calls : Invoke(p, c)
       \/ Step(p) \/ ReleaseAuthorization(p) \/ Fail(p) \/ Crash(p)
  \/ MachineCrash

Spec == Init /\ [][Next]_vars

-----------------------------------------------------------------------------
(* A crash at any point, of a process or of the machine, leaves under every  *)
(* record's name what some save put there, never a file that the crash cut   *)
(* short (writePrivateFile: write, sync, rename).                            *)
RecordsWhole == \A id \in Ids : dir[id] # Absent => dir[id].data # "torn"

(* docs/plans/oauth-plan.md: records are replaced atomically, so a reader    *)
(* finds the old one or the new one.  False of writePrivateFile, which       *)
(* renames a file it failed to write and reports it saved.                   *)
ReplacedAtomically == \A id \in Ids : ~Unreadable(dir[id])

(* LockAuthorization: one browser flow per identity, across processes,       *)
(* crashes and the first use of the keyring, which must make one master key. *)
OneAuthorization == \A i \in Identities : \A k, l \in Procs :
  auth[opaqueID(k, i)] # NoProc /\ auth[opaqueID(l, i)] # NoProc => k = l

-----------------------------------------------------------------------------
(* The store's operations take effect atomically and, once reported, for     *)
(* good: the module implements AtomicStore, the record being the one that    *)
(* the key in the keyring leads to.  A record that a failed write left       *)
(* counts as its generation's; reading it fails, as any operation may.       *)
Current(i) == opaqueID(keyring, i)

StoredGen(i) == IF keyring = NoKey THEN 0 ELSE Gen(dir[Current(i)])
Settling(p) == At(p, "syncdir")

RecView == [i \in Identities |-> StoredGen(i)]
MayBeView == [i \in Identities |->
  IF keyring = NoKey THEN {0} ELSE {Gen(f) : f \in disk[Current(i)]}]
HolderView == [i \in Identities |-> IF keyring = NoKey THEN NoProc ELSE auth[Current(i)]]
OpView == [p \in Procs |->
  IF Settling(p) THEN [kind |-> "settle", who |-> op[p].who] ELSE op[p]]

Atomic == INSTANCE AtomicStore WITH
  rec <- RecView, mayBe <- MayBeView, holder <- HolderView, op <- OpView

ImplementsAtomicStore == Atomic!Spec
=============================================================================
