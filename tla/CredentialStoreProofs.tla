------------------------ MODULE CredentialStoreProofs ------------------------
(* The credential store, for any number of processes, identities,            *)
(* generations and crashes.                                                  *)
EXTENDS CredentialStore, TLAPS

-----------------------------------------------------------------------------
(* What an operation may still have to do.                                   *)
LoadLeft == {<<"key", "lock", "read">>, <<"lock", "read">>, <<"read">>}
SaveLeft == {
  <<"lock", "key", "make", "check", "write", "sync", "rename", "syncdir">>,
  <<"key", "make", "check", "write", "sync", "rename", "syncdir">>,
  <<"make", "check", "write", "sync", "rename", "syncdir">>,
  <<"check", "write", "sync", "rename", "syncdir">>,
  <<"write", "sync", "rename", "syncdir">>, <<"sync", "rename", "syncdir">>,
  <<"rename", "syncdir">>, <<"syncdir">>}
DeleteLeft == {<<"key", "lock", "remove", "syncdir">>, <<"lock", "remove", "syncdir">>,
               <<"remove", "syncdir">>, <<"syncdir">>}
AuthorizeLeft == {
  <<"lock", "key", "make", "unlock", "try">>, <<"key", "make", "unlock", "try">>,
  <<"make", "unlock", "try">>, <<"unlock", "try">>, <<"try">>}

Left == LoadLeft \cup SaveLeft \cup DeleteLeft \cup AuthorizeLeft \cup {<<>>}

(* A process is at a step of the operation it is in.                         *)
Placed(o, s) ==
  \/ o = Idle /\ s = <<>>
  \/ o # Idle /\ o.kind = "load" /\ s \in LoadLeft
  \/ o # Idle /\ o.kind = "save" /\ s \in SaveLeft
  \/ o # Idle /\ o.kind = "delete" /\ s \in DeleteLeft
  \/ o # Idle /\ o.kind = "authorize" /\ s \in AuthorizeLeft

Placement == left \in [Procs -> Left] /\ \A p \in Procs : Placed(op[p], left[p])

(* The steps between taking the flock and giving it back, and those from     *)
(* which on the master key is known.                                         *)
InLock(p) ==
  \/ At(p, "read") \/ At(p, "make") \/ At(p, "check") \/ At(p, "write") \/ At(p, "sync")
  \/ At(p, "rename") \/ At(p, "remove") \/ At(p, "syncdir") \/ At(p, "unlock")
  \/ At(p, "key") /\ op[p].kind \in {"save", "authorize"}

Exclusive == \A p \in Procs : InLock(p) => lock = p

Keyed(p) ==
  \/ At(p, "read") \/ At(p, "check") \/ At(p, "write") \/ At(p, "sync") \/ At(p, "rename")
  \/ At(p, "remove") \/ At(p, "syncdir") \/ At(p, "unlock") \/ At(p, "try")
  \/ At(p, "lock") /\ op[p].kind \in {"load", "delete"}

(* There is one master key: whatever has a name has it under the key of the  *)
(* keyring, and whoever found none is alone in making it.                    *)
OneKey ==
  /\ \A p \in Procs : key[p] # NoKey => key[p] = keyring
  /\ \A p \in Procs : Keyed(p) => key[p] # NoKey
  /\ \A p \in Procs : At(p, "make") /\ key[p] = NoKey => keyring = NoKey
  /\ \A k \in Procs, i \in Identities : k # keyring =>
       /\ auth[opaqueID(k, i)] = NoProc
       /\ dir[opaqueID(k, i)] = Absent /\ disk[opaqueID(k, i)] = {Absent}

(* A record file was synced before it got its name, or its write had failed. *)
Whole(f) == f # Absent => f.gen # 0 /\ f.data \in {"synced", "partial"}

FilesWhole ==
  /\ \A id \in Ids : Whole(dir[id]) /\ \A f \in disk[id] : Whole(f)
  /\ \A p \in Procs : At(p, "sync") =>
       temp[p] # Absent /\ temp[p].gen = op[p].gen /\ temp[p].data \in {"written", "partial"}
  /\ \A p \in Procs : At(p, "rename") =>
       temp[p] # Absent /\ temp[p].gen = op[p].gen /\ temp[p].data \in {"synced", "partial"}

(* The generation a save was checked against is still the stored one.        *)
StillChecked == \A p \in Procs :
  At(p, "write") \/ At(p, "sync") \/ At(p, "rename") =>
    op[p].fresh \/ Gen(dir[Id(p)]) = op[p].gen

IInv == TypeOK /\ Placement /\ Exclusive /\ OneKey /\ FilesWhole /\ StillChecked
-----------------------------------------------------------------------------
(* The step after each, and the operations it belongs to.                    *)
Follows(o, h, n) ==
  /\ h = "key" /\ o.kind \in {"load", "delete"} => n = "lock"
  /\ h = "key" /\ o.kind \in {"save", "authorize"} => n = "make"
  /\ h = "lock" /\ o.kind = "load" => n = "read"
  /\ h = "lock" /\ o.kind = "delete" => n = "remove"
  /\ h = "lock" /\ o.kind \in {"save", "authorize"} => n = "key"
  /\ h = "make" => o.kind \in {"save", "authorize"}
  /\ h = "make" /\ o.kind = "save" => n = "check"
  /\ h = "make" /\ o.kind = "authorize" => n = "unlock"
  /\ h = "check" => o.kind = "save" /\ n = "write"
  /\ h = "write" => o.kind = "save" /\ n = "sync"
  /\ h = "sync" => o.kind = "save" /\ n = "rename"
  /\ h = "rename" => o.kind = "save" /\ n = "syncdir"
  /\ h = "remove" => o.kind = "delete" /\ n = "syncdir"
  /\ h = "unlock" => o.kind = "authorize" /\ n = "try"

LEMMA LoadProgress ==
  ASSUME NEW o, o.kind = "load", NEW s \in LoadLeft
  PROVE  /\ s # <<>> /\ Len(s) \in 1..8
         /\ Head(s) \in {"key", "lock", "read"}
         /\ Head(s) # "read" => Tail(s) \in LoadLeft /\ Follows(o, Head(s), Head(Tail(s)))
<1>1. CASE s = <<"key", "lock", "read">>
  <2>1. Head(s) = "key" /\ Tail(s) = <<"lock", "read">> /\ Len(s) = 3 BY <1>1
  <2>2. Head(<<"lock", "read">>) = "lock" OBVIOUS
  <2> QED BY <1>1, <2>1, <2>2 DEF LoadLeft, Follows
<1>2. CASE s = <<"lock", "read">>
  <2>1. Head(s) = "lock" /\ Tail(s) = <<"read">> /\ Len(s) = 2 BY <1>2
  <2>2. Head(<<"read">>) = "read" OBVIOUS
  <2> QED BY <1>2, <2>1, <2>2 DEF LoadLeft, Follows
<1>3. CASE s = <<"read">>
  BY <1>3
<1> QED BY <1>1, <1>2, <1>3 DEF LoadLeft

LEMMA SaveProgress ==
  ASSUME NEW o, o.kind = "save", NEW s \in SaveLeft
  PROVE  /\ s # <<>> /\ Len(s) \in 1..8
         /\ Head(s) \in {"lock", "key", "make", "check", "write", "sync", "rename", "syncdir"}
         /\ Head(s) # "syncdir" => Tail(s) \in SaveLeft /\ Follows(o, Head(s), Head(Tail(s)))
<1>1. CASE s = <<"lock", "key", "make", "check", "write", "sync", "rename", "syncdir">>
  <2>1. Head(s) = "lock" /\ Tail(s) = <<"key", "make", "check", "write", "sync", "rename", "syncdir">> /\ Len(s) = 8 BY <1>1
  <2>2. Head(<<"key", "make", "check", "write", "sync", "rename", "syncdir">>) = "key" OBVIOUS
  <2> QED BY <1>1, <2>1, <2>2 DEF SaveLeft, Follows
<1>2. CASE s = <<"key", "make", "check", "write", "sync", "rename", "syncdir">>
  <2>1. Head(s) = "key" /\ Tail(s) = <<"make", "check", "write", "sync", "rename", "syncdir">> /\ Len(s) = 7 BY <1>2
  <2>2. Head(<<"make", "check", "write", "sync", "rename", "syncdir">>) = "make" OBVIOUS
  <2> QED BY <1>2, <2>1, <2>2 DEF SaveLeft, Follows
<1>3. CASE s = <<"make", "check", "write", "sync", "rename", "syncdir">>
  <2>1. Head(s) = "make" /\ Tail(s) = <<"check", "write", "sync", "rename", "syncdir">> /\ Len(s) = 6 BY <1>3
  <2>2. Head(<<"check", "write", "sync", "rename", "syncdir">>) = "check" OBVIOUS
  <2> QED BY <1>3, <2>1, <2>2 DEF SaveLeft, Follows
<1>4. CASE s = <<"check", "write", "sync", "rename", "syncdir">>
  <2>1. Head(s) = "check" /\ Tail(s) = <<"write", "sync", "rename", "syncdir">> /\ Len(s) = 5 BY <1>4
  <2>2. Head(<<"write", "sync", "rename", "syncdir">>) = "write" OBVIOUS
  <2> QED BY <1>4, <2>1, <2>2 DEF SaveLeft, Follows
<1>5. CASE s = <<"write", "sync", "rename", "syncdir">>
  <2>1. Head(s) = "write" /\ Tail(s) = <<"sync", "rename", "syncdir">> /\ Len(s) = 4 BY <1>5
  <2>2. Head(<<"sync", "rename", "syncdir">>) = "sync" OBVIOUS
  <2> QED BY <1>5, <2>1, <2>2 DEF SaveLeft, Follows
<1>6. CASE s = <<"sync", "rename", "syncdir">>
  <2>1. Head(s) = "sync" /\ Tail(s) = <<"rename", "syncdir">> /\ Len(s) = 3 BY <1>6
  <2>2. Head(<<"rename", "syncdir">>) = "rename" OBVIOUS
  <2> QED BY <1>6, <2>1, <2>2 DEF SaveLeft, Follows
<1>7. CASE s = <<"rename", "syncdir">>
  <2>1. Head(s) = "rename" /\ Tail(s) = <<"syncdir">> /\ Len(s) = 2 BY <1>7
  <2>2. Head(<<"syncdir">>) = "syncdir" OBVIOUS
  <2> QED BY <1>7, <2>1, <2>2 DEF SaveLeft, Follows
<1>8. CASE s = <<"syncdir">>
  BY <1>8
<1> QED BY <1>1, <1>2, <1>3, <1>4, <1>5, <1>6, <1>7, <1>8 DEF SaveLeft

LEMMA DeleteProgress ==
  ASSUME NEW o, o.kind = "delete", NEW s \in DeleteLeft
  PROVE  /\ s # <<>> /\ Len(s) \in 1..8
         /\ Head(s) \in {"key", "lock", "remove", "syncdir"}
         /\ Head(s) # "syncdir" => Tail(s) \in DeleteLeft /\ Follows(o, Head(s), Head(Tail(s)))
<1>1. CASE s = <<"key", "lock", "remove", "syncdir">>
  <2>1. Head(s) = "key" /\ Tail(s) = <<"lock", "remove", "syncdir">> /\ Len(s) = 4 BY <1>1
  <2>2. Head(<<"lock", "remove", "syncdir">>) = "lock" OBVIOUS
  <2> QED BY <1>1, <2>1, <2>2 DEF DeleteLeft, Follows
<1>2. CASE s = <<"lock", "remove", "syncdir">>
  <2>1. Head(s) = "lock" /\ Tail(s) = <<"remove", "syncdir">> /\ Len(s) = 3 BY <1>2
  <2>2. Head(<<"remove", "syncdir">>) = "remove" OBVIOUS
  <2> QED BY <1>2, <2>1, <2>2 DEF DeleteLeft, Follows
<1>3. CASE s = <<"remove", "syncdir">>
  <2>1. Head(s) = "remove" /\ Tail(s) = <<"syncdir">> /\ Len(s) = 2 BY <1>3
  <2>2. Head(<<"syncdir">>) = "syncdir" OBVIOUS
  <2> QED BY <1>3, <2>1, <2>2 DEF DeleteLeft, Follows
<1>4. CASE s = <<"syncdir">>
  BY <1>4
<1> QED BY <1>1, <1>2, <1>3, <1>4 DEF DeleteLeft

LEMMA AuthorizeProgress ==
  ASSUME NEW o, o.kind = "authorize", NEW s \in AuthorizeLeft
  PROVE  /\ s # <<>> /\ Len(s) \in 1..8
         /\ Head(s) \in {"lock", "key", "make", "unlock", "try"}
         /\ Head(s) # "try" => Tail(s) \in AuthorizeLeft /\ Follows(o, Head(s), Head(Tail(s)))
<1>1. CASE s = <<"lock", "key", "make", "unlock", "try">>
  <2>1. Head(s) = "lock" /\ Tail(s) = <<"key", "make", "unlock", "try">> /\ Len(s) = 5 BY <1>1
  <2>2. Head(<<"key", "make", "unlock", "try">>) = "key" OBVIOUS
  <2> QED BY <1>1, <2>1, <2>2 DEF AuthorizeLeft, Follows
<1>2. CASE s = <<"key", "make", "unlock", "try">>
  <2>1. Head(s) = "key" /\ Tail(s) = <<"make", "unlock", "try">> /\ Len(s) = 4 BY <1>2
  <2>2. Head(<<"make", "unlock", "try">>) = "make" OBVIOUS
  <2> QED BY <1>2, <2>1, <2>2 DEF AuthorizeLeft, Follows
<1>3. CASE s = <<"make", "unlock", "try">>
  <2>1. Head(s) = "make" /\ Tail(s) = <<"unlock", "try">> /\ Len(s) = 3 BY <1>3
  <2>2. Head(<<"unlock", "try">>) = "unlock" OBVIOUS
  <2> QED BY <1>3, <2>1, <2>2 DEF AuthorizeLeft, Follows
<1>4. CASE s = <<"unlock", "try">>
  <2>1. Head(s) = "unlock" /\ Tail(s) = <<"try">> /\ Len(s) = 2 BY <1>4
  <2>2. Head(<<"try">>) = "try" OBVIOUS
  <2> QED BY <1>4, <2>1, <2>2 DEF AuthorizeLeft, Follows
<1>5. CASE s = <<"try">>
  BY <1>5
<1> QED BY <1>1, <1>2, <1>3, <1>4, <1>5 DEF AuthorizeLeft

(* A step that does not end its operation leads to the next one.             *)
LEMMA Progress ==
  ASSUME NEW o, NEW s, Placed(o, s), s # <<>>
  PROVE  /\ o # Idle /\ Len(s) \in 1..8
         /\ Head(s) \notin {"read", "syncdir", "try"} =>
              /\ Placed(o, Tail(s)) /\ Tail(s) # <<>> /\ Tail(s) \in Left
              /\ Follows(o, Head(s), Head(Tail(s)))
         /\ Head(s) = "read" => o.kind = "load"
         /\ Head(s) = "syncdir" => o.kind \in {"save", "delete"}
         /\ Head(s) = "try" => o.kind = "authorize"
<1>1. CASE o.kind = "load" /\ s \in LoadLeft
  <2>1. Head(s) # "read" => Tail(s) # <<>> BY <1>1, LoadProgress
  <2> QED BY <1>1, <2>1, LoadProgress DEF Placed, Left
<1>2. CASE o.kind = "save" /\ s \in SaveLeft
  <2>1. Head(s) # "syncdir" => Tail(s) # <<>> BY <1>2, SaveProgress
  <2> QED BY <1>2, <2>1, SaveProgress DEF Placed, Left
<1>3. CASE o.kind = "delete" /\ s \in DeleteLeft
  <2>1. Head(s) # "syncdir" => Tail(s) # <<>> BY <1>3, DeleteProgress
  <2> QED BY <1>3, <2>1, DeleteProgress DEF Placed, Left
<1>4. CASE o.kind = "authorize" /\ s \in AuthorizeLeft
  <2>1. Head(s) # "try" => Tail(s) # <<>> BY <1>4, AuthorizeProgress
  <2> QED BY <1>4, <2>1, AuthorizeProgress DEF Placed, Left
<1> QED BY <1>1, <1>2, <1>3, <1>4 DEF Placed

(* Where a call begins.                                                      *)
LEMMA ProgramBegins ==
  ASSUME NEW c \in Calls
  PROVE  /\ c # Idle /\ c.kind \in {"load", "delete", "authorize", "save"}
         /\ Placed(c, Program[c.kind]) /\ Program[c.kind] \in Left
         /\ Program[c.kind] # <<>>
         /\ Head(Program[c.kind]) = IF c.kind \in {"load", "delete"} THEN "key" ELSE "lock"
<1>1. c.kind \in {"load", "delete", "authorize", "save"} BY DEF Calls
<1>2. c # Idle BY <1>1 DEF Idle
<1>3. CASE c.kind = "load"
  <2>1. Program[c.kind] = <<"key", "lock", "read">> BY <1>3 DEF Program
  <2>2. Head(<<"key", "lock", "read">>) = "key" OBVIOUS
  <2> QED BY <1>2, <1>3, <2>1, <2>2 DEF Placed, Left, LoadLeft
<1>4. CASE c.kind = "save"
  <2>1. Program[c.kind] = <<"lock", "key", "make", "check", "write", "sync", "rename", "syncdir">>
    BY <1>4 DEF Program
  <2>2. Head(<<"lock", "key", "make", "check", "write", "sync", "rename", "syncdir">>) = "lock"
    OBVIOUS
  <2> QED BY <1>2, <1>4, <2>1, <2>2 DEF Placed, Left, SaveLeft
<1>5. CASE c.kind = "delete"
  <2>1. Program[c.kind] = <<"key", "lock", "remove", "syncdir">> BY <1>5 DEF Program
  <2>2. Head(<<"key", "lock", "remove", "syncdir">>) = "key" OBVIOUS
  <2> QED BY <1>2, <1>5, <2>1, <2>2 DEF Placed, Left, DeleteLeft
<1>6. CASE c.kind = "authorize"
  <2>1. Program[c.kind] = <<"lock", "key", "make", "unlock", "try">> BY <1>6 DEF Program
  <2>2. Head(<<"lock", "key", "make", "unlock", "try">>) = "lock" OBVIOUS
  <2> QED BY <1>2, <1>6, <2>1, <2>2 DEF Placed, Left, AuthorizeLeft
<1> QED BY <1>1, <1>3, <1>4, <1>5, <1>6
-----------------------------------------------------------------------------
(* The types of what one process's step changes, and of the rest.            *)
Answers == {"none", "loaded", "ok", "stale", "missing", "locked", "error"}

CallTyped ==
  /\ lock \in Procs \cup {NoProc} /\ temp \in [Procs -> Files \cup {Absent}]
  /\ key \in [Procs -> Procs \cup {NoKey}] /\ \A p \in Procs : Len(left[p]) \in 0..8
  /\ op \in [Procs -> Calls \cup {Idle}] /\ reply \in Answers \X (0..MaxGen)
  /\ nextGen \in 1..MaxGen + 1 /\ crashes \in 0..MaxCrashes

NamedTyped ==
  /\ keyring \in Procs \cup {NoKey} /\ auth \in [Ids -> Procs \cup {NoProc}]
  /\ dir \in [Ids -> Files \cup {Absent}]
  /\ disk \in [Ids -> SUBSET (Files \cup {Absent})]

LEMMA TypeParts == TypeOK <=> CallTyped /\ NamedTyped
  BY DEF TypeOK, CallTyped, NamedTyped, Answers

LEMMA TypePartsNext == TypeOK' <=> CallTyped' /\ NamedTyped'
  BY TypeParts, PTL

(* A return leaves its process idle.                                         *)
LEMMA ReturnShape ==
  ASSUME StoreAssumption, CallTyped, Placement,
         NEW p \in Procs, NEW a \in Answers, NEW g \in 0..MaxGen, Return(p, a, g)
  PROVE  CallTyped' /\ Placement'
<1>1. Len(<<>>) = 0 OBVIOUS
<1>2. <<>> \in Left BY DEF Left
<1>3. left'[p] = <<>> /\ op'[p] = Idle
  BY DEF Return, CallTyped, Placement
<1>4. \A q \in Procs : q # p => left'[q] = left[q] /\ op'[q] = op[q]
  BY DEF Return, CallTyped, Placement
<1>5. Placement'
  BY <1>2, <1>3, <1>4 DEF Return, Placement, Placed
<1>6. /\ lock' \in Procs \cup {NoProc} /\ temp' \in [Procs -> Files \cup {Absent}]
      /\ key' \in [Procs -> Procs \cup {NoKey}]
  BY DEF Return, CallTyped, Unlocked
<1>7. op' \in [Procs -> Calls \cup {Idle}] /\ reply' \in Answers \X (0..MaxGen)
  BY DEF Return, CallTyped
<1>8. \A q \in Procs : Len(left'[q]) \in 0..8
  BY <1>1, <1>3, <1>4 DEF CallTyped
<1>9. nextGen' \in 1..MaxGen + 1 /\ crashes' \in 0..MaxCrashes
  BY DEF Return, CallTyped
<1> QED BY <1>5, <1>6, <1>7, <1>8, <1>9 DEF CallTyped

(* Any other step leaves it at the next one.                                 *)
LEMMA AdvanceShape ==
  ASSUME StoreAssumption, CallTyped, Placement,
         NEW p \in Procs, left[p] # <<>>, Head(left[p]) \notin {"read", "syncdir", "try"},
         Advance(p)
  PROVE  /\ Placement' /\ \A q \in Procs : Len(left'[q]) \in 0..8
         /\ op' = op /\ reply' = reply /\ nextGen' = nextGen /\ crashes' = crashes
         /\ left'[p] # <<>> /\ Follows(op[p], Head(left[p]), Head(left'[p]))
<1>1. Placed(op[p], left[p]) BY DEF Placement
<1>2. left'[p] = Tail(left[p]) /\ \A q \in Procs : q # p => left'[q] = left[q]
  BY DEF Advance, Placement
<1>3. /\ Placed(op[p], Tail(left[p])) /\ Tail(left[p]) # <<>> /\ Tail(left[p]) \in Left
      /\ Follows(op[p], Head(left[p]), Head(Tail(left[p])))
  BY <1>1, Progress
<1>4. Len(Tail(left[p])) \in 0..8
  <2>1. Len(Tail(left[p])) \in 1..8 BY <1>3, Progress, Zenon
  <2> QED BY <2>1
<1>5. Placement'
  BY <1>2, <1>3 DEF Advance, Placement
<1> QED BY <1>2, <1>3, <1>4, <1>5 DEF Advance, CallTyped
Shape == TypeOK /\ Placement

(* Step by step: every action keeps the types and the place in the program.  *)
LEMMA InvokeShape ==
  ASSUME StoreAssumption, Shape, NEW p \in Procs, NEW c \in Calls, Invoke(p, c)
  PROVE  Shape'
<1> USE TypeParts DEF Shape
<1>1. left'[p] = Program[c.kind] /\ op'[p] = c
  BY DEF Invoke, CallTyped, Placement
<1>2. \A q \in Procs : q # p => left'[q] = left[q] /\ op'[q] = op[q]
  BY DEF Invoke, CallTyped, Placement
<1>3. Placed(c, Program[c.kind]) /\ Program[c.kind] \in Left /\ Program[c.kind] # <<>>
  BY ProgramBegins
<1>4. Placement'
  BY <1>1, <1>2, <1>3 DEF Invoke, Placement
<1>5. Len(Program[c.kind]) \in 0..8
  <2>1. Len(Program[c.kind]) \in 1..8 BY <1>3, Progress, Zenon
  <2> QED BY <2>1
<1>6. \A q \in Procs : Len(left'[q]) \in 0..8
  BY <1>1, <1>2, <1>5 DEF CallTyped
<1>7. nextGen' \in 1..MaxGen + 1
  BY DEF Invoke, CallTyped, StoreAssumption, Calls
<1>8. reply' \in Answers \X (0..MaxGen)
  BY DEF Invoke, NoReply, Answers, StoreAssumption
<1>9. CallTyped'
  BY <1>6, <1>7, <1>8 DEF Invoke, CallTyped, fileVars
<1>10. NamedTyped'
  BY DEF Invoke, NamedTyped, fileVars
<1> QED BY <1>4, <1>9, <1>10, TypePartsNext

LEMMA LockShape ==
  ASSUME StoreAssumption, Shape, NEW p \in Procs, Lock(p) \/ Unlock(p)
  PROVE  Shape'
<1> USE TypeParts DEF Shape
<1>1. left[p] # <<>> /\ Head(left[p]) \in {"lock", "unlock"} /\ Advance(p)
  BY DEF Lock, Unlock, At
<1>2. lock' \in Procs \cup {NoProc}
  BY DEF Lock, Unlock, Unlocked, CallTyped
<1> QED BY <1>1, <1>2, AdvanceShape, TypePartsNext
        DEF Lock, Unlock, CallTyped, NamedTyped, fileVars

LEMMA KeyShape ==
  ASSUME StoreAssumption, Shape, NEW p \in Procs, ReadKey(p) \/ MakeKey(p)
  PROVE  Shape'
<1> USE TypeParts DEF Shape
<1>1. CASE ReadKey(p) /\ keyring = NoKey /\ op[p].kind \in {"load", "delete"}
  <2>1. PICK a \in {"loaded", "missing"} : Return(p, a, 0)
    BY <1>1 DEF ReadKey
  <2>2. CallTyped' /\ Placement'
    BY <2>1, ReturnShape DEF Answers, StoreAssumption
  <2> QED BY <1>1, <2>2, TypePartsNext DEF ReadKey, NamedTyped
<1>2. CASE ReadKey(p) /\ ~(keyring = NoKey /\ op[p].kind \in {"load", "delete"})
  <2>1. left[p] # <<>> /\ Head(left[p]) = "key" /\ Advance(p)
    BY <1>2 DEF ReadKey, At
  <2>2. key' \in [Procs -> Procs \cup {NoKey}]
    BY <1>2 DEF ReadKey, CallTyped, NamedTyped
  <2> QED BY <1>2, <2>1, <2>2, AdvanceShape, TypePartsNext
          DEF ReadKey, CallTyped, NamedTyped, fileVars
<1>3. CASE MakeKey(p)
  <2>1. left[p] # <<>> /\ Head(left[p]) = "make" /\ Advance(p)
    BY <1>3 DEF MakeKey, At
  <2>2. key' \in [Procs -> Procs \cup {NoKey}] /\ keyring' \in Procs \cup {NoKey}
    BY <1>3 DEF MakeKey, CallTyped, NamedTyped
  <2> QED BY <1>3, <2>1, <2>2, AdvanceShape, TypePartsNext
          DEF MakeKey, CallTyped, NamedTyped, fileVars
<1> QED BY <1>1, <1>2, <1>3

LEMMA GenType ==
  ASSUME StoreAssumption, NEW f \in Files \cup {Absent}
  PROVE  Gen(f) \in 0..MaxGen
  BY DEF StoreAssumption, Gen, Files

(* The record an operation is about, once its key is known.                  *)
LEMMA IdType ==
  ASSUME StoreAssumption, Shape, NEW p \in Procs, op[p] # Idle, key[p] # NoKey
  PROVE  /\ key[p] \in Procs /\ op[p].who \in Identities /\ Id(p) \in Ids
         /\ Id(p) = <<key[p], op[p].who>>
  BY DEF Shape, TypeOK, Id, opaqueID, Ids, Calls
LEMMA CurrentId ==
  ASSUME StoreAssumption, Shape, OneKey, NEW p \in Procs, Keyed(p)
  PROVE  /\ op[p] # Idle /\ op[p].who \in Identities
         /\ key[p] = keyring /\ keyring \in Procs
         /\ Id(p) \in Ids /\ Id(p) = opaqueID(keyring, op[p].who)
<1>1. left[p] # <<>> BY DEF Keyed, At
<1>2. op[p] # Idle BY <1>1, Progress DEF Shape, Placement
<1>3. key[p] # NoKey /\ key[p] = keyring BY DEF OneKey
<1> QED BY <1>2, <1>3, IdType DEF opaqueID

(* What steps under a known key find in the record's file.                   *)
LEMMA FoundType ==
  ASSUME StoreAssumption, Shape, OneKey, NEW p \in Procs, Keyed(p)
  PROVE  dir[Id(p)] \in Files \cup {Absent} /\ Gen(dir[Id(p)]) \in 0..MaxGen
  BY CurrentId, GenType DEF Shape, TypeOK

LEMMA ReadShape ==
  ASSUME StoreAssumption, Shape, OneKey, NEW p \in Procs, ReadRecord(p) \/ CheckGeneration(p)
  PROVE  Shape'
<1> USE TypeParts DEF Shape
<1>1. Keyed(p) BY DEF ReadRecord, CheckGeneration, Keyed
<1>2. CASE CheckGeneration(p) /\ Advance(p) /\ UNCHANGED <<key, lock, temp>>
  <2>1. left[p] # <<>> /\ Head(left[p]) = "check"
    BY <1>2 DEF CheckGeneration, At
  <2> QED BY <1>2, <2>1, AdvanceShape, TypePartsNext
          DEF CheckGeneration, CallTyped, NamedTyped
<1>3. ASSUME NEW a \in Answers, NEW g \in 0..MaxGen, Return(p, a, g)
      PROVE  Shape'
  <2>1. CallTyped' /\ Placement' BY <1>3, ReturnShape
  <2> QED BY <2>1, TypePartsNext DEF ReadRecord, CheckGeneration, NamedTyped
<1>4. CASE ReadRecord(p)
  <2>1. Return(p, "error", 0) \/ Return(p, "loaded", Gen(dir[Id(p)]))
    BY <1>4 DEF ReadRecord
  <2> QED BY <1>1, <1>3, <2>1, FoundType DEF Answers, StoreAssumption
<1>5. CASE CheckGeneration(p) /\ (Return(p, "error", 0) \/ Return(p, "stale", 0))
  BY <1>3, <1>5 DEF Answers, StoreAssumption
<1> QED BY <1>2, <1>4, <1>5 DEF CheckGeneration

LEMMA WriteShape ==
  ASSUME StoreAssumption, Shape, FilesWhole, NEW p \in Procs,
         WriteTemp(p) \/ WriteFails(p) \/ SyncTemp(p)
  PROVE  Shape'
<1> USE TypeParts DEF Shape
<1>1. left[p] # <<>> /\ Head(left[p]) \in {"write", "sync"} /\ Advance(p)
  BY DEF WriteTemp, WriteFails, SyncTemp, At
<1>2. temp' \in [Procs -> Files \cup {Absent}]
  <2>1. CASE WriteTemp(p) \/ WriteFails(p)
    <3>1. op[p].kind = "save" /\ op[p] # Idle
      BY <1>1, <2>1, Progress DEF WriteTemp, WriteFails, At, Placement, Follows
    <3>2. op[p].gen \in 0..MaxGen
      BY <3>1 DEF CallTyped, Calls, StoreAssumption
    <3> QED BY <2>1, <3>2 DEF WriteTemp, WriteFails, CallTyped, Files
  <2>2. CASE SyncTemp(p)
    <3>1. temp[p] \in Files BY <2>2 DEF SyncTemp, FilesWhole, CallTyped
    <3> QED BY <2>2, <3>1 DEF SyncTemp, CallTyped, Files
  <2> QED BY <2>1, <2>2
<1> QED BY <1>1, <1>2, AdvanceShape, TypePartsNext
        DEF WriteTemp, WriteFails, SyncTemp, CallTyped, NamedTyped

LEMMA RecordShape ==
  ASSUME StoreAssumption, Shape, OneKey, FilesWhole, NEW p \in Procs,
         Rename(p) \/ RemoveRecord(p) \/ SyncDirectory(p)
  PROVE  Shape'
<1> USE TypeParts DEF Shape
<1>1. CASE Rename(p)
  <2>1. left[p] # <<>> /\ Head(left[p]) = "rename" /\ Advance(p)
    BY <1>1 DEF Rename, At
  <2>2. temp[p] \in Files BY <1>1 DEF Rename, FilesWhole, CallTyped
  <2>3. NamedTyped' BY <1>1, <2>2 DEF Rename, Put, NamedTyped
  <2>4. temp' \in [Procs -> Files \cup {Absent}] BY <1>1 DEF Rename, CallTyped
  <2> QED BY <1>1, <2>1, <2>3, <2>4, AdvanceShape, TypePartsNext DEF Rename, CallTyped
<1>2. CASE RemoveRecord(p) /\ dir[Id(p)] = Absent
  <2>1. Return(p, "missing", 0) BY <1>2 DEF RemoveRecord
  <2>2. CallTyped' /\ Placement' BY <2>1, ReturnShape DEF Answers, StoreAssumption
  <2> QED BY <1>2, <2>2, TypePartsNext DEF RemoveRecord, NamedTyped
<1>3. CASE RemoveRecord(p) /\ dir[Id(p)] # Absent
  <2>1. left[p] # <<>> /\ Head(left[p]) = "remove" /\ Advance(p)
    BY <1>3 DEF RemoveRecord, At
  <2>2. NamedTyped' BY <1>3 DEF RemoveRecord, Put, NamedTyped
  <2> QED BY <1>3, <2>1, <2>2, AdvanceShape, TypePartsNext DEF RemoveRecord, CallTyped
<1>4. CASE SyncDirectory(p)
  <2>1. Return(p, "ok", 0) BY <1>4 DEF SyncDirectory
  <2>2. CallTyped' /\ Placement' BY <2>1, ReturnShape DEF Answers, StoreAssumption
  <2>3. NamedTyped' BY <1>4 DEF SyncDirectory, NamedTyped
  <2> QED BY <2>2, <2>3, TypePartsNext
<1> QED BY <1>1, <1>2, <1>3, <1>4

LEMMA LeaseShape ==
  ASSUME StoreAssumption, Shape, NEW p \in Procs,
         TryAuthorization(p) \/ ReleaseAuthorization(p) \/ Fail(p)
  PROVE  Shape'
<1> USE TypeParts DEF Shape
<1>1. CASE TryAuthorization(p)
  <2>1. Return(p, "ok", 0) \/ Return(p, "locked", 0) BY <1>1 DEF TryAuthorization
  <2>2. CallTyped' /\ Placement' BY <2>1, ReturnShape DEF Answers, StoreAssumption
  <2>3. NamedTyped' BY <1>1 DEF TryAuthorization, NamedTyped
  <2> QED BY <2>2, <2>3, TypePartsNext
<1>2. CASE ReleaseAuthorization(p)
  <2>1. NamedTyped' BY <1>2 DEF ReleaseAuthorization, NamedTyped, fileVars
  <2> QED BY <1>2, <2>1, TypePartsNext
          DEF ReleaseAuthorization, CallTyped, Placement, fileVars, callVars
<1>3. CASE Fail(p)
  <2>1. Return(p, "error", 0) BY <1>3 DEF Fail
  <2>2. CallTyped' /\ Placement' BY <2>1, ReturnShape DEF Answers, StoreAssumption
  <2> QED BY <1>3, <2>2, TypePartsNext DEF Fail, NamedTyped
<1> QED BY <1>1, <1>2, <1>3

LEMMA CrashShape ==
  ASSUME StoreAssumption, Shape, NEW p \in Procs, Crash(p)
  PROVE  Shape'
<1> USE TypeParts DEF Shape
<1>1. Len(<<>>) = 0 OBVIOUS
<1>2. <<>> \in Left BY DEF Left
<1>3. left'[p] = <<>> /\ op'[p] = Idle
  BY DEF Crash, CallTyped, Placement
<1>4. \A q \in Procs : q # p => left'[q] = left[q] /\ op'[q] = op[q]
  BY DEF Crash, CallTyped, Placement
<1>5. Placement'
  BY <1>2, <1>3, <1>4 DEF Crash, Placement, Placed
<1>6. \A q \in Procs : Len(left'[q]) \in 0..8
  BY <1>1, <1>3, <1>4 DEF CallTyped
<1>7. /\ lock' \in Procs \cup {NoProc} /\ temp' \in [Procs -> Files \cup {Absent}]
      /\ key' \in [Procs -> Procs \cup {NoKey}] /\ op' \in [Procs -> Calls \cup {Idle}]
  BY DEF Crash, CallTyped, Unlocked
<1>8. /\ reply' \in Answers \X (0..MaxGen)
      /\ nextGen' \in 1..MaxGen + 1 /\ crashes' \in 0..MaxCrashes
  BY DEF Crash, CallTyped, NoReply, Answers, StoreAssumption
<1>9. NamedTyped'
  BY DEF Crash, Dropped, NamedTyped
<1> QED BY <1>5, <1>6, <1>7, <1>8, <1>9, TypePartsNext DEF CallTyped

LEMMA SurvivingType ==
  ASSUME StoreAssumption, NEW f \in Files \cup {Absent}
  PROVE  Surviving(f) \in Files \cup {Absent} /\ Gen(Surviving(f)) = Gen(f)
  BY DEF StoreAssumption, Surviving, Files, Gen

LEMMA MachineCrashShape ==
  ASSUME StoreAssumption, Shape, MachineCrash
  PROVE  Shape'
<1> USE TypeParts DEF Shape
<1>1. Len(<<>>) = 0 OBVIOUS
<1>2. <<>> \in Left BY DEF Left
<1>3. Placement'
  BY <1>2 DEF MachineCrash, Placement, Placed
<1>4. \A q \in Procs : Len(left'[q]) \in 0..8
  BY <1>1 DEF MachineCrash
<1>5. /\ lock' \in Procs \cup {NoProc} /\ temp' \in [Procs -> Files \cup {Absent}]
      /\ key' \in [Procs -> Procs \cup {NoKey}] /\ op' \in [Procs -> Calls \cup {Idle}]
  BY DEF MachineCrash
<1>6. /\ reply' \in Answers \X (0..MaxGen)
      /\ nextGen' \in 1..MaxGen + 1 /\ crashes' \in 0..MaxCrashes
  BY DEF MachineCrash, CallTyped, NoReply, Answers, StoreAssumption
<1>7. PICK kept \in [Ids -> UNION {disk[id] : id \in Ids}] :
       /\ \A id \in Ids : kept[id] \in disk[id]
       /\ dir' = [id \in Ids |-> Surviving(kept[id])]
       /\ disk' = [id \in Ids |-> {Surviving(kept[id])}]
  BY DEF MachineCrash
<1>8. \A id \in Ids : Surviving(kept[id]) \in Files \cup {Absent}
  BY <1>7, SurvivingType DEF NamedTyped
<1>9. NamedTyped'
  BY <1>7, <1>8 DEF MachineCrash, NamedTyped
<1> QED BY <1>3, <1>4, <1>5, <1>6, <1>9, TypePartsNext DEF CallTyped

LEMMA ShapeStep ==
  ASSUME StoreAssumption, Shape, OneKey, FilesWhole, [Next]_vars
  PROVE  Shape'
<1>1. CASE UNCHANGED vars
  BY <1>1 DEF vars, fileVars, callVars, Shape, TypeOK, Placement
<1> QED
  BY <1>1, InvokeShape, LockShape, KeyShape, ReadShape, WriteShape, RecordShape, LeaseShape,
     CrashShape, MachineCrashShape DEF Next, Step
-----------------------------------------------------------------------------
(* A process's step leaves the others where they are.                        *)
Acts(p) == (\E c \in Calls : Invoke(p, c)) \/ Step(p) \/ ReleaseAuthorization(p) \/ Fail(p) \/ Crash(p)

LEMMA OthersStay ==
  ASSUME StoreAssumption, Shape, NEW p \in Procs, Acts(p), NEW q \in Procs, q # p
  PROVE  /\ left'[q] = left[q] /\ op'[q] = op[q] /\ key'[q] = key[q] /\ temp'[q] = temp[q]
         /\ lock = q => lock' = q
<1> USE DEF Shape, TypeOK, Placement, StoreAssumption
<1>1. CASE \E c \in Calls : Invoke(p, c)
  BY <1>1 DEF Invoke, fileVars
<1>2. ASSUME NEW a, NEW g, Return(p, a, g)
      PROVE  /\ left'[q] = left[q] /\ op'[q] = op[q] /\ key'[q] = key[q] /\ temp'[q] = temp[q]
             /\ lock = q => lock' = q
  BY <1>2 DEF Return, Unlocked
<1>3. ASSUME Advance(p)
      PROVE  left'[q] = left[q] /\ op'[q] = op[q]
  BY <1>3 DEF Advance
<1>4. CASE Lock(p) \/ Unlock(p)
  BY <1>3, <1>4 DEF Lock, Unlock, Unlocked, fileVars
<1>5. CASE ReadKey(p) \/ MakeKey(p)
  BY <1>2, <1>3, <1>5 DEF ReadKey, MakeKey, fileVars
<1>6. CASE ReadRecord(p) \/ CheckGeneration(p)
  BY <1>2, <1>3, <1>6 DEF ReadRecord, CheckGeneration
<1>7. CASE WriteTemp(p) \/ WriteFails(p) \/ SyncTemp(p) \/ Rename(p)
  BY <1>3, <1>7 DEF WriteTemp, WriteFails, SyncTemp, Rename
<1>8. CASE RemoveRecord(p) \/ SyncDirectory(p)
  BY <1>2, <1>3, <1>8 DEF RemoveRecord, SyncDirectory
<1>9. CASE TryAuthorization(p) \/ Fail(p)
  BY <1>2, <1>9 DEF TryAuthorization, Fail
<1>10. CASE ReleaseAuthorization(p)
  BY <1>10 DEF ReleaseAuthorization, fileVars, callVars
<1>11. CASE Crash(p)
  BY <1>11 DEF Crash, Unlocked
<1> QED
  BY <1>1, <1>4, <1>5, <1>6, <1>7, <1>8, <1>9, <1>10, <1>11 DEF Acts, Step

(* Where a process's own step leads: to the next step, or out of the         *)
(* operation with nothing held.                                              *)
Idles(p) == left'[p] = <<>> /\ op'[p] = Idle /\ key'[p] = NoKey

Moves(p, h) ==
  /\ left[p] # <<>> /\ Head(left[p]) = h
  /\ left'[p] # <<>> /\ op' = op /\ Follows(op[p], h, Head(left'[p]))

LEMMA OwnReturn ==
  ASSUME Shape, NEW p \in Procs, NEW a, NEW g, Return(p, a, g)
  PROVE  Idles(p)
  BY DEF Return, Idles, Shape, TypeOK, Placement

LEMMA OwnAdvance ==
  ASSUME StoreAssumption, Shape, NEW p \in Procs, NEW h, At(p, h), Advance(p),
         h \notin {"read", "syncdir", "try"}
  PROVE  Moves(p, h)
  BY AdvanceShape, TypeParts DEF At, Moves, Shape

LEMMA OwnStep ==
  ASSUME StoreAssumption, Shape, NEW p \in Procs, Step(p)
  PROVE  \/ Idles(p)
         \/ Lock(p) /\ Moves(p, "lock")
         \/ Unlock(p) /\ Moves(p, "unlock")
         \/ /\ ReadKey(p) /\ Moves(p, "key")
            /\ ~(keyring = NoKey /\ op[p].kind \in {"load", "delete"})
         \/ MakeKey(p) /\ Moves(p, "make")
         \/ /\ CheckGeneration(p) /\ Moves(p, "check")
            /\ op[p].fresh \/ Gen(dir[Id(p)]) = op[p].gen
         \/ (WriteTemp(p) \/ WriteFails(p)) /\ Moves(p, "write")
         \/ SyncTemp(p) /\ Moves(p, "sync")
         \/ Rename(p) /\ Moves(p, "rename")
         \/ RemoveRecord(p) /\ Moves(p, "remove") /\ Put(Id(p), Absent)
<1>1. CASE Lock(p) \/ Unlock(p)
  BY <1>1, OwnAdvance DEF Lock, Unlock
<1>2. CASE ReadKey(p)
  BY <1>2, OwnAdvance, OwnReturn DEF ReadKey
<1>3. CASE MakeKey(p)
  BY <1>3, OwnAdvance DEF MakeKey
<1>4. CASE ReadRecord(p) \/ SyncDirectory(p) \/ TryAuthorization(p)
  BY <1>4, OwnReturn DEF ReadRecord, SyncDirectory, TryAuthorization
<1>5. CASE CheckGeneration(p)
  BY <1>5, OwnAdvance, OwnReturn DEF CheckGeneration, Gen
<1>6. CASE WriteTemp(p) \/ WriteFails(p) \/ SyncTemp(p)
  BY <1>6, OwnAdvance DEF WriteTemp, WriteFails, SyncTemp
<1>7. CASE Rename(p)
  BY <1>7, OwnAdvance DEF Rename
<1>8. CASE RemoveRecord(p)
  BY <1>8, OwnAdvance, OwnReturn DEF RemoveRecord
<1> QED BY <1>1, <1>2, <1>3, <1>4, <1>5, <1>6, <1>7, <1>8 DEF Step

-----------------------------------------------------------------------------
(* The flock: whoever is between taking and giving it back holds it.         *)
LEMMA ExclusiveStep ==
  ASSUME StoreAssumption, Shape, Exclusive, [Next]_vars
  PROVE  Exclusive'
<1>1. CASE UNCHANGED vars
  BY <1>1 DEF vars, fileVars, callVars, Exclusive, InLock, At
<1>2. CASE MachineCrash
  BY <1>2 DEF MachineCrash, Exclusive, InLock, At
<1>3. ASSUME NEW p \in Procs, Acts(p), NEW q \in Procs, InLock(q)'
      PROVE  lock' = q
  <2>1. CASE q # p
    <3>1. InLock(q) BY <1>3, <2>1, OthersStay DEF InLock, At
    <3> QED BY <1>3, <2>1, <3>1, OthersStay DEF Exclusive
  <2>2. CASE q = p /\ Step(p)
    <3>1. ~Idles(p) BY <1>3, <2>2 DEF Idles, InLock, At
    <3>2. CASE Lock(p)
      BY <2>2, <3>2 DEF Lock
    <3>3. CASE Unlock(p) /\ Moves(p, "unlock")
      BY <1>3, <2>2, <3>3 DEF Moves, Follows, InLock, At
    <3>4. CASE ReadKey(p) /\ Moves(p, "key") /\ ~(keyring = NoKey /\ op[p].kind \in {"load", "delete"})
      <4>1. UNCHANGED lock BY <3>4 DEF ReadKey
      <4>2. op[p].kind \in {"save", "authorize"}
        <5>1. op[p] # Idle /\ op[p].kind \in {"load", "save", "delete", "authorize"}
          BY <3>4, Progress DEF Moves, Shape, Placement, Placed
        <5> QED BY <1>3, <2>2, <3>4, <5>1 DEF Moves, Follows, InLock, At
      <4>3. InLock(p) BY <3>4, <4>2 DEF Moves, InLock, At
      <4> QED BY <2>2, <4>1, <4>3 DEF Exclusive
    <3>5. CASE \/ MakeKey(p) /\ Moves(p, "make")
               \/ CheckGeneration(p) /\ Moves(p, "check")
               \/ (WriteTemp(p) \/ WriteFails(p)) /\ Moves(p, "write")
               \/ SyncTemp(p) /\ Moves(p, "sync")
               \/ Rename(p) /\ Moves(p, "rename")
               \/ RemoveRecord(p) /\ Moves(p, "remove") /\ Put(Id(p), Absent)
      <4>1. InLock(p) BY <3>5 DEF Moves, InLock, At
      <4>2. UNCHANGED lock
        <5>1. ASSUME NEW a, NEW g PROVE ~Return(p, a, g)
          BY <3>1, OwnReturn
        <5> QED BY <3>5, <5>1
                DEF MakeKey, CheckGeneration, WriteTemp, WriteFails, SyncTemp, Rename, RemoveRecord
      <4> QED BY <2>2, <4>1, <4>2 DEF Exclusive
    <3> QED BY <2>2, <3>1, <3>2, <3>3, <3>4, <3>5, OwnStep
  <2>3. CASE q = p /\ \E c \in Calls : Invoke(p, c)
    <3>1. PICK c \in Calls : Invoke(p, c) BY <2>3
    <3>2. left'[p] = Program[c.kind] /\ op'[p] = c
      BY <3>1 DEF Invoke, Shape, TypeOK, Placement
    <3> QED BY <1>3, <2>3, <3>2, ProgramBegins DEF InLock, At
  <2>4. CASE q = p /\ (Fail(p) \/ Crash(p))
    <3>1. left'[p] = <<>>
      BY <2>4 DEF Fail, Return, Crash, Shape, Placement
    <3> QED BY <1>3, <2>4, <3>1 DEF InLock, At
  <2>5. CASE q = p /\ ReleaseAuthorization(p)
    <3>1. left' = left /\ op' = op /\ lock' = lock
      BY <2>5 DEF ReleaseAuthorization, fileVars, callVars
    <3> QED BY <1>3, <2>5, <3>1 DEF InLock, At, Exclusive
  <2> QED BY <1>3, <2>1, <2>2, <2>3, <2>4, <2>5 DEF Acts
<1> QED BY <1>1, <1>2, <1>3 DEF Next, Acts, Exclusive

-----------------------------------------------------------------------------
(* The master key is made once, by a process that is alone in making it.     *)
LEMMA KeyringKept ==
  ASSUME StoreAssumption, [Next]_vars, keyring' # keyring
  PROVE  \E p \in Procs : MakeKey(p) /\ key[p] = NoKey /\ keyring' = p
<1>1. CASE UNCHANGED vars \/ MachineCrash
  BY <1>1 DEF vars, MachineCrash
<1>2. ASSUME NEW p \in Procs, Acts(p), ~MakeKey(p)
      PROVE  keyring' = keyring
  BY <1>2 DEF Acts, Step, Invoke, Lock, Unlock, ReadKey, ReadRecord, CheckGeneration, WriteTemp,
              WriteFails, SyncTemp, Rename, RemoveRecord, SyncDirectory, TryAuthorization,
              ReleaseAuthorization, Fail, Crash
<1>3. ASSUME NEW p \in Procs, MakeKey(p)
      PROVE  key[p] = NoKey /\ keyring' = p
  BY <1>3 DEF MakeKey
<1> QED BY <1>1, <1>2, <1>3 DEF Next, Acts, Step

LEMMA KeyringFirst ==
  ASSUME StoreAssumption, OneKey, [Next]_vars, keyring' # keyring
  PROVE  keyring = NoKey
  BY KeyringKept DEF MakeKey, OneKey

LEMMA KeysAgree ==
  ASSUME StoreAssumption, Shape, OneKey, [Next]_vars, NEW q \in Procs, key'[q] # NoKey
  PROVE  key'[q] = keyring'
<1>1. CASE UNCHANGED vars
  BY <1>1 DEF vars, callVars, OneKey
<1>2. CASE MachineCrash
  BY <1>2 DEF MachineCrash
<1>3. ASSUME NEW p \in Procs, Acts(p), q # p
      PROVE  key'[q] = keyring'
  <2>1. key[q] = keyring /\ key'[q] = key[q] BY <1>3, OthersStay DEF OneKey
  <2> QED BY <2>1, KeyringFirst
<1>4. CASE Acts(q)
  <2>1. CASE ReadKey(q) \/ MakeKey(q)
    <3>1. ASSUME NEW a, NEW g PROVE ~Return(q, a, g)
      BY OwnReturn DEF Idles
    <3> QED BY <2>1, <3>1 DEF ReadKey, MakeKey, OneKey, Shape, TypeOK
  <2>2. CASE ~ReadKey(q) /\ ~MakeKey(q) /\ Step(q)
    <3>1. ASSUME NEW a, NEW g PROVE ~Return(q, a, g)
      BY OwnReturn DEF Idles
    <3>2. UNCHANGED <<key, keyring>>
      BY <2>2, <3>1 DEF Step, Lock, Unlock, ReadRecord, CheckGeneration, WriteTemp, WriteFails,
                 SyncTemp, Rename, RemoveRecord, SyncDirectory, TryAuthorization
    <3> QED BY <3>2 DEF OneKey
  <2>3. CASE (\E c \in Calls : Invoke(q, c)) \/ Fail(q) \/ Crash(q)
    BY <2>3 DEF Invoke, Fail, Return, Crash, Shape, TypeOK
  <2>4. CASE ReleaseAuthorization(q)
    BY <2>4 DEF ReleaseAuthorization, callVars, OneKey
  <2> QED BY <1>4, <2>1, <2>2, <2>3, <2>4 DEF Acts
<1> QED BY <1>1, <1>2, <1>3, <1>4 DEF Next, Acts

LEMMA KeyedStep ==
  ASSUME StoreAssumption, Shape, OneKey, [Next]_vars, NEW q \in Procs, Keyed(q)'
  PROVE  key'[q] # NoKey
<1>1. CASE UNCHANGED vars
  BY <1>1 DEF vars, callVars, OneKey, Keyed, At
<1>2. CASE MachineCrash
  BY <1>2 DEF MachineCrash, Keyed, At
<1>3. ASSUME NEW p \in Procs, Acts(p), q # p
      PROVE  key'[q] # NoKey
  BY <1>3, OthersStay DEF Keyed, At, OneKey
<1>4. CASE Step(q)
  <2>1. ~Idles(q) BY DEF Idles, Keyed, At
  <2>2. ASSUME NEW a, NEW g PROVE ~Return(q, a, g)
    BY <2>1, OwnReturn
  <2>3. CASE ReadKey(q) /\ Moves(q, "key") /\ ~(keyring = NoKey /\ op[q].kind \in {"load", "delete"})
    <3>1. op[q].kind \in {"load", "save", "delete", "authorize"}
      BY <2>3, Progress DEF Moves, Shape, Placement, Placed
    <3>2. op[q].kind \in {"load", "delete"}
      BY <2>3, <3>1 DEF Moves, Follows, Keyed, At
    <3> QED BY <2>2, <2>3, <3>2 DEF ReadKey, Shape, TypeOK
  <2>4. CASE MakeKey(q)
    BY <2>4 DEF MakeKey, Shape, TypeOK, StoreAssumption
  <2>5. CASE Lock(q) /\ Moves(q, "lock")
    <3>1. op[q].kind \in {"load", "save", "delete", "authorize"}
      BY <2>5, Progress DEF Moves, Shape, Placement, Placed
    <3>2. op[q].kind \in {"load", "delete"}
      BY <2>5, <3>1 DEF Moves, Follows, Keyed, At
    <3>3. Keyed(q) BY <2>5, <3>2 DEF Moves, Keyed, At
    <3> QED BY <2>5, <3>3 DEF Lock, OneKey
  <2>6. CASE \/ Unlock(q) /\ Moves(q, "unlock")
             \/ CheckGeneration(q) /\ Moves(q, "check")
             \/ (WriteTemp(q) \/ WriteFails(q)) /\ Moves(q, "write")
             \/ SyncTemp(q) /\ Moves(q, "sync")
             \/ Rename(q) /\ Moves(q, "rename")
             \/ RemoveRecord(q) /\ Moves(q, "remove") /\ Put(Id(q), Absent)
    <3>1. Keyed(q) BY <2>6 DEF Moves, Keyed, At
    <3>2. UNCHANGED key
      BY <2>2, <2>6 DEF Unlock, CheckGeneration, WriteTemp, WriteFails, SyncTemp, Rename, RemoveRecord
    <3> QED BY <3>1, <3>2 DEF OneKey
  <2> QED BY <1>4, <2>1, <2>3, <2>4, <2>5, <2>6, OwnStep
<1>5. CASE \E c \in Calls : Invoke(q, c)
  <2>1. PICK c \in Calls : Invoke(q, c) BY <1>5
  <2>2. left'[q] = Program[c.kind] /\ op'[q] = c
    BY <2>1 DEF Invoke, Shape, TypeOK, Placement
  <2> QED BY <2>2, ProgramBegins DEF Keyed, At
<1>6. CASE Fail(q) \/ Crash(q)
  <2>1. left'[q] = <<>>
    BY <1>6 DEF Fail, Return, Crash, Shape, Placement
  <2> QED BY <2>1 DEF Keyed, At
<1>7. CASE ReleaseAuthorization(q)
  BY <1>7 DEF ReleaseAuthorization, callVars, Keyed, At, OneKey
<1> QED BY <1>1, <1>2, <1>3, <1>4, <1>5, <1>6, <1>7 DEF Next, Acts

LEMMA MakerAlone ==
  ASSUME StoreAssumption, Shape, OneKey, Exclusive, [Next]_vars, NEW q \in Procs,
         At(q, "make")', key'[q] = NoKey
  PROVE  keyring' = NoKey
<1>1. CASE UNCHANGED vars
  BY <1>1 DEF vars, callVars, OneKey, At
<1>2. CASE MachineCrash
  BY <1>2 DEF MachineCrash, At
<1>3. ASSUME NEW p \in Procs, Acts(p), q # p
      PROVE  keyring' = NoKey
  <2>1. At(q, "make") /\ key[q] = NoKey BY <1>3, OthersStay DEF At
  <2>2. keyring = NoKey /\ lock = q BY <2>1 DEF OneKey, Exclusive, InLock
  <2>3. keyring' = keyring
    <3> SUFFICES ASSUME keyring' # keyring PROVE FALSE OBVIOUS
    <3>1. PICK m \in Procs : MakeKey(m) /\ keyring' = m BY KeyringKept
    <3>2. lock = m BY <3>1 DEF MakeKey, Exclusive, InLock
    <3> QED BY <2>1, <2>2, <3>1, <3>2, OwnAdvance DEF MakeKey, Moves, Follows, At, Shape, TypeOK, StoreAssumption
  <2> QED BY <2>2, <2>3
<1>4. CASE Step(q)
  <2>1. ~Idles(q) BY DEF Idles, At
  <2>2. ASSUME NEW a, NEW g PROVE ~Return(q, a, g)
    BY <2>1, OwnReturn
  <2>3. CASE ReadKey(q)
    BY <2>2, <2>3 DEF ReadKey, Shape, TypeOK
  <2>4. ~ReadKey(q) => FALSE
    <3>1. ASSUME NEW h, Moves(q, h), h \notin {"read", "syncdir", "try"}
          PROVE  h = "key"
      <4>1. Placed(op[q], left[q]) /\ op[q].kind \in {"load", "save", "delete", "authorize"}
        BY <3>1 DEF Moves, Shape, Placement, Placed
      <4> QED BY <3>1, <4>1, LoadProgress, SaveProgress, DeleteProgress, AuthorizeProgress
              DEF Moves, Follows, At, Placed
    <3> QED BY <1>4, <2>1, <3>1, OwnStep
  <2> QED BY <2>3, <2>4
<1>5. CASE \E c \in Calls : Invoke(q, c)
  <2>1. PICK c \in Calls : Invoke(q, c) BY <1>5
  <2>2. left'[q] = Program[c.kind]
    BY <2>1 DEF Invoke, Shape, TypeOK, Placement
  <2> QED BY <2>2, ProgramBegins DEF At
<1>6. CASE Fail(q) \/ Crash(q)
  <2>1. left'[q] = <<>>
    BY <1>6 DEF Fail, Return, Crash, Shape, Placement
  <2> QED BY <2>1 DEF At
<1>7. CASE ReleaseAuthorization(q)
  BY <1>7 DEF ReleaseAuthorization, callVars, At, OneKey
<1> QED BY <1>1, <1>2, <1>3, <1>4, <1>5, <1>6, <1>7 DEF Next, Acts

(* What has a name, and what the disk may hold, has it under that key.       *)
Unnamed(k) == \A i \in Identities :
  /\ auth[opaqueID(k, i)] = NoProc
  /\ dir[opaqueID(k, i)] = Absent /\ disk[opaqueID(k, i)] = {Absent}

LEMMA OtherKeysUnused ==
  ASSUME StoreAssumption, Shape, OneKey, [Next]_vars, NEW k \in Procs, k # keyring
  PROVE  Unnamed(k)'
<1> USE DEF Unnamed
<1>1. Unnamed(k) BY DEF OneKey
<1>2. \A i \in Identities : opaqueID(k, i) \in Ids BY DEF opaqueID, Ids
<1>3. ASSUME UNCHANGED <<auth, dir, disk>> PROVE Unnamed(k)'
  BY <1>1, <1>3
<1>4. CASE UNCHANGED vars
  BY <1>3, <1>4 DEF vars, fileVars
<1>5. CASE MachineCrash
  <2>1. PICK kept \in [Ids -> UNION {disk[id] : id \in Ids}] :
         /\ \A id \in Ids : kept[id] \in disk[id]
         /\ dir' = [id \in Ids |-> Surviving(kept[id])]
         /\ disk' = [id \in Ids |-> {Surviving(kept[id])}]
    BY <1>5 DEF MachineCrash
  <2>2. \A i \in Identities : Surviving(kept[opaqueID(k, i)]) = Absent
    BY <1>1, <1>2, <2>1 DEF Surviving
  <2> QED BY <1>2, <1>5, <2>1, <2>2 DEF MachineCrash
<1>6. ASSUME NEW p \in Procs, Acts(p) PROVE Unnamed(k)'
  <2>1. ASSUME Keyed(p), NEW i \in Identities PROVE Id(p) # opaqueID(k, i)
    BY <2>1, CurrentId DEF opaqueID
  <2>2. CASE Rename(p) \/ RemoveRecord(p)
    <3>1. Keyed(p) BY <2>2 DEF Rename, RemoveRecord, Keyed
    <3>2. UNCHANGED auth /\ (UNCHANGED <<dir, disk>> \/ \E f : Put(Id(p), f))
      BY <2>2 DEF Rename, RemoveRecord
    <3> QED BY <1>1, <1>2, <2>1, <3>1, <3>2 DEF Put, Shape, TypeOK
  <2>3. CASE SyncDirectory(p)
    BY <1>1, <1>2, <2>3 DEF SyncDirectory
  <2>4. CASE TryAuthorization(p)
    <3>1. Keyed(p) BY <2>4 DEF TryAuthorization, Keyed
    <3> QED BY <1>1, <1>2, <2>1, <2>4, <3>1 DEF TryAuthorization, Shape, TypeOK
  <2>5. CASE ReleaseAuthorization(p)
    BY <1>1, <1>2, <2>5 DEF ReleaseAuthorization, fileVars, Shape, TypeOK
  <2>6. CASE Crash(p)
    BY <1>1, <1>2, <2>6 DEF Crash, Dropped, Shape, TypeOK
  <2>7. CASE (\E c \in Calls : Invoke(p, c)) \/ Fail(p)
    BY <1>3, <2>7 DEF Invoke, Fail, fileVars
  <2>8. CASE \/ Lock(p) \/ Unlock(p) \/ ReadKey(p) \/ MakeKey(p) \/ ReadRecord(p)
             \/ CheckGeneration(p) \/ WriteTemp(p) \/ WriteFails(p) \/ SyncTemp(p)
    BY <1>3, <2>8 DEF Lock, Unlock, ReadKey, MakeKey, ReadRecord, CheckGeneration, WriteTemp,
                      WriteFails, SyncTemp, fileVars
  <2> QED BY <1>6, <2>2, <2>3, <2>4, <2>5, <2>6, <2>7, <2>8 DEF Acts, Step
<1> QED BY <1>4, <1>5, <1>6 DEF Next, Acts

LEMMA OneKeyStep ==
  ASSUME StoreAssumption, Shape, OneKey, Exclusive, [Next]_vars
  PROVE  OneKey'
<1>1. ASSUME NEW k \in Procs, k # keyring' PROVE Unnamed(k)'
  <2>1. CASE k # keyring
    BY <2>1, OtherKeysUnused
  <2>2. CASE k = keyring
    BY <1>1, <2>2, KeyringFirst DEF StoreAssumption
  <2> QED BY <2>1, <2>2
<1> QED BY <1>1, KeysAgree, KeyedStep, MakerAlone DEF OneKey, Unnamed

-----------------------------------------------------------------------------
(* A record file gets its name only once it is synced.                       *)
LEMMA NamedFilesWhole ==
  ASSUME StoreAssumption, Shape, OneKey, FilesWhole, [Next]_vars, NEW id \in Ids
  PROVE  Whole(dir'[id]) /\ \A f \in disk'[id] : Whole(f)
<1>1. Whole(dir[id]) /\ \A f \in disk[id] : Whole(f) BY DEF FilesWhole
<1>2. CASE UNCHANGED <<dir, disk>>
  BY <1>1, <1>2
<1>3. CASE MachineCrash
  <2>1. PICK kept \in [Ids -> UNION {disk[x] : x \in Ids}] :
         /\ \A x \in Ids : kept[x] \in disk[x]
         /\ dir' = [x \in Ids |-> Surviving(kept[x])]
         /\ disk' = [x \in Ids |-> {Surviving(kept[x])}]
    BY <1>3 DEF MachineCrash
  <2>2. Whole(kept[id]) BY <2>1 DEF FilesWhole
  <2>3. Surviving(kept[id]) = kept[id] BY <2>2 DEF Whole, Surviving
  <2> QED BY <2>1, <2>2, <2>3
<1>4. ASSUME NEW f, NEW n, Whole(f), Put(n, f)
      PROVE  Whole(dir'[id]) /\ \A g \in disk'[id] : Whole(g)
  BY <1>1, <1>4 DEF Put, Shape, TypeOK
<1>5. ASSUME NEW p \in Procs, Rename(p)
      PROVE  Whole(dir'[id]) /\ \A g \in disk'[id] : Whole(g)
  <2>1. op[p] # Idle /\ op[p].kind = "save"
    BY <1>5, Progress DEF Rename, At, Shape, Placement, Follows
  <2>2. op[p].gen # 0 BY <2>1 DEF Shape, TypeOK, Calls
  <2>3. Whole(temp[p]) BY <1>5, <2>2 DEF Rename, FilesWhole, Whole
  <2> QED BY <1>4, <1>5, <2>3 DEF Rename
<1>6. ASSUME NEW p \in Procs, RemoveRecord(p)
      PROVE  Whole(dir'[id]) /\ \A g \in disk'[id] : Whole(g)
  BY <1>2, <1>4, <1>6 DEF RemoveRecord, Whole
<1>7. ASSUME NEW p \in Procs, SyncDirectory(p)
      PROVE  Whole(dir'[id]) /\ \A g \in disk'[id] : Whole(g)
  BY <1>1, <1>7 DEF SyncDirectory
<1>8. ASSUME NEW p \in Procs, Acts(p), ~Rename(p), ~RemoveRecord(p), ~SyncDirectory(p)
      PROVE  UNCHANGED <<dir, disk>>
  BY <1>8 DEF Acts, Step, Invoke, Lock, Unlock, ReadKey, MakeKey, ReadRecord, CheckGeneration,
              WriteTemp, WriteFails, SyncTemp, TryAuthorization, ReleaseAuthorization, Fail,
              Crash, fileVars
<1>9. CASE UNCHANGED vars
  BY <1>2, <1>9 DEF vars, fileVars
<1> QED BY <1>2, <1>3, <1>5, <1>6, <1>7, <1>8, <1>9 DEF Next, Acts

(* What is about to be synced was written, what is about to be renamed was   *)
(* synced, or the writing of it had failed.                                  *)
Ready(p) ==
  /\ At(p, "sync") =>
       temp[p] # Absent /\ temp[p].gen = op[p].gen /\ temp[p].data \in {"written", "partial"}
  /\ At(p, "rename") =>
       temp[p] # Absent /\ temp[p].gen = op[p].gen /\ temp[p].data \in {"synced", "partial"}

LEMMA TempReady ==
  ASSUME StoreAssumption, Shape, FilesWhole, [Next]_vars, NEW q \in Procs
  PROVE  Ready(q)'
<1> USE DEF Ready, At
<1>1. Ready(q) BY DEF FilesWhole
<1>2. CASE UNCHANGED vars
  BY <1>1, <1>2 DEF vars, fileVars, callVars
<1>3. CASE MachineCrash
  BY <1>3 DEF MachineCrash
<1>4. ASSUME NEW p \in Procs, Acts(p), q # p PROVE Ready(q)'
  BY <1>1, <1>4, OthersStay
<1>5. CASE Step(q)
  <2>1. CASE Idles(q)
    BY <2>1 DEF Idles
  <2>2. CASE WriteTemp(q) \/ WriteFails(q)
    <3>1. Moves(q, "write") BY <2>2, OwnAdvance DEF WriteTemp, WriteFails
    <3>2. op[q] # Idle /\ op[q].kind = "save"
      BY <3>1, Progress DEF Moves, Shape, Placement, Follows
    <3>3. op[q].gen \in 0..MaxGen BY <3>2 DEF Shape, TypeOK, Calls, StoreAssumption
    <3>4. temp'[q] \in Files /\ temp'[q].gen = op[q].gen /\ temp'[q].data \in {"written", "partial"}
      BY <2>2, <3>3 DEF WriteTemp, WriteFails, Shape, TypeOK, Files
    <3>5. Head(left'[q]) = "sync" /\ op' = op BY <3>1 DEF Moves, Follows
    <3> QED BY <3>4, <3>5 DEF StoreAssumption
  <2>3. CASE SyncTemp(q)
    <3>1. Moves(q, "sync") BY <2>3, OwnAdvance DEF SyncTemp
    <3>2. temp[q] \in Files /\ temp[q].gen = op[q].gen /\ temp[q].data \in {"written", "partial"}
      BY <1>1, <3>1 DEF Moves, Shape, TypeOK
    <3>3. temp'[q] \in Files /\ temp'[q].gen = op[q].gen /\ temp'[q].data \in {"synced", "partial"}
      BY <2>3, <3>2 DEF SyncTemp, Shape, TypeOK, Files
    <3>4. Head(left'[q]) = "rename" /\ op' = op BY <3>1 DEF Moves, Follows
    <3> QED BY <3>3, <3>4 DEF StoreAssumption
  <2>4. ASSUME NEW h, Moves(q, h), h \notin {"read", "syncdir", "try", "write", "sync"}
        PROVE  Head(left'[q]) \notin {"sync", "rename"}
    <3>1. Placed(op[q], left[q])
      BY DEF Shape, Placement
    <3> QED BY <2>4, <3>1, LoadProgress, SaveProgress, DeleteProgress, AuthorizeProgress
            DEF Moves, Follows, Placed
  <2> QED BY <1>5, <2>1, <2>2, <2>3, <2>4, OwnStep
<1>6. CASE \E c \in Calls : Invoke(q, c)
  <2>1. PICK c \in Calls : Invoke(q, c) BY <1>6
  <2>2. left'[q] = Program[c.kind]
    BY <2>1 DEF Invoke, Shape, TypeOK, Placement
  <2> QED BY <2>2, ProgramBegins
<1>7. CASE Fail(q) \/ Crash(q)
  <2>1. left'[q] = <<>>
    BY <1>7 DEF Fail, Return, Crash, Shape, Placement
  <2> QED BY <2>1
<1>8. CASE ReleaseAuthorization(q)
  BY <1>1, <1>8 DEF ReleaseAuthorization, fileVars, callVars
<1> QED BY <1>2, <1>3, <1>4, <1>5, <1>6, <1>7, <1>8 DEF Next, Acts

LEMMA FilesWholeStep ==
  ASSUME StoreAssumption, Shape, OneKey, FilesWhole, [Next]_vars
  PROVE  FilesWhole'
  BY NamedFilesWhole, TempReady DEF FilesWhole, Ready

(* Nobody replaces a record between a save's check and its rename.           *)
Replacing(p) == At(p, "write") \/ At(p, "sync") \/ At(p, "rename")
Confirmed(p) == Replacing(p) => op[p].fresh \/ Gen(dir[Id(p)]) = op[p].gen

LEMMA StillCheckedStep ==
  ASSUME StoreAssumption, Shape, OneKey, Exclusive, StillChecked, [Next]_vars, NEW q \in Procs
  PROVE  Confirmed(q)'
<1> USE DEF Confirmed, Replacing
<1>1. Confirmed(q) BY DEF StillChecked
<1>2. CASE UNCHANGED vars
  BY <1>1, <1>2 DEF vars, fileVars, callVars, At, Gen, Id, opaqueID
<1>3. CASE MachineCrash
  BY <1>3 DEF MachineCrash, At
<1>4. ASSUME NEW p \in Procs, Acts(p), q # p PROVE Confirmed(q)'
  <2> SUFFICES ASSUME Replacing(q)' PROVE (op[q].fresh \/ Gen(dir[Id(q)]) = op[q].gen)'
    OBVIOUS
  <2>1. Replacing(q) /\ op'[q] = op[q] /\ key'[q] = key[q]
    BY <1>4, OthersStay DEF At
  <2>2. lock = q BY <2>1 DEF Exclusive, InLock
  <2>3. ~Rename(p) /\ ~RemoveRecord(p)
    BY <1>4, <2>2 DEF Rename, RemoveRecord, Exclusive, InLock
  <2>4. dir' = dir
    BY <1>4, <2>3 DEF Acts, Step, Invoke, Lock, Unlock, ReadKey, MakeKey, ReadRecord,
              CheckGeneration, WriteTemp, WriteFails, SyncTemp, SyncDirectory, TryAuthorization,
              ReleaseAuthorization, Fail, Crash, fileVars
  <2> QED BY <1>1, <2>1, <2>4 DEF Gen, Id, opaqueID
<1>5. CASE Step(q)
  <2>1. CASE Idles(q)
    BY <2>1 DEF Idles, At
  <2>2. ASSUME NEW h, Moves(q, h), h \notin {"read", "syncdir", "try", "check", "write", "sync"}
        PROVE  ~Replacing(q)'
    <3>1. Placed(op[q], left[q])
      BY DEF Shape, Placement
    <3> QED BY <2>2, <3>1, LoadProgress, SaveProgress, DeleteProgress, AuthorizeProgress
            DEF Moves, Follows, Placed, At
  <2>3. CASE \/ /\ CheckGeneration(q) /\ Moves(q, "check")
                /\ op[q].fresh \/ Gen(dir[Id(q)]) = op[q].gen
             \/ (WriteTemp(q) \/ WriteFails(q)) /\ Moves(q, "write")
             \/ SyncTemp(q) /\ Moves(q, "sync")
    <3>1. op[q].fresh \/ Gen(dir[Id(q)]) = op[q].gen
      BY <1>1, <2>3 DEF Moves, At
    <3>2. UNCHANGED <<op, key, dir>>
      <4>1. ASSUME NEW a, NEW g, Return(q, a, g) PROVE FALSE
        BY <2>3, <4>1, OwnReturn DEF Idles, Moves
      <4> QED BY <2>3, <4>1 DEF CheckGeneration, WriteTemp, WriteFails, SyncTemp, Moves
    <3> QED BY <3>1, <3>2 DEF Gen, Id, opaqueID
  <2> QED BY <1>5, <2>1, <2>2, <2>3, OwnStep
<1>6. CASE \E c \in Calls : Invoke(q, c)
  <2>1. PICK c \in Calls : Invoke(q, c) BY <1>6
  <2>2. left'[q] = Program[c.kind]
    BY <2>1 DEF Invoke, Shape, TypeOK, Placement
  <2> QED BY <2>2, ProgramBegins DEF At
<1>7. CASE Fail(q) \/ Crash(q)
  <2>1. left'[q] = <<>>
    BY <1>7 DEF Fail, Return, Crash, Shape, Placement
  <2> QED BY <2>1 DEF At
<1>8. CASE ReleaseAuthorization(q)
  BY <1>1, <1>8 DEF ReleaseAuthorization, fileVars, callVars, At, Gen, Id, opaqueID
<1> QED BY <1>2, <1>3, <1>4, <1>5, <1>6, <1>7, <1>8 DEF Next, Acts

-----------------------------------------------------------------------------
LEMMA InitInv == ASSUME StoreAssumption, Init PROVE IInv
<1>1. Len(<<>>) = 0 OBVIOUS
<1>2. TypeOK
  BY <1>1 DEF Init, TypeOK, StoreAssumption, NoReply
<1>3. Placement
  BY DEF Init, Placement, Placed, Left
<1>4. Exclusive /\ OneKey /\ FilesWhole /\ StillChecked
  BY DEF Init, Exclusive, OneKey, FilesWhole, StillChecked, InLock, Keyed, At, Whole, Ids, opaqueID
<1> QED BY <1>2, <1>3, <1>4 DEF IInv

(* The invariant is inductive.                                               *)
THEOREM StoreInvariance == ASSUME StoreAssumption PROVE Spec => []IInv
<1>1. Init => IInv
  BY InitInv
<1>2. IInv /\ [Next]_vars => IInv'
  <2> SUFFICES ASSUME IInv, [Next]_vars PROVE IInv' OBVIOUS
  <2> USE DEF IInv, Shape
  <2>1. TypeOK' /\ Placement' BY ShapeStep
  <2>2. Exclusive' BY ExclusiveStep
  <2>3. OneKey' BY OneKeyStep
  <2>4. FilesWhole' BY FilesWholeStep
  <2>5. StillChecked' BY StillCheckedStep DEF StillChecked, Confirmed, Replacing
  <2> QED BY <2>1, <2>2, <2>3, <2>4, <2>5
<1> QED BY <1>1, <1>2, PTL DEF Spec

(* A crash at any step, of a process or of the machine, leaves no record     *)
(* that it cut short.                                                        *)
THEOREM NoTornRecord == ASSUME StoreAssumption PROVE Spec => []RecordsWhole
<1>1. IInv => RecordsWhole
  BY DEF IInv, FilesWhole, Whole, RecordsWhole
<1> QED BY StoreInvariance, <1>1, PTL

(* LockAuthorization: one browser flow per identity over all processes,      *)
(* although each reads or makes the key of the lock's name on its own.       *)
THEOREM OneLeasePerIdentity == ASSUME StoreAssumption PROVE Spec => []OneAuthorization
<1>1. IInv => OneAuthorization
  BY DEF IInv, OneKey, OneAuthorization
<1> QED BY StoreInvariance, <1>1, PTL

-----------------------------------------------------------------------------
(* The refinement.  What the views make of a step of one process.            *)
LEMMA ViewsKept ==
  ASSUME StoreAssumption, IInv, [Next]_vars, UNCHANGED <<auth, dir, disk>>
  PROVE  RecView' = RecView /\ MayBeView' = MayBeView /\ HolderView' = HolderView
<1>1. CASE keyring' = keyring
  BY <1>1 DEF RecView, MayBeView, HolderView, StoredGen, Current, Gen, opaqueID
<1>2. CASE keyring' # keyring
  <2>1. keyring = NoKey /\ keyring' \in Procs /\ keyring' # NoKey
    BY <1>2, KeyringKept, KeyringFirst DEF IInv, StoreAssumption
  <2>2. \A i \in Identities : /\ auth[opaqueID(keyring', i)] = NoProc
                              /\ dir[opaqueID(keyring', i)] = Absent
                              /\ disk[opaqueID(keyring', i)] = {Absent}
    BY <2>1 DEF IInv, OneKey
  <2>3. RecView' = RecView
    BY <2>1, <2>2 DEF RecView, StoredGen, Current, Gen, opaqueID
  <2>4. HolderView' = HolderView
    BY <2>1, <2>2 DEF HolderView, Current, opaqueID
  <2>5. MayBeView' = MayBeView
    <3>1. \A i \in Identities : {Gen(f)' : f \in disk'[Current(i)']} = {0}
      BY <2>2 DEF Gen, Current, opaqueID
    <3> QED BY <2>1, <3>1 DEF MayBeView, Gen
  <2> QED BY <2>3, <2>4, <2>5
<1> QED BY <1>1, <1>2

LEMMA OpMoves ==
  ASSUME StoreAssumption, IInv, [Next]_vars, NEW p \in Procs, Acts(p), NEW h, Moves(p, h),
         h \notin {"read", "syncdir", "try", "rename", "remove"}
  PROVE  OpView' = OpView
<1>1. Placed(op[p], left[p]) BY DEF IInv, Placement
<1>2. Head(left'[p]) # "syncdir"
  BY <1>1, LoadProgress, SaveProgress, DeleteProgress, AuthorizeProgress
  DEF Moves, Follows, Placed
<1>3. \A q \in Procs \ {p} : left'[q] = left[q] BY OthersStay DEF IInv, Shape
<1> QED BY <1>2, <1>3 DEF OpView, Settling, At, Moves

LEMMA OpSettles ==
  ASSUME StoreAssumption, IInv, [Next]_vars, NEW p \in Procs, Acts(p), NEW h, Moves(p, h),
         h \in {"rename", "remove"}
  PROVE  /\ OpView' = [OpView EXCEPT ![p] = [kind |-> "settle", who |-> op[p].who]]
         /\ OpView[p] = op[p]
<1>1. Head(left'[p]) = "syncdir" BY DEF Moves, Follows
<1>2. \A q \in Procs \ {p} : left'[q] = left[q] BY OthersStay DEF IInv, Shape
<1>3. ~Settling(p) /\ Settling(p)' /\ op' = op BY <1>1 DEF Settling, At, Moves
<1>4. \A q \in Procs \ {p} : Settling(q)' <=> Settling(q) BY <1>2 DEF Settling, At
<1> QED BY <1>3, <1>4 DEF OpView

LEMMA OpReturns ==
  ASSUME StoreAssumption, IInv, [Next]_vars, NEW p \in Procs, Acts(p), NEW a, NEW g, Return(p, a, g)
  PROVE  Atomic!Return(p, a, g) /\ nextGen' = nextGen
<1>1. left'[p] = <<>> /\ op'[p] = Idle BY OwnReturn DEF Idles, IInv, Shape
<1>2. \A q \in Procs \ {p} : left'[q] = left[q] /\ op'[q] = op[q]
  BY OthersStay DEF IInv, Shape
<1>3. OpView' = [OpView EXCEPT ![p] = Idle]
  BY <1>1, <1>2 DEF OpView, Settling, At
<1> QED BY <1>3 DEF Return, Atomic!Return, Atomic!Idle, Idle

(* Each action is a step of AtomicStore, or changes nothing it speaks of.    *)
Simulates == Atomic!Next \/ UNCHANGED Atomic!vars

LEMMA SimulateStutter ==
  ASSUME StoreAssumption, IInv, [Next]_vars, NEW p \in Procs, Acts(p), NEW h, Moves(p, h),
         h \notin {"read", "syncdir", "try", "rename", "remove"},
         UNCHANGED <<auth, dir, disk, reply, nextGen>>
  PROVE  Simulates
  BY ViewsKept, OpMoves DEF Simulates, Atomic!vars

LEMMA SimulateFail ==
  ASSUME StoreAssumption, IInv, [Next]_vars, NEW p \in Procs, Acts(p), op[p] # Idle,
         Return(p, "error", 0), UNCHANGED <<auth, dir, disk>>
  PROVE  Simulates
<1>1. OpView[p] # Atomic!Idle
  BY DEF OpView, Atomic!Idle, Idle
<1> QED BY <1>1, ViewsKept, OpReturns
        DEF Simulates, Atomic!Next, Atomic!Fail, Atomic!Unstored

LEMMA SimulateInvoke ==
  ASSUME StoreAssumption, IInv, [Next]_vars, NEW p \in Procs, NEW c \in Calls, Invoke(p, c)
  PROVE  Simulates
<1>1. Acts(p) BY DEF Acts
<1>2. left'[p] = Program[c.kind] /\ op'[p] = c
  BY DEF Invoke, IInv, TypeOK, Placement
<1>3. \A q \in Procs \ {p} : left'[q] = left[q] /\ op'[q] = op[q]
  BY <1>1, OthersStay DEF IInv, Shape
<1>4. ~Settling(p)'
  BY <1>2, ProgramBegins DEF Settling, At
<1>5. OpView' = [OpView EXCEPT ![p] = c]
  BY <1>2, <1>3, <1>4 DEF OpView, Settling, At
<1>6. left[p] = <<>>
  BY Progress DEF Invoke, IInv, Placement, Placed, Idle
<1>7. OpView[p] = Atomic!Idle
  BY <1>6 DEF OpView, Settling, At, Invoke, Atomic!Idle, Idle
<1>8. UNCHANGED <<RecView, MayBeView, HolderView>>
  BY ViewsKept DEF Invoke, fileVars
<1>9. Atomic!Invoke(p)
  BY <1>5, <1>7, <1>8 DEF Invoke, Atomic!Invoke, Atomic!Calls, Calls, Atomic!NoReply, NoReply
<1> QED BY <1>9 DEF Simulates, Atomic!Next

(* What the views say of the record a step is about.                         *)
LEMMA CurrentView ==
  ASSUME StoreAssumption, IInv, NEW p \in Procs, Keyed(p)
  PROVE  /\ op[p] # Idle /\ op[p].who \in Identities /\ keyring # NoKey /\ key[p] = keyring
         /\ Id(p) \in Ids /\ Id(p) = Current(op[p].who)
         /\ RecView[op[p].who] = Gen(dir[Id(p)])
         /\ HolderView[op[p].who] = auth[Id(p)]
         /\ \A i \in Identities : i # op[p].who => Current(i) # Id(p)
<1>1. /\ op[p] # Idle /\ op[p].who \in Identities /\ key[p] = keyring /\ keyring \in Procs
      /\ Id(p) \in Ids /\ Id(p) = opaqueID(keyring, op[p].who)
  BY CurrentId DEF IInv, Shape
<1>2. keyring # NoKey BY <1>1 DEF StoreAssumption
<1> QED BY <1>1, <1>2 DEF RecView, HolderView, StoredGen, Current, opaqueID

LEMMA Unsettled ==
  ASSUME NEW p \in Procs, ~At(p, "syncdir")
  PROVE  OpView[p] = op[p]
  BY DEF OpView, Settling

LEMMA SimulateReadKey ==
  ASSUME StoreAssumption, IInv, [Next]_vars, NEW p \in Procs, ReadKey(p)
  PROVE  Simulates
<1>1. Acts(p) BY DEF Acts, Step
<1>2. CASE keyring = NoKey /\ op[p].kind \in {"load", "delete"}
  <2>1. Return(p, IF op[p].kind = "load" THEN "loaded" ELSE "missing", 0)
    BY <1>2 DEF ReadKey
  <2>2. UNCHANGED <<auth, dir, disk>> BY <1>2 DEF ReadKey
  <2>3. OpView[p] = op[p] BY Unsettled DEF ReadKey, At
  <2>4. op[p] # Idle /\ op[p].who \in Identities
    <3>1. op[p] # Idle BY Progress DEF ReadKey, At, IInv, Placement
    <3> QED BY <3>1 DEF IInv, TypeOK, Calls
  <2>5. RecView[op[p].who] = 0 BY <1>2, <2>4 DEF RecView, StoredGen
  <2>6. Atomic!Return(p, IF op[p].kind = "load" THEN "loaded" ELSE "missing", 0) /\ nextGen' = nextGen
    BY <1>1, <2>1, OpReturns
  <2>7. Atomic!Load(p) \/ Atomic!Missing(p)
    BY <1>2, <2>2, <2>3, <2>5, <2>6, ViewsKept DEF Atomic!Load, Atomic!Missing, Atomic!Unstored
  <2> QED BY <2>7 DEF Simulates, Atomic!Next
<1>3. CASE ~(keyring = NoKey /\ op[p].kind \in {"load", "delete"})
  <2>1. Moves(p, "key") BY <1>3, OwnAdvance DEF ReadKey, IInv, Shape
  <2> QED BY <1>1, <1>3, <2>1, SimulateStutter DEF ReadKey, Advance, fileVars
<1> QED BY <1>2, <1>3

LEMMA SimulateRead ==
  ASSUME StoreAssumption, IInv, [Next]_vars, NEW p \in Procs, ReadRecord(p)
  PROVE  Simulates
<1>1. Acts(p) /\ Keyed(p) BY DEF Acts, Step, ReadRecord, Keyed
<1>2. CASE Unreadable(dir[Id(p)])
  BY <1>1, <1>2, SimulateFail, CurrentView DEF ReadRecord
<1>3. CASE ~Unreadable(dir[Id(p)])
  <2>1. Return(p, "loaded", Gen(dir[Id(p)])) BY <1>3 DEF ReadRecord
  <2>2. op[p].kind = "load" BY Progress DEF ReadRecord, At, IInv, Placement
  <2>3. OpView[p] = op[p] BY Unsettled DEF ReadRecord, At
  <2>4. Atomic!Return(p, "loaded", RecView[op[p].who]) /\ nextGen' = nextGen
    BY <1>1, <2>1, OpReturns, CurrentView
  <2>5. UNCHANGED <<RecView, MayBeView, HolderView>> BY ViewsKept DEF ReadRecord
  <2>6. Atomic!Load(p)
    BY <2>2, <2>3, <2>4, <2>5 DEF Atomic!Load, Atomic!Unstored
  <2> QED BY <2>6 DEF Simulates, Atomic!Next
<1> QED BY <1>2, <1>3

LEMMA SimulateCheck ==
  ASSUME StoreAssumption, IInv, [Next]_vars, NEW p \in Procs, CheckGeneration(p)
  PROVE  Simulates
<1>1. Acts(p) /\ Keyed(p) BY DEF Acts, Step, CheckGeneration, Keyed
<1>2. CASE Advance(p)
  <2>1. Moves(p, "check") BY <1>2, OwnAdvance DEF CheckGeneration, IInv, Shape
  <2> QED BY <1>1, <1>2, <2>1, SimulateStutter DEF CheckGeneration, Advance
<1>3. CASE Return(p, "error", 0)
  BY <1>1, <1>3, SimulateFail, CurrentView DEF CheckGeneration
<1>4. CASE /\ Return(p, "stale", 0) /\ ~Unreadable(dir[Id(p)])
           /\ ~(op[p].fresh \/ (dir[Id(p)] # Absent /\ dir[Id(p)].gen = op[p].gen))
  <2>1. op[p] # Idle /\ op[p].kind = "save"
    BY Progress DEF CheckGeneration, At, IInv, Placement, Follows
  <2>2. op[p].gen # 0 BY <2>1 DEF IInv, TypeOK, Calls
  <2>3. OpView[p] = op[p] BY Unsettled DEF CheckGeneration, At
  <2>4. RecView[op[p].who] # op[p].gen
    BY <1>1, <1>4, <2>2, CurrentView DEF Gen
  <2>5. Atomic!Return(p, "stale", 0) /\ nextGen' = nextGen
    BY <1>1, <1>4, OpReturns
  <2>6. UNCHANGED <<RecView, MayBeView, HolderView>> BY ViewsKept DEF CheckGeneration
  <2>7. Atomic!Stale(p)
    BY <1>4, <2>1, <2>3, <2>4, <2>5, <2>6 DEF Atomic!Stale, Atomic!Unstored
  <2> QED BY <2>7 DEF Simulates, Atomic!Next
<1> QED BY <1>2, <1>3, <1>4 DEF CheckGeneration

(* A record is put in place, or taken away.                                  *)
LEMMA ViewsPut ==
  ASSUME StoreAssumption, IInv, NEW p \in Procs, Keyed(p), NEW f \in Files \cup {Absent},
         Put(Id(p), f), UNCHANGED <<auth, keyring>>
  PROVE  /\ RecView' = [RecView EXCEPT ![op[p].who] = Gen(f)]
         /\ MayBeView' = [MayBeView EXCEPT ![op[p].who] = @ \cup {Gen(f)}]
         /\ HolderView' = HolderView
<1>1. /\ keyring # NoKey /\ op[p].who \in Identities /\ Id(p) = Current(op[p].who)
      /\ \A i \in Identities : i # op[p].who => Current(i) # Id(p)
  BY CurrentView
<1>2. \A i \in Identities : Current(i) \in Ids /\ Current(i)' = Current(i)
  BY CurrentId DEF Current, opaqueID, Ids, IInv, Shape
<1>3. /\ dir'[Current(op[p].who)] = f
      /\ disk'[Current(op[p].who)] = disk[Current(op[p].who)] \cup {f}
      /\ \A i \in Identities : i # op[p].who =>
           dir'[Current(i)] = dir[Current(i)] /\ disk'[Current(i)] = disk[Current(i)]
  BY <1>1, <1>2 DEF Put, IInv, TypeOK
<1>4. RecView' = [RecView EXCEPT ![op[p].who] = Gen(f)]
  <2>1. RecView = [i \in Identities |-> Gen(dir[Current(i)])]
    BY <1>1 DEF RecView, StoredGen
  <2>2. RecView' = [i \in Identities |-> Gen(dir'[Current(i)])]
    BY <1>1, <1>2 DEF RecView, StoredGen, Gen
  <2> HIDE DEF RecView
  <2> QED BY <1>1, <1>3, <2>1, <2>2
<1>5. HolderView' = HolderView
  BY <1>2 DEF HolderView
<1>6. MayBeView' = [MayBeView EXCEPT ![op[p].who] = @ \cup {Gen(f)}]
  <2> DEFINE gens(D) == {Gen(g) : g \in D}
  <2>1. MayBeView = [i \in Identities |-> gens(disk[Current(i)])]
    BY <1>1 DEF MayBeView
  <2>2. MayBeView' = [i \in Identities |-> gens(disk'[Current(i)])]
    BY <1>1, <1>2 DEF MayBeView, Gen
  <2>3. \A D : gens(D \cup {f}) = gens(D) \cup {Gen(f)}
    OBVIOUS
  <2>4. gens(disk'[Current(op[p].who)]) = gens(disk[Current(op[p].who)]) \cup {Gen(f)}
    BY <1>3, <2>3
  <2>5. \A i \in Identities : i # op[p].who => gens(disk'[Current(i)]) = gens(disk[Current(i)])
    BY <1>3
  <2> HIDE DEF gens
  <2> QED BY <1>1, <2>1, <2>2, <2>4, <2>5
<1> QED BY <1>4, <1>5, <1>6

LEMMA SimulateRename ==
  ASSUME StoreAssumption, IInv, [Next]_vars, NEW p \in Procs, Rename(p)
  PROVE  Simulates
<1>1. Acts(p) /\ Keyed(p) BY DEF Acts, Step, Rename, Keyed
<1>2. Moves(p, "rename") BY OwnAdvance DEF Rename, IInv, Shape
<1>3. op[p].kind = "save" BY <1>2 DEF Moves, Follows
<1>4. temp[p] \in Files /\ temp[p] # Absent /\ temp[p].gen = op[p].gen
  BY DEF Rename, IInv, FilesWhole, TypeOK
<1>5. Gen(temp[p]) = op[p].gen BY <1>4 DEF Gen
<1>6. op[p].fresh \/ RecView[op[p].who] = op[p].gen
  BY <1>1, CurrentView DEF Rename, IInv, StillChecked
<1>7. /\ OpView' = [OpView EXCEPT ![p] = [kind |-> "settle", who |-> op[p].who]]
      /\ OpView[p] = op[p]
  BY <1>1, <1>2, OpSettles
<1>8. /\ RecView' = [RecView EXCEPT ![op[p].who] = op[p].gen]
      /\ MayBeView' = [MayBeView EXCEPT ![op[p].who] = @ \cup {op[p].gen}]
      /\ HolderView' = HolderView
  BY <1>1, <1>4, <1>5, ViewsPut DEF Rename
<1>9. UNCHANGED <<reply, nextGen>> BY DEF Rename, Advance
<1>10. Atomic!Save(p)
  BY <1>3, <1>6, <1>7, <1>8, <1>9 DEF Atomic!Save, Atomic!Change
<1> QED BY <1>10 DEF Simulates, Atomic!Next

LEMMA SimulateRemove ==
  ASSUME StoreAssumption, IInv, [Next]_vars, NEW p \in Procs, RemoveRecord(p)
  PROVE  Simulates
<1>1. Acts(p) /\ Keyed(p) BY DEF Acts, Step, RemoveRecord, Keyed
<1>2. op[p].kind = "delete"
  BY Progress DEF RemoveRecord, At, IInv, Placement, Follows
<1>3. CASE dir[Id(p)] = Absent
  <2>1. Return(p, "missing", 0) /\ UNCHANGED <<auth, dir, disk>> BY <1>3 DEF RemoveRecord
  <2>2. RecView[op[p].who] = 0 BY <1>1, <1>3, CurrentView DEF Gen
  <2>3. OpView[p] = op[p] BY Unsettled DEF RemoveRecord, At
  <2>4. Atomic!Return(p, "missing", 0) /\ nextGen' = nextGen
    BY <1>1, <2>1, OpReturns
  <2>5. Atomic!Missing(p)
    BY <1>2, <2>1, <2>2, <2>3, <2>4, ViewsKept DEF Atomic!Missing, Atomic!Unstored
  <2> QED BY <2>5 DEF Simulates, Atomic!Next
<1>4. CASE dir[Id(p)] # Absent
  <2>1. Put(Id(p), Absent) /\ Advance(p) BY <1>4 DEF RemoveRecord
  <2>2. Moves(p, "remove") BY <2>1, OwnAdvance DEF RemoveRecord, IInv, Shape
  <2>3. RecView[op[p].who] # 0
    BY <1>1, <1>4, CurrentView DEF Gen, IInv, FilesWhole, Whole
  <2>4. /\ OpView' = [OpView EXCEPT ![p] = [kind |-> "settle", who |-> op[p].who]]
        /\ OpView[p] = op[p]
    BY <1>1, <2>2, OpSettles
  <2>5. Gen(Absent) = 0 BY DEF Gen
  <2>6. /\ RecView' = [RecView EXCEPT ![op[p].who] = 0]
        /\ MayBeView' = [MayBeView EXCEPT ![op[p].who] = @ \cup {0}]
        /\ HolderView' = HolderView
    BY <1>1, <2>1, <2>5, ViewsPut DEF RemoveRecord
  <2>7. Atomic!Delete(p)
    BY <1>2, <2>1, <2>3, <2>4, <2>6 DEF Advance, Atomic!Delete, Atomic!Change
  <2> QED BY <2>7 DEF Simulates, Atomic!Next
<1> QED BY <1>3, <1>4

LEMMA SimulateSync ==
  ASSUME StoreAssumption, IInv, [Next]_vars, NEW p \in Procs, SyncDirectory(p)
  PROVE  Simulates
<1>1. Acts(p) /\ Keyed(p) BY DEF Acts, Step, SyncDirectory, Keyed
<1>2. OpView[p].kind = "settle" BY DEF OpView, Settling, SyncDirectory
<1>3. Atomic!Return(p, "ok", 0) /\ nextGen' = nextGen
  BY <1>1, OpReturns DEF SyncDirectory
<1>4. \A i \in Identities : Current(i) \in Ids /\ Current(i)' = Current(i)
  BY <1>1, CurrentId DEF SyncDirectory, Current, opaqueID, Ids, IInv, Shape
<1>5. RecView' = RecView /\ HolderView' = HolderView
  BY <1>4 DEF SyncDirectory, RecView, HolderView, StoredGen, Gen
<1>6. MayBeView' = [i \in Identities |-> {RecView[i]}]
  <2>1. \A i \in Identities : disk'[Current(i)] = {dir[Current(i)]}
    BY <1>4 DEF SyncDirectory
  <2>2. keyring # NoKey /\ keyring' = keyring BY <1>1, CurrentView DEF SyncDirectory
  <2>3. MayBeView' = [i \in Identities |-> {Gen(f) : f \in disk'[Current(i)]}]
    BY <1>4, <2>2 DEF MayBeView, Gen
  <2>4. \A i \in Identities : RecView[i] = Gen(dir[Current(i)])
    BY <2>2 DEF RecView, StoredGen
  <2> QED BY <2>1, <2>3, <2>4
<1>7. Atomic!Settle(p)
  BY <1>2, <1>3, <1>5, <1>6 DEF Atomic!Settle
<1> QED BY <1>7 DEF Simulates, Atomic!Next

(* The lease changes hands and no record does.                               *)
LEMMA RecordsKept ==
  ASSUME UNCHANGED <<keyring, dir, disk>>
  PROVE  RecView' = RecView /\ MayBeView' = MayBeView
  BY DEF RecView, MayBeView, StoredGen, Current, Gen, opaqueID

LEMMA SimulateTry ==
  ASSUME StoreAssumption, IInv, [Next]_vars, NEW p \in Procs, TryAuthorization(p)
  PROVE  Simulates
<1>1. Acts(p) /\ Keyed(p) BY DEF Acts, Step, TryAuthorization, Keyed
<1>2. op[p].kind = "authorize"
  BY Progress DEF TryAuthorization, At, IInv, Placement
<1>3. OpView[p] = op[p] BY Unsettled DEF TryAuthorization, At
<1>4. UNCHANGED <<RecView, MayBeView>> BY RecordsKept DEF TryAuthorization
<1>5. CASE auth[Id(p)] = NoProc
  <2>1. Return(p, "ok", 0) /\ auth' = [auth EXCEPT ![Id(p)] = p] /\ keyring' = keyring
    BY <1>5 DEF TryAuthorization
  <2>2. Atomic!Return(p, "ok", 0) /\ nextGen' = nextGen
    BY <1>1, <2>1, OpReturns
  <2>3. HolderView' = [HolderView EXCEPT ![op[p].who] = p]
    <3>1. /\ keyring # NoKey /\ op[p].who \in Identities /\ Id(p) = Current(op[p].who)
          /\ \A i \in Identities : i # op[p].who => Current(i) # Id(p)
      BY <1>1, CurrentView
    <3>2. \A i \in Identities : Current(i) \in Ids /\ Current(i)' = Current(i)
      BY <1>1, <2>1, CurrentId DEF Current, opaqueID, Ids, IInv, Shape
    <3>3. /\ auth'[Current(op[p].who)] = p
          /\ \A i \in Identities : i # op[p].who => auth'[Current(i)] = auth[Current(i)]
      BY <2>1, <3>1, <3>2 DEF IInv, TypeOK
    <3> QED BY <2>1, <3>1, <3>2, <3>3 DEF HolderView
  <2>4. Atomic!Grant(p)
    BY <1>1, <1>2, <1>3, <1>4, <1>5, <2>2, <2>3, CurrentView DEF Atomic!Grant
  <2> QED BY <2>4 DEF Simulates, Atomic!Next
<1>6. CASE auth[Id(p)] # NoProc
  <2>1. Return(p, "locked", 0) /\ UNCHANGED <<auth, keyring, dir, disk>>
    BY <1>6 DEF TryAuthorization
  <2>2. Atomic!Return(p, "locked", 0) /\ nextGen' = nextGen
    BY <1>1, <2>1, OpReturns
  <2>3. HolderView' = HolderView BY <2>1, ViewsKept
  <2>4. Atomic!Refuse(p)
    BY <1>1, <1>2, <1>3, <1>4, <1>6, <2>2, <2>3, CurrentView DEF Atomic!Refuse, Atomic!Unstored
  <2> QED BY <2>4 DEF Simulates, Atomic!Next
<1> QED BY <1>5, <1>6

(* A lease that is held is held under the key of the keyring.                *)
LEMMA HeldLease ==
  ASSUME StoreAssumption, IInv, NEW id \in Ids, auth[id] # NoProc
  PROVE  \E i \in Identities : keyring # NoKey /\ id = Current(i)
<1>1. PICK k \in Procs, i \in Identities : id = opaqueID(k, i)
  BY DEF Ids, opaqueID
<1>2. k = keyring BY <1>1 DEF IInv, OneKey
<1> QED BY <1>1, <1>2 DEF StoreAssumption, Current

LEMMA SimulateRelease ==
  ASSUME StoreAssumption, IInv, [Next]_vars, NEW p \in Procs, ReleaseAuthorization(p)
  PROVE  Simulates
<1>1. PICK id \in Ids : /\ op[p] = Idle /\ auth[id] = p /\ auth' = [auth EXCEPT ![id] = NoProc]
                        /\ UNCHANGED <<keyring, lock, fileVars, callVars>>
  BY DEF ReleaseAuthorization
<1>2. PICK i \in Identities : keyring # NoKey /\ id = Current(i)
  BY <1>1, HeldLease DEF StoreAssumption
<1>3. OpView' = OpView
  BY <1>1 DEF OpView, Settling, At, callVars
<1>4. OpView[p] = Atomic!Idle
  <2>1. left[p] = <<>> BY <1>1, Progress DEF IInv, Placement
  <2> QED BY <1>1, <2>1 DEF OpView, Settling, At, Atomic!Idle, Idle
<1>5. UNCHANGED <<RecView, MayBeView>> BY <1>1, RecordsKept DEF fileVars
<1>6. HolderView[i] = p BY <1>1, <1>2 DEF HolderView
<1>7. HolderView' = [HolderView EXCEPT ![i] = NoProc]
  <2>1. \A j \in Identities : Current(j) \in Ids /\ Current(j)' = Current(j)
    BY <1>1, <1>2 DEF Current, opaqueID, Ids, IInv, TypeOK
  <2>2. \A j \in Identities : Current(j) = id <=> j = i
    BY <1>2 DEF Current, opaqueID
  <2>3. \A j \in Identities : auth'[Current(j)] = IF j = i THEN NoProc ELSE auth[Current(j)]
    BY <1>1, <2>1, <2>2 DEF IInv, TypeOK
  <2> QED BY <1>1, <1>2, <2>1, <2>3 DEF HolderView
<1>8. Atomic!Release(p)
  BY <1>1, <1>3, <1>4, <1>5, <1>6, <1>7 DEF Atomic!Release, callVars
<1> QED BY <1>8 DEF Simulates, Atomic!Next

(* What a crash of one process, or of the machine, looks like from outside.  *)
LEMMA SimulateCrash ==
  ASSUME StoreAssumption, IInv, [Next]_vars, NEW p \in Procs, Crash(p)
  PROVE  Simulates
<1>1. Acts(p) BY DEF Acts
<1>2. left'[p] = <<>> /\ op'[p] = Idle
  BY DEF Crash, IInv, TypeOK, Placement
<1>3. \A q \in Procs \ {p} : left'[q] = left[q] /\ op'[q] = op[q]
  BY <1>1, OthersStay DEF IInv, Shape
<1>4. OpView' = [OpView EXCEPT ![p] = Atomic!Idle]
  BY <1>2, <1>3 DEF OpView, Settling, At, Atomic!Idle, Idle
<1>5. UNCHANGED <<RecView, MayBeView>> BY RecordsKept DEF Crash
<1>6. HolderView' = Atomic!Dropped({p})
  <2>1. \A i \in Identities : keyring # NoKey => Current(i) \in Ids
    BY DEF Current, opaqueID, Ids, IInv, TypeOK
  <2>2. \A i \in Identities : Current(i)' = Current(i) BY DEF Current, opaqueID, Crash
  <2>3. \A id \in Ids : auth'[id] = IF auth[id] \in {p} THEN NoProc ELSE auth[id]
    BY DEF Crash, Dropped
  <2>4. keyring' = keyring BY DEF Crash
  <2> QED BY <2>1, <2>2, <2>3, <2>4 DEF HolderView, Atomic!Dropped
<1>7. Atomic!Crash(p)
  BY <1>4, <1>5, <1>6 DEF Crash, Atomic!Crash, Atomic!NoReply, NoReply
<1> QED BY <1>7 DEF Simulates, Atomic!Next

LEMMA SimulateMachineCrash ==
  ASSUME StoreAssumption, IInv, [Next]_vars, MachineCrash
  PROVE  Simulates
<1>1. PICK kept \in [Ids -> UNION {disk[id] : id \in Ids}] :
        /\ \A id \in Ids : kept[id] \in disk[id]
        /\ dir' = [id \in Ids |-> Surviving(kept[id])]
        /\ disk' = [id \in Ids |-> {Surviving(kept[id])}]
  BY DEF MachineCrash
<1>2. \A id \in Ids : Surviving(kept[id]) = kept[id]
  BY <1>1 DEF IInv, FilesWhole, Whole, Surviving
<1>3. \A id \in Ids : dir'[id] = kept[id] /\ disk'[id] = {dir'[id]} /\ dir'[id] \in disk[id]
  BY <1>1, <1>2
<1>4. keyring' = keyring /\ \A i \in Identities : Current(i)' = Current(i)
  BY DEF MachineCrash, Current, opaqueID
<1>5. keyring # NoKey => \A i \in Identities : Current(i) \in Ids
  BY DEF Current, opaqueID, Ids, IInv, TypeOK
<1>6. RecView' \in [Identities -> 0..MaxGen]
  <2>1. \A id \in Ids : dir'[id] \in Files \cup {Absent}
    BY <1>3 DEF IInv, TypeOK
  <2>2. \A id \in Ids : Gen(dir'[id]) \in 0..MaxGen
    BY <2>1 DEF Gen, Files, StoreAssumption
  <2>3. RecView' = [i \in Identities |-> IF keyring = NoKey THEN 0 ELSE Gen(dir'[Current(i)])]
    BY <1>4 DEF RecView, StoredGen, Gen
  <2> QED BY <1>5, <2>2, <2>3 DEF StoreAssumption
<1>7. \A i \in Identities : RecView'[i] \in MayBeView[i] /\ MayBeView'[i] = {RecView'[i]}
  <2> TAKE i \in Identities
  <2>1. CASE keyring = NoKey
    BY <1>4, <2>1 DEF RecView, MayBeView, StoredGen
  <2>2. CASE keyring # NoKey
    <3>1. /\ RecView'[i] = Gen(dir'[Current(i)])
          /\ MayBeView[i] = {Gen(f) : f \in disk[Current(i)]}
          /\ MayBeView'[i] = {Gen(f) : f \in disk'[Current(i)]}
      BY <1>4, <2>2 DEF RecView, MayBeView, StoredGen, Gen
    <3> QED BY <1>3, <1>5, <2>2, <3>1
  <2> QED BY <2>1, <2>2
<1>8. MayBeView' = [i \in Identities |-> {RecView'[i]}]
  <2>1. MayBeView' = [i \in Identities |-> MayBeView'[i]]
    BY DEF MayBeView
  <2> QED BY <1>7, <2>1
<1>9. HolderView' = [i \in Identities |-> NoProc]
  <2>1. \A id \in Ids : auth'[id] = NoProc BY DEF MachineCrash
  <2> QED BY <1>4, <1>5, <2>1 DEF HolderView
<1>10. OpView' = [p \in Procs |-> Atomic!Idle]
  <2>1. \A p \in Procs : op'[p] = Idle /\ left'[p] = <<>> BY DEF MachineCrash
  <2> QED BY <2>1 DEF OpView, Settling, At, Idle, Atomic!Idle
<1>11. Atomic!MachineCrash
  BY <1>6, <1>7, <1>8, <1>9, <1>10
  DEF MachineCrash, Atomic!MachineCrash, Atomic!NoReply, NoReply
<1> QED BY <1>11 DEF Simulates, Atomic!Next

LEMMA SimulateStep ==
  ASSUME StoreAssumption, IInv, [Next]_vars
  PROVE  Simulates
<1>1. CASE UNCHANGED vars
  <2>1. UNCHANGED <<RecView, MayBeView, HolderView>>
    BY <1>1, ViewsKept DEF vars, fileVars
  <2>2. OpView' = OpView
    BY <1>1 DEF vars, callVars, OpView, Settling, At
  <2> QED BY <1>1, <2>1, <2>2 DEF vars, callVars, Simulates, Atomic!vars
<1>2. ASSUME NEW p \in Procs, Step(p) PROVE Simulates
  <2>1. Acts(p) BY <1>2 DEF Acts
  <2>2. CASE Lock(p) \/ Unlock(p) \/ MakeKey(p) \/ WriteTemp(p) \/ WriteFails(p) \/ SyncTemp(p)
    <3>1. PICK h \in {"lock", "unlock", "make", "write", "sync"} : At(p, h) /\ Advance(p)
      BY <2>2 DEF Lock, Unlock, MakeKey, WriteTemp, WriteFails, SyncTemp
    <3>2. Moves(p, h) BY <3>1, OwnAdvance DEF IInv, Shape
    <3>3. UNCHANGED <<auth, dir, disk, reply, nextGen>>
      BY <2>2 DEF Lock, Unlock, MakeKey, WriteTemp, WriteFails, SyncTemp, Advance, fileVars
    <3> QED BY <2>1, <3>2, <3>3, SimulateStutter
  <2> QED BY <1>2, <2>2, SimulateReadKey, SimulateRead, SimulateCheck, SimulateRename,
             SimulateRemove, SimulateSync, SimulateTry DEF Step
<1>3. ASSUME NEW p \in Procs, Fail(p) PROVE Simulates
  <2>1. Acts(p) BY <1>3 DEF Acts
  <2> QED BY <1>3, <2>1, SimulateFail DEF Fail
<1> QED BY <1>1, <1>2, <1>3, SimulateInvoke, SimulateRelease, SimulateCrash, SimulateMachineCrash
        DEF Next

(* The store implements AtomicStore, whatever the processes interleave and   *)
(* wherever they or the machine crash: an operation takes effect at one      *)
(* instant, a success that was reported survives, and a save of a known      *)
(* generation replaces that generation only.                                 *)
THEOREM StoreImplementsAtomicStore == ASSUME StoreAssumption PROVE Spec => ImplementsAtomicStore
<1>1. Init => Atomic!Init
  <2> SUFFICES ASSUME Init PROVE Atomic!Init OBVIOUS
  <2>1. RecView = [i \in Identities |-> 0] /\ MayBeView = [i \in Identities |-> {0}]
    BY DEF Init, RecView, MayBeView, StoredGen
  <2>2. HolderView = [i \in Identities |-> NoProc] BY DEF Init, HolderView
  <2>3. OpView = [p \in Procs |-> Atomic!Idle]
    BY DEF Init, OpView, Settling, At, Idle, Atomic!Idle
  <2> QED BY <2>1, <2>2, <2>3 DEF Init, Atomic!Init, NoReply, Atomic!NoReply
<1>2. IInv /\ [Next]_vars => [Atomic!Next]_(Atomic!vars)
  BY SimulateStep DEF Simulates
<1> QED BY <1>1, <1>2, StoreInvariance, PTL DEF Spec, ImplementsAtomicStore, Atomic!Spec
=============================================================================
