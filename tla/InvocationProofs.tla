-------------------------- MODULE InvocationProofs --------------------------
(* The parts of an invocation, for every value of the constants.  The proofs *)
(* about ConfigCompose, SecretReuse and Redactor are in modules of their own. *)
EXTENDS MCInvocation, Filtering, FiniteSetTheorems, SequenceTheorems, TLAPS

-----------------------------------------------------------------------------
(* Lists of any length.  A recursive function is unfolded, and a fact about  *)
(* its n-th value is proved for every n, without a theorem that takes an     *)
(* operator: with Counting, of RedactorProofs, for the set of the n it is    *)
(* proved for.  So it is for Kept in ConfigurationProofs: it is the          *)
(* subsequence of the members in S, member i that of place from[i].          *)
Picks(kept, list, n, S, from) ==
  /\ from \in [1..Len(kept) -> 1..n]
  /\ \A i \in 1..Len(kept) : kept[i] = list[from[i]]
  /\ \A i, j \in 1..Len(kept) : i < j => from[i] < from[j]
  /\ \A k \in 1..n : list[k] \in S => \E i \in 1..Len(kept) : from[i] = k

LEMMA KeptPicks ==
  ASSUME NEW A, NEW list \in Seq(A), NEW S
  PROVE  /\ Kept(list, S) \in Seq(A \cap S)
         /\ \E from : Picks(Kept(list, S), list, Len(list), S, from)
<1>1. Kept(list, S) = Configuring!Kept(list, S) BY DEF Kept, Configuring!Kept
<1>2. PICK kept : kept = Configuring!Kept(list, S) OBVIOUS
<1>3. kept \in Seq(A \cap S)
  BY <1>2, Configuring!KeptPicks
<1>4. PICK from : Configuring!Picks(kept, list, Len(list), S, from)
  BY <1>2, Configuring!KeptPicks
<1>5. Picks(kept, list, Len(list), S, from)
  BY <1>4 DEF Picks, Configuring!Picks
<1> QED BY <1>1, <1>2, <1>3, <1>5

-----------------------------------------------------------------------------
(* WorkspaceTrust: the list of trusted workspaces, for any number of         *)
(* administrators, any directory and any number of commands.                 *)
(* Between its flock and its unlock a command is alone with the list.        *)
TrustUpdating(me) == admin[me].pc \in {"read", "write", "rename", "unlock"}

TrustLists == (SUBSET Trust!Dirs) \cup {Torn}
TrustCommands == [pc : {"idle", "lock", "read", "write", "rename", "unlock", "report"},
             change : {"trust", "untrust", None}, dir : Trust!Dirs \cup {<<>>},
             copy : TrustLists \cup {None}]

TrustTyped ==
  /\ trust \in TrustLists
  /\ admin \in [Admins -> TrustCommands]
  /\ outcome \in [Trust!Dirs -> {"open", "trust", "untrust"}]
  /\ \A me \in Admins : admin[me].pc # "idle" =>
       admin[me].change \in {"trust", "untrust"} /\ admin[me].dir \in Trust!Dirs

TrustAlone == \A me \in Admins : TrustUpdating(me) => holder = me

(* The list to come is the one there is with the one change; once it is in   *)
(* place, it says what will be reported, after the unlock too, unless a      *)
(* contrary command overlaps.                                                *)
ListWith(list, r) == IF r.change = "trust" THEN list \cup {r.dir} ELSE list \ {r.dir}
Listed(list, r) == r.dir \in list <=> r.change = "trust"

ListCurrent(list, me, r) ==
  /\ r.pc \in {"write", "rename"} => r.copy \in TrustLists
  /\ r.pc \in {"write", "rename"} /\ r.copy # Torn =>
       list # Torn /\ r.copy = ListWith(list, r)
  /\ r.pc \in {"unlock", "report"} /\ me \notin contested /\ list # Torn => Listed(list, r)

CopyCurrent == \A me \in Admins : ListCurrent(trust, me, admin[me])

(* While an outcome stands, no contrary command on the directory is begun.   *)
Contests(r, dir, change) == r.pc # "idle" /\ r.dir = dir /\ r.change # change

Uncontested == \A d \in Trust!Dirs, me \in Admins :
  outcome[d] # "open" => ~ Contests(admin[me], d, outcome[d])

(* Of two contrary commands that overlap, both are marked.                   *)
Marked == \A me, other \in Admins :
  admin[me].pc # "idle" /\ Contests(admin[other], admin[me].dir, admin[me].change)
    => me \in contested

TrustInv ==
  /\ TrustTyped /\ TrustAlone /\ CopyCurrent /\ Uncontested /\ Marked
  /\ Trust!AcknowledgedStands

LEMMA TrustInit == ASSUME Trust!TrustAssumption, Trust!Init PROVE TrustInv
<1>1. TrustTyped BY DEF Trust!Init, TrustTyped, TrustCommands, TrustLists, Trust!Idle
<1>2. TrustAlone /\ CopyCurrent
  BY DEF Trust!Init, TrustAlone, TrustUpdating, CopyCurrent, ListCurrent, Trust!Idle
<1>3. Uncontested /\ Marked /\ Trust!AcknowledgedStands
  BY DEF Trust!Init, Uncontested, Marked, Trust!AcknowledgedStands, Trust!Idle
<1> QED BY <1>1, <1>2, <1>3 DEF TrustInv

(* A command goes on in its record alone; what it asks for stays the same.   *)
LEMMA UncontestedKept ==
  ASSUME Uncontested, NEW me \in Admins, NEW r, outcome' = outcome,
         admin' \in [Admins -> TrustCommands],
         admin'[me] = r, \A other \in Admins \ {me} : admin'[other] = admin[other],
         r.pc # "idle" =>
           admin[me].pc # "idle" /\ r.change = admin[me].change /\ r.dir = admin[me].dir
  PROVE  Uncontested'
  BY DEF Uncontested, Contests

LEMMA MarkedKept ==
  ASSUME Marked, NEW me \in Admins, NEW r,
         admin'[me] = r, \A other \in Admins \ {me} : admin'[other] = admin[other],
         r.pc # "idle" =>
           admin[me].pc # "idle" /\ r.change = admin[me].change /\ r.dir = admin[me].dir,
         contested \ {me} \subseteq contested',
         r.pc # "idle" => contested \subseteq contested'
  PROVE  Marked'
<1> SUFFICES ASSUME NEW one \in Admins, NEW other \in Admins, admin'[one].pc # "idle",
                    Contests(admin'[other], admin'[one].dir, admin'[one].change)
             PROVE  one \in contested'
  BY DEF Marked
<1>1. Contests(admin[other], admin[one].dir, admin[one].change) /\ admin[one].pc # "idle"
  BY DEF Contests
<1>2. one \in contested BY <1>1 DEF Marked
<1> QED BY <1>2

LEMMA Acknowledged ==
  ASSUME Trust!AcknowledgedStands, trust # Torn, NEW d \in Trust!Dirs
  PROVE  (outcome[d] = "trust" => d \in trust) /\ (outcome[d] = "untrust" => d \notin trust)
  BY DEF Trust!AcknowledgedStands

LEMMA TrustBegin ==
  ASSUME TrustInv, NEW me \in Admins, NEW change \in {"trust", "untrust"},
       NEW dir \in Trust!Dirs,
         Trust!Begin(me, change, dir)
  PROVE  TrustInv'
<1> DEFINE new == [pc |-> "lock", change |-> change, dir |-> dir, copy |-> None]
<1> USE DEF TrustInv, Trust!Begin
<1>1. admin'[me] = new /\ \A other \in Admins \ {me} : admin'[other] = admin[other]
  BY DEF TrustTyped
<1>2. outcome' \in [Trust!Dirs -> {"open", "trust", "untrust"}]
      /\ \A d \in Trust!Dirs : outcome'[d] \in {outcome[d], "open"}
                         /\ (d = dir => outcome'[d] \in {"open", change})
  BY DEF TrustTyped
<1>3. TrustTyped'
  <2>1. new \in TrustCommands BY DEF TrustCommands
  <2>2. admin' \in [Admins -> TrustCommands] BY <2>1 DEF TrustTyped
  <2> QED BY <2>2, <1>1, <1>2 DEF TrustTyped
<1>4. TrustAlone' BY <1>1 DEF TrustAlone, TrustUpdating
<1>5. CopyCurrent'
  <2>1. contested \subseteq contested' OBVIOUS
  <2>2. ASSUME NEW other \in Admins PROVE ListCurrent(trust, other, admin[other])'
    BY <2>1, <1>1 DEF CopyCurrent, ListCurrent
  <2> QED BY <2>2 DEF CopyCurrent
<1>6. Uncontested'
  <2> SUFFICES ASSUME NEW d \in Trust!Dirs, NEW other \in Admins, outcome'[d] # "open"
               PROVE  ~ Contests(admin'[other], d, outcome'[d])
    BY DEF Uncontested
  <2>1. CASE other = me BY <2>1, <1>1, <1>2 DEF Contests
  <2>2. CASE other # me BY <2>2, <1>1, <1>2 DEF Uncontested
  <2> QED BY <2>1, <2>2
<1>7. Marked'
  <2> SUFFICES ASSUME NEW one \in Admins, NEW other \in Admins, admin'[one].pc # "idle",
                      Contests(admin'[other], admin'[one].dir, admin'[one].change)
               PROVE  one \in contested'
    BY DEF Marked
  <2>1. CASE one = me
    <3>1. other # me BY <2>1, <1>1 DEF Contests
    <3>2. other \in Trust!Contrary(dir, change)
      BY <2>1, <3>1, <1>1 DEF Contests, Trust!Contrary
    <3> QED BY <2>1, <3>2
  <2>2. CASE one # me /\ other = me
    <3>1. one \in Trust!Contrary(dir, change)
      BY <2>2, <1>1 DEF Contests, Trust!Contrary
    <3> QED BY <3>1
  <2>3. CASE one # me /\ other # me
    <3>1. one \in contested BY <2>3, <1>1 DEF Marked
    <3> QED BY <3>1
  <2> QED BY <2>1, <2>2, <2>3
<1>8. Trust!AcknowledgedStands' BY <1>2 DEF Trust!AcknowledgedStands
<1> QED BY <1>3, <1>4, <1>5, <1>6, <1>7, <1>8

LEMMA TrustLock ==
  ASSUME Trust!TrustAssumption, TrustInv, NEW me \in Admins, Trust!Lock(me)
  PROVE  TrustInv'
<1> DEFINE r == [admin[me] EXCEPT !.pc = "read"]
<1> USE DEF TrustInv, Trust!Lock, Trust!Goto
<1>1. /\ admin'[me] = r /\ admin[me] \in TrustCommands /\ admin[me].pc = "lock"
      /\ \A other \in Admins \ {me} : admin'[other] = admin[other]
  BY DEF TrustTyped
<1>2. /\ r \in TrustCommands /\ r.pc = "read" /\ r.change = admin[me].change
      /\ r.dir = admin[me].dir
  BY <1>1 DEF TrustCommands
<1> HIDE DEF r
<1>3. TrustTyped' BY <1>1, <1>2 DEF TrustTyped
<1>4. TrustAlone' BY <1>1 DEF TrustAlone, TrustUpdating, Trust!TrustAssumption
<1>5. CopyCurrent'
  <2>1. ListCurrent(trust, me, r) BY <1>2 DEF ListCurrent
  <2> QED BY <2>1, <1>1 DEF CopyCurrent, ListCurrent
<1>6. Uncontested' BY <1>1, <1>2, <1>3, UncontestedKept DEF TrustTyped
<1>7. Marked' BY <1>1, <1>2, MarkedKept
<1> QED BY <1>3, <1>4, <1>5, <1>6, <1>7 DEF Trust!AcknowledgedStands

LEMMA TrustReadState ==
  ASSUME TrustInv, NEW me \in Admins, Trust!ReadState(me)
  PROVE  TrustInv'
<1> DEFINE r == [admin[me] EXCEPT !.pc = "write", !.copy = Trust!Changed(trust, me)]
<1> USE DEF TrustInv, Trust!ReadState
<1>1. /\ admin'[me] = r /\ admin[me] \in TrustCommands /\ admin[me].pc = "read"
      /\ \A other \in Admins \ {me} : admin'[other] = admin[other]
  BY DEF TrustTyped
<1>2. Trust!Changed(trust, me) \in TrustLists BY DEF Trust!Changed, TrustTyped, TrustLists
<1>3. /\ r \in TrustCommands /\ r.pc = "write" /\ r.change = admin[me].change
      /\ r.dir = admin[me].dir /\ r.copy = Trust!Changed(trust, me)
  BY <1>1, <1>2 DEF TrustCommands
<1> HIDE DEF r
<1>4. TrustTyped' BY <1>1, <1>3 DEF TrustTyped
<1>5. TrustAlone' BY <1>1, <1>3 DEF TrustAlone, TrustUpdating
<1>6. CopyCurrent'
  <2>1. ListCurrent(trust, me, r) BY <1>2, <1>3 DEF ListCurrent, Trust!Changed, ListWith
  <2> QED BY <2>1, <1>1 DEF CopyCurrent, ListCurrent
<1>7. Uncontested' BY <1>1, <1>3, <1>4, UncontestedKept DEF TrustTyped
<1>8. Marked' BY <1>1, <1>3, MarkedKept
<1> QED BY <1>4, <1>5, <1>6, <1>7, <1>8 DEF Trust!AcknowledgedStands

(* Written or not, what goes on is the list made or one that is torn.        *)
LEMMA TrustWrite ==
  ASSUME TrustInv, NEW me \in Admins, Trust!WriteTemp(me) \/ Trust!WriteFails(me)
  PROVE  TrustInv'
<1> USE DEF TrustInv
<1>1. /\ admin[me] \in TrustCommands /\ admin[me].pc = "write"
      /\ \A other \in Admins \ {me} : admin'[other] = admin[other]
      /\ UNCHANGED <<trust, holder, outcome, contested>>
  BY DEF TrustTyped, Trust!WriteTemp, Trust!WriteFails, Trust!Goto
<1>2. /\ admin' \in [Admins -> TrustCommands]
      /\ admin'[me].pc = "rename" /\ admin'[me].change = admin[me].change
      /\ admin'[me].dir = admin[me].dir /\ admin'[me].copy \in {admin[me].copy, Torn}
  <2>1. CASE Trust!WriteTemp(me)
    BY <2>1, <1>1 DEF TrustTyped, Trust!WriteTemp, Trust!Goto, TrustCommands
  <2>2. CASE Trust!WriteFails(me)
    <3>1. Torn \in TrustLists BY DEF TrustLists
    <3> QED BY <2>2, <3>1, <1>1 DEF TrustTyped, Trust!WriteFails, TrustCommands
  <2> QED BY <2>1, <2>2
<1> DEFINE r == admin'[me]
<1>3. TrustTyped' BY <1>1, <1>2 DEF TrustTyped
<1>4. TrustAlone' BY <1>1, <1>2 DEF TrustAlone, TrustUpdating
<1>5. CopyCurrent'
  <2>1. ListCurrent(trust, me, admin[me]) BY DEF CopyCurrent
  <2>2. ListCurrent(trust, me, r) BY <2>1, <1>1, <1>2 DEF ListCurrent, ListWith, TrustLists
  <2> QED BY <2>2, <1>1 DEF CopyCurrent, ListCurrent
<1>6. Uncontested' BY <1>1, <1>2, UncontestedKept
<1>7. Marked' BY <1>1, <1>2, MarkedKept
<1> QED BY <1>1, <1>3, <1>4, <1>5, <1>6, <1>7 DEF Trust!AcknowledgedStands

(* The new list is the old one with the change of the only command that has  *)
(* the lock, and no outcome that stands is contrary to it.                   *)
LEMMA TrustRename ==
  ASSUME TrustInv, NEW me \in Admins, Trust!Rename(me)
  PROVE  TrustInv'
<1> DEFINE r == [admin[me] EXCEPT !.pc = "unlock"]
<1> USE DEF TrustInv, Trust!Rename, Trust!Goto
<1>1. /\ admin'[me] = r /\ admin[me] \in TrustCommands /\ admin[me].pc = "rename"
      /\ \A other \in Admins \ {me} : admin'[other] = admin[other]
  BY DEF TrustTyped
<1>2. /\ r \in TrustCommands /\ r.pc = "unlock" /\ r.change = admin[me].change
      /\ r.dir = admin[me].dir
  BY <1>1 DEF TrustCommands
<1> HIDE DEF r
<1>3. trust' \in TrustLists /\ (trust' # Torn => trust # Torn /\ trust' = ListWith(trust,
     admin[me]))
  BY DEF CopyCurrent, ListCurrent
<1>4. /\ admin[me].dir \in Trust!Dirs /\ admin[me].change \in {"trust", "untrust"}
      /\ trust' # Torn => Listed(trust', admin[me])
  BY <1>1, <1>3 DEF Listed, ListWith, TrustTyped
<1>5. \A other \in Admins \ {me} : admin[other].pc \notin {"write", "rename", "unlock"}
  BY <1>1 DEF TrustAlone, TrustUpdating
<1>6. TrustTyped' BY <1>1, <1>2, <1>3 DEF TrustTyped
<1>7. TrustAlone' BY <1>1 DEF TrustAlone, TrustUpdating
<1>8. CopyCurrent'
  <2>1. ListCurrent(trust', me, r) BY <1>2, <1>4 DEF ListCurrent, Listed
  <2>2. ASSUME NEW other \in Admins \ {me} PROVE ListCurrent(trust', other, admin[other])
    <3> SUFFICES ASSUME admin[other].pc = "report", other \notin contested, trust' # Torn
                 PROVE  Listed(trust', admin[other])
      BY <1>5 DEF ListCurrent
    <3>1. trust # Torn /\ trust' = ListWith(trust, admin[me]) BY <1>3
    <3>2. Listed(trust, admin[other]) BY <3>1 DEF CopyCurrent, ListCurrent
    <3>3. CASE admin[other].dir # admin[me].dir
      BY <3>1, <3>2, <3>3 DEF Listed, ListWith
    <3>4. CASE admin[other].dir = admin[me].dir
      <4>1. admin[other].change = admin[me].change
        BY <3>4, <1>1 DEF Marked, Contests
      <4> QED BY <3>1, <3>4, <4>1, <1>4 DEF Listed
    <3> QED BY <3>3, <3>4
  <2> QED BY <2>1, <2>2, <1>1 DEF CopyCurrent, ListCurrent
<1>9. Uncontested' BY <1>1, <1>2, <1>6, UncontestedKept DEF TrustTyped
<1>10. Trust!AcknowledgedStands'
  <2> SUFFICES ASSUME trust' # Torn, NEW d \in Trust!Dirs, NEW e, e = outcome[d], e # "open"
               PROVE (e = "trust" => d \in trust') /\ (e = "untrust" => d \notin trust')
    BY DEF Trust!AcknowledgedStands
  <2>1. CASE d = admin[me].dir
    <3>1. admin[me].change = e BY <2>1, <1>1 DEF Uncontested, Contests
    <3> QED BY <2>1, <3>1, <1>4 DEF Listed
  <2>2. CASE d # admin[me].dir
    <3>1. (e = "trust" => d \in trust) /\ (e = "untrust" => d \notin trust)
      BY <1>3, Acknowledged
    <3>2. d \in trust' <=> d \in trust BY <2>2, <1>3 DEF ListWith
    <3> QED BY <3>1, <3>2
  <2> QED BY <2>1, <2>2
<1>11. Marked' BY <1>1, <1>2, MarkedKept
<1> QED BY <1>6, <1>7, <1>8, <1>9, <1>10, <1>11

LEMMA TrustUnlock ==
  ASSUME TrustInv, NEW me \in Admins, Trust!Unlock(me)
  PROVE  TrustInv'
<1> DEFINE r == [admin[me] EXCEPT !.pc = "report"]
<1> USE DEF TrustInv, Trust!Unlock, Trust!Goto, Trust!Release
<1>1. /\ admin'[me] = r /\ admin[me] \in TrustCommands /\ admin[me].pc = "unlock"
      /\ \A other \in Admins \ {me} : admin'[other] = admin[other]
  BY DEF TrustTyped
<1>2. /\ r \in TrustCommands /\ r.pc = "report" /\ r.change = admin[me].change
      /\ r.dir = admin[me].dir
  BY <1>1 DEF TrustCommands
<1> HIDE DEF r
<1>3. TrustTyped' BY <1>1, <1>2 DEF TrustTyped
<1>4. TrustAlone' BY <1>1, <1>2 DEF TrustAlone, TrustUpdating
<1>5. CopyCurrent'
  <2>1. ListCurrent(trust, me, r) BY <1>1, <1>2 DEF CopyCurrent, ListCurrent, Listed
  <2> QED BY <2>1, <1>1 DEF CopyCurrent, ListCurrent
<1>6. Uncontested' BY <1>1, <1>2, <1>3, UncontestedKept DEF TrustTyped
<1>7. Marked' BY <1>1, <1>2, MarkedKept
<1> QED BY <1>3, <1>4, <1>5, <1>6, <1>7 DEF Trust!AcknowledgedStands

LEMMA TrustReport ==
  ASSUME TrustInv, NEW me \in Admins, Trust!Report(me)
  PROVE  TrustInv'
<1> DEFINE dir == admin[me].dir
           change == admin[me].change
<1> USE DEF TrustInv, Trust!Report
<1>1. /\ admin'[me] = Trust!Idle /\ \A other \in Admins \ {me} : admin'[other] = admin[other]
      /\ dir \in Trust!Dirs /\ change \in {"trust", "untrust"}
  BY DEF TrustTyped
<1>2. /\ outcome' \in [Trust!Dirs -> {"open", "trust", "untrust"}]
      /\ outcome'[dir] = "open" \/ (outcome'[dir] = change /\ me \notin contested)
      /\ \A d \in Trust!Dirs : d # dir => outcome'[d] = outcome[d]
  BY <1>1 DEF TrustTyped
<1>3. TrustTyped'
  <2>1. Trust!Idle \in TrustCommands BY DEF TrustCommands, Trust!Idle
  <2>2. admin' \in [Admins -> TrustCommands] BY <2>1 DEF TrustTyped
  <2> QED BY <2>2, <1>1, <1>2 DEF TrustTyped, Trust!Idle
<1>4. TrustAlone' BY <1>1 DEF TrustAlone, TrustUpdating, Trust!Idle
<1>5. CopyCurrent'
  <2>1. ListCurrent(trust, me, Trust!Idle)' BY DEF ListCurrent, Trust!Idle
  <2> QED BY <2>1, <1>1 DEF CopyCurrent, ListCurrent
<1>6. Uncontested'
  <2> SUFFICES ASSUME NEW d \in Trust!Dirs, NEW other \in Admins, outcome'[d] # "open"
               PROVE  ~ Contests(admin'[other], d, outcome'[d])
    BY DEF Uncontested
  <2>1. CASE other = me BY <2>1, <1>1 DEF Contests, Trust!Idle
  <2>2. CASE other # me /\ d = dir BY <2>2, <1>1, <1>2 DEF Marked, Contests
  <2>3. CASE other # me /\ d # dir BY <2>3, <1>1, <1>2 DEF Uncontested
  <2> QED BY <2>1, <2>2, <2>3
<1>7. Trust!AcknowledgedStands'
  <2> SUFFICES ASSUME trust # Torn, NEW d \in Trust!Dirs, NEW e, e = outcome'[d], e # "open"
               PROVE (e = "trust" => d \in trust) /\ (e = "untrust" => d \notin trust)
    BY DEF Trust!AcknowledgedStands
  <2>2. CASE d = dir
    <3>1. me \notin contested BY <2>2, <1>2
    <3>2. Listed(trust, admin[me]) BY <3>1 DEF CopyCurrent, ListCurrent
    <3> QED BY <2>2, <3>2, <1>1, <1>2 DEF Listed
  <2>3. CASE d # dir
    <3>1. e = outcome[d] BY <2>3, <1>2
    <3> QED BY <3>1, Acknowledged
  <2> QED BY <2>2, <2>3
<1>8. Marked'
  <2>1. Trust!Idle.pc = "idle" BY DEF Trust!Idle
  <2> QED BY <2>1, <1>1, MarkedKept
<1> QED BY <1>3, <1>4, <1>5, <1>6, <1>7, <1>8

LEMMA TrustAbort ==
  ASSUME TrustInv, NEW me \in Admins, Trust!Abort(me)
  PROVE  TrustInv'
<1> USE DEF TrustInv, Trust!Abort, Trust!Release
<1>1. admin'[me] = Trust!Idle /\ \A other \in Admins \ {me} : admin'[other] = admin[other]
  BY DEF TrustTyped
<1>2. TrustTyped'
  <2>1. Trust!Idle \in TrustCommands BY DEF TrustCommands, Trust!Idle
  <2>2. admin' \in [Admins -> TrustCommands] BY <2>1 DEF TrustTyped
  <2> QED BY <2>2, <1>1 DEF TrustTyped, Trust!Idle
<1>3. TrustAlone' BY <1>1 DEF TrustAlone, TrustUpdating, Trust!Idle
<1>4. CopyCurrent'
  <2>1. ListCurrent(trust, me, Trust!Idle)' BY DEF ListCurrent, Trust!Idle
  <2> QED BY <2>1, <1>1 DEF CopyCurrent, ListCurrent
<1>5. Uncontested'
  <2>1. Trust!Idle.pc = "idle" BY DEF Trust!Idle
  <2> QED BY <2>1, <1>1, <1>2, UncontestedKept DEF TrustTyped
<1>6. Marked'
  <2>1. Trust!Idle.pc = "idle" BY DEF Trust!Idle
  <2> QED BY <2>1, <1>1, MarkedKept
<1> QED BY <1>2, <1>3, <1>4, <1>5, <1>6 DEF Trust!AcknowledgedStands

LEMMA TrustUnchanged == ASSUME TrustInv, UNCHANGED Trust!trustVars PROVE TrustInv'
  BY DEF TrustInv, Trust!trustVars, TrustTyped, TrustAlone, TrustUpdating, CopyCurrent,
         ListCurrent, Uncontested, Marked, Trust!AcknowledgedStands

LEMMA TrustStep ==
  ASSUME Trust!TrustAssumption, TrustInv, [Trust!Next]_(Trust!vars)
  PROVE  TrustInv'
<1>1. CASE \E me \in Admins : Trust!Update(me)
  <2> PICK me \in Admins : Trust!Update(me) BY <1>1
  <2> QED
    BY TrustBegin, TrustLock, TrustReadState, TrustWrite, TrustRename, TrustUnlock,
       TrustReport, TrustAbort
    DEF Trust!Update
<1>2. CASE Trust!Invoke
  BY <1>2, TrustUnchanged
  DEF Trust!Invoke, Trust!ResolveConfigContext, Trust!ResolveInvocationContext, Trust!Send,
       Trust!Execute
<1>3. CASE UNCHANGED Trust!vars BY <1>3, TrustUnchanged DEF Trust!vars
<1> QED BY <1>1, <1>2, <1>3 DEF Trust!Next

-----------------------------------------------------------------------------
(* WorkspaceTrust: where an invocation may read from (SourcesTrusted).       *)
(* The directories from the filesystem's root to Cwd, by their depth.        *)
Ancestor(n) == SubSeq(Cwd, 1, n)
Components == DOMAIN NameLength

LEMMA Ancestors ==
  ASSUME Trust!TrustAssumption
  PROVE  /\ Len(Cwd) \in Nat
         /\ \A n \in 0..Len(Cwd) :
              /\ Ancestor(n) \in Seq(Components) /\ Len(Ancestor(n)) = n
              /\ Ancestor(n) \in Trust!Dirs
              /\ \A i \in 1..n : Ancestor(n)[i] = Cwd[i]
         /\ \A d \in Trust!Dirs : \E n \in 0..Len(Cwd) : d = Ancestor(n)
<1>1. Cwd \in Seq(Components) BY DEF Trust!TrustAssumption, Components
<1>2. Len(Cwd) \in Nat BY <1>1
<1>3. ASSUME NEW n \in 0..Len(Cwd)
      PROVE  /\ Ancestor(n) \in Seq(Components) /\ Len(Ancestor(n)) = n
             /\ \A i \in 1..n : Ancestor(n)[i] = Cwd[i]
  BY <1>1, <1>2, SubSeqProperties DEF Ancestor
<1> QED BY <1>2, <1>3 DEF Trust!Dirs, Ancestor

LEMMA Above ==
  ASSUME Trust!TrustAssumption, NEW m \in 0..Len(Cwd), NEW n \in 0..Len(Cwd)
  PROVE  /\ Trust!pathContains(Ancestor(n), Cwd)
         /\ Trust!pathContains(Ancestor(m), Ancestor(n)) <=> m <= n
<1>1. /\ Len(Cwd) \in Nat /\ Cwd \in Seq(Components)
      /\ \A k \in 0..Len(Cwd) :
           /\ Ancestor(k) \in Seq(Components) /\ Len(Ancestor(k)) = k
           /\ \A i \in 1..k : Ancestor(k)[i] = Cwd[i]
  BY Ancestors DEF Trust!TrustAssumption, Components
<1>2. ASSUME NEW k \in 0..Len(Cwd), NEW t \in Seq(Components), k <= Len(t),
             \A i \in 1..k : t[i] = Cwd[i]
      PROVE  Trust!pathContains(Ancestor(k), t)
  <2>1. /\ SubSeq(Ancestor(k), 1, k) \in Seq(Components) /\ Len(SubSeq(Ancestor(k), 1, k)) = k
        /\ \A i \in 1..k : SubSeq(Ancestor(k), 1, k)[i] = Cwd[i]
    BY <1>1
  <2>2. /\ SubSeq(t, 1, k) \in Seq(Components) /\ Len(SubSeq(t, 1, k)) = k
        /\ \A i \in 1..k : SubSeq(t, 1, k)[i] = Cwd[i]
    BY <1>2, <1>1
  <2>3. SubSeq(Ancestor(k), 1, k) = SubSeq(t, 1, k) BY <2>1, <2>2, SeqEqual
  <2> QED BY <1>1, <1>2, <2>3 DEF Trust!pathContains, Trust!IsPrefix
<1>3. Trust!pathContains(Ancestor(n), Cwd) BY <1>1, <1>2
<1>4. m <= n => Trust!pathContains(Ancestor(m), Ancestor(n))
  <2> SUFFICES ASSUME m <= n PROVE Trust!pathContains(Ancestor(m), Ancestor(n)) OBVIOUS
  <2>1. Ancestor(n) \in Seq(Components) /\ m <= Len(Ancestor(n)) BY <1>1
  <2>2. ASSUME NEW i \in 1..m PROVE Ancestor(n)[i] = Cwd[i]
    <3>1. i \in 1..n BY <1>1
    <3> QED BY <3>1, <1>1
  <2> QED BY <2>1, <2>2, <1>2
<1>5. Trust!pathContains(Ancestor(m), Ancestor(n)) => m <= n
  BY <1>1 DEF Trust!pathContains, Trust!IsPrefix
<1> QED BY <1>3, <1>4, <1>5

LEMMA FileIn ==
  ASSUME Trust!TrustAssumption, NEW n \in 0..Len(Cwd)
  PROVE  /\ Trust!Front(Trust!Metadata(Ancestor(n))) = Ancestor(n)
         /\ Len(Trust!Metadata(Ancestor(n))) = n + 1
         /\ Trust!Metadata(Ancestor(n)) # Trust!Global
<1> DEFINE path == Trust!Metadata(Ancestor(n))
           All == Components \cup {".wirecmd"}
<1>1. Ancestor(n) \in Seq(All) /\ Len(Ancestor(n)) = n /\ n \in Nat
  <2>1. Ancestor(n) \in Seq(Components) /\ Len(Ancestor(n)) = n /\ n \in Nat BY Ancestors
  <2> QED BY <2>1
<1>2. /\ path \in Seq(All) /\ Len(path) = n + 1
      /\ \A i \in 1..n : path[i] = Ancestor(n)[i]
      /\ path[n + 1] = ".wirecmd"
  BY <1>1 DEF Trust!Metadata
<1> HIDE DEF path
<1>3. /\ SubSeq(path, 1, n) \in Seq(All) /\ Len(SubSeq(path, 1, n)) = n
      /\ \A i \in 1..n : SubSeq(path, 1, n)[i] = Ancestor(n)[i]
  BY <1>1, <1>2
<1>4. SubSeq(path, 1, n) = Ancestor(n) BY <1>1, <1>3, SeqEqual
<1>5. Trust!Front(path) = Ancestor(n)
  <2>1. Len(path) - 1 = n BY <1>1, <1>2
  <2> QED BY <1>4, <2>1 DEF Trust!Front
<1>6. path # Trust!Global
  <2>1. Len(Trust!Global) = 2 /\ Trust!Global[2] = "wirecmd" BY DEF Trust!Global
  <2> QED BY <1>1, <1>2, <2>1
<1> QED BY <1>2, <1>5, <1>6 DEF path

(* The deepest trusted ancestor is one of the trusted.                       *)
LEMMA DeepestTrusted ==
  ASSUME Trust!TrustAssumption, NEW list \in SUBSET Trust!Dirs,
         Trust!nearestTrustedAncestor(Cwd, list) # None
  PROVE  Trust!nearestTrustedAncestor(Cwd, list) \in list
<1>1. PICK S : S = {d \in list : Trust!within(d, Cwd)} OBVIOUS
<1>2. S # {} /\ Trust!nearestTrustedAncestor(Cwd, list) =
                  CHOOSE d \in S : \A e \in S : Len(e) <= Len(d)
  BY <1>1 DEF Trust!nearestTrustedAncestor, Trust!Deepest
<1>3. Len(Cwd) \in Nat /\ \A d \in S : Len(d) \in Nat /\ Len(d) <= Len(Cwd)
  <2> SUFFICES ASSUME NEW d \in S PROVE Len(d) \in Nat /\ Len(d) <= Len(Cwd)
    BY Ancestors
  <2>1. PICK n \in 0..Len(Cwd) : d = Ancestor(n) BY <1>1, Ancestors
  <2> QED BY <2>1, Ancestors
<1>4. \E d \in S : \A e \in S : Len(e) <= Len(d)
  <2> SUFFICES ASSUME \A d \in S : \E e \in S : ~ (Len(e) <= Len(d)) PROVE FALSE
    OBVIOUS
  <2>1. PICK T : T = {n \in Nat : \E d \in S : n <= Len(d)} OBVIOUS
  <2>2. 0 \in T BY <1>2, <1>3, <2>1
  <2>3. \A n \in Nat : n \in T => n + 1 \in T
    <3> SUFFICES ASSUME NEW n \in Nat, NEW d \in S, n <= Len(d)
                 PROVE  \E e \in S : n + 1 <= Len(e)
      BY <2>1
    <3>1. PICK e \in S : ~ (Len(e) <= Len(d)) OBVIOUS
    <3> QED BY <1>3, <3>1
  <2>4. Len(Cwd) + 1 \in T BY <1>3, <2>2, <2>3, Redacting!Counting
  <2> QED BY <1>3, <2>1, <2>4
<1> QED BY <1>1, <1>2, <1>4

(* The way from a root down to Cwd.                                          *)
LEMMA WayDown ==
  ASSUME Trust!TrustAssumption, NEW r \in 0..Len(Cwd)
  PROVE  /\ Trust!From(Ancestor(r)) \in Seq(Trust!Dirs)
         /\ Len(Trust!From(Ancestor(r))) = Len(Cwd) - r + 1
         /\ \A i \in 1..(Len(Cwd) - r + 1) :
              r + i - 1 \in r..Len(Cwd) /\ Trust!From(Ancestor(r))[i] = Ancestor(r + i - 1)
<1>1. Len(Cwd) \in Nat /\ Len(Ancestor(r)) = r /\ r \in Nat BY Ancestors
<1>2. Trust!From(Ancestor(r)) = [n \in 1..(Len(Cwd) - r + 1) |-> Ancestor(r + n - 1)]
  BY <1>1 DEF Trust!From, Ancestor
<1>3. \A n \in 1..(Len(Cwd) - r + 1) : r + n - 1 \in r..Len(Cwd) /\ r + n - 1 \in 0..Len(Cwd)
  BY <1>1
<1>4. \A n \in 1..(Len(Cwd) - r + 1) : Ancestor(r + n - 1) \in Trust!Dirs BY <1>3, Ancestors
<1>5. Len(Cwd) - r + 1 \in Nat BY <1>1
<1>6. PICK way : way = Trust!From(Ancestor(r)) OBVIOUS
<1>7. way \in Seq(Trust!Dirs) BY <1>2, <1>4, <1>5, <1>6
<1>8. Len(way) = Len(Cwd) - r + 1 BY <1>2, <1>5, <1>6
<1> QED BY <1>2, <1>3, <1>6, <1>7, <1>8

(* Among them the configured ones, from broad to near and all of them.       *)
LEMMA ConfiguredOnTheWay ==
  ASSUME Trust!TrustAssumption, NEW r \in 0..Len(Cwd), NEW nested,
         nested = Trust!Configured(Trust!From(Ancestor(r)))
  PROVE  /\ nested \in Seq(Trust!Dirs)
         /\ \E depth \in [1..Len(nested) -> r..Len(Cwd)] :
              /\ \A i \in 1..Len(nested) : nested[i] = Ancestor(depth[i])
              /\ \A i, j \in 1..Len(nested) : i < j => depth[i] < depth[j]
         /\ \A n \in r..Len(Cwd) : world.metadata[Ancestor(n)] = "config" =>
              \E i \in 1..Len(nested) : nested[i] = Ancestor(n)
<1>1. PICK way : way = Trust!From(Ancestor(r)) OBVIOUS
<1>2. /\ way \in Seq(Trust!Dirs) /\ Len(way) = Len(Cwd) - r + 1
      /\ \A i \in 1..(Len(Cwd) - r + 1) :
           r + i - 1 \in r..Len(Cwd) /\ way[i] = Ancestor(r + i - 1)
  BY <1>1, WayDown
<1>3. PICK S : S = {d \in Trust!Dirs : world.metadata[d] = "config"} OBVIOUS
<1>4. nested = Kept(way, S) BY <1>1, <1>3 DEF Trust!Configured, Trust!Kept, Kept
<1>5. nested \in Seq(Trust!Dirs \cap S) BY <1>2, <1>4, KeptPicks
<1>6. PICK from : Picks(nested, way, Len(way), S, from) BY <1>2, <1>4, KeptPicks
<1>7. Len(Cwd) \in Nat /\ r \in Nat /\ Len(nested) \in Nat BY <1>5, Ancestors
<1>8. \A i \in 1..Len(nested) :
        from[i] \in 1..(Len(Cwd) - r + 1) /\ r + from[i] - 1 \in r..Len(Cwd)
        /\ nested[i] = Ancestor(r + from[i] - 1)
  BY <1>2, <1>6 DEF Picks
<1>9. PICK depth : depth = [i \in 1..Len(nested) |-> r + from[i] - 1] OBVIOUS
<1>10. depth \in [1..Len(nested) -> r..Len(Cwd)] BY <1>8, <1>9
<1>11. \A i \in 1..Len(nested) : nested[i] = Ancestor(depth[i]) BY <1>8, <1>9
<1>12. \A i, j \in 1..Len(nested) : i < j => depth[i] < depth[j]
  <2> SUFFICES ASSUME NEW i \in 1..Len(nested), NEW j \in 1..Len(nested), i < j
               PROVE  depth[i] < depth[j]
    OBVIOUS
  <2>1. from[i] < from[j] BY <1>6 DEF Picks
  <2> QED BY <1>7, <1>8, <1>9, <2>1
<1>13. ASSUME NEW n \in r..Len(Cwd), world.metadata[Ancestor(n)] = "config"
       PROVE  \E i \in 1..Len(nested) : nested[i] = Ancestor(n)
  <2>1. n - r + 1 \in 1..Len(way) /\ r + (n - r + 1) - 1 = n /\ n \in 0..Len(Cwd)
    BY <1>2, <1>7
  <2>2. way[n - r + 1] = Ancestor(n) BY <1>2, <2>1
  <2>3. Ancestor(n) \in S BY <1>3, <1>13, <2>1, Ancestors
  <2>4. PICK i \in 1..Len(nested) : from[i] = n - r + 1 BY <1>6, <2>1, <2>2, <2>3 DEF Picks
  <2> QED BY <1>8, <2>1, <2>4
<1> QED BY <1>5, <1>10, <1>11, <1>12, <1>13

-----------------------------------------------------------------------------
(* What automatic discovery makes of a list.                                 *)
Discovered(resolved, list) ==
  /\ resolved.discovered = TRUE /\ resolved.configs # <<>>
  /\ \A f \in Trust!ToSet(Trust!Workspace(resolved)) : Trust!Trusted(f, list)
  /\ Trust!BroadToNear(resolved)
  /\ \A d \in Trust!Dirs :
       /\ resolved.boundary # None /\ Trust!pathContains(resolved.boundary, d)
       /\ world.metadata[d] = "config"
       => Trust!Metadata(d) \in Trust!ToSet(Trust!Workspace(resolved))
  /\ Trust!validateDaemonDiscoveryContext(resolved)

(* The user's file comes first, whatever follows it.                         *)
LEMMA GlobalFirst ==
  ASSUME NEW A, NEW files \in Seq(A), NEW resolved,
         resolved.configs = Trust!GlobalSources \o files
  PROVE  Trust!Workspace(resolved) = files
<1> DEFINE B == A \cup {Trust!Global}
<1>1. /\ Trust!GlobalSources \in Seq(B) /\ files \in Seq(B)
      /\ Len(Trust!GlobalSources) \in Nat /\ Len(files) \in Nat
  <2>1. A \subseteq B /\ Trust!Global \in B OBVIOUS
  <2> HIDE DEF B
  <2>2. files \in Seq(B) /\ Len(files) \in Nat BY <2>1
  <2>3. <<>> \in Seq(B) /\ <<Trust!Global>> \in Seq(B) BY <2>1
  <2>4. Trust!GlobalSources \in Seq(B) BY <2>3 DEF Trust!GlobalSources
  <2> QED BY <2>2, <2>4
<1>2. PICK g : g = Trust!GlobalSources OBVIOUS
<1>3. /\ resolved.configs \in Seq(B) /\ Len(resolved.configs) = Len(g) + Len(files)
      /\ \A i \in 1..Len(files) : resolved.configs[Len(g) + i] = files[i]
  BY <1>1, <1>2
<1>4. PICK all : all = resolved.configs OBVIOUS
<1>5. /\ SubSeq(all, Len(g) + 1, Len(all)) \in Seq(B)
      /\ Len(SubSeq(all, Len(g) + 1, Len(all))) = Len(files)
      /\ \A i \in 1..Len(files) : SubSeq(all, Len(g) + 1, Len(all))[i] = files[i]
  <2>1. \A i \in (Len(g) + 1)..Len(all) : all[i] \in B BY <1>1, <1>2, <1>3, <1>4
  <2>2. Len(all) - (Len(g) + 1) + 1 = Len(files) BY <1>1, <1>2, <1>3, <1>4
  <2>3. \A i \in 1..Len(files) : (Len(g) + 1) + i - 1 = Len(g) + i BY <1>1, <1>2
  <2> QED BY <1>1, <1>2, <1>3, <1>4, <2>1, <2>2, <2>3, SubSeqProperties
<1>6. SubSeq(all, Len(g) + 1, Len(all)) = files BY <1>1, <1>5, SeqEqual
<1> QED BY <1>2, <1>4, <1>6 DEF Trust!Workspace

LEMMA WithinTrusted ==
  ASSUME Trust!TrustAssumption, NEW list \in SUBSET Trust!Dirs, NEW root \in list,
         Trust!ResolveWithin(root).error = None
  PROVE  Discovered(Trust!ResolveWithin(root), list)
<1>1. PICK r \in 0..Len(Cwd) : root = Ancestor(r) BY Ancestors
<1>2. PICK nested : nested = Trust!Configured(Trust!From(root)) OBVIOUS
<1>3. /\ nested \in Seq(Trust!Dirs)
      /\ \A n \in r..Len(Cwd) : world.metadata[Ancestor(n)] = "config" =>
           \E i \in 1..Len(nested) : nested[i] = Ancestor(n)
  BY <1>1, <1>2, ConfiguredOnTheWay
<1>4. PICK depth \in [1..Len(nested) -> r..Len(Cwd)] :
        /\ \A i \in 1..Len(nested) : nested[i] = Ancestor(depth[i])
        /\ \A i, j \in 1..Len(nested) : i < j => depth[i] < depth[j]
  BY <1>1, <1>2, ConfiguredOnTheWay
<1>5. PICK files : files = [n \in 1..Len(nested) |-> Trust!Metadata(nested[n])] OBVIOUS
<1>6. PICK resolved : resolved = Trust!ResolveWithin(root) OBVIOUS
<1>7. /\ Trust!GlobalSources \o files # <<>>
      /\ resolved = Trust!ContextOf(Trust!GlobalSources \o files, root,
                             IF nested = <<>> THEN None ELSE Trust!Last(nested))
  <2>1. Trust!ResolveWithin(root) =
          CASE \E d \in Trust!ToSet(Trust!From(root)) : world.metadata[d] \in {"irregular", "unsafe"} ->
                 Trust!Refused("config_discovery_failed")
            [] Trust!GlobalSources \o files = <<>> -> Trust!Refused("config_not_found")
            [] OTHER -> Trust!ContextOf(Trust!GlobalSources \o files, root,
                             IF nested = <<>> THEN None ELSE Trust!Last(nested))
    BY <1>2, <1>5 DEF Trust!ResolveWithin, Trust!Walk
  <2>2. /\ Trust!Refused("config_discovery_failed").error = "config_discovery_failed"
        /\ Trust!Refused("config_not_found").error = "config_not_found"
    BY DEF Trust!Refused, Trust!ContextOf
  <2> QED BY <1>6, <2>1, <2>2 DEF Trust!TrustAssumption
<1>8. /\ resolved.configs = Trust!GlobalSources \o files /\ resolved.boundary = root
      /\ resolved.discovered = TRUE
      /\ resolved.directory = IF nested = <<>> THEN None ELSE Trust!Last(nested)
  BY <1>7 DEF Trust!ContextOf
<1>9. Len(nested) \in Nat /\ Len(Cwd) \in Nat /\ r \in Nat BY <1>3, Ancestors
<1>10. PICK A : \A n \in 1..Len(nested) : files[n] \in A
  <2>1. \A n \in 1..Len(nested) : files[n] \in {Trust!Metadata(d) : d \in Trust!Dirs}
    BY <1>3, <1>5
  <2> QED BY <2>1
<1>11. files \in Seq(A) /\ Len(files) = Len(nested) BY <1>5, <1>9, <1>10
<1>12. Trust!Workspace(resolved) = files BY <1>8, <1>11, GlobalFirst
<1>13. \A i \in 1..Len(nested) :
         /\ depth[i] \in 0..Len(Cwd) /\ r <= depth[i] /\ nested[i] = Ancestor(depth[i])
         /\ files[i] = Trust!Metadata(Ancestor(depth[i]))
  BY <1>4, <1>5, <1>9
<1>14. \A i \in 1..Len(nested) :
         /\ Trust!Trusted(files[i], list) /\ files[i] # Trust!Global
         /\ Len(files[i]) = depth[i] + 1
         /\ Trust!pathContains(root, nested[i]) /\ Trust!pathContains(nested[i], Cwd)
  <2> SUFFICES ASSUME NEW i \in 1..Len(nested)
               PROVE  /\ Trust!Trusted(files[i], list) /\ files[i] # Trust!Global
                      /\ Len(files[i]) = depth[i] + 1
                      /\ Trust!pathContains(root, nested[i])
                      /\ Trust!pathContains(nested[i], Cwd)
    OBVIOUS
  <2>1. /\ depth[i] \in 0..Len(Cwd) /\ r <= depth[i] /\ nested[i] = Ancestor(depth[i])
        /\ files[i] = Trust!Metadata(Ancestor(depth[i]))
    BY <1>13
  <2>2. Trust!pathContains(root, nested[i]) /\ Trust!pathContains(nested[i], Cwd)
    BY <1>1, <2>1, Above
  <2>3. /\ Trust!Front(files[i]) = nested[i] /\ files[i] # Trust!Global
        /\ Len(files[i]) = depth[i] + 1
    BY <2>1, FileIn
  <2> QED BY <2>2, <2>3 DEF Trust!Trusted
<1>15. \A f \in Trust!ToSet(files) : Trust!Trusted(f, list) /\ f # Trust!Global
  BY <1>11, <1>14 DEF Trust!ToSet
<1>16. \A i, j \in 1..Len(files) : i < j => Len(files[i]) < Len(files[j])
  <2> SUFFICES ASSUME NEW i \in 1..Len(files), NEW j \in 1..Len(files), i < j
               PROVE  Len(files[i]) < Len(files[j])
    OBVIOUS
  <2>1. i \in 1..Len(nested) /\ j \in 1..Len(nested) BY <1>11
  <2>2. depth[i] < depth[j] BY <1>4, <2>1
  <2> QED BY <1>13, <1>14, <2>1, <2>2
<1>17. Trust!BroadToNear(resolved) BY <1>8, <1>12, <1>15, <1>16 DEF Trust!BroadToNear
<1>18. \A d \in Trust!Dirs :
         Trust!pathContains(root, d) /\ world.metadata[d] = "config" =>
           Trust!Metadata(d) \in Trust!ToSet(files)
  <2> SUFFICES ASSUME NEW d \in Trust!Dirs, Trust!pathContains(root, d),
                      world.metadata[d] = "config"
               PROVE  Trust!Metadata(d) \in Trust!ToSet(files)
    OBVIOUS
  <2>1. PICK n \in 0..Len(Cwd) : d = Ancestor(n) BY Ancestors
  <2>2. n \in r..Len(Cwd) BY <1>1, <1>9, <2>1, Above
  <2>3. PICK i \in 1..Len(nested) : nested[i] = d BY <1>3, <2>1, <2>2
  <2> QED BY <1>5, <1>11, <2>3 DEF Trust!ToSet
<1>19. Trust!validateDaemonDiscoveryContext(resolved)
  <2>1. Trust!pathContains(root, Cwd) BY <1>1, Above
  <2>2. CASE nested = <<>>
    BY <1>8, <2>1, <2>2 DEF Trust!validateDaemonDiscoveryContext
  <2>3. CASE nested # <<>>
    <3>1. Len(nested) \in 1..Len(nested) BY <1>3, <1>9, <2>3
    <3>2. resolved.directory = nested[Len(nested)] BY <1>8, <2>3 DEF Trust!Last
    <3>3. Trust!pathContains(root, resolved.directory) /\ Trust!pathContains(resolved.directory, Cwd)
      BY <1>14, <3>1, <3>2
    <3>4. files[Len(nested)] = Trust!Metadata(resolved.directory) BY <1>5, <3>1, <3>2
    <3>5. files[Len(nested)] \in Trust!ToSet(resolved.configs)
      <4> DEFINE B == A \cup {Trust!Global}
      <4>1. PICK g : g = Trust!GlobalSources OBVIOUS
      <4>2. g \in Seq(B) /\ files \in Seq(B)
        <5>1. A \subseteq B /\ Trust!Global \in B OBVIOUS
        <5> HIDE DEF B
        <5>2. <<>> \in Seq(B) /\ <<Trust!Global>> \in Seq(B) BY <5>1
        <5> QED BY <1>11, <4>1, <5>1, <5>2 DEF Trust!GlobalSources
      <4>3. PICK all : all = g \o files OBVIOUS
      <4>4. /\ Len(g) \in Nat /\ Len(all) = Len(g) + Len(files) /\ all \in Seq(B)
            /\ all[Len(g) + Len(nested)] = files[Len(nested)]
        <5> HIDE DEF B
        <5>1. /\ Len(g) \in Nat /\ Len(all) = Len(g) + Len(files) /\ all \in Seq(B)
              /\ \A i \in 1..Len(files) : all[Len(g) + i] = files[i]
          BY <4>2, <4>3
        <5> QED BY <1>11, <3>1, <5>1
      <4>5. Len(g) + Len(nested) \in DOMAIN all BY <1>9, <1>11, <3>1, <4>4
      <4> QED BY <1>8, <4>1, <4>3, <4>4, <4>5 DEF Trust!ToSet
    <3> QED BY <1>8, <2>1, <3>3, <3>4, <3>5 DEF Trust!validateDaemonDiscoveryContext
  <2> QED BY <2>2, <2>3
<1> QED BY <1>6, <1>7, <1>8, <1>12, <1>15, <1>17, <1>18, <1>19 DEF Discovered

LEMMA Untrusted ==
  ASSUME NEW list, Trust!TrustAssumption, Trust!ResolveUntrusted.error = None
  PROVE  Discovered(Trust!ResolveUntrusted, list)
<1>1. PICK resolved : resolved = Trust!ResolveUntrusted OBVIOUS
<1>2. resolved = Trust!ContextOf(Trust!GlobalSources, None, None) /\ world.global
  <2>1. \/ \E code \in {"config_discovery_failed", "workspace_untrusted", "config_not_found"} :
             resolved = Trust!Refused(code)
        \/ resolved = Trust!ContextOf(Trust!GlobalSources, None, None) /\ world.global
    <3>1. PICK met : met = Trust!Bearing({"config", "irregular", "unsafe"}) OBVIOUS
    <3>2. resolved = CASE met # None -> Trust!Refused(IF world.metadata[met] = "unsafe"
                                THEN "config_discovery_failed" ELSE "workspace_untrusted")
                [] met = None /\ ~world.global -> Trust!Refused("config_not_found")
                [] OTHER -> Trust!ContextOf(Trust!GlobalSources, None, None)
      BY <1>1, <3>1 DEF Trust!ResolveUntrusted
    <3>3. CASE met # None
      <4>1. resolved = Trust!Refused(IF world.metadata[met] = "unsafe"
                              THEN "config_discovery_failed" ELSE "workspace_untrusted")
        BY <3>2, <3>3
      <4> QED BY <4>1
    <3>4. CASE met = None /\ ~world.global BY <3>2, <3>4
    <3>5. CASE met = None /\ world.global BY <3>2, <3>5
    <3> QED BY <3>3, <3>4, <3>5
  <2>2. \A code : Trust!Refused(code).error = code BY DEF Trust!Refused, Trust!ContextOf
  <2> QED BY <1>1, <2>1, <2>2 DEF Trust!TrustAssumption
<1>3. /\ resolved.configs = <<Trust!Global>> /\ resolved.boundary = None /\ resolved.directory = None
      /\ resolved.discovered = TRUE /\ Trust!GlobalSources = <<Trust!Global>>
  BY <1>2 DEF Trust!ContextOf, Trust!GlobalSources
<1>4. Trust!Workspace(resolved) = <<>>
  <2>1. Len(resolved.configs) = 1 /\ Len(Trust!GlobalSources) = 1 BY <1>3
  <2>2. SubSeq(<<Trust!Global>>, 2, 1) = <<>> OBVIOUS
  <2> QED BY <1>3, <2>1, <2>2 DEF Trust!Workspace
<1>5. Trust!BroadToNear(resolved)
  <2>1. <<Trust!Global>> \o <<>> = <<Trust!Global>> OBVIOUS
  <2> QED BY <1>3, <1>4, <2>1 DEF Trust!BroadToNear, Trust!ToSet
<1>6. Trust!validateDaemonDiscoveryContext(resolved)
  BY <1>3 DEF Trust!validateDaemonDiscoveryContext
<1> QED BY <1>1, <1>3, <1>4, <1>5, <1>6 DEF Discovered, Trust!ToSet

LEMMA Resolved ==
  ASSUME Trust!TrustAssumption, NEW list \in SUBSET Trust!Dirs,
         Trust!Resolve(list).error = None
  PROVE  Discovered(Trust!Resolve(list), list)
<1>1. PICK root : root = Trust!nearestTrustedAncestor(Cwd, list) OBVIOUS
<1>2. Trust!Resolve(list) =
        IF root = None THEN Trust!ResolveUntrusted ELSE Trust!ResolveWithin(root)
  BY <1>1 DEF Trust!Resolve
<1>3. CASE root = None BY <1>2, <1>3, Untrusted
<1>4. CASE root # None
  <2>1. root \in list BY <1>1, <1>4, DeepestTrusted
  <2> QED BY <1>2, <1>4, <2>1, WithinTrusted
<1> QED BY <1>3, <1>4

(* The stores that the second reading of the list yields.                    *)
StoresTrusted(stores, list) ==
  \A f \in Trust!ToSet(stores) \ {Trust!Global} : Trust!Trusted(f, list)

LEMMA CandidatesTrusted ==
  ASSUME Trust!TrustAssumption, NEW list \in SUBSET Trust!Dirs
  PROVE  Trust!Candidates(list) = None \/ StoresTrusted(Trust!Candidates(list), list)
<1>1. PICK root : root = Trust!nearestTrustedAncestor(Cwd, list) OBVIOUS
<1>2. PICK dirs : dirs = Trust!From(root) OBVIOUS
<1>3. PICK files : files = [n \in 1..Len(dirs) |-> Trust!Metadata(dirs[n])] OBVIOUS
<1>4. PICK stores : stores = Trust!Reverse(files) \o <<Trust!Global>> OBVIOUS
<1>5. \/ Trust!Candidates(list) = None
      \/ Trust!Candidates(list) = <<Trust!Global>>
      \/ Trust!Candidates(list) = stores /\ root # None
  <2>1. Trust!Candidates(list) =
          CASE root = None -> <<Trust!Global>>
            [] root # None /\ (\E d \in Trust!ToSet(dirs) : world.metadata[d] = "unsafe") -> None
            [] OTHER -> stores
    BY <1>1, <1>2, <1>3, <1>4 DEF Trust!Candidates
  <2> QED BY <2>1
<1>6. StoresTrusted(<<Trust!Global>>, list) BY DEF StoresTrusted, Trust!ToSet
<1>7. ASSUME root # None PROVE StoresTrusted(stores, list)
  <2>1. root \in list BY <1>1, <1>7, DeepestTrusted
  <2>2. PICK r \in 0..Len(Cwd) : root = Ancestor(r) BY <2>1, Ancestors
  <2>3. /\ Len(dirs) = Len(Cwd) - r + 1 /\ Len(dirs) \in Nat
        /\ \A i \in 1..Len(dirs) : r + i - 1 \in 0..Len(Cwd) /\ r <= r + i - 1
                                   /\ dirs[i] = Ancestor(r + i - 1)
    <3>1. Len(Cwd) \in Nat /\ r \in Nat BY Ancestors
    <3>2. /\ Len(dirs) = Len(Cwd) - r + 1
          /\ \A i \in 1..(Len(Cwd) - r + 1) :
               r + i - 1 \in r..Len(Cwd) /\ dirs[i] = Ancestor(r + i - 1)
      BY <1>2, <2>2, WayDown
    <3> QED BY <3>1, <3>2
  <2>4. \A i \in 1..Len(dirs) : Trust!Trusted(files[i], list)
    <3> SUFFICES ASSUME NEW i \in 1..Len(dirs) PROVE Trust!Trusted(files[i], list)
      OBVIOUS
    <3>1. PICK n \in 0..Len(Cwd) : n = r + i - 1 /\ r <= n /\ dirs[i] = Ancestor(n) BY <2>3
    <3>2. files[i] = Trust!Metadata(Ancestor(n)) BY <1>3, <3>1
    <3>3. Trust!Front(files[i]) = Ancestor(n) BY <3>2, FileIn
    <3>4. Trust!pathContains(root, Ancestor(n)) /\ Trust!pathContains(Ancestor(n), Cwd)
      BY <2>2, <3>1, Above
    <3> QED BY <2>1, <3>3, <3>4 DEF Trust!Trusted
  <2>5. PICK A : A = {files[i] : i \in 1..Len(dirs)} \cup {Trust!Global} OBVIOUS
  <2>6. files \in Seq(A) /\ Len(files) = Len(dirs) BY <1>3, <2>3, <2>5
  <2>7. PICK back : back = Trust!Reverse(files) OBVIOUS
  <2>8. /\ Len(back) = Len(files) /\ back \in Seq(A)
        /\ \A i \in 1..Len(back) : \E j \in 1..Len(dirs) : back[i] = files[j]
    <3>1. back = [i \in 1..Len(files) |-> files[(Len(files) - i) + 1]]
      BY <2>7 DEF Trust!Reverse
    <3>2. \A i \in 1..Len(files) : (Len(files) - i) + 1 \in 1..Len(dirs) BY <2>3, <2>6
    <3>3. \A i \in 1..Len(files) : back[i] \in A BY <2>5, <3>1, <3>2
    <3> QED BY <2>3, <2>6, <3>1, <3>2, <3>3
  <2>9. stores \in Seq(A) /\ \A i \in 1..Len(stores) :
          stores[i] = Trust!Global \/ \E j \in 1..Len(dirs) : stores[i] = files[j]
    <3>1. stores = back \o <<Trust!Global>> BY <1>4, <2>7
    <3>2. Trust!Global \in A BY <2>5
    <3>3. stores \in Seq(A) /\ Len(stores) = Len(back) + 1 BY <2>8, <3>1, <3>2
    <3>4. \A i \in 1..Len(back) : stores[i] = back[i] BY <2>8, <3>1, <3>2
    <3>5. stores[Len(back) + 1] = Trust!Global BY <2>8, <3>1, <3>2
    <3>6. \A i \in 1..Len(stores) : i \in 1..Len(back) \/ i = Len(back) + 1
      BY <2>3, <2>6, <2>8, <3>3
    <3> QED BY <2>8, <3>3, <3>4, <3>5, <3>6
  <2> QED BY <2>4, <2>9 DEF StoresTrusted, Trust!ToSet
<1> QED BY <1>5, <1>6, <1>7

-----------------------------------------------------------------------------
(* The invocation, wherever the list goes meanwhile.                         *)
Asking == stage \notin {"start", "failed"}
Automatic == world.given = <<>>

SourcesInv ==
  /\ stage \in {"start", "context", "stores", "sent", "failed", "served"}
  /\ stage \in {"start", "context", "stores"} => request = None
  /\ Asking => /\ Automatic => Discovered(context, seen)
               /\ ~Automatic => context = Trust!Given(world.given)
  /\ stage \in {"sent", "served"} =>
       Trust!Accepted /\ (Automatic => StoresTrusted(request.stores, listed))

LEMMA SourcesInit == ASSUME Trust!Init PROVE SourcesInv
  BY DEF Trust!Init, SourcesInv, Asking

LEMMA SourcesResolve ==
  ASSUME Trust!TrustAssumption, SourcesInv, trust \in TrustLists,
         Trust!ResolveConfigContext
  PROVE  SourcesInv'
<1>1. /\ stage = "start" /\ seen' = trust /\ UNCHANGED <<world, listed, request>>
      /\ stage' = IF context'.error = None THEN "context" ELSE "failed"
  BY DEF Trust!ResolveConfigContext
<1>2. request' = None BY <1>1 DEF SourcesInv
<1>3. CASE ~Automatic
  <2>1. context' = Trust!Given(world.given)
    BY <1>3 DEF Trust!ResolveConfigContext, Automatic
  <2>2. Trust!Given(world.given)' = Trust!Given(world.given)
    BY <1>1 DEF Trust!Given, Trust!ContextOf
  <2> QED BY <1>1, <1>2, <1>3, <2>1, <2>2 DEF SourcesInv, Asking, Automatic
<1>4. CASE Automatic /\ trust = Torn
  <2>1. context' = Trust!Refused("config_discovery_failed")
    BY <1>4 DEF Trust!ResolveConfigContext, Automatic
  <2>2. context'.error = "config_discovery_failed"
    BY <2>1 DEF Trust!Refused, Trust!ContextOf
  <2>3. stage' = "failed" BY <1>1, <2>2 DEF Trust!TrustAssumption
  <2> QED BY <2>3 DEF SourcesInv, Asking
<1>5. CASE Automatic /\ trust # Torn
  <2>1. context' = Trust!Resolve(trust)
    BY <1>5 DEF Trust!ResolveConfigContext, Automatic
  <2>2. trust \in SUBSET Trust!Dirs BY <1>5 DEF TrustLists
  <2>3. CASE context'.error # None BY <1>1, <2>3 DEF SourcesInv, Asking
  <2>4. CASE context'.error = None
    <3>1. Discovered(context', trust) BY <2>1, <2>2, <2>4, Resolved
    <3>2. Discovered(context, seen)'
      BY <1>1, <3>1 DEF Discovered, Trust!Workspace, Trust!BroadToNear, Trust!GlobalSources,
                        Trust!validateDaemonDiscoveryContext
    <3> QED BY <1>1, <1>2, <1>5, <2>4, <3>2 DEF SourcesInv, Asking, Automatic
  <2> QED BY <2>3, <2>4
<1> QED BY <1>3, <1>4, <1>5

(* Nothing an accepted request rests on changes any more.                    *)
LEMMA SourcesKept ==
  ASSUME SourcesInv, UNCHANGED <<world, context, seen, listed, request>>,
         stage' \in {"failed", stage} \/ (stage = "context" /\ stage' = "stores")
           \/ (stage = "sent" /\ stage' = "served")
  PROVE  SourcesInv'
<1>1. Discovered(context, seen)' = Discovered(context, seen)
  BY DEF Discovered, Trust!Workspace, Trust!BroadToNear, Trust!GlobalSources,
         Trust!validateDaemonDiscoveryContext
<1>2. Trust!Given(world.given)' = Trust!Given(world.given)
  BY DEF Trust!Given, Trust!ContextOf
<1>3. Trust!Accepted' = Trust!Accepted
  BY DEF Trust!Accepted, Trust!validateDaemonDiscoveryContext, Trust!ExpectedProjectRoot,
         Trust!DeclaredRoot, Trust!Scoped
<1>4. StoresTrusted(request.stores, listed)' = StoresTrusted(request.stores, listed)
  BY DEF StoresTrusted
<1> QED BY <1>1, <1>2, <1>3, <1>4 DEF SourcesInv, Asking, Automatic

LEMMA SourcesSend ==
  ASSUME Trust!TrustAssumption, SourcesInv, trust \in TrustLists, Trust!Send
  PROVE  SourcesInv'
<1>1. /\ stage = "stores" /\ listed' = trust /\ UNCHANGED <<world, context, seen>>
  BY DEF Trust!Send
<1>2. Asking BY <1>1 DEF Asking
<1>3. /\ Discovered(context, seen)' = Discovered(context, seen)
      /\ Trust!Given(world.given)' = Trust!Given(world.given)
  BY <1>1 DEF Discovered, Trust!Workspace, Trust!BroadToNear, Trust!GlobalSources,
              Trust!validateDaemonDiscoveryContext, Trust!Given, Trust!ContextOf
<1>4. CASE Trust!Stores(trust) = None
  <2>1. stage' = "failed" BY <1>4 DEF Trust!Send
  <2> QED BY <2>1 DEF SourcesInv, Asking
<1>5. CASE Trust!Stores(trust) # None
  <2>1. PICK stores : stores = Trust!Stores(trust) OBVIOUS
  <2>2. /\ stage' = "sent"
        /\ request' = [projectRoot |-> Trust!ProjectRoot(context),
             provider |-> Trust!Scoped(world.scope, Trust!ProjectRoot(context), world.local),
             stores |-> stores]
    BY <1>5, <2>1 DEF Trust!Send
  <2>3. stores = CASE ~world.age -> <<>>
          [] world.age /\ world.scope = "global" -> <<Trust!Global>>
          [] world.age /\ world.scope # "global" /\ ~context.discovered ->
               Trust!Reverse(context.configs) \o <<Trust!Global>>
          [] OTHER -> IF trust = Torn THEN None ELSE Trust!Candidates(trust)
    BY <2>1 DEF Trust!Stores
  <2>4. world.scope = "global" => stores = IF world.age THEN <<Trust!Global>> ELSE <<>>
    BY <2>3
  <2>5. Automatic => StoresTrusted(stores, trust)
    <3> SUFFICES ASSUME Automatic PROVE StoresTrusted(stores, trust) OBVIOUS
    <3>1. context.discovered = TRUE BY <1>2 DEF SourcesInv, Discovered
    <3>2. \/ stores \in {<<>>, <<Trust!Global>>}
          \/ trust # Torn /\ stores = Trust!Candidates(trust)
      BY <1>5, <2>1, <2>3, <3>1
    <3>3. CASE stores \in {<<>>, <<Trust!Global>>}
      BY <3>3 DEF StoresTrusted, Trust!ToSet
    <3>4. CASE trust # Torn /\ stores = Trust!Candidates(trust)
      <4>1. trust \in SUBSET Trust!Dirs BY <3>4 DEF TrustLists
      <4> QED BY <1>5, <2>1, <3>4, <4>1, CandidatesTrusted
    <3> QED BY <3>2, <3>3, <3>4
  <2>6. context.configs # <<>> /\ Trust!validateDaemonDiscoveryContext(context)
    <3>1. CASE Automatic BY <1>2, <3>1 DEF SourcesInv, Discovered
    <3>2. CASE ~Automatic
      <4>1. context = Trust!Given(world.given) BY <1>2, <3>2 DEF SourcesInv
      <4>2. /\ context.configs = world.given /\ context.discovered = FALSE
            /\ context.boundary = None /\ context.directory = None
        BY <4>1 DEF Trust!Given, Trust!ContextOf
      <4> QED BY <3>2, <4>2 DEF Automatic, Trust!validateDaemonDiscoveryContext
    <3> QED BY <3>1, <3>2
  <2>7. /\ request'.provider =
             Trust!Scoped(world.scope, Trust!ProjectRoot(context), world.local)
        /\ request'.projectRoot = Trust!ProjectRoot(context) /\ request'.stores = stores
    BY <2>2
  <2>8. Trust!ProjectRoot(context) =
          IF Trust!DeclaredRoot(context) # None THEN Trust!DeclaredRoot(context)
          ELSE request'.projectRoot
    <3>1. Trust!DeclaredRoot(context) # None =>
            Trust!ProjectRoot(context) = Trust!DeclaredRoot(context)
      BY DEF Trust!ProjectRoot
    <3> QED BY <2>7, <3>1
  <2>9. Trust!DeclaredRoot(context)' = Trust!DeclaredRoot(context)
    BY <1>1 DEF Trust!DeclaredRoot
  <2>10. Trust!validateDaemonDiscoveryContext(context)'
    BY <1>1, <2>6 DEF Trust!validateDaemonDiscoveryContext
  <2>11. Trust!ExpectedProjectRoot(context)' = Trust!ProjectRoot(context)
    BY <2>8, <2>9 DEF Trust!ExpectedProjectRoot
  <2>12. Trust!Accepted'
    BY <1>1, <2>4, <2>6, <2>7, <2>10, <2>11 DEF Trust!Accepted, Trust!Scoped
  <2>13. (Automatic => StoresTrusted(request.stores, listed))'
    BY <1>1, <2>5, <2>7 DEF Automatic, StoresTrusted
  <2> QED BY <1>1, <1>2, <1>3, <2>2, <2>12, <2>13 DEF SourcesInv, Asking, Automatic
<1> QED BY <1>4, <1>5

LEMMA SourcesStep ==
  ASSUME Trust!TrustAssumption, trust \in TrustLists, SourcesInv, [Trust!Next]_(Trust!vars)
  PROVE  SourcesInv'
<1>1. CASE Trust!ResolveConfigContext BY <1>1, SourcesResolve
<1>2. CASE Trust!ResolveInvocationContext
  BY <1>2, SourcesKept DEF Trust!ResolveInvocationContext
<1>3. CASE Trust!Send BY <1>3, SourcesSend
<1>4. CASE Trust!Execute
  <2>1. stage = "sent" /\ UNCHANGED <<world, seen, context, listed, request>>
    BY <1>4 DEF Trust!Execute
  <2>2. Trust!Accepted BY <2>1 DEF SourcesInv
  <2>3. stage' = "served" BY <1>4, <2>2 DEF Trust!Execute
  <2> QED BY <2>1, <2>3, SourcesKept
<1>5. CASE (\E me \in Admins : Trust!Update(me)) \/ UNCHANGED Trust!vars
  <2>1. UNCHANGED <<world, stage, seen, context, listed, request>>
    BY <1>5 DEF Trust!Update, Trust!Begin, Trust!Lock, Trust!ReadState, Trust!WriteTemp,
                Trust!WriteFails, Trust!Rename, Trust!Unlock, Trust!Report, Trust!Abort,
                Trust!vars, Trust!callVars
  <2> QED BY <2>1, SourcesKept
<1> QED BY <1>1, <1>2, <1>3, <1>4, <1>5 DEF Trust!Next, Trust!Invoke

LEMMA SourcesEnough == ASSUME SourcesInv PROVE Trust!SourcesTrusted
<1>1. stage # "rejected" BY DEF SourcesInv
<1>2. ASSUME Automatic, Asking
      PROVE  /\ Discovered(context, seen)
             /\ request # None => StoresTrusted(request.stores, listed)
  BY <1>2 DEF SourcesInv, Asking
<1> QED BY <1>1, <1>2
        DEF Trust!SourcesTrusted, Automatic, Asking, Discovered, StoresTrusted

-----------------------------------------------------------------------------
(* OAuthCallback: the loopback server, for any number of flows and requests. *)
(* A request the handler looked up a flow for has that flow's number, one    *)
(* that has begun; what a flow has in its channels or returned only comes    *)
(* A request that was looked up for a flow has its number, and comes from    *)
(* its tab or an earlier one; a flow has only such requests in its channels. *)
Numbered == \A k \in Callbacks :
  callback[k].at \in {"looked", "complete", "denied", "invalid"} =>
    callback[k].channel \in 1..flows /\ callback[k].tab \in 1..callback[k].channel

TabsBegun ==
  /\ tabs \subseteq 1..flows
  /\ \A k \in Callbacks : callback[k].at = "come" => callback[k].tab \in 1..flows

Handled(requests, k, n) ==
  /\ k \in Callbacks /\ requests[k].channel = n /\ requests[k].tab \in 1..n
  /\ requests[k].at \notin {"unsent", "come"}

ChannelsOwn == \A n \in Callback!Flows :
  /\ result[n] # None => Handled(callback, result[n], n)
  /\ failure[n] # None => Handled(callback, failure[n], n)
  /\ returned[n] # None => Handled(callback, returned[n], n)

(* A browser is told that the authorization is complete as soon as its code  *)
(* is in the channel, at any time of the flow; the code stays there until    *)
(* the flow stops waiting for it.                                            *)
Open == flow \in {"locking", "registering", "serving", "waiting"}

Heard == \A k \in Callbacks :
  callback[k].at = "complete" /\ Open /\ callback[k].channel = flows => result[flows] # None

ActiveBegun == Callback!Active => flows \in Callback!Flows

CallbackRecords ==
  [at : {"unsent", "come", "looked", "complete", "denied", "invalid", "conflict"},
   tab : 0..MaxFlows, query : {"none", "code", "error", "neither"}, channel : 0..MaxFlows]

CallbackInv ==
  Callback!TypeOK /\ Numbered /\ TabsBegun /\ ChannelsOwn /\ ActiveBegun /\ Heard

-----------------------------------------------------------------------------
LEMMA CallbackConstants == MaxFlows \in Nat /\ None \notin Callbacks
  BY ConstantsAssumption DEF Callback!CallbackAssumption

LEMMA CallbackInit == ASSUME Callback!Init PROVE CallbackInv
<1> USE CallbackConstants DEF Callback!Init, Callback!Unsent, CallbackRecords
<1>1. Callback!TypeOK
  <2>1. Callback!Unsent \in CallbackRecords OBVIOUS
  <2>2. callback \in [Callbacks -> CallbackRecords] BY <2>1 DEF Callback!Init
  <2>3. flows \in 0..MaxFlows /\ tabs \subseteq Callback!Flows OBVIOUS
  <2> QED BY <2>2, <2>3 DEF Callback!TypeOK
<1>2. Numbered /\ TabsBegun /\ ChannelsOwn /\ Heard
  BY DEF Numbered, TabsBegun, ChannelsOwn, Heard
<1>3. ActiveBegun BY DEF ActiveBegun, Callback!Active
<1> QED BY <1>1, <1>2, <1>3 DEF CallbackInv

(* The flow goes on; nothing is in its channels yet when it begins.          *)
LEMMA CallbackBegin == ASSUME CallbackInv, Callback!Begin PROVE CallbackInv'
<1> USE CallbackConstants DEF CallbackInv, Callback!Begin, Callback!channelVars
<1>1. Callback!TypeOK'
  <2>1. flows' \in 0..MaxFlows BY DEF Callback!TypeOK
  <2>2. /\ flow' = "locking"
        /\ UNCHANGED <<returned, result, failure, server, tabs, callback>>
    OBVIOUS
  <2> HIDE DEF Callback!Begin
  <2> QED BY <2>1, <2>2 DEF Callback!TypeOK, Callback!Flows
<1>2. Numbered' /\ TabsBegun' BY DEF Callback!TypeOK, Numbered, TabsBegun
<1>3. ChannelsOwn' BY DEF ChannelsOwn, Handled
<1>4. ActiveBegun' BY DEF Callback!TypeOK, ActiveBegun, Callback!Flows
<1>5. Heard' BY DEF Callback!TypeOK, Numbered, Heard
<1> QED BY <1>1, <1>2, <1>3, <1>4, <1>5

LEMMA CallbackFlow ==
  ASSUME CallbackInv,
         \/ Callback!Lock \/ Callback!Register \/ Callback!Refuse \/ Callback!Serve
         \/ Callback!Interrupt \/ Callback!Leave \/ Callback!Close
  PROVE  CallbackInv'
<1> USE CallbackConstants DEF CallbackInv
<1>1. /\ UNCHANGED <<flows, returned, result, failure, callback>>
      /\ flow' \in {flow, "none", "registering", "serving", "waiting", "leaving"}
      /\ Callback!Active' => Callback!Active
      /\ Open' => Open
      /\ server' \in {server, "serving", "closed"} /\ tabs' \subseteq tabs \cup {flows}
      /\ tabs' # tabs => Callback!Active
  BY DEF Callback!Lock, Callback!Register, Callback!Refuse, Callback!Serve,
         Callback!Interrupt, Callback!Leave, Callback!Close,
         Callback!Goto, Callback!flowVars, Callback!channelVars,
         Callback!Active, Open, Callback!TypeOK
<1>2. Callback!TypeOK' BY <1>1 DEF Callback!TypeOK, ActiveBegun
<1>3. Numbered' /\ ChannelsOwn' BY <1>1 DEF Numbered, ChannelsOwn, Handled
<1>4. TabsBegun' BY <1>1 DEF TabsBegun, ActiveBegun, Callback!Flows
<1>5. ActiveBegun' /\ Heard' BY <1>1 DEF ActiveBegun, Heard
<1> QED BY <1>2, <1>3, <1>4, <1>5

(* What the flow takes from its channel came with its number.                *)
LEMMA CallbackTake ==
  ASSUME CallbackInv,
      Callback!TakeResult \/ Callback!TakeFailure
  PROVE  CallbackInv'
<1> USE CallbackConstants DEF CallbackInv
<1>1. PICK k \in Callbacks :
        /\ Handled(callback, k, flows) /\ flow = "waiting" /\ flow' = "leaving"
        /\ returned' = [returned EXCEPT ![flows] = k]
        /\ UNCHANGED <<flows, server, tabs, callback>>
  <2>1. flows \in Callback!Flows BY DEF ActiveBegun, Callback!Active,
      Callback!TakeResult, Callback!TakeFailure, Callback!Take, Callback!Goto
  <2>2. CASE Callback!TakeResult
    BY <2>1, <2>2 DEF Callback!TakeResult, Callback!Take, Callback!Goto,
        Callback!ChannelOf, ChannelsOwn, Handled
  <2>3. CASE Callback!TakeFailure
    BY <2>1, <2>3 DEF Callback!TakeFailure, Callback!Take, Callback!Goto,
        Callback!ChannelOf, ChannelsOwn, Handled
  <2> QED BY <2>2, <2>3
<1>2. flows \in Callback!Flows BY <1>1 DEF ActiveBegun, Callback!Active
<1>3. /\ result' \in [Callback!Flows -> Callbacks \cup {None}]
      /\ failure' \in [Callback!Flows -> Callbacks \cup {None}]
      /\ \A n \in Callback!Flows : result'[n] \in {result[n],
          None} /\ failure'[n] \in {failure[n], None}
  BY <1>2 DEF Callback!TakeResult, Callback!TakeFailure, Callback!ChannelOf, Callback!TypeOK
<1>4. Callback!TypeOK' BY <1>1, <1>3 DEF Callback!TypeOK
<1>5. Numbered' /\ TabsBegun' BY <1>1 DEF Numbered, TabsBegun
<1>6. ChannelsOwn'
  <2>1. \A n \in Callback!Flows : returned'[n] = IF n = flows THEN k ELSE returned[n]
    BY <1>1, <1>2 DEF Callback!TypeOK
  <2>2. \A d, n : Handled(callback, d, n) => Handled(callback', d, n) BY <1>1 DEF Handled
  <2> QED BY <1>1, <1>3, <2>1, <2>2 DEF ChannelsOwn
<1>7. ActiveBegun' /\ Heard' BY <1>1, <1>2 DEF ActiveBegun, Heard, Open
<1> QED BY <1>4, <1>5, <1>6, <1>7

(* A request moves on in its record alone.                                   *)
LEMMA CallbackArrive ==
  ASSUME CallbackInv, NEW k \in Callbacks, Callback!Arrive(k)
  PROVE  CallbackInv'
<1> USE CallbackConstants DEF CallbackInv, Callback!Arrive, Callback!flowVars,
    Callback!channelVars
<1>1. PICK tab \in tabs, query \in {"code", "error", "neither"} :
        callback' = [callback EXCEPT ![k] =
                       [at |-> "come", tab |-> tab, query |-> query, channel |-> 0]]
  OBVIOUS
<1>2. Callback!TypeOK' BY <1>1 DEF Callback!TypeOK, Callback!Flows
<1>3. /\ callback'[k].at = "come" /\ callback'[k].tab \in tabs
      /\ \A d \in Callbacks \ {k} : callback'[d] = callback[d]
  BY <1>1 DEF Callback!TypeOK
<1>4. Numbered' /\ TabsBegun' BY <1>3 DEF Numbered, TabsBegun
<1>5. ChannelsOwn'
  <2>1. \A d, n : Handled(callback, d, n) => Handled(callback', d, n) BY <1>3 DEF Handled
  <2> QED BY <2>1 DEF ChannelsOwn
<1>6. ActiveBegun' /\ Heard' BY <1>3 DEF ActiveBegun, Callback!Active, Heard, Open
<1> QED BY <1>2, <1>4, <1>5, <1>6

LEMMA CallbackLook ==
  ASSUME CallbackInv, NEW k \in Callbacks, Callback!Look(k)
  PROVE  CallbackInv'
<1> USE CallbackConstants DEF CallbackInv, Callback!Look, Callback!flowVars,
    Callback!channelVars
<1> DEFINE Looked(page, n) == [callback EXCEPT ![k].at = page, ![k].channel = n]
<1>1. Callback!TypeOK'
  <2>1. ASSUME NEW page \in {"looked", "conflict"}, NEW n \in 0..MaxFlows,
               callback' = Looked(page, n)
        PROVE  Callback!TypeOK'
    <3> DEFINE r == [callback[k] EXCEPT !.at = page, !.channel = n]
    <3>1. callback \in [Callbacks -> CallbackRecords] BY DEF Callback!TypeOK, CallbackRecords
    <3>2. r \in CallbackRecords BY <3>1 DEF CallbackRecords
    <3>3. callback' = [callback EXCEPT ![k] = r] BY <2>1, <3>1
    <3>4. callback' \in [Callbacks -> CallbackRecords] BY <3>1, <3>2, <3>3
    <3> QED BY <3>4 DEF Callback!TypeOK, CallbackRecords
  <2>2. CASE Callback!Active
    <3>1. callback' = Looked("looked", flows) BY <2>2
    <3>2. flows \in 0..MaxFlows BY DEF Callback!TypeOK
    <3> HIDE DEF Looked, Callback!Look
    <3> QED BY <3>1, <3>2, <2>1
  <2>3. CASE ~ Callback!Active
    <3>1. callback' = Looked("conflict", 0) BY <2>3
    <3>2. 0 \in 0..MaxFlows OBVIOUS
    <3> HIDE DEF Looked, Callback!Look
    <3> QED BY <3>1, <3>2, <2>1
  <2> QED BY <2>2, <2>3
<1>2. /\ callback[k].at = "come"
      /\ \/ /\ callback'[k].at = "looked" /\ callback'[k].channel = flows /\ flows \in 1..flows
            /\ callback'[k].tab = callback[k].tab
         \/ callback'[k].at = "conflict"
      /\ \A d \in Callbacks \ {k} : callback'[d] = callback[d]
  BY DEF Callback!TypeOK, ActiveBegun, Callback!Flows
<1>3. Numbered' /\ TabsBegun' BY <1>2 DEF Numbered, TabsBegun
<1>4. ChannelsOwn'
  <2>1. \A d, n : Handled(callback, d, n) => Handled(callback', d, n) BY <1>2 DEF Handled
  <2> QED BY <2>1 DEF ChannelsOwn
<1>5. ActiveBegun' /\ Heard' BY <1>2 DEF ActiveBegun, Callback!Active, Heard, Open
<1> QED BY <1>1, <1>3, <1>4, <1>5

(* The answer goes into the channel of the flow that was looked up.          *)
LEMMA CallbackAnswer ==
  ASSUME CallbackInv, NEW k \in Callbacks, Callback!Answer(k)
  PROVE  CallbackInv'
<1> DEFINE m == callback[k].channel
<1> USE CallbackConstants DEF CallbackInv
<1>1. m \in 1..flows /\ m \in Callback!Flows
  BY DEF Callback!Answer, Numbered, Callback!TypeOK, Callback!Flows
<1>2. PICK page \in {"denied", "invalid", "complete", "conflict"} :
        /\ callback' = [callback EXCEPT ![k].at = page]
        /\ page = "complete" => result'[m] # None
  BY <1>1 DEF Callback!Answer, Callback!Shows, Callback!ChannelOf, Callback!TypeOK
<1>3. /\ UNCHANGED <<flow, flows, returned, server, tabs>>
      /\ result' \in [Callback!Flows -> Callbacks \cup {None}]
      /\ failure' \in [Callback!Flows -> Callbacks \cup {None}]
      /\ \A n \in Callback!Flows :
           /\ result'[n] = result[n] \/ (n = m /\ result'[n] = k)
           /\ failure'[n] = failure[n] \/ (n = m /\ failure'[n] = k)
           /\ result[n] # None => result'[n] = result[n]
  BY <1>1 DEF Callback!Answer, Callback!ChannelOf, Callback!TypeOK, Callback!flowVars,
      Callback!channelVars
<1>4. /\ callback[k].at = "looked" /\ callback'[k].at = page /\ callback'[k].channel = m
      /\ callback'[k].tab = callback[k].tab
      /\ \A d \in Callbacks \ {k} : callback'[d] = callback[d]
      /\ Callback!TypeOK'
  BY <1>2, <1>3 DEF Callback!Answer, Callback!TypeOK
<1>5. Numbered' /\ TabsBegun' BY <1>1, <1>3, <1>4 DEF Numbered, TabsBegun
<1>6. ChannelsOwn'
  <2>1. \A d, n : Handled(callback, d, n) => Handled(callback', d, n) BY <1>4 DEF Handled
  <2>2. Handled(callback', k, m) BY <1>4 DEF Handled, Numbered
  <2> QED BY <1>3, <2>1, <2>2 DEF ChannelsOwn
<1>7. ActiveBegun' BY <1>3 DEF ActiveBegun, Callback!Active
<1>8. Heard'
  <2> SUFFICES ASSUME NEW d \in Callbacks, callback'[d].at = "complete", Open,
                      callback'[d].channel = flows
               PROVE  result'[flows] # None
    BY <1>3 DEF Heard, Open
  <2>1. CASE d = k BY <2>1, <1>2, <1>4
  <2>2. CASE d # k
    <3>1. result[flows] # None /\ flows \in Callback!Flows
      BY <2>2, <1>4 DEF Heard, ActiveBegun, Callback!Active, Open
    <3> QED BY <3>1, <1>3
  <2> QED BY <2>1, <2>2
<1> QED BY <1>4, <1>5, <1>6, <1>7, <1>8

LEMMA CallbackStep ==
  ASSUME CallbackInv, [Callback!Next]_(Callback!vars)
  PROVE  CallbackInv'
<1>1. CASE Callback!Next
  BY <1>1, CallbackBegin, CallbackFlow, CallbackTake, CallbackArrive, CallbackLook,
      CallbackAnswer DEF Callback!Next
<1>2. CASE UNCHANGED Callback!vars
  BY <1>2 DEF Callback!vars, Callback!flowVars, Callback!channelVars, CallbackInv,
      Callback!TypeOK, Numbered, TabsBegun, ChannelsOwn, Handled, ActiveBegun, Callback!Active,
      Heard, Open
<1> QED BY <1>1, <1>2

-----------------------------------------------------------------------------
(* LspFanout: the leases of one language-server request, for any providers.  *)
(* During setup a provider is leased exactly if it is an instance, and those *)
(* of the scopes still to come are not; then where its worker is determines  *)
(* what it holds.                                                            *)
FanoutLists == {<<>>, <<"workspace">>, <<"global">>, <<"workspace", "global">>}

FanoutTyped ==
  /\ at_match \in {"match", "setup", "fan", "answered"}
  /\ scopes \in FanoutLists
  /\ leases \in [Fanout!All -> Int]
  /\ worker \in [Fanout!All -> {"idle", "acquire", "call", "done"}]
  /\ instances \subseteq Fanout!Matched
  /\ direct => instances = {}

LeasedInSetup == at_match \in {"match", "setup"} =>
  /\ \A m \in Fanout!All : /\ worker[m] = "idle"
                           /\ leases[m] = IF m \in instances THEN 1 ELSE 0
  /\ \A m \in instances : at_match = "setup" /\ ScopeOf[m] \notin Fanout!ToSet(scopes)

LeaseHeld(m) ==
  IF (worker[m] = "call" /\ ~direct) \/ (worker[m] = "acquire" /\ m \in instances)
  THEN 1 ELSE 0

LeasedByWorker ==
  /\ at_match = "fan" =>
       \A m \in Fanout!All : /\ leases[m] = LeaseHeld(m)
                             /\ m \in Fanout!Matched => worker[m] # "idle"
                             /\ m \notin Fanout!Matched => worker[m] = "idle"
  /\ at_match = "answered" =>
       \A m \in Fanout!All : worker[m] \in {"idle", "done"} /\ leases[m] = 0

FanoutInv == FanoutTyped /\ LeasedInSetup /\ LeasedByWorker

LEMMA FanoutTail ==
  ASSUME scopes \in FanoutLists, scopes # <<>>
  PROVE  /\ Tail(scopes) \in FanoutLists
         /\ scopes[1] \in Fanout!ToSet(scopes) /\ scopes[1] \notin Fanout!ToSet(Tail(scopes))
         /\ Fanout!ToSet(Tail(scopes)) \subseteq Fanout!ToSet(scopes)
<1>1. /\ Fanout!ToSet(<<>>) = {} /\ Fanout!ToSet(<<"global">>) = {"global"}
      /\ Fanout!ToSet(<<"workspace">>) = {"workspace"}
      /\ Fanout!ToSet(<<"workspace", "global">>) = {"workspace", "global"}
  BY DEF Fanout!ToSet
<1>2. CASE scopes = <<"workspace">>
  <2>1. scopes[1] = "workspace" /\ Tail(scopes) = <<>> BY <1>2
  <2> QED BY <1>1, <1>2, <2>1 DEF FanoutLists
<1>3. CASE scopes = <<"global">>
  <2>1. scopes[1] = "global" /\ Tail(scopes) = <<>> BY <1>3
  <2> QED BY <1>1, <1>3, <2>1 DEF FanoutLists
<1>4. CASE scopes = <<"workspace", "global">>
  <2>1. scopes[1] = "workspace" /\ Tail(scopes) = <<"global">> BY <1>4
  <2> QED BY <1>1, <1>4, <2>1 DEF FanoutLists
<1> QED BY <1>2, <1>3, <1>4 DEF FanoutLists

LEMMA FanoutInit == ASSUME Fanout!Init PROVE FanoutInv
  BY DEF Fanout!Init, FanoutInv, FanoutTyped, FanoutLists, LeasedInSetup, LeasedByWorker

LEMMA FanoutMatch ==
  ASSUME FanoutInv, Fanout!Match \/ Fanout!MatchRefused
  PROVE  FanoutInv'
<1> USE DEF FanoutInv
<1>1. /\ at_match = "match" /\ at_match' \in {"setup", "answered"}
      /\ UNCHANGED <<direct, chosen, instances, leases, worker>>
      /\ scopes' \in {scopes, Fanout!lspScopeOrder}
  BY DEF Fanout!Match, Fanout!MatchRefused, Fanout!Answer, Fanout!setupVars,
         Fanout!workVars
<1>2. Fanout!lspScopeOrder \in FanoutLists
  <2>1. /\ Append(<<>>, "global") = <<"global">>
        /\ Append(<<"workspace">>, "global") = <<"workspace", "global">>
    <3> DEFINE Names == {"workspace", "global"}
               one == <<"workspace">>
               two == <<"workspace", "global">>
    <3>1. one \in Seq(Names) /\ two \in Seq(Names) /\ Len(two) = 2 OBVIOUS
    <3>2. Append(one, "global") \in Seq(Names) /\ Len(Append(one, "global")) = 2
      BY <3>1
    <3>3. \A i \in 1..2 : Append(one, "global")[i] = two[i] BY <3>1
    <3>4. Append(one, "global") = two BY <3>1, <3>2, <3>3, SeqEqual
    <3> QED BY <3>4
  <2> QED BY <2>1 DEF Fanout!lspScopeOrder, FanoutLists
<1>3. Fanout!Matched' = Fanout!Matched /\ Fanout!All' = Fanout!All
  BY <1>1 DEF Fanout!Matched, Fanout!All
<1>4. instances = {} BY <1>1 DEF LeasedInSetup
<1> QED BY <1>1, <1>2, <1>3, <1>4 DEF FanoutTyped, LeasedInSetup, LeasedByWorker

(* The providers of a scope are leased once, when its turn comes.            *)
LEMMA FanoutScope ==
  ASSUME FanoutInv, Fanout!ScopeReused \/ Fanout!ScopeResolved
  PROVE  FanoutInv'
<1> USE DEF FanoutInv
<1>1. /\ at_match = "setup" /\ scopes # <<>> /\ scopes' = Tail(scopes)
      /\ UNCHANGED <<direct, chosen, at_match, worker>>
  BY DEF Fanout!ScopeReused, Fanout!ScopeResolved, Fanout!workVars
<1>2. Fanout!Matched' = Fanout!Matched /\ Fanout!All' = Fanout!All
  BY <1>1 DEF Fanout!Matched, Fanout!All
<1>3. /\ Tail(scopes) \in FanoutLists
      /\ scopes[1] \in Fanout!ToSet(scopes) /\ scopes[1] \notin Fanout!ToSet(Tail(scopes))
      /\ Fanout!ToSet(Tail(scopes)) \subseteq Fanout!ToSet(scopes)
  BY <1>1, FanoutTail DEF FanoutTyped
<1>4. CASE Fanout!ScopeReused
  <2>1. /\ ~direct /\ instances' = instances \cup Fanout!InScope
        /\ leases' = [m \in Fanout!All |->
                         IF m \in Fanout!InScope THEN leases[m] + 1 ELSE leases[m]]
    BY <1>4 DEF Fanout!ScopeReused
  <2>2. \A m \in Fanout!InScope :
          m \in Fanout!Matched /\ ScopeOf[m] = scopes[1] /\ m \notin instances
    BY <1>1, <1>3 DEF Fanout!InScope, LeasedInSetup
  <2>3. FanoutTyped' BY <1>1, <1>2, <1>3, <2>1, <2>2 DEF FanoutTyped
  <2>4. LeasedInSetup' BY <1>1, <1>2, <1>3, <2>1, <2>2 DEF LeasedInSetup
  <2> QED BY <1>1, <2>3, <2>4 DEF LeasedByWorker
<1>5. CASE Fanout!ScopeResolved
  <2>1. UNCHANGED <<instances, leases>> BY <1>5 DEF Fanout!ScopeResolved
  <2> QED BY <1>1, <1>2, <1>3, <2>1 DEF FanoutTyped, LeasedInSetup, LeasedByWorker
<1> QED BY <1>4, <1>5

LEMMA FanoutSetupEnds ==
  ASSUME FanoutInv, Fanout!SetupFails \/ Fanout!StartWorkers
  PROVE  FanoutInv'
<1> USE DEF FanoutInv
<1>1. /\ at_match = "setup"
      /\ UNCHANGED <<direct, chosen, scopes, instances>>
  BY DEF Fanout!SetupFails, Fanout!StartWorkers, Fanout!setupVars
<1>2. Fanout!Matched' = Fanout!Matched /\ Fanout!All' = Fanout!All
  BY <1>1 DEF Fanout!Matched, Fanout!All
<1>3. CASE Fanout!SetupFails
  <2>1. /\ at_match' = "answered" /\ worker' = worker
        /\ leases' = [m \in Fanout!All |->
                         IF m \in instances THEN leases[m] - 1 ELSE leases[m]]
    BY <1>3 DEF Fanout!SetupFails, Fanout!Answer, Fanout!ReleaseSetup, Fanout!workVars
  <2> QED BY <1>1, <1>2, <2>1 DEF FanoutTyped, LeasedInSetup, LeasedByWorker
<1>4. CASE Fanout!StartWorkers
  <2>1. /\ at_match' = "fan" /\ leases' = leases
        /\ worker' = [m \in Fanout!All |-> IF m \in Fanout!Matched THEN "acquire" ELSE "idle"]
    BY <1>4 DEF Fanout!StartWorkers
  <2> QED BY <1>1, <1>2, <2>1 DEF FanoutTyped, LeasedInSetup, LeasedByWorker, LeaseHeld
<1> QED BY <1>3, <1>4

(* A worker leases its session, and gives back the lease it has.             *)
LEMMA FanoutWork ==
  ASSUME FanoutInv, NEW m \in Fanout!All, NEW ending \in Fanout!Outcomes,
         Fanout!Acquire(m) \/ Fanout!AcquireFails(m) \/ Fanout!Call(m, ending)
  PROVE  FanoutInv'
<1> USE DEF FanoutInv
<1>1. /\ worker[m] \in {"acquire", "call"}
      /\ UNCHANGED <<direct, chosen, at_match, scopes, instances>>
  BY DEF Fanout!Acquire, Fanout!AcquireFails, Fanout!Call, Fanout!setupVars
<1>2. at_match = "fan" BY <1>1 DEF FanoutTyped, LeasedInSetup, LeasedByWorker
<1>3. Fanout!Matched' = Fanout!Matched /\ Fanout!All' = Fanout!All
  BY <1>1 DEF Fanout!Matched, Fanout!All
<1>4. leases[m] = LeaseHeld(m) /\ m \in Fanout!Matched
  BY <1>1, <1>2 DEF LeasedByWorker
<1>5. /\ leases' \in [Fanout!All -> Int]
      /\ worker' \in [Fanout!All -> {"idle", "acquire", "call", "done"}]
      /\ \A o \in Fanout!All \ {m} : leases'[o] = leases[o] /\ worker'[o] = worker[o]
      /\ worker'[m] \in {"call", "done"} /\ leases'[m] = LeaseHeld(m)'
  <2>1. CASE Fanout!Acquire(m)
    BY <1>1, <1>4, <2>1 DEF Fanout!Acquire, FanoutTyped, LeaseHeld
  <2>2. CASE Fanout!AcquireFails(m)
    BY <1>1, <1>4, <2>2 DEF Fanout!AcquireFails, Fanout!Finish, FanoutTyped, LeaseHeld
  <2>3. CASE Fanout!Call(m, ending)
    <3>1. /\ worker' = [worker EXCEPT ![m] = "done"] /\ worker[m] = "call"
          /\ leases' = [leases EXCEPT ![m] = IF direct THEN @ ELSE @ - 1]
      BY <2>3 DEF Fanout!Call, Fanout!Finish
    <3> QED BY <1>1, <1>4, <3>1 DEF FanoutTyped, LeaseHeld
  <2> QED BY <2>1, <2>2, <2>3
<1>6. FanoutTyped' BY <1>1, <1>3, <1>5 DEF FanoutTyped
<1>7. LeasedInSetup' BY <1>1, <1>2 DEF LeasedInSetup
<1>8. LeasedByWorker'
  <2>1. \A o \in Fanout!All \ {m} : LeaseHeld(o)' = LeaseHeld(o)
    BY <1>1, <1>5 DEF LeaseHeld
  <2> QED BY <1>1, <1>2, <1>3, <1>4, <1>5, <2>1 DEF LeasedByWorker
<1> QED BY <1>6, <1>7, <1>8

LEMMA FanoutAggregate == ASSUME FanoutInv, Fanout!Aggregate PROVE FanoutInv'
<1> USE DEF FanoutInv
<1>1. /\ at_match = "fan" /\ at_match' = "answered"
      /\ \A m \in Fanout!Matched : worker[m] = "done"
      /\ UNCHANGED <<direct, chosen, scopes, instances, leases, worker>>
  BY DEF Fanout!Aggregate, Fanout!Answer, Fanout!setupVars, Fanout!workVars
<1>2. Fanout!Matched' = Fanout!Matched /\ Fanout!All' = Fanout!All
  BY <1>1 DEF Fanout!Matched, Fanout!All
<1> QED BY <1>1, <1>2 DEF FanoutTyped, LeasedInSetup, LeasedByWorker, LeaseHeld

LEMMA FanoutStep == ASSUME FanoutInv, [Fanout!Next]_(Fanout!vars) PROVE FanoutInv'
<1>1. CASE Fanout!Match \/ Fanout!MatchRefused BY <1>1, FanoutMatch
<1>2. CASE Fanout!ScopeReused \/ Fanout!ScopeResolved BY <1>2, FanoutScope
<1>3. CASE Fanout!SetupFails \/ Fanout!StartWorkers BY <1>3, FanoutSetupEnds
<1>4. CASE Fanout!Aggregate BY <1>4, FanoutAggregate
<1>5. CASE \E m \in Fanout!All : Fanout!Acquire(m) \/ Fanout!AcquireFails(m)
  <2>1. Fanout!Outcomes # {} BY DEF Fanout!Outcomes
  <2> QED BY <1>5, <2>1, FanoutWork
<1>6. CASE \E m \in Fanout!All, ending \in Fanout!Outcomes : Fanout!Call(m, ending)
  BY <1>6, FanoutWork
<1>7. CASE Fanout!Cancel \/ UNCHANGED Fanout!vars
  <2>1. UNCHANGED <<direct, chosen, at_match, scopes, instances, leases, worker>>
    BY <1>7 DEF Fanout!Cancel, Fanout!vars, Fanout!setupVars, Fanout!workVars
  <2>2. Fanout!Matched' = Fanout!Matched /\ Fanout!All' = Fanout!All
    BY <2>1 DEF Fanout!Matched, Fanout!All
  <2> QED BY <2>1, <2>2 DEF FanoutInv, FanoutTyped, LeasedInSetup, LeasedByWorker, LeaseHeld
<1> QED BY <1>1, <1>2, <1>3, <1>4, <1>5, <1>6, <1>7 DEF Fanout!Next

-----------------------------------------------------------------------------
(* The answer.  A worker that is done stored what its server said.           *)
Recorded(m) ==
  \/ said[m] = None /\ results[m] = Fanout!Failed("start")
  \/ /\ said[m] \in Fanout!Outcomes /\ said[m].status = "ok"
     /\ results[m] = [status |-> "ok", error |-> None,
                      items |-> Fanout!redactLSPProviderRun(said[m].items)]
  \/ /\ said[m] \in Fanout!Outcomes /\ said[m].status = "unsupported"
     /\ results[m] = [status |-> "unsupported", error |-> None, items |-> <<>>]
  \/ /\ said[m] \in Fanout!Outcomes /\ said[m].status \in {"refused", "broken", "canceled"}
     /\ results[m] = Fanout!Failed(said[m].status)

Failures == {"start", "refused", "broken", "canceled"}
Items == UNION {Fanout!ToSet(items) : items \in Answers}
Contributed == Fanout!All \X Items
Sums == [successes : Nat, failures : Nat, firstErr : Failures \cup {None},
         items : Seq(Contributed),
         outcomes : Seq(Fanout!All \X {"ok", "unsupported", "failed"})]

LEMMA ContributionShape ==
  ASSUME Fanout!ProvidersAssumption, NEW m \in Fanout!All, Recorded(m)
  PROVE  /\ Fanout!Contribution(m) \in Seq(Contributed)
         /\ ~Fanout!Answered(m) => Fanout!Contribution(m) = <<>>
         /\ Fanout!Answered(m) =>
              /\ results[m].status = "ok"
              /\ Fanout!Contribution(m) =
                   [i \in 1..Len(results[m].items) |-> <<m, results[m].items[i]>>]
<1>1. CASE ~Fanout!Answered(m) BY <1>1 DEF Fanout!Contribution
<1>2. CASE Fanout!Answered(m)
  <2>1. /\ said[m] \in Fanout!Outcomes /\ said[m].status = "ok"
        /\ results[m] = [status |-> "ok", error |-> None,
                         items |-> Fanout!redactLSPProviderRun(said[m].items)]
    BY <1>2 DEF Fanout!Answered, Recorded
  <2>2. PICK items \in Answers : said[m].items = items
    BY <2>1 DEF Fanout!Outcomes
  <2>3. PICK kept : kept = Kept(items, Fanout!ToSet(items) \ Protected) OBVIOUS
  <2>4. kept = results[m].items
    BY <2>1, <2>2, <2>3 DEF Fanout!redactLSPProviderRun, Fanout!Kept, Kept
  <2>5. items \in Seq(Fanout!ToSet(items)) BY DEF Fanout!ProvidersAssumption
  <2>6. kept \in Seq(Fanout!ToSet(items) \cap (Fanout!ToSet(items) \ Protected))
    BY <2>3, <2>5, KeptPicks
  <2>7. kept \in Seq(Items) BY <2>6 DEF Items
  <2>8. Fanout!Contribution(m) = [i \in 1..Len(kept) |-> <<m, kept[i]>>]
    BY <1>2, <2>2, <2>3 DEF Fanout!Contribution, Fanout!Kept, Kept
  <2>9. \A i \in 1..Len(kept) : <<m, kept[i]>> \in Contributed
    BY <2>7 DEF Contributed
  <2> QED BY <1>2, <2>1, <2>4, <2>7, <2>8, <2>9
<1> QED BY <1>1, <1>2

(* One match more.                                                           *)
OneMore(sum, m, after) ==
  /\ after \in Sums
  /\ Len(after.outcomes) = Len(sum.outcomes) + 1
  /\ after.items = sum.items \o Fanout!Contribution(m)
  /\ Fanout!Answered(m) => /\ after.successes = sum.successes + 1
                           /\ after.failures = sum.failures
                           /\ after.firstErr = sum.firstErr
                           /\ ~Fanout!Unserved(m)
  /\ Fanout!Unserved(m) => /\ after.successes = sum.successes
                           /\ after.failures = sum.failures + 1
                           /\ after.firstErr = IF sum.firstErr = None
                                THEN results[m].error ELSE sum.firstErr
                           /\ results[m].error # None
  /\ ~Fanout!Answered(m) /\ ~Fanout!Unserved(m) =>
       /\ after.successes = sum.successes
       /\ after.failures = sum.failures
       /\ after.firstErr = sum.firstErr

LEMMA OneMatch ==
  ASSUME Fanout!ProvidersAssumption, NEW m \in Fanout!All, Recorded(m), NEW sum \in Sums
  PROVE  OneMore(sum, m, Fanout!AfterMatch(sum, m))
<1>0. PICK after : after = Fanout!AfterMatch(sum, m) OBVIOUS
<1> SUFFICES OneMore(sum, m, after) BY <1>0
<1> USE DEF OneMore
<1>1. None \notin Fanout!Outcomes /\ None \notin Failures
  BY DEF Fanout!ProvidersAssumption, Failures
<1>2. /\ Fanout!Contribution(m) \in Seq(Contributed)
      /\ ~Fanout!Answered(m) => Fanout!Contribution(m) = <<>>
      /\ Fanout!Answered(m) => Fanout!Contribution(m) =
              [i \in 1..Len(results[m].items) |-> <<m, results[m].items[i]>>]
  BY ContributionShape
<1>3. sum.items \o <<>> = sum.items BY DEF Sums
<1>4. results[m].status \in {"ok", "unsupported", "failed"}
  BY DEF Recorded, Fanout!Failed
<1>5. PICK outcomes : outcomes = Append(sum.outcomes, <<m, results[m].status>>) OBVIOUS
<1>6. /\ outcomes \in Seq(Fanout!All \X {"ok", "unsupported", "failed"})
      /\ Len(outcomes) = Len(sum.outcomes) + 1
  BY <1>4, <1>5 DEF Sums
<1>7. PICK visited : visited = [sum EXCEPT !.outcomes = outcomes] OBVIOUS
<1>8. /\ visited \in Sums /\ visited.outcomes = outcomes /\ visited.items = sum.items
      /\ visited.successes = sum.successes /\ visited.failures = sum.failures
      /\ visited.firstErr = sum.firstErr
  BY <1>6, <1>7 DEF Sums
<1>9. after = CASE results[m].status = "unsupported" -> visited
         [] results[m].status = "failed" ->
              [visited EXCEPT !.failures = @ + 1,
                              !.firstErr = IF @ = None THEN results[m].error ELSE @]
         [] OTHER ->
              [visited EXCEPT !.successes = @ + 1, !.items = @ \o
                 [i \in 1..Len(results[m].items) |-> <<m, results[m].items[i]>>]]
  BY <1>0, <1>5, <1>7 DEF Fanout!AfterMatch
<1>10. CASE Fanout!Answered(m)
  <2>1. results[m].status = "ok" /\ said[m] # None /\ said[m].status = "ok"
    BY <1>10, ContributionShape DEF Fanout!Answered
  <2>2. after = [visited EXCEPT !.successes = @ + 1, !.items = @ \o Fanout!Contribution(m)]
    BY <1>2, <1>9, <1>10, <2>1
  <2>3. sum.items \o Fanout!Contribution(m) \in Seq(Contributed) BY <1>2 DEF Sums
  <2>4. ~Fanout!Unserved(m) BY <1>10 DEF Fanout!Unserved
  <2>5. /\ after.successes = sum.successes + 1 /\ after.failures = sum.failures
        /\ after.firstErr = sum.firstErr /\ after.outcomes = outcomes
        /\ after.items = sum.items \o Fanout!Contribution(m)
    BY <1>8, <2>2 DEF Sums
  <2>6. after = [successes |-> after.successes, failures |-> after.failures,
                 firstErr |-> after.firstErr, items |-> after.items,
                 outcomes |-> after.outcomes]
    BY <1>8, <2>2 DEF Sums
  <2>7. after \in Sums
    <3>1. sum.successes + 1 \in Nat BY DEF Sums
    <3> QED BY <1>6, <2>3, <2>5, <2>6, <3>1 DEF Sums
  <2> QED BY <1>6, <1>10, <2>4, <2>5, <2>7
<1>11. CASE Fanout!Unserved(m)
  <2>1. ~Fanout!Answered(m) /\ ~Fanout!Unsupported(m) BY <1>11 DEF Fanout!Unserved
  <2>2. results[m].status = "failed" /\ results[m].error \in Failures
    BY <1>1, <2>1 DEF Fanout!Answered, Fanout!Unsupported, Recorded, Fanout!Failed, Failures
  <2>3. after = [visited EXCEPT !.failures = @ + 1,
                                !.firstErr = IF @ = None THEN results[m].error ELSE @]
    BY <1>9, <2>2
  <2>4. /\ after.successes = sum.successes /\ after.failures = sum.failures + 1
        /\ after.firstErr = IF sum.firstErr = None THEN results[m].error ELSE sum.firstErr
        /\ after.outcomes = outcomes /\ after.items = sum.items
    BY <1>8, <2>3 DEF Sums
  <2>5. after = [successes |-> after.successes, failures |-> after.failures,
                 firstErr |-> after.firstErr, items |-> after.items,
                 outcomes |-> after.outcomes]
    BY <1>8, <2>3 DEF Sums
  <2>6. after \in Sums
    <3>1. sum.failures + 1 \in Nat /\ after.firstErr \in Failures \cup {None}
      BY <2>2, <2>4 DEF Sums
    <3> QED BY <1>6, <2>4, <2>5, <3>1 DEF Sums
  <2>7. results[m].error # None BY <1>1, <2>2
  <2>8. after.items = sum.items \o Fanout!Contribution(m) BY <1>2, <1>3, <2>1, <2>4
  <2> QED BY <1>6, <1>11, <2>1, <2>4, <2>6, <2>7, <2>8
<1>12. CASE ~Fanout!Answered(m) /\ ~Fanout!Unserved(m)
  <2>1. said[m] # None /\ said[m].status = "unsupported"
    BY <1>12 DEF Fanout!Unserved, Fanout!Unsupported
  <2>2. results[m].status = "unsupported" BY <2>1 DEF Recorded
  <2>3. after = visited BY <1>9, <2>2
  <2> QED BY <1>2, <1>3, <1>6, <1>8, <1>12, <2>3
<1> QED BY <1>10, <1>11, <1>12

(* The passes over the matches and over their contributions, step by step.   *)
LEMMA AggregatedUnfolds ==
  ASSUME Len(Fanout!matches) \in Nat
  PROVE  \E upTo :
           /\ Fanout!Aggregated = upTo[Len(Fanout!matches)] /\ upTo[0] = Fanout!NothingYet
           /\ \A n \in 1..Len(Fanout!matches) :
                upTo[n] = Fanout!AfterMatch(upTo[n - 1], Fanout!matches[n])
<1> DEFINE L == Len(Fanout!matches)
           Entry(g, n) == IF n = 0 THEN Fanout!NothingYet
                          ELSE Fanout!AfterMatch(g[n - 1], Fanout!matches[n])
           Rec == CHOOSE g : g = [n \in 0..L |-> Entry(g, n)]
<1>0. \A g, h, n : n = 0 \/ g[n - 1] = h[n - 1] => Entry(g, n) = Entry(h, n) OBVIOUS
<1>1. Fanout!Aggregated = Rec[L] BY DEF Fanout!Aggregated
<1>2. \A g : Entry(g, 0) = Fanout!NothingYet OBVIOUS
<1>3. \A g : \A n \in 1..L : Entry(g, n) = Fanout!AfterMatch(g[n - 1], Fanout!matches[n])
  OBVIOUS
<1> HIDE DEF Entry
<1>4. PICK T : T = {m \in Nat : \E g : g = [n \in 0..m |-> Entry(g, n)]} OBVIOUS
<1>5. 0 \in T
  <2>1. PICK g : g = [n \in 0..0 |-> Fanout!NothingYet] OBVIOUS
  <2>2. g = [n \in 0..0 |-> Entry(g, n)] BY <1>2, <2>1
  <2> QED BY <1>4, <2>2
<1>6. \A m \in Nat : m \in T => m + 1 \in T
  <2> SUFFICES ASSUME NEW m \in Nat, NEW g, g = [n \in 0..m |-> Entry(g, n)]
               PROVE  \E h : h = [n \in 0..(m + 1) |-> Entry(h, n)]
    BY <1>4
  <2>1. PICK h : h = [n \in 0..(m + 1) |-> Entry(g, n)] OBVIOUS
  <2>2. \A n \in 0..m : h[n] = g[n] BY <2>1
  <2>3. \A n \in 0..(m + 1) : n = 0 \/ n - 1 \in 0..m OBVIOUS
  <2>4. \A n \in 0..(m + 1) : Entry(g, n) = Entry(h, n) BY <1>0, <2>2, <2>3
  <2>5. h = [n \in 0..(m + 1) |-> Entry(h, n)] BY <2>1, <2>4
  <2> QED BY <2>5
<1>7. L \in T BY <1>5, <1>6, Redacting!Counting
<1>8. Rec = [n \in 0..L |-> Entry(Rec, n)] BY <1>4, <1>7
<1> HIDE DEF Rec
<1>9. \A n \in 0..L : Rec[n] = Entry(Rec, n)
  <2>1. PICK r : r = Rec OBVIOUS
  <2>2. r = [n \in 0..L |-> Entry(r, n)] BY <1>8, <2>1
  <2> QED BY <2>1, <2>2
<1>10. Rec[0] = Fanout!NothingYet BY <1>2, <1>9
<1>11. \A n \in 1..L : Rec[n] = Fanout!AfterMatch(Rec[n - 1], Fanout!matches[n])
  <2> SUFFICES ASSUME NEW n \in 1..L
               PROVE  Rec[n] = Fanout!AfterMatch(Rec[n - 1], Fanout!matches[n])
    OBVIOUS
  <2>1. n \in 0..L OBVIOUS
  <2>2. Entry(Rec, n) = Fanout!AfterMatch(Rec[n - 1], Fanout!matches[n]) BY <1>3
  <2> QED BY <1>9, <2>1, <2>2
<1> WITNESS Rec
<1> QED BY <1>1, <1>10, <1>11

LEMMA FlattenUnfolds ==
  ASSUME NEW seqs, Len(seqs) \in Nat, Len(seqs) # 0
  PROVE  \E upTo :
           /\ Fanout!FlattenSeq(seqs) = upTo[Len(seqs)] /\ upTo[1] = seqs[1]
           /\ \A n \in 2..Len(seqs) : upTo[n] = upTo[n - 1] \o seqs[n]
<1> DEFINE L == Len(seqs)
           Entry(g, n) == IF n = 1 THEN seqs[n] ELSE g[n - 1] \o seqs[n]
           Rec == CHOOSE g : g = [n \in 1..L |-> Entry(g, n)]
<1>0. \A g, h, n : n = 1 \/ g[n - 1] = h[n - 1] => Entry(g, n) = Entry(h, n) OBVIOUS
<1>1. Fanout!FlattenSeq(seqs) = Rec[L] BY DEF Fanout!FlattenSeq
<1>2. \A g : Entry(g, 1) = seqs[1] OBVIOUS
<1>3. \A g, n : n # 1 => Entry(g, n) = g[n - 1] \o seqs[n] OBVIOUS
<1> HIDE DEF Entry
<1>4. PICK T : T = {m \in Nat : \E g : g = [n \in 1..m |-> Entry(g, n)]} OBVIOUS
<1>5. 0 \in T
  <2>1. PICK g : g = [n \in 1..0 |-> <<>>] OBVIOUS
  <2>2. g = [n \in 1..0 |-> Entry(g, n)] BY <2>1
  <2> QED BY <1>4, <2>2
<1>6. \A m \in Nat : m \in T => m + 1 \in T
  <2> SUFFICES ASSUME NEW m \in Nat, NEW g, g = [n \in 1..m |-> Entry(g, n)]
               PROVE  \E h : h = [n \in 1..(m + 1) |-> Entry(h, n)]
    BY <1>4
  <2>1. PICK h : h = [n \in 1..(m + 1) |-> Entry(g, n)] OBVIOUS
  <2>2. \A n \in 1..m : h[n] = g[n] BY <2>1
  <2>3. \A n \in 1..(m + 1) : n = 1 \/ n - 1 \in 1..m OBVIOUS
  <2>4. \A n \in 1..(m + 1) : Entry(g, n) = Entry(h, n) BY <1>0, <2>2, <2>3
  <2>5. h = [n \in 1..(m + 1) |-> Entry(h, n)] BY <2>1, <2>4
  <2> QED BY <2>5
<1>7. L \in T BY <1>5, <1>6, Redacting!Counting
<1>8. Rec = [n \in 1..L |-> Entry(Rec, n)] BY <1>4, <1>7
<1> HIDE DEF Rec
<1>9. \A n \in 1..L : Rec[n] = Entry(Rec, n)
  <2>1. PICK r : r = Rec OBVIOUS
  <2>2. r = [n \in 1..L |-> Entry(r, n)] BY <1>8, <2>1
  <2> QED BY <2>1, <2>2
<1>10. Rec[1] = seqs[1] BY <1>2, <1>9
<1>11. \A n \in 2..L : Rec[n] = Rec[n - 1] \o seqs[n]
  <2> SUFFICES ASSUME NEW n \in 2..L PROVE Rec[n] = Rec[n - 1] \o seqs[n] OBVIOUS
  <2>1. n \in 1..L /\ n # 1 OBVIOUS
  <2>2. Entry(Rec, n) = Rec[n - 1] \o seqs[n] BY <1>3, <2>1
  <2> QED BY <1>9, <2>1, <2>2
<1> WITNESS Rec
<1> QED BY <1>1, <1>10, <1>11

(* What the pass knows after n matches.                                      *)
SumsUp(sum, list, n) ==
  /\ sum \in Sums /\ Len(sum.outcomes) = n
  /\ sum.successes > 0 <=> \E i \in 1..n : Fanout!Answered(list[i])
  /\ sum.failures > 0 <=> \E i \in 1..n : Fanout!Unserved(list[i])
  /\ sum.successes = 0 => sum.items = <<>>
  /\ \/ sum.firstErr = None /\ \A i \in 1..n : ~Fanout!Unserved(list[i])
     \/ \E i \in 1..n : /\ Fanout!Unserved(list[i])
                        /\ sum.firstErr = results[list[i]].error /\ sum.firstErr # None
                        /\ \A j \in 1..(i - 1) : ~Fanout!Unserved(list[j])

LEMMA SumsUpOne ==
  ASSUME Fanout!ProvidersAssumption, NEW n \in Nat, NEW list, NEW sum, SumsUp(sum, list, n),
         list[n + 1] \in Fanout!All, Recorded(list[n + 1]),
         NEW after, after = Fanout!AfterMatch(sum, list[n + 1])
  PROVE  /\ SumsUp(after, list, n + 1)
         /\ after.items = sum.items \o Fanout!Contribution(list[n + 1])
<1>1. PICK m \in Fanout!All : m = list[n + 1] OBVIOUS
<1>2. /\ sum \in Sums /\ Recorded(m)
      /\ after = Fanout!AfterMatch(sum, m)
  BY <1>1 DEF SumsUp
<1>3. OneMore(sum, m, after)
  BY <1>1, <1>2, OneMatch
<1> USE DEF OneMore
<1>4. /\ sum.successes \in Nat /\ sum.failures \in Nat
      /\ sum.items \in Seq(Contributed)
  BY <1>2 DEF Sums
<1>5. /\ \A i \in 1..(n + 1) : i \in 1..n \/ i = n + 1
      /\ \A i \in 1..n : i \in 1..(n + 1)
      /\ n + 1 \in 1..(n + 1) /\ (n + 1) - 1 = n
  OBVIOUS
<1>6. Len(after.outcomes) = n + 1 BY <1>3 DEF SumsUp
<1>7. after.successes > 0 <=> \E i \in 1..(n + 1) : Fanout!Answered(list[i])
  <2>1. CASE Fanout!Answered(m) BY <1>1, <1>3, <1>4, <1>5, <2>1
  <2>2. CASE ~Fanout!Answered(m)
    <3>1. after.successes = sum.successes BY <1>3, <2>2
    <3> QED BY <1>1, <1>5, <2>2, <3>1 DEF SumsUp
  <2> QED BY <2>1, <2>2
<1>8. after.failures > 0 <=> \E i \in 1..(n + 1) : Fanout!Unserved(list[i])
  <2>1. CASE Fanout!Unserved(m) BY <1>1, <1>3, <1>4, <1>5, <2>1
  <2>2. CASE ~Fanout!Unserved(m)
    <3>1. after.failures = sum.failures BY <1>3, <2>2
    <3> QED BY <1>1, <1>5, <2>2, <3>1 DEF SumsUp
  <2> QED BY <2>1, <2>2
<1>9. after.successes = 0 => after.items = <<>>
  <2> SUFFICES ASSUME after.successes = 0 PROVE after.items = <<>> OBVIOUS
  <2>1. ~Fanout!Answered(m) /\ sum.successes = 0 BY <1>3, <1>4
  <2>2. Fanout!Contribution(m) = <<>> BY <1>1, <2>1, ContributionShape
  <2>3. sum.items = <<>> BY <2>1 DEF SumsUp
  <2> QED BY <1>3, <2>2, <2>3
<1>10. \/ after.firstErr = None /\ \A i \in 1..(n + 1) : ~Fanout!Unserved(list[i])
       \/ \E i \in 1..(n + 1) :
            /\ Fanout!Unserved(list[i])
            /\ after.firstErr = results[list[i]].error /\ after.firstErr # None
            /\ \A j \in 1..(i - 1) : ~Fanout!Unserved(list[j])
  <2>1. CASE sum.firstErr # None
    <3>1. after.firstErr = sum.firstErr BY <1>3, <2>1
    <3>2. PICK i \in 1..n : /\ Fanout!Unserved(list[i])
                            /\ sum.firstErr = results[list[i]].error
                            /\ \A j \in 1..(i - 1) : ~Fanout!Unserved(list[j])
      BY <2>1 DEF SumsUp
    <3>3. i \in 1..(n + 1) BY <1>5
    <3> QED BY <2>1, <3>1, <3>2, <3>3
  <2>2. CASE sum.firstErr = None
    <3>1. \A i \in 1..n : ~Fanout!Unserved(list[i]) BY <2>2 DEF SumsUp
    <3>2. CASE Fanout!Unserved(m)
      <4>1. after.firstErr = results[list[n + 1]].error /\ after.firstErr # None
        BY <1>1, <1>3, <2>2, <3>2
      <4>2. \A j \in 1..((n + 1) - 1) : ~Fanout!Unserved(list[j]) BY <1>5, <3>1
      <4> QED BY <1>1, <1>5, <3>2, <4>1, <4>2
    <3>3. CASE ~Fanout!Unserved(m)
      <4>1. after.firstErr = None BY <1>3, <2>2, <3>3
      <4> QED BY <1>1, <1>5, <3>1, <3>3, <4>1
    <3> QED BY <3>2, <3>3
  <2> QED BY <2>1, <2>2
<1> QED BY <1>1, <1>3, <1>6, <1>7, <1>8, <1>9, <1>10 DEF SumsUp

LEMMA Summed ==
  ASSUME Fanout!ProvidersAssumption, Fanout!matches \in Seq(Fanout!All),
         \A i \in 1..Len(Fanout!matches) : Recorded(Fanout!matches[i])
  PROVE  /\ SumsUp(Fanout!Aggregated, Fanout!matches, Len(Fanout!matches))
         /\ Fanout!Aggregated.items =
              Fanout!FlattenSeq([i \in 1..Len(Fanout!matches) |->
                                   Fanout!Contribution(Fanout!matches[i])])
<1>1. PICK list : list = Fanout!matches OBVIOUS
<1>2. PICK len : len = Len(list) OBVIOUS
<1>3. len \in Nat /\ list \in Seq(Fanout!All) BY <1>1, <1>2
<1>4. PICK upTo : /\ Fanout!Aggregated = upTo[len] /\ upTo[0] = Fanout!NothingYet
                  /\ \A n \in 1..len : upTo[n] = Fanout!AfterMatch(upTo[n - 1], list[n])
  BY <1>1, <1>2, <1>3, AggregatedUnfolds
<1>5. \A n \in 1..len : list[n] \in Fanout!All /\ Recorded(list[n])
  BY <1>1, <1>2, <1>3
<1>6. PICK seqs : seqs = [i \in 1..len |-> Fanout!Contribution(list[i])] OBVIOUS
<1>7. Len(seqs) = len /\ \A i \in 1..len : seqs[i] \in Seq(Contributed)
  BY <1>3, <1>5, <1>6, ContributionShape
<1>8. SumsUp(upTo[0], list, 0) /\ upTo[0].items = <<>>
  <2>1. Fanout!NothingYet \in Sums BY DEF Fanout!NothingYet, Sums
  <2>2. /\ Fanout!NothingYet.successes = 0 /\ Fanout!NothingYet.failures = 0
        /\ Fanout!NothingYet.firstErr = None /\ Fanout!NothingYet.items = <<>>
        /\ Fanout!NothingYet.outcomes = <<>>
    BY DEF Fanout!NothingYet
  <2> QED BY <1>4, <2>1, <2>2 DEF SumsUp
<1>9. CASE len = 0
  <2>1. seqs = <<>> BY <1>6, <1>9
  <2>2. Fanout!FlattenSeq(seqs) = <<>> BY <2>1 DEF Fanout!FlattenSeq
  <2> QED BY <1>1, <1>2, <1>4, <1>6, <1>8, <1>9, <2>2
<1>10. CASE len # 0
  <2>1. PICK flat : /\ Fanout!FlattenSeq(seqs) = flat[len] /\ flat[1] = seqs[1]
                    /\ \A n \in 2..len : flat[n] = flat[n - 1] \o seqs[n]
    BY <1>3, <1>7, <1>10, FlattenUnfolds
  <2> DEFINE Holds(n) == /\ SumsUp(upTo[n], list, n)
                        /\ upTo[n].items = IF n = 0 THEN <<>> ELSE flat[n]
  <2>2. PICK T : T = {n \in Nat : n <= len => Holds(n)} OBVIOUS
  <2>3. 0 \in T BY <1>8, <2>2
  <2>4. \A n \in Nat : n \in T => n + 1 \in T
    <3> SUFFICES ASSUME NEW n \in Nat, n + 1 <= len, Holds(n) PROVE Holds(n + 1)
      <4> HIDE DEF Holds
      <4> QED BY <1>3, <2>2
    <3>1. n + 1 \in 1..len /\ n + 1 # 0 /\ (n + 1) - 1 = n BY <1>3
    <3>2. upTo[n + 1] = Fanout!AfterMatch(upTo[n], list[n + 1]) BY <1>4, <3>1
    <3>3. /\ SumsUp(upTo[n + 1], list, n + 1)
          /\ upTo[n + 1].items = upTo[n].items \o Fanout!Contribution(list[n + 1])
      BY <1>5, <3>1, <3>2, SumsUpOne
    <3>4. seqs[n + 1] = Fanout!Contribution(list[n + 1]) BY <1>6, <3>1
    <3>5. CASE n = 0
      <4>1. seqs[n + 1] \in Seq(Contributed) BY <1>7, <3>1
      <4>2. <<>> \o seqs[n + 1] = seqs[n + 1] BY <4>1
      <4> QED BY <2>1, <3>3, <3>4, <3>5, <4>2
    <3>6. CASE n # 0
      <4>1. n + 1 \in 2..len BY <3>1, <3>6
      <4>2. flat[n + 1] = flat[n] \o seqs[n + 1] BY <2>1, <3>1, <4>1
      <4>3. upTo[n + 1].items = flat[n + 1] BY <3>3, <3>4, <3>6, <4>2
      <4> QED BY <3>1, <3>3, <4>3
    <3> QED BY <3>5, <3>6
  <2>5. len \in T BY <1>3, <2>3, <2>4, Redacting!Counting
  <2>6. Holds(len) BY <1>3, <2>2, <2>5
  <2> QED BY <1>1, <1>2, <1>4, <1>6, <1>10, <2>1, <2>6
<1> QED BY <1>9, <1>10

-----------------------------------------------------------------------------
(* What the workers stored, and what the reply is made of.                   *)
FanoutAnswers ==
  /\ \A m \in Fanout!All : IF worker[m] = "done" THEN Recorded(m) ELSE said[m] = None
  /\ results = [m \in Fanout!All |-> results[m]] /\ said = [m \in Fanout!All |-> said[m]]
  /\ at_match \in {"setup", "fan"} => Fanout!Matched # {}
  /\ at_match = "answered" =>
       \/ Fanout!NoneAsked
       \/ \E m \in Fanout!Matched : worker[m] # "done"
       \/ Fanout!Matched # {} /\ reply = Fanout!aggregateLSPResults

LEMMA AnswersSame ==
  ASSUME UNCHANGED <<chosen, results>>
  PROVE  Fanout!aggregateLSPResults' = Fanout!aggregateLSPResults
<1>1. Fanout!Matched' = Fanout!Matched BY DEF Fanout!Matched, Fanout!All
<1>2. Fanout!matches' = Fanout!matches BY <1>1 DEF Fanout!matches
<1>3. Fanout!Aggregated' = Fanout!Aggregated
  BY <1>2 DEF Fanout!Aggregated, Fanout!AfterMatch
<1> QED BY <1>3 DEF Fanout!aggregateLSPResults

LEMMA AnswersInit == ASSUME Fanout!Init PROVE FanoutAnswers
  BY DEF Fanout!Init, FanoutAnswers

LEMMA AnswersMatch ==
  ASSUME FanoutInv, FanoutAnswers, Fanout!Match \/ Fanout!MatchRefused
  PROVE  FanoutAnswers'
<1>1. /\ at_match = "match" /\ UNCHANGED <<chosen, worker, results, said>>
  BY DEF Fanout!Match, Fanout!MatchRefused, Fanout!workVars
<1>2. Fanout!Matched' = Fanout!Matched /\ Fanout!All' = Fanout!All
  BY <1>1 DEF Fanout!Matched, Fanout!All
<1>3. \A m \in Fanout!All : Recorded(m)' = Recorded(m) BY <1>1 DEF Recorded
<1>4. \/ /\ at_match' = "answered"
         /\ \E code \in {"root", "ambiguous", "no_provider"} : reply' = Fanout!Error(code)
      \/ at_match' = "setup" /\ Fanout!Matched # {}
  BY DEF Fanout!Match, Fanout!MatchRefused, Fanout!Answer
<1>5. \A code : Fanout!Error(code).error = code BY DEF Fanout!Error
<1>6. at_match' = "answered" => Fanout!NoneAsked' BY <1>4, <1>5 DEF Fanout!NoneAsked
<1> QED BY <1>1, <1>2, <1>3, <1>4, <1>6 DEF FanoutAnswers

(* A setup that fails answers before any worker is started.                  *)
LEMMA AnswersSetup ==
  ASSUME FanoutInv, FanoutAnswers,
         \/ Fanout!ScopeReused \/ Fanout!ScopeResolved
         \/ Fanout!SetupFails \/ Fanout!StartWorkers
  PROVE  FanoutAnswers'
<1>1. /\ at_match = "setup" /\ UNCHANGED <<chosen, results, said>>
      /\ \/ at_match' = "setup" /\ worker' = worker
         \/ at_match' = "answered" /\ worker' = worker
         \/ /\ at_match' = "fan"
            /\ worker' = [m \in Fanout!All |-> IF m \in Fanout!Matched THEN "acquire" ELSE "idle"]
  BY DEF Fanout!ScopeReused, Fanout!ScopeResolved, Fanout!SetupFails, Fanout!StartWorkers,
         Fanout!Answer, Fanout!workVars
<1>2. Fanout!Matched' = Fanout!Matched /\ Fanout!All' = Fanout!All
  BY <1>1 DEF Fanout!Matched, Fanout!All
<1>3. Fanout!Matched # {} /\ Fanout!Matched \subseteq Fanout!All
  BY <1>1 DEF FanoutAnswers, Fanout!Matched
<1>4. \A m \in Fanout!All : worker[m] = "idle" BY <1>1 DEF FanoutInv, LeasedInSetup
<1>5. \A m \in Fanout!All : worker'[m] # "done" BY <1>1, <1>4
<1> QED BY <1>1, <1>2, <1>3, <1>4, <1>5 DEF FanoutAnswers

(* A worker stores what its own server said.                                 *)
LEMMA AnswersWork ==
  ASSUME FanoutInv, FanoutAnswers, NEW m \in Fanout!All, NEW ending \in Fanout!Outcomes,
         Fanout!Acquire(m) \/ Fanout!AcquireFails(m) \/ Fanout!Call(m, ending)
  PROVE  FanoutAnswers'
<1>1. /\ worker[m] \in {"acquire", "call"} /\ UNCHANGED <<chosen, at_match>>
  BY DEF Fanout!Acquire, Fanout!AcquireFails, Fanout!Call
<1>2. at_match = "fan" BY <1>1 DEF FanoutInv, FanoutTyped, LeasedInSetup, LeasedByWorker
<1>3. Fanout!Matched' = Fanout!Matched /\ Fanout!All' = Fanout!All
  BY <1>1 DEF Fanout!Matched, Fanout!All
<1>4. said[m] = None BY <1>1 DEF FanoutAnswers
<1>5. /\ worker' \in [Fanout!All -> {"idle", "acquire", "call", "done"}]
      /\ results' = [o \in Fanout!All |-> results'[o]] /\ said' = [o \in Fanout!All |-> said'[o]]
      /\ \A o \in Fanout!All \ {m} : /\ worker'[o] = worker[o]
                                     /\ results'[o] = results[o] /\ said'[o] = said[o]
      /\ IF worker'[m] = "done" THEN Recorded(m)' ELSE said'[m] = None
  <2>1. CASE Fanout!Acquire(m)
    BY <1>4, <2>1 DEF Fanout!Acquire, FanoutInv, FanoutTyped, FanoutAnswers
  <2>2. CASE Fanout!AcquireFails(m)
    <3>1. /\ worker' = [worker EXCEPT ![m] = "done"] /\ said' = said
          /\ results' = [results EXCEPT ![m] = Fanout!Failed("start")]
      BY <2>2 DEF Fanout!AcquireFails, Fanout!Finish
    <3>2. results'[m] = Fanout!Failed("start") /\ said'[m] = None
      BY <1>4, <3>1 DEF FanoutAnswers
    <3>3. Recorded(m)' BY <3>2 DEF Recorded, Fanout!Failed
    <3> QED BY <3>1, <3>3 DEF FanoutInv, FanoutTyped, FanoutAnswers
  <2>3. CASE Fanout!Call(m, ending)
    <3>1. PICK stored :
            /\ worker' = [worker EXCEPT ![m] = "done"]
            /\ results' = [results EXCEPT ![m] = stored]
            /\ said' = [said EXCEPT ![m] = ending]
            /\ stored = CASE ending.status = "ok" ->
                               [status |-> "ok", error |-> None,
                                items |-> Fanout!redactLSPProviderRun(ending.items)]
                          [] ending.status = "unsupported" ->
                               [status |-> "unsupported", error |-> None, items |-> <<>>]
                          [] OTHER -> Fanout!Failed(ending.status)
      BY <2>3 DEF Fanout!Call, Fanout!Finish
    <3>2. results'[m] = stored /\ said'[m] = ending BY <3>1 DEF FanoutAnswers
    <3>3. ending.status \in {"ok", "unsupported", "refused", "broken", "canceled"}
      BY DEF Fanout!Outcomes
    <3>4. Recorded(m)'
      BY <3>1, <3>2, <3>3 DEF Recorded, Fanout!Failed, Fanout!Outcomes
    <3> QED BY <3>1, <3>4 DEF FanoutInv, FanoutTyped, FanoutAnswers
  <2> QED BY <2>1, <2>2, <2>3
<1>6. \A o \in Fanout!All \ {m} : Recorded(o)' = Recorded(o) BY <1>5 DEF Recorded
<1> QED BY <1>1, <1>2, <1>3, <1>5, <1>6 DEF FanoutAnswers

LEMMA AnswersAggregate ==
  ASSUME FanoutInv, FanoutAnswers, Fanout!Aggregate
  PROVE  FanoutAnswers'
<1>1. /\ at_match = "fan" /\ at_match' = "answered" /\ reply' = Fanout!aggregateLSPResults
      /\ UNCHANGED <<chosen, worker, results, said>>
  BY DEF Fanout!Aggregate, Fanout!Answer, Fanout!workVars
<1>2. Fanout!Matched' = Fanout!Matched /\ Fanout!All' = Fanout!All
  BY <1>1 DEF Fanout!Matched, Fanout!All
<1>3. \A m \in Fanout!All : Recorded(m)' = Recorded(m) BY <1>1 DEF Recorded
<1>4. Fanout!aggregateLSPResults' = Fanout!aggregateLSPResults BY <1>1, AnswersSame
<1> QED BY <1>1, <1>2, <1>3, <1>4 DEF FanoutAnswers

LEMMA AnswersStep ==
  ASSUME FanoutInv, FanoutAnswers, [Fanout!Next]_(Fanout!vars)
  PROVE  FanoutAnswers'
<1>1. CASE Fanout!Match \/ Fanout!MatchRefused BY <1>1, AnswersMatch
<1>2. CASE \/ Fanout!ScopeReused \/ Fanout!ScopeResolved
           \/ Fanout!SetupFails \/ Fanout!StartWorkers
  BY <1>2, AnswersSetup
<1>3. CASE Fanout!Aggregate BY <1>3, AnswersAggregate
<1>4. CASE \E m \in Fanout!All : Fanout!Acquire(m) \/ Fanout!AcquireFails(m)
  <2>1. Fanout!Outcomes # {} BY DEF Fanout!Outcomes
  <2> QED BY <1>4, <2>1, AnswersWork
<1>5. CASE \E m \in Fanout!All, ending \in Fanout!Outcomes : Fanout!Call(m, ending)
  BY <1>5, AnswersWork
<1>6. CASE Fanout!Cancel \/ UNCHANGED Fanout!vars
  <2>1. UNCHANGED <<chosen, at_match, worker, results, said, reply>>
    BY <1>6 DEF Fanout!Cancel, Fanout!vars, Fanout!setupVars, Fanout!workVars
  <2>2. Fanout!Matched' = Fanout!Matched /\ Fanout!All' = Fanout!All
    BY <2>1 DEF Fanout!Matched, Fanout!All
  <2>3. \A m \in Fanout!All : Recorded(m)' = Recorded(m) BY <2>1 DEF Recorded
  <2>4. Fanout!aggregateLSPResults' = Fanout!aggregateLSPResults BY <2>1, AnswersSame
  <2> QED BY <2>1, <2>2, <2>3, <2>4 DEF FanoutAnswers, Fanout!NoneAsked
<1> QED BY <1>1, <1>2, <1>3, <1>4, <1>5, <1>6 DEF Fanout!Next

(* The matches are the matched providers.                                    *)
LEMMA MatchesThose ==
  ASSUME Fanout!ProvidersAssumption
  PROVE  /\ Fanout!matches \in Seq(Fanout!All)
         /\ \A i \in 1..Len(Fanout!matches) : Fanout!matches[i] \in Fanout!Matched
         /\ \A m \in Fanout!Matched : \E i \in 1..Len(Fanout!matches) : Fanout!matches[i] = m
<1>1. PICK list : list = Matches OBVIOUS
<1>2. PICK kept : kept = Kept(list, Fanout!Matched) OBVIOUS
<1>3. Fanout!matches = kept BY <1>1, <1>2 DEF Fanout!matches, Fanout!Kept, Kept
<1>4. list \in Seq(Fanout!All) /\ Fanout!All = {list[i] : i \in 1..Len(list)}
  BY <1>1 DEF Fanout!ProvidersAssumption, Fanout!All, Fanout!ToSet
<1>5. kept \in Seq(Fanout!All \cap Fanout!Matched) BY <1>2, <1>4, KeptPicks
<1>6. PICK from : Picks(kept, list, Len(list), Fanout!Matched, from)
  BY <1>2, <1>4, KeptPicks
<1>7. \A m \in Fanout!Matched : \E i \in 1..Len(kept) : kept[i] = m
  <2> SUFFICES ASSUME NEW m \in Fanout!Matched PROVE \E i \in 1..Len(kept) : kept[i] = m
    OBVIOUS
  <2>1. PICK k \in 1..Len(list) : list[k] = m BY <1>4 DEF Fanout!Matched
  <2>2. PICK i \in 1..Len(kept) : from[i] = k BY <1>6, <2>1 DEF Picks
  <2> QED BY <1>6, <2>1, <2>2 DEF Picks
<1> QED BY <1>3, <1>5, <1>7

LEMMA AnswersEnough ==
  ASSUME Fanout!ProvidersAssumption, FanoutInv, FanoutAnswers
  PROVE  Fanout!AnswerComplete
<1>1. Fanout!LeasesReturned
  BY DEF FanoutInv, FanoutTyped, LeasedInSetup, LeasedByWorker, LeaseHeld, Fanout!LeasesReturned
<1> SUFFICES ASSUME at_match = "answered", \A m \in Fanout!Matched : worker[m] = "done",
                    ~Fanout!NoneAsked
             PROVE  /\ reply.ok <=> \E m \in Fanout!Matched : Fanout!Answered(m)
                    /\ reply.items = Fanout!FlattenSeq([i \in 1..Len(Fanout!matches) |->
                                        Fanout!Contribution(Fanout!matches[i])])
                    /\ reply.partial <=> reply.ok /\ \E m \in Fanout!Matched : Fanout!Unserved(m)
                    /\ Len(reply.providers) = Len(Fanout!matches)
                    /\ ~reply.ok =>
                         \/ /\ reply.error = "capability"
                            /\ \A m \in Fanout!Matched : Fanout!Unsupported(m)
                         \/ \E i \in 1..Len(Fanout!matches) :
                              /\ Fanout!Unserved(Fanout!matches[i])
                              /\ reply.error = results[Fanout!matches[i]].error
                              /\ \A j \in 1..(i - 1) : Fanout!Unsupported(Fanout!matches[j])
  BY <1>1 DEF Fanout!AnswerComplete
<1>2. reply = Fanout!aggregateLSPResults BY DEF FanoutAnswers
<1>3. PICK list : list = Fanout!matches OBVIOUS
<1>4. PICK sum : sum = Fanout!Aggregated OBVIOUS
<1>5. /\ list \in Seq(Fanout!All)
      /\ \A i \in 1..Len(list) : list[i] \in Fanout!Matched
      /\ \A m \in Fanout!Matched : \E i \in 1..Len(list) : list[i] = m
  BY <1>3, MatchesThose
<1>6. \A i \in 1..Len(list) : Recorded(list[i])
  <2>1. \A m \in Fanout!Matched : m \in Fanout!All BY DEF Fanout!Matched
  <2> QED BY <1>5, <2>1 DEF FanoutAnswers
<1>7. /\ SumsUp(sum, list, Len(list))
      /\ sum.items = Fanout!FlattenSeq([i \in 1..Len(Fanout!matches) |->
                                          Fanout!Contribution(Fanout!matches[i])])
  BY <1>3, <1>4, <1>5, <1>6, Summed
<1>8. reply = IF sum.successes > 0
              THEN [ok |-> TRUE, error |-> None, partial |-> sum.failures > 0,
                    items |-> sum.items, providers |-> sum.outcomes]
              ELSE [ok |-> FALSE, error |-> IF sum.firstErr = None THEN "capability"
                                            ELSE sum.firstErr,
                    partial |-> FALSE, items |-> <<>>, providers |-> sum.outcomes]
  BY <1>2, <1>4 DEF Fanout!aggregateLSPResults
<1>9. sum.successes \in Nat BY <1>7 DEF SumsUp, Sums
<1>10. /\ sum.successes > 0 <=> \E m \in Fanout!Matched : Fanout!Answered(m)
       /\ sum.failures > 0 <=> \E m \in Fanout!Matched : Fanout!Unserved(m)
  BY <1>5, <1>7 DEF SumsUp
<1>11. Len(sum.outcomes) = Len(list) BY <1>7 DEF SumsUp
<1>12. CASE sum.successes > 0
  <2>1. /\ reply.ok /\ reply.partial = (sum.failures > 0) /\ reply.items = sum.items
        /\ reply.providers = sum.outcomes
    BY <1>8, <1>12
  <2> QED BY <1>3, <1>7, <1>10, <1>11, <1>12, <2>1
<1>13. CASE ~(sum.successes > 0)
  <2>1. /\ ~reply.ok /\ ~reply.partial /\ reply.items = <<>> /\ reply.providers = sum.outcomes
        /\ reply.error = IF sum.firstErr = None THEN "capability" ELSE sum.firstErr
    BY <1>8, <1>13
  <2>2. sum.items = <<>> BY <1>7, <1>9, <1>13 DEF SumsUp
  <2>3. \A i \in 1..Len(list) : ~Fanout!Answered(list[i]) BY <1>7, <1>13 DEF SumsUp
  <2>4. \A i \in 1..Len(list) : ~Fanout!Unserved(list[i]) => Fanout!Unsupported(list[i])
    BY <2>3 DEF Fanout!Unserved
  <2>5. CASE sum.firstErr = None /\ \A i \in 1..Len(list) : ~Fanout!Unserved(list[i])
    BY <1>3, <1>5, <1>7, <1>10, <1>11, <1>13, <2>1, <2>2, <2>4, <2>5
  <2>6. CASE \E i \in 1..Len(list) :
               /\ Fanout!Unserved(list[i])
               /\ sum.firstErr = results[list[i]].error /\ sum.firstErr # None
               /\ \A j \in 1..(i - 1) : ~Fanout!Unserved(list[j])
    <3>1. PICK i \in 1..Len(list) :
               /\ Fanout!Unserved(list[i])
               /\ sum.firstErr = results[list[i]].error /\ sum.firstErr # None
               /\ \A j \in 1..(i - 1) : ~Fanout!Unserved(list[j])
      BY <2>6
    <3>2. \A j \in 1..(i - 1) : j \in 1..Len(list) BY <1>5
    <3>3. \A j \in 1..(i - 1) : Fanout!Unsupported(list[j]) BY <2>4, <3>1, <3>2
    <3>4. reply.error = results[list[i]].error BY <2>1, <3>1
    <3> QED BY <1>3, <1>7, <1>10, <1>11, <1>13, <2>1, <2>2, <3>1, <3>3, <3>4
  <2> QED BY <1>7, <2>5, <2>6 DEF SumsUp
<1> QED BY <1>12, <1>13

-----------------------------------------------------------------------------
SecretVersions == Secrets!Ciphertexts \cup {Absent}

(* Scopes are resolved in turn, each once.                                   *)
ResolveTyped ==
  /\ disk \in [Secrets!Stores -> SecretVersions] /\ asked \in [Secrets!Scopes -> Namings]
  /\ alone \in BOOLEAN
  /\ todo \in {<<>>, <<"workspace">>, <<"global">>, <<"workspace", "global">>}
  /\ Secrets!ToSet(todo) \subseteq Secrets!Scopes
  /\ captured \in [Secrets!Scopes -> Seq(SecretVersions)] /\ tried \in Nat
  /\ \A sc \in Secrets!Scopes : Len(captured[sc]) <= Len(StoresOf[sc])
  /\ runs \in [Secrets!Stores \X Secrets!Ciphertexts -> {0, 1}]
  /\ DOMAIN documents \subseteq Secrets!Stores \X Secrets!Ciphertexts
  /\ DOMAIN answer = Secrets!Scopes

(* Nothing of a scope is read or answered before its turn.                   *)
ScopesToCome ==
  /\ \A sc \in Secrets!ToSet(todo) : answer[sc].kind = "none"
  /\ todo # <<>> => \A sc \in Secrets!ToSet(Tail(todo)) : captured[sc] = <<>>

(* Every version that age was run on is a document of the operation, as long *)
(* as the operation goes on.                                                 *)
DecryptedOnce ==
  /\ todo # <<>> =>
       \A d \in Secrets!Stores \X Secrets!Ciphertexts : runs[d] = 1 => d \in DOMAIN documents
  /\ \A d \in DOMAIN documents :
       documents[d] = ContentOf[d[2]] /\ ContentOf[d[2]] # Unreadable

(* Where the resolution of the first scope is.                               *)
ResolveProgress == todo # <<>> =>
  /\ step \in {"begin", "qualify", "capture", "decrypt", "env"}
  /\ step \in {"begin", "qualify", "capture"} => tried = 0 /\ found = Secrets!NoValues
  /\ step = "begin" \/ (step = "qualify" /\ alone) => captured[Secrets!Scope] = <<>>
  /\ step = "decrypt" \/ (step = "qualify" /\ ~alone) =>
       Len(captured[Secrets!Scope]) = Len(StoresOf[Secrets!Scope])
  /\ tried <= Len(captured[Secrets!Scope])
  /\ step = "env" =>
       Secrets!Wanted \subseteq DOMAIN found \/ tried = Len(captured[Secrets!Scope])

(* What was found comes from the strongest store tried that has it.          *)
TriedStores(k) == Secrets!Holding(Secrets!Scope, k) \cap 1..tried
FoundSoFar == todo # <<>> =>
  /\ DOMAIN found = {k \in Secrets!Wanted : TriedStores(k) # {}}
  /\ \A k \in DOMAIN found : \E i \in TriedStores(k) :
       /\ \A j \in TriedStores(k) : i <= j
       /\ found[k] = ContentOf[captured[Secrets!Scope][i]][k]

TrulyReported(sc) ==
  /\ answer[sc].kind = "values" =>
       /\ \A k \in asked[sc] : Secrets!Available(sc, k)
       /\ answer[sc].values = [k \in asked[sc] |-> Secrets!Strongest(sc, k)]
  /\ answer[sc].kind = "missing" =>
       answer[sc].missing = {k \in asked[sc] : ~Secrets!Available(sc, k)}

ResolveInv ==
  /\ ResolveTyped /\ ScopesToCome /\ DecryptedOnce /\ ResolveProgress /\ FoundSoFar
  /\ \A sc \in Secrets!Scopes : TrulyReported(sc)

-----------------------------------------------------------------------------
(* The scopes still to resolve are distinct.                                 *)
LEMMA ScopesDistinct ==
  ASSUME Secrets!SecretsAssumption, ResolveTyped, todo # <<>>
  PROVE  /\ Secrets!Scope \in Secrets!Scopes
         /\ Secrets!Scope \notin Secrets!ToSet(Tail(todo))
         /\ Secrets!ToSet(todo) = {Secrets!Scope} \cup Secrets!ToSet(Tail(todo))
         /\ Tail(todo) \in {<<>>, <<"workspace">>, <<"global">>, <<"workspace", "global">>}
         /\ Tail(todo) # <<>> => Tail(todo) = <<"global">> /\ Tail(Tail(todo)) = <<>>
         /\ Secrets!ToSet(<<>>) = {} /\ Secrets!ToSet(<<"global">>) = {"global"}
         /\ StoresOf[Secrets!Scope] \in Seq(Secrets!ToSet(StoresOf[Secrets!Scope]))
         /\ captured[Secrets!Scope] \in Seq(SecretVersions)
         /\ Len(captured[Secrets!Scope]) \in Nat
<1> USE DEF Secrets!ToSet, Secrets!Scope
<1>1. todo \in {<<"workspace">>, <<"global">>, <<"workspace", "global">>}
  BY DEF ResolveTyped
<1>2. /\ Secrets!ToSet(<<>>) = {} /\ Secrets!ToSet(<<"global">>) = {"global"}
      /\ Secrets!ToSet(<<"workspace">>) = {"workspace"}
      /\ Secrets!ToSet(<<"workspace", "global">>) = {"workspace", "global"}
  OBVIOUS
<1>3. /\ Secrets!Scope \in Secrets!ToSet(todo)
      /\ Secrets!Scope \notin Secrets!ToSet(Tail(todo))
      /\ Secrets!ToSet(todo) = {Secrets!Scope} \cup Secrets!ToSet(Tail(todo))
      /\ Tail(todo) \in {<<>>, <<"global">>}
      /\ Tail(todo) # <<>> => Tail(todo) = <<"global">> /\ Tail(Tail(todo)) = <<>>
  <2>1. CASE todo = <<"workspace">>
    <3>1. Head(todo) = "workspace" /\ Tail(todo) = <<>> BY <2>1
    <3> HIDE DEF Secrets!ToSet
    <3> QED BY <2>1, <3>1, <1>2
  <2>2. CASE todo = <<"global">>
    <3>1. Head(todo) = "global" /\ Tail(todo) = <<>> BY <2>2
    <3> HIDE DEF Secrets!ToSet
    <3> QED BY <2>2, <3>1, <1>2
  <2>3. CASE todo = <<"workspace", "global">>
    <3>1. Head(todo) = "workspace" /\ Tail(todo) = <<"global">> BY <2>3
    <3>2. Tail(<<"global">>) = <<>> OBVIOUS
    <3> HIDE DEF Secrets!ToSet
    <3> QED BY <2>3, <3>1, <3>2, <1>2
  <2> QED BY <1>1, <2>1, <2>2, <2>3
<1>4. Secrets!Scope \in Secrets!Scopes BY <1>3 DEF ResolveTyped
<1>5. StoresOf[Secrets!Scope] \in Seq(Secrets!ToSet(StoresOf[Secrets!Scope]))
  <2> HIDE DEF Secrets!ToSet, Secrets!Scope
  <2> QED BY <1>4 DEF Secrets!SecretsAssumption, Secrets!Scopes
<1>6. captured[Secrets!Scope] \in Seq(SecretVersions) /\ Len(captured[Secrets!Scope]) \in Nat
  <2> HIDE DEF Secrets!ToSet, Secrets!Scope
  <2>1. captured[Secrets!Scope] \in Seq(SecretVersions) BY <1>4 DEF ResolveTyped
  <2> QED BY <2>1
<1> HIDE DEF Secrets!ToSet, Secrets!Scope
<1> QED BY <1>2, <1>3, <1>4, <1>5, <1>6

(* A report speaks of what was read for its own scope.                       *)
LEMMA ReportStays ==
  ASSUME NEW sc, TrulyReported(sc), asked' = asked, answer'[sc] = answer[sc],
         captured'[sc] = captured[sc]
  PROVE  TrulyReported(sc)'
<1>1. \A k : Secrets!Holding(sc, k)' = Secrets!Holding(sc, k) BY DEF Secrets!Holding
<1>2. \A k : /\ Secrets!Available(sc, k)' = Secrets!Available(sc, k)
             /\ Secrets!Strongest(sc, k)' = Secrets!Strongest(sc, k)
  BY <1>1 DEF Secrets!Available, Secrets!Strongest
<1> DEFINE values == [k \in asked[sc] |-> Secrets!Strongest(sc, k)]
           missing == {k \in asked[sc] : ~Secrets!Available(sc, k)}
<1>3. values' = values /\ missing' = missing BY <1>2
<1>4. /\ answer[sc].kind = "values" =>
           (\A k \in asked[sc] : Secrets!Available(sc, k)) /\ answer[sc].values = values
      /\ answer[sc].kind = "missing" => answer[sc].missing = missing
  BY DEF TrulyReported
<1> HIDE DEF values, missing
<1>5. /\ answer'[sc].kind = "values" =>
           (\A k \in asked'[sc] : Secrets!Available(sc, k)') /\ answer'[sc].values = values'
      /\ answer'[sc].kind = "missing" => answer'[sc].missing = missing'
  BY <1>2, <1>3, <1>4
<1> QED BY <1>5 DEF TrulyReported, values, missing

LEMMA ResolveInit == ASSUME Secrets!SecretsAssumption, Secrets!Init PROVE ResolveInv
<1> USE DEF Secrets!Init
<1>1. Secrets!Scopes \in SUBSET {"workspace", "global"} /\ Secrets!Scopes # {}
  BY DEF Secrets!SecretsAssumption, Secrets!Scopes
<1>2. /\ todo \in {<<"workspace">>, <<"global">>, <<"workspace", "global">>}
      /\ Secrets!ToSet(todo) \subseteq Secrets!Scopes
  <2>1. /\ Secrets!ToSet(<<"global">>) = {"global"}
        /\ Secrets!ToSet(<<"workspace">>) = {"workspace"}
        /\ Secrets!ToSet(<<"workspace", "global">>) = {"workspace", "global"}
    BY DEF Secrets!ToSet
  <2> QED BY <1>1, <2>1
<1>3. ResolveTyped
  <2>1. captured \in [Secrets!Scopes -> Seq(SecretVersions)] OBVIOUS
  <2>2. \A sc \in Secrets!Scopes : Len(captured[sc]) = 0 OBVIOUS
  <2>3. \A sc \in Secrets!Scopes : Len(StoresOf[sc]) \in Nat
    BY DEF Secrets!SecretsAssumption, Secrets!Scopes
  <2>4. \A sc \in Secrets!Scopes : Len(captured[sc]) <= Len(StoresOf[sc]) BY <2>2, <2>3
  <2>5. tried \in Nat /\ DOMAIN documents = {} BY DEF Secrets!NoValues
  <2> QED BY <1>2, <2>1, <2>4, <2>5 DEF ResolveTyped, SecretVersions
<1>4. ScopesToCome
  <2>1. todo # <<>> => Secrets!ToSet(Tail(todo)) \subseteq Secrets!Scopes
    BY <1>3, ScopesDistinct DEF ResolveTyped
  <2> QED BY <1>2, <2>1 DEF ScopesToCome, Secrets!NoAnswer
<1>5. DecryptedOnce BY DEF DecryptedOnce, Secrets!NoValues
<1>6. todo # <<>> => Secrets!Scope \in Secrets!Scopes BY <1>3, ScopesDistinct
<1>7. ResolveProgress BY <1>6 DEF ResolveProgress
<1>8. FoundSoFar BY DEF FoundSoFar, TriedStores, Secrets!NoValues
<1>9. \A sc \in Secrets!Scopes : TrulyReported(sc) BY DEF TrulyReported, Secrets!NoAnswer
<1> QED BY <1>3, <1>4, <1>5, <1>7, <1>8, <1>9 DEF ResolveInv

(* Steps that only go on.                                                    *)
LEMMA ResolveGoesOn ==
  ASSUME Secrets!SecretsAssumption, ResolveInv, Secrets!Begin \/ Secrets!Qualify \/
             Secrets!Captured \/ Secrets!Decrypted \/ Secrets!Update
  PROVE  ResolveInv'
<1> USE DEF ResolveInv
<1>1. /\ UNCHANGED <<asked, alone, todo, captured, documents, runs, found, tried, answer>>
      /\ disk' \in [Secrets!Stores -> SecretVersions]
  BY DEF Secrets!Begin, Secrets!Qualify, Secrets!Captured, Secrets!Decrypted,
         Secrets!Update, Secrets!Goto, Secrets!storeVars, Secrets!inputVars, Secrets!ageVars,
         ResolveTyped, SecretVersions
<1>2. ResolveTyped' BY <1>1 DEF ResolveTyped
<1>3. ScopesToCome' /\ DecryptedOnce' BY <1>1 DEF ScopesToCome, DecryptedOnce
<1>4. FoundSoFar'
  BY <1>1 DEF FoundSoFar, TriedStores, Secrets!Holding, Secrets!Scope, Secrets!Wanted
<1>5. \A sc \in Secrets!Scopes : TrulyReported(sc)' BY <1>1, ReportStays
<1>6. ResolveProgress'
  <2>1. CASE todo = <<>> BY <1>1, <2>1 DEF ResolveProgress
  <2>2. CASE todo # <<>> /\ step' = step
    BY <1>1, <2>2 DEF ResolveProgress, Secrets!Scope, Secrets!Wanted
  <2>3. CASE todo # <<>> /\ (Secrets!Begin \/ Secrets!Qualify)
    BY <1>1, <2>3, ScopesDistinct DEF Secrets!Begin, Secrets!Qualify, Secrets!Goto,
           ResolveProgress, Secrets!Scope, Secrets!Wanted, Secrets!NoValues
  <2>4. CASE todo # <<>> /\ Secrets!Captured
    BY <1>1, <2>4 DEF Secrets!Captured, Secrets!Goto, ResolveProgress, Secrets!Scope,
           Secrets!Wanted
  <2>5. CASE todo # <<>> /\ Secrets!Decrypted
    BY <1>1, <2>5 DEF Secrets!Decrypted, Secrets!Goto, Secrets!Exhausted,
           Secrets!Missing, ResolveProgress, Secrets!Scope, Secrets!Wanted
  <2> QED
    BY <2>1, <2>2, <2>3, <2>4, <2>5 DEF Secrets!Update, Secrets!Begin, Secrets!Qualify,
           Secrets!Captured, Secrets!Decrypted, Secrets!Goto
<1> QED BY <1>2, <1>3, <1>4, <1>5, <1>6

(* A version more of the scope whose turn it is; nothing was answered or     *)
(* found for it yet.                                                         *)
LEMMA ResolveCapture ==
  ASSUME Secrets!SecretsAssumption, ResolveInv, Secrets!Capture
  PROVE  ResolveInv'
<1> USE DEF ResolveInv
<1>1. /\ todo # <<>>
      /\ step = "capture"
      /\ Len(captured[Secrets!Scope]) < Len(StoresOf[Secrets!Scope])
      /\ UNCHANGED <<disk, asked, alone, todo, step, documents, runs, found, tried, answer>>
  BY DEF Secrets!Capture, Secrets!storeVars, Secrets!inputVars, Secrets!ageVars
<1>2. /\ Secrets!Scope \in Secrets!Scopes
      /\ Secrets!Scope \notin Secrets!ToSet(Tail(todo))
      /\ Secrets!ToSet(todo) = {Secrets!Scope} \cup Secrets!ToSet(Tail(todo))
      /\ StoresOf[Secrets!Scope] \in Seq(Secrets!ToSet(StoresOf[Secrets!Scope]))
      /\ captured[Secrets!Scope] \in Seq(SecretVersions)
      /\ Len(captured[Secrets!Scope]) \in Nat
  BY <1>1, ScopesDistinct
<1>3. PICK v \in SecretVersions : captured' = [captured EXCEPT ![Secrets!Scope] = Append(@, v)]
  <2> DEFINE n == Len(captured[Secrets!Scope]) + 1
  <2>1. n \in 1..Len(StoresOf[Secrets!Scope]) BY <1>1, <1>2
  <2>2. StoresOf[Secrets!Scope][n] \in Secrets!ToSet(StoresOf[Secrets!Scope])
    BY <1>2, <2>1 DEF Secrets!ToSet
  <2>3. StoresOf[Secrets!Scope][n] \in Secrets!Stores BY <1>2, <2>2 DEF Secrets!Stores
  <2>4. disk[StoresOf[Secrets!Scope][n]] \in SecretVersions BY <2>3 DEF ResolveTyped
  <2> QED BY <2>4 DEF Secrets!Capture
<1>4. /\ captured' \in [Secrets!Scopes -> Seq(SecretVersions)]
      /\ captured'[Secrets!Scope] = Append(captured[Secrets!Scope], v)
      /\ \A sc \in Secrets!Scopes : sc # Secrets!Scope => captured'[sc] = captured[sc]
  BY <1>2, <1>3 DEF ResolveTyped
<1>5. Len(captured'[Secrets!Scope]) = Len(captured[Secrets!Scope]) + 1 BY <1>2, <1>4
<1>6. ResolveTyped'
  <2>1. Len(StoresOf[Secrets!Scope]) \in Nat BY <1>2
  <2>2. \A sc \in Secrets!Scopes : Len(captured'[sc]) <= Len(StoresOf[sc])
    <3>1. \A sc \in Secrets!Scopes \ {Secrets!Scope} : Len(captured'[sc]) <= Len(StoresOf[sc])
      BY <1>4 DEF ResolveTyped
    <3>2. Len(captured'[Secrets!Scope]) <= Len(StoresOf[Secrets!Scope])
      BY <1>1, <1>2, <1>5, <2>1
    <3> QED BY <3>1, <3>2
  <2> QED BY <1>1, <1>4, <2>2 DEF ResolveTyped
<1>7. ScopesToCome' /\ DecryptedOnce'
  <2>1. Secrets!ToSet(Tail(todo)) \subseteq Secrets!Scopes BY <1>2 DEF ResolveTyped
  <2> QED BY <1>1, <1>2, <1>4, <2>1 DEF ScopesToCome, DecryptedOnce
<1>8. ResolveProgress' /\ FoundSoFar'
  <2>1. tried = 0 /\ found = Secrets!NoValues BY <1>1 DEF ResolveProgress
  <2>2. Secrets!Scope' = Secrets!Scope BY <1>1 DEF Secrets!Scope
  <2>3. ResolveProgress' BY <1>1, <1>2, <1>5, <2>1, <2>2 DEF ResolveProgress
  <2>4. FoundSoFar' BY <1>1, <2>1 DEF FoundSoFar, TriedStores, Secrets!NoValues
  <2> QED BY <2>3, <2>4
<1>9. \A sc \in Secrets!Scopes : TrulyReported(sc)'
  <2>1. answer[Secrets!Scope].kind = "none" BY <1>1, <1>2 DEF ScopesToCome
  <2>2. ASSUME NEW sc \in Secrets!Scopes, sc # Secrets!Scope PROVE TrulyReported(sc)'
    BY <1>1, <1>4, <2>2, ReportStays
  <2> QED BY <1>1, <2>1, <2>2 DEF TrulyReported
<1> QED BY <1>6, <1>7, <1>8, <1>9

(* The scope is answered, truly, and the next one begins.                    *)
LEMMA ResolveAnswer ==
  ASSUME Secrets!SecretsAssumption, ResolveInv, todo # <<>>, NEW given, Secrets!Answer(given),
         UNCHANGED <<disk, asked, alone, captured, documents>>,
         runs' \in [Secrets!Stores \X Secrets!Ciphertexts -> {0, 1}],
         given.kind = "values" =>
           /\ runs' = runs /\
                  \A k \in asked[Secrets!Scope] : Secrets!Available(Secrets!Scope, k)
           /\ given.values = [k \in asked[Secrets!Scope] |->
                  Secrets!Strongest(Secrets!Scope, k)],
         given.kind = "missing" =>
           given.missing = {k \in asked[Secrets!Scope] : ~Secrets!Available(Secrets!Scope, k)}
  PROVE  ResolveInv'
<1> USE DEF ResolveInv
<1>1. /\ Secrets!Scope \in Secrets!Scopes
      /\ Secrets!Scope \notin Secrets!ToSet(Tail(todo))
      /\ Secrets!ToSet(todo) = {Secrets!Scope} \cup Secrets!ToSet(Tail(todo))
      /\ Tail(todo) \in {<<>>, <<"workspace">>, <<"global">>, <<"workspace", "global">>}
      /\ Tail(todo) # <<>> => Tail(todo) = <<"global">> /\ Tail(Tail(todo)) = <<>>
      /\ Secrets!ToSet(<<>>) = {} /\ Secrets!ToSet(<<"global">>) = {"global"}
  BY ScopesDistinct
<1>2. /\ todo' = <<>> \/ (todo' = Tail(todo) /\ given.kind = "values")
      /\ step' = "begin" /\ found' = Secrets!NoValues /\ tried' = 0
      /\ answer' = [answer EXCEPT ![Secrets!Scope] = given]
  BY DEF Secrets!Answer
<1>3. /\ DOMAIN answer' = Secrets!Scopes /\ answer'[Secrets!Scope] = given
      /\ \A sc \in Secrets!Scopes : sc # Secrets!Scope => answer'[sc] = answer[sc]
  BY <1>1, <1>2 DEF ResolveTyped
<1>4. Secrets!ToSet(todo') \subseteq Secrets!ToSet(Tail(todo)) BY <1>1, <1>2
<1>5. ResolveTyped' BY <1>1, <1>2, <1>3, <1>4 DEF ResolveTyped
<1>6. ScopesToCome'
  <2>1. \A sc \in Secrets!ToSet(todo') : answer'[sc].kind = "none"
    <3> TAKE sc \in Secrets!ToSet(todo')
    <3>1. sc \in Secrets!ToSet(todo) /\ sc # Secrets!Scope BY <1>1, <1>4
    <3>2. sc \in Secrets!Scopes /\ answer[sc].kind = "none"
      BY <3>1 DEF ResolveTyped, ScopesToCome
    <3> QED BY <1>3, <3>1, <3>2
  <2>2. todo' # <<>> => Secrets!ToSet(Tail(todo')) = {} BY <1>1, <1>2
  <2> QED BY <2>1, <2>2 DEF ScopesToCome
<1>7. DecryptedOnce' BY <1>2 DEF DecryptedOnce
<1>8. ResolveProgress'
  <2> SUFFICES ASSUME todo' # <<>> PROVE ResolveProgress' BY DEF ResolveProgress
  <2>1. todo' = <<"global">> BY <1>1, <1>2
  <2>0. Secrets!Scope' = "global" BY <2>1 DEF Secrets!Scope
  <2>2. Secrets!Scope' \in Secrets!ToSet(Tail(todo)) /\ Secrets!Scope' \in Secrets!Scopes
    BY <1>1, <1>2, <2>1, <2>0 DEF ResolveTyped
  <2>3. captured'[Secrets!Scope'] = <<>> BY <2>2 DEF ScopesToCome
  <2>4. tried' <= Len(captured'[Secrets!Scope'])
    <3>1. Len(<<>>) = 0 OBVIOUS
    <3> QED BY <1>2, <2>3, <3>1
  <2> QED BY <1>2, <2>3, <2>4 DEF ResolveProgress
<1>9. FoundSoFar' BY <1>2 DEF FoundSoFar, TriedStores, Secrets!NoValues
<1>10. \A sc \in Secrets!Scopes : TrulyReported(sc)'
  <2>1. ASSUME NEW sc \in Secrets!Scopes, sc # Secrets!Scope PROVE TrulyReported(sc)'
    BY <1>3, <2>1, ReportStays
  <2>2. ASSUME NEW sc \in Secrets!Scopes, sc = Secrets!Scope PROVE TrulyReported(sc)'
    <3>1. \A k : Secrets!Holding(sc, k)' = Secrets!Holding(sc, k) BY DEF Secrets!Holding
    <3>2. \A k : /\ Secrets!Available(sc, k)' = Secrets!Available(sc, k)
                 /\ Secrets!Strongest(sc, k)' = Secrets!Strongest(sc, k)
      BY <3>1 DEF Secrets!Available, Secrets!Strongest
    <3> DEFINE values == [k \in asked[sc] |-> Secrets!Strongest(sc, k)]
               missing == {k \in asked[sc] : ~Secrets!Available(sc, k)}
    <3>3. values' = values /\ missing' = missing BY <3>2
    <3>4. /\ given.kind = "values" =>
               (\A k \in asked[sc] : Secrets!Available(sc, k)) /\ given.values = values
          /\ given.kind = "missing" => given.missing = missing
      BY <2>2
    <3> HIDE DEF values, missing
    <3>5. /\ answer'[sc].kind = "values" =>
               (\A k \in asked'[sc] : Secrets!Available(sc, k)') /\ answer'[sc].values = values'
          /\ answer'[sc].kind = "missing" => answer'[sc].missing = missing'
      BY <1>3, <2>2, <3>2, <3>3, <3>4
    <3> QED BY <3>5 DEF TrulyReported, values, missing
  <2> QED BY <2>1, <2>2
<1> QED BY <1>5, <1>6, <1>7, <1>8, <1>9, <1>10

(* The next store of the candidates is gone through.                         *)
LEMMA StoreRead ==
  ASSUME Secrets!SecretsAssumption, ResolveInv, todo # <<>>, step = "decrypt",
             ~Secrets!Exhausted
  PROVE  /\ Secrets!Scope \in Secrets!Scopes
         /\ Len(captured[Secrets!Scope]) \in Nat
         /\ tried \in Nat
         /\ tried + 1 \in 1..Len(captured[Secrets!Scope])
         /\ Secrets!Version \in SecretVersions /\ Secrets!Store \in Secrets!Stores
<1> USE DEF ResolveInv
<1>1. /\ Secrets!Scope \in Secrets!Scopes
      /\ StoresOf[Secrets!Scope] \in Seq(Secrets!ToSet(StoresOf[Secrets!Scope]))
      /\ captured[Secrets!Scope] \in Seq(SecretVersions)
      /\ Len(captured[Secrets!Scope]) \in Nat
      /\ tried \in Nat
  BY ScopesDistinct DEF ResolveTyped
<1>2. Len(captured[Secrets!Scope]) = Len(StoresOf[Secrets!Scope]) /\
          tried <= Len(captured[Secrets!Scope])
  BY DEF ResolveProgress
<1>3. tried # Len(captured[Secrets!Scope]) BY <1>2 DEF Secrets!Exhausted
<1>4. tried + 1 \in 1..Len(captured[Secrets!Scope]) BY <1>1, <1>2, <1>3
<1>5. Secrets!Version \in SecretVersions BY <1>1, <1>4 DEF Secrets!Version
<1>6. Secrets!Store \in Secrets!ToSet(StoresOf[Secrets!Scope])
  BY <1>1, <1>2, <1>4 DEF Secrets!Store, Secrets!ToSet
<1>7. Secrets!Store \in Secrets!Stores BY <1>1, <1>6 DEF Secrets!Stores
<1> QED BY <1>1, <1>4, <1>5, <1>7

(* A store that does not exist has nothing.                                  *)
LEMMA ResolveSkip ==
  ASSUME Secrets!SecretsAssumption, ResolveInv, Secrets!Skip
  PROVE  ResolveInv'
<1> USE DEF ResolveInv
<1>1. /\ todo # <<>> /\ step = "decrypt" /\ ~Secrets!Exhausted /\ Secrets!Version = Absent
      /\ step' = "decrypt" /\ tried' = tried + 1
      /\ UNCHANGED <<disk, asked, alone, todo, captured, documents, runs, found, answer>>
  BY DEF Secrets!Skip, Secrets!Goto, Secrets!storeVars, Secrets!inputVars, Secrets!ageVars
<1>2. /\ Secrets!Scope \in Secrets!Scopes
      /\ Len(captured[Secrets!Scope]) \in Nat
      /\ tried \in Nat
      /\ tried + 1 \in 1..Len(captured[Secrets!Scope])
  BY <1>1, StoreRead
<1>3. ResolveTyped' BY <1>1, <1>2 DEF ResolveTyped
<1>4. ScopesToCome' /\ DecryptedOnce' BY <1>1 DEF ScopesToCome, DecryptedOnce
<1>5. Secrets!Scope' = Secrets!Scope /\ Secrets!Wanted' = Secrets!Wanted
  BY <1>1 DEF Secrets!Scope, Secrets!Wanted
<1>6. ResolveProgress' BY <1>1, <1>2, <1>5 DEF ResolveProgress
<1>7. \A k : TriedStores(k)' = TriedStores(k)
  <2>1. \A k : Secrets!Holding(Secrets!Scope, k)' = Secrets!Holding(Secrets!Scope, k)
    BY <1>1, <1>5 DEF Secrets!Holding
  <2>2. \A k : tried + 1 \notin Secrets!Holding(Secrets!Scope, k)
    BY <1>1 DEF Secrets!Holding, Secrets!Version
  <2>3. 1..(tried + 1) = 1..tried \cup {tried + 1} BY <1>2
  <2> QED BY <1>1, <2>1, <2>2, <2>3 DEF TriedStores
<1>8. FoundSoFar'
  <2>1. DOMAIN found = {k \in Secrets!Wanted : TriedStores(k) # {}} BY <1>1 DEF FoundSoFar
  <2>2. DOMAIN found' = {k \in Secrets!Wanted : TriedStores(k)' # {}} BY <1>1, <1>7, <2>1
  <2> QED BY <1>1, <1>5, <1>7, <2>2 DEF FoundSoFar
<1>9. \A sc \in Secrets!Scopes : TrulyReported(sc)' BY <1>1, ReportStays
<1> QED BY <1>3, <1>4, <1>6, <1>8, <1>9

(* Of a document, what no stronger store has is taken.                       *)
LEMMA ResolveTake ==
  ASSUME Secrets!SecretsAssumption, ResolveInv, todo # <<>>, step = "decrypt",
             ~Secrets!Exhausted,
         Secrets!Version # Absent, ContentOf[Secrets!Version] # Unreadable,
         Secrets!TakeFrom(ContentOf[Secrets!Version])
  PROVE  ResolveProgress' /\ FoundSoFar' /\ \A sc \in Secrets!Scopes : TrulyReported(sc)'
<1> USE DEF ResolveInv
<1>1. /\ tried' = tried + 1
      /\ found' = [k \in DOMAIN found \cup (Secrets!Missing \cap DOMAIN ContentOf[Secrets!Version]) |->
                     IF k \in DOMAIN found THEN found[k] ELSE ContentOf[Secrets!Version][k]]
      /\ UNCHANGED <<disk, asked, alone, todo, step, captured, answer>>
  BY DEF Secrets!TakeFrom, Secrets!storeVars, Secrets!inputVars
<1>2. /\ Secrets!Scope \in Secrets!Scopes
      /\ Len(captured[Secrets!Scope]) \in Nat
      /\ tried \in Nat
      /\ tried + 1 \in 1..Len(captured[Secrets!Scope])
  BY StoreRead
<1>3. Secrets!Scope' = Secrets!Scope /\ Secrets!Wanted' = Secrets!Wanted
  BY <1>1 DEF Secrets!Scope, Secrets!Wanted
<1>4. ResolveProgress' BY <1>1, <1>2, <1>3 DEF ResolveProgress
<1>5. \A k : /\ tried + 1 \notin TriedStores(k) /\ \A j \in TriedStores(k) : j < tried + 1
             /\ TriedStores(k)' = IF k \in DOMAIN ContentOf[Secrets!Version] THEN TriedStores(k) \cup {tried + 1}
                            ELSE TriedStores(k)
  <2>1. \A k : Secrets!Holding(Secrets!Scope, k)' = Secrets!Holding(Secrets!Scope, k)
    BY <1>1, <1>3 DEF Secrets!Holding
  <2>2. \A k : tried + 1 \in Secrets!Holding(Secrets!Scope, k) <=>
            k \in DOMAIN ContentOf[Secrets!Version]
    BY <1>2 DEF Secrets!Holding, Secrets!Version
  <2>3. 1..(tried + 1) = 1..tried \cup {tried + 1} BY <1>2
  <2>4. tried + 1 \notin 1..tried /\ \A j \in 1..tried : j < tried + 1 BY <1>2
  <2> QED BY <1>1, <2>1, <2>2, <2>3, <2>4 DEF TriedStores
<1>6. FoundSoFar'
  <2>1. DOMAIN found' = DOMAIN found \cup (Secrets!Missing \cap DOMAIN ContentOf[Secrets!Version])
    BY <1>1
  <2>2. DOMAIN found = {k \in Secrets!Wanted : TriedStores(k) # {}} BY DEF FoundSoFar
  <2>3. Secrets!Missing = {k \in Secrets!Wanted : TriedStores(k) = {}}
    BY <2>2 DEF Secrets!Missing
  <2>4. DOMAIN found' = {k \in Secrets!Wanted : TriedStores(k)' # {}}
    BY <1>5, <2>1, <2>2, <2>3
  <2>5. ASSUME NEW k \in DOMAIN found'
        PROVE  \E i \in TriedStores(k)' : /\ \A j \in TriedStores(k)' : i <= j
                                    /\ found'[k] = ContentOf[captured'[Secrets!Scope'][i]][k]
    <3>1. CASE k \in DOMAIN found
      <4>1. PICK i \in TriedStores(k) : /\ \A j \in TriedStores(k) : i <= j
                                  /\ found[k] = ContentOf[captured[Secrets!Scope][i]][k]
        BY <3>1 DEF FoundSoFar
      <4>2. i \in TriedStores(k)' BY <1>5
      <4>2a. i \in Nat /\ i < tried + 1 BY <1>2, <1>5 DEF TriedStores
      <4>2b. i <= tried + 1 BY <1>2, <4>2a
      <4>3. \A j \in TriedStores(k)' : i <= j BY <1>5, <4>1, <4>2b
      <4>4. found'[k] = found[k] BY <1>1, <3>1
      <4> QED BY <1>1, <1>3, <4>1, <4>2, <4>3, <4>4
    <3>2. CASE k \notin DOMAIN found
      <4>1. k \in Secrets!Missing /\ k \in DOMAIN ContentOf[Secrets!Version] BY <2>1, <3>2
      <4>2. TriedStores(k) = {} BY <2>3, <4>1
      <4>3. TriedStores(k)' = {tried + 1} BY <1>5, <4>1, <4>2
      <4>4. found'[k] = ContentOf[Secrets!Version][k] BY <1>1, <3>2
      <4>5. Secrets!Version = captured'[Secrets!Scope'][tried + 1]
        BY <1>1, <1>3 DEF Secrets!Version
      <4>6. tried + 1 <= tried + 1 BY <1>2
      <4> QED BY <4>3, <4>4, <4>5, <4>6
    <3> QED BY <3>1, <3>2
  <2> QED BY <1>1, <1>3, <2>4, <2>5 DEF FoundSoFar
<1>7. \A sc \in Secrets!Scopes : TrulyReported(sc)' BY <1>1, ReportStays
<1> QED BY <1>4, <1>6, <1>7

LEMMA ResolveRecall ==
  ASSUME Secrets!SecretsAssumption, ResolveInv, Secrets!Recall
  PROVE  ResolveInv'
<1> USE DEF ResolveInv
<1> DEFINE d == <<Secrets!Store, Secrets!Version>>
<1>1. /\ todo # <<>> /\ step = "decrypt" /\ ~Secrets!Exhausted /\ Secrets!Version # Absent
      /\ d \in DOMAIN documents /\ Secrets!TakeFrom(documents[d])
      /\ UNCHANGED <<documents, runs>>
  BY DEF Secrets!Recall, Secrets!DocumentKey, Secrets!ageVars
<1>2. documents[d] = ContentOf[Secrets!Version] /\ ContentOf[Secrets!Version] # Unreadable
  BY <1>1 DEF DecryptedOnce
<1>3. ResolveProgress' /\ FoundSoFar' /\ \A sc \in Secrets!Scopes : TrulyReported(sc)'
  BY <1>1, <1>2, ResolveTake
<1>4. /\ UNCHANGED <<disk, asked, alone, todo, step, captured, answer>>
      /\ tried \in Nat /\ tried' = tried + 1
  BY <1>1, StoreRead DEF Secrets!TakeFrom, Secrets!storeVars, Secrets!inputVars
<1>5. ResolveTyped' BY <1>1, <1>4 DEF ResolveTyped
<1>6. ScopesToCome' /\ DecryptedOnce' BY <1>1, <1>4 DEF ScopesToCome, DecryptedOnce
<1> QED BY <1>3, <1>5, <1>6

(* What is decrypted was not decrypted before.                               *)
LEMMA ResolveDecrypt ==
  ASSUME Secrets!SecretsAssumption, ResolveInv, Secrets!Decrypt
  PROVE  ResolveInv'
<1> USE DEF ResolveInv
<1> DEFINE d == <<Secrets!Store, Secrets!Version>>
<1>1. /\ todo # <<>> /\ step = "decrypt" /\ ~Secrets!Exhausted /\ Secrets!Version # Absent
      /\ d \notin DOMAIN documents /\ runs' = [runs EXCEPT ![d] = @ + 1]
  BY DEF Secrets!Decrypt, Secrets!DocumentKey
<1>2. d \in Secrets!Stores \X Secrets!Ciphertexts /\ tried \in Nat
  BY <1>1, StoreRead DEF SecretVersions
<1>3. runs[d] = 0 BY <1>1, <1>2 DEF DecryptedOnce, ResolveTyped
<1>4. /\ runs' \in [Secrets!Stores \X Secrets!Ciphertexts -> {0, 1}]
      /\ \A e \in Secrets!Stores \X Secrets!Ciphertexts : e # d => runs'[e] = runs[e]
  BY <1>1, <1>2, <1>3 DEF ResolveTyped
<1>5. CASE ContentOf[Secrets!Version] # Unreadable
  <2>1. /\ documents' = [e \in DOMAIN documents \cup {d} |->
                            IF e \in DOMAIN documents THEN documents[e]
                                ELSE ContentOf[Secrets!Version]]
        /\ Secrets!TakeFrom(ContentOf[Secrets!Version])
    BY <1>5 DEF Secrets!Decrypt, Secrets!DocumentKey
  <2>2. ResolveProgress' /\ FoundSoFar' /\ \A sc \in Secrets!Scopes : TrulyReported(sc)'
    BY <1>1, <1>5, <2>1, ResolveTake
  <2>3. /\ UNCHANGED <<disk, asked, alone, todo, step, captured, answer>>
        /\ tried' = tried + 1
    BY <2>1 DEF Secrets!TakeFrom, Secrets!storeVars, Secrets!inputVars
  <2>4. ResolveTyped' BY <1>2, <1>4, <2>1, <2>3 DEF ResolveTyped
  <2>5. ScopesToCome' BY <2>3 DEF ScopesToCome
  <2>6. DecryptedOnce'
    <3>1. \A e \in DOMAIN documents' :
            documents'[e] = ContentOf[e[2]] /\ ContentOf[e[2]] # Unreadable
      BY <1>5, <2>1 DEF DecryptedOnce
    <3>2. \A e \in Secrets!Stores \X Secrets!Ciphertexts : runs'[e] = 1 =>
              e \in DOMAIN documents'
      BY <1>1, <1>4, <2>1 DEF DecryptedOnce
    <3> QED BY <3>1, <3>2 DEF DecryptedOnce
  <2> QED BY <2>2, <2>4, <2>5, <2>6
<1>6. CASE ContentOf[Secrets!Version] = Unreadable
  <2> DEFINE given == [kind |-> "error"]
  <2>1. Secrets!Answer(given) /\ UNCHANGED <<disk, asked, alone, captured, documents>>
    BY <1>6 DEF Secrets!Decrypt, Secrets!storeVars, Secrets!inputVars
  <2>2. given.kind = "error" OBVIOUS
  <2> HIDE DEF given, ResolveInv
  <2> QED BY <1>1, <1>4, <2>1, <2>2, ResolveAnswer
<1> QED BY <1>5, <1>6

LEMMA ResolveFail ==
  ASSUME Secrets!SecretsAssumption, ResolveInv, Secrets!Fail
  PROVE  ResolveInv'
<1> DEFINE given == [kind |-> "error"]
<1>1. /\ todo # <<>> /\ Secrets!Answer(given)
      /\ UNCHANGED <<disk, asked, alone, captured, documents, runs>>
  BY DEF Secrets!Fail, Secrets!storeVars, Secrets!inputVars, Secrets!ageVars
<1>2. given.kind = "error" OBVIOUS
<1>3. runs' \in [Secrets!Stores \X Secrets!Ciphertexts -> {0, 1}]
  BY <1>1 DEF ResolveInv, ResolveTyped
<1> HIDE DEF given
<1> QED BY <1>1, <1>2, <1>3, ResolveAnswer

(* Everything is there, each value from the strongest store that has it, or  *)
(* what is missing is named.                                                 *)
LEMMA FoundIsStrongest ==
  ASSUME Secrets!SecretsAssumption, ResolveInv, todo # <<>>, step = "env",
             NEW k \in Secrets!Wanted
  PROVE  /\ k \in DOMAIN found <=> Secrets!Available(Secrets!Scope, k)
         /\ k \in DOMAIN found => found[k] = Secrets!Strongest(Secrets!Scope, k)
<1> USE DEF ResolveInv
<1>0. /\ Secrets!Scope \in Secrets!Scopes
      /\ captured[Secrets!Scope] \in Seq(SecretVersions)
      /\ Len(captured[Secrets!Scope]) \in Nat /\ tried \in Nat
  BY ScopesDistinct DEF ResolveTyped
<1>1. k \in AgeKeys /\ k \notin EnvNames BY DEF Secrets!Wanted, Secrets!SecretsAssumption
<1>2. Secrets!Holding(Secrets!Scope, k) \subseteq 1..Len(captured[Secrets!Scope])
  BY DEF Secrets!Holding
<1>3. k \in DOMAIN found <=> TriedStores(k) # {} BY DEF FoundSoFar
<1>4. tried <= Len(captured[Secrets!Scope]) BY DEF ResolveProgress
<1>5. CASE k \in DOMAIN found
  <2>1. PICK i \in TriedStores(k) : /\ \A j \in TriedStores(k) : i <= j
                              /\ found[k] = ContentOf[captured[Secrets!Scope][i]][k]
    BY <1>5 DEF FoundSoFar
  <2>2. i \in Secrets!Holding(Secrets!Scope, k) /\ i \in Nat /\ i <= tried
    BY <1>0, <2>1 DEF TriedStores
  <2>3. \A j \in Secrets!Holding(Secrets!Scope, k) : i <= j
    <3> TAKE j \in Secrets!Holding(Secrets!Scope, k)
    <3>1. j \in Nat /\ 1 <= j BY <1>0, <1>2
    <3>2. CASE j <= tried BY <1>0, <2>1, <3>1, <3>2 DEF TriedStores
    <3>3. CASE ~ (j <= tried) BY <1>0, <2>2, <3>1, <3>3
    <3> QED BY <3>2, <3>3
  <2>4. Secrets!Min(Secrets!Holding(Secrets!Scope, k)) = i
    <3>1. Secrets!Holding(Secrets!Scope, k) \subseteq Nat BY <1>0, <1>2
    <3>2. \A j \in Secrets!Holding(Secrets!Scope, k) :
            (\A l \in Secrets!Holding(Secrets!Scope, k) : j <= l) => j = i
      BY <2>2, <2>3, <3>1
    <3> QED BY <2>2, <2>3, <3>2 DEF Secrets!Min
  <2> QED BY <1>1, <1>5, <2>1, <2>2, <2>4 DEF Secrets!Available, Secrets!Strongest
<1>6. CASE k \notin DOMAIN found
  <2>1. tried = Len(captured[Secrets!Scope]) BY <1>6 DEF ResolveProgress
  <2>2. Secrets!Holding(Secrets!Scope, k) = {} BY <1>2, <1>3, <1>6, <2>1 DEF TriedStores
  <2> QED BY <1>1, <1>6, <2>2 DEF Secrets!Available
<1> QED BY <1>5, <1>6

LEMMA ResolveComplete ==
  ASSUME Secrets!SecretsAssumption, ResolveInv, Secrets!Complete
  PROVE  ResolveInv'
<1> DEFINE all == [k \in DOMAIN found \cup (Secrets!Named \cap DOMAIN Environment) |->
                     IF k \in DOMAIN found THEN found[k] ELSE Environment[k]]
           absent == asked[Secrets!Scope] \ DOMAIN all
           given == IF absent = {} THEN [kind |-> "values", values |-> all]
                    ELSE [kind |-> "missing", missing |-> absent]
<1>1. /\ todo # <<>> /\ step = "env" /\ Secrets!Answer(given)
      /\ UNCHANGED <<disk, asked, alone, captured, documents, runs>>
  BY DEF Secrets!Complete, Secrets!storeVars, Secrets!inputVars, Secrets!ageVars
<1>2. Secrets!Scope \in Secrets!Scopes BY <1>1, ScopesDistinct DEF ResolveInv
<1>3. asked[Secrets!Scope] = Secrets!Wanted \cup Secrets!Named
  <2>1. asked[Secrets!Scope] \in Namings BY <1>2 DEF ResolveInv, ResolveTyped
  <2> QED BY <2>1 DEF Secrets!SecretsAssumption, Secrets!Wanted, Secrets!Named
<1>4. DOMAIN found \subseteq Secrets!Wanted BY <1>1 DEF ResolveInv, FoundSoFar
<1>5. \A k \in asked[Secrets!Scope] :
        /\ k \in DOMAIN all =>
               Secrets!Available(Secrets!Scope, k) /\ all[k] = Secrets!Strongest(Secrets!Scope, k)
        /\ k \notin DOMAIN all => ~Secrets!Available(Secrets!Scope, k)
  <2> TAKE k \in asked[Secrets!Scope]
  <2>1. CASE k \in Secrets!Wanted
    <3>1. k \notin Secrets!Named
      BY <2>1 DEF Secrets!SecretsAssumption, Secrets!Wanted, Secrets!Named
    <3>2. k \in DOMAIN all <=> k \in DOMAIN found BY <3>1
    <3>3. k \in DOMAIN found => all[k] = found[k] OBVIOUS
    <3> QED BY <1>1, <2>1, <3>2, <3>3, FoundIsStrongest
  <2>2. CASE k \in Secrets!Named
    <3>1. k \notin Secrets!Wanted /\ k \in EnvNames
      BY <2>2 DEF Secrets!SecretsAssumption, Secrets!Wanted, Secrets!Named
    <3>2. k \notin DOMAIN found BY <1>4, <3>1
    <3> QED BY <2>2, <3>1, <3>2 DEF Secrets!Available, Secrets!Strongest
  <2> QED BY <1>3, <2>1, <2>2
<1>6. DOMAIN all \subseteq asked[Secrets!Scope] BY <1>3, <1>4
<1>7. absent = {k \in asked[Secrets!Scope] : ~Secrets!Available(Secrets!Scope, k)}
  <2> HIDE DEF all
  <2> QED BY <1>5
<1>8. given.kind = "values" =>
        /\ \A k \in asked[Secrets!Scope] : Secrets!Available(Secrets!Scope, k)
        /\ given.values = [k \in asked[Secrets!Scope] |-> Secrets!Strongest(Secrets!Scope, k)]
  <2> SUFFICES ASSUME absent = {}
               PROVE  /\ \A k \in asked[Secrets!Scope] : Secrets!Available(Secrets!Scope, k)
                      /\ all = [k \in asked[Secrets!Scope] |->
                             Secrets!Strongest(Secrets!Scope, k)]
    OBVIOUS
  <2>1. DOMAIN all = asked[Secrets!Scope] BY <1>6
  <2>2. all = [k \in DOMAIN all |-> all[k]] OBVIOUS
  <2> HIDE DEF all
  <2>3. \A k \in asked[Secrets!Scope] : Secrets!Available(Secrets!Scope, k) /\
            all[k] = Secrets!Strongest(Secrets!Scope, k)
    BY <1>5, <2>1
  <2>4. all = [k \in asked[Secrets!Scope] |-> all[k]] BY <2>1, <2>2
  <2> QED BY <2>3, <2>4
<1>9. given.kind = "missing" =>
          given.missing = {k \in asked[Secrets!Scope] : ~Secrets!Available(Secrets!Scope, k)}
  BY <1>7
<1>10. runs' = runs /\ runs' \in [Secrets!Stores \X Secrets!Ciphertexts -> {0, 1}]
  BY <1>1 DEF ResolveInv, ResolveTyped
<1> HIDE DEF given, ResolveInv
<1> QED BY <1>1, <1>8, <1>9, <1>10, ResolveAnswer

LEMMA ResolveStep ==
  ASSUME Secrets!SecretsAssumption, ResolveInv, [Secrets!Next]_(Secrets!vars)
  PROVE  ResolveInv'
<1>1. CASE Secrets!Begin \/ Secrets!Qualify \/ Secrets!Captured \/ Secrets!Decrypted \/
          Secrets!Update
  BY <1>1, ResolveGoesOn
<1>2. CASE Secrets!Capture BY <1>2, ResolveCapture
<1>3. CASE Secrets!Skip BY <1>3, ResolveSkip
<1>4. CASE Secrets!Recall BY <1>4, ResolveRecall
<1>5. CASE Secrets!Decrypt BY <1>5, ResolveDecrypt
<1>6. CASE Secrets!Complete BY <1>6, ResolveComplete
<1>7. CASE Secrets!Fail BY <1>7, ResolveFail
<1>8. CASE UNCHANGED Secrets!vars
  <2>1. UNCHANGED <<disk, asked, alone, todo, step, captured, documents, runs, found, tried,
                    answer>>
    BY <1>8 DEF Secrets!vars, Secrets!storeVars, Secrets!inputVars, Secrets!ageVars
  <2>2. ResolveTyped' BY <2>1 DEF ResolveInv, ResolveTyped
  <2>3. ScopesToCome' /\ DecryptedOnce'
    BY <2>1 DEF ResolveInv, ScopesToCome, DecryptedOnce
  <2>4. ResolveProgress'
    BY <2>1 DEF ResolveInv, ResolveProgress, Secrets!Scope, Secrets!Wanted
  <2>5. FoundSoFar'
    BY <2>1 DEF ResolveInv, FoundSoFar, TriedStores, Secrets!Holding, Secrets!Scope,
           Secrets!Wanted
  <2>6. \A sc \in Secrets!Scopes : TrulyReported(sc)' BY <2>1, ReportStays DEF ResolveInv
  <2> QED BY <2>2, <2>3, <2>4, <2>5, <2>6 DEF ResolveInv
<1> QED BY <1>1, <1>2, <1>3, <1>4, <1>5, <1>6, <1>7, <1>8 DEF Secrets!Next

-----------------------------------------------------------------------------
(* The scenes.  A step of one leaves the others as they are, so a behaviour  *)
(* that begins with a scene is one of its module.                            *)
LEMMA SceneStays == ASSUME [Next]_vars PROVE scene' = scene
  BY DEF Next, vars

LEMMA TrustScene == Spec => (scene = "trust" => Trust!Spec)
<1>1. Init /\ scene = "trust" => Trust!Init BY DEF Init
<1>2. [Next]_vars => [Trust!Next]_(Trust!vars)
  BY DEF Next, vars, TrustVars, Trust!vars, Trust!trustVars, Trust!callVars
<1> QED BY <1>1, <1>2, PTL DEF Spec, Trust!Spec

LEMMA ConfigScene == Spec => (scene = "config" => Configuring!Spec)
<1>1. Init /\ scene = "config" => Configuring!Init BY DEF Init
<1>2. [Next]_vars => [Configuring!Next]_(Configuring!vars)
  BY DEF Next, vars, ComposingVars, Configuring!vars
<1> QED BY <1>1, <1>2, PTL DEF Spec, Configuring!Spec

LEMMA ReuseScene == Spec => (scene = "reuse" => Configuring!Reuse!Spec)
<1>1. Init /\ scene = "reuse" => Configuring!Reuse!Init BY DEF Init
<1>2. [Next]_vars => [Configuring!Reuse!Next]_(Configuring!Reuse!vars)
  BY DEF Next, vars, ReuseVars, Configuring!Reuse!vars, Configuring!Reuse!poolVars,
         Configuring!Reuse!daemonVars, Configuring!Reuse!fileVars,
         Configuring!Reuse!requestVars
<1> QED BY <1>1, <1>2, PTL DEF Spec, Configuring!Reuse!Spec

LEMMA SecretsScene == Spec => (scene = "secrets" => Secrets!Spec)
<1>1. Init /\ scene = "secrets" => Secrets!Init BY DEF Init
<1>2. [Next]_vars => [Secrets!Next]_(Secrets!vars)
  BY DEF Next, vars, SecretsVars, Secrets!vars, Secrets!storeVars, Secrets!inputVars,
         Secrets!ageVars
<1> QED BY <1>1, <1>2, PTL DEF Spec, Secrets!Spec

LEMMA FanoutScene == Spec => (scene = "fanout" => Fanout!Spec)
<1>1. Init /\ scene = "fanout" => Fanout!Init BY DEF Init
<1>2. [Next]_vars => [Fanout!Next]_(Fanout!vars)
  BY DEF Next, vars, FanoutVars, Fanout!vars, Fanout!setupVars, Fanout!workVars
<1> QED BY <1>1, <1>2, PTL DEF Spec, Fanout!Spec

LEMMA RedactingScene == Spec => (scene = "redaction" => Redacting!Spec)
<1>1. Init /\ scene = "redaction" => Redacting!Init BY DEF Init
<1>2. [Next]_vars => [Redacting!Next]_(Redacting!vars)
  BY DEF Next, vars, RedactingVars, Redacting!vars
<1> QED BY <1>1, <1>2, PTL DEF Spec, Redacting!Spec

LEMMA CallbackScene == Spec => (scene = "callback" => Callback!Spec)
<1>1. Init /\ scene = "callback" => Callback!Init BY DEF Init
<1>2. [Next]_vars => [Callback!Next]_(Callback!vars)
  BY DEF Next, vars, CallbackVars, Callback!vars, Callback!flowVars, Callback!channelVars
<1> QED BY <1>1, <1>2, PTL DEF Spec, Callback!Spec

(* What a trust command reported stands until a contrary command on the same *)
(* directory is begun, unless one overlapped it (discovery.update).          *)
THEOREM ReportedTrustStands == Spec => []AcknowledgedStands
<1>1. Trust!Spec => []Trust!AcknowledgedStands
  <2>1. Trust!Init => TrustInv BY ConstantsAssumption, TrustInit
  <2>2. TrustInv /\ [Trust!Next]_(Trust!vars) => TrustInv'
    BY ConstantsAssumption, TrustStep
  <2>3. TrustInv => Trust!AcknowledgedStands BY DEF TrustInv
  <2> QED BY <2>1, <2>2, <2>3, PTL DEF Trust!Spec
<1>2. ~ (scene = "trust") /\ [Next]_vars => ~ (scene = "trust")' BY SceneStays
<1> QED BY <1>1, <1>2, TrustScene, PTL DEF Spec, AcknowledgedStands

(* Whatever files are accepted, in whatever order their definitions and       *)
(* fields repeat each other: what is composed of them is what the file format *)
(* documents, the nearest file that says something being the one heard, and a *)
(* server expanded for an invocation holds no template (Compose,              *)
(* materializeServer).                                                        *)
THEOREM ConfigurationsAsDocumented == Spec => []ComposedAsDocumented
<1>1. Configuring!Spec => []Configuring!ComposedAsDocumented
  BY Configuring!AlwaysComposedAsDocumented, ConstantsAssumption
<1>2. ~ (scene = "config") /\ [Next]_vars => ~ (scene = "config")' BY SceneStays
<1> QED BY <1>1, <1>2, ConfigScene, PTL DEF Spec, ComposedAsDocumented

(* All requests of a generation run with one configuration (loadConfigs,     *)
(* admit).                                                                   *)
THEOREM OneConfigurationEach == Spec => []OneConfiguration
<1>1. Configuring!Reuse!Spec => []Configuring!Reuse!OneConfiguration
  BY Configuring!OneConfigurationEach, ConstantsAssumption
<1>2. ~ (scene = "reuse") /\ [Next]_vars => ~ (scene = "reuse")' BY SceneStays
<1> QED BY <1>1, <1>2, ReuseScene, PTL DEF Spec, OneConfiguration

(* Who arrives after a reload runs with nothing older than it.               *)
THEOREM ReloadIsFinal == Spec => []FreshAfterReload
<1>1. Configuring!Reuse!Spec => []Configuring!Reuse!FreshAfterReload
  BY Configuring!ReloadIsFinal, ConstantsAssumption
<1>2. ~ (scene = "reuse") /\ [Next]_vars => ~ (scene = "reuse")' BY SceneStays
<1> QED BY <1>1, <1>2, ReuseScene, PTL DEF Spec, FreshAfterReload

(* A session that is new, shared or reused without decrypting anything runs  *)
(* with the execution and the secret values the request itself captured.     *)
THEOREM LeasesAsCaptured == Spec => []ServedAsCaptured
<1>1. Configuring!Reuse!Spec => []Configuring!Reuse!ServedAsCaptured
  BY Configuring!LeasesAsCaptured, ConstantsAssumption
<1>2. ~ (scene = "reuse") /\ [Next]_vars => ~ (scene = "reuse")' BY SceneStays
<1> QED BY <1>1, <1>2, ReuseScene, PTL DEF Spec, ServedAsCaptured

(* What a scope is answered with, or reported to lack, is what its stores,   *)
(* nearest first, held when they were read for it, and age runs at most once *)
(* on any version of a store (Registry.Resolve, AgeProvider.Resolve).        *)
THEOREM SecretsAsCaptured == Spec => []ResolvedAsCaptured
<1>1. Secrets!Spec => []Secrets!ResolvedAsCaptured
  <2>1. Secrets!Init => ResolveInv BY ConstantsAssumption, ResolveInit
  <2>2. ResolveInv /\ [Secrets!Next]_(Secrets!vars) => ResolveInv'
    BY ConstantsAssumption, ResolveStep
  <2>3. ResolveInv => Secrets!ResolvedAsCaptured
    BY DEF ResolveInv, ResolveTyped, TrulyReported, Secrets!ResolvedAsCaptured
  <2> QED BY <2>1, <2>2, <2>3, PTL DEF Secrets!Spec
<1>2. ~ (scene = "secrets") /\ [Next]_vars => ~ (scene = "secrets")' BY SceneStays
<1> QED BY <1>1, <1>2, SecretsScene, PTL DEF Spec, ResolvedAsCaptured

(* For any number of flows and of requests, and however late a handler that  *)
(* has looked a flow up sends what it has: a flow is ended only by a request *)
(* whose handler looked up this very flow, so that no request ends two, and  *)
(* which came from the flow's own tab or from an earlier one; a browser that *)
(* was told that the authorization is complete was heard (handleCallback,    *)
(* fetchAuthorizationCode).  A request of an earlier tab that arrives while  *)
(* a later flow waits is not kept from that flow: the code does not tell.    *)
THEOREM FlowsNeverMixed == Spec => []FlowsKeptApart
<1>1. Callback!Spec => []Callback!FlowsKeptApart
  <2>1. Callback!Init => CallbackInv BY CallbackInit
  <2>2. CallbackInv /\ [Callback!Next]_(Callback!vars) => CallbackInv' BY CallbackStep
  <2>3. CallbackInv => Callback!FlowsKeptApart
    BY DEF CallbackInv, Callback!FlowsKeptApart, ChannelsOwn, Handled, Heard, Open
  <2> QED BY <2>1, <2>2, <2>3, PTL DEF Callback!Spec
<1>2. ~ (scene = "callback") /\ [Next]_vars => ~ (scene = "callback")' BY SceneStays
<1> QED BY <1>1, <1>2, CallbackScene, PTL DEF Spec, FlowsKeptApart

(* Whatever becomes of the list of trusted workspaces meanwhile: automatic    *)
(* discovery reads the files at or below a directory the list it read names,  *)
(* broad to near and all of them, and a request is sent with those files and  *)
(* asks no store above them (discovery.Resolve, configCandidates).            *)
THEOREM SourcesAreTrusted == Spec => []SourcesTrusted
<1>1. Trust!Spec => []Trust!SourcesTrusted
  <2>1. Trust!Init => TrustInv /\ SourcesInv
    BY ConstantsAssumption, TrustInit, SourcesInit
  <2>2. TrustInv /\ SourcesInv /\ [Trust!Next]_(Trust!vars) => (TrustInv /\ SourcesInv)'
    BY ConstantsAssumption, TrustStep, SourcesStep DEF TrustInv, TrustTyped
  <2>3. SourcesInv => Trust!SourcesTrusted BY SourcesEnough
  <2> QED BY <2>1, <2>2, <2>3, PTL DEF Trust!Spec
<1>2. ~ (scene = "trust") /\ [Next]_vars => ~ (scene = "trust")' BY SceneStays
<1> QED BY <1>1, <1>2, TrustScene, PTL DEF Spec, SourcesTrusted

(* Whatever order the providers finish in, the reply to a language-server     *)
(* request is made of what their servers said, in the order of their          *)
(* definitions and without what is protected, and every lease is given back   *)
(* once (runLSPProviders, aggregateLSPResults, executeLSP).                   *)
THEOREM AnswersComplete == Spec => []AnswerComplete
<1>1. Fanout!Spec => []Fanout!AnswerComplete
  <2>1. Fanout!Init => FanoutInv /\ FanoutAnswers BY FanoutInit, AnswersInit
  <2>2. FanoutInv /\ FanoutAnswers /\ [Fanout!Next]_(Fanout!vars)
          => (FanoutInv /\ FanoutAnswers)'
    BY FanoutStep, AnswersStep
  <2>3. FanoutInv /\ FanoutAnswers => Fanout!AnswerComplete
    BY ConstantsAssumption, AnswersEnough
  <2> QED BY <2>1, <2>2, <2>3, PTL DEF Fanout!Spec
<1>2. ~ (scene = "fanout") /\ [Next]_vars => ~ (scene = "fanout")' BY SceneStays
<1> QED BY <1>1, <1>2, FanoutScene, PTL DEF Spec, AnswerComplete

(* However what a child writes is cut into pieces, and whatever the secrets   *)
(* are: none leaves whole, no more is held back than could become one, and    *)
(* when no secret begins another, what was shown in the end is what masking   *)
(* the whole text at once would have shown (redactor.Write, FlushTo).         *)
THEOREM SecretsAreWithheld == Spec => []SecretsWithheld
<1>1. Redacting!Spec => []Redacting!SecretsWithheld
  BY Redacting!NoSecretShown, ConstantsAssumption
<1>2. ~ (scene = "redaction") /\ [Next]_vars => ~ (scene = "redaction")' BY SceneStays
<1> QED BY <1>1, <1>2, RedactingScene, PTL DEF Spec, SecretsWithheld
=============================================================================
