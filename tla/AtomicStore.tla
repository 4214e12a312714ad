----------------------------- MODULE AtomicStore -----------------------------
(* What internal/oauthstore promises its callers: one record per identity,  *)
(* operations that take effect at one instant between their call and their  *)
(* reply, a record that a crash leaves either as it was or as it became,    *)
(* and an authorization lease with one holder.  CredentialStore implements  *)
(* it with a lock file, a temporary file and a rename.                      *)
EXTENDS Naturals

CONSTANTS Procs,       \* the processes that share one state directory
          Identities,  \* credential identities
          MaxGen,      \* bound: generations ever drawn
          NoProc

VARIABLES rec,       \* rec[i]: generation stored for i, 0 when there is none
          mayBe,     \* mayBe[i]: what a crash of the machine may leave for i
          holder,    \* holder[i]: process that holds i's authorization lease
          op,        \* op[p]: the operation p is in
          reply,     \* the last answer, until the next call or crash
          nextGen    \* the next fresh generation

vars == <<rec, mayBe, holder, op, reply, nextGen>>

Idle == [kind |-> "idle"]
NoReply == <<"none", 0>>
Calls == [kind : {"load", "delete", "authorize"}, who : Identities]
  \cup [kind : {"save"}, who : Identities, gen : 1..MaxGen, fresh : BOOLEAN]

Init ==
  /\ rec = [i \in Identities |-> 0]
  /\ mayBe = [i \in Identities |-> {0}]
  /\ holder = [i \in Identities |-> NoProc]
  /\ op = [p \in Procs |-> Idle]
  /\ reply = NoReply
  /\ nextGen = 1

(* A fresh save draws a generation nobody has seen; another save names one  *)
(* that was drawn before.                                                   *)
Invoke(p) ==
  /\ op[p] = Idle
  /\ \E c \in Calls :
       /\ op' = [op EXCEPT ![p] = c]
       /\ c.kind = "save" =>
            IF c.fresh THEN c.gen = nextGen ELSE c.gen < nextGen
       /\ nextGen' = IF c.kind = "save" /\ c.fresh THEN nextGen + 1 ELSE nextGen
  /\ reply' = NoReply
  /\ UNCHANGED <<rec, mayBe, holder>>

Return(p, answer, gen) ==
  /\ op' = [op EXCEPT ![p] = Idle]
  /\ reply' = <<answer, gen>>

Unstored == UNCHANGED <<rec, mayBe, holder, nextGen>>

Load(p) ==
  /\ op[p].kind = "load"
  /\ Return(p, "loaded", rec[op[p].who])
  /\ Unstored

(* A save of a known generation replaces only that generation's record.     *)
Stale(p) ==
  /\ op[p].kind = "save" /\ ~op[p].fresh /\ rec[op[p].who] # op[p].gen
  /\ Return(p, "stale", 0)
  /\ Unstored

Change(p, i, gen) ==
  /\ rec' = [rec EXCEPT ![i] = gen]
  /\ mayBe' = [mayBe EXCEPT ![i] = @ \cup {gen}]
  /\ op' = [op EXCEPT ![p] = [kind |-> "settle", who |-> i]]
  /\ UNCHANGED <<holder, reply, nextGen>>

Save(p) ==
  /\ op[p].kind = "save"
  /\ op[p].fresh \/ rec[op[p].who] = op[p].gen
  /\ Change(p, op[p].who, op[p].gen)

Delete(p) ==
  /\ op[p].kind = "delete" /\ rec[op[p].who] # 0
  /\ Change(p, op[p].who, 0)

Missing(p) ==
  /\ op[p].kind = "delete" /\ rec[op[p].who] = 0
  /\ Return(p, "missing", 0)
  /\ Unstored

(* An operation that changed a record reports success only once no crash    *)
(* can take the change back.                                                *)
Settle(p) ==
  /\ op[p].kind = "settle"
  /\ mayBe' = [i \in Identities |-> {rec[i]}]
  /\ Return(p, "ok", 0)
  /\ UNCHANGED <<rec, holder, nextGen>>

Grant(p) ==
  /\ op[p].kind = "authorize" /\ holder[op[p].who] = NoProc
  /\ holder' = [holder EXCEPT ![op[p].who] = p]
  /\ Return(p, "ok", 0)
  /\ UNCHANGED <<rec, mayBe, nextGen>>

Refuse(p) ==
  /\ op[p].kind = "authorize" /\ holder[op[p].who] # NoProc
  /\ Return(p, "locked", 0)
  /\ Unstored

Release(p) == \E i \in Identities :
  /\ op[p] = Idle /\ holder[i] = p
  /\ holder' = [holder EXCEPT ![i] = NoProc]
  /\ UNCHANGED <<rec, mayBe, op, reply, nextGen>>

(* An error says nothing of the record: a change may have taken place.      *)
Fail(p) ==
  /\ op[p] # Idle
  /\ Return(p, "error", 0)
  /\ Unstored

Dropped(P) == [i \in Identities |-> IF holder[i] \in P THEN NoProc ELSE holder[i]]

Crash(p) ==
  /\ op' = [op EXCEPT ![p] = Idle] /\ reply' = NoReply
  /\ holder' = Dropped({p})
  /\ UNCHANGED <<rec, mayBe, nextGen>>

MachineCrash ==
  /\ rec' \in [Identities -> 0..MaxGen]
  /\ \A i \in Identities : rec'[i] \in mayBe[i]
  /\ mayBe' = [i \in Identities |-> {rec'[i]}]
  /\ holder' = [i \in Identities |-> NoProc]
  /\ op' = [p \in Procs |-> Idle]
  /\ reply' = NoReply
  /\ UNCHANGED nextGen

Next ==
  \/ \E p \in Procs :
       \/ Invoke(p) \/ Load(p) \/ Stale(p) \/ Save(p) \/ Delete(p) \/ Missing(p)
       \/ Settle(p) \/ Grant(p) \/ Refuse(p) \/ Release(p) \/ Fail(p) \/ Crash(p)
  \/ MachineCrash

Spec == Init /\ [][Next]_vars
=============================================================================
