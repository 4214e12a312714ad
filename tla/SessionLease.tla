---------------------------- MODULE SessionLease ----------------------------
(***************************************************************************)
(* What the daemon's pool promises its requests about a retained session,  *)
(* with everything about keys, startup, mutexes and handlers left out:     *)
(* a session is offered, leased, withdrawn, and closed only when its last  *)
(* lease has come back, unless the daemon itself is stopping.              *)
(***************************************************************************)
CONSTANTS
    Sessions,
    Clients

VARIABLES
    session,         \* "absent", "offered", "withdrawn" or "closed"
    holders,         \* the clients leasing each session
    stopping

vars == <<session, holders, stopping>>

Init ==
    /\ session = [s \in Sessions |-> "absent"]
    /\ holders = [s \in Sessions |-> {}]
    /\ stopping = FALSE

Offer(s) ==
    /\ session[s] = "absent" /\ ~stopping
    /\ session' = [session EXCEPT ![s] = "offered"]
    /\ UNCHANGED <<holders, stopping>>

Lend(s, c) ==
    /\ session[s] = "offered" /\ ~stopping
    /\ c \notin UNION {holders[t] : t \in Sessions}
    /\ holders' = [holders EXCEPT ![s] = @ \cup {c}]
    /\ UNCHANGED <<session, stopping>>

GiveBack(s, c) ==
    /\ c \in holders[s]
    /\ holders' = [holders EXCEPT ![s] = @ \ {c}]
    /\ UNCHANGED <<session, stopping>>

Withdrawn(S) ==
    [s \in Sessions |->
        IF s \in S /\ session[s] = "offered" THEN "withdrawn" ELSE session[s]]

(* A reload or a changed credential withdraws any number of sessions.      *)
Withdraw(S) ==
    /\ session' = Withdrawn(S)
    /\ UNCHANGED <<holders, stopping>>

Stop ==
    /\ ~stopping
    /\ stopping' = TRUE
    /\ session' = Withdrawn(Sessions)
    /\ UNCHANGED holders

Close(s) ==
    /\ session[s] = "withdrawn"
    /\ holders[s] = {} \/ stopping
    /\ session' = [session EXCEPT ![s] = "closed"]
    /\ UNCHANGED <<holders, stopping>>

Next ==
    \/ \E s \in Sessions : Offer(s) \/ Close(s)
    \/ \E s \in Sessions, c \in Clients : Lend(s, c) \/ GiveBack(s, c)
    \/ \E S \in SUBSET Sessions : Withdraw(S)
    \/ Stop

Spec == Init /\ [][Next]_vars

(* No client loses a session it leased, except to shutdown.                *)
NeverLost ==
    \A s \in Sessions : session[s] = "closed" /\ holders[s] # {} => stopping
=============================================================================
