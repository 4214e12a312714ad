------------------------- MODULE PoolImplementsLease ------------------------
(***************************************************************************)
(* The daemon's pool implements the session lease: a session is what       *)
(* startInstance published, its holders are the requests counted in        *)
(* instance.active, and stopping is d.closing.                             *)
(***************************************************************************)
EXTENDS DaemonPool

LeaseView ==
    [e \in Requests |->
        IF phase[e] # "live" THEN "absent"
        ELSE IF closed[e] THEN "closed"
        ELSE IF retired[e] THEN "withdrawn" ELSE "offered"]

HolderView == [e \in Requests |-> Leaseholders(e)]

Promise == INSTANCE SessionLease WITH
    Sessions <- Requests,
    Clients  <- Requests,
    session  <- LeaseView,
    holders  <- HolderView,
    stopping <- Closing

(* Every step of the daemon is a step of the lease protocol or leaves it   *)
(* alone: the lease is all a request can observe of reloads, credential    *)
(* changes, other requests and shutdown.                                   *)
ImplementsLease == Promise!Spec
=============================================================================
