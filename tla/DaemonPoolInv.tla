---------------------------- MODULE DaemonPoolInv ---------------------------
(***************************************************************************)
(* The inductive invariant behind the safety properties of DaemonPool.     *)
(***************************************************************************)
EXTENDS PoolImplementsLease

(* Where a handler is determines what it refers to: no entry, an entry it  *)
(* waits on, or a published instance of its own key and generation.        *)
Placement ==
    \A r \in Requests :
        /\ pc[r] \in {"new", "acquire", "confirm", "done"} => at[r] = None
        /\ pc[r] \in {"wait", "check", "lock", "operate", "release"} => at[r] # None
        /\ pc[r] \in {"acquire", "wait", "check", "lock", "operate"} => key[r] \in Keys
        /\ at[r] # None => /\ phase[at[r]] # "none"
                           /\ pc[r] # "wait" => phase[at[r]] = "live"
                           /\ key[at[r]] = key[r] /\ gen[at[r]] = gen[r]
        /\ phase[r] # "none" => key[r] \in Keys /\ pc[r] \notin {"new", "acquire"}

(* The toClose slice is in use exactly while its handler closes, and an    *)
(* instance is forgotten only after it was closed.                         *)
ClosingLoop ==
    \A r \in Requests :
        /\ todo[r] # {} => pc[r] \in {"close", "forget"}
        /\ pc[r] = "close" => todo[r] # {}
        /\ pc[r] = "forget" => current[r] \in todo[r] /\ closed[current[r]]

(* d.pools holds entries of the current generation, each under its own     *)
(* key, and no failed or, before shutdown, retired one.                    *)
PoolsCurrent ==
    \A k \in Keys : pools[k] # None =>
        /\ key[pools[k]] = k /\ gen[pools[k]] = generation
        /\ phase[pools[k]] \notin {"none", "failed"}
        /\ retired[pools[k]] => Closing

(* Whatever is about to be closed is published and was withdrawn; before   *)
(* shutdown it is also idle, and an instance that was closed stays so.     *)
CloseDiscipline ==
    /\ \A e \in Requests : retired[e] => phase[e] # "none"
    /\ \A e \in retiring \cup shutdownTodo : phase[e] = "live" /\ retired[e]
    /\ \A r \in Requests : \A e \in todo[r] :
            phase[e] = "live" /\ retired[e] /\ active[e] = 0
    /\ \A e \in Requests : closed[e] =>
            /\ phase[e] \in {"live", "failed"}
            /\ retired[e] \/ phase[e] = "failed"
            /\ active[e] = 0 \/ Closing

(* instance.mu: one operation at a time.                                   *)
OneOperation ==
    \A r, s \in Requests :
        pc[r] = "operate" /\ pc[s] = "operate" /\ at[r] = at[s] => r = s

(* A request's history contains the credential stored now.                 *)
StoredKnown ==
    \A r \in Requests : pc[r] \in {"acquire", "wait", "check", "lock", "operate"} =>
        credential \in stored[r]

(* Only OAuth sessions hold a credential, from attachOAuth on, and only    *)
(* those that hold one can authorize.                                      *)
CredentialHeld ==
    \A e \in Requests :
        /\ loaded[e] # None => key[e] \in OAuthKeys /\ phase[e] \notin {"none", "spawned"}
        /\ auth[e] # "none" => loaded[e] # None

(* Once wg.Wait returned nothing is starting or left to close.             *)
DownIsFinal ==
    shutdown = "down" => shutdownTodo = {} /\ \A e \in Requests : ~Starting(e)

IInv ==
    /\ TypeOK
    /\ Placement
    /\ LeaseCount
    /\ ClosingLoop
    /\ PoolsCurrent
    /\ OneOfferedSession
    /\ CloseDiscipline
    /\ OneOperation
    /\ ServesOwnGeneration
    /\ StoredKnown
    /\ CredentialHeld
    /\ CredentialFresh
    /\ NoLostSession
    /\ DownIsFinal
    /\ RetiringAccounted
=============================================================================
