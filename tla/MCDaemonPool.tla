---------------------------- MODULE MCDaemonPool ----------------------------
(* Finite instances of DaemonPool for TLC.                                 *)
EXTENDS DaemonPoolInv, TLC

(* Requests are interchangeable; sound for the safety runs only.           *)
RequestSymmetry == Permutations(Requests)
=============================================================================
