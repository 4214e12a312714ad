---------------------------- MODULE MCLspSession ----------------------------
(* Finite instances of LspSession for TLC.                                 *)
EXTENDS LspSession
=============================================================================
