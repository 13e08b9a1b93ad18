----------------------------- MODULE MCSession -----------------------------
(* Instances of Session for TLC: only bounds, given in the .cfg files. *)
EXTENDS Session
=============================================================================
