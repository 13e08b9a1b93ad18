----------------------------- MODULE MCRequest -----------------------------
(* Instances of Request for TLC. *)
EXTENDS Request
CONSTANT s1
OneStmt  == {s1}
AllLobs  == {"none", "callback", "pieces"}
=============================================================================
