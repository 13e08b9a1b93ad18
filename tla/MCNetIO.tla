------------------------------ MODULE MCNetIO ------------------------------
(* Instances of NetIO small enough for TLC. *)
EXTENDS NetIO

MCSendLens == {1, 2, 4}
MCReadLens == {1, 3}
=============================================================================
