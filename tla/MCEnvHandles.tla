---------------------------- MODULE MCEnvHandles ----------------------------
(* An instance of EnvHandles for TLC: three workers and three handles, given *)
(* in the .cfg file.                                                       *)
EXTENDS EnvHandles
=============================================================================
