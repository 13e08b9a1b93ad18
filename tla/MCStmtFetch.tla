---------------------------- MODULE MCStmtFetch ----------------------------
(* Instances of StmtFetch for TLC.  The table has 3 slots (1000 in the     *)
(* driver), the first batch is larger (2000).                              *)
EXTENDS StmtFetch

SmallTotals == {0, 1, 2}        \* less than a table of 3
MixedTotals == {0, 1, 3, 8}     \* below and at a table of 3; two fetches above a batch of 4
TwoWidths   == {"short", "long"}
=============================================================================
