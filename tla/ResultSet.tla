----------------------------- MODULE ResultSet -----------------------------
(***************************************************************************)
(* What KCIStmtFetch promises of a query's result: a sequence of rows and  *)
(* a position in it.  NEXT hands out the row after the position and moves  *)
(* there, CURRENT hands out the row at the position (the first, before any *)
(* NEXT), and the end is reported only when no row is left.                *)
(***************************************************************************)
EXTENDS Integers, Sequences

CONSTANT None       \* no result is open

VARIABLES
  result,           \* the number of rows of the open result, or None
  position,         \* rows passed by NEXT
  out,              \* the numbers of the rows handed out
  ended             \* the end was reported

resultSet == <<result, position, out, ended>>

Init == result = None /\ position = 0 /\ out = <<>> /\ ended = FALSE

Open ==
  /\ result' \in Nat
  /\ position' = 0 /\ out' = <<>> /\ ended' = FALSE

Close ==
  /\ result' = None
  /\ position' = 0 /\ out' = <<>> /\ ended' = FALSE

HandOutNext ==
  /\ result # None /\ position < result
  /\ position' = position + 1
  /\ out' = Append(out, position + 1)
  /\ UNCHANGED <<result, ended>>

HandOutCurrent ==
  /\ result # None /\ result > 0
  /\ out' = Append(out, IF position = 0 THEN 1 ELSE position)
  /\ UNCHANGED <<result, position, ended>>

ReportEnd ==
  /\ result # None /\ position = result
  /\ ended' = TRUE
  /\ UNCHANGED <<result, position, out>>

Next == Open \/ Close \/ HandOutNext \/ HandOutCurrent \/ ReportEnd

Spec == Init /\ [][Next]_resultSet
=============================================================================
