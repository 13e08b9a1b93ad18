----------------------------- MODULE ByteQueue -----------------------------
(***************************************************************************)
(* What one direction of a connection promises: the bytes one side puts in *)
(* come out at the other in the same order, each once, at any later time.  *)
(* The reader may put back the last byte it took.  A new connection starts *)
(* with an empty queue.  The i-th byte put in is the number i - 1.         *)
(***************************************************************************)
EXTENDS Integers, Sequences

VARIABLES
  offered,    \* bytes put in
  received    \* the bytes taken out, in order

queue == <<offered, received>>

Init == offered = 0 /\ received = <<>>

Put ==
  /\ offered' \in Nat /\ offered' > offered
  /\ UNCHANGED received

Take ==
  /\ \E n \in 1 .. offered - Len(received) :
       received' = received \o [i \in 1 .. n |-> Len(received) + i - 1]
  /\ UNCHANGED offered

PutBack ==
  /\ received # <<>> /\ received' = SubSeq(received, 1, Len(received) - 1)
  /\ UNCHANGED offered

Reconnect == offered' = 0 /\ received' = <<>>

Next == Put \/ Take \/ PutBack \/ Reconnect

Spec == Init /\ [][Next]_queue
=============================================================================
