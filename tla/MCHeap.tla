------------------------------- MODULE MCHeap -------------------------------
(* Small instances of the heap for TLC. *)
EXTENDS WFHeap

MCLens == {1}
MCTimes == 1 .. 3
MCDirections == {"LEFT_TO_RIGHT"}
=============================================================================
