---------------------------- MODULE WFQueueSpec -----------------------------
(***************************************************************************)
(* The delay queue on its own, its caller free to ask for any forward time *)
(* and to change the mode between any two calls.                           *)
(***************************************************************************)
EXTENDS WFQueue

CONSTANT Times   \* what a caller may ask for; forward times are unsigned (uint64_t)

vars == <<queueVars, serial, last>>

Init ==
  /\ \E mode \in {FIFO, NO_FIFO} : initQueue(mode)
  /\ serial = 0
  /\ last = 0

Enqueue ==
  /\ serial < MaxSerial
  /\ \E d \in Direction, len \in Lens, t \in Times \cap Nat : enqueue(NewPacket(d, len), t)
  /\ serial' = serial + 1
  /\ UNCHANGED last

Dequeue == \E n \in queue : dequeue(n) /\ Release(n) /\ UNCHANGED serial

SetFIFO == (\E mode \in {FIFO, NO_FIFO} : setFIFO(mode)) /\ UNCHANGED <<serial, last>>

Next == Enqueue \/ Dequeue \/ SetFIFO

Spec == Init /\ [][Next]_vars

-----------------------------------------------------------------------------
TypeOK == QueueTypeOK

(* FIFO-mode packets leave in the order in which they were handled, even   *)
(* when the mode is switched to and fro between them (enqueue, dequeue).   *)
FifoOrder == Wire!Spec

=============================================================================
