------------------------------ MODULE FifoWire ------------------------------
(***************************************************************************)
(* What a wire in FIFO mode promises (man page: only "nofifo" takes the    *)
(* delivery order away): packets are numbered as they are accepted, some   *)
(* may be lost, and those that are delivered leave in the order of their   *)
(* numbers.  WFQueue and WFHandler are shown to implement this module.     *)
(***************************************************************************)
EXTENDS Naturals

VARIABLES
  accepted,   \* how many packets have been accepted; their numbers are 1..accepted
  waiting,    \* the accepted packets that are still on the wire
  last        \* the number of the packet delivered last, 0 before the first

wireVars == <<accepted, waiting, last>>

Init ==
  /\ accepted = 0
  /\ waiting = {}
  /\ last = 0

(* A packet is accepted; it is kept for later or it is lost. *)
Accept ==
  /\ accepted' = accepted + 1
  /\ waiting' \in {waiting, waiting \cup {accepted'}}
  /\ UNCHANGED last

(* The oldest waiting packet leaves. *)
Deliver ==
  \E s \in waiting :
    /\ \A t \in waiting : s <= t
    /\ waiting' = waiting \ {s}
    /\ last' = s
    /\ UNCHANGED accepted

(* A packet goes straight through an empty wire. *)
PassThrough ==
  /\ waiting = {}
  /\ accepted' = accepted + 1
  /\ last' = accepted'
  /\ UNCHANGED waiting

Next == Accept \/ Deliver \/ PassThrough

Spec == Init /\ [][Next]_wireVars

=============================================================================
