--------------------------- MODULE WFQueueProofs ----------------------------
(***************************************************************************)
(* Theorems about the delay queue on its own, for every set of forward     *)
(* times and packet lengths and every bound on the number of packets.      *)
(***************************************************************************)
EXTENDS WFQueueSpec, WFQueueLemmas

LEMMA InitOrder == Init => OrderInv
  BY BoundAssumption
     DEF Init, initQueue, OrderInv, QueueTypeOK, Numbered, KeysInOrder, KeysBounded,
         CounterBounded, LastLeft, FifoNodes

(* What Enqueue asks of the queue, as the lemmas want it. *)
LEMMA EnqueueStep ==
  ASSUME OrderInv, Enqueue
  PROVE  /\ serial < MaxSerial /\ serial' = serial + 1 /\ last' = last
         /\ byte_size' \in [Direction -> Int]
         /\ \E p \in Packet, t \in Nat : p.serial = serial + 1 /\ enqueue(p, t)
<1>1. PICK d \in Direction, len \in Lens, t \in Times \cap Nat :
         enqueue(NewPacket(d, len), t)
  BY DEF Enqueue
<1>2. /\ NewPacket(d, len) \in Packet /\ t \in Nat
      /\ NewPacket(d, len).serial = serial + 1
  BY LensAssumption, BoundAssumption
     DEF NewPacket, Packet, OrderInv, QueueTypeOK
<1>3. byte_size' \in [Direction -> Int]
  BY <1>1, <1>2 DEF enqueue, Insert, OrderInv, QueueTypeOK, Packet
<1> QED
  BY <1>1, <1>2, <1>3 DEF Enqueue

LEMMA NextKeepsOrder == OrderInv /\ [Next]_vars => OrderInv'
<1> SUFFICES ASSUME OrderInv, [Next]_vars
             PROVE  OrderInv'
  OBVIOUS
<1>1. CASE Enqueue
  BY <1>1, EnqueueStep, EnqueueKeepsOrder
<1>2. CASE Dequeue
  BY <1>2, DequeueKeepsOrder DEF Dequeue
<1>3. CASE SetFIFO
  BY <1>3 DEF SetFIFO, setFIFO, OrderInv, QueueTypeOK, Numbered, KeysInOrder,
              KeysBounded, CounterBounded, LastLeft, FifoNodes, Before
<1>4. CASE UNCHANGED vars
  BY <1>4 DEF vars, queueVars, OrderInv, QueueTypeOK, Numbered, KeysInOrder,
              KeysBounded, CounterBounded, LastLeft, FifoNodes, Before
<1> QED
  BY <1>1, <1>2, <1>3, <1>4 DEF Next

(* The keys of the packets queued in FIFO mode always grow with their      *)
(* numbers, whatever the caller and the operator do (enqueue, dequeue,     *)
(* setFIFO).                                                               *)
THEOREM OrderInvariant == Spec => []OrderInv
  BY InitOrder, NextKeepsOrder, PTL DEF Spec

(* Type correctness of the queue. *)
THEOREM TypeCorrect == Spec => []TypeOK
<1>1. OrderInv => TypeOK
  BY DEF OrderInv, TypeOK
<1> QED
  BY <1>1, OrderInvariant, PTL

(* The queue keeps the promise of FIFO mode: its steps are steps of the    *)
(* wire, so no packet queued in FIFO mode is overtaken by a later one.     *)
THEOREM FifoOrderKept == Spec => FifoOrder
<1>1. Init => Wire!Init
  BY DEF Init, initQueue, Wire!Init, Waiting, FifoNodes
<1>2. OrderInv /\ [Next]_vars => [Wire!Next]_(Wire!wireVars)
  <2> SUFFICES ASSUME OrderInv, [Next]_vars
               PROVE  Wire!Next \/ UNCHANGED Wire!wireVars
    OBVIOUS
  <2>1. CASE Enqueue
    BY <2>1, EnqueueStep, EnqueueAccepts DEF Wire!Next
  <2>2. CASE Dequeue
    BY <2>2, DequeueDelivers DEF Dequeue
  <2>3. CASE SetFIFO
    BY <2>3 DEF SetFIFO, setFIFO, Wire!wireVars, Waiting, FifoNodes
  <2>4. CASE UNCHANGED vars
    BY <2>4 DEF vars, queueVars, Wire!wireVars, Waiting, FifoNodes
  <2> QED
    BY <2>1, <2>2, <2>3, <2>4 DEF Next
<1> QED
  BY <1>1, <1>2, OrderInvariant, PTL DEF Spec, FifoOrder, Wire!Spec

=============================================================================
