------------------------------- MODULE WFHeap -------------------------------
(***************************************************************************)
(* The array behind the delay queue (includes/wf_queue.c): a binary heap   *)
(* from index 1, with a sentinel at index 0, in memory that grows by       *)
(* chunks.  It is shown to implement WFQueueSpec, where the queue is a set *)
(* from which a least element is taken.                                    *)
(*                                                                         *)
(* The sequence `heap' is the part of the array in use; what is left in    *)
(* the array beyond it is written before it is read again.                 *)
(***************************************************************************)
EXTENDS Integers, SequencesExt

CONSTANTS
  Lens, Times, MaxSerial, CounterMod,   \* as in WFQueueSpec
  Directions,                           \* the directions packets come from
  QUEUE_CHUNK                           \* 100 in the code

ASSUME HeapAssumption ==
  /\ Lens \subseteq Nat /\ Lens # {}
  /\ MaxSerial \in Nat /\ CounterMod \in Nat /\ MaxSerial < CounterMod
  /\ Directions \subseteq {"LEFT_TO_RIGHT", "RIGHT_TO_LEFT"}

VARIABLES heap, max_size, byte_size, fifoness, max_forward_time, counter, serial, last

vars == <<heap, max_size, byte_size, fifoness, max_forward_time, counter, serial, last>>

(* The specification that the array implements. *)
Queue == INSTANCE WFQueueSpec WITH queue <- ToSet(heap)

Before(m, n) == Queue!Before(m, n)

Sentinel == [forward_time |-> 0, counter |-> 0]

(* queue.queue[k], for the indices in use *)
At(h, k) == IF k = 0 THEN Sentinel ELSE h[k]

(* enqueue: the hole, at first behind the last node, moves up until `new'  *)
(* fits in it: hole[k] is the array once it is filled, with a hole at k.   *)
SiftUp(h, new) ==
  LET hole[k \in 1 .. Len(h)] ==
        IF Before(new, At(h, k \div 2))
        THEN [hole[k \div 2] EXCEPT ![k] = h[k \div 2]]
        ELSE [h EXCEPT ![k] = new]
  IN  hole[Len(h)]

(* Mutant of Child: always the left one. *)
LeftChild(h, size, k) == 2 * k

(* The lesser child of k, among `size' nodes. *)
Child(h, size, k) ==
  IF 2 * k < size /\ Before(h[2 * k + 1], h[2 * k]) THEN 2 * k + 1 ELSE 2 * k

(* dequeue: the hole, at first the root, moves down until the last of the  *)
(* nodes fits in it, which is no longer among the `size' nodes.            *)
SiftDown(h, size) ==
  LET old == h[size + 1]
      hole[k \in 1 .. Len(h)] ==
        LET j == Child(h, size, k)
        IN  IF k > size \div 2 \/ Before(old, h[j])
            THEN [h EXCEPT ![k] = old]
            ELSE [hole[j] EXCEPT ![k] = h[j]]
  IN  hole[1]

-----------------------------------------------------------------------------
Init ==
  /\ heap = <<>> /\ max_size = 0
  /\ byte_size = [d \in Queue!Direction |-> 0]
  /\ fifoness \in {Queue!FIFO, Queue!NO_FIFO}
  /\ max_forward_time = 0 /\ counter = 0
  /\ serial = 0 /\ last = 0

(* The key a packet gets, and the latest time given out then. *)
Key(t) ==
  IF fifoness # Queue!FIFO
  THEN [time |-> t, counter |-> counter, latest |-> max_forward_time]
  ELSE IF t > max_forward_time
  THEN [time |-> t, counter |-> 0, latest |-> t]
  ELSE [time |-> max_forward_time, counter |-> (counter + 1) % CounterMod,
        latest |-> max_forward_time]

(* enqueue(): the key, the room and the place of the new node *)
Enqueue ==
  /\ serial < MaxSerial
  /\ \E d \in Directions, len \in Lens, t \in Times \cap Nat :
       LET key == Key(t)
           new == [packet |-> Queue!NewPacket(d, len), forward_time |-> key.time,
                   counter |-> key.counter, due |-> t, fifo |-> fifoness = Queue!FIFO]
       IN  /\ max_forward_time' = key.latest
           /\ counter' = key.counter
           /\ heap' = SiftUp(Append(heap, new), new)
           /\ byte_size' = [byte_size EXCEPT ![d] = @ + len]
  /\ max_size' = IF Len(heap) >= max_size THEN max_size + QUEUE_CHUNK ELSE max_size
  /\ serial' = serial + 1
  /\ UNCHANGED <<fifoness, last>>

(* dequeue(): the root leaves and the last node fills the hole *)
Dequeue ==
  /\ heap # <<>>
  /\ LET size == Len(heap) - 1
         out  == heap[1].packet
     IN  /\ heap' = SubSeq(SiftDown(heap, size), 1, size)
         /\ byte_size' = [byte_size EXCEPT ![out.direction] = @ - out.len]
         /\ last' = IF heap[1].fifo THEN out.serial ELSE last
  /\ UNCHANGED <<max_size, fifoness, max_forward_time, counter, serial>>

SetFIFO ==
  /\ fifoness' \in {Queue!FIFO, Queue!NO_FIFO}
  /\ UNCHANGED <<heap, max_size, byte_size, max_forward_time, counter, serial, last>>

Next == Enqueue \/ Dequeue \/ SetFIFO

Spec == Init /\ [][Next]_vars

-----------------------------------------------------------------------------
(* The array does what the set of WFQueueSpec does: the root it gives out  *)
(* is a least node, and no node is lost or doubled by the moves (enqueue,  *)
(* dequeue).                                                               *)
ImplementsQueue == Queue!Spec

(* With the array in its place the queue still keeps the order of FIFO     *)
(* mode: packets of nodes with equal times do not pass each other through  *)
(* any shape of the heap.                                                  *)
FifoOrder == Queue!FifoOrder

(* No node is before its parent, whatever the shape the removals leave.    *)
HeapOrdered == \A k \in 2 .. Len(heap) : ~ Before(heap[k], heap[k \div 2])

(* The nodes are of the packets so far, each in one place of the array.    *)
NodesDistinct ==
  /\ \A k \in 1 .. Len(heap) : heap[k].packet.serial <= serial
  /\ \A j, k \in 1 .. Len(heap) :
       heap[j].packet.serial = heap[k].packet.serial => j = k

(* The inductive invariant: the array in use is a heap of nodes that are   *)
(* all different, through every hole that moves up (enqueue) or down       *)
(* (dequeue).                                                              *)
HeapInv ==
  /\ heap \in Seq(Queue!Node)
  /\ max_forward_time \in Nat /\ counter \in Nat /\ serial \in Nat
  /\ NodesDistinct
  /\ HeapOrdered

(* "Queue resize" (wf_queue.c:96) makes room for the new node: the indices *)
(* in use, 0 to the size, are among the max_size that were allocated.      *)
RoomForAll == Len(heap) > 0 => Len(heap) < max_size

=============================================================================
