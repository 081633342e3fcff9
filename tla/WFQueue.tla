------------------------------ MODULE WFQueue -------------------------------
(***************************************************************************)
(* The delay queue of includes/wf_queue.c: a priority queue of packets     *)
(* keyed by the time at which each is to be forwarded.  In FIFO mode       *)
(* enqueue() raises a packet's forward time to that of the latest packet   *)
(* and breaks ties with a counter, so that no packet overtakes another.    *)
(*                                                                         *)
(* The heap is abstracted to the set of its nodes (WFHeap shows that the   *)
(* array implements it): dequeue() removes a node with the least key, any  *)
(* of them when several nodes have the same key.                           *)
(*                                                                         *)
(* `serial', `last' and the node fields `due' and `fifo' are history:      *)
(* nothing the code does depends on them.                                  *)
(***************************************************************************)
EXTENDS Integers, FiniteSetsExt

CONSTANTS
  Lens,        \* the packet lengths (bytes)
  MaxSerial,   \* bound: how many packets are put through the queue
  CounterMod   \* the range of queue.counter, an unsigned int: 2^32 in the code

ASSUME LensAssumption == Lens \subseteq Nat /\ Lens # {}
ASSUME BoundAssumption ==
  /\ MaxSerial \in Nat
  /\ CounterMod \in Nat
  /\ MaxSerial < CounterMod   \* the counter does not wrap within the bound

VARIABLES
  queue,             \* the nodes in the heap
  byte_size,         \* bytes waiting, per direction
  fifoness,          \* FIFO, or anything else for no ordering
  max_forward_time,  \* the latest forward time given out in FIFO mode
  counter,           \* tie breaker among nodes with that forward time
  serial,            \* history: how many packets have been numbered so far
  last               \* history: the last packet released among those queued in FIFO mode

queueVars == <<queue, byte_size, fifoness, max_forward_time, counter>>

NO_FIFO == 0
FIFO    == 1
LR == "LEFT_TO_RIGHT"
RL == "RIGHT_TO_LEFT"
Direction == {LR, RL}

Packet == [serial : Nat, direction : Direction, len : Nat]
Node == [packet : Packet, forward_time : Int, counter : Nat,
         due : Int, fifo : BOOLEAN]

(* compareNode(m, n) < 0 *)
Before(m, n) ==
  \/ m.forward_time < n.forward_time
  \/ m.forward_time = n.forward_time /\ m.counter < n.counter

(* The nodes that may be at the root of the heap. *)
Heads(q) == {n \in q : \A m \in q : ~ Before(m, n)}

initQueue(mode) ==
  /\ queue = {}
  /\ byte_size = [d \in Direction |-> 0]
  /\ fifoness = mode
  /\ max_forward_time = 0
  /\ counter = 0

(* A node for the packet goes into the heap with the key <<ft, cnt>>.  *)
(* `due' is the forward time the caller asked for.                      *)
Insert(packet, due, ft, cnt) ==
  /\ queue' = queue \cup {[packet |-> packet, forward_time |-> ft, counter |-> cnt,
                           due |-> due, fifo |-> fifoness = FIFO]}
  /\ byte_size' = [byte_size EXCEPT ![packet.direction] = @ + packet.len]
  /\ counter' = cnt
  /\ UNCHANGED fifoness

(* Mutant of enqueue: an early packet waits, but with the same counter. *)
enqueueNoCounter(packet, forward_time) ==
  LET later == forward_time > max_forward_time
      ft    == IF fifoness # FIFO \/ later THEN forward_time ELSE max_forward_time
  IN  /\ max_forward_time' = IF fifoness = FIFO THEN ft ELSE max_forward_time
      /\ Insert(packet, forward_time, ft, counter)

(* enqueue() *)
enqueue(packet, forward_time) ==
  \/ /\ fifoness # FIFO
     /\ Insert(packet, forward_time, forward_time, counter)
     /\ UNCHANGED max_forward_time
  \/ /\ fifoness = FIFO
     /\ forward_time > max_forward_time
     /\ Insert(packet, forward_time, forward_time, 0)
     /\ max_forward_time' = forward_time
  \/ /\ fifoness = FIFO
     /\ forward_time <= max_forward_time
     /\ Insert(packet, forward_time, max_forward_time, (counter + 1) % CounterMod)
     /\ UNCHANGED max_forward_time

(* The packet of node n leaves the filter: only FIFO-mode packets count    *)
(* for the order promised.                                                 *)
Release(n) == last' = IF n.fifo THEN n.packet.serial ELSE last

(* Mutant of dequeue: the bytes of the packet stay accounted for. *)
dequeueKeepsBytes(n) ==
  /\ n \in Heads(queue)
  /\ queue' = queue \ {n}
  /\ UNCHANGED <<byte_size, fifoness, max_forward_time, counter>>

(* dequeue() of node n, the root of the heap *)
dequeue(n) ==
  /\ n \in Heads(queue)
  /\ queue' = queue \ {n}
  /\ byte_size' = [byte_size EXCEPT ![n.packet.direction] = @ - n.packet.len]
  /\ UNCHANGED <<fifoness, max_forward_time, counter>>

(* setFIFO(): atoi(arg) *)
setFIFO(mode) ==
  /\ fifoness' = mode
  /\ UNCHANGED <<queue, byte_size, max_forward_time, counter>>

(* The number a packet gets when the filter takes it up. *)
NewPacket(d, len) == [serial |-> serial + 1, direction |-> d, len |-> len]

QueueTypeOK ==
  /\ queue \subseteq Node
  /\ byte_size \in [Direction -> Int]
  /\ fifoness \in {FIFO, NO_FIFO}
  /\ max_forward_time \in Nat
  /\ counter \in 0 .. CounterMod - 1
  /\ serial \in 0 .. MaxSerial
  /\ last \in 0 .. MaxSerial

(* The nodes queued while the mode was FIFO, and their packets. *)
FifoNodes == {n \in queue : n.fifo}
Waiting == {n.packet.serial : n \in FifoNodes}

(* Why the order is kept, in parts.  Packets are numbered as they come,    *)
(* and those queued in FIFO mode have different numbers;                   *)
Numbered ==
  /\ \A n \in queue : n.packet.serial <= serial
  /\ \A m, n \in FifoNodes : m.packet.serial = n.packet.serial => m = n

(* their keys grow with the numbers;                                       *)
KeysInOrder ==
  \A m, n \in FifoNodes : m.packet.serial < n.packet.serial => Before(m, n)

(* none has a key above the latest one given out;                          *)
KeysBounded ==
  \A n \in FifoNodes :
    \/ n.forward_time < max_forward_time
    \/ n.forward_time = max_forward_time /\ n.counter <= counter

(* the counter moves at most once per packet, so it does not wrap;         *)
CounterBounded == counter <= serial

(* and what has left is older than what has not.                           *)
LastLeft ==
  /\ last <= serial
  /\ \A n \in FifoNodes : last < n.packet.serial

(* The inductive invariant from which the order is proved (WFQueueLemmas). *)
OrderInv ==
  /\ QueueTypeOK
  /\ Numbered
  /\ KeysInOrder
  /\ KeysBounded
  /\ CounterBounded
  /\ LastLeft

(* The byte counters that the buffer limit is checked against agree with   *)
(* the packets really in the queue, whatever was queued and released.      *)
ByteSizeExact ==
  \A d \in Direction :
    byte_size[d] = MapThenSumSet(LAMBDA n : n.packet.len,
                                 {n \in queue : n.packet.direction = d})

(* The promise of FIFO mode, read off the queue. *)
Wire == INSTANCE FifoWire WITH accepted <- serial, waiting <- Waiting

=============================================================================
