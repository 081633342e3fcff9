--------------------------- MODULE WFQueueLemmas ----------------------------
(***************************************************************************)
(* What the operations of the delay queue do to the order of the packets   *)
(* queued in FIFO mode, and to the bytes that wait.  The lemmas speak of   *)
(* one step, whoever takes it; WFQueueProofs and WFHandlerProofs cite them *)
(* for their actions.                                                      *)
(***************************************************************************)
EXTENDS WFQueue, WFSumLemmas

-----------------------------------------------------------------------------
(* The node that Insert adds, and its fields. *)
NewNode(packet, due, ft, cnt) ==
  [packet |-> packet, forward_time |-> ft, counter |-> cnt,
   due |-> due, fifo |-> fifoness = FIFO]

(* Any node but the oldest FIFO one stays: the root of the heap, if it was *)
(* queued in FIFO mode, has the smallest number.                           *)
LEMMA HeadIsOldest ==
  ASSUME OrderInv, NEW n \in Heads(queue), n.fifo, NEW m \in FifoNodes
  PROVE  n.packet.serial <= m.packet.serial
<1>1. n \in FifoNodes /\ ~ Before(m, n)
  BY DEF Heads, FifoNodes
<1>2. m.packet.serial \in Nat /\ n.packet.serial \in Nat
  BY <1>1 DEF OrderInv, QueueTypeOK, FifoNodes, Node, Packet
<1> QED
  BY <1>1, <1>2 DEF OrderInv, KeysInOrder

(* enqueue adds one node, typed, whose key is above that of every FIFO     *)
(* node if the mode is FIFO.                                               *)
LEMMA EnqueueAdds ==
  ASSUME OrderInv, serial < MaxSerial,
         NEW p \in Packet, NEW t \in Int, p.serial = serial + 1,
         enqueue(p, t)
  PROVE  \E new \in Node :
           /\ queue' = queue \cup {new}
           /\ new.packet = p
           /\ new.fifo <=> fifoness = FIFO
           /\ fifoness' = fifoness
           /\ max_forward_time' \in Nat
           /\ counter' \in 0 .. CounterMod - 1
           /\ counter' <= serial + 1
           /\ \A m \in FifoNodes :
                \/ m.forward_time < max_forward_time'
                \/ m.forward_time = max_forward_time' /\ m.counter <= counter'
           /\ fifoness = FIFO =>
                /\ new.forward_time = max_forward_time'
                /\ new.counter = counter'
                /\ \A m \in FifoNodes : Before(m, new)
<1> USE DEF OrderInv, QueueTypeOK, FIFO
<1>0. \A m \in FifoNodes : m.forward_time \in Int /\ m.counter \in Nat
  BY DEF FifoNodes, Node
<1>1. CASE fifoness # FIFO /\ Insert(p, t, t, counter) /\ UNCHANGED max_forward_time
  <2> DEFINE new == NewNode(p, t, t, counter)
  <2>1. new \in Node
    BY <1>1 DEF NewNode, Node
  <2>2. /\ queue' = queue \cup {new} /\ counter' = counter
        /\ fifoness' = fifoness /\ max_forward_time' = max_forward_time
    BY <1>1 DEF Insert, NewNode
  <2>3. new.packet = p /\ (new.fifo <=> fifoness = FIFO)
    BY DEF NewNode
  <2> HIDE DEF new
  <2> QED
    BY <1>1, <2>1, <2>2, <2>3, BoundAssumption DEF KeysBounded, CounterBounded
<1>2. CASE /\ fifoness = FIFO /\ t > max_forward_time
           /\ Insert(p, t, t, 0) /\ max_forward_time' = t
  <2> DEFINE new == NewNode(p, t, t, 0)
  <2>1. new \in Node
    BY <1>2 DEF NewNode, Node
  <2>2. queue' = queue \cup {new} /\ counter' = 0 /\ fifoness' = fifoness
    BY <1>2 DEF Insert, NewNode
  <2>3. /\ new.packet = p /\ (new.fifo <=> fifoness = FIFO)
        /\ new.forward_time = t /\ new.counter = 0
    BY DEF NewNode
  <2> HIDE DEF new
  <2>4. \A m \in FifoNodes : m.forward_time < t
    BY <1>0, <1>2 DEF KeysBounded
  <2>5. \A m \in FifoNodes : Before(m, new)
    BY <2>3, <2>4 DEF Before
  <2> QED
    BY <1>2, <2>1, <2>2, <2>3, <2>4, <2>5, BoundAssumption
<1>3. CASE /\ fifoness = FIFO /\ t <= max_forward_time
           /\ Insert(p, t, max_forward_time, (counter + 1) % CounterMod)
           /\ UNCHANGED max_forward_time
  <2> DEFINE new == NewNode(p, t, max_forward_time, counter + 1)
  <2>0. counter + 1 < CounterMod /\ (counter + 1) % CounterMod = counter + 1
    BY BoundAssumption DEF CounterBounded
  <2>1. new \in Node
    BY <1>3 DEF NewNode, Node
  <2>2. /\ queue' = queue \cup {new} /\ counter' = counter + 1
        /\ fifoness' = fifoness /\ max_forward_time' = max_forward_time
    BY <1>3, <2>0 DEF Insert, NewNode
  <2>3. /\ new.packet = p /\ (new.fifo <=> fifoness = FIFO)
        /\ new.forward_time = max_forward_time /\ new.counter = counter + 1
    BY DEF NewNode
  <2> HIDE DEF new
  <2>4. \A m \in FifoNodes :
          \/ m.forward_time < max_forward_time
          \/ m.forward_time = max_forward_time /\ m.counter < counter + 1
    BY <1>0 DEF KeysBounded
  <2>5. \A m \in FifoNodes : Before(m, new)
    BY <2>3, <2>4 DEF Before
  <2>6. counter' \in 0 .. CounterMod - 1 /\ counter' <= serial + 1
    BY <2>0, <2>2, BoundAssumption DEF CounterBounded
  <2> QED
    BY <1>0, <1>3, <2>1, <2>2, <2>3, <2>4, <2>5, <2>6
<1> QED
  BY <1>1, <1>2, <1>3 DEF enqueue

LEMMA EnqueueBytes ==
  ASSUME QueueTypeOK, NEW p \in Packet, NEW t \in Int, enqueue(p, t)
  PROVE  byte_size' \in [Direction -> Int]
BY DEF enqueue, Insert, QueueTypeOK, Packet

(* enqueue of the next packet keeps the invariant. *)
LEMMA EnqueueKeepsOrder ==
  ASSUME OrderInv, serial < MaxSerial,
         NEW p \in Packet, NEW t \in Int, p.serial = serial + 1,
         enqueue(p, t), serial' = serial + 1, last' = last,
         byte_size' \in [Direction -> Int]
  PROVE  OrderInv'
<1> USE DEF OrderInv, QueueTypeOK
<1>1. PICK new \in Node :
           /\ queue' = queue \cup {new}
           /\ new.packet = p
           /\ new.fifo <=> fifoness = FIFO
           /\ fifoness' = fifoness
           /\ max_forward_time' \in Nat
           /\ counter' \in 0 .. CounterMod - 1
           /\ counter' <= serial + 1
           /\ \A m \in FifoNodes :
                \/ m.forward_time < max_forward_time'
                \/ m.forward_time = max_forward_time' /\ m.counter <= counter'
           /\ fifoness = FIFO =>
                /\ new.forward_time = max_forward_time'
                /\ new.counter = counter'
                /\ \A m \in FifoNodes : Before(m, new)
  BY EnqueueAdds
<1>2. \A n \in queue' : n \in queue \/ n = new
  BY <1>1
<1>3. \A n \in FifoNodes' : n \in FifoNodes \/ (n = new /\ fifoness = FIFO)
  BY <1>1, <1>2 DEF FifoNodes
<1>4. \A n \in queue : n.packet.serial \in Nat /\ n.packet.serial <= serial
  BY DEF Numbered, Node, Packet
<1>5. \A n \in FifoNodes : n.packet.serial \in Nat /\ n.packet.serial < serial + 1
  BY <1>4, BoundAssumption DEF FifoNodes
<1>6. new.packet.serial = serial + 1
  BY <1>1
<1>7. QueueTypeOK'
  BY <1>1, BoundAssumption
<1>8. Numbered'
  <2>1. \A n \in queue' : n.packet.serial <= serial'
    BY <1>2, <1>4, <1>6, BoundAssumption
  <2>2. \A m, n \in FifoNodes' : m.packet.serial = n.packet.serial => m = n
    BY <1>3, <1>5, <1>6 DEF Numbered
  <2> QED
    BY <2>1, <2>2 DEF Numbered
<1>9. KeysInOrder'
  <2> SUFFICES ASSUME NEW m \in FifoNodes', NEW n \in FifoNodes',
                      m.packet.serial < n.packet.serial
               PROVE  Before(m, n)
    BY DEF KeysInOrder, Before
  <2>1. CASE n \in FifoNodes
    <3>1. m \in FifoNodes
      BY <1>3, <1>5, <1>6, <2>1
    <3> QED
      BY <2>1, <3>1 DEF KeysInOrder
  <2>2. CASE n = new /\ fifoness = FIFO
    <3>1. m \in FifoNodes
      BY <1>3, <1>6, <2>2
    <3> QED
      BY <1>1, <2>2, <3>1
  <2> QED
    BY <1>3, <2>1, <2>2
<1>10. KeysBounded'
  BY <1>1, <1>3 DEF KeysBounded
<1>11. CounterBounded'
  BY <1>1 DEF CounterBounded
<1>12. LastLeft'
  BY <1>3, <1>5, <1>6, BoundAssumption DEF LastLeft
<1> QED
  BY <1>7, <1>8, <1>9, <1>10, <1>11, <1>12

(* dequeue of the root keeps the invariant, the packet being released. *)
LEMMA DequeueKeepsOrder ==
  ASSUME OrderInv, NEW n \in queue, dequeue(n), Release(n), serial' = serial
  PROVE  OrderInv'
<1> USE DEF OrderInv
<1>1. /\ queue' = queue \ {n} /\ n \in Heads(queue)
      /\ fifoness' = fifoness /\ max_forward_time' = max_forward_time
      /\ counter' = counter
  BY DEF dequeue
<1>2. FifoNodes' \subseteq FifoNodes
  BY <1>1 DEF FifoNodes
<1>3. n \in Node /\ n.packet \in Packet /\ n.packet.serial \in Nat
      /\ n.packet.serial <= serial
  BY DEF QueueTypeOK, Node, Packet, Numbered
<1>4. byte_size' \in [Direction -> Int]
  BY <1>3 DEF dequeue, QueueTypeOK, Packet
<1>5. QueueTypeOK'
  BY <1>1, <1>3, <1>4, BoundAssumption DEF QueueTypeOK, Release
<1>6. LastLeft'
  <2>1. CASE n.fifo
    <3>1. \A m \in FifoNodes : n.packet.serial <= m.packet.serial
      BY <1>1, <2>1, HeadIsOldest
    <3>2. \A m \in FifoNodes' : n.packet.serial # m.packet.serial
      BY <1>1, <1>2, <2>1 DEF FifoNodes, Numbered
    <3>3. \A m \in FifoNodes : m.packet.serial \in Nat
      BY DEF QueueTypeOK, FifoNodes, Node, Packet
    <3> QED
      BY <1>2, <1>3, <2>1, <3>1, <3>2, <3>3 DEF LastLeft, Release
  <2>2. CASE ~ n.fifo
    BY <1>2, <2>2 DEF LastLeft, Release
  <2> QED
    BY <2>1, <2>2
<1>7. Numbered' /\ KeysInOrder' /\ KeysBounded' /\ CounterBounded'
  BY <1>1, <1>2 DEF Numbered, KeysInOrder, KeysBounded, CounterBounded, Before
<1> QED
  BY <1>5, <1>6, <1>7

(* A packet that passes by the queue keeps it, if it may: in FIFO mode     *)
(* only past an empty queue.                                               *)
LEMMA PassingKeepsOrder ==
  ASSUME OrderInv, serial < MaxSerial, UNCHANGED queueVars, serial' = serial + 1,
         last' = IF fifoness = FIFO THEN serial + 1 ELSE last,
         fifoness = FIFO => queue = {}
  PROVE  OrderInv'
<1> USE DEF OrderInv, queueVars
<1>1. FifoNodes' = FifoNodes /\ (fifoness = FIFO => FifoNodes = {})
  BY DEF FifoNodes
<1>2. \A n \in queue : n.packet.serial \in Nat
  BY DEF QueueTypeOK, Node, Packet
<1>3. serial \in Nat /\ last \in Nat /\ serial + 1 \in 0 .. MaxSerial
  BY BoundAssumption DEF QueueTypeOK
<1>4. QueueTypeOK'
  BY <1>3 DEF QueueTypeOK
<1>5. Numbered' /\ CounterBounded'
  BY <1>1, <1>2, <1>3, BoundAssumption DEF QueueTypeOK, Numbered, CounterBounded
<1>6. KeysInOrder' /\ KeysBounded'
  BY <1>1 DEF KeysInOrder, KeysBounded, Before
<1>7. LastLeft'
  BY <1>1, <1>3 DEF LastLeft
<1> QED
  BY <1>4, <1>5, <1>6, <1>7

(* So does a step that at most changes the mode. *)
LEMMA RestKeepsOrder ==
  ASSUME OrderInv, UNCHANGED <<queue, byte_size, max_forward_time, counter, serial, last>>,
         fifoness' \in {FIFO, NO_FIFO}
  PROVE  OrderInv'
BY DEF OrderInv, QueueTypeOK, Numbered, KeysInOrder, KeysBounded, CounterBounded,
       LastLeft, FifoNodes, Before

-----------------------------------------------------------------------------
(* The same two operations, seen from the wire they implement. *)
LEMMA EnqueueAccepts ==
  ASSUME OrderInv, serial < MaxSerial,
         NEW p \in Packet, NEW t \in Int, p.serial = serial + 1,
         enqueue(p, t), serial' = serial + 1, last' = last
  PROVE  Wire!Accept
<1>1. PICK new \in Node : /\ queue' = queue \cup {new}
                          /\ new.packet = p
                          /\ new.fifo <=> fifoness = FIFO
  BY EnqueueAdds
<1>2. CASE fifoness = FIFO
  <2>1. FifoNodes' = FifoNodes \cup {new}
    BY <1>1, <1>2 DEF FifoNodes
  <2>2. Waiting' = Waiting \cup {serial'}
    BY <1>1, <2>1 DEF Waiting
  <2> QED
    BY <2>2 DEF Wire!Accept
<1>3. CASE fifoness # FIFO
  <2>1. FifoNodes' = FifoNodes
    BY <1>1, <1>3 DEF FifoNodes
  <2>2. Waiting' = Waiting
    BY <2>1 DEF Waiting
  <2> QED
    BY <2>2 DEF Wire!Accept
<1> QED
  BY <1>2, <1>3

LEMMA PassingAccepts ==
  ASSUME UNCHANGED queueVars, serial' = serial + 1,
         last' = IF fifoness = FIFO THEN serial + 1 ELSE last,
         fifoness = FIFO => queue = {}
  PROVE  Wire!Next
<1>1. Waiting' = Waiting /\ (fifoness = FIFO => Waiting = {})
  BY DEF queueVars, Waiting, FifoNodes
<1>2. CASE fifoness = FIFO
  BY <1>1, <1>2 DEF Wire!Next, Wire!PassThrough
<1>3. CASE fifoness # FIFO
  BY <1>1, <1>3 DEF Wire!Next, Wire!Accept
<1> QED
  BY <1>2, <1>3

LEMMA RestIsStutter ==
  ASSUME UNCHANGED <<queue, serial, last>>
  PROVE  UNCHANGED Wire!wireVars
BY DEF Wire!wireVars, Waiting, FifoNodes

LEMMA DequeueDelivers ==
  ASSUME OrderInv, NEW n \in queue, dequeue(n), Release(n), serial' = serial
  PROVE  Wire!Next \/ UNCHANGED Wire!wireVars
<1>1. queue' = queue \ {n} /\ n \in Heads(queue)
  BY DEF dequeue
<1>2. CASE n.fifo
  <2>1. FifoNodes' = FifoNodes \ {n} /\ n \in FifoNodes
    BY <1>1, <1>2 DEF FifoNodes
  <2>2. \A m \in FifoNodes : m.packet.serial = n.packet.serial => m = n
    BY <2>1 DEF OrderInv, Numbered
  <2>3. Waiting' = Waiting \ {n.packet.serial}
    BY <2>1, <2>2 DEF Waiting
  <2>4. n.packet.serial \in Waiting /\ \A s \in Waiting : n.packet.serial <= s
    BY <1>1, <1>2, <2>1, HeadIsOldest DEF Waiting
  <2>5. last' = n.packet.serial
    BY <1>2 DEF Release
  <2> QED
    BY <2>3, <2>4, <2>5 DEF Wire!Next, Wire!Deliver
<1>3. CASE ~ n.fifo
  <2>1. FifoNodes' = FifoNodes
    BY <1>1, <1>3 DEF FifoNodes
  <2> QED
    BY <1>3, <2>1 DEF Waiting, Release, Wire!wireVars
<1> QED
  BY <1>2, <1>3

-----------------------------------------------------------------------------
(* The bytes that wait: the heap holds finitely many nodes, so that their  *)
(* lengths add up.                                                         *)
Bytes(S) == MapThenSumSet(LAMBDA n : n.packet.len, S)
Length == [n \in Node |-> n.packet.len]
Towards(d) == {n \in queue : n.packet.direction = d}

(* The invariant from which ByteSizeExact is proved. *)
BytesInv ==
  /\ IsFiniteSet(queue)
  /\ \A d \in Direction : byte_size[d] = Total(Length, Towards(d))

(* The sum over the nodes is their total. *)
LEMMA BytesAreTotal ==
  ASSUME NEW S \in SUBSET Node, IsFiniteSet(S)
  PROVE  Bytes(S) = Total(Length, S)
<1> DEFINE Adding(it) == it = [s \in SUBSET S |-> IF s = {} THEN 0
                                 ELSE Pick(s).packet.len + it[s \ {Pick(s)}]]
<1>1. Bytes(S) = (CHOOSE it : Adding(it))[S]
  BY Zenon DEF Bytes, MapThenSumSet, MapThenFoldSet, Pick
<1>2. \A s \in SUBSET S : s # {} => Pick(s).packet.len = Length[Pick(s)]
  BY DEF Pick, Length
<1>3. ASSUME NEW it
      PROVE  Sums(it, Length, S) <=> Adding(it)
  <2> DEFINE v(s) == IF s = {} THEN 0 ELSE Length[Pick(s)] + it[s \ {Pick(s)}]
             u(s) == IF s = {} THEN 0 ELSE Pick(s).packet.len + it[s \ {Pick(s)}]
  <2>1. \A s \in SUBSET S : v(s) = u(s)
    BY <1>2
  <2> HIDE DEF v, u
  <2>2. [s \in SUBSET S |-> v(s)] = [s \in SUBSET S |-> u(s)]
    BY <2>1
  <2> QED
    BY <2>2, Zenon DEF v, u, Sums, Adds
<1> HIDE DEF Adding
<1>4. \E it : Adding(it)
  BY <1>3, SumsExist
<1>5. Adding(CHOOSE it : Adding(it))
  BY <1>4, Zenon
<1> QED
  BY <1>1, <1>3, <1>5, TotalIsSum

(* Under it the counters agree with the sums over the queue. *)
LEMMA BytesExact == queue \subseteq Node /\ BytesInv => ByteSizeExact
<1> SUFFICES ASSUME queue \subseteq Node, BytesInv
             PROVE  \A d \in Direction : byte_size[d] = Bytes(Towards(d))
  BY Zenon DEF ByteSizeExact, Bytes, Towards
<1> TAKE d \in Direction
<1>1. Towards(d) \in SUBSET Node /\ IsFiniteSet(Towards(d))
  BY FS_Subset DEF Towards, BytesInv
<1> QED
  BY <1>1, BytesAreTotal DEF BytesInv

(* Lengths are numbers. *)
LEMMA LengthIsInt == ASSUME NEW n \in Node PROVE Length[n] = n.packet.len /\ Length[n] \in Int
BY DEF Length, Node, Packet

(* enqueue adds the bytes of a node that is not in the queue yet, as its   *)
(* packet has a number of its own.                                               *)
LEMMA EnqueueKeepsBytes ==
  ASSUME OrderInv, BytesInv, serial < MaxSerial,
         NEW p \in Packet, NEW t \in Int, p.serial = serial + 1, enqueue(p, t)
  PROVE  BytesInv'
<1> DEFINE e == p.direction
<1>1. PICK new \in Node : queue' = queue \cup {new} /\ new.packet = p
  BY EnqueueAdds
<1>2. /\ byte_size' = [byte_size EXCEPT ![e] = @ + p.len]
      /\ byte_size \in [Direction -> Int] /\ p.len \in Int
      /\ queue \subseteq Node /\ queue' \subseteq Node
  BY <1>1 DEF enqueue, Insert, OrderInv, QueueTypeOK, Packet
<1>3. new \notin queue
  BY <1>1, BoundAssumption DEF OrderInv, QueueTypeOK, Numbered
<1>4. IsFiniteSet(queue')
  BY <1>1, FS_AddElement DEF BytesInv
<1>5. \A d \in Direction : byte_size[d] = Total(Length, Towards(d))
  BY DEF BytesInv
<1>6. \A d \in Direction : byte_size'[d] = Total(Length, Towards(d)')
  <2> TAKE d \in Direction
  <2>1. CASE d = e
    <3>1. Towards(d)' = Towards(d) \cup {new} /\ new \notin Towards(d)
      BY <1>1, <1>3, <2>1 DEF Towards
    <3>2. IsFiniteSet(Towards(d)) /\ \A n \in Towards(d) \cup {new} : Length[n] \in Int
      BY <1>2, FS_Subset, LengthIsInt DEF Towards, BytesInv
    <3>3. Total(Length, Towards(d)') = Length[new] + Total(Length, Towards(d))
      BY <3>1, <3>2, TotalAdd
    <3>4. Length[new] = p.len
      BY <1>1, LengthIsInt
    <3>5. byte_size'[d] = byte_size[d] + p.len /\ byte_size[d] \in Int
      BY <1>2, <2>1
    <3> HIDE DEF e
    <3> QED
      BY <1>2, <1>5, <3>3, <3>4, <3>5
  <2>2. CASE d # e
    <3>1. Towards(d)' = Towards(d)
      BY <1>1, <2>2 DEF Towards
    <3> QED
      BY <1>2, <1>5, <2>2, <3>1
  <2> QED
    BY <2>1, <2>2
<1> QED
  BY <1>4, <1>6 DEF BytesInv

(* dequeue takes off those of the node that leaves.                        *)
LEMMA DequeueKeepsBytes ==
  ASSUME QueueTypeOK, BytesInv, NEW n \in queue, dequeue(n)
  PROVE  BytesInv'
<1> DEFINE e == n.packet.direction
<1>1. /\ queue' = queue \ {n} /\ n \in Node
      /\ byte_size' = [byte_size EXCEPT ![e] = @ - n.packet.len]
      /\ byte_size \in [Direction -> Int] /\ n.packet.len \in Int
      /\ queue \subseteq Node /\ queue' \subseteq Node
  BY DEF dequeue, QueueTypeOK, Node, Packet
<1>2. IsFiniteSet(queue')
  BY <1>1, FS_Subset DEF BytesInv
<1>3. \A d \in Direction : byte_size[d] = Total(Length, Towards(d))
  BY DEF BytesInv
<1>4. \A d \in Direction : byte_size'[d] = Total(Length, Towards(d)')
  <2> TAKE d \in Direction
  <2>1. CASE d = e
    <3>1. Towards(d)' = Towards(d) \ {n} /\ n \in Towards(d)
      BY <1>1, <2>1 DEF Towards
    <3>2. IsFiniteSet(Towards(d)) /\ \A m \in Towards(d) : Length[m] \in Int
      BY <1>1, FS_Subset, LengthIsInt DEF Towards, BytesInv
    <3>3. Total(Length, Towards(d)) = Length[n] + Total(Length, Towards(d)')
      BY <3>1, <3>2, TotalRemove
    <3>4. Total(Length, Towards(d)') \in Int
      <4>1. IsFiniteSet(Towards(d)') /\ \A m \in Towards(d)' : Length[m] \in Int
        BY <3>1, <3>2, FS_Subset
      <4> QED
        BY <4>1, TotalIsInt
    <3>5. Length[n] = n.packet.len
      BY <1>1, LengthIsInt
    <3>6. byte_size'[d] = byte_size[d] - n.packet.len
      BY <1>1, <2>1
    <3> HIDE DEF e
    <3> QED
      BY <1>1, <1>3, <3>3, <3>4, <3>5, <3>6
  <2>2. CASE d # e
    <3>1. Towards(d)' = Towards(d)
      BY <1>1, <2>2 DEF Towards
    <3> QED
      BY <1>1, <1>3, <2>2, <3>1
  <2> QED
    BY <2>1, <2>2
<1> QED
  BY <1>2, <1>4 DEF BytesInv

(* A step that leaves the queue alone, and the start. *)
LEMMA RestKeepsBytes ==
  ASSUME BytesInv, UNCHANGED <<queue, byte_size>>
  PROVE  BytesInv'
BY DEF BytesInv, Towards

LEMMA EmptyHasNoBytes ==
  ASSUME queue = {}, byte_size = [d \in Direction |-> 0]
  PROVE  BytesInv
BY TotalEmpty, FS_EmptySet DEF BytesInv, Towards

=============================================================================
