--------------------------- MODULE WFFilterProofs ---------------------------
(***************************************************************************)
(* Theorems about the filter with its chain, for any nodes, edges, weights *)
(* and periods and an operator who names nodes that exist.                 *)
(***************************************************************************)
EXTENDS WFFilter, WFHandlerProofs, WFSumLemmas

(* Going round from a node leads to a node. *)
LEMMA RoundStaysInside ==
  ASSUME NEW n \in Nat \ {0}, NEW c \in 0 .. n - 1, NEW k \in 0 .. n - 1
  PROVE  (c + k) % n \in 0 .. n - 1
<1>1. \A x \in Int : x % n \in 0 .. n - 1
  OBVIOUS
<1> QED
  BY <1>1

(* The chain steps to a node (markovStep). *)
LEMMA StepStaysInside ==
  ASSUME NodesOK, NEW draw \in Draws
  PROVE  Chain!Chosen(draw) \subseteq Chain!Nodes
<1>1. nodes_count \in Nat \ {0} /\ current_node \in 0 .. nodes_count - 1
  BY DEF NodesOK, ChainOK, Chain!Nodes
<1>2. \A k \in 0 .. nodes_count - 1 : (current_node + k) % nodes_count \in 0 .. nodes_count - 1
  BY <1>1, RoundStaysInside
<1> QED
  BY <1>2 DEF Chain!Chosen, Chain!Nodes

(* A resize leaves the current node on one that stays (markovResize). *)
LEMMA ResizeKeepsNodes ==
  ASSUME NodesOK, Chain!markovSetNodeNumber
  PROVE  ChainOK'
<1>1. PICK n \in NodeCounts : Chain!markovResize(n)
  BY DEF Chain!markovSetNodeNumber
<1>2. n \in Nat \ {0}
  BY ChainAssumption
<1>3. CASE UNCHANGED <<nodes, nodes_count, current_node>>
  BY <1>3 DEF NodesOK, ChainOK, Chain!Nodes
<1>4. CASE /\ n # nodes_count
           /\ nodes' = Chain!Resized(n)
           /\ current_node' = IF n < nodes_count THEN Chain!Placed(n) ELSE current_node
           /\ nodes_count' = n
  <2>1. Chain!Nodes' = 0 .. n - 1
    BY <1>4 DEF Chain!Nodes
  <2>2. nodes' \in [0 .. n - 1 -> Wires]
    BY <1>4, ChainAssumption DEF Chain!Resized, Chain!Nodes, NodesOK, ChainOK
  <2>3. current_node' \in 0 .. n - 1
    BY <1>2, <1>4 DEF Chain!Placed, Chain!Nodes, NodesOK, ChainOK
  <2> QED
    BY <1>2, <1>4, <2>1, <2>2, <2>3 DEF ChainOK
<1> QED
  BY <1>1, <1>3, <1>4 DEF Chain!markovResize, Chain!vars

(* The commands keep nodes and current node what they should be. *)
LEMMA CommandKeepsNodes ==
  ASSUME CarefulNodes, NodesOK, WireCommand \/ ChainCommand
  PROVE  ChainOK'
<1>1. CASE Chain!markovSetNodeNumber
  BY <1>1, ResizeKeepsNodes
<1>2. CASE Chain!markovSetCurrentNode
  BY <1>2 DEF Chain!markovSetCurrentNode, NodesOK, ChainOK, Chain!Nodes
<1>3. CASE Chain!markovSetEdge
  BY <1>3 DEF Chain!markovSetEdge, NodesOK, ChainOK, Chain!Nodes
<1>4. CASE Chain!setWireValue
  <2>1. PICK i \in 0 .. MaxNodes :
          IF i \in Chain!Nodes
          THEN \E new \in Chain!setNodeValue(nodes[i]) : nodes' = [nodes EXCEPT ![i] = new]
          ELSE UNCHANGED nodes
    BY <1>4 DEF Chain!setWireValue
  <2>2. Chain!setNodeValue(nodes[i]) \subseteq Wires
    BY DEF Chain!setNodeValue
  <2>3. nodes' \in [Chain!Nodes -> Wires]
    BY <2>1, <2>2 DEF NodesOK, ChainOK
  <2> QED
    BY <1>4, <2>3 DEF Chain!setWireValue, NodesOK, ChainOK, Chain!Nodes
<1> QED
  BY <1>1, <1>2, <1>3, <1>4 DEF WireCommand, ChainCommand

(* So do the last sections of the loop. *)
LEMMA LastSectionsKeepChain ==
  ASSUME CarefulNodes, NodesOK, MarkovSection \/ CommandSection
  PROVE  ChainOK'
<1>1. CASE MarkovSection
  BY <1>1, StepStaysInside DEF MarkovSection, Chain!markovStep, NodesOK, ChainOK, Chain!Nodes
<1>2. CASE CommandSection
  <2>1. CASE WireCommand \/ ChainCommand
    BY <2>1, CommandKeepsNodes
  <2>2. CASE markovSetTime \/ FifoCommand \/ ShowCommand
    BY <2>2 DEF markovSetTime, FifoCommand, ShowCommand, chainVars, NodesOK, ChainOK,
                Chain!Nodes
  <2> QED
    BY <1>2, <2>1, <2>2 DEF CommandSection
<1> QED
  BY <1>1, <1>2

(* After any of the last sections the wire is that of a node.              *)
LEMMA LastSectionsKeepNodes ==
  ASSUME CarefulNodes, NodesOK, MarkovSection \/ CommandSection
  PROVE  NodesOK' /\ wire' \in Wires
<1>1. ChainOK'
  BY LastSectionsKeepChain
<1>2. wire' = MarkovCurrent'
  BY DEF MarkovSection, CommandSection, LastSections
<1>3. wire' = nodes[current_node]' /\ wire' \in Wires
  BY <1>1, <1>2 DEF MarkovCurrent, ChainOK
<1> QED
  BY <1>1, <1>3 DEF NodesOK

(* The steps of the last sections are steps of the handler's Control.      *)
LEMMA LastSectionsAreControl ==
  ASSUME CarefulNodes, NodesOK, MarkovSection \/ CommandSection
  PROVE  Next
<1>1. wire \in Wires /\ wire' \in Wires
  BY LastSectionsKeepNodes DEF NodesOK, ChainOK
<1>2. \E mode \in Modes \cup {fifoness} : setFIFO(mode)
  BY DEF MarkovSection, CommandSection, WireCommand, ChainCommand, markovSetTime, FifoCommand,
         ShowCommand, queueVars, setFIFO
<1>3. Control(control' = {})
  BY <1>1, <1>2, AnyChangeAssumption
     DEF MarkovSection, CommandSection, LastSections, Control
<1>4. (control' = {}) \in BOOLEAN
  OBVIOUS
<1> QED
  BY <1>3, <1>4 DEF Next, Handler

(* The other steps are the handler's own, and leave the chain alone. *)
LEMMA OthersAreHandler ==
  ASSUME FilterPoll \/ FilterFailRL \/ Packets \/ Others
  PROVE  Next /\ UNCHANGED chainVars
BY DEF FilterPoll, FilterFailRL, Packets, Others, Next, Handler

(* They leave the wire alone too. *)
LEMMA OthersKeepWire ==
  ASSUME FilterPoll \/ FilterFailRL \/ Packets \/ Others
  PROVE  UNCHANGED wire
<1>1. CASE FilterPoll \/ FilterFailRL
  BY <1>1 DEF FilterPoll, FilterFailRL, Poll, FailRL
<1>2. CASE Packets
  BY <1>2 DEF Packets, TakeLR, HoldRL, TakeRL, CopyDropped, Copy, DrainBegin, DrainOne,
              DrainEnd, RestoreRL, SendRL
<1>3. CASE Others
  BY <1>3 DEF Others, SendCall, SendWrite, RecvRead, RecvUnlock, Arrive, Tick, appUnchanged
<1> QED
  BY <1>1, <1>2, <1>3

(* There is one node at first, and it is current. *)
LEMMA InitNodes == FilterInit => NodesOK
BY ChainAssumption
   DEF FilterInit, Chain!Init, MarkovCurrent, NodesOK, ChainOK, Chain!Nodes

(* Every step keeps the wire that of the current node. *)
LEMMA NodesStep == CarefulNodes /\ NodesOK /\ [FilterNext]_filterVars => NodesOK'
<1> SUFFICES ASSUME CarefulNodes, NodesOK, [FilterNext]_filterVars
             PROVE  NodesOK'
  OBVIOUS
<1>1. CASE MarkovSection \/ CommandSection
  BY <1>1, LastSectionsKeepNodes
<1>2. CASE UNCHANGED <<chainVars, wire>>
  BY <1>2 DEF chainVars, NodesOK, ChainOK, Chain!Nodes
<1> QED
  BY <1>1, <1>2, OthersAreHandler, OthersKeepWire DEF FilterNext, filterVars, vars

(* The current node always exists and the wire is its configuration,       *)
(* through resizes, steps and commands (markovResize, markovStep).         *)
THEOREM NodesAlwaysOK == CarefulNodes => (FilterSpec => []NodesOK)
<1> SUFFICES ASSUME CarefulNodes PROVE FilterSpec => []NodesOK
  OBVIOUS
<1>1. NodesOK /\ [FilterNext]_filterVars => NodesOK'
  BY NodesStep
<1> QED
  BY <1>1, InitNodes, PTL DEF FilterSpec

(* The node that the packets are handled with is there (MARKOV_CURRENT).   *)
THEOREM CurrentAlwaysExists == CarefulNodes => (FilterSpec => []CurrentExists)
<1> SUFFICES ASSUME CarefulNodes PROVE FilterSpec => []CurrentExists
  OBVIOUS
<1>1. NodesOK => CurrentExists
  BY DEF NodesOK, ChainOK, CurrentExists, Chain!CurrentExists
<1> QED
  BY <1>1, NodesAlwaysOK, PTL

(* The handler with the chain and the commands taken apart implements the  *)
(* handler whose wire changes as it likes.                                 *)
THEOREM FilterImplementsHandler == CarefulNodes => (FilterSpec => ImplementsHandler)
<1> SUFFICES ASSUME CarefulNodes PROVE FilterSpec => ImplementsHandler
  OBVIOUS
<1>1. FilterInit => Init
  BY DEF FilterInit
<1>2. NodesOK /\ [FilterNext]_filterVars => [Next]_vars
  BY LastSectionsAreControl, OthersAreHandler DEF FilterNext, filterVars
<1> QED
  BY <1>1, <1>2, NodesAlwaysOK, PTL DEF FilterSpec, ImplementsHandler, Spec

(* So what is proved of the handler holds with the chain at work: packets  *)
(* taken up in FIFO mode leave in order, whatever node is current when.    *)
THEOREM FilterKeepsOrder == CarefulNodes => (FilterSpec => FifoOrder)
BY FilterImplementsHandler, FifoOrderKept DEF ImplementsHandler

-----------------------------------------------------------------------------
(* Where the cells of a map of n rows are in its flat array (ADJMAPN).      *)
(* Division with remainder gives the row and the column back.              *)
LEMMA RowAndColumn ==
  ASSUME NEW n \in Nat \ {0}, NEW i \in Int, NEW j \in 0 .. n - 1
  PROVE  (i * n + j) \div n = i /\ (i * n + j) % n = j
<1> DEFINE k == i * n + j
           q == k \div n
           r == k % n
<1>1. q \in Int /\ r \in 0 .. n - 1 /\ k = n * q + r
  <2>1. i * n \in Int
    OBVIOUS
  <2>2. k \in Int
    BY <2>1
  <2> HIDE DEF k
  <2> QED
    BY <2>2
<1> HIDE DEF q, r
<1>2. n * (i - q) = r - j
  <2>1. n * (i - q) = i * n - n * q
    BY <1>1
  <2>2. i * n \in Int /\ n * q \in Int
    BY <1>1
  <2> QED
    BY <1>1, <2>1, <2>2
<1>3. \A m \in Int : (m >= 1 => n * m >= n) /\ (m <= -1 => n * m <= -n)
  OBVIOUS
<1>4. i - q = 0
  <2> DEFINE m == i - q
  <2>1. m \in Int
    BY <1>1
  <2>2. -n < r - j /\ r - j < n
    BY <1>1
  <2>3. n * m = r - j
    BY <1>2
  <2> HIDE DEF m
  <2>4. m = 0
    BY <1>3, <2>1, <2>2, <2>3
  <2> QED
    BY <2>4 DEF m
<1>5. i = q /\ r = j
  BY <1>1, <1>2, <1>4
<1> QED
  BY <1>5 DEF q, r

(* A cell of the map is in its array, *)
LEMMA IndexInside ==
  ASSUME NEW n \in Nat \ {0}, NEW i \in 0 .. n - 1, NEW j \in 0 .. n - 1
  PROVE  i * n + j \in 0 .. n * n - 1
<1>1. i * n <= (n - 1) * n /\ i * n >= 0 /\ i * n \in Int /\ n * n \in Int
  OBVIOUS
<1>2. (n - 1) * n = n * n - n
  OBVIOUS
<1> QED
  BY <1>1, <1>2

(* and each place of the array is a cell. *)
LEMMA CellInside ==
  ASSUME NEW n \in Nat \ {0}, NEW k \in 0 .. n * n - 1
  PROVE  k \div n \in 0 .. n - 1 /\ k % n \in 0 .. n - 1 /\ k = (k \div n) * n + (k % n)
<1> DEFINE q == k \div n
           r == k % n
<1>1. n * n \in Int /\ k \in Int /\ 0 <= k /\ k < n * n
  OBVIOUS
<1>2. q \in Int /\ r \in 0 .. n - 1 /\ k = n * q + r
  BY <1>1
<1> HIDE DEF q, r
<1>3. q >= 0
  <2>1. q <= -1 => n * q <= -n
    BY <1>2
  <2> QED
    BY <1>1, <1>2, <2>1
<1>4. q < n
  <2>1. q >= n => n * q >= n * n
    BY <1>2
  <2> QED
    BY <1>1, <1>2, <2>1
<1>5. n * q = q * n
  BY <1>2
<1>6. q \in 0 .. n - 1 /\ r \in 0 .. n - 1 /\ k = q * n + r
  BY <1>2, <1>3, <1>4, <1>5
<1> QED
  BY <1>6 DEF q, r

-----------------------------------------------------------------------------
(* Row i of a map of n nodes, and its sum over the columns in S. *)
RowOf(map, i, n) == [j \in 0 .. n - 1 |-> map[Chain!Index(i, j, n)]]

RowSum(map, i, n, S) == Chain!MapThenSumSet(LAMBDA j : map[Chain!Index(i, j, n)], S)

(* The sum over a row, as the model writes it, is a total. *)
LEMMA SumOfRow ==
  ASSUME NEW map, NEW i, NEW n, NEW S \in SUBSET (0 .. n - 1), IsFiniteSet(S)
  PROVE  RowSum(map, i, n, S) = Total(RowOf(map, i, n), S)
<1> DEFINE Adding(it) == it = [s \in SUBSET S |-> IF s = {} THEN 0
                 ELSE map[Chain!Index(i, Pick(s), n)] + it[s \ {Pick(s)}]]
           w == RowOf(map, i, n)
<1>1. RowSum(map, i, n, S) = (CHOOSE it : Adding(it))[S]
  BY Zenon DEF RowSum, Chain!MapThenSumSet, Chain!MapThenFoldSet, Pick
<1>2. \A s \in SUBSET S : s # {} => map[Chain!Index(i, Pick(s), n)] = w[Pick(s)]
  <2> SUFFICES ASSUME NEW s \in SUBSET S, s # {}
               PROVE  map[Chain!Index(i, Pick(s), n)] = w[Pick(s)]
    OBVIOUS
  <2>1. Pick(s) \in 0 .. n - 1
    BY DEF Pick
  <2> QED
    BY <2>1 DEF RowOf
<1>3. ASSUME NEW it
      PROVE  Sums(it, w, S) <=> Adding(it)
  <2> DEFINE v(s) == IF s = {} THEN 0 ELSE w[Pick(s)] + it[s \ {Pick(s)}]
             u(s) == IF s = {} THEN 0 ELSE map[Chain!Index(i, Pick(s), n)] + it[s \ {Pick(s)}]
  <2>1. \A s \in SUBSET S : v(s) = u(s)
    BY <1>2
  <2> HIDE DEF v, u
  <2>2. [s \in SUBSET S |-> v(s)] = [s \in SUBSET S |-> u(s)]
    BY <2>1
  <2> QED
    BY <2>2, Zenon DEF v, u, Sums, Adds
<1> HIDE DEF Adding, w
<1>4. \E it : Adding(it)
  BY <1>3, SumsExist
<1>5. Adding(CHOOSE it : Adding(it))
  BY <1>4, Zenon
<1> QED
  BY <1>1, <1>3, <1>5, TotalIsSum DEF w

(* The maps of n nodes, and those whose rows sum to 100. *)
Maps(n) == [0 .. n * n - 1 -> Int]

Balanced(map, n) == \A i \in 0 .. n - 1 : Total(RowOf(map, i, n), 0 .. n - 1) = 100

(* Rows are made of integers. *)
LEMMA RowsAreInt ==
  ASSUME NEW n \in Nat \ {0}, NEW map \in Maps(n), NEW i \in 0 .. n - 1
  PROVE  RowOf(map, i, n) \in [0 .. n - 1 -> Int]
<1>1. \A j \in 0 .. n - 1 : i * n + j \in 0 .. n * n - 1
  BY IndexInside
<1> QED
  BY <1>1 DEF RowOf, Chain!Index, Maps

(* The loopback edge is an integer, and what the others lack to 100. *)
LEMMA LoopbackMakesUp ==
  ASSUME NEW n \in Nat \ {0}, NEW map \in Maps(n), NEW i \in 0 .. n - 1
  PROVE  /\ Chain!Loopback(map, i, n) \in Int
         /\ Total(RowOf(map, i, n), (0 .. n - 1) \ {i}) \in Int
         /\ Chain!Loopback(map, i, n) = 100 - Total(RowOf(map, i, n), (0 .. n - 1) \ {i})
<1> DEFINE S == (0 .. n - 1) \ {i}
           w == RowOf(map, i, n)
<1>1. S \in SUBSET (0 .. n - 1) /\ IsFiniteSet(S)
  <2>1. IsFiniteSet(0 .. n - 1)
    BY FS_Interval
  <2> QED
    BY <2>1, FS_Subset
<1>2. \A j \in S : w[j] \in Int
  BY RowsAreInt
<1>3. Total(w, S) \in Int
  <2> HIDE DEF S, w
  <2> QED
    BY <1>1, <1>2, TotalIsInt
<1>4. Chain!Loopback(map, i, n) = 100 - RowSum(map, i, n, S)
  BY Zenon DEF Chain!Loopback, RowSum
<1>5. RowSum(map, i, n, S) = Total(w, S)
  <2> HIDE DEF S
  <2> QED
    BY <1>1, SumOfRow
<1> QED
  BY <1>3, <1>4, <1>5

(* A row whose loopback edge is computed from its other edges sums to 100. *)
LEMMA RowMadeUp ==
  ASSUME NEW n \in Nat \ {0}, NEW map \in Maps(n), NEW new \in Maps(n), NEW i \in 0 .. n - 1,
         new[Chain!Index(i, i, n)] = Chain!Loopback(map, i, n),
         \A j \in (0 .. n - 1) \ {i} : new[Chain!Index(i, j, n)] = map[Chain!Index(i, j, n)]
  PROVE  Total(RowOf(new, i, n), 0 .. n - 1) = 100
<1> DEFINE S == (0 .. n - 1) \ {i}
           v == RowOf(map, i, n)
           w == RowOf(new, i, n)
<1>1. IsFiniteSet(0 .. n - 1) /\ IsFiniteSet(S)
  <2>1. IsFiniteSet(0 .. n - 1)
    BY FS_Interval
  <2> QED
    BY <2>1, FS_Subset
<1>2. \A j \in 0 .. n - 1 : w[j] \in Int
  BY RowsAreInt
<1>3. Total(w, 0 .. n - 1) = w[i] + Total(w, S)
  <2> HIDE DEF w
  <2> QED
    BY <1>1, <1>2, TotalRemove
<1>4. Total(w, S) = Total(v, S)
  <2>1. \A j \in S : w[j] = v[j]
    BY DEF RowOf
  <2> HIDE DEF S, v, w
  <2> QED
    BY <1>1, <2>1, TotalAgrees
<1>5. w[i] = 100 - Total(v, S) /\ Total(v, S) \in Int
  BY LoopbackMakesUp DEF RowOf
<1> HIDE DEF S, v, w
<1>6. Total(w, 0 .. n - 1) = 100
  BY <1>3, <1>4, <1>5
<1> QED
  BY <1>6 DEF w

-----------------------------------------------------------------------------
(* The map that copyAdjacency() fills before it balances the rows. *)
CarriedMap(n) == [k \in 0 .. n * n - 1 |-> Chain!Carried(k \div n, k % n, n)]

(* The map carried over, and the one with its loopback edges.              *)
LEMMA CopyIsMap ==
  ASSUME NEW n \in Nat \ {0}, nodes_count \in Nat \ {0}, adjacency \in Maps(nodes_count)
  PROVE  CarriedMap(n) \in Maps(n) /\ Chain!copyAdjacency(n) \in Maps(n)
<1>1. \A i, j \in Nat : Chain!Carried(i, j, n) \in Int
  <2> TAKE i, j \in Nat
  <2>1. CASE i < nodes_count /\ j < nodes_count
    <3>1. i * nodes_count + j \in 0 .. nodes_count * nodes_count - 1
      BY <2>1, IndexInside
    <3> QED
      BY <2>1, <3>1 DEF Chain!Carried, Chain!ADJMAP, Chain!Index, Maps
  <2>2. CASE ~ (i < nodes_count /\ j < nodes_count)
    BY <2>2 DEF Chain!Carried
  <2> QED
    BY <2>1, <2>2
<1>2. \A k \in 0 .. n * n - 1 : k \div n \in 0 .. n - 1 /\ k % n \in 0 .. n - 1
  BY CellInside
<1>3. CarriedMap(n) \in Maps(n)
  <2>1. ASSUME NEW k \in 0 .. n * n - 1
        PROVE  Chain!Carried(k \div n, k % n, n) \in Int
    <3>1. k \div n \in Nat /\ k % n \in Nat
      BY <1>2
    <3> QED
      BY <1>1, <3>1
  <2> QED
    BY <2>1 DEF CarriedMap, Maps
<1>4. \A i \in 0 .. n - 1 : Chain!Loopback(CarriedMap(n), i, n) \in Int
  BY <1>3, LoopbackMakesUp
<1>5. Chain!copyAdjacency(n)
        = [k \in 0 .. n * n - 1 |-> IF k \div n = k % n THEN Chain!Loopback(CarriedMap(n), k % n, n)
                                    ELSE CarriedMap(n)[k]]
  BY Zenon DEF Chain!copyAdjacency, CarriedMap
<1>6. \A k \in 0 .. n * n - 1 : CarriedMap(n)[k] \in Int
  BY <1>3 DEF Maps
<1> QED
  BY <1>2, <1>3, <1>4, <1>5, <1>6 DEF Maps

(* The edges after a resize. *)
LEMMA EdgesCopied ==
  ASSUME NEW n \in Nat \ {0}, nodes_count \in Nat \ {0}, adjacency \in Maps(nodes_count),
         NEW i \in 0 .. n - 1, NEW j \in 0 .. n - 1
  PROVE  /\ CarriedMap(n)[Chain!Index(i, j, n)] = Chain!Carried(i, j, n)
         /\ Chain!copyAdjacency(n)[Chain!Index(i, j, n)]
              = IF i = j THEN Chain!Loopback(CarriedMap(n), i, n) ELSE Chain!Carried(i, j, n)
<1> DEFINE k == i * n + j
<1>1. k \in 0 .. n * n - 1
  BY IndexInside
<1>2. k \div n = i /\ k % n = j
  BY RowAndColumn
<1>3. Chain!Index(i, j, n) = k
  BY DEF Chain!Index
<1> HIDE DEF k
<1>4. CarriedMap(n)[k] = Chain!Carried(i, j, n)
  BY <1>1, <1>2 DEF CarriedMap
<1>5. Chain!copyAdjacency(n)
        = [c \in 0 .. n * n - 1 |-> IF c \div n = c % n THEN Chain!Loopback(CarriedMap(n), c % n, n)
                                    ELSE CarriedMap(n)[c]]
  BY Zenon DEF Chain!copyAdjacency, CarriedMap
<1>6. Chain!copyAdjacency(n)[k]
        = IF i = j THEN Chain!Loopback(CarriedMap(n), j, n) ELSE CarriedMap(n)[k]
  BY <1>1, <1>2, <1>5
<1> QED
  BY <1>3, <1>4, <1>6

(* After a resize every row sums to 100. *)
LEMMA CopyIsBalanced ==
  ASSUME NEW n \in Nat \ {0}, nodes_count \in Nat \ {0}, adjacency \in Maps(nodes_count)
  PROVE  Balanced(Chain!copyAdjacency(n), n)
<1> DEFINE map == CarriedMap(n)
           new == Chain!copyAdjacency(n)
<1>1. map \in Maps(n) /\ new \in Maps(n)
  BY CopyIsMap
<1>2. SUFFICES ASSUME NEW i \in 0 .. n - 1
               PROVE  Total(RowOf(new, i, n), 0 .. n - 1) = 100
  BY DEF Balanced
<1>3. new[Chain!Index(i, i, n)] = Chain!Loopback(map, i, n)
  BY EdgesCopied
<1>4. \A j \in (0 .. n - 1) \ {i} : new[Chain!Index(i, j, n)] = map[Chain!Index(i, j, n)]
  BY EdgesCopied
<1> HIDE DEF map, new
<1> QED
  BY <1>1, <1>3, <1>4, RowMadeUp

-----------------------------------------------------------------------------
(* The types, the balance and the current node, as an invariant.           *)
ChainSound == Chain!TypeOK /\ NodesOK /\ Balanced(adjacency, nodes_count)

(* What the others need of it. *)
LEMMA SoundCounts ==
  ASSUME ChainSound
  PROVE  /\ nodes_count \in Nat \ {0}
         /\ Chain!Nodes = 0 .. nodes_count - 1
         /\ current_node \in 0 .. nodes_count - 1
         /\ adjacency \in Maps(nodes_count)
BY DEF ChainSound, Chain!TypeOK, NodesOK, ChainOK, Chain!Nodes, Maps

(* Balance in terms of totals is that of the model. *)
LEMMA BalancedRows ==
  ASSUME nodes_count \in Nat \ {0}
  PROVE  RowsBalanced <=> Balanced(adjacency, nodes_count)
<1> DEFINE N == 0 .. nodes_count - 1
<1>1. IsFiniteSet(N)
  BY FS_Interval
<1>2. \A i : RowSum(adjacency, i, nodes_count, N) = Total(RowOf(adjacency, i, nodes_count), N)
  <2> HIDE DEF N
  <2>1. N \in SUBSET (0 .. nodes_count - 1)
    BY DEF N
  <2> QED
    BY <1>1, <2>1, SumOfRow
<1>3. RowsBalanced <=> \A i \in N : RowSum(adjacency, i, nodes_count, N) = 100
  BY Zenon DEF RowsBalanced, Chain!RowsBalanced, Chain!Nodes, Chain!ADJMAP, RowSum
<1> QED
  BY <1>2, <1>3 DEF Balanced

(* Cells of different rows or columns are apart. *)
LEMMA CellsApart ==
  ASSUME NEW n \in Nat \ {0}, NEW a \in 0 .. n - 1, NEW b \in 0 .. n - 1,
         NEW c \in 0 .. n - 1, NEW d \in 0 .. n - 1,
         Chain!Index(a, b, n) = Chain!Index(c, d, n)
  PROVE  a = c /\ b = d
<1>1. a * n + b = c * n + d
  BY DEF Chain!Index
<1>2. (a * n + b) \div n = a /\ (a * n + b) % n = b
  BY RowAndColumn
<1>3. (c * n + d) \div n = c /\ (c * n + d) % n = d
  BY RowAndColumn
<1> QED
  BY <1>1, <1>2, <1>3

(* A change of one edge, then of the loopback edge of its row. *)
LEMMA EdgeBalanced ==
  ASSUME NEW n \in Nat \ {0}, NEW i \in 0 .. n - 1, NEW j \in 0 .. n - 1,
         NEW old \in Maps(n), NEW map \in Maps(n), NEW new \in Maps(n), Balanced(old, n),
         \A k \in 0 .. n * n - 1 :
           /\ k # Chain!Index(i, j, n) => map[k] = old[k]
           /\ k # Chain!Index(i, i, n) => new[k] = map[k],
         new[Chain!Index(i, i, n)] = Chain!Loopback(map, i, n)
  PROVE  Balanced(new, n)
<1>1. \A a, b \in 0 .. n - 1 : Chain!Index(a, b, n) \in 0 .. n * n - 1
  BY IndexInside DEF Chain!Index
<1>2. SUFFICES ASSUME NEW r \in 0 .. n - 1
               PROVE  Total(RowOf(new, r, n), 0 .. n - 1) = 100
  BY DEF Balanced
<1>3. CASE r = i
  <2>1. \A c \in (0 .. n - 1) \ {i} : new[Chain!Index(i, c, n)] = map[Chain!Index(i, c, n)]
    BY <1>1, CellsApart
  <2>2. Total(RowOf(new, i, n), 0 .. n - 1) = 100
    BY <2>1, RowMadeUp
  <2> QED
    BY <1>3, <2>2
<1>4. CASE r # i
  <2>1. \A c \in 0 .. n - 1 : new[Chain!Index(r, c, n)] = old[Chain!Index(r, c, n)]
    BY <1>1, <1>4, CellsApart
  <2>2. RowOf(new, r, n) = RowOf(old, r, n)
    BY <2>1 DEF RowOf
  <2> QED
    BY <2>2 DEF Balanced
<1> QED
  BY <1>3, <1>4

(* markovSetEdges for an edge between nodes. *)
LEMMA EdgeSet ==
  ASSUME CarefulEdges, ChainSound, Chain!markovSetEdge
  PROVE  adjacency' \in Maps(nodes_count) /\ Balanced(adjacency', nodes_count)
<1> DEFINE n == nodes_count
           N == 0 .. n - 1
<1>1. PICK i \in N, j \in N, w \in Weights :
        LET map == Chain!Assign(adjacency, Chain!Index(i, j, n), w)
        IN  adjacency' = Chain!Assign(map, Chain!Index(i, i, n), Chain!Loopback(map, i, n))
  BY DEF Chain!markovSetEdge, Chain!Nodes
<1> DEFINE map == Chain!Assign(adjacency, Chain!Index(i, j, n), w)
<1>2. n \in Nat \ {0} /\ i \in N /\ j \in N /\ adjacency \in Maps(n)
  BY SoundCounts
<1>3. adjacency' = Chain!Assign(map, Chain!Index(i, i, n), Chain!Loopback(map, i, n))
  BY <1>1
<1>4. Chain!Index(i, i, n) \in 0 .. n * n - 1
  BY <1>2, IndexInside DEF Chain!Index
<1>5. /\ map \in Maps(n)
      /\ \A k \in 0 .. n * n - 1 : k # Chain!Index(i, j, n) => map[k] = adjacency[k]
  BY <1>2, ChainAssumption DEF Chain!Assign, Maps
<1> HIDE DEF map
<1>6. Chain!Loopback(map, i, n) \in Int
  BY <1>2, <1>5, LoopbackMakesUp
<1>7. /\ adjacency' \in Maps(n)
      /\ adjacency'[Chain!Index(i, i, n)] = Chain!Loopback(map, i, n)
      /\ \A k \in 0 .. n * n - 1 : k # Chain!Index(i, i, n) => adjacency'[k] = map[k]
  BY <1>3, <1>4, <1>5, <1>6 DEF Chain!Assign, Maps
<1>8. Balanced(adjacency, n)
  BY DEF ChainSound
<1> HIDE DEF n
<1>9. Balanced(adjacency', n)
  BY <1>2, <1>5, <1>7, <1>8, EdgeBalanced
<1> QED
  BY <1>7, <1>9 DEF n

(* A step of the chain keeps it sound. *)
LEMMA SoundIfSo ==
  ASSUME ChainSound, NodesOK', nodes_count' \in 1 .. MaxNodes + 1,
         adjacency' \in Maps(nodes_count'), Balanced(adjacency', nodes_count')
  PROVE  ChainSound'
<1>1. MaxNodes \in Nat
  BY ChainAssumption
<1>2. nodes' \in [Chain!Nodes' -> Wires] /\ current_node' \in 0 .. MaxNodes
  <2>1. nodes' \in [Chain!Nodes' -> Wires] /\ current_node' \in Chain!Nodes'
    BY DEF NodesOK, ChainOK
  <2>2. current_node' \in 0 .. MaxNodes
    <3>1. Chain!Nodes' = 0 .. nodes_count' - 1
      BY DEF Chain!Nodes
    <3>2. \A m \in 1 .. MaxNodes + 1 : \A c \in 0 .. m - 1 : c \in 0 .. MaxNodes
      BY <1>1
    <3> QED
      BY <2>1, <3>1, <3>2
  <2> QED
    BY <2>1, <2>2
<1> QED
  BY <1>2 DEF ChainSound, Chain!TypeOK, Maps, Chain!Nodes, Balanced

(* Every command and every step of the chain keeps it sound. *)
LEMMA ChainStep ==
  ASSUME CarefulNodes, CarefulEdges, ChainSound, NodesOK',
         Chain!Next \/ UNCHANGED chainVars
  PROVE  ChainSound'
<1>1. /\ nodes_count \in 1 .. MaxNodes + 1
      /\ nodes_count \in Nat \ {0}
      /\ adjacency \in Maps(nodes_count)
      /\ Balanced(adjacency, nodes_count)
  BY SoundCounts DEF ChainSound, Chain!TypeOK
<1>2. CASE UNCHANGED <<nodes_count, adjacency>>
  BY <1>1, <1>2, SoundIfSo
<1>3. CASE Chain!markovSetNodeNumber
  <2>1. PICK n \in NodeCounts : Chain!markovResize(n)
    BY <1>3 DEF Chain!markovSetNodeNumber
  <2>2. n \in 1 .. MaxNodes + 1 /\ n \in Nat \ {0}
    BY ChainAssumption
  <2>3. CASE n = nodes_count
    BY <1>2, <2>1, <2>3 DEF Chain!markovResize, Chain!vars
  <2>4. CASE n # nodes_count
    <3>1. nodes_count' = n /\ adjacency' = Chain!copyAdjacency(n)
      BY <2>1, <2>4 DEF Chain!markovResize
    <3>2. Chain!copyAdjacency(n) \in Maps(n) /\ Balanced(Chain!copyAdjacency(n), n)
      BY <1>1, <2>2, CopyIsMap, CopyIsBalanced
    <3> QED
      BY <2>2, <3>1, <3>2, SoundIfSo
  <2> QED
    BY <2>3, <2>4
<1>4. CASE Chain!markovSetEdge
  BY <1>1, <1>4, EdgeSet, SoundIfSo DEF Chain!markovSetEdge
<1>5. CASE Chain!markovSetCurrentNode \/ Chain!setWireValue \/ Chain!markovStep
  BY <1>2, <1>5 DEF Chain!markovSetCurrentNode, Chain!setWireValue, Chain!markovStep
<1> QED
  BY <1>2, <1>3, <1>4, <1>5 DEF Chain!Next, chainVars

(* A step of the filter is one of the chain or leaves the chain alone. *)
LEMMA StepsOfChain ==
  ASSUME [FilterNext]_filterVars
  PROVE  Chain!Next \/ UNCHANGED chainVars
<1>1. CASE MarkovSection
  BY <1>1 DEF MarkovSection, Chain!Next
<1>2. CASE CommandSection
  BY <1>2 DEF CommandSection, WireCommand, ChainCommand, markovSetTime, FifoCommand, ShowCommand,
              Chain!Next
<1>3. CASE FilterPoll \/ FilterFailRL \/ Packets \/ Others
  BY <1>3, OthersAreHandler
<1> QED
  BY <1>1, <1>2, <1>3 DEF FilterNext, filterVars

(* One node with its loopback edge of 100 is balanced. *)
LEMMA InitSound == FilterInit => ChainSound
<1> SUFFICES ASSUME FilterInit PROVE ChainSound
  OBVIOUS
<1>1. NodesOK
  BY InitNodes
<1>2. nodes_count = 1 /\ adjacency = [k \in {0} |-> 100] /\ current_node = 0
      /\ nodes = [i \in {0} |-> Zero]
  BY DEF FilterInit, Chain!Init
<1>3. adjacency \in Maps(1) /\ 0 .. 0 = {0}
  BY <1>2 DEF Maps
<1>4. Chain!TypeOK
  BY <1>2, <1>3, ChainAssumption DEF Chain!TypeOK, Chain!Nodes, Maps
<1>5. Total(RowOf(adjacency, 0, 1), {} \cup {0}) = 100
  <2> DEFINE w == RowOf(adjacency, 0, 1)
  <2>1. w[0] = 100
    BY <1>2 DEF RowOf, Chain!Index
  <2> HIDE DEF w
  <2>2. Total(w, {} \cup {0}) = w[0] + Total(w, {})
    BY <2>1, FS_EmptySet, TotalAdd
  <2>3. Total(w, {}) = 0
    BY TotalEmpty
  <2>4. Total(w, {} \cup {0}) = 100
    BY <2>1, <2>2, <2>3
  <2> QED
    BY <2>4 DEF w
<1>6. Balanced(adjacency, nodes_count)
  BY <1>2, <1>3, <1>5 DEF Balanced
<1> QED
  BY <1>1, <1>4, <1>6 DEF ChainSound

-----------------------------------------------------------------------------
(* Going round from c is one to one, and leads to every node.              *)
LEMMA RoundIsOnto ==
  ASSUME NEW n \in Nat \ {0}, NEW c \in 0 .. n - 1
  PROVE  /\ \A k \in 0 .. n - 1 : (c + k) % n = IF c + k < n THEN c + k ELSE c + k - n
         /\ {(c + k) % n : k \in 0 .. n - 1} = 0 .. n - 1
<1>1. ASSUME NEW k \in 0 .. n - 1
      PROVE  (c + k) % n = IF c + k < n THEN c + k ELSE c + k - n
  <2>1. CASE c + k < n
    <3>1. (0 * n + (c + k)) % n = c + k
      BY <2>1, RowAndColumn
    <3>2. 0 * n + (c + k) = c + k
      OBVIOUS
    <3> QED
      BY <2>1, <3>1, <3>2
  <2>2. CASE c + k >= n
    <3>1. (1 * n + (c + k - n)) % n = c + k - n
      BY <2>2, RowAndColumn
    <3>2. 1 * n + (c + k - n) = c + k
      OBVIOUS
    <3> QED
      BY <2>2, <3>1, <3>2
  <2> QED
    BY <2>1, <2>2
<1>2. ASSUME NEW x \in 0 .. n - 1
      PROVE  \E k \in 0 .. n - 1 : (c + k) % n = x
  <2>1. CASE x >= c
    <3>1. x - c \in 0 .. n - 1 /\ c + (x - c) < n /\ c + (x - c) = x
      BY <2>1
    <3>2. (c + (x - c)) % n = x
      BY <1>1, <3>1
    <3> QED
      BY <3>1, <3>2
  <2>2. CASE x < c
    <3>1. /\ x - c + n \in 0 .. n - 1
          /\ ~ (c + (x - c + n) < n)
          /\ c + (x - c + n) - n = x
      BY <2>2
    <3>2. (c + (x - c + n)) % n = x
      BY <1>1, <3>1
    <3> QED
      BY <3>1, <3>2
  <2> QED
    BY <2>1, <2>2
<1>3. \A k \in 0 .. n - 1 : (c + k) % n \in 0 .. n - 1
  BY RoundStaysInside
<1> QED
  BY <1>1, <1>2, <1>3

(* The weights of the edges, going round from the current node. *)
Walk == [k \in 0 .. nodes_count - 1 |->
           Chain!ADJMAP(current_node, (current_node + k) % nodes_count)]

(* Going round, all edges are met once: their sum is that of the row. *)
LEMMA WalkSum ==
  ASSUME ChainSound
  PROVE  /\ \A k \in 0 .. nodes_count - 1 : Walk[k] \in Int
         /\ Total(Walk, 0 .. nodes_count - 1) = 100
<1> DEFINE n == nodes_count
           N == 0 .. n - 1
           row == RowOf(adjacency, current_node, n)
           round == [k \in N |-> (current_node + k) % n]
<1>1. n \in Nat \ {0} /\ current_node \in N /\ adjacency \in Maps(n)
  BY SoundCounts
<1>2. row \in [N -> Int]
  BY <1>1, RowsAreInt
<1>3. /\ \A k \in N : round[k] = IF current_node + k < n THEN current_node + k
                                 ELSE current_node + k - n
      /\ {round[k] : k \in N} = N
  <2>1. {round[k] : k \in N} = {(current_node + k) % n : k \in N}
    OBVIOUS
  <2> QED
    BY <1>1, <2>1, RoundIsOnto
<1>4. \A k, m \in N : round[k] = round[m] => k = m
  <2> HIDE DEF round
  <2> QED
    BY <1>1, <1>3
<1>5. \A k \in N : Walk[k] = row[round[k]] /\ Walk[k] \in Int
  <2>1. \A k \in N : round[k] \in N
    BY <1>3
  <2>2. \A k \in N : row[round[k]] \in Int
    BY <1>2, <2>1
  <2>3. \A j \in N : row[j] = Chain!ADJMAP(current_node, j)
    BY DEF RowOf, Chain!ADJMAP
  <2>4. \A k \in N : Walk[k] = Chain!ADJMAP(current_node, round[k])
    BY DEF Walk
  <2> HIDE DEF row, round
  <2> QED
    BY <2>1, <2>2, <2>3, <2>4
<1>6. IsFiniteSet(N)
  BY <1>1, FS_Interval
<1>7. Total(row, N) = 100
  BY <1>1 DEF ChainSound, Balanced
<1> HIDE DEF row, round, N
<1>8. Total(Walk, N) = Total(row, {round[k] : k \in N})
  BY <1>4, <1>5, <1>6, TotalRenumbered
<1>9. Total(Walk, N) = 100
  BY <1>3, <1>7, <1>8
<1> QED
  BY <1>5, <1>9 DEF N

(* markovStep() only takes an edge that has a weight. *)
LEMMA ChosenHasWeight ==
  ASSUME ChainSound, NEW draw \in Draws, NEW node \in Chain!Chosen(draw), node # current_node
  PROVE  Chain!ADJMAP(current_node, node) > 0
<1> DEFINE n == nodes_count
           Adding(up) == up = [k \in 0 .. n - 1 |->
             Chain!ADJMAP(current_node, (current_node + k) % n) + IF k = 0 THEN 0 ELSE up[k - 1]]
           Upto == CHOOSE up : Adding(up)
           Stops(k) == Upto[k] >= draw \/ k = n - 1
<1>1. Chain!Chosen(draw)
        = {(current_node + k) % n :
             k \in {k \in 0 .. n - 1 : Stops(k) /\ \A j \in 0 .. k - 1 : ~ Stops(j)}}
  BY Zenon DEF Chain!Chosen
<1>2. n \in Nat \ {0} /\ current_node \in 0 .. n - 1
  BY SoundCounts
<1>3. /\ Adding(Upto)
      /\ PartialSums(Upto, Walk, n - 1)
  <2>1. \A k \in 0 .. n - 1 :
          Walk[k] = Chain!ADJMAP(current_node, (current_node + k) % n)
    BY DEF Walk
  <2>2. ASSUME NEW up
        PROVE  PartialSums(up, Walk, n - 1) <=> Adding(up)
    BY <2>1 DEF PartialSums
  <2>3. n - 1 \in Nat
    BY <1>2
  <2>4. \E up : Adding(up)
    <3> HIDE DEF Adding
    <3> QED
      BY <2>2, <2>3, PartialSumsExist
  <2>5. Adding(Upto)
    <3> HIDE DEF Adding
    <3> QED
      BY <2>4, Zenon
  <2> HIDE DEF Adding, Upto
  <2> QED
    BY <2>2, <2>5
<1> HIDE DEF Upto
<1>4. /\ \A k \in 0 .. n - 1 : Upto[k] \in Int /\ Walk[k] \in Int
      /\ \A k \in 1 .. n - 1 : Upto[k] = Walk[k] + Upto[k - 1]
      /\ Upto[n - 1] = 100
  <2>1. n - 1 \in Nat /\ n - 1 \in 0 .. n - 1
    BY <1>2
  <2>2. \A k \in 0 .. n - 1 : Walk[k] \in Int
    BY WalkSum
  <2>3. \A k \in 0 .. n - 1 : Upto[k] \in Int /\ Upto[k] = Total(Walk, 0 .. k)
    BY <1>3, <2>1, <2>2, PartialSumsAddUp
  <2>4. \A k \in 1 .. n - 1 : Upto[k] = Walk[k] + Upto[k - 1]
    <3>1. \A k \in 0 .. n - 1 : Upto[k] = Walk[k] + IF k = 0 THEN 0 ELSE Upto[k - 1]
      BY <1>3, Zenon DEF PartialSums
    <3> QED
      BY <1>2, <3>1
  <2>5. Upto[n - 1] = 100
    BY <2>1, <2>3, WalkSum
  <2> QED
    BY <2>2, <2>3, <2>4, <2>5
<1>5. PICK k \in 0 .. n - 1 : /\ node = (current_node + k) % n
                              /\ Stops(k) /\ \A j \in 0 .. k - 1 : ~ Stops(j)
  BY <1>1
<1>6. k # 0
  <2>1. (current_node + 0) % n = current_node
    BY <1>2, RoundIsOnto
  <2> QED
    BY <1>5, <2>1
<1>7. Upto[k - 1] < draw
  <2>1. k - 1 \in 0 .. k - 1 /\ k - 1 \in 0 .. n - 1
    BY <1>2, <1>6
  <2> QED
    BY <1>4, <1>5, <2>1, ChainAssumption
<1>8. Upto[k] >= draw
  BY <1>4, <1>5, ChainAssumption
<1>9. Walk[k] > 0
  <2>1. k \in 1 .. n - 1 /\ k - 1 \in 0 .. n - 1 /\ draw \in Int
    BY <1>2, <1>6, ChainAssumption
  <2>2. Upto[k] = Walk[k] + Upto[k - 1] /\ Upto[k - 1] \in Int /\ Walk[k] \in Int
    BY <1>4, <2>1
  <2> QED
    BY <1>7, <1>8, <2>1, <2>2
<1> QED
  BY <1>5, <1>9 DEF Walk

-----------------------------------------------------------------------------
(* Types, balance and current node, through every command and step         *)
(* (markovResize, markovSetEdges, markovStep).                             *)
THEOREM ChainAlwaysSound == CarefulNodes /\ CarefulEdges => (FilterSpec => []ChainSound)
<1> SUFFICES ASSUME CarefulNodes, CarefulEdges PROVE FilterSpec => []ChainSound
  OBVIOUS
<1>1. ChainSound /\ NodesOK' /\ [FilterNext]_filterVars => ChainSound'
  BY ChainStep, StepsOfChain
<1> QED
  BY <1>1, InitSound, NodesAlwaysOK, PTL DEF FilterSpec

(* After any commands every row of the chain sums to 100, and the loopback *)
(* edge is what the others lack (copyAdjacency, markovSetEdges).           *)
THEOREM RowsAlwaysBalanced == CarefulNodes /\ CarefulEdges => (FilterSpec => []RowsBalanced)
<1> SUFFICES ASSUME CarefulNodes, CarefulEdges PROVE FilterSpec => []RowsBalanced
  OBVIOUS
<1>1. ChainSound => RowsBalanced
  BY SoundCounts, BalancedRows DEF ChainSound
<1> QED
  BY <1>1, ChainAlwaysSound, PTL

(* The chain moves only along edges that have a weight: as the row sums to *)
(* 100 the walk stops at the last edge with a weight at the latest         *)
(* (markovStep).                                                           *)
THEOREM OnlyAlongEdges == CarefulNodes /\ CarefulEdges => (FilterSpec => MovesAlongEdges)
<1> SUFFICES ASSUME CarefulNodes, CarefulEdges PROVE FilterSpec => MovesAlongEdges
  OBVIOUS
<1>1. ASSUME ChainSound, Chain!markovStep, current_node' # current_node
      PROVE  Chain!ADJMAP(current_node, current_node') > 0
  BY <1>1, ChosenHasWeight DEF Chain!markovStep
<1>2. ChainSound /\ [FilterNext]_filterVars
        => [Chain!markovStep /\ current_node' # current_node
              => Chain!ADJMAP(current_node, current_node') > 0]_(Chain!vars)
  BY <1>1
<1> QED
  BY <1>2, ChainAlwaysSound, PTL DEF FilterSpec, MovesAlongEdges, Chain!MovesAlongEdges

(* A resize keeps the edges between the nodes that stay, and gives none    *)
(* to new nodes, for any two sizes (copyAdjacency).                        *)
THEOREM EdgesAlwaysKept == CarefulNodes /\ CarefulEdges => (FilterSpec => EdgesKept)
<1> SUFFICES ASSUME CarefulNodes, CarefulEdges PROVE FilterSpec => EdgesKept
  OBVIOUS
<1> DEFINE Kept == nodes_count' # nodes_count =>
       \A i \in Chain!Nodes \cap Chain!Nodes' : \A j \in Chain!Nodes' \ {i} :
         Chain!ADJMAP(i, j)' = IF j \in Chain!Nodes THEN Chain!ADJMAP(i, j) ELSE 0
<1>1. ASSUME ChainSound, [FilterNext]_filterVars, nodes_count' # nodes_count,
             NEW i \in Chain!Nodes \cap Chain!Nodes', NEW j \in Chain!Nodes' \ {i}
      PROVE  Chain!ADJMAP(i, j)' = IF j \in Chain!Nodes THEN Chain!ADJMAP(i, j) ELSE 0
  <2>1. Chain!markovSetNodeNumber
    BY <1>1, StepsOfChain
       DEF Chain!Next, chainVars, Chain!markovSetCurrentNode, Chain!markovSetEdge,
           Chain!setWireValue, Chain!markovStep
  <2>2. PICK n \in NodeCounts : Chain!markovResize(n)
    BY <2>1 DEF Chain!markovSetNodeNumber
  <2>3. n # nodes_count /\ nodes_count' = n /\ adjacency' = Chain!copyAdjacency(n)
    BY <1>1, <2>2 DEF Chain!markovResize, Chain!vars
  <2>4. /\ Chain!Nodes = 0 .. nodes_count - 1
        /\ Chain!Nodes' = 0 .. n - 1
        /\ n \in Nat \ {0}
        /\ nodes_count \in Nat \ {0}
        /\ adjacency \in Maps(nodes_count)
    BY <1>1, <2>3, SoundCounts, ChainAssumption DEF Chain!Nodes
  <2>5. i \in 0 .. n - 1 /\ j \in 0 .. n - 1 /\ i # j /\ i \in 0 .. nodes_count - 1
    BY <1>1, <2>4
  <2>6. Chain!copyAdjacency(n)[Chain!Index(i, j, n)] = Chain!Carried(i, j, n)
    BY <2>4, <2>5, EdgesCopied
  <2>7. Chain!ADJMAP(i, j)' = Chain!Carried(i, j, n)
    BY <2>3, <2>6 DEF Chain!ADJMAP, Chain!Index
  <2>8. j \in Chain!Nodes <=> j < nodes_count
    BY <2>4, <2>5
  <2> QED
    BY <2>4, <2>5, <2>7, <2>8 DEF Chain!Carried
<1>2. ChainSound /\ [FilterNext]_filterVars => [Kept]_(Chain!vars)
  BY <1>1
<1> QED
  BY <1>2, ChainAlwaysSound, PTL DEF FilterSpec, EdgesKept, Chain!EdgesKept

-----------------------------------------------------------------------------
(* The Markov timer. *)
MarkovInv ==
  /\ change_frequency \in Periods
  /\ markov_timer \in Nat
  /\ control \subseteq {"MARKOV", "COMMANDS"}
  /\ MarkovTimerArmed

(* The timer as setTimer() sets it. *)
LEMMA MarkovTimerSet ==
  ASSUME now \in Nat, NEW time \in Periods
  PROVE  /\ Armed(time) \in Nat
         /\ IF time = 0 THEN Armed(time) = Off
            ELSE Armed(time) # Off /\ Armed(time) <= now + time
BY ChainAssumption DEF Armed, Off

(* The clock never goes back. *)
LEMMA OthersKeepClock ==
  ASSUME FilterPoll \/ FilterFailRL \/ Packets \/ Others
  PROVE  now' = now \/ now' = now + 1
<1>1. CASE FilterPoll \/ FilterFailRL
  BY <1>1 DEF FilterPoll, FilterFailRL, Poll, FailRL
<1>2. CASE Packets
  BY <1>2 DEF Packets, TakeLR, HoldRL, TakeRL, CopyDropped, Copy, DrainBegin, DrainOne,
              DrainEnd, RestoreRL, SendRL
<1>3. CASE Others
  BY <1>3 DEF Others, SendCall, SendWrite, RecvRead, RecvUnlock, Arrive, Tick, appUnchanged
<1> QED
  BY <1>1, <1>2, <1>3

(* Every step keeps the timer set for no later than a period from now. *)
LEMMA MarkovStepInv ==
  ASSUME now \in Nat, MarkovInv, [FilterNext]_filterVars
  PROVE  MarkovInv'
<1>1. CASE MarkovSection
  <2>1. /\ change_frequency' = change_frequency /\ now' = now
        /\ markov_timer' = Armed(change_frequency)
        /\ control' \subseteq {"MARKOV", "COMMANDS"}
    BY <1>1 DEF MarkovSection, LastSections, MarkovInv
  <2> QED
    BY <2>1, MarkovTimerSet DEF MarkovInv, MarkovTimerArmed
<1>2. CASE CommandSection
  <2>1. now' = now /\ control' \subseteq {"MARKOV", "COMMANDS"}
    BY <1>2 DEF CommandSection, LastSections, MarkovInv
  <2>2. CASE markovSetTime
    BY <2>1, <2>2, MarkovTimerSet DEF markovSetTime, MarkovInv, MarkovTimerArmed
  <2>3. CASE WireCommand \/ ChainCommand \/ FifoCommand \/ ShowCommand
    BY <2>1, <2>3 DEF WireCommand, ChainCommand, FifoCommand, ShowCommand, timerVars,
                      MarkovInv, MarkovTimerArmed
  <2> QED
    BY <1>2, <2>2, <2>3 DEF CommandSection
<1>3. CASE FilterPoll \/ FilterFailRL \/ Packets \/ Others
  <2>1. UNCHANGED timerVars /\ control' \subseteq {"MARKOV", "COMMANDS"}
    BY <1>3 DEF FilterPoll, FilterFailRL, Packets, Others, MarkovInv
  <2>2. now' = now \/ now' = now + 1
    BY <1>3, OthersKeepClock
  <2>3. change_frequency \in Nat
    BY ChainAssumption DEF MarkovInv
  <2> QED
    BY <2>1, <2>2, <2>3 DEF timerVars, MarkovInv, MarkovTimerArmed
<1>4. CASE UNCHANGED filterVars
  BY <1>4 DEF filterVars, vars, timerVars, MarkovInv, MarkovTimerArmed
<1> QED
  BY <1>1, <1>2, <1>3, <1>4 DEF FilterNext

(* The thread starts with it set. *)
LEMMA InitMarkovTimer == FilterInit => MarkovInv
<1> SUFFICES ASSUME FilterInit PROVE MarkovInv
  OBVIOUS
<1>1. now \in Nat
  BY DEF FilterInit, Init
<1> QED
  BY <1>1, MarkovTimerSet DEF FilterInit, MarkovInv, MarkovTimerArmed

(* So the timer is always what it should be. *)
LEMMA MarkovTimerSteady == CarefulNodes => (FilterSpec => []MarkovInv)
<1> SUFFICES ASSUME CarefulNodes PROVE FilterSpec => []MarkovInv
  OBVIOUS
<1>1. TypeOK /\ MarkovInv /\ [FilterNext]_filterVars => MarkovInv'
  BY MarkovStepInv DEF TypeOK, HandlerTypeOK
<1>2. FilterSpec => []TypeOK
  BY FilterImplementsHandler, TypeCorrect, PTL DEF ImplementsHandler
<1> QED
  BY <1>1, <1>2, InitMarkovTimer, PTL DEF FilterSpec

(* While its period is not zero the chain has a timer, set for no later    *)
(* than a period from now (markovSetTime, packetHandlerThread).            *)
THEOREM MarkovTimerKept == CarefulNodes => (FilterSpec => []MarkovTimerArmed)
<1> SUFFICES ASSUME CarefulNodes PROVE FilterSpec => []MarkovTimerArmed
  OBVIOUS
<1>1. MarkovInv => MarkovTimerArmed
  BY DEF MarkovInv
<1> QED
  BY <1>1, MarkovTimerSteady, PTL

(* The types of the chain, its timer and the last sections (wf_markov.h).  *)
THEOREM FilterTypeCorrect == CarefulNodes /\ CarefulEdges => (FilterSpec => []FilterTypeOK)
<1> SUFFICES ASSUME CarefulNodes, CarefulEdges PROVE FilterSpec => []FilterTypeOK
  OBVIOUS
<1>1. ChainSound /\ MarkovInv => FilterTypeOK
  BY DEF ChainSound, MarkovInv, FilterTypeOK
<1> QED
  BY <1>1, ChainAlwaysSound, MarkovTimerSteady, PTL

=============================================================================
