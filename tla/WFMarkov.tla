------------------------------ MODULE WFMarkov ------------------------------
(***************************************************************************)
(* The Markov chain of includes/wf_markov.c: its nodes, each with its own  *)
(* wire values, the weights of the edges in one flat array, row by row,    *)
(* and the current node.  Weights are percentages.                         *)
(*                                                                         *)
(* The commands take whatever number the operator gives: CarefulNodes and  *)
(* CarefulEdges say that he only names nodes that exist.  He never asks    *)
(* for no node at all: the code then frees the nodes and fails half-way.   *)
(***************************************************************************)
EXTENDS Integers, FiniteSetsExt, Functions

CONSTANTS
  Values,         \* the configurations of a node, a value per tag and direction
  Zero,           \* the one of a new node: calloc'd
  NodeCounts,     \* the arguments of markov-numnodes, all of them positive
  MaxNodes,       \* bound: the numbers the operator may name are 0..MaxNodes
  Weights,        \* the weights given to setedge
  Draws,          \* the outcomes of drand48() * 100, rounded up as weights are whole
  CarefulNodes,   \* markov-setnode names nodes that exist
  CarefulEdges    \* and so do the edges given to setedge

VARIABLES
  nodes,          \* the configuration of each node
  nodes_count,
  adjacency,      \* the flat array of weights
  current_node

vars == <<nodes, nodes_count, adjacency, current_node>>

Nodes == 0 .. nodes_count - 1

(* ADJMAPN: where row i, column j of an N by N map is in the flat array. *)
Index(i, j, n) == i * n + j
ADJMAP(i, j) == adjacency[Index(i, j, nodes_count)]

(* Mutant of Loopback: the edge of a node to itself is not made up for. *)
LoopbackKept(map, node, n) == map[Index(node, node, n)]

(* The loopback edge that balances a row of the map. *)
Loopback(map, node, n) ==
  100 - MapThenSumSet(LAMBDA j : map[Index(node, j, n)], (0 .. n - 1) \ {node})

(* Mutant of Carried: the old map is read with the rows of the new one. *)
CarriedNewStride(i, j, n) ==
  IF i < nodes_count /\ j < nodes_count /\ Index(i, j, n) \in DOMAIN adjacency
  THEN adjacency[Index(i, j, n)] ELSE 0

(* The weight of an edge in a map of n nodes made from the present one. *)
Carried(i, j, n) ==
  IF i < nodes_count /\ j < nodes_count THEN ADJMAP(i, j) ELSE 0

(* copyAdjacency() *)
copyAdjacency(n) ==
  LET map == [k \in 0 .. n * n - 1 |-> Carried(k \div n, k % n, n)]
  IN  [k \in 0 .. n * n - 1 |->
         IF k \div n = k % n THEN Loopback(map, k % n, n) ELSE map[k]]

(* Mutant of Resized: no node is allocated. *)
ResizedOld(n) == nodes

(* The nodes, when there are n: those that stay, and new ones. *)
Resized(n) == [i \in 0 .. n - 1 |-> IF i \in Nodes THEN nodes[i] ELSE Zero]

(* Mutant of Placed: the first node deleted is taken for one that stays.   *)
PlacedTooHigh(n) == IF current_node > n THEN 0 ELSE current_node

(* The current node, when there are n. *)
Placed(n) == IF current_node >= n THEN 0 ELSE current_node

(* initMarkov(): one node, current, that only leads to itself *)
Init ==
  /\ nodes = [i \in {0} |-> Zero]
  /\ nodes_count = 1
  /\ adjacency = [k \in {0} |-> 100]
  /\ current_node = 0

(* markovResize() *)
markovResize(n) ==
  \/ /\ n = nodes_count
     /\ UNCHANGED vars
  \/ /\ n # nodes_count
     /\ nodes' = Resized(n)
     /\ current_node' = IF n < nodes_count THEN Placed(n) ELSE current_node
     /\ adjacency' = copyAdjacency(n)
     /\ nodes_count' = n

markovSetNodeNumber == \E n \in NodeCounts : markovResize(n)

markovSetCurrentNode ==
  /\ \E n \in 0 .. MaxNodes :
       /\ CarefulNodes => n \in Nodes
       /\ current_node' = n
  /\ UNCHANGED <<nodes, nodes_count, adjacency>>

(* An assignment to the flat array; one beyond its end changes other       *)
(* memory.                                                                 *)
Assign(map, k, w) == IF k \in DOMAIN map THEN [map EXCEPT ![k] = w] ELSE map

(* markovSetEdges() for one edge: the weight is set and the row of the     *)
(* start node balanced, wherever in the array that may be.                 *)
markovSetEdge ==
  /\ \E i, j \in 0 .. MaxNodes, w \in Weights :
       /\ CarefulEdges => {i, j} \subseteq Nodes
       /\ LET map == Assign(adjacency, Index(i, j, nodes_count), w)
          IN  adjacency' = Assign(map, Index(i, i, nodes_count), Loopback(map, i, nodes_count))
  /\ UNCHANGED <<nodes, nodes_count, current_node>>

(* The tags set with WIRE_BIDIRECTIONAL, whatever direction is asked for *)
Bidirectional == {"MTU", "CHANBUFSIZE"}

(* setNodeValue(), in one direction or in both: what may become of a       *)
(* configuration when one tag gets a new value.                            *)
setNodeValue(old) ==
  {new \in Values : \E tag \in DOMAIN old :
     /\ \A t \in DOMAIN old \ {tag} : new[t] = old[t]
     /\ \/ \A d, e \in DOMAIN old[tag] : new[tag][d] = new[tag][e]
        \/ /\ tag \notin Bidirectional
           /\ \E d \in DOMAIN old[tag] : \A e \in DOMAIN old[tag] \ {d} :
                new[tag][e] = old[tag][e]}

(* setWireValue() for one of the values in its argument: nothing if there  *)
(* is no such node.                                                        *)
setWireValue ==
  /\ \E i \in 0 .. MaxNodes :
       IF i \in Nodes THEN \E new \in setNodeValue(nodes[i]) : nodes' = [nodes EXCEPT ![i] = new]
       ELSE UNCHANGED nodes
  /\ UNCHANGED <<nodes_count, adjacency, current_node>>

(* Mutant of Chosen: the walk starts from the first node, not from the     *)
(* current one, so the draw is compared with other edges.                  *)
ChosenFromFirst(draw) ==
  LET n == nodes_count
      Upto[k \in 0 .. n - 1] ==
        ADJMAP(0, k) + IF k = 0 THEN 0 ELSE Upto[k - 1]
      Stops(k) == Upto[k] >= draw \/ k = n - 1
  IN  {k \in 0 .. n - 1 : Stops(k) /\ \A j \in 0 .. k - 1 : ~ Stops(j)}

(* The node that markovStep() takes for a draw: going round from the       *)
(* current node, the first whose edge, added to those before it, reaches   *)
(* the draw; the last if none does.                                        *)
Chosen(draw) ==
  LET n == nodes_count
      Upto[k \in 0 .. n - 1] ==
        ADJMAP(current_node, (current_node + k) % n) + IF k = 0 THEN 0 ELSE Upto[k - 1]
      Stops(k) == Upto[k] >= draw \/ k = n - 1
  IN  {(current_node + k) % n :
         k \in {k \in 0 .. n - 1 : Stops(k) /\ \A j \in 0 .. k - 1 : ~ Stops(j)}}

(* markovStep(), when the Markov timer expires *)
markovStep ==
  /\ current_node \in Nodes
  /\ \E draw \in Draws : current_node' \in Chosen(draw)
  /\ UNCHANGED <<nodes, nodes_count, adjacency>>

Next ==
  \/ markovSetNodeNumber \/ markovSetCurrentNode \/ markovSetEdge \/ setWireValue
  \/ markovStep

Spec == Init /\ [][Next]_vars

-----------------------------------------------------------------------------
TypeOK ==
  /\ nodes_count \in 1 .. MaxNodes + 1
  /\ nodes \in [Nodes -> Values]
  /\ adjacency \in [0 .. nodes_count * nodes_count - 1 -> Int]
  /\ current_node \in 0 .. MaxNodes

(* "The loopback edge (from a node to itself) is always computed as 100%   *)
(* minus the sum of the weights of outgoing edges" (man page, `setedge'):  *)
(* after any commands, every row of the array sums to 100.                 *)
RowsBalanced ==
  \A i \in Nodes : MapThenSumSet(LAMBDA j : ADJMAP(i, j), Nodes) = 100

(* The current node is a node: "Nodes are numbered starting from zero (to  *)
(* n-1)", "manually set the current node to the node n" (man page), and    *)
(* markovResize "Places the current node on a valid node".                 *)
CurrentExists == current_node \in DOMAIN nodes

(* A resize keeps the edges between the nodes that stay, and new nodes     *)
(* cannot be reached from them (copyAdjacency).                            *)
EdgesKept ==
  [][nodes_count' # nodes_count =>
       \A i \in Nodes \cap Nodes' : \A j \in Nodes' \ {i} :
         ADJMAP(i, j)' = IF j \in Nodes THEN ADJMAP(i, j) ELSE 0]_vars

(* The chain moves only along edges that have a weight (markovStep).       *)
MovesAlongEdges ==
  [][markovStep /\ current_node' # current_node
       => ADJMAP(current_node, current_node') > 0]_vars

=============================================================================
