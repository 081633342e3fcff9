---------------------------- MODULE WFHeapProofs ----------------------------
(***************************************************************************)
(* The array of wf_queue.c is a heap and implements the set of nodes that  *)
(* WFQueue keeps, for any number of packets, lengths and times.            *)
(*                                                                         *)
(* SiftUp and SiftDown are described hole by hole: what the array is once  *)
(* the hole at k is filled follows from what it is for the next hole, the  *)
(* parent (RisenFurther) or the lesser child (SunkFurther).  The induction *)
(* over the holes takes the first hole for which the description fails.    *)
(***************************************************************************)
EXTENDS WFHeap, WFSumLemmas

-----------------------------------------------------------------------------
(* The order of the nodes *)

Node == Queue!Node

(* m may be above n. *)
Above(m, n) == ~ Before(n, m)

(* Nodes are ordered by their keys: any two can be compared. *)
LEMMA Ordering ==
  ASSUME NEW a \in Node, NEW b \in Node
  PROVE  /\ Above(a, a)
         /\ Before(a, b) => Above(a, b)
         /\ \A c \in Node : Above(a, b) /\ Above(b, c) => Above(a, c)
BY DEF Above, Before, Queue!Before, Node, Queue!Node

(* compareNode with the sentinel: no node is before it. *)
LEMMA SentinelFirst ==
  ASSUME NEW h, NEW new \in Node, new.forward_time \in Nat
  PROVE  ~ Before(new, At(h, 0))
BY DEF Before, Queue!Before, Node, Queue!Node, At, Sentinel

(* The nodes in the places from m to n, and that they are different *)
Nodes(h, m, n) == {h[j] : j \in m .. n}
Different(h, m, n) == \A i, j \in m .. n : h[i] = h[j] => i = j

(* The nodes up to n are a heap. *)
Ordered(h, n) == \A j \in 2 .. n : Above(h[j \div 2], h[j])

(* Parent and child *)
LEMMA Halves ==
  ASSUME NEW k \in Nat, k >= 2
  PROVE  k \div 2 \in 1 .. k - 1 /\ 2 * (k \div 2) <= k /\ k <= 2 * (k \div 2) + 1
OBVIOUS

(* The root is above all others. *)
LEMMA RootLeast ==
  ASSUME NEW n \in Nat, NEW h \in Seq(Node), n <= Len(h), Ordered(h, n)
  PROVE  \A k \in 1 .. n : Above(h[1], h[k])
<1> DEFINE T == {k \in 1 .. n : ~ Above(h[1], h[k])}
<1>1. SUFFICES ASSUME T # {} PROVE FALSE
  OBVIOUS
<1>2. PICK k \in T : \A m \in T : k <= m
  <2>1. T \in SUBSET Nat
    OBVIOUS
  <2> HIDE DEF T
  <2> QED
    BY <1>1, <2>1, LeastMember
<1>3. k \in 1 .. n /\ h[k] \in Node /\ h[1] \in Node
  OBVIOUS
<1>4. k >= 2
  BY <1>2, <1>3, Ordering
<1>5. k \div 2 \in 1 .. k - 1
  BY <1>3, <1>4, Halves
<1>6. Above(h[1], h[k \div 2])
  BY <1>2, <1>3, <1>5
<1>7. Above(h[k \div 2], h[k])
  BY <1>3, <1>4 DEF Ordered
<1>8. h[k \div 2] \in Node
  BY <1>3, <1>5
<1> QED
  BY <1>2, <1>3, <1>6, <1>7, <1>8, Ordering

-----------------------------------------------------------------------------
(* The hole that moves up *)

(* The arrays that the hole of SiftUp leaves, for holes up to n *)
Rising(up, h, new, n) ==
  up = [k \in 1 .. n |->
          IF Before(new, At(h, k \div 2))
          THEN [up[k \div 2] EXCEPT ![k] = h[k \div 2]]
          ELSE [h EXCEPT ![k] = new]]

(* There are such arrays: each is made from the one of a smaller hole. *)
LEMMA RisingExists ==
  ASSUME NEW h, NEW new \in Node, new.forward_time \in Nat, NEW n \in Nat
  PROVE  \E up : Rising(up, h, new, n)
<1> DEFINE T == {m \in Nat : \E up : Rising(up, h, new, m)}
<1>1. 0 \in T
  <2>1. Rising([k \in 1 .. 0 |-> h], h, new, 0)
    BY DEF Rising
  <2> QED
    BY <2>1
<1>2. ASSUME NEW m \in T
      PROVE  m + 1 \in T
  <2>1. PICK up : Rising(up, h, new, m)
    BY <1>2
  <2> DEFINE next == [k \in 1 .. m + 1 |->
                        IF Before(new, At(h, k \div 2))
                        THEN [up[k \div 2] EXCEPT ![k] = h[k \div 2]]
                        ELSE [h EXCEPT ![k] = new]]
  <2>2. \A k \in 1 .. m : next[k] = up[k]
    <3> TAKE k \in 1 .. m
    <3>1. k \in 1 .. m + 1
      OBVIOUS
    <3>2. up[k] = IF Before(new, At(h, k \div 2))
                  THEN [up[k \div 2] EXCEPT ![k] = h[k \div 2]]
                  ELSE [h EXCEPT ![k] = new]
      BY <2>1, Zenon DEF Rising
    <3>3. next[k] = IF Before(new, At(h, k \div 2))
                    THEN [up[k \div 2] EXCEPT ![k] = h[k \div 2]]
                    ELSE [h EXCEPT ![k] = new]
      BY <3>1, Zenon
    <3> QED
      BY <3>2, <3>3
  <2>3. ASSUME NEW k \in 1 .. m + 1, Before(new, At(h, k \div 2))
        PROVE  next[k \div 2] = up[k \div 2]
    <3>1. k # 1
      <4>1. 1 \div 2 = 0
        OBVIOUS
      <4> QED
        BY <2>3, <4>1, SentinelFirst
    <3>2. k \div 2 \in 1 .. m
      BY <3>1, Halves
    <3> HIDE DEF next
    <3> QED
      BY <2>2, <3>2
  <2>4. Rising(next, h, new, m + 1)
    <3>1. \A k \in 1 .. m + 1 :
            (IF Before(new, At(h, k \div 2))
             THEN [up[k \div 2] EXCEPT ![k] = h[k \div 2]]
             ELSE [h EXCEPT ![k] = new])
            = (IF Before(new, At(h, k \div 2))
               THEN [next[k \div 2] EXCEPT ![k] = h[k \div 2]]
               ELSE [h EXCEPT ![k] = new])
      <4> HIDE DEF next
      <4> QED
        BY <2>3
    <3> QED
      BY <3>1, Zenon DEF Rising
  <2> HIDE DEF next
  <2> QED
    BY <2>4
<1>3. T = Nat
  <2> HIDE DEF T
  <2>1. T \in SUBSET Nat
    BY DEF T
  <2> QED
    BY <1>1, <1>2, <2>1, NumberInduction
<1> QED
  BY <1>3

(* SiftUp is the one of the last hole. *)
LEMMA SiftUpIs ==
  ASSUME NEW h, Len(h) \in Nat, NEW new \in Node, new.forward_time \in Nat
  PROVE  \E up : Rising(up, h, new, Len(h)) /\ SiftUp(h, new) = up[Len(h)]
<1> DEFINE up == CHOOSE hole : Rising(hole, h, new, Len(h))
<1>1. SiftUp(h, new) = up[Len(h)]
  BY Zenon DEF SiftUp, Rising
<1>2. Rising(up, h, new, Len(h))
  BY RisingExists
<1> HIDE DEF up
<1> QED
  BY <1>1, <1>2

(* What the array is once the hole at k of SiftUp is filled *)
Risen(h, new, r, k) ==
  /\ r \in Seq(Node) /\ Len(r) = Len(h)
  /\ \A j \in k + 1 .. Len(h) : r[j] = h[j]
  /\ Nodes(r, 1, k) = Nodes(h, 1, k - 1) \cup {new}
  /\ Different(r, 1, k)
  /\ k < Len(h) => Above(r[k], h[k])
  /\ \A j \in 2 .. Len(h) : j < Len(h) \/ k = Len(h) => Above(r[j \div 2], r[j])

(* The array before: a heap but for its last place, and none of its nodes  *)
(* is the new one. *)
Opened(h, new) ==
  /\ h \in Seq(Node) /\ Len(h) >= 1 /\ new \in Node /\ new.forward_time \in Nat
  /\ Ordered(h, Len(h) - 1)
  /\ Different(h, 1, Len(h) - 1)
  /\ new \notin Nodes(h, 1, Len(h) - 1)

(* The same, place by place *)
LEMMA OpenedIs ==
  ASSUME NEW h, NEW new, Opened(h, new)
  PROVE  /\ h \in Seq(Node) /\ Len(h) \in Nat /\ new \in Node
         /\ \A j \in 1 .. Len(h) : h[j] \in Node
         /\ \A j \in 2 .. Len(h) - 1 : Above(h[j \div 2], h[j])
         /\ \A j \in 1 .. Len(h) - 1 : h[j] # new
         /\ \A i, j \in 1 .. Len(h) - 1 : h[i] = h[j] => i = j
<1>1. h \in Seq(Node) /\ Len(h) \in Nat /\ new \in Node /\ \A j \in 1 .. Len(h) : h[j] \in Node
  BY DEF Opened
<1> QED
  BY <1>1 DEF Opened, Ordered, Different, Nodes

(* The new node fits in the hole. *)
LEMMA RisenHere ==
  ASSUME NEW h, NEW new, Opened(h, new), NEW k \in 1 .. Len(h),
         ~ Before(new, At(h, k \div 2)), k = Len(h) \/ Before(new, h[k])
  PROVE  Risen(h, new, [h EXCEPT ![k] = new], k)
<1> DEFINE r == [h EXCEPT ![k] = new]
           L == Len(h)
<1>1. /\ h \in Seq(Node) /\ L \in Nat /\ new \in Node /\ \A j \in 1 .. L : h[j] \in Node
      /\ \A j \in 2 .. L - 1 : Above(h[j \div 2], h[j])
      /\ \A j \in 1 .. L - 1 : h[j] # new
      /\ \A i, j \in 1 .. L - 1 : h[i] = h[j] => i = j
  BY OpenedIs
<1>2. /\ r \in Seq(Node) /\ Len(r) = L /\ r[k] = new
      /\ \A j \in 1 .. L : j # k => r[j] = h[j]
  BY <1>1
<1> HIDE DEF r, L
<1>3. k \in 1 .. L
  BY DEF L
<1>4. Nodes(r, 1, k) = Nodes(h, 1, k - 1) \cup {new}
  BY <1>1, <1>2, <1>3 DEF Nodes
<1>5. Different(r, 1, k)
  BY <1>1, <1>2, <1>3 DEF Different
<1>6. k < L => Above(new, h[k]) /\ Before(new, h[k])
  BY <1>1, <1>3, Ordering DEF L
<1>7. ASSUME NEW j \in 2 .. L, j < L \/ k = L
      PROVE  Above(r[j \div 2], r[j])
  <2>0. j \div 2 \in 1 .. j - 1 /\ j \in Nat
    BY <1>1, Halves
  <2>1. CASE j = k
    <3>1. r[j \div 2] = h[j \div 2] /\ r[j] = new
      BY <1>1, <1>2, <1>3, <2>0, <2>1
    <3>2. At(h, k \div 2) = h[j \div 2]
      BY <2>0, <2>1 DEF At
    <3> QED
      BY <3>1, <3>2 DEF Above
  <2>2. CASE j # k /\ j \div 2 = k
    <3>1. j \in 2 .. L - 1 /\ k < L
      BY <1>1, <1>3, <1>7, <2>0, <2>2
    <3>2. r[j] = h[j] /\ r[k] = new /\ h[j] \in Node /\ h[k] \in Node
      BY <1>1, <1>2, <1>3, <2>2
    <3>3. Above(h[k], h[j])
      BY <1>1, <2>2, <3>1
    <3> QED
      BY <1>1, <1>6, <2>2, <3>1, <3>2, <3>3, Ordering
  <2>3. CASE j # k /\ j \div 2 # k
    <3>1. r[j] = h[j] /\ r[j \div 2] = h[j \div 2]
      BY <1>1, <1>2, <2>0, <2>3
    <3>2. j \in 2 .. L - 1
      BY <1>1, <1>7, <2>3
    <3> QED
      BY <1>1, <3>1, <3>2
  <2> QED
    BY <2>1, <2>2, <2>3
<1>8. \A j \in k + 1 .. L : r[j] = h[j]
  BY <1>1, <1>2, <1>3
<1> QED
  BY <1>2, <1>4, <1>5, <1>6, <1>7, <1>8 DEF Risen, r, L

(* The parent comes down, and the rest is done for its place. *)
LEMMA RisenFurther ==
  ASSUME NEW h, NEW new, Opened(h, new), NEW k \in 2 .. Len(h),
         NEW q, Risen(h, new, q, k \div 2)
  PROVE  Risen(h, new, [q EXCEPT ![k] = h[k \div 2]], k)
<1> DEFINE L == Len(h)
           p == k \div 2
           r == [q EXCEPT ![k] = h[p]]
<1>1. /\ h \in Seq(Node) /\ L \in Nat /\ new \in Node /\ \A j \in 1 .. L : h[j] \in Node
      /\ \A j \in 2 .. L - 1 : Above(h[j \div 2], h[j])
      /\ \A j \in 1 .. L - 1 : h[j] # new
      /\ \A i, j \in 1 .. L - 1 : h[i] = h[j] => i = j
  BY OpenedIs
<1>2. k \in 2 .. L /\ p \in 1 .. k - 1 /\ p < L
  BY <1>1, Halves
<1>3. /\ q \in Seq(Node) /\ Len(q) = L
      /\ \A j \in p + 1 .. L : q[j] = h[j]
      /\ Nodes(q, 1, p) = Nodes(h, 1, p - 1) \cup {new}
      /\ Different(q, 1, p)
      /\ Above(q[p], h[p])
      /\ \A j \in 2 .. L - 1 : Above(q[j \div 2], q[j])
  <2> HIDE DEF p
  <2>1. \A j \in 2 .. L - 1 : j \in 2 .. L /\ j < L
    BY <1>1
  <2> QED
    BY <1>2, <2>1 DEF Risen, p
<1>4. /\ r \in Seq(Node) /\ Len(r) = L /\ r[k] = h[p]
      /\ \A j \in 1 .. L : j # k => r[j] = q[j]
  BY <1>1, <1>2, <1>3
<1> HIDE DEF r, L, p
<1>5. Nodes(r, 1, k) = Nodes(h, 1, k - 1) \cup {new}
  <2>1. \A j \in 1 .. p : r[j] = q[j]
    BY <1>1, <1>2, <1>4
  <2>2. \A j \in p + 1 .. k - 1 : r[j] = h[j]
    BY <1>1, <1>2, <1>3, <1>4
  <2>3. Nodes(r, 1, k) = Nodes(q, 1, p) \cup Nodes(h, p + 1, k - 1) \cup {h[p]}
    <3>1. 1 .. k = (1 .. p) \cup (p + 1 .. k - 1) \cup {k}
      BY <1>2
    <3> QED
      BY <1>4, <2>1, <2>2, <3>1 DEF Nodes
  <2>4. Nodes(h, 1, k - 1) = Nodes(h, 1, p - 1) \cup {h[p]} \cup Nodes(h, p + 1, k - 1)
    <3>1. 1 .. k - 1 = (1 .. p - 1) \cup {p} \cup (p + 1 .. k - 1)
      BY <1>2
    <3> QED
      BY <3>1 DEF Nodes
  <2> QED
    BY <1>3, <2>3, <2>4
<1>6. Different(r, 1, k)
  <2>1. \A j \in 1 .. p : r[j] = q[j] /\ (q[j] = new \/ \E l \in 1 .. p - 1 : q[j] = h[l])
    <3>1. \A j \in 1 .. p : q[j] \in Nodes(h, 1, p - 1) \cup {new}
      BY <1>3 DEF Nodes
    <3> QED
      BY <1>1, <1>2, <1>4, <3>1 DEF Nodes
  <2>2. \A j \in p + 1 .. k - 1 : r[j] = h[j]
    BY <1>1, <1>2, <1>3, <1>4
  <2>3. \A i, j \in 1 .. p : r[i] = r[j] => i = j
    BY <1>3, <2>1 DEF Different
  <2>4. \A i \in 1 .. p, j \in p + 1 .. k : r[i] # r[j]
    <3> TAKE i \in 1 .. p, j \in p + 1 .. k
    <3>1. PICK l \in p .. L - 1 : r[j] = h[l]
      <4>1. CASE j = k
        BY <1>1, <1>2, <1>4, <4>1
      <4>2. CASE j # k
        <5>1. j \in p + 1 .. k - 1 /\ j \in p .. L - 1
          BY <1>1, <1>2, <4>2
        <5> QED
          BY <2>2, <5>1
      <4> QED
        BY <4>1, <4>2
    <3>2. r[i] = new \/ \E m \in 1 .. p - 1 : r[i] = h[m]
      BY <2>1
    <3>3. l \in 1 .. L - 1 /\ h[l] # new /\ \A m \in 1 .. p - 1 : h[m] # h[l]
      BY <1>1, <1>2
    <3> QED
      BY <3>1, <3>2, <3>3
  <2>5. \A i, j \in p + 1 .. k : r[i] = r[j] => i = j
    <3>1. \A i \in p + 1 .. k - 1 : i \in 1 .. L - 1 /\ p \in 1 .. L - 1 /\ i # p
      BY <1>1, <1>2
    <3>2. \A i \in p + 1 .. k : i = k \/ i \in p + 1 .. k - 1
      BY <1>2
    <3> QED
      BY <1>1, <1>4, <2>2, <3>1, <3>2
  <2>6. \A i \in 1 .. k : i \in 1 .. p \/ i \in p + 1 .. k
    BY <1>2
  <2> QED
    BY <2>3, <2>4, <2>5, <2>6 DEF Different
<1>7. k < L => Above(r[k], h[k])
  BY <1>1, <1>2, <1>4 DEF p
<1>8. ASSUME NEW j \in 2 .. L, j < L \/ k = L
      PROVE  Above(r[j \div 2], r[j])
  <2>0. j \div 2 \in 1 .. j - 1 /\ j \in Nat
    BY <1>1, Halves
  <2>1. CASE j = k
    <3>1. r[p] = q[p] /\ r[j] = h[p]
      BY <1>1, <1>2, <1>4, <2>1
    <3> QED
      BY <1>3, <2>1, <3>1 DEF p
  <2>2. CASE j # k /\ j \div 2 = k
    <3>1. j \in 2 .. L - 1 /\ k < L /\ k \in 2 .. L - 1 /\ j \in p + 1 .. L
      BY <1>1, <1>2, <1>8, <2>0, <2>2
    <3>2. r[j] = h[j] /\ r[k] = h[p]
      BY <1>1, <1>3, <1>4, <2>2, <3>1
    <3>3. Above(h[k], h[j]) /\ Above(h[p], h[k])
      BY <1>1, <2>2, <3>1 DEF p
    <3>4. h[p] \in Node /\ h[k] \in Node /\ h[j] \in Node
      BY <1>1, <1>2
    <3> QED
      BY <2>2, <3>2, <3>3, <3>4, Ordering
  <2>3. CASE j # k /\ j \div 2 # k
    <3>1. r[j] = q[j] /\ r[j \div 2] = q[j \div 2]
      BY <1>1, <1>4, <2>0, <2>3
    <3>2. j \in 2 .. L - 1
      BY <1>1, <1>8, <2>3
    <3> QED
      BY <1>3, <3>1, <3>2
  <2> QED
    BY <2>1, <2>2, <2>3
<1>9. \A j \in k + 1 .. L : r[j] = h[j]
  BY <1>1, <1>2, <1>3, <1>4
<1> QED
  BY <1>4, <1>5, <1>6, <1>7, <1>8, <1>9 DEF Risen, r, L, p

(* SiftUp makes a heap of the nodes and the new one. *)
LEMMA SiftUpDoes ==
  ASSUME NEW h, NEW new, Opened(h, new)
  PROVE  Risen(h, new, SiftUp(h, new), Len(h))
<1> DEFINE L == Len(h)
<1>1. h \in Seq(Node) /\ L \in Nat \ {0} /\ new \in Node /\ new.forward_time \in Nat
  BY DEF Opened
<1>2. PICK up : Rising(up, h, new, L) /\ SiftUp(h, new) = up[L]
  BY <1>1, SiftUpIs
<1> HIDE DEF L
<1>3. \A k \in 1 .. L : up[k] = IF Before(new, At(h, k \div 2))
                                THEN [up[k \div 2] EXCEPT ![k] = h[k \div 2]]
                                ELSE [h EXCEPT ![k] = new]
  BY <1>2, Zenon DEF Rising
<1> DEFINE Claim(k) == k = L \/ Before(new, h[k]) => Risen(h, new, up[k], k)
           T == {k \in 1 .. L : ~ Claim(k)}
<1>4. T = {}
  <2>1. SUFFICES ASSUME T # {} PROVE FALSE
    OBVIOUS
  <2>2. PICK k \in T : \A m \in T : k <= m
    <3>1. T \in SUBSET Nat
      OBVIOUS
    <3> HIDE DEF T
    <3> QED
      BY <2>1, <3>1, LeastMember
  <2>3. /\ k \in 1 .. L /\ (k = L \/ Before(new, h[k])) /\ ~ Risen(h, new, up[k], k)
        /\ \A m \in 1 .. k - 1 : Claim(m)
    <3>1. \A m \in 1 .. k - 1 : m \in 1 .. L /\ ~ (k <= m)
      BY <1>1
    <3>2. k \in 1 .. L /\ ~ Claim(k)
      OBVIOUS
    <3>3. \A m \in 1 .. k - 1 : Claim(m)
      <4> HIDE DEF Claim
      <4> QED
        BY <2>2, <3>1
    <3> QED
      BY <3>2, <3>3
  <2>4. CASE ~ Before(new, At(h, k \div 2))
    <3>1. up[k] = [h EXCEPT ![k] = new]
      BY <1>3, <2>3, <2>4
    <3> QED
      BY <2>3, <2>4, <3>1, RisenHere DEF L
  <2>5. CASE Before(new, At(h, k \div 2))
    <3>1. k # 1
      <4>1. 1 \div 2 = 0
        OBVIOUS
      <4> QED
        BY <1>1, <2>5, <4>1, SentinelFirst
    <3>2. k \in 2 .. L /\ k \div 2 \in 1 .. k - 1
      BY <1>1, <2>3, <3>1, Halves
    <3>3. Before(new, h[k \div 2])
      BY <2>5, <3>2 DEF At
    <3>4. Risen(h, new, up[k \div 2], k \div 2)
      BY <2>3, <3>2, <3>3
    <3>5. up[k] = [up[k \div 2] EXCEPT ![k] = h[k \div 2]]
      BY <1>3, <2>3, <2>5
    <3> QED
      BY <2>3, <3>2, <3>4, <3>5, RisenFurther DEF L
  <2> QED
    BY <2>4, <2>5
<1>5. Claim(L)
  BY <1>1, <1>4
<1> QED
  BY <1>2, <1>5 DEF L

-----------------------------------------------------------------------------
(* The hole that moves down *)

(* The arrays that the hole of SiftDown leaves, for holes from n on *)
Sinking(down, h, size, n) ==
  down = [k \in n .. Len(h) |->
            IF k > size \div 2 \/ Before(h[size + 1], h[Child(h, size, k)])
            THEN [h EXCEPT ![k] = h[size + 1]]
            ELSE [down[Child(h, size, k)] EXCEPT ![k] = h[Child(h, size, k)]]]

(* Where the children of k are *)
LEMMA ChildIs ==
  ASSUME NEW h, NEW size \in Nat, NEW k \in 1 .. size \div 2
  PROVE  /\ Child(h, size, k) \in {2 * k, 2 * k + 1}
         /\ Child(h, size, k) \in 2 .. size /\ k < Child(h, size, k)
         /\ Child(h, size, k) \div 2 = k
BY DEF Child

(* The lesser child is above the other. *)
LEMMA LesserChild ==
  ASSUME NEW size \in Nat, NEW h \in Seq(Node), Len(h) >= size, NEW k \in 1 .. size \div 2
  PROVE  \A j \in 2 .. size : j \div 2 = k => Above(h[Child(h, size, k)], h[j])
<1> TAKE j \in 2 .. size
<1> SUFFICES ASSUME j \div 2 = k PROVE Above(h[Child(h, size, k)], h[j])
  OBVIOUS
<1>1. j \in {2 * k, 2 * k + 1}
  OBVIOUS
<1>2. \A i \in 2 .. size : h[i] \in Node
  OBVIOUS
<1>3. 2 * k \in 2 .. size
  OBVIOUS
<1>4. CASE j = 2 * k
  BY <1>2, <1>3, <1>4, Ordering DEF Child
<1>5. CASE j = 2 * k + 1
  <2>1. 2 * k < size
    BY <1>5
  <2>2. CASE Before(h[2 * k + 1], h[2 * k])
    <3>1. Child(h, size, k) = j
      BY <1>5, <2>1, <2>2 DEF Child
    <3> QED
      BY <1>2, <3>1, Ordering
  <2>3. CASE ~ Before(h[2 * k + 1], h[2 * k])
    <3>1. Child(h, size, k) = 2 * k
      BY <2>3 DEF Child
    <3> QED
      BY <1>5, <2>3, <3>1 DEF Above
  <2> QED
    BY <2>2, <2>3
<1> QED
  BY <1>1, <1>4, <1>5

(* There are such arrays: each is made from the one of a larger hole. *)
LEMMA SinkingExists ==
  ASSUME NEW h, NEW size \in Nat, Len(h) = size + 1
  PROVE  \E down : Sinking(down, h, size, 1)
<1> DEFINE L == Len(h)
           T == {m \in Nat : m <= L => \E down : Sinking(down, h, size, L + 1 - m)}
<1>1. 0 \in T
  <2>1. Sinking([k \in L + 1 .. L |-> h], h, size, L + 1)
    <3>1. L + 1 .. L = {}
      OBVIOUS
    <3> QED
      BY <3>1 DEF Sinking
  <2>2. L + 1 - 0 = L + 1
    OBVIOUS
  <2> HIDE DEF L
  <2> QED
    BY <2>1, <2>2
<1>2. ASSUME NEW m \in T
      PROVE  m + 1 \in T
  <2>1. SUFFICES ASSUME m + 1 <= L
                 PROVE  \E down : Sinking(down, h, size, L + 1 - (m + 1))
    OBVIOUS
  <2>2. PICK down : Sinking(down, h, size, L + 1 - m)
    BY <1>2, <2>1
  <2> DEFINE n == L + 1 - (m + 1)
             Step(f, k) == IF k > size \div 2 \/ Before(h[size + 1], h[Child(h, size, k)])
                           THEN [h EXCEPT ![k] = h[size + 1]]
                           ELSE [f[Child(h, size, k)] EXCEPT ![k] = h[Child(h, size, k)]]
             next == [k \in n .. L |-> Step(down, k)]
  <2>3. n \in 1 .. L /\ n + 1 = L + 1 - m
    BY <2>1
  <2>4. \A k \in n + 1 .. L : next[k] = down[k]
    <3> TAKE k \in n + 1 .. L
    <3>1. k \in n .. L
      BY <2>3
    <3>2. down[k] = Step(down, k)
      <4> HIDE DEF n
      <4> QED
        BY <2>2, <2>3, Zenon DEF Sinking
    <3>3. next[k] = Step(down, k)
      <4> HIDE DEF Step
      <4> QED
        BY <3>1, Zenon
    <3> QED
      BY <3>2, <3>3
  <2>5. \A k \in n .. L : Step(down, k) = Step(next, k)
    <3> TAKE k \in n .. L
    <3>1. CASE k > size \div 2
      <4> HIDE DEF next
      <4> QED
        BY <3>1
    <3>2. CASE ~ (k > size \div 2)
      <4>1. k \in 1 .. size \div 2
        BY <2>3, <3>2
      <4>2. Child(h, size, k) \in 2 .. size /\ k < Child(h, size, k)
        BY <4>1, ChildIs
      <4>3. Child(h, size, k) \in n + 1 .. L
        BY <2>3, <4>2
      <4>4. next[Child(h, size, k)] = down[Child(h, size, k)]
        <5> HIDE DEF next
        <5> QED
          BY <2>4, <4>3
      <4> HIDE DEF next
      <4> QED
        BY <4>4
    <3> QED
      BY <3>1, <3>2
  <2>6. Sinking(next, h, size, n)
    <3>1. next = [k \in n .. L |-> Step(next, k)]
      <4> HIDE DEF Step
      <4> QED
        BY <2>5, Zenon
    <3> HIDE DEF next, n
    <3> QED
      BY <3>1, Zenon DEF Sinking
  <2> HIDE DEF next
  <2> QED
    BY <2>6
<1>3. T = Nat
  <2> HIDE DEF T
  <2>1. T \in SUBSET Nat
    BY DEF T
  <2> QED
    BY <1>1, <1>2, <2>1, NumberInduction
<1>4. L \in T /\ L + 1 - L = 1
  BY <1>3
<1> QED
  BY <1>4

(* SiftDown is the one of the root. *)
LEMMA SiftDownIs ==
  ASSUME NEW h, NEW size \in Nat, Len(h) = size + 1
  PROVE  \E down : Sinking(down, h, size, 1) /\ SiftDown(h, size) = down[1]
<1> DEFINE down == CHOOSE hole : Sinking(hole, h, size, 1)
<1>1. SiftDown(h, size) = down[1]
  BY Zenon DEF SiftDown, Sinking
<1>2. Sinking(down, h, size, 1)
  BY SinkingExists
<1> HIDE DEF down
<1> QED
  BY <1>1, <1>2

(* What the array is once the hole at k of SiftDown is filled *)
Sunk(h, size, r, k) ==
  /\ r \in Seq(Node) /\ Len(r) = Len(h)
  /\ \A j \in 1 .. size : j < k \/ (k < j /\ j < 2 * k) => r[j] = h[j]
  /\ Nodes(r, k, size) = Nodes(h, k + 1, size) \cup {h[size + 1]}
  /\ Different(r, k, size)
  /\ k > 1 => Above(h[k], r[k])
  /\ Ordered(r, size)

(* The array before: a heap of different nodes, one more than stay *)
Full(h, size) ==
  /\ size \in Nat /\ h \in Seq(Node) /\ Len(h) = size + 1
  /\ Ordered(h, size + 1) /\ Different(h, 1, size + 1)

(* The same, place by place *)
LEMMA FullIs ==
  ASSUME NEW h, NEW size, Full(h, size)
  PROVE  /\ size \in Nat /\ h \in Seq(Node) /\ Len(h) = size + 1
         /\ \A j \in 1 .. size + 1 : h[j] \in Node
         /\ \A j \in 2 .. size : Above(h[j \div 2], h[j])
         /\ \A i, j \in 1 .. size + 1 : h[i] = h[j] => i = j
<1>1. /\ size \in Nat /\ h \in Seq(Node) /\ Len(h) = size + 1
      /\ \A j \in 1 .. size + 1 : h[j] \in Node
  BY DEF Full
<1> QED
  BY <1>1 DEF Full, Ordered, Different

(* The last node fits in the hole. *)
LEMMA SunkHere ==
  ASSUME NEW h, NEW size, Full(h, size), NEW k \in 1 .. size,
         k > size \div 2 \/ Before(h[size + 1], h[Child(h, size, k)]),
         k = 1 \/ Above(h[k], h[size + 1])
  PROVE  Sunk(h, size, [h EXCEPT ![k] = h[size + 1]], k)
<1> DEFINE old == h[size + 1]
           r == [h EXCEPT ![k] = old]
<1>1. /\ size \in Nat /\ h \in Seq(Node) /\ Len(h) = size + 1
      /\ \A j \in 1 .. size + 1 : h[j] \in Node
      /\ \A j \in 2 .. size : Above(h[j \div 2], h[j])
      /\ \A i, j \in 1 .. size + 1 : h[i] = h[j] => i = j
  BY FullIs
<1>2. /\ r \in Seq(Node) /\ Len(r) = size + 1 /\ r[k] = old /\ old \in Node
      /\ \A j \in 1 .. size + 1 : j # k => r[j] = h[j]
  BY <1>1
<1>3. \A j \in 2 .. size : j \div 2 = k => Above(old, h[j])
  <2>1. CASE k > size \div 2
    <3>1. \A j \in 2 .. size : j \div 2 # k
      BY <1>1, <2>1
    <3> QED
      BY <3>1
  <2>2. CASE ~ (k > size \div 2) /\ Before(old, h[Child(h, size, k)])
    <3>1. k \in 1 .. size \div 2
      BY <1>1, <2>2
    <3>2. Child(h, size, k) \in 2 .. size
      BY <1>1, <3>1, ChildIs
    <3>3. Above(old, h[Child(h, size, k)]) /\ h[Child(h, size, k)] \in Node
      BY <1>1, <1>2, <2>2, <3>2, Ordering
    <3>4. \A j \in 2 .. size : j \div 2 = k => Above(h[Child(h, size, k)], h[j])
      BY <1>1, <3>1, LesserChild
    <3>5. \A j \in 2 .. size : h[j] \in Node
      BY <1>1
    <3> HIDE DEF old, r
    <3> QED
      BY <1>2, <3>3, <3>4, <3>5, Ordering
  <2> QED
    BY <2>1, <2>2
<1> HIDE DEF r, old
<1>4. Nodes(r, k, size) = Nodes(h, k + 1, size) \cup {old}
  <2>1. k .. size = (k + 1 .. size) \cup {k}
    BY <1>1
  <2>2. \A j \in k + 1 .. size : r[j] = h[j]
    BY <1>1, <1>2
  <2> QED
    BY <1>2, <2>1, <2>2 DEF Nodes
<1>5. Different(r, k, size)
  <2>1. \A j \in k .. size : j # k => r[j] = h[j] /\ h[j] # old
    <3>1. \A j \in k .. size : j \in 1 .. size + 1 /\ size + 1 \in 1 .. size + 1 /\ j # size + 1
      BY <1>1
    <3> QED
      BY <1>1, <1>2, <3>1 DEF old
  <2>2. \A i, j \in k .. size : h[i] = h[j] => i = j
    BY <1>1
  <2> QED
    BY <1>2, <2>1, <2>2 DEF Different
<1>6. k > 1 => Above(h[k], r[k])
  BY <1>2 DEF old
<1>7. ASSUME NEW j \in 2 .. size
      PROVE  Above(r[j \div 2], r[j])
  <2>0. j \div 2 \in 1 .. j - 1 /\ j \in Nat
    BY <1>1, Halves
  <2>1. CASE j = k
    <3>1. r[j \div 2] = h[j \div 2] /\ r[j] = old
      BY <1>1, <1>2, <2>0, <2>1
    <3>2. Above(h[j \div 2], h[k]) /\ Above(h[k], old)
      BY <1>1, <2>1 DEF old
    <3>3. h[j \div 2] \in Node /\ h[k] \in Node
      BY <1>1, <2>0
    <3> QED
      BY <1>2, <3>1, <3>2, <3>3, Ordering
  <2>2. CASE j # k /\ j \div 2 = k
    BY <1>1, <1>2, <1>3, <2>0, <2>2
  <2>3. CASE j # k /\ j \div 2 # k
    <3>1. r[j] = h[j] /\ r[j \div 2] = h[j \div 2]
      BY <1>1, <1>2, <2>0, <2>3
    <3> QED
      BY <1>1, <3>1
  <2> QED
    BY <2>1, <2>2, <2>3
<1>8. \A j \in 1 .. size : j < k \/ (k < j /\ j < 2 * k) => r[j] = h[j]
  BY <1>1, <1>2
<1> QED
  BY <1>1, <1>2, <1>4, <1>5, <1>6, <1>7, <1>8 DEF Sunk, Ordered, r, old

(* The lesser child goes up, and the rest is done for its place. *)
LEMMA SunkFurther ==
  ASSUME NEW h, NEW size, Full(h, size), NEW k \in 1 .. size \div 2,
         NEW q, Sunk(h, size, q, Child(h, size, k))
  PROVE  Sunk(h, size, [q EXCEPT ![k] = h[Child(h, size, k)]], k)
<1> DEFINE c == Child(h, size, k)
           r == [q EXCEPT ![k] = h[c]]
           old == h[size + 1]
<1>1. /\ size \in Nat /\ h \in Seq(Node) /\ Len(h) = size + 1
      /\ \A j \in 1 .. size + 1 : h[j] \in Node
      /\ \A j \in 2 .. size : Above(h[j \div 2], h[j])
      /\ \A i, j \in 1 .. size + 1 : h[i] = h[j] => i = j
  BY FullIs
<1>2. c \in {2 * k, 2 * k + 1} /\ c \in 2 .. size /\ k < c /\ c \div 2 = k
  BY <1>1, ChildIs
<1>3. \A j \in 2 .. size : j \div 2 = k => Above(h[c], h[j])
  BY <1>1, LesserChild
<1>a. size \in Nat /\ k \in Nat \ {0} /\ c \in Nat /\ k < c /\ c <= size /\ 2 * k <= c
  BY <1>1, <1>2
<1> HIDE DEF c
<1>4. /\ q \in Seq(Node) /\ Len(q) = size + 1
      /\ \A j \in 1 .. size : j < c \/ (c < j /\ j < 2 * c) => q[j] = h[j]
      /\ Nodes(q, c, size) = Nodes(h, c + 1, size) \cup {old}
      /\ Different(q, c, size)
      /\ Above(h[c], q[c])
      /\ \A j \in 2 .. size : Above(q[j \div 2], q[j])
  BY <1>1, <1>2 DEF Sunk, Ordered, c
<1>5. /\ r \in Seq(Node) /\ Len(r) = size + 1 /\ r[k] = h[c]
      /\ \A j \in 1 .. size : j # k => r[j] = q[j]
  BY <1>1, <1>2, <1>4
<1> HIDE DEF r, old
<1>6. Nodes(r, k, size) = Nodes(h, k + 1, size) \cup {old}
  <2>1. \A j \in k + 1 .. c - 1 : r[j] = h[j]
    BY <1>1, <1>2, <1>4, <1>5
  <2>2. \A j \in c .. size : r[j] = q[j]
    BY <1>a, <1>5
  <2>3. k .. size = {k} \cup (k + 1 .. c - 1) \cup (c .. size)
    BY <1>1, <1>2
  <2>4. k + 1 .. size = (k + 1 .. c - 1) \cup {c} \cup (c + 1 .. size)
    BY <1>a
  <2>5. Nodes(r, k, size) = {h[c]} \cup Nodes(h, k + 1, c - 1) \cup Nodes(q, c, size)
    BY <1>5, <2>1, <2>2, <2>3 DEF Nodes
  <2>6. Nodes(h, k + 1, size) = Nodes(h, k + 1, c - 1) \cup {h[c]} \cup Nodes(h, c + 1, size)
    BY <2>4 DEF Nodes
  <2> QED
    BY <1>4, <2>5, <2>6
<1>7. Different(r, k, size)
  <2>1. \A j \in k + 1 .. c - 1 : r[j] = h[j]
    BY <1>1, <1>2, <1>4, <1>5
  <2>2. \A j \in c .. size : /\ r[j] = q[j]
                             /\ \E l \in c + 1 .. size + 1 : q[j] = h[l]
    <3>1. \A j \in c .. size : q[j] \in Nodes(h, c + 1, size) \cup {old}
      BY <1>4 DEF Nodes
    <3>2. \A j \in c .. size : r[j] = q[j]
      BY <1>a, <1>5
    <3>3. Nodes(h, c + 1, size) \cup {old} = {h[l] : l \in c + 1 .. size + 1}
      <4>1. c + 1 .. size + 1 = (c + 1 .. size) \cup {size + 1}
        BY <1>a
      <4> QED
        BY <4>1 DEF Nodes, old
    <3> QED
      BY <3>1, <3>2, <3>3
  <2>3. \A i, j \in c .. size : r[i] = r[j] => i = j
    BY <1>4, <2>2 DEF Different
  <2>4. \A i \in k .. c - 1, j \in c .. size : r[i] # r[j]
    <3> TAKE i \in k .. c - 1, j \in c .. size
    <3>1. PICK l \in 1 .. c : r[i] = h[l]
      <4>1. CASE i = k
        BY <1>1, <1>2, <1>5, <4>1
      <4>2. CASE i # k
        <5>1. i \in k + 1 .. c - 1 /\ i \in 1 .. c
          BY <1>1, <1>2, <4>2
        <5> QED
          BY <2>1, <5>1
      <4> QED
        BY <4>1, <4>2
    <3>2. PICK m \in c + 1 .. size + 1 : r[j] = h[m]
      BY <2>2
    <3>3. l \in 1 .. size + 1 /\ m \in 1 .. size + 1 /\ l # m
      BY <1>1, <1>2
    <3> QED
      BY <1>1, <3>1, <3>2, <3>3
  <2>5. \A i, j \in k .. c - 1 : r[i] = r[j] => i = j
    <3>1. \A i \in k + 1 .. c - 1 : i \in 1 .. size + 1 /\ c \in 1 .. size + 1 /\ i # c
      BY <1>1, <1>2
    <3>2. \A i \in k .. c - 1 : i = k \/ i \in k + 1 .. c - 1
      BY <1>2
    <3> QED
      BY <1>1, <1>5, <2>1, <3>1, <3>2
  <2>6. \A i \in k .. size : i \in k .. c - 1 \/ i \in c .. size
    BY <1>1, <1>2
  <2> QED
    BY <2>3, <2>4, <2>5, <2>6 DEF Different
<1>8. k > 1 => Above(h[k], r[k])
  BY <1>1, <1>2, <1>5
<1>9. ASSUME NEW j \in 2 .. size
      PROVE  Above(r[j \div 2], r[j])
  <2>0. j \div 2 \in 1 .. j - 1 /\ j \in Nat /\ j <= 2 * (j \div 2) + 1
    BY <1>1, Halves
  <2>1. CASE j = k
    <3>1. r[j \div 2] = h[j \div 2] /\ r[j] = h[c]
      BY <1>1, <1>2, <1>4, <1>5, <2>0, <2>1
    <3>2. Above(h[j \div 2], h[k]) /\ Above(h[k], h[c])
      BY <1>1, <1>2, <2>1
    <3>3. h[j \div 2] \in Node /\ h[k] \in Node /\ h[c] \in Node
      BY <1>1, <1>2, <2>0
    <3> QED
      BY <3>1, <3>2, <3>3, Ordering
  <2>2. CASE j # k /\ j \div 2 = k
    <3>1. CASE j = c
      BY <1>4, <1>5, <2>2, <3>1
    <3>2. CASE j # c
      <4>1. j < c \/ (c < j /\ j < 2 * c)
        BY <1>1, <1>2, <2>0, <2>2, <3>2
      <4>2. r[j] = h[j]
        BY <1>1, <1>4, <1>5, <2>2, <4>1
      <4> QED
        BY <1>3, <1>5, <2>2, <4>2
    <3> QED
      BY <3>1, <3>2
  <2>3. CASE j # k /\ j \div 2 # k
    <3>1. r[j] = q[j] /\ r[j \div 2] = q[j \div 2]
      BY <1>1, <1>5, <2>0, <2>3
    <3> QED
      BY <1>4, <3>1
  <2> QED
    BY <2>1, <2>2, <2>3
<1>10. \A j \in 1 .. size : j < k \/ (k < j /\ j < 2 * k) => r[j] = h[j]
  <2> TAKE j \in 1 .. size
  <2> SUFFICES ASSUME j < k \/ (k < j /\ j < 2 * k) PROVE r[j] = h[j]
    OBVIOUS
  <2>1. j # k /\ j < c
    BY <1>a
  <2> QED
    BY <1>4, <1>5, <2>1
<1> QED
  BY <1>1, <1>5, <1>6, <1>7, <1>8, <1>9, <1>10 DEF Sunk, Ordered, r, old, c

(* SiftDown makes a heap of the nodes but the root. *)
LEMMA SiftDownDoes ==
  ASSUME NEW h, NEW size, Full(h, size), size > 0
  PROVE  Sunk(h, size, SiftDown(h, size), 1)
<1>1. size \in Nat \ {0} /\ h \in Seq(Node) /\ Len(h) = size + 1
  BY DEF Full
<1>2. PICK down : Sinking(down, h, size, 1) /\ SiftDown(h, size) = down[1]
  BY <1>1, SiftDownIs
<1>3. \A k \in 1 .. size :
        down[k] = IF k > size \div 2 \/ Before(h[size + 1], h[Child(h, size, k)])
                  THEN [h EXCEPT ![k] = h[size + 1]]
                  ELSE [down[Child(h, size, k)] EXCEPT ![k] = h[Child(h, size, k)]]
  <2>1. \A k \in 1 .. size : k \in 1 .. Len(h)
    BY <1>1
  <2> QED
    BY <1>2, <2>1, Zenon DEF Sinking
<1> DEFINE Claim(k) == k = 1 \/ Above(h[k], h[size + 1]) => Sunk(h, size, down[k], k)
           T == {m \in 0 .. size - 1 : ~ Claim(size - m)}
<1>4. T = {}
  <2>1. SUFFICES ASSUME T # {} PROVE FALSE
    OBVIOUS
  <2>2. PICK m \in T : \A l \in T : m <= l
    <3>1. T \in SUBSET Nat
      BY <1>1
    <3> HIDE DEF T
    <3> QED
      BY <2>1, <3>1, LeastMember
  <2> DEFINE k == size - m
  <2>3. m \in 0 .. size - 1 /\ k \in 1 .. size /\ ~ Claim(k)
    BY <1>1
  <2>4. \A j \in k + 1 .. size : Claim(j)
    <3> TAKE j \in k + 1 .. size
    <3>1. size - j \in 0 .. size - 1 /\ ~ (m <= size - j) /\ size - (size - j) = j
      BY <1>1, <2>3
    <3> HIDE DEF Claim
    <3>2. size - j \notin T
      BY <2>2, <3>1
    <3> QED
      BY <3>1, <3>2
  <2> HIDE DEF k
  <2>5. CASE k > size \div 2 \/ Before(h[size + 1], h[Child(h, size, k)])
    <3>1. down[k] = [h EXCEPT ![k] = h[size + 1]]
      BY <1>3, <2>3, <2>5
    <3> QED
      BY <2>3, <2>5, <3>1, SunkHere
  <2>6. CASE ~ (k > size \div 2 \/ Before(h[size + 1], h[Child(h, size, k)]))
    <3>1. k \in 1 .. size \div 2
      BY <1>1, <2>3, <2>6
    <3>2. Child(h, size, k) \in k + 1 .. size
      BY <1>1, <3>1, ChildIs
    <3>3. Above(h[Child(h, size, k)], h[size + 1])
      BY <2>6 DEF Above
    <3>4. Sunk(h, size, down[Child(h, size, k)], Child(h, size, k))
      BY <2>4, <3>2, <3>3
    <3>5. down[k] = [down[Child(h, size, k)] EXCEPT ![k] = h[Child(h, size, k)]]
      BY <1>3, <2>3, <2>6
    <3> QED
      BY <2>3, <3>1, <3>4, <3>5, SunkFurther
  <2> QED
    BY <2>5, <2>6
<1>5. Claim(1)
  <2>1. size - 1 \in 0 .. size - 1 /\ size - (size - 1) = 1
    BY <1>1
  <2> HIDE DEF Claim
  <2> QED
    BY <1>4, <2>1
<1> QED
  BY <1>2, <1>5

-----------------------------------------------------------------------------
(* The steps of the queue *)

(* The set that the heap stands for *)
LEMMA NodesAreSet ==
  ASSUME NEW h \in Seq(Node)
  PROVE  ToSet(h) = Nodes(h, 1, Len(h))
BY DEF ToSet, Nodes

(* The invariant, in the terms of the lemmas *)
LEMMA HeapIs ==
  ASSUME HeapInv
  PROVE  /\ heap \in Seq(Node) /\ Len(heap) \in Nat
         /\ \A k \in 1 .. Len(heap) : heap[k] \in Node
         /\ Ordered(heap, Len(heap)) /\ Different(heap, 1, Len(heap))
         /\ serial \in Nat /\ counter \in Nat /\ max_forward_time \in Nat
<1>1. /\ heap \in Seq(Node) /\ Len(heap) \in Nat
      /\ \A k \in 1 .. Len(heap) : heap[k] \in Node
  BY DEF HeapInv, Node
<1>2. Ordered(heap, Len(heap))
  BY DEF HeapInv, HeapOrdered, Ordered, Above
<1>3. Different(heap, 1, Len(heap))
  BY DEF HeapInv, NodesDistinct, Different
<1> QED
  BY <1>1, <1>2, <1>3 DEF HeapInv

(* What enqueue() makes of the packet *)
NewNode(d, len, t) ==
  [packet |-> Queue!NewPacket(d, len), forward_time |-> Key(t).time,
   counter |-> Key(t).counter, due |-> t, fifo |-> fifoness = Queue!FIFO]

(* Keys are natural numbers. *)
LEMMA KeyIs ==
  ASSUME HeapInv, NEW t \in Nat
  PROVE  Key(t).time \in Nat /\ Key(t).counter \in Nat /\ Key(t).latest \in Nat
BY HeapAssumption DEF HeapInv, Key

(* The new node has a number that no other has. *)
LEMMA NewNodeIs ==
  ASSUME HeapInv, NEW d \in Directions, NEW len \in Lens, NEW t \in Nat
  PROVE  /\ NewNode(d, len, t) \in Node /\ NewNode(d, len, t).forward_time \in Nat
         /\ NewNode(d, len, t).packet.serial = serial + 1
<1>1. /\ Key(t).time \in Nat /\ Key(t).time \in Int /\ Key(t).counter \in Nat /\ t \in Int
      /\ serial + 1 \in Nat
  BY KeyIs DEF HeapInv
<1>2. Queue!NewPacket(d, len) \in Queue!Packet /\ Queue!NewPacket(d, len).serial = serial + 1
  BY <1>1, HeapAssumption
  DEF Queue!NewPacket, Queue!Packet, Queue!Direction, Queue!LR, Queue!RL
<1> QED
  BY <1>1, <1>2 DEF NewNode, Node, Queue!Node

(* The array with a place for the new node *)
LEMMA EnqueueOpens ==
  ASSUME HeapInv, NEW new \in Node, new.forward_time \in Nat, new.packet.serial = serial + 1
  PROVE  /\ Opened(Append(heap, new), new)
         /\ Len(Append(heap, new)) = Len(heap) + 1
         /\ Nodes(Append(heap, new), 1, Len(heap)) = ToSet(heap)
<1> DEFINE h == Append(heap, new)
           n == Len(heap)
<1>1. /\ heap \in Seq(Node) /\ n \in Nat /\ \A k \in 1 .. n : heap[k] \in Node
      /\ Ordered(heap, n) /\ Different(heap, 1, n)
  BY HeapIs
<1>2. /\ h \in Seq(Node) /\ Len(h) = n + 1 /\ \A k \in 1 .. n : h[k] = heap[k]
  BY <1>1
<1> HIDE DEF h
<1>3. Nodes(h, 1, n) = Nodes(heap, 1, n)
  BY <1>2 DEF Nodes
<1>4. Different(h, 1, n)
  BY <1>1, <1>2 DEF Different
<1>5. Ordered(h, n)
  <2> SUFFICES ASSUME NEW j \in 2 .. n PROVE Above(h[j \div 2], h[j])
    BY DEF Ordered
  <2>1. j \in 1 .. n /\ j \div 2 \in 1 .. n
    BY <1>1, Halves
  <2>2. Above(heap[j \div 2], heap[j])
    BY <1>1 DEF Ordered
  <2> QED
    BY <1>2, <2>1, <2>2
<1>6. new \notin Nodes(h, 1, n)
  <2>1. \A k \in 1 .. n : heap[k].packet.serial <= serial
    BY DEF HeapInv, NodesDistinct
  <2>2. \A k \in 1 .. n : heap[k].packet.serial # serial + 1
    <3>1. \A k \in 1 .. n : heap[k].packet.serial \in Nat
      BY <1>1 DEF Node, Queue!Node, Queue!Packet
    <3> QED
      BY <2>1, <3>1, HeapIs
  <2> QED
    BY <1>3, <2>2 DEF Nodes
<1>7. Opened(h, new)
  <2>1. Len(h) - 1 = n /\ Len(h) >= 1
    BY <1>1, <1>2
  <2> HIDE DEF n
  <2> QED
    BY <1>2, <1>4, <1>5, <1>6, <2>1 DEF Opened
<1>8. ToSet(heap) = Nodes(heap, 1, n)
  BY <1>1, NodesAreSet
<1> QED
  BY <1>2, <1>3, <1>7, <1>8 DEF h

(* enqueue: the new node is among the others, which are still a heap. *)
LEMMA EnqueueDoes ==
  ASSUME HeapInv, Enqueue
  PROVE  /\ HeapInv'
         /\ \E d \in Directions, len \in Lens, t \in Times \cap Nat :
              /\ max_forward_time' = Key(t).latest
              /\ counter' = Key(t).counter
              /\ ToSet(heap)' = ToSet(heap) \cup {NewNode(d, len, t)}
              /\ byte_size' = [byte_size EXCEPT ![d] = @ + len]
<1>1. PICK d \in Directions, len \in Lens, t \in Times \cap Nat :
        /\ max_forward_time' = Key(t).latest
        /\ counter' = Key(t).counter
        /\ heap' = SiftUp(Append(heap, NewNode(d, len, t)), NewNode(d, len, t))
        /\ byte_size' = [byte_size EXCEPT ![d] = @ + len]
  BY Zenon DEF Enqueue, NewNode
<1> DEFINE new == NewNode(d, len, t)
           h == Append(heap, new)
           n == Len(heap)
<1>2. new \in Node /\ new.forward_time \in Nat /\ new.packet.serial = serial + 1
  BY NewNodeIs
<1> HIDE DEF new
<1>3. Opened(h, new) /\ Len(h) = n + 1 /\ Nodes(h, 1, n) = ToSet(heap) /\ n \in Nat
  BY <1>2, EnqueueOpens, HeapIs
<1> HIDE DEF h
<1>4. Risen(h, new, heap', n + 1)
  BY <1>1, <1>3, SiftUpDoes DEF h, new
<1> HIDE DEF n
<1>5. /\ heap' \in Seq(Node) /\ Len(heap') = n + 1
      /\ Nodes(heap', 1, n + 1) = ToSet(heap) \cup {new}
      /\ Different(heap', 1, n + 1)
      /\ \A j \in 2 .. n + 1 : Above(heap'[j \div 2], heap'[j])
  <2>1. n + 1 - 1 = n
    BY <1>3
  <2> QED
    BY <1>3, <1>4, <2>1 DEF Risen
<1>6. ToSet(heap') = ToSet(heap) \cup {new}
  BY <1>5, NodesAreSet
<1>7. HeapInv'
  <2>1. max_forward_time' \in Nat /\ counter' \in Nat /\ serial' = serial + 1 /\ serial' \in Nat
    BY <1>1, KeyIs, HeapIs DEF Enqueue
  <2>2. HeapOrdered'
    BY <1>5 DEF HeapOrdered, Above
  <2>3. NodesDistinct'
    <3>1. \A j \in 1 .. n + 1 : heap'[j] = new \/ \E l \in 1 .. n : heap'[j] = heap[l]
      <4>1. \A j \in 1 .. n + 1 : heap'[j] \in Nodes(heap', 1, n + 1)
        BY DEF Nodes
      <4>2. ToSet(heap) = Nodes(heap, 1, n)
        BY HeapIs, NodesAreSet DEF n
      <4> QED
        BY <1>5, <4>1, <4>2 DEF Nodes
    <3>2. /\ \A l \in 1 .. n : heap[l].packet.serial <= serial /\ heap[l].packet.serial \in Nat
          /\ \A j, l \in 1 .. n : heap[j].packet.serial = heap[l].packet.serial => j = l
      BY HeapIs DEF HeapInv, NodesDistinct, n, Node, Queue!Node, Queue!Packet
    <3>3. serial \in Nat
      BY HeapIs
    <3>4. \A j \in 1 .. n + 1 : heap'[j].packet.serial <= serial'
      BY <1>2, <2>1, <3>1, <3>2, <3>3
    <3>5. \A j, l \in 1 .. n + 1 :
            heap'[j].packet.serial = heap'[l].packet.serial => heap'[j] = heap'[l]
      BY <1>2, <3>1, <3>2, <3>3
    <3>6. \A j, l \in 1 .. n + 1 :
            heap'[j].packet.serial = heap'[l].packet.serial => j = l
      BY <1>5, <3>5 DEF Different
    <3> QED
      BY <1>5, <3>4, <3>6 DEF NodesDistinct
  <2> QED
    BY <1>5, <2>1, <2>2, <2>3 DEF HeapInv, Node
<1> QED
  BY <1>1, <1>6, <1>7 DEF new

(* dequeue: the root leaves, and the others are still a heap. *)
LEMMA DequeueDoes ==
  ASSUME HeapInv, Dequeue
  PROVE  /\ HeapInv'
         /\ heap[1] \in ToSet(heap)
         /\ \A k \in 1 .. Len(heap) : Above(heap[1], heap[k])
         /\ ToSet(heap)' = ToSet(heap) \ {heap[1]}
<1> DEFINE size == Len(heap) - 1
           full == SiftDown(heap, size)
<1>1. /\ heap \in Seq(Node) /\ Len(heap) \in Nat /\ heap # <<>>
      /\ \A k \in 1 .. Len(heap) : heap[k] \in Node
      /\ Ordered(heap, Len(heap)) /\ Different(heap, 1, Len(heap))
  BY HeapIs DEF Dequeue
<1>2. size \in Nat /\ Len(heap) = size + 1 /\ heap' = SubSeq(full, 1, size)
  BY <1>1 DEF Dequeue
<1> HIDE DEF size, full
<1>3. Full(heap, size)
  BY <1>1, <1>2 DEF Full
<1>4. /\ heap' \in Seq(Node) /\ Len(heap') = size
      /\ Nodes(heap', 1, size) = Nodes(heap, 2, size + 1)
      /\ Different(heap', 1, size)
      /\ Ordered(heap', size)
  <2>1. CASE size = 0
    <3>1. heap' = <<>>
      BY <1>2, <2>1
    <3> QED
      BY <2>1, <3>1 DEF Nodes, Different, Ordered
  <2>2. CASE size > 0
    <3>1. Sunk(heap, size, full, 1)
      BY <1>3, <2>2, SiftDownDoes DEF full
    <3>2. /\ full \in Seq(Node) /\ Len(full) = size + 1
          /\ Nodes(full, 1, size) = Nodes(heap, 2, size) \cup {heap[size + 1]}
          /\ Different(full, 1, size) /\ Ordered(full, size)
      BY <1>2, <3>1 DEF Sunk
    <3>3. heap' \in Seq(Node) /\ Len(heap') = size /\ \A j \in 1 .. size : heap'[j] = full[j]
      BY <1>2, <3>2
    <3>4. Nodes(heap', 1, size) = Nodes(full, 1, size)
      BY <3>3 DEF Nodes
    <3>5. Nodes(heap, 2, size + 1) = Nodes(heap, 2, size) \cup {heap[size + 1]}
      <4>1. 2 .. size + 1 = (2 .. size) \cup {size + 1}
        BY <1>2, <2>2
      <4> QED
        BY <4>1 DEF Nodes
    <3>6. Different(heap', 1, size)
      BY <3>2, <3>3 DEF Different
    <3>7. Ordered(heap', size)
      <4> SUFFICES ASSUME NEW j \in 2 .. size PROVE Above(heap'[j \div 2], heap'[j])
        BY DEF Ordered
      <4>1. j \in 1 .. size /\ j \div 2 \in 1 .. size
        BY <1>2, Halves
      <4>2. Above(full[j \div 2], full[j])
        BY <3>2 DEF Ordered
      <4> QED
        BY <3>3, <4>1, <4>2
    <3> QED
      BY <3>2, <3>3, <3>4, <3>5, <3>6, <3>7
  <2> QED
    BY <1>2, <2>1, <2>2
<1>5. ToSet(heap') = Nodes(heap, 2, size + 1)
  BY <1>4, NodesAreSet
<1>6. ToSet(heap) = Nodes(heap, 1, size + 1)
  BY <1>1, <1>2, NodesAreSet
<1>7. heap[1] \in ToSet(heap) /\ ToSet(heap') = ToSet(heap) \ {heap[1]}
  <2>1. 1 .. size + 1 = {1} \cup (2 .. size + 1)
    BY <1>2
  <2>2. \A j \in 2 .. size + 1 : heap[j] # heap[1]
    BY <1>1, <1>2 DEF Different
  <2> QED
    BY <1>5, <1>6, <2>1, <2>2 DEF Nodes
<1>8. \A k \in 1 .. Len(heap) : Above(heap[1], heap[k])
  BY <1>1, RootLeast
<1>9. HeapInv'
  <2>1. max_forward_time' \in Nat /\ counter' \in Nat /\ serial' = serial /\ serial' \in Nat
    BY HeapIs DEF Dequeue
  <2>2. HeapOrdered'
    BY <1>4 DEF HeapOrdered, Ordered, Above
  <2>3. NodesDistinct'
    <3>1. \A j \in 1 .. size : \E l \in 1 .. size + 1 : heap'[j] = heap[l]
      <4>1. \A j \in 1 .. size : heap'[j] \in Nodes(heap', 1, size)
        BY DEF Nodes
      <4>2. \A j \in 1 .. size : \E l \in 2 .. size + 1 : heap'[j] = heap[l]
        BY <1>4, <4>1 DEF Nodes
      <4>3. \A l \in 2 .. size + 1 : l \in 1 .. size + 1
        BY <1>2
      <4> QED
        BY <4>2, <4>3
    <3>2. /\ \A l \in 1 .. size + 1 : heap[l].packet.serial <= serial
          /\ \A j, l \in 1 .. size + 1 : heap[j].packet.serial = heap[l].packet.serial => j = l
      BY <1>2 DEF HeapInv, NodesDistinct
    <3>3. \A j \in 1 .. size : heap'[j].packet.serial <= serial'
      BY <2>1, <3>1, <3>2
    <3>4. \A j, l \in 1 .. size :
            heap'[j].packet.serial = heap'[l].packet.serial => heap'[j] = heap'[l]
      BY <3>1, <3>2
    <3>5. \A j, l \in 1 .. size :
            heap'[j].packet.serial = heap'[l].packet.serial => j = l
      BY <1>4, <3>4 DEF Different
    <3> QED
      BY <1>4, <3>3, <3>5 DEF NodesDistinct
  <2> QED
    BY <1>4, <2>1, <2>2, <2>3 DEF HeapInv, Node
<1> QED
  BY <1>7, <1>8, <1>9

-----------------------------------------------------------------------------
(* The invariant, and the abstract queue *)

(* The empty array *)
LEMMA InitOK == Init => HeapInv /\ Queue!Init
<1> SUFFICES ASSUME Init PROVE HeapInv /\ Queue!Init
  OBVIOUS
<1>1. heap = <<>> /\ Len(heap) = 0 /\ ToSet(heap) = {}
  BY DEF Init, ToSet
<1>2. HeapInv
  BY <1>1 DEF Init, HeapInv, HeapOrdered, NodesDistinct
<1>3. Queue!Init
  BY <1>1 DEF Init, Queue!Init, Queue!initQueue
<1> QED
  BY <1>2, <1>3

(* Steps that leave the array alone *)
LEMMA RestKeeps ==
  ASSUME HeapInv, heap' = heap,
         UNCHANGED <<max_forward_time, counter, serial>>
  PROVE  HeapInv' /\ ToSet(heap)' = ToSet(heap)
BY DEF HeapInv, HeapOrdered, NodesDistinct

(* Every step keeps the array a heap and is one of the abstract queue. *)
LEMMA NextDoes == HeapInv /\ [Next]_vars => HeapInv' /\ [Queue!Next]_(Queue!vars)
<1> SUFFICES ASSUME HeapInv, [Next]_vars PROVE HeapInv' /\ [Queue!Next]_(Queue!vars)
  OBVIOUS
<1>1. CASE Enqueue
  <2>1. PICK d \in Directions, len \in Lens, t \in Times \cap Nat :
          /\ max_forward_time' = Key(t).latest
          /\ counter' = Key(t).counter
          /\ ToSet(heap)' = ToSet(heap) \cup {NewNode(d, len, t)}
          /\ byte_size' = [byte_size EXCEPT ![d] = @ + len]
    BY <1>1, EnqueueDoes
  <2>2. d \in Queue!Direction
    BY HeapAssumption DEF Queue!Direction, Queue!LR, Queue!RL
  <2>3. /\ serial < MaxSerial /\ serial' = serial + 1
        /\ UNCHANGED <<fifoness, last>>
    BY <1>1 DEF Enqueue
  <2>4. Queue!enqueue(Queue!NewPacket(d, len), t)
    <3>1. t \in Nat /\ max_forward_time \in Nat
      BY HeapIs
    <3> DEFINE packet == Queue!NewPacket(d, len)
    <3>2. packet.direction = d /\ packet.len = len
      BY DEF Queue!NewPacket
    <3> HIDE DEF packet
    <3>3. NewNode(d, len, t) = [packet |-> packet, forward_time |-> Key(t).time,
            counter |-> Key(t).counter, due |-> t, fifo |-> fifoness = Queue!FIFO]
      BY Zenon DEF NewNode, packet
    <3>4. Queue!Insert(packet, t, Key(t).time, Key(t).counter)
      BY <2>1, <2>3, <3>2, <3>3, Zenon DEF Queue!Insert
    <3>5. CASE fifoness # Queue!FIFO
      <4>1. Key(t).time = t /\ Key(t).counter = counter /\ Key(t).latest = max_forward_time
        BY <3>5 DEF Key
      <4> QED
        BY <2>1, <3>4, <3>5, <4>1, Zenon DEF Queue!enqueue, packet
    <3>6. CASE fifoness = Queue!FIFO /\ t > max_forward_time
      <4>1. Key(t).time = t /\ Key(t).counter = 0 /\ Key(t).latest = t
        BY <3>6 DEF Key
      <4> QED
        BY <2>1, <3>4, <3>6, <4>1, Zenon DEF Queue!enqueue, packet
    <3>7. CASE fifoness = Queue!FIFO /\ ~ (t > max_forward_time)
      <4>1. /\ Key(t).time = max_forward_time /\ Key(t).counter = (counter + 1) % CounterMod
            /\ Key(t).latest = max_forward_time
        BY <3>7 DEF Key
      <4>2. t <= max_forward_time
        BY <3>1, <3>7
      <4> QED
        BY <2>1, <3>4, <3>7, <4>1, <4>2, Zenon DEF Queue!enqueue, packet
    <3> QED
      BY <3>5, <3>6, <3>7
  <2>5. Queue!Enqueue
    BY <2>2, <2>3, <2>4, Zenon DEF Queue!Enqueue
  <2> QED
    BY <1>1, <2>5, EnqueueDoes DEF Queue!Next
<1>2. CASE Dequeue
  <2>1. /\ HeapInv' /\ heap[1] \in ToSet(heap)
        /\ \A k \in 1 .. Len(heap) : Above(heap[1], heap[k])
        /\ ToSet(heap)' = ToSet(heap) \ {heap[1]}
    BY <1>2, DequeueDoes
  <2>2. heap[1] \in Queue!Heads(ToSet(heap))
    <3>1. \A m \in ToSet(heap) : ~ Before(m, heap[1])
      BY <2>1, HeapIs, NodesAreSet DEF Nodes, Above
    <3> QED
      BY <2>1, <3>1 DEF Queue!Heads, Before
  <2>3. /\ byte_size' = [byte_size EXCEPT ![heap[1].packet.direction] =
                           @ - heap[1].packet.len]
        /\ last' = IF heap[1].fifo THEN heap[1].packet.serial ELSE last
        /\ UNCHANGED <<fifoness, max_forward_time, counter, serial>>
    BY <1>2 DEF Dequeue
  <2>4. Queue!dequeue(heap[1]) /\ Queue!Release(heap[1])
    BY <2>1, <2>2, <2>3 DEF Queue!dequeue, Queue!Release
  <2>5. Queue!Dequeue
    BY <2>1, <2>3, <2>4 DEF Queue!Dequeue
  <2> QED
    BY <2>1, <2>5 DEF Queue!Next
<1>3. CASE SetFIFO
  <2>1. HeapInv' /\ ToSet(heap)' = ToSet(heap)
    BY <1>3, RestKeeps DEF SetFIFO
  <2>2. Queue!SetFIFO
    BY <1>3, <2>1 DEF SetFIFO, Queue!SetFIFO, Queue!setFIFO
  <2> QED
    BY <2>1, <2>2 DEF Queue!Next
<1>4. CASE UNCHANGED vars
  <2>1. HeapInv' /\ ToSet(heap)' = ToSet(heap)
    BY <1>4, RestKeeps DEF vars
  <2>2. UNCHANGED Queue!vars
    BY <1>4, <2>1 DEF vars, Queue!vars, Queue!queueVars
  <2> QED
    BY <2>1, <2>2
<1> QED
  BY <1>1, <1>2, <1>3, <1>4 DEF Next

(* Through all enqueues and dequeues the array is a heap of different      *)
(* nodes.                                                                  *)
THEOREM HeapInvariant == Spec => []HeapInv
BY InitOK, NextDoes, PTL DEF Spec

(* No node is before its parent: whatever the number of nodes, the holes   *)
(* that enqueue() and dequeue() move leave a heap behind.                  *)
THEOREM AlwaysOrdered == Spec => []HeapOrdered
<1>1. HeapInv => HeapOrdered
  BY DEF HeapInv
<1> QED
  BY <1>1, HeapInvariant, PTL

(* The array of wf_queue.c implements the set of WFQueueSpec: dequeue()    *)
(* gives out a node with the least key and loses or doubles no other.      *)
THEOREM ArrayImplementsQueue == Spec => ImplementsQueue
<1>1. Init => Queue!Init
  BY InitOK
<1>2. HeapInv /\ [Next]_vars => [Queue!Next]_(Queue!vars)
  BY NextDoes
<1> QED
  BY <1>1, <1>2, HeapInvariant, PTL DEF Spec, ImplementsQueue, Queue!Spec

(* What is proved of the set of nodes, for the nodes in the array *)
Order == INSTANCE WFQueueProofs WITH queue <- ToSet(heap)

(* The queue that WFQueueProofs speaks of, with the array for its set, is  *)
(* the one of WFHeap: action by action,                                    *)
LEMMA SameActions ==
  /\ Order!Init = Queue!Init
  /\ Order!Next = Queue!Next
  /\ Order!vars = Queue!vars
<1> USE DEF Order!FIFO, Queue!FIFO, Order!NO_FIFO, Queue!NO_FIFO, Queue!Direction,
            Order!Direction, Order!LR, Queue!LR, Order!RL, Queue!RL
<1>1. Order!Init = Queue!Init
  BY DEF Order!Init, Queue!Init, Order!initQueue, Queue!initQueue
<1>2. Order!SetFIFO = Queue!SetFIFO
  BY DEF Order!SetFIFO, Queue!SetFIFO, Order!setFIFO, Queue!setFIFO
<1>3. Order!Dequeue = Queue!Dequeue
  BY Zenon
  DEF Order!Dequeue, Queue!Dequeue, Order!dequeue, Queue!dequeue, Order!Release,
      Queue!Release, Order!Heads, Queue!Heads, Order!Before, Queue!Before
<1>4. Order!Enqueue = Queue!Enqueue
  BY Zenon
  DEF Order!Enqueue, Queue!Enqueue, Order!enqueue, Queue!enqueue, Order!Insert,
      Queue!Insert, Order!NewPacket, Queue!NewPacket
<1>5. QED
  BY <1>1, <1>2, <1>3, <1>4, Zenon
  DEF Order!Next, Queue!Next, Order!vars, Queue!vars, Order!queueVars,
      Queue!queueVars

(* and so step by step.                                                    *)
LEMMA SameSteps ==
  /\ Queue!Init => Order!Init
  /\ [Queue!Next]_(Queue!vars) => [Order!Next]_(Order!vars)
<1>1. Queue!Init => Order!Init
  BY SameActions
<1>2. Queue!Next => Order!Next
  BY SameActions
<1>3. UNCHANGED Queue!vars => UNCHANGED Order!vars
  BY DEF Queue!vars, Order!vars, Queue!queueVars, Order!queueVars
<1> QED
  BY <1>1, <1>2, <1>3

(* The array keeps the order of FIFO mode: enqueue() and dequeue() of      *)
(* wf_queue.c, with all their moves, implement the FIFO wire.              *)
THEOREM ArrayKeepsOrder == Spec => FifoOrder
<1>1. Order!Spec => Order!FifoOrder
  BY HeapAssumption, Order!FifoOrderKept DEF Order!LensAssumption, Order!BoundAssumption
<1>2. Queue!Spec => Order!Spec
  <2>1. [Queue!Next]_(Queue!vars) => [Order!Next]_(Order!vars)
    BY SameSteps
  <2>2. Queue!Init => Order!Init
    BY SameSteps
  <2> QED
    BY <2>1, <2>2, PTL DEF Queue!Spec, Order!Spec
<1>3. Order!FifoOrder => Queue!FifoOrder
  <2>0. Order!Waiting = Queue!Waiting
    BY Zenon DEF Order!Waiting, Queue!Waiting, Order!FifoNodes, Queue!FifoNodes
  <2>a. Order!Waiting' = Queue!Waiting'
    BY Zenon DEF Order!Waiting, Queue!Waiting, Order!FifoNodes, Queue!FifoNodes
  <2>1. [Order!Wire!Next]_(Order!Wire!wireVars) => [Queue!Wire!Next]_(Queue!Wire!wireVars)
    BY <2>0, <2>a
    DEF Order!Wire!Next, Queue!Wire!Next, Order!Wire!Accept, Queue!Wire!Accept,
        Order!Wire!Deliver, Queue!Wire!Deliver, Order!Wire!PassThrough,
        Queue!Wire!PassThrough, Order!Wire!wireVars, Queue!Wire!wireVars
  <2>2. Order!Wire!Init => Queue!Wire!Init
    BY <2>0 DEF Order!Wire!Init, Queue!Wire!Init
  <2> QED
    BY <2>1, <2>2, PTL
    DEF Order!FifoOrder, Queue!FifoOrder, Queue!Wire!Spec, Order!Wire!Spec
<1> QED
  BY <1>1, <1>2, <1>3, ArrayImplementsQueue, PTL DEF ImplementsQueue, FifoOrder

=============================================================================
