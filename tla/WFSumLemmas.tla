---------------------------- MODULE WFSumLemmas -----------------------------
(***************************************************************************)
(* Induction and sums, for the proofs about the bytes in the queue, the    *)
(* rows of the chain and the heap.                                         *)
(*                                                                         *)
(* The induction theorems of the library have a predicate as parameter.    *)
(* Here the predicate is the set of the numbers, or of the subsets, that   *)
(* satisfy it.                                                             *)
(***************************************************************************)
EXTENDS Integers, FiniteSetsExt, FiniteSetTheorems, TLAPS

(* Among finite sets there is a smallest: none of the others is within it. *)
LEMMA SmallestSet ==
  ASSUME NEW S, NEW F \in SUBSET FiniteSubsetsOf(S), F # {}
  PROVE  \E s \in F : \A t \in F : t \subseteq s => t = s
<1> DEFINE R == StrictSubsetOrdering(S)
<1>1. IsWellFoundedOn(R, FiniteSubsetsOf(S))
  BY FS_StrictSubsetOrderingWellFounded
<1>2. PICK s \in F : \A t \in F : ~ (<<t, s>> \in R)
  <2> HIDE DEF R
  <2> QED
    BY <1>1, WFMin, Zenon
<1> QED
  BY <1>2 DEF StrictSubsetOrdering, FiniteSubsetsOf

(* Every set of natural numbers that is not empty has a least member. *)
LEMMA LeastMember ==
  ASSUME NEW T \in SUBSET Nat, T # {}
  PROVE  \E n \in T : \A m \in T : n <= m
<1> DEFINE F == {0 .. n : n \in T}
<1>1. F \subseteq FiniteSubsetsOf(Nat)
  <2>1. \A n \in T : IsFiniteSet(0 .. n) /\ 0 .. n \subseteq Nat
    BY FS_Interval
  <2> QED
    BY <2>1 DEF FiniteSubsetsOf
<1>2. PICK I \in F : \A J \in F : J \subseteq I => J = I
  <2>1. F # {}
    OBVIOUS
  <2> HIDE DEF F
  <2> QED
    BY <1>1, <2>1, SmallestSet
<1>3. PICK n \in T : I = 0 .. n
  BY <1>2
<1>4. ASSUME NEW m \in T, m < n
      PROVE  FALSE
  <2>1. 0 .. m \in F /\ 0 .. m \subseteq 0 .. n
    BY <1>4
  <2>2. n \in 0 .. n /\ n \notin 0 .. m
    BY <1>4
  <2> QED
    BY <1>2, <1>3, <2>1, <2>2
<1> QED
  BY <1>4

(* Induction over the natural numbers: T is the set of those that satisfy  *)
(* the claim.                                                              *)
LEMMA NumberInduction ==
  ASSUME NEW T \in SUBSET Nat, 0 \in T, \A n \in T : n + 1 \in T
  PROVE  T = Nat
<1> SUFFICES ASSUME Nat \ T # {} PROVE FALSE
  OBVIOUS
<1>1. PICK n \in Nat \ T : \A m \in Nat \ T : n <= m
  BY LeastMember
<1>2. n # 0 /\ n - 1 \in Nat
  BY <1>1
<1>3. n - 1 \in T
  BY <1>1, <1>2
<1> QED
  BY <1>1, <1>3

(* Induction over the subsets of a finite set: T is the set of those that  *)
(* satisfy the claim.                                                      *)
LEMMA SubsetInduction ==
  ASSUME NEW S, IsFiniteSet(S), NEW T \in SUBSET SUBSET S,
         \A s \in SUBSET S : (\A x \in s : s \ {x} \in T) => s \in T
  PROVE  T = SUBSET S
<1> SUFFICES ASSUME (SUBSET S) \ T # {} PROVE FALSE
  OBVIOUS
<1> DEFINE F == (SUBSET S) \ T
<1>1. F \subseteq FiniteSubsetsOf(S)
  BY FS_Subset DEF FiniteSubsetsOf
<1>2. PICK s \in F : \A t \in F : t \subseteq s => t = s
  <2>1. F # {}
    OBVIOUS
  <2> HIDE DEF F
  <2> QED
    BY <1>1, <2>1, SmallestSet
<1>3. \A x \in s : s \ {x} \in T
  <2> TAKE x \in s
  <2>1. s \ {x} \subseteq s /\ s \ {x} # s /\ s \ {x} \in SUBSET S
    OBVIOUS
  <2> QED
    BY <1>2, <2>1
<1> QED
  BY <1>2, <1>3

-----------------------------------------------------------------------------
(* The sum of the weights w over a set, added up in the order that CHOOSE  *)
(* gives, as MapThenSumSet does: `it' holds the sums over the sets in D.   *)
Pick(s) == CHOOSE x \in s : TRUE

Adds(it, w, D) ==
  it = [s \in D |-> IF s = {} THEN 0 ELSE w[Pick(s)] + it[s \ {Pick(s)}]]

Sums(it, w, S) == Adds(it, w, SUBSET S)

Total(w, S) == (CHOOSE it : Sums(it, w, S))[S]

(* There are such sums, *)
LEMMA SumsExist ==
  ASSUME NEW S, IsFiniteSet(S), NEW w
  PROVE  \E it : Sums(it, w, S)
<1> DEFINE Upto(n) == {s \in SUBSET S : Cardinality(s) <= n}
           T == {n \in Nat : \E it : Adds(it, w, Upto(n))}
<1>1. \A s \in SUBSET S : IsFiniteSet(s) /\ Cardinality(s) \in Nat
  BY FS_Subset, FS_CardinalityType
<1>2. \A s \in SUBSET S : s # {} => Cardinality(s \ {Pick(s)}) = Cardinality(s) - 1
  BY <1>1, FS_RemoveElement DEF Pick
<1>3. 0 \in T
  <2>1. \A s \in Upto(0) : s = {}
    BY <1>1, FS_EmptySet
  <2>2. Adds([s \in Upto(0) |-> 0], w, Upto(0))
    BY <2>1 DEF Adds
  <2> QED
    BY <2>2
<1>4. ASSUME NEW n \in T
      PROVE  n + 1 \in T
  <2>1. PICK it : Adds(it, w, Upto(n))
    BY <1>4
  <2> DEFINE next == [s \in Upto(n + 1) |->
                        IF s = {} THEN 0 ELSE w[Pick(s)] + it[s \ {Pick(s)}]]
  <2>2. \A s \in Upto(n) : s \in Upto(n + 1) /\ next[s] = it[s]
    <3> TAKE s \in Upto(n)
    <3>1. s \in Upto(n + 1)
      BY <1>1
    <3>2. it[s] = IF s = {} THEN 0 ELSE w[Pick(s)] + it[s \ {Pick(s)}]
      <4> HIDE DEF Upto
      <4> QED
        BY <2>1, Zenon DEF Adds
    <3> QED
      BY <3>1, <3>2
  <2>3. \A s \in Upto(n + 1) : s # {} => s \ {Pick(s)} \in Upto(n)
    BY <1>1, <1>2
  <2>4. Adds(next, w, Upto(n + 1))
    <3>1. \A s \in Upto(n + 1) : s # {} => next[s \ {Pick(s)}] = it[s \ {Pick(s)}]
      BY <2>2, <2>3
    <3> QED
      BY <3>1 DEF Adds
  <2>5. n + 1 \in Nat
    OBVIOUS
  <2> HIDE DEF next, Upto
  <2> QED
    BY <2>4, <2>5
<1>5. Cardinality(S) \in T
  <2>1. T = Nat
    <3> HIDE DEF T
    <3>1. T \in SUBSET Nat
      BY DEF T
    <3> QED
      BY <1>3, <1>4, <3>1, NumberInduction
  <2> QED
    BY <1>1, <2>1
<1>6. Upto(Cardinality(S)) = SUBSET S
  BY FS_Subset
<1> HIDE DEF Upto
<1> QED
  BY <1>5, <1>6 DEF Sums

(* and only one, whatever set they are a part of, and for all weights that *)
(* agree.                                                                  *)
LEMMA SumsUnique ==
  ASSUME NEW S, IsFiniteSet(S), NEW D, NEW E, NEW v, NEW w, NEW f, NEW g,
         S \subseteq D, S \subseteq E,
         Sums(f, v, D), Sums(g, w, E), \A x \in S : v[x] = w[x]
  PROVE  f[S] = g[S]
<1> DEFINE T == {s \in SUBSET S : f[s] = g[s]}
<1>1. ASSUME NEW s \in SUBSET S, \A x \in s : s \ {x} \in T
      PROVE  s \in T
  <2>1. CASE s = {}
    BY <2>1 DEF Sums, Adds
  <2>2. CASE s # {}
    <3>1. Pick(s) \in s
      BY <2>2 DEF Pick
    <3>2. f[s \ {Pick(s)}] = g[s \ {Pick(s)}] /\ v[Pick(s)] = w[Pick(s)]
      BY <1>1, <3>1
    <3>3. s \in SUBSET D /\ s \in SUBSET E
      OBVIOUS
    <3>4. f[s] = v[Pick(s)] + f[s \ {Pick(s)}]
      BY <2>2, <3>3 DEF Sums, Adds
    <3>5. g[s] = w[Pick(s)] + g[s \ {Pick(s)}]
      BY <2>2, <3>3 DEF Sums, Adds
    <3> QED
      BY <3>2, <3>4, <3>5
  <2> QED
    BY <2>1, <2>2
<1>2. T = SUBSET S
  <2> HIDE DEF T
  <2>1. T \in SUBSET SUBSET S
    BY DEF T
  <2> QED
    BY <1>1, <2>1, SubsetInduction
<1> QED
  BY <1>2

(* The total is what any such sums say it is, *)
LEMMA TotalIsSum ==
  ASSUME NEW S, IsFiniteSet(S), NEW v, NEW w, NEW f,
         Sums(f, v, S), \A x \in S : v[x] = w[x]
  PROVE  f[S] = Total(w, S)
<1> DEFINE g == CHOOSE it : Sums(it, w, S)
<1>1. Sums(g, w, S)
  BY SumsExist
<1>2. Total(w, S) = g[S]
  BY DEF Total
<1> HIDE DEF g
<1> QED
  BY <1>1, <1>2, SumsUnique

-----------------------------------------------------------------------------
(* How a sum changes with the set. The empty one adds up to nothing. *)
LEMMA TotalEmpty == ASSUME NEW w PROVE Total(w, {}) = 0
<1>1. PICK f : Sums(f, w, {})
  BY SumsExist, FS_EmptySet
<1>2. f[{}] = Total(w, {})
  BY <1>1, TotalIsSum, FS_EmptySet
<1> QED
  BY <1>1, <1>2 DEF Sums, Adds

(* What the sums say of a part of the set is the total of that part. *)
LEMMA TotalOfPart ==
  ASSUME NEW S, IsFiniteSet(S), NEW w, NEW f, Sums(f, w, S)
  PROVE  \A s \in SUBSET S : f[s] = Total(w, s)
<1> TAKE s \in SUBSET S
<1>1. IsFiniteSet(s)
  BY FS_Subset
<1>2. PICK g : Sums(g, w, s)
  BY <1>1, SumsExist
<1>3. g[s] = Total(w, s)
  BY <1>1, <1>2, TotalIsSum
<1> QED
  BY <1>1, <1>2, <1>3, SumsUnique

(* The picked member is added to the total of the others, *)
LEMMA TotalPick ==
  ASSUME NEW S, IsFiniteSet(S), S # {}, NEW w
  PROVE  Total(w, S) = w[Pick(S)] + Total(w, S \ {Pick(S)})
<1>1. PICK f : Sums(f, w, S)
  BY SumsExist
<1>2. S \in SUBSET S /\ S \ {Pick(S)} \in SUBSET S
  OBVIOUS
<1>3. \A s \in SUBSET S : f[s] = Total(w, s)
  BY <1>1, TotalOfPart
<1>4. f[S] = w[Pick(S)] + f[S \ {Pick(S)}]
  BY <1>1, <1>2 DEF Sums, Adds
<1> QED
  BY <1>2, <1>3, <1>4

(* and so the total of integers is one. *)
LEMMA TotalIsInt ==
  ASSUME NEW S, IsFiniteSet(S), NEW w, \A x \in S : w[x] \in Int
  PROVE  Total(w, S) \in Int
<1> DEFINE T == {s \in SUBSET S : Total(w, s) \in Int}
<1>1. ASSUME NEW s \in SUBSET S, \A x \in s : s \ {x} \in T
      PROVE  s \in T
  <2>1. CASE s = {}
    BY <2>1, TotalEmpty
  <2>2. CASE s # {}
    <3>1. Pick(s) \in s /\ IsFiniteSet(s)
      BY <2>2, FS_Subset DEF Pick
    <3>2. Total(w, s) = w[Pick(s)] + Total(w, s \ {Pick(s)})
      BY <2>2, <3>1, TotalPick
    <3>3. w[Pick(s)] \in Int /\ Total(w, s \ {Pick(s)}) \in Int
      BY <1>1, <3>1
    <3> QED
      BY <3>2, <3>3
  <2> QED
    BY <2>1, <2>2
<1>2. T = SUBSET S
  <2> HIDE DEF T
  <2>1. T \in SUBSET SUBSET S
    BY DEF T
  <2> QED
    BY <1>1, <2>1, SubsetInduction
<1> QED
  BY <1>2

(* Any member may be taken out of the sum first. *)
LEMMA TotalRemove ==
  ASSUME NEW S, IsFiniteSet(S), NEW w, \A x \in S : w[x] \in Int, NEW x \in S
  PROVE  Total(w, S) = w[x] + Total(w, S \ {x})
<1> DEFINE T == {s \in SUBSET S : \A y \in s : Total(w, s) = w[y] + Total(w, s \ {y})}
<1>1. ASSUME NEW s \in SUBSET S, \A y \in s : s \ {y} \in T
      PROVE  s \in T
  <2>1. IsFiniteSet(s)
    BY FS_Subset
  <2>2. SUFFICES ASSUME NEW y \in s PROVE Total(w, s) = w[y] + Total(w, s \ {y})
    OBVIOUS
  <2> DEFINE p == Pick(s)
  <2>3. p \in s /\ Total(w, s) = w[p] + Total(w, s \ {p})
    BY <2>1, TotalPick DEF Pick
  <2> HIDE DEF p
  <2>4. CASE y = p
    BY <2>3, <2>4
  <2>5. CASE y # p
    <3>1. Total(w, s \ {p}) = w[y] + Total(w, (s \ {p}) \ {y})
      BY <1>1, <2>3, <2>5
    <3>2. Total(w, s \ {y}) = w[p] + Total(w, (s \ {y}) \ {p})
      BY <1>1, <2>3, <2>5
    <3>3. (s \ {p}) \ {y} = (s \ {y}) \ {p}
      OBVIOUS
    <3>4. w[p] \in Int /\ w[y] \in Int
      BY <2>3
    <3>5. Total(w, (s \ {p}) \ {y}) \in Int
      <4>1. IsFiniteSet((s \ {p}) \ {y})
        BY <2>1, FS_Subset
      <4> QED
        BY <4>1, TotalIsInt
    <3>6. \A a, b, c \in Int : a + (b + c) = b + (a + c)
      OBVIOUS
    <3>7. w[p] + Total(w, s \ {p}) = w[y] + Total(w, s \ {y})
      <4> DEFINE a == w[p]
                 b == w[y]
                 c == Total(w, (s \ {p}) \ {y})
      <4>1. a \in Int /\ b \in Int /\ c \in Int
        BY <3>4, <3>5
      <4>2. Total(w, s \ {p}) = b + c /\ Total(w, s \ {y}) = a + c
        BY <3>1, <3>2, <3>3
      <4> HIDE DEF a, b, c
      <4>3. a + Total(w, s \ {p}) = b + Total(w, s \ {y})
        BY <3>6, <4>1, <4>2
      <4> QED
        BY <4>3 DEF a, b
    <3> QED
      BY <2>3, <3>7
  <2> QED
    BY <2>4, <2>5
<1>2. T = SUBSET S
  <2> HIDE DEF T
  <2>1. T \in SUBSET SUBSET S
    BY DEF T
  <2> QED
    BY <1>1, <2>1, SubsetInduction
<1> QED
  BY <1>2

(* A new member adds its weight. *)
LEMMA TotalAdd ==
  ASSUME NEW S, IsFiniteSet(S), NEW x, x \notin S, NEW w,
         \A y \in S \cup {x} : w[y] \in Int
  PROVE  Total(w, S \cup {x}) = w[x] + Total(w, S)
<1>1. IsFiniteSet(S \cup {x}) /\ (S \cup {x}) \ {x} = S
  BY FS_AddElement
<1> QED
  BY <1>1, TotalRemove

(* Weights that agree on a set have the same sum there. *)
LEMMA TotalAgrees ==
  ASSUME NEW S, IsFiniteSet(S), NEW v, NEW w, \A x \in S : v[x] = w[x]
  PROVE  Total(v, S) = Total(w, S)
<1>1. PICK f : Sums(f, v, S)
  BY SumsExist
<1>2. f[S] = Total(v, S) /\ f[S] = Total(w, S)
  BY <1>1, TotalIsSum
<1> QED
  BY <1>2

(* The sum does not depend on how the members are numbered. *)
LEMMA TotalRenumbered ==
  ASSUME NEW S, IsFiniteSet(S), NEW f, NEW v, NEW w,
         \A x \in S : v[x] = w[f[x]] /\ v[x] \in Int,
         \A x, y \in S : f[x] = f[y] => x = y
  PROVE  Total(v, S) = Total(w, {f[x] : x \in S})
<1> DEFINE Image(s) == {f[x] : x \in s}
           T == {s \in SUBSET S : IsFiniteSet(Image(s)) /\ Total(v, s) = Total(w, Image(s))}
<1>1. ASSUME NEW s \in SUBSET S, \A x \in s : s \ {x} \in T
      PROVE  s \in T
  <2>1. CASE s = {}
    <3>1. Image(s) = {}
      BY <2>1
    <3> QED
      BY <2>1, <3>1, TotalEmpty, FS_EmptySet
  <2>2. CASE s # {}
    <3>1. PICK x \in s : TRUE
      BY <2>2
    <3> DEFINE rest == s \ {x}
    <3>2. IsFiniteSet(s) /\ IsFiniteSet(Image(rest)) /\ Total(v, rest) = Total(w, Image(rest))
      BY <1>1, <3>1, FS_Subset
    <3>3. f[x] \notin Image(rest) /\ Image(s) = Image(rest) \cup {f[x]}
      BY <3>1
    <3>4. Total(v, s) = v[x] + Total(v, rest)
      BY <3>2, TotalRemove
    <3>5. \A y \in Image(rest) \cup {f[x]} : w[y] \in Int
      BY <3>1
    <3>6. IsFiniteSet(Image(s))
      <4> HIDE DEF Image, rest
      <4> QED
        BY <3>2, <3>3, FS_AddElement
    <3>7. Total(w, Image(s)) = w[f[x]] + Total(w, Image(rest))
      <4> HIDE DEF Image, rest
      <4> QED
        BY <3>2, <3>3, <3>5, TotalAdd
    <3> QED
      BY <3>1, <3>2, <3>4, <3>6, <3>7
  <2> QED
    BY <2>1, <2>2
<1>2. T = SUBSET S
  <2> HIDE DEF T
  <2>1. T \in SUBSET SUBSET S
    BY DEF T
  <2> QED
    BY <1>1, <2>1, SubsetInduction
<1> QED
  BY <1>2

(* A larger set of larger weights has a larger sum. *)
LEMMA TotalGrows ==
  ASSUME NEW S, IsFiniteSet(S), NEW v, NEW w,
         \A x \in S : v[x] \in Nat /\ w[x] \in Nat /\ v[x] <= w[x]
  PROVE  \A s \in SUBSET S : Total(v, s) \in Nat /\ Total(v, s) <= Total(w, S)
<1>0. \A s \in SUBSET S : Total(w, s) \in Nat /\ \A r \in SUBSET s : Total(v, r) \in Nat
                                                  /\ Total(v, r) <= Total(w, s)
  <2> DEFINE T == {s \in SUBSET S : /\ Total(w, s) \in Nat
                                    /\ \A r \in SUBSET s : /\ Total(v, r) \in Nat
                                                           /\ Total(v, r) <= Total(w, s)}
  <2>1. ASSUME NEW s \in SUBSET S, \A x \in s : s \ {x} \in T
        PROVE  s \in T
    <3>1. CASE s = {}
      BY <3>1, TotalEmpty
    <3>2. CASE s # {}
      <4>1. PICK x \in s : TRUE
        BY <3>2
      <4>2. IsFiniteSet(s) /\ \A y \in s : v[y] \in Int /\ w[y] \in Int
        BY FS_Subset
      <4>3. Total(w, s) = w[x] + Total(w, s \ {x})
        BY <4>2, TotalRemove
      <4>4. Total(w, s \ {x}) \in Nat /\ w[x] \in Nat /\ v[x] \in Nat /\ v[x] <= w[x]
        BY <2>1
      <4>5. ASSUME NEW r \in SUBSET s
            PROVE  Total(v, r) \in Nat /\ Total(v, r) <= Total(w, s)
        <5>1. IsFiniteSet(r) /\ \A y \in r : v[y] \in Int
          BY <4>2, FS_Subset
        <5>2. r \ {x} \in SUBSET (s \ {x})
          OBVIOUS
        <5>3. Total(v, r \ {x}) \in Nat /\ Total(v, r \ {x}) <= Total(w, s \ {x})
          BY <2>1, <5>2
        <5>4. CASE x \in r
          <6>1. Total(v, r) = v[x] + Total(v, r \ {x})
            BY <5>1, <5>4, TotalRemove
          <6>2. \A a, b, c, e \in Nat :
                  a <= b /\ c <= e => a + c \in Nat /\ a + c <= b + e
            OBVIOUS
          <6> HIDE DEF T
          <6>3. v[x] + Total(v, r \ {x}) \in Nat
                /\ v[x] + Total(v, r \ {x}) <= w[x] + Total(w, s \ {x})
            BY <4>4, <5>3, <6>2
          <6> QED
            BY <4>3, <6>1, <6>3
        <5>5. CASE x \notin r
          <6>1. r \ {x} = r
            BY <5>5
          <6>2. Total(v, r) \in Nat /\ Total(v, r) <= Total(w, s \ {x})
            BY <5>3, <6>1
          <6>3. \A a, b, c \in Nat : a <= b => a <= c + b
            OBVIOUS
          <6> HIDE DEF T
          <6> QED
            BY <4>3, <4>4, <6>2, <6>3
        <5> QED
          BY <5>4, <5>5
      <4>6. Total(w, s) \in Nat
        BY <4>3, <4>4
      <4> QED
        BY <4>5, <4>6
    <3> QED
      BY <3>1, <3>2
  <2>2. T = SUBSET S
    <3> HIDE DEF T
    <3>1. T \in SUBSET SUBSET S
      BY DEF T
    <3> QED
      BY <2>1, <3>1, SubsetInduction
  <2> QED
    BY <2>2
<1> QED
  BY <1>0

-----------------------------------------------------------------------------
(* The sums of the first weights w[0], w[1] and so on, up to w[n], as a    *)
(* loop that adds them up has them.                                        *)
PartialSums(up, w, n) == up = [k \in 0 .. n |-> w[k] + IF k = 0 THEN 0 ELSE up[k - 1]]

(* There are such sums for every n, *)
LEMMA PartialSumsExist ==
  ASSUME NEW w, NEW n \in Nat
  PROVE  \E up : PartialSums(up, w, n)
<1> DEFINE T == {m \in Nat : \E up : PartialSums(up, w, m)}
<1>1. 0 \in T
  <2>1. PartialSums([k \in 0 .. 0 |-> w[k] + 0], w, 0)
    BY DEF PartialSums
  <2> QED
    BY <2>1
<1>2. ASSUME NEW m \in T
      PROVE  m + 1 \in T
  <2>1. PICK up : PartialSums(up, w, m)
    BY <1>2
  <2> DEFINE next == [k \in 0 .. m + 1 |-> w[k] + IF k = 0 THEN 0 ELSE up[k - 1]]
  <2>2. \A k \in 0 .. m : next[k] = up[k]
    BY <2>1 DEF PartialSums
  <2>3. PartialSums(next, w, m + 1)
    <3>1. \A k \in 0 .. m + 1 : k # 0 => next[k - 1] = up[k - 1]
      <4> TAKE k \in 0 .. m + 1
      <4>1. k # 0 => k - 1 \in 0 .. m
        OBVIOUS
      <4> HIDE DEF next
      <4> QED
        BY <2>2, <4>1
    <3> QED
      BY <3>1 DEF PartialSums
  <2> HIDE DEF next
  <2> QED
    BY <2>3
<1>3. T = Nat
  <2> HIDE DEF T
  <2>1. T \in SUBSET Nat
    BY DEF T
  <2> QED
    BY <1>1, <1>2, <2>1, NumberInduction
<1> QED
  BY <1>3

(* and they are the totals over the first numbers. *)
LEMMA PartialSumsAddUp ==
  ASSUME NEW n \in Nat, NEW w, NEW up, PartialSums(up, w, n), \A k \in 0 .. n : w[k] \in Int
  PROVE  \A k \in 0 .. n : up[k] \in Int /\ up[k] = Total(w, 0 .. k)
<1> DEFINE T == {k \in Nat : k <= n => up[k] \in Int /\ up[k] = Total(w, 0 .. k)}
<1>1. \A k \in 0 .. n : up[k] = w[k] + IF k = 0 THEN 0 ELSE up[k - 1]
  BY DEF PartialSums
<1>2. 0 \in T
  <2>1. Total(w, {} \cup {0}) = w[0] + Total(w, {})
    BY FS_EmptySet, TotalAdd
  <2>2. {} \cup {0} = 0 .. 0
    OBVIOUS
  <2> QED
    BY <1>1, <2>1, <2>2, TotalEmpty
<1>3. ASSUME NEW k \in T
      PROVE  k + 1 \in T
  <2> SUFFICES ASSUME k + 1 <= n PROVE up[k + 1] \in Int /\ up[k + 1] = Total(w, 0 .. k + 1)
    OBVIOUS
  <2>1. up[k + 1] = w[k + 1] + up[k] /\ up[k] \in Int /\ up[k] = Total(w, 0 .. k)
    BY <1>1, <1>3
  <2>2. Total(w, (0 .. k) \cup {k + 1}) = w[k + 1] + Total(w, 0 .. k)
    <3>1. IsFiniteSet(0 .. k)
      BY FS_Interval
    <3>2. k + 1 \notin 0 .. k /\ \A m \in (0 .. k) \cup {k + 1} : w[m] \in Int
      OBVIOUS
    <3> QED
      BY <3>1, <3>2, TotalAdd
  <2>3. (0 .. k) \cup {k + 1} = 0 .. k + 1
    OBVIOUS
  <2>4. w[k + 1] \in Int
    OBVIOUS
  <2>5. up[k + 1] = Total(w, 0 .. k + 1)
    BY <2>1, <2>2, <2>3
  <2> QED
    BY <2>1, <2>4, <2>5
<1>4. T = Nat
  <2> HIDE DEF T
  <2>1. T \in SUBSET Nat
    BY DEF T
  <2> QED
    BY <1>2, <1>3, <2>1, NumberInduction
<1> QED
  BY <1>4

-----------------------------------------------------------------------------
(* Whole division: the largest number whose multiple does not exceed.     *)
LEMMA DivAtLeast ==
  ASSUME NEW a \in Int, NEW r \in Nat \ {0}, NEW q \in Int, q * r <= a
  PROVE  q <= a \div r
<1> DEFINE e == a \div r
<1>1. e \in Int /\ a < r * e + r
  OBVIOUS
<1> HIDE DEF e
<1>2. SUFFICES ASSUME e + 1 <= q PROVE FALSE
  BY <1>1 DEF e
<1>3. (e + 1) * r <= q * r
  BY <1>1, <1>2
<1>4. (e + 1) * r = r * e + r
  BY <1>1
<1> QED
  BY <1>1, <1>3, <1>4

(* That number is one of them. *)
LEMMA DivAtMost ==
  ASSUME NEW a \in Int, NEW r \in Nat \ {0}
  PROVE  a \div r \in Int /\ (a \div r) * r <= a
OBVIOUS

(* Products grow with their factors. *)
LEMMA TimesGrows ==
  ASSUME NEW m \in Nat, NEW n \in Nat, m <= n, NEW t \in Nat
  PROVE  m * t <= n * t
OBVIOUS

=============================================================================
