---------------------------- MODULE SelectionProofs ----------------------------
(***************************************************************************)
(* Proofs about the selection of probes: for any probes, locations, words, *)
(* limits and shuffles, a request for some locations gets the probes it    *)
(* asks for or all there are, and those of one location come from as many  *)
(* networks as there can be.                                               *)
(***************************************************************************)
EXTENDS Selection, FiniteSetTheorems, FunctionTheorems, SequenceTheorems, WellFoundedInduction, TLAPS

-------------------------------------------------------------------------------
(* Least elements and induction over sets *)

\* There is a least of some natural numbers.
LEMMA LeastExists ==
  ASSUME NEW S, S \subseteq Nat, S # {}
  PROVE  \E m \in S : \A n \in S : m <= n
<1>1. PICK m \in S : \A n \in S : <<n, m>> \notin OpToRel(<, Nat)
  BY NatLessThanWellFounded, WFMin, Zenon
<1>2. \A n \in S : ~(n < m)
  BY <1>1 DEF OpToRel
<1>3. QED
  BY <1>2

\* The lowest of a set of numbers is one of them, and none is lower.
LEMMA LowestIsThere ==
  ASSUME NEW K \in SUBSET Nat, K # {}
  PROVE  Min(K) \in K /\ \A j \in K : Min(K) <= j
<1>1. \E k \in K : \A j \in K : k <= j
  BY LeastExists
<1>2. QED
  BY <1>1 DEF Min

\* Induction up to a number, over a set: what holds of 0, and of k + 1 when it holds of k.
LEMMA Induction ==
  ASSUME NEW n \in Nat, NEW S,
         0 \in S,
         \A k \in 1..n : k - 1 \in S => k \in S
  PROVE  \A k \in 0..n : k \in S
<1> DEFINE T == {k \in 0..n : k \notin S}
<1>1. T \subseteq Nat
  OBVIOUS
<1>2. SUFFICES ASSUME T # {}
               PROVE  FALSE
  BY <1>2
<1>3. PICK m \in T : \A k \in T : m <= k
  <2> HIDE DEF T
  <2>1. QED
    BY <1>1, <1>2, LeastExists
<1>4. m \in 1..n
  OBVIOUS
<1>5. m - 1 \in 0..n /\ ~(m <= m - 1)
  BY <1>4
<1>6. m - 1 \notin T
  <2> HIDE DEF T
  <2>1. QED
    BY <1>3, <1>5
<1>7. QED
  BY <1>4, <1>5, <1>6

\* Induction over the subsets of a finite set: what holds of the empty set, and of a set when it
\* holds of all that lack one element.
LEMMA SubsetInduction ==
  ASSUME NEW S, IsFiniteSet(S), NEW Good,
         {} \in Good,
         \A q \in SUBSET S : q # {} /\ (\A r \in q : q \ {r} \in Good) => q \in Good
  PROVE  S \in Good
<1> DEFINE n == Cardinality(S)
           T == {k \in 0..n : \A q \in SUBSET S : Cardinality(q) = k => q \in Good}
<1>1. n \in Nat
  BY FS_CardinalityType
<1>2. 0 \in T
  <2>1. \A q \in SUBSET S : Cardinality(q) = 0 => q = {}
    BY FS_Subset, FS_EmptySet
  <2>2. 0 \in 0..n
    BY <1>1
  <2> HIDE DEF n
  <2>3. QED
    BY <2>1, <2>2
<1>3. ASSUME NEW k \in 1..n, k - 1 \in T
      PROVE  k \in T
  <2>1. ASSUME NEW q \in SUBSET S, Cardinality(q) = k
        PROVE  q \in Good
    <3>1. IsFiniteSet(q) /\ k # 0 /\ k \in Nat
      BY <1>1, FS_Subset
    <3>2. q # {}
      BY <2>1, <3>1, FS_EmptySet
    <3>3. ASSUME NEW r \in q
          PROVE  q \ {r} \in Good
      <4>1. Cardinality(q \ {r}) = k - 1
        BY <2>1, <3>1, FS_RemoveElement
      <4>2. q \ {r} \in SUBSET S
        OBVIOUS
      <4> HIDE DEF n
      <4>3. QED
        BY <1>3, <4>1, <4>2
    <3>4. QED
      BY <3>2, <3>3
  <2> HIDE DEF n
  <2>2. QED
    BY <2>1
<1>4. n \in T
  <2> HIDE DEF T, n
  <2>1. \A k \in 0..n : k \in T
    BY <1>1, <1>2, <1>3, Induction
  <2>2. QED
    BY <1>1, <2>1
<1>5. QED
  BY <1>4

-------------------------------------------------------------------------------
(* Folds and recursive functions *)

\* The element that a fold takes next.
Chosen(q) == CHOOSE r \in q : TRUE

\* The sums of the weights of some locations exist: one is that of the others, and of the one chosen.
LEMMA SumsExist ==
  ASSUME NEW kind, NEW S, IsFiniteSet(S), \A l \in S : Weight(kind, l) \in Nat
  PROVE  \E it \in [SUBSET S -> Nat] :
           /\ it[{}] = 0
           /\ \A q \in SUBSET S : q # {} =>
                it[q] = Weight(kind, Chosen(q)) + it[q \ {Chosen(q)}]
<1> DEFINE V == Nat
           base == 0
           Next1(it, q) == IF q = {} THEN base ELSE Weight(kind, Chosen(q)) + it[q \ {Chosen(q)}]
           Small(k) == {q \in SUBSET S : Cardinality(q) <= k}
           Solves(it, D) == it = [q \in D |-> Next1(it, q)] /\ it \in [D -> V]
           last == Cardinality(S)
           Good == {k \in 0..last : \E it : Solves(it, Small(k))}
<1>0. last \in Nat
  BY FS_CardinalityType
<1>1. \A q \in SUBSET S : IsFiniteSet(q) /\ Cardinality(q) \in Nat /\ Cardinality(q) <= last
  BY FS_Subset, FS_CardinalityType
<1>2. \A q \in SUBSET S : q # {} =>
        /\ Chosen(q) \in q
        /\ Cardinality(q \ {Chosen(q)}) = Cardinality(q) - 1
        /\ Cardinality(q) >= 1
  <2>1. ASSUME NEW q \in SUBSET S, q # {}
        PROVE  /\ Chosen(q) \in q
               /\ Cardinality(q \ {Chosen(q)}) = Cardinality(q) - 1
               /\ Cardinality(q) >= 1
    <3>1. Chosen(q) \in q
      BY <2>1 DEF Chosen
    <3>2. Cardinality(q \ {Chosen(q)}) = Cardinality(q) - 1
      BY <1>1, <3>1, FS_RemoveElement
    <3>3. q \ {Chosen(q)} \in SUBSET S
      OBVIOUS
    <3>4. Cardinality(q \ {Chosen(q)}) \in Nat /\ Cardinality(q) \in Nat
      BY <1>1, <3>3
    <3>5. QED
      BY <3>1, <3>2, <3>4
  <2>2. QED
    BY <2>1
<1>3. 0 \in Good
  <2>1. \A q \in Small(0) : q = {}
    <3>1. ASSUME NEW q \in Small(0), q # {}
          PROVE  FALSE
      <4>1. Cardinality(q) <= 0 /\ Cardinality(q) >= 1 /\ Cardinality(q) \in Nat
        BY <1>1, <1>2, <3>1
      <4>2. QED
        BY <4>1
    <3>2. QED
      BY <3>1
  <2>2. Solves([q \in Small(0) |-> base], Small(0))
    <3> HIDE DEF Small
    <3>1. QED
      BY <2>1
  <2>3. 0 \in 0..last
    BY <1>0
  <2> HIDE DEF Solves, Small, last
  <2>4. QED
    BY <2>2, <2>3
<1>4. ASSUME NEW m \in 1..last, m - 1 \in Good
      PROVE  m \in Good
  <2>1. PICK it : Solves(it, Small(m - 1))
    BY <1>4
  <2> DEFINE jt == [q \in Small(m) |-> Next1(it, q)]
  <2>2. ASSUME NEW q \in Small(m), q # {}
        PROVE  /\ jt[q \ {Chosen(q)}] = it[q \ {Chosen(q)}]
               /\ q \ {Chosen(q)} \in Small(m - 1)
    <3> DEFINE r == q \ {Chosen(q)}
    <3>1. r \in Small(m - 1) /\ r \in Small(m)
      <4>1. r \in SUBSET S /\ Cardinality(r) = Cardinality(q) - 1
        BY <1>2, <2>2
      <4>2. Cardinality(q) <= m /\ Cardinality(q) \in Nat
        BY <1>1
      <4> HIDE DEF r
      <4>3. QED
        BY <1>4, <4>1, <4>2
    <3> HIDE DEF r, Small
    <3>2. it[r] = Next1(it, r)
      BY <2>1, <3>1
    <3>3. jt[r] = Next1(it, r)
      BY <3>1
    <3>4. jt[r] = it[r]
      <4> HIDE DEF jt, Next1
      <4>1. QED
        BY <3>2, <3>3
    <3>5. QED
      BY <3>1, <3>4 DEF r
  <2>3. \A q \in Small(m) : Next1(it, q) = Next1(jt, q)
    <3> HIDE DEF jt, Small
    <3>1. QED
      BY <2>2
  <2>4. \A q \in Small(m) : Next1(it, q) \in V
    <3>1. ASSUME NEW q \in Small(m), q # {}
          PROVE  Weight(kind, Chosen(q)) + it[q \ {Chosen(q)}] \in V
      <4>1. Chosen(q) \in S
        BY <1>2, <3>1
      <4>2. it[q \ {Chosen(q)}] \in V
        <5> HIDE DEF Small
        <5>1. QED
          BY <2>1, <2>2, <3>1
      <4> HIDE DEF Small
      <4>4. QED
        BY <4>1, <4>2
    <3> HIDE DEF Small
    <3>2. QED
      BY <3>1
  <2>5. Solves(jt, Small(m))
    <3> HIDE DEF Small, Next1
    <3>1. QED
      BY <2>3, <2>4
  <2> HIDE DEF Solves, Small, jt, last
  <2>6. QED
    BY <2>5
<1>5. last \in Good
  <2> HIDE DEF Good, last
  <2>1. \A k \in 0..last : k \in Good
    BY <1>0, <1>3, <1>4, Induction
  <2>2. QED
    BY <1>0, <2>1
<1>6. Small(last) = SUBSET S
  <2> HIDE DEF last
  <2>1. QED
    BY <1>1
<1>7. PICK it : Solves(it, SUBSET S)
  <2> HIDE DEF Solves, Small, last
  <2>1. \E it : Solves(it, Small(last))
    BY <1>5
  <2>2. QED
    BY <1>6, <2>1
<1>8. it \in [SUBSET S -> V] /\ it = [q \in SUBSET S |-> Next1(it, q)]
  BY <1>7
<1>9. \A q \in SUBSET S : it[q] = Next1(it, q)
  <2> HIDE DEF Next1
  <2>1. QED
    BY <1>8
<1>10. QED
  BY <1>8, <1>9

\* A function that is defined on each number by the one before it exists.
LEMMA RecursionExists ==
  ASSUME NEW n \in Nat, NEW V, NEW base \in V, NEW I, I = 1..n, NEW step \in [I -> [V -> V]]
  PROVE  \E it \in [0..n -> V] :
           it[0] = base /\ \A k \in 1..n : it[k] = step[k][it[k - 1]]
<1> DEFINE Solves(it, k) == /\ it \in [0..k -> V]
                            /\ it[0] = base /\ \A j \in 1..k : it[j] = step[j][it[j - 1]]
           Good == {k \in 0..n : \E it : Solves(it, k)}
<1>1. 0 \in Good
  <2>1. Solves([j \in 0..0 |-> base], 0)
    OBVIOUS
  <2>2. 0 \in 0..n
    OBVIOUS
  <2> HIDE DEF Solves
  <2>3. QED
    BY <2>1, <2>2
<1>2. ASSUME NEW k \in 1..n, k - 1 \in Good
      PROVE  k \in Good
  <2>1. PICK it : Solves(it, k - 1)
    BY <1>2
  <2>2. /\ it \in [0..k - 1 -> V]
        /\ it[0] = base /\ \A j \in 1..k - 1 : it[j] = step[j][it[j - 1]]
    BY <2>1
  <2> DEFINE jt == [j \in 0..k |-> IF j = k THEN step[k][it[k - 1]] ELSE it[j]]
  <2>3. it[k - 1] \in V
    BY <2>2
  <2>4. jt \in [0..k -> V] /\ jt[0] = base
    BY <2>2, <2>3
  <2>5. ASSUME NEW j \in 1..k
        PROVE  jt[j] = step[j][jt[j - 1]]
    <3>1. j - 1 \in 0..k - 1 /\ j - 1 # k /\ j - 1 \in 0..k
      OBVIOUS
    <3>2. CASE j = k
      BY <3>1, <3>2
    <3>3. CASE j # k
      <4>1. j \in 1..k - 1
        BY <3>3
      <4>2. QED
        BY <2>2, <3>1, <3>3, <4>1
    <3>4. QED
      BY <3>2, <3>3
  <2>6. Solves(jt, k)
    <3> HIDE DEF jt
    <3>1. QED
      BY <2>4, <2>5
  <2> HIDE DEF Solves, jt
  <2>7. QED
    BY <2>6
<1>3. n \in Good
  <2> HIDE DEF Good
  <2>1. \A k \in 0..n : k \in Good
    BY <1>1, <1>2, Induction
  <2>2. QED
    BY <2>1
<1>4. QED
  BY <1>3

-------------------------------------------------------------------------------
(* What the locations of a request give *)

\* The weight of some locations is a number, and theirs when they weigh one each.
LEMMA RemainingWeights ==
  ASSUME NEW kind, NEW S, IsFiniteSet(S), \A l \in S : Weight(kind, l) \in Nat \ {0}
  PROVE  /\ RemainingWeight(kind, S) \in Nat
         /\ S # {} => RemainingWeight(kind, S) # 0
         /\ kind # "world" => RemainingWeight(kind, S) = Cardinality(S)
<1> DEFINE iter == CHOOSE it : it = [q \in SUBSET S |->
                     IF q = {} THEN 0 ELSE Weight(kind, Chosen(q)) + it[q \ {Chosen(q)}]]
<1>1. \E it \in [SUBSET S -> Nat] :
        /\ it[{}] = 0
        /\ \A q \in SUBSET S : q # {} => it[q] = Weight(kind, Chosen(q)) + it[q \ {Chosen(q)}]
  <2>1. \A l \in S : Weight(kind, l) \in Nat
    OBVIOUS
  <2>2. QED
    BY <2>1, SumsExist
<1>2. \A q \in SUBSET S : q # {} => Chosen(q) \in q /\ q \ {Chosen(q)} \in SUBSET S
  BY DEF Chosen
<1>3. PICK it : it = [q \in SUBSET S |-> IF q = {} THEN 0 ELSE Weight(kind, Chosen(q)) + it[q \ {Chosen(q)}]]
  <2>1. QED
    BY <1>1
<1>5. iter = [q \in SUBSET S |-> IF q = {} THEN 0 ELSE Weight(kind, Chosen(q)) + iter[q \ {Chosen(q)}]]
  <2>1. QED
    BY <1>3
<1>6. RemainingWeight(kind, S) = iter[S]
  BY DEF RemainingWeight, FoldSet, MapThenFoldSet, Chosen
<1> HIDE DEF iter
<1> DEFINE Right(q) == /\ iter[q] \in Nat
                       /\ q # {} => iter[q] # 0
                       /\ kind # "world" => iter[q] = Cardinality(q)
           Good == {q \in SUBSET S : Right(q)}
<1>7. {} \in Good
  <2>1. iter[{}] = 0
    BY <1>5
  <2>2. QED
    BY <2>1, FS_EmptySet
<1>8. ASSUME NEW q \in SUBSET S, q # {}, \A r \in q : q \ {r} \in Good
      PROVE  q \in Good
  <2> DEFINE r == Chosen(q)
  <2>1. r \in q /\ r \in S
    BY <1>2, <1>8
  <2>2. iter[q] = Weight(kind, r) + iter[q \ {r}]
    <3>1. QED
      BY <1>5, <1>8
  <2> HIDE DEF r
  <2>3. Right(q \ {r})
    BY <1>8, <2>1
  <2>4. Weight(kind, r) \in Nat \ {0} /\ (kind # "world" => Weight(kind, r) = 1)
    BY <2>1 DEF Weight
  <2>5. iter[q] \in Nat /\ iter[q] # 0
    BY <2>2, <2>3, <2>4
  <2>6. kind # "world" => iter[q] = Cardinality(q)
    <3>1. IsFiniteSet(q) /\ Cardinality(q) \in Nat
      BY FS_Subset, FS_CardinalityType
    <3>2. Cardinality(q \ {r}) = Cardinality(q) - 1
      BY <2>1, <3>1, FS_RemoveElement
    <3>3. QED
      BY <2>2, <2>3, <2>4, <3>1, <3>2
  <2>7. QED
    BY <2>5, <2>6
<1>9. S \in Good
  <2> HIDE DEF Good
  <2>1. QED
    BY <1>7, <1>8, SubsetInduction
<1>10. QED
  BY <1>6, <1>9

\* A keyword leaves some of the probes.
LEMMA NarrowLess ==
  ASSUME NEW all, NEW S, NEW w
  PROVE  Narrow(all, S, w) \subseteq S
BY DEF Narrow

\* And so do the keywords of a magic string.
LEMMA MagicFilterLess ==
  ASSUME NEW all, NEW S, NEW words, Len(words) \in Nat
  PROVE  MagicFilter(all, S, words) \subseteq S
<1> DEFINE earlier(i, j) == \/ ExactPosition(all, words[i]) < ExactPosition(all, words[j])
                            \/ ExactPosition(all, words[i]) = ExactPosition(all, words[j]) /\ i < j
           kth(k) == CHOOSE i \in DOMAIN words : Cardinality({j \in DOMAIN words : earlier(j, i)}) = k - 1
           n == Len(words)
           result == CHOOSE it :
             it = [k \in 0..n |-> IF k = 0 THEN S ELSE Narrow(all, it[k - 1], words[kth(k)])]
<1>1. MagicFilter(all, S, words) = result[n]
  BY DEF MagicFilter
<1> HIDE DEF kth
<1>2. PICK it \in [0..n -> SUBSET S] :
        it[0] = S /\ \A k \in 1..n : it[k] = Narrow(all, it[k - 1], words[kth(k)])
  <2> DEFINE V == SUBSET S
             I == 1..n
             step == [k \in I |-> [T \in V |-> Narrow(all, T, words[kth(k)])]]
  <2>1. n \in Nat /\ S \in V /\ step \in [I -> [V -> V]] /\ I = 1..n
    BY NarrowLess
  <2>2. \A k \in 1..n, T \in V : step[k][T] = Narrow(all, T, words[kth(k)])
    OBVIOUS
  <2> HIDE DEF V, step, n, I
  <2>3. PICK it \in [0..n -> V] : it[0] = S /\ \A k \in 1..n : it[k] = step[k][it[k - 1]]
    BY <2>1, RecursionExists
  <2>4. \A k \in 1..n : it[k - 1] \in V
    BY <2>1, <2>3
  <2>5. QED
    BY <2>2, <2>3, <2>4 DEF V
<1>3. it = [k \in 0..n |-> IF k = 0 THEN S ELSE Narrow(all, it[k - 1], words[kth(k)])]
  <2>1. \A k \in 0..n : k # 0 => k \in 1..n
    OBVIOUS
  <2> HIDE DEF n
  <2>2. \A k \in 0..n : it[k] = IF k = 0 THEN S ELSE Narrow(all, it[k - 1], words[kth(k)])
    BY <1>2, <2>1
  <2>3. QED
    BY <1>2, <2>2
<1>4. result = [k \in 0..n |-> IF k = 0 THEN S ELSE Narrow(all, result[k - 1], words[kth(k)])]
  <2> HIDE DEF n
  <2>1. QED
    BY <1>3
<1> HIDE DEF result
<1> DEFINE Good == {k \in 0..n : result[k] \subseteq S}
<1>5. 0 \in Good
  BY <1>4
<1>6. ASSUME NEW k \in 1..n, k - 1 \in Good
      PROVE  k \in Good
  <2>1. k \in 0..n /\ k # 0 /\ result[k - 1] \subseteq S
    BY <1>6
  <2>2. result[k] = Narrow(all, result[k - 1], words[kth(k)])
    <3> HIDE DEF n
    <3>1. QED
      BY <1>4, <2>1
  <2>3. QED
    BY <2>1, <2>2, NarrowLess
<1>7. n \in Good
  <2> HIDE DEF Good
  <2>1. n \in Nat
    OBVIOUS
  <2> HIDE DEF n
  <2>2. \A k \in 0..n : k \in Good
    BY <1>5, <1>6, <2>1, Induction
  <2>3. QED
    BY <2>1, <2>2
<1>8. QED
  BY <1>1, <1>7

-------------------------------------------------------------------------------
(* Lists, and what is taken from them *)

\* An order of a finite set has each of its elements, once.
LEMMA OrdersAre ==
  ASSUME NEW S, IsFiniteSet(S), NEW s \in Orders(S)
  PROVE  /\ s \in Seq(S) /\ Len(s) = Cardinality(S) /\ DOMAIN s = 1..Len(s) /\ Len(s) \in Nat
         /\ ToSet(s) = S
         /\ \A i, j \in 1..Len(s) : s[i] = s[j] => i = j
<1> DEFINE n == Cardinality(S)
<1>1. n \in Nat
  BY FS_CardinalityType
<1>2. s \in [1..n -> S] /\ \A i, j \in 1..n : s[i] = s[j] => i = j
  BY DEF Orders, IsInjective
<1>3. s \in Seq(S) /\ Len(s) = n
  <2> HIDE DEF n
  <2>1. QED
    BY <1>1, <1>2
<1>4. s \in Surjection(1..n, S)
  <2>1. s \in Injection(1..n, S)
    BY <1>2 DEF Injection, IsInjective
  <2>2. Cardinality(1..n) = n
    <3> HIDE DEF n
    <3>1. QED
      BY <1>1, FS_Interval
  <2>3. QED
    BY <2>1, <2>2, FS_Injection
<1>5. ToSet(s) = S
  <2> HIDE DEF n
  <2>1. DOMAIN s = 1..n
    BY <1>2
  <2>2. \A x \in S : \E i \in 1..n : s[i] = x
    BY <1>4 DEF Surjection
  <2>3. QED
    BY <1>2, <2>1, <2>2 DEF ToSet
<1> HIDE DEF n
<1>6. QED
  BY <1>1, <1>2, <1>3, <1>5 DEF n

\* Of the first n of a list there are at most n.
LEMMA FirstFew ==
  ASSUME NEW s, NEW n \in Nat
  PROVE  /\ IsFiniteSet(FirstProbes(s, n))
         /\ Cardinality(FirstProbes(s, n)) <= n
         /\ Cardinality(FirstProbes(s, n)) \in Nat
<1> DEFINE D == DOMAIN s \cap 1..n
           T == {s[i] : i \in D}
           f == [i \in D |-> s[i]]
<1>1. IsFiniteSet(1..n) /\ Cardinality(1..n) = n
  <2>1. n >= 1 \/ n = 0
    OBVIOUS
  <2>2. QED
    BY <2>1, FS_Interval
<1>2. IsFiniteSet(D) /\ Cardinality(D) <= n /\ Cardinality(D) \in Nat
  <2>1. D \in SUBSET (1..n)
    OBVIOUS
  <2> HIDE DEF D
  <2>2. QED
    BY <1>1, <2>1, FS_Subset, FS_CardinalityType
<1>3. f \in Surjection(D, T)
  BY DEF Surjection
<1> HIDE DEF D, f
<1>4. IsFiniteSet(T) /\ Cardinality(T) <= Cardinality(D)
  <2> HIDE DEF T
  <2>1. QED
    BY <1>2, <1>3, FS_Surjection
<1>5. Cardinality(T) \in Nat
  BY <1>4, FS_CardinalityType
<1>6. QED
  BY <1>2, <1>4, <1>5 DEF D, FirstProbes

\* What is left of a list without its first ones.
LEMMA RestIs ==
  ASSUME NEW T, NEW s \in Seq(T), NEW count \in Nat
  PROVE  /\ OtherProbes(s, count) \in Seq(T)
         /\ Len(OtherProbes(s, count)) = IF count <= Len(s) THEN Len(s) - count ELSE 0
         /\ \A i \in 1..Len(s) - count : OtherProbes(s, count)[i] = s[count + i]
<1> DEFINE m == count + 1
           n == Len(s)
           r == SubSeq(s, m, n)
<1>1. n \in Nat /\ m \in Nat /\ \A i \in 1..n : s[i] \in T
  OBVIOUS
<1>2. /\ r \in Seq(T)
      /\ Len(r) = IF m <= n THEN n - m + 1 ELSE 0
      /\ \A i \in 1..n - m + 1 : r[i] = s[m + i - 1]
  <2>1. m \in Int /\ n \in Int /\ \A i \in m..n : s[i] \in T
    BY <1>1
  <2> HIDE DEF m, n
  <2>2. QED
    BY <2>1, SubSeqProperties
<1> HIDE DEF r, n
<1>3. Len(r) = IF count <= n THEN n - count ELSE 0
  BY <1>1, <1>2
<1>4. ASSUME NEW i \in 1..n - count
      PROVE  r[i] = s[count + i]
  <2>1. i \in 1..n - m + 1 /\ m + i - 1 = count + i
    BY <1>1
  <2> HIDE DEF m
  <2>2. QED
    BY <1>2, <2>1
<1>5. QED
  BY <1>2, <1>3, <1>4 DEF r, n, OtherProbes

\* What is left of a list, with what was taken from it, is the list.
LEMMA RestTyped ==
  ASSUME NEW T, NEW s \in Seq(T), NEW count \in Nat
  PROVE  /\ OtherProbes(s, count) \in Seq(T)
         /\ ToSet(OtherProbes(s, count)) \subseteq ToSet(s)
         /\ ToSet(s) \subseteq FirstProbes(s, count) \cup ToSet(OtherProbes(s, count))
<1> DEFINE n == Len(s)
           r == OtherProbes(s, count)
<1>1. n \in Nat /\ DOMAIN s = 1..n
  OBVIOUS
<1>2. /\ r \in Seq(T)
      /\ Len(r) = IF count <= n THEN n - count ELSE 0
      /\ \A i \in 1..n - count : r[i] = s[count + i]
  BY RestIs
<1>3. DOMAIN r = 1..Len(r) /\ Len(r) \in Nat
  <2> HIDE DEF r
  <2>1. QED
    BY <1>2
<1> HIDE DEF r, n
<1>4. ToSet(r) \subseteq ToSet(s)
  <2>1. ASSUME NEW i \in 1..Len(r)
        PROVE  r[i] \in {s[j] : j \in 1..n}
    <3>1. i \in 1..n - count /\ count + i \in 1..n
      BY <1>1, <1>2, <1>3
    <3>2. QED
      BY <1>2, <3>1
  <2>2. QED
    BY <1>1, <1>3, <2>1 DEF ToSet
<1>5. ASSUME NEW i \in 1..n, i \notin 1..count
      PROVE  \E j \in 1..Len(r) : r[j] = s[i]
  <2>1. i - count \in 1..n - count /\ count + (i - count) = i /\ i - count \in 1..Len(r)
    BY <1>1, <1>2, <1>5
  <2>2. QED
    BY <1>2, <2>1
<1>6. ToSet(s) \subseteq FirstProbes(s, count) \cup ToSet(r)
  BY <1>1, <1>3, <1>5 DEF ToSet, FirstProbes
<1>7. QED
  BY <1>2, <1>4, <1>6 DEF r, n

\* The lowest of two numbers is the lesser one.
LEMMA LesserOf ==
  ASSUME NEW a \in Nat, NEW b \in Nat
  PROVE  Min({a, b}) = IF a <= b THEN a ELSE b
<1>1. Min({a, b}) \in {a, b} /\ \A j \in {a, b} : Min({a, b}) <= j
  BY LowestIsThere
<1>2. QED
  BY <1>1

\* The first c of a shuffle come from c networks, or from all there are: a network comes again only
\* after each has come once.
LEMMA PrefixSpread ==
  ASSUME NEW S, IsFiniteSet(S), NEW s \in DiversifiedShuffles(S), NEW c \in 0..Len(s)
  PROVE  /\ Cardinality(FirstProbes(s, c)) = c
         /\ Cardinality(Networks(FirstProbes(s, c))) = Min({c, Cardinality(Networks(S))})
<1> DEFINE n == Len(s)
           net(i) == NetworkOf[s[i]]
           turn == [i \in DOMAIN s |-> Cardinality({j \in 1..i : NetworkOf[s[j]] = NetworkOf[s[i]]})]
           first == FirstProbes(s, c)
<1>1. s \in Orders(S)
  BY DEF DiversifiedShuffles
<1>2. /\ s \in Seq(S) /\ DOMAIN s = 1..n /\ n \in Nat
      /\ ToSet(s) = S
      /\ \A i, j \in 1..n : s[i] = s[j] => i = j
  BY <1>1, OrdersAre
<1>0. first = {s[i] : i \in 1..c}
  <2>1. DOMAIN s \cap 1..c = 1..c
    BY <1>2
  <2>2. QED
    BY <2>1 DEF FirstProbes
<1> HIDE DEF first
<1>3. \A i, j \in DOMAIN s : i < j => turn[i] < turn[j] \/ turn[i] = turn[j]
  BY DEF DiversifiedShuffles, Dealt
<1> DEFINE alike(i) == {j \in 1..i : net(j) = net(i)}
<1>4. ASSUME NEW i \in 1..n
      PROVE  turn[i] = Cardinality(alike(i)) /\ IsFiniteSet(alike(i)) /\ turn[i] \in Nat /\ i \in alike(i)
  <2>1. turn[i] = Cardinality(alike(i))
    BY <1>2
  <2>2. alike(i) \in SUBSET (1..i) /\ IsFiniteSet(1..i)
    BY FS_Interval
  <2>3. IsFiniteSet(alike(i))
    <3> HIDE DEF alike
    <3>1. QED
      BY <2>2, FS_Subset
  <2>4. i \in alike(i)
    OBVIOUS
  <2> HIDE DEF turn, alike
  <2>5. QED
    BY <2>1, <2>3, <2>4, FS_CardinalityType
<1>5. ASSUME NEW i \in 1..n, NEW j \in 1..n, i < j, net(i) = net(j)
      PROVE  turn[j] > 1
  <2>1. i \in alike(j) /\ j \in alike(j) /\ i # j
    BY <1>5
  <2>2. IsFiniteSet(alike(j)) /\ turn[j] = Cardinality(alike(j)) /\ turn[j] \in Nat
    BY <1>4
  <2> HIDE DEF alike, turn
  <2>3. Cardinality(alike(j) \ {i}) = turn[j] - 1 /\ IsFiniteSet(alike(j) \ {i})
    BY <2>1, <2>2, FS_RemoveElement
  <2>4. Cardinality(alike(j) \ {i}) # 0 /\ Cardinality(alike(j) \ {i}) \in Nat
    <3>1. j \in alike(j) \ {i}
      BY <2>1
    <3>2. QED
      BY <2>3, <3>1, FS_EmptySet, FS_CardinalityType
  <2>5. QED
    BY <2>2, <2>3, <2>4
<1>6. ASSUME NEW g \in Networks(S)
      PROVE  \E j \in 1..n : net(j) = g /\ turn[j] = 1
  <2> DEFINE K == {j \in 1..n : net(j) = g}
  <2>1. K \subseteq Nat /\ K # {}
    BY <1>2 DEF Networks, ToSet
  <2>2. PICK j \in K : \A k \in K : j <= k
    <3> HIDE DEF K
    <3>1. QED
      BY <2>1, LeastExists
  <2>3. alike(j) = {j}
    <3>1. j \in 1..n /\ net(j) = g
      BY <2>2
    <3>2. ASSUME NEW k \in 1..j, net(k) = net(j)
          PROVE  k = j
      <4>1. k \in K
        BY <1>2, <3>1, <3>2
      <4>2. j <= k /\ k <= j /\ j \in Nat /\ k \in Nat
        BY <2>2, <3>1, <4>1
      <4>3. QED
        BY <4>2
    <3>3. j \in 1..j
      BY <3>1
    <3> HIDE DEF net
    <3>4. QED
      BY <3>2, <3>3
  <2>4. turn[j] = 1
    <3>1. j \in 1..n
      BY <2>2
    <3>2. turn[j] = Cardinality(alike(j))
      BY <1>4, <3>1
    <3> HIDE DEF alike, turn
    <3>3. QED
      BY <2>3, <3>2, FS_Singleton
  <2>5. QED
    BY <2>2, <2>4
<1> DEFINE D == 1..c
           G == Networks(first)
           A == Networks(S)
<1>7. IsFiniteSet(D) /\ Cardinality(D) = c /\ c \in Nat /\ c <= n
  <2>1. c \in Nat /\ c <= n
    BY <1>2
  <2> HIDE DEF n
  <2>2. c >= 1 \/ c = 0
    BY <2>1
  <2>3. QED
    BY <2>1, <2>2, FS_Interval
<1>8. D \subseteq 1..n /\ first \subseteq S
  <2>1. D \subseteq 1..n
    BY <1>2
  <2>2. QED
    BY <1>0, <1>2, <2>1 DEF ToSet
<1>9. Cardinality(first) = c
  <2> DEFINE f == [i \in D |-> s[i]]
  <2>1. f \in Bijection(D, first)
    <3>1. \A i, j \in D : s[i] = s[j] => i = j
      BY <1>2, <1>8
    <3>2. QED
      BY <1>0, <3>1 DEF Bijection, Injection, Surjection, IsInjective
  <2>2. ExistsBijection(D, first)
    <3> HIDE DEF f, D
    <3>1. QED
      BY <2>1 DEF ExistsBijection
  <2> HIDE DEF D
  <2>3. QED
    BY <1>7, <2>2, FS_Bijection
<1>10. IsFiniteSet(A) /\ Cardinality(A) \in Nat
  <2> DEFINE f == [p \in S |-> NetworkOf[p]]
  <2>1. f \in Surjection(S, A)
    BY DEF Surjection, Networks
  <2> HIDE DEF f, A
  <2>2. QED
    BY <2>1, FS_Surjection, FS_CardinalityType
<1>11. G \subseteq A
  BY <1>8 DEF Networks
<1> DEFINE f == [i \in D |-> net(i)]
<1>12. f \in Surjection(D, G)
  BY <1>0 DEF Surjection, Networks
<1>13. IsFiniteSet(G) /\ Cardinality(G) <= c /\ Cardinality(G) \in Nat
  <2> HIDE DEF f, G, D
  <2>1. QED
    BY <1>7, <1>12, FS_Surjection, FS_CardinalityType
<1>14. CASE \A i \in D : turn[i] <= 1
  <2>1. \A i, j \in D : net(i) = net(j) => i = j
    <3> SUFFICES ASSUME NEW i \in D, NEW j \in D, net(i) = net(j), i # j
                 PROVE  FALSE
      OBVIOUS
    <3>1. i \in 1..n /\ j \in 1..n /\ i \in Nat /\ j \in Nat
      BY <1>8
    <3>2. turn[i] \in Nat /\ turn[j] \in Nat /\ turn[i] <= 1 /\ turn[j] <= 1
      BY <1>4, <1>14, <3>1
    <3> HIDE DEF turn, net, D
    <3>3. CASE i < j
      BY <1>5, <3>1, <3>2, <3>3
    <3>4. CASE j < i
      BY <1>5, <3>1, <3>2, <3>4
    <3>5. QED
      BY <3>1, <3>3, <3>4
  <2>2. f \in Injection(D, G)
    <3> HIDE DEF net
    <3>1. f \in [D -> G]
      BY <1>12 DEF Surjection
    <3>2. QED
      BY <2>1, <3>1 DEF Injection, IsInjective
  <2> HIDE DEF f, G, D, A
  <2>3. Cardinality(G) = c
    BY <1>7, <1>12, <2>2, FS_Surjection
  <2>4. c <= Cardinality(A)
    BY <1>10, <1>11, <2>3, FS_Subset
  <2>5. Min({c, Cardinality(A)}) = c
    BY <1>7, <1>10, <2>4, LesserOf
  <2>6. QED
    BY <1>9, <2>3, <2>5 DEF G, A, D, first
<1>15. CASE \E i \in D : ~(turn[i] <= 1)
  <2>1. PICK i \in D : ~(turn[i] <= 1)
    BY <1>15
  <2>2. i \in 1..n /\ turn[i] \in Nat
    BY <1>4, <1>8
  <2>3. ASSUME NEW g \in A
        PROVE  g \in G
    <3>1. PICK j \in 1..n : net(j) = g /\ turn[j] = 1
      BY <1>6
    <3>2. j \in D
      <4>1. ~(i < j) /\ i # j
        <5>1. i < j => turn[i] < turn[j] \/ turn[i] = turn[j]
          <6> HIDE DEF turn
          <6>1. QED
            BY <1>2, <1>3, <2>2
        <5> HIDE DEF turn
        <5>2. QED
          BY <2>1, <2>2, <3>1, <5>1
      <4>2. QED
        BY <2>2, <4>1
    <3>3. QED
      BY <1>0, <3>1, <3>2 DEF Networks
  <2>4. G = A
    BY <1>11, <2>3
  <2> HIDE DEF f, G, D, A
  <2>5. Cardinality(A) <= c
    BY <1>13, <2>4
  <2>6. Min({c, Cardinality(A)}) = Cardinality(A)
    BY <1>7, <1>10, <2>5, LesserOf
  <2>7. QED
    BY <1>9, <2>4, <2>6 DEF G, A, D, first
<1>16. QED
  BY <1>14, <1>15

-------------------------------------------------------------------------------
(* The invariant, and what follows from it *)

\* The probes of a location that may be taken.
Takable(l) == IF IsMagicSorting(l) THEN Closest(Found(l), l) ELSE Found(l)

\* The variables have their types, and the limits are within what the schema allows.
SelectionTypes ==
  /\ ready \subseteq Selectable /\ connected \subseteq Selectable
  /\ phase \in {"idle", "searching", "taking", "earlier", "recorded", "done"}
  /\ request.kind \in {"none", "again", "world", "places", "each"}
  /\ request.places \in Seq(Places)
  /\ request.kind \in {"world", "places"} => request.limit \in 1..MaxTests
  /\ request.kind = "world" => ToSet(request.places) \subseteq Continents
  /\ request.kind = "each" => \A l \in ToSet(request.places) : request.limits[l] \in 1..MaxTests
  /\ search \in Seq(Places)
  /\ left \in [Places -> Seq(Selectable)]
  /\ weighed \subseteq Places
  /\ round \in [visit : SUBSET Places, selected : Nat, weight : Nat] /\ round.visit \subseteq weighed
  /\ picked \subseteq Selectable

\* While locations are looked up, the lists are those of the locations that have been.
SearchInv == phase \in {"idle", "searching"} =>
  /\ picked = {} /\ round.visit = {} /\ weighed = ToSet(request.places)
  /\ phase = "idle" => request.places = <<>>
  /\ phase = "searching" => request.kind \in {"world", "places", "each"}
  /\ ToSet(search) \subseteq ToSet(request.places)
  /\ \A l \in Places : left[l] = <<>> \/ (l \in ToSet(request.places) /\ left[l] \in FilterByLocation(l))
  /\ \A l \in ToSet(request.places) : l \in ToSet(search) \/ left[l] \in FilterByLocation(l)

\* While probes are taken, those of a location are taken or left.
CoverInv == phase = "taking" =>
  /\ request.kind \in {"world", "places"}
  /\ Grouped \subseteq weighed /\ weighed \subseteq ToSet(request.places)
  /\ round.visit \subseteq Grouped
  /\ \A l \in ToSet(request.places) :
       Takable(l) \subseteq picked \cup ToSet(left[l]) /\ ToSet(left[l]) \subseteq Found(l)
  /\ picked \subseteq UNION {Found(l) : l \in ToSet(request.places)}

\* What each location may have in this round.
ShareOfEach == (request.limit - round.selected) \div round.weight

\* What this round may still take is within the limit.
PaceInv == phase = "taking" =>
  /\ round.visit # {} => round.weight # 0 /\ round.selected <= request.limit
  /\ request.kind = "places" =>
       /\ Cardinality(picked) <= request.limit
       /\ round.visit # {} /\ ShareOfEach >= 1 =>
            Cardinality(picked) + Cardinality(round.visit) * ShareOfEach <= request.limit

\* If the limit allows it, each location has been visited or will be.
VisitInv ==
  phase = "taking" /\ request.kind = "places" /\ request.limit >= Len(request.places) =>
    \A l \in ToSet(request.places) : Found(l) # {} =>
      \/ Found(l) \cap picked # {}
      \/ picked = {} /\ round.visit = {}
      \/ l \in round.visit /\ ShareOfEach >= 1

\* The request is for one location without a magic string.
OneLocation == Len(request.places) = 1 /\ ~IsMagicSorting(request.places[1])

\* The probes of a single location are the first ones of a shuffle.
PrefixInv ==
  phase = "taking" /\ OneLocation =>
    \E s \in DiversifiedShuffles(Found(request.places[1])) :
      \E c \in 0..Len(s) :
        /\ picked = FirstProbes(s, c)
        /\ left[request.places[1]] = OtherProbes(s, c)

\* A request for some locations has what it asks for or all there is, and something of each location.
RequestMet == request.kind = "places" =>
  /\ Cardinality(picked) =
       Min({request.limit, Cardinality(UNION {Found(l) : l \in ToSet(request.places)})})
  /\ request.limit >= Len(request.places) =>
       \A l \in ToSet(request.places) : Found(l) # {} => Found(l) \cap picked # {}

\* What one location gives comes from as many networks as there can be.
RequestSpread == request.kind \in {"places", "each"} /\ OneLocation =>
  Cardinality(Networks(picked)) = Min({Cardinality(picked), Cardinality(Networks(Found(request.places[1])))})

\* What has been picked is right when the selection ends.
AnswerInv == phase \in {"earlier", "recorded", "done"} => RequestMet /\ RequestSpread

\* The invariant of a selection.
SelectionInv ==
  /\ SelectionTypes /\ SearchInv /\ CoverInv /\ PaceInv /\ VisitInv /\ PrefixInv /\ AnswerInv

\* What a location finds is some of the probes, and finite.
LEMMA FoundTyped ==
  ASSUME SelectionTypes, NEW l \in Places
  PROVE  /\ Found(l) \subseteq Selectable
         /\ IsFiniteSet(Found(l)) /\ Cardinality(Found(l)) \in Nat
<1>1. Len(Magic[l]) \in Nat
  BY SelectionAssumption
<1>2. Found(l) \subseteq connected
  <2>1. CASE Magic[l] = World
    BY <2>1 DEF Found, OfTheWorld
  <2>2. CASE Magic[l] # World
    BY <1>1, <2>2, MagicFilterLess DEF Found
  <2>3. QED
    BY <2>1, <2>2
<1>3. Found(l) \subseteq Selectable
  BY <1>2 DEF SelectionTypes
<1>4. QED
  BY <1>3, SelectionAssumption, FS_Subset, FS_CardinalityType

\* The position of what is found closest is a number.
LEMMA ClosenessTyped ==
  ASSUME NEW p, NEW l \in Places, Magic[l] # <<>>
  PROVE  Closeness(p, l) \in Nat
<1>1. NoPosition \in Nat
  BY SelectionAssumption, FS_CardinalityType DEF NoPosition, Categories
<1>2. Categories \subseteq Nat
  BY SelectionAssumption DEF Categories
<1>3. ASSUME NEW w
      PROVE  IndexPosition(p, w) \in Nat
  <2> DEFINE K == {c \in Categories : IndexOf[p][c] \cap Containing[w] # {}} \cup {NoPosition}
  <2>1. K \in SUBSET Nat /\ K # {}
    BY <1>1, <1>2
  <2> HIDE DEF K
  <2>2. Min(K) \in Nat
    BY <2>1, LowestIsThere
  <2>3. QED
    BY <2>2 DEF K, IndexPosition
<1> DEFINE K == {IndexPosition(p, w) : w \in ToSet(Magic[l])}
<1>4. K \in SUBSET Nat /\ K # {}
  <2>1. Magic[l] \in Seq(DOMAIN Containing)
    BY SelectionAssumption
  <2>2. ToSet(Magic[l]) # {}
    <3>1. Magic[l][1] \in ToSet(Magic[l])
      BY <2>1 DEF ToSet
    <3>2. QED
      BY <3>1
  <2>3. QED
    BY <1>3, <2>2
<1> HIDE DEF K
<1>5. Min(K) \in Nat
  BY <1>4, LowestIsThere
<1>6. QED
  BY <1>1, <1>5 DEF K, Closeness

\* If some probes of a location are not among the closest, as many as a request may have are.
LEMMA KeptAre ==
  ASSUME SelectionTypes, NEW l \in Places
  PROVE  /\ Takable(l) \subseteq Found(l)
         /\ Takable(l) = Found(l) \/ Cardinality(Takable(l)) >= MaxTests
         /\ Found(l) # {} => Takable(l) # {}
<1> DEFINE S == Found(l)
           closer(p) == {q \in S : Closeness(q, l) < Closeness(p, l)}
<1>1. IsFiniteSet(S) /\ MaxTests \in Nat \ {0}
  BY FoundTyped, SelectionAssumption
<1>2. CASE ~IsMagicSorting(l)
  BY <1>2 DEF Takable
<1>3. CASE IsMagicSorting(l)
  <2>1. Takable(l) = {p \in S : Cardinality(closer(p)) < MaxTests}
    BY <1>3 DEF Takable, Closest
  <2>2. Takable(l) \subseteq S /\ IsFiniteSet(Takable(l)) /\ Cardinality(Takable(l)) \in Nat
    <3>1. Takable(l) \subseteq S
      BY <2>1
    <3> HIDE DEF S
    <3>2. QED
      BY <1>1, <3>1, FS_Subset, FS_CardinalityType
  <2>3. ASSUME Takable(l) # S
        PROVE  Cardinality(Takable(l)) >= MaxTests
    <3> DEFINE K == {Closeness(p, l) : p \in S \ Takable(l)}
    <3>1. K \subseteq Nat /\ K # {}
      <4>1. Magic[l] # <<>>
        BY <1>3 DEF IsMagicSorting
      <4>2. \A p \in S : Closeness(p, l) \in Nat
        BY <4>1, ClosenessTyped
      <4>3. QED
        BY <2>2, <2>3, <4>2
    <3>2. PICK m \in K : \A k \in K : m <= k
      <4> HIDE DEF K
      <4>1. QED
        BY <3>1, LeastExists
    <3>3. PICK p \in S \ Takable(l) : Closeness(p, l) = m
      BY <3>2
    <3>4. ASSUME NEW q \in closer(p), q \notin Takable(l)
          PROVE  FALSE
      <4>1. q \in S /\ Closeness(q, l) < m
        BY <3>3, <3>4
      <4>2. Closeness(q, l) \in K
        BY <3>4, <4>1
      <4>3. m <= Closeness(q, l) /\ m \in Nat /\ Closeness(q, l) \in Nat
        BY <3>1, <3>2, <4>2
      <4>4. QED
        BY <4>1, <4>3
    <3>5. closer(p) \in SUBSET Takable(l)
      BY <3>4
    <3>6. ~(Cardinality(closer(p)) < MaxTests)
      BY <2>1, <3>3
    <3> HIDE DEF closer
    <3>7. Cardinality(closer(p)) <= Cardinality(Takable(l)) /\ Cardinality(closer(p)) \in Nat
      BY <2>2, <3>5, FS_Subset, FS_CardinalityType
    <3>8. QED
      BY <1>1, <2>2, <3>6, <3>7
  <2>4. Cardinality(Takable(l)) >= MaxTests => Takable(l) # {}
    BY <1>1, FS_EmptySet
  <2>5. QED
    BY <2>2, <2>3, <2>4
<1>4. QED
  BY <1>2, <1>3

\* Whatever the shuffle, the list of a location has the probes that may be taken.
LEMMA ListsAre ==
  ASSUME SelectionTypes, NEW l \in Places, NEW s \in FilterByLocation(l)
  PROVE  /\ s \in Seq(Selectable) /\ ToSet(s) = Takable(l)
         /\ ~IsMagicSorting(l) => s \in DiversifiedShuffles(Found(l))
<1>1. s \in Orders(Takable(l))
  BY DEF FilterByLocation, MagicSorts, DiversifiedShuffles, Takable
<1>2. IsFiniteSet(Takable(l)) /\ Takable(l) \subseteq Selectable
  BY FoundTyped, KeptAre, FS_Subset
<1>3. /\ s \in Seq(Takable(l)) /\ ToSet(s) = Takable(l)
  BY <1>1, <1>2, OrdersAre
<1>4. s \in Seq(Selectable)
  BY <1>2, <1>3
<1>5. QED
  BY <1>3, <1>4 DEF FilterByLocation

\* What a location gives depends on the probes that are ready and connected.
LEMMA SelectionFrame ==
  ASSUME UNCHANGED <<ready, connected>>
  PROVE  \A l : /\ Found(l)' = Found(l)
                /\ Takable(l)' = Takable(l)
                /\ FilterByLocation(l)' = FilterByLocation(l)
<1>1. \A l : Found(l)' = Found(l)
  BY DEF Found, AllListed, OfTheWorld
<1>2. QED
  BY <1>1 DEF Takable, FilterByLocation

\* All that was found is finite, and no more than that is picked.
LEMMA PickedTyped ==
  ASSUME SelectionTypes
  PROVE  IsFiniteSet(picked) /\ Cardinality(picked) \in Nat
BY SelectionAssumption, FS_Subset, FS_CardinalityType DEF SelectionTypes

\* When nothing is left or the limit is reached, the limit is met.
LEMMA LimitMetAtEnd ==
  ASSUME SelectionInv, phase = "taking", round.visit = {},
         Grouped = {} \/ Cardinality(picked) >= request.limit
  PROVE  RequestMet
<1> SUFFICES ASSUME request.kind = "places"
             PROVE  RequestMet
  BY DEF RequestMet
<1> DEFINE L == ToSet(request.places)
           F == UNION {Found(l) : l \in L}
<1>1. SelectionTypes /\ L \subseteq Places /\ request.limit \in 1..MaxTests /\ MaxTests \in Nat
  BY SelectionAssumption DEF SelectionInv, SelectionTypes, ToSet
<1>2. IsFiniteSet(F) /\ Cardinality(F) \in Nat
  <2>1. F \subseteq Selectable
    BY <1>1, FoundTyped
  <2> HIDE DEF F
  <2>2. QED
    BY <2>1, SelectionAssumption, FS_Subset, FS_CardinalityType
<1>3. picked \subseteq F /\ Cardinality(picked) \in Nat /\ Cardinality(picked) <= request.limit
  BY <1>1, PickedTyped DEF SelectionInv, CoverInv, PaceInv
<1>4. Cardinality(picked) <= Cardinality(F)
  <2> HIDE DEF F
  <2>1. QED
    BY <1>2, <1>3, FS_Subset
<1>5. Cardinality(picked) = Min({request.limit, Cardinality(F)})
  <2>1. Min({request.limit, Cardinality(F)}) =
          IF request.limit <= Cardinality(F) THEN request.limit ELSE Cardinality(F)
    <3> HIDE DEF F
    <3>1. request.limit \in Nat
      BY <1>1
    <3>2. QED
      BY <1>2, <3>1, LesserOf
  <2>2. CASE Cardinality(picked) >= request.limit
    <3> HIDE DEF F
    <3>1. QED
      BY <1>1, <1>2, <1>3, <1>4, <2>1, <2>2
  <2>3. CASE Grouped = {}
    <3>1. ASSUME NEW l \in L
          PROVE  Takable(l) \subseteq picked
      <4>1. left[l] = <<>>
        BY <1>1, <2>3 DEF Grouped
      <4>2. ToSet(left[l]) = {}
        BY <4>1 DEF ToSet
      <4>3. QED
        BY <4>2 DEF SelectionInv, CoverInv
    <3>2. CASE \A l \in L : Takable(l) = Found(l)
      <4>1. picked = F
        BY <1>3, <3>1, <3>2
      <4> HIDE DEF F
      <4>2. QED
        BY <1>1, <1>2, <1>3, <2>1, <4>1
    <3>3. CASE \E l \in L : Takable(l) # Found(l)
      <4>1. PICK l \in L : Takable(l) # Found(l)
        BY <3>3
      <4>2. Cardinality(Takable(l)) >= MaxTests
        BY <1>1, <4>1, KeptAre
      <4>3. IsFiniteSet(picked) /\ Takable(l) \in SUBSET picked
        BY <1>1, <3>1, PickedTyped
      <4>4. Cardinality(Takable(l)) <= Cardinality(picked) /\ Cardinality(Takable(l)) \in Nat
        BY <4>3, FS_Subset, FS_CardinalityType
      <4>5. Cardinality(picked) >= request.limit
        BY <1>1, <1>3, <4>2, <4>4
      <4>6. QED
        BY <2>2, <4>5
    <3>4. QED
      BY <3>2, <3>3
  <2>4. QED
    BY <2>2, <2>3
<1>6. ASSUME request.limit >= Len(request.places), NEW l \in L, Found(l) # {}
      PROVE  Found(l) \cap picked # {}
  <2>1. Takable(l) # {}
    BY <1>1, <1>6, KeptAre
  <2>2. ~(picked = {})
    <3> SUFFICES ASSUME picked = {}
                 PROVE  FALSE
      OBVIOUS
    <3>1. ToSet(left[l]) # {}
      BY <2>1 DEF SelectionInv, CoverInv
    <3>2. left[l] # <<>>
      BY <3>1 DEF ToSet
    <3>3. Grouped # {}
      BY <1>1, <3>2 DEF Grouped
    <3>4. Cardinality(picked) = 0
      BY FS_EmptySet
    <3>5. QED
      BY <1>1, <3>3, <3>4
  <2>3. QED
    BY <1>6, <2>2 DEF SelectionInv, VisitInv
<1>7. QED
  BY <1>5, <1>6 DEF RequestMet

\* The first ones of a shuffle are spread.
LEMMA PrefixIsSpread ==
  ASSUME SelectionTypes, OneLocation, NEW s \in DiversifiedShuffles(Found(request.places[1])),
         NEW c \in 0..Len(s),
         picked = FirstProbes(s, c)
  PROVE  RequestSpread
<1> DEFINE S == Found(request.places[1])
<1>1. request.places[1] \in Places
  BY DEF SelectionTypes, OneLocation
<1>2. IsFiniteSet(S)
  BY <1>1, FoundTyped
<1> HIDE DEF S
<1>3. s \in DiversifiedShuffles(S)
  BY DEF S
<1>4. Cardinality(picked) = c /\ Cardinality(Networks(picked)) = Min({c, Cardinality(Networks(S))})
  BY <1>2, <1>3, PrefixSpread
<1>5. QED
  BY <1>4 DEF RequestSpread, S

-------------------------------------------------------------------------------
(* The steps *)

\* The orders of some locations are sequences of them.
LEMMA OrdersTyped ==
  ASSUME NEW S, S \subseteq Places, NEW s \in Orders(S)
  PROVE  s \in Seq(Places) /\ ToSet(s) \subseteq S
<1>1. IsFiniteSet(S)
  BY SelectionAssumption, FS_Subset
<1>2. s \in Seq(S) /\ ToSet(s) = S
  BY <1>1, OrdersAre
<1>3. QED
  BY <1>2

\* The lists of locations that requests have are sequences of locations.
LEMMA ListsTyped ==
  ASSUME NEW s \in Lists
  PROVE  s \in Seq(Places)
<1>1. PICK S \in UNION {kSubset(k, Places) : k \in 1..MaxPlaces} : s \in Orders(S)
  BY DEF Lists
<1>2. S \subseteq Places
  BY <1>1 DEF kSubset
<1>3. QED
  BY <1>1, <1>2, OrdersTyped

\* A request comes: its locations are still to be looked up.
LEMMA AskStep ==
  ASSUME SelectionInv, NEW kind \in {"again", "world", "places", "each"}, NEW places \in Seq(Places),
         NEW limit, kind \in {"world", "places"} => limit \in 1..MaxTests,
         kind = "world" => ToSet(places) \subseteq Continents,
         NEW limits, kind = "each" => \A l \in ToSet(places) : limits[l] \in 1..MaxTests,
         NEW version, Ask(kind, places, limit, limits, version),
         kind = "again" => places = <<>>
  PROVE  SelectionInv'
<1>1. /\ phase = "idle" /\ request'.kind = kind /\ request'.places = places /\ request'.limit = limit
      /\ request'.limits = limits
      /\ connected' \subseteq ready
      /\ search' = places /\ weighed' = ToSet(places)
      /\ phase' = IF kind = "again" THEN "earlier" ELSE "searching"
      /\ ready' = ready /\ left' = left /\ round' = round /\ picked' = picked
  BY DEF Ask, FilterByIpVersion
<1>2. SelectionTypes /\ SearchInv
  BY DEF SelectionInv
<1>3. ToSet(places) \subseteq Places
  BY DEF ToSet
<1>4. request.places = <<>> /\ picked = {} /\ round.visit = {}
  BY <1>1, <1>2 DEF SearchInv
<1>5. \A l \in Places : left[l] = <<>>
  <2>1. ToSet(request.places) = {}
    BY <1>4 DEF ToSet
  <2>2. QED
    BY <1>1, <1>2, <2>1 DEF SearchInv
<1>6. SelectionTypes'
  BY <1>1, <1>2, <1>3, <1>4 DEF SelectionTypes
<1>7. SearchInv'
  BY <1>1, <1>3, <1>4, <1>5 DEF SearchInv
<1>8. (CoverInv /\ PaceInv /\ VisitInv /\ PrefixInv)'
  BY <1>1 DEF CoverInv, PaceInv, VisitInv, PrefixInv
<1>9. AnswerInv'
  <2> SUFFICES ASSUME kind = "again"
               PROVE  AnswerInv'
    BY <1>1 DEF AnswerInv
  <2>1. QED
    BY <1>1 DEF AnswerInv, RequestMet, RequestSpread
<1>10. QED
  BY <1>6, <1>7, <1>8, <1>9 DEF SelectionInv

\* The probes of one location are looked up.
LEMMA SearchStep ==
  ASSUME SelectionInv, Search
  PROVE  SelectionInv'
<1>1. SelectionTypes /\ SearchInv
  BY DEF SelectionInv
<1>2. PICK s \in FilterByLocation(Head(search)) :
        /\ left' = [left EXCEPT ![Head(search)] = s]
        /\ phase = "searching" /\ search # <<>> /\ search' = Tail(search)
        /\ UNCHANGED <<ready, request, connected, phase, weighed, round, picked>>
  BY DEF Search
<1> DEFINE l == Head(search)
<1>3. /\ l \in ToSet(search) /\ Tail(search) \in Seq(Places)
      /\ ToSet(Tail(search)) \subseteq ToSet(search) /\ ToSet(search) \subseteq ToSet(Tail(search)) \cup {l}
  <2>1. search \in Seq(Places) /\ search # <<>>
    BY <1>1, <1>2 DEF SelectionTypes
  <2>2. /\ Tail(search) \in Seq(Places) /\ Len(Tail(search)) = Len(search) - 1
        /\ \A i \in 1..Len(Tail(search)) : Tail(search)[i] = search[i + 1]
    BY <2>1, HeadTailProperties
  <2>3. l = search[1] /\ 1 \in 1..Len(search) /\ DOMAIN search = 1..Len(search) /\ Len(search) \in Nat
    BY <2>1
  <2>4. DOMAIN Tail(search) = 1..Len(search) - 1
    BY <2>1, <2>2
  <2> HIDE DEF l
  <2>5. ToSet(Tail(search)) \subseteq ToSet(search)
    BY <2>2, <2>3, <2>4 DEF ToSet
  <2>6. ToSet(search) \subseteq ToSet(Tail(search)) \cup {l}
    <3>1. ASSUME NEW i \in 1..Len(search), i # 1
          PROVE  \E j \in DOMAIN Tail(search) : Tail(search)[j] = search[i]
      <4>1. i - 1 \in 1..Len(search) - 1 /\ (i - 1) + 1 = i
        BY <2>3, <3>1
      <4>2. QED
        BY <2>2, <2>3, <2>4, <4>1
    <3>2. QED
      BY <2>3, <3>1 DEF ToSet
  <2>7. QED
    BY <2>2, <2>3, <2>5, <2>6 DEF ToSet
<1>4. l \in Places /\ l \in ToSet(request.places)
  BY <1>1, <1>2, <1>3 DEF SelectionTypes, SearchInv, ToSet
<1> HIDE DEF l
<1>5. s \in FilterByLocation(l) /\ s \in Seq(Selectable)
  BY <1>1, <1>2, <1>4, ListsAre DEF l
<1>6. \A m : FilterByLocation(m)' = FilterByLocation(m)
  BY <1>2, SelectionFrame
<1>7. left' = [left EXCEPT ![l] = s]
  BY <1>2 DEF l
<1>8. SelectionTypes'
  BY <1>1, <1>2, <1>3, <1>4, <1>5, <1>7 DEF SelectionTypes
<1>9. SearchInv'
  <2>1. \A m \in Places : left'[m] = IF m = l THEN s ELSE left[m]
    BY <1>1, <1>7 DEF SelectionTypes
  <2>2. \A m \in Places : left'[m] = <<>> \/ (m \in ToSet(request.places) /\ left'[m] \in FilterByLocation(m))
    BY <1>1, <1>2, <1>4, <1>5, <2>1 DEF SearchInv
  <2>3. \A m \in ToSet(request.places) : m \in ToSet(search') \/ left'[m] \in FilterByLocation(m)
    <3>1. \A m \in ToSet(request.places) : m \in Places
      BY <1>1 DEF SelectionTypes, ToSet
    <3>2. QED
      BY <1>1, <1>2, <1>3, <1>5, <2>1, <3>1 DEF SearchInv
  <2>4. QED
    BY <1>1, <1>2, <1>3, <1>6, <2>2, <2>3 DEF SearchInv
<1>10. (CoverInv /\ PaceInv /\ VisitInv /\ PrefixInv /\ AnswerInv)'
  BY <1>2 DEF CoverInv, PaceInv, VisitInv, PrefixInv, AnswerInv
<1>11. QED
  BY <1>8, <1>9, <1>10 DEF SelectionInv

\* The end of a selection is a list, or the question of an earlier measurement.
LEMMA EndPhase ==
  ASSUME NEW found, End(found)
  PROVE  phase' \in {"earlier", "done"}
BY DEF End

\* Every location gives as many of its probes as its own limit says.
LEMMA TakeEachStep ==
  ASSUME SelectionInv, TakeEach
  PROVE  SelectionInv'
<1>1. SelectionTypes /\ SearchInv
  BY DEF SelectionInv
<1> DEFINE taken(l) == FirstProbes(left[l], request.limits[l])
<1>2. /\ phase = "searching" /\ search = <<>> /\ request.kind = "each"
      /\ picked' = UNION {taken(l) : l \in ToSet(request.places)}
      /\ UNCHANGED <<ready, request, connected, search, left, weighed, round>>
      /\ phase' \in {"earlier", "done"}
  BY EndPhase DEF TakeEach
<1>3. ASSUME NEW l \in ToSet(request.places)
      PROVE  taken(l) \subseteq Selectable
  <2>1. l \in Places
    BY <1>1 DEF SelectionTypes, ToSet
  <2>2. left[l] \in Seq(Selectable)
    BY <1>1, <2>1 DEF SelectionTypes
  <2>3. QED
    BY <2>2 DEF FirstProbes
<1>4. SelectionTypes'
  <2>1. picked' \subseteq Selectable
    <3> HIDE DEF taken
    <3>1. QED
      BY <1>2, <1>3
  <2>2. QED
    BY <1>1, <1>2, <2>1 DEF SelectionTypes
<1>5. (SearchInv /\ CoverInv /\ PaceInv /\ VisitInv /\ PrefixInv)'
  BY <1>2 DEF SearchInv, CoverInv, PaceInv, VisitInv, PrefixInv
<1>6. RequestMet'
  BY <1>2 DEF RequestMet
<1>7. RequestSpread'
  <2> SUFFICES ASSUME OneLocation
               PROVE  RequestSpread'
    BY <1>2 DEF RequestSpread, OneLocation
  <2> DEFINE l == request.places[1]
             s == left[l]
             n == request.limits[l]
             c == IF n <= Len(s) THEN n ELSE Len(s)
  <2>1. l \in Places /\ ToSet(request.places) = {l} /\ ~IsMagicSorting(l)
    <3>1. request.places \in Seq(Places) /\ Len(request.places) = 1
      BY <1>1 DEF SelectionTypes, OneLocation
    <3>2. DOMAIN request.places = {1}
      BY <3>1
    <3>3. QED
      BY <3>1, <3>2 DEF ToSet, OneLocation
  <2>2. s \in FilterByLocation(l)
    <3>1. ToSet(search) = {}
      BY <1>2 DEF ToSet
    <3>2. QED
      BY <1>1, <1>2, <2>1, <3>1 DEF SearchInv
  <2>3. s \in DiversifiedShuffles(Found(l)) /\ s \in Seq(Selectable)
    <3> HIDE DEF s, l
    <3>1. QED
      BY <1>1, <2>1, <2>2, ListsAre
  <2>4. n \in Nat /\ Len(s) \in Nat /\ DOMAIN s = 1..Len(s)
    <3>1. n \in 1..MaxTests
      BY <1>1, <1>2, <2>1 DEF SelectionTypes
    <3>2. QED
      BY <2>3, <3>1, SelectionAssumption
  <2>5. c \in 0..Len(s) /\ DOMAIN s \cap 1..n = 1..c
    <3> HIDE DEF s, n
    <3>1. QED
      BY <2>4
  <2>6. picked' = FirstProbes(s, c)
    <3>1. picked' = taken(l)
      <4> HIDE DEF taken, l
      <4>1. QED
        BY <1>2, <2>1
    <3>2. taken(l) = FirstProbes(s, n)
      OBVIOUS
    <3>3. DOMAIN s \cap 1..n = DOMAIN s \cap 1..c
      BY <2>4, <2>5
    <3> HIDE DEF s, c, n, taken, l
    <3>4. QED
      BY <3>1, <3>2, <3>3 DEF FirstProbes
  <2>7. IsFiniteSet(Found(l))
    BY <1>1, <2>1, FoundTyped
  <2>8. /\ Cardinality(FirstProbes(s, c)) = c
        /\ Cardinality(Networks(FirstProbes(s, c))) = Min({c, Cardinality(Networks(Found(l)))})
    <3> HIDE DEF s, c, l
    <3>1. QED
      BY <2>3, <2>5, <2>7, PrefixSpread
  <2>9. Found(l)' = Found(l) /\ request' = request
    <3> HIDE DEF l
    <3>1. (Found(request.places[1]))' = Found(request.places[1])
      BY <1>2, SelectionFrame DEF Found, AllListed, OfTheWorld
    <3>2. QED
      BY <1>2, <3>1 DEF l
  <2> HIDE DEF c, s
  <2>10. QED
    BY <2>6, <2>8, <2>9 DEF RequestSpread, Networks
<1>8. QED
  BY <1>4, <1>5, <1>6, <1>7 DEF SelectionInv, AnswerInv

\* The lists that are not empty are those the rounds take from.
LEMMA StartTakingStep ==
  ASSUME SelectionInv, StartTaking
  PROVE  SelectionInv'
<1>1. SelectionTypes /\ SearchInv
  BY DEF SelectionInv
<1>2. /\ phase = "searching" /\ search = <<>> /\ request.kind # "each" /\ phase' = "taking"
      /\ UNCHANGED <<ready, request, connected, search, left, weighed, round, picked>>
  BY DEF StartTaking
<1>3. SelectionTypes'
  BY <1>1, <1>2 DEF SelectionTypes
<1>4. \A l \in ToSet(request.places) : l \in Places /\ left[l] \in FilterByLocation(l)
  <2>1. ToSet(search) = {}
    BY <1>2 DEF ToSet
  <2>2. QED
    BY <1>1, <1>2, <2>1 DEF SearchInv, SelectionTypes, ToSet
<1>5. \A l : Found(l)' = Found(l) /\ Takable(l)' = Takable(l)
  BY <1>2, SelectionFrame
<1>6. picked = {} /\ round.visit = {} /\ weighed = ToSet(request.places)
  BY <1>1, <1>2 DEF SearchInv
<1>7. CoverInv'
  <2>1. \A l \in ToSet(request.places) : ToSet(left[l]) = Takable(l) /\ Takable(l) \subseteq Found(l)
    BY <1>1, <1>4, ListsAre, KeptAre
  <2>2. Grouped' \subseteq weighed
    <3>1. \A l \in Places : left[l] # <<>> => l \in ToSet(request.places)
      BY <1>1, <1>2 DEF SearchInv
    <3>2. QED
      BY <1>2, <1>6, <3>1 DEF Grouped
  <2>3. request.kind \in {"world", "places"}
    BY <1>1, <1>2 DEF SearchInv
  <2>4. QED
    BY <1>2, <1>5, <1>6, <2>1, <2>2, <2>3 DEF CoverInv
<1>8. PaceInv'
  <2>1. Cardinality(picked) = 0
    BY <1>6, FS_EmptySet
  <2>2. request.kind = "places" => request.limit \in Nat
    BY <1>1, SelectionAssumption DEF SelectionTypes
  <2>3. QED
    BY <1>2, <1>6, <2>1, <2>2 DEF PaceInv
<1>9. VisitInv'
  BY <1>2, <1>6 DEF VisitInv
<1>10. PrefixInv'
  <2> SUFFICES ASSUME OneLocation
               PROVE  PrefixInv'
    BY <1>2 DEF PrefixInv, OneLocation
  <2> DEFINE l == request.places[1]
  <2>1. l \in ToSet(request.places) /\ ~IsMagicSorting(l)
    BY <1>1 DEF SelectionTypes, OneLocation, ToSet
  <2>2. left[l] \in DiversifiedShuffles(Found(l)) /\ left[l] \in Seq(Selectable)
    <3> HIDE DEF l
    <3>1. QED
      BY <1>1, <1>4, <2>1, ListsAre
  <2>3. Found(l)' = Found(l)
    <3> HIDE DEF l
    <3>1. (Found(request.places[1]))' = Found(request.places[1])
      BY <1>2 DEF Found, AllListed, OfTheWorld
    <3>2. QED
      BY <1>2, <3>1 DEF l
  <2>4. picked = FirstProbes(left[l], 0) /\ left[l] = OtherProbes(left[l], 0) /\ 0 \in 0..Len(left[l])
    <3> HIDE DEF l
    <3>1. Len(left[l]) \in Nat /\ SubSeq(left[l], 1, Len(left[l])) = left[l]
      BY <2>2, SubSeqFull
    <3>2. FirstProbes(left[l], 0) = {}
      BY DEF FirstProbes
    <3>3. QED
      BY <1>6, <3>1, <3>2 DEF OtherProbes
  <2>5. QED
    <3> DEFINE D == DiversifiedShuffles(Found(l))
    <3>1. (DiversifiedShuffles(Found(request.places[1])))' = D
      BY <2>3
    <3>2. \E s \in D : \E c \in 0..Len(s) : picked = FirstProbes(s, c) /\ left[l] = OtherProbes(s, c)
      <4> HIDE DEF l, D
      <4>1. left[l] \in D
        BY <2>2 DEF D
      <4>2. QED
        BY <2>4, <4>1
    <3> HIDE DEF D
    <3>3. QED
      BY <1>2, <3>1, <3>2 DEF PrefixInv
<1>11. (SearchInv /\ AnswerInv)'
  BY <1>2 DEF SearchInv, AnswerInv
<1>12. QED
  BY <1>3, <1>7, <1>8, <1>9, <1>10, <1>11 DEF SelectionInv

\* The weight of a round is no more than that of the locations of the request.
LEMMA PlacesCount ==
  ASSUME NEW s \in Seq(Places), NEW W \in SUBSET ToSet(s)
  PROVE  IsFiniteSet(W) /\ Cardinality(W) \in Nat /\ Cardinality(W) <= Len(s)
<1>1. Len(s) \in Nat /\ DOMAIN s = 1..Len(s)
  OBVIOUS
<1>2. ToSet(s) = FirstProbes(s, Len(s))
  BY <1>1 DEF ToSet, FirstProbes
<1>3. IsFiniteSet(ToSet(s)) /\ Cardinality(ToSet(s)) <= Len(s) /\ Cardinality(ToSet(s)) \in Nat
  BY <1>1, <1>2, FirstFew
<1>4. QED
  BY <1>1, <1>3, FS_Subset, FS_CardinalityType

\* A whole quotient is no more than the quotient.
LEMMA Quotients ==
  ASSUME NEW n \in Nat, NEW w \in Nat, w # 0
  PROVE  /\ n \div w \in Nat
         /\ (n \div w) * w <= n
         /\ w <= n => n \div w >= 1
OBVIOUS

\* A product grows with its factor.
LEMMA ProductsGrow ==
  ASSUME NEW a \in Nat, NEW b \in Nat, NEW q \in Nat, a <= b
  PROVE  a * q \in Nat /\ a * q <= b * q
OBVIOUS

\* A round starts: what it may take is within what is missing.
LEMMA StartRoundStep ==
  ASSUME SelectionInv, StartRound
  PROVE  SelectionInv'
<1> DEFINE limit == request.limit
           w == RemainingWeight(request.kind, weighed)
           n == Cardinality(picked)
           q == (limit - n) \div w
<1>1. SelectionTypes /\ CoverInv /\ PaceInv /\ VisitInv /\ PrefixInv
  BY DEF SelectionInv
<1>2. /\ phase = "taking" /\ round.visit = {} /\ Grouped # {} /\ n < limit
      /\ round' = [visit |-> Grouped, selected |-> n, weight |-> w]
      /\ UNCHANGED <<ready, request, connected, phase, search, left, weighed, picked>>
  BY DEF StartRound
<1>3. request.kind \in {"world", "places"} /\ Grouped \subseteq weighed /\ weighed \subseteq ToSet(request.places)
  BY <1>1, <1>2 DEF CoverInv
<1>4. /\ IsFiniteSet(weighed) /\ Cardinality(weighed) \in Nat /\ Cardinality(weighed) <= Len(request.places)
      /\ limit \in Nat /\ n \in Nat /\ Len(request.places) \in Nat
  <2>1. request.places \in Seq(Places) /\ limit \in Nat /\ weighed \in SUBSET ToSet(request.places)
    BY <1>1, <1>3, SelectionAssumption DEF SelectionTypes
  <2> HIDE DEF limit, n
  <2>2. QED
    BY <1>1, <2>1, PlacesCount, PickedTyped DEF n
<1>5. w \in Nat \ {0} /\ (request.kind = "places" => w = Cardinality(weighed))
  <2>1. \A l \in weighed : Weight(request.kind, l) \in Nat \ {0}
    <3>1. ASSUME NEW l \in weighed, request.kind = "world"
          PROVE  WeightOf[l] \in Nat \ {0}
      <4>1. l \in Continents
        BY <1>1, <1>3, <3>1 DEF SelectionTypes
      <4>2. QED
        BY <4>1, SelectionAssumption
    <3>2. QED
      BY <3>1 DEF Weight
  <2>2. weighed # {}
    BY <1>2, <1>3
  <2>3. QED
    BY <1>4, <2>1, <2>2, RemainingWeights
<1>6. limit - n \in Nat
  <2> HIDE DEF limit, n
  <2>1. QED
    BY <1>2, <1>4
<1>7. ShareOfEach' = q
  BY <1>2 DEF ShareOfEach
<1>8. q \in Nat /\ q * w <= limit - n /\ (w <= limit - n => q >= 1)
  <2> HIDE DEF limit, n, w
  <2>1. QED
    BY <1>5, <1>6, Quotients
<1>9. \A l : Found(l)' = Found(l) /\ Takable(l)' = Takable(l)
  BY <1>2, SelectionFrame
<1>10. Grouped' = Grouped
  BY <1>2 DEF Grouped
<1>11. SelectionTypes'
  <2>1. round' \in [visit : SUBSET Places, selected : Nat, weight : Nat] /\ round'.visit \subseteq weighed
    <3>1. Grouped \in SUBSET Places /\ Grouped \subseteq weighed
      BY <1>3 DEF Grouped
    <3> HIDE DEF n, w
    <3>2. QED
      BY <1>2, <1>4, <1>5, <3>1
  <2>2. QED
    BY <1>1, <1>2, <2>1 DEF SelectionTypes
<1>12. CoverInv'
  <2>1. round'.visit = Grouped
    BY <1>2
  <2>2. QED
    BY <1>1, <1>2, <1>9, <1>10, <2>1 DEF CoverInv
<1>13. PaceInv'
  <2>1. round'.weight = w /\ round'.selected = n /\ round'.visit = Grouped
    BY <1>2
  <2>2. request.kind = "places" => n + Cardinality(Grouped) * q <= limit
    <3> SUFFICES ASSUME request.kind = "places"
                 PROVE  n + Cardinality(Grouped) * q <= limit
      OBVIOUS
    <3>1. w = Cardinality(weighed)
      BY <1>5
    <3>2. Cardinality(Grouped) \in Nat /\ Cardinality(Grouped) <= w
      <4>1. Grouped \in SUBSET weighed
        BY <1>3
      <4> HIDE DEF w
      <4>2. QED
        BY <1>4, <3>1, <4>1, FS_Subset, FS_CardinalityType
    <3> HIDE DEF limit, n, w, q
    <3>3. w \in Nat
      BY <1>5
    <3>4. Cardinality(Grouped) * q \in Nat /\ Cardinality(Grouped) * q <= w * q
      BY <1>8, <3>2, <3>3, ProductsGrow
    <3>5. w * q = q * w /\ q * w \in Nat
      BY <1>8, <3>3
    <3>6. QED
      BY <1>4, <1>6, <1>8, <3>4, <3>5
  <2>3. n <= limit
    BY <1>2, <1>4
  <2> HIDE DEF q, w
  <2>4. QED
    BY <1>1, <1>2, <1>5, <1>7, <2>1, <2>2, <2>3 DEF PaceInv
<1>14. VisitInv'
  <2> SUFFICES ASSUME request.kind = "places", limit >= Len(request.places),
                      NEW l \in ToSet(request.places), Found(l) # {}, Found(l) \cap picked = {}
               PROVE  l \in round'.visit /\ ShareOfEach' >= 1
    BY <1>2, <1>9 DEF VisitInv
  <2>1. l \in Places
    BY <1>1 DEF SelectionTypes, ToSet
  <2>2. picked = {}
    BY <1>1, <1>2 DEF VisitInv
  <2>3. n = 0
    BY <2>2, FS_EmptySet
  <2>4. q >= 1
    <3>1. w <= limit - n
      <4> HIDE DEF limit, n, w
      <4>1. QED
        BY <1>4, <1>5, <2>3
    <3>2. QED
      BY <1>8, <3>1
  <2>5. l \in Grouped
    <3>1. Takable(l) # {}
      BY <1>1, <2>1, KeptAre
    <3>2. ToSet(left[l]) # {}
      BY <1>1, <1>2, <2>2, <3>1 DEF CoverInv
    <3>3. left[l] # <<>>
      BY <3>2 DEF ToSet
    <3>4. QED
      BY <2>1, <3>3 DEF Grouped
  <2>6. QED
    BY <1>2, <1>7, <2>4, <2>5
<1>15. PrefixInv'
  <2>1. (Found(request.places[1]))' = Found(request.places[1])
    BY <1>2 DEF Found, AllListed, OfTheWorld
  <2>2. QED
    BY <1>1, <1>2, <2>1 DEF PrefixInv, OneLocation
<1>16. (SearchInv /\ AnswerInv)'
  BY <1>2 DEF SearchInv, AnswerInv
<1>17. QED
  BY <1>11, <1>12, <1>13, <1>14, <1>15, <1>16 DEF SelectionInv

\* Where a list is cut when some more is taken.
CutAt(n, c, count) == IF c + count <= n THEN c + count ELSE n

\* What is taken from the rest of a list makes the part that was taken before longer.
LEMMA MorePrefix ==
  ASSUME NEW T, NEW t \in Seq(T), NEW c \in 0..Len(t), NEW count \in Nat
  PROVE  /\ CutAt(Len(t), c, count) \in 0..Len(t)
         /\ FirstProbes(t, c) \cup FirstProbes(OtherProbes(t, c), count) = FirstProbes(t, CutAt(Len(t), c, count))
         /\ OtherProbes(OtherProbes(t, c), count) = OtherProbes(t, CutAt(Len(t), c, count))
<1> DEFINE s == OtherProbes(t, c)
           n == Len(t)
           L == n - c
           d == CutAt(n, c, count)
<1>1. /\ n \in Nat /\ c \in Nat /\ c <= n /\ d \in Nat /\ d <= n /\ L \in Nat
      /\ d = (IF c + count <= n THEN c + count ELSE n) /\ L = n - c /\ Len(t) = n
      /\ d \in 0..Len(t)
  BY DEF CutAt
<1>2. s \in Seq(T) /\ Len(s) = L /\ \A i \in 1..L : s[i] = t[c + i]
  <2>1. /\ s \in Seq(T)
        /\ Len(s) = IF c <= Len(t) THEN Len(t) - c ELSE 0
        /\ \A i \in 1..Len(t) - c : s[i] = t[c + i]
    BY <1>1, RestIs
  <2>2. QED
    BY <1>1, <2>1
<1>3. DOMAIN s = 1..L
  BY <1>2
<1> HIDE DEF n, L, d, s
<1>4. FirstProbes(t, c) \cup FirstProbes(s, count) = FirstProbes(t, d)
  <2> DEFINE D == DOMAIN s \cap 1..count
             E == FirstProbes(s, count)
  <2>1. ASSUME NEW i \in D
        PROVE  s[i] \in FirstProbes(t, d)
    <3>1. i \in 1..L /\ i \in 1..count
      BY <1>3
    <3>2. c + i \in 1..d
      BY <1>1, <3>1
    <3>3. s[i] = t[c + i]
      BY <1>2, <3>1
    <3>4. QED
      BY <1>1, <3>2, <3>3 DEF FirstProbes, n
  <2>2. ASSUME NEW j \in 1..d
        PROVE  t[j] \in FirstProbes(t, c) \cup E
    <3>1. CASE j \in 1..c
      BY <1>1, <3>1 DEF FirstProbes, n
    <3>2. CASE j \notin 1..c
      <4>1. j - c \in 1..L /\ j - c \in 1..count /\ c + (j - c) = j
        BY <1>1, <3>2 DEF L
      <4>2. j - c \in D /\ s[j - c] = t[j]
        BY <1>2, <1>3, <4>1
      <4>3. QED
        BY <4>2 DEF FirstProbes
    <3>3. QED
      BY <3>1, <3>2
  <2>3. FirstProbes(t, c) \subseteq FirstProbes(t, d)
    BY <1>1 DEF FirstProbes
  <2>4. E \subseteq FirstProbes(t, d)
    <3>1. \A p \in E : \E i \in D : p = s[i]
      BY DEF FirstProbes
    <3> HIDE DEF E, D
    <3>2. QED
      BY <2>1, <3>1
  <2>5. FirstProbes(t, d) \subseteq FirstProbes(t, c) \cup E
    <3> HIDE DEF E
    <3>1. QED
      BY <2>2 DEF FirstProbes
  <2>6. QED
    BY <2>3, <2>4, <2>5
<1>5. OtherProbes(s, count) = OtherProbes(t, d)
  <2> DEFINE a == OtherProbes(s, count)
             b == OtherProbes(t, d)
  <2>1. /\ a \in Seq(T)
        /\ Len(a) = IF count <= Len(s) THEN Len(s) - count ELSE 0
        /\ \A i \in 1..Len(s) - count : a[i] = s[count + i]
    BY <1>2, RestIs
  <2>2. /\ b \in Seq(T)
        /\ Len(b) = IF d <= Len(t) THEN Len(t) - d ELSE 0
        /\ \A i \in 1..Len(t) - d : b[i] = t[d + i]
    BY <1>1, RestIs
  <2> HIDE DEF a, b
  <2>3. Len(a) = n - d /\ Len(b) = n - d
    <3>1. Len(a) = IF count <= L THEN L - count ELSE 0
      BY <1>2, <2>1
    <3>2. Len(b) = IF d <= n THEN n - d ELSE 0
      BY <1>1, <2>2
    <3>3. (IF count <= L THEN L - count ELSE 0) = n - d
      BY <1>1
    <3>4. QED
      BY <1>1, <3>1, <3>2, <3>3
  <2>4. ASSUME NEW i \in 1..n - d
        PROVE  a[i] = b[i]
    <3>1. d = c + count /\ count + i \in 1..L /\ i \in 1..Len(s) - count /\ i \in 1..Len(t) - d
      BY <1>1, <1>2
    <3>2. c + (count + i) = d + i
      BY <1>1, <3>1
    <3>3. a[i] = s[count + i] /\ s[count + i] = t[c + (count + i)] /\ b[i] = t[d + i]
      BY <1>2, <2>1, <2>2, <3>1
    <3>4. QED
      BY <3>2, <3>3
  <2>5. a = b
    BY <2>1, <2>2, <2>3, <2>4, SeqEqual
  <2>6. QED
    BY <2>5 DEF a, b
<1>6. QED
  BY <1>1, <1>4, <1>5 DEF s, d, n

\* What a location may have in a round is a share of what there was, and at least one.
LEMMA CountsAre ==
  ASSUME NEW l, request.limit \in Nat, round.selected \in Nat, round.selected <= request.limit,
         round.weight \in Nat, round.weight # 0, Weight(request.kind, l) \in Nat,
         NEW count \in Counts(l)
  PROVE  /\ count \in Nat /\ count >= 1
         /\ request.kind = "places" => ShareOfEach \in Nat /\ (count <= ShareOfEach \/ count = 1)
<1> DEFINE share == (request.limit - round.selected) * Weight(request.kind, l)
           n == share \div round.weight
<1>1. share \in Nat
  <2>1. request.limit - round.selected \in Nat
    OBVIOUS
  <2>2. \A a, b \in Nat : a * b \in Nat
    OBVIOUS
  <2>3. QED
    BY <2>1, <2>2
<1>2. request.kind = "places" => share = request.limit - round.selected
  BY DEF Weight
<1>3. n \in Nat
  <2> HIDE DEF share
  <2>1. QED
    BY <1>1, Quotients
<1>4. \E m \in {n, n - 1} : count = Max({1, m})
  <2> HIDE DEF n
  <2>1. QED
    BY DEF Counts, n
<1>5. PICK m \in {n, n - 1} : count = Max({1, m})
  BY <1>4
<1>6. m \in Int /\ m <= n
  <2> HIDE DEF n
  <2>1. QED
    BY <1>3
<1>7. count = IF m <= 1 THEN 1 ELSE m
  <2> HIDE DEF n
  <2>1. \E x \in {1, m} : \A y \in {1, m} : x >= y
    BY <1>6
  <2>2. Max({1, m}) \in {1, m} /\ \A y \in {1, m} : Max({1, m}) >= y
    BY <2>1 DEF Max
  <2>3. QED
    BY <1>5, <1>6, <2>2
<1>8. request.kind = "places" => ShareOfEach = n
  BY <1>2 DEF ShareOfEach
<1> HIDE DEF n
<1>9. QED
  BY <1>3, <1>6, <1>7, <1>8

\* One visit less.
LEMMA OneLess ==
  ASSUME NEW n \in Nat, NEW v \in Nat, v >= 1, NEW q \in Nat
  PROVE  (v - 1) * q \in Nat /\ v * q = (v - 1) * q + q
OBVIOUS

\* A location gives its share of a round, or is left out when there are enough.
LEMMA VisitStep ==
  ASSUME SelectionInv, Visit
  PROVE  SelectionInv'
<1>1. SelectionTypes /\ CoverInv /\ PaceInv /\ VisitInv /\ PrefixInv
  BY DEF SelectionInv
<1>2. /\ phase = "taking" /\ round.visit # {}
      /\ UNCHANGED <<ready, request, connected, phase, search>>
  BY DEF Visit
<1>3. \A l : Found(l)' = Found(l) /\ Takable(l)' = Takable(l)
  BY <1>2, SelectionFrame
<1>4. (SearchInv /\ AnswerInv)'
  BY <1>2 DEF SearchInv, AnswerInv
<1>5. IsFiniteSet(round.visit) /\ Cardinality(round.visit) \in Nat
  BY <1>1, SelectionAssumption, FS_Subset, FS_CardinalityType DEF SelectionTypes
<1>6. request.limit \in Nat /\ Cardinality(picked) \in Nat /\ IsFiniteSet(picked)
  BY <1>1, <1>2, PickedTyped, SelectionAssumption DEF SelectionTypes, CoverInv
<1>7. CASE /\ Enough /\ round' = [round EXCEPT !.visit = {}]
           /\ UNCHANGED <<left, weighed, picked>>
  <2>1. round'.visit = {} /\ round' \in [visit : SUBSET Places, selected : Nat, weight : Nat]
    BY <1>1, <1>7 DEF SelectionTypes
  <2>2. SelectionTypes'
    BY <1>1, <1>2, <1>7, <2>1 DEF SelectionTypes
  <2>3. CoverInv'
    <3>1. Grouped' = Grouped
      BY <1>7 DEF Grouped
    <3>2. QED
      BY <1>1, <1>2, <1>3, <1>7, <2>1, <3>1 DEF CoverInv
  <2>4. PaceInv'
    BY <1>1, <1>2, <1>7, <2>1 DEF PaceInv
  <2>5. VisitInv'
    <3> SUFFICES ASSUME request.kind = "places", request.limit >= Len(request.places),
                        NEW l \in ToSet(request.places), Found(l) # {}
                 PROVE  Found(l) \cap picked # {}
      BY <1>2, <1>3, <1>7 DEF VisitInv
    <3>1. ShareOfEach \in Int => ~(ShareOfEach >= 1)
      <4> SUFFICES ASSUME ShareOfEach \in Int, ShareOfEach >= 1
                   PROVE  FALSE
        OBVIOUS
      <4> DEFINE v == Cardinality(round.visit)
                 q == ShareOfEach
                 n == Cardinality(picked)
      <4>1. n + v * q <= request.limit /\ n = request.limit
        BY <1>1, <1>2, <1>7 DEF PaceInv, Enough
      <4>2. v # 0 /\ v \in Nat /\ q \in Nat /\ q >= 1
        BY <1>2, <1>5, FS_EmptySet
      <4> HIDE DEF v, q, n
      <4>3. v * q >= 1
        BY <4>2
      <4>4. QED
        BY <1>6, <4>1, <4>2, <4>3
    <3>2. ShareOfEach \in Int
      <4>1. request.limit \in Nat /\ round.selected \in Nat /\ round.weight \in Nat \ {0}
        BY <1>1, <1>2, <1>6 DEF SelectionTypes, PaceInv
      <4>2. QED
        BY <4>1 DEF ShareOfEach
    <3>3. ~(picked = {} /\ round.visit = {})
      BY <1>2
    <3>4. QED
      BY <1>1, <1>2, <3>1, <3>2, <3>3 DEF VisitInv
  <2>6. PrefixInv'
    <3>1. (Found(request.places[1]))' = Found(request.places[1])
      BY <1>2 DEF Found, AllListed, OfTheWorld
    <3>2. QED
      BY <1>1, <1>2, <1>7, <3>1 DEF PrefixInv, OneLocation
  <2>7. QED
    BY <1>4, <2>2, <2>3, <2>4, <2>5, <2>6 DEF SelectionInv
<1>8. CASE ~Enough
  <2>1. PICK l \in round.visit : \E count \in Counts(l) :
          /\ picked' = picked \cup FirstProbes(left[l], count)
          /\ left' = [left EXCEPT ![l] = OtherProbes(@, count)]
          /\ weighed' = IF left'[l] = <<>> THEN weighed \ {l} ELSE weighed
          /\ round' = [round EXCEPT !.visit = @ \ {l}]
    BY <1>8 DEF Visit
  <2>2. PICK count \in Counts(l) :
          /\ picked' = picked \cup FirstProbes(left[l], count)
          /\ left' = [left EXCEPT ![l] = OtherProbes(@, count)]
          /\ weighed' = IF left'[l] = <<>> THEN weighed \ {l} ELSE weighed
          /\ round' = [round EXCEPT !.visit = @ \ {l}]
    BY <2>1
  <2> DEFINE s == left[l]
             r == OtherProbes(s, count)
             taken == FirstProbes(s, count)
             n == Cardinality(picked)
             v == Cardinality(round.visit)
             q == ShareOfEach
  <2>3. /\ l \in Places /\ l \in ToSet(request.places) /\ l \in weighed /\ s \in Seq(Selectable) /\ s # <<>>
        /\ ToSet(s) \subseteq Found(l)
    <3>1. l \in Grouped /\ l \in ToSet(request.places) /\ l \in weighed
      BY <1>1, <1>2 DEF CoverInv
    <3>2. l \in Places /\ s # <<>>
      BY <3>1 DEF Grouped
    <3>3. s \in Seq(Selectable)
      BY <1>1, <3>2 DEF SelectionTypes
    <3>4. QED
      BY <1>1, <1>2, <3>1, <3>2, <3>3 DEF CoverInv
  <2>4. /\ round.selected \in Nat /\ round.selected <= request.limit
        /\ round.weight \in Nat /\ round.weight # 0
    BY <1>1, <1>2 DEF SelectionTypes, PaceInv
  <2>5. Weight(request.kind, l) \in Nat
    <3>1. request.kind = "world" => l \in Continents
      BY <1>1, <2>3 DEF SelectionTypes
    <3>2. QED
      BY <3>1, SelectionAssumption DEF Weight
  <2>6. /\ count \in Nat /\ count >= 1
        /\ request.kind = "places" => q \in Nat /\ (count <= q \/ count = 1)
    BY <1>6, <2>4, <2>5, CountsAre
  <2>7. /\ r \in Seq(Selectable) /\ ToSet(r) \subseteq ToSet(s)
        /\ ToSet(s) \subseteq taken \cup ToSet(r)
    <3> HIDE DEF s
    <3>1. QED
      BY <2>3, <2>6, RestTyped
  <2>8. IsFiniteSet(taken) /\ Cardinality(taken) \in Nat /\ Cardinality(taken) <= count
    <3> HIDE DEF s
    <3>1. QED
      BY <2>6, FirstFew
  <2>9. taken \subseteq ToSet(s) /\ taken # {}
    <3>1. 1 \in DOMAIN s \cap 1..count
      BY <2>3, <2>6
    <3> HIDE DEF s
    <3>2. QED
      BY <3>1 DEF ToSet, FirstProbes
  <2>10. /\ picked' = picked \cup taken
         /\ left' = [left EXCEPT ![l] = r]
         /\ weighed' = IF left'[l] = <<>> THEN weighed \ {l} ELSE weighed
         /\ round'.visit = round.visit \ {l} /\ round'.selected = round.selected /\ round'.weight = round.weight
         /\ round' \in [visit : SUBSET Places, selected : Nat, weight : Nat]
    <3>1. round \in [visit : SUBSET Places, selected : Nat, weight : Nat]
      BY <1>1 DEF SelectionTypes
    <3>2. QED
      BY <2>2, <3>1
  <2> HIDE DEF s, r, taken
  <2>11. \A m \in Places : left'[m] = IF m = l THEN r ELSE left[m]
    BY <1>1, <2>10 DEF SelectionTypes
  <2>12. taken \subseteq Selectable
    <3>1. ToSet(s) \subseteq Selectable
      BY <2>3 DEF ToSet
    <3>2. QED
      BY <2>9, <3>1
  <2>13. SelectionTypes'
    <3>1. left' \in [Places -> Seq(Selectable)]
      BY <1>1, <2>3, <2>7, <2>10 DEF SelectionTypes
    <3>2. weighed' \subseteq Places /\ round'.visit \subseteq weighed'
      BY <1>1, <2>10 DEF SelectionTypes
    <3>3. QED
      BY <1>1, <1>2, <2>10, <2>12, <3>1, <3>2 DEF SelectionTypes
  <2>14. CoverInv'
    <3>1. Grouped' \subseteq weighed'
      <4>1. \A m \in Places : left'[m] # <<>> => m \in weighed'
        <5>1. \A m \in Places : left[m] # <<>> => m \in weighed
          BY <1>1, <1>2 DEF CoverInv, Grouped
        <5>2. QED
          BY <2>3, <2>10, <2>11, <5>1
      <4>2. QED
        BY <4>1 DEF Grouped
    <3>2. weighed' \subseteq ToSet(request.places)
      BY <1>1, <1>2, <2>10 DEF CoverInv
    <3>3. round'.visit \subseteq Grouped'
      <4>1. \A m \in round.visit : m \in Places /\ left[m] # <<>>
        BY <1>1, <1>2 DEF CoverInv, Grouped
      <4>2. QED
        BY <2>10, <2>11, <4>1 DEF Grouped
    <3>4. ASSUME NEW m \in ToSet(request.places)
          PROVE  Takable(m) \subseteq picked' \cup ToSet(left'[m]) /\ ToSet(left'[m]) \subseteq Found(m)
      <4>1. m \in Places
        BY <1>1 DEF SelectionTypes, ToSet
      <4>2. Takable(m) \subseteq picked \cup ToSet(left[m]) /\ ToSet(left[m]) \subseteq Found(m)
        BY <1>1, <1>2 DEF CoverInv
      <4>3. CASE m = l
        <5>1. left'[m] = r /\ left[m] = s
          BY <2>11, <4>1, <4>3 DEF s
        <5>2. QED
          BY <2>7, <2>10, <4>2, <5>1
      <4>4. CASE m # l
        <5>1. left'[m] = left[m]
          BY <2>11, <4>1, <4>4
        <5>2. QED
          BY <2>10, <4>2, <5>1
      <4>5. QED
        BY <4>3, <4>4
    <3>5. picked' \subseteq UNION {Found(m) : m \in ToSet(request.places)}
      BY <1>1, <1>2, <2>3, <2>9, <2>10 DEF CoverInv
    <3>6. QED
      BY <1>1, <1>2, <1>3, <3>1, <3>2, <3>3, <3>4, <3>5 DEF CoverInv
  <2>15. ShareOfEach' = q
    BY <1>2, <2>10 DEF ShareOfEach
  <2>16. PaceInv'
    <3>1. request.kind = "places" =>
            /\ Cardinality(picked') <= request.limit
            /\ ShareOfEach >= 1 => Cardinality(picked') + Cardinality(round'.visit) * ShareOfEach <= request.limit
      <4> SUFFICES ASSUME request.kind = "places"
                   PROVE  /\ Cardinality(picked') <= request.limit
                          /\ q >= 1 => Cardinality(picked') + Cardinality(round'.visit) * q <= request.limit
        OBVIOUS
      <4>1. Cardinality(picked') <= n + count /\ Cardinality(picked') \in Nat
        <5>1. IsFiniteSet(picked') /\ Cardinality(picked') = n + Cardinality(taken) - Cardinality(picked \cap taken)
          BY <1>6, <2>8, <2>10, FS_Union
        <5>2. Cardinality(picked \cap taken) \in Nat
          <6>1. picked \cap taken \in SUBSET taken
            OBVIOUS
          <6>2. QED
            BY <2>8, <6>1, FS_Subset, FS_CardinalityType
        <5>3. Cardinality(picked') \in Nat
          BY <5>1, FS_CardinalityType
        <5>4. QED
          BY <1>6, <2>6, <2>8, <5>1, <5>2, <5>3
      <4>2. Cardinality(round'.visit) = v - 1 /\ v >= 1 /\ v \in Nat
        <5>1. Cardinality(round.visit \ {l}) = v - 1 /\ IsFiniteSet(round.visit \ {l})
          BY <1>5, FS_RemoveElement
        <5>2. Cardinality(round.visit \ {l}) \in Nat
          BY <5>1, FS_CardinalityType
        <5>3. QED
          BY <1>5, <2>10, <5>1, <5>2
      <4>3. n <= request.limit /\ n # request.limit /\ (q >= 1 => n + v * q <= request.limit)
        BY <1>1, <1>2, <1>8 DEF PaceInv, Enough
      <4> HIDE DEF n, v, q
      <4>4. q \in Nat /\ n \in Nat /\ request.limit \in Nat
        BY <1>6, <2>6 DEF n
      <4>5. (v - 1) * q \in Nat /\ v * q = (v - 1) * q + q
        BY <4>2, <4>4, OneLess
      <4>6. CASE q >= 1
        <5>1. count <= q
          BY <2>6, <4>4, <4>6
        <5>2. Cardinality(picked') + (v - 1) * q <= request.limit
          BY <2>6, <4>1, <4>3, <4>4, <4>5, <4>6, <5>1
        <5>3. QED
          BY <4>1, <4>2, <4>4, <4>5, <5>2
      <4>7. CASE ~(q >= 1)
        <5>1. count = 1
          BY <2>6, <4>4, <4>7
        <5>2. QED
          BY <4>1, <4>3, <4>4, <4>7, <5>1
      <4>8. QED
        BY <4>6, <4>7
    <3> HIDE DEF q
    <3>2. QED
      BY <1>2, <2>4, <2>10, <2>15, <3>1 DEF PaceInv, q
  <2>17. VisitInv'
    <3> SUFFICES ASSUME request.kind = "places", request.limit >= Len(request.places),
                        NEW m \in ToSet(request.places), Found(m) # {}, Found(m) \cap picked' = {}
                 PROVE  m \in round'.visit /\ ShareOfEach' >= 1
      BY <1>2, <1>3 DEF VisitInv
    <3>1. m # l
      BY <2>3, <2>9, <2>10
    <3>2. Found(m) \cap picked = {}
      BY <2>10
    <3>3. m \in round.visit /\ ShareOfEach >= 1
      BY <1>1, <1>2, <3>2 DEF VisitInv
    <3>4. QED
      BY <2>10, <2>15, <3>1, <3>3
  <2>18. PrefixInv'
    <3> SUFFICES ASSUME OneLocation
                 PROVE  PrefixInv'
      BY <1>2 DEF PrefixInv, OneLocation
    <3>1. request.places[1] = l
      <4>1. request.places \in Seq(Places) /\ Len(request.places) = 1
        BY <1>1 DEF SelectionTypes, OneLocation
      <4>2. ToSet(request.places) = {request.places[1]}
        BY <4>1 DEF ToSet
      <4>3. QED
        BY <2>3, <4>2
    <3> DEFINE D == DiversifiedShuffles(Found(l))
    <3>2. PICK t \in D : \E c \in 0..Len(t) : picked = FirstProbes(t, c) /\ s = OtherProbes(t, c)
      BY <1>1, <1>2, <3>1 DEF PrefixInv, s
    <3>3. PICK c \in 0..Len(t) : picked = FirstProbes(t, c) /\ s = OtherProbes(t, c)
      BY <3>2
    <3>4. t \in Seq(Found(l)) /\ Len(t) \in Nat /\ DOMAIN t = 1..Len(t)
      <4>1. t \in Orders(Found(l))
        BY DEF DiversifiedShuffles
      <4>2. QED
        BY <1>1, <2>3, <4>1, FoundTyped, OrdersAre
    <3> DEFINE d == CutAt(Len(t), c, count)
    <3>5. d \in 0..Len(t) /\ picked' = FirstProbes(t, d) /\ r = OtherProbes(t, d)
      <4>1. /\ d \in 0..Len(t)
            /\ FirstProbes(t, c) \cup FirstProbes(OtherProbes(t, c), count) = FirstProbes(t, d)
            /\ OtherProbes(OtherProbes(t, c), count) = OtherProbes(t, d)
        BY <2>6, <3>4, MorePrefix
      <4>2. QED
        BY <2>10, <3>3, <4>1 DEF r, taken
    <3>6. (DiversifiedShuffles(Found(request.places[1])))' = D
      <4>1. (Found(request.places[1]))' = Found(request.places[1])
        BY <1>2 DEF Found, AllListed, OfTheWorld
      <4>2. QED
        BY <3>1, <4>1
    <3>7. left'[l] = r
      BY <2>3, <2>11
    <3> HIDE DEF D, d
    <3>8. QED
      BY <1>2, <3>1, <3>2, <3>5, <3>6, <3>7 DEF PrefixInv
  <2>19. QED
    BY <1>4, <2>13, <2>14, <2>16, <2>17, <2>18 DEF SelectionInv
<1>9. QED
  BY <1>7, <1>8 DEF Visit

\* What has been picked for a request stays right as long as it stays the same.
LEMMA AnswersStay ==
  ASSUME RequestMet, RequestSpread, UNCHANGED <<ready, connected, request, picked>>
  PROVE  RequestMet' /\ RequestSpread'
<1>1. \A l : Found(l)' = Found(l)
  BY SelectionFrame
<1>2. (Found(request.places[1]))' = Found(request.places[1])
  BY DEF Found, AllListed, OfTheWorld
<1>3. RequestMet'
  BY <1>1 DEF RequestMet
<1>4. RequestSpread'
  BY <1>2 DEF RequestSpread, OneLocation, Networks
<1>5. QED
  BY <1>3, <1>4

\* The rounds end with what was asked for, or with nothing left to take.
LEMMA EndTakingStep ==
  ASSUME SelectionInv, EndTaking
  PROVE  SelectionInv'
<1>1. SelectionTypes /\ PrefixInv
  BY DEF SelectionInv
<1>2. /\ phase = "taking" /\ round.visit = {} /\ (Grouped = {} \/ Cardinality(picked) >= request.limit)
      /\ phase' \in {"earlier", "done"}
      /\ UNCHANGED <<ready, request, connected, search, left, weighed, round, picked>>
  BY EndPhase DEF EndTaking
<1>3. SelectionTypes'
  BY <1>1, <1>2 DEF SelectionTypes
<1>4. (SearchInv /\ CoverInv /\ PaceInv /\ VisitInv /\ PrefixInv)'
  BY <1>2 DEF SearchInv, CoverInv, PaceInv, VisitInv, PrefixInv
<1>5. RequestMet
  BY <1>2, LimitMetAtEnd
<1>6. RequestSpread
  <2> SUFFICES ASSUME OneLocation
               PROVE  RequestSpread
    BY DEF RequestSpread
  <2> DEFINE D == DiversifiedShuffles(Found(request.places[1]))
  <2>1. PICK s \in D : \E c \in 0..Len(s) : picked = FirstProbes(s, c)
    BY <1>1, <1>2 DEF PrefixInv
  <2>2. PICK c \in 0..Len(s) : picked = FirstProbes(s, c)
    BY <2>1
  <2>3. QED
    BY <1>1, <2>2, PrefixIsSpread
<1>7. RequestMet' /\ RequestSpread'
  BY <1>2, <1>5, <1>6, AnswersStay
<1>8. QED
  BY <1>3, <1>4, <1>7 DEF SelectionInv, AnswerInv

\* The probes of an earlier measurement are read.
LEMMA EarlierStep ==
  ASSUME SelectionInv, ReadEarlierIps \/ ReadEarlierRecord
  PROVE  SelectionInv'
<1>1. /\ phase \in {"earlier", "recorded"} /\ phase' \in {"recorded", "done"}
      /\ UNCHANGED <<ready, request, connected, search, left, weighed, round, picked>>
  BY DEF ReadEarlierIps, ReadEarlierRecord
<1>2. SelectionTypes'
  BY <1>1 DEF SelectionInv, SelectionTypes
<1>3. RequestMet /\ RequestSpread
  BY <1>1 DEF SelectionInv, AnswerInv
<1>4. RequestMet' /\ RequestSpread'
  BY <1>1, <1>3, AnswersStay
<1>5. QED
  BY <1>1, <1>2, <1>4 DEF SelectionInv, SearchInv, CoverInv, PaceInv, VisitInv, PrefixInv, AnswerInv

\* Other probes are ready.
LEMMA ProbesUpdateStep ==
  ASSUME SelectionInv, NEW S \in ReadyLists, ProbesUpdate(S)
  PROVE  SelectionInv'
<1>1. /\ phase = "idle" /\ ready' = S
      /\ UNCHANGED <<request, connected, phase, search, left, weighed, round, picked>>
  BY DEF ProbesUpdate
<1>2. SelectionTypes /\ SearchInv
  BY DEF SelectionInv
<1>3. SelectionTypes'
  BY <1>1, <1>2, SelectionAssumption DEF SelectionTypes
<1>4. SearchInv'
  <2>1. ToSet(request.places) = {}
    BY <1>1, <1>2 DEF SearchInv, ToSet
  <2>2. \A l \in Places : left[l] = <<>>
    BY <1>1, <1>2, <2>1 DEF SearchInv
  <2>3. QED
    BY <1>1, <1>2, <2>1, <2>2 DEF SearchInv
<1>5. QED
  BY <1>1, <1>3, <1>4 DEF SelectionInv, CoverInv, PaceInv, VisitInv, PrefixInv, AnswerInv

\* Every step of a selection keeps the invariant.
LEMMA SelectionStepKeeps ==
  ASSUME SelectionInv, [SelectionNext]_selectionVars
  PROVE  SelectionInv'
<1>1. CASE UNCHANGED selectionVars
  <2>1. UNCHANGED <<ready, connected, request, phase, search, left, weighed, round, picked>>
    BY <1>1 DEF selectionVars
  <2>2. \A l : Found(l)' = Found(l) /\ Takable(l)' = Takable(l) /\ FilterByLocation(l)' = FilterByLocation(l)
    BY <2>1, SelectionFrame
  <2>3. (Found(request.places[1]))' = Found(request.places[1])
    BY <2>1 DEF Found, AllListed, OfTheWorld
  <2>4. SelectionTypes'
    BY <2>1 DEF SelectionInv, SelectionTypes
  <2>5. SearchInv'
    BY <2>1, <2>2 DEF SelectionInv, SearchInv
  <2>6. CoverInv'
    <3>1. Grouped' = Grouped
      BY <2>1 DEF Grouped
    <3>2. QED
      BY <2>1, <2>2, <3>1 DEF SelectionInv, CoverInv
  <2>7. PaceInv' /\ VisitInv'
    <3>1. ShareOfEach' = ShareOfEach
      BY <2>1 DEF ShareOfEach
    <3>2. PaceInv'
      BY <2>1, <3>1 DEF SelectionInv, PaceInv
    <3>3. VisitInv'
      BY <2>1, <2>2, <3>1 DEF SelectionInv, VisitInv
    <3>4. QED
      BY <3>2, <3>3
  <2>8. PrefixInv'
    BY <2>1, <2>3 DEF SelectionInv, PrefixInv, OneLocation
  <2>9. AnswerInv'
    <3> SUFFICES ASSUME RequestMet, RequestSpread
                 PROVE  RequestMet' /\ RequestSpread'
      BY <2>1 DEF SelectionInv, AnswerInv
    <3>1. QED
      BY <2>1, AnswersStay
  <2>10. QED
    BY <2>4, <2>5, <2>6, <2>7, <2>8, <2>9 DEF SelectionInv
<1>2. CASE \E S \in ReadyLists : ProbesUpdate(S)
  BY <1>2, ProbesUpdateStep
<1>3. CASE Ask("again", <<>>, 0, <<>>, 4)
  <2>1. <<>> \in Seq(Places)
    OBVIOUS
  <2>2. QED
    BY <1>3, <2>1, AskStep
<1>4. ASSUME NEW version \in {4, 6}, NEW limit \in Limits, NEW places \in Orders(Continents),
             Ask("world", places, limit, <<>>, version)
      PROVE  SelectionInv'
  <2>1. places \in Seq(Places) /\ ToSet(places) \subseteq Continents
    BY SelectionAssumption, OrdersTyped
  <2>2. limit \in 1..MaxTests
    BY SelectionAssumption
  <2>3. QED
    BY <1>4, <2>1, <2>2, AskStep
<1>5. ASSUME NEW version \in {4, 6}, NEW limit \in Limits, NEW places \in Lists,
             Ask("places", places, limit, <<>>, version)
      PROVE  SelectionInv'
  <2>1. places \in Seq(Places)
    BY ListsTyped
  <2>2. limit \in 1..MaxTests
    BY SelectionAssumption
  <2>3. QED
    BY <1>5, <2>1, <2>2, AskStep
<1>6. ASSUME NEW version \in {4, 6}, NEW places \in Lists, NEW limits \in [ToSet(places) -> Limits],
             AskEach(places, limits, version)
      PROVE  SelectionInv'
  <2>1. places \in Seq(Places)
    BY ListsTyped
  <2>2. \A l \in ToSet(places) : limits[l] \in 1..MaxTests
    BY SelectionAssumption
  <2>3. Ask("each", places, 0, limits, version)
    BY <1>6 DEF AskEach
  <2>4. QED
    BY <2>1, <2>2, <2>3, AskStep
<1>7. CASE \/ Search \/ TakeEach \/ StartTaking \/ StartRound \/ Visit \/ EndTaking
           \/ ReadEarlierIps \/ ReadEarlierRecord
  BY <1>7, SearchStep, TakeEachStep, StartTakingStep, StartRoundStep, VisitStep, EndTakingStep, EarlierStep
<1>8. QED
  BY <1>1, <1>2, <1>3, <1>4, <1>5, <1>6, <1>7 DEF SelectionNext

-------------------------------------------------------------------------------
(* The theorems *)

\* What holds of every request: the types, and of each phase what the final list needs.
THEOREM SelectionInvariant == SelectionSpec => []SelectionInv
<1>1. SelectionInit => SelectionInv
  <2> SUFFICES ASSUME SelectionInit
               PROVE  SelectionInv
    OBVIOUS
  <2>1. SelectionTypes
    BY DEF SelectionInit, SelectionTypes, NoRound
  <2>2. SearchInv
    BY DEF SelectionInit, SearchInv, NoRound, ToSet
  <2>3. QED
    BY <2>1, <2>2 DEF SelectionInit, SelectionInv, CoverInv, PaceInv, VisitInv, PrefixInv, AnswerInv
<1>2. SelectionInv /\ [SelectionNext]_selectionVars => SelectionInv'
  BY SelectionStepKeeps
<1>3. QED
  BY <1>1, <1>2, PTL DEF SelectionSpec

\* filterByLocationAndWeight: a request for some locations gets what it asks for or all there is,
\* for any locations, weights of one and order of the probes.
THEOREM LimitAlwaysMet == SelectionSpec => []LimitIsMet
<1>1. SelectionInv => LimitIsMet
  <2> SUFFICES ASSUME SelectionInv
               PROVE  LimitIsMet
    OBVIOUS
  <2>1. SelectionTypeOK
    <3>1. ASSUME NEW l \in Places
          PROVE  ToSet(left[l]) \subseteq Selectable
      <4>1. left[l] \in Seq(Selectable)
        BY DEF SelectionInv, SelectionTypes
      <4>2. QED
        BY <4>1 DEF ToSet
    <3>2. QED
      BY <3>1 DEF SelectionInv, SelectionTypes, SelectionTypeOK
  <2>2. phase = "done" => RequestMet
    BY DEF SelectionInv, AnswerInv
  <2>3. QED
    BY <2>1, <2>2 DEF LimitIsMet, RequestMet
<1>2. QED
  BY <1>1, SelectionInvariant, PTL

\* diversifiedShuffle: what is taken of a location first comes from as many networks as there can be.
THEOREM ProbesAlwaysSpread == SelectionSpec => []ProbesAreSpread
<1>1. SelectionInv => ProbesAreSpread
  <2> SUFFICES ASSUME SelectionInv
               PROVE  ProbesAreSpread
    OBVIOUS
  <2>1. phase = "done" => RequestSpread
    BY DEF SelectionInv, AnswerInv
  <2>2. QED
    BY <2>1 DEF ProbesAreSpread, RequestSpread, OneLocation
<1>2. QED
  BY <1>1, SelectionInvariant, PTL
===============================================================================
