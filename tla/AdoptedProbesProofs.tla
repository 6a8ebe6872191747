------------------------- MODULE AdoptedProbesProofs -------------------------
(***************************************************************************)
(* Proofs about AdoptedProbes: for any table, probes and users, a matching *)
(* matches no row and no probe twice and leaves none out, adopted rows     *)
(* come first, and what a sync deletes as a duplicate it keeps another of. *)
(*                                                                         *)
(* The matching and the search for duplicates are folds.  A fold is a run  *)
(* of states, one for each element (PassRuns, MatchRuns, DuplicatesRun),   *)
(* and what the first state has, and each step keeps, the last state has:  *)
(* induction over a set of numbers (Induction), whose least element that   *)
(* would be left out cannot be.                                            *)
(*                                                                         *)
(* That the row a sync keeps is still in the table when it deletes the     *)
(* other one is only true of a single API host (OneHost): of two hosts     *)
(* each may delete the row that the other one keeps.                       *)
(***************************************************************************)
EXTENDS AdoptedProbes, FiniteSetTheorems, FunctionTheorems, WellFoundedInduction, TLAPS

-------------------------------------------------------------------------------
(* Numbers *)

\* There is a least of some natural numbers.
LEMMA LeastExists ==
  ASSUME NEW S, S \subseteq Nat, S # {}
  PROVE  \E m \in S : \A n \in S : m <= n
<1>1. PICK m \in S : \A n \in S : <<n, m>> \notin OpToRel(<, Nat)
  BY NatLessThanWellFounded, WFMin, Zenon
<1>2. \A n \in S : ~(n < m)
  BY <1>1 DEF OpToRel
<1>3. QED
  BY <1>2

\* Of some naturals that are bounded there is a greatest.
LEMMA GreatestExists ==
  ASSUME NEW S, S \subseteq Nat, S # {}, NEW b \in Nat, \A n \in S : n <= b
  PROVE  \E m \in S : \A n \in S : m >= n
<1> DEFINE T == {b - n : n \in S}
<1>1. T \subseteq Nat /\ T # {}
  <2>1. \A n \in S : b - n \in Nat
    OBVIOUS
  <2>2. QED
    BY <2>1
<1>2. PICK t \in T : \A u \in T : t <= u
  <2> HIDE DEF T
  <2>1. QED
    BY <1>1, LeastExists
<1>3. PICK m \in S : t = b - m
  OBVIOUS
<1>4. \A n \in S : b - m <= b - n
  BY <1>2, <1>3
<1>5. QED
  BY <1>4

\* Induction up to a number, over a set: what holds of 0, and of k + 1 when it holds of k.
LEMMA Induction ==
  ASSUME NEW n \in Nat, NEW S,
         0 \in S,
         \A k \in 1..n : k - 1 \in S => k \in S
  PROVE  \A k \in 0..n : k \in S
<1> DEFINE T == {k \in 0..n : k \notin S}
<1>1. T \subseteq Nat
  OBVIOUS
<1>2. SUFFICES ASSUME T # {}
               PROVE  FALSE
  BY <1>2
<1>3. PICK m \in T : \A k \in T : m <= k
  <2> HIDE DEF T
  <2>1. QED
    BY <1>1, <1>2, LeastExists
<1>4. m \in 1..n
  OBVIOUS
<1>5. m - 1 \in 0..n /\ ~(m <= m - 1)
  BY <1>4
<1>6. m - 1 \in S
  BY <1>3, <1>5
<1>7. QED
  BY <1>4, <1>6

\* The greatest of 1..k, and of some of 1..k.
LEMMA MaxPrefix ==
  ASSUME NEW k \in Nat, k # 0
  PROVE  Max(1..k) = k /\ (1..k) \ {Max(1..k)} = 1..(k - 1)
<1> DEFINE P(x) == x \in 1..k /\ \A y \in 1..k : x >= y
<1>1. P(k)
  OBVIOUS
<1>2. \A x : P(x) => x = k
  OBVIOUS
<1>3. Max(1..k) = CHOOSE x : P(x)
  BY DEF Max
<1>4. Max(1..k) = k
  <2> HIDE DEF P
  <2>1. QED
    BY <1>1, <1>2, <1>3
<1>5. QED
  BY <1>4

LEMMA MaxInPrefix ==
  ASSUME NEW k \in Nat, NEW q \in SUBSET (1..k), q # {}
  PROVE  /\ Max(q) \in q
         /\ q \ {Max(q)} \in SUBSET (1..k)
         /\ k \in q => Max(q) = k /\ q \ {Max(q)} \in SUBSET (1..(k - 1))
         /\ k \notin q => q \in SUBSET (1..(k - 1))
<1>1. \E m \in q : \A n \in q : m >= n
  <2>1. q \subseteq Nat /\ \A n \in q : n <= k
    OBVIOUS
  <2>2. QED
    BY <2>1, GreatestExists
<1>2. Max(q) \in q /\ \A n \in q : Max(q) >= n
  BY <1>1 DEF Max
<1>3. k \in q => Max(q) = k
  <2>1. Max(q) \in 1..k
    BY <1>2
  <2>2. k \in q => Max(q) >= k
    BY <1>2
  <2> DEFINE m == Max(q)
  <2> HIDE DEF m
  <2>3. m \in 1..k /\ (k \in q => m >= k)
    BY <2>1, <2>2 DEF m
  <2>4. k \in q => m = k
    BY <2>3
  <2>5. QED
    BY <2>4 DEF m
<1>4. k \in q => q \ {k} \in SUBSET (1..(k - 1))
  OBVIOUS
<1>5. k \notin q => q \in SUBSET (1..(k - 1))
  OBVIOUS
<1>6. QED
  BY <1>2, <1>3, <1>4, <1>5

-------------------------------------------------------------------------------
(* The folds *)

\* A pass begins with no row left.
Emptied(state) == [state EXCEPT !.left = <<>>]

\* The states that a pass goes through, row after row.
LEMMA PassRuns ==
  ASSUME NEW table, NEW pass, NEW state, NEW n \in Nat, DOMAIN state.left = 1..n
  PROVE  \E run : /\ run[0] = Emptied(state)
                  /\ \A k \in 1..n : run[k] = MatchRow(table, pass, run[k - 1], state.left[k])
                  /\ run[n] = Pass(table, state, pass)
<1> DEFINE b == Emptied(state)
           s == state.left
           Solves(it, D) == it = [q \in SUBSET D |->
                    IF q = {} THEN b ELSE MatchRow(table, pass, it[q \ {Max(q)}], s[Max(q)])]
           Good == {m \in 0..n : \E it : Solves(it, 1..m)}
<1>1. 0 \in Good
  <2>1. Solves([q \in SUBSET (1..0) |-> b], 1..0)
    OBVIOUS
  <2> HIDE DEF Solves
  <2>2. QED
    BY <2>1
<1>2. ASSUME NEW m \in 1..n, m - 1 \in Good
      PROVE  m \in Good
  <2>1. PICK it : Solves(it, 1..(m - 1))
    BY <1>2
  <2> DEFINE jt == [q \in SUBSET (1..m) |->
                      IF m \in q THEN MatchRow(table, pass, it[q \ {m}], s[m]) ELSE it[q]]
             F == [q \in SUBSET (1..m) |->
                    IF q = {} THEN b ELSE MatchRow(table, pass, jt[q \ {Max(q)}], s[Max(q)])]
  <2>2. ASSUME NEW q \in SUBSET (1..m)
        PROVE  jt[q] = F[q]
    <3>1. CASE q = {}
      BY <2>1, <3>1
    <3>2. CASE q # {} /\ m \in q
      <4>1. Max(q) = m /\ q \ {m} \in SUBSET (1..m) /\ m \notin q \ {m}
        BY <3>2, MaxInPrefix
      <4>2. jt[q \ {m}] = it[q \ {m}]
        BY <4>1
      <4>3. QED
        BY <3>2, <4>1, <4>2
    <3>3. CASE q # {} /\ m \notin q
      <4>1. Max(q) \in q /\ q \ {Max(q)} \in SUBSET (1..m) /\ q \in SUBSET (1..(m - 1))
        BY <3>3, MaxInPrefix
      <4>2. jt[q \ {Max(q)}] = it[q \ {Max(q)}]
        BY <3>3, <4>1
      <4>3. it[q] = MatchRow(table, pass, it[q \ {Max(q)}], s[Max(q)])
        BY <2>1, <3>3, <4>1
      <4>4. QED
        BY <3>3, <4>1, <4>2, <4>3
    <3>4. QED
      BY <3>1, <3>2, <3>3
  <2>3. Solves(jt, 1..m)
    <3>1. jt = [q \in SUBSET (1..m) |-> jt[q]] /\ F = [q \in SUBSET (1..m) |-> F[q]]
      OBVIOUS
    <3> HIDE DEF jt
    <3>2. jt = F
      <4> HIDE DEF F
      <4>1. QED
        BY <2>2, <3>1
    <3>3. QED
      BY <3>2
  <2> HIDE DEF Solves, jt
  <2>4. QED
    BY <2>3
<1>3. n \in Good
  <2> HIDE DEF Good
  <2>1. \A k \in 0..n : k \in Good
    BY <1>1, <1>2, Induction
  <2>2. QED
    BY <2>1
<1> DEFINE fold == CHOOSE it : Solves(it, DOMAIN s)
<1>4. Solves(fold, 1..n)
  <2>1. \E it : Solves(it, DOMAIN s)
    BY <1>3
  <2> HIDE DEF Solves
  <2>2. QED
    BY <2>1
<1>5. Pass(table, state, pass) = fold[1..n]
  <2>1. Pass(table, state, pass) = fold[DOMAIN s]
    BY DEF Pass, FoldLeft, MapThenFoldSet, Emptied
  <2>2. QED
    BY <2>1
<1> DEFINE run == [k \in 0..n |-> fold[1..k]]
<1>6. run[0] = b
  <2>1. 1..0 = {} /\ {} \in SUBSET (1..n)
    OBVIOUS
  <2>2. fold[{}] = b
    <3> HIDE DEF fold
    <3>1. QED
      BY <1>4, <2>1
  <2>3. QED
    BY <2>1, <2>2
<1>7. ASSUME NEW k \in 1..n
      PROVE  run[k] = MatchRow(table, pass, run[k - 1], s[k])
  <2>1. 1..k \in SUBSET (1..n) /\ k \in 1..k
    OBVIOUS
  <2>2. Max(1..k) = k /\ (1..k) \ {Max(1..k)} = 1..(k - 1)
    BY MaxPrefix
  <2>3. fold[1..k] = MatchRow(table, pass, fold[1..(k - 1)], s[k])
    <3> HIDE DEF fold
    <3>1. QED
      BY <1>4, <2>1, <2>2
  <2>4. QED
    BY <2>3
<1>8. run[n] = Pass(table, state, pass)
  BY <1>5
<1>9. QED
  <2> HIDE DEF fold, run
  <2>1. QED
    BY <1>6, <1>7, <1>8

\* The states between the passes.
LEMMA MatchRuns ==
  ASSUME NEW table, NEW probes
  PROVE  \E run : /\ run[0] = Unmatched(table, probes)
                  /\ \A k \in 1..9 : run[k] = Pass(table, run[k - 1], Passes[k])
                  /\ run[9] = Matched(table, probes)
<1>0. DOMAIN Passes = 1..9
  BY DEF Passes
<1> DEFINE b == Unmatched(table, probes)
           s == Passes
           Solves(it, D) == it = [q \in SUBSET D |->
                    IF q = {} THEN b ELSE Pass(table, it[q \ {Max(q)}], s[Max(q)])]
           Good == {m \in 0..9 : \E it : Solves(it, 1..m)}
<1>1. 0 \in Good
  <2>1. Solves([q \in SUBSET (1..0) |-> b], 1..0)
    OBVIOUS
  <2> HIDE DEF Solves
  <2>2. QED
    BY <2>1
<1>2. ASSUME NEW m \in 1..9, m - 1 \in Good
      PROVE  m \in Good
  <2>1. PICK it : Solves(it, 1..(m - 1))
    BY <1>2
  <2> DEFINE jt == [q \in SUBSET (1..m) |->
                      IF m \in q THEN Pass(table, it[q \ {m}], s[m]) ELSE it[q]]
             F == [q \in SUBSET (1..m) |->
                    IF q = {} THEN b ELSE Pass(table, jt[q \ {Max(q)}], s[Max(q)])]
  <2>2. ASSUME NEW q \in SUBSET (1..m)
        PROVE  jt[q] = F[q]
    <3>1. CASE q = {}
      BY <2>1, <3>1
    <3>2. CASE q # {} /\ m \in q
      <4>1. Max(q) = m /\ q \ {m} \in SUBSET (1..m) /\ m \notin q \ {m}
        BY <3>2, MaxInPrefix
      <4>2. jt[q \ {m}] = it[q \ {m}]
        BY <4>1
      <4>3. QED
        BY <3>2, <4>1, <4>2
    <3>3. CASE q # {} /\ m \notin q
      <4>1. Max(q) \in q /\ q \ {Max(q)} \in SUBSET (1..m) /\ q \in SUBSET (1..(m - 1))
        BY <3>3, MaxInPrefix
      <4>2. jt[q \ {Max(q)}] = it[q \ {Max(q)}]
        BY <3>3, <4>1
      <4>3. it[q] = Pass(table, it[q \ {Max(q)}], s[Max(q)])
        BY <2>1, <3>3, <4>1
      <4>4. QED
        BY <3>3, <4>1, <4>2, <4>3
    <3>4. QED
      BY <3>1, <3>2, <3>3
  <2>3. Solves(jt, 1..m)
    <3>1. jt = [q \in SUBSET (1..m) |-> jt[q]] /\ F = [q \in SUBSET (1..m) |-> F[q]]
      OBVIOUS
    <3> HIDE DEF jt
    <3>2. jt = F
      <4> HIDE DEF F
      <4>1. QED
        BY <2>2, <3>1
    <3>3. QED
      BY <3>2
  <2> HIDE DEF Solves, jt
  <2>4. QED
    BY <2>3
<1>3. 9 \in Good
  <2> HIDE DEF Good
  <2>1. \A k \in 0..9 : k \in Good
    BY <1>1, <1>2, Induction
  <2>2. QED
    BY <2>1
<1> DEFINE fold == CHOOSE it : Solves(it, DOMAIN s)
<1>4. Solves(fold, 1..9)
  <2>1. \E it : Solves(it, DOMAIN s)
    BY <1>0, <1>3
  <2> HIDE DEF Solves
  <2>2. QED
    BY <1>0, <2>1
<1>5. Matched(table, probes) = fold[1..9]
  <2>1. Matched(table, probes) = fold[DOMAIN s]
    BY DEF Matched, FoldLeft, MapThenFoldSet
  <2>2. QED
    BY <1>0, <2>1
<1> DEFINE run == [k \in 0..9 |-> fold[1..k]]
<1>6. run[0] = b
  <2>1. 1..0 = {} /\ {} \in SUBSET (1..9)
    OBVIOUS
  <2>2. fold[{}] = b
    <3> HIDE DEF fold
    <3>1. QED
      BY <1>4, <2>1
  <2>3. QED
    BY <2>1, <2>2
<1>7. ASSUME NEW k \in 1..9
      PROVE  run[k] = Pass(table, run[k - 1], s[k])
  <2>1. 1..k \in SUBSET (1..9) /\ k \in 1..k
    OBVIOUS
  <2>2. Max(1..k) = k /\ (1..k) \ {Max(1..k)} = 1..(k - 1)
    BY MaxPrefix
  <2>3. fold[1..k] = Pass(table, fold[1..(k - 1)], s[k])
    <3> HIDE DEF fold
    <3>1. QED
      BY <1>4, <2>1, <2>2
  <2>4. QED
    BY <2>3
<1>8. run[9] = Matched(table, probes)
  BY <1>5
<1>9. QED
  <2> HIDE DEF fold, run
  <2>1. QED
    BY <1>6, <1>7, <1>8

\* The states that the search for duplicates goes through.
LEMMA DuplicatesRun ==
  ASSUME NEW table, NEW updated, NEW order, NEW n \in Nat, DOMAIN order = 1..n
  PROVE  \E run : /\ run[0] = NoDuplicates
                  /\ \A k \in 1..n : run[k] = Compare(table, updated, run[k - 1], order[k])
                  /\ run[n] = Duplicates(table, updated, order)
<1> DEFINE b == NoDuplicates
           s == order
           Solves(it, D) == it = [q \in SUBSET D |->
                    IF q = {} THEN b ELSE Compare(table, updated, it[q \ {Max(q)}], s[Max(q)])]
           Good == {m \in 0..n : \E it : Solves(it, 1..m)}
<1>1. 0 \in Good
  <2>1. Solves([q \in SUBSET (1..0) |-> b], 1..0)
    OBVIOUS
  <2> HIDE DEF Solves
  <2>2. QED
    BY <2>1
<1>2. ASSUME NEW m \in 1..n, m - 1 \in Good
      PROVE  m \in Good
  <2>1. PICK it : Solves(it, 1..(m - 1))
    BY <1>2
  <2> DEFINE jt == [q \in SUBSET (1..m) |->
                      IF m \in q THEN Compare(table, updated, it[q \ {m}], s[m]) ELSE it[q]]
             F == [q \in SUBSET (1..m) |->
                    IF q = {} THEN b ELSE Compare(table, updated, jt[q \ {Max(q)}], s[Max(q)])]
  <2>2. ASSUME NEW q \in SUBSET (1..m)
        PROVE  jt[q] = F[q]
    <3>1. CASE q = {}
      BY <2>1, <3>1
    <3>2. CASE q # {} /\ m \in q
      <4>1. Max(q) = m /\ q \ {m} \in SUBSET (1..m) /\ m \notin q \ {m}
        BY <3>2, MaxInPrefix
      <4>2. jt[q \ {m}] = it[q \ {m}]
        BY <4>1
      <4>3. QED
        BY <3>2, <4>1, <4>2
    <3>3. CASE q # {} /\ m \notin q
      <4>1. Max(q) \in q /\ q \ {Max(q)} \in SUBSET (1..m) /\ q \in SUBSET (1..(m - 1))
        BY <3>3, MaxInPrefix
      <4>2. jt[q \ {Max(q)}] = it[q \ {Max(q)}]
        BY <3>3, <4>1
      <4>3. it[q] = Compare(table, updated, it[q \ {Max(q)}], s[Max(q)])
        BY <2>1, <3>3, <4>1
      <4>4. QED
        BY <3>3, <4>1, <4>2, <4>3
    <3>4. QED
      BY <3>1, <3>2, <3>3
  <2>3. Solves(jt, 1..m)
    <3>1. jt = [q \in SUBSET (1..m) |-> jt[q]] /\ F = [q \in SUBSET (1..m) |-> F[q]]
      OBVIOUS
    <3> HIDE DEF jt
    <3>2. jt = F
      <4> HIDE DEF F
      <4>1. QED
        BY <2>2, <3>1
    <3>3. QED
      BY <3>2
  <2> HIDE DEF Solves, jt
  <2>4. QED
    BY <2>3
<1>3. n \in Good
  <2> HIDE DEF Good
  <2>1. \A k \in 0..n : k \in Good
    BY <1>1, <1>2, Induction
  <2>2. QED
    BY <2>1
<1> DEFINE fold == CHOOSE it : Solves(it, DOMAIN s)
<1>4. Solves(fold, 1..n)
  <2>1. \E it : Solves(it, DOMAIN s)
    BY <1>3
  <2> HIDE DEF Solves
  <2>2. QED
    BY <2>1
<1>5. Duplicates(table, updated, order) = fold[1..n]
  <2>1. Duplicates(table, updated, order) = fold[DOMAIN s]
    BY DEF Duplicates, FoldLeft, MapThenFoldSet
  <2>2. QED
    BY <2>1
<1> DEFINE run == [k \in 0..n |-> fold[1..k]]
<1>6. run[0] = b
  <2>1. 1..0 = {} /\ {} \in SUBSET (1..n)
    OBVIOUS
  <2>2. fold[{}] = b
    <3> HIDE DEF fold
    <3>1. QED
      BY <1>4, <2>1
  <2>3. QED
    BY <2>1, <2>2
<1>7. ASSUME NEW k \in 1..n
      PROVE  run[k] = Compare(table, updated, run[k - 1], s[k])
  <2>1. 1..k \in SUBSET (1..n) /\ k \in 1..k
    OBVIOUS
  <2>2. Max(1..k) = k /\ (1..k) \ {Max(1..k)} = 1..(k - 1)
    BY MaxPrefix
  <2>3. fold[1..k] = Compare(table, updated, fold[1..(k - 1)], s[k])
    <3> HIDE DEF fold
    <3>1. QED
      BY <1>4, <2>1, <2>2
  <2>4. QED
    BY <2>3
<1>8. run[n] = Duplicates(table, updated, order)
  BY <1>5
<1>9. QED
  <2> HIDE DEF fold, run
  <2>1. QED
    BY <1>6, <1>7, <1>8

-------------------------------------------------------------------------------
(* The rows of a table, in their order *)

Tables == [Ids -> Row \cup {Nothing}]

LEMMA RowOf ==
  ASSUME NEW table \in Tables, NEW i \in Existing(table)
  PROVE  i \in Ids /\ i \in Nat /\ table[i] \in Row
BY BoundsAssumption DEF Tables, Existing, Ids

\* The rank of a row: its user counts most, then how often it has been online, then whether it is.
Rank(table, i) ==
  (IF table[i].user # Nothing THEN 4000 ELSE 0) + 2 * OnlineTimes[i]
  + (IF table[i].identity.status = "ready" THEN 1 ELSE 0)

\* Ids and ranks are numbers.
LEMMA RanksAre ==
  ASSUME NEW table, NEW i \in Ids
  PROVE  i \in Nat /\ Rank(table, i) \in Nat
<1>1. i \in Nat
  BY BoundsAssumption DEF Ids
<1>2. OnlineTimes[i] \in Nat
  BY TimesAssumption
<1>3. QED
  BY <1>1, <1>2 DEF Rank

LEMMA PrecedesByRank ==
  ASSUME NEW table, NEW i \in Ids, NEW j \in Ids
  PROVE  Precedes(table, i, j) <=> \/ Rank(table, i) > Rank(table, j)
                                   \/ Rank(table, i) = Rank(table, j) /\ i > j
BY DEF Precedes, Rank

\* Of some rows there is one that comes last.
LEMMA LastRow ==
  ASSUME NEW table, NEW S, S \subseteq Ids, S # {}
  PROVE  \E m \in S : \A j \in S \ {m} : Precedes(table, j, m)
<1> DEFINE R == {Rank(table, i) : i \in S}
<1>1. R \subseteq Nat /\ R # {}
  <2>1. \A i \in S : Rank(table, i) \in Nat
    BY RanksAre
  <2>2. QED
    BY <2>1
<1>2. PICK r \in R : \A q \in R : r <= q
  <2> HIDE DEF R
  <2>1. QED
    BY <1>1, LeastExists
<1> DEFINE T == {i \in S : Rank(table, i) = r}
<1>3. T \subseteq Nat /\ T # {}
  <2>1. T \subseteq Ids /\ T # {}
    BY <1>2
  <2> HIDE DEF T
  <2>2. QED
    BY <2>1, RanksAre
<1>4. PICK m \in T : \A j \in T : m <= j
  <2> HIDE DEF T
  <2>1. QED
    BY <1>3, LeastExists
<1>5. m \in S /\ Rank(table, m) = r
  BY <1>4
<1>6. ASSUME NEW j \in S \ {m}
      PROVE  Precedes(table, j, m)
  <2>1. r <= Rank(table, j)
    BY <1>2
  <2>2. Rank(table, j) = r => m <= j
    BY <1>4
  <2>3. j \in Ids /\ m \in Ids /\ j # m
    BY <1>5
  <2>4. /\ j \in Nat /\ m \in Nat
        /\ Rank(table, j) \in Nat /\ Rank(table, m) \in Nat
    BY <2>3, RanksAre
  <2>5. Rank(table, j) > Rank(table, m) \/ (Rank(table, j) = Rank(table, m) /\ j > m)
    <3> HIDE DEF T, R
    <3>1. QED
      BY <1>5, <2>1, <2>2, <2>3, <2>4
  <2>6. QED
    BY <2>3, <2>5, PrecedesByRank
<1>7. QED
  BY <1>5, <1>6

\* The rows can be ordered.
Ordered(table, ids) == \A k, l \in DOMAIN ids : k < l => Precedes(table, ids[k], ids[l])

LEMMA OrderExists ==
  ASSUME NEW table, NEW E, E \subseteq Ids, IsFiniteSet(E)
  PROVE  \E ids \in [1..Cardinality(E) -> E] : Ordered(table, ids)
<1> DEFINE n == Cardinality(E)
           Can(S, m) == \E ids \in [1..m -> S] : Ordered(table, ids)
           Good == {m \in 0..n : \A S \in SUBSET E : Cardinality(S) = m => Can(S, m)}
<1>1. n \in Nat
  BY FS_CardinalityType
<1>2. 0 \in Good
  <2>1. ASSUME NEW S \in SUBSET E
        PROVE  Can(S, 0)
    <3>1. [k \in 1..0 |-> k] \in [1..0 -> S] /\ Ordered(table, [k \in 1..0 |-> k])
      BY DEF Ordered
    <3>2. QED
      BY <3>1
  <2> HIDE DEF Can, n
  <2>2. QED
    BY <1>1, <2>1
<1>3. ASSUME NEW m \in 1..n, m - 1 \in Good
      PROVE  m \in Good
  <2>1. ASSUME NEW S \in SUBSET E, Cardinality(S) = m
        PROVE  Can(S, m)
    <3>1. IsFiniteSet(S)
      BY FS_Subset
    <3>2. S # {} /\ S \subseteq Ids
      <4>1. m # 0
        OBVIOUS
      <4>2. QED
        BY <2>1, <4>1, FS_EmptySet
    <3>3. PICK z \in S : \A j \in S \ {z} : Precedes(table, j, z)
      BY <3>2, LastRow
    <3>4. Cardinality(S \ {z}) = m - 1
      BY <2>1, <3>1, FS_RemoveElement
    <3>5. Can(S \ {z}, m - 1)
      <4> HIDE DEF Can
      <4>1. QED
        BY <1>3, <3>4
    <3>6. PICK ids \in [1..(m - 1) -> S \ {z}] : Ordered(table, ids)
      BY <3>5
    <3> DEFINE jds == [k \in 1..m |-> IF k = m THEN z ELSE ids[k]]
    <3>7. m \in Nat /\ m # 0
      BY <1>1
    <3>8. \A k \in 1..m : k # m => k \in 1..(m - 1)
      BY <3>7
    <3>9. jds \in [1..m -> S]
      BY <3>8
    <3>10. ASSUME NEW k \in 1..m, NEW l \in 1..m, k < l
           PROVE  Precedes(table, jds[k], jds[l])
      <4>1. k \in 1..(m - 1) /\ jds[k] = ids[k]
        BY <3>7, <3>10
      <4>2. CASE l = m
        BY <3>3, <4>1, <4>2
      <4>3. CASE l # m
        <5>1. l \in 1..(m - 1) /\ jds[l] = ids[l]
          BY <3>8, <4>3
        <5>2. QED
          BY <3>6, <3>10, <4>1, <5>1 DEF Ordered
      <4>4. QED
        BY <4>2, <4>3
    <3>11. Ordered(table, jds)
      BY <3>10 DEF Ordered
    <3>12. QED
      BY <3>9, <3>11
  <2> HIDE DEF Can, n
  <2>2. QED
    BY <1>1, <2>1
<1>4. n \in Good
  <2> HIDE DEF Good, n
  <2>1. \A k \in 0..n : k \in Good
    BY <1>1, <1>2, <1>3, Induction
  <2>2. QED
    BY <1>1, <2>1
<1>5. E \in SUBSET E /\ Can(E, n)
  <2> HIDE DEF Can
  <2>1. QED
    BY <1>4
<1>6. QED
  BY <1>5

\* The rows of a table, each of them once.
LEMMA DProbesIsOrder ==
  ASSUME NEW table \in Tables
  PROVE  /\ DProbes(table) \in [1..Cardinality(Existing(table)) -> Existing(table)]
         /\ Cardinality(Existing(table)) \in Nat
         /\ IsInjective(DProbes(table))
         /\ ToSet(DProbes(table)) = Existing(table)
<1> DEFINE E == Existing(table)
           n == Cardinality(E)
           d == DProbes(table)
<1>1. E \subseteq Ids /\ E \subseteq Nat /\ IsFiniteSet(E)
  <2>1. E \subseteq Ids /\ Ids \subseteq Nat
    BY BoundsAssumption DEF Existing, Ids
  <2>2. IsFiniteSet(Ids)
    BY BoundsAssumption, FS_Interval DEF Ids
  <2>3. QED
    BY <2>1, <2>2, FS_Subset
<1>2. n \in Nat
  BY <1>1, FS_CardinalityType
<1>3. d \in [1..n -> E] /\ Ordered(table, d)
  <2>1. \E ids \in [1..n -> E] : Ordered(table, ids)
    BY <1>1, OrderExists
  <2>2. d = CHOOSE ids \in [1..n -> E] : Ordered(table, ids)
    BY DEF DProbes, Ordered
  <2>3. QED
    BY <2>1, <2>2
<1>4. ASSUME NEW k \in 1..n, NEW l \in 1..n, k # l
      PROVE  d[k] # d[l]
  <2>1. \A i \in Ids : ~Precedes(table, i, i)
    BY PrecedesByRank, RanksAre
  <2>2. d[k] \in Ids /\ d[l] \in Ids
    BY <1>1, <1>3
  <2>3. Precedes(table, d[k], d[l]) \/ Precedes(table, d[l], d[k])
    <3>1. k < l \/ l < k
      BY <1>2, <1>4
    <3>2. QED
      BY <1>3, <3>1 DEF Ordered
  <2>4. QED
    BY <2>1, <2>2, <2>3
<1>5. IsInjective(d)
  BY <1>3, <1>4 DEF IsInjective
<1>6. ASSUME NEW t \in E
      PROVE  t \in ToSet(d)
  <2>1. SUFFICES ASSUME t \notin ToSet(d)
                 PROVE  FALSE
    BY <2>1
  <2>2. d \in [1..n -> E \ {t}]
    BY <1>3, <2>1 DEF ToSet
  <2>3. IsFiniteSet(E \ {t}) /\ Cardinality(E \ {t}) = n - 1
    BY <1>1, FS_RemoveElement
  <2>4. IsFiniteSet(1..n) /\ Cardinality(1..n) = n
    BY <1>2, FS_Interval
  <2>5. n - 1 < n
    BY <1>2
  <2>6. \E x, y \in 1..n : x # y /\ d[x] = d[y]
    <3> HIDE DEF d, n
    <3>1. QED
      BY <2>2, <2>3, <2>4, <2>5, FS_PigeonHole
  <2>7. QED
    BY <1>4, <2>6
<1>7. ToSet(d) \subseteq E
  BY <1>3 DEF ToSet
<1>8. QED
  BY <1>2, <1>3, <1>5, <1>6, <1>7

-------------------------------------------------------------------------------
(* The maps *)

\* Finitely many naturals are bounded.
LEMMA FiniteIsBounded ==
  ASSUME NEW E, E \subseteq Nat, IsFiniteSet(E)
  PROVE  \E b \in Nat : \A e \in E : e <= b
<1> DEFINE n == Cardinality(E)
           Bounded(S) == \E b \in Nat : \A e \in S : e <= b
           Good == {m \in 0..n : \A S \in SUBSET E : Cardinality(S) = m => Bounded(S)}
<1>1. n \in Nat
  BY FS_CardinalityType
<1>2. 0 \in Good
  <2>1. ASSUME NEW S \in SUBSET E, Cardinality(S) = 0
        PROVE  Bounded(S)
    <3>1. S = {}
      BY <2>1, FS_Subset, FS_EmptySet
    <3>2. QED
      BY <3>1
  <2> HIDE DEF Bounded, n
  <2>2. QED
    BY <1>1, <2>1
<1>3. ASSUME NEW m \in 1..n, m - 1 \in Good
      PROVE  m \in Good
  <2>1. ASSUME NEW S \in SUBSET E, Cardinality(S) = m
        PROVE  Bounded(S)
    <3>1. IsFiniteSet(S)
      BY FS_Subset
    <3>2. S # {}
      <4>1. m # 0
        OBVIOUS
      <4>2. QED
        BY <2>1, <4>1, FS_EmptySet
    <3>3. PICK z : z \in S
      BY <3>2
    <3>4. Cardinality(S \ {z}) = m - 1
      BY <2>1, <3>1, <3>3, FS_RemoveElement
    <3>5. Bounded(S \ {z})
      <4> HIDE DEF Bounded
      <4>1. QED
        BY <1>3, <3>4
    <3>6. PICK b \in Nat : \A e \in S \ {z} : e <= b
      BY <3>5
    <3>7. z \in Nat /\ \A e \in S : e \in Nat /\ e <= b + z
      BY <3>3, <3>6
    <3>8. QED
      BY <3>7
  <2> HIDE DEF Bounded, n
  <2>2. QED
    BY <1>1, <2>1
<1>4. n \in Good
  <2> HIDE DEF Good, n
  <2>1. \A k \in 0..n : k \in Good
    BY <1>1, <1>2, <1>3, Induction
  <2>2. QED
    BY <1>1, <2>1
<1>5. E \in SUBSET E
  OBVIOUS
<1>6. QED
  BY <1>4, <1>5

\* A key of a map leads to a probe that has this key.
LEMMA KeyMapFinds ==
  ASSUME NEW U \in SUBSET Probes, NEW keys, DOMAIN keys = U
  PROVE  /\ DOMAIN KeyMap(keys) = UNION {keys[p] : p \in U}
         /\ \A k \in DOMAIN KeyMap(keys) : KeyMap(keys)[k] \in U /\ k \in keys[KeyMap(keys)[k]]
<1>1. DOMAIN KeyMap(keys) = UNION {keys[p] : p \in U}
  BY DEF KeyMap
<1>2. ASSUME NEW k \in DOMAIN KeyMap(keys)
      PROVE  KeyMap(keys)[k] \in U /\ k \in keys[KeyMap(keys)[k]]
  <2> DEFINE ps == {p \in U : k \in keys[p]}
  <2>1. ps # {} /\ ps \subseteq Nat
    BY <1>1, DataAssumption
  <2>2. PICK b \in Nat : \A p \in Probes : p <= b
    BY DataAssumption, FiniteIsBounded
  <2>3. \E p \in ps : \A q \in ps : p >= q
    <3>1. \A p \in ps : p <= b
      BY <2>2
    <3> HIDE DEF ps
    <3>2. QED
      BY <2>1, <3>1, GreatestExists
  <2>4. \E p \in ps : \A q \in ps : q <= p
    <3>1. ps \subseteq Nat
      BY <2>1
    <3> HIDE DEF ps
    <3>2. QED
      BY <2>3, <3>1
  <2>5. KeyMap(keys)[k] = CHOOSE p \in ps : \A q \in ps : q <= p
    BY <1>1 DEF KeyMap
  <2>6. KeyMap(keys)[k] \in ps
    <3> HIDE DEF ps
    <3>1. QED
      BY <2>4, <2>5
  <2>7. QED
    BY <2>6
<1>3. QED
  BY <1>1, <1>2

\* The maps hold probes of U that are not taken, at their own keys; and all of them, by their
\* IPs, and by their uuids if they do not share these.
Alone(p, U) == \A q \in U : q # p => Data[q].uuid # Data[p].uuid

MapsHold(maps, U, taken) ==
  /\ \A u \in DOMAIN maps.uuid : maps.uuid[u] \in U \ taken /\ Data[maps.uuid[u]].uuid = u
  /\ \A a \in DOMAIN maps.ip : maps.ip[a] \in U \ taken /\ Data[maps.ip[a]].ip = a
  /\ \A a \in DOMAIN maps.alt : maps.alt[a] \in U \ taken /\ a \in Data[maps.alt[a]].alts
  /\ \A p \in U \ taken : Data[p].ip \in DOMAIN maps.ip
  /\ \A p \in U \ taken : Alone(p, U) => Data[p].uuid \in DOMAIN maps.uuid

OneByIp(U) == \A p, q \in U : Data[p].ip = Data[q].ip => p = q

LEMMA UniqueIsOneByIp ==
  ASSUME NEW probes \in SUBSET Probes
  PROVE  Unique(probes) \in SUBSET probes /\ OneByIp(Unique(probes))
<1>1. ASSUME NEW p \in Unique(probes), NEW q \in Unique(probes), Data[p].ip = Data[q].ip
      PROVE  p = q
  <2>1. p <= q /\ q <= p /\ p \in Nat /\ q \in Nat
    BY <1>1, DataAssumption DEF Unique
  <2>2. QED
    BY <2>1
<1>2. QED
  BY <1>1 DEF OneByIp, Unique

LEMMA MapsAtFirst ==
  ASSUME NEW U \in SUBSET Probes
  PROVE  MapsHold(Maps(U), U, {})
<1> DEFINE byUuid == [p \in U |-> {Data[p].uuid}]
           byIp == [p \in U |-> {Data[p].ip}]
           byAlt == [p \in U |-> Data[p].alts]
<1>1. Maps(U).uuid = KeyMap(byUuid) /\ Maps(U).ip = KeyMap(byIp) /\ Maps(U).alt = KeyMap(byAlt)
  BY DEF Maps
<1>2. /\ DOMAIN KeyMap(byUuid) = UNION {byUuid[p] : p \in U}
      /\ \A k \in DOMAIN KeyMap(byUuid) : KeyMap(byUuid)[k] \in U /\ k \in byUuid[KeyMap(byUuid)[k]]
  <2>1. DOMAIN byUuid = U
    OBVIOUS
  <2> HIDE DEF byUuid
  <2>2. QED
    BY <2>1, KeyMapFinds
<1>3. /\ DOMAIN KeyMap(byIp) = UNION {byIp[p] : p \in U}
      /\ \A k \in DOMAIN KeyMap(byIp) : KeyMap(byIp)[k] \in U /\ k \in byIp[KeyMap(byIp)[k]]
  <2>1. DOMAIN byIp = U
    OBVIOUS
  <2> HIDE DEF byIp
  <2>2. QED
    BY <2>1, KeyMapFinds
<1>4. \A k \in DOMAIN KeyMap(byAlt) : KeyMap(byAlt)[k] \in U /\ k \in byAlt[KeyMap(byAlt)[k]]
  <2>1. DOMAIN byAlt = U
    OBVIOUS
  <2> HIDE DEF byAlt
  <2>2. QED
    BY <2>1, KeyMapFinds
<1>5. \A u \in DOMAIN KeyMap(byUuid) :
        KeyMap(byUuid)[u] \in U /\ Data[KeyMap(byUuid)[u]].uuid = u
  BY <1>2
<1>6. \A a \in DOMAIN KeyMap(byIp) : KeyMap(byIp)[a] \in U /\ Data[KeyMap(byIp)[a]].ip = a
  BY <1>3
<1>7. \A a \in DOMAIN KeyMap(byAlt) : KeyMap(byAlt)[a] \in U /\ a \in Data[KeyMap(byAlt)[a]].alts
  BY <1>4
<1>8. \A p \in U : Data[p].uuid \in DOMAIN KeyMap(byUuid) /\ Data[p].ip \in DOMAIN KeyMap(byIp)
  BY <1>2, <1>3
<1>9. QED
  <2> HIDE DEF byUuid, byIp, byAlt
  <2>1. QED
    BY <1>1, <1>5, <1>6, <1>7, <1>8 DEF MapsHold

\* What one map has after another.
Within(m1, m0) == DOMAIN m1 \subseteq DOMAIN m0 /\ \A k \in DOMAIN m1 : m1[k] = m0[k]

MapsWithin(n, m) == Within(n.uuid, m.uuid) /\ Within(n.ip, m.ip) /\ Within(n.alt, m.alt)

LEMMA TakeHolds ==
  ASSUME NEW U \in SUBSET Probes, OneByIp(U), NEW taken, NEW maps, MapsHold(maps, U, taken),
         NEW p \in U \ taken
  PROVE  MapsHold(Take(maps, p), U, taken \cup {p}) /\ MapsWithin(Take(maps, p), maps)
<1> DEFINE t == Take(maps, p)
<1>1. /\ DOMAIN t.uuid = DOMAIN maps.uuid \ {Data[p].uuid}
      /\ DOMAIN t.ip = DOMAIN maps.ip \ {Data[p].ip}
      /\ DOMAIN t.alt = DOMAIN maps.alt \ Data[p].alts
      /\ \A k \in DOMAIN t.uuid : t.uuid[k] = maps.uuid[k]
      /\ \A k \in DOMAIN t.ip : t.ip[k] = maps.ip[k]
      /\ \A k \in DOMAIN t.alt : t.alt[k] = maps.alt[k]
  BY DEF Take, Without
<1>2. MapsWithin(t, maps)
  BY <1>1 DEF MapsWithin, Within
<1> HIDE DEF t
<1>3. \A u \in DOMAIN t.uuid : t.uuid[u] \in U \ (taken \cup {p}) /\ Data[t.uuid[u]].uuid = u
  BY <1>1 DEF MapsHold
<1>4. \A a \in DOMAIN t.ip : t.ip[a] \in U \ (taken \cup {p}) /\ Data[t.ip[a]].ip = a
  BY <1>1 DEF MapsHold
<1>5. \A a \in DOMAIN t.alt : t.alt[a] \in U \ (taken \cup {p}) /\ a \in Data[t.alt[a]].alts
  BY <1>1 DEF MapsHold
<1>6. \A q \in U \ (taken \cup {p}) : Data[q].ip \in DOMAIN t.ip
  BY <1>1 DEF MapsHold, OneByIp
<1>7. \A q \in U \ (taken \cup {p}) : Alone(q, U) => Data[q].uuid \in DOMAIN t.uuid
  BY <1>1 DEF MapsHold, Alone
<1>8. QED
  BY <1>2, <1>3, <1>4, <1>5, <1>6, <1>7 DEF MapsHold, t

LEMMA WithinTransitive ==
  ASSUME NEW m1, NEW m2, NEW m3, MapsWithin(m2, m1), MapsWithin(m3, m2)
  PROVE  MapsWithin(m3, m1)
BY DEF MapsWithin, Within

\* What a row finds is a probe that is not taken.
Ways == {"uuid", "ip", "alt", "rowAlts", "token"}

LEMMA FindFinds ==
  ASSUME NEW U \in SUBSET Probes, NEW taken, NEW maps, MapsHold(maps, U, taken),
         NEW row \in Row, NEW way \in Ways
  PROVE  /\ Find(way, maps, row) # Nothing => Find(way, maps, row) \in U \ taken
         /\ way = "uuid" /\ Find(way, maps, row) = Nothing
              => row.identity.uuid \notin DOMAIN maps.uuid
         /\ way = "ip" /\ Find(way, maps, row) = Nothing
              => row.identity.ip \notin DOMAIN maps.ip
<1>1. Nothing \notin U
  BY NothingAssumption
<1>2. CASE way = "uuid"
  <2>1. Find(way, maps, row) = FindByUuid(maps, row)
    BY <1>2 DEF Find
  <2>2. QED
    BY <1>1, <1>2, <2>1 DEF FindByUuid, Lookup, MapsHold
<1>3. CASE way = "ip"
  <2>1. Find(way, maps, row) = FindByIp(maps, row)
    BY <1>3 DEF Find
  <2>2. QED
    BY <1>1, <1>3, <2>1 DEF FindByIp, Lookup, MapsHold
<1>4. CASE way = "alt"
  <2>1. Find(way, maps, row) = FindByAlt(maps, row)
    BY <1>4 DEF Find
  <2>2. QED
    BY <1>1, <1>4, <2>1 DEF FindByAlt, Lookup, MapsHold
<1>5. CASE way = "rowAlts"
  <2>1. Find(way, maps, row) = FindByRowAlts(maps, row)
    BY <1>5 DEF Find
  <2> DEFINE found(ip) == IF ip \in DOMAIN maps.ip THEN maps.ip[ip] ELSE Lookup(maps.alt, ip)
             hits == {ip \in row.identity.alts : found(ip) # Nothing}
  <2>2. \A ip \in hits : found(ip) \in U \ taken
    BY DEF Lookup, MapsHold
  <2>3. FindByRowAlts(maps, row) = IF hits = {} THEN Nothing ELSE found(CHOOSE ip \in hits : TRUE)
    BY DEF FindByRowAlts
  <2>4. hits # {} => (CHOOSE ip \in hits : TRUE) \in hits
    <3> HIDE DEF hits
    <3>1. QED
      OBVIOUS
  <2>5. QED
    <3> HIDE DEF hits, found
    <3>1. QED
      BY <1>5, <2>1, <2>2, <2>3, <2>4
<1>6. CASE way = "token"
  <2>1. Find(way, maps, row) = FindByToken(maps, row)
    BY <1>6 DEF Find
  <2> DEFINE fits == {p \in {maps.uuid[u] : u \in DOMAIN maps.uuid} :
                        /\ row.user # Nothing /\ Data[p].token = row.user
                        /\ row.identity.status = "offline" /\ Data[p].place = row.identity.place}
  <2>2. fits \subseteq U \ taken
    BY DEF MapsHold
  <2>3. FindByToken(maps, row)
          = IF fits = {} THEN Nothing ELSE CHOOSE p \in fits : \A q \in fits : p <= q
    BY DEF FindByToken
  <2>4. fits # {} => (CHOOSE p \in fits : \A q \in fits : p <= q) \in fits
    <3>1. fits \subseteq Nat
      BY <2>2, DataAssumption
    <3> HIDE DEF fits
    <3>2. QED
      BY <3>1, LeastExists
  <2>5. QED
    <3> HIDE DEF fits
    <3>1. QED
      BY <1>6, <2>1, <2>2, <2>3, <2>4
<1>7. QED
  BY <1>2, <1>3, <1>4, <1>5, <1>6 DEF Ways

-------------------------------------------------------------------------------
(* The passes *)

RowsIn(pairs) == {pairs[k][1] : k \in DOMAIN pairs}
ProbesIn(pairs) == {pairs[k][2] : k \in DOMAIN pairs}

\* The rows are matched, left, or still to come, and no row and no probe is matched twice.
Sound(table, U, s, rest) ==
  /\ s = [pairs |-> s.pairs, left |-> s.left, maps |-> s.maps]
  /\ s.pairs \in Seq(Existing(table) \X U)
  /\ s.left \in Seq(Existing(table))
  /\ IsInjective(s.left)
  /\ \A k, l \in DOMAIN s.pairs : k # l =>
       s.pairs[k][1] # s.pairs[l][1] /\ s.pairs[k][2] # s.pairs[l][2]
  /\ RowsIn(s.pairs) \cap ToSet(s.left) = {}
  /\ RowsIn(s.pairs) \cap rest = {}
  /\ ToSet(s.left) \cap rest = {}
  /\ RowsIn(s.pairs) \cup ToSet(s.left) \cup rest = Existing(table)
  /\ MapsHold(s.maps, U, ProbesIn(s.pairs))

\* The rows whose user is known.
Owned(table, i) == table[i].user # Nothing

\* The uuid or the IP of no adopted row of these leads to a probe.
UuidsGone(table, ids, maps) ==
  \A j \in ids : Owned(table, j) => table[j].identity.uuid \notin DOMAIN maps.uuid
IpsGone(table, ids, maps) ==
  \A j \in ids : Owned(table, j) => table[j].identity.ip \notin DOMAIN maps.ip

\* What a pass that begins in one state has done in another.
Progress(table, U, state, pass, s) ==
  /\ ToSet(s.left) \subseteq ToSet(state.left)
  /\ MapsWithin(s.maps, state.maps)
  /\ pass.way = "uuid" => UuidsGone(table, ToSet(s.left), s.maps)
  /\ pass.way = "ip" => IpsGone(table, ToSet(s.left), s.maps)
  /\ ProbesIn(state.pairs) \subseteq ProbesIn(s.pairs)
  /\ \A k \in DOMAIN s.pairs :
       \/ \E l \in DOMAIN state.pairs : s.pairs[k] = state.pairs[l]
       \/ /\ Eligible(pass, table[s.pairs[k][1]])
          /\ s.pairs[k][2] \notin ProbesIn(state.pairs)

\* One sequence is another with one more element.
Extends(new, old, x) ==
  /\ Len(old) \in Nat /\ DOMAIN old = 1..Len(old)
  /\ Len(new) = Len(old) + 1 /\ DOMAIN new = 1..(Len(old) + 1)
  /\ new[Len(old) + 1] = x
  /\ \A k \in 1..Len(old) : new[k] = old[k]

LEMMA AppendPair ==
  ASSUME NEW W, NEW pairs \in Seq(W), NEW x,
         NEW new \in Seq(W), Extends(new, pairs, x)
  PROVE  /\ new \in Seq(W)
         /\ \A k \in DOMAIN new : \/ k \in DOMAIN pairs /\ new[k] = pairs[k]
                                  \/ k = Len(new) /\ new[k] = x
         /\ \A k \in DOMAIN pairs : k \in DOMAIN new /\ new[k] = pairs[k]
         /\ Len(new) \in DOMAIN new /\ Len(new) \notin DOMAIN pairs
         /\ new[Len(new)] = x
         /\ RowsIn(new) = RowsIn(pairs) \cup {x[1]}
         /\ ProbesIn(new) = ProbesIn(pairs) \cup {x[2]}
<1> DEFINE n == Len(pairs)
<1>1. /\ new \in Seq(W) /\ Len(new) = n + 1 /\ DOMAIN new = 1..(n + 1) /\ DOMAIN pairs = 1..n
      /\ n \in Nat /\ new[n + 1] = x /\ \A k \in 1..n : new[k] = pairs[k]
  BY DEF Extends
<1> HIDE DEF n
<1>2. \A k \in DOMAIN new : \/ k \in DOMAIN pairs /\ new[k] = pairs[k]
                            \/ k = Len(new) /\ new[k] = x
  BY <1>1
<1>3. \A k \in DOMAIN pairs : k \in DOMAIN new /\ new[k] = pairs[k]
  BY <1>1
<1>4. Len(new) \in DOMAIN new /\ Len(new) \notin DOMAIN pairs /\ new[Len(new)] = x
  BY <1>1
<1>5. RowsIn(new) = RowsIn(pairs) \cup {x[1]}
  BY <1>2, <1>3, <1>4 DEF RowsIn
<1>6. ProbesIn(new) = ProbesIn(pairs) \cup {x[2]}
  BY <1>2, <1>3, <1>4 DEF ProbesIn
<1>7. QED
  BY <1>1, <1>2, <1>3, <1>4, <1>5, <1>6

LEMMA AppendRow ==
  ASSUME NEW A, NEW ids \in Seq(A), NEW i \in A, IsInjective(ids), i \notin ToSet(ids),
         NEW new \in Seq(A), Extends(new, ids, i)
  PROVE  new \in Seq(A) /\ IsInjective(new) /\ ToSet(new) = ToSet(ids) \cup {i}
<1> DEFINE n == Len(ids)
<1>1. /\ new \in Seq(A) /\ DOMAIN new = 1..(n + 1) /\ DOMAIN ids = 1..n
      /\ n \in Nat /\ new[n + 1] = i /\ \A k \in 1..n : new[k] = ids[k]
  BY DEF Extends
<1> HIDE DEF n
<1>2. ToSet(new) = ToSet(ids) \cup {i}
  <2>1. \A k \in DOMAIN new : (k \in DOMAIN ids /\ new[k] = ids[k]) \/ new[k] = i
    BY <1>1
  <2>2. \A k \in DOMAIN ids : k \in DOMAIN new /\ new[k] = ids[k]
    BY <1>1
  <2>3. n + 1 \in DOMAIN new /\ new[n + 1] = i
    BY <1>1
  <2>4. QED
    BY <2>1, <2>2, <2>3 DEF ToSet
<1>3. IsInjective(new)
  <2>1. \A k \in DOMAIN new : (k \in DOMAIN ids /\ new[k] = ids[k]) \/ (k = n + 1 /\ new[k] = i)
    BY <1>1
  <2>2. \A k \in DOMAIN ids : ids[k] # i
    BY DEF ToSet
  <2>3. QED
    BY <2>1, <2>2 DEF IsInjective
<1>4. QED
  BY <1>1, <1>2, <1>3

\* A row that comes next is matched or left.
LEMMA MatchRowSound ==
  ASSUME NEW table \in Tables, NEW U \in SUBSET Probes, OneByIp(U),
         NEW state, NEW pass, pass.way \in Ways, NEW s, NEW rest, NEW i \in rest,
         i \in ToSet(state.left),
         Sound(table, U, s, rest), Progress(table, U, state, pass, s)
  PROVE  /\ Sound(table, U, MatchRow(table, pass, s, i), rest \ {i})
         /\ Progress(table, U, state, pass, MatchRow(table, pass, s, i))
<1> DEFINE p == IF Eligible(pass, table[i]) THEN Find(pass.way, s.maps, table[i]) ELSE Nothing
           t == MatchRow(table, pass, s, i)
           taken == ProbesIn(s.pairs)
           E == Existing(table)
<1>1. i \in E /\ i \notin ToSet(s.left) /\ i \notin RowsIn(s.pairs) /\ table[i] \in Row
  <2>1. i \in E /\ i \notin ToSet(s.left) /\ i \notin RowsIn(s.pairs)
    BY DEF Sound
  <2>2. QED
    BY <2>1, RowOf
<1>2. s = [pairs |-> s.pairs, left |-> s.left, maps |-> s.maps]
  BY DEF Sound
<1>3. MapsHold(s.maps, U, taken)
  BY DEF Sound
<1> DEFINE found == Find(pass.way, s.maps, table[i])
<1>6. /\ found # Nothing => found \in U \ taken
      /\ pass.way = "uuid" /\ found = Nothing => table[i].identity.uuid \notin DOMAIN s.maps.uuid
      /\ pass.way = "ip" /\ found = Nothing => table[i].identity.ip \notin DOMAIN s.maps.ip
  <2>1. table[i] \in Row /\ pass.way \in Ways
    BY <1>1
  <2>2. QED
    <3> DEFINE m == s.maps
               w == pass.way
               r == table[i]
               f == Find(w, m, r)
    <3>1. r \in Row /\ w \in Ways /\ MapsHold(m, U, taken)
      BY <1>3, <2>1
    <3> HIDE DEF m, w, r, taken
    <3>2. f # Nothing => f \in U \ taken
      BY <3>1, FindFinds
    <3>3. w = "uuid" /\ f = Nothing => r.identity.uuid \notin DOMAIN m.uuid
      BY <3>1, FindFinds
    <3>4. w = "ip" /\ f = Nothing => r.identity.ip \notin DOMAIN m.ip
      BY <3>1, FindFinds
    <3>5. QED
      BY <3>2, <3>3, <3>4 DEF m, w, r
<1>4. CASE p = Nothing
  <2>1. t = [s EXCEPT !.left = Append(@, i)]
    BY <1>4 DEF MatchRow
  <2>2. t = [pairs |-> s.pairs, left |-> Append(s.left, i), maps |-> s.maps]
    BY <1>2, <2>1
  <2>3. t.pairs = s.pairs /\ t.left = Append(s.left, i) /\ t.maps = s.maps
    BY <2>2
  <2>4. s.left \in Seq(E) /\ IsInjective(s.left)
    BY DEF Sound
  <2>5. t.left \in Seq(E) /\ IsInjective(t.left) /\ ToSet(t.left) = ToSet(s.left) \cup {i}
    <3> DEFINE ids == s.left
               new == t.left
    <3>1. ids \in Seq(E)
      BY <2>4
    <3>2. i \in E
      BY <1>1
    <3>3. IsInjective(ids)
      BY <2>4
    <3>4. i \notin ToSet(ids)
      BY <1>1
    <3>5. new = Append(ids, i)
      BY <2>3
    <3> HIDE DEF ids, new, t, p, E
    <3>8. new \in Seq(E) /\ Extends(new, ids, i)
      BY <3>1, <3>2, <3>5 DEF Extends
    <3>6. new \in Seq(E) /\ IsInjective(new) /\ ToSet(new) = ToSet(ids) \cup {i}
      BY <3>1, <3>2, <3>3, <3>4, <3>8, AppendRow
    <3>7. QED
      BY <3>6 DEF ids, new
  <2>6. Sound(table, U, t, rest \ {i})
    <3>1. t = [pairs |-> t.pairs, left |-> t.left, maps |-> t.maps]
      BY <2>2
    <3> HIDE DEF t, p
    <3>2. QED
      BY <1>1, <2>3, <2>5, <3>1 DEF Sound
  <2>7. Owned(table, i) => Find(pass.way, s.maps, table[i]) = Nothing
    BY <1>4 DEF Owned, Eligible
  <2>8. pass.way = "uuid" => UuidsGone(table, ToSet(t.left), t.maps)
    <3>1. pass.way = "uuid" /\ Owned(table, i) => table[i].identity.uuid \notin DOMAIN s.maps.uuid
      BY <1>6, <2>7
    <3> HIDE DEF t, p
    <3>2. QED
      BY <2>3, <2>5, <3>1 DEF UuidsGone, Progress
  <2>9. pass.way = "ip" => IpsGone(table, ToSet(t.left), t.maps)
    <3>1. pass.way = "ip" /\ Owned(table, i) => table[i].identity.ip \notin DOMAIN s.maps.ip
      BY <1>6, <2>7
    <3> HIDE DEF t, p
    <3>2. QED
      BY <2>3, <2>5, <3>1 DEF IpsGone, Progress
  <2>10. Progress(table, U, state, pass, t)
    <3> HIDE DEF t, p
    <3>1. QED
      BY <2>3, <2>5, <2>8, <2>9 DEF Progress
  <2>11. QED
    BY <2>6, <2>10
<1>5. CASE p # Nothing
  <2>1. Eligible(pass, table[i]) /\ p = Find(pass.way, s.maps, table[i])
    BY <1>5
  <2>2. p \in U \ taken
    BY <1>5, <1>6, <2>1
  <2>3. t = [s EXCEPT !.pairs = Append(@, <<i, p>>), !.maps = Take(@, p)]
    BY <1>5 DEF MatchRow
  <2>4. t = [pairs |-> Append(s.pairs, <<i, p>>), left |-> s.left, maps |-> Take(s.maps, p)]
    BY <1>2, <2>3
  <2>5. t.pairs = Append(s.pairs, <<i, p>>) /\ t.left = s.left /\ t.maps = Take(s.maps, p)
    BY <2>4
  <2>6. t = [pairs |-> t.pairs, left |-> t.left, maps |-> t.maps]
    BY <2>4
  <2>7. s.pairs \in Seq(E \X U)
    BY DEF Sound
  <2> HIDE DEF p, t, E, taken
  <2>8. /\ t.pairs \in Seq(E \X U)
        /\ \A k \in DOMAIN t.pairs : \/ k \in DOMAIN s.pairs /\ t.pairs[k] = s.pairs[k]
                                     \/ k = Len(t.pairs) /\ t.pairs[k] = <<i, p>>
        /\ RowsIn(t.pairs) = RowsIn(s.pairs) \cup {i}
        /\ ProbesIn(t.pairs) = taken \cup {p}
    <3> DEFINE pairs == s.pairs
               new == t.pairs
               x == <<i, p>>
               W == E \X U
    <3>1. pairs \in Seq(E \X U)
      BY <2>7
    <3>2. i \in E
      BY <1>1
    <3>3. p \in U
      BY <2>2
    <3>4. new = Append(pairs, <<i, p>>)
      BY <2>5
    <3> HIDE DEF pairs, new
    <3>5. pairs \in Seq(W) /\ new \in Seq(W) /\ Extends(new, pairs, x)
      BY <3>1, <3>2, <3>3, <3>4 DEF Extends
    <3>6. x[1] = i /\ x[2] = p
      OBVIOUS
    <3> HIDE DEF x, W
    <3>7. /\ \A k \in DOMAIN new : \/ k \in DOMAIN pairs /\ new[k] = pairs[k]
                                   \/ k = Len(new) /\ new[k] = x
          /\ RowsIn(new) = RowsIn(pairs) \cup {x[1]}
          /\ ProbesIn(new) = ProbesIn(pairs) \cup {x[2]}
      BY <3>5, AppendPair
    <3>8. QED
      BY <3>5, <3>6, <3>7 DEF pairs, new, x, W, taken
  <2>9. MapsHold(t.maps, U, taken \cup {p}) /\ MapsWithin(t.maps, s.maps)
    BY <1>3, <2>2, <2>5, TakeHolds
  <2>10. \A k, l \in DOMAIN t.pairs : k # l =>
           t.pairs[k][1] # t.pairs[l][1] /\ t.pairs[k][2] # t.pairs[l][2]
    <3>1. \A k \in DOMAIN s.pairs : s.pairs[k][1] # i /\ s.pairs[k][2] # p
      BY <1>1, <2>2 DEF RowsIn, ProbesIn, taken
    <3>2. \A k, l \in DOMAIN s.pairs : k # l =>
            s.pairs[k][1] # s.pairs[l][1] /\ s.pairs[k][2] # s.pairs[l][2]
      BY DEF Sound
    <3>3. QED
      BY <2>8, <3>1, <3>2
  <2>11. Sound(table, U, t, rest \ {i})
    <3>1. t.left = s.left
      BY <2>5
    <3>2. /\ t.left \in Seq(E) /\ IsInjective(t.left)
          /\ RowsIn(t.pairs) \cap ToSet(t.left) = {}
          /\ RowsIn(t.pairs) \cap (rest \ {i}) = {}
          /\ ToSet(t.left) \cap (rest \ {i}) = {}
          /\ RowsIn(t.pairs) \cup ToSet(t.left) \cup (rest \ {i}) = E
      BY <1>1, <2>8, <3>1 DEF Sound, E
    <3>3. MapsHold(t.maps, U, ProbesIn(t.pairs))
      BY <2>8, <2>9
    <3>4. QED
      BY <2>6, <2>8, <2>10, <3>2, <3>3 DEF Sound, E
  <2>12. Progress(table, U, state, pass, t)
    <3>1. ToSet(t.left) \subseteq ToSet(state.left)
      BY <2>5 DEF Progress
    <3>2. MapsWithin(t.maps, state.maps)
      BY <2>9, WithinTransitive DEF Progress
    <3>3. pass.way = "uuid" => UuidsGone(table, ToSet(t.left), t.maps)
      BY <2>5, <2>9 DEF UuidsGone, Progress, MapsWithin, Within
    <3>4. pass.way = "ip" => IpsGone(table, ToSet(t.left), t.maps)
      BY <2>5, <2>9 DEF IpsGone, Progress, MapsWithin, Within
    <3>5. ProbesIn(state.pairs) \subseteq ProbesIn(t.pairs)
      BY <2>8 DEF Progress, taken
    <3>6. ASSUME NEW k \in DOMAIN t.pairs
          PROVE  \/ \E l \in DOMAIN state.pairs : t.pairs[k] = state.pairs[l]
                 \/ /\ Eligible(pass, table[t.pairs[k][1]])
                    /\ t.pairs[k][2] \notin ProbesIn(state.pairs)
      <4>1. CASE k \in DOMAIN s.pairs /\ t.pairs[k] = s.pairs[k]
        BY <4>1 DEF Progress
      <4>2. CASE t.pairs[k] = <<i, p>>
        <5>1. p \notin ProbesIn(state.pairs)
          BY <2>2 DEF Progress, taken
        <5>2. QED
          BY <2>1, <4>2, <5>1
      <4>3. QED
        BY <2>8, <4>1, <4>2
    <3>7. QED
      BY <3>1, <3>2, <3>3, <3>4, <3>5, <3>6 DEF Progress
  <2>13. QED
    BY <2>11, <2>12 DEF t
<1>7. QED
  BY <1>4, <1>5

\* The rows of a sequence that come after the first k.
Rest(ids, k) == {ids[m] : m \in (k + 1)..Len(ids)}

LEMMA RestShrinks ==
  ASSUME NEW E, NEW ids \in Seq(E), IsInjective(ids), NEW k \in 1..Len(ids)
  PROVE  /\ ids[k] \in Rest(ids, k - 1) /\ ids[k] \in ToSet(ids)
         /\ Rest(ids, k) = Rest(ids, k - 1) \ {ids[k]}
<1>1. Len(ids) \in Nat /\ DOMAIN ids = 1..Len(ids)
  OBVIOUS
<1> DEFINE n == Len(ids)
<1> HIDE DEF n
<1>2. n \in Nat /\ DOMAIN ids = 1..n /\ k \in 1..n
  BY <1>1 DEF n
<1>3. k - 1 + 1 = k /\ k \in k..n
  BY <1>2
<1>4. ids[k] \in Rest(ids, k - 1)
  BY <1>2, <1>3 DEF Rest, n
<1>5. ids[k] \in ToSet(ids)
  BY <1>2 DEF ToSet
<1>6. \A m \in k..n : m = k \/ m \in (k + 1)..n
  BY <1>2
<1>7. \A m \in (k + 1)..n : m \in k..n /\ ids[m] # ids[k]
  <2>1. \A m \in (k + 1)..n : m \in k..n /\ m # k /\ m \in 1..n
    BY <1>2
  <2>2. QED
    BY <1>2, <2>1 DEF IsInjective
<1>8. Rest(ids, k - 1) = {ids[m] : m \in k..n}
  BY <1>3 DEF Rest, n
<1>9. Rest(ids, k) = {ids[m] : m \in (k + 1)..n}
  BY DEF Rest, n
<1>10. Rest(ids, k) = Rest(ids, k - 1) \ {ids[k]}
  BY <1>6, <1>7, <1>8, <1>9
<1>11. QED
  BY <1>4, <1>5, <1>10

LEMMA RestEnds ==
  ASSUME NEW E, NEW ids \in Seq(E)
  PROVE  Rest(ids, 0) = ToSet(ids) /\ Rest(ids, Len(ids)) = {}
<1>1. Len(ids) \in Nat /\ DOMAIN ids = 1..Len(ids)
  OBVIOUS
<1>2. (0 + 1)..Len(ids) = DOMAIN ids /\ (Len(ids) + 1)..Len(ids) = {}
  BY <1>1
<1>3. QED
  BY <1>2 DEF Rest, ToSet

\* A pass over the rows that are left.
LEMMA PassSound ==
  ASSUME NEW table \in Tables, NEW U \in SUBSET Probes, OneByIp(U),
         NEW state, NEW pass, pass.way \in Ways, Sound(table, U, state, {})
  PROVE  /\ Sound(table, U, Pass(table, state, pass), {})
         /\ Progress(table, U, state, pass, Pass(table, state, pass))
<1> DEFINE ids == state.left
           n == Len(ids)
           E == Existing(table)
<1>1. ids \in Seq(E) /\ IsInjective(ids) /\ n \in Nat /\ DOMAIN ids = 1..n
  BY DEF Sound
<1>2. PICK run : /\ run[0] = Emptied(state)
                 /\ \A k \in 1..n : run[k] = MatchRow(table, pass, run[k - 1], state.left[k])
                 /\ run[n] = Pass(table, state, pass)
  <2> HIDE DEF n
  <2>1. QED
    BY <1>1, PassRuns
<1> DEFINE Good == {k \in 0..n : /\ Sound(table, U, run[k], Rest(ids, k))
                                 /\ Progress(table, U, state, pass, run[k])}
<1>3. 0 \in Good
  <2> DEFINE r == run[0]
  <2>1. state = [pairs |-> state.pairs, left |-> state.left, maps |-> state.maps]
    BY DEF Sound
  <2>2. r = [pairs |-> state.pairs, left |-> <<>>, maps |-> state.maps]
    BY <1>2, <2>1 DEF Emptied
  <2>3. r.pairs = state.pairs /\ r.left = <<>> /\ r.maps = state.maps
    BY <2>2
  <2> HIDE DEF r
  <2>4. r = [pairs |-> r.pairs, left |-> r.left, maps |-> r.maps]
    BY <2>2, <2>3
  <2>5. r.left \in Seq(E) /\ IsInjective(r.left) /\ ToSet(r.left) = {}
    BY <2>3 DEF IsInjective, ToSet
  <2>6. Rest(ids, 0) = ToSet(ids)
    BY <1>1, RestEnds
  <2>7. Sound(table, U, r, Rest(ids, 0))
    BY <2>3, <2>4, <2>5, <2>6 DEF Sound
  <2>8. Progress(table, U, state, pass, r)
    <3>1. MapsWithin(r.maps, state.maps)
      BY <2>3 DEF MapsWithin, Within
    <3>2. UuidsGone(table, ToSet(r.left), r.maps) /\ IpsGone(table, ToSet(r.left), r.maps)
      BY <2>5 DEF UuidsGone, IpsGone
    <3>3. \A k \in DOMAIN r.pairs : \E l \in DOMAIN state.pairs : r.pairs[k] = state.pairs[l]
      BY <2>3
    <3>4. QED
      BY <2>3, <2>5, <3>1, <3>2, <3>3 DEF Progress
  <2>9. 0 \in 0..n
    BY <1>1
  <2>10. QED
    BY <2>7, <2>8, <2>9 DEF r
<1>4. ASSUME NEW k \in 1..n, k - 1 \in Good
      PROVE  k \in Good
  <2> DEFINE s == run[k - 1]
             i == ids[k]
             rest == Rest(ids, k - 1)
  <2>1. Sound(table, U, s, rest) /\ Progress(table, U, state, pass, s)
    BY <1>4
  <2>2. i \in rest /\ i \in ToSet(ids) /\ Rest(ids, k) = rest \ {i}
    BY <1>1, RestShrinks
  <2>3. run[k] = MatchRow(table, pass, s, i)
    BY <1>2
  <2>4. /\ Sound(table, U, MatchRow(table, pass, s, i), rest \ {i})
        /\ Progress(table, U, state, pass, MatchRow(table, pass, s, i))
    <3> HIDE DEF s, i, rest
    <3>1. i \in ToSet(state.left)
      BY <2>2
    <3>2. QED
      BY <2>1, <2>2, <3>1, MatchRowSound
  <2>5. k \in 0..n
    BY <1>1
  <2>6. QED
    BY <2>2, <2>3, <2>4, <2>5
<1>5. n \in Good
  <2> HIDE DEF Good, n
  <2>1. \A k \in 0..n : k \in Good
    BY <1>1, <1>3, <1>4, Induction
  <2>2. n \in 0..n
    BY <1>1
  <2>3. QED
    BY <2>1, <2>2
<1>6. Rest(ids, n) = {}
  BY <1>1, RestEnds
<1>7. QED
  BY <1>2, <1>5, <1>6

-------------------------------------------------------------------------------
(* The matching *)

\* A row without a user is only matched when no adopted row that is left has the uuid or the
\* IP of the probe.
AdoptedFirst(table, U, s) ==
  \A k \in DOMAIN s.pairs, j \in ToSet(s.left) :
    ~Owned(table, s.pairs[k][1]) /\ Owned(table, j) /\ Alone(s.pairs[k][2], U)
      => /\ table[j].identity.uuid # Data[s.pairs[k][2]].uuid
         /\ table[j].identity.ip # Data[s.pairs[k][2]].ip

\* After so many passes: first the adopted rows are matched.
Staged(table, U, s, k) ==
  /\ Sound(table, U, s, {})
  /\ k >= 1 => UuidsGone(table, ToSet(s.left), s.maps)
  /\ k >= 2 => IpsGone(table, ToSet(s.left), s.maps)
  /\ k <= 4 => \A l \in DOMAIN s.pairs : Owned(table, s.pairs[l][1])
  /\ AdoptedFirst(table, U, s)

LEMMA PassesInOrder ==
  /\ \A k \in 1..9 : Passes[k].way \in Ways
  /\ Passes[1].way = "uuid" /\ Passes[2].way = "ip"
  /\ \A k \in 1..4 : Passes[k].adoptedOnly
BY DEF Passes, Ways

LEMMA PassStaged ==
  ASSUME NEW table \in Tables, NEW U \in SUBSET Probes, OneByIp(U),
         NEW state, NEW k \in 1..9, Staged(table, U, state, k - 1)
  PROVE  Staged(table, U, Pass(table, state, Passes[k]), k)
<1> DEFINE pass == Passes[k]
           s == Pass(table, state, Passes[k])
<1>1. pass.way \in Ways
  BY PassesInOrder
<1>2. Sound(table, U, state, {})
  BY DEF Staged
<1>3. Sound(table, U, s, {}) /\ Progress(table, U, state, pass, s)
  BY <1>1, <1>2, PassSound
<1> HIDE DEF s
<1>4. \A l \in DOMAIN s.pairs :
        \/ \E m \in DOMAIN state.pairs : s.pairs[l] = state.pairs[m]
        \/ /\ Eligible(pass, table[s.pairs[l][1]])
           /\ s.pairs[l][2] \notin ProbesIn(state.pairs)
  BY <1>3 DEF Progress
<1>5. ToSet(s.left) \subseteq ToSet(state.left) /\ MapsWithin(s.maps, state.maps)
  BY <1>3 DEF Progress
<1>6. k >= 1 => UuidsGone(table, ToSet(s.left), s.maps)
  <2>1. CASE k = 1
    BY <1>3, <2>1, PassesInOrder DEF Progress
  <2>2. CASE k # 1
    <3>1. k - 1 >= 1
      BY <2>2
    <3>2. UuidsGone(table, ToSet(state.left), state.maps)
      BY <3>1 DEF Staged
    <3>3. QED
      BY <1>5, <3>2 DEF UuidsGone, MapsWithin, Within
  <2>3. QED
    BY <2>1, <2>2
<1>7. k >= 2 => IpsGone(table, ToSet(s.left), s.maps)
  <2>1. CASE k = 2
    BY <1>3, <2>1, PassesInOrder DEF Progress
  <2>2. CASE k > 2
    <3>1. k - 1 >= 2
      BY <2>2
    <3>2. IpsGone(table, ToSet(state.left), state.maps)
      BY <3>1 DEF Staged
    <3>3. QED
      BY <1>5, <3>2 DEF IpsGone, MapsWithin, Within
  <2>3. QED
    BY <2>1, <2>2
<1>8. k <= 4 => \A l \in DOMAIN s.pairs : Owned(table, s.pairs[l][1])
  <2>1. SUFFICES ASSUME k <= 4, NEW l \in DOMAIN s.pairs
                 PROVE  Owned(table, s.pairs[l][1])
    OBVIOUS
  <2>2. pass.adoptedOnly /\ k - 1 <= 4
    BY <2>1, PassesInOrder
  <2>3. \A m \in DOMAIN state.pairs : Owned(table, state.pairs[m][1])
    BY <2>2 DEF Staged
  <2>4. QED
    BY <1>4, <2>2, <2>3 DEF Eligible, Owned
<1>9. AdoptedFirst(table, U, s)
  <2>1. SUFFICES ASSUME NEW l \in DOMAIN s.pairs, NEW j \in ToSet(s.left),
                        ~Owned(table, s.pairs[l][1]), Owned(table, j), Alone(s.pairs[l][2], U)
                 PROVE  /\ table[j].identity.uuid # Data[s.pairs[l][2]].uuid
                        /\ table[j].identity.ip # Data[s.pairs[l][2]].ip
    BY DEF AdoptedFirst
  <2>2. j \in ToSet(state.left)
    BY <1>5
  <2>3. CASE \E m \in DOMAIN state.pairs : s.pairs[l] = state.pairs[m]
    BY <2>1, <2>2, <2>3 DEF Staged, AdoptedFirst
  <2>4. CASE /\ Eligible(pass, table[s.pairs[l][1]])
             /\ s.pairs[l][2] \notin ProbesIn(state.pairs)
    <3> DEFINE p == s.pairs[l][2]
    <3>1. k - 1 >= 2
      <4>1. k > 4
        BY <1>8, <2>1
      <4>2. QED
        BY <4>1
    <3>2. /\ UuidsGone(table, ToSet(state.left), state.maps)
          /\ IpsGone(table, ToSet(state.left), state.maps)
      <4>1. k - 1 >= 1
        BY <3>1
      <4>2. QED
        BY <3>1, <4>1 DEF Staged
    <3>3. p \in U \ ProbesIn(state.pairs)
      <4>1. s.pairs \in Seq(Existing(table) \X U)
        BY <1>3 DEF Sound
      <4>2. s.pairs[l] \in Existing(table) \X U
        BY <4>1
      <4>3. QED
        BY <2>4, <4>2
    <3>4. MapsHold(state.maps, U, ProbesIn(state.pairs))
      BY <1>2 DEF Sound
    <3>5. Data[p].ip \in DOMAIN state.maps.ip /\ Data[p].uuid \in DOMAIN state.maps.uuid
      <4> HIDE DEF p
      <4>1. Alone(p, U)
        BY <2>1 DEF p
      <4>2. QED
        BY <3>3, <3>4, <4>1 DEF MapsHold
    <3>6. QED
      BY <2>1, <2>2, <3>2, <3>5 DEF UuidsGone, IpsGone
  <2>5. QED
    BY <1>4, <2>3, <2>4
<1>10. QED
  BY <1>3, <1>6, <1>7, <1>8, <1>9 DEF Staged, s

LEMMA MatchedStaged ==
  ASSUME NEW table \in Tables, NEW probes \in SUBSET Probes
  PROVE  Staged(table, Unique(probes), Matched(table, probes), 9)
<1> DEFINE U == Unique(probes)
           E == Existing(table)
<1>1. U \in SUBSET Probes /\ OneByIp(U)
  BY UniqueIsOneByIp
<1>2. PICK run : /\ run[0] = Unmatched(table, probes)
                 /\ \A k \in 1..9 : run[k] = Pass(table, run[k - 1], Passes[k])
                 /\ run[9] = Matched(table, probes)
  BY MatchRuns
<1> HIDE DEF U
<1>3. Staged(table, U, run[0], 0)
  <2> DEFINE s == run[0]
  <2>1. s = [pairs |-> <<>>, left |-> DProbes(table), maps |-> Maps(U)]
    BY <1>2 DEF Unmatched, U
  <2>2. s.pairs = <<>> /\ s.left = DProbes(table) /\ s.maps = Maps(U)
    BY <2>1
  <2>3. s = [pairs |-> s.pairs, left |-> s.left, maps |-> s.maps]
    BY <2>1
  <2> HIDE DEF s
  <2>4. s.left \in Seq(E) /\ IsInjective(s.left) /\ ToSet(s.left) = E
    <3>1. /\ s.left \in [1..Cardinality(E) -> E] /\ Cardinality(E) \in Nat
          /\ IsInjective(s.left) /\ ToSet(s.left) = E
      BY <2>2, DProbesIsOrder
    <3>2. QED
      BY <3>1
  <2>5. /\ DOMAIN s.pairs = {} /\ RowsIn(s.pairs) = {} /\ ProbesIn(s.pairs) = {}
        /\ s.pairs \in Seq(E \X U)
    BY <2>2 DEF RowsIn, ProbesIn
  <2>6. MapsHold(s.maps, U, {})
    BY <1>1, <2>2, MapsAtFirst
  <2>7. Sound(table, U, s, {})
    BY <2>3, <2>4, <2>5, <2>6 DEF Sound
  <2>8. QED
    BY <2>5, <2>7 DEF Staged, AdoptedFirst, s
<1> DEFINE Good == {k \in 0..9 : Staged(table, U, run[k], k)}
<1>4. ASSUME NEW k \in 1..9, k - 1 \in Good
      PROVE  k \in Good
  <2>1. Staged(table, U, run[k - 1], k - 1)
    BY <1>4
  <2>2. Staged(table, U, Pass(table, run[k - 1], Passes[k]), k)
    BY <1>1, <2>1, PassStaged
  <2>3. QED
    BY <1>2, <2>2
<1>5. 9 \in Good
  <2>1. 0 \in Good
    BY <1>3
  <2> HIDE DEF Good
  <2>2. \A k \in 0..9 : k \in Good
    BY <1>4, <2>1, Induction
  <2>3. QED
    BY <2>2
<1>6. QED
  BY <1>2, <1>5 DEF U

\* Whatever the table and the probes: what MatchesAreSound says of their matching.
MatchSound(table, probes) ==
  LET m == Match(table, probes)
      Paired == {m.pairs[k][2] : k \in DOMAIN m.pairs}
      alone(p) == \A q \in probes : q # p => Data[q].uuid # Data[p].uuid
  IN /\ \A k, l \in DOMAIN m.pairs : k # l =>
          m.pairs[k][1] # m.pairs[l][1] /\ m.pairs[k][2] # m.pairs[l][2]
     /\ \A p \in Unique(probes) : alone(p) => p \in Paired \cup m.new
     /\ m.new \cap Paired = {}
     /\ \A k \in DOMAIN m.pairs, j \in ToSet(m.left) :
          LET i == m.pairs[k][1]
              p == m.pairs[k][2]
          IN table[i].user = Nothing /\ table[j].user # Nothing /\ alone(p)
               => table[j].identity.uuid # Data[p].uuid /\ table[j].identity.ip # Data[p].ip

LEMMA MatchFields ==
  ASSUME NEW table, NEW probes
  PROVE  /\ Match(table, probes).pairs = Matched(table, probes).pairs
         /\ Match(table, probes).left = Matched(table, probes).left
         /\ Match(table, probes).new
              = {Matched(table, probes).maps.uuid[u] : u \in DOMAIN Matched(table, probes).maps.uuid}
BY DEF Match

LEMMA MatchIsSound ==
  ASSUME NEW table \in Tables, NEW probes \in SUBSET Probes
  PROVE  MatchSound(table, probes)
<1> DEFINE U == Unique(probes)
           s == Matched(table, probes)
           m == Match(table, probes)
           alone(p) == \A q \in probes : q # p => Data[q].uuid # Data[p].uuid
           taken == ProbesIn(s.pairs)
<1>1. m.pairs = s.pairs /\ m.left = s.left /\ m.new = {s.maps.uuid[u] : u \in DOMAIN s.maps.uuid}
  BY MatchFields
<1>2. U \in SUBSET probes
  BY UniqueIsOneByIp
<1>3. Sound(table, U, s, {}) /\ AdoptedFirst(table, U, s)
  BY MatchedStaged DEF Staged
<1>4. MapsHold(s.maps, U, taken)
  BY <1>3 DEF Sound
<1> HIDE DEF s, m, U
<1>5. {m.pairs[k][2] : k \in DOMAIN m.pairs} = taken
  BY <1>1 DEF ProbesIn
<1> HIDE DEF taken
<1>6. \A p : alone(p) => Alone(p, U)
  BY <1>2 DEF Alone
<1>7. \A k, l \in DOMAIN m.pairs : k # l =>
        m.pairs[k][1] # m.pairs[l][1] /\ m.pairs[k][2] # m.pairs[l][2]
  BY <1>1, <1>3 DEF Sound
<1>8. ASSUME NEW p \in U, alone(p)
      PROVE  p \in taken \cup m.new
  <2>1. CASE p \notin taken
    <3>1. Data[p].uuid \in DOMAIN s.maps.uuid
      BY <1>4, <1>6, <1>8, <2>1 DEF MapsHold
    <3>2. s.maps.uuid[Data[p].uuid] \in U /\ Data[s.maps.uuid[Data[p].uuid]].uuid = Data[p].uuid
      BY <1>4, <3>1 DEF MapsHold
    <3>3. s.maps.uuid[Data[p].uuid] = p
      BY <1>2, <1>8, <3>2
    <3>4. QED
      BY <1>1, <3>1, <3>3
  <2>2. QED
    BY <2>1
<1>9. m.new \cap taken = {}
  BY <1>1, <1>4 DEF MapsHold
<1>10. ASSUME NEW k \in DOMAIN m.pairs, NEW j \in ToSet(m.left),
              table[m.pairs[k][1]].user = Nothing, table[j].user # Nothing, alone(m.pairs[k][2])
       PROVE  /\ table[j].identity.uuid # Data[m.pairs[k][2]].uuid
              /\ table[j].identity.ip # Data[m.pairs[k][2]].ip
  <2>1. Alone(m.pairs[k][2], U)
    BY <1>6, <1>10
  <2>2. QED
    BY <1>1, <1>3, <1>10, <2>1 DEF AdoptedFirst, Owned
<1>11. QED
  <2> DEFINE Paired == {m.pairs[k][2] : k \in DOMAIN m.pairs}
  <2>1. \A p \in U : alone(p) => p \in Paired \cup m.new
    BY <1>5, <1>8
  <2>2. m.new \cap Paired = {}
    BY <1>5, <1>9
  <2>3. QED
    BY <1>7, <1>10, <2>1, <2>2 DEF MatchSound, m, U

-------------------------------------------------------------------------------
(* The duplicates *)

Done(ids, k) == {ids[m] : m \in 1..k}

LEMMA DoneGrows ==
  ASSUME NEW ids, NEW n \in Nat, DOMAIN ids = 1..n, IsInjective(ids), NEW k \in 1..n
  PROVE  /\ Done(ids, k) = Done(ids, k - 1) \cup {ids[k]}
         /\ ids[k] \notin Done(ids, k - 1)
         /\ Done(ids, 0) = {}
         /\ Done(ids, n) = ToSet(ids)
<1>1. \A m \in 1..k : m \in 1..(k - 1) \/ m = k
  OBVIOUS
<1>2. \A m \in 1..(k - 1) : m \in 1..k /\ m # k /\ m \in 1..n
  OBVIOUS
<1>3. k \in 1..k /\ 1..0 = {}
  OBVIOUS
<1>4. QED
  BY <1>1, <1>2, <1>3 DEF Done, IsInjective, ToSet

\* What has been found among the rows compared so far: a row that is deleted is replaced by one
\* of the same user that is not.
DuplicatesSound(table, updated, s, done) ==
  /\ s = [deletes |-> s.deletes, nullify |-> s.nullify, alts |-> s.alts,
          uuid |-> s.uuid, ip |-> s.ip]
  /\ DOMAIN s.deletes \subseteq done
  /\ \A i \in DOMAIN s.deletes :
       /\ s.deletes[i] \in done \ DOMAIN s.deletes
       /\ Owned(table, i) => table[s.deletes[i]].user = table[i].user
  /\ s.nullify \subseteq done
  /\ \A i \in done \ DOMAIN s.deletes : i \in DOMAIN s.alts /\ s.alts[i] \subseteq updated[i].alts
  /\ \A u \in DOMAIN s.uuid : s.uuid[u] \in done \ DOMAIN s.deletes
  /\ \A a \in DOMAIN s.ip : s.ip[a] \in done \ DOMAIN s.deletes

LEMMA CompareSound ==
  ASSUME NEW table, NEW updated, NEW s, NEW done \in SUBSET Ids, NEW i \in Ids \ done,
         DuplicatesSound(table, updated, s, done)
  PROVE  DuplicatesSound(table, updated, Compare(table, updated, s, i), done \cup {i})
<1> DEFINE row == updated[i]
           existing == IF row.uuid \in DOMAIN s.uuid THEN s.uuid[row.uuid] ELSE Lookup(s.ip, row.ip)
           newAlts == row.alts \ DOMAIN s.ip
           owned == newAlts \cup ({row.ip} \ {Nothing})
           t == Compare(table, updated, s, i)
           now == done \cup {i}
<1>1. CASE existing # Nothing /\ Redundant(table, i, existing)
  <2>1. t = [s EXCEPT !.deletes = Put(@, {i}, existing)]
    BY <1>1 DEF Compare
  <2>2. t = [deletes |-> Put(s.deletes, {i}, existing), nullify |-> s.nullify, alts |-> s.alts,
             uuid |-> s.uuid, ip |-> s.ip]
    BY <2>1 DEF DuplicatesSound
  <2>3. /\ t.deletes = Put(s.deletes, {i}, existing) /\ t.nullify = s.nullify /\ t.alts = s.alts
        /\ t.uuid = s.uuid /\ t.ip = s.ip
        /\ t = [deletes |-> t.deletes, nullify |-> t.nullify, alts |-> t.alts,
                uuid |-> t.uuid, ip |-> t.ip]
    BY <2>2
  <2>4. existing \in done \ DOMAIN s.deletes
    BY <1>1 DEF DuplicatesSound, Lookup
  <2>5. Owned(table, i) => table[existing].user = table[i].user
    BY <1>1 DEF Redundant, Owned
  <2> HIDE DEF t, existing
  <2>6. /\ DOMAIN t.deletes = DOMAIN s.deletes \cup {i} /\ t.deletes[i] = existing
        /\ \A j \in DOMAIN s.deletes : j # i /\ t.deletes[j] = s.deletes[j]
    BY <2>3 DEF Put, DuplicatesSound
  <2>7. \A j \in DOMAIN t.deletes :
          /\ t.deletes[j] \in now \ DOMAIN t.deletes
          /\ Owned(table, j) => table[t.deletes[j]].user = table[j].user
    BY <2>4, <2>5, <2>6 DEF DuplicatesSound
  <2>8. /\ DOMAIN t.deletes \subseteq now /\ t.nullify \subseteq now
        /\ \A j \in now \ DOMAIN t.deletes : j \in DOMAIN t.alts /\ t.alts[j] \subseteq updated[j].alts
        /\ \A u \in DOMAIN t.uuid : t.uuid[u] \in now \ DOMAIN t.deletes
        /\ \A a \in DOMAIN t.ip : t.ip[a] \in now \ DOMAIN t.deletes
    BY <2>3, <2>6 DEF DuplicatesSound
  <2>9. QED
    BY <2>3, <2>7, <2>8 DEF DuplicatesSound, t
<1>2. CASE ~(existing # Nothing /\ Redundant(table, i, existing))
  <2> DEFINE nullify == IF row.ip \in DOMAIN s.ip /\ row.status = "offline"
                        THEN s.nullify \cup {i} ELSE s.nullify
  <2>1. t = [deletes |-> s.deletes, nullify |-> nullify, alts |-> Put(s.alts, {i}, newAlts),
             uuid |-> Put(s.uuid, {row.uuid}, i), ip |-> Put(s.ip, owned, i)]
    BY <1>2 DEF Compare
  <2>2. /\ t.deletes = s.deletes /\ t.nullify = nullify /\ t.alts = Put(s.alts, {i}, newAlts)
        /\ t.uuid = Put(s.uuid, {row.uuid}, i) /\ t.ip = Put(s.ip, owned, i)
        /\ t = [deletes |-> t.deletes, nullify |-> t.nullify, alts |-> t.alts,
                uuid |-> t.uuid, ip |-> t.ip]
    BY <2>1
  <2>3. nullify \subseteq now
    BY DEF DuplicatesSound
  <2> HIDE DEF t, existing, nullify, owned
  <2>4. i \notin DOMAIN s.deletes
    BY DEF DuplicatesSound
  <2>5. \A j \in now \ DOMAIN t.deletes : j \in DOMAIN t.alts /\ t.alts[j] \subseteq updated[j].alts
    BY <2>2 DEF Put, DuplicatesSound
  <2>6. \A u \in DOMAIN t.uuid : t.uuid[u] \in now \ DOMAIN t.deletes
    BY <2>2, <2>4 DEF Put, DuplicatesSound
  <2>7. \A a \in DOMAIN t.ip : t.ip[a] \in now \ DOMAIN t.deletes
    BY <2>2, <2>4 DEF Put, DuplicatesSound
  <2>8. /\ DOMAIN t.deletes \subseteq now /\ t.nullify \subseteq now
        /\ \A j \in DOMAIN t.deletes :
             /\ t.deletes[j] \in now \ DOMAIN t.deletes
             /\ Owned(table, j) => table[t.deletes[j]].user = table[j].user
    BY <2>2, <2>3, <2>4 DEF DuplicatesSound
  <2>9. QED
    BY <2>2, <2>5, <2>6, <2>7, <2>8 DEF DuplicatesSound, t
<1>3. QED
  BY <1>1, <1>2

LEMMA DuplicatesAreSound ==
  ASSUME NEW table, NEW updated, NEW order, NEW n \in Nat, DOMAIN order = 1..n,
         IsInjective(order), ToSet(order) \subseteq Ids
  PROVE  DuplicatesSound(table, updated, Duplicates(table, updated, order), ToSet(order))
<1>1. PICK run : /\ run[0] = NoDuplicates
                 /\ \A k \in 1..n : run[k] = Compare(table, updated, run[k - 1], order[k])
                 /\ run[n] = Duplicates(table, updated, order)
  BY DuplicatesRun
<1> DEFINE Good == {k \in 0..n : DuplicatesSound(table, updated, run[k], Done(order, k))}
<1>2. 0 \in Good
  <2>1. Done(order, 0) = {}
    BY DEF Done
  <2>2. DuplicatesSound(table, updated, NoDuplicates, {})
    BY DEF DuplicatesSound, NoDuplicates
  <2>3. QED
    BY <1>1, <2>1, <2>2
<1>3. ASSUME NEW k \in 1..n, k - 1 \in Good
      PROVE  k \in Good
  <2>1. /\ Done(order, k) = Done(order, k - 1) \cup {order[k]}
        /\ order[k] \notin Done(order, k - 1)
    BY DoneGrows
  <2>2. \A m \in 1..n : order[m] \in Ids
    BY DEF ToSet
  <2>3. Done(order, k - 1) \subseteq Ids /\ order[k] \in Ids
    <3>1. 1..(k - 1) \subseteq 1..n
      OBVIOUS
    <3>2. QED
      BY <2>2, <3>1 DEF Done
  <2>4. DuplicatesSound(table, updated, run[k - 1], Done(order, k - 1))
    BY <1>3
  <2>5. DuplicatesSound(table, updated, Compare(table, updated, run[k - 1], order[k]),
                        Done(order, k - 1) \cup {order[k]})
    BY <2>1, <2>3, <2>4, CompareSound
  <2>6. run[k] = Compare(table, updated, run[k - 1], order[k])
    BY <1>1
  <2>7. DuplicatesSound(table, updated, run[k], Done(order, k))
    BY <2>1, <2>5, <2>6
  <2>8. k \in 0..n
    OBVIOUS
  <2>9. QED
    BY <2>7, <2>8
<1>4. n \in Good
  <2> HIDE DEF Good
  <2>1. \A k \in 0..n : k \in Good
    BY <1>2, <1>3, Induction
  <2>2. QED
    BY <2>1
<1>5. Done(order, n) = ToSet(order)
  BY DEF Done, ToSet
<1>6. QED
  BY <1>1, <1>4, <1>5

-------------------------------------------------------------------------------
(* The plan *)

Fields == {"uuid", "ip", "alts", "place", "status"}

LEMMA IdentityFields ==
  ASSUME NEW x \in Identity
  PROVE  /\ DOMAIN x = Fields
         /\ x["uuid"] \in Uuids /\ x["ip"] \in Ips \cup {Nothing} /\ x["alts"] \in SUBSET Ips
         /\ x["place"] \in Places /\ x["status"] \in {"ready", "offline"}
BY DEF Identity, Fields

LEMMA FieldsIdentity ==
  ASSUME NEW x, x = [f \in Fields |-> x[f]],
         x["uuid"] \in Uuids, x["ip"] \in Ips \cup {Nothing}, x["alts"] \in SUBSET Ips,
         x["place"] \in Places, x["status"] \in {"ready", "offline"}
  PROVE  x \in Identity
BY DEF Identity, Fields

LEMMA IdentityOfType ==
  ASSUME NEW p \in Probes
  PROVE  IdentityOf(p) \in Identity
BY DataAssumption DEF IdentityOf, Identity, Uuids, Ips, Places

\* Fields of an identity, and what they may be.
IsChange(u) ==
  /\ DOMAIN u \subseteq Fields
  /\ "uuid" \in DOMAIN u => u["uuid"] \in Uuids
  /\ "ip" \in DOMAIN u => u["ip"] \in Ips \cup {Nothing}
  /\ "alts" \in DOMAIN u => u["alts"] \in SUBSET Ips
  /\ "place" \in DOMAIN u => u["place"] \in Places
  /\ "status" \in DOMAIN u => u["status"] \in {"ready", "offline"}

IsPlan(pl) ==
  /\ pl = [deletes |-> pl.deletes, nullify |-> pl.nullify, updates |-> pl.updates,
           creates |-> pl.creates]
  /\ DOMAIN pl.deletes \subseteq Ids
  /\ pl.nullify \subseteq Ids
  /\ \A i \in DOMAIN pl.updates : i \in Ids /\ IsChange(pl.updates[i])
  /\ pl.creates \subseteq Probes

\* A plan deletes an adopted row of this table only if another row of its user stays.
PlanKeeps(table, pl) ==
  \A i \in DOMAIN pl.deletes :
    /\ i \in Existing(table)
    /\ pl.deletes[i] \in Existing(table) \ DOMAIN pl.deletes
    /\ Owned(table, i) => table[pl.deletes[i]].user = table[i].user

LEMMA UpdatedType ==
  ASSUME NEW table \in Tables, NEW pairs \in Seq(Existing(table) \X Probes), NEW match,
         match.pairs = pairs, NEW i \in Existing(table)
  PROVE  Updated(table, match)[i] \in Identity
<1> DEFINE mine == {k \in DOMAIN pairs : pairs[k][1] = i}
<1>1. Updated(table, match)[i]
        = IF mine = {} THEN [table[i].identity EXCEPT !.status = "offline"]
          ELSE IdentityOf(pairs[CHOOSE k \in mine : TRUE][2])
  BY DEF Updated
<1>2. [table[i].identity EXCEPT !.status = "offline"] \in Identity
  <2>1. table[i].identity \in Identity
    BY RowOf DEF Row
  <2>2. QED
    BY <2>1 DEF Identity
<1>3. CASE mine # {}
  <2> DEFINE k == CHOOSE k \in mine : TRUE
  <2>1. k \in mine
    <3> HIDE DEF mine
    <3>1. QED
      BY <1>3
  <2> HIDE DEF k
  <2>2. pairs[k] \in Existing(table) \X Probes
    BY <2>1
  <2>3. pairs[k][2] \in Probes
    BY <2>2
  <2>4. IdentityOf(pairs[k][2]) \in Identity
    BY <2>3, IdentityOfType
  <2>5. QED
    <3> HIDE DEF mine
    <3>1. QED
      BY <1>1, <1>3, <2>4 DEF k
<1>4. QED
  BY <1>1, <1>2, <1>3

LEMMA UpdateOfType ==
  ASSUME NEW old \in Identity, NEW new \in Identity, NEW alts \in SUBSET Ips
  PROVE  IsChange(UpdateOf(old, new, alts))
<1> DEFINE d == Difference(old, new)
<1>1. DOMAIN d \subseteq Fields /\ \A f \in DOMAIN d : d[f] = new[f]
  BY IdentityFields DEF Difference
<1>2. IsChange(d)
  <2> HIDE DEF d
  <2>1. QED
    BY <1>1, IdentityFields DEF IsChange
<1> DEFINE e == Put(d, {"alts"}, alts)
<1>3. /\ DOMAIN e = DOMAIN d \cup {"alts"} /\ e["alts"] = alts
      /\ \A f \in DOMAIN d : f # "alts" => e[f] = d[f]
  <2> HIDE DEF d
  <2>1. QED
    BY DEF Put
<1>4. IsChange(e)
  <2> HIDE DEF d, e
  <2>1. QED
    BY <1>2, <1>3 DEF IsChange, Fields
<1>5. UpdateOf(old, new, alts) = d \/ UpdateOf(old, new, alts) = e
  BY DEF UpdateOf
<1>6. QED
  BY <1>2, <1>4, <1>5

\* Two sequences of different elements, one after the other.
LEMMA Concatenation ==
  ASSUME NEW E, NEW a \in Seq(E), NEW b \in Seq(E), IsInjective(a), IsInjective(b),
         ToSet(a) \cap ToSet(b) = {}
  PROVE  /\ a \o b \in Seq(E) /\ IsInjective(a \o b) /\ ToSet(a \o b) = ToSet(a) \cup ToSet(b)
<1> DEFINE c == a \o b
           m == Len(a)
           n == Len(b)
<1>1. /\ m \in Nat /\ n \in Nat /\ DOMAIN a = 1..m /\ DOMAIN b = 1..n /\ c \in Seq(E)
      /\ DOMAIN c = 1..(m + n)
      /\ \A k \in 1..m : c[k] = a[k]
      /\ \A k \in (m + 1)..(m + n) : c[k] = b[k - m]
  OBVIOUS
<1> HIDE DEF c, m, n
<1>2. \A k \in DOMAIN c : \/ k \in DOMAIN a /\ c[k] = a[k]
                          \/ k \notin DOMAIN a /\ k - m \in DOMAIN b /\ c[k] = b[k - m]
  BY <1>1
<1>3. ASSUME NEW k \in DOMAIN b
      PROVE  k + m \in DOMAIN c /\ c[k + m] = b[k]
  <2>1. k \in 1..n
    BY <1>1
  <2>2. k + m \in (m + 1)..(m + n) /\ k + m \in 1..(m + n) /\ (k + m) - m = k
    BY <1>1, <2>1
  <2>3. QED
    BY <1>1, <2>2
<1>4. \A k \in DOMAIN a : k \in DOMAIN c /\ c[k] = a[k]
  BY <1>1
<1>5. ToSet(c) = ToSet(a) \cup ToSet(b)
  BY <1>2, <1>3, <1>4 DEF ToSet
<1>6. ASSUME NEW k \in DOMAIN c, NEW l \in DOMAIN c, c[k] = c[l]
      PROVE  k = l
  <2>1. \A x \in DOMAIN a, y \in DOMAIN b : a[x] # b[y]
    BY DEF ToSet
  <2>2. CASE k \in DOMAIN a /\ l \in DOMAIN a
    BY <1>2, <1>6, <2>2 DEF IsInjective
  <2>3. CASE k \notin DOMAIN a /\ l \notin DOMAIN a
    <3>1. k - m \in DOMAIN b /\ l - m \in DOMAIN b /\ b[k - m] = b[l - m]
      BY <1>2, <1>6, <2>3
    <3>2. k - m = l - m
      BY <3>1 DEF IsInjective
    <3>3. QED
      BY <1>1, <3>2
  <2>4. QED
    BY <1>2, <1>6, <2>1, <2>2, <2>3
<1>7. QED
  BY <1>1, <1>5, <1>6 DEF IsInjective, c

LEMMA PlanOfIsPlan ==
  ASSUME NEW table \in Tables, NEW probes \in SUBSET Probes
  PROVE  IsPlan(PlanOf(table, probes)) /\ PlanKeeps(table, PlanOf(table, probes))
<1> DEFINE E == Existing(table)
           U == Unique(probes)
           s == Matched(table, probes)
           match == Match(table, probes)
           updated == Updated(table, match)
           rows1 == [k \in DOMAIN match.pairs |-> match.pairs[k][1]]
           order == rows1 \o match.left
           found == Duplicates(table, updated, order)
           update == [i \in E \ DOMAIN found.deletes |->
                        UpdateOf(table[i].identity, updated[i], found.alts[i])]
           pl == PlanOf(table, probes)
<1>1. pl = [deletes |-> found.deletes,
            nullify |-> found.nullify,
            updates |-> [i \in {j \in DOMAIN update : update[j] # <<>>} |-> update[i]],
            creates |-> match.new]
  BY DEF PlanOf
<1>2. /\ pl.deletes = found.deletes /\ pl.nullify = found.nullify
      /\ DOMAIN pl.updates \subseteq E \ DOMAIN found.deletes
      /\ \A i \in DOMAIN pl.updates :
           pl.updates[i] = UpdateOf(table[i].identity, updated[i], found.alts[i])
      /\ pl.creates = match.new
      /\ pl = [deletes |-> pl.deletes, nullify |-> pl.nullify, updates |-> pl.updates,
               creates |-> pl.creates]
  <2> HIDE DEF pl, found, updated, match, E
  <2>1. QED
    BY <1>1
<1> HIDE DEF pl
<1>3. /\ match.pairs = s.pairs /\ match.left = s.left
      /\ match.new = {s.maps.uuid[u] : u \in DOMAIN s.maps.uuid}
  BY MatchFields
<1>4. Sound(table, U, s, {}) /\ U \in SUBSET Probes
  BY MatchedStaged, UniqueIsOneByIp DEF Staged
<1> HIDE DEF s, match, U, E
<1>5. /\ match.pairs \in Seq(E \X U) /\ match.left \in Seq(E) /\ IsInjective(match.left)
      /\ \A k, l \in DOMAIN match.pairs : k # l => match.pairs[k][1] # match.pairs[l][1]
      /\ RowsIn(match.pairs) \cap ToSet(match.left) = {}
      /\ RowsIn(match.pairs) \cup ToSet(match.left) = E
  BY <1>3, <1>4 DEF Sound, E
<1>6. rows1 \in Seq(E) /\ IsInjective(rows1) /\ ToSet(rows1) = RowsIn(match.pairs)
  <2>1. Len(match.pairs) \in Nat /\ DOMAIN match.pairs = 1..Len(match.pairs)
    BY <1>5
  <2>2. \A k \in DOMAIN match.pairs : match.pairs[k] \in E \X U
    BY <1>5
  <2>3. \A k \in DOMAIN match.pairs : match.pairs[k][1] \in E
    BY <2>2
  <2>4. rows1 \in [1..Len(match.pairs) -> E]
    BY <2>1, <2>3
  <2>5. rows1 \in Seq(E)
    <3> DEFINE n == Len(match.pairs)
    <3> HIDE DEF n, rows1
    <3>1. rows1 \in [1..n -> E] /\ n \in Nat
      BY <2>1, <2>4 DEF n
    <3>2. QED
      BY <3>1
  <2>6. QED
    BY <1>5, <2>5 DEF IsInjective, ToSet, RowsIn
<1>7. order \in Seq(E) /\ IsInjective(order) /\ ToSet(order) = E
  <2> HIDE DEF rows1
  <2>1. ToSet(rows1) \cap ToSet(match.left) = {}
    BY <1>5, <1>6
  <2>2. /\ order \in Seq(E) /\ IsInjective(order)
        /\ ToSet(order) = ToSet(rows1) \cup ToSet(match.left)
    BY <1>5, <1>6, <2>1, Concatenation
  <2>3. QED
    BY <1>5, <1>6, <2>2
<1>8. E \subseteq Ids
  BY DEF E, Existing
<1> HIDE DEF order, updated
<1>9. DuplicatesSound(table, updated, found, E)
  <2>1. Len(order) \in Nat /\ DOMAIN order = 1..Len(order)
    BY <1>7
  <2> DEFINE n == Len(order)
  <2> HIDE DEF n
  <2>2. n \in Nat /\ DOMAIN order = 1..n
    BY <2>1 DEF n
  <2>3. ToSet(order) \subseteq Ids
    BY <1>7, <1>8
  <2>4. DuplicatesSound(table, updated, Duplicates(table, updated, order), ToSet(order))
    BY <1>7, <2>2, <2>3, DuplicatesAreSound
  <2>5. QED
    BY <1>7, <2>4
<1> HIDE DEF found
<1>10. PlanKeeps(table, pl)
  BY <1>2, <1>9 DEF PlanKeeps, DuplicatesSound, E
<1>11. ASSUME NEW i \in DOMAIN pl.updates
       PROVE  i \in Ids /\ IsChange(pl.updates[i])
  <2>1. i \in E /\ i \notin DOMAIN found.deletes
    BY <1>2
  <2>2. updated[i] \in Identity
    <3>1. match.pairs \in Seq(E \X Probes)
      <4>1. U \subseteq Probes
        BY <1>4
      <4>2. E \X U \subseteq E \X Probes
        BY <4>1
      <4>3. QED
        BY <1>5, <4>2
    <3>2. QED
      BY <2>1, <3>1, UpdatedType DEF updated, E
  <2>3. table[i].identity \in Identity
    BY <2>1, RowOf DEF Row, E
  <2>4. updated[i].alts \in SUBSET Ips
    BY <2>2 DEF Identity
  <2>5. found.alts[i] \in SUBSET Ips
    BY <1>9, <2>1, <2>4 DEF DuplicatesSound
  <2>6. IsChange(UpdateOf(table[i].identity, updated[i], found.alts[i]))
    BY <2>2, <2>3, <2>5, UpdateOfType
  <2>7. QED
    BY <1>2, <1>8, <2>1, <2>6
<1>12. pl.creates \subseteq Probes
  BY <1>2, <1>3, <1>4 DEF Sound, MapsHold
<1>13. DOMAIN pl.deletes \subseteq Ids /\ pl.nullify \subseteq Ids
  BY <1>2, <1>8, <1>9 DEF DuplicatesSound
<1>14. IsPlan(pl)
  BY <1>2, <1>11, <1>12, <1>13 DEF IsPlan
<1>15. QED
  BY <1>10, <1>14 DEF pl

-------------------------------------------------------------------------------
(* The types *)

TypeInv ==
  /\ rows \in Tables
  /\ stage \in [Probes -> {"new", "online", "gone"}]
  /\ seen \in [Hosts -> SUBSET Probes]
  /\ cache \in [Hosts -> Tables]
  /\ sync \in [Hosts -> {"matching", "writing"}]
  /\ DOMAIN plan = Hosts /\ \A h \in Hosts : IsPlan(plan[h])
  /\ token \in [Probes -> {"new", "looking", "adopting", "done"}]
  /\ events \in 0..MaxEvents

LEMMA TypeInvTypeOK ==
  TypeInv => TypeOK
BY DEF TypeInv, TypeOK, Tables, IsPlan, IsChange, Fields

LEMMA NoPlanIsPlan ==
  IsPlan(NoPlan) /\ DOMAIN NoPlan.deletes = {}
BY DEF NoPlan, IsPlan

\* Fields of a row that change leave a row.
LEMMA UpdateRows ==
  ASSUME rows \in Tables, NEW i \in Ids, NEW fields, IsChange(fields)
  PROVE  Update(i, fields) \in Tables /\ Existing(rows) \subseteq Existing(Update(i, fields))
<1>1. CASE rows[i] = Nothing
  BY <1>1 DEF Update
<1>2. CASE rows[i] # Nothing
  <2> DEFINE old == rows[i].identity
             new == [f \in DOMAIN old |-> IF f \in DOMAIN fields THEN fields[f] ELSE old[f]]
             row == [rows[i] EXCEPT !.identity = new]
  <2>1. rows[i] \in Row /\ old \in Identity
    BY <1>2 DEF Tables, Row
  <2>2. DOMAIN old = Fields /\ new = [f \in Fields |-> new[f]]
    BY <2>1, IdentityFields
  <2>3. new \in Identity
    <3>1. \A f \in Fields : new[f] = IF f \in DOMAIN fields THEN fields[f] ELSE old[f]
      BY <2>2
    <3>2. {"uuid", "ip", "alts", "place", "status"} \subseteq Fields
      BY DEF Fields
    <3> HIDE DEF new, old
    <3>3. /\ new["uuid"] \in Uuids /\ new["ip"] \in Ips \cup {Nothing}
          /\ new["alts"] \in SUBSET Ips /\ new["place"] \in Places
          /\ new["status"] \in {"ready", "offline"}
      BY <2>1, <3>1, <3>2, IdentityFields DEF IsChange
    <3>4. QED
      BY <2>2, <3>3, FieldsIdentity
  <2>4. row \in Row
    <3> HIDE DEF new
    <3>1. QED
      BY <2>1, <2>3 DEF Row
  <2>5. Update(i, fields) = [rows EXCEPT ![i] = row]
    BY <1>2 DEF Update
  <2>6. row # Nothing
    BY <2>4, NothingAssumption
  <2>7. QED
    <3> HIDE DEF row
    <3>1. QED
      BY <2>4, <2>5, <2>6 DEF Tables, Existing
<1>3. QED
  BY <1>1, <1>2

\* A row that is set stays a row.
LEMMA SetRow ==
  ASSUME NEW table \in Tables, NEW i \in Ids, NEW row \in Row, NEW new,
         new = [table EXCEPT ![i] = row]
  PROVE  new \in Tables /\ Existing(table) \subseteq Existing(new)
<1>1. row # Nothing
  BY NothingAssumption
<1>2. QED
  BY <1>1 DEF Tables, Existing

LEMMA FormatType ==
  ASSUME NEW p \in Probes
  PROVE  FormatProbeAsDProbe(p) \in Row
BY IdentityOfType DEF FormatProbeAsDProbe, Row

\* What each host has of its plan when a part of it is done.
LEMMA PlanParts ==
  ASSUME NEW pl, IsPlan(pl)
  PROVE  /\ IsPlan([pl EXCEPT !.deletes = <<>>]) /\ DOMAIN [pl EXCEPT !.deletes = <<>>].deletes = {}
         /\ \A i : /\ IsPlan([pl EXCEPT !.nullify = @ \ {i}])
                   /\ [pl EXCEPT !.nullify = @ \ {i}].deletes = pl.deletes
         /\ \A i : /\ IsPlan([pl EXCEPT !.updates = Without(@, {i})])
                   /\ [pl EXCEPT !.updates = Without(@, {i})].deletes = pl.deletes
         /\ \A p : /\ IsPlan([pl EXCEPT !.creates = @ \ {p}])
                   /\ [pl EXCEPT !.creates = @ \ {p}].deletes = pl.deletes
<1>1. pl = [deletes |-> pl.deletes, nullify |-> pl.nullify, updates |-> pl.updates,
            creates |-> pl.creates]
  BY DEF IsPlan
<1>2. IsPlan([pl EXCEPT !.deletes = <<>>]) /\ DOMAIN [pl EXCEPT !.deletes = <<>>].deletes = {}
  <2> DEFINE q == [pl EXCEPT !.deletes = <<>>]
  <2>1. q = [deletes |-> <<>>, nullify |-> pl.nullify, updates |-> pl.updates, creates |-> pl.creates]
    BY <1>1
  <2>2. /\ q.deletes = <<>> /\ q.nullify = pl.nullify /\ q.updates = pl.updates
        /\ q.creates = pl.creates
        /\ q = [deletes |-> q.deletes, nullify |-> q.nullify, updates |-> q.updates,
                creates |-> q.creates]
    BY <2>1
  <2> HIDE DEF q
  <2>3. DOMAIN q.deletes = {}
    BY <2>2
  <2>4. QED
    BY <2>2, <2>3 DEF IsPlan, q
<1>3. ASSUME NEW i
      PROVE  /\ IsPlan([pl EXCEPT !.nullify = @ \ {i}])
             /\ [pl EXCEPT !.nullify = @ \ {i}].deletes = pl.deletes
  <2> DEFINE q == [pl EXCEPT !.nullify = @ \ {i}]
  <2>1. q = [deletes |-> pl.deletes, nullify |-> pl.nullify \ {i}, updates |-> pl.updates,
             creates |-> pl.creates]
    BY <1>1
  <2>2. /\ q.deletes = pl.deletes /\ q.nullify = pl.nullify \ {i} /\ q.updates = pl.updates
        /\ q.creates = pl.creates
        /\ q = [deletes |-> q.deletes, nullify |-> q.nullify, updates |-> q.updates,
                creates |-> q.creates]
    BY <2>1
  <2> HIDE DEF q
  <2>3. QED
    BY <2>2 DEF IsPlan, q
<1>4. ASSUME NEW i
      PROVE  /\ IsPlan([pl EXCEPT !.updates = Without(@, {i})])
             /\ [pl EXCEPT !.updates = Without(@, {i})].deletes = pl.deletes
  <2> DEFINE q == [pl EXCEPT !.updates = Without(@, {i})]
             less == Without(pl.updates, {i})
  <2>1. q = [deletes |-> pl.deletes, nullify |-> pl.nullify, updates |-> less,
             creates |-> pl.creates]
    <3> HIDE DEF less
    <3>1. q = [pl EXCEPT !.updates = less]
      BY DEF less
    <3> HIDE DEF q
    <3>2. QED
      BY <1>1, <3>1
  <2>2. DOMAIN less \subseteq DOMAIN pl.updates /\ \A j \in DOMAIN less : less[j] = pl.updates[j]
    BY DEF Without
  <2> HIDE DEF q, less
  <2>3. /\ q.deletes = pl.deletes /\ q.nullify = pl.nullify /\ q.updates = less
        /\ q.creates = pl.creates
        /\ q = [deletes |-> q.deletes, nullify |-> q.nullify, updates |-> q.updates,
                creates |-> q.creates]
    BY <2>1
  <2>4. QED
    BY <2>2, <2>3 DEF IsPlan, q
<1>5. ASSUME NEW p
      PROVE  /\ IsPlan([pl EXCEPT !.creates = @ \ {p}])
             /\ [pl EXCEPT !.creates = @ \ {p}].deletes = pl.deletes
  <2> DEFINE q == [pl EXCEPT !.creates = @ \ {p}]
  <2>1. q = [deletes |-> pl.deletes, nullify |-> pl.nullify, updates |-> pl.updates,
             creates |-> pl.creates \ {p}]
    BY <1>1
  <2>2. /\ q.deletes = pl.deletes /\ q.nullify = pl.nullify /\ q.updates = pl.updates
        /\ q.creates = pl.creates \ {p}
        /\ q = [deletes |-> q.deletes, nullify |-> q.nullify, updates |-> q.updates,
                creates |-> q.creates]
    BY <2>1
  <2> HIDE DEF q
  <2>3. QED
    BY <2>2 DEF IsPlan, q
<1>6. QED
  BY <1>2, <1>3, <1>4, <1>5

-------------------------------------------------------------------------------
(* The invariant *)

\* What a plan deletes, it keeps of the rows the host has read.
KeepInv == \A h \in Hosts : PlanKeeps(cache[h], plan[h])

AdoptionInv == TypeInv /\ KeepInv

LEMMA InitAdoption ==
  Init => AdoptionInv
<1> SUFFICES ASSUME Init
             PROVE  AdoptionInv
  OBVIOUS
<1>1. rows \in Tables
  BY DEF Init, Tables
<1>2. DOMAIN plan = Hosts /\ \A h \in Hosts : plan[h] = NoPlan
  BY DEF Init
<1>3. TypeInv
  BY <1>1, <1>2, NoPlanIsPlan, BoundsAssumption DEF Init, TypeInv
<1>4. KeepInv
  BY <1>2, NoPlanIsPlan DEF KeepInv, PlanKeeps
<1>5. QED
  BY <1>3, <1>4 DEF AdoptionInv

\* A host has a new plan: one that keeps what the old one did, or deletes nothing.
LEMMA PlanStep ==
  ASSUME AdoptionInv, NEW h \in Hosts, NEW q, IsPlan(q),
         q.deletes = plan[h].deletes \/ DOMAIN q.deletes = {},
         plan' = [plan EXCEPT ![h] = q], cache' = cache
  PROVE  /\ DOMAIN plan' = Hosts /\ \A g \in Hosts : IsPlan(plan'[g])
         /\ KeepInv'
<1>1. DOMAIN plan = Hosts /\ \A g \in Hosts : IsPlan(plan[g]) /\ PlanKeeps(cache[g], plan[g])
  BY DEF AdoptionInv, TypeInv, KeepInv
<1>2. DOMAIN plan' = Hosts /\ plan'[h] = q /\ \A g \in Hosts : g # h => plan'[g] = plan[g]
  BY <1>1
<1>3. PlanKeeps(cache[h], q)
  BY <1>1 DEF PlanKeeps
<1>4. \A g \in Hosts : PlanKeeps(cache'[g], plan'[g])
  BY <1>1, <1>2, <1>3
<1>5. QED
  BY <1>1, <1>2, <1>4 DEF KeepInv

\* The rows after a step: rows again, and none of them has gone unless a host deletes.
RowsGrow == rows' \in Tables /\ Existing(rows) \subseteq Existing(rows')

LEMMA EventBound ==
  ASSUME TypeInv, Event
  PROVE  events' \in 0..MaxEvents
BY BoundsAssumption DEF TypeInv, Event

LEMMA QuietSteps ==
  ASSUME AdoptionInv, UNCHANGED <<rows, plan, events, cache>>,
         stage' \in [Probes -> {"new", "online", "gone"}],
         seen' \in [Hosts -> SUBSET Probes],
         sync' \in [Hosts -> {"matching", "writing"}],
         token' \in [Probes -> {"new", "looking", "adopting", "done"}]
  PROVE  AdoptionInv' /\ RowsGrow
BY DEF AdoptionInv, TypeInv, KeepInv, RowsGrow

LEMMA ProbeStepAdoption ==
  ASSUME AdoptionInv, NEW p \in Probes, ProbeStep(p)
  PROVE  AdoptionInv' /\ RowsGrow
<1>0. TypeInv /\ KeepInv
  BY DEF AdoptionInv
<1>1. CASE Connect(p)
  <2>1. stage' \in [Probes -> {"new", "online", "gone"}]
    BY <1>0, <1>1 DEF Connect, TypeInv
  <2>2. QED
    BY <1>0, <1>1, <2>1, QuietSteps DEF Connect, TypeInv
<1>2. CASE Disconnect(p)
  <2>1. stage' \in [Probes -> {"new", "online", "gone"}]
    BY <1>0, <1>2 DEF Disconnect, TypeInv
  <2>2. QED
    BY <1>0, <1>2, <2>1, QuietSteps DEF Disconnect, TypeInv
<1>3. CASE FetchDProbe(p)
  <2>1. token' \in [Probes -> {"new", "looking", "adopting", "done"}]
    BY <1>0, <1>3 DEF FetchDProbe, TypeInv
  <2>2. QED
    BY <1>0, <1>3, <2>1, QuietSteps DEF FetchDProbe, TypeInv
<1>4. CASE \E h \in Hosts : ValidateToken(h, p)
  <2>1. token' \in [Probes -> {"new", "looking", "adopting", "done"}]
    BY <1>0, <1>4 DEF ValidateToken, TypeInv
  <2>2. QED
    BY <1>0, <1>4, <2>1, QuietSteps DEF ValidateToken, TypeInv
<1>5. CASE AdoptByToken(p)
  <2>1. PICK i \in IF RowsOf(p) = {} THEN FreshIds ELSE RowsOf(p) :
          Execute([rows EXCEPT ![i] =
            [(IF @ = Nothing THEN FormatProbeAsDProbe(p) ELSE @) EXCEPT !.user = Data[p].token]])
    BY <1>5 DEF AdoptByToken
  <2>2. i \in Ids
    BY DEF RowsOf, FreshIds, Existing
  <2> DEFINE base == IF rows[i] = Nothing THEN FormatProbeAsDProbe(p) ELSE rows[i]
             row == [base EXCEPT !.user = Data[p].token]
             new == [rows EXCEPT ![i] = row]
  <2>3. base \in Row
    BY <1>0, <2>2, FormatType DEF TypeInv, Tables
  <2>4. row \in Row
    <3>1. Data[p].token \in Users \cup {Nothing}
      BY DataAssumption
    <3> HIDE DEF base
    <3>2. QED
      BY <2>3, <3>1 DEF Row
  <2>5. new \in Tables /\ Existing(rows) \subseteq Existing(new)
    <3>1. rows \in Tables
      BY <1>0 DEF TypeInv
    <3> HIDE DEF row
    <3>2. QED
      BY <2>2, <2>4, <3>1, SetRow
  <2>6. (rows' = new /\ events' = events) \/ (rows' = rows /\ Event)
    BY <1>0, <2>1, <2>2 DEF Execute
  <2>7. RowsGrow /\ events' \in 0..MaxEvents
    <3> HIDE DEF new
    <3>1. QED
      BY <1>0, <2>5, <2>6, EventBound DEF TypeInv, RowsGrow
  <2>8. token' \in [Probes -> {"new", "looking", "adopting", "done"}]
    BY <1>0, <1>5 DEF AdoptByToken, TypeInv
  <2>9. UNCHANGED <<stage, seen, cache, sync, plan>>
    BY <1>5 DEF AdoptByToken
  <2>10. AdoptionInv'
    BY <1>0, <2>7, <2>8, <2>9 DEF AdoptionInv, TypeInv, KeepInv, RowsGrow
  <2>11. QED
    BY <2>7, <2>10
<1>6. QED
  BY <1>1, <1>2, <1>3, <1>4, <1>5 DEF ProbeStep

LEMMA AdoptAdoption ==
  ASSUME AdoptionInv, NEW i \in Ids, NEW u \in Users, Adopt(i, u)
  PROVE  AdoptionInv' /\ RowsGrow
<1>1. rows \in Tables /\ rows[i] \in Row
  BY DEF AdoptionInv, TypeInv, Adopt, Tables
<1> DEFINE row == [rows[i] EXCEPT !.user = u]
<1>2. row \in Row
  BY <1>1 DEF Row
<1>3. rows' = [rows EXCEPT ![i] = row]
  BY DEF Adopt
<1>4. RowsGrow
  <2> HIDE DEF row
  <2>1. QED
    BY <1>1, <1>2, <1>3, SetRow DEF RowsGrow
<1>5. events' \in 0..MaxEvents
  BY EventBound DEF Adopt, AdoptionInv
<1>6. AdoptionInv'
  BY <1>4, <1>5 DEF AdoptionInv, TypeInv, KeepInv, RowsGrow, Adopt
<1>7. QED
  BY <1>4, <1>6

LEMMA SeeAdoption ==
  ASSUME AdoptionInv, NEW h \in Hosts, See(h)
  PROVE  AdoptionInv' /\ RowsGrow
<1>1. Online \in SUBSET Probes
  BY DEF Online
<1>2. seen' \in [Hosts -> SUBSET Probes]
  BY <1>1 DEF See, AdoptionInv, TypeInv
<1>3. QED
  BY <1>2, QuietSteps DEF See, AdoptionInv, TypeInv

LEMMA FetchAdoption ==
  ASSUME AdoptionInv, NEW h \in Hosts, FetchDProbes(h)
  PROVE  AdoptionInv' /\ RowsGrow
<1>1. TypeInv'
  BY DEF FetchDProbes, AdoptionInv, TypeInv
<1>2. ASSUME NEW g \in Hosts
      PROVE  PlanKeeps(cache'[g], plan'[g])
  <2>1. CASE g = h
    <3>1. plan'[g] = NoPlan
      BY <2>1 DEF FetchDProbes
    <3>2. QED
      BY <3>1, NoPlanIsPlan DEF PlanKeeps
  <2>2. CASE g # h
    <3>1. cache'[g] = cache[g] /\ plan'[g] = plan[g]
      BY <2>2 DEF FetchDProbes, AdoptionInv, TypeInv
    <3>2. QED
      BY <3>1 DEF AdoptionInv, KeepInv
  <2>3. QED
    BY <2>1, <2>2
<1>3. RowsGrow
  BY DEF FetchDProbes, AdoptionInv, TypeInv, RowsGrow
<1>4. QED
  BY <1>1, <1>2, <1>3 DEF AdoptionInv, KeepInv

LEMMA MakePlanAdoption ==
  ASSUME AdoptionInv, NEW h \in Hosts, MakePlan(h)
  PROVE  AdoptionInv' /\ RowsGrow
<1> DEFINE q == PlanOf(cache[h], seen[h])
<1>1. cache[h] \in Tables /\ seen[h] \in SUBSET Probes /\ DOMAIN plan = Hosts
  BY DEF AdoptionInv, TypeInv
<1>2. IsPlan(q) /\ PlanKeeps(cache[h], q)
  BY <1>1, PlanOfIsPlan
<1>3. plan' = [plan EXCEPT ![h] = q] /\ cache' = cache
  BY DEF MakePlan
<1> HIDE DEF q
<1>4. DOMAIN plan' = Hosts /\ plan'[h] = q /\ \A g \in Hosts : g # h => plan'[g] = plan[g]
  BY <1>1, <1>3
<1>5. \A g \in Hosts : IsPlan(plan'[g]) /\ PlanKeeps(cache'[g], plan'[g])
  BY <1>2, <1>3, <1>4 DEF AdoptionInv, TypeInv, KeepInv
<1>6. TypeInv'
  BY <1>4, <1>5 DEF MakePlan, AdoptionInv, TypeInv
<1>7. RowsGrow
  BY DEF MakePlan, AdoptionInv, TypeInv, RowsGrow
<1>8. QED
  BY <1>5, <1>6, <1>7 DEF AdoptionInv, KeepInv

\* A command of a sync is executed, or fails.
LEMMA WriteAdoption ==
  ASSUME AdoptionInv, NEW h \in Hosts, NEW q, IsPlan(q),
         q.deletes = plan[h].deletes \/ DOMAIN q.deletes = {},
         plan' = [plan EXCEPT ![h] = q],
         rows' \in Tables, events' = events \/ Event,
         UNCHANGED <<stage, seen, cache, sync, token>>
  PROVE  AdoptionInv'
<1>1. DOMAIN plan' = Hosts /\ (\A g \in Hosts : IsPlan(plan'[g])) /\ KeepInv'
  BY PlanStep
<1>2. events' \in 0..MaxEvents
  BY EventBound DEF AdoptionInv, TypeInv
<1>3. QED
  BY <1>1, <1>2 DEF AdoptionInv, TypeInv

LEMMA DeleteAdoption ==
  ASSUME AdoptionInv, NEW h \in Hosts, DeleteDProbes(h)
  PROVE  AdoptionInv'
<1> DEFINE new == [i \in Ids |-> IF i \in DOMAIN plan[h].deletes THEN Nothing ELSE rows[i]]
           q == [plan[h] EXCEPT !.deletes = <<>>]
<1>1. IsPlan(plan[h]) /\ rows \in Tables /\ h \in DOMAIN plan
  BY DEF AdoptionInv, TypeInv
<1>2. IsPlan(q) /\ DOMAIN q.deletes = {}
  BY <1>1, PlanParts
<1>3. plan' = [plan EXCEPT ![h] = q]
  BY <1>1 DEF DeleteDProbes
<1>4. new \in Tables
  BY <1>1 DEF Tables
<1>5. (rows' = new /\ events' = events) \/ (rows' = rows /\ Event)
  BY DEF DeleteDProbes, Execute
<1> HIDE DEF new, q
<1>6. rows' \in Tables /\ (events' = events \/ Event)
  BY <1>1, <1>4, <1>5
<1>7. UNCHANGED <<stage, seen, cache, sync, token>>
  BY DEF DeleteDProbes
<1>8. QED
  BY <1>2, <1>3, <1>6, <1>7, WriteAdoption

LEMMA NullifyAdoption ==
  ASSUME AdoptionInv, NEW h \in Hosts, NEW i \in Ids, NullifyIp(h, i)
  PROVE  AdoptionInv' /\ RowsGrow
<1> DEFINE fields == [ip |-> Nothing, status |-> "offline"]
           new == Update(i, fields)
           q == [plan[h] EXCEPT !.nullify = @ \ {i}]
<1>1. IsPlan(plan[h]) /\ rows \in Tables /\ h \in DOMAIN plan
  BY DEF AdoptionInv, TypeInv
<1>2. IsPlan(q) /\ q.deletes = plan[h].deletes
  BY <1>1, PlanParts
<1>3. plan' = [plan EXCEPT ![h] = q]
  BY <1>1 DEF NullifyIp
<1>4. IsChange(fields)
  BY DEF IsChange, Fields
<1>5. (rows' = new /\ events' = events) \/ (rows' = rows /\ Event)
  BY DEF NullifyIp, Execute
<1> HIDE DEF fields
<1>6. new \in Tables /\ Existing(rows) \subseteq Existing(new)
  BY <1>1, <1>4, UpdateRows
<1> HIDE DEF new, q
<1>7. RowsGrow /\ (events' = events \/ Event)
  BY <1>1, <1>5, <1>6 DEF RowsGrow
<1>8. UNCHANGED <<stage, seen, cache, sync, token>>
  BY DEF NullifyIp
<1>9. AdoptionInv'
  BY <1>2, <1>3, <1>7, <1>8, WriteAdoption DEF RowsGrow
<1>10. QED
  BY <1>7, <1>9

LEMMA UpdateAdoption ==
  ASSUME AdoptionInv, NEW h \in Hosts, NEW i \in Ids, UpdateDProbe(h, i)
  PROVE  AdoptionInv' /\ RowsGrow
<1> DEFINE fields == plan[h].updates[i]
           new == Update(i, fields)
           q == [plan[h] EXCEPT !.updates = Without(@, {i})]
<1>1. IsPlan(plan[h]) /\ rows \in Tables /\ h \in DOMAIN plan
  BY DEF AdoptionInv, TypeInv
<1>2. IsPlan(q) /\ q.deletes = plan[h].deletes
  BY <1>1, PlanParts
<1>3. plan' = [plan EXCEPT ![h] = q]
  BY <1>1 DEF UpdateDProbe
<1>4. IsChange(fields)
  BY <1>1 DEF UpdateDProbe, IsPlan
<1>5. (rows' = new /\ events' = events) \/ (rows' = rows /\ Event)
  BY DEF UpdateDProbe, Execute
<1> HIDE DEF fields
<1>6. new \in Tables /\ Existing(rows) \subseteq Existing(new)
  BY <1>1, <1>4, UpdateRows
<1> HIDE DEF new, q
<1>7. RowsGrow /\ (events' = events \/ Event)
  BY <1>1, <1>5, <1>6 DEF RowsGrow
<1>8. UNCHANGED <<stage, seen, cache, sync, token>>
  BY DEF UpdateDProbe
<1>9. AdoptionInv'
  BY <1>2, <1>3, <1>7, <1>8, WriteAdoption DEF RowsGrow
<1>10. QED
  BY <1>7, <1>9

LEMMA CreateAdoption ==
  ASSUME AdoptionInv, NEW h \in Hosts, NEW p \in Probes, NEW i \in Ids, CreateDProbe(h, p, i)
  PROVE  AdoptionInv' /\ RowsGrow
<1> DEFINE row == FormatProbeAsDProbe(p)
           new == [rows EXCEPT ![i] = row]
           q == [plan[h] EXCEPT !.creates = @ \ {p}]
<1>1. IsPlan(plan[h]) /\ rows \in Tables /\ h \in DOMAIN plan
  BY DEF AdoptionInv, TypeInv
<1>2. IsPlan(q) /\ q.deletes = plan[h].deletes
  BY <1>1, PlanParts
<1>3. plan' = [plan EXCEPT ![h] = q]
  BY <1>1 DEF CreateDProbe
<1>4. row \in Row
  BY FormatType
<1>5. (rows' = new /\ events' = events) \/ (rows' = rows /\ Event)
  BY DEF CreateDProbe, Execute
<1> HIDE DEF row
<1>6. new \in Tables /\ Existing(rows) \subseteq Existing(new)
  BY <1>1, <1>4, SetRow
<1> HIDE DEF new, q
<1>7. RowsGrow /\ (events' = events \/ Event)
  BY <1>1, <1>5, <1>6 DEF RowsGrow
<1>8. UNCHANGED <<stage, seen, cache, sync, token>>
  BY DEF CreateDProbe
<1>9. AdoptionInv'
  BY <1>2, <1>3, <1>7, <1>8, WriteAdoption DEF RowsGrow
<1>10. QED
  BY <1>7, <1>9

\* Every step keeps the invariant, and the rows unless it is a deletion.
LEMMA AdoptionStep ==
  ASSUME AdoptionInv, [Next]_vars
  PROVE  AdoptionInv' /\ (RowsGrow \/ \E h \in Hosts : DeleteDProbes(h))
<1>1. CASE \E h \in Hosts : See(h)
  BY <1>1, SeeAdoption
<1>2. CASE \E h \in Hosts : MakePlan(h)
  BY <1>2, MakePlanAdoption
<1>3. CASE \E h \in Hosts : WriteStep(h)
  <2>1. PICK h \in Hosts : WriteStep(h)
    BY <1>3
  <2>2. CASE FetchDProbes(h)
    BY <2>2, FetchAdoption
  <2>3. CASE DeleteDProbes(h)
    BY <2>3, DeleteAdoption
  <2>4. CASE \E i \in Ids : NullifyIp(h, i)
    BY <2>4, NullifyAdoption
  <2>5. CASE \E i \in Ids : UpdateDProbe(h, i)
    BY <2>5, UpdateAdoption
  <2>6. CASE \E i \in Ids : \E p \in Probes : CreateDProbe(h, p, i)
    BY <2>6, CreateAdoption
  <2>7. QED
    BY <2>1, <2>2, <2>3, <2>4, <2>5, <2>6 DEF WriteStep
<1>4. CASE \E p \in Probes : ProbeStep(p)
  BY <1>4, ProbeStepAdoption
<1>5. CASE \E i \in Ids, u \in Users : Adopt(i, u)
  BY <1>5, AdoptAdoption
<1>6. CASE UNCHANGED vars
  BY <1>6 DEF vars, AdoptionInv, TypeInv, KeepInv, RowsGrow
<1>7. QED
  BY <1>1, <1>2, <1>3, <1>4, <1>5, <1>6 DEF Next

\* The rows, the caches and the plans keep their types, and whatever a plan deletes it keeps a
\* row of the same user for: for any hosts, probes, users and number of rows.
THEOREM AdoptionInvariant ==
  Spec => []AdoptionInv
<1>1. AdoptionInv /\ [Next]_vars => AdoptionInv'
  BY AdoptionStep
<1>2. QED
  BY InitAdoption, <1>1, PTL DEF Spec

\* In every state, the matching of the rows in the table with the probes that any host sees is
\* sound: of matchDProbesAndProbes, for any table and any probes.
THEOREM MatchesAlwaysSound ==
  Spec => []MatchesAreSound
<1>1. AdoptionInv => MatchesAreSound
  <2> SUFFICES ASSUME AdoptionInv
               PROVE  MatchesAreSound
    OBVIOUS
  <2>1. TypeOK
    BY TypeInvTypeOK DEF AdoptionInv
  <2>2. ASSUME NEW h \in Hosts
        PROVE  MatchSound(rows, seen[h])
    <3>1. rows \in Tables /\ seen[h] \in SUBSET Probes
      BY DEF AdoptionInv, TypeInv
    <3>2. QED
      BY <3>1, MatchIsSound
  <2>3. QED
    BY <2>1, <2>2 DEF MatchesAreSound, MatchSound
<1>2. QED
  BY AdoptionInvariant, <1>1, PTL

-------------------------------------------------------------------------------
(* The syncs of one host *)

\* A host that has read the rows has no plan yet, and what it has read is still there until it
\* has deleted what it will.
CachedInv ==
  \A h \in Hosts :
    /\ sync[h] = "matching" => plan[h] = NoPlan
    /\ sync[h] = "matching" \/ DOMAIN plan[h].deletes # {} => Existing(cache[h]) \subseteq Existing(rows)

LEMMA InitCached ==
  Init => CachedInv
BY NoPlanIsPlan DEF Init, CachedInv

LEMMA CachedStep ==
  ASSUME OneHost, AdoptionInv, CachedInv, [Next]_vars
  PROVE  CachedInv'
<1>1. SUFFICES ASSUME NEW h \in Hosts
               PROVE  /\ sync'[h] = "matching" => plan'[h] = NoPlan
                      /\ (sync'[h] = "matching" \/ DOMAIN plan'[h].deletes # {})
                           => Existing(cache'[h]) \subseteq Existing(rows')
  BY DEF CachedInv
<1>2. TypeInv /\ h \in DOMAIN plan /\ IsPlan(plan[h])
  BY DEF AdoptionInv, TypeInv
<1>3. CASE DeleteDProbes(h)
  <2>1. sync[h] # "matching"
    <3>1. plan[h].deletes # <<>>
      BY <1>3 DEF DeleteDProbes
    <3>2. QED
      BY <3>1 DEF CachedInv, NoPlan
  <2>2. DOMAIN plan'[h].deletes = {}
    <3>1. plan'[h] = [plan[h] EXCEPT !.deletes = <<>>]
      BY <1>2, <1>3 DEF DeleteDProbes
    <3>2. QED
      BY <1>2, <3>1, PlanParts
  <2>3. sync'[h] = sync[h]
    BY <1>3 DEF DeleteDProbes
  <2>4. QED
    BY <2>1, <2>2, <2>3
<1>4. CASE FetchDProbes(h)
  BY <1>2, <1>4 DEF FetchDProbes, TypeInv
<1>5. CASE MakePlan(h)
  BY <1>2, <1>5 DEF MakePlan, TypeInv, CachedInv
<1>6. CASE RowsGrow /\ ~FetchDProbes(h) /\ ~MakePlan(h) /\ ~DeleteDProbes(h)
  <2>1. sync'[h] = sync[h] /\ cache'[h] = cache[h]
    <3>1. \A g \in Hosts : ~FetchDProbes(g) /\ ~MakePlan(g)
      BY <1>6 DEF OneHost
    <3>2. QED
      BY <3>1 DEF Next, vars, WriteStep, ProbeStep, See, NullifyIp, UpdateDProbe, CreateDProbe,
                  DeleteDProbes, Connect, Disconnect, FetchDProbe, AdoptByToken, ValidateToken, Adopt
  <2>2. DOMAIN plan'[h].deletes # {} => DOMAIN plan[h].deletes # {}
    <3>1. CASE plan' = plan
      BY <3>1
    <3>2. CASE \E i \in Ids : NullifyIp(h, i)
      <4>1. PICK i \in Ids : plan'[h] = [plan[h] EXCEPT !.nullify = @ \ {i}]
        BY <1>2, <3>2 DEF NullifyIp
      <4>2. QED
        BY <1>2, <4>1, PlanParts
    <3>3. CASE \E i \in Ids : UpdateDProbe(h, i)
      <4>1. PICK i \in Ids : plan'[h] = [plan[h] EXCEPT !.updates = Without(@, {i})]
        BY <1>2, <3>3 DEF UpdateDProbe
      <4>2. QED
        BY <1>2, <4>1, PlanParts
    <3>4. CASE \E i \in Ids, p \in Probes : CreateDProbe(h, p, i)
      <4>1. PICK p \in Probes : plan'[h] = [plan[h] EXCEPT !.creates = @ \ {p}]
        BY <1>2, <3>4 DEF CreateDProbe
      <4>2. QED
        BY <1>2, <4>1, PlanParts
    <3>5. QED
      BY <1>6, <3>1, <3>2, <3>3, <3>4
      DEF OneHost, Next, vars, WriteStep, ProbeStep, See, Connect, Disconnect, FetchDProbe,
          AdoptByToken, ValidateToken, Adopt
  <2>3. sync[h] = "matching" => plan'[h] = plan[h]
    <3>1. SUFFICES ASSUME sync[h] = "matching", plan' # plan
                   PROVE  FALSE
      OBVIOUS
    <3>2. plan[h] = NoPlan
      BY <3>1 DEF CachedInv
    <3>3. \E g \in Hosts, i \in Ids :
            \/ NullifyIp(g, i) \/ UpdateDProbe(g, i)
            \/ \E p \in Probes : CreateDProbe(g, p, i)
      BY <1>6, <3>1
      DEF OneHost, Next, vars, WriteStep, ProbeStep, See, Connect, Disconnect, FetchDProbe,
          AdoptByToken, ValidateToken, Adopt
    <3>4. \E i \in Ids : \/ NullifyIp(h, i) \/ UpdateDProbe(h, i)
                         \/ \E p \in Probes : CreateDProbe(h, p, i)
      BY <3>3 DEF OneHost
    <3>5. QED
      BY <3>2, <3>4 DEF NullifyIp, UpdateDProbe, CreateDProbe, NoPlan
  <2>4. QED
    BY <1>6, <2>1, <2>2, <2>3 DEF CachedInv, RowsGrow
<1>7. RowsGrow \/ DeleteDProbes(h)
  BY AdoptionStep DEF OneHost
<1>8. QED
  BY <1>3, <1>4, <1>5, <1>6, <1>7

\* What AdoptionsAreKept says of one step.
KeptStep ==
  \A i \in Ids, h \in Hosts :
    rows[i] # Nothing /\ rows'[i] = Nothing /\ i \in DOMAIN plan[h].deletes =>
      LET stays == plan[h].deletes[i] IN
        /\ Owner(cache[h], i) # Nothing => Owner(cache[h], stays) = Owner(cache[h], i)
        /\ OneHost => rows'[stays] # Nothing

\* What a host deletes has an equal in what it has read, which it does not delete.
LEMMA EqualStays ==
  ASSUME AdoptionInv, NEW h \in Hosts, NEW i \in DOMAIN plan[h].deletes
  PROVE  LET stays == plan[h].deletes[i] IN
           /\ stays \in Existing(cache[h]) \ DOMAIN plan[h].deletes
           /\ Owner(cache[h], i) # Nothing => Owner(cache[h], stays) = Owner(cache[h], i)
<1> DEFINE stays == plan[h].deletes[i]
<1>1. /\ i \in Existing(cache[h])
      /\ stays \in Existing(cache[h]) \ DOMAIN plan[h].deletes
      /\ Owned(cache[h], i) => cache[h][stays].user = cache[h][i].user
  BY DEF AdoptionInv, KeepInv, PlanKeeps
<1>2. i # Nothing /\ stays # Nothing
  BY <1>1, NothingAssumption DEF Existing
<1>3. QED
  BY <1>1, <1>2 DEF Owner, Owned

\* If no other host deletes rows, it is in the table, too.
LEMMA DeletionKeeps ==
  ASSUME OneHost, AdoptionInv, CachedInv, [Next]_vars,
         NEW i \in Ids, NEW h \in Hosts,
         rows[i] # Nothing, rows'[i] = Nothing, i \in DOMAIN plan[h].deletes
  PROVE  rows'[plan[h].deletes[i]] # Nothing
<1> DEFINE stays == plan[h].deletes[i]
<1>1. ~RowsGrow
  BY DEF RowsGrow, Existing
<1>2. DeleteDProbes(h)
  BY <1>1, AdoptionStep DEF OneHost
<1>3. rows' = [j \in Ids |-> IF j \in DOMAIN plan[h].deletes THEN Nothing ELSE rows[j]]
  BY <1>2 DEF DeleteDProbes, Execute
<1>4. stays \in Existing(cache[h]) \ DOMAIN plan[h].deletes
  BY EqualStays
<1>5. stays \in Existing(rows)
  BY <1>4 DEF CachedInv
<1>6. QED
  BY <1>3, <1>4, <1>5 DEF Existing

\* A sync that deletes an adopted row keeps one of the same user, which is there afterwards if
\* there is one API host.
THEOREM AdoptionsAlwaysKept == Spec => AdoptionsAreKept
<1> DEFINE Inv == AdoptionInv /\ (OneHost => CachedInv)
<1>1. Init => Inv
  BY InitAdoption, InitCached
<1>2. Inv /\ [Next]_vars => Inv'
  <2>1. ASSUME Inv, [Next]_vars
        PROVE  AdoptionInv'
    BY <2>1, AdoptionStep
  <2>2. ASSUME Inv, [Next]_vars, OneHost
        PROVE  CachedInv'
    BY <2>2, CachedStep
  <2>3. QED
    BY <2>1, <2>2
<1>3. Inv /\ [Next]_vars => [KeptStep]_vars
  <2>1. ASSUME Inv, [Next]_vars,
               NEW i \in Ids, NEW h \in Hosts,
               rows[i] # Nothing, rows'[i] = Nothing, i \in DOMAIN plan[h].deletes
        PROVE  LET stays == plan[h].deletes[i] IN
                 /\ Owner(cache[h], i) # Nothing => Owner(cache[h], stays) = Owner(cache[h], i)
                 /\ OneHost => rows'[stays] # Nothing
    <3>1. OneHost => rows'[plan[h].deletes[i]] # Nothing
      BY <2>1, DeletionKeeps
    <3>2. QED
      BY <2>1, <3>1, EqualStays
  <2>2. QED
    BY <2>1 DEF KeptStep
<1>4. Spec => [][KeptStep]_vars
  BY <1>1, <1>2, <1>3, PTL DEF Spec
<1>5. QED
  BY <1>4 DEF AdoptionsAreKept, KeptStep
===============================================================================
