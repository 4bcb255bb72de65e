--------------------------- MODULE Engine_proofs ---------------------------
(***************************************************************************)
(* Proofs about Engine, for every set of versions, concepts, definitions,  *)
(* returns and entries, every span of years and any number of runs.  In    *)
(* this order: the walk that puts factors and models in an order is right  *)
(* on acyclic graphs, and registration lets only those in; a score depends *)
(* on the year's values and on the totals of the models it reads, so that  *)
(* a rebuild's rows are a fixed point, the only one; a score on request is *)
(* the row of that fixed point; nothing but a deviation that is too large  *)
(* to square raises; an unflagged row is the total without any filling;    *)
(* storing rows changes nothing a run reads.  The inductive invariant Inv  *)
(* puts these together for every step.                                     *)
(***************************************************************************)
EXTENDS Engine, FiniteSetTheorems, SequenceTheorems, WellFoundedInduction, TLAPS

(* Names for a set, two orders and two starting points the lemmas about     *)
(* folds take as parameters.                                                *)
Nothing == {}
OrderOf(org, versions) == VersionOrder(org.models, versions).order
ChainOrder(org, v) == VersionOrder(org.models, Closure(org.models, {v}) \ {v}).order
NoTotals == << >>
NoForms == << >>

(* Least and greatest elements.                                             *)
LEMMA HasLeast ==
  ASSUME NEW S \in SUBSET Nat, S # {} PROVE \E i \in S : \A j \in S : i <= j
<1>1. PICK i \in S : \A j \in S : ~ (<<j, i>> \in OpToRel(<, Nat))
  BY WFMin, NatLessThanWellFounded
<1>2. ASSUME NEW j \in S PROVE i <= j
  <2>1. ~ (<<j, i>> \in {ss \in Nat \X Nat : ss[1] < ss[2]})
    BY <1>1 DEF OpToRel
  <2> QED BY <2>1
<1> QED BY <1>1, <1>2

LEMMA HasMost ==
  ASSUME NEW n \in Nat, NEW S \in SUBSET (1..n), S # {}
  PROVE  \E i \in S : \A j \in S : i >= j
<1> DEFINE above == {i \in Nat : \A j \in S : j <= i}
<1>1. n \in above /\ above \in SUBSET Nat
  OBVIOUS
<1>2. PICK i \in above : \A j \in above : i <= j
  BY <1>1, HasLeast
<1>3. i \in S
  <2> SUFFICES ASSUME i \notin S PROVE FALSE
    OBVIOUS
  <2>1. PICK j \in S : TRUE
    OBVIOUS
  <2>2. i \in Nat /\ j \in Nat /\ 1 <= j /\ j <= i
    BY <1>2
  <2>3. ASSUME NEW m \in S PROVE m <= i - 1
    <3>1. m \in Nat /\ m <= i /\ m # i
      BY <1>2
    <3> QED BY <2>2, <3>1
  <2>4. i - 1 \in Nat
    BY <2>2
  <2>5. i - 1 \in above
    BY <2>3, <2>4
  <2>6. i <= i - 1
    BY <1>2, <2>5
  <2> QED BY <2>2, <2>6
<1> QED BY <1>2, <1>3

-----------------------------------------------------------------------------
(* A fold over a sequence takes one step for each of its elements: its      *)
(* result is the last of a run of values, each made of the one before.      *)
(* FoldLeft folds over sets of positions, the last one first, so that the   *)
(* values exist by induction over the size of the set. One lemma for each   *)
(* fold of the model: a lemma cannot take the step as a parameter.          *)

(* The parts of S of at most k elements.                                    *)
Within(S, k) == {s \in SUBSET S : Cardinality(s) <= k}

LEMMA FinitePart ==
  ASSUME NEW S, IsFiniteSet(S), NEW s \in SUBSET S
  PROVE  /\ IsFiniteSet(s) /\ Cardinality(s) \in Nat /\ Cardinality(s) <= Cardinality(S)
         /\ Cardinality(s) = 0 => s = {}
<1>1. IsFiniteSet(s) /\ Cardinality(s) \in Nat /\ Cardinality(s) <= Cardinality(S)
  BY FS_Subset, FS_CardinalityType
<1> QED BY <1>1, FS_EmptySet

LEMMA WithinNone == ASSUME NEW S, IsFiniteSet(S), NEW s \in Within(S, 0) PROVE s = {}
BY FinitePart DEF Within

LEMMA WithinAll ==
  ASSUME NEW S, IsFiniteSet(S)
  PROVE  Cardinality(S) \in Nat /\ Within(S, Cardinality(S)) = SUBSET S
BY FinitePart DEF Within

LEMMA WithoutOne ==
  ASSUME NEW S, IsFiniteSet(S), NEW k \in Nat, NEW s \in Within(S, k), NEW x \in s
  PROVE  s \ {x} \in Within(S, k - 1) /\ s \ {x} \in Within(S, k)
<1>1. s \in SUBSET S /\ Cardinality(s) <= k
  BY DEF Within
<1>2. IsFiniteSet(s) /\ Cardinality(s) \in Nat
  BY <1>1, FinitePart
<1>3. Cardinality(s \ {x}) = Cardinality(s) - 1
  BY <1>2, FS_RemoveElement
<1> DEFINE r == s \ {x}
<1>4. r \in SUBSET S
  BY <1>1
<1> HIDE DEF r
<1>5. Cardinality(r) <= k - 1 /\ Cardinality(r) <= k
  <2>1. Cardinality(r) = Cardinality(s) - 1
    BY <1>3 DEF r
  <2> QED BY <1>1, <1>2, <2>1
<1>6. r \in Within(S, k - 1) /\ r \in Within(S, k)
  BY <1>4, <1>5 DEF Within
<1> QED BY <1>6 DEF r

LEMMA WithoutTop ==
  ASSUME NEW n \in Nat, NEW k \in Nat, NEW s \in Within(1..n, k), s # {},
         NEW x, x = CHOOSE i \in s : \A j \in s : i >= j
  PROVE  s \ {x} \in Within(1..n, k - 1) /\ s \ {x} \in Within(1..n, k)
<1>1. x \in s
  BY HasMost DEF Within
<1>2. IsFiniteSet(1..n)
  BY FS_Interval
<1> QED BY <1>1, <1>2, WithoutOne

LEMMA TopOf ==
  ASSUME NEW n \in Nat, NEW i \in 1..n
  PROVE  /\ 1..i \in SUBSET (1..n) /\ 1..(i - 1) \in SUBSET (1..n)
         /\ 1..i # {} /\ (1..i) \ {i} = 1..(i - 1)
         /\ (CHOOSE x \in 1..i : \A y \in 1..i : x >= y) = i
OBVIOUS

(* The visits of some nodes, one after the other.                           *)
LEMMA EachSteps ==
  ASSUME NEW h, NEW st, NEW nodes,
         NEW base, base = st,
         NEW seq, seq = SetToSeq(nodes), NEW n \in Nat, DOMAIN seq = 1..n
  PROVE  \E t : /\ DOMAIN t = 0..n /\ t[0] = base
                /\ \A i \in 1..n : t[i] = h[t[i - 1]][seq[i]]
                /\ Each(h, st, nodes) = t[n]
<1> DEFINE S == 1..n
           top(s) == CHOOSE x \in s : \A y \in s : x >= y
           Value(g, s) == IF s = {} THEN base ELSE h[g[s \ {top(s)}]][seq[top(s)]]
           iter == CHOOSE g : g = [s \in SUBSET S |-> Value(g, s)]
           Solved(k) == \E g : g = [s \in Within(S, k) |-> Value(g, s)]
<1>1. Each(h, st, nodes) = iter[S]
  BY DEF Each, FoldLeft, MapThenFoldSet, Max
<1>2. IsFiniteSet(S) /\ Cardinality(S) = n
  BY FS_Interval
<1>3. ASSUME NEW k \in Nat, NEW s \in Within(S, k), s # {}
       PROVE  s \ {top(s)} \in Within(S, k - 1) /\ s \ {top(s)} \in Within(S, k)
  BY <1>3, WithoutTop
<1> HIDE DEF S
<1>4. \A k \in Nat : Solved(k)
  <2> DEFINE bad == {k \in Nat : ~Solved(k)}
  <2> SUFFICES ASSUME bad # {} PROVE FALSE
    <3> HIDE DEF Solved
    <3> QED OBVIOUS
  <2>1. PICK k \in bad : \A m \in bad : k <= m
    BY HasLeast
  <2>2. CASE k = 0
    <3> DEFINE w == [s \in Within(S, 0) |-> base]
    <3>1. w = [s \in Within(S, 0) |-> Value(w, s)]
      BY <1>2, WithinNone
    <3> QED BY <2>1, <2>2, <3>1
  <2>3. CASE k # 0
    <3>1. k \in Nat /\ k - 1 \in Nat /\ ~(k <= k - 1)
      BY <2>1, <2>3
    <3>2. Solved(k - 1)
      <4> HIDE DEF Solved
      <4> QED BY <2>1, <3>1
    <3>3. PICK g : g = [s \in Within(S, k - 1) |-> Value(g, s)]
      BY <3>2
    <3> DEFINE w == [s \in Within(S, k) |-> Value(g, s)]
    <3>4. ASSUME NEW s \in Within(S, k), s # {}
          PROVE  w[s \ {top(s)}] = g[s \ {top(s)}]
      <4> DEFINE r == s \ {top(s)}
      <4>1. r \in Within(S, k - 1) /\ r \in Within(S, k)
        BY <1>3, <3>1, <3>4
      <4>2. w[r] = Value(g, r)
        BY <4>1
      <4>3. g[r] = Value(g, r)
        <5> HIDE DEF Value, r
        <5> QED BY <3>3, <4>1
      <4> HIDE DEF w, r, Value
      <4> QED BY <4>2, <4>3 DEF r
    <3>5. ASSUME NEW s \in Within(S, k) PROVE Value(w, s) = Value(g, s)
      <4> HIDE DEF w, top
      <4>1. CASE s = {}
        BY <4>1
      <4>2. CASE s # {}
        <5>1. w[s \ {top(s)}] = g[s \ {top(s)}]
          BY <3>4, <4>2
        <5> QED BY <4>2, <5>1
      <4> QED BY <4>1, <4>2
    <3>6. w = [s \in Within(S, k) |-> Value(w, s)]
      <4> HIDE DEF Value
      <4> QED BY <3>5
    <3>7. Solved(k)
      BY <3>6
    <3> QED BY <2>1, <3>7
  <2> QED BY <2>2, <2>3
<1>5. iter = [s \in SUBSET S |-> Value(iter, s)]
  <2>1. PICK g : g = [s \in Within(S, n) |-> Value(g, s)]
    BY <1>4
  <2> HIDE DEF Value
  <2>2. g = [s \in SUBSET S |-> Value(g, s)]
    BY <1>2, <2>1, WithinAll
  <2> QED BY <2>2
<1> HIDE DEF iter
<1>6. \A s \in SUBSET S : iter[s] = Value(iter, s)
  <2> HIDE DEF Value
  <2> QED BY <1>5
<1> HIDE DEF top
<1>7. \A i \in 1..n : /\ 1..i \in SUBSET S /\ 1..(i - 1) \in SUBSET S
                      /\ 1..i # {} /\ top(1..i) = i /\ (1..i) \ {i} = 1..(i - 1)
  BY TopOf DEF S, top
<1>8. iter[{}] = base
  BY <1>6
<1> DEFINE t == [i \in 0..n |-> iter[1..i]]
<1>9. t[0] = base
  <2>1. 0 \in 0..n /\ 1..0 = {}
    OBVIOUS
  <2> QED BY <1>8, <2>1
<1>10. ASSUME NEW i \in 1..n PROVE t[i] = h[t[i - 1]][seq[i]]
  <2>1. iter[1..i] = Value(iter, 1..i)
    BY <1>6, <1>7
  <2>2. i \in 0..n /\ i - 1 \in 0..n
    OBVIOUS
  <2>3. t[i] = iter[1..i] /\ t[i - 1] = iter[1..(i - 1)]
    BY <2>2
  <2> HIDE DEF t
  <2> QED BY <1>7, <2>1, <2>3
<1>11. t[n] = iter[S] /\ DOMAIN t = 0..n
  BY DEF S
<1> HIDE DEF t
<1> QED BY <1>1, <1>9, <1>10, <1>11

(* The factors of a model, in their order.                                  *)
LEMMA ScoreSteps ==
  ASSUME NEW d, NEW env, NEW fill,
         NEW base, base = [computed |-> [m \in Names(d) |-> None], total |-> Zero,
                           filled |-> FALSE, raised |-> FALSE],
         NEW seq, seq = Sorted(d), NEW n \in Nat, DOMAIN seq = 1..n
  PROVE  \E t : /\ DOMAIN t = 0..n /\ t[0] = base
                /\ \A i \in 1..n : t[i] = ScoreFactor(env, fill, t[i - 1], seq[i])
                /\ ScoreModel(d, env, fill) = t[n]
<1> DEFINE S == 1..n
           top(s) == CHOOSE x \in s : \A y \in s : x >= y
           Value(g, s) == IF s = {} THEN base
             ELSE ScoreFactor(env, fill, g[s \ {top(s)}], seq[top(s)])
           iter == CHOOSE g : g = [s \in SUBSET S |-> Value(g, s)]
           Solved(k) == \E g : g = [s \in Within(S, k) |-> Value(g, s)]
<1>1. ScoreModel(d, env, fill) = iter[S]
  BY DEF ScoreModel, FoldLeft, MapThenFoldSet, Max
<1>2. IsFiniteSet(S) /\ Cardinality(S) = n
  BY FS_Interval
<1>3. ASSUME NEW k \in Nat, NEW s \in Within(S, k), s # {}
       PROVE  s \ {top(s)} \in Within(S, k - 1) /\ s \ {top(s)} \in Within(S, k)
  BY <1>3, WithoutTop
<1> HIDE DEF S
<1>4. \A k \in Nat : Solved(k)
  <2> DEFINE bad == {k \in Nat : ~Solved(k)}
  <2> SUFFICES ASSUME bad # {} PROVE FALSE
    <3> HIDE DEF Solved
    <3> QED OBVIOUS
  <2>1. PICK k \in bad : \A m \in bad : k <= m
    BY HasLeast
  <2>2. CASE k = 0
    <3> DEFINE w == [s \in Within(S, 0) |-> base]
    <3>1. w = [s \in Within(S, 0) |-> Value(w, s)]
      BY <1>2, WithinNone
    <3> QED BY <2>1, <2>2, <3>1
  <2>3. CASE k # 0
    <3>1. k \in Nat /\ k - 1 \in Nat /\ ~(k <= k - 1)
      BY <2>1, <2>3
    <3>2. Solved(k - 1)
      <4> HIDE DEF Solved
      <4> QED BY <2>1, <3>1
    <3>3. PICK g : g = [s \in Within(S, k - 1) |-> Value(g, s)]
      BY <3>2
    <3> DEFINE w == [s \in Within(S, k) |-> Value(g, s)]
    <3>4. ASSUME NEW s \in Within(S, k), s # {}
          PROVE  w[s \ {top(s)}] = g[s \ {top(s)}]
      <4> DEFINE r == s \ {top(s)}
      <4>1. r \in Within(S, k - 1) /\ r \in Within(S, k)
        BY <1>3, <3>1, <3>4
      <4>2. w[r] = Value(g, r)
        BY <4>1
      <4>3. g[r] = Value(g, r)
        <5> HIDE DEF Value, r
        <5> QED BY <3>3, <4>1
      <4> HIDE DEF w, r, Value
      <4> QED BY <4>2, <4>3 DEF r
    <3>5. ASSUME NEW s \in Within(S, k) PROVE Value(w, s) = Value(g, s)
      <4> HIDE DEF w, top
      <4>1. CASE s = {}
        BY <4>1
      <4>2. CASE s # {}
        <5>1. w[s \ {top(s)}] = g[s \ {top(s)}]
          BY <3>4, <4>2
        <5> QED BY <4>2, <5>1
      <4> QED BY <4>1, <4>2
    <3>6. w = [s \in Within(S, k) |-> Value(w, s)]
      <4> HIDE DEF Value
      <4> QED BY <3>5
    <3>7. Solved(k)
      BY <3>6
    <3> QED BY <2>1, <3>7
  <2> QED BY <2>2, <2>3
<1>5. iter = [s \in SUBSET S |-> Value(iter, s)]
  <2>1. PICK g : g = [s \in Within(S, n) |-> Value(g, s)]
    BY <1>4
  <2> HIDE DEF Value
  <2>2. g = [s \in SUBSET S |-> Value(g, s)]
    BY <1>2, <2>1, WithinAll
  <2> QED BY <2>2
<1> HIDE DEF iter
<1>6. \A s \in SUBSET S : iter[s] = Value(iter, s)
  <2> HIDE DEF Value
  <2> QED BY <1>5
<1> HIDE DEF top
<1>7. \A i \in 1..n : /\ 1..i \in SUBSET S /\ 1..(i - 1) \in SUBSET S
                      /\ 1..i # {} /\ top(1..i) = i /\ (1..i) \ {i} = 1..(i - 1)
  BY TopOf DEF S, top
<1>8. iter[{}] = base
  BY <1>6
<1> DEFINE t == [i \in 0..n |-> iter[1..i]]
<1>9. t[0] = base
  <2>1. 0 \in 0..n /\ 1..0 = {}
    OBVIOUS
  <2> QED BY <1>8, <2>1
<1>10. ASSUME NEW i \in 1..n PROVE t[i] = ScoreFactor(env, fill, t[i - 1], seq[i])
  <2>1. iter[1..i] = Value(iter, 1..i)
    BY <1>6, <1>7
  <2>2. i \in 0..n /\ i - 1 \in 0..n
    OBVIOUS
  <2>3. t[i] = iter[1..i] /\ t[i - 1] = iter[1..(i - 1)]
    BY <2>2
  <2> HIDE DEF t
  <2> QED BY <1>7, <2>1, <2>3
<1>11. t[n] = iter[S] /\ DOMAIN t = 0..n
  BY DEF S
<1> HIDE DEF t
<1> QED BY <1>1, <1>9, <1>10, <1>11

(* The models of a rebuild, in their order.                                 *)
LEMMA BatchSteps ==
  ASSUME NEW org, NEW versions,
         NEW base, base = Nothing,
         NEW seq, seq = OrderOf(org, versions), NEW n \in Nat, DOMAIN seq = 1..n
  PROVE  \E t : /\ DOMAIN t = 0..n /\ t[0] = base
                /\ \A i \in 1..n : t[i] = ScoreAll(org, t[i - 1], seq[i])
                /\ Batch(org, versions) = t[n]
<1> DEFINE S == 1..n
           top(s) == CHOOSE x \in s : \A y \in s : x >= y
           Value(g, s) == IF s = {} THEN base
             ELSE ScoreAll(org, g[s \ {top(s)}], seq[top(s)])
           iter == CHOOSE g : g = [s \in SUBSET S |-> Value(g, s)]
           Solved(k) == \E g : g = [s \in Within(S, k) |-> Value(g, s)]
<1>1. Batch(org, versions) = iter[S]
  BY DEF Batch, Nothing, OrderOf, FoldLeft, MapThenFoldSet, Max
<1>2. IsFiniteSet(S) /\ Cardinality(S) = n
  BY FS_Interval
<1>3. ASSUME NEW k \in Nat, NEW s \in Within(S, k), s # {}
       PROVE  s \ {top(s)} \in Within(S, k - 1) /\ s \ {top(s)} \in Within(S, k)
  BY <1>3, WithoutTop
<1> HIDE DEF S
<1>4. \A k \in Nat : Solved(k)
  <2> DEFINE bad == {k \in Nat : ~Solved(k)}
  <2> SUFFICES ASSUME bad # {} PROVE FALSE
    <3> HIDE DEF Solved
    <3> QED OBVIOUS
  <2>1. PICK k \in bad : \A m \in bad : k <= m
    BY HasLeast
  <2>2. CASE k = 0
    <3> DEFINE w == [s \in Within(S, 0) |-> base]
    <3>1. w = [s \in Within(S, 0) |-> Value(w, s)]
      BY <1>2, WithinNone
    <3> QED BY <2>1, <2>2, <3>1
  <2>3. CASE k # 0
    <3>1. k \in Nat /\ k - 1 \in Nat /\ ~(k <= k - 1)
      BY <2>1, <2>3
    <3>2. Solved(k - 1)
      <4> HIDE DEF Solved
      <4> QED BY <2>1, <3>1
    <3>3. PICK g : g = [s \in Within(S, k - 1) |-> Value(g, s)]
      BY <3>2
    <3> DEFINE w == [s \in Within(S, k) |-> Value(g, s)]
    <3>4. ASSUME NEW s \in Within(S, k), s # {}
          PROVE  w[s \ {top(s)}] = g[s \ {top(s)}]
      <4> DEFINE r == s \ {top(s)}
      <4>1. r \in Within(S, k - 1) /\ r \in Within(S, k)
        BY <1>3, <3>1, <3>4
      <4>2. w[r] = Value(g, r)
        BY <4>1
      <4>3. g[r] = Value(g, r)
        <5> HIDE DEF Value, r
        <5> QED BY <3>3, <4>1
      <4> HIDE DEF w, r, Value
      <4> QED BY <4>2, <4>3 DEF r
    <3>5. ASSUME NEW s \in Within(S, k) PROVE Value(w, s) = Value(g, s)
      <4> HIDE DEF w, top
      <4>1. CASE s = {}
        BY <4>1
      <4>2. CASE s # {}
        <5>1. w[s \ {top(s)}] = g[s \ {top(s)}]
          BY <3>4, <4>2
        <5> QED BY <4>2, <5>1
      <4> QED BY <4>1, <4>2
    <3>6. w = [s \in Within(S, k) |-> Value(w, s)]
      <4> HIDE DEF Value
      <4> QED BY <3>5
    <3>7. Solved(k)
      BY <3>6
    <3> QED BY <2>1, <3>7
  <2> QED BY <2>2, <2>3
<1>5. iter = [s \in SUBSET S |-> Value(iter, s)]
  <2>1. PICK g : g = [s \in Within(S, n) |-> Value(g, s)]
    BY <1>4
  <2> HIDE DEF Value
  <2>2. g = [s \in SUBSET S |-> Value(g, s)]
    BY <1>2, <2>1, WithinAll
  <2> QED BY <2>2
<1> HIDE DEF iter
<1>6. \A s \in SUBSET S : iter[s] = Value(iter, s)
  <2> HIDE DEF Value
  <2> QED BY <1>5
<1> HIDE DEF top
<1>7. \A i \in 1..n : /\ 1..i \in SUBSET S /\ 1..(i - 1) \in SUBSET S
                      /\ 1..i # {} /\ top(1..i) = i /\ (1..i) \ {i} = 1..(i - 1)
  BY TopOf DEF S, top
<1>8. iter[{}] = base
  BY <1>6
<1> DEFINE t == [i \in 0..n |-> iter[1..i]]
<1>9. t[0] = base
  <2>1. 0 \in 0..n /\ 1..0 = {}
    OBVIOUS
  <2> QED BY <1>8, <2>1
<1>10. ASSUME NEW i \in 1..n PROVE t[i] = ScoreAll(org, t[i - 1], seq[i])
  <2>1. iter[1..i] = Value(iter, 1..i)
    BY <1>6, <1>7
  <2>2. i \in 0..n /\ i - 1 \in 0..n
    OBVIOUS
  <2>3. t[i] = iter[1..i] /\ t[i - 1] = iter[1..(i - 1)]
    BY <2>2
  <2> HIDE DEF t
  <2> QED BY <1>7, <2>1, <2>3
<1>11. t[n] = iter[S] /\ DOMAIN t = 0..n
  BY DEF S
<1> HIDE DEF t
<1> QED BY <1>1, <1>9, <1>10, <1>11

(* The chain of totals below a model scored on request.                     *)
LEMMA ChainSteps ==
  ASSUME NEW org, NEW v, NEW y,
         NEW base, base = NoTotals,
         NEW seq, seq = ChainOrder(org, v), NEW n \in Nat, DOMAIN seq = 1..n
  PROVE  \E t : /\ DOMAIN t = 0..n /\ t[0] = base
                /\ \A i \in 1..n : t[i] = AddTotal(org, t[i - 1], seq[i], y)
                /\ ChainTotals(org, v, y) = t[n]
<1> DEFINE S == 1..n
           top(s) == CHOOSE x \in s : \A z \in s : x >= z
           Value(g, s) == IF s = {} THEN base
             ELSE AddTotal(org, g[s \ {top(s)}], seq[top(s)], y)
           iter == CHOOSE g : g = [s \in SUBSET S |-> Value(g, s)]
           Solved(k) == \E g : g = [s \in Within(S, k) |-> Value(g, s)]
<1>1. ChainTotals(org, v, y) = iter[S]
  BY DEF ChainTotals, ChainOrder, NoTotals, FoldLeft, MapThenFoldSet, Max
<1>2. IsFiniteSet(S) /\ Cardinality(S) = n
  BY FS_Interval
<1>3. ASSUME NEW k \in Nat, NEW s \in Within(S, k), s # {}
       PROVE  s \ {top(s)} \in Within(S, k - 1) /\ s \ {top(s)} \in Within(S, k)
  BY <1>3, WithoutTop
<1> HIDE DEF S
<1>4. \A k \in Nat : Solved(k)
  <2> DEFINE bad == {k \in Nat : ~Solved(k)}
  <2> SUFFICES ASSUME bad # {} PROVE FALSE
    <3> HIDE DEF Solved
    <3> QED OBVIOUS
  <2>1. PICK k \in bad : \A m \in bad : k <= m
    BY HasLeast
  <2>2. CASE k = 0
    <3> DEFINE w == [s \in Within(S, 0) |-> base]
    <3>1. w = [s \in Within(S, 0) |-> Value(w, s)]
      BY <1>2, WithinNone
    <3> QED BY <2>1, <2>2, <3>1
  <2>3. CASE k # 0
    <3>1. k \in Nat /\ k - 1 \in Nat /\ ~(k <= k - 1)
      BY <2>1, <2>3
    <3>2. Solved(k - 1)
      <4> HIDE DEF Solved
      <4> QED BY <2>1, <3>1
    <3>3. PICK g : g = [s \in Within(S, k - 1) |-> Value(g, s)]
      BY <3>2
    <3> DEFINE w == [s \in Within(S, k) |-> Value(g, s)]
    <3>4. ASSUME NEW s \in Within(S, k), s # {}
          PROVE  w[s \ {top(s)}] = g[s \ {top(s)}]
      <4> DEFINE r == s \ {top(s)}
      <4>1. r \in Within(S, k - 1) /\ r \in Within(S, k)
        BY <1>3, <3>1, <3>4
      <4>2. w[r] = Value(g, r)
        BY <4>1
      <4>3. g[r] = Value(g, r)
        <5> HIDE DEF Value, r
        <5> QED BY <3>3, <4>1
      <4> HIDE DEF w, r, Value
      <4> QED BY <4>2, <4>3 DEF r
    <3>5. ASSUME NEW s \in Within(S, k) PROVE Value(w, s) = Value(g, s)
      <4> HIDE DEF w, top
      <4>1. CASE s = {}
        BY <4>1
      <4>2. CASE s # {}
        <5>1. w[s \ {top(s)}] = g[s \ {top(s)}]
          BY <3>4, <4>2
        <5> QED BY <4>2, <5>1
      <4> QED BY <4>1, <4>2
    <3>6. w = [s \in Within(S, k) |-> Value(w, s)]
      <4> HIDE DEF Value
      <4> QED BY <3>5
    <3>7. Solved(k)
      BY <3>6
    <3> QED BY <2>1, <3>7
  <2> QED BY <2>2, <2>3
<1>5. iter = [s \in SUBSET S |-> Value(iter, s)]
  <2>1. PICK g : g = [s \in Within(S, n) |-> Value(g, s)]
    BY <1>4
  <2> HIDE DEF Value
  <2>2. g = [s \in SUBSET S |-> Value(g, s)]
    BY <1>2, <2>1, WithinAll
  <2> QED BY <2>2
<1> HIDE DEF iter
<1>6. \A s \in SUBSET S : iter[s] = Value(iter, s)
  <2> HIDE DEF Value
  <2> QED BY <1>5
<1> HIDE DEF top
<1>7. \A i \in 1..n : /\ 1..i \in SUBSET S /\ 1..(i - 1) \in SUBSET S
                      /\ 1..i # {} /\ top(1..i) = i /\ (1..i) \ {i} = 1..(i - 1)
  BY TopOf DEF S, top
<1>8. iter[{}] = base
  BY <1>6
<1> DEFINE t == [i \in 0..n |-> iter[1..i]]
<1>9. t[0] = base
  <2>1. 0 \in 0..n /\ 1..0 = {}
    OBVIOUS
  <2> QED BY <1>8, <2>1
<1>10. ASSUME NEW i \in 1..n PROVE t[i] = AddTotal(org, t[i - 1], seq[i], y)
  <2>1. iter[1..i] = Value(iter, 1..i)
    BY <1>6, <1>7
  <2>2. i \in 0..n /\ i - 1 \in 0..n
    OBVIOUS
  <2>3. t[i] = iter[1..i] /\ t[i - 1] = iter[1..(i - 1)]
    BY <2>2
  <2> HIDE DEF t
  <2> QED BY <1>7, <2>1, <2>3
<1>11. t[n] = iter[S] /\ DOMAIN t = 0..n
  BY DEF S
<1> HIDE DEF t
<1> QED BY <1>1, <1>9, <1>10, <1>11

(* The filings a purge leaves of a year.                                    *)
LEMMA LeftSteps ==
  ASSUME NEW forms, NEW y, NEW fs,
         NEW base, base = NoForms,
         NEW seq, seq = forms, NEW n \in Nat, DOMAIN seq = 1..n
  PROVE  \E t : /\ DOMAIN t = 0..n /\ t[0] = base
                /\ \A i \in 1..n : t[i] = (IF [year |-> y, form |-> seq[i]] \in fs
                     THEN t[i - 1] ELSE Append(t[i - 1], seq[i]))
                /\ Left(forms, y, fs) = t[n]
<1> DEFINE S == 1..n
           top(s) == CHOOSE x \in s : \A z \in s : x >= z
           Value(g, s) == IF s = {} THEN base
             ELSE (IF [year |-> y, form |-> seq[top(s)]] \in fs THEN g[s \ {top(s)}]
               ELSE Append(g[s \ {top(s)}], seq[top(s)]))
           iter == CHOOSE g : g = [s \in SUBSET S |-> Value(g, s)]
           Solved(k) == \E g : g = [s \in Within(S, k) |-> Value(g, s)]
<1>1. Left(forms, y, fs) = iter[S]
  BY DEF Left, NoForms, FoldLeft, MapThenFoldSet, Max
<1>2. IsFiniteSet(S) /\ Cardinality(S) = n
  BY FS_Interval
<1>3. ASSUME NEW k \in Nat, NEW s \in Within(S, k), s # {}
       PROVE  s \ {top(s)} \in Within(S, k - 1) /\ s \ {top(s)} \in Within(S, k)
  BY <1>3, WithoutTop
<1> HIDE DEF S
<1>4. \A k \in Nat : Solved(k)
  <2> DEFINE bad == {k \in Nat : ~Solved(k)}
  <2> SUFFICES ASSUME bad # {} PROVE FALSE
    <3> HIDE DEF Solved
    <3> QED OBVIOUS
  <2>1. PICK k \in bad : \A m \in bad : k <= m
    BY HasLeast
  <2>2. CASE k = 0
    <3> DEFINE w == [s \in Within(S, 0) |-> base]
    <3>1. w = [s \in Within(S, 0) |-> Value(w, s)]
      BY <1>2, WithinNone
    <3> QED BY <2>1, <2>2, <3>1
  <2>3. CASE k # 0
    <3>1. k \in Nat /\ k - 1 \in Nat /\ ~(k <= k - 1)
      BY <2>1, <2>3
    <3>2. Solved(k - 1)
      <4> HIDE DEF Solved
      <4> QED BY <2>1, <3>1
    <3>3. PICK g : g = [s \in Within(S, k - 1) |-> Value(g, s)]
      BY <3>2
    <3> DEFINE w == [s \in Within(S, k) |-> Value(g, s)]
    <3>4. ASSUME NEW s \in Within(S, k), s # {}
          PROVE  w[s \ {top(s)}] = g[s \ {top(s)}]
      <4> DEFINE r == s \ {top(s)}
      <4>1. r \in Within(S, k - 1) /\ r \in Within(S, k)
        BY <1>3, <3>1, <3>4
      <4>2. w[r] = Value(g, r)
        BY <4>1
      <4>3. g[r] = Value(g, r)
        <5> HIDE DEF Value, r
        <5> QED BY <3>3, <4>1
      <4> HIDE DEF w, r, Value
      <4> QED BY <4>2, <4>3 DEF r
    <3>5. ASSUME NEW s \in Within(S, k) PROVE Value(w, s) = Value(g, s)
      <4> HIDE DEF w, top
      <4>1. CASE s = {}
        BY <4>1
      <4>2. CASE s # {}
        <5>1. w[s \ {top(s)}] = g[s \ {top(s)}]
          BY <3>4, <4>2
        <5> QED BY <4>2, <5>1
      <4> QED BY <4>1, <4>2
    <3>6. w = [s \in Within(S, k) |-> Value(w, s)]
      <4> HIDE DEF Value
      <4> QED BY <3>5
    <3>7. Solved(k)
      BY <3>6
    <3> QED BY <2>1, <3>7
  <2> QED BY <2>2, <2>3
<1>5. iter = [s \in SUBSET S |-> Value(iter, s)]
  <2>1. PICK g : g = [s \in Within(S, n) |-> Value(g, s)]
    BY <1>4
  <2> HIDE DEF Value
  <2>2. g = [s \in SUBSET S |-> Value(g, s)]
    BY <1>2, <2>1, WithinAll
  <2> QED BY <2>2
<1> HIDE DEF iter
<1>6. \A s \in SUBSET S : iter[s] = Value(iter, s)
  <2> HIDE DEF Value
  <2> QED BY <1>5
<1> HIDE DEF top
<1>7. \A i \in 1..n : /\ 1..i \in SUBSET S /\ 1..(i - 1) \in SUBSET S
                      /\ 1..i # {} /\ top(1..i) = i /\ (1..i) \ {i} = 1..(i - 1)
  BY TopOf DEF S, top
<1>8. iter[{}] = base
  BY <1>6
<1> DEFINE t == [i \in 0..n |-> iter[1..i]]
<1>9. t[0] = base
  <2>1. 0 \in 0..n /\ 1..0 = {}
    OBVIOUS
  <2> QED BY <1>8, <2>1
<1>10. ASSUME NEW i \in 1..n
       PROVE t[i] = (IF [year |-> y, form |-> seq[i]] \in fs THEN t[i - 1]
         ELSE Append(t[i - 1], seq[i]))
  <2>1. iter[1..i] = Value(iter, 1..i)
    BY <1>6, <1>7
  <2>2. i \in 0..n /\ i - 1 \in 0..n
    OBVIOUS
  <2>3. t[i] = iter[1..i] /\ t[i - 1] = iter[1..(i - 1)]
    BY <2>2
  <2> HIDE DEF t
  <2> QED BY <1>7, <2>1, <2>3
<1>11. t[n] = iter[S] /\ DOMAIN t = 0..n
  BY DEF S
<1> HIDE DEF t
<1> QED BY <1>1, <1>9, <1>10, <1>11

-----------------------------------------------------------------------------
(* The depth-first walk.                                                    *)

LEMMA Enumerated ==
  ASSUME NEW S, IsFiniteSet(S)
  PROVE  \E n \in Nat : /\ SetToSeq(S) \in [1..n -> S]
                        /\ \A x \in S : \E i \in 1..n : SetToSeq(S)[i] = x
<1> DEFINE n == Cardinality(S)
<1>1. n \in Nat /\ ExistsBijection(1..n, S)
  BY FS_CardinalityType
<1>2. PICK b \in [1..n -> S] : IsInjective(b)
  BY <1>1 DEF ExistsBijection, Bijection, Injection
<1> DEFINE s == SetToSeq(S)
<1>3. s \in [1..n -> S] /\ IsInjective(s)
  BY <1>2 DEF SetToSeq
<1> HIDE DEF s
<1>4. s \in Injection(1..n, S) /\ Cardinality(1..n) = Cardinality(S)
  BY <1>1, <1>3, FS_Interval DEF Injection
<1> HIDE DEF n
<1>5. s \in Surjection(1..n, S)
  BY <1>4, FS_Injection
<1>6. \A x \in S : \E i \in 1..n : s[i] = x
  BY <1>5 DEF Surjection
<1> QED BY <1>1, <1>3, <1>6 DEF s

(* r comes from st by visiting every one of nodes once, in some order.      *)
Runs(visit, st, nodes, r) ==
  \E n \in Nat : \E s \in [1..n -> nodes] : \E t :
    /\ \A x \in nodes : \E i \in 1..n : s[i] = x
    /\ t[0] = st /\ \A i \in 1..n : t[i] = visit[t[i - 1]][s[i]]
    /\ r = t[n]

LEMMA EachRuns ==
  ASSUME NEW visit, NEW st, NEW nodes, IsFiniteSet(nodes)
  PROVE  Runs(visit, st, nodes, Each(visit, st, nodes))
<1> DEFINE s == SetToSeq(nodes)
<1>1. PICK n \in Nat : s \in [1..n -> nodes] /\ \A x \in nodes : \E i \in 1..n : s[i] = x
  BY Enumerated
<1>2. DOMAIN s = 1..n
  BY <1>1
<1>3. PICK t : /\ t[0] = st /\ \A i \in 1..n : t[i] = visit[t[i - 1]][s[i]]
               /\ Each(visit, st, nodes) = t[n]
  BY <1>2, EachSteps
<1> HIDE DEF s
<1> QED BY <1>1, <1>3 DEF Runs

(* A visit with the nodes off not on the stack.                             *)
Turn(deps, visit, off) ==
  [st \in Walks(DOMAIN deps) |-> [n \in DOMAIN deps |->
     IF n \notin off THEN [st EXCEPT !.raised = TRUE]
     ELSE IF st.raised \/ n \in ToSet(st.order) THEN st
     ELSE [Each(visit[off \ {n}], st, deps[n] \cap DOMAIN deps)
             EXCEPT !.order = Append(@, n)]]]

LEMMA SameTurn ==
  ASSUME NEW deps, NEW off, NEW g, NEW h, \A n \in off : g[off \ {n}] = h[off \ {n}]
  PROVE  Turn(deps, g, off) = Turn(deps, h, off)
<1> DEFINE E(v, st, n) == Each(v[off \ {n}], st, deps[n] \cap DOMAIN deps)
<1>1. \A st : \A n \in off : E(g, st, n) = E(h, st, n)
  OBVIOUS
<1> DEFINE R(v, st, n) ==
       IF n \notin off THEN [st EXCEPT !.raised = TRUE]
       ELSE IF st.raised \/ n \in ToSet(st.order) THEN st
       ELSE [E(v, st, n) EXCEPT !.order = Append(@, n)]
<1>2. \A n, st : R(g, st, n) = R(h, st, n)
  <2> HIDE DEF E
  <2> QED BY <1>1
<1>3. Turn(deps, g, off) = [st \in Walks(DOMAIN deps) |-> [n \in DOMAIN deps |-> R(g, st, n)]]
  BY DEF Turn
<1>4. Turn(deps, h, off) = [st \in Walks(DOMAIN deps) |-> [n \in DOMAIN deps |-> R(h, st, n)]]
  BY DEF Turn
<1> HIDE DEF R
<1> QED BY <1>2, <1>3, <1>4

(* The recursive definition of the walk is one: with every visit one more   *)
(* node is on the stack, and there are finitely many.                       *)
LEMMA VisitTurns ==
  ASSUME NEW deps, IsFiniteSet(DOMAIN deps), NEW off \in SUBSET DOMAIN deps
  PROVE  Visit(deps)[off] = Turn(deps, Visit(deps), off)
<1> DEFINE S == DOMAIN deps
           visit == CHOOSE g : g = [s \in SUBSET S |-> Turn(deps, g, s)]
           Solved(k) == \E g : g = [s \in Within(S, k) |-> Turn(deps, g, s)]
<1>1. Visit(deps) = visit
  BY DEF Visit, Turn
<1> HIDE DEF S
<1>2. IsFiniteSet(S) /\ off \in SUBSET S
  BY DEF S
<1>3. \A k \in Nat : Solved(k)
  <2> DEFINE bad == {k \in Nat : ~Solved(k)}
  <2> SUFFICES ASSUME bad # {} PROVE FALSE
    <3> HIDE DEF Solved
    <3> QED OBVIOUS
  <2>1. PICK k \in bad : \A m \in bad : k <= m
    BY HasLeast
  <2>2. CASE k = 0
    <3> DEFINE h == [x \in {} |-> x]
               w == [s \in Within(S, 0) |-> Turn(deps, h, s)]
    <3>1. ASSUME NEW s \in Within(S, 0) PROVE Turn(deps, w, s) = Turn(deps, h, s)
      <4>1. s = {}
        BY <1>2, WithinNone
      <4> HIDE DEF w, h
      <4> QED BY <4>1, SameTurn
    <3>2. w = [s \in Within(S, 0) |-> Turn(deps, w, s)]
      <4> HIDE DEF h
      <4> QED BY <3>1
    <3> QED BY <2>1, <2>2, <3>2
  <2>3. CASE k # 0
    <3>1. k \in Nat /\ k - 1 \in Nat /\ ~(k <= k - 1)
      BY <2>1, <2>3
    <3>2. Solved(k - 1)
      <4> HIDE DEF Solved
      <4> QED BY <2>1, <3>1
    <3>3. PICK g : g = [s \in Within(S, k - 1) |-> Turn(deps, g, s)]
      BY <3>2
    <3> DEFINE w == [s \in Within(S, k) |-> Turn(deps, g, s)]
    <3>4. ASSUME NEW s \in Within(S, k), NEW n \in s
          PROVE  w[s \ {n}] = g[s \ {n}]
      <4>1. s \ {n} \in Within(S, k - 1) /\ s \ {n} \in Within(S, k)
        BY <1>2, <3>1, WithoutOne
      <4>2. g[s \ {n}] = Turn(deps, g, s \ {n})
        BY <3>3, <4>1
      <4> QED BY <4>1, <4>2
    <3>5. ASSUME NEW s \in Within(S, k) PROVE Turn(deps, w, s) = Turn(deps, g, s)
      <4> HIDE DEF w
      <4> QED BY <3>4, SameTurn
    <3>6. w = [s \in Within(S, k) |-> Turn(deps, w, s)]
      BY <3>5
    <3>7. Solved(k)
      BY <3>6
    <3> QED BY <2>1, <3>7
  <2> QED BY <2>2, <2>3
<1>4. visit = [s \in SUBSET S |-> Turn(deps, visit, s)]
  <2>1. Cardinality(S) \in Nat /\ Within(S, Cardinality(S)) = SUBSET S
    BY <1>2, WithinAll
  <2>2. PICK g : g = [s \in Within(S, Cardinality(S)) |-> Turn(deps, g, s)]
    BY <1>3, <2>1
  <2>3. g = [s \in SUBSET S |-> Turn(deps, g, s)]
    BY <2>1, <2>2
  <2> QED BY <2>3
<1> HIDE DEF visit
<1> QED BY <1>1, <1>2, <1>4

-----------------------------------------------------------------------------
(* What is reached from a node.  Nothing below a node of an acyclic graph   *)
(* leads back to it.                                                        *)

(* S holds what its elements depend on; Below is what a node reaches.       *)
Sealed(deps, S) == \A x \in S : deps[x] \cap DOMAIN deps \subseteq S
Below(deps, n) ==
  {m \in DOMAIN deps : \A S \in SUBSET DOMAIN deps : n \in S /\ Sealed(deps, S) => m \in S}

LEMMA BelowIsLeast ==
  ASSUME NEW deps, NEW n \in DOMAIN deps
  PROVE  /\ n \in Below(deps, n) /\ Sealed(deps, Below(deps, n))
         /\ Below(deps, n) \subseteq DOMAIN deps
         /\ \A S \in SUBSET DOMAIN deps : n \in S /\ Sealed(deps, S)
              => Below(deps, n) \subseteq S
         /\ \A m \in Below(deps, n) : Below(deps, m) \subseteq Below(deps, n)
<1>1. /\ n \in Below(deps, n) /\ Below(deps, n) \subseteq DOMAIN deps
      /\ \A S \in SUBSET DOMAIN deps : n \in S /\ Sealed(deps, S)
           => Below(deps, n) \subseteq S
  BY DEF Below
<1>2. Sealed(deps, Below(deps, n))
  BY DEF Below, Sealed
<1>3. ASSUME NEW m \in Below(deps, n) PROVE Below(deps, m) \subseteq Below(deps, n)
  BY <1>1, <1>2 DEF Below
<1> QED BY <1>1, <1>2, <1>3

LEMMA BelowAChild ==
  ASSUME NEW deps, NEW n \in DOMAIN deps, NEW m \in Below(deps, n), m # n
  PROVE  \E c \in deps[n] \cap DOMAIN deps : m \in Below(deps, c)
<1> DEFINE T == {n} \cup UNION {Below(deps, c) : c \in deps[n] \cap DOMAIN deps}
<1>1. T \in SUBSET DOMAIN deps /\ n \in T
  BY DEF Below
<1>2. Sealed(deps, T)
  <2> SUFFICES ASSUME NEW x \in T, NEW y \in deps[x] \cap DOMAIN deps PROVE y \in T
    BY DEF Sealed
  <2>1. CASE x = n
    BY <2>1, BelowIsLeast
  <2>2. CASE x # n
    <3>1. PICK c \in deps[n] \cap DOMAIN deps : x \in Below(deps, c)
      BY <2>2
    <3>2. y \in Below(deps, c)
      BY <3>1, BelowIsLeast DEF Sealed
    <3> QED BY <3>2
  <2> QED BY <2>1, <2>2
<1>3. m \in T
  BY <1>1, <1>2, BelowIsLeast
<1> QED BY <1>3

LEMMA NoWayBack ==
  ASSUME NEW deps, ~Cyclic(deps), NEW n \in DOMAIN deps, NEW c \in deps[n] \cap DOMAIN deps
  PROVE  n \notin Below(deps, c) /\ Below(deps, c) \subseteq Below(deps, n)
<1>1. c \in Below(deps, n) /\ Below(deps, c) \subseteq Below(deps, n)
  BY BelowIsLeast DEF Sealed
<1> SUFFICES ASSUME n \in Below(deps, c) PROVE FALSE
  BY <1>1
<1> DEFINE S == {x \in Below(deps, n) : n \in Below(deps, x)}
<1>2. S \in SUBSET DOMAIN deps /\ n \in S
  BY BelowIsLeast
<1>3. ASSUME NEW x \in S PROVE deps[x] \cap S # {}
  <2>1. CASE x = n
    BY <1>1, <2>1
  <2>2. CASE x # n
    <3>1. x \in DOMAIN deps
      BY <1>2
    <3>2. PICK y \in deps[x] \cap DOMAIN deps : n \in Below(deps, y)
      BY <2>2, <3>1, BelowAChild
    <3>3. y \in Below(deps, n)
      BY BelowIsLeast DEF Sealed
    <3> QED BY <3>2, <3>3
  <2> QED BY <2>1, <2>2
<1> QED BY <1>2, <1>3 DEF Cyclic

-----------------------------------------------------------------------------
(* Walking an acyclic graph raises nothing: every node comes once, after    *)
(* what it depends on.                                                      *)

(* A state of the walk that raised nothing: no node twice, and every node   *)
(* after what it depends on. A visit extends the order, with nodes of part. *)
Good(deps, st) ==
  st \in Walks(DOMAIN deps) /\ ~st.raised /\ IsInjective(st.order)
    /\ Follows(st.order, deps)
Extends(deps, a, b, part) ==
  /\ Good(deps, b) /\ ToSet(a.order) \subseteq ToSet(b.order)
  /\ ToSet(b.order) \subseteq ToSet(a.order) \cup part

LEMMA OneMore ==
  ASSUME NEW deps, NEW st, Good(deps, st), NEW n \in DOMAIN deps, n \notin ToSet(st.order),
         deps[n] \cap DOMAIN deps \subseteq ToSet(st.order)
  PROVE  LET r == [st EXCEPT !.order = Append(@, n)]
         IN Good(deps, r) /\ ToSet(r.order) = ToSet(st.order) \cup {n}
<1> DEFINE r == [st EXCEPT !.order = Append(@, n)]
           s == st.order
           u == Append(s, n)
           k == Len(s)
<1>1. s \in Seq(DOMAIN deps) /\ k \in Nat /\ DOMAIN s = 1..k
  BY DEF Good, Walks
<1>2. /\ u \in Seq(DOMAIN deps) /\ DOMAIN u = 1..(k + 1) /\ u[k + 1] = n
      /\ \A i \in 1..k : u[i] = s[i]
  BY <1>1
<1>3. r = [order |-> u, raised |-> st.raised] /\ r \in Walks(DOMAIN deps) /\ ~r.raised
  BY <1>2 DEF Good, Walks
<1> HIDE DEF s, u, k
<1>4. ToSet(u) = ToSet(s) \cup {n}
  <2>1. 1..(k + 1) = 1..k \cup {k + 1}
    BY <1>1
  <2> QED BY <1>1, <1>2, <2>1 DEF ToSet
<1>5. \A i \in 1..k : s[i] # n
  BY <1>1 DEF ToSet, s
<1>6. IsInjective(u)
  <2>1. IsInjective(s)
    BY DEF Good, s
  <2> SUFFICES ASSUME NEW i \in 1..(k + 1), NEW j \in 1..(k + 1), u[i] = u[j] PROVE i = j
    BY <1>2 DEF IsInjective
  <2>2. CASE i \in 1..k /\ j \in 1..k
    BY <1>1, <1>2, <2>1, <2>2 DEF IsInjective
  <2>3. CASE ~(i \in 1..k /\ j \in 1..k)
    <3>1. i = k + 1 \/ j = k + 1
      BY <1>1, <2>3
    <3>2. \A m \in 1..(k + 1) : m \in 1..k \/ m = k + 1
      BY <1>1
    <3> QED BY <1>2, <1>5, <3>1, <3>2
  <2> QED BY <2>2, <2>3
<1>7. Follows(u, deps)
  <2> SUFFICES ASSUME NEW i \in 1..(k + 1), NEW m \in deps[u[i]] \cap DOMAIN deps
               PROVE  \E j \in 1..(i - 1) : u[j] = m
    BY <1>2 DEF Follows
  <2>1. CASE i \in 1..k
    <3>1. PICK j \in 1..(i - 1) : s[j] = m
      BY <1>1, <1>2, <2>1 DEF Good, Follows, s
    <3>2. j \in 1..k
      BY <1>1, <2>1
    <3> QED BY <1>2, <3>1, <3>2
  <2>2. CASE i = k + 1
    <3>1. m \in ToSet(s)
      BY <1>2, <2>2 DEF s
    <3>2. PICK j \in 1..k : s[j] = m
      BY <1>1, <3>1 DEF ToSet
    <3>3. j \in 1..(i - 1)
      BY <1>1, <2>2
    <3> QED BY <1>2, <3>2, <3>3
  <2> QED BY <1>1, <2>1, <2>2
<1>8. r.order = u /\ r.raised = st.raised
  BY <1>3
<1> HIDE DEF r
<1>9. Good(deps, r)
  BY <1>3, <1>6, <1>7, <1>8 DEF Good
<1> QED BY <1>4, <1>8, <1>9 DEF s, r

LEMMA EachGood ==
  ASSUME NEW deps, IsFiniteSet(DOMAIN deps), NEW nodes \in SUBSET DOMAIN deps, NEW h,
         NEW st, Good(deps, st),
         \A a : \A n \in nodes : Good(deps, a) =>
           n \in ToSet(h[a][n].order) /\ Extends(deps, a, h[a][n], Below(deps, n))
  PROVE  LET r == Each(h, st, nodes)
         IN /\ Extends(deps, st, r, UNION {Below(deps, n) : n \in nodes})
            /\ nodes \subseteq ToSet(r.order)
<1> DEFINE part == UNION {Below(deps, n) : n \in nodes}
<1>1. IsFiniteSet(nodes)
  BY FS_Subset
<1> DEFINE r == Each(h, st, nodes)
<1>2. Runs(h, st, nodes, r)
  BY <1>1, EachRuns
<1> HIDE DEF r
<1>3. PICK n \in Nat : \E s \in [1..n -> nodes] : \E t :
           /\ \A x \in nodes : \E i \in 1..n : s[i] = x
           /\ t[0] = st /\ \A i \in 1..n : t[i] = h[t[i - 1]][s[i]]
           /\ r = t[n]
  BY <1>2 DEF Runs
<1>4. PICK s \in [1..n -> nodes] : \E t :
           /\ \A x \in nodes : \E i \in 1..n : s[i] = x
           /\ t[0] = st /\ \A i \in 1..n : t[i] = h[t[i - 1]][s[i]]
           /\ r = t[n]
  BY <1>3
<1>5. PICK t :
           /\ \A x \in nodes : \E i \in 1..n : s[i] = x
           /\ t[0] = st /\ \A i \in 1..n : t[i] = h[t[i - 1]][s[i]]
           /\ r = t[n]
  BY <1>4
<1> DEFINE P(i) == /\ Extends(deps, st, t[i], part)
                   /\ \A j \in 1..i : s[j] \in ToSet(t[i].order)
           bad == {i \in 0..n : ~P(i)}
<1>6. bad = {}
  <2> SUFFICES ASSUME bad # {} PROVE FALSE
    OBVIOUS
  <2>1. PICK i \in bad : \A j \in bad : i <= j
    <3> HIDE DEF P
    <3>1. bad \in SUBSET Nat
      OBVIOUS
    <3> QED BY <3>1, HasLeast
  <2>2. CASE i = 0
    <3>1. P(0)
      BY <1>5 DEF Extends
    <3> QED BY <2>1, <2>2, <3>1
  <2>3. CASE i # 0
    <3>1. i \in 1..n /\ i - 1 \in 0..n /\ ~(i <= i - 1)
      BY <2>1, <2>3
    <3>2. P(i - 1)
      <4> HIDE DEF P
      <4> QED BY <2>1, <3>1
    <3> DEFINE a == t[i - 1]
    <3>3. s[i] \in nodes /\ t[i] = h[a][s[i]]
      BY <1>5, <3>1
    <3> HIDE DEF a
    <3>4. Good(deps, a) /\ ToSet(st.order) \subseteq ToSet(a.order)
          /\ ToSet(a.order) \subseteq ToSet(st.order) \cup part
          /\ \A j \in 1..(i - 1) : s[j] \in ToSet(a.order)
      BY <3>2 DEF Extends, a
    <3>5. s[i] \in ToSet(t[i].order) /\ Extends(deps, a, t[i], Below(deps, s[i]))
      BY <3>3, <3>4
    <3>6. Below(deps, s[i]) \subseteq part
      BY <3>3
    <3> HIDE DEF part, r
    <3>7. Extends(deps, st, t[i], part)
      BY <3>4, <3>5, <3>6 DEF Extends
    <3>8. ASSUME NEW j \in 1..i PROVE s[j] \in ToSet(t[i].order)
      <4>1. j = i \/ j \in 1..(i - 1)
        BY <3>1
      <4> QED BY <3>4, <3>5, <4>1 DEF Extends
    <3> QED BY <2>1, <3>7, <3>8
  <2> QED BY <2>2, <2>3
<1>7. P(n)
  <2> HIDE DEF P
  <2> QED BY <1>6
<1>8. \A x \in nodes : x \in ToSet(t[n].order)
  BY <1>5, <1>7
<1> HIDE DEF part, r
<1> QED BY <1>5, <1>7, <1>8 DEF part, r

(* A visit of n, where what n reaches is not on the stack, does what it     *)
(* should.                                                                  *)
Visited(deps, off, st, n) ==
  LET r == Visit(deps)[off][st][n]
  IN n \in ToSet(r.order) /\ Extends(deps, st, r, Below(deps, n))

LEMMA VisitGood ==
  ASSUME NEW deps, IsFiniteSet(DOMAIN deps), ~Cyclic(deps)
  PROVE  \A off \in SUBSET DOMAIN deps : \A st : \A n \in DOMAIN deps :
           Good(deps, st) /\ Below(deps, n) \subseteq off => Visited(deps, off, st, n)
<1> DEFINE D == DOMAIN deps
           P(off) == \A st : \A n \in D : Good(deps, st) /\ Below(deps, n) \subseteq off =>
                       Visited(deps, off, st, n)
           bad == {k \in Nat : \E off \in SUBSET D : Cardinality(off) = k /\ ~P(off)}
<1>1. \A off \in SUBSET D : IsFiniteSet(off) /\ Cardinality(off) \in Nat
  BY FinitePart
<1> SUFFICES ASSUME bad # {} PROVE FALSE
  BY <1>1
<1>2. PICK k \in bad : \A m \in bad : k <= m
  <2> HIDE DEF P
  <2> QED BY HasLeast
<1>3. PICK off \in SUBSET D : Cardinality(off) = k /\ ~P(off)
  <2> HIDE DEF P
  <2> QED BY <1>2
<1>4. PICK st : \E n \in D : Good(deps, st) /\ Below(deps, n) \subseteq off
        /\ ~Visited(deps, off, st, n)
  BY <1>3
<1>5. PICK n \in D : Good(deps, st) /\ Below(deps, n) \subseteq off
        /\ ~Visited(deps, off, st, n)
  BY <1>4
<1>6. n \in off /\ st \in Walks(D) /\ ~st.raised
  BY <1>5, BelowIsLeast DEF Good
<1> DEFINE v == Visit(deps)[off \ {n}]
           kids == deps[n] \cap D
           b == Each(v, st, kids)
           r == Visit(deps)[off][st][n]
<1>7. r = IF n \in ToSet(st.order) THEN st ELSE [b EXCEPT !.order = Append(@, n)]
  <2>1. Visit(deps)[off] = Turn(deps, Visit(deps), off)
    BY VisitTurns
  <2> HIDE DEF b
  <2>2. Turn(deps, Visit(deps), off)[st][n] =
          IF n \in ToSet(st.order) THEN st ELSE [b EXCEPT !.order = Append(@, n)]
    BY <1>6 DEF Turn, b
  <2> QED BY <2>1, <2>2
<1>8. CASE n \in ToSet(st.order)
  <2>1. Visited(deps, off, st, n)
    BY <1>5, <1>7, <1>8 DEF Extends, Visited
  <2> QED BY <1>5, <2>1
<1>9. CASE n \notin ToSet(st.order)
  <2>1. P(off \ {n})
    <3>1. Cardinality(off \ {n}) = k - 1 /\ k - 1 \in Nat /\ ~(k <= k - 1)
      <4>1. Cardinality(off \ {n}) = Cardinality(off) - 1 /\ Cardinality(off \ {n}) \in Nat
        BY <1>1, <1>3, <1>6, FS_RemoveElement
      <4> QED BY <1>2, <1>3, <4>1
    <3>2. off \ {n} \in SUBSET D
      OBVIOUS
    <3> HIDE DEF P
    <3> QED BY <1>2, <3>1, <3>2
  <2>2. ASSUME NEW a, NEW c \in kids, Good(deps, a)
        PROVE  c \in ToSet(v[a][c].order) /\ Extends(deps, a, v[a][c], Below(deps, c))
    <3>1. Below(deps, c) \subseteq off \ {n}
      BY <1>5, NoWayBack
    <3>2. Visited(deps, off \ {n}, a, c)
      BY <2>1, <2>2, <3>1
    <3> QED BY <3>2 DEF Visited
  <2>3. kids \in SUBSET D
    OBVIOUS
  <2> HIDE DEF v, kids
  <2>4. /\ Extends(deps, st, b, UNION {Below(deps, c) : c \in kids})
        /\ kids \subseteq ToSet(b.order)
    BY <1>5, <2>2, <2>3, EachGood
  <2>5. n \notin UNION {Below(deps, c) : c \in kids}
        /\ UNION {Below(deps, c) : c \in kids} \subseteq Below(deps, n)
    BY NoWayBack DEF kids
  <2> HIDE DEF b, r
  <2>6. n \notin ToSet(b.order) /\ Good(deps, b)
    BY <1>9, <2>4, <2>5 DEF Extends
  <2>7. r = [b EXCEPT !.order = Append(@, n)]
    BY <1>7, <1>9
  <2>8. Good(deps, r) /\ ToSet(r.order) = ToSet(b.order) \cup {n}
    BY <2>4, <2>6, <2>7, OneMore DEF kids
  <2>9. n \in Below(deps, n)
    BY BelowIsLeast
  <2>10. n \in ToSet(r.order) /\ Extends(deps, st, r, Below(deps, n))
    BY <2>4, <2>5, <2>8, <2>9 DEF Extends
  <2> QED BY <1>5, <2>10 DEF r, Visited
<1> QED BY <1>8, <1>9

(* _topo_sort and _order_versions on a graph find_cycle accepts.            *)
LEMMA WalkIsRight ==
  ASSUME NEW deps, IsFiniteSet(DOMAIN deps), ~Cyclic(deps), NEW roots \in SUBSET DOMAIN deps
  PROVE  Good(deps, DepthFirst(deps, roots))
           /\ roots \subseteq ToSet(DepthFirst(deps, roots).order)
<1> DEFINE st == [order |-> << >>, raised |-> FALSE]
           h == Visit(deps)[DOMAIN deps]
<1>1. Good(deps, st)
  BY DEF Good, Walks, IsInjective, Follows
<1>2. \A a : \A n \in roots : Good(deps, a) =>
        n \in ToSet(h[a][n].order) /\ Extends(deps, a, h[a][n], Below(deps, n))
  BY VisitGood, BelowIsLeast DEF Visited
<1> HIDE DEF h, st
<1>3. Extends(deps, st, Each(h, st, roots), UNION {Below(deps, n) : n \in roots})
      /\ roots \subseteq ToSet(Each(h, st, roots).order)
  BY <1>1, <1>2, EachGood
<1>4. DepthFirst(deps, roots) = Each(h, st, roots)
  BY DEF DepthFirst, h, st
<1> QED BY <1>3, <1>4 DEF Extends

-----------------------------------------------------------------------------
(* What registration lets into the library.                                 *)

(* A document's factors and inputs are lists. Registered is what every      *)
(* document of the library passed, the checks against its children too.     *)
WellFormed(d) ==
  /\ d.factors \in Seq(Factors(d))
  /\ \A f \in Factors(d) : f.inputs = None \/ f.inputs \in Seq(Inputs(f))
Registered(models) ==
  \A v \in Versions : models[v] # None =>
    /\ WellFormed(models[v]) /\ Accepted(models[v]) /\ ChildrenOK(models, {}, models[v])

(* What these models need is among them.                                    *)
Complete(models, S) == \A v \in S : Refs(models, v) \cap Computed(models) \subseteq S

(* An accepted definition's factors can be ordered, and read only factors   *)
(* of the definition.                                                       *)
LEMMA FactorsOrdered ==
  ASSUME NEW d, WellFormed(d), Accepted(d), d.mode = "computed"
  PROVE  LET walk == FactorOrder(d) IN
         /\ ~walk.raised /\ ToSet(walk.order) = Names(d) /\ IsInjective(walk.order)
         /\ walk.order \in Seq(Names(d)) /\ Follows(walk.order, FactorGraph(d))
<1> DEFINE deps == FactorGraph(d)
           walk == FactorOrder(d)
<1>1. DOMAIN deps = Names(d) /\ ~Cyclic(deps)
  BY DEF Accepted, FactorGraph, Modes
<1>2. IsFiniteSet(Names(d))
  <2>1. PICK n \in Nat : DOMAIN d.factors = 1..n
    BY DEF WellFormed
  <2>2. IsFiniteSet(DOMAIN d.factors)
    BY <2>1, FS_Interval
  <2> DEFINE b == [i \in DOMAIN d.factors |-> d.factors[i].name]
  <2>3. b \in Surjection(DOMAIN d.factors, Names(d))
    BY DEF Surjection, Names, Factors
  <2> HIDE DEF b
  <2> QED BY <2>2, <2>3, FS_Surjection
<1>3. walk = DepthFirst(deps, Names(d))
  BY DEF FactorOrder
<1> HIDE DEF deps, walk
<1>4. Good(deps, walk) /\ Names(d) \subseteq ToSet(walk.order)
  BY <1>1, <1>2, <1>3, WalkIsRight
<1> QED BY <1>1, <1>4 DEF Good, Walks, ToSet, deps, walk

LEMMA ArityIsNat == \A type \in DOMAIN Arity : Arity[type] \in Nat
BY DEF Arity

(* Its formulas get the inputs they take, and benchmarks to divide by.      *)
LEMMA FactorsComplete ==
  ASSUME NEW d, WellFormed(d), Accepted(d), d.mode = "computed", NEW f \in Factors(d)
  PROVE  /\ f.inputs \in Seq(Inputs(f)) /\ Len(f.inputs) >= 1
         /\ Arity[f.type] # 0 => Len(f.inputs) >= Arity[f.type]
         /\ FactorRefs(f) \subseteq Names(d)
         /\ f.hi - f.lo > 0
<1>1. FactorOK(d, f)
  BY DEF Accepted, Modes
<1>2. f.inputs # None /\ f.hi - f.lo > 0
  BY <1>1 DEF FactorOK, BenchmarksOK, Given
<1>3. f.inputs \in Seq(Inputs(f))
  BY <1>2 DEF WellFormed
<1>4. FactorRefs(f) \subseteq Names(d)
  BY <1>1 DEF FactorOK, InputsOK, KeyOK, FactorRefs, Keys
<1>5. Len(f.inputs) >= 1 /\ (Arity[f.type] # 0 => Len(f.inputs) >= Arity[f.type])
  <2>1. f.type \in DOMAIN Arity /\ Arity[f.type] \in Nat
    BY <1>1, ArityIsNat DEF FactorOK
  <2>2. IF Arity[f.type] = 0 THEN f.inputs # << >> ELSE Len(f.inputs) = Arity[f.type]
    BY <1>1 DEF FactorOK, InputsOK
  <2>3. Len(f.inputs) \in Nat /\ (f.inputs # << >> => Len(f.inputs) # 0)
    BY <1>3
  <2> QED BY <2>1, <2>2, <2>3
<1> QED BY <1>2, <1>3, <1>4, <1>5

(* A model needs no other, a composite models, a super composite composites.*)
LEMMA Layers ==
  ASSUME NEW models, Registered(models), NEW v \in Computed(models)
  PROVE  /\ Refs(models, v) \subseteq Computed(models)
         /\ models[v].kind \in Kinds
         /\ models[v].kind = "model" => Refs(models, v) = {}
         /\ models[v].kind = "composite" =>
              \A w \in Refs(models, v) : models[w].kind = "model"
         /\ models[v].kind = "super_composite" =>
              \A w \in Refs(models, v) : models[w].kind = "composite"
<1> DEFINE d == models[v]
<1>1. v \in Versions /\ d # None /\ d.mode = "computed"
  BY DEF Computed
<1>2. Accepted(d) /\ ChildrenOK(models, {}, d)
  BY <1>1 DEF Registered
<1>3. \A w \in ModelRefs(d) : d.kind # "model" /\ w \in Versions
  <2> SUFFICES ASSUME NEW f \in Factors(d), NEW key \in Keys(f), key[1] = "model"
               PROVE  d.kind # "model" /\ key[2] \in Versions
    BY DEF ModelRefs
  <2>1. FactorOK(d, f)
    BY <1>1, <1>2 DEF Accepted
  <2>2. KeyOK(d, key)
    BY <2>1 DEF FactorOK, InputsOK, Keys
  <2> QED BY <2>2 DEF KeyOK
<1>4. d.kind \in Kinds
  BY <1>2 DEF Accepted
<1>5. d.kind # "model" => \A w \in ModelRefs(d) :
         models[w] # None /\ models[w].mode = "computed"
           /\ models[w].kind = ChildKind[d.kind]
  BY <1>2, <1>4 DEF ChildrenOK, ChildKind, Kinds
<1>6. ChildKind["composite"] = "model" /\ ChildKind["super_composite"] = "composite"
  BY DEF ChildKind
<1> QED BY <1>3, <1>4, <1>5, <1>6 DEF Refs, Computed

VersionGraph(models, versions) == [v \in versions |-> Refs(models, v)]

(* The models to score can be ordered, whichever they are.                  *)
LEMMA VersionsOrdered ==
  ASSUME NEW models, Registered(models), IsFiniteSet(Versions),
         NEW versions \in SUBSET Computed(models)
  PROVE  LET walk == VersionOrder(models, versions) IN
         /\ ~walk.raised /\ ToSet(walk.order) = versions /\ IsInjective(walk.order)
         /\ walk.order \in Seq(versions)
         /\ Follows(walk.order, VersionGraph(models, versions))
<1> DEFINE deps == VersionGraph(models, versions)
           walk == VersionOrder(models, versions)
<1>1. DOMAIN deps = versions /\ \A v \in versions : deps[v] = Refs(models, v)
  BY DEF VersionGraph
<1>2. ~Cyclic(deps)
  <2> SUFFICES ASSUME NEW S \in SUBSET versions, S # {},
                      \A v \in S : Refs(models, v) \cap S # {}
               PROVE  FALSE
    BY <1>1 DEF Cyclic
  <2> DEFINE Has(kind) == \E v \in S : models[v].kind = kind
  <2>1. ~Has("model")
    BY Layers
  <2>2. ~Has("composite")
    BY <2>1, Layers
  <2>3. ~Has("super_composite")
    BY <2>2, Layers
  <2> QED BY <2>1, <2>2, <2>3, Layers DEF Kinds
<1>3. IsFiniteSet(versions)
  BY FS_Subset DEF Computed
<1>4. walk = DepthFirst(deps, versions)
  BY DEF VersionOrder, VersionGraph
<1> HIDE DEF deps, walk
<1>5. Good(deps, walk) /\ versions \subseteq ToSet(walk.order)
  BY <1>1, <1>2, <1>3, <1>4, WalkIsRight
<1> QED BY <1>1, <1>5 DEF Good, Walks, ToSet, deps, walk

LEMMA RegisteredOrderable ==
  ASSUME Registered(library)
  PROVE  Orderable
<1>1. IsFiniteSet(Versions)
  BY EngineAssumption
<1>2. LET walk == VersionOrder(library, Computed(library)) IN
      /\ ~walk.raised /\ ToSet(walk.order) = Computed(library)
      /\ Follows(walk.order, [v \in Computed(library) |-> Refs(library, v)])
  BY <1>1, VersionsOrdered DEF VersionGraph
<1>3. ASSUME NEW v \in Computed(library)
      PROVE  LET walk == FactorOrder(library[v]) IN
       /\ ~walk.raised /\ ToSet(walk.order) = Names(library[v])
       /\ Follows(walk.order, FactorGraph(library[v]))
       /\ \A f \in Factors(library[v]) :
            FactorRefs(f) \subseteq Names(library[v]) /\ f.hi - f.lo > 0
       /\ Refs(library, v) \subseteq Computed(library)
  <2>1. /\ library[v].mode = "computed" /\ WellFormed(library[v]) /\ Accepted(library[v])
    BY DEF Computed, Registered
  <2>2. Refs(library, v) \subseteq Computed(library)
    BY Layers
  <2> QED BY <2>1, <2>2, FactorsOrdered, FactorsComplete
<1> QED BY <1>2, <1>3 DEF Orderable

-----------------------------------------------------------------------------
(* The library.                                                             *)

(* The library only holds what registration accepted, with the children it  *)
(* was checked against: nothing is ever overwritten.                        *)
Library == library \in [Versions -> Submitted \cup {None}] /\ Registered(library)

LEMMA InitLibrary == Init => Library
BY DEF Init, Library, Registered

LEMMA StepLibrary == Library /\ [Next]_vars => Library'
<1> SUFFICES ASSUME Library, [Next]_vars PROVE Library'
  OBVIOUS
<1>1. CASE UNCHANGED library
  BY <1>1 DEF Library, Registered, WellFormed, ChildrenOK
<1>2. ASSUME NEW d \in Submitted, Register(d) PROVE Library'
  <2>1. /\ library' = [library EXCEPT ![d.version] = d] /\ library[d.version] = None
        /\ Accepted(d) /\ ChildrenOK(library, {}, d)
    BY <1>2 DEF Register
  <2>2. d.version \in Versions /\ library \in [Versions -> Submitted \cup {None}]
    BY <2>1 DEF Accepted, Library
  <2>3. library' \in [Versions -> Submitted \cup {None}] /\ library'[d.version] = d
    BY <2>1, <2>2
  <2>4. \A w \in Versions : library[w] # None => library'[w] = library[w]
    BY <2>1, <2>2
  <2>5. ASSUME NEW e, Accepted(e), ChildrenOK(library, {}, e),
               e.mode = "computed" \/ e.kind = "model"
        PROVE  ChildrenOK(library', {}, e)
    <3>1. CASE e.kind = "model"
      BY <3>1 DEF ChildrenOK, ChildKind
    <3>2. CASE e.kind # "model"
      <4>1. \A w \in ModelRefs(e) : w \in Versions
        <5> SUFFICES ASSUME NEW f \in Factors(e), NEW key \in Keys(f), key[1] = "model"
                     PROVE  key[2] \in Versions
          BY DEF ModelRefs
        <5>1. KeyOK(e, key)
          BY <2>5, <3>2 DEF Accepted, FactorOK, InputsOK, Keys
        <5> QED BY <5>1 DEF KeyOK
      <4> QED BY <2>4, <2>5, <4>1 DEF ChildrenOK
    <3> QED BY <3>1, <3>2
  <2>6. \A e : Accepted(e) => e.mode = "computed" \/ e.kind = "model"
    BY DEF Accepted, Modes
  <2>7. \A e \in Submitted : WellFormed(e)
    BY EngineAssumption DEF WellFormed
  <2>8. ASSUME NEW v \in Versions, library'[v] # None
        PROVE  WellFormed(library'[v]) /\ Accepted(library'[v])
                 /\ ChildrenOK(library', {}, library'[v])
    <3>1. CASE v = d.version
      BY <2>1, <2>3, <2>5, <2>6, <2>7, <3>1
    <3>2. CASE v # d.version
      <4>1. library'[v] = library[v]
        BY <2>1, <2>2, <3>2
      <4> QED BY <2>5, <2>6, <2>8, <4>1 DEF Library, Registered
    <3> QED BY <3>1, <3>2
  <2>9. Registered(library')
    BY <2>8 DEF Registered
  <2> QED BY <2>3, <2>9 DEF Library, Registered, WellFormed, ChildrenOK
<1> QED BY <1>1, <1>2 DEF Next, FileReturn, Observe, Purge, Reclassify, Rebuild, Calculate,
        vars, data

-----------------------------------------------------------------------------
(* One model, one year: what a score depends on.                            *)

LEMMA SortedFactors ==
  ASSUME NEW d, WellFormed(d), Accepted(d), d.mode = "computed"
  PROVE  \E n \in Nat : DOMAIN Sorted(d) = 1..n
           /\ \A i \in 1..n : Sorted(d)[i] \in Factors(d)
<1> DEFINE order == FactorOrder(d).order
<1>1. order \in Seq(Names(d))
  BY FactorsOrdered
<1>2. PICK n \in Nat : DOMAIN order = 1..n
  BY <1>1
<1>3. ASSUME NEW i \in 1..n
      PROVE (CHOOSE f \in Factors(d) : f.name = order[i]) \in Factors(d)
  <2>1. order[i] \in Names(d)
    BY <1>1, <1>2
  <2>2. \E f \in Factors(d) : f.name = order[i]
    BY <2>1 DEF Names
  <2> HIDE DEF order
  <2> QED BY <2>2
<1>4. Sorted(d) = [i \in 1..n |-> CHOOSE f \in Factors(d) : f.name = order[i]]
  BY <1>2 DEF Sorted
<1> HIDE DEF order
<1> QED BY <1>3, <1>4

(* A score is a run over the factors from Begin; t holds its steps.         *)
Begin(d) == [computed |-> [m \in Names(d) |-> None], total |-> Zero,
             filled |-> FALSE, raised |-> FALSE]
Sums(d, env, fill, n, t, r) ==
  /\ DOMAIN Sorted(d) = 1..n /\ \A i \in 1..n : Sorted(d)[i] \in Factors(d)
  /\ t[0] = Begin(d) /\ r = t[n]
  /\ \A i \in 1..n : t[i] = ScoreFactor(env, fill, t[i - 1], Sorted(d)[i])
Scores(d, env, fill, r) == \E n \in Nat : \E t : Sums(d, env, fill, n, t, r)

LEMMA ModelScores ==
  ASSUME NEW d, WellFormed(d), Accepted(d), d.mode = "computed", NEW env, NEW fill
  PROVE  Scores(d, env, fill, ScoreModel(d, env, fill))
<1>1. PICK n \in Nat : DOMAIN Sorted(d) = 1..n
        /\ \A i \in 1..n : Sorted(d)[i] \in Factors(d)
  BY SortedFactors
<1>2. PICK t : /\ t[0] = Begin(d) /\ ScoreModel(d, env, fill) = t[n]
               /\ \A i \in 1..n : t[i] = ScoreFactor(env, fill, t[i - 1], Sorted(d)[i])
  <2>1. Begin(d) = [computed |-> [m \in Names(d) |-> None], total |-> Zero,
                    filled |-> FALSE, raised |-> FALSE]
    BY DEF Begin
  <2> HIDE DEF Begin
  <2> QED BY <1>1, <2>1, ScoreSteps
<1> QED BY <1>1, <1>2 DEF Scores, Sums

(* Once a value was filled in, the score is one with a filled value.        *)
LEMMA FilledStays ==
  ASSUME NEW env, NEW fill, NEW acc, NEW f
  PROVE  /\ acc.filled => ScoreFactor(env, fill, acc, f).filled
         /\ ComputeFactor(f, env, acc.computed, fill).filled
              => ScoreFactor(env, fill, acc, f).filled
<1> DEFINE r == ComputeFactor(f, env, acc.computed, fill)
           c == [acc.computed EXCEPT ![f.name] = r.value]
           t == Plus(acc.total, Times(Num(f.weight), Normalize(f, r.value)))
           b == acc.filled \/ r.filled
           e == acc.raised \/ r.raised
<1>1. ScoreFactor(env, fill, acc, f) =
        [computed |-> c, total |-> t, filled |-> b, raised |-> e]
  BY Zenon DEF ScoreFactor, Added
<1>2. (acc.filled => b) /\ (r.filled => b)
  OBVIOUS
<1> HIDE DEF r, c, t, b, e
<1>3. ScoreFactor(env, fill, acc, f).filled = b
  BY <1>1
<1> QED BY <1>2, <1>3, Zenon DEF r

(* Scores whose factors agree agree, as far as nothing is filled in the one. *)
Agree(d, env, fill, env2, fill2, filled) ==
  \A done : \A f \in Factors(d) :
    \/ ComputeFactor(f, env, done, fill) = ComputeFactor(f, env2, done, fill2)
    \/ ComputeFactor(f, env, done, fill).filled /\ ~filled
(* By induction over the factors.                                           *)
LEMMA SameScores ==
  ASSUME NEW d, NEW env, NEW fill, NEW env2, NEW fill2, NEW r, NEW r2,
         Scores(d, env, fill, r), Scores(d, env2, fill2, r2),
         Agree(d, env, fill, env2, fill2, r.filled)
  PROVE  r = r2
<1>1. PICK n \in Nat : \E t : Sums(d, env, fill, n, t, r)
  BY Zenon DEF Scores
<1>2. PICK t : Sums(d, env, fill, n, t, r)
  BY <1>1, Zenon
<1>3. PICK m \in Nat : \E u : Sums(d, env2, fill2, m, u, r2)
  BY Zenon DEF Scores
<1>4. PICK u : Sums(d, env2, fill2, m, u, r2)
  BY <1>3, Zenon
<1>5. m = n
  BY <1>2, <1>4 DEF Sums
<1> DEFINE C(i) == ComputeFactor(Sorted(d)[i], env, t[i - 1].computed, fill)
           C2(i) == ComputeFactor(Sorted(d)[i], env2, u[i - 1].computed, fill2)
<1>6. \A i \in 1..n : t[i - 1].filled \/ C(i).filled => t[i].filled
  BY <1>2, FilledStays DEF Sums
<1>7. ~r.filled => \A i \in 0..n : ~t[i].filled
  <2> DEFINE bad == {k \in 0..n : t[n - k].filled}
  <2> HIDE DEF C
  <2> SUFFICES ASSUME ~r.filled, bad # {} PROVE FALSE
    <3>1. \A i \in 0..n : n - i \in 0..n /\ n - (n - i) = i
      OBVIOUS
    <3> QED BY <3>1
  <2>1. PICK k \in bad : \A j \in bad : k <= j
    <3>1. bad \in SUBSET Nat
      OBVIOUS
    <3> HIDE DEF bad
    <3> QED BY <3>1, HasLeast
  <2>2. k # 0
    BY <1>2, <2>1 DEF Sums
  <2>3. /\ n - (k - 1) \in 1..n /\ k - 1 \in 0..n /\ ~(k <= k - 1)
        /\ (n - (k - 1)) - 1 = n - k
    BY <2>1, <2>2
  <2>4. t[n - (k - 1)].filled
    BY <1>6, <2>1, <2>3
  <2> QED BY <2>1, <2>3, <2>4
<1>8. \A i \in 1..n : ~r.filled => ~C(i).filled
  <2> HIDE DEF C
  <2>1. \A i \in 1..n : i \in 0..n
    OBVIOUS
  <2> QED BY <1>6, <1>7, <2>1
<1> DEFINE bad == {i \in 0..n : t[i] # u[i]}
<1> HIDE DEF C, C2
<1>9. bad = {}
  <2> SUFFICES ASSUME bad # {} PROVE FALSE
    OBVIOUS
  <2>1. PICK i \in bad : \A j \in bad : i <= j
    <3>1. bad \in SUBSET Nat
      OBVIOUS
    <3> HIDE DEF bad
    <3> QED BY <3>1, HasLeast
  <2>2. i # 0
    BY <1>2, <1>4, <2>1 DEF Sums
  <2>3. i \in 1..n /\ i - 1 \in 0..n /\ ~(i <= i - 1)
    BY <2>1, <2>2
  <2>4. t[i - 1] = u[i - 1]
    BY <2>1, <2>3
  <2>5. C(i) = C2(i)
    <3> DEFINE f == Sorted(d)[i]
               done == t[i - 1].computed
    <3>1. C(i) = ComputeFactor(f, env, done, fill)
            /\ C2(i) = ComputeFactor(f, env2, done, fill2)
      BY <2>4 DEF C, C2
    <3>2. f \in Factors(d)
      BY <1>2, <2>3 DEF Sums
    <3>3. ~ (C(i).filled /\ ~r.filled)
      BY <1>8, <2>3, Zenon
    <3>4. \/ ComputeFactor(f, env, done, fill) = ComputeFactor(f, env2, done, fill2)
          \/ ComputeFactor(f, env, done, fill).filled /\ ~r.filled
      <4> HIDE DEF f
      <4> QED BY <3>2, Zenon DEF Agree
    <3> HIDE DEF f, done
    <3> QED BY <3>1, <3>3, <3>4, Zenon
  <2>6. ScoreFactor(env, fill, t[i - 1], Sorted(d)[i]) =
        ScoreFactor(env2, fill2, u[i - 1], Sorted(d)[i])
    BY <2>4, <2>5 DEF ScoreFactor, C, C2
  <2> QED BY <1>2, <1>4, <1>5, <2>1, <2>3, <2>6 DEF Sums
<1> QED BY <1>2, <1>4, <1>5, <1>9 DEF Sums

KeyKinds == {"number", "concept", "factor", "model"}
(* An accepted input's key is of one of four kinds, and a key that names a  *)
(* model names one of ModelRefs.                                            *)
LEMMA KeysKnown ==
  ASSUME NEW d, Accepted(d), d.mode = "computed", NEW f \in Factors(d), NEW e \in Inputs(f)
  PROVE  e.key[1] \in KeyKinds /\ (e.key[1] = "model" => e.key[2] \in ModelRefs(d))
<1>1. FactorOK(d, f)
  BY DEF Accepted
<1>2. KeyOK(d, e.key)
  BY <1>1 DEF FactorOK, InputsOK
<1>3. e.key[1] \in KeyKinds
  BY <1>2 DEF KeyOK, KeyKinds
<1>4. e.key \in UNION {Keys(g) : g \in Factors(d)}
  BY DEF Keys
<1> QED BY <1>3, <1>4 DEF ModelRefs

(* Nothing filled, an input is what it resolves to.                         *)
LEMMA UnfilledInput ==
  ASSUME NEW e, e.key[1] \in KeyKinds, NEW env, NEW done, NEW fill,
         ~Filled(e, env, done, fill).filled
  PROVE  Filled(e, env, done, fill) = Real(Resolve(e.key, env, done))
<1> DEFINE policy == Policy(e, fill.default)
           series == CASE e.key[1] = "concept" -> fill.concepts[e.key[2]]
                       [] e.key[1] = "model"   -> fill.models[e.key[2]]
                       [] OTHER -> << >>
           donor == series[DonorYear(DOMAIN series, env.year, policy)]
           real == Real(Resolve(e.key, env, done))
           gone == Missing(e.key, env, done)
<1>1. Filled(e, env, done, fill) =
        IF ~fill.allowed \/ ~gone \/ policy = "none" THEN real
        ELSE IF policy = "value" THEN [value |-> One, filled |-> TRUE]
        ELSE IF DOMAIN series = {} THEN Real(None)
        ELSE [value |-> donor, filled |-> TRUE]
  BY Zenon DEF Filled
<1>2. gone => real = Real(None)
  BY DEF KeyKinds, Missing, Resolve
<1> HIDE DEF policy, series, donor, real, gone
<1>3. \A x : [value |-> x, filled |-> TRUE].filled
  OBVIOUS
<1> QED BY <1>1, <1>2, <1>3, Zenon DEF real

LEMMA RealInput ==
  ASSUME NEW e, NEW env, NEW done
  PROVE  Filled(e, env, done, NoFill) = Real(Resolve(e.key, env, done))
<1>1. ~NoFill.allowed
  BY DEF NoFill
<1> QED BY <1>1, Zenon DEF Filled

(* With the totals of the models it reads at hand an input does not look at *)
(* the series of totals.                                                    *)
SameBut(env, fill, env2, fill2) ==
  /\ env.year = env2.year /\ env.vals = env2.vals /\ env.history = env2.history
  /\ fill.allowed = fill2.allowed /\ fill.default = fill2.default
  /\ fill.concepts = fill2.concepts
LEMMA SameInput ==
  ASSUME NEW e, e.key[1] \in KeyKinds, NEW env, NEW done, NEW fill, NEW env2, NEW fill2,
         SameBut(env, fill, env2, fill2),
         e.key[1] = "model" => /\ e.key[2] \in DOMAIN env.totals
                               /\ e.key[2] \in DOMAIN env2.totals
                               /\ env.totals[e.key[2]] = env2.totals[e.key[2]]
  PROVE  Filled(e, env, done, fill) = Filled(e, env2, done, fill2)
<1>1. /\ Missing(e.key, env, done) = Missing(e.key, env2, done)
      /\ Resolve(e.key, env, done) = Resolve(e.key, env2, done)
  BY DEF Missing, Resolve, SameBut, KeyKinds
<1>2. CASE e.key[1] = "model"
  <2>1. ~Missing(e.key, env, done) /\ ~Missing(e.key, env2, done)
    BY <1>2 DEF Missing
  <2> QED BY <1>1, <2>1, Zenon DEF Filled
<1>3. CASE e.key[1] # "model"
  <2> DEFINE S(g) == CASE e.key[1] = "concept" -> g.concepts[e.key[2]]
                       [] e.key[1] = "model"   -> g.models[e.key[2]]
                       [] OTHER -> << >>
             F(g, gone, real, series, year) ==
               IF ~g.allowed \/ ~gone \/ Policy(e, g.default) = "none" THEN real
               ELSE IF Policy(e, g.default) = "value" THEN [value |-> One, filled |-> TRUE]
               ELSE IF DOMAIN series = {} THEN Real(None)
               ELSE [value |-> series[DonorYear(DOMAIN series, year, Policy(e, g.default))],
                     filled |-> TRUE]
  <2>1. S(fill) = S(fill2)
    BY <1>3 DEF SameBut, KeyKinds
  <2>2. Filled(e, env, done, fill) =
          F(fill, Missing(e.key, env, done), Real(Resolve(e.key, env, done)), S(fill),
            env.year)
    BY Zenon DEF Filled
  <2>3. Filled(e, env2, done, fill2) =
          F(fill2, Missing(e.key, env2, done), Real(Resolve(e.key, env2, done)), S(fill2),
            env2.year)
    BY Zenon DEF Filled
  <2> HIDE DEF S
  <2>4. \A gone, real, series, year :
          F(fill, gone, real, series, year) = F(fill2, gone, real, series, year)
    BY DEF SameBut
  <2> HIDE DEF F
  <2> QED BY <1>1, <2>1, <2>2, <2>3, <2>4 DEF SameBut
<1> QED BY <1>2, <1>3

LEMMA FactorFollows ==
  ASSUME NEW f, NEW env, NEW done, NEW fill, NEW env2, NEW fill2,
         env.history = env2.history,
         \A e \in Inputs(f) : Filled(e, env, done, fill) = Filled(e, env2, done, fill2)
  PROVE  ComputeFactor(f, env, done, fill) = ComputeFactor(f, env2, done, fill2)
<1>1. \A i \in DOMAIN f.inputs : f.inputs[i] \in Inputs(f)
  BY DEF Inputs
<1>2. Resolved(f, env, done, fill) = Resolved(f, env2, done, fill2)
  BY <1>1 DEF Resolved
<1>3. HistoryOf(f, env) = HistoryOf(f, env2)
  BY DEF HistoryOf
<1> QED BY <1>2, <1>3, Zenon DEF ComputeFactor

LEMMA FactorFilled ==
  ASSUME NEW f, f.type \notin HistoricalTypes, NEW env, NEW done, NEW fill,
         NEW e \in Inputs(f), Filled(e, env, done, fill).filled
  PROVE  ComputeFactor(f, env, done, fill).filled
<1> DEFINE in == Resolved(f, env, done, fill)
           value == Formula(f.type, Taken(in))
           b == \E i \in DOMAIN in : in[i].filled
           c == FormulaRaises(f.type, Taken(in))
<1>1. ComputeFactor(f, env, done, fill) = [value |-> value, filled |-> b, raised |-> c]
  BY Zenon DEF ComputeFactor, FromInputs
<1>2. PICK i \in DOMAIN f.inputs : f.inputs[i] = e
  BY DEF Inputs
<1>3. i \in DOMAIN in /\ in[i] = Filled(e, env, done, fill)
  BY <1>2 DEF Resolved
<1>4. b
  <2> HIDE DEF in
  <2> QED BY <1>3, Zenon
<1> HIDE DEF value, b, c
<1>5. ComputeFactor(f, env, done, fill).filled = b
  BY <1>1
<1> QED BY <1>4, <1>5, Zenon

LEMMA UnfilledAgrees ==
  ASSUME NEW d, Accepted(d), d.mode = "computed", NEW env, NEW fill
  PROVE  Agree(d, env, fill, env, NoFill, FALSE)
<1> SUFFICES ASSUME NEW f \in Factors(d), NEW done,
                    ~ComputeFactor(f, env, done, fill).filled
             PROVE  ComputeFactor(f, env, done, fill) = ComputeFactor(f, env, done, NoFill)
  BY Zenon DEF Agree
<1>1. CASE f.type \in HistoricalTypes
  BY <1>1, Zenon DEF ComputeFactor
<1>2. CASE f.type \notin HistoricalTypes
  <2>1. ASSUME NEW e \in Inputs(f)
        PROVE  Filled(e, env, done, fill) = Filled(e, env, done, NoFill)
    <3>1. ~Filled(e, env, done, fill).filled
      BY <1>2, FactorFilled, Zenon
    <3>2. e.key[1] \in KeyKinds
      BY KeysKnown
    <3>3. Filled(e, env, done, fill) = Real(Resolve(e.key, env, done))
      BY <3>1, <3>2, UnfilledInput, Zenon
    <3> QED BY <3>3, RealInput
  <2> QED BY <2>1, FactorFollows
<1> QED BY <1>1, <1>2

(* A score nothing was filled in for is the score with filling forbidden.   *)
LEMMA UnfilledScore ==
  ASSUME NEW d, WellFormed(d), Accepted(d), d.mode = "computed", NEW env, NEW fill,
         ~ScoreModel(d, env, fill).filled \/ ~fill.allowed
  PROVE  ScoreModel(d, env, fill).total = ScoreModel(d, env, NoFill).total
<1>1. Scores(d, env, fill, ScoreModel(d, env, fill))
        /\ Scores(d, env, NoFill, ScoreModel(d, env, NoFill))
  BY ModelScores
<1>2. CASE ~fill.allowed
  <2>1. \A e, done : Filled(e, env, done, fill) = Real(Resolve(e.key, env, done))
    BY <1>2, Zenon DEF Filled
  <2>2. \A f, done : ComputeFactor(f, env, done, fill) = ComputeFactor(f, env, done, NoFill)
    BY <2>1, RealInput, FactorFollows
  <2>3. Agree(d, env, fill, env, NoFill, ScoreModel(d, env, fill).filled)
    BY <2>2 DEF Agree
  <2> QED BY <1>1, <2>3, SameScores
<1>3. CASE ~ScoreModel(d, env, fill).filled
  <2>1. Agree(d, env, fill, env, NoFill, ScoreModel(d, env, fill).filled)
    BY <1>3, UnfilledAgrees, Zenon DEF Agree
  <2> QED BY <1>1, <2>1, SameScores
<1> QED BY <1>2, <1>3

(* score_org fills a missing total from the series of all years' totals,    *)
(* calculate from the one year it knows: with the year's totals at hand     *)
(* both compute the same.                                                   *)
LEMMA SameTotal ==
  ASSUME NEW d, WellFormed(d), Accepted(d), d.mode = "computed",
         NEW env, NEW fill, NEW env2, NEW fill2, SameBut(env, fill, env2, fill2),
         \A v \in ModelRefs(d) : /\ v \in DOMAIN env.totals /\ v \in DOMAIN env2.totals
                                 /\ env.totals[v] = env2.totals[v]
  PROVE  ScoreModel(d, env, fill) = ScoreModel(d, env2, fill2)
<1>1. Scores(d, env, fill, ScoreModel(d, env, fill))
        /\ Scores(d, env2, fill2, ScoreModel(d, env2, fill2))
  BY ModelScores
<1>2. ASSUME NEW f \in Factors(d), NEW done
      PROVE  ComputeFactor(f, env, done, fill) = ComputeFactor(f, env2, done, fill2)
  <2>1. ASSUME NEW e \in Inputs(f)
        PROVE  Filled(e, env, done, fill) = Filled(e, env2, done, fill2)
    <3>1. e.key[1] \in KeyKinds /\ (e.key[1] = "model" => e.key[2] \in ModelRefs(d))
      BY KeysKnown
    <3> QED BY <3>1, SameInput
  <2> QED BY <2>1, FactorFollows DEF SameBut
<1>3. Agree(d, env, fill, env2, fill2, ScoreModel(d, env, fill).filled)
  BY <1>2 DEF Agree
<1> QED BY <1>1, <1>3, SameScores

-----------------------------------------------------------------------------
(* All scores of an organization: every row is what its model gives on top  *)
(* of the rows of the models it needs.                                      *)

Written(org, rows, v) == {ScoreYear(org, rows, v, y) : y \in YearsOf(org, v)}
(* rows has, for every version, what its model gives on top of rows.        *)
Settled(org, versions, rows) ==
  /\ \A r \in rows : r.model \in versions
  /\ \A v \in versions : Of(rows, v) = Written(org, rows, v)

(* A model's rows are made of the rows of the models it reads.              *)
LEMMA YearLocal ==
  ASSUME NEW org, NEW a, NEW b, NEW v, \A w \in Refs(org.models, v) : Of(a, w) = Of(b, w)
  PROVE  Written(org, a, v) = Written(org, b, v)
<1> DEFINE S == Refs(org.models, v)
<1> HIDE DEF S
<1>1. \A w \in S : Of(a, w) = Of(b, w)
  BY DEF S
<1>2. \A w \in S : YearsIn(a, w) = YearsIn(b, w)
  BY <1>1 DEF YearsIn
<1>3. \A y : \A w \in S : TotalOf(a, w, y) = TotalOf(b, w, y)
  BY <1>1, Zenon DEF TotalOf
<1>4. \A y : Totals(org, a, v, y) = Totals(org, b, v, y)
  <2> SUFFICES ASSUME NEW y PROVE Totals(org, a, v, y) = Totals(org, b, v, y)
    OBVIOUS
  <2>1. {u \in S : y \in YearsIn(a, u)} = {u \in S : y \in YearsIn(b, u)}
    BY <1>2
  <2>2. [w \in {u \in S : y \in YearsIn(a, u)} |-> TotalOf(a, w, y)] =
        [w \in {u \in S : y \in YearsIn(b, u)} |-> TotalOf(b, w, y)]
    BY <1>3, <2>1
  <2> QED BY <2>2 DEF Totals, S
<1>5. ModelSeries(org, a, v) = ModelSeries(org, b, v)
  <2>1. \A w \in S : [y \in YearsIn(a, w) |-> TotalOf(a, w, y)]
          = [y \in YearsIn(b, w) |-> TotalOf(b, w, y)]
    BY <1>2, <1>3
  <2>2. [w \in S |-> [y \in YearsIn(a, w) |-> TotalOf(a, w, y)]] =
        [w \in S |-> [y \in YearsIn(b, w) |-> TotalOf(b, w, y)]]
    BY <2>1
  <2> QED BY <2>2 DEF ModelSeries, S
<1>6. \A y : Flagged(org, a, v, y) <=> Flagged(org, b, v, y)
  BY <1>1, Zenon DEF Flagged, S
<1>7. \A y : ScoreYear(org, a, v, y) = ScoreYear(org, b, v, y)
  <2> SUFFICES ASSUME NEW y PROVE ScoreYear(org, a, v, y) = ScoreYear(org, b, v, y)
    OBVIOUS
  <2>1. Flagged(org, a, v, y) = Flagged(org, b, v, y)
    BY <1>6 DEF Flagged
  <2>2. EnvOf(org, a, v, y) = EnvOf(org, b, v, y) /\ FillOf(org, a, v) = FillOf(org, b, v)
    BY <1>4, <1>5, Zenon DEF EnvOf, FillOf
  <2> QED BY <2>1, <2>2, Zenon DEF ScoreYear, Row
<1> QED BY <1>7 DEF Written

LEMMA ScoreYearIs ==
  \A org, rows, v, y : ScoreYear(org, rows, v, y).model = v
    /\ ScoreYear(org, rows, v, y).year = y
BY DEF ScoreYear, Row

(* score_org writes model after model, each after those it reads, so that   *)
(* no row is made from rows that change later.                              *)
LEMMA BatchSettled ==
  ASSUME NEW org, Registered(org.models), IsFiniteSet(Versions),
         NEW versions \in SUBSET Computed(org.models), Complete(org.models, versions)
  PROVE  Settled(org, versions, Batch(org, versions))
<1> DEFINE order == OrderOf(org, versions)
<1>1. /\ ToSet(order) = versions /\ IsInjective(order) /\ order \in Seq(versions)
      /\ Follows(order, VersionGraph(org.models, versions))
  BY VersionsOrdered DEF OrderOf
<1>2. PICK n \in Nat : DOMAIN order = 1..n
  BY <1>1
<1>3. PICK t : /\ t[0] = Nothing /\ Batch(org, versions) = t[n]
               /\ \A i \in 1..n : t[i] = ScoreAll(org, t[i - 1], order[i])
  BY <1>2, BatchSteps
<1>4. \A i \in 1..n : t[i] = t[i - 1] \cup Written(org, t[i - 1], order[i])
  BY <1>3 DEF ScoreAll, Written
<1>5. \A i \in 1..n, j \in 1..n : order[i] = order[j] => i = j
  BY <1>1, <1>2 DEF IsInjective
<1>6. versions = {order[i] : i \in 1..n}
  BY <1>1, <1>2 DEF ToSet
<1>7. ASSUME NEW i \in 1..n, NEW w \in Refs(org.models, order[i])
      PROVE  \E j \in 1..(i - 1) : order[j] = w
  <2>1. order[i] \in versions
    BY <1>6
  <2>2. w \in versions
    BY <2>1, Layers DEF Complete
  <2> DEFINE deps == VersionGraph(org.models, versions)
  <2>3. DOMAIN deps = versions /\ deps[order[i]] = Refs(org.models, order[i])
    BY <2>1 DEF VersionGraph
  <2> HIDE DEF deps, order
  <2>4. i \in DOMAIN order /\ w \in deps[order[i]] \cap DOMAIN deps
    BY <1>2, <2>2, <2>3
  <2> QED BY <1>1, <2>4, Zenon DEF Follows, deps
<1> HIDE DEF order
<1>8. \A w : \A i \in 1..n : Of(t[i], w) = IF w = order[i]
        THEN Of(t[i - 1], w) \cup Written(org, t[i - 1], w)
                                       ELSE Of(t[i - 1], w)
  BY <1>4, ScoreYearIs DEF Of, Written
<1> DEFINE P(k) == /\ \A r \in t[k] : \E j \in 1..k : r.model = order[j]
                   /\ \A j \in 1..k : Of(t[k], order[j]) = Written(org, t[k], order[j])
           bad == {k \in 0..n : ~P(k)}
<1>9. bad = {}
  <2> SUFFICES ASSUME bad # {} PROVE FALSE
    OBVIOUS
  <2>1. PICK k \in bad : \A j \in bad : k <= j
    <3> HIDE DEF P
    <3>1. bad \in SUBSET Nat
      OBVIOUS
    <3> QED BY <3>1, HasLeast
  <2>2. k # 0
    <3>1. P(0)
      BY <1>3 DEF Nothing
    <3> QED BY <2>1, <3>1
  <2>3. k \in 1..n /\ k - 1 \in 0..n /\ ~(k <= k - 1)
    BY <2>1, <2>2
  <2>4. P(k - 1)
    <3> HIDE DEF P
    <3> QED BY <2>1, <2>3
  <2>5. \A j \in 1..k : j = k \/ j \in 1..(k - 1)
    BY <2>3
  <2>6. \A r \in t[k] : \E j \in 1..k : r.model = order[j]
    <3>1. \A j \in 1..(k - 1) : j \in 1..k
      BY <2>3
    <3>2. k \in 1..k
      BY <2>3
    <3> QED BY <1>4, <2>3, <2>4, <3>1, <3>2, ScoreYearIs DEF Written
  <2>7. Of(t[k - 1], order[k]) = {}
    <3> SUFFICES ASSUME NEW r \in t[k - 1], r.model = order[k] PROVE FALSE
      BY DEF Of
    <3>1. PICK j \in 1..(k - 1) : r.model = order[j]
      BY <2>4
    <3>2. j \in 1..n /\ j # k
      BY <2>3
    <3> QED BY <1>5, <2>3, <3>1, <3>2
  <2>8. \A j \in 1..(k - 1) : order[j] # order[k]
          /\ Of(t[k], order[j]) = Of(t[k - 1], order[j])
    <3>1. \A j \in 1..(k - 1) : j \in 1..n /\ j # k
      BY <2>3
    <3> QED BY <1>5, <1>8, <2>3, <3>1
  <2>9. ASSUME NEW j \in 1..k
        PROVE Written(org, t[k - 1], order[j]) = Written(org, t[k], order[j])
    <3>1. ASSUME NEW w \in Refs(org.models, order[j]) PROVE Of(t[k - 1], w) = Of(t[k], w)
      <4>1. j \in 1..n /\ \A m \in 1..(j - 1) : m \in 1..(k - 1)
        BY <2>3
      <4>2. PICK m \in 1..(j - 1) : order[m] = w
        BY <1>7, <4>1
      <4> QED BY <2>8, <4>1, <4>2
    <3> QED BY <3>1, YearLocal
  <2>10. ASSUME NEW j \in 1..k PROVE Of(t[k], order[j]) = Written(org, t[k], order[j])
    <3>1. CASE j = k
      BY <1>8, <2>3, <2>7, <2>9, <3>1
    <3>2. CASE j \in 1..(k - 1)
      BY <2>4, <2>8, <2>9, <3>2
    <3> QED BY <2>5, <3>1, <3>2
  <2> QED BY <2>1, <2>6, <2>10
<1>10. P(n)
  <2> HIDE DEF P
  <2> QED BY <1>9
<1> QED BY <1>3, <1>6, <1>10 DEF Settled

(* There is one such set of rows: a rebuild of some models and one of all   *)
(* agree, and a second rebuild writes what the first one wrote. By          *)
(* induction over the layers.                                               *)
LEMMA SettledOnce ==
  ASSUME NEW org, Registered(org.models), NEW S \in SUBSET Computed(org.models),
         NEW T, S \subseteq T, Complete(org.models, S), NEW a, NEW b, Settled(org, S, a),
         Settled(org, T, b)
  PROVE  \A v \in S : Of(a, v) = Of(b, v)
<1> DEFINE models == org.models
<1>1. \A v \in S : Refs(models, v) \subseteq S
  BY Layers DEF Complete
<1>2. \A v \in S : (\A w \in Refs(models, v) : Of(a, w) = Of(b, w)) => Of(a, v) = Of(b, v)
  BY YearLocal DEF Settled
<1> HIDE DEF models
<1>3. \A v \in S : models[v].kind = "model" => Of(a, v) = Of(b, v)
  BY <1>2, Layers DEF models
<1>4. \A v \in S : models[v].kind = "composite" => Of(a, v) = Of(b, v)
  BY <1>1, <1>2, <1>3, Layers DEF models
<1>5. \A v \in S : models[v].kind = "super_composite" => Of(a, v) = Of(b, v)
  BY <1>1, <1>2, <1>4, Layers DEF models
<1> QED BY <1>3, <1>4, <1>5, Layers DEF models, Kinds

-----------------------------------------------------------------------------
(* The chain of models below one.                                           *)

(* _prepare_models finds the models below, and they are closed.             *)
LEMMA ClosureIs ==
  ASSUME NEW models, Registered(models), NEW S \in SUBSET Computed(models)
  PROVE  /\ S \subseteq Closure(models, S) /\ Closure(models, S) \subseteq Computed(models)
         /\ Complete(models, Closure(models, S))
         /\ \A T \in SUBSET Computed(models) :
              S \subseteq T /\ Complete(models, T) => Closure(models, S) \subseteq T
<1>1. Complete(models, Computed(models))
  BY DEF Complete
<1>2. /\ S \subseteq Closure(models, S) /\ Closure(models, S) \subseteq Computed(models)
      /\ \A T \in SUBSET Computed(models) :
           S \subseteq T /\ Complete(models, T) => Closure(models, S) \subseteq T
  BY DEF Closure, Complete
<1>3. Complete(models, Closure(models, S))
  <2> SUFFICES ASSUME NEW v \in Closure(models, S),
                      NEW w \in Refs(models, v) \cap Computed(models),
                      NEW T \in SUBSET Computed(models), S \subseteq T, Complete(models, T)
               PROVE  w \in T
    BY DEF Complete, Closure
  <2>1. v \in T
    BY <1>2
  <2> QED BY <2>1 DEF Complete
<1> QED BY <1>2, <1>3

(* Without the model itself the chain still holds what its models read: no  *)
(* model reaches itself.                                                    *)
LEMMA ChainBelow ==
  ASSUME NEW models, Registered(models), NEW v \in Computed(models)
  PROVE  LET below == Closure(models, {v}) \ {v} IN
         /\ below \in SUBSET Computed(models)
         /\ Refs(models, v) \subseteq below
         /\ \A w \in below : Refs(models, w) \subseteq below
<1> DEFINE chain == Closure(models, {v})
           kind(w) == models[w].kind
           T == {v} \cup {w \in Computed(models) :
                  kind(w) = "model" \/ (kind(v) = "super_composite" /\ kind(w) = "composite")}
<1>1. v \in chain /\ chain \subseteq Computed(models)
        /\ \A w \in chain : Refs(models, w) \subseteq chain
  BY ClosureIs, Layers DEF Complete
<1>2. T \in SUBSET Computed(models) /\ v \in T
  OBVIOUS
<1>3. Complete(models, T)
  <2> SUFFICES ASSUME NEW w \in T, NEW u \in Refs(models, w) PROVE u \in T
    BY DEF Complete
  <2>1. w \in Computed(models) /\ u \in Computed(models) /\ kind(w) \in Kinds
    BY <1>2, Layers
  <2> QED BY <2>1, Layers DEF Kinds
<1>4. chain \subseteq T
  BY <1>2, <1>3, ClosureIs
<1>5. \A w \in T : v \notin Refs(models, w)
  BY <1>2, Layers DEF Kinds
<1> QED BY <1>1, <1>2, <1>4, <1>5

-----------------------------------------------------------------------------
(* A score on request is the row of a rebuild.                              *)

LEMMA SpanEnds ==
  ASSUME NEW years \in SUBSET Years, NEW y \in years
  PROVE  /\ Min(years) \in years /\ Max(years) \in years
         /\ Min(years) <= y /\ Max(years) >= y /\ Years \subseteq Int
<1>1. IsFiniteSet(Years) /\ Years \subseteq Int
  BY EngineAssumption, FS_Interval DEF Years
<1>2. IsFiniteSet(years)
  BY <1>1, FS_Subset
<1>3. (\E m \in years : \A x \in years : m <= x)
        /\ (\E m \in years : \A x \in years : m >= x)
  <2> DEFINE down == {i \in Nat : FirstYear + i \in years}
             up == {i \in Nat : LastYear - i \in years}
  <2>1. y - FirstYear \in down /\ LastYear - y \in up
    BY EngineAssumption DEF Years
  <2>2. PICK i \in down : \A j \in down : i <= j
    BY <2>1, HasLeast
  <2>3. PICK k \in up : \A j \in up : k <= j
    BY <2>1, HasLeast
  <2>4. \A x \in years : /\ x - FirstYear \in down /\ LastYear - x \in up
                             /\ x \in Int
    BY EngineAssumption DEF Years
  <2>5. FirstYear + i \in years /\ LastYear - k \in years
    OBVIOUS
  <2> HIDE DEF down, up
  <2>6. i \in Int /\ k \in Int
    BY <2>2, <2>3 DEF down, up
  <2>7. ASSUME NEW x \in years PROVE FirstYear + i <= x /\ LastYear - k >= x
    <3>1. i <= x - FirstYear /\ k <= LastYear - x /\ x \in Int
      BY <2>2, <2>3, <2>4
    <3> QED BY <2>6, <3>1, EngineAssumption
  <2> QED BY <2>5, <2>7
<1>4. Min(years) \in years /\ Max(years) \in years
      /\ Min(years) <= y /\ Max(years) >= y
  <2> DEFINE lo == CHOOSE m \in years : \A x \in years : m <= x
             hi == CHOOSE m \in years : \A x \in years : m >= x
  <2>1. lo \in years /\ \A x \in years : lo <= x
    BY <1>3
  <2>2. hi \in years /\ \A x \in years : hi >= x
    BY <1>3
  <2> HIDE DEF lo, hi
  <2>3. Min(years) = lo /\ Max(years) = hi
    BY DEF Min, Max, lo, hi
  <2> QED BY <2>1, <2>2, <2>3
<1> QED BY <1>1, <1>4

(* A year to score lies in the span, and every model that applies has a row *)
(* for it.                                                                  *)
LEMMA InSpanIsScored ==
  ASSUME NEW org, org.years \subseteq Years, NEW y \in org.years, NEW v, Applies(org, v)
  PROVE  y \in YearsOf(org, v)
<1>1. y \in Span(org.years)
  <2> DEFINE lo == Min(org.years)
             hi == Max(org.years)
  <2>1. lo \in Int /\ hi \in Int /\ y \in Int /\ lo <= y /\ hi >= y
    BY SpanEnds
  <2>2. Span(org.years) = lo..hi
    BY DEF Span
  <2> HIDE DEF lo, hi
  <2> QED BY <2>1, <2>2
<1> QED BY <1>1 DEF YearsOf

LEMMA RowTotal ==
  ASSUME NEW org, NEW rows, NEW v, Of(rows, v) = Written(org, rows, v),
         NEW y \in YearsOf(org, v)
  PROVE  y \in YearsIn(rows, v) /\ TotalOf(rows, v, y) = ScoreYear(org, rows, v, y).total
<1> DEFINE r == ScoreYear(org, rows, v, y)
           q == CHOOSE s \in Of(rows, v) : s.year = y
<1>1. r \in Of(rows, v) /\ r.year = y
  BY ScoreYearIs DEF Written
<1>2. \A s \in Of(rows, v) : s.year = y => s = r
  BY ScoreYearIs DEF Written
<1> HIDE DEF r
<1>3. q \in Of(rows, v) /\ q.year = y
  BY <1>1
<1>4. q = r
  BY <1>2, <1>3
<1> QED BY <1>1, <1>4 DEF TotalOf, YearsIn, r

LEMMA OneScoreIsRow ==
  ASSUME NEW org, Registered(org.models), NEW rows, NEW y, NEW v \in Computed(org.models),
         Of(rows, v) = Written(org, rows, v), y \in YearsOf(org, v), NEW totals,
         \A w \in Refs(org.models, v) : /\ y \in YearsIn(rows, w) /\ w \in DOMAIN totals
                                        /\ totals[w] = TotalOf(rows, w, y)
  PROVE  OneScore(org, totals, v, y).total = TotalOf(rows, v, y)
<1> DEFINE d == org.models[v]
           all == Totals(org, rows, v, y)
           series == ModelSeries(org, rows, v)
           env == Env(y, org.vals, totals)
           env2 == Env(y, org.vals, all)
           fill == Fill(d, org.vals, NoSeries)
           fill2 == Fill(d, org.vals, series)
<1>1. WellFormed(d) /\ Accepted(d) /\ d.mode = "computed"
  BY DEF Computed, Registered
<1>2. \A w \in ModelRefs(d) : w \in DOMAIN all /\ all[w] = totals[w] /\ w \in DOMAIN totals
  BY DEF Totals, Refs
<1> HIDE DEF all, series
<1>3. SameBut(env, fill, env2, fill2)
  BY DEF SameBut, Env, Fill
<1>4. env.totals = totals /\ env2.totals = all
  BY DEF Env
<1> HIDE DEF env, env2, fill, fill2, d
<1>5. ScoreModel(d, env, fill) = ScoreModel(d, env2, fill2)
  BY <1>1, <1>2, <1>3, <1>4, SameTotal
<1>6. OneScore(org, totals, v, y) = ScoreModel(d, env, fill)
  BY Zenon DEF OneScore, d, env, fill
<1>7. ScoreYear(org, rows, v, y).total = ScoreModel(d, env2, fill2).total
  BY DEF ScoreYear, Row, EnvOf, FillOf, d, env2, fill2, all, series
<1> QED BY <1>5, <1>6, <1>7, RowTotal

(* By induction over the chain: each total calculate works out is the total *)
(* of the row a rebuild of the chain has for the year.                      *)
LEMMA RequestIsRow ==
  ASSUME NEW org, Registered(org.models), org.years \subseteq Years, NEW y \in org.years,
         NEW v \in Computed(org.models), \A w \in Closure(org.models, {v}) : Applies(org, w)
  PROVE  OnDemand(org, v, y).total = TotalOf(Batch(org, Closure(org.models, {v})), v, y)
<1> DEFINE models == org.models
           chain == Closure(models, {v})
           below == chain \ {v}
           order == ChainOrder(org, v)
           B == Batch(org, chain)
<1>1. /\ v \in chain /\ chain \in SUBSET Computed(models) /\ Complete(models, chain)
      /\ below \in SUBSET Computed(models) /\ Refs(models, v) \subseteq below
      /\ \A w \in below : Refs(models, w) \subseteq below
  BY ClosureIs, ChainBelow
<1>2. Settled(org, chain, B)
  BY <1>1, BatchSettled, EngineAssumption
<1>3. \A w \in chain : y \in YearsOf(org, w)
  BY InSpanIsScored
<1> HIDE DEF B
<1>4. \A w \in chain : Of(B, w) = Written(org, B, w) /\ y \in YearsIn(B, w)
  BY <1>2, <1>3, RowTotal DEF Settled
<1>5. ASSUME NEW w \in chain, NEW totals,
             \A u \in Refs(models, w) : u \in chain /\ u \in DOMAIN totals
               /\ totals[u] = TotalOf(B, u, y)
      PROVE  OneScore(org, totals, w, y).total = TotalOf(B, w, y)
  BY <1>1, <1>3, <1>4, <1>5, OneScoreIsRow
<1>6. /\ ToSet(order) = below /\ order \in Seq(below)
      /\ Follows(order, VersionGraph(models, below))
  BY <1>1, VersionsOrdered, EngineAssumption DEF ChainOrder
<1>7. PICK n \in Nat : DOMAIN order = 1..n
  BY <1>6
<1>8. PICK r : r = ChainTotals(org, v, y)
  OBVIOUS
<1>9. PICK t : /\ t[0] = NoTotals /\ r = t[n]
               /\ \A i \in 1..n : t[i] = AddTotal(org, t[i - 1], order[i], y)
  BY <1>7, <1>8, ChainSteps
<1>10. below = {order[i] : i \in 1..n}
  BY <1>6, <1>7 DEF ToSet
<1>11. ASSUME NEW i \in 1..n, NEW w \in Refs(org.models, order[i])
       PROVE  \E j \in 1..(i - 1) : order[j] = w
  <2>1. order[i] \in below /\ w \in below
    BY <1>1, <1>10
  <2> DEFINE deps == VersionGraph(models, below)
  <2>2. DOMAIN deps = below /\ deps[order[i]] = Refs(models, order[i])
    BY <2>1 DEF VersionGraph
  <2> HIDE DEF deps, order
  <2>3. i \in DOMAIN order /\ w \in deps[order[i]] \cap DOMAIN deps
    BY <1>7, <2>1, <2>2
  <2> QED BY <1>6, <2>3, Zenon DEF Follows, deps
<1> HIDE DEF order, chain, models
<1> DEFINE P(k) == /\ DOMAIN t[k] = {order[j] : j \in 1..k}
                   /\ \A j \in 1..k : t[k][order[j]] = TotalOf(B, order[j], y)
           bad == {k \in 0..n : ~P(k)}
<1>12. bad = {}
  <2> SUFFICES ASSUME bad # {} PROVE FALSE
    OBVIOUS
  <2>1. PICK k \in bad : \A j \in bad : k <= j
    <3> HIDE DEF P
    <3>1. bad \in SUBSET Nat
      OBVIOUS
    <3> QED BY <3>1, HasLeast
  <2>2. k # 0
    <3>1. P(0)
      BY <1>9 DEF NoTotals
    <3> QED BY <2>1, <3>1
  <2>3. k \in 1..n /\ k - 1 \in 0..n /\ ~(k <= k - 1)
    BY <2>1, <2>2
  <2>4. P(k - 1)
    <3> HIDE DEF P
    <3> QED BY <2>1, <2>3
  <2> DEFINE w == order[k]
             before == t[k - 1]
  <2>5. w \in below /\ \A u \in Refs(models, w) : u \in below
    BY <1>1, <1>10, <2>3
  <2>6. \A u \in Refs(models, w) : u \in DOMAIN before /\ before[u] = TotalOf(B, u, y)
    BY <1>11, <2>3, <2>4 DEF models
  <2>7. t[k] = [u \in DOMAIN before \cup {w} |->
                  IF u = w THEN OneScore(org, before, w, y).total ELSE before[u]]
    BY <1>9, <2>3 DEF AddTotal
  <2> HIDE DEF w, before
  <2>8. OneScore(org, before, w, y).total = TotalOf(B, w, y)
    BY <1>5, <2>5, <2>6
  <2>9. DOMAIN t[k] = DOMAIN before \cup {w} /\ t[k][w] = TotalOf(B, w, y)
        /\ \A u \in DOMAIN before : t[k][u] = IF u = w THEN TotalOf(B, w, y) ELSE before[u]
    BY <2>7, <2>8
  <2>10. 1..k = 1..(k - 1) \cup {k}
    BY <2>3
  <2>11. DOMAIN t[k] = {order[j] : j \in 1..k}
    BY <2>4, <2>9, <2>10 DEF w, before
  <2>12. \A j \in 1..k : t[k][order[j]] = TotalOf(B, order[j], y)
    BY <2>4, <2>9, <2>10 DEF w, before
  <2> QED BY <2>1, <2>11, <2>12
<1>13. P(n)
  <2> HIDE DEF P
  <2> QED BY <1>12
<1>14. \A w \in below : w \in DOMAIN t[n] /\ t[n][w] = TotalOf(B, w, y)
  BY <1>10, <1>13
<1>15. OneScore(org, t[n], v, y).total = TotalOf(B, v, y)
  BY <1>1, <1>5, <1>14
<1> QED BY <1>9, <1>15, <1>8 DEF OnDemand, B, chain, models

-----------------------------------------------------------------------------
(* What can raise: only the square of a deviation.                          *)

(* What a formula of fixed length takes must be there or divides.           *)
LEMMA OperandsGiven ==
  ASSUME NEW type \in DOMAIN Arity, Arity[type] # 0, type \notin HistoricalTypes
  PROVE  /\ type \in DOMAIN Operands
         /\ \A i \in Operands[type] : i \in Needs[type]
              \/ (type \in DOMAIN Divisor /\ i = Divisor[type])
<1>1. type \in {"ratio", "ratio_positive", "growth", "working_capital", "sum_ratio",
                "difference", "product", "clamp", "abs_value", "inverse"}
  BY DEF Arity, HistoricalTypes
<1>2. CASE type \in {"ratio", "ratio_positive", "growth"}
  BY <1>2 DEF Operands, Needs, Divisor
<1>3. CASE type \in {"working_capital", "sum_ratio", "inverse"}
  BY <1>3 DEF Operands, Needs, Divisor
<1>4. CASE type \in {"difference", "product", "clamp", "abs_value"}
  BY <1>4 DEF Operands, Needs, Divisor
<1> QED BY <1>1, <1>2, <1>3, <1>4

(* What is computed of a year's inputs never raises, what is computed of    *)
(* all years only where a deviation is too large to square.                 *)
LEMMA FixedIsSafe ==
  ASSUME NEW type \in DOMAIN Arity, type \notin HistoricalTypes,
         NEW x, Arity[type] # 0 => Len(x) \in Nat /\ Len(x) >= Arity[type]
  PROVE  ~FormulaRaises(type, x)
<1> SUFFICES ASSUME Arity[type] # 0, Computable(type, x), FixedRaises(type, x) PROVE FALSE
  <2>1. Arity[type] \in Nat
    BY ArityIsNat
  <2> QED BY <2>1 DEF FormulaRaises
<1>1. \A i \in Needs[type] : x[i] # None
  BY DEF Computable
<1>2. type \in DOMAIN Divisor => x[Divisor[type]] # None /\ x[Divisor[type]] # Zero
  BY DEF Computable
<1>3. \A i \in Operands[type] : x[i] # None
  BY <1>1, <1>2, OperandsGiven
<1> QED BY <1>2, <1>3, Zenon DEF FixedRaises

LEMMA HistoryIsSafe ==
  ASSUME NEW type, NEW s, HistoryGiven(type, s), HistoryRaises(type, s)
  PROVE  Overflows(type, s)
<1>1. s # << >> /\ (type = "coefficient_of_variation" => Mean(s) # Zero)
  BY DEF HistoryGiven
<1>2. type = "cagr" => Several(s) /\ Less(Zero, s[1]) /\ Less(Zero, s[Len(s)])
  BY DEF HistoryGiven
<1>3. ~Less(Zero, Zero)
  BY DEF Less, Zero, Num
<1>4. Less(Zero, s[1]) /\ Less(Zero, s[Len(s)])
        => ~(Less(Zero, s[1]) # Less(Zero, s[Len(s)]))
  BY DEF Less
<1> QED BY <1>1, <1>2, <1>3, <1>4, Zenon DEF HistoryRaises

LEMMA FactorIsSafe ==
  ASSUME NEW d, WellFormed(d), Accepted(d), d.mode = "computed", NEW f \in Factors(d),
         NEW env, NEW done, NEW fill, ComputeFactor(f, env, done, fill).raised
  PROVE  f.type \in HistoricalTypes /\ Overflows(f.type, HistoryOf(f, env))
<1>1. CASE f.type \in HistoricalTypes
  <2> DEFINE s == HistoryOf(f, env)
             value == Historical(f.type, s)
             b == HistoryGiven(f.type, s) /\ HistoryRaises(f.type, s)
  <2>1. ComputeFactor(f, env, done, fill) = [value |-> value, filled |-> FALSE, raised |-> b]
    BY <1>1, Zenon DEF ComputeFactor, FromHistory
  <2>2. b => Overflows(f.type, s)
    BY HistoryIsSafe
  <2> HIDE DEF value, b, s
  <2>3. ComputeFactor(f, env, done, fill).raised = b
    BY <2>1
  <2> QED BY <1>1, <2>2, <2>3, Zenon DEF s
<1>2. CASE f.type \notin HistoricalTypes
  <2> DEFINE in == Resolved(f, env, done, fill)
             x == Taken(in)
             value == Formula(f.type, x)
             a == \E i \in DOMAIN in : in[i].filled
             b == FormulaRaises(f.type, x)
  <2>1. ComputeFactor(f, env, done, fill) = [value |-> value, filled |-> a, raised |-> b]
    BY <1>2, Zenon DEF ComputeFactor, FromInputs
  <2>2. f.type \in DOMAIN Arity
    BY DEF Accepted, FactorOK
  <2>3. f.inputs \in Seq(Inputs(f)) /\ (Arity[f.type] # 0 => Len(f.inputs) >= Arity[f.type])
    BY FactorsComplete
  <2>4. PICK n \in Nat : DOMAIN f.inputs = 1..n /\ Len(f.inputs) = n
    BY <2>3
  <2>5. DOMAIN x = 1..n /\ x = [i \in 1..n |-> x[i]]
    BY <2>4 DEF Resolved, Taken
  <2> HIDE DEF x
  <2>6. Len(x) = n
    BY <2>5
  <2>7. ~b
    BY <1>2, <2>2, <2>3, <2>4, <2>6, FixedIsSafe
  <2> HIDE DEF value, a, b
  <2>8. ComputeFactor(f, env, done, fill).raised = b
    BY <2>1
  <2> QED BY <2>7, <2>8, Zenon
<1> QED BY <1>1, <1>2

(* A score raises where one of its factors does.                            *)
LEMMA ScoreIsSafe ==
  ASSUME NEW d, WellFormed(d), Accepted(d), d.mode = "computed", NEW env, NEW fill,
         ScoreModel(d, env, fill).raised
  PROVE  \E f \in Factors(d) :
           f.type \in HistoricalTypes /\ Overflows(f.type, HistoryOf(f, env))
<1>0. PICK n \in Nat : \E t : Sums(d, env, fill, n, t, ScoreModel(d, env, fill))
  BY ModelScores DEF Scores
<1>1. PICK t : n \in Nat /\ Sums(d, env, fill, n, t, ScoreModel(d, env, fill))
  BY <1>0
<1> DEFINE bad == {i \in 0..n : t[i].raised}
<1>2. n \in bad
  BY <1>1 DEF Sums
<1>3. PICK k \in bad : \A j \in bad : k <= j
  <2>1. bad \in SUBSET Nat
    OBVIOUS
  <2> QED BY <1>2, <2>1, HasLeast
<1>4. k # 0
  <2>1. ~t[0].raised
    BY <1>1 DEF Sums, Begin
  <2> QED BY <1>3, <2>1
<1>5. k \in 1..n /\ k - 1 \in 0..n /\ ~(k <= k - 1)
  BY <1>3, <1>4
<1>6. t[k].raised /\ ~t[k - 1].raised
  BY <1>3, <1>5
<1> DEFINE f == Sorted(d)[k]
           acc == t[k - 1]
           r == ComputeFactor(f, env, acc.computed, fill)
           c == [acc.computed EXCEPT ![f.name] = r.value]
           total == Plus(acc.total, Times(Num(f.weight), Normalize(f, r.value)))
           b == acc.filled \/ r.filled
           e == acc.raised \/ r.raised
<1>7. f \in Factors(d) /\ t[k] = ScoreFactor(env, fill, acc, f)
  BY <1>1, <1>5 DEF Sums
<1>8. ScoreFactor(env, fill, acc, f) =
        [computed |-> c, total |-> total, filled |-> b, raised |-> e]
  BY Zenon DEF ScoreFactor, Added
<1>9. e => r.raised
  BY <1>6, Zenon
<1> HIDE DEF f, acc, c, total, b, e, r
<1>10. ScoreFactor(env, fill, acc, f).raised = e
  BY <1>8
<1>11. e
  BY <1>6, <1>7, <1>10, Zenon
<1>12. ComputeFactor(f, env, acc.computed, fill).raised
  BY <1>9, <1>11, Zenon DEF r
<1> QED BY <1>7, <1>12, FactorIsSafe

LEMMA HistoryIs ==
  ASSUME NEW org, NEW y, NEW totals, NEW f
  PROVE  HistoryOf(f, Env(y, org.vals, totals)) = HistoryOf(f, [history |-> History(org.vals)])
BY DEF HistoryOf, Env

(* A row of a rebuild, and every model of a request's chain.                *)
LEMMA OverflowsOnly ==
  ASSUME NEW org, Registered(org.models), NEW v \in Computed(org.models), NEW y, NEW totals,
         NEW fill, ScoreModel(org.models[v], Env(y, org.vals, totals), fill).raised
  PROVE  Overflowing(org, v)
<1>1. /\ WellFormed(org.models[v]) /\ Accepted(org.models[v])
      /\ org.models[v].mode = "computed"
  BY DEF Computed, Registered
<1>2. PICK f \in Factors(org.models[v]) : f.type \in HistoricalTypes
         /\ Overflows(f.type, HistoryOf(f, Env(y, org.vals, totals)))
  BY <1>1, ScoreIsSafe
<1> QED BY <1>2, HistoryIs, Zenon DEF Overflowing

LEMMA RowIsSafe ==
  ASSUME NEW org, Registered(org.models), NEW v \in Computed(org.models), NEW rows, NEW y,
         ScoreYear(org, rows, v, y).raised
  PROVE  Overflowing(org, v)
<1> DEFINE result == ScoreModel(org.models[v], EnvOf(org, rows, v, y), FillOf(org, rows, v))
           flag == HasPolicy(org.models[v]) /\ (result.filled \/ Flagged(org, rows, v, y))
           raised == result.raised
<1>1. ScoreYear(org, rows, v, y) =
        [model |-> v, year |-> y, total |-> result.total, raised |-> raised, imputed |-> flag]
  BY Zenon DEF ScoreYear, Row
<1> HIDE DEF result, flag, raised
<1>2. ScoreYear(org, rows, v, y).raised = raised
  BY <1>1
<1>3. result.raised
  BY <1>2, Zenon DEF raised
<1> QED BY <1>3, OverflowsOnly DEF result, EnvOf

(* A request works out the totals of its chain only.                        *)
LEMMA ChainOnly ==
  ASSUME NEW org, Registered(org.models), NEW v \in Computed(org.models), NEW y
  PROVE  DOMAIN ChainTotals(org, v, y) \subseteq Closure(org.models, {v})
<1> DEFINE chain == Closure(org.models, {v})
           order == ChainOrder(org, v)
<1>1. order \in Seq(chain \ {v})
  BY ChainBelow, VersionsOrdered, EngineAssumption DEF ChainOrder
<1>2. PICK n \in Nat : DOMAIN order = 1..n
  BY <1>1
<1> HIDE DEF order, chain
<1>3. \A i \in 1..n : order[i] \in chain
  BY <1>1, <1>2
<1>4. PICK t : /\ t[0] = NoTotals /\ ChainTotals(org, v, y) = t[n]
               /\ \A i \in 1..n : t[i] = AddTotal(org, t[i - 1], order[i], y)
  BY <1>2, ChainSteps DEF order
<1>5. \A i \in 1..n : DOMAIN t[i] = DOMAIN t[i - 1] \cup {order[i]}
  <2> SUFFICES ASSUME NEW i \in 1..n
               PROVE  DOMAIN t[i] = DOMAIN t[i - 1] \cup {order[i]}
    OBVIOUS
  <2>1. t[i] = AddTotal(org, t[i - 1], order[i], y)
    BY <1>4
  <2>2. DOMAIN AddTotal(org, t[i - 1], order[i], y) = DOMAIN t[i - 1] \cup {order[i]}
    BY Zenon DEF AddTotal
  <2> QED BY <2>1, <2>2
<1> DEFINE bad == {k \in 0..n : ~(DOMAIN t[k] \subseteq chain)}
<1>6. bad = {}
  <2> SUFFICES ASSUME bad # {} PROVE FALSE
    OBVIOUS
  <2>1. PICK k \in bad : \A j \in bad : k <= j
    <3>1. bad \in SUBSET Nat
      OBVIOUS
    <3> QED BY <3>1, HasLeast
  <2>2. k # 0
    <3>1. DOMAIN t[0] = {}
      BY <1>4 DEF NoTotals
    <3> QED BY <2>1, <3>1
  <2>3. k \in 1..n /\ k - 1 \in 0..n /\ ~(k <= k - 1)
    BY <2>1, <2>2
  <2>4. DOMAIN t[k - 1] \subseteq chain
    BY <2>1, <2>3
  <2> QED BY <1>3, <1>5, <2>1, <2>3, <2>4
<1>7. n \in 0..n
  OBVIOUS
<1> QED BY <1>4, <1>6, <1>7 DEF chain

LEMMA RequestIsSafe ==
  ASSUME NEW org, Registered(org.models), NEW v \in Computed(org.models), NEW y,
         OnDemandRaises(org, v, y)
  PROVE  \E w \in Closure(org.models, {v}) : Overflowing(org, w)
<1> DEFINE totals == ChainTotals(org, v, y)
<1>1. PICK w \in DOMAIN totals \cup {v} : OneScore(org, totals, w, y).raised
  BY Zenon DEF OnDemandRaises
<1>2. v \in Closure(org.models, {v}) /\ Closure(org.models, {v}) \subseteq Computed(org.models)
  BY ClosureIs
<1>3. w \in Closure(org.models, {v})
  BY <1>2, ChainOnly
<1> HIDE DEF totals
<1>4. Overflowing(org, w)
  BY <1>1, <1>2, <1>3, OverflowsOnly DEF OneScore
<1> QED BY <1>3, <1>4

-----------------------------------------------------------------------------
(* The totals without any filling.                                          *)

(* RealTotals is what three rounds over all models give; RealTotal is one   *)
(* model's part of a round.                                                 *)
Beneath(org, y, v) ==
  {w \in Refs(org.models, v) \cap Computed(org.models) : y \in YearsOf(org, w)}
RealTotal(org, y, real, v) ==
  ScoreModel(org.models[v], Env(y, org.vals, [w \in Beneath(org, y, v) |-> real[w]]),
    NoFill).total
Again(org, y, real) == [v \in Computed(org.models) |-> RealTotal(org, y, real, v)]

LEMMA RealLocal ==
  ASSUME NEW org, NEW y, NEW a, NEW b, NEW v, \A w \in Refs(org.models, v) : a[w] = b[w]
  PROVE  RealTotal(org, y, a, v) = RealTotal(org, y, b, v)
<1>1. [w \in Beneath(org, y, v) |-> a[w]] = [w \in Beneath(org, y, v) |-> b[w]]
  BY DEF Beneath
<1> QED BY <1>1, Zenon DEF RealTotal

(* Three rounds are enough, as there are three layers: a further round      *)
(* changes nothing.                                                         *)
LEMMA RealTotalsAre ==
  ASSUME NEW org, Registered(org.models), NEW y, NEW v \in Computed(org.models)
  PROVE  RealTotals(org, y)[v] = RealTotal(org, y, RealTotals(org, y), v)
<1> DEFINE C == Computed(org.models)
           models == org.models
           F(g) == Again(org, y, g)
           real == CHOOSE g : g = F(g)
<1>1. RealTotals(org, y) = real
  BY Zenon DEF RealTotals, Again, RealTotal, Beneath
<1>2. \A g, w : w \in C => F(g)[w] = RealTotal(org, y, g, w)
  BY DEF Again
<1>3. \A g : DOMAIN F(g) = C /\ F(g) = [w \in C |-> F(g)[w]]
  BY DEF Again
<1> HIDE DEF F, C, models
<1>4. \A g, h, w : w \in C /\ (\A u \in Refs(models, w) : g[u] = h[u]) => F(g)[w] = F(h)[w]
  BY <1>2, RealLocal DEF models
<1>5. \A w \in C : /\ Refs(models, w) \subseteq C /\ models[w].kind \in Kinds
                   /\ models[w].kind = "model" => Refs(models, w) = {}
                   /\ models[w].kind = "composite" =>
                        \A u \in Refs(models, w) : models[u].kind = "model"
                   /\ models[w].kind = "super_composite" =>
                        \A u \in Refs(models, w) : models[u].kind = "composite"
  BY Layers DEF C, models
<1>6. \A g, h, w : w \in C /\ models[w].kind = "model" => F(g)[w] = F(h)[w]
  BY <1>4, <1>5
<1>7. \A g, h, w : w \in C /\ models[w].kind = "composite" => F(F(g))[w] = F(F(h))[w]
  BY <1>4, <1>5, <1>6
<1>8. \A g, h, w : w \in C /\ models[w].kind = "super_composite"
        => F(F(F(g)))[w] = F(F(F(h)))[w]
  BY <1>4, <1>5, <1>7
<1> DEFINE a == F(F(F(NoTotals)))
<1>9. a = F(a)
  <2>1. \A w \in C : a[w] = F(a)[w]
    BY <1>5, <1>6, <1>7, <1>8 DEF Kinds
  <2>2. DOMAIN a = C /\ DOMAIN F(a) = C /\ a = [w \in C |-> a[w]]
          /\ F(a) = [w \in C |-> F(a)[w]]
    BY <1>3
  <2> HIDE DEF a
  <2>3. [w \in C |-> a[w]] = [w \in C |-> F(a)[w]]
    BY <2>1
  <2> QED BY <2>2, <2>3
<1>10. real = F(real)
  BY <1>9
<1> HIDE DEF real
<1> QED BY <1>1, <1>2, <1>10 DEF C

LEMMA Imputed ==
  ASSUME NEW org, NEW rows, NEW v, NEW y, ~ScoreYear(org, rows, v, y).imputed
  PROVE  LET result == ScoreModel(org.models[v], EnvOf(org, rows, v, y), FillOf(org, rows, v))
         IN HasPolicy(org.models[v]) => ~result.filled /\ ~Flagged(org, rows, v, y)
<1> DEFINE result == ScoreModel(org.models[v], EnvOf(org, rows, v, y), FillOf(org, rows, v))
           total == result.total
           e == result.raised
           b == HasPolicy(org.models[v]) /\ (result.filled \/ Flagged(org, rows, v, y))
<1>1. ScoreYear(org, rows, v, y) =
        [model |-> v, year |-> y, total |-> total, raised |-> e, imputed |-> b]
  BY Zenon DEF ScoreYear, Row
<1>2. HasPolicy(org.models[v]) => (~result.filled /\ ~Flagged(org, rows, v, y)) \/ b
  OBVIOUS
<1> HIDE DEF total, e, b, result
<1>3. ScoreYear(org, rows, v, y).imputed = b
  BY <1>1
<1>4. ~b
  BY <1>3, Zenon
<1> QED BY <1>2, <1>4, Zenon DEF result

(* An unflagged row that lost no flag fills nothing itself and reads         *)
(* unflagged rows only.                                                     *)
LEMMA UnflaggedYear ==
  ASSUME NEW org, Registered(org.models), NEW rows, NEW v \in Computed(org.models),
         NEW y \in YearsOf(org, v), Of(rows, v) = Written(org, rows, v),
         HasPolicy(org.models[v]) \/ ~Flagged(org, rows, v, y),
         ~ScoreYear(org, rows, v, y).imputed,
         \A w \in Refs(org.models, v) : Of(rows, w) = Written(org, rows, w),
         \A w \in Refs(org.models, v) :
           y \in YearsOf(org, w) /\ ~ScoreYear(org, rows, w, y).imputed =>
             ScoreYear(org, rows, w, y).total = RealTotals(org, y)[w]
  PROVE  ScoreYear(org, rows, v, y).total = RealTotals(org, y)[v]
<1> DEFINE d == org.models[v]
           all == Totals(org, rows, v, y)
           env == Env(y, org.vals, all)
           fill == Fill(d, org.vals, ModelSeries(org, rows, v))
           real == RealTotals(org, y)
<1>1. WellFormed(d) /\ Accepted(d) /\ d.mode = "computed"
  BY DEF Computed, Registered
<1>2. HasPolicy(d) => ~ScoreModel(d, env, fill).filled /\ ~Flagged(org, rows, v, y)
  BY Imputed DEF EnvOf, FillOf
<1>3. fill.allowed = HasPolicy(d)
  BY DEF Fill
<1>4. ~ScoreModel(d, env, fill).filled \/ ~fill.allowed
  BY <1>2, <1>3, Zenon
<1>5. ScoreYear(org, rows, v, y).total = ScoreModel(d, env, fill).total
  BY DEF ScoreYear, Row, EnvOf, FillOf
<1> HIDE DEF fill, env, real, all
<1>6. ScoreModel(d, env, fill).total = ScoreModel(d, env, NoFill).total
  BY <1>1, <1>4, UnfilledScore
<1>7. ASSUME NEW w \in Refs(org.models, v)
      PROVE  (y \in YearsIn(rows, w) <=> y \in YearsOf(org, w))
             /\ (y \in YearsOf(org, w) => TotalOf(rows, w, y) = real[w])
  <2>1. y \in YearsIn(rows, w) <=> y \in YearsOf(org, w)
    BY ScoreYearIs DEF YearsIn, Written
  <2>2. ASSUME y \in YearsOf(org, w) PROVE TotalOf(rows, w, y) = real[w]
    <3>1. ScoreYear(org, rows, w, y) \in Of(rows, w) /\ ScoreYear(org, rows, w, y).year = y
      BY <2>2, ScoreYearIs DEF Written
    <3>2. ~Flagged(org, rows, v, y)
      BY <1>2, Zenon
    <3>3. ~ScoreYear(org, rows, w, y).imputed
      BY <3>1, <3>2, Zenon DEF Flagged
    <3>4. ScoreYear(org, rows, w, y).total = real[w]
      BY <2>2, <3>3, Zenon DEF real
    <3> QED BY <2>2, <3>4, RowTotal
  <2> QED BY <2>1, <2>2
<1>8. all = [w \in Beneath(org, y, v) |-> real[w]]
  <2>1. Refs(org.models, v) \subseteq Computed(org.models)
    BY Layers
  <2>2. {u \in Refs(org.models, v) : y \in YearsIn(rows, u)} = Beneath(org, y, v)
    BY <1>7, <2>1 DEF Beneath
  <2>3. \A w \in Beneath(org, y, v) : TotalOf(rows, w, y) = real[w]
    BY <1>7 DEF Beneath
  <2> QED BY <2>2, <2>3 DEF all, Totals
<1>9. real[v] = ScoreModel(d, env, NoFill).total
  BY <1>8, RealTotalsAre DEF RealTotal, real, env
<1> QED BY <1>5, <1>6, <1>9 DEF env, fill, all, real

LEMMA UnflaggedRow ==
  ASSUME NEW org, Registered(org.models), NEW rows,
         NEW versions \in SUBSET Computed(org.models),
         Complete(org.models, versions), Settled(org, versions, rows), NEW y
  PROVE  \A v \in versions :
           /\ ~FlagLost(org, rows, v, y) /\ y \in YearsOf(org, v)
           /\ ~ScoreYear(org, rows, v, y).imputed
           => ScoreYear(org, rows, v, y).total = RealTotals(org, y)[v]
<1> DEFINE models == org.models
           P(v) == /\ ~FlagLost(org, rows, v, y) /\ y \in YearsOf(org, v)
                   /\ ~ScoreYear(org, rows, v, y).imputed
                   => ScoreYear(org, rows, v, y).total = RealTotals(org, y)[v]
<1>1. \A v \in versions : Refs(models, v) \subseteq versions /\ models[v].kind \in Kinds
  BY Layers DEF Complete
<1>2. ASSUME NEW v \in versions, ~FlagLost(org, rows, v, y)
      PROVE  /\ HasPolicy(models[v]) \/ ~Flagged(org, rows, v, y)
             /\ \A w \in Refs(models, v) : ~FlagLost(org, rows, w, y)
  <2>1. /\ v \in Closure(models, {v}) /\ Complete(models, Closure(models, {v}))
        /\ Closure(models, {v}) \in SUBSET Computed(models)
    BY ClosureIs
  <2>2. ASSUME NEW w \in Refs(models, v)
        PROVE Closure(models, {w}) \subseteq Closure(models, {v})
    <3>1. w \in Closure(models, {v}) /\ w \in Computed(models)
      BY <1>1, <2>1 DEF Complete
    <3> QED BY <2>1, <3>1, ClosureIs
  <2>3. \A w \in Closure(models, {v}) : HasPolicy(models[w]) \/ ~Flagged(org, rows, w, y)
    BY <1>2, Zenon DEF FlagLost
  <2> QED BY <2>1, <2>2, <2>3, Zenon DEF FlagLost
<1>3. ASSUME NEW v \in versions, \A w \in Refs(models, v) : P(w) PROVE P(v)
  <2> SUFFICES ASSUME ~FlagLost(org, rows, v, y), y \in YearsOf(org, v),
                      ~ScoreYear(org, rows, v, y).imputed
               PROVE  ScoreYear(org, rows, v, y).total = RealTotals(org, y)[v]
    OBVIOUS
  <2>1. /\ Of(rows, v) = Written(org, rows, v)
        /\ \A w \in Refs(models, v) : Of(rows, w) = Written(org, rows, w)
    BY <1>1 DEF Settled
  <2>2. /\ HasPolicy(models[v]) \/ ~Flagged(org, rows, v, y)
        /\ \A w \in Refs(models, v) : ~FlagLost(org, rows, w, y)
    BY <1>2
  <2>3. \A w \in Refs(models, v) :
           y \in YearsOf(org, w) /\ ~ScoreYear(org, rows, w, y).imputed =>
             ScoreYear(org, rows, w, y).total = RealTotals(org, y)[w]
    BY <1>3, <2>2, Zenon
  <2> QED BY <2>1, <2>2, <2>3, UnflaggedYear
<1> HIDE DEF P
<1>4. \A v \in versions : models[v].kind = "model" => P(v)
  BY <1>1, <1>3, Layers
<1>5. \A v \in versions : models[v].kind = "composite" => P(v)
  BY <1>1, <1>3, <1>4, Layers
<1>6. \A v \in versions : models[v].kind = "super_composite" => P(v)
  BY <1>1, <1>3, <1>5, Layers
<1>7. \A v \in versions : P(v)
  BY <1>1, <1>4, <1>5, <1>6 DEF Kinds
<1> QED BY <1>7, Zenon DEF P

-----------------------------------------------------------------------------
(* Filings and the rows kept at them.                                       *)

(* A filing is stored once.                                                 *)
LEMMA FiledIs ==
  ASSUME NEW s \in Seq(Forms), NEW form \in Forms, form \notin ToSet(s), IsInjective(s)
  PROVE  LET r == Append(s, form) IN
         r \in Seq(Forms) /\ IsInjective(r) /\ ToSet(r) = ToSet(s) \cup {form}
<1> DEFINE r == Append(s, form)
           k == Len(s)
<1>1. k \in Nat /\ DOMAIN s = 1..k
  OBVIOUS
<1>2. r \in Seq(Forms) /\ DOMAIN r = 1..(k + 1) /\ r[k + 1] = form
        /\ \A i \in 1..k : r[i] = s[i]
  BY <1>1
<1> HIDE DEF r, k
<1>3. 1..(k + 1) = 1..k \cup {k + 1}
  BY <1>1
<1>4. ToSet(r) = ToSet(s) \cup {form}
  BY <1>1, <1>2, <1>3 DEF ToSet
<1>5. \A i \in 1..k : s[i] # form
  BY <1>1 DEF ToSet
<1>6. IsInjective(r)
  <2> SUFFICES ASSUME NEW i \in 1..(k + 1), NEW j \in 1..(k + 1), r[i] = r[j] PROVE i = j
    BY <1>2 DEF IsInjective
  <2>1. CASE i \in 1..k /\ j \in 1..k
    BY <1>1, <1>2, <2>1 DEF IsInjective
  <2>2. CASE ~(i \in 1..k /\ j \in 1..k)
    BY <1>2, <1>3, <1>5, <2>2
  <2> QED BY <2>1, <2>2
<1> QED BY <1>2, <1>4, <1>6 DEF r

(* A purge takes the filings of the archives and leaves the others.         *)
LEMMA LeftIs ==
  ASSUME NEW s \in Seq(Forms), IsInjective(s), NEW y, NEW fs
  PROVE  LET r == Left(s, y, fs) IN
         /\ r \in Seq(Forms) /\ IsInjective(r)
         /\ ToSet(r) = {form \in ToSet(s) : [year |-> y, form |-> form] \notin fs}
<1> DEFINE gone(form) == [year |-> y, form |-> form] \in fs
           n == Len(s)
<1>1. n \in Nat /\ DOMAIN s = 1..n /\ \A i \in 1..n : s[i] \in Forms
  OBVIOUS
<1>2. \A i \in 1..n, j \in 1..n : s[i] = s[j] => i = j
  BY <1>1 DEF IsInjective
<1>3. PICK r : r = Left(s, y, fs)
  OBVIOUS
<1> HIDE DEF n
<1>4. PICK t : /\ t[0] = NoForms /\ r = t[n]
               /\ \A i \in 1..n : t[i] = IF gone(s[i]) THEN t[i - 1]
                    ELSE Append(t[i - 1], s[i])
  BY <1>1, <1>3, LeftSteps
<1> HIDE DEF gone
<1> DEFINE P(k) == /\ t[k] \in Seq(Forms) /\ IsInjective(t[k])
                   /\ ToSet(t[k]) = {s[i] : i \in {j \in 1..k : ~gone(s[j])}}
           bad == {k \in 0..n : ~P(k)}
<1>5. bad = {}
  <2> SUFFICES ASSUME bad # {} PROVE FALSE
    OBVIOUS
  <2>1. PICK k \in bad : \A j \in bad : k <= j
    <3> HIDE DEF P
    <3>1. bad \in SUBSET Nat
      OBVIOUS
    <3> QED BY <3>1, HasLeast
  <2>2. k # 0
    <3>1. t[0] = << >>
      BY <1>4 DEF NoForms
    <3>2. << >> \in Seq(Forms) /\ IsInjective(<< >>) /\ ToSet(<< >>) = {}
      BY DEF IsInjective, ToSet
    <3>3. {j \in 1..0 : ~gone(s[j])} = {}
      OBVIOUS
    <3>4. P(0)
      BY <3>1, <3>2, <3>3
    <3> QED BY <2>1, <3>4
  <2>3. k \in 1..n /\ k - 1 \in 0..n /\ ~(k <= k - 1) /\ 1..k = 1..(k - 1) \cup {k}
    <3>1. k \in 1..n /\ k - 1 \in 0..n /\ ~(k <= k - 1)
      BY <1>1, <2>1, <2>2
    <3>2. 1..k = 1..(k - 1) \cup {k}
      BY <3>1
    <3> QED BY <3>1, <3>2
  <2>4. P(k - 1)
    <3> HIDE DEF P
    <3> QED BY <2>1, <2>3
  <2>5. CASE gone(s[k])
    <3>1. t[k] = t[k - 1]
      BY <1>4, <2>3, <2>5
    <3>2. P(k)
      BY <2>3, <2>4, <2>5, <3>1
    <3> QED BY <2>1, <3>2
  <2>6. CASE ~gone(s[k])
    <3>1. t[k] = Append(t[k - 1], s[k])
      BY <1>4, <2>3, <2>6
    <3>2. s[k] \notin ToSet(t[k - 1])
      <4>1. \A i \in 1..(k - 1) : i \in 1..n /\ i # k
        BY <1>1, <2>3
      <4> QED BY <1>2, <2>3, <2>4, <4>1
    <3>3. t[k] \in Seq(Forms) /\ IsInjective(t[k])
            /\ ToSet(t[k]) = ToSet(t[k - 1]) \cup {s[k]}
      BY <1>1, <2>3, <2>4, <3>1, <3>2, FiledIs
    <3>4. {s[i] : i \in {j \in 1..k : ~gone(s[j])}} =
          {s[i] : i \in {j \in 1..(k - 1) : ~gone(s[j])}} \cup {s[k]}
      BY <2>3, <2>6
    <3>5. P(k)
      BY <2>4, <3>3, <3>4
    <3> QED BY <2>1, <3>5
  <2> QED BY <2>5, <2>6
<1>6. P(n)
  <2> HIDE DEF P
  <2> QED BY <1>1, <1>5
<1>7. ToSet(s) = {s[i] : i \in 1..n}
  BY <1>1 DEF ToSet
<1>8. ToSet(r) = {form \in ToSet(s) : ~gone(form)}
  BY <1>4, <1>6, <1>7
<1> QED BY <1>3, <1>4, <1>6, <1>8 DEF gone

(* The filing a year's score is kept at is a filing of the year or its      *)
(* anchor, to be made.                                                      *)
LEMMA FilingOfIs ==
  ASSUME filings \in [Years -> Seq(Forms)], NEW y \in Years
  PROVE  /\ FilingOf(y) \in Filing /\ FilingOf(y).year = y
         /\ FilingOf(y).form # "FIN" => FilingOf(y) \in Filings
         /\ FilingOf(y) \notin Filings => filings[y] = << >> /\ FilingOf(y).form = "FIN"
<1> DEFINE s == filings[y]
           n == Len(s)
           returns == {i \in DOMAIN s : s[i] # "FIN"}
<1>1. s \in Seq(Forms) /\ n \in Nat /\ DOMAIN s = 1..n /\ \A i \in 1..n : s[i] \in Forms
  OBVIOUS
<1>2. ToSet(s) = {s[i] : i \in 1..n}
  BY <1>1 DEF ToSet
<1>3. FilingOf(y) = [year |-> y, form |-> IF returns = {} THEN "FIN" ELSE s[Min(returns)]]
  BY DEF FilingOf
<1>4. Filings = {f \in Filing : f.form \in ToSet(filings[f.year])}
  BY DEF Filings
<1>5. CASE returns = {}
  <2>1. FilingOf(y) = [year |-> y, form |-> "FIN"]
    BY <1>3, <1>5
  <2>2. FilingOf(y) \in Filing /\ FilingOf(y).year = y /\ FilingOf(y).form = "FIN"
    BY <2>1 DEF Filing, Forms
  <2>3. ASSUME FilingOf(y) \notin Filings PROVE s = << >>
    <3>1. "FIN" \notin ToSet(s)
      BY <1>4, <2>2, <2>3
    <3>2. \A i \in 1..n : s[i] = "FIN"
      BY <1>1, <1>5
    <3>3. n = 0
      BY <1>1, <1>2, <3>1, <3>2
    <3> QED BY <1>1, <3>3
  <2> QED BY <2>2, <2>3
<1>6. CASE returns # {}
  <2>1. returns \in SUBSET Nat
    BY <1>1
  <2>2. \E i \in returns : \A j \in returns : i <= j
    <3> HIDE DEF returns
    <3> QED BY <1>6, <2>1, HasLeast
  <2>3. Min(returns) \in returns
    <3> HIDE DEF returns
    <3> QED BY <2>2 DEF Min
  <2>4. s[Min(returns)] \in Forms /\ s[Min(returns)] \in ToSet(s) /\ s[Min(returns)] # "FIN"
    BY <1>1, <1>2, <2>3
  <2> DEFINE form == s[Min(returns)]
  <2>5. FilingOf(y) = [year |-> y, form |-> form]
    BY <1>3, <1>6
  <2> HIDE DEF form
  <2>6. FilingOf(y) \in Filing /\ FilingOf(y).year = y /\ FilingOf(y).form = form
    BY <2>4, <2>5 DEF Filing, form
  <2>7. FilingOf(y) \in Filings
    BY <1>4, <2>4, <2>6 DEF form
  <2> QED BY <2>4, <2>6, <2>7 DEF form
<1> QED BY <1>5, <1>6

(* ensure_anchor: an anchor beside returns, or in a year without a value,   *)
(* is no year to score, and the filing every year's score is kept at stays. *)
LEMMA AnchorsChangeNothing ==
  ASSUME TypeOK, UNCHANGED facts, NEW fs, filings' = Anchored(fs),
         \A f \in fs : f \in Filings \/ \E y \in Years : f = FilingOf(y)
  PROVE  /\ filings' \in [Years -> Seq(Forms)] /\ \A y \in Years : IsInjective(filings'[y])
         /\ Filings \subseteq Filings' /\ fs \subseteq Filings'
         /\ Scoreable' = Scoreable
         /\ \A y \in Years : FilingOf(y)' = FilingOf(y)
<1> DEFINE anchor(y) == [year |-> y, form |-> "FIN"]
           fin == <<"FIN">>
<1>1. filings \in [Years -> Seq(Forms)] /\ \A y \in Years : IsInjective(filings[y])
  BY DEF TypeOK, FilingsOK, FactsOK
<1>2. \A f \in fs \ Filings : f.year \in Years /\ filings[f.year] = << >>
        /\ f = anchor(f.year)
  <2> SUFFICES ASSUME NEW f \in fs, f \notin Filings
               PROVE  f.year \in Years /\ filings[f.year] = << >> /\ f = anchor(f.year)
    OBVIOUS
  <2>1. PICK y \in Years : f = FilingOf(y)
    OBVIOUS
  <2>2. f \in Filing /\ f.year = y /\ filings[y] = << >> /\ f.form = "FIN"
    BY <1>1, <2>1, FilingOfIs
  <2> QED BY <2>2 DEF Filing
<1>3. fin \in Seq(Forms) /\ IsInjective(fin) /\ ToSet(fin) = {"FIN"}
        /\ Append(<< >>, "FIN") = fin
      /\ DOMAIN fin = {1} /\ fin[1] = "FIN"
  BY DEF Forms, IsInjective, ToSet
<1> HIDE DEF fin
<1> DEFINE made(y) == anchor(y) \in fs \ Filings
<1>4. \A y \in Years : made(y) => filings[y] = << >>
  BY <1>2
<1>5. filings' = [y \in Years |-> IF made(y) THEN fin ELSE filings[y]]
  BY <1>3, <1>4 DEF Anchored
<1>6. filings' \in [Years -> Seq(Forms)] /\ \A y \in Years : IsInjective(filings'[y])
  BY <1>1, <1>3, <1>5
<1>7. ToSet(<< >>) = {}
  BY DEF ToSet
<1>8. /\ Filings = {f \in Filing : f.form \in ToSet(filings[f.year])}
      /\ Filings' = {f \in Filing : f.form \in ToSet(filings'[f.year])}
  BY DEF Filings
<1>9. \A y \in Years : ToSet(filings'[y]) = IF made(y) THEN {"FIN"} ELSE ToSet(filings[y])
  BY <1>3, <1>5
<1>10. \A y \in Years : made(y) => ToSet(filings[y]) = {}
  BY <1>4, <1>7
<1>11. \A f \in Filing : f.year \in Years /\ f.form \in Forms
         /\ f = [year |-> f.year, form |-> f.form]
  BY DEF Filing
<1> HIDE DEF made
<1>12. Filings \subseteq Filings'
  BY <1>8, <1>9, <1>10, <1>11
<1>13. fs \subseteq Filings'
  <2> SUFFICES ASSUME NEW f \in fs, f \notin Filings PROVE f \in Filings'
    BY <1>12
  <2>1. f.year \in Years /\ f = anchor(f.year)
    BY <1>2
  <2>2. made(f.year) /\ f \in Filing /\ f.form = "FIN"
    BY <2>1 DEF made, Filing, Forms
  <2> QED BY <1>8, <1>9, <2>1, <2>2
<1>14. \A f \in Filing : f \in Filings'
         <=> f \in Filings \/ (made(f.year) /\ f.form = "FIN")
  BY <1>8, <1>9, <1>10, <1>11
<1>15. Filings \subseteq Filing /\ Filings' \subseteq Filing
  BY <1>8
<1>16. RealYears' = RealYears
  BY <1>14, <1>15 DEF RealYears
<1>17. ASSUME NEW y \in Years, made(y) PROVE Valueless(y)
  <2> SUFFICES ASSUME NEW c \in Concepts, facts[y][c] # None PROVE FALSE
    BY DEF Valueless
  <2>1. facts[y][c].by \in Filings /\ facts[y][c].by.year = y
    <3>1. facts \in [Years -> [Concepts -> [value: Int, by: Filings] \cup {None}]]
      BY DEF TypeOK, FilingsOK, FactsOK
    <3>2. facts[y][c] \in [value: Int, by: Filings]
      BY <3>1
    <3> QED BY <3>2 DEF TypeOK, FilingsOK, FactsOK
  <2>2. facts[y][c].by.form \in ToSet(filings[y])
    BY <1>8, <2>1
  <2> QED BY <1>10, <1>17, <2>2
<1>18. Scoreable' = Scoreable
  <2>1. /\ Scoreable = {f \in Filings :
             f.form # "FIN" \/ (f.year \notin RealYears /\ ~Valueless(f.year))}
        /\ Scoreable' = {f \in Filings' :
             f.form # "FIN" \/ (f.year \notin RealYears /\ ~Valueless(f.year))}
    BY <1>16 DEF Scoreable, Valueless
  <2>2. \A f \in Filings' : f \notin Filings => f.form = "FIN" /\ Valueless(f.year)
    BY <1>11, <1>14, <1>15, <1>17
  <2> QED BY <1>12, <2>1, <2>2
<1>19. ASSUME NEW y \in Years PROVE FilingOf(y)' = FilingOf(y)
  <2>1. CASE made(y)
    <3>1. filings'[y] = fin /\ filings[y] = << >>
      BY <1>4, <1>5, <2>1
    <3>2. {i \in DOMAIN fin : fin[i] # "FIN"} = {}
      BY <1>3
    <3>3. FilingOf(y)' = anchor(y)
      BY <3>1, <3>2 DEF FilingOf
    <3>4. {i \in DOMAIN << >> : << >>[i] # "FIN"} = {}
      OBVIOUS
    <3>5. FilingOf(y) = anchor(y)
      BY <3>1, <3>4 DEF FilingOf
    <3> QED BY <3>3, <3>5
  <2>2. CASE ~made(y)
    BY <1>5, <2>2 DEF FilingOf
  <2> QED BY <2>1, <2>2
<1> QED BY <1>6, <1>12, <1>13, <1>18, <1>19

InYears(batch) == \A r \in batch : r.year \in Years

LEMMA OrgIs ==
  ASSUME TypeOK
  PROVE  /\ Org.models = library /\ Org.years = ScoringYears /\ ScoringYears \subseteq Years
         /\ Scoreable \subseteq Filings /\ Filings \subseteq Filing
         /\ \A f \in Filings : f.year \in Years
         /\ \A f \in Filings : f.form # "FIN" => f.year \in ScoringYears
BY DEF Org, ScoringYears, Scoreable, Filings, Filing

LEMMA YearsOfAreYears ==
  ASSUME NEW org, org.years \subseteq Years, NEW v PROVE YearsOf(org, v) \subseteq Years
<1> SUFFICES ASSUME NEW y \in Span(org.years) PROVE y \in Years
  BY DEF YearsOf
<1>1. org.years # {} /\ y \in Min(org.years)..Max(org.years)
  BY DEF Span
<1>2. PICK z \in org.years : TRUE
  BY <1>1
<1> DEFINE lo == Min(org.years)
           hi == Max(org.years)
<1>3. lo \in org.years /\ hi \in org.years
  BY <1>2, SpanEnds
<1> HIDE DEF lo, hi
<1>4. y \in lo..hi
  BY <1>1 DEF lo, hi
<1> QED BY <1>3, <1>4, EngineAssumption DEF Years

(* A row as it is stored at a filing.                                       *)
RowAt(f, r) == [filing |-> f, model |-> r.model, total |-> r.total, imputed |-> r.imputed]
LEMMA RowsAre ==
  ASSUME NEW batch, NEW s
  PROVE  s \in Rows(batch) <=> \E r \in batch : \E f \in At(r) : s = RowAt(f, r)
BY DEF Rows, RowAt

LEMMA RowIs ==
  \A f, r : /\ RowAt(f, r).filing = f /\ RowAt(f, r).model = r.model
            /\ RowAt(f, r).total = r.total
BY DEF RowAt

LEMMA RowFlag == ASSUME NEW f, NEW r PROVE RowAt(f, r).imputed = r.imputed
BY DEF RowAt

LEMMA AtIs ==
  ASSUME TypeOK, NEW r, r.year \in Years, NEW f \in At(r)
  PROVE  f.year = r.year /\ (f \in Filings \/ f = FilingOf(r.year))
<1>1. filings \in [Years -> Seq(Forms)]
  BY DEF TypeOK, FilingsOK, FactsOK
<1> QED BY <1>1, OrgIs, FilingOfIs DEF At

LEMMA SameRows ==
  ASSUME NEW versions, NEW a, NEW b, \A r \in a : r.model \in versions,
         \A v \in versions : Of(a, v) = Of(b, v)
  PROVE  \A s : s \in Rows(a) <=> s \in Rows(b) /\ s.model \in versions
<1>1. \A r : r \in a <=> r \in b /\ r.model \in versions
  BY DEF Of
<1> QED BY <1>1, RowsAre, RowIs

-----------------------------------------------------------------------------
(* Types.                                                                   *)

LEMMA FormsKept ==
  ASSUME TypeOK, NEW f \in Filing, filings' = Filed(filings, f)
  PROVE  FilingsOK' /\ Filings \subseteq Filings' /\ f \in Filings'
<1>1. FilingsOK /\ f.year \in Years /\ f.form \in Forms
  BY DEF TypeOK, Filing
<1>2. /\ Filings = {g \in Filing : g.form \in ToSet(filings[g.year])}
      /\ Filings' = {g \in Filing : g.form \in ToSet(filings'[g.year])}
  BY DEF Filings
<1>3. CASE f.form \in ToSet(filings[f.year])
  <2>1. filings' = filings
    BY <1>3 DEF Filed
  <2> QED BY <1>1, <1>2, <1>3, <2>1 DEF FilingsOK
<1>4. CASE f.form \notin ToSet(filings[f.year])
  <2> DEFINE r == Append(filings[f.year], f.form)
  <2>1. filings' = [filings EXCEPT ![f.year] = r]
    BY <1>4 DEF Filed
  <2>2. r \in Seq(Forms) /\ IsInjective(r)
          /\ ToSet(r) = ToSet(filings[f.year]) \cup {f.form}
    BY <1>1, <1>4, FiledIs DEF FilingsOK
  <2> HIDE DEF r
  <2>3. FilingsOK'
    BY <1>1, <2>1, <2>2 DEF FilingsOK
  <2>4. \A y \in Years : ToSet(filings[y]) \subseteq ToSet(filings'[y])
    BY <1>1, <2>1, <2>2 DEF FilingsOK
  <2>5. f.form \in ToSet(filings'[f.year])
    BY <1>1, <2>1, <2>2 DEF FilingsOK
  <2>6. \A g \in Filing : g.year \in Years
    BY DEF Filing
  <2> QED BY <1>2, <2>3, <2>4, <2>5, <2>6
<1> QED BY <1>3, <1>4

LEMMA FactsKept ==
  ASSUME FactsOK, Filings \subseteq Filings', UNCHANGED facts PROVE FactsOK'
BY DEF FactsOK

LEMMA FactsAre ==
  ASSUME FactsOK, NEW y \in Years, NEW c \in Concepts, facts[y][c] # None
  PROVE  facts[y][c].by \in Filings /\ facts[y][c].by.year = y
           /\ facts[y][c] \in [value: Int, by: Filings]
<1>1. facts[y][c] \in [value: Int, by: Filings] \cup {None}
  BY DEF FactsOK
<1> QED BY <1>1 DEF FactsOK

LEMMA NewFacts ==
  ASSUME NEW new, DOMAIN new = Years, \A y \in Years : DOMAIN new[y] = Concepts,
         new = [y \in Years |-> [c \in Concepts |-> new[y][c]]],
         NEW filed, \A y \in Years, c \in Concepts : new[y][c] # None =>
           new[y][c] \in [value: Int, by: filed] /\ new[y][c].by.year = y
  PROVE  /\ new \in [Years -> [Concepts -> [value: Int, by: filed] \cup {None}]]
         /\ \A y \in Years, c \in Concepts : new[y][c] # None => new[y][c].by.year = y
<1> DEFINE T == [value: Int, by: filed] \cup {None}
<1>1. \A y \in Years, c \in Concepts : new[y][c] \in T
  OBVIOUS
<1> HIDE DEF T
<1>2. \A y \in Years : [c \in Concepts |-> new[y][c]] \in [Concepts -> T]
  BY <1>1
<1>3. new \in [Years -> [Concepts -> T]]
  BY <1>2
<1> QED BY <1>3 DEF T

LEMMA ScoresKept ==
  ASSUME ScoresOK, Filings \subseteq Filings', UNCHANGED library, scores' \subseteq scores
  PROVE  ScoresOK'
BY DEF ScoresOK, Live

(* Before the first change of the data there are no filings and no scores,  *)
(* so that registering a model can change neither.                          *)
Quiet == changes = 0 => filings = [y \in Years |-> << >>] /\ scores = {} /\ asked = {}

LEMMA QuietYears == ASSUME filings = [y \in Years |-> << >>] PROVE ScoringYears = {}
<1>1. ToSet(<< >>) = {}
  BY DEF ToSet
<1>2. Filings = {}
  BY <1>1 DEF Filings, Filing
<1> QED BY <1>2 DEF ScoringYears, Scoreable

LEMMA InitTypes == Init => TypeOK /\ Quiet
<1> SUFFICES ASSUME Init PROVE TypeOK /\ Quiet
  OBVIOUS
<1>1. << >> \in Seq(Forms) /\ IsInjective(<< >>)
  BY DEF IsInjective
<1> QED BY <1>1, EngineAssumption DEF Init, TypeOK, FilingsOK, FactsOK, ScoresOK, Quiet

LEMMA RegisterTypes ==
  ASSUME TypeOK, Quiet, Library', NEW d \in Submitted, Register(d) PROVE TypeOK' /\ Quiet'
<1>1. /\ changes = 0 /\ library' = [library EXCEPT ![d.version] = d]
      /\ UNCHANGED <<orgType, filings, facts, scores, fresh, asked, changes, runs>>
  BY DEF Register, data
<1>2. scores = {} /\ Quiet'
  BY <1>1 DEF Quiet
<1>3. FilingsOK' /\ Filings' = Filings
  BY <1>1 DEF TypeOK, FilingsOK, Filings
<1>4. FactsOK'
  BY <1>1, <1>3, FactsKept DEF TypeOK
<1>5. ScoresOK'
  BY <1>1, <1>2 DEF ScoresOK
<1> QED BY <1>1, <1>2, <1>3, <1>4, <1>5 DEF TypeOK, Library

LEMMA ChangeTypes ==
  ASSUME TypeOK, Change
  PROVE  changes' \in 0..MaxChanges /\ runs' \in 0..MaxRuns /\ changes' # 0
BY EngineAssumption DEF TypeOK, Change

LEMMA FileReturnTypes ==
  ASSUME TypeOK, Quiet, NEW ret \in Returns, FileReturn(ret) PROVE TypeOK' /\ Quiet'
<1> DEFINE f == [year |-> ret.year, form |-> ret.form]
           new == facts'
<1>1. f \in Filing /\ f.year = ret.year
        /\ \A c \in Concepts : ret.reported[c] \in Int \cup {None}
  BY EngineAssumption DEF Filing
<1>2. /\ Change /\ filings' = Filed(filings, f) /\ fresh' = {} /\ asked' = {}
      /\ UNCHANGED <<library, orgType, scores>>
  BY DEF FileReturn
<1>3. facts' = [facts EXCEPT ![f.year] =
                  [c \in Concepts |-> IF @[c] # None \/ ret.reported[c] = None THEN @[c]
                                      ELSE [value |-> ret.reported[c], by |-> f]]]
  BY DEF FileReturn
<1> HIDE DEF f
<1>4. FilingsOK' /\ Filings \subseteq Filings' /\ f \in Filings'
  BY <1>1, <1>2, FormsKept
<1>5. FactsOK /\ facts \in [Years -> [Concepts -> [value: Int, by: Filings] \cup {None}]]
  BY DEF TypeOK, FactsOK
<1>6. f.year \in Years
  BY <1>1 DEF Filing
<1>7. ASSUME NEW y \in Years, NEW c \in Concepts, new[y][c] # None
      PROVE  new[y][c] \in [value: Int, by: Filings'] /\ new[y][c].by.year = y
  <2>1. CASE new[y][c] = facts[y][c]
    BY <1>4, <1>5, <1>7, <2>1, FactsAre
  <2>2. CASE new[y][c] # facts[y][c]
    <3>1. y = f.year /\ ret.reported[c] # None
            /\ new[y][c] = [value |-> ret.reported[c], by |-> f]
      BY <1>3, <1>5, <1>6, <2>2
    <3> QED BY <1>1, <1>4, <3>1
  <2> QED BY <2>1, <2>2
<1>8. /\ DOMAIN new = Years /\ \A y \in Years : DOMAIN new[y] = Concepts
      /\ new = [y \in Years |-> [c \in Concepts |-> new[y][c]]]
  BY <1>3, <1>5
<1>9. FactsOK'
  <2> HIDE DEF new
  <2>1. /\ new \in [Years -> [Concepts -> [value: Int, by: Filings'] \cup {None}]]
        /\ \A y \in Years, c \in Concepts : new[y][c] # None => new[y][c].by.year = y
    BY <1>7, <1>8, NewFacts
  <2> QED BY <2>1 DEF new, FactsOK
<1>10. ScoresOK'
  BY <1>2, <1>4, ScoresKept DEF TypeOK
<1> QED BY <1>2, <1>4, <1>9, <1>10, ChangeTypes DEF TypeOK, Quiet

LEMMA ObserveTypes ==
  ASSUME TypeOK, Quiet, NEW e \in Entries, Observe(e) PROVE TypeOK' /\ Quiet'
<1> DEFINE new == facts'
<1>1. e.year \in Years /\ e.concept \in Concepts /\ e.value \in Int
  BY EngineAssumption
<1>2. PICK f \in {FilingOf(e.year)} \cup {g \in Filings : g.year = e.year} :
        /\ filings' = Filed(filings, f)
        /\ \/ facts' = [facts EXCEPT ![e.year][e.concept] = [value |-> e.value, by |-> f]]
           \/ facts' = facts
  BY DEF Observe
<1>3. /\ Change /\ fresh' = {} /\ asked' = {} /\ UNCHANGED <<library, orgType, scores>>
      /\ f \in Filing /\ f.year = e.year
  <2>1. FilingOf(e.year) \in Filing /\ FilingOf(e.year).year = e.year
    BY <1>1, FilingOfIs DEF TypeOK, FilingsOK
  <2> QED BY <1>2, <2>1 DEF Observe, Filings
<1>4. FilingsOK' /\ Filings \subseteq Filings' /\ f \in Filings'
  BY <1>2, <1>3, FormsKept
<1>5. FactsOK /\ facts \in [Years -> [Concepts -> [value: Int, by: Filings] \cup {None}]]
  BY DEF TypeOK, FactsOK
<1>6. ASSUME NEW y \in Years, NEW c \in Concepts, new[y][c] # None
      PROVE  new[y][c] \in [value: Int, by: Filings'] /\ new[y][c].by.year = y
  <2>1. CASE new[y][c] = facts[y][c]
    BY <1>4, <1>5, <1>6, <2>1, FactsAre
  <2>2. CASE new[y][c] # facts[y][c]
    <3>1. y = e.year /\ new[y][c] = [value |-> e.value, by |-> f]
      BY <1>1, <1>2, <1>5, <2>2
    <3> QED BY <1>1, <1>3, <1>4, <3>1
  <2> QED BY <2>1, <2>2
<1>7. /\ DOMAIN new = Years /\ \A y \in Years : DOMAIN new[y] = Concepts
      /\ new = [y \in Years |-> [c \in Concepts |-> new[y][c]]]
  BY <1>2, <1>5
<1>8. FactsOK'
  <2> HIDE DEF new
  <2>1. /\ new \in [Years -> [Concepts -> [value: Int, by: Filings'] \cup {None}]]
        /\ \A y \in Years, c \in Concepts : new[y][c] # None => new[y][c].by.year = y
    BY <1>6, <1>7, NewFacts
  <2> QED BY <2>1 DEF new, FactsOK
<1>9. ScoresOK'
  BY <1>3, <1>4, ScoresKept DEF TypeOK
<1> QED BY <1>3, <1>4, <1>8, <1>9, ChangeTypes DEF TypeOK, Quiet

(* What is left to choose was read from a return or entered by hand.        *)
LEMMA ReadingsAre ==
  ASSUME NEW y \in Years, NEW c \in Concepts, NEW r \in Readings(y, c)
  PROVE  r = [value |-> r.value, by |-> r.by] /\ r.value \in Int /\ r.by.year = y
<1>1. CASE \E ret \in Returns : /\ ret.year = y /\ ret.reported[c] # None
             /\ r = [value |-> ret.reported[c], by |-> [year |-> y, form |-> ret.form]]
  BY <1>1, EngineAssumption
<1>2. CASE \E e \in Entries : \E form \in Forms :
             r = [value |-> e.value, by |-> [year |-> y, form |-> form]]
  BY <1>2, EngineAssumption
<1> QED BY <1>1, <1>2 DEF Readings

LEMMA PurgeTypes ==
  ASSUME TypeOK, Quiet, NEW fs \in SUBSET Filings, Purge(fs) PROVE TypeOK' /\ Quiet'
<1> DEFINE new == facts'
           lost == {p \in Years \X Concepts :
                      facts[p[1]][p[2]] # None /\ facts[p[1]][p[2]].by \in fs}
           left(p) == {r \in Readings(p[1], p[2]) : r.by \in Filings \ fs}
<1>1. /\ Change /\ fresh' = {} /\ asked' = {} /\ UNCHANGED <<library, orgType>>
      /\ filings' = [y \in Years |-> Left(filings[y], y, fs)]
      /\ scores' = {s \in scores : s.filing \notin fs}
  BY DEF Purge
<1>10. PICK again :
        /\ \A p \in lost : again[p] \in left(p) \cup {None}
        /\ facts' = [y \in Years |-> [c \in Concepts |->
            IF <<y, c>> \in lost THEN again[<<y, c>>] ELSE facts[y][c]]]
  BY DEF Purge
<1>2. FilingsOK /\ FactsOK /\ ScoresOK
  BY DEF TypeOK
<1>3. \A y \in Years : /\ filings'[y] \in Seq(Forms) /\ IsInjective(filings'[y])
                       /\ ToSet(filings'[y]) =
                            {form \in ToSet(filings[y]) :
                              [year |-> y, form |-> form] \notin fs}
  BY <1>1, <1>2, LeftIs DEF FilingsOK
<1>4. FilingsOK'
  BY <1>1, <1>3 DEF FilingsOK
<1>5. Filings' = Filings \ fs
  <2>1. /\ Filings = {g \in Filing : g.form \in ToSet(filings[g.year])}
        /\ Filings' = {g \in Filing : g.form \in ToSet(filings'[g.year])}
    BY DEF Filings
  <2>2. \A g \in Filing : g.year \in Years /\ g = [year |-> g.year, form |-> g.form]
    BY DEF Filing
  <2> QED BY <1>3, <2>1, <2>2
<1>6. ASSUME NEW y \in Years, NEW c \in Concepts, new[y][c] # None
      PROVE  new[y][c] \in [value: Int, by: Filings'] /\ new[y][c].by.year = y
  <2> DEFINE p == <<y, c>>
  <2>1. new[y][c] = IF p \in lost THEN again[p] ELSE facts[y][c]
    BY <1>10
  <2>2. CASE p \in lost
    <3>1. new[y][c] \in Readings(y, c) /\ new[y][c].by \in Filings \ fs
      BY <1>10, <1>6, <2>1, <2>2
    <3> HIDE DEF new
    <3> QED BY <1>5, <3>1, ReadingsAre
  <2>3. CASE p \notin lost
    <3>1. new[y][c] = facts[y][c] /\ facts[y][c].by \notin fs
      BY <1>6, <2>1, <2>3
    <3> QED BY <1>2, <1>5, <1>6, <3>1, FactsAre
  <2> QED BY <2>2, <2>3
<1>7. /\ DOMAIN new = Years /\ \A y \in Years : DOMAIN new[y] = Concepts
      /\ new = [y \in Years |-> [c \in Concepts |-> new[y][c]]]
  BY <1>10
<1>8. FactsOK'
  <2> HIDE DEF new
  <2>1. /\ new \in [Years -> [Concepts -> [value: Int, by: Filings'] \cup {None}]]
        /\ \A y \in Years, c \in Concepts : new[y][c] # None => new[y][c].by.year = y
    BY <1>6, <1>7, NewFacts
  <2> QED BY <2>1 DEF new, FactsOK
<1>9. ScoresOK'
  BY <1>1, <1>2, <1>5 DEF ScoresOK, Live
<1> QED BY <1>1, <1>4, <1>8, <1>9, ChangeTypes DEF TypeOK, Quiet

LEMMA ReclassifyTypes ==
  ASSUME TypeOK, Quiet, NEW t \in {"nonprofit", "foundation"}, Reclassify(t)
  PROVE TypeOK' /\ Quiet'
<1>1. /\ Change /\ orgType' = t /\ fresh' = {} /\ asked' = {}
      /\ UNCHANGED <<library, filings, facts, scores>>
  BY DEF Reclassify
<1>2. FilingsOK' /\ Filings' = Filings
  BY <1>1 DEF TypeOK, FilingsOK, Filings
<1>3. FactsOK' /\ ScoresOK'
  BY <1>1, <1>2, FactsKept, ScoresKept DEF TypeOK
<1> QED BY <1>1, <1>2, <1>3, ChangeTypes DEF TypeOK, Quiet

LEMMA BatchYears ==
  ASSUME TypeOK, NEW versions, NEW rows, Settled(Org, versions, rows)
  PROVE  /\ InYears(rows)
         /\ \A r \in rows : r.model \in versions
         /\ \A r \in rows, q \in rows : r.model = q.model /\ r.year = q.year => r = q
         /\ \A r \in rows : r.year \in YearsOf(Org, r.model)
                            /\ r = ScoreYear(Org, rows, r.model, r.year)
<1>1. \A r \in rows : r.model \in versions /\ r \in Written(Org, rows, r.model)
  BY DEF Settled, Of
<1>2. \A r \in rows : r.year \in YearsOf(Org, r.model)
        /\ r = ScoreYear(Org, rows, r.model, r.year)
  BY <1>1, ScoreYearIs DEF Written
<1>3. \A v : YearsOf(Org, v) \subseteq Years
  BY OrgIs, YearsOfAreYears
<1> QED BY <1>1, <1>2, <1>3 DEF InYears

LEMMA CurrentIs ==
  ASSUME TypeOK, Library
  PROVE  /\ Settled(Org, Computed(library), Batch(Org, Computed(library)))
         /\ InYears(Batch(Org, Computed(library)))
<1>1. Org.models = library /\ Registered(library)
  BY OrgIs DEF Library
<1>2. Settled(Org, Computed(library), Batch(Org, Computed(library)))
  BY <1>1, BatchSettled, EngineAssumption DEF Complete
<1> QED BY <1>2, BatchYears

LEMMA SameReads ==
  ASSUME TypeOK, Library, UNCHANGED <<library, orgType, facts>>, Scoreable' = Scoreable,
         \A y \in Years : FilingOf(y)' = FilingOf(y)
  PROVE  Org' = Org /\ ScoringYears' = ScoringYears /\ Current' = Current
<1>1. ScoringYears' = ScoringYears
  BY DEF ScoringYears
<1>2. \A y : Vals(y)' = Vals(y)
  BY DEF Vals
<1>3. Org' = Org
  BY <1>1, <1>2 DEF Org
<1>4. PICK batch : batch = Batch(Org, Computed(library))
  OBVIOUS
<1>5. ASSUME NEW r \in batch PROVE At(r)' = At(r)
  <2>1. r.year \in Years
    BY <1>4, CurrentIs DEF InYears
  <2> QED BY <2>1, Zenon DEF At
<1>6. Current = UNION {{RowAt(f, r) : f \in At(r)} : r \in batch}
  BY <1>4 DEF Current, Rows, RowAt
<1>7. Current' = UNION {{RowAt(f, r) : f \in At(r)'} : r \in batch}
  <2>1. Batch(Org', Computed(library')) = batch
    BY <1>3, <1>4
  <2> QED BY <2>1 DEF Current, Rows, RowAt
<1> QED BY <1>1, <1>3, <1>5, <1>6, <1>7

(* What is read does not change when rows are stored: the filings made for  *)
(* them are no years of their own.                                          *)
LEMMA RebuildReads ==
  ASSUME TypeOK, Library, NEW versions \in SUBSET Computed(library),
         Complete(library, versions), Run, Rebuild(versions)
  PROVE  LET batch == Batch(Org, versions) IN
         /\ Settled(Org, versions, batch)
         /\ FilingsOK' /\ Filings \subseteq Filings'
         /\ \A s \in Rows(batch) : s.filing \in Filings' /\ s.model \in versions
         /\ Org' = Org /\ ScoringYears' = ScoringYears /\ Current' = Current
         /\ \A y \in Years : FilingOf(y)' = FilingOf(y)
<1> DEFINE batch == Batch(Org, versions)
           rows == Rows(batch)
           fs == {r.filing : r \in rows}
<1>1. Org.models = library /\ Registered(library)
  BY OrgIs DEF Library
<1>2. Settled(Org, versions, batch)
  BY <1>1, BatchSettled, EngineAssumption
<1> HIDE DEF batch
<1>3. InYears(batch) /\ \A r \in batch : r.model \in versions
  BY <1>2, BatchYears
<1>4. \A s \in rows : \E r \in batch : \E f \in At(r) : s = RowAt(f, r)
  BY RowsAre
<1>5. ASSUME NEW s \in rows
      PROVE  s.model \in versions
               /\ (s.filing \in Filings \/ \E y \in Years : s.filing = FilingOf(y))
  <2>1. PICK r \in batch : \E f \in At(r) : s = RowAt(f, r)
    BY <1>4
  <2>2. PICK f \in At(r) : s = RowAt(f, r)
    BY <2>1
  <2>3. r.year \in Years /\ r.model \in versions
    BY <1>3 DEF InYears
  <2>4. s.filing = f /\ s.model = r.model
    BY <2>2, RowIs
  <2> QED BY <2>3, <2>4, AtIs
<1> HIDE DEF rows
<1>6. /\ filings' = Anchored(fs) /\ UNCHANGED <<library, orgType, facts>>
  BY DEF Rebuild, rows, batch
<1>7. \A f \in fs : f \in Filings \/ \E y \in Years : f = FilingOf(y)
  BY <1>5
<1> DEFINE seen == fs
<1> HIDE DEF seen
<1>8. \A s \in rows : s.filing \in seen
  BY DEF seen
<1>9. /\ filings' \in [Years -> Seq(Forms)] /\ \A y \in Years : IsInjective(filings'[y])
      /\ Filings \subseteq Filings' /\ seen \subseteq Filings'
      /\ Scoreable' = Scoreable
      /\ \A y \in Years : FilingOf(y)' = FilingOf(y)
  <2>1. filings' = Anchored(seen)
    BY <1>6 DEF seen
  <2>2. \A f \in seen : f \in Filings \/ \E y \in Years : f = FilingOf(y)
    BY <1>7 DEF seen
  <2> QED BY <1>6, <2>1, <2>2, AnchorsChangeNothing
<1>10. Org' = Org /\ ScoringYears' = ScoringYears /\ Current' = Current
  BY <1>6, <1>9, SameReads
<1> QED BY <1>2, <1>5, <1>8, <1>9, <1>10 DEF FilingsOK, rows, batch

(* A rebuild keeps one row for a filing and a model.                        *)
LEMMA OneRowEach ==
  ASSUME TypeOK, NEW versions, NEW batch, Settled(Org, versions, batch)
  PROVE  \A s \in Rows(batch), t \in Rows(batch) : s.filing = t.filing /\ s.model = t.model
           => s = t
<1> SUFFICES ASSUME NEW s \in Rows(batch), NEW t \in Rows(batch),
                    s.filing = t.filing, s.model = t.model
             PROVE  s = t
  OBVIOUS
<1>1. PICK r \in batch : \E f \in At(r) : s = RowAt(f, r)
  BY RowsAre
<1>2. PICK f \in At(r) : s = RowAt(f, r)
  BY <1>1
<1>3. PICK q \in batch : \E g \in At(q) : t = RowAt(g, q)
  BY RowsAre
<1>4. PICK g \in At(q) : t = RowAt(g, q)
  BY <1>3
<1>5. f = g /\ r.model = q.model
  BY <1>2, <1>4, RowIs
<1>6. r.year \in Years /\ q.year \in Years
  BY BatchYears DEF InYears
<1>7. r.year = q.year
  BY <1>5, <1>6, AtIs
<1>8. r = q
  BY <1>5, <1>7, BatchYears
<1> QED BY <1>2, <1>4, <1>5, <1>8

LEMMA RebuildTypes ==
  ASSUME TypeOK, Library, Quiet, NEW versions \in SUBSET Computed(library),
         Complete(library, versions), Run, Rebuild(versions)
  PROVE  TypeOK' /\ Quiet'
<1> DEFINE rows == Rows(Batch(Org, versions))
           replaces == ScoringYears # {} \/ \A v \in versions : ~Applies(Org, v)
<1>1. /\ Run /\ UNCHANGED <<library, orgType, facts>>
      /\ scores' = IF replaces THEN {s \in scores : s.model \notin versions} \cup rows
           ELSE scores
      /\ filings' = Anchored({r.filing : r \in rows})
      /\ fresh' = fresh \cup versions
      /\ asked' = {a \in asked : a[1] \notin versions}
  BY DEF Rebuild
<1>2. /\ Settled(Org, versions, Batch(Org, versions))
      /\ FilingsOK' /\ Filings \subseteq Filings'
      /\ \A s \in rows : s.filing \in Filings' /\ s.model \in versions
  BY RebuildReads
<1>3. \A s \in rows, t \in rows : s.filing = t.filing /\ s.model = t.model => s = t
  BY <1>2, OneRowEach
<1>4. runs' \in 0..MaxRuns /\ changes' = changes
  BY <1>1, EngineAssumption DEF Run, TypeOK
<1>5. changes = 0 => rows = {}
  <2> SUFFICES ASSUME changes = 0, NEW s \in rows PROVE FALSE
    OBVIOUS
  <2> DEFINE batch == Batch(Org, versions)
  <2>1. Org.years = {}
    BY OrgIs, QuietYears DEF Quiet
  <2>2. \A v : YearsOf(Org, v) = {}
    BY <2>1 DEF YearsOf, Span
  <2>3. PICK r \in batch : TRUE
    BY RowsAre
  <2> HIDE DEF batch
  <2>4. r.year \in YearsOf(Org, r.model)
    BY <1>2, <2>3, BatchYears DEF batch
  <2> QED BY <2>2, <2>4
<1> HIDE DEF rows, replaces
<1>6. ScoresOK'
  <2>1. ScoresOK /\ \A s \in scores' : s \in rows \/ s \in scores
    BY <1>1 DEF TypeOK
  <2>2. versions \subseteq Live
    BY DEF Computed, Live
  <2>3. \A s \in scores' : s.filing \in Filings' /\ s.model \in Live
    BY <1>2, <2>1, <2>2 DEF ScoresOK
  <2>4. \A s \in scores', t \in scores' : s.filing = t.filing /\ s.model = t.model => s = t
    BY <1>1, <1>2, <1>3, <2>1 DEF ScoresOK
  <2> QED BY <1>1, <2>3, <2>4 DEF ScoresOK, Live
<1>7. Quiet'
  <2> SUFFICES ASSUME changes = 0
               PROVE filings' = [y \in Years |-> << >>] /\ scores' = {} /\ asked' = {}
    BY <1>4 DEF Quiet
  <2>1. filings' = filings
    BY <1>1, <1>5 DEF Anchored, TypeOK, FilingsOK
  <2> QED BY <1>1, <1>5, <2>1 DEF Quiet
<1>8. FactsOK'
  BY <1>1, <1>2, FactsKept DEF TypeOK
<1>9. fresh' \subseteq Versions /\ asked' \subseteq Versions \X Years
  BY <1>1 DEF TypeOK, Computed
<1> QED BY <1>1, <1>2, <1>4, <1>6, <1>7, <1>8, <1>9 DEF TypeOK

LEMMA CalculateReads ==
  ASSUME TypeOK, Library, NEW v \in Versions, NEW y \in Years, Calculate(v, y)
  PROVE  /\ Org' = Org /\ ScoringYears' = ScoringYears /\ Current' = Current
         /\ \A z \in Years : FilingOf(z)' = FilingOf(z)
<1>1. UNCHANGED <<library, orgType, filings, facts>>
  BY DEF Calculate, data
<1>2. Filings' = Filings
  BY <1>1 DEF Filings
<1>3. Scoreable' = Scoreable /\ \A z \in Years : FilingOf(z)' = FilingOf(z)
  BY <1>1, <1>2 DEF Scoreable, RealYears, Valueless, FilingOf
<1> QED BY <1>1, <1>3, SameReads

Asked(v, y) == [filing |-> FilingOf(y), model |-> v,
                total |-> OnDemand(Org, v, y).total, imputed |-> OnDemand(Org, v, y).filled]

LEMMA CalculateIs ==
  ASSUME NEW v \in Versions, NEW y \in Years, Calculate(v, y)
  PROVE  /\ Run /\ v \in Computed(library) /\ FilingOf(y) \in Filings
         /\ scores' = {s \in scores :
              s.filing # FilingOf(y) \/ s.model # v} \cup {Asked(v, y)}
         /\ fresh' = fresh \ {v} /\ asked' = asked \cup {<<v, y>>}
         /\ UNCHANGED <<library, orgType, filings, facts>>
         /\ Asked(v, y).filing = FilingOf(y) /\ Asked(v, y).model = v
         /\ Asked(v, y).total = OnDemand(Org, v, y).total
<1>1. /\ Run /\ v \in Computed(library) /\ FilingOf(y) \in Filings
      /\ fresh' = fresh \ {v} /\ asked' = asked \cup {<<v, y>>}
      /\ UNCHANGED <<library, orgType, filings, facts>>
  BY DEF Calculate, data, Stored
<1>2. scores' = {s \in scores : s.filing # FilingOf(y) \/ s.model # v} \cup {Asked(v, y)}
  BY DEF Calculate, Asked
<1>3. /\ Asked(v, y).filing = FilingOf(y) /\ Asked(v, y).model = v
      /\ Asked(v, y).total = OnDemand(Org, v, y).total
  BY DEF Asked
<1> QED BY <1>1, <1>2, <1>3

LEMMA CalculateTypes ==
  ASSUME TypeOK, Quiet, NEW v \in Versions, NEW y \in Years, Calculate(v, y)
  PROVE TypeOK' /\ Quiet'
<1>1. /\ Run /\ v \in Computed(library) /\ FilingOf(y) \in Filings
      /\ scores' = {s \in scores : s.filing # FilingOf(y) \/ s.model # v} \cup {Asked(v, y)}
      /\ fresh' = fresh \ {v} /\ asked' = asked \cup {<<v, y>>}
      /\ UNCHANGED <<library, orgType, filings, facts>>
      /\ Asked(v, y).filing = FilingOf(y) /\ Asked(v, y).model = v
  BY CalculateIs
<1>2. runs' \in 0..MaxRuns /\ changes' = changes
  BY <1>1, EngineAssumption DEF Run, TypeOK
<1>3. FilingsOK' /\ Filings' = Filings
  BY <1>1 DEF TypeOK, FilingsOK, Filings
<1>4. FactsOK'
  BY <1>1, <1>3, FactsKept DEF TypeOK
<1>5. v \in Live /\ ScoresOK
  BY <1>1 DEF Computed, Live, TypeOK
<1>6. ScoresOK'
  BY <1>1, <1>3, <1>5 DEF ScoresOK, Live
<1>7. changes # 0
  <2> SUFFICES ASSUME changes = 0 PROVE FALSE
    OBVIOUS
  <2>1. filings[y] = << >> /\ ToSet(<< >>) = {} /\ FilingOf(y).year = y
    BY FilingOfIs DEF Quiet, ToSet, TypeOK, FilingsOK
  <2> QED BY <1>1, <2>1 DEF Filings
<1>8. Quiet'
  BY <1>2, <1>7 DEF Quiet
<1> QED BY <1>1, <1>2, <1>3, <1>4, <1>6, <1>8 DEF TypeOK

-----------------------------------------------------------------------------
(* StoredIsCurrent.                                                         *)

(* The versions of a rebuild are replaced by their part of Current; the     *)
(* fresh rows of others are part of it already.                             *)
LEMMA RebuildCurrent ==
  ASSUME TypeOK, Library, StoredIsCurrent, NEW versions \in SUBSET Computed(library),
         Complete(library, versions), Run, Rebuild(versions)
  PROVE  StoredIsCurrent'
<1> DEFINE all == Batch(Org, Computed(library))
           some == Batch(Org, versions)
           rows == Rows(some)
<1>1. ScoringYears' = ScoringYears /\ Current' = Current /\ Settled(Org, versions, some)
  BY RebuildReads
<1>2. Settled(Org, Computed(library), all)
  BY CurrentIs
<1>3. \A v \in versions : Of(some, v) = Of(all, v)
  <2>1. Org.models = library /\ Registered(library)
    BY OrgIs DEF Library
  <2> HIDE DEF some, all
  <2> QED BY <1>1, <1>2, <2>1, SettledOnce
<1>4. \A s : s \in rows <=> s \in Current /\ s.model \in versions
  <2>1. \A r \in some : r.model \in versions
    BY <1>1, BatchYears
  <2>2. Current = Rows(all)
    BY DEF Current
  <2> HIDE DEF some, all
  <2> QED BY <1>3, <2>1, <2>2, SameRows
<1> SUFFICES ASSUME ScoringYears # {}
             PROVE  {s \in scores' : s.model \in fresh'} =
                      {r \in Current : r.model \in fresh'}
  BY <1>1 DEF StoredIsCurrent
<1>5. /\ scores' = {s \in scores : s.model \notin versions} \cup rows
      /\ fresh' = fresh \cup versions
  BY DEF Rebuild
<1>6. \A s : s.model \in fresh => (s \in scores <=> s \in Current)
  BY DEF StoredIsCurrent
<1> HIDE DEF rows
<1> QED BY <1>4, <1>5, <1>6

LEMMA CalculateCurrent ==
  ASSUME TypeOK, Library, StoredIsCurrent, NEW v \in Versions, NEW y \in Years,
         Calculate(v, y)
  PROVE  StoredIsCurrent'
<1>1. ScoringYears' = ScoringYears /\ Current' = Current
  BY CalculateReads
<1> SUFFICES ASSUME ScoringYears # {}
             PROVE  {s \in scores' : s.model \in fresh'} =
                      {r \in Current : r.model \in fresh'}
  BY <1>1 DEF StoredIsCurrent
<1>2. /\ scores' = {s \in scores : s.filing # FilingOf(y) \/ s.model # v} \cup {Asked(v, y)}
      /\ fresh' = fresh \ {v} /\ Asked(v, y).model = v
  BY CalculateIs
<1>3. \A s : s.model \in fresh => (s \in scores <=> s \in Current)
  BY DEF StoredIsCurrent
<1> QED BY <1>2, <1>3

-----------------------------------------------------------------------------
(* OnDemandAgrees.                                                          *)

(* A rebuild leaves of the asked scores those of other models.              *)
LEMMA RebuildAgrees ==
  ASSUME TypeOK, Library, OnDemandAgrees, NEW versions \in SUBSET Computed(library),
         Complete(library, versions), Run, Rebuild(versions)
  PROVE  OnDemandAgrees'
<1>1. /\ Org' = Org /\ \A y \in Years : FilingOf(y)' = FilingOf(y)
      /\ \A s \in Rows(Batch(Org, versions)) : s.model \in versions
  BY RebuildReads
<1>2. /\ \A s \in scores' : s \in scores \/ s \in Rows(Batch(Org, versions))
      /\ asked' = {a \in asked : a[1] \notin versions} /\ library' = library
  BY DEF Rebuild
<1> SUFFICES ASSUME NEW s \in scores', <<s.model, s.filing.year>> \in asked',
                    s.filing.form # "FIN", s.filing = FilingOf(s.filing.year)',
                    \A w \in Closure(library', {s.model}) : Applies(Org', w)
             PROVE  s.total =
                      TotalOf(Batch(Org', Closure(library', {s.model})), s.model, s.filing.year)
  BY DEF OnDemandAgrees
<1>3. s.model \notin versions /\ <<s.model, s.filing.year>> \in asked
  BY <1>2
<1>4. s \in scores
  BY <1>1, <1>2, <1>3
<1>5. s.filing.year \in Years
  BY <1>4, OrgIs DEF TypeOK, ScoresOK
<1>6. s.filing = FilingOf(s.filing.year)
  BY <1>1, <1>5
<1> QED BY <1>1, <1>2, <1>3, <1>4, <1>6 DEF OnDemandAgrees

(* The score calculated now is the row of its chain; the others keep what   *)
(* they had.                                                                *)
LEMMA CalculateAgrees ==
  ASSUME TypeOK, Library, OnDemandAgrees, NEW v \in Versions, NEW y \in Years,
         Calculate(v, y)
  PROVE  OnDemandAgrees'
<1>1. Org' = Org /\ \A z \in Years : FilingOf(z)' = FilingOf(z)
  BY CalculateReads
<1>2. /\ v \in Computed(library) /\ FilingOf(y) \in Filings
      /\ scores' = {s \in scores : s.filing # FilingOf(y) \/ s.model # v} \cup {Asked(v, y)}
      /\ asked' = asked \cup {<<v, y>>} /\ library' = library
      /\ Asked(v, y).filing = FilingOf(y) /\ Asked(v, y).model = v
      /\ Asked(v, y).total = OnDemand(Org, v, y).total
  BY CalculateIs
<1>3. FilingOf(y).year = y
  BY FilingOfIs DEF TypeOK, FilingsOK
<1> SUFFICES ASSUME NEW s \in scores', <<s.model, s.filing.year>> \in asked',
                    s.filing.form # "FIN", s.filing = FilingOf(s.filing.year)',
                    \A w \in Closure(library', {s.model}) : Applies(Org', w)
             PROVE  s.total =
                      TotalOf(Batch(Org', Closure(library', {s.model})), s.model, s.filing.year)
  BY DEF OnDemandAgrees
<1>4. CASE s = Asked(v, y)
  <2>1. s.filing.year = y /\ s.model = v /\ s.total = OnDemand(Org, v, y).total
    BY <1>2, <1>3, <1>4
  <2>2. s.filing \in Filings
    BY <1>2, <1>4
  <2>3. y \in ScoringYears
    BY <2>1, <2>2, OrgIs
  <2>4. /\ Org.models = library /\ Registered(library) /\ Org.years = ScoringYears
        /\ ScoringYears \subseteq Years
    BY OrgIs DEF Library
  <2>5. \A w \in Closure(library, {v}) : Applies(Org, w)
    BY <1>1, <1>2, <2>1
  <2>6. OnDemand(Org, v, y).total = TotalOf(Batch(Org, Closure(library, {v})), v, y)
    BY <1>2, <2>3, <2>4, <2>5, RequestIsRow
  <2> QED BY <1>1, <1>2, <2>1, <2>6
<1>5. CASE s # Asked(v, y)
  <2>1. s \in scores /\ (s.filing # FilingOf(y) \/ s.model # v)
    BY <1>2, <1>5
  <2>2. s.filing.year \in Years
    BY <2>1, OrgIs DEF TypeOK, ScoresOK
  <2>3. s.filing = FilingOf(s.filing.year)
    BY <1>1, <2>2
  <2>4. <<s.model, s.filing.year>> \in asked
    BY <1>2, <2>1, <2>3
  <2> QED BY <1>1, <1>2, <2>1, <2>3, <2>4 DEF OnDemandAgrees
<1> QED BY <1>4, <1>5

-----------------------------------------------------------------------------
(* The inductive invariant. StoredIsCurrent and OnDemandAgrees need the     *)
(* library to be acyclic and complete (Library), and the filings and the    *)
(* rows kept at them to be what TypeOK says; UnflaggedIsReal follows from   *)
(* StoredIsCurrent, NeverRaises from Library.                               *)

Inv == Library /\ TypeOK /\ Quiet /\ StoredIsCurrent /\ OnDemandAgrees

LEMMA PreparedIs ==
  ASSUME Library, NEW requested \in SUBSET Versions
  PROVE  /\ Prepared(library, requested) \in SUBSET Computed(library)
         /\ Complete(library, Prepared(library, requested))
<1>1. requested \cap Computed(library) \in SUBSET Computed(library)
  OBVIOUS
<1> QED BY <1>1, ClosureIs DEF Prepared, Library

LEMMA InitInv == Init => Inv
<1> SUFFICES ASSUME Init PROVE Inv
  OBVIOUS
<1>1. Library /\ TypeOK /\ Quiet
  BY InitLibrary, InitTypes
<1>2. fresh = {} /\ scores = {}
  BY DEF Init
<1>3. StoredIsCurrent /\ OnDemandAgrees
  BY <1>2 DEF StoredIsCurrent, OnDemandAgrees
<1> QED BY <1>1, <1>3 DEF Inv

LEMMA ChangeForgets ==
  ASSUME fresh' = {}, asked' = {} PROVE StoredIsCurrent' /\ OnDemandAgrees'
<1>1. StoredIsCurrent'
  BY DEF StoredIsCurrent
<1>2. OnDemandAgrees'
  BY DEF OnDemandAgrees
<1> QED BY <1>1, <1>2

LEMMA StutterInv ==
  ASSUME Inv, UNCHANGED vars PROVE TypeOK' /\ Quiet' /\ StoredIsCurrent' /\ OnDemandAgrees'
<1>1. UNCHANGED <<library, orgType, filings, facts, scores, fresh, asked, changes, runs>>
  BY DEF vars, data
<1>2. /\ Library /\ TypeOK /\ Quiet /\ StoredIsCurrent /\ OnDemandAgrees
  BY DEF Inv
<1>3. Filings' = Filings /\ Live' = Live
  BY <1>1 DEF Filings, Live
<1>4. FilingsOK' /\ FactsOK' /\ ScoresOK'
  BY <1>1, <1>2, <1>3 DEF TypeOK, FilingsOK, FactsOK, ScoresOK
<1>5. TypeOK' /\ Quiet'
  BY <1>1, <1>2, <1>4 DEF TypeOK, Quiet
<1>6. Scoreable' = Scoreable /\ \A z \in Years : FilingOf(z)' = FilingOf(z)
  BY <1>1, <1>3 DEF Scoreable, RealYears, Valueless, FilingOf
<1>7. Org' = Org /\ ScoringYears' = ScoringYears /\ Current' = Current
  BY <1>1, <1>2, <1>6, SameReads
<1>8. StoredIsCurrent'
  BY <1>1, <1>2, <1>7 DEF StoredIsCurrent
<1>9. OnDemandAgrees'
  <2> SUFFICES ASSUME NEW s \in scores, <<s.model, s.filing.year>> \in asked,
                      s.filing.form # "FIN", s.filing = FilingOf(s.filing.year)',
                      \A w \in Closure(library, {s.model}) : Applies(Org, w)
               PROVE  s.total = TotalOf(Batch(Org, Closure(library, {s.model})), s.model,
                        s.filing.year)
    BY <1>1, <1>7 DEF OnDemandAgrees
  <2>1. s.filing.year \in Years
    BY <1>2, OrgIs DEF TypeOK, ScoresOK
  <2> QED BY <1>2, <1>6, <2>1 DEF OnDemandAgrees
<1> QED BY <1>5, <1>8, <1>9

LEMMA StepInv == Inv /\ [Next]_vars => Inv'
<1> SUFFICES ASSUME Inv, [Next]_vars PROVE Inv'
  OBVIOUS
<1>1. Library /\ TypeOK /\ Quiet /\ StoredIsCurrent /\ OnDemandAgrees
  BY DEF Inv
<1>2. Library'
  BY <1>1, StepLibrary
<1>3. ASSUME NEW d \in Submitted, Register(d) PROVE Inv'
  <2>1. TypeOK' /\ Quiet'
    BY <1>1, <1>2, <1>3, RegisterTypes
  <2>2. changes' = 0
    BY <1>3 DEF Register
  <2>3. ScoringYears' = {} /\ scores' = {}
    <3>1. scores' = {} /\ filings' = [y \in Years |-> << >>]
      BY <2>1, <2>2 DEF Quiet
    <3>2. ToSet(<< >>) = {}
      BY DEF ToSet
    <3>3. Filings' = {}
      BY <3>1, <3>2 DEF Filings, Filing
    <3> QED BY <3>1, <3>3 DEF ScoringYears, Scoreable
  <2>4. StoredIsCurrent' /\ OnDemandAgrees'
    BY <2>3 DEF StoredIsCurrent, OnDemandAgrees
  <2> QED BY <1>2, <2>1, <2>4 DEF Inv
<1>4. ASSUME NEW ret \in Returns, FileReturn(ret) PROVE Inv'
  <2>1. TypeOK' /\ Quiet' /\ fresh' = {} /\ asked' = {}
    BY <1>1, <1>4, FileReturnTypes DEF FileReturn
  <2> QED BY <1>2, <2>1, ChangeForgets DEF Inv
<1>5. ASSUME NEW e \in Entries, Observe(e) PROVE Inv'
  <2>1. TypeOK' /\ Quiet' /\ fresh' = {} /\ asked' = {}
    BY <1>1, <1>5, ObserveTypes DEF Observe
  <2> QED BY <1>2, <2>1, ChangeForgets DEF Inv
<1>6. ASSUME NEW fs \in SUBSET Filings, Purge(fs) PROVE Inv'
  <2>1. TypeOK' /\ Quiet' /\ fresh' = {} /\ asked' = {}
    BY <1>1, <1>6, PurgeTypes DEF Purge
  <2> QED BY <1>2, <2>1, ChangeForgets DEF Inv
<1>7. ASSUME NEW t \in {"nonprofit", "foundation"}, Reclassify(t) PROVE Inv'
  <2>1. TypeOK' /\ Quiet' /\ fresh' = {} /\ asked' = {}
    BY <1>1, <1>7, ReclassifyTypes DEF Reclassify
  <2> QED BY <1>2, <2>1, ChangeForgets DEF Inv
<1>8. ASSUME NEW requested \in SUBSET Versions, Run, Rebuild(Prepared(library, requested))
      PROVE Inv'
  <2>1. /\ Prepared(library, requested) \in SUBSET Computed(library)
        /\ Complete(library, Prepared(library, requested))
    BY <1>1, PreparedIs
  <2>2. TypeOK' /\ Quiet'
    BY <1>1, <1>8, <2>1, RebuildTypes
  <2>3. StoredIsCurrent' /\ OnDemandAgrees'
    BY <1>1, <1>8, <2>1, RebuildCurrent, RebuildAgrees
  <2> QED BY <1>2, <2>2, <2>3 DEF Inv
<1>9. ASSUME NEW v \in Versions, NEW y \in Years, Calculate(v, y) PROVE Inv'
  <2>1. TypeOK' /\ Quiet'
    BY <1>1, <1>9, CalculateTypes
  <2>2. StoredIsCurrent' /\ OnDemandAgrees'
    BY <1>1, <1>9, CalculateCurrent, CalculateAgrees
  <2> QED BY <1>2, <2>1, <2>2 DEF Inv
<1>10. CASE UNCHANGED vars
  BY <1>1, <1>2, <1>10, StutterInv DEF Inv
<1> QED BY <1>3, <1>4, <1>5, <1>6, <1>7, <1>8, <1>9, <1>10 DEF Next

(* A rebuild raises in a row, a request in a model of its chain.            *)
LEMMA NeverRaisesHolds == Inv => NeverRaises
<1> SUFFICES ASSUME Inv PROVE NeverRaises
  OBVIOUS
<1>1. TypeOK /\ Library /\ Registered(library) /\ Org.models = library
  BY OrgIs DEF Inv, Library
<1>2. Orderable
  BY <1>1, RegisteredOrderable
<1>3. ASSUME BatchRaises(Batch(Org, Computed(library)))
      PROVE  \E v \in Computed(library) : Overflowing(Org, v)
  <2> DEFINE rows == Batch(Org, Computed(library))
  <2>1. Settled(Org, Computed(library), rows)
    BY <1>1, CurrentIs
  <2>2. PICK r \in rows : r.raised
    BY <1>3, Zenon DEF BatchRaises
  <2> HIDE DEF rows
  <2>3. r.model \in Computed(library) /\ r = ScoreYear(Org, rows, r.model, r.year)
    BY <1>1, <2>1, BatchYears
  <2>4. ScoreYear(Org, rows, r.model, r.year).raised
    BY <2>2, <2>3, Zenon
  <2> QED BY <1>1, <2>3, <2>4, RowIsSafe
<1>4. ASSUME NEW v \in Computed(library), NEW y, OnDemandRaises(Org, v, y)
      PROVE  \E w \in Closure(library, {v}) : Overflowing(Org, w)
  BY <1>1, <1>4, RequestIsSafe
<1> QED BY <1>2, <1>3, <1>4 DEF NeverRaises

LEMMA UnflaggedHolds == Inv => UnflaggedIsReal
<1> SUFFICES ASSUME Inv, NEW s \in scores, s.model \in fresh, ~s.imputed, ScoringYears # {},
                    ~FlagLost(Org, Batch(Org, Computed(library)), s.model, s.filing.year)
             PROVE  s.total = RealTotals(Org, s.filing.year)[s.model]
  BY Zenon DEF UnflaggedIsReal
<1>1. TypeOK /\ Library /\ StoredIsCurrent
  BY DEF Inv
<1>2. Org.models = library /\ Registered(library)
  BY <1>1, OrgIs DEF Library
<1>3. PICK all : all = Batch(Org, Computed(library))
  OBVIOUS
<1>4. Settled(Org, Computed(library), all)
  BY <1>1, <1>3, CurrentIs
<1>5. s \in Rows(all)
  BY <1>1, <1>3 DEF StoredIsCurrent, Current
<1>6. PICK r \in all : \E f \in At(r) : s = RowAt(f, r)
  BY <1>5, RowsAre
<1>7. PICK f \in At(r) : s = RowAt(f, r)
  BY <1>6
<1>8. s.filing = f /\ s.model = r.model /\ s.total = r.total /\ s.imputed = r.imputed
  BY <1>7, RowIs, RowFlag
<1>9. /\ r.year \in Years /\ r.model \in Computed(library)
      /\ r.year \in YearsOf(Org, r.model) /\ r = ScoreYear(Org, all, r.model, r.year)
  BY <1>1, <1>4, BatchYears DEF InYears
<1>10. s.filing.year = r.year
  BY <1>1, <1>8, <1>9, AtIs
<1>11. ~ScoreYear(Org, all, r.model, r.year).imputed
  <2>1. ~r.imputed
    BY <1>8, Zenon
  <2> QED BY <1>9, <2>1, Zenon
<1>12. Complete(library, Computed(library))
  BY DEF Complete
<1>13. ScoreYear(Org, all, r.model, r.year).total = RealTotals(Org, r.year)[r.model]
  <2>1. /\ Registered(Org.models) /\ Computed(library) \in SUBSET Computed(Org.models)
        /\ Complete(Org.models, Computed(library))
    BY <1>2, <1>12, Zenon
  <2>2. PICK y : y = r.year /\ ~FlagLost(Org, all, r.model, y)
    BY <1>3, <1>8, <1>10, Zenon
  <2>3. \A v \in Computed(library) :
          /\ ~FlagLost(Org, all, v, y) /\ y \in YearsOf(Org, v)
          /\ ~ScoreYear(Org, all, v, y).imputed
          => ScoreYear(Org, all, v, y).total = RealTotals(Org, y)[v]
    BY <1>4, <2>1, UnflaggedRow
  <2> QED BY <1>9, <1>11, <2>1, <2>2, <2>3, Zenon
<1> QED BY <1>8, <1>9, <1>10, <1>13

(* Types, and what the tables hold together: no form twice in a year, every *)
(* chosen value from a filing of its year that is stored, every score at a  *)
(* stored filing of a registered model, one for each filing and model,      *)
(* whatever is filed, purged, retyped, rebuilt and calculated.              *)
THEOREM EngineTypes == Spec => []TypeOK
<1>1. Inv => TypeOK
  BY DEF Inv
<1> QED BY <1>1, InitInv, StepInv, PTL DEF Spec
(* rebuild leaves what a rebuild would write now, also after others for     *)
(* some of the models, single calculations and the anchors these runs made: *)
(* no row of another state of the data, of a year no longer scored or of a  *)
(* model that no longer applies.                                            *)
THEOREM EngineStored == Spec => []StoredIsCurrent
<1>1. Inv => StoredIsCurrent
  BY DEF Inv
<1> QED BY <1>1, InitInv, StepInv, PTL DEF Spec
(* calculate stores the total rebuild stores: the chain of totals           *)
(* _compute_dependency_totals works out for one year is the one score_org   *)
(* has.                                                                     *)
THEOREM EngineOnDemand == Spec => []OnDemandAgrees
<1>1. Inv => OnDemandAgrees
  BY DEF Inv
<1> QED BY <1>1, InitInv, StepInv, PTL DEF Spec
(* A score rebuild stored without the imputed flag is the total of the      *)
(* year's own values, through every composite below it: score_org passes    *)
(* the flag up wherever a filled value may have gone. The one case that is  *)
(* left out is the one score_org gets wrong: a model without a policy of    *)
(* its own reads a flagged total and drops the flag.                        *)
THEOREM EngineUnflagged == Spec => []UnflaggedIsReal
<1> QED BY UnflaggedHolds, InitInv, StepInv, PTL DEF Spec

(* Whatever registration let in and whatever figures an organization has,   *)
(* scoring finds an order for factors and models, divides by no zero and    *)
(* misses no input; only squaring a deviation that is too large can raise.  *)
THEOREM ScoringNeverRaises == Spec => []NeverRaises
<1>1. Init => Inv
  BY InitInv
<1>2. Inv /\ [Next]_vars => Inv'
  BY StepInv
<1>3. Inv => NeverRaises
  BY NeverRaisesHolds
<1> QED BY <1>1, <1>2, <1>3, PTL DEF Spec
=============================================================================
