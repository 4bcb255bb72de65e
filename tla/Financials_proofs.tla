------------------------- MODULE Financials_proofs -------------------------
(* Proofs about the canonical values, for any periods, concepts, return    *)
(* types, values and editors, and of the composition that the runs check.  *)
EXTENDS MCRecords, Sequences, FiniteSetTheorems, WellFoundedInduction, TLAPS

-----------------------------------------------------------------------------
(* Readings and what is added to them.                                      *)

LEMMA HasLeast ==
  ASSUME NEW S \in SUBSET Nat, S # {} PROVE \E i \in S : \A j \in S : i <= j
<1>1. PICK i \in S : \A j \in S : ~ (<<j, i>> \in OpToRel(<, Nat))
  BY WFMin, NatLessThanWellFounded
<1>2. ASSUME NEW j \in S PROVE i <= j
  <2>1. ~ (<<j, i>> \in {ss \in Nat \X Nat : ss[1] < ss[2]})
    BY <1>1 DEF OpToRel
  <2> QED BY <2>1
<1> QED BY <1>2

LEMMA FirstOf ==
  ASSUME MaxObs \in Nat, NEW S \in SUBSET F!Ids, S # {}
  PROVE  F!First(S) \in S /\ \A j \in S : F!First(S) <= j
<1>1. \E i \in S : \A j \in S : i <= j
  BY HasLeast DEF F!Ids
<1> QED BY <1>1 DEF F!First

LEMMA FirstIs ==
  ASSUME MaxObs \in Nat, NEW S \in SUBSET F!Ids, NEW i \in S, \A j \in S : i <= j
  PROVE  F!First(S) = i
<1>1. F!First(S) \in S /\ \A j \in S : F!First(S) <= j
  BY FirstOf
<1> DEFINE k == F!First(S)
<1>0. k \in F!Ids /\ i \in F!Ids
  BY <1>1
<1> HIDE DEF k
<1>2. k \in Nat /\ i \in Nat
  BY <1>0 DEF F!Ids
<1>3. F!First(S) <= i /\ i <= F!First(S)
  BY <1>1
<1> QED BY <1>2, <1>3 DEF k

LEMMA FiniteSame == \A S : F!IsFiniteSet(S) <=> IsFiniteSet(S)
BY DEF IsFiniteSet, F!IsFiniteSet

LEMMA CardinalitySame == \A S : F!Cardinality(S) = Cardinality(S)
BY DEF Cardinality, F!Cardinality

LEMMA ImageFinite ==
  ASSUME NEW P, F!IsFiniteSet(P), NEW g PROVE F!IsFiniteSet({g[p] : p \in P})
<1> DEFINE T == {g[p] : p \in P}
           h == [p \in P |-> g[p]]
<1>1. h \in Surjection(P, T)
  BY DEF Surjection
<1> QED BY <1>1, FS_Surjection, FiniteSame, CardinalitySame

(* Rows and choices.                                                        *)
Numbering == \A i \in F!Live(obs) : i < nextObs
Anchoring ==
  /\ documented \subseteq F!Stored
  /\ \A i \in F!Live(obs) : obs[i].filing \in F!Stored /\ obs[i].filing[1] = obs[i].fact[1]
Matching ==
  \A fact \in F!Facts : canonical[fact] # None =>
    /\ canonical[fact].obs \in F!Live(obs) /\ obs[canonical[fact].obs].fact = fact
    /\ \/ canonical[fact].value = obs[canonical[fact].obs].value
       \/ ~marker /\ canonical[fact].value = None /\ obs[canonical[fact].obs].value \notin F!Null
FactsInv == F!TypeOK /\ Numbering /\ Anchoring /\ Matching

(* o has the readings of obs, and rows under ids that are new.              *)
Adds(o, rows) ==
  /\ o \in [F!Ids -> F!Observation \cup {None}]
  /\ \A i \in F!Live(obs) : o[i] = obs[i]
  /\ \A i \in F!Live(o) \ F!Live(obs) : o[i] \in rows /\ i >= nextObs
  /\ \A i \in F!Live(o) : i < nextObs + F!Cardinality(rows)

LEMMA NumberedAdds ==
  ASSUME F!Distinct, FactsInv, NEW rows \in SUBSET F!Observation, F!IsFiniteSet(rows), F!Room(rows),
         NEW o \in F!Numbered(rows)
  PROVE  Adds(o, rows) /\ nextObs + F!Cardinality(rows) \in 1..(MaxObs + 1)
<1> DEFINE n == F!Cardinality(rows)
<1>1. n \in Nat /\ nextObs \in 1..(MaxObs + 1) /\ MaxObs \in Nat /\ nextObs + n <= MaxObs + 1
  BY FS_CardinalityType, FiniteSame, CardinalitySame DEF FactsInv, F!TypeOK, F!Room,
        F!Distinct
<1> HIDE DEF n
<1>2. PICK s \in [1..n -> rows] :
        o = [i \in F!Ids |-> IF i \in nextObs..(nextObs + n - 1) THEN s[i - nextObs + 1] ELSE obs[i]]
  BY DEF F!Numbered, F!SetToSeqs, n
<1>3. ASSUME NEW i \in F!Ids
      PROVE  \/ i >= nextObs /\ i < nextObs + n /\ o[i] \in rows
             \/ o[i] = obs[i] /\ i \notin nextObs..(nextObs + n - 1)
  <2>1. CASE i \in nextObs..(nextObs + n - 1)
    <3>1. i - nextObs + 1 \in 1..n /\ i >= nextObs /\ i < nextObs + n
      BY <1>1, <2>1
    <3>2. o[i] = s[i - nextObs + 1]
      BY <1>2, <2>1
    <3> QED BY <1>2, <3>1, <3>2
  <2>2. CASE i \notin nextObs..(nextObs + n - 1)
    BY <1>2, <2>2
  <2> QED BY <2>1, <2>2
<1>4. \A i \in F!Live(obs) : i \in F!Ids /\ i < nextObs
  BY DEF FactsInv, Numbering, F!Live
<1>5. \A i \in F!Live(obs) : o[i] = obs[i]
  BY <1>1, <1>3, <1>4 DEF F!Ids
<1>6. \A i \in F!Live(o) \ F!Live(obs) : o[i] \in rows /\ i >= nextObs
  BY <1>3 DEF F!Live
<1>7. \A i \in F!Live(o) : i < nextObs + n
  BY <1>1, <1>3, <1>4 DEF F!Live, F!Ids
<1>8. \A i \in F!Ids : o[i] \in F!Observation \cup {None}
  BY <1>3 DEF FactsInv, F!TypeOK
<1>9. o \in [F!Ids -> F!Observation \cup {None}]
  BY <1>2, <1>8
<1> QED BY <1>1, <1>5, <1>6, <1>7, <1>9 DEF Adds, n

LEMMA AutoChoice ==
  ASSUME NEW o \in [F!Ids -> F!Observation \cup {None}], NEW i \in F!Live(o)
  PROVE  F!AutoChosen(o, i) \in F!Choice
<1>1. i \in F!Ids /\ o[i] \in F!Observation
  BY DEF F!Live
<1> QED BY <1>1 DEF F!AutoChosen, F!Choice, F!Observation

(* Readings that may be chosen when they are added: a NaN is among them.    *)
Valued(o, fact) == {i \in F!Live(o) : o[i].fact = fact /\ o[i].value # None}

LEMMA ReadingsValued ==
  ASSUME NEW o, NEW fact
  PROVE  /\ F!Readings(o, fact) \subseteq Valued(o, fact)
         /\ \A i \in Valued(o, fact) : o[i].value # NaN => i \in F!Readings(o, fact)
  BY DEF F!Readings, Valued, F!Null

(* What a choice may become when readings are added.                        *)
KeepsOrTakes(c, o) ==
  /\ c = [fact \in F!Facts |-> c[fact]]
  /\ \A fact \in F!Facts :
       \/ c[fact] = canonical[fact]
       \/ canonical[fact] = None /\ \E i \in Valued(o, fact) : c[fact] = F!AutoChosen(o, i)

LEMMA ChosenTakes ==
  ASSUME MaxObs \in Nat, NEW o, NEW c \in {F!ChosenOnAdd(o), F!ChosenInBulk(o)}
  PROVE  KeepsOrTakes(c, o)
<1>1. \A fact : Valued(o, fact) \subseteq F!Ids /\ F!Readings(o, fact) \subseteq F!Ids
  BY DEF Valued, F!Readings, F!Live
<1>2. CASE c = F!ChosenInBulk(o)
  <2>1. \A fact \in F!Facts : F!Readings(o, fact) # {} => F!First(F!Readings(o, fact)) \in F!Readings(o, fact)
    BY <1>1, FirstOf
  <2> QED BY <1>2, <2>1, ReadingsValued DEF F!ChosenInBulk, KeepsOrTakes
<1>3. CASE c = F!ChosenOnAdd(o)
  <2> DEFINE new(fact) == {i \in F!Live(o) : o[i].fact = fact /\ o[i].value # None /\ i >= nextObs}
  <2>1. ASSUME NEW fact \in F!Facts, new(fact) # {} PROVE F!First(new(fact)) \in Valued(o, fact)
    <3>1. new(fact) \in SUBSET F!Ids
      BY DEF F!Live
    <3>2. F!First(new(fact)) \in new(fact)
      BY <2>1, <3>1, FirstOf
    <3> QED BY <3>2 DEF Valued
  <2>2. c = [fact \in F!Facts |->
               IF canonical[fact] = None /\ new(fact) # {} THEN F!AutoChosen(o, F!First(new(fact)))
               ELSE canonical[fact]]
    BY <1>3 DEF F!ChosenOnAdd
  <2> HIDE DEF new
  <2> QED BY <2>1, <2>2 DEF KeepsOrTakes
<1> QED BY <1>2, <1>3

-----------------------------------------------------------------------------
(* Adding readings.                                                         *)

LEMMA DerivedRowsOf ==
  ASSUME F!Distinct, FactsInv, NEW fs \in SUBSET F!Stored, NEW cs \in SUBSET Concepts,
         NEW inSql \in BOOLEAN
  PROVE  /\ F!IsFiniteSet(F!DerivedRows(fs, cs, inSql)) /\ F!DerivedRows(fs, cs, inSql) \subseteq F!Observation
         /\ \A r \in F!DerivedRows(fs, cs, inSql) : r.filing \in fs /\ r.filing[1] = r.fact[1]
<1> DEFINE P == {q \in fs \X cs : F!Missing(q[1], q[2])}
           g == [p \in P |-> F!DerivedRow(p[1], p[2], inSql)]
<1>1. F!IsFiniteSet(F!Filings)
  <2>1. F!IsFiniteSet(Forms \cup {"FIN"})
    BY FS_AddElement, FiniteSame, CardinalitySame DEF F!Distinct
  <2> QED BY <2>1, FS_Product, FiniteSame, CardinalitySame DEF F!Distinct, F!Filings
<1>2. F!IsFiniteSet(P)
  <2>1. fs \in SUBSET F!Filings
    BY DEF F!Stored
  <2>2. F!IsFiniteSet(fs) /\ F!IsFiniteSet(cs)
    BY <1>1, <2>1, FS_Subset, FiniteSame, CardinalitySame DEF F!Distinct
  <2> QED BY <2>2, FS_Product, FS_Subset, FiniteSame, CardinalitySame
<1>3. F!DerivedRows(fs, cs, inSql) = {g[p] : p \in P}
  BY DEF F!DerivedRows
<1>4. F!IsFiniteSet(F!DerivedRows(fs, cs, inSql))
  <2> HIDE DEF P, g
  <2> QED BY <1>2, <1>3, ImageFinite
<1>5. ASSUME NEW f \in fs, NEW c \in cs
      PROVE  /\ F!DerivedRow(f, c, inSql) \in F!Observation
             /\ F!DerivedRow(f, c, inSql).filing = f /\ F!DerivedRow(f, c, inSql).fact[1] = f[1]
  <2>1. f \in F!Filings /\ f[1] \in Periods /\ filing[f] \in [Concepts -> F!Raw]
    BY DEF F!Stored, FactsInv, F!TypeOK, F!Filings
  <2>2. filing[f][c] \in F!Raw
    BY <2>1
  <2>3. F!Number(filing[f][c], inSql) \in F!Cell
    BY <2>2 DEF F!Number, F!Raw, F!Cell, F!Null
  <2>4. <<f[1], c>> \in F!Facts
    BY <2>1 DEF F!Facts
  <2> QED BY <2>1, <2>3, <2>4 DEF F!DerivedRow, F!Observation, F!Sources
<1>6. \A r \in F!DerivedRows(fs, cs, inSql) : \E f \in fs, c \in cs : r = F!DerivedRow(f, c, inSql)
  BY DEF F!DerivedRows
<1> QED BY <1>4, <1>5, <1>6

(* A step that adds readings of stored filings, and takes a choice from     *)
(* them where there was none, keeps the invariant.                          *)
LEMMA AddedStep ==
  ASSUME F!Distinct, FactsInv, NEW rows, Adds(obs', rows), KeepsOrTakes(canonical', obs'),
         nextObs' \in 1..(MaxObs + 1), nextObs' = nextObs + F!Cardinality(rows),
         filing' \in [F!Filings -> [Concepts -> F!Raw] \cup {None}],
         F!Stored \subseteq F!Stored', documented' \subseteq F!Stored',
         \A r \in rows : r.filing \in F!Stored' /\ r.filing[1] = r.fact[1],
         bulk' \in [phase: {"none", "cut", "observations", "canonical"}, left: SUBSET Concepts],
         mixed' \subseteq F!Facts, marker' = marker
  PROVE  FactsInv'
<1>1. F!Live(obs) \subseteq F!Live(obs') /\ \A i \in F!Live(obs) : obs'[i] = obs[i]
  BY DEF Adds, F!Live
<1>2. obs' \in [F!Ids -> F!Observation \cup {None}]
  BY DEF Adds
<1>3. ASSUME NEW fact \in F!Facts, canonical'[fact] # canonical[fact]
      PROVE  \E i \in F!Live(obs') : canonical'[fact] = F!AutoChosen(obs', i) /\ obs'[i].fact = fact
  BY <1>3 DEF KeepsOrTakes, Valued
<1>4. F!TypeOK'
  <2>1. ASSUME NEW fact \in F!Facts PROVE canonical'[fact] \in F!Choice \cup {None}
    <3>1. CASE canonical'[fact] = canonical[fact]
      BY <3>1 DEF FactsInv, F!TypeOK
    <3>2. CASE canonical'[fact] # canonical[fact]
      BY <1>2, <1>3, <3>2, AutoChoice
    <3> QED BY <3>1, <3>2
  <2>2. canonical' \in [F!Facts -> F!Choice \cup {None}]
    BY <2>1 DEF KeepsOrTakes
  <2>3. documented' \subseteq F!Filings
    BY DEF F!Stored
  <2>4. marker' \in BOOLEAN
    BY DEF FactsInv, F!TypeOK
  <2> QED BY <1>2, <2>2, <2>3, <2>4 DEF F!TypeOK
<1>5. Numbering'
  BY DEF Adds, Numbering
<1>6. Anchoring'
  <2>1. ASSUME NEW i \in F!Live(obs')
        PROVE  obs'[i].filing \in F!Stored' /\ obs'[i].filing[1] = obs'[i].fact[1]
    <3>1. CASE i \in F!Live(obs)
      BY <1>1, <3>1 DEF FactsInv, Anchoring
    <3>2. CASE i \notin F!Live(obs)
      BY <3>2 DEF Adds
    <3> QED BY <3>1, <3>2
  <2> QED BY <2>1 DEF Anchoring, F!Live
<1>7. Matching'
  <2>1. ASSUME NEW fact \in F!Facts, canonical'[fact] # None
        PROVE  /\ canonical'[fact].obs \in F!Live(obs') /\ obs'[canonical'[fact].obs].fact = fact
               /\ \/ canonical'[fact].value = obs'[canonical'[fact].obs].value
                  \/ ~marker' /\ canonical'[fact].value = None /\ obs'[canonical'[fact].obs].value \notin F!Null
    <3>1. CASE canonical'[fact] = canonical[fact]
      BY <1>1, <2>1, <3>1 DEF FactsInv, Matching
    <3>2. CASE canonical'[fact] # canonical[fact]
      <4>1. PICK i \in F!Live(obs') : canonical'[fact] = F!AutoChosen(obs', i) /\ obs'[i].fact = fact
        BY <1>3, <3>2
      <4>2. canonical'[fact].obs = i /\ canonical'[fact].value = obs'[i].value
        BY <4>1 DEF F!AutoChosen
      <4> QED BY <4>1, <4>2
    <3> QED BY <3>1, <3>2
  <2> QED BY <2>1 DEF Matching, F!Live
<1> QED BY <1>4, <1>5, <1>6, <1>7 DEF FactsInv

LEMMA NothingAdded == ASSUME F!Distinct, FactsInv PROVE Adds(obs, {}) /\ nextObs = nextObs + F!Cardinality({})
<1>1. F!Cardinality({}) = 0 /\ nextObs \in Nat
  BY FS_EmptySet, FiniteSame, CardinalitySame DEF FactsInv, F!TypeOK, F!Distinct
<1> QED BY <1>1 DEF Adds, FactsInv, Numbering, F!TypeOK

LEMMA SameChoice == ASSUME FactsInv, NEW o PROVE KeepsOrTakes(canonical, o)
  BY DEF FactsInv, F!TypeOK, KeepsOrTakes

LEMMA AnchoredFiling ==
  ASSUME F!Distinct, FactsInv, NEW p \in Periods, NEW f \in F!Anchors(p), filing' = F!Anchored(f)
  PROVE  /\ f \in F!Filings /\ f[1] = p
         /\ filing' \in [F!Filings -> [Concepts -> F!Raw] \cup {None}]
         /\ F!Stored \subseteq F!Stored' /\ f \in F!Stored'
<1>1. f \in F!Filings /\ f[1] = p
  BY DEF F!Anchors, F!Stored, F!Filings
<1>2. [c \in Concepts |-> None] \in [Concepts -> F!Raw]
  BY DEF F!Raw
<1>3. [c \in Concepts |-> None] # None
  BY <1>2 DEF F!Distinct
<1>4. filing \in [F!Filings -> [Concepts -> F!Raw] \cup {None}]
  BY DEF FactsInv, F!TypeOK
<1> HIDE DEF F!Filings
<1> QED BY <1>1, <1>2, <1>3, <1>4 DEF F!Anchored, F!Stored

LEMMA DeriveSafe ==
  ASSUME F!Distinct, FactsInv, F!Derive, UNCHANGED marker
  PROVE  FactsInv' /\ \E rows : Adds(obs', rows)
<1> DEFINE real == {f \in F!Stored : F!Real(f)}
<1>0. PICK inSql \in BOOLEAN :
        LET rows == F!DerivedRows(real, Concepts, inSql) IN
        /\ F!Room(rows) /\ documented' = documented \cup real
        /\ \E o \in F!Numbered(rows) :
             /\ obs' = o
             /\ canonical' = (IF inSql THEN F!ChosenInBulk(o) ELSE F!ChosenOnAdd(o))
             /\ F!Noted(o)
        /\ nextObs' = nextObs + F!Cardinality(rows) /\ UNCHANGED <<filing, bulk>>
  BY DEF F!Derive
<1> DEFINE rows == F!DerivedRows(real, Concepts, inSql)
<1>1. /\ F!Room(rows) /\ documented' = documented \cup real /\ obs' \in F!Numbered(rows)
      /\ canonical' \in {F!ChosenOnAdd(obs'), F!ChosenInBulk(obs')} /\ F!Noted(obs')
      /\ nextObs' = nextObs + F!Cardinality(rows) /\ UNCHANGED <<filing, bulk>>
  BY <1>0
<1>2. /\ F!IsFiniteSet(rows) /\ rows \subseteq F!Observation /\ F!Stored' = F!Stored
      /\ \A r \in rows : r.filing \in F!Stored /\ r.filing[1] = r.fact[1]
  BY <1>1, DerivedRowsOf DEF F!Stored
<1> HIDE DEF rows
<1>3. Adds(obs', rows) /\ nextObs' \in 1..(MaxObs + 1)
  BY <1>1, <1>2, NumberedAdds
<1>4. KeepsOrTakes(canonical', obs')
  BY <1>1, ChosenTakes DEF F!Distinct
<1>5. mixed' \subseteq F!Facts
  BY <1>1, <1>3 DEF F!Noted, Adds, F!Live, F!Observation, FactsInv, F!TypeOK
<1>6. documented' \subseteq F!Stored'
  BY <1>1, <1>2 DEF FactsInv, Anchoring
<1> QED BY <1>1, <1>2, <1>3, <1>4, <1>5, <1>6, AddedStep DEF FactsInv, F!TypeOK

LEMMA RecordSafe ==
  ASSUME F!Distinct, FactsInv, NEW p \in Periods, NEW source \in F!Sources,
         NEW data \in [Concepts -> F!Raw \ {Junk}], F!Record(p, source, data), UNCHANGED marker
  PROVE  FactsInv' /\ \E rows : Adds(obs', rows)
<1> DEFINE row(f, c) == [fact |-> <<p, c>>, source |-> source, filing |-> f, value |-> F!Number(data[c], FALSE)]
           given == {d \in Concepts : data[d] # None}
           rows(f) == {row(f, c) : c \in given}
<1>1. PICK f \in F!Anchors(p) :
        /\ F!Room(rows(f)) /\ filing' = F!Anchored(f) /\ obs' \in F!Numbered(rows(f))
        /\ canonical' = F!ChosenOnAdd(obs') /\ F!Noted(obs')
        /\ nextObs' = nextObs + F!Cardinality(rows(f)) /\ UNCHANGED <<documented, bulk>>
  BY DEF F!Record
<1>2. /\ f \in F!Filings /\ f[1] = p /\ filing' \in [F!Filings -> [Concepts -> F!Raw] \cup {None}]
      /\ F!Stored \subseteq F!Stored' /\ f \in F!Stored'
  BY <1>1, AnchoredFiling
<1>3. F!IsFiniteSet(rows(f))
  <2> DEFINE g == [c \in given |-> row(f, c)]
  <2>1. rows(f) = {g[c] : c \in given}
    OBVIOUS
  <2>2. F!IsFiniteSet(given)
    BY FS_Subset, FiniteSame, CardinalitySame DEF F!Distinct
  <2> HIDE DEF g, given
  <2>3. F!IsFiniteSet({g[c] : c \in given})
    BY <2>2, ImageFinite
  <2> QED BY <2>1, <2>3
<1>4. ASSUME NEW r \in rows(f)
      PROVE  r \in F!Observation /\ r.filing \in F!Stored' /\ r.filing[1] = r.fact[1]
  <2>1. PICK c \in given : r = row(f, c)
    OBVIOUS
  <2>2. data[c] \in F!Raw /\ <<p, c>> \in F!Facts
    BY DEF F!Facts
  <2>3. F!Number(data[c], FALSE) \in F!Cell
    BY <2>2 DEF F!Number, F!Raw, F!Cell, F!Null
  <2> QED BY <1>2, <2>1, <2>2, <2>3 DEF F!Observation
<1> HIDE DEF rows
<1>5. Adds(obs', rows(f)) /\ nextObs' \in 1..(MaxObs + 1)
  BY <1>1, <1>3, <1>4, NumberedAdds
<1>6. KeepsOrTakes(canonical', obs')
  BY <1>1, ChosenTakes DEF F!Distinct
<1>7. mixed' \subseteq F!Facts
  BY <1>1, <1>5 DEF F!Noted, Adds, F!Live, F!Observation, FactsInv, F!TypeOK
<1>8. documented' \subseteq F!Stored'
  BY <1>1, <1>2 DEF FactsInv, Anchoring
<1> QED BY <1>1, <1>2, <1>4, <1>5, <1>6, <1>7, <1>8, AddedStep DEF FactsInv, F!TypeOK

LEMMA BulkObservationsSafe ==
  ASSUME F!Distinct, FactsInv, NEW c \in Concepts, F!BulkObservations(c), UNCHANGED marker
  PROVE  FactsInv' /\ \E rows : Adds(obs', rows)
<1> DEFINE rows == F!DerivedRows(documented, {c}, TRUE)
           left == bulk.left \ {c}
<1>1. /\ F!Room(rows) /\ obs' \in F!Numbered(rows) /\ nextObs' = nextObs + F!Cardinality(rows)
      /\ bulk' = (IF left = {} THEN F!Bulk("canonical") ELSE [bulk EXCEPT !.left = left])
      /\ UNCHANGED <<filing, documented, canonical, mixed>>
  BY DEF F!BulkObservations
<1>2. documented \in SUBSET F!Stored
  BY DEF FactsInv, Anchoring
<1>3. /\ F!IsFiniteSet(rows) /\ rows \subseteq F!Observation /\ F!Stored' = F!Stored
      /\ \A r \in rows : r.filing \in F!Stored /\ r.filing[1] = r.fact[1]
  BY <1>1, <1>2, DerivedRowsOf DEF F!Stored
<1> HIDE DEF rows
<1>4. Adds(obs', rows) /\ nextObs' \in 1..(MaxObs + 1)
  BY <1>1, <1>3, NumberedAdds
<1>5. bulk' \in [phase: {"none", "cut", "observations", "canonical"}, left: SUBSET Concepts]
  BY <1>1 DEF FactsInv, F!TypeOK, F!Bulk
<1>6. KeepsOrTakes(canonical', obs')
  BY <1>1, SameChoice
<1> QED BY <1>1, <1>2, <1>3, <1>4, <1>5, <1>6, AddedStep DEF FactsInv, F!TypeOK

(* No reading is added.                                                     *)
LEMMA QuietSafe ==
  ASSUME F!Distinct, FactsInv, UNCHANGED marker,
         \/ \E f \in F!Filings : F!Store(f)
         \/ F!BulkDocuments \/ F!BulkCanonical \/ F!BulkDies
  PROVE  FactsInv'
<1>1. /\ obs' = obs /\ nextObs' = nextObs
      /\ canonical' \in {canonical, F!ChosenInBulk(obs)}
      /\ mixed' \in {mixed, F!Facts}
  BY DEF F!Store, F!BulkDocuments, F!BulkCanonical, F!BulkDies, F!tables
<1>2. filing' \in [F!Filings -> [Concepts -> F!Raw] \cup {None}] /\ F!Stored \subseteq F!Stored'
  <2>1. CASE filing' = filing
    BY <2>1 DEF FactsInv, F!TypeOK, F!Stored
  <2>2. CASE \E f \in F!Filings : F!Store(f)
    <3>1. PICK f \in F!Filings, data \in [Concepts -> F!Raw] : filing' = [filing EXCEPT ![f] = data]
      BY <2>2 DEF F!Store
    <3>2. data # None
      BY DEF F!Distinct
    <3> QED BY <3>1, <3>2 DEF FactsInv, F!TypeOK, F!Stored
  <2> QED BY <2>1, <2>2 DEF F!BulkDocuments, F!BulkCanonical, F!BulkDies, F!tables
<1>3. documented' \subseteq F!Stored'
  BY <1>2 DEF FactsInv, Anchoring, F!Store, F!BulkDocuments, F!BulkCanonical, F!BulkDies,
        F!tables
<1>4. bulk' \in [phase: {"none", "cut", "observations", "canonical"}, left: SUBSET Concepts]
  BY DEF FactsInv, F!TypeOK, F!Bulk, F!Store, F!BulkDocuments, F!BulkCanonical, F!BulkDies
<1>5. KeepsOrTakes(canonical', obs')
  BY <1>1, SameChoice, ChosenTakes DEF F!Distinct
<1> QED BY <1>1, <1>2, <1>3, <1>4, <1>5, NothingAdded, AddedStep DEF FactsInv, F!TypeOK

-----------------------------------------------------------------------------
(* Losing readings, choosing and editing.                                   *)

(* After a purge a choice is what it was, or the first reading left.        *)
Left(lost) == [i \in F!Ids |-> IF i \in lost THEN None ELSE obs[i]]
LEMMA PurgeChoices ==
  ASSUME F!Distinct, FactsInv, NEW fs, F!Purge(fs)
  PROVE  \E lost \in SUBSET F!Live(obs) :
           /\ lost = {i \in F!Live(obs) : obs[i].filing \in fs}
           /\ obs' = Left(lost) /\ canonical' = F!Recanonical(obs', lost)
           /\ obs' \in [F!Ids -> F!Observation \cup {None}]
           /\ F!Live(obs') = F!Live(obs) \ lost /\ \A i \in F!Live(obs') : obs'[i] = obs[i]
           /\ \A fact : F!Readings(obs', fact) = F!Readings(obs, fact) \ lost
<1> DEFINE lost == {i \in F!Live(obs) : obs[i].filing \in fs}
<1>1. obs' = Left(lost) /\ canonical' = F!Recanonical(obs', lost)
  BY DEF F!Purge, Left
<1> HIDE DEF lost
<1>2. obs' \in [F!Ids -> F!Observation \cup {None}]
  BY <1>1 DEF Left, FactsInv, F!TypeOK
<1>3. F!Live(obs') = F!Live(obs) \ lost /\ \A i \in F!Live(obs') : obs'[i] = obs[i]
  BY <1>1 DEF Left, F!Live
<1>4. \A fact : F!Readings(obs', fact) = F!Readings(obs, fact) \ lost
  BY <1>3 DEF F!Readings
<1>5. lost \in SUBSET F!Live(obs) /\ lost = {i \in F!Live(obs) : obs[i].filing \in fs}
  BY DEF lost
<1> QED BY <1>1, <1>2, <1>3, <1>4, <1>5

LEMMA RecanonicalOf ==
  ASSUME F!Distinct, FactsInv, NEW o, NEW lost, NEW fact \in F!Facts
  PROVE  \/ /\ F!Recanonical(o, lost)[fact] = canonical[fact]
            /\ canonical[fact] = None \/ canonical[fact].obs \notin lost
         \/ /\ F!Recanonical(o, lost)[fact] = None /\ F!Readings(o, fact) = {}
            /\ canonical[fact] = None \/ canonical[fact].obs \in lost
         \/ /\ F!First(F!Readings(o, fact)) \in F!Readings(o, fact)
            /\ F!Recanonical(o, lost)[fact] = F!AutoChosen(o, F!First(F!Readings(o, fact)))
            /\ canonical[fact] = None \/ canonical[fact].obs \in lost
<1> DEFINE c == canonical[fact]
           touched == \E i \in lost : obs[i].fact = fact
<1>1. F!Recanonical(o, lost)[fact] =
        IF touched /\ (c = None \/ c.obs \in lost)
        THEN IF F!Readings(o, fact) = {} THEN None ELSE F!AutoChosen(o, F!First(F!Readings(o, fact)))
        ELSE c
  BY DEF F!Recanonical
<1>2. F!Readings(o, fact) # {} => F!First(F!Readings(o, fact)) \in F!Readings(o, fact)
  BY FirstOf DEF F!Distinct, F!Readings, F!Live
<1>3. c # None /\ c.obs \in lost => touched
  BY DEF FactsInv, Matching
<1> HIDE DEF c, touched
<1>4. \/ F!Recanonical(o, lost)[fact] = c /\ (c = None \/ c.obs \notin lost)
      \/ /\ F!Recanonical(o, lost)[fact] = None /\ F!Readings(o, fact) = {}
         /\ c = None \/ c.obs \in lost
      \/ /\ F!First(F!Readings(o, fact)) \in F!Readings(o, fact)
         /\ F!Recanonical(o, lost)[fact] = F!AutoChosen(o, F!First(F!Readings(o, fact)))
         /\ c = None \/ c.obs \in lost
  BY <1>1, <1>2, <1>3
<1> QED BY <1>4 DEF c

LEMMA PurgeSafe ==
  ASSUME F!Distinct, FactsInv, NEW fs, F!Purge(fs), UNCHANGED marker
  PROVE  FactsInv'
<1>1. PICK lost \in SUBSET F!Live(obs) :
           /\ lost = {i \in F!Live(obs) : obs[i].filing \in fs}
           /\ obs' = Left(lost) /\ canonical' = F!Recanonical(obs', lost)
           /\ obs' \in [F!Ids -> F!Observation \cup {None}]
           /\ F!Live(obs') = F!Live(obs) \ lost /\ \A i \in F!Live(obs') : obs'[i] = obs[i]
           /\ \A fact : F!Readings(obs', fact) = F!Readings(obs, fact) \ lost
  BY PurgeChoices
<1>2. /\ filing' = [f \in F!Filings |-> IF f \in fs THEN None ELSE filing[f]]
      /\ documented' = documented \ fs /\ UNCHANGED <<nextObs, bulk, mixed>>
  BY DEF F!Purge
<1>3. F!Stored' = F!Stored \ fs /\ filing' \in [F!Filings -> [Concepts -> F!Raw] \cup {None}]
  BY <1>2 DEF F!Stored, FactsInv, F!TypeOK
<1>4. ASSUME NEW fact \in F!Facts
      PROVE  /\ canonical'[fact] \in F!Choice \cup {None}
             /\ canonical'[fact] # None =>
                  /\ canonical'[fact].obs \in F!Live(obs') /\ obs'[canonical'[fact].obs].fact = fact
                  /\ \/ canonical'[fact].value = obs'[canonical'[fact].obs].value
                     \/ ~marker' /\ canonical'[fact].value = None /\ obs'[canonical'[fact].obs].value \notin F!Null
  <2>1. CASE canonical'[fact] = canonical[fact] /\ (canonical[fact] = None \/ canonical[fact].obs \notin lost)
    BY <1>1, <2>1 DEF FactsInv, F!TypeOK, Matching
  <2>2. CASE canonical'[fact] = None
    BY <2>2
  <2>3. CASE \E i \in F!Readings(obs', fact) : canonical'[fact] = F!AutoChosen(obs', i)
    <3>1. PICK i \in F!Live(obs') : obs'[i].fact = fact /\ canonical'[fact] = F!AutoChosen(obs', i)
      BY <2>3 DEF F!Readings
    <3>2. canonical'[fact] \in F!Choice
      BY <1>1, <3>1, AutoChoice
    <3>3. canonical'[fact].obs = i /\ canonical'[fact].value = obs'[i].value
      BY <3>1 DEF F!AutoChosen
    <3> QED BY <3>1, <3>2, <3>3
  <2>4. \/ canonical'[fact] = canonical[fact] /\ (canonical[fact] = None \/ canonical[fact].obs \notin lost)
        \/ canonical'[fact] = None
        \/ \E i \in F!Readings(obs', fact) : canonical'[fact] = F!AutoChosen(obs', i)
    <3> DEFINE o == obs'
               c == F!Recanonical(o, lost)[fact]
    <3>1. \/ c = canonical[fact] /\ (canonical[fact] = None \/ canonical[fact].obs \notin lost)
          \/ c = None
          \/ \E i \in F!Readings(o, fact) : c = F!AutoChosen(o, i)
      <4> HIDE DEF o
      <4> QED BY RecanonicalOf
    <3>2. c = canonical'[fact]
      BY <1>1
    <3> HIDE DEF c
    <3> QED BY <3>1, <3>2
  <2> QED BY <2>1, <2>2, <2>3, <2>4
<1>5. canonical' \in [F!Facts -> F!Choice \cup {None}]
  BY <1>1, <1>4 DEF F!Recanonical
<1>6. F!TypeOK'
  BY <1>1, <1>2, <1>3, <1>5 DEF FactsInv, F!TypeOK
<1>7. Numbering'
  BY <1>1, <1>2 DEF FactsInv, Numbering
<1>8. Anchoring'
  <2>1. \A i \in F!Live(obs') : obs'[i].filing \in F!Stored' /\ obs'[i].filing[1] = obs'[i].fact[1]
    BY <1>1, <1>3 DEF FactsInv, Anchoring
  <2> QED BY <1>2, <1>3, <2>1 DEF FactsInv, Anchoring, F!Live
<1>9. Matching'
  BY <1>4 DEF Matching, F!Live
<1> QED BY <1>6, <1>7, <1>8, <1>9 DEF FactsInv

(* A choice somebody makes of a reading that has been stored.               *)
LEMMA ChosenByHand ==
  ASSUME F!Distinct, FactsInv, NEW fact \in F!Facts, NEW i \in F!Live(obs'), NEW who \in Editors,
         canonical' = [canonical EXCEPT ![fact] = [obs |-> i, value |-> obs'[i].value, by |-> who]],
         obs' \in [F!Ids -> F!Observation \cup {None}], obs'[i].fact = fact,
         F!Live(obs) \subseteq F!Live(obs'),
         \A j \in F!Live(obs) : /\ j # i => obs'[j] = obs[j]
                              /\ obs'[j].fact = obs[j].fact /\ obs'[j].filing = obs[j].filing,
         \A j \in F!Live(obs') \ F!Live(obs) :
           obs'[j].filing \in F!Stored' /\ obs'[j].filing[1] = obs'[j].fact[1],
         F!Stored \subseteq F!Stored', filing' \in [F!Filings -> [Concepts -> F!Raw] \cup {None}],
         nextObs <= nextObs', nextObs' \in 1..(MaxObs + 1),
         \A j \in F!Live(obs') \ F!Live(obs) : j < nextObs',
         mixed' \subseteq F!Facts, UNCHANGED <<documented, bulk, marker>>
  PROVE  FactsInv'
<1> DEFINE made == [obs |-> i, value |-> obs'[i].value, by |-> who]
<1>1. made \in F!Choice /\ made.obs = i /\ made.value = obs'[i].value
  BY DEF F!Choice, F!Live, F!Observation
<1>2. \A g \in F!Facts : canonical'[g] = IF g = fact THEN made ELSE canonical[g]
  BY DEF FactsInv, F!TypeOK
<1> HIDE DEF made
<1>3. canonical' \in [F!Facts -> F!Choice \cup {None}]
  BY <1>1, <1>2 DEF FactsInv, F!TypeOK
<1>4. F!TypeOK'
  BY <1>3 DEF FactsInv, F!TypeOK, F!Stored
<1>5. Numbering'
  BY <1>4 DEF FactsInv, Numbering, F!TypeOK, F!Live, F!Ids, F!Distinct
<1>6. Anchoring'
  <2>1. ASSUME NEW j \in F!Live(obs')
        PROVE  obs'[j].filing \in F!Stored' /\ obs'[j].filing[1] = obs'[j].fact[1]
    BY DEF FactsInv, Anchoring
  <2> QED BY <2>1 DEF FactsInv, Anchoring, F!Live
<1>7. ASSUME NEW g \in F!Facts, canonical'[g] # None
      PROVE  /\ canonical'[g].obs \in F!Live(obs') /\ obs'[canonical'[g].obs].fact = g
             /\ \/ canonical'[g].value = obs'[canonical'[g].obs].value
                \/ ~marker' /\ canonical'[g].value = None /\ obs'[canonical'[g].obs].value \notin F!Null
  <2>1. CASE g = fact
    BY <1>1, <1>2, <2>1
  <2>2. CASE g # fact
    <3>1. canonical'[g] = canonical[g] /\ canonical[g].obs \in F!Live(obs) /\ obs[canonical[g].obs].fact = g
      BY <1>2, <1>7, <2>2 DEF FactsInv, Matching
    <3>2. canonical[g].obs # i
      BY <2>2, <3>1
    <3> QED BY <1>7, <3>1, <3>2 DEF FactsInv, Matching
  <2> QED BY <2>1, <2>2
<1>8. Matching'
  BY <1>7 DEF Matching, F!Live
<1> QED BY <1>4, <1>5, <1>6, <1>8 DEF FactsInv

LEMMA SetCanonicalSafe ==
  ASSUME F!Distinct, FactsInv, NEW i \in F!Ids, NEW who \in Editors, F!SetCanonical(i, who), UNCHANGED marker
  PROVE  FactsInv'
<1>1. /\ i \in F!Live(obs)
      /\ canonical' = [canonical EXCEPT ![obs[i].fact] = [obs |-> i, value |-> obs[i].value, by |-> who]]
      /\ UNCHANGED <<filing, documented, obs, nextObs, bulk, mixed>>
  BY DEF F!SetCanonical, F!Live
<1>2. obs[i].fact \in F!Facts /\ obs' = obs /\ F!Live(obs') = F!Live(obs) /\ F!Stored' = F!Stored
  BY <1>1 DEF FactsInv, F!TypeOK, F!Live, F!Observation, F!Stored
<1>3. /\ nextObs <= nextObs' /\ nextObs' \in 1..(MaxObs + 1) /\ mixed' \subseteq F!Facts
      /\ filing' \in [F!Filings -> [Concepts -> F!Raw] \cup {None}]
      /\ obs' \in [F!Ids -> F!Observation \cup {None}]
  BY <1>1 DEF FactsInv, F!TypeOK, F!Distinct
<1> QED BY <1>1, <1>2, <1>3, ChosenByHand

LEMMA ManualFirst ==
  ASSUME F!Distinct, NEW fact, F!Manual(fact) # {} PROVE F!First(F!Manual(fact)) \in F!Manual(fact)
  BY FirstOf DEF F!Distinct, F!Manual, F!Live

EditedAt(i, fact, v, who) ==
  /\ obs[i].fact = fact /\ obs' = [obs EXCEPT ![i].value = v]
  /\ obs' \in [F!Ids -> F!Observation \cup {None}] /\ F!Live(obs') = F!Live(obs)
  /\ \A j \in F!Live(obs) : /\ j # i => obs'[j] = obs[j]
                           /\ obs'[j].fact = obs[j].fact /\ obs'[j].filing = obs[j].filing
  /\ obs'[i].value = v
  /\ canonical' = [canonical EXCEPT ![fact] = [obs |-> i, value |-> v, by |-> who]]

LEMMA EditedReading ==
  ASSUME F!Distinct, FactsInv, NEW fact \in F!Facts, NEW v \in Values \cup {NaN}, NEW who \in Editors,
         F!Edit(fact, v, who)
  PROVE  \E i \in F!Live(obs) : EditedAt(i, fact, v, who)
<1> DEFINE i == F!First(F!Manual(fact))
<1>1. /\ F!Manual(fact) # {} /\ obs' = [obs EXCEPT ![i].value = v]
      /\ canonical' = [canonical EXCEPT ![fact] = [obs |-> i, value |-> v, by |-> who]]
  BY DEF F!Edit
<1>2. i \in F!Live(obs) /\ obs[i].fact = fact
  BY <1>1, ManualFirst DEF F!Manual
<1> HIDE DEF i
<1>3. i \in F!Ids /\ obs[i] \in F!Observation /\ obs \in [F!Ids -> F!Observation \cup {None}]
  BY <1>2 DEF F!Live, FactsInv, F!TypeOK
<1>4. obs'[i] = [obs[i] EXCEPT !.value = v] /\ \A j \in F!Ids : j # i => obs'[j] = obs[j]
  BY <1>1, <1>3
<1>5. /\ obs'[i] \in F!Observation /\ obs'[i].fact = obs[i].fact /\ obs'[i].filing = obs[i].filing
      /\ obs'[i].value = v
  BY <1>3, <1>4 DEF F!Observation, F!Cell, F!Null
<1>6. obs' \in [F!Ids -> F!Observation \cup {None}] /\ F!Live(obs') = F!Live(obs)
  <2>1. \A j \in F!Ids : obs'[j] \in F!Observation \cup {None} /\ (obs'[j] # None <=> obs[j] # None)
    BY <1>2, <1>3, <1>4, <1>5 DEF F!Distinct, F!Live
  <2> QED BY <1>1, <1>3, <2>1 DEF F!Live
<1> QED BY <1>1, <1>2, <1>4, <1>5, <1>6 DEF F!Live, EditedAt

LEMMA EditSafe ==
  ASSUME F!Distinct, FactsInv, NEW fact \in F!Facts, NEW v \in Values \cup {NaN}, NEW who \in Editors,
         F!Edit(fact, v, who), UNCHANGED marker
  PROVE  FactsInv'
<1>0. PICK i \in F!Live(obs) : EditedAt(i, fact, v, who)
  BY EditedReading
<1>1. /\ obs[i].fact = fact /\ obs' = [obs EXCEPT ![i].value = v]
      /\ obs' \in [F!Ids -> F!Observation \cup {None}] /\ F!Live(obs') = F!Live(obs)
      /\ \A j \in F!Live(obs) : /\ j # i => obs'[j] = obs[j]
                             /\ obs'[j].fact = obs[j].fact /\ obs'[j].filing = obs[j].filing
      /\ obs'[i].value = v
      /\ canonical' = [canonical EXCEPT ![fact] = [obs |-> i, value |-> v, by |-> who]]
  BY <1>0 DEF EditedAt
<1>2. UNCHANGED <<filing, documented, nextObs, bulk, mixed>> /\ F!Stored' = F!Stored
  BY DEF F!Edit, F!Stored
<1>3. i \in F!Live(obs') /\ obs'[i].fact = fact /\ F!Live(obs') \ F!Live(obs) = {}
  BY <1>1
<1>4. /\ nextObs <= nextObs' /\ nextObs' \in 1..(MaxObs + 1) /\ mixed' \subseteq F!Facts
      /\ filing' \in [F!Filings -> [Concepts -> F!Raw] \cup {None}]
  BY <1>2 DEF FactsInv, F!TypeOK, F!Distinct
<1>5. canonical' = [canonical EXCEPT ![fact] = [obs |-> i, value |-> obs'[i].value, by |-> who]]
  BY <1>1
<1>6. \A j \in F!Live(obs) : /\ j # i => obs'[j] = obs[j]
                           /\ obs'[j].fact = obs[j].fact /\ obs'[j].filing = obs[j].filing
  BY <1>1
<1>7. obs' \in [F!Ids -> F!Observation \cup {None}] /\ F!Live(obs) \subseteq F!Live(obs')
  BY <1>1
<1> QED BY <1>2, <1>3, <1>4, <1>5, <1>6, <1>7, ChosenByHand

LEMMA EnteredReading ==
  ASSUME F!Distinct, FactsInv, NEW fact \in F!Facts, NEW v \in Values \cup {NaN}, NEW who \in Editors,
         F!EnterFirst(fact, v, who)
  PROVE  /\ nextObs \in F!Ids /\ nextObs \notin F!Live(obs) /\ F!Live(obs') = F!Live(obs) \cup {nextObs}
         /\ obs' \in [F!Ids -> F!Observation \cup {None}]
         /\ \A j \in F!Ids : j # nextObs => obs'[j] = obs[j]
         /\ obs'[nextObs].fact = fact /\ obs'[nextObs].value = v
         /\ canonical' = [canonical EXCEPT ![fact] = [obs |-> nextObs, value |-> v, by |-> who]]
         /\ filing' \in [F!Filings -> [Concepts -> F!Raw] \cup {None}] /\ F!Stored \subseteq F!Stored'
         /\ obs'[nextObs].filing \in F!Stored' /\ obs'[nextObs].filing[1] = fact[1]
<1>1. PICK f \in F!Anchors(fact[1]) :
        /\ filing' = F!Anchored(f)
        /\ obs' = [obs EXCEPT ![nextObs] = [fact |-> fact, source |-> "manual", filing |-> f, value |-> v]]
        /\ canonical' = [canonical EXCEPT ![fact] = [obs |-> nextObs, value |-> v, by |-> who]]
        /\ nextObs <= MaxObs
  BY DEF F!EnterFirst
<1>2. fact[1] \in Periods
  BY DEF F!Facts
<1>3. /\ f \in F!Filings /\ f[1] = fact[1] /\ filing' \in [F!Filings -> [Concepts -> F!Raw] \cup {None}]
      /\ F!Stored \subseteq F!Stored' /\ f \in F!Stored'
  BY <1>1, <1>2, AnchoredFiling
<1>4. nextObs \in F!Ids /\ nextObs \notin F!Live(obs) /\ obs \in [F!Ids -> F!Observation \cup {None}]
  BY <1>1 DEF FactsInv, F!TypeOK, Numbering, F!Ids, F!Distinct
<1> DEFINE made == [fact |-> fact, source |-> "manual", filing |-> f, value |-> v]
<1>5. made \in F!Observation /\ made.fact = fact /\ made.value = v /\ made.filing = f
  BY <1>3 DEF F!Observation, F!Sources, F!Cell, F!Null
<1>6. obs' = [obs EXCEPT ![nextObs] = made]
  BY <1>1
<1> HIDE DEF made
<1>7. /\ obs'[nextObs] = made /\ obs' \in [F!Ids -> F!Observation \cup {None}]
      /\ \A j \in F!Ids : j # nextObs => obs'[j] = obs[j]
  BY <1>4, <1>5, <1>6
<1>8. F!Live(obs') = F!Live(obs) \cup {nextObs}
  BY <1>4, <1>5, <1>7 DEF F!Live, F!Distinct
<1> QED BY <1>1, <1>3, <1>4, <1>5, <1>7, <1>8

LEMMA EnterFirstSafe ==
  ASSUME F!Distinct, FactsInv, NEW fact \in F!Facts, NEW v \in Values \cup {NaN}, NEW who \in Editors,
         F!EnterFirst(fact, v, who), UNCHANGED marker
  PROVE  FactsInv'
<1>1. nextObs' = nextObs + 1 /\ F!Noted(obs') /\ UNCHANGED <<documented, bulk>>
  BY DEF F!EnterFirst
<1>2. nextObs \in 1..(MaxObs + 1) /\ nextObs \in F!Ids /\ MaxObs \in Nat
  BY EnteredReading DEF FactsInv, F!TypeOK, F!Distinct
<1>3. nextObs <= nextObs' /\ nextObs' \in 1..(MaxObs + 1) /\ nextObs < nextObs'
  BY <1>1, <1>2 DEF F!Ids
<1>4. F!Live(obs') \ F!Live(obs) = {nextObs} /\ obs' \in [F!Ids -> F!Observation \cup {None}]
  BY EnteredReading
<1>5. mixed' \subseteq F!Facts
  BY <1>1, <1>4 DEF F!Noted, F!Live, F!Observation, FactsInv, F!TypeOK
<1>6. \A j \in F!Live(obs) : j # nextObs /\ obs'[j] = obs[j]
  BY EnteredReading DEF F!Live
<1>7. nextObs \in F!Live(obs') /\ F!Live(obs) \subseteq F!Live(obs')
  BY EnteredReading
<1> QED BY <1>1, <1>3, <1>4, <1>5, <1>6, <1>7, EnteredReading, ChosenByHand

(* The backfill copies the value of the reading that is chosen already.     *)
LEMMA BackfillOf ==
  ASSUME F!Distinct, FactsInv, NEW fact \in F!Facts, F!Backfill(fact)
  PROVE  /\ canonical' \in [F!Facts -> F!Choice \cup {None}]
         /\ \A g \in F!Facts : g # fact => canonical'[g] = canonical[g]
         /\ canonical'[fact] # None /\ canonical[fact] # None
         /\ canonical'[fact].obs = canonical[fact].obs /\ canonical'[fact].by = canonical[fact].by
         /\ canonical'[fact].value = obs[canonical[fact].obs].value
<1> DEFINE v == obs[canonical[fact].obs].value
<1>1. canonical[fact] # None /\ canonical' = [canonical EXCEPT ![fact].value = v]
  BY DEF F!Backfill
<1>2. canonical[fact].obs \in F!Live(obs) /\ canonical[fact] \in F!Choice
  BY <1>1 DEF FactsInv, F!TypeOK, Matching
<1>3. v \in F!Cell
  BY <1>2 DEF F!Live, FactsInv, F!TypeOK, F!Observation
<1> HIDE DEF v
<1>4. canonical'[fact] = [canonical[fact] EXCEPT !.value = v]
  BY <1>1 DEF FactsInv, F!TypeOK
<1>5. /\ canonical'[fact] \in F!Choice /\ canonical'[fact].value = v
      /\ canonical'[fact].obs = canonical[fact].obs /\ canonical'[fact].by = canonical[fact].by
  BY <1>2, <1>3, <1>4 DEF F!Choice
<1>6. /\ canonical' \in [F!Facts -> F!Choice \cup {None}]
      /\ \A g \in F!Facts : g # fact => canonical'[g] = canonical[g]
  BY <1>1, <1>5 DEF FactsInv, F!TypeOK
<1> QED BY <1>1, <1>5, <1>6 DEF F!Distinct, v

LEMMA BackfillSafe ==
  ASSUME F!Distinct, FactsInv, NEW fact \in F!Facts, F!Backfill(fact) PROVE FactsInv'
<1>1. UNCHANGED <<filing, documented, obs, nextObs, bulk, mixed, marker>>
  BY DEF F!Backfill
<1>2. ASSUME NEW g \in F!Facts, canonical'[g] # None
      PROVE  /\ canonical'[g].obs \in F!Live(obs) /\ obs[canonical'[g].obs].fact = g
             /\ \/ canonical'[g].value = obs[canonical'[g].obs].value
                \/ ~marker /\ canonical'[g].value = None /\ obs[canonical'[g].obs].value \notin F!Null
  BY <1>2, BackfillOf DEF FactsInv, Matching
<1>3. Matching'
  BY <1>1, <1>2 DEF Matching, F!Live
<1>4. F!TypeOK' /\ Numbering' /\ Anchoring'
  BY <1>1, BackfillOf DEF FactsInv, F!TypeOK, Numbering, Anchoring, F!Live, F!Stored
<1> QED BY <1>3, <1>4 DEF FactsInv

LEMMA BackfillEndSafe ==
  ASSUME FactsInv, F!BackfillEnd PROVE FactsInv'
<1>1. marker' = TRUE /\ UNCHANGED <<filing, documented, obs, canonical, nextObs, bulk, mixed>>
  BY DEF F!BackfillEnd, F!tables
<1>2. ASSUME NEW fact \in F!Facts, canonical[fact] # None
      PROVE  canonical[fact].value = obs[canonical[fact].obs].value
  BY <1>2 DEF F!BackfillEnd, F!Null, FactsInv, Matching
<1>3. Matching'
  BY <1>1, <1>2 DEF FactsInv, Matching, F!Live
<1>4. F!TypeOK' /\ Numbering' /\ Anchoring'
  BY <1>1 DEF FactsInv, F!TypeOK, Numbering, Anchoring, F!Live, F!Stored
<1> QED BY <1>3, <1>4 DEF FactsInv

(* A database from before: one return, a reading of each concept, chosen.   *)
LEMMA LegacyOf ==
  ASSUME F!Distinct, F!Legacy
  PROVE  \E f \in F!Filings :
           /\ filing \in [F!Filings -> [Concepts -> F!Raw] \cup {None}] /\ f \in F!Stored
           /\ documented = {f} /\ nextObs \in 1..(MaxObs + 1)
           /\ obs \in [F!Ids -> F!Observation \cup {None}] /\ canonical \in [F!Facts -> F!Choice \cup {None}]
           /\ \A i \in F!Live(obs) : /\ i < nextObs /\ obs[i].filing = f /\ obs[i].fact[1] = f[1]
                                  /\ obs[i].value \notin F!Null /\ canonical[obs[i].fact] # None
                                  /\ \A j \in F!Live(obs) : obs[i].fact = obs[j].fact => i = j
           /\ \A fact \in F!Facts : canonical[fact] # None =>
                /\ canonical[fact].obs \in F!Live(obs) /\ obs[canonical[fact].obs].fact = fact
                /\ canonical[fact].value = None
<1> DEFINE n == F!Cardinality(Concepts)
           row(g, t, d, k) == [fact |-> <<g[1], t[k]>>, source |-> "irs", filing |-> g, value |-> d[t[k]]]
           choice(t, fact) == [obs |-> CHOOSE k \in 1..n : t[k] = fact[2], value |-> None, by |-> "auto"]
<1>1. n \in Nat
  BY FS_CardinalityType, FiniteSame, CardinalitySame DEF F!Distinct
<1>2. PICK f \in Periods \X Forms, s \in F!SetToSeqs(Concepts) :
        /\ Len(s) <= MaxObs
        /\ \E data \in [Concepts -> Values] :
             /\ filing = [g \in F!Filings |-> IF g = f THEN data ELSE None]
             /\ obs = [i \in F!Ids |-> IF i \in 1..Len(s)
                  THEN [fact |-> <<f[1], s[i]>>, source |-> "irs", filing |-> f,
                        value |-> data[s[i]]]
                  ELSE None]
        /\ documented = {f}
        /\ canonical = [fact \in F!Facts |-> IF fact[1] # f[1] THEN None ELSE
             [obs |-> CHOOSE i \in 1..Len(s) : s[i] = fact[2],
              value |-> None, by |-> "auto"]]
        /\ nextObs = Len(s) + 1
  BY DEF F!Legacy
<1>3. s \in [1..n -> Concepts] /\ \A i, j \in 1..n : i # j => s[i] # s[j]
  BY DEF F!SetToSeqs
<1>4. Len(s) = n
  <2> HIDE DEF n
  <2> QED BY <1>1, <1>3
<1>5. PICK data \in [Concepts -> Values] :
        /\ filing = [g \in F!Filings |-> IF g = f THEN data ELSE None]
        /\ obs = [i \in F!Ids |-> IF i \in 1..n THEN row(f, s, data, i) ELSE None]
  BY <1>2, <1>4
<1>6. canonical = [fact \in F!Facts |-> IF fact[1] # f[1] THEN None ELSE choice(s, fact)]
  BY <1>2, <1>4
<1>7. n <= MaxObs /\ nextObs = n + 1 /\ documented = {f}
  BY <1>2, <1>4
<1>8. \A c \in Concepts : \E i \in 1..n : s[i] = c
  <2> HIDE DEF n
  <2>1. s \in Injection(1..n, Concepts)
    BY <1>3 DEF Injection, IsInjective
  <2>2. F!Cardinality(1..n) = n /\ F!IsFiniteSet(Concepts)
    BY <1>1, FS_Interval, FiniteSame, CardinalitySame DEF F!Distinct
  <2>3. s \in Surjection(1..n, Concepts)
    BY <2>1, <2>2, FS_Injection, FiniteSame, CardinalitySame DEF n
  <2> QED BY <2>3 DEF Surjection
<1> HIDE DEF n
<1>9. f \in F!Filings /\ f[1] \in Periods /\ 1..n \subseteq F!Ids /\ MaxObs \in Nat
  BY <1>1, <1>7 DEF F!Filings, F!Ids, F!Distinct
<1>10. ASSUME NEW i \in 1..n
       PROVE  /\ row(f, s, data, i) \in F!Observation /\ s[i] \in Concepts
              /\ row(f, s, data, i).value \notin F!Null /\ <<f[1], s[i]>> \in F!Facts
  BY <1>3, <1>5, <1>9 DEF F!Observation, F!Facts, F!Sources, F!Cell, F!Null, F!Distinct
<1>11. /\ F!Live(obs) = 1..n /\ obs \in [F!Ids -> F!Observation \cup {None}]
       /\ \A i \in 1..n : obs[i] = row(f, s, data, i)
  <2>1. \A i \in F!Ids : obs[i] = IF i \in 1..n THEN row(f, s, data, i) ELSE None
    BY <1>5
  <2>2. \A i \in 1..n : row(f, s, data, i) # None
    BY <1>10 DEF F!Distinct
  <2> HIDE DEF row
  <2> QED BY <1>5, <1>9, <1>10, <2>1, <2>2 DEF F!Live
<1>12. ASSUME NEW i \in 1..n
       PROVE  obs[i].fact = <<f[1], s[i]>> /\ obs[i].filing = f /\ obs[i].value \notin F!Null
  <2>1. obs[i] = row(f, s, data, i)
    BY <1>11
  <2>2. row(f, s, data, i).fact = <<f[1], s[i]>> /\ row(f, s, data, i).filing = f
    OBVIOUS
  <2>3. row(f, s, data, i).value \notin F!Null
    BY <1>10
  <2> HIDE DEF row
  <2> QED BY <2>1, <2>2, <2>3
<1>13. ASSUME NEW fact \in F!Facts, fact[1] = f[1]
       PROVE  choice(s, fact) \in F!Choice /\ choice(s, fact).obs \in 1..n /\ s[choice(s, fact).obs] = fact[2]
  <2>1. fact[2] \in Concepts
    BY DEF F!Facts
  <2>2. PICK i \in 1..n : s[i] = fact[2]
    BY <1>8, <2>1
  <2>3. LET k == CHOOSE j \in 1..n : s[j] = fact[2] IN k \in 1..n /\ s[k] = fact[2]
    BY <2>2
  <2> QED BY <1>9, <2>3 DEF F!Choice, F!Cell, F!Null
<1>14. canonical \in [F!Facts -> F!Choice \cup {None}]
  <2> HIDE DEF choice
  <2> QED BY <1>6, <1>13
<1>15. ASSUME NEW fact \in F!Facts, canonical[fact] # None
       PROVE  /\ canonical[fact].obs \in 1..n /\ obs[canonical[fact].obs].fact = fact
              /\ canonical[fact].value = None
  <2>1. fact[1] = f[1] /\ canonical[fact] = choice(s, fact)
    BY <1>6, <1>15
  <2>2. canonical[fact].obs \in 1..n /\ s[canonical[fact].obs] = fact[2]
    BY <1>13, <2>1
  <2>3. obs[canonical[fact].obs].fact = <<f[1], fact[2]>>
    BY <1>12, <2>2
  <2>4. fact = <<fact[1], fact[2]>>
    BY DEF F!Facts
  <2> QED BY <2>1, <2>2, <2>3, <2>4
<1>16. ASSUME NEW i \in 1..n
       PROVE  /\ i < nextObs /\ obs[i].filing = f /\ obs[i].fact[1] = f[1]
              /\ obs[i].value \notin F!Null /\ canonical[obs[i].fact] # None
              /\ \A j \in 1..n : obs[i].fact = obs[j].fact => i = j
  <2>1. obs[i].fact = <<f[1], s[i]>> /\ obs[i].fact[1] = f[1]
    BY <1>12
  <2>2. canonical[obs[i].fact] # None
    <3> DEFINE fact == <<f[1], s[i]>>
    <3>1. fact \in F!Facts /\ fact[1] = f[1]
      BY <1>10
    <3> HIDE DEF fact
    <3>2. canonical[fact] = choice(s, fact) /\ choice(s, fact) \in F!Choice
      BY <1>6, <1>13, <3>1
    <3> QED BY <2>1, <3>2 DEF F!Distinct, fact
  <2>3. \A j \in 1..n : obs[i].fact = obs[j].fact => i = j
    BY <1>3, <1>12
  <2> QED BY <1>1, <1>7, <1>10, <1>12, <2>1, <2>2, <2>3
<1>17. filing \in [F!Filings -> [Concepts -> F!Raw] \cup {None}] /\ f \in F!Stored
  <2>1. data \in [Concepts -> F!Raw] /\ data # None
    BY DEF F!Raw, F!Distinct
  <2> QED BY <1>5, <1>9, <2>1 DEF F!Stored
<1>18. nextObs \in 1..(MaxObs + 1)
  BY <1>1, <1>7, <1>9
<1> QED BY <1>7, <1>9, <1>11, <1>14, <1>15, <1>16, <1>17, <1>18

LEMMA FactsInit == ASSUME F!Distinct, F!Init PROVE FactsInv
<1>1. /\ bulk \in [phase: {"none", "cut", "observations", "canonical"}, left: SUBSET Concepts]
      /\ mixed \subseteq F!Facts /\ marker = FALSE
  BY DEF F!Init, F!Bulk
<1>2. CASE F!Fresh
  <2>1. /\ filing \in [F!Filings -> [Concepts -> F!Raw] \cup {None}] /\ documented = {}
        /\ obs \in [F!Ids -> F!Observation \cup {None}] /\ canonical \in [F!Facts -> F!Choice \cup {None}]
        /\ nextObs \in 1..(MaxObs + 1) /\ F!Live(obs) = {} /\ \A fact \in F!Facts : canonical[fact] = None
    BY <1>2 DEF F!Fresh, F!Live, F!Distinct
  <2> QED BY <1>1, <2>1 DEF FactsInv, F!TypeOK, Numbering, Anchoring, Matching
<1>3. CASE F!Legacy
  <2>1. PICK f \in F!Filings :
           /\ filing \in [F!Filings -> [Concepts -> F!Raw] \cup {None}] /\ f \in F!Stored
           /\ documented = {f} /\ nextObs \in 1..(MaxObs + 1)
           /\ obs \in [F!Ids -> F!Observation \cup {None}] /\ canonical \in [F!Facts -> F!Choice \cup {None}]
           /\ \A i \in F!Live(obs) : /\ i < nextObs /\ obs[i].filing = f /\ obs[i].fact[1] = f[1]
                                  /\ obs[i].value \notin F!Null /\ canonical[obs[i].fact] # None
                                  /\ \A j \in F!Live(obs) : obs[i].fact = obs[j].fact => i = j
           /\ \A fact \in F!Facts : canonical[fact] # None =>
                /\ canonical[fact].obs \in F!Live(obs) /\ obs[canonical[fact].obs].fact = fact
                /\ canonical[fact].value = None
    BY <1>3, LegacyOf
  <2> QED BY <1>1, <2>1 DEF FactsInv, F!TypeOK, Numbering, Anchoring, Matching
<1> QED BY <1>2, <1>3 DEF F!Init

LEMMA FactsNext == ASSUME F!Distinct, FactsInv, [F!Next]_(F!vars) PROVE FactsInv'
<1>1. CASE marker /\ F!Operation /\ UNCHANGED marker
  <2>1. ASSUME NEW f \in F!Filings, F!Store(f) \/ F!Purge({f}) PROVE FactsInv'
    BY <1>1, <2>1, QuietSafe, PurgeSafe
  <2>2. CASE F!Purge(F!Stored)
    BY <1>1, <2>2, PurgeSafe
  <2>3. CASE F!Derive
    BY <1>1, <2>3, DeriveSafe
  <2>4. ASSUME NEW p \in Periods, NEW s \in {"manual", "audited"}, NEW d \in [Concepts -> F!Raw \ {Junk}],
               F!Record(p, s, d)
        PROVE  FactsInv'
    BY <1>1, <2>4, RecordSafe DEF F!Sources
  <2>5. ASSUME NEW i \in F!Ids, NEW who \in Editors, F!SetCanonical(i, who) PROVE FactsInv'
    BY <1>1, <2>5, SetCanonicalSafe
  <2>6. ASSUME NEW fact \in F!Facts, NEW v \in Values \cup {NaN}, NEW who \in Editors,
               F!Edit(fact, v, who) \/ F!EnterFirst(fact, v, who)
        PROVE  FactsInv'
    BY <1>1, <2>6, EditSafe, EnterFirstSafe
  <2>7. CASE F!BulkDocuments \/ F!BulkCanonical \/ F!BulkDies
    BY <1>1, <2>7, QuietSafe
  <2>8. ASSUME NEW c \in Concepts, F!BulkObservations(c) PROVE FactsInv'
    BY <1>1, <2>8, BulkObservationsSafe
  <2> QED BY <1>1, <2>1, <2>2, <2>3, <2>4, <2>5, <2>6, <2>7, <2>8 DEF F!Operation
<1>2. ASSUME NEW fact \in F!Facts, F!Backfill(fact) PROVE FactsInv'
  BY <1>2, BackfillSafe
<1>3. CASE F!BackfillEnd
  BY <1>3, BackfillEndSafe
<1>4. CASE UNCHANGED F!vars
  BY <1>4 DEF F!vars, F!tables, FactsInv, F!TypeOK, Numbering, Anchoring, Matching, F!Live,
        F!Stored
<1> QED BY <1>1, <1>2, <1>3, <1>4 DEF F!Next

-----------------------------------------------------------------------------
(* What the invariant says of the reads.                                    *)

LEMMA CanonFollows == ASSUME FactsInv PROVE F!CanonInv
<1>1. F!CanonMatches
  BY DEF FactsInv, Matching, F!CanonMatches, F!Scored, F!Reported
<1>2. ASSUME NEW fact \in F!Facts, F!Scored(fact) \notin F!Null
      PROVE  \E f \in F!Visited : f[1] = fact[1]
  <2> DEFINE f == obs[canonical[fact].obs].filing
  <2>1. canonical[fact] # None /\ canonical[fact].value # None
    BY <1>2 DEF F!Scored, F!Null
  <2>2. f \in F!Stored /\ f[1] = fact[1]
    BY <2>1 DEF FactsInv, Matching, Anchoring
  <2> HIDE DEF f
  <2>3. CASE \E g \in F!Stored : g[1] = f[1] /\ F!Real(g)
    BY <2>2, <2>3 DEF F!Visited
  <2>4. CASE ~ \E g \in F!Stored : g[1] = f[1] /\ F!Real(g)
    <3>1. fact[2] \in Concepts /\ fact = <<f[1], fact[2]>>
      BY <2>2 DEF F!Facts
    <3> QED BY <1>2, <2>2, <2>4, <3>1 DEF F!Visited
  <2> QED BY <2>3, <2>4
<1>3. F!Scoreable
  BY <1>2 DEF F!Scoreable
<1> QED BY <1>1, <1>3 DEF F!CanonInv, FactsInv

(* Whatever a step does to a choice a person made, another person did it,   *)
(* or the reading is gone.                                                  *)
Stays(fact) ==
  /\ canonical[fact] # None /\ canonical[fact].by \in Editors
  /\ canonical'[fact] # canonical[fact]
  => \/ canonical'[fact] # None /\ canonical'[fact].by \in Editors
     \/ obs'[canonical[fact].obs] = None

LEMMA TakenStays ==
  ASSUME NEW o, NEW fact \in F!Facts, KeepsOrTakes(canonical', o) PROVE Stays(fact)
  BY DEF KeepsOrTakes, Stays

LEMMA HandStays ==
  ASSUME F!Distinct, FactsInv, NEW fact \in F!Facts, NEW g \in F!Facts,
         NEW i \in F!Ids, NEW v \in F!Cell, NEW who \in Editors,
         canonical' = [canonical EXCEPT ![g] = [obs |-> i, value |-> v, by |-> who]]
  PROVE  Stays(fact)
<1> DEFINE made == [obs |-> i, value |-> v, by |-> who]
<1>1. canonical'[fact] = IF fact = g THEN made ELSE canonical[fact]
  BY DEF FactsInv, F!TypeOK
<1>2. made.by = who /\ made \in F!Choice
  BY DEF F!Choice
<1> HIDE DEF made
<1> QED BY <1>1, <1>2 DEF Stays, F!Distinct

LEMMA PersonNext ==
  ASSUME F!Distinct, FactsInv, [F!Next]_(F!vars), NEW fact \in F!Facts PROVE Stays(fact)
<1>1. ASSUME UNCHANGED canonical PROVE Stays(fact)
  BY <1>1 DEF Stays
<1>2. CASE F!Operation
  <2>1. ASSUME NEW fs, F!Purge(fs) PROVE Stays(fact)
    <3>1. PICK lost \in SUBSET F!Live(obs) :
            /\ canonical' = F!Recanonical(obs', lost) /\ F!Live(obs') = F!Live(obs) \ lost
            /\ obs' \in [F!Ids -> F!Observation \cup {None}]
      BY <2>1, PurgeChoices
    <3>2. canonical[fact] # None /\ canonical[fact].obs \notin lost => canonical'[fact] = canonical[fact]
      BY <3>1 DEF F!Recanonical
    <3>3. canonical[fact] # None /\ canonical[fact].obs \in lost => obs'[canonical[fact].obs] = None
      BY <3>1 DEF F!Live
    <3> QED BY <3>2, <3>3 DEF Stays
  <2>2. CASE F!Derive
    BY <2>2, ChosenTakes, TakenStays DEF F!Derive, F!Distinct
  <2>3. ASSUME NEW p \in Periods, NEW s \in {"manual", "audited"}, NEW d \in [Concepts -> F!Raw \ {Junk}],
               F!Record(p, s, d)
        PROVE  Stays(fact)
    <3>1. canonical' = F!ChosenOnAdd(obs')
      BY <2>3 DEF F!Record
    <3> QED BY <3>1, ChosenTakes, TakenStays DEF F!Distinct
  <2>4. ASSUME NEW i \in F!Ids, NEW who \in Editors, F!SetCanonical(i, who) PROVE Stays(fact)
    <3>1. obs[i] \in F!Observation /\ canonical' = [canonical EXCEPT ![obs[i].fact] =
                                                     [obs |-> i, value |-> obs[i].value, by |-> who]]
      BY <2>4 DEF F!SetCanonical, FactsInv, F!TypeOK
    <3>2. obs[i].fact \in F!Facts /\ obs[i].value \in F!Cell
      BY <3>1 DEF F!Observation
    <3> QED BY <3>1, <3>2, HandStays
  <2>5. ASSUME NEW g \in F!Facts, NEW v \in Values \cup {NaN}, NEW who \in Editors, F!Edit(g, v, who)
        PROVE  Stays(fact)
    <3>1. PICK i \in F!Live(obs) : canonical' = [canonical EXCEPT ![g] = [obs |-> i, value |-> v, by |-> who]]
      BY <2>5, EditedReading DEF EditedAt
    <3> QED BY <3>1, HandStays DEF F!Live, F!Cell, F!Null
  <2>6. ASSUME NEW g \in F!Facts, NEW v \in Values \cup {NaN}, NEW who \in Editors, F!EnterFirst(g, v, who)
        PROVE  Stays(fact)
    BY <2>6, EnteredReading, HandStays DEF F!Cell, F!Null
  <2>7. CASE F!BulkCanonical
    BY <2>7, ChosenTakes, TakenStays DEF F!BulkCanonical, F!Distinct
  <2>8. CASE \/ F!BulkDocuments \/ F!BulkDies
             \/ \E f \in F!Filings : F!Store(f)
             \/ \E c \in Concepts : F!BulkObservations(c)
    BY <1>1, <2>8 DEF F!Store, F!BulkDocuments, F!BulkDies, F!BulkObservations, F!tables
  <2> QED BY <1>2, <2>1, <2>2, <2>3, <2>4, <2>5, <2>6, <2>7, <2>8 DEF F!Operation
<1>3. ASSUME NEW g \in F!Facts, F!Backfill(g) PROVE Stays(fact)
  BY <1>3, BackfillOf DEF Stays
<1>4. CASE F!BackfillEnd \/ UNCHANGED F!vars
  BY <1>1, <1>4 DEF F!BackfillEnd, F!vars, F!tables
<1> QED BY <1>2, <1>3, <1>4 DEF F!Next

-----------------------------------------------------------------------------
(* Which reading is chosen.                                                 *)

AutoRead ==
  \A fact \in F!Facts :
    canonical[fact] # None /\ canonical[fact].by = "auto" /\ canonical[fact].value # NaN =>
    canonical[fact].obs \in F!Readings(obs, fact)
CutMixed == bulk.phase = "cut" => mixed = F!Facts
RightInv == F!EveryFactChosen /\ F!AutoIsFirst /\ AutoRead /\ CutMixed

(* What RightInv says of one fact.                                          *)
RightOf(fact) ==
  /\ bulk.phase = "none" /\ F!Readings(obs, fact) # {} => canonical[fact] # None
  /\ canonical[fact] # None /\ canonical[fact].by = "auto" /\ canonical[fact].value # NaN =>
       /\ canonical[fact].obs \in F!Readings(obs, fact)
       /\ fact \notin mixed => canonical[fact].obs = F!First(F!Readings(obs, fact))
LEMMA RightByFact == RightInv <=> CutMixed /\ \A fact \in F!Facts : RightOf(fact)
  BY DEF RightInv, F!EveryFactChosen, F!AutoIsFirst, AutoRead, RightOf

LEMMA ReadingsOfIds == \A o, fact : F!Readings(o, fact) \in SUBSET F!Ids
  BY DEF F!Readings, F!Live

(* New readings come after the old ones.                                    *)
LEMMA FirstKept ==
  ASSUME F!Distinct, FactsInv, NEW o, NEW rows, Adds(o, rows), NEW fact
  PROVE  /\ F!Readings(obs, fact) \subseteq F!Readings(o, fact)
         /\ \A i \in F!Readings(o, fact) :
             i \in F!Readings(obs, fact) \/ (i >= nextObs /\ i \notin F!Live(obs))
         /\ \A i \in F!Readings(obs, fact) : ~ (i >= nextObs)
         /\ F!Readings(obs, fact) # {} => F!First(F!Readings(o, fact)) = F!First(F!Readings(obs, fact))
<1>1. \A i \in F!Live(obs) : i \in F!Live(o) /\ o[i] = obs[i]
  BY DEF Adds, F!Live
<1>2. F!Readings(obs, fact) \subseteq F!Readings(o, fact)
  BY <1>1 DEF F!Readings
<1>3. \A i \in F!Readings(o, fact) : i \in F!Readings(obs, fact) \/ (i >= nextObs /\ i \notin F!Live(obs))
  BY <1>1 DEF F!Readings, Adds
<1>4. \A i \in F!Readings(obs, fact) : i \in Nat /\ i < nextObs /\ nextObs \in Nat
  BY DEF FactsInv, F!TypeOK, Numbering, F!Readings, F!Live, F!Ids, F!Distinct
<1>5. ASSUME F!Readings(obs, fact) # {} PROVE F!First(F!Readings(o, fact)) = F!First(F!Readings(obs, fact))
  <2> DEFINE m == F!First(F!Readings(obs, fact))
  <2>1. m \in F!Readings(obs, fact) /\ \A j \in F!Readings(obs, fact) : m <= j
    BY <1>5, ReadingsOfIds, FirstOf DEF F!Distinct
  <2> HIDE DEF m
  <2>2. \A j \in F!Readings(o, fact) : j \in Nat
    BY ReadingsOfIds DEF F!Ids, F!Distinct
  <2>3. \A j \in F!Readings(o, fact) : m <= j
    BY <1>3, <1>4, <2>1, <2>2
  <2>4. F!First(F!Readings(o, fact)) = m
    BY <1>2, <2>1, <2>3, ReadingsOfIds, FirstIs DEF F!Distinct
  <2> QED BY <2>4 DEF m
<1>6. \A i \in F!Readings(obs, fact) : ~ (i >= nextObs)
  BY <1>4
<1> QED BY <1>2, <1>3, <1>5, <1>6

LEMMA KeptRight ==
  ASSUME F!Distinct, FactsInv, RightInv, NEW rows, Adds(obs', rows), NEW fact \in F!Facts,
         mixed \subseteq mixed', canonical[fact] # None, canonical'[fact] = canonical[fact]
  PROVE  RightOf(fact)'
<1>1. CASE canonical[fact].by = "auto" /\ canonical[fact].value # NaN
  <2>1. canonical[fact].obs \in F!Readings(obs, fact)
    BY <1>1, RightByFact DEF RightOf
  <2>2. canonical'[fact].obs \in F!Readings(obs', fact)
    BY <2>1, FirstKept
  <2>3. fact \notin mixed' => canonical'[fact].obs = F!First(F!Readings(obs', fact))
    BY <1>1, <2>1, FirstKept, RightByFact DEF RightOf
  <2> QED BY <2>2, <2>3 DEF RightOf
<1> QED BY <1>1 DEF RightOf

LEMMA AddedRight ==
  ASSUME F!Distinct, FactsInv, RightInv, NEW rows, Adds(obs', rows),
         canonical' \in {F!ChosenOnAdd(obs'), F!ChosenInBulk(obs')}, F!Noted(obs'), UNCHANGED bulk
  PROVE  RightInv'
<1>1. mixed \subseteq mixed' /\ (bulk.phase = "cut" => mixed' = mixed)
  BY DEF F!Noted, F!Running
<1>2. obs' \in [F!Ids -> F!Observation \cup {None}]
  BY DEF Adds
<1>3. ASSUME NEW fact \in F!Facts, NEW i \in Valued(obs', fact)
      PROVE  /\ F!AutoChosen(obs', i) # None /\ F!AutoChosen(obs', i).obs = i
             /\ F!AutoChosen(obs', i).value = obs'[i].value
  <2>1. F!AutoChosen(obs', i) \in F!Choice
    BY <1>2, AutoChoice DEF Valued
  <2> QED BY <2>1 DEF F!Distinct, F!AutoChosen
<1>4. ASSUME NEW fact \in F!Facts PROVE RightOf(fact)'
  <2> DEFINE new == {i \in F!Live(obs') : obs'[i].fact = fact /\ obs'[i].value # None /\ i >= nextObs}
  <2>0. new \subseteq Valued(obs', fact) /\ new \in SUBSET F!Ids
    BY DEF Valued, F!Live
  <2>1. CASE canonical[fact] # None
    <3>1. canonical'[fact] = canonical[fact]
      BY <2>1 DEF F!ChosenOnAdd, F!ChosenInBulk
    <3> QED BY <1>1, <2>1, <3>1, KeptRight
  <2>2. CASE canonical[fact] = None /\ canonical'[fact] = None /\ F!Readings(obs', fact) = {}
    BY <2>2 DEF RightOf
  <2>3. CASE /\ canonical'[fact] = F!AutoChosen(obs', F!First(F!Readings(obs', fact)))
             /\ F!Readings(obs', fact) # {}
    <3>1. F!First(F!Readings(obs', fact)) \in F!Readings(obs', fact)
      BY <2>3, ReadingsOfIds, FirstOf DEF F!Distinct
    <3> QED BY <1>3, <2>3, <3>1, ReadingsValued DEF RightOf
  <2>4. CASE canonical[fact] = None /\ canonical' = F!ChosenInBulk(obs')
    <3>1. canonical'[fact] = IF F!Readings(obs', fact) # {}
                             THEN F!AutoChosen(obs', F!First(F!Readings(obs', fact))) ELSE None
      BY <2>4 DEF F!ChosenInBulk
    <3> QED BY <2>2, <2>3, <2>4, <3>1
  <2>5. CASE canonical[fact] = None /\ canonical' = F!ChosenOnAdd(obs')
    <3>1. canonical'[fact] = IF new # {} THEN F!AutoChosen(obs', F!First(new)) ELSE None
      BY <2>5 DEF F!ChosenOnAdd
    <3>2. F!Readings(obs', fact) \subseteq F!Readings(obs, fact) \cup new
      <4>1. \A i \in F!Readings(obs', fact) : i \in Valued(obs', fact)
        BY ReadingsValued
      <4> QED BY <4>1, FirstKept DEF Valued
    <3>3. CASE new = {}
      <4>1. F!Readings(obs', fact) # {} => bulk.phase # "none"
        BY <2>5, <3>2, <3>3, RightByFact DEF RightOf
      <4> QED BY <3>1, <3>3, <4>1 DEF RightOf
    <3>4. CASE new # {}
      <4>1. F!First(new) \in new /\ \A j \in new : F!First(new) <= j
        BY <2>0, <3>4, FirstOf DEF F!Distinct
      <4> DEFINE k == F!First(new)
      <4>2. canonical'[fact] # None /\ canonical'[fact].obs = k /\ canonical'[fact].value = obs'[k].value
        BY <1>3, <2>0, <3>1, <3>4, <4>1
      <4>3. k \in new /\ k \in Valued(obs', fact) /\ (obs'[k].value # NaN => k \in F!Readings(obs', fact))
        BY <2>0, <4>1, ReadingsValued
      <4>4. k \in F!Live(obs') \ F!Live(obs) /\ obs'[k].fact = fact
        <5>1. \A i \in F!Live(obs) : ~ (i >= nextObs)
          BY DEF FactsInv, F!TypeOK, Numbering, F!Live, F!Ids, F!Distinct
        <5> QED BY <4>3, <5>1
      <4>5. ASSUME obs'[k].value # NaN, fact \notin mixed' PROVE k = F!First(F!Readings(obs', fact))
        <5>1. bulk.phase = "none"
          <6>1. bulk.phase # "cut"
            BY <1>1, <4>5 DEF RightInv, CutMixed
          <6>2. ~ F!Running
            BY <4>4, <4>5 DEF F!Noted
          <6> QED BY <6>1, <6>2 DEF F!Running, FactsInv, F!TypeOK
        <5>2. F!Readings(obs, fact) = {}
          BY <2>5, <5>1, RightByFact DEF RightOf
        <5> HIDE DEF new
        <5>3. \A j \in F!Readings(obs', fact) : k <= j
          BY <3>2, <4>1, <5>2
        <5> HIDE DEF k
        <5> QED BY <4>3, <4>5, <5>3, ReadingsOfIds, FirstIs DEF F!Distinct
      <4> HIDE DEF k, new
      <4> QED BY <4>2, <4>3, <4>5 DEF RightOf
    <3> QED BY <3>3, <3>4
  <2> QED BY <2>1, <2>4, <2>5
<1>5. CutMixed'
  BY <1>1 DEF RightInv, CutMixed
<1>6. RightInv' <=> (CutMixed' /\ \A fact \in F!Facts : RightOf(fact)')
  BY DEF RightInv, F!EveryFactChosen, F!AutoIsFirst, AutoRead, RightOf
<1> QED BY <1>4, <1>5, <1>6

(* Nothing a fact's choice depends on changes.                              *)
LEMMA SameRight ==
  ASSUME RightInv, NEW fact \in F!Facts,
         canonical'[fact] = None <=> canonical[fact] = None,
         canonical[fact] # None => /\ canonical'[fact].obs = canonical[fact].obs
                                   /\ canonical'[fact].by = canonical[fact].by
                                   /\ canonical[fact].value = NaN => canonical'[fact].value = NaN,
         F!Readings(obs', fact) = F!Readings(obs, fact), mixed \subseteq mixed',
         bulk'.phase = "none" => bulk.phase = "none"
  PROVE  RightOf(fact)'
<1>1. RightOf(fact)
  BY RightByFact
<1> QED BY <1>1 DEF RightOf

LEMMA RightNext ==
  ASSUME CutMixed', \A fact \in F!Facts : RightOf(fact)' PROVE RightInv'
  BY DEF RightInv, F!EveryFactChosen, F!AutoIsFirst, AutoRead, RightOf

LEMMA HandRight ==
  ASSUME F!Distinct, FactsInv, RightInv, NEW g \in F!Facts,
         NEW i \in F!Ids, NEW v \in F!Cell, NEW who \in Editors,
         canonical' = [canonical EXCEPT ![g] = [obs |-> i, value |-> v, by |-> who]],
         \A fact \in F!Facts : fact # g => F!Readings(obs', fact) = F!Readings(obs, fact),
         mixed \subseteq mixed', bulk.phase = "cut" => mixed' = mixed, UNCHANGED bulk
  PROVE  RightInv'
<1> DEFINE made == [obs |-> i, value |-> v, by |-> who]
<1>1. \A fact \in F!Facts : canonical'[fact] = IF fact = g THEN made ELSE canonical[fact]
  BY DEF FactsInv, F!TypeOK
<1>2. made.by = who /\ made # None
  BY DEF F!Choice, F!Distinct
<1> HIDE DEF made
<1>3. ASSUME NEW fact \in F!Facts PROVE RightOf(fact)'
  <2>1. CASE fact = g
    BY <1>1, <1>2, <2>1 DEF RightOf, F!Distinct
  <2>2. CASE fact # g
    BY <1>1, <2>2, SameRight
  <2> QED BY <2>1, <2>2
<1>4. CutMixed'
  BY DEF RightInv, CutMixed
<1> QED BY <1>3, <1>4, RightNext

LEMMA PurgeRight ==
  ASSUME F!Distinct, FactsInv, RightInv, NEW fs, F!Purge(fs) PROVE RightInv'
<1>1. PICK lost \in SUBSET F!Live(obs) :
           /\ canonical' = F!Recanonical(obs', lost)
           /\ obs' \in [F!Ids -> F!Observation \cup {None}]
           /\ \A fact : F!Readings(obs', fact) = F!Readings(obs, fact) \ lost
  BY PurgeChoices
<1>2. UNCHANGED <<bulk, mixed>>
  BY DEF F!Purge
<1>3. ASSUME NEW fact \in F!Facts PROVE RightOf(fact)'
  <2>1. RightOf(fact) /\ F!Readings(obs', fact) = F!Readings(obs, fact) \ lost
    BY <1>1, RightByFact
  <2>2. CASE canonical'[fact] = canonical[fact] /\ (canonical[fact] = None \/ canonical[fact].obs \notin lost)
    <3>1. CASE canonical[fact] = None
      BY <1>2, <2>1, <2>2, <3>1 DEF RightOf
    <3>2. CASE canonical[fact] # None /\ canonical[fact].by = "auto" /\ canonical[fact].value # NaN
      <4> DEFINE c == canonical[fact].obs
      <4>1. c \in F!Readings(obs, fact) /\ c \in F!Readings(obs', fact)
        BY <2>1, <2>2, <3>2 DEF RightOf
      <4>2. ASSUME fact \notin mixed PROVE c = F!First(F!Readings(obs', fact))
        <5>1. c = F!First(F!Readings(obs, fact))
          BY <2>1, <3>2, <4>2 DEF RightOf
        <5> HIDE DEF c
        <5>2. \A j \in F!Readings(obs, fact) : c <= j
          BY <4>1, <5>1, ReadingsOfIds, FirstOf DEF F!Distinct
        <5>3. \A j \in F!Readings(obs', fact) : c <= j
          BY <2>1, <5>2
        <5> QED BY <4>1, <5>3, ReadingsOfIds, FirstIs DEF F!Distinct
      <4> QED BY <1>2, <2>2, <3>2, <4>1, <4>2 DEF RightOf
    <3>3. CASE canonical[fact] # None /\ ~ (canonical[fact].by = "auto" /\ canonical[fact].value # NaN)
      BY <2>2, <3>3 DEF RightOf
    <3> QED BY <3>1, <3>2, <3>3
  <2>3. CASE canonical'[fact] = None /\ F!Readings(obs', fact) = {}
    BY <2>3 DEF RightOf
  <2>4. CASE /\ F!First(F!Readings(obs', fact)) \in F!Readings(obs', fact)
             /\ canonical'[fact] = F!AutoChosen(obs', F!First(F!Readings(obs', fact)))
    <3> DEFINE k == F!First(F!Readings(obs', fact))
    <3>1. F!AutoChosen(obs', k) \in F!Choice /\ F!AutoChosen(obs', k).obs = k
      BY <1>1, <2>4, AutoChoice DEF F!Readings, F!AutoChosen
    <3> QED BY <2>4, <3>1 DEF RightOf, F!Distinct
  <2>5. \/ /\ canonical'[fact] = canonical[fact]
           /\ canonical[fact] = None \/ canonical[fact].obs \notin lost
        \/ canonical'[fact] = None /\ F!Readings(obs', fact) = {}
        \/ /\ F!First(F!Readings(obs', fact)) \in F!Readings(obs', fact)
           /\ canonical'[fact] = F!AutoChosen(obs', F!First(F!Readings(obs', fact)))
    <3> DEFINE o == obs'
               c == F!Recanonical(o, lost)[fact]
    <3>1. \/ c = canonical[fact] /\ (canonical[fact] = None \/ canonical[fact].obs \notin lost)
          \/ c = None /\ F!Readings(o, fact) = {}
          \/ /\ F!First(F!Readings(o, fact)) \in F!Readings(o, fact)
            /\ c = F!AutoChosen(o, F!First(F!Readings(o, fact)))
      <4> HIDE DEF o
      <4> QED BY RecanonicalOf
    <3>2. c = canonical'[fact]
      BY <1>1
    <3> HIDE DEF c
    <3> QED BY <3>1, <3>2
  <2> QED BY <2>2, <2>3, <2>4, <2>5
<1>4. CutMixed'
  BY <1>2 DEF RightInv, CutMixed
<1> QED BY <1>3, <1>4, RightNext

LEMMA BulkObservationsRight ==
  ASSUME F!Distinct, FactsInv, RightInv, NEW c \in Concepts, F!BulkObservations(c), UNCHANGED marker
  PROVE  RightInv'
<1>1. /\ UNCHANGED <<canonical, mixed>> /\ bulk'.phase \notin {"none", "cut"}
      /\ bulk.phase = "observations"
  BY DEF F!BulkObservations, F!Bulk, FactsInv, F!TypeOK
<1>2. PICK rows : Adds(obs', rows)
  BY BulkObservationsSafe
<1>3. ASSUME NEW fact \in F!Facts PROVE RightOf(fact)'
  <2>1. CASE canonical[fact] # None
    BY <1>1, <1>2, <2>1, KeptRight
  <2>2. CASE canonical[fact] = None
    BY <1>1, <2>2 DEF RightOf
  <2> QED BY <2>1, <2>2
<1>4. CutMixed'
  BY <1>1 DEF CutMixed
<1> QED BY <1>3, <1>4, RightNext

LEMMA BulkCanonicalRight ==
  ASSUME F!Distinct, FactsInv, RightInv, F!BulkCanonical PROVE RightInv'
<1>1. UNCHANGED <<obs, mixed>> /\ canonical' = F!ChosenInBulk(obs) /\ bulk'.phase = "none"
  BY DEF F!BulkCanonical, F!Bulk
<1>2. ASSUME NEW fact \in F!Facts PROVE RightOf(fact)'
  <2> DEFINE k == F!First(F!Readings(obs, fact))
  <2>1. canonical'[fact] = IF canonical[fact] = None /\ F!Readings(obs, fact) # {}
                           THEN F!AutoChosen(obs, k) ELSE canonical[fact]
    BY <1>1 DEF F!ChosenInBulk
  <2>2. CASE canonical[fact] = None /\ F!Readings(obs, fact) # {}
    <3>1. k \in F!Readings(obs, fact)
      BY <2>2, ReadingsOfIds, FirstOf DEF F!Distinct
    <3>2. F!AutoChosen(obs, k) \in F!Choice /\ F!AutoChosen(obs, k).obs = k
      BY <3>1, AutoChoice DEF F!Readings, F!AutoChosen, FactsInv, F!TypeOK
    <3> QED BY <1>1, <2>1, <2>2, <3>1, <3>2 DEF RightOf, F!Distinct
  <2>3. CASE canonical[fact] # None \/ F!Readings(obs, fact) = {}
    <3>1. RightOf(fact) /\ canonical'[fact] = canonical[fact]
      BY <2>1, <2>3, RightByFact
    <3> QED BY <1>1, <2>3, <3>1 DEF RightOf
  <2> QED BY <2>2, <2>3
<1>3. CutMixed'
  BY <1>1 DEF CutMixed
<1> QED BY <1>2, <1>3, RightNext

LEMMA QuietRight ==
  ASSUME F!Distinct, FactsInv, RightInv,
         \/ \E f \in F!Filings : F!Store(f)
         \/ F!BulkDocuments \/ F!BulkDies \/ F!BackfillEnd \/ UNCHANGED F!vars
         \/ \E g \in F!Facts : F!Backfill(g)
  PROVE  RightInv'
<1>1. obs' = obs /\ mixed \subseteq mixed' /\ (bulk'.phase = "none" => bulk.phase = "none")
  BY DEF F!Store, F!BulkDocuments, F!BulkDies, F!BackfillEnd, F!Backfill, F!Bulk, F!tables,
        F!vars, FactsInv, F!TypeOK
<1>2. ASSUME NEW fact \in F!Facts
      PROVE  /\ canonical'[fact] = None <=> canonical[fact] = None
             /\ canonical[fact] # None => /\ canonical'[fact].obs = canonical[fact].obs
                                          /\ canonical'[fact].by = canonical[fact].by
                                          /\ canonical[fact].value = NaN => canonical'[fact].value = NaN
  <2>1. CASE UNCHANGED canonical
    BY <2>1
  <2>2. ASSUME NEW g \in F!Facts, F!Backfill(g)
        PROVE  /\ canonical'[fact] = None <=> canonical[fact] = None
               /\ canonical[fact] # None => /\ canonical'[fact].obs = canonical[fact].obs
                                            /\ canonical'[fact].by = canonical[fact].by
                                            /\ canonical[fact].value = NaN => canonical'[fact].value = NaN
    <3>1. canonical[fact] # None /\ canonical[fact].value = NaN =>
            obs[canonical[fact].obs].value = NaN
      BY DEF FactsInv, Matching, F!Distinct
    <3> QED BY <2>2, <3>1, BackfillOf
  <2> QED BY <2>1, <2>2 DEF F!Store, F!BulkDocuments, F!BulkDies, F!BackfillEnd, F!tables,
          F!vars
<1>3. ASSUME NEW fact \in F!Facts PROVE RightOf(fact)'
  BY <1>1, <1>2, SameRight
<1>4. CutMixed'
  BY DEF F!Store, F!BulkDocuments, F!BulkDies, F!BackfillEnd, F!Backfill, F!tables, F!vars,
        RightInv, CutMixed
<1> QED BY <1>3, <1>4, RightNext

LEMMA RightInit == ASSUME F!Distinct, F!Init PROVE RightInv
<1>1. bulk.phase = "none"
  BY DEF F!Init, F!Bulk
<1>2. CASE F!Fresh
  <2>1. \A fact \in F!Facts : F!Readings(obs, fact) = {} /\ canonical[fact] = None
    BY <1>2 DEF F!Fresh, F!Readings, F!Live
  <2> QED BY <1>1, <2>1 DEF RightInv, F!EveryFactChosen, F!AutoIsFirst, AutoRead, CutMixed
<1>3. CASE F!Legacy
  <2>1. /\ \A i \in F!Live(obs) : /\ obs[i].value \notin F!Null /\ canonical[obs[i].fact] # None
                                /\ \A j \in F!Live(obs) : obs[i].fact = obs[j].fact => i = j
        /\ \A fact \in F!Facts : canonical[fact] # None =>
             canonical[fact].obs \in F!Live(obs) /\ obs[canonical[fact].obs].fact = fact
    BY <1>3, LegacyOf
  <2>2. ASSUME NEW fact \in F!Facts PROVE RightOf(fact)
    <3>1. F!Readings(obs, fact) # {} => canonical[fact] # None
      BY <2>1 DEF F!Readings
    <3>2. ASSUME canonical[fact] # None
          PROVE  /\ canonical[fact].obs \in F!Readings(obs, fact)
                 /\ canonical[fact].obs = F!First(F!Readings(obs, fact))
      <4> DEFINE c == canonical[fact].obs
      <4>1. c \in F!Readings(obs, fact) /\ \A j \in F!Readings(obs, fact) : j = c
        BY <2>1, <3>2 DEF F!Readings
      <4> HIDE DEF c
      <4>2. \A j \in F!Readings(obs, fact) : c <= j
        BY <4>1, ReadingsOfIds DEF F!Ids, F!Distinct
      <4>3. F!First(F!Readings(obs, fact)) = c
        BY <4>1, <4>2, ReadingsOfIds, FirstIs DEF F!Distinct
      <4> QED BY <4>1, <4>3 DEF c
    <3> QED BY <3>1, <3>2 DEF RightOf
  <2> QED BY <1>1, <2>2, RightByFact DEF CutMixed
<1> QED BY <1>2, <1>3 DEF F!Init

LEMMA RightStep ==
  ASSUME F!Distinct, FactsInv, RightInv, [F!Next]_(F!vars) PROVE RightInv'
<1>1. CASE marker /\ F!Operation /\ UNCHANGED marker
  <2>1. ASSUME NEW fs, F!Purge(fs) PROVE RightInv'
    BY <2>1, PurgeRight
  <2>2. CASE F!Derive
    <3>1. PICK rows : Adds(obs', rows)
      BY <1>1, <2>2, DeriveSafe
    <3>2. canonical' \in {F!ChosenOnAdd(obs'), F!ChosenInBulk(obs')} /\ F!Noted(obs') /\ UNCHANGED bulk
      BY <2>2 DEF F!Derive
    <3> QED BY <3>1, <3>2, AddedRight
  <2>3. ASSUME NEW p \in Periods, NEW s \in {"manual", "audited"}, NEW d \in [Concepts -> F!Raw \ {Junk}],
               F!Record(p, s, d)
        PROVE  RightInv'
    <3>1. PICK rows : Adds(obs', rows)
      BY <1>1, <2>3, RecordSafe DEF F!Sources
    <3>2. canonical' = F!ChosenOnAdd(obs') /\ F!Noted(obs') /\ UNCHANGED bulk
      BY <2>3 DEF F!Record
    <3> QED BY <3>1, <3>2, AddedRight
  <2>4. ASSUME NEW i \in F!Ids, NEW who \in Editors, F!SetCanonical(i, who) PROVE RightInv'
    <3>1. /\ obs[i] \in F!Observation /\ UNCHANGED <<obs, bulk, mixed>>
          /\ canonical' = [canonical EXCEPT ![obs[i].fact] = [obs |-> i, value |-> obs[i].value, by |-> who]]
      BY <2>4 DEF F!SetCanonical, FactsInv, F!TypeOK
    <3>2. obs[i].fact \in F!Facts /\ obs[i].value \in F!Cell
      BY <3>1 DEF F!Observation
    <3> QED BY <3>1, <3>2, HandRight
  <2>5. ASSUME NEW g \in F!Facts, NEW v \in Values \cup {NaN}, NEW who \in Editors, F!Edit(g, v, who)
        PROVE  RightInv'
    <3>1. PICK i \in F!Live(obs) :
            /\ obs[i].fact = g /\ F!Live(obs') = F!Live(obs)
            /\ \A j \in F!Live(obs) : (j # i => obs'[j] = obs[j]) /\ obs'[j].fact = obs[j].fact
            /\ canonical' = [canonical EXCEPT ![g] = [obs |-> i, value |-> v, by |-> who]]
      BY <2>5, EditedReading DEF EditedAt
    <3>2. \A fact \in F!Facts : fact # g => F!Readings(obs', fact) = F!Readings(obs, fact)
      BY <3>1 DEF F!Readings
    <3>3. UNCHANGED <<bulk, mixed>> /\ i \in F!Ids
      BY <2>5 DEF F!Edit, F!Live
    <3> QED BY <3>1, <3>2, <3>3, HandRight DEF F!Cell, F!Null
  <2>6. ASSUME NEW g \in F!Facts, NEW v \in Values \cup {NaN}, NEW who \in Editors, F!EnterFirst(g, v, who)
        PROVE  RightInv'
    <3>1. /\ nextObs \in F!Ids /\ F!Live(obs') = F!Live(obs) \cup {nextObs} /\ nextObs \notin F!Live(obs)
          /\ \A j \in F!Ids : j # nextObs => obs'[j] = obs[j]
          /\ obs'[nextObs].fact = g
          /\ canonical' = [canonical EXCEPT ![g] = [obs |-> nextObs, value |-> v, by |-> who]]
      BY <2>6, EnteredReading
    <3>2. \A fact \in F!Facts : fact # g => F!Readings(obs', fact) = F!Readings(obs, fact)
      BY <3>1 DEF F!Readings, F!Live
    <3>3. UNCHANGED bulk /\ mixed \subseteq mixed' /\ (bulk.phase = "cut" => mixed' = mixed)
      BY <2>6 DEF F!EnterFirst, F!Noted, F!Running
    <3> QED BY <3>1, <3>2, <3>3, HandRight DEF F!Cell, F!Null
  <2>7. CASE F!BulkCanonical
    BY <2>7, BulkCanonicalRight
  <2>8. ASSUME NEW c \in Concepts, F!BulkObservations(c) PROVE RightInv'
    BY <1>1, <2>8, BulkObservationsRight
  <2> QED BY <1>1, <2>1, <2>2, <2>3, <2>4, <2>5, <2>6, <2>7, <2>8, QuietRight
      DEF F!Operation
<1>2. CASE (\E g \in F!Facts : F!Backfill(g)) \/ F!BackfillEnd \/ UNCHANGED F!vars
  BY <1>2, QuietRight
<1> QED BY <1>1, <1>2 DEF F!Next

-----------------------------------------------------------------------------
(* The theorems, for the financial layer beside model administration.       *)

LEMMA RecordsFacts == Records => F!Spec
<1>1. RecordsInit => F!Init
  BY DEF RecordsInit, NoFacts, F!Init
<1>2. [RecordsNext]_<<vars, facts, side>> => [F!Next]_(F!vars)
  BY DEF RecordsNext, facts, F!vars, F!tables
<1> QED BY <1>1, <1>2, PTL DEF Records, F!Spec

LEMMA FactsHold == F!Spec => [](FactsInv /\ RightInv)
<1>1. F!Init => FactsInv /\ RightInv
  BY FinancialsDistinct, FactsInit, RightInit
<1>2. FactsInv /\ RightInv /\ [F!Next]_(F!vars) => (FactsInv /\ RightInv)'
  BY FinancialsDistinct, FactsNext, RightStep
<1> QED BY <1>1, <1>2, PTL DEF F!Spec

(* Scoring reads what the report shows, every choice is of a reading that   *)
(* is stored, and a period with a value is scored (financials.py: every     *)
(* write of financial_canonical, the trigger, the backfill), for any        *)
(* periods, concepts, return types, values, editors and observations.       *)
THEOREM CanonStays == Records => []FactsCanonical
<1>1. FactsInv => FactsCanonical
  BY CanonFollows DEF FactsCanonical
<1> QED BY <1>1, RecordsFacts, FactsHold, PTL

(* A person's choice gives way only to a person or to the loss of the       *)
(* reading it names (set_canonical, edit_value, derive_bulk's INSERT OR     *)
(* IGNORE, the trigger), for any constants.                                 *)
THEOREM PersonsChoiceStays == Records => FactsPersonStays
<1>1. FactsInv /\ [F!Next]_(F!vars) =>
        [\A fact \in F!Facts :
           /\ canonical[fact] # None /\ canonical[fact].by \in Editors
           /\ canonical'[fact] # canonical[fact]
           => \/ canonical'[fact] # None /\ canonical'[fact].by \in Editors
              \/ obs'[canonical[fact].obs] = None]_(F!vars)
  BY PersonNext, FinancialsDistinct DEF Stays
<1> QED BY <1>1, RecordsFacts, FactsHold, PTL DEF F!Spec, F!PersonStays, FactsPersonStays

(* No fact loses its value, and what no person chose is the first reading   *)
(* left whichever path chose it, outside the races of a corpus-wide         *)
(* derivation and the facts whose choice is a NaN (_add_observation,        *)
(* derive_bulk, the trigger), for any constants.                            *)
THEOREM RightlyChosenStays == Records => []FactsChosen
<1>1. RightInv => FactsChosen
  BY DEF RightInv, F!RightlyChosen, FactsChosen
<1> QED BY <1>1, RecordsFacts, FactsHold, PTL
=============================================================================
