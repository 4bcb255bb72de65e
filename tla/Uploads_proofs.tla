---------------------------- MODULE Uploads_proofs ----------------------------
(* Proofs about uploads, the sequential ingest and the resolver, for any    *)
(* returns, archives and keys, and of the composition that the runs check.  *)
EXTENDS MCReturns, FiniteSetTheorems, WellFoundedInduction, TLAPS

-----------------------------------------------------------------------------
(* Tables by id.                                                            *)

LEMMA HasLeast ==
  ASSUME NEW S \in SUBSET Nat, S # {} PROVE \E i \in S : \A j \in S : i <= j
<1>1. PICK i \in S : \A j \in S : ~ (<<j, i>> \in OpToRel(<, Nat))
  BY WFMin, NatLessThanWellFounded
<1>2. ASSUME NEW j \in S PROVE i <= j
  <2>1. ~ (<<j, i>> \in {ss \in Nat \X Nat : ss[1] < ss[2]})
    BY <1>1 DEF OpToRel
  <2> QED BY <2>1
<1> QED BY <1>2

Numbered(table) == \E n \in Nat : DOMAIN table \subseteq 1..n

LEMMA NextIsNew ==
  ASSUME NEW table, Numbered(table)
  PROVE  U!NextRow(table) \in Nat \ {0} /\ \A i \in DOMAIN table : i \in Nat \ {0} /\
           i < U!NextRow(table)
<1> DEFINE ids == DOMAIN table \cup {0}
<1>1. PICK n \in Nat : DOMAIN table \subseteq 1..n
  BY DEF Numbered
<1> DEFINE above == {i \in Nat : \A j \in ids : j <= i}
<1>2. above \in SUBSET Nat /\ n \in above
  BY <1>1
<1>3. PICK i \in above : \A j \in above : i <= j
  BY <1>2, HasLeast
<1>4. i \in ids
  <2> SUFFICES ASSUME i \notin ids PROVE FALSE
    OBVIOUS
  <2>1. i \in Nat /\ i # 0 /\ ids \subseteq Nat
    BY <1>1, <1>3
  <2>2. i - 1 \in above
    BY <1>3, <2>1
  <2> QED BY <1>3, <2>1, <2>2
<1>5. \E x \in ids : \A y \in ids : x >= y
  BY <1>1, <1>3, <1>4
<1>6. U!Max(ids) \in ids /\ \A y \in ids : U!Max(ids) >= y
  BY <1>5 DEF U!Max
<1> QED BY <1>1, <1>6 DEF U!NextRow

LEMMA FiniteSame == \A S : U!IsFiniteSet(S) <=> IsFiniteSet(S)
BY DEF IsFiniteSet, U!IsFiniteSet

LEMMA CardinalitySame == \A S : U!Cardinality(S) = Cardinality(S)
BY DEF Cardinality, U!Cardinality

LEMMA Ordered ==
  ASSUME NEW S, IsFiniteSet(S)
  PROVE  LET order == U!SetToSeq(S) IN
         /\ order \in [1..Cardinality(S) -> S] /\ Cardinality(S) \in Nat
         /\ \A x \in S : \E i \in 1..Cardinality(S) : order[i] = x
<1> DEFINE n == Cardinality(S)
           order == U!SetToSeq(S)
<1>1. n \in Nat /\ \E f \in [1..n -> S] : U!IsInjective(f)
  <2>1. n \in Nat /\ ExistsBijection(1..n, S)
    BY FS_CardinalityType
  <2> QED BY <2>1 DEF ExistsBijection, Bijection, Injection, Surjection, U!IsInjective,
          IsInjective
<1>2. order \in [1..n -> S] /\ U!IsInjective(order)
  BY <1>1, CardinalitySame DEF U!SetToSeq
<1> DEFINE T == {order[i] : i \in 1..n}
<1>3. IsFiniteSet(1..n) /\ Cardinality(1..n) = n
  BY <1>1, FS_Interval
<1>4. ExistsBijection(1..n, T)
  <2>1. order \in [1..n -> T]
    BY <1>2
  <2> QED BY <1>2, <2>1 DEF ExistsBijection, Bijection, Injection, Surjection,
          U!IsInjective, IsInjective
<1>5. T = S
  <2>1. Cardinality(T) = n
    BY <1>3, <1>4, FS_Bijection
  <2> QED BY <1>2, <2>1, FS_Subset
<1> HIDE DEF order, n
<1>6. \A x \in S : \E i \in 1..n : order[i] = x
  BY <1>5
<1> QED BY <1>1, <1>2, <1>6 DEF order, n

LEMMA AppendedRows ==
  ASSUME NEW table, Numbered(table), NEW new, IsFiniteSet(new)
  PROVE  LET u == U!Appended(table, new) IN
         /\ Numbered(u)
         /\ \A i \in DOMAIN table : i \in DOMAIN u /\ u[i] = table[i]
         /\ \A i \in DOMAIN u : i \in DOMAIN table \/ u[i] \in new
         /\ \A r \in new : \E i \in DOMAIN u : u[i] = r
<1> DEFINE first == U!NextRow(table)
           order == U!SetToSeq(new)
           n == Cardinality(new)
           more == [i \in first..(first + Len(order) - 1) |-> order[i - first + 1]]
           u == U!Appended(table, new)
<1>1. first \in Nat \ {0} /\ \A i \in DOMAIN table : i \in Nat \ {0} /\ i < first
  BY NextIsNew
<1>2. n \in Nat /\ order \in [1..n -> new] /\ \A r \in new : \E i \in 1..n : order[i] = r
  BY Ordered
<1> HIDE DEF first, order, n
<1>3. Len(order) = n
  BY <1>2
<1>4. /\ DOMAIN u = DOMAIN table \cup first..(first + n - 1)
      /\ \A i \in DOMAIN table : u[i] = table[i]
      /\ \A i \in first..(first + n - 1) : u[i] = order[i - first + 1]
  <2>1. u = U!Inserted(table, more)
    BY DEF U!Appended, first, order
  <2>2. DOMAIN more = first..(first + n - 1) /\ \A i \in DOMAIN more : more[i] =
          order[i - first + 1]
    BY <1>3
  <2>3. u = [i \in DOMAIN table \cup DOMAIN more |->
          IF i \in DOMAIN table THEN table[i] ELSE more[i]]
    BY <2>1 DEF U!Inserted
  <2> HIDE DEF u, more
  <2> QED BY <1>1, <2>2, <2>3
<1> HIDE DEF u, more
<1>5. DOMAIN u \subseteq 1..(first + n - 1)
  BY <1>1, <1>2, <1>4
<1>6. Numbered(u)
  BY <1>1, <1>2, <1>5 DEF Numbered
<1>7. \A i \in DOMAIN u : i \in DOMAIN table \/ u[i] \in new
  <2>1. ASSUME NEW i \in first..(first + n - 1) PROVE order[i - first + 1] \in new
    BY <1>1, <1>2
  <2> QED BY <1>4, <2>1
<1>8. ASSUME NEW r \in new PROVE \E i \in DOMAIN u : u[i] = r
  <2>1. PICK i \in 1..n : order[i] = r
    BY <1>2
  <2>2. first + i - 1 \in first..(first + n - 1) /\ (first + i - 1) - first + 1 = i
    BY <1>1, <1>2
  <2> QED BY <1>4, <2>1, <2>2
<1> QED BY <1>4, <1>6, <1>7, <1>8 DEF u

-----------------------------------------------------------------------------
(* What the tables always are: rows of the tables they refer to, and each   *)
(* filing with its own return's data only.                                  *)
Shaped(t) ==
  t = [orgs |-> t.orgs, filings |-> t.filings, data |-> t.data, appearances |-> t.appearances,
       addresses |-> t.addresses, parties |-> t.parties]
IsRow(a) == a = [filing |-> a.filing, from |-> a.from, slot |-> a.slot, party |-> a.party]
Right(t) ==
  /\ Shaped(t) /\ Numbered(t.filings) /\ Numbered(t.appearances) /\ Numbered(t.parties)
  /\ DOMAIN t.data = DOMAIN t.filings
  /\ \A f \in DOMAIN t.filings : t.filings[f].key \in Keys
  /\ \A i \in DOMAIN t.appearances :
       IsRow(t.appearances[i]) /\ t.appearances[i].filing \in DOMAIN t.filings
  /\ U!Own(t)

(* What the storing of returns adds: nothing that was there is taken, new    *)
(* appearances have no party.                                               *)
Grown(t, u) ==
  /\ \A f \in DOMAIN t.filings :
       /\ f \in DOMAIN u.filings /\ u.filings[f] = t.filings[f]
       /\ DOMAIN t.data[f] \subseteq DOMAIN u.data[f]
  /\ \A i \in DOMAIN t.appearances :
       i \in DOMAIN u.appearances /\ u.appearances[i] = t.appearances[i]
  /\ \A i \in DOMAIN u.appearances : i \in DOMAIN t.appearances \/ u.appearances[i].party = None
  /\ u.parties = t.parties

LEMMA GrownTwice ==
  ASSUME NEW t, NEW u, NEW v, Grown(t, u), Grown(u, v) PROVE Grown(t, v)
<1>1. ASSUME NEW f \in DOMAIN t.filings
      PROVE  f \in DOMAIN v.filings /\ v.filings[f] = t.filings[f] /\
               DOMAIN t.data[f] \subseteq DOMAIN v.data[f]
  BY DEF Grown
<1>2. ASSUME NEW i \in DOMAIN t.appearances
      PROVE  i \in DOMAIN v.appearances /\ v.appearances[i] = t.appearances[i]
  BY DEF Grown
<1>3. ASSUME NEW i \in DOMAIN v.appearances
      PROVE  i \in DOMAIN t.appearances \/ v.appearances[i].party = None
  BY DEF Grown
<1> QED BY <1>1, <1>2, <1>3 DEF Grown

LEMMA GrownSame == \A t : Grown(t, t)
BY DEF Grown

LEMMA WholeStays ==
  ASSUME NEW t, NEW u, NEW m, NEW way, Grown(t, u), U!Whole(t, m, way) PROVE U!Whole(u, m, way)
<1>1. PICK f \in U!OfKey(t, KeyOfReturn[m]) :
        /\ FieldsOf[m] \subseteq DOMAIN t.data[f]
        /\ way = "dir" \/ \A p \in U!Slots(m) : U!Taken(t, f, p)
  BY DEF U!Whole
<1>2. f \in U!OfKey(u, KeyOfReturn[m]) /\ FieldsOf[m] \subseteq DOMAIN u.data[f]
  BY <1>1 DEF Grown, U!OfKey
<1>3. ASSUME NEW p, U!Taken(t, f, p) PROVE U!Taken(u, f, p)
  BY <1>3 DEF U!Taken, Grown
<1> QED BY <1>1, <1>2, <1>3 DEF U!Whole

LEMMA FilingInserted ==
  ASSUME NEW t, Right(t), NEW key \in Keys, NEW object, NEW z
  PROVE  LET u == U!InsertFiling(t, key, object, z) IN Right(u) /\ Grown(t, u)
<1> DEFINE u == U!InsertFiling(t, key, object, z)
           f == U!NextRow(t.filings)
           row == [key |-> key, object |-> object, zip |-> z]
<1>1. CASE U!OfKey(t, key) \cup U!OfObject(t, object) # {}
  <2>1. u = t
    BY <1>1 DEF U!InsertFiling
  <2> QED BY <2>1, GrownSame
<1>2. CASE U!OfKey(t, key) \cup U!OfObject(t, object) = {}
  <2>1. /\ f \in Nat \ {0} /\ f \notin DOMAIN t.filings
        /\ \A i \in DOMAIN t.filings : i \in Nat \ {0} /\ i < f
    BY NextIsNew DEF Right
  <2>2. u = [t EXCEPT !.filings = U!Inserted(t.filings, [i \in {f} |-> row]),
                     !.data = U!Inserted(t.data, [i \in {f} |-> << >>])]
    BY <1>2 DEF U!InsertFiling
  <2> HIDE DEF u, f
  <2>3. /\ Shaped(u) /\ u.appearances = t.appearances /\ u.parties = t.parties
        /\ DOMAIN u.filings = DOMAIN t.filings \cup {f}
        /\ DOMAIN u.data = DOMAIN t.data \cup {f}
        /\ \A i \in DOMAIN t.filings : u.filings[i] = t.filings[i] /\ u.data[i] = t.data[i]
        /\ u.filings[f].key = key /\ u.data[f] = << >>
    BY <2>1, <2>2 DEF Right, Shaped, U!Inserted
  <2>4. Numbered(u.filings)
    <3>1. DOMAIN u.filings \subseteq 1..f
      BY <2>1, <2>3
    <3> QED BY <2>1, <3>1 DEF Numbered
  <2>5. Grown(t, u)
    BY <2>3 DEF Grown, Right
  <2>6. U!Own(u)
    BY <2>1, <2>3 DEF Right, U!Own
  <2>7. \A i \in DOMAIN u.appearances :
          IsRow(u.appearances[i]) /\ u.appearances[i].filing \in DOMAIN u.filings
    BY <2>3 DEF Right
  <2>8. DOMAIN u.data = DOMAIN u.filings /\ \A i \in DOMAIN u.filings :
          u.filings[i].key \in Keys
    BY <2>3 DEF Right
  <2>9. Numbered(u.appearances) /\ Numbered(u.parties)
    BY <2>3 DEF Right
  <2> QED BY <2>3, <2>4, <2>5, <2>6, <2>7, <2>8, <2>9 DEF Right, u
<1> QED BY <1>1, <1>2

LEMMA DataStored ==
  ASSUME NEW t, Right(t), NEW f \in DOMAIN t.filings, NEW fields, NEW source,
         source = None \/ KeyOfReturn[source] = t.filings[f].key
  PROVE  LET u == U!StoreData(t, f, fields, source) IN
         /\ Right(u) /\ Grown(t, u) /\ u.filings = t.filings /\
              fields \subseteq DOMAIN u.data[f]
<1> DEFINE u == U!StoreData(t, f, fields, source)
<1>1. /\ Shaped(u) /\ u.appearances = t.appearances /\ u.parties = t.parties
      /\ u.filings = t.filings /\ DOMAIN u.data = DOMAIN t.data
      /\ DOMAIN u.data[f] = DOMAIN t.data[f] \cup fields
      /\ \A c \in DOMAIN u.data[f] :
           (c \in DOMAIN t.data[f] /\ u.data[f][c] = t.data[f][c]) \/ u.data[f][c] = source
      /\ \A i \in DOMAIN t.data : i # f => u.data[i] = t.data[i]
  BY DEF U!StoreData, Right, Shaped, U!Inserted
<1> HIDE DEF u
<1>2. U!Own(u)
  BY <1>1 DEF Right, U!Own
<1>3. Grown(t, u)
  BY <1>1 DEF Grown, Right
<1>4. Right(u)
  BY <1>1, <1>2 DEF Right
<1> QED BY <1>1, <1>3, <1>4 DEF u

LEMMA GraphStored ==
  ASSUME NEW t, Right(t), NEW f \in DOMAIN t.filings, NEW m \in Members,
         KeyOfReturn[m] = t.filings[f].key
  PROVE  LET u == U!StoreGraph(t, f, m) IN
         /\ Right(u) /\ Grown(t, u) /\ u.filings = t.filings /\ u.data = t.data
         /\ \A p \in U!Slots(m) : U!Taken(u, f, p)
<1> DEFINE u == U!StoreGraph(t, f, m)
           free == {p \in U!Slots(m) : ~U!Taken(t, f, p)}
           new == {U!Appearance(f, m, p) : p \in free}
<1>1. IsFiniteSet(new)
  <2>1. IsFiniteSet(U!Slots(m))
    BY ReturnsAssumption, FiniteSame DEF U!UploadsAssumption
  <2>2. IsFiniteSet(free)
    BY <2>1, FS_Subset
  <2> DEFINE g == [p \in free |-> U!Appearance(f, m, p)]
  <2>3. g \in Surjection(free, new)
    BY DEF Surjection
  <2> QED BY <2>2, <2>3, FS_Surjection
<1>2. \A a \in new : IsRow(a) /\ a.filing = f /\ a.from = m /\ a.party = None /\ a.slot \in free
  BY DEF U!Appearance, IsRow
<1>3. ASSUME NEW p \in free PROVE \E a \in new : a.filing = f /\ a.slot = p
  <2>1. U!Appearance(f, m, p) \in new
    OBVIOUS
  <2>2. U!Appearance(f, m, p).filing = f /\ U!Appearance(f, m, p).slot = p
    BY DEF U!Appearance
  <2> QED BY <2>1, <2>2
<1> HIDE DEF new
<1>4. /\ Shaped(u) /\ u.parties = t.parties /\ u.filings = t.filings /\ u.data = t.data
      /\ u.appearances = U!Appended(t.appearances, new)
  <2> DEFINE places == U!Inserted(t.addresses, [place \in {f} \X U!Slots(m) |-> m])
             more == U!Appended(t.appearances, new)
  <2>1. u = [t EXCEPT !.addresses = places, !.appearances = more]
    BY DEF U!StoreGraph, new
  <2> HIDE DEF u, places, more
  <2>2. Shaped(u) /\ u.parties = t.parties /\ u.filings = t.filings /\ u.data = t.data /\
          u.appearances = more
    BY <2>1 DEF Right, Shaped
  <2> QED BY <2>2 DEF more
<1> HIDE DEF u
<1>5. /\ Numbered(u.appearances)
      /\ \A i \in DOMAIN t.appearances : i \in DOMAIN u.appearances /\ u.appearances[i] =
           t.appearances[i]
      /\ \A i \in DOMAIN u.appearances : i \in DOMAIN t.appearances \/ u.appearances[i] \in new
      /\ \A a \in new : \E i \in DOMAIN u.appearances : u.appearances[i] = a
  BY <1>1, <1>4, AppendedRows DEF Right
<1>6. Grown(t, u)
  BY <1>2, <1>4, <1>5 DEF Grown
<1>7. U!Own(u)
  BY <1>2, <1>4, <1>5 DEF Right, U!Own
<1>8. Right(u)
  BY <1>2, <1>4, <1>5, <1>7 DEF Right
<1>9. ASSUME NEW p \in U!Slots(m) PROVE U!Taken(u, f, p)
  <2>1. CASE U!Taken(t, f, p)
    BY <1>5, <2>1 DEF U!Taken
  <2>2. CASE p \in free
    BY <1>3, <1>5, <2>2 DEF U!Taken
  <2> QED BY <2>1, <2>2
<1> QED BY <1>4, <1>6, <1>8, <1>9 DEF u

(* A member leaves right tables after any number of its writes, and a whole *)
(* return when it is reported.                                              *)
LEMMA MemberWritten ==
  ASSUME NEW t, Right(t), NEW m \in Members, NEW z, NEW way \in U!Ways, NEW n \in 0..4
  PROVE  LET u == U!Written(t, m, z, n) IN
         Right(u) /\ Grown(t, u) /\ (U!Reported(u, way, m, n) => U!Whole(u, m, way))
<1> DEFINE u == U!Written(t, m, z, n)
           a == IF n >= 1 THEN U!UpsertOrg(t, m) ELSE t
           b == IF n >= 2 THEN U!InsertFiling(a, KeyOfReturn[m], ObjectOf[m], z) ELSE a
           f == CHOOSE f \in U!FilingsOf(b, m) : TRUE
           c == U!StoreData(b, f, FieldsOf[m], m)
           d == U!StoreGraph(c, f, m)
<1>0. KeyOfReturn[m] \in Keys
  BY ReturnsAssumption DEF U!UploadsAssumption
<1>1. Right(a) /\ Grown(t, a)
  <2>1. CASE n >= 1
    <3>1. a = [t EXCEPT !.orgs = @ \cup {EinOfKey[KeyOfReturn[m]]}]
      BY <2>1 DEF U!UpsertOrg
    <3> HIDE DEF a
    <3>2. /\ Shaped(a) /\ a.filings = t.filings /\ a.data = t.data
          /\ a.appearances = t.appearances /\ a.parties = t.parties
      BY <3>1 DEF Right, Shaped
    <3>3. Grown(t, a)
      BY <3>2 DEF Grown
    <3>4. Right(a)
      BY <3>2 DEF Right, U!Own
    <3> QED BY <3>3, <3>4
  <2>2. CASE ~ (n >= 1)
    BY <2>2, GrownSame
  <2> QED BY <2>1, <2>2
<1> HIDE DEF a
<1>2. Right(b) /\ Grown(t, b)
  <2>1. CASE n >= 2
    <3>1. Right(b) /\ Grown(a, b)
      BY <1>0, <1>1, <2>1, FilingInserted
    <3> QED BY <1>1, <3>1, GrownTwice
  <2>2. CASE ~ (n >= 2)
    BY <1>1, <2>2
  <2> QED BY <2>1, <2>2
<1>3. u = IF n < 3 \/ U!FilingsOf(b, m) = {} THEN b ELSE IF n = 3 THEN c ELSE d
  BY DEF U!Written, a
<1> HIDE DEF u, b
<1>4. CASE n < 3 \/ U!FilingsOf(b, m) = {}
  <2>1. u = b
    BY <1>3, <1>4
  <2>2. ~U!Reported(u, way, m, n)
    BY <1>4, <2>1 DEF U!Reported, U!Writes, U!Ways
  <2> QED BY <1>2, <2>1, <2>2 DEF u
<1>5. CASE ~ (n < 3 \/ U!FilingsOf(b, m) = {})
  <2>1. f \in DOMAIN b.filings /\ b.filings[f].key = KeyOfReturn[m] /\ f \in U!FilingsOf(b, m)
    BY <1>5 DEF U!FilingsOf, U!OfKey
  <2> HIDE DEF f
  <2>2. Right(c) /\ Grown(b, c) /\ c.filings = b.filings /\
          FieldsOf[m] \subseteq DOMAIN c.data[f]
    BY <1>2, <2>1, DataStored
  <2> HIDE DEF c
  <2>3. CASE n = 3
    <3>1. u = c
      BY <1>3, <1>5, <2>3
    <3>2. U!Reported(u, way, m, n) => way = "dir"
      BY <2>3 DEF U!Reported, U!Writes, U!Ways
    <3>3. way = "dir" => U!Whole(u, m, way)
      BY <2>1, <2>2, <3>1 DEF U!Whole, U!OfKey
    <3>4. Grown(t, u)
      BY <1>2, <2>2, <3>1, GrownTwice
    <3> QED BY <2>2, <3>1, <3>2, <3>3, <3>4 DEF u
  <2>4. CASE n # 3
    <3>1. u = d
      BY <1>3, <1>5, <2>4
    <3>2. /\ Right(d) /\ Grown(c, d) /\ d.filings = c.filings /\ d.data = c.data
          /\ \A p \in U!Slots(m) : U!Taken(d, f, p)
      BY <2>1, <2>2, GraphStored
    <3> HIDE DEF d
    <3>3. U!Whole(u, m, way)
      BY <2>1, <2>2, <3>1, <3>2 DEF U!Whole, U!OfKey
    <3>4. Grown(t, d)
      BY <1>2, <2>2, <3>2, GrownTwice
    <3> QED BY <3>1, <3>2, <3>3, <3>4 DEF u
  <2> QED BY <2>3, <2>4
<1> QED BY <1>4, <1>5

-----------------------------------------------------------------------------
(* The resolver.                                                            *)

LEMMA SameIdentity ==
  ASSUME NEW a, NEW b, a.from = b.from, a.slot = b.slot
  PROVE  /\ U!Identified(a) <=> U!Identified(b)
         /\ U!Identity(a) = U!Identity(b)
BY DEF U!Identified, U!Identity, U!ByEin, U!NameKey, U!NameOf, U!IsPerson, U!RecipientEin,
      U!Container

(* It changes nothing but parties.                                          *)
Relinked(t, u) ==
  /\ u.filings = t.filings /\ u.data = t.data
  /\ DOMAIN u.appearances = DOMAIN t.appearances
  /\ \A i \in DOMAIN t.appearances :
       /\ u.appearances[i].filing = t.appearances[i].filing
       /\ u.appearances[i].from = t.appearances[i].from
       /\ u.appearances[i].slot = t.appearances[i].slot

LEMMA NewFinite == ASSUME NEW t, NEW read, Numbered(read) PROVE IsFiniteSet(U!NewParties(t, read))
<1>1. PICK n \in Nat : DOMAIN read \subseteq 1..n
  BY DEF Numbered
<1>2. IsFiniteSet(DOMAIN read)
  <2>1. IsFiniteSet(1..n)
    BY FS_Interval
  <2> QED BY <1>1, <2>1, FS_Subset
<1> DEFINE each == {read[i] : i \in DOMAIN read}
           g == [i \in DOMAIN read |-> read[i]]
<1>3. g \in Surjection(DOMAIN read, each)
  BY DEF Surjection
<1>4. IsFiniteSet(each)
  BY <1>2, <1>3, FS_Surjection
<1>5. U!NewParties(t, read) \subseteq each
  BY DEF U!NewParties
<1> QED BY <1>4, <1>5, FS_Subset

LEMMA ResolvedRows ==
  ASSUME NEW t, Right(t), NEW read, Numbered(read)
  PROVE  LET u == U!Resolved(t, read)
             v == U!Appended(t.parties, U!NewParties(t, read)) IN
         /\ Right(u) /\ Relinked(t, u) /\ u.parties = v
         /\ \A i \in DOMAIN u.appearances :
              u.appearances[i].party = IF i \in DOMAIN read THEN U!Party(u, read[i].ckey)
                                       ELSE t.appearances[i].party
<1> DEFINE u == U!Resolved(t, read)
           v == U!Appended(t.parties, U!NewParties(t, read))
           w == [t EXCEPT !.parties = v]
           linked == [i \in DOMAIN t.appearances |->
                        IF i \in DOMAIN read
                        THEN [t.appearances[i] EXCEPT !.party = U!Party(w, read[i].ckey)]
                        ELSE t.appearances[i]]
<1>1. Numbered(v)
  BY NewFinite, AppendedRows DEF Right
<1>2. w.appearances = t.appearances
  BY DEF Right, Shaped
<1>3. u = [w EXCEPT !.appearances = linked]
  BY <1>2 DEF U!Resolved
<1> HIDE DEF u, v
<1>4. /\ Shaped(u) /\ u.filings = t.filings /\ u.data = t.data /\ u.parties = v /\ w.parties = v
      /\ u.appearances = linked
  <2> HIDE DEF linked
  <2> QED BY <1>3 DEF Right, Shaped
<1>5. \A key : U!Party(u, key) = U!Party(w, key)
  BY <1>4 DEF U!Party
<1>6. ASSUME NEW i \in DOMAIN t.appearances
      PROVE  /\ IsRow(linked[i])
             /\ linked[i].filing = t.appearances[i].filing /\ linked[i].from =
                  t.appearances[i].from
             /\ linked[i].slot = t.appearances[i].slot
             /\ linked[i].party = IF i \in DOMAIN read THEN U!Party(w, read[i].ckey)
                                  ELSE t.appearances[i].party
  <2> DEFINE a == t.appearances[i]
             p == U!Party(w, read[i].ckey)
  <2>1. linked[i] = IF i \in DOMAIN read THEN [a EXCEPT !.party = p] ELSE a
    BY <1>6
  <2>2. a = [filing |-> a.filing, from |-> a.from, slot |-> a.slot, party |-> a.party]
    BY <1>6 DEF Right, IsRow
  <2> HIDE DEF linked, a, p
  <2>3. CASE i \in DOMAIN read
    <3>1. linked[i] = [filing |-> a.filing, from |-> a.from, slot |-> a.slot, party |-> p]
      BY <2>1, <2>2, <2>3
    <3> QED BY <2>3, <3>1 DEF IsRow, a, p
  <2>4. CASE i \notin DOMAIN read
    BY <2>1, <2>2, <2>4 DEF IsRow, a, p
  <2> QED BY <2>3, <2>4
<1>7. DOMAIN linked = DOMAIN t.appearances
  OBVIOUS
<1> HIDE DEF linked, w
<1>8. Relinked(t, u)
  BY <1>4, <1>6, <1>7 DEF Relinked
<1>9. U!Own(u)
  BY <1>8 DEF Right, U!Own, Relinked
<1>10. Right(u)
  BY <1>1, <1>4, <1>6, <1>7, <1>9 DEF Right, Numbered
<1> QED BY <1>4, <1>5, <1>6, <1>7, <1>8, <1>10 DEF u, v

(* A party's EIN is that of its key; an appearance that was not swapped has *)
(* the party of its own identity.                                           *)
EinOfParty(p) == p.ein = IF p.ckey[1] = "O#" THEN p.ckey[2] ELSE None
Linked(t, S) ==
  /\ \A p \in DOMAIN t.parties : EinOfParty(t.parties[p])
  /\ \A i \in DOMAIN t.appearances :
       t.appearances[i].party # None =>
         /\ t.appearances[i].party \in DOMAIN t.parties
         /\ i \notin S => U!OfIdentity(t, t.appearances[i])
(* What a resolver has read is what the tables say of all rows that have    *)
(* not been purged since.                                                   *)
StillRead(t, read, S) ==
  \A i \in DOMAIN read :
    /\ EinOfParty(read[i])
    /\ i \notin S =>
         /\ i \in DOMAIN t.appearances /\ U!Identified(t.appearances[i])
         /\ read[i] = U!Identity(t.appearances[i])

LEMMA IdentityEin == ASSUME NEW a PROVE EinOfParty(U!Identity(a))
<1>1. CASE U!ByEin(a)
  BY <1>1 DEF EinOfParty, U!Identity
<1>2. CASE ~U!ByEin(a)
  BY <1>2 DEF EinOfParty, U!Identity, U!NameKey
<1> QED BY <1>1, <1>2

LEMMA ResolvedLinks ==
  ASSUME NEW t, Right(t), NEW S, Linked(t, S), NEW read, Numbered(read), NEW O,
         StillRead(t, read, O)
  PROVE  Linked(U!Resolved(t, read), (S \ DOMAIN read) \cup (O \cap DOMAIN t.appearances))
<1> DEFINE u == U!Resolved(t, read)
           new == U!NewParties(t, read)
           v == U!Appended(t.parties, new)
<1>1. /\ Relinked(t, u) /\ u.parties = v
      /\ \A i \in DOMAIN u.appearances :
           u.appearances[i].party = IF i \in DOMAIN read THEN U!Party(u, read[i].ckey)
                                    ELSE t.appearances[i].party
  BY ResolvedRows
<1>2. /\ \A p \in DOMAIN t.parties : p \in DOMAIN v /\ v[p] = t.parties[p]
      /\ \A p \in DOMAIN v : p \in DOMAIN t.parties \/ v[p] \in new
      /\ \A r \in new : \E p \in DOMAIN v : v[p] = r
  BY NewFinite, AppendedRows DEF Right
<1> HIDE DEF u, v, new
<1>3. ASSUME NEW p \in DOMAIN u.parties PROVE EinOfParty(u.parties[p])
  <2>1. CASE p \in DOMAIN t.parties
    BY <1>1, <1>2, <2>1 DEF Linked
  <2>2. CASE v[p] \in new
    <3>1. PICK i \in DOMAIN read : v[p] = read[i]
      BY <2>2 DEF new, U!NewParties
    <3> QED BY <1>1, <3>1 DEF StillRead
  <2> QED BY <1>1, <1>2, <1>3, <2>1, <2>2
<1>4. ASSUME NEW i \in DOMAIN read
      PROVE  U!Party(u, read[i].ckey) \in DOMAIN u.parties /\
               u.parties[U!Party(u, read[i].ckey)].ckey = read[i].ckey
  <2> DEFINE key == read[i].ckey
  <2>1. \E p \in DOMAIN u.parties : u.parties[p].ckey = key
    <3>1. CASE U!Known(t, key)
      BY <1>1, <1>2, <3>1 DEF U!Known
    <3>2. CASE ~U!Known(t, key)
      <4> DEFINE same == {j \in DOMAIN read : read[j].ckey = key}
      <4>1. same \in SUBSET Nat /\ i \in same
        BY DEF Numbered
      <4>2. PICK j \in same : \A k \in same : j <= k
        BY <4>1, HasLeast
      <4>3. read[j] \in new
        BY <3>2, <4>2 DEF new, U!NewParties
      <4> QED BY <1>1, <1>2, <4>2, <4>3
    <3> QED BY <3>1, <3>2
  <2> QED BY <2>1 DEF U!Party
<1> DEFINE later == (S \ DOMAIN read) \cup (O \cap DOMAIN t.appearances)
<1>5. ASSUME NEW i \in DOMAIN u.appearances, u.appearances[i].party # None
      PROVE  /\ u.appearances[i].party \in DOMAIN u.parties
             /\ i \notin later => U!OfIdentity(u, u.appearances[i])
  <2> DEFINE a == t.appearances[i]
             b == u.appearances[i]
  <2>1. /\ i \in DOMAIN t.appearances
        /\ U!Identified(b) <=> U!Identified(a)
        /\ U!Identity(b) = U!Identity(a)
    BY <1>1, SameIdentity DEF Relinked
  <2>2. CASE i \in DOMAIN read
    <3>1. b.party = U!Party(u, read[i].ckey)
      BY <1>1, <2>2
    <3>2. i \notin later => U!Identified(a) /\ read[i] = U!Identity(a)
      BY <2>1, <2>2 DEF StillRead
    <3> QED BY <1>4, <2>1, <2>2, <3>1, <3>2 DEF U!OfIdentity
  <2>3. CASE i \notin DOMAIN read
    <3>1. b.party = a.party
      BY <1>1, <2>3
    <3>2. a.party \in DOMAIN t.parties /\ (i \notin later => U!OfIdentity(t, a))
      BY <1>5, <2>1, <2>3, <3>1 DEF Linked
    <3>3. a.party \in DOMAIN u.parties /\ u.parties[a.party] = t.parties[a.party]
      BY <1>1, <1>2, <3>2
    <3> QED BY <1>5, <2>1, <3>1, <3>2, <3>3 DEF U!OfIdentity
  <2> QED BY <2>2, <2>3
<1> QED BY <1>3, <1>5 DEF Linked, u

LEMMA GrownLinked ==
  ASSUME NEW t, NEW u, NEW S, Grown(t, u), Linked(t, S) PROVE Linked(u, S)
<1>1. ASSUME NEW i \in DOMAIN u.appearances, u.appearances[i].party # None
      PROVE  /\ u.appearances[i].party \in DOMAIN u.parties
             /\ i \notin S => U!OfIdentity(u, u.appearances[i])
  BY <1>1 DEF Grown, Linked, U!OfIdentity
<1> QED BY <1>1 DEF Grown, Linked

LEMMA GrownRead ==
  ASSUME NEW t, NEW u, NEW read, NEW O, Grown(t, u), StillRead(t, read, O)
  PROVE  StillRead(u, read, O)
BY DEF Grown, StillRead

(* With parties so linked, an organization has the grants that name it, by  *)
(* either arm of the query and in either direction.                         *)
LEMMA LinkedGrants == ASSUME Right(db), Linked(db, swapped) PROVE U!MadeIsReceived
<1> DEFINE asked == DOMAIN NormalEin
           made == UNION {U!GrantsMade(db, q) : q \in asked}
           A(i) == db.appearances[i]
           To(i) == IF U!RecipientEin(A(i)) # None THEN U!RecipientEin(A(i)) ELSE U!PartyEin(db, i)
           mistaken == {i \in swapped : U!RecipientEin(A(i)) # None}
           shown(q) == {g.grant : g \in {g \in made : g.recipient = NormalEin[q]}}
<1>1. ASSUME NEW i \in U!Grants(db), i \notin swapped
      PROVE  U!PartyEin(db, i) \in {None, U!RecipientEin(A(i))}
  <2>1. CASE A(i).party = None
    BY <2>1 DEF U!PartyEin
  <2>2. CASE A(i).party # None
    <3>1. i \in DOMAIN db.appearances
      BY DEF U!Grants
    <3>2. A(i).party \in DOMAIN db.parties /\ U!OfIdentity(db, A(i)) /\
            EinOfParty(db.parties[A(i).party])
      BY <1>1, <2>2, <3>1 DEF Linked
    <3>3. U!PartyEin(db, i) = db.parties[A(i).party].ein
      BY <2>2 DEF U!PartyEin
    <3>4. db.parties[A(i).party].ckey = U!Identity(A(i)).ckey
      BY <2>2, <3>2 DEF U!OfIdentity
    <3>5. U!PartyEin(db, i) = U!Identity(A(i)).ein
      BY <3>2, <3>3, <3>4, IdentityEin DEF EinOfParty
    <3> QED BY <3>5 DEF U!Identity
  <2> QED BY <2>1, <2>2
<1>2. ASSUME NEW i \in U!Grants(db)
      PROVE  \E q \in asked : U!Grantor(db, i) = NormalEin[q]
  <2>1. db.filings[db.appearances[i].filing].key \in Keys
    BY DEF U!Grants, Right
  <2> QED BY <2>1, ReturnsAssumption DEF U!Grantor, U!UploadsAssumption
<1>3. made = {[grant |-> i, recipient |-> To(i)] : i \in U!Grants(db)}
  <2>1. \A q : U!GrantsMade(db, q) = {[grant |-> i, recipient |-> To(i)] :
          i \in {i \in U!Grants(db) : U!Grantor(db, i) = NormalEin[q]}}
    BY DEF U!GrantsMade
  <2> HIDE DEF asked, A, To
  <2> QED BY <1>2, <2>1
<1>4. ASSUME NEW q \in asked
      PROVE  /\ shown(q) \subseteq U!GrantsReceived(db, q)
             /\ U!GrantsReceived(db, q) \subseteq shown(q) \cup mistaken
  <2> DEFINE to == NormalEin[q]
  <2>1. to # None
    BY ReturnsAssumption DEF U!UploadsAssumption
  <2>2. /\ {i \in U!Grants(db) : To(i) = to} \subseteq U!GrantsReceived(db, q)
        /\ U!GrantsReceived(db, q) \subseteq {i \in U!Grants(db) : To(i) = to} \cup mistaken
    <3>1. ASSUME NEW i \in U!Grants(db), To(i) = to PROVE i \in U!GrantsReceived(db, q)
      BY <3>1 DEF U!GrantsReceived
    <3>2. ASSUME NEW i \in U!GrantsReceived(db, q), i \notin mistaken
          PROVE  i \in U!Grants(db) /\ To(i) = to
      BY <1>1, <2>1, <3>2 DEF U!GrantsReceived
    <3> QED BY <3>1, <3>2 DEF U!GrantsReceived
  <2> HIDE DEF To, made, asked, to, mistaken
  <2>3. {g.grant : g \in {g \in made : g.recipient = to}} = {i \in U!Grants(db) : To(i) = to}
    <3>1. ASSUME NEW g \in made, g.recipient = to PROVE g.grant \in U!Grants(db) /\
            To(g.grant) = to
      BY <1>3, <3>1
    <3>2. ASSUME NEW i \in U!Grants(db), To(i) = to
          PROVE  \E g \in {g \in made : g.recipient = to} : i = g.grant
      <4>1. [grant |-> i, recipient |-> To(i)] \in made
        BY <1>3
      <4> QED BY <3>2, <4>1
    <3> QED BY <3>1, <3>2
  <2> QED BY <2>2, <2>3 DEF to
<1> QED BY <1>4 DEF U!MadeIsReceived

-----------------------------------------------------------------------------
(* The inductive invariant.  An archive being stored has right tables that  *)
(* lack nothing of the committed ones.                                      *)
StoringRight ==
  txn # None =>
    /\ txn = [way |-> txn.way, zip |-> txn.zip, todo |-> txn.todo, tables |-> txn.tables,
              done |-> txn.done]
    /\ txn.way \in U!Ways /\ txn.todo \in Seq(Members)
    /\ Right(txn.tables) /\ Grown(db, txn.tables)
    /\ \A e \in txn.done : U!Whole(txn.tables, e[1], e[2])
StoresInv ==
  /\ Right(db) /\ U!StoredIsWhole /\ StoringRight
  /\ resolver # None => Numbered(resolver)

LEMMA InitStores == U!Init => StoresInv /\ Linked(db, swapped)
<1> SUFFICES ASSUME U!Init PROVE StoresInv /\ Linked(db, swapped)
  OBVIOUS
<1>1. DOMAIN << >> = {}
  OBVIOUS
<1>2. Numbered(<< >>)
  BY <1>1 DEF Numbered
<1>3. /\ db = U!Tables /\ db.filings = << >> /\ db.data = << >> /\ db.appearances = << >>
      /\ db.parties = << >>
  BY DEF U!Init, U!Tables
<1>4. Shaped(db)
  BY <1>3 DEF U!Tables, Shaped
<1>5. Right(db)
  BY <1>1, <1>2, <1>3, <1>4 DEF Right, U!Own
<1>6. U!StoredIsWhole /\ StoringRight /\ Linked(db, swapped)
  BY <1>1, <1>3 DEF U!Init, U!StoredIsWhole, StoringRight, Linked
<1> QED BY <1>5, <1>6 DEF StoresInv, U!Init

(* Tables that grow keep what is stored whole.                              *)
LEMMA GrownStores ==
  ASSUME StoresInv, NEW u, Right(u), Grown(db, u) PROVE \A e \in stored : U!Whole(u, e[1], e[2])
BY WholeStays DEF StoresInv, U!StoredIsWhole

LEMMA BeginStores ==
  ASSUME StoresInv, NEW way \in U!Ways, NEW z \in Zips, U!Begin(way, z) PROVE StoresInv'
<1>1. MembersIn[z] \in Seq(Members)
  BY ReturnsAssumption DEF U!UploadsAssumption
<1>2. StoringRight'
  BY <1>1, GrownSame DEF U!Begin, StoresInv, StoringRight
<1> QED BY <1>2 DEF U!Begin, StoresInv, U!StoredIsWhole

LEMMA StoreStores == ASSUME StoresInv, U!Store PROVE StoresInv'
<1>1. txn # None /\ txn.todo # << >> /\ UNCHANGED <<db, resolver, stored, ops>>
  BY DEF U!Store, U!Unlocked
<1>2a. PICK i \in U!Ready : \E n \in 0..U!Writes(txn.way, txn.todo[i]) :
        LET m == txn.todo[i]
            t == U!Written(txn.tables, m, txn.zip, n)
        IN txn' = [txn EXCEPT !.todo = U!RemoveAt(@, i), !.tables = t,
                             !.done = IF U!Reported(t, txn.way, m, n)
                                       THEN @ \cup {<<m, txn.way>>} ELSE @]
  BY DEF U!Store
<1>2. PICK n \in 0..U!Writes(txn.way, txn.todo[i]) :
        LET m == txn.todo[i]
            t == U!Written(txn.tables, m, txn.zip, n)
        IN txn' = [txn EXCEPT !.todo = U!RemoveAt(@, i), !.tables = t,
                             !.done = IF U!Reported(t, txn.way, m, n)
                                       THEN @ \cup {<<m, txn.way>>} ELSE @]
  BY <1>2a
<1> DEFINE m == txn.todo[i]
           t == U!Written(txn.tables, m, txn.zip, n)
           rest == U!RemoveAt(txn.todo, i)
<1>3. /\ txn = [way |-> txn.way, zip |-> txn.zip, todo |-> txn.todo, tables |-> txn.tables,
               done |-> txn.done]
      /\ txn.way \in U!Ways /\ txn.todo \in Seq(Members) /\ Right(txn.tables) /\
           Grown(db, txn.tables)
      /\ \A e \in txn.done : U!Whole(txn.tables, e[1], e[2])
  BY <1>1 DEF StoresInv, StoringRight
<1>4. i \in 1..Len(txn.todo) /\ m \in Members /\ rest \in Seq(Members)
  <2>1. i \in 1..Len(txn.todo)
    BY <1>1, <1>2, <1>3 DEF U!Ready
  <2>2. m \in Members
    BY <1>3, <2>1
  <2>3. rest \in Seq(Members)
    BY <1>3, <2>1 DEF U!RemoveAt
  <2> QED BY <2>1, <2>2, <2>3
<1>5. n \in 0..4
  BY <1>2, <1>3 DEF U!Writes, U!Ways
<1>6. Right(t) /\ Grown(txn.tables, t) /\ (U!Reported(t, txn.way, m, n) =>
        U!Whole(t, m, txn.way))
  BY <1>3, <1>4, <1>5, MemberWritten
<1>7. Grown(db, t)
  BY <1>3, <1>6, GrownTwice
<1> HIDE DEF t, m, rest
<1>8. /\ txn'.way = txn.way /\ txn'.todo = rest /\ txn'.tables = t
      /\ txn'.done =
           IF U!Reported(t, txn.way, m, n) THEN txn.done \cup {<<m, txn.way>>} ELSE txn.done
      /\ txn' = [way |-> txn'.way, zip |-> txn'.zip, todo |-> txn'.todo, tables |-> txn'.tables,
                done |-> txn'.done]
  BY <1>2, <1>3 DEF t, m, rest
<1>9. ASSUME NEW e \in txn'.done PROVE U!Whole(t, e[1], e[2])
  <2>1. CASE e \in txn.done
    BY <1>3, <1>6, <2>1, WholeStays
  <2>2. CASE e = <<m, txn.way>> /\ U!Reported(t, txn.way, m, n)
    BY <1>6, <2>2
  <2> QED BY <1>8, <2>1, <2>2
<1>10. StoringRight'
  BY <1>1, <1>3, <1>4, <1>6, <1>7, <1>8, <1>9 DEF StoringRight
<1> QED BY <1>1, <1>10 DEF StoresInv, U!StoredIsWhole

LEMMA EndStores == ASSUME StoresInv, U!Corrupt \/ U!Commit \/ U!Die PROVE StoresInv'
<1>1. CASE U!Corrupt
  <2>1. txn # None /\ UNCHANGED <<db, resolver, stored>>
    BY <1>1 DEF U!Corrupt, U!Unlocked
  <2>2. /\ txn' = [way |-> txn'.way, zip |-> txn'.zip, todo |-> txn'.todo, tables |->
             txn'.tables,
                  done |-> txn'.done]
        /\ txn'.way = txn.way /\ txn'.todo = << >> /\ txn'.tables = txn.tables
        /\ txn'.done \subseteq txn.done
    BY <1>1, <2>1 DEF U!Corrupt, StoresInv, StoringRight
  <2>3. txn'.todo \in Seq(Members)
    BY <2>2
  <2>4. StoringRight'
    BY <2>1, <2>2, <2>3 DEF StoresInv, StoringRight
  <2> QED BY <2>1, <2>4 DEF StoresInv, U!StoredIsWhole
<1>2. CASE U!Commit
  <2>1. txn # None /\ Right(txn.tables) /\ Grown(db, txn.tables) /\ txn' = None
        /\ db' = txn.tables /\ stored' = stored \cup txn.done /\ resolver' = resolver
        /\ \A e \in txn.done : U!Whole(txn.tables, e[1], e[2])
    BY <1>2 DEF U!Commit, U!Unlocked, StoresInv, StoringRight
  <2>2. \A e \in stored : U!Whole(txn.tables, e[1], e[2])
    BY <2>1, GrownStores
  <2> QED BY <2>1, <2>2 DEF StoresInv, U!StoredIsWhole, StoringRight
<1>3. CASE U!Die
  BY <1>3 DEF U!Die, StoresInv, U!StoredIsWhole, StoringRight
<1> QED BY <1>1, <1>2, <1>3

LEMMA ApiStores ==
  ASSUME StoresInv, (\E k \in Keys : U!ApiCreateFiling(k)) \/ (\E f, c : U!ApiStoreData(f, c))
  PROVE  StoresInv' /\ Grown(db, db')
<1>1. Right(db') /\ Grown(db, db')
  <2>1. ASSUME NEW k \in Keys, U!ApiCreateFiling(k) PROVE Right(db') /\ Grown(db, db')
    BY <2>1, FilingInserted DEF U!ApiCreateFiling, StoresInv
  <2>2. ASSUME NEW f, NEW c, U!ApiStoreData(f, c) PROVE Right(db') /\ Grown(db, db')
    BY <2>2, DataStored DEF U!ApiStoreData, StoresInv
  <2> QED BY <2>1, <2>2
<1>2. txn = None /\ UNCHANGED <<txn, resolver, stored>>
  BY DEF U!ApiCreateFiling, U!ApiStoreData, U!Unlocked
<1>3. \A e \in stored : U!Whole(db', e[1], e[2])
  BY <1>1, GrownStores
<1> QED BY <1>1, <1>2, <1>3 DEF StoresInv, U!StoredIsWhole, StoringRight

(* A purge takes whole filings with what hangs on them.                     *)
LEMMA PurgeStores == ASSUME StoresInv, NEW z, U!Purge(z) PROVE StoresInv'
<1> DEFINE gone == {f \in DOMAIN db.filings : db.filings[f].zip = z}
           taken == {i \in DOMAIN db.appearances : db.appearances[i].filing \in gone}
           left == DOMAIN db.appearances \ taken
<1>1. /\ txn = None /\ UNCHANGED <<txn, resolver>>
      /\ db' = [db EXCEPT !.filings = U!Restrict(@, DOMAIN @ \ gone),
                         !.data = U!Restrict(@, DOMAIN @ \ gone),
                         !.appearances = U!Restrict(@, DOMAIN @ \ taken)]
      /\ stored' = {e \in stored : U!OfKey(db, KeyOfReturn[e[1]]) \cap gone = {}}
  BY DEF U!Purge, U!Unlocked
<1>2. /\ Shaped(db) /\ Numbered(db.filings) /\ Numbered(db.appearances) /\ Numbered(db.parties)
      /\ DOMAIN db.data = DOMAIN db.filings
      /\ \A f \in DOMAIN db.filings : db.filings[f].key \in Keys
      /\ \A i \in DOMAIN db.appearances :
           IsRow(db.appearances[i]) /\ db.appearances[i].filing \in DOMAIN db.filings
      /\ U!Own(db)
  BY DEF StoresInv, Right
<1>3. /\ Shaped(db') /\ db'.parties = db.parties
      /\ db'.filings = U!Restrict(db.filings, DOMAIN db.filings \ gone)
      /\ db'.data = U!Restrict(db.data, DOMAIN db.filings \ gone)
      /\ db'.appearances = U!Restrict(db.appearances, left)
  <2> HIDE DEF gone, taken
  <2> QED BY <1>1, <1>2 DEF Shaped, left
<1> HIDE DEF gone, taken, left
<1>4. /\ DOMAIN db'.filings = DOMAIN db.filings \ gone /\ DOMAIN db'.data =
           DOMAIN db.filings \ gone
      /\ \A f \in DOMAIN db.filings \ gone :
           db'.filings[f] = db.filings[f] /\ db'.data[f] = db.data[f]
      /\ DOMAIN db'.appearances = left
      /\ \A i \in left : db'.appearances[i] = db.appearances[i]
  BY <1>3 DEF U!Restrict
<1>5. left \subseteq DOMAIN db.appearances /\ \A i \in left :
        db.appearances[i].filing \notin gone
  BY DEF left, taken
<1>6. Numbered(db'.filings) /\ Numbered(db'.appearances) /\ Numbered(db'.parties)
  <2>1. \A big, small : Numbered(big) /\ DOMAIN small \subseteq DOMAIN big => Numbered(small)
    BY DEF Numbered
  <2> QED BY <1>2, <1>3, <1>4, <1>5, <2>1
<1>7. U!Own(db')
  <2>1. \A f \in DOMAIN db'.filings : \A c \in DOMAIN db'.data[f] :
          db'.data[f][c] = None \/ KeyOfReturn[db'.data[f][c]] = db'.filings[f].key
    BY <1>2, <1>4 DEF U!Own
  <2>2. \A i \in DOMAIN db'.appearances :
          KeyOfReturn[db'.appearances[i].from] = db'.filings[db'.appearances[i].filing].key
    BY <1>2, <1>4, <1>5 DEF U!Own
  <2> QED BY <2>1, <2>2 DEF U!Own
<1>8. Right(db)'
  <2>1. \A i \in DOMAIN db'.appearances :
          IsRow(db'.appearances[i]) /\ db'.appearances[i].filing \in DOMAIN db'.filings
    BY <1>2, <1>4, <1>5
  <2>2. \A f \in DOMAIN db'.filings : db'.filings[f].key \in Keys
    BY <1>2, <1>4
  <2> QED BY <1>3, <1>4, <1>6, <1>7, <2>1, <2>2 DEF Right
<1>9. ASSUME NEW e \in stored' PROVE U!Whole(db', e[1], e[2])
  <2>1. e \in stored /\ U!OfKey(db, KeyOfReturn[e[1]]) \cap gone = {}
    BY <1>1
  <2>2. PICK f \in U!OfKey(db, KeyOfReturn[e[1]]) :
          /\ FieldsOf[e[1]] \subseteq DOMAIN db.data[f]
          /\ e[2] = "dir" \/ \A p \in U!Slots(e[1]) : U!Taken(db, f, p)
    BY <2>1 DEF StoresInv, U!StoredIsWhole, U!Whole
  <2>3. f \in DOMAIN db.filings \ gone /\ f \in U!OfKey(db', KeyOfReturn[e[1]])
    BY <1>4, <2>1, <2>2 DEF U!OfKey
  <2>4. ASSUME NEW p, U!Taken(db, f, p) PROVE U!Taken(db', f, p)
    BY <1>4, <2>3, <2>4 DEF U!Taken, left, taken
  <2> QED BY <1>4, <2>2, <2>3, <2>4 DEF U!Whole
<1> QED BY <1>1, <1>8, <1>9 DEF StoresInv, U!StoredIsWhole, StoringRight

LEMMA ResolverStores ==
  ASSUME StoresInv, U!ResolveRead \/ U!ResolveWrite \/ U!ResolveDies PROVE StoresInv'
<1>1. CASE U!ResolveRead
  <2>1. UNCHANGED <<db, txn, stored>> /\ DOMAIN resolver' \subseteq DOMAIN db.appearances
    BY <1>1 DEF U!ResolveRead
  <2>2. Numbered(resolver')
    BY <2>1 DEF StoresInv, Right, Numbered
  <2> QED BY <2>1, <2>2 DEF StoresInv, U!StoredIsWhole, StoringRight
<1>2. CASE U!ResolveWrite
  <2>1. /\ resolver # None /\ Numbered(resolver) /\ Right(db) /\ txn = None
        /\ db' = U!Resolved(db, resolver) /\ resolver' = None /\ UNCHANGED <<txn, stored>>
    BY <1>2 DEF U!ResolveWrite, U!Unlocked, StoresInv
  <2>2. Right(db') /\ Relinked(db, db')
    BY <2>1, ResolvedRows
  <2>3. ASSUME NEW e \in stored PROVE U!Whole(db', e[1], e[2])
    <3>1. U!Whole(db, e[1], e[2])
      BY DEF StoresInv, U!StoredIsWhole
    <3>2. \A f, p : U!Taken(db, f, p) => U!Taken(db', f, p)
      BY <2>2 DEF U!Taken, Relinked
    <3> QED BY <2>2, <3>1, <3>2 DEF U!Whole, U!OfKey, Relinked
  <2> QED BY <2>1, <2>2, <2>3 DEF StoresInv, U!StoredIsWhole, StoringRight
<1>3. CASE U!ResolveDies
  BY <1>3 DEF U!ResolveDies, StoresInv, U!StoredIsWhole, StoringRight
<1> QED BY <1>1, <1>2, <1>3

LEMMA NextStores == ASSUME StoresInv, [U!Next]_(U!vars) PROVE StoresInv'
<1>1. CASE UNCHANGED U!vars
  BY <1>1 DEF U!vars, StoresInv, U!StoredIsWhole, StoringRight
<1>2. CASE \E way \in U!Ways, z \in Zips : U!Begin(way, z)
  BY <1>2, BeginStores
<1>3. CASE U!Store
  BY <1>3, StoreStores
<1>4. CASE U!Corrupt \/ U!Commit \/ U!Die
  BY <1>4, EndStores
<1>5. CASE (\E k \in Keys : U!ApiCreateFiling(k)) \/ (\E f, c : U!ApiStoreData(f, c))
  BY <1>5, ApiStores
<1>6. CASE \E z \in Zips : U!Purge(z)
  BY <1>6, PurgeStores
<1>7. CASE U!ResolveRead \/ U!ResolveWrite \/ U!ResolveDies
  BY <1>7, ResolverStores
<1> QED BY <1>1, <1>2, <1>3, <1>4, <1>5, <1>6, <1>7 DEF U!Next

-----------------------------------------------------------------------------
(* What a resolver has read stays true of the rows that stay, and with it   *)
(* the links it writes.                                                     *)
LinksInv ==
  /\ StoresInv /\ Linked(db, swapped)
  /\ resolver # None => StillRead(db, resolver, overtaken)

LEMMA NextLinks == ASSUME LinksInv, [U!Next]_(U!vars) PROVE LinksInv'
<1>1. StoresInv'
  BY NextStores DEF LinksInv
<1>2. ASSUME Grown(db, db'), resolver' = resolver, UNCHANGED <<overtaken, swapped>> PROVE LinksInv'
  BY <1>1, <1>2, GrownLinked, GrownRead DEF LinksInv
<1>3. CASE UNCHANGED U!vars
  BY <1>2, <1>3, GrownSame DEF U!vars, U!links
<1>4. CASE \/ \E way \in U!Ways, z \in Zips : U!Begin(way, z)
           \/ U!Store \/ U!Corrupt \/ U!Die
  <2>1. UNCHANGED <<db, resolver, overtaken, swapped>>
    BY <1>4 DEF U!Begin, U!Store, U!Corrupt, U!Die, U!links
  <2> QED BY <1>2, <2>1, GrownSame
<1>5. CASE U!Commit
  <2>1. Grown(db, db') /\ UNCHANGED <<resolver, overtaken, swapped>>
    BY <1>5 DEF U!Commit, U!Unlocked, U!links, LinksInv, StoresInv, StoringRight
  <2> QED BY <1>2, <2>1
<1>6. CASE (\E k \in Keys : U!ApiCreateFiling(k)) \/ (\E f, c : U!ApiStoreData(f, c))
  <2>1. Grown(db, db') /\ UNCHANGED <<resolver, overtaken, swapped>>
    BY <1>6, ApiStores DEF LinksInv, U!ApiCreateFiling, U!ApiStoreData, U!links
  <2> QED BY <1>2, <2>1
<1>7. CASE \E z \in Zips : U!Purge(z)
  <2>1. PICK z \in Zips : U!Purge(z)
    BY <1>7
  <2> DEFINE gone == {f \in DOMAIN db.filings : db.filings[f].zip = z}
             taken == {i \in DOMAIN db.appearances : db.appearances[i].filing \in gone}
  <2>2. Shaped(db) /\ Linked(db, swapped)
    BY DEF LinksInv, StoresInv, Right
  <2>3. /\ db'.parties = db.parties
        /\ db'.appearances = U!Restrict(db.appearances, DOMAIN db.appearances \ taken)
        /\ swapped' = swapped \ taken /\ resolver' = resolver
        /\ resolver # None => overtaken' = overtaken \cup (DOMAIN resolver \cap taken)
    BY <2>1, <2>2 DEF U!Purge, Shaped
  <2> HIDE DEF taken
  <2>4. /\ DOMAIN db'.appearances = DOMAIN db.appearances \ taken
        /\ \A i \in DOMAIN db'.appearances : db'.appearances[i] = db.appearances[i]
    BY <2>3 DEF U!Restrict
  <2>5. Linked(db', swapped')
    BY <2>2, <2>3, <2>4 DEF Linked, U!OfIdentity
  <2>6. resolver' # None => StillRead(db', resolver', overtaken')
    BY <2>3, <2>4 DEF LinksInv, StillRead
  <2> QED BY <1>1, <2>5, <2>6 DEF LinksInv
<1>8. CASE U!ResolveRead
  <2>1. StillRead(db, resolver', overtaken') /\ db' = db /\ swapped' = swapped
    BY <1>8, IdentityEin DEF U!ResolveRead, StillRead
  <2> QED BY <1>1, <2>1 DEF LinksInv
<1>9. CASE U!ResolveWrite
  <2>1. /\ db' = U!Resolved(db, resolver) /\ resolver # None /\ resolver' = None
        /\ swapped' = (swapped \ DOMAIN resolver) \cup (overtaken \cap DOMAIN db.appearances)
    BY <1>9 DEF U!ResolveWrite
  <2>2. Linked(db', swapped')
    BY <2>1, ResolvedLinks DEF LinksInv, StoresInv
  <2> QED BY <1>1, <2>1, <2>2 DEF LinksInv
<1>10. CASE U!ResolveDies
  BY <1>1, <1>10 DEF U!ResolveDies, LinksInv
<1> QED BY <1>3, <1>4, <1>5, <1>6, <1>7, <1>8, <1>9, <1>10 DEF U!Next

-----------------------------------------------------------------------------
(* The theorems, for uploads beside whatever else the runs compose.         *)

LEMMA UploadsBesides == Returns => U!Spec
<1>1. ReturnsInit => U!Init
  BY DEF ReturnsInit
<1>2. [ReturnsNext]_<<side, mvars, uploads>> => [U!Next]_(U!vars)
  BY DEF ReturnsNext, uploads, U!vars, U!links
<1> QED BY <1>1, <1>2, PTL DEF Returns, U!Spec

LEMMA StoresHold == U!Spec => []StoresInv
BY InitStores, NextStores, PTL DEF U!Spec

LEMMA LinksHold == U!Spec => []LinksInv
<1>1. U!Init => LinksInv
  BY InitStores DEF LinksInv, U!Init
<1>2. LinksInv /\ [U!Next]_(U!vars) => LinksInv'
  BY NextLinks
<1> QED BY <1>1, <1>2, PTL DEF U!Spec

(* StoredIsWhole: whatever members failed half-way, archives broke off,     *)
(* processes died or filings were purged, a return that upload.py reported  *)
(* stored, and no purge has taken, is there with all it says.               *)
THEOREM StoredWhole == Returns => []StoredIsWhole
<1>1. StoresInv => StoredIsWhole
  BY DEF StoresInv, StoredIsWhole
<1> QED BY <1>1, UploadsBesides, StoresHold, PTL

(* OwnData: no value and no appearance is in a filing of another key, for   *)
(* any object ids (create_filing) and filing ids that are used again.       *)
THEOREM DataIsOwn == Returns => []OwnData
<1>1. StoresInv => OwnData
  BY DEF StoresInv, Right, U!OwnData, OwnData
<1> QED BY <1>1, UploadsBesides, StoresHold, PTL

(* PartyOfIdentity: every link a resolver wrote is "never a wrong merge"    *)
(* (_identity), but for rows that took the ids of rows it had read.         *)
THEOREM MergesAreRight == Returns => []PartyOfIdentity
<1>1. LinksInv => PartyOfIdentity
  BY DEF LinksInv, Linked, U!OfIdentity, U!PartyOfIdentity, PartyOfIdentity
<1> QED BY <1>1, UploadsBesides, LinksHold, PTL

(* MadeIsReceived: grants_made and grants_received of appearance.py, two    *)
(* queries that share no code, show the same grants; a mislinked grant that *)
(* has an EIN is received twice.                                            *)
THEOREM GrantsMeet == Returns => []MadeIsReceived
<1>1. LinksInv => MadeIsReceived
  BY LinkedGrants DEF LinksInv, StoresInv, MadeIsReceived
<1> QED BY <1>1, UploadsBesides, LinksHold, PTL
=============================================================================
