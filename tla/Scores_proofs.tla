---------------------------- MODULE Scores_proofs ----------------------------
(* Proofs about scores, the ranking cache and the rankings, for any        *)
(* organizations, years, returns, dimensions, factors and number of        *)
(* operations at once.                                                     *)
EXTENDS Scores, FiniteSetTheorems, SequenceTheorems, WellFoundedInduction, TLAPS

(* What the argument needs besides BoardRight: rows and operations have     *)
(* their fields, score ids are handed out once, and an operation's id still *)
(* names a row of the organization, or a manual row, if it names one.       *)
IsRow(r) == r = [org |-> r.org, year |-> r.year, model |-> r.model,
                 total |-> r.total, parts |-> r.parts]
IsOp(op) == DOMAIN op = {"kind", "at", "org", "year", "id", "value", "todo", "done"}
Writes(op) == (op.kind = "calc" /\ op.at \in {"store", "finalize"}) \/ op.kind = "grade"
Given(i) == i \in Nat /\ i < nextId
Owned(op) ==
  /\ Writes(op) => Given(op.id)
  /\ Writes(op) /\ op.id \in DOMAIN scores =>
       IF op.kind = "calc" THEN scores[op.id].org = op.org
                           ELSE scores[op.id].model = "manual"
Rows == \A i \in DOMAIN scores : Given(i) /\ IsRow(scores[i])
Running == \A t \in Threads : IsOp(ops[t]) /\ Owned(ops[t])
Shape == /\ nextId \in Nat
         /\ dim \in [Orgs -> Dims]
         /\ ops = [t \in Threads |-> ops[t]]
BoardInv == Shape /\ Rows /\ Running /\ BoardRight

-----------------------------------------------------------------------------
(* The cache.                                                               *)

C(o) == {r \in cache : r.model = "computed" /\ r.org = o}
Newest(o) == Latest(scores, dim, "computed", o)

(* The latest score depends on the scored rows of the organization and on   *)
(* its dimension.                                                           *)
LEMMA LatestSame ==
  ASSUME NEW s1, NEW s2, NEW d1, NEW d2, NEW m, NEW o, d1[o] = d2[o],
         Totalled(s1, m, o) = Totalled(s2, m, o),
         \A i \in Totalled(s1, m, o) : s1[i].total = s2[i].total /\ s1[i].year = s2[i].year
  PROVE  Latest(s1, d1, m, o) = Latest(s2, d2, m, o)
<1> DEFINE T == Totalled(s1, m, o)
           n1 == {i \in T : \A j \in T : s1[j].year <= s1[i].year}
           n2 == {i \in T : \A j \in T : s2[j].year <= s2[i].year}
<1>1. n1 = n2
  OBVIOUS
<1>2. \A i \in n1 : [model |-> m, org |-> o, total |-> s1[i].total, year |-> s1[i].year, dim |-> d1[o]]
                  = [model |-> m, org |-> o, total |-> s2[i].total, year |-> s2[i].year, dim |-> d2[o]]
  OBVIOUS
<1> HIDE DEF T
<1> QED BY <1>1, <1>2 DEF Latest, T

LEMMA LatestOf ==
  ASSUME NEW s, NEW d, NEW m, NEW o, NEW r \in Latest(s, d, m, o)
  PROVE  r.model = m /\ r.org = o
  BY DEF Latest

(* A refresh makes what it is for the latest, and leaves the rest alone.    *)
LEMMA RefreshedRows ==
  ASSUME NEW s, NEW d, NEW ms, NEW os, NEW o, cache' = Refreshed(s, d, ms, os)
  PROVE  C(o)' = IF "computed" \in ms /\ o \in os THEN Latest(s, d, "computed", o) ELSE C(o)
<1> DEFINE Kept == {r \in cache : r.model \notin ms \/ r.org \notin os}
           New == UNION {Latest(s, d, m, p) : m \in ms, p \in os}
<1>1. cache' = Kept \cup New
  BY DEF Refreshed
<1>2. \A r : r \in New <=> \E m \in ms, p \in os : r \in Latest(s, d, m, p)
  OBVIOUS
<1> HIDE DEF New
<1>3. \A r \in New : r.model = "computed" /\ r.org = o =>
        "computed" \in ms /\ o \in os /\ r \in Latest(s, d, "computed", o)
  BY <1>2, LatestOf
<1>4. "computed" \in ms /\ o \in os =>
        \A r \in Latest(s, d, "computed", o) : r \in New /\ r.model = "computed" /\ r.org = o
  BY <1>2, LatestOf
<1> QED BY <1>1, <1>3, <1>4 DEF C

(* An organization whose row, scores and dimension stay, and that is not    *)
(* struck off what is awaited or given up, stays right.                     *)
Untouched(o) == C(o)' = C(o) /\ Newest(o)' = Newest(o)
LEMMA StaysRight ==
  ASSUME BoardRight,
         \A o \in Orgs : \/ <<"computed", o>> \in (leaks \cup Awaited)'
                         \/ C(o)' = Newest(o)'
                         \/ Untouched(o) /\ <<"computed", o>> \notin leaks \cup Awaited
  PROVE  BoardRight'
  BY DEF BoardRight, C, Newest, Untouched

-----------------------------------------------------------------------------
(* The scores and the operations.                                           *)

ScoredKept(o) ==
  /\ Totalled(scores', "computed", o) = Totalled(scores, "computed", o)
  /\ \A i \in Totalled(scores, "computed", o) :
       scores'[i].total = scores[i].total /\ scores'[i].year = scores[i].year
RowsKept ==
  /\ nextId' \in Nat /\ nextId <= nextId'
  /\ \A i \in DOMAIN scores' : Given(i) =>
       /\ i \in DOMAIN scores
       /\ scores'[i].org = scores[i].org /\ scores'[i].model = scores[i].model

LEMMA NewestKept ==
  ASSUME NEW o \in Orgs, ScoredKept(o), dim'[o] = dim[o]
  PROVE  Newest(o)' = Newest(o)
  BY LatestSame DEF ScoredKept, Newest

LEMMA OneField ==
  ASSUME Rows, nextId \in Nat, UNCHANGED nextId, NEW i \in DOMAIN scores, NEW v,
         \/ scores' = [scores EXCEPT ![i].parts = v]
         \/ scores' = [scores EXCEPT ![i].total = v]
  PROVE  Rows' /\ RowsKept
  BY DEF Rows, RowsKept, Given, IsRow

LEMMA PartsKept ==
  ASSUME Rows, NEW i \in DOMAIN scores, NEW v, NEW o, scores' = [scores EXCEPT ![i].parts = v]
  PROVE  ScoredKept(o)
  BY DEF Rows, ScoredKept, Totalled, IsRow

LEMMA TotalKept ==
  ASSUME Rows, NEW i \in DOMAIN scores, NEW v, NEW o, scores' = [scores EXCEPT ![i].total = v],
         scores[i].model # "computed" \/ scores[i].org # o
  PROVE  ScoredKept(o)
  BY DEF Rows, ScoredKept, Totalled, IsRow

LEMMA Created ==
  ASSUME Rows, nextId \in Nat, NEW o, NEW y, NEW m, Create(o, y, m)
  PROVE  Rows' /\ RowsKept /\ \A p : ScoredKept(p)
<1>1. CASE At(m, o, y) # {}
  BY <1>1 DEF Create, Rows, RowsKept, ScoredKept, Given, IsRow
<1>2. CASE At(m, o, y) = {}
  <2>1. nextId \notin DOMAIN scores
    BY DEF Rows, Given
  <2>2. /\ DOMAIN scores' = DOMAIN scores \cup {nextId} /\ nextId' = nextId + 1
        /\ \A i \in DOMAIN scores : scores'[i] = scores[i]
        /\ scores'[nextId] = NewRow(o, y, m)
    BY <1>2, <2>1 DEF Create, With
  <2>3. IsRow(NewRow(o, y, m)) /\ NewRow(o, y, m).total = None
    BY DEF IsRow, NewRow
  <2>4. \A p : Totalled(scores', "computed", p) = Totalled(scores, "computed", p)
    BY <2>1, <2>2, <2>3 DEF Totalled
  <2>5. \A p : ScoredKept(p)
    BY <2>2, <2>4 DEF ScoredKept, Totalled
  <2>6. Rows'
    BY <2>2, <2>3 DEF Rows, Given, IsRow
  <2>7. RowsKept
    BY <2>2 DEF RowsKept, Given
  <2> QED BY <2>5, <2>6, <2>7
<1> QED BY <1>1, <1>2

(* An operation that no step of its own moves stays one.                    *)
LEMMA RunningKept ==
  ASSUME Shape, Running, RowsKept, NEW t \in Threads, IsOp(ops'[t]),
         ops[t] = ops'[t] \/ Owned(ops[t])'
  PROVE  IsOp(ops[t])' /\ Owned(ops[t])'
  BY DEF Shape, Running, RowsKept, IsOp, Owned, Given, Writes

LEMMA Closing ==
  ASSUME Shape, Running, RowsKept, Rows', BoardRight', dim' \in [Orgs -> Dims],
         NEW t \in Threads, NEW q, ops' = [ops EXCEPT ![t] = q], IsOp(q),
         Owned(ops[t])'
  PROVE  BoardInv'
<1>1. Shape'
  BY DEF Shape, RowsKept
<1>2. Running'
  BY RunningKept DEF Shape, Running
<1> QED BY <1>1, <1>2 DEF BoardInv

LEMMA ClosingIdle ==
  ASSUME Shape, Running, RowsKept, Rows', BoardRight', dim' \in [Orgs -> Dims], UNCHANGED ops
  PROVE  BoardInv'
<1>1. Shape'
  BY DEF Shape, RowsKept
<1>2. Running'
  BY RunningKept DEF Shape, Running
<1> QED BY <1>1, <1>2 DEF BoardInv

LEMMA AwaitedStep ==
  ASSUME Shape, NEW t \in Threads, NEW q, ops' = [ops EXCEPT ![t] = q], NEW p
  PROVE  /\ p \in Pending(q) => p \in Awaited'
         /\ p \notin Awaited' /\ p \notin Pending(ops[t]) => p \notin Awaited
<1>1. p \in Awaited' <=> \E s \in Threads : p \in Pending(ops'[s])
  BY DEF Awaited
<1>2. p \in Awaited <=> \E s \in Threads : p \in Pending(ops[s])
  BY DEF Awaited
<1>3. \A s \in Threads : ops'[s] = IF s = t THEN q ELSE ops[s]
  BY DEF Shape
<1> QED BY <1>1, <1>2, <1>3

LEMMA PendingOf ==
  ASSUME NEW op
  PROVE  /\ op.kind = "calc" =>
              Pending(op) = IF op.at = "cache" THEN {"computed"} \X {op.org} ELSE {}
         /\ op.kind = "batch" => Pending(op) = {"computed"} \X op.done
         /\ op.kind \in {"edit", "classify"} => Pending(op) = Models \X op.done
         /\ op.kind \in {"grade", "idle"} => Pending(op) = {}
  BY DEF Pending

Moved(op, q, at) ==
  IsOp(q) /\ q.kind = op.kind /\ q.at = at /\ q.org = op.org /\ q.done = op.done
LEMMA QuietOp == IsOp(Quiet) /\ Pending(Quiet) = {} /\ ~Writes(Quiet)
  BY DEF Quiet, Op, IsOp, Pending, Writes

-----------------------------------------------------------------------------
(* The steps.                                                               *)

(* A step that leaves the cache, and what is given up, alone: the scores it *)
(* changes are of an organization that it then awaits a refresh for.        *)
LEMMA OpStep ==
  ASSUME BoardInv, NEW t \in Threads, NEW q, ops' = [ops EXCEPT ![t] = q], IsOp(q),
         UNCHANGED cache, dim' \in [Orgs -> Dims], leaks \subseteq leaks',
         Rows', RowsKept, Owned(ops[t])',
         \A o \in Orgs : \/ <<"computed", o>> \in Pending(q) \cup leaks'
                         \/ /\ ScoredKept(o) /\ dim'[o] = dim[o]
                            /\ <<"computed", o>> \notin Pending(ops[t])
  PROVE  BoardInv'
<1>1. ASSUME NEW o \in Orgs, <<"computed", o>> \notin (leaks \cup Awaited)'
      PROVE  Untouched(o) /\ <<"computed", o>> \notin leaks \cup Awaited
  <2>1. ScoredKept(o) /\ dim'[o] = dim[o] /\ <<"computed", o>> \notin Pending(ops[t])
    BY <1>1, AwaitedStep DEF BoardInv
  <2>2. Newest(o)' = Newest(o)
    BY <2>1, NewestKept
  <2> QED BY <1>1, <2>1, <2>2, AwaitedStep DEF BoardInv, Untouched, C
<1>2. BoardRight'
  BY <1>1, StaysRight DEF BoardInv
<1> QED BY <1>2, Closing DEF BoardInv, Shape

LEMMA ThreadStep ==
  ASSUME BoardInv, NEW t \in Threads, NEW q, ops' = [ops EXCEPT ![t] = q], IsOp(q),
         UNCHANGED <<cache, dim>>, leaks \subseteq leaks', Rows', RowsKept, Owned(ops[t])',
         \A o \in Orgs : \/ <<"computed", o>> \in Pending(q) \cup leaks'
                         \/ ScoredKept(o) /\ <<"computed", o>> \notin Pending(ops[t])
  PROVE  BoardInv'
<1>1. dim' \in [Orgs -> Dims]
  BY DEF BoardInv, Shape
<1> QED BY <1>1, OpStep

LEMMA NothingStored ==
  ASSUME BoardInv, UNCHANGED <<scores, nextId>>
  PROVE  Rows' /\ RowsKept /\ \A o : ScoredKept(o)
  BY DEF BoardInv, Shape, Rows, RowsKept, ScoredKept, Given, IsRow

LEMMA EndStep ==
  ASSUME BoardInv, NEW t \in Threads, End(t), UNCHANGED <<cache, dim, scores, nextId>>,
         leaks \subseteq leaks',
         \A o \in Orgs : <<"computed", o>> \in leaks' \/ <<"computed", o>> \notin Pending(ops[t])
  PROVE  BoardInv'
<1>1. ops' = [ops EXCEPT ![t] = Quiet]
  BY DEF End
<1>2. Owned(ops[t])'
  BY <1>1, QuietOp DEF BoardInv, Shape, Owned
<1> QED BY <1>1, <1>2, QuietOp, NothingStored, ThreadStep

LEMMA CalcSafe ==
  ASSUME BoardInv, NEW t \in Threads,
         \/ \E o \in Orgs, y \in Years, v \in Totals : CalcStart(t, o, y, v)
         \/ CalcCreate(t) \/ CalcStore(t) \/ CalcFinalize(t)
  PROVE  BoardInv'
<1>0. IsOp(ops[t]) /\ Owned(ops[t]) /\ Shape /\ Rows
  BY DEF BoardInv, Running
<1> USE QuietOp
<1>1. CASE \E o \in Orgs, y \in Years, v \in Totals : CalcStart(t, o, y, v)
  <2>1. PICK o \in Orgs, y \in Years, v \in Totals : CalcStart(t, o, y, v)
    BY <1>1
  <2> DEFINE q == [Op("calc", "create") EXCEPT !.org = o, !.year = y, !.value = v]
  <2>5. IsOp(q) /\ Pending(q) = {} /\ ~Writes(q)
    BY PendingOf DEF Op, IsOp, Writes
  <2>6. Pending(ops[t]) = {}
    BY <2>1, PendingOf DEF CalcStart, Start, Idle
  <2> HIDE DEF q
  <2>3. ops' = [ops EXCEPT ![t] = q] /\ UNCHANGED <<scores, cache, dim, leaks, nextId>>
    BY <2>1 DEF CalcStart, Start, q
  <2>4. Owned(ops[t])'
    BY <1>0, <2>5, <2>3 DEF Shape, Owned
  <2> QED BY <2>5, <2>6, <2>3, <2>4, NothingStored, ThreadStep
<1>2. CASE CalcCreate(t)
  <2> DEFINE op == ops[t]
             id == CreatedId(op.org, op.year, "computed")
             q == [op EXCEPT !.at = "store", !.id = id]
  <2>0. op.kind = "calc" /\ op.at = "create" /\ Pending(op) = {}
    BY <1>2 DEF CalcCreate, Is, Pending
  <2>1. CASE <<op.org, op.year>> \in filings
    <3>1. /\ Create(op.org, op.year, "computed") /\ ops' = [ops EXCEPT ![t] = q]
          /\ UNCHANGED <<cache, dim, leaks>>
      BY <1>2, <2>1 DEF CalcCreate
    <3>2. Rows' /\ RowsKept /\ \A p : ScoredKept(p)
      BY <1>0, <3>1, Created DEF Shape
    <3>6. Moved(op, q, "store") /\ q.id = id
      BY <1>0 DEF IsOp, Moved
    <3>3. IsOp(q) /\ q.kind = "calc" /\ q.org = op.org /\ q.id = id /\ Pending(q) = {}
      <4> HIDE DEF q, id, op
      <4>1. IsOp(q) /\ q.kind = "calc" /\ q.org = op.org /\ q.id = id /\ q.at = "store"
        BY <2>0, <3>6 DEF Moved
      <4> QED BY <4>1, PendingOf
    <3>4. id \in Nat /\ id < nextId' /\ (id \in DOMAIN scores' => scores'[id].org = op.org)
      <4>1. CASE At("computed", op.org, op.year) # {}
        BY <1>0, <3>1, <4>1 DEF Create, CreatedId, Rows, Given, At, Ids
      <4>2. CASE At("computed", op.org, op.year) = {}
        <5>1. id = nextId /\ nextId' = nextId + 1 /\ id \notin DOMAIN scores
          BY <1>0, <3>1, <4>2 DEF Create, CreatedId, Rows, Given
        <5>2. scores'[id].org = op.org
          BY <3>1, <4>2, <5>1 DEF Create, With, NewRow
        <5> QED BY <1>0, <5>1, <5>2 DEF Shape
      <4> QED BY <4>1, <4>2
    <3> HIDE DEF q, id, op
    <3>5. Owned(ops[t])'
      BY <1>0, <3>1, <3>3, <3>4 DEF Shape, Owned, Given
    <3> QED BY <2>0, <3>1, <3>2, <3>3, <3>5, ThreadStep DEF op
  <2>2. CASE <<op.org, op.year>> \notin filings
    BY <1>2, <2>0, <2>2, EndStep DEF CalcCreate
  <2> QED BY <2>1, <2>2
<1>3. CASE CalcStore(t)
  <2> DEFINE op == ops[t]
             q == [op EXCEPT !.at = "finalize"]
  <2>0. op.kind = "calc" /\ op.at = "store" /\ Pending(op) = {}
    BY <1>3, PendingOf DEF CalcStore, Is
  <2>1. CASE op.id \in DOMAIN scores
    <3>1. PICK v : scores' = [scores EXCEPT ![op.id].parts = v]
      BY <1>3, <2>1 DEF CalcStore
    <3>2. ops' = [ops EXCEPT ![t] = q] /\ UNCHANGED <<cache, dim, leaks, nextId>>
      BY <1>3, <2>1 DEF CalcStore, Goto
    <3>3. Moved(op, q, "finalize") /\ q.id = op.id
      BY <1>0 DEF IsOp, Moved
    <3> HIDE DEF q, op
    <3>4. Rows' /\ RowsKept /\ \A o : ScoredKept(o)
      BY <1>0, <2>1, <3>1, <3>2, OneField, PartsKept DEF Shape
    <3>5. q.kind = "calc" /\ Pending(q) = {} /\ IsOp(q)
      BY <2>0, <3>3, PendingOf DEF Moved
    <3>6. Owned(ops[t])'
      BY <1>0, <2>0, <3>1, <3>2, <3>3, <3>4, <3>5 DEF Shape, Owned, Given, Writes, RowsKept,
            Moved, op
    <3> QED BY <2>0, <3>2, <3>4, <3>5, <3>6, ThreadStep DEF op
  <2>2. CASE op.id \notin DOMAIN scores
    BY <1>3, <2>0, <2>2, EndStep DEF CalcStore
  <2> QED BY <2>1, <2>2
<1>4. CASE CalcFinalize(t)
  <2> DEFINE op == ops[t]
             q == [op EXCEPT !.at = "cache"]
  <2>0. op.kind = "calc" /\ op.at = "finalize" /\ Pending(op) = {}
    BY <1>4, PendingOf DEF CalcFinalize, Is
  <2>1. Totalling(op.id, op.value) /\ ops' = [ops EXCEPT ![t] = q]
        /\ UNCHANGED <<cache, dim, leaks, nextId>>
    BY <1>4 DEF CalcFinalize, Goto
  <2>2. Moved(op, q, "cache") /\ q.id = op.id
    BY <1>0 DEF IsOp, Moved
  <2> HIDE DEF q
  <2>3. IsOp(q) /\ ~Writes(q) /\ Pending(q) = {"computed"} \X {op.org}
    BY <2>0, <2>2, PendingOf DEF Moved, Writes
  <2>4. Owned(ops[t])'
    BY <1>0, <2>1, <2>3 DEF Shape, Owned
  <2>5. Rows' /\ RowsKept /\ \A o : o = op.org \/ ScoredKept(o)
    <3>1. CASE op.id \in DOMAIN scores
      <4>1. scores' = [scores EXCEPT ![op.id].total = op.value]
        BY <2>1, <3>1 DEF Totalling
      <4>2. scores[op.id].org = op.org
        BY <1>0, <2>0, <3>1 DEF Owned, Writes
      <4> QED BY <1>0, <2>1, <3>1, <4>1, <4>2, OneField, TotalKept DEF Shape
    <3>2. CASE op.id \notin DOMAIN scores
      BY <2>1, <3>2, NothingStored DEF Totalling
    <3> QED BY <3>1, <3>2
  <2> QED BY <2>0, <2>1, <2>3, <2>4, <2>5, ThreadStep
<1> QED BY <1>1, <1>2, <1>3, <1>4

LEMMA GradeSafe ==
  ASSUME BoardInv, NEW t \in Threads,
         \/ \E i \in DOMAIN scores, f \in Factors, v \in Totals : GradeStart(t, i, f, v)
         \/ GradeFactor(t) \/ GradeSum(t) \/ GradeFinalize(t)
  PROVE  BoardInv'
<1> DEFINE op == ops[t]
<1>0. IsOp(op) /\ Owned(op) /\ Shape /\ Rows
  BY DEF BoardInv, Running
<1>1. CASE \E i \in DOMAIN scores, f \in Factors, v \in Totals : GradeStart(t, i, f, v)
  <2>1. PICK i \in DOMAIN scores, f \in Factors, v \in Totals : GradeStart(t, i, f, v)
    BY <1>1
  <2> DEFINE q == [Op("grade", "factor") EXCEPT !.id = i, !.org = f, !.value = v]
  <2>2. IsOp(q) /\ q.kind = "grade" /\ q.id = i
    BY DEF Op, IsOp
  <2> HIDE DEF q
  <2>3. ops' = [ops EXCEPT ![t] = q] /\ UNCHANGED <<scores, cache, dim, leaks, nextId>>
    BY <2>1 DEF GradeStart, Start, q
  <2>4. Pending(op) = {} /\ Pending(q) = {}
    BY <2>1, <2>2, PendingOf DEF GradeStart, Start, Idle
  <2>5. Owned(ops[t])'
    BY <1>0, <2>1, <2>2, <2>3 DEF GradeStart, Shape, Owned, Rows, Given
  <2> QED BY <2>2, <2>3, <2>4, <2>5, NothingStored, ThreadStep
<1>2. CASE GradeFactor(t)
  <2> DEFINE q == [op EXCEPT !.at = "sum"]
  <2>0. op.kind = "grade" /\ Pending(op) = {}
    BY <1>2, PendingOf DEF GradeFactor, Is
  <2>1. CASE op.id \in DOMAIN scores
    <3>1. PICK v : scores' = [scores EXCEPT ![op.id].parts = v]
      BY <1>2, <2>1 DEF GradeFactor
    <3>2. ops' = [ops EXCEPT ![t] = q] /\ UNCHANGED <<cache, dim, leaks, nextId>>
      BY <1>2, <2>1 DEF GradeFactor, Goto
    <3>3. Moved(op, q, "sum") /\ q.id = op.id
      BY <1>0 DEF IsOp, Moved
    <3> HIDE DEF q, op
    <3>4. Rows' /\ RowsKept /\ \A o : ScoredKept(o)
      BY <1>0, <2>1, <3>1, <3>2, OneField, PartsKept DEF Shape
    <3>5. q.kind = "grade" /\ Pending(q) = {} /\ IsOp(q)
      BY <2>0, <3>3, PendingOf DEF Moved
    <3>6. Owned(ops[t])'
      BY <1>0, <2>0, <3>1, <3>2, <3>3, <3>4, <3>5 DEF Shape, Owned, Given, Writes, RowsKept,
            Moved, op
    <3> QED BY <2>0, <3>2, <3>4, <3>5, <3>6, ThreadStep DEF op
  <2>2. CASE op.id \notin DOMAIN scores
    BY <1>2, <2>0, <2>2, EndStep DEF GradeFactor
  <2> QED BY <2>1, <2>2
<1>3. CASE GradeSum(t)
  <2> DEFINE q == [op EXCEPT !.value = SumWeighted(op.id), !.at = "finalize"]
  <2>0. op.kind = "grade" /\ Pending(op) = {}
    BY <1>3, PendingOf DEF GradeSum, Is
  <2>1. ops' = [ops EXCEPT ![t] = q] /\ UNCHANGED <<scores, cache, dim, leaks, nextId>>
    BY <1>0, <1>3 DEF GradeSum, Shape
  <2>2. Moved(op, q, "finalize") /\ q.id = op.id
    BY <1>0 DEF IsOp, Moved
  <2> HIDE DEF q
  <2>3. q.kind = "grade" /\ Pending(q) = {} /\ IsOp(q)
    BY <2>0, <2>2, PendingOf DEF Moved
  <2>4. Owned(ops[t])'
    BY <1>0, <2>0, <2>1, <2>2, <2>3 DEF Shape, Owned, Given, Writes
  <2> QED BY <2>0, <2>1, <2>3, <2>4, NothingStored, ThreadStep
<1>4. CASE GradeFinalize(t)
  <2>0. op.kind = "grade" /\ Pending(op) = {}
    BY <1>4, PendingOf DEF GradeFinalize, Is
  <2>1. CASE op.id \in DOMAIN scores
    <3>1. scores' = [scores EXCEPT ![op.id].total = op.value]
      BY <1>4, <2>1 DEF GradeFinalize, Totalling
    <3>2. ops' = [ops EXCEPT ![t] = Quiet] /\ UNCHANGED <<cache, dim, leaks, nextId>>
      BY <1>4 DEF GradeFinalize, End
    <3>3. scores[op.id].model # "computed"
      BY <1>0, <2>0, <2>1 DEF Owned, Writes
    <3> HIDE DEF op
    <3>4. Rows' /\ RowsKept /\ \A o : ScoredKept(o)
      BY <1>0, <2>1, <3>1, <3>2, <3>3, OneField, TotalKept DEF Shape
    <3>5. Owned(ops[t])'
      BY <1>0, <3>2, QuietOp DEF Shape, Owned
    <3> QED BY <2>0, <3>2, <3>4, <3>5, QuietOp, ThreadStep DEF op
  <2>2. CASE op.id \notin DOMAIN scores
    BY <1>4, <2>0, <2>2, EndStep DEF GradeFinalize, Totalling
  <2> QED BY <2>1, <2>2
<1> QED BY <1>1, <1>2, <1>3, <1>4

(* A request that is one transaction, with nothing to refresh after it.     *)
LEMMA PlainStep ==
  ASSUME BoardInv, UNCHANGED <<cache, dim, ops>>, leaks \subseteq leaks', Rows', RowsKept,
         \A o \in Orgs : <<"computed", o>> \in leaks' \/ ScoredKept(o)
  PROVE  BoardInv'
<1>1. Awaited' = Awaited
  BY DEF Awaited
<1>2. ASSUME NEW o \in Orgs, <<"computed", o>> \notin (leaks \cup Awaited)' PROVE Untouched(o)
  BY <1>2, NewestKept DEF Untouched, C
<1>3. BoardRight'
  BY <1>1, <1>2, StaysRight DEF BoardInv
<1> QED BY <1>3, ClosingIdle DEF BoardInv, Shape

LEMMA PlainSafe ==
  ASSUME BoardInv,
         \/ \E o \in Orgs, y \in Years : Anchor(o, y) \/ StoreFiling(o, y)
         \/ \E i \in DOMAIN scores, v \in Totals :
              PostTotal(i, v) \/ \E f \in FactorsOf(scores[i].model) : PostFactor(i, f, v)
  PROVE  BoardInv'
<1>0. Shape /\ Rows
  BY DEF BoardInv
<1>1. ASSUME NEW o, NEW y, Anchor(o, y) PROVE BoardInv'
  BY <1>0, <1>1, Created, PlainStep DEF Anchor, Shape
<1>2. ASSUME NEW o, NEW y, StoreFiling(o, y) PROVE BoardInv'
  BY <1>2, NothingStored, PlainStep DEF StoreFiling
<1>3. ASSUME NEW i \in DOMAIN scores, NEW v, PostTotal(i, v) PROVE BoardInv'
  <2>1. /\ scores' = [scores EXCEPT ![i].total = v] /\ UNCHANGED <<cache, dim, ops, nextId>>
        /\ leaks' = leaks \cup {<<scores[i].model, scores[i].org>>}
    BY <1>3 DEF PostTotal, Totalling
  <2>2. Rows' /\ RowsKept
    BY <1>0, <2>1, OneField DEF Shape
  <2>3. \A o : scores[i].model # "computed" \/ scores[i].org # o => ScoredKept(o)
    BY <1>0, <2>1, TotalKept
  <2> QED BY <2>1, <2>2, <2>3, PlainStep
<1>4. ASSUME NEW i \in DOMAIN scores, NEW f, NEW v, PostFactor(i, f, v) PROVE BoardInv'
  <2>1. PICK w : scores' = [scores EXCEPT ![i].parts = w]
    BY <1>4 DEF PostFactor
  <2>2. UNCHANGED <<cache, dim, ops, nextId, leaks>>
    BY <1>4 DEF PostFactor
  <2> QED BY <1>0, <2>1, <2>2, OneField, PartsKept, PlainStep DEF Shape
<1> QED BY <1>1, <1>2, <1>3, <1>4

LEMMA RefreshSafe ==
  ASSUME BoardInv, NEW t \in Threads, Refresh(t) \/ RefreshFails(t)
  PROVE  BoardInv'
<1> DEFINE op == ops[t]
           ms == Scope(op)[1]
           os == Scope(op)[2]
<1>0. Shape /\ Rows /\ Running /\ BoardRight
  BY DEF BoardInv
<1>1. CASE Refresh(t)
  <2>1. /\ cache' = Refreshed(scores, dim, ms, os) /\ leaks' = leaks \ (ms \X os)
        /\ ops' = [ops EXCEPT ![t] = Quiet] /\ UNCHANGED <<dim, scores, nextId>>
    BY <1>1 DEF Refresh, End
  <2>2. Rows' /\ RowsKept
    BY <2>1, NothingStored
  <2>3. ASSUME NEW o \in Orgs, <<"computed", o>> \notin (leaks \cup Awaited)'
        PROVE  \/ C(o)' = Newest(o)'
               \/ Untouched(o) /\ <<"computed", o>> \notin leaks \cup Awaited
    <3>1. Newest(o)' = Newest(o)
      BY <2>1 DEF Newest
    <3>2. CASE "computed" \in ms /\ o \in os
      BY <2>1, <3>1, <3>2, RefreshedRows DEF Newest
    <3>3. CASE ~("computed" \in ms /\ o \in os)
      <4>1. C(o)' = C(o)
        <5> HIDE DEF ms, os, op
        <5>1. cache' = Refreshed(scores, dim, ms, os)
          BY <2>1
        <5>2. C(o)' = IF "computed" \in ms /\ o \in os THEN Latest(scores, dim, "computed", o) ELSE C(o)
          BY <5>1, RefreshedRows
        <5> QED BY <3>3, <5>2
      <4>2. <<"computed", o>> \notin Pending(op)
        BY <3>3, PendingOf DEF Scope, Models, Pending
      <4>3. <<"computed", o>> \notin leaks
        BY <2>1, <2>3, <3>3
      <4> QED BY <1>0, <2>1, <2>3, <3>1, <4>1, <4>2, <4>3, AwaitedStep DEF Untouched
    <3> QED BY <3>2, <3>3
  <2>4. BoardRight'
    BY <1>0, <2>3, StaysRight
  <2>5. Owned(ops[t])'
    BY <1>0, <2>1, QuietOp DEF Shape, Owned
  <2> QED BY <1>0, <2>1, <2>2, <2>4, <2>5, QuietOp, Closing DEF Shape
<1>2. CASE RefreshFails(t)
  <2>1. End(t) /\ UNCHANGED <<dim, scores, nextId>>
    BY <1>2 DEF RefreshFails
  <2>2. CASE leaks' = leaks \cup Pending(op) /\ cache' = cache
    BY <2>1, <2>2, EndStep
  <2>3. CASE leaks' = leaks \cup ({"computed"} \X Orgs)
    <3>1. BoardRight'
      BY <2>3 DEF BoardRight
    <3>2. ops' = [ops EXCEPT ![t] = Quiet]
      BY <2>1 DEF End
    <3>3. Owned(ops[t])'
      BY <1>0, <3>2, QuietOp DEF Shape, Owned
    <3> QED BY <1>0, <2>1, <3>1, <3>2, <3>3, NothingStored, QuietOp, Closing DEF Shape
  <2> QED BY <1>2, <2>2, <2>3 DEF RefreshFails
<1> QED BY <1>1, <1>2

LEMMA EditSafe ==
  ASSUME BoardInv, NEW t \in Threads,
         (\E o \in Orgs, d \in Dims : EditOrg(t, o, d)) \/ Classify(t) \/ Abort(t)
  PROVE  BoardInv'
<1>0. Shape
  BY DEF BoardInv
<1>1. CASE \E o \in Orgs, d \in Dims : EditOrg(t, o, d)
  <2>1. PICK o \in Orgs, d \in Dims : EditOrg(t, o, d)
    BY <1>1
  <2> DEFINE q == [Op("edit", "cache") EXCEPT !.done = {o}]
  <2>2. IsOp(q) /\ q.kind = "edit" /\ q.done = {o}
    BY DEF Op, IsOp
  <2> HIDE DEF q
  <2>3. /\ ops' = [ops EXCEPT ![t] = q] /\ dim' = [dim EXCEPT ![o] = d]
        /\ UNCHANGED <<scores, cache, leaks, nextId>> /\ ops[t].kind = "idle"
    BY <2>1 DEF EditOrg, Start, Idle, q
  <2>4. Pending(ops[t]) = {} /\ Pending(q) = Models \X {o} /\ ~Writes(q)
    BY <2>2, <2>3, PendingOf DEF Writes
  <2>5. dim' \in [Orgs -> Dims] /\ \A p \in Orgs : p = o \/ dim'[p] = dim[p]
    BY <1>0, <2>3 DEF Shape
  <2>6. Owned(ops[t])'
    BY <1>0, <2>3, <2>4 DEF Shape, Owned
  <2> QED BY <2>2, <2>3, <2>4, <2>5, <2>6, NothingStored, OpStep DEF Models
<1>2. CASE Classify(t)
  <2> DEFINE q == [Op("classify", "cache") EXCEPT !.done = Orgs]
  <2>2. IsOp(q) /\ q.kind = "classify" /\ q.done = Orgs
    BY DEF Op, IsOp
  <2> HIDE DEF q
  <2>3. /\ ops' = [ops EXCEPT ![t] = q] /\ dim' \in [Orgs -> Dims]
        /\ UNCHANGED <<scores, cache, leaks, nextId>>
    BY <1>2 DEF Classify, Start, q
  <2>4. Pending(q) = Models \X Orgs /\ ~Writes(q)
    BY <2>2, PendingOf DEF Writes
  <2>6. Owned(ops[t])'
    BY <1>0, <2>3, <2>4 DEF Shape, Owned
  <2> QED BY <2>2, <2>3, <2>4, <2>6, NothingStored, OpStep DEF Models
<1>3. CASE Abort(t)
  BY <1>3, EndStep DEF Abort
<1> QED BY <1>1, <1>2, <1>3

LEMMA DropSafe ==
  ASSUME BoardInv, NEW o \in Orgs, NEW d \in Dims, DropAddress(o, d)
  PROVE  BoardInv'
<1>0. Shape /\ Running /\ BoardRight
  BY DEF BoardInv
<1>1. /\ dim' = [dim EXCEPT ![o] = d] /\ leaks' = leaks \cup (Models \X {o})
      /\ UNCHANGED <<scores, cache, ops, nextId>>
  BY DEF DropAddress
<1>2. dim' \in [Orgs -> Dims] /\ \A p \in Orgs : p = o \/ dim'[p] = dim[p]
  BY <1>0, <1>1 DEF Shape
<1>3. Rows' /\ RowsKept /\ \A p : ScoredKept(p)
  BY <1>1, NothingStored
<1>4. ASSUME NEW p \in Orgs, <<"computed", p>> \notin (leaks \cup Awaited)'
      PROVE  Untouched(p) /\ <<"computed", p>> \notin leaks \cup Awaited
  <2>1. p # o /\ <<"computed", p>> \notin leaks \cup Awaited
    BY <1>1, <1>4 DEF Models, Awaited
  <2> QED BY <1>1, <1>2, <1>3, <2>1, NewestKept DEF Untouched, C
<1>5. BoardRight'
  BY <1>0, <1>4, StaysRight
<1> QED BY <1>0, <1>1, <1>2, <1>3, <1>5, ClosingIdle

LEMMA BatchSafe ==
  ASSUME BoardInv, NEW t \in Threads,
         (\E os \in SUBSET Orgs : BatchStart(t, os)) \/ BatchCommit(t)
  PROVE  BoardInv'
<1> DEFINE op == ops[t]
<1>0. IsOp(op) /\ Shape /\ Rows
  BY DEF BoardInv, Running
<1>1. CASE \E os \in SUBSET Orgs : BatchStart(t, os)
  <2>1. PICK os \in SUBSET Orgs : BatchStart(t, os)
    BY <1>1
  <2> DEFINE q == [Op("batch", "score") EXCEPT !.todo = os]
  <2>2. IsOp(q) /\ q.kind = "batch" /\ q.done = {}
    BY DEF Op, IsOp
  <2> HIDE DEF q
  <2>3. /\ ops' = [ops EXCEPT ![t] = q] /\ op.kind = "idle"
        /\ UNCHANGED <<scores, cache, dim, leaks, nextId>>
    BY <2>1 DEF BatchStart, Start, Idle, q
  <2>4. Pending(op) = {} /\ Pending(q) = {} /\ ~Writes(q)
    BY <2>2, <2>3, PendingOf DEF Writes
  <2>5. Owned(ops[t])'
    BY <1>0, <2>3, <2>4 DEF Shape, Owned
  <2> QED BY <2>2, <2>3, <2>4, <2>5, NothingStored, ThreadStep
<1>2. CASE BatchCommit(t)
  <2> DEFINE o == CHOOSE x \in op.todo : \A p \in op.todo : x <= p
             ys == {y \in Years : <<o, y>> \in filings}
             n == Cardinality(ys)
             kept == IF ys = {} THEN scores ELSE Without(Ids("computed", o))
             at == IF op.todo = {o} THEN "cache" ELSE "score"
             q == [op EXCEPT !.todo = @ \ {o}, !.done = @ \cup {o}, !.at = at]
             new(total) == [i \in nextId..(nextId + n - 1) |->
                              [NewRow(o, SetToSeq(ys)[i - nextId + 1], "computed") EXCEPT
                                 !.total = total, !.parts = [f \in {None} |-> total]]]
  <2>1. PICK total \in Totals :
          /\ scores' = With(new(total), kept) /\ nextId' = nextId + n
          /\ ops' = [ops EXCEPT ![t].todo = @ \ {o}, ![t].done = @ \cup {o}, ![t].at = at]
    BY <1>2 DEF BatchCommit
  <2>2. op.kind = "batch" /\ UNCHANGED <<dim, cache, leaks>>
    BY <1>2 DEF BatchCommit, Is
  <2>3. ops' = [ops EXCEPT ![t] = q]
    BY <1>0, <2>1 DEF Shape
  <2>4. IsOp(q) /\ q.kind = "batch" /\ q.done = op.done \cup {o}
    BY <1>0, <2>2 DEF IsOp
  <2>5. n \in Nat
    BY FS_Subset, FS_CardinalityType, ScoresAssumption DEF ScoresAssumption
  <2>6. /\ DOMAIN kept \subseteq DOMAIN scores
        /\ \A i \in DOMAIN kept : kept[i] = scores[i]
        /\ \A i \in DOMAIN scores \ DOMAIN kept : scores[i].org = o
    BY DEF Without, Ids, Restrict
  <2>7. /\ DOMAIN new(total) = nextId..(nextId + n - 1)
        /\ \A i \in DOMAIN new(total) : IsRow(new(total)[i]) /\ new(total)[i].org = o
    BY DEF NewRow, IsRow
  <2> HIDE DEF o, n, kept, q, new
  <2>8. /\ DOMAIN scores' = DOMAIN kept \cup nextId..(nextId + n - 1)
        /\ \A i \in DOMAIN kept : scores'[i] = scores[i]
        /\ \A i \in DOMAIN scores' \ DOMAIN kept : IsRow(scores'[i]) /\ scores'[i].org = o
    BY <2>1, <2>6, <2>7 DEF With
  <2>9. Rows' /\ RowsKept
    <3>1. nextId' \in Nat /\ nextId <= nextId' /\ nextId \in Nat
      BY <1>0, <2>1, <2>5 DEF Shape
    <3>2. \A i \in DOMAIN scores' : i \in Nat /\ i < nextId'
      BY <1>0, <2>1, <2>5, <2>6, <2>8, <3>1 DEF Rows, Given
    <3>3. \A i \in DOMAIN scores' : IsRow(scores'[i])
      BY <1>0, <2>6, <2>8 DEF Rows
    <3>4. \A i \in DOMAIN scores' : i < nextId => i \in DOMAIN kept
      BY <2>5, <2>8, <3>1
    <3> QED BY <2>6, <2>8, <3>1, <3>2, <3>3, <3>4 DEF Rows, RowsKept, Given, IsRow
  <2>10. \A p : p = o \/ ScoredKept(p)
    BY <2>6, <2>8 DEF ScoredKept, Totalled
  <2>11. Pending(op) = {"computed"} \X op.done /\ Pending(q) = {"computed"} \X (op.done \cup {o})
    BY <2>2, <2>4, PendingOf
  <2>12. Owned(ops[t])'
    BY <1>0, <2>3, <2>4 DEF Shape, Owned, Writes
  <2> QED BY <2>2, <2>3, <2>4, <2>9, <2>10, <2>11, <2>12, ThreadStep
<1> QED BY <1>1, <1>2

(* A purge takes the return from under a calculation, and nothing else.     *)
LEMMA OrphanedOps ==
  ASSUME Shape, Running, RowsKept, NEW fs, ops' = Orphaned(fs)
  PROVE  Running' /\ Awaited' = Awaited /\ ops' = [t \in Threads |-> ops'[t]]
<1>1. ASSUME NEW t \in Threads
      PROVE  IsOp(ops'[t]) /\ Owned(ops[t])' /\ Pending(ops'[t]) = Pending(ops[t])
  <2> DEFINE op == ops[t]
             q == ops'[t]
  <2>1. IsOp(op) /\ Owned(op)
    BY DEF Running
  <2>2. CASE op.kind = "calc" /\ op.at = "create" /\ q = [op EXCEPT !.year = None]
    <3>1. IsOp(q) /\ q.kind = "calc" /\ q.at = "create"
      BY <2>1, <2>2 DEF IsOp
    <3>2. Pending(q) = {} /\ Pending(op) = {} /\ ~Writes(q)
      BY <2>2, <3>1, PendingOf DEF Writes
    <3> QED BY <3>1, <3>2 DEF Owned
  <2>3. CASE q = op
    BY <2>3, RunningKept DEF Running
  <2> QED BY <2>2, <2>3 DEF Orphaned, Is, Idle
<1>2. \A p : p \in Awaited' <=> p \in Awaited
  BY <1>1 DEF Awaited
<1> QED BY <1>1, <1>2 DEF Running, Orphaned

LEMMA PurgeSafe ==
  ASSUME BoardInv, (\E y \in Years : Purge({f \in filings : f[2] = y})) \/ PurgeAll
  PROVE  BoardInv'
<1>0. Shape /\ Rows /\ Running /\ BoardRight
  BY DEF BoardInv
<1>1. ASSUME NEW fs, Purge(fs) PROVE BoardInv'
  <2> DEFINE gone == {i \in DOMAIN scores : <<scores[i].org, scores[i].year>> \in fs}
             os == {f[1] : f \in fs}
  <2>1. /\ scores' = Without(gone) /\ cache' = Refreshed(Without(gone), dim, Models, os)
        /\ leaks' = leaks \ (Models \X os) /\ ops' = Orphaned(fs) /\ UNCHANGED <<dim, nextId>>
    BY <1>1 DEF Purge, Purged
  <2>2. \A i \in gone : scores[i].org \in os
    OBVIOUS
  <2> HIDE DEF os
  <2>3. Rows' /\ RowsKept /\ \A o : o \in os \/ ScoredKept(o)
    BY <1>0, <2>1, <2>2 DEF Shape, Rows, RowsKept, Given, IsRow, ScoredKept, Totalled,
          Without, Restrict
  <2> HIDE DEF gone
  <2>4. Running' /\ Awaited' = Awaited /\ ops' = [t \in Threads |-> ops'[t]]
    BY <1>0, <2>1, <2>3, OrphanedOps
  <2>5. ASSUME NEW o \in Orgs, <<"computed", o>> \notin (leaks \cup Awaited)'
        PROVE  \/ C(o)' = Newest(o)'
               \/ Untouched(o) /\ <<"computed", o>> \notin leaks \cup Awaited
    <3>1. C(o)' = IF "computed" \in Models /\ o \in os
                  THEN Latest(Without(gone), dim, "computed", o) ELSE C(o)
      <4>1. cache' = Refreshed(Without(gone), dim, Models, os)
        BY <2>1
      <4> QED BY <4>1, RefreshedRows
    <3>2. CASE o \in os
      BY <2>1, <3>1, <3>2 DEF Newest, Models
    <3>3. CASE o \notin os
      BY <2>1, <2>3, <2>4, <2>5, <3>1, <3>3, NewestKept DEF Untouched
    <3> QED BY <3>2, <3>3
  <2>6. BoardRight'
    BY <1>0, <2>5, StaysRight
  <2>7. Shape'
    BY <1>0, <2>1, <2>3, <2>4 DEF Shape, RowsKept
  <2> QED BY <2>3, <2>4, <2>6, <2>7 DEF BoardInv
<1>2. CASE PurgeAll
  <2>1. /\ scores' = << >> /\ cache' = {} /\ ops' = Orphaned(filings) /\ UNCHANGED <<dim, nextId>>
    BY <1>2 DEF PurgeAll
  <2>2. Rows' /\ RowsKept
    BY <1>0, <2>1 DEF Shape, Rows, RowsKept
  <2>3. Running' /\ ops' = [t \in Threads |-> ops'[t]]
    BY <1>0, <2>1, <2>2, OrphanedOps
  <2>4. \A o : C(o)' = {} /\ Newest(o)' = {}
    BY <2>1 DEF C, Newest, Latest, Totalled
  <2>5. BoardRight'
    BY <2>4 DEF BoardRight, C, Newest
  <2> QED BY <1>0, <2>1, <2>2, <2>3, <2>5 DEF BoardInv, Shape
<1> QED BY <1>1, <1>2

LEMMA InitInv == Init => BoardInv
<1> SUFFICES ASSUME Init PROVE BoardInv
  OBVIOUS
<1>1. Shape /\ Rows
  BY DEF Init, Shape, Rows
<1>2. \A t \in Threads : ops[t] = Quiet
  BY DEF Init
<1>3. Running
  BY <1>2, QuietOp DEF Running, Owned
<1>4. \A o : C(o) = {} /\ Newest(o) = {}
  BY DEF Init, C, Newest, Latest, Totalled
<1>5. BoardRight
  BY <1>4 DEF BoardRight, C, Newest
<1> QED BY <1>1, <1>3, <1>5 DEF BoardInv

LEMMA NextInv == BoardInv /\ [Next]_vars => BoardInv'
<1> SUFFICES ASSUME BoardInv, [Next]_vars PROVE BoardInv'
  OBVIOUS
<1>1. CASE Next
  BY <1>1, CalcSafe, GradeSafe, PlainSafe, RefreshSafe, EditSafe, DropSafe, BatchSafe, PurgeSafe
     DEF Next
<1>2. CASE UNCHANGED vars
  <2>1. UNCHANGED <<cache, dim, ops, leaks, scores, nextId>>
    BY <1>2 DEF vars
  <2> QED BY <2>1, NothingStored, PlainStep
<1> QED BY <1>1, <1>2

(***************************************************************************)
(* For any number of operations at once, and whichever of them fail: the    *)
(* cached rows of an organization are its latest score under the dimension  *)
(* of its row, unless a refresh is still to come or is known to be lost.    *)
(* The transactions of score.py and engine.py that change a score or a      *)
(* dimension without one of the two would break it.                         *)
(***************************************************************************)
THEOREM BoardStaysRight == Spec => []BoardRight
<1>1. BoardInv => BoardRight
  BY DEF BoardInv
<1> QED BY <1>1, InitInv, NextInv, PTL DEF Spec

-----------------------------------------------------------------------------
(* Totals.                                                                  *)

LEMMA HasLeast ==
  ASSUME NEW S \in SUBSET Nat, S # {} PROVE \E i \in S : \A j \in S : i <= j
<1>1. PICK i \in S : \A j \in S : ~ (<<j, i>> \in OpToRel(<, Nat))
  BY WFMin, NatLessThanWellFounded
<1>2. ASSUME NEW j \in S PROVE i <= j
  <2>1. ~ (<<j, i>> \in {ss \in Nat \X Nat : ss[1] < ss[2]})
    BY <1>1 DEF OpToRel
  <2> QED BY <2>1
<1> QED BY <1>1, <1>2

(* A sum of finitely many numbers is one: the fold's recursion has a        *)
(* solution on the sets of at most n keys, for every n.                     *)
LEMMA SumIsInt ==
  ASSUME NEW p, IsFiniteSet(DOMAIN p), \A f \in DOMAIN p : p[f] \in Int
  PROVE  SumOf(p) \in Int
<1> DEFINE S == DOMAIN p
           ch(s) == CHOOSE x \in s : TRUE
           Small(n) == {s \in SUBSET S : Cardinality(s) <= n}
           Value(g, s) == IF s = {} THEN 0 ELSE p[ch(s)] + g[s \ {ch(s)}]
           Body(g) == [s \in SUBSET S |-> Value(g, s)]
           iter == CHOOSE g : g = Body(g)
           Solved(n) == \E g \in [Small(n) -> Int] : \A s \in Small(n) : g[s] = Value(g, s)
<1>1. SumOf(p) = iter[S]
  BY DEF SumOf, FoldFunction, FoldFunctionOnSet, MapThenFoldSet
<1>2. ASSUME NEW s \in SUBSET S
      PROVE  /\ Cardinality(s) \in Nat /\ Cardinality(s) <= Cardinality(S)
             /\ s # {} => /\ p[ch(s)] \in Int /\ s \ {ch(s)} \in SUBSET S
                          /\ Cardinality(s \ {ch(s)}) = Cardinality(s) - 1
             /\ Cardinality(s) = 0 => s = {}
  <2>1. IsFiniteSet(s) /\ Cardinality(s) \in Nat /\ Cardinality(s) <= Cardinality(S)
    BY FS_Subset, FS_CardinalityType
  <2>2. s # {} => ch(s) \in s
    OBVIOUS
  <2> HIDE DEF ch
  <2>3. s # {} => Cardinality(s \ {ch(s)}) = Cardinality(s) - 1
    BY <2>1, <2>2, FS_RemoveElement
  <2>4. Cardinality(s) = 0 => s = {}
    BY <2>1, FS_EmptySet
  <2> QED BY <2>1, <2>2, <2>3, <2>4
<1>9. \A s \in SUBSET S : Cardinality(s) \in Nat /\ (Cardinality(s) = 0 => s = {})
  BY <1>2
<1>3. S \in SUBSET S /\ {} \in SUBSET S /\ Cardinality({}) = 0
  BY FS_EmptySet
<1> HIDE DEF ch, S
<1>4. \A n \in Nat : Solved(n)
  <2> DEFINE bad == {n \in Nat : ~Solved(n)}
  <2> SUFFICES ASSUME bad # {} PROVE FALSE
    OBVIOUS
  <2>1. PICK n \in bad : \A m \in bad : n <= m
    BY HasLeast
  <2>2. CASE n = 0
    <3> DEFINE w == [s \in Small(0) |-> 0]
    <3>1. ASSUME NEW s \in Small(0) PROVE s = {}
      <4>1. s \in SUBSET S /\ Cardinality(s) \in Nat /\ Cardinality(s) <= 0
        BY <1>9
      <4>2. Cardinality(s) = 0
        BY <4>1
      <4> QED BY <1>9, <4>1, <4>2
    <3>2. w \in [Small(0) -> Int] /\ \A s \in Small(0) : w[s] = Value(w, s)
      BY <3>1
    <3> QED BY <2>1, <2>2, <3>2
  <2>3. CASE n # 0
    <3>0. n - 1 \in Nat /\ Solved(n - 1)
      <4>1. n \in Nat /\ n - 1 \in Nat
        BY <2>1, <2>3
      <4> HIDE DEF Solved
      <4>2. n - 1 \notin bad
        <5> SUFFICES ASSUME n - 1 \in bad PROVE FALSE
          OBVIOUS
        <5>1. n <= n - 1
          BY <2>1
        <5> QED BY <4>1, <5>1
      <4> QED BY <4>1, <4>2
    <3>1. PICK g \in [Small(n - 1) -> Int] : \A s \in Small(n - 1) : g[s] = Value(g, s)
      BY <3>0
    <3> DEFINE w == [s \in Small(n) |-> Value(g, s)]
    <3>2. ASSUME NEW s \in Small(n), s # {} PROVE s \ {ch(s)} \in Small(n - 1) /\ p[ch(s)] \in Int
      <4>1. s \in SUBSET S /\ Cardinality(s) \in Nat /\ Cardinality(s) <= n
        BY <1>9
      <4>2. /\ p[ch(s)] \in Int /\ s \ {ch(s)} \in SUBSET S
            /\ Cardinality(s \ {ch(s)}) = Cardinality(s) - 1
        BY <1>2, <3>2, <4>1
      <4> QED BY <3>0, <4>1, <4>2
    <3>3. \A s \in Small(n - 1) : s \in Small(n)
      BY <1>9, <3>0
    <3>4. ASSUME NEW s \in Small(n) PROVE Value(g, s) \in Int /\ Value(w, s) = Value(g, s)
      <4>1. CASE s = {}
        BY <4>1
      <4>2. CASE s # {}
        <5> DEFINE r == s \ {ch(s)}
        <5>1. r \in Small(n - 1) /\ r \in Small(n) /\ p[ch(s)] \in Int
          BY <3>2, <3>3, <4>2
        <5>2. w[r] = Value(g, r) /\ g[r] = Value(g, r) /\ g[r] \in Int
          BY <3>1, <5>1
        <5> HIDE DEF r, w, Small
        <5>3. Value(g, s) = p[ch(s)] + g[r] /\ Value(w, s) = p[ch(s)] + w[r]
          BY <4>2 DEF r
        <5> QED BY <5>1, <5>2, <5>3
      <4> QED BY <4>1, <4>2
    <3>5. w \in [Small(n) -> Int] /\ \A s \in Small(n) : w[s] = Value(w, s)
      BY <3>4
    <3>6. Solved(n)
      BY <3>5
    <3> QED BY <2>1, <3>6
  <2> QED BY <2>2, <2>3
<1> DEFINE N == Cardinality(S)
<1>5. Small(N) = SUBSET S /\ N \in Nat
  BY <1>2, <1>3
<1>6. iter = Body(iter)
  <2>1. PICK g \in [Small(N) -> Int] : \A s \in Small(N) : g[s] = Value(g, s)
    BY <1>4, <1>5
  <2> HIDE DEF Value
  <2>2. g = Body(g)
    BY <1>5, <2>1
  <2> QED BY <2>2
<1> HIDE DEF iter
<1>7. \A s \in SUBSET S : iter[s] = Value(iter, s)
  <2> HIDE DEF Value
  <2> QED BY <1>6
<1>8. \A n \in Nat : \A s \in SUBSET S : Cardinality(s) = n => iter[s] \in Int
  <2> DEFINE bad == {n \in Nat : \E s \in SUBSET S : Cardinality(s) = n /\ iter[s] \notin Int}
  <2> SUFFICES ASSUME bad # {} PROVE FALSE
    OBVIOUS
  <2>1. PICK n \in bad : \A m \in bad : n <= m
    BY HasLeast
  <2>2. PICK s \in SUBSET S : Cardinality(s) = n /\ iter[s] \notin Int
    BY <2>1
  <2>3. s # {}
    <3>1. {} \in SUBSET S => iter[{}] = 0
      BY <1>7
    <3> QED BY <1>3, <2>2, <3>1
  <2>4. /\ p[ch(s)] \in Int /\ s \ {ch(s)} \in SUBSET S
        /\ Cardinality(s \ {ch(s)}) = n - 1 /\ n - 1 \in Nat
    BY <1>2, <2>1, <2>2, <2>3
  <2>5. iter[s \ {ch(s)}] \in Int
    BY <2>1, <2>4
  <2> QED BY <1>7, <2>2, <2>3, <2>4, <2>5
<1> QED BY <1>1, <1>2, <1>3, <1>8

(* The factors of a computed score are one.                                 *)
LEMMA SumOfOne ==
  ASSUME NEW k, NEW v \in Int, NEW p, p = [f \in {k} |-> v]
  PROVE  SumOf(p) = v
<1> DEFINE S == {k}
           ch(s) == CHOOSE x \in s : TRUE
           Body(g) == [s \in SUBSET S |-> IF s = {} THEN 0 ELSE p[ch(s)] + g[s \ {ch(s)}]]
           iter == CHOOSE g : g = Body(g)
<1>1. DOMAIN p = S
  OBVIOUS
<1>2. SumOf(p) = iter[S]
  BY <1>1 DEF SumOf, FoldFunction, FoldFunctionOnSet, MapThenFoldSet
<1>3. \A s \in SUBSET S : s = {} \/ (s = S /\ ch(s) = k /\ s \ {k} = {})
  OBVIOUS
<1>4. iter = Body(iter)
  <2> DEFINE w == [s \in SUBSET S |-> IF s = {} THEN 0 ELSE v]
  <2>1. ASSUME NEW s \in SUBSET S PROVE w[s] = IF s = {} THEN 0 ELSE p[ch(s)] + w[s \ {ch(s)}]
    BY <1>3
  <2>2. w = Body(w)
    BY <2>1
  <2> QED BY <2>2
<1>5. iter[{}] = 0
  BY <1>4
<1>6. S # {} /\ ch(S) = k /\ S \ {k} = {} /\ S \in SUBSET S /\ p[k] = v
  OBVIOUS
<1>7. iter[S] = p[ch(S)] + iter[S \ {ch(S)}]
  <2> HIDE DEF iter, S, ch
  <2> QED BY <1>4, <1>6
<1> HIDE DEF iter, ch, S, Body
<1>8. iter[S] = v + 0
  BY <1>5, <1>6, <1>7
<1> QED BY <1>2, <1>8

(* What the argument needs: rows and what operations carry are typed, an    *)
(* operation's id names no other row, and of the operations on a row that   *)
(* is not loose there is one, which keeps track of its sum.                 *)
Valued(r) ==
  /\ r.org \in Orgs /\ r.year \in Years /\ r.model \in Models /\ r.total \in Int \cup {None}
  /\ DOMAIN r.parts \subseteq FactorsOf(r.model) /\ IsFiniteSet(DOMAIN r.parts)
  /\ \A f \in DOMAIN r.parts : r.parts[f] \in Int
Carries(op) ==
  /\ op.kind \in {"idle", "calc", "grade", "batch", "edit", "classify"}
  /\ op.kind \notin {"calc", "grade"} => op.id = None
  /\ op.kind = "calc" =>
       /\ op.at \in {"create", "store", "finalize", "cache"}
       /\ op.at = "create" <=> op.id = None
       /\ op.value \in Totals
  /\ op.kind = "grade" =>
       /\ op.at \in {"factor", "sum", "finalize"} /\ op.id # None
       /\ op.value \in Int
       /\ op.at = "factor" => op.org \in Factors
Names(op) ==
  op.id # None =>
    /\ Given(op.id)
    /\ op.id \in DOMAIN scores =>
         scores[op.id].model = IF op.kind = "calc" THEN "computed" ELSE "manual"
Summed(r) == r.total # None => r.total = SumOf(r.parts)
Keeps(op, r) ==
  /\ op.kind = "calc" /\ op.at \in {"finalize", "cache"} => SumOf(r.parts) = op.value
  /\ op.kind = "calc" /\ op.at = "cache" => r.total = op.value
  /\ op.kind = "grade" /\ op.at = "finalize" => SumOf(r.parts) = op.value
On(op, i) == op.kind # "idle" /\ op.id = i
RowOK(i) ==
  i \notin loose =>
    /\ \A t, u \in Threads : On(ops[t], i) /\ On(ops[u], i) => t = u
    /\ (\A t \in Threads : ~On(ops[t], i)) => Summed(scores[i])
    /\ \A t \in Threads : On(ops[t], i) => Keeps(ops[t], scores[i])

Values == \A i \in DOMAIN scores : Valued(scores[i])
Carried == \A t \in Threads : Carries(ops[t]) /\ Names(ops[t])
Settled == \A i \in DOMAIN scores : RowOK(i)
Base == filings \subseteq Returns
SumInv == Base /\ Values /\ Carried /\ Settled

LEMMA SumFollows == ASSUME SumInv PROVE TotalIsSum
<1> SUFFICES ASSUME NEW i \in DOMAIN scores, i \notin loose, Busy(i) = {}, scores[i].total # None
             PROVE  scores[i].total = SumOf(scores[i].parts)
  BY DEF TotalIsSum
<1>1. \A t \in Threads : ~On(ops[t], i)
  BY DEF Busy, On, Idle
<1> QED BY <1>1 DEF SumInv, Settled, RowOK, Summed

(* A row that no step touches, and no operation takes up or leaves.         *)
LEMMA RowKept ==
  ASSUME NEW i, RowOK(i), loose \subseteq loose', scores'[i] = scores[i],
         \A t \in Threads : (On(ops[t], i) \/ On(ops'[t], i)) => ops'[t] = ops[t]
  PROVE  RowOK(i)'
<1>1. ASSUME NEW t \in Threads PROVE On(ops[t], i)' <=> On(ops[t], i)
  BY DEF On
<1> QED BY <1>1 DEF RowOK

(* The step of a thread to q: a row it had, or one nobody else has.         *)
Held(i, t, q) ==
  /\ (i \in DOMAIN scores /\ On(ops[t], i)) \/ (\A u \in Threads : ~On(ops[u], i))
  /\ IF On(q, i) THEN Keeps(q, scores'[i]) ELSE Summed(scores'[i])
LEMMA RowTaken ==
  ASSUME Settled, NEW i, NEW t \in Threads, NEW q, ops' = [ops EXCEPT ![t] = q],
         ops = [u \in Threads |-> ops[u]], loose \subseteq loose', Held(i, t, q)
  PROVE  RowOK(i)'
<1> SUFFICES ASSUME i \notin loose' PROVE RowOK(i)'
  BY DEF RowOK
<1>1. \A u \in Threads : ops'[u] = IF u = t THEN q ELSE ops[u]
  OBVIOUS
<1>2. \A u \in Threads \ {t} : ~On(ops[u], i)
  BY DEF RowOK, Held, Settled
<1>3. \A u \in Threads : On(ops'[u], i) <=> u = t /\ On(q, i)
  BY <1>1, <1>2
<1> QED BY <1>1, <1>3 DEF RowOK, Held

Untaken(i, t, q) ==
  i \in DOMAIN scores /\ scores'[i] = scores[i] /\ ~On(ops[t], i) /\ ~On(q, i)

LEMMA NamesKept ==
  ASSUME RowsKept, nextId \in Nat, NEW op, Names(op), NEW q,
         q.kind = op.kind, q.id = op.id
  PROVE  Names(q)'
BY DEF RowsKept, Names, Given

LEMMA ThreadSum ==
  ASSUME SumInv, Shape, NEW t \in Threads, NEW q, ops' = [ops EXCEPT ![t] = q],
         Carries(q), Names(ops[t])', RowsKept, Base', Values', loose \subseteq loose',
         \A i \in DOMAIN scores' : Untaken(i, t, q) \/ i \in loose' \/ Held(i, t, q)
  PROVE  SumInv'
<1>1. \A u \in Threads : ops'[u] = IF u = t THEN q ELSE ops[u]
  BY DEF Shape
<1>2. Carried'
  <2> SUFFICES ASSUME NEW u \in Threads PROVE Carries(ops'[u]) /\ Names(ops[u])'
    BY DEF Carried
  <2>1. CASE u = t
    BY <1>1, <2>1 DEF Names, Given
  <2>2. CASE u # t
    <3>1. ops'[u] = ops[u] /\ Carries(ops[u]) /\ Names(ops[u])
      BY <1>1, <2>2 DEF SumInv, Carried
    <3> QED BY <3>1, NamesKept DEF Shape, Names
  <2> QED BY <2>1, <2>2
<1>3. Settled'
  <2> SUFFICES ASSUME NEW i \in DOMAIN scores' PROVE RowOK(i)'
    BY DEF Settled
  <2>1. CASE Untaken(i, t, q)
    <3>1. \A u \in Threads : (On(ops[u], i) \/ On(ops'[u], i)) => ops'[u] = ops[u]
      BY <1>1, <2>1 DEF Untaken
    <3> QED BY <2>1, <3>1, RowKept DEF Untaken, SumInv, Settled
  <2>2. CASE i \in loose'
    BY <2>2 DEF RowOK
  <2>3. CASE Held(i, t, q)
    BY <2>3, RowTaken DEF Shape, SumInv
  <2> QED BY <2>1, <2>2, <2>3
<1> QED BY <1>2, <1>3 DEF SumInv

(* A step of no thread, or one that takes a return from under calculations. *)
SameOp(op, q) ==
  /\ q.kind = op.kind /\ q.at = op.at /\ q.org = op.org /\ q.id = op.id
  /\ q.value = op.value
LEMMA PlainSum ==
  ASSUME SumInv, Shape, \A t \in Threads : SameOp(ops[t], ops'[t]),
         RowsKept, Base', Values', loose \subseteq loose',
         \A i \in DOMAIN scores' :
           \/ i \in DOMAIN scores /\ scores'[i] = scores[i]
           \/ i \in loose'
           \/ Summed(scores'[i]) /\ \A t \in Threads : ~On(ops[t], i)
  PROVE  SumInv'
<1>1. Carried'
  <2> SUFFICES ASSUME NEW u \in Threads PROVE Carries(ops'[u]) /\ Names(ops[u])'
    BY DEF Carried
  <2>1. SameOp(ops[u], ops'[u]) /\ Carries(ops[u]) /\ Names(ops[u])
    BY DEF SumInv, Carried
  <2>2. Carries(ops'[u])
    BY <2>1 DEF SameOp, Carries
  <2>3. Names(ops[u])'
    BY <2>1 DEF Shape, SameOp, RowsKept, Names, Given
  <2> QED BY <2>2, <2>3
<1>2. \A i, u : u \in Threads => (On(ops'[u], i) <=> On(ops[u], i))
  BY DEF On, SameOp
<1>3. \A r, u : u \in Threads => (Keeps(ops'[u], r) <=> Keeps(ops[u], r))
  BY DEF Keeps, SameOp
<1>4. Settled'
  <2> SUFFICES ASSUME NEW i \in DOMAIN scores', i \notin loose' PROVE RowOK(i)'
    BY DEF Settled, RowOK
  <2>1. CASE i \in DOMAIN scores /\ scores'[i] = scores[i]
    <3>1. RowOK(i)
      BY <2>1 DEF SumInv, Settled
    <3> QED BY <1>2, <1>3, <2>1, <3>1 DEF RowOK
  <2>2. CASE Summed(scores'[i]) /\ \A t \in Threads : ~On(ops[t], i)
    BY <1>2, <2>2 DEF RowOK
  <2> QED BY <2>1, <2>2
<1> QED BY <1>1, <1>4 DEF SumInv

(* The rows a step writes.                                                  *)
LEMMA PartsSet ==
  ASSUME Rows, Values, NEW i \in DOMAIN scores, NEW f \in FactorsOf(scores[i].model), NEW v \in Int,
         scores' = [scores EXCEPT ![i].parts = Put(@, f, v)]
  PROVE  /\ Values'
         /\ \A j \in DOMAIN scores' : j \in DOMAIN scores /\ (j # i => scores'[j] = scores[j])
         /\ scores'[i].parts = Put(scores[i].parts, f, v)
         /\ scores'[i].model = scores[i].model
<1> DEFINE r == scores[i]
           p == Put(r.parts, f, v)
           s == [r EXCEPT !.parts = p]
<1>1. IsRow(r) /\ Valued(r)
  BY DEF Rows, Values
<1>2. scores' = [scores EXCEPT ![i] = s]
  OBVIOUS
<1>3. /\ s.org = r.org /\ s.year = r.year /\ s.model = r.model /\ s.total = r.total
      /\ s.parts = p
  BY <1>1 DEF IsRow
<1>4. /\ DOMAIN p \subseteq FactorsOf(r.model) /\ IsFiniteSet(DOMAIN p)
      /\ \A g \in DOMAIN p : p[g] \in Int
  <2>1. DOMAIN p = DOMAIN r.parts \cup {f}
    BY DEF Put
  <2>2. IsFiniteSet(DOMAIN r.parts)
    BY <1>1 DEF Valued
  <2> HIDE DEF r
  <2>3. IsFiniteSet(DOMAIN r.parts \cup {f})
    BY <2>2, FS_AddElement
  <2> QED BY <1>1, <2>1, <2>3 DEF Valued, Put, r
<1> HIDE DEF p, s
<1>5. Valued(s)
  BY <1>1, <1>3, <1>4 DEF Valued
<1>6. /\ DOMAIN scores' = DOMAIN scores
      /\ \A j \in DOMAIN scores : scores'[j] = IF j = i THEN s ELSE scores[j]
  BY <1>2
<1>7. Values'
  BY <1>5, <1>6 DEF Values
<1> QED BY <1>3, <1>6, <1>7 DEF p

LEMMA TotalSet ==
  ASSUME Rows, Values, NEW i \in DOMAIN scores, NEW v \in Int,
         scores' = [scores EXCEPT ![i].total = v]
  PROVE  /\ Values'
         /\ \A j \in DOMAIN scores' : j \in DOMAIN scores /\ (j # i => scores'[j] = scores[j])
         /\ scores'[i].parts = scores[i].parts /\ scores'[i].total = v
         /\ scores'[i].model = scores[i].model
<1> DEFINE r == scores[i]
           s == [r EXCEPT !.total = v]
<1>1. IsRow(r) /\ Valued(r)
  BY DEF Rows, Values
<1>2. scores' = [scores EXCEPT ![i] = s]
  OBVIOUS
<1>3. /\ s.org = r.org /\ s.year = r.year /\ s.model = r.model /\ s.total = v
      /\ s.parts = r.parts
  BY <1>1 DEF IsRow
<1> HIDE DEF s
<1>5. Valued(s)
  BY <1>1, <1>3 DEF Valued
<1>6. /\ DOMAIN scores' = DOMAIN scores
      /\ \A j \in DOMAIN scores : scores'[j] = IF j = i THEN s ELSE scores[j]
  BY <1>2
<1>7. Values'
  BY <1>5, <1>6 DEF Values
<1> QED BY <1>3, <1>6, <1>7

LEMMA Fresh ==
  ASSUME Carried, NEW i \in Int, ~(i < nextId), NEW t \in Threads
  PROVE  ~On(ops[t], i)
<1>1. Names(ops[t]) /\ None \notin Int
  BY ScoresAssumption DEF Carried, ScoresAssumption
<1> QED BY <1>1 DEF Names, On, Given

LEMMA CreatedValues ==
  ASSUME Rows, Values, nextId \in Nat, NEW o \in Orgs, NEW y \in Years, NEW m \in Models,
         Create(o, y, m)
  PROVE  /\ Values'
         /\ \A i \in DOMAIN scores' :
              \/ i \in DOMAIN scores /\ scores'[i] = scores[i]
              \/ i = nextId /\ i = CreatedId(o, y, m) /\ Summed(scores'[i])
         /\ CreatedId(o, y, m) \in DOMAIN scores' /\ scores'[CreatedId(o, y, m)].model = m
         /\ CreatedId(o, y, m) \in Nat /\ CreatedId(o, y, m) < nextId'
<1> DEFINE id == CreatedId(o, y, m)
<1>1. CASE At(m, o, y) # {}
  <2>1. UNCHANGED <<scores, nextId>> /\ id \in At(m, o, y)
    BY <1>1 DEF Create, CreatedId
  <2>2. id \in DOMAIN scores /\ scores[id].model = m /\ id \in Nat /\ id < nextId
    BY <2>1 DEF Rows, Given, At, Ids
  <2> HIDE DEF id
  <2> QED BY <2>1, <2>2 DEF Values, id
<1>2. CASE At(m, o, y) = {}
  <2>1. id = nextId /\ nextId \notin DOMAIN scores
    BY <1>2 DEF Rows, Given, CreatedId
  <2> HIDE DEF id
  <2>2. /\ DOMAIN scores' = DOMAIN scores \cup {nextId} /\ nextId' = nextId + 1
        /\ \A i \in DOMAIN scores : scores'[i] = scores[i]
        /\ scores'[nextId] = NewRow(o, y, m)
    BY <1>2, <2>1 DEF Create, With
  <2>3. DOMAIN << >> = {}
    OBVIOUS
  <2>4. Valued(NewRow(o, y, m)) /\ Summed(NewRow(o, y, m)) /\ NewRow(o, y, m).model = m
    BY <2>3, FS_EmptySet DEF Valued, NewRow, Summed
  <2>5. Values'
    BY <2>1, <2>2, <2>4 DEF Values
  <2>6. id \in DOMAIN scores' /\ scores'[id].model = m /\ id \in Nat /\ id < nextId'
    BY <2>1, <2>2, <2>4
  <2> QED BY <2>1, <2>2, <2>4, <2>5, <2>6 DEF id
<1> QED BY <1>1, <1>2

(* An operation that starts on no row, and one that is over.                *)
LEMMA QuietCarries == Carries(Quiet) /\ Quiet.id = None /\ Quiet.kind = "idle"
  BY DEF Carries, Quiet, Op

LEMMA Offside ==
  ASSUME NEW i \in Int, NEW op, op.id = None PROVE ~On(op, i)
  BY ScoresAssumption DEF ScoresAssumption, On

LEMMA StartSum ==
  ASSUME SumInv, BoardInv, NEW t \in Threads, ops[t].kind = "idle", NEW q,
         ops' = [ops EXCEPT ![t] = q], Carries(q), q.id = None,
         UNCHANGED <<filings, scores, loose, nextId>>
  PROVE  SumInv'
<1>1. RowsKept
  BY NothingStored
<1>2. Base' /\ Values'
  BY DEF SumInv, Base, Values
<1>3. \A i \in DOMAIN scores' : Untaken(i, t, q)
  BY Offside DEF Untaken, On, BoardInv, Rows, Given
<1>5. Shape
  BY DEF BoardInv
<1>4. Names(ops[t])'
  BY <1>5 DEF Names, Shape
<1> QED BY <1>1, <1>2, <1>3, <1>4, <1>5, ThreadSum

LEMMA EndSum ==
  ASSUME SumInv, BoardInv, NEW t \in Threads, End(t),
         UNCHANGED <<filings, scores, nextId>>, loose \subseteq loose',
         \A i \in DOMAIN scores : On(ops[t], i) => i \in loose' \/ Summed(scores[i])
  PROVE  SumInv'
<1>1. RowsKept
  BY NothingStored
<1>2. Base' /\ Values'
  BY DEF SumInv, Base, Values
<1>3. ops' = [ops EXCEPT ![t] = Quiet]
  BY DEF End
<1>4. ASSUME NEW i \in DOMAIN scores'
      PROVE  Untaken(i, t, Quiet) \/ i \in loose' \/ Held(i, t, Quiet)
  <2>1. ~On(Quiet, i) /\ i \in DOMAIN scores
    BY QuietCarries DEF On
  <2> QED BY <2>1 DEF Untaken, Held
<1>6. Shape
  BY DEF BoardInv
<1>5. Names(ops[t])'
  BY <1>3, <1>6, QuietCarries DEF Names, Shape
<1> QED BY <1>1, <1>2, <1>3, <1>4, <1>5, <1>6, QuietCarries, ThreadSum

Advanced(op, q, at, v) ==
  q.kind = op.kind /\ q.at = at /\ q.org = op.org /\ q.id = op.id /\ q.value = v

LEMMA CalcSums ==
  ASSUME SumInv, BoardInv, NEW t \in Threads,
         \/ \E o \in Orgs, y \in Years, v \in Totals : CalcStart(t, o, y, v)
         \/ CalcCreate(t) \/ CalcStore(t) \/ CalcFinalize(t)
  PROVE  SumInv'
<1> DEFINE op == ops[t]
<1>0. /\ IsOp(op) /\ Shape /\ Rows /\ Values /\ Base /\ Carries(op) /\ Names(op)
      /\ nextId \in Nat /\ Carried /\ Settled
  BY DEF BoardInv, Running, SumInv, Carried, Shape
<1>a. Totals \subseteq Int /\ None \notin Int
  BY ScoresAssumption DEF ScoresAssumption
<1>1. CASE \E o \in Orgs, y \in Years, v \in Totals : CalcStart(t, o, y, v)
  <2>1. PICK o \in Orgs, y \in Years, v \in Totals : CalcStart(t, o, y, v)
    BY <1>1
  <2> DEFINE q == [Op("calc", "create") EXCEPT !.org = o, !.year = y, !.value = v]
  <2>2. Carries(q) /\ q.id = None
    BY DEF Op, Carries
  <2> HIDE DEF q
  <2>3. ops' = [ops EXCEPT ![t] = q] /\ UNCHANGED <<filings, scores, loose, nextId>>
    BY <2>1 DEF CalcStart, Start, q
  <2>4. ops[t].kind = "idle"
    BY <2>1 DEF CalcStart, Start, Idle
  <2> QED BY <2>2, <2>3, <2>4, StartSum
<1>2. CASE CalcCreate(t)
  <2> DEFINE id == CreatedId(op.org, op.year, "computed")
             q == [op EXCEPT !.at = "store", !.id = id]
  <2>0. op.kind = "calc" /\ op.at = "create" /\ op.id = None
    BY <1>0, <1>2 DEF CalcCreate, Is, Carries
  <2>1. CASE <<op.org, op.year>> \in filings
    <3>1. /\ Create(op.org, op.year, "computed") /\ ops' = [ops EXCEPT ![t] = q]
          /\ loose' = IF Busy(id) # {} THEN loose \cup {id} ELSE loose
          /\ UNCHANGED filings
      BY <1>2, <2>1 DEF CalcCreate
    <3>2. RowsKept
      BY <1>0, <3>1, Created
    <3>3. op.org \in Orgs /\ op.year \in Years /\ "computed" \in Models
      BY <1>0, <2>1, ScoresAssumption DEF ScoresAssumption, Base, Models
    <3>4. /\ Values'
          /\ \A i \in DOMAIN scores' :
               \/ i \in DOMAIN scores /\ scores'[i] = scores[i]
               \/ i = nextId /\ i = id /\ Summed(scores'[i])
          /\ id \in DOMAIN scores' /\ scores'[id].model = "computed"
          /\ id \in Nat /\ id < nextId'
      BY <1>0, <3>1, <3>3, CreatedValues
    <3>6. q.id = id /\ q.kind = "calc" /\ q.at = "store" /\ q.value \in Totals
      BY <1>0, <2>0 DEF IsOp, Carries
    <3> HIDE DEF q, id, op
    <3>7. Carries(q)
      BY <1>a, <3>4, <3>6 DEF Carries
    <3>8. Names(ops[t])'
      BY <1>0, <3>1, <3>4, <3>6 DEF Names, Given, Shape
    <3>9. ASSUME NEW i \in DOMAIN scores' PROVE Untaken(i, t, q) \/ i \in loose' \/ Held(i, t, q)
      <4>0. i \in Int
        BY <1>0, <3>4 DEF Rows, Given
      <4>1. CASE i # id
        BY <2>0, <3>4, <3>6, <4>0, <4>1, Offside DEF Untaken, On, op
      <4>2. CASE i = id /\ Busy(id) = {}
        <5>1. \A u \in Threads : ~On(ops[u], i)
          BY <4>2 DEF Busy, Idle, On
        <5>2. On(q, i) /\ Keeps(q, scores'[i])
          BY <3>6, <4>2 DEF On, Keeps
        <5> QED BY <5>1, <5>2 DEF Held
      <4>3. CASE i = id /\ Busy(id) # {}
        BY <3>1, <4>3
      <4> QED BY <4>1, <4>2, <4>3
    <3>10. loose \subseteq loose' /\ Base'
      BY <1>0, <3>1 DEF Base
    <3> QED BY <1>0, <3>1, <3>2, <3>4, <3>7, <3>8, <3>9, <3>10, ThreadSum
  <2>2. CASE <<op.org, op.year>> \notin filings
    <3>1. End(t) /\ UNCHANGED <<filings, scores, nextId, loose>>
      BY <1>2, <2>2 DEF CalcCreate
    <3>2. \A i \in DOMAIN scores : ~On(ops[t], i)
      BY <1>0, <2>0, Offside DEF Rows, Given
    <3> QED BY <3>1, <3>2, EndSum
  <2> QED BY <2>1, <2>2
<1>3. CASE CalcStore(t)
  <2> DEFINE q == [op EXCEPT !.at = "finalize"]
  <2>0. /\ op.kind = "calc" /\ op.at = "store" /\ op.value \in Int
        /\ UNCHANGED <<filings, loose, nextId>>
    BY <1>0, <1>3, <1>a DEF CalcStore, Is, Carries
  <2>1. CASE op.id \in DOMAIN scores
    <3>1. /\ scores' = [scores EXCEPT ![op.id].parts = Put(@, None, op.value)]
          /\ ops' = [ops EXCEPT ![t] = q]
      BY <1>3, <2>1 DEF CalcStore, Goto
    <3>2. Advanced(op, q, "finalize", op.value)
      BY <1>0 DEF IsOp, Advanced
    <3>3. scores[op.id].model = "computed" /\ op.id # None
      BY <1>0, <2>0, <2>1 DEF Names, Carries
    <3> HIDE DEF q, op
    <3>4. RowsKept
      BY <1>0, <2>0, <2>1, <3>1, OneField
    <3>5. None \in FactorsOf(scores[op.id].model) /\ FactorsOf(scores[op.id].model) = {None}
      BY <3>3 DEF FactorsOf
    <3>6. /\ Values'
          /\ \A j \in DOMAIN scores' : j \in DOMAIN scores /\ (j # op.id => scores'[j] = scores[j])
          /\ scores'[op.id].parts = Put(scores[op.id].parts, None, op.value)
          /\ scores'[op.id].model = scores[op.id].model
      BY <1>0, <2>0, <2>1, <3>1, <3>5, PartsSet
    <3>7. SumOf(scores'[op.id].parts) = op.value
      <4>1. DOMAIN scores[op.id].parts \subseteq {None}
        BY <1>0, <2>1, <3>5 DEF Values, Valued
      <4>2. scores'[op.id].parts = [f \in {None} |-> op.value]
        BY <3>6, <4>1 DEF Put
      <4> QED BY <2>0, <4>2, SumOfOne
    <3>8. Carries(q) /\ q.kind = "calc" /\ q.at = "finalize" /\ q.id = op.id /\ q.value = op.value
      BY <1>0, <2>0, <3>2, <3>3 DEF Advanced, Carries
    <3>9. Names(ops[t])'
      BY <1>0, <2>0, <3>1, <3>3, <3>6, <3>8 DEF Names, Given, Shape
    <3>10. ASSUME NEW i \in DOMAIN scores' PROVE Untaken(i, t, q) \/ i \in loose' \/ Held(i, t, q)
      <4>1. CASE i # op.id
        BY <3>6, <3>8, <4>1 DEF Untaken, On, op
      <4>2. CASE i = op.id
        <5>1. On(q, i) /\ On(ops[t], i) /\ i \in DOMAIN scores
          BY <2>0, <2>1, <3>8, <4>2 DEF On, op
        <5>2. Keeps(q, scores'[i])
          BY <3>7, <3>8, <4>2 DEF Keeps
        <5> QED BY <5>1, <5>2 DEF Held
      <4> QED BY <4>1, <4>2
    <3>11. loose \subseteq loose' /\ Base'
      BY <1>0, <2>0 DEF Base
    <3> QED BY <1>0, <3>1, <3>4, <3>6, <3>8, <3>9, <3>10, <3>11, ThreadSum
  <2>2. CASE op.id \notin DOMAIN scores
    <3>1. End(t) /\ UNCHANGED <<filings, scores, nextId, loose>>
      BY <1>3, <2>0, <2>2 DEF CalcStore
    <3>2. \A i \in DOMAIN scores : ~On(ops[t], i)
      BY <2>2 DEF On
    <3> QED BY <3>1, <3>2, EndSum
  <2> QED BY <2>1, <2>2
<1>4. CASE CalcFinalize(t)
  <2> DEFINE q == [op EXCEPT !.at = "cache"]
  <2>0. /\ op.kind = "calc" /\ op.at = "finalize" /\ op.id # None
        /\ op.value \in Totals /\ op.value \in Int
        /\ UNCHANGED <<filings, loose, nextId>> /\ Totalling(op.id, op.value)
        /\ ops' = [ops EXCEPT ![t] = q]
    BY <1>0, <1>4, <1>a DEF CalcFinalize, Is, Carries, Goto
  <2>2. Advanced(op, q, "cache", op.value)
    BY <1>0 DEF IsOp, Advanced
  <2> HIDE DEF q, op
  <2>3. Carries(q) /\ q.kind = "calc" /\ q.at = "cache" /\ q.id = op.id /\ q.value = op.value
    BY <1>0, <2>0, <2>2 DEF Advanced, Carries
  <2>4. /\ RowsKept /\ Values'
        /\ \A j \in DOMAIN scores' : j \in DOMAIN scores /\ (j # op.id => scores'[j] = scores[j])
        /\ op.id \in DOMAIN scores' =>
             /\ scores'[op.id].parts = scores[op.id].parts /\ scores'[op.id].total = op.value
             /\ scores'[op.id].model = scores[op.id].model
    <3>1. CASE op.id \in DOMAIN scores
      <4>1. scores' = [scores EXCEPT ![op.id].total = op.value]
        BY <2>0, <3>1 DEF Totalling
      <4>2. RowsKept
        BY <1>0, <2>0, <3>1, <4>1, OneField
      <4> QED BY <1>0, <2>0, <3>1, <4>1, <4>2, TotalSet
    <3>2. CASE op.id \notin DOMAIN scores
      <4>1. UNCHANGED <<scores, nextId>>
        BY <2>0, <3>2 DEF Totalling
      <4> QED BY <1>0, <3>2, <4>1, NothingStored DEF Values
    <3> QED BY <3>1, <3>2
  <2>5. Names(ops[t])'
    BY <1>0, <2>0, <2>3, <2>4 DEF Names, Given, Shape
  <2>6. ASSUME NEW i \in DOMAIN scores', i \notin loose' PROVE Untaken(i, t, q) \/ Held(i, t, q)
    <3>1. CASE i # op.id
      BY <2>3, <2>4, <3>1 DEF Untaken, On, op
    <3>2. CASE i = op.id
      <4>1. On(q, i) /\ On(ops[t], i) /\ i \in DOMAIN scores
        BY <2>0, <2>3, <2>4, <3>2 DEF On, op
      <4>2. SumOf(scores[i].parts) = op.value
        BY <1>0, <2>0, <2>6, <4>1 DEF Settled, RowOK, Keeps, op
      <4>3. Keeps(q, scores'[i])
        BY <2>3, <2>4, <3>2, <4>2 DEF Keeps
      <4> QED BY <4>1, <4>3 DEF Held
    <3> QED BY <3>1, <3>2
  <2>7. loose \subseteq loose' /\ Base'
    BY <1>0, <2>0 DEF Base
  <2> QED BY <1>0, <2>0, <2>3, <2>4, <2>5, <2>6, <2>7, ThreadSum
<1> QED BY <1>1, <1>2, <1>3, <1>4

LEMMA GradeSums ==
  ASSUME SumInv, BoardInv, NEW t \in Threads,
         \/ \E i \in DOMAIN scores, f \in Factors, v \in Totals : GradeStart(t, i, f, v)
         \/ GradeFactor(t) \/ GradeSum(t) \/ GradeFinalize(t)
  PROVE  SumInv'
<1> DEFINE op == ops[t]
<1>0. /\ IsOp(op) /\ Shape /\ Rows /\ Values /\ Base /\ Carries(op) /\ Names(op)
      /\ nextId \in Nat /\ Carried /\ Settled
  BY DEF BoardInv, Running, SumInv, Carried, Shape
<1>a. Totals \subseteq Int /\ None \notin Int
  BY ScoresAssumption DEF ScoresAssumption
<1>1. CASE \E i \in DOMAIN scores, f \in Factors, v \in Totals : GradeStart(t, i, f, v)
  <2>1. PICK k \in DOMAIN scores, f \in Factors, v \in Totals : GradeStart(t, k, f, v)
    BY <1>1
  <2> DEFINE q == [Op("grade", "factor") EXCEPT !.id = k, !.org = f, !.value = v]
  <2>2. q.kind = "grade" /\ q.at = "factor" /\ q.id = k /\ q.org = f /\ q.value = v
    BY DEF Op
  <2> HIDE DEF q
  <2>3. /\ ops' = [ops EXCEPT ![t] = q] /\ UNCHANGED <<filings, scores, nextId>>
        /\ loose' = IF Busy(k) # {} THEN loose \cup {k} ELSE loose
        /\ ops[t].kind = "idle" /\ scores[k].model = "manual"
    BY <2>1 DEF GradeStart, Start, Idle, q
  <2>4. RowsKept /\ Values' /\ Base' /\ loose \subseteq loose'
    BY <1>0, <2>3, NothingStored DEF Values, Base
  <2>5. Given(k)
    BY <1>0 DEF Rows
  <2>6. Carries(q)
    BY <1>a, <2>2, <2>5 DEF Carries, Given
  <2>7. Names(ops[t])'
    BY <1>0, <2>2, <2>3, <2>5 DEF Names, Given, Shape
  <2>8. ASSUME NEW i \in DOMAIN scores' PROVE Untaken(i, t, q) \/ i \in loose' \/ Held(i, t, q)
    <3>1. CASE i # k
      BY <2>2, <2>3, <3>1 DEF Untaken, On
    <3>2. CASE i = k /\ Busy(k) = {}
      <4>1. \A u \in Threads : ~On(ops[u], i)
        BY <3>2 DEF Busy, Idle, On
      <4>2. On(q, i) /\ Keeps(q, scores'[i])
        BY <2>2, <3>2 DEF On, Keeps
      <4> QED BY <4>1, <4>2 DEF Held
    <3>3. CASE i = k /\ Busy(k) # {}
      BY <2>3, <3>3
    <3> QED BY <3>1, <3>2, <3>3
  <2> QED BY <1>0, <2>3, <2>4, <2>6, <2>7, <2>8, ThreadSum
<1>2. CASE GradeFactor(t)
  <2> DEFINE q == [op EXCEPT !.at = "sum"]
  <2>0. /\ op.kind = "grade" /\ op.at = "factor" /\ op.value \in Int /\ op.org \in Factors
        /\ op.id # None /\ UNCHANGED <<filings, loose, nextId>>
    BY <1>0, <1>2 DEF GradeFactor, Is, Carries
  <2>1. CASE op.id \in DOMAIN scores
    <3>1. /\ scores' = [scores EXCEPT ![op.id].parts = Put(@, op.org, op.value)]
          /\ ops' = [ops EXCEPT ![t] = q]
      BY <1>2, <2>1 DEF GradeFactor, Goto
    <3>2. Advanced(op, q, "sum", op.value)
      BY <1>0 DEF IsOp, Advanced
    <3>3. scores[op.id].model = "manual"
      BY <1>0, <2>0, <2>1 DEF Names
    <3> HIDE DEF q, op
    <3>4. RowsKept
      BY <1>0, <2>0, <2>1, <3>1, OneField
    <3>5. op.org \in FactorsOf(scores[op.id].model)
      BY <2>0, <3>3 DEF FactorsOf
    <3>6. /\ Values'
          /\ \A j \in DOMAIN scores' : j \in DOMAIN scores /\ (j # op.id => scores'[j] = scores[j])
          /\ scores'[op.id].model = scores[op.id].model
      BY <1>0, <2>0, <2>1, <3>1, <3>5, PartsSet
    <3>7. Carries(q) /\ q.kind = "grade" /\ q.at = "sum" /\ q.id = op.id
      BY <2>0, <3>2 DEF Advanced, Carries
    <3>8. Names(ops[t])'
      BY <1>0, <2>0, <3>1, <3>3, <3>6, <3>7 DEF Names, Given, Shape
    <3>9. ASSUME NEW i \in DOMAIN scores' PROVE Untaken(i, t, q) \/ i \in loose' \/ Held(i, t, q)
      <4>1. CASE i # op.id
        BY <3>6, <3>7, <4>1 DEF Untaken, On, op
      <4>2. CASE i = op.id
        BY <2>0, <2>1, <3>7, <4>2 DEF On, Held, Keeps, op
      <4> QED BY <4>1, <4>2
    <3>10. loose \subseteq loose' /\ Base'
      BY <1>0, <2>0 DEF Base
    <3> QED BY <1>0, <3>1, <3>4, <3>6, <3>7, <3>8, <3>9, <3>10, ThreadSum
  <2>2. CASE op.id \notin DOMAIN scores
    <3>1. End(t) /\ UNCHANGED <<filings, scores, nextId, loose>>
      BY <1>2, <2>0, <2>2 DEF GradeFactor
    <3>2. \A i \in DOMAIN scores : ~On(ops[t], i)
      BY <2>2 DEF On
    <3> QED BY <3>1, <3>2, EndSum
  <2> QED BY <2>1, <2>2
<1>3. CASE GradeSum(t)
  <2> DEFINE sum == SumWeighted(op.id)
             q == [op EXCEPT !.value = sum, !.at = "finalize"]
  <2>0. /\ op.kind = "grade" /\ op.at = "sum" /\ op.id # None
        /\ UNCHANGED <<filings, scores, loose, nextId>>
    BY <1>0, <1>3 DEF GradeSum, Is, Carries
  <2>1. ops' = [ops EXCEPT ![t] = q]
    BY <1>0, <1>3 DEF GradeSum, Shape
  <2>2. sum \in Int
    <3>1. CASE op.id \in DOMAIN scores
      <4>1. Valued(scores[op.id])
        BY <1>0, <3>1 DEF Values
      <4> QED BY <3>1, <4>1, SumIsInt DEF Valued, SumWeighted
    <3>2. CASE op.id \notin DOMAIN scores
      BY <3>2 DEF SumWeighted
    <3> QED BY <3>1, <3>2
  <2>3. op.id \in DOMAIN scores => sum = SumOf(scores[op.id].parts)
    BY DEF SumWeighted
  <2>4. Advanced(op, q, "finalize", sum)
    BY <1>0 DEF IsOp, Advanced
  <2> HIDE DEF q, sum, op
  <2>5. /\ Carries(q) /\ q.kind = "grade" /\ q.at = "finalize" /\ q.id = op.id /\ q.value = sum
    BY <2>0, <2>2, <2>4 DEF Advanced, Carries
  <2>6. RowsKept /\ Values' /\ Base' /\ loose \subseteq loose'
    BY <1>0, <2>0, NothingStored DEF Values, Base
  <2>7. Names(ops[t])'
    BY <1>0, <2>0, <2>1, <2>5 DEF Names, Given, Shape, op
  <2>8. ASSUME NEW i \in DOMAIN scores' PROVE Untaken(i, t, q) \/ Held(i, t, q)
    <3>1. CASE i # op.id
      BY <2>0, <2>5, <3>1 DEF Untaken, On, op
    <3>2. CASE i = op.id
      BY <2>0, <2>3, <2>5, <3>2 DEF On, Held, Keeps, op
    <3> QED BY <3>1, <3>2
  <2> QED BY <1>0, <2>1, <2>5, <2>6, <2>7, <2>8, ThreadSum
<1>4. CASE GradeFinalize(t)
  <2>0. /\ op.kind = "grade" /\ op.at = "finalize" /\ op.value \in Int /\ op.id # None
        /\ UNCHANGED <<filings, loose, nextId>> /\ Totalling(op.id, op.value) /\ End(t)
        /\ ops' = [ops EXCEPT ![t] = Quiet]
    BY <1>0, <1>4 DEF GradeFinalize, Is, Carries, End
  <2> HIDE DEF op
  <2>1. CASE op.id \notin DOMAIN scores
    <3>1. UNCHANGED scores /\ \A i \in DOMAIN scores : ~On(ops[t], i)
      BY <2>0, <2>1 DEF Totalling, On, op
    <3> QED BY <2>0, <3>1, EndSum
  <2>2. CASE op.id \in DOMAIN scores
    <3>1. scores' = [scores EXCEPT ![op.id].total = op.value]
      BY <2>0, <2>2 DEF Totalling
    <3>2. RowsKept
      BY <1>0, <2>0, <2>2, <3>1, OneField
    <3>3. /\ Values'
          /\ \A j \in DOMAIN scores' : j \in DOMAIN scores /\ (j # op.id => scores'[j] = scores[j])
          /\ scores'[op.id].parts = scores[op.id].parts /\ scores'[op.id].total = op.value
      BY <1>0, <2>0, <2>2, <3>1, TotalSet
    <3>4. Names(ops[t])'
      BY <1>0, <2>0, QuietCarries DEF Names, Shape
    <3>5. ASSUME NEW i \in DOMAIN scores', i \notin loose'
          PROVE  Untaken(i, t, Quiet) \/ Held(i, t, Quiet)
      <4>0. ~On(Quiet, i)
        BY QuietCarries DEF On
      <4>1. CASE i # op.id
        BY <3>3, <4>0, <4>1 DEF Untaken, On, op
      <4>2. CASE i = op.id
        <5>1. On(ops[t], i) /\ i \in DOMAIN scores
          BY <2>0, <2>2, <4>2 DEF On, op
        <5>2. SumOf(scores[i].parts) = op.value
          BY <1>0, <2>0, <3>5, <5>1 DEF Settled, RowOK, Keeps, op
        <5> QED BY <3>3, <4>0, <4>2, <5>1, <5>2 DEF Held, Summed
      <4> QED BY <4>1, <4>2
    <3>6. loose \subseteq loose' /\ Base'
      BY <1>0, <2>0 DEF Base
    <3> QED BY <1>0, <2>0, <3>2, <3>3, <3>4, <3>5, <3>6, QuietCarries, ThreadSum
  <2> QED BY <2>1, <2>2
<1> QED BY <1>1, <1>2, <1>3, <1>4

LEMMA LastSums ==
  ASSUME SumInv, BoardInv, NEW t \in Threads, Refresh(t) \/ RefreshFails(t) \/ Abort(t)
  PROVE  SumInv'
<1> DEFINE op == ops[t]
<1>0. Carries(op) /\ Settled
  BY DEF SumInv, Carried
<1>1. End(t) /\ UNCHANGED <<filings, scores, nextId>> /\ loose \subseteq loose'
  BY DEF Refresh, RefreshFails, Abort
<1>2. ASSUME NEW i \in DOMAIN scores, On(op, i) PROVE i \in loose' \/ Summed(scores[i])
  <2>0. i \in Nat /\ op.id = i /\ None \notin Int
    BY <1>2, ScoresAssumption DEF BoardInv, Rows, Given, On, ScoresAssumption
  <2>1. CASE Abort(t)
    BY <2>0, <2>1 DEF Abort
  <2>2. CASE AtCache(t)
    <3>1. op.kind = "calc" /\ op.at = "cache"
      BY <1>0, <2>0, <2>2 DEF AtCache, Idle, Carries
    <3>2. i \in loose \/ Keeps(op, scores[i])
      BY <1>0, <1>2 DEF Settled, RowOK
    <3> QED BY <1>1, <3>1, <3>2 DEF Keeps, Summed
  <2> QED BY <2>1, <2>2 DEF Refresh, RefreshFails
<1> QED BY <1>1, <1>2, EndSum

LEMMA BatchRows ==
  ASSUME BoardInv, SumInv, NEW t \in Threads, BatchCommit(t)
  PROVE  /\ RowsKept /\ Values'
         /\ \A i \in DOMAIN scores' :
              \/ i \in DOMAIN scores /\ scores'[i] = scores[i]
              \/ i \in Int /\ ~(i < nextId) /\ Summed(scores'[i])
<1> DEFINE op == ops[t]
           o == CHOOSE x \in op.todo : \A p \in op.todo : x <= p
           ys == {y \in Years : <<o, y>> \in filings}
           n == Cardinality(ys)
           kept == IF ys = {} THEN scores ELSE Without(Ids("computed", o))
           rows(total) == [i \in nextId..(nextId + n - 1) |->
                            [NewRow(o, SetToSeq(ys)[i - nextId + 1], "computed") EXCEPT
                               !.total = total, !.parts = [f \in {None} |-> total]]]
<1>0. nextId \in Nat /\ Rows /\ Values /\ Base
  BY DEF BoardInv, Shape, SumInv
<1>1. PICK total \in Totals : scores' = With(rows(total), kept) /\ nextId' = nextId + n
  BY DEF BatchCommit
<1>2. IsFiniteSet(ys) /\ n \in Nat
  BY FS_Subset, FS_CardinalityType, ScoresAssumption DEF ScoresAssumption
<1>3. \A k \in 1..n : SetToSeq(ys)[k] \in ys
  <2>1. PICK f : ExistsBijection(1..n, ys) /\ f \in Bijection(1..n, ys)
    BY <1>2, FS_CardinalityType DEF ExistsBijection
  <2>2. f \in [1..n -> ys] /\ IsInjective(f)
    BY <2>1 DEF Bijection, Injection, IsInjective
  <2> HIDE DEF ys, n
  <2>3. (CHOOSE g \in [1..n -> ys] : IsInjective(g)) \in [1..n -> ys]
    BY <2>2
  <2>4. SetToSeq(ys) \in [1..n -> ys]
    BY <2>3 DEF SetToSeq, n
  <2> QED BY <2>4
<1>4. /\ DOMAIN kept \subseteq DOMAIN scores
      /\ \A i \in DOMAIN kept : kept[i] = scores[i]
  BY DEF Without, Ids, Restrict
<1>5. ASSUME NEW i \in nextId..(nextId + n - 1)
      PROVE  Valued(rows(total)[i]) /\ Summed(rows(total)[i])
  <2> DEFINE y == SetToSeq(ys)[i - nextId + 1]
             row == [NewRow(o, y, "computed") EXCEPT !.total = total,
                                                      !.parts = [f \in {None} |-> total]]
  <2>1. rows(total)[i] = row
    OBVIOUS
  <2>2. i - nextId + 1 \in 1..n
    BY <1>0, <1>2
  <2>3. y \in ys
    BY <1>3, <2>2
  <2>4. o \in Orgs /\ y \in Years
    BY <1>0, <2>3, ScoresAssumption DEF Base, ScoresAssumption
  <2>5. total \in Int
    BY ScoresAssumption DEF ScoresAssumption
  <2> HIDE DEF o, y, rows
  <2>6. /\ row.org = o /\ row.year = y /\ row.model = "computed" /\ row.total = total
        /\ row.parts = [f \in {None} |-> total]
    BY DEF NewRow
  <2> HIDE DEF row
  <2>7. SumOf(row.parts) = total /\ IsFiniteSet(DOMAIN row.parts)
    <3>1. DOMAIN row.parts = {None} /\ IsFiniteSet({None})
      BY <2>6, FS_Singleton
    <3>2. SumOf(row.parts) = total
      BY <2>5, <2>6, SumOfOne
    <3> QED BY <3>1, <3>2
  <2>8. Valued(row)
    BY <2>4, <2>5, <2>6, <2>7 DEF Valued, Models, FactorsOf
  <2>9. Summed(row)
    BY <2>6, <2>7 DEF Summed
  <2> QED BY <2>1, <2>8, <2>9
<1>6. DOMAIN rows(total) = nextId..(nextId + n - 1)
  OBVIOUS
<1> HIDE DEF o, ys, n, kept, rows
<1>7. /\ DOMAIN scores' = DOMAIN kept \cup nextId..(nextId + n - 1)
      /\ \A i \in DOMAIN kept : scores'[i] = scores[i]
      /\ \A i \in DOMAIN scores' \ DOMAIN kept : scores'[i] = rows(total)[i]
  BY <1>1, <1>4, <1>6 DEF With
<1>8. ASSUME NEW i \in DOMAIN scores'
      PROVE  \/ i \in DOMAIN kept /\ i \in DOMAIN scores /\ scores'[i] = scores[i]
             \/ /\ i \in Int /\ i >= nextId /\ ~(i < nextId)
                /\ Summed(scores'[i]) /\ Valued(scores'[i])
  BY <1>0, <1>2, <1>4, <1>5, <1>7
<1>9. RowsKept
  BY <1>0, <1>1, <1>2, <1>8 DEF RowsKept, Given
<1>10. Values'
  BY <1>0, <1>8 DEF Values
<1> QED BY <1>8, <1>9, <1>10

LEMMA BatchSums ==
  ASSUME SumInv, BoardInv, NEW t \in Threads,
         \/ \E os \in SUBSET Orgs : BatchStart(t, os)
         \/ BatchCommit(t)
         \/ \E o \in Orgs, d \in Dims : EditOrg(t, o, d)
         \/ Classify(t)
  PROVE  SumInv'
<1> DEFINE op == ops[t]
<1>0. IsOp(op) /\ Shape /\ Rows /\ Carries(op) /\ Carried
  BY DEF BoardInv, Running, SumInv, Carried
<1>1. CASE \E os \in SUBSET Orgs : BatchStart(t, os)
  <2>1. PICK os \in SUBSET Orgs : BatchStart(t, os)
    BY <1>1
  <2> DEFINE q == [Op("batch", "score") EXCEPT !.todo = os]
  <2>2. Carries(q) /\ q.id = None
    BY DEF Op, Carries
  <2> HIDE DEF q
  <2>3. /\ ops' = [ops EXCEPT ![t] = q] /\ UNCHANGED <<filings, scores, loose, nextId>>
        /\ ops[t].kind = "idle"
    BY <2>1 DEF BatchStart, Start, Idle, q
  <2> QED BY <2>2, <2>3, StartSum
<1>2. CASE \E o \in Orgs, d \in Dims : EditOrg(t, o, d)
  <2>1. PICK o \in Orgs, d \in Dims : EditOrg(t, o, d)
    BY <1>2
  <2> DEFINE q == [Op("edit", "cache") EXCEPT !.done = {o}]
  <2>2. Carries(q) /\ q.id = None
    BY DEF Op, Carries
  <2> HIDE DEF q
  <2>3. /\ ops' = [ops EXCEPT ![t] = q] /\ UNCHANGED <<filings, scores, loose, nextId>>
        /\ ops[t].kind = "idle"
    BY <2>1 DEF EditOrg, Start, Idle, q
  <2> QED BY <2>2, <2>3, StartSum
<1>3. CASE Classify(t)
  <2> DEFINE q == [Op("classify", "cache") EXCEPT !.done = Orgs]
  <2>2. Carries(q) /\ q.id = None
    BY DEF Op, Carries
  <2> HIDE DEF q
  <2>3. /\ ops' = [ops EXCEPT ![t] = q] /\ UNCHANGED <<filings, scores, loose, nextId>>
        /\ ops[t].kind = "idle"
    BY <1>3 DEF Classify, Start, Idle, q
  <2> QED BY <2>2, <2>3, StartSum
<1>4. CASE BatchCommit(t)
  <2>1. PICK o, at : ops' = [ops EXCEPT ![t].todo = @ \ {o}, ![t].done = @ \cup {o}, ![t].at = at]
    BY <1>4 DEF BatchCommit
  <2> DEFINE q == [op EXCEPT !.todo = @ \ {o}, !.done = @ \cup {o}, !.at = at]
  <2>2. ops' = [ops EXCEPT ![t] = q]
    BY <1>0, <2>1 DEF Shape
  <2>3. op.kind = "batch" /\ UNCHANGED <<filings, loose>>
    BY <1>4 DEF BatchCommit, Is
  <2>4. q.kind = op.kind /\ q.id = op.id
    BY <1>0 DEF IsOp
  <2> HIDE DEF q, op
  <2>5. Carries(q) /\ q.id = None /\ op.id = None
    BY <1>0, <2>3, <2>4 DEF Carries
  <2>6. Names(ops[t])'
    BY <1>0, <2>2, <2>5 DEF Names, Shape
  <2>7. RowsKept /\ Values'
    BY <1>4, BatchRows
  <2>8. ASSUME NEW i \in DOMAIN scores' PROVE Untaken(i, t, q) \/ Held(i, t, q)
    <3>1. CASE i \in DOMAIN scores /\ scores'[i] = scores[i]
      <4>1. i \in Int
        BY <1>0, <3>1 DEF Rows, Given
      <4> QED BY <2>5, <3>1, <4>1, Offside DEF Untaken, op
    <3>2. CASE i \in Int /\ ~(i < nextId) /\ Summed(scores'[i])
      <4>1. \A u \in Threads : ~On(ops[u], i)
        BY <1>0, <3>2, Fresh
      <4>2. ~On(q, i)
        BY <2>5, <3>2, Offside
      <4> QED BY <3>2, <4>1, <4>2 DEF Held
    <3> QED BY <1>4, <3>1, <3>2, BatchRows
  <2>9. loose \subseteq loose' /\ Base'
    BY <2>3 DEF Base, SumInv
  <2> QED BY <1>0, <2>2, <2>5, <2>6, <2>7, <2>8, <2>9, ThreadSum
<1> QED BY <1>1, <1>2, <1>3, <1>4

LEMMA PlainSums ==
  ASSUME SumInv, BoardInv,
         \/ \E o \in Orgs, y \in Years : Anchor(o, y) \/ StoreFiling(o, y)
         \/ \E o \in Orgs, d \in Dims : DropAddress(o, d)
         \/ \E i \in DOMAIN scores, v \in Totals :
              PostTotal(i, v) \/ \E f \in FactorsOf(scores[i].model) : PostFactor(i, f, v)
         \/ UNCHANGED vars
  PROVE  SumInv'
<1>0. Shape /\ Rows /\ Values /\ Carried /\ filings \subseteq Returns /\ nextId \in Nat
  BY DEF BoardInv, SumInv, Base, Shape
<1>a. Totals \subseteq Int /\ Returns \subseteq Orgs \X Years
  BY ScoresAssumption DEF ScoresAssumption
<1>b. UNCHANGED ops => \A t \in Threads : SameOp(ops[t], ops'[t])
  BY DEF SameOp
<1>1. ASSUME NEW o \in Orgs, NEW y \in Years, Anchor(o, y) PROVE SumInv'
  <2>1. Create(o, y, "manual") /\ UNCHANGED <<filings, ops, loose>> /\ "manual" \in Models
    BY <1>1 DEF Anchor, Models
  <2>2. RowsKept
    BY <1>0, <2>1, Created
  <2>3. /\ Values'
        /\ \A i \in DOMAIN scores' :
              \/ i \in DOMAIN scores /\ scores'[i] = scores[i]
              \/ i = nextId /\ Summed(scores'[i])
    BY <1>0, <2>1, CreatedValues
  <2>4. nextId \in Int /\ \A t \in Threads : ~On(ops[t], nextId)
    BY <1>0, Fresh
  <2>5. Base' /\ loose \subseteq loose'
    BY <1>0, <2>1 DEF Base
  <2> QED BY <1>0, <1>b, <2>1, <2>2, <2>3, <2>4, <2>5, PlainSum
<1>2. ASSUME UNCHANGED <<scores, nextId, loose, ops>>, filings' \subseteq Returns PROVE SumInv'
  <2>1. RowsKept /\ Values' /\ Base'
    BY <1>0, <1>2, NothingStored DEF Values, Base
  <2> QED BY <1>0, <1>2, <1>b, <2>1, PlainSum
<1>3. ASSUME NEW i \in DOMAIN scores, NEW v \in Totals, PostTotal(i, v) PROVE SumInv'
  <2>1. /\ scores' = [scores EXCEPT ![i].total = v] /\ UNCHANGED <<filings, ops, nextId>>
        /\ loose' = loose \cup {i} /\ v \in Int
    BY <1>3, <1>a DEF PostTotal, Totalling
  <2>2. RowsKept
    BY <1>0, <2>1, OneField
  <2>3. /\ Values'
        /\ \A j \in DOMAIN scores' : j \in DOMAIN scores /\ (j # i => scores'[j] = scores[j])
    BY <1>0, <2>1, TotalSet
  <2>4. Base' /\ loose \subseteq loose'
    BY <1>0, <2>1 DEF Base
  <2> QED BY <1>0, <1>b, <2>1, <2>2, <2>3, <2>4, PlainSum
<1>4. ASSUME NEW i \in DOMAIN scores, NEW v \in Totals, NEW f \in FactorsOf(scores[i].model),
             PostFactor(i, f, v)
      PROVE  SumInv'
  <2>1. /\ scores' = [scores EXCEPT ![i].parts = Put(@, f, v)] /\ UNCHANGED <<filings, ops, nextId>>
        /\ loose' = loose \cup {i} /\ v \in Int
    BY <1>4, <1>a DEF PostFactor
  <2>2. RowsKept
    BY <1>0, <2>1, OneField
  <2>3. /\ Values'
        /\ \A j \in DOMAIN scores' : j \in DOMAIN scores /\ (j # i => scores'[j] = scores[j])
    BY <1>0, <2>1, PartsSet
  <2>4. Base' /\ loose \subseteq loose'
    BY <1>0, <2>1 DEF Base
  <2> QED BY <1>0, <1>b, <2>1, <2>2, <2>3, <2>4, PlainSum
<1>5. ASSUME NEW o \in Orgs, NEW y \in Years, StoreFiling(o, y) PROVE SumInv'
  BY <1>0, <1>2, <1>5 DEF StoreFiling
<1>6. ASSUME NEW o \in Orgs, NEW d \in Dims, DropAddress(o, d) PROVE SumInv'
  BY <1>0, <1>2, <1>6 DEF DropAddress
<1>7. CASE UNCHANGED vars
  BY <1>0, <1>2, <1>7 DEF vars
<1> QED BY <1>1, <1>3, <1>4, <1>5, <1>6, <1>7

LEMMA PurgeSums ==
  ASSUME SumInv, BoardInv, (\E y \in Years : Purge({f \in filings : f[2] = y})) \/ PurgeAll
  PROVE  SumInv'
<1>0. Shape /\ Rows /\ Running /\ Values /\ filings \subseteq Returns /\ nextId \in Nat
  BY DEF BoardInv, SumInv, Base, Shape
<1>1. PICK fs : ops' = Orphaned(fs)
  BY DEF Purge, PurgeAll
<1> DEFINE Fewer ==
             /\ UNCHANGED <<loose, nextId>> /\ filings' \subseteq Returns
             /\ DOMAIN scores' \subseteq DOMAIN scores
             /\ \A i \in DOMAIN scores' : scores'[i] = scores[i]
<1>2. Fewer
  <2>1. ASSUME NEW gs, Purge(gs) PROVE Fewer
    <3>1. PICK gone : scores' = Without(gone)
      BY <2>1 DEF Purge
    <3> QED BY <1>0, <2>1, <3>1 DEF Purge, Without, Restrict
  <2>2. CASE PurgeAll
    BY <2>2 DEF PurgeAll
  <2> QED BY <2>1, <2>2
<1>3. \A t \in Threads : SameOp(ops[t], ops'[t])
  <2> SUFFICES ASSUME NEW t \in Threads PROVE SameOp(ops[t], ops'[t])
    OBVIOUS
  <2>1. IsOp(ops[t])
    BY <1>0 DEF Running
  <2>2. ops'[t] = ops[t] \/ ops'[t] = [ops[t] EXCEPT !.year = None]
    BY <1>1 DEF Orphaned
  <2> QED BY <2>1, <2>2 DEF IsOp, SameOp
<1>4. RowsKept
  BY <1>0, <1>2 DEF RowsKept
<1>5. Values' /\ Base'
  BY <1>0, <1>2 DEF Values, Base
<1> QED BY <1>0, <1>2, <1>3, <1>4, <1>5, PlainSum

LEMMA InitSum == Init => SumInv
<1> SUFFICES ASSUME Init PROVE SumInv
  OBVIOUS
<1>1. Values /\ Settled /\ Base
  BY DEF Init, Values, Settled, Base
<1>2. \A t \in Threads : ops[t] = Quiet
  BY DEF Init
<1>3. Carried
  BY <1>2, QuietCarries DEF Carried, Names
<1> QED BY <1>1, <1>3 DEF SumInv

LEMMA NextSum == SumInv /\ BoardInv /\ [Next]_vars => SumInv'
  BY CalcSums, GradeSums, LastSums, BatchSums, PlainSums, PurgeSums DEF Next

(***************************************************************************)
(* For any number of operations at once, any factors and whichever of the   *)
(* operations fail: a score's total is the sum of the factors it holds,     *)
(* when one operation at a time wrote it and each came to its end.          *)
(* calculate and grade store factors, sum and total in transactions of      *)
(* their own: one that read the sum too early would break it.               *)
(***************************************************************************)
THEOREM TotalsAreSums == Spec => []TotalIsSum
<1>1. SumInv => TotalIsSum
  BY SumFollows
<1> QED BY <1>1, InitInv, NextInv, InitSum, NextSum, PTL DEF Spec

-----------------------------------------------------------------------------
(* Rankings.                                                                *)

(* What rankings are read from: finitely many rows, one per organization.   *)
Board(rows) ==
  /\ IsFiniteSet(rows)
  /\ \A r \in rows : r.total \in Int /\ r.org \in Int
  /\ \A r, s \in rows : r.org = s.org => r = s
Place(rows, r) == Cardinality({s \in rows : Before(s, r)})

LEMMA PlaceIs ==
  ASSUME NEW rows, Board(rows), NEW r \in rows
  PROVE  /\ IsFiniteSet({s \in rows : Before(s, r)}) /\ Place(rows, r) \in Nat
         /\ Cardinality(rows) \in Nat /\ Place(rows, r) \in 0..(Cardinality(rows) - 1)
         /\ Cardinality(Above(rows, r)) \in 0..(Cardinality(rows) - 1)
<1>1. r.total \in Int /\ r.org \in Int /\ IsFiniteSet(rows) /\ Cardinality(rows) \in Nat
  BY FS_CardinalityType DEF Board
<1>2. ASSUME NEW S \in SUBSET rows, r \notin S
      PROVE  /\ IsFiniteSet(S) /\ Cardinality(S) \in Nat
             /\ Cardinality(S) \in 0..(Cardinality(rows) - 1)
  <2>1. IsFiniteSet(rows \ {r}) /\ Cardinality(rows \ {r}) = Cardinality(rows) - 1
    BY <1>1, FS_RemoveElement
  <2>2. S \in SUBSET (rows \ {r})
    BY <1>2
  <2>3. IsFiniteSet(S) /\ Cardinality(S) <= Cardinality(rows \ {r})
    BY <2>1, <2>2, FS_Subset
  <2>4. Cardinality(S) \in Nat
    BY <2>3, FS_CardinalityType
  <2> QED BY <1>1, <2>1, <2>3, <2>4
<1>3. ~Before(r, r) /\ ~(r.total > r.total)
  BY <1>1 DEF Before
<1> QED BY <1>1, <1>2, <1>3 DEF Place, Above

LEMMA PlaceGrows ==
  ASSUME NEW rows, Board(rows), NEW r \in rows, NEW s \in rows
  PROVE  /\ Before(r, s) => Place(rows, r) < Place(rows, s)
         /\ r # s => Before(r, s) \/ Before(s, r)
<1>1. /\ r.total \in Int /\ r.org \in Int /\ s.total \in Int /\ s.org \in Int
      /\ \A q \in rows : q.total \in Int /\ q.org \in Int
  BY DEF Board
<1>2. r # s => Before(r, s) \/ Before(s, r)
  <2>1. r # s => r.org # s.org
    BY DEF Board
  <2> QED BY <1>1, <2>1 DEF Before
<1>3. ASSUME Before(r, s) PROVE Place(rows, r) < Place(rows, s)
  <2> DEFINE A == {q \in rows : Before(q, r)}
             B == {q \in rows : Before(q, s)}
  <2>1. A \in SUBSET B /\ r \in B /\ r \notin A
    BY <1>1, <1>3 DEF Before
  <2>2. /\ IsFiniteSet(A) /\ IsFiniteSet(B)
        /\ Cardinality(A) = Place(rows, r) /\ Cardinality(B) = Place(rows, s)
    BY PlaceIs DEF Place
  <2>3. Cardinality(A) \in Nat /\ Cardinality(B) \in Nat
    BY <2>2, FS_CardinalityType
  <2> HIDE DEF A, B
  <2>4. Cardinality(A) <= Cardinality(B) /\ (Cardinality(B) = Cardinality(A) => B = A)
    BY <2>1, <2>2, FS_Subset
  <2> QED BY <2>1, <2>2, <2>3, <2>4
<1> QED BY <1>2, <1>3

(* In the order of the board index there is a row at every place.           *)
LEMMA OrderedRows ==
  ASSUME NEW rows, Board(rows), NEW i \in 1..Cardinality(rows)
  PROVE  Ordered(rows)[i] \in rows /\ Place(rows, Ordered(rows)[i]) = i - 1
<1> DEFINE n == Cardinality(rows)
           T == 0..(n - 1)
           f == [r \in rows |-> Place(rows, r)]
<1>1. n \in Nat /\ IsFiniteSet(rows)
  BY FS_CardinalityType DEF Board
<1>2. f \in [rows -> T]
  BY PlaceIs
<1>3. \A r, s \in rows : f[r] = f[s] => r = s
  <2> SUFFICES ASSUME NEW r \in rows, NEW s \in rows, r # s PROVE f[r] # f[s]
    OBVIOUS
  <2>1. Place(rows, r) \in Nat /\ Place(rows, s) \in Nat
    BY PlaceIs
  <2>2. Place(rows, r) < Place(rows, s) \/ Place(rows, s) < Place(rows, r)
    BY PlaceGrows
  <2> QED BY <2>1, <2>2
<1>4. IsFiniteSet(T) /\ Cardinality(T) = n
  <2> HIDE DEF n
  <2>1. 0 \in Int /\ n - 1 \in Int /\ (IF 0 > n - 1 THEN 0 ELSE n - 1 - 0 + 1) = n
    BY <1>1
  <2> QED BY <2>1, FS_Interval
<1> HIDE DEF f, T
<1>5. f \in Injection(rows, T)
  BY <1>2, <1>3 DEF Injection, IsInjective
<1>6. f \in Surjection(rows, T)
  BY <1>1, <1>4, <1>5, FS_Injection
<1>7. i - 1 \in T
  BY <1>1 DEF T
<1>8. PICK r \in rows : f[r] = i - 1
  BY <1>6, <1>7 DEF Surjection
<1>9. Place(rows, r) = i - 1
  BY <1>8 DEF f
<1>10. Ordered(rows)[i] = CHOOSE q \in rows : Cardinality({s \in rows : Before(s, q)}) = i - 1
  BY DEF Ordered
<1> QED BY <1>9, <1>10 DEF Place

(* A page of it has the rows of consecutive places.                         *)
LEMMA PageRows ==
  ASSUME NEW rows, Board(rows), NEW limit \in Nat, NEW offset \in Nat
  PROVE  LET page == Page(rows, limit, offset) IN
         \A i \in DOMAIN page :
           /\ i \in Nat \ {0} /\ (i > 1 => i - 1 \in DOMAIN page)
           /\ page[i] \in rows /\ Place(rows, page[i]) = offset + i - 1
<1> DEFINE n == Cardinality(rows)
           last == Min({offset + limit, n})
           page == Page(rows, limit, offset)
<1>1. n \in Nat
  BY FS_CardinalityType DEF Board
<1>2. last \in Nat /\ last <= n
  <2>1. \E x \in {offset + limit, n} : \A y \in {offset + limit, n} : x <= y
    BY <1>1
  <2>2. last \in {offset + limit, n} /\ \A y \in {offset + limit, n} : last <= y
    BY <2>1 DEF Min
  <2> QED BY <1>1, <2>2
<1> HIDE DEF last
<1>3. \A i \in (offset + 1)..last : i \in 1..n
  BY <1>1, <1>2
<1>4. \A i \in (offset + 1)..last : Ordered(rows)[i] \in rows
  BY <1>3, OrderedRows
<1>5. page = SubSeq(Ordered(rows), offset + 1, last)
  BY DEF Page, last
<1> HIDE DEF n, page
<1>6. /\ page \in Seq(rows) /\ Len(page) = IF offset + 1 <= last THEN last - (offset + 1) + 1 ELSE 0
      /\ \A i \in 1..(last - (offset + 1) + 1) : page[i] = Ordered(rows)[offset + 1 + i - 1]
  BY <1>2, <1>4, <1>5, SubSeqProperties
<1>7. ASSUME NEW i \in DOMAIN page
      PROVE  /\ i \in Nat \ {0} /\ (i > 1 => i - 1 \in DOMAIN page)
             /\ page[i] \in rows /\ Place(rows, page[i]) = offset + i - 1
  <2>1. DOMAIN page = 1..Len(page)
    BY <1>6
  <2>2. /\ i \in Nat /\ i >= 1 /\ offset + i \in (offset + 1)..last
        /\ i \in 1..(last - (offset + 1) + 1)
    BY <1>2, <1>6, <2>1
  <2>3. page[i] = Ordered(rows)[offset + i]
    BY <1>6, <2>2
  <2>4. /\ Ordered(rows)[offset + i] \in rows
        /\ Place(rows, Ordered(rows)[offset + i]) = offset + i - 1
    BY <1>3, <2>2, OrderedRows DEF n
  <2>5. i > 1 => i - 1 \in DOMAIN page
    BY <1>6, <2>1, <2>2
  <2> QED BY <2>2, <2>3, <2>4, <2>5
<1> QED BY <1>7 DEF page

(* Walked from its start, a page gives each of its rows its rank: the rows  *)
(* with a greater total are those before the first with the same.           *)
LEMMA WalkedRank ==
  ASSUME NEW rows, Board(rows), NEW page,
         \A i \in DOMAIN page :
           /\ i \in Nat \ {0} /\ (i > 1 => i - 1 \in DOMAIN page)
           /\ page[i] \in rows /\ Place(rows, page[i]) = i - 1
  PROVE  \A i \in DOMAIN page :
           Walk(page)[i].rank = Rank(rows, page[i]) /\ Walk(page)[i].org = page[i].org
<1> DEFINE Next1(g, i) ==
             IF i > 1 /\ page[i].total = page[i - 1].total THEN g[i - 1] ELSE i
           Body(g) == [i \in DOMAIN page |-> Next1(g, i)]
           rank == CHOOSE g : g = Body(g)
           w == [i \in DOMAIN page |-> Rank(rows, page[i])]
<1>1. Walk(page) = [i \in DOMAIN page |->
                       [org |-> page[i].org, total |-> page[i].total, rank |-> rank[i]]]
  BY DEF Walk
<1>2. ASSUME NEW i \in DOMAIN page PROVE w[i] = Next1(w, i)
  <2> DEFINE r == page[i]
             A == Above(rows, r)
             P == {s \in rows : Before(s, r)}
  <2>1. /\ i \in Nat \ {0} /\ r \in rows /\ r.total \in Int /\ r.org \in Int
        /\ \A s \in rows : s.total \in Int /\ s.org \in Int
        /\ Cardinality(P) = i - 1
    BY DEF Board, Place
  <2>2. CASE i > 1 /\ page[i].total = page[i - 1].total
    <3>1. Above(rows, page[i - 1]) = Above(rows, page[i])
      BY <2>2 DEF Above
    <3>2. Rank(rows, page[i - 1]) = Rank(rows, page[i])
      BY <3>1 DEF Rank
    <3> QED BY <2>2, <3>2
  <2>3. CASE ~(i > 1 /\ page[i].total = page[i - 1].total)
    <3>1. A \subseteq P
      BY <2>1 DEF Above, Before
    <3>2. ASSUME NEW s \in P PROVE s \in A
      <4>0. s \in rows /\ Before(s, r) /\ s.total \in Int
        BY <2>1
      <4>1. s \in rows /\ Before(s, r) /\ s.total \in Int /\ Place(rows, s) \in Nat
        BY <4>0, PlaceIs
      <4>2. Place(rows, s) < i - 1
        BY <2>1, <4>1, PlaceGrows DEF Place
      <4>3. i > 1
        BY <2>1, <4>1, <4>2
      <4> DEFINE q == page[i - 1]
      <4>4. q \in rows /\ Place(rows, q) = i - 2 /\ q.total \in Int /\ q.total # r.total
        BY <2>1, <2>3, <4>3
      <4>5. s.total = r.total => FALSE
        <5> SUFFICES ASSUME s.total = r.total PROVE FALSE
          OBVIOUS
        <5>0. Place(rows, r) = i - 1
          BY <2>1 DEF Place
        <5>1. q # r /\ ~Before(r, q)
          <6> HIDE DEF q, r
          <6>1. Before(r, q) => Place(rows, r) < Place(rows, q)
            BY <2>1, <4>4, PlaceGrows
          <6> QED BY <2>1, <4>4, <5>0, <6>1
        <5>2. Before(q, r)
          BY <2>1, <4>4, <5>1, PlaceGrows
        <5>3. q.total > s.total
          BY <2>1, <4>4, <5>2 DEF Before
        <5>4. Before(q, s)
          BY <5>3 DEF Before
        <5>5. Place(rows, q) < Place(rows, s)
          BY <4>1, <4>4, <5>4, PlaceGrows
        <5> QED BY <2>1, <4>1, <4>2, <4>4, <5>5
      <4> QED BY <2>1, <4>1, <4>5 DEF Before, Above
    <3>3. A = P
      BY <3>1, <3>2
    <3>4. Rank(rows, r) = 1 + (i - 1)
      BY <2>1, <3>3 DEF Rank
    <3> QED BY <2>1, <2>3, <3>4
  <2> QED BY <2>2, <2>3
<1> HIDE DEF Next1
<1>3. w = Body(w)
  BY <1>2
<1>4. rank = Body(rank)
  BY <1>3
<1> HIDE DEF rank, w
<1>5. \A i \in DOMAIN page : rank[i] = Next1(rank, i) /\ w[i] = Next1(w, i)
  BY <1>2, <1>4
<1>6. \A i \in DOMAIN page : rank[i] = w[i]
  <2> DEFINE bad == {i \in DOMAIN page : rank[i] # w[i]}
  <2> SUFFICES ASSUME bad # {} PROVE FALSE
    OBVIOUS
  <2>1. bad \in SUBSET Nat
    OBVIOUS
  <2>2. PICK i \in bad : \A j \in bad : i <= j
    <3> HIDE DEF bad
    <3> QED BY <2>1, HasLeast
  <2>3. i \in Nat /\ (i > 1 => i - 1 \in DOMAIN page) /\ i \in DOMAIN page /\ rank[i] # w[i]
    OBVIOUS
  <2>4. i > 1 => i - 1 \notin bad
    <3> HIDE DEF bad
    <3> QED BY <2>2, <2>3
  <2>5. i > 1 => rank[i - 1] = w[i - 1]
    BY <2>3, <2>4
  <2> QED BY <1>5, <2>3, <2>5 DEF Next1
<1> QED BY <1>1, <1>6 DEF w

(* Rows that the latest of each model and organization can be taken from,   *)
(* and a cache of such.                                                     *)
Keyed(sc) ==
  /\ IsFiniteSet(DOMAIN sc)
  /\ \A i \in DOMAIN sc :
       sc[i].org \in Orgs /\ sc[i].year \in Int /\ sc[i].total \in Int \cup {None}
  /\ \A i, j \in DOMAIN sc :
       sc[i].model = sc[j].model /\ sc[i].org = sc[j].org /\ sc[i].year = sc[j].year => i = j
CacheBoard ==
  /\ IsFiniteSet(cache)
  /\ \A r \in cache : r.total \in Int /\ r.org \in Orgs
  /\ \A r, s \in cache : r.model = s.model /\ r.org = s.org => r = s

LEMMA LatestRows ==
  ASSUME NEW sc, Keyed(sc), NEW d, NEW m, NEW o
  PROVE  \A r, s \in Latest(sc, d, m, o) :
           /\ r = s /\ r.model = m /\ r.org = o /\ r.dim = d[o] /\ r.total \in Int
           /\ o \in Orgs
<1> DEFINE T == Totalled(sc, m, o)
           newest == {i \in T : \A j \in T : sc[j].year <= sc[i].year}
           row(i) == [model |-> m, org |-> o, total |-> sc[i].total, year |-> sc[i].year,
                      dim |-> d[o]]
<1>1. Latest(sc, d, m, o) = {row(i) : i \in newest}
  BY DEF Latest
<1>2. ASSUME NEW i \in newest, NEW j \in newest PROVE i = j
  <2>1. /\ i \in DOMAIN sc /\ j \in DOMAIN sc /\ sc[i].model = m /\ sc[j].model = m
        /\ sc[i].org = o /\ sc[j].org = o
    BY DEF Totalled
  <2>2. sc[i].year <= sc[j].year /\ sc[j].year <= sc[i].year
    OBVIOUS
  <2>3. sc[i].year \in Int /\ sc[j].year \in Int
    BY <2>1 DEF Keyed
  <2>4. sc[i].year = sc[j].year
    BY <2>2, <2>3
  <2> QED BY <2>1, <2>4 DEF Keyed
<1>3. ASSUME NEW i \in newest PROVE sc[i].total \in Int /\ o \in Orgs
  BY DEF Keyed, Totalled
<1> HIDE DEF newest
<1> QED BY <1>1, <1>2, <1>3

LEMMA FiniteLatest ==
  ASSUME NEW sc, Keyed(sc), NEW d, NEW U, \A r \in U : \E m, o : r \in Latest(sc, d, m, o)
  PROVE  IsFiniteSet(U)
<1> DEFINE row(i) == [model |-> sc[i].model, org |-> sc[i].org, total |-> sc[i].total,
                      year |-> sc[i].year, dim |-> d[sc[i].org]]
           f == [i \in DOMAIN sc |-> row(i)]
           R == {f[i] : i \in DOMAIN sc}
<1>1. f \in Surjection(DOMAIN sc, R)
  BY DEF Surjection
<1>2. IsFiniteSet(R)
  <2> HIDE DEF f, R
  <2> QED BY <1>1, FS_Surjection DEF Keyed
<1>3. ASSUME NEW m, NEW o, NEW r \in Latest(sc, d, m, o) PROVE r \in R
  <2>1. PICK i \in DOMAIN sc :
          /\ sc[i].model = m /\ sc[i].org = o
          /\ r = [model |-> m, org |-> o, total |-> sc[i].total, year |-> sc[i].year, dim |-> d[o]]
    BY <1>3 DEF Latest, Totalled
  <2>2. r = f[i]
    BY <2>1
  <2> QED BY <2>2
<1> HIDE DEF R
<1>4. U \in SUBSET R
  BY <1>3
<1> QED BY <1>2, <1>4, FS_Subset

LEMMA RefreshedBoard ==
  ASSUME CacheBoard, NEW sc, Keyed(sc), NEW d, NEW ms, NEW os, cache' = Refreshed(sc, d, ms, os)
  PROVE  CacheBoard'
<1> DEFINE Kept == {r \in cache : r.model \notin ms \/ r.org \notin os}
           New == UNION {Latest(sc, d, m, o) : m \in ms, o \in os}
<1>1. cache' = Kept \cup New
  BY DEF Refreshed
<1>2. \A r \in New : \E m \in ms, o \in os : r \in Latest(sc, d, m, o)
  OBVIOUS
<1>3. \A r \in Kept : r \in cache /\ (r.model \notin ms \/ r.org \notin os)
  OBVIOUS
<1>4. IsFiniteSet(Kept)
  BY FS_Subset DEF CacheBoard
<1> HIDE DEF Kept, New
<1>5. IsFiniteSet(New)
  BY <1>2, FiniteLatest
<1>6. IsFiniteSet(Kept \cup New)
  BY <1>4, <1>5, FS_Union
<1>7. \A r \in New : r.model \in ms /\ r.org \in os /\ r \in Latest(sc, d, r.model, r.org)
                     /\ r.total \in Int /\ r.org \in Orgs
  BY <1>2, LatestRows
<1>8. \A r, s \in New : r.model = s.model /\ r.org = s.org => r = s
  BY <1>7, LatestRows
<1> QED BY <1>1, <1>3, <1>6, <1>7, <1>8 DEF CacheBoard

(* What a ranking is within is a board, and what it says of an organization *)
(* is of its own row.                                                       *)
LEMMA SubsetBoard ==
  ASSUME CacheBoard, Keyed(scores), NEW m, NEW ds
  PROVE  Board(Subset(m, ds))
<1>0. Orgs \subseteq Int
  BY ScoresAssumption DEF ScoresAssumption
<1>1. Board(CacheSubset(m, ds))
  <2>1. IsFiniteSet(CacheSubset(m, ds))
    BY FS_Subset DEF CacheSubset, CacheBoard
  <2> QED BY <1>0, <2>1 DEF Board, CacheSubset, CacheBoard
<1>2. Board(RankSubset(m, ds))
  <2>2. \A r \in RankSubset(m, ds) : \E o \in Orgs : r \in Latest(scores, dim, m, o)
    BY DEF RankSubset
  <2>4. IsFiniteSet(RankSubset(m, ds))
    BY <2>2, FiniteLatest
  <2>5. \A r \in RankSubset(m, ds) :
          r \in Latest(scores, dim, m, r.org) /\ r.total \in Int /\ r.org \in Orgs
    BY <2>2, LatestRows
  <2>6. \A r, s \in RankSubset(m, ds) : r.org = s.org => r = s
    BY <2>5, LatestRows
  <2> QED BY <1>0, <2>4, <2>5, <2>6 DEF Board
<1> QED BY <1>1, <1>2 DEF Subset

LEMMA OwnRank ==
  ASSUME CacheBoard, Keyed(scores), NEW m, NEW ds, NEW r \in Subset(m, ds)
  PROVE  /\ RankOrg(m, ds, r.org).rank = Rank(Subset(m, ds), r)
         /\ Rank(Subset(m, ds), r) \in Int
         /\ Rank(Subset(m, ds), r) <= RankOrg(m, ds, r.org).of
<1> DEFINE rows == Subset(m, ds)
           own == {s \in rows : s.org = r.org}
<1>1. Board(rows)
  BY SubsetBoard
<1> HIDE DEF rows
<1>2. own = {r}
  BY <1>1 DEF Board, rows
<1>3. (CHOOSE s \in own : TRUE) = r
  BY <1>2
<1>4. RankOrg(m, ds, r.org) =
        [rank |-> IF own = {} THEN None ELSE Rank(rows, CHOOSE s \in own : TRUE),
         of |-> Cardinality(rows)]
  BY DEF RankOrg, rows
<1>5. RankOrg(m, ds, r.org) = [rank |-> Rank(rows, r), of |-> Cardinality(rows)]
  BY <1>2, <1>3, <1>4
<1>6. r \in rows
  BY DEF rows
<1>7. Cardinality(rows) \in Nat /\ Cardinality(Above(rows, r)) \in 0..(Cardinality(rows) - 1)
  BY <1>1, <1>6, PlaceIs
<1>8. Rank(rows, r) \in Int /\ Rank(rows, r) <= Cardinality(rows)
  BY <1>7 DEF Rank
<1> QED BY <1>5, <1>8 DEF rows

LEMMA WalkHolds == ASSUME CacheBoard, Keyed(scores) PROVE WalkIsRank
<1> SUFFICES ASSUME NEW m \in Models, NEW ds \in SUBSET Dims \ {{}},
                    NEW offset \in 0..(Cardinality(Orgs) - 1),
                    NEW i \in DOMAIN Leaderboard(m, ds, Cardinality(Orgs), offset)
             PROVE  Leaderboard(m, ds, Cardinality(Orgs), offset)[i].rank
                      = RankOrg(m, ds, Leaderboard(m, ds, Cardinality(Orgs), offset)[i].org).rank
  BY DEF WalkIsRank
<1> DEFINE limit == Cardinality(Orgs)
           rows == Subset(m, ds)
           page == Page(rows, limit, offset)
           board == Leaderboard(m, ds, limit, offset)
<1>1. limit \in Nat /\ offset \in Nat
  BY FS_CardinalityType, ScoresAssumption DEF ScoresAssumption
<1>2. Board(rows)
  BY SubsetBoard
<1>3. board = IF offset = 0 /\ Ready(m) THEN Walk(page)
              ELSE [j \in DOMAIN page |-> [org |-> page[j].org, total |-> page[j].total,
                                           rank |-> Rank(rows, page[j])]]
  BY DEF Leaderboard
<1> HIDE DEF limit, rows, page
<1>4. \A j \in DOMAIN page :
        /\ j \in Nat \ {0} /\ (j > 1 => j - 1 \in DOMAIN page)
        /\ page[j] \in rows /\ Place(rows, page[j]) = offset + j - 1
  BY <1>1, <1>2, PageRows DEF page
<1>5. /\ i \in DOMAIN page /\ board[i].org = page[i].org
      /\ board[i].rank = Rank(rows, page[i])
  <2>0. i \in DOMAIN board
    BY DEF limit
  <2> HIDE DEF board
  <2>1. CASE offset = 0 /\ Ready(m)
    <3>1. \A j \in DOMAIN page : Place(rows, page[j]) = j - 1
      BY <1>4, <2>1
    <3>2. DOMAIN Walk(page) = DOMAIN page
      BY DEF Walk
    <3>3. i \in DOMAIN page
      BY <1>3, <2>0, <2>1, <3>2
    <3>4. Walk(page)[i].rank = Rank(rows, page[i]) /\ Walk(page)[i].org = page[i].org
      BY <1>2, <1>4, <3>1, <3>3, WalkedRank
    <3> QED BY <1>3, <2>1, <3>3, <3>4
  <2>2. CASE ~(offset = 0 /\ Ready(m))
    BY <1>3, <2>0, <2>2
  <2> QED BY <2>1, <2>2
<1>6. RankOrg(m, ds, page[i].org).rank = Rank(rows, page[i])
  BY <1>4, <1>5, OwnRank DEF rows
<1> QED BY <1>5, <1>6 DEF limit

LEMMA OwnHolds == ASSUME CacheBoard, Keyed(scores) PROVE OwnDimension
<1> SUFFICES ASSUME NEW m \in Models, NEW o \in Orgs, NEW s \in Subset(m, Dims), s.org = o
             PROVE  RankInDimension(m, o).rank # None
                    /\ RankInDimension(m, o).rank <= RankInDimension(m, o).of
  BY DEF OwnDimension
<1>1. s \in Subset(m, {OwnDim(m, o)})
  <2>1. CASE Ready(m)
    <3> DEFINE own == {r \in cache : r.model = m /\ r.org = o}
    <3>1. s \in cache /\ s.model = m
      BY <2>1 DEF Subset, CacheSubset
    <3>2. own = {s}
      BY <3>1 DEF CacheBoard
    <3>3. OwnDim(m, o) = IF Ready(m) /\ own # {} THEN (CHOOSE r \in own : TRUE).dim ELSE dim[o]
      BY DEF OwnDim
    <3>4. OwnDim(m, o) = s.dim
      BY <2>1, <3>2, <3>3
    <3> QED BY <2>1, <3>1, <3>4 DEF Subset, CacheSubset
  <2>2. CASE ~Ready(m)
    <3>1. PICK p \in Orgs : s \in Latest(scores, dim, m, p)
      BY <2>2 DEF Subset, RankSubset
    <3>2. p = o /\ s.dim = dim[o]
      BY <3>1, LatestRows
    <3>3. OwnDim(m, o) = dim[o]
      BY <2>2 DEF OwnDim
    <3> QED BY <2>2, <3>1, <3>2, <3>3 DEF Subset, RankSubset
  <2> QED BY <2>1, <2>2
<1> DEFINE ds == {OwnDim(m, o)}
<1>2. RankInDimension(m, o) = RankOrg(m, ds, s.org)
  BY DEF RankInDimension
<1> HIDE DEF ds
<1>3. /\ RankOrg(m, ds, s.org).rank \in Int
      /\ RankOrg(m, ds, s.org).rank <= RankOrg(m, ds, s.org).of
  BY <1>1, OwnRank DEF ds
<1> QED BY <1>2, <1>3, ScoresAssumption DEF ScoresAssumption

(* A return has one score of a model, and the cache one row.                *)
OneRow ==
  \A i, j \in DOMAIN scores :
    /\ scores[i].model = scores[j].model /\ scores[i].org = scores[j].org
    /\ scores[i].year = scores[j].year
    => i = j
RankInv == OneRow /\ CacheBoard

LEMMA RankFollows == ASSUME BoardInv, SumInv, RankInv PROVE Keyed(scores) /\ RankingsAgree
<1>1. IsFiniteSet(DOMAIN scores)
  <2>1. DOMAIN scores \in SUBSET Nat /\ nextId \in Nat /\ \A i \in DOMAIN scores : i <= nextId
    BY DEF BoardInv, Shape, Rows, Given
  <2> QED BY <2>1, FS_BoundedSetOfNaturals
<1>2. Keyed(scores)
  BY <1>1, ScoresAssumption DEF Keyed, SumInv, Values, Valued, RankInv, OneRow,
        ScoresAssumption
<1> QED BY <1>2, WalkHolds, OwnHolds DEF RankInv, RankingsAgree

LEMMA OneRowKept ==
  ASSUME OneRow, DOMAIN scores' \subseteq DOMAIN scores,
         \A i \in DOMAIN scores' :
           /\ scores'[i].model = scores[i].model /\ scores'[i].org = scores[i].org
           /\ scores'[i].year = scores[i].year
  PROVE  OneRow'
BY DEF OneRow

LEMMA OneRowField ==
  ASSUME OneRow, Rows, NEW i \in DOMAIN scores, NEW v,
         \/ scores' = [scores EXCEPT ![i].parts = v]
         \/ scores' = [scores EXCEPT ![i].total = v]
  PROVE  OneRow'
<1>1. DOMAIN scores' = DOMAIN scores
  OBVIOUS
<1>2. \A j \in DOMAIN scores' :
           /\ scores'[j].model = scores[j].model /\ scores'[j].org = scores[j].org
           /\ scores'[j].year = scores[j].year
  BY DEF Rows, IsRow
<1> QED BY <1>1, <1>2, OneRowKept

LEMMA OneRowCreated ==
  ASSUME OneRow, Rows, NEW o, NEW y, NEW m, Create(o, y, m)
  PROVE  OneRow'
<1>1. CASE At(m, o, y) # {}
  BY <1>1 DEF Create, OneRow
<1>2. CASE At(m, o, y) = {}
  <2>1. nextId \notin DOMAIN scores
    BY DEF Rows, Given
  <2>2. /\ DOMAIN scores' = DOMAIN scores \cup {nextId}
        /\ \A i \in DOMAIN scores : scores'[i] = scores[i]
        /\ scores'[nextId] = NewRow(o, y, m)
    BY <1>2, <2>1 DEF Create, With
  <2>3. /\ scores'[nextId].model = m /\ scores'[nextId].org = o /\ scores'[nextId].year = y
    BY <2>2 DEF NewRow
  <2>4. \A i \in DOMAIN scores : ~(scores[i].model = m /\ scores[i].org = o /\ scores[i].year = y)
    BY <1>2 DEF At, Ids
  <2> QED BY <2>2, <2>3, <2>4 DEF OneRow
<1> QED BY <1>1, <1>2

LEMMA OneRowBatch ==
  ASSUME OneRow, BoardInv, NEW t \in Threads, BatchCommit(t)
  PROVE  OneRow'
<1> DEFINE op == ops[t]
           o == CHOOSE x \in op.todo : \A p \in op.todo : x <= p
           ys == {y \in Years : <<o, y>> \in filings}
           n == Cardinality(ys)
           kept == IF ys = {} THEN scores ELSE Without(Ids("computed", o))
           rows(total) == [i \in nextId..(nextId + n - 1) |->
                            [NewRow(o, SetToSeq(ys)[i - nextId + 1], "computed") EXCEPT
                               !.total = total, !.parts = [f \in {None} |-> total]]]
<1>0. nextId \in Nat /\ Rows
  BY DEF BoardInv, Shape
<1>1. PICK total \in Totals : scores' = With(rows(total), kept)
  BY DEF BatchCommit
<1>2. IsFiniteSet(ys) /\ n \in Nat
  BY FS_Subset, FS_CardinalityType, ScoresAssumption DEF ScoresAssumption
<1>3. \A j, k \in 1..n : SetToSeq(ys)[j] = SetToSeq(ys)[k] => j = k
  <2>1. PICK f : f \in Bijection(1..n, ys)
    BY <1>2, FS_CardinalityType DEF ExistsBijection
  <2>2. f \in [1..n -> ys] /\ IsInjective(f)
    BY <2>1 DEF Bijection, Injection, IsInjective
  <2> HIDE DEF ys, n
  <2> DEFINE s == CHOOSE g \in [1..n -> ys] : IsInjective(g)
  <2>3. s \in [1..n -> ys] /\ IsInjective(s)
    BY <2>2
  <2>4. SetToSeq(ys) = s
    BY DEF SetToSeq, n
  <2> HIDE DEF s
  <2> QED BY <2>3, <2>4 DEF IsInjective
<1>4. /\ DOMAIN kept \subseteq DOMAIN scores
      /\ \A i \in DOMAIN kept : kept[i] = scores[i]
  BY DEF Without, Ids, Restrict
<1>5. ys # {} => \A i \in DOMAIN kept : ~(scores[i].model = "computed" /\ scores[i].org = o)
  BY DEF Without, Ids, Restrict
<1>6. ys = {} => n = 0
  BY FS_EmptySet
<1>7. ASSUME NEW i \in nextId..(nextId + n - 1)
      PROVE  /\ rows(total)[i].model = "computed" /\ rows(total)[i].org = o
             /\ rows(total)[i].year = SetToSeq(ys)[i - nextId + 1]
  BY DEF NewRow
<1>8. DOMAIN rows(total) = nextId..(nextId + n - 1)
  OBVIOUS
<1> HIDE DEF o, ys, n, kept, rows
<1>9. /\ DOMAIN scores' = DOMAIN kept \cup nextId..(nextId + n - 1)
      /\ \A i \in DOMAIN kept : scores'[i] = scores[i]
      /\ \A i \in DOMAIN scores' \ DOMAIN kept : scores'[i] = rows(total)[i]
  BY <1>1, <1>4, <1>8 DEF With
<1>10. ASSUME NEW i \in DOMAIN scores' \ DOMAIN kept
       PROVE  /\ i \in nextId..(nextId + n - 1) /\ ys # {}
              /\ scores'[i].model = "computed" /\ scores'[i].org = o
              /\ scores'[i].year = SetToSeq(ys)[i - nextId + 1]
  <2>1. i \in nextId..(nextId + n - 1)
    BY <1>9
  <2>2. ys # {}
    BY <1>0, <1>6, <2>1
  <2> QED BY <1>7, <1>9, <2>1, <2>2
<1>11. ASSUME NEW i \in DOMAIN scores', NEW j \in DOMAIN scores',
              scores'[i].model = scores'[j].model, scores'[i].org = scores'[j].org,
              scores'[i].year = scores'[j].year
       PROVE  i = j
  <2>1. CASE i \in DOMAIN kept /\ j \in DOMAIN kept
    BY <1>4, <1>9, <1>11, <2>1 DEF OneRow
  <2>2. CASE i \notin DOMAIN kept /\ j \notin DOMAIN kept
    <3>1. i \in nextId..(nextId + n - 1) /\ j \in nextId..(nextId + n - 1)
      BY <1>10, <2>2
    <3>2. SetToSeq(ys)[i - nextId + 1] = SetToSeq(ys)[j - nextId + 1]
      BY <1>10, <1>11, <2>2
    <3>3. i - nextId + 1 \in 1..n /\ j - nextId + 1 \in 1..n
      BY <1>0, <1>2, <3>1
    <3>4. i - nextId + 1 = j - nextId + 1
      BY <1>3, <3>2, <3>3
    <3> QED BY <1>0, <1>2, <3>1, <3>4
  <2>3. CASE i \in DOMAIN kept /\ j \notin DOMAIN kept
    BY <1>5, <1>9, <1>10, <1>11, <2>3
  <2>4. CASE i \notin DOMAIN kept /\ j \in DOMAIN kept
    BY <1>5, <1>9, <1>10, <1>11, <2>4
  <2> QED BY <2>1, <2>2, <2>3, <2>4
<1> QED BY <1>11 DEF OneRow

LEMMA NextRows == ASSUME OneRow, BoardInv, [Next]_vars PROVE OneRow'
<1>0. Rows
  BY DEF BoardInv
<1>1. ASSUME UNCHANGED scores PROVE OneRow'
  BY <1>1 DEF OneRow
<1>2. ASSUME NEW i, NEW v, Totalling(i, v) PROVE OneRow'
  BY <1>0, <1>1, <1>2, OneRowField DEF Totalling
<1>3. ASSUME NEW t \in Threads, CalcStore(t) \/ GradeFactor(t) PROVE OneRow'
  <2>1. \/ UNCHANGED scores
        \/ \E i \in DOMAIN scores : \E v : scores' = [scores EXCEPT ![i].parts = v]
    BY <1>3 DEF CalcStore, GradeFactor
  <2> QED BY <1>0, <1>1, <2>1, OneRowField
<1>4. ASSUME NEW t \in Threads, CalcFinalize(t) \/ GradeFinalize(t) PROVE OneRow'
  BY <1>2, <1>4 DEF CalcFinalize, GradeFinalize
<1>5. ASSUME NEW t \in Threads, CalcCreate(t) PROVE OneRow'
  BY <1>0, <1>1, <1>5, OneRowCreated DEF CalcCreate
<1>6. ASSUME NEW o, NEW y, Anchor(o, y) PROVE OneRow'
  BY <1>0, <1>6, OneRowCreated DEF Anchor
<1>7. ASSUME NEW i \in DOMAIN scores, NEW v, PostTotal(i, v) PROVE OneRow'
  BY <1>2, <1>7 DEF PostTotal
<1>8. ASSUME NEW i \in DOMAIN scores, NEW f, NEW v, PostFactor(i, f, v) PROVE OneRow'
  <2>1. \E w : scores' = [scores EXCEPT ![i].parts = w]
    BY <1>8 DEF PostFactor
  <2> QED BY <1>0, <2>1, OneRowField
<1>9. ASSUME NEW fs, Purge(fs) PROVE OneRow'
  <2>1. PICK gone : scores' = Without(gone)
    BY <1>9 DEF Purge
  <2> QED BY <2>1, OneRowKept DEF Without, Restrict
<1>10. CASE PurgeAll
  BY <1>10 DEF PurgeAll, OneRow
<1>11. ASSUME NEW t \in Threads, NEW o, NEW y, NEW v, CalcStart(t, o, y, v) PROVE OneRow'
  BY <1>1, <1>11 DEF CalcStart
<1>12. ASSUME NEW t \in Threads,
              Refresh(t) \/ RefreshFails(t) \/ GradeSum(t) \/ Classify(t) \/ Abort(t)
       PROVE  OneRow'
  BY <1>1, <1>12 DEF Refresh, RefreshFails, GradeSum, Classify, Abort
<1>13. ASSUME NEW t \in Threads, NEW i, NEW f, NEW v, GradeStart(t, i, f, v) PROVE OneRow'
  BY <1>1, <1>13 DEF GradeStart
<1>14. ASSUME NEW t \in Threads, NEW os, BatchStart(t, os) PROVE OneRow'
  BY <1>1, <1>14 DEF BatchStart
<1>15. ASSUME NEW t \in Threads, NEW o, NEW d, EditOrg(t, o, d) PROVE OneRow'
  BY <1>1, <1>15 DEF EditOrg
<1>16. ASSUME NEW o, NEW y, StoreFiling(o, y) PROVE OneRow'
  BY <1>1, <1>16 DEF StoreFiling
<1>17. ASSUME NEW o, NEW d, DropAddress(o, d) PROVE OneRow'
  BY <1>1, <1>17 DEF DropAddress
<1>18. CASE UNCHANGED vars
  BY <1>1, <1>18 DEF vars
<1> QED BY <1>3, <1>4, <1>5, <1>6, <1>7, <1>8, <1>9, <1>10, <1>11, <1>12, <1>13, <1>14, <1>15,
           <1>16, <1>17, <1>18, OneRowBatch DEF Next

(* What a step makes of the cache it has from the scores it leaves.         *)
LEMMA NextCache ==
  ASSUME [Next]_vars
  PROVE  cache' \subseteq cache \/ \E ms, os : cache' = Refreshed(scores', dim, ms, os)
<1>1. ASSUME NEW t \in Threads, Refresh(t)
      PROVE  \E ms, os : cache' = Refreshed(scores', dim, ms, os)
  BY <1>1 DEF Refresh
<1>2. ASSUME NEW fs, Purge(fs) PROVE \E ms, os : cache' = Refreshed(scores', dim, ms, os)
  BY <1>2 DEF Purge, Purged
<1>3. ASSUME NEW t \in Threads, RefreshFails(t) PROVE cache' \subseteq cache
  BY <1>3 DEF RefreshFails
<1>4. CASE PurgeAll
  BY <1>4 DEF PurgeAll
<1>5. ASSUME NEW t \in Threads, NEW o, NEW y, NEW v, CalcStart(t, o, y, v) PROVE UNCHANGED cache
  BY <1>5 DEF CalcStart
<1>6. ASSUME NEW t \in Threads,
             \/ CalcCreate(t) \/ CalcStore(t) \/ CalcFinalize(t) \/ GradeFactor(t) \/ GradeSum(t)
             \/ GradeFinalize(t) \/ BatchCommit(t) \/ Classify(t) \/ Abort(t)
      PROVE  UNCHANGED cache
  BY <1>6 DEF CalcCreate, CalcStore, CalcFinalize, GradeFactor, GradeSum, GradeFinalize,
              BatchCommit, Classify, Abort
<1>7. ASSUME NEW t \in Threads, NEW i, NEW f, NEW v, GradeStart(t, i, f, v) PROVE UNCHANGED cache
  BY <1>7 DEF GradeStart
<1>8. ASSUME NEW t \in Threads, NEW os, BatchStart(t, os) PROVE UNCHANGED cache
  BY <1>8 DEF BatchStart
<1>9. ASSUME NEW t \in Threads, NEW o, NEW d, EditOrg(t, o, d) PROVE UNCHANGED cache
  BY <1>9 DEF EditOrg
<1>10. ASSUME NEW o, NEW y, Anchor(o, y) \/ StoreFiling(o, y) PROVE UNCHANGED cache
  BY <1>10 DEF Anchor, StoreFiling
<1>11. ASSUME NEW o, NEW d, DropAddress(o, d) PROVE UNCHANGED cache
  BY <1>11 DEF DropAddress
<1>12. ASSUME NEW i, NEW v, PostTotal(i, v) PROVE UNCHANGED cache
  BY <1>12 DEF PostTotal
<1>13. ASSUME NEW i, NEW f, NEW v, PostFactor(i, f, v) PROVE UNCHANGED cache
  BY <1>13 DEF PostFactor
<1>14. CASE UNCHANGED vars
  BY <1>14 DEF vars
<1> QED BY <1>1, <1>2, <1>3, <1>4, <1>5, <1>6, <1>7, <1>8, <1>9, <1>10, <1>11, <1>12, <1>13, <1>14
        DEF Next

LEMMA InitRank == Init => RankInv
  BY FS_EmptySet DEF Init, RankInv, OneRow, CacheBoard

LEMMA NextRank == BoardInv /\ SumInv /\ RankInv /\ [Next]_vars => RankInv'
<1> SUFFICES ASSUME BoardInv, SumInv, RankInv, [Next]_vars PROVE RankInv'
  OBVIOUS
<1>1. OneRow' /\ BoardInv' /\ SumInv' /\ CacheBoard
  BY NextRows, NextInv, NextSum DEF RankInv
<1>2. Keyed(scores')
  <2>1. DOMAIN scores' \in SUBSET Nat /\ nextId' \in Nat /\ \A i \in DOMAIN scores' : i <= nextId'
    BY <1>1 DEF BoardInv, Shape, Rows, Given
  <2>2. IsFiniteSet(DOMAIN scores')
    BY <2>1, FS_BoundedSetOfNaturals
  <2> QED BY <1>1, <2>2, ScoresAssumption DEF Keyed, SumInv, Values, Valued, OneRow,
          ScoresAssumption
<1>3. CASE cache' \subseteq cache
  <2>1. IsFiniteSet(cache')
    BY <1>1, <1>3, FS_Subset DEF CacheBoard
  <2> QED BY <1>1, <1>3, <2>1 DEF CacheBoard, RankInv
<1>4. CASE \E ms, os : cache' = Refreshed(scores', dim, ms, os)
  BY <1>1, <1>2, <1>4, RefreshedBoard DEF RankInv
<1> QED BY <1>3, <1>4, NextCache

(***************************************************************************)
(* Whatever refreshes were lost, the rankings never contradict each other:  *)
(* every page of a leaderboard, walked or counted, gives an organization    *)
(* the rank rank_org tells it, and in its own dimension it is one of those  *)
(* it is ranked with, though the cache's dimension is older than its row's. *)
(***************************************************************************)
THEOREM RankingsStayInStep == Spec => []RankingsAgree
<1>1. BoardInv /\ SumInv /\ RankInv => RankingsAgree
  BY RankFollows
<1> QED BY <1>1, InitInv, NextInv, InitSum, NextSum, InitRank, NextRank, PTL DEF Spec
=============================================================================
