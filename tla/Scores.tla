------------------------------- MODULE Scores -------------------------------
(***************************************************************************)
(* Scores and the ranking cache (database/Score/score.py, the commits of   *)
(* scoring/engine.py, router/Score).  A score is written in several        *)
(* transactions, of a request or of a scoring run in another process, and  *)
(* the cache org_score_latest in one more, which may fail.  What a score   *)
(* comes to is any member of Totals: Engine models how it is computed.     *)
(* Bounds: one computed and one manual model, one return per organization  *)
(* and year, all dimensions of a ranking in one, a chunk of a scoring run  *)
(* is one organization, MaxStarts operations are started.                  *)
(***************************************************************************)
EXTENDS Integers, Sequences, FiniteSets, SequencesExt, FiniteSetsExt, Functions

CONSTANTS Orgs,       \* a set of integers: the order of their EINs
          Years, Returns,  \* the <<org, year>> returns are filed for
          Dims, Totals,    \* what a score may come to; bound: whole numbers
          Factors, Threads, MaxStarts, None
ASSUME ScoresAssumption ==
  /\ IsFiniteSet(Years) /\ IsFiniteSet(Orgs) /\ Years \cup Orgs \cup Totals \subseteq Int
  /\ Returns \subseteq Orgs \X Years /\ None \notin Int

Models == {"computed", "manual"}
VARIABLES filings,    \* <<org, year>> of the returns stored
          dim,        \* the ranking dimension of each organization
          scores,     \* score_id -> row, with its factors
          cache,      \* org_score_latest
          ops,        \* what each thread is in the middle of
          leaks,      \* <<model, org>> whose refresh failed or never came
          loose,      \* score_ids two operations wrote at once, or one half
          nextId, starts
vars == <<filings, dim, scores, cache, ops, leaks, loose, nextId, starts>>

Op(kind, at) == [kind |-> kind, at |-> at, org |-> None, year |-> None, id |-> None,
                 value |-> None, todo |-> {}, done |-> {}]
Quiet == Op("idle", "idle")

Init ==
  /\ filings = Returns /\ dim \in [Orgs -> Dims]
  /\ scores = << >> /\ cache = {}
  /\ ops = [t \in Threads |-> Quiet]
  /\ leaks = {} /\ loose = {} /\ nextId = 1 /\ starts = 0

-----------------------------------------------------------------------------
(* The tables.                                                              *)

Ids(m, o) == {i \in DOMAIN scores : scores[i].model = m /\ scores[i].org = o}
At(m, o, y) == {i \in Ids(m, o) : scores[i].year = y}
Without(ids) == Restrict(scores, DOMAIN scores \ ids)
Totalled(sc, m, o) ==
  {i \in DOMAIN sc : sc[i].model = m /\ sc[i].org = o /\ sc[i].total # None}
With(new, sc) ==
  [i \in DOMAIN sc \cup DOMAIN new |-> IF i \in DOMAIN sc THEN sc[i] ELSE new[i]]
(* The latest scored row of a model and an organization, with the dimension *)
(* it is ranked by; none is the empty set.                                  *)
Latest(sc, d, m, o) ==
  LET newest == {i \in Totalled(sc, m, o) :
                   \A j \in Totalled(sc, m, o) : sc[j].year <= sc[i].year}
  IN {[model |-> m, org |-> o, total |-> sc[i].total, year |-> sc[i].year,
       dim |-> d[o]] : i \in newest}
(* rebuild_score_latest                                                     *)
Refreshed(sc, d, ms, os) ==
  {r \in cache : r.model \notin ms \/ r.org \notin os}
    \cup UNION {Latest(sc, d, m, o) : m \in ms, o \in os}

(* _score_latest_ready, and the subset a ranking is within: of the cache's  *)
(* rows by its own dimensions, or of the latest scores by the live ones.    *)
Ready(m) == \E r \in cache : r.model = m
CacheSubset(m, ds) == {r \in cache : r.model = m /\ r.dim \in ds}
RankSubset(m, ds) == {r \in UNION {Latest(scores, dim, m, o) : o \in Orgs} : r.dim \in ds}
Subset(m, ds) == IF Ready(m) THEN CacheSubset(m, ds) ELSE RankSubset(m, ds)
Above(rows, r) == {s \in rows : s.total > r.total}
Rank(rows, r) == 1 + Cardinality(Above(rows, r))

(* rank_leaderboard: in the order of the board index; the first page of the *)
(* cache is ranked by walking it, any other by the window function.         *)
Before(a, b) == a.total > b.total \/ (a.total = b.total /\ a.org < b.org)
Ordered(rows) ==
  [i \in 1..Cardinality(rows) |->
     CHOOSE r \in rows : Cardinality({s \in rows : Before(s, r)}) = i - 1]
Page(rows, limit, offset) ==
  SubSeq(Ordered(rows), offset + 1, Min({offset + limit, Cardinality(rows)}))
Walk(page) ==
  LET rank[i \in DOMAIN page] ==
        IF i > 1 /\ page[i].total = page[i - 1].total THEN rank[i - 1] ELSE i
  IN [i \in DOMAIN page |-> [org |-> page[i].org, total |-> page[i].total, rank |-> rank[i]]]
Leaderboard(m, ds, limit, offset) ==
  LET rows == Subset(m, ds)
      page == Page(rows, limit, offset)
  IN IF offset = 0 /\ Ready(m) THEN Walk(page)
     ELSE [i \in DOMAIN page |-> [org |-> page[i].org, total |-> page[i].total,
                                  rank |-> Rank(rows, page[i])]]
(* rank_org, and rank_org_dimensions: among those of its own dimension,     *)
(* which the cache and not the organization's row tells.                    *)
RankOrg(m, ds, o) ==
  LET rows == Subset(m, ds)
      own == {r \in rows : r.org = o}
  IN [rank |-> IF own = {} THEN None ELSE Rank(rows, CHOOSE r \in own : TRUE),
      of |-> Cardinality(rows)]
\* mutant: the organization's dimension is read from its row
LiveDim(m, o) == dim[o]
OwnDim(m, o) ==
  LET own == {r \in cache : r.model = m /\ r.org = o} IN
  IF Ready(m) /\ own # {} THEN (CHOOSE r \in own : TRUE).dim ELSE dim[o]
RankInDimension(m, o) == RankOrg(m, {OwnDim(m, o)}, o)

-----------------------------------------------------------------------------
(* Operations.  op.at is the transaction that comes next.                   *)

Idle(t) == ops[t].kind = "idle"
Start(t, op) ==
  /\ Idle(t) /\ starts < MaxStarts /\ starts' = starts + 1
  /\ ops' = [ops EXCEPT ![t] = op]
Goto(t, at) == ops' = [ops EXCEPT ![t].at = at]
End(t) == ops' = [ops EXCEPT ![t] = Quiet]
Is(t, kind, at) == ~Idle(t) /\ ops[t].kind = kind /\ ops[t].at = at
Busy(i) == {t \in Threads : ~Idle(t) /\ ops[t].id = i}

(* What an operation has changed and has yet to refresh the cache for.      *)
Pending(op) ==
  CASE op.kind = "calc" /\ op.at = "cache" -> {"computed"} \X {op.org}
    [] op.kind = "batch" -> {"computed"} \X op.done
    [] op.kind \in {"edit", "classify"} -> Models \X op.done
    [] OTHER -> {}

(* create_score: the row of this return and model, made unless it is there. *)
(* The factors of the computed model are kept as one, None.                 *)
FactorsOf(m) == IF m = "manual" THEN Factors ELSE {None}
NewRow(o, y, m) == [org |-> o, year |-> y, model |-> m, total |-> None, parts |-> << >>]
Create(o, y, m) ==
  IF At(m, o, y) # {}
  THEN scores' = scores /\ nextId' = nextId
  ELSE scores' = With([i \in {nextId} |-> NewRow(o, y, m)], scores) /\ nextId' = nextId + 1
CreatedId(o, y, m) == IF At(m, o, y) # {} THEN CHOOSE i \in At(m, o, y) : TRUE ELSE nextId

(* A factor's value replaces the one the score has.                         *)
\* mutant: a value that is there is kept
PutIgnored(parts, f, v) ==
  [g \in DOMAIN parts \cup {f} |-> IF g \in DOMAIN parts THEN parts[g] ELSE v]
Put(parts, f, v) ==
  [g \in DOMAIN parts \cup {f} |-> IF g = f THEN v ELSE parts[g]]

(* ScoringEngine.calculate: what it comes to is known before the row.       *)
CalcStart(t, o, y, v) ==
  /\ <<o, y>> \in filings
  /\ Start(t, [Op("calc", "create") EXCEPT !.org = o, !.year = y, !.value = v])
  /\ UNCHANGED <<filings, dim, scores, cache, leaks, loose, nextId>>
CalcCreate(t) ==
  /\ Is(t, "calc", "create")
  /\ LET op == ops[t]
         id == CreatedId(op.org, op.year, "computed")
     IN IF <<op.org, op.year>> \in filings
        THEN /\ Create(op.org, op.year, "computed")
             /\ ops' = [ops EXCEPT ![t].at = "store", ![t].id = id]
             /\ loose' = IF Busy(id) # {} THEN loose \cup {id} ELSE loose
        ELSE End(t) /\ UNCHANGED <<scores, nextId, loose>>     \* NOT NULL fails
  /\ UNCHANGED <<filings, dim, cache, leaks, starts>>
(* store_factor_values: a row deleted meanwhile fails its foreign key.      *)
CalcStore(t) ==
  /\ Is(t, "calc", "store")
  /\ LET op == ops[t] IN
     IF op.id \in DOMAIN scores
     THEN /\ scores' = [scores EXCEPT ![op.id].parts =
                          Put(@, None, op.value)]
          /\ Goto(t, "finalize")
     ELSE scores' = scores /\ End(t)
  /\ UNCHANGED <<filings, dim, cache, leaks, loose, nextId, starts>>
(* finalize_score updates nothing when the row is gone.                     *)
Totalling(id, total) ==
  scores' = IF id \in DOMAIN scores THEN [scores EXCEPT ![id].total = total] ELSE scores
CalcFinalize(t) ==
  /\ Is(t, "calc", "finalize")
  /\ Totalling(ops[t].id, ops[t].value)
  /\ Goto(t, "cache")
  /\ UNCHANGED <<filings, dim, cache, leaks, loose, nextId, starts>>

(* The last transaction of calculate, rebuild, update_org and classify.     *)
Scope(op) ==
  CASE op.kind = "calc"  -> <<{"computed"}, {op.org}>>
    [] op.kind = "batch" -> <<{"computed"}, op.done>>
    [] OTHER             -> <<Models, op.done>>
AtCache(t) == ~Idle(t) /\ ops[t].at = "cache"
Refresh(t) ==
  /\ AtCache(t)
  /\ LET s == Scope(ops[t]) IN
     /\ cache' = Refreshed(scores, dim, s[1], s[2])
     /\ leaks' = leaks \ (s[1] \X s[2])
  /\ End(t)
  /\ UNCHANGED <<filings, dim, scores, loose, nextId, starts>>
(* An error there is swallowed; a scoring run then clears its models.       *)
RefreshFails(t) ==
  /\ AtCache(t)
  /\ \/ leaks' = leaks \cup Pending(ops[t]) /\ cache' = cache
     \/ /\ ops[t].kind = "batch"
        /\ cache' = {r \in cache : r.model # "computed"}
        /\ leaks' = leaks \cup ({"computed"} \X Orgs)
  /\ End(t)
  /\ UNCHANGED <<filings, dim, scores, loose, nextId, starts>>

(* POST /scores anchors the grades of a manual model.                       *)
Anchor(o, y) ==
  /\ starts < MaxStarts /\ starts' = starts + 1
  /\ <<o, y>> \in filings /\ At("manual", o, y) = {}
  /\ Create(o, y, "manual")
  /\ UNCHANGED <<filings, dim, cache, ops, leaks, loose>>
(* ScoringEngine.grade: checked, the factor written, the sum read, stored.  *)
GradeStart(t, i, f, v) ==
  /\ i \in DOMAIN scores /\ scores[i].model = "manual"
  /\ Start(t, [Op("grade", "factor") EXCEPT !.id = i, !.org = f, !.value = v])
  /\ loose' = IF Busy(i) # {} THEN loose \cup {i} ELSE loose
  /\ UNCHANGED <<filings, dim, scores, cache, leaks, nextId>>
GradeFactor(t) ==
  /\ Is(t, "grade", "factor")
  /\ LET op == ops[t] IN
     IF op.id \in DOMAIN scores
     THEN /\ scores' = [scores EXCEPT ![op.id].parts = Put(@, op.org, op.value)]
          /\ Goto(t, "sum")
     ELSE scores' = scores /\ End(t)
  /\ UNCHANGED <<filings, dim, cache, leaks, loose, nextId, starts>>
SumOf(parts) == FoldFunction(+, 0, parts)
SumWeighted(i) == IF i \in DOMAIN scores THEN SumOf(scores[i].parts) ELSE 0
GradeSum(t) ==
  /\ Is(t, "grade", "sum")
  /\ ops' = [ops EXCEPT ![t].value = SumWeighted(ops[t].id), ![t].at = "finalize"]
  /\ UNCHANGED <<filings, dim, scores, cache, leaks, loose, nextId, starts>>
GradeFinalize(t) ==
  /\ Is(t, "grade", "finalize")
  /\ Totalling(ops[t].id, ops[t].value)
  /\ End(t)
  /\ UNCHANGED <<filings, dim, cache, leaks, loose, nextId, starts>>

(* POST /scores/factors and /finalize write what the client says, of any    *)
(* model, and refresh nothing.                                              *)
PostFactor(i, f, v) ==
  /\ starts < MaxStarts /\ starts' = starts + 1
  /\ i \in DOMAIN scores
  /\ scores' = [scores EXCEPT ![i].parts = Put(@, f, v)]
  /\ loose' = loose \cup {i}
  /\ UNCHANGED <<filings, dim, cache, ops, leaks, nextId>>
PostTotal(i, v) ==
  /\ starts < MaxStarts /\ starts' = starts + 1
  /\ i \in DOMAIN scores
  /\ Totalling(i, v)
  /\ loose' = loose \cup {i}
  /\ leaks' = leaks \cup {<<scores[i].model, scores[i].org>>}
  /\ UNCHANGED <<filings, dim, cache, ops, nextId>>

-----------------------------------------------------------------------------
(* Scoring runs, purges and what else refreshes the cache.                  *)

BatchStart(t, os) ==
  /\ os # {}
  /\ Start(t, [Op("batch", "score") EXCEPT !.todo = os])
  /\ UNCHANGED <<filings, dim, scores, cache, leaks, loose, nextId>>
(* score_org and the commit after it: the computed rows of the organization *)
(* are replaced, one for every return.  Bound: the years of an organization *)
(* all come to the same.                                                    *)
BatchCommit(t) ==
  /\ Is(t, "batch", "score")
  /\ \E total \in Totals :
     LET op == ops[t]
         o == CHOOSE o \in op.todo : \A p \in op.todo : o <= p
         ys == {y \in Years : <<o, y>> \in filings}
         n == Cardinality(ys)
         row(y) == [NewRow(o, y, "computed") EXCEPT !.total = total,
                      !.parts = [f \in {None} |-> total]]
         kept == IF ys = {} THEN scores ELSE Without(Ids("computed", o))
     IN /\ scores' = With([i \in nextId..(nextId + n - 1) |-> row(SetToSeq(ys)[i - nextId + 1])], kept)
        /\ nextId' = nextId + n
        /\ ops' = [ops EXCEPT ![t].todo = @ \ {o}, ![t].done = @ \cup {o},
                              ![t].at = IF op.todo = {o} THEN "cache" ELSE "score"]
  /\ UNCHANGED <<filings, dim, cache, leaks, loose, starts>>

(* _purge: some returns go with their scores, and the organizations' rows   *)
(* of every model are derived again; all of them go with the whole cache.  A   *)
(* calculation that has looked its return up knows it by its uuid.          *)
\* mutant: the organizations' cached rows are only dropped
PurgedDropped(sc, os) == {r \in cache : r.org \notin os}
Purged(sc, os) == Refreshed(sc, dim, Models, os)
Orphaned(fs) ==
  [t \in Threads |->
     IF Is(t, "calc", "create") /\ <<ops[t].org, ops[t].year>> \in fs
     THEN [ops[t] EXCEPT !.year = None] ELSE ops[t]]
Purge(fs) ==
  /\ starts < MaxStarts /\ starts' = starts + 1
  /\ fs # {} /\ fs \subseteq filings
  /\ LET gone == {i \in DOMAIN scores : <<scores[i].org, scores[i].year>> \in fs}
         os == {f[1] : f \in fs}
     IN /\ scores' = Without(gone)
        /\ cache' = Purged(Without(gone), os)
        /\ leaks' = leaks \ (Models \X os)
  /\ filings' = filings \ fs /\ ops' = Orphaned(fs)
  /\ UNCHANGED <<dim, loose, nextId>>
PurgeAll ==
  /\ starts < MaxStarts /\ starts' = starts + 1
  /\ filings # {}
  /\ filings' = {} /\ scores' = << >> /\ cache' = {} /\ leaks' = {}
  /\ ops' = Orphaned(filings)
  /\ UNCHANGED <<dim, loose, nextId>>
StoreFiling(o, y) ==
  /\ starts < MaxStarts /\ starts' = starts + 1
  /\ <<o, y>> \in Returns \ filings
  /\ filings' = filings \cup {<<o, y>>}
  /\ UNCHANGED <<dim, scores, cache, ops, leaks, loose, nextId>>

(* update_org and classify commit the dimension, then refresh every model.  *)
EditOrg(t, o, d) ==
  /\ dim[o] # d
  /\ Start(t, [Op("edit", "cache") EXCEPT !.done = {o}])
  /\ dim' = [dim EXCEPT ![o] = d]
  /\ UNCHANGED <<filings, scores, cache, leaks, loose, nextId>>
(* An address that is cleared changes the dimension and refreshes nothing.  *)
DropAddress(o, d) ==
  /\ starts < MaxStarts /\ starts' = starts + 1
  /\ dim[o] # d /\ dim' = [dim EXCEPT ![o] = d]
  /\ leaks' = leaks \cup (Models \X {o})
  /\ UNCHANGED <<filings, scores, cache, ops, loose, nextId>>
Classify(t) ==
  /\ Start(t, [Op("classify", "cache") EXCEPT !.done = Orgs])
  /\ dim' \in [Orgs -> Dims]
  /\ UNCHANGED <<filings, scores, cache, leaks, loose, nextId>>

(* Any operation may fail at a transaction, or die with its process; before *)
(* its first one that is as if it had not been started.                     *)
Abort(t) ==
  /\ ~Idle(t) /\ ops[t].at \notin {"create", "factor"} /\ ops[t].done \cup {ops[t].id} # {None}
  /\ leaks' = leaks \cup Pending(ops[t])
  /\ loose' = IF ops[t].id # None THEN loose \cup {ops[t].id} ELSE loose
  /\ End(t)
  /\ UNCHANGED <<filings, dim, scores, cache, nextId, starts>>

Next ==
  \/ \E t \in Threads :
       \/ \E o \in Orgs, y \in Years, v \in Totals : CalcStart(t, o, y, v)
       \/ CalcCreate(t) \/ CalcStore(t) \/ CalcFinalize(t)
       \/ Refresh(t) \/ RefreshFails(t)
       \/ \E i \in DOMAIN scores, f \in Factors, v \in Totals : GradeStart(t, i, f, v)
       \/ GradeFactor(t) \/ GradeSum(t) \/ GradeFinalize(t)
       \/ \E os \in SUBSET Orgs : BatchStart(t, os)
       \/ BatchCommit(t)
       \/ \E o \in Orgs, d \in Dims : EditOrg(t, o, d)
       \/ Classify(t)
       \/ Abort(t)
  \/ \E o \in Orgs, y \in Years : Anchor(o, y) \/ StoreFiling(o, y)
  \/ \E o \in Orgs, d \in Dims : DropAddress(o, d)
  \/ \E i \in DOMAIN scores, v \in Totals :
       PostTotal(i, v) \/ \E f \in FactorsOf(scores[i].model) : PostFactor(i, f, v)
  \/ \E y \in Years : Purge({f \in filings : f[2] = y})   \* bound: an archive is a year
  \/ PurgeAll
Spec == Init /\ [][Next]_vars

-----------------------------------------------------------------------------
(* The cache of the computed model holds exactly the latest score of every  *)
(* organization with its dimension, except where an operation has changed   *)
(* something and has yet to refresh it, or failed to.                       *)
Awaited == UNION {Pending(ops[t]) : t \in Threads}
Unscored(o) == Latest(scores, dim, "computed", o) = {}
BoardRight ==
  \A o \in Orgs : <<"computed", o>> \notin leaks \cup Awaited =>
    {r \in cache : r.model = "computed" /\ r.org = o} = Latest(scores, dim, "computed", o)

(* A score's total is the sum of its factors, unless two operations wrote   *)
(* it at once, one was cut short, or a client set them one by one.          *)
TotalIsSum ==
  \A i \in DOMAIN scores :
    i \notin loose /\ Busy(i) = {} /\ scores[i].total # None =>
      scores[i].total = SumOf(scores[i].parts)

(* Every page of a leaderboard gives an organization the rank it is told    *)
(* when it asks for its own.                                                *)
WalkIsRank ==
  \A m \in Models, ds \in SUBSET Dims \ {{}}, offset \in 0..(Cardinality(Orgs) - 1) :
    LET page == Leaderboard(m, ds, Cardinality(Orgs), offset) IN
    \A i \in DOMAIN page : page[i].rank = RankOrg(m, ds, page[i].org).rank

(* A ranked organization is among those it is ranked with, however old its  *)
(* cached dimension is.                                                     *)
OwnDimension ==
  \A m \in Models, o \in Orgs :
    LET r == RankInDimension(m, o) IN
    (\E s \in Subset(m, Dims) : s.org = o) => r.rank # None /\ r.rank <= r.of

(* What a board, an organization's rank and its rank in its own dimension   *)
(* say agrees, whether they read the cache or the scores.                   *)
RankingsAgree == WalkIsRank /\ OwnDimension

(* What the code says of the cache.  A manual model is never in it; a cache *)
(* that was never built, or was cleared, is only an accelerator: whatever   *)
(* it holds when reads use it is all there is to rank.                      *)
ManualNeverCached == ~Ready("manual")
BoardComplete ==
  Ready("computed") => \A o \in Orgs :
    <<"computed", o>> \in Awaited \/ Unscored(o) \/ \E r \in Subset("computed", Dims) : r.org = o
=============================================================================
