------------------------------ MODULE Scoring ------------------------------
(***************************************************************************)
(* What a scoring run computes from what it reads (scoring/engine.py): the *)
(* order of factors and of models, one model's score of one year, all      *)
(* scores of an organization for a rebuild, and one score calculated on    *)
(* request with the chain of models below it.                              *)
(*                                                                         *)
(* models is the library, version -> definition or None; org is what is    *)
(* read of an organization: its models, type, the years to score and the   *)
(* values of every year.                                                   *)
(***************************************************************************)
EXTENDS Definitions

CONSTANTS FirstYear, LastYear
Years == FirstYear..LastYear

-----------------------------------------------------------------------------
(* Orders.  _topo_sort, _order_versions and _dependency_order are the same  *)
(* depth-first walk: dependencies first, an error on a node being visited.  *)
(* It recurses with fewer and fewer nodes that are not on the stack.        *)

Walks(nodes) == [order: Seq(nodes), raised: BOOLEAN]
Each(visit, st, nodes) == FoldLeft(LAMBDA s, n : visit[s][n], st, SetToSeq(nodes))
Visit(deps) ==
  LET nodes == DOMAIN deps
      visit[off \in SUBSET nodes] ==
        [st \in Walks(nodes) |-> [n \in nodes |->
           IF n \notin off THEN [st EXCEPT !.raised = TRUE]
           ELSE IF st.raised \/ n \in ToSet(st.order) THEN st
           ELSE LET below == Each(visit[off \ {n}], st, deps[n] \cap nodes)
                IN [below EXCEPT !.order = Append(@, n)]]]
  IN visit
DepthFirst(deps, roots) ==
  Each(Visit(deps)[DOMAIN deps], [order |-> << >>, raised |-> FALSE], roots)

FactorOrder(d) == DepthFirst(FactorGraph(d), Names(d))
Sorted(d) ==
  LET order == FactorOrder(d).order IN
  [i \in DOMAIN order |-> CHOOSE f \in Factors(d) : f.name = order[i]]

-----------------------------------------------------------------------------
(* The models.                                                              *)

Computed(models) == {v \in Versions : models[v] # None /\ models[v].mode = "computed"}
Refs(models, v) == ModelRefs(models[v])
(* These models and the computed ones they need, directly or not.           *)
Closure(models, S) ==
  LET computed == Computed(models)
      needs == [v \in computed |-> Refs(models, v) \cap computed]
      complete == {T \in SUBSET computed : S \subseteq T /\ \A v \in T : needs[v] \subseteq T}
  IN {v \in computed : \A T \in complete : v \in T}
(* _prepare_models: the requested models that compute, with what they need. *)
Prepared(models, requested) == Closure(models, requested \cap Computed(models))
VersionOrder(models, versions) ==
  DepthFirst([v \in versions |-> Refs(models, v)], versions)
HasPolicy(d) == \E f \in Factors(d) : Fills(f, d.missing)
Applies(org, v) ==
  CASE org.models[v].applies = "foundation" -> org.type = "foundation"
    [] org.models[v].applies = "nonprofit"  -> org.type # "foundation"
    [] OTHER -> TRUE

-----------------------------------------------------------------------------
(* One model, one year.                                                     *)

(* The values of a concept, oldest first.                                   *)
History(vals) ==
  LET span == [i \in 1..(LastYear - FirstYear + 1) |-> FirstYear + i - 1] IN
  [c \in Concepts |->
     SelectSeq([i \in DOMAIN span |-> vals[span[i]][c]], LAMBDA v : v # None)]
ConceptSeries(vals) ==
  [c \in Concepts |-> [y \in {z \in Years : vals[z][c] # None} |-> vals[y][c]]]
Fill(d, vals, totals) ==
  [allowed |-> HasPolicy(d), default |-> d.missing,
   concepts |-> ConceptSeries(vals), models |-> totals]
NoSeries == [v \in Versions |-> << >>]
Env(y, vals, totals) ==
  [year |-> y, vals |-> vals[y], history |-> History(vals), totals |-> totals]

(* _score_model_for_filing: the factors in order, each one's value there    *)
(* for the next, and the weighted sum of what they normalize to.            *)
Added(acc, f, r) ==
  [computed |-> [acc.computed EXCEPT ![f.name] = r.value],
   total |-> Plus(acc.total, Times(Num(f.weight), Normalize(f, r.value))),
   filled |-> acc.filled \/ r.filled, raised |-> acc.raised \/ r.raised]
ScoreFactor(env, fill, acc, f) ==
  Added(acc, f, ComputeFactor(f, env, acc.computed, fill))
ScoreModel(d, env, fill) ==
  FoldLeft(LAMBDA acc, f : ScoreFactor(env, fill, acc, f),
           [computed |-> [n \in Names(d) |-> None], total |-> Zero,
            filled |-> FALSE, raised |-> FALSE],
           Sorted(d))

-----------------------------------------------------------------------------
(* score_org: model after model on top of the rows of those before it, a    *)
(* row for every year with data where nothing is ever filled, one for every *)
(* year of the span where a policy is.                                      *)

Span(years) == IF years = {} THEN {} ELSE Min(years)..Max(years)
YearsOf(org, v) ==
  IF ~Applies(org, v) THEN {}
  ELSE IF HasPolicy(org.models[v]) THEN Span(org.years) ELSE org.years
Of(rows, v) == {r \in rows : r.model = v}
YearsIn(rows, v) == {r.year : r \in Of(rows, v)}
TotalOf(rows, v, y) == (CHOOSE r \in Of(rows, v) : r.year = y).total
Totals(org, rows, v, y) ==
  [w \in {u \in Refs(org.models, v) : y \in YearsIn(rows, u)} |-> TotalOf(rows, w, y)]
ModelSeries(org, rows, v) ==
  [w \in Refs(org.models, v) |-> [y \in YearsIn(rows, w) |-> TotalOf(rows, w, y)]]
\* mutant: a row is flagged for what it fills itself only
FlaggedNever(org, rows, v, y) == FALSE
Flagged(org, rows, v, y) ==
  \E w \in Refs(org.models, v) : \E r \in Of(rows, w) : r.year = y /\ r.imputed
EnvOf(org, rows, v, y) == Env(y, org.vals, Totals(org, rows, v, y))
FillOf(org, rows, v) == Fill(org.models[v], org.vals, ModelSeries(org, rows, v))
Row(org, rows, v, y, result) ==
  [model |-> v, year |-> y, total |-> result.total, raised |-> result.raised,
   imputed |-> HasPolicy(org.models[v]) /\ (result.filled \/ Flagged(org, rows, v, y))]
ScoreYear(org, rows, v, y) ==
  Row(org, rows, v, y,
      ScoreModel(org.models[v], EnvOf(org, rows, v, y), FillOf(org, rows, v)))
ScoreAll(org, rows, v) == rows \cup {ScoreYear(org, rows, v, y) : y \in YearsOf(org, v)}
Batch(org, versions) ==
  FoldLeft(LAMBDA rows, v : ScoreAll(org, rows, v), {}, VersionOrder(org.models, versions).order)
BatchRaises(batch) == \E r \in batch : r.raised

-----------------------------------------------------------------------------
(* calculate: the totals of the whole chain below v for this year, then v.  *)
(* No series of model totals is at hand to fill from.                       *)

OneScore(org, totals, v, y) ==
  ScoreModel(org.models[v], Env(y, org.vals, totals), Fill(org.models[v], org.vals, NoSeries))
\* mutant: the children of a composite are computed without their fill
AddTotalUnfilled(org, totals, v, y) ==
  [w \in DOMAIN totals \cup {v} |->
     IF w = v THEN ScoreModel(org.models[v], Env(y, org.vals, totals), NoFill).total
     ELSE totals[w]]
AddTotal(org, totals, v, y) ==
  [w \in DOMAIN totals \cup {v} |-> IF w = v THEN OneScore(org, totals, v, y).total ELSE totals[w]]
ChainTotals(org, v, y) ==
  FoldLeft(LAMBDA totals, w : AddTotal(org, totals, w, y), << >>,
           VersionOrder(org.models, Closure(org.models, {v}) \ {v}).order)
OnDemand(org, v, y) == OneScore(org, ChainTotals(org, v, y), v, y)
OnDemandRaises(org, v, y) ==
  LET totals == ChainTotals(org, v, y) IN
  \E w \in DOMAIN totals \cup {v} : OneScore(org, totals, w, y).raised

-----------------------------------------------------------------------------
(* What the scores are to mean.                                             *)

(* Dependencies come first in an order.                                     *)
Follows(order, deps) ==
  \A i \in DOMAIN order : \A m \in deps[order[i]] \cap DOMAIN deps :
    \E j \in 1..(i - 1) : order[j] = m

(* The totals of one year if no input of any model were ever filled.        *)
RealTotals(org, y) ==
  LET real[v \in Computed(org.models)] ==
        LET below == {w \in Refs(org.models, v) \cap Computed(org.models) :
                        y \in YearsOf(org, w)}
        IN ScoreModel(org.models[v], Env(y, org.vals, [w \in below |-> real[w]]), NoFill).total
  IN real
(* Somewhere in the chain of v a total that is flagged for this year is     *)
(* read by a model that has no policy of its own, and keeps no flag.        *)
FlagLost(org, rows, v, y) ==
  \E w \in Closure(org.models, {v}) :
    ~HasPolicy(org.models[w]) /\ Flagged(org, rows, w, y)
(* A deviation of the history some factor of v reads is too large to square.*)
Overflowing(org, v) ==
  \E f \in Factors(org.models[v]) :
    /\ f.type \in HistoricalTypes
    /\ Overflows(f.type, HistoryOf(f, [history |-> History(org.vals)]))
=============================================================================
