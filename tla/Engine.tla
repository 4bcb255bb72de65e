------------------------------- MODULE Engine -------------------------------
(***************************************************************************)
(* Scoring of one organization (scoring/engine.py): definitions become     *)
(* models, returns and entered figures give the years values, a rebuild    *)
(* scores every year with every model, composites from their children's    *)
(* totals, and a request calculates one score on its own, its chain of     *)
(* models included.  The two are written twice in the code and must agree. *)
(***************************************************************************)
EXTENDS Scoring

CONSTANTS
  Submitted,   \* definitions handed to registration
  Returns,     \* returns that may be filed: [year, form, reported]
  Entries,     \* figures a person may enter: [year, concept, value]
  MaxChanges,  \* bound: changes to the data
  MaxRuns      \* bound: scoring runs and calculations

VARIABLES
  library,   \* version -> registered definition, or None
  orgType,   \* organization.org_type
  filings,   \* the forms filed for each year, in order of filing_id
  facts,     \* per year and concept the chosen value and the filing behind it
  scores,    \* rows of organization_score
  fresh,     \* versions rebuilt since anything they depend on changed
  asked,     \* <<version, year>> calculated on request since then
  changes, runs

Forms == {"990", "990T", "FIN"}   \* FIN: an anchor no return stands behind
ASSUME EngineAssumption ==
  /\ IsFiniteSet(Versions) /\ FirstYear \in Int /\ LastYear \in Int
  /\ None \notin Submitted
  /\ \A d \in Submitted : d.factors \in Seq(Factors(d))
  /\ \A d \in Submitted : \A f \in Factors(d) : f.inputs = None \/ f.inputs \in Seq(Inputs(f))
  /\ \A ret \in Returns : /\ ret.year \in Years /\ ret.form \in Forms \ {"FIN"}
                          /\ \A c \in Concepts : ret.reported[c] \in Int \cup {None}
  /\ Entries \subseteq [year: Years, concept: Concepts, value: Int]
  /\ MaxChanges \in Nat /\ MaxRuns \in Nat

data == <<orgType, filings, facts>>
vars == <<library, data, scores, fresh, asked, changes, runs>>

Filing == [year: Years, form: Forms]
Filings == {f \in Filing : f.form \in ToSet(filings[f.year])}
Live == {v \in Versions : library[v] # None}

FilingsOK ==
  filings \in [Years -> Seq(Forms)] /\ \A y \in Years : IsInjective(filings[y])
FactsOK ==
  /\ facts \in [Years -> [Concepts -> [value: Int, by: Filings] \cup {None}]]
  /\ \A y \in Years, c \in Concepts : facts[y][c] # None => facts[y][c].by.year = y
(* A row's filing is there, its model too, and there is one of each.        *)
ScoresOK ==
  /\ \A s \in scores : s.filing \in Filings /\ s.model \in Live
  /\ \A s, t \in scores : s.filing = t.filing /\ s.model = t.model => s = t
TypeOK ==
  /\ library \in [Versions -> Submitted \cup {None}]
  /\ orgType \in {"nonprofit", "foundation"}
  /\ FilingsOK /\ FactsOK /\ ScoresOK
  /\ fresh \subseteq Versions /\ asked \subseteq Versions \X Years
  /\ changes \in 0..MaxChanges /\ runs \in 0..MaxRuns

Init ==
  /\ library = [v \in Versions |-> None]
  /\ orgType = "nonprofit"
  /\ filings = [y \in Years |-> << >>]
  /\ facts = [y \in Years |-> [c \in Concepts |-> None]]
  /\ scores = {} /\ fresh = {} /\ asked = {}
  /\ changes = 0 /\ runs = 0

-----------------------------------------------------------------------------
(* What a run reads.                                                        *)

(* get_org_scoring_data: an anchor beside a return, or without any value,   *)
(* is not a year of its own.                                                *)
RealYears == {f.year : f \in {g \in Filings : g.form # "FIN"}}
Valueless(y) == \A c \in Concepts : facts[y][c] = None
\* mutant: an anchor made to hold a filled score counts as a year
ScoreableOrAnchor ==
  LET real == RealYears IN {f \in Filings : f.form # "FIN" \/ f.year \notin real}
Scoreable ==
  LET real == RealYears IN
  {f \in Filings : f.form # "FIN" \/ (f.year \notin real /\ ~Valueless(f.year))}
ScoringYears == {f.year : f \in Scoreable}
Vals(y) == [c \in Concepts |-> IF facts[y][c] = None THEN None ELSE Num(facts[y][c].value)]
Org == [models |-> library, type |-> orgType, years |-> ScoringYears,
        vals |-> [y \in Years |-> Vals(y)]]

(* The filing a year's score is kept at: the year's first return, or its    *)
(* anchor, which is made when there is none.                                *)
FilingOf(y) ==
  LET returns == {i \in DOMAIN filings[y] : filings[y][i] # "FIN"} IN
  [year |-> y, form |-> IF returns = {} THEN "FIN" ELSE filings[y][Min(returns)]]
(* replace_org_scores: a model without policy has a row at every return of  *)
(* the year, one with a policy at the first return or the anchor.           *)
At(r) == IF HasPolicy(library[r.model]) THEN {FilingOf(r.year)}
         ELSE {f \in Scoreable : f.year = r.year}
Rows(batch) ==
  UNION {{[filing |-> f, model |-> r.model, total |-> r.total, imputed |-> r.imputed] :
            f \in At(r)} : r \in batch}
(* What a rebuild with every model would write now.                         *)
Current == Rows(Batch(Org, Computed(library)))

-----------------------------------------------------------------------------
Change == Live = Versions /\ changes < MaxChanges /\ changes' = changes + 1 /\ UNCHANGED runs
Run == runs < MaxRuns /\ runs' = runs + 1 /\ UNCHANGED changes

(* register_model: nothing is stored unless every check passes.  Bound:     *)
(* every version is registered before the organization has any data, and    *)
(* none is archived (Models has what may be composed and retired when).     *)
Register(d) ==
  /\ changes = 0
  /\ Accepted(d) /\ ChildrenOK(library, {}, d)
  /\ library[d.version] = None
  /\ library' = [library EXCEPT ![d.version] = d]
  /\ UNCHANGED <<data, scores, fresh, asked, changes, runs>>

Stored(f) == f \in Filings
Filed(fs, f) ==
  IF f.form \in ToSet(fs[f.year]) THEN fs ELSE [fs EXCEPT ![f.year] = Append(@, f.form)]
\* mutant: an anchor is made for every row of a year, there or not
AnchoredAgain(fs) ==
  [y \in Years |-> IF [year |-> y, form |-> "FIN"] \in fs
                   THEN Append(filings[y], "FIN") ELSE filings[y]]
(* The filings of scores that are not there yet are anchors.                *)
Anchored(fs) ==
  [y \in Years |-> IF [year |-> y, form |-> "FIN"] \in fs \ Filings
                   THEN Append(filings[y], "FIN") ELSE filings[y]]
(* A return is stored; values of concepts nothing is chosen for are taken   *)
(* over by the derivation every scoring path starts with.  A 990-T reports  *)
(* none of the concepts.                                                    *)
FileReturn(ret) ==
  LET f == [year |-> ret.year, form |-> ret.form] IN
  /\ Change
  /\ ~Stored(f)
  /\ filings' = Filed(filings, f)
  /\ facts' = [facts EXCEPT ![f.year] =
       [c \in Concepts |-> IF @[c] # None \/ ret.reported[c] = None THEN @[c]
                           ELSE [value |-> ret.reported[c], by |-> f]]]
  /\ fresh' = {} /\ asked' = {}
  /\ UNCHANGED <<library, orgType, scores>>

(* A figure entered by hand is kept with the year's return, or an anchor,   *)
(* and an earlier one is edited where it was kept; one that is recorded     *)
(* from a document leaves what is chosen for the concept.                   *)
Observe(e) ==
  /\ Change
  /\ \E by \in {FilingOf(e.year)} \cup {f \in Filings : f.year = e.year} :
       /\ filings' = Filed(filings, by)
       /\ facts' \in {[facts EXCEPT ![e.year][e.concept] = [value |-> e.value, by |-> by]]} \cup
                     (IF facts[e.year][e.concept] = None THEN {} ELSE {facts})
  /\ fresh' = {} /\ asked' = {}
  /\ UNCHANGED <<library, orgType, scores>>

Left(forms, y, fs) ==
  FoldLeft(LAMBDA kept, form : IF [year |-> y, form |-> form] \in fs THEN kept
                               ELSE Append(kept, form), << >>, forms)
(* The readings of a concept that may be left when the chosen one goes.     *)
Readings(y, c) ==
  {[value |-> ret.reported[c], by |-> [year |-> y, form |-> ret.form]] :
     ret \in {r \in Returns : r.year = y /\ r.reported[c] # None}} \cup
  {[value |-> e.value, by |-> [year |-> y, form |-> form]] :
     e \in {x \in Entries : x.year = y /\ x.concept = c}, form \in Forms}
(* Purging the archives takes their returns, what they reported and what    *)
(* was scored of them; the anchors came from no archive.  The trigger       *)
(* chooses another reading if one is left.                                  *)
Purge(fs) ==
  LET lost == {p \in Years \X Concepts : facts[p[1]][p[2]] # None /\ facts[p[1]][p[2]].by \in fs}
      left(p) == {r \in Readings(p[1], p[2]) : r.by \in Filings \ fs} IN
  /\ Change
  /\ fs # {} /\ fs \subseteq {f \in Filings : f.form # "FIN"}
  /\ filings' = [y \in Years |-> Left(filings[y], y, fs)]
  /\ \E again \in [lost -> UNION {left(p) : p \in lost} \cup {None}] :
       /\ \A p \in lost : again[p] \in left(p) \cup {None}
       /\ facts' = [y \in Years |-> [c \in Concepts |->
            IF <<y, c>> \in lost THEN again[<<y, c>>] ELSE facts[y][c]]]
  /\ scores' = {s \in scores : s.filing \notin fs}
  /\ fresh' = {} /\ asked' = {}
  /\ UNCHANGED <<library, orgType>>

Reclassify(t) ==
  /\ Change
  /\ orgType # t /\ orgType' = t
  /\ fresh' = {} /\ asked' = {}
  /\ UNCHANGED <<library, filings, facts, scores>>

(* rebuild for this organization.  All prepared models lose their old rows, *)
(* also those that do not apply (any longer); with no year to score the run *)
(* returns before it replaces anything, unless no model applies at all.     *)
(* One that raises stores nothing of the organization.                      *)
Rebuild(versions) ==
  /\ LET batch == Batch(Org, versions)
         rows == Rows(batch)
         replaces == ScoringYears # {} \/ \A v \in versions : ~Applies(Org, v)
     IN /\ versions # {} /\ ~VersionOrder(library, versions).raised
        /\ ~BatchRaises(batch)
        /\ scores' = IF replaces
                     THEN {s \in scores : s.model \notin versions} \cup rows ELSE scores
        /\ filings' = Anchored({r.filing : r \in rows})
        /\ fresh' = fresh \cup versions
        /\ asked' = {a \in asked : a[1] \notin versions}
  /\ UNCHANGED <<library, orgType, facts>>

Calculate(v, y) ==
  /\ Run
  /\ v \in Computed(library)
  /\ Stored(FilingOf(y)) /\ ~OnDemandRaises(Org, v, y)
  /\ LET r == OnDemand(Org, v, y)
         key == [filing |-> FilingOf(y), model |-> v]
     IN scores' = {s \in scores : s.filing # key.filing \/ s.model # v} \cup
                  {[filing |-> key.filing, model |-> v, total |-> r.total,
                    imputed |-> r.filled]}
  /\ fresh' = fresh \ {v} /\ asked' = asked \cup {<<v, y>>}
  /\ UNCHANGED <<library, data>>

Next ==
  \/ \E d \in Submitted : Register(d)
  \/ \E ret \in Returns : FileReturn(ret)
  \/ \E e \in Entries : Observe(e)
  \/ \E fs \in SUBSET Filings : Purge(fs)
  \/ \E t \in {"nonprofit", "foundation"} : Reclassify(t)
  \/ /\ Run
     /\ \E versions \in {Prepared(library, requested) : requested \in SUBSET Versions} :
          Rebuild(versions)
  \/ \E v \in Versions, y \in Years : Calculate(v, y)
Spec == Init /\ [][Next]_vars

-----------------------------------------------------------------------------
(* Properties.                                                              *)

(* Whatever registration let in, factors and models can be ordered,         *)
(* dependencies first, and every benchmark can be divided by.               *)
Orderable ==
  /\ LET walk == VersionOrder(library, Computed(library)) IN
     /\ ~walk.raised /\ ToSet(walk.order) = Computed(library)
     /\ Follows(walk.order, [v \in Computed(library) |-> Refs(library, v)])
  /\ \A v \in Computed(library) :
       LET walk == FactorOrder(library[v]) IN
       /\ ~walk.raised /\ ToSet(walk.order) = Names(library[v])
       /\ Follows(walk.order, FactorGraph(library[v]))
       /\ \A f \in Factors(library[v]) :
            FactorRefs(f) \subseteq Names(library[v]) /\ f.hi - f.lo > 0
       /\ Refs(library, v) \subseteq Computed(library)

(* Scoring never raises on what registration let in and on the figures the  *)
(* organization has, whether it rebuilds or calculates: no formula lacks an *)
(* input or divides by zero.  The one exception is a deviation that is too  *)
(* large to square.                                                         *)
NeverRaises ==
  /\ Orderable
  /\ BatchRaises(Batch(Org, Computed(library))) => \E v \in Computed(library) : Overflowing(Org, v)
  /\ \A v \in Computed(library), y \in {f.year : f \in Filings} :
       OnDemandRaises(Org, v, y) => \E w \in Closure(library, {v}) : Overflowing(Org, w)

(* The rows a rebuild left are the rows a rebuild would write now: nothing  *)
(* a run stores (an anchor for a filled year above all) changes what the    *)
(* next one finds, and no row of an earlier state of the data is left.      *)
StoredIsCurrent ==
  ScoringYears # {} =>
    {s \in scores : s.model \in fresh} = {r \in Current : r.model \in fresh}

(* calculate and rebuild give a year with a return the same total, as long  *)
(* as every model of the chain applies to the organization.                 *)
OnDemandAgrees ==
  \A s \in scores :
    LET chain == Closure(library, {s.model}) IN
    /\ <<s.model, s.filing.year>> \in asked
    /\ s.filing.form # "FIN" /\ s.filing = FilingOf(s.filing.year)
    /\ \A w \in chain : Applies(Org, w)
    => s.total = TotalOf(Batch(Org, chain), s.model, s.filing.year)

(* A score a rebuild did not flag comes from that year's values alone: it   *)
(* is what the models would give without any filling.  Only where the flag  *)
(* of a total was lost on the way up, in a model that has no policy, is it  *)
(* not.                                                                     *)
UnflaggedIsReal ==
  LET rows == Batch(Org, Computed(library)) IN
  \A s \in scores :
    /\ s.model \in fresh /\ ~s.imputed /\ ScoringYears # {}
    /\ ~FlagLost(Org, rows, s.model, s.filing.year)
    => s.total = RealTotals(Org, s.filing.year)[s.model]
=============================================================================
