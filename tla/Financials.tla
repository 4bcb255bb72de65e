----------------------------- MODULE Financials -----------------------------
(***************************************************************************)
(* The financial layer of one organization (database/Financials): every    *)
(* source's reading of a fact is an observation, and one observation per    *)
(* fact is canonical, its value copied beside the choice for the scoring    *)
(* reads.  Readings are derived from filings, recorded by clients, edited   *)
(* by hand, and lost with the filing they are anchored to.                  *)
(***************************************************************************)
EXTENDS Integers, FiniteSets, SequencesExt

CONSTANTS
  Periods, Concepts,  \* fiscal years; the concepts scoring reads
  Forms,              \* real return types, at most one filing each per period
  Values, Junk, NaN,  \* numbers, a text that is none, one float() takes: "nan"
  Editors,            \* who chooses by hand: a value of chosen_by
  MaxObs,             \* bound: observations ever made
  None

Filings == Periods \X (Forms \cup {"FIN"})
Ids == 1..MaxObs
Facts == Periods \X Concepts
Raw == Values \cup {Junk, NaN, None}
(* SQLite stores a NaN as NULL: the two differ in how they were added only. *)
Null == {None, NaN}
Cell == Values \cup Null
Sources == {"irs", "manual", "audited"}

VARIABLES
  filing,      \* the filing table with what each return reports, or None
  documented,  \* filings that have a 990-derived document
  obs,         \* financial_observation by id
  canonical,   \* financial_canonical by fact
  nextObs,     \* AUTOINCREMENT of financial_observation
  bulk,        \* concepts a corpus-wide derivation has left, or its phase
  mixed,       \* facts observed by others while such a derivation ran
  marker       \* the migration row: canonical values have been backfilled

tables == <<filing, documented, obs, canonical, nextObs>>
vars == <<tables, bulk, mixed, marker>>

Observation == [fact: Facts, source: Sources, filing: Filings,
                value: Cell]
Choice == [obs: Ids, value: Cell, by: Editors \cup {"auto"}]

TypeOK ==
  /\ filing \in [Filings -> [Concepts -> Raw] \cup {None}]
  /\ documented \subseteq Filings
  /\ obs \in [Ids -> Observation \cup {None}]
  /\ canonical \in [Facts -> Choice \cup {None}]
  /\ nextObs \in 1..(MaxObs + 1)
  /\ bulk \in [phase: {"none", "cut", "observations", "canonical"},
              left: SUBSET Concepts]
  /\ mixed \subseteq Facts
  /\ marker \in BOOLEAN

Bulk(phase) == [phase |-> phase, left |-> {}]
Running == bulk.phase \in {"observations", "canonical"}

Fresh ==
  /\ filing = [f \in Filings |-> None]
  /\ documented = {}
  /\ obs = [i \in Ids |-> None]
  /\ canonical = [f \in Facts |-> None]
  /\ nextObs = 1

(* A database from before canonical rows held values, with one return.      *)
Legacy ==
  \E f \in Periods \X Forms, s \in SetToSeqs(Concepts) :
    /\ Len(s) <= MaxObs
    /\ \E data \in [Concepts -> Values] :
         /\ filing = [g \in Filings |-> IF g = f THEN data ELSE None]
         /\ obs = [i \in Ids |-> IF i \in 1..Len(s)
              THEN [fact |-> <<f[1], s[i]>>, source |-> "irs", filing |-> f,
                    value |-> data[s[i]]]
              ELSE None]
    /\ documented = {f}
    /\ canonical = [fact \in Facts |-> IF fact[1] # f[1] THEN None ELSE
         [obs |-> CHOOSE i \in 1..Len(s) : s[i] = fact[2],
          value |-> None, by |-> "auto"]]
    /\ nextObs = Len(s) + 1

Init == (Fresh \/ Legacy) /\ bulk = Bulk("none") /\ mixed = {} /\ marker = FALSE

(* What the constants stand for: an absent value or row is none there is,   *)
(* nobody is called "auto".                                                 *)
Distinct ==
  /\ MaxObs \in Nat /\ IsFiniteSet(Periods) /\ IsFiniteSet(Concepts) /\ IsFiniteSet(Forms)
  /\ None \notin Values \cup Observation \cup Choice \cup [Concepts -> Raw]
  /\ NaN \notin Values \cup {None}
  /\ "auto" \notin Editors

-----------------------------------------------------------------------------
(* Rows and reads.                                                          *)

(* _to_float takes "nan" for a number, the SQL of derive_bulk does not.     *)
Number(raw, inSql) == IF raw \in Values \/ (raw = NaN /\ ~inSql) THEN raw ELSE None
Real(f) == f[2] # "FIN"
Stored == {f \in Filings : filing[f] # None}
Live(o) == {i \in Ids : o[i] # None}
Readings(o, fact) == {i \in Live(o) : o[i].fact = fact /\ o[i].value \notin Null}
First(ids) == CHOOSE i \in ids : \A j \in ids : i <= j
AutoChosen(o, i) == [obs |-> i, value |-> o[i].value, by |-> "auto"]

(* New rows take consecutive ids in an order SQL does not fix.              *)
Numbered(rows) ==
  {[i \in Ids |-> IF i \in nextObs..(nextObs + Cardinality(rows) - 1)
                  THEN s[i - nextObs + 1] ELSE obs[i]] : s \in SetToSeqs(rows)}
Room(rows) == nextObs + Cardinality(rows) <= MaxObs + 1

(* What a filing reports and its derived document does not hold yet.        *)
Missing(f, c) ==
  /\ filing[f][c] # None
  /\ \A i \in Live(obs) : ~ /\ obs[i].filing = f
                            /\ obs[i].source = "irs"
                            /\ obs[i].fact[2] = c
DerivedRow(f, c, inSql) ==
  [fact |-> <<f[1], c>>, source |-> "irs", filing |-> f, value |-> Number(filing[f][c], inSql)]
DerivedRows(fs, cs, inSql) ==
  {DerivedRow(p[1], p[2], inSql) : p \in {q \in fs \X cs : Missing(q[1], q[2])}}

(* _add_observation: a fact without a choice takes the first new reading    *)
(* that is a value to Python, a NaN too.                                    *)
ChosenOnAdd(o) ==
  [fact \in Facts |->
    LET new == {i \in Live(o) : o[i].fact = fact /\ o[i].value # None /\ i >= nextObs} IN
    IF canonical[fact] = None /\ new # {} THEN AutoChosen(o, First(new))
    ELSE canonical[fact]]
\* mutant: INSERT OR REPLACE
ChosenInBulkAgain(o) ==
  [fact \in Facts |-> IF Readings(o, fact) # {} THEN AutoChosen(o, First(Readings(o, fact)))
                      ELSE canonical[fact]]
(* derive_bulk: a fact without a choice takes the first reading there is.   *)
ChosenInBulk(o) ==
  [fact \in Facts |->
    IF canonical[fact] = None /\ Readings(o, fact) # {}
    THEN AutoChosen(o, First(Readings(o, fact))) ELSE canonical[fact]]

(* Readings another process adds between the phases of a bulk derivation.   *)
Noted(o) ==
  mixed' = IF ~Running THEN mixed
           ELSE mixed \cup {o[i].fact : i \in Live(o) \ Live(obs)}

(* _ensure_anchor: a real filing of the period if there is one, else FIN.   *)
Anchors(p) ==
  LET real == {f \in Stored : f[1] = p /\ Real(f)} IN
  IF real # {} THEN real ELSE {<<p, "FIN">>}
Anchored(f) ==
  IF filing[f] = None THEN [filing EXCEPT ![f] = [c \in Concepts |-> None]]
  ELSE filing

-----------------------------------------------------------------------------
(* Operations.                                                              *)

(* An ingest or an upload stores a return; what it reports stays.           *)
Store(f) ==
  /\ Real(f) /\ filing[f] = None
  /\ \E data \in [Concepts -> Raw] : filing' = [filing EXCEPT ![f] = data]
  /\ UNCHANGED <<documented, obs, canonical, nextObs, bulk, mixed>>

(* The filing goes, its documents and their observations cascade, and the   *)
(* trigger chooses again where the choice went with them.                   *)
\* mutant: the trigger without its ORDER BY
RecanonicalLatest(o, lost) ==
  [fact \in Facts |->
    LET c == canonical[fact] IN
    IF c = None \/ c.obs \notin lost THEN c
    ELSE IF Readings(o, fact) = {} THEN None
    ELSE AutoChosen(o, CHOOSE i \in Readings(o, fact) : \A j \in Readings(o, fact) : j <= i)]
Recanonical(o, lost) ==
  [fact \in Facts |->
    LET c == canonical[fact]
        touched == \E i \in lost : obs[i].fact = fact IN
    IF touched /\ (c = None \/ c.obs \in lost)
    THEN IF Readings(o, fact) = {} THEN None
         ELSE AutoChosen(o, First(Readings(o, fact)))
    ELSE c]
Purge(fs) ==
  /\ fs # {} /\ fs \subseteq Stored
  /\ LET lost == {i \in Live(obs) : obs[i].filing \in fs}
         o == [i \in Ids |-> IF i \in lost THEN None ELSE obs[i]] IN
     /\ obs' = o
     /\ canonical' = Recanonical(o, lost)
  /\ filing' = [f \in Filings |-> IF f \in fs THEN None ELSE filing[f]]
  /\ documented' = documented \ fs
  /\ UNCHANGED <<nextObs, bulk, mixed>>

(* derive_from_990, and derive_bulk for given organizations.                *)
Derive ==
  \E inSql \in BOOLEAN :
  LET real == {f \in Stored : Real(f)}
      rows == DerivedRows(real, Concepts, inSql) IN
  /\ Room(rows)
  /\ documented' = documented \cup real
  /\ \E o \in Numbered(rows) :
       /\ obs' = o
       /\ canonical' = IF inSql THEN ChosenInBulk(o) ELSE ChosenOnAdd(o)
       /\ Noted(o)
  /\ nextObs' = nextObs + Cardinality(rows)
  /\ UNCHANGED <<filing, bulk>>

(* record_observations: one document, one reading per concept given.  Bound *)
(* of Operation: no Junk is recorded, its reading is that of a return's.    *)
Record(p, source, data) ==
  \E f \in Anchors(p) :
    LET rows == {[fact |-> <<p, c>>, source |-> source, filing |-> f,
                  value |-> Number(data[c], FALSE)] :
                   c \in {d \in Concepts : data[d] # None}} IN
    /\ rows # {} /\ Room(rows)
    /\ filing' = Anchored(f)
    /\ \E o \in Numbered(rows) :
         /\ obs' = o
         /\ canonical' = ChosenOnAdd(o)
         /\ Noted(o)
    /\ nextObs' = nextObs + Cardinality(rows)
    /\ UNCHANGED <<documented, bulk>>

SetCanonical(i, who) ==
  /\ obs[i] # None
  /\ canonical' = [canonical EXCEPT ![obs[i].fact] =
                     [obs |-> i, value |-> obs[i].value, by |-> who]]
  /\ UNCHANGED <<filing, documented, obs, nextObs, bulk, mixed>>

Manual(fact) == {i \in Live(obs) : obs[i].fact = fact /\ obs[i].source = "manual"}

\* mutant: the upsert leaves the copied value as it was
EditReadingOnly(fact, v, who) ==
  /\ Manual(fact) # {}
  /\ LET i == First(Manual(fact)) IN
     /\ obs' = [obs EXCEPT ![i].value = v]
     /\ canonical' = [canonical EXCEPT ![fact] =
          [obs |-> i, value |-> IF @ = None THEN v ELSE @.value, by |-> who]]
  /\ UNCHANGED <<filing, documented, nextObs, bulk, mixed>>
(* edit_value of a fact that has a manual reading: in place.                *)
Edit(fact, v, who) ==
  /\ Manual(fact) # {}
  /\ LET i == First(Manual(fact)) IN
     /\ obs' = [obs EXCEPT ![i].value = v]
     /\ canonical' = [canonical EXCEPT ![fact] =
                        [obs |-> i, value |-> v, by |-> who]]
  /\ UNCHANGED <<filing, documented, nextObs, bulk, mixed>>

(* edit_value of a fact that has none: a manual reading beside the others.  *)
EnterFirst(fact, v, who) ==
  /\ Manual(fact) = {} /\ nextObs <= MaxObs
  /\ \E f \in Anchors(fact[1]) :
       /\ filing' = Anchored(f)
       /\ obs' = [obs EXCEPT ![nextObs] =
            [fact |-> fact, source |-> "manual", filing |-> f,
             value |-> v]]
  /\ canonical' = [canonical EXCEPT ![fact] =
                     [obs |-> nextObs, value |-> v, by |-> who]]
  /\ nextObs' = nextObs + 1
  /\ Noted(obs')
  /\ UNCHANGED <<documented, bulk>>

(* derive_bulk of the whole corpus commits between its phases: documents    *)
(* first, then the observations of one concept at a time, then the choices. *)
BulkDocuments ==
  /\ ~Running
  /\ documented' = documented \cup {f \in Stored : Real(f)}
  /\ bulk' = [phase |-> "observations", left |-> Concepts]
  /\ UNCHANGED <<filing, obs, canonical, nextObs, mixed>>

BulkObservations(c) ==
  LET rows == DerivedRows(documented, {c}, TRUE)
      left == bulk.left \ {c} IN
  /\ bulk.phase = "observations" /\ c \in bulk.left /\ Room(rows)
  /\ obs' \in Numbered(rows)
  /\ nextObs' = nextObs + Cardinality(rows)
  /\ bulk' = IF left = {} THEN Bulk("canonical") ELSE [bulk EXCEPT !.left = left]
  /\ UNCHANGED <<filing, documented, canonical, mixed>>

BulkCanonical ==
  /\ bulk.phase = "canonical"
  /\ canonical' = ChosenInBulk(obs)
  /\ bulk' = Bulk("none")
  /\ UNCHANGED <<filing, documented, obs, nextObs, mixed>>

BulkDies ==
  /\ Running
  /\ bulk' = Bulk("cut")
  /\ mixed' = Facts
  /\ UNCHANGED tables

(* Opening the database fills the values of old canonical rows, a range at  *)
(* a time, and marks the end of the pass; a pass cut short starts over.     *)
Backfill(fact) ==
  /\ ~marker /\ canonical[fact] # None /\ canonical[fact].value \in Null
  /\ canonical' = [canonical EXCEPT ![fact].value = obs[canonical[fact].obs].value]
  /\ UNCHANGED <<filing, documented, obs, nextObs, bulk, mixed, marker>>
BackfillEnd ==
  /\ ~marker
  /\ \A fact \in Facts : canonical[fact] # None /\ canonical[fact].value \in Null
       => obs[canonical[fact].obs].value \in Null
  /\ marker' = TRUE
  /\ UNCHANGED <<tables, bulk, mixed>>

Operation ==
  \/ \E f \in Filings : Store(f) \/ Purge({f})
  \/ Purge(Stored)
  \/ Derive
  \/ \E p \in Periods, s \in {"manual", "audited"}, d \in [Concepts -> Raw \ {Junk}] :
       Record(p, s, d)
  \/ \E i \in Ids, who \in Editors : SetCanonical(i, who)
  \/ \E fact \in Facts, v \in Values \cup {NaN}, who \in Editors :
       Edit(fact, v, who) \/ EnterFirst(fact, v, who)
  \/ BulkDocuments \/ BulkCanonical \/ BulkDies
  \/ \E c \in Concepts : BulkObservations(c)

Next ==
  \/ marker /\ Operation /\ UNCHANGED marker
  \/ \E fact \in Facts : Backfill(fact)
  \/ BackfillEnd

Spec == Init /\ [][Next]_vars

-----------------------------------------------------------------------------
(* Reads.                                                                   *)

(* The value a report shows, through the chosen observation, and the value  *)
(* scoring reads, from the choice itself.                                   *)
Reported(fact) ==
  IF canonical[fact] = None THEN None ELSE obs[canonical[fact].obs].value
Scored(fact) ==
  IF canonical[fact] = None THEN None ELSE canonical[fact].value

(* The filings scoring visits: an anchor only where nothing else stands for *)
(* its period, and the period has a value.                                  *)
Visited ==
  {f \in Stored : Real(f) \/
     /\ ~ \E g \in Stored : g[1] = f[1] /\ Real(g)
     /\ \E c \in Concepts : Scored(<<f[1], c>>) \notin Null}

-----------------------------------------------------------------------------
(* Properties.                                                              *)

(***************************************************************************)
(* Scoring reads what the report shows: the copy of the value beside every  *)
(* choice is the value of a reading that exists and is of that fact,        *)
(* through edits, cascades, derivations and the backfill of old rows.       *)
(***************************************************************************)
CanonMatches ==
  marker => \A fact \in Facts : canonical[fact] # None =>
    /\ canonical[fact].obs \in Live(obs)
    /\ obs[canonical[fact].obs].fact = fact
    /\ Scored(fact) = Reported(fact)

(***************************************************************************)
(* A period with a value is scored: some filing scoring visits stands for   *)
(* it, a return or an anchor.                                               *)
(***************************************************************************)
Scoreable ==
  \A fact \in Facts : Scored(fact) \notin Null => \E f \in Visited : f[1] = fact[1]

CanonInv == TypeOK /\ CanonMatches /\ Scoreable

(***************************************************************************)
(* No fact loses its value: where a reading has one, something is chosen,   *)
(* outside a corpus-wide derivation and after one that was not cut short.   *)
(***************************************************************************)
EveryFactChosen ==
  bulk.phase = "none" =>
    \A fact \in Facts : Readings(obs, fact) # {} => canonical[fact] # None

(***************************************************************************)
(* What no person chose is the earliest valued reading that is left,        *)
(* whichever path chose it, except for facts others observed while a        *)
(* corpus-wide derivation was between its phases, and those whose choice is *)
(* a NaN, which no later value replaces.                                    *)
(***************************************************************************)
AutoIsFirst ==
  \A fact \in Facts \ mixed :
    canonical[fact] # None /\ canonical[fact].by = "auto" /\ canonical[fact].value # NaN
      => canonical[fact].obs = First(Readings(obs, fact))

RightlyChosen == EveryFactChosen /\ AutoIsFirst

(***************************************************************************)
(* A person's choice gives way only to a person or to the loss of the       *)
(* reading it names: no derivation, import or backfill takes it back.       *)
(***************************************************************************)
PersonStays ==
  [][\A fact \in Facts :
       /\ canonical[fact] # None /\ canonical[fact].by \in Editors
       /\ canonical'[fact] # canonical[fact]
       => \/ canonical'[fact] # None /\ canonical'[fact].by \in Editors
          \/ obs'[canonical[fact].obs] = None]_vars
=============================================================================
