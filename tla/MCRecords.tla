------------------------------ MODULE MCRecords ------------------------------
(***************************************************************************)
(* Model administration and the financial layer for TLC.  They share no     *)
(* table: a behaviour is one of Models or one of Financials, with the       *)
(* other's variables at rest.  Versions are interchangeable, and values.    *)
(***************************************************************************)
EXTENDS Models, TLC

CONSTANTS Periods, Concepts, Forms, Values, Junk, NaN, Editors, MaxObs
VARIABLES side, filing, documented, obs, canonical, nextObs, bulk, mixed, marker
facts == <<filing, documented, obs, canonical, nextObs, bulk, mixed, marker>>
F == INSTANCE Financials
ASSUME FinancialsDistinct == F!Distinct

NoFacts ==
  F!Fresh /\ bulk = F!Bulk("none") /\ mixed = {} /\ marker = FALSE
NoModels == Init /\ models = CHOOSE t \in Shipped : TRUE

RecordsInit ==
  \/ side = "models" /\ Init /\ NoFacts
  \/ side = "facts" /\ NoModels /\ F!Init
RecordsNext ==
  \/ side = "models" /\ Next /\ UNCHANGED <<facts, side>>
  \/ side = "facts" /\ F!Next /\ UNCHANGED <<vars, side>>
Records == RecordsInit /\ [][RecordsNext]_<<vars, facts, side>>

Symmetry == Permutations(Versions) \cup Permutations(Values)

(* Scoring reads what the report shows, and a period with a value is scored *)
(* (CanonInv of Financials).                                                *)
FactsCanonical == side = "facts" => F!CanonInv
(* Every valued fact keeps a choice, and one no person made is the first    *)
(* reading (RightlyChosen of Financials).                                   *)
FactsChosen == side = "facts" => F!RightlyChosen
(* A person's choice gives way only to a person or to the loss of its       *)
(* reading (PersonStays of Financials).                                     *)
FactsPersonStays == F!PersonStays
=============================================================================
