---------------------------- MODULE Definitions ----------------------------
(***************************************************************************)
(* What models.py lets become a scoring model: validate_toml over a parsed *)
(* definition, and the check of a composite's children against the models  *)
(* already registered.                                                     *)
(***************************************************************************)
EXTENDS Formulas

CONSTANTS
  Versions,   \* well-formed version strings
  Concepts,   \* the concept codes of _PATHS
  Bad         \* a value of the wrong type

(* A definition: [version, kind, mode, applies, missing, factors], a factor *)
(* [name, weight, type, inputs, direction, lo, hi, scale], an input         *)
(* [key, missing].  What the file leaves out is None.                       *)
Modes == {"computed", "manual"}
Kinds == {"model", "composite", "super_composite"}
ChildKind == [composite |-> "model", super_composite |-> "composite"]
AppliesTo == {"nonprofit", "foundation", "both"}
Strategies == {"none", "newest", "oldest", "closest_older", "closest_newer", "value"}
Scales == {"benchmark", "normalized", "percent"}

Factors(d) == {d.factors[i] : i \in DOMAIN d.factors}
Inputs(f) == {f.inputs[i] : i \in DOMAIN f.inputs}
Keys(f) == {e.key : e \in Inputs(f)}
Names(d) == {f.name : f \in Factors(d)}
Given(f, fields) == \A k \in fields : f[k] # None
DistinctNames(d) ==
  \A i, j \in DOMAIN d.factors : d.factors[i].name = d.factors[j].name => i = j
WeightOK(f) == f.weight \in Int /\ f.weight >= 0
BenchmarksOK(f) ==
  /\ f.direction \in {"higher", "lower"}
  /\ f.lo \in Int /\ f.hi \in Int
  /\ f.lo < f.hi

FactorRefs(f) == {k[2] : k \in {key \in Keys(f) : key[1] = "factor"}}
ModelRefs(d) ==
  {k[2] : k \in {key \in UNION {Keys(f) : f \in Factors(d)} : key[1] = "model"}}
FactorGraph(d) ==
  [n \in Names(d) |-> UNION {FactorRefs(f) : f \in {g \in Factors(d) : g.name = n}}]
(* Nodes outside the graph have no outgoing edges.                          *)
Cyclic(deps) ==
  \E S \in SUBSET DOMAIN deps : S # {} /\ \A n \in S : deps[n] \cap S # {}

(* A factor a person grades.                                                *)
ManualFactorOK(f) ==
  /\ Given(f, {"name", "weight", "scale"})
  /\ WeightOK(f)
  /\ f.type \in {None, "manual"}
  /\ f.inputs \in {None, << >>}
  /\ f.scale \in Scales
  /\ f.scale = "benchmark" => BenchmarksOK(f)

KeyOK(d, key) ==
  \/ key[1] = "number"
  \/ key[1] = "factor" /\ key[2] \in Names(d)
  \/ key[1] = "model" /\ d.kind # "model" /\ key[2] \in Versions
  \/ key[1] = "concept" /\ d.kind = "model" /\ key[2] \in Concepts
\* mutant: the number of inputs is not compared with what the formula takes
KeysOnly(d, f) == \A e \in Inputs(f) : KeyOK(d, e.key) /\ e.missing \in Strategies \cup {None}
InputsOK(d, f) ==
  /\ \A e \in Inputs(f) : KeyOK(d, e.key) /\ e.missing \in Strategies \cup {None}
  /\ IF Arity[f.type] = 0 THEN f.inputs # << >> ELSE Len(f.inputs) = Arity[f.type]

(* A factor a formula computes.                                             *)
FactorOK(d, f) ==
  /\ Given(f, {"name", "weight", "type", "inputs", "direction", "lo", "hi"})
  /\ f.scale = None
  /\ WeightOK(f)
  /\ f.type \in DOMAIN Arity
  /\ InputsOK(d, f)
  /\ BenchmarksOK(f)

(* No entry of the list of issues is an error.                              *)
Accepted(d) ==
  /\ d.version \in Versions
  /\ d.mode \in Modes /\ d.kind \in Kinds
  /\ d.applies \in AppliesTo
  /\ d.missing \in Strategies \cup {None}
  /\ d.mode = "manual" => d.kind = "model"
  /\ d.factors # << >>
  /\ DistinctNames(d)
  /\ IF d.mode = "manual" THEN \A f \in Factors(d) : ManualFactorOK(f)
     ELSE /\ \A f \in Factors(d) : FactorOK(d, f)
          /\ d.kind \in DOMAIN ChildKind => ModelRefs(d) # {}
          /\ ~Cyclic(FactorGraph(d))

(* _validate_composite_refs against the registered models.                  *)
ChildrenOK(library, archived, d) ==
  d.kind \in DOMAIN ChildKind =>
    \A v \in ModelRefs(d) :
      /\ library[v] # None /\ library[v].factors # << >>
      /\ library[v].mode = "computed" /\ v \notin archived
      /\ library[v].kind = ChildKind[d.kind]
=============================================================================
