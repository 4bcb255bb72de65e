------------------------------ MODULE MCEngine ------------------------------
(* A small library of definitions, good and bad, for Engine.                *)
EXTENDS Engine

MCMaxRoot == One
(* The root of a rational, in fourths.                                      *)
MCRoot(v, n) ==
  Rat(Max({k \in 0..16 : v[2] * k^n <= v[1] * 4^n}), 4)

Return(y, form, x) == [year |-> y, form |-> form, reported |-> [c \in Concepts |-> x]]
MCReturns ==
  {Return(1, "990", 1), Return(1, "990T", None), Return(3, "990", 3)}
MCEntries == {[year |-> 1, concept |-> "rev", value |-> 0]}
In(kind, what) == [key |-> <<kind, what>>, missing |-> None]
Filling(kind, what, policy) == [key |-> <<kind, what>>, missing |-> policy]
Factor(name, type, inputs) ==
  [name |-> name, weight |-> 1, type |-> type, inputs |-> inputs,
   direction |-> "higher", lo |-> 0, hi |-> 4, scale |-> None]
Definition(version, kind, factors) ==
  [version |-> version, kind |-> kind, mode |-> "computed", applies |-> "both",
   missing |-> None, factors |-> factors]
Rev == In("concept", "rev")

Looking == Definition("1", "model",
  <<Factor("b", "ratio", <<In("number", 2), In("factor", "a")>>),
    Factor("a", "sum", <<Filling("concept", "rev", "closest_older")>>)>>)
Nonprofits == [Definition("1", "model",
  <<Factor("a", "coefficient_of_variation", <<Rev>>),
    Factor("m", "median", <<Rev, In("factor", "a")>>)>>)
  EXCEPT !.applies = "nonprofit"]
Composite == Definition("2", "composite", <<Factor("m", "sum", <<In("model", "1")>>)>>)
FillingComposite == [Composite EXCEPT !.missing = "newest"]
Super == Definition("3", "super_composite",
  <<Factor("s", "average", <<In("model", "2"), In("number", 1)>>)>>)

Short == Definition("1", "model", <<Factor("a", "ratio", <<Rev>>)>>)
Loop == Definition("1", "model",
  <<Factor("a", "sum", <<In("factor", "b")>>), Factor("b", "sum", <<In("factor", "a")>>)>>)
Flat == Definition("1", "model", <<[Factor("a", "sum", <<Rev>>) EXCEPT !.lo = 4]>>)
Mistyped == Definition("1", "model", <<[Factor("a", "sum", <<Rev>>) EXCEPT !.lo = Bad]>>)
Unknown == Definition("1", "model", <<Factor("a", "sum", <<In("factor", "z")>>)>>)
Twice == Definition("1", "model", <<Factor("a", "sum", <<Rev>>), Factor("a", "sum", <<Rev>>)>>)
Selfish == Definition("2", "composite", <<Factor("m", "sum", <<In("model", "2")>>)>>)
Graded == [Composite EXCEPT !.mode = "manual"]
ByHand == [Definition("1", "model",
             <<[Factor("g", None, None) EXCEPT !.scale = "percent"]>>) EXCEPT !.mode = "manual"]
MCSubmitted ==
  {Nonprofits, Looking, Composite, FillingComposite, Super,
   Short, Loop, Flat, Mistyped, Unknown, Twice, Selfish, Graded, ByHand}

-----------------------------------------------------------------------------
(* The formulas over bounded inputs, against what they are to mean.         *)
Inputs3 == {None, Num(-1), Zero, Rat(1, 2), Num(2)}
Given3 == {<<a, b, c>> : a, b, c \in Inputs3 \ {None}}
AtMost(a, b) == ~Less(b, a)

(* With every input given and none of them zero, every formula has a value. *)
ASSUME GivenGivesValue ==
  \A type \in DOMAIN Arity \ HistoricalTypes :
    Formula(type, [i \in 1..(IF Arity[type] = 0 THEN 3 ELSE Arity[type]) |-> Num(2)]) # None
ASSUME MiddleIsBetween ==
  \A x \in Given3 : \A type \in {"average", "median"} :
    /\ AtMost(Least(x), Formula(type, x)) /\ AtMost(Formula(type, x), Greatest(x))
    /\ Formula(type, x) = Formula(type, <<None>> \o Reverse(x))
ASSUME ClampStaysInside ==
  \A x \in Given3 : AtMost(x[2], x[3]) =>
    LET v == Formula("clamp", x) IN AtMost(x[2], v) /\ AtMost(v, x[3])
ASSUME DirectionsMirror ==
  \A raw \in Inputs3 \ {None} :
    LET f == Factor("a", "sum", <<Rev>>) IN
    Plus(Normalize(f, raw), Normalize([f EXCEPT !.direction = "lower"], raw)) = One
ASSUME HistoryBounds ==
  \A a, b \in {Zero, One, Num(2)} :
    LET s == <<a, b>> IN
    /\ AtMost(Historical("historical_min", s), Historical("running_average", s))
    /\ AtMost(Historical("running_average", s), Historical("historical_max", s))
    /\ Historical("cagr", s) = None <=> Zero \in {a, b}
    /\ Historical("historical_std_dev", s) = Zero <=> a = b
    /\ Historical("coefficient_of_variation", s) = None <=> a = Zero /\ b = Zero
(* The donor is a year with a value, and no other is nearer.                *)
ASSUME DonorIsNearest ==
  \A years \in SUBSET (1..4) \ {{}}, y \in 1..4 :
    /\ \A p \in {"newest", "oldest", "closest_older", "closest_newer"} :
         DonorYear(years, y, p) \in years
    /\ \A p \in {"closest_older", "closest_newer"}, z \in years :
         Abs(DonorYear(years, y, p) - y) <= Abs(z - y)
=============================================================================
