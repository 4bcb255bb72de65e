------------------------------ MODULE Formulas ------------------------------
(***************************************************************************)
(* What a factor of a scoring model computes (scoring/engine.py): its      *)
(* inputs resolved for one year, holes filled from other years where a     *)
(* missing-data policy says so, the formula, and the value mapped to [0,1] *)
(* by the factor's benchmarks.  Values are exact rationals <<n, d>>, d > 0,*)
(* where the code has floats; what of a float can raise is kept: the square*)
(* of a large deviation.                                                   *)
(***************************************************************************)
EXTENDS Integers, Sequences, SequencesExt, FiniteSetsExt

CONSTANTS
  None,        \* a value that is missing, an option that is not given
  Root(_, _),  \* Root(v, n): the n-th root of v as a float
  MaxRoot      \* the largest rational whose square is a float

-----------------------------------------------------------------------------
(* Rationals.                                                               *)

Gcd[a \in Nat, b \in Nat] == IF b = 0 THEN a ELSE Gcd[b, a % b]
Abs(n) == IF n < 0 THEN -n ELSE n
Rat(n, d) ==
  LET g == Gcd[Abs(n), Abs(d)] IN
  IF d < 0 THEN <<(-n) \div g, (-d) \div g>> ELSE <<n \div g, d \div g>>
Num(n) == <<n, 1>>
Zero == Num(0)
One == Num(1)
Plus(a, b) == Rat(a[1] * b[2] + b[1] * a[2], a[2] * b[2])
Minus(a, b) == Rat(a[1] * b[2] - b[1] * a[2], a[2] * b[2])
Times(a, b) == Rat(a[1] * b[1], a[2] * b[2])
Over(a, b) == Rat(a[1] * b[2], a[2] * b[1])
Less(a, b) == a[1] * b[2] < b[1] * a[2]
Lesser(a, b) == IF Less(a, b) THEN a ELSE b
Greater(a, b) == IF Less(a, b) THEN b ELSE a
Magnitude(a) == <<Abs(a[1]), a[2]>>
Total(s) == FoldLeft(Plus, Zero, s)
Mean(s) == Over(Total(s), Num(Len(s)))
Least(s) == FoldLeft(Lesser, Head(s), s)
Greatest(s) == FoldLeft(Greater, Head(s), s)

-----------------------------------------------------------------------------
(* The formula types, the number of inputs of each (0: one or more), and    *)
(* for those of fixed length the inputs that must be there and the divisor. *)

Arity ==
  [ratio |-> 2, ratio_positive |-> 2, growth |-> 2, working_capital |-> 4,
   sum_ratio |-> 3, difference |-> 2, product |-> 2, clamp |-> 3,
   abs_value |-> 1, inverse |-> 1,
   sum |-> 0, average |-> 0, min |-> 0, max |-> 0, median |-> 0,
   running_average |-> 1, cumulative_sum |-> 1, historical_min |-> 1,
   historical_max |-> 1, cagr |-> 1, historical_std_dev |-> 1,
   coefficient_of_variation |-> 1]
HistoricalTypes ==
  {"running_average", "cumulative_sum", "historical_min", "historical_max",
   "cagr", "historical_std_dev", "coefficient_of_variation"}
Needs ==
  [ratio |-> {1}, ratio_positive |-> {1}, growth |-> {1}, working_capital |-> {},
   sum_ratio |-> {1, 2}, difference |-> {1, 2}, product |-> {1, 2},
   clamp |-> {1, 2, 3}, abs_value |-> {1}, inverse |-> {}]
Divisor ==
  [ratio |-> 2, ratio_positive |-> 2, growth |-> 2, working_capital |-> 4,
   sum_ratio |-> 3, inverse |-> 1]

\* mutant: a divisor that is zero is not looked for
ComputableByZero(type, x) ==
  /\ \A i \in Needs[type] : x[i] # None
  /\ type \in DOMAIN Divisor => x[Divisor[type]] # None
  /\ type = "ratio_positive" => Less(Zero, x[2])
(* A divisor that is missing or zero, or an input that is missing, gives no *)
(* value; working_capital takes a missing balance as zero.                  *)
Computable(type, x) ==
  /\ \A i \in Needs[type] : x[i] # None
  /\ type \in DOMAIN Divisor => x[Divisor[type]] \notin {None, Zero}
  /\ type = "ratio_positive" => Less(Zero, x[2])
OrZero(v) == IF v = None THEN Zero ELSE v
(* Where Python raises if it computes all the same: an input that is not    *)
(* given, arithmetic with None, a division by zero.                         *)
Operands ==
  [ratio |-> {1, 2}, ratio_positive |-> {1, 2}, growth |-> {1, 2},
   working_capital |-> {4}, sum_ratio |-> {1, 2, 3}, difference |-> {1, 2},
   product |-> {1, 2}, clamp |-> {1, 2, 3}, abs_value |-> {1}, inverse |-> {1}]
FixedRaises(type, x) ==
  \/ \E i \in Operands[type] : x[i] = None
  \/ type \in DOMAIN Divisor /\ x[Divisor[type]] = Zero
Fixed(type, x) ==
  CASE type \in {"ratio", "ratio_positive"} -> Over(x[1], x[2])
    [] type = "growth"          -> Minus(Over(x[1], x[2]), One)
    [] type = "difference"      -> Minus(x[1], x[2])
    [] type = "product"         -> Times(x[1], x[2])
    [] type = "clamp"           -> Greater(x[2], Lesser(x[3], x[1]))
    [] type = "working_capital" ->
         Over(Minus(Plus(OrZero(x[1]), OrZero(x[2])), OrZero(x[3])), x[4])
    [] type = "sum_ratio"       -> Over(Plus(x[1], x[2]), x[3])
    [] type = "abs_value"       -> Magnitude(x[1])
    [] type = "inverse"         -> Over(One, x[1])

Median(s) ==
  LET t == SortSeq(s, Less)
      mid == Len(t) \div 2 + 1
  IN IF Len(t) % 2 = 1 THEN t[mid] ELSE Over(Plus(t[mid - 1], t[mid]), Num(2))
(* Formulas of any length skip what is missing.                             *)
Variadic(type, s) ==
  CASE type = "sum"     -> Total(s)
    [] type = "average" -> Mean(s)
    [] type = "min"     -> Least(s)
    [] type = "max"     -> Greatest(s)
    [] type = "median"  -> Median(s)

(* Over all years.                                                          *)
Deviations(s) == [i \in DOMAIN s |-> Minus(s[i], Mean(s))]
Deviation(s) == Root(Mean([i \in DOMAIN s |-> Times(Deviations(s)[i], Deviations(s)[i])]), 2)
Several(s) == Len(s) >= 2
HistoryGiven(type, s) ==
  /\ s # << >>
  /\ type = "cagr" => Several(s) /\ Less(Zero, s[1]) /\ Less(Zero, s[Len(s)])
  /\ type = "coefficient_of_variation" => Mean(s) # Zero
(* Where Python raises: a division by zero, an element that is not there, a *)
(* root of a negative quotient, which is complex and has no order, and the  *)
(* square of a deviation that is too large for a float.                     *)
Overflows(type, s) ==
  /\ type \in {"historical_std_dev", "coefficient_of_variation"}
  /\ \E i \in DOMAIN s : Less(MaxRoot, Magnitude(Deviations(s)[i]))
HistoryRaises(type, s) ==
  \/ s = << >> /\ type # "cumulative_sum"
  \/ type = "cagr" /\ \/ ~Several(s) \/ s[1] = Zero
                      \/ /\ Len(s) > 2 /\ s[Len(s)] # Zero
                         /\ Less(Zero, s[1]) # Less(Zero, s[Len(s)])
  \/ type = "coefficient_of_variation" /\ Mean(s) = Zero
  \/ Overflows(type, s)
Historical(type, s) ==
  CASE ~HistoryGiven(type, s) \/ HistoryRaises(type, s) -> None
    [] type = "running_average"    -> Mean(s)
    [] type = "cumulative_sum"     -> Total(s)
    [] type = "historical_min"     -> Least(s)
    [] type = "historical_max"     -> Greatest(s)
    [] type = "historical_std_dev" -> Deviation(s)
    [] type = "coefficient_of_variation" -> Over(Deviation(s), Magnitude(Mean(s)))
    [] type = "cagr" -> Minus(Root(Over(s[Len(s)], s[1]), Len(s) - 1), One)

FormulaRaises(type, x) ==
  Arity[type] # 0 /\ (Len(x) < Arity[type] \/ (Computable(type, x) /\ FixedRaises(type, x)))
Formula(type, x) ==
  IF Arity[type] = 0
  THEN LET s == SelectSeq(x, LAMBDA v : v # None)
       IN IF s = << >> THEN None ELSE Variadic(type, s)
  ELSE IF ~FormulaRaises(type, x) /\ Computable(type, x) THEN Fixed(type, x) ELSE None

Clamped(v) == Greater(Zero, Lesser(One, v))
Normalize(f, raw) ==
  IF raw = None \/ f.hi = f.lo THEN Zero
  ELSE LET span == Num(f.hi - f.lo) IN
       Clamped(IF f.direction = "higher"
               THEN Over(Minus(raw, Num(f.lo)), span)
               ELSE Over(Minus(Num(f.hi), raw), span))

-----------------------------------------------------------------------------
(* Inputs.  A key is <<kind, what>>: a financial concept, another factor,   *)
(* another model or a number; an input may carry its own policy.            *)

Policy(input, default) ==
  IF input.missing # None THEN input.missing
  ELSE IF default # None THEN default ELSE "none"
Fills(f, default) == \E i \in DOMAIN f.inputs : Policy(f.inputs[i], default) # "none"

(* What a year offers: concept values, the history of each concept, totals  *)
(* of models that have one; done holds the factors so far.                  *)
Missing(key, env, done) ==
  CASE key[1] = "number"  -> FALSE
    [] key[1] = "concept" -> env.vals[key[2]] = None
    [] key[1] = "factor"  -> done[key[2]] = None
    [] key[1] = "model"   -> key[2] \notin DOMAIN env.totals
Resolve(key, env, done) ==
  CASE key[1] = "number"  -> Num(key[2])
    [] key[1] = "concept" -> env.vals[key[2]]
    [] key[1] = "factor"  -> done[key[2]]
    [] key[1] = "model"   -> IF Missing(key, env, done) THEN None ELSE env.totals[key[2]]

(* A series is a function on the years that have a value.                   *)
DonorYear(years, year, policy) ==
  LET near == {y \in years : \A z \in years : Abs(y - year) <= Abs(z - year)}
  IN CASE policy = "newest" -> Max(years)
       [] policy = "oldest" -> Min(years)
       [] policy = "closest_older" -> Min(near)
       [] policy = "closest_newer" -> Max(near)

Real(v) == [value |-> v, filled |-> FALSE]
NoFill == [allowed |-> FALSE]
(* _resolve_input_filled: a number or another factor is never filled from a  *)
(* series, and a constant stands for value:<x>.                             *)
Filled(input, env, done, fill) ==
  LET policy == Policy(input, fill.default)
      series == CASE input.key[1] = "concept" -> fill.concepts[input.key[2]]
                  [] input.key[1] = "model"   -> fill.models[input.key[2]]
                  [] OTHER -> << >>
  IN IF ~fill.allowed \/ ~Missing(input.key, env, done) \/ policy = "none"
     THEN Real(Resolve(input.key, env, done))
     ELSE IF policy = "value" THEN [value |-> One, filled |-> TRUE]
     ELSE IF DOMAIN series = {} THEN Real(None)
     ELSE [value |-> series[DonorYear(DOMAIN series, env.year, policy)], filled |-> TRUE]

(* One factor: its raw value, whether an input of it was filled and whether *)
(* computing it raises.  A historical formula reads its concept over all    *)
(* years and never fills.                                                   *)
HistoryOf(f, env) ==
  IF f.inputs[1].key[1] = "concept" THEN env.history[f.inputs[1].key[2]] ELSE << >>
Resolved(f, env, done, fill) ==
  [i \in DOMAIN f.inputs |-> Filled(f.inputs[i], env, done, fill)]
Taken(in) == [i \in DOMAIN in |-> in[i].value]
FromHistory(f, s) ==
  [value |-> Historical(f.type, s), filled |-> FALSE,
   raised |-> HistoryGiven(f.type, s) /\ HistoryRaises(f.type, s)]
FromInputs(f, in) ==
  [value |-> Formula(f.type, Taken(in)), filled |-> \E i \in DOMAIN in : in[i].filled,
   raised |-> FormulaRaises(f.type, Taken(in))]
ComputeFactor(f, env, done, fill) ==
  IF f.type \in HistoricalTypes THEN FromHistory(f, HistoryOf(f, env))
  ELSE FromInputs(f, Resolved(f, env, done, fill))
=============================================================================
