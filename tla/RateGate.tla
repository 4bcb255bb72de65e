-------------------------------- MODULE RateGate --------------------------------
(***************************************************************************)
(* The rate limit of one key: _is_rate_limited of src/server/server.py.     *)
(*                                                                         *)
(* All threads count the requests of a key under one lock, so a request is  *)
(* one step.  Keys are counted apart and users have no limit, so one key is *)
(* enough.  Time passes in ticks, Window of which make _RATE_WINDOW.  An    *)
(* observer counts what is let in during a window that begins at a tick of  *)
(* its choice.                                                              *)
(***************************************************************************)
EXTENDS Integers

CONSTANTS Window, Limit

Positive == Window \in Nat /\ Limit \in Nat \ {0}

Past == Window + 1  \* bound: times past the window are all alike

VARIABLES
  count,    \* entry[0], up to the first refusal
  age,      \* now - entry[1]; past the window while the key has no entry
  span,     \* history: ticks since the observer began; past the window it has ended
  admitted, \* history: how many requests were let in while the observer watched
  refused,  \* history: ticks since the first of the latest refusals in a row, or -1
  answer    \* history: what the latest request of this tick was told

vars == <<count, age, span, admitted, refused, answer>>

TypeOK ==
  /\ count \in 0..(Limit + 1)
  /\ age \in 0..Past
  /\ span \in 0..Past
  /\ admitted \in Nat
  /\ refused \in -1..Past
  /\ answer \in {"none", "200", "429"}

Init ==
  /\ count = 0 /\ age = Past
  /\ span = 0 /\ admitted = 0
  /\ refused = -1 /\ answer = "none"

Later(n) == IF n < Past THEN n + 1 ELSE Past

Tick ==
  /\ age' = Later(age)
  /\ \/ span' = Later(span) /\ UNCHANGED admitted
     \/ span' = 0 /\ admitted' = 0
  /\ refused' = IF refused < 0 THEN refused ELSE Later(refused)
  /\ answer' = "none"
  /\ UNCHANGED count

\* a new window begins
Over == age > Window

\* mutant of Within: the count is compared before it is increased
WithinBefore(c) == c - 1 <= Limit

Within(c) == c <= Limit

Request ==
  LET c == IF Over THEN 1 ELSE IF count <= Limit THEN count + 1 ELSE count IN
  /\ count' = c
  /\ age' = IF Over THEN 0 ELSE age
  /\ IF Within(c)
     THEN /\ admitted' = IF span <= Window THEN admitted + 1 ELSE admitted
          /\ refused' = -1 /\ answer' = "200"
     ELSE /\ refused' = IF refused < 0 THEN 0 ELSE refused
          /\ answer' = "429" /\ UNCHANGED admitted
  /\ UNCHANGED span

Next == Tick \/ Request

Spec == Init /\ [][Next]_vars

-------------------------------------------------------------------------------

(***************************************************************************)
(* A burst across the end of a window passes twice the limit at most, in    *)
(* whatever window it is watched.                                           *)
(***************************************************************************)
AtMostTwice == admitted <= 2 * Limit

(***************************************************************************)
(* Refused requests count, but do not keep a caller out: no request is      *)
(* refused more than a window after the first of the refusals in a row, as  *)
(* the Retry-After of the answer promises.                                  *)
(***************************************************************************)
RefusedForAWindow == answer = "429" => refused <= Window

(***************************************************************************)
(* Their inductive form: the present window admits no more than it counts,  *)
(* and the observer has met no more than one window before it; refusals     *)
(* belong to the present window.                                            *)
(***************************************************************************)
RateInv ==
  /\ TypeOK
  /\ AtMostTwice
  /\ span <= Window =>
       admitted <= (IF span > age THEN Limit ELSE 0) + (IF count < Limit THEN count ELSE Limit)
  /\ span = 0 /\ Over => admitted = 0
  /\ refused <= age
  /\ answer = "429" => ~Over
===============================================================================
