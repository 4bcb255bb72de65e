----------------------------- MODULE MCComponents -----------------------------
(***************************************************************************)
(* Components of which only safety is asked: Organizations, Connections,    *)
(* RateGate and SpawnGuard.  They share no state, so a behaviour is one of  *)
(* the component its first state picks, with the variables of the others at *)
(* rest.  The constants of Organizations are interchangeable.               *)
(***************************************************************************)
EXTENDS Organizations, TLC

VARIABLE side

CONSTANT Worker
VARIABLES step, secured, tx, stale, outside, carried, failed
connections == <<step, secured, tx, stale, outside, carried, failed>>
C == INSTANCE Connections

CONSTANTS Window, Limit
VARIABLES count, age, span, admitted, refused, answer
rate == <<count, age, span, admitted, refused, answer>>
R == INSTANCE RateGate

(* Two terminals that start and one that looks or stops, two daemons.       *)
CONSTANTS Starter, Looker, Pid, Torn, Faults
VARIABLES lockfile, pidfile, at, seen, child, daemon, raced
spawn == <<lockfile, pidfile, at, seen, child, daemon, raced>>
S == INSTANCE SpawnGuard

ASSUME ComponentsAssumption == R!Positive /\ S!SpawnAssumption

-------------------------------------------------------------------------------
ComponentsInit ==
  /\ side \in {"directory", "connections", "rate", "spawn"}
  /\ Init /\ C!Init /\ R!Init /\ S!Init
ComponentsNext ==
  /\ UNCHANGED side
  /\ \/ side = "directory" /\ UNCHANGED <<connections, rate, spawn>>
          /\ (Next \/ (ops = MaxOps /\ UNCHANGED vars))  \* the bound is used up
     \/ side = "connections" /\ C!Next /\ UNCHANGED <<vars, rate, spawn>>
     \/ side = "rate" /\ R!Next /\ UNCHANGED <<vars, connections, spawn>>
     \/ side = "spawn" /\ S!Next /\ UNCHANGED <<vars, connections, rate>>
all == <<side, vars, connections, rate, spawn>>
Components == ComponentsInit /\ [][ComponentsNext]_all

Symmetric ==
  Permutations(Eins) \cup Permutations(Names) \cup Permutations(ZipCodes)
    \cup Permutations(Counties) \cup Permutations(Threads)

-------------------------------------------------------------------------------
(* A writer waits for the lock; what fails without a writer comes after    *)
(* another error on its connection (Connections).                           *)
FailsBehindWriter == C!FailsBehindWriter
(* A secured handler never works on top of another request's open writes.   *)
SecuredStartsClean == side = "connections" => C!SecuredStartsClean

(* At most twice the limit passes in any window, and a caller that is       *)
(* refused is let in after one (RateGate).                                  *)
RateHolds == side = "rate" => R!AtMostTwice /\ R!RefusedForAWindow

(* The lock file excludes: one start at most is between taking it and       *)
(* removing it, and no start removes another's lock (SpawnGuard).           *)
LockInv == side = "spawn" => S!LockInv

(* While commands do not overlap, one daemon runs and the pid file names it.*)
AloneIsGuarded == side = "spawn" => S!AloneIsGuarded
===============================================================================
