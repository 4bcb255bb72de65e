----------------------------- MODULE MCProcesses -----------------------------
(***************************************************************************)
(* What must end: a background start (SpawnGuard) and a request that writes *)
(* accounts or sessions (UserAdmin).  They share no state, so a behaviour   *)
(* is one of the component its first state picks, with the variables of the *)
(* other at rest.  A third kind of behaviour has what may take the last     *)
(* administrator away: a thread and a CLI process that may call each method *)
(* on users, roles and grants, over one founder, a user and a role to be    *)
(* created.                                                                 *)
(***************************************************************************)
EXTENDS UserAdmin

VARIABLE side

(* Two terminals that start a background ingest, two daemons.               *)
CONSTANTS Starter, Looker, Pid, Torn, Faults
VARIABLES lockfile, pidfile, at, seen, child, daemon, overlapped
start == <<lockfile, pidfile, at, seen, child, daemon, overlapped>>
S == INSTANCE SpawnGuard WITH raced <- overlapped

(* The starters are alike, and so are the server's threads: in what is said *)
(* of them, one stands for all.                                             *)
CONSTANTS s1, w1

CONSTANTS alice, k
A == INSTANCE UserAdmin WITH
  Worker <- {w1, k}, Cli <- {k}, KeyRoles <- {}, Founders <- {alice},
  FirstRoles <- {AdminRole}, MaxPw <- 0,
  Ops <- {"deactivate", "activate", "assign_role", "revoke_role", "delete_role",
          "grant_permission", "revoke_permission", "create_user", "create_role"}
ASSUME ProcessesAssumption == A!UserAssumption /\ S!SpawnAssumption

-------------------------------------------------------------------------------
ProcessesInit ==
  /\ S!Init
  /\ \/ side \in {"start", "accounts"} /\ Init
     \/ side = "admins" /\ A!Init
ProcessesNext ==
  /\ UNCHANGED side
  /\ \/ side = "start" /\ S!Next /\ UNCHANGED vars
     \/ side = "accounts" /\ Next /\ UNCHANGED start
     \/ side = "admins" /\ A!Next /\ UNCHANGED start
all == <<side, start, vars>>
(* The fairness of the first two, each about its own behaviours.                  *)
Fair ==
  /\ \A c \in S!Caller :
       WF_start(side = "start" /\ (S!Probe(c) \/ S!RemoveStale(c) \/ S!Stop(c)))
  /\ \A t \in Starter : WF_start(side = "start" /\ S!Starts(t))
  /\ \A p \in Pid : WF_start(side = "start" /\ S!ComesUp(p))
  /\ \A w \in Worker : WF_vars(side = "accounts" /\ GoesOn(w))
Processes == ProcessesInit /\ [][ProcessesNext]_all /\ Fair

-------------------------------------------------------------------------------
(* One background ingest runs at a time (acquire_spawn_lock: otherwise "two *)
(* daemons fighting over the exclusive DB lock").                           *)
OneRunning == S!OneRunning
(* A start ends, also when its daemon dies before it has reported.          *)
StartOfOneEnds == at[s1] = "checked" ~> at[s1] = "idle"
(* A request ends, even when an idle worker holds the write lock.           *)
RequestOfOneEnds ==
  side = "accounts" /\ req[w1].step \in {"write", "audit"} ~> req[w1] = Step("idle")
===============================================================================
