------------------------------- MODULE SpawnGuard -------------------------------
(***************************************************************************)
(* Starting the background ingest: src/daemon.py and                        *)
(* _cmd_ingest_background of src/ingest.py.                                 *)
(*                                                                         *)
(* `openreturn ingest --background` looks for a running daemon, takes a     *)
(* lock file, forks the daemon, waits on a pipe until it has written its    *)
(* pid file, and removes the lock file.  Other commands (status, --stop,    *)
(* purge) only look, which removes a pid file that names no live process.   *)
(* Every file operation is a step of its own.  A command or a daemon may be *)
(* killed at any point, a command may be interrupted while it waits.  A     *)
(* process id is used once (the bound on the number of daemons).            *)
(***************************************************************************)
EXTENDS FiniteSets

CONSTANTS
  Starter,       \* terminals that start a background ingest, again and again
  Looker,        \* terminals that only look for one
  Pid, None, Torn,
  Faults         \* whether processes are killed and commands interrupted

(* What the modules that instantiate this one assume of its constants.       *)
SpawnAssumption ==
  /\ None # Torn /\ {None, Torn} \cap Pid = {}
  /\ Starter \cap Looker = {} /\ Faults \in BOOLEAN

Caller == Starter \cup Looker

VARIABLES
  lockfile,  \* ingest.pid.lock exists
  pidfile,   \* None: no ingest.pid, Torn: it is truncated
  at,        \* where a command is
  seen,      \* the pid a command has read
  child,     \* the daemon a start has forked
  daemon,    \* the life of each process
  raced      \* history: two commands overlapped, or one was interrupted

vars == <<lockfile, pidfile, at, seen, child, daemon, raced>>

Starting == {"born", "writing", "written"}
Alive(p) == daemon[p] \in Starting \cup {"running", "ending"}

TypeOK ==
  /\ lockfile \in BOOLEAN
  /\ pidfile \in Pid \cup {None, Torn}
  /\ at \in [Caller -> {"idle", "read", "remove", "stop", "checked", "locked",
                        "waiting", "release", "exit"}]
  /\ seen \in [Caller -> Pid \cup {None}]
  /\ child \in [Caller -> Pid \cup {None}]
  /\ daemon \in [Pid -> Starting \cup {"unused", "running", "ending", "dead"}]
  /\ raced \in BOOLEAN

Init ==
  /\ lockfile = FALSE /\ pidfile = None
  /\ at = [c \in Caller |-> "idle"]
  /\ seen = [c \in Caller |-> None]
  /\ child = [c \in Caller |-> None]
  /\ daemon = [p \in Pid |-> "unused"]
  /\ raced = FALSE

Goes(c, where) == at' = [at EXCEPT ![c] = where]
Becomes(p, state) == daemon' = [daemon EXCEPT ![p] = state]

-------------------------------------------------------------------------------
(***************************************************************************)
(* running_daemon: read the pid file, probe the process, remove the file.   *)
(***************************************************************************)

\* nobody runs: a start goes on, any other command ends
Absent(c) == Goes(c, IF c \in Starter THEN "checked" ELSE "idle")

\* no file, or one that does not parse, is nobody
Read(c) ==
  /\ at[c] = "idle"
  /\ IF pidfile \in Pid
     THEN Goes(c, "read") /\ seen' = [seen EXCEPT ![c] = pidfile]
     ELSE Absent(c) /\ UNCHANGED seen
  /\ raced' = (raced \/ \E d \in Caller \ {c} : at[d] # "idle")
  /\ UNCHANGED <<lockfile, pidfile, child, daemon>>

Probe(c) ==
  /\ at[c] = "read"
  /\ IF Alive(seen[c])
     THEN Goes(c, "idle") \/ (c \in Looker /\ Goes(c, "stop"))
     ELSE Goes(c, "remove")
  /\ UNCHANGED <<lockfile, pidfile, seen, child, daemon, raced>>

\* --stop signals the process it has found, whose run may end at any time anyhow,
\* and removes the file when it is gone
Stop(c) ==
  /\ at[c] = "stop"
  /\ Goes(c, "idle")
  /\ pidfile' = IF Alive(seen[c]) THEN pidfile ELSE None
  /\ UNCHANGED <<lockfile, seen, child, daemon, raced>>

\* whatever the file says by now
RemoveStale(c) ==
  /\ at[c] = "remove"
  /\ pidfile' = None
  /\ Absent(c)
  /\ UNCHANGED <<lockfile, seen, child, daemon, raced>>

-------------------------------------------------------------------------------
(***************************************************************************)
(* The start.                                                               *)
(***************************************************************************)

\* the directory or the log file is no good
GiveUp(s) ==
  /\ at[s] = "checked"
  /\ Goes(s, "idle")
  /\ UNCHANGED <<lockfile, pidfile, seen, child, daemon, raced>>

\* mutant of AcquireLock: the lock file is opened without O_EXCL
AcquireAnyway(s) ==
  /\ at[s] = "checked"
  /\ lockfile' = TRUE /\ Goes(s, "locked")
  /\ UNCHANGED <<pidfile, seen, child, daemon, raced>>

AcquireLock(s) ==
  /\ at[s] = "checked"
  /\ lockfile' = TRUE
  /\ Goes(s, IF lockfile THEN "idle" ELSE "locked")
  /\ UNCHANGED <<pidfile, seen, child, daemon, raced>>

\* a daemon that could not be forked reports nothing
Fork(s) ==
  /\ at[s] = "locked"
  /\ \/ \E p \in Pid :
          /\ daemon[p] = "unused" /\ Becomes(p, "born")
          /\ child' = [child EXCEPT ![s] = p]
          /\ Goes(s, "waiting")
     \/ Goes(s, "release") /\ UNCHANGED <<child, daemon>>
  /\ UNCHANGED <<lockfile, pidfile, seen, raced>>

\* mutant of Told: the start does not read the pipe
ToldAtOnce(p) == TRUE

\* mutant of Told: a daemon that dies before it reports is waited for
ToldOnly(p) == daemon[p] \in {"running", "ending"}

\* the pipe has the pid, or its other end is gone
Told(p) == daemon[p] \notin Starting

Return(s) ==
  /\ at[s] = "waiting" /\ Told(child[s])
  /\ Goes(s, "release")
  /\ UNCHANGED <<lockfile, pidfile, seen, child, daemon, raced>>

Interrupt(s) ==
  /\ Faults /\ at[s] = "waiting"
  /\ Goes(s, "release")
  /\ raced' = TRUE
  /\ UNCHANGED <<lockfile, pidfile, seen, child, daemon>>

Release(s) ==
  /\ at[s] = "release"
  /\ lockfile' = FALSE
  /\ Goes(s, "exit")
  /\ UNCHANGED <<pidfile, seen, child, daemon, raced>>

Exit(s) ==
  /\ at[s] = "exit"
  /\ Goes(s, "idle")
  /\ child' = [child EXCEPT ![s] = None]
  /\ UNCHANGED <<lockfile, pidfile, seen, daemon, raced>>

\* a lock file it holds stays
KillCaller(c) ==
  /\ Faults /\ at[c] # "idle"
  /\ Goes(c, "idle")
  /\ child' = [child EXCEPT ![c] = None]
  /\ UNCHANGED <<lockfile, pidfile, seen, daemon, raced>>

-------------------------------------------------------------------------------
(***************************************************************************)
(* The daemon.                                                              *)
(***************************************************************************)

\* write_pidfile truncates the file, then writes it
Truncate(p) ==
  /\ daemon[p] = "born" /\ Becomes(p, "writing")
  /\ pidfile' = Torn
  /\ UNCHANGED <<lockfile, at, seen, child, raced>>

WritePid(p) ==
  /\ daemon[p] = "writing" /\ Becomes(p, "written")
  /\ pidfile' = p
  /\ UNCHANGED <<lockfile, at, seen, child, raced>>

\* with nobody at the other end of the pipe the daemon exits, and its file stays
Report(p) ==
  /\ daemon[p] = "written"
  /\ Becomes(p, IF \E s \in Starter : child[s] = p THEN "running" ELSE "dead")
  /\ UNCHANGED <<lockfile, pidfile, at, seen, child, raced>>

\* the ingest has ended or failed
Finish(p) ==
  /\ daemon[p] = "running" /\ Becomes(p, "ending")
  /\ pidfile' = None
  /\ UNCHANGED <<lockfile, at, seen, child, raced>>

EndProcess(p) ==
  /\ daemon[p] = "ending" /\ Becomes(p, "dead")
  /\ UNCHANGED <<lockfile, pidfile, at, seen, child, raced>>

KillDaemon(p) ==
  /\ Faults /\ Alive(p) /\ Becomes(p, "dead")
  /\ UNCHANGED <<lockfile, pidfile, at, seen, child, raced>>

Looks(c) == Read(c) \/ Probe(c) \/ RemoveStale(c) \/ Stop(c)

Starts(s) ==
  GiveUp(s) \/ AcquireLock(s) \/ Fork(s) \/ Return(s) \/ Release(s) \/ Exit(s)

ComesUp(p) == Truncate(p) \/ WritePid(p) \/ Report(p)

Next ==
  \/ \E c \in Caller : Looks(c) \/ KillCaller(c)
  \/ \E s \in Starter : Starts(s) \/ Interrupt(s)
  \/ \E p \in Pid : ComesUp(p) \/ Finish(p) \/ EndProcess(p) \/ KillDaemon(p)

Spec == Init /\ [][Next]_vars

\* processes run: a command goes on once it has read, a daemon comes up
FairSpec ==
  /\ Spec
  /\ \A c \in Caller : WF_vars(Probe(c) \/ RemoveStale(c) \/ Stop(c))
  /\ \A s \in Starter : WF_vars(Starts(s))
  /\ \A p \in Pid : WF_vars(ComesUp(p))

-------------------------------------------------------------------------------

(***************************************************************************)
(* The lock file excludes: one start at most is between taking it and       *)
(* removing it, whoever is killed or interrupted, and no start removes      *)
(* another's lock.                                                          *)
(***************************************************************************)
Holds(s) == at[s] \in {"locked", "waiting", "release"}

LockExcludes ==
  \A s \in Starter : Holds(s) => lockfile /\ \A t \in Starter : Holds(t) => t = s

\* its inductive form
LockInv == TypeOK /\ LockExcludes

(***************************************************************************)
(* A start ends, also when its daemon dies before it has reported.          *)
(***************************************************************************)
StartEnds == \A s \in Starter : at[s] = "checked" ~> at[s] = "idle"

(***************************************************************************)
(* One background ingest runs at a time (acquire_spawn_lock: otherwise "two *)
(* daemons fighting over the exclusive DB lock").                           *)
(***************************************************************************)
OneRunning == \A p, q \in Pid : daemon[p] = "running" /\ daemon[q] = "running" => p = q

(***************************************************************************)
(* As long as commands do not overlap and none is interrupted, the guard    *)
(* works: one daemon runs, and the pid file names it, so --stop and the     *)
(* next start find it, whatever was killed before.                          *)
(***************************************************************************)
RunningIsNamed == \A p \in Pid : daemon[p] = "running" => pidfile = p

AloneIsGuarded == raced \/ (OneRunning /\ RunningIsNamed)

(***************************************************************************)
(* Its inductive form, while no two commands overlap.                       *)
(***************************************************************************)
ComingUp(p) == daemon[p] \in Starting
Runs(p) == daemon[p] = "running"
Wrote(p) == daemon[p] \notin {"unused", "born", "writing"}

OneAtATime == \A c, d \in Caller : at[c] # "idle" /\ at[d] # "idle" => c = d

(* A start keeps the pid it forked until it is back at idle; while it waits *)
(* for a daemon that has written its pid, the file has that pid.            *)
Children ==
  \A s \in Starter :
    /\ at[s] = "waiting" => child[s] # None
    /\ child[s] # None =>
         /\ at[s] \in {"waiting", "release", "exit"} /\ daemon[child[s]] # "unused"
         /\ ComingUp(child[s]) => at[s] = "waiting"
         /\ daemon[child[s]] = "written" => pidfile = child[s]

(* A daemon that comes up is the only one, and the lock file is there: held *)
(* by the start that waits for it, or left by one that was killed.          *)
OneComingUp ==
  \A p \in Pid : ComingUp(p) =>
    /\ lockfile /\ \A s \in Starter : Holds(s) => child[s] = p
    /\ \A q \in Pid : ~Runs(q) /\ (ComingUp(q) => q = p)

NamesAWriter == \A p \in Pid : pidfile = p => Wrote(p)

(* A command that has read a pid has read that of any daemon that runs; one *)
(* that goes on has found none.                                             *)
Looking ==
  \A c \in Caller :
    /\ at[c] \in {"read", "remove", "stop"} =>
         /\ seen[c] # None /\ Wrote(seen[c])
         /\ \A p \in Pid : Runs(p) => seen[c] = p
    /\ at[c] = "remove" => daemon[seen[c]] = "dead"
    /\ at[c] \in {"checked", "locked"} => \A p \in Pid : ~Runs(p)

Alone ==
  /\ OneAtATime /\ Children /\ OneComingUp /\ NamesAWriter /\ Looking
  /\ OneRunning /\ RunningIsNamed
===============================================================================
