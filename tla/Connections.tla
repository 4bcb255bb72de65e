------------------------------ MODULE Connections ------------------------------
(***************************************************************************)
(* The transactions of the server's worker threads: src/database/base.py    *)
(* and src/server/server.py over SQLite.                                    *)
(*                                                                         *)
(* Each pool thread keeps one connection and reuses it for every request.   *)
(* The sqlite3 module opens a transaction (BEGIN) before the first INSERT,  *)
(* UPDATE or DELETE; a commit ends it, and nothing else does: no request    *)
(* closes or rolls back what an earlier one left open.  A secured request   *)
(* starts with the gate: authenticate selects the session, updates its      *)
(* last_used_at and commits.  In WAL mode there is one writer; a read       *)
(* inside an open transaction pins a snapshot, and a pinned snapshot that    *)
(* another commit has overtaken can never be written from.                  *)
(***************************************************************************)
CONSTANT Worker  \* the threads of the pool

VARIABLES
  step,     \* where the worker's request is
  secured,  \* its route has a permission: the gate runs first
  tx,       \* the transaction of its connection
  stale,    \* connections whose pinned snapshot is not the newest commit
  outside,  \* another process (a CLI command) holds the write lock
  carried,  \* connections whose open writes are those of an earlier request
  failed    \* history: connections on which a write statement has raised since
            \* they last committed or rolled back

vars == <<step, secured, tx, stale, outside, carried, failed>>

TypeOK ==
  /\ step \in [Worker -> {"idle", "gate", "update", "handler"}]
  /\ secured \in [Worker -> BOOLEAN]
  /\ tx \in [Worker -> {"none", "begun", "reading", "writing"}]
  /\ stale \in SUBSET Worker
  /\ outside \in BOOLEAN
  /\ carried \in SUBSET Worker
  /\ failed \in SUBSET Worker

Init ==
  /\ step = [w \in Worker |-> "idle"]
  /\ secured = [w \in Worker |-> FALSE]
  /\ tx = [w \in Worker |-> "none"]
  /\ stale = {} /\ outside = FALSE /\ carried = {} /\ failed = {}

-------------------------------------------------------------------------------
(***************************************************************************)
(* SQLite and the sqlite3 module, as the code uses them.                    *)
(***************************************************************************)

\* nobody else is writing
LockFree(w) == ~outside /\ \A v \in Worker \ {w} : tx[v] # "writing"

\* mutant of AfterSelect: every read runs in a transaction of its own
SelectBegins(w) == IF tx[w] \in {"none", "begun"} THEN "reading" ELSE tx[w]

\* a SELECT outside a transaction leaves nothing open; inside one that has not
\* touched the file yet it pins a snapshot
AfterSelect(w) == IF tx[w] = "begun" THEN "reading" ELSE tx[w]

\* the write lock is there to be taken, and the snapshot is the newest
CanWrite(w) == tx[w] = "writing" \/ (LockFree(w) /\ w \notin stale)

\* what a statement that raises leaves: its BEGIN has already run
AfterError(w) == IF tx[w] = "none" THEN "begun" ELSE tx[w]

\* the snapshots other connections have pinned are overtaken by a commit of w
Overtaken(w) == {v \in Worker \ {w} : tx[v] = "reading"}

-------------------------------------------------------------------------------

\* the pool hands a request to the thread
Accept(w) ==
  /\ step[w] = "idle"
  /\ \E s \in BOOLEAN :
       /\ secured' = [secured EXCEPT ![w] = s]
       /\ step' = [step EXCEPT ![w] = IF s THEN "gate" ELSE "handler"]
  /\ UNCHANGED <<tx, stale, outside, carried, failed>>

\* authenticate looks the token up
GateSelect(w) ==
  /\ step[w] = "gate"
  /\ tx' = [tx EXCEPT ![w] = AfterSelect(w)]
  /\ \E known \in BOOLEAN :  \* no live session and no key: 401
       step' = [step EXCEPT ![w] = IF known THEN "update" ELSE "idle"]
  /\ UNCHANGED <<secured, stale, outside, carried, failed>>

\* mutant of GatePass: authenticate does not commit
GateUncommitted(w) ==
  /\ step[w] = "update" /\ CanWrite(w)
  /\ tx' = [tx EXCEPT ![w] = "writing"]
  /\ step' = [step EXCEPT ![w] = "handler"]
  /\ UNCHANGED <<secured, stale, outside, carried, failed>>

\* it updates last_used_at and commits, and with it whatever an earlier
\* request of this thread left open
GatePass(w) ==
  /\ step[w] = "update" /\ CanWrite(w)
  /\ tx' = [tx EXCEPT ![w] = "none"]
  /\ stale' = stale \cup Overtaken(w)
  /\ carried' = carried \ {w} /\ failed' = failed \ {w}
  /\ step' = [step EXCEPT ![w] = "handler"]
  /\ UNCHANGED <<secured, outside>>

\* the update is refused: after the busy timeout, or at once when a snapshot is
\* pinned; the exception ends the request without an answer
GateFails(w) ==
  /\ step[w] = "update" /\ ~CanWrite(w)
  /\ tx' = [tx EXCEPT ![w] = AfterError(w)]
  /\ step' = [step EXCEPT ![w] = "idle"]
  /\ failed' = failed \cup {w}
  /\ UNCHANGED <<secured, stale, outside, carried>>

Select(w) ==
  /\ step[w] = "handler"
  /\ tx' = [tx EXCEPT ![w] = AfterSelect(w)]
  /\ UNCHANGED <<step, secured, stale, outside, carried, failed>>

Write(w) ==
  /\ step[w] = "handler" /\ CanWrite(w)
  /\ tx' = [tx EXCEPT ![w] = "writing"]
  /\ UNCHANGED <<step, secured, stale, outside, carried, failed>>

\* "database is locked" inside a handler: answered with 500, or caught and
\* reported by the handler (an upload goes on with its next return)
WriteFails(w) ==
  /\ step[w] = "handler" /\ ~CanWrite(w)
  /\ tx' = [tx EXCEPT ![w] = AfterError(w)]
  /\ step' \in {step, [step EXCEPT ![w] = "idle"]}
  /\ failed' = failed \cup {w}
  /\ UNCHANGED <<secured, stale, outside, carried>>

\* any other error before the statement runs: a value of a type SQLite does not
\* take, for nobody checks the JSON of a body
WriteRaises(w) ==
  /\ step[w] = "handler"
  /\ tx' = [tx EXCEPT ![w] = AfterError(w)]
  /\ step' \in {step, [step EXCEPT ![w] = "idle"]}
  /\ failed' = failed \cup {w}
  /\ carried' = IF step' # step /\ tx[w] = "writing" THEN carried \cup {w} ELSE carried
  /\ UNCHANGED <<secured, stale, outside>>

\* a commit that changed no page overtakes nobody
Ended(w) ==
  /\ stale' \in IF tx[w] = "writing" THEN {stale, stale \cup Overtaken(w)} ELSE {stale \ {w}}
  /\ carried' = carried \ {w} /\ failed' = failed \ {w}
  /\ UNCHANGED <<step, secured, outside>>

\* mutant of Commit: the next transaction is begun at once
CommitAndBegin(w) ==
  /\ step[w] = "handler" /\ tx[w] # "none"
  /\ tx' = [tx EXCEPT ![w] = "begun"]
  /\ Ended(w)

Commit(w) ==
  /\ step[w] = "handler" /\ tx[w] # "none"
  /\ tx' = [tx EXCEPT ![w] = "none"]
  /\ Ended(w)

\* only the lockout guards of user.py roll back, after their write
Rollback(w) ==
  /\ step[w] = "handler" /\ tx[w] = "writing"
  /\ tx' = [tx EXCEPT ![w] = "none"]
  /\ carried' = carried \ {w} /\ failed' = failed \ {w}
  /\ UNCHANGED <<step, secured, stale, outside>>

\* the handler returns, or raises between a write and its commit: the transaction
\* stays open
Respond(w) ==
  /\ step[w] = "handler"
  /\ step' = [step EXCEPT ![w] = "idle"]
  /\ carried' = IF tx[w] = "writing" THEN carried \cup {w} ELSE carried
  /\ UNCHANGED <<secured, tx, stale, outside, failed>>

\* another process writes for a while
OutsideBegin ==
  /\ ~outside /\ \A w \in Worker : tx[w] # "writing"
  /\ outside' = TRUE
  /\ UNCHANGED <<step, secured, tx, stale, carried, failed>>

OutsideCommit ==
  /\ outside
  /\ outside' = FALSE
  /\ stale' = stale \cup {w \in Worker : tx[w] = "reading"}
  /\ UNCHANGED <<step, secured, tx, carried, failed>>

\* the server stops, drained or killed, and starts again: every connection is
\* closed, which rolls its transaction back
Restart ==
  /\ step' = [w \in Worker |-> "idle"]
  /\ tx' = [w \in Worker |-> "none"]
  /\ stale' = {} /\ carried' = {} /\ failed' = {}
  /\ UNCHANGED <<secured, outside>>

Request(w) ==
  \/ GateSelect(w) \/ GatePass(w) \/ GateFails(w)
  \/ Select(w) \/ Write(w) \/ WriteFails(w) \/ WriteRaises(w) \/ Commit(w) \/ Rollback(w) \/ Respond(w)

Next ==
  \/ \E w \in Worker : Accept(w) \/ Request(w)
  \/ OutsideBegin \/ OutsideCommit \/ Restart

Spec == Init /\ [][Next]_vars

-------------------------------------------------------------------------------

\* one connection at most writes, and from the newest snapshot (SQLite's part)
OneCurrentWriter ==
  \A w \in Worker : tx[w] = "writing" =>
    /\ w \notin stale /\ ~outside
    /\ \A v \in Worker : tx[v] = "writing" => v = w

\* a transaction without the lock is left behind only by a statement that raised
PinnedOnlyAfterFailure ==
  \A w \in Worker : tx[w] \in {"begun", "reading"} => w \in failed

(***************************************************************************)
(* The writes an earlier request left open are committed by the gate before *)
(* a secured handler runs, so no secured handler, and no rollback of one,   *)
(* works on top of them.                                                    *)
(***************************************************************************)
SecuredStartsClean ==
  \A w \in Worker : step[w] = "handler" /\ secured[w] => w \notin carried

\* the inductive invariant: only a connection that reads has a stale snapshot,
\* and what an earlier request left is an open write
Inv ==
  /\ TypeOK /\ OneCurrentWriter /\ PinnedOnlyAfterFailure /\ SecuredStartsClean
  /\ \A w \in stale : tx[w] = "reading"
  /\ \A w \in carried : tx[w] = "writing"

(***************************************************************************)
(* base.py on the busy timeout: it "makes a writer wait for the WAL write   *)
(* lock rather than failing the request".  Only a connection on which a     *)
(* statement has raised, and which has neither committed nor rolled back    *)
(* since, is refused a write while nobody else is writing: every other      *)
(* commit leaves the next request of its thread a fresh snapshot.           *)
(***************************************************************************)
FailsBehindWriter ==
  [][\A w \in Worker : GateFails(w) \/ WriteFails(w) => ~LockFree(w) \/ w \in failed]_vars
===============================================================================
