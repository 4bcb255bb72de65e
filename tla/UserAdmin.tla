------------------------------- MODULE UserAdmin -------------------------------
(***************************************************************************)
(* Accounts, roles, permissions and sessions: src/database/User/user.py,     *)
(* behind the routes of src/router/Admin and src/router/Auth and the CLI    *)
(* `openreturn users`.                                                      *)
(*                                                                         *)
(* A method reads what it needs outside any transaction, then writes in one *)
(* transaction under SQLite's single write lock and commits; an error in    *)
(* between leaves the transaction open on the worker's connection, and the  *)
(* next secured request of that worker commits it.  A CLI command has no    *)
(* gate, and its end closes its connection.  Only the permission user:admin *)
(* is followed, since it decides who may act here.  Of the audit log, which *)
(* nobody reads back, only the need for the write lock is modelled, and of  *)
(* the connections the lock (Connections has their snapshots: a worker it   *)
(* blocks changes nothing here).                                            *)
(***************************************************************************)
EXTENDS Naturals, FiniteSets

CONSTANTS
  User, Role,
  AdminRole,   \* the built-in role that is granted user:admin at set-up
  Builtin,     \* roles that cannot be deleted
  KeyRoles,    \* roles some API key is bound to (api_key.role_id)
  Founders,    \* users at the start: administrators with a session each
  FirstRoles,  \* roles at the start
  Worker,      \* threads of the server's pool, and CLI processes
  Cli,         \* the CLI processes among them
  None,
  Ops,         \* the methods this instance enables
  MaxPw        \* bound: changes of one password

Methods == {"deactivate", "activate", "assign_role", "revoke_role", "delete_role",
            "grant_permission", "revoke_permission", "create_user", "create_role",
            "create_permission", "set_password", "login"}

ASSUME UserAssumption ==
  /\ AdminRole \in Builtin /\ Builtin \subseteq FirstRoles /\ FirstRoles \subseteq Role
  /\ KeyRoles \subseteq FirstRoles /\ Founders \subseteq User /\ Cli \subseteq Worker
  /\ None \notin User \cup Role \cup Worker \cup Methods
  /\ MaxPw \in Nat

Version == 0..MaxPw

Database ==
  [users : SUBSET User, active : SUBSET User, userRole : SUBSET (User \X Role),
   roles : SUBSET Role, born : SUBSET Role, grants : SUBSET Role,
   pw : [User -> Version], sessions : SUBSET (User \X Version)]

\* methods `openreturn users` has no command for
ServerOnly == {"delete_role", "create_role", "create_permission", "login"}

\* where a worker is, and what its request has read before its write
Request == [step : {"idle", "admitted", "write", "audit"}, op : Methods \cup {None},
            user : User \cup {None}, role : Role \cup {None},
            roles : SUBSET Role, had : BOOLEAN, version : Version]
Step(s) == [step |-> s, op |-> None, user |-> None, role |-> None,
            roles |-> {}, had |-> FALSE, version |-> 0]

VARIABLES
  db,      \* what is committed; pw counts the changes of a password, and a
           \* session carries the version it was opened with
  holder,  \* the worker whose connection was left with an open write transaction
  work,    \* what that transaction sees
  req,     \* the request of each worker
  raced    \* history: sessions inserted after their user's password or state changed

vars == <<db, holder, work, req, raced>>

TypeOK ==
  /\ db \in Database /\ work \in Database
  /\ holder \in Worker \cup {None}
  /\ req \in [Worker -> Request]
  /\ raced \subseteq User \X Version

\* _active_admins
Admins(d) == {u \in d.active : \E r \in d.grants : <<u, r>> \in d.userRole}

Init ==
  /\ db = [users |-> Founders, active |-> Founders, userRole |-> Founders \X {AdminRole},
           roles |-> FirstRoles, born |-> FirstRoles, grants |-> {AdminRole},
           pw |-> [u \in User |-> 0], sessions |-> Founders \X {0}]
  /\ work = db /\ holder = None
  /\ req = [w \in Worker |-> Step("idle")]
  /\ raced = {}

-------------------------------------------------------------------------------
(***************************************************************************)
(* Transactions.                                                            *)
(***************************************************************************)

View(w) == IF holder = w THEN work ELSE db
CanWrite(w) == holder \in {None, w}

Goes(w, s) == req' = [req EXCEPT ![w] = Step(s)]

\* the write committed; an administrative one is then recorded in the audit log
CommitTo(w, d, next) ==
  /\ db' = d /\ work' = d /\ holder' = None
  /\ Goes(w, next)

Rollback(w) ==
  /\ work' = db /\ holder' = None
  /\ Goes(w, "idle")
  /\ UNCHANGED db

\* an exception between a write and its commit: the thread keeps the transaction
LeaveOpen(w, d) ==
  /\ IF w \in Cli THEN holder' = None /\ work' = db ELSE holder' = w /\ work' = d
  /\ Goes(w, "idle")
  /\ UNCHANGED db

\* mutant of Refused: the check runs before the write instead of after it
RefusedTooEarly(w, new) == req[w].had /\ Admins(View(w)) = {}

\* the lockout guard: there was an administrator at the read, there is none now
Refused(w, new) == req[w].had /\ Admins(new) = {}

Guarded(w, new) == IF Refused(w, new) THEN Rollback(w) ELSE CommitTo(w, new, "audit")

-------------------------------------------------------------------------------
(***************************************************************************)
(* The gate, and the reads of each method.                                  *)
(***************************************************************************)

\* authenticate: a session of an active user, or an API key with its role; the
\* commit also commits what this thread was left with; /admin needs user:admin
Gate(w) ==
  LET d == View(w) IN
  /\ w \notin Cli /\ req[w] = Step("idle") /\ CanWrite(w)
  /\ \/ \E s \in d.sessions :
          /\ s[1] \in d.active
          /\ CommitTo(w, d, IF s[1] \in Admins(d) THEN "admitted" ELSE "idle")
     \/ \E r \in KeyRoles : CommitTo(w, d, IF r \in d.grants THEN "admitted" ELSE "idle")
  /\ UNCHANGED raced

May(w) == req[w] = Step("admitted") \/ (w \in Cli /\ req[w] = Step("idle"))

Ask(w, op, u, r, rs, had, v) ==
  /\ op \in Ops /\ (w \in Cli => op \notin ServerOnly)
  /\ req' = [req EXCEPT ![w] = [step |-> "write", op |-> op, user |-> u, role |-> r,
                                roles |-> rs, had |-> had, version |-> v]]
  /\ UNCHANGED <<db, holder, work, raced>>

HadAdmin == Admins(db) # {}

\* methods that start with their write
AskWrite(w) ==
  /\ May(w)
  /\ \/ \E u \in User : Ask(w, "activate", u, None, {}, FALSE, 0)
                        \/ Ask(w, "set_password", u, None, {}, FALSE, 0)
     \/ \E r \in Role : Ask(w, "create_role", None, r, {}, FALSE, 0)
     \/ Ask(w, "create_permission", None, None, {}, FALSE, 0)

\* set_active reads whether an administrator exists
AskDeactivate(w) ==
  /\ May(w)
  /\ \E u \in User : Ask(w, "deactivate", u, None, {}, HadAdmin, 0)

\* ids of user and role are resolved, then (to revoke) the administrators
AskUserRole(w) ==
  /\ May(w)
  /\ \E u \in db.users, r \in db.roles :
       \/ Ask(w, "assign_role", u, r, {}, FALSE, 0)
       \/ Ask(w, "revoke_role", u, r, {}, HadAdmin, 0)

AskRole(w) ==
  /\ May(w)
  /\ \E r \in db.roles :
       \/ r \notin Builtin /\ Ask(w, "delete_role", None, r, {}, HadAdmin, 0)
       \/ Ask(w, "grant_permission", None, r, {}, FALSE, 0)
       \/ Ask(w, "revoke_permission", None, r, {}, HadAdmin, 0)

\* roles are resolved before the password is hashed and the row inserted
AskCreateUser(w) ==
  /\ May(w)
  /\ \E u \in User, rs \in SUBSET db.roles : Ask(w, "create_user", u, None, rs, FALSE, 0)

\* login reads the hash and is_active, then verifies the password
AskLogin(w) ==
  /\ w \notin Cli /\ req[w] = Step("idle")
  /\ \E u \in View(w).active : Ask(w, "login", u, None, {}, FALSE, View(w).pw[u])

\* a listing, or a request the handler turns away without writing
Respond(w) ==
  /\ req[w] = Step("admitted")
  /\ Goes(w, "idle")
  /\ UNCHANGED <<db, holder, work, raced>>

-------------------------------------------------------------------------------
(***************************************************************************)
(* The write transaction of each method.                                    *)
(***************************************************************************)

Writing(w, op) == req[w].step = "write" /\ req[w].op = op /\ CanWrite(w)

Deactivate(w) ==
  LET d == View(w)
      u == req[w].user
  IN
  /\ Writing(w, "deactivate")
  /\ IF u \in d.users
     THEN Guarded(w, [d EXCEPT !.active = @ \ {u}, !.sessions = {s \in @ : s[1] # u}])
     ELSE CommitTo(w, d, "idle")
  /\ UNCHANGED raced

Activate(w) ==
  LET d == View(w)
      u == req[w].user
  IN
  /\ Writing(w, "activate")
  /\ IF u \in d.users THEN CommitTo(w, [d EXCEPT !.active = @ \cup {u}], "audit")
                      ELSE CommitTo(w, d, "idle")
  /\ UNCHANGED raced

\* the foreign key refuses a role that has been deleted since it was resolved
AssignRole(w) ==
  LET d == View(w)
      r == req[w].role
  IN
  /\ Writing(w, "assign_role")
  /\ IF r \in d.roles
     THEN CommitTo(w, [d EXCEPT !.userRole = @ \cup {<<req[w].user, r>>}], "audit")
     ELSE LeaveOpen(w, d)
  /\ UNCHANGED raced

RevokeRole(w) ==
  LET d == View(w)
      assigned == <<req[w].user, req[w].role>>
  IN
  /\ Writing(w, "revoke_role")
  /\ IF assigned \in d.userRole THEN Guarded(w, [d EXCEPT !.userRole = @ \ {assigned}])
                                ELSE CommitTo(w, d, "idle")
  /\ UNCHANGED raced

\* grants and assignments cascade
Dropped(d, r) ==
  [d EXCEPT !.roles = @ \ {r}, !.grants = @ \ {r}, !.userRole = {p \in @ : p[2] # r}]

\* an API key's reference to the role does not cascade
DeleteRole(w) ==
  LET d == View(w)
      r == req[w].role
  IN
  /\ Writing(w, "delete_role")
  /\ IF r \in KeyRoles \cap d.roles
     THEN LeaveOpen(w, d)
     ELSE Guarded(w, Dropped(d, r))
  /\ UNCHANGED raced

GrantPermission(w) ==
  LET d == View(w)
      r == req[w].role
  IN
  /\ Writing(w, "grant_permission")
  /\ IF r \in d.roles THEN CommitTo(w, [d EXCEPT !.grants = @ \cup {r}], "audit")
                      ELSE LeaveOpen(w, d)
  /\ UNCHANGED raced

RevokePermission(w) ==
  LET d == View(w)
      r == req[w].role
  IN
  /\ Writing(w, "revoke_permission")
  /\ IF r \in d.grants THEN Guarded(w, [d EXCEPT !.grants = @ \ {r}])
                       ELSE CommitTo(w, d, "idle")
  /\ UNCHANGED raced

\* the row, then its roles one by one: a taken name raises after BEGIN, a role
\* deleted since it was resolved violates the foreign key after the row
CreateUser(w) ==
  LET d == View(w)
      u == req[w].user
      With(rs) == [d EXCEPT !.users = @ \cup {u}, !.active = @ \cup {u},
                            !.userRole = @ \cup ({u} \X rs)]
  IN
  /\ Writing(w, "create_user")
  /\ IF u \in d.users THEN LeaveOpen(w, d)
     ELSE IF req[w].roles \subseteq d.roles THEN CommitTo(w, With(req[w].roles), "audit")
     ELSE \E rs \in SUBSET (req[w].roles \cap d.roles) : LeaveOpen(w, With(rs))
  /\ UNCHANGED raced

\* a role's id is never used again; a taken code raises after BEGIN
CreateRole(w) ==
  LET d == View(w)
      r == req[w].role
  IN
  /\ Writing(w, "create_role")
  /\ IF r \in d.roles THEN LeaveOpen(w, d)
     ELSE IF r \in d.born THEN CommitTo(w, d, "audit")  \* bound: no further ids
     ELSE CommitTo(w, [d EXCEPT !.roles = @ \cup {r}, !.born = @ \cup {r}], "audit")
  /\ UNCHANGED raced

\* a permission other than user:admin, new or (raising after BEGIN) taken
CreatePermission(w) ==
  /\ Writing(w, "create_permission")
  /\ CommitTo(w, View(w), "audit") \/ LeaveOpen(w, View(w))
  /\ UNCHANGED raced

\* mutant of Fresh: sessions survive a change of the password
KeepAll(d, u) == d.sessions
Fresh(d, u) == {s \in d.sessions : s[1] # u}

SetPassword(w) ==
  LET d == View(w)
      u == req[w].user
  IN
  /\ Writing(w, "set_password")
  /\ IF u \in d.users
     THEN IF d.pw[u] < MaxPw
          THEN CommitTo(w, [d EXCEPT !.pw[u] = @ + 1, !.sessions = Fresh(d, u)], "audit")
          ELSE Rollback(w)  \* bound: no further change of this password
     ELSE CommitTo(w, d, "idle")
  /\ UNCHANGED raced

\* nothing is read again before the session is inserted
InsertSession(w) ==
  LET d == View(w)
      u == req[w].user
      s == <<u, req[w].version>>
  IN
  /\ Writing(w, "login")
  /\ CommitTo(w, [d EXCEPT !.sessions = @ \cup {s}], "idle")
  /\ raced' = IF req[w].version # d.pw[u] \/ u \notin d.active THEN raced \cup {s} ELSE raced

\* the gate, then the session is deleted; not audited
Logout(w) ==
  /\ w \notin Cli /\ req[w] = Step("idle") /\ CanWrite(w) /\ "logout" \in Ops
  /\ \E s \in View(w).sessions :
       /\ s[1] \in View(w).active
       /\ CommitTo(w, [View(w) EXCEPT !.sessions = @ \ {s}], "idle")
  /\ UNCHANGED raced

Audit(w) ==
  /\ req[w] = Step("audit") /\ CanWrite(w)
  /\ CommitTo(w, View(w), "idle")
  /\ UNCHANGED raced

\* mutant of GivesUp: the driver waits for the lock without limit
WaitsForever(w) == FALSE

\* another connection has held the lock for the whole busy timeout
GivesUp(w) == ~CanWrite(w)

Timeout(w) ==
  /\ req[w].step \in {"write", "audit"} /\ GivesUp(w)
  /\ Goes(w, "idle")
  /\ UNCHANGED <<db, holder, work, raced>>

\* the server, or one CLI process, is killed: its open transaction is undone
Kill(gone) ==
  /\ req' = [w \in Worker |-> IF w \in gone THEN Step("idle") ELSE req[w]]
  /\ holder' = IF holder \in gone THEN None ELSE holder
  /\ work' = IF holder \in gone THEN db ELSE work
  /\ UNCHANGED <<db, raced>>

Arrive(w) == Gate(w) \/ AskLogin(w) \/ Logout(w)

Asks(w) ==
  AskWrite(w) \/ AskDeactivate(w) \/ AskUserRole(w) \/ AskRole(w) \/ AskCreateUser(w)

Writes(w) ==
  \/ Deactivate(w) \/ Activate(w) \/ AssignRole(w) \/ RevokeRole(w)
  \/ DeleteRole(w) \/ GrantPermission(w) \/ RevokePermission(w)
  \/ CreateUser(w) \/ CreateRole(w) \/ CreatePermission(w)
  \/ SetPassword(w) \/ InsertSession(w)

Next ==
  \/ \E w \in Worker :
       Arrive(w) \/ Asks(w) \/ Writes(w) \/ Respond(w) \/ Audit(w) \/ Timeout(w)
  \/ \E gone \in {Worker \ Cli} \cup {{c} : c \in Cli} : Kill(gone)

Spec == Init /\ [][Next]_vars

\* a request under way goes on; the busy timeout runs out
GoesOn(w) == Respond(w) \/ Writes(w) \/ Audit(w) \/ Timeout(w)
FairSpec == Spec /\ \A w \in Worker : WF_vars(GoesOn(w))

-------------------------------------------------------------------------------

(***************************************************************************)
(* With an administrator at the start there is one for ever: although the   *)
(* guards read before they write, concurrent demotions, deactivations, role *)
(* and permission changes never remove the last one.                        *)
(***************************************************************************)
AdminRemains == Admins(db) # {}

\* its inductive form: a transaction left open keeps an administrator, too, and a
\* guarded method has read that there was one
GuardedMethods == {"deactivate", "revoke_role", "delete_role", "revoke_permission"}
UserMethods == {"activate", "deactivate", "assign_role", "revoke_role", "create_user",
                "set_password", "login"}
RoleMethods == {"assign_role", "revoke_role", "delete_role", "grant_permission",
                "revoke_permission", "create_role"}

Prepared(q) ==
  /\ q.op \in GuardedMethods => q.had
  /\ q.op \in UserMethods => q.user \in User
  /\ q.op \in RoleMethods => q.role \in Role

SafeInv ==
  /\ TypeOK
  /\ AdminRemains
  /\ holder # None => Admins(work) # {}
  /\ \A w \in Worker : Prepared(req[w])

(***************************************************************************)
(* A session whose user is inactive, or has another password since, was     *)
(* opened by a login that had verified before the change and inserted after *)
(* it.                                                                      *)
(***************************************************************************)
StaleOnlyByRace ==
  \A s \in db.sessions : (s[1] \in db.active /\ s[2] = db.pw[s[1]]) \/ s \in raced

(***************************************************************************)
(* create_user: roles are resolved before the insert, "so a bad role leaves *)
(* no orphaned user row".  A new row must come from a create_user that      *)
(* succeeded.                                                               *)
(***************************************************************************)
NoOrphan ==
  [][\A u \in db'.users \ db.users :
       \E w \in Worker : req[w].op = "create_user" /\ req[w].user = u /\ req'[w].step = "audit"]_vars

(***************************************************************************)
(* A request ends, even when an idle worker holds the write lock.           *)
(***************************************************************************)
RequestEnds ==
  \A w \in Worker : req[w].step \in {"write", "audit"} ~> req[w] = Step("idle")
===============================================================================
