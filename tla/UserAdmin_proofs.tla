---------------------------- MODULE UserAdmin_proofs ----------------------------
(***************************************************************************)
(* The last administrator stays, and stale sessions come from races alone,  *)
(* for any users, roles and workers.                                        *)
(***************************************************************************)
EXTENDS UserAdmin, TLAPS

Steps == {"idle", "admitted", "write", "audit"}

(***************************************************************************)
(* A worker between two steps of a request is a typed request.              *)
(***************************************************************************)
LEMMA StepType == ASSUME NEW s \in Steps PROVE Step(s) \in Request /\ Prepared(Step(s))
<1>1. None \notin GuardedMethods \cup UserMethods \cup RoleMethods
  BY UserAssumption DEF GuardedMethods, UserMethods, RoleMethods, UserAssumption, Methods
<1> QED BY <1>1, UserAssumption DEF Step, Steps, Request, Version, UserAssumption, Prepared

(***************************************************************************)
(* Adding users, assignments or grants takes no administrator away.         *)
(***************************************************************************)
LEMMA AdminsGrow ==
  ASSUME NEW d, NEW e, d.active \subseteq e.active, d.grants \subseteq e.grants,
         d.userRole \subseteq e.userRole, Admins(d) # {}
  PROVE  Admins(e) # {}
BY DEF Admins

(***************************************************************************)
(* What a worker sees is a database with an administrator, committed or not.*)
(***************************************************************************)
LEMMA ViewSafe ==
  ASSUME SafeInv, NEW w \in Worker
  PROVE  View(w) \in Database /\ Admins(View(w)) # {}
BY UserAssumption DEF SafeInv, AdminRemains, TypeOK, View, UserAssumption

(***************************************************************************)
(* The four ways a step ends keep the invariant.                            *)
(***************************************************************************)
LEMMA CommitSafe ==
  ASSUME SafeInv, NEW w \in Worker, NEW d \in Database, NEW s \in Steps, Admins(d) # {},
         CommitTo(w, d, s), raced' \subseteq User \X Version
  PROVE  SafeInv'
<1>1. TypeOK'
  BY StepType DEF SafeInv, TypeOK, CommitTo, Goes
<1>2. AdminRemains' /\ holder' = None
  BY DEF CommitTo, AdminRemains, Admins
<1>3. \A v \in Worker : Prepared(req'[v])
  <2>1. \A v \in Worker : req'[v] = IF v = w THEN Step(s) ELSE req[v]
    BY DEF CommitTo, Goes, SafeInv, TypeOK
  <2> QED BY <2>1, StepType DEF SafeInv, Steps
<1> QED BY <1>1, <1>2, <1>3 DEF SafeInv

LEMMA RollbackSafe ==
  ASSUME SafeInv, NEW w \in Worker, Rollback(w), UNCHANGED raced
  PROVE  SafeInv'
<1>1. CommitTo(w, db, "idle")
  BY DEF Rollback, CommitTo
<1>2. db \in Database /\ Admins(db) # {} /\ raced' \subseteq User \X Version
  BY DEF SafeInv, TypeOK, AdminRemains
<1> QED BY <1>1, <1>2, CommitSafe DEF Steps

LEMMA LeaveOpenSafe ==
  ASSUME SafeInv, NEW w \in Worker, NEW d \in Database, Admins(d) # {}, LeaveOpen(w, d),
         UNCHANGED raced
  PROVE  SafeInv'
<1>1. TypeOK'
  BY StepType DEF SafeInv, TypeOK, LeaveOpen, Goes, Steps
<1>2. AdminRemains' /\ (holder' # None => Admins(work') # {})
  BY DEF LeaveOpen, AdminRemains, SafeInv, Admins
<1>3. \A v \in Worker : Prepared(req'[v])
  <2>1. \A v \in Worker : req'[v] = IF v = w THEN Step("idle") ELSE req[v]
    BY DEF LeaveOpen, Goes, SafeInv, TypeOK
  <2>2. Prepared(Step("idle"))
    BY StepType DEF Steps
  <2> QED BY <2>1, <2>2 DEF SafeInv
<1> QED BY <1>1, <1>2, <1>3 DEF SafeInv

LEMMA GuardedSafe ==
  ASSUME SafeInv, NEW w \in Worker, NEW d \in Database, Guarded(w, d),
         req[w].op \in GuardedMethods, UNCHANGED raced
  PROVE  SafeInv'
<1>1. CASE Refused(w, d)
  BY <1>1, RollbackSafe DEF Guarded
<1>2. CASE ~Refused(w, d)
  <2>1. Admins(d) # {}
    BY <1>2 DEF Refused, SafeInv, Prepared
  <2>2. CommitTo(w, d, "audit") /\ raced' \subseteq User \X Version
    BY <1>2 DEF Guarded, SafeInv, TypeOK
  <2> QED BY <2>1, <2>2, CommitSafe DEF Steps
<1> QED BY <1>1, <1>2

LEMMA AskSafe ==
  ASSUME SafeInv, NEW w \in Worker, NEW op \in Methods, NEW u \in User \cup {None},
         NEW r \in Role \cup {None}, NEW rs \in SUBSET Role, NEW had \in BOOLEAN,
         NEW v \in Version, Ask(w, op, u, r, rs, had, v),
         op \in GuardedMethods => had,
         op \in UserMethods => u \in User, op \in RoleMethods => r \in Role
  PROVE  SafeInv'
<1>1. TypeOK'
  BY DEF SafeInv, TypeOK, Ask, Request
<1>2. AdminRemains' /\ (holder' # None => Admins(work') # {})
  BY DEF Ask, AdminRemains, SafeInv, Admins
<1>3. \A x \in Worker : Prepared(req'[x])
  BY DEF Ask, SafeInv, TypeOK, Prepared
<1> QED BY <1>1, <1>2, <1>3 DEF SafeInv

(***************************************************************************)
(* The gate and the reads.                                                  *)
(***************************************************************************)
LEMMA ArriveSafe == ASSUME SafeInv, NEW w \in Worker, Arrive(w) PROVE SafeInv'
<1> DEFINE d == View(w)
<1>d. d \in Database /\ Admins(d) # {}
  BY ViewSafe
<1>r. raced \subseteq User \X Version
  BY DEF SafeInv, TypeOK
<1>1. CASE Gate(w)
  <2>1. PICK s \in {"admitted", "idle"} : CommitTo(w, d, s)
    BY <1>1 DEF Gate
  <2> QED BY <1>1, <2>1, <1>d, <1>r, CommitSafe DEF Gate, Steps
<1>2. CASE AskLogin(w)
  <2>1. PICK u \in d.active : Ask(w, "login", u, None, {}, FALSE, d.pw[u])
    BY <1>2 DEF AskLogin
  <2>2. u \in User /\ d.pw[u] \in Version
    BY <1>d DEF Database
  <2> QED BY <2>1, <2>2, AskSafe DEF Methods, GuardedMethods, UserMethods, RoleMethods
<1>3. CASE Logout(w)
  <2>1. PICK s \in d.sessions : CommitTo(w, [d EXCEPT !.sessions = @ \ {s}], "idle")
    BY <1>3 DEF Logout
  <2> DEFINE e == [d EXCEPT !.sessions = @ \ {s}]
  <2>2. e \in Database
    BY <1>d DEF Database
  <2>3. Admins(e) # {}
    BY <1>d, AdminsGrow DEF Database
  <2> QED BY <1>3, <2>1, <2>2, <2>3, <1>r, CommitSafe DEF Logout, Steps
<1> QED BY <1>1, <1>2, <1>3 DEF Arrive

LEMMA AsksSafe == ASSUME SafeInv, NEW w \in Worker, Asks(w) PROVE SafeInv'
<1>d. db \in Database /\ HadAdmin /\ 0 \in Version /\ {} \in SUBSET Role
  BY UserAssumption DEF SafeInv, TypeOK, AdminRemains, HadAdmin, Version, UserAssumption
<1>1. CASE AskWrite(w)
  <2> USE <1>d, AskSafe DEF Methods, GuardedMethods, UserMethods, RoleMethods
  <2>1. ASSUME NEW u \in User, NEW op \in {"activate", "set_password"},
               Ask(w, op, u, None, {}, FALSE, 0)
        PROVE  SafeInv'
    BY <2>1
  <2>2. ASSUME NEW r \in Role, Ask(w, "create_role", None, r, {}, FALSE, 0) PROVE SafeInv'
    BY <2>2
  <2>3. ASSUME Ask(w, "create_permission", None, None, {}, FALSE, 0) PROVE SafeInv'
    BY <2>3
  <2> QED BY <1>1, <2>1, <2>2, <2>3 DEF AskWrite
<1>2. CASE AskDeactivate(w)
  BY <1>2, <1>d, AskSafe DEF AskDeactivate, Methods, HadAdmin, UserMethods, RoleMethods
<1>3. CASE AskUserRole(w)
  <2>1. PICK u \in db.users, r \in db.roles :
          \/ Ask(w, "assign_role", u, r, {}, FALSE, 0)
          \/ Ask(w, "revoke_role", u, r, {}, HadAdmin, 0)
    BY <1>3 DEF AskUserRole
  <2>2. u \in User /\ r \in Role
    BY <1>d DEF Database
  <2> QED BY <2>1, <2>2, <1>d, AskSafe DEF Methods, GuardedMethods, UserMethods, RoleMethods, HadAdmin
<1>4. CASE AskRole(w)
  <2>1. PICK r \in db.roles :
          \/ Ask(w, "delete_role", None, r, {}, HadAdmin, 0)
          \/ Ask(w, "grant_permission", None, r, {}, FALSE, 0)
          \/ Ask(w, "revoke_permission", None, r, {}, HadAdmin, 0)
    BY <1>4 DEF AskRole
  <2>2. r \in Role
    BY <1>d DEF Database
  <2> QED BY <2>1, <2>2, <1>d, AskSafe DEF Methods, GuardedMethods, UserMethods, RoleMethods, HadAdmin
<1>5. CASE AskCreateUser(w)
  <2>1. PICK u \in User, rs \in SUBSET db.roles : Ask(w, "create_user", u, None, rs, FALSE, 0)
    BY <1>5 DEF AskCreateUser
  <2>2. rs \in SUBSET Role
    BY <1>d DEF Database
  <2> QED BY <2>1, <2>2, <1>d, AskSafe DEF Methods, GuardedMethods, UserMethods, RoleMethods
<1> QED BY <1>1, <1>2, <1>3, <1>4, <1>5 DEF Asks

(***************************************************************************)
(* The write transactions.                                                  *)
(***************************************************************************)
LEMMA WritesSafe == ASSUME SafeInv, NEW w \in Worker, Writes(w) PROVE SafeInv'
<1> DEFINE d == View(w)
           u == req[w].user
           r == req[w].role
<1>d. d \in Database /\ Admins(d) # {}
  BY ViewSafe
<1>r. raced \subseteq User \X Version /\ req[w] \in Request
  BY DEF SafeInv, TypeOK
<1>u. /\ req[w].op \in UserMethods => u \in User
      /\ req[w].op \in RoleMethods => r \in Role
  BY DEF SafeInv, Prepared
<1>c. ASSUME NEW s \in {"idle", "audit"}, CommitTo(w, d, s), UNCHANGED raced PROVE SafeInv'
  BY <1>c, <1>d, <1>r, CommitSafe DEF Steps
<1>g. ASSUME NEW e \in Database, d.active \subseteq e.active, d.grants \subseteq e.grants,
             d.userRole \subseteq e.userRole, CommitTo(w, e, "audit"), UNCHANGED raced
      PROVE  SafeInv'
  BY <1>g, <1>d, <1>r, AdminsGrow, CommitSafe DEF Steps
<1>o. ASSUME NEW e \in Database, d.active \subseteq e.active, d.grants \subseteq e.grants,
             d.userRole \subseteq e.userRole, LeaveOpen(w, e), UNCHANGED raced
      PROVE  SafeInv'
  BY <1>o, <1>d, AdminsGrow, LeaveOpenSafe
<1>1. CASE Deactivate(w)
  <2> DEFINE e == [d EXCEPT !.active = @ \ {u}, !.sessions = {s \in @ : s[1] # u}]
  <2>1. e \in Database
    BY <1>d DEF Database
  <2>2. CASE u \in d.users
    <3>1. Guarded(w, e) /\ req[w].op \in GuardedMethods /\ UNCHANGED raced
      BY <1>1, <2>2 DEF Deactivate, Writing, GuardedMethods
    <3> QED BY <2>1, <3>1, GuardedSafe
  <2>3. CASE u \notin d.users
    BY <1>1, <2>3, <1>c DEF Deactivate
  <2> QED BY <2>2, <2>3
<1>2. CASE Activate(w)
  <2> DEFINE e == [d EXCEPT !.active = @ \cup {u}]
  <2>1. CASE u \in d.users
    <3>1. e \in Database /\ d.active \subseteq e.active /\ d.grants \subseteq e.grants
          /\ d.userRole \subseteq e.userRole
      BY <1>d, <2>1 DEF Database
    <3> QED BY <1>2, <2>1, <3>1, <1>g DEF Activate
  <2>2. CASE u \notin d.users
    BY <1>2, <2>2, <1>c DEF Activate
  <2> QED BY <2>1, <2>2
<1>3. CASE AssignRole(w)
  <2> DEFINE e == [d EXCEPT !.userRole = @ \cup {<<u, r>>}]
  <2>1. CASE r \in d.roles
    <3>1. u \in User
      BY <1>3, <1>u DEF AssignRole, Writing, UserMethods
    <3>2. e \in Database /\ d.active \subseteq e.active /\ d.grants \subseteq e.grants
          /\ d.userRole \subseteq e.userRole
      BY <1>d, <2>1, <3>1 DEF Database
    <3> QED BY <1>3, <2>1, <3>2, <1>g DEF AssignRole
  <2>2. CASE r \notin d.roles
    BY <1>3, <2>2, <1>o, <1>d DEF AssignRole
  <2> QED BY <2>1, <2>2
<1>4. CASE RevokeRole(w)
  <2> DEFINE e == [d EXCEPT !.userRole = @ \ {<<u, r>>}]
  <2>1. e \in Database
    BY <1>d DEF Database
  <2>2. CASE <<u, r>> \in d.userRole
    <3>1. Guarded(w, e) /\ req[w].op \in GuardedMethods /\ UNCHANGED raced
      BY <1>4, <2>2 DEF RevokeRole, Writing, GuardedMethods
    <3> QED BY <2>1, <3>1, GuardedSafe
  <2>3. CASE <<u, r>> \notin d.userRole
    BY <1>4, <2>3, <1>c DEF RevokeRole
  <2> QED BY <2>2, <2>3
<1>5. CASE DeleteRole(w)
  <2>1. Dropped(d, r) \in Database
    BY <1>d DEF Dropped, Database
  <2>2. CASE r \in KeyRoles \cap d.roles
    BY <1>5, <2>2, <1>o, <1>d DEF DeleteRole
  <2>3. CASE r \notin KeyRoles \cap d.roles
    <3>1. Guarded(w, Dropped(d, r)) /\ req[w].op \in GuardedMethods /\ UNCHANGED raced
      BY <1>5, <2>3 DEF DeleteRole, Writing, GuardedMethods
    <3> QED BY <2>1, <3>1, GuardedSafe
  <2> QED BY <2>2, <2>3
<1>6. CASE GrantPermission(w)
  <2> DEFINE e == [d EXCEPT !.grants = @ \cup {r}]
  <2>1. CASE r \in d.roles
    <3>1. e \in Database /\ d.active \subseteq e.active /\ d.grants \subseteq e.grants
          /\ d.userRole \subseteq e.userRole
      BY <1>d, <2>1 DEF Database
    <3> QED BY <1>6, <2>1, <3>1, <1>g DEF GrantPermission
  <2>2. CASE r \notin d.roles
    BY <1>6, <2>2, <1>o, <1>d DEF GrantPermission
  <2> QED BY <2>1, <2>2
<1>7. CASE RevokePermission(w)
  <2> DEFINE e == [d EXCEPT !.grants = @ \ {r}]
  <2>1. e \in Database
    BY <1>d DEF Database
  <2>2. CASE r \in d.grants
    <3>1. Guarded(w, e) /\ req[w].op \in GuardedMethods /\ UNCHANGED raced
      BY <1>7, <2>2 DEF RevokePermission, Writing, GuardedMethods
    <3> QED BY <2>1, <3>1, GuardedSafe
  <2>3. CASE r \notin d.grants
    BY <1>7, <2>3, <1>c DEF RevokePermission
  <2> QED BY <2>2, <2>3
<1>8. CASE CreateUser(w)
  <2> DEFINE With(rs) == [d EXCEPT !.users = @ \cup {u}, !.active = @ \cup {u},
                                   !.userRole = @ \cup ({u} \X rs)]
  <2>1. CASE u \in d.users
    BY <1>8, <2>1, <1>o, <1>d DEF CreateUser
  <2>2. CASE u \notin d.users
    <3>1. u \in User
      BY <1>8, <1>u DEF CreateUser, Writing, UserMethods
    <3>2. ASSUME NEW rs \in SUBSET d.roles
          PROVE  /\ With(rs) \in Database
                 /\ d.active \subseteq With(rs).active /\ d.grants \subseteq With(rs).grants
                 /\ d.userRole \subseteq With(rs).userRole
      BY <1>d, <3>1 DEF Database
    <3>3. CASE req[w].roles \subseteq d.roles
      BY <1>8, <2>2, <3>2, <3>3, <1>g DEF CreateUser
    <3>4. CASE ~(req[w].roles \subseteq d.roles)
      <4>1. PICK rs \in SUBSET (req[w].roles \cap d.roles) : LeaveOpen(w, With(rs))
        BY <1>8, <2>2, <3>4 DEF CreateUser
      <4> QED BY <1>8, <4>1, <3>2, <1>o DEF CreateUser
    <3> QED BY <3>3, <3>4
  <2> QED BY <2>1, <2>2
<1>9. CASE CreateRole(w)
  <2> DEFINE e == [d EXCEPT !.roles = @ \cup {r}, !.born = @ \cup {r}]
  <2>1. \/ LeaveOpen(w, d) \/ CommitTo(w, d, "audit") \/ CommitTo(w, e, "audit")
    BY <1>9 DEF CreateRole
  <2>2. UNCHANGED raced
    BY <1>9 DEF CreateRole
  <2>3. r \in Role
    BY <1>9, <1>u DEF CreateRole, Writing, RoleMethods
  <2>4. e \in Database /\ d.active \subseteq e.active /\ d.grants \subseteq e.grants
        /\ d.userRole \subseteq e.userRole
    BY <2>3, <1>d DEF Database
  <2> QED BY <2>1, <2>2, <2>4, <1>d, <1>c, <1>g, <1>o
<1>10. CASE CreatePermission(w)
  BY <1>10, <1>d, <1>c, <1>o DEF CreatePermission
<1>11. CASE SetPassword(w)
  <2> DEFINE e == [d EXCEPT !.pw[u] = @ + 1, !.sessions = Fresh(d, u)]
  <2>1. CASE u \in d.users /\ d.pw[u] < MaxPw
    <3>1. u \in User /\ d.pw[u] + 1 \in Version
      BY <1>d, <2>1, UserAssumption DEF Database, Version, UserAssumption
    <3>2. Fresh(d, u) \in SUBSET (User \X Version)
      BY <1>d DEF Fresh, Database
    <3>3. e \in Database /\ d.active \subseteq e.active /\ d.grants \subseteq e.grants
          /\ d.userRole \subseteq e.userRole
      BY <1>d, <3>1, <3>2 DEF Database
    <3> HIDE DEF e
    <3>4. CommitTo(w, e, "audit") /\ UNCHANGED raced
      BY <1>11, <2>1 DEF SetPassword, e
    <3> QED BY <3>3, <3>4, <1>g
  <2>2. CASE u \in d.users /\ ~(d.pw[u] < MaxPw)
    BY <1>11, <2>2, RollbackSafe DEF SetPassword
  <2>3. CASE u \notin d.users
    BY <1>11, <2>3, <1>c DEF SetPassword
  <2> QED BY <2>1, <2>2, <2>3
<1>12. CASE InsertSession(w)
  <2> DEFINE s == <<u, req[w].version>>
             e == [d EXCEPT !.sessions = @ \cup {s}]
  <2>1. s \in User \X Version
    BY <1>12, <1>r, <1>u DEF InsertSession, Writing, Request, UserMethods
  <2>2. e \in Database /\ Admins(e) # {}
    BY <1>d, <2>1, AdminsGrow DEF Database
  <2>3. CommitTo(w, e, "idle") /\ raced' \subseteq User \X Version
    BY <1>12, <1>r, <2>1 DEF InsertSession
  <2> QED BY <2>2, <2>3, CommitSafe DEF Steps
<1> QED BY <1>1, <1>2, <1>3, <1>4, <1>5, <1>6, <1>7, <1>8, <1>9, <1>10, <1>11, <1>12 DEF Writes

LEMMA InitSafe == ASSUME Founders # {}, Init PROVE SafeInv
<1>1. db \in Database
  BY UserAssumption DEF Init, Database, Version, UserAssumption
<1>2. \A w \in Worker : req[w] \in Request /\ Prepared(req[w])
  BY StepType DEF Init, Steps
<1>3. TypeOK
  BY <1>1, <1>2, StepType DEF Init, TypeOK, Steps
<1>4. Admins(db) # {}
  BY DEF Init, Admins
<1> QED BY <1>2, <1>3, <1>4 DEF SafeInv, AdminRemains, Init

LEMMA NextSafe == SafeInv /\ [Next]_vars => SafeInv'
<1> SUFFICES ASSUME SafeInv, [Next]_vars PROVE SafeInv'
  OBVIOUS
<1>r. raced \subseteq User \X Version
  BY DEF SafeInv, TypeOK
<1>1. ASSUME NEW w \in Worker, Arrive(w) PROVE SafeInv'
  BY <1>1, ArriveSafe
<1>2. ASSUME NEW w \in Worker, Asks(w) PROVE SafeInv'
  BY <1>2, AsksSafe
<1>3. ASSUME NEW w \in Worker, Writes(w) PROVE SafeInv'
  BY <1>3, WritesSafe
<1>4. ASSUME NEW w \in Worker, Goes(w, "idle"), UNCHANGED <<db, holder, work, raced>>
      PROVE  SafeInv'
  <2>1. \A v \in Worker : req'[v] = IF v = w THEN Step("idle") ELSE req[v]
    BY <1>4 DEF Goes, SafeInv, TypeOK
  <2>2. TypeOK'
    BY <1>4, StepType DEF Goes, SafeInv, TypeOK, Steps
  <2> QED BY <1>4, <2>1, <2>2, StepType DEF SafeInv, AdminRemains, Admins, Steps
<1>5. ASSUME NEW w \in Worker, Audit(w) PROVE SafeInv'
  BY <1>5, <1>r, ViewSafe, CommitSafe DEF Audit, Steps
<1>6. ASSUME NEW gone \in SUBSET Worker, Kill(gone) PROVE SafeInv'
  <2>1. \A v \in Worker : req'[v] = IF v \in gone THEN Step("idle") ELSE req[v]
    BY <1>6 DEF Kill
  <2>2. TypeOK'
    BY <1>6, StepType DEF Kill, SafeInv, TypeOK, Steps
  <2>3. holder' # None => Admins(work') # {}
    BY <1>6 DEF Kill, SafeInv
  <2> QED BY <1>6, <2>1, <2>2, <2>3, StepType DEF Kill, SafeInv, AdminRemains, Admins, Steps
<1>7. CASE UNCHANGED vars
  BY <1>7 DEF SafeInv, TypeOK, AdminRemains, Admins, Prepared, vars
<1>8. \A gone \in {Worker \ Cli} \cup {{c} : c \in Cli} : gone \in SUBSET Worker
  BY UserAssumption DEF UserAssumption
<1> QED
  BY <1>1, <1>2, <1>3, <1>4, <1>5, <1>6, <1>7, <1>8 DEF Next, Respond, Timeout

(***************************************************************************)
(* If there is an administrator at the start, there always is an active     *)
(* user who holds user:admin: the lockout guards of user.py, which decide   *)
(* inside the write transaction, suffice whatever runs concurrently.        *)
(***************************************************************************)
THEOREM LastAdminStays == ASSUME Founders # {} PROVE Spec => []AdminRemains
<1>1. Init => SafeInv
  BY InitSafe
<1>2. SafeInv => AdminRemains
  BY DEF SafeInv
<1> QED BY <1>1, <1>2, NextSafe, PTL DEF Spec

-------------------------------------------------------------------------------
(***************************************************************************)
(* Sessions: of what is committed and of what is left open, one that is not *)
(* of an active user under its present password is in raced.                *)
(***************************************************************************)
FreshIn(d, R) ==
  \A s \in d.sessions : (s[1] \in d.active /\ s[2] = d.pw[s[1]]) \/ s \in R
FreshInv == FreshIn(db, raced) /\ FreshIn(work, raced)

LEMMA FreshView == ASSUME FreshInv, NEW w PROVE FreshIn(View(w), raced)
BY DEF FreshInv, View

LEMMA FreshEnds ==
  ASSUME FreshInv, NEW w, NEW d, NEW s, raced \subseteq raced', FreshIn(d, raced'),
         CommitTo(w, d, s) \/ Rollback(w) \/ LeaveOpen(w, d)
  PROVE  FreshInv'
<1>1. FreshIn(db, raced')
  BY DEF FreshInv, FreshIn
<1>2. db' \in {db, d} /\ work' \in {db, d}
  BY DEF CommitTo, Rollback, LeaveOpen
<1> QED BY <1>1, <1>2 DEF FreshInv

LEMMA FreshWrites ==
  ASSUME SafeInv, FreshInv, NEW w \in Worker, Writes(w)
  PROVE  FreshInv'
<1> DEFINE d == View(w)
           u == req[w].user
           r == req[w].role
<1>d. d \in Database /\ FreshIn(d, raced)
  BY ViewSafe, FreshView
<1>e. ASSUME NEW e, FreshIn(e, raced), UNCHANGED raced,
             (\E s : CommitTo(w, e, s)) \/ Rollback(w) \/ LeaveOpen(w, e)
      PROVE  FreshInv'
  BY <1>e, FreshEnds
<1>g. ASSUME NEW e, d.active \subseteq e.active, e.pw = d.pw, e.sessions = d.sessions
      PROVE  FreshIn(e, raced)
  BY <1>d, <1>g DEF FreshIn
<1>1. CASE Deactivate(w)
  <2> DEFINE e == [d EXCEPT !.active = @ \ {u}, !.sessions = {s \in @ : s[1] # u}]
  <2>1. FreshIn(e, raced)
    BY <1>d DEF FreshIn, Database
  <2> HIDE DEF e
  <2>2. UNCHANGED raced /\ (Guarded(w, e) \/ CommitTo(w, d, "idle"))
    BY <1>1 DEF Deactivate, e
  <2> QED BY <1>d, <1>e, <2>1, <2>2 DEF Guarded
<1>2. CASE Activate(w)
  <2> DEFINE e == [d EXCEPT !.active = @ \cup {u}]
  <2>1. FreshIn(e, raced)
    BY <1>d, <1>g DEF Database
  <2> QED BY <1>2, <1>d, <1>e, <2>1 DEF Activate
<1>3. CASE AssignRole(w)
  <2> DEFINE e == [d EXCEPT !.userRole = @ \cup {<<u, r>>}]
  <2>1. FreshIn(e, raced)
    BY <1>d, <1>g DEF Database
  <2> QED BY <1>3, <1>d, <1>e, <2>1 DEF AssignRole
<1>4. CASE RevokeRole(w)
  <2> DEFINE e == [d EXCEPT !.userRole = @ \ {<<u, r>>}]
  <2>1. FreshIn(e, raced)
    BY <1>d, <1>g DEF Database
  <2> QED BY <1>4, <1>d, <1>e, <2>1 DEF RevokeRole, Guarded
<1>5. CASE DeleteRole(w)
  <2>1. FreshIn(Dropped(d, r), raced)
    BY <1>d, <1>g DEF Database, Dropped
  <2> QED BY <1>5, <1>d, <1>e, <2>1 DEF DeleteRole, Guarded
<1>6. CASE GrantPermission(w) \/ RevokePermission(w)
  <2> DEFINE e == [d EXCEPT !.grants = @ \cup {r}]
             f == [d EXCEPT !.grants = @ \ {r}]
  <2>1. FreshIn(e, raced) /\ FreshIn(f, raced)
    BY <1>d, <1>g DEF Database
  <2> QED BY <1>6, <1>d, <1>e, <2>1 DEF GrantPermission, RevokePermission, Guarded
<1>7. CASE CreateUser(w)
  <2> DEFINE With(rs) == [d EXCEPT !.users = @ \cup {u}, !.active = @ \cup {u},
                                   !.userRole = @ \cup ({u} \X rs)]
  <2>1. ASSUME NEW rs PROVE FreshIn(With(rs), raced)
    BY <1>d, <1>g DEF Database
  <2>2. /\ UNCHANGED raced
        /\ LeaveOpen(w, d) \/ \E rs : CommitTo(w, With(rs), "audit") \/ LeaveOpen(w, With(rs))
    BY <1>7 DEF CreateUser
  <2> HIDE DEF With
  <2> QED BY <1>d, <1>e, <2>1, <2>2
<1>8. CASE CreateRole(w) \/ CreatePermission(w)
  <2> DEFINE e == [d EXCEPT !.roles = @ \cup {r}, !.born = @ \cup {r}]
  <2>1. FreshIn(e, raced)
    BY <1>d, <1>g DEF Database
  <2> QED BY <1>8, <1>d, <1>e, <2>1 DEF CreateRole, CreatePermission
<1>9. CASE SetPassword(w)
  <2> DEFINE e == [d EXCEPT !.pw[u] = @ + 1, !.sessions = Fresh(d, u)]
  <2>1. /\ e.sessions = {s \in d.sessions : s[1] # u} /\ e.active = d.active
        /\ \A v \in User : v # u => e.pw[v] = d.pw[v]
    BY <1>d DEF Database, Fresh
  <2>2. \A s \in d.sessions : s[1] \in User
    BY <1>d DEF Database
  <2> HIDE DEF e
  <2>3. FreshIn(e, raced)
    BY <1>d, <2>1, <2>2 DEF FreshIn
  <2>4. UNCHANGED raced /\ (CommitTo(w, e, "audit") \/ Rollback(w) \/ CommitTo(w, d, "idle"))
    BY <1>9 DEF SetPassword, e
  <2> QED BY <1>d, <1>e, <2>3, <2>4
<1>10. CASE InsertSession(w)
  <2> DEFINE s == <<u, req[w].version>>
             e == [d EXCEPT !.sessions = @ \cup {s}]
  <2>1. raced' = IF req[w].version # d.pw[u] \/ u \notin d.active THEN raced \cup {s} ELSE raced
    BY <1>10 DEF InsertSession
  <2>2. e.sessions = d.sessions \cup {s} /\ e.active = d.active /\ e.pw = d.pw
    BY <1>d DEF Database
  <2>3. s[1] = u /\ s[2] = req[w].version
    OBVIOUS
  <2>4. CommitTo(w, e, "idle")
    BY <1>10 DEF InsertSession
  <2> HIDE DEF e, s
  <2>5. FreshIn(e, raced') /\ raced \subseteq raced'
    BY <1>d, <2>1, <2>2, <2>3 DEF FreshIn
  <2> QED BY <2>4, <2>5, FreshEnds
<1> QED BY <1>1, <1>2, <1>3, <1>4, <1>5, <1>6, <1>7, <1>8, <1>9, <1>10 DEF Writes

LEMMA FreshSafe ==
  ASSUME SafeInv, FreshInv, [Next]_vars
  PROVE  FreshInv'
<1>1. ASSUME NEW w \in Worker, Arrive(w) PROVE FreshInv'
  <2>1. CASE Gate(w)
    BY <2>1, FreshView, FreshEnds DEF Gate
  <2>2. CASE AskLogin(w)
    BY <2>2 DEF AskLogin, Ask, FreshInv
  <2>3. CASE Logout(w)
    <3>1. PICK s \in View(w).sessions : CommitTo(w, [View(w) EXCEPT !.sessions = @ \ {s}], "idle")
      BY <2>3 DEF Logout
    <3> DEFINE e == [View(w) EXCEPT !.sessions = @ \ {s}]
    <3>2. FreshIn(e, raced)
      BY ViewSafe, FreshView DEF FreshIn, Database
    <3> HIDE DEF e
    <3>3. CommitTo(w, e, "idle") /\ UNCHANGED raced
      BY <2>3, <3>1 DEF Logout, e
    <3> QED BY <3>2, <3>3, FreshEnds
  <2> QED BY <1>1, <2>1, <2>2, <2>3 DEF Arrive
<1>2. ASSUME NEW w \in Worker, Asks(w) PROVE FreshInv'
  BY <1>2 DEF Asks, AskWrite, AskDeactivate, AskUserRole, AskRole, AskCreateUser, Ask, FreshInv
<1>3. ASSUME NEW w \in Worker, Writes(w) PROVE FreshInv'
  BY <1>3, FreshWrites
<1>4. CASE UNCHANGED <<db, work, raced>>
  BY <1>4 DEF FreshInv
<1>5. ASSUME NEW w \in Worker, Audit(w) PROVE FreshInv'
  BY <1>5, FreshView, FreshEnds DEF Audit
<1>6. ASSUME NEW gone, Kill(gone) PROVE FreshInv'
  BY <1>6 DEF Kill, FreshInv
<1> QED BY <1>1, <1>2, <1>3, <1>4, <1>5, <1>6 DEF Next, Respond, Timeout, vars

(***************************************************************************)
(* If there is an administrator at the start, a session of an inactive user *)
(* or of a password that has been changed is one that a login of user.py    *)
(* inserted after the change, having verified before it: nothing else keeps *)
(* a session alive.                                                         *)
(***************************************************************************)
THEOREM StaleSessionsRaced == ASSUME Founders # {} PROVE Spec => []StaleOnlyByRace
<1>1. Init => SafeInv /\ FreshInv
  BY InitSafe, UserAssumption DEF Init, FreshInv, FreshIn, UserAssumption
<1>2. SafeInv /\ FreshInv /\ [Next]_vars => (SafeInv /\ FreshInv)'
  BY NextSafe, FreshSafe
<1>3. FreshInv => StaleOnlyByRace
  BY DEF FreshInv, FreshIn, StaleOnlyByRace
<1> QED BY <1>1, <1>2, <1>3, PTL DEF Spec
===============================================================================
