------------------------------- MODULE Models -------------------------------
(***************************************************************************)
(* Administration of scoring models (models.py): base models, composites    *)
(* that weight base models and super composites that weight composites are  *)
(* registered, rewritten, archived and deleted by server threads and by     *)
(* commands, while scoring runs store scores under them.  Every operation   *)
(* reads and checks first and writes afterwards in a transaction that does  *)
(* not check again.                                                         *)
(***************************************************************************)
EXTENDS Integers, FiniteSets

CONSTANTS
  Versions,   \* version strings
  Threads,    \* server threads: requests to the admin routes
  Commands,   \* processes of the models command
  MaxRefs,    \* bound: children of one definition
  MaxCalls,   \* bound: operations ever checked
  None

VARIABLES
  models,   \* score_model and score_factor as committed
  open,     \* the transaction an error has left open, and what it would store
  scored,   \* versions with scores and their factor values
  batch,    \* a scoring run: the models it has loaded
  call,     \* per client, the operation it has checked and not written
  raced,    \* models another commit came upon between their check and write
  edited,   \* models one of whose children was rewritten since
  calls     \* operations checked so far

tables == <<models, open, scored>>
vars == <<tables, batch, call, raced, edited, calls>>

Clients == Threads \cup Commands
Modes == {"computed", "manual"}
ChildKind == [composite |-> "model", super_composite |-> "composite"]
Kinds == {"model"} \cup DOMAIN ChildKind
Model == [kind: Kinds, mode: Modes, refs: SUBSET Versions, archived: BOOLEAN]
ASSUME ModelsAssumption ==
  /\ Threads \cap Commands = {}
  /\ None \notin Model /\ None \notin Versions
  /\ MaxRefs \in Nat /\ MaxCalls \in Nat

Base == [kind |-> "model", mode |-> "computed", refs |-> {}, archived |-> FALSE]
Tables == [Versions -> Model \cup {None}]
Ops == {"register", "update", "delete", "force", "archive", "unarchive"}

(* What validate_toml lets through, as far as models depend on each other.  *)
Wellformed(d) ==
  /\ d.kind = "model" <=> d.refs = {}
  /\ d.mode = "manual" => d.kind = "model"
Definitions ==
  {d \in [kind: Kinds, mode: Modes, refs: SUBSET Versions, archived: {FALSE}] :
     Wellformed(d) /\ Cardinality(d.refs) <= MaxRefs}

Call ==
  {k \in [op: Ops, v: Versions, def: Definitions \cup {None}, stale: BOOLEAN] :
     k.def = None <=> k.op \notin {"register", "update"}}

TypeOK ==
  /\ models \in Tables
  /\ open \in [by: Threads, models: Tables] \cup {None}
  /\ scored \subseteq Versions
  /\ batch \in [models: SUBSET Versions, broken: BOOLEAN] \cup {None}
  /\ call \in [Clients -> Call \cup {None}]
  /\ raced \subseteq Versions /\ edited \subseteq Versions
  /\ calls \in 0..MaxCalls

(* A new database holds one base model; the catalog puts a composite on it. *)
Shipped ==
  {[v \in Versions |-> IF v = b THEN Base ELSE None] : b \in Versions}
Catalog(t) == [kind |-> "composite", mode |-> "computed",
               refs |-> {v \in Versions : t[v] # None}, archived |-> FALSE]

Init ==
  /\ \/ models \in Shipped
     \/ \E t \in Shipped, c \in Versions :
          t[c] = None /\ models = [t EXCEPT ![c] = Catalog(t)]
  /\ open = None
  /\ scored = {} /\ batch = None
  /\ call = [c \in Clients |-> None]
  /\ raced = {} /\ edited = {} /\ calls = 0

-----------------------------------------------------------------------------
(* Reads.                                                                   *)

(* A thread sees its own uncommitted rows, everyone else the committed ones.*)
View(c) == IF open # None /\ open.by = c THEN open.models ELSE models
Referring(t, v) == {w \in Versions : t[w] # None /\ v \in t[w].refs}
Dependents(t, v) == Referring(t, v) \ {v}
ListComputed == {v \in Versions : /\ models[v] # None
                                  /\ models[v].mode = "computed"
                                  /\ ~models[v].archived}
Cyclic(t) == \E S \in SUBSET Versions :
               /\ S # {}
               /\ \A v \in S : t[v] # None /\ t[v].refs \cap S # {}

\* mutant: the check does not ask whether the child is archived
RefsValidButArchived(t, d) ==
  \A r \in d.refs : /\ t[r] # None
                    /\ t[r].mode = "computed"
                    /\ t[r].kind = ChildKind[d.kind]
(* _validate_composite_refs: the children exist, are live and computed, and *)
(* of the kind one level down.                                              *)
RefsValid(t, d) ==
  \A r \in d.refs : /\ t[r] # None
                    /\ t[r].mode = "computed"
                    /\ ~t[r].archived
                    /\ t[r].kind = ChildKind[d.kind]

(* What an operation checks of the models before it writes.                 *)
Checked(t, op, v, d) ==
  CASE op = "register"  -> RefsValid(t, d) /\ t[v] = None
    [] op = "update"    -> t[v] # None /\ RefsValid(t, d)
    [] op \in {"delete", "force"} -> t[v] # None /\ Dependents(t, v) = {}
    [] op = "archive"   -> /\ t[v] # None
                           /\ \A w \in Dependents(t, v) : t[w].archived
    [] op = "unarchive" -> /\ t[v] # None
                           /\ \A r \in t[v].refs : t[r] # None => ~t[r].archived

OpsOf(c) == IF c \in Threads THEN Ops \ {"force"} ELSE Ops \ {"update"}

(* The first half of an operation: validation and every check.              *)
Check(c) ==
  /\ call[c] = None /\ calls < MaxCalls /\ calls' = calls + 1
  /\ \E op \in OpsOf(c), v \in Versions :
       \E d \in IF op \in {"register", "update"} THEN Definitions ELSE {None} :
         /\ Checked(View(c), op, v, d)
         /\ op = "delete" => v \notin scored
         /\ call' = [call EXCEPT ![c] = [op |-> op, v |-> v, def |-> d, stale |-> FALSE]]
  /\ UNCHANGED <<tables, batch, raced, edited>>

-----------------------------------------------------------------------------
(* Writes.                                                                  *)

(* One writer at a time: an open transaction shuts the others out.          *)
MayWrite(c) == open # None => open.by = c

(* A commit: whoever has checked and not written yet has old knowledge.     *)
Commit(c, t) ==
  /\ models' = t /\ open' = None
  /\ call' = [x \in Clients |->
       IF x = c \/ call[x] = None THEN None ELSE [call[x] EXCEPT !.stale = TRUE]]

Breaks(v) ==
  batch' = IF batch # None /\ v \in batch.models
           THEN [batch EXCEPT !.broken = TRUE] ELSE batch

Pending(c, ops) == call[c] # None /\ call[c].op \in ops /\ MayWrite(c)

(* An error that is no ValueError ends a command, which rolls back, but in  *)
(* a server thread leaves the transaction it has begun.                     *)
Fails(c, t) ==
  /\ open' = IF c \in Threads THEN [by |-> c, models |-> t] ELSE open
  /\ call' = [call EXCEPT ![c] = None]
  /\ UNCHANGED <<models, scored, batch>>

Register(c) ==
  /\ Pending(c, {"register"})
  /\ LET v == call[c].v  t == View(c) IN
     IF t[v] = None
     THEN /\ Commit(c, [t EXCEPT ![v] = call[c].def])
          /\ raced' = IF call[c].stale THEN raced \cup {v} ELSE raced \ {v}
          /\ edited' = edited \ {v}
          /\ UNCHANGED <<scored, batch>>
     ELSE Fails(c, t) /\ UNCHANGED <<raced, edited>>

(* update_model: header and factor rows are replaced.  Stored values hold   *)
(* the old factor rows, and the edit then stops after the header.           *)
Update(c) ==
  /\ Pending(c, {"update"})
  /\ LET v == call[c].v  t == View(c)  d == call[c].def IN
     IF t[v] = None
     THEN /\ call' = [call EXCEPT ![c] = None]
          /\ UNCHANGED <<tables, batch, raced, edited>>
     ELSE IF v \in scored
     THEN /\ Fails(c, [t EXCEPT ![v].kind = d.kind, ![v].mode = d.mode])
          /\ edited' = edited \cup Referring(t, v) \cup {v}
          /\ UNCHANGED raced
     ELSE LET new == [t EXCEPT ![v] = [d EXCEPT !.archived = t[v].archived]] IN
          /\ Commit(c, new)
          /\ raced' = IF call[c].stale THEN raced \cup {v} ELSE raced \ {v}
          /\ edited' = (edited \ {v}) \cup Referring(new, v)
          /\ Breaks(v) /\ UNCHANGED scored

Delete(c) ==
  /\ Pending(c, {"delete", "force"})
  /\ LET v == call[c].v  t == View(c) IN
     IF t[v] = None
     THEN /\ call' = [call EXCEPT ![c] = None]
          /\ UNCHANGED <<tables, batch, raced, edited>>
     ELSE /\ Commit(c, [t EXCEPT ![v] = None])
          /\ scored' = scored \ {v}
          /\ raced' = raced \cup Dependents(t, v)
          /\ Breaks(v) /\ UNCHANGED edited

Archive(c) ==
  /\ Pending(c, {"archive", "unarchive"})
  /\ LET v == call[c].v  t == View(c)  on == call[c].op = "archive" IN
     /\ Commit(c, IF t[v] = None THEN t ELSE [t EXCEPT ![v].archived = on])
     /\ raced' = IF ~call[c].stale THEN raced
                 ELSE raced \cup IF on THEN Dependents(t, v) ELSE {v}
     /\ UNCHANGED <<scored, batch, edited>>

(* The lock is not given up within the busy timeout: the request fails.     *)
Locked(c) ==
  /\ call[c] # None /\ ~MayWrite(c)
  /\ call' = [call EXCEPT ![c] = None]
  /\ UNCHANGED <<tables, batch, raced, edited>>

(* Any later commit of the thread stores what its transaction holds.        *)
Surface(c) ==
  /\ open # None /\ open.by = c /\ call[c] = None
  /\ Commit(c, open.models)
  /\ UNCHANGED <<scored, batch, raced, edited>>

(* The server ends: its threads' work is rolled back.                       *)
ServerEnds ==
  /\ open # None
  /\ open' = None
  /\ call' = [c \in Clients |-> IF c \in Threads THEN None ELSE call[c]]
  /\ UNCHANGED <<models, scored, batch, raced, edited>>

-----------------------------------------------------------------------------
(* Scores, as far as models depend on them.                                 *)

Stores(versions) ==
  /\ open = None
  /\ scored' = scored \cup versions
  /\ call' = [c \in Clients |->
       IF call[c] = None THEN None ELSE [call[c] EXCEPT !.stale = TRUE]]

(* A rebuild loads every live computed model, children first.               *)
BatchStart ==
  /\ batch = None /\ ~Cyclic([v \in Versions |->
       IF v \in ListComputed THEN models[v] ELSE None])
  /\ batch' = [models |-> ListComputed, broken |-> FALSE]
  /\ UNCHANGED <<tables, call, raced, edited>>
(* It stores an organization's scores under the factor rows it has loaded.  *)
BatchScore ==
  /\ batch # None /\ ~batch.broken
  /\ Stores(batch.models)
  /\ UNCHANGED <<models, open, batch, raced, edited>>
BatchEnd ==
  /\ batch # None
  /\ batch' = None
  /\ UNCHANGED <<tables, call, raced, edited>>
(* A person grades a manual model; every filing is purged.                  *)
Grade(v) ==
  /\ models[v] # None /\ models[v].mode = "manual"
  /\ Stores({v})
  /\ UNCHANGED <<models, open, batch, raced, edited>>
Purge ==
  /\ open = None /\ scored # {}
  /\ scored' = {}
  /\ UNCHANGED <<models, open, batch, call, raced, edited>>

Next ==
  \/ \E c \in Clients :
       \/ Check(c)
       \/ (Register(c) \/ Update(c) \/ Delete(c) \/ Archive(c)
           \/ Locked(c) \/ Surface(c)) /\ UNCHANGED calls
  \/ (ServerEnds \/ BatchStart \/ BatchScore \/ BatchEnd \/ Purge
      \/ \E v \in Versions : Grade(v)) /\ UNCHANGED calls

Spec == Init /\ [][Next]_vars

-----------------------------------------------------------------------------
(* Properties.                                                              *)

(***************************************************************************)
(* Composites stay computable: what a model weights is stored, is live if   *)
(* the model is, and, unless the child was rewritten after the model, is a  *)
(* computed model one level down; also in a transaction left open.  Only a  *)
(* commit between a check and its write excuses a model.                    *)
(***************************************************************************)
ComposedIn(t) ==
  \A v \in Versions \ raced : t[v] # None =>
    \A r \in t[v].refs :
      /\ t[r] # None
      /\ ~t[v].archived => ~t[r].archived
      /\ v \notin edited => /\ t[r].mode = "computed"
                            /\ t[v].kind # "model"
                            /\ t[r].kind = ChildKind[t[v].kind]
Composed == ComposedIn(models) /\ (open # None => ComposedIn(open.models))

(* What a fresh operation has checked of the models still holds.            *)
StillChecked ==
  \A c \in Clients : call[c] # None /\ ~call[c].stale =>
    Checked(View(c), call[c].op, call[c].v, call[c].def)

ModelsInv == TypeOK /\ Composed /\ StillChecked

(***************************************************************************)
(* Registration blocks composites whose children cannot be ordered: the     *)
(* engine's cycle check is only a fallback for edits of the database.       *)
(***************************************************************************)
NoCycle == ~Cyclic(models)

(***************************************************************************)
(* An edit rewrites the header and replaces all factor rows: a stored model *)
(* has children exactly when its kind says so.                              *)
(***************************************************************************)
EditsWhole == \A v \in Versions : models[v] # None => Wellformed(models[v])
=============================================================================
