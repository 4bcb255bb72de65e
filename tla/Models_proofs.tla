---------------------------- MODULE Models_proofs ----------------------------
(* Proofs about model administration, for any versions and clients.         *)
EXTENDS Models, TLAPS

USE DEF tables, vars, Clients, Modes, Kinds, ChildKind, Model, Tables, Ops

LEMMA ViewType == ASSUME TypeOK, NEW c \in Clients PROVE View(c) \in Tables
  BY DEF TypeOK, View

LEMMA DefinitionType ==
  ASSUME NEW d \in Definitions PROVE d \in Model /\ Wellformed(d) /\ ~d.archived
  BY DEF Definitions

LEMMA ViewComposed ==
  ASSUME Composed, NEW c \in Clients PROVE ComposedIn(View(c))
  BY DEF Composed, View

(* No record stands for nothing.                                            *)
LEMMA NoneApart ==
  ASSUME NEW t \in Tables, NEW v \in Versions, t[v] # None PROVE t[v] \in Model
  OBVIOUS

(* What was read before a commit of another client is marked old.           *)
LEMMA CommitStales ==
  ASSUME TypeOK, NEW c \in Clients, NEW t, Commit(c, t) PROVE StillChecked'
  BY DEF Commit, StillChecked, TypeOK, Call

LEMMA CommitType ==
  ASSUME TypeOK, NEW c \in Clients, NEW t \in Tables, Commit(c, t)
  PROVE /\ (models \in Tables)'
        /\ (open \in [by: Threads, models: Tables] \cup {None})'
        /\ (call \in [Clients -> Call \cup {None}])'
  BY DEF Commit, TypeOK, Call

(* An operation that fails leaves what it has begun to its own thread.      *)
LEMMA FailsKeeps ==
  ASSUME TypeOK, StillChecked, NEW c \in Clients, NEW t \in Tables,
         MayWrite(c), Fails(c, t)
  PROVE  /\ StillChecked'
         /\ (open \in [by: Threads, models: Tables] \cup {None})'
         /\ (call \in [Clients -> Call \cup {None}])'
<1>1. /\ open' = IF c \in Threads THEN [by |-> c, models |-> t] ELSE open
      /\ call' = [call EXCEPT ![c] = None]
      /\ models' = models
  BY DEF Fails
<1>2. call \in [Clients -> Call \cup {None}]
  BY DEF TypeOK
<1>3. ASSUME NEW x \in Clients, x # c PROVE View(x)' = View(x)
  BY <1>1, <1>3 DEF View, MayWrite
<1>4. ASSUME NEW x \in Clients, (call[x] # None /\ ~call[x].stale)'
      PROVE  Checked(View(x), call[x].op, call[x].v, call[x].def)'
  <2>1. x # c /\ call'[x] = call[x]
    BY <1>1, <1>2, <1>4
  <2>2. Checked(View(x), call[x].op, call[x].v, call[x].def)
    BY <1>4, <2>1 DEF StillChecked
  <2> QED BY <1>3, <2>1, <2>2
<1> QED BY <1>1, <1>2, <1>4 DEF StillChecked, TypeOK

(* Registration puts a valid definition where nothing was.                  *)
LEMMA RegisterKeeps ==
  ASSUME ModelsInv, calls' = calls, NEW c \in Clients, Register(c)
  PROVE  ModelsInv'
<1> DEFINE v == call[c].v
           d == call[c].def
           t == View(c)
           new == [t EXCEPT ![v] = d]
<1>1. /\ v \in Versions /\ call[c].op = "register" /\ call[c] \in Call
      /\ t \in Tables /\ ComposedIn(t) /\ TypeOK /\ StillChecked /\ MayWrite(c)
      /\ call[c] # None /\ Composed
  BY ViewType, ViewComposed DEF ModelsInv, Register, Pending, TypeOK, Call
<1>2. CASE t[v] # None
  <2>1. Fails(c, t) /\ UNCHANGED <<raced, edited>>
    BY <1>2 DEF Register
  <2>2. UNCHANGED <<models, scored, batch>> /\ (open' # None => open'.models = t \/ open' = open)
    BY <2>1 DEF Fails
  <2>3. TypeOK'
    BY <1>1, <2>1, <2>2, FailsKeeps DEF TypeOK
  <2>4. Composed'
    BY <1>1, <2>1, <2>2 DEF Composed, ComposedIn
  <2> QED BY <1>1, <2>1, <2>3, <2>4, FailsKeeps DEF ModelsInv
<1>3. CASE t[v] = None
  <2>1. /\ Commit(c, new) /\ edited' = edited \ {v}
        /\ raced' = IF call[c].stale THEN raced \cup {v} ELSE raced \ {v}
        /\ UNCHANGED <<scored, batch>>
    BY <1>3 DEF Register
  <2>2. d \in Definitions /\ d \in Model /\ d # None /\ Wellformed(d) /\ ~d.archived
    BY <1>1, DefinitionType DEF Call
  <2>3. new \in Tables
    BY <1>1, <2>2
  <2>4. ASSUME NEW w \in Versions \ raced', new[w] # None, NEW r \in new[w].refs
        PROVE  /\ new[r] # None
               /\ ~new[w].archived => ~new[r].archived
               /\ w \notin edited' => /\ new[r].mode = "computed"
                                     /\ new[w].kind # "model"
                                     /\ new[r].kind = ChildKind[new[w].kind]
    <3>1. CASE w = v
      <4>1. new[w] = d /\ ~call[c].stale
        BY <1>1, <2>1, <2>4, <3>1
      <4>2. Checked(t, "register", v, d)
        BY <1>1, <4>1 DEF StillChecked
      <4>3. RefsValid(t, d)
        BY <4>2 DEF Checked
      <4>4. r \in Versions /\ r # v /\ new[r] = t[r]
        BY <1>1, <1>3, <2>2, <2>4, <4>1, <4>3 DEF RefsValid
      <4> QED BY <2>2, <2>4, <4>1, <4>3, <4>4 DEF RefsValid, Wellformed
    <3>2. CASE w # v
      <4>1. new[w] = t[w] /\ w \in Versions \ raced /\ t[w] \in Model
        BY <1>1, <2>1, <2>4, <3>2
      <4>2. r \in Versions /\ t[r] # None
        BY <1>1, <2>4, <4>1 DEF ComposedIn
      <4>3. new[r] = t[r]
        BY <1>1, <1>3, <4>2
      <4> QED BY <1>1, <2>1, <2>4, <3>2, <4>1, <4>2, <4>3 DEF ComposedIn
    <3> QED BY <3>1, <3>2
  <2>5. Composed'
    BY <2>1, <2>4 DEF Composed, ComposedIn, Commit
  <2>6. TypeOK'
    BY <1>1, <2>1, <2>3, CommitType DEF TypeOK
  <2>7. StillChecked'
    BY <1>1, <2>1, CommitStales
  <2> QED BY <2>5, <2>6, <2>7 DEF ModelsInv
<1> QED BY <1>2, <1>3

(* An update replaces a definition by a valid one, or stops after the header.*)
LEMMA UpdateKeeps ==
  ASSUME ModelsInv, calls' = calls, NEW c \in Clients, Update(c)
  PROVE  ModelsInv'
<1> DEFINE v == call[c].v
           d == call[c].def
           t == View(c)
           half == [t EXCEPT ![v].kind = d.kind, ![v].mode = d.mode]
           new == [t EXCEPT ![v] = [d EXCEPT !.archived = t[v].archived]]
<1>1. /\ v \in Versions /\ call[c].op = "update" /\ call[c] \in Call
      /\ t \in Tables /\ ComposedIn(t) /\ TypeOK /\ StillChecked /\ MayWrite(c)
      /\ call[c] # None /\ Composed
  BY ViewType, ViewComposed DEF ModelsInv, Update, Pending, TypeOK, Call
<1>2. d \in Definitions /\ d \in Model /\ d # None /\ Wellformed(d)
  BY <1>1, DefinitionType DEF Call
<1>3. CASE t[v] = None
  <2>1. /\ call' = [call EXCEPT ![c] = None]
        /\ UNCHANGED <<tables, batch, raced, edited>>
    BY <1>3 DEF Update
  <2> QED BY <1>1, <2>1 DEF ModelsInv, TypeOK, Composed, ComposedIn, StillChecked, View
<1>4. CASE t[v] # None /\ v \in scored
  <2>1. /\ Fails(c, half) /\ raced' = raced
        /\ edited' = edited \cup Referring(t, v) \cup {v}
    BY <1>4 DEF Update
  <2>2. /\ UNCHANGED <<models, scored, batch>>
        /\ open' # None => open'.models = half \/ open' = open
    BY <2>1 DEF Fails
  <2>3. half \in Tables /\ half[v] # None /\ half[v].archived = t[v].archived
        /\ half[v].refs = t[v].refs
        /\ \A w \in Versions \ {v} : half[w] = t[w]
    <3>1. t[v] \in Model
      BY <1>1, <1>4, NoneApart
    <3>2. half = [t EXCEPT ![v] = [t[v] EXCEPT !.kind = d.kind, !.mode = d.mode]]
      BY <1>1
    <3>3. [t[v] EXCEPT !.kind = d.kind, !.mode = d.mode] \in Model
      BY <1>2, <3>1
    <3>4. half[v] = [t[v] EXCEPT !.kind = d.kind, !.mode = d.mode]
      BY <1>1, <3>2
    <3>5. half \in Tables /\ \A w \in Versions \ {v} : half[w] = t[w]
      BY <1>1, <3>2, <3>3
    <3> HIDE DEF half
    <3>6. half[v].archived = t[v].archived /\ half[v].refs = t[v].refs
      BY <3>1, <3>4
    <3>7. half[v] # None
      BY <3>3, <3>4, ModelsAssumption
    <3> QED BY <3>5, <3>6, <3>7
  <2>4. ASSUME NEW w \in Versions \ raced, half[w] # None, NEW r \in half[w].refs
        PROVE  /\ half[r] # None
               /\ ~half[w].archived => ~half[r].archived
               /\ w \notin edited' => /\ half[r].mode = "computed"
                                     /\ half[w].kind # "model"
                                     /\ half[r].kind = ChildKind[half[w].kind]
    <3>1. w \in Versions \ raced /\ half[w] # None /\ r \in half[w].refs
      BY <2>4
    <3>2. t[w] # None /\ r \in t[w].refs /\ half[w].archived = t[w].archived
      BY <1>4, <2>3, <3>1
    <3>3. ~t[w].archived => ~t[r].archived
      BY <1>1, <3>1, <3>2 DEF ComposedIn
    <3>4. r \in Versions /\ t[r] # None
      BY <1>1, <3>1, <3>2, NoneApart DEF ComposedIn
    <3>5. half[r] # None /\ half[r].archived = t[r].archived
      BY <2>3, <3>4
    <3>6. CASE w \in edited'
      BY <3>2, <3>3, <3>4, <3>5, <3>6
    <3>7. CASE w \notin edited'
      <4>1. w # v /\ r # v /\ w \notin edited
        BY <2>1, <3>1, <3>2, <3>7 DEF Referring
      <4>2. half[w] = t[w] /\ half[r] = t[r]
        BY <2>3, <3>4, <4>1
      <4> QED BY <1>1, <3>1, <3>2, <3>4, <4>1, <4>2 DEF ComposedIn
    <3> QED BY <3>6, <3>7
  <2> HIDE DEF half
  <2>5. Composed'
    <3>1. ComposedIn(models)'
      BY <1>1, <2>1, <2>2 DEF Composed, ComposedIn
    <3>2. ASSUME open' # None PROVE ComposedIn(open.models)'
      <4>1. CASE open' = open
        BY <1>1, <2>1, <3>2, <4>1 DEF Composed, ComposedIn
      <4>2. CASE open'.models = half
        BY <2>1, <2>4, <4>2 DEF ComposedIn
      <4> QED BY <2>2, <3>2, <4>1, <4>2
    <3> QED BY <3>1, <3>2 DEF Composed
  <2>6. TypeOK'
    BY <1>1, <2>1, <2>2, <2>3, FailsKeeps DEF TypeOK, Referring
  <2> QED BY <1>1, <2>1, <2>3, <2>5, <2>6, FailsKeeps DEF ModelsInv
<1>5. CASE t[v] # None /\ v \notin scored
  <2>1. /\ Commit(c, new) /\ edited' = (edited \ {v}) \cup Referring(new, v)
        /\ raced' = IF call[c].stale THEN raced \cup {v} ELSE raced \ {v}
        /\ Breaks(v) /\ UNCHANGED scored
    BY <1>5 DEF Update
  <2>2. new \in Tables /\ new[v] # None /\ new[v].archived = t[v].archived
        /\ new[v].refs = d.refs /\ new[v].kind = d.kind
        /\ \A w \in Versions \ {v} : new[w] = t[w]
    <3>1. t[v] \in Model
      BY <1>1, <1>5, NoneApart
    <3>2. [d EXCEPT !.archived = t[v].archived] \in Model
      BY <1>2, <3>1
    <3>3. new[v] = [d EXCEPT !.archived = t[v].archived]
      BY <1>1
    <3>4. new \in Tables /\ \A w \in Versions \ {v} : new[w] = t[w]
      BY <1>1, <3>2
    <3>5. new[v] # None
      BY <3>2, <3>3, ModelsAssumption
    <3>6. /\ new[v].archived = t[v].archived
          /\ new[v].refs = d.refs /\ new[v].kind = d.kind
      BY <1>2, <3>3
    <3> QED BY <3>4, <3>5, <3>6
  <2>3. ASSUME NEW w \in Versions \ raced', new[w] # None, NEW r \in new[w].refs
        PROVE  /\ new[r] # None
               /\ ~new[w].archived => ~new[r].archived
               /\ w \notin edited' => /\ new[r].mode = "computed"
                                     /\ new[w].kind # "model"
                                     /\ new[r].kind = ChildKind[new[w].kind]
    <3>1. CASE w = v
      <4>1. r \in d.refs /\ ~call[c].stale
        BY <2>1, <2>2, <2>3, <3>1
      <4>2. RefsValid(t, d)
        BY <1>1, <4>1 DEF StillChecked, Checked
      <4>3. /\ r \in Versions /\ t[r] # None /\ ~t[r].archived
            /\ t[r].mode = "computed" /\ t[r].kind = ChildKind[d.kind]
        BY <1>2, <4>1, <4>2 DEF RefsValid
      <4>4. CASE r = v
        BY <1>5, <2>1, <2>2, <2>3, <3>1, <4>3, <4>4 DEF Referring
      <4>5. CASE r # v
        BY <1>2, <2>2, <3>1, <4>1, <4>3, <4>5 DEF Wellformed
      <4> QED BY <4>4, <4>5
    <3>2. CASE w # v
      <4>1. new[w] = t[w] /\ w \in Versions \ raced /\ t[w] \in Model
        BY <1>1, <2>1, <2>2, <2>3, <3>2
      <4>2. r \in Versions /\ t[r] # None /\ (~t[w].archived => ~t[r].archived)
        BY <1>1, <2>3, <4>1 DEF ComposedIn
      <4>3. CASE r = v
        BY <1>5, <2>1, <2>2, <2>3, <4>1, <4>2, <4>3 DEF Referring
      <4>4. CASE r # v
        BY <1>1, <2>1, <2>2, <2>3, <3>2, <4>1, <4>2, <4>4 DEF ComposedIn
      <4> QED BY <4>3, <4>4
    <3> QED BY <3>1, <3>2
  <2>4. Composed'
    BY <2>1, <2>3 DEF Composed, ComposedIn, Commit
  <2>5. TypeOK'
    BY <1>1, <2>1, <2>2, CommitType DEF TypeOK, Referring, Breaks
  <2>6. StillChecked'
    BY <1>1, <2>1, CommitStales
  <2> QED BY <2>4, <2>5, <2>6 DEF ModelsInv
<1> QED BY <1>3, <1>4, <1>5

(* A deletion takes a model nothing refers to, or excuses what does.        *)
LEMMA DeleteKeeps ==
  ASSUME ModelsInv, calls' = calls, NEW c \in Clients, Delete(c)
  PROVE  ModelsInv'
<1> DEFINE v == call[c].v
           t == View(c)
           new == [t EXCEPT ![v] = None]
<1>1. /\ v \in Versions /\ call[c] \in Call /\ call[c] # None
      /\ t \in Tables /\ ComposedIn(t) /\ TypeOK /\ StillChecked /\ Composed
  BY ViewType, ViewComposed DEF ModelsInv, Delete, Pending, TypeOK, Call
<1>2. CASE t[v] = None
  <2>1. /\ call' = [call EXCEPT ![c] = None]
        /\ UNCHANGED <<tables, batch, raced, edited>>
    BY <1>2 DEF Delete
  <2> QED BY <1>1, <2>1 DEF ModelsInv, TypeOK, Composed, ComposedIn, StillChecked, View
<1>3. CASE t[v] # None
  <2>1. /\ Commit(c, new) /\ scored' = scored \ {v}
        /\ raced' = raced \cup Dependents(t, v)
        /\ Breaks(v) /\ UNCHANGED edited
    BY <1>3 DEF Delete
  <2>2. new \in Tables
    BY <1>1
  <2>3. ASSUME NEW w \in Versions \ raced', new[w] # None, NEW r \in new[w].refs
        PROVE  /\ new[r] # None
               /\ ~new[w].archived => ~new[r].archived
               /\ w \notin edited' => /\ new[r].mode = "computed"
                                     /\ new[w].kind # "model"
                                     /\ new[r].kind = ChildKind[new[w].kind]
    <3>1. w # v /\ new[w] = t[w] /\ w \in Versions \ raced /\ t[w] \in Model
      BY <1>1, <2>1, <2>3
    <3>2. r \in Versions /\ t[r] # None
      BY <1>1, <2>3, <3>1 DEF ComposedIn
    <3>3. r # v /\ new[r] = t[r]
      BY <1>1, <2>1, <2>3, <3>1, <3>2 DEF Dependents, Referring
    <3> QED BY <1>1, <2>1, <2>3, <3>1, <3>2, <3>3 DEF ComposedIn
  <2>4. Composed'
    BY <2>1, <2>3 DEF Composed, ComposedIn, Commit
  <2>5. TypeOK'
    BY <1>1, <2>1, <2>2, CommitType DEF TypeOK, Dependents, Referring, Breaks
  <2>6. StillChecked'
    BY <1>1, <2>1, CommitStales
  <2> QED BY <2>4, <2>5, <2>6 DEF ModelsInv
<1> QED BY <1>2, <1>3

(* Retiring a child waits for its dependents, and reviving a model for its  *)
(* children.                                                                *)
LEMMA ArchiveKeeps ==
  ASSUME ModelsInv, calls' = calls, NEW c \in Clients, Archive(c)
  PROVE  ModelsInv'
<1> DEFINE v == call[c].v
           t == View(c)
           on == call[c].op = "archive"
           new == IF t[v] = None THEN t ELSE [t EXCEPT ![v].archived = on]
<1>1. /\ v \in Versions /\ call[c] \in Call /\ call[c] # None
      /\ call[c].op \in {"archive", "unarchive"}
      /\ t \in Tables /\ ComposedIn(t) /\ TypeOK /\ StillChecked /\ Composed
  BY ViewType, ViewComposed DEF ModelsInv, Archive, Pending, TypeOK, Call
<1>2. /\ Commit(c, new) /\ UNCHANGED <<scored, batch, edited>>
      /\ raced' = IF ~call[c].stale THEN raced
                  ELSE raced \cup IF on THEN Dependents(t, v) ELSE {v}
  BY DEF Archive
<1>3. ASSUME t[v] # None
      PROVE  /\ new[v] \in Model /\ new[v].archived = on
             /\ new[v].refs = t[v].refs /\ new[v].mode = t[v].mode
             /\ new[v].kind = t[v].kind
  <2>1. t[v] \in Model
    BY <1>1, <1>3
  <2>2. new[v] = [t[v] EXCEPT !.archived = on]
    BY <1>1, <1>3
  <2> HIDE DEF new
  <2> QED BY <2>1, <2>2
<1>4. \A w \in Versions \ {v} : new[w] = t[w]
  BY <1>1
<1>5. \A w \in Versions : new[w] # None <=> t[w] # None
  <2>1. ASSUME NEW w \in Versions PROVE new[w] # None <=> t[w] # None
    <3>1. CASE w = v /\ t[v] # None
      BY <1>3, <3>1, ModelsAssumption
    <3>2. CASE w = v /\ t[v] = None
      BY <3>2
    <3>3. CASE w # v
      BY <1>4, <3>3
    <3> QED BY <3>1, <3>2, <3>3
  <2> QED BY <2>1
<1>6. new \in Tables
  <2>1. CASE t[v] = None
    BY <1>1, <2>1
  <2>2. CASE t[v] # None
    <3>1. new = [t EXCEPT ![v] = new[v]]
      BY <1>1, <2>2
    <3>2. new[v] \in Model
      BY <1>3, <2>2
    <3> HIDE DEF new
    <3> QED BY <1>1, <3>1, <3>2
  <2> QED BY <2>1, <2>2
<1> HIDE DEF new
<1>7. ASSUME NEW w \in Versions \ raced', new[w] # None, NEW r \in new[w].refs
      PROVE  /\ new[r] # None
             /\ ~new[w].archived => ~new[r].archived
             /\ w \notin edited' => /\ new[r].mode = "computed"
                                   /\ new[w].kind # "model"
                                   /\ new[r].kind = ChildKind[new[w].kind]
  <2>1. w \in Versions \ raced /\ t[w] # None /\ t[w] \in Model
    BY <1>1, <1>2, <1>5, <1>7
  <2>2. new[w].refs = t[w].refs /\ new[w].kind = t[w].kind
    BY <1>3, <1>4, <2>1
  <2>3. /\ r \in Versions /\ t[r] # None /\ (~t[w].archived => ~t[r].archived)
        /\ w \notin edited => /\ t[r].mode = "computed" /\ t[w].kind # "model"
                             /\ t[r].kind = ChildKind[t[w].kind]
    BY <1>1, <1>7, <2>1, <2>2 DEF ComposedIn
  <2>4. new[r] # None /\ new[r].mode = t[r].mode /\ new[r].kind = t[r].kind
    BY <1>3, <1>4, <1>5, <2>3
  <2>5. ~new[w].archived => ~new[r].archived
    <3>1. CASE w = v /\ r # v
      <4>1. CASE on
        BY <1>3, <2>1, <3>1, <4>1
      <4>2. CASE ~on
        <5>1. ~call[c].stale /\ call[c].op = "unarchive"
          BY <1>1, <1>2, <1>7, <3>1, <4>2
        <5>2. ~t[r].archived
          BY <1>1, <1>7, <2>2, <2>3, <3>1, <5>1 DEF StillChecked, Checked
        <5> QED BY <1>4, <2>3, <3>1, <5>2
      <4> QED BY <4>1, <4>2
    <3>2. CASE w # v /\ r = v
      <4>1. CASE on
        <5>1. w \in Dependents(t, v)
          BY <1>7, <2>1, <2>2, <3>2 DEF Dependents, Referring
        <5>2. ~call[c].stale
          BY <1>2, <1>7, <4>1, <5>1
        <5>3. t[w].archived
          BY <1>1, <4>1, <5>1, <5>2 DEF StillChecked, Checked
        <5> QED BY <1>4, <2>1, <3>2, <5>3
      <4>2. CASE ~on
        BY <1>3, <2>3, <3>2, <4>2
      <4> QED BY <4>1, <4>2
    <3>3. CASE w = r
      BY <3>3
    <3>4. CASE w # v /\ r # v
      BY <1>4, <2>1, <2>3, <3>4
    <3> QED BY <3>1, <3>2, <3>3, <3>4
  <2> QED BY <1>2, <2>2, <2>3, <2>4, <2>5
<1>8. Composed'
  BY <1>2, <1>7 DEF Composed, ComposedIn, Commit
<1>9. TypeOK'
  BY <1>1, <1>2, <1>6, CommitType DEF TypeOK, Dependents, Referring
<1>10. StillChecked'
  BY <1>1, <1>2, CommitStales
<1> QED BY <1>8, <1>9, <1>10 DEF ModelsInv

(* Steps that write no model: composition is as it was.                     *)
LEMMA ComposedStays ==
  ASSUME Composed, UNCHANGED <<models, open, raced, edited>> PROVE Composed'
  BY DEF Composed, ComposedIn

(* No definition stands for nothing.                                        *)
LEMMA NoDefinition == None \notin Definitions
  BY ModelsAssumption DEF Definitions

LEMMA CheckKeeps ==
  ASSUME ModelsInv, NEW c \in Clients, Check(c)
  PROVE  ModelsInv'
<1>0. PICK op \in OpsOf(c), v \in Versions :
        \E d \in IF op \in {"register", "update"} THEN Definitions ELSE {None} :
          /\ Checked(View(c), op, v, d)
          /\ call' = [call EXCEPT ![c] = [op |-> op, v |-> v, def |-> d, stale |-> FALSE]]
  BY DEF Check
<1>a. PICK d \in IF op \in {"register", "update"} THEN Definitions ELSE {None} :
        /\ Checked(View(c), op, v, d)
        /\ call' = [call EXCEPT ![c] = [op |-> op, v |-> v, def |-> d, stale |-> FALSE]]
  BY <1>0
<1>b. /\ op \in Ops /\ d \in Definitions \cup {None}
      /\ d = None <=> op \notin {"register", "update"}
  BY NoDefinition DEF OpsOf
<1>1. TypeOK /\ StillChecked /\ Composed
  BY DEF ModelsInv
<1>2. /\ call' = [call EXCEPT ![c] = [op |-> op, v |-> v, def |-> d, stale |-> FALSE]]
      /\ calls < MaxCalls /\ calls' = calls + 1
      /\ UNCHANGED <<models, open, scored, batch, raced, edited>>
      /\ d = None <=> op \notin {"register", "update"}
      /\ Checked(View(c), op, v, d)
  BY <1>a, <1>b DEF Check
<1>3. [op |-> op, v |-> v, def |-> d, stale |-> FALSE] \in Call
  BY <1>b DEF Call
<1>4. calls' \in 0..MaxCalls
  BY <1>1, <1>2, ModelsAssumption DEF TypeOK
<1>5. TypeOK'
  BY <1>1, <1>2, <1>3, <1>4 DEF TypeOK
<1>6. ASSUME NEW x \in Clients, (call[x] # None /\ ~call[x].stale)'
      PROVE  Checked(View(x), call[x].op, call[x].v, call[x].def)'
  <2>1. View(x)' = View(x)
    BY <1>2 DEF View
  <2>2. CASE x = c
    BY <1>1, <1>2, <2>1, <2>2 DEF TypeOK
  <2>3. CASE x # c
    <3>1. call'[x] = call[x]
      BY <1>1, <1>2, <2>3 DEF TypeOK
    <3>2. Checked(View(x), call[x].op, call[x].v, call[x].def)
      BY <1>1, <1>6, <3>1 DEF StillChecked
    <3> QED BY <2>1, <3>1, <3>2
  <2> QED BY <2>2, <2>3
<1> QED BY <1>1, <1>2, <1>5, <1>6, ComposedStays DEF ModelsInv, StillChecked

LEMMA SurfaceKeeps ==
  ASSUME ModelsInv, calls' = calls, NEW c \in Clients, Surface(c)
  PROVE  ModelsInv'
<1>1. /\ TypeOK /\ StillChecked /\ Composed /\ open # None
      /\ open.models \in Tables /\ ComposedIn(open.models)
  BY DEF ModelsInv, Surface, TypeOK, Composed
<1>2. Commit(c, open.models) /\ UNCHANGED <<scored, batch, raced, edited>>
  BY DEF Surface
<1>3. TypeOK'
  BY <1>1, <1>2, CommitType DEF TypeOK
<1>4. Composed'
  BY <1>1, <1>2 DEF Composed, ComposedIn, Commit
<1>5. StillChecked'
  BY <1>1, <1>2, CommitStales
<1> QED BY <1>3, <1>4, <1>5 DEF ModelsInv

LEMMA LockedKeeps ==
  ASSUME ModelsInv, calls' = calls, NEW c \in Clients, Locked(c)
  PROVE  ModelsInv'
  BY DEF ModelsInv, Locked, TypeOK, Composed, ComposedIn, StillChecked, View

LEMMA ServerEndsKeeps ==
  ASSUME ModelsInv, calls' = calls, ServerEnds PROVE ModelsInv'
<1>1. TypeOK /\ StillChecked /\ Composed /\ open.by \in Threads /\ open # None
  BY DEF ModelsInv, TypeOK, ServerEnds
<1>2. /\ open' = None
      /\ call' = [c \in Clients |-> IF c \in Threads THEN None ELSE call[c]]
      /\ UNCHANGED <<models, scored, batch, raced, edited>>
  BY DEF ServerEnds
<1>3. TypeOK' /\ Composed'
  BY <1>1, <1>2 DEF TypeOK, Composed, ComposedIn
<1>4. ASSUME NEW x \in Clients, (call[x] # None /\ ~call[x].stale)'
      PROVE  Checked(View(x), call[x].op, call[x].v, call[x].def)'
  <2>1. x \notin Threads /\ call'[x] = call[x]
    BY <1>2, <1>4
  <2>2. View(x)' = View(x)
    BY <1>1, <1>2, <2>1 DEF View
  <2>3. Checked(View(x), call[x].op, call[x].v, call[x].def)
    BY <1>1, <1>4, <2>1 DEF StillChecked
  <2> QED BY <2>1, <2>2, <2>3
<1> QED BY <1>3, <1>4 DEF ModelsInv, StillChecked

(* Scores come and go under the models.                                     *)
LEMMA ScoringKeeps ==
  ASSUME ModelsInv, calls' = calls,
         BatchStart \/ BatchScore \/ BatchEnd \/ Purge \/ \E v \in Versions : Grade(v)
  PROVE  ModelsInv'
<1>1. TypeOK /\ StillChecked /\ Composed
  BY DEF ModelsInv
<1>2. UNCHANGED <<models, open, raced, edited>>
  BY DEF BatchStart, BatchScore, BatchEnd, Purge, Grade
<1>3. \A x \in Clients : View(x)' = View(x)
  BY <1>2 DEF View
<1>4. CASE UNCHANGED call
  <2>1. scored' \subseteq Versions
    BY <1>1 DEF TypeOK, BatchStart, BatchScore, BatchEnd, Purge, Grade, Stores
  <2>3. batch' \in [models: SUBSET Versions, broken: BOOLEAN] \cup {None}
    <3>1. ListComputed \subseteq Versions
      BY DEF ListComputed
    <3>2. CASE BatchStart
      <4>1. batch' = [models |-> ListComputed, broken |-> FALSE]
        BY <3>2 DEF BatchStart
      <4> QED BY <3>1, <4>1
    <3>3. CASE UNCHANGED batch \/ batch' = None
      BY <1>1, <3>3 DEF TypeOK
    <3> QED BY <3>2, <3>3 DEF BatchScore, BatchEnd, Purge, Grade
  <2>2. StillChecked'
    BY <1>1, <1>3, <1>4 DEF StillChecked
  <2> QED BY <1>1, <1>2, <1>4, <2>1, <2>2, <2>3, ComposedStays DEF ModelsInv, TypeOK
<1>5. CASE BatchScore \/ \E v \in Versions : Grade(v)
  <2>1. call' = [c \in Clients |->
          IF call[c] = None THEN None ELSE [call[c] EXCEPT !.stale = TRUE]]
    BY <1>5 DEF BatchScore, Grade, Stores
  <2>2. scored' \subseteq Versions /\ batch' = batch
    BY <1>1, <1>5 DEF BatchScore, Grade, Stores, TypeOK
  <2>3. call' \in [Clients -> Call \cup {None}] /\ StillChecked'
    BY <1>1, <2>1 DEF TypeOK, StillChecked, Call
  <2> QED BY <1>1, <1>2, <2>2, <2>3, ComposedStays DEF ModelsInv, TypeOK
<1>6. UNCHANGED call \/ BatchScore \/ \E v \in Versions : Grade(v)
  BY DEF BatchStart, BatchEnd, Purge
<1> QED BY <1>4, <1>5, <1>6

(***************************************************************************)
(* Composites stay computable, whatever is registered, rewritten, archived, *)
(* deleted and scored in whatever order (models.py).                        *)
(***************************************************************************)
THEOREM CompositionHolds == Spec => []ModelsInv
<1>1. Init => ModelsInv
  <2> SUFFICES ASSUME Init PROVE ModelsInv
    OBVIOUS
  <2>1. models \in Tables
    <3>1. Base \in Model
      BY DEF Base
    <3>2. Shipped \subseteq Tables
      BY <3>1 DEF Shipped
    <3>3. ASSUME NEW t \in Tables PROVE Catalog(t) \in Model
      BY DEF Catalog
    <3> QED BY <3>2, <3>3 DEF Init
  <2>2. TypeOK
    BY <2>1, ModelsAssumption DEF Init, TypeOK
  <2>3. Composed
    <3>1. /\ Base.refs = {} /\ Base.mode = "computed" /\ Base.kind = "model"
          /\ ~Base.archived /\ Base # None
      <4>1. Base \in Model
        BY DEF Base
      <4>2. Base # None
        BY <4>1, ModelsAssumption
      <4> QED BY <4>2 DEF Base
    <3>2. CASE models \in Shipped
      BY <3>1, <3>2 DEF Init, Shipped, Composed, ComposedIn
    <3>3. CASE models \notin Shipped
      <4>1. PICK t \in Shipped, c \in Versions :
              t[c] = None /\ models = [t EXCEPT ![c] = Catalog(t)]
        BY <3>3 DEF Init
      <4>2. ASSUME NEW w \in Versions, w # c, models[w] # None PROVE models[w] = Base
        BY <4>1, <4>2 DEF Shipped
      <4>3. models[c] = Catalog(t) /\ \A r \in Catalog(t).refs : r # c /\ t[r] = Base
            /\ r \in Versions
        BY <4>1 DEF Shipped, Catalog
      <4>4. \A r \in Catalog(t).refs : models[r] = Base
        BY <4>1, <4>3 DEF Shipped
      <4>5. Catalog(t).kind = "composite"
        BY DEF Catalog
      <4> QED BY <3>1, <4>2, <4>3, <4>4, <4>5 DEF Init, Composed, ComposedIn
    <3> QED BY <3>2, <3>3
  <2>4. StillChecked
    BY DEF Init, StillChecked
  <2> QED BY <2>2, <2>3, <2>4 DEF ModelsInv
<1>2. ModelsInv /\ [Next]_vars => ModelsInv'
  <2> SUFFICES ASSUME ModelsInv, [Next]_vars PROVE ModelsInv'
    OBVIOUS
  <2>1. CASE Next
    BY <2>1, CheckKeeps, RegisterKeeps, UpdateKeeps, DeleteKeeps, ArchiveKeeps,
       LockedKeeps, SurfaceKeeps, ServerEndsKeeps, ScoringKeeps DEF Next
  <2>2. CASE UNCHANGED vars
    BY <2>2 DEF ModelsInv, TypeOK, Composed, ComposedIn, StillChecked, View
  <2> QED BY <2>1, <2>2
<1> QED BY <1>1, <1>2, PTL DEF Spec
=============================================================================
