------------------------------ MODULE ArchiveLoad ------------------------------
(***************************************************************************)
(* What the bulk ingest promises, without ids, buffers, batches, crashes or *)
(* restarts: filings are keyed by (EIN, year, form); a value once stored is  *)
(* never replaced; it is stored under the key of the return that reported    *)
(* it; and an archive is recorded as ingested only when every member of it   *)
(* is stored, except those this pass reported as errors.                     *)
(***************************************************************************)
EXTENDS Archives

VARIABLES
  known,     \* the keys that have a filing
  facts,     \* the value of each cell of each key
  recorded,  \* the archives marked as ingested
  missing    \* members of recorded archives reported as errors

vars == <<known, facts, recorded, missing>>

Stored(m) ==
  /\ KeyOf[m] \in known
  /\ \A c \in CellsOf[m] : facts[KeyOf[m]][c] # None

Init ==
  /\ known = {}
  /\ facts = [k \in Key |-> Empty]
  /\ recorded = {}
  /\ missing = {}

\* one flush: new keys appear and empty cells fill with values reported for
\* that key; no stored value changes
Load ==
  /\ known' \in SUBSET Key
  /\ known \subseteq known'
  /\ facts' \in [Key -> Contents]
  /\ \A k \in Key, c \in Cell :
       \/ facts'[k][c] = facts[k][c]
       \/ /\ facts[k][c] = None
          /\ k \in known'
          /\ \E m \in Member : KeyOf[m] = k /\ c \in CellsOf[m] /\ facts'[k][c] = m
  /\ UNCHANGED <<recorded, missing>>

\* an archive is marked as ingested, with the members its pass could not read
Record(a, errors) ==
  /\ errors \subseteq MembersOf(a)
  /\ \A m \in MembersOf(a) \ errors : Stored(m)
  /\ recorded' = recorded \cup {a}
  /\ missing' = (missing \ MembersOf(a)) \cup errors
  /\ UNCHANGED <<known, facts>>

Next ==
  \/ Load
  \/ \E a \in Archive : \E errors \in SUBSET MembersOf(a) : Record(a, errors)

Spec == Init /\ [][Next]_vars
===============================================================================
