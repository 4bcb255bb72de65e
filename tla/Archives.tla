------------------------------- MODULE Archives -------------------------------
(***************************************************************************)
(* What an ingest source offers: ZIP archives, their XML members, and what  *)
(* parsing a member yields.                                                 *)
(*                                                                         *)
(* A value is represented by the member it was parsed from, so "this row    *)
(* holds m" reads "this row holds the value member m reported".  A cell is  *)
(* one place of a filing that can hold a value: a field of reported_data,   *)
(* or (when it is also a Slot) one (group_code, occurrence_index) of the    *)
(* repeating-group graph, whose record also carries an address.             *)
(***************************************************************************)
EXTENDS Naturals, FiniteSets

CONSTANTS
  Archive,    \* the ZIP archives that can be discovered, by URL
  Member,     \* their XML members that parse and are of a supported form
  Key,        \* the filing keys (EIN, year, form code)
  Ein,        \* the organizations
  Cell,       \* field ids and graph slots
  Slot,       \* the cells that are graph slots
  None,       \* no value
  ArchiveOf,  \* the archive a member is in
  KeyOf,      \* the filing key a member's header states
  EinOf,      \* the EIN of a key
  CellsOf     \* the cells a member reports a value for

ASSUME ArchivesAssumption ==
  /\ IsFiniteSet(Cell) /\ Slot \subseteq Cell
  /\ ArchiveOf \in [Member -> Archive]
  /\ KeyOf \in [Member -> Key]
  /\ EinOf \in [Key -> Ein]
  /\ CellsOf \in [Member -> SUBSET Cell]
  /\ None \notin Member \cup Key \cup Archive

MembersOf(a) == {m \in Member : ArchiveOf[m] = a}

\* a value or nothing, in every cell of a filing
Contents == [Cell -> Member \cup {None}]
Empty == [c \in Cell |-> None]

\* mutant of KeepFirst: INSERT OR REPLACE
KeepLast(old, new) ==
  [c \in Cell |-> IF new[c] # None THEN new[c] ELSE old[c]]

\* INSERT OR IGNORE, cell by cell: what is stored stays, the rest is taken from new
KeepFirst(old, new) ==
  [c \in Cell |-> IF old[c] # None THEN old[c] ELSE new[c]]

\* the values one parsed member contributes
Parsed(m) == [c \in Cell |-> IF c \in CellsOf[m] THEN m ELSE None]

(***************************************************************************)
(* Lookup in a table of Ids that holds each key at most once.               *)
(***************************************************************************)
Rows(table, k) == {i \in DOMAIN table : table[i] = k}
RowOf(table, k) == CHOOSE i \in DOMAIN table : table[i] = k
===============================================================================
