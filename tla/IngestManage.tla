----------------------------- MODULE IngestManage -----------------------------
(***************************************************************************)
(* The ingest together with the commands that manage what it stored:        *)
(* `ingest --forget`, `--purge` and their -all forms (src/ingest.py,         *)
(* src/database/Score/score.py, src/database/Ingest/ingest.py).             *)
(*                                                                         *)
(* A pattern selects a set of archives.  A purge deletes the matching       *)
(* filings in one transaction and the tracking records it previewed in a    *)
(* second one; it can die in between.  A foreground purge keeps the         *)
(* database open, so an ingest cannot take the exclusive lock meanwhile.    *)
(***************************************************************************)
EXTENDS BulkIngest

VARIABLES
  purging,  \* tracking records the purge in progress has yet to forget
  purged    \* history: the keys whose filing some purge has deleted

mvars == <<vars, purging, purged>>

process == <<pc, todo, cur, reading, stop, buffers, remap>>

ManageInit == Init /\ purging = {} /\ purged = {}

\* _purge: the filings go, their reported_data and graph rows cascade; the
\* addresses of the graph rows are owned by no filing and stay
Deleted(archives) == {i \in Id : zip[i] \in archives}
Without(table, gone) == [i \in Id |-> IF i \in gone THEN None ELSE table[i]]

\* mutant of Cascade: foreign keys are not enforced
NoCascade(gone) == data
Cascade(gone) == [i \in Id |-> IF i \in gone THEN Empty ELSE data[i]]

\* a pattern matches filings by archive name and tracking records by name or URL
PurgeDelete(named, matched) ==
  LET gone == Deleted(named) IN
  /\ pc = "idle" /\ purging = {}
  /\ gone # {} \/ matched \cap ledger # {}
  /\ filing' = Without(filing, gone)
  /\ zip' = Without(zip, gone)
  /\ data' = Cascade(gone)
  /\ unscored' = unscored \cap {EinOf[filing[i]] : i \in {j \in Id \ gone : filing[j] # None}}
  /\ purging' = matched \cap ledger
  /\ purged' = purged \cup {filing[i] : i \in gone}
  /\ UNCHANGED <<address, orgs, ledger, missing, process>>

PurgeForget ==
  /\ purging # {}
  /\ ledger' = ledger \ purging
  /\ purging' = {}
  /\ UNCHANGED <<database, missing, unscored, process, purged>>

\* the purge is killed between its two transactions
PurgeCrash ==
  /\ purging # {}
  /\ purging' = {}
  /\ UNCHANGED <<vars, purged>>

Forget(archives) ==
  /\ pc = "idle" /\ purging = {}
  /\ archives \cap ledger # {}
  /\ ledger' = ledger \ archives
  /\ UNCHANGED <<database, missing, unscored, process, purging, purged>>

Ingest == purging = {} /\ Next /\ UNCHANGED <<purging, purged>>

ManageNext ==
  \/ Ingest
  \/ \E matched \in SUBSET Archive :
       Forget(matched) \/ \E named \in SUBSET matched : PurgeDelete(named, matched)
  \/ PurgeForget
  \/ PurgeCrash

ManageSpec == ManageInit /\ [][ManageNext]_mvars

-------------------------------------------------------------------------------

(***************************************************************************)
(* Purge frees filing ids, and a later run assigns them again: even so no   *)
(* value is ever attributed to another return's filing.                     *)
(***************************************************************************)
ReusedIdsAreClean == OneFilingPerKey /\ DataFromOwnFiling

(***************************************************************************)
(* A recorded archive loses a member only through a purge of the filing     *)
(* that held its key, which another archive may have stored.                *)
(***************************************************************************)
LostOnlyToPurge ==
  \A m \in Member : ArchiveOf[m] \in ledger =>
    Stored(m) \/ m \in missing \/ KeyOf[m] \in purged
===============================================================================
