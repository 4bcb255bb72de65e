------------------------------ MODULE BulkIngest ------------------------------
(***************************************************************************)
(* `openreturn ingest <url>` with a process pool: src/ingest.py.            *)
(*                                                                         *)
(* One driver process downloads the archives of a source one at a time,     *)
(* hands the members of an archive to worker processes chunk by chunk,      *)
(* buffers what they parsed under ids it assigns itself, and flushes the    *)
(* buffers into the database, one transaction per flush, at the end of an   *)
(* archive or when enough reported_data rows are buffered.  A flush resolves *)
(* every assigned id whose filing was already stored to the stored filing.  *)
(* After its last flush the archive is recorded in ingested_zip, so that    *)
(* later runs skip it.  The driver can die at any step; the database then   *)
(* holds what was committed.                                                *)
(*                                                                         *)
(* The driver holds the database's exclusive lock, so no other writer steps *)
(* in between.  The order of members in an archive is any order, and so is  *)
(* the order workers finish in.                                             *)
(***************************************************************************)
EXTENDS Archives

CONSTANTS
  MaxId,       \* bound: the largest filing_id
  ChunkFiles,  \* members read before their results are collected (chunk_sz)
  BatchFiles,  \* members per worker task (_BATCH_FILES)
  FlushRows    \* buffered reported_data rows that force a flush (_DATA_ROWS_PER_FLUSH)

ASSUME BoundsAssumption ==
  /\ MaxId \in Nat /\ FlushRows \in Nat
  /\ ChunkFiles \in Nat \ {0} /\ BatchFiles \in Nat \ {0}

Id == 1..MaxId

VARIABLES
  (* the database, as committed *)
  filing,      \* filing: the key of the row with this id, or None
  zip,         \* filing.zip_filename: the archive the row came from
  data,        \* reported_data and party_appearance rows of each filing
  address,     \* the address rows 'ap:<filing_id>:<slot>'
  orgs,        \* organization
  ledger,      \* ingested_zip: the archives recorded as ingested
  missing,     \* members of recorded archives their pass counted as errors
  unscored,    \* organizations whose filings changed since they were scored
  (* the driver process *)
  pc,          \* where the driver is
  todo,        \* archives this run still has to ingest
  cur,         \* the archive in progress
  unread,      \* its members not yet read
  inflight,    \* members handed to workers
  results,     \* parsed results of the finished task being buffered
  dropped,     \* members of cur that could not be read
  lost,        \* members of cur whose worker died before handing them back
  broken,      \* a worker died: the pool accepts no more tasks
  stop,        \* daemon.request_stop was called
  seenEins,    \* ctx.seen_eins
  nextId,      \* ctx.next_filing_id
  keyToId,     \* filing_key_to_id of this archive; 0 is absent
  remap,       \* id_remap of this archive; the identity where absent
  pendOrgs,    \* pending_orgs
  pendFiling,  \* pending_filings: the key buffered under each id
  pendData,    \* pending_data and the graph buffer: the first value per cell
  rows         \* len(pending_data)

database == <<filing, zip, data, address, orgs>>
buffers == <<seenEins, nextId, keyToId, pendOrgs, pendFiling, pendData, rows>>
reading == <<unread, inflight, results, dropped, lost, broken>>
vars == <<database, ledger, missing, unscored, pc, todo, cur, reading, stop,
          buffers, remap>>

NoData == [i \in Id |-> Empty]
NoAddress == [i \in Id |-> [s \in Slot |-> None]]
NoFiling == [i \in Id |-> None]
NoRemap == [i \in Id |-> i]
NoKeys == [k \in Key |-> 0]

TypeOK ==
  /\ filing \in [Id -> Key \cup {None}]
  /\ zip \in [Id -> Archive \cup {None}]
  /\ data \in [Id -> Contents]
  /\ address \in [Id -> [Slot -> Member \cup {None}]]
  /\ orgs \in SUBSET Ein
  /\ ledger \in SUBSET Archive
  /\ missing \in SUBSET Member
  /\ unscored \in SUBSET Ein
  /\ pc \in {"idle", "next", "work", "buffer", "flush", "record", "score"}
  /\ todo \in SUBSET Archive
  /\ cur \in Archive \cup {None}
  /\ unread \in SUBSET Member
  /\ inflight \in SUBSET Member
  /\ results \in SUBSET Member
  /\ dropped \in SUBSET Member
  /\ lost \in SUBSET Member
  /\ broken \in BOOLEAN
  /\ stop \in BOOLEAN
  /\ seenEins \in SUBSET Ein
  /\ nextId \in 1..MaxId + 1
  /\ keyToId \in [Key -> Id \cup {0}]
  /\ remap \in [Id -> Id]
  /\ pendOrgs \in SUBSET Ein
  /\ pendFiling \in [Id -> Key \cup {None}]
  /\ pendData \in [Id -> Contents]
  /\ rows \in Nat

-------------------------------------------------------------------------------

\* no ingest process: every process variable at rest
NoProcess ==
  /\ pc = "idle" /\ todo = {} /\ cur = None
  /\ unread = {} /\ inflight = {} /\ results = {} /\ dropped = {} /\ lost = {}
  /\ broken = FALSE /\ stop = FALSE
  /\ seenEins = {} /\ nextId = 1 /\ keyToId = NoKeys /\ remap = NoRemap
  /\ pendOrgs = {} /\ pendFiling = NoFiling /\ pendData = NoData /\ rows = 0

\* the process is gone, normally or not
ProcessEnds ==
  /\ pc' = "idle" /\ todo' = {} /\ cur' = None
  /\ unread' = {} /\ inflight' = {} /\ results' = {} /\ dropped' = {} /\ lost' = {}
  /\ broken' = FALSE /\ stop' = FALSE
  /\ seenEins' = {} /\ nextId' = 1 /\ keyToId' = NoKeys /\ remap' = NoRemap
  /\ pendOrgs' = {} /\ pendFiling' = NoFiling /\ pendData' = NoData /\ rows' = 0

Init ==
  /\ filing = NoFiling /\ zip = NoFiling /\ data = NoData /\ address = NoAddress
  /\ orgs = {} /\ ledger = {} /\ missing = {} /\ unscored = {}
  /\ NoProcess

\* mutant of IsSeed: the counter starts at the largest stored id
SeedAtMax(n) ==
  /\ \A i \in Id : filing[i] # None => i <= n
  /\ n = 1 \/ (n \in Id /\ filing[n] # None)

\* the first id past every stored filing
IsSeed(n) ==
  /\ \A i \in Id : filing[i] # None => i < n
  /\ n = 1 \/ filing[n - 1] # None

\* discover the links, drop the recorded ones unless --force, begin the load
StartRun ==
  /\ pc = "idle"
  /\ \E urls \in SUBSET Archive, force \in BOOLEAN :
       todo' = urls \ (IF force THEN {} ELSE ledger)
  /\ todo' # {}
  /\ nextId' \in {n \in 1..MaxId + 1 : IsSeed(n)}
  /\ pc' = "next"
  /\ UNCHANGED <<database, ledger, missing, unscored, cur, reading, stop,
                 seenEins, keyToId, pendOrgs, pendFiling, pendData, rows, remap>>

\* SIGTERM sets a flag that is consulted between archives
RequestStop ==
  /\ pc # "idle" /\ ~stop
  /\ stop' = TRUE
  /\ UNCHANGED <<database, ledger, missing, unscored, pc, todo, cur, reading,
                 buffers, remap>>

\* a failed download or an archive that is not a ZIP is skipped, unrecorded
SkipArchive(a) ==
  /\ pc = "next" /\ ~stop /\ a \in todo
  /\ todo' = todo \ {a}
  /\ UNCHANGED <<database, ledger, missing, unscored, pc, cur, reading, stop,
                 buffers, remap>>

\* downloaded and listed: start with empty per-archive buffers
OpenArchive(a) ==
  /\ pc = "next" /\ ~stop /\ a \in todo
  /\ todo' = todo \ {a} /\ cur' = a
  /\ unread' = MembersOf(a) /\ dropped' = {} /\ lost' = {}
  /\ keyToId' = NoKeys /\ remap' = NoRemap
  /\ pc' = "work"
  /\ UNCHANGED <<database, ledger, missing, unscored, inflight, results, broken,
                 stop, seenEins, nextId, pendOrgs, pendFiling, pendData, rows>>

\* MemberReader cannot open the archive (BadZipFile): nothing of it is read
SkipCorrupt ==
  /\ pc = "work" /\ unread = MembersOf(cur) /\ unread # {} /\ inflight = {}
  /\ unread' = {} /\ dropped' = dropped \cup unread
  /\ UNCHANGED <<database, ledger, missing, unscored, pc, todo, cur, inflight,
                 results, lost, broken, stop, buffers, remap>>

\* read one chunk and submit it; a member that cannot be read is an error
ReadChunk ==
  /\ pc = "work" /\ inflight = {} /\ unread # {}
  /\ \E chunk \in SUBSET unread :
       /\ \/ Cardinality(chunk) = ChunkFiles
          \/ Cardinality(chunk) < ChunkFiles /\ chunk = unread
       /\ \E bad \in SUBSET chunk :
            /\ broken => bad = chunk
            /\ unread' = unread \ chunk
            /\ inflight' = chunk \ bad
            /\ dropped' = dropped \cup bad
  /\ UNCHANGED <<database, ledger, missing, unscored, pc, todo, cur, results,
                 lost, broken, stop, buffers, remap>>

\* the next finished task of as_completed hands over its results
CompleteBatch ==
  /\ pc = "work"
  /\ \E batch \in SUBSET inflight :
       /\ batch # {} /\ Cardinality(batch) <= BatchFiles
       /\ inflight' = inflight \ batch
       /\ results' = batch
  /\ pc' = "buffer"
  /\ UNCHANGED <<database, ledger, missing, unscored, todo, cur, unread, dropped,
                 lost, broken, stop, buffers, remap>>

\* a worker process dies: every unfinished task of the pool raises
\* BrokenProcessPool and its members are counted as errors
BreakPool ==
  /\ pc = "work"
  /\ \E gone \in SUBSET inflight :
       /\ gone # {}
       /\ inflight' = inflight \ gone
       /\ lost' = lost \cup gone
  /\ broken' = TRUE
  /\ UNCHANGED <<database, ledger, missing, unscored, pc, todo, cur, unread,
                 results, dropped, stop, buffers, remap>>

\* submitting to a broken pool raises: the run is aborted without finalizing
AbortRun ==
  /\ pc = "work" /\ broken /\ inflight = {} /\ unread # {}
  /\ ProcessEnds
  /\ UNCHANGED <<database, ledger, missing, unscored>>

\* mutant of Seen: only organizations the database lacks are remembered
SeenIfNew(k) == IF EinOf[k] \in orgs THEN seenEins ELSE seenEins \cup {EinOf[k]}

\* an organization is buffered the first time this run sees it,
\* and every organization of a buffered return is remembered for scoring
NewOrgs(k) == {EinOf[k]} \ seenEins
Seen(k) == seenEins \cup {EinOf[k]}

\* buffer one parsed result under the id its key has in this archive
BufferParsed(m) ==
  LET k == KeyOf[m]
      id == IF keyToId[k] = 0 THEN nextId ELSE keyToId[k]
  IN
  /\ pc = "buffer" /\ m \in results
  /\ id \in Id
  /\ results' = results \ {m}
  /\ pendOrgs' = pendOrgs \cup NewOrgs(k)
  /\ seenEins' = Seen(k)
  /\ keyToId' = [keyToId EXCEPT ![k] = id]
  /\ nextId' = IF id = nextId THEN nextId + 1 ELSE nextId
  /\ pendFiling' = IF id = nextId THEN [pendFiling EXCEPT ![id] = k] ELSE pendFiling
  /\ pendData' = [pendData EXCEPT ![id] = KeepFirst(@, Parsed(m))]
  /\ rows' = rows + Cardinality(CellsOf[m] \ Slot)
  /\ pc' = IF results' # {} THEN "buffer" ELSE IF rows' >= FlushRows THEN "flush" ELSE "work"
  /\ UNCHANGED <<database, ledger, missing, unscored, todo, cur, unread, inflight,
                 dropped, lost, broken, stop, remap>>

-------------------------------------------------------------------------------

\* a buffered filing is inserted unless its key (or its id) is already there
Inserted(i) ==
  /\ pendFiling[i] # None /\ filing[i] = None
  /\ Rows(filing, pendFiling[i]) = {}

\* mutant of Resolve: ids are not resolved to the stored filing
ResolveNot(i) == remap[i]

\* _resolve_ids: an id of this batch goes to the row that now holds its key
Resolve(i) == IF pendFiling[i] = None THEN remap[i] ELSE RowOf(filing', pendFiling[i])

\* the buffered values that go to row j in this flush
Arriving(j) ==
  [c \in Cell |->
     IF \E i \in Id : remap'[i] = j /\ pendData[i][c] # None
     THEN pendData[CHOOSE i \in Id : remap'[i] = j /\ pendData[i][c] # None][c]
     ELSE None]

\* _flush_zip: one transaction; the buffers are cleared, the ids and the remap stay
Flush ==
  /\ orgs' = orgs \cup pendOrgs
  /\ filing' = [i \in Id |-> IF Inserted(i) THEN pendFiling[i] ELSE filing[i]]
  /\ zip' = [i \in Id |-> IF Inserted(i) THEN cur ELSE zip[i]]
  /\ remap' = [i \in Id |-> Resolve(i)]
  /\ data' = [j \in Id |-> KeepFirst(data[j], Arriving(j))]
  /\ address' = [j \in Id |-> [s \in Slot |->
                   IF address[j][s] # None THEN address[j][s] ELSE Arriving(j)[s]]]
  /\ unscored' = unscored \cup
       {EinOf[filing'[j]] : j \in {i \in Id : filing'[i] # None /\ data'[i] # data[i]}}
  /\ pendOrgs' = {} /\ pendFiling' = NoFiling /\ pendData' = NoData /\ rows' = 0
  /\ UNCHANGED <<seenEins, nextId, keyToId, ledger, missing, todo, cur, reading, stop>>

MidFlush ==
  /\ pc = "flush"
  /\ Flush
  /\ pc' = "work"

\* mutant of FinalFlush: tasks still running are not waited for
FlushBeforeLastTask ==
  /\ pc = "work" /\ unread = {}
  /\ Flush
  /\ pc' = "record"

FinalFlush ==
  /\ pc = "work" /\ unread = {} /\ inflight = {}
  /\ Flush
  /\ pc' = "record"

\* mutant of RecordZip: members of a dead worker are not counted as errors
RecordUncounted ==
  /\ pc = "record"
  /\ ledger' = ledger \cup {cur}
  /\ missing' = (missing \ MembersOf(cur)) \cup dropped
  /\ pc' = "next"
  /\ UNCHANGED <<database, unscored, todo, cur, reading, stop, buffers, remap>>

\* record_ingested_zip, in a transaction of its own
RecordZip ==
  /\ pc = "record"
  /\ ledger' = ledger \cup {cur}
  /\ missing' = (missing \ MembersOf(cur)) \cup dropped \cup lost
  /\ pc' = "next"
  /\ UNCHANGED <<database, unscored, todo, cur, reading, stop, buffers, remap>>

\* _finish_run, up to end_bulk_load: indexes, search index, classification
Finish ==
  /\ pc = "next" /\ (todo = {} \/ stop)
  /\ pc' = "score"
  /\ UNCHANGED <<database, ledger, missing, unscored, todo, cur, reading, stop,
                 buffers, remap>>

\* post-ingest scoring of this run's organizations; an error is swallowed
Score ==
  /\ pc = "score"
  /\ \E ok \in BOOLEAN : unscored' = IF ok THEN unscored \ seenEins ELSE unscored
  /\ ProcessEnds
  /\ UNCHANGED <<database, ledger, missing>>

\* the process is killed, or an exception (a full disk) leaves it
Crash ==
  /\ pc # "idle"
  /\ ProcessEnds
  /\ UNCHANGED <<database, ledger, missing, unscored>>

Driver ==
  \/ \E a \in Archive : OpenArchive(a)
  \/ ReadChunk
  \/ AbortRun
  \/ CompleteBatch
  \/ \E m \in Member : BufferParsed(m)
  \/ MidFlush
  \/ FinalFlush
  \/ RecordZip
  \/ Finish
  \/ Score

Fault ==
  \/ \E a \in Archive : SkipArchive(a)
  \/ SkipCorrupt
  \/ BreakPool
  \/ Crash

Next == StartRun \/ RequestStop \/ Driver \/ Fault

Spec == Init /\ [][Next]_vars

-------------------------------------------------------------------------------

Stored(m) ==
  \E i \in Id : filing[i] = KeyOf[m] /\ \A c \in CellsOf[m] : data[i][c] # None

(***************************************************************************)
(* A key has at most one filing: re-ingesting an archive, or a return that  *)
(* appears in two archives, never stores a filing twice.                    *)
(***************************************************************************)
OneFilingPerKey ==
  \A i, j \in Id : filing[i] = filing[j] /\ filing[i] # None => i = j

(***************************************************************************)
(* A stored value sits in the filing of the return that reported it: the    *)
(* client-assigned id, remapped at flush, never lands on another filing.    *)
(***************************************************************************)
DataFromOwnFiling ==
  \A i \in Id, c \in Cell :
    data[i][c] # None => filing[i] = KeyOf[data[i][c]] /\ c \in CellsOf[data[i][c]]

(***************************************************************************)
(* A graph appearance shows the address its own return stated for it.       *)
(***************************************************************************)
AddressAsFiled ==
  \A i \in Id, s \in Slot : data[i][s] # None => address[i][s] = data[i][s]

(***************************************************************************)
(* Every filing has its organization, although an organization is buffered  *)
(* only the first time a run sees it (seen_eins).                           *)
(***************************************************************************)
FilingHasOrg ==
  \A i \in Id : filing[i] # None => EinOf[filing[i]] \in orgs

(***************************************************************************)
(* An archive recorded as ingested is stored, whatever crashes, retries and *)
(* id collisions came before, except the members counted as errors.         *)
(***************************************************************************)
RecordedAreStored ==
  \A m \in Member : ArchiveOf[m] \in ledger => Stored(m) \/ m \in missing

(***************************************************************************)
(* Every organization whose filings a run changes is among those its        *)
(* finalization scores.                                                     *)
(***************************************************************************)
ChangedAreScored ==
  [][unscored' \subseteq unscored \cup seenEins]_vars

(***************************************************************************)
(* docs/ingest.md: the record is written only after an archive finishes, so *)
(* an interrupted run re-does the in-flight archive.  A run whose worker    *)
(* died is interrupted: it must not record the archive whose members the    *)
(* worker took with it.                                                     *)
(***************************************************************************)
InterruptedIsRedone ==
  [][ledger' # ledger => \A m \in lost : Stored(m)]_vars

(***************************************************************************)
(* The ingest implements the abstract loader.                               *)
(***************************************************************************)
FactsOf(k) == IF Rows(filing, k) = {} THEN Empty ELSE data[RowOf(filing, k)]

Loader == INSTANCE ArchiveLoad WITH
  known <- {k \in Key : Rows(filing, k) # {}},
  facts <- [k \in Key |-> FactsOf(k)],
  recorded <- ledger

ImplementsLoader == Loader!Spec

-------------------------------------------------------------------------------
(***************************************************************************)
(* The inductive invariant behind the safety properties.                    *)
(***************************************************************************)

\* between archives nothing is buffered; with no process nothing is at all
Boundaries ==
  /\ pc = "idle" => NoProcess
  /\ pc \in {"next", "record", "score"} =>
       pendFiling = NoFiling /\ pendData = NoData /\ unread = {} /\ inflight = {}
  /\ pc \in {"work", "buffer", "flush", "record"} => cur \in Archive
  /\ pc # "buffer" => results = {}

\* ids from nextId on are unused, in the database and in the buffers
FreshIds ==
  pc # "idle" => \A i \in Id : i >= nextId => filing[i] = None /\ pendFiling[i] = None

\* the id of a key is buffered with that key, or leads to its stored filing
KeysLead ==
  \A k \in Key : keyToId[k] # 0 =>
    /\ keyToId[k] < nextId
    /\ EinOf[k] \in seenEins
    /\ \/ pendFiling[keyToId[k]] = k
       \/ pendFiling[keyToId[k]] = None /\ filing[remap[keyToId[k]]] = k

PendingFilings ==
  \A i \in Id : pendFiling[i] # None =>
    /\ keyToId[pendFiling[i]] = i
    /\ filing[i] = None

PendingData ==
  \A i \in Id, c \in Cell : pendData[i][c] # None =>
    keyToId[KeyOf[pendData[i][c]]] = i /\ c \in CellsOf[pendData[i][c]]

StoreSound == OneFilingPerKey /\ DataFromOwnFiling

OrgsSeen ==
  /\ FilingHasOrg
  /\ seenEins \subseteq orgs \cup pendOrgs

\* every value of m is buffered or stored
Kept(m) ==
  LET i == keyToId[KeyOf[m]] IN
  /\ i # 0
  /\ \A c \in CellsOf[m] :
       \/ pendData[i][c] # None
       \/ pendFiling[i] = None /\ data[remap[i]][c] # None

\* no member of the archive in progress gets lost on the way
Progress ==
  pc \in {"work", "buffer", "flush", "record"} =>
    /\ unread \cup inflight \cup results \cup dropped \cup lost \subseteq MembersOf(cur)
    /\ \A m \in MembersOf(cur) :
         \/ m \in unread \cup inflight \cup results \cup dropped \cup lost
         \/ Kept(m)

\* what also holds of a store that filings are deleted from (IngestManage)
Sound ==
  /\ TypeOK /\ Boundaries /\ FreshIds /\ KeysLead /\ PendingFilings /\ PendingData
  /\ StoreSound /\ OrgsSeen /\ Progress

AddressesAsData == \A i \in Id, s \in Slot : address[i][s] = data[i][s]

Inv == Sound /\ AddressesAsData /\ RecordedAreStored
===============================================================================
