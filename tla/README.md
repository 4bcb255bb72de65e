# OpenReturn in TLA+

OpenReturn loads IRS Form 990 returns (XML in ZIP archives) into one SQLite
database, scores the organizations that filed them and serves the result over an
HTTP API with accounts, roles and API keys.  This directory holds TLA+ modules
that model its stateful parts, TLC configurations that check them on small
instances, and proofs that TLAPS checks for every instance.  `PROJECT.json` maps
every definition to the lines it models and lists components, runs, mutants,
findings, hazards and theorems.

    tlc -config BulkIngest.cfg MCBulkIngest      # one run
    tlapm BulkIngest_proofs.tla                  # all proofs of the bulk ingest

## 1. Inventory

Each component with the state it keeps, its operations, its hard behaviours and
what makes it correct.

| component | state | operations | hard behaviour | correct when |
|---|---|---|---|---|
| **Bulk ingest** `ingest.py` | filings, values, appearances, addresses, organizations, ingested_zip; per run: id counter, seen EINs; per archive: key->id map, remap, buffers | discover, skip recorded, read a chunk, collect a batch, flush, record, finalize, score; stop | worker deaths, process death anywhere, results in any order, ids assigned before a row is known to be new, archives that share a key | one filing per key; a value sits in the filing of its own return; a recorded archive is stored except counted errors; nothing stored is replaced |
| **Ingest management** `ingest.py`, `database/Ingest`, `Score/score.py` `purge*` | the same tables | find, forget, purge, each also for all | two transactions per purge, ids freed and assigned again, addresses no foreign key owns | purge and re-ingest attribute nothing to a wrong filing; what a recorded archive lost, a purge took |
| **Background control** `daemon.py`, `ingest.py` | pid file, lock file | start in background, look, stop | races of starters, crash with the lock held | one start holds the lock; one daemon runs under its pid file; a start ends |
| **HTTP server** `server/server.py`, `router/base.py` | thread pool, rate window, routes | accept, gate (key, rate, permission), dispatch, respond | a connection per thread, exceptions between a write and its commit | no request's failure changes another's data; the rate is bounded |
| **Database core** `database/base.py` | thread-local connections | execute, commit, bulk mode | implicit BEGIN, one writer, busy timeout of 30 s | a writer waits for the lock and is refused behind nobody; a request does not work on another's open writes |
| **Users** `database/User`, `Admin` and `Auth` routers, `users.py` | users, roles, grants, sessions, keys | create, assign, revoke, (de)activate, log in and out, password | guards that read before the transaction | an active administrator stays; a revoked session stays revoked but for a race; no half-made account is left; requests end |
| **Upload, sequential ingest** `router/Upload`, `database/Filing`, `ReportedData` | the filing tables | store an archive member by member, API writes | members that fail after some of their writes, two unique keys | what is reported stored is there whole; nothing sits in a filing of another key |
| **Appearance graph, resolver** `database/Appearance`, `resolve.py` | appearances, edges, addresses, parties | store a graph, resolve, list grants | rows read before the transaction that writes | an appearance has the party of its identity; grants made are grants received |
| **Organizations** `database/Organization`, `classify.py`, `counties.py` | rows, filer addresses, name index, crosswalk | upsert, create, edit, search, classify, import and derive counties | derived columns written by other transactions than their source | search finds every present name; a county is that of the ZIP; a type that of the forms |
| **Scores** `database/Score`, `router/Score` | scores, factor values, `org_score_latest` | calculate, grade, batch, rank, purge | three transactions per score, one for the cache | the cache holds the latest scores; totals are sums; ranks agree |
| **Scoring engine** `scoring/` | none | formulas, fills, composites, orders | the same scores by two code paths, missing inputs, stale rows | both ways agree; nothing stale or unflagged is left; nothing raises but a deviation too large to square |
| **Model administration** `models.py` | models and factors | register, edit, archive, delete | checks before the transaction that writes, scores present | composites stay computable |
| **Financials** `database/Financials` | observations, canonical choices, anchors | derive (one, all), record, choose, edit, backfill; a trigger | phases that commit one by one, a copy of each value | scoring reads what reports show; a person's choice stays |
| **Audit, curation, people** | rows per user or entity | create, list, edit, delete | none beyond one statement | - |
| **Parser, archive reader, OCR, command line, status, OpenAPI** | none of their own | pure functions or I/O | - | - |

How they interact.  An ingest process takes SQLite's exclusive lock for a whole
run (`begin_bulk_load`: `locking_mode=EXCLUSIVE`) and stops a running server
first: a run has no concurrent writer, which is why `BulkIngest` has one driver,
its workers (which return values and touch no database) and crashes.  The
server's requests run on pool threads, each with a connection of its own, and
meet in the database's single write lock.  Uploads, the sequential ingest, the
API and purges write the same tables in transactions of their own (`Uploads`).
The values a return reports become observations and choices (`Financials`), which
the engine reads (`Engine`) with the models that were let in (`Definitions`,
`Models`); what it computes is stored and ranked in several transactions
(`Scores`).  Organizations change under all of these (`Organizations`).

## 2. Modules

| module | models | extends |
|---|---|---|
| `Archives`, `ArchiveLoad` | archives, keys and cells; what an ingest promises, abstractly | - |
| `BulkIngest` | the URL ingest with a worker pool, in detail | `Archives`; instance of `ArchiveLoad` |
| `IngestManage` | forget and purge between ingest runs | `BulkIngest` |
| `Uploads` | returns stored one at a time, the graph drawn from them, the resolver | - |
| `Organizations` | rows, name index, counties, types | - |
| `Financials` | observations and canonical values | - |
| `Formulas`, `Definitions`, `Scoring`, `Engine` | what a formula comes to; what may become a model; what a run computes; scoring one organization | one the other |
| `Models` | administration of models by concurrent clients | - |
| `Scores` | scores and the ranking cache | - |
| `Connections` | transactions of the pool's threads over SQLite | - |
| `UserAdmin` | accounts, roles, permissions, sessions, the gate | - |
| `SpawnGuard` | starting the ingest in the background | - |
| `RateGate` | the request counter of one limited key | - |
| `MCBulkIngest`, `MCIngestManage`, `MCEngine`, `MCScores` | an instance of one module | |
| `MCReturns`, `MCRecords`, `MCComponents`, `MCProcesses` | several components | one of them, or its instance; `INSTANCE` of the rest |
| `*_proofs` | proofs about the module they name | it and `TLAPS` |
| `Components_proofs`, `Uploads_proofs`, `Financials_proofs` | proofs about components (`Organizations`, `Connections`, `RateGate`, `SpawnGuard`; `Uploads`; `Financials`) and their composition | `MCComponents`, `MCReturns`, `MCRecords` |

The row of `MCReturns` puts components that share no state into one run: the
first state picks a component (`side`), the behaviour is one of that component
and the variables of the others rest.  A property of such a run names its side,
so it is the property of that component, no more; a temporal one holds where the
side rests.

### BulkIngest

*State.*  `filing`, `zip`, `data`, `address`, `orgs`, `ledger` are the committed
tables.  `todo`..`broken` is the driver's loop; `seenEins`, `nextId` live for a
run (`_Ctx`, `_seed_filing_id`), `keyToId` and `remap` for an archive
(`_process_zip_par`), `pendOrgs`, `pendFiling`, `pendData`, `rows` until a flush.
`missing` (the members the pass counted as errors) and `unscored` are history of
what the code reports on the console or leaves to the scoring step.

*Actions*, one per step of the code that another step can fall between:
`StartRun` (discovery, skip of recorded archives unless `--force`, id seed),
`SkipArchive` (failed download), `OpenArchive`, `SkipCorrupt`, `ReadChunk`,
`CompleteBatch` (`as_completed`), `BreakPool` (a worker dies, every unfinished
future raises), `AbortRun` (submitting to the broken pool raises out of the run),
`BufferParsed` (one parsed return enters the buffers), `MidFlush`, `FinalFlush`
(`_flush_zip`, one transaction with `_resolve_ids` and the graph), `RecordZip`,
`Finish`, `Score`, `RequestStop`, `Crash`.

*Abstractions.*  A value is the member that reported it.  A cell is a reported
field or a slot of the repeating-group graph; slots also carry an address row.
Archive members are read in any order, and a batch is any set of at most
`BatchFiles` members.  Index drop and restore, search index and classification
are inside `Finish` and change none of the tables here (`Organizations` has the
latter two).  A crash is the death of the process; the loss of committed pages
by a machine failure under `synchronous=OFF` is not modelled.  `object_id`, the
second unique column of `filing`, is in `Uploads` only.

*Abstract specification.*  `ArchiveLoad` knows keys, one value per cell, and the
recorded archives: a load adds keys and fills empty cells with values reported
for that key, a record requires every member stored except the errors.  The
refinement maps a key to the row that holds it; ids, buffers, runs, crashes and
batches disappear.

### IngestManage

`PurgeDelete` and `PurgeForget` (two transactions, `_do_purge`), `PurgeCrash`
between them, and `Forget`.  A pattern selects archives; filings are matched by
archive name only and tracking records by name or URL, hence the two arguments.
Deleting a filing cascades to its values but not to addresses, whose ids are
text built from the filing id.

### Uploads

*State.*  `db` is what is committed; `txn` the archive a server thread or an
ingest is storing, with its tables so far; `resolver` what a resolver has read.
*Actions.*  `Store` is one member with up to four writes, of which an error
leaves any number; `Corrupt` an archive that breaks off; `ApiCreateFiling` and
`ApiStoreData` the API; `ResolveRead` and `ResolveWrite` the two halves of
`openreturn resolve`.  The three ways differ as the code does: the directory
read at start-up (`_store_parsed`) stores no graph although
`parser/groups.py:9` says all paths do, so `StoredIsWhole` asks for none there.
*Abstractions.*  A return is given by constants: its key, object id, fields and
groups.  An appearance is its return and the slot it was read from; its
identity (`_identity`) is derived from what the container says, as the code
derives it: a business with an EIN is a party of that EIN, one without is a party
of its name.  Grants stand for the edges.  An EIN is kept as it was filed and
compared, as the code does, with a normalized one (`NormalEin`).  Nothing keeps
a purge from running between what the resolver reads and what it writes:
`overtaken` are the appearances such a purge took from under it, `swapped` the
rows that were given their ids since and are linked as if they were the old ones.

### Organizations

Requests that look first and write later (`CreateCheck`, `CreateInsert`, and the
address a refused create leaves to the thread's next request), edits, the fuzzy
search that rebuilds an index whose count is off, the county commands with their
two transactions, classification, and a bulk ingest that stores rows, forms and
grants and whose finalization indexes, classifies and derives one by one or
dies.  An upload, a purge and an ingest that dies derive no type: `unclassified`
remembers the organizations whose forms or grants they really changed
(`Retyped`).  The index is a bag, because a row
too many must not make up for one that is missing.

### Financials

One organization's facts: a fact is a period and a concept, an observation one
source's reading of it, a choice the canonical one with a copy of its value.
What a return says is a number, a text that is none, or a NaN: `_to_float` takes
"nan" for a number where the SQL of the corpus-wide derivation does not
(`Number`), SQLite stores it as NULL, and a choice of it keeps its place.
`Purge` includes the trigger that chooses again; the corpus-wide derivation is
`BulkDocuments`, `BulkObservations` per concept and `BulkCanonical`, with
anything between; `mixed` remembers the facts that others observed between its
phases.  `Legacy` and `Backfill` are a database from before choices held values.

### Formulas, Definitions, Scoring, Engine

`Formulas` is `_compute_factor`, `_normalize` and the fills in exact rationals
(pairs, `None` where the code has None).  Of what a float does it keeps what can
raise: `MaxRoot` is the largest number whose square is a float, and a history
with a deviation above it raises `OverflowError`.  Beside each formula stands
what makes Python raise on its operands (`FixedRaises`, `HistoryRaises`), apart
from the guards that are to prevent it.  `MCEngine` checks the formulas against
what they are to mean, by ASSUMEs over bounded inputs.  `Definitions` is
`validate_toml`.  `Scoring` is what a run computes from what it has read of an
organization: the depth-first walk behind the three orders of the code
(`Visit`), one model's score of one year (`ScoreModel`), all scores of a batch
(`Batch`, which is `score_org`) and one on request (`OnDemand`), which works the
chain of models out with other code (`_compute_dependency_totals`).  `Engine` has
the state: it registers definitions good and bad, reshapes one organization's
years, and stores scores by `Rebuild` and `Calculate`, with the anchors a filled
year needs.  `fresh` and `asked` remember what was scored since the data changed.
The recursions of the code are recursive functions and folds, so that the proofs
reach them: the walk takes the nodes not yet on the stack as its argument, which
shrink, and raises at a node that is on it.

### Models

Every operation is a `Check` by a client's connection and a later write that
does not check again; `stale` marks a check another commit has overtaken,
`raced` and `edited` the models that such a commit, or a later edit of a child,
excuses.  `Fails` leaves a server thread's transaction open, `Surface` commits it
with the thread's next one.  Scores under a model make its edit fail half-way.

### Scores

`ops` holds, for each thread or process, an operation's next transaction: a
calculation has create, store, finalize and cache; a grade factor, sum and
finalize; a batch one commit per organization and the cache.  `RefreshFails` and
`Abort` lose a refresh (`leaks`) or leave a score half written (`loose`).
Rankings read the cache when it has any row of the model, the scores otherwise.
What a score comes to is any member of `Totals`: `Engine` has the rest.

### Connections

*State.*  For each pool thread: where its request is (`step`, `secured`), the
transaction of its connection (`tx`: none, begun but untouched, reading with a
pinned snapshot, writing) and whether the snapshot is overtaken (`stale`);
another process that writes (`outside`).  `carried` marks open writes that an
earlier request left, `failed` the connections on which a write statement has
raised since they last committed or rolled back: for a lock (`WriteFails`,
`GateFails`), or for anything else after its implicit BEGIN, like a value of the
JSON body that SQLite cannot take (`WriteRaises`, `admin.py:112` to
`user.py:344`).

*Code and library.*  What a statement does to the transaction is the sqlite3
module's and SQLite's part and marked external in the map: BEGIN before the
first write outside a transaction, no BEGIN for a read, a read inside a
transaction pins a snapshot, one writer, and a pinned snapshot that another
commit has overtaken refuses to write at once.  The code's part is when it
executes, commits and rolls back, and that it does neither when a request ends
or fails: `Respond` and `GateFails` leave `tx` alone.

### UserAdmin

*State.*  `db` is what is committed: users, active users, assignments, roles,
the roles that grant user:admin, the version of each password and the sessions
with the version they were opened under.  `holder` and `work` are the write
transaction a failed request left on its thread, `req` is each worker's request
with what it has read so far.

*Actions.*  `Gate` is authenticate with its commit; `Ask...` are the reads of
each method before its first write; one action per method is its write
transaction, including the guard's second read, the rollback and the error
paths that leave the transaction open.  `Audit` is the entry written after the
change, in a transaction of its own.  A CLI process runs the same methods
without a gate, has no command for some (`ServerOnly`), and closes its
connection when it ends.  `Timeout` is a write that gives up after the busy
timeout, `Kill` the death of the server or of a CLI process.

*Abstractions.*  Only user:admin is followed among permissions.  Names, hashes,
expiry of sessions and the text of the audit log are left out.  A role's id is
not used twice (AUTOINCREMENT).  A worker that `Connections` shows blocked by
its snapshot changes nothing, so it is not modelled here.

### SpawnGuard and RateGate

Each file operation, fork, pipe read and exit of a start is a step.  The pid
file is truncated and then written; a daemon whose starter is gone fails to
report and exits, leaving its file; `--stop` removes the file of a process that
has gone since it was probed.  `raced` remembers that two commands overlapped or
one was interrupted.  A process id is used once.  `RateGate` is one key with
time in ticks; counting is one step because the code does it under a lock.  An
observer that may begin anew at every tick (`span`) counts what is let in during
the window after it (`admitted`): what holds for it holds for every window.

## 3. Runs

| run | configuration | shows |
|---|---|---|
| `bulk_ingest` | `BulkIngest.cfg` | the inductive invariant, attribution, recording, and the refinement of the abstract loader |
| `returns` | `Returns.cfg` | purge and re-ingest attribute nothing wrongly; uploads store whole returns in their own filings; the links of a resolver that purges overtake, and the grants of profiles |
| `components` | `Components.cfg` | who is refused a write, and on what a request works; the rate; two starts among looks and stops; index, counties and types of organizations |
| `processes` | `Processes.cfg` | the last administrator stays; sessions; starts and requests end |
| `records` | `Records.cfg` | composites stay computable; scoring reads what reports show; a person's choice stays |
| `scoring` | `Engine.cfg` | registration admits nothing that raises, but for the overflow of a square; rebuild and calculation agree; no stale or unflagged score; no score without its filing, none twice |
| `scores` | `Scores.cfg` | the ranking cache, totals and rankings under interleaved operations |
| `interrupted`, `address_reuse`, `spawn_race`, `board_complete`, `orphan_user` | `*.cfg` of the same name | findings: section 5 |

*Bounds.*  `BulkIngest.cfg`: two archives of two members; three members share one
filing key (within an archive and across archives), the fourth is another year
of the same organization.  `FlushRows = 1`, `ChunkFiles = 2` and `BatchFiles = 1`
make a flush fall inside an archive, between two members of one key.  A run
assigns at most three ids (a key gets one per archive) and a stored id is at
most 4 (the first filing alone is stored as 1; a later run seeds 2, may ignore 2
and 3 and store 4), so no run needs an id above 7: `MaxId = 7` excludes nothing.

`Returns.cfg`: purges between runs have one member per key and archive and
`MaxId = 3`; `BufferParsed` stops when ids run out, which a purge that frees them
undoes.  The constraint leaves out stop requests and dead workers (`bulk_ingest`
has both), the view `unscored`, which no guard reads.  Uploads have two archives,
with an amendment of one return, another key under the same object id and a
return whose year does not parse, containers with and without a name and an EIN,
one EIN with and without its hyphen, a person and an organization of one name,
and four operations that begin: an upload, a resolution, a purge under it and
an upload that gets the freed ids, in this or any order.

`Components.cfg`: three threads, one that writes, one it overtakes and one more;
a limit of 2 and 4 ticks per window; two terminals that start, one that looks
and stops, and every fault; two organizations, names, ZIPs, counties and threads
and four operations: a create that is overtaken by another needs two, a renamed
organization that a bulk ingest or an import follows three.  All of these are
interchangeable (symmetry, no liveness).  `Processes.cfg`: two terminals that
start, every fault; two server threads, two administrators, one change of each
password (`MaxPw = 1`) and a role an API key refers to, whose deletion leaves a
transaction open; and accounts once more (the side "admins" of `MCProcesses`)
with a thread and a CLI process, one administrator, a user and a role yet to be
made, and every method on users, roles and grants but the change of a password:
once the user is an administrator too, two concurrent demotions are what could
empty the set of administrators.

`Records.cfg`: three versions, so a base model, a composite on it and one on that;
a thread and a command; three operations checked: a composite, and two that
interleave on what it weights.  One fact, two values, a text that is no
number and a NaN, one return form and its anchor, three readings.  `Engine.cfg`: three
years with two returns that report, a 990-T that does not, and a figure of zero entered
by hand; fourteen definitions (ratio, sum, median, coefficient of
variation, with and without fills; composites on two levels; nine that must be
refused or graded), three changes of the data and two scoring runs.  `MaxRoot` is
1: the deviations of two figures that differ by more than 2 overflow, so both
kinds of history occur.  `Scores.cfg`: two organizations, two years, two threads,
three operations, totals that tie and differ.

Deadlock is checked, except in `records`, `scoring` and `scores` (and the
violation run `board_complete`), where using up the number of operations ends a
behaviour; in `components` and `returns` a stutter marks that end.

*Fairness.*  No fairness is asked of an ingest, and no liveness claimed: a
download has no timeout (`sources.py:53`, `sources.py:126`) and the stop flag is
looked at only between archives, so a run need not end.  `UserAdmin` asks that a
request under way goes on and that the busy timeout runs out; nobody is obliged to
send a request, so an idle holder of the lock may stay idle.  `SpawnGuard` asks
that a command goes on once it has read, and that a forked daemon comes up unless
it is killed.  `MCProcesses` conjoins the two, each about its own side.  Its two
terminals are alike, and its two threads: `StartOfOneEnds` and `RequestOfOneEnds`
name one, which stands for every one by symmetry.

*Mutants.*  Each property of a passing run has a definition beside the one it
replaces (comment "mutant"), the way a plausible slip in the code would change
it: an id counter that starts at the largest stored id, `INSERT OR REPLACE`, a
flush before the last task, a missing cascade, a return whose filing is found by
its object id, an index row for an ignored insert, a child computed without its
fill.

## 4. Proofs

Every safety and action property of the runs that expect a pass is proved.  Each
proof finds an inductive invariant; what it needs beyond the property is said here.

`BulkIngest_proofs`, for every set of archives, members, keys, cells and all
bounds:

- `Invariance`: `Spec => []Inv`.  The safety properties are not inductive: that
  a value lands in its own filing rests on what the buffers may hold (an id is
  fresh or leads, through `remap`, to the stored row of its key: `KeysLead`,
  `FreshIds`, `PendingFilings`, `PendingData`) and that a recorded archive is
  stored rests on every member being in one of the driver's hands or kept
  (`Progress`).  `Inv` is their conjunction with typing and the store's own
  properties; `bulk_ingest` checks it as an invariant, too.
- `TypeCorrect`, `FilingsKeyed`, `AddressesFiled`, `OrgsStored`,
  `RecordedStored` follow from `Inv`.
- `ChangesScored`: an action property, from the same invariant.  That nothing
  stored is replaced is part of the refinement.
- `Refinement`: `Spec => Loader!Spec`.
- `PurgesLeaveNoTrace`, `LossesArePurges`: `ReusedIdsAreClean` and `LostOnlyToPurge`
  of `ManageSpec`, with purges between the runs.  `Inv` is in two parts for this:
  `Sound` survives a purge, the rest (that addresses agree, that a recorded
  archive is stored) does not, and `LostOnlyToPurge` takes its place.

The proof has one lemma per group of actions and two for a flush: `FlushFilings`
(after it every buffered key has exactly one row, and the remap leads there) and
`FlushData` (every cell holds what it held or a value of its own key).  The
assumptions are those the modules name: `ArchivesAssumption` and
`BoundsAssumption`.

`Uploads_proofs`, for any archives, returns, keys, fields and groups of which
`UploadsAssumption` holds (every return has a key, every key an organization,
and a return has finitely many slots), and for the composition `Returns`:
`StoredWhole` and `DataIsOwn` from `StoresInv`, in which rows refer to rows
(`Right`) and the tables of an open transaction have grown from the committed
ones (`Grown`), so that a commit takes nothing away; a purge cannot run under
the transaction, which holds the write lock.  `MergesAreRight` and `GrantsMeet`
from `LinksInv`, which adds that a link leads to the party of its appearance's
identity, whose EIN is that of its key, unless the appearance was swapped
(`Linked`), and that what a resolver has read is still what the tables say of
every row that has not been purged since (`StillRead`).  So a wrong merge takes a
purge under a resolver and a row that was given a purged one's id, and nothing
else makes one.  `GrantsMeet` holds in spite of them, except that a grant with an
EIN of its own that was linked as another is shown as received by a second
organization, that of the wrong party.

`Components_proofs`, for the composition `Components`, which implies the
specification of each of its parts (`EachAlone`):

- `Connections`, for any number of threads: `Inv` is inductive (one connection
  writes at most; one that is in a transaction without the lock has raised since
  its last commit; a stale connection is reading; what an earlier request left is
  an open write), and from it `WritersWait` and `SecuredClean`.
- `RateGate`, for every window and positive limit: `RateIsHeld`.  `RateInv` says
  that the present window has admitted no more than it counts and that the
  observer has met at most one window before it; refusals in a row belong to the
  present window.
- `SpawnGuard`, for any number of terminals and daemons: `StartsExclude` (the lock
  file) and `SpawnIsGuarded`.  While commands do not overlap (`OneAtATime`) one
  daemon at most comes up (`OneComingUp`), the pid file names a process that wrote
  it (`NamesAWriter`), and what a command has read is still so (`Looking`).

Its first part is about `Organizations`, for any organizations, names, ZIPs,
counties, forms and threads: `CountiesAreOfZips`, for which the crosswalk is that
of the file imported last and part of all that were imported (`CountyInv`);
`TypesAreOfForms`, for which forms and grants belong to organizations that are
stored: one that is added has neither, and one that an ingest touched is right
again once it has classified, whatever came before (`TypeInv`); and
`SearchIsComplete`.  No invariant says that the index is complete, for after a
bulk ingest dies it is not.  What is inductive is that it has no wrong row and
none twice (`IndexInv`), so that its count, which is all the code looks at, is off
exactly when a row is missing.  `CountOfOnes` computes the library's recursive sum
over a bag; `DirectoryIsRight` carries the three over to the composition.

`UserAdmin_proofs`, for any users, roles, threads and CLI processes, if there is
an administrator at the start: `LastAdminStays`.  `AdminRemains` alone is not
inductive.  A guard trusts what it read before it had the lock, so `SafeInv`
adds that every guarded request read TRUE, and, since a transaction left open is
committed later, that its contents keep an administrator, too.

From the same start, `StaleSessionsRaced`: the
sessions of the committed data and of an open transaction are of the present
password and an active user, or raced (`FreshInv`).

`Models_proofs`, for any versions, threads and commands: `CompositionHolds`.
That composites stay computable is inductive together with `StillChecked` (what
an operation has checked still holds unless a commit has made it stale) and with
the same statement about a transaction that was left open.

`Scores_proofs`, for any threads, totals and bounds and any finite sets of
organizations and years (`ScoresAssumption`, which also has what is compared be
integers: the order of the rankings is of numbers):

- `BoardStaysRight`.  `BoardInv` adds that rows have their fields and score ids are
  handed out once (`Shape`, `Rows`), and that the id an operation holds between
  two transactions still names a row of its organization, or a manual row, if it
  names one (`Running`): what the operation writes next can then spoil the cache
  only for an organization whose refresh it awaits.
- `TotalsAreSums`.  `SumInv` types rows and what operations carry (`Values`,
  `Carried`) and follows the factors of a row through the transactions that
  store them (`Settled`): a row that is not loose has one operation on it at
  most, and that operation knows the sum of what it has stored.  The sum is a
  fold over a finite function; `SumIsInt` and `SumOfOne` solve its recursion.
- `RankingsStayInStep`: a ranking lists the same organizations from the cache as
  from the scores, in one order, and a rank is one more than the number of better
  ones.  `RankInv` has one score per model, organization and year (`OneRow`) and a
  finite cache with one row per model and organization (`CacheBoard`).  The places
  of a ranking are counted, an injection of the rows into as many numbers, so that
  every place has its row; that the walk down the list computes those ranks is by
  the least place at which it would not.

`Financials_proofs`, for any periods, concepts, return types, values, editors and
bound on observations, and for the composition `Records`: `CanonStays`
(`CanonInv`), `PersonsChoiceStays` (`PersonStays`) and `RightlyChosenStays`
(`RightlyChosen`).  The premise is `Distinct`: the constants are finite, None is
no value and no row, and nobody is called "auto"; `MCRecords` has TLC evaluate it.
`FactsInv` adds to the types that ids are below the next one (`Numbering`), that a
reading is anchored to a stored filing of its own period (`Anchoring`), and that a
choice names a stored reading of its fact and copies its value, or awaits the
backfill (`Matching`).  `RightInv` adds that what no person chose is a valued
reading, or a NaN (`AutoRead`), and that a derivation cut short leaves every fact
in doubt (`CutMixed`); new readings get higher ids, so the first one stays first.

`Engine_proofs`, for any finite set of versions, any concepts, definitions,
returns, entries, span of years and number of operations.  `EngineAssumption`
asks that versions are finite, years integers, that a submitted definition has
lists for its factors and inputs (a parsed TOML document has nothing else), and
that returns and entries have figures, of years and concepts there are.
Nothing is assumed of what definitions say: good and bad ones are submitted.

- `ScoringNeverRaises`.  `Library` is inductive: every registered definition
  passed `Accepted` and its check against its children, and none is overwritten.
  In a graph that `find_cycle` accepts, nothing a node reaches (`Below`) leads
  back to it (`NoWayBack`); on such a graph the walk never meets a node on its
  stack, visits each once and puts it after what it depends on (`VisitGood`,
  `WalkIsRight`).  Models are in three layers (`Layers`), so theirs is such a
  graph.  No formula raises, either: a factor that registration accepted has as
  many inputs as its formula takes (`OperandsGiven`), the guards leave no operand
  out and no divisor zero (`FixedIsSafe`, `HistoryIsSafe`), and what is left is a
  deviation above `MaxRoot` (`OverflowsOnly`), in a batch (`RowIsSafe`) and in the
  chain of a request (`ChainOnly`).
- A score depends on the values of its year and the totals of the models it
  reads (`SameScores`, `SameTotal`).  Since these come first in the order, the
  rows of a batch are a fixed point: each is what its model gives on top of all
  of them (`BatchSettled`).  There is only one for each closed set of models
  (`SettledOnce`, layer by layer), whichever other models are scored with them.
- `EngineTypes`, `EngineStored`, `EngineOnDemand`.  `Inv` is the conjunction of
  `Library`, `TypeOK`, `Quiet` (nothing is filed while models are registered),
  `StoredIsCurrent` and `OnDemandAgrees`.  A rebuild replaces its models' rows by
  their part of the fixed point, and the rows it leaves are part of it already;
  what it changes besides, the anchors, changes neither the years to score, nor
  their values, nor the filing a year's score is kept at (`AnchorsChangeNothing`,
  `RebuildReads`).  A score on request is the fixed point's row: every total on
  its way is, by induction over the order of its chain, also where only the
  request's year is at hand (`RequestIsRow`).
- `EngineUnflagged` follows from `Inv`: an unflagged row was filled nowhere and
  read unflagged rows only (`UnflaggedYear`), so it is the total without any
  filling, by induction over the layers (`UnflaggedRow`).  The premise `FlagLost`
  leaves out the composites, and those above them, in which the code drops the
  flag: section 5.

What a formula computes is not expanded in these proofs, except in the first: the
others do not depend on it.  What they compute is checked by TLC (`MCEngine`'s
assumptions).

Where a lemma above computes a recursion (a fold, a bag's sum, the walk of a
ranking or of a graph), it exhibits a function that solves it and takes the least
argument at which the CHOSEn one would differ (`HasLeast`): no induction theorem
with an operator parameter is needed.  A fold's step cannot be a parameter either,
which is why each fold of `Scoring` has a lemma of its own (`ScoreSteps`,
`BatchSteps`, `ChainSteps`, `LeftSteps`).

Only model-checked: liveness (`RequestOfOneEnds`, `StartOfOneEnds`),
which needs ENABLED and fairness; and what the formulas, the normalization and
the donor years come to.

## 5. Findings

Each of these is a run that TLC finds violated.

- `address_reuse`: a purge leaves the address rows of the appearances it deletes;
  the next run assigns the freed ids again, `INSERT OR IGNORE` keeps the old
  address, and the new filing shows it.
- `interrupted`: when a worker dies while the last chunk of an archive is in
  flight, its members count as errors and the archive is recorded and not read
  again; in any earlier chunk the run aborts and the archive is redone.
- `spawn_race`: the check for a running daemon is not repeated under the lock, so
  a start that checked early and locked late starts a second daemon.
- `board_complete`: a scoring run whose refresh fails clears the ranking cache;
  the next single calculation puts one organization into it, which makes it
  "ready", and every other scored organization is missing from the rankings.
- `orphan_user`: `create_user` resolves its roles before it inserts the user, "so a
  bad role leaves no orphaned user row" (`user.py:207`).  A role deleted in between,
  while the password is hashed, fails its foreign key after the row was inserted;
  the transaction stays open and the next request of the thread commits the user.

The models show more that no run is spent on.

- *Connections.*  A statement that gives up on the lock (`base.py:160`) leaves its
  BEGIN open; so does one that raises for another reason, like a permission
  description that is a JSON list (`admin.py:112`, `user.py:344`).  The thread's next
  read pins a snapshot, the next commit elsewhere overtakes it, and from then on
  every secured request of that thread fails at once although nobody writes, until
  the server is restarted: `FailsBehindWriter` has to excuse the connections in
  `failed`.  A failed handler leaves its connection in a write transaction while it
  is idle (`carried`).
- *Ingest.*  A download has no timeout (`sources.py:53`, `sources.py:126`), and a stop
  is looked for between archives: an ingest whose download stalls does not end,
  whoever asks it to.
- *Accounts.*  The lockout guard protects nobody when it
  read that there was no administrator, so from an empty start two CLI processes
  can undo each other's first one.
- *Background.*  A command that read the pid file of a daemon about to end
  removes the file of the next one, which then runs under neither lock nor file.
- *Rate.*  A burst across a window's end passes more than the limit, although the
  architecture page calls the window a sliding one.
- *Resolver.*  It reads appearances before its transaction (`appearance.py:125`); a
  purge and an upload in between can give a read id to another appearance, which
  gets the first one's party, contrary to "never a wrong merge"
  (`appearance.py:110`): `PartyOfIdentity` has to excuse `swapped`.  A recipient EIN
  filed with a hyphen never shows as received, because only the query is
  normalized.  A grant of a 990-PF names no EIN and its party has none, so what the
  docstrings promise of it "after `openreturn resolve`" (`appearance.py:205`,
  `appearance.py:227`) happens for no such grant.
- *Uploads.*  The directory read at start-up stores no graph.  A return refused
  for its object id raises in `create_filing` after its organization was
  written.  A corrupt upload, or a refused `create_org` with an address, leaves
  writes in an open transaction that the thread's next commit stores.
- *Financials.*  A reading "nan" passes the test that is to keep empty readings from
  becoming canonical (`financials.py:244`), is stored as NULL and blocks every later
  value of the fact, contrary to the comment above the test ("it would silently
  block every later real value") and to `docs/financials.md:25`.  The corpus-wide
  derivation, "byte-identical" to the other (`financials.py:527`), reads no value
  there.  `AutoIsFirst` has to excuse such choices.
- *Types.*  An upload and a purge do not derive types: an organization whose forms
  or grants they changed keeps the old one until the next ingest that touches it
  or `openreturn classify` (`unclassified`).
- *Engine.*  An imputed child total is to flag what reads it (`engine.py:405`,
  `docs/development/architecture.md:305`).  A composite without a policy of its
  own drops the flag in a rebuild (`engine.py:413`), and every composite does in a
  calculation on request (`engine.py:252`): `UnflaggedIsReal` is about rebuilt
  scores and has to excuse `FlagLost`.  Two figures whose deviation from their
  mean is above 1e154 overflow when it is squared (`engine.py:779`,
  `engine.py:784`), which ends a rebuild: `NeverRaises` has to excuse
  `Overflowing`.  Scores of filled years outlive a rebuild that finds no year to
  score (`engine.py:400`), hence `ScoringYears # {}` in `StoredIsCurrent`.
- *Models.*  Two concurrent edits can make composites depend on each other
  (`NoCycle`), which ends every full rebuild; an edit of a model with stored
  values stops after its header (`EditsWhole`).
- *Scores.*  A score stored by hand for a manual model reaches the cache with the
  next edit of its organization (`ManualNeverCached` fails, `engine.py:261`);
  from then on only such organizations are ranked.  Two graders of one score can
  lose a total.  Clearing an address refreshes no cache.

## 6. Not modelled, and why

Lists, tags, follows, notes, giving, people, model data and the audit log are
rows that one statement writes and an owner check guards: no property relates
two of their steps.  The parser's extraction, OCR, templates, command-line
parsing, status reports and the API description are pure functions or I/O; the
archive reader is abstracted in the faults of `BulkIngest` and `Uploads`.
Set-up scripts and migrations (but for the backfill in `Financials`) run before
any client.  Rounding of floats: `Formulas` is exact.  The queue of accepted
sockets has no bound, and a recycled process id cannot be told from a live
daemon: a property would only restate that.
