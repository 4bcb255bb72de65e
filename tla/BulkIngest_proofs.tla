--------------------------- MODULE BulkIngest_proofs ---------------------------
(***************************************************************************)
(* Proofs about the bulk ingest and the purges between its runs: the        *)
(* invariant Sound of both, the safety properties that follow from it, and  *)
(* the refinement of the abstract loader.  One lemma per action, after      *)
(* lemmas on what groups of actions leave alone.                            *)
(***************************************************************************)
EXTENDS IngestManage, FiniteSetTheorems, TLAPS

(***************************************************************************)
(* Looking up a key that has a row yields a row with that key.              *)
(***************************************************************************)
LEMMA RowOfKey ==
  ASSUME NEW table, NEW k, Rows(table, k) # {}
  PROVE  RowOf(table, k) \in DOMAIN table /\ table[RowOf(table, k)] = k
BY DEF Rows, RowOf

(***************************************************************************)
(* Sizes of sets of cells are numbers (the row count of a parsed member).   *)
(***************************************************************************)
LEMMA CellCount ==
  ASSUME NEW m \in Member
  PROVE  Cardinality(CellsOf[m] \ Slot) \in Nat
<1>1. IsFiniteSet(CellsOf[m] \ Slot)
  <2>1. IsFiniteSet(Cell) /\ CellsOf[m] \ Slot \in SUBSET Cell
    BY ArchivesAssumption DEF ArchivesAssumption
  <2> QED BY <2>1, FS_Subset
<1> QED BY <1>1, FS_CardinalityType

(***************************************************************************)
(* The initial database is empty and no process runs.                       *)
(***************************************************************************)
LEMMA InitSound == Init => Sound
<1> SUFFICES ASSUME Init PROVE Sound
  OBVIOUS
<1> USE ArchivesAssumption, BoundsAssumption
        DEF Init, NoProcess, NoData, NoAddress, NoFiling, NoRemap, NoKeys, Empty
<1>1. TypeOK
  <2>1. nextId \in 1..MaxId + 1
    BY DEF BoundsAssumption
  <2> QED BY <2>1 DEF TypeOK, Contents
<1>2. Boundaries
  BY DEF Boundaries
<1>3. FreshIds /\ KeysLead /\ PendingFilings /\ PendingData
  BY DEF FreshIds, KeysLead, PendingFilings, PendingData
<1>4. StoreSound
  BY DEF StoreSound, OneFilingPerKey, DataFromOwnFiling, ArchivesAssumption
<1>5. OrgsSeen /\ Progress
  BY DEF OrgsSeen, FilingHasOrg, Progress
<1> QED BY <1>1, <1>2, <1>3, <1>4, <1>5 DEF Sound

(***************************************************************************)
(* Steps that touch neither the database nor the buffers keep every part of *)
(* the invariant that speaks only of those.                                 *)
(***************************************************************************)
LEMMA StoreUntouched ==
  ASSUME Sound, UNCHANGED database
  PROVE  StoreSound' /\ FilingHasOrg'
BY DEF Sound, database, StoreSound, OneFilingPerKey, DataFromOwnFiling, OrgsSeen, FilingHasOrg

LEMMA BuffersUntouched ==
  ASSUME Sound, pc # "idle", UNCHANGED <<database, buffers, remap>>
  PROVE  /\ FreshIds' /\ KeysLead' /\ PendingFilings' /\ PendingData'
         /\ StoreSound' /\ OrgsSeen'
         /\ \A m \in Member : Kept(m) => Kept(m)'
<1>1. StoreSound' /\ OrgsSeen'
  BY StoreUntouched DEF Sound, OrgsSeen, buffers, database
<1>2. FreshIds' /\ KeysLead' /\ PendingFilings' /\ PendingData'
  BY DEF Sound, FreshIds, KeysLead, PendingFilings, PendingData, buffers, database
<1>3. \A m \in Member : Kept(m) => Kept(m)'
  BY DEF Kept, buffers, database
<1> QED BY <1>1, <1>2, <1>3

(***************************************************************************)
(* When the process ends, only the database is left.                        *)
(***************************************************************************)
LEMMA ProcessEndsSound ==
  ASSUME Sound, ProcessEnds, UNCHANGED <<database, ledger, missing>>,
         unscored' \in SUBSET Ein
  PROVE  Sound'
<1> USE ArchivesAssumption, BoundsAssumption
<1>1. TypeOK'
  <2>1. nextId' \in 1..MaxId + 1
    BY DEF ProcessEnds, BoundsAssumption
  <2>2. NoFiling \in [Id -> Key \cup {None}] /\ NoRemap \in [Id -> Id]
        /\ NoKeys \in [Key -> Id \cup {0}] /\ NoData \in [Id -> Contents]
    BY DEF NoFiling, NoRemap, NoKeys, NoData, Empty, Contents
  <2> QED BY <2>1, <2>2 DEF Sound, TypeOK, ProcessEnds, database
<1>2. Boundaries'
  BY DEF ProcessEnds, Boundaries, NoProcess, NoFiling, NoData, NoRemap, NoKeys, Empty
<1>3. FreshIds' /\ KeysLead' /\ PendingFilings' /\ PendingData'
  BY DEF ProcessEnds, FreshIds, KeysLead, PendingFilings, PendingData, NoFiling, NoData,
         NoKeys, Empty
<1>4. StoreSound' /\ OrgsSeen'
  BY StoreUntouched DEF ProcessEnds, OrgsSeen
<1>5. Progress'
  BY DEF ProcessEnds, Progress
<1> QED BY <1>1, <1>2, <1>3, <1>4, <1>5 DEF Sound

(***************************************************************************)
(* One lemma per action of the driver that handles archives and members.    *)
(***************************************************************************)
LEMMA StartRunSound == ASSUME Sound, StartRun PROVE Sound'
<1> USE ArchivesAssumption, BoundsAssumption
<1>0. pc = "idle" /\ NoProcess /\ pc' = "next"
  BY DEF StartRun, Sound, Boundaries
<1>1. TypeOK'
  BY DEF Sound, TypeOK, StartRun, database, reading
<1>2. Boundaries'
  BY <1>0 DEF Sound, Boundaries, StartRun, NoProcess, reading
<1>3. FreshIds'
  BY <1>0 DEF FreshIds, StartRun, IsSeed, NoProcess, NoFiling, database, Sound, TypeOK, Id,
         BoundsAssumption
<1>4. KeysLead' /\ PendingFilings' /\ PendingData'
  BY <1>0 DEF KeysLead, PendingFilings, PendingData, StartRun, NoProcess, NoFiling, NoData,
         NoKeys, Empty
<1>5. StoreSound' /\ OrgsSeen'
  BY StoreUntouched DEF Sound, StartRun, OrgsSeen, database
<1>6. Progress'
  BY <1>0 DEF Progress
<1> QED BY <1>1, <1>2, <1>3, <1>4, <1>5, <1>6 DEF Sound

LEMMA OpenArchiveSound == ASSUME Sound, NEW a \in Archive, OpenArchive(a) PROVE Sound'
<1> USE ArchivesAssumption, BoundsAssumption
<1>0. /\ pendFiling = NoFiling /\ pendData = NoData /\ inflight = {} /\ results = {}
      /\ pc = "next" /\ pc' = "work" /\ cur' = a
  BY DEF OpenArchive, Sound, Boundaries
<1>1. TypeOK'
  <2>1. NoRemap \in [Id -> Id] /\ NoKeys \in [Key -> Id \cup {0}]
    BY DEF NoRemap, NoKeys
  <2>2. MembersOf(a) \in SUBSET Member
    BY DEF MembersOf
  <2> QED BY <2>1, <2>2 DEF Sound, TypeOK, OpenArchive, database
<1>2. Boundaries'
  BY <1>0 DEF Boundaries, OpenArchive
<1>3. FreshIds'
  BY <1>0 DEF Sound, FreshIds, OpenArchive, database
<1>4. KeysLead' /\ PendingFilings' /\ PendingData'
  BY <1>0 DEF KeysLead, PendingFilings, PendingData, OpenArchive, NoFiling, NoData,
         NoKeys, Empty
<1>5. StoreSound' /\ OrgsSeen'
  BY StoreUntouched DEF Sound, OpenArchive, OrgsSeen, database
<1>6. Progress'
  BY <1>0 DEF Progress, OpenArchive
<1> QED BY <1>1, <1>2, <1>3, <1>4, <1>5, <1>6 DEF Sound

(***************************************************************************)
(* Moving members between the reading stages of the archive in progress.    *)
(***************************************************************************)
LEMMA ReadingSound ==
  ASSUME Sound, pc \in {"work", "buffer", "flush"},
         UNCHANGED <<database, ledger, missing, unscored, todo, cur, stop, buffers, remap>>,
         pc' \in {"work", "buffer"}, pc' # "buffer" => results' = {},
         broken' \in BOOLEAN,
         unread' \cup inflight' \cup results' \cup dropped' \cup lost'
           = unread \cup inflight \cup results \cup dropped \cup lost
  PROVE  Sound'
<1>1. TypeOK'
  BY DEF Sound, TypeOK, database, buffers
<1>2. Boundaries'
  BY DEF Sound, Boundaries
<1>3. Progress'
  <2>1. MembersOf(cur) = MembersOf(cur)' /\ MembersOf(cur) \in SUBSET Member
    BY DEF MembersOf
  <2> QED BY <2>1, BuffersUntouched DEF Sound, Progress
<1> QED BY <1>1, <1>2, <1>3, BuffersUntouched DEF Sound

LEMMA SkipCorruptSound == ASSUME Sound, SkipCorrupt PROVE Sound'
BY ReadingSound DEF Sound, Boundaries, TypeOK, SkipCorrupt

LEMMA ReadChunkSound == ASSUME Sound, ReadChunk PROVE Sound'
BY ReadingSound DEF Sound, Boundaries, TypeOK, ReadChunk

LEMMA CompleteBatchSound == ASSUME Sound, CompleteBatch PROVE Sound'
BY ReadingSound DEF Sound, Boundaries, TypeOK, CompleteBatch

LEMMA BreakPoolSound == ASSUME Sound, BreakPool PROVE Sound'
BY ReadingSound DEF Sound, Boundaries, TypeOK, BreakPool

(***************************************************************************)
(* Steps between archives and signals.                                      *)
(***************************************************************************)
LEMMA QuietSound ==
  ASSUME Sound, RequestStop \/ Finish \/ (\E a \in Archive : SkipArchive(a))
  PROVE  Sound'
<1>0. /\ pc # "idle" /\ pc' # "idle"
      /\ UNCHANGED <<database, ledger, missing, unscored, cur, reading, buffers, remap>>
      /\ \/ pc' = pc
         \/ pc = "next" /\ pc' = "score"
  <2>1. CASE RequestStop
    BY <2>1 DEF RequestStop
  <2>2. CASE Finish
    BY <2>2 DEF Finish
  <2>3. CASE \E a \in Archive : SkipArchive(a)
    BY <2>3 DEF SkipArchive
  <2> QED BY <2>1, <2>2, <2>3
<1>1. TypeOK'
  <2>1. todo' \in SUBSET Archive /\ stop' \in BOOLEAN
    BY DEF Sound, TypeOK, RequestStop, Finish, SkipArchive
  <2> QED BY <1>0, <2>1 DEF Sound, TypeOK, database, buffers, reading
<1>2. Boundaries'
  BY <1>0 DEF Sound, Boundaries, reading, buffers
<1>3. Progress'
  <2>1. MembersOf(cur) = MembersOf(cur)' /\ MembersOf(cur) \in SUBSET Member
    BY <1>0 DEF MembersOf
  <2> QED BY <1>0, <2>1, BuffersUntouched DEF Sound, Progress, reading
<1> QED BY <1>0, <1>1, <1>2, <1>3, BuffersUntouched DEF Sound

(***************************************************************************)
(* Recording an archive leaves the store and the buffers alone.             *)
(***************************************************************************)
LEMMA RecordZipSound == ASSUME Sound, RecordZip PROVE Sound'
<1>0. /\ pc = "record" /\ pc' = "next" /\ cur \in Archive
      /\ unread = {} /\ inflight = {} /\ results = {}
      /\ pendFiling = NoFiling /\ pendData = NoData
      /\ UNCHANGED <<database, unscored, todo, cur, reading, stop, buffers, remap>>
  BY DEF RecordZip, Sound, Boundaries
<1>1. TypeOK'
  BY <1>0 DEF Sound, TypeOK, database, buffers, reading, RecordZip
<1>2. Boundaries'
  BY <1>0 DEF Sound, Boundaries, reading, buffers
<1>3. FreshIds' /\ KeysLead' /\ PendingFilings' /\ PendingData'
  BY <1>0 DEF Sound, FreshIds, KeysLead, PendingFilings, PendingData, buffers, database
<1>4. StoreSound' /\ OrgsSeen'
  BY <1>0 DEF Sound, StoreSound, OneFilingPerKey, DataFromOwnFiling, OrgsSeen, FilingHasOrg,
         buffers, database
<1>5. Progress'
  BY <1>0 DEF Progress
<1> QED BY <1>1, <1>2, <1>3, <1>4, <1>5 DEF Sound

(***************************************************************************)
(* Buffering a parsed member: a new key gets an id nothing uses, a known    *)
(* key keeps its id, and buffered values are never dropped.                 *)
(***************************************************************************)
LEMMA BufferParsedSound == ASSUME Sound, NEW m \in Member, BufferParsed(m) PROVE Sound'
<1> USE ArchivesAssumption, BoundsAssumption
<1> DEFINE k == KeyOf[m]
           id == IF keyToId[k] = 0 THEN nextId ELSE keyToId[k]
<1>0. /\ pc = "buffer" /\ pc' \in {"buffer", "flush", "work"}
      /\ pc' # "buffer" => results' = {}
      /\ UNCHANGED <<database, ledger, missing, unscored, todo, cur, unread, inflight,
                     dropped, lost, broken, stop, remap>>
      /\ id \in Id /\ m \in results /\ results' = results \ {m}
      /\ keyToId' = [keyToId EXCEPT ![k] = id]
      /\ pendFiling' = IF id = nextId THEN [pendFiling EXCEPT ![id] = k] ELSE pendFiling
      /\ pendData' = [pendData EXCEPT ![id] = KeepFirst(@, Parsed(m))]
      /\ pendOrgs' = pendOrgs \cup ({EinOf[k]} \ seenEins)
      /\ seenEins' = seenEins \cup {EinOf[k]}
      /\ nextId' = IF id = nextId THEN nextId + 1 ELSE nextId
      /\ rows' = rows + Cardinality(CellsOf[m] \ Slot)
  BY DEF BufferParsed, NewOrgs, Seen
<1> HIDE DEF id
<1>k. k \in Key /\ EinOf[k] \in Ein /\ CellsOf[m] \in SUBSET Cell /\ None \notin Key
      /\ None \notin Member
  BY DEF ArchivesAssumption
<1>t. TypeOK
  BY DEF Sound
<1>n. \/ keyToId[k] = 0 /\ id = nextId
      \/ keyToId[k] # 0 /\ id = keyToId[k] /\ id < nextId
  BY <1>k DEF id, Sound, KeysLead
<1>p. \A x \in Id, c \in Cell :
        pendData'[x][c] = IF x = id /\ pendData[x][c] = None /\ c \in CellsOf[m]
                            THEN m ELSE pendData[x][c]
  BY <1>0, <1>k, <1>t DEF TypeOK, Contents, KeepFirst, Parsed
<1>1. TypeOK'
  <2>1. pendData' \in [Id -> Contents]
    <3>1. KeepFirst(pendData[id], Parsed(m)) \in Contents
      BY <1>0, <1>k, <1>t DEF TypeOK, Contents, KeepFirst, Parsed
    <3> QED BY <1>0, <1>t, <3>1 DEF TypeOK
  <2>2. nextId' \in 1..MaxId + 1
    BY <1>0, <1>t DEF TypeOK, Id, BoundsAssumption
  <2>3. rows' \in Nat
    <3>1. Cardinality(CellsOf[m] \ Slot) \in Nat
      BY CellCount
    <3>2. rows \in Nat
      BY <1>t DEF TypeOK
    <3>3. rows' = rows + Cardinality(CellsOf[m] \ Slot)
      BY <1>0
    <3> QED BY ONLY <3>1, <3>2, <3>3
  <2>4. keyToId' \in [Key -> Id \cup {0}] /\ pendFiling' \in [Id -> Key \cup {None}]
    BY <1>0, <1>k, <1>t DEF TypeOK
  <2> QED BY <1>0, <1>k, <1>t, <2>1, <2>2, <2>3, <2>4 DEF TypeOK, database
<1>2. Boundaries'
  BY <1>0 DEF Sound, Boundaries
<1>3. FreshIds'
  BY <1>0, <1>n, <1>t DEF Sound, FreshIds, TypeOK, Id, database, BoundsAssumption
<1>4. KeysLead'
  <2> SUFFICES ASSUME NEW q \in Key, keyToId'[q] # 0
               PROVE  /\ keyToId'[q] < nextId'
                      /\ EinOf[q] \in seenEins'
                      /\ \/ pendFiling'[keyToId'[q]] = q
                         \/ /\ pendFiling'[keyToId'[q]] = None
                            /\ filing'[remap'[keyToId'[q]]] = q
    BY DEF KeysLead
  <2>1. CASE q = k /\ keyToId[k] = 0
    BY <1>0, <1>k, <1>n, <1>t, <2>1 DEF TypeOK, Id
  <2>2. CASE ~(q = k /\ keyToId[k] = 0)
    <3>1. keyToId'[q] = keyToId[q] /\ keyToId[q] \in Id
      BY <1>0, <1>k, <1>n, <1>t, <2>2 DEF TypeOK
    <3>2. keyToId[q] < nextId /\ keyToId[q] < nextId'
      BY <1>0, <1>t, <3>1 DEF Sound, KeysLead, TypeOK, Id
    <3>3. pendFiling'[keyToId[q]] = pendFiling[keyToId[q]]
      BY <1>0, <1>n, <1>t, <3>1, <3>2 DEF TypeOK, Id
    <3> QED BY <1>0, <3>1, <3>2, <3>3 DEF Sound, KeysLead, database
  <2> QED BY <2>1, <2>2
<1>5. PendingFilings'
  <2> SUFFICES ASSUME NEW i \in Id, pendFiling'[i] # None
               PROVE  keyToId'[pendFiling'[i]] = i /\ filing'[i] = None
    BY DEF PendingFilings
  <2>1. CASE i = id /\ id = nextId
    BY <1>0, <1>k, <1>t, <2>1 DEF Sound, TypeOK, FreshIds, database, Id
  <2>2. CASE ~(i = id /\ id = nextId)
    <3>1. pendFiling'[i] = pendFiling[i] /\ pendFiling[i] \in Key
      BY <1>0, <1>t, <2>2 DEF TypeOK
    <3>2. keyToId[pendFiling[i]] = i /\ filing[i] = None /\ i # 0
      BY <3>1 DEF Sound, PendingFilings, Id
    <3> QED BY <1>0, <1>k, <1>n, <1>t, <3>1, <3>2 DEF TypeOK, database
  <2> QED BY <2>1, <2>2
<1>6. PendingData'
  <2> SUFFICES ASSUME NEW i \in Id, NEW c \in Cell, pendData'[i][c] # None
               PROVE  keyToId'[KeyOf[pendData'[i][c]]] = i /\ c \in CellsOf[pendData'[i][c]]
    BY DEF PendingData
  <2>1. CASE pendData[i][c] = None
    BY <1>0, <1>k, <1>p, <1>t, <2>1 DEF TypeOK
  <2>2. CASE pendData[i][c] # None
    <3>1. /\ pendData'[i][c] = pendData[i][c]
          /\ keyToId[KeyOf[pendData[i][c]]] = i /\ c \in CellsOf[pendData[i][c]] /\ i # 0
      BY <1>p, <2>2 DEF Sound, PendingData, Id
    <3>2. keyToId' = [keyToId EXCEPT ![k] = id]
      BY <1>0
    <3>3. pendData[i][c] \in Member
      BY <1>t, <2>2 DEF TypeOK, Contents
    <3>4. KeyOf[pendData[i][c]] \in Key
      BY <3>3 DEF ArchivesAssumption
    <3> QED BY <1>k, <1>n, <1>t, <3>1, <3>2, <3>4 DEF TypeOK
  <2> QED BY <2>1, <2>2
<1>7. StoreSound' /\ OrgsSeen'
  BY <1>0, StoreUntouched DEF Sound, OrgsSeen, database
<1>8. Progress'
  <2>1. MembersOf(cur) = MembersOf(cur)' /\ MembersOf(cur) \in SUBSET Member
    BY <1>0 DEF MembersOf
  <2>2. Kept(m)'
    <3>1. keyToId'[k] = id /\ id # 0
      BY <1>0, <1>k, <1>t DEF TypeOK, Id
    <3>2. \A c \in CellsOf[m] : pendData'[id][c] # None
      BY <1>0, <1>k, <1>p
    <3> QED BY <3>1, <3>2 DEF Kept
  <2>3. \A x \in Member : Kept(x) => Kept(x)'
    <3> SUFFICES ASSUME NEW x \in Member, Kept(x) PROVE Kept(x)'
      OBVIOUS
    <3>1. KeyOf[x] \in Key /\ CellsOf[x] \in SUBSET Cell
      BY DEF ArchivesAssumption
    <3> DEFINE i == keyToId[KeyOf[x]]
    <3>2. i \in Id /\ i < nextId /\ keyToId'[KeyOf[x]] = i
      BY <1>0, <1>k, <1>n, <1>t, <3>1 DEF Kept, Sound, KeysLead, TypeOK
    <3>3. pendFiling'[i] = pendFiling[i]
      BY <1>0, <1>n, <1>t, <3>2 DEF TypeOK, Id
    <3> QED BY <1>0, <1>k, <1>p, <3>1, <3>2, <3>3 DEF Kept, database
  <2> QED BY <1>0, <2>1, <2>2, <2>3 DEF Sound, Progress
<1> QED BY <1>1, <1>2, <1>3, <1>4, <1>5, <1>6, <1>7, <1>8 DEF Sound

(***************************************************************************)
(* What a flush does to the rows: stored filings stay, and the id of every  *)
(* key of the archive leads to the row that holds that key afterwards.      *)
(***************************************************************************)
LEMMA FlushFilings ==
  ASSUME Sound, Flush
  PROVE  /\ filing' \in [Id -> Key \cup {None}]
         /\ \A i \in Id : filing[i] # None => filing'[i] = filing[i]
         /\ \A i \in Id : filing'[i] # filing[i] => pendFiling[i] = filing'[i] /\ Inserted(i)
         /\ remap' \in [Id -> Id]
         /\ \A i \in Id : pendFiling[i] = None => remap'[i] = remap[i]
         /\ \A k \in Key : keyToId[k] # 0 => filing'[remap'[keyToId[k]]] = k
<1> USE ArchivesAssumption DEF ArchivesAssumption
<1>0. /\ TypeOK
      /\ filing' = [i \in Id |-> IF Inserted(i) THEN pendFiling[i] ELSE filing[i]]
      /\ remap' = [i \in Id |-> Resolve(i)]
  BY DEF Sound, Flush
<1>1. filing' \in [Id -> Key \cup {None}]
  BY <1>0 DEF TypeOK
<1>2. \A i \in Id : filing[i] # None => filing'[i] = filing[i]
  BY <1>0 DEF Inserted
<1>3. \A i \in Id : filing'[i] # filing[i] => pendFiling[i] = filing'[i] /\ Inserted(i)
  BY <1>0
<1>4. ASSUME NEW i \in Id, pendFiling[i] # None
      PROVE  remap'[i] \in Id /\ filing'[remap'[i]] = pendFiling[i]
  <2> DEFINE k == pendFiling[i]
  <2>1. Rows(filing', k) # {}
    <3>1. CASE Rows(filing, k) = {}
      <4>1. Inserted(i)
        BY <1>4, <3>1 DEF Inserted, Sound, PendingFilings
      <4> QED BY <1>0, <1>1, <4>1 DEF Rows
    <3>2. CASE Rows(filing, k) # {}
      <4>1. PICK j \in DOMAIN filing : filing[j] = k
        BY <3>2 DEF Rows
      <4>2. j \in Id
        BY <1>0, <4>1 DEF TypeOK
      <4> QED BY <1>1, <1>2, <1>4, <4>1, <4>2 DEF Rows
    <3> QED BY <3>1, <3>2
  <2>2. remap'[i] = RowOf(filing', k)
    BY <1>0, <1>4 DEF Resolve
  <2>3. DOMAIN filing' = Id
    BY <1>1
  <2> QED BY <2>1, <2>2, <2>3, RowOfKey
<1>5. \A i \in Id : pendFiling[i] = None => remap'[i] = remap[i]
  BY <1>0 DEF Resolve
<1>6. remap' \in [Id -> Id]
  BY <1>0, <1>4, <1>5 DEF TypeOK
<1>7. ASSUME NEW k \in Key, keyToId[k] # 0
      PROVE  filing'[remap'[keyToId[k]]] = k
  <2>1. keyToId[k] \in Id
    BY <1>0, <1>7 DEF TypeOK
  <2>2. CASE pendFiling[keyToId[k]] = k
    BY <1>4, <2>1, <2>2
  <2>3. CASE pendFiling[keyToId[k]] = None /\ filing[remap[keyToId[k]]] = k
    BY <1>0, <1>2, <1>5, <2>1, <2>3 DEF TypeOK
  <2> QED BY <1>7, <2>2, <2>3 DEF Sound, KeysLead
<1> QED BY <1>1, <1>2, <1>3, <1>4, <1>5, <1>6, <1>7

(***************************************************************************)
(* What a flush does to the values: stored ones stay, every buffered one    *)
(* finds its cell occupied afterwards, and a new one was buffered for the   *)
(* filing it now belongs to.                                                *)
(***************************************************************************)
LEMMA FlushData ==
  ASSUME Sound, Flush
  PROVE  /\ data' \in [Id -> Contents]
         /\ address' \in [Id -> [Slot -> Member \cup {None}]]
         /\ \A j \in Id, c \in Cell : data[j][c] # None => data'[j][c] = data[j][c]
         /\ \A i \in Id, c \in Cell : pendData[i][c] # None => data'[remap'[i]][c] # None
         /\ \A j \in Id, c \in Cell : data[j][c] = None /\ data'[j][c] # None =>
              /\ data'[j][c] \in Member
              /\ filing'[j] = KeyOf[data'[j][c]]
              /\ c \in CellsOf[data'[j][c]]
              /\ EinOf[KeyOf[data'[j][c]]] \in seenEins
<1> USE ArchivesAssumption DEF ArchivesAssumption
<1>0. /\ TypeOK
      /\ data' = [j \in Id |-> KeepFirst(data[j], Arriving(j))]
      /\ address' = [j \in Id |-> [s \in Slot |->
            IF address[j][s] # None THEN address[j][s] ELSE Arriving(j)[s]]]
  BY DEF Sound, Flush
<1>1. \A j \in Id : Arriving(j) \in Contents
  BY <1>0 DEF Arriving, TypeOK, Contents
<1>2. \A j \in Id, c \in Cell : Arriving(j)[c] # None =>
        \E i \in Id : remap'[i] = j /\ Arriving(j)[c] = pendData[i][c]
  BY DEF Arriving
<1>3. \A i \in Id, c \in Cell : pendData[i][c] # None => Arriving(remap'[i])[c] # None
  BY DEF Arriving
<1>4. \A j \in Id, c \in Cell :
        data'[j][c] = IF data[j][c] # None THEN data[j][c] ELSE Arriving(j)[c]
  BY <1>0 DEF KeepFirst
<1>5. data' \in [Id -> Contents]
  <2>1. \A j \in Id : KeepFirst(data[j], Arriving(j)) \in Contents
    BY <1>0, <1>1 DEF TypeOK, Contents, KeepFirst
  <2> QED BY <1>0, <2>1
<1>6. address' \in [Id -> [Slot -> Member \cup {None}]]
  BY <1>0, <1>1 DEF TypeOK, Contents
<1>7. ASSUME NEW j \in Id, NEW c \in Cell, data[j][c] = None, data'[j][c] # None
      PROVE  /\ data'[j][c] \in Member
             /\ filing'[j] = KeyOf[data'[j][c]]
             /\ c \in CellsOf[data'[j][c]]
             /\ EinOf[KeyOf[data'[j][c]]] \in seenEins
  <2>1. PICK i \in Id : remap'[i] = j /\ data'[j][c] = pendData[i][c]
    BY <1>2, <1>4, <1>7
  <2>2. /\ pendData[i][c] \in Member /\ c \in CellsOf[pendData[i][c]]
        /\ keyToId[KeyOf[pendData[i][c]]] = i
    BY <1>0, <1>7, <2>1 DEF TypeOK, Contents, Sound, PendingData
  <2>3. KeyOf[pendData[i][c]] \in Key /\ i # 0
    BY <2>2 DEF Id
  <2> QED BY <2>1, <2>2, <2>3, FlushFilings DEF Sound, KeysLead
<1>8. \A i \in Id : remap'[i] \in Id
  BY FlushFilings
<1>9. \A i \in Id, c \in Cell : pendData[i][c] # None => data'[remap'[i]][c] # None
  BY <1>3, <1>4, <1>8
<1>10. \A j \in Id, c \in Cell : data[j][c] # None => data'[j][c] = data[j][c]
  BY <1>4
<1> QED BY <1>5, <1>6, <1>7, <1>9, <1>10

LEMMA FlushSound ==
  ASSUME Sound, Flush, pc \in {"work", "flush"}, pc' \in {"work", "record"},
         pc' = "record" => unread = {} /\ inflight = {}
  PROVE  Sound'
<1> USE ArchivesAssumption
<1>0. /\ TypeOK
      /\ pendOrgs' = {} /\ pendFiling' = NoFiling /\ pendData' = NoData /\ rows' = 0
      /\ orgs' = orgs \cup pendOrgs
      /\ UNCHANGED <<seenEins, nextId, keyToId, ledger, missing, todo, cur, reading, stop>>
  BY DEF Sound, Flush
<1>d. /\ \A i \in Id : NoFiling[i] = None
      /\ \A i \in Id, c \in Cell : NoData[i][c] = None
  BY DEF NoFiling, NoData, Empty
<1>1. TypeOK'
  <2>1. NoFiling \in [Id -> Key \cup {None}] /\ NoData \in [Id -> Contents]
    BY DEF NoFiling, NoData, Empty, Contents
  <2>2. zip' \in [Id -> Archive \cup {None}]
    BY <1>0 DEF Flush, TypeOK
  <2>3. unscored' \in SUBSET Ein
    <3> DEFINE changed == {i \in Id : filing'[i] # None /\ data'[i] # data[i]}
    <3>1. \A j \in changed : EinOf[filing'[j]] \in Ein
      BY FlushFilings DEF ArchivesAssumption
    <3>2. unscored' = unscored \cup {EinOf[filing'[j]] : j \in changed}
      BY DEF Flush
    <3> HIDE DEF changed
    <3> QED BY <1>0, <3>1, <3>2 DEF TypeOK
  <2> QED BY <1>0, <2>1, <2>2, <2>3, FlushFilings, FlushData DEF TypeOK, reading
<1>2. Boundaries'
  BY <1>0 DEF Sound, Boundaries, reading
<1>3. FreshIds'
  BY <1>0, <1>d, FlushFilings DEF Sound, FreshIds
<1>4. KeysLead'
  BY <1>0, <1>d, FlushFilings DEF Sound, KeysLead, TypeOK
<1>5. PendingFilings' /\ PendingData'
  BY <1>0, <1>d DEF PendingFilings, PendingData
<1>6. OneFilingPerKey'
  <2> SUFFICES ASSUME NEW i \in Id, NEW j \in Id, filing'[i] = filing'[j], filing'[i] # None
               PROVE  i = j
    BY DEF OneFilingPerKey
  <2>1. CASE filing'[i] = filing[i] /\ filing'[j] = filing[j]
    BY <2>1 DEF Sound, StoreSound, OneFilingPerKey
  <2>2. CASE filing'[i] # filing[i] /\ filing'[j] # filing[j]
    BY <2>2, FlushFilings DEF Sound, PendingFilings
  <2>3. CASE filing'[i] # filing[i] /\ filing'[j] = filing[j]
    BY <1>0, <2>3, FlushFilings DEF Inserted, Rows, TypeOK
  <2>4. CASE filing'[i] = filing[i] /\ filing'[j] # filing[j]
    BY <1>0, <2>4, FlushFilings DEF Inserted, Rows, TypeOK
  <2> QED BY <2>1, <2>2, <2>3, <2>4
<1>7. DataFromOwnFiling'
  <2> SUFFICES ASSUME NEW i \in Id, NEW c \in Cell, data'[i][c] # None
               PROVE  filing'[i] = KeyOf[data'[i][c]] /\ c \in CellsOf[data'[i][c]]
    BY DEF DataFromOwnFiling
  <2>1. CASE data[i][c] = None
    BY <2>1, FlushData
  <2>2. CASE data[i][c] # None
    <3>1. /\ data'[i][c] = data[i][c]
          /\ filing[i] = KeyOf[data[i][c]] /\ c \in CellsOf[data[i][c]]
      BY <2>2, FlushData DEF Sound, StoreSound, DataFromOwnFiling
    <3>2. filing[i] \in Key /\ None \notin Key
      BY <1>0, <2>2, <3>1 DEF TypeOK, Contents, ArchivesAssumption
    <3>3. filing'[i] = filing[i]
      BY <3>2, FlushFilings
    <3> QED BY <3>1, <3>3
  <2> QED BY <2>1, <2>2
<1>8. StoreSound'
  BY <1>6, <1>7, FlushData DEF StoreSound
<1>9. OrgsSeen'
  <2>1. FilingHasOrg'
    <3> SUFFICES ASSUME NEW i \in Id, filing'[i] # None PROVE EinOf[filing'[i]] \in orgs'
      BY DEF FilingHasOrg
    <3>1. CASE filing'[i] = filing[i]
      BY <1>0, <3>1 DEF Sound, OrgsSeen, FilingHasOrg
    <3>2. CASE filing'[i] # filing[i]
      <4>1. pendFiling[i] = filing'[i] /\ pendFiling[i] \in Key /\ keyToId[pendFiling[i]] = i
        BY <1>0, <3>2, FlushFilings DEF Sound, PendingFilings, TypeOK
      <4>2. EinOf[pendFiling[i]] \in seenEins
        BY <4>1 DEF Sound, KeysLead, Id
      <4> QED BY <1>0, <4>1, <4>2 DEF Sound, OrgsSeen
    <3> QED BY <3>1, <3>2
  <2> QED BY <1>0, <2>1 DEF Sound, OrgsSeen
<1>10. Progress'
  <2>1. MembersOf(cur) = MembersOf(cur)' /\ MembersOf(cur) \in SUBSET Member
    BY <1>0 DEF MembersOf
  <2>2. ASSUME NEW m \in Member, Kept(m) PROVE Kept(m)'
    <3> DEFINE i == keyToId[KeyOf[m]]
    <3>1. i \in Id /\ i # 0 /\ CellsOf[m] \in SUBSET Cell
      BY <1>0, <2>2 DEF Kept, TypeOK, ArchivesAssumption
    <3>2. ASSUME NEW c \in CellsOf[m] PROVE data'[remap'[i]][c] # None
      <4>1. CASE pendData[i][c] # None
        BY <3>1, <4>1, FlushData
      <4>2. CASE pendFiling[i] = None /\ data[remap[i]][c] # None
        BY <1>0, <3>1, <4>2, FlushFilings, FlushData DEF TypeOK
      <4> QED BY <2>2, <4>1, <4>2 DEF Kept
    <3> QED BY <1>0, <1>d, <3>1, <3>2 DEF Kept
  <2> QED BY <1>0, <2>1, <2>2 DEF Sound, Progress, reading
<1> QED BY <1>1, <1>2, <1>3, <1>4, <1>5, <1>8, <1>9, <1>10 DEF Sound

LEMMA NextSound == Sound /\ [Next]_vars => Sound'
<1> SUFFICES ASSUME Sound, [Next]_vars PROVE Sound'
  OBVIOUS
<1>1. CASE StartRun
  BY <1>1, StartRunSound
<1>2. CASE RequestStop \/ Finish \/ (\E a \in Archive : SkipArchive(a))
  BY <1>2, QuietSound
<1>3. CASE \E a \in Archive : OpenArchive(a)
  BY <1>3, OpenArchiveSound
<1>4. CASE ReadChunk \/ SkipCorrupt \/ CompleteBatch \/ BreakPool
  BY <1>4, ReadChunkSound, SkipCorruptSound, CompleteBatchSound, BreakPoolSound
<1>5. CASE \E m \in Member : BufferParsed(m)
  BY <1>5, BufferParsedSound
<1>6. CASE MidFlush
  BY <1>6, FlushSound DEF MidFlush
<1>7. CASE FinalFlush
  BY <1>7, FlushSound DEF FinalFlush
<1>8. CASE RecordZip
  BY <1>8, RecordZipSound
<1>9. CASE AbortRun \/ Crash
  BY <1>9, ProcessEndsSound DEF AbortRun, Crash, Sound, TypeOK
<1>10. CASE Score
  BY <1>10, ProcessEndsSound DEF Score, Sound, TypeOK
<1>11. CASE UNCHANGED vars
  <2>1. Sound
    OBVIOUS
  <2>2. UNCHANGED <<database, ledger, missing, unscored, pc, todo, cur, reading, stop,
                    buffers, remap>>
    BY <1>11 DEF vars
  <2>3. TypeOK' /\ Boundaries'
    BY <2>1, <2>2 DEF Sound, TypeOK, Boundaries, NoProcess, database, reading, buffers
  <2>4. StoreSound' /\ OrgsSeen'
    BY <2>1, <2>2, StoreUntouched DEF Sound, OrgsSeen, buffers, database
  <2>5. FreshIds' /\ KeysLead' /\ PendingFilings' /\ PendingData'
    BY <2>1, <2>2 DEF Sound, FreshIds, KeysLead, PendingFilings, PendingData, buffers, database
  <2>6. Progress'
    <3>1. \A m \in Member : Kept(m)' <=> Kept(m)
      BY <2>2 DEF Kept, buffers, database
    <3>2. MembersOf(cur) = MembersOf(cur)' /\ MembersOf(cur) \in SUBSET Member
      BY <2>2 DEF MembersOf
    <3> QED BY <2>1, <2>2, <3>1, <3>2 DEF Sound, Progress, reading
  <2> QED BY <2>3, <2>4, <2>5, <2>6 DEF Sound
<1> QED
  BY <1>1, <1>2, <1>3, <1>4, <1>5, <1>6, <1>7, <1>8, <1>9, <1>10, <1>11
     DEF Next, Driver, Fault

(***************************************************************************)
(* What only a flush can do.                                                *)
(***************************************************************************)
LEMMA OnlyFlushStores ==
  ASSUME [Next]_vars
  PROVE  \/ /\ Flush
            /\ UNCHANGED <<ledger, missing>>
         \/ UNCHANGED <<filing, data, address>> /\ (RecordZip \/ UNCHANGED <<ledger, missing>>)
BY DEF Next, Driver, Fault, vars, StartRun, RequestStop, SkipArchive, OpenArchive,
       SkipCorrupt, ReadChunk, CompleteBatch, BreakPool, AbortRun, BufferParsed,
       MidFlush, FinalFlush, Flush, RecordZip, Finish, Score, Crash, database

(***************************************************************************)
(* What is stored stays stored, and the archive that a step records is      *)
(* stored except for the errors it counts: nothing of it is buffered any    *)
(* more, so what was kept is in the store.                                  *)
(***************************************************************************)
LEMMA StoredStays ==
  ASSUME Sound, [Next]_vars, NEW m \in Member, Stored(m)
  PROVE  Stored(m)'
<1>1. PICK i \in Id : filing[i] = KeyOf[m] /\ \A c \in CellsOf[m] : data[i][c] # None
  BY DEF Stored
<1>2. filing[i] # None /\ CellsOf[m] \in SUBSET Cell
  BY <1>1, ArchivesAssumption DEF ArchivesAssumption
<1> QED BY <1>1, <1>2, OnlyFlushStores, FlushFilings, FlushData DEF Stored

LEMMA RecordedIsStored ==
  ASSUME Sound, [Next]_vars, NEW m \in Member, ArchiveOf[m] \in ledger', m \notin missing'
  PROVE  Stored(m)' \/ (ArchiveOf[m] \in ledger /\ m \notin missing)
<1>1. CASE RecordZip /\ m \in MembersOf(cur)
  <2>0. /\ pc = "record" /\ unread = {} /\ inflight = {} /\ results = {}
        /\ pendFiling = NoFiling /\ pendData = NoData
        /\ UNCHANGED database
    BY <1>1 DEF RecordZip, Sound, Boundaries
  <2>1. Kept(m)
    BY <1>1, <2>0 DEF Sound, Progress, RecordZip
  <2>2. keyToId[KeyOf[m]] \in Id /\ KeyOf[m] \in Key
    BY <2>1, ArchivesAssumption DEF Kept, Sound, TypeOK, ArchivesAssumption
  <2> DEFINE i == keyToId[KeyOf[m]]
  <2>3. filing[remap[i]] = KeyOf[m] /\ remap[i] \in Id
    BY <2>0, <2>2, ArchivesAssumption
       DEF Sound, TypeOK, KeysLead, NoFiling, ArchivesAssumption, Id
  <2>4. \A c \in CellsOf[m] : data[remap[i]][c] # None
    BY <2>0, <2>1, <2>2, ArchivesAssumption DEF Kept, NoData, Empty, ArchivesAssumption
  <2> QED BY <2>0, <2>3, <2>4 DEF Stored, database
<1>2. CASE RecordZip /\ m \notin MembersOf(cur)
  BY <1>2 DEF RecordZip, MembersOf
<1>3. CASE UNCHANGED <<ledger, missing>>
  BY <1>3
<1> QED BY <1>1, <1>2, <1>3, OnlyFlushStores

LEMMA InitInv == Init => Inv
BY InitSound, ArchivesAssumption
   DEF ArchivesAssumption, Inv, Init, AddressesAsData, RecordedAreStored, NoData, NoAddress, Empty

LEMMA InvStep == Inv /\ [Next]_vars => Inv'
<1> SUFFICES ASSUME Inv, [Next]_vars PROVE Inv'
  OBVIOUS
<1>1. Sound'
  BY NextSound DEF Inv
<1>2. AddressesAsData'
  <2>1. CASE Flush
    <3>1. \A j \in Id, c \in Cell :
            data'[j][c] = IF data[j][c] # None THEN data[j][c] ELSE Arriving(j)[c]
      <4>1. \A j \in Id : data'[j] = KeepFirst(data[j], Arriving(j))
        BY <2>1 DEF Flush
      <4> QED BY <4>1 DEF KeepFirst
    <3>2. \A j \in Id, s \in Slot :
            address'[j][s] = IF address[j][s] # None THEN address[j][s] ELSE Arriving(j)[s]
      BY <2>1 DEF Flush
    <3>3. \A s \in Slot : s \in Cell
      BY ArchivesAssumption DEF ArchivesAssumption
    <3>4. \A j \in Id, s \in Slot : address[j][s] = data[j][s]
      BY DEF Inv, AddressesAsData
    <3> QED BY <3>1, <3>2, <3>3, <3>4 DEF AddressesAsData
  <2> QED BY <2>1, OnlyFlushStores DEF Inv, AddressesAsData
<1>3. RecordedAreStored'
  BY StoredStays, RecordedIsStored DEF Inv, RecordedAreStored
<1> QED BY <1>1, <1>2, <1>3 DEF Inv

(***************************************************************************)
(* The bulk ingest keeps its inductive invariant, whatever archives it is    *)
(* given, in whatever chunks, batches and flushes, and however often it      *)
(* crashes.                                                                 *)
(***************************************************************************)
THEOREM Invariance == Spec => []Inv
<1> QED BY InitInv, InvStep, PTL DEF Spec

(***************************************************************************)
(* Every variable keeps its type; in particular ids never leave their range.*)
(***************************************************************************)
THEOREM TypeCorrect == Spec => []TypeOK
<1>1. Inv => TypeOK
  BY DEF Inv, Sound
<1> QED BY <1>1, Invariance, PTL

(***************************************************************************)
(* No key ever has two filings, and no value sits in another return's       *)
(* filing.                                                                  *)
(***************************************************************************)
THEOREM FilingsKeyed == Spec => [](OneFilingPerKey /\ DataFromOwnFiling)
<1>1. Inv => OneFilingPerKey /\ DataFromOwnFiling
  BY DEF Inv, Sound, StoreSound
<1> QED BY <1>1, Invariance, PTL

(***************************************************************************)
(* While nothing is purged, an appearance shows its own return's address.   *)
(***************************************************************************)
THEOREM AddressesFiled == Spec => []AddressAsFiled
<1>1. Inv => AddressAsFiled
  BY DEF Inv, AddressesAsData, AddressAsFiled
<1> QED BY <1>1, Invariance, PTL

(***************************************************************************)
(* Every filing has its organization.                                       *)
(***************************************************************************)
THEOREM OrgsStored == Spec => []FilingHasOrg
<1>1. Inv => FilingHasOrg
  BY DEF Inv, Sound, OrgsSeen
<1> QED BY <1>1, Invariance, PTL

(***************************************************************************)
(* A recorded archive is stored, except its members counted as errors.      *)
(***************************************************************************)
THEOREM RecordedStored == Spec => []RecordedAreStored
<1>1. Inv => RecordedAreStored
  BY DEF Inv, Sound
<1> QED BY <1>1, Invariance, PTL

-------------------------------------------------------------------------------
(***************************************************************************)
(* A flush touches only organizations of this run, so the scoring at its    *)
(* end, which covers exactly those, reaches every change.                   *)
(***************************************************************************)
THEOREM ChangesScored == Spec => ChangedAreScored
<1>1. ASSUME Inv, [Next]_vars
      PROVE  [unscored' \subseteq unscored \cup seenEins]_vars
  <2>s. Sound
    BY <1>1 DEF Inv
  <2>1. CASE Flush
    <3> DEFINE changed == {i \in Id : filing'[i] # None /\ data'[i] # data[i]}
    <3>1. unscored' = unscored \cup {EinOf[filing'[j]] : j \in changed}
      BY <2>1 DEF Flush
    <3>2. ASSUME NEW j \in changed PROVE EinOf[filing'[j]] \in seenEins
      <4>1. data[j] \in Contents /\ data'[j] \in Contents /\ data'[j] # data[j]
        BY <2>s, <2>1, FlushData DEF Sound, TypeOK
      <4>2. PICK c \in Cell : data'[j][c] # data[j][c]
        BY <4>1 DEF Contents
      <4> QED BY <2>s, <2>1, <4>2, FlushData
    <3> HIDE DEF changed
    <3> QED BY <3>1, <3>2
  <2>2. CASE unscored' \subseteq unscored
    BY <2>2
  <2>3. Flush \/ unscored' \subseteq unscored \/ UNCHANGED vars
    BY <1>1 DEF Next, Driver, Fault, vars, StartRun, RequestStop, SkipArchive, OpenArchive,
       SkipCorrupt, ReadChunk, CompleteBatch, BreakPool, AbortRun, BufferParsed,
       MidFlush, FinalFlush, RecordZip, Finish, Score, Crash
  <2> QED BY <2>1, <2>2, <2>3
<1> QED BY <1>1, Invariance, PTL DEF Spec, ChangedAreScored

-------------------------------------------------------------------------------
(***************************************************************************)
(* The ingest implements the abstract loader: the facts of a key are those  *)
(* of its one filing, a flush is a Load, recording an archive is a Record,   *)
(* and every other step changes nothing the loader can see.                 *)
(***************************************************************************)
LEMMA FactsOfRow ==
  ASSUME TypeOK, OneFilingPerKey, NEW i \in Id, filing[i] # None
  PROVE  Rows(filing, filing[i]) # {} /\ FactsOf(filing[i]) = data[i]
<1>1. i \in Rows(filing, filing[i])
  BY DEF Rows, TypeOK
<1>2. RowOf(filing, filing[i]) \in Id /\ filing[RowOf(filing, filing[i])] = filing[i]
  BY <1>1, RowOfKey DEF TypeOK
<1>3. RowOf(filing, filing[i]) = i
  BY <1>2 DEF OneFilingPerKey
<1> QED BY <1>1, <1>3 DEF FactsOf

LEMMA LoaderInit == Init => Loader!Init
<1> SUFFICES ASSUME Init PROVE Loader!Init
  OBVIOUS
<1>1. \A k \in Key : Rows(filing, k) = {}
  BY ArchivesAssumption DEF Init, Rows, NoFiling, ArchivesAssumption
<1>2. ledger = {} /\ missing = {}
  BY DEF Init
<1> QED BY <1>1, <1>2 DEF Loader!Init, FactsOf, Empty, Loader!Empty

LEMMA FlushLoads == ASSUME Sound, Sound', Flush PROVE Loader!Load
<1> USE ArchivesAssumption DEF ArchivesAssumption
<1>t. TypeOK /\ TypeOK' /\ OneFilingPerKey /\ OneFilingPerKey' /\ DataFromOwnFiling
  BY DEF Sound, StoreSound
<1>1. \A k \in Key : Rows(filing, k) # {} => Rows(filing', k) # {}
  BY <1>t, FlushFilings DEF Rows, TypeOK
<1>2. \A k \in Key : FactsOf(k)' \in Contents
  <2> SUFFICES ASSUME NEW k \in Key PROVE FactsOf(k)' \in Contents
    OBVIOUS
  <2>1. CASE Rows(filing', k) = {}
    BY <2>1 DEF FactsOf, Empty, Contents
  <2>2. CASE Rows(filing', k) # {}
    <3>1. RowOf(filing', k) \in Id
      BY <1>t, <2>2, RowOfKey DEF TypeOK
    <3> QED BY <1>t, <2>2, <3>1 DEF FactsOf, TypeOK
  <2> QED BY <2>1, <2>2
<1>3. ASSUME NEW k \in Key, NEW c \in Cell, FactsOf(k)'[c] # FactsOf(k)[c]
      PROVE  /\ FactsOf(k)[c] = None
             /\ Rows(filing', k) # {}
             /\ \E m \in Member : KeyOf[m] = k /\ c \in CellsOf[m] /\ FactsOf(k)'[c] = m
  <2>1. Rows(filing', k) # {}
    BY <1>1, <1>3 DEF FactsOf
  <2>2. PICK j \in Id : filing'[j] = k
    BY <1>t, <2>1 DEF Rows, TypeOK
  <2>3. FactsOf(k)' = data'[j]
    <3>1. RowOf(filing', k) \in Id /\ filing'[RowOf(filing', k)] = k
      BY <1>t, <2>1, RowOfKey DEF TypeOK
    <3>2. RowOf(filing', k) = j
      BY <1>t, <2>2, <3>1 DEF OneFilingPerKey
    <3> QED BY <2>1, <3>2 DEF FactsOf
  <2>4. CASE filing[j] = k
    <3>1. FactsOf(k) = data[j]
      BY <1>t, <2>4, FactsOfRow
    <3> QED BY <1>3, <2>1, <2>2, <2>3, <3>1, FlushData
  <2>5. CASE filing[j] # k
    <3>1. filing[j] = None /\ Rows(filing, k) = {}
      BY <2>2, <2>5, FlushFilings DEF Inserted
    <3>2. FactsOf(k)[c] = None
      BY <3>1 DEF FactsOf, Empty
    <3>3. data[j][c] = None
      BY <1>t, <3>1 DEF DataFromOwnFiling, TypeOK, Contents
    <3> QED BY <1>3, <2>1, <2>2, <2>3, <3>2, <3>3, FlushData
  <2> QED BY <2>4, <2>5
<1>4. UNCHANGED <<ledger, missing>>
  BY DEF Flush
<1> QED BY <1>1, <1>2, <1>3, <1>4
        DEF Loader!Load, Loader!Contents, Contents

LEMMA RecordZipRecords == ASSUME Inv, Inv', RecordZip PROVE Loader!Record(cur, dropped \cup lost)
<1> USE ArchivesAssumption DEF ArchivesAssumption
<1>0. /\ pc = "record" /\ cur \in Archive /\ ledger' = ledger \cup {cur}
      /\ missing' = (missing \ MembersOf(cur)) \cup dropped \cup lost
      /\ UNCHANGED database /\ TypeOK /\ OneFilingPerKey
  BY DEF RecordZip, Inv, Sound, Boundaries, StoreSound
<1>1. dropped \cup lost \subseteq MembersOf(cur)
  BY <1>0 DEF Inv, Sound, Progress
<1>2. ASSUME NEW m \in MembersOf(cur) \ (dropped \cup lost)
      PROVE  /\ KeyOf[m] \in Key
             /\ Rows(filing, KeyOf[m]) # {}
             /\ \A c \in CellsOf[m] : FactsOf(KeyOf[m])[c] # None
  <2>1. m \in Member /\ ArchiveOf[m] \in ledger' /\ m \notin missing'
    BY <1>0 DEF MembersOf
  <2>2. Stored(m)
    BY <1>0, <2>1 DEF Inv, Sound, RecordedAreStored, Stored, database
  <2>3. PICK i \in Id : filing[i] = KeyOf[m] /\ \A c \in CellsOf[m] : data[i][c] # None
    BY <2>2 DEF Stored
  <2> QED BY <1>0, <2>1, <2>3, FactsOfRow
<1>3. UNCHANGED <<filing, data>>
  BY <1>0 DEF database
<1>4. \A k \in Key : (Rows(filing, k) = Rows(filing, k)') /\ (FactsOf(k)' = FactsOf(k))
  BY <1>3 DEF FactsOf
<1> QED BY <1>0, <1>1, <1>2, <1>4
        DEF Loader!Record, Loader!MembersOf, Loader!Stored, MembersOf

LEMMA LoaderStep == ASSUME Inv, Inv', [Next]_vars PROVE [Loader!Next]_Loader!vars
<1>1. CASE Flush
  BY <1>1, FlushLoads DEF Inv, Loader!Next
<1>2. CASE RecordZip
  <2>1. dropped \cup lost \in SUBSET MembersOf(cur) /\ cur \in Archive
    BY <1>2 DEF Inv, Sound, Progress, Boundaries, RecordZip
  <2>2. \A a \in Archive : MembersOf(a) = Loader!MembersOf(a)
    BY DEF MembersOf, Loader!MembersOf
  <2> QED BY <1>2, <2>1, <2>2, RecordZipRecords DEF Loader!Next
<1>3. CASE UNCHANGED <<filing, data, ledger, missing>>
  <2>1. \A k \in Key : (Rows(filing, k) = Rows(filing, k)') /\ (FactsOf(k)' = FactsOf(k))
    BY <1>3 DEF FactsOf
  <2> QED BY <1>3, <2>1 DEF Loader!vars
<1>4. Flush \/ RecordZip \/ UNCHANGED <<filing, data, ledger, missing>>
  BY DEF Next, Driver, Fault, vars, StartRun, RequestStop, SkipArchive, OpenArchive,
     SkipCorrupt, ReadChunk, CompleteBatch, BreakPool, AbortRun, BufferParsed,
     MidFlush, FinalFlush, Finish, Score, Crash, database
<1> QED BY <1>1, <1>2, <1>3, <1>4

(***************************************************************************)
(* Every behaviour of the bulk ingest is one of the abstract loader.        *)
(***************************************************************************)
THEOREM Refinement == Spec => ImplementsLoader
<1> QED BY LoaderInit, LoaderStep, Invariance, PTL DEF Spec, ImplementsLoader, Loader!Spec

-------------------------------------------------------------------------------
(***************************************************************************)
(* With purges between the runs.  A purge takes whole filings, with their   *)
(* values, when no ingest runs; the archives it goes on to forget are then  *)
(* not recorded any more.                                                   *)
(***************************************************************************)
LEMMA PurgeSound ==
  ASSUME Sound, NEW named \in SUBSET Archive, NEW matched \in SUBSET Archive,
         PurgeDelete(named, matched)
  PROVE  Sound'
<1> DEFINE gone == Deleted(named)
<1>0. /\ pc = "idle" /\ UNCHANGED <<address, orgs, ledger, missing, process>>
      /\ filing' = [i \in Id |-> IF i \in gone THEN None ELSE filing[i]]
      /\ zip' = [i \in Id |-> IF i \in gone THEN None ELSE zip[i]]
      /\ data' = [i \in Id |-> IF i \in gone THEN Empty ELSE data[i]]
      /\ unscored' \subseteq unscored
  BY DEF PurgeDelete, Without, Cascade
<1> HIDE DEF gone
<1>1. TypeOK'
  <2>1. Empty \in Contents
    BY DEF Empty, Contents
  <2> QED BY <1>0, <2>1 DEF Sound, TypeOK, process, buffers, reading
<1>2. Boundaries' /\ Progress'
  BY <1>0 DEF Sound, Boundaries, NoProcess, Progress, process, buffers, reading
<1>3. FreshIds' /\ KeysLead' /\ PendingFilings' /\ PendingData'
  <2>1. NoProcess'
    BY <1>0 DEF Sound, Boundaries, NoProcess, process, buffers, reading
  <2> QED BY <1>0, <2>1 DEF FreshIds, KeysLead, PendingFilings, PendingData, NoProcess, NoKeys,
          NoFiling, NoData, Empty, process
<1>4. StoreSound'
  BY <1>0 DEF Sound, StoreSound, OneFilingPerKey, DataFromOwnFiling, Empty
<1>5. OrgsSeen'
  BY <1>0 DEF Sound, OrgsSeen, FilingHasOrg, process, buffers
<1> QED BY <1>1, <1>2, <1>3, <1>4, <1>5 DEF Sound

(***************************************************************************)
(* Steps that only forget records.                                          *)
(***************************************************************************)
LEMMA ForgetSound ==
  ASSUME Sound, UNCHANGED <<database, missing, unscored, process>>, ledger' \subseteq ledger
  PROVE  Sound'
<1>1. TypeOK' /\ Boundaries'
  BY DEF Sound, TypeOK, Boundaries, NoProcess, database, process, reading, buffers
<1>2. FreshIds' /\ KeysLead' /\ PendingFilings' /\ PendingData'
  BY DEF Sound, FreshIds, KeysLead, PendingFilings, PendingData, database, process, buffers
<1>3. StoreSound' /\ OrgsSeen'
  BY StoreUntouched DEF Sound, OrgsSeen, process, buffers, database
<1>4. Progress'
  <2>1. \A m \in Member : Kept(m)' <=> Kept(m)
    BY DEF Kept, process, buffers, database
  <2>2. MembersOf(cur) = MembersOf(cur)' /\ MembersOf(cur) \in SUBSET Member
    BY DEF MembersOf, process
  <2> QED BY <2>1, <2>2 DEF Sound, Progress, process, reading
<1> QED BY <1>1, <1>2, <1>3, <1>4 DEF Sound

LEMMA ManageStep ==
  ASSUME Sound, LostOnlyToPurge, [ManageNext]_mvars
  PROVE  Sound' /\ LostOnlyToPurge'
<1>1. CASE Ingest
  <2>1. [Next]_vars /\ UNCHANGED <<purging, purged>>
    BY <1>1 DEF Ingest
  <2> QED BY <2>1, NextSound, StoredStays, RecordedIsStored DEF LostOnlyToPurge
<1>2. ASSUME NEW matched \in SUBSET Archive, NEW named \in SUBSET matched,
             PurgeDelete(named, matched)
      PROVE  Sound' /\ LostOnlyToPurge'
  <2>1. ASSUME NEW m \in Member, Stored(m) PROVE Stored(m)' \/ KeyOf[m] \in purged'
    BY <1>2, <2>1 DEF PurgeDelete, Without, Cascade, Stored
  <2>2. /\ \A m \in Member : KeyOf[m] \in purged => KeyOf[m] \in purged'
        /\ UNCHANGED <<ledger, missing>>
    BY <1>2 DEF PurgeDelete
  <2> QED BY <1>2, <2>1, <2>2, PurgeSound DEF LostOnlyToPurge
<1>3. CASE PurgeForget \/ PurgeCrash \/ (\E archives \in SUBSET Archive : Forget(archives))
           \/ UNCHANGED mvars
  <2>1. /\ UNCHANGED <<database, missing, unscored, process, purged>>
        /\ ledger' \subseteq ledger
    BY <1>3 DEF PurgeForget, PurgeCrash, Forget, mvars, vars, process
  <2>2. \A m \in Member : Stored(m)' <=> Stored(m)
    BY <2>1 DEF Stored, database
  <2> QED BY <2>1, <2>2, ForgetSound DEF LostOnlyToPurge
<1> QED BY <1>1, <1>2, <1>3 DEF ManageNext

LEMMA ManageInvariance == ManageSpec => [](Sound /\ LostOnlyToPurge)
<1>1. ManageInit => Sound /\ LostOnlyToPurge
  BY InitSound DEF ManageInit, Init, LostOnlyToPurge
<1> QED BY <1>1, ManageStep, PTL DEF ManageSpec

(***************************************************************************)
(* Whatever is purged between the runs, and however often ids are assigned  *)
(* again, no key has two filings and no value sits in another return's.     *)
(***************************************************************************)
THEOREM PurgesLeaveNoTrace == ManageSpec => []ReusedIdsAreClean
<1>1. Sound => ReusedIdsAreClean
  BY DEF Sound, StoreSound, ReusedIdsAreClean
<1> QED BY <1>1, ManageInvariance, PTL

(***************************************************************************)
(* A member of a recorded archive is stored, was counted as an error, or    *)
(* went with a purge of the filing that had its key.                        *)
(***************************************************************************)
THEOREM LossesArePurges == ManageSpec => []LostOnlyToPurge
BY ManageInvariance, PTL
===============================================================================
