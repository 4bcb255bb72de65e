------------------------------- MODULE Uploads -------------------------------
(***************************************************************************)
(* Returns stored one at a time and the graph that is drawn from them:     *)
(* router/Upload, router/Filing, the sequential path of ingest.py,         *)
(* database/Filing, ReportedData and Appearance, and openreturn resolve.   *)
(*                                                                         *)
(* An archive's returns are written in one transaction, member by member;  *)
(* an error of one is reported and what it had written stays.  The         *)
(* resolver reads every appearance before its own transaction.             *)
(*                                                                         *)
(* A value or an appearance is the member it came from.  Bounds: a write   *)
(* of a member happens wholly or not at all, an archive is smaller than    *)
(* the thousand members between two commits, a sequential ingest reads one *)
(* archive, MaxOps operations begin.                                       *)
(***************************************************************************)
EXTENDS Integers, Sequences, FiniteSets, SequencesExt, FiniteSetsExt, Functions

CONSTANTS
  Members, Keys, Zips,
  MembersIn,   \* zip -> sequence of its members
  Header,      \* member -> "ok", "missing", "unsupported" or "badyear"
  KeyOf,       \* member -> its <<organization, year, form>>, a key
  EinOf,       \* key -> the organization
  ObjectOf,    \* member -> the object id its file name gives, or None
  FieldsOf,    \* member -> the fields it reports
  GroupsOf,    \* member -> group code -> sequence of its containers
  Norm,        \* name -> its normal form, None when nothing is left of it
  NormalEin,   \* EIN, however it is written -> as an organization has it
  MaxOps, None

Ways == {"http", "seq", "dir"}  \* an upload, an ingest, the start of serve --testing
VARIABLES
  db,        \* the committed tables
  txn,       \* the open transaction that stores an archive, or None
  resolver,  \* what a resolver has read, or None
  stored,    \* history: <<member, way>> reported stored, the filing still there
  overtaken, \* history: appearances purged since the resolver read them
  swapped,   \* history: appearances linked as others that had their ids
  ops
links == <<overtaken, swapped>>
vars == <<db, txn, resolver, stored, links, ops>>

\* orgs: EINs; filings and parties: id -> row; data: filing -> field -> source;
\* appearances, with their edges: id -> row; addresses: <<filing, slot>> -> source
Tables == [orgs |-> {}, filings |-> << >>, data |-> << >>, appearances |-> << >>,
           addresses |-> << >>, parties |-> << >>]
Init ==
  /\ db = Tables /\ txn = None /\ resolver = None /\ ops = 0
  /\ stored = {} /\ overtaken = {} /\ swapped = {}

NextRow(table) == Max(DOMAIN table \cup {0}) + 1   \* no AUTOINCREMENT: ids come back

(* INSERT OR IGNORE: what is there stays.                                   *)
Inserted(table, more) ==
  [i \in DOMAIN table \cup DOMAIN more |-> IF i \in DOMAIN table THEN table[i] ELSE more[i]]
(* New rows, inserted in some order.                                        *)
Appended(table, rows) ==
  LET first == NextRow(table)
      order == SetToSeq(rows)
  IN Inserted(table, [i \in first..(first + Len(order) - 1) |-> order[i - first + 1]])

-----------------------------------------------------------------------------
(* What a return says.                                                      *)

KindOf(group) ==
  CASE group = "PART7A" -> "role" [] group = "SCHED_R" -> "related" [] OTHER -> "grant"
(* extract_groups: containers without a name are skipped, and keep their    *)
(* place in the numbering; only Schedules I and R have a recipient's EIN.   *)
Named(c) == c.person # None \/ c.business # None
Slots(m) ==
  UNION {{<<g, i>> : i \in {i \in DOMAIN GroupsOf[m][g] : Named(GroupsOf[m][g][i])}} :
           g \in DOMAIN GroupsOf[m]}
Appearance(f, m, s) == [filing |-> f, from |-> m, slot |-> s, party |-> None]

Container(a) == GroupsOf[a.from][a.slot[1]][a.slot[2]]
IsGrant(a) == KindOf(a.slot[1]) = "grant"
IsPerson(a) == Container(a).business = None
NameOf(a) == IF IsPerson(a) THEN Container(a).person ELSE Container(a).business
RecipientEin(a) == IF a.slot[1] \in {"SCHED_I", "SCHED_R"} THEN Container(a).ein ELSE None

(* _identity: who an appearance is; nobody when its name comes to nothing.  *)
ByEin(a) == ~IsPerson(a) /\ RecipientEin(a) # None
Identified(a) == ByEin(a) \/ Norm[NameOf(a)] # None
NameKey(a) == <<IF IsPerson(a) THEN "P" ELSE "O", Norm[NameOf(a)]>>
Identity(a) ==
  IF ByEin(a) THEN [ckey |-> <<"O#", RecipientEin(a)>>, ein |-> RecipientEin(a)]
  ELSE [ckey |-> NameKey(a), ein |-> None]

(* What the module that instantiates this one assumes of its constants.     *)
UploadsAssumption ==
  /\ MembersIn \in [Zips -> Seq(Members)]
  /\ KeyOf \in [Members -> Keys]
  /\ \A k \in Keys : EinOf[k] \in DOMAIN NormalEin /\ NormalEin[EinOf[k]] = EinOf[k]
  /\ \A q \in DOMAIN NormalEin : NormalEin[q] # None
  /\ \A m \in Members : IsFiniteSet(Slots(m))

-----------------------------------------------------------------------------
(* The four writes of a return.                                             *)

UpsertOrg(t, m) == [t EXCEPT !.orgs = @ \cup {EinOf[KeyOf[m]]}]

(* create_filing: a row with this key, or with this object id, is kept.     *)
OfKey(t, k) == {f \in DOMAIN t.filings : t.filings[f].key = k}
OfObject(t, o) == {f \in DOMAIN t.filings : o # None /\ t.filings[f].object = o}
InsertFiling(t, key, object, zip) ==
  LET f == NextRow(t.filings) IN
  IF OfKey(t, key) \cup OfObject(t, object) # {} THEN t
  ELSE [t EXCEPT !.filings = Inserted(@, [i \in {f} |-> [key |-> key, object |-> object, zip |-> zip]]),
                 !.data = Inserted(@, [i \in {f} |-> << >>])]
\* mutant: the row that was kept is the filing, whatever its key
FilingsKept(t, m) == OfKey(t, KeyOf[m]) \cup OfObject(t, ObjectOf[m])
FilingsOf(t, m) == OfKey(t, KeyOf[m])

(* store_reported_data: a field that has a value keeps it.                  *)
\* mutant: a filing that has values has been stored
StoreDataOnce(t, f, fields, source) ==
  IF t.data[f] # << >> THEN t
  ELSE [t EXCEPT !.data[f] = [c \in fields |-> source]]
StoreData(t, f, fields, source) ==
  [t EXCEPT !.data[f] = Inserted(@, [c \in fields |-> source])]

(* store_filing_graph, _store_record: a slot that is taken is kept; so is   *)
(* the address that has its place.                                          *)
Taken(t, f, s) ==
  \E i \in DOMAIN t.appearances : t.appearances[i].filing = f /\ t.appearances[i].slot = s
StoreGraph(t, f, m) ==
  [t EXCEPT
    !.addresses = Inserted(@, [place \in {f} \X Slots(m) |-> m]),
    !.appearances = Appended(@, {Appearance(f, m, s) : s \in {s \in Slots(m) : ~Taken(t, f, s)}})]

(* _process_xml and _store_parsed, up to the error: how many of its writes  *)
(* a member gets to at most, and the tables after n of them.                *)
Writes(way, m) ==
  CASE Header[m] = "ok"      -> IF way = "dir" THEN 3 ELSE 4
    [] Header[m] = "badyear" -> IF way = "dir" THEN 0 ELSE 1
    [] OTHER                 -> 0
Written(t, m, zip, n) ==
  LET upserted == IF n >= 1 THEN UpsertOrg(t, m) ELSE t
      created == IF n >= 2 THEN InsertFiling(upserted, KeyOf[m], ObjectOf[m], zip) ELSE upserted
      fs == FilingsOf(created, m)
  IN IF n < 3 \/ fs = {} THEN created
     ELSE LET f == CHOOSE f \in fs : TRUE
              valued == StoreData(created, f, FieldsOf[m], m)
          IN IF n = 3 THEN valued ELSE StoreGraph(valued, f, m)
Reported(t, way, m, n) ==
  Header[m] = "ok" /\ n = Writes(way, m) /\ FilingsOf(t, m) # {}

-----------------------------------------------------------------------------
(* Archives.                                                                *)

Op == ops < MaxOps /\ ops' = ops + 1
Unlocked == txn = None

Begin(way, zip) ==
  /\ Op /\ Unlocked
  /\ txn' = [way |-> way, zip |-> zip, todo |-> MembersIn[zip], tables |-> db, done |-> {}]
  /\ UNCHANGED <<db, resolver, stored, links>>
(* A pool parses the members of a directory's archive, in any order.        *)
Ready == IF txn.way = "dir" THEN DOMAIN txn.todo ELSE {1}
Store ==
  /\ ~Unlocked /\ txn.todo # << >>
  /\ \E i \in Ready : LET m == txn.todo[i] IN
     \E n \in 0..Writes(txn.way, m) :
       LET t == Written(txn.tables, m, txn.zip, n) IN
       txn' = [txn EXCEPT !.todo = RemoveAt(@, i), !.tables = t,
                          !.done = IF Reported(t, txn.way, m, n)
                                    THEN @ \cup {<<m, txn.way>>} ELSE @]
  /\ UNCHANGED <<db, resolver, stored, links, ops>>
(* The archive turns out to be corrupt.  An upload is answered so and its   *)
(* transaction left to the thread's next request; an ingest goes on.  A     *)
(* directory's is found corrupt when it is opened or not at all.            *)
Corrupt ==
  /\ ~Unlocked /\ txn.todo # << >>
  /\ txn.way = "dir" => txn.todo = MembersIn[txn.zip]
  /\ txn' = [txn EXCEPT !.todo = << >>, !.done = IF txn.way = "http" THEN {} ELSE @]
  /\ UNCHANGED <<db, resolver, stored, links, ops>>
Commit ==
  /\ ~Unlocked /\ txn.todo = << >>
  /\ db' = txn.tables /\ stored' = stored \cup txn.done /\ txn' = None
  /\ UNCHANGED <<resolver, links, ops>>
Die ==
  /\ ~Unlocked /\ txn' = None
  /\ UNCHANGED <<db, resolver, stored, links, ops>>

(* POST /filings and /filings/data.                                         *)
ApiCreateFiling(k) ==
  /\ Op /\ Unlocked /\ EinOf[k] \in db.orgs
  /\ db' = InsertFiling(db, k, None, None)
  /\ UNCHANGED <<txn, resolver, stored, links>>
ApiStoreData(f, c) ==
  /\ Op /\ Unlocked /\ f \in DOMAIN db.filings
  /\ db' = StoreData(db, f, {c}, None)
  /\ UNCHANGED <<txn, resolver, stored, links>>

(* ingest --purge: the filings of an archive go, with what hangs on them.   *)
(* Addresses, organizations and parties stay.                               *)
Purge(zip) ==
  LET gone == {f \in DOMAIN db.filings : db.filings[f].zip = zip}
      lost == {i \in DOMAIN db.appearances : db.appearances[i].filing \in gone}
  IN
  /\ Op /\ Unlocked /\ gone # {}
  /\ db' = [db EXCEPT
       !.filings = Restrict(@, DOMAIN @ \ gone),
       !.data = Restrict(@, DOMAIN @ \ gone),
       !.appearances = Restrict(@, DOMAIN @ \ lost)]
  /\ stored' = {s \in stored : OfKey(db, KeyOf[s[1]]) \cap gone = {}}
  /\ overtaken' = IF resolver = None THEN {} ELSE overtaken \cup (DOMAIN resolver \cap lost)
  /\ swapped' = swapped \ lost
  /\ UNCHANGED <<txn, resolver>>

-----------------------------------------------------------------------------
(* openreturn resolve.                                                      *)

ResolveRead ==
  LET named == {i \in DOMAIN db.appearances : Identified(db.appearances[i])} IN
  /\ Op /\ resolver = None /\ DOMAIN db.appearances # {}
  /\ resolver' = [i \in named |-> Identity(db.appearances[i])]
  /\ overtaken' = {} /\ UNCHANGED <<db, txn, stored, swapped>>

(* The first row read with a key that no party has makes the party.         *)
Known(t, ckey) == \E p \in DOMAIN t.parties : t.parties[p].ckey = ckey
NewParties(t, read) ==
  {read[i] : i \in {i \in DOMAIN read :
     ~Known(t, read[i].ckey) /\ \A j \in DOMAIN read : read[j].ckey = read[i].ckey => i <= j}}
\* mutant: the party is the row inserted last
PartyInserted(t, ckey) == Max(DOMAIN t.parties)
Party(t, ckey) == CHOOSE p \in DOMAIN t.parties : t.parties[p].ckey = ckey
(* An appearance that was read may be gone by now, or its id another's.     *)
Resolved(t, read) ==
  LET u == [t EXCEPT !.parties = Appended(@, NewParties(t, read))] IN
  [u EXCEPT !.appearances =
     [i \in DOMAIN @ |-> IF i \in DOMAIN read
                         THEN [@[i] EXCEPT !.party = Party(u, read[i].ckey)] ELSE @[i]]]
ResolveWrite ==
  /\ resolver # None /\ Unlocked
  /\ db' = Resolved(db, resolver)
  /\ resolver' = None /\ overtaken' = {}
  /\ swapped' = (swapped \ DOMAIN resolver) \cup (overtaken \cap DOMAIN db.appearances)
  /\ UNCHANGED <<txn, stored, ops>>
ResolveDies ==
  /\ resolver # None /\ resolver' = None /\ overtaken' = {}
  /\ UNCHANGED <<db, txn, stored, swapped, ops>>

Next ==
  \/ \E way \in Ways, zip \in Zips : Begin(way, zip)
  \/ Store \/ Corrupt \/ Commit \/ Die
  \/ \E k \in Keys : ApiCreateFiling(k)
  \/ \E f \in DOMAIN db.filings, c \in UNION {FieldsOf[m] : m \in Members} : ApiStoreData(f, c)
  \/ \E zip \in Zips : Purge(zip)
  \/ ResolveRead \/ ResolveWrite \/ ResolveDies
Spec == Init /\ [][Next]_vars

-----------------------------------------------------------------------------
(* The grants of an organization, as its profile shows them.                *)

Grants(t) == {i \in DOMAIN t.appearances : IsGrant(t.appearances[i])}
PartyEin(t, i) ==
  LET p == t.appearances[i].party IN IF p = None THEN None ELSE t.parties[p].ein
Grantor(t, i) == EinOf[t.filings[t.appearances[i].filing].key]
GrantsMade(t, q) ==
  {[grant |-> i, recipient |-> IF RecipientEin(t.appearances[i]) # None
                               THEN RecipientEin(t.appearances[i]) ELSE PartyEin(t, i)] :
     i \in {i \in Grants(t) : Grantor(t, i) = NormalEin[q]}}
\* mutant: only the EIN that was filed counts
GrantsFiled(t, q) == {i \in Grants(t) : RecipientEin(t.appearances[i]) = NormalEin[q]}
GrantsReceived(t, q) ==
  {i \in Grants(t) : RecipientEin(t.appearances[i]) = NormalEin[q]} \cup
  {i \in Grants(t) : PartyEin(t, i) = NormalEin[q]}

(* A return that was reported stored is there whole: a filing of its key    *)
(* with all of its fields and, unless it came by the way that stores none,  *)
(* all of its appearances.  An upload that failed half-way is healed by the *)
(* next one.                                                                *)
Whole(t, m, way) ==
  \E f \in OfKey(t, KeyOf[m]) :
    /\ FieldsOf[m] \subseteq DOMAIN t.data[f]
    /\ way = "dir" \/ \A s \in Slots(m) : Taken(t, f, s)
StoredIsWhole == \A s \in stored : Whole(db, s[1], s[2])

(* Nothing in a filing comes from a return of another organization, year or *)
(* form, however the object ids and the filing ids are reused.              *)
Own(t) ==
  /\ \A f \in DOMAIN t.filings : \A c \in DOMAIN t.data[f] :
       t.data[f][c] = None \/ KeyOf[t.data[f][c]] = t.filings[f].key
  /\ \A i \in DOMAIN t.appearances :
       KeyOf[t.appearances[i].from] = t.filings[t.appearances[i].filing].key
OwnData == Own(db)

(* An appearance is resolved to the party of its own identity, "never a     *)
(* wrong merge" (_identity): all but those that came, while a resolver ran, *)
(* to the ids of purged ones it had read, until a resolver reads them anew. *)
OfIdentity(t, a) ==
  a.party # None => Identified(a) /\ t.parties[a.party].ckey = Identity(a).ckey
PartyOfIdentity ==
  \A i \in DOMAIN db.appearances \ swapped : OfIdentity(db, db.appearances[i])

(* A grant that one organization's profile lists as made to another is in   *)
(* the other's as received, however the two are asked for; and the other    *)
(* way round, unless a grant with an EIN is linked as another one.          *)
MadeIsReceived ==
  LET made == UNION {GrantsMade(db, q) : q \in DOMAIN NormalEin}
      mistaken == {i \in swapped : RecipientEin(db.appearances[i]) # None}
  IN \A q \in DOMAIN NormalEin :
       LET shown == {g.grant : g \in {g \in made : g.recipient = NormalEin[q]}} IN
       /\ shown \subseteq GrantsReceived(db, q)
       /\ GrantsReceived(db, q) \subseteq shown \cup mistaken
=============================================================================
