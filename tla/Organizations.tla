---------------------------- MODULE Organizations ----------------------------
(***************************************************************************)
(* Organizations (database/Organization/organization.py, router/Org) and   *)
(* what is derived from and for them: the name index of the fuzzy search,  *)
(* the county of the filer's address, the type.  Requests, CLI commands    *)
(* and a bulk ingest write them, in transactions of their own.             *)
(*                                                                         *)
(* Left out: the mailing address, which is written as the filer's is, and  *)
(* the fields no other code reads.  Bound: MaxOps operations begin.        *)
(***************************************************************************)
EXTENDS Integers, FiniteSets, Bags

CONSTANTS Eins, Names, ZipCodes, Counties,
          Forms,     \* form codes of filings
          Threads,   \* request threads of the server
          MaxOps, None

VARIABLES
  orgs,       \* ein -> row
  address,    \* ein -> the row of its filer's address, which may outlive its link
  index,      \* organization_fts: a bag of <<ein, name>>
  crosswalk,  \* the <<zip, county>> rows that are dominant
  forms,      \* the <<ein, form>> of the filings
  granted,    \* the eins with a grant edge
  creating,   \* what each thread is about to insert, or has left in its transaction
  cli,        \* "idle", or a counties command between two of its transactions
  bulk,       \* the touched eins of an ingest and what it does next
  file,       \* history: the crosswalk file imported last
  imported,   \* history: every <<zip, county>> ever imported
  underived,  \* history: no derivation has followed the last import
  unclassified,  \* history: eins whose type changed since they were classified, not
                 \* in a bulk ingest that still runs
  ops
vars == <<orgs, address, index, crosswalk, forms, granted, creating, cli, bulk,
          file, imported, underived, unclassified, ops>>
counted == <<crosswalk, file, imported, underived>>
filed == <<forms, granted, unclassified>>

NoBulk == [touched |-> {}, at |-> "none"]
Init ==
  /\ orgs = << >> /\ address = << >> /\ index = EmptyBag
  /\ crosswalk = {} /\ forms = {} /\ granted = {}
  /\ creating = [t \in Threads |-> None] /\ cli = "idle" /\ bulk = NoBulk
  /\ file = << >> /\ imported = {} /\ underived = FALSE /\ unclassified = {} /\ ops = 0

Op == ops < MaxOps /\ ops' = ops + 1
(* Nobody else has written without committing, nor is the lock exclusive.   *)
Left(t) == creating[t] # None /\ creating[t].at = "left"
Free(t) == bulk = NoBulk /\ \A u \in Threads \ {t} : ~Left(u)
Request(t) == Op /\ Free(t) /\ creating[t] = None
Process == Op /\ bulk = NoBulk /\ \A t \in Threads : ~Left(t)

-----------------------------------------------------------------------------
(* The statements.                                                          *)

(* INSERT OR IGNORE and INSERT OR REPLACE of the row of o.                  *)
Insert(table, o, row) ==
  [p \in DOMAIN table \cup {o} |-> IF p \in DOMAIN table THEN table[p] ELSE row]
Replace(table, o, row) == [p \in DOMAIN table \cup {o} |-> IF p = o THEN row ELSE table[p]]

(* classify_organizations: the type of an organization, of its forms.       *)
Classified(o, fs) ==
  LET own == {f[2] : f \in {f \in fs : f[1] = o}} IN
  IF "990PF" \in own THEN "foundation"
  ELSE IF own \cap {"990", "990EZ", "990N"} # {} THEN "nonprofit"
  ELSE IF own \ {"FIN"} # {} THEN "other" ELSE None
Classify(os) ==
  [o \in DOMAIN orgs |->
     IF o \in os THEN [orgs[o] EXCEPT !.type = Classified(o, forms), !.grantmaker = o \in granted]
     ELSE orgs[o]]

(* Whether the filings and grants there are from now on make o another type.*)
Retyped(o) ==
  Classified(o, forms') # Classified(o, forms) \/ (o \in granted') # (o \in granted)
Unclassified(o) == unclassified \cup (IF Retyped(o) THEN {o} ELSE {})
(* What a running ingest has stored and not classified yet.                 *)
Loading == IF bulk.at \in {"load", "classify"} THEN bulk.touched ELSE {}

(* derive_counties: of any dominant row of the ZIP; without one the county  *)
(* is left as it is.                                                        *)
Derivations(adr, os) ==
  LET of(o) == {c \in Counties : <<adr[o].zip, c>> \in crosswalk}
      hit == {o \in os \cap DOMAIN adr : of(o) # {}}
  IN {[o \in DOMAIN adr |-> IF o \in hit THEN [adr[o] EXCEPT !.county = pick[o]] ELSE adr[o]] :
        pick \in {p \in [hit -> Counties] : \A o \in hit : p[o] \in of(o)}}

(* _write_address replaces the row: the county goes with the ZIP it was of. *)
\* mutant: only the columns of the request are updated
WriteAddressKept(adr, o, zip) ==
  Replace(adr, o, [zip |-> zip, county |-> IF o \in DOMAIN adr THEN adr[o].county ELSE None])
WriteAddress(adr, o, zip) == Replace(adr, o, [zip |-> zip, county |-> None])
(* The ingest's INSERT OR IGNORE.                                           *)
AddAddress(adr, o, zip) == IF zip = None THEN adr ELSE Insert(adr, o, [zip |-> zip, county |-> None])

NewOrg(name, zip) == [name |-> name, linked |-> zip # None, type |-> None, grantmaker |-> FALSE]
AddOrg(o, name, zip) == Insert(orgs, o, NewOrg(name, zip))
(* A name is indexed when its organization is new.                          *)
\* mutant: whether or not the insert was ignored
IndexedAlways(o, name) == index (+) SetToBag({<<o, name>>})
Indexed(o, name) == IF o \in DOMAIN orgs THEN index ELSE index (+) SetToBag({<<o, name>>})

(* _fts_stale compares the counts; rebuild_search_index reads every name.   *)
Stale == BagCardinality(index) # Cardinality(DOMAIN orgs)
Rebuilt == SetToBag({<<o, orgs[o].name>> : o \in DOMAIN orgs})
Renamed(o, name) == BagOfAll(LAMBDA r : IF r[1] = o THEN <<o, name>> ELSE r, index)

-----------------------------------------------------------------------------
(* Requests.                                                                *)

(* A return that is uploaded: the organization if it is new, its filing.    *)
Upload(t, o, name, zip, form, grants) ==
  /\ Request(t)
  /\ address' = AddAddress(address, o, zip)
  /\ orgs' = AddOrg(o, name, zip) /\ index' = Indexed(o, name)
  /\ forms' = forms \cup {<<o, form>>}
  /\ granted' = IF grants THEN granted \cup {o} ELSE granted
  /\ unclassified' = Unclassified(o)
  /\ UNCHANGED <<counted, creating, cli, bulk>>

(* create_org looks first and writes then.  Another thread may have made    *)
(* the organization meanwhile: the insert fails, the address has been       *)
(* replaced, and the thread's next request commits it.                      *)
CreateCheck(t, o, name, zip) ==
  /\ Request(t) /\ o \notin DOMAIN orgs
  /\ creating' = [creating EXCEPT ![t] = [ein |-> o, name |-> name, zip |-> zip, at |-> "insert"]]
  /\ UNCHANGED <<orgs, address, index, counted, filed, cli, bulk>>
CreateInsert(t) ==
  /\ creating[t] # None /\ creating[t].at = "insert" /\ Free(t)
  /\ LET c == creating[t] IN
     IF c.ein \in DOMAIN orgs
     THEN /\ creating' = [creating EXCEPT ![t].at = "left"]
          /\ UNCHANGED <<orgs, address, index>>
     ELSE /\ orgs' = AddOrg(c.ein, c.name, c.zip) /\ index' = Indexed(c.ein, c.name)
          /\ IF c.zip = None THEN address' = address
             ELSE address' \in Derivations(WriteAddress(address, c.ein, c.zip), {c.ein})
          /\ creating' = [creating EXCEPT ![t] = None]
  /\ UNCHANGED <<counted, filed, cli, bulk, ops>>
NextRequestCommits(t) ==
  /\ Left(t)
  /\ address' = IF creating[t].zip = None THEN address
                ELSE WriteAddress(address, creating[t].ein, creating[t].zip)
  /\ creating' = [creating EXCEPT ![t] = None]
  /\ UNCHANGED <<orgs, index, counted, filed, cli, bulk, ops>>

(* update_org: the fields that are given.  An address without content only  *)
(* unlinks the row.                                                         *)
Rename(t, o, name) ==
  /\ Request(t) /\ o \in DOMAIN orgs
  /\ orgs' = [orgs EXCEPT ![o].name = name] /\ index' = Renamed(o, name)
  /\ UNCHANGED <<address, counted, filed, creating, cli, bulk>>
Move(t, o, zip) ==
  /\ Request(t) /\ o \in DOMAIN orgs
  /\ orgs' = [orgs EXCEPT ![o].linked = zip # None]
  /\ IF zip = None THEN address' = address
     ELSE address' \in Derivations(WriteAddress(address, o, zip), {o})
  /\ UNCHANGED <<index, counted, filed, creating, cli, bulk>>

(* search_organizations, fuzzy: the index is built anew if its count is off.*)
Healed == IF Stale THEN Rebuilt ELSE index
FuzzySearch(t) ==
  /\ Request(t) /\ Stale /\ index' = Healed
  /\ UNCHANGED <<orgs, address, counted, filed, creating, cli, bulk>>

-----------------------------------------------------------------------------
(* Commands and the bulk ingest.                                            *)

(* counties import replaces the crosswalk; a file has one dominant county   *)
(* for each of its ZIPs.  Its derivation, and counties derive, follow.      *)
Crosswalk(f) == {<<z, f[z]>> : z \in DOMAIN f}
CountiesImport(f) ==
  /\ Process /\ cli = "idle"
  /\ crosswalk' = Crosswalk(f) /\ file' = f /\ imported' = imported \cup Crosswalk(f)
  /\ underived' = TRUE /\ cli' = "derive"
  /\ UNCHANGED <<orgs, address, index, filed, creating, bulk>>
DeriveAll ==
  /\ address' \in Derivations(address, DOMAIN address) /\ underived' = FALSE
  /\ UNCHANGED <<orgs, index, crosswalk, file, imported, filed, creating, bulk>>
CountiesImportDerives ==
  /\ cli = "derive" /\ bulk = NoBulk /\ \A t \in Threads : ~Left(t)
  /\ DeriveAll /\ cli' = "idle" /\ UNCHANGED ops
CountiesImportDies ==
  /\ cli = "derive" /\ cli' = "idle"
  /\ UNCHANGED <<orgs, address, index, counted, filed, creating, bulk, ops>>
CountiesDerive == Process /\ DeriveAll /\ UNCHANGED cli

CmdClassify ==
  /\ Process
  /\ orgs' = Classify(DOMAIN orgs) /\ unclassified' = {}
  /\ UNCHANGED <<address, index, counted, forms, granted, creating, cli, bulk>>
(* ingest --purge: filings and their grants go; no type is derived.         *)
Purge(o) ==
  /\ Process /\ \E f \in forms : f[1] = o
  /\ forms' = {f \in forms : f[1] # o} /\ granted' = granted \ {o}
  /\ unclassified' = Unclassified(o)
  /\ UNCHANGED <<orgs, address, index, counted, creating, cli, bulk>>

(* A bulk ingest goes past the index; its finalization has a transaction    *)
(* for each derived thing, and types and counties may fail.                 *)
BulkBegin ==
  /\ Process /\ cli = "idle" /\ bulk' = [touched |-> {}, at |-> "load"]
  /\ creating' = [t \in Threads |-> None]      \* the server is stopped
  /\ UNCHANGED <<orgs, address, index, counted, filed, cli>>
BulkStore(o, name, zip, form, grants) ==
  /\ Op /\ bulk.at = "load"
  /\ address' = AddAddress(address, o, zip) /\ orgs' = AddOrg(o, name, zip)
  /\ forms' = forms \cup {<<o, form>>}
  /\ granted' = IF grants THEN granted \cup {o} ELSE granted
  /\ bulk' = [bulk EXCEPT !.touched = @ \cup {o}]
  /\ UNCHANGED <<index, counted, unclassified, creating, cli>>
BulkIndex ==
  /\ bulk.at = "load"
  /\ index' = Rebuilt
  /\ bulk' = IF bulk.touched = {} THEN NoBulk ELSE [bulk EXCEPT !.at = "classify"]
  /\ UNCHANGED <<orgs, address, counted, filed, creating, cli, ops>>
\* mutant: the types are left to the command
TouchedNone == {}
Touched == bulk.touched
BulkClassify ==
  /\ bulk.at = "classify"
  /\ orgs' = Classify(Touched) /\ unclassified' = unclassified \ bulk.touched
  /\ bulk' = [bulk EXCEPT !.at = "derive"]
  /\ UNCHANGED <<address, index, counted, forms, granted, creating, cli, ops>>
BulkDerive ==
  /\ bulk.at = "derive"
  /\ address' \in Derivations(address, bulk.touched) /\ bulk' = NoBulk
  /\ UNCHANGED <<orgs, index, counted, filed, creating, cli, ops>>
BulkDies ==
  /\ bulk # NoBulk /\ bulk' = NoBulk /\ unclassified' = unclassified \cup Loading
  /\ UNCHANGED <<orgs, address, index, counted, forms, granted, creating, cli, ops>>

Next ==
  \/ \E t \in Threads :
       \/ \E o \in Eins, name \in Names, zip \in ZipCodes \cup {None} :
            \/ \E form \in Forms, grants \in BOOLEAN : Upload(t, o, name, zip, form, grants)
            \/ CreateCheck(t, o, name, zip)
       \/ CreateInsert(t) \/ NextRequestCommits(t)
       \/ \E o \in Eins, name \in Names : Rename(t, o, name)
       \/ \E o \in Eins, zip \in ZipCodes \cup {None} : Move(t, o, zip)
       \/ FuzzySearch(t)
  \/ \E zs \in SUBSET ZipCodes : \E f \in [zs -> Counties] : CountiesImport(f)
  \/ CountiesImportDerives \/ CountiesImportDies \/ CountiesDerive \/ CmdClassify
  \/ \E o \in Eins : Purge(o)
  \/ BulkBegin \/ BulkIndex \/ BulkClassify \/ BulkDerive \/ BulkDies
  \/ \E o \in Eins, name \in Names, zip \in ZipCodes \cup {None}, form \in Forms,
        grants \in BOOLEAN : BulkStore(o, name, zip, form, grants)
Spec == Init /\ [][Next]_vars

-----------------------------------------------------------------------------
(* A fuzzy search finds every organization by its present name, once: an    *)
(* index that has as many rows as there are organizations has their rows.   *)
FuzzyIsComplete ==
  bulk = NoBulk =>
    \A o \in DOMAIN orgs :
      /\ BagIn(<<o, orgs[o].name>>, Healed) /\ Healed[<<o, orgs[o].name>>] = 1
      /\ \A r \in BagToSet(Healed) : r[1] = o => r[2] = orgs[o].name

(* A county is the one some crosswalk gave for this very ZIP; once it has   *)
(* been derived from the last one, it is what that one says, if it says     *)
(* anything of the ZIP.                                                     *)
CountyOfZip ==
  \A o \in DOMAIN address :
    LET a == address[o] IN
    a.county # None =>
      /\ <<a.zip, a.county>> \in imported
      /\ a.zip \in DOMAIN file /\ ~underived => file[a.zip] = a.county

(* An organization has the type of its forms and the flag of its grants: an *)
(* ingest leaves none it touched without, whatever came before it.  What    *)
(* derives nothing is excused where it changed one of the two: an upload, a *)
(* purge, an ingest that died before it classified.                         *)
TypeOfForms ==
  \A o \in DOMAIN orgs \ (unclassified \cup Loading) :
    orgs[o].type = Classified(o, forms) /\ orgs[o].grantmaker = (o \in granted)
=============================================================================
