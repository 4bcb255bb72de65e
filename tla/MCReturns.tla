------------------------------ MODULE MCReturns ------------------------------
(***************************************************************************)
(* The ways returns enter and leave for TLC: ingest runs with purges        *)
(* between them (IngestManage), or uploads, the sequential ingest and the   *)
(* resolver with purges between them (Uploads).  A behaviour is one of the  *)
(* two, with the variables of the other at rest.                            *)
(***************************************************************************)
EXTENDS MCIngestManage, Sequences, TLC

VARIABLE side
VARIABLES db, txn, resolver, stored, overtaken, swapped, ops
uploads == <<db, txn, resolver, stored, <<overtaken, swapped>>, ops>>

-------------------------------------------------------------------------------
CONSTANTS Members, Keys, Zips, MembersIn, Header, KeyOfReturn, EinOfKey, ObjectOf,
          FieldsOf, GroupsOf, Norm, NormalEin, MaxOps
U == INSTANCE Uploads WITH KeyOf <- KeyOfReturn, EinOf <- EinOfKey

ASSUME ReturnsAssumption == U!UploadsAssumption

(* Two archives.  m2 amends m1, m3 has the object id of m1 but another key, *)
(* the year of m4 is not a number.                                          *)
CONSTANTS m2, z1, z2, e2, E1, x1, x2, fa, fb, acme, ACME
MCMembersIn == (z1 :> <<m1, m4>>) @@ (z2 :> <<m2, m3>>)
MCHeader == [m \in Members |-> IF m = m4 THEN "badyear" ELSE "ok"]
MCKeyOfReturn == [m \in Members |-> IF m = m3 THEN k2 ELSE k1]
MCEinOfKey == (k1 :> e1) @@ (k2 :> e2)
MCObjectOf == (m1 :> x1) @@ (m2 :> x2) @@ (m3 :> x1) @@ (m4 :> None)
MCFieldsOf == (m1 :> {fa}) @@ (m2 :> {fa, fb}) @@ (m3 :> {fb}) @@ (m4 :> {fb})
Business(name, ein) == [person |-> None, business |-> name, ein |-> ein]
Person(name) == [person |-> name, business |-> None, ein |-> None]
Nobody == [person |-> None, business |-> None, ein |-> None]
MCGroupsOf ==
  (m1 :> ("PF" :> <<Business(acme, None)>>)) @@
  (m2 :> ("SCHED_I" :> <<Nobody, Business(ACME, e2)>> @@ "PF" :> <<Business(ACME, None)>>)) @@
  (m3 :> ("SCHED_I" :> <<Business(acme, E1), Business(acme, e1)>> @@ "PART7A" :> <<Person(acme)>>)) @@
  (m4 :> << >>)
MCNorm == (acme :> acme) @@ (ACME :> acme)
(* E1 is e1 with a hyphen.                                                  *)
MCNormalEin == (e1 :> e1) @@ (e2 :> e2) @@ (E1 :> e1)

-----------------------------------------------------------------------------
ReturnsInit == side \in {"archives", "uploads"} /\ ManageInit /\ U!Init
ReturnsNext ==
  /\ UNCHANGED side
  /\ \/ side = "archives" /\ ManageNext /\ UNCHANGED uploads
     \/ side = "uploads" /\ UNCHANGED mvars
          /\ (U!Next \/ (ops = MaxOps /\ UNCHANGED uploads))  \* the bound is used up
Returns == ReturnsInit /\ [][ReturnsNext]_<<side, mvars, uploads>>

View == <<side, ExceptScores, uploads>>

(* A return that was reported stored is there whole.                        *)
StoredIsWhole == side = "uploads" => U!StoredIsWhole
(* Nothing in a filing comes from a return of another key.                  *)
OwnData == side = "uploads" => U!OwnData
(* An appearance is resolved to the party of its own identity.              *)
PartyOfIdentity == side = "uploads" => U!PartyOfIdentity
(* The grants one profile lists as made, the other lists as received.       *)
MadeIsReceived == side = "uploads" => U!MadeIsReceived
=============================================================================
