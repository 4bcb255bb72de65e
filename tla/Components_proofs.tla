------------------------- MODULE Components_proofs -------------------------
(***************************************************************************)
(* Proofs about the counties, the types and the name index of              *)
(* organizations, for any organizations, names, ZIPs, counties, threads    *)
(* and number of operations; then the safety properties of Connections, of *)
(* RateGate and of SpawnGuard, for every pool of threads, window, limit    *)
(* and set of terminals and processes, and of the composition that the     *)
(* runs check.                                                             *)
(***************************************************************************)
EXTENDS MCComponents, FiniteSetTheorems, WellFoundedInduction, TLAPS

-----------------------------------------------------------------------------
(* Counties.                                                                *)

IsRow(a) == DOMAIN a = {"zip", "county"}
RightCounty(a) ==
  a.county # None =>
    /\ <<a.zip, a.county>> \in imported
    /\ a.zip \in DOMAIN file /\ ~underived => file[a.zip] = a.county
Addresses == \A o \in DOMAIN address : IsRow(address[o]) /\ RightCounty(address[o])
CrosswalkInv ==
  /\ crosswalk = Crosswalk(file) /\ crosswalk \subseteq imported
  /\ \A z \in DOMAIN file : file[z] \in Counties
CountyInv == Addresses /\ CrosswalkInv

(* What a derivation leaves is what it found, or a county of the crosswalk; *)
(* it leaves no address of a ZIP the crosswalk has a county for.            *)
LEMMA DerivedRow ==
  ASSUME NEW adr, NEW os, NEW a \in Derivations(adr, os), NEW o \in DOMAIN a,
         \A p \in DOMAIN adr : IsRow(adr[p])
  PROVE  /\ DOMAIN a = DOMAIN adr
         /\ IsRow(a[o]) /\ a[o].zip = adr[o].zip
         /\ \/ a[o] = adr[o] /\ (o \in os => \A c \in Counties : <<adr[o].zip, c>> \notin crosswalk)
            \/ <<a[o].zip, a[o].county>> \in crosswalk
<1> DEFINE of(x) == {c \in Counties : <<adr[x].zip, c>> \in crosswalk}
           hit == {x \in os \cap DOMAIN adr : of(x) # {}}
<1>1. PICK p \in {p \in [hit -> Counties] : \A x \in hit : p[x] \in of(x)} :
        a = [x \in DOMAIN adr |-> IF x \in hit THEN [adr[x] EXCEPT !.county = p[x]] ELSE adr[x]]
  BY DEF Derivations
<1>2. o \in DOMAIN adr /\ DOMAIN a = DOMAIN adr
  BY <1>1
<1>3. CASE o \in hit
  <2>1. a[o] = [adr[o] EXCEPT !.county = p[o]] /\ p[o] \in of(o)
    BY <1>1, <1>2, <1>3
  <2>2. DOMAIN adr[o] = {"zip", "county"} /\ DOMAIN a[o] = DOMAIN adr[o]
    BY <1>2, <2>1 DEF IsRow
  <2>3. a[o].county = p[o] /\ a[o].zip = adr[o].zip /\ IsRow(a[o])
    BY <2>1, <2>2 DEF IsRow
  <2> QED BY <1>2, <2>1, <2>3
<1>4. CASE o \notin hit
  <2>1. a[o] = adr[o]
    BY <1>1, <1>2, <1>4
  <2> QED BY <1>2, <1>4, <2>1
<1> QED BY <1>3, <1>4

LEMMA OfCrosswalk ==
  ASSUME CrosswalkInv, NEW a, <<a.zip, a.county>> \in crosswalk PROVE RightCounty(a)
<1>1. PICK z \in DOMAIN file : <<a.zip, a.county>> = <<z, file[z]>>
  BY DEF CrosswalkInv, Crosswalk
<1> QED BY <1>1 DEF RightCounty, CrosswalkInv

LEMMA DerivationsRight ==
  ASSUME CrosswalkInv, UNCHANGED counted, NEW adr, NEW os, address' \in Derivations(adr, os),
         \A o \in DOMAIN adr : IsRow(adr[o]) /\ RightCounty(adr[o])
  PROVE  CountyInv'
<1>1. ASSUME NEW o \in DOMAIN address'
      PROVE  IsRow(address'[o]) /\ RightCounty(address'[o])
  <2>1. /\ o \in DOMAIN adr /\ IsRow(address'[o])
        /\ \/ address'[o] = adr[o]
           \/ <<address'[o].zip, address'[o].county>> \in crosswalk
    BY <1>1, DerivedRow
  <2>2. RightCounty(address'[o])
    BY <2>1, OfCrosswalk
  <2> QED BY <2>1, <2>2
<1>2. Addresses'
  BY <1>1 DEF Addresses, RightCounty, counted
<1> QED BY <1>2 DEF CountyInv, CrosswalkInv, counted

LEMMA AddressesKept ==
  ASSUME CountyInv, UNCHANGED counted, NEW o, NEW zip,
         address' \in {address, AddAddress(address, o, zip), WriteAddress(address, o, zip)}
  PROVE  CountyInv'
  BY DEF CountyInv, Addresses, CrosswalkInv, RightCounty, counted, AddAddress, WriteAddress,
        Insert,
     Replace, IsRow

LEMMA WrittenDerived ==
  ASSUME CountyInv, UNCHANGED counted, NEW o, NEW zip, NEW os,
         address' \in Derivations(WriteAddress(address, o, zip), os)
  PROVE  CountyInv'
<1> DEFINE adr == WriteAddress(address, o, zip)
<1>1. \A p \in DOMAIN adr : IsRow(adr[p]) /\ RightCounty(adr[p])
  BY DEF CountyInv, Addresses, RightCounty, WriteAddress, Replace, IsRow
<1> HIDE DEF adr
<1> QED BY <1>1, DerivationsRight DEF CountyInv, adr

LEMMA DeriveAllRight ==
  ASSUME CountyInv, DeriveAll PROVE CountyInv'
<1>1. /\ address' \in Derivations(address, DOMAIN address)
      /\ UNCHANGED <<crosswalk, file, imported>>
  BY DEF DeriveAll
<1>2. ASSUME NEW o \in DOMAIN address', address'[o].county # None
      PROVE  /\ <<address'[o].zip, address'[o].county>> \in imported
             /\ address'[o].zip \in DOMAIN file => file[address'[o].zip] = address'[o].county
  <2> DEFINE a == address'[o]
  <2>1. /\ o \in DOMAIN address /\ a.zip = address[o].zip
        /\ \/ a = address[o] /\ \A c \in Counties : <<a.zip, c>> \notin crosswalk
           \/ <<a.zip, a.county>> \in crosswalk
    BY <1>1, DerivedRow DEF CountyInv, Addresses
  <2> HIDE DEF a
  <2>2. CASE a = address[o] /\ \A c \in Counties : <<a.zip, c>> \notin crosswalk
    <3>1. a.zip \notin DOMAIN file
      BY <2>2 DEF CountyInv, CrosswalkInv, Crosswalk
    <3>2. RightCounty(a)
      BY <2>1, <2>2 DEF CountyInv, Addresses
    <3> QED BY <1>2, <3>1, <3>2 DEF RightCounty, a
  <2>3. CASE <<a.zip, a.county>> \in crosswalk
    <3>1. PICK z \in DOMAIN file : <<a.zip, a.county>> = <<z, file[z]>>
      BY <2>3 DEF CountyInv, CrosswalkInv, Crosswalk
    <3>2. a.zip = z /\ a.county = file[z] /\ <<a.zip, a.county>> \in imported
      BY <2>3, <3>1 DEF CountyInv, CrosswalkInv
    <3> QED BY <3>1, <3>2 DEF a
  <2> QED BY <2>1, <2>2, <2>3
<1>3. ASSUME NEW o \in DOMAIN address' PROVE IsRow(address'[o])
  BY <1>1, DerivedRow DEF CountyInv, Addresses
<1>4. Addresses'
  BY <1>1, <1>2, <1>3 DEF Addresses, RightCounty
<1> QED BY <1>1, <1>4 DEF CountyInv, CrosswalkInv

(* An import without its derivation contradicts no county: they count as    *)
(* underived.                                                               *)
LEMMA CountiesImportRight ==
  ASSUME CountyInv, NEW zs, NEW f \in [zs -> Counties], CountiesImport(f) PROVE CountyInv'
<1>1. /\ crosswalk' = Crosswalk(f) /\ file' = f /\ imported' = imported \cup Crosswalk(f)
      /\ underived' /\ address' = address
  BY DEF CountiesImport
<1>2. Addresses'
  BY <1>1 DEF CountyInv, Addresses, RightCounty
<1>3. CrosswalkInv'
  BY <1>1 DEF CrosswalkInv, Crosswalk
<1> QED BY <1>2, <1>3 DEF CountyInv

LEMMA CountyInit == Init => CountyInv
  BY DEF Init, CountyInv, Addresses, CrosswalkInv, Crosswalk

LEMMA CountyNext ==
  ASSUME CountyInv, [Next]_vars PROVE CountyInv'
<1>1. ASSUME NEW t \in Threads, NEW o, NEW name, NEW zip, NEW form, NEW grants,
             Upload(t, o, name, zip, form, grants)
      PROVE  CountyInv'
  BY <1>1, AddressesKept DEF Upload
<1>2. ASSUME NEW t \in Threads, NEW o, NEW name, NEW zip, CreateCheck(t, o, name, zip)
      PROVE  CountyInv'
  BY <1>2, AddressesKept DEF CreateCheck
<1>3. ASSUME NEW t \in Threads, CreateInsert(t) PROVE CountyInv'
  <2>1. /\ UNCHANGED counted
        /\ \/ address' = address
           \/ address' \in Derivations(WriteAddress(address, creating[t].ein, creating[t].zip),
                                       {creating[t].ein})
    BY <1>3 DEF CreateInsert
  <2> QED BY <2>1, AddressesKept, WrittenDerived
<1>4. ASSUME NEW t \in Threads, NextRequestCommits(t) PROVE CountyInv'
  <2>1. /\ UNCHANGED counted
        /\ address' \in {address, WriteAddress(address, creating[t].ein, creating[t].zip)}
    BY <1>4 DEF NextRequestCommits
  <2> QED BY <2>1, AddressesKept
<1>5. ASSUME NEW t \in Threads, NEW o, NEW zip, Move(t, o, zip) PROVE CountyInv'
  BY <1>5, AddressesKept, WrittenDerived DEF Move
<1>6. CASE CountiesImportDerives \/ CountiesDerive
  BY <1>6, DeriveAllRight DEF CountiesImportDerives, CountiesDerive
<1>7. ASSUME NEW zs \in SUBSET ZipCodes, NEW f \in [zs -> Counties], CountiesImport(f)
      PROVE  CountyInv'
  BY <1>7, CountiesImportRight
<1>8. ASSUME NEW o, NEW name, NEW zip, NEW form, NEW grants,
             BulkStore(o, name, zip, form, grants)
      PROVE  CountyInv'
  BY <1>8, AddressesKept DEF BulkStore
<1>9. CASE BulkDerive
  BY <1>9, DerivationsRight DEF BulkDerive, CountyInv, Addresses
<1>10. CASE \/ \E t \in Threads : FuzzySearch(t) \/ \E o \in Eins, name \in Names : Rename(t, o, name)
            \/ CountiesImportDies \/ CmdClassify \/ \E o \in Eins : Purge(o)
            \/ BulkBegin \/ BulkIndex \/ BulkClassify \/ BulkDies \/ UNCHANGED vars
  <2>1. UNCHANGED <<address, counted>>
    BY <1>10 DEF FuzzySearch, Rename, CountiesImportDies, CmdClassify, Purge, BulkBegin,
          BulkIndex,
         BulkClassify, BulkDies, vars, counted
  <2> QED BY <2>1, AddressesKept
<1> QED
  BY <1>1, <1>2, <1>3, <1>4, <1>5, <1>6, <1>7, <1>8, <1>9, <1>10 DEF Next

(* A county is one some crosswalk gave for the ZIP of its address; once it  *)
(* has been derived from the last import, it is what that one says          *)
(* (derive_counties, counties import, every write of an address), for any   *)
(* organizations, ZIPs, counties, threads and number of operations.         *)
THEOREM CountiesAreOfZips == Spec => []CountyOfZip
<1>1. CountyInv => CountyOfZip
  BY DEF CountyInv, Addresses, RightCounty, CountyOfZip
<1> QED BY <1>1, CountyInit, CountyNext, PTL DEF Spec

-----------------------------------------------------------------------------
(* Types.                                                                   *)

IsOrg(r) == DOMAIN r = {"name", "linked", "type", "grantmaker"}
Own(o, fs) == {f \in fs : f[1] = o}
Known == (\A f \in forms : f[1] \in DOMAIN orgs) /\ granted \subseteq DOMAIN orgs
BulkOK == DOMAIN bulk = {"touched", "at"}
Excused == unclassified \cup Loading
TypeInv == (\A o \in DOMAIN orgs : IsOrg(orgs[o])) /\ Known /\ BulkOK /\ TypeOfForms

LEMMA ClassifiedOfOwn ==
  ASSUME NEW o, NEW fs, NEW gs, Own(o, fs) = Own(o, gs) PROVE Classified(o, fs) = Classified(o, gs)
<1>1. {f \in fs : f[1] = o} = {f \in gs : f[1] = o}
  BY DEF Own
<1> QED BY <1>1 DEF Classified

LEMMA UnknownHasNone ==
  ASSUME Known, NEW o, o \notin DOMAIN orgs PROVE Classified(o, forms) = None /\ o \notin granted
<1>1. {f \in forms : f[1] = o} = {}
  BY DEF Known
<1>2. {f[2] : f \in {f \in forms : f[1] = o}} = {}
  BY <1>1
<1>3. Classified(o, forms) = None
  BY <1>2 DEF Classified
<1> QED BY <1>3 DEF Known

(* What leaves alone the name-independent columns, the forms and the grants.*)
SameRow(o) == IsOrg(orgs'[o]) /\ orgs'[o].type = orgs[o].type /\ orgs'[o].grantmaker = orgs[o].grantmaker
LEMMA SameRowsTyped ==
  ASSUME TypeInv, UNCHANGED <<forms, granted>>, BulkOK', Excused \subseteq Excused',
         DOMAIN orgs' = DOMAIN orgs, \A o \in DOMAIN orgs : SameRow(o)
  PROVE  TypeInv'
  BY DEF TypeInv, Known, TypeOfForms, SameRow, Excused

(* An organization is added, or is there already; the filings that change   *)
(* are its own, and so is the type.                                         *)
LEMMA AddedTyped ==
  ASSUME TypeInv, NEW o, NEW name, NEW zip, orgs' = AddOrg(o, name, zip), BulkOK',
         \A p : p # o => Own(p, forms') = Own(p, forms) /\ (p \in granted' <=> p \in granted),
         Excused \subseteq Excused', Retyped(o) => o \in Excused'
  PROVE  TypeInv'
<1>1. /\ DOMAIN orgs' = DOMAIN orgs \cup {o} /\ \A p \in DOMAIN orgs : orgs'[p] = orgs[p]
      /\ o \notin DOMAIN orgs => orgs'[o] = NewOrg(name, zip)
  BY DEF AddOrg, Insert
<1>2. ASSUME NEW p \in DOMAIN orgs' PROVE IsOrg(orgs'[p])
  BY <1>1, <1>2 DEF TypeInv, NewOrg, IsOrg
<1>3. Known'
  BY <1>1 DEF TypeInv, Known, Own
<1>4. ASSUME NEW p \in DOMAIN orgs' \ Excused'
      PROVE  orgs'[p].type = Classified(p, forms') /\ orgs'[p].grantmaker = (p \in granted')
  <2>1. Classified(p, forms') = Classified(p, forms) /\ (p \in granted') = (p \in granted)
    <3>1. CASE p = o
      BY <1>4, <3>1 DEF Retyped
    <3>2. CASE p # o
      BY <3>2, ClassifiedOfOwn
    <3> QED BY <3>1, <3>2
  <2>2. CASE p \in DOMAIN orgs
    <3>1. p \notin unclassified \cup Loading /\ orgs'[p] = orgs[p]
      BY <1>1, <1>4, <2>2 DEF Excused
    <3>2. orgs[p].type = Classified(p, forms) /\ orgs[p].grantmaker = (p \in granted)
      BY <2>2, <3>1 DEF TypeInv, TypeOfForms
    <3> QED BY <2>1, <3>1, <3>2
  <2>3. CASE p \notin DOMAIN orgs
    <3>1. p = o /\ orgs'[p] = NewOrg(name, zip)
      BY <1>1, <1>4, <2>3
    <3>2. Classified(p, forms) = None /\ (p \in granted) = FALSE
      BY <2>3, UnknownHasNone DEF TypeInv
    <3>3. orgs'[p].type = None /\ orgs'[p].grantmaker = FALSE
      BY <3>1 DEF NewOrg
    <3> QED BY <2>1, <3>2, <3>3
  <2> QED BY <2>2, <2>3
<1>5. TypeOfForms'
  BY <1>4 DEF TypeOfForms, Excused
<1> QED BY <1>2, <1>3, <1>5 DEF TypeInv

LEMMA ClassifyTyped ==
  ASSUME TypeInv, NEW os, orgs' = Classify(os), (DOMAIN orgs \cap Excused) \ os \subseteq Excused',
         UNCHANGED <<forms, granted>>, BulkOK'
  PROVE  TypeInv'
<1>1. DOMAIN orgs' = DOMAIN orgs
  BY DEF Classify
<1>2. ASSUME NEW o \in DOMAIN orgs
      PROVE  /\ IsOrg(orgs'[o])
             /\ o \in os => orgs'[o].type = Classified(o, forms) /\ orgs'[o].grantmaker = (o \in granted)
             /\ o \notin os => orgs'[o] = orgs[o]
  <2>1. CASE o \in os
    <3>1. orgs'[o] = [orgs[o] EXCEPT !.type = Classified(o, forms), !.grantmaker = o \in granted]
      BY <1>2, <2>1 DEF Classify
    <3>2. DOMAIN orgs[o] = {"name", "linked", "type", "grantmaker"} /\ DOMAIN orgs'[o] = DOMAIN orgs[o]
      BY <1>2, <3>1 DEF TypeInv, IsOrg
    <3>3. orgs'[o].type = Classified(o, forms)
      BY <3>1, <3>2
    <3>4. orgs'[o].grantmaker = (o \in granted)
      BY <3>1, <3>2
    <3> QED BY <2>1, <3>2, <3>3, <3>4 DEF IsOrg
  <2>2. CASE o \notin os
    <3>1. orgs'[o] = orgs[o]
      BY <1>2, <2>2 DEF Classify
    <3> QED BY <1>2, <2>2, <3>1 DEF TypeInv
  <2> QED BY <2>1, <2>2
<1>3. ASSUME NEW o \in DOMAIN orgs, o \notin Excused'
      PROVE  orgs'[o].type = Classified(o, forms) /\ orgs'[o].grantmaker = (o \in granted)
  <2>1. CASE o \in os
    BY <1>2, <2>1
  <2>2. CASE o \notin os
    <3>1. o \notin Excused /\ orgs'[o] = orgs[o]
      BY <1>2, <1>3, <2>2
    <3>2. orgs[o].type = Classified(o, forms) /\ orgs[o].grantmaker = (o \in granted)
      BY <3>1 DEF TypeInv, TypeOfForms, Excused
    <3> QED BY <3>1, <3>2
  <2> QED BY <2>1, <2>2
<1>4. TypeOfForms'
  <2>1. ASSUME NEW o \in DOMAIN orgs, o \notin Excused'
        PROVE  orgs'[o].type = Classified(o, forms') /\ orgs'[o].grantmaker = (o \in granted')
    <3>1. Classified(o, forms') = Classified(o, forms)
      <4>1. Own(o, forms') = Own(o, forms)
        BY DEF Own
      <4> QED BY <4>1, ClassifiedOfOwn
    <3> QED BY <1>3, <2>1, <3>1
  <2> QED BY <1>1, <2>1 DEF TypeOfForms, Excused
<1> QED BY <1>1, <1>2, <1>4 DEF TypeInv, Known

LEMMA TypeInit == Init => TypeInv
  BY DEF Init, TypeInv, Known, BulkOK, NoBulk, TypeOfForms

LEMMA TypeNext ==
  ASSUME TypeInv, [Next]_vars PROVE TypeInv'
<1>0. UNCHANGED <<bulk, unclassified>> => BulkOK' /\ Excused' = Excused
  BY DEF TypeInv, BulkOK, Excused, Loading
<1>1. ASSUME NEW t \in Threads, NEW o, NEW name, NEW zip, NEW form, NEW grants,
             Upload(t, o, name, zip, form, grants)
      PROVE  TypeInv'
  <2>1. /\ orgs' = AddOrg(o, name, zip) /\ unclassified' = Unclassified(o)
        /\ forms' = forms \cup {<<o, form>>} /\ granted' \in {granted, granted \cup {o}}
        /\ bulk' = bulk
    BY <1>1 DEF Upload
  <2>2. \A p : p # o => Own(p, forms') = Own(p, forms) /\ (p \in granted' <=> p \in granted)
    BY <2>1 DEF Own
  <2>3. BulkOK' /\ Excused \subseteq Excused' /\ (Retyped(o) => o \in Excused')
    BY <2>1 DEF TypeInv, BulkOK, Excused, Loading, Unclassified
  <2> QED BY <2>1, <2>2, <2>3, AddedTyped
<1>2. ASSUME NEW t \in Threads, CreateInsert(t) PROVE TypeInv'
  <2>1. /\ UNCHANGED <<filed, bulk>>
        /\ \/ UNCHANGED orgs
           \/ orgs' = AddOrg(creating[t].ein, creating[t].name, creating[t].zip)
    BY <1>2 DEF CreateInsert
  <2>2. UNCHANGED <<forms, granted>> /\ BulkOK' /\ Excused' = Excused
    BY <1>0, <2>1 DEF filed
  <2>3. CASE UNCHANGED orgs
    BY <2>2, <2>3, SameRowsTyped DEF SameRow, TypeInv
  <2>4. ~Retyped(creating[t].ein)
    BY <2>2 DEF Retyped
  <2> QED BY <2>1, <2>2, <2>3, <2>4, AddedTyped
<1>3. ASSUME NEW t \in Threads, NEW o, NEW name, Rename(t, o, name) PROVE TypeInv'
  <2>1. orgs' = [orgs EXCEPT ![o].name = name] /\ UNCHANGED <<filed, bulk>>
    BY <1>3 DEF Rename
  <2>2. ASSUME NEW p \in DOMAIN orgs PROVE SameRow(p)
    <3>1. DOMAIN orgs[p] = {"name", "linked", "type", "grantmaker"}
      BY DEF TypeInv, IsOrg
    <3>2. orgs'[p] = orgs[p] \/ orgs'[p] = [orgs[p] EXCEPT !.name = name]
      BY <2>1
    <3> QED BY <3>1, <3>2 DEF SameRow, IsOrg
  <2> QED BY <1>0, <2>1, <2>2, SameRowsTyped DEF filed
<1>4. ASSUME NEW t \in Threads, NEW o, NEW zip, Move(t, o, zip) PROVE TypeInv'
  <2>1. orgs' = [orgs EXCEPT ![o].linked = zip # None] /\ UNCHANGED <<filed, bulk>>
    BY <1>4 DEF Move
  <2>2. ASSUME NEW p \in DOMAIN orgs PROVE SameRow(p)
    <3>1. DOMAIN orgs[p] = {"name", "linked", "type", "grantmaker"}
      BY DEF TypeInv, IsOrg
    <3>2. orgs'[p] = orgs[p] \/ orgs'[p] = [orgs[p] EXCEPT !.linked = zip # None]
      BY <2>1
    <3> QED BY <3>1, <3>2 DEF SameRow, IsOrg
  <2> QED BY <1>0, <2>1, <2>2, SameRowsTyped DEF filed
<1>5. CASE CmdClassify
  <2>1. orgs' = Classify(DOMAIN orgs) /\ UNCHANGED <<forms, granted, bulk>>
    BY <1>5 DEF CmdClassify
  <2>2. BulkOK'
    BY <2>1 DEF TypeInv, BulkOK
  <2> QED BY <2>1, <2>2, ClassifyTyped
<1>6. ASSUME NEW o, Purge(o) PROVE TypeInv'
  <2>1. /\ forms' = {f \in forms : f[1] # o} /\ granted' = granted \ {o}
        /\ unclassified' = Unclassified(o) /\ orgs' = orgs /\ bulk' = bulk
    BY <1>6 DEF Purge
  <2>2. ASSUME NEW p \in DOMAIN orgs \ Excused'
        PROVE  orgs[p].type = Classified(p, forms') /\ orgs[p].grantmaker = (p \in granted')
    <3>1. p \notin Excused
      BY <2>1, <2>2 DEF Excused, Loading, Unclassified
    <3>2. Classified(p, forms') = Classified(p, forms) /\ (p \in granted') = (p \in granted)
      <4>1. CASE p = o
        BY <2>1, <2>2, <4>1 DEF Unclassified, Retyped, Excused
      <4>2. CASE p # o
        <5>1. Own(p, forms') = Own(p, forms) /\ (p \in granted' <=> p \in granted)
          BY <2>1, <4>2 DEF Own
        <5> QED BY <5>1, ClassifiedOfOwn
      <4> QED BY <4>1, <4>2
    <3>3. orgs[p].type = Classified(p, forms) /\ orgs[p].grantmaker = (p \in granted)
      BY <2>2, <3>1 DEF TypeInv, TypeOfForms, Excused
    <3> QED BY <3>2, <3>3
  <2>3. BulkOK'
    BY <2>1 DEF TypeInv, BulkOK
  <2> QED BY <2>1, <2>2, <2>3 DEF TypeInv, Known, TypeOfForms, Excused
<1>7. CASE BulkClassify
  <2>1. /\ orgs' = Classify(bulk.touched) /\ unclassified' = unclassified \ bulk.touched
        /\ UNCHANGED <<forms, granted>> /\ bulk.at = "classify"
        /\ bulk' = [bulk EXCEPT !.at = "derive"]
    BY <1>7 DEF BulkClassify, Touched
  <2>2. BulkOK'
    BY <2>1 DEF TypeInv, BulkOK
  <2>3. Excused = unclassified \cup bulk.touched
    BY <2>1 DEF Excused, Loading
  <2>4. (DOMAIN orgs \cap Excused) \ bulk.touched \subseteq Excused'
    BY <2>1, <2>3 DEF Excused
  <2> QED BY <2>1, <2>2, <2>4, ClassifyTyped
<1>8. ASSUME NEW o, NEW name, NEW zip, NEW form, NEW grants,
             BulkStore(o, name, zip, form, grants)
      PROVE  TypeInv'
  <2>1. /\ orgs' = AddOrg(o, name, zip) /\ unclassified' = unclassified
        /\ forms' = forms \cup {<<o, form>>} /\ granted' \in {granted, granted \cup {o}}
        /\ bulk.at = "load" /\ bulk' = [bulk EXCEPT !.touched = @ \cup {o}]
    BY <1>8 DEF BulkStore
  <2>2. \A p : p # o => Own(p, forms') = Own(p, forms) /\ (p \in granted' <=> p \in granted)
    BY <2>1 DEF Own
  <2>3. DOMAIN bulk = {"touched", "at"}
    BY <2>1 DEF TypeInv, BulkOK
  <2>4. DOMAIN bulk' = {"touched", "at"} /\ bulk'.at = "load" /\ bulk'.touched = bulk.touched \cup {o}
    BY <2>1, <2>3
  <2>5. BulkOK' /\ Excused \subseteq Excused'
    BY <2>1, <2>4 DEF BulkOK, Excused, Loading
  <2>6. o \in Excused'
    BY <2>4 DEF Excused, Loading
  <2> QED BY <2>1, <2>2, <2>5, <2>6, AddedTyped
<1>9. ASSUME UNCHANGED <<orgs, filed>>, BulkOK', Excused \subseteq Excused' PROVE TypeInv'
  BY <1>9, SameRowsTyped DEF SameRow, TypeInv, filed
<1>10. CASE \/ \E t \in Threads : NextRequestCommits(t) \/ FuzzySearch(t)
            \/ \E t \in Threads, o \in Eins, name \in Names, zip \in ZipCodes \cup {None} :
                 CreateCheck(t, o, name, zip)
  BY <1>0, <1>9, <1>10 DEF NextRequestCommits, FuzzySearch, CreateCheck, filed
<1>11. CASE \/ \E zs \in SUBSET ZipCodes : \E f \in [zs -> Counties] : CountiesImport(f)
            \/ CountiesImportDerives \/ CountiesImportDies \/ CountiesDerive \/ UNCHANGED vars
  BY <1>0, <1>9, <1>11 DEF CountiesImport, CountiesImportDerives, CountiesImportDies,
        CountiesDerive, DeriveAll, vars, filed
<1>12. CASE BulkBegin
  <2>1. bulk = NoBulk /\ bulk' = [touched |-> {}, at |-> "load"] /\ UNCHANGED <<orgs, filed>>
    BY <1>12 DEF BulkBegin, Process
  <2> QED BY <1>9, <2>1 DEF NoBulk, BulkOK, Excused, Loading, filed
<1>13. CASE BulkIndex
  <2>1. /\ bulk.at = "load" /\ UNCHANGED <<orgs, filed>>
        /\ bulk' = IF bulk.touched = {} THEN NoBulk ELSE [bulk EXCEPT !.at = "classify"]
    BY <1>13 DEF BulkIndex
  <2>2. DOMAIN bulk = {"touched", "at"}
    BY <2>1 DEF TypeInv, BulkOK
  <2> QED BY <1>9, <2>1, <2>2 DEF NoBulk, BulkOK, Excused, Loading, filed
<1>14. CASE BulkDerive
  <2>1. bulk.at = "derive" /\ bulk' = NoBulk /\ UNCHANGED <<orgs, filed>>
    BY <1>14 DEF BulkDerive
  <2> QED BY <1>9, <2>1 DEF NoBulk, BulkOK, Excused, Loading, filed
<1>15. CASE BulkDies
  <2>1. /\ bulk' = NoBulk /\ unclassified' = unclassified \cup Loading
        /\ UNCHANGED <<orgs, forms, granted>>
    BY <1>15 DEF BulkDies
  <2>2. BulkOK' /\ Excused \subseteq Excused'
    BY <2>1 DEF NoBulk, BulkOK, Excused, Loading
  <2> QED BY <2>1, <2>2, SameRowsTyped DEF SameRow, TypeInv
<1> QED
  BY <1>1, <1>2, <1>3, <1>4, <1>5, <1>6, <1>7, <1>8, <1>10, <1>11, <1>12, <1>13, <1>14,
     <1>15 DEF Next

(* An organization has the type of its forms and the flag of its grants     *)
(* (classify_organizations, the ingest's finalization): an ingest leaves    *)
(* none it touched without, and only an upload or a purge that changes one  *)
(* of the two, or an ingest that dies before it classifies, excuses it.     *)
(* For any organizations, forms, threads and number of operations.          *)
THEOREM TypesAreOfForms == Spec => []TypeOfForms
<1>1. TypeInv => TypeOfForms
  BY DEF TypeInv
<1> QED BY <1>1, TypeInit, TypeNext, PTL DEF Spec

-----------------------------------------------------------------------------
(* The name index.                                                          *)

LEMMA HasLeast ==
  ASSUME NEW D \in SUBSET Nat, D # {} PROVE \E i \in D : \A j \in D : i <= j
<1>1. PICK i \in D : \A j \in D : ~ (<<j, i>> \in OpToRel(<, Nat))
  BY WFMin, NatLessThanWellFounded
<1>2. ASSUME NEW j \in D PROVE i <= j
  <2>1. ~ (<<j, i>> \in {ss \in Nat \X Nat : ss[1] < ss[2]})
    BY <1>1 DEF OpToRel
  <2> QED BY <2>1
<1> QED BY <1>1, <1>2

(* The library's sum over a bag, of zeros and ones, counts the ones: the    *)
(* count solves its recursion, and the least set on which a solution says   *)
(* otherwise would have an element to take away.                            *)
LEMMA CountOfOnes ==
  ASSUME NEW p, IsFiniteSet(DOMAIN p), \A x \in DOMAIN p : p[x] \in {0, 1}
  PROVE  BagCardinality(p) = Cardinality({x \in DOMAIN p : p[x] = 1})
<1> DEFINE D == DOMAIN p
           ch(s) == CHOOSE x \in s : TRUE
           ones(s) == {x \in s : p[x] = 1}
           Body(g) == [s \in SUBSET D |-> IF s = {} THEN 0 ELSE p[ch(s)] + g[s \ {ch(s)}]]
           iter == CHOOSE g : g = Body(g)
           w == [s \in SUBSET D |-> Cardinality(ones(s))]
<1>1. BagCardinality(p) = iter[D]
  BY DEF BagCardinality
<1>2. ASSUME NEW s \in SUBSET D
      PROVE  /\ Cardinality(s) \in Nat /\ Cardinality(ones(s)) \in Nat
             /\ s # {} => /\ s \ {ch(s)} \in SUBSET D
                          /\ Cardinality(s \ {ch(s)}) = Cardinality(s) - 1
                          /\ Cardinality(ones(s)) = p[ch(s)] + Cardinality(ones(s \ {ch(s)}))
  <2>1. IsFiniteSet(s) /\ Cardinality(s) \in Nat /\ ones(s) \in SUBSET D
    BY FS_Subset, FS_CardinalityType
  <2>2. IsFiniteSet(ones(s)) /\ Cardinality(ones(s)) \in Nat
    BY <2>1, FS_Subset, FS_CardinalityType
  <2>3. ASSUME s # {}
        PROVE  /\ Cardinality(s \ {ch(s)}) = Cardinality(s) - 1
               /\ Cardinality(ones(s)) = p[ch(s)] + Cardinality(ones(s \ {ch(s)}))
    <3>1. ch(s) \in s
      BY <2>3
    <3> HIDE DEF ch
    <3>2. Cardinality(s \ {ch(s)}) = Cardinality(s) - 1
      BY <2>1, <3>1, FS_RemoveElement
    <3>3. ones(s \ {ch(s)}) = ones(s) \ {ch(s)}
      OBVIOUS
    <3>4. CASE p[ch(s)] = 1
      <4>1. ch(s) \in ones(s)
        BY <3>1, <3>4
      <4>2. Cardinality(ones(s) \ {ch(s)}) = Cardinality(ones(s)) - 1
        BY <2>2, <4>1, FS_RemoveElement
      <4>3. Cardinality(ones(s \ {ch(s)})) = Cardinality(ones(s)) - 1
        BY <3>3, <4>2
      <4> DEFINE m == Cardinality(ones(s))
                 k == Cardinality(ones(s \ {ch(s)}))
      <4>4. m \in Nat /\ k = m - 1
        BY <2>2, <4>3
      <4> HIDE DEF m, k
      <4>5. m = p[ch(s)] + k
        BY <3>4, <4>4
      <4> QED BY <3>2, <4>5 DEF m, k
    <3>5. CASE p[ch(s)] = 0
      <4>1. ones(s) \ {ch(s)} = ones(s)
        BY <3>5
      <4>3. Cardinality(ones(s \ {ch(s)})) = Cardinality(ones(s))
        BY <3>3, <4>1
      <4> DEFINE m == Cardinality(ones(s))
                 k == Cardinality(ones(s \ {ch(s)}))
      <4>4. m \in Nat /\ k = m
        BY <2>2, <4>3
      <4> HIDE DEF m, k
      <4>5. m = p[ch(s)] + k
        BY <3>5, <4>4
      <4> QED BY <3>2, <4>5 DEF m, k
    <3> QED BY <3>1, <3>4, <3>5
  <2> QED BY <2>1, <2>2, <2>3
<1> HIDE DEF ch
<1>3. w[{}] = 0 /\ {} \in SUBSET D /\ D \in SUBSET D
  BY FS_EmptySet
<1>4. iter = Body(iter)
  <2>1. ASSUME NEW s \in SUBSET D
        PROVE  w[s] = IF s = {} THEN 0 ELSE p[ch(s)] + w[s \ {ch(s)}]
    BY <1>2, <1>3
  <2>2. w = Body(w)
    BY <2>1
  <2> HIDE DEF w
  <2> QED BY <2>2
<1> HIDE DEF iter
<1>5. \A n \in Nat : \A s \in SUBSET D : Cardinality(s) = n => iter[s] = w[s]
  <2> DEFINE bad == {n \in Nat : \E s \in SUBSET D : Cardinality(s) = n /\ iter[s] # w[s]}
  <2> SUFFICES ASSUME bad # {} PROVE FALSE
    OBVIOUS
  <2>1. PICK n \in bad : \A m \in bad : n <= m
    BY HasLeast
  <2>2. PICK s \in SUBSET D : Cardinality(s) = n /\ iter[s] # w[s]
    BY <2>1
  <2>3. s # {}
    <3>1. iter[{}] = 0
      BY <1>3, <1>4
    <3> QED BY <1>3, <2>2, <3>1
  <2> DEFINE r == s \ {ch(s)}
  <2>4. r \in SUBSET D /\ Cardinality(r) = n - 1 /\ n - 1 \in Nat /\ n \in Nat
    <3>1. Cardinality(r) \in Nat
      BY <1>2, <2>2
    <3> QED BY <1>2, <2>1, <2>2, <2>3, <3>1
  <2>5. iter[r] = w[r]
    <3>1. n - 1 \notin bad
      <4> SUFFICES ASSUME n - 1 \in bad PROVE FALSE
        OBVIOUS
      <4>1. n <= n - 1
        BY <2>1
      <4> HIDE DEF bad
      <4> QED BY <2>4, <4>1
    <3> QED BY <2>4, <3>1
  <2>6. iter[s] = p[ch(s)] + iter[r]
    BY <1>4, <2>2, <2>3
  <2>7. w[s] = p[ch(s)] + w[r]
    BY <1>2, <2>2, <2>3, <2>4
  <2> HIDE DEF w
  <2> QED BY <2>2, <2>5, <2>6, <2>7
<1> QED BY <1>1, <1>2, <1>3, <1>5

-----------------------------------------------------------------------------
(* Every row of the index is that of an organization under its present      *)
(* name, and is there once; a row may be missing.                           *)
NameRow(o) == <<o, orgs[o].name>>
IndexInv ==
  /\ IsFiniteSet(DOMAIN orgs)
  /\ \A o \in DOMAIN orgs : "name" \in DOMAIN orgs[o]
  /\ \A r \in DOMAIN index : index[r] = 1 /\ \E o \in DOMAIN orgs : r = NameRow(o)

LEMMA RebuiltRows ==
  /\ DOMAIN Rebuilt = {NameRow(o) : o \in DOMAIN orgs}
  /\ \A r \in DOMAIN Rebuilt : Rebuilt[r] = 1
BY DEF Rebuilt, SetToBag, NameRow

LEMMA AllRows ==
  ASSUME IsFiniteSet(DOMAIN orgs)
  PROVE  LET named == {NameRow(q) : q \in DOMAIN orgs}
         IN IsFiniteSet(named) /\ Cardinality(named) = Cardinality(DOMAIN orgs)
<1> DEFINE named == {NameRow(q) : q \in DOMAIN orgs}
           f == [q \in DOMAIN orgs |-> NameRow(q)]
<1>1. f \in Bijection(DOMAIN orgs, named)
  <2>1. f \in [DOMAIN orgs -> named] /\ \A r \in named : \E q \in DOMAIN orgs : f[q] = r
    OBVIOUS
  <2>2. \A q, u \in DOMAIN orgs : f[q] = f[u] => q = u
    BY DEF NameRow
  <2> HIDE DEF f, named
  <2> QED BY <2>1, <2>2 DEF Bijection, Injection, Surjection, IsInjective
<1> HIDE DEF f, named
<1>2. IsFiniteSet(named) /\ Cardinality(named) = Cardinality(DOMAIN orgs)
  BY <1>1, FS_Bijection DEF ExistsBijection
<1> QED BY <1>2 DEF named

(* A count that is right leaves no organization out.                        *)
LEMMA CountTells ==
  ASSUME IndexInv, ~Stale, NEW o \in DOMAIN orgs PROVE NameRow(o) \in DOMAIN index
<1> DEFINE named == {NameRow(q) : q \in DOMAIN orgs}
<1>1. DOMAIN index \in SUBSET named
  BY DEF IndexInv
<1>2. IsFiniteSet(named) /\ Cardinality(named) = Cardinality(DOMAIN orgs)
  BY AllRows DEF IndexInv
<1>3. IsFiniteSet(DOMAIN index)
  BY <1>1, <1>2, FS_Subset
<1>4. {r \in DOMAIN index : index[r] = 1} = DOMAIN index
  BY DEF IndexInv
<1>5. BagCardinality(index) = Cardinality(DOMAIN index)
  BY <1>3, <1>4, CountOfOnes DEF IndexInv
<1>6. DOMAIN index = named
  BY <1>1, <1>2, <1>5, FS_Subset DEF Stale
<1> QED BY <1>6

LEMMA IndexComplete == ASSUME IndexInv PROVE FuzzyIsComplete
<1>1. ASSUME NEW o \in DOMAIN orgs
      PROVE  /\ NameRow(o) \in DOMAIN Healed /\ Healed[NameRow(o)] = 1
             /\ \A r \in DOMAIN Healed : r[1] = o => r[2] = orgs[o].name
  <2>1. CASE Stale
    <3>1. Healed = Rebuilt
      BY <2>1 DEF Healed
    <3>2. \A r \in DOMAIN Rebuilt : \E q \in DOMAIN orgs : r = NameRow(q)
      BY RebuiltRows
    <3> QED BY <3>1, <3>2, RebuiltRows DEF NameRow
  <2>2. CASE ~Stale
    <3>1. Healed = index
      BY <2>2 DEF Healed
    <3> QED BY <2>2, <3>1, CountTells DEF IndexInv, NameRow
  <2> QED BY <2>1, <2>2
<1> QED BY <1>1 DEF FuzzyIsComplete, BagIn, BagToSet, NameRow

(* Steps: the organizations keep their names.                               *)
LEMMA NamesKept ==
  ASSUME IndexInv, DOMAIN orgs' = DOMAIN orgs,
         \A o \in DOMAIN orgs : /\ "name" \in DOMAIN orgs'[o]
                                /\ orgs'[o].name = orgs[o].name,
         index' = index
  PROVE  IndexInv'
BY DEF IndexInv, NameRow

LEMMA RebuildsIndex ==
  ASSUME IndexInv, UNCHANGED orgs, index' = Rebuilt PROVE IndexInv'
<1>1. \A r \in DOMAIN index' : index'[r] = 1 /\ \E o \in DOMAIN orgs : r = NameRow(o)
  BY RebuiltRows
<1> QED BY <1>1 DEF IndexInv, NameRow

(* A new organization, indexed or not.                                      *)
LEMMA Adds ==
  ASSUME IndexInv, NEW o, NEW name, NEW zip, orgs' = AddOrg(o, name, zip),
         index' \in {index, Indexed(o, name)}
  PROVE  IndexInv'
<1>1. IsFiniteSet(DOMAIN orgs') /\ DOMAIN orgs' = DOMAIN orgs \cup {o}
  <2>1. DOMAIN orgs' = DOMAIN orgs \cup {o}
    BY DEF AddOrg, Insert
  <2> QED BY <2>1, FS_AddElement DEF IndexInv
<1>2. \A q \in DOMAIN orgs : orgs'[q] = orgs[q]
  BY DEF AddOrg, Insert
<1>3. \A q \in DOMAIN orgs' : "name" \in DOMAIN orgs'[q]
  BY DEF AddOrg, Insert, NewOrg, IndexInv
<1>4. CASE index' = index
  BY <1>1, <1>2, <1>3, <1>4 DEF IndexInv, NameRow
<1>5. CASE o \in DOMAIN orgs
  BY <1>4, <1>5 DEF Indexed
<1>6. CASE o \notin DOMAIN orgs /\ index' = Indexed(o, name)
  <2>1. orgs'[o].name = name
    BY <1>6 DEF AddOrg, Insert, NewOrg
  <2>2. <<o, name>> \notin DOMAIN index
    BY <1>6 DEF IndexInv, NameRow
  <2>3. /\ DOMAIN index' = DOMAIN index \cup {<<o, name>>}
        /\ \A r \in DOMAIN index' : index'[r] = IF r \in DOMAIN index THEN index[r] + 0 ELSE 0 + 1
    BY <1>6, <2>2 DEF Indexed, SetToBag, (+)
  <2>4. ASSUME NEW r \in DOMAIN index'
        PROVE  index'[r] = 1 /\ \E q \in DOMAIN orgs' : r = <<q, orgs'[q].name>>
    BY <1>1, <1>2, <2>1, <2>3 DEF IndexInv, NameRow
  <2> QED BY <1>1, <1>3, <2>4 DEF IndexInv, NameRow
<1> QED BY <1>4, <1>5, <1>6

(* An index that has the rows of a name has one of them to rename.          *)
LEMMA RenamesIndex ==
  ASSUME IndexInv, NEW o \in DOMAIN orgs, NEW name,
         orgs' = [orgs EXCEPT ![o].name = name], index' = Renamed(o, name)
  PROVE  IndexInv'
<1> DEFINE to(r) == IF r[1] = o THEN <<o, name>> ELSE r
           part(e) == [r \in DOMAIN index |-> IF to(r) = e THEN index[r] ELSE 0]
<1>1. DOMAIN orgs' = DOMAIN orgs /\ \A q \in DOMAIN orgs : "name" \in DOMAIN orgs'[q]
  BY DEF IndexInv
<1>2. \A q \in DOMAIN orgs : orgs'[q].name = IF q = o THEN name ELSE orgs[q].name
  BY DEF IndexInv
<1>3. index' = [e \in {to(r) : r \in DOMAIN index} |-> BagCardinality(part(e))]
  BY DEF Renamed, BagOfAll, BagToSet, BagCardinality
<1>4. IsFiniteSet(DOMAIN index)
  <2> DEFINE named == {NameRow(q) : q \in DOMAIN orgs}
  <2>1. IsFiniteSet(named)
    BY AllRows DEF IndexInv
  <2>2. DOMAIN index \in SUBSET named
    BY DEF IndexInv
  <2> QED BY <2>1, <2>2, FS_Subset
<1>5. ASSUME NEW r \in DOMAIN index
      PROVE  /\ to(r) = <<r[1], IF r[1] = o THEN name ELSE orgs[r[1]].name>>
             /\ r = NameRow(r[1]) /\ r[1] \in DOMAIN orgs
  BY DEF IndexInv, NameRow
<1>6. ASSUME NEW e \in DOMAIN index'
      PROVE  index'[e] = 1 /\ \E q \in DOMAIN orgs : e = <<q, orgs'[q].name>>
  <2>1. PICK r \in DOMAIN index : e = to(r)
    BY <1>3
  <2>2. \A x \in DOMAIN index : to(x) = e => x = r
    <3> SUFFICES ASSUME NEW x \in DOMAIN index, to(x) = e PROVE x = r
      OBVIOUS
    <3>1. /\ to(x) = <<x[1], IF x[1] = o THEN name ELSE orgs[x[1]].name>> /\ x = NameRow(x[1])
          /\ to(r) = <<r[1], IF r[1] = o THEN name ELSE orgs[r[1]].name>> /\ r = NameRow(r[1])
      BY <1>5
    <3> HIDE DEF to
    <3>2. x[1] = r[1]
      BY <2>1, <3>1
    <3> QED BY <3>1, <3>2
  <2>3. \A x \in DOMAIN index : part(e)[x] = IF x = r THEN 1 ELSE 0
    <3>1. index[r] = 1
      BY DEF IndexInv
    <3> HIDE DEF to
    <3> QED BY <2>1, <2>2, <3>1
  <2>4. BagCardinality(part(e)) = Cardinality({x \in DOMAIN index : part(e)[x] = 1})
    <3>1. DOMAIN part(e) = DOMAIN index /\ \A x \in DOMAIN part(e) : part(e)[x] \in {0, 1}
      BY <2>3
    <3> HIDE DEF part
    <3> QED BY <1>4, <3>1, CountOfOnes
  <2>5. {x \in DOMAIN index : part(e)[x] = 1} = {r}
    <3> HIDE DEF part
    <3> QED BY <2>3
  <2>6. index'[e] = 1
    <3>1. index'[e] = BagCardinality(part(e))
      BY <1>3
    <3> HIDE DEF part
    <3> QED BY <2>4, <2>5, <3>1, FS_Singleton
  <2>7. r[1] \in DOMAIN orgs /\ e = <<r[1], orgs'[r[1]].name>>
    BY <1>2, <1>5, <2>1
  <2> QED BY <2>6, <2>7
<1> QED BY <1>1, <1>6 DEF IndexInv, NameRow

LEMMA ClassifyKeepsNames ==
  ASSUME IndexInv, NEW os, orgs' = Classify(os), index' = index PROVE IndexInv'
<1>1. DOMAIN orgs' = DOMAIN orgs
  BY DEF Classify
<1>2. ASSUME NEW o \in DOMAIN orgs
      PROVE  "name" \in DOMAIN orgs'[o] /\ orgs'[o].name = orgs[o].name
  BY DEF Classify, IndexInv
<1> QED BY <1>1, <1>2, NamesKept

LEMMA IndexStep == IndexInv /\ [Next]_vars => IndexInv'
<1> SUFFICES ASSUME IndexInv, [Next]_vars PROVE IndexInv'
  OBVIOUS
<1>1. CASE UNCHANGED <<orgs, index>>
  BY <1>1 DEF IndexInv, NameRow
<1>2. ASSUME NEW t \in Threads, NEW o \in Eins, NEW name \in Names, NEW zip \in ZipCodes \cup {None},
             NEW form \in Forms, NEW grants \in BOOLEAN, Upload(t, o, name, zip, form, grants)
      PROVE  IndexInv'
  BY <1>2, Adds DEF Upload
<1>3. ASSUME NEW t \in Threads, CreateInsert(t) PROVE IndexInv'
  BY <1>1, <1>3, Adds DEF CreateInsert
<1>4. ASSUME NEW t \in Threads, NEW o \in Eins, NEW name \in Names, Rename(t, o, name)
      PROVE  IndexInv'
  BY <1>4, RenamesIndex DEF Rename
<1>5. ASSUME NEW t \in Threads, NEW o \in Eins, NEW zip \in ZipCodes \cup {None}, Move(t, o, zip)
      PROVE  IndexInv'
  <2>1. /\ index' = index /\ DOMAIN orgs' = DOMAIN orgs
        /\ \A q \in DOMAIN orgs : "name" \in DOMAIN orgs'[q] /\ orgs'[q].name = orgs[q].name
    BY <1>5 DEF Move, IndexInv
  <2> QED BY <2>1, NamesKept
<1>6. ASSUME NEW t \in Threads, FuzzySearch(t) PROVE IndexInv'
  BY <1>6, RebuildsIndex DEF FuzzySearch, Healed
<1>7. ASSUME NEW o \in Eins, NEW name \in Names, NEW zip \in ZipCodes \cup {None}, NEW form \in Forms, NEW grants \in BOOLEAN,
             BulkStore(o, name, zip, form, grants)
      PROVE  IndexInv'
  BY <1>7, Adds DEF BulkStore
<1>8. ASSUME BulkIndex PROVE IndexInv'
  BY <1>8, RebuildsIndex DEF BulkIndex
<1>9. ASSUME CmdClassify \/ BulkClassify PROVE IndexInv'
  BY <1>9, ClassifyKeepsNames DEF CmdClassify, BulkClassify
<1> QED
  BY <1>1, <1>2, <1>3, <1>4, <1>5, <1>6, <1>7, <1>8, <1>9
  DEF Next, vars, CreateCheck, NextRequestCommits, CountiesImport, CountiesImportDerives,
      CountiesImportDies, CountiesDerive, DeriveAll, Purge, BulkBegin, BulkDerive, BulkDies

(***************************************************************************)
(* A fuzzy search finds every organization by its present name, once        *)
(* (search_organizations, _fts_stale of organization.py): the index may     *)
(* lack rows, but it has none that is wrong or twice, so that its count is  *)
(* off when it lacks one.                                                   *)
(***************************************************************************)
THEOREM SearchIsComplete == Spec => []FuzzyIsComplete
<1>1. Init => IndexInv
  BY FS_EmptySet DEF Init, IndexInv, EmptyBag, SetToBag
<1> QED BY <1>1, IndexStep, IndexComplete, PTL DEF Spec

-----------------------------------------------------------------------------
(***************************************************************************)
(* The connections of the pool's threads.                                   *)
(***************************************************************************)
LEMMA InitInv == C!Init => C!Inv
BY DEF C!Init, C!Inv, C!TypeOK, C!OneCurrentWriter, C!PinnedOnlyAfterFailure,
      C!SecuredStartsClean

(***************************************************************************)
(* A step of one request.  Only the acting connection changes its           *)
(* transaction; the others can only become stale, and only while reading.   *)
(***************************************************************************)
LEMMA RequestInv == ASSUME C!Inv, NEW w \in Worker, C!Request(w) PROVE C!Inv'
<1> USE DEF C!Inv, C!TypeOK, C!OneCurrentWriter, C!PinnedOnlyAfterFailure,
        C!SecuredStartsClean
<1>1. CASE C!GateSelect(w)
  BY <1>1 DEF C!GateSelect, C!AfterSelect
<1>2. CASE C!GatePass(w)
  <2>1. /\ step[w] = "update"
        /\ tx' = [tx EXCEPT ![w] = "none"] /\ step' = [step EXCEPT ![w] = "handler"]
        /\ stale' = stale \cup {v \in Worker \ {w} : tx[v] = "reading"}
        /\ carried' = carried \ {w} /\ failed' = failed \ {w} /\ UNCHANGED <<secured, outside>>
    BY <1>2 DEF C!GatePass, C!Overtaken
  <2>2. w \notin stale
    BY <1>2 DEF C!GatePass, C!CanWrite
  <2> QED BY <2>1, <2>2
<1>3. CASE C!GateFails(w)
  BY <1>3 DEF C!GateFails, C!AfterError
<1>4. CASE C!Select(w)
  BY <1>4 DEF C!Select, C!AfterSelect
<1>5. CASE C!Write(w)
  <2>1. tx[w] = "writing" \/ (~outside /\ w \notin stale /\ \A v \in Worker \ {w} : tx[v] # "writing")
    BY <1>5 DEF C!Write, C!CanWrite, C!LockFree
  <2> QED BY <1>5, <2>1 DEF C!Write
<1>6. CASE C!WriteFails(w)
  BY <1>6 DEF C!WriteFails, C!AfterError
<1>7. CASE C!Commit(w)
  BY <1>7 DEF C!Commit, C!Ended, C!Overtaken
<1>8. CASE C!Rollback(w)
  BY <1>8 DEF C!Rollback
<1>9. CASE C!Respond(w)
  BY <1>9 DEF C!Respond
<1>10. CASE C!WriteRaises(w)
  BY <1>10 DEF C!WriteRaises, C!AfterError
<1> QED BY <1>1, <1>2, <1>3, <1>4, <1>5, <1>6, <1>7, <1>8, <1>9, <1>10 DEF C!Request

LEMMA NextInv == ASSUME C!Inv, [C!Next]_(C!vars) PROVE C!Inv'
<1> USE DEF C!Inv, C!TypeOK, C!OneCurrentWriter, C!PinnedOnlyAfterFailure,
        C!SecuredStartsClean
<1>1. ASSUME NEW w \in Worker, C!Accept(w) PROVE C!Inv'
  BY <1>1 DEF C!Accept
<1>2. ASSUME NEW w \in Worker, C!Request(w) PROVE C!Inv'
  BY <1>2, RequestInv
<1>3. CASE C!OutsideBegin
  BY <1>3 DEF C!OutsideBegin
<1>4. CASE C!OutsideCommit
  BY <1>4 DEF C!OutsideCommit
<1>5. CASE C!Restart
  BY <1>5 DEF C!Restart
<1>6. CASE UNCHANGED C!vars
  BY <1>6 DEF C!vars
<1> QED BY <1>1, <1>2, <1>3, <1>4, <1>5, <1>6 DEF C!Next

LEMMA ConnectionsInv == C!Spec => []C!Inv
BY InitInv, NextInv, PTL DEF C!Spec

-----------------------------------------------------------------------------
(***************************************************************************)
(* The rate limit, for every window and every limit: a window begins only   *)
(* when the last one is over, so that the observer meets the end of one.    *)
(***************************************************************************)
LEMMA RateStep == ASSUME R!RateInv, [R!Next]_(R!vars) PROVE R!RateInv'
<1> USE ComponentsAssumption
    DEF R!Positive, R!RateInv, R!TypeOK, R!AtMostTwice, R!Over, R!Past
<1>1. CASE R!Tick
  BY <1>1 DEF R!Tick, R!Later
<1>2. CASE R!Request
  BY <1>2 DEF R!Request, R!Within
<1>3. CASE UNCHANGED R!vars
  BY <1>3 DEF R!vars
<1> QED BY <1>1, <1>2, <1>3 DEF R!Next

(***************************************************************************)
(* A burst across the end of a window passes twice the limit of             *)
(* _is_rate_limited at most, and a caller that goes on knocking is let in   *)
(* within a window of its first refusal.                                    *)
(***************************************************************************)
THEOREM RateIsHeld == R!Spec => [](R!AtMostTwice /\ R!RefusedForAWindow)
<1>1. R!Init => R!RateInv
  BY ComponentsAssumption
     DEF R!Init, R!Positive, R!RateInv, R!TypeOK, R!AtMostTwice, R!Over, R!Past
<1>2. R!RateInv => R!AtMostTwice /\ R!RefusedForAWindow
  BY ComponentsAssumption DEF R!RateInv, R!TypeOK, R!RefusedForAWindow, R!Over, R!Past,
        R!Positive
<1> QED BY <1>1, <1>2, RateStep, PTL DEF R!Spec

-----------------------------------------------------------------------------
(***************************************************************************)
(* The lock file of a background start.                                     *)
(***************************************************************************)

(***************************************************************************)
(* Looking changes no lock and starts nothing.                              *)
(***************************************************************************)
LEMMA LooksSafe == ASSUME S!LockInv, NEW c \in S!Caller, S!Looks(c) PROVE S!LockInv'
<1> USE ComponentsAssumption DEF S!LockInv, S!TypeOK, S!LockExcludes, S!Holds, S!Caller,
        S!Goes, S!Absent,
                            S!SpawnAssumption
<1>1. CASE S!Read(c)
  BY <1>1 DEF S!Read
<1>2. CASE S!Probe(c)
  BY <1>2 DEF S!Probe
<1>3. CASE S!RemoveStale(c)
  BY <1>3 DEF S!RemoveStale
<1>4. CASE S!Stop(c)
  BY <1>4 DEF S!Stop
<1> QED BY <1>1, <1>2, <1>3, <1>4 DEF S!Looks

(***************************************************************************)
(* A start takes the lock only where there is none, and removes its own.    *)
(***************************************************************************)
LEMMA StartsSafe == ASSUME S!LockInv, NEW s \in Starter, S!Starts(s) \/ S!Interrupt(s) PROVE S!LockInv'
<1> USE DEF S!LockInv, S!TypeOK, S!LockExcludes, S!Holds, S!Caller, S!Goes, S!Becomes
<1>1. CASE S!GiveUp(s)
  BY <1>1 DEF S!GiveUp
<1>2. CASE S!AcquireLock(s)
  BY <1>2 DEF S!AcquireLock
<1>3. CASE S!Fork(s)
  <2>1. CASE \E p \in Pid : daemon[p] = "unused" /\ S!Becomes(p, "born")
                            /\ child' = [child EXCEPT ![s] = p] /\ S!Goes(s, "waiting")
    BY <1>3, <2>1 DEF S!Fork, S!Starting
  <2>2. CASE S!Goes(s, "release") /\ UNCHANGED <<child, daemon>>
    BY <1>3, <2>2 DEF S!Fork
  <2> QED BY <1>3, <2>1, <2>2 DEF S!Fork
<1>4. CASE S!Return(s)
  BY <1>4 DEF S!Return
<1>5. CASE S!Interrupt(s)
  BY <1>5 DEF S!Interrupt
<1>6. CASE S!Release(s)
  BY <1>6 DEF S!Release
<1>7. CASE S!Exit(s)
  BY <1>7 DEF S!Exit
<1> QED BY <1>1, <1>2, <1>3, <1>4, <1>5, <1>6, <1>7 DEF S!Starts

(***************************************************************************)
(* Daemons touch the pid file only.                                         *)
(***************************************************************************)
LEMMA DaemonSafe ==
  ASSUME S!LockInv, NEW p \in Pid, S!ComesUp(p) \/ S!Finish(p) \/ S!EndProcess(p) \/ S!KillDaemon(p)
  PROVE  S!LockInv'
<1>1. UNCHANGED <<lockfile, at, seen, child, raced>>
  BY DEF S!ComesUp, S!Truncate, S!WritePid, S!Report, S!Finish, S!EndProcess, S!KillDaemon
<1>2. pidfile' \in Pid \cup {None, Torn}
  BY DEF S!ComesUp, S!Truncate, S!WritePid, S!Report, S!Finish, S!EndProcess, S!KillDaemon,
        S!LockInv, S!TypeOK
<1>3. daemon' \in [Pid -> S!Starting \cup {"unused", "running", "ending", "dead"}]
  BY DEF S!ComesUp, S!Truncate, S!WritePid, S!Report, S!Finish, S!EndProcess, S!KillDaemon,
        S!LockInv, S!TypeOK,
         S!Becomes, S!Starting
<1> QED BY <1>1, <1>2, <1>3 DEF S!LockInv, S!TypeOK, S!LockExcludes, S!Holds

(***************************************************************************)
(* No step breaks the exclusion.                                            *)
(***************************************************************************)
LEMMA NextSafe == S!LockInv /\ [S!Next]_(S!vars) => S!LockInv'
<1> SUFFICES ASSUME S!LockInv, [S!Next]_(S!vars) PROVE S!LockInv'
  OBVIOUS
<1>1. CASE \E c \in S!Caller : S!Looks(c)
  BY <1>1, LooksSafe
<1>2. ASSUME NEW c \in S!Caller, S!KillCaller(c) PROVE S!LockInv'
  BY <1>2 DEF S!KillCaller, S!LockInv, S!TypeOK, S!LockExcludes, S!Holds, S!Goes, S!Caller
<1>3. CASE \E s \in Starter : S!Starts(s) \/ S!Interrupt(s)
  BY <1>3, StartsSafe
<1>4. CASE \E p \in Pid : S!ComesUp(p) \/ S!Finish(p) \/ S!EndProcess(p) \/ S!KillDaemon(p)
  BY <1>4, DaemonSafe
<1>5. CASE UNCHANGED S!vars
  BY <1>5 DEF S!vars, S!LockInv, S!TypeOK, S!LockExcludes, S!Holds
<1> QED BY <1>1, <1>2, <1>3, <1>4, <1>5 DEF S!Next

(***************************************************************************)
(* Between taking the lock file and removing it a start is alone, whoever   *)
(* is killed or interrupted.                                                *)
(***************************************************************************)
THEOREM StartsExclude == S!Spec => [](S!LockInv /\ S!LockExcludes)
<1>1. S!Init => S!LockInv
  BY DEF S!Init, S!LockInv, S!TypeOK, S!LockExcludes, S!Holds, S!Caller
<1>2. S!LockInv => S!LockExcludes
  BY DEF S!LockInv
<1> QED BY <1>1, <1>2, NextSafe, PTL DEF S!Spec

-----------------------------------------------------------------------------
(***************************************************************************)
(* While commands do not overlap, the guard works.  A look reads the pid of *)
(* a daemon that runs, or finds none.                                       *)
(***************************************************************************)
LEMMA LooksAlone ==
  ASSUME S!LockInv, S!Alone, NEW c \in S!Caller, S!Looks(c), ~raced' PROVE S!Alone'
<1> USE ComponentsAssumption DEF S!LockInv, S!TypeOK, S!Caller, S!Goes, S!Absent,
        S!SpawnAssumption, S!Alive, S!Starting, S!Alone,
   S!OneAtATime, S!Children, S!OneComingUp, S!NamesAWriter, S!Looking, S!OneRunning,
   S!RunningIsNamed, S!ComingUp, S!Runs, S!Wrote, S!Holds
<1>1. CASE S!Read(c)
  <2>0. \E where \in {"read", "checked", "idle"} : S!Goes(c, where)
    BY <1>1 DEF S!Read
  <2>1. \A d \in S!Caller \ {c} : at[d] = "idle" /\ at'[d] = "idle"
    <3>1. \A d \in S!Caller \ {c} : at[d] = "idle"
      BY <1>1, Zenon DEF S!Read
    <3> QED BY <2>0, <3>1
  <2>2. /\ S!OneAtATime' /\ UNCHANGED <<lockfile, pidfile, child, daemon>>
        /\ \A d \in S!Caller \ {c} : at'[d] = "idle"
        /\ at[c] = "idle"
    BY <1>1, <2>1 DEF S!Read
  <2>3. \A s \in Starter : child[s] = None /\ ~S!Holds(s)
    BY <2>1, <2>2
  <2>4. CASE pidfile \in Pid
    <3>1. at'[c] = "read" /\ seen'[c] = pidfile
      BY <1>1, <2>4 DEF S!Read
    <3> QED BY <2>2, <2>3, <2>4, <3>1
  <2>5. CASE pidfile \notin Pid
    <3>1. at'[c] \in {"checked", "idle"}
      BY <1>1, <2>5 DEF S!Read
    <3> QED BY <2>2, <2>3, <2>5, <3>1
  <2> QED BY <2>4, <2>5
<1>2. CASE S!Probe(c)
  BY <1>2 DEF S!Probe
<1>3. CASE S!RemoveStale(c)
  BY <1>3 DEF S!RemoveStale
<1>4. CASE S!Stop(c)
  BY <1>4 DEF S!Stop
<1> QED BY <1>1, <1>2, <1>3, <1>4 DEF S!Looks

(***************************************************************************)
(* A start that finds nobody leaves with the only daemon, and waits until   *)
(* the file names it.                                                       *)
(***************************************************************************)
LEMMA StartsAlone ==
  ASSUME S!LockInv, S!Alone, NEW s \in Starter, S!Starts(s) \/ S!Interrupt(s), ~raced' PROVE S!Alone'
<1> USE ComponentsAssumption DEF S!LockInv, S!TypeOK, S!LockExcludes, S!Caller, S!Goes,
        S!Becomes, S!SpawnAssumption, S!Starting, S!Alone,
   S!OneAtATime, S!Children, S!OneComingUp, S!NamesAWriter, S!Looking, S!OneRunning,
   S!RunningIsNamed, S!ComingUp, S!Runs, S!Wrote, S!Holds
<1>1. CASE S!GiveUp(s)
  BY <1>1 DEF S!GiveUp
<1>2. CASE S!AcquireLock(s)
  BY <1>2 DEF S!AcquireLock
<1>3. CASE S!Fork(s)
  <2>1. ASSUME NEW p \in Pid, daemon[p] = "unused", S!Becomes(p, "born"), child' = [child EXCEPT ![s] = p], S!Goes(s, "waiting")
        PROVE S!Alone'
    BY <1>3, <2>1 DEF S!Fork
  <2>2. CASE S!Goes(s, "release") /\ UNCHANGED <<child, daemon>>
    BY <1>3, <2>2 DEF S!Fork
  <2> QED BY <1>3, <2>1, <2>2 DEF S!Fork
<1>4. CASE S!Return(s)
  BY <1>4 DEF S!Return, S!Told
<1>5. CASE S!Interrupt(s)
  BY <1>5 DEF S!Interrupt
<1>6. CASE S!Release(s)
  BY <1>6 DEF S!Release
<1>7. CASE S!Exit(s)
  BY <1>7 DEF S!Exit
<1> QED BY <1>1, <1>2, <1>3, <1>4, <1>5, <1>6, <1>7 DEF S!Starts

(***************************************************************************)
(* A daemon that comes up writes its own pid over that of a dead one.       *)
(***************************************************************************)
LEMMA DaemonAlone ==
  ASSUME S!LockInv, S!Alone, NEW p \in Pid, S!ComesUp(p) \/ S!Finish(p) \/ S!EndProcess(p) \/ S!KillDaemon(p)
  PROVE  S!Alone'
<1> USE ComponentsAssumption DEF S!LockInv, S!TypeOK, S!Caller, S!Becomes,
        S!SpawnAssumption, S!Alive, S!Starting, S!Alone,
   S!OneAtATime, S!Children, S!OneComingUp, S!NamesAWriter, S!Looking, S!OneRunning,
   S!RunningIsNamed, S!ComingUp, S!Runs, S!Wrote, S!Holds
<1>1. CASE S!Truncate(p)
  BY <1>1 DEF S!Truncate
<1>2. CASE S!WritePid(p)
  BY <1>2 DEF S!WritePid
<1>3. CASE S!Report(p)
  BY <1>3 DEF S!Report
<1>4. CASE S!Finish(p)
  BY <1>4 DEF S!Finish
<1>5. CASE S!EndProcess(p)
  BY <1>5 DEF S!EndProcess
<1>6. CASE S!KillDaemon(p)
  BY <1>6 DEF S!KillDaemon
<1> QED BY <1>1, <1>2, <1>3, <1>4, <1>5, <1>6 DEF S!ComesUp

(***************************************************************************)
(* An overlap or an interrupt is remembered; short of one the guard holds.  *)
(* A command that is killed leaves its lock file, so no start comes after it. *)
(***************************************************************************)
LEMMA NextAlone ==
  ASSUME S!LockInv, raced \/ S!Alone, [S!Next]_(S!vars) PROVE raced' \/ S!Alone'
<1>1. CASE raced
  BY <1>1 DEF S!Next, S!Looks, S!Read, S!Probe, S!RemoveStale, S!Stop, S!KillCaller,
        S!Starts, S!GiveUp, S!AcquireLock, S!Fork, S!Return, S!Release, S!Exit,
    S!Interrupt, S!ComesUp, S!Truncate, S!WritePid, S!Report, S!Finish, S!EndProcess,
    S!KillDaemon, S!vars
<1>2. CASE ~raced' /\ S!Alone
  <2>1. ASSUME NEW c \in S!Caller, S!KillCaller(c) PROVE S!Alone'
    BY <1>2, <2>1, ComponentsAssumption DEF S!KillCaller, S!LockInv, S!TypeOK,
          S!LockExcludes, S!Caller, S!Goes, S!SpawnAssumption, S!Starting, S!Alone,
       S!OneAtATime, S!Children, S!OneComingUp, S!NamesAWriter, S!Looking, S!OneRunning,
       S!RunningIsNamed, S!ComingUp, S!Runs, S!Wrote, S!Holds
  <2>2. CASE UNCHANGED S!vars
    BY <1>2, <2>2 DEF S!vars, S!Alone, S!Alive,
       S!OneAtATime, S!Children, S!OneComingUp, S!NamesAWriter, S!Looking, S!OneRunning,
       S!RunningIsNamed, S!ComingUp, S!Runs, S!Wrote, S!Holds
  <2> QED BY <1>2, <2>1, <2>2, LooksAlone, StartsAlone, DaemonAlone DEF S!Next
<1> QED BY <1>1, <1>2

(***************************************************************************)
(* As long as commands do not overlap and none is interrupted, the guard of *)
(* daemon.py works: one daemon runs and the pid file names it, whatever was *)
(* killed before, for any number of terminals and processes.                *)
(***************************************************************************)
THEOREM SpawnIsGuarded == S!Spec => []S!AloneIsGuarded
<1> DEFINE Guard == S!LockInv /\ (raced \/ S!Alone)
<1>1. S!Init => Guard
  BY ComponentsAssumption DEF S!Init, S!LockInv, S!TypeOK, S!LockExcludes, S!Holds,
        S!Caller,
     S!SpawnAssumption, S!Alone, S!OneAtATime, S!Children, S!OneComingUp, S!NamesAWriter,
     S!Looking,
     S!OneRunning, S!RunningIsNamed, S!ComingUp, S!Runs, S!Wrote, S!Starting
<1>2. Guard /\ [S!Next]_(S!vars) => Guard'
  BY NextSafe, NextAlone
<1>3. Guard => S!AloneIsGuarded
  BY DEF S!AloneIsGuarded, S!Alone
<1> QED BY <1>1, <1>2, <1>3, PTL DEF S!Spec

-----------------------------------------------------------------------------
(***************************************************************************)
(* The components side by side: each of them behaves as it does alone.      *)
(***************************************************************************)
LEMMA EachAlone == Components => Spec /\ C!Spec /\ R!Spec /\ S!Spec
<1> USE DEF ComponentsInit, ComponentsNext, all, connections, rate, spawn
<1>1. ComponentsInit => Init /\ C!Init /\ R!Init /\ S!Init
  OBVIOUS
<1>2. [ComponentsNext]_all => [Next]_vars
  OBVIOUS
<1>3. [ComponentsNext]_all => [C!Next]_(C!vars)
  BY DEF C!vars
<1>4. [ComponentsNext]_all => [R!Next]_(R!vars)
  BY DEF R!vars
<1>5. [ComponentsNext]_all => [S!Next]_(S!vars)
  BY DEF S!vars
<1> QED BY <1>1, <1>2, <1>3, <1>4, <1>5, PTL DEF Components, Spec, C!Spec, R!Spec, S!Spec

(***************************************************************************)
(* A write is refused without another writer only where a statement raised  *)
(* before and nothing has ended its transaction (base.py: a writer waits    *)
(* "rather than failing the request"): what keeps every other connection    *)
(* from it is that its snapshot is pinned by an open write alone.           *)
(***************************************************************************)
THEOREM WritersWait == Components => FailsBehindWriter
<1>1. ASSUME C!Inv, NEW w \in Worker, C!GateFails(w) \/ C!WriteFails(w)
      PROVE  ~C!LockFree(w) \/ w \in failed
  <2>1. ~C!LockFree(w) \/ w \in stale
    BY <1>1 DEF C!GateFails, C!WriteFails, C!CanWrite
  <2> QED BY <1>1, <2>1 DEF C!Inv, C!PinnedOnlyAfterFailure
<1>2. C!Inv => \A w \in Worker : C!GateFails(w) \/ C!WriteFails(w) => ~C!LockFree(w) \/ w \in failed
  BY <1>1
<1>3. C!Inv /\ [C!Next]_(C!vars) =>
        [\A w \in Worker : C!GateFails(w) \/ C!WriteFails(w) => ~C!LockFree(w) \/ w \in failed]_(C!vars)
  BY <1>2
<1> QED BY EachAlone, ConnectionsInv, <1>3, PTL DEF C!Spec, FailsBehindWriter, C!FailsBehindWriter

(***************************************************************************)
(* A secured handler never works on top of another request's open writes:   *)
(* the commit of authenticate has ended them.                               *)
(***************************************************************************)
THEOREM SecuredClean == Components => []SecuredStartsClean
<1>1. C!Inv => SecuredStartsClean
  BY DEF C!Inv, SecuredStartsClean
<1> QED BY EachAlone, ConnectionsInv, <1>1, PTL

(***************************************************************************)
(* At most twice the limit of requests passes in any window, and nobody is  *)
(* refused for longer than one (_is_rate_limited of server.py).             *)
(***************************************************************************)
THEOREM RateIsHeldBesides == Components => []RateHolds
<1>1. R!AtMostTwice /\ R!RefusedForAWindow => RateHolds
  BY DEF RateHolds
<1> QED BY EachAlone, RateIsHeld, <1>1, PTL

(***************************************************************************)
(* The lock file of daemon.py excludes, and while commands do not overlap   *)
(* one daemon runs and the pid file names it.                               *)
(***************************************************************************)
THEOREM StartsExcludeBesides == Components => []LockInv
<1>1. S!LockInv => LockInv
  BY DEF LockInv
<1> QED BY EachAlone, StartsExclude, <1>1, PTL

THEOREM SpawnIsGuardedBesides == Components => []AloneIsGuarded
<1>1. S!AloneIsGuarded => AloneIsGuarded
  BY DEF AloneIsGuarded
<1> QED BY EachAlone, SpawnIsGuarded, <1>1, PTL

(***************************************************************************)
(* The theorems of Organizations hold here as well.                         *)
(***************************************************************************)
THEOREM DirectoryIsRight == Components => [](CountyOfZip /\ TypeOfForms /\ FuzzyIsComplete)
BY EachAlone, CountiesAreOfZips, TypesAreOfForms, SearchIsComplete, PTL
===============================================================================
