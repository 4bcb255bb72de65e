SPECIFICATION Returns
CONSTANTS
  a1 = a1
  a2 = a2
  m1 = m1
  m3 = m3
  m4 = m4
  k1 = k1
  k2 = k2
  e1 = e1
  s = s
  None = None
  Archive = {a1, a2}
  Member = {m1, m3, m4}
  Key = {k1, k2}
  Ein = {e1}
  Cell = {s}
  Slot = {s}
  ArchiveOf <- MCArchiveOf
  KeyOf <- MCKeyOf
  EinOf <- MCEinOf
  CellsOf <- MCCellsOf
  MaxId = 3
  ChunkFiles = 2
  BatchFiles = 1
  FlushRows = 1
  Members = {m1, m2, m3, m4}
  Keys = {k1, k2}
  Zips = {z1, z2}
  MembersIn <- MCMembersIn
  Header <- MCHeader
  KeyOfReturn <- MCKeyOfReturn
  EinOfKey <- MCEinOfKey
  ObjectOf <- MCObjectOf
  FieldsOf <- MCFieldsOf
  GroupsOf <- MCGroupsOf
  Norm <- MCNorm
  NormalEin <- MCNormalEin
  MaxOps = 4
  m2 = m2
  z1 = z1
  z2 = z2
  e2 = e2
  E1 = E1
  x1 = x1
  x2 = x2
  fa = fa
  fb = fb
  acme = acme
  ACME = ACME
INVARIANTS
  ReusedIdsAreClean
  LostOnlyToPurge
  StoredIsWhole
  OwnData
  PartyOfIdentity
  MadeIsReceived
CONSTRAINT Undisturbed
VIEW View
