SPECIFICATION ManageSpec
CONSTANTS
  a1 = a1
  a2 = a2
  m1 = m1
  m3 = m3
  m4 = m4
  k1 = k1
  k2 = k2
  e1 = e1
  s = s
  None = None
  Archive = {a1, a2}
  Member = {m1, m3, m4}
  Key = {k1, k2}
  Ein = {e1}
  Cell = {s}
  Slot = {s}
  ArchiveOf <- MCArchiveOf
  KeyOf <- MCKeyOf
  EinOf <- MCEinOf
  CellsOf <- MCCellsOf
  MaxId = 3
  ChunkFiles = 2
  BatchFiles = 1
  FlushRows = 1
INVARIANT AddressAsFiled
