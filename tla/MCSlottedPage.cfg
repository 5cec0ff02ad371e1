SPECIFICATION Spec
CONSTANTS
  PageSize = 8
  BaseOffset = 1
  HeaderSize = 1
  SlotSize = 1
  MaxLen = 3
  Byte = {b1, b2}
  Meta = Meta
  SizeT = 65536
INVARIANTS TypeOK LayoutOK RecordsDisjoint DirectoryIntact
PROPERTY ImplementsRecordPage
SYMMETRY Bytes
