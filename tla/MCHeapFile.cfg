SPECIFICATION Spec
CONSTANTS
  Heap = {h1, h2}
  MaxPages = 3
  Data <- Records
  Unwritten = Unwritten
  Zero = Zero
  Capacity = 4
  SlotSize = 1
INVARIANTS TypeOK NoDanglingLink OneOwner AllocatedOnce
PROPERTY ImplementsRecordStore
SYMMETRY Heaps
