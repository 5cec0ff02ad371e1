SPECIFICATION IterSpec
CONSTANTS
  Heap = {h1, h2}
  MaxPages = 3
  Data <- Records
  Unwritten = Unwritten
  Zero = Zero
  Capacity = 4
  SlotSize = 1
INVARIANTS NoDuplicates ScanComplete
SYMMETRY Heaps
