SPECIFICATION CrashSpec
CONSTANTS
  a = a
  b = b
  Heap = {h1, h2}
  MaxPages = 3
  Data <- Records
  Unwritten = Unwritten
  Zero = Zero
  Capacity = 2
  SlotSize = 1
INVARIANTS LinksForward
PROPERTY FlushedRecordsSurvive
SYMMETRY Symmetry
