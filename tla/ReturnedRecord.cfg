SPECIFICATION ScanSpec
CONSTANTS
  Page <- Pages
  Content <- HeapPages
  OnDisk <- HeapOnDisk
  Zero = Zero
  Unwritten = Unwritten
  PoolSize = 2
  MaxPin = 2
INVARIANT ReturnedRecordValid
