SPECIFICATION ExecSpec
CONSTANTS
  Page <- Pages
  Content <- HeapPages
  OnDisk <- HeapOnDisk
  Plans <- QueryPlans
  Schema <- TwoColumns
  Decode <- DecodedPlace
  Zero = Zero
  Unwritten = Unwritten
  PoolSize = 2
  MaxPin = 2
INVARIANTS NoPinLeak ResultIsQuery
PROPERTY QueryEnds
