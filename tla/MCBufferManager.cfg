SPECIFICATION Spec
CONSTANTS
  Page <- Pages
  Content = {c1, c2}
  Zero = Zero
  Unwritten = Unwritten
  PoolSize = 2
  MaxPin = 2
INVARIANTS TypeOK PageTableCoherent FreeListSound CleanAgreesWithFile LoopStopsWhereStated
PROPERTIES PinnedNeverEvicted SecondChance ImplementsPageStore
SYMMETRY Contents
