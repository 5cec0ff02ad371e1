SPECIFICATION Spec
CONSTANTS
  Page <- Pages
  MaxPages = 3
  Content = {c1}
  Zero = Zero
  Unwritten = Unwritten
  Name = {n1, n2}
  Hidden = {n2}
  Instances = {i1, i2}
  NoFile = NoFile
  Nobody = Nobody
INVARIANTS ServerTypeOK HandlesStayValid CacheKnowsFiles
PROPERTIES NeverHandedOutTwice FilesSurvive
SYMMETRY Objects
