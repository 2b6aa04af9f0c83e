SPECIFICATION Spec
CONSTANTS
  None = None
  t1 = t1
  t2 = t2
  t3 = t3
  h1 = h1
  h2 = h2
  Reader = {t1, t2}
  Content <- Transactions
  Header = {h1, h2}
  Refused = {h2}
  Drawer = {t1, t2}
  DATA_AREA = 2
  SEED = 3
  MaxTurns = 4
  MaxDraw = 3
  Prover = {t1, t2, t3}
  Entries = 4
INVARIANT CachedIsRight DrawsDiffer TablesComplete
SYMMETRY Symmetry
