\* A bet between the look at the rounds and the deletion.
SPECIFICATION Spec
CONSTANTS
  Ids = {a1}
  Root = root
  Pool = pool
  BetIds = {b1}
  TxIds = {1, 2}
  Amounts = {1}
  RootBalance = 1
  Requests = {r1, r2}
  None = None
CHECK_DEADLOCK FALSE
SYMMETRY Symmetry
PROPERTIES DeletionWaits
