\* A chain of two agents with a stake, and one account to come; two requests or sweepers
\* at a time.
SPECIFICATION MCSpec
CONSTANTS
  Ids = {a1, a2, a3}
  Upper = a1
  Lower = a2
  Root = root
  Pool = pool
  BetIds = {b1}
  TxIds = {1, 2, 3}
  Amounts = {1}
  RootBalance = 1
  Requests = {r1, r2}
  None = None
CHECK_DEADLOCK FALSE
SYMMETRY Symmetry
INVARIANTS InactiveBelow NoDangling
