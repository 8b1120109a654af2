\* Two accounts with their coins in play, a transfer or a bet under way, or one account
\* from its creation on; two requests at a time; no symmetry under liveness.
SPECIFICATION MCSpec
CONSTANTS
  Ids = {a1, a2}
  Upper = a1
  Lower = a2
  Stake = b2
  Chief = r2
  Payer = r1
  Root = root
  Pool = pool
  BetIds = {b1, b2}
  TxIds = {1, 2, 3, 4, 5}
  Amounts = {1}
  RootBalance = 2
  Requests = {r1, r2}
  None = None
CHECK_DEADLOCK FALSE
INVARIANTS TypeOK NoDangling BooksBalance
PROPERTIES PendingGoes
