\* The scheduler and two others; the pool and two players, two games open for betting, two
\* bets on the session that is settled or recovered.
SPECIFICATION MCSpec
CONSTANTS
  Scheduler = scheduler
  Others = {t1, t2}
  WalletIds = {1, 2, 3}
  Games = {g1, g2}
  Bets = {1, 2}
  None = None
INVARIANTS TypeOK OrderPreventsDeadlock
PROPERTIES EveryTransactionEnds
CHECK_DEADLOCK FALSE
