\* One scheduler and one game; process ends twice, one error in a cycle.
SPECIFICATION Spec
CONSTANTS
  Players = {p1, p2}
  Pool = pool
  Games = {g1}
  Schedulers = {sch}
  Requests = {r1}
  BetIds = {b1, b2}
  Stakes = {4}
  FeeOf <- MCFeeOf
  InitialBalance <- MCTightBalance
  MaxSessions = 2
  MaxExits = 2
  MaxErrors = 1
  None = None
SYMMETRY Symmetry
INVARIANTS TypeOK LedgerBalances SchedulerInv ShownAsSettled
INVARIANTS CreditedAsResolved SettledByWinner PoolCoversStakes RefundedInFull
PROPERTIES ClosedTotalsFixed ResolvedBetsStay ImplementsWager
