\* Two schedulers at work on one game.
SPECIFICATION Spec
CONSTANTS
  Players = {p1}
  Pool = pool
  Games = {g1}
  Schedulers = {s1, s2}
  Requests = {r1}
  BetIds = {b1, b2}
  Stakes = {4}
  FeeOf <- MCFeeOf
  InitialBalance <- MCTightBalance
  MaxSessions = 2
  MaxExits = 1
  MaxErrors = 0
  None = None
SYMMETRY Symmetry
INVARIANTS LedgerBalances TotalsMatchStakes
