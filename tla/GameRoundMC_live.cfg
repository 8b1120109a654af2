\* Progress without errors; the process may end once.
SPECIFICATION FairSpec
CONSTANTS
  Players = {p1}
  Pool = pool
  Games = {g1}
  Schedulers = {sch}
  Requests = {r1}
  BetIds = {b1, b2}
  Stakes = {4}
  FeeOf <- MCFeeOf
  InitialBalance <- MCBalance
  MaxSessions = 2
  MaxExits = 1
  MaxErrors = 0
  None = None
PROPERTIES ClosedBetsResolve SessionsEnd
