\* Recovery after an error in a cycle.
SPECIFICATION Spec
CONSTANTS
  Players = {p1}
  Pool = pool
  Games = {g1}
  Schedulers = {sch}
  Requests = {r1}
  BetIds = {b1}
  Stakes = {4}
  FeeOf <- MCFeeOf
  InitialBalance <- MCBalance
  MaxSessions = 2
  MaxExits = 1
  MaxErrors = 1
  None = None
PROPERTY RecoveryLeavesNoStake
