\* One round with two bets; the three jobs of a day and one retry of each.
SPECIFICATION Spec
CONSTANTS
  SessionIds = {s1}
  BetIds = {b1, b2}
  MaxRetries = 1
  MaxQueue = 3
  None = None
INVARIANTS TypeOK NothingLost ArchivedRoundIsFinal
PROPERTIES OldRowsArchived
