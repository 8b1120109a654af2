\* One account of either role, two submissions at a time, four login pages, up to seven further tokens.
SPECIFICATION Spec
CONSTANTS
  Accounts = {a1}
  Captchas = {c1, c2, c3, c4}
  Requests = {r1, r2}
  MaxIssued = 7
  None = None
SYMMETRY Symmetry
INVARIANTS TypeOK OneUse
PROPERTIES RevokedForGood AskedBeforeReplaced
