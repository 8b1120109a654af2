\* Two addresses, two requests at a time, two codes; two sends in three ticks, a tick apart.
SPECIFICATION Spec
CONSTANTS
  Creators = {p1}
  Emails = {m1, m2}
  Requests = {r1, r2}
  Cooldown = 1
  Window = 3
  MaxPerWindow = 2
  MaxIssued = 2
  None = None
SYMMETRY Symmetry
INVARIANTS TypeOK EmailProven UsedOnce SendsLimited
