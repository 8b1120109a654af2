\* Two clients that share a pool of two connections with other requests.
SPECIFICATION Spec
CONSTANTS
  Clients = {c1, c2}
  PoolMax = 2
  MaxChannel = 2
  None = None
INVARIANTS TypeOK NoGap
PROPERTIES Converges ClosedAreForgotten
