SPECIFICATION Spec
CONSTANTS
  c1 = c1
  c2 = c2
  ana = ana
  w1 = w1
  w2 = w2
  good = good
  other = other
  None = None
  Commands = {c1, c2}
  Clientes = {ana}
  ClienteOf <- MCClienteOf
  Bodies = {good, other}
  Malformed = {}
  Workers = {w1, w2}
  MaxAttempts = 2
  MaxStalls = 1
  MaxCarts = 2
  Faults = {"crash", "db", "ack", "redis"}
  MaxFaults = 2
INVARIANTS
  ClaimIsExclusive
  OneOrderPerCart
  NumbersGapFree
SYMMETRY MCSymmetry
CHECK_DEADLOCK FALSE
