SPECIFICATION FairSpec
CONSTANTS
  c1 = c1
  c2 = c2
  ana = ana
  w1 = w1
  w2 = w2
  good = good
  other = other
  None = None
  Commands = {c1, c2}
  Clientes = {ana}
  ClienteOf <- MCClienteOf
  Bodies = {good, other}
  Malformed = {other}
  Workers = {w1, w2}
  MaxAttempts = 2
  MaxStalls = 1
  MaxCarts = 2
  Faults = {"db"}
  MaxFaults = 1
PROPERTIES
  CommandSettles
CHECK_DEADLOCK FALSE
