SPECIFICATION Spec
CONSTANTS
  d1 = d1
  c1 = c1
  c2 = c2
  c3 = c3
  rosa = rosa
  pepe = pepe
  w1 = w1
  w2 = w2
  None = None
  Entregas = {d1}
  Sellers = {rosa}
  VendedorOf <- MCVendedorOf
  Commands = {c1}
  EntregaOf <- MCEntregaOf
  Workers = {w1}
  MaxAttempts = 3
  MaxStalls = 1
  Faults = {"error"}
  MaxFaults = 1
INVARIANTS
  RetryingIsRetried
CHECK_DEADLOCK FALSE
