SPECIFICATION Spec
CONSTANTS
  d1 = d1
  c1 = c1
  c2 = c2
  c3 = c3
  rosa = rosa
  pepe = pepe
  w1 = w1
  w2 = w2
  None = None
  Entregas = {d1}
  Sellers = {rosa}
  VendedorOf <- MCVendedorOf
  Commands = {c1, c2, c3}
  EntregaOf <- MCEntregaOf
  Workers = {w1, w2}
  MaxAttempts = 2
  MaxStalls = 1
  Faults = {}
  MaxFaults = 0
PROPERTIES
  EntregadaIsFinal
CHECK_DEADLOCK FALSE
