SPECIFICATION BackendSpec
CONSTANTS
  agua = agua
  d1 = d1
  c1 = c1
  c2 = c2
  c3 = c3
  rosa = rosa
  pepe = pepe
  w1 = w1
  w2 = w2
  o1 = o1
  ana = ana
  luis = luis
  root = root
  norte = norte
  sur = sur
  w3 = w3
  NoProduct = NoProduct
  None = None
  Nobody = Nobody
  Products = {agua}
  Handlers = {w1, w2}
  CartIds = {1, 2}
  MaxStock = 2
  StockChanges = TRUE
  TTL = 1
  MaxTime = 2
  MaxQuantity = 2
  Orders = {o1}
  Users = {ana, luis, rosa, pepe, root}
  Vendedores = {norte, sur}
  RoleOf <- MCRoleOf
  ProfileOf <- MCProfileOf
  OwnerOf <- MCOwnerOf
  SellerOf <- MCSellerOf
  Requests = {w1, w2, w3}
  Entregas = {d1}
  Sellers = {rosa, pepe}
  VendedorOf <- MCVendedorOf
  Commands = {c1, c2}
  EntregaOf <- MCEntregaOf
  Workers = {w1, w2}
  MaxAttempts = 2
  MaxStalls = 1
  Faults = {"crash", "stall", "error"}
  MaxFaults = 2
INVARIANTS
  BackendTypeOK OneOpenCart OrderedOnce HistoryTellsEstado ConfirmedBeatsCliente
  ActsOnce TruthfulReport
PROPERTIES
  UpdateNeverResurrects AddNeverLowers ImplementsOrderTrail
SYMMETRY BackendSymmetry
CHECK_DEADLOCK FALSE
