SPECIFICATION ServicesSpec
CONSTANTS
  ana = ana
  luis = luis
  norte = norte
  sur = sur
  Tabs = {t1, t2}
  MaxTokens = 3
  LateRefreshes = TRUE
  NoSession = NoSession
  Users = {ana, luis}
  Nobody = Nobody
  Trackings = {o1, o2}
  MaxPollAttempts = 3
  GraceAttempts = 1
  NoCard = NoCard
  Vendedores = {norte, sur}
  Offered <- OfferedToEach
  MaxVersions = 2
  NoProvider = NoProvider
  NoCart = NoCart
  Shops = {norte, sur}
  Texts = {todo, agua}
  NoText = todo
  Pages = 2
  Orders = {o1, o2}
  MaxOrders = 1
  Nothing = Nothing
  Sellers = {norte, sur}
  Clientes = {ana}
  Invitations = {i1}
  Requests = {r1, r2}
  NoSeller = NoSeller
  Owners = {norte, sur}
  Taxa = {c1}
  Items = {p1}
  Values = {0, 1}
  CallSlots = {r1, r2}
  NoOwner = NoOwner
  Pollers = {n1, n2}
  Callers = {n2}
  RequestIds = {q1}
  MaxEntries = 2
  MaxDeaths = 1
  Calls = {h1}
  Root = Root
  Vendors = {norte, sur}
  Buyers = {ana}
  Guest = Guest
  MaxRows = 3
  RowOwner <- OwnerOfRow
  RowBuyer <- BuyerOfRow
  Limit = 1
  Unnamed = Unnamed
INVARIANTS ServicesTypeOK TabsAgree OwnOrdersOnly OwnCartOnly ScreenCatchesUp ShownAsAsked
  DeactivatedOnce FinalPriceIsCurrent LoggedOnce AnswersAreTrue
  WalkShowsTheScope
PROPERTIES ReadySettles TrackedUntilSettled ScreenSettles NobodyWaits ApprovedFirst LogCatchesUp
CHECK_DEADLOCK FALSE
