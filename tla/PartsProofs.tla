------------------------------ MODULE PartsProofs ------------------------------
(***************************************************************************)
(* What is proved of each part holds of the parts side by side, which is   *)
(* the specification that TLC checks: a step of one part leaves the        *)
(* variables of the others alone.                                          *)
(***************************************************************************)
EXTENDS MCServices, FrontendProofs, ServicesProofs, LecturasProofs

(* A page that is not the part of the behaviour shows and holds nothing,    *)
(* whoever signs in on the page that is: the three share Identity.          *)
NoOrders == /\ pending = [u \in Users |-> {}]
            /\ card = [i \in Trackings |-> NoCard] /\ poll = [i \in Trackings |-> NoPoll]
NoScreen == screen = EmptyScreen /\ edit = NoEdit
NoConsultas == browse = EmptyBrowse /\ add = NoAdd /\ list = NoList /\ detail = NoDetail

PartsInv ==
  /\ SesionInv
  /\ IF part = "pedidos" THEN OrdersInv ELSE NoOrders
  /\ IF part = "screen" THEN ScreenInv ELSE NoScreen
  /\ IF part = "consultas" THEN ConsultasInv ELSE NoConsultas
  /\ UsuariosInv /\ CatalogInv /\ LogInv /\ GatewayInv /\ LecturasInv

LEMMA PartsStart == ServicesInit => PartsInv
<1> SUFFICES ASSUME ServicesInit PROVE PartsInv
  OBVIOUS
<1>1. SesionInv /\ OrdersInv /\ ScreenInv /\ ConsultasInv
  BY SesionStarts, OrdersInit, ScreenInitInv, ConsultasInitInv DEF ServicesInit
<1>2. NoOrders /\ NoScreen /\ NoConsultas
  BY DEF ServicesInit, PedidosInit, ScreenInit, ConsultasInit, NoOrders, NoScreen, NoConsultas
<1>3. UsuariosInv /\ CatalogInv /\ LogInv /\ GatewayInv /\ LecturasInv
  BY UsuariosInitInv, CatalogInitInv, LogInitInv, GatewayInitInv, LecturasStarts DEF ServicesInit
<1> QED
  BY <1>1, <1>2, <1>3 DEF PartsInv

(* Each part makes a step of its own or none.                               *)
LEMMA PartSteps ==
  ASSUME [ServicesNext]_servicesVars
  PROVE  /\ UNCHANGED part
         /\ [SesionNext]_sesionVars /\ [UsuariosNext]_usuariosVars /\ [CatalogNext]_catalogVars
         /\ [LogNext]_logVars /\ [GatewayNext]_gatewayVars /\ [LecturasNext]_lecturasVars
         /\ IF part = "pedidos" THEN [PedidosNext]_pedidosVars ELSE UNCHANGED pedidosOwn
         /\ IF part = "screen" THEN [ScreenNext]_screenVars ELSE UNCHANGED screenOwn
         /\ IF part = "consultas" THEN [ConsultasNext]_consultasVars ELSE UNCHANGED consultasOwn
<1>1. CASE UNCHANGED servicesVars
  BY <1>1 DEF servicesVars, pedidosOwn, screenOwn, consultasOwn, pedidosVars, screenVars,
              consultasVars, cartVars, catalogPart, ordersPart
<1>2. CASE ServicesNext
  BY <1>2 DEF ServicesNext, Only
<1> QED
  BY <1>1, <1>2

LEMMA PartsStep == PartsInv /\ [ServicesNext]_servicesVars => PartsInv'
<1> SUFFICES ASSUME PartsInv, [ServicesNext]_servicesVars PROVE PartsInv'
  OBVIOUS
<1>1. part' = part
  BY PartSteps
<1>2. SesionInv'
  BY PartSteps, SesionStep DEF PartsInv
<1>3. UsuariosInv' /\ CatalogInv' /\ LogInv'
  BY PartSteps, UsuariosStepInv, CatalogStepInv, LogStep DEF PartsInv
<1>4. GatewayInv' /\ LecturasInv'
  BY PartSteps, GatewayStepInv, LecturasStep DEF PartsInv
<1>5. IF part = "pedidos" THEN OrdersInv' ELSE NoOrders'
  <2>1. CASE part = "pedidos"
    BY <2>1, PartSteps, OrdersStep DEF PartsInv
  <2>2. CASE part # "pedidos"
    BY <2>2, PartSteps DEF PartsInv, NoOrders, NoPoll, NewPoll, pedidosOwn
  <2> QED
    BY <2>1, <2>2
<1>6. IF part = "screen" THEN ScreenInv' ELSE NoScreen'
  <2>1. CASE part = "screen"
    BY <2>1, PartSteps, ScreenStep DEF PartsInv
  <2>2. CASE part # "screen"
    BY <2>2, PartSteps DEF PartsInv, NoScreen, EmptyScreen, NoEdit, screenOwn, cartVars
  <2> QED
    BY <2>1, <2>2
<1>7. IF part = "consultas" THEN ConsultasInv' ELSE NoConsultas'
  <2>1. CASE part = "consultas"
    BY <2>1, PartSteps, ConsultasStep DEF PartsInv
  <2>2. CASE part # "consultas"
    BY <2>2, PartSteps DEF PartsInv, NoConsultas, EmptyBrowse, NoAdd, NoList, NoDetail,
       consultasOwn, catalogPart, ordersPart
  <2> QED
    BY <2>1, <2>2
<1> QED
  BY <1>1, <1>2, <1>3, <1>4, <1>5, <1>6, <1>7 DEF PartsInv

LEMMA PartsInvariance == ServicesSpec => []PartsInv
BY PartsStart, PartsStep, PTL DEF ServicesSpec

-----------------------------------------------------------------------------
(* Every part keeps its types and limits, beside the others.                *)
THEOREM PartsTyped == ServicesSpec => []ServicesTypeOK
<1>1. SesionInv => SesionTypeOK
  BY DEF SesionInv, ServerInv, TabInv, TabType, SesionTypeOK
<1>2. OrdersInv => PedidosTypeOK
  BY DEF OrdersInv, StoreInv, ViewInv, PollOK, CardType, PollType, PedidosTypeOK, IdentityTypeOK
<1>3. ConsultasInv => ConsultasTypeOK
  BY DEF ConsultasInv, PageInv, BrowseInv, BrowseType, AddType, ListInv, FetchType, ListType,
     DetailInv, DetailType, ConsultasTypeOK
<1>4. ScreenInv => ScreenTypeOK
  BY DEF ScreenInv
<1>5. GatewayInv => GatewayTypeOK
  BY DEF GatewayInv, RequestType, Places, Answers, States, GatewayTypeOK
<1>6. PartsInv => ServicesTypeOK
  BY <1>1, <1>2, <1>3, <1>4, <1>5
     DEF PartsInv, UsuariosInv, CatalogInv, LogInv, LecturasInv, ServicesTypeOK
<1> QED
  BY <1>6, PartsInvariance, PTL

(* The invariants of all parts hold together, whichever part of the system  *)
(* moves: the session, the pages of a cliente, usuario-, products- and      *)
(* notifications-service, the gateway and the lists.                        *)
THEOREM SideBySide ==
  ServicesSpec => [](/\ TabsAgree /\ OwnOrdersOnly /\ OwnCartOnly /\ ScreenCatchesUp /\ ShownAsAsked
                     /\ DeactivatedOnce /\ FinalPriceIsCurrent /\ LoggedOnce /\ AnswersAreTrue
                     /\ WalkShowsTheScope /\ CardsTellTheEnd)
<1>1. SesionInv => TabsAgree
  BY DEF SesionInv, TabInv
<1>2. ASSUME PartsInv PROVE OwnOrdersOnly /\ CardsTellTheEnd
  <2>1. CASE part = "pedidos"
    BY <1>2, <2>1
       DEF PartsInv, OrdersInv, StoreInv, ViewInv, Followed, OwnOrdersOnly, CardsTellTheEnd
  <2>2. CASE part # "pedidos"
    BY <1>2, <2>2 DEF PartsInv, NoOrders, NoPoll, NewPoll, OwnOrdersOnly, CardsTellTheEnd
  <2> QED
    BY <2>1, <2>2
<1>3. ASSUME PartsInv PROVE OwnCartOnly /\ ScreenCatchesUp
  <2>1. CASE part = "screen"
    BY <1>3, <2>1 DEF PartsInv, ScreenInv, OfTheUser, NotBehind, OwnCartOnly, ScreenCatchesUp
  <2>2. CASE part # "screen"
    BY <1>3, <2>2 DEF PartsInv, NoScreen, EmptyScreen, NoEdit, OwnCartOnly, ScreenCatchesUp
  <2> QED
    BY <2>1, <2>2
<1>4. ASSUME PartsInv PROVE ShownAsAsked
  <2>1. CASE part = "consultas"
    BY <1>4, <2>1 DEF PartsInv, ConsultasInv, BrowseInv, ShowsTheText, ListInv, DetailInv, ShownAsAsked
  <2>2. CASE part # "consultas"
    BY <1>4, <2>2 DEF PartsInv, NoConsultas, EmptyBrowse, NoAdd, NoList, NoDetail, ShownAsAsked
  <2> QED
    BY <2>1, <2>2
<1>5. CatalogInv => FinalPriceIsCurrent
  BY DEF CatalogInv
<1>6. LogInv => LoggedOnce
  BY DEF LogInv, GroupInv, LoggedOnce
<1>7. PartsInv => /\ TabsAgree /\ OwnOrdersOnly /\ OwnCartOnly /\ ScreenCatchesUp /\ ShownAsAsked
                  /\ DeactivatedOnce /\ FinalPriceIsCurrent /\ LoggedOnce /\ AnswersAreTrue
                  /\ WalkShowsTheScope /\ CardsTellTheEnd
  BY <1>1, <1>2, <1>3, <1>4, <1>5, <1>6, OffOnce, AnswersFollow, WalkFollows DEF PartsInv
<1> QED
  BY <1>7, PartsInvariance, PTL

(* No step of any part makes the orders page forget an accepted order, or a *)
(* vendedor sell before approval.                                           *)
THEOREM StepsSideBySide == ServicesSpec => TrackedUntilSettled /\ ApprovedFirst
<1>1. PartsInv /\ [ServicesNext]_servicesVars => [StaysTracked]_pedidosVars
  <2> SUFFICES ASSUME PartsInv, [ServicesNext]_servicesVars PROVE [StaysTracked]_pedidosVars
    OBVIOUS
  <2>1. CASE part = "pedidos"
    BY <2>1, PartSteps, StaysTrackedStep DEF PartsInv
  <2>2. CASE part # "pedidos"
    <3>1. pending' = pending
      BY <2>2, PartSteps DEF pedidosOwn
    <3> QED
      BY <3>1 DEF StaysTracked
  <2> QED
    BY <2>1, <2>2
<1>2. PartsInv /\ [ServicesNext]_servicesVars => [FirstApproved]_usuariosVars
  BY PartSteps, FirstApprovedStep DEF PartsInv
<1> QED
  BY <1>1, <1>2, PartsInvariance, PTL
     DEF ServicesSpec, TrackedUntilSettled, StaysTracked, ApprovedFirst, FirstApproved
=============================================================================
