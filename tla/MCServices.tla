------------------------------ MODULE MCServices ------------------------------
(***************************************************************************)
(* The parts of the system that meet the orders only through the gateway,  *)
(* checked side by side: every behaviour is one of a single part, the      *)
(* others stay in their initial states, so the state space is the sum of   *)
(* theirs.                                                                 *)
(***************************************************************************)
EXTENDS Sesion, Pedidos, CartScreen, Consultas, Usuarios, Catalog, ActivityLog, Gateway, Lecturas

VARIABLE part  \* the part of this behaviour

Parts == {"sesion", "pedidos", "screen", "consultas", "usuarios", "catalog", "log", "gateway", "lecturas"}

pedidosOwn == <<job, submit, pending, card, poll>>
screenOwn == <<server, provider, home, cartVars>>
consultasOwn == <<catalogPart, ordersPart>>
servicesVars == <<part, sesionVars, idVars, pedidosOwn, screenOwn, consultasOwn,
                  usuariosVars, catalogVars, logVars, gatewayVars, lecturasVars>>

ServicesInit ==
  /\ part \in Parts
  /\ SesionInit /\ PedidosInit /\ ScreenInit /\ ConsultasInit
  /\ UsuariosInit /\ CatalogInit /\ LogInit /\ GatewayInit
  /\ LecturasInit
  /\ part # "sesion" => stored = NoSession
  /\ part # "lecturas" => family = "orders"

Only(p) == part = p /\ UNCHANGED part

ServicesNext ==
  \/ /\ Only("sesion") /\ SesionNext
     /\ UNCHANGED <<idVars, pedidosOwn, screenOwn, consultasOwn, usuariosVars, catalogVars,
                    logVars, gatewayVars, lecturasVars>>
  \/ /\ Only("pedidos") /\ PedidosNext
     /\ UNCHANGED <<sesionVars, screenOwn, consultasOwn, usuariosVars, catalogVars, logVars, gatewayVars, lecturasVars>>
  \/ /\ Only("screen") /\ ScreenNext
     /\ UNCHANGED <<sesionVars, pedidosOwn, consultasOwn, usuariosVars, catalogVars, logVars, gatewayVars, lecturasVars>>
  \/ /\ Only("consultas") /\ ConsultasNext
     /\ UNCHANGED <<sesionVars, pedidosOwn, screenOwn, usuariosVars, catalogVars, logVars, gatewayVars, lecturasVars>>
  \/ /\ Only("usuarios") /\ UsuariosNext
     /\ UNCHANGED <<sesionVars, idVars, pedidosOwn, screenOwn, consultasOwn, catalogVars, logVars, gatewayVars, lecturasVars>>
  \/ /\ Only("catalog") /\ CatalogNext
     /\ UNCHANGED <<sesionVars, idVars, pedidosOwn, screenOwn, consultasOwn, usuariosVars, logVars, gatewayVars, lecturasVars>>
  \/ /\ Only("log") /\ LogNext
     /\ UNCHANGED <<sesionVars, idVars, pedidosOwn, screenOwn, consultasOwn, usuariosVars, catalogVars, gatewayVars, lecturasVars>>
  \/ /\ Only("gateway") /\ GatewayNext
     /\ UNCHANGED <<sesionVars, idVars, pedidosOwn, screenOwn, consultasOwn, usuariosVars, catalogVars, logVars, lecturasVars>>
  \/ /\ Only("lecturas") /\ LecturasNext
     /\ UNCHANGED <<sesionVars, idVars, pedidosOwn, screenOwn, consultasOwn, usuariosVars, catalogVars,
                    logVars, gatewayVars>>

(* SesionFairness, ScreenFairness, ConsultasFairness and LogFairness, each for its own part. *)
ServicesFairness ==
  /\ \A t \in Tabs :
       /\ WF_sesionVars(part = "sesion" /\ RestoreStep(t))
       /\ WF_sesionVars(part = "sesion" /\ ProfileAnswered(t))
       /\ WF_sesionVars(part = "sesion" /\ StorageEvent(t))
  /\ WF_screenVars(part = "screen" /\ ReadArrives)
  /\ WF_screenVars(part = "screen" /\ EditSettles)
  /\ WF_screenVars(part = "screen" /\ AbandonedPageLeft)
  /\ WF_consultasVars(part = "consultas" /\ CatalogAnswered)
  /\ WF_consultasVars(part = "consultas" /\ Pause)
  /\ WF_consultasVars(part = "consultas" /\ AddAnswered)
  /\ WF_consultasVars(part = "consultas" /\ ListArrives)
  /\ WF_consultasVars(part = "consultas" /\ DetailArrives)
  /\ \A w \in Pollers : WF_logVars(part = "log" /\ PollStep(w))
  /\ \A e \in Entries : WF_logVars(part = "log" /\ Age(e))

ServicesSpec == ServicesInit /\ [][ServicesNext]_servicesVars /\ ServicesFairness

(* Every part keeps its types. *)
ServicesTypeOK ==
  /\ SesionTypeOK
  /\ part = "pedidos" => PedidosTypeOK
  /\ part = "screen" => ScreenTypeOK
  /\ part = "consultas" => ConsultasTypeOK
  /\ UsuariosTypeOK /\ CatalogTypeOK /\ LogTypeOK /\ GatewayTypeOK
  /\ LecturasTypeOK

(* Two clientes; luis buys from the vendedor sur only. *)
CONSTANTS ana, luis, norte, sur
OfferedToEach == [u \in {ana, luis} |-> IF u = ana THEN {norte, sur} ELSE {sur}]

(* Three rows: norte's, sur's and norte's again, of orders that are all ana's. *)
OwnerOfRow == <<norte, sur, norte>>
BuyerOfRow == [x \in 1..3 |-> ana]
=============================================================================
