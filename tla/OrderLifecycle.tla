---------------------------- MODULE OrderLifecycle ----------------------------
(***************************************************************************)
(* The status of a placed order in orders-service. A request reads the     *)
(* order, asks usuario-service who the caller is, checks the move against  *)
(* what it has read, and only then writes: between the read and the write  *)
(* other requests run, on this replica or on another one. The write is a   *)
(* compare-and-set of the estado and one row of history in a transaction.  *)
(***************************************************************************)
EXTENDS Naturals, Sequences

CONSTANTS
  Orders,
  Users,      \* AUTH_USER ids
  Vendedores, \* VENDEDOR ids
  RoleOf,     \* [Users -> Roles], from the JWT
  ProfileOf,  \* [Users -> Vendedores \cup {Nobody}]: usuario-service's answer
  OwnerOf,    \* [Orders -> Users]: usuario_id of the order
  SellerOf,   \* [Orders -> Vendedores]: vendedor_id of the order
  Requests,   \* slots for requests in flight
  Nobody      \* no user, no order, no vendedor

Roles == {"CLIENTE", "VENDEDOR", "SUPER_ADMIN"}

ASSUME ActorsAssumption ==
  /\ RoleOf \in [Users -> Roles]
  /\ ProfileOf \in [Users -> Vendedores \cup {Nobody}]
  /\ OwnerOf \in [Orders -> Users]
  /\ SellerOf \in [Orders -> Vendedores]
  /\ Nobody \notin Orders \cup Users \cup Vendedores

VARIABLES
  estado,   \* ORDER.estado of each order, "NONE" before it is placed
  history,  \* its ORDER_HISTORY rows; "by" is kept for the properties only
  req       \* the requests in flight

lifecycleVars == <<estado, history, req>>

Estados == {"PENDIENTE", "CONFIRMADO", "EN_CAMINO", "ENTREGADO", "CANCELADO", "VENCIDO"}

ORDER_TRANSITIONS ==
  [e \in Estados |->
     CASE e = "PENDIENTE"  -> {"CONFIRMADO", "CANCELADO"}
       [] e = "CONFIRMADO" -> {"EN_CAMINO", "CANCELADO"}
       [] e = "EN_CAMINO"  -> {"ENTREGADO", "CANCELADO"}
       [] OTHER            -> {}]

Row(from, to, by) == [from |-> from, to |-> to, by |-> by]
IdleReq == [pc |-> "idle", user |-> Nobody, order |-> Nobody, seen |-> "NONE", next |-> "NONE"]

LifecycleInit ==
  /\ estado = [o \in Orders |-> "NONE"]
  /\ history = [o \in Orders |-> << >>]
  /\ req = [r \in Requests |-> IdleReq]

(* The end of a checkout (see OrderCommand): the order with its first row. *)
Place(o) ==
  /\ estado[o] = "NONE"
  /\ estado' = [estado EXCEPT ![o] = "PENDIENTE"]
  /\ history' = [history EXCEPT ![o] = <<Row("NONE", "PENDIENTE", OwnerOf[o])>>]
  /\ UNCHANGED req

Start(r, pc, u, o, next) ==
  /\ req[r].pc = "idle"
  /\ estado[o] # "NONE"
  /\ req' = [req EXCEPT ![r] = [pc |-> pc, user |-> u, order |-> o,
                                seen |-> estado[o], next |-> next]]
  /\ UNCHANGED <<estado, history>>

(* updateStatus() and confirm(): requireOrder(), then the role check; only  *)
(* a VENDEDOR gets as far as the call to usuario-service.                   *)
RequestStatus(r, u, o, next) ==
  /\ RoleOf[u] = "VENDEDOR"
  /\ Start(r, "authorise", u, o, next)

(* Faulty variant: the vendedor's profile is not compared with the order's. *)
AnyVendedor(u, o) == TRUE

IsVendedorDomainMatch(u, o) == ProfileOf[u] = SellerOf[o]

(* assertLifecycleWriter() after the answer, then assertOrderTransition()   *)
(* on the estado read before the call.                                      *)
Authorise(r) ==
  /\ req[r].pc = "authorise"
  /\ IsVendedorDomainMatch(req[r].user, req[r].order)
  /\ req[r].next \in ORDER_TRANSITIONS[req[r].seen]
  /\ req' = [req EXCEPT ![r].pc = "write"]
  /\ UNCHANGED <<estado, history>>

(* usuario-service denies, times out or is down, or the move is not allowed. *)
Deny(r) ==
  /\ req[r].pc = "authorise"
  /\ req' = [req EXCEPT ![r] = IdleReq]
  /\ UNCHANGED <<estado, history>>

(* Faulty variant: a cliente may cancel whatever the seller may. *)
CancelUntilDelivered(o) == "CANCELADO" \in ORDER_TRANSITIONS[estado[o]]

ClienteCanCancel(o) == estado[o] = "PENDIENTE"

(* cancelOwnOrder(): all checks follow the read at once. *)
RequestCancel(r, u, o) ==
  /\ estado[o] # "NONE"
  /\ RoleOf[u] = "CLIENTE" /\ OwnerOf[o] = u
  /\ ClienteCanCancel(o)
  /\ Start(r, "write", u, o, "CANCELADO")

(* The row still has the estado that the request has read. *)
Unchanged(r) == estado[req[r].order] = req[r].seen

(* Faulty variant: the history row is written outside the transaction, and lost. *)
HistoryLost(r) == UNCHANGED history

AppendHistory(r) ==
  history' = [history EXCEPT ![req[r].order] =
                Append(@, Row(req[r].seen, req[r].next, req[r].user))]

(* updateStatus() of the repository: compare-and-set and history row. *)
Write(r) ==
  /\ req[r].pc = "write"
  /\ Unchanged(r)
  /\ estado' = [estado EXCEPT ![req[r].order] = req[r].next]
  /\ AppendHistory(r)
  /\ req' = [req EXCEPT ![r] = IdleReq]

(* The estado has changed since the read ("Order status changed before      *)
(* update"), the transaction fails, or the process dies: nothing is written. *)
WriteMissed(r) ==
  /\ req[r].pc = "write"
  /\ req' = [req EXCEPT ![r] = IdleReq]
  /\ UNCHANGED <<estado, history>>

LifecycleNext ==
  \/ \E o \in Orders : Place(o)
  \/ \E r \in Requests :
       \/ \E u \in Users, o \in Orders : RequestCancel(r, u, o)
       \/ \E u \in Users, o \in Orders, e \in Estados : RequestStatus(r, u, o, e)
       \/ Authorise(r) \/ Deny(r) \/ Write(r) \/ WriteMissed(r)

LifecycleSpec == LifecycleInit /\ [][LifecycleNext]_lifecycleVars

-----------------------------------------------------------------------------
(* Properties *)

RowType == [from : Estados \cup {"NONE"}, to : Estados, by : Users]
ReqType == [pc : {"idle", "authorise", "write"}, user : Users \cup {Nobody},
            order : Orders \cup {Nobody}, seen : Estados \cup {"NONE"},
            next : Estados \cup {"NONE"}]

(* Every part of the state keeps its type, and no order has more than four  *)
(* rows of history, however many requests race for it.                      *)
LifecycleTypeOK ==
  /\ estado \in [Orders -> Estados \cup {"NONE"}]
  /\ history \in [Orders -> Seq(RowType)]
  /\ req \in [Requests -> ReqType]
  /\ \A o \in Orders : Len(history[o]) <= 4

(* The last row of the history tells the order's present estado: no move    *)
(* is lost from the history and none in it was not made.                    *)
HistoryTellsEstado ==
  \A o \in Orders :
    estado[o] = IF history[o] = << >> THEN "NONE" ELSE history[o][Len(history[o])].to

(* A delivered or cancelled order stays so, whatever requests had read it   *)
(* before.                                                                  *)
TerminalIsFinal ==
  [][\A o \in Orders :
       estado[o] \in {"ENTREGADO", "CANCELADO"} => estado'[o] = estado[o]]_estado

(* Once the seller has confirmed, no cancel of the cliente takes effect, not *)
(* even one that was let through before the confirmation.                   *)
ConfirmedBeatsCliente ==
  \A o \in Orders : \A i \in 1..Len(history[o]) :
    RoleOf[history[o][i].by] = "CLIENTE" =>
      i = 1 \/ (i = 2 /\ history[o][i].to = "CANCELADO")

OT == INSTANCE OrderTrail WITH
  trail <- history,
  Owner <- OwnerOf,
  New <- "PENDIENTE",
  Sellers <- [o \in Orders |->
                {u \in Users : RoleOf[u] = "VENDEDOR" /\ ProfileOf[u] = SellerOf[o]}],
  SellerMoves <- {m \in Estados \X Estados : m[2] \in ORDER_TRANSITIONS[m[1]]},
  OwnerMoves <- {<<"PENDIENTE", "CANCELADO">>}

(* Racing requests look like one move at a time, each from where the last   *)
(* one ended and by someone who may make it.                                *)
ImplementsOrderTrail == OT!Spec
=============================================================================
