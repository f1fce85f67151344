------------------------------- MODULE Usuarios -------------------------------
(***************************************************************************)
(* usuario-service: vendedores and their estado, the invitations (links    *)
(* and QR codes) they hand out, the clientes registered for them and the   *)
(* cartera that relates the two, and the audit log. Handlers read, decide  *)
(* and write in separate queries, other handlers run in between, and the   *)
(* gateway may send any of these requests twice. An email stands for the   *)
(* account registered under it.                                            *)
(***************************************************************************)
EXTENDS Naturals, FiniteSets

CONSTANTS
  Sellers,      \* emails of vendedores
  Clientes,     \* emails of clientes
  Invitations,  \* bound: links and QR codes that may be created
  Requests,     \* slots for requests in flight
  NoSeller      \* no vendedor

ASSUME UsuariosAssumption == NoSeller \notin Sellers

VARIABLES
  estado,      \* VENDEDOR.estado, or "none"
  defaultOf,   \* CLIENTE.vendedor_id, or NoSeller: no account
  cartera,     \* RELACION_CARTERA, all activo
  invitation,  \* LINK_INVITACION and QR_CODE rows
  handler,     \* the requests in flight
  audit        \* AUDIT_LOG: how many rows of each kind there are for a target

usuariosVars == <<estado, defaultOf, cartera, invitation, handler, audit>>

Estados == {"pendiente", "activo", "inactivo", "bloqueado"}
NoInvitation == [by |-> NoSeller, activo |-> FALSE]
Accounts == Sellers \cup Clientes
NoTarget == NoSeller

(* What the handler is about: an account, a vendedor, an estado, a link. *)
Idle == [pc |-> "idle", about |-> NoTarget, seller |-> NoSeller,
         to |-> "none", link |-> NoTarget]

UsuariosInit ==
  /\ estado = [v \in Sellers |-> "none"]
  /\ defaultOf = [c \in Clientes |-> NoSeller]
  /\ cartera = {}
  /\ invitation = [i \in Invitations |-> NoInvitation]
  /\ handler = [r \in Requests |-> Idle]
  /\ audit = [i \in Invitations |-> 0]

Go(r, h) == handler' = [handler EXCEPT ![r] = h]
Start(r, h) == handler[r].pc = "idle" /\ Go(r, h)
End(r) == Go(r, Idle)
rowVars == <<estado, defaultOf, cartera, invitation>>

-----------------------------------------------------------------------------
(* Vendedores *)

(* register(): AUTH_USER.email is unique, and an email that is taken gets    *)
(* the same answer and nothing more.                                        *)
Register(v) ==
  /\ estado[v] = "none"
  /\ estado' = [estado EXCEPT ![v] = "pendiente"]
  /\ UNCHANGED <<defaultOf, cartera, invitation, handler, audit>>

(* Faulty variant: a pending vendedor may be refused, too. *)
TransitionsWithRefusal(from) ==
  CASE from = "pendiente" -> {"activo", "inactivo"}
    [] from = "activo" -> {"inactivo", "bloqueado"}
    [] OTHER -> {"activo"}

VALID_TRANSITIONS(from) ==
  CASE from = "pendiente" -> {"activo"}
    [] from = "activo" -> {"inactivo", "bloqueado"}
    [] from = "inactivo" -> {"activo"}
    [] from = "bloqueado" -> {"inactivo"}
    [] OTHER -> {}

(* changeEstado(): the transition is checked on the row read, *)
BeginChangeEstado(r, v, to) ==
  /\ to \in VALID_TRANSITIONS(estado[v])
  /\ Start(r, [Idle EXCEPT !.pc = "estado", !.about = v, !.to = to])
  /\ UNCHANGED <<rowVars, audit>>

(* and written whatever the row is by then. *)
ChangeEstado(r) ==
  /\ handler[r].pc = "estado"
  /\ estado' = [estado EXCEPT ![handler[r].about] = handler[r].to]
  /\ End(r)
  /\ UNCHANGED <<defaultOf, cartera, invitation, audit>>

(* updateMyProfile(): a logo needs an active vendedor when the row is read,  *)
(* not when it is written. The fields of profiles are left out: no handler   *)
(* depends on them.                                                         *)
BeginLogo(r, v) ==
  /\ estado[v] = "activo"
  /\ Start(r, [Idle EXCEPT !.pc = "logo", !.about = v])
  /\ UNCHANGED <<rowVars, audit>>

WriteLogo(r) == handler[r].pc = "logo" /\ End(r) /\ UNCHANGED <<rowVars, audit>>

-----------------------------------------------------------------------------
(* Invitations: LinkInvitacionService and QrCodesService *)

(* create(): not for an inactive or blocked vendedor. *)
BeginInvite(r, v) ==
  /\ estado[v] \in {"pendiente", "activo"}
  /\ Start(r, [Idle EXCEPT !.pc = "invite", !.seller = v])
  /\ UNCHANGED <<rowVars, audit>>

(* A token that is taken is drawn again, up to three times. *)
Invite(r, i) ==
  /\ handler[r].pc = "invite"
  /\ invitation[i] = NoInvitation
  /\ invitation' = [invitation EXCEPT ![i] = [by |-> handler[r].seller, activo |-> TRUE]]
  /\ End(r)
  /\ UNCHANGED <<estado, defaultOf, cartera, audit>>

(* Faulty variant: reads the row first and updates it by its id later. *)
SwitchOffAnyway(i) == TRUE

(* deactivateInternal(): updateMany() where activo. *)
StillActive(i) == invitation[i].activo

(* A deactivation by the vendedor v, or by the super admin (v = NoSeller).   *)
BeginDeactivate(r, v, i) ==
  /\ invitation[i].by \in IF v = NoSeller THEN Sellers ELSE {v}
  /\ Start(r, [Idle EXCEPT !.pc = "deactivate", !.link = i])
  /\ UNCHANGED <<rowVars, audit>>

Deactivate(r) ==
  LET i == handler[r].link IN
  /\ handler[r].pc = "deactivate"
  /\ IF StillActive(i)
     THEN /\ invitation' = [invitation EXCEPT ![i].activo = FALSE]
          /\ Go(r, [handler[r] EXCEPT !.pc = "audit"])
     ELSE End(r) /\ UNCHANGED invitation
  /\ UNCHANGED <<estado, defaultOf, cartera, audit>>

(* record(LINK_DEACTIVATED or QR_DEACTIVATED). The rows of the other actions *)
(* are left out: no other handler depends on them.                          *)
Record(r) ==
  /\ handler[r].pc = "audit"
  /\ audit' = [audit EXCEPT ![handler[r].link] = @ + 1]
  /\ End(r)
  /\ UNCHANGED rowVars

-----------------------------------------------------------------------------
(* Clientes *)

(* registerViaLink(): the link is usable, and the email is free. A QR code   *)
(* is an invitation nobody registers with; so is a link that has expired.   *)
BeginJoin(r, c, i) ==
  /\ invitation[i].activo
  /\ defaultOf[c] = NoSeller
  /\ Start(r, [Idle EXCEPT !.pc = "join", !.about = c, !.seller = invitation[i].by, !.link = i])
  /\ UNCHANGED <<rowVars, audit>>

(* createClienteUser(): one transaction, for an email that is free. *)
CreateCliente(c, v) ==
  /\ defaultOf' = [defaultOf EXCEPT ![c] = v]
  /\ cartera' = cartera \cup {<<v, c>>}

(* The email may be taken by now; the link is switched off whatever its      *)
(* state is.                                                                *)
Join(r) ==
  LET h == handler[r] IN
  /\ h.pc = "join"
  /\ IF defaultOf[h.about] # NoSeller THEN UNCHANGED <<defaultOf, cartera, invitation>>
     ELSE /\ CreateCliente(h.about, h.seller)
          /\ invitation' = [invitation EXCEPT ![h.link].activo = FALSE]
  /\ End(r)
  /\ UNCHANGED <<estado, audit>>

(* What the next three check first stays true, so check and write are one   *)
(* step. registerByVendor():                                                *)
Enrol(c, v) ==
  /\ estado[v] # "none" /\ defaultOf[c] = NoSeller
  /\ CreateCliente(c, v)
  /\ UNCHANGED <<estado, invitation, handler, audit>>

(* The transaction of reassign(): the old relation stays. *)
Move(c, v) ==
  /\ defaultOf' = [defaultOf EXCEPT ![c] = v]
  /\ cartera' = cartera \cup {<<v, c>>}

Reassign(c, v) ==
  /\ defaultOf[c] # NoSeller /\ estado[v] # "none"
  /\ Move(c, v)
  /\ UNCHANGED <<estado, invitation, handler, audit>>

(* addProvider(). *)
AddProvider(c, v) ==
  /\ defaultOf[c] # NoSeller /\ estado[v] # "none"
  /\ cartera' = cartera \cup {<<v, c>>}
  /\ UNCHANGED <<estado, defaultOf, invitation, handler, audit>>

(* A query fails or the process dies: the handler stops where it is, and a  *)
(* change that was written stays, with or without its audit row.            *)
Fail(r) == handler[r].pc # "idle" /\ End(r) /\ UNCHANGED <<rowVars, audit>>

UsuariosNext ==
  \/ \E v \in Sellers :
       \/ Register(v)
       \/ \E c \in Clientes : Enrol(c, v) \/ Reassign(c, v) \/ AddProvider(c, v)
  \/ \E r \in Requests :
       \/ ChangeEstado(r) \/ WriteLogo(r) \/ Deactivate(r) \/ Record(r) \/ Join(r) \/ Fail(r)
       \/ \E v \in Sellers :
            \/ BeginInvite(r, v) \/ BeginLogo(r, v)
            \/ \E to \in Estados : BeginChangeEstado(r, v, to)
       \/ \E i \in Invitations :
            \/ Invite(r, i)
            \/ \E c \in Clientes : BeginJoin(r, c, i)
            \/ \E v \in Sellers \cup {NoSeller} : BeginDeactivate(r, v, i)

UsuariosSpec == UsuariosInit /\ [][UsuariosNext]_usuariosVars

-----------------------------------------------------------------------------
(* Properties *)

Steps == {"idle", "estado", "logo", "invite", "deactivate", "audit", "join"}

UsuariosTypeOK ==
  /\ estado \in [Sellers -> Estados \cup {"none"}]
  /\ defaultOf \in [Clientes -> Sellers \cup {NoSeller}]
  /\ cartera \subseteq Sellers \X Clientes
  /\ invitation \in [Invitations -> [by : Sellers \cup {NoSeller}, activo : BOOLEAN]]
  /\ audit \in [Invitations -> Nat]
  /\ handler \in [Requests -> [pc : Steps, about : Accounts \cup {NoTarget},
                               seller : Sellers \cup {NoSeller},
                               to : Estados \cup {"none"}, link : Invitations \cup {NoTarget}]]

(* A registered vendedor is first of all approved: however changeEstado()   *)
(* calls overlap, `pendiente` is left only for `activo`, and for good, and  *)
(* no logo is written before that, not even by an edit that is late.        *)
ApprovedFirst ==
  [][/\ \A v \in Sellers : estado'[v] # estado[v] =>
          /\ estado[v] = "pendiente" => estado'[v] = "activo"
          /\ estado'[v] = "pendiente" => estado[v] = "none"
     /\ \A r \in Requests : WriteLogo(r) => estado[handler[r].about] \notin {"none", "pendiente"}
    ]_usuariosVars

(* However deactivations and registrations race for an invitation, one at   *)
(* most is told to have switched it off, and it never comes back.           *)
DeactivatedOnce ==
  \A i \in Invitations :
    LET winners == {r \in Requests : handler[r].pc = "audit" /\ handler[r].link = i} IN
      /\ audit[i] + Cardinality(winners) <= 1
      /\ audit[i] > 0 \/ winners # {} => ~invitation[i].activo
=============================================================================
