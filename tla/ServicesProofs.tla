---------------------------- MODULE ServicesProofs ----------------------------
(***************************************************************************)
(* Proofs about Usuarios, Catalog, ActivityLog and Gateway, in this order, *)
(* for any number of vendedores, clientes, invitations, products, entries, *)
(* instances and requests in flight.                                       *)
(***************************************************************************)
EXTENDS Usuarios, Catalog, ActivityLog, Gateway, FiniteSetTheorems, TLAPS

-----------------------------------------------------------------------------
(***************************************************************************)
(* Usuarios                                                                *)
(***************************************************************************)

(* What a request in flight has established, and what nothing takes back.   *)
HandlerInv ==
  \A r \in Requests :
    LET h == handler[r] IN
      /\ h.pc = "estado" => /\ h.about \in Sellers /\ h.to \in Estados \ {"pendiente"}
                            /\ estado[h.about] # "none"
                            /\ estado[h.about] = "pendiente" => h.to = "activo"
      /\ h.pc = "logo" => h.about \in Sellers /\ estado[h.about] \notin {"none", "pendiente"}
      /\ h.pc = "invite" => h.seller \in Sellers
      /\ h.pc \in {"deactivate", "audit", "join"} =>
           h.link \in Invitations /\ invitation[h.link].by \in Sellers
      /\ h.pc = "join" => h.about \in Clientes /\ h.seller \in Sellers

(* The requests that have switched an invitation off and not yet said so.   *)
Won(r, i) == handler[r].pc = "audit" /\ handler[r].link = i

(* An invitation has one deactivation at most, recorded or about to be, and *)
(* is not handed out a second time.                                         *)
OffInv ==
  \A i \in Invitations :
    /\ audit[i] \in {0, 1}
    /\ \A r, s \in Requests : Won(r, i) /\ Won(s, i) => r = s
    /\ \A r \in Requests : Won(r, i) => audit[i] = 0 /\ ~invitation[i].activo
    /\ audit[i] = 1 => ~invitation[i].activo /\ invitation[i].by \in Sellers

(* An invitation that can be used was handed out by a vendedor.             *)
ActiveIsOwned == \A i \in Invitations : invitation[i].activo => invitation[i].by \in Sellers

UsuariosInv == UsuariosTypeOK /\ HandlerInv /\ OffInv /\ ActiveIsOwned

-----------------------------------------------------------------------------
LEMMA UsuariosInitInv == UsuariosInit => UsuariosInv
BY DEF UsuariosInit, UsuariosInv, UsuariosTypeOK, HandlerInv, OffInv, ActiveIsOwned, Won, Idle, NoInvitation, Estados,
       Steps, NoTarget, Accounts

(* Changes of an estado keep to the transitions.                            *)
LEMMA EstadoKeeps ==
  ASSUME UsuariosInv, NEW r \in Requests, ChangeEstado(r)
  PROVE  UsuariosInv'
<1> DEFINE v == handler[r].about
           to == handler[r].to
<1>1. v \in Sellers /\ to \in Estados \ {"pendiente"}
  BY DEF UsuariosInv, HandlerInv, ChangeEstado
<1>2. /\ estado' = [estado EXCEPT ![v] = to] /\ handler' = [handler EXCEPT ![r] = Idle]
      /\ UNCHANGED <<defaultOf, cartera, invitation, audit>>
  BY DEF ChangeEstado, End, Go
<1>3. UsuariosTypeOK'
  BY <1>1, <1>2 DEF UsuariosInv, UsuariosTypeOK, Idle, Steps, Estados, NoTarget, Accounts
<1>4. \A s \in Sellers : /\ estado[s] # "none" => estado'[s] # "none"
                         /\ estado'[s] = "pendiente" => estado[s] = "pendiente"
  BY <1>1, <1>2 DEF UsuariosInv, UsuariosTypeOK, Estados
<1>5. \A s \in Requests : handler'[s] = handler[s] \/ handler'[s].pc = "idle"
  BY <1>2 DEF UsuariosInv, UsuariosTypeOK, Idle
<1>6. HandlerInv'
  BY <1>2, <1>4, <1>5 DEF UsuariosInv, HandlerInv
<1>7. OffInv' /\ ActiveIsOwned'
  BY <1>2, <1>5 DEF UsuariosInv, OffInv, Won, ActiveIsOwned
<1> QED
  BY <1>3, <1>6, <1>7 DEF UsuariosInv

(* A step that starts or ends a request, and changes no row.                *)
LEMMA RequestsOnly ==
  ASSUME UsuariosInv, UNCHANGED <<rowVars, audit>>, UsuariosTypeOK',
         NEW r \in Requests, \A s \in Requests \ {r} : handler'[s] = handler[s],
         LET h == handler'[r] IN
           /\ h.pc \in {"idle", "estado", "logo", "invite", "deactivate", "join"}
           /\ h.pc = "estado" => /\ h.about \in Sellers /\ h.to \in Estados \ {"pendiente"}
                                 /\ estado[h.about] # "none"
                                 /\ estado[h.about] = "pendiente" => h.to = "activo"
           /\ h.pc = "logo" => h.about \in Sellers /\ estado[h.about] \notin {"none", "pendiente"}
           /\ h.pc = "invite" => h.seller \in Sellers
           /\ h.pc \in {"deactivate", "join"} =>
                h.link \in Invitations /\ invitation[h.link].by \in Sellers
           /\ h.pc = "join" => h.about \in Clientes /\ h.seller \in Sellers
  PROVE  UsuariosInv'
<1>1. HandlerInv'
  BY DEF UsuariosInv, HandlerInv, rowVars
<1>2. OffInv' /\ ActiveIsOwned'
  BY DEF UsuariosInv, OffInv, Won, ActiveIsOwned, rowVars
<1> QED
  BY <1>1, <1>2 DEF UsuariosInv

(* A request that ends without a write.                                     *)
LEMMA EndKeeps ==
  ASSUME UsuariosInv, UNCHANGED <<rowVars, audit>>, NEW r \in Requests, Go(r, Idle)
  PROVE  UsuariosInv'
<1>1. handler'[r] = Idle /\ \A s \in Requests \ {r} : handler'[s] = handler[s]
  BY DEF UsuariosInv, UsuariosTypeOK, Go
<1>2. UsuariosTypeOK'
  BY DEF UsuariosInv, UsuariosTypeOK, rowVars, Go, Idle, Steps, Estados, NoTarget, Accounts
<1> QED
  BY <1>1, <1>2, RequestsOnly DEF Idle

(* The steps that start a request have checked what HandlerInv asks.        *)
LEMMA StartKeeps ==
  ASSUME UsuariosInv, NEW r \in Requests, NEW v \in Sellers,
         \/ \E to \in Estados : BeginChangeEstado(r, v, to)
         \/ BeginLogo(r, v)
         \/ BeginInvite(r, v)
  PROVE  UsuariosInv'
<1> USE DEF Idle, Estados, Steps, NoTarget, Accounts
<1>0. \A h : h \in [pc : Steps, about : Accounts \cup {NoTarget}, seller : Sellers \cup {NoSeller},
                     to : Estados \cup {"none"}, link : Invitations \cup {NoTarget}]
             /\ UNCHANGED <<rowVars, audit>> /\ Go(r, h)
             => /\ UsuariosTypeOK' /\ handler'[r] = h
                /\ \A s \in Requests \ {r} : handler'[s] = handler[s]
  BY DEF UsuariosInv, UsuariosTypeOK, rowVars, Go
<1>1. ASSUME NEW to \in Estados, BeginChangeEstado(r, v, to)
      PROVE  UsuariosInv'
  <2> DEFINE h == [Idle EXCEPT !.pc = "estado", !.about = v, !.to = to]
  <2>1. /\ to \in Estados \ {"pendiente"} /\ estado[v] # "none"
        /\ estado[v] = "pendiente" => to = "activo"
    BY <1>1 DEF BeginChangeEstado, VALID_TRANSITIONS
  <2>2. Go(r, h) /\ UNCHANGED <<rowVars, audit>>
    BY <1>1 DEF BeginChangeEstado, Start
  <2>3. h.pc = "estado" /\ h.about = v /\ h.to = to
    OBVIOUS
  <2>4. UsuariosTypeOK' /\ handler'[r] = h /\ \A s \in Requests \ {r} : handler'[s] = handler[s]
    BY <1>0, <2>2
  <2> QED
    BY <2>1, <2>2, <2>3, <2>4, RequestsOnly
<1>2. ASSUME BeginLogo(r, v)
      PROVE  UsuariosInv'
  <2> DEFINE h == [Idle EXCEPT !.pc = "logo", !.about = v]
  <2>1. Go(r, h) /\ UNCHANGED <<rowVars, audit>> /\ estado[v] = "activo"
    BY <1>2 DEF BeginLogo, Start
  <2>2. UsuariosTypeOK' /\ handler'[r] = h /\ \A s \in Requests \ {r} : handler'[s] = handler[s]
    BY <1>0, <2>1
  <2> QED
    BY <2>1, <2>2, RequestsOnly
<1>3. ASSUME BeginInvite(r, v)
      PROVE  UsuariosInv'
  <2> DEFINE h == [Idle EXCEPT !.pc = "invite", !.seller = v]
  <2>1. Go(r, h) /\ UNCHANGED <<rowVars, audit>>
    BY <1>3 DEF BeginInvite, Start
  <2>2. UsuariosTypeOK' /\ handler'[r] = h /\ \A s \in Requests \ {r} : handler'[s] = handler[s]
    BY <1>0, <2>1
  <2> QED
    BY <2>1, <2>2, RequestsOnly
<1> QED
  BY <1>1, <1>2, <1>3

LEMMA StartOnLinkKeeps ==
  ASSUME UsuariosInv, NEW r \in Requests, NEW i \in Invitations,
         \/ \E v \in Sellers \cup {NoSeller} : BeginDeactivate(r, v, i)
         \/ \E c \in Clientes : BeginJoin(r, c, i)
  PROVE  UsuariosInv'
<1> USE DEF Idle, Estados, Steps, NoTarget, Accounts
<1>0. \A h : h \in [pc : Steps, about : Accounts \cup {NoTarget}, seller : Sellers \cup {NoSeller},
                     to : Estados \cup {"none"}, link : Invitations \cup {NoTarget}]
             /\ UNCHANGED <<rowVars, audit>> /\ Go(r, h)
             => /\ UsuariosTypeOK' /\ handler'[r] = h
                /\ \A s \in Requests \ {r} : handler'[s] = handler[s]
  BY DEF UsuariosInv, UsuariosTypeOK, rowVars, Go
<1>1. ASSUME NEW v \in Sellers \cup {NoSeller}, BeginDeactivate(r, v, i)
      PROVE  UsuariosInv'
  <2> DEFINE h == [Idle EXCEPT !.pc = "deactivate", !.link = i]
  <2>1. Go(r, h) /\ UNCHANGED <<rowVars, audit>> /\ invitation[i].by \in Sellers
    BY <1>1 DEF BeginDeactivate, Start
  <2>2. UsuariosTypeOK' /\ handler'[r] = h /\ \A s \in Requests \ {r} : handler'[s] = handler[s]
    BY <1>0, <2>1
  <2> QED
    BY <2>1, <2>2, RequestsOnly
<1>2. ASSUME NEW c \in Clientes, BeginJoin(r, c, i)
      PROVE  UsuariosInv'
  <2> DEFINE h == [Idle EXCEPT !.pc = "join", !.about = c, !.seller = invitation[i].by, !.link = i]
  <2>1. Go(r, h) /\ UNCHANGED <<rowVars, audit>> /\ invitation[i].by \in Sellers
    BY <1>2 DEF BeginJoin, Start, UsuariosInv, ActiveIsOwned
  <2>2. UsuariosTypeOK' /\ handler'[r] = h /\ \A s \in Requests \ {r} : handler'[s] = handler[s]
    BY <1>0, <2>1
  <2> QED
    BY <2>1, <2>2, RequestsOnly
<1> QED
  BY <1>1, <1>2

(* An invitation is created in a place that was never used.                 *)
LEMMA InviteKeeps ==
  ASSUME UsuariosInv, NEW r \in Requests, NEW i \in Invitations, Invite(r, i)
  PROVE  UsuariosInv'
<1>1. /\ invitation' = [invitation EXCEPT ![i] = [by |-> handler[r].seller, activo |-> TRUE]]
      /\ handler' = [handler EXCEPT ![r] = Idle]
      /\ UNCHANGED <<estado, defaultOf, cartera, audit>>
      /\ handler[r].seller \in Sellers
  BY DEF Invite, End, Go, UsuariosInv, HandlerInv
<1>2. invitation[i].by \notin Sellers
  BY UsuariosAssumption DEF Invite, NoInvitation
<1>3. UsuariosTypeOK'
  BY <1>1 DEF UsuariosInv, UsuariosTypeOK, Idle, Steps, Estados, NoTarget, Accounts
<1>4. \A s \in Requests : handler'[s] = handler[s] \/ handler'[s].pc = "idle"
  BY <1>1 DEF UsuariosInv, UsuariosTypeOK, Idle
<1>5. \A j \in Invitations : invitation[j].by \in Sellers => invitation'[j] = invitation[j]
  BY <1>1, <1>2 DEF UsuariosInv, UsuariosTypeOK
<1>6. HandlerInv'
  BY <1>1, <1>4, <1>5 DEF UsuariosInv, HandlerInv
<1>7. OffInv'
  <2>1. \A s \in Requests, j \in Invitations : Won(s, j)' => Won(s, j) /\ invitation'[j] = invitation[j]
    BY <1>4, <1>5 DEF UsuariosInv, HandlerInv, Won
  <2> QED
    BY <1>1, <1>5, <2>1 DEF UsuariosInv, OffInv
<1>8. ActiveIsOwned'
  BY <1>1 DEF UsuariosInv, ActiveIsOwned, UsuariosTypeOK
<1> QED
  BY <1>3, <1>6, <1>7, <1>8 DEF UsuariosInv

LEMMA SwitchOffTyped ==
  ASSUME NEW S, NEW f \in [Invitations -> [by : S, activo : BOOLEAN]], NEW i \in Invitations
  PROVE  [f EXCEPT ![i].activo = FALSE] \in [Invitations -> [by : S, activo : BOOLEAN]]
<1> DEFINE row == [f[i] EXCEPT !.activo = FALSE]
<1>1. f[i] \in [by : S, activo : BOOLEAN]
  OBVIOUS
<1>2. row \in [by : S, activo : BOOLEAN]
  BY <1>1
<1>3. [f EXCEPT ![i].activo = FALSE] = [f EXCEPT ![i] = row]
  OBVIOUS
<1> HIDE DEF row
<1> QED
  BY <1>2, <1>3

(* Of the requests that deactivate an invitation, the first one wins.       *)
LEMMA DeactivateKeeps ==
  ASSUME UsuariosInv, NEW r \in Requests, Deactivate(r)
  PROVE  UsuariosInv'
<1> DEFINE i == handler[r].link
<1>0. i \in Invitations /\ invitation[i].by \in Sellers
  BY DEF UsuariosInv, HandlerInv, Deactivate
<1>1. CASE invitation[i].activo
  <2>1. /\ invitation' = [invitation EXCEPT ![i].activo = FALSE]
        /\ handler' = [handler EXCEPT ![r] = [handler[r] EXCEPT !.pc = "audit"]]
        /\ UNCHANGED <<estado, defaultOf, cartera, audit>>
    BY <1>1 DEF Deactivate, StillActive, Go
  <2>2. UsuariosTypeOK'
    <3>1. invitation' \in [Invitations -> [by : Sellers \cup {NoSeller}, activo : BOOLEAN]]
      BY <1>0, <2>1, SwitchOffTyped DEF UsuariosInv, UsuariosTypeOK
    <3>2. handler' \in [Requests -> [pc : Steps, about : Accounts \cup {NoTarget},
                                     seller : Sellers \cup {NoSeller}, to : Estados \cup {"none"},
                                     link : Invitations \cup {NoTarget}]]
      BY <2>1 DEF UsuariosInv, UsuariosTypeOK, Steps
    <3> QED
      BY <2>1, <3>1, <3>2 DEF UsuariosInv, UsuariosTypeOK
  <2>3. /\ handler'[r].pc = "audit" /\ handler'[r].link = i
        /\ \A s \in Requests \ {r} : handler'[s] = handler[s]
        /\ invitation'[i].by = invitation[i].by /\ ~invitation'[i].activo
        /\ \A j \in Invitations \ {i} : invitation'[j] = invitation[j]
    BY <1>0, <2>1 DEF UsuariosInv, UsuariosTypeOK
  <2>4. HandlerInv'
    <3> SUFFICES ASSUME NEW s \in Requests
                 PROVE  /\ handler'[s].pc = "estado" => handler'[s] = handler[s]
                        /\ handler'[s].pc = "logo" => handler'[s] = handler[s]
                        /\ handler'[s].pc = "invite" => handler'[s] = handler[s]
                        /\ handler'[s].pc = "join" => handler'[s] = handler[s]
                        /\ handler'[s].pc \in {"deactivate", "audit", "join"} =>
                             handler'[s].link \in Invitations /\ invitation'[handler'[s].link].by \in Sellers
      BY <2>1 DEF UsuariosInv, HandlerInv
    <3> QED
      BY <1>0, <2>3 DEF UsuariosInv, HandlerInv
  <2>5. OffInv'
    <3>1. audit[i] = 0 /\ \A s \in Requests : ~Won(s, i)
      BY <1>0, <1>1 DEF UsuariosInv, OffInv
    <3>2. \A s \in Requests, j \in Invitations : Won(s, j)' <=> Won(s, j) \/ (s = r /\ j = i)
      BY <2>3 DEF Won, Deactivate
    <3> QED
      BY <2>1, <2>3, <3>1, <3>2 DEF UsuariosInv, OffInv
  <2>6. ActiveIsOwned'
    BY <2>3 DEF UsuariosInv, ActiveIsOwned
  <2> QED
    BY <2>2, <2>4, <2>5, <2>6 DEF UsuariosInv
<1>2. CASE ~invitation[i].activo
  <2>1. UNCHANGED <<rowVars, audit>> /\ Go(r, Idle)
    BY <1>2 DEF Deactivate, StillActive, End, rowVars
  <2> QED
    BY <2>1, EndKeeps
<1> QED
  BY <1>1, <1>2

(* Its audit row is written once.                                           *)
LEMMA RecordKeeps ==
  ASSUME UsuariosInv, NEW r \in Requests, Record(r)
  PROVE  UsuariosInv'
<1> DEFINE i == handler[r].link
<1>1. /\ i \in Invitations /\ invitation[i].by \in Sellers /\ Won(r, i)
      /\ audit' = [audit EXCEPT ![i] = @ + 1] /\ handler' = [handler EXCEPT ![r] = Idle]
      /\ UNCHANGED rowVars
  BY DEF UsuariosInv, HandlerInv, Record, End, Go, Won
<1>2. UsuariosTypeOK'
  BY <1>1 DEF UsuariosInv, UsuariosTypeOK, rowVars, Idle, Steps, Estados, NoTarget, Accounts
<1>3. \A s \in Requests : IF s = r THEN handler'[s].pc = "idle" ELSE handler'[s] = handler[s]
  BY <1>1 DEF UsuariosInv, UsuariosTypeOK, Idle
<1>4. HandlerInv'
  BY <1>1, <1>3 DEF UsuariosInv, HandlerInv, rowVars
<1>5. OffInv'
  <2>1. audit[i] = 0 /\ ~invitation[i].activo /\ \A s \in Requests : Won(s, i) => s = r
    BY <1>1 DEF UsuariosInv, OffInv
  <2>2. \A s \in Requests, j \in Invitations : Won(s, j)' => Won(s, j) /\ s # r
    BY <1>3 DEF Won
  <2>3. audit'[i] = 1 /\ \A j \in Invitations \ {i} : audit'[j] = audit[j]
    BY <1>1, <2>1 DEF UsuariosInv, UsuariosTypeOK
  <2> QED
    BY <1>1, <2>1, <2>2, <2>3 DEF UsuariosInv, OffInv, rowVars
<1>6. ActiveIsOwned'
  BY <1>1 DEF UsuariosInv, ActiveIsOwned, rowVars
<1> QED
  BY <1>2, <1>4, <1>5, <1>6 DEF UsuariosInv

(* A registration switches the link off as well, and tells nobody.          *)
LEMMA JoinKeeps ==
  ASSUME UsuariosInv, NEW r \in Requests, Join(r)
  PROVE  UsuariosInv'
<1> DEFINE h == handler[r]
<1>1. /\ h.about \in Clientes /\ h.seller \in Sellers /\ h.link \in Invitations
      /\ handler' = [handler EXCEPT ![r] = Idle] /\ UNCHANGED <<estado, audit>>
  BY DEF UsuariosInv, HandlerInv, Join, End, Go
<1>2. /\ defaultOf' \in [Clientes -> Sellers \cup {NoSeller}] /\ cartera' \subseteq Sellers \X Clientes
      /\ invitation' = invitation \/ invitation' = [invitation EXCEPT ![h.link].activo = FALSE]
  BY <1>1 DEF Join, CreateCliente, UsuariosInv, UsuariosTypeOK
<1>9. invitation' \in [Invitations -> [by : Sellers \cup {NoSeller}, activo : BOOLEAN]]
  <2>1. invitation \in [Invitations -> [by : Sellers \cup {NoSeller}, activo : BOOLEAN]]
    BY DEF UsuariosInv, UsuariosTypeOK
  <2>2. [invitation EXCEPT ![h.link].activo = FALSE]
          \in [Invitations -> [by : Sellers \cup {NoSeller}, activo : BOOLEAN]]
    BY <1>1, <2>1, SwitchOffTyped
  <2> QED
    BY <1>2, <2>1, <2>2
<1>3. UsuariosTypeOK'
  BY <1>9,  <1>1, <1>2 DEF UsuariosInv, UsuariosTypeOK, Idle, Steps, Estados, NoTarget, Accounts
<1>4. \A s \in Requests : handler'[s] = handler[s] \/ handler'[s].pc = "idle"
  BY <1>1 DEF UsuariosInv, UsuariosTypeOK, Idle
<1>5. \A j \in Invitations : /\ invitation'[j].by = invitation[j].by
                             /\ invitation'[j].activo => invitation[j].activo
  BY <1>1, <1>2 DEF UsuariosInv, UsuariosTypeOK
<1>6. HandlerInv'
  BY <1>1, <1>4, <1>5 DEF UsuariosInv, HandlerInv
<1>7. OffInv'
  <2>1. \A s \in Requests, j \in Invitations : Won(s, j)' => Won(s, j)
    BY <1>4 DEF Won
  <2> QED
    BY <1>1, <1>5, <2>1 DEF UsuariosInv, OffInv
<1>8. ActiveIsOwned'
  BY <1>5 DEF UsuariosInv, ActiveIsOwned
<1> QED
  BY <1>3, <1>6, <1>7, <1>8 DEF UsuariosInv

(* What the remaining steps write, no request in flight depends on.         *)
LEMMA RowsKeep ==
  ASSUME UsuariosInv, NEW v \in Sellers, NEW c \in Clientes,
         Register(v) \/ Enrol(c, v) \/ Reassign(c, v) \/ AddProvider(c, v)
  PROVE  UsuariosInv'
<1>1. /\ UNCHANGED <<invitation, handler, audit>>
      /\ defaultOf' \in [Clientes -> Sellers \cup {NoSeller}] /\ cartera' \subseteq Sellers \X Clientes
      /\ estado' = estado \/ (estado[v] = "none" /\ estado' = [estado EXCEPT ![v] = "pendiente"])
  BY DEF Register, Enrol, CreateCliente, Reassign, Move, AddProvider, UsuariosInv, UsuariosTypeOK
<1>2. \A s \in Sellers : estado[s] # "none" => estado'[s] = estado[s]
  BY <1>1 DEF UsuariosInv, UsuariosTypeOK
<1>3. UsuariosTypeOK'
  BY <1>1 DEF UsuariosInv, UsuariosTypeOK, Estados
<1>4. HandlerInv'
  BY <1>1, <1>2 DEF UsuariosInv, HandlerInv
<1>5. OffInv' /\ ActiveIsOwned'
  BY <1>1 DEF UsuariosInv, OffInv, Won, ActiveIsOwned
<1> QED
  BY <1>3, <1>4, <1>5 DEF UsuariosInv

LEMMA UsuariosStepInv == UsuariosInv /\ [UsuariosNext]_usuariosVars => UsuariosInv'
<1> SUFFICES ASSUME UsuariosInv, [UsuariosNext]_usuariosVars
             PROVE  UsuariosInv'
  OBVIOUS
<1>1. CASE UNCHANGED usuariosVars
  BY <1>1 DEF usuariosVars, UsuariosInv, UsuariosTypeOK, HandlerInv, OffInv, Won, ActiveIsOwned
<1>2. CASE \E v \in Sellers : \/ Register(v)
                              \/ \E c \in Clientes : Enrol(c, v) \/ Reassign(c, v) \/ AddProvider(c, v)
  <2>1. PICK v \in Sellers : \/ Register(v)
                             \/ \E c \in Clientes : Enrol(c, v) \/ Reassign(c, v) \/ AddProvider(c, v)
    BY <1>2
  <2>2. CASE Register(v)
    <3>1. /\ UNCHANGED <<defaultOf, cartera, invitation, handler, audit>> /\ estado[v] = "none"
          /\ estado' = [estado EXCEPT ![v] = "pendiente"]
      BY <2>2 DEF Register
    <3>2. \A s \in Sellers : estado[s] # "none" => estado'[s] = estado[s]
      BY <3>1 DEF UsuariosInv, UsuariosTypeOK
    <3>3. UsuariosTypeOK'
      BY <3>1 DEF UsuariosInv, UsuariosTypeOK, Estados
    <3>4. HandlerInv'
      BY <3>1, <3>2 DEF UsuariosInv, HandlerInv
    <3>5. OffInv' /\ ActiveIsOwned'
      BY <3>1 DEF UsuariosInv, OffInv, Won, ActiveIsOwned
    <3> QED
      BY <3>3, <3>4, <3>5 DEF UsuariosInv
  <2> QED
    BY <2>1, <2>2, RowsKeep
<1>3. ASSUME NEW r \in Requests,
             \/ ChangeEstado(r) \/ WriteLogo(r) \/ Deactivate(r) \/ Record(r) \/ Join(r) \/ Fail(r)
             \/ \E v \in Sellers :
                  \/ BeginInvite(r, v) \/ BeginLogo(r, v)
                  \/ \E to \in Estados : BeginChangeEstado(r, v, to)
             \/ \E i \in Invitations :
                  \/ Invite(r, i)
                  \/ \E c \in Clientes : BeginJoin(r, c, i)
                  \/ \E v \in Sellers \cup {NoSeller} : BeginDeactivate(r, v, i)
      PROVE  UsuariosInv'
  <2>1. CASE WriteLogo(r) \/ Fail(r)
    <3>1. UNCHANGED <<rowVars, audit>> /\ Go(r, Idle)
      BY <2>1 DEF WriteLogo, Fail, End
    <3> QED
      BY <3>1, EndKeeps
  <2> QED
    BY <1>3, <2>1, EstadoKeeps, DeactivateKeeps, RecordKeeps, JoinKeeps, InviteKeeps, StartKeeps,
       StartOnLinkKeeps
<1> QED
  BY <1>1, <1>2, <1>3 DEF UsuariosNext

LEMMA UsuariosInvariance == UsuariosSpec => []UsuariosInv
BY UsuariosInitInv, UsuariosStepInv, PTL DEF UsuariosSpec

-----------------------------------------------------------------------------
(* Types and limits of every row and request: usuario-service.              *)
THEOREM UsuariosTyped == UsuariosSpec => []UsuariosTypeOK
<1>1. UsuariosInv => UsuariosTypeOK
  BY DEF UsuariosInv
<1> QED
  BY <1>1, UsuariosInvariance, PTL

(* What ApprovedFirst says of a step.                                       *)
FirstApproved ==
  /\ \A v \in Sellers : estado'[v] # estado[v] =>
       /\ estado[v] = "pendiente" => estado'[v] = "activo"
       /\ estado'[v] = "pendiente" => estado[v] = "none"
  /\ \A r \in Requests : WriteLogo(r) => estado[handler[r].about] \notin {"none", "pendiente"}

LEMMA FirstApprovedStep == UsuariosInv /\ [UsuariosNext]_usuariosVars => [FirstApproved]_usuariosVars
<1> SUFFICES ASSUME UsuariosInv, UsuariosNext
             PROVE  FirstApproved
  OBVIOUS
<1>1. \A r \in Requests : WriteLogo(r) => estado[handler[r].about] \notin {"none", "pendiente"}
  BY DEF UsuariosInv, HandlerInv, WriteLogo
<1>2. ASSUME NEW v \in Sellers, estado'[v] # estado[v]
      PROVE  /\ estado[v] = "pendiente" => estado'[v] = "activo"
             /\ estado'[v] = "pendiente" => estado[v] = "none"
  <2>1. (\E w \in Sellers : Register(w)) \/ (\E r \in Requests : ChangeEstado(r))
    BY <1>2 DEF UsuariosNext, Enrol, Reassign, AddProvider, WriteLogo, Deactivate, Record, Join, Fail,
                BeginInvite, BeginLogo, BeginChangeEstado, Invite, BeginJoin, BeginDeactivate, rowVars
  <2>2. CASE \E w \in Sellers : Register(w)
    BY <1>2, <2>2 DEF Register, UsuariosInv, UsuariosTypeOK
  <2>3. CASE \E r \in Requests : ChangeEstado(r)
    BY <1>2, <2>3 DEF ChangeEstado, UsuariosInv, UsuariosTypeOK, HandlerInv
  <2> QED
    BY <2>1, <2>2, <2>3
<1> QED
  BY <1>1, <1>2 DEF FirstApproved

(* However changeEstado() calls and edits of profiles overlap, a vendedor   *)
(* is first of all approved.                                                *)
THEOREM SellersApproved == UsuariosSpec => ApprovedFirst
BY FirstApprovedStep, UsuariosInvariance, PTL DEF UsuariosSpec, ApprovedFirst, FirstApproved

LEMMA OffOnce == UsuariosInv => DeactivatedOnce
<1> SUFFICES ASSUME UsuariosInv, NEW i \in Invitations
             PROVE  LET winners == {r \in Requests : handler[r].pc = "audit" /\ handler[r].link = i} IN
                      /\ audit[i] + Cardinality(winners) <= 1
                      /\ audit[i] > 0 \/ winners # {} => ~invitation[i].activo
  BY DEF DeactivatedOnce
<1> DEFINE winners == {r \in Requests : handler[r].pc = "audit" /\ handler[r].link = i}
<1>1. CASE winners = {}
  <2>1. Cardinality(winners) = 0
    BY <1>1, FS_EmptySet
  <2> QED
    BY <1>1, <2>1 DEF UsuariosInv, OffInv
<1>2. CASE winners # {}
  <2>1. PICK r \in Requests : Won(r, i)
    BY <1>2 DEF Won
  <2>2. winners = {r}
    BY <2>1 DEF UsuariosInv, OffInv, Won
  <2>3. Cardinality(winners) = 1
    BY <2>2, FS_Singleton
  <2>4. audit[i] = 0 /\ ~invitation[i].activo
    BY <2>1 DEF UsuariosInv, OffInv
  <2> QED
    BY <2>3, <2>4
<1> QED
  BY <1>1, <1>2

(* However deactivations and registrations race for an invitation, one at   *)
(* most has switched it off, and it never comes back.                       *)
THEOREM SwitchedOffOnce == UsuariosSpec => []DeactivatedOnce
BY OffOnce, UsuariosInvariance, PTL

-----------------------------------------------------------------------------
(***************************************************************************)
(* Catalog                                                                 *)
(***************************************************************************)

CallType == [pc : {"idle", "deactivate", "reactivate", "create", "write"},
             by : Owners \cup {NoOwner}, id : Taxa \cup Items \cup {NoOwner},
             taxon : Taxa \cup {NoOwner},
             change : {"none", "price", "tax", "taxon", "activo"},
             value : Values \cup {0}, read : (Values \cup {0}) \X (Values \cup {0})]

(* What the first half of a handler has checked and nothing takes back: the *)
(* owners of rows never change, and a row that was read is changed by       *)
(* another update only, which then is one that overlaps.                    *)
Checked(c) ==
  /\ c.pc \in {"deactivate", "reactivate"} => c.id \in Taxa /\ taxon[c.id].owner \in Owners
  /\ c.pc = "create" => c.by \in Owners /\ c.taxon \in Taxa /\ taxon[c.taxon].owner = c.by
  /\ c.pc = "write" =>
       /\ c.id \in Items /\ product[c.id].owner \in Owners
       /\ c.change \in {"price", "tax", "taxon", "activo"}
       /\ c.change = "taxon" => c.taxon \in Taxa /\ taxon[c.taxon].owner = product[c.id].owner
       /\ c.change \in {"price", "tax"} =>
            c.id \in torn \/ c.read = <<product[c.id].price, product[c.id].tax>>

CallInv == \A k \in CallSlots : Checked(call[k])

(* A product that is filed belongs to a vendedor, and so does its taxon.    *)
FiledInv == \A p \in Items : product[p].taxon # NoOwner =>
              /\ product[p].owner \in Owners
              /\ taxon[product[p].taxon].owner = product[p].owner

CatalogInv == CatalogTypeOK /\ CallInv /\ FiledInv /\ FinalPriceIsCurrent

-----------------------------------------------------------------------------
LEMMA CatalogInitInv == CatalogInit => CatalogInv
BY DEF CatalogInit, CatalogInv, CatalogTypeOK, CallInv, Checked, FiledInv, FinalPriceIsCurrent,
       ProductType, NoTaxon, NoProduct, NoCall, Final

(* A request that starts or ends, while no row changes.                     *)
LEMMA CallsOnly ==
  ASSUME CatalogInv, NEW k \in CallSlots, NEW c \in CallType, Checked(c),
         call' = [call EXCEPT ![k] = c], UNCHANGED <<taxon, product, torn>>
  PROVE  CatalogInv'
<1>1. CatalogTypeOK'
  BY DEF CatalogInv, CatalogTypeOK, CallType
<1>2. \A j \in CallSlots : call'[j] = call[j] \/ call'[j] = c
  BY DEF CatalogInv, CatalogTypeOK
<1>3. \A j \in CallSlots : Checked(call[j])
  BY DEF CatalogInv, CallInv
<1>4. CallInv'
  <2> SUFFICES ASSUME NEW j \in CallSlots
               PROVE  Checked(call[j])'
    BY DEF CallInv
  <2>1. CASE call'[j] = c
    BY <2>1 DEF Checked
  <2>2. CASE call'[j] = call[j]
    BY <1>3, <2>2 DEF Checked
  <2> QED
    BY <1>2, <2>1, <2>2
<1>5. FiledInv' /\ FinalPriceIsCurrent'
  BY DEF CatalogInv, FiledInv, FinalPriceIsCurrent
<1> QED
  BY <1>1, <1>4, <1>5 DEF CatalogInv

LEMMA NoCallChecked == NoCall \in CallType /\ Checked(NoCall)
BY DEF NoCall, CallType, Checked

(* The first halves of the handlers.                                        *)
LEMMA SwitchBegins ==
  ASSUME CatalogInv, NEW k \in CallSlots, NEW v \in Owners, NEW t \in Taxa,
         NEW how \in {"deactivate", "reactivate"}, BeginSwitchTaxon(k, v, t, how)
  PROVE  CatalogInv'
<1> DEFINE c == [NoCall EXCEPT !.pc = how, !.id = t]
<1>1. c \in CallType
  BY DEF NoCall, CallType
<1>2. Checked(c)
  BY DEF NoCall, Checked, BeginSwitchTaxon
<1> QED
  BY <1>1, <1>2, CallsOnly DEF BeginSwitchTaxon, Begin, SetCall

LEMMA CreateBegins ==
  ASSUME CatalogInv, NEW k \in CallSlots, NEW v \in Owners, NEW t \in Taxa, NEW n \in Values,
         BeginCreateProduct(k, v, t, n)
  PROVE  CatalogInv'
<1> DEFINE c == [NoCall EXCEPT !.pc = "create", !.by = v, !.taxon = t, !.value = n]
<1>1. c \in CallType
  BY DEF NoCall, CallType
<1>2. Checked(c)
  BY DEF NoCall, Checked, BeginCreateProduct, ActiveCatalogOwnership
<1> QED
  BY <1>1, <1>2, CallsOnly DEF BeginCreateProduct, Begin, SetCall

LEMMA UpdateBegins ==
  ASSUME CatalogInv, NEW k \in CallSlots, NEW v \in Owners, NEW p \in Items,
         NEW change \in {"price", "tax", "taxon", "activo"}, NEW n \in Values \cup {0},
         NEW t \in Taxa \cup {NoOwner}, change = "taxon" => t \in Taxa,
         BeginUpdateProduct(k, v, p, change, n, t)
  PROVE  CatalogInv'
<1> DEFINE r == IF change \in {"price", "tax"} THEN <<product[p].price, product[p].tax>>
                ELSE NoCall.read
           c == [NoCall EXCEPT !.pc = "write", !.id = p, !.change = change, !.value = n, !.taxon = t,
                   !.read = r]
<1>1. r \in (Values \cup {0}) \X (Values \cup {0})
  BY DEF NoCall, CatalogInv, CatalogTypeOK, ProductType
<1>2. call' = [call EXCEPT ![k] = c] /\ UNCHANGED <<taxon, product, torn>>
  BY DEF BeginUpdateProduct, Begin, SetCall
<1>3. product[p].owner \in Owners /\ (change = "taxon" => taxon[t].owner = product[p].owner)
  BY DEF BeginUpdateProduct, ActiveCatalogOwnership
<1>4. /\ c.pc = "write" /\ c.id = p /\ c.change = change /\ c.value = n /\ c.taxon = t /\ c.read = r
      /\ c.by = NoOwner
  BY DEF NoCall
<1>5. c \in CallType
  <2> HIDE DEF r
  <2> QED
    BY <1>1 DEF NoCall, CallType
<1>6. Checked(c)
  BY <1>3, <1>4 DEF Checked
<1> HIDE DEF c, r
<1> QED
  BY <1>2, <1>5, <1>6, CallsOnly

(* A taxon is switched on or off; it keeps its owner.                       *)
LEMMA TaxonSwitched ==
  ASSUME CatalogInv, NEW k \in CallSlots, SwitchTaxon(k)
  PROVE  CatalogInv'
<1> DEFINE t == call[k].id
           on == call[k].pc = "reactivate"
           row == [taxon[t] EXCEPT !.activo = on]
<1>1. t \in Taxa /\ taxon[t] \in [owner : Owners \cup {NoOwner}, activo : BOOLEAN]
  BY DEF CatalogInv, CatalogTypeOK, CallInv, Checked, SwitchTaxon
<1>2. /\ taxon' = [taxon EXCEPT ![t] = row] /\ call' = [call EXCEPT ![k] = NoCall]
      /\ UNCHANGED <<product, torn>>
  BY DEF SwitchTaxon, Finish, SetCall
<1>3. row \in [owner : Owners \cup {NoOwner}, activo : BOOLEAN] /\ row.owner = taxon[t].owner
  BY <1>1
<1> HIDE DEF row
<1>4. \A s \in Taxa : taxon'[s].owner = taxon[s].owner
  BY <1>1, <1>2, <1>3 DEF CatalogInv, CatalogTypeOK
<1>5. CatalogTypeOK'
  BY <1>1, <1>2, <1>3, NoCallChecked DEF CatalogInv, CatalogTypeOK, CallType
<1>6. \A j \in CallSlots : call'[j] = call[j] \/ call'[j] = NoCall
  BY <1>2 DEF CatalogInv, CatalogTypeOK
<1>7. CallInv'
  BY <1>2, <1>4, <1>6 DEF CatalogInv, CallInv, Checked, NoCall
<1>8. FiledInv' /\ FinalPriceIsCurrent'
  BY <1>2, <1>4 DEF CatalogInv, FiledInv, FinalPriceIsCurrent, CatalogTypeOK, ProductType
<1> QED
  BY <1>5, <1>7, <1>8 DEF CatalogInv

(* A taxon is created where there was none.                                 *)
LEMMA TaxonCreated ==
  ASSUME CatalogInv, NEW v \in Owners, NEW t \in Taxa, CreateTaxon(v, t)
  PROVE  CatalogInv'
<1> DEFINE row == [owner |-> v, activo |-> TRUE]
<1>1. /\ taxon' = [taxon EXCEPT ![t] = row] /\ UNCHANGED <<product, call, torn>>
      /\ taxon[t].owner \notin Owners
  BY CatalogAssumption DEF CreateTaxon, NoTaxon
<1>2. \A s \in Taxa : taxon[s].owner \in Owners => taxon'[s] = taxon[s]
  BY <1>1 DEF CatalogInv, CatalogTypeOK
<1>3. CatalogTypeOK'
  BY <1>1 DEF CatalogInv, CatalogTypeOK
<1>4. CallInv'
  BY <1>1, <1>2 DEF CatalogInv, CallInv, Checked
<1>5. FiledInv' /\ FinalPriceIsCurrent'
  BY <1>1, <1>2 DEF CatalogInv, FiledInv, FinalPriceIsCurrent, CatalogTypeOK, ProductType
<1> QED
  BY <1>3, <1>4, <1>5 DEF CatalogInv

(* A product is created where there was none, under what was checked.       *)
LEMMA ProductCreated ==
  ASSUME CatalogInv, NEW k \in CallSlots, NEW p \in Items, CreateProduct(k, p)
  PROVE  CatalogInv'
<1> DEFINE c == call[k]
           row == [owner |-> c.by, taxon |-> c.taxon, activo |-> TRUE,
                   price |-> c.value, tax |-> 0, final |-> Final(c.value, 0)]
<1>1. /\ product' = [product EXCEPT ![p] = row] /\ call' = [call EXCEPT ![k] = NoCall]
      /\ UNCHANGED <<taxon, torn>> /\ product[p].owner \notin Owners
  BY CatalogAssumption DEF CreateProduct, Finish, SetCall, NoProduct
<1>2. /\ c.by \in Owners /\ c.taxon \in Taxa /\ taxon[c.taxon].owner = c.by
      /\ c.value \in Values \cup {0}
  BY DEF CatalogInv, CallInv, Checked, CreateProduct, CatalogTypeOK
<1>3. row \in ProductType
  BY <1>2 DEF ProductType, Final
<1>4. CatalogTypeOK'
  <2> HIDE DEF row
  <2> QED
    BY <1>1, <1>3, NoCallChecked DEF CatalogInv, CatalogTypeOK, CallType
<1>5. \A j \in CallSlots : call'[j] = call[j] \/ call'[j] = NoCall
  BY <1>1 DEF CatalogInv, CatalogTypeOK
<1>6. \A q \in Items : product[q].owner \in Owners => product'[q] = product[q]
  BY <1>1 DEF CatalogInv, CatalogTypeOK
<1>7. CallInv'
  BY <1>1, <1>5, <1>6 DEF CatalogInv, CallInv, Checked, NoCall
<1>8. product'[p] = row /\ \A q \in Items \ {p} : product'[q] = product[q]
  BY <1>1 DEF CatalogInv, CatalogTypeOK
<1>9. FiledInv'
  BY <1>1, <1>2, <1>8 DEF CatalogInv, FiledInv
<1>10. FinalPriceIsCurrent'
  BY <1>1, <1>8 DEF CatalogInv, FinalPriceIsCurrent, Final
<1> QED
  BY <1>4, <1>7, <1>9, <1>10 DEF CatalogInv

(* An update writes over a row that may have changed since it was read: the *)
(* other updates of the row that are in flight overlap with this one.       *)
LEMMA ProductUpdated ==
  ASSUME CatalogInv, NEW k \in CallSlots, UpdateProduct(k)
  PROVE  CatalogInv'
<1> DEFINE c == call[k]
           p == c.id
           old == product[p]
           row == Updated(c, old)
<1>1. /\ p \in Items /\ old \in ProductType /\ old.owner \in Owners
      /\ c.change \in {"price", "tax", "taxon", "activo"} /\ c.value \in Values \cup {0}
      /\ c.read \in (Values \cup {0}) \X (Values \cup {0})
      /\ c.change = "taxon" => c.taxon \in Taxa /\ taxon[c.taxon].owner = old.owner
      /\ c.change \in {"price", "tax"} => p \in torn \/ c.read = <<old.price, old.tax>>
  BY DEF CatalogInv, CallInv, Checked, UpdateProduct, CatalogTypeOK
<1>2. /\ product' = [product EXCEPT ![p] = row] /\ call' = [call EXCEPT ![k] = NoCall]
      /\ UNCHANGED taxon
      /\ torn' = IF \E j \in CallSlots \ {k} : call[j].pc = "write" /\ call[j].id = p
                 THEN torn \cup {p} ELSE torn
  BY DEF UpdateProduct, Finish, SetCall
<1>3. row \in ProductType /\ row.owner = old.owner
  <2>1. CASE c.change = "price"
    BY <1>1, <2>1 DEF Updated, ProductType, Final
  <2>2. CASE c.change = "tax"
    BY <1>1, <2>2 DEF Updated, ProductType, Final
  <2>3. CASE c.change = "taxon"
    BY <1>1, <2>3 DEF Updated, ProductType
  <2>4. CASE c.change = "activo"
    BY <1>1, <2>4 DEF Updated, ProductType
  <2> QED
    BY <1>1, <2>1, <2>2, <2>3, <2>4
<1>4. row.taxon = old.taxon \/ (row.taxon \in Taxa /\ taxon[row.taxon].owner = old.owner)
  BY <1>1 DEF Updated, ProductType
<1>5. p \notin torn => (old.final = Final(old.price, old.tax) => row.final = Final(row.price, row.tax))
  <2>1. ASSUME c.change = "price", p \notin torn
        PROVE  row.final = Final(row.price, row.tax)
    <3>1. c.read[2] = old.tax
      BY <1>1, <2>1
    <3>2. row = [old EXCEPT !.price = c.value, !.final = Final(c.value, c.read[2])]
      BY <2>1 DEF Updated
    <3>3. row.price = c.value /\ row.tax = old.tax /\ row.final = Final(c.value, c.read[2])
      BY <1>1, <3>2 DEF ProductType
    <3> QED
      BY <3>1, <3>3
  <2>2. ASSUME c.change = "tax", p \notin torn
        PROVE  row.final = Final(row.price, row.tax)
    <3>1. c.read[1] = old.price
      BY <1>1, <2>2
    <3>2. row = [old EXCEPT !.tax = c.value, !.final = Final(c.read[1], c.value)]
      BY <2>2 DEF Updated
    <3>3. row.price = old.price /\ row.tax = c.value /\ row.final = Final(c.read[1], c.value)
      BY <1>1, <3>2 DEF ProductType
    <3> QED
      BY <3>1, <3>3
  <2>3. CASE c.change \in {"taxon", "activo"}
    BY <1>1, <2>3 DEF Updated, ProductType, Final
  <2> QED
    BY <1>1, <2>1, <2>2, <2>3
<1> HIDE DEF row
<1>6. CatalogTypeOK'
  BY <1>1, <1>2, <1>3, NoCallChecked DEF CatalogInv, CatalogTypeOK, CallType
<1>7. /\ product'[p] = row /\ \A q \in Items \ {p} : product'[q] = product[q]
      /\ \A j \in CallSlots \ {k} : call'[j] = call[j] /\ call'[k] = NoCall
      /\ torn \subseteq torn'
  BY <1>1, <1>2 DEF CatalogInv, CatalogTypeOK
<1>8. CallInv'
  <2> SUFFICES ASSUME NEW j \in CallSlots \ {k}
               PROVE  Checked(call[j])'
    BY <1>2, NoCallChecked DEF CallInv, Checked, NoCall, CatalogInv, CatalogTypeOK
  <2>1. Checked(call[j]) /\ call'[j] = call[j]
    BY <1>7 DEF CatalogInv, CallInv
  <2>2. CASE call[j].pc = "write" /\ call[j].id = p
    BY <1>1, <1>2, <1>3, <1>7, <2>1, <2>2 DEF Checked
  <2>3. CASE call[j].pc = "write" /\ call[j].id # p
    BY <1>2, <1>7, <2>1, <2>3 DEF Checked
  <2>4. CASE call[j].pc # "write"
    BY <1>2, <1>7, <2>1, <2>4 DEF Checked
  <2> QED
    BY <2>2, <2>3, <2>4
<1>9. FiledInv'
  BY <1>1, <1>2, <1>3, <1>4, <1>7 DEF CatalogInv, FiledInv
<1>10. FinalPriceIsCurrent'
  BY <1>1, <1>5, <1>7 DEF CatalogInv, FinalPriceIsCurrent
<1> QED
  BY <1>6, <1>8, <1>9, <1>10 DEF CatalogInv

(* A removal leaves the numbers and the owner of the product.               *)
LEMMA ProductRemoved ==
  ASSUME CatalogInv, NEW v \in Owners, NEW p \in Items, RemoveProduct(v, p)
  PROVE  CatalogInv'
<1> DEFINE row == [product[p] EXCEPT !.activo = FALSE]
<1>1. product' = [product EXCEPT ![p] = row] /\ UNCHANGED <<taxon, call, torn>>
  BY DEF RemoveProduct
<1>2. /\ row \in ProductType /\ row.owner = product[p].owner /\ row.taxon = product[p].taxon
      /\ row.price = product[p].price /\ row.tax = product[p].tax /\ row.final = product[p].final
  <2>1. product[p] \in ProductType
    BY DEF CatalogInv, CatalogTypeOK
  <2>2. row.owner = product[p].owner /\ row.taxon = product[p].taxon
    BY <2>1 DEF ProductType
  <2>3. row.price = product[p].price /\ row.tax = product[p].tax /\ row.final = product[p].final
    BY <2>1 DEF ProductType
  <2>4. row \in ProductType
    BY <2>1 DEF ProductType
  <2> QED
    BY <2>2, <2>3, <2>4
<1> HIDE DEF row
<1>3. \A q \in Items : /\ product'[q].owner = product[q].owner /\ product'[q].taxon = product[q].taxon
                       /\ product'[q].price = product[q].price /\ product'[q].tax = product[q].tax
                       /\ product'[q].final = product[q].final
  BY <1>1, <1>2 DEF CatalogInv, CatalogTypeOK
<1>4. CatalogTypeOK'
  BY <1>1, <1>2 DEF CatalogInv, CatalogTypeOK
<1>5. CallInv'
  BY <1>1, <1>3 DEF CatalogInv, CallInv, Checked
<1>6. FiledInv' /\ FinalPriceIsCurrent'
  BY <1>1, <1>3 DEF CatalogInv, FiledInv, FinalPriceIsCurrent
<1> QED
  BY <1>4, <1>5, <1>6 DEF CatalogInv

LEMMA CatalogStepInv == CatalogInv /\ [CatalogNext]_catalogVars => CatalogInv'
<1> SUFFICES ASSUME CatalogInv, [CatalogNext]_catalogVars
             PROVE  CatalogInv'
  OBVIOUS
<1>1. CASE UNCHANGED catalogVars
  BY <1>1 DEF catalogVars, CatalogInv, CatalogTypeOK, CallInv, Checked, FiledInv, FinalPriceIsCurrent
<1>2. ASSUME NEW k \in CallSlots, AbortCall(k)
      PROVE  CatalogInv'
  BY <1>2, CallsOnly, NoCallChecked DEF AbortCall, Finish, SetCall
<1>3. ASSUME NEW k \in CallSlots, NEW v \in Owners, NEW p \in Items,
             \/ \E t \in Taxa : BeginUpdateProduct(k, v, p, "taxon", 0, t)
             \/ \E n \in Values, f \in {"price", "tax"} : BeginUpdateProduct(k, v, p, f, n, NoOwner)
             \/ BeginUpdateProduct(k, v, p, "activo", 0, NoOwner)
      PROVE  CatalogInv'
  BY <1>3, UpdateBegins
<1> QED
  BY <1>1, <1>2, <1>3, TaxonCreated, ProductRemoved, TaxonSwitched, ProductUpdated, ProductCreated,
     SwitchBegins, CreateBegins DEF CatalogNext

LEMMA CatalogInvariance == CatalogSpec => []CatalogInv
BY CatalogInitInv, CatalogStepInv, PTL DEF CatalogSpec

-----------------------------------------------------------------------------
(* Types of every row and request: products-service.                        *)
THEOREM CatalogTyped == CatalogSpec => []CatalogTypeOK
<1>1. CatalogInv => CatalogTypeOK
  BY DEF CatalogInv
<1> QED
  BY <1>1, CatalogInvariance, PTL

(* A product is filed under a categoria and a marca of its own vendedor,    *)
(* though check and write are apart: assertActiveCatalogOwnership().        *)
THEOREM OwnCatalog == CatalogSpec => []OwnCatalogOnly
<1>1. CatalogInv => OwnCatalogOnly
  BY DEF CatalogInv, FiledInv, OwnCatalogOnly
<1> QED
  BY <1>1, CatalogInvariance, PTL

(* The final price of a product goes with its price and its percentage,     *)
(* unless updates of it have overlapped: calcularPrecioFinal().             *)
THEOREM PriceCurrent == CatalogSpec => []FinalPriceIsCurrent
<1>1. CatalogInv => FinalPriceIsCurrent
  BY DEF CatalogInv
<1> QED
  BY <1>1, CatalogInvariance, PTL

-----------------------------------------------------------------------------
(***************************************************************************)
(* ActivityLog                                                             *)
(***************************************************************************)

BatchType == [at : {"rest", "recovered", "next", "absent", "done"}, batch : SUBSET Keys]

(* An entry that was read is one that was published, a batch is of entries  *)
(* or of one request, and what is done with has its log.                    *)
BatchInv ==
  \A w \in Writers :
    /\ worker[w].batch \subseteq Entries \/ \E k \in Keys : worker[w].batch = {k}
    /\ worker[w].at = "recovered" => worker[w].batch \subseteq Entries
    /\ \A e \in worker[w].batch \ RequestIds : kind[e] # "none"
    /\ worker[w].at = "done" => \A k \in Current(w) : Supported(k) => rows[k] = 1

(* One log for each key, also for each event that is acknowledged.          *)
GroupInv ==
  /\ \A k \in Keys : rows[k] \in {0, 1}
  /\ \A e \in Entries \ RequestIds : group[e] # "none" => kind[e] # "none"
  /\ \A e \in Entries : group[e] = "acked" /\ kind[e] = "event" => rows[e] = 1

LogInv == LogTypeOK /\ BatchInv /\ GroupInv

-----------------------------------------------------------------------------
LEMMA RestingTyped == Resting \in BatchType /\ Resting.batch = {} /\ Resting.at = "rest"
BY DEF Resting, BatchType

LEMMA LogInitInv == LogInit => LogInv
<1> SUFFICES ASSUME LogInit PROVE LogInv
  OBVIOUS
<1>1. LogTypeOK
  BY RestingTyped, ActivityLogAssumption DEF LogInit, LogTypeOK, BatchType
<1>2. BatchInv /\ GroupInv
  BY RestingTyped DEF LogInit, BatchInv, GroupInv
<1> QED
  BY <1>1, <1>2 DEF LogInv

LEMMA LogTypes ==
  ASSUME LogInv
  PROVE  /\ worker \in [Writers -> BatchType]
         /\ kind \in [Entries -> Kinds \cup {"none"}]
         /\ group \in [Entries -> {"none", "new", "pending", "idle", "acked"}]
         /\ rows \in [Keys -> Nat] /\ deaths \in 0..MaxDeaths
BY DEF LogInv, LogTypeOK, BatchType

(* The first entry of a batch is one.                                       *)
LEMMA OneFirst ==
  ASSUME LogInv, NEW w \in Writers, NEW k \in Current(w), NEW d \in Current(w)
  PROVE  k = d /\ k \in worker[w].batch /\ k \in Keys
<1>1. k \in worker[w].batch /\ d \in worker[w].batch /\ worker[w].batch \subseteq Keys
  BY LogTypes DEF Current, BatchType
<1>2. k # d => k < d /\ d < k
  BY <1>1 DEF Current
<1>3. CASE worker[w].batch \subseteq Entries
  BY <1>1, <1>2, <1>3, ActivityLogAssumption DEF Entries
<1>4. CASE \E x \in Keys : worker[w].batch = {x}
  BY <1>1, <1>4
<1> QED
  BY <1>1, <1>3, <1>4 DEF LogInv, BatchInv

(* One instance takes a step, and rows are only added.                      *)
LEMMA WorkerKeeps ==
  ASSUME LogInv, NEW w \in Writers, NEW b \in BatchType, Become(w, b), UNCHANGED kind,
         deaths' \in 0..MaxDeaths, rows' \in [Keys -> {0, 1}],
         \A k \in Keys : rows[k] = 1 => rows'[k] = 1,
         b.batch \subseteq Entries \/ \E k \in Keys : b.batch = {k},
         b.at = "recovered" => b.batch \subseteq Entries,
         \A e \in b.batch \ RequestIds : kind[e] # "none",
         b.at = "done" =>
           \A k \in {x \in b.batch : \A d \in b.batch \ {x} : x < d} : Supported(k) => rows'[k] = 1
  PROVE  /\ worker' \in [Writers -> BatchType]
         /\ BatchInv' /\ (\A k \in Keys : rows'[k] \in {0, 1})
<1>1. /\ worker' \in [Writers -> BatchType] /\ worker'[w] = b
      /\ \A v \in Writers : v # w => worker'[v] = worker[v]
  BY LogTypes DEF Become
<1>2. \A k : Supported(k)' <=> Supported(k)
  BY DEF Supported
<1>3. \A v \in Writers : v # w => Current(v)' = Current(v)
  BY <1>1 DEF Current
<1>4. ASSUME NEW v \in Writers
      PROVE  /\ worker'[v].batch \subseteq Entries \/ \E k \in Keys : worker'[v].batch = {k}
             /\ worker'[v].at = "recovered" => worker'[v].batch \subseteq Entries
             /\ \A e \in worker'[v].batch \ RequestIds : kind'[e] # "none"
             /\ worker'[v].at = "done" => \A k \in Current(v)' : Supported(k) => rows'[k] = 1
  <2>1. CASE v = w
    <3>1. Current(v)' = {x \in b.batch : \A d \in b.batch \ {x} : x < d}
      BY <1>1, <2>1 DEF Current
    <3> QED
      BY <1>1, <2>1, <3>1
  <2>2. CASE v # w
    <3>1. /\ worker'[v] = worker[v] /\ Current(v)' = Current(v)
      BY <1>1, <1>3, <2>2
    <3>2. \A k \in Current(v) : k \in Keys
      BY OneFirst
    <3> QED
      BY <3>1, <3>2 DEF LogInv, BatchInv
  <2> QED
    BY <2>1, <2>2
<1>5. BatchInv'
  BY <1>2, <1>4 DEF BatchInv
<1> QED
  BY <1>1, <1>5

(* What is delivered was published.                                         *)
LEMMA DeliverKeeps ==
  ASSUME LogInv, NEW state \in {"new", "idle"}, Deliver(state), UNCHANGED <<kind, rows>>
  PROVE  /\ group' \in [Entries -> {"none", "new", "pending", "idle", "acked"}]
         /\ GroupInv'
         /\ \A e \in Read(state) \ RequestIds : kind[e] # "none"
         /\ Read(state) \subseteq Entries
BY LogTypes DEF Deliver, Read, LogInv, GroupInv

LEMMA NextOfTyped ==
  ASSUME NEW b \in SUBSET Keys
  PROVE  /\ NextOf(b) \in BatchType /\ NextOf(b).at \notin {"recovered", "done"}
         /\ NextOf(b).batch = b
BY RestingTyped DEF NextOf, BatchType

LEMMA SameRows ==
  ASSUME LogInv
  PROVE  rows \in [Keys -> {0, 1}]
BY LogTypes DEF LogInv, GroupInv

LEMMA ReadsKeep == ASSUME LogInv, NEW w \in Writers, Recover(w) \/ ReadNew(w) PROVE LogInv'
<1>1. CASE Recover(w)
  <2> DEFINE b == [at |-> "recovered", batch |-> Read("idle")]
  <2>1. Become(w, b) /\ Deliver("idle") /\ UNCHANGED <<kind, rows, deaths>>
    BY <1>1 DEF Recover
  <2>2. /\ group' \in [Entries -> {"none", "new", "pending", "idle", "acked"}] /\ GroupInv'
        /\ \A e \in Read("idle") \ RequestIds : kind[e] # "none"
        /\ Read("idle") \subseteq Entries
    BY <2>1, DeliverKeeps
  <2>3. b \in BatchType /\ b.batch = Read("idle") /\ b.at # "done"
    BY <2>2 DEF BatchType, Keys
  <2> HIDE DEF b
  <2>4. worker' \in [Writers -> BatchType] /\ BatchInv'
    BY <2>1, <2>2, <2>3, SameRows, LogTypes, WorkerKeeps
  <2>5. LogTypeOK'
    BY <2>1, <2>2, <2>4, LogTypes DEF LogTypeOK, BatchType
  <2> QED
    BY <2>2, <2>4, <2>5 DEF LogInv
<1>2. CASE ReadNew(w)
  <2> DEFINE s == worker[w].batch \cup Read("new")
  <2>1. Become(w, NextOf(s)) /\ Deliver("new") /\ UNCHANGED <<kind, rows, deaths>>
    BY <1>2 DEF ReadNew
  <2>2. /\ group' \in [Entries -> {"none", "new", "pending", "idle", "acked"}] /\ GroupInv'
        /\ \A e \in Read("new") \ RequestIds : kind[e] # "none"
        /\ Read("new") \subseteq Entries
    BY <2>1, DeliverKeeps
  <2>3. /\ s \in SUBSET Keys
        /\ \A e \in s \ RequestIds : kind[e] # "none"
    BY <2>2, LogTypes DEF LogInv, BatchInv, BatchType, Keys
  <2>4. s \subseteq Entries \/ \E k \in Keys : s = {k}
    BY <1>2, <2>2 DEF ReadNew, At, LogInv, BatchInv
  <2> HIDE DEF s
  <2>5. worker' \in [Writers -> BatchType] /\ BatchInv'
    BY <2>1, <2>3, <2>4, SameRows, LogTypes, NextOfTyped, WorkerKeeps
  <2>6. LogTypeOK'
    BY <2>1, <2>2, <2>5, LogTypes DEF LogTypeOK, BatchType
  <2> QED
    BY <2>2, <2>5, <2>6 DEF LogInv
<1> QED
  BY <1>1, <1>2

(* A request or a rest begins.                                              *)
LEMMA BeginsKeep ==
  ASSUME LogInv, NEW w \in Writers, Refuse(w) \/ Die(w) \/ \E k \in RequestIds : Call(w, k)
  PROVE  LogInv'
<1>1. PICK b \in BatchType : /\ Become(w, b) /\ b.at \notin {"recovered", "done"}
                             /\ b.batch = {} \/ \E k \in RequestIds : b.batch = {k}
  <2>1. CASE Refuse(w) \/ Die(w)
    BY <2>1, RestingTyped DEF Refuse, Die
  <2>2. ASSUME NEW k \in RequestIds, Call(w, k)
        PROVE  \E b \in BatchType : /\ Become(w, b) /\ b.at \notin {"recovered", "done"}
                                    /\ b.batch = {k}
    <3> DEFINE b == [at |-> "next", batch |-> {k}]
    <3>1. Become(w, b)
      BY <2>2 DEF Call
    <3>2. b \in BatchType /\ b.at = "next" /\ b.batch = {k}
      BY DEF BatchType, Keys
    <3> HIDE DEF b
    <3> QED
      BY <3>1, <3>2
  <2> QED
    BY <2>1, <2>2
<1>2. UNCHANGED <<kind, group, rows>> /\ deaths' \in 0..MaxDeaths
  <2>1. UNCHANGED <<kind, group, rows>>
    BY DEF Refuse, Die, Call
  <2>2. deaths' = deaths \/ (deaths < MaxDeaths /\ deaths' = deaths + 1)
    BY DEF Refuse, Die, Call
  <2>3. deaths \in 0..MaxDeaths /\ MaxDeaths \in Nat
    BY LogTypes, ActivityLogAssumption
  <2> QED
    BY <2>1, <2>2, <2>3
<1>3. /\ b.batch \subseteq Entries \/ \E k \in Keys : b.batch = {k}
      /\ \A e \in b.batch \ RequestIds : kind[e] # "none"
  BY <1>1 DEF Keys
<1>4. worker' \in [Writers -> BatchType] /\ BatchInv'
  BY <1>1, <1>2, <1>3, SameRows, WorkerKeeps
<1>5. LogTypeOK' /\ GroupInv'
  BY <1>2, <1>4, LogTypes DEF LogTypeOK, BatchType, LogInv, GroupInv
<1> QED
  BY <1>4, <1>5 DEF LogInv

(* One step further with the first entry.                                   *)
LEMMA FindKeeps == ASSUME LogInv, NEW w \in Writers, Find(w) PROVE LogInv'
<1>0. Find(w)
  OBVIOUS
<1>1. PICK k \in Current(w) :
        Become(w, [worker[w] EXCEPT !.at = IF Supported(k) /\ rows[k] = 0 THEN "absent" ELSE "done"])
  BY <1>0 DEF Find
<1>2. UNCHANGED <<kind, group, rows, deaths>>
  BY DEF Find
<1> DEFINE b == [worker[w] EXCEPT !.at = IF Supported(k) /\ rows[k] = 0 THEN "absent" ELSE "done"]
<1>3. /\ b \in BatchType /\ b.batch = worker[w].batch
      /\ b.at = IF Supported(k) /\ rows[k] = 0 THEN "absent" ELSE "done"
  BY LogTypes DEF BatchType
<1>4. Become(w, b)
  BY <1>1
<1> HIDE DEF b
<1>5. b.at = "done" =>
        \A x \in {y \in b.batch : \A d \in b.batch \ {y} : y < d} : Supported(x) => rows[x] = 1
  <2> SUFFICES ASSUME b.at = "done", NEW x \in Current(w), Supported(x)
               PROVE  rows[x] = 1
    BY <1>3 DEF Current
  <2>1. x = k /\ k \in Keys
    BY OneFirst
  <2> QED
    BY <1>3, <2>1, SameRows
<1>6. /\ b.batch \subseteq Entries \/ \E x \in Keys : b.batch = {x}
      /\ \A e \in b.batch \ RequestIds : kind[e] # "none"
      /\ b.at # "recovered"
  BY <1>3 DEF LogInv, BatchInv
<1>7. worker' \in [Writers -> BatchType] /\ BatchInv'
  BY <1>2, <1>3, <1>4, <1>5, <1>6, SameRows, LogTypes, WorkerKeeps
<1>8. LogTypeOK' /\ GroupInv'
  BY <1>2, <1>7, LogTypes DEF LogTypeOK, BatchType, LogInv, GroupInv
<1> QED
  BY <1>7, <1>8 DEF LogInv

LEMMA CreateKeeps == ASSUME LogInv, NEW w \in Writers, Create(w) PROVE LogInv'
<1>0. Create(w)
  OBVIOUS
<1>1. PICK k \in Current(w) : Insert(k)
  BY <1>0 DEF Create
<1>2. UNCHANGED <<kind, group, deaths>> /\ Become(w, [worker[w] EXCEPT !.at = "done"])
  BY DEF Create
<1> DEFINE b == [worker[w] EXCEPT !.at = "done"]
<1>3. b \in BatchType /\ b.batch = worker[w].batch /\ b.at = "done"
  BY LogTypes DEF BatchType
<1>4. Become(w, b)
  BY <1>2
<1> HIDE DEF b
<1>5. k \in Keys
  BY OneFirst
<1>6. /\ rows' \in [Keys -> {0, 1}] /\ rows'[k] = 1
      /\ \A x \in Keys : rows[x] = 1 => rows'[x] = 1
  BY <1>1, <1>5, SameRows DEF Insert
<1>7. \A x \in {y \in b.batch : \A d \in b.batch \ {y} : y < d} : rows'[x] = 1
  <2> SUFFICES ASSUME NEW x \in Current(w) PROVE rows'[x] = 1
    BY <1>3 DEF Current
  <2> QED
    BY <1>6, OneFirst
<1>8. /\ b.batch \subseteq Entries \/ \E x \in Keys : b.batch = {x}
      /\ \A e \in b.batch \ RequestIds : kind[e] # "none"
  BY <1>3 DEF LogInv, BatchInv
<1>9. worker' \in [Writers -> BatchType] /\ BatchInv'
  BY <1>2, <1>3, <1>4, <1>6, <1>7, <1>8, LogTypes, WorkerKeeps
<1>10. GroupInv'
  BY <1>2, <1>6 DEF LogInv, GroupInv, Keys
<1>11. LogTypeOK'
  BY <1>2, <1>6, <1>9, LogTypes DEF LogTypeOK, BatchType
<1> QED
  BY <1>9, <1>10, <1>11 DEF LogInv

(* What is acknowledged has its log.                                        *)
LEMMA AckKeeps == ASSUME LogInv, NEW w \in Writers, Ack(w) PROVE LogInv'
<1>0. Ack(w)
  OBVIOUS
<1>1. PICK k \in Current(w) :
        /\ group' = IF k \in Entries THEN [group EXCEPT ![k] = "acked"] ELSE group
        /\ Become(w, NextOf(worker[w].batch \ {k}))
  BY <1>0 DEF Ack
<1>2. UNCHANGED <<kind, rows, deaths>> /\ worker[w].at = "done"
  BY DEF Ack, At
<1>3. k \in worker[w].batch /\ k \in Keys
  BY OneFirst
<1> DEFINE s == worker[w].batch \ {k}
<1>4. /\ s \in SUBSET Keys
      /\ \A e \in s \ RequestIds : kind[e] # "none"
  BY LogTypes DEF LogInv, BatchInv, BatchType
<1>5. s \subseteq Entries \/ \E x \in Keys : s = {x}
  <2>1. CASE worker[w].batch \subseteq Entries
    BY <2>1
  <2>2. CASE \E x \in Keys : worker[w].batch = {x}
    BY <1>3, <2>2
  <2> QED
    BY <2>1, <2>2 DEF LogInv, BatchInv
<1>6. Become(w, NextOf(s))
  BY <1>1
<1> HIDE DEF s
<1>7. worker' \in [Writers -> BatchType] /\ BatchInv'
  BY <1>2, <1>4, <1>5, <1>6, SameRows, LogTypes, NextOfTyped, WorkerKeeps
<1>8. /\ group' \in [Entries -> {"none", "new", "pending", "idle", "acked"}]
      /\ \A e \in Entries : group'[e] # group[e] => e = k
  BY <1>1, LogTypes
<1>9. /\ k \in Entries \ RequestIds => kind[k] # "none"
      /\ k \in Entries /\ kind[k] = "event" => rows[k] = 1
  BY <1>2, <1>3 DEF LogInv, BatchInv, Supported
<1>10. GroupInv'
  BY <1>2, <1>8, <1>9 DEF LogInv, GroupInv
<1>11. LogTypeOK'
  BY <1>2, <1>7, <1>8, LogTypes DEF LogTypeOK, BatchType
<1> QED
  BY <1>7, <1>10, <1>11 DEF LogInv

(* The stream grows, and what is pending ages.                              *)
LEMMA StreamKeeps ==
  ASSUME LogInv, (\E k \in Kinds : Publish(k)) \/ \E e \in Entries : Age(e)
  PROVE  LogInv'
<1>1. ASSUME NEW e \in Entries, Age(e) PROVE LogInv'
  <2>1. /\ UNCHANGED <<kind, worker, rows, deaths>> /\ group[e] = "pending"
        /\ group' = [group EXCEPT ![e] = "idle"]
    BY <1>1 DEF Age
  <2>2. LogTypeOK' /\ GroupInv'
    BY <2>1, LogTypes DEF LogTypeOK, BatchType, LogInv, GroupInv
  <2>3. BatchInv'
    BY <2>1 DEF LogInv, BatchInv, Current, Supported
  <2> QED
    BY <2>2, <2>3 DEF LogInv
<1>2. ASSUME NEW k \in Kinds, NEW e \in Entries, kind[e] = "none",
             kind' = [kind EXCEPT ![e] = k], group' = [group EXCEPT ![e] = "new"],
             UNCHANGED <<worker, rows, deaths>>
      PROVE  LogInv'
  <2>1. /\ kind' \in [Entries -> Kinds \cup {"none"}] /\ kind'[e] = k /\ k # "none"
        /\ \A d \in Entries : d # e => kind'[d] = kind[d]
    BY <1>2, LogTypes DEF Kinds
  <2>2. /\ group' \in [Entries -> {"none", "new", "pending", "idle", "acked"}] /\ group'[e] = "new"
        /\ \A d \in Entries : d # e => group'[d] = group[d]
    BY <1>2, LogTypes
  <2>3. LogTypeOK' /\ GroupInv'
    BY <1>2, <2>1, <2>2, LogTypes DEF LogTypeOK, BatchType, LogInv, GroupInv
  <2>4. ASSUME NEW w \in Writers
        PROVE  /\ worker[w].batch \subseteq Entries \/ \E x \in Keys : worker[w].batch = {x}
               /\ worker[w].at = "recovered" => worker[w].batch \subseteq Entries
               /\ \A d \in worker[w].batch \ RequestIds : kind'[d] # "none"
               /\ worker[w].at = "done" =>
                    \A x \in Current(w) : (x \in RequestIds \/ kind'[x] = "event") => rows[x] = 1
    <3>1. \A d \in worker[w].batch : d \in Keys
      BY LogTypes DEF BatchType
    <3>2. \A d \in worker[w].batch \ RequestIds : d \in Entries /\ kind[d] # "none" /\ d # e
      BY <1>2, <3>1 DEF LogInv, BatchInv, Keys
    <3>3. \A d \in worker[w].batch \ RequestIds : kind'[d] = kind[d]
      BY <2>1, <3>2
    <3>4. \A x \in Current(w) : x \in worker[w].batch
      BY DEF Current
    <3>5. /\ worker[w].batch \subseteq Entries \/ \E x \in Keys : worker[w].batch = {x}
          /\ worker[w].at = "recovered" => worker[w].batch \subseteq Entries
          /\ worker[w].at = "done" =>
               \A x \in Current(w) : (x \in RequestIds \/ kind[x] = "event") => rows[x] = 1
      BY DEF LogInv, BatchInv, Supported
    <3> QED
      BY <3>2, <3>3, <3>4, <3>5
  <2>5. BatchInv'
    BY <1>2, <2>4 DEF BatchInv, Current, Supported
  <2> QED
    BY <2>3, <2>5 DEF LogInv
<1> QED
  BY <1>1, <1>2 DEF Publish

LEMMA LogStep == LogInv /\ [LogNext]_logVars => LogInv'
<1> SUFFICES ASSUME LogInv, [LogNext]_logVars PROVE LogInv'
  OBVIOUS
<1>1. CASE (\E k \in Kinds : Publish(k)) \/ \E e \in Entries : Age(e)
  BY <1>1, StreamKeeps
<1>2. ASSUME NEW w \in Writers,
             \/ Recover(w) \/ ReadNew(w) \/ Find(w) \/ Create(w) \/ Ack(w) \/ Refuse(w) \/ Die(w)
             \/ \E k \in RequestIds : Call(w, k)
      PROVE  LogInv'
  BY <1>2, ReadsKeep, FindKeeps, CreateKeeps, AckKeeps, BeginsKeep
<1>3. CASE UNCHANGED logVars
  BY <1>3 DEF logVars, LogInv, LogTypeOK, BatchInv, GroupInv, Current, Supported
<1> QED
  BY <1>1, <1>2, <1>3 DEF LogNext

LEMMA LogInvariance == LogSpec => []LogInv
BY LogInitInv, LogStep, PTL DEF LogSpec

(* However often Redis delivers an entry, and however many instances and    *)
(* TCP callers create at once, a dedupeKey has one log at most, and an      *)
(* event is acknowledged only once its log is there (create(), ack()).      *)
THEOREM OneLogEach == LogSpec => []LoggedOnce
<1>1. LogInv => LoggedOnce
  BY DEF LogInv, GroupInv, LoggedOnce
<1> QED
  BY <1>1, LogInvariance, PTL

-----------------------------------------------------------------------------
(***************************************************************************)
(* Gateway                                                                 *)
(***************************************************************************)

Places == {"new", "admitted", "validate", "dispatch", "wait", "over"}
Answers == {"none", "throttled", "rejected", "ok", "refused", "broken", "timeout"}
States == {"unsent", "sent", "done", "refused"}
RequestType == [mapping : Mappings, tries : 0..2, at : Places, answer : Answers]

(* A request r and the commands m it has sent: only requests that were      *)
(* admitted and validated send any, one at a time, and each of them tells   *)
(* what became of it.                                                       *)
Consistent(r, m) ==
  /\ r.at # "over" => r.answer = "none"
  /\ r.at \in {"new", "admitted", "validate"} => r.tries = 0
  /\ r.at = "wait" => r.tries > 0 /\ ~r.mapping.queued
  /\ ~r.mapping.retry => r.tries <= 1
  /\ r.mapping.queued => /\ r.tries = 0 /\ m[2] = "unsent" /\ m[1] \in {"unsent", "done"}
                         /\ r.at # "over" => m[1] = "unsent"
                         /\ r.answer # "refused"
  /\ ~r.mapping.queued => \A n \in Attempts : n > r.tries => m[n] = "unsent"
  /\ r.answer \in {"throttled", "rejected"} => \A n \in Attempts : m[n] = "unsent"
  /\ r.answer = "ok" => m[1] = "done" \/ m[2] = "done"
  /\ r.answer = "refused" /\ ~r.mapping.retry => m[1] = "refused" /\ m[2] = "unsent"

GatewayInv ==
  /\ request \in [Calls -> RequestType]
  /\ command \in [Calls -> [Attempts -> States]]
  /\ \A c \in Calls : Consistent(request[c], command[c])

-----------------------------------------------------------------------------
LEMMA UnusedIsMapping == Unused \in Mappings /\ ~Unused.queued /\ Unused.retry
<1>1. Unused \in Flags /\ ~Unused.roles /\ Unused.scope = "none" /\ ~Unused.queued /\ Unused.retry
  BY DEF Unused, Flags
<1> QED
  BY <1>1 DEF Mappings

LEMMA GatewayInitInv == GatewayInit => GatewayInv
<1> SUFFICES ASSUME GatewayInit
             PROVE  GatewayInv
  OBVIOUS
<1> DEFINE r == [mapping |-> Unused, at |-> "new", tries |-> 0, answer |-> "none"]
           m == [n \in Attempts |-> "unsent"]
<1>1. r \in RequestType /\ m \in [Attempts -> States]
  BY UnusedIsMapping DEF RequestType, Places, Answers, States
<1>2. Consistent(r, m)
  BY UnusedIsMapping DEF Consistent, Attempts
<1> HIDE DEF r, m
<1>3. request = [c \in Calls |-> r] /\ command = [c \in Calls |-> m]
  BY DEF GatewayInit, r, m
<1> QED
  BY <1>1, <1>2, <1>3 DEF GatewayInv

(* A step of one request.                                                   *)
LEMMA OneRequest ==
  ASSUME GatewayInv, NEW c \in Calls, NEW r \in RequestType, NEW m \in [Attempts -> States], Consistent(r, m),
         request' = [request EXCEPT ![c] = r], command' = [command EXCEPT ![c] = m]
  PROVE  GatewayInv'
BY DEF GatewayInv

(* A step that sends nothing and leaves the commands of the request alone.  *)
LEMMA RequestMoves ==
  ASSUME GatewayInv, NEW c \in Calls, NEW r \in RequestType, Consistent(r, command[c]),
         request' = [request EXCEPT ![c] = r], UNCHANGED command
  PROVE  GatewayInv'
BY DEF GatewayInv

LEMMA AdmitKeeps ==
  ASSUME GatewayInv, NEW c \in Calls, NEW m \in Mappings, NEW token, NEW hasRole \in BOOLEAN,
         NEW listed \in BOOLEAN, Admit(c, m, token, hasRole, listed)
  PROVE  GatewayInv'
<1> DEFINE r(a) == [request[c] EXCEPT !.mapping = m, !.answer = a,
                                      !.at = IF a = "none" THEN "admitted" ELSE "over"]
<1>1. PICK a \in {"none", "rejected", "throttled"} : request' = [request EXCEPT ![c] = r(a)]
  BY DEF Admit
<1>2. request[c] \in RequestType /\ request[c].tries = 0 /\ UNCHANGED command
  BY DEF GatewayInv, Admit, Consistent
<1>3. \A n \in Attempts : command[c][n] = "unsent"
  BY DEF GatewayInv, Consistent, Admit, Attempts, RequestType
<1>4. r(a) \in RequestType
  BY <1>2 DEF RequestType, Places, Answers
<1>5. /\ r(a).mapping = m /\ r(a).answer = a /\ r(a).tries = 0
      /\ r(a).at = IF a = "none" THEN "admitted" ELSE "over"
  BY <1>2 DEF RequestType
<1>6. Consistent(r(a), command[c])
  BY <1>3, <1>5 DEF Consistent, Attempts
<1> HIDE DEF r
<1> QED
  BY <1>1, <1>2, <1>4, <1>6, RequestMoves

(* The steps before a command is sent.                                      *)
LEMMA RefuseKeeps ==
  ASSUME GatewayInv, NEW c \in Calls, request[c].at \in {"admitted", "validate"}, Answer(c, "rejected"),
         UNCHANGED command
  PROVE  GatewayInv'
<1> DEFINE r == [request[c] EXCEPT !.at = "over", !.answer = "rejected"]
<1>1. request[c] \in RequestType /\ request' = [request EXCEPT ![c] = r]
  BY DEF GatewayInv, Answer
<1>2. \A n \in Attempts : command[c][n] = "unsent"
  BY DEF GatewayInv, Consistent, Attempts, RequestType
<1>3. r \in RequestType
  BY <1>1 DEF RequestType, Places, Answers
<1>4. r.at = "over" /\ r.answer = "rejected" /\ r.tries = request[c].tries
      /\ r.mapping = request[c].mapping
  BY <1>1 DEF RequestType
<1>5. Consistent(r, command[c])
  BY <1>2, <1>4 DEF Consistent, Attempts, GatewayInv
<1> HIDE DEF r
<1> QED
  BY <1>1, <1>3, <1>5, RequestMoves

LEMMA GoKeeps ==
  ASSUME GatewayInv, NEW c \in Calls, NEW step \in {"validate", "dispatch"},
         \/ request[c].at \in {"admitted", "validate"}
         \/ request[c].at = "wait" /\ step = "dispatch",
         GoesTo(c, step), UNCHANGED command
  PROVE  GatewayInv'
<1> DEFINE r == [request[c] EXCEPT !.at = step]
<1>1. request[c] \in RequestType /\ request' = [request EXCEPT ![c] = r]
  BY DEF GatewayInv, GoesTo
<1>2. r \in RequestType
  BY <1>1 DEF RequestType, Places
<1>3. r.at = step /\ r.answer = request[c].answer /\ r.tries = request[c].tries
      /\ r.mapping = request[c].mapping
  BY <1>1 DEF RequestType
<1>4. Consistent(request[c], command[c])
  BY DEF GatewayInv
<1> HIDE DEF r
<1>5. Consistent(r, command[c])
  BY <1>3, <1>4 DEF Consistent
<1> QED
  BY <1>1, <1>2, <1>5, RequestMoves

LEMMA ReceiveKeeps ==
  ASSUME GatewayInv, NEW c \in Calls, NEW named \in BOOLEAN, Receive(c, named)
  PROVE  GatewayInv'
<1> DEFINE m == request[c].mapping
<1>1. request[c] \in RequestType /\ request[c].at = "admitted" /\ UNCHANGED command
      /\ request[c].answer = "none"
  BY DEF GatewayInv, Receive, Consistent
<1>2. CASE m.scope = "must" /\ ~named
  <2>1. Answer(c, "rejected")
    BY <1>2 DEF Receive, Answer
  <2> QED
    BY <1>1, <2>1, RefuseKeeps
<1>3. ASSUME ~(m.scope = "must" /\ ~named)
      PROVE  \E step \in {"validate", "dispatch"} : GoesTo(c, step)
  <2>1. PICK step \in {"validate", "dispatch"} :
          request' = [request EXCEPT ![c].at = step, ![c].answer = request[c].answer]
    BY <1>3 DEF Receive
  <2>2. [request EXCEPT ![c].at = step, ![c].answer = request[c].answer] = [request EXCEPT ![c].at = step]
    BY <1>1 DEF RequestType
  <2> QED
    BY <2>1, <2>2 DEF GoesTo
<1> QED
  BY <1>1, <1>2, <1>3, GoKeeps

(* A queued command is added to the queue once.                             *)
LEMMA EnqueueKeeps ==
  ASSUME GatewayInv, NEW c \in Calls, NEW key, Enqueue(c, key)
  PROVE  GatewayInv'
<1> DEFINE r(a) == [request[c] EXCEPT !.at = "over", !.answer = a]
           m(s) == [command[c] EXCEPT ![1] = s]
<1>1. /\ request[c] \in RequestType /\ command[c] \in [Attempts -> States]
      /\ Consistent(request[c], command[c])
      /\ request[c].at = "dispatch" /\ request[c].mapping.queued
  BY DEF GatewayInv, Enqueue
<1>2. \E a \in {"rejected", "ok", "broken"}, s \in {"unsent", "done"} :
        /\ request' = [request EXCEPT ![c] = r(a)] /\ command' = [command EXCEPT ![c] = m(s)]
        /\ a = "rejected" => s = "unsent"
        /\ a = "ok" => s = "done"
  <2>1. m("unsent") = command[c]
    BY <1>1 DEF Consistent, Attempts
  <2>2. [command EXCEPT ![c] = command[c]] = command
    BY DEF GatewayInv
  <2>3. CASE Answer(c, "rejected") /\ UNCHANGED command
    BY <2>1, <2>2, <2>3 DEF Answer
  <2>4. CASE Answer(c, "ok") /\ command' = [command EXCEPT ![c][1] = "done"]
    BY <2>4 DEF Answer
  <2>5. CASE Answer(c, "broken") /\ \E s \in {"done", "unsent"} : command' = [command EXCEPT ![c][1] = s]
    BY <2>5 DEF Answer
  <2> QED
    BY <2>3, <2>4, <2>5 DEF Enqueue
<1>3. PICK a \in {"rejected", "ok", "broken"}, s \in {"unsent", "done"} :
        /\ request' = [request EXCEPT ![c] = r(a)] /\ command' = [command EXCEPT ![c] = m(s)]
        /\ a = "rejected" => s = "unsent"
        /\ a = "ok" => s = "done"
  BY <1>2
<1>4. r(a) \in RequestType
  BY <1>1 DEF RequestType, Places, Answers
<1>5. r(a).at = "over" /\ r(a).answer = a /\ r(a).tries = request[c].tries
      /\ r(a).mapping = request[c].mapping
  BY <1>1 DEF RequestType
<1>6. m(s) \in [Attempts -> States] /\ m(s)[1] = s /\ m(s)[2] = command[c][2]
  BY <1>1 DEF Attempts, States
<1> HIDE DEF r, m
<1>7. Consistent(r(a), m(s))
  BY <1>1, <1>3, <1>5, <1>6 DEF Consistent, Attempts
<1> QED
  BY <1>3, <1>4, <1>6, <1>7, OneRequest

(* The next attempt is sent after the timeout of the one before.            *)
LEMMA SendKeeps ==
  ASSUME GatewayInv, NEW c \in Calls, Send(c)
  PROVE  GatewayInv'
<1> DEFINE n == request[c].tries + 1
           r == [request[c] EXCEPT !.at = "wait", !.tries = n]
           m == [command[c] EXCEPT ![n] = "sent"]
<1>1. /\ request[c] \in RequestType /\ command[c] \in [Attempts -> States]
      /\ Consistent(request[c], command[c])
      /\ request[c].at = "dispatch" /\ ~request[c].mapping.queued
      /\ n \in Attempts /\ (~request[c].mapping.retry => n <= 1)
  BY DEF GatewayInv, Send, MaxAttempts, Attempts, RequestType
<1>2. request' = [request EXCEPT ![c] = r] /\ command' = [command EXCEPT ![c] = m]
  BY DEF Send
<1>3. r \in RequestType
  <2>1. n \in 0..2
    BY <1>1 DEF Attempts
  <2> HIDE DEF n
  <2> QED
    BY <1>1, <2>1 DEF RequestType, Places
<1>4. r.at = "wait" /\ r.answer = request[c].answer /\ r.tries = n /\ r.mapping = request[c].mapping
  BY <1>1 DEF RequestType
<1>5. m \in [Attempts -> States] /\ \A k \in Attempts : k > n => m[k] = command[c][k]
  BY <1>1 DEF Attempts, States
<1> HIDE DEF r, m
<1>6. Consistent(r, m)
  BY <1>1, <1>4, <1>5 DEF Consistent, Attempts, RequestType
<1> QED
  BY <1>2, <1>3, <1>5, <1>6, OneRequest

(* The service executes what has reached it.                                *)
LEMMA ExecuteKeeps ==
  ASSUME GatewayInv, NEW c \in Calls, NEW n \in Attempts, Execute(c, n)
  PROVE  GatewayInv'
<1>1. PICK s \in {"done", "refused"} : command' = [command EXCEPT ![c][n] = s]
  BY DEF Execute
<1> DEFINE m == [command[c] EXCEPT ![n] = s]
<1>2. /\ request[c] \in RequestType /\ command[c] \in [Attempts -> States]
      /\ Consistent(request[c], command[c]) /\ command[c][n] = "sent"
  BY DEF GatewayInv, Execute
<1>3. request' = [request EXCEPT ![c] = request[c]] /\ command' = [command EXCEPT ![c] = m]
  BY <1>1 DEF Execute, GatewayInv
<1>4. m \in [Attempts -> States] /\ m[n] = s /\ \A k \in Attempts \ {n} : m[k] = command[c][k]
  BY <1>2 DEF States
<1> HIDE DEF m
<1>5. Consistent(request[c], m)
  BY <1>2, <1>4 DEF Consistent, Attempts, RequestType
<1> QED
  BY <1>2, <1>3, <1>4, <1>5, OneRequest

(* The client's request ends.                                               *)
LEMMA OverKeeps ==
  ASSUME GatewayInv, NEW c \in Calls, NEW a \in {"ok", "refused", "broken", "timeout"},
         request[c].at = "wait", Answer(c, a), UNCHANGED command,
         a = "ok" => command[c][request[c].tries] = "done",
         a = "refused" => command[c][request[c].tries] = "refused"
  PROVE  GatewayInv'
<1> DEFINE r == [request[c] EXCEPT !.at = "over", !.answer = a]
<1>1. /\ request[c] \in RequestType /\ request' = [request EXCEPT ![c] = r]
      /\ Consistent(request[c], command[c])
  BY DEF GatewayInv, Answer
<1>2. r \in RequestType
  BY <1>1 DEF RequestType, Places, Answers
<1>3. r.at = "over" /\ r.answer = a /\ r.tries = request[c].tries /\ r.mapping = request[c].mapping
  BY <1>1 DEF RequestType
<1> HIDE DEF r
<1>4. Consistent(r, command[c])
  BY <1>1, <1>3 DEF Consistent, Attempts, RequestType
<1> QED
  BY <1>1, <1>2, <1>4, RequestMoves

LEMMA AnsweredKeeps ==
  ASSUME GatewayInv, NEW c \in Calls, Answered(c)
  PROVE  GatewayInv'
BY OverKeeps DEF Answered

LEMMA TimeoutKeeps ==
  ASSUME GatewayInv, NEW c \in Calls, TcpTimeout(c)
  PROVE  GatewayInv'
BY OverKeeps, GoKeeps DEF TcpTimeout

LEMMA GatewayStepInv == GatewayInv /\ [GatewayNext]_gatewayVars => GatewayInv'
<1> SUFFICES ASSUME GatewayInv, [GatewayNext]_gatewayVars
             PROVE  GatewayInv'
  OBVIOUS
<1>1. CASE UNCHANGED gatewayVars
  BY <1>1 DEF gatewayVars, GatewayInv
<1>2. ASSUME NEW c \in Calls, Unresolved(c) \/ Validate(c)
      PROVE  GatewayInv'
  BY <1>2, RefuseKeeps, GoKeeps DEF Unresolved, Validate
<1>3. ASSUME NEW c \in Calls, NEW header \in GivenKeys, NEW body \in GivenKeys,
             Enqueue(c, IdempotencyKey(header, body))
      PROVE  GatewayInv'
  BY <1>3, EnqueueKeeps
<1> QED
  BY <1>1, <1>2, <1>3, AdmitKeeps, ReceiveKeeps, SendKeeps, TimeoutKeeps, AnsweredKeeps, ExecuteKeeps
     DEF GatewayNext

LEMMA GatewayInvariance == GatewaySpec => []GatewayInv
BY GatewayInitInv, GatewayStepInv, PTL DEF GatewaySpec

-----------------------------------------------------------------------------
LEMMA AnswersFollow == GatewayInv => AnswersAreTrue
<1> SUFFICES ASSUME GatewayInv, NEW c \in Calls
             PROVE  LET r == request[c]
                        did == {n \in Attempts : command[c][n] = "done"}
                        once == ~r.mapping.retry \/ r.mapping.queued IN
                      /\ r.answer \in {"throttled", "rejected"} =>
                           \A n \in Attempts : command[c][n] = "unsent"
                      /\ r.answer = "ok" => did # {}
                      /\ once => Cardinality(did) <= 1
                      /\ once /\ r.answer = "refused" => did = {}
  BY DEF AnswersAreTrue
<1> DEFINE r == request[c]
           did == {n \in Attempts : command[c][n] = "done"}
           once == ~r.mapping.retry \/ r.mapping.queued
<1>1. Consistent(r, command[c]) /\ r \in RequestType
  BY DEF GatewayInv
<1>2. r.answer = "ok" => did # {}
  BY <1>1 DEF Consistent, Attempts
<1>3. once => did = {} \/ did = {1}
  BY <1>1 DEF Consistent, Attempts, RequestType
<1>4. Cardinality({}) = 0 /\ Cardinality({1}) = 1
  BY FS_EmptySet, FS_Singleton
<1>5. once /\ r.answer = "refused" => did = {}
  BY <1>1 DEF Consistent, Attempts, RequestType
<1>6. once => Cardinality(did) <= 1
  <2> HIDE DEF did
  <2> QED
    BY <1>3, <1>4
<1> QED
  BY <1>1, <1>2, <1>5, <1>6 DEF Consistent

(* What the gateway tells a client stays true: sendWithRetry(), enqueue().  *)
THEOREM TrueAnswers == GatewaySpec => []AnswersAreTrue
BY AnswersFollow, GatewayInvariance, PTL
===============================================================================
