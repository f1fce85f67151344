------------------------- MODULE OrderLifecycleProofs -------------------------
(***************************************************************************)
(* Proofs about OrderLifecycle, for any number of orders, users, vendedores *)
(* and requests in flight.                                                  *)
(***************************************************************************)
EXTENDS OrderLifecycle, SequenceTheorems, TLAPS

Seller(u, o) == RoleOf[u] = "VENDEDOR" /\ ProfileOf[u] = SellerOf[o]

(* What a request in flight has established; it stays true because it      *)
(* speaks of constants and of what the request has read, not of the order.  *)
Authorised(q) ==
  \/ Seller(q.user, q.order) /\ q.next \in ORDER_TRANSITIONS[q.seen]
  \/ /\ RoleOf[q.user] = "CLIENTE" /\ q.user = OwnerOf[q.order]
     /\ q.seen = "PENDIENTE" /\ q.next = "CANCELADO"

ReqInv ==
  \A r \in Requests : req[r].pc # "idle" =>
    /\ req[r].user \in Users /\ req[r].order \in Orders
    /\ req[r].seen \in Estados /\ req[r].next \in Estados
    /\ req[r].pc = "authorise" => RoleOf[req[r].user] = "VENDEDOR"
    /\ req[r].pc = "write" => Authorised(req[r])

(* The number of rows an order has by the time it reaches an estado.        *)
Rank(e) == CASE e = "NONE" -> 0
             [] e = "PENDIENTE" -> 1
             [] e = "CONFIRMADO" -> 2
             [] e = "EN_CAMINO" -> 3
             [] OTHER -> 4

Types ==
  /\ estado \in [Orders -> Estados \cup {"NONE"}]
  /\ history \in [Orders -> Seq(RowType)]
  /\ req \in [Requests -> ReqType]

Inv ==
  /\ Types
  /\ ReqInv
  /\ HistoryTellsEstado
  /\ \A o \in Orders : Len(history[o]) <= Rank(estado[o])

-----------------------------------------------------------------------------
(* A move of the table leads one rank up, or to a terminal estado.           *)
LEMMA TableClimbs ==
  ASSUME NEW from \in Estados, NEW to \in ORDER_TRANSITIONS[from]
  PROVE  /\ to \in Estados
         /\ from \in {"PENDIENTE", "CONFIRMADO", "EN_CAMINO"}
         /\ Rank(from) + 1 <= Rank(to)
BY DEF Estados, ORDER_TRANSITIONS, Rank

LEMMA RankBound == \A e : Rank(e) \in 0..4
BY DEF Rank

(* Appending a row to a history. *)
LEMMA AppendFacts ==
  ASSUME NEW s \in Seq(RowType), NEW x \in RowType
  PROVE  /\ Append(s, x) \in Seq(RowType)
         /\ Append(s, x) # << >>
         /\ Len(Append(s, x)) = Len(s) + 1
         /\ Append(s, x)[Len(Append(s, x))] = x
         /\ \A i \in 1..Len(s) : Append(s, x)[i] = s[i]
OBVIOUS

(* Who may write, may take the step from what was read to what is written.   *)
LEMMA AuthorisedMoves ==
  ASSUME NEW q \in ReqType, q.seen \in Estados, Authorised(q)
  PROVE  q.next \in ORDER_TRANSITIONS[q.seen]
BY DEF Authorised, ORDER_TRANSITIONS, Estados

(* What a write does to the order, its history and the requests.             *)
LEMMA WriteFacts ==
  ASSUME Inv, NEW r \in Requests, Write(r)
  PROVE  LET o == req[r].order
             x == Row(req[r].seen, req[r].next, req[r].user) IN
         /\ o \in Orders
         /\ x \in RowType
         /\ x.from = estado[o] /\ x.to = req[r].next /\ x.by = req[r].user
         /\ estado[o] \in Estados
         /\ x.to \in ORDER_TRANSITIONS[estado[o]]
         /\ Authorised(req[r])
         /\ estado' = [estado EXCEPT ![o] = x.to]
         /\ history' = [history EXCEPT ![o] = Append(@, x)]
<1> USE DEF Inv
<1>1. /\ req[r].order \in Orders /\ req[r].user \in Users
      /\ req[r].seen \in Estados /\ req[r].next \in Estados
      /\ Authorised(req[r])
  BY DEF Write, ReqInv
<1>2. req[r].next \in ORDER_TRANSITIONS[req[r].seen]
  BY <1>1, AuthorisedMoves DEF Types
<1> QED
  BY <1>1, <1>2 DEF Write, Unchanged, AppendHistory, Row, RowType

LEMMA InitInv == LifecycleInit => Inv
<1> SUFFICES ASSUME LifecycleInit PROVE Inv
  OBVIOUS
<1>1. IdleReq \in ReqType
  BY DEF IdleReq, ReqType
<1>2. Types
  BY <1>1 DEF LifecycleInit, Types
<1>3. ReqInv
  BY DEF LifecycleInit, ReqInv, IdleReq
<1>4. HistoryTellsEstado /\ \A o \in Orders : Len(history[o]) <= Rank(estado[o])
  BY DEF LifecycleInit, HistoryTellsEstado, Rank
<1> QED
  BY <1>2, <1>3, <1>4 DEF Inv

LEMMA NextInv == Inv /\ [LifecycleNext]_lifecycleVars => Inv'
<1> SUFFICES ASSUME Inv, [LifecycleNext]_lifecycleVars PROVE Inv'
  OBVIOUS
<1> USE DEF Inv
<1>0. IdleReq \in ReqType /\ IdleReq.pc = "idle"
  BY DEF IdleReq, ReqType
<1>1. ASSUME NEW o \in Orders, Place(o) PROVE Inv'
  <2> DEFINE x == Row("NONE", "PENDIENTE", OwnerOf[o])
  <2>1. x \in RowType /\ x.to = "PENDIENTE"
    BY ActorsAssumption DEF Row, RowType, Estados
  <2> HIDE DEF x
  <2>2. <<x>> \in Seq(RowType) /\ Len(<<x>>) = 1 /\ <<x>>[1] = x /\ <<x>> # << >>
    BY <2>1
  <2>3. estado' = [estado EXCEPT ![o] = "PENDIENTE"] /\ history' = [history EXCEPT ![o] = <<x>>]
    BY <1>1 DEF Place, x
  <2>4. Types'
    BY <1>1, <2>2, <2>3 DEF Place, Types, Estados
  <2>5. ReqInv'
    BY <1>1 DEF Place, ReqInv, Authorised, Seller
  <2>6. HistoryTellsEstado'
    BY <2>1, <2>2, <2>3 DEF HistoryTellsEstado, Types
  <2>7. (\A p \in Orders : Len(history[p]) <= Rank(estado[p]))'
    BY <2>2, <2>3 DEF Types, Rank
  <2> QED
    BY <2>4, <2>5, <2>6, <2>7
(* The steps that only change one request. *)
<1>2. ASSUME NEW r \in Requests, NEW q \in ReqType, req' = [req EXCEPT ![r] = q],
             UNCHANGED <<estado, history>>,
             q.pc # "idle" =>
               /\ q.user \in Users /\ q.order \in Orders
               /\ q.seen \in Estados /\ q.next \in Estados
               /\ q.pc = "authorise" => RoleOf[q.user] = "VENDEDOR"
               /\ q.pc = "write" => Authorised(q)
      PROVE  Inv'
  <2>1. Types'
    BY <1>2 DEF Types
  <2>2. ReqInv'
    BY <1>2 DEF Types, ReqInv
  <2> QED
    BY <1>2, <2>1, <2>2 DEF HistoryTellsEstado
<1>3. ASSUME NEW r \in Requests, NEW u \in Users, NEW o \in Orders, NEW e \in Estados,
             RequestStatus(r, u, o, e)
      PROVE  Inv'
  <2> DEFINE q == [pc |-> "authorise", user |-> u, order |-> o, seen |-> estado[o], next |-> e]
  <2>1. q \in ReqType /\ estado[o] \in Estados /\ RoleOf[u] = "VENDEDOR"
    BY <1>3 DEF RequestStatus, Start, ReqType, Types
  <2>2. req' = [req EXCEPT ![r] = q] /\ UNCHANGED <<estado, history>>
    BY <1>3 DEF RequestStatus, Start
  <2>3. /\ q.user = u /\ q.order = o /\ q.seen = estado[o] /\ q.next = e
        /\ q.pc = "authorise"
    OBVIOUS
  <2> HIDE DEF q
  <2> QED
    BY <1>2, <2>1, <2>2, <2>3
<1>4. ASSUME NEW r \in Requests, NEW u \in Users, NEW o \in Orders, RequestCancel(r, u, o)
      PROVE  Inv'
  <2> DEFINE q == [pc |-> "write", user |-> u, order |-> o, seen |-> estado[o],
                   next |-> "CANCELADO"]
  <2>1. /\ q \in ReqType /\ estado[o] = "PENDIENTE" /\ estado[o] \in Estados
        /\ RoleOf[u] = "CLIENTE" /\ OwnerOf[o] = u /\ "CANCELADO" \in Estados
    BY <1>4 DEF RequestCancel, ClienteCanCancel, Start, ReqType, Types, Estados
  <2>2. req' = [req EXCEPT ![r] = q] /\ UNCHANGED <<estado, history>>
    BY <1>4 DEF RequestCancel, Start
  <2>3. /\ q.user = u /\ q.order = o /\ q.seen = estado[o] /\ q.next = "CANCELADO"
        /\ q.pc = "write"
    OBVIOUS
  <2> HIDE DEF q
  <2>4. Authorised(q)
    BY <2>1, <2>3 DEF Authorised
  <2> QED
    BY <1>2, <2>1, <2>2, <2>3, <2>4
<1>5. ASSUME NEW r \in Requests, Authorise(r) PROVE Inv'
  <2> DEFINE q == [req[r] EXCEPT !.pc = "write"]
  <2>1. /\ req[r] \in ReqType /\ req[r].user \in Users /\ req[r].order \in Orders
        /\ req[r].seen \in Estados /\ req[r].next \in Estados
        /\ RoleOf[req[r].user] = "VENDEDOR"
        /\ ProfileOf[req[r].user] = SellerOf[req[r].order]
        /\ req[r].next \in ORDER_TRANSITIONS[req[r].seen]
    BY <1>5 DEF Authorise, IsVendedorDomainMatch, ReqInv, Types
  <2>2. /\ q \in ReqType /\ q.user = req[r].user /\ q.order = req[r].order
        /\ q.seen = req[r].seen /\ q.next = req[r].next /\ q.pc = "write"
    BY <2>1 DEF ReqType
  <2>3. req' = [req EXCEPT ![r] = q] /\ UNCHANGED <<estado, history>>
    BY <1>5 DEF Authorise
  <2> HIDE DEF q
  <2>4. Authorised(q)
    BY <2>1, <2>2 DEF Authorised, Seller
  <2> QED
    BY <1>2, <2>1, <2>2, <2>3, <2>4
<1>6. ASSUME NEW r \in Requests, Deny(r) \/ WriteMissed(r) PROVE Inv'
  BY <1>0, <1>2, <1>6 DEF Deny, WriteMissed
<1>7. ASSUME NEW r \in Requests, Write(r) PROVE Inv'
  <2> DEFINE o == req[r].order
             x == Row(req[r].seen, req[r].next, req[r].user)
  <2>1. /\ o \in Orders /\ x \in RowType
        /\ estado[o] \in Estados /\ x.to \in ORDER_TRANSITIONS[estado[o]]
        /\ estado' = [estado EXCEPT ![o] = x.to]
        /\ history' = [history EXCEPT ![o] = Append(@, x)]
    BY <1>7, WriteFacts
  <2> HIDE DEF x
  <2>2. x.to \in Estados /\ Rank(estado[o]) + 1 <= Rank(x.to)
    BY <2>1, TableClimbs
  <2>3. history[o] \in Seq(RowType)
    BY <2>1 DEF Types
  <2>4. /\ Append(history[o], x) \in Seq(RowType)
        /\ Append(history[o], x) # << >>
        /\ Len(Append(history[o], x)) = Len(history[o]) + 1
        /\ Append(history[o], x)[Len(Append(history[o], x))] = x
    BY <2>1, <2>3, AppendFacts
  <2>5. /\ history'[o] = Append(history[o], x) /\ estado'[o] = x.to
        /\ \A p \in Orders \ {o} : history'[p] = history[p] /\ estado'[p] = estado[p]
    BY <2>1 DEF Types
  <2>6. Types'
    BY <1>0, <1>7, <2>1, <2>2, <2>4 DEF Types, Write
  <2>7. ReqInv'
    BY <1>0, <1>7 DEF Types, ReqInv, Write
  <2>8. HistoryTellsEstado'
    BY <2>4, <2>5 DEF HistoryTellsEstado
  <2>9. \A p \in Orders : Len(history'[p]) <= Rank(estado'[p])
    BY <2>1, <2>2, <2>3, <2>4, <2>5, RankBound
  <2> QED
    BY <2>6, <2>7, <2>8, <2>9
<1>8. CASE UNCHANGED lifecycleVars
  BY <1>8 DEF lifecycleVars, Types, ReqInv, HistoryTellsEstado
<1> QED
  BY <1>1, <1>3, <1>4, <1>5, <1>6, <1>7, <1>8 DEF LifecycleNext

LEMMA Invariant == LifecycleSpec => []Inv
BY InitInv, NextInv, PTL DEF LifecycleSpec

(* Orders and histories change only by a placement and by a write.           *)
LEMMA OnlyPlaceAndWrite ==
  ASSUME [LifecycleNext]_lifecycleVars
  PROVE  \/ \E o \in Orders : Place(o)
         \/ \E r \in Requests : Write(r)
         \/ UNCHANGED <<estado, history>>
BY DEF LifecycleNext, lifecycleVars, Authorise, Deny, WriteMissed, RequestCancel, RequestStatus, Start

(* Every reachable state is well typed, and at most four history rows are    *)
(* ever written for an order, however many requests are in flight.           *)
THEOREM Typed == LifecycleSpec => []LifecycleTypeOK
<1>1. Inv => LifecycleTypeOK
  BY RankBound DEF Inv, Types, LifecycleTypeOK
<1> QED
  BY <1>1, Invariant, PTL

(* The estado of an order is always where its history ends.                  *)
THEOREM EstadoTold == LifecycleSpec => []HistoryTellsEstado
<1>1. Inv => HistoryTellsEstado
  BY DEF Inv
<1> QED
  BY <1>1, Invariant, PTL

-----------------------------------------------------------------------------
(* A confirmation cannot be cancelled by the cliente *)

LEMMA OneRow ==
  ASSUME NEW s \in Seq(RowType), s # << >>, Len(s) <= 1
  PROVE  Len(s) = 1
<1>1. Len(s) \in Nat \ {0}
  BY EmptySeq
<1>2. \A n \in Nat \ {0} : n <= 1 => n = 1
  OBVIOUS
<1> QED
  BY <1>1, <1>2

(* A request of a cliente that is about to write holds the cancel of a       *)
(* pending order, and a pending order has one row: by Unchanged, that write  *)
(* takes effect as the second row or not at all.                             *)
LEMMA ClienteWritesSecond ==
  ASSUME Inv, NEW r \in Requests, Write(r), RoleOf[req[r].user] = "CLIENTE"
  PROVE  Len(history[req[r].order]) = 1 /\ req[r].next = "CANCELADO"
<1> DEFINE o == req[r].order
<1>1. o \in Orders /\ req[r].seen = estado[o] /\ Authorised(req[r])
  BY WriteFacts DEF Write, Unchanged
<1>2. estado[o] = "PENDIENTE" /\ req[r].next = "CANCELADO"
  BY <1>1 DEF Authorised, Seller
<1>3. history[o] \in Seq(RowType) /\ history[o] # << >> /\ Len(history[o]) <= 1
  BY <1>1, <1>2 DEF Inv, Types, HistoryTellsEstado, Rank
<1> HIDE DEF o
<1>4. Len(history[o]) = 1
  BY <1>3, OneRow
<1> QED
  BY <1>2, <1>4 DEF o

LEMMA NextConfirmed ==
  ASSUME Inv, ConfirmedBeatsCliente, [LifecycleNext]_lifecycleVars PROVE ConfirmedBeatsCliente'
<1> DEFINE Allowed(h) == \A i \in 1..Len(h) :
             RoleOf[h[i].by] = "CLIENTE" => i = 1 \/ (i = 2 /\ h[i].to = "CANCELADO")
<1>0. (\A o \in Orders : Allowed(history[o])) /\ history \in [Orders -> Seq(RowType)]
  BY DEF ConfirmedBeatsCliente, Inv, Types
<1> SUFFICES \A o \in Orders : Allowed(history'[o])
  BY DEF ConfirmedBeatsCliente
<1>1. ASSUME NEW o \in Orders, Place(o) PROVE \A p \in Orders : Allowed(history'[p])
  <2> DEFINE x == Row("NONE", "PENDIENTE", OwnerOf[o])
  <2>1. \A y : Allowed(<<y>>)
    OBVIOUS
  <2>2. history' = [history EXCEPT ![o] = <<x>>]
    BY <1>1 DEF Place
  <2> HIDE DEF x, Allowed
  <2> QED
    BY <1>0, <2>1, <2>2
<1>2. ASSUME NEW r \in Requests, Write(r) PROVE \A p \in Orders : Allowed(history'[p])
  <2> DEFINE o == req[r].order
             x == Row(req[r].seen, req[r].next, req[r].user)
  <2>1. /\ o \in Orders /\ x \in RowType
        /\ x.to = req[r].next /\ x.by = req[r].user
        /\ history' = [history EXCEPT ![o] = Append(@, x)]
    BY <1>2, WriteFacts
  <2>2. RoleOf[x.by] = "CLIENTE" => Len(history[o]) = 1 /\ x.to = "CANCELADO"
    BY <1>2, <2>1, ClienteWritesSecond
  <2>3. history[o] \in Seq(RowType) /\ Allowed(history[o])
    BY <1>0, <2>1
  <2> HIDE DEF x, o
  <2>4. Allowed(Append(history[o], x))
    <3> SUFFICES ASSUME NEW i \in 1..Len(Append(history[o], x)),
                        RoleOf[Append(history[o], x)[i].by] = "CLIENTE"
                 PROVE  i = 1 \/ (i = 2 /\ Append(history[o], x)[i].to = "CANCELADO")
      OBVIOUS
    <3>1. CASE i \in 1..Len(history[o])
      BY <2>1, <2>3, <3>1, AppendFacts
    <3>2. CASE i = Len(history[o]) + 1
      BY <2>1, <2>2, <2>3, <3>2, AppendFacts
    <3> QED
      BY <2>1, <2>3, <3>1, <3>2, AppendFacts
  <2> HIDE DEF Allowed
  <2> QED
    BY <1>0, <2>1, <2>4
<1> QED
  BY <1>0, <1>1, <1>2, OnlyPlaceAndWrite

(* However a cancel of the cliente and the moves of the seller interleave,   *)
(* the cliente's only row after the first is a cancel right behind it: none  *)
(* takes effect once the seller has confirmed.                               *)
THEOREM ConfirmedWins == LifecycleSpec => []ConfirmedBeatsCliente
<1>1. LifecycleInit => ConfirmedBeatsCliente
  BY DEF LifecycleInit, ConfirmedBeatsCliente
<1>2. Inv /\ ConfirmedBeatsCliente /\ [LifecycleNext]_lifecycleVars => ConfirmedBeatsCliente'
  BY NextConfirmed
<1> QED
  BY <1>1, <1>2, Invariant, PTL DEF LifecycleSpec

-----------------------------------------------------------------------------
(* Racing requests implement one move at a time *)

LEMMA TrailInit == LifecycleInit => OT!Init
BY DEF LifecycleInit, OT!Init

LEMMA TrailPlace ==
  ASSUME Inv, NEW o \in Orders, Place(o) PROVE OT!Place(o)
<1>1. history[o] = << >>
  BY DEF Place, Inv, Types, Rank
<1> QED
  BY <1>1 DEF Place, Row, OT!Place

LEMMA TrailWrite ==
  ASSUME Inv, NEW r \in Requests, Write(r)
  PROVE  \E o \in Orders : OT!Move(o)
<1> DEFINE o == req[r].order
           x == Row(req[r].seen, req[r].next, req[r].user)
<1>1. /\ o \in Orders /\ x \in RowType
      /\ x.from = estado[o] /\ x.to = req[r].next /\ x.by = req[r].user
      /\ estado[o] \in Estados
      /\ x.to \in ORDER_TRANSITIONS[estado[o]]
      /\ Authorised(req[r])
      /\ history' = [history EXCEPT ![o] = Append(@, x)]
  BY WriteFacts
<1>2. req[r].seen = estado[o] /\ x = [from |-> x.from, to |-> x.to, by |-> x.by]
  BY DEF Write, Unchanged, Row
<1> DEFINE sellers == [p \in Orders |->
             {u \in Users : RoleOf[u] = "VENDEDOR" /\ ProfileOf[u] = SellerOf[p]}]
           table == {m \in Estados \X Estados : m[2] \in ORDER_TRANSITIONS[m[1]]}
<1>3. x.to \in Estados /\ <<x.from, x.to>> \in table
  BY <1>1, TableClimbs
<1>4. history[o] # << >> /\ x.from = history[o][Len(history[o])].to
  BY <1>1 DEF Inv, HistoryTellsEstado, Estados
<1>5. x.by \in Users
  BY <1>1 DEF RowType
<1>6. \/ x.by \in sellers[o]
      \/ <<x.from, x.to>> = <<"PENDIENTE", "CANCELADO">> /\ x.by = OwnerOf[o]
  <2>1. CASE Seller(req[r].user, o)
    BY <1>1, <1>5, <2>1 DEF Seller
  <2>2. CASE req[r].user = OwnerOf[o] /\ req[r].seen = "PENDIENTE" /\ req[r].next = "CANCELADO"
    BY <1>1, <1>2, <2>2
  <2> QED
    BY <1>1, <2>1, <2>2 DEF Authorised
<1> HIDE DEF x, o
<1>7. OT!MaySteer(o, x)
  BY <1>1, <1>3, <1>6 DEF OT!MaySteer
<1>8. x \in OT!Steps
  <2>1. <<x.from, x.to>>[1] = x.from /\ <<x.from, x.to>>[2] = x.to
    OBVIOUS
  <2>2. /\ x.from \in {m[1] : m \in table \cup {<<"PENDIENTE", "CANCELADO">>}}
        /\ x.to \in {m[2] : m \in table \cup {<<"PENDIENTE", "CANCELADO">>}}
    BY <1>3, <2>1
  <2>3. x.by \in (UNION {sellers[p] : p \in Orders}) \cup {OwnerOf[p] : p \in Orders}
    BY <1>1, <1>6
  <2> QED
    BY <1>2, <2>2, <2>3 DEF OT!Steps
<1> QED
  BY <1>1, <1>4, <1>7, <1>8 DEF OT!Move

(* However requests interleave, on however many replicas, the histories of   *)
(* the orders are those of an abstract trail: each row starts where the last *)
(* one ended, and its author may make that move at that moment.              *)
THEOREM TrailRefinement == LifecycleSpec => ImplementsOrderTrail
<1>1. Inv /\ [LifecycleNext]_lifecycleVars => [OT!Next]_history
  <2> SUFFICES ASSUME Inv, [LifecycleNext]_lifecycleVars PROVE OT!Next \/ UNCHANGED history
    OBVIOUS
  <2>1. ASSUME NEW o \in Orders, Place(o) PROVE OT!Next
    BY <2>1, TrailPlace DEF OT!Next
  <2>2. ASSUME NEW r \in Requests, Write(r) PROVE OT!Next
    BY <2>2, TrailWrite DEF OT!Next
  <2> QED
    BY <2>1, <2>2, OnlyPlaceAndWrite
<1> QED
  BY <1>1, TrailInit, Invariant, PTL DEF LifecycleSpec, ImplementsOrderTrail, OT!Spec

(* A delivered or cancelled order keeps its estado, whatever requests have   *)
(* read before.                                                              *)
THEOREM TerminalFinal == LifecycleSpec => TerminalIsFinal
<1>1. Inv /\ [LifecycleNext]_lifecycleVars =>
        [\A o \in Orders :
           estado[o] \in {"ENTREGADO", "CANCELADO"} => estado'[o] = estado[o]]_estado
  <2> SUFFICES ASSUME Inv, [LifecycleNext]_lifecycleVars, NEW o \in Orders,
                      estado[o] \in {"ENTREGADO", "CANCELADO"}
               PROVE  estado'[o] = estado[o]
    OBVIOUS
  <2>1. ASSUME NEW p \in Orders, Place(p) PROVE estado'[o] = estado[o]
    BY <2>1 DEF Place, Inv, Types
  <2>2. ASSUME NEW r \in Requests, Write(r) PROVE estado'[o] = estado[o]
    <3>1. /\ req[r].order \in Orders /\ estado[req[r].order] \in Estados
          /\ ORDER_TRANSITIONS[estado[req[r].order]] # {}
          /\ \E e : estado' = [estado EXCEPT ![req[r].order] = e]
      BY <2>2, WriteFacts
    <3>2. estado[req[r].order] \in {"PENDIENTE", "CONFIRMADO", "EN_CAMINO"}
      BY <3>1, TableClimbs
    <3> QED
      BY <3>1, <3>2 DEF Inv, Types
  <2> QED
    BY <2>1, <2>2, OnlyPlaceAndWrite
<1> QED
  BY <1>1, Invariant, PTL DEF LifecycleSpec, TerminalIsFinal
=============================================================================
