----------------------------- MODULE FrontendProofs -----------------------------
(***************************************************************************)
(* Proofs about the frontend: the session in its tabs, then the pages of a *)
(* cliente, Pedidos, CartScreen and Consultas, for any number of tabs,     *)
(* token pairs, users, orders, vendedores and versions. In each of them    *)
(* the session may be replaced while answers are on their way; the         *)
(* invariants say what an answer in flight may still be for.               *)
(***************************************************************************)
EXTENDS Sesion, Pedidos, CartScreen, Consultas, TLAPS

-----------------------------------------------------------------------------
(***************************************************************************)
(* Sesion                                                                  *)
(***************************************************************************)

TabType == [session : Sessions \cup {NoSession}, ready : BOOLEAN, event : BOOLEAN,
            phase : Phases, with : Sessions \cup {NoSession},
            fresh : Tokens \cup {0}, grant : Tokens \cup {0}]

(* A refresh that was answered brought a token, for the session it was      *)
(* asked for.                                                               *)
Renewed(r) == r.phase = "renewed" => r.fresh \in Tokens

ServerInv == hash \in Tokens \cup {0} /\ minted \in Tokens

TabInv ==
  /\ stored \in Sessions \cup {NoSession}
  /\ tab \in [Tabs -> TabType]
  /\ \A t \in Tabs : Renewed(tab[t])
  /\ TabsAgree

SesionInv == ServerInv /\ TabInv

-----------------------------------------------------------------------------
LEMMA NewTabTyped ==
  ASSUME stored \in Sessions \cup {NoSession}
  PROVE  NewTab \in TabType /\ Renewed(NewTab) /\ NewTab.session = stored
BY DEF NewTab, TabType, Phases, Renewed

LEMMA SesionStarts == SesionInit => SesionInv
<1> SUFFICES ASSUME SesionInit
             PROVE  SesionInv
  OBVIOUS
<1>1. 1 \in Tokens
  BY SesionAssumption DEF Tokens
<1>2. stored \in Sessions \cup {NoSession}
  BY <1>1 DEF SesionInit, Sessions
<1>3. TabInv
  BY <1>2, NewTabTyped DEF SesionInit, TabInv, TabsAgree
<1> QED
  BY <1>1, <1>3 DEF SesionInit, SesionInv, ServerInv

(* A step of one tab that stores nothing.                                   *)
LEMMA TabStep ==
  ASSUME TabInv, NEW t \in Tabs, NEW r \in TabType, Renewed(r), ~r.event => r.session = stored,
         tab' = [tab EXCEPT ![t] = r], UNCHANGED stored
  PROVE  TabInv'
BY DEF TabInv, TabsAgree, Renewed

(* A step of one tab that changes neither its session nor its events.       *)
LEMMA QuietStep ==
  ASSUME TabInv, NEW t \in Tabs, NEW r \in TabType, Renewed(r),
         r.event = tab[t].event, r.session = tab[t].session,
         tab' = [tab EXCEPT ![t] = r], UNCHANGED stored
  PROVE  TabInv'
<1>1. ~r.event => r.session = stored
  BY DEF TabInv, TabsAgree
<1> QED
  BY <1>1, TabStep

(* A tab stores a session or none; if that is news, the others get an       *)
(* event.                                                                   *)
LEMMA StoreStep ==
  ASSUME TabInv, NEW t \in Tabs, NEW r \in TabType, Renewed(r),
         NEW s \in Sessions \cup {NoSession}, Store(t, s, r)
  PROVE  TabInv'
<1> DEFINE own == [r EXCEPT !.session = s]
           other(u) == [tab[u] EXCEPT !.event = @ \/ s # stored]
<1>1. /\ stored' = s
      /\ tab' = [u \in Tabs |-> IF u = t THEN own ELSE other(u)]
  BY DEF Store
<1>2. own \in TabType /\ own.session = s /\ Renewed(own)
  BY DEF TabType, Renewed
<1>3. ASSUME NEW u \in Tabs
      PROVE  /\ other(u) \in TabType /\ Renewed(other(u))
             /\ other(u).session = tab[u].session
             /\ ~other(u).event => ~tab[u].event /\ s = stored
  <2>1. tab[u] \in TabType /\ Renewed(tab[u])
    BY DEF TabInv
  <2>2. (tab[u].event \/ s # stored) \in BOOLEAN
    OBVIOUS
  <2>3. other(u).session = tab[u].session /\ other(u).event = (tab[u].event \/ s # stored)
    BY <2>1 DEF TabType
  <2>4. other(u) \in TabType /\ Renewed(other(u))
    BY <2>1, <2>2 DEF TabType, Renewed
  <2> QED
    BY <2>1, <2>3, <2>4 DEF TabType
<1> HIDE DEF own, other
<1>4. ASSUME NEW u \in Tabs
      PROVE  /\ tab'[u] \in TabType /\ Renewed(tab'[u])
             /\ ~tab'[u].event => tab'[u].session = s
  BY <1>1, <1>2, <1>3, <1>4 DEF TabInv, TabsAgree
<1>5. tab' \in [Tabs -> TabType]
  BY <1>1, <1>4
<1> QED
  BY <1>1, <1>4, <1>5 DEF TabInv, TabsAgree, Renewed

LEMMA SettledTyped ==
  ASSUME TabInv, NEW t \in Tabs
  PROVE  /\ Settled(t) \in TabType /\ Renewed(Settled(t))
         /\ Settled(t).session = tab[t].session /\ Settled(t).event = tab[t].event
<1>1. tab[t] \in TabType
  BY DEF TabInv
<1>2. Settled(t) \in TabType
  BY <1>1 DEF Settled, TabType, Phases
<1>3. /\ Settled(t).phase = "idle"
      /\ Settled(t).session = tab[t].session /\ Settled(t).event = tab[t].event
  BY <1>1 DEF Settled, TabType
<1> QED
  BY <1>2, <1>3 DEF Renewed

(* A restore ends, with the session or without it.                          *)
LEMMA EndOfRestore ==
  ASSUME TabInv, NEW t \in Tabs, Settle(t) \/ Clear(t, Settled(t)) \/ Clear(t, tab[t])
  PROVE  TabInv'
<1>1. CASE Settle(t)
  BY <1>1, SettledTyped, QuietStep DEF Settle
<1>2. CASE Clear(t, Settled(t))
  BY <1>2, SettledTyped, StoreStep DEF Clear
<1>3. CASE Clear(t, tab[t])
  BY <1>3, StoreStep DEF Clear, TabInv
<1> QED
  BY <1>1, <1>2, <1>3

-----------------------------------------------------------------------------
(* usuario-service                                                          *)

LEMMA MintFacts == ServerInv /\ Mint => minted' \in Tokens
BY SesionAssumption DEF ServerInv, Mint, Tokens

LEMMA ServerSteps ==
  ASSUME SesionInv, LateRefresh \/ Revoke \/ ChangePassword \/ Block
  PROVE  SesionInv'
<1>1. UNCHANGED <<stored, tab>>
  BY DEF LateRefresh, Revoke, ChangePassword, Block
<1>2. TabInv'
  BY <1>1 DEF SesionInv, TabInv, TabsAgree, Renewed
<1>3. ServerInv'
  BY MintFacts DEF SesionInv, ServerInv, LateRefresh, Revoke, ChangePassword, Block
<1> QED
  BY <1>2, <1>3 DEF SesionInv

LEMMA LoginKeeps ==
  ASSUME SesionInv, NEW t \in Tabs, Login(t)
  PROVE  SesionInv'
<1> DEFINE r == [tab[t] EXCEPT !.grant = minted']
<1>1. minted' \in Tokens /\ hash' = minted' /\ tab' = [tab EXCEPT ![t] = r] /\ UNCHANGED stored
  BY MintFacts DEF Login, SesionInv
<1>2. tab[t] \in TabType /\ Renewed(tab[t])
  BY DEF SesionInv, TabInv
<1>3. r \in TabType
  BY <1>1, <1>2 DEF TabType
<1>4. r.event = tab[t].event /\ r.session = tab[t].session /\ Renewed(r)
  BY <1>2 DEF TabType, Renewed
<1> HIDE DEF r
<1>5. TabInv'
  BY <1>1, <1>3, <1>4, QuietStep DEF SesionInv
<1> QED
  BY <1>1, <1>5 DEF SesionInv, ServerInv

LEMMA VerifyKeeps ==
  ASSUME SesionInv, NEW t \in Tabs, Verify(t)
  PROVE  SesionInv'
<1>1. PICK p \in {"verified", "rejected"} : tab' = [tab EXCEPT ![t].phase = p]
  BY DEF Verify
<1> DEFINE r == [tab[t] EXCEPT !.phase = p]
<1>2. tab[t] \in TabType /\ tab' = [tab EXCEPT ![t] = r] /\ UNCHANGED <<hash, minted, stored>>
  BY <1>1 DEF SesionInv, TabInv, Verify
<1>3. r \in TabType
  BY <1>2 DEF TabType, Phases
<1>4. r.event = tab[t].event /\ r.session = tab[t].session /\ Renewed(r)
  BY <1>2 DEF TabType, Renewed
<1> HIDE DEF r
<1>5. TabInv'
  BY <1>2, <1>3, <1>4, QuietStep DEF SesionInv
<1> QED
  BY <1>2, <1>5 DEF SesionInv, ServerInv

LEMMA RotateKeeps ==
  ASSUME SesionInv, NEW t \in Tabs, Rotate(t)
  PROVE  SesionInv'
<1> DEFINE r == [tab[t] EXCEPT !.phase = "renewed", !.fresh = minted']
<1>1. minted' \in Tokens /\ hash' = minted' /\ tab' = [tab EXCEPT ![t] = r] /\ UNCHANGED stored
  BY MintFacts DEF Rotate, SesionInv
<1>2. tab[t] \in TabType
  BY DEF SesionInv, TabInv
<1>3. r \in TabType
  BY <1>1, <1>2 DEF TabType, Phases
<1>4. r.event = tab[t].event /\ r.session = tab[t].session /\ Renewed(r)
  BY <1>1, <1>2 DEF TabType, Renewed
<1> HIDE DEF r
<1>5. TabInv'
  BY <1>1, <1>3, <1>4, QuietStep DEF SesionInv
<1> QED
  BY <1>1, <1>5 DEF SesionInv, ServerInv

-----------------------------------------------------------------------------
(* The frontend                                                             *)

LEMMA LoginAnsweredKeeps ==
  ASSUME TabInv, NEW t \in Tabs, LoginAnswered(t)
  PROVE  TabInv'
<1> DEFINE n == tab[t].grant
           r == [tab[t] EXCEPT !.grant = 0]
           s == [refresh |-> n, token |-> n]
<1>1. tab[t] \in TabType /\ Renewed(tab[t]) /\ n \in Tokens
  BY DEF TabInv, TabType, LoginAnswered
<1>2. s \in Sessions
  BY <1>1 DEF Sessions
<1>3. r \in TabType
  BY <1>1 DEF TabType
<1>4. r.event = tab[t].event /\ r.session = tab[t].session /\ Renewed(r)
  BY <1>1 DEF TabType, Renewed
<1>5. Store(t, s, r) \/ (tab' = [tab EXCEPT ![t] = r] /\ UNCHANGED stored)
  BY DEF LoginAnswered
<1> HIDE DEF r, s
<1> QED
  BY <1>2, <1>3, <1>4, <1>5, StoreStep, QuietStep

LEMMA RefreshedKeeps ==
  ASSUME TabInv, NEW t \in Tabs, Refreshed(t)
  PROVE  TabInv'
<1>1. CASE IsSameSession(t)
  <2> DEFINE s == [tab[t].session EXCEPT !.token = tab[t].fresh]
             r == [tab[t] EXCEPT !.phase = "profile", !.with = s]
  <2>1. /\ tab[t] \in TabType /\ tab[t].fresh \in Tokens /\ tab[t].session \in Sessions
        /\ Store(t, s, r)
    BY <1>1 DEF TabInv, TabType, Renewed, Refreshed, IsSameSession
  <2>2. s \in Sessions
    BY <2>1 DEF Sessions
  <2> HIDE DEF s
  <2>3. r \in TabType
    BY <2>1, <2>2 DEF TabType, Phases
  <2>4. r.phase = "profile"
    BY <2>1 DEF TabType
  <2> HIDE DEF r
  <2> QED
    BY <2>1, <2>2, <2>3, <2>4, StoreStep DEF Renewed
<1>2. CASE ~IsSameSession(t)
  BY <1>2, EndOfRestore DEF Refreshed
<1> QED
  BY <1>1, <1>2

(* A storage event reads what is stored now.                                *)
LEMMA StorageEventKeeps ==
  ASSUME TabInv, NEW t \in Tabs, StorageEvent(t)
  PROVE  TabInv'
<1> DEFINE same == [tab[t] EXCEPT !.event = FALSE, !.session = stored]
<1>1. tab[t] \in TabType /\ Renewed(tab[t]) /\ stored \in Sessions \cup {NoSession} /\ UNCHANGED stored
  BY DEF TabInv, StorageEvent
<1>2. same \in TabType
  BY <1>1 DEF TabType
<1>3. Replaced(t, stored) \in TabType
  BY <1>1 DEF TabType, Phases, Replaced
<1>4. /\ same.session = stored /\ Renewed(same)
      /\ Replaced(t, stored).session = stored /\ Renewed(Replaced(t, stored))
  BY <1>1 DEF TabType, Renewed, Replaced
<1>5. tab' = [tab EXCEPT ![t] = same] \/ tab' = [tab EXCEPT ![t] = Replaced(t, stored)]
  BY DEF StorageEvent
<1> HIDE DEF same
<1> QED
  BY <1>1, <1>2, <1>3, <1>4, <1>5, TabStep

LEMMA TabReloadKeeps ==
  ASSUME TabInv, NEW t \in Tabs, Reload(t)
  PROVE  TabInv'
BY NewTabTyped, TabStep DEF Reload, TabInv

LEMMA SesionStep == SesionInv /\ [SesionNext]_sesionVars => SesionInv'
<1> SUFFICES ASSUME SesionInv, [SesionNext]_sesionVars
             PROVE  SesionInv'
  OBVIOUS
<1>1. CASE UNCHANGED sesionVars
  BY <1>1 DEF sesionVars, SesionInv, ServerInv, TabInv, TabsAgree, Renewed
<1>2. ASSUME NEW t \in Tabs,
             \/ LoginAnswered(t) \/ Logout(t) \/ Refreshed(t) \/ RefreshFailed(t)
             \/ ProfileAnswered(t) \/ StorageEvent(t) \/ Unauthorized(t) \/ Reload(t)
      PROVE  SesionInv'
  <2>1. UNCHANGED <<hash, minted>>
    BY <1>2 DEF LoginAnswered, Logout, Refreshed, RefreshFailed, ProfileAnswered, StorageEvent,
                Unauthorized, Reload
  <2>2. CASE Logout(t) \/ RefreshFailed(t) \/ ProfileAnswered(t) \/ Unauthorized(t)
    <3>1. Settle(t) \/ Clear(t, Settled(t)) \/ Clear(t, tab[t])
      BY <2>2 DEF Logout, RefreshFailed, ProfileAnswered, Unauthorized
    <3> QED
      BY <2>1, <3>1, EndOfRestore DEF SesionInv, ServerInv
  <2> QED
    BY <1>2, <2>1, <2>2, LoginAnsweredKeeps, RefreshedKeeps, StorageEventKeeps, TabReloadKeeps
       DEF SesionInv, ServerInv
<1> QED
  BY <1>1, <1>2, ServerSteps, LoginKeeps, VerifyKeeps, RotateKeeps DEF SesionNext

LEMMA SesionInvariance == SesionSpec => []SesionInv
BY SesionStarts, SesionStep, PTL DEF SesionSpec

-----------------------------------------------------------------------------
(* Types and limits of the session and its tokens.                          *)
THEOREM SesionTyped == SesionSpec => []SesionTypeOK
<1>1. SesionInv => SesionTypeOK
  BY DEF SesionInv, ServerInv, TabInv, TabType, SesionTypeOK
<1> QED
  BY <1>1, SesionInvariance, PTL

(* Whatever the tabs do at the same time, a tab without an event to deliver *)
(* holds what the browser stores: SessionStorageService.                    *)
THEOREM Agreement == SesionSpec => []TabsAgree
<1>1. SesionInv => TabsAgree
  BY DEF SesionInv, TabInv
<1> QED
  BY <1>1, SesionInvariance, PTL

-----------------------------------------------------------------------------
(***************************************************************************)
(* Pedidos                                                                 *)
(***************************************************************************)

CardType == [status : Reports, terminal : BOOLEAN]
PollType == [on : BOOLEAN, tries : 0..MaxPollAttempts, seen : BOOLEAN,
             missed : 0..(GraceAttempts + 1), answer : Reports \cup {"none", "error"}]

(* A poll that waits has an attempt left; one that is over waits for no     *)
(* answer.                                                                  *)
PollOK(p) ==
  /\ p \in PollType
  /\ p.on /\ p.answer = "none" => p.tries # MaxPollAttempts
  /\ p.answer # "none" => p.on
  /\ p.missed <= GraceAttempts

(* What the server keeps and what is stored: an id is stored for the owner  *)
(* of its order, and the page submits an order of its own.                  *)
StoreInv ==
  /\ user \in Users \cup {Nobody} /\ ready \in BOOLEAN /\ page \in {"none", "cart", "orders"}
  /\ job \in [Trackings -> [owner : Users \cup {Nobody}, status : Reports]]
  /\ submit \in [busy : BOOLEAN, by : Users \cup {Nobody}, id : Trackings \cup {NoCard}]
  /\ submit.id # NoCard => submit.by # Nobody /\ job[submit.id].owner = submit.by
  /\ pending \in [Users -> SUBSET Trackings]
  /\ \A u \in Users : \A i \in pending[u] : job[i].owner = u

Ended == {"ordered", "refused"}

(* A card and its poll are there on the orders page only, for orders of who *)
(* is signed in; a card, and an answer on its way, that tell how the order  *)
(* ended say what the server still says.                                    *)
Followed(i, u, p, c, q) ==
  /\ c # NoCard => p = "orders" /\ (u # Nobody => job[i].owner = u)
  /\ q.on => c \in CardType /\ c # NoCard /\ p = "orders" /\ (u # Nobody => job[i].owner = u)
  /\ c # NoCard /\ c.status \in Ended => job[i].status = c.status
  /\ q.answer \in Ended => job[i].status = q.answer
ViewInv ==
  /\ card \in [Trackings -> CardType \cup {NoCard}]
  /\ poll \in [Trackings -> PollType]
  /\ \A i \in Trackings : PollOK(poll[i]) /\ Followed(i, user, page, card[i], poll[i])

OrdersInv == StoreInv /\ ViewInv

-----------------------------------------------------------------------------
LEMMA PollsTyped ==
  /\ PollOK(NewPoll) /\ PollOK(NoPoll) /\ NewPoll.answer = "none" /\ NewPoll.on
  /\ NoPoll.answer = "none" /\ ~NoPoll.on
  /\ NewCard \in CardType /\ NewCard.status = "open" /\ "open" \notin Ended
  /\ "none" \notin Ended /\ NoCard \notin CardType
<1>1. 0 \in 0..MaxPollAttempts /\ 0 # MaxPollAttempts /\ 0 \in 0..(GraceAttempts + 1) /\ 0 <= GraceAttempts
  BY PedidosAssumption
<1> QED
  BY <1>1, PedidosAssumption DEF NewPoll, NoPoll, PollOK, PollType, NewCard, CardType, Reports, Ended

LEMMA EmptyView ==
  ASSUME card' = Cleared, poll' = Stopped
  PROVE  ViewInv'
BY PollsTyped DEF ViewInv, Cleared, Stopped, Followed, PollOK

LEMMA OrdersInit == PedidosInit => OrdersInv
<1> SUFFICES ASSUME PedidosInit PROVE OrdersInv
  OBVIOUS
<1>1. StoreInv
  BY DEF PedidosInit, IdentityInit, StoreInv, NoSubmit, Reports
<1>2. ViewInv
  BY PollsTyped DEF PedidosInit, ViewInv, Followed, PollOK
<1> QED
  BY <1>1, <1>2 DEF OrdersInv

(* The stored ids, the jobs and the submission, when no job changes hands.  *)
LEMMA StoreKeeps ==
  ASSUME OrdersInv, UNCHANGED job,
         user' \in Users \cup {Nobody}, ready' \in BOOLEAN, page' \in {"none", "cart", "orders"},
         submit' \in [busy : BOOLEAN, by : Users \cup {Nobody}, id : Trackings \cup {NoCard}],
         submit'.id # NoCard => submit'.id = submit.id /\ submit'.by = submit.by,
         pending' \in [Users -> SUBSET Trackings],
         \A u \in Users : \A i \in pending'[u] : job[i].owner = u
  PROVE  StoreInv'
BY DEF OrdersInv, StoreInv

(* Nothing of the view changes but who looks at it.                         *)
LEMMA ViewKeeps ==
  ASSUME OrdersInv, UNCHANGED <<card, poll, page>>, user' \in {user, Nobody},
         \A i \in Trackings : /\ job'[i].owner = job[i].owner \/ job[i].owner = Nobody
                              /\ job[i].status \in Ended => job'[i].status = job[i].status
  PROVE  ViewInv'
BY DEF OrdersInv, ViewInv, Followed

(* The view is empty as long as the orders page is not open.                *)
LEMMA ViewElsewhere ==
  ASSUME OrdersInv, page # "orders"
  PROVE  \A i \in Trackings : card[i] = NoCard /\ ~poll[i].on /\ poll[i].answer = "none"
BY DEF OrdersInv, ViewInv, Followed, PollOK

(* trackPending() polls the ids of its user only.                           *)
LEMMA TrackKeeps ==
  ASSUME OrdersInv, UNCHANGED <<job, pending>>, user' \in Users \cup {Nobody}, page' = "orders",
         NEW cards \in [Trackings -> CardType \cup {NoCard}],
         NEW polls \in [Trackings -> PollType],
         \A i \in Trackings : PollOK(polls[i]) /\ Followed(i, user', "orders", cards[i], polls[i]),
         TrackPending(user', cards, polls)
  PROVE  ViewInv'
<1>1. \A i \in ListOf(user') : job[i].owner = user'
  BY DEF ListOf, OrdersInv, StoreInv
<1>2. /\ card' = [i \in Trackings |->
                    IF i \in ListOf(user') /\ ~polls[i].on THEN NewCard ELSE cards[i]]
      /\ poll' = [i \in Trackings |->
                    IF i \in ListOf(user') THEN IF polls[i].on THEN polls[i] ELSE NewPoll ELSE NoPoll]
  BY DEF TrackPending
<1>3. ASSUME NEW i \in Trackings
      PROVE  /\ card'[i] \in CardType \cup {NoCard}
             /\ PollOK(poll'[i])
             /\ Followed(i, user', page', card'[i], poll'[i])
  <2>1. CASE i \in ListOf(user') /\ ~polls[i].on
    <3>1. card'[i] = NewCard /\ poll'[i] = NewPoll
      BY <1>2, <2>1
    <3> QED
      BY <1>1, <2>1, <3>1, PollsTyped DEF Followed
  <2>2. CASE i \in ListOf(user') /\ polls[i].on
    <3>1. card'[i] = cards[i] /\ poll'[i] = polls[i]
      BY <1>2, <2>2
    <3> QED
      BY <3>1
  <2>3. CASE i \notin ListOf(user')
    <3>1. card'[i] = cards[i] /\ poll'[i] = NoPoll
      BY <1>2, <2>3
    <3> QED
      BY <3>1, PollsTyped DEF Followed
  <2> QED
    BY <2>1, <2>2, <2>3
<1>4. card' \in [Trackings -> CardType \cup {NoCard}] /\ poll' \in [Trackings -> PollType]
  BY <1>2, <1>3 DEF PollOK
<1>5. \A i \in Trackings : Followed(i, user, page, card[i], poll[i])'
  BY <1>3 DEF Followed
<1>6. \A i \in Trackings : PollOK(poll[i])'
  BY <1>3 DEF PollOK
<1> QED
  BY <1>4, <1>5, <1>6 DEF ViewInv

(* One id moves on. *)
LEMMA PollMoves ==
  ASSUME OrdersInv, UNCHANGED <<idVars, job>>, NEW i \in Trackings,
         NEW c \in CardType \cup {NoCard}, NEW q, PollOK(q), Followed(i, user, page, c, q),
         card' = [card EXCEPT ![i] = c], poll' = [poll EXCEPT ![i] = q]
  PROVE  ViewInv'
<1>1. card' \in [Trackings -> CardType \cup {NoCard}] /\ poll' \in [Trackings -> PollType]
  BY DEF OrdersInv, ViewInv, PollOK
<1>2. ASSUME NEW j \in Trackings
      PROVE  PollOK(poll'[j]) /\ Followed(j, user, page, card'[j], poll'[j])
  BY DEF OrdersInv, ViewInv
<1>3. \A j \in Trackings : Followed(j, user, page, card[j], poll[j])'
  BY <1>2 DEF Followed, idVars
<1>4. \A j \in Trackings : PollOK(poll[j])'
  BY <1>2 DEF PollOK
<1> QED
  BY <1>1, <1>3, <1>4 DEF ViewInv

LEMMA AskKeeps ==
  ASSUME OrdersInv, NEW i \in Trackings, Ask(i)
  PROVE  ViewInv'
<1>1. PICK a \in {job[i].status, "error"} :
        poll' = [poll EXCEPT ![i].tries = @ + 1, ![i].answer = a]
  BY DEF Ask
<1> DEFINE q == [poll[i] EXCEPT !.tries = poll[i].tries + 1, !.answer = a]
<1>2. /\ PollOK(poll[i]) /\ Followed(i, user, page, card[i], poll[i])
      /\ poll[i].on /\ poll[i].answer = "none"
      /\ job[i].status \in Reports /\ UNCHANGED <<idVars, job, card>>
  BY DEF Ask, OrdersInv, ViewInv, StoreInv
<1>3. poll[i].tries + 1 \in 0..MaxPollAttempts
  BY <1>2, PedidosAssumption DEF PollOK, PollType
<1>4. /\ q.on = poll[i].on /\ q.answer = a /\ q.missed = poll[i].missed
      /\ q \in PollType
  BY <1>2, <1>3 DEF PollOK, PollType
<1>5. poll' = [poll EXCEPT ![i] = q]
  BY <1>1
<1> HIDE DEF q
<1>6. PollOK(q) /\ Followed(i, user, page, card[i], q)
  BY <1>2, <1>4 DEF PollOK, Followed, Reports, Ended
<1>7. card' = [card EXCEPT ![i] = card[i]] /\ card[i] \in CardType \cup {NoCard}
  BY <1>2 DEF OrdersInv, ViewInv
<1> QED
  BY <1>2, <1>5, <1>6, <1>7, PollMoves

LEMMA ContinueFacts ==
  ASSUME NEW p \in PollType, p.missed <= GraceAttempts, p.on
  PROVE  LET q == IF p.tries = MaxPollAttempts THEN NoPoll ELSE [p EXCEPT !.answer = "none"] IN
           PollOK(q) /\ q.answer = "none"
<1> DEFINE q == [p EXCEPT !.answer = "none"]
<1>1. /\ q \in PollType /\ q.answer = "none" /\ q.missed = p.missed /\ q.tries = p.tries
  BY DEF PollType
<1>2. p.tries # MaxPollAttempts => PollOK(q)
  BY <1>1 DEF PollOK
<1> QED
  BY <1>1, <1>2, PollsTyped

LEMMA StatusArrivesKeeps ==
  ASSUME OrdersInv, NEW i \in Trackings, StatusArrives(i)
  PROVE  ViewInv'
<1> DEFINE s == poll[i].answer
           c == [status |-> s, terminal |-> s # "open"]
<1>1. /\ PollOK(poll[i]) /\ Followed(i, user, page, card[i], poll[i]) /\ poll[i].on
      /\ s \in {"open", "ordered", "refused"} /\ UNCHANGED <<idVars, job>>
      /\ card' = [card EXCEPT ![i] = c]
  BY DEF StatusArrives, OrdersInv, ViewInv, PollOK
<1>2. c \in CardType /\ c.status = s
  <2>1. (s # "open") \in BOOLEAN /\ s \in Reports
    BY <1>1 DEF Reports
  <2> HIDE DEF s
  <2> QED
    BY <2>1 DEF CardType
<1> HIDE DEF c
<1>3. CASE s = "open"
  <2> DEFINE p == [poll[i] EXCEPT !.seen = TRUE, !.missed = 0]
             q == IF p.tries = MaxPollAttempts THEN NoPoll ELSE [p EXCEPT !.answer = "none"]
  <2>0. 0 \in 0..(GraceAttempts + 1) /\ 0 <= GraceAttempts
    BY PedidosAssumption
  <2>1. p \in PollType /\ p.missed <= GraceAttempts /\ p.on
    BY <1>1, <2>0 DEF PollOK, PollType
  <2>2. poll' = [poll EXCEPT ![i] = q]
    BY <1>3 DEF StatusArrives, Continue
  <2>3. PollOK(q) /\ q.answer = "none"
    BY <2>1, ContinueFacts
  <2> HIDE DEF q
  <2>4. Followed(i, user, page, c, q)
    BY <1>1, <1>2, <1>3, <2>3, PollsTyped DEF Followed
  <2> QED
    BY <1>1, <1>2, <2>2, <2>3, <2>4, PollMoves
<1>4. CASE s # "open"
  <2>1. poll' = [poll EXCEPT ![i] = NoPoll]
    BY <1>4 DEF StatusArrives
  <2>2. Followed(i, user, page, c, NoPoll)
    BY <1>1, <1>2, PollsTyped DEF Followed
  <2> QED
    BY <1>1, <1>2, <2>1, <2>2, PollsTyped, PollMoves
<1> QED
  BY <1>3, <1>4

LEMMA FailureArrivesKeeps ==
  ASSUME OrdersInv, NEW i \in Trackings, FailureArrives(i)
  PROVE  ViewInv'
<1> DEFINE p == poll[i]
           missed == IF p.seen \/ p.answer = "error" THEN 0 ELSE p.missed + 1
<1>1. /\ PollOK(p) /\ Followed(i, user, page, card[i], p) /\ p.on
      /\ card[i] \in CardType /\ card \in [Trackings -> CardType \cup {NoCard}]
      /\ UNCHANGED <<idVars, job>>
  BY DEF FailureArrives, OrdersInv, ViewInv, PollOK, Followed
<1>2. missed \in 0..(GraceAttempts + 1)
  BY <1>1, PedidosAssumption DEF PollOK, PollType
<1>3. CASE missed > GraceAttempts
  <2> DEFINE c == [card[i] EXCEPT !.terminal = TRUE]
  <2>1. card' = [card EXCEPT ![i] = c] /\ poll' = [poll EXCEPT ![i] = NoPoll]
    BY <1>3 DEF FailureArrives
  <2>2. c \in CardType /\ c.status = card[i].status
    BY <1>1 DEF CardType
  <2> HIDE DEF c
  <2>3. Followed(i, user, page, c, NoPoll)
    BY <1>1, <2>2, PollsTyped DEF Followed
  <2> QED
    BY <1>1, <2>1, <2>2, <2>3, PollsTyped, PollMoves
<1>4. CASE ~(missed > GraceAttempts)
  <2> DEFINE r == [p EXCEPT !.missed = missed]
             q == IF r.tries = MaxPollAttempts THEN NoPoll ELSE [r EXCEPT !.answer = "none"]
  <2>1. poll' = [poll EXCEPT ![i] = q] /\ card' = [card EXCEPT ![i] = card[i]]
    BY <1>1, <1>4 DEF FailureArrives, Continue
  <2>2. missed <= GraceAttempts
    BY <1>2, <1>4, PedidosAssumption
  <2> HIDE DEF missed
  <2>3. r \in PollType /\ r.missed <= GraceAttempts /\ r.on
    BY <1>1, <1>2, <2>2 DEF PollOK, PollType
  <2> HIDE DEF r
  <2>4. PollOK(q) /\ q.answer = "none"
    BY <2>3, ContinueFacts
  <2> HIDE DEF q, p
  <2>5. Followed(i, user, page, card[i], q)
    BY <1>1, <2>4, PollsTyped DEF Followed, p
  <2> QED
    BY <1>1, <2>1, <2>4, <2>5, PollMoves
<1> QED
  BY <1>3, <1>4

LEMMA DismissKeeps ==
  ASSUME OrdersInv, NEW i \in Trackings, Dismiss(i)
  PROVE  ViewInv'
<1>1. Followed(i, user, page, NoCard, NoPoll)
  BY PollsTyped DEF Followed
<1> QED
  BY <1>1, PollsTyped, PollMoves DEF Dismiss

-----------------------------------------------------------------------------
(* The steps of the cart page: nothing of it is followed yet.               *)
LEMMA SubmitKeeps ==
  ASSUME OrdersInv, NEW i \in Trackings, Submit(i)
  PROVE  OrdersInv'
<1>1. /\ user # Nobody /\ job[i].owner = Nobody /\ job' = [job EXCEPT ![i].owner = user]
      /\ submit' = [busy |-> TRUE, by |-> user, id |-> i]
      /\ UNCHANGED <<user, ready, page, pending, card, poll>>
  BY DEF Submit, idVars
<1>2. /\ job' \in [Trackings -> [owner : Users \cup {Nobody}, status : Reports]]
      /\ job'[i].owner = user
      /\ \A j \in Trackings : job'[j].status = job[j].status /\ (j # i => job'[j] = job[j])
  BY <1>1 DEF OrdersInv, StoreInv
<1>3. \A u \in Users : \A j \in pending[u] : j \in Trackings /\ job'[j].owner = u
  BY <1>1, <1>2, IdentityAssumption DEF OrdersInv, StoreInv
<1>4. StoreInv'
  BY <1>1, <1>2, <1>3 DEF OrdersInv, StoreInv
<1>5. ViewInv'
  BY <1>1, <1>2, ViewKeeps
<1> QED
  BY <1>4, <1>5 DEF OrdersInv

LEMMA CartPageKeeps ==
  ASSUME OrdersInv, Resubmit \/ Accepted \/ SubmitFailed
  PROVE  OrdersInv'
<1>1. UNCHANGED <<user, ready, page, job, card, poll>>
  BY DEF Resubmit, Accepted, SubmitFailed, idVars
<1>2. ViewInv'
  BY <1>1, ViewKeeps
<1>3. /\ submit' \in [busy : BOOLEAN, by : Users \cup {Nobody}, id : Trackings \cup {NoCard}]
      /\ submit'.id # NoCard => submit'.id = submit.id /\ submit'.by = submit.by
  <2>1. submit \in [busy : BOOLEAN, by : Users \cup {Nobody}, id : Trackings \cup {NoCard}]
    BY DEF OrdersInv, StoreInv
  <2>2. /\ NoSubmit \in [busy : BOOLEAN, by : Users \cup {Nobody}, id : Trackings \cup {NoCard}]
        /\ NoSubmit.id = NoCard
    BY DEF NoSubmit
  <2>4. LET r == [submit EXCEPT !.id = NoCard] IN
          /\ r \in [busy : BOOLEAN, by : Users \cup {Nobody}, id : Trackings \cup {NoCard}]
          /\ r.id = NoCard
    BY <2>1
  <2>3. ASSUME NEW b \in BOOLEAN, submit' = [submit EXCEPT !.busy = b]
        PROVE  /\ submit' \in [busy : BOOLEAN, by : Users \cup {Nobody}, id : Trackings \cup {NoCard}]
               /\ submit'.id = submit.id /\ submit'.by = submit.by
    BY <2>1, <2>3
  <2> QED
    BY <2>2, <2>3, <2>4 DEF Resubmit, Accepted, SubmitFailed
<1>4. /\ pending' \in [Users -> SUBSET Trackings]
      /\ \A u \in Users : \A i \in pending'[u] : job[i].owner = u
  <2>1. CASE UNCHANGED pending
    BY <2>1 DEF OrdersInv, StoreInv
  <2>2. CASE Accepted /\ submit.by = user
    <3>1. pending' = [pending EXCEPT ![user] = pending[user] \cup {submit.id}]
      BY <2>2 DEF Accepted
    <3>2. submit.id \in Trackings /\ user \in Users /\ job[submit.id].owner = user
      BY <2>2 DEF Accepted, OrdersInv, StoreInv
    <3> QED
      BY <3>1, <3>2 DEF OrdersInv, StoreInv
  <2> QED
    BY <2>1, <2>2 DEF Resubmit, Accepted, SubmitFailed
<1>5. StoreInv'
  BY <1>1, <1>3, <1>4, StoreKeeps DEF OrdersInv, StoreInv
<1> QED
  BY <1>2, <1>5 DEF OrdersInv

(* The ids of the user who is signed in may lose one.                       *)
LEMMA UntrackKeeps ==
  ASSUME OrdersInv, UNCHANGED <<idVars, job, submit>>, NEW i,
         UNCHANGED pending \/ Untrack(i)
  PROVE  StoreInv'
<1>1. /\ pending' \in [Users -> SUBSET Trackings]
      /\ \A u \in Users : pending'[u] \subseteq pending[u]
  BY DEF Untrack, OrdersInv, StoreInv
<1>2. \A u \in Users : \A j \in pending'[u] : job[j].owner = u
  BY <1>1 DEF OrdersInv, StoreInv
<1> QED
  BY <1>1, <1>2, StoreKeeps DEF idVars, OrdersInv, StoreInv

LEMMA OrdersPageKeeps ==
  ASSUME OrdersInv, NEW i \in Trackings, Ask(i) \/ StatusArrives(i) \/ FailureArrives(i) \/ Dismiss(i)
  PROVE  OrdersInv'
<1>1. UNCHANGED <<idVars, job, submit>> /\ (UNCHANGED pending \/ Untrack(i))
  BY DEF Ask, StatusArrives, FailureArrives, Dismiss, Forget
<1>2. ViewInv'
  BY AskKeeps, StatusArrivesKeeps, FailureArrivesKeeps, DismissKeeps
<1> QED
  BY <1>1, <1>2, UntrackKeeps DEF OrdersInv

LEMMA OpenOrdersKeeps ==
  ASSUME OrdersInv, OpenOrders
  PROVE  OrdersInv'
<1>1. /\ page' = "orders" /\ user # Nobody /\ TrackPending(user, Cleared, Stopped)
      /\ UNCHANGED <<user, ready, job, submit, pending>>
  BY DEF OpenOrders, Enter
<1>2. /\ Cleared \in [Trackings -> CardType \cup {NoCard}] /\ Stopped \in [Trackings -> PollType]
      /\ \A i \in Trackings : /\ PollOK(Stopped[i])
                              /\ Followed(i, user, "orders", Cleared[i], Stopped[i])
  BY PollsTyped DEF Cleared, Stopped, Followed, PollOK
<1>3. user' = user /\ user' \in Users \cup {Nobody}
  BY <1>1 DEF OrdersInv, StoreInv
<1>4. ViewInv'
  BY <1>1, <1>2, <1>3, TrackKeeps
<1>5. StoreInv'
  BY <1>1, StoreKeeps DEF OrdersInv, StoreInv
<1> QED
  BY <1>4, <1>5 DEF OrdersInv

LEMMA RestoreKeeps ==
  ASSUME OrdersInv, Restore
  PROVE  OrdersInv'
<1>1. user' \in {user, Nobody} /\ ready' = TRUE /\ UNCHANGED <<page, job, submit, pending>>
  BY DEF Restore, Restored
<1>2. user' \in Users \cup {Nobody}
  BY <1>1 DEF OrdersInv, StoreInv
<1>3. StoreInv'
  BY <1>1, <1>2, StoreKeeps DEF OrdersInv, StoreInv
<1>4. CASE page = "orders"
  <2>1. \A i \in Trackings : PollOK(poll[i]) /\ Followed(i, user', "orders", card[i], poll[i])
    BY <1>1, <1>4 DEF OrdersInv, ViewInv, Followed
  <2>2. /\ card \in [Trackings -> CardType \cup {NoCard}] /\ poll \in [Trackings -> PollType]
        /\ TrackPending(user', card, poll) /\ page' = "orders"
    BY <1>1, <1>4 DEF Restore, OrdersInv, ViewInv
  <2>3. ViewInv'
    BY <1>1, <1>2, <2>1, <2>2, TrackKeeps
  <2> QED
    BY <1>3, <2>3 DEF OrdersInv
<1>5. CASE page # "orders"
  <2>1. UNCHANGED <<card, poll, page>>
    BY <1>1, <1>5 DEF Restore
  <2>2. ViewInv'
    BY <1>1, <2>1, ViewKeeps
  <2> QED
    BY <1>3, <2>2 DEF OrdersInv
<1> QED
  BY <1>4, <1>5

(* Somebody signs in while no page is open, or signs out.                   *)
LEMMA SessionKeeps ==
  ASSUME OrdersInv, Session
  PROVE  OrdersInv'
<1>1. UNCHANGED <<ready, page, job, submit, pending, card, poll>> /\ user' \in Users \cup {Nobody}
  BY DEF Session, SignIn, SignedOut
<1>2. StoreInv'
  BY <1>1, StoreKeeps DEF OrdersInv, StoreInv
<1>3. CASE user' = Nobody
  BY <1>1, <1>2, <1>3, ViewKeeps DEF OrdersInv
<1>4. CASE page = "none"
  <2>1. \A i \in Trackings : card[i] = NoCard /\ ~poll[i].on
    BY <1>4, ViewElsewhere
  <2>2. ViewInv'
    BY <1>1, <2>1 DEF OrdersInv, ViewInv, Followed
  <2> QED
    BY <1>2, <2>2 DEF OrdersInv
<1> QED
  BY <1>3, <1>4 DEF Session, SignIn, SignedOut

LEMMA OrdersStep == OrdersInv /\ [PedidosNext]_pedidosVars => OrdersInv'
<1> SUFFICES ASSUME OrdersInv, [PedidosNext]_pedidosVars
             PROVE  OrdersInv'
  OBVIOUS
<1>1. CASE UNCHANGED pedidosVars
  <2>1. UNCHANGED <<user, ready, page, job, submit, pending, card, poll>>
    BY <1>1 DEF pedidosVars, idVars
  <2>2. StoreInv'
    BY <2>1, StoreKeeps DEF OrdersInv, StoreInv
  <2> QED
    BY <2>1, <2>2, ViewKeeps DEF OrdersInv
<1>2. ASSUME NEW u \in Users, Replace(u)
      PROVE  OrdersInv'
  <2>1. /\ user' = u /\ ready' = FALSE /\ UNCHANGED <<page, job, pending>>
        /\ submit' = NoSubmit /\ card' = Cleared /\ poll' = Stopped
    BY <1>2 DEF Replace, ReplacedBy, ResetView
  <2>2. StoreInv'
    BY <2>1, StoreKeeps DEF OrdersInv, StoreInv, NoSubmit
  <2> QED
    BY <2>1, <2>2, EmptyView DEF OrdersInv
<1>3. CASE Leave
  <2>1. /\ page' = "none" /\ UNCHANGED <<user, ready, job, pending>>
        /\ submit' = NoSubmit /\ card' = Cleared /\ poll' = Stopped
    BY <1>3 DEF Leave, Exit, ResetView
  <2>2. StoreInv'
    BY <2>1, StoreKeeps DEF OrdersInv, StoreInv, NoSubmit
  <2> QED
    BY <2>1, <2>2, EmptyView DEF OrdersInv
<1>4. CASE OpenCart
  <2>1. /\ page = "none" /\ page' = "cart" /\ UNCHANGED <<user, ready, job, submit, pending, card, poll>>
    BY <1>4 DEF OpenCart, Enter
  <2>2. StoreInv'
    BY <2>1, StoreKeeps DEF OrdersInv, StoreInv
  <2>3. ViewInv'
    BY <2>1, ViewElsewhere DEF OrdersInv, ViewInv, Followed
  <2> QED
    BY <2>2, <2>3 DEF OrdersInv
<1>5. ASSUME NEW i \in Trackings, Progress(i)
      PROVE  OrdersInv'
  <2>1. PICK s \in Reports : /\ job[i].status \in {"absent", "open"}
                             /\ job' = [job EXCEPT ![i].status = s]
    BY <1>5 DEF Progress
  <2>2. /\ job' \in [Trackings -> [owner : Users \cup {Nobody}, status : Reports]]
        /\ \A j \in Trackings : /\ job'[j].owner = job[j].owner
                                /\ job[j].status \in Ended => job'[j].status = job[j].status
    BY <2>1 DEF OrdersInv, StoreInv, Ended
  <2>3. UNCHANGED <<user, ready, page, submit, pending, card, poll>>
    BY <1>5 DEF Progress, idVars
  <2>4. StoreInv'
    BY <2>2, <2>3 DEF OrdersInv, StoreInv
  <2> QED
    BY <2>2, <2>3, <2>4, ViewKeeps DEF OrdersInv
<1> QED
  BY <1>1, <1>2, <1>3, <1>4, <1>5, SubmitKeeps, CartPageKeeps, OrdersPageKeeps, OpenOrdersKeeps,
     RestoreKeeps, SessionKeeps DEF PedidosNext

LEMMA OrdersInvariance == PedidosSpec => []OrdersInv
BY OrdersInit, OrdersStep, PTL DEF PedidosSpec

(* Whatever is answered, the orders page stays within its types: a poll     *)
(* never passes its attempts nor its grace (MAX_POLL_ATTEMPTS, the          *)
(* not-found grace of ClientePedidoTrackingFacade).                         *)
THEOREM PollsBounded == PedidosSpec => []PedidosTypeOK
<1>1. OrdersInv => PedidosTypeOK
  BY DEF OrdersInv, StoreInv, ViewInv, PollOK, CardType, PollType, PedidosTypeOK, IdentityTypeOK
<1> QED
  BY <1>1, OrdersInvariance, PTL

(* However sessions replace each other while requests are in flight, a user *)
(* has only own orders stored, and sees and polls nobody else's:            *)
(* ClienteTrackingStore and resetForSessionChange().                        *)
THEOREM OwnOrders == PedidosSpec => []OwnOrdersOnly
<1>1. OrdersInv => OwnOrdersOnly
  BY DEF OrdersInv, StoreInv, ViewInv, Followed, OwnOrdersOnly
<1> QED
  BY <1>1, OrdersInvariance, PTL

(* A card that tells how its order ended, placed or refused, tells what the *)
(* server keeps, through every change of session and every late answer:     *)
(* handlePollEvent() of ClientePedidoTrackingFacade.                        *)
CardsTellTheEnd ==
  \A i \in Trackings : card[i] # NoCard /\ card[i].status \in Ended => job[i].status = card[i].status

THEOREM ShownAsEnded == PedidosSpec => []CardsTellTheEnd
<1>1. OrdersInv => CardsTellTheEnd
  BY DEF OrdersInv, ViewInv, Followed, CardsTellTheEnd
<1> QED
  BY <1>1, OrdersInvariance, PTL

(* What TrackedUntilSettled says of a step.                                 *)
StaysTracked ==
  \A u \in Users : \A i \in pending[u] \ pending'[u] :
    job[i].status = "ordered" \/ (card[i] # NoCard /\ card[i].terminal)

LEMMA StaysTrackedStep == OrdersInv /\ [PedidosNext]_pedidosVars => [StaysTracked]_pedidosVars
<1> SUFFICES ASSUME OrdersInv, PedidosNext, NEW u \in Users, NEW i \in pending[u] \ pending'[u]
             PROVE  job[i].status = "ordered" \/ (card[i] # NoCard /\ card[i].terminal)
  BY DEF StaysTracked
<1>1. pending \in [Users -> SUBSET Trackings]
  BY DEF OrdersInv, StoreInv
<1>2. pending' # pending
  OBVIOUS
<1>3. ~Accepted
  BY <1>1 DEF Accepted
<1>4. PICK j \in Trackings : StatusArrives(j) \/ Dismiss(j)
  <2>1. ~(Resubmit \/ SubmitFailed \/ OpenOrders \/ OpenCart \/ Leave \/ Restore \/ Session)
    BY <1>2 DEF Resubmit, SubmitFailed, OpenOrders, OpenCart, Leave, Restore, Session
  <2>2. \A v \in Users : ~Replace(v)
    BY <1>2 DEF Replace
  <2>3. \A j \in Trackings : ~(Submit(j) \/ Ask(j) \/ FailureArrives(j) \/ Progress(j))
    BY <1>2 DEF Submit, Ask, FailureArrives, Progress
  <2> QED
    BY <1>3, <2>1, <2>2, <2>3 DEF PedidosNext
<1>5. Untrack(j)
  BY <1>2, <1>4 DEF StatusArrives, Forget, Dismiss
<1>6. i = j
  BY <1>1, <1>5 DEF Untrack
<1>7. CASE StatusArrives(j)
  <2>1. poll[j].answer = "ordered"
    BY <1>2, <1>7 DEF StatusArrives, Forget
  <2> QED
    BY <1>6, <2>1 DEF OrdersInv, ViewInv, Followed, Ended
<1>8. CASE Dismiss(j)
  BY <1>6, <1>8 DEF Dismiss
<1> QED
  BY <1>4, <1>7, <1>8

(* An accepted order is followed until the user knows how it ended: only    *)
(* COMPLETED and dismiss() of a terminal card remove its id.                *)
THEOREM FollowedToTheEnd == PedidosSpec => TrackedUntilSettled
BY StaysTrackedStep, OrdersInvariance, PTL DEF PedidosSpec, TrackedUntilSettled, StaysTracked

-----------------------------------------------------------------------------
(***************************************************************************)
(* CartScreen                                                              *)
(***************************************************************************)

HomeType == [loading : BOOLEAN, selecting : Vendedores \cup {NoProvider},
             selected : Vendedores \cup {NoProvider}]
CartShown == [by : Users, vendedor : Vendedores, version : Versions]
ScreenType == [cart : CartShown \cup {NoCart}, loading : BOOLEAN, failed : BOOLEAN,
               mutating : BOOLEAN, redirect : BOOLEAN]
ReadType == [on : BOOLEAN, vendedor : Vendedores \cup {NoProvider}, got : Versions \cup {0}]
ServerType == [Users -> [Vendedores -> Versions]]
AcksType == [Vendedores -> Versions \cup {0}]
EditType == [on : BOOLEAN, fresh : BOOLEAN, vendedor : Vendedores \cup {NoProvider},
             got : Versions \cup {0}]

(* The cart, the read and the edit are there on the cart page only.         *)
OnCartPage ==
  /\ page # "cart" => screen.cart = NoCart /\ ~read.on /\ ~edit.on /\ acked = NoAcks
  /\ page # "home" => home.selecting = NoProvider

(* Of a user who is signed in, the cart shown is their own, and no answer is *)
(* newer than the server.                                                   *)
OfTheUser ==
  user # Nobody =>
    /\ screen.cart # NoCart => screen.cart.by = user
    /\ edit.on => edit.got <= server[user][edit.vendedor]
    /\ \A v \in Vendedores : acked[v] <= server[user][v]

(* Neither the cart nor a read that was served after the newest edit of that *)
(* cart is older than it: an edit that is still fresh has no read beside it,  *)
(* and is one of the cart shown.                                            *)
NotBehind ==
  /\ read.on => read.vendedor \in Vendedores /\ (read.got # 0 => read.got >= acked[read.vendedor])
  /\ edit.on => edit.vendedor \in Vendedores
  /\ edit.on /\ edit.fresh =>
       ~read.on /\ screen.cart # NoCart /\ screen.cart.vendedor = edit.vendedor
  /\ screen.cart # NoCart /\ ~screen.loading /\ ~screen.failed
       => screen.cart.version >= acked[screen.cart.vendedor]

ScreenInv == ScreenTypeOK /\ OnCartPage /\ OfTheUser /\ NotBehind

-----------------------------------------------------------------------------
LEMMA EmptyTyped ==
  /\ \A b \in BOOLEAN : [EmptyScreen EXCEPT !.redirect = b] \in ScreenType
                        /\ [EmptyScreen EXCEPT !.redirect = b].cart = NoCart
  /\ EmptyScreen \in ScreenType /\ EmptyScreen.cart = NoCart
  /\ NoRead \in ReadType /\ ~NoRead.on
  /\ NoEdit \in EditType /\ ~NoEdit.on
BY DEF EmptyScreen, ScreenType, NoRead, ReadType, NoEdit, EditType

LEMMA ScreenInitInv == ScreenInit => ScreenInv
<1> SUFFICES ASSUME ScreenInit PROVE ScreenInv
  OBVIOUS
<1>1. /\ server \in ServerType /\ \A u \in Users, v \in Vendedores : server[u][v] = 1
      /\ acked = NoAcks /\ NoAcks \in AcksType /\ \A v \in Vendedores : acked[v] = 0
  BY CartScreenAssumption DEF ScreenInit, Versions, NoAcks, ServerType, AcksType
<1>2. ScreenTypeOK
  BY <1>1, EmptyTyped
     DEF ScreenInit, IdentityInit, ScreenTypeOK, IdentityTypeOK, EmptyHome, ScreenType, CartShown, ReadType, EditType, HomeType,
         ServerType, AcksType
<1>3. OnCartPage /\ OfTheUser /\ NotBehind
  BY <1>1, EmptyTyped DEF ScreenInit, IdentityInit, OnCartPage, OfTheUser, NotBehind, EmptyHome
<1> QED
  BY <1>2, <1>3 DEF ScreenInv

(* The page is empty. *)
LEMMA ResetKeeps ==
  ASSUME ScreenInv, NEW s \in ScreenType, s.cart = NoCart, Reset(s),
         IdentityTypeOK', page' \in {"none", "home", "cart"},
         home' \in HomeType,
         page' # "home" => home'.selecting = NoProvider,
         server' \in ServerType, provider' \in [Users -> Vendedores \cup {NoProvider}],
         acked' \in AcksType,
         page' # "cart" => acked' = NoAcks,
         user' # Nobody => \A v \in Vendedores : acked'[v] <= server'[user'][v]
  PROVE  ScreenInv'
<1>1. /\ screen' \in ScreenType /\ screen'.cart = NoCart /\ read' \in ReadType /\ ~read'.on
      /\ edit' \in EditType /\ ~edit'.on
  BY EmptyTyped DEF Reset
<1>2. ScreenTypeOK'
  BY <1>1 DEF ScreenTypeOK, ScreenType, CartShown, ReadType, EditType, HomeType, ServerType, AcksType
<1>3. OnCartPage' /\ OfTheUser' /\ NotBehind'
  BY <1>1 DEF OnCartPage, OfTheUser, NotBehind
<1> QED
  BY <1>2, <1>3 DEF ScreenInv

(* load() of who is signed in. *)
LEMMA LoadKeeps ==
  ASSUME ScreenInv, UNCHANGED <<server, provider>>, IdentityTypeOK', page' = "cart",
         home' \in HomeType,
         home'.selecting = NoProvider,
         acked' \in AcksType, user' # Nobody => \A v \in Vendedores : acked'[v] <= server[user'][v],
         NEW s \in ScreenType, NEW e \in EditType, Load(user', s, e),
         user' # Nobody /\ s.cart # NoCart => s.cart.by = user',
         user' # Nobody /\ e.on => e.got <= server[user'][e.vendedor],
         e.on => e.vendedor \in Vendedores
  PROVE  ScreenInv'
<1>1. /\ server \in ServerType /\ provider \in [Users -> Vendedores \cup {NoProvider}]
      /\ user' \in Users \cup {Nobody}
  BY DEF ScreenInv, ScreenTypeOK, IdentityTypeOK, ServerType
<1>2. CASE InScope(user')
  <2> DEFINE sc == [s EXCEPT !.loading = TRUE, !.failed = FALSE]
             rd == [NoRead EXCEPT !.on = TRUE, !.vendedor = provider[user']]
             ed == [e EXCEPT !.fresh = FALSE]
  <2>1. screen' = sc /\ read' = rd /\ edit' = ed
    BY <1>2 DEF Load
  <2>2. user' # Nobody /\ provider[user'] \in Vendedores
    BY <1>1, <1>2 DEF InScope
  <2>3. sc \in ScreenType /\ sc.cart = s.cart /\ sc.loading
    BY DEF ScreenType
  <2>4. rd \in ReadType /\ rd.on /\ rd.got = 0 /\ rd.vendedor = provider[user']
    BY <2>2 DEF NoRead, ReadType
  <2>5. /\ ed \in EditType /\ ed.on = e.on /\ ~ed.fresh /\ ed.vendedor = e.vendedor
        /\ ed.got = e.got
    BY DEF EditType
  <2> HIDE DEF sc, rd, ed
  <2>6. ScreenTypeOK'
    BY <1>1, <2>1, <2>3, <2>4, <2>5
       DEF ScreenTypeOK, ScreenType, CartShown, ReadType, EditType, HomeType, ServerType, AcksType
  <2>7. OnCartPage' /\ OfTheUser' /\ NotBehind'
    BY <2>1, <2>2, <2>3, <2>4, <2>5 DEF OnCartPage, OfTheUser, NotBehind
  <2> QED
    BY <2>6, <2>7 DEF ScreenInv
<1>3. CASE ~InScope(user')
  <2>1. Reset([EmptyScreen EXCEPT !.redirect = TRUE])
    BY <1>3 DEF Load, Redirect
  <2>2. /\ [EmptyScreen EXCEPT !.redirect = TRUE] \in ScreenType
        /\ [EmptyScreen EXCEPT !.redirect = TRUE].cart = NoCart
    BY EmptyTyped
  <2> QED
    BY <1>1, <2>1, <2>2, ResetKeeps
<1> QED
  BY <1>2, <1>3

(* What happens while the cart page is not open.                            *)
LEMMA ElsewhereKeeps ==
  ASSUME ScreenInv, page # "cart", UNCHANGED cartVars, IdentityTypeOK', page' \in {"none", "home"},
         UNCHANGED server, provider' \in [Users -> Vendedores \cup {NoProvider}],
         home' \in HomeType,
         page' # "home" => home'.selecting = NoProvider
  PROVE  ScreenInv'
<1>1. /\ UNCHANGED <<screen, read, edit, acked>> /\ acked = NoAcks
      /\ screen.cart = NoCart /\ ~read.on /\ ~edit.on
  BY DEF cartVars, ScreenInv, OnCartPage
<1>2. ScreenTypeOK'
  BY <1>1 DEF ScreenInv, ScreenTypeOK, HomeType
<1>3. user' # Nobody => \A v \in Vendedores : acked[v] = 0 /\ 0 <= server[user'][v]
  BY <1>1 DEF ScreenInv, ScreenTypeOK, IdentityTypeOK, NoAcks, Versions
<1>4. OnCartPage' /\ OfTheUser' /\ NotBehind'
  BY <1>1, <1>3 DEF OnCartPage, OfTheUser, NotBehind, Versions
<1> QED
  BY <1>2, <1>4 DEF ScreenInv

(* What happens on the cart page while user, vendedor and home stay.        *)
LEMMA PageKeeps ==
  ASSUME ScreenInv, UNCHANGED <<idVars, provider, home>>, page = "cart",
         screen' \in ScreenType, read' \in ReadType, edit' \in EditType, acked' \in AcksType,
         server' \in ServerType,
         OfTheUser', NotBehind'
  PROVE  ScreenInv'
<1>1. UNCHANGED <<user, ready, page>>
  BY DEF idVars
<1>2. ScreenTypeOK'
  BY <1>1 DEF ScreenInv, ScreenTypeOK, IdentityTypeOK, ScreenType, CartShown, ReadType, EditType, HomeType,
     ServerType, AcksType
<1>3. OnCartPage'
  BY <1>1 DEF ScreenInv, OnCartPage
<1> QED
  BY <1>2, <1>3 DEF ScreenInv

LEMMA ScreenTypes ==
  ASSUME ScreenInv
  PROVE  /\ screen \in ScreenType /\ read \in ReadType /\ edit \in EditType
         /\ acked \in AcksType /\ server \in ServerType
         /\ provider \in [Users -> Vendedores \cup {NoProvider}]
         /\ user \in Users \cup {Nobody} /\ ready \in BOOLEAN /\ page \in {"none", "home", "cart"}
         /\ home \in HomeType
         /\ user # Nobody => user \in Users
         /\ \A u \in Users, v \in Vendedores : server[u][v] \in Versions
         /\ \A v \in Vendedores : acked[v] \in Versions \cup {0}
         /\ NoAcks \in AcksType
         /\ \A u \in Users, v \in Vendedores : NoAcks[v] <= server[u][v]
         /\ \A n \in Versions \cup {0} : n \in Nat
BY DEF ScreenInv, ScreenTypeOK, IdentityTypeOK, ScreenType, CartShown, ReadType, EditType, HomeType, Versions,
   ServerType, AcksType, NoAcks

-----------------------------------------------------------------------------
(* The home                                                                 *)

LEMMA HomeKeeps ==
  ASSUME ScreenInv,
         \/ OpenHome \/ ListFailed \/ RetryHome \/ StartSession
         \/ \E v \in Vendedores : Select(v)
  PROVE  ScreenInv'
<1>1. /\ HomeLoading \in HomeType
      /\ EmptyHome \in HomeType
      /\ \A v \in Vendedores :
           [home EXCEPT !.selecting = v] \in HomeType
  BY ScreenTypes DEF HomeLoading, EmptyHome, HomeType
<1>2. page # "cart" /\ UNCHANGED <<server, provider, cartVars>>
  BY DEF OpenHome, ListFailed, RetryHome, StartSession, SignIn, Select
<1>3. /\ home' \in HomeType
      /\ IdentityTypeOK' /\ page' \in {"none", "home"}
      /\ page' # "home" => home'.selecting = NoProvider
  BY <1>1, ScreenTypes DEF OpenHome, Enter, ListFailed, RetryHome, StartSession, SignIn, Select, idVars,
     IdentityTypeOK, ScreenInv, OnCartPage
<1>4. provider' \in [Users -> Vendedores \cup {NoProvider}]
  BY <1>2, ScreenTypes
<1> QED
  BY <1>2, <1>3, <1>4, ElsewhereKeeps

(* A vendedor is chosen.                                                    *)
LEMMA ChoiceKeeps ==
  ASSUME ScreenInv,
         \/ \E offers \in SUBSET Vendedores, v \in Vendedores \cup {NoProvider} : ProvidersListed(offers, v)
         \/ Selected
  PROVE  ScreenInv'
<1>1. page = "home" /\ UNCHANGED <<idVars, server, cartVars>>
  BY DEF ProvidersListed, Selected, ScreenInv, OnCartPage
<1>2. /\ home' \in HomeType
      /\ provider' \in [Users -> Vendedores \cup {NoProvider}]
  <2>1. ASSUME NEW offers \in SUBSET Vendedores, NEW v \in Vendedores \cup {NoProvider},
               ProvidersListed(offers, v)
        PROVE  \E c \in Vendedores \cup {NoProvider} :
                 /\ home' = [home EXCEPT !.loading = FALSE, !.selected = c]
                 /\ provider' = [provider EXCEPT ![user] = c]
    <3> DEFINE c == IF provider[user] \in offers THEN provider[user]
                    ELSE IF v \in offers THEN v
                    ELSE IF \E x \in offers : offers = {x} THEN CHOOSE x \in offers : TRUE
                    ELSE NoProvider
    <3>1. c \in Vendedores \cup {NoProvider}
      OBVIOUS
    <3>2. /\ home' = [home EXCEPT !.loading = FALSE, !.selected = c]
          /\ provider' = [provider EXCEPT ![user] = c]
      BY <2>1 DEF ProvidersListed, Remember
    <3> HIDE DEF c
    <3> QED
      BY <3>1, <3>2
  <2>2. ASSUME Selected
        PROVE  /\ home' \in {[home EXCEPT !.selected = home.selecting, !.selecting = NoProvider],
                             [home EXCEPT !.selecting = NoProvider]}
               /\ provider' \in {provider, [provider EXCEPT ![user] = home.selecting]}
    BY <2>2 DEF Selected, Remember
  <2>3. \A c \in Vendedores \cup {NoProvider} :
          /\ [home EXCEPT !.loading = FALSE, !.selected = c] \in HomeType
          /\ [provider EXCEPT ![user] = c] \in [Users -> Vendedores \cup {NoProvider}]
    BY ScreenTypes DEF HomeType
  <2>4. /\ home.selecting \in Vendedores \cup {NoProvider}
        /\ [home EXCEPT !.selected = home.selecting, !.selecting = NoProvider] \in HomeType
        /\ [home EXCEPT !.selecting = NoProvider] \in HomeType
    BY ScreenTypes DEF HomeType
  <2>5. CASE Selected
    <3>1. home' \in HomeType
      BY <2>2, <2>4, <2>5
    <3>2. provider' \in [Users -> Vendedores \cup {NoProvider}]
      BY <2>2, <2>3, <2>4, <2>5, ScreenTypes
    <3> QED
      BY <3>1, <3>2
  <2>6. CASE \E offers \in SUBSET Vendedores, v \in Vendedores \cup {NoProvider} : ProvidersListed(offers, v)
    BY <2>1, <2>3, <2>6
  <2> QED
    BY <2>5, <2>6
<1>3. IdentityTypeOK' /\ page' = "home"
  BY <1>1, ScreenTypes DEF idVars, IdentityTypeOK
<1> QED
  BY <1>1, <1>2, <1>3, ElsewhereKeeps

-----------------------------------------------------------------------------
(* The session and the server                                               *)

LEMMA HomeAfterTyped ==
  ASSUME ScreenInv, NEW u \in Users \cup {Nobody}
  PROVE  HomeAfter(u) \in HomeType /\ (page # "home" => HomeAfter(u).selecting = NoProvider)
<1>1. EmptyHome \in HomeType /\ HomeLoading \in HomeType
  BY DEF EmptyHome, HomeLoading, HomeType
<1>2. home \in HomeType /\ (page # "home" => home.selecting = NoProvider)
  BY ScreenTypes DEF ScreenInv, OnCartPage
<1> QED
  BY <1>1, <1>2 DEF HomeAfter

LEMMA EndSessionKeeps == ASSUME ScreenInv, EndSession PROVE ScreenInv'
<1>1. /\ UNCHANGED <<server, provider, screen, read, edit, acked, ready, page>>
      /\ user' = Nobody /\ home' = HomeAfter(Nobody)
  BY DEF EndSession, SignedOut, cartVars
<1>2. home' \in HomeType /\ (page # "home" => home'.selecting = NoProvider)
  BY <1>1, HomeAfterTyped
<1>3. ScreenTypeOK'
  BY <1>1, <1>2 DEF ScreenInv, ScreenTypeOK, IdentityTypeOK, HomeType
<1>4. OnCartPage' /\ OfTheUser' /\ NotBehind'
  BY <1>1, <1>2 DEF ScreenInv, OnCartPage, OfTheUser, NotBehind
<1> QED
  BY <1>3, <1>4 DEF ScreenInv

(* The server only ever gets ahead of the page.                             *)
LEMMA CartChanged ==
  ASSUME ScreenInv, NEW u \in Users, NEW v \in Vendedores, Changed(u, v)
  PROVE  /\ server' \in ServerType /\ server'[u][v] \in Versions
         /\ \A w \in Users, x \in Vendedores :
              /\ server[w][x] \in Nat /\ server'[w][x] \in Nat
              /\ server[w][x] <= server'[w][x]
<1>1. /\ server \in ServerType /\ server[u][v] < MaxVersions
      /\ server' = [server EXCEPT ![u][v] = @ + 1]
  BY ScreenTypes DEF Changed
<1>2. server[u][v] \in Versions /\ server[u][v] + 1 \in Versions
  BY <1>1, ScreenTypes, CartScreenAssumption DEF Versions
<1>3. server' \in ServerType
  BY <1>1, <1>2 DEF ServerType
<1>4. \A w \in Users, x \in Vendedores :
        server'[w][x] = IF w = u /\ x = v THEN server[u][v] + 1 ELSE server[w][x]
  BY <1>1 DEF ServerType
<1>5. \A w \in Users, x \in Vendedores : server[w][x] \in Nat
  BY ScreenTypes DEF Versions
<1> QED
  BY <1>2, <1>3, <1>4, <1>5

(* What the page knows of the carts stays no newer than the server.         *)
LEMMA ChangeFollowed ==
  ASSUME ScreenInv, NEW u \in Users, NEW v \in Vendedores, Changed(u, v), user # Nobody
  PROVE  /\ edit.on => edit.got <= server'[user][edit.vendedor]
         /\ \A x \in Vendedores : acked[x] <= server'[user][x]
<1>1. user \in Users /\ edit.got \in Nat /\ \A x \in Vendedores : acked[x] \in Nat
  BY ScreenTypes DEF EditType
<1>2. /\ edit.on => edit.vendedor \in Vendedores /\ edit.got <= server[user][edit.vendedor]
      /\ \A x \in Vendedores : acked[x] <= server[user][x]
  BY DEF ScreenInv, OfTheUser, NotBehind
<1> QED
  BY <1>1, <1>2, CartChanged

LEMMA OtherKeeps == ASSUME ScreenInv, NEW u \in Users, NEW v \in Vendedores, OtherEdit(u, v) PROVE ScreenInv'
<1>1. /\ UNCHANGED <<provider, home, screen, read, edit, acked, user, ready, page>>
      /\ Changed(u, v)
  BY DEF OtherEdit, idVars, cartVars
<1>2. server' \in ServerType
  BY <1>1, CartChanged
<1>3. ScreenTypeOK'
  BY <1>1, <1>2 DEF ScreenInv, ScreenTypeOK, IdentityTypeOK, ServerType
<1>4. OnCartPage' /\ NotBehind'
  BY <1>1 DEF ScreenInv, OnCartPage, NotBehind
<1>5. OfTheUser'
  BY <1>1, ChangeFollowed DEF ScreenInv, OfTheUser
<1> QED
  BY <1>3, <1>4, <1>5 DEF ScreenInv

(* Another tab's selection disturbs nothing that is known of the carts.     *)
LEMMA ElsewhereSelected ==
  ASSUME ScreenInv, NEW u \in Users, NEW v \in Vendedores \cup {NoProvider}, SelectElsewhere(u, v)
  PROVE  ScreenInv'
<1>1. /\ UNCHANGED <<server, home, screen, read, edit, acked, user, ready, page>>
      /\ provider' = [provider EXCEPT ![u] = v]
  BY DEF SelectElsewhere, Remember, idVars, cartVars
<1>2. provider' \in [Users -> Vendedores \cup {NoProvider}]
  BY <1>1, ScreenTypes
<1>3. ScreenTypeOK'
  BY <1>1, <1>2 DEF ScreenInv, ScreenTypeOK, IdentityTypeOK
<1>4. OnCartPage' /\ OfTheUser' /\ NotBehind'
  BY <1>1 DEF ScreenInv, OnCartPage, OfTheUser, NotBehind
<1> QED
  BY <1>3, <1>4 DEF ScreenInv

LEMMA OpenKeeps == ASSUME ScreenInv, OpenCartPage PROVE ScreenInv'
<1>1. /\ UNCHANGED <<server, provider, home, user, ready>> /\ page = "none" /\ page' = "cart"
      /\ Load(user', EmptyScreen, NoEdit) /\ acked' = NoAcks /\ user # Nobody
  BY DEF OpenCartPage, Enter
<1>2. /\ EmptyScreen \in ScreenType /\ EmptyScreen.cart = NoCart
      /\ NoEdit \in EditType /\ ~NoEdit.on
  BY EmptyTyped
<1>3. IdentityTypeOK' /\ home' \in HomeType /\ home'.selecting = NoProvider
  BY <1>1, ScreenTypes DEF ScreenInv, OnCartPage, IdentityTypeOK
<1>4. acked' \in AcksType /\ \A v \in Vendedores : acked'[v] <= server[user'][v]
  BY <1>1, ScreenTypes
<1> QED
  BY <1>1, <1>2, <1>3, <1>4, LoadKeeps

LEMMA RetryKeeps == ASSUME ScreenInv, Retry PROVE ScreenInv'
<1>1. /\ UNCHANGED <<server, provider, home, user, ready, page, acked>> /\ page = "cart"
      /\ Load(user', screen, edit)
  BY DEF Retry, idVars
<1>2. IdentityTypeOK' /\ home' \in HomeType /\ home'.selecting = NoProvider
  BY <1>1, ScreenTypes DEF ScreenInv, OnCartPage, IdentityTypeOK
<1>3. /\ user # Nobody /\ screen.cart # NoCart => screen.cart.by = user
      /\ user # Nobody /\ edit.on => edit.got <= server[user][edit.vendedor]
      /\ user # Nobody => \A v \in Vendedores : acked[v] <= server[user][v]
      /\ edit.on => edit.vendedor \in Vendedores
  BY DEF ScreenInv, OfTheUser, NotBehind
<1>4. screen \in ScreenType /\ edit \in EditType /\ acked' \in AcksType
  BY <1>1, ScreenTypes
<1> QED
  BY <1>1, <1>2, <1>3, <1>4, LoadKeeps

LEMMA RestoreSessionKeeps == ASSUME ScreenInv, RestoreSession PROVE ScreenInv'
<1>1. /\ UNCHANGED <<server, provider, page, acked>> /\ user' \in {user, Nobody}
      /\ home' = HomeAfter(user') /\ ready' = TRUE
      /\ IF page = "cart" THEN Load(user', screen, edit) ELSE UNCHANGED <<screen, read, edit>>
  BY DEF RestoreSession, Restored
<1>2. user' \in Users \cup {Nobody} /\ IdentityTypeOK'
  BY <1>1, ScreenTypes DEF IdentityTypeOK
<1>3. home' \in HomeType /\ (page # "home" => home'.selecting = NoProvider)
  BY <1>1, <1>2, HomeAfterTyped
<1>4. CASE page = "cart"
  <2>1. /\ user' # Nobody /\ screen.cart # NoCart => screen.cart.by = user'
        /\ user' # Nobody /\ edit.on => edit.got <= server[user'][edit.vendedor]
        /\ user' # Nobody => \A v \in Vendedores : acked[v] <= server[user'][v]
        /\ edit.on => edit.vendedor \in Vendedores
    BY <1>1 DEF ScreenInv, OfTheUser, NotBehind
  <2>2. screen \in ScreenType /\ edit \in EditType /\ acked' \in AcksType
    BY <1>1, ScreenTypes
  <2>3. Load(user', screen, edit)
    BY <1>1, <1>4
  <2>4. /\ page' = "cart" /\ home' \in HomeType /\ home'.selecting = NoProvider
        /\ UNCHANGED <<server, provider>> /\ (user' # Nobody => \A v \in Vendedores : acked'[v] <= server[user'][v])
    BY <1>1, <1>3, <1>4, <2>1
  <2> QED
    BY <1>2, <2>1, <2>2, <2>3, <2>4, LoadKeeps
<1>5. CASE page # "cart"
  <2>1. UNCHANGED cartVars
    BY <1>1, <1>5 DEF cartVars
  <2>2. page' \in {"none", "home"} /\ provider' \in [Users -> Vendedores \cup {NoProvider}]
    BY <1>1, <1>5, ScreenTypes
  <2> QED
    BY <1>1, <1>2, <1>3, <1>5, <2>1, <2>2, ElsewhereKeeps
<1> QED
  BY <1>4, <1>5

LEMMA ReplaceKeeps == ASSUME ScreenInv, NEW u \in Users, ReplaceSession(u) PROVE ScreenInv'
<1>1. /\ UNCHANGED <<server, provider, page>> /\ user' = u /\ ready' = FALSE /\ acked' = NoAcks
      /\ home' = HomeAfter(u) /\ Reset([EmptyScreen EXCEPT !.redirect = screen.redirect])
  BY DEF ReplaceSession, ReplacedBy, ResetForSession
<1>2. home' \in HomeType /\ (page # "home" => home'.selecting = NoProvider)
  BY <1>1, HomeAfterTyped
<1>3. /\ [EmptyScreen EXCEPT !.redirect = screen.redirect] \in ScreenType
      /\ [EmptyScreen EXCEPT !.redirect = screen.redirect].cart = NoCart
  BY EmptyTyped, ScreenTypes DEF ScreenType
<1>4. /\ IdentityTypeOK' /\ page' \in {"none", "home", "cart"}
      /\ server' \in ServerType /\ provider' \in [Users -> Vendedores \cup {NoProvider}]
  BY <1>1, ScreenTypes DEF IdentityTypeOK
<1>5. acked' \in AcksType /\ \A v \in Vendedores : acked'[v] <= server'[user'][v]
  BY <1>1, ScreenTypes
<1> QED
  BY <1>1, <1>2, <1>3, <1>4, <1>5, ResetKeeps

LEMMA LeaveKeeps == ASSUME ScreenInv, LeavePage PROVE ScreenInv'
<1>1. /\ UNCHANGED <<server, provider, user, ready>> /\ page' = "none" /\ acked' = NoAcks
      /\ home' = EmptyHome /\ Reset(EmptyScreen)
  BY DEF LeavePage, Exit
<1>2. EmptyScreen \in ScreenType /\ EmptyScreen.cart = NoCart
  BY EmptyTyped
<1>3. home' \in HomeType /\ home'.selecting = NoProvider
  BY <1>1 DEF EmptyHome, HomeType
<1>4. /\ IdentityTypeOK' /\ page' \in {"none", "home", "cart"}
      /\ server' \in ServerType /\ provider' \in [Users -> Vendedores \cup {NoProvider}]
  BY <1>1, ScreenTypes DEF IdentityTypeOK
<1>5. acked' \in AcksType /\ (user' # Nobody => \A v \in Vendedores : acked'[v] <= server'[user'][v])
  BY <1>1, ScreenTypes
<1> QED
  BY <1>1, <1>2, <1>3, <1>4, <1>5, ResetKeeps

-----------------------------------------------------------------------------
(* The cart page                                                            *)

(* The screen is emptied while its page stays open.                         *)
LEMMA PageResets ==
  ASSUME ScreenInv, page = "cart", UNCHANGED <<idVars, server, home, acked>>,
         provider' \in [Users -> Vendedores \cup {NoProvider}], Redirect
  PROVE  ScreenInv'
<1>1. UNCHANGED <<user, ready, page>>
  BY DEF idVars
<1>2. /\ Reset([EmptyScreen EXCEPT !.redirect = TRUE])
      /\ [EmptyScreen EXCEPT !.redirect = TRUE] \in ScreenType
      /\ [EmptyScreen EXCEPT !.redirect = TRUE].cart = NoCart
  BY EmptyTyped DEF Redirect
<1>3. /\ IdentityTypeOK' /\ page' \in {"none", "home", "cart"} /\ home' \in HomeType
      /\ home'.selecting = NoProvider
      /\ server' \in ServerType /\ acked' \in AcksType
      /\ (user' # Nobody => \A v \in Vendedores : acked'[v] <= server'[user'][v])
  BY <1>1, ScreenTypes DEF ScreenInv, OnCartPage, OfTheUser, IdentityTypeOK
<1>4. page' # "cart" => acked' = NoAcks
  BY <1>1
<1> QED
  BY <1>2, <1>3, <1>4, ResetKeeps

LEMMA ServeReadKeeps == ASSUME ScreenInv, ServeRead PROVE ScreenInv'
<1>1. /\ UNCHANGED <<idVars, provider, home, server, screen, edit, acked>>
      /\ read.on /\ user # Nobody /\ read' = [read EXCEPT !.got = server[user][read.vendedor]]
  BY DEF ServeRead
<1>2. page = "cart" /\ UNCHANGED user /\ user \in Users /\ read.vendedor \in Vendedores
  BY <1>1, ScreenTypes DEF ScreenInv, OnCartPage, NotBehind, idVars
<1> DEFINE n == server[user][read.vendedor]
<1>3. n \in Versions /\ n \in Nat
  BY <1>2, ScreenTypes
<1>4. read' \in ReadType /\ read'.on = read.on /\ read'.vendedor = read.vendedor /\ read'.got = n
  BY <1>1, <1>3, ScreenTypes DEF ReadType
<1>5. acked[read.vendedor] <= n /\ acked[read.vendedor] \in Nat
  BY <1>1, <1>2, ScreenTypes DEF ScreenInv, OfTheUser
<1> HIDE DEF n
<1>6. OfTheUser' /\ NotBehind'
  BY <1>1, <1>2, <1>3, <1>4, <1>5 DEF ScreenInv, OfTheUser, NotBehind
<1>7. /\ screen' \in ScreenType /\ edit' \in EditType /\ acked' \in AcksType
      /\ server' \in ServerType
  BY <1>1, ScreenTypes
<1> QED
  BY <1>1, <1>2, <1>4, <1>6, <1>7, PageKeeps

LEMMA ReadArrivesKeeps == ASSUME ScreenInv, ReadArrives PROVE ScreenInv'
<1>1. UNCHANGED <<idVars, home, server, acked>> /\ read.on /\ user # Nobody
  BY DEF ReadArrives
<1>2. page = "cart" /\ UNCHANGED user
  BY <1>1 DEF ScreenInv, OnCartPage, idVars
<1>3. user \in Users /\ NoRead \in ReadType /\ ~NoRead.on
  BY <1>1, ScreenTypes, EmptyTyped
<1>4. CASE LoseProvider
  <2>1. provider' \in [Users -> Vendedores \cup {NoProvider}] /\ Redirect
    BY <1>4, ScreenTypes DEF LoseProvider
  <2> QED
    BY <1>1, <1>2, <2>1, PageResets
<1>5. CASE /\ read.got # 0 /\ user # Nobody
           /\ screen' = [screen EXCEPT !.cart = Shown(read.vendedor, read.got), !.loading = FALSE]
           /\ read' = NoRead
           /\ UNCHANGED <<provider, edit>>
  <2>1. /\ read.vendedor \in Vendedores /\ read.got \in Versions
        /\ read.got >= acked[read.vendedor]
    BY <1>1, <1>5, ScreenTypes DEF ScreenInv, NotBehind, ReadType
  <2> DEFINE c == Shown(read.vendedor, read.got)
  <2>2. c \in CartShown /\ c.by = user /\ c.vendedor = read.vendedor /\ c.version = read.got
    BY <1>3, <2>1 DEF Shown, CartShown
  <2> HIDE DEF c
  <2>3. screen' = [screen EXCEPT !.cart = c, !.loading = FALSE]
    BY <1>5 DEF c
  <2>4. screen' \in ScreenType /\ screen'.cart = c
    BY <2>2, <2>3, ScreenTypes DEF ScreenType
  <2>5. edit.on => edit.vendedor \in Vendedores /\ ~edit.fresh
    BY <1>1 DEF ScreenInv, NotBehind
  <2>6. OfTheUser'
    BY <1>1, <1>2, <1>3, <1>5, <2>1, <2>2, <2>4 DEF ScreenInv, OfTheUser
  <2>7. NotBehind'
    BY <1>1, <1>2, <1>3, <1>5, <2>1, <2>2, <2>4, <2>5 DEF NotBehind
  <2>8. /\ edit' \in EditType /\ acked' \in AcksType
        /\ server' \in ServerType /\ read' \in ReadType
    BY <1>1, <1>3, <1>5, ScreenTypes
  <2> QED
    BY <1>1, <1>2, <1>5, <2>4, <2>6, <2>7, <2>8, PageKeeps
<1>6. CASE /\ screen' = [screen EXCEPT !.failed = TRUE, !.loading = FALSE]
           /\ read' = NoRead
           /\ UNCHANGED <<provider, edit>>
  <2>1. screen' \in ScreenType /\ screen'.cart = screen.cart /\ screen'.failed
    BY <1>6, ScreenTypes DEF ScreenType
  <2>2. OfTheUser' /\ NotBehind'
    BY <1>1, <1>2, <1>3, <1>6, <2>1 DEF ScreenInv, OfTheUser, NotBehind
  <2>3. /\ edit' \in EditType /\ acked' \in AcksType
        /\ server' \in ServerType /\ read' \in ReadType
    BY <1>1, <1>3, <1>6, ScreenTypes
  <2> QED
    BY <1>1, <1>2, <1>6, <2>1, <2>2, <2>3, PageKeeps
<1> QED
  BY <1>4, <1>5, <1>6 DEF ReadArrives

LEMMA EditKeeps == ASSUME ScreenInv, Edit PROVE ScreenInv'
<1>1. UNCHANGED <<idVars, provider, home, server, acked>> /\ page = "cart" /\ screen.cart # NoCart
      /\ ~screen.loading /\ ~screen.failed
  BY DEF Edit
<1>2. UNCHANGED user
  BY <1>1 DEF idVars
<1>3. CASE Redirect
  BY <1>1, <1>3, ScreenTypes, PageResets
<1>4. CASE /\ InScope(user) /\ SameVendedor
           /\ screen' = [screen EXCEPT !.mutating = TRUE]
           /\ edit' = [NoEdit EXCEPT !.on = TRUE, !.vendedor = provider[user]]
           /\ read' = NoRead
  <2>1. user # Nobody /\ user \in Users /\ provider[user] \in Vendedores
    BY <1>4, ScreenTypes DEF InScope
  <2>2. /\ screen' \in ScreenType /\ screen'.cart = screen.cart
        /\ screen'.loading = screen.loading /\ screen'.failed = screen.failed
    BY <1>4, ScreenTypes DEF ScreenType
  <2>3. /\ edit' \in EditType /\ edit'.on /\ edit'.vendedor = provider[user]
        /\ edit'.got = 0 /\ screen.cart.vendedor = provider[user]
    BY <1>4, <2>1 DEF NoEdit, EditType, SameVendedor
  <2>4. read' \in ReadType /\ ~read'.on
    BY <1>4, EmptyTyped
  <2>5. 0 <= server[user][provider[user]]
    BY <2>1, ScreenTypes DEF Versions
  <2>6. OfTheUser' /\ NotBehind'
    BY <1>1, <1>2, <1>4, <2>1, <2>2, <2>3, <2>4, <2>5 DEF ScreenInv, OfTheUser, NotBehind
  <2>7. acked' \in AcksType /\ server' \in ServerType
    BY <1>1, ScreenTypes
  <2> QED
    BY <1>1, <2>2, <2>3, <2>4, <2>6, <2>7, PageKeeps
<1> QED
  BY <1>3, <1>4 DEF Edit

LEMMA ServeEditKeeps == ASSUME ScreenInv, ServeEdit PROVE ScreenInv'
<1>1. /\ UNCHANGED <<idVars, provider, home, screen, read, acked>>
      /\ edit.on /\ user # Nobody /\ Changed(user, edit.vendedor)
      /\ edit' = [edit EXCEPT !.got = server'[user][edit.vendedor]]
  BY DEF ServeEdit
<1>2. page = "cart" /\ UNCHANGED user /\ user \in Users /\ edit.vendedor \in Vendedores
  BY <1>1, ScreenTypes DEF ScreenInv, OnCartPage, NotBehind, idVars
<1>3. /\ server' \in ServerType /\ server'[user][edit.vendedor] \in Versions
      /\ server'[user][edit.vendedor] \in Nat
  BY <1>1, <1>2, CartChanged
<1>4. /\ edit' \in EditType /\ edit'.on /\ edit'.vendedor = edit.vendedor /\ edit'.fresh = edit.fresh
      /\ edit'.got = server'[user][edit.vendedor]
  BY <1>1, <1>3, ScreenTypes DEF EditType
<1>5. edit'.got <= server'[user][edit.vendedor] /\ \A x \in Vendedores : acked[x] <= server'[user][x]
  BY <1>1, <1>2, <1>3, <1>4, ChangeFollowed
<1>6. OfTheUser' /\ NotBehind'
  BY <1>1, <1>2, <1>4, <1>5 DEF ScreenInv, OfTheUser, NotBehind
<1>7. screen' \in ScreenType /\ read' \in ReadType /\ acked' \in AcksType
  BY <1>1, ScreenTypes
<1> QED
  BY <1>1, <1>2, <1>3, <1>4, <1>6, <1>7, PageKeeps

LEMMA UnlockedTyped ==
  ASSUME ScreenInv
  PROVE  /\ Unlocked \in ScreenType /\ Unlocked.cart = screen.cart
         /\ Unlocked.loading = screen.loading /\ Unlocked.failed = screen.failed
BY ScreenTypes DEF Unlocked, ScreenType

(* The edit is over and nothing else.                                       *)
LEMMA UnlockKeeps ==
  ASSUME ScreenInv, page = "cart", UNCHANGED <<idVars, server, provider, home, read, acked>>,
         screen' = Unlocked, edit' = NoEdit
  PROVE  ScreenInv'
<1>1. /\ screen' \in ScreenType /\ screen'.cart = screen.cart
      /\ screen'.loading = screen.loading /\ screen'.failed = screen.failed
      /\ edit' \in EditType /\ ~edit'.on /\ UNCHANGED user
  BY UnlockedTyped, EmptyTyped DEF idVars
<1>2. OfTheUser' /\ NotBehind'
  BY <1>1 DEF ScreenInv, OfTheUser, NotBehind
<1>3. /\ read' \in ReadType /\ acked' \in AcksType /\ server' \in ServerType
  BY ScreenTypes
<1> QED
  BY <1>1, <1>2, <1>3, PageKeeps

(* The edit is over and the cart is read again.                             *)
LEMMA ReloadKeeps ==
  ASSUME ScreenInv, page = "cart", UNCHANGED <<idVars, server, provider, home>>,
         acked' \in AcksType, user # Nobody => \A v \in Vendedores : acked'[v] <= server[user][v],
         Load(user, Unlocked, NoEdit)
  PROVE  ScreenInv'
<1>1. UNCHANGED <<user, ready, page>>
  BY DEF idVars
<1>2. /\ Unlocked \in ScreenType /\ Unlocked.cart = screen.cart
      /\ NoEdit \in EditType /\ ~NoEdit.on
  BY UnlockedTyped, EmptyTyped
<1>3. IdentityTypeOK' /\ page' = "cart" /\ home' \in HomeType /\ home'.selecting = NoProvider
  BY <1>1, ScreenTypes DEF ScreenInv, OnCartPage, IdentityTypeOK
<1>4. /\ user' # Nobody /\ Unlocked.cart # NoCart => Unlocked.cart.by = user'
      /\ Load(user', Unlocked, NoEdit) /\ (user' # Nobody => \A v \in Vendedores : acked'[v] <= server[user'][v])
  BY <1>1, <1>2 DEF ScreenInv, OfTheUser
<1> QED
  BY <1>2, <1>3, <1>4, LoadKeeps

LEMMA EditArrivesKeeps == ASSUME ScreenInv, EditArrives PROVE ScreenInv'
<1>1. UNCHANGED <<idVars, server, provider, home>> /\ edit.on /\ edit.got # 0
  BY DEF EditArrives
<1>2. page = "cart" /\ UNCHANGED user
  BY <1>1 DEF ScreenInv, OnCartPage, idVars
<1>3. CASE screen' = Unlocked /\ edit' = NoEdit /\ UNCHANGED <<read, acked>>
  BY <1>1, <1>2, <1>3, UnlockKeeps
<1>4. CASE ~(user = Nobody \/ screen.redirect)
  <2>1. acked' = [acked EXCEPT ![edit.vendedor] = edit.got] /\ user # Nobody
    BY <1>4 DEF EditArrives
  <2>2. /\ user \in Users /\ edit.got \in Versions /\ edit.got <= server[user][edit.vendedor]
        /\ edit.vendedor \in Vendedores /\ \A v \in Vendedores : acked[v] <= server[user][v]
    BY <1>1, <2>1, ScreenTypes DEF ScreenInv, OfTheUser, NotBehind, EditType
  <2>5. /\ acked' \in AcksType /\ acked'[edit.vendedor] = edit.got
        /\ \A v \in Vendedores : acked'[v] <= server[user][v]
    BY <2>1, <2>2, ScreenTypes DEF AcksType
  <2>3. CASE ~edit.fresh
    <3>1. Load(user, Unlocked, NoEdit)
      BY <1>4, <2>3 DEF EditArrives, ReloadAfterStaleEdit
    <3> QED
      BY <1>1, <1>2, <2>5, <3>1, ReloadKeeps
  <2>4. CASE edit.fresh
    <3> DEFINE c == Shown(edit.vendedor, edit.got)
    <3>1. c \in CartShown /\ c.by = user /\ c.vendedor = edit.vendedor /\ c.version = edit.got
      BY <2>2 DEF Shown, CartShown
    <3>2. screen' = [Unlocked EXCEPT !.cart = c] /\ edit' = NoEdit /\ UNCHANGED read
      BY <1>4, <2>4 DEF EditArrives
    <3> HIDE DEF c
    <3>3. screen' \in ScreenType /\ screen'.cart = c
      BY <3>1, <3>2, UnlockedTyped DEF ScreenType
    <3>4. edit' \in EditType /\ ~edit'.on /\ ~read.on
      BY <1>1, <2>4, <3>2, EmptyTyped DEF ScreenInv, NotBehind
    <3>5. edit.got \in Nat
      BY <2>2, ScreenTypes
    <3>6. OfTheUser' /\ NotBehind'
      BY <1>1, <1>2, <2>1, <2>2, <2>5, <3>1, <3>2, <3>3, <3>4, <3>5 DEF OfTheUser, NotBehind
    <3>7. /\ read' \in ReadType /\ acked' \in AcksType /\ server' \in ServerType
      BY <1>1, <2>5, <3>2, ScreenTypes
    <3> QED
      BY <1>1, <1>2, <3>3, <3>4, <3>6, <3>7, PageKeeps
  <2> QED
    BY <2>3, <2>4
<1> QED
  BY <1>3, <1>4 DEF EditArrives

LEMMA EditFailsKeeps == ASSUME ScreenInv, EditFails PROVE ScreenInv'
<1>1. UNCHANGED <<idVars, server, home, acked>> /\ edit.on
  BY DEF EditFails
<1>2. page = "cart"
  BY <1>1 DEF ScreenInv, OnCartPage
<1>3. CASE screen' = Unlocked /\ edit' = NoEdit /\ UNCHANGED <<read, provider>>
  BY <1>1, <1>2, <1>3, UnlockKeeps
<1>4. CASE LoseProvider /\ user # Nobody
  <2>1. provider' \in [Users -> Vendedores \cup {NoProvider}] /\ Redirect
    BY <1>4, ScreenTypes DEF LoseProvider
  <2> QED
    BY <1>1, <1>2, <2>1, PageResets
<1>5. CASE Load(user, Unlocked, NoEdit) /\ UNCHANGED provider
  <2>1. acked' \in AcksType /\ (user # Nobody => \A v \in Vendedores : acked'[v] <= server[user][v])
    BY <1>1, ScreenTypes DEF ScreenInv, OfTheUser
  <2> QED
    BY <1>1, <1>2, <1>5, <2>1, ReloadKeeps
<1> QED
  BY <1>3, <1>4, <1>5 DEF EditFails

-----------------------------------------------------------------------------
LEMMA ScreenStep == ScreenInv /\ [ScreenNext]_screenVars => ScreenInv'
<1> SUFFICES ASSUME ScreenInv, [ScreenNext]_screenVars PROVE ScreenInv'
  OBVIOUS
<1>1. CASE OpenHome \/ ListFailed \/ RetryHome \/ StartSession \/ \E v \in Vendedores : Select(v)
  BY <1>1, HomeKeeps
<1>2. CASE \/ \E offers \in SUBSET Vendedores, v \in Vendedores \cup {NoProvider} : ProvidersListed(offers, v)
           \/ Selected
  BY <1>2, ChoiceKeeps
<1>3. CASE OpenCartPage \/ Retry \/ ServeRead \/ ReadArrives
  BY <1>3, OpenKeeps, RetryKeeps, ServeReadKeeps, ReadArrivesKeeps
<1>4. CASE Edit \/ ServeEdit \/ EditArrives \/ EditFails
  BY <1>4, EditKeeps, ServeEditKeeps, EditArrivesKeeps, EditFailsKeeps
<1>5. CASE RestoreSession \/ EndSession \/ LeavePage
  BY <1>5, RestoreSessionKeeps, EndSessionKeeps, LeaveKeeps
<1>6. CASE \/ \E u \in Users : ReplaceSession(u)
           \/ \E u \in Users, v \in Vendedores : OtherEdit(u, v)
           \/ \E u \in Users, v \in Vendedores \cup {NoProvider} : SelectElsewhere(u, v)
  BY <1>6, ReplaceKeeps, OtherKeeps, ElsewhereSelected
<1>7. CASE UNCHANGED screenVars
  <2>1. UNCHANGED <<user, ready, page, server, provider, home, screen, read, edit, acked>>
    BY <1>7 DEF screenVars, idVars
  <2>2. ScreenTypeOK'
    BY <2>1 DEF ScreenInv, ScreenTypeOK, IdentityTypeOK
  <2>3. OnCartPage' /\ OfTheUser' /\ NotBehind'
    BY <2>1 DEF ScreenInv, OnCartPage, OfTheUser, NotBehind
  <2> QED
    BY <2>2, <2>3 DEF ScreenInv
<1> QED
  BY <1>1, <1>2, <1>3, <1>4, <1>5, <1>6, <1>7 DEF ScreenNext

LEMMA ScreenInvariance == ScreenSpec => []ScreenInv
BY ScreenInitInv, ScreenStep, PTL DEF ScreenSpec

(* Whatever sessions are replaced and whatever another tab selects, a       *)
(* signed-in cliente sees a cart of their own, and an edit whose answer is  *)
(* put on the screen was one of the cart shown there, never of another      *)
(* vendedor's (ClienteCarritoDetalleFacade, mutationScope() and             *)
(* settleMutation()).                                                       *)
THEOREM OwnCart == ScreenSpec => []OwnCartOnly
<1>1. ScreenInv => OwnCartOnly
  BY DEF ScreenInv, OfTheUser, NotBehind, OwnCartOnly
<1> QED
  BY <1>1, ScreenInvariance, PTL

(* A cart page at rest shows no version older than the newest edit it was   *)
(* answered with, in whatever order reads and edits were answered: an edit  *)
(* overtaken by a read is not forgotten but loads the cart again            *)
(* (settleMutation()).                                                      *)
THEOREM CatchesUp == ScreenSpec => []ScreenCatchesUp
<1>1. ScreenInv => ScreenCatchesUp
  BY DEF ScreenInv, NotBehind, ScreenCatchesUp
<1> QED
  BY <1>1, ScreenInvariance, PTL

-----------------------------------------------------------------------------
(***************************************************************************)
(* Consultas                                                               *)
(***************************************************************************)

BrowseType == [query : Texts, page : 1..Pages, total : {0, Pages}, loading : BOOLEAN,
               failed : BOOLEAN, redirect : BOOLEAN, typing : BOOLEAN,
               fetch : Asking \cup {Nothing}, shown : Asking \cup {Nothing}]
AddType == [by : Users \cup {Nobody}, told : Users \cup {Nobody}, redirect : BOOLEAN]
FetchType == [by : Users \cup {Nobody}, got : 0..MaxOrders \cup {Nothing}]
ListType == [loading : BOOLEAN, failed : BOOLEAN, fetch : FetchType \cup {Nothing},
             shown : [by : Users, got : 0..MaxOrders] \cup {Nothing}]
DetailType == [asked : Orders \cup {Nothing}, loading : BOOLEAN, failed : BOOLEAN,
               by : Users \cup {Nobody}, shown : [order : Orders, by : Users] \cup {Nothing}]

PageInv == IdentityTypeOK /\ page \in {"none", "catalog", "orders", "detail"}

(* What a catalog shows is of the text in the field and, once it is loaded, *)
(* of its page; a request in flight is for that text too. Who asked is      *)
(* looked at when the answer arrives.                                       *)
ShowsTheText(b, u) ==
  b.shown # Nothing => b.shown.query = b.query /\ (u # Nobody => b.shown.by = u)
BrowseInv ==
  /\ chosen \in Selections /\ browse \in BrowseType /\ add \in AddType
  /\ page # "catalog" => browse = EmptyBrowse /\ add.by = Nobody /\ add.told = Nobody
  /\ browse.fetch # Nothing => browse.fetch.query = browse.query
  /\ ShowsTheText(browse, user)
  /\ browse.shown # Nothing /\ ~browse.loading /\ ~browse.failed => browse.shown.page = browse.page
  /\ user # Nobody => add.told \in {user, Nobody}

(* A list that was served, or shown, after completed$ fired is not older.   *)
ListInv ==
  /\ list \in ListType /\ placed \in 0..MaxOrders /\ heard \in 0..MaxOrders
  /\ page # "orders" => list = NoList /\ heard = 0
  /\ heard <= placed
  /\ list.fetch # Nothing /\ list.fetch.got # Nothing => list.fetch.got >= heard
  /\ list.shown # Nothing /\ ~list.loading /\ ~list.failed => list.shown.got >= heard
  /\ user # Nobody => /\ list.fetch # Nothing => list.fetch.by = user
                      /\ list.shown # Nothing => list.shown.by = user

(* Before the session is ready nothing of an order is there but its id.     *)
DetailInv ==
  /\ detail \in DetailType
  /\ page # "detail" => detail = NoDetail
  /\ page = "detail" => detail.asked \in Orders
  /\ ~ready => ~detail.loading /\ detail.shown = Nothing
  /\ detail.shown # Nothing => detail.shown.order = detail.asked
  /\ user # Nobody => /\ detail.loading => detail.by = user
                      /\ detail.shown # Nothing => detail.shown.by = user

ConsultasInv == PageInv /\ BrowseInv /\ ListInv /\ DetailInv

-----------------------------------------------------------------------------
LEMMA EmptyAnswers ==
  /\ EmptyBrowse \in BrowseType /\ EmptyBrowse.shown = Nothing /\ EmptyBrowse.fetch = Nothing
  /\ NoAdd \in AddType /\ NoAdd.by = Nobody /\ NoAdd.told = Nobody
  /\ NoList \in ListType /\ NoList.fetch = Nothing /\ NoList.shown = Nothing
  /\ NoDetail \in DetailType /\ ~NoDetail.loading /\ NoDetail.shown = Nothing
<1>1. NoText \in Texts /\ 1 \in 1..Pages
  BY ConsultasAssumption
<1> QED
  BY <1>1 DEF EmptyBrowse, BrowseType, NoAdd, AddType, NoList, ListType, NoDetail, DetailType

LEMMA ConsultasInitInv == ConsultasInit => ConsultasInv
<1> SUFFICES ASSUME ConsultasInit PROVE ConsultasInv
  OBVIOUS
<1>1. /\ user = Nobody /\ ready = TRUE /\ page = "none" /\ chosen = Nothing
      /\ browse = EmptyBrowse /\ add = NoAdd /\ list = NoList /\ detail = NoDetail
      /\ placed = 0 /\ heard = 0
  BY DEF ConsultasInit, IdentityInit
<1>2. PageInv
  BY <1>1 DEF PageInv, IdentityTypeOK
<1>3. BrowseInv
  BY <1>1, EmptyAnswers DEF BrowseInv, Selections, ShowsTheText
<1>4. 0 \in 0..MaxOrders
  BY ConsultasAssumption
<1>5. ListInv
  BY <1>1, <1>4, EmptyAnswers DEF ListInv
<1>6. DetailInv
  BY <1>1, EmptyAnswers DEF DetailInv
<1> QED
  BY <1>2, <1>3, <1>5, <1>6 DEF ConsultasInv

(* What a step leaves alone stays as it is.                                 *)
LEMMA PageStays == ASSUME PageInv, UNCHANGED idVars PROVE PageInv' /\ UNCHANGED <<user, ready, page>>
BY DEF PageInv, IdentityTypeOK, idVars

LEMMA BrowseStays == ASSUME BrowseInv, UNCHANGED <<user, page, catalogPart>> PROVE BrowseInv'
BY DEF BrowseInv, ShowsTheText, catalogPart

LEMMA ListStays == ASSUME ListInv, UNCHANGED <<user, page, list, placed, heard>> PROVE ListInv'
BY DEF ListInv

LEMMA DetailStays == ASSUME DetailInv, UNCHANGED <<user, ready, page, detail>> PROVE DetailInv'
BY DEF DetailInv

-----------------------------------------------------------------------------
(* The catalog                                                              *)

(* loadPage() from a state that shows what the field asks for.              *)
LEMMA LoadPageKeeps ==
  ASSUME NEW b \in BrowseType, NEW n \in 1..Pages, NEW u \in Users \cup {Nobody}, NEW c \in Selections,
         LoadPage(u, c, b, n), user' = u, chosen' = c, page' = "catalog", add' \in AddType,
         u # Nobody => add'.told \in {u, Nobody},
         ShowsTheText(b, u)
  PROVE  BrowseInv'
<1>1. CASE ShopOf(u, c) = Nothing
  <2> DEFINE r == [Emptied(b) EXCEPT !.failed = FALSE, !.redirect = TRUE, !.fetch = Nothing]
  <2>1. browse' = r
    BY <1>1 DEF LoadPage
  <2>2. r \in BrowseType /\ r.shown = Nothing /\ r.fetch = Nothing
    BY DEF Emptied, BrowseType
  <2> HIDE DEF r
  <2> QED
    BY <2>1, <2>2 DEF BrowseInv, ShowsTheText
<1>2. CASE ShopOf(u, c) # Nothing
  <2> DEFINE f == [by |-> u, shop |-> c, query |-> b.query, page |-> n]
             r == [b EXCEPT !.page = n, !.loading = TRUE, !.failed = FALSE, !.redirect = FALSE,
                            !.fetch = f]
  <2>1. browse' = r
    BY <1>2 DEF LoadPage
  <2>2. u \in Users /\ c \in Shops /\ b.query \in Texts
    BY <1>2 DEF ShopOf, Selections, BrowseType
  <2>3. f \in Asking /\ f.query = b.query
    BY <2>2 DEF Asking
  <2> HIDE DEF f
  <2>4. r \in BrowseType /\ r.shown = b.shown /\ r.query = b.query /\ r.fetch = f /\ r.loading
    BY <2>3 DEF BrowseType
  <2> HIDE DEF r
  <2> QED
    BY <2>1, <2>3, <2>4 DEF BrowseInv, ShowsTheText
<1> QED
  BY <1>1, <1>2

(* One more state of the page.                                              *)
LEMMA BrowseChanges ==
  ASSUME ConsultasInv, UNCHANGED <<idVars, add>>, page = "catalog", chosen' \in Selections,
         browse' \in BrowseType,
         browse'.fetch # Nothing => browse'.fetch.query = browse'.query,
         ShowsTheText(browse', user),
         browse'.shown # Nothing /\ ~browse'.loading /\ ~browse'.failed
           => browse'.shown.page = browse'.page
  PROVE  BrowseInv'
<1>1. UNCHANGED <<user, page>>
  BY DEF idVars
<1> QED
  BY <1>1 DEF ConsultasInv, BrowseInv, ShowsTheText

LEMMA CatalogFacts ==
  ASSUME ConsultasInv
  PROVE  /\ user \in Users \cup {Nobody} /\ chosen \in Selections /\ browse \in BrowseType
         /\ add \in AddType /\ (user # Nobody => add.told \in {user, Nobody})
         /\ ShowsTheText(browse, user)
         /\ 1 \in 1..Pages /\ browse.page \in 1..Pages
         /\ browse.fetch \in Asking \cup {Nothing}
BY ConsultasAssumption DEF ConsultasInv, PageInv, BrowseInv, IdentityTypeOK, BrowseType

(* The catalog is loaded.                                                   *)
LEMMA LoadsKeep ==
  ASSUME ConsultasInv, OpenCatalog \/ Pause \/ RetryCatalog \/ \E n \in 1..Pages : Turn(n)
  PROVE  BrowseInv'
<1>1. CASE OpenCatalog
  <2>1. LoadPage(user, chosen, EmptyBrowse, 1) /\ UNCHANGED <<chosen, add, user>> /\ page' = "catalog"
    BY <1>1 DEF OpenCatalog, Enter
  <2>2. ShowsTheText(EmptyBrowse, user)
    BY EmptyAnswers DEF ShowsTheText
  <2> QED
    BY <2>1, <2>2, CatalogFacts, EmptyAnswers, LoadPageKeeps
<1>2. CASE Pause
  <2> DEFINE b == [browse EXCEPT !.typing = FALSE]
  <2>1. LoadPage(user, chosen, b, 1) /\ UNCHANGED <<chosen, add, user, page>> /\ browse.typing
    BY <1>2 DEF Pause, idVars
  <2>2. page = "catalog"
    BY <2>1 DEF ConsultasInv, BrowseInv, PageInv, EmptyBrowse
  <2>3. b \in BrowseType /\ b.shown = browse.shown /\ b.query = browse.query
    BY CatalogFacts DEF BrowseType
  <2> HIDE DEF b
  <2>4. ShowsTheText(b, user)
    BY <2>3, CatalogFacts DEF ShowsTheText
  <2> QED
    BY <2>1, <2>2, <2>3, <2>4, CatalogFacts, LoadPageKeeps
<1>3. ASSUME NEW n \in 1..Pages, Turn(n) \/ (RetryCatalog /\ n = browse.page)
      PROVE  BrowseInv'
  <2>1. /\ LoadPage(user, chosen, browse, n) /\ UNCHANGED <<chosen, add, user, page>>
        /\ page = "catalog"
    BY <1>3 DEF Turn, RetryCatalog, idVars
  <2> QED
    BY <2>1, CatalogFacts, LoadPageKeeps
<1> QED
  BY <1>1, <1>2, <1>3, CatalogFacts

LEMMA SetQueryKeeps == ASSUME ConsultasInv, NEW q \in Texts, SetQuery(q) PROVE BrowseInv'
<1> DEFINE r == [browse EXCEPT !.query = q, !.page = 1, !.total = 0, !.shown = Nothing,
                               !.typing = TRUE, !.fetch = Nothing]
<1>1. page = "catalog" /\ browse' = r /\ UNCHANGED <<idVars, chosen, add>>
  BY DEF SetQuery, Invalidated
<1>2. r \in BrowseType /\ r.shown = Nothing /\ r.fetch = Nothing
  BY CatalogFacts DEF BrowseType
<1> HIDE DEF r
<1> QED
  BY <1>1, <1>2, CatalogFacts, BrowseChanges DEF ShowsTheText

(* An answer arrives, for whoever is signed in by then.                     *)
LEMMA AnswersKeep == ASSUME ConsultasInv, CatalogArrives \/ CatalogFails PROVE BrowseInv'
<1> DEFINE f == browse.fetch
           gone == [Emptied(browse) EXCEPT !.fetch = Nothing]
           lost == [Emptied(browse) EXCEPT !.redirect = TRUE, !.fetch = Nothing]
           broken == [browse EXCEPT !.failed = TRUE, !.loading = FALSE, !.fetch = Nothing]
           full == [browse EXCEPT !.shown = f, !.total = Pages, !.page = f.page,
                                  !.loading = FALSE, !.fetch = Nothing]
<1>1. f \in Asking /\ f.query = browse.query /\ UNCHANGED <<idVars, add>>
  BY CatalogFacts DEF CatalogArrives, CatalogFails, ConsultasInv, BrowseInv
<1>2. page = "catalog"
  BY EmptyAnswers DEF CatalogArrives, CatalogFails, ConsultasInv, BrowseInv
<1>3. chosen' \in Selections
  BY CatalogFacts DEF CatalogArrives, CatalogFails, Unchoose, Selections
<1>4. CASE browse' \in {gone, lost}
  <2>1. /\ gone \in BrowseType /\ gone.shown = Nothing /\ gone.fetch = Nothing
        /\ lost \in BrowseType /\ lost.shown = Nothing /\ lost.fetch = Nothing
    BY CatalogFacts DEF Emptied, BrowseType
  <2> HIDE DEF gone, lost
  <2> QED
    BY <1>1, <1>2, <1>3, <1>4, <2>1, BrowseChanges DEF ShowsTheText
<1>5. CASE browse' = broken
  <2>1. /\ broken \in BrowseType /\ broken.shown = browse.shown /\ broken.query = browse.query
        /\ broken.fetch = Nothing /\ broken.failed
    BY CatalogFacts DEF BrowseType
  <2> HIDE DEF broken
  <2> QED
    BY <1>1, <1>2, <1>3, <1>5, <2>1, CatalogFacts, BrowseChanges DEF ShowsTheText
<1>6. CASE browse' = full /\ f.by = user
  <2>1. f.page \in 1..Pages
    BY <1>1 DEF Asking
  <2> HIDE DEF f
  <2>2. /\ full \in BrowseType /\ full.shown = f /\ full.query = browse.query
        /\ full.fetch = Nothing /\ full.page = f.page
    BY <1>1, <2>1, CatalogFacts DEF BrowseType
  <2> HIDE DEF full
  <2> QED
    BY <1>1, <1>2, <1>3, <1>6, <2>2, BrowseChanges DEF ShowsTheText
<1>7. browse' \in {gone, lost, broken} \/ (browse' = full /\ f.by = user)
  BY DEF CatalogArrives, CatalogFails, Dropped
<1> QED
  BY <1>4, <1>5, <1>6, <1>7

LEMMA AddKeeps ==
  ASSUME ConsultasInv, AddToCart \/ AddAnswered \/ ChooseElsewhere
  PROVE  BrowseInv'
<1>1. UNCHANGED <<idVars, browse>> /\ UNCHANGED <<user, page>>
  BY DEF AddToCart, AddAnswered, ChooseElsewhere, idVars
<1>2. chosen' \in Selections
  BY CatalogFacts DEF AddToCart, AddAnswered, ChooseElsewhere, Unchoose, Selections
<1>3. add' = add \/ page = "catalog"
  BY DEF AddToCart, AddAnswered, ChooseElsewhere, ConsultasInv, BrowseInv
<1>4. /\ add' \in AddType
      /\ user # Nobody => add'.told \in {user, Nobody}
  BY CatalogFacts DEF AddToCart, AddAnswered, ChooseElsewhere, AddType
<1> QED
  BY <1>1, <1>2, <1>3, <1>4 DEF ConsultasInv, BrowseInv, ShowsTheText

-----------------------------------------------------------------------------
(* The list of orders                                                       *)

LEMMA ListFacts ==
  ASSUME ConsultasInv
  PROVE  /\ ListInv /\ list \in ListType /\ placed \in 0..MaxOrders /\ heard \in 0..MaxOrders
         /\ list.fetch \in FetchType \cup {Nothing}
         /\ list.shown \in [by : Users, got : 0..MaxOrders] \cup {Nothing}
BY DEF ConsultasInv, ListInv, ListType

LEMMA ListingKeeps ==
  ASSUME ConsultasInv, NEW u \in Users \cup {Nobody}, list' = Listing(u), user' = u,
         u \in {user, Nobody}, page' = "orders", UNCHANGED placed, heard' \in {heard, placed}
  PROVE  ListInv'
<1> DEFINE f == [by |-> u, got |-> Nothing]
           r == [list EXCEPT !.loading = TRUE, !.failed = FALSE, !.fetch = f]
<1>1. f \in FetchType /\ f.by = u /\ f.got = Nothing
  BY DEF FetchType
<1> HIDE DEF f
<1>2. r \in ListType /\ r.loading /\ r.fetch = f /\ r.shown = list.shown
  BY <1>1, ListFacts DEF ListType
<1>3. list' = r
  BY DEF Listing, f
<1> HIDE DEF r
<1>4. heard' <= placed
  BY ListFacts DEF ListInv
<1> QED
  BY <1>1, <1>2, <1>3, <1>4, ListFacts DEF ListInv

LEMMA ListStepsKeep ==
  ASSUME ConsultasInv, OpenList \/ OrderCompleted \/ RetryList \/ ServeList \/ ListArrives \/ PlaceOrder
  PROVE  ListInv'
<1>1. CASE OpenList \/ OrderCompleted \/ RetryList
  <2>1. /\ list' = Listing(user) /\ UNCHANGED user /\ page' = "orders" /\ UNCHANGED placed
        /\ heard' \in {heard, placed}
    BY <1>1 DEF OpenList, OrderCompleted, RetryList, Enter, idVars
  <2> QED
    BY <2>1, CatalogFacts, ListingKeeps
<1>2. CASE ServeList
  <2> DEFINE f == [list.fetch EXCEPT !.got = placed]
             r == [list EXCEPT !.fetch = f]
  <2>1. list.fetch \in FetchType /\ list' = r /\ UNCHANGED <<user, page, placed, heard>>
    BY <1>2, ListFacts DEF ServeList, idVars
  <2>2. f \in FetchType /\ f.by = list.fetch.by /\ f.got = placed
    BY <2>1, ListFacts DEF FetchType
  <2> HIDE DEF f
  <2>3. /\ r \in ListType /\ r.fetch = f /\ r.shown = list.shown /\ r.loading = list.loading
        /\ r.failed = list.failed
    BY <2>2, ListFacts DEF ListType
  <2> HIDE DEF r
  <2>4. page = "orders"
    BY <2>1, ListFacts, EmptyAnswers, <1>2 DEF ListInv, ServeList
  <2>5. placed \in Nat /\ heard \in Nat /\ placed >= heard
    BY ListFacts DEF ListInv
  <2>6. /\ user # Nobody => f.by = user
        /\ f.got # Nothing => f.got >= heard
    BY <1>2, <2>2, <2>5, ListFacts DEF ListInv, ServeList
  <2> QED
    BY <2>1, <2>3, <2>4, <2>6, ListFacts DEF ListInv
<1>3. CASE ListArrives
  <2>1. UNCHANGED <<user, page, placed, heard>> /\ list.fetch # Nothing
    BY <1>3 DEF ListArrives, idVars
  <2>2. page = "orders"
    BY <2>1, ListFacts, EmptyAnswers DEF ListInv
  <2>3. CASE /\ list.fetch.by # Nobody /\ list.fetch.got # Nothing
             /\ list' = [NoList EXCEPT !.shown = list.fetch]
    <3> DEFINE f == list.fetch
    <3>1. /\ f \in [by : Users, got : 0..MaxOrders] /\ f.got >= heard
          /\ user # Nobody => f.by = user
      BY <2>1, <2>3, ListFacts DEF ListInv, FetchType
    <3> HIDE DEF f
    <3>2. list' = [NoList EXCEPT !.shown = f]
      BY <2>3 DEF f
    <3>3. list' \in ListType /\ list'.fetch = Nothing /\ list'.shown = f
      BY <3>1, <3>2 DEF NoList, ListType
    <3> QED
      BY <2>1, <2>2, <3>1, <3>3, ListFacts DEF ListInv
  <2>4. CASE list' = [list EXCEPT !.loading = FALSE, !.failed = TRUE, !.fetch = Nothing]
    <3>1. /\ list' \in ListType /\ list'.fetch = Nothing /\ list'.shown = list.shown
          /\ list'.failed
      BY <2>4, ListFacts DEF ListType
    <3> QED
      BY <2>1, <2>2, <3>1, ListFacts DEF ListInv
  <2> QED
    BY <1>3, <2>3, <2>4 DEF ListArrives
<1>4. CASE PlaceOrder
  <2>1. /\ UNCHANGED <<user, page, list, heard>> /\ placed < MaxOrders /\ placed' = placed + 1
    BY <1>4 DEF PlaceOrder, idVars
  <2>2. placed' \in 0..MaxOrders /\ heard <= placed'
    BY <2>1, ListFacts, ConsultasAssumption DEF ListInv
  <2> QED
    BY <2>1, <2>2, ListFacts DEF ListInv
<1> QED
  BY <1>1, <1>2, <1>3, <1>4

-----------------------------------------------------------------------------
(* The detail of an order                                                   *)

LEMMA DetailFacts == ASSUME ConsultasInv PROVE DetailInv /\ detail \in DetailType /\ ready \in BOOLEAN
BY DEF ConsultasInv, DetailInv, PageInv, IdentityTypeOK

LEMMA DetailingKeeps ==
  ASSUME ConsultasInv, NEW o \in Orders, NEW u \in Users \cup {Nobody}, detail' = Detailing(o, u),
         user' = u, ready' = TRUE, page' = "detail"
  PROVE  DetailInv'
<1>1. /\ detail' \in DetailType /\ detail'.shown = Nothing /\ detail'.by = u /\ detail'.asked = o
  BY DEF Detailing, NoDetail, DetailType
<1> QED
  BY <1>1 DEF DetailInv

LEMMA DetailStepsKeep ==
  ASSUME ConsultasInv, DetailArrives \/ \E o \in Orders : OpenDetail(o) \/ Follow(o)
  PROVE  DetailInv'
<1>1. ASSUME NEW o \in Orders, OpenDetail(o) \/ (Follow(o) /\ ready)
      PROVE  DetailInv'
  <2>1. detail' = Detailing(o, user) /\ UNCHANGED user /\ ready' = TRUE /\ page' = "detail"
    BY <1>1, DetailFacts DEF OpenDetail, Follow, Enter, idVars
  <2> QED
    BY <2>1, CatalogFacts, DetailingKeeps
<1>2. ASSUME NEW o \in Orders, Follow(o), ~ready
      PROVE  DetailInv'
  <2>1. /\ detail' = [detail EXCEPT !.asked = o] /\ UNCHANGED <<user, ready, page>> /\ page = "detail"
    BY <1>2 DEF Follow, idVars
  <2>2. /\ detail' \in DetailType /\ detail'.asked = o /\ detail'.loading = detail.loading
        /\ detail'.by = detail.by /\ detail'.shown = detail.shown
    BY <2>1, DetailFacts DEF DetailType
  <2> QED
    BY <1>2, <2>1, <2>2, DetailFacts DEF DetailInv
<1>3. CASE DetailArrives
  <2>1. UNCHANGED <<user, ready, page>> /\ detail.loading
    BY <1>3 DEF DetailArrives, idVars
  <2>2. page = "detail" /\ ready
    BY <2>1, DetailFacts, EmptyAnswers DEF DetailInv
  <2>3. CASE /\ detail.by # Nobody
             /\ detail' = [detail EXCEPT !.loading = FALSE, !.shown = [order |-> detail.asked, by |-> detail.by]]
    <3> DEFINE w == [order |-> detail.asked, by |-> detail.by]
    <3>1. detail.asked \in Orders /\ detail.by \in Users
      BY <2>2, <2>3, DetailFacts DEF DetailInv, DetailType
    <3>2. w \in [order : Orders, by : Users] /\ w.order = detail.asked /\ w.by = detail.by
      BY <3>1
    <3> HIDE DEF w
    <3>3. detail' = [detail EXCEPT !.loading = FALSE, !.shown = w]
      BY <2>3 DEF w
    <3>4. /\ detail' \in DetailType /\ detail'.asked = detail.asked /\ ~detail'.loading
          /\ detail'.shown = w
      BY <3>2, <3>3, DetailFacts DEF DetailType
    <3> QED
      BY <2>1, <2>2, <3>1, <3>2, <3>4, DetailFacts DEF DetailInv
  <2>4. CASE detail' = [detail EXCEPT !.loading = FALSE, !.failed = TRUE]
    <3>1. /\ detail' \in DetailType /\ detail'.asked = detail.asked /\ ~detail'.loading
          /\ detail'.shown = detail.shown
      BY <2>4, DetailFacts DEF DetailType
    <3> QED
      BY <2>1, <2>2, <3>1, DetailFacts DEF DetailInv
  <2> QED
    BY <1>3, <2>3, <2>4 DEF DetailArrives
<1> QED
  BY <1>1, <1>2, <1>3

-----------------------------------------------------------------------------
(* The session and the pages                                                *)

LEMMA ReplaceUserKeeps == ASSUME ConsultasInv, NEW u \in Users, ReplaceUser(u) PROVE ConsultasInv'
<1>1. /\ user' = u /\ ready' = FALSE /\ UNCHANGED <<page, placed>> /\ heard' = 0
      /\ add' = [NoAdd EXCEPT !.redirect = add.redirect]
      /\ list' = NoList /\ detail' = [NoDetail EXCEPT !.asked = detail.asked]
      /\ chosen' \in Selections
      /\ IF page = "catalog" THEN LoadPage(u, chosen', EmptyBrowse, 1) ELSE UNCHANGED browse
  BY DEF ReplaceUser, ReplacedBy
<1>2. PageInv'
  BY <1>1 DEF ConsultasInv, PageInv, IdentityTypeOK
<1>3. add' \in AddType /\ add'.by = Nobody /\ add'.told = Nobody
  BY <1>1, CatalogFacts DEF NoAdd, AddType
<1>4. BrowseInv'
  <2>1. CASE page = "catalog"
    <3>1. LoadPage(u, chosen', EmptyBrowse, 1) /\ ShowsTheText(EmptyBrowse, u) /\ page' = "catalog"
      BY <1>1, <2>1, EmptyAnswers DEF ShowsTheText
    <3> QED
      BY <1>1, <1>3, <3>1, EmptyAnswers, CatalogFacts, LoadPageKeeps
  <2>2. CASE page # "catalog"
    <3>1. browse' = EmptyBrowse /\ browse' \in BrowseType
      BY <1>1, <2>2, EmptyAnswers DEF ConsultasInv, BrowseInv
    <3> QED
      BY <1>1, <1>3, <2>2, <3>1, EmptyAnswers DEF BrowseInv, ShowsTheText
  <2> QED
    BY <2>1, <2>2
<1>5. ListInv'
  BY <1>1, ListFacts, EmptyAnswers, ConsultasAssumption DEF ListInv
<1>6. DetailInv'
  <2>1. /\ detail' \in DetailType /\ detail'.asked = detail.asked /\ ~detail'.loading
        /\ detail'.shown = Nothing
    BY <1>1, DetailFacts DEF NoDetail, DetailType
  <2>2. page # "detail" => detail' = NoDetail
    BY <1>1, DetailFacts DEF DetailInv, NoDetail
  <2> QED
    BY <1>1, <2>1, <2>2, DetailFacts DEF DetailInv
<1> QED
  BY <1>2, <1>4, <1>5, <1>6 DEF ConsultasInv

LEMMA RestoreUserKeeps == ASSUME ConsultasInv, RestoreUser PROVE ConsultasInv'
<1>1. /\ ~ready /\ ready' = TRUE /\ user' \in {user, Nobody} /\ UNCHANGED <<page, catalogPart, placed, heard>>
      /\ list' = IF page = "orders" THEN Listing(user') ELSE list
      /\ detail' = IF page = "detail" THEN Detailing(detail.asked, user') ELSE detail
  BY DEF RestoreUser, Restored
<1>2. user' \in Users \cup {Nobody} /\ PageInv'
  BY <1>1, CatalogFacts DEF ConsultasInv, PageInv, IdentityTypeOK
<1>3. BrowseInv'
  BY <1>1 DEF ConsultasInv, BrowseInv, ShowsTheText, catalogPart
<1>4. ListInv'
  <2>1. CASE page = "orders"
    BY <1>1, <1>2, <2>1, ListingKeeps
  <2>2. CASE page # "orders"
    BY <1>1, <2>2 DEF ConsultasInv, ListInv
  <2> QED
    BY <2>1, <2>2
<1>5. DetailInv'
  <2>1. CASE page = "detail"
    <3>1. detail.asked \in Orders
      BY <2>1, DetailFacts DEF DetailInv
    <3> QED
      BY <1>1, <1>2, <2>1, <3>1, DetailingKeeps
  <2>2. CASE page # "detail"
    BY <1>1, <2>2, EmptyAnswers DEF ConsultasInv, DetailInv
  <2> QED
    BY <2>1, <2>2
<1> QED
  BY <1>2, <1>3, <1>4, <1>5 DEF ConsultasInv

LEMMA SignInOrOutKeeps == ASSUME ConsultasInv, SignInOrOut PROVE ConsultasInv'
<1>1. /\ UNCHANGED <<ready, page, browse, add, ordersPart>> /\ chosen' \in Selections
      /\ user' \in Users \cup {Nobody} /\ (user' # Nobody => page = "none")
  BY DEF SignInOrOut, SignIn, SignedOut, Selections
<1>2. UNCHANGED <<list, detail, placed, heard>>
  BY <1>1 DEF ordersPart
<1>3. PageInv'
  BY <1>1 DEF ConsultasInv, PageInv, IdentityTypeOK
<1>4. BrowseInv' /\ ListInv' /\ DetailInv'
  BY <1>1, <1>2, EmptyAnswers DEF ConsultasInv, BrowseInv, ListInv, DetailInv, ShowsTheText
<1> QED
  BY <1>3, <1>4 DEF ConsultasInv

LEMMA ClosePageKeeps == ASSUME ConsultasInv, ClosePage PROVE ConsultasInv'
<1>1. /\ page' = "none" /\ UNCHANGED <<user, ready, chosen, placed>> /\ heard' = 0
      /\ browse' = EmptyBrowse /\ add' = NoAdd /\ list' = NoList /\ detail' = NoDetail
  BY DEF ClosePage, Exit
<1>2. PageInv'
  BY <1>1 DEF ConsultasInv, PageInv, IdentityTypeOK
<1>3. BrowseInv'
  BY <1>1, CatalogFacts, EmptyAnswers DEF BrowseInv, ShowsTheText
<1>4. ListInv' /\ DetailInv'
  BY <1>1, ListFacts, EmptyAnswers, ConsultasAssumption DEF ListInv, DetailInv
<1> QED
  BY <1>2, <1>3, <1>4 DEF ConsultasInv

-----------------------------------------------------------------------------
(* Opening a page leaves the other two empty, and a step of one page leaves *)
(* the others alone.                                                        *)
LEMMA CatalogSteps ==
  ASSUME ConsultasInv, BrowseInv',
         \/ OpenCatalog \/ Pause \/ RetryCatalog \/ CatalogArrives \/ CatalogFails
         \/ AddToCart \/ AddAnswered \/ ChooseElsewhere
         \/ \E q \in Texts : SetQuery(q)
         \/ \E n \in 1..Pages : Turn(n)
  PROVE  ConsultasInv'
<1>1. UNCHANGED ordersPart /\ UNCHANGED <<user, ready>> /\ (UNCHANGED page \/ (page = "none" /\ page' = "catalog"))
  BY DEF OpenCatalog, Enter, Pause, RetryCatalog, CatalogArrives, CatalogFails, AddToCart, AddAnswered,
     ChooseElsewhere, SetQuery, Turn, idVars
<1>2. UNCHANGED <<list, detail, placed, heard>>
  BY <1>1 DEF ordersPart
<1>3. PageInv' /\ ListInv' /\ DetailInv'
  BY <1>1, <1>2 DEF ConsultasInv, PageInv, IdentityTypeOK, ListInv, DetailInv
<1> QED
  BY <1>3 DEF ConsultasInv

LEMMA ListSteps ==
  ASSUME ConsultasInv, ListInv',
         OpenList \/ OrderCompleted \/ RetryList \/ ServeList \/ ListArrives \/ PlaceOrder
  PROVE  ConsultasInv'
<1>1. /\ UNCHANGED <<catalogPart, detail, user, ready>>
      /\ UNCHANGED page \/ (page = "none" /\ page' = "orders")
  BY DEF OpenList, Enter, OrderCompleted, RetryList, ServeList, ListArrives, PlaceOrder, idVars
<1>2. PageInv' /\ BrowseInv' /\ DetailInv'
  BY <1>1 DEF ConsultasInv, PageInv, IdentityTypeOK, BrowseInv, ShowsTheText, DetailInv, catalogPart
<1> QED
  BY <1>2 DEF ConsultasInv

LEMMA DetailSteps ==
  ASSUME ConsultasInv, DetailInv', DetailArrives \/ \E o \in Orders : OpenDetail(o) \/ Follow(o)
  PROVE  ConsultasInv'
<1>1. /\ UNCHANGED <<catalogPart, list, placed, heard, user, ready>>
      /\ UNCHANGED page \/ (page = "none" /\ page' = "detail")
  BY DEF OpenDetail, Enter, Follow, DetailArrives, idVars
<1>2. PageInv' /\ BrowseInv' /\ ListInv'
  BY <1>1 DEF ConsultasInv, PageInv, IdentityTypeOK, BrowseInv, ShowsTheText, ListInv, catalogPart
<1> QED
  BY <1>2 DEF ConsultasInv

LEMMA ConsultasStep == ConsultasInv /\ [ConsultasNext]_consultasVars => ConsultasInv'
<1> SUFFICES ASSUME ConsultasInv, [ConsultasNext]_consultasVars PROVE ConsultasInv'
  OBVIOUS
<1>1. CASE OpenCatalog \/ Pause \/ RetryCatalog \/ \E n \in 1..Pages : Turn(n)
  BY <1>1, LoadsKeep, CatalogSteps
<1>2. CASE CatalogArrives \/ CatalogFails
  BY <1>2, AnswersKeep, CatalogSteps
<1>3. CASE \E q \in Texts : SetQuery(q)
  BY <1>3, SetQueryKeeps, CatalogSteps
<1>4. CASE AddToCart \/ AddAnswered \/ ChooseElsewhere
  BY <1>4, AddKeeps, CatalogSteps
<1>5. CASE OpenList \/ OrderCompleted \/ RetryList \/ ServeList \/ ListArrives \/ PlaceOrder
  BY <1>5, ListStepsKeep, ListSteps
<1>6. CASE DetailArrives \/ \E o \in Orders : OpenDetail(o) \/ Follow(o)
  BY <1>6, DetailStepsKeep, DetailSteps
<1>7. CASE RestoreUser \/ SignInOrOut \/ ClosePage
  BY <1>7, RestoreUserKeeps, SignInOrOutKeeps, ClosePageKeeps
<1>8. CASE \E u \in Users : ReplaceUser(u)
  BY <1>8, ReplaceUserKeeps
<1>9. CASE UNCHANGED consultasVars
  <2>1. /\ UNCHANGED <<idVars, user, ready, page, catalogPart, list, detail, placed, heard>>
    BY <1>9 DEF consultasVars, idVars, catalogPart
  <2> QED
    BY <2>1, PageStays, BrowseStays, ListStays, DetailStays DEF ConsultasInv
<1> QED
  BY <1>1, <1>2, <1>3, <1>4, <1>5, <1>6, <1>7, <1>8, <1>9 DEF ConsultasNext

LEMMA ConsultasInvariance == ConsultasSpec => []ConsultasInv
BY ConsultasInitInv, ConsultasStep, PTL DEF ConsultasSpec

LEMMA ConsultasTyped == ConsultasSpec => []ConsultasTypeOK
<1>1. ConsultasInv => ConsultasTypeOK
  BY DEF ConsultasInv, PageInv, BrowseInv, BrowseType, AddType, ListInv, FetchType, ListType,
     DetailInv, DetailType, ConsultasTypeOK
<1> QED
  BY <1>1, ConsultasInvariance, PTL

(* Whatever is typed, turned, followed or replaced while answers are on     *)
(* their way, the catalog, the list and the detail of a cliente show what   *)
(* was asked last, by who is signed in (ClienteCatalogoFacade,              *)
(* ClientePedidosFacade, ClientePedidoDetalleFacade).                       *)
THEOREM AsAsked == ConsultasSpec => []ShownAsAsked
<1>1. ConsultasInv => ShownAsAsked
  BY DEF ConsultasInv, BrowseInv, ShowsTheText, ListInv, DetailInv, ShownAsAsked
<1> QED
  BY <1>1, ConsultasInvariance, PTL
================================================================================
