-------------------------------- MODULE Pedidos --------------------------------
(***************************************************************************)
(* How the frontend follows an asynchronous order: the cart page submits   *)
(* it and stores the tracking id it is answered with, per user, in         *)
(* sessionStorage; the orders page polls the status of the stored ids and  *)
(* shows a card for each. What the server tells is CommandOutcome's `told`.*)
(* The requests of a page end with the page; stopAllPolling() unsubscribes *)
(* every poll, so the generation a poll was started in is always the       *)
(* current one and is left out.                                            *)
(***************************************************************************)
EXTENDS Identity, Naturals

CONSTANTS
  Trackings,        \* bound: orders that may be submitted
  MaxPollAttempts,  \* MAX_POLL_ATTEMPTS
  GraceAttempts,    \* INITIAL_NOT_FOUND_GRACE_ATTEMPTS
  NoCard            \* no card

(* "absent" until the worker registers the job; "open" is any status that   *)
(* is not terminal; "refused" is FAILED or DEAD_LETTER.                     *)
Reports == {"absent", "open", "ordered", "refused"}

ASSUME PedidosAssumption ==
  /\ MaxPollAttempts \in Nat \ {0} /\ GraceAttempts \in Nat
  /\ NoCard \notin Trackings \cup [status : Reports, terminal : BOOLEAN]

VARIABLES
  job,     \* the server: owner of each order, and the status it reports
  submit,  \* the submission in flight on the cart page
  pending, \* sessionStorage: tracking ids of each user
  card,    \* trackings: the cards of the orders page
  poll     \* the polling subscription of each id

pedidosVars == <<idVars, job, submit, pending, card, poll>>

NoSubmit == [busy |-> FALSE, by |-> Nobody, id |-> NoCard]
NewCard == [status |-> "open", terminal |-> FALSE]
(* attempts, hasReceivedStatus, initialNotFoundCount, and what the request  *)
(* in flight will answer.                                                   *)
NewPoll == [on |-> TRUE, tries |-> 0, seen |-> FALSE, missed |-> 0, answer |-> "none"]
NoPoll == [NewPoll EXCEPT !.on = FALSE]

PedidosInit ==
  /\ IdentityInit
  /\ job = [i \in Trackings |-> [owner |-> Nobody, status |-> "absent"]]
  /\ submit = NoSubmit
  /\ pending = [u \in Users |-> {}]
  /\ card = [i \in Trackings |-> NoCard]
  /\ poll = [i \in Trackings |-> NoPoll]

(* ClienteTrackingStore.list(): the key is the current user's. *)
ListOf(u) == IF u = Nobody THEN {} ELSE pending[u]
(* ClienteTrackingStore.remove(). *)
Untrack(i) == pending' = [u \in Users |-> IF u = user THEN pending[u] \ {i} ELSE pending[u]]

Cleared == [i \in Trackings |-> NoCard]
Stopped == [i \in Trackings |-> NoPoll]

-----------------------------------------------------------------------------
(* ClientePedidoFacade, on the cart page *)

(* submit() of a new draft: the gateway accepts the order under a fresh     *)
(* idempotency key, which stands for the tracking id of the answer.         *)
Submit(i) ==
  /\ page = "cart" /\ ~submit.busy /\ user # Nobody
  /\ job[i].owner = Nobody
  /\ job' = [job EXCEPT ![i].owner = user]
  /\ submit' = [busy |-> TRUE, by |-> user, id |-> i]
  /\ UNCHANGED <<idVars, pending, card, poll>>

(* The same draft after an error: the key, and so the order, is the same.   *)
Resubmit ==
  /\ page = "cart" /\ ~submit.busy /\ user # Nobody
  /\ submit.id # NoCard
  /\ submit' = [submit EXCEPT !.busy = TRUE]
  /\ UNCHANGED <<idVars, job, pending, card, poll>>

(* The acceptance. Without the session it is dropped and the lock stays: the *)
(* page is about to be left.                                                *)
Accepted ==
  /\ submit.busy /\ submit.id # NoCard
  /\ IF submit.by = user
     THEN /\ pending' = [pending EXCEPT ![user] = @ \cup {submit.id}]
          /\ submit' = NoSubmit
     ELSE submit' = [submit EXCEPT !.id = NoCard] /\ UNCHANGED pending
  /\ UNCHANGED <<idVars, job, card, poll>>

(* handleError(): the key is kept, unless the provider was lost. *)
SubmitFailed ==
  /\ submit.busy /\ submit.by = user
  /\ submit' \in {[submit EXCEPT !.busy = FALSE], NoSubmit}
  /\ UNCHANGED <<idVars, job, pending, card, poll>>

-----------------------------------------------------------------------------
(* ClientePedidosTrackingFacade, on the orders page *)

(* trackPending() after u is known to be signed in: a card and a fresh poll *)
(* for every stored id that has none.                                       *)
TrackPending(u, cards, polls) ==
  /\ card' = [i \in Trackings |->
       IF i \in ListOf(u) /\ ~polls[i].on THEN NewCard ELSE cards[i]]
  /\ poll' = [i \in Trackings |->
       IF i \in ListOf(u) THEN IF polls[i].on THEN polls[i] ELSE NewPoll ELSE NoPoll]

OpenOrders ==
  /\ page = "none" /\ Enter("orders")
  /\ TrackPending(user, Cleared, Stopped)
  /\ UNCHANGED <<job, submit, pending>>

(* The timer fires and the request is answered by the server; it may fail.  *)
Ask(i) ==
  /\ poll[i].on /\ poll[i].answer = "none"
  /\ \E a \in {job[i].status, "error"} :
       poll' = [poll EXCEPT ![i].tries = @ + 1, ![i].answer = a]
  /\ UNCHANGED <<idVars, job, submit, pending, card>>

(* Faulty variant: polled for ever. *)
ContinueForever(i, p) == [poll EXCEPT ![i] = [p EXCEPT !.answer = "none"]]

(* take(MAX_POLL_ATTEMPTS) completes; the id stays stored. *)
Continue(i, p) == [poll EXCEPT ![i] =
  IF p.tries = MaxPollAttempts THEN NoPoll ELSE [p EXCEPT !.answer = "none"]]

(* Faulty variant: every terminal status forgets the id. *)
ForgetAny(i, status) == Untrack(i)

(* Only COMPLETED removes the id. *)
Forget(i, status) == IF status = "ordered" THEN Untrack(i) ELSE UNCHANGED pending

(* handlePollEvent(): a status. *)
StatusArrives(i) ==
  LET s == poll[i].answer IN
  /\ s \in {"open", "ordered", "refused"}
  /\ card' = [card EXCEPT ![i] = [status |-> s, terminal |-> s # "open"]]
  /\ IF s = "open"
     THEN /\ poll' = Continue(i, [poll[i] EXCEPT !.seen = TRUE, !.missed = 0])
          /\ UNCHANGED pending
     ELSE poll' = [poll EXCEPT ![i] = NoPoll] /\ Forget(i, s)
  /\ UNCHANGED <<idVars, job, submit>>

(* handlePollFailure(): 404s are terminal when no status came before and the *)
(* grace is over; everything else is tried again.                           *)
FailureArrives(i) ==
  LET p == poll[i]
      missed == IF p.seen \/ p.answer = "error" THEN 0 ELSE p.missed + 1 IN
  /\ p.answer \in {"absent", "error"}
  /\ IF missed > GraceAttempts
     THEN /\ card' = [card EXCEPT ![i].terminal = TRUE]
          /\ poll' = [poll EXCEPT ![i] = NoPoll]
     ELSE poll' = Continue(i, [p EXCEPT !.missed = missed]) /\ UNCHANGED card
  /\ UNCHANGED <<idVars, job, submit, pending>>

(* dismiss(), from a terminal card. *)
Dismiss(i) ==
  /\ page = "orders" /\ card[i] # NoCard /\ card[i].terminal
  /\ Untrack(i)
  /\ card' = [card EXCEPT ![i] = NoCard]
  /\ poll' = [poll EXCEPT ![i] = NoPoll]
  /\ UNCHANGED <<idVars, job, submit>>

-----------------------------------------------------------------------------
(* The session, the pages and the server *)

(* Faulty variant: the cards and the polls of the old session stay. *)
KeepView == UNCHANGED <<card, poll>>

(* resetForSessionChange(). *)
ResetView == card' = Cleared /\ poll' = Stopped

(* Both facades drop what they had in flight. *)
Replace(u) ==
  /\ ReplacedBy(u)
  /\ submit' = NoSubmit
  /\ ResetView
  /\ UNCHANGED <<job, pending>>

(* sessionReady$ emits true: reconcileIdentity(), and the ids are polled.   *)
(* The view is empty since the session was replaced.                        *)
Restore ==
  /\ Restored
  /\ IF page = "orders" THEN TrackPending(user', card, poll) ELSE UNCHANGED <<card, poll>>
  /\ UNCHANGED <<job, submit, pending>>

OpenCart ==
  /\ page = "none" /\ Enter("cart")
  /\ UNCHANGED <<job, submit, pending, card, poll>>

(* takeUntilDestroyed(): nothing in flight outlives its page. *)
Leave ==
  /\ Exit
  /\ submit' = NoSubmit /\ ResetView
  /\ UNCHANGED <<job, pending>>

Session ==
  /\ (\E u \in Users : SignIn(u)) \/ SignedOut
  /\ UNCHANGED <<job, submit, pending, card, poll>>

(* The worker registers a job, and settles it once (see CommandOutcome). *)
Progress(i) ==
  /\ job[i].owner # Nobody
  /\ \E s \in Reports \ {"absent"} :
       /\ job[i].status \in {"absent", "open"} /\ s # job[i].status
       /\ job[i].status = "absent" => s = "open"
       /\ job' = [job EXCEPT ![i].status = s]
  /\ UNCHANGED <<idVars, submit, pending, card, poll>>

PedidosNext ==
  \/ Resubmit \/ Accepted \/ SubmitFailed \/ OpenOrders \/ OpenCart \/ Leave \/ Restore \/ Session
  \/ \E u \in Users : Replace(u)
  \/ \E i \in Trackings :
       \/ Submit(i) \/ Ask(i) \/ StatusArrives(i) \/ FailureArrives(i)
       \/ Dismiss(i) \/ Progress(i)

PedidosSpec == PedidosInit /\ [][PedidosNext]_pedidosVars

-----------------------------------------------------------------------------
(* Properties *)

PedidosTypeOK ==
  /\ IdentityTypeOK /\ page \in {"none", "cart", "orders"}
  /\ job \in [Trackings -> [owner : Users \cup {Nobody}, status : Reports]]
  /\ submit \in [busy : BOOLEAN, by : Users \cup {Nobody}, id : Trackings \cup {NoCard}]
  /\ pending \in [Users -> SUBSET Trackings]
  /\ card \in [Trackings -> [status : Reports, terminal : BOOLEAN] \cup {NoCard}]
  /\ poll \in [Trackings -> [on : BOOLEAN, tries : 0..MaxPollAttempts, seen : BOOLEAN,
                             missed : 0..(GraceAttempts + 1), answer : Reports \cup {"none", "error"}]]

(* However sessions replace each other while requests are in flight: a user *)
(* has only own orders stored, and sees and polls nobody else's.            *)
OwnOrdersOnly ==
  \A i \in Trackings :
    /\ \A u \in Users : i \in pending[u] => job[i].owner = u
    /\ user # Nobody /\ (card[i] # NoCard \/ poll[i].on) => job[i].owner = user

(* An accepted order is followed until the user knows how it ended: its id  *)
(* leaves the store only when it was placed, or from a terminal card.       *)
TrackedUntilSettled ==
  [][\A u \in Users : \A i \in pending[u] \ pending'[u] :
       job[i].status = "ordered" \/ (card[i] # NoCard /\ card[i].terminal)]_pedidosVars
=============================================================================
