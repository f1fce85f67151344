----------------------------- MODULE OrderCommand -----------------------------
(***************************************************************************)
(* The asynchronous `orders.create` command, from the gateway's queue to   *)
(* the order row:                                                          *)
(*   - the gateway enqueues a BullMQ job under a deterministic job id;     *)
(*   - a worker of orders-service takes the job, registers the tracking    *)
(*     row ORDER_COMMAND_JOB, claims it by compare-and-set on its status,  *)
(*     runs the checkout transaction and reports the outcome;              *)
(*   - BullMQ retries an attempt that threw, and gives a stalled job away. *)
(* One vendedor is modelled: its order counter is the Nat `counter`.       *)
(* Time is abstracted: back-off delay and waiting are one job state.       *)
(* The faults of the environment are actions of their own, switched on by  *)
(* Faults and limited in number by MaxFaults.                              *)
(***************************************************************************)
EXTENDS Naturals, FiniteSets

CONSTANTS
  Commands,     \* commands: one per (cliente, vendedor, idempotency key)
  Clientes,     \* clientes that buy from the vendedor
  ClienteOf,    \* [Commands -> Clientes]
  Bodies,       \* request bodies, told apart by their payload hash
  Malformed,    \* the bodies that parseCreateOrderRequest rejects
  Workers,      \* worker slots (replicas times concurrency)
  None,         \* no command, no body, no lock
  MaxAttempts,  \* ORDERS_CREATE_QUEUE_ATTEMPTS
  MaxStalls,    \* BullMQ's maxStalledCount
  MaxCarts,     \* bound: carts the clientes fill in a behaviour
  Faults,       \* kinds of fault that may happen
  MaxFaults     \* bound: how many faults happen in a behaviour

FaultKinds == {"crash", "stall", "db", "reread", "ack", "redis"}

ASSUME CommandsAssumption ==
  /\ ClienteOf \in [Commands -> Clientes]
  /\ Malformed \subseteq Bodies
  /\ None \notin Commands \cup Bodies \cup Workers
ASSUME LimitsAssumption ==
  /\ MaxAttempts \in Nat \ {0}
  /\ MaxStalls \in Nat
  /\ MaxCarts \in Nat
  /\ MaxFaults \in Nat
  /\ Faults \subseteq FaultKinds

VARIABLES
  job,      \* Redis: the BullMQ job of each command
  row,      \* PostgreSQL: ORDER_COMMAND_JOB of each command ("NONE" = no row)
  run,      \* what each worker slot is doing
  cart,     \* PostgreSQL: id of each cliente's active non-empty cart, 0 if none
  nextCart, \* id of the next cart
  orders,   \* PostgreSQL: the ORDER rows
  counter,  \* PostgreSQL: OrderCounter.current_value of the vendedor
  faults    \* faults so far

vars == <<job, row, run, cart, nextCart, orders, counter, faults>>
database == <<row, cart, nextCart, orders, counter>>

JobStates == {"absent", "waiting", "active", "completed", "failed"}
Settled == {"COMPLETED", "FAILED", "DEAD_LETTER"}
OrderJobStatus == {"PENDING", "PROCESSING", "RETRYING"} \cup Settled
(* Where the job handler stands; the names say what it does next. *)
Steps == {"idle", "register", "claim", "checkout", "validate", "commit",
          "complete", "rejected", "failed", "returned", "threw", "unrecoverable"}
(* The steps between the claim of the row and the next status change. *)
Holding == {"checkout", "validate", "commit", "complete", "rejected", "failed"}

AbsentJob == [state |-> "absent", body |-> None, made |-> 0, stalls |-> 0, lock |-> None]
IdleRun == [pc |-> "idle", cmd |-> None, body |-> None, made |-> 0, cart |-> 0, order |-> 0]
(* The job as add() stores it, and an attempt as processJob() starts it: *)
(* only the first one (attemptsMade = 0) registers the tracking row.     *)
NewJob(b) == [state |-> "waiting", body |-> b, made |-> 0, stalls |-> 0, lock |-> None]
NewRun(c) == [pc |-> IF job[c].made = 0 THEN "register" ELSE "claim", cmd |-> c,
              body |-> job[c].body, made |-> job[c].made, cart |-> 0, order |-> 0]

Init ==
  /\ job = [c \in Commands |-> AbsentJob]
  /\ row = [c \in Commands |-> [status |-> "NONE", body |-> None, attempts |-> 0, order |-> 0]]
  /\ run = [w \in Workers |-> IdleRun]
  /\ cart = [k \in Clientes |-> 0]
  /\ nextCart = 1
  /\ orders = {}
  /\ counter = 0
  /\ faults = 0

-----------------------------------------------------------------------------
(* The cliente and the gateway *)

(* A cliente fills a new active cart (the cart's own operations: Cart). *)
FillCart(k) ==
  /\ cart[k] = 0
  /\ nextCart <= MaxCarts
  /\ cart' = [cart EXCEPT ![k] = nextCart]
  /\ nextCart' = nextCart + 1
  /\ UNCHANGED <<job, row, run, orders, counter, faults>>

(* Faulty variant: add() replaces a job that has not been taken yet. *)
SubmitReplacing(c, b) ==
  /\ job[c].state \in {"absent", "waiting"}
  /\ job' = [job EXCEPT ![c] = NewJob(b)]
  /\ UNCHANGED <<run, database, faults>>

(* enqueue(): queue.add() under the command's own job id. While a job with *)
(* that id exists in any state, add() changes nothing (no step here).      *)
Submit(c, b) ==
  /\ job[c].state = "absent"
  /\ job' = [job EXCEPT ![c] = NewJob(b)]
  /\ UNCHANGED <<run, database, faults>>

(* removeOnComplete: an old completed job leaves Redis, and its id is free. *)
PruneCompleted(c) ==
  /\ job[c].state = "completed"
  /\ job' = [job EXCEPT ![c] = AbsentJob]
  /\ UNCHANGED <<run, database, faults>>

-----------------------------------------------------------------------------
(* One attempt of the worker *)

Goto(w, step) == [run EXCEPT ![w].pc = step]

(* BullMQ gives the job, with its lock, to a free slot. *)
Take(w, c) ==
  /\ run[w].pc = "idle"
  /\ job[c].state = "waiting"
  /\ job' = [job EXCEPT ![c].state = "active", ![c].lock = w]
  /\ run' = [run EXCEPT ![w] = NewRun(c)]
  /\ UNCHANGED <<database, faults>>

(* registerPending(): create the row, or accept an existing one with the   *)
(* same payload hash. The fallback for a lost race on the unique key       *)
(* compares the same hash, so the whole call is one step.                  *)
Register(w) ==
  LET c == run[w].cmd IN
  /\ run[w].pc = "register"
  /\ row' = IF row[c].status = "NONE"
            THEN [row EXCEPT ![c].status = "PENDING", ![c].body = run[w].body]
            ELSE row
  /\ run' = Goto(w, IF row[c].status = "NONE" \/ row[c].body = run[w].body
                    THEN "claim" ELSE "threw")
  /\ UNCHANGED <<job, cart, nextCart, orders, counter, faults>>

(* Faulty variant: UPDATE ... WHERE tracking_id only. *)
OverwriteStatus(c, from, to, attempt, order) ==
  row' = [row EXCEPT ![c].status = to, ![c].attempts = attempt,
                     ![c].order = IF order = 0 THEN @ ELSE order]

(* updateOrderCommandJobStatus(): UPDATE ... WHERE status = from. *)
CompareAndSet(c, from, to, attempt, order) ==
  row' = IF row[c].status = from
         THEN [row EXCEPT ![c].status = to, ![c].attempts = attempt,
                          ![c].order = IF order = 0 THEN @ ELSE order]
         ELSE row

(* Faulty variant: the attempt is counted by BullMQ and by the handler. *)
TransitionOvercounted(w, from, to, order, next) ==
  LET c == run[w].cmd IN
  /\ CompareAndSet(c, from, to, run[w].made + 2, order)
  /\ run' = Goto(w, IF row[c].status = from THEN next ELSE "threw")

(* transitionStatus(): the update, and a ConflictException when it missed. *)
Transition(w, from, to, order, next) ==
  LET c == run[w].cmd IN
  /\ CompareAndSet(c, from, to, run[w].made + 1, order)
  /\ run' = Goto(w, IF row[c].status = from THEN next ELSE "threw")

(* Faulty variant: a later attempt takes over whatever status it finds. *)
ClaimFromAny(w) == IF run[w].made = 0 THEN "PENDING" ELSE row[run[w].cmd].status

ClaimFrom(w) == IF run[w].made = 0 THEN "PENDING" ELSE "RETRYING"

(* The claim, before the try block: a conflict is rethrown to BullMQ. *)
Claim(w) ==
  /\ run[w].pc = "claim"
  /\ Transition(w, ClaimFrom(w), "PROCESSING", 0, "checkout")
  /\ UNCHANGED <<job, cart, nextCart, orders, counter, faults>>

(* parseCreateOrderRequest() and the first query of createFromCart(): a bad *)
(* body, or no active cart with items, is a BadRequestException.            *)
Checkout(w) ==
  LET found == cart[ClienteOf[run[w].cmd]] IN
  /\ run[w].pc = "checkout"
  /\ run' = IF run[w].body \in Malformed \/ found = 0
            THEN Goto(w, "rejected")
            ELSE [run EXCEPT ![w].pc = "validate", ![w].cart = found]
  /\ UNCHANGED <<job, database, faults>>

(* validateCartItems(): products-service answers for every item, or is    *)
(* unavailable or too slow (503), or answers 400, 403 or 404.             *)
Validate(w) ==
  /\ run[w].pc = "validate"
  /\ \E answer \in {"commit", "failed", "rejected"} : run' = Goto(w, answer)
  /\ UNCHANGED <<job, database, faults>>

(* The writes of createFromCart(): the counter's row lock serialises them, *)
(* so they are one step with the commit. A cart deleted by another         *)
(* checkout makes cart.delete() throw and rolls everything back.           *)
PlaceOrder(w) ==
  LET c == run[w].cmd
      k == ClienteOf[c] IN
  /\ counter' = counter + 1
  /\ orders' = orders \cup {[cmd |-> c, body |-> run[w].body,
                             cart |-> run[w].cart, numero |-> counter + 1]}
  /\ cart' = [cart EXCEPT ![k] = 0]

(* Faulty variant: deleteMany() instead of delete(), a missing cart is fine. *)
CartUnchecked(w) == TRUE

CartStillThere(w) == cart[ClienteOf[run[w].cmd]] = run[w].cart

(* Faulty variant: the counter is incremented outside the transaction. *)
RollbackButCounter(w) ==
  /\ run' = Goto(w, "failed")
  /\ counter' = counter + 1
  /\ UNCHANGED <<cart, orders>>

(* The transaction's error is not an HttpException: it is retryable. *)
Rollback(w) ==
  /\ run' = Goto(w, "failed")
  /\ UNCHANGED <<cart, orders, counter>>

Commit(w) ==
  /\ run[w].pc = "commit"
  /\ IF CartStillThere(w)
     THEN /\ PlaceOrder(w)
          /\ run' = [run EXCEPT ![w].pc = "complete", ![w].order = counter + 1]
     ELSE Rollback(w)
  /\ UNCHANGED <<job, row, nextCart, faults>>

(* `return transitionStatus(COMPLETED)` without await: its rejection is the *)
(* rejection of process() and skips the catch block.                        *)
Complete(w) ==
  /\ run[w].pc = "complete"
  /\ Transition(w, "PROCESSING", "COMPLETED", run[w].order, "returned")
  /\ UNCHANGED <<job, cart, nextCart, orders, counter, faults>>

(* classifyOrderJobFailure() and resolveFailureStatus(). *)
FailureStatus(w) ==
  IF run[w].pc = "rejected" THEN "FAILED"
  ELSE IF run[w].made + 1 >= MaxAttempts THEN "DEAD_LETTER" ELSE "RETRYING"

(* Faulty variant: RETRYING is recorded and the error is swallowed. *)
SwallowedError(status) == IF status = "RETRYING" THEN "returned" ELSE "unrecoverable"

(* The error is rethrown for a retry, or replaced by an UnrecoverableError. *)
RethrownError(status) == IF status = "RETRYING" THEN "threw" ELSE "unrecoverable"

(* handleFailure(): record the failure, then throw. *)
HandleFailure(w) ==
  /\ run[w].pc \in {"rejected", "failed"}
  /\ Transition(w, "PROCESSING", FailureStatus(w), 0, RethrownError(FailureStatus(w)))
  /\ UNCHANGED <<job, cart, nextCart, orders, counter, faults>>

(* BullMQ books the attempt: only the lock's owner may, and attemptsMade  *)
(* counts attempts that ended. A thrown error is retried while attempts   *)
(* remain, an UnrecoverableError never.                                   *)
Finished(j, how) ==
  LET made == j.made + 1
      state == CASE how = "returned" -> "completed"
                 [] how = "threw" /\ made < MaxAttempts -> "waiting"
                 [] OTHER -> "failed"
  IN  [j EXCEPT !.made = made, !.state = state, !.lock = None]

Settle(w) ==
  LET c == run[w].cmd IN
  /\ run[w].pc \in {"returned", "threw", "unrecoverable"}
  /\ job' = IF job[c].state = "active" /\ job[c].lock = w
            THEN [job EXCEPT ![c] = Finished(@, run[w].pc)]
            ELSE job
  /\ run' = [run EXCEPT ![w] = IdleRun]
  /\ UNCHANGED <<database, faults>>

-----------------------------------------------------------------------------
(* Faults and recovery *)

Fault(kind) ==
  /\ kind \in Faults
  /\ faults < MaxFaults
  /\ faults' = faults + 1

(* The process dies during an attempt: the job stays active in Redis. *)
Crash(w) ==
  /\ run[w].pc # "idle"
  /\ Fault("crash")
  /\ run' = [run EXCEPT ![w] = IdleRun]
  /\ UNCHANGED <<job, database>>

Redelivered(j) ==
  IF j.stalls + 1 > MaxStalls
  THEN [j EXCEPT !.stalls = @ + 1, !.state = "failed", !.lock = None]
  ELSE [j EXCEPT !.stalls = @ + 1, !.state = "waiting", !.lock = None]

Running(c) == job[c].lock # None /\ run[job[c].lock].cmd = c

(* BullMQ's stalled check: an active job nobody works on is given away. *)
RecoverStalled(c) ==
  /\ job[c].state = "active"
  /\ ~Running(c)
  /\ job' = [job EXCEPT ![c] = Redelivered(@)]
  /\ UNCHANGED <<run, database, faults>>

(* The worker is alive but failed to renew its lock in time (a blocked     *)
(* event loop, a partition): the job is given away while it still runs.    *)
FalseStall(c) ==
  /\ job[c].state = "active"
  /\ Running(c)
  /\ Fault("stall")
  /\ job' = [job EXCEPT ![c] = Redelivered(@)]
  /\ UNCHANGED <<run, database>>

(* Faulty variant: `return await` keeps the COMPLETED update in the try block. *)
AfterDbErrorAwaited(step) ==
  IF step \in {"checkout", "validate", "commit", "complete"} THEN "failed" ELSE "threw"

(* Inside the try block a database error is handled as retryable; before   *)
(* it, after the order, and in the catch block, it leaves process().       *)
AfterDbError(step) ==
  IF step \in {"checkout", "validate", "commit"} THEN "failed" ELSE "threw"

(* A query fails and changes nothing. *)
DbError(w) ==
  /\ run[w].pc \in Holding \cup {"register", "claim"}
  /\ Fault("db")
  /\ run' = Goto(w, AfterDbError(run[w].pc))
  /\ UNCHANGED <<job, database>>

(* updateOrderCommandJobStatus() updates, then the read of the updated row *)
(* fails: the transition happened, and its caller sees an error.           *)
RereadError(w) ==
  /\ Fault("reread")
  /\ \/ /\ run[w].pc = "claim"
        /\ Transition(w, ClaimFrom(w), "PROCESSING", 0, "threw")
     \/ /\ run[w].pc = "complete"
        /\ Transition(w, "PROCESSING", "COMPLETED", run[w].order, "threw")
     \/ /\ run[w].pc \in {"rejected", "failed"}
        /\ Transition(w, "PROCESSING", FailureStatus(w), 0, "threw")
  /\ UNCHANGED <<job, cart, nextCart, orders, counter>>

(* The checkout commits, and the connection breaks before the worker hears *)
(* of it: the catch block treats a placed order as a retryable failure.    *)
CommitAckLost(w) ==
  /\ run[w].pc = "commit"
  /\ CartStillThere(w)
  /\ Fault("ack")
  /\ PlaceOrder(w)
  /\ run' = Goto(w, "failed")
  /\ UNCHANGED <<job, row, nextCart>>

(* Redis restarts without a volume: every job is gone. *)
RedisLoss ==
  /\ \E c \in Commands : job[c] # AbsentJob
  /\ Fault("redis")
  /\ job' = [c \in Commands |-> AbsentJob]
  /\ UNCHANGED <<run, database>>

-----------------------------------------------------------------------------
WorkerStep(w) ==
  \/ Register(w) \/ Claim(w) \/ Checkout(w) \/ Validate(w) \/ Commit(w)
  \/ Complete(w) \/ HandleFailure(w) \/ Settle(w)

WorkerFault(w) == Crash(w) \/ DbError(w) \/ RereadError(w) \/ CommitAckLost(w)

Next ==
  \/ \E k \in Clientes : FillCart(k)
  \/ \E c \in Commands, b \in Bodies : Submit(c, b)
  \/ \E c \in Commands : PruneCompleted(c) \/ RecoverStalled(c) \/ FalseStall(c)
  \/ \E w \in Workers, c \in Commands : Take(w, c)
  \/ \E w \in Workers : WorkerStep(w) \/ WorkerFault(w)
  \/ RedisLoss

Spec == Init /\ [][Next]_vars

(* The event loop runs a handler on, BullMQ serves a waiting job while a   *)
(* slot is free and looks for stalled jobs periodically. Clientes, crashes *)
(* and faults owe nothing.                                                 *)
Fairness ==
  /\ \A w \in Workers : WF_vars(WorkerStep(w))
  /\ \A c \in Commands : WF_vars(\E w \in Workers : Take(w, c))
  /\ \A c \in Commands : WF_vars(RecoverStalled(c))

FairSpec == Spec /\ Fairness

-----------------------------------------------------------------------------
(* Properties *)

JobType == [state : JobStates, body : Bodies \cup {None}, made : 0..MaxAttempts,
            stalls : 0..(MaxStalls + 1), lock : Workers \cup {None}]
RowType == [status : OrderJobStatus \cup {"NONE"}, body : Bodies \cup {None},
            attempts : 0..MaxAttempts, order : Nat]
RunType == [pc : Steps, cmd : Commands \cup {None}, body : Bodies \cup {None},
            made : 0..MaxAttempts, cart : Nat, order : Nat]
OrderType == [cmd : Commands, body : Bodies, cart : Nat, numero : Nat]

(* The attempts of a job, a row and a slot, and a job's stalls, stay within *)
(* their limits, and every other part of the state keeps its type.          *)
TypeOK ==
  /\ job \in [Commands -> JobType]
  /\ row \in [Commands -> RowType]
  /\ run \in [Workers -> RunType]
  /\ cart \in [Clientes -> Nat]
  /\ nextCart \in Nat
  /\ orders \subseteq OrderType
  /\ counter \in Nat
  /\ faults \in Nat

(* What a job in the queue and a busy slot carry. *)
WellFormed ==
  /\ \A c \in Commands : job[c].state \in {"waiting", "active"} =>
       job[c].body \in Bodies /\ job[c].made < MaxAttempts /\ job[c].stalls <= MaxStalls
  /\ \A w \in Workers : run[w].pc # "idle" =>
       run[w].cmd \in Commands /\ run[w].body \in Bodies /\ run[w].made < MaxAttempts

(* Although BullMQ may run one job on two workers at a time, at most one of *)
(* them is past the claim, and the row says PROCESSING while it is.         *)
ClaimIsExclusive ==
  /\ \A w \in Workers : run[w].pc \in Holding => row[run[w].cmd].status = "PROCESSING"
  /\ \A w1, w2 \in Workers :
       run[w1].pc \in Holding /\ run[w2].pc \in Holding /\ run[w1].cmd = run[w2].cmd
         => w1 = w2

(* However often the job is delivered, retried, stalled, lost or sent       *)
(* again, a command places at most one order, as long as the checkout's     *)
(* commit is acknowledged ("ack" is not among the faults).                  *)
AtMostOneOrder ==
  \A o1, o2 \in orders : o1.cmd = o2.cmd => o1 = o2

(* Two commands of a cliente racing for one cart never both order it: the   *)
(* second one's cart.delete() finds no row and its transaction rolls back.  *)
OneOrderPerCart ==
  \A o1, o2 \in orders : o1.cart = o2.cart => o1 = o2

(* The tracking row tells the truth: COMPLETED points at the order this     *)
(* command placed, FAILED and DEAD_LETTER mean that it placed none.         *)
TruthfulReport ==
  \A c \in Commands :
    /\ row[c].status = "COMPLETED" =>
         \E o \in orders : o.cmd = c /\ o.numero = row[c].order
    /\ row[c].status \in {"FAILED", "DEAD_LETTER"} =>
         \A o \in orders : o.cmd # c

(* The order is made from the payload the idempotency key was registered    *)
(* with, never from a later payload under the same key.                     *)
OrderBodyIsRegistered ==
  \A o \in orders : o.body = row[o.cmd].body

(* A job that BullMQ counts as completed has a COMPLETED tracking row: no   *)
(* failure is swallowed by the handler.                                     *)
CompletedJobIsReported ==
  \A c \in Commands : job[c].state = "completed" => row[c].status = "COMPLETED"

(* pedido_numero of the vendedor: 1, 2, 3... without gaps or repetitions,   *)
(* whatever checkouts roll back or fail in between.                         *)
NumbersGapFree ==
  /\ {o.numero : o \in orders} = 1..counter
  /\ \A o1, o2 \in orders : o1.numero = o2.numero => o1 = o2

(* A settled tracking row is never written again, whoever still runs.       *)
SettledRowIsFinal ==
  [][\A c \in Commands : row[c].status \in Settled => row'[c] = row[c]]_row

(* The outcome of a command and what its tracking row tells the cliente.    *)
outcome == [c \in Commands |->
  IF \E o \in orders : o.cmd = c THEN "ordered"
  ELSE IF row[c].status \in {"FAILED", "DEAD_LETTER"} THEN "refused" ELSE "open"]
told == [c \in Commands |->
  CASE row[c].status = "COMPLETED" -> "ordered"
    [] row[c].status \in {"FAILED", "DEAD_LETTER"} -> "refused"
    [] OTHER -> "pending"]

CO == INSTANCE CommandOutcome

(* The queue, its workers and the tracking row together implement the       *)
(* abstract command: settled once, and told as it was settled.              *)
ImplementsCommandOutcome == CO!Spec

(* Every command that is waiting for a worker is eventually settled in its  *)
(* tracking row. It needs a behaviour without faults.                       *)
CommandSettles ==
  \A c \in Commands : job[c].state = "waiting" ~> row[c].status \in Settled
=============================================================================
