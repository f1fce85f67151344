------------------------------ MODULE Deliveries ------------------------------
(***************************************************************************)
(* The asynchronous `deliveries.update_status` command of entregas-service: *)
(* the gateway enqueues a job, a worker registers a tracking row (which only *)
(* the first attempt can do), moves the delivery after a check on what it   *)
(* has read, publishes two events and records the outcome. Tracking rows    *)
(* and deliveries are updated unconditionally. The queue behaves as in      *)
(* OrderCommand.                                                            *)
(***************************************************************************)
EXTENDS Naturals, Sequences

CONSTANTS
  Entregas,    \* the DELIVERY rows (nothing in the repository creates them)
  Sellers,     \* AUTH_USER ids of vendedores
  VendedorOf,  \* DELIVERY.vendedor_id of each delivery
  Commands,    \* commands: one per (delivery, idempotency key)
  EntregaOf,   \* [Commands -> Entregas]
  Workers,     \* worker slots (replicas times concurrency)
  None,        \* no command, no user, no lock
  MaxAttempts, \* DELIVERIES_QUEUE_ATTEMPTS
  MaxStalls,   \* BullMQ's maxStalledCount
  Faults,      \* kinds of fault that may happen
  MaxFaults    \* bound: how many faults happen in a behaviour

ASSUME DeliveriesAssumption ==
  /\ EntregaOf \in [Commands -> Entregas]
  /\ None \notin Commands \cup Sellers \cup Workers
  /\ MaxAttempts \in Nat \ {0}
  /\ {MaxStalls, MaxFaults} \subseteq Nat
  /\ Faults \subseteq {"crash", "stall", "error"}

VARIABLES
  job,     \* Redis: the BullMQ job of each command
  row,     \* PostgreSQL: DELIVERY_COMMAND_JOB of each command ("NONE" = no row)
  run,     \* what each worker slot is doing
  delivery, \* PostgreSQL: DELIVERY.estado
  moves,   \* how often each command has written an estado, for the properties only
  stream,  \* Redis: the events of the deliveries stream
  faults   \* faults so far

vars == <<job, row, run, delivery, moves, stream, faults>>

DeliveryEstados == {"pendiente", "en_camino", "entregada"}
TRANSICIONES_VALIDAS ==
  [e \in DeliveryEstados |->
     CASE e = "pendiente" -> {"en_camino"}
       [] e = "en_camino" -> {"entregada"}
       [] OTHER           -> {}]

AbsentJob == [state |-> "absent", user |-> None, to |-> "NONE", made |-> 0,
              stalls |-> 0, lock |-> None]
IdleRun == [pc |-> "idle", cmd |-> None, user |-> None, to |-> "NONE",
            error |-> "NONE"]

Init ==
  /\ job = [c \in Commands |-> AbsentJob]
  /\ row = [c \in Commands |-> [status |-> "NONE", attempts |-> 0]]
  /\ run = [w \in Workers |-> IdleRun]
  /\ delivery = [d \in Entregas |-> "pendiente"]
  /\ moves = [c \in Commands |-> 0]
  /\ stream = << >>
  /\ faults = 0

-----------------------------------------------------------------------------
(* The gateway *)

(* enqueue(): the vendedorId of the job is the sub of the JWT, and the       *)
(* estado of the body is passed on as it is.                                 *)
Submit(c, u, to) ==
  /\ job[c].state = "absent"
  /\ job' = [job EXCEPT ![c] = [AbsentJob EXCEPT !.state = "waiting", !.user = u, !.to = to]]
  /\ UNCHANGED <<row, run, delivery, moves, stream, faults>>

PruneCompleted(c) ==
  /\ job[c].state = "completed"
  /\ job' = [job EXCEPT ![c] = AbsentJob]
  /\ UNCHANGED <<row, run, delivery, moves, stream, faults>>

-----------------------------------------------------------------------------
(* One attempt of the worker *)

Goto(w, step) == run' = [run EXCEPT ![w].pc = step]

Take(w, c) ==
  /\ run[w].pc = "idle"
  /\ job[c].state = "waiting"
  /\ job' = [job EXCEPT ![c].state = "active", ![c].lock = w]
  /\ run' = [run EXCEPT ![w] = [IdleRun EXCEPT !.pc = "register", !.cmd = c,
                                               !.user = job[c].user, !.to = job[c].to]]
  /\ UNCHANGED <<row, delivery, moves, stream, faults>>

(* Faulty variant: a command that has no final status is taken over. *)
NotSettled(c) == row[c].status \in {"NONE", "PENDING", "PROCESSING", "RETRYING"}

(* The unique keys of the tracking row. *)
NotRegistered(c) == row[c].status = "NONE"

(* registerPending(): the insert, or DUPLICATE_KEY, and then the attempt     *)
(* returns the row that is there, whatever its status.                       *)
Register(w) ==
  LET c == run[w].cmd IN
  /\ run[w].pc = "register"
  /\ IF NotRegistered(c)
     THEN row' = [row EXCEPT ![c].status = "PENDING"] /\ Goto(w, "begin")
     ELSE UNCHANGED row /\ Goto(w, "returned")
  /\ UNCHANGED <<job, delivery, moves, stream, faults>>

(* transitionStatus(): it ignores the status it is told to expect. *)
Begin(w) ==
  /\ run[w].pc = "begin"
  /\ row' = [row EXCEPT ![run[w].cmd].status = "PROCESSING"]
  /\ Goto(w, "read")
  /\ UNCHANGED <<job, delivery, moves, stream, faults>>

(* updateStatus() of the service: the read and the checks on it. *)
Read(w) ==
  LET d == EntregaOf[run[w].cmd]
      refusal == IF VendedorOf[d] # run[w].user THEN "FORBIDDEN"
                 ELSE IF run[w].to \notin TRANSICIONES_VALIDAS[delivery[d]] THEN "BAD_REQUEST"
                 ELSE "NONE" IN
  /\ run[w].pc = "read"
  /\ run' = [run EXCEPT ![w].pc = IF refusal = "NONE" THEN "write" ELSE "fail",
                        ![w].error = refusal]
  /\ UNCHANGED <<job, row, delivery, moves, stream, faults>>

(* updateStatus() of the repository: UPDATE ... WHERE id only. *)
WriteEstado(w) ==
  LET d == EntregaOf[run[w].cmd] IN
  /\ run[w].pc = "write"
  /\ delivery' = [delivery EXCEPT ![d] = run[w].to]
  /\ moves' = [moves EXCEPT ![run[w].cmd] = @ + 1]
  /\ Goto(w, "announce")
  /\ UNCHANGED <<job, row, stream, faults>>

Publish(w, type) == stream' = Append(stream, [type |-> type, cmd |-> run[w].cmd])

(* publishStarted() or publishCompleted(), one for each estado that can be   *)
(* moved to.                                                                 *)
Announce(w) ==
  /\ run[w].pc = "announce"
  /\ Publish(w, IF run[w].to = "en_camino" THEN "DeliveryStarted" ELSE "DeliveryCompleted")
  /\ Goto(w, "changed")
  /\ UNCHANGED <<job, row, delivery, moves, faults>>

(* publishStatusChanged(): the last of the two events.                       *)
PublishChanged(w) ==
  /\ run[w].pc = "changed"
  /\ Publish(w, "DeliveryStatusChanged")
  /\ Goto(w, "finish")
  /\ UNCHANGED <<job, row, delivery, moves, faults>>

Finish(w) ==
  /\ run[w].pc = "finish"
  /\ row' = [row EXCEPT ![run[w].cmd].status = "COMPLETED"]
  /\ Goto(w, "returned")
  /\ UNCHANGED <<job, delivery, moves, stream, faults>>

(* classifyDeliveryJobFailure(), with the processor's maxAttempts of 3. *)
FailureStatus(error, attempts) ==
  IF attempts >= 3 THEN "DEAD_LETTER"
  ELSE IF error \in {"FORBIDDEN", "BAD_REQUEST"} THEN "FAILED" ELSE "RETRYING"

(* Faulty variant: the failure is recorded, its attempt is not counted. *)
FailUncounted(w) ==
  LET c == run[w].cmd IN
  /\ run[w].pc = "fail"
  /\ row' = [row EXCEPT ![c].status = FailureStatus(run[w].error, row[c].attempts + 1)]
  /\ Goto(w, "returned")
  /\ UNCHANGED <<job, delivery, moves, stream, faults>>

(* The catch block records the failure and returns: to BullMQ the job is    *)
(* completed, retryable or not.                                             *)
Fail(w) ==
  LET c == run[w].cmd
      attempts == row[c].attempts + 1 IN
  /\ run[w].pc = "fail"
  /\ row' = [row EXCEPT ![c] = [status |-> FailureStatus(run[w].error, attempts),
                                attempts |-> attempts]]
  /\ Goto(w, "returned")
  /\ UNCHANGED <<job, delivery, moves, stream, faults>>

(* BullMQ books the attempt, as in OrderCommand. *)
Settle(w) ==
  LET c == run[w].cmd
      made == job[c].made + 1
      state == IF run[w].pc = "returned" THEN "completed"
               ELSE IF made < MaxAttempts THEN "waiting" ELSE "failed" IN
  /\ run[w].pc \in {"returned", "threw"}
  /\ job' = IF job[c].state = "active" /\ job[c].lock = w
            THEN [job EXCEPT ![c].made = made, ![c].state = state, ![c].lock = None]
            ELSE job
  /\ run' = [run EXCEPT ![w] = IdleRun]
  /\ UNCHANGED <<row, delivery, moves, stream, faults>>

-----------------------------------------------------------------------------
(* Faults and recovery *)

Fault(kind) ==
  /\ kind \in Faults
  /\ faults < MaxFaults
  /\ faults' = faults + 1

(* Faulty variant: an error of the publisher is logged and swallowed. *)
AfterErrorSwallowed(step) ==
  IF step \in {"register", "fail"} THEN "threw"
  ELSE IF step \in {"announce", "changed"} THEN "finish" ELSE "fail"

(* Errors inside the try block are caught there; those of the insert and of  *)
(* the catch block leave process().                                          *)
AfterError(step) == IF step \in {"register", "fail"} THEN "threw" ELSE "fail"

(* A query or an XADD fails and changes nothing. *)
Error(w) ==
  /\ run[w].pc \in {"register", "begin", "read", "write", "announce", "changed", "finish", "fail"}
  /\ Fault("error")
  /\ run' = [run EXCEPT ![w].pc = AfterError(@), ![w].error = "INTERNAL_ERROR"]
  /\ UNCHANGED <<job, row, delivery, moves, stream>>

Crash(w) ==
  /\ run[w].pc # "idle"
  /\ Fault("crash")
  /\ run' = [run EXCEPT ![w] = IdleRun]
  /\ UNCHANGED <<job, row, delivery, moves, stream>>

Redeliver(c) ==
  job' = [job EXCEPT ![c].stalls = @ + 1, ![c].lock = None,
                     ![c].state = IF job[c].stalls + 1 > MaxStalls THEN "failed" ELSE "waiting"]

Running(c) == job[c].lock # None /\ run[job[c].lock].cmd = c

RecoverStalled(c) ==
  /\ job[c].state = "active"
  /\ ~Running(c)
  /\ Redeliver(c)
  /\ UNCHANGED <<row, run, delivery, moves, stream, faults>>

FalseStall(c) ==
  /\ job[c].state = "active"
  /\ Running(c)
  /\ Fault("stall")
  /\ Redeliver(c)
  /\ UNCHANGED <<row, run, delivery, moves, stream>>

-----------------------------------------------------------------------------
WorkerStep(w) ==
  \/ Register(w) \/ Begin(w) \/ Read(w) \/ WriteEstado(w) \/ Announce(w)
  \/ PublishChanged(w) \/ Finish(w) \/ Fail(w) \/ Settle(w)

Next ==
  \/ \E c \in Commands, u \in Sellers, to \in DeliveryEstados : Submit(c, u, to)
  \/ \E c \in Commands : PruneCompleted(c) \/ RecoverStalled(c) \/ FalseStall(c)
  \/ \E w \in Workers, c \in Commands : Take(w, c)
  \/ \E w \in Workers : WorkerStep(w) \/ Error(w) \/ Crash(w)

Spec == Init /\ [][Next]_vars

-----------------------------------------------------------------------------
(* Properties *)

JobType == [state : {"absent", "waiting", "active", "completed", "failed"},
            user : Sellers \cup {None}, to : DeliveryEstados \cup {"NONE"}, made : 0..MaxAttempts,
            stalls : 0..(MaxStalls + 1), lock : Workers \cup {None}]
(* A failure is recorded with the attempts it has cost, DEAD_LETTER with    *)
(* all that the processor allows.                                           *)
CommandRowType ==
  {r \in [status : {"NONE", "PENDING", "PROCESSING", "RETRYING", "COMPLETED", "FAILED",
                    "DEAD_LETTER"},
          attempts : 0..3] :
     /\ r.status \in {"RETRYING", "FAILED"} => r.attempts \in 1..2
     /\ r.status = "DEAD_LETTER" => r.attempts = 3}
RunType == [pc : {"idle", "register", "begin", "read", "write", "announce", "changed",
                  "finish", "fail", "returned", "threw"},
            cmd : Commands \cup {None}, user : Sellers \cup {None}, to : DeliveryEstados \cup {"NONE"},
            error : {"NONE", "FORBIDDEN", "BAD_REQUEST", "INTERNAL_ERROR"}]

(* Every part of the state keeps its type and its limits: the attempts and  *)
(* stalls of a job, the attempts a row has counted.                         *)
TypeOK ==
  /\ job \in [Commands -> JobType]
  /\ row \in [Commands -> CommandRowType]
  /\ run \in [Workers -> RunType]
  /\ delivery \in [Entregas -> DeliveryEstados]
  /\ moves \in [Commands -> Nat]
  /\ stream \in Seq([type : {"DeliveryStarted", "DeliveryCompleted", "DeliveryStatusChanged"},
                     cmd : Commands])
  /\ faults \in 0..MaxFaults

Moved(c) == moves[c] > 0
Announced(c, type) == \E i \in 1..Len(stream) : stream[i].cmd = c /\ stream[i].type = type

(* However often a job is delivered, stalls or is sent again, its command   *)
(* moves the delivery at most once and announces the move at most once.     *)
ActsOnce ==
  /\ \A c \in Commands : moves[c] <= 1
  /\ \A i, j \in 1..Len(stream) :
       stream[i].cmd = stream[j].cmd /\ stream[i].type = stream[j].type => i = j

(* The tracking row tells the truth: COMPLETED means that the delivery was  *)
(* moved and both events are in the stream, FAILED that it was not moved.   *)
TruthfulReport ==
  \A c \in Commands :
    /\ row[c].status = "COMPLETED" =>
         /\ Moved(c)
         /\ Announced(c, "DeliveryStatusChanged")
         /\ Announced(c, "DeliveryStarted") \/ Announced(c, "DeliveryCompleted")
    /\ row[c].status = "FAILED" => ~Moved(c)

(* A command recorded as RETRYING is going to be attempted again: its job   *)
(* waits in the queue or is being worked on. This is what the classifier    *)
(* ("Otherwise -> RETRYING") and the specification of the queue ("con       *)
(* retries, backoff") promise; the catch block of the processor, which      *)
(* returns normally, does not keep it.                                      *)
RetryingIsRetried ==
  \A c \in Commands : row[c].status = "RETRYING" => job[c].state \in {"waiting", "active"}

(* A delivered delivery stays so.                                           *)
EntregadaIsFinal ==
  [][\A d \in Entregas : delivery[d] = "entregada" => delivery'[d] = "entregada"]_delivery
=============================================================================
