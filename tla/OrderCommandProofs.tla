-------------------------- MODULE OrderCommandProofs --------------------------
(***************************************************************************)
(* Proofs about OrderCommand, for any number of commands, clientes, bodies *)
(* and workers, any limits and any of the faults named in a theorem.       *)
(***************************************************************************)
EXTENDS OrderCommand, TLAPS

TypeInv == TypeOK /\ WellFormed

-----------------------------------------------------------------------------
(* What the helpers of the actions do to a well-typed state *)

LEMMA GotoFacts ==
  ASSUME TypeOK, NEW w \in Workers, NEW step \in Steps
  PROVE  /\ Goto(w, step) \in [Workers -> RunType]
         /\ Goto(w, step)[w].pc = step
         /\ \A v \in Workers : v # w => Goto(w, step)[v] = run[v]
         /\ \A v \in Workers : /\ Goto(w, step)[v].cmd = run[v].cmd
                               /\ Goto(w, step)[v].body = run[v].body
                               /\ Goto(w, step)[v].made = run[v].made
                               /\ Goto(w, step)[v].cart = run[v].cart
                               /\ Goto(w, step)[v].order = run[v].order
BY DEF TypeOK, RunType, Goto

LEMMA CompareAndSetFacts ==
  ASSUME TypeOK, NEW c \in Commands, NEW from, NEW to \in OrderJobStatus,
         NEW attempt \in 0..MaxAttempts, NEW order \in Nat,
         CompareAndSet(c, from, to, attempt, order)
  PROVE  /\ row' \in [Commands -> RowType]
         /\ \A d \in Commands : d # c => row'[d] = row[d]
         /\ row[c].status # from => row' = row
         /\ row[c].status = from => /\ row'[c].status = to
                                    /\ row'[c].body = row[c].body
                                    /\ order # 0 => row'[c].order = order
BY DEF TypeOK, RowType, CompareAndSet

(* The attempt of a busy slot stays within MaxAttempts. *)
LEMMA BusySlot ==
  ASSUME TypeInv, NEW w \in Workers, run[w].pc # "idle"
  PROVE  /\ run[w] \in RunType
         /\ run[w].cmd \in Commands
         /\ run[w].body \in Bodies
         /\ run[w].made + 1 \in 0..MaxAttempts
         /\ run[w].order \in Nat
         /\ run[w].cart \in Nat
BY LimitsAssumption DEF TypeInv, TypeOK, WellFormed, RunType

LEMMA TransitionFacts ==
  ASSUME TypeInv, NEW w \in Workers, run[w].pc # "idle", NEW from, NEW to \in OrderJobStatus,
         NEW order \in Nat, NEW next \in Steps,
         Transition(w, from, to, order, next)
  PROVE  /\ row' \in [Commands -> RowType]
         /\ CompareAndSet(run[w].cmd, from, to, run[w].made + 1, order)
         /\ \E step \in Steps :
              /\ step = (IF row[run[w].cmd].status = from THEN next ELSE "threw")
              /\ run' = Goto(w, step)
<1>1. run[w].cmd \in Commands /\ run[w].made + 1 \in 0..MaxAttempts
  BY BusySlot
<1>2. CompareAndSet(run[w].cmd, from, to, run[w].made + 1, order)
  BY DEF Transition
<1>3. row' \in [Commands -> RowType]
  BY <1>1, <1>2, CompareAndSetFacts DEF TypeInv
<1>4. (IF row[run[w].cmd].status = from THEN next ELSE "threw") \in Steps
  BY DEF Steps
<1> QED
  BY <1>2, <1>3, <1>4 DEF Transition

LEMMA FailureStatusFacts ==
  ASSUME NEW w \in Workers
  PROVE  /\ FailureStatus(w) \in {"FAILED", "DEAD_LETTER", "RETRYING"}
         /\ FailureStatus(w) \in OrderJobStatus
         /\ RethrownError(FailureStatus(w)) \in {"threw", "unrecoverable"}
BY DEF FailureStatus, RethrownError, OrderJobStatus, Settled

-----------------------------------------------------------------------------
(* Type correctness *)

LEMMA InitTypeInv == Init => TypeInv
<1> SUFFICES ASSUME Init PROVE TypeInv
  OBVIOUS
<1>1. AbsentJob \in JobType /\ IdleRun \in RunType
  BY LimitsAssumption DEF AbsentJob, IdleRun, JobType, RunType, JobStates, Steps
<1>2. [status |-> "NONE", body |-> None, attempts |-> 0, order |-> 0] \in RowType
  BY LimitsAssumption DEF RowType
<1>3. TypeOK
  BY <1>1, <1>2 DEF Init, TypeOK
<1>4. WellFormed
  BY DEF Init, WellFormed, AbsentJob, IdleRun
<1> QED
  BY <1>3, <1>4 DEF TypeInv

(* A step that only moves one busy slot on keeps every type. *)
LEMMA GotoTypeInv ==
  ASSUME TypeInv, NEW w \in Workers, run[w].pc # "idle", NEW step \in Steps,
         run' = Goto(w, step)
  PROVE  /\ run' \in [Workers -> RunType]
         /\ \A v \in Workers : run'[v].pc # "idle" =>
              run'[v].cmd \in Commands /\ run'[v].body \in Bodies /\ run'[v].made < MaxAttempts
<1>1. run' \in [Workers -> RunType]
  BY GotoFacts DEF TypeInv
<1>2. ASSUME NEW v \in Workers, run'[v].pc # "idle"
      PROVE  run'[v].cmd \in Commands /\ run'[v].body \in Bodies /\ run'[v].made < MaxAttempts
  BY <1>2, GotoFacts DEF TypeInv, WellFormed
<1> QED
  BY <1>1, <1>2

(* Redelivery of an active job keeps its stalls within MaxStalls + 1. *)
LEMMA RedeliveredFacts ==
  ASSUME TypeInv, NEW c \in Commands, job[c].state = "active"
  PROVE  /\ Redelivered(job[c]) \in JobType
         /\ Redelivered(job[c]).state \in {"waiting", "failed"}
         /\ Redelivered(job[c]).body = job[c].body
         /\ Redelivered(job[c]).made = job[c].made
         /\ Redelivered(job[c]).state = "waiting" => Redelivered(job[c]).stalls <= MaxStalls
<1> DEFINE j == job[c]
<1>1. j \in JobType /\ j.stalls \in Nat /\ j.stalls <= MaxStalls
  BY LimitsAssumption DEF TypeInv, TypeOK, WellFormed, JobType
<1>2. j.stalls + 1 \in 0..(MaxStalls + 1)
  BY <1>1, LimitsAssumption
<1> HIDE DEF j
<1>3. Redelivered(j) \in JobType
  BY <1>1, <1>2 DEF Redelivered, JobType, JobStates
<1>4. /\ Redelivered(j).state \in {"waiting", "failed"}
      /\ Redelivered(j).body = j.body
      /\ Redelivered(j).made = j.made
  BY <1>1 DEF Redelivered, JobType
<1>5. Redelivered(j).state = "waiting" => Redelivered(j).stalls <= MaxStalls
  BY <1>1, LimitsAssumption DEF Redelivered, JobType
<1> QED
  BY <1>3, <1>4, <1>5 DEF j

LEMMA FinishedFacts ==
  ASSUME TypeInv, NEW c \in Commands, job[c].state = "active", NEW how
  PROVE  /\ Finished(job[c], how) \in JobType
         /\ Finished(job[c], how).body = job[c].body
         /\ Finished(job[c], how).stalls = job[c].stalls
         /\ Finished(job[c], how).state \in {"completed", "waiting", "failed"}
         /\ (Finished(job[c], how).state = "completed") <=> (how = "returned")
         /\ Finished(job[c], how).state = "waiting" =>
              Finished(job[c], how).made < MaxAttempts
<1> DEFINE j == job[c]
<1>1. j \in JobType /\ j.made \in Nat /\ j.made < MaxAttempts
  BY LimitsAssumption DEF TypeInv, TypeOK, WellFormed, JobType
<1>2. j.made + 1 \in 0..MaxAttempts
  BY <1>1, LimitsAssumption
<1> HIDE DEF j
<1>3. Finished(j, how) \in JobType
  BY <1>1, <1>2 DEF Finished, JobType, JobStates
<1>4. /\ Finished(j, how).body = j.body
      /\ Finished(j, how).stalls = j.stalls
      /\ Finished(j, how).made = j.made + 1
  BY <1>1 DEF Finished, JobType
<1>5. /\ Finished(j, how).state \in {"completed", "waiting", "failed"}
      /\ (Finished(j, how).state = "completed") <=> (how = "returned")
      /\ Finished(j, how).state = "waiting" => j.made + 1 < MaxAttempts
  BY <1>1 DEF Finished, JobType
<1> QED
  BY <1>3, <1>4, <1>5 DEF j

LEMMA NextTypeInv == TypeInv /\ [Next]_vars => TypeInv'
<1> SUFFICES ASSUME TypeInv, [Next]_vars PROVE TypeInv'
  OBVIOUS
<1> USE DEF TypeInv
<1>1. ASSUME NEW k \in Clientes, FillCart(k) PROVE TypeInv'
  BY <1>1 DEF FillCart, TypeOK, WellFormed
<1>2. ASSUME NEW c \in Commands, NEW b \in Bodies, Submit(c, b) PROVE TypeInv'
  <2>1. NewJob(b) \in JobType
    BY LimitsAssumption DEF NewJob, JobType, JobStates
  <2>2. TypeOK'
    BY <1>2, <2>1 DEF Submit, TypeOK, database
  <2>3. WellFormed'
    BY <1>2, LimitsAssumption DEF Submit, TypeOK, WellFormed, database, NewJob
  <2> QED
    BY <2>2, <2>3
<1>3. ASSUME NEW c \in Commands, PruneCompleted(c) PROVE TypeInv'
  <2>1. AbsentJob \in JobType
    BY LimitsAssumption DEF AbsentJob, JobType, JobStates
  <2>2. TypeOK'
    BY <1>3, <2>1 DEF PruneCompleted, TypeOK, database
  <2>3. WellFormed'
    BY <1>3 DEF PruneCompleted, TypeOK, WellFormed, database, AbsentJob
  <2> QED
    BY <2>2, <2>3
<1>4. ASSUME NEW c \in Commands, job[c].state = "active", faults' \in Nat,
             job' = [job EXCEPT ![c] = Redelivered(@)], UNCHANGED <<run, database>>
      PROVE  TypeInv'
  <2>1. TypeOK'
    BY <1>4, RedeliveredFacts DEF TypeOK, database
  <2>2. WellFormed'
    BY <1>4, RedeliveredFacts DEF TypeOK, WellFormed, database
  <2> QED
    BY <2>1, <2>2
<1>5. ASSUME NEW w \in Workers, NEW c \in Commands, Take(w, c) PROVE TypeInv'
  <2>1. job[c].body \in Bodies /\ job[c].made \in 0..MaxAttempts /\ job[c].made < MaxAttempts
    BY <1>5 DEF Take, TypeOK, WellFormed, JobType
  <2>2. NewRun(c) \in RunType /\ NewRun(c).cmd = c /\ NewRun(c).body = job[c].body
        /\ NewRun(c).made = job[c].made
    BY <2>1 DEF NewRun, RunType, Steps
  <2>3. job' \in [Commands -> JobType]
    BY <1>5 DEF Take, TypeOK, JobType, JobStates
  <2>4. TypeOK'
    BY <1>5, <2>2, <2>3 DEF Take, TypeOK, database
  <2>5. WellFormed'
    BY <1>5, <2>1, <2>2, <2>3 DEF Take, TypeOK, WellFormed, database, JobType
  <2> QED
    BY <2>4, <2>5
<1>6. ASSUME NEW w \in Workers, Register(w) PROVE TypeInv'
  <2>1. PICK step \in Steps : run' = Goto(w, step)
    BY <1>6 DEF Register, Steps
  <2>2. run[w].cmd \in Commands /\ run[w].body \in Bodies
    BY <1>6, BusySlot DEF Register
  <2>3. row' \in [Commands -> RowType]
    BY <1>6, <2>2 DEF Register, TypeOK, RowType, OrderJobStatus
  <2> QED
    BY <1>6, <2>1, <2>3, GotoTypeInv DEF Register, TypeOK, WellFormed
(* The steps that change the row by transitionStatus(). *)
<1>7. ASSUME NEW w \in Workers, run[w].pc # "idle", NEW from, NEW to \in OrderJobStatus,
             NEW order \in Nat, NEW next \in Steps, Transition(w, from, to, order, next),
             faults' \in Nat, UNCHANGED <<job, cart, nextCart, orders, counter>>
      PROVE  TypeInv'
  <2>1. PICK step \in Steps : run' = Goto(w, step)
    BY <1>7, TransitionFacts
  <2>2. row' \in [Commands -> RowType]
    BY <1>7, TransitionFacts
  <2> QED
    BY <1>7, <2>1, <2>2, GotoTypeInv DEF TypeOK, WellFormed
<1>8. ASSUME NEW w \in Workers, Claim(w) PROVE TypeInv'
  BY <1>7, <1>8 DEF Claim, OrderJobStatus, Steps, TypeOK
<1>9. ASSUME NEW w \in Workers, Checkout(w) PROVE TypeInv'
  <2>1. run' \in [Workers -> RunType]
    <3>1. CASE run' = Goto(w, "rejected")
      BY <3>1, GotoFacts DEF Steps
    <3>2. CASE run' = [run EXCEPT ![w].pc = "validate",
                                  ![w].cart = cart[ClienteOf[run[w].cmd]]]
      <4>1. cart[ClienteOf[run[w].cmd]] \in Nat
        BY <1>9, BusySlot, CommandsAssumption DEF Checkout, TypeOK
      <4>2. \A found \in Nat :
              [run EXCEPT ![w].pc = "validate", ![w].cart = found] \in [Workers -> RunType]
        BY DEF TypeOK, RunType, Steps
      <4> QED
        BY <3>2, <4>1, <4>2
    <3> QED
      BY <1>9, <3>1, <3>2 DEF Checkout
  <2>2. \A v \in Workers : /\ run'[v].cmd = run[v].cmd /\ run'[v].body = run[v].body
                           /\ run'[v].made = run[v].made
                           /\ run'[v].pc # "idle" => run[v].pc # "idle"
    BY <1>9, GotoFacts DEF Checkout, TypeOK, RunType, Goto
  <2> QED
    BY <1>9, <2>1, <2>2 DEF Checkout, TypeOK, WellFormed, database
<1>10. ASSUME NEW w \in Workers, Validate(w) PROVE TypeInv'
  <2>1. PICK step \in Steps : run' = Goto(w, step)
    BY <1>10 DEF Validate, Steps
  <2> QED
    BY <1>10, <2>1, GotoTypeInv DEF Validate, TypeOK, WellFormed, database
<1>11. ASSUME NEW w \in Workers, run[w].pc # "idle", PlaceOrder(w)
       PROVE  /\ cart' \in [Clientes -> Nat] /\ orders' \subseteq OrderType /\ counter' \in Nat
  <2>1. run[w].cmd \in Commands /\ run[w].body \in Bodies /\ run[w].cart \in Nat
    BY <1>11, BusySlot
  <2>2. [cmd |-> run[w].cmd, body |-> run[w].body, cart |-> run[w].cart,
         numero |-> counter + 1] \in OrderType
    BY <2>1 DEF TypeOK, OrderType
  <2>3. \A x \in OrderType : orders \cup {x} \subseteq OrderType
    BY DEF TypeOK
  <2>4. orders' \subseteq OrderType
    BY <1>11, <2>2, <2>3 DEF PlaceOrder
  <2>5. cart' = [cart EXCEPT ![ClienteOf[run[w].cmd]] = 0] /\ counter' = counter + 1
    BY <1>11 DEF PlaceOrder
  <2>6. cart' \in [Clientes -> Nat]
    BY <2>5 DEF TypeOK
  <2>7. counter' \in Nat
    BY <2>5 DEF TypeOK
  <2> QED
    BY <2>4, <2>6, <2>7
<1>12. ASSUME NEW w \in Workers, Commit(w) PROVE TypeInv'
  <2>1. CASE ~CartStillThere(w)
    BY <1>12, <2>1, GotoTypeInv DEF Commit, Rollback, TypeOK, WellFormed, Steps
  <2>2. CASE CartStillThere(w)
    <3>1. cart' \in [Clientes -> Nat] /\ orders' \subseteq OrderType /\ counter' \in Nat
      BY <1>11, <1>12, <2>2 DEF Commit
    <3>2. run' \in [Workers -> RunType]
      BY <1>12, <2>2 DEF Commit, TypeOK, RunType, Steps
    <3>3. \A v \in Workers : /\ run'[v].cmd = run[v].cmd /\ run'[v].body = run[v].body
                             /\ run'[v].made = run[v].made
                             /\ run'[v].pc # "idle" => run[v].pc # "idle"
      BY <1>12, <2>2 DEF Commit, TypeOK, RunType
    <3> QED
      BY <1>12, <3>1, <3>2, <3>3 DEF Commit, TypeOK, WellFormed
  <2> QED
    BY <2>1, <2>2
<1>13. ASSUME NEW w \in Workers, Complete(w) PROVE TypeInv'
  <2>1. run[w].order \in Nat
    BY <1>13, BusySlot DEF Complete
  <2> QED
    BY <1>7, <1>13, <2>1 DEF Complete, OrderJobStatus, Settled, Steps, TypeOK
<1>14. ASSUME NEW w \in Workers, HandleFailure(w) PROVE TypeInv'
  <2>1. RethrownError(FailureStatus(w)) \in Steps
    BY FailureStatusFacts DEF Steps
  <2> QED
    BY <1>7, <1>14, <2>1, FailureStatusFacts DEF HandleFailure, TypeOK
<1>15. ASSUME NEW w \in Workers, Settle(w) PROVE TypeInv'
  <2> DEFINE c == run[w].cmd
  <2>1. c \in Commands
    BY <1>15, BusySlot DEF Settle
  <2>2. job' \in [Commands -> JobType]
    BY <1>15, <2>1, FinishedFacts DEF Settle, TypeOK
  <2>3. IdleRun \in RunType
    BY LimitsAssumption DEF IdleRun, RunType, Steps
  <2>4. TypeOK'
    BY <1>15, <2>2, <2>3 DEF Settle, TypeOK, database
  <2>5. WellFormed'
    <3>1. \A d \in Commands : job'[d].state \in {"waiting", "active"} =>
             job'[d].body \in Bodies /\ job'[d].made < MaxAttempts /\ job'[d].stalls <= MaxStalls
      BY <1>15, <2>1, FinishedFacts DEF Settle, TypeOK, WellFormed
    <3> QED
      BY <1>15, <3>1 DEF Settle, TypeOK, WellFormed, IdleRun
  <2> QED
    BY <2>4, <2>5
<1>16. ASSUME NEW w \in Workers, Crash(w) PROVE TypeInv'
  <2>1. IdleRun \in RunType
    BY LimitsAssumption DEF IdleRun, RunType, Steps
  <2> QED
    BY <1>16, <2>1 DEF Crash, Fault, TypeOK, WellFormed, IdleRun, database
<1>17. ASSUME NEW w \in Workers, DbError(w) PROVE TypeInv'
  <2>1. PICK step \in Steps : run' = Goto(w, step)
    BY <1>17 DEF DbError, AfterDbError, Steps
  <2> QED
    BY <1>17, <2>1, GotoTypeInv DEF DbError, Holding, Fault, TypeOK, WellFormed, database
<1>18. ASSUME NEW w \in Workers, RereadError(w) PROVE TypeInv'
  <2>1. faults' \in Nat /\ UNCHANGED <<job, cart, nextCart, orders, counter>>
    BY <1>18 DEF RereadError, Fault, TypeOK
  <2>2. CASE run[w].pc = "claim" /\ Transition(w, ClaimFrom(w), "PROCESSING", 0, "threw")
    BY <1>7, <2>1, <2>2 DEF OrderJobStatus, Steps
  <2>3. CASE run[w].pc = "complete"
             /\ Transition(w, "PROCESSING", "COMPLETED", run[w].order, "threw")
    <3>1. run[w].order \in Nat
      BY <2>3, BusySlot
    <3> QED
      BY <1>7, <2>1, <2>3, <3>1 DEF OrderJobStatus, Settled, Steps
  <2>4. CASE run[w].pc \in {"rejected", "failed"}
             /\ Transition(w, "PROCESSING", FailureStatus(w), 0, "threw")
    BY <1>7, <2>1, <2>4, FailureStatusFacts DEF Steps
  <2> QED
    BY <1>18, <2>2, <2>3, <2>4 DEF RereadError
<1>19. ASSUME NEW w \in Workers, CommitAckLost(w) PROVE TypeInv'
  <2>1. cart' \in [Clientes -> Nat] /\ orders' \subseteq OrderType /\ counter' \in Nat
    BY <1>11, <1>19 DEF CommitAckLost
  <2> QED
    BY <1>19, <2>1, GotoTypeInv DEF CommitAckLost, Fault, TypeOK, WellFormed, Steps
<1>20. CASE RedisLoss
  <2>1. AbsentJob \in JobType
    BY LimitsAssumption DEF AbsentJob, JobType, JobStates
  <2> QED
    BY <1>20, <2>1 DEF RedisLoss, Fault, TypeOK, WellFormed, AbsentJob, database
<1>21. CASE UNCHANGED vars
  BY <1>21 DEF vars, TypeOK, WellFormed
<1>22. ASSUME NEW c \in Commands, RecoverStalled(c) \/ FalseStall(c) PROVE TypeInv'
  BY <1>4, <1>22 DEF RecoverStalled, FalseStall, Fault, TypeOK
<1> QED
  BY <1>1, <1>2, <1>3, <1>5, <1>6, <1>8, <1>9, <1>10, <1>12, <1>13, <1>14, <1>15, <1>16,
     <1>17, <1>18, <1>19, <1>20, <1>21, <1>22 DEF Next, WorkerStep, WorkerFault

(* Every reachable state of the queue, the rows and the workers is well    *)
(* typed, and attempts and stalls stay within their limits.                *)
THEOREM Typed == Spec => []TypeOK
<1>1. Spec => []TypeInv
  BY InitTypeInv, NextTypeInv, PTL DEF Spec
<1>2. TypeInv => TypeOK
  BY DEF TypeInv
<1> QED
  BY <1>1, <1>2, PTL

(* Both invariants of a well-typed behaviour, in the form later proofs use. *)
LEMMA TypedWell == Spec => []TypeInv
BY InitTypeInv, NextTypeInv, PTL DEF Spec

-----------------------------------------------------------------------------
(* The claim is exclusive *)

(* Each step of the system is, for the claims and the orders, of one of     *)
(* five kinds. Quiet: no row and no order changes, and no slot gets past    *)
(* the claim or into "complete".                                            *)
Quiet ==
  /\ UNCHANGED <<row, orders>>
  /\ \A v \in Workers : run'[v].pc \in Holding =>
       /\ run[v].pc \in Holding
       /\ run'[v].cmd = run[v].cmd
       /\ run'[v].order = run[v].order
       /\ run'[v].pc = "complete" <=> run[v].pc = "complete"

(* Registering: a row that was not there becomes PENDING with the body of  *)
(* the attempt that registers it, or none changes.                         *)
Registering ==
  /\ UNCHANGED orders
  /\ \E c \in Commands :
       /\ \A d \in Commands : d # c => row'[d] = row[d]
       /\ \/ row'[c] = row[c]
          \/ /\ row[c].status = "NONE"
             /\ row'[c].status = "PENDING"
             /\ \E w \in Workers : /\ run[w].pc = "register"
                                   /\ run[w].cmd = c
                                   /\ row'[c].body = run[w].body
  /\ \A v \in Workers : run'[v].pc \in Holding => run'[v] = run[v]

(* Claiming: slot w wants the row of its command, and gets it, hears         *)
(* nothing of getting it, or misses it.                                      *)
Claiming(w) ==
  LET c == run[w].cmd IN
  /\ run[w].pc = "claim"
  /\ UNCHANGED orders
  /\ \A d \in Commands : d # c => row'[d] = row[d]
  /\ \A v \in Workers : v # w => run'[v] = run[v]
  /\ run'[w].cmd = c
  /\ row'[c].body = row[c].body
  /\ \/ /\ row[c].status \in {"PENDING", "RETRYING"}
        /\ row'[c].status = "PROCESSING"
        /\ run'[w].pc \in {"checkout", "threw"}
     \/ row'[c] = row[c] /\ run'[w].pc = "threw"

(* Reporting: a slot past the claim ends it with a new status of the row.    *)
Reporting(w) ==
  LET c == run[w].cmd IN
  /\ run[w].pc \in {"complete", "rejected", "failed"}
  /\ UNCHANGED orders
  /\ \A d \in Commands : d # c => row'[d] = row[d]
  /\ \A v \in Workers : v # w => run'[v] = run[v]
  /\ run'[w].pc \notin Holding
  /\ row'[c].body = row[c].body
  /\ \/ row[c].status # "PROCESSING" /\ row'[c] = row[c]
     \/ /\ row[c].status = "PROCESSING"
        /\ run[w].pc = "complete" => /\ row'[c].status = "COMPLETED"
                                     /\ run[w].order # 0 => row'[c].order = run[w].order
        /\ run[w].pc # "complete" => row'[c].status \in {"FAILED", "DEAD_LETTER", "RETRYING"}

(* Placing: the order is committed, and known to be.                         *)
Placing(w) ==
  LET o == [cmd |-> run[w].cmd, body |-> run[w].body,
            cart |-> run[w].cart, numero |-> counter + 1] IN
  /\ run[w].pc = "commit"
  /\ UNCHANGED row
  /\ orders' = orders \cup {o}
  /\ \A v \in Workers : v # w => run'[v] = run[v]
  /\ run'[w].cmd = run[w].cmd
  /\ \/ run'[w].pc = "complete" /\ run'[w].order = counter + 1
     \/ run'[w].pc = "failed" /\ "ack" \in Faults

LEMMA GotoQuiet ==
  ASSUME TypeInv, NEW w \in Workers, NEW step \in Steps, run' = Goto(w, step),
         UNCHANGED <<row, orders>>,
         step \in Holding => run[w].pc \in Holding \ {"complete"} /\ step # "complete"
  PROVE  Quiet
BY GotoFacts DEF Quiet, TypeInv

LEMMA FreedQuiet ==
  ASSUME TypeInv, NEW w \in Workers, NEW r \in RunType, r.pc \notin Holding,
         run' = [run EXCEPT ![w] = r], UNCHANGED <<row, orders>>
  PROVE  Quiet
BY DEF Quiet, TypeInv, TypeOK

LEMMA IdleIsFree == IdleRun \in RunType /\ IdleRun.pc \notin Holding
BY LimitsAssumption DEF IdleRun, RunType, Steps, Holding

LEMMA ClaimIsClaiming ==
  ASSUME TypeInv, NEW w \in Workers, run[w].pc = "claim", NEW next \in {"checkout", "threw"},
         Transition(w, ClaimFrom(w), "PROCESSING", 0, next), UNCHANGED orders
  PROVE  Claiming(w)
<1> DEFINE c == run[w].cmd
<1>1. c \in Commands /\ run[w].made + 1 \in 0..MaxAttempts
  BY BusySlot
<1>2. ClaimFrom(w) \in {"PENDING", "RETRYING"}
  BY DEF ClaimFrom
<1>3. CompareAndSet(c, ClaimFrom(w), "PROCESSING", run[w].made + 1, 0)
  BY DEF Transition
<1>4. /\ \A d \in Commands : d # c => row'[d] = row[d]
      /\ row[c].status # ClaimFrom(w) => row' = row
      /\ row[c].status = ClaimFrom(w) => row'[c].status = "PROCESSING"
      /\ row'[c].body = row[c].body
  <2>1. "PROCESSING" \in OrderJobStatus /\ 0 \in Nat /\ TypeOK
    BY DEF OrderJobStatus, TypeInv
  <2> QED
    BY <1>1, <1>3, <2>1, CompareAndSetFacts
<1>5. run' = Goto(w, IF row[c].status = ClaimFrom(w) THEN next ELSE "threw")
  BY DEF Transition
<1>6. PICK step \in Steps : /\ step = IF row[c].status = ClaimFrom(w) THEN next ELSE "threw"
                            /\ run' = Goto(w, step)
  BY <1>5 DEF Steps
<1>7. /\ run'[w].pc = step /\ run'[w].cmd = c
      /\ \A v \in Workers : v # w => run'[v] = run[v]
  BY <1>6, GotoFacts DEF TypeInv
<1> QED
  BY <1>2, <1>4, <1>6, <1>7 DEF Claiming

LEMMA ReportIsReporting ==
  ASSUME TypeInv, NEW w \in Workers, run[w].pc \in {"complete", "rejected", "failed"},
         NEW to \in OrderJobStatus, NEW order \in Nat,
         NEW next \in {"returned", "threw", "unrecoverable"},
         Transition(w, "PROCESSING", to, order, next), UNCHANGED orders,
         run[w].pc = "complete" => to = "COMPLETED" /\ order = run[w].order,
         run[w].pc # "complete" => to \in {"FAILED", "DEAD_LETTER", "RETRYING"}
  PROVE  Reporting(w)
<1> DEFINE c == run[w].cmd
<1>1. c \in Commands /\ run[w].made + 1 \in 0..MaxAttempts
  BY BusySlot
<1>2. CompareAndSet(c, "PROCESSING", to, run[w].made + 1, order)
  BY DEF Transition
<1>3. /\ \A d \in Commands : d # c => row'[d] = row[d]
      /\ row[c].status # "PROCESSING" => row' = row
      /\ row[c].status = "PROCESSING" => /\ row'[c].status = to
                                         /\ order # 0 => row'[c].order = order
      /\ row'[c].body = row[c].body
  <2>1. TypeOK
    BY DEF TypeInv
  <2> HIDE DEF c
  <2> DEFINE attempt == run[w].made + 1
  <2>3. attempt \in 0..MaxAttempts /\ CompareAndSet(c, "PROCESSING", to, attempt, order)
    BY <1>1, <1>2
  <2> HIDE DEF attempt
  <2> QED
    BY <1>1, <2>1, <2>3, CompareAndSetFacts
<1>4. run' = Goto(w, IF row[c].status = "PROCESSING" THEN next ELSE "threw")
  BY DEF Transition
<1>5. PICK step \in {"returned", "threw", "unrecoverable"} : run' = Goto(w, step)
  BY <1>4
<1>6. run'[w].pc \notin Holding /\ \A v \in Workers : v # w => run'[v] = run[v]
  BY <1>5, GotoFacts DEF TypeInv, Steps, Holding
<1> QED
  BY <1>3, <1>6 DEF Reporting

(* Every step is of one of the five kinds. *)
LEMMA KindsOfStep ==
  ASSUME TypeInv, [Next]_vars
  PROVE  \/ Quiet
         \/ Registering
         \/ \E w \in Workers : Claiming(w) \/ Reporting(w) \/ Placing(w)
<1> DEFINE Goal == \/ Quiet
                   \/ Registering
                   \/ \E w \in Workers : Claiming(w) \/ Reporting(w) \/ Placing(w)
<1>1. ASSUME UNCHANGED <<row, run, orders>> PROVE Goal
  BY <1>1 DEF Quiet
<1>2. ASSUME NEW w \in Workers, NEW c \in Commands, Take(w, c) PROVE Goal
  <2>1. job[c].body \in Bodies /\ job[c].made \in 0..MaxAttempts
    BY <1>2 DEF Take, TypeInv, TypeOK, WellFormed, JobType
  <2>2. NewRun(c) \in RunType /\ NewRun(c).pc \notin Holding
    BY <2>1 DEF NewRun, RunType, Steps, Holding
  <2> QED
    BY <1>2, <2>2, FreedQuiet DEF Take, database
<1>3. ASSUME NEW w \in Workers, Register(w) PROVE Goal
  <2> DEFINE c == run[w].cmd
  <2>1. c \in Commands
    BY <1>3, BusySlot DEF Register
  <2>2. PICK step \in {"claim", "threw"} : run' = Goto(w, step)
    BY <1>3 DEF Register
  <2>3. \A v \in Workers : run'[v].pc \in Holding => run'[v] = run[v]
    <3>1. step \in Steps /\ step \notin Holding /\ TypeOK
      BY DEF TypeInv, Steps, Holding
    <3> QED
      BY <2>2, <3>1, GotoFacts
  <2>4. /\ \A d \in Commands : d # c => row'[d] = row[d]
        /\ \/ row'[c] = row[c]
           \/ /\ row[c].status = "NONE"
              /\ row'[c].status = "PENDING"
              /\ row'[c].body = run[w].body
    BY <1>3, <2>1 DEF Register, TypeInv, TypeOK, RowType
  <2> QED
    BY <1>3, <2>1, <2>3, <2>4 DEF Registering, Register
<1>4. ASSUME NEW w \in Workers, Claim(w) PROVE Goal
  BY <1>4, ClaimIsClaiming DEF Claim
<1>5. ASSUME NEW w \in Workers, Checkout(w) PROVE Goal
  <2>1. CASE run' = Goto(w, "rejected")
    BY <1>5, <2>1, GotoQuiet DEF Checkout, database, Steps, Holding
  <2>2. CASE run' = [run EXCEPT ![w].pc = "validate",
                                ![w].cart = cart[ClienteOf[run[w].cmd]]]
    BY <1>5, <2>2 DEF Checkout, database, Quiet, Holding, TypeInv, TypeOK, RunType
  <2> QED
    BY <1>5, <2>1, <2>2 DEF Checkout
<1>6. ASSUME NEW w \in Workers, Validate(w) PROVE Goal
  <2>1. PICK step \in {"commit", "failed", "rejected"} : run' = Goto(w, step)
    BY <1>6 DEF Validate
  <2> QED
    BY <1>6, <2>1, GotoQuiet DEF Validate, database, Steps, Holding
<1>7. ASSUME NEW w \in Workers, Commit(w) PROVE Goal
  <2>1. CASE ~CartStillThere(w)
    BY <1>7, <2>1, GotoQuiet DEF Commit, Rollback, Steps, Holding
  <2>2. CASE CartStillThere(w)
    <3>1. run' = [run EXCEPT ![w].pc = "complete", ![w].order = counter + 1]
      BY <1>7, <2>2 DEF Commit
    <3>2. /\ \A v \in Workers : v # w => run'[v] = run[v]
          /\ run'[w].pc = "complete" /\ run'[w].cmd = run[w].cmd
          /\ run'[w].order = counter + 1
      BY <3>1 DEF TypeInv, TypeOK, RunType
    <3> QED
      BY <1>7, <2>2, <3>2 DEF Commit, PlaceOrder, Placing
  <2> QED
    BY <2>1, <2>2
<1>8. ASSUME NEW w \in Workers, Complete(w) PROVE Goal
  <2>1. run[w].order \in Nat
    BY <1>8, BusySlot DEF Complete
  <2> QED
    BY <1>8, <2>1, ReportIsReporting DEF Complete, OrderJobStatus, Settled
<1>9. ASSUME NEW w \in Workers, HandleFailure(w) PROVE Goal
  BY <1>9, ReportIsReporting, FailureStatusFacts DEF HandleFailure
<1>10. ASSUME NEW w \in Workers, Settle(w) \/ Crash(w) PROVE Goal
  BY <1>10, IdleIsFree, FreedQuiet DEF Settle, Crash, database
<1>11. ASSUME NEW w \in Workers, DbError(w) PROVE Goal
  <2>1. PICK step \in {"failed", "threw"} :
          /\ step = AfterDbError(run[w].pc)
          /\ run' = Goto(w, step)
    BY <1>11 DEF DbError, AfterDbError
  <2>2. step \in Holding => run[w].pc \in Holding \ {"complete"}
    BY <2>1 DEF AfterDbError, Holding
  <2> QED
    BY <1>11, <2>1, <2>2, GotoQuiet DEF DbError, database, Steps
<1>12. ASSUME NEW w \in Workers, RereadError(w) PROVE Goal
  <2>1. UNCHANGED orders
    BY <1>12 DEF RereadError
  <2>2. CASE run[w].pc = "claim" /\ Transition(w, ClaimFrom(w), "PROCESSING", 0, "threw")
    BY <2>1, <2>2, ClaimIsClaiming
  <2>3. CASE run[w].pc = "complete"
             /\ Transition(w, "PROCESSING", "COMPLETED", run[w].order, "threw")
    <3>1. run[w].order \in Nat
      BY <2>3, BusySlot
    <3> QED
      BY <2>1, <2>3, <3>1, ReportIsReporting DEF OrderJobStatus, Settled
  <2>4. CASE run[w].pc \in {"rejected", "failed"}
             /\ Transition(w, "PROCESSING", FailureStatus(w), 0, "threw")
    BY <2>1, <2>4, ReportIsReporting, FailureStatusFacts
  <2> QED
    BY <1>12, <2>2, <2>3, <2>4 DEF RereadError
<1>13. ASSUME NEW w \in Workers, CommitAckLost(w) PROVE Goal
  <2>1. /\ \A v \in Workers : v # w => run'[v] = run[v]
        /\ run'[w].pc = "failed" /\ run'[w].cmd = run[w].cmd
    BY <1>13, GotoFacts DEF CommitAckLost, TypeInv, Steps
  <2> QED
    BY <1>13, <2>1 DEF CommitAckLost, PlaceOrder, Placing, Fault
<1> QED
  BY <1>1, <1>2, <1>3, <1>4, <1>5, <1>6, <1>7, <1>8, <1>9, <1>10, <1>11, <1>12, <1>13
  DEF Next, WorkerStep, WorkerFault, vars, database, FillCart, Submit, PruneCompleted,
      RecoverStalled, FalseStall, RedisLoss

LEMMA InitClaim == Init => ClaimIsExclusive
BY DEF Init, ClaimIsExclusive, IdleRun, Holding

LEMMA NextClaim == TypeInv /\ ClaimIsExclusive /\ [Next]_vars => ClaimIsExclusive'
<1> SUFFICES ASSUME TypeInv, ClaimIsExclusive, [Next]_vars PROVE ClaimIsExclusive'
  OBVIOUS
<1>0. \A v \in Workers : run[v].pc \in Holding => run[v].cmd \in Commands
  BY BusySlot DEF Holding
<1>1. CASE Quiet
  BY <1>1 DEF Quiet, ClaimIsExclusive
<1>2. CASE Registering
  BY <1>0, <1>2 DEF Registering, ClaimIsExclusive
<1>3. ASSUME NEW w \in Workers, Claiming(w) PROVE ClaimIsExclusive'
  <2>1. run[w].cmd \in Commands /\ run[w].pc \notin Holding
    BY <1>3, BusySlot DEF Claiming, Holding
  <2> QED
    BY <1>0, <1>3, <2>1 DEF Claiming, ClaimIsExclusive, Holding
<1>4. ASSUME NEW w \in Workers, Reporting(w) PROVE ClaimIsExclusive'
  <2>1. run[w].cmd \in Commands /\ run[w].pc \in Holding
    BY <1>4, BusySlot DEF Reporting, Holding
  <2> QED
    BY <1>0, <1>4, <2>1 DEF Reporting, ClaimIsExclusive
<1>5. ASSUME NEW w \in Workers, Placing(w) PROVE ClaimIsExclusive'
  BY <1>0, <1>5 DEF Placing, ClaimIsExclusive, Holding
<1> QED
  BY <1>1, <1>2, <1>3, <1>4, <1>5, KindsOfStep

(* Whatever is delivered twice, crashes, stalls or is lost: at most one slot *)
(* is between the claim of a tracking row and the report of its outcome, and *)
(* the row says PROCESSING meanwhile.                                        *)
THEOREM Exclusive == Spec => []ClaimIsExclusive
<1>1. Init => TypeInv /\ ClaimIsExclusive
  BY InitTypeInv, InitClaim
<1>2. TypeInv /\ ClaimIsExclusive /\ [Next]_vars => (TypeInv /\ ClaimIsExclusive)'
  BY NextTypeInv, NextClaim
<1> QED
  BY <1>1, <1>2, PTL DEF Spec

-----------------------------------------------------------------------------
(* One order per command, and a truthful report *)

(* A slot that is about to report the order holds its number.               *)
CompleteHasOrder ==
  \A w \in Workers : run[w].pc = "complete" =>
    /\ run[w].order # 0
    /\ \E o \in orders : o.cmd = run[w].cmd /\ o.numero = run[w].order

(* Once a command has its order, its row has not moved on to anything that  *)
(* could be claimed again, and the slot that still holds it reports it.     *)
OrderedRow ==
  \A o \in orders :
    /\ row[o.cmd].status \in {"PROCESSING", "COMPLETED"}
    /\ \A w \in Workers :
         run[w].pc \in Holding /\ run[w].cmd = o.cmd => run[w].pc = "complete"

(* A completed row points at the order of its command.                      *)
CompletedHasOrder ==
  \A c \in Commands : row[c].status = "COMPLETED" =>
    \E o \in orders : o.cmd = c /\ o.numero = row[c].order

OrderInv ==
  /\ TypeInv
  /\ ClaimIsExclusive
  /\ CompleteHasOrder
  /\ OrderedRow
  /\ CompletedHasOrder
  /\ AtMostOneOrder

LEMMA InitOrderInv == Init => OrderInv
<1> SUFFICES ASSUME Init PROVE OrderInv
  OBVIOUS
<1>1. TypeInv /\ ClaimIsExclusive
  BY InitTypeInv, InitClaim
<1>2. CompleteHasOrder /\ OrderedRow /\ CompletedHasOrder /\ AtMostOneOrder
  BY DEF Init, IdleRun, CompleteHasOrder, OrderedRow, CompletedHasOrder, AtMostOneOrder
<1> QED
  BY <1>1, <1>2 DEF OrderInv

LEMMA NextOrderInv ==
  ASSUME "ack" \notin Faults, OrderInv, [Next]_vars PROVE OrderInv'
<1> USE DEF OrderInv
<1> DEFINE New == CompleteHasOrder' /\ OrderedRow' /\ CompletedHasOrder' /\ AtMostOneOrder'
<1>1. TypeInv' /\ ClaimIsExclusive'
  BY NextTypeInv, NextClaim
<1>2. \A v \in Workers : run[v].pc \in Holding => run[v].cmd \in Commands
  BY BusySlot DEF Holding
<1>3. \A o \in orders : o.cmd \in Commands
  BY DEF TypeInv, TypeOK, OrderType
<1>4. CASE Quiet
  <2>1. CompleteHasOrder'
    BY <1>4 DEF Quiet, CompleteHasOrder, Holding
  <2>2. OrderedRow'
    BY <1>4 DEF Quiet, OrderedRow
  <2>3. CompletedHasOrder' /\ AtMostOneOrder'
    BY <1>4 DEF Quiet, CompletedHasOrder, AtMostOneOrder
  <2> QED
    BY <1>1, <2>1, <2>2, <2>3
<1>5. CASE Registering
  <2>1. CompleteHasOrder'
    BY <1>5 DEF Registering, CompleteHasOrder, Holding
  <2>2. OrderedRow'
    BY <1>3, <1>5 DEF Registering, OrderedRow
  <2>3. CompletedHasOrder' /\ AtMostOneOrder'
    BY <1>5 DEF Registering, CompletedHasOrder, AtMostOneOrder
  <2> QED
    BY <1>1, <2>1, <2>2, <2>3
<1>6. ASSUME NEW w \in Workers, Claiming(w) PROVE OrderInv'
  <2> DEFINE c == run[w].cmd
  <2>1. c \in Commands
    BY <1>6, BusySlot DEF Claiming
  <2>2. CompleteHasOrder'
    BY <1>6 DEF Claiming, CompleteHasOrder
  <2>3. OrderedRow'
    <3>1. CASE row[c].status \in {"PENDING", "RETRYING"}
      <4>1. \A o \in orders : o.cmd # c
        BY <3>1 DEF OrderedRow
      <4> QED
        BY <1>3, <1>6, <4>1 DEF Claiming, OrderedRow
    <3>2. CASE row'[c] = row[c] /\ run'[w].pc = "threw"
      BY <1>3, <1>6, <3>2 DEF Claiming, OrderedRow, Holding
    <3> QED
      BY <1>6, <3>1, <3>2 DEF Claiming
  <2>4. CompletedHasOrder' /\ AtMostOneOrder'
    BY <1>6, <2>1 DEF Claiming, CompletedHasOrder, AtMostOneOrder
  <2> QED
    BY <1>1, <2>2, <2>3, <2>4
<1>7. ASSUME NEW w \in Workers, Reporting(w) PROVE OrderInv'
  <2> DEFINE c == run[w].cmd
  <2>1. c \in Commands /\ run[w].pc \in Holding /\ row[c].status = "PROCESSING"
    BY <1>7, BusySlot DEF Reporting, Holding, ClaimIsExclusive
  <2>2. CompleteHasOrder'
    BY <1>7 DEF Reporting, CompleteHasOrder, Holding
  <2>3. run[w].pc # "complete" => \A o \in orders : o.cmd # c
    BY <2>1 DEF OrderedRow
  <2>4. OrderedRow'
    BY <1>3, <1>7, <2>1, <2>3 DEF Reporting, OrderedRow
  <2>5. CompletedHasOrder'
    BY <1>7, <2>1 DEF Reporting, CompletedHasOrder, CompleteHasOrder
  <2>6. AtMostOneOrder'
    BY <1>7 DEF Reporting, AtMostOneOrder
  <2> QED
    BY <1>1, <2>2, <2>4, <2>5, <2>6
<1>8. ASSUME NEW w \in Workers, Placing(w) PROVE OrderInv'
  <2> DEFINE c == run[w].cmd
             o == [cmd |-> c, body |-> run[w].body, cart |-> run[w].cart,
                   numero |-> counter + 1]
  <2>1. run[w].pc = "commit" /\ run[w].pc \in Holding /\ c \in Commands
    BY <1>8, BusySlot DEF Placing, Holding
  <2>2. /\ row' = row
        /\ orders' = orders \cup {o}
        /\ \A v \in Workers : v # w => run'[v] = run[v]
        /\ run'[w].pc = "complete" /\ run'[w].cmd = c /\ run'[w].order = counter + 1
    BY <1>8 DEF Placing
  <2>3. o.cmd = c /\ o.numero = counter + 1 /\ counter + 1 # 0
    BY DEF TypeInv, TypeOK
  <2>4. \A p \in orders : p.cmd # c
    BY <2>1 DEF OrderedRow
  <2>5. row[c].status = "PROCESSING" /\ \A v \in Workers :
           v # w /\ run[v].pc \in Holding => run[v].cmd # c
    BY <2>1 DEF ClaimIsExclusive
  <2> HIDE DEF o
  <2>6. CompleteHasOrder'
    BY <2>2, <2>3 DEF CompleteHasOrder
  <2>7. OrderedRow'
    BY <2>2, <2>3, <2>4, <2>5 DEF OrderedRow
  <2>8. CompletedHasOrder'
    BY <2>2 DEF CompletedHasOrder
  <2>9. AtMostOneOrder'
    BY <2>2, <2>3, <2>4 DEF AtMostOneOrder
  <2> QED
    BY <1>1, <2>6, <2>7, <2>8, <2>9
<1> QED
  BY <1>4, <1>5, <1>6, <1>7, <1>8, KindsOfStep

LEMMA OrderInvHolds == ASSUME "ack" \notin Faults PROVE Spec => []OrderInv
<1>1. OrderInv /\ [Next]_vars => OrderInv'
  BY NextOrderInv
<1> QED
  BY <1>1, InitOrderInv, PTL DEF Spec

(* As long as a checkout's commit is acknowledged, no delivery, retry,       *)
(* stall, crash or resubmission places a second order for a command.         *)
THEOREM OneOrder == "ack" \notin Faults => (Spec => []AtMostOneOrder)
<1> SUFFICES ASSUME "ack" \notin Faults PROVE Spec => []AtMostOneOrder
  OBVIOUS
<1>1. OrderInv => AtMostOneOrder
  BY DEF OrderInv
<1> QED
  BY <1>1, OrderInvHolds, PTL

(* Under the same assumption the tracking row tells the truth about what     *)
(* happened to the command.                                                  *)
THEOREM Truthful == "ack" \notin Faults => (Spec => []TruthfulReport)
<1> SUFFICES ASSUME "ack" \notin Faults PROVE Spec => []TruthfulReport
  OBVIOUS
<1>1. OrderInv => TruthfulReport
  BY DEF OrderInv, TruthfulReport, CompletedHasOrder, OrderedRow
<1> QED
  BY <1>1, OrderInvHolds, PTL

LEMMA SettledStep ==
  ASSUME TypeInv, [Next]_vars, NEW c \in Commands, row[c].status \in Settled
  PROVE  row'[c] = row[c]
BY KindsOfStep DEF Quiet, Registering, Claiming, Reporting, Placing, Settled

(* A settled tracking row is never written again, with any of the faults.    *)
THEOREM SettledFinal == Spec => SettledRowIsFinal
<1>1. TypeInv /\ [Next]_vars =>
        [\A c \in Commands : row[c].status \in Settled => row'[c] = row[c]]_row
  BY SettledStep
<1> QED
  BY <1>1, TypedWell, PTL DEF SettledRowIsFinal, Spec

(* What the job-status endpoint lets the orders page know of a row: the     *)
(* reports of Pedidos.                                                      *)
Polled(r) ==
  CASE r.status = "NONE" -> "absent"
    [] r.status = "COMPLETED" -> "ordered"
    [] r.status \in {"FAILED", "DEAD_LETTER"} -> "refused"
    [] OTHER -> "open"

(* With any of the faults, and whatever is delivered again, the report of a  *)
(* command only goes from absent to open and from open to its end, one of    *)
(* two: what Progress of Pedidos takes the server to do.                     *)
THEOREM ReportsProgress ==
  Spec => [][\A c \in Commands :
               <<Polled(row[c]), Polled(row'[c])>> \in
                 {<<s, s>> : s \in {"absent", "open", "ordered", "refused"}}
                   \cup {<<"absent", "open">>, <<"open", "ordered">>, <<"open", "refused">>}]_row
<1> DEFINE Steady == {<<s, s>> : s \in {"absent", "open", "ordered", "refused"}}
           Moves == {<<"absent", "open">>, <<"open", "ordered">>, <<"open", "refused">>}
           Progresses == \A c \in Commands : <<Polled(row[c]), Polled(row'[c])>> \in Steady \cup Moves
<1>1. TypeInv /\ [Next]_vars => [Progresses]_row
  <2> SUFFICES ASSUME TypeInv, [Next]_vars, NEW c \in Commands
               PROVE  <<Polled(row[c]), Polled(row'[c])>> \in Steady \cup Moves
    OBVIOUS
  <2>1. Polled(row[c]) \in {"absent", "open", "ordered", "refused"}
    BY DEF Polled
  <2>2. CASE row'[c] = row[c]
    BY <2>1, <2>2
  <2>3. CASE row[c].status = "NONE" /\ row'[c].status = "PENDING"
    BY <2>3 DEF Polled
  <2>4. CASE row[c].status \in {"PENDING", "RETRYING"} /\ row'[c].status = "PROCESSING"
    BY <2>4 DEF Polled
  <2>5. CASE row[c].status = "PROCESSING"
             /\ row'[c].status \in {"COMPLETED", "FAILED", "DEAD_LETTER", "RETRYING"}
    BY <2>5 DEF Polled
  <2> QED
    BY <2>2, <2>3, <2>4, <2>5, KindsOfStep DEF Quiet, Registering, Claiming, Reporting, Placing
<1> QED
  BY <1>1, TypedWell, PTL DEF Spec

-----------------------------------------------------------------------------
(* A completed job is reported *)

(* A slot that is about to book its job as done has reported the order.     *)
ReturnedIsReported ==
  \A w \in Workers : run[w].pc = "returned" => row[run[w].cmd].status = "COMPLETED"

ReportInv == TypeInv /\ ReturnedIsReported /\ CompletedJobIsReported

LEMMA TransitionReturns ==
  ASSUME TypeInv, NEW w \in Workers, run[w].pc # "idle", NEW from, NEW to \in OrderJobStatus,
         NEW order \in Nat, NEW next \in Steps, Transition(w, from, to, order, next),
         NEW v \in Workers, run'[v].pc = "returned", run[v].pc # "returned"
  PROVE  next = "returned" /\ v = w /\ run'[v].cmd = run[v].cmd /\ row'[run[v].cmd].status = to
<1>1. PICK step \in Steps :
        /\ step = (IF row[run[w].cmd].status = from THEN next ELSE "threw")
        /\ run' = Goto(w, step)
  BY TransitionFacts DEF Transition, Steps
<1>2. v = w /\ step = "returned" /\ run'[v].cmd = run[v].cmd
  BY <1>1, GotoFacts DEF TypeInv
<1>3. row[run[w].cmd].status = from /\ next = "returned"
  BY <1>1, <1>2
<1>4. row'[run[w].cmd].status = to
  <2>1. run[w].cmd \in Commands /\ run[w].made + 1 \in 0..MaxAttempts /\ TypeOK
    BY BusySlot DEF TypeInv
  <2>2. CompareAndSet(run[w].cmd, from, to, run[w].made + 1, order)
    BY DEF Transition
  <2> QED
    BY <1>3, <2>1, <2>2, CompareAndSetFacts
<1> QED
  BY <1>2, <1>3, <1>4

(* Only the COMPLETED transition lets process() return.                     *)
LEMMA NewlyReturned ==
  ASSUME TypeInv, [Next]_vars, NEW v \in Workers, run'[v].pc = "returned"
  PROVE  \/ run[v].pc = "returned" /\ run'[v].cmd = run[v].cmd
         \/ row'[run'[v].cmd].status = "COMPLETED"
<1> DEFINE Goal == \/ run[v].pc = "returned" /\ run'[v].cmd = run[v].cmd
                   \/ row'[run'[v].cmd].status = "COMPLETED"
<1>1. ASSUME UNCHANGED run PROVE Goal
  BY <1>1
<1>2. ASSUME NEW w \in Workers, NEW step \in Steps \ {"returned"}, run' = Goto(w, step)
      PROVE  Goal
  BY <1>2, GotoFacts DEF TypeInv
<1>3. ASSUME NEW w \in Workers, NEW r \in RunType, r.pc # "returned",
             run' = [run EXCEPT ![w] = r]
      PROVE  Goal
  BY <1>3 DEF TypeInv, TypeOK
<1>4. ASSUME NEW w \in Workers, run[w].pc # "idle", NEW from, NEW to \in OrderJobStatus,
             NEW order \in Nat, NEW next \in Steps, Transition(w, from, to, order, next),
             next # "returned"
      PROVE  Goal
  <2>1. PICK step \in Steps :
          /\ step = (IF row[run[w].cmd].status = from THEN next ELSE "threw")
          /\ run' = Goto(w, step)
    BY <1>4, TransitionFacts DEF Transition, Steps
  <2>2. step # "returned"
    BY <1>4, <2>1
  <2> QED
    BY <1>2, <2>1, <2>2
<1>5. ASSUME NEW w \in Workers, NEW c \in Commands, Take(w, c) PROVE Goal
  <2>1. job[c].body \in Bodies /\ job[c].made \in 0..MaxAttempts
    BY <1>5 DEF Take, TypeInv, TypeOK, WellFormed, JobType
  <2>2. NewRun(c) \in RunType /\ NewRun(c).pc # "returned"
    BY <2>1 DEF NewRun, RunType, Steps
  <2> QED
    BY <1>3, <1>5, <2>2 DEF Take
<1>6. ASSUME NEW w \in Workers, Register(w) \/ Validate(w) \/ DbError(w) \/ CommitAckLost(w)
      PROVE  Goal
  <2>1. PICK step \in Steps \ {"returned"} : run' = Goto(w, step)
    <3>1. CASE Register(w)
      BY <3>1 DEF Register, Steps
    <3>2. CASE Validate(w)
      BY <3>2 DEF Validate, Steps
    <3>3. CASE DbError(w)
      BY <3>3 DEF DbError, AfterDbError, Steps
    <3>4. CASE CommitAckLost(w)
      BY <3>4 DEF CommitAckLost, Steps
    <3> QED
      BY <1>6, <3>1, <3>2, <3>3, <3>4
  <2> QED
    BY <1>2, <2>1
<1>7. ASSUME NEW w \in Workers, Claim(w) PROVE Goal
  BY <1>4, <1>7 DEF Claim, OrderJobStatus, Steps
<1>8. ASSUME NEW w \in Workers, Checkout(w) PROVE Goal
  <2>1. CASE run' = Goto(w, "rejected")
    BY <1>2, <2>1 DEF Steps
  <2>2. CASE run' = [run EXCEPT ![w].pc = "validate",
                                ![w].cart = cart[ClienteOf[run[w].cmd]]]
    BY <2>2 DEF TypeInv, TypeOK, RunType
  <2> QED
    BY <1>8, <2>1, <2>2 DEF Checkout
<1>9. ASSUME NEW w \in Workers, Commit(w) PROVE Goal
  <2>1. CASE run' = Goto(w, "failed")
    BY <1>2, <2>1 DEF Steps
  <2>2. CASE run' = [run EXCEPT ![w].pc = "complete", ![w].order = counter + 1]
    BY <2>2 DEF TypeInv, TypeOK, RunType
  <2> QED
    BY <1>9, <2>1, <2>2 DEF Commit, Rollback
<1>10. ASSUME NEW w \in Workers, Complete(w) PROVE Goal
  <2>1. run[w].order \in Nat /\ "COMPLETED" \in OrderJobStatus /\ "returned" \in Steps
    BY <1>10, BusySlot DEF Complete, OrderJobStatus, Settled, Steps
  <2>2. CASE run[v].pc = "returned"
    <3>1. v # w
      BY <1>10, <2>2 DEF Complete
    <3>2. PICK step \in Steps : run' = Goto(w, step)
      BY <1>10, <2>1, TransitionFacts DEF Complete
    <3> QED
      BY <2>2, <3>1, <3>2, GotoFacts DEF TypeInv
  <2>3. CASE run[v].pc # "returned"
    BY <1>10, <2>1, <2>3, TransitionReturns DEF Complete
  <2> QED
    BY <2>2, <2>3
<1>11. ASSUME NEW w \in Workers, HandleFailure(w) PROVE Goal
  BY <1>4, <1>11, FailureStatusFacts DEF HandleFailure, Steps
<1>12. ASSUME NEW w \in Workers, Settle(w) \/ Crash(w) PROVE Goal
  <2>1. IdleRun \in RunType /\ IdleRun.pc # "returned"
    BY IdleIsFree DEF IdleRun
  <2> QED
    BY <1>3, <1>12, <2>1 DEF Settle, Crash
<1>13. ASSUME NEW w \in Workers, RereadError(w) PROVE Goal
  <2>1. "threw" \in Steps /\ {"PROCESSING", "COMPLETED"} \subseteq OrderJobStatus
    BY DEF Steps, OrderJobStatus, Settled
  <2>2. CASE run[w].pc = "claim" /\ Transition(w, ClaimFrom(w), "PROCESSING", 0, "threw")
    BY <1>4, <2>1, <2>2
  <2>3. CASE run[w].pc = "complete"
             /\ Transition(w, "PROCESSING", "COMPLETED", run[w].order, "threw")
    <3>1. run[w].order \in Nat
      BY <2>3, BusySlot
    <3> QED
      BY <1>4, <2>1, <2>3, <3>1
  <2>4. CASE run[w].pc \in {"rejected", "failed"}
             /\ Transition(w, "PROCESSING", FailureStatus(w), 0, "threw")
    BY <1>4, <2>1, <2>4, FailureStatusFacts
  <2> QED
    BY <1>13, <2>2, <2>3, <2>4 DEF RereadError
<1> QED
  BY <1>1, <1>5, <1>6, <1>7, <1>8, <1>9, <1>10, <1>11, <1>12, <1>13
  DEF Next, WorkerStep, WorkerFault, vars, FillCart, Submit, PruneCompleted,
      RecoverStalled, FalseStall, RedisLoss

(* Only a slot whose attempt returned books a job as completed.             *)
LEMMA NewlyCompleted ==
  ASSUME TypeInv, [Next]_vars, NEW c \in Commands, job'[c].state = "completed"
  PROVE  \/ job[c].state = "completed"
         \/ \E w \in Workers : run[w].pc = "returned" /\ run[w].cmd = c
<1> DEFINE Goal == \/ job[c].state = "completed"
                   \/ \E w \in Workers : run[w].pc = "returned" /\ run[w].cmd = c
<1> USE DEF TypeInv, TypeOK
<1>1. ASSUME UNCHANGED job PROVE Goal
  BY <1>1
<1>2. ASSUME NEW d \in Commands, NEW j \in JobType, j.state # "completed",
             job' = [job EXCEPT ![d] = j]
      PROVE  Goal
  BY <1>2
<1>3. ASSUME NEW d \in Commands, NEW b \in Bodies, Submit(d, b) PROVE Goal
  BY <1>3 DEF Submit, NewJob
<1>4. ASSUME NEW d \in Commands, PruneCompleted(d) PROVE Goal
  BY <1>4 DEF PruneCompleted, AbsentJob
<1>5. ASSUME NEW d \in Commands, RecoverStalled(d) \/ FalseStall(d) PROVE Goal
  BY <1>2, <1>5, RedeliveredFacts DEF RecoverStalled, FalseStall
<1>6. ASSUME NEW w \in Workers, NEW d \in Commands, Take(w, d) PROVE Goal
  BY <1>6 DEF Take, JobType
<1>7. ASSUME NEW w \in Workers, Settle(w) PROVE Goal
  <2>1. run[w].cmd \in Commands
    BY <1>7, BusySlot DEF Settle
  <2>2. CASE job' = [job EXCEPT ![run[w].cmd] = Finished(@, run[w].pc)]
    <3>1. c # run[w].cmd => job'[c] = job[c]
      BY <2>2
    <3>2. ASSUME c = run[w].cmd, job[c].state = "active" PROVE Goal
      <4>1. job'[c] = Finished(job[c], run[w].pc)
        BY <2>1, <2>2, <3>2
      <4> QED
        BY <3>2, <4>1, FinishedFacts
    <3> QED
      BY <1>1, <1>7, <3>1, <3>2 DEF Settle
  <2> QED
    BY <1>1, <1>7, <2>2 DEF Settle
<1>8. CASE RedisLoss
  BY <1>8 DEF RedisLoss, AbsentJob
<1> QED
  BY <1>1, <1>3, <1>4, <1>5, <1>6, <1>7, <1>8
  DEF Next, WorkerStep, WorkerFault, vars, FillCart, Register, Claim, Checkout, Validate,
      Commit, Complete, HandleFailure, Crash, DbError, RereadError, CommitAckLost

LEMMA NextReportInv == ReportInv /\ [Next]_vars => ReportInv'
<1> SUFFICES ASSUME ReportInv, [Next]_vars PROVE ReportInv'
  OBVIOUS
<1> USE DEF ReportInv
<1>1. TypeInv'
  BY NextTypeInv
<1>2. ReturnedIsReported'
  <2> SUFFICES ASSUME NEW v \in Workers, run'[v].pc = "returned"
               PROVE  row'[run'[v].cmd].status = "COMPLETED"
    BY DEF ReturnedIsReported
  <2>1. CASE run[v].pc = "returned" /\ run'[v].cmd = run[v].cmd
    <3>1. run[v].cmd \in Commands /\ row[run[v].cmd].status = "COMPLETED"
      BY <2>1, BusySlot DEF ReturnedIsReported
    <3> QED
      BY <2>1, <3>1, SettledStep DEF Settled
  <2> QED
    BY <2>1, NewlyReturned
<1>3. CompletedJobIsReported'
  <2> SUFFICES ASSUME NEW c \in Commands, job'[c].state = "completed"
               PROVE  row'[c].status = "COMPLETED"
    BY DEF CompletedJobIsReported
  <2>1. row[c].status = "COMPLETED"
    BY NewlyCompleted DEF ReturnedIsReported, CompletedJobIsReported
  <2> QED
    BY <2>1, SettledStep DEF Settled
<1> QED
  BY <1>1, <1>2, <1>3

LEMMA ReportInvHolds == Spec => []ReportInv
<1>1. Init => ReportInv
  BY InitTypeInv DEF Init, ReportInv, ReturnedIsReported, CompletedJobIsReported,
                     AbsentJob, IdleRun
<1> QED
  BY <1>1, NextReportInv, PTL DEF Spec

(* No failure is swallowed: with any of the faults, a job BullMQ counts as   *)
(* completed is one whose tracking row says COMPLETED.                       *)
THEOREM CompletedReported == Spec => []CompletedJobIsReported
<1>1. ReportInv => CompletedJobIsReported
  BY DEF ReportInv
<1> QED
  BY <1>1, ReportInvHolds, PTL

-----------------------------------------------------------------------------
(* The order is made from the registered body *)

(* Until its row is COMPLETED a command has one body: the row, the job and   *)
(* every attempt that runs carry it, and the job keeps its id taken.         *)
OneBody ==
  \A c \in Commands : row[c].status = "COMPLETED" \/
    /\ row[c].status # "NONE" => job[c].state # "absent" /\ row[c].body = job[c].body
    /\ \A w \in Workers : run[w].pc # "idle" /\ run[w].cmd = c =>
         job[c].state # "absent" /\ run[w].body = job[c].body

(* A command that placed an order has its row.                               *)
OrderedIsRegistered == \A o \in orders : row[o.cmd].status # "NONE"

BodyInv ==
  /\ ReportInv
  /\ ClaimIsExclusive
  /\ OneBody
  /\ OrderedIsRegistered
  /\ OrderBodyIsRegistered

(* The body of a job is fixed by add(), and its id is only freed by the      *)
(* removal of a completed job, as long as Redis keeps its jobs.              *)
LEMMA JobBodies ==
  ASSUME TypeInv, [Next]_vars, "redis" \notin Faults, NEW c \in Commands
  PROVE  \/ /\ job'[c].body = job[c].body
            /\ (job'[c].state = "absent") <=> (job[c].state = "absent")
         \/ job[c].state \in {"absent", "completed"} /\ UNCHANGED <<row, run>>
<1> DEFINE Goal == \/ /\ job'[c].body = job[c].body
                      /\ (job'[c].state = "absent") <=> (job[c].state = "absent")
                   \/ job[c].state \in {"absent", "completed"} /\ UNCHANGED <<row, run>>
<1> USE DEF TypeInv, TypeOK
<1>1. ASSUME UNCHANGED job PROVE Goal
  BY <1>1
<1>2. ASSUME NEW d \in Commands, job[d].state = "active", NEW j \in JobType,
             j.body = job[d].body, j.state # "absent", job' = [job EXCEPT ![d] = j]
      PROVE  Goal
  BY <1>2
<1>3. ASSUME NEW d \in Commands, NEW b \in Bodies, Submit(d, b) PROVE Goal
  BY <1>3 DEF Submit, database
<1>4. ASSUME NEW d \in Commands, PruneCompleted(d) PROVE Goal
  BY <1>4 DEF PruneCompleted, database
<1>5. ASSUME NEW d \in Commands, RecoverStalled(d) \/ FalseStall(d) PROVE Goal
  BY <1>2, <1>5, RedeliveredFacts DEF RecoverStalled, FalseStall
<1>6. ASSUME NEW w \in Workers, NEW d \in Commands, Take(w, d) PROVE Goal
  BY <1>6 DEF Take, JobType
<1>7. ASSUME NEW w \in Workers, Settle(w) PROVE Goal
  <2>1. run[w].cmd \in Commands
    BY <1>7, BusySlot DEF Settle
  <2>2. ASSUME job[run[w].cmd].state = "active",
               job' = [job EXCEPT ![run[w].cmd] = Finished(@, run[w].pc)]
        PROVE  Goal
    <3>1. job' = [job EXCEPT ![run[w].cmd] = Finished(job[run[w].cmd], run[w].pc)]
      BY <2>2
    <3> QED
      BY <1>2, <2>1, <2>2, <3>1, FinishedFacts
  <2> QED
    BY <1>1, <1>7, <2>2 DEF Settle
<1> QED
  BY <1>1, <1>3, <1>4, <1>5, <1>6, <1>7
  DEF Next, WorkerStep, WorkerFault, vars, FillCart, Register, Claim, Checkout, Validate,
      Commit, Complete, HandleFailure, Crash, DbError, RereadError, CommitAckLost,
      RedisLoss, Fault

(* An attempt carries the body of the job it was started for to its end.     *)
LEMMA RunBodies ==
  ASSUME TypeInv, [Next]_vars, NEW v \in Workers, run'[v].pc # "idle"
  PROVE  \/ run[v].pc # "idle" /\ run'[v].cmd = run[v].cmd /\ run'[v].body = run[v].body
         \/ \E c \in Commands : /\ job[c].state = "waiting"
                                /\ run'[v].cmd = c /\ run'[v].body = job[c].body
<1> DEFINE Same == run[v].pc # "idle" /\ run'[v].cmd = run[v].cmd /\ run'[v].body = run[v].body
           Goal == \/ Same
                   \/ \E c \in Commands : /\ job[c].state = "waiting"
                                          /\ run'[v].cmd = c /\ run'[v].body = job[c].body
<1>1. ASSUME UNCHANGED run PROVE Same
  BY <1>1
<1>2. ASSUME NEW w \in Workers, run[w].pc # "idle", NEW step \in Steps, run' = Goto(w, step)
      PROVE  Same
  BY <1>2, GotoFacts DEF TypeInv
<1>3. ASSUME NEW w \in Workers, NEW c \in Commands, Take(w, c) PROVE Goal
  <2>1. NewRun(c).cmd = c /\ NewRun(c).body = job[c].body
    BY DEF NewRun
  <2>2. v = w => run'[v] = NewRun(c)
    BY <1>3 DEF Take, TypeInv, TypeOK
  <2>3. v # w => run'[v] = run[v]
    BY <1>3 DEF Take, TypeInv, TypeOK
  <2> QED
    BY <1>3, <2>1, <2>2, <2>3 DEF Take
<1>4. ASSUME NEW w \in Workers, Register(w) \/ Validate(w) \/ DbError(w) \/ CommitAckLost(w)
      PROVE  Same
  <2>1. run[w].pc # "idle" /\ \E step \in Steps : run' = Goto(w, step)
    <3>1. CASE Register(w)
      BY <3>1 DEF Register, Steps
    <3>2. CASE Validate(w)
      BY <3>2 DEF Validate, Steps
    <3>3. CASE DbError(w)
      BY <3>3 DEF DbError, AfterDbError, Steps, Holding
    <3>4. CASE CommitAckLost(w)
      BY <3>4 DEF CommitAckLost, Steps
    <3> QED
      BY <1>4, <3>1, <3>2, <3>3, <3>4
  <2> QED
    BY <1>2, <2>1
<1>5. ASSUME NEW w \in Workers, run[w].pc # "idle", NEW from, NEW to,
             NEW order, NEW next \in Steps, Transition(w, from, to, order, next)
      PROVE  Same
  <2>1. \E step \in Steps : run' = Goto(w, step)
    BY <1>5 DEF Transition, Steps
  <2> QED
    BY <1>2, <1>5, <2>1
<1>6. ASSUME NEW w \in Workers,
             Claim(w) \/ Complete(w) \/ HandleFailure(w) \/ RereadError(w)
      PROVE  Same
  <2>1. {"checkout", "returned", "threw", RethrownError(FailureStatus(w))} \subseteq Steps
    BY FailureStatusFacts DEF Steps
  <2>2. CASE Claim(w)
    BY <1>5, <2>1, <2>2 DEF Claim
  <2>3. CASE Complete(w)
    BY <1>5, <2>1, <2>3 DEF Complete
  <2>4. CASE HandleFailure(w)
    BY <1>5, <2>1, <2>4 DEF HandleFailure
  <2>5. CASE RereadError(w)
    BY <1>5, <2>1, <2>5 DEF RereadError
  <2> QED
    BY <1>6, <2>2, <2>3, <2>4, <2>5
<1>7. ASSUME NEW w \in Workers, Checkout(w) PROVE Same
  <2>1. CASE run' = Goto(w, "rejected")
    BY <1>2, <1>7, <2>1 DEF Checkout, Steps
  <2>2. CASE run' = [run EXCEPT ![w].pc = "validate",
                                ![w].cart = cart[ClienteOf[run[w].cmd]]]
    BY <1>7, <2>2 DEF Checkout, TypeInv, TypeOK, RunType
  <2> QED
    BY <1>7, <2>1, <2>2 DEF Checkout
<1>8. ASSUME NEW w \in Workers, Commit(w) PROVE Same
  <2>1. CASE run' = Goto(w, "failed")
    BY <1>2, <1>8, <2>1 DEF Commit, Steps
  <2>2. CASE run' = [run EXCEPT ![w].pc = "complete", ![w].order = counter + 1]
    BY <1>8, <2>2 DEF Commit, TypeInv, TypeOK, RunType
  <2> QED
    BY <1>8, <2>1, <2>2 DEF Commit, Rollback
<1>9. ASSUME NEW w \in Workers, Settle(w) \/ Crash(w) PROVE Same
  BY <1>9 DEF Settle, Crash, IdleRun, TypeInv, TypeOK
<1> QED
  BY <1>1, <1>3, <1>4, <1>6, <1>7, <1>8, <1>9
  DEF Next, WorkerStep, WorkerFault, vars, FillCart, Submit, PruneCompleted,
      RecoverStalled, FalseStall, RedisLoss

(* The body of a row is fixed by its registration.                           *)
LEMMA RowBodies ==
  ASSUME TypeInv, [Next]_vars, NEW c \in Commands
  PROVE  \/ /\ row'[c].body = row[c].body
            /\ (row'[c].status = "NONE") <=> (row[c].status = "NONE")
         \/ /\ row[c].status = "NONE"
            /\ row'[c].status # "NONE"
            /\ UNCHANGED orders
            /\ \E w \in Workers : /\ run[w].pc = "register" /\ run[w].cmd = c
                                  /\ row'[c].body = run[w].body
<1>1. CASE Quiet
  BY <1>1 DEF Quiet
<1>2. CASE Registering
  BY <1>2 DEF Registering
<1>3. ASSUME NEW w \in Workers, Claiming(w)
      PROVE  /\ row'[c].body = row[c].body
             /\ (row'[c].status = "NONE") <=> (row[c].status = "NONE")
  BY <1>3 DEF Claiming
<1>4. ASSUME NEW w \in Workers, Reporting(w)
      PROVE  /\ row'[c].body = row[c].body
             /\ (row'[c].status = "NONE") <=> (row[c].status = "NONE")
  BY <1>4 DEF Reporting
<1>5. ASSUME NEW w \in Workers, Placing(w)
      PROVE  row' = row
  BY <1>5 DEF Placing
<1> QED
  BY <1>1, <1>2, <1>3, <1>4, <1>5, KindsOfStep

LEMMA NewOrderBody ==
  ASSUME TypeInv, [Next]_vars, NEW o \in orders', o \notin orders
  PROVE  /\ row' = row
         /\ \E w \in Workers : /\ run[w].pc = "commit"
                               /\ o.cmd = run[w].cmd /\ o.body = run[w].body
BY KindsOfStep DEF Quiet, Registering, Claiming, Reporting, Placing

LEMMA NextBodyInv ==
  ASSUME "redis" \notin Faults, BodyInv, [Next]_vars PROVE BodyInv'
<1> USE DEF BodyInv
<1>1. TypeInv /\ ReportInv' /\ TypeInv' /\ ClaimIsExclusive'
  BY NextReportInv, NextTypeInv, NextClaim DEF ReportInv
<1>2. OneBody'
  <2> SUFFICES ASSUME NEW c \in Commands, row'[c].status # "COMPLETED"
               PROVE  /\ row'[c].status # "NONE" =>
                           job'[c].state # "absent" /\ row'[c].body = job'[c].body
                      /\ \A w \in Workers : run'[w].pc # "idle" /\ run'[w].cmd = c =>
                           job'[c].state # "absent" /\ run'[w].body = job'[c].body
    BY DEF OneBody
  <2>1. row[c].status # "COMPLETED" /\ job[c].state # "completed"
    BY <1>1, SettledStep DEF Settled, ReportInv, CompletedJobIsReported
  <2>2. /\ row[c].status # "NONE" => job[c].state # "absent" /\ row[c].body = job[c].body
        /\ \A w \in Workers : run[w].pc # "idle" /\ run[w].cmd = c =>
             job[c].state # "absent" /\ run[w].body = job[c].body
    BY <2>1 DEF OneBody
  <2>3. CASE job[c].state = "absent" /\ UNCHANGED <<row, run>>
    BY <2>2, <2>3
  <2>4. CASE /\ job'[c].body = job[c].body
             /\ (job'[c].state = "absent") <=> (job[c].state = "absent")
    <3>1. row'[c].status # "NONE" => job'[c].state # "absent" /\ row'[c].body = job'[c].body
      BY <1>1, <2>2, <2>4, RowBodies
    <3>2. ASSUME NEW w \in Workers, run'[w].pc # "idle", run'[w].cmd = c
          PROVE  job'[c].state # "absent" /\ run'[w].body = job'[c].body
      BY <1>1, <2>2, <2>4, <3>2, RunBodies
    <3> QED
      BY <3>1, <3>2
  <2> QED
    BY <1>1, <2>1, <2>3, <2>4, JobBodies
<1>3. \A o \in orders : o.cmd \in Commands
  BY <1>1 DEF TypeInv, TypeOK, OrderType
<1>4. ASSUME NEW o \in orders', o \notin orders
      PROVE  row'[o.cmd].status # "NONE" /\ o.body = row'[o.cmd].body
  <2>1. row' = row
    BY <1>1, <1>4, NewOrderBody
  <2>2. PICK w \in Workers : /\ run[w].pc = "commit"
                             /\ o.cmd = run[w].cmd /\ o.body = run[w].body
    BY <1>1, <1>4, NewOrderBody
  <2>3. run[w].cmd \in Commands /\ row[run[w].cmd].status = "PROCESSING"
    BY <1>1, <2>2, BusySlot DEF ClaimIsExclusive, Holding
  <2>4. run[w].body = row[run[w].cmd].body
    BY <2>2, <2>3 DEF OneBody
  <2> QED
    BY <2>1, <2>2, <2>3, <2>4
<1>5. ASSUME NEW o \in orders
      PROVE  row'[o.cmd].status # "NONE" /\ o.body = row'[o.cmd].body
  BY <1>1, <1>3, RowBodies DEF OrderedIsRegistered, OrderBodyIsRegistered
<1>6. OrderedIsRegistered' /\ OrderBodyIsRegistered'
  BY <1>4, <1>5 DEF OrderedIsRegistered, OrderBodyIsRegistered
<1> QED
  BY <1>1, <1>2, <1>6

(* As long as Redis keeps its jobs, an order is made from the payload its     *)
(* idempotency key was registered with: a retry, a redelivery or a job sent   *)
(* again under the same key with another payload never changes it.            *)
THEOREM BodyRegistered == "redis" \notin Faults => (Spec => []OrderBodyIsRegistered)
<1> SUFFICES ASSUME "redis" \notin Faults PROVE Spec => []OrderBodyIsRegistered
  OBVIOUS
<1>1. Init => BodyInv
  <2> SUFFICES ASSUME Init PROVE BodyInv
    OBVIOUS
  <2>1. ReportInv /\ ClaimIsExclusive
    BY InitTypeInv, InitClaim DEF Init, ReportInv, ReturnedIsReported,
       CompletedJobIsReported, AbsentJob, IdleRun
  <2>2. OneBody /\ OrderedIsRegistered /\ OrderBodyIsRegistered
    BY DEF Init, OneBody, OrderedIsRegistered, OrderBodyIsRegistered, IdleRun
  <2> QED
    BY <2>1, <2>2 DEF BodyInv
<1>2. BodyInv /\ [Next]_vars => BodyInv'
  BY NextBodyInv
<1>3. BodyInv => OrderBodyIsRegistered
  BY DEF BodyInv
<1> QED
  BY <1>1, <1>2, <1>3, PTL DEF Spec

-----------------------------------------------------------------------------
(* The vendedor's books: order numbers and carts *)

(* What a step does to the carts, the orders and the counter. NoSale: the    *)
(* orders and the carts stay, and a slot enters the transaction's steps only *)
(* with a cart it found.                                                     *)
NoSale ==
  /\ UNCHANGED <<cart, nextCart, orders, counter>>
  /\ \A v \in Workers : run'[v].pc \in {"validate", "commit"} =>
       \/ run[v].pc \in {"validate", "commit"} /\ run'[v].cart = run[v].cart
       \/ run'[v].cart # 0

(* Sale: the transaction of slot w commits.                                  *)
Sale(w) ==
  /\ run[w].pc = "commit"
  /\ CartStillThere(w)
  /\ PlaceOrder(w)
  /\ UNCHANGED nextCart
  /\ \A v \in Workers : run'[v].pc \in {"validate", "commit"} => run'[v] = run[v]

LEMMA GotoNoSale ==
  ASSUME TypeInv, NEW w \in Workers, NEW step \in Steps, run' = Goto(w, step),
         UNCHANGED <<cart, nextCart, orders, counter>>,
         step \in {"validate", "commit"} => run[w].pc = "validate"
  PROVE  NoSale
BY GotoFacts DEF NoSale, TypeInv

LEMMA FreedNoSale ==
  ASSUME TypeInv, NEW w \in Workers, NEW r \in RunType, r.pc \notin {"validate", "commit"},
         run' = [run EXCEPT ![w] = r], UNCHANGED <<cart, nextCart, orders, counter>>
  PROVE  NoSale
BY DEF NoSale, TypeInv, TypeOK

LEMMA TransitionNoSale ==
  ASSUME TypeInv, NEW w \in Workers, NEW from, NEW to, NEW order, NEW next \in Steps,
         Transition(w, from, to, order, next), next \notin {"validate", "commit"},
         UNCHANGED <<cart, nextCart, orders, counter>>
  PROVE  NoSale
<1>1. PICK step \in {next, "threw"} : run' = Goto(w, step)
  BY DEF Transition
<1> QED
  BY <1>1, GotoNoSale DEF Steps

LEMMA BookSteps ==
  ASSUME TypeInv, [Next]_vars
  PROVE  NoSale \/ (\E k \in Clientes : FillCart(k)) \/ (\E w \in Workers : Sale(w))
<1> DEFINE Goal == NoSale \/ (\E k \in Clientes : FillCart(k)) \/ (\E w \in Workers : Sale(w))
           Books == <<cart, nextCart, orders, counter>>
<1>1. ASSUME UNCHANGED run, UNCHANGED Books PROVE NoSale
  BY <1>1 DEF NoSale
<1>2. ASSUME NEW w \in Workers, NEW c \in Commands, Take(w, c) PROVE NoSale
  <2>1. job[c].body \in Bodies /\ job[c].made \in 0..MaxAttempts
    BY <1>2 DEF Take, TypeInv, TypeOK, WellFormed, JobType
  <2>2. NewRun(c) \in RunType /\ NewRun(c).pc \notin {"validate", "commit"}
    BY <2>1 DEF NewRun, RunType, Steps
  <2> QED
    BY <1>2, <2>2, FreedNoSale DEF Take, database
<1>3. ASSUME NEW w \in Workers, Register(w) PROVE NoSale
  <2>1. PICK step \in {"claim", "threw"} : run' = Goto(w, step)
    BY <1>3 DEF Register
  <2> QED
    BY <1>3, <2>1, GotoNoSale DEF Register, Steps
<1>4. ASSUME NEW w \in Workers, Claim(w) PROVE NoSale
  BY <1>4, TransitionNoSale DEF Claim, Steps
<1>5. ASSUME NEW w \in Workers, Checkout(w) PROVE NoSale
  <2>1. CASE run' = Goto(w, "rejected")
    BY <1>5, <2>1, GotoNoSale DEF Checkout, database, Steps
  <2>2. CASE ~(run[w].body \in Malformed \/ cart[ClienteOf[run[w].cmd]] = 0)
    <3> DEFINE found == cart[ClienteOf[run[w].cmd]]
    <3>1. run' = [run EXCEPT ![w].pc = "validate", ![w].cart = found] /\ found # 0
      BY <1>5, <2>2 DEF Checkout
    <3> HIDE DEF found
    <3>2. run'[w].cart = found /\ \A v \in Workers : v # w => run'[v] = run[v]
      BY <3>1 DEF TypeInv, TypeOK, RunType
    <3> QED
      BY <1>5, <3>1, <3>2 DEF Checkout, database, NoSale
  <2> QED
    BY <1>5, <2>1, <2>2 DEF Checkout
<1>6. ASSUME NEW w \in Workers, Validate(w) PROVE NoSale
  <2>1. PICK step \in {"commit", "failed", "rejected"} : run' = Goto(w, step)
    BY <1>6 DEF Validate
  <2> QED
    BY <1>6, <2>1, GotoNoSale DEF Validate, database, Steps
<1>7. ASSUME NEW w \in Workers, Commit(w) PROVE Goal
  <2>1. CASE ~CartStillThere(w)
    BY <1>7, <2>1, GotoNoSale DEF Commit, Rollback, Steps
  <2>2. CASE CartStillThere(w)
    <3>1. run' = [run EXCEPT ![w].pc = "complete", ![w].order = counter + 1]
      BY <1>7, <2>2 DEF Commit
    <3>2. run'[w].pc = "complete" /\ \A v \in Workers : v # w => run'[v] = run[v]
      BY <3>1 DEF TypeInv, TypeOK, RunType
    <3> QED
      BY <1>7, <2>2, <3>2 DEF Commit, Sale
  <2> QED
    BY <2>1, <2>2
<1>8. ASSUME NEW w \in Workers, Complete(w) PROVE NoSale
  BY <1>8, TransitionNoSale DEF Complete, Steps
<1>9. ASSUME NEW w \in Workers, HandleFailure(w) PROVE NoSale
  <2>1. RethrownError(FailureStatus(w)) \in Steps \ {"validate", "commit"}
    BY FailureStatusFacts DEF Steps
  <2> QED
    BY <1>9, <2>1, TransitionNoSale DEF HandleFailure
<1>10. ASSUME NEW w \in Workers, Settle(w) \/ Crash(w) PROVE NoSale
  <2>1. IdleRun \in RunType /\ IdleRun.pc \notin {"validate", "commit"}
    BY IdleIsFree DEF IdleRun
  <2> QED
    BY <1>10, <2>1, FreedNoSale DEF Settle, Crash, database
<1>11. ASSUME NEW w \in Workers, DbError(w) PROVE NoSale
  <2>1. PICK step \in {"failed", "threw"} : run' = Goto(w, step)
    BY <1>11 DEF DbError, AfterDbError
  <2> QED
    BY <1>11, <2>1, GotoNoSale DEF DbError, database, Steps
<1>12. ASSUME NEW w \in Workers, RereadError(w) PROVE NoSale
  BY <1>12, TransitionNoSale DEF RereadError, Steps
<1>13. ASSUME NEW w \in Workers, CommitAckLost(w) PROVE Sale(w)
  <2>1. run'[w].pc = "failed" /\ \A v \in Workers : v # w => run'[v] = run[v]
    BY <1>13, GotoFacts DEF CommitAckLost, TypeInv, Steps
  <2> QED
    BY <1>13, <2>1 DEF CommitAckLost, Sale
<1> QED
  BY <1>1, <1>2, <1>3, <1>4, <1>5, <1>6, <1>7, <1>8, <1>9, <1>10, <1>11, <1>12, <1>13
  DEF Next, WorkerStep, WorkerFault, vars, database, Submit, PruneCompleted,
      RecoverStalled, FalseStall, RedisLoss

(* The ids of carts are never used again: the active carts of the clientes   *)
(* differ, and an ordered cart is nobody's active cart any more.             *)
CartsApart ==
  /\ nextCart > 0
  /\ \A k \in Clientes : cart[k] < nextCart
  /\ \A k, l \in Clientes : cart[k] = cart[l] /\ cart[k] # 0 => k = l
  /\ \A o \in orders : o.cart # 0 /\ o.cart < nextCart /\ \A k \in Clientes : cart[k] # o.cart
  /\ \A w \in Workers : run[w].pc \in {"validate", "commit"} => run[w].cart # 0

BookInv == TypeInv /\ CartsApart /\ OneOrderPerCart /\ NumbersGapFree

LEMMA InitBookInv == Init => BookInv
<1> SUFFICES ASSUME Init PROVE BookInv
  OBVIOUS
<1>1. CartsApart /\ OneOrderPerCart
  BY DEF Init, IdleRun, CartsApart, OneOrderPerCart
<1>2. NumbersGapFree
  BY DEF Init, NumbersGapFree
<1> QED
  BY <1>1, <1>2, InitTypeInv DEF BookInv

LEMMA SaleInv ==
  ASSUME BookInv, NEW w \in Workers, Sale(w)
  PROVE  CartsApart' /\ OneOrderPerCart' /\ NumbersGapFree'
<1> DEFINE k == ClienteOf[run[w].cmd]
           o == [cmd |-> run[w].cmd, body |-> run[w].body,
                 cart |-> run[w].cart, numero |-> counter + 1]
<1>1. k \in Clientes /\ run[w].cart \in Nat
  BY BusySlot, CommandsAssumption DEF Sale, BookInv
<1>2. cart[k] = run[w].cart /\ run[w].cart # 0
  BY DEF Sale, CartStillThere, BookInv, CartsApart
<1>3. /\ cart' = [cart EXCEPT ![k] = 0]
      /\ orders' = orders \cup {o}
      /\ counter' = counter + 1
      /\ nextCart' = nextCart
  BY DEF Sale, PlaceOrder
<1>4. o.cart = run[w].cart /\ o.numero = counter + 1
  OBVIOUS
<1> HIDE DEF o, k
<1>5. /\ cart \in [Clientes -> Nat] /\ nextCart \in Nat /\ counter \in Nat
      /\ \A p \in orders : p.cart \in Nat /\ p.numero \in Nat
  BY DEF BookInv, TypeInv, TypeOK, OrderType
<1>6. CartsApart'
  <2>1. \A l \in Clientes : cart'[l] < nextCart' /\ (cart'[l] # 0 => cart'[l] = cart[l])
    BY <1>1, <1>3, <1>5 DEF BookInv, CartsApart
  <2>2. \A l \in Clientes : cart'[l] # run[w].cart
    BY <1>1, <1>2, <1>3, <1>5 DEF BookInv, CartsApart
  <2>3. \A p \in orders' : p.cart # 0 /\ p.cart < nextCart' /\ \A l \in Clientes : cart'[l] # p.cart
    BY <1>1, <1>2, <1>3, <1>4, <2>1, <2>2 DEF BookInv, CartsApart
  <2>4. \A l, m \in Clientes : cart'[l] = cart'[m] /\ cart'[l] # 0 => l = m
    BY <2>1 DEF BookInv, CartsApart
  <2>5. \A v \in Workers : run'[v].pc \in {"validate", "commit"} => run'[v].cart # 0
    BY DEF BookInv, CartsApart, Sale
  <2> QED
    BY <1>3, <2>1, <2>3, <2>4, <2>5 DEF BookInv, CartsApart
<1>7. OneOrderPerCart'
  <2>1. \A p \in orders : p.cart # o.cart
    BY <1>1, <1>2, <1>4 DEF BookInv, CartsApart
  <2> QED
    BY <1>3, <2>1 DEF BookInv, OneOrderPerCart
<1>8. NumbersGapFree'
  <2>1. {p.numero : p \in orders} = 1..counter
    BY DEF BookInv, NumbersGapFree
  <2>2. \A p \in orders : p.numero # o.numero
    BY <1>4, <1>5, <2>1
  <2>3. {p.numero : p \in orders'} = (1..counter) \cup {counter + 1}
    BY <1>3, <1>4, <2>1
  <2>4. (1..counter) \cup {counter + 1} = 1..(counter + 1)
    BY <1>5
  <2> QED
    BY <1>3, <2>2, <2>3, <2>4 DEF BookInv, NumbersGapFree
<1> QED
  BY <1>6, <1>7, <1>8

LEMMA NextBookInv == BookInv /\ [Next]_vars => BookInv'
<1> SUFFICES ASSUME BookInv, [Next]_vars PROVE BookInv'
  OBVIOUS
<1>1. TypeInv /\ TypeInv'
  BY NextTypeInv DEF BookInv
<1>2. CASE NoSale
  <2>1. CartsApart'
    BY <1>2 DEF NoSale, BookInv, CartsApart
  <2> QED
    BY <1>1, <1>2, <2>1 DEF NoSale, BookInv, OneOrderPerCart, NumbersGapFree
<1>3. ASSUME NEW k \in Clientes, FillCart(k) PROVE BookInv'
  <2>1. CartsApart'
    BY <1>1, <1>3 DEF FillCart, BookInv, CartsApart, TypeInv, TypeOK, OrderType
  <2> QED
    BY <1>1, <1>3, <2>1 DEF FillCart, BookInv, OneOrderPerCart, NumbersGapFree
<1>4. ASSUME NEW w \in Workers, Sale(w) PROVE BookInv'
  BY <1>1, <1>4, SaleInv DEF BookInv
<1> QED
  BY <1>1, <1>2, <1>3, <1>4, BookSteps

LEMMA BookInvHolds == Spec => []BookInv
BY InitBookInv, NextBookInv, PTL DEF Spec

(* A cart is ordered at most once, with any of the faults: commands, retries  *)
(* and redeliveries that race for it are serialised by cart.delete().         *)
THEOREM CartOnce == Spec => []OneOrderPerCart
<1>1. BookInv => OneOrderPerCart
  BY DEF BookInv
<1> QED
  BY <1>1, BookInvHolds, PTL

(* The order numbers of the vendedor are 1, 2, 3... without gap or repetition, *)
(* with any of the faults, a lost acknowledgement of the commit included.      *)
THEOREM GapFree == Spec => []NumbersGapFree
<1>1. BookInv => NumbersGapFree
  BY DEF BookInv
<1> QED
  BY <1>1, BookInvHolds, PTL

-----------------------------------------------------------------------------
(* The queue, its workers and the tracking row implement the abstract command *)

(* The refinement mapping at one command, as a function of the two tables. *)
Ordered(os, c) == \E o \in os : o.cmd = c
OutcomeIn(os, status, c) ==
  IF Ordered(os, c) THEN "ordered"
  ELSE IF status \in {"FAILED", "DEAD_LETTER"} THEN "refused" ELSE "open"
ToldIn(status) == IF status = "COMPLETED" THEN "ordered"
                  ELSE IF status \in {"FAILED", "DEAD_LETTER"} THEN "refused" ELSE "pending"

LEMMA MappingFacts ==
  /\ outcome = [c \in Commands |-> OutcomeIn(orders, row[c].status, c)]
  /\ told = [c \in Commands |-> ToldIn(row[c].status)]
<1>1. outcome = [c \in Commands |-> OutcomeIn(orders, row[c].status, c)]
  BY DEF outcome, OutcomeIn, Ordered
<1>2. \A c \in Commands : told[c] = ToldIn(row[c].status)
  BY DEF told, ToldIn
<1>3. told = [c \in Commands |-> told[c]]
  BY DEF told
<1> QED
  BY <1>1, <1>2, <1>3

LEMMA MappingFactsPrimed ==
  /\ outcome' = [c \in Commands |-> OutcomeIn(orders', row'[c].status, c)]
  /\ told' = [c \in Commands |-> ToldIn(row'[c].status)]
<1>1. outcome' = [c \in Commands |-> OutcomeIn(orders', row'[c].status, c)]
  BY DEF outcome, OutcomeIn, Ordered
<1>2. \A c \in Commands : told'[c] = ToldIn(row'[c].status)
  BY DEF told, ToldIn
<1>3. told' = [c \in Commands |-> told'[c]]
  BY DEF told
<1> QED
  BY <1>1, <1>2, <1>3

(* A step that only concerns command c maps to what it does to c.           *)
LEMMA OneCommand ==
  ASSUME NEW c \in Commands,
         \A d \in Commands :
           d # c => /\ row'[d].status = row[d].status
                    /\ Ordered(orders', d) <=> Ordered(orders, d)
  PROVE  /\ outcome' = [outcome EXCEPT ![c] = OutcomeIn(orders', row'[c].status, c)]
         /\ told' = [told EXCEPT ![c] = ToldIn(row'[c].status)]
         /\ outcome[c] = OutcomeIn(orders, row[c].status, c)
         /\ told[c] = ToldIn(row[c].status)
<1>1. \A d \in Commands : d # c =>
        OutcomeIn(orders', row'[d].status, d) = OutcomeIn(orders, row[d].status, d)
  BY DEF OutcomeIn
<1> QED
  BY <1>1, MappingFacts, MappingFactsPrimed

LEMMA OutcomeStutters ==
  ASSUME \A d \in Commands :
           /\ OutcomeIn(orders', row'[d].status, d) = OutcomeIn(orders, row[d].status, d)
           /\ ToldIn(row'[d].status) = ToldIn(row[d].status)
  PROVE  outcome' = outcome /\ told' = told
BY MappingFacts, MappingFactsPrimed

LEMMA OutcomeInit == Init => CO!Init
<1> SUFFICES ASSUME Init PROVE CO!Init
  OBVIOUS
<1>1. \A c \in Commands :
        OutcomeIn(orders, row[c].status, c) = "open" /\ ToldIn(row[c].status) = "pending"
  BY DEF Init, OutcomeIn, ToldIn, Ordered
<1> QED
  BY <1>1, MappingFacts DEF CO!Init

(* Recording an attempt's outcome reports, refuses, or says nothing new.    *)
LEMMA ReportingMaps ==
  ASSUME OrderInv, NEW w \in Workers, Reporting(w)
  PROVE  CO!Next \/ (outcome' = outcome /\ told' = told)
<1> USE DEF OrderInv
<1> DEFINE c == run[w].cmd
           Stutter == outcome' = outcome /\ told' = told
<1>1. c \in Commands /\ run[w].pc \in Holding /\ row[c].status = "PROCESSING"
  BY BusySlot DEF Reporting, Holding, ClaimIsExclusive
<1>2. orders' = orders /\ \A d \in Commands : d # c => row'[d] = row[d]
  BY DEF Reporting
<1>3. /\ outcome' = [outcome EXCEPT ![c] = OutcomeIn(orders, row'[c].status, c)]
      /\ told' = [told EXCEPT ![c] = ToldIn(row'[c].status)]
      /\ outcome[c] = OutcomeIn(orders, row[c].status, c)
      /\ told[c] = ToldIn(row[c].status)
  <2>1. \A d \in Commands :
          d # c => /\ row'[d].status = row[d].status
                   /\ Ordered(orders', d) <=> Ordered(orders, d)
    BY <1>2
  <2> HIDE DEF c
  <2> QED
    BY <1>1, <1>2, <2>1, OneCommand
<1>4. CASE run[w].pc = "complete"
  <2>1. Ordered(orders, c)
    BY <1>4 DEF CompleteHasOrder, Ordered
  <2>2. row'[c].status = "COMPLETED"
    BY <1>1, <1>4 DEF Reporting
  <2> HIDE DEF c
  <2>3. outcome[c] = "ordered" /\ told[c] = "pending"
    BY <1>1, <1>3, <2>1 DEF OutcomeIn, ToldIn
  <2>4. told' = [told EXCEPT ![c] = "ordered"]
    BY <1>3, <2>2 DEF ToldIn
  <2>5. outcome' = outcome
    BY <1>3, <2>1, <2>3, MappingFacts DEF OutcomeIn
  <2> QED
    BY <1>1, <2>3, <2>4, <2>5 DEF CO!Next, CO!Report
<1>5. CASE run[w].pc # "complete"
  <2>1. ~Ordered(orders, c)
    BY <1>1, <1>5 DEF OrderedRow, Ordered
  <2>2. row'[c].status \in {"FAILED", "DEAD_LETTER", "RETRYING"}
    BY <1>1, <1>5 DEF Reporting
  <2> HIDE DEF c
  <2>3. outcome[c] = "open" /\ told[c] = "pending"
    BY <1>1, <1>3, <2>1 DEF OutcomeIn, ToldIn
  <2>4. CASE row'[c].status = "RETRYING"
    <3>1. outcome' = [outcome EXCEPT ![c] = "open"] /\ told' = [told EXCEPT ![c] = "pending"]
      BY <1>3, <2>1, <2>4 DEF OutcomeIn, ToldIn
    <3> QED
      BY <3>1, <2>3, MappingFacts
  <2>5. CASE row'[c].status \in {"FAILED", "DEAD_LETTER"}
    <3>1. outcome' = [outcome EXCEPT ![c] = "refused"] /\ told' = [told EXCEPT ![c] = "refused"]
      BY <1>3, <2>1, <2>5 DEF OutcomeIn, ToldIn
    <3> QED
      BY <1>1, <2>3, <3>1 DEF CO!Next, CO!Refuse
  <2> QED
    BY <2>2, <2>4, <2>5
<1> QED
  BY <1>4, <1>5

(* The commit of a checkout places the one order of its command.            *)
LEMMA PlacingMaps ==
  ASSUME OrderInv, NEW w \in Workers, Placing(w)
  PROVE  CO!Next
<1> USE DEF OrderInv
<1> DEFINE c == run[w].cmd
           o == [cmd |-> c, body |-> run[w].body, cart |-> run[w].cart,
                 numero |-> counter + 1]
<1>1. c \in Commands /\ run[w].pc = "commit" /\ run[w].pc \in Holding
  BY BusySlot DEF Placing, Holding
<1>2. row[c].status = "PROCESSING"
  BY <1>1 DEF ClaimIsExclusive
<1>3. ~Ordered(orders, c)
  BY <1>1 DEF OrderedRow, Ordered
<1>4. o.cmd = c /\ orders' = orders \cup {o} /\ row' = row
  BY DEF Placing
<1> HIDE DEF o, c
<1>5. /\ Ordered(orders', c)
      /\ \A d \in Commands : d # c => (Ordered(orders', d) <=> Ordered(orders, d))
  BY <1>4 DEF Ordered
<1>6. /\ outcome' = [outcome EXCEPT ![c] = OutcomeIn(orders', row'[c].status, c)]
      /\ outcome[c] = OutcomeIn(orders, row[c].status, c)
  BY <1>1, <1>4, <1>5, OneCommand
<1>7. outcome[c] = "open" /\ outcome' = [outcome EXCEPT ![c] = "ordered"]
  BY <1>2, <1>3, <1>5, <1>6 DEF OutcomeIn
<1>8. told' = told
  BY <1>4, MappingFacts, MappingFactsPrimed
<1> QED
  BY <1>1, <1>7, <1>8 DEF CO!Next, CO!Place

LEMMA OutcomeStep ==
  ASSUME "ack" \notin Faults, OrderInv, [Next]_vars
  PROVE  CO!Next \/ (outcome' = outcome /\ told' = told)
<1> USE DEF OrderInv
<1>1. CASE Quiet
  BY <1>1, OutcomeStutters DEF Quiet
<1>2. CASE Registering
  BY <1>2, OutcomeStutters DEF Registering, OutcomeIn, ToldIn
<1>3. ASSUME NEW w \in Workers, Claiming(w)
      PROVE  outcome' = outcome /\ told' = told
  BY <1>3, OutcomeStutters DEF Claiming, OutcomeIn, ToldIn
<1> QED
  BY <1>1, <1>2, <1>3, ReportingMaps, PlacingMaps, KindsOfStep

(* As long as commits are acknowledged, the whole of queue, workers, retries, *)
(* redeliveries and crashes behaves towards the cliente like the abstract     *)
(* command: settled once, told once, and told as it was settled.              *)
THEOREM OutcomeRefinement == "ack" \notin Faults => (Spec => ImplementsCommandOutcome)
<1> SUFFICES ASSUME "ack" \notin Faults PROVE Spec => ImplementsCommandOutcome
  OBVIOUS
<1>1. OrderInv /\ [Next]_vars => [CO!Next]_(CO!cvars)
  BY OutcomeStep DEF CO!cvars
<1> QED
  BY <1>1, OutcomeInit, OrderInvHolds, PTL DEF Spec, ImplementsCommandOutcome, CO!Spec
=============================================================================
