--------------------------- MODULE DeliveriesProofs ---------------------------
(***************************************************************************)
(* Proofs about Deliveries, for any number of commands, worker slots,      *)
(* attempts, stalls and faults.                                            *)
(***************************************************************************)
EXTENDS Deliveries, TLAPS

(* A worker slot that has registered a command and still works on it.       *)
Handling == {"begin", "read", "write", "announce", "changed", "finish", "fail"}
Owner(w, c) == run[w].cmd = c /\ run[w].pc \in Handling

NoEvents(c) == \A type : ~Announced(c, type)
Silent(c) == moves[c] = 0 /\ NoEvents(c)
FirstEvent(c) == Announced(c, "DeliveryStarted") \/ Announced(c, "DeliveryCompleted")
Done(c) == moves[c] = 1 /\ Announced(c, "DeliveryStatusChanged") /\ FirstEvent(c)

(* How far the owner of a command has come.                                 *)
Progress(w, c) ==
  /\ run[w].pc \in {"begin", "read", "write"} => Silent(c)
  /\ run[w].pc = "announce" => moves[c] = 1 /\ NoEvents(c)
  /\ run[w].pc = "changed" => /\ moves[c] = 1 /\ FirstEvent(c)
                              /\ ~Announced(c, "DeliveryStatusChanged")
  /\ run[w].pc = "finish" => Done(c)
  /\ run[w].pc = "fail" => \/ run[w].error = "INTERNAL_ERROR"
                           \/ run[w].error \in {"FORBIDDEN", "BAD_REQUEST"} /\ moves[c] = 0

(* The unique keys of the tracking row admit one owner, ever: a row that is *)
(* there never gets another.                                                *)
CmdInv(c) ==
  /\ moves[c] \in {0, 1}
  /\ \A v, w \in Workers : Owner(v, c) /\ Owner(w, c) => v = w
  /\ \A w \in Workers : Owner(w, c) => /\ row[c].status \in {"PENDING", "PROCESSING"}
                                       /\ row[c].attempts = 0
                                       /\ Progress(w, c)
  /\ row[c].status = "NONE" => Silent(c) /\ row[c].attempts = 0
  /\ row[c].status = "COMPLETED" => Done(c)
  /\ row[c].status = "FAILED" => moves[c] = 0

UniqueEvents ==
  \A i, j \in 1..Len(stream) :
    stream[i].cmd = stream[j].cmd /\ stream[i].type = stream[j].type => i = j

(* A job that may still run has attempts and stalls left.                   *)
JobLimits ==
  \A c \in Commands : job[c].state \in {"waiting", "active"} =>
                        job[c].made < MaxAttempts /\ job[c].stalls <= MaxStalls

RunInv ==
  \A w \in Workers : /\ run[w].pc # "idle" => run[w].cmd \in Commands
                     /\ run[w].pc = "write" => run[w].to \in DeliveryEstados

Inv == TypeOK /\ JobLimits /\ RunInv /\ UniqueEvents /\ \A c \in Commands : CmdInv(c)

-----------------------------------------------------------------------------
LEMMA InitInv == Init => Inv
<1> SUFFICES ASSUME Init
             PROVE  Inv
  OBVIOUS
<1>1. TypeOK
  <2>1. AbsentJob \in JobType
    BY DeliveriesAssumption DEF AbsentJob, JobType
  <2>2. IdleRun \in RunType /\ [status |-> "NONE", attempts |-> 0] \in CommandRowType
    BY DEF IdleRun, RunType, CommandRowType
  <2>3. stream \in Seq([type : {"DeliveryStarted", "DeliveryCompleted", "DeliveryStatusChanged"},
                        cmd : Commands])
    BY DEF Init
  <2> QED
    BY <2>1, <2>2, <2>3, DeliveriesAssumption DEF Init, TypeOK, DeliveryEstados
<1>2. \A w \in Workers, c \in Commands : ~Owner(w, c)
  BY DEF Init, IdleRun, Owner, Handling
<1>3. \A c \in Commands : Silent(c)
  BY DEF Init, Silent, NoEvents, Announced
<1>4. \A c \in Commands : CmdInv(c)
  BY <1>2, <1>3 DEF CmdInv, Init, Silent
<1>5. JobLimits /\ RunInv /\ UniqueEvents
  BY DEF Init, JobLimits, RunInv, UniqueEvents, AbsentJob, IdleRun
<1> QED
  BY <1>1, <1>4, <1>5 DEF Inv

(* Events are told apart by what they are about.                            *)
LEMMA EventsStay ==
  ASSUME UNCHANGED stream
  PROVE  \A c, type : Announced(c, type)' <=> Announced(c, type)
BY DEF Announced

(* A step of one worker slot on one command: the others keep what they have. *)
LEMMA OneCommand ==
  ASSUME Inv, NEW w \in Workers, NEW c \in Commands,
         \A v \in Workers \ {w} : run'[v] = run[v],
         run[w].cmd = c \/ run[w].pc \notin Handling,
         run'[w].cmd = c \/ run'[w].pc \notin Handling,
         \A d \in Commands \ {c} : /\ row'[d] = row[d] /\ moves'[d] = moves[d]
                                   /\ \A type : Announced(d, type)' <=> Announced(d, type),
         CmdInv(c)'
  PROVE  \A d \in Commands : CmdInv(d)'
<1> SUFFICES ASSUME NEW d \in Commands \ {c}
             PROVE  CmdInv(d)'
  OBVIOUS
<1>1. CmdInv(d)
  BY DEF Inv
<1>2. \A v \in Workers : /\ Owner(v, d)' <=> Owner(v, d)
                         /\ Owner(v, d) => run'[v] = run[v]
  BY DEF Owner
<1>3. /\ Silent(d)' <=> Silent(d)
      /\ NoEvents(d)' <=> NoEvents(d)
      /\ FirstEvent(d)' <=> FirstEvent(d)
      /\ Done(d)' <=> Done(d)
  BY DEF Silent, NoEvents, FirstEvent, Done
<1>4. \A v \in Workers : Owner(v, d) => (Progress(v, d)' <=> Progress(v, d))
  BY <1>2, <1>3 DEF Progress
<1> QED
  BY <1>1, <1>2, <1>3, <1>4 DEF CmdInv

(* A slot stops working on its command, or never did; no row changes.       *)
LEMMA OwnersLeave ==
  ASSUME Inv, NEW w \in Workers, run'[w].pc \notin Handling, UNCHANGED <<row, moves, stream>>,
         \A v \in Workers \ {w} : run'[v] = run[v]
  PROVE  \A c \in Commands : CmdInv(c)'
<1> SUFFICES ASSUME NEW c \in Commands
             PROVE  CmdInv(c)'
  OBVIOUS
<1>1. CmdInv(c)
  BY DEF Inv
<1>2. \A v \in Workers : Owner(v, c)' => Owner(v, c) /\ run'[v] = run[v]
  BY DEF Owner
<1>3. /\ Silent(c)' <=> Silent(c)
      /\ NoEvents(c)' <=> NoEvents(c)
      /\ FirstEvent(c)' <=> FirstEvent(c)
      /\ Done(c)' <=> Done(c)
      /\ Announced(c, "DeliveryStatusChanged")' <=> Announced(c, "DeliveryStatusChanged")
  BY EventsStay DEF Silent, NoEvents, FirstEvent, Done
<1>4. \A v \in Workers : Owner(v, c)' /\ Progress(v, c) => Progress(v, c)'
  BY <1>2, <1>3 DEF Progress
<1> QED
  BY <1>1, <1>2, <1>3, <1>4 DEF CmdInv

(* The slot moves on; its job, its user and its command stay.               *)
LEMMA GotoFacts ==
  ASSUME TypeOK, NEW w \in Workers, NEW step, Goto(w, step)
  PROVE  /\ run'[w] = [run[w] EXCEPT !.pc = step] /\ run'[w].pc = step
         /\ run'[w].cmd = run[w].cmd /\ run'[w].to = run[w].to /\ run'[w].error = run[w].error
         /\ \A v \in Workers \ {w} : run'[v] = run[v]
BY DEF Goto, TypeOK, RunType

LEMMA GotoTyped ==
  ASSUME Inv, NEW w \in Workers, run[w].pc # "idle",
         NEW step \in {"begin", "read", "announce", "changed", "finish", "returned"}, Goto(w, step)
  PROVE  run' \in [Workers -> RunType] /\ RunInv'
<1>1. run[w] \in RunType /\ run[w].cmd \in Commands
  BY DEF Inv, TypeOK, RunInv
<1>2. [run[w] EXCEPT !.pc = step] \in RunType
  BY <1>1 DEF RunType
<1>3. run' \in [Workers -> RunType]
  BY <1>2 DEF Goto, Inv, TypeOK
<1>4. run'[w].pc # "write" /\ run'[w].cmd = run[w].cmd /\ \A v \in Workers \ {w} : run'[v] = run[v]
  BY GotoFacts DEF Inv
<1>5. RunInv'
  BY <1>1, <1>4 DEF Inv, RunInv
<1> QED
  BY <1>3, <1>5


EventType == [type : {"DeliveryStarted", "DeliveryCompleted", "DeliveryStatusChanged"}, cmd : Commands]

LEMMA EventAdded ==
  ASSUME stream \in Seq(EventType), NEW e \in EventType, stream' = Append(stream, e)
  PROVE  /\ stream' \in Seq(EventType)
         /\ Len(stream') = Len(stream) + 1 /\ stream'[Len(stream) + 1] = e
         /\ \A i \in 1..Len(stream) : stream'[i] = stream[i]
         /\ \A c, type : Announced(c, type)' <=> Announced(c, type) \/ (c = e.cmd /\ type = e.type)
         /\ ~Announced(e.cmd, e.type) /\ UniqueEvents => UniqueEvents'
<1>1. /\ stream' \in Seq(EventType)
      /\ Len(stream') = Len(stream) + 1 /\ stream'[Len(stream) + 1] = e
      /\ \A i \in 1..Len(stream) : stream'[i] = stream[i]
      /\ Len(stream) \in Nat
  OBVIOUS
<1>2. \A c, type : Announced(c, type)' <=> Announced(c, type) \/ (c = e.cmd /\ type = e.type)
  <2> SUFFICES ASSUME NEW c, NEW type
               PROVE  Announced(c, type)' <=> Announced(c, type) \/ (c = e.cmd /\ type = e.type)
    OBVIOUS
  <2>1. \A i : i \in 1..Len(stream') <=> i \in 1..Len(stream) \/ i = Len(stream) + 1
    BY <1>1
  <2> QED
    BY <1>1, <2>1 DEF Announced
<1>3. ASSUME ~Announced(e.cmd, e.type), UniqueEvents
      PROVE  UniqueEvents'
  <2> SUFFICES ASSUME NEW i \in 1..Len(stream'), NEW j \in 1..Len(stream'),
                      stream'[i].cmd = stream'[j].cmd, stream'[i].type = stream'[j].type
               PROVE  i = j
    BY DEF UniqueEvents
  <2>1. (i \in 1..Len(stream) \/ i = Len(stream) + 1) /\ (j \in 1..Len(stream) \/ j = Len(stream) + 1)
    BY <1>1
  <2>2. \A k \in 1..Len(stream) : ~(stream[k].cmd = e.cmd /\ stream[k].type = e.type)
    BY <1>3 DEF Announced
  <2> QED
    BY <1>1, <1>3, <2>1, <2>2 DEF UniqueEvents
<1> QED
  BY <1>1, <1>2, <1>3

-----------------------------------------------------------------------------
(* The steps of the owner                                                   *)

LEMMA RowWritten ==
  ASSUME Inv, NEW c \in Commands, NEW s \in {"PENDING", "PROCESSING", "COMPLETED"},
         row' = [row EXCEPT ![c].status = s]
  PROVE  /\ row' \in [Commands -> CommandRowType]
         /\ row'[c].status = s /\ row'[c].attempts = row[c].attempts
         /\ \A d \in Commands \ {c} : row'[d] = row[d]
<1>1. row[c] \in CommandRowType
  BY DEF Inv, TypeOK
<1> DEFINE r == [row[c] EXCEPT !.status = s]
<1>2. r \in CommandRowType /\ r.status = s /\ r.attempts = row[c].attempts
  BY <1>1 DEF CommandRowType
<1>3. row' = [row EXCEPT ![c] = r]
  OBVIOUS
<1> HIDE DEF r
<1> QED
  BY <1>2, <1>3 DEF Inv, TypeOK

LEMMA RegisterKeeps ==
  ASSUME Inv, NEW w \in Workers, Register(w)
  PROVE  Inv'
<1> PICK c \in Commands : c = run[w].cmd
  BY DEF Inv, RunInv, Register
<1>0. c \in Commands /\ run[w].pc = "register" /\ UNCHANGED <<job, delivery, moves, stream, faults>>
  BY DEF Inv, RunInv, Register
<1>1. CmdInv(c) /\ run[w] \in RunType
  BY <1>0 DEF Inv, TypeOK
<1>2. CASE row[c].status = "NONE"
  <2>1. row' = [row EXCEPT ![c].status = "PENDING"] /\ Goto(w, "begin")
    BY <1>2 DEF Register, NotRegistered
  <2>2. /\ row' \in [Commands -> CommandRowType]
        /\ row'[c].status = "PENDING" /\ row'[c].attempts = row[c].attempts
        /\ \A d \in Commands \ {c} : row'[d] = row[d]
    BY <1>0, <2>1, RowWritten
  <2>3. /\ run'[w].pc = "begin" /\ run'[w].cmd = c
        /\ \A v \in Workers \ {w} : run'[v] = run[v]
    BY <2>1, GotoFacts DEF Inv
  <2>4. \A v \in Workers : ~Owner(v, c)
    BY <1>1, <1>2 DEF CmdInv
  <2>5. \A v \in Workers : Owner(v, c)' => v = w
    BY <2>3, <2>4 DEF Owner
  <2>6. Silent(c)' /\ row'[c].attempts = 0
    BY <1>0, <1>1, <1>2, <2>2, EventsStay DEF CmdInv, Silent, NoEvents
  <2>7. Progress(w, c)'
    BY <2>3, <2>6 DEF Progress
  <2>8. CmdInv(c)'
    BY <2>2, <2>5, <2>6, <2>7 DEF CmdInv, Silent
  <2>9. \A d \in Commands : CmdInv(d)'
    BY <1>0, <2>2, <2>3, <2>8, OneCommand, EventsStay DEF Handling
  <2>10. run' \in [Workers -> RunType] /\ RunInv'
    BY <1>0, <2>1, GotoTyped
  <2> QED
    BY <1>0, <2>2, <2>9, <2>10 DEF Inv, TypeOK, JobLimits, UniqueEvents
<1>3. CASE row[c].status # "NONE"
  <2>1. UNCHANGED row /\ Goto(w, "returned")
    BY <1>3 DEF Register, NotRegistered
  <2>2. /\ run'[w].pc = "returned" /\ run'[w].cmd = c
        /\ \A v \in Workers \ {w} : run'[v] = run[v]
    BY <2>1, GotoFacts DEF Inv
  <2>3. run' \in [Workers -> RunType] /\ RunInv'
    BY <1>0, <2>1, GotoTyped
  <2>4. \A d \in Commands : CmdInv(d)'
    BY <1>0, <2>1, <2>2, OwnersLeave DEF Handling
  <2> QED
    BY <1>0, <2>1, <2>3, <2>4 DEF Inv, TypeOK, JobLimits, UniqueEvents
<1> QED
  BY <1>2, <1>3

LEMMA BeginKeeps ==
  ASSUME Inv, NEW w \in Workers, Begin(w)
  PROVE  Inv'
<1> PICK c \in Commands : c = run[w].cmd
  BY DEF Inv, RunInv, Begin
<1>0. c \in Commands /\ run[w].pc = "begin" /\ UNCHANGED <<job, delivery, moves, stream, faults>>
  BY DEF Inv, RunInv, Begin
<1>1. CmdInv(c) /\ Owner(w, c) /\ Silent(c) /\ row[c].attempts = 0
  BY <1>0 DEF Inv, CmdInv, Owner, Handling, Progress
<1>2. row' = [row EXCEPT ![c].status = "PROCESSING"] /\ Goto(w, "read")
  BY DEF Begin
<1>3. /\ row' \in [Commands -> CommandRowType]
      /\ row'[c].status = "PROCESSING" /\ row'[c].attempts = row[c].attempts
      /\ \A d \in Commands \ {c} : row'[d] = row[d]
  BY <1>0, <1>2, RowWritten
<1>4. run'[w].pc = "read" /\ run'[w].cmd = c /\ \A v \in Workers \ {w} : run'[v] = run[v]
  BY <1>2, GotoFacts DEF Inv
<1>5. \A v \in Workers : Owner(v, c)' => v = w
  BY <1>1, <1>4 DEF Owner, CmdInv
<1>6. Silent(c)'
  BY <1>0, <1>1, EventsStay DEF Silent, NoEvents
<1>7. CmdInv(c)'
  BY <1>1, <1>3, <1>4, <1>5, <1>6 DEF CmdInv, Progress, Silent
<1>8. \A d \in Commands : CmdInv(d)'
  BY <1>0, <1>3, <1>4, <1>7, OneCommand, EventsStay
<1>9. run' \in [Workers -> RunType] /\ RunInv'
  BY <1>0, <1>2, GotoTyped
<1> QED
  BY <1>0, <1>3, <1>8, <1>9 DEF Inv, TypeOK, JobLimits, UniqueEvents

LEMMA ReadKeeps ==
  ASSUME Inv, NEW w \in Workers, Read(w)
  PROVE  Inv'
<1> PICK c \in Commands : c = run[w].cmd
  BY DEF Inv, RunInv, Read
<1>0. c \in Commands /\ run[w].pc = "read" /\ UNCHANGED <<job, row, delivery, moves, stream, faults>>
  BY DEF Inv, RunInv, Read
<1>1. CmdInv(c) /\ Owner(w, c) /\ Silent(c) /\ run[w] \in RunType
  BY <1>0 DEF Inv, TypeOK, CmdInv, Owner, Handling, Progress
<1>2. PICK p \in {"write", "fail"}, e \in {"NONE", "FORBIDDEN", "BAD_REQUEST"} :
        /\ run' = [run EXCEPT ![w].pc = p, ![w].error = e]
        /\ p = "fail" => e # "NONE"
        /\ p = "write" => run[w].to \in TRANSICIONES_VALIDAS[delivery[EntregaOf[c]]]
  BY DEF Read
<1> DEFINE r == [run[w] EXCEPT !.pc = p, !.error = e]
<1>3. run' = [run EXCEPT ![w] = r] /\ r \in RunType
  BY <1>1, <1>2 DEF RunType
<1>4. r.pc = p /\ r.error = e /\ r.cmd = c /\ r.to = run[w].to
  BY <1>1 DEF RunType
<1> HIDE DEF r
<1>5. /\ run' \in [Workers -> RunType] /\ run'[w] = r
      /\ \A v \in Workers \ {w} : run'[v] = run[v]
  BY <1>3 DEF Inv, TypeOK
<1>6. RunInv'
  <2>1. delivery[EntregaOf[c]] \in DeliveryEstados
    BY <1>0, DeliveriesAssumption DEF Inv, TypeOK
  <2>2. TRANSICIONES_VALIDAS[delivery[EntregaOf[c]]] \subseteq DeliveryEstados
    BY <2>1 DEF TRANSICIONES_VALIDAS, DeliveryEstados
  <2> QED
    BY <1>0, <1>2, <1>4, <1>5, <2>2 DEF RunInv, Inv
<1>7. \A v \in Workers : Owner(v, c)' => v = w
  BY <1>1, <1>5 DEF Owner, CmdInv
<1>8. Silent(c)' /\ (Done(c)' <=> Done(c))
  BY <1>0, <1>1, EventsStay DEF Silent, NoEvents, Done, FirstEvent
<1>9. Progress(w, c)'
  BY <1>2, <1>4, <1>5, <1>8 DEF Progress, Silent
<1>10. CmdInv(c)'
  BY <1>0, <1>1, <1>7, <1>8, <1>9 DEF CmdInv, Silent
<1>11. \A d \in Commands : CmdInv(d)'
  BY <1>0, <1>4, <1>5, <1>10, OneCommand, EventsStay
<1> QED
  BY <1>0, <1>5, <1>6, <1>11 DEF Inv, TypeOK, JobLimits, UniqueEvents

LEMMA WriteKeeps ==
  ASSUME Inv, NEW w \in Workers, WriteEstado(w)
  PROVE  Inv'
<1> PICK c \in Commands : c = run[w].cmd
  BY DEF Inv, RunInv, WriteEstado
<1>0. /\ c \in Commands /\ run[w].pc = "write" /\ run[w].to \in DeliveryEstados
      /\ UNCHANGED <<job, row, stream, faults>>
  BY DEF Inv, RunInv, WriteEstado
<1>1. CmdInv(c) /\ Owner(w, c) /\ Silent(c) /\ row[c].status \in {"PENDING", "PROCESSING"}
  BY <1>0 DEF Inv, CmdInv, Owner, Handling, Progress
<1>2. /\ delivery' = [delivery EXCEPT ![EntregaOf[c]] = run[w].to] /\ Goto(w, "announce")
      /\ moves' = [moves EXCEPT ![c] = @ + 1]
  BY DEF WriteEstado
<1>3. run'[w].pc = "announce" /\ run'[w].cmd = c /\ \A v \in Workers \ {w} : run'[v] = run[v]
  BY <1>2, GotoFacts DEF Inv
<1>4. moves'[c] = 1 /\ moves' \in [Commands -> Nat] /\ \A d \in Commands \ {c} : moves'[d] = moves[d]
  BY <1>0, <1>1, <1>2 DEF Inv, TypeOK, Silent
<1>5. \A v \in Workers : Owner(v, c)' => v = w
  BY <1>1, <1>3 DEF Owner, CmdInv
<1>6. NoEvents(c)'
  BY <1>0, <1>1, EventsStay DEF Silent, NoEvents
<1>7. CmdInv(c)'
  BY <1>0, <1>1, <1>3, <1>4, <1>5, <1>6 DEF CmdInv, Progress
<1>8. \A d \in Commands : CmdInv(d)'
  BY <1>0, <1>3, <1>4, <1>7, OneCommand, EventsStay
<1>9. run' \in [Workers -> RunType] /\ RunInv'
  BY <1>0, <1>2, GotoTyped
<1>10. delivery' \in [Entregas -> DeliveryEstados]
  BY <1>0, <1>2 DEF Inv, TypeOK
<1> QED
  BY <1>0, <1>4, <1>8, <1>9, <1>10 DEF Inv, TypeOK, JobLimits, UniqueEvents

(* The two events, one after the other.                                     *)
LEMMA PublishKeeps ==
  ASSUME Inv, NEW w \in Workers, NEW type \in {"DeliveryStarted", "DeliveryCompleted", "DeliveryStatusChanged"},
         NEW step \in {"changed", "finish"}, run[w].pc # "idle", Publish(w, type), Goto(w, step),
         UNCHANGED <<job, row, delivery, moves, faults>>,
         NEW c \in Commands, c = run[w].cmd, ~Announced(c, type), Owner(w, c), Progress(w, c)'
  PROVE  Inv'
<1> DEFINE e == [type |-> type, cmd |-> c]
<1>1. CmdInv(c) /\ stream \in Seq(EventType)
  BY DEF Inv, TypeOK, EventType
<1>2. e \in EventType /\ stream' = Append(stream, e) /\ e.cmd = c /\ e.type = type
  BY <1>1 DEF EventType, Publish
<1> HIDE DEF e
<1>3. /\ stream' \in Seq(EventType) /\ UniqueEvents'
      /\ \A d, k : Announced(d, k)' <=> Announced(d, k) \/ (d = c /\ k = type)
  BY <1>1, <1>2, EventAdded DEF Inv
<1>4. run'[w].pc = step /\ run'[w].cmd = c /\ \A v \in Workers \ {w} : run'[v] = run[v]
  BY GotoFacts DEF Inv
<1>5. \A v \in Workers : Owner(v, c)' => v = w
  BY <1>1, <1>4 DEF Owner, CmdInv
<1>6. row[c].status \in {"PENDING", "PROCESSING"} /\ row[c].attempts = 0
  BY <1>1 DEF CmdInv
<1>7. CmdInv(c)'
  BY <1>1, <1>5, <1>6 DEF CmdInv
<1>8. \A d \in Commands : CmdInv(d)'
  BY <1>1, <1>3, <1>4, <1>7, OneCommand
<1>9. run' \in [Workers -> RunType] /\ RunInv'
  BY GotoTyped
<1> QED
  BY <1>3, <1>8, <1>9 DEF Inv, TypeOK, JobLimits, EventType

LEMMA AnnounceKeeps ==
  ASSUME Inv, NEW w \in Workers, Announce(w)
  PROVE  Inv'
<1> PICK c \in Commands : c = run[w].cmd
  BY DEF Inv, RunInv, Announce
<1>1. PICK type \in {"DeliveryStarted", "DeliveryCompleted"} : Publish(w, type)
  BY DEF Announce
<1>2. run[w].pc = "announce" /\ Goto(w, "changed") /\ UNCHANGED <<job, row, delivery, moves, faults>>
  BY DEF Announce
<1>3. c \in Commands /\ CmdInv(c) /\ Owner(w, c) /\ moves[c] = 1 /\ NoEvents(c)
  BY <1>2 DEF Inv, RunInv, CmdInv, Owner, Handling, Progress
<1>4. \A d, k : Announced(d, k)' <=> Announced(d, k) \/ (d = c /\ k = type)
  <2> DEFINE e == [type |-> type, cmd |-> c]
  <2>1. e \in EventType /\ stream' = Append(stream, e) /\ e.cmd = c /\ e.type = type
    BY <1>1, <1>3 DEF EventType, Publish
  <2>2. stream \in Seq(EventType)
    BY DEF Inv, TypeOK, EventType
  <2> HIDE DEF e
  <2> QED
    BY <2>1, <2>2, EventAdded
<1>5. run'[w].pc = "changed"
  BY <1>2, GotoFacts DEF Inv
<1>6. Progress(w, c)'
  BY <1>2, <1>3, <1>4, <1>5 DEF Progress, FirstEvent, NoEvents
<1> QED
  BY <1>1, <1>2, <1>3, <1>6, PublishKeeps DEF NoEvents

LEMMA PublishChangedKeeps ==
  ASSUME Inv, NEW w \in Workers, PublishChanged(w)
  PROVE  Inv'
<1> DEFINE type == "DeliveryStatusChanged"
<1> PICK c \in Commands : c = run[w].cmd
  BY DEF Inv, RunInv, PublishChanged
<1>2. /\ run[w].pc = "changed" /\ Publish(w, type) /\ Goto(w, "finish")
      /\ UNCHANGED <<job, row, delivery, moves, faults>>
  BY DEF PublishChanged
<1>3. /\ c \in Commands /\ CmdInv(c) /\ Owner(w, c) /\ moves[c] = 1 /\ FirstEvent(c)
      /\ ~Announced(c, type)
  BY <1>2 DEF Inv, RunInv, CmdInv, Owner, Handling, Progress
<1>4. \A d, k : Announced(d, k)' <=> Announced(d, k) \/ (d = c /\ k = type)
  <2> DEFINE e == [type |-> type, cmd |-> c]
  <2>1. e \in EventType /\ stream' = Append(stream, e) /\ e.cmd = c /\ e.type = type
    BY <1>2, <1>3 DEF EventType, Publish
  <2>2. stream \in Seq(EventType)
    BY DEF Inv, TypeOK, EventType
  <2> HIDE DEF e
  <2> QED
    BY <2>1, <2>2, EventAdded
<1>5. run'[w].pc = "finish"
  BY <1>2, GotoFacts DEF Inv
<1>6. Progress(w, c)'
  BY <1>2, <1>3, <1>4, <1>5 DEF Progress, FirstEvent, Done
<1> QED
  BY <1>2, <1>3, <1>6, PublishKeeps

LEMMA FinishKeeps ==
  ASSUME Inv, NEW w \in Workers, Finish(w)
  PROVE  Inv'
<1> PICK c \in Commands : c = run[w].cmd
  BY DEF Inv, RunInv, Finish
<1>0. run[w].pc = "finish" /\ UNCHANGED <<job, delivery, moves, stream, faults>>
  BY DEF Finish
<1>1. CmdInv(c) /\ Owner(w, c) /\ Done(c) /\ row[c].attempts = 0
  BY <1>0 DEF Inv, CmdInv, Owner, Handling, Progress
<1>2. row' = [row EXCEPT ![c].status = "COMPLETED"] /\ Goto(w, "returned")
  BY DEF Finish
<1>3. /\ row' \in [Commands -> CommandRowType]
      /\ row'[c].status = "COMPLETED" /\ row'[c].attempts = row[c].attempts
      /\ \A d \in Commands \ {c} : row'[d] = row[d]
  BY <1>0, <1>2, RowWritten
<1>4. run'[w].pc = "returned" /\ run'[w].cmd = c /\ \A v \in Workers \ {w} : run'[v] = run[v]
  BY <1>2, GotoFacts DEF Inv
<1>5. \A v \in Workers : ~Owner(v, c)'
  BY <1>1, <1>4 DEF Owner, CmdInv, Handling
<1>6. Done(c)'
  BY <1>0, <1>1, EventsStay DEF Done, FirstEvent
<1>7. CmdInv(c)'
  BY <1>1, <1>3, <1>5, <1>6 DEF CmdInv, Done
<1>8. \A d \in Commands : CmdInv(d)'
  BY <1>0, <1>3, <1>4, <1>7, OneCommand, EventsStay
<1>9. run' \in [Workers -> RunType] /\ RunInv'
  BY <1>0, <1>2, GotoTyped
<1> QED
  BY <1>0, <1>3, <1>8, <1>9 DEF Inv, TypeOK, JobLimits, UniqueEvents

(* A failure is recorded as FAILED only when the check had refused.         *)
LEMMA FailKeeps ==
  ASSUME Inv, NEW w \in Workers, Fail(w)
  PROVE  Inv'
<1> PICK c \in Commands : c = run[w].cmd
  BY DEF Inv, RunInv, Fail
<1>0. run[w].pc = "fail" /\ UNCHANGED <<job, delivery, moves, stream, faults>> /\ run[w] \in RunType
  BY DEF Fail, Inv, TypeOK
<1>1. /\ CmdInv(c) /\ Owner(w, c) /\ row[c].attempts = 0 /\ moves[c] \in {0, 1}
      /\ run[w].error = "INTERNAL_ERROR" \/ moves[c] = 0
  BY <1>0 DEF Inv, CmdInv, Owner, Handling, Progress
<1> DEFINE s == FailureStatus(run[w].error, 1)
           r == [status |-> s, attempts |-> 1]
<1>2. row' = [row EXCEPT ![c] = r] /\ Goto(w, "returned")
  BY <1>1 DEF Fail
<1>3. s \in {"FAILED", "RETRYING"} /\ (s = "FAILED" => moves[c] = 0)
  BY <1>1 DEF FailureStatus
<1>4. r \in CommandRowType /\ r.status = s
  BY <1>3 DEF CommandRowType
<1> HIDE DEF s, r
<1>5. row' \in [Commands -> CommandRowType] /\ row'[c] = r /\ \A d \in Commands \ {c} : row'[d] = row[d]
  BY <1>2, <1>4 DEF Inv, TypeOK
<1>6. run'[w].pc = "returned" /\ run'[w].cmd = c /\ \A v \in Workers \ {w} : run'[v] = run[v]
  BY <1>2, GotoFacts DEF Inv
<1>7. \A v \in Workers : ~Owner(v, c)'
  BY <1>1, <1>6 DEF Owner, CmdInv, Handling
<1>8. CmdInv(c)'
  BY <1>0, <1>1, <1>3, <1>4, <1>5, <1>7 DEF CmdInv
<1>9. \A d \in Commands : CmdInv(d)'
  BY <1>0, <1>5, <1>6, <1>8, OneCommand, EventsStay
<1>10. run' \in [Workers -> RunType] /\ RunInv'
  BY <1>0, <1>2, GotoTyped
<1> QED
  BY <1>0, <1>5, <1>9, <1>10 DEF Inv, TypeOK, JobLimits, UniqueEvents

(* An error in the try block sends the owner to the catch block; one        *)
(* outside it ends the attempt.                                             *)
LEMMA ErrorKeeps ==
  ASSUME Inv, NEW w \in Workers, Error(w)
  PROVE  Inv'
<1> PICK c \in Commands : c = run[w].cmd
  BY DEF Inv, RunInv, Error
<1> DEFINE p == AfterError(run[w].pc)
           r == [run[w] EXCEPT !.pc = p, !.error = "INTERNAL_ERROR"]
<1>0. /\ UNCHANGED <<job, row, delivery, moves, stream>> /\ faults' \in 0..MaxFaults
      /\ run[w] \in RunType /\ run' = [run EXCEPT ![w] = r]
      /\ p \in {"threw", "fail"}
      /\ p = "fail" => run[w].pc \in Handling
  <2>1. UNCHANGED <<job, row, delivery, moves, stream>> /\ faults' \in 0..MaxFaults
    BY DeliveriesAssumption DEF Error, Fault, Inv, TypeOK
  <2>2. run[w] \in RunType
    BY DEF Inv, TypeOK
  <2>3. p \in {"threw", "fail"} /\ (p = "fail" => run[w].pc \in Handling)
    BY DEF Error, AfterError, Handling
  <2>4. run' = [run EXCEPT ![w] = r]
    <3>1. run' = [run EXCEPT ![w] = [run[w] EXCEPT !.pc = AfterError(run[w].pc),
                                                   !.error = "INTERNAL_ERROR"]]
      BY DEF Error, Inv, TypeOK
    <3> QED
      BY <3>1
  <2> QED
    BY <2>1, <2>2, <2>3, <2>4
<1>1. r \in RunType
  BY <1>0 DEF RunType
<1>2. r.pc = p /\ r.error = "INTERNAL_ERROR" /\ r.cmd = c
  BY <1>0 DEF RunType
<1> HIDE DEF p, r
<1>3. /\ run' \in [Workers -> RunType] /\ run'[w] = r
      /\ \A v \in Workers \ {w} : run'[v] = run[v]
  BY <1>0, <1>1 DEF Inv, TypeOK
<1>4. RunInv'
  BY <1>0, <1>2, <1>3 DEF Inv, RunInv
<1>5. CASE p = "threw"
  <2>1. \A d \in Commands : CmdInv(d)'
    BY <1>0, <1>2, <1>3, <1>5, OwnersLeave DEF Handling
  <2> QED
    BY <1>0, <1>3, <1>4, <2>1 DEF Inv, TypeOK, JobLimits, UniqueEvents
<1>6. CASE p = "fail"
  <2>1. CmdInv(c) /\ Owner(w, c)
    BY <1>0, <1>6 DEF Inv, Owner
  <2>2. \A v \in Workers : Owner(v, c)' => v = w
    BY <1>3, <2>1 DEF Owner, CmdInv
  <2>3. Progress(w, c)'
    BY <1>2, <1>3, <1>6 DEF Progress
  <2>4. /\ Silent(c)' <=> Silent(c)
        /\ Done(c)' <=> Done(c)
    BY <1>0, EventsStay DEF Silent, NoEvents, FirstEvent, Done
  <2>5. CmdInv(c)'
    BY <1>0, <2>1, <2>2, <2>3, <2>4 DEF CmdInv
  <2>6. \A d \in Commands : CmdInv(d)'
    BY <1>0, <1>2, <1>3, <2>1, <2>5, OneCommand, EventsStay DEF Owner
  <2> QED
    BY <1>0, <1>3, <1>4, <2>6 DEF Inv, TypeOK, JobLimits, UniqueEvents
<1> QED
  BY <1>0, <1>5, <1>6

-----------------------------------------------------------------------------
(* The steps of the queue                                                   *)

(* A job changes and its slots do not.                                      *)
LEMMA JobKeeps ==
  ASSUME Inv, NEW c \in Commands, NEW j \in JobType,
         j.state \in {"waiting", "active"} => j.made < MaxAttempts /\ j.stalls <= MaxStalls,
         job' = [job EXCEPT ![c] = j]
  PROVE  job' \in [Commands -> JobType] /\ JobLimits'
BY DEF Inv, TypeOK, JobLimits

LEMMA QueueOnly ==
  ASSUME Inv, job' \in [Commands -> JobType], JobLimits', faults' \in 0..MaxFaults,
         UNCHANGED <<row, run, delivery, moves, stream>>
  PROVE  Inv'
<1>1. \A c \in Commands : CmdInv(c)'
  <2> SUFFICES ASSUME NEW c \in Commands
               PROVE  CmdInv(c)'
    OBVIOUS
  <2>1. CmdInv(c)
    BY DEF Inv
  <2>2. /\ Silent(c)' <=> Silent(c)
        /\ NoEvents(c)' <=> NoEvents(c)
        /\ FirstEvent(c)' <=> FirstEvent(c)
        /\ Done(c)' <=> Done(c)
        /\ Announced(c, "DeliveryStatusChanged")' <=> Announced(c, "DeliveryStatusChanged")
    BY EventsStay DEF Silent, NoEvents, FirstEvent, Done
  <2>3. \A w \in Workers : (Owner(w, c)' <=> Owner(w, c)) /\ (Progress(w, c)' <=> Progress(w, c))
    BY <2>2 DEF Owner, Progress
  <2> QED
    BY <2>1, <2>2, <2>3 DEF CmdInv
<1> QED
  BY <1>1 DEF Inv, TypeOK, RunInv, UniqueEvents

LEMMA AbsentTyped == AbsentJob \in JobType /\ AbsentJob.state = "absent" /\ AbsentJob.made = 0
                     /\ AbsentJob.stalls = 0
BY DeliveriesAssumption DEF AbsentJob, JobType

LEMMA SubmitKeeps ==
  ASSUME Inv, NEW c \in Commands, NEW u \in Sellers, NEW to \in DeliveryEstados, Submit(c, u, to)
  PROVE  Inv'
<1> DEFINE j == [AbsentJob EXCEPT !.state = "waiting", !.user = u, !.to = to]
<1>1. job' = [job EXCEPT ![c] = j] /\ UNCHANGED <<row, run, delivery, moves, stream, faults>>
  BY DEF Submit
<1>2. j \in JobType /\ j.made = 0 /\ j.stalls = 0
  BY AbsentTyped DEF JobType
<1> HIDE DEF j
<1>3. job' \in [Commands -> JobType] /\ JobLimits'
  <2>1. 0 < MaxAttempts /\ 0 <= MaxStalls
    BY DeliveriesAssumption
  <2>2. j.made < MaxAttempts /\ j.stalls <= MaxStalls
    BY <1>2, <2>1
  <2> QED
    BY <1>1, <1>2, <2>2, JobKeeps
<1> QED
  BY <1>1, <1>3, QueueOnly DEF Inv, TypeOK

LEMMA PruneKeeps ==
  ASSUME Inv, NEW c \in Commands, PruneCompleted(c)
  PROVE  Inv'
<1>1. job' \in [Commands -> JobType] /\ JobLimits'
  BY AbsentTyped, JobKeeps DEF PruneCompleted
<1> QED
  BY <1>1, QueueOnly DEF PruneCompleted, Inv, TypeOK

LEMMA RedeliverTyped ==
  ASSUME Inv, NEW c \in Commands, job[c].state = "active", Redeliver(c)
  PROVE  job' \in [Commands -> JobType] /\ JobLimits'
<1> DEFINE n == job[c].stalls + 1
           s == IF n > MaxStalls THEN "failed" ELSE "waiting"
           j == [job[c] EXCEPT !.stalls = n, !.lock = None, !.state = s]
<1>1. job[c] \in JobType /\ job[c].made < MaxAttempts /\ job[c].stalls <= MaxStalls
  BY DEF Inv, TypeOK, JobLimits
<1>2. /\ n \in 0..(MaxStalls + 1) /\ s \in {"failed", "waiting"}
      /\ s = "waiting" => n <= MaxStalls
  BY <1>1, DeliveriesAssumption DEF JobType
<1>3. job' = [job EXCEPT ![c] = j]
  BY DEF Redeliver
<1> HIDE DEF n, s
<1>4. j \in JobType
  BY <1>1, <1>2 DEF JobType
<1>5. j.state = s /\ j.made = job[c].made /\ j.stalls = n
  BY <1>1 DEF JobType
<1> HIDE DEF j
<1> QED
  BY <1>1, <1>2, <1>3, <1>4, <1>5, JobKeeps

LEMMA StallKeeps ==
  ASSUME Inv, NEW c \in Commands, RecoverStalled(c) \/ FalseStall(c)
  PROVE  Inv'
<1>1. job' \in [Commands -> JobType] /\ JobLimits'
  BY RedeliverTyped DEF RecoverStalled, FalseStall
<1>2. faults' \in 0..MaxFaults /\ UNCHANGED <<row, run, delivery, moves, stream>>
  BY DeliveriesAssumption DEF RecoverStalled, FalseStall, Fault, Inv, TypeOK
<1> QED
  BY <1>1, <1>2, QueueOnly

(* A slot that takes a job, or is done with it, works on no command.        *)
LEMMA SlotOnly ==
  ASSUME Inv, NEW w \in Workers, NEW r \in RunType, r.pc \in {"idle", "register"},
         r.pc = "register" => r.cmd \in Commands,
         run' = [run EXCEPT ![w] = r], job' \in [Commands -> JobType], JobLimits',
         faults' \in 0..MaxFaults, UNCHANGED <<row, delivery, moves, stream>>
  PROVE  Inv'
<1>1. /\ run' \in [Workers -> RunType] /\ run'[w] = r
      /\ \A v \in Workers \ {w} : run'[v] = run[v]
  BY DEF Inv, TypeOK
<1>2. \A c \in Commands : CmdInv(c)'
  BY <1>1, OwnersLeave DEF Handling
<1>3. RunInv'
  BY <1>1 DEF Inv, RunInv
<1> QED
  BY <1>1, <1>2, <1>3 DEF Inv, TypeOK, UniqueEvents

LEMMA IdleTyped == IdleRun \in RunType /\ IdleRun.pc = "idle"
BY DEF IdleRun, RunType

LEMMA TakeKeeps ==
  ASSUME Inv, NEW w \in Workers, NEW c \in Commands, Take(w, c)
  PROVE  Inv'
<1> DEFINE j == [job[c] EXCEPT !.state = "active", !.lock = w]
           r == [IdleRun EXCEPT !.pc = "register", !.cmd = c, !.user = job[c].user, !.to = job[c].to]
<1>1. /\ job' = [job EXCEPT ![c] = j] /\ run' = [run EXCEPT ![w] = r]
      /\ UNCHANGED <<row, delivery, moves, stream, faults>>
  BY DEF Take
<1>2. job[c] \in JobType /\ job[c].made < MaxAttempts /\ job[c].stalls <= MaxStalls
  BY DEF Inv, TypeOK, JobLimits, Take
<1>3. j \in JobType
  BY <1>2 DEF JobType
<1>4. j.made = job[c].made /\ j.stalls = job[c].stalls
  BY <1>2 DEF JobType
<1>5. job[c].user \in Sellers \cup {None} /\ job[c].to \in DeliveryEstados \cup {"NONE"}
  BY <1>2 DEF JobType
<1>6. r \in RunType
  BY <1>5, IdleTyped DEF RunType
<1>7. r.pc = "register" /\ r.cmd = c
  BY IdleTyped DEF RunType
<1> HIDE DEF j, r
<1>8. job' \in [Commands -> JobType] /\ JobLimits'
  BY <1>1, <1>2, <1>3, <1>4, JobKeeps
<1> QED
  BY <1>1, <1>6, <1>7, <1>8, SlotOnly DEF Inv, TypeOK

(* BullMQ books an attempt; one that has lost its lock is not counted.      *)
LEMMA SettleKeeps ==
  ASSUME Inv, NEW w \in Workers, Settle(w)
  PROVE  Inv'
<1> PICK c \in Commands : c = run[w].cmd
  BY DEF Inv, RunInv, Settle
<1> DEFINE n == job[c].made + 1
           s == IF run[w].pc = "returned" THEN "completed"
                ELSE IF n < MaxAttempts THEN "waiting" ELSE "failed"
           j == [job[c] EXCEPT !.made = n, !.state = s, !.lock = None]
<1>1. /\ IF job[c].state = "active" /\ job[c].lock = w THEN job' = [job EXCEPT ![c] = j] ELSE job' = job
      /\ run' = [run EXCEPT ![w] = IdleRun] /\ UNCHANGED <<row, delivery, moves, stream, faults>>
  BY DEF Settle
<1>2. CASE job[c].state = "active"
  <2>1. job[c] \in JobType /\ job[c].made < MaxAttempts /\ job[c].stalls <= MaxStalls
    BY <1>2 DEF Inv, TypeOK, JobLimits
  <2>2. /\ n \in 0..MaxAttempts /\ s \in {"completed", "waiting", "failed"}
        /\ s = "waiting" => n < MaxAttempts
    BY <2>1, DeliveriesAssumption DEF JobType
  <2> HIDE DEF n, s
  <2>3. j \in JobType
    BY <2>1, <2>2 DEF JobType
  <2>4. j.state = s /\ j.made = n /\ j.stalls = job[c].stalls
    BY <2>1 DEF JobType
  <2> HIDE DEF j
  <2>5. job' \in [Commands -> JobType] /\ JobLimits'
    BY <1>1, <2>1, <2>2, <2>3, <2>4, JobKeeps DEF Inv, TypeOK, JobLimits
  <2> QED
    BY <1>1, <2>5, IdleTyped, SlotOnly DEF Inv, TypeOK
<1>3. CASE job[c].state # "active"
  BY <1>1, <1>3, IdleTyped, SlotOnly DEF Inv, TypeOK, JobLimits
<1> QED
  BY <1>2, <1>3

LEMMA CrashKeeps ==
  ASSUME Inv, NEW w \in Workers, Crash(w)
  PROVE  Inv'
<1>1. faults' \in 0..MaxFaults
  BY DeliveriesAssumption DEF Crash, Fault, Inv, TypeOK
<1> QED
  BY <1>1, IdleTyped, SlotOnly DEF Crash, Inv, TypeOK, JobLimits

LEMMA StepInv == Inv /\ [Next]_vars => Inv'
<1> SUFFICES ASSUME Inv, [Next]_vars
             PROVE  Inv'
  OBVIOUS
<1>1. CASE UNCHANGED vars
  BY <1>1, QueueOnly DEF vars, Inv, TypeOK, JobLimits
<1>2. ASSUME NEW w \in Workers, WorkerStep(w)
      PROVE  Inv'
  BY <1>2, RegisterKeeps, BeginKeeps, ReadKeeps, WriteKeeps, AnnounceKeeps, PublishChangedKeeps,
     FinishKeeps, FailKeeps, SettleKeeps DEF WorkerStep
<1> QED
  BY <1>1, <1>2, SubmitKeeps, PruneKeeps, StallKeeps, TakeKeeps, ErrorKeeps, CrashKeeps DEF Next

LEMMA Invariance == Spec => []Inv
BY InitInv, StepInv, PTL DEF Spec

-----------------------------------------------------------------------------
(* Types and limits: the attempts and stalls BullMQ grants a job, and the   *)
(* attempts that the row of a failed command has counted.                   *)
THEOREM Typed == Spec => []TypeOK
<1>1. Inv => TypeOK
  BY DEF Inv
<1> QED
  BY <1>1, Invariance, PTL

(* Stalled, redelivered or sent again, a command moves its delivery once at *)
(* most, and announces the move once: the unique keys of registerPending(). *)
THEOREM ActedOnce == Spec => []ActsOnce
<1>1. Inv => ActsOnce
  BY DEF Inv, CmdInv, UniqueEvents, ActsOnce
<1> QED
  BY <1>1, Invariance, PTL

(* COMPLETED and FAILED rows tell what happened, under every fault.         *)
THEOREM Truthful == Spec => []TruthfulReport
<1>1. Inv => TruthfulReport
  <2> SUFFICES ASSUME Inv, NEW c \in Commands
               PROVE  /\ row[c].status = "COMPLETED" =>
                           /\ Moved(c)
                           /\ Announced(c, "DeliveryStatusChanged")
                           /\ Announced(c, "DeliveryStarted") \/ Announced(c, "DeliveryCompleted")
                      /\ row[c].status = "FAILED" => ~Moved(c)
    BY DEF TruthfulReport
  <2>1. CmdInv(c)
    BY DEF Inv
  <2> QED
    BY <2>1 DEF CmdInv, Done, FirstEvent, Moved
<1> QED
  BY <1>1, Invariance, PTL
=============================================================================
