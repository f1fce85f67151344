--------------------------- MODULE CommandOutcome ---------------------------
(***************************************************************************)
(* What `orders.create` promises to the cliente who sent the command, free *)
(* of queues, workers, attempts and database rows: a command is settled    *)
(* once, either by placing one order or by refusing it for good, and what  *)
(* the job-status endpoint finally tells agrees with how it was settled.   *)
(* OrderCommand implements this specification (see OrderCommandProofs).    *)
(***************************************************************************)
CONSTANT Commands   \* the commands, one per (cliente, vendedor, idempotency key)

VARIABLES
  outcome,  \* [Commands -> {"open", "ordered", "refused"}]: what happened
  told      \* [Commands -> {"pending", "ordered", "refused"}]: what is reported

cvars == <<outcome, told>>

Init ==
  /\ outcome = [c \in Commands |-> "open"]
  /\ told = [c \in Commands |-> "pending"]

(* The one order of the command is placed; nobody has been told yet. *)
Place(c) ==
  /\ outcome[c] = "open"
  /\ outcome' = [outcome EXCEPT ![c] = "ordered"]
  /\ UNCHANGED told

(* The order's placement is reported. *)
Report(c) ==
  /\ outcome[c] = "ordered"
  /\ told[c] = "pending"
  /\ told' = [told EXCEPT ![c] = "ordered"]
  /\ UNCHANGED outcome

(* The command is refused: no order was placed, and none ever will be. *)
Refuse(c) ==
  /\ outcome[c] = "open"
  /\ told[c] = "pending"
  /\ outcome' = [outcome EXCEPT ![c] = "refused"]
  /\ told' = [told EXCEPT ![c] = "refused"]

Next == \E c \in Commands : Place(c) \/ Report(c) \/ Refuse(c)

Spec == Init /\ [][Next]_cvars
=============================================================================
