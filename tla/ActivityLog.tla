----------------------------- MODULE ActivityLog -----------------------------
(***************************************************************************)
(* notifications-service: instances poll a Redis stream in one consumer    *)
(* group and write an activity log for every event, then acknowledge it.   *)
(* Other services may also create logs over TCP. A poll that rejects is an *)
(* unhandled rejection: the process ends, is restarted, and what it had    *)
(* read stays pending until it has been idle for a minute. One stream      *)
(* stands for all of them; a key stands for a dedupeKey: the entry itself, *)
(* or the requestId of a TCP request (without one nothing is compared).    *)
(***************************************************************************)
EXTENDS Naturals

CONSTANTS
  Pollers,     \* instances of the consumer
  Callers,     \* slots for TCP requests; those of an instance may be among them
  RequestIds,  \* requestIds of TCP requests
  MaxEntries,  \* bound: entries of the stream, fewer than READ_COUNT
  MaxDeaths    \* bound: failures that are not the entry's fault

ASSUME ActivityLogAssumption == MaxEntries \in Nat /\ MaxDeaths \in Nat

VARIABLES
  kind,    \* what each entry holds
  group,   \* the consumer group's state of each entry
  worker,  \* the poll or TCP request of each instance and caller
  rows,    \* activity_logs: rows with each dedupeKey
  deaths   \* failures so far

logVars == <<kind, group, worker, rows, deaths>>

Entries == 1..MaxEntries
Keys == Entries \cup RequestIds
Writers == Pollers \cup Callers
(* "event": supported by the mapper; "unsupported": no log is made of it;   *)
(* "malformed": has no `event` field of JSON; "poison": create() refuses it. *)
Kinds == {"event", "unsupported", "malformed", "poison"}
Resting == [at |-> "rest", batch |-> {}]

LogInit ==
  /\ kind = [e \in Entries |-> "none"]
  /\ group = [e \in Entries |-> "none"]
  /\ worker = [w \in Writers |-> Resting]
  /\ rows = [k \in Keys |-> 0]
  /\ deaths = 0

Become(w, r) == worker' = [worker EXCEPT ![w] = r]
At(w, step) == worker[w].at = step

(* messages[0], if any is left: whatever was delivered before is older than *)
(* what is new, so that the batch, a set, is handled oldest first.          *)
Current(w) == {k \in worker[w].batch : \A d \in worker[w].batch \ {k} : k < d}

(* Faulty variant: the answer of XAUTOCLAIM is not understood. *)
ReadNewOnly(state) == {e \in Entries : group[e] = state /\ state = "new" /\ kind[e] # "malformed"}

(* The entries of the group in a state; the parser drops the malformed ones. *)
Read(state) == {e \in Entries : group[e] = state /\ kind[e] # "malformed"}
Deliver(state) == group' = [e \in Entries |-> IF group[e] = state THEN "pending" ELSE group[e]]

-----------------------------------------------------------------------------
(* A producer adds the next entry. *)
Publish(k) ==
  \E e \in Entries :
    /\ kind[e] = "none" /\ \A d \in 1..(e - 1) : kind[d] # "none"
    /\ kind' = [kind EXCEPT ![e] = k]
    /\ group' = [group EXCEPT ![e] = "new"]
    /\ UNCHANGED <<worker, rows, deaths>>

(* PENDING_MIN_IDLE_MS go by, also for an entry somebody still works on. *)
Age(e) ==
  /\ group[e] = "pending"
  /\ group' = [group EXCEPT ![e] = "idle"]
  /\ UNCHANGED <<kind, worker, rows, deaths>>

(* pollOnce(): recoverPending(), *)
Recover(w) ==
  /\ w \in Pollers /\ At(w, "rest")
  /\ Become(w, [at |-> "recovered", batch |-> Read("idle")])
  /\ Deliver("idle")
  /\ UNCHANGED <<kind, rows, deaths>>

NextOf(batch) == IF batch = {} THEN Resting ELSE [at |-> "next", batch |-> batch]

(* then readGroup(). *)
ReadNew(w) ==
  /\ At(w, "recovered")
  /\ Become(w, NextOf(worker[w].batch \cup Read("new")))
  /\ Deliver("new")
  /\ UNCHANGED <<kind, rows, deaths>>

(* activity_logs.create: the same create() for one request. *)
Call(w, k) ==
  /\ w \in Callers /\ At(w, "rest")
  /\ Become(w, [at |-> "next", batch |-> {k}])
  /\ UNCHANGED <<kind, group, rows, deaths>>

Supported(k) == k \in RequestIds \/ kind[k] = "event"
Refused(k) == k \in Entries /\ kind[k] = "poison"

(* The mapper, and findByDedupeKey() of create(). *)
Find(w) == \E k \in Current(w) :
  /\ At(w, "next")
  /\ ~Refused(k)
  /\ Become(w, [worker[w] EXCEPT !.at =
       IF Supported(k) /\ rows[k] = 0 THEN "absent" ELSE "done"])
  /\ UNCHANGED <<kind, group, rows, deaths>>

(* Faulty variant: without the unique index. *)
InsertAny(k) == rows' = [rows EXCEPT ![k] = @ + 1]

(* The index on dedupeKey is unique: a duplicate is read again instead. *)
Insert(k) == rows' = [rows EXCEPT ![k] = IF @ = 0 THEN 1 ELSE @]

Create(w) == \E k \in Current(w) :
  /\ At(w, "absent")
  /\ Insert(k)
  /\ Become(w, [worker[w] EXCEPT !.at = "done"])
  /\ UNCHANGED <<kind, group, deaths>>

(* ack(); a TCP request is answered instead. *)
Ack(w) == \E k \in Current(w) :
  /\ At(w, "done")
  /\ group' = IF k \in Entries THEN [group EXCEPT ![k] = "acked"] ELSE group
  /\ Become(w, NextOf(worker[w].batch \ {k}))
  /\ UNCHANGED <<kind, rows, deaths>>

(* create() refuses the entry: the poll rejects, the rest of the batch stays *)
(* pending.                                                                 *)
Refuse(w) == \E k \in Current(w) :
  /\ At(w, "next") /\ Refused(k)
  /\ Become(w, Resting)
  /\ UNCHANGED <<kind, group, rows, deaths>>

(* Redis or MongoDB fails, or the process dies. A TCP caller gets an error. *)
Die(w) ==
  /\ ~At(w, "rest") /\ deaths < MaxDeaths
  /\ deaths' = deaths + 1
  /\ Become(w, Resting)
  /\ UNCHANGED <<kind, group, rows>>

LogNext ==
  \/ \E k \in Kinds : Publish(k)
  \/ \E e \in Entries : Age(e)
  \/ \E w \in Writers :
       \/ Recover(w) \/ ReadNew(w) \/ Find(w) \/ Create(w) \/ Ack(w) \/ Refuse(w) \/ Die(w)
       \/ \E k \in RequestIds : Call(w, k)

(* setInterval() polls again and again, a poll runs to its end, time passes. *)
PollStep(w) == Recover(w) \/ ReadNew(w) \/ Find(w) \/ Create(w) \/ Ack(w) \/ Refuse(w)
LogFairness == /\ \A w \in Pollers : WF_logVars(PollStep(w))
               /\ \A e \in Entries : WF_logVars(Age(e))

LogSpec == LogInit /\ [][LogNext]_logVars /\ LogFairness

-----------------------------------------------------------------------------
(* Properties *)

LogTypeOK ==
  /\ kind \in [Entries -> Kinds \cup {"none"}]
  /\ group \in [Entries -> {"none", "new", "pending", "idle", "acked"}]
  /\ rows \in [Keys -> Nat] /\ deaths \in 0..MaxDeaths
  /\ worker \in [Writers -> [at : {"rest", "recovered", "next", "absent", "done"},
                             batch : SUBSET Keys]]

(* However often an entry is delivered, and however many instances and      *)
(* callers write at once: one log per dedupeKey, and none is missing for an *)
(* event that is acknowledged.                                              *)
LoggedOnce ==
  /\ \A k \in Keys : rows[k] <= 1
  /\ \A e \in Entries : group[e] = "acked" /\ kind[e] = "event" => rows[e] = 1

(* The log catches up with the stream, through deaths, restarts, malformed  *)
(* entries and instances that take entries from each other, unless some     *)
(* entry is refused: that one takes the batch behind it down each time it   *)
(* is recovered.                                                            *)
LogCatchesUp ==
  []<>\A e \in Entries : kind[e] # "event" \/ rows[e] = 1 \/ \E d \in Entries : kind[d] = "poison"
=============================================================================
