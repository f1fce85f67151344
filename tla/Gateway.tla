------------------------------- MODULE Gateway -------------------------------
(***************************************************************************)
(* The gateway between an HTTP request and the service that executes it:   *)
(* four guards may turn the request away, the provider of a cart or order  *)
(* is validated, then the command is sent over TCP with a timeout, and     *)
(* sent again after a timeout unless its mapping says retryOnTimeout:      *)
(* false, or it is queued. The service executes every command that reaches *)
(* it, however late, and may refuse. Where the windows of the rate limits  *)
(* stand is left open; the transport `publish`, which no mapping has, is   *)
(* left out.                                                               *)
(***************************************************************************)
EXTENDS Naturals, FiniteSets

CONSTANT Calls  \* HTTP requests

VARIABLES
  request,  \* the handler of each request
  command   \* the commands it sent: one for each attempt

gatewayVars == <<request, command>>

(* What ACTION_REGISTRY says of an action. auth, roles: a token, a role is   *)
(* required. scope: a vendedor must be named (cart, orders.create), may be  *)
(* named (orders), or is not looked at. Queued are orders.create and        *)
(* deliveries.update_status.                                                *)
Flags == [retry : BOOLEAN, auth : BOOLEAN, roles : BOOLEAN, queued : {FALSE},
          scope : {"must", "may", "none"}]
Mappings ==
  {m \in Flags : (m.roles \/ m.scope # "none" => m.auth) /\ (m.scope = "must" => m.roles)}
  \cup {[retry |-> FALSE, auth |-> TRUE, roles |-> TRUE, scope |-> "must", queued |-> TRUE],
        [retry |-> TRUE, auth |-> TRUE, roles |-> TRUE, scope |-> "none", queued |-> TRUE]}
Attempts == 1..2
Unused == [retry |-> TRUE, auth |-> FALSE, roles |-> FALSE, scope |-> "none", queued |-> FALSE]

GatewayInit ==
  /\ request = [c \in Calls |-> [mapping |-> Unused, at |-> "new", tries |-> 0, answer |-> "none"]]
  /\ command = [c \in Calls |-> [n \in Attempts |-> "unsent"]]

Answer(c, a) == request' = [request EXCEPT ![c].at = "over", ![c].answer = a]
GoesTo(c, step) == request' = [request EXCEPT ![c].at = step]

-----------------------------------------------------------------------------
(* The guards, in their order. `listed`: the path is a key of the registry,  *)
(* with no id behind it, so that a guard finds its mapping there.           *)

(* ProtectedRouteRateLimitGuard: counts protected requests that bring no     *)
(* valid token.                                                             *)
MayBeThrottled(m, token, listed) == listed /\ m.auth /\ token # "valid"

(* JwtAuthGuard: a public action takes any token or none. *)
JwtAuth(m, token, listed) == (m.auth \/ ~listed) => token = "valid"

(* RolesGuard. *)
RolesAllow(m, hasRole, listed) == m.roles /\ listed => hasRole

(* GatewayRateLimitGuard is the last: it counts every request that gets so   *)
(* far. A guard that turns a request away ends it.                          *)
Admit(c, m, token, hasRole, listed) ==
  LET passes == JwtAuth(m, token, listed) /\ RolesAllow(m, hasRole, listed)
      throttled == IF passes \/ MayBeThrottled(m, token, listed) THEN {"throttled"} ELSE {}
  IN
  /\ request[c].at = "new"
  /\ \E a \in {IF passes THEN "none" ELSE "rejected"} \cup throttled :
       request' = [request EXCEPT ![c].mapping = m, ![c].answer = a,
                                  ![c].at = IF a = "none" THEN "admitted" ELSE "over"]
  /\ UNCHANGED command

-----------------------------------------------------------------------------
(* parseActionPath() and resolve(): there is no such service or action, or   *)
(* its id is none.                                                          *)
Unresolved(c) == request[c].at = "admitted" /\ Answer(c, "rejected") /\ UNCHANGED command

(* handle...Action(), and whether there is a vendedor to validate. *)
Receive(c, named) ==
  LET m == request[c].mapping IN
  /\ request[c].at = "admitted"
  /\ request' = [request EXCEPT
       ![c].at = IF m.scope # "none" /\ named THEN "validate"
                 ELSE IF m.scope = "must" THEN "over" ELSE "dispatch",
       ![c].answer = IF m.scope = "must" /\ ~named THEN "rejected" ELSE @]
  /\ UNCHANGED command

(* validateProviderContext(): clientes.providers_select only reads, so its  *)
(* command is not followed; the cliente has the vendedor, or not, or the    *)
(* answer is late.                                                          *)
Validate(c) ==
  /\ request[c].at = "validate"
  /\ GoesTo(c, "dispatch") \/ Answer(c, "rejected")
  /\ UNCHANGED command

(* readOrdersCreateIdempotencyKey() and readDeliveriesIdempotencyKey(): in   *)
(* the header or in the body, but not two of them.                          *)
GivenKeys == {"none", "k1", "k2"}
IdempotencyKey(header, body) ==
  CASE header = "none" -> body
    [] body \in {"none", header} -> header
    [] OTHER -> "none"

(* enqueue(): the job is added, or Redis fails before or after that. *)
Enqueue(c, key) ==
  /\ request[c].at = "dispatch" /\ request[c].mapping.queued
  /\ \/ key = "none" /\ Answer(c, "rejected") /\ UNCHANGED command
     \/ key # "none" /\ Answer(c, "ok") /\ command' = [command EXCEPT ![c][1] = "done"]
     \/ /\ key # "none" /\ Answer(c, "broken")
        /\ \E s \in {"done", "unsent"} : command' = [command EXCEPT ![c][1] = s]

(* Faulty variant: every mapping is retried. *)
AlwaysTwice(m) == 2

(* maxAttempts. *)
MaxAttempts(m) == IF m.retry THEN 2 ELSE 1

(* sendWithRetry(): the first attempt, and another one after a timeout. *)
Send(c) ==
  LET n == request[c].tries + 1 IN
  /\ request[c].at = "dispatch" /\ ~request[c].mapping.queued
  /\ n <= MaxAttempts(request[c].mapping)
  /\ request' = [request EXCEPT ![c].at = "wait", ![c].tries = n]
  /\ command' = [command EXCEPT ![c][n] = "sent"]

TcpTimeout(c) ==
  /\ request[c].at = "wait"
  /\ IF request[c].tries = MaxAttempts(request[c].mapping) THEN Answer(c, "timeout")
     ELSE GoesTo(c, "dispatch")
  /\ UNCHANGED command

(* The service executes a command, in time or not, or refuses it. *)
Execute(c, n) ==
  /\ command[c][n] = "sent"
  /\ \E s \in {"done", "refused"} : command' = [command EXCEPT ![c][n] = s]
  /\ UNCHANGED request

(* The answer to the current attempt; an error that is not a timeout is     *)
(* not tried again, be it the service's or the connection's.                *)
Answered(c) ==
  LET s == command[c][request[c].tries] IN
  /\ request[c].at = "wait"
  /\ \/ s = "done" /\ Answer(c, "ok")
     \/ s = "refused" /\ Answer(c, "refused")
     \/ Answer(c, "broken")
  /\ UNCHANGED command

GatewayNext ==
  \E c \in Calls :
    \/ \E m \in Mappings, token \in {"none", "invalid", "valid"}, hasRole, listed \in BOOLEAN :
         Admit(c, m, token, hasRole, listed)
    \/ \E named \in BOOLEAN : Receive(c, named)
    \/ \E header, body \in GivenKeys : Enqueue(c, IdempotencyKey(header, body))
    \/ Unresolved(c) \/ Validate(c) \/ Send(c) \/ TcpTimeout(c) \/ Answered(c)
    \/ \E n \in Attempts : Execute(c, n)

GatewaySpec == GatewayInit /\ [][GatewayNext]_gatewayVars

-----------------------------------------------------------------------------
(* Properties *)

GatewayTypeOK ==
  /\ request \in [Calls -> [mapping : Mappings, tries : 0..2,
                            at : {"new", "admitted", "validate", "dispatch", "wait", "over"},
                            answer : {"none", "throttled", "rejected", "ok", "refused", "broken",
                                      "timeout"}]]
  /\ command \in [Calls -> [Attempts -> {"unsent", "sent", "done", "refused"}]]

(* What a client is told stays true, whatever is still executed after the   *)
(* answer: "throttled" and "rejected" mean nothing was and will be sent,    *)
(* "ok" means done, and for an action that is not retried "refused" means   *)
(* not done, and it is never done twice.                                    *)
AnswersAreTrue ==
  \A c \in Calls :
    LET r == request[c]
        did == {n \in Attempts : command[c][n] = "done"}
        once == ~r.mapping.retry \/ r.mapping.queued IN
      /\ r.answer \in {"throttled", "rejected"} => \A n \in Attempts : command[c][n] = "unsent"
      /\ r.answer = "ok" => did # {}
      /\ once => Cardinality(did) <= 1
      /\ once /\ r.answer = "refused" => did = {}
=============================================================================
