------------------------------- MODULE MCBackend -------------------------------
(***************************************************************************)
(* The handlers of orders-service on carts and on placed orders, and the   *)
(* delivery commands of entregas-service, checked side by side: every      *)
(* behaviour is one of a single part, so the state space is the sum of     *)
(* theirs.                                                                 *)
(***************************************************************************)
EXTENDS Cart, MCDeliveries, OrderLifecycle

VARIABLE part  \* the part of this behaviour

backendVars == <<part, cartVars, lifecycleVars, vars>>

(* What products-service has in stock matters to the carts only. *)
BackendInit ==
  /\ part \in {"cart", "orders", "deliveries"}
  /\ CartInit /\ LifecycleInit /\ Init
  /\ part # "cart" => \A p \in Products : stock[p] = MaxStock

(* Bound: two commands meet one fault, a command alone meets MaxFaults.      *)
Started(c) == job[c] # AbsentJob \/ row[c].status # "NONE"
FewFaults == faults <= 1 \/ (\A c, d \in Commands : Started(c) /\ Started(d) => c = d)

BackendNext ==
  /\ UNCHANGED part
  /\ \/ part = "cart" /\ CartNext /\ UNCHANGED <<lifecycleVars, vars>>
     \/ part = "orders" /\ LifecycleNext /\ UNCHANGED <<cartVars, vars>>
     \/ part = "deliveries" /\ Next /\ FewFaults' /\ UNCHANGED <<cartVars, lifecycleVars>>

BackendSpec == BackendInit /\ [][BackendNext]_backendVars

(* Every part keeps its types and limits. *)
BackendTypeOK ==
  /\ part = "cart" => CartTypeOK
  /\ part = "orders" => LifecycleTypeOK
  /\ part = "deliveries" => TypeOK

(* One product: the rows of two share nothing but the cart.                  *)
CONSTANT agua

(* One order (orders share nothing) of the cliente ana with the seller norte, *)
(* whose user is rosa, another cliente, another seller's user, a super-admin, *)
(* and three requests in flight at a time.                                   *)
CONSTANTS o1, ana, luis, root, norte, sur, w3

MCRoleOf == [u \in {ana, luis, rosa, pepe, root} |->
  IF u \in {ana, luis} THEN "CLIENTE"
  ELSE IF u \in {rosa, pepe} THEN "VENDEDOR" ELSE "SUPER_ADMIN"]
MCProfileOf == [u \in {ana, luis, rosa, pepe, root} |->
  IF u = rosa THEN norte ELSE IF u = pepe THEN sur ELSE Nobody]
MCOwnerOf == [o \in {o1} |-> ana]
MCSellerOf == [o \in {o1} |-> norte]

(* Slots have no identity: those of the three parts have the same names, so  *)
(* that one permutation renames all of them.                                *)
BackendSymmetry == DeliveriesSymmetry
=============================================================================
