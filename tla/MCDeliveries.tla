----------------------------- MODULE MCDeliveries -----------------------------
(* One delivery and the commands of its seller; slots have no identity.      *)
EXTENDS Deliveries, TLC

CONSTANTS d1, c1, c2, c3, rosa, pepe, w1, w2

MCEntregaOf == [c \in Commands |-> d1]
(* The rows hold the id that the gateway sends. *)
MCVendedorOf == [d \in {d1} |-> rosa]
DeliveriesSymmetry == Permutations(Commands) \cup Permutations(Workers)
=============================================================================
