---------------------------- MODULE MCOrderCommand ----------------------------
(* Two commands of one cliente, so that they compete for the same cart, and  *)
(* two worker slots.                                                         *)
EXTENDS OrderCommand, TLC

CONSTANTS c1, c2, ana, w1, w2, good, other

MCClienteOf == [c \in {c1, c2} |-> ana]
(* The commands share the cliente, no body is malformed in the runs that use *)
(* it, and slots have no identity in the code.                               *)
MCSymmetry ==
  Permutations({c1, c2}) \cup Permutations({w1, w2}) \cup Permutations({good, other})
=============================================================================
