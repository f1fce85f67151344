------------------------------ MODULE OrderTrail ------------------------------
(***************************************************************************)
(* What the status history of an order promises, free of requests, reads   *)
(* and database updates: each order has a trail of steps, every step is    *)
(* taken from where the last one ended, by someone who may take it.        *)
(* OrderLifecycle implements this specification.                           *)
(***************************************************************************)
EXTENDS Sequences

CONSTANTS
  Orders,
  SellerMoves,  \* the pairs <<from, to>> that the seller may make
  OwnerMoves,   \* the pairs <<from, to>> that the owner may make
  Sellers,      \* [Orders -> SUBSET of the users who act for the order's seller]
  Owner,        \* [Orders -> the cliente's user]
  New           \* the estado of an order just placed

VARIABLE trail  \* [Orders -> sequence of [from, to, by]], empty: not placed yet

Init == trail = [o \in Orders |-> << >>]

Place(o) ==
  /\ trail[o] = << >>
  /\ trail' = [trail EXCEPT ![o] = <<[from |-> "NONE", to |-> New, by |-> Owner[o]]>>]

MaySteer(o, step) ==
  \/ <<step.from, step.to>> \in SellerMoves /\ step.by \in Sellers[o]
  \/ <<step.from, step.to>> \in OwnerMoves /\ step.by = Owner[o]

Steps == [from : {m[1] : m \in SellerMoves \cup OwnerMoves},
          to : {m[2] : m \in SellerMoves \cup OwnerMoves},
          by : (UNION {Sellers[o] : o \in Orders}) \cup {Owner[o] : o \in Orders}]

Move(o) ==
  /\ trail[o] # << >>
  /\ \E step \in Steps :
       /\ step.from = trail[o][Len(trail[o])].to
       /\ MaySteer(o, step)
       /\ trail' = [trail EXCEPT ![o] = Append(@, step)]

Next == \E o \in Orders : Place(o) \/ Move(o)

Spec == Init /\ [][Next]_trail
=============================================================================
