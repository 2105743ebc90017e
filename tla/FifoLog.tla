------------------------------ MODULE FifoLog ------------------------------
(***************************************************************************)
(* What a bounded single-consumer ring promises its two users: items are   *)
(* accepted in order, at most Capacity of them are outstanding, and they   *)
(* are delivered exactly once, in the order in which they were accepted.   *)
(* SpscRing implements this specification.                                 *)
(***************************************************************************)
EXTENDS Integers, Sequences

CONSTANTS Capacity, Data

VARIABLES accepted,   \* every item taken in so far, oldest first
          delivered   \* every item handed out so far, oldest first

Outstanding == Len(accepted) - Len(delivered)

Init == accepted = << >> /\ delivered = << >>

Accept(d) ==
  /\ Outstanding < Capacity
  /\ accepted' = Append(accepted, d)
  /\ UNCHANGED delivered

Deliver ==
  /\ Len(delivered) < Len(accepted)
  /\ delivered' = Append(delivered, accepted[Len(delivered) + 1])
  /\ UNCHANGED accepted

Next == Deliver \/ \E d \in Data : Accept(d)

Spec == Init /\ [][Next]_<<accepted, delivered>>
============================================================================
