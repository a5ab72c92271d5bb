------------------------------ MODULE LossyFifo ------------------------------
(***************************************************************************)
(* What a queue that drops its oldest entries promises its producer: of the  *)
(* requests offered, numbered in the order they are offered, each is served   *)
(* at most once and in that order, and one is passed over only when Capacity  *)
(* later requests have been offered, that is, when the consumer fell behind   *)
(* by the whole queue.                                                     *)
(***************************************************************************)
EXTENDS Naturals

CONSTANT Capacity   \* how many requests the queue holds

VARIABLES
  offered,   \* the number of requests offered so far
  last       \* the number of the request served last, 0 before the first

vars == <<offered, last>>

Init == offered = 0 /\ last = 0

Offer == offered' = offered + 1 /\ UNCHANGED last

Serve ==
  \E n \in (last + 1)..offered :
    /\ \A m \in (last + 1)..(n - 1) : m + Capacity <= offered
    /\ last' = n
    /\ UNCHANGED offered

Next == Offer \/ Serve

Spec == Init /\ [][Next]_vars
=============================================================================
