----------------------------- MODULE MCDelivery -----------------------------
(* Instance of Delivery for TLC: orders, tasks and cards are interchangeable. *)
EXTENDS Delivery, TLC

Symmetry == Permutations(Orders) \cup Permutations(Tasks) \cup Permutations(Cards)
=============================================================================
