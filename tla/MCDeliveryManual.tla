-------------------------- MODULE MCDeliveryManual --------------------------
(* Instance of DeliveryManual for TLC. *)
EXTENDS DeliveryManual, TLC

Symmetry == Permutations(Tasks) \cup Permutations(Requests) \cup Permutations(Cards)
=============================================================================
