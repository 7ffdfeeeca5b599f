---------------------------- MODULE MCFulfilment ----------------------------
(* Instance of Fulfilment for TLC: two of three messages have one text. *)
EXTENDS Fulfilment, TLC

CONSTANTS hello, key

MCTemplate == <<hello, hello, key>>
Symmetry == Permutations(Requests)
=============================================================================
