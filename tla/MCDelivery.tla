----------------------------- MODULE MCDelivery -----------------------------
(* Delivery on a small instance. *)
EXTENDS Delivery, TLC

Symmetry == Permutations(Slots)
=============================================================================
