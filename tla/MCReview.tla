------------------------------ MODULE MCReview ------------------------------
(***************************************************************************)
(* Both roles.                                                             *)
(***************************************************************************)
EXTENDS Review, TLC

Symmetry == Permutations(Procs) \cup Permutations(Auths) \cup Permutations(Roles)
=============================================================================
