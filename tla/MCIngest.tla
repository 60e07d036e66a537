------------------------------ MODULE MCIngest ------------------------------
(* Ingest on a small instance: symmetric streams and bodies. *)
EXTENDS Ingest, TLC

Symmetry == Permutations(Streams) \cup Permutations(Bodies)
=============================================================================
