------------------------------ MODULE MCSpool ------------------------------
(* Spool on a small instance: observations of two sizes, and a limit that  *)
(* admits two of the small ones or the large one alone.                    *)
EXTENDS Spool, TLC

CONSTANTS small, other, large

MCIds == {small, other, large}
MCSize == (small :> 1) @@ (other :> 1) @@ (large :> 2)

Symmetry == Permutations(Instances) \cup Permutations({small, other})
=============================================================================
