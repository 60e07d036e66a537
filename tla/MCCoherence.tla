----------------------------- MODULE MCCoherence -----------------------------
(***************************************************************************)
(* Two writers, two streams, three shocks and epochs up to generation 3: a *)
(* shock, a candidate, a second shock that closes it or closes its epoch,  *)
(* and a third; a writer's snapshot may be any number of steps old.        *)
(***************************************************************************)
EXTENDS Coherence, TLC

Symmetry == Permutations(Writers)
==============================================================================
