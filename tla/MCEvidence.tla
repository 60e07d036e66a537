----------------------------- MODULE MCEvidence -----------------------------
(* Four trees: t1 is sound; t2 fails the clock's case; t3 lets the clock's   *)
(* mutation survive; t4 fails the gap case and lets SQL's mutation survive. *)
EXTENDS Evidence

Symmetry == Permutations(Runners)
MCTrees == {"t1", "t2", "t3", "t4"}
MCBroken == {<<"t2", "CLOCK">>, <<"t4", "GAP">>}
MCBlind == {<<"t3", "CLOCK">>, <<"t4", "SQL">>}
=============================================================================
