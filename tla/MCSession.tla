------------------------------ MODULE MCSession ------------------------------
(* Two clients given one credential, two handlers of the receiver. *)
EXTENDS Session, TLC

CONSTANTS c1, c2, h1, h2

MCClients == {c1, c2}
MCHandlers == {h1, h2}
Symmetry == Permutations(MCClients) \cup Permutations(MCHandlers)
=============================================================================
