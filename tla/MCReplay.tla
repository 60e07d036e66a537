------------------------------ MODULE MCReplay ------------------------------
(* InputJournal and Replay on a small instance. *)
EXTENDS Replay

AllPoints == {"RENAMED", "PREFIX", "SCAN", "REAPPLIED", "IDLE", "NEXT", "RAW",
              "RECEIVED", "APPLIED", "CONFIRMED"}

(* Every point but the one between renaming the journal and rewriting it. *)
PointsOutsideRename == AllPoints \ {"RENAMED"}

Symmetry == Permutations(Bodies)
=============================================================================
