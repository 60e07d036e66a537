CONSTANTS
    Trees <- MCTrees
    Broken <- MCBroken
    Blind <- MCBlind
    Runners = {r1, r2}
    Verifiers = {v1}
    MaxEvents = 2
    None = None
SPECIFICATION Spec
INVARIANT ProofEarned
INVARIANT RejectedForReason
CHECK_DEADLOCK FALSE
SYMMETRY Symmetry
