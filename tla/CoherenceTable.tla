---------------------------- MODULE CoherenceTable ----------------------------
(***************************************************************************)
(* The state machine a coherence controller promises to follow: the table  *)
(* _TRANSITIONS of coherence.py, which clock-coherence.ts repeats for the  *)
(* extension.  Coherence.tla, where writers fill the discovery store and   *)
(* its triggers accept or abort, is shown to implement it.                 *)
(***************************************************************************)
VARIABLE state

\* coherence.py:4-11.  From a state, for a reason, to a state.
Table == {
  <<"OPEN", "SHOCK_ATOMIC_CLOSE", "SHOCKED_CLOSED">>,
  <<"NEW_EPOCH_OPEN", "SHOCK_ATOMIC_CLOSE", "SHOCKED_CLOSED">>,
  <<"SHOCKED_CLOSED", "CLOSE_RECORDED", "WAITING_FOR_RESNAPSHOT">>,
  <<"WAITING_FOR_RESNAPSHOT", "RESNAPSHOT_CANDIDATE_ACCEPTED", "NEW_EPOCH_PENDING">>,
  <<"NEW_EPOCH_PENDING", "RELEASE_PREDICATE_SATISFIED", "NEW_EPOCH_OPEN">>,
  <<"NEW_EPOCH_PENDING", "NEW_SHOCK_CLOSED_CANDIDATE", "WAITING_FOR_RESNAPSHOT">> }

\* A controller starts OPEN on the genesis epoch (offline_run.py:57-58).
Init == state = "OPEN"

\* coherence.py:27-31; a pair that is not in the table raises and changes nothing.
Transition(reason) == \E row \in Table : row[1] = state /\ row[2] = reason /\ state' = row[3]

Next == \E row \in Table : Transition(row[2])
Spec == Init /\ [][Next]_state
===============================================================================
