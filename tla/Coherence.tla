------------------------------ MODULE Coherence ------------------------------
(***************************************************************************)
(* Epochs and shocks in the discovery store: one coherence controller, its *)
(* epochs, shocks, resnapshot proofs and the history of its transitions,   *)
(* as the CHECKs and triggers of discovery-store-v1.sql let the writers    *)
(* change them.                                                            *)
(*                                                                         *)
(* The writers are the ingest store, which reads the controller inside its *)
(* transaction (ingest.py, _gap), and the recovery operations of           *)
(* gap_coherence_crash_child.py, which SELECT the controller first and     *)
(* then open a transaction with the first INSERT: the row they fill their  *)
(* transition with, seen[w], may be stale by then.  An operation whose     *)
(* rows a CHECK or a trigger refuses rolls back, and is simply not a step. *)
(* The operations name their rows epoch:1, proof:1, shock:1 and so on;     *)
(* here each use takes a name not used before, and an epoch's name is its  *)
(* generation.  Timestamps, hashes and the run and fixture columns, which  *)
(* all rows share, are left out; the three mappings of a proof, which the  *)
(* guards treat alike, are one.                                            *)
(***************************************************************************)
EXTENDS Naturals, FiniteSets

CONSTANTS
  Writers,      \* processes that run the recovery operations
  Streams,      \* streams of the run
  MainStream,   \* the stream the run starts with
  None,         \* NULL
  LastShock,    \* bound: shocks are 1 .. LastShock
  LastEpoch     \* bound: epochs and generations are 0 .. LastEpoch

ASSUME BoundsAssumption ==
  /\ LastShock \in Nat /\ LastEpoch \in Nat
  /\ MainStream \in Streams
  /\ None \notin Nat

VARIABLES
  ctl,          \* the coherence_controllers row
  epochs,       \* coherence_epochs
  proofs,       \* authoritative_resnapshot_proofs, all OBSERVED
  shocks,       \* shock_observations: id -> type
  transitions,  \* coherence_transitions
  closures,     \* proofs with a mapping in clock_mapping_closures
  generation,   \* the active generation of each stream, None before it is opened
  cursors,      \* streams' generations with a verified reducer cursor
  seen,         \* the controller row each writer read last
  early         \* history: the cursors there were when the last shock was observed

coherenceVars == <<ctl, epochs, proofs, shocks, transitions, closures, generation, cursors, seen, early>>

OpenStates == {"OPEN", "NEW_EPOCH_OPEN"}

\* The shock types gap_epoch_binding_requires_atomic_coherence_close admits, and the others.
ShockTypes == {"GAP_LIKE", "OTHER"}

CoherenceInit ==
  /\ ctl = [state |-> "OPEN", current |-> 0, candidate |-> None, predecessor |-> None, shock |-> None]
  /\ epochs = {[id |-> 0, predecessor |-> None, proof |-> None]}
  /\ proofs = {}
  /\ shocks = << >>
  /\ transitions = {}
  /\ closures = {}
  /\ generation = [s \in Streams |-> IF s = MainStream THEN 0 ELSE None]
  /\ cursors = {}
  /\ seen = [w \in Writers |-> ctl]
  /\ early = {}

-----------------------------------------------------------------------------
(* What the schema admits.                                                 *)

Row(reason, from, predecessor, candidate, shock, proof) ==
  [reason |-> reason, from |-> from, predecessor |-> predecessor,
   candidate |-> candidate, shock |-> shock, proof |-> proof]

\* Mutant: without the UNIQUE, a generation may name a second epoch.
EpochFitsAgain(e) == e.predecessor # None

\* UNIQUE (run_id, fixture_id, generation) and the CHECK on an epoch with a predecessor.
EpochFits(e) == e.predecessor # None /\ \A other \in epochs : other.id # e.id

\* The proof is the one its epoch opens with, and binds the two epochs and the shock.
Binds(p, e, predecessor, candidate, shock) ==
  /\ e.id = candidate /\ e.predecessor = predecessor /\ e.proof = p.id
  /\ p.candidate = candidate /\ p.predecessor = predecessor /\ p.shock = shock

\* authoritative_resnapshot_proof_binding_guard.
ProofAdmitted(p, es) ==
  /\ \E e \in es : Binds(p, e, p.predecessor, p.candidate, p.shock)
  /\ \E t \in transitions : /\ t.reason = "SHOCK_ATOMIC_CLOSE"
                            /\ t.predecessor = p.predecessor /\ t.shock = p.shock
  /\ p.cursor \in cursors /\ p.cursor[2] = p.candidate

\* Mutant: clock_mapping_closures is not looked up.
MappingsForgotten(p) == TRUE

\* The three mappings of a proof are still open.
MappingsOpen(p) == p \notin closures

\* coherence_transition_binding_guard; two of the reasons have no binding to check.
TransitionAdmitted(t, es, ps) ==
  CASE t.reason = "SHOCK_ATOMIC_CLOSE" ->
         t.from = ctl.state /\ t.from \in OpenStates /\ t.predecessor = ctl.current
    [] t.reason \in {"RESNAPSHOT_CANDIDATE_ACCEPTED", "RELEASE_PREDICATE_SATISFIED"} ->
         /\ ctl.state = t.from
         /\ t.predecessor = ctl.current /\ t.shock = ctl.shock
         /\ MappingsOpen(t.proof)
         /\ \E e \in es, p \in ps :
              /\ p.id = t.proof
              /\ Binds(p, e, t.predecessor, t.candidate, t.shock)
              /\ t.from = "NEW_EPOCH_PENDING" =>
                   t.candidate = ctl.candidate /\ generation[p.cursor[1]] = p.cursor[2]
    [] OTHER -> TRUE

\* The CHECK on a controller row: a candidate, other than the current epoch, just while pending.
RowChecked(row) == IF row.state = "NEW_EPOCH_PENDING" THEN row.candidate \notin {None, row.current}
                                                      ELSE row.candidate = None

\* Mutant: the trigger on UPDATE is not there.
UpdateUnguarded(new, history) == TRUE

\* coherence_controller_update_guard, with the history it looks the transition up in.
UpdateAdmitted(new, history) ==
  LET Logged(reason, candidate, shock) ==
        \E t \in history : /\ t.reason = reason /\ t.from = ctl.state
                           /\ t.predecessor = ctl.current
                           /\ t.candidate = candidate /\ t.shock = shock
  IN  \/ /\ ctl.state \in OpenStates /\ new.state = "SHOCKED_CLOSED"
         /\ Logged("SHOCK_ATOMIC_CLOSE", None, new.shock)
      \/ /\ ctl.state = "SHOCKED_CLOSED" /\ new.state = "WAITING_FOR_RESNAPSHOT"
         /\ new.shock = ctl.shock
      \/ /\ ctl.state = "WAITING_FOR_RESNAPSHOT" /\ new.state = "NEW_EPOCH_PENDING"
         /\ Logged("RESNAPSHOT_CANDIDATE_ACCEPTED", new.candidate, ctl.shock)
      \/ /\ ctl.state = "NEW_EPOCH_PENDING" /\ new.state = "NEW_EPOCH_OPEN"
         /\ new.current = ctl.candidate /\ new.predecessor = ctl.current
         /\ Logged("RELEASE_PREDICATE_SATISFIED", ctl.candidate, ctl.shock)
      \/ /\ ctl.state = "NEW_EPOCH_PENDING" /\ new.state = "WAITING_FOR_RESNAPSHOT"
         /\ new.shock # ctl.shock

\* Mutant: a store created without its triggers and CHECKs.
CommitUnguarded(t, new, es, ps) ==
  /\ ctl' = new /\ epochs' = es /\ proofs' = ps
  /\ transitions' = transitions \cup {t}

\* A transaction that logs one transition and moves the controller to match it.
Commit(t, new, es, ps) ==
  /\ TransitionAdmitted(t, es, ps)
  /\ RowChecked(new) /\ UpdateAdmitted(new, transitions \cup {t})
  /\ ctl' = new /\ epochs' = es /\ proofs' = ps
  /\ transitions' = transitions \cup {t}

-----------------------------------------------------------------------------
(* The operations.                                                         *)

NewShock == Cardinality(DOMAIN shocks) + 1

\* shock_observations: a shock not seen before, of some type.
Observe(type) ==
  /\ NewShock <= LastShock
  /\ shocks' = [s \in DOMAIN shocks \cup {NewShock} |-> IF s = NewShock THEN type ELSE shocks[s]]
  /\ early' = cursors

\* The SELECT every recovery operation starts with.
Read(w) ==
  /\ seen' = [seen EXCEPT ![w] = ctl]
  /\ UNCHANGED <<ctl, epochs, proofs, shocks, transitions, closures, generation, cursors, early>>

\* ingest.py:377-478: one transaction closes the generation, the epoch and opens a successor.
Gap(s) ==
  /\ ctl.state \in OpenStates
  /\ generation[s] # None /\ generation[s] < LastEpoch
  /\ Observe("GAP_LIKE")
  /\ Commit(Row("SHOCK_ATOMIC_CLOSE", ctl.state, ctl.current, None, NewShock, None),
            [ctl EXCEPT !.state = "SHOCKED_CLOSED", !.shock = NewShock], epochs, proofs)
  /\ generation' = [generation EXCEPT ![s] = generation[s] + 1]
  /\ UNCHANGED <<closures, cursors, seen>>

\* A shock that is not a gap of the stream.
ShockClose(w, type) ==
  /\ Observe(type)
  /\ Commit(Row("SHOCK_ATOMIC_CLOSE", seen[w].state, seen[w].current, None, NewShock, None),
            [ctl EXCEPT !.state = "SHOCKED_CLOSED", !.shock = NewShock], epochs, proofs)
  /\ UNCHANGED <<closures, generation, cursors, seen>>

\* _waiting: the close is recorded.
Waiting(w) ==
  /\ Commit(Row("CLOSE_RECORDED", "SHOCKED_CLOSED", seen[w].current, None, seen[w].shock, None),
            [ctl EXCEPT !.state = "WAITING_FOR_RESNAPSHOT"], epochs, proofs)
  /\ UNCHANGED <<shocks, closures, generation, cursors, seen, early>>

\* _seed_epoch_continuity: under a shock that a gap may be bound to, a new stream is opened
\* and its generation 0 closed at once in favour of generation 1.
SeedGeneration(s) ==
  /\ ctl.state = "SHOCKED_CLOSED"
  /\ shocks[ctl.shock] = "GAP_LIKE"
  /\ generation[s] = None
  /\ generation' = [generation EXCEPT ![s] = 1]
  /\ UNCHANGED <<ctl, epochs, proofs, shocks, transitions, closures, cursors, seen, early>>

\* The first delivery of a generation leaves its cursor; it needs no controller.
Deliver(s) ==
  /\ generation[s] # None
  /\ <<s, generation[s]>> \notin cursors
  /\ cursors' = cursors \cup {<<s, generation[s]>>}
  /\ UNCHANGED <<ctl, epochs, proofs, shocks, transitions, closures, generation, seen, early>>

\* _pending: a candidate, the proof it opens with, and the controller on it.
Pending(w, s, n) ==
  LET e == [id |-> n, predecessor |-> seen[w].current, proof |-> n]
      p == [id |-> n, candidate |-> n, predecessor |-> seen[w].current,
            shock |-> seen[w].shock, cursor |-> <<s, n>>]
  IN  /\ EpochFits(e)
      /\ ProofAdmitted(p, epochs \cup {e})
      /\ Commit(Row("RESNAPSHOT_CANDIDATE_ACCEPTED", "WAITING_FOR_RESNAPSHOT",
                    seen[w].current, n, seen[w].shock, n),
                [ctl EXCEPT !.state = "NEW_EPOCH_PENDING", !.candidate = n,
                            !.predecessor = ctl.current],
                epochs \cup {e}, proofs \cup {p})
      /\ UNCHANGED <<shocks, closures, generation, cursors, seen, early>>

\* _release: the proof named is the candidate's.
Release(w) ==
  /\ Commit(Row("RELEASE_PREDICATE_SATISFIED", "NEW_EPOCH_PENDING", seen[w].current,
                seen[w].candidate, seen[w].shock, seen[w].candidate),
            [ctl EXCEPT !.state = "NEW_EPOCH_OPEN", !.current = ctl.candidate, !.candidate = None],
            epochs, proofs)
  /\ UNCHANGED <<shocks, closures, generation, cursors, seen, early>>

\* _new_shock_pending, which reads inside its transaction: the candidate is closed by a
\* later shock, and a further epoch is recorded after it, with the closed candidate's proof.
NewShockPending ==
  LET e == [id |-> ctl.candidate + 1, predecessor |-> ctl.candidate, proof |-> ctl.candidate]
  IN  /\ ctl.candidate # None
      /\ EpochFits(e) /\ e.id <= LastEpoch
      /\ Observe("OTHER")
      /\ Commit(Row("NEW_SHOCK_CLOSED_CANDIDATE", "NEW_EPOCH_PENDING", ctl.current,
                    ctl.candidate, NewShock, ctl.candidate),
                [ctl EXCEPT !.state = "WAITING_FOR_RESNAPSHOT", !.candidate = None,
                            !.shock = NewShock],
                epochs \cup {e}, proofs)
      /\ UNCHANGED <<closures, generation, cursors, seen>>

\* _close_mapping: a mapping is closed once, whatever the controller is doing.
CloseMapping(p) ==
  /\ p.id \notin closures
  /\ closures' = closures \cup {p.id}
  /\ UNCHANGED <<ctl, epochs, proofs, shocks, transitions, generation, cursors, seen, early>>

Recovering(w) ==
  \/ Waiting(w) \/ Release(w)
  \/ \E s \in Streams, n \in 1 .. LastEpoch : Pending(w, s, n)

CoherenceNext ==
  \/ \E s \in Streams : Gap(s) \/ SeedGeneration(s) \/ Deliver(s)
  \/ NewShockPending
  \/ \E p \in proofs : CloseMapping(p)
  \/ \E w \in Writers : \/ Read(w) \/ Recovering(w)
                        \/ \E type \in ShockTypes : ShockClose(w, type)

CoherenceSpec == CoherenceInit /\ [][CoherenceNext]_coherenceVars

\* For the question whether a closed candidate is ever followed: the writers keep reading
\* and recovering, and deliveries keep arriving.  Shocks are not owed.
FairSpec ==
  /\ CoherenceSpec
  /\ \A s \in Streams : WF_coherenceVars(Deliver(s))
  /\ \A w \in Writers : WF_coherenceVars(Read(w)) /\ SF_coherenceVars(Recovering(w))

-----------------------------------------------------------------------------
(* Correctness.                                                            *)

\* Epochs that a shock has closed, while they were current or while they were the candidate.
ClosedEpochs ==
  {t.predecessor : t \in {t \in transitions : t.reason = "SHOCK_ATOMIC_CLOSE"}} \cup
  {t.candidate : t \in {t \in transitions : t.reason = "NEW_SHOCK_CLOSED_CANDIDATE"}}

\* An epoch a shock has closed is never open again, nor a candidate to be opened
\* (coherence.py:50-51, CLOSED_FOREVER).
ClosedForever ==
  /\ ctl.state \in OpenStates => ctl.current \notin ClosedEpochs
  /\ ctl.candidate \notin ClosedEpochs

\* A pending candidate rests on a proof about the shock that is active now and the epoch it
\* closed, however old the writers' reading of the controller (E_RESNAPSHOT_CANDIDATE_BINDING).
PendingRestsOnProof ==
  ctl.state = "NEW_EPOCH_PENDING" =>
    \E p \in proofs : /\ p.candidate = ctl.candidate
                      /\ p.predecessor = ctl.current /\ p.shock = ctl.shock

\* What CoherenceController.evaluate_release asks of the candidate's proof, of which the
\* store's rows can tell: the flags for freshness, capability evidence and the fields of
\* the states come from outside.
EvaluatorReleases(p) ==
  /\ ctl.state = "NEW_EPOCH_PENDING" /\ ctl.candidate \notin {None, ctl.current}
  /\ ctl.current \in ClosedEpochs
  /\ p.candidate = ctl.candidate /\ p.predecessor = ctl.current
  /\ p.cursor \in cursors \ early /\ generation[p.cursor[1]] = p.cursor[2]
  /\ p.id \notin closures
  /\ p.shock = NewShock - 1

\* A release the triggers admit is one the evaluator would have accepted: none is pending
\* across a later shock, a closed mapping or a generation that has been replaced.
SchemaAsStrict ==
  \A p \in proofs :
    TransitionAdmitted(Row("RELEASE_PREDICATE_SATISFIED", "NEW_EPOCH_PENDING", ctl.current,
                           ctl.candidate, ctl.shock, p.id), epochs, proofs)
      => EvaluatorReleases(p)

\* Between the shock and the release a candidate stays bound to the shock it answers.
PendingAnswersShock == PendingRestsOnProof /\ SchemaAsStrict

\* A candidate is never released on evidence that was there before the shock: the cursor its
\* proof names is later (coherence.py:82, E_NOT_STRICTLY_POST_SHOCK).  The schema does not
\* compare times; this follows from a generation giving its name to one epoch only.
PostShockEvidence ==
  ctl.state = "NEW_EPOCH_OPEN" => \E p \in proofs : p.candidate = ctl.current /\ p.cursor \notin early

\* _validate_snapshot_relations: the rows a logged transition names fit together.
Related(t) ==
  /\ t.candidate # None =>
       \E e \in epochs : e.id = t.candidate /\ e.predecessor = t.predecessor
  /\ t.reason \in {"RESNAPSHOT_CANDIDATE_ACCEPTED", "RELEASE_PREDICATE_SATISFIED"} =>
       /\ t.proof \notin closures
       /\ \E p \in proofs : /\ p.id = t.proof /\ p.cursor \in cursors
                           /\ p.predecessor = t.predecessor
                           /\ p.candidate = t.candidate /\ p.shock = t.shock

\* The crash harness accepts the history of every store, unless a mapping was closed after
\* the proof had done its work: that it refuses (run_gap_coherence_crash_matrix.py:671).
HarnessAccepts == \A t \in transitions : Related(t) \/ t.proof \in closures

\* What a shock has closed does not come back, neither as an epoch nor as the evidence for
\* another (CLOSED_FOREVER, E_NOT_STRICTLY_POST_SHOCK), and the history says so.
NothingComesBack == ClosedForever /\ PostShockEvidence /\ HarnessAccepts

\* The triggers and CHECKs let the controller move only as the table of coherence.py does.
Promise == INSTANCE CoherenceTable WITH state <- ctl.state
FollowsTable == Promise!Spec

\* crash-harness-registry.v1.json:1377: once a new shock has closed the candidate, a new
\* distinct candidate is built.  The model shows that none can be.
CandidateClosed ==
  /\ ctl.state = "WAITING_FOR_RESNAPSHOT"
  /\ \E t \in transitions : t.reason = "NEW_SHOCK_CLOSED_CANDIDATE" /\ t.shock = ctl.shock
ClosedCandidateIsFollowed == CandidateClosed ~> ctl.state = "NEW_EPOCH_PENDING"
=============================================================================
