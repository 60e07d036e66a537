------------------------------- MODULE Replay -------------------------------
(***************************************************************************)
(* verify_replay_equivalence (src/src/moj_discovery/replay.py) applied to  *)
(* the journal of InputJournal: the journalled deliveries and              *)
(* confirmations, in their order, in a fresh store through the same ingest,*)
(* and the properties of the journal that make the replay meaningful.      *)
(***************************************************************************)
EXTENDS InputJournal

(* The lines of receive.jsonl that are on disk, wherever reconcile has put *)
(* them for the moment.                                                    *)
OnDisk == IF pc = "RENAMED" THEN Last(retained).rows ELSE journal

(* One journalled operation.  replayed holds an OUTCOME row per delivery.  *)
ReplayRow(state, row) ==
  CASE row.kind = "RECEIVED" ->
         [db |-> ApplyDb(state.db, row.obs),
          replayed |-> state.replayed \cup
            {Outcome(row.index, ReceivedOutcome("NONE", state.db, row.obs))}]
    [] row.kind = "ACK_CONFIRMATION" ->
         [state EXCEPT !.db = ConfirmDb(@, row.ack)]
    [] OTHER -> state

(* The operations of the journal, in their order, into a fresh store. *)
ReplayOf(rows) ==
  LET after[n \in 0..Len(rows)] ==
        IF n = 0 THEN [db |-> FreshDb, replayed |-> {}] ELSE ReplayRow(after[n - 1], rows[n])
  IN  after[Len(rows)]

(* semantic_projection leaves out times, which the model has none of. *)
SameButConfirmations(d, e) ==
  [d EXCEPT !.confirms = {}] = [e EXCEPT !.confirms = {}]

Quiet == pc = "IDLE" /\ denials = 0

(* The artifacts that a PARTIAL_TAIL row accounts for. *)
RecordedTails(rows) == {row.artifact : row \in RowsOfKind(rows, "PARTIAL_TAIL")}

-----------------------------------------------------------------------------
(* Evidence comes before effect: whatever the store applied, or rejected   *)
(* by closing the generation, has its raw file and its RECEIVED row, at    *)
(* every instant, also in the middle of a recovery.                        *)
EvidenceBeforeEffect ==
  /\ \A r \in db.chain : \E q \in Receives(OnDisk) : SamePosition(q.obs, r) /\ q.obs.body = r.body
  /\ \A gap \in db.gaps : \E q \in Receives(OnDisk) : gap \in GapDetectedBy(db, q.obs)
  /\ \A q \in Receives(OnDisk) : q.obs \in rawFiles

(* An ACK handed to the socket is backed by the exact outbox row, by a     *)
(* confirmation at or above it and by an APPLIED outcome in the journal,   *)
(* and crashes and recoveries never take that away ("Raw input and         *)
(* delivery/outcome evidence is fsynced before ACK",                       *)
(* docs/repairs/offline-slice-review.md).                                  *)
AckHasEvidence ==
  \A a \in acked :
    /\ HoldsAck(db, a) /\ a.seq <= Confirmed
    /\ \E q \in Outcomes(OnDisk) : q.outcome = Applied(a)

(* What the journal says of a delivery is what the store did: an APPLIED   *)
(* outcome carries the ACK of that very observation, a GAP or CONFLICT     *)
(* outcome belongs to the observation that closed the generation.          *)
OutcomeMatchesStore ==
  \A q \in Outcomes(OnDisk) : \E r \in Receives(OnDisk) :
    /\ r.index = q.index
    /\ \A p \in Outcomes(OnDisk) : p.index = q.index => p = q
    /\ IF q.outcome.status = "APPLIED"
         THEN AppliedRow(db, r.obs) # {} /\ q.outcome.ack = AckOf(db, r.obs)
         ELSE CASE q.outcome.code = "GAP" ->
                     \E gap \in GapDetectedBy(db, r.obs) : gap.reason = "MISSING_SEQUENCE"
                [] q.outcome.code = "CONFLICT" ->
                     \E gap \in GapDetectedBy(db, r.obs) : gap.reason = "CONFLICTING_DUPLICATE"
                [] q.outcome.code = "CLOSED_GENERATION" -> db.gens[Stream][0] # "ACTIVE"
                [] q.outcome.code = "STORAGE_FAILED" -> denials > 0

(* A process that listens has an outcome for every delivery on record; the *)
(* receive a recovery comes to is one it can finish, in the store already  *)
(* or answered by apply with an outcome the journal can hold; and reconcile *)
(* refuses a torn journal whose bytes are retained already                 *)
(* (input_journal.py:341) only when an earlier recovery died before its    *)
(* PARTIAL_TAIL row.  In that case no later start gets to listen.          *)
CompleteWhenListening ==
  /\ pc = "IDLE" => Incomplete(journal) = {}
  /\ pc = "SCAN" /\ Incomplete(journal) # {} =>
       Committed(db, FirstIncomplete.obs) \/ Journalled(db, FirstIncomplete.obs)
  /\ pc = "REFUSED" => ~(DOMAIN retained \subseteq RecordedTails(journal))

(* The journal alone reconstructs the store: replayed in a fresh store it  *)
(* gives the same chain, gaps, conflicts, generations and controller, and  *)
(* it confirms no position the original did not confirm.                   *)
ReplayReachesSameStore ==
  Quiet =>
    LET replay == ReplayOf(journal).db
    IN  /\ SameButConfirmations(replay, db)
        /\ \A c \in replay.confirms : \E e \in db.confirms : c.seq = e.seq /\ c.cursor = e.cursor

(* Every outcome a live process recorded is the one its replay observes    *)
(* (E_OFFLINE_REPLAY_OUTCOME is never raised for it).                      *)
LiveOutcomesReplay ==
  Quiet => \A q \in Outcomes(journal) :
             q.index \notin recovered => q \in ReplayOf(journal).replayed

(* Journal and store agree at every instant, also in the middle of a        *)
(* recovery: the store did nothing the journal has no evidence of, and      *)
(* every outcome on record is what the store did (input_journal.py:164,     *)
(* :185, :361).                                                             *)
JournalMatchesStore == EvidenceBeforeEffect /\ OutcomeMatchesStore

(* verify_replay_equivalence accepts what live processes recorded.          *)
ReplayAgrees == ReplayReachesSameStore /\ LiveOutcomesReplay

-----------------------------------------------------------------------------
(* What the repository says of recovery and replay, for every crash.       *)

(* "recovers same rejection" (tests/offline/test_input_journal.py): the    *)
(* outcome reconcile records is the outcome the delivery has.              *)
RecoveredOutcomesReplay ==
  Quiet => \A q \in Outcomes(journal) :
             q.index \in recovered => q \in ReplayOf(journal).replayed

(* "Reconstruct observed deliveries in a fresh store" (replay.py): the     *)
(* semantic projections, ack_cursors included, are equal.                  *)
ReplayStoreEqual == Quiet => ReplayOf(journal).db = db
=============================================================================
