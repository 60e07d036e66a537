---------------------------- MODULE InputJournal ----------------------------
(***************************************************************************)
(* The receiver process between a batch and its ACK: the durable delivery  *)
(* journal (src/src/moj_discovery/input_journal.py), the batch loop that   *)
(* drives it (offline_receiver.py process_batch), its crashes at any point *)
(* and the reconciliation a restarted process begins with                  *)
(* (src/tools/run_offline_receiver.py), and what replay.py reconstructs    *)
(* from the journal in a fresh store.                                      *)
(*                                                                         *)
(* The asyncio lock lets one batch at a time reach process_batch, and the  *)
(* journal calls in it are synchronous, so one process with a program      *)
(* counter is the whole concurrency; a step of the model is the code       *)
(* between two durable effects.  validate_synthetic_observation admits     *)
(* only the context's stream and its generation 0.                         *)
(*                                                                         *)
(* Abstractions: a raw file is named by its content hash, so rawFiles is a *)
(* set of observations; the row hash chain is the sequence itself; a       *)
(* partial-tail artifact, named by the digest of its bytes, is its lines   *)
(* and the part of a line at its end (Bytes).                              *)
(***************************************************************************)
EXTENDS Ingest, SequencesExt

CONSTANTS
  NoAck,
  Faults,       \* --fault flags a start may have: "NONE", "SQLITE_DENY_THIRD"
  CrashPoints,  \* the program counters at which the process may die
  Cuts,         \* where a write may break off: of "OPENING", "KIND", "ROW" (Parts)
  MaxReceives,  \* bound: RECEIVED rows
  MaxCrashes    \* bound: crashes

(* The context names the stream of the run. *)
ASSUME StreamAssumption == Streams # {}

VARIABLES   \* beside db, the store of Ingest
  journal,   \* the complete lines of receive.jsonl
  torn,      \* what follows them in the file: <<>>, or a part of a row (Parts)
  rawFiles,  \* raw/<content hash>.json
  retained,  \* partial-tail-*.jsonl artifacts, oldest first: their bytes
  denials,   \* lines of sqlite-faults.jsonl
  pc,        \* what the receiver process does next, "DOWN" without a process,
             \* "REFUSED" when no process gets past reconcile any more
  fault,     \* the flag of the current process
  batch,     \* observations of the current BATCH frame still to process
  current,   \* the receive index in progress
  outcome,   \* its outcome, between apply and the OUTCOME row
  ack,       \* the last ACK apply returned in this batch
  acked,     \* ACKs handed to the socket
  recovered, \* receive indexes whose OUTCOME row reconcile wrote
  crashes

durable == <<db, journal, torn, rawFiles, retained, denials>>
local   == <<fault, batch, current, outcome, ack>>
history == <<acked, recovered, crashes>>
vars    == <<db, journal, torn, rawFiles, retained, denials, pc,
             fault, batch, current, outcome, ack, acked, recovered, crashes>>

Stream == CHOOSE s \in Streams : TRUE

-----------------------------------------------------------------------------
(* Rows of the journal.                                                    *)

Received(i, o)      == [kind |-> "RECEIVED", index |-> i, obs |-> o]
Outcome(i, out)     == [kind |-> "OUTCOME", index |-> i, outcome |-> out]
Confirmation(a)     == [kind |-> "ACK_CONFIRMATION", ack |-> a]
PartialTail(n)      == [kind |-> "PARTIAL_TAIL", artifact |-> n]

RowsOfKind(rows, kind) == {rows[k] : k \in {n \in DOMAIN rows : rows[n].kind = kind}}
Receives(rows)   == RowsOfKind(rows, "RECEIVED")
Outcomes(rows)   == RowsOfKind(rows, "OUTCOME")
Incomplete(rows) == {r \in Receives(rows) : \A q \in Outcomes(rows) : q.index # r.index}

(* What may be left of a row whose write breaks off: bytes that every row   *)
(* begins with (canonical JSON: {"), bytes that every row of its kind       *)
(* begins with (its first key), or more than any other row begins with.     *)
Parts(row) ==
  {part \in {<<"OPENING">>, <<"KIND", row.kind>>, <<"ROW", row>>} : Head(part) \in Cuts}

Bytes(rows, part) == [rows |-> rows, torn |-> part]

Applied(a)     == [status |-> "APPLIED", ack |-> a]
Rejected(code) == [status |-> "REJECTED", code |-> code]

(* Mutant: the rejection of a closed generation is not expected. *)
ERRORSWithoutClosed == [E_INGEST_GAP |-> "GAP", E_INGEST_CONFLICT |-> "CONFLICT"]

ERRORS == [E_INGEST_GAP |-> "GAP", E_INGEST_CONFLICT |-> "CONFLICT",
           E_INGEST_GENERATION_CLOSED |-> "CLOSED_GENERATION"]

AckOf(d, o) ==
  LET row == CHOOSE r \in d.chain : SamePosition(r, o)
  IN  [stream |-> o.stream, gen |-> o.gen, seq |-> o.seq, cursor |-> row.cursor]

(* WriteDeniedStore: with exactly two raw commits in the store, inserting  *)
(* another one fails with an sqlite3 error and is logged.                  *)
Denied(flag, d, o) ==
  flag = "SQLITE_DENY_THIRD" /\ Cardinality(d.chain \cup d.repairs) = 2 /\ IsNext(d, o)

Journalled(d, o) == Verdict(d, o) \in DOMAIN ERRORS \cup {"APPLIED"}

(* _apply_received: the store after Ingestor.apply, and the outcome.       *)
ReceivedDb(flag, d, o) == IF Denied(flag, d, o) THEN d ELSE ApplyDb(d, o)

ReceivedOutcome(flag, d, o) ==
  IF Denied(flag, d, o) THEN Rejected("STORAGE_FAILED")
  ELSE IF Verdict(d, o) = "APPLIED" THEN Applied(AckOf(ApplyDb(d, o), o))
  ELSE Rejected(ERRORS[Verdict(d, o)])

-----------------------------------------------------------------------------
Init ==
  /\ db = FreshDb
  /\ journal = <<>> /\ torn = <<>>
  /\ rawFiles = {} /\ retained = <<>> /\ denials = 0
  /\ pc = "DOWN" /\ fault = "NONE"
  /\ batch = <<>> /\ current = 0 /\ outcome = Rejected("NONE") /\ ack = NoAck
  /\ acked = {} /\ recovered = {} /\ crashes = 0

(* _append: one line, written and fsynced. *)
AppendRow(row) == journal' = Append(journal, row)

(***************************************************************************)
(* The batch loop.                                                         *)
(***************************************************************************)

(* A valid BATCH frame holds consecutive sequences. *)
ReceiveBatch ==
  /\ pc = "IDLE"
  /\ \E first, last \in 1..MaxSeq :
       /\ first <= last
       /\ Cardinality(Receives(journal)) + last - first + 1 <= MaxReceives
       /\ \E body \in [first..last -> Bodies] :
            batch' = [k \in 1..(last - first + 1) |->
                        [stream |-> Stream, gen |-> 0, seq |-> first + k - 1,
                         body |-> body[first + k - 1]]]
  /\ ack' = NoAck
  /\ pc' = "NEXT"
  /\ UNCHANGED <<durable, fault, current, outcome, history>>

(* Mutant: a stored raw file counts as the record of the delivery. *)
StoreRawOnly ==
  /\ pc = "NEXT" /\ batch # <<>>
  /\ rawFiles' = rawFiles \cup {Head(batch)}
  /\ pc' = "RECEIVED"
  /\ UNCHANGED <<db, journal, torn, retained, denials, local, history>>

(* record_received, first half: the raw file (temporary file, fsync, rename). *)
StoreRaw ==
  /\ pc = "NEXT" /\ batch # <<>>
  /\ rawFiles' = rawFiles \cup {Head(batch)}
  /\ pc' = "RAW"
  /\ UNCHANGED <<db, journal, torn, retained, denials, local, history>>

(* record_received, second half: the RECEIVED row. *)
RecordReceived ==
  /\ pc = "RAW"
  /\ current' = Cardinality(Receives(journal)) + 1
  /\ AppendRow(Received(current', Head(batch)))
  /\ pc' = "RECEIVED"
  /\ UNCHANGED <<db, torn, rawFiles, retained, denials, fault, batch, outcome, ack, history>>

(* Ingestor.apply commits and returns; an error that ERRORS does not name  *)
(* ends the connection and leaves the receive without an outcome.          *)
ApplyReceived ==
  /\ pc = "RECEIVED"
  /\ IF Denied(fault, db, Head(batch)) \/ Journalled(db, Head(batch))
       THEN /\ outcome' = ReceivedOutcome(fault, db, Head(batch))
            /\ pc' = "APPLIED"
            /\ UNCHANGED batch
       ELSE /\ pc' = "IDLE"
            /\ batch' = <<>>
            /\ UNCHANGED outcome
  /\ db' = ReceivedDb(fault, db, Head(batch))
  /\ denials' = IF Denied(fault, db, Head(batch)) THEN denials + 1 ELSE denials
  /\ UNCHANGED <<journal, torn, rawFiles, retained, fault, current, ack, history>>

(* _record_outcome; a rejection ends the batch. *)
RecordOutcome ==
  /\ pc = "APPLIED"
  /\ AppendRow(Outcome(current, outcome))
  /\ IF outcome.status = "APPLIED"
       THEN ack' = outcome.ack /\ batch' = Tail(batch)
       ELSE batch' = <<>> /\ UNCHANGED ack
  /\ pc' = "NEXT"
  /\ UNCHANGED <<db, torn, rawFiles, retained, denials, fault, current, outcome, history>>

Confirmed == Highest(db.confirms, Stream, 0)

(* The end of process_batch without a new confirmation: nothing applied, or *)
(* an ACK at or below the confirmed position, which is sent again.          *)
RespondWithoutConfirmation ==
  /\ pc = "NEXT" /\ batch = <<>>
  /\ ack # NoAck => ack.seq <= Confirmed
  /\ acked' = IF ack = NoAck THEN acked ELSE acked \cup {ack}
  /\ pc' = "IDLE"
  /\ UNCHANGED <<durable, local, recovered, crashes>>

(* record_ack_confirmation, first half: confirm_ack commits. *)
ConfirmInStore ==
  /\ pc = "NEXT" /\ batch = <<>>
  /\ ack # NoAck /\ ack.seq > Confirmed
  /\ db' = ConfirmDb(db, ack)
  /\ pc' = "CONFIRMED"
  /\ UNCHANGED <<journal, torn, rawFiles, retained, denials, local, history>>

(* Second half: the ACK_CONFIRMATION row; then the ACK goes to the socket. *)
RecordConfirmation ==
  /\ pc = "CONFIRMED"
  /\ AppendRow(Confirmation(ack))
  /\ acked' = acked \cup {ack}
  /\ pc' = "IDLE"
  /\ UNCHANGED <<db, torn, rawFiles, retained, denials, local, recovered, crashes>>

(***************************************************************************)
(* Crash, restart and reconciliation.                                      *)
(***************************************************************************)

FirstIncomplete ==
  CHOOSE r \in Incomplete(journal) : \A q \in Incomplete(journal) : r.index <= q.index

(* reconcile looks gap_records up by the observation's hash and ack_outbox *)
(* by the hash of its raw commit.                                          *)
GapDetectedBy(d, o) ==
  {gap \in d.gaps : gap.stream = o.stream /\ gap.detected = o.seq /\ gap.body = o.body}
AppliedRow(d, o) == {r \in d.chain : SamePosition(r, o) /\ r.body = o.body}
Committed(d, o) == GapDetectedBy(d, o) \cup AppliedRow(d, o) # {}

(* Mutant: every committed gap is recovered as GAP. *)
CommittedOutcomeIgnoresReason(d, o) ==
  IF GapDetectedBy(d, o) # {} THEN Rejected("GAP") ELSE Applied(AckOf(d, o))

(* The outcome reconcile reads from the store for a receive without one. *)
CommittedOutcome(d, o) ==
  IF GapDetectedBy(d, o) # {}
    THEN LET gap == CHOOSE x \in GapDetectedBy(d, o) : TRUE
         IN  Rejected(IF gap.reason = "MISSING_SEQUENCE" THEN "GAP" ELSE "CONFLICT")
    ELSE Applied(AckOf(d, o))

(* The next step appends a row: dying in the write leaves a part of it. *)
AppendingRow ==
  \/ pc \in {"RAW", "APPLIED", "CONFIRMED", "PREFIX", "REAPPLIED"}
  \/ pc = "SCAN" /\ Incomplete(journal) # {} /\ Committed(db, FirstIncomplete.obs)

RowInWriting ==
  CASE pc = "RAW" -> Received(Cardinality(Receives(journal)) + 1, Head(batch))
    [] pc \in {"APPLIED", "REAPPLIED"} -> Outcome(current, outcome)
    [] pc = "CONFIRMED" -> Confirmation(ack)
    [] pc = "PREFIX" -> PartialTail(Len(retained))
    [] pc = "SCAN" ->
         Outcome(FirstIncomplete.index, CommittedOutcome(db, FirstIncomplete.obs))

(* Between the rename of receive.jsonl and the end of writing its prefix   *)
(* back, the file is missing or holds any part of the prefix.              *)
Crash ==
  /\ pc \in CrashPoints /\ crashes < MaxCrashes
  /\ crashes' = crashes + 1
  /\ pc' = "DOWN"
  /\ \/ UNCHANGED <<journal, torn>>
     \/ AppendingRow /\ torn' \in Parts(RowInWriting) /\ UNCHANGED journal
     \/ pc = "RENAMED" /\ \E n \in 0..Len(Last(retained).rows) - 1 :
          /\ journal' = SubSeq(Last(retained).rows, 1, n)
          /\ torn' \in {<<>>} \cup Parts(Last(retained).rows[n + 1])
  /\ batch' = <<>> /\ current' = 0 /\ outcome' = Rejected("NONE") /\ ack' = NoAck
  /\ fault' = "NONE"
  /\ UNCHANGED <<db, rawFiles, retained, denials, acked, recovered>>

AlreadyRetained == Bytes(journal, torn) \in Range(retained)

(* A new process; reconcile runs before the fault store is put in place. *)
Start ==
  /\ pc = "DOWN"
  /\ fault' \in Faults
  /\ IF torn # <<>>
       THEN /\ ~AlreadyRetained
            /\ retained' = Append(retained, Bytes(journal, torn))
            /\ journal' = <<>>
            /\ torn' = <<>>
            /\ pc' = "RENAMED"
       ELSE pc' = "SCAN" /\ UNCHANGED <<journal, torn, retained>>
  /\ UNCHANGED <<db, rawFiles, denials, batch, current, outcome, ack, history>>

(* Mutant: the artifact's name does not depend on its bytes. *)
RefuseAnyRetained ==
  /\ pc = "DOWN"
  /\ torn # <<>> /\ retained # <<>>
  /\ pc' = "REFUSED"
  /\ UNCHANGED <<durable, local, history>>

(* E_OFFLINE_PARTIAL_ALREADY_RETAINED: an artifact of these very bytes is   *)
(* there.  Nothing on disk has changed, so every later start ends here too. *)
StartRefused ==
  /\ pc = "DOWN"
  /\ torn # <<>> /\ AlreadyRetained
  /\ pc' = "REFUSED"
  /\ UNCHANGED <<durable, local, history>>

(* Mutant: the prefix is cut before the last complete line. *)
RewriteShorterPrefix ==
  /\ pc = "RENAMED"
  /\ journal' = IF Last(retained).rows = <<>> THEN <<>> ELSE Front(Last(retained).rows)
  /\ pc' = "PREFIX"
  /\ UNCHANGED <<db, torn, rawFiles, retained, denials, local, history>>

RewritePrefix ==
  /\ pc = "RENAMED"
  /\ journal' = Last(retained).rows
  /\ pc' = "PREFIX"
  /\ UNCHANGED <<db, torn, rawFiles, retained, denials, local, history>>

(* Mutant: the PARTIAL_TAIL row is written over the file. *)
RecordPartialTailOnly ==
  /\ pc = "PREFIX"
  /\ journal' = <<PartialTail(Len(retained))>>
  /\ pc' = "SCAN"
  /\ UNCHANGED <<db, torn, rawFiles, retained, denials, local, history>>

RecordPartialTail ==
  /\ pc = "PREFIX"
  /\ AppendRow(PartialTail(Len(retained)))
  /\ pc' = "SCAN"
  /\ UNCHANGED <<db, torn, rawFiles, retained, denials, local, history>>

RecoverCommitted ==
  /\ pc = "SCAN" /\ Incomplete(journal) # {}
  /\ LET r == FirstIncomplete
     IN  /\ Committed(db, r.obs)
         /\ AppendRow(Outcome(r.index, CommittedOutcome(db, r.obs)))
         /\ recovered' = recovered \cup {r.index}
  /\ UNCHANGED <<db, torn, rawFiles, retained, denials, pc, local, acked, crashes>>

(* Mutant: reconcile rejects what the store does not hold. *)
RecoverByRejecting ==
  /\ pc = "SCAN" /\ Incomplete(journal) # {}
  /\ ~Committed(db, FirstIncomplete.obs)
  /\ outcome' = Rejected("STORAGE_FAILED")
  /\ current' = FirstIncomplete.index
  /\ pc' = "REAPPLIED"
  /\ UNCHANGED <<durable, fault, batch, ack, history>>

RecoverByApplying ==
  /\ pc = "SCAN" /\ Incomplete(journal) # {}
  /\ LET r == FirstIncomplete
     IN  /\ ~Committed(db, r.obs)
         /\ Journalled(db, r.obs)
         /\ db' = ReceivedDb("NONE", db, r.obs)
         /\ outcome' = ReceivedOutcome("NONE", db, r.obs)
         /\ current' = r.index
  /\ pc' = "REAPPLIED"
  /\ UNCHANGED <<journal, torn, rawFiles, retained, denials, fault, batch, ack, history>>

RecordRecovered ==
  /\ pc = "REAPPLIED"
  /\ AppendRow(Outcome(current, outcome))
  /\ recovered' = recovered \cup {current}
  /\ pc' = "SCAN"
  /\ UNCHANGED <<db, torn, rawFiles, retained, denials, local, acked, crashes>>

(* Mutant: the receiver listens before the journal is reconciled. *)
ListenAtOnce ==
  /\ pc = "SCAN"
  /\ pc' = "IDLE"
  /\ UNCHANGED <<durable, local, history>>

Listen ==
  /\ pc = "SCAN" /\ Incomplete(journal) = {}
  /\ pc' = "IDLE"
  /\ UNCHANGED <<durable, local, history>>

Process ==
  \/ StoreRaw \/ RecordReceived \/ ApplyReceived \/ RecordOutcome
  \/ RespondWithoutConfirmation \/ ConfirmInStore \/ RecordConfirmation
  \/ Start \/ StartRefused \/ RewritePrefix \/ RecordPartialTail
  \/ RecoverCommitted \/ RecoverByApplying \/ RecordRecovered \/ Listen

Next == ReceiveBatch \/ Process \/ Crash

Spec == Init /\ [][Next]_vars
=============================================================================
