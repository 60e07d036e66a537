---------------------------- MODULE JournalProofs ----------------------------
(***************************************************************************)
(* JournalMatchesStore, AckHasEvidence and CompleteWhenListening of Replay *)
(* for any number of bodies, positions, receives and crashes, when the     *)
(* process does not die between renaming receive.jsonl and having written  *)
(* its prefix back ("RENAMED"); a death in that window does lose rows, as  *)
(* the run MCRenameWindow shows.                                           *)
(*                                                                         *)
(* The argument.  The rows on disk only grow, and so does the store; what  *)
(* is said of a row is about rows and gaps that stay.  At most one receive *)
(* is without an outcome (Control), whose observation is the one the       *)
(* process works on, or a restarted one finds; and apply has an answer to  *)
(* any observation of the context's stream that ERRORS can name (Usable).  *)
(* An artifact with a PARTIAL_TAIL row holds fewer lines than the journal  *)
(* (TailsInv), so only one without a row can be in the way of a recovery.  *)
(***************************************************************************)
EXTENDS Replay, IngestProofs, FiniteSetTheorems, SequenceTheorems

JournalObs == [stream : {Stream}, gen : {0}, seq : 1..MaxSeq, body : Bodies]
Acks       == [stream : {Stream}, gen : {0}, seq : 1..MaxSeq, cursor : Seq(Bodies)]
Codes      == {"GAP", "CONFLICT", "CLOSED_GENERATION", "STORAGE_FAILED"}

OutcomeValues == [status : {"APPLIED"}, ack : Acks] \cup [status : {"REJECTED"}, code : Codes]

JournalRows ==
  [kind : {"RECEIVED"}, index : Nat, obs : JournalObs]
  \cup [kind : {"OUTCOME"}, index : Nat, outcome : OutcomeValues]
  \cup [kind : {"ACK_CONFIRMATION"}, ack : Acks]
  \cup [kind : {"PARTIAL_TAIL"}, artifact : Nat]

TornParts == {<<>>} \cup UNION {Parts(row) : row \in JournalRows}
Files     == [rows : Seq(JournalRows), torn : TornParts]

JournalTyped ==
  /\ db \in Databases
  /\ journal \in Seq(JournalRows) /\ torn \in TornParts /\ retained \in Seq(Files)
  /\ batch \in Seq(JournalObs) /\ denials \in Nat /\ current \in Nat
  /\ ack \in Acks \cup {NoAck}
  /\ pc = "RENAMED" => retained # <<>>

(* A store that only this journal's deliveries have changed.               *)
Usable(d) ==
  /\ d.run = "OPEN" /\ d.repairs = {}
  /\ d.gens[Stream][0] # "NONE"
  /\ d.controller # "OPEN" \/ d.conflicts # {} \/ d.gaps # {} => d.gens[Stream][0] # "ACTIVE"
  /\ \A r \in d.chain : r.stream = Stream /\ r.gen = 0
  /\ \A r, q \in d.chain : r.seq = q.seq => r = q
  /\ \A r \in d.chain, n \in 1..MaxSeq : n <= r.seq => \E q \in d.chain : q.seq = n

(* The receives are numbered up to their number.                           *)
Counted(R) == IsFiniteSet(R) /\ \A r \in R : r.index \in 1..Cardinality(R)

(* The parts of the properties, by the values they are about.              *)
Evidence(d, R, raw) ==
  /\ \A r \in d.chain : \E q \in R : SamePosition(q.obs, r) /\ q.obs.body = r.body
  /\ \A gap \in d.gaps : \E q \in R : gap \in GapDetectedBy(d, q.obs)
  /\ \A q \in R : q.obs \in raw

Holds(d, n, out, o) ==
  IF out.status = "APPLIED"
    THEN AppliedRow(d, o) # {} /\ out.ack = AckOf(d, o)
    ELSE CASE out.code = "GAP" ->
                \E gap \in GapDetectedBy(d, o) : gap.reason = "MISSING_SEQUENCE"
           [] out.code = "CONFLICT" ->
                \E gap \in GapDetectedBy(d, o) : gap.reason = "CONFLICTING_DUPLICATE"
           [] out.code = "CLOSED_GENERATION" -> d.gens[Stream][0] # "ACTIVE"
           [] out.code = "STORAGE_FAILED" -> n > 0

Matches(d, n, R, O) ==
  \A q \in O : \E r \in R :
    /\ r.index = q.index
    /\ \A p \in O : p.index = q.index => p = q
    /\ Holds(d, n, q.outcome, r.obs)

Backs(d, O, a) == HoldsAck(d, a) /\ \E q \in O : q.outcome = Applied(a)

ConfirmedIn(d) == Highest(d.confirms, Stream, 0)

(* What the process is doing, and the receive it does it for.              *)
Control ==
  LET missing == Incomplete(OnDisk)
  IN  /\ \A r, q \in missing : r = q
      /\ pc \in {"IDLE", "NEXT", "RAW", "CONFIRMED"} => missing = {}
      /\ pc = "RAW" => batch # <<>> /\ Head(batch) \in rawFiles
      /\ pc \in {"RECEIVED", "APPLIED"} =>
           batch # <<>> /\ missing = {Received(current, Head(batch))}
      /\ pc = "REAPPLIED" => \E r \in missing : r.index = current
      /\ pc \in {"APPLIED", "REAPPLIED"} =>
           /\ outcome \in OutcomeValues
           /\ \A r \in missing : Holds(db, denials, outcome, r.obs)
      /\ pc = "CONFIRMED" => ack # NoAck /\ ack.seq <= ConfirmedIn(db)
      /\ ack # NoAck => Backs(db, Outcomes(OnDisk), ack)

(* The recoveries.  An artifact that a row accounts for is shorter than the *)
(* journal, so it never again holds the same bytes.                        *)
TailsInv ==
  /\ \A i \in RecordedTails(OnDisk) :
       i \in DOMAIN retained /\ Len(retained[i].rows) < Len(OnDisk)
  /\ pc \in {"RENAMED", "PREFIX"} => retained # <<>> /\ Len(Last(retained).rows) = Len(OnDisk)
  /\ pc = "REFUSED" => AlreadyRetained

JournalInv ==
  /\ JournalTyped /\ Usable(db) /\ Counted(Receives(OnDisk))
  /\ Evidence(db, Receives(OnDisk), rawFiles)
  /\ Matches(db, denials, Receives(OnDisk), Outcomes(OnDisk))
  /\ \A a \in acked : Backs(db, Outcomes(OnDisk), a) /\ a.seq <= ConfirmedIn(db)
  /\ Control

(* Two stores that differ at most in their confirmations.                  *)
Alike(d, e) ==
  /\ d.run = e.run /\ d.controller = e.controller /\ d.gens = e.gens /\ d.chain = e.chain
  /\ d.repairs = e.repairs /\ d.conflicts = e.conflicts /\ d.gaps = e.gaps

(* What a replay of the rows on disk gives, at every instant: the store, or *)
(* what the store will be when the delivery without an outcome is applied.  *)
ReplayInv ==
  denials = 0 =>
    LET replay  == ReplayOf(OnDisk)
        missing == Incomplete(OnDisk)
    IN  /\ replay \in [db : Databases, replayed : SUBSET JournalRows]
        /\ missing = {} => Alike(replay.db, db)
        /\ \A r \in missing : Alike(replay.db, ApplyDb(db, r.obs))
        /\ \A c \in replay.db.confirms :
             \E e \in db.confirms : c.seq = e.seq /\ c.cursor = e.cursor
        /\ pc = "CONFIRMED" => \E e \in db.confirms : ack.seq = e.seq /\ ack.cursor = e.cursor
        /\ \A q \in Outcomes(OnDisk) : q.index \in recovered \/ q \in replay.replayed
        /\ pc = "RECEIVED" =>
             Outcome(current, ReceivedOutcome("NONE", db, Head(batch))) \in replay.replayed
        /\ pc = "APPLIED" => Outcome(current, outcome) \in replay.replayed

-----------------------------------------------------------------------------
(* The store, for any database that is usable.                             *)

LEMMA ContextStream == Stream \in Streams /\ JournalObs \subseteq Observations
<1>1. Stream \in Streams
  BY StreamAssumption DEF Stream
<1> QED
  BY <1>1 DEF JournalObs, Observations, Generations

LEMMA StoreFields ==
  ASSUME NEW d \in Databases
  PROVE  /\ d.chain \in SUBSET ChainRows /\ d.gaps \in SUBSET GapRows
         /\ d.confirms \in SUBSET ConfirmRows /\ d.conflicts \in SUBSET Observations
         /\ d.gens \in [Streams -> [Generations -> GenStates]]
         /\ d.gens[Stream] \in [Generations -> GenStates]
         /\ d.gens[Stream][0] \in GenStates
         /\ d.controller \in {"OPEN", "SHOCKED_CLOSED"}
<1>1. /\ d.chain \in SUBSET ChainRows /\ d.gaps \in SUBSET GapRows
      /\ d.confirms \in SUBSET ConfirmRows /\ d.conflicts \in SUBSET Observations
      /\ d.gens \in [Streams -> [Generations -> GenStates]]
      /\ d.controller \in {"OPEN", "SHOCKED_CLOSED"}
  BY DEF Databases
<1>2. d.gens[Stream] \in [Generations -> GenStates]
  BY <1>1, ContextStream
<1>3. d.gens[Stream][0] \in GenStates
  BY <1>2 DEF Generations
<1> QED
  BY <1>1, <1>2, <1>3

(* A position is free exactly beyond the highest one.                      *)
LEMMA Positions ==
  ASSUME NEW d \in Databases, Usable(d), NEW o \in JournalObs
  PROVE  /\ o.stream = Stream /\ o.gen = 0 /\ o.seq \in 1..MaxSeq /\ o.body \in Bodies
         /\ GenState(d, o) = d.gens[Stream][0]
         /\ \A r \in d.chain : r.seq \in 1..MaxSeq /\ (SamePosition(r, o) <=> r.seq = o.seq)
         /\ RawAt(d, o) = {r \in d.chain : r.seq = o.seq}
         /\ Highest(d.chain, Stream, 0) \in 0..MaxSeq
         /\ \A r \in d.chain : r.seq <= Highest(d.chain, Stream, 0)
         /\ o.seq <= Highest(d.chain, Stream, 0) => \E r \in d.chain : r.seq = o.seq
<1>1. o.stream = Stream /\ o.gen = 0 /\ o.seq \in 1..MaxSeq /\ o.body \in Bodies
  BY DEF JournalObs
<1>2. GenState(d, o) = d.gens[Stream][0]
  BY <1>1 DEF GenState
<1>3. \A r \in d.chain : r.seq \in 1..MaxSeq /\ (SamePosition(r, o) <=> r.seq = o.seq)
  BY <1>1, RowsTyped DEF Usable, SamePosition
<1>4. RawAt(d, o) = {r \in d.chain : r.seq = o.seq}
  BY <1>3 DEF RawAt, Usable
<1>5. RowsOf(d.chain, Stream, 0) = d.chain
  BY DEF RowsOf, Usable
<1>6. /\ Highest(d.chain, Stream, 0) \in 0..MaxSeq
      /\ \A r \in d.chain : r.seq <= Highest(d.chain, Stream, 0)
      /\ \/ Highest(d.chain, Stream, 0) = 0
         \/ \E r \in d.chain : r.seq = Highest(d.chain, Stream, 0)
  BY <1>3, <1>5, HighestIsGreatest
<1>7. ASSUME o.seq <= Highest(d.chain, Stream, 0) PROVE \E r \in d.chain : r.seq = o.seq
  <2>1. PICK r \in d.chain : r.seq = Highest(d.chain, Stream, 0)
    BY <1>1, <1>6, <1>7, MaxSeqAssumption
  <2> QED
    BY <1>1, <1>7, <2>1 DEF Usable
<1> QED
  BY <1>1, <1>2, <1>3, <1>4, <1>6, <1>7

(* Ingestor.apply on a delivery of this journal: five cases, each with an  *)
(* answer _apply_received expects.                                         *)
LEMMA FiveCases ==
  ASSUME NEW d \in Databases, Usable(d), NEW o \in JournalObs
  PROVE  \/ /\ d.gens[Stream][0] # "ACTIVE" /\ Verdict(d, o) = "E_INGEST_GENERATION_CLOSED"
            /\ ApplyDb(d, o) = d /\ ~IsNext(d, o)
         \/ /\ IsNext(d, o) /\ Verdict(d, o) = "APPLIED"
            /\ ApplyDb(d, o) = [d EXCEPT !.chain = @ \cup {NewRow(d, o)}]
         \/ /\ AppliedRow(d, o) # {} /\ Verdict(d, o) = "APPLIED"
            /\ ApplyDb(d, o) = d /\ ~IsNext(d, o)
         \/ /\ IsConflict(d, o) /\ Verdict(d, o) = "E_INGEST_CONFLICT" /\ ~IsNext(d, o)
            /\ ApplyDb(d, o) = LoseContinuity(d, o, "CONFLICTING_DUPLICATE")
         \/ /\ IsGap(d, o) /\ Verdict(d, o) = "E_INGEST_GAP" /\ ~IsNext(d, o)
            /\ ApplyDb(d, o) = LoseContinuity(d, o, "MISSING_SEQUENCE")
<1> DEFINE h == Highest(d.chain, Stream, 0)
<1>1. /\ o.stream = Stream /\ o.gen = 0 /\ o.seq \in 1..MaxSeq /\ GenState(d, o) = d.gens[Stream][0]
      /\ \A r \in d.chain : r.seq \in 1..MaxSeq /\ (SamePosition(r, o) <=> r.seq = o.seq)
      /\ RawAt(d, o) = {r \in d.chain : r.seq = o.seq}
      /\ h \in 0..MaxSeq /\ \A r \in d.chain : r.seq <= h
      /\ o.seq <= h => \E r \in d.chain : r.seq = o.seq
  BY Positions
<1>2. d.run = "OPEN" /\ d.gens[Stream][0] \in GenStates \ {"NONE"}
  BY StoreFields DEF Usable
<1>3. IsNext(d, o) <=> Accepting(d, o) /\ RawAt(d, o) = {} /\ o.seq = h + 1
  BY <1>1 DEF IsNext
<1>4. IsGap(d, o) <=> Accepting(d, o) /\ RawAt(d, o) = {} /\ o.seq > h + 1
  BY <1>1 DEF IsGap
<1>5. CASE d.gens[Stream][0] # "ACTIVE"
  <2>1. ~Accepting(d, o)
    BY <1>1, <1>5 DEF Accepting
  <2>2. ~IsNext(d, o) /\ ~IsConflict(d, o) /\ ~IsGap(d, o) /\ ~IsDuplicate(d, o)
    BY <2>1 DEF IsNext, IsConflict, IsGap, IsDuplicate
  <2>3. GenState(d, o) \in {"QUARANTINED_GAP", "CLOSED"}
    BY <1>1, <1>2, <1>5 DEF GenStates
  <2>4. Verdict(d, o) = "E_INGEST_GENERATION_CLOSED"
    BY <1>2, <2>2, <2>3 DEF Verdict
  <2>5. ApplyDb(d, o) = d
    BY <2>2 DEF ApplyDb
  <2> QED
    BY <1>5, <2>2, <2>4, <2>5
<1>6. CASE d.gens[Stream][0] = "ACTIVE"
  <2>1. Accepting(d, o) /\ CanShock(d) /\ GenState(d, o) = "ACTIVE"
    BY <1>1, <1>2, <1>6, StoreFields DEF Accepting, CanShock, Usable
  <2>2. CASE RawAt(d, o) = {}
    <3>1. ~IsConflict(d, o) /\ ~IsDuplicate(d, o)
      BY <2>2 DEF IsConflict, IsDuplicate, RawAt
    <3>2. o.seq > h
      BY <1>1, <2>2, MaxSeqAssumption
    <3>3. CASE o.seq = h + 1
      <4>1. IsNext(d, o) /\ ~IsGap(d, o)
        BY <1>1, <1>3, <1>4, <2>1, <2>2, <3>3, MaxSeqAssumption
      <4>2. Verdict(d, o) = "APPLIED"
        BY <1>2, <2>1, <3>1, <4>1 DEF Verdict
      <4>3. ApplyDb(d, o) = [d EXCEPT !.chain = @ \cup {NewRow(d, o)}]
        BY <3>1, <4>1 DEF ApplyDb
      <4> QED
        BY <4>1, <4>2, <4>3
    <3>4. CASE o.seq > h + 1
      <4>1. IsGap(d, o) /\ ~IsNext(d, o)
        BY <1>1, <1>3, <1>4, <2>1, <2>2, <3>4, MaxSeqAssumption
      <4>2. Verdict(d, o) = "E_INGEST_GAP"
        BY <1>2, <2>1, <3>1, <4>1 DEF Verdict
      <4>3. ApplyDb(d, o) = LoseContinuity(d, o, "MISSING_SEQUENCE")
        BY <2>1, <3>1, <4>1 DEF ApplyDb
      <4> QED
        BY <4>1, <4>2, <4>3
    <3> QED
      BY <1>1, <3>2, <3>3, <3>4, MaxSeqAssumption
  <2>3. CASE RawAt(d, o) # {}
    <3>1. ~IsNext(d, o) /\ ~IsGap(d, o)
      BY <1>3, <1>4, <2>3
    <3>2. PICK r \in d.chain : r.seq = o.seq /\ RawAt(d, o) = {r} /\ SamePosition(r, o)
      BY <1>1, <2>3 DEF Usable
    <3>3. CASE r.body = o.body
      <4>1. IsDuplicate(d, o) /\ ~IsConflict(d, o)
        BY <2>1, <3>2, <3>3 DEF IsDuplicate, IsConflict
      <4>2. Verdict(d, o) = "APPLIED"
        BY <1>2, <2>1, <3>1, <4>1 DEF Verdict
      <4>3. ApplyDb(d, o) = d /\ AppliedRow(d, o) # {}
        BY <3>1, <3>2, <3>3, <4>1 DEF ApplyDb, AppliedRow
      <4> QED
        BY <3>1, <4>2, <4>3
    <3>4. CASE r.body # o.body
      <4>1. IsConflict(d, o)
        BY <2>1, <3>2, <3>4 DEF IsConflict
      <4>2. ~IsDuplicate(d, o)
        BY <1>1, <3>2, <3>4 DEF IsDuplicate, Usable
      <4>3. Verdict(d, o) = "E_INGEST_CONFLICT"
        BY <1>2, <2>1, <3>1, <4>1, <4>2 DEF Verdict
      <4>4. ApplyDb(d, o) = LoseContinuity(d, o, "CONFLICTING_DUPLICATE")
        BY <2>1, <3>1, <4>1 DEF ApplyDb
      <4> QED
        BY <3>1, <4>1, <4>3, <4>4
    <3> QED
      BY <3>3, <3>4
  <2> QED
    BY <2>2, <2>3
<1> QED
  BY <1>5, <1>6

(* What a store that has gone on from d to e still holds.                  *)
Extends(d, e) ==
  /\ d.chain \subseteq e.chain /\ d.gaps \subseteq e.gaps /\ d.confirms \subseteq e.confirms
  /\ d.gens[Stream][0] # "ACTIVE" => e.gens[Stream][0] # "ACTIVE"

(* The ACK of an applied observation is that of its row.                   *)
LEMMA AckOfRow ==
  ASSUME NEW d \in Databases, Usable(d), NEW o \in JournalObs, NEW r \in d.chain, r.seq = o.seq
  PROVE  /\ AckOf(d, o) = [stream |-> Stream, gen |-> 0, seq |-> o.seq, cursor |-> r.cursor]
         /\ AckOf(d, o) \in Acks /\ HoldsAck(d, AckOf(d, o))
<1>1. /\ o.stream = Stream /\ o.gen = 0 /\ o.seq \in 1..MaxSeq
      /\ \A q \in d.chain : SamePosition(q, o) <=> q.seq = o.seq
  BY Positions
<1>2. (CHOOSE q \in d.chain : SamePosition(q, o)) = r
  BY <1>1 DEF Usable
<1>3. AckOf(d, o) = [stream |-> Stream, gen |-> 0, seq |-> o.seq, cursor |-> r.cursor]
  BY <1>1, <1>2 DEF AckOf
<1>4. r.cursor \in Seq(Bodies)
  BY StoreFields DEF ChainRows
<1>5. AckOf(d, o) \in Acks
  BY <1>1, <1>3, <1>4 DEF Acks
<1>6. HoldsAck(d, AckOf(d, o))
  BY <1>1, <1>3 DEF HoldsAck, SamePosition, Usable
<1> QED
  BY <1>3, <1>5, <1>6

(* What an outcome says of the store stays true.                           *)
LEMMA HoldsOn ==
  ASSUME NEW d \in Databases, NEW e \in Databases, Usable(d), Usable(e), Extends(d, e),
         NEW n \in Nat, NEW m \in Nat, n <= m,
         NEW o \in JournalObs, NEW out \in OutcomeValues, Holds(d, n, out, o)
  PROVE  Holds(e, m, out, o)
<1>1. GapDetectedBy(d, o) \subseteq GapDetectedBy(e, o)
  BY DEF GapDetectedBy, Extends
<1>2. CASE out.status = "APPLIED"
  <2>1. PICK r \in d.chain : SamePosition(r, o) /\ r.body = o.body
    BY <1>2 DEF Holds, AppliedRow
  <2>2. r \in e.chain /\ r.seq = o.seq
    BY <2>1 DEF Extends, SamePosition
  <2>3. AckOf(e, o) = AckOf(d, o)
    BY <2>1, <2>2, AckOfRow
  <2>4. AppliedRow(e, o) # {} /\ out.ack = AckOf(e, o)
    BY <1>2, <2>1, <2>2, <2>3 DEF Holds, AppliedRow
  <2> QED
    BY <1>2, <2>4 DEF Holds
<1>3. CASE out.status # "APPLIED"
  <2>1. out.code \in Codes
    BY <1>3 DEF OutcomeValues
  <2>2. CASE out.code = "GAP"
    BY <1>1, <1>3, <2>2 DEF Holds
  <2>3. CASE out.code = "CONFLICT"
    BY <1>1, <1>3, <2>3 DEF Holds
  <2>4. CASE out.code = "CLOSED_GENERATION"
    BY <1>3, <2>4 DEF Holds, Extends
  <2>5. CASE out.code = "STORAGE_FAILED"
    BY <1>3, <2>5 DEF Holds
  <2> QED
    BY <2>1, <2>2, <2>3, <2>4, <2>5 DEF Codes
<1> QED
  BY <1>2, <1>3

(* Everything new in the store is about the observation applied.           *)
Concerns(d, e, o) ==
  /\ \A r \in e.chain \ d.chain : SamePosition(o, r) /\ o.body = r.body
  /\ \A gap \in e.gaps \ d.gaps : gap \in GapDetectedBy(e, o)
  /\ e.confirms = d.confirms

LEMMA NextUsable ==
  ASSUME NEW d \in Databases, Usable(d), NEW o \in JournalObs, IsNext(d, o),
         NEW e, e = [d EXCEPT !.chain = @ \cup {NewRow(d, o)}]
  PROVE  Usable(e) /\ Extends(d, e) /\ Concerns(d, e, o) /\ AppliedRow(e, o) # {}
<1> DEFINE n == NewRow(d, o)
           h == Highest(d.chain, Stream, 0)
<1>1. /\ o.stream = Stream /\ o.gen = 0 /\ o.seq \in 1..MaxSeq /\ h \in 0..MaxSeq
      /\ \A r \in d.chain : r.seq \in 1..MaxSeq /\ r.seq <= h
  BY Positions
<1>2. /\ n.stream = Stream /\ n.gen = 0 /\ n.seq = o.seq /\ n.body = o.body
      /\ SamePosition(n, o) /\ SamePosition(o, n)
  BY <1>1 DEF NewRow, SamePosition
<1>3. o.seq = h + 1
  BY <1>1 DEF IsNext
<1>4. /\ e.chain = d.chain \cup {n} /\ e.gaps = d.gaps /\ e.confirms = d.confirms
      /\ e.run = d.run /\ e.repairs = d.repairs /\ e.gens = d.gens
      /\ e.controller = d.controller /\ e.conflicts = d.conflicts
  BY DEF Databases
<1>5. h = 0 \/ \E r \in d.chain : r.seq = h
  <2>1. RowsOf(d.chain, Stream, 0) = d.chain
    BY DEF RowsOf, Usable
  <2> QED
    BY <1>1, <2>1, HighestIsGreatest
<1> HIDE DEF n, h
<1>6. \A r, q \in e.chain : r.seq = q.seq => r = q
  <2>1. \A r \in d.chain : r.seq # n.seq
    BY <1>1, <1>2, <1>3, MaxSeqAssumption
  <2> QED
    BY <1>4, <2>1 DEF Usable
<1>7. ASSUME NEW r \in e.chain, NEW k \in 1..MaxSeq, k <= r.seq
      PROVE  \E q \in e.chain : q.seq = k
  <2>1. CASE r \in d.chain
    BY <1>4, <1>7, <2>1 DEF Usable
  <2>2. CASE r = n /\ k = o.seq
    BY <1>2, <1>4, <2>2
  <2>3. CASE r = n /\ k # o.seq
    <3>1. k <= h /\ h # 0
      BY <1>1, <1>2, <1>3, <1>7, <2>3, MaxSeqAssumption
    <3>2. PICK p \in d.chain : p.seq = h
      BY <1>5, <3>1
    <3>3. \E q \in d.chain : q.seq = k
      BY <3>1, <3>2 DEF Usable
    <3> QED
      BY <1>4, <3>3
  <2> QED
    BY <1>4, <2>1, <2>2, <2>3
<1>8. Usable(e)
  BY <1>2, <1>4, <1>6, <1>7 DEF Usable
<1>9. Extends(d, e) /\ Concerns(d, e, o)
  BY <1>2, <1>4 DEF Extends, Concerns
<1>10. AppliedRow(e, o) # {}
  BY <1>2, <1>4 DEF AppliedRow
<1> QED
  BY <1>8, <1>9, <1>10

LEMMA LossUsable ==
  ASSUME NEW d \in Databases, Usable(d), NEW o \in JournalObs,
         NEW reason \in {"MISSING_SEQUENCE", "CONFLICTING_DUPLICATE"},
         NEW e, e = LoseContinuity(d, o, reason)
  PROVE  /\ Usable(e) /\ Extends(d, e) /\ Concerns(d, e, o)
         /\ \E gap \in GapDetectedBy(e, o) : gap.reason = reason
<1> DEFINE gap == GapRow(d, o, reason)
           closed == IF reason = "CONFLICTING_DUPLICATE" THEN "CLOSED" ELSE "QUARANTINED_GAP"
           gs == [d.gens EXCEPT ![o.stream][o.gen] = closed, ![o.stream][o.gen + 1] = "ACTIVE"]
<1>1. o.stream = Stream /\ o.gen = 0
  BY DEF JournalObs
<1>2. /\ e.chain = d.chain /\ e.gaps = d.gaps \cup {gap} /\ e.confirms = d.confirms
      /\ e.run = d.run /\ e.repairs = d.repairs /\ e.gens = gs
  BY DEF LoseContinuity, Databases
<1>3. gs[Stream][0] = closed
  <2>1. d.gens \in [Streams -> [Generations -> GenStates]] /\ Stream \in Streams
    BY StoreFields, ContextStream
  <2>2. gs = [d.gens EXCEPT ![Stream] = [d.gens[Stream] EXCEPT ![0] = closed, ![1] = "ACTIVE"]]
    BY <1>1, <2>1
  <2>3. [d.gens[Stream] EXCEPT ![0] = closed, ![1] = "ACTIVE"][0] = closed
    BY <2>1 DEF Generations
  <2> HIDE DEF gs, closed
  <2> QED
    BY <2>1, <2>2, <2>3
<1>4. closed \notin {"NONE", "ACTIVE"}
  OBVIOUS
<1>5. gap.stream = o.stream /\ gap.detected = o.seq /\ gap.body = o.body /\ gap.reason = reason
  BY DEF GapRow
<1> HIDE DEF gap, closed, gs
<1>6. Usable(e)
  BY <1>2, <1>3, <1>4 DEF Usable
<1>7. Extends(d, e)
  BY <1>2, <1>3, <1>4 DEF Extends
<1>8. gap \in GapDetectedBy(e, o)
  BY <1>2, <1>5 DEF GapDetectedBy
<1>9. Concerns(d, e, o)
  BY <1>2, <1>8 DEF Concerns
<1> QED
  BY <1>5, <1>6, <1>7, <1>8, <1>9

(* One delivery, with or without the fault store: the store goes on, only  *)
(* about that delivery, and the outcome says what it did.                  *)
LEMMA DeliveryApplied ==
  ASSUME NEW d \in Databases, Usable(d), NEW o \in JournalObs, NEW flag,
         NEW e, e = ReceivedDb(flag, d, o), NEW n \in Nat,
         NEW m, m = IF Denied(flag, d, o) THEN n + 1 ELSE n
  PROVE  /\ e \in Databases /\ Usable(e) /\ Extends(d, e) /\ Concerns(d, e, o)
         /\ Journalled(d, o)
         /\ ReceivedOutcome(flag, d, o) \in OutcomeValues
         /\ Holds(e, m, ReceivedOutcome(flag, d, o), o)
<1> DEFINE out == ReceivedOutcome(flag, d, o)
<1>0. /\ ERRORS["E_INGEST_GAP"] = "GAP" /\ ERRORS["E_INGEST_CONFLICT"] = "CONFLICT"
      /\ ERRORS["E_INGEST_GENERATION_CLOSED"] = "CLOSED_GENERATION"
      /\ DOMAIN ERRORS = {"E_INGEST_GAP", "E_INGEST_CONFLICT", "E_INGEST_GENERATION_CLOSED"}
  BY DEF ERRORS
<1>1. Journalled(d, o)
  BY <1>0, FiveCases DEF Journalled
<1>2. Usable(d) /\ Extends(d, d) /\ Concerns(d, d, o)
  BY DEF Extends, Concerns
<1>3. ApplyDb(d, o) \in Databases
  BY ContextStream, ApplyTyped
<1>4. CASE Denied(flag, d, o)
  <2>1. e = d /\ out = Rejected("STORAGE_FAILED") /\ m > 0
    BY <1>4 DEF ReceivedDb, ReceivedOutcome
  <2>2. out \in OutcomeValues /\ Holds(e, m, out, o)
    BY <2>1 DEF Rejected, OutcomeValues, Codes, Holds
  <2> QED
    BY <1>1, <1>2, <2>1, <2>2
<1>5. CASE ~Denied(flag, d, o)
  <2>0. /\ e = ApplyDb(d, o) /\ e \in Databases
        /\ out = IF Verdict(d, o) = "APPLIED" THEN Applied(AckOf(e, o))
                 ELSE Rejected(ERRORS[Verdict(d, o)])
    BY <1>3, <1>5 DEF ReceivedDb, ReceivedOutcome
  <2> HIDE DEF out
  <2>1. CASE /\ d.gens[Stream][0] # "ACTIVE" /\ Verdict(d, o) = "E_INGEST_GENERATION_CLOSED"
             /\ ApplyDb(d, o) = d /\ ~IsNext(d, o)
    <3>1. out = Rejected("CLOSED_GENERATION")
      BY <1>0, <2>0, <2>1
    <3>3. e.gens[Stream][0] # "ACTIVE"
      BY <2>0, <2>1
    <3>2. out \in OutcomeValues /\ Holds(e, m, out, o)
      BY <3>1, <3>3 DEF Rejected, OutcomeValues, Codes, Holds
    <3> QED
      BY <1>1, <1>2, <2>0, <2>1, <3>2 DEF out
  <2>2. CASE /\ Verdict(d, o) = "APPLIED" /\ Usable(e) /\ Extends(d, e) /\ Concerns(d, e, o)
             /\ AppliedRow(e, o) # {}
    <3>1. out = Applied(AckOf(e, o))
      BY <2>0, <2>2
    <3>2. PICK r \in e.chain : SamePosition(r, o)
      BY <2>2 DEF AppliedRow
    <3>3. AckOf(e, o) \in Acks
      BY <2>0, <2>2, <3>2, AckOfRow DEF SamePosition
    <3>4. out \in OutcomeValues /\ Holds(e, m, out, o)
      BY <2>2, <3>1, <3>3 DEF Applied, OutcomeValues, Holds
    <3> QED
      BY <1>1, <2>0, <2>2, <3>4 DEF out
  <2>3. CASE /\ IsConflict(d, o) /\ Verdict(d, o) = "E_INGEST_CONFLICT" /\ ~IsNext(d, o)
             /\ ApplyDb(d, o) = LoseContinuity(d, o, "CONFLICTING_DUPLICATE")
    <3>1. out = Rejected("CONFLICT")
      BY <1>0, <2>0, <2>3
    <3>2. /\ Usable(e) /\ Extends(d, e) /\ Concerns(d, e, o)
          /\ \E gap \in GapDetectedBy(e, o) : gap.reason = "CONFLICTING_DUPLICATE"
      BY <2>0, <2>3, LossUsable
    <3>3. out \in OutcomeValues /\ Holds(e, m, out, o)
      BY <3>1, <3>2 DEF Rejected, OutcomeValues, Codes, Holds
    <3> QED
      BY <1>1, <2>0, <3>2, <3>3 DEF out
  <2>4. CASE /\ IsGap(d, o) /\ Verdict(d, o) = "E_INGEST_GAP" /\ ~IsNext(d, o)
             /\ ApplyDb(d, o) = LoseContinuity(d, o, "MISSING_SEQUENCE")
    <3>1. out = Rejected("GAP")
      BY <1>0, <2>0, <2>4
    <3>2. /\ Usable(e) /\ Extends(d, e) /\ Concerns(d, e, o)
          /\ \E gap \in GapDetectedBy(e, o) : gap.reason = "MISSING_SEQUENCE"
      BY <2>0, <2>4, LossUsable
    <3>3. out \in OutcomeValues /\ Holds(e, m, out, o)
      BY <3>1, <3>2 DEF Rejected, OutcomeValues, Codes, Holds
    <3> QED
      BY <1>1, <2>0, <3>2, <3>3 DEF out
  <2>5. CASE /\ IsNext(d, o) /\ Verdict(d, o) = "APPLIED"
             /\ ApplyDb(d, o) = [d EXCEPT !.chain = @ \cup {NewRow(d, o)}]
    <3>1. Usable(e) /\ Extends(d, e) /\ Concerns(d, e, o) /\ AppliedRow(e, o) # {}
      BY <2>0, <2>5, NextUsable
    <3> QED
      BY <2>2, <2>5, <3>1
  <2>6. CASE /\ AppliedRow(d, o) # {} /\ Verdict(d, o) = "APPLIED"
             /\ ApplyDb(d, o) = d /\ ~IsNext(d, o)
    BY <1>2, <2>0, <2>2, <2>6
  <2> QED
    BY <2>1, <2>3, <2>4, <2>5, <2>6, FiveCases
<1> QED
  BY <1>4, <1>5

(* The outcome reconcile reads from a store that has the observation.      *)
LEMMA CommittedHolds ==
  ASSUME NEW d \in Databases, Usable(d), NEW o \in JournalObs, NEW n \in Nat, Committed(d, o)
  PROVE  CommittedOutcome(d, o) \in OutcomeValues /\ Holds(d, n, CommittedOutcome(d, o), o)
<1> DEFINE out == CommittedOutcome(d, o)
<1>1. CASE GapDetectedBy(d, o) # {}
  <2>1. PICK gap \in GapDetectedBy(d, o) :
          out = Rejected(IF gap.reason = "MISSING_SEQUENCE" THEN "GAP" ELSE "CONFLICT")
    BY <1>1 DEF CommittedOutcome
  <2>2. gap.reason \in {"MISSING_SEQUENCE", "CONFLICTING_DUPLICATE"}
    BY StoreFields DEF GapDetectedBy, GapRows
  <2> HIDE DEF out
  <2>3. CASE gap.reason = "MISSING_SEQUENCE"
    <3>1. out = Rejected("GAP") /\ \E g \in GapDetectedBy(d, o) : g.reason = "MISSING_SEQUENCE"
      BY <2>1, <2>3
    <3> QED
      BY <3>1 DEF Rejected, OutcomeValues, Codes, Holds, out
  <2>4. CASE gap.reason = "CONFLICTING_DUPLICATE"
    <3>1. /\ out = Rejected("CONFLICT")
          /\ \E g \in GapDetectedBy(d, o) : g.reason = "CONFLICTING_DUPLICATE"
      BY <2>1, <2>4
    <3> QED
      BY <3>1 DEF Rejected, OutcomeValues, Codes, Holds, out
  <2> QED
    BY <2>2, <2>3, <2>4
<1>2. CASE GapDetectedBy(d, o) = {}
  <2>1. AppliedRow(d, o) # {} /\ out = Applied(AckOf(d, o))
    BY <1>2 DEF Committed, CommittedOutcome
  <2>2. PICK r \in d.chain : SamePosition(r, o)
    BY <2>1 DEF AppliedRow
  <2>3. AckOf(d, o) \in Acks
    BY <2>2, AckOfRow DEF SamePosition
  <2> QED
    BY <2>1, <2>3 DEF Applied, OutcomeValues, Holds
<1> QED
  BY <1>1, <1>2

(* confirm_ack of an ACK the store backs: the position is confirmed.       *)
LEMMA Confirming ==
  ASSUME NEW d \in Databases, Usable(d), NEW a \in Acks, HoldsAck(d, a), a.seq > ConfirmedIn(d),
         NEW e, e = ConfirmDb(d, a)
  PROVE  /\ e \in Databases /\ Usable(e) /\ Extends(d, e)
         /\ e.chain = d.chain /\ e.gaps = d.gaps
         /\ a.seq <= ConfirmedIn(e) /\ ConfirmedIn(d) <= ConfirmedIn(e)
         /\ ConfirmedIn(d) \in Nat /\ ConfirmedIn(e) \in Nat
         /\ Alike(e, d) /\ \E c \in e.confirms : c.seq = a.seq /\ c.cursor = a.cursor
<1> DEFINE row == [stream |-> a.stream, gen |-> a.gen, seq |-> a.seq, cursor |-> a.cursor,
                   previous |-> Highest(d.confirms, a.stream, a.gen)]
<1>1. a.stream = Stream /\ a.gen = 0 /\ a.seq \in 1..MaxSeq /\ a.cursor \in Seq(Bodies)
  BY DEF Acks
<1>2. \A r \in d.confirms : r.seq \in 1..MaxSeq
  BY RowsTyped
<1>3. ConfirmedIn(d) \in 0..MaxSeq
  BY <1>2, HighestIsGreatest DEF ConfirmedIn
<1>4. e = [d EXCEPT !.confirms = @ \cup {row}]
  <2>1. ConfirmVerdict(d, a) = "CONFIRMED"
    BY <1>1, <1>3, MaxSeqAssumption DEF ConfirmVerdict, ConfirmedIn
  <2> QED
    BY <2>1 DEF ConfirmDb
<1>5. row \in ConfirmRows
  BY <1>1, <1>3, ContextStream DEF ConfirmRows, ConfirmedIn, Generations
<1>6. e \in Databases
  BY <1>4, <1>5 DEF Databases
<1>7. /\ e.chain = d.chain /\ e.gaps = d.gaps /\ e.confirms = d.confirms \cup {row}
      /\ e.run = d.run /\ e.repairs = d.repairs /\ e.gens = d.gens
      /\ e.controller = d.controller /\ e.conflicts = d.conflicts
  BY <1>4 DEF Databases
<1>8. \A r \in e.confirms : r.seq \in 1..MaxSeq
  BY <1>6, RowsTyped
<1>9. /\ ConfirmedIn(e) \in 0..MaxSeq
      /\ \A r \in RowsOf(e.confirms, Stream, 0) : r.seq <= ConfirmedIn(e)
  BY <1>8, HighestIsGreatest DEF ConfirmedIn
<1>10. row \in RowsOf(e.confirms, Stream, 0) /\ row.seq = a.seq
  BY <1>1, <1>7 DEF RowsOf
<1>11. a.seq <= ConfirmedIn(e)
  BY <1>9, <1>10
<1>12. Usable(e) /\ Extends(d, e)
  BY <1>7 DEF Usable, Extends
<1>13. Alike(e, d) /\ \E c \in e.confirms : c.seq = a.seq /\ c.cursor = a.cursor
  <2>1. row.seq = a.seq /\ row.cursor = a.cursor
    OBVIOUS
  <2> HIDE DEF row
  <2> QED
    BY <1>7, <2>1 DEF Alike
<1> QED
  BY <1>1, <1>3, <1>6, <1>7, <1>9, <1>11, <1>12, <1>13, MaxSeqAssumption

-----------------------------------------------------------------------------
(* The rows on disk.                                                       *)

LEMMA RowAdded ==
  ASSUME NEW S, NEW j \in Seq(S), NEW row \in S, NEW k
  PROVE  RowsOfKind(Append(j, row), k)
           = RowsOfKind(j, k) \cup (IF row.kind = k THEN {row} ELSE {})
<1> DEFINE a == Append(j, row)
           n == Len(j)
<1>1. /\ n \in Nat /\ DOMAIN j = 1..n /\ DOMAIN a = 1..(n + 1) /\ a[n + 1] = row
      /\ \A i \in 1..n : a[i] = j[i]
  OBVIOUS
<1>2. \A i \in DOMAIN a : i \in DOMAIN j \/ i = n + 1
  BY <1>1
<1>3. n + 1 \in DOMAIN a /\ \A i \in DOMAIN j : i \in DOMAIN a /\ a[i] = j[i]
  BY <1>1
<1> HIDE DEF a, n
<1>4. RowsOfKind(a, k) \subseteq RowsOfKind(j, k) \cup (IF row.kind = k THEN {row} ELSE {})
  BY <1>1, <1>2, <1>3 DEF RowsOfKind
<1>5. RowsOfKind(j, k) \subseteq RowsOfKind(a, k)
  BY <1>3 DEF RowsOfKind
<1>6. row.kind = k => row \in RowsOfKind(a, k)
  BY <1>1, <1>3 DEF RowsOfKind
<1> QED
  BY <1>4, <1>5, <1>6 DEF a

LEMMA RowTypes ==
  ASSUME NEW j \in Seq(JournalRows)
  PROVE  /\ \A r \in Receives(j) : r \in JournalRows /\ r.kind = "RECEIVED" /\ r.index \in Nat
                                   /\ r.obs \in JournalObs
         /\ \A q \in Outcomes(j) : q \in JournalRows /\ q.kind = "OUTCOME" /\ q.index \in Nat
                                   /\ q.outcome \in OutcomeValues
<1>1. \A i \in DOMAIN j : j[i] \in JournalRows
  OBVIOUS
<1>2. \A k : \A r \in RowsOfKind(j, k) : r \in JournalRows /\ r.kind = k
  BY <1>1 DEF RowsOfKind
<1>3. \A r \in JournalRows : r.kind = "RECEIVED" => r.index \in Nat /\ r.obs \in JournalObs
  BY DEF JournalRows
<1>4. \A r \in JournalRows : r.kind = "OUTCOME" => r.index \in Nat /\ r.outcome \in OutcomeValues
  BY DEF JournalRows
<1> QED
  BY <1>2, <1>3, <1>4 DEF Receives, Outcomes

LEMMA DiskTyped ==
  ASSUME JournalTyped
  PROVE  /\ OnDisk \in Seq(JournalRows)
         /\ \A r \in Receives(OnDisk) : r.index \in Nat /\ r.obs \in JournalObs
         /\ \A q \in Outcomes(OnDisk) : q.index \in Nat /\ q.outcome \in OutcomeValues
<1>1. CASE pc = "RENAMED"
  <2>1. retained # <<>> /\ retained \in Seq(Files)
    BY <1>1 DEF JournalTyped
  <2>2. Len(retained) \in 1..Len(retained)
    BY <2>1, EmptySeq
  <2>3. Last(retained) \in Files
    BY <2>1, <2>2, ElementOfSeq DEF Last
  <2>4. Last(retained).rows \in Seq(JournalRows)
    BY <2>3 DEF Files
  <2> QED
    BY <1>1, <2>4, RowTypes DEF OnDisk
<1>2. CASE pc # "RENAMED"
  BY <1>2, RowTypes DEF OnDisk, JournalTyped
<1> QED
  BY <1>1, <1>2

(* _append, by the kind of the row.                                        *)
LEMMA RowAppended ==
  ASSUME JournalTyped, pc # "RENAMED", pc' # "RENAMED", NEW row \in JournalRows, AppendRow(row)
  PROVE  /\ OnDisk = journal /\ OnDisk' = journal' /\ journal' \in Seq(JournalRows)
         /\ Receives(OnDisk') = Receives(OnDisk) \cup (IF row.kind = "RECEIVED" THEN {row} ELSE {})
         /\ Outcomes(OnDisk') = Outcomes(OnDisk) \cup (IF row.kind = "OUTCOME" THEN {row} ELSE {})
<1>1. OnDisk = journal /\ OnDisk' = journal' /\ journal' = Append(journal, row)
  BY DEF OnDisk, AppendRow
<1>2. journal \in Seq(JournalRows) /\ journal' \in Seq(JournalRows)
  BY <1>1 DEF JournalTyped
<1> QED
  BY <1>1, <1>2, RowAdded DEF Receives, Outcomes

LEMMA CountedOneMore ==
  ASSUME NEW R, Counted(R), NEW row, row.index = Cardinality(R) + 1
  PROVE  row \notin R /\ Counted(R \cup {row})
<1>1. IsFiniteSet(R) /\ Cardinality(R) \in Nat /\ \A r \in R : r.index \in 1..Cardinality(R)
  BY FS_CardinalityType DEF Counted
<1>2. row \notin R
  BY <1>1
<1>3. IsFiniteSet(R \cup {row}) /\ Cardinality(R \cup {row}) = Cardinality(R) + 1
  BY <1>1, <1>2, FS_AddElement
<1> QED
  BY <1>1, <1>2, <1>3 DEF Counted

LEMMA EvidenceOn ==
  ASSUME NEW d, NEW e, NEW R, NEW S, NEW raw, NEW raw2, Evidence(d, R, raw),
         R \subseteq S, raw \subseteq raw2, \A q \in S \ R : q.obs \in raw2,
         d.gaps \subseteq e.gaps,
         \A r \in e.chain : r \in d.chain \/ \E q \in S : SamePosition(q.obs, r) /\ q.obs.body = r.body,
         \A gap \in e.gaps : gap \in d.gaps \/ \E q \in S : gap \in GapDetectedBy(e, q.obs)
  PROVE  Evidence(e, S, raw2)
<1>1. \A gap \in d.gaps : \E q \in S : gap \in GapDetectedBy(e, q.obs)
  <2> TAKE gap \in d.gaps
  <2>1. PICK q \in R : gap \in GapDetectedBy(d, q.obs)
    BY DEF Evidence
  <2> QED
    BY <2>1 DEF GapDetectedBy
<1>2. \A r \in d.chain : \E q \in S : SamePosition(q.obs, r) /\ q.obs.body = r.body
  BY DEF Evidence
<1>3. \A q \in S : q.obs \in raw2
  BY DEF Evidence
<1> QED
  BY <1>1, <1>2, <1>3 DEF Evidence

LEMMA MatchesOn ==
  ASSUME NEW d \in Databases, NEW e \in Databases, Usable(d), Usable(e), Extends(d, e),
         NEW n \in Nat, NEW m \in Nat, n <= m, NEW R, NEW S, NEW O, R \subseteq S,
         \A r \in R : r.obs \in JournalObs, \A q \in O : q.outcome \in OutcomeValues,
         Matches(d, n, R, O)
  PROVE  Matches(e, m, S, O)
<1> SUFFICES ASSUME NEW q \in O
             PROVE  \E r \in S : /\ r.index = q.index
                                 /\ \A p \in O : p.index = q.index => p = q
                                 /\ Holds(e, m, q.outcome, r.obs)
  BY DEF Matches
<1>1. PICK r \in R : /\ r.index = q.index
                     /\ \A p \in O : p.index = q.index => p = q
                     /\ Holds(d, n, q.outcome, r.obs)
  BY DEF Matches
<1>2. Holds(e, m, q.outcome, r.obs)
  BY <1>1, HoldsOn
<1> QED
  BY <1>1, <1>2

LEMMA MatchesOneMore ==
  ASSUME NEW d, NEW n, NEW R, NEW O, Matches(d, n, R, O), NEW x, NEW r \in R,
         r.index = x.index, \A q \in O : q.index # x.index, Holds(d, n, x.outcome, r.obs)
  PROVE  Matches(d, n, R, O \cup {x})
BY DEF Matches

LEMMA BacksOn ==
  ASSUME NEW d, NEW e, NEW O, NEW P, NEW a, Backs(d, O, a), Extends(d, e), O \subseteq P
  PROVE  Backs(e, P, a)
BY DEF Backs, HoldsAck, Extends

(* An APPLIED outcome that holds backs its ACK.                            *)
LEMMA AppliedBacks ==
  ASSUME NEW d \in Databases, Usable(d), NEW n, NEW o \in JournalObs, NEW out \in OutcomeValues,
         out.status = "APPLIED", Holds(d, n, out, o), NEW O, \E q \in O : q.outcome = out
  PROVE  out.ack \in Acks /\ Backs(d, O, out.ack)
<1>1. out \in [status : {"APPLIED"}, ack : Acks]
  BY DEF OutcomeValues
<1>2. out = Applied(out.ack) /\ out.ack \in Acks
  BY <1>1 DEF Applied
<1>3. AppliedRow(d, o) # {} /\ out.ack = AckOf(d, o)
  BY DEF Holds
<1>4. PICK r \in d.chain : SamePosition(r, o)
  BY <1>3 DEF AppliedRow
<1>5. HoldsAck(d, out.ack)
  BY <1>3, <1>4, AckOfRow DEF SamePosition
<1> QED
  BY <1>2, <1>5 DEF Backs

(* The only receive without an outcome is the one reconcile takes first.   *)
LEMMA TheIncomplete ==
  ASSUME JournalInv, pc = "SCAN", Incomplete(journal) # {}
  PROVE  /\ OnDisk = journal /\ FirstIncomplete \in Receives(journal)
         /\ Incomplete(journal) = {FirstIncomplete}
         /\ FirstIncomplete.obs \in JournalObs /\ FirstIncomplete.index \in Nat
<1>1. OnDisk = journal
  BY DEF OnDisk
<1>2. PICK r \in Incomplete(journal) : \A q \in Incomplete(journal) : q = r
  BY <1>1 DEF JournalInv, Control
<1>3. r \in Receives(journal) /\ r.index \in Nat /\ r.obs \in JournalObs
  BY <1>1, <1>2, DiskTyped DEF Incomplete, JournalInv
<1>4. FirstIncomplete = r
  BY <1>2, <1>3 DEF FirstIncomplete
<1> QED
  BY <1>1, <1>2, <1>3, <1>4

-----------------------------------------------------------------------------
(* The steps.                                                              *)

(* A step that neither the store nor the rows on disk see.                 *)
LEMMA NothingWritten ==
  ASSUME JournalInv, JournalTyped', OnDisk' = OnDisk, db' = db, denials' = denials,
         rawFiles \subseteq rawFiles', Control',
         \A a \in acked' : a \in acked \/ (a = ack /\ ack # NoAck /\ ack.seq <= ConfirmedIn(db))
  PROVE  JournalInv'
<1>1. Evidence(db', Receives(OnDisk'), rawFiles')
  BY DEF JournalInv, Evidence
<1>2. \A a \in acked' : Backs(db', Outcomes(OnDisk'), a) /\ a.seq <= ConfirmedIn(db')
  BY DEF JournalInv, Control
<1> QED
  BY <1>1, <1>2 DEF JournalInv

LEMMA ReceiveBatchKeeps == ASSUME JournalInv, ReceiveBatch PROVE JournalInv'
<1> USE DEF durable, history
<1>1. pc = "IDLE" /\ pc' = "NEXT" /\ OnDisk' = OnDisk
  BY DEF ReceiveBatch, OnDisk
<1>2. batch' \in Seq(JournalObs)
  <2>1. PICK first \in 1..MaxSeq, last \in 1..MaxSeq :
          /\ first <= last
          /\ \E body \in [first..last -> Bodies] :
               batch' = [k \in 1..(last - first + 1) |->
                           [stream |-> Stream, gen |-> 0, seq |-> first + k - 1,
                            body |-> body[first + k - 1]]]
    BY DEF ReceiveBatch
  <2>2. PICK body \in [first..last -> Bodies] :
          batch' = [k \in 1..(last - first + 1) |->
                      [stream |-> Stream, gen |-> 0, seq |-> first + k - 1,
                       body |-> body[first + k - 1]]]
    BY <2>1
  <2>3. last - first + 1 \in Nat /\ first \in Nat /\ last \in Nat /\ last <= MaxSeq
    BY <2>1, MaxSeqAssumption
  <2>4. ASSUME NEW k \in 1..(last - first + 1)
        PROVE  [stream |-> Stream, gen |-> 0, seq |-> first + k - 1, body |-> body[first + k - 1]]
                 \in JournalObs
    <3>1. first + k - 1 \in first..last /\ first + k - 1 \in 1..MaxSeq
      BY <2>1, <2>3, MaxSeqAssumption
    <3>2. body[first + k - 1] \in Bodies
      BY <3>1
    <3> QED
      BY <3>1, <3>2 DEF JournalObs
  <2>5. batch' \in [1..(last - first + 1) -> JournalObs]
    BY <2>2, <2>4
  <2> QED
    BY <2>3, <2>5
<1>3. JournalTyped'
  BY <1>1, <1>2 DEF ReceiveBatch, JournalInv, JournalTyped
<1>4. Control'
  BY <1>1 DEF ReceiveBatch, JournalInv, Control
<1> QED
  BY <1>1, <1>3, <1>4, NothingWritten DEF ReceiveBatch

LEMMA StoreRawKeeps == ASSUME JournalInv, StoreRaw PROVE JournalInv'
<1> USE DEF local, history
<1>1. pc = "NEXT" /\ pc' = "RAW" /\ OnDisk' = OnDisk /\ rawFiles \subseteq rawFiles'
  BY DEF StoreRaw, OnDisk
<1>2. JournalTyped'
  BY <1>1 DEF StoreRaw, JournalInv, JournalTyped
<1>3. Control'
  BY <1>1 DEF StoreRaw, JournalInv, Control
<1> QED
  BY <1>1, <1>2, <1>3, NothingWritten DEF StoreRaw

LEMMA RespondKeeps == ASSUME JournalInv, RespondWithoutConfirmation PROVE JournalInv'
<1> USE DEF durable, local
<1>1. pc = "NEXT" /\ pc' = "IDLE" /\ OnDisk' = OnDisk
  BY DEF RespondWithoutConfirmation, OnDisk
<1>2. JournalTyped'
  BY <1>1 DEF RespondWithoutConfirmation, JournalInv, JournalTyped
<1>3. Control'
  BY <1>1 DEF RespondWithoutConfirmation, JournalInv, Control
<1>4. \A a \in acked' : a \in acked \/ (a = ack /\ ack # NoAck /\ ack.seq <= ConfirmedIn(db))
  BY DEF RespondWithoutConfirmation, Confirmed, ConfirmedIn
<1> QED
  BY <1>1, <1>2, <1>3, <1>4, NothingWritten DEF RespondWithoutConfirmation

(* What Start retains: the file as it is.                                  *)
LEMMA FileRetained ==
  ASSUME JournalTyped, Start, torn # <<>>
  PROVE  /\ pc = "DOWN" /\ pc' = "RENAMED" /\ journal' = <<>> /\ torn' = <<>>
         /\ retained' \in Seq(Files) /\ Len(retained') = Len(retained) + 1
         /\ retained' # <<>> /\ Last(retained') = Bytes(journal, torn)
         /\ retained'[Len(retained) + 1] = Bytes(journal, torn)
         /\ \A n \in DOMAIN retained : retained'[n] = retained[n]
         /\ Bytes(journal, torn).rows = journal
         /\ OnDisk = journal /\ OnDisk' = journal
<1> DEFINE file == Bytes(journal, torn)
<1>1. /\ pc = "DOWN" /\ pc' = "RENAMED" /\ journal' = <<>> /\ torn' = <<>>
      /\ retained' = Append(retained, file)
  BY DEF Start
<1>2. journal \in Seq(JournalRows) /\ torn \in TornParts /\ retained \in Seq(Files)
  BY DEF JournalTyped
<1>3. file \in Files /\ file.rows = journal
  BY <1>2 DEF Bytes, Files
<1> HIDE DEF file
<1>4. /\ retained' \in Seq(Files) /\ Len(retained') = Len(retained) + 1
      /\ retained'[Len(retained) + 1] = file
      /\ \A n \in DOMAIN retained : retained'[n] = retained[n]
  BY <1>1, <1>2, <1>3
<1>5. retained' # <<>> /\ Last(retained') = file
  BY <1>2, <1>4, EmptySeq DEF Last
<1>6. OnDisk = journal /\ OnDisk' = journal
  BY <1>1, <1>3, <1>5 DEF OnDisk
<1> QED
  BY <1>1, <1>3, <1>4, <1>5, <1>6 DEF file

LEMMA StartKeeps == ASSUME JournalInv, Start PROVE JournalInv'
<1> USE DEF history
<1>1. CASE torn # <<>>
  <2>1. /\ pc = "DOWN" /\ pc' = "RENAMED" /\ journal' = <<>> /\ torn' = <<>>
        /\ retained' \in Seq(Files) /\ retained' # <<>> /\ OnDisk' = OnDisk
    BY <1>1, FileRetained DEF JournalInv
  <2>2. JournalTyped'
    BY <2>1, EmptySeq DEF Start, JournalInv, JournalTyped, TornParts
  <2>3. Control'
    BY <2>1 DEF Start, JournalInv, Control
  <2> QED
    BY <2>1, <2>2, <2>3, NothingWritten DEF Start
<1>2. CASE torn = <<>>
  <2>1. pc = "DOWN" /\ pc' = "SCAN" /\ OnDisk' = OnDisk
    BY <1>2 DEF Start, OnDisk
  <2>2. JournalTyped'
    BY <1>2, <2>1 DEF Start, JournalInv, JournalTyped
  <2>3. Control'
    BY <2>1 DEF Start, JournalInv, Control
  <2> QED
    BY <2>1, <2>2, <2>3, NothingWritten DEF Start
<1> QED
  BY <1>1, <1>2

LEMMA StartRefusedKeeps == ASSUME JournalInv, StartRefused PROVE JournalInv'
<1> USE DEF durable, local, history
<1>1. pc = "DOWN" /\ pc' = "REFUSED" /\ OnDisk' = OnDisk
  BY DEF StartRefused, OnDisk
<1>2. JournalTyped'
  BY <1>1 DEF StartRefused, JournalInv, JournalTyped
<1>3. Control'
  BY <1>1 DEF StartRefused, JournalInv, Control
<1> QED
  BY <1>1, <1>2, <1>3, NothingWritten DEF StartRefused

LEMMA RewritePrefixKeeps == ASSUME JournalInv, RewritePrefix PROVE JournalInv'
<1> USE DEF local, history
<1>1. pc = "RENAMED" /\ pc' = "PREFIX" /\ OnDisk' = OnDisk /\ journal' = OnDisk
  BY DEF RewritePrefix, OnDisk
<1>2. JournalTyped'
  BY <1>1, DiskTyped DEF RewritePrefix, JournalInv, JournalTyped
<1>3. Control'
  BY <1>1 DEF RewritePrefix, JournalInv, Control
<1> QED
  BY <1>1, <1>2, <1>3, NothingWritten DEF RewritePrefix

LEMMA ListenKeeps == ASSUME JournalInv, Listen PROVE JournalInv'
<1> USE DEF durable, local, history
<1>1. pc = "SCAN" /\ pc' = "IDLE" /\ OnDisk' = OnDisk /\ OnDisk = journal
  BY DEF Listen, OnDisk
<1>2. JournalTyped'
  BY <1>1 DEF Listen, JournalInv, JournalTyped
<1>3. Control'
  BY <1>1 DEF Listen, JournalInv, Control
<1> QED
  BY <1>1, <1>2, <1>3, NothingWritten DEF Listen

(* The next free index is nobody's.                                        *)
LEMMA FreshIndex ==
  ASSUME JournalInv
  PROVE  /\ Cardinality(Receives(OnDisk)) \in Nat
         /\ \A q \in Outcomes(OnDisk) : q.index # Cardinality(Receives(OnDisk)) + 1
<1>1. /\ Cardinality(Receives(OnDisk)) \in Nat
      /\ \A r \in Receives(OnDisk) : r.index \in 1..Cardinality(Receives(OnDisk))
  BY FS_CardinalityType DEF JournalInv, Counted
<1>2. \A q \in Outcomes(OnDisk) : \E r \in Receives(OnDisk) : r.index = q.index
  BY DEF JournalInv, Matches
<1> QED
  BY <1>1, <1>2

LEMMA RecordReceivedKeeps == ASSUME JournalInv, RecordReceived PROVE JournalInv'
<1> DEFINE R == Receives(OnDisk)
           row == Received(current', Head(batch))
<1>1. /\ pc = "RAW" /\ pc' = "RECEIVED" /\ current' = Cardinality(R) + 1 /\ AppendRow(row)
      /\ UNCHANGED <<db, torn, rawFiles, retained, denials, fault, batch, outcome, ack,
                     acked, recovered, crashes>>
  BY DEF RecordReceived, OnDisk, history
<1>2. /\ batch # <<>> /\ Head(batch) \in rawFiles /\ Incomplete(OnDisk) = {}
      /\ batch \in Seq(JournalObs)
  BY <1>1 DEF JournalInv, Control, JournalTyped
<1>3. Head(batch) \in JournalObs
  BY <1>2, HeadTailProperties
<1>4. current' \in Nat /\ \A q \in Outcomes(OnDisk) : q.index # current'
  BY <1>1, FreshIndex
<1>5. row \in JournalRows /\ row.kind = "RECEIVED" /\ row.index = current' /\ row.obs = Head(batch)
  BY <1>3, <1>4 DEF Received, JournalRows
<1> HIDE DEF row
<1>6. /\ journal' \in Seq(JournalRows) /\ Receives(OnDisk') = R \cup {row}
      /\ Outcomes(OnDisk') = Outcomes(OnDisk)
  BY <1>1, <1>5, RowAppended DEF JournalInv
<1>7. JournalTyped'
  BY <1>1, <1>4, <1>6 DEF JournalInv, JournalTyped
<1>8. Counted(R \cup {row})
  BY <1>1, <1>5, CountedOneMore DEF JournalInv
<1>9. Evidence(db', R \cup {row}, rawFiles')
  BY <1>1, <1>2, <1>5 DEF JournalInv, Evidence
<1>10. Matches(db', denials', R \cup {row}, Outcomes(OnDisk'))
  BY <1>1, <1>6 DEF JournalInv, Matches
<1>11. Incomplete(OnDisk') = {row}
  BY <1>2, <1>4, <1>5, <1>6 DEF Incomplete
<1>12. row = Received(current', Head(batch'))
  BY <1>1 DEF row
<1>13. Control'
  BY <1>1, <1>2, <1>6, <1>11, <1>12 DEF JournalInv, Control
<1> QED
  BY <1>1, <1>6, <1>7, <1>8, <1>9, <1>10, <1>13 DEF JournalInv

(* Rows that are neither a receive nor an outcome.                         *)
LEMMA OtherRowKeeps ==
  ASSUME JournalInv, pc # "RENAMED", pc' # "RENAMED", NEW row \in JournalRows, AppendRow(row),
         row.kind \notin {"RECEIVED", "OUTCOME"},
         UNCHANGED <<db, torn, rawFiles, retained, denials, batch, current, ack>>, Control',
         \A a \in acked' : a \in acked \/ (a = ack /\ ack # NoAck /\ ack.seq <= ConfirmedIn(db))
  PROVE  JournalInv'
<1>1. /\ journal' \in Seq(JournalRows) /\ Receives(OnDisk') = Receives(OnDisk)
      /\ Outcomes(OnDisk') = Outcomes(OnDisk)
  BY RowAppended DEF JournalInv
<1>2. JournalTyped'
  BY <1>1 DEF JournalInv, JournalTyped
<1>3. \A a \in acked' : Backs(db', Outcomes(OnDisk'), a) /\ a.seq <= ConfirmedIn(db')
  BY <1>1 DEF JournalInv, Control
<1> QED
  BY <1>1, <1>2, <1>3 DEF JournalInv

LEMMA RecordConfirmationKeeps == ASSUME JournalInv, RecordConfirmation PROVE JournalInv'
<1> DEFINE row == Confirmation(ack)
<1> USE DEF local
<1>1. /\ pc = "CONFIRMED" /\ pc' = "IDLE" /\ AppendRow(row) /\ acked' = acked \cup {ack}
      /\ UNCHANGED <<db, torn, rawFiles, retained, denials, fault, batch, current, outcome, ack>>
  BY DEF RecordConfirmation
<1>2. ack # NoAck /\ ack.seq <= ConfirmedIn(db) /\ ack \in Acks /\ Incomplete(OnDisk) = {}
  BY <1>1 DEF JournalInv, Control, JournalTyped
<1>3. row \in JournalRows /\ row.kind \notin {"RECEIVED", "OUTCOME"}
  BY <1>2 DEF Confirmation, JournalRows
<1> HIDE DEF row
<1>4. Receives(OnDisk') = Receives(OnDisk) /\ Outcomes(OnDisk') = Outcomes(OnDisk)
  BY <1>1, <1>3, RowAppended DEF JournalInv
<1>5. Incomplete(OnDisk') = {}
  BY <1>2, <1>4 DEF Incomplete
<1>6. Control'
  BY <1>1, <1>4, <1>5 DEF JournalInv, Control
<1> QED
  BY <1>1, <1>2, <1>3, <1>6, OtherRowKeeps DEF JournalInv

LEMMA RecordPartialTailKeeps == ASSUME JournalInv, RecordPartialTail PROVE JournalInv'
<1> DEFINE row == PartialTail(Len(retained))
<1> USE DEF local, history
<1>1. /\ pc = "PREFIX" /\ pc' = "SCAN" /\ AppendRow(row)
      /\ UNCHANGED <<db, torn, rawFiles, retained, denials, fault, batch, current, outcome, ack, acked>>
  BY DEF RecordPartialTail
<1>2. Len(retained) \in Nat
  BY DEF JournalInv, JournalTyped
<1>3. row \in JournalRows /\ row.kind \notin {"RECEIVED", "OUTCOME"}
  BY <1>2 DEF PartialTail, JournalRows
<1> HIDE DEF row
<1>4. Receives(OnDisk') = Receives(OnDisk) /\ Outcomes(OnDisk') = Outcomes(OnDisk)
  BY <1>1, <1>3, RowAppended DEF JournalInv
<1>5. Incomplete(OnDisk') = Incomplete(OnDisk)
  BY <1>4 DEF Incomplete
<1>6. Control'
  BY <1>1, <1>4, <1>5 DEF JournalInv, Control
<1> QED
  BY <1>1, <1>3, <1>6, OtherRowKeeps DEF JournalInv

(* The outcome row of the receive without one.                             *)
LEMMA OutcomeAppended ==
  ASSUME JournalInv, pc # "RENAMED", pc' # "RENAMED", NEW i \in Nat, NEW out \in OutcomeValues,
         NEW r \in Incomplete(OnDisk), r.index = i, Holds(db, denials, out, r.obs),
         AppendRow(Outcome(i, out)),
         UNCHANGED <<db, torn, rawFiles, retained, denials, current, acked>>,
         batch' \in Seq(JournalObs), ack' \in Acks \cup {NoAck}
  PROVE  /\ Incomplete(OnDisk') = {}
         /\ Outcomes(OnDisk') = Outcomes(OnDisk) \cup {Outcome(i, out)}
         /\ Control' => JournalInv'
<1> DEFINE row == Outcome(i, out)
<1>1. row \in JournalRows /\ row.kind = "OUTCOME" /\ row.index = i /\ row.outcome = out
  BY DEF Outcome, JournalRows
<1>2. AppendRow(row)
  OBVIOUS
<1> HIDE DEF row
<1>3. /\ journal' \in Seq(JournalRows) /\ Receives(OnDisk') = Receives(OnDisk)
      /\ Outcomes(OnDisk') = Outcomes(OnDisk) \cup {row}
  BY <1>1, <1>2, RowAppended DEF JournalInv
<1>4. r \in Receives(OnDisk) /\ \A q \in Outcomes(OnDisk) : q.index # row.index
  BY <1>1 DEF Incomplete
<1>5. Incomplete(OnDisk') = {}
  <2>1. \A q \in Incomplete(OnDisk) : q = r
    BY DEF JournalInv, Control
  <2> QED
    BY <1>1, <1>3, <2>1 DEF Incomplete
<1>6. JournalTyped'
  BY <1>3 DEF JournalInv, JournalTyped
<1>7. Matches(db, denials, Receives(OnDisk), Outcomes(OnDisk) \cup {row})
  BY <1>1, <1>4, MatchesOneMore DEF JournalInv
<1>8. \A a \in acked' : Backs(db', Outcomes(OnDisk'), a) /\ a.seq <= ConfirmedIn(db')
  BY <1>3 DEF JournalInv, Backs
<1>9. Control' => JournalInv'
  BY <1>3, <1>6, <1>7, <1>8 DEF JournalInv
<1> QED
  BY <1>3, <1>5, <1>9 DEF row

LEMMA RecordOutcomeKeeps == ASSUME JournalInv, RecordOutcome PROVE JournalInv'
<1> DEFINE r == Received(current, Head(batch))
<1>1. /\ pc = "APPLIED" /\ pc' = "NEXT" /\ AppendRow(Outcome(current, outcome))
      /\ UNCHANGED <<db, torn, rawFiles, retained, denials, current, acked>>
      /\ IF outcome.status = "APPLIED"
           THEN ack' = outcome.ack /\ batch' = Tail(batch)
           ELSE batch' = <<>> /\ ack' = ack
  BY DEF RecordOutcome, history
<1>2. /\ batch # <<>> /\ Incomplete(OnDisk) = {r} /\ outcome \in OutcomeValues
      /\ Holds(db, denials, outcome, r.obs)
  BY <1>1 DEF JournalInv, Control
<1>3. /\ batch \in Seq(JournalObs) /\ current \in Nat /\ ack \in Acks \cup {NoAck}
      /\ db \in Databases /\ Usable(db)
  BY DEF JournalInv, JournalTyped
<1>4. r.index = current /\ r.obs = Head(batch) /\ Head(batch) \in JournalObs
  BY <1>2, <1>3, HeadTailProperties DEF Received
<1> HIDE DEF r
<1>5. batch' \in Seq(JournalObs)
  <2>1. Tail(batch) \in Seq(JournalObs)
    BY <1>2, <1>3, HeadTailProperties
  <2>2. batch' = Tail(batch) \/ batch' = <<>>
    BY <1>1
  <2> QED
    BY <2>1, <2>2, EmptySeq
<1>6. outcome.status = "APPLIED" => outcome.ack \in Acks
  BY <1>2 DEF OutcomeValues
<1>7. ack' \in Acks \cup {NoAck}
  BY <1>1, <1>3, <1>6
<1>8. /\ Incomplete(OnDisk') = {} /\ (Control' => JournalInv')
      /\ Outcomes(OnDisk') = Outcomes(OnDisk) \cup {Outcome(current, outcome)}
  BY <1>1, <1>2, <1>3, <1>4, <1>5, <1>7, OutcomeAppended
<1>9. ack' # NoAck => Backs(db, Outcomes(OnDisk'), ack')
  <2>1. CASE outcome.status = "APPLIED"
    <3>1. \E q \in Outcomes(OnDisk') : q.outcome = outcome
      <4>1. Outcome(current, outcome).outcome = outcome
        BY DEF Outcome
      <4>2. Outcome(current, outcome) \in Outcomes(OnDisk')
        BY <1>8
      <4> QED
        BY <4>1, <4>2
    <3>2. Backs(db, Outcomes(OnDisk'), outcome.ack)
      BY <1>2, <1>3, <1>4, <2>1, <3>1, AppliedBacks
    <3> QED
      BY <1>1, <2>1, <3>2
  <2>2. CASE outcome.status # "APPLIED"
    <3>1. ack' = ack /\ (ack # NoAck => Backs(db, Outcomes(OnDisk), ack))
      BY <1>1, <2>2 DEF JournalInv, Control
    <3> QED
      BY <1>8, <3>1 DEF Backs
  <2> QED
    BY <2>1, <2>2
<1>10. Control'
  BY <1>1, <1>8, <1>9 DEF Control
<1> QED
  BY <1>8, <1>10

LEMMA RecoverCommittedKeeps == ASSUME JournalInv, RecoverCommitted PROVE JournalInv'
<1> DEFINE r == FirstIncomplete
           out == CommittedOutcome(db, r.obs)
<1>1. /\ pc = "SCAN" /\ pc' = pc /\ Incomplete(journal) # {} /\ Committed(db, r.obs)
      /\ AppendRow(Outcome(r.index, out))
      /\ UNCHANGED <<db, torn, rawFiles, retained, denials, batch, current, outcome, ack, acked>>
  BY DEF RecoverCommitted, local
<1>2. /\ OnDisk = journal /\ Incomplete(OnDisk) = {r}
      /\ r.obs \in JournalObs /\ r.index \in Nat
  BY <1>1, TheIncomplete
<1> HIDE DEF r
<1>3. /\ db \in Databases /\ Usable(db) /\ denials \in Nat
      /\ batch \in Seq(JournalObs) /\ ack \in Acks \cup {NoAck}
  BY DEF JournalInv, JournalTyped
<1>4. out \in OutcomeValues /\ Holds(db, denials, out, r.obs)
  BY <1>1, <1>2, <1>3, CommittedHolds
<1> HIDE DEF out
<1>5. /\ Incomplete(OnDisk') = {} /\ (Control' => JournalInv')
      /\ Outcomes(OnDisk') = Outcomes(OnDisk) \cup {Outcome(r.index, out)}
  BY <1>1, <1>2, <1>3, <1>4, OutcomeAppended
<1>6. ack' # NoAck => Backs(db', Outcomes(OnDisk'), ack')
  BY <1>1, <1>5 DEF JournalInv, Control, Backs
<1>7. Control'
  BY <1>1, <1>5, <1>6 DEF Control
<1> QED
  BY <1>5, <1>7

LEMMA RecordRecoveredKeeps == ASSUME JournalInv, RecordRecovered PROVE JournalInv'
<1>1. /\ pc = "REAPPLIED" /\ pc' = "SCAN" /\ AppendRow(Outcome(current, outcome))
      /\ UNCHANGED <<db, torn, rawFiles, retained, denials, batch, current, outcome, ack, acked>>
  BY DEF RecordRecovered, local
<1>2. PICK r \in Incomplete(OnDisk) : r.index = current
  BY <1>1 DEF JournalInv, Control
<1>3. outcome \in OutcomeValues /\ Holds(db, denials, outcome, r.obs)
  BY <1>1, <1>2 DEF JournalInv, Control
<1>4. current \in Nat /\ batch \in Seq(JournalObs) /\ ack \in Acks \cup {NoAck}
  BY DEF JournalInv, JournalTyped
<1>5. /\ Incomplete(OnDisk') = {} /\ (Control' => JournalInv')
      /\ Outcomes(OnDisk') = Outcomes(OnDisk) \cup {Outcome(current, outcome)}
  BY <1>1, <1>2, <1>3, <1>4, OutcomeAppended
<1>6. ack' # NoAck => Backs(db', Outcomes(OnDisk'), ack')
  BY <1>1, <1>5 DEF JournalInv, Control, Backs
<1>7. Control'
  BY <1>1, <1>5, <1>6 DEF Control
<1> QED
  BY <1>5, <1>7

(* A write that breaks off is a write of a row.                            *)
LEMMA RowInWritingTyped ==
  ASSUME JournalInv, AppendingRow PROVE RowInWriting \in JournalRows
<1>1. /\ journal \in Seq(JournalRows) /\ batch \in Seq(JournalObs) /\ current \in Nat
      /\ ack \in Acks \cup {NoAck} /\ Len(retained) \in Nat /\ db \in Databases /\ Usable(db)
      /\ denials \in Nat
  BY DEF JournalInv, JournalTyped
<1>2. CASE pc = "RAW"
  <2>1. batch # <<>>
    BY <1>2 DEF JournalInv, Control
  <2>2. Head(batch) \in JournalObs
    BY <1>1, <2>1, HeadTailProperties
  <2>3. Cardinality(Receives(journal)) + 1 \in Nat
    BY <1>2, FreshIndex DEF OnDisk
  <2>4. RowInWriting = Received(Cardinality(Receives(journal)) + 1, Head(batch))
    BY <1>2 DEF RowInWriting
  <2> QED
    BY <2>2, <2>3, <2>4 DEF Received, JournalRows
<1>3. CASE pc \in {"APPLIED", "REAPPLIED"}
  <2>1. outcome \in OutcomeValues
    BY <1>3 DEF JournalInv, Control
  <2>2. RowInWriting = Outcome(current, outcome)
    BY <1>3 DEF RowInWriting
  <2> QED
    BY <1>1, <2>1, <2>2 DEF Outcome, JournalRows
<1>4. CASE pc = "CONFIRMED"
  <2>1. ack \in Acks
    BY <1>1, <1>4 DEF JournalInv, Control
  <2>2. RowInWriting = Confirmation(ack)
    BY <1>4 DEF RowInWriting
  <2> QED
    BY <2>1, <2>2 DEF Confirmation, JournalRows
<1>5. CASE pc = "PREFIX"
  <2>1. RowInWriting = PartialTail(Len(retained))
    BY <1>5 DEF RowInWriting
  <2> QED
    BY <1>1, <2>1 DEF PartialTail, JournalRows
<1>6. CASE pc = "SCAN" /\ Incomplete(journal) # {} /\ Committed(db, FirstIncomplete.obs)
  <2> DEFINE r == FirstIncomplete
             out == CommittedOutcome(db, r.obs)
  <2>1. r.obs \in JournalObs /\ r.index \in Nat /\ Committed(db, r.obs)
    BY <1>6, TheIncomplete
  <2>2. RowInWriting = Outcome(r.index, out)
    BY <1>6 DEF RowInWriting
  <2> HIDE DEF r
  <2>3. out \in OutcomeValues
    BY <1>1, <2>1, CommittedHolds
  <2> HIDE DEF out
  <2> QED
    BY <2>1, <2>2, <2>3 DEF Outcome, JournalRows
<1> QED
  BY <1>2, <1>3, <1>4, <1>5, <1>6 DEF AppendingRow

(* A death anywhere but in the rename window leaves every row.             *)
LEMMA CrashKeeps ==
  ASSUME JournalInv, Crash, "RENAMED" \notin CrashPoints PROVE JournalInv'
<1>1. /\ pc # "RENAMED" /\ pc' = "DOWN" /\ journal' = journal
      /\ torn' = torn \/ (AppendingRow /\ torn' \in Parts(RowInWriting))
  BY DEF Crash
<1>2. OnDisk' = OnDisk
  BY <1>1 DEF OnDisk
<1>3. torn' \in TornParts
  BY <1>1, RowInWritingTyped DEF TornParts, JournalInv, JournalTyped
<1>4. JournalTyped'
  BY <1>1, <1>3, EmptySeq DEF Crash, JournalInv, JournalTyped
<1>5. Control'
  BY <1>1, <1>2 DEF Crash, JournalInv, Control
<1> QED
  BY <1>2, <1>4, <1>5, NothingWritten DEF Crash

(* The store goes on, about observations that are on record.               *)
LEMMA StoreGoesOn ==
  ASSUME JournalInv, JournalTyped', OnDisk' = OnDisk, rawFiles' = rawFiles, acked' = acked,
         denials <= denials', Usable(db'), Extends(db, db'),
         \A x \in db'.chain \ db.chain :
            \E q \in Receives(OnDisk) : SamePosition(q.obs, x) /\ q.obs.body = x.body,
         \A gap \in db'.gaps \ db.gaps :
            \E q \in Receives(OnDisk) : gap \in GapDetectedBy(db', q.obs),
         ConfirmedIn(db) \in Nat, ConfirmedIn(db') \in Nat, ConfirmedIn(db) <= ConfirmedIn(db'),
         Control'
  PROVE  JournalInv'
<1> DEFINE R == Receives(OnDisk)
           O == Outcomes(OnDisk)
<1>1. /\ db \in Databases /\ db' \in Databases /\ denials \in Nat /\ denials' \in Nat
      /\ Usable(db) /\ Evidence(db, R, rawFiles) /\ Matches(db, denials, R, O)
  BY DEF JournalInv, JournalTyped
<1>2. (\A r \in R : r.obs \in JournalObs) /\ \A q \in O : q.outcome \in OutcomeValues
  BY DiskTyped DEF JournalInv
<1>3. Evidence(db', R, rawFiles)
  <2>1. db.gaps \subseteq db'.gaps
    BY DEF Extends
  <2> HIDE DEF R
  <2> QED
    BY <1>1, <2>1, EvidenceOn DEF R
<1>4. Matches(db', denials', R, O)
  BY <1>1, <1>2, MatchesOn
<1>5. ASSUME NEW a \in acked PROVE Backs(db', O, a) /\ a.seq <= ConfirmedIn(db')
  <2>1. Backs(db, O, a) /\ a.seq <= ConfirmedIn(db)
    BY DEF JournalInv
  <2>2. a.seq \in Nat
    <3>1. PICK x \in db.chain : a.seq = x.seq
      BY <2>1 DEF Backs, HoldsAck, SamePosition
    <3> QED
      BY <1>1, <3>1, RowsTyped, MaxSeqAssumption
  <2> QED
    BY <2>1, <2>2, BacksOn
<1> QED
  BY <1>3, <1>4, <1>5 DEF JournalInv

LEMMA ApplyReceivedKeeps == ASSUME JournalInv, ApplyReceived PROVE JournalInv'
<1> DEFINE o == Head(batch)
           row == Received(current, o)
           R == Receives(OnDisk)
<1>1. /\ pc = "RECEIVED" /\ batch # <<>> /\ Incomplete(OnDisk) = {row}
      /\ batch \in Seq(JournalObs) /\ db \in Databases /\ Usable(db) /\ denials \in Nat
  BY DEF ApplyReceived, JournalInv, JournalTyped, Control
<1>2. o \in JournalObs
  BY <1>1, HeadTailProperties
<1>3. /\ db' = ReceivedDb(fault, db, o)
      /\ denials' = IF Denied(fault, db, o) THEN denials + 1 ELSE denials
      /\ UNCHANGED <<journal, torn, rawFiles, retained, fault, current, ack, acked>>
  BY DEF ApplyReceived, history
<1>4. row \in R /\ row.obs = o
  BY <1>1 DEF Incomplete, Received
<1>5. /\ db' \in Databases /\ Usable(db') /\ Extends(db, db') /\ Concerns(db, db', o)
      /\ Journalled(db, o) /\ ReceivedOutcome(fault, db, o) \in OutcomeValues
      /\ Holds(db', denials', ReceivedOutcome(fault, db, o), o)
  BY <1>1, <1>2, <1>3, DeliveryApplied
<1>6. outcome' = ReceivedOutcome(fault, db, o) /\ pc' = "APPLIED" /\ batch' = batch
  BY <1>5 DEF ApplyReceived
<1>7. OnDisk' = OnDisk
  BY <1>1, <1>3, <1>6 DEF OnDisk
<1>8. denials' \in Nat /\ denials <= denials'
  BY <1>1, <1>3
<1>9. JournalTyped'
  BY <1>3, <1>5, <1>6, <1>8 DEF JournalInv, JournalTyped
<1>10. \A x \in db'.chain \ db.chain : \E q \in R : SamePosition(q.obs, x) /\ q.obs.body = x.body
  BY <1>4, <1>5 DEF Concerns
<1>11. \A gap \in db'.gaps \ db.gaps : \E q \in R : gap \in GapDetectedBy(db', q.obs)
  BY <1>4, <1>5 DEF Concerns
<1>12. ConfirmedIn(db') = ConfirmedIn(db) /\ ConfirmedIn(db) \in Nat
  BY <1>1, <1>5, RowsTyped, HighestIsGreatest DEF Concerns, ConfirmedIn
<1>13. Incomplete(OnDisk') = {Received(current', Head(batch'))}
  BY <1>1, <1>3, <1>6, <1>7
<1>14. ack' # NoAck => Backs(db', Outcomes(OnDisk'), ack')
  BY <1>1, <1>3, <1>5, <1>7, BacksOn DEF JournalInv, Control
<1>15. \A r \in Incomplete(OnDisk') : Holds(db', denials', outcome', r.obs)
  BY <1>1, <1>4, <1>5, <1>6, <1>7
<1> HIDE DEF o, row, R
<1>16. Control'
  BY <1>1, <1>5, <1>6, <1>13, <1>14, <1>15 DEF Control
<1> QED
  BY <1>3, <1>5, <1>7, <1>8, <1>9, <1>10, <1>11, <1>12, <1>16, StoreGoesOn DEF R

LEMMA RecoverByApplyingKeeps == ASSUME JournalInv, RecoverByApplying PROVE JournalInv'
<1> DEFINE r == FirstIncomplete
           o == r.obs
           R == Receives(OnDisk)
<1>1. /\ pc = "SCAN" /\ pc' = "REAPPLIED" /\ Incomplete(journal) # {}
      /\ db' = ReceivedDb("NONE", db, o) /\ outcome' = ReceivedOutcome("NONE", db, o)
      /\ current' = r.index
      /\ UNCHANGED <<journal, torn, rawFiles, retained, denials, batch, ack, acked>>
  BY DEF RecoverByApplying, history
<1>2. /\ OnDisk = journal /\ r \in R /\ Incomplete(OnDisk) = {r}
      /\ o \in JournalObs /\ current' \in Nat
  BY <1>1, TheIncomplete
<1>3. /\ db \in Databases /\ Usable(db) /\ denials \in Nat
  BY DEF JournalInv, JournalTyped
<1>4. denials' = IF Denied("NONE", db, o) THEN denials + 1 ELSE denials
  BY <1>1 DEF Denied
<1>5. /\ db' \in Databases /\ Usable(db') /\ Extends(db, db') /\ Concerns(db, db', o)
      /\ outcome' \in OutcomeValues /\ Holds(db', denials', outcome', o)
  BY <1>1, <1>2, <1>3, <1>4, DeliveryApplied
<1>6. OnDisk' = OnDisk
  BY <1>1 DEF OnDisk
<1>7. denials <= denials'
  BY <1>1, <1>3
<1>8. JournalTyped'
  BY <1>1, <1>2, <1>5 DEF JournalInv, JournalTyped
<1>9. \A x \in db'.chain \ db.chain : \E q \in R : SamePosition(q.obs, x) /\ q.obs.body = x.body
  BY <1>2, <1>5 DEF Concerns
<1>10. \A gap \in db'.gaps \ db.gaps : \E q \in R : gap \in GapDetectedBy(db', q.obs)
  BY <1>2, <1>5 DEF Concerns
<1>11. ConfirmedIn(db') = ConfirmedIn(db) /\ ConfirmedIn(db) \in Nat
  BY <1>3, <1>5, RowsTyped, HighestIsGreatest DEF Concerns, ConfirmedIn
<1>12. ack' # NoAck => Backs(db', Outcomes(OnDisk'), ack')
  BY <1>1, <1>5, <1>6, BacksOn DEF JournalInv, Control
<1>13. \A q \in Incomplete(OnDisk') : q.index = current' /\ Holds(db', denials', outcome', q.obs)
  BY <1>1, <1>2, <1>5, <1>6
<1>14. Incomplete(OnDisk') = {r}
  BY <1>2, <1>6
<1> HIDE DEF r, o, R
<1>15. Control'
  BY <1>1, <1>5, <1>12, <1>13, <1>14 DEF Control
<1> QED
  BY <1>1, <1>5, <1>6, <1>7, <1>8, <1>9, <1>10, <1>11, <1>15, StoreGoesOn DEF R

LEMMA ConfirmInStoreKeeps == ASSUME JournalInv, ConfirmInStore PROVE JournalInv'
<1>1. /\ pc = "NEXT" /\ pc' = "CONFIRMED" /\ ack # NoAck /\ ack.seq > ConfirmedIn(db)
      /\ db' = ConfirmDb(db, ack)
      /\ UNCHANGED <<journal, torn, rawFiles, retained, denials, batch, current, ack, acked>>
  BY DEF ConfirmInStore, Confirmed, ConfirmedIn, local, history
<1>2. /\ db \in Databases /\ Usable(db) /\ denials \in Nat /\ ack \in Acks
      /\ Incomplete(OnDisk) = {} /\ Backs(db, Outcomes(OnDisk), ack)
  BY <1>1 DEF JournalInv, JournalTyped, Control
<1>3. /\ db' \in Databases /\ Usable(db') /\ Extends(db, db')
      /\ db'.chain = db.chain /\ db'.gaps = db.gaps
      /\ ack.seq <= ConfirmedIn(db') /\ ConfirmedIn(db) <= ConfirmedIn(db')
      /\ ConfirmedIn(db) \in Nat /\ ConfirmedIn(db') \in Nat
  BY <1>1, <1>2, Confirming DEF Backs
<1>4. OnDisk' = OnDisk
  BY <1>1 DEF OnDisk
<1>5. JournalTyped'
  BY <1>1, <1>3 DEF JournalInv, JournalTyped
<1>6. Backs(db', Outcomes(OnDisk'), ack')
  BY <1>1, <1>2, <1>3, <1>4, BacksOn
<1>7. Incomplete(OnDisk') = {}
  BY <1>2, <1>4
<1>8. Control'
  BY <1>1, <1>3, <1>6, <1>7 DEF Control
<1>9. denials <= denials' /\ rawFiles' = rawFiles /\ acked' = acked
  BY <1>1, <1>2
<1>10. db'.chain \ db.chain = {} /\ db'.gaps \ db.gaps = {}
  BY <1>3
<1> QED
  BY <1>3, <1>4, <1>5, <1>8, <1>9, <1>10, StoreGoesOn

-----------------------------------------------------------------------------
LEMMA JournalInit == Init => JournalInv
<1> SUFFICES ASSUME Init PROVE JournalInv
  OBVIOUS
<1>1. /\ db = FreshDb /\ journal = <<>> /\ torn = <<>> /\ retained = <<>> /\ denials = 0
      /\ pc = "DOWN"
      /\ batch = <<>> /\ current = 0 /\ ack = NoAck /\ acked = {} /\ OnDisk = journal
  BY DEF Init, OnDisk
<1>2. DOMAIN journal = {} /\ journal \in Seq(JournalRows) /\ retained \in Seq(Files)
  BY <1>1, EmptySeq
<1>3. Receives(OnDisk) = {} /\ Outcomes(OnDisk) = {} /\ Incomplete(OnDisk) = {}
  BY <1>1, <1>2 DEF Receives, Outcomes, Incomplete, RowsOfKind
<1>4. FreshDb \in Databases
  BY DEF FreshDb, Databases, GenStates, Generations
<1>5. JournalTyped
  BY <1>1, <1>2, <1>4, EmptySeq DEF JournalTyped, TornParts
<1>6. Usable(db)
  <2>1. FreshDb.gens[Stream][0] = "ACTIVE"
    BY ContextStream DEF FreshDb, Generations
  <2>2. FreshDb.controller = "OPEN" /\ FreshDb.conflicts = {} /\ FreshDb.chain = {}
        /\ FreshDb.run = "OPEN" /\ FreshDb.repairs = {} /\ FreshDb.gaps = {}
    BY DEF FreshDb
  <2> QED
    BY <1>1, <2>1, <2>2 DEF Usable
<1>7. Evidence(db, {}, rawFiles)
  BY <1>1 DEF Evidence, FreshDb
<1>8. Counted({})
  BY FS_EmptySet DEF Counted
<1>9. Control
  BY <1>1, <1>3 DEF Control
<1> QED
  BY <1>1, <1>3, <1>5, <1>6, <1>7, <1>8, <1>9 DEF JournalInv, Matches

LEMMA JournalStep ==
  ASSUME "RENAMED" \notin CrashPoints, JournalInv, [Next]_vars PROVE JournalInv'
<1>1. CASE ReceiveBatch               BY <1>1, ReceiveBatchKeeps
<1>2. CASE StoreRaw                   BY <1>2, StoreRawKeeps
<1>3. CASE RecordReceived             BY <1>3, RecordReceivedKeeps
<1>4. CASE ApplyReceived              BY <1>4, ApplyReceivedKeeps
<1>5. CASE RecordOutcome              BY <1>5, RecordOutcomeKeeps
<1>6. CASE RespondWithoutConfirmation BY <1>6, RespondKeeps
<1>7. CASE ConfirmInStore             BY <1>7, ConfirmInStoreKeeps
<1>8. CASE RecordConfirmation         BY <1>8, RecordConfirmationKeeps
<1>9. CASE Start                      BY <1>9, StartKeeps
<1>10. CASE RewritePrefix             BY <1>10, RewritePrefixKeeps
<1>11. CASE RecordPartialTail         BY <1>11, RecordPartialTailKeeps
<1>12. CASE RecoverCommitted          BY <1>12, RecoverCommittedKeeps
<1>13. CASE RecoverByApplying         BY <1>13, RecoverByApplyingKeeps
<1>14. CASE RecordRecovered           BY <1>14, RecordRecoveredKeeps
<1>15. CASE Listen                    BY <1>15, ListenKeeps
<1>16. CASE Crash                     BY <1>16, CrashKeeps
<1>17. CASE StartRefused              BY <1>17, StartRefusedKeeps
<1>18. CASE UNCHANGED vars
  <2>1. /\ UNCHANGED <<db, journal, torn, rawFiles, retained, denials, pc>>
        /\ UNCHANGED <<fault, batch, current, outcome, ack, acked, recovered, crashes>>
    BY <1>18 DEF vars
  <2>2. OnDisk' = OnDisk
    BY <2>1 DEF OnDisk
  <2>3. JournalTyped'
    BY <2>1 DEF JournalInv, JournalTyped
  <2>4. Control'
    BY <2>1, <2>2 DEF JournalInv, Control
  <2> QED
    BY <2>1, <2>2, <2>3, <2>4, NothingWritten
<1> QED
  BY <1>1, <1>2, <1>3, <1>4, <1>5, <1>6, <1>7, <1>8, <1>9, <1>10, <1>11, <1>12, <1>13,
     <1>14, <1>15, <1>16, <1>17, <1>18 DEF Next, Process

(* The inductive invariant.  The hypothesis says that the process does not *)
(* die between the rename of receive.jsonl and the end of writing its      *)
(* prefix back (reconcile, input_journal.py:119).                          *)
THEOREM JournalInvariant ==
  ASSUME "RENAMED" \notin CrashPoints
  PROVE  Spec => []JournalInv
<1>1. Init => JournalInv
  BY JournalInit
<1>2. JournalInv /\ [Next]_vars => JournalInv'
  BY JournalStep
<1> QED
  BY <1>1, <1>2, PTL DEF Spec

(* Journal and store agree at every instant, in every interleaving of the  *)
(* batch loop, deaths and recoveries: the store did nothing the journal    *)
(* has no evidence of (the raw file and the RECEIVED row are fsynced       *)
(* before apply, input_journal.py:164), and every OUTCOME row, one per     *)
(* receive, says what the store did (:185, and reconcile's at :361).       *)
THEOREM JournalIsEvidence ==
  ASSUME "RENAMED" \notin CrashPoints
  PROVE  Spec => []JournalMatchesStore
<1>1. JournalInv => JournalMatchesStore
  BY DEF JournalInv, Evidence, Matches, Holds, JournalMatchesStore, EvidenceBeforeEffect,
         OutcomeMatchesStore
<1> QED
  BY <1>1, JournalInvariant, PTL

(* An ACK that went to the socket (process_batch, offline_receiver.py) has *)
(* its outbox row, a confirmation at or above it and an APPLIED outcome on *)
(* disk, for ever after: no death and no recovery takes them away.         *)
THEOREM AcksHaveEvidence ==
  ASSUME "RENAMED" \notin CrashPoints
  PROVE  Spec => []AckHasEvidence
<1>1. JournalInv => AckHasEvidence
  BY DEF JournalInv, Backs, AckHasEvidence, Confirmed, ConfirmedIn
<1> QED
  BY <1>1, JournalInvariant, PTL

(* The recoveries: steps that retain nothing and record no artifact.       *)
LEMMA TailsOn ==
  ASSUME JournalTyped, TailsInv, retained' = retained, pc' \notin {"RENAMED", "PREFIX", "REFUSED"},
         OnDisk' = OnDisk
           \/ \E row \in JournalRows : OnDisk' = Append(OnDisk, row) /\ row.kind # "PARTIAL_TAIL"
  PROVE  TailsInv'
<1>1. OnDisk \in Seq(JournalRows)
  BY DiskTyped
<1>2. RecordedTails(OnDisk') = RecordedTails(OnDisk) /\ Len(OnDisk) <= Len(OnDisk')
  <2>1. CASE OnDisk' = OnDisk
    BY <1>1, <2>1
  <2>2. ASSUME NEW row \in JournalRows, OnDisk' = Append(OnDisk, row), row.kind # "PARTIAL_TAIL"
        PROVE  RecordedTails(OnDisk') = RecordedTails(OnDisk) /\ Len(OnDisk) <= Len(OnDisk')
    <3>1. RowsOfKind(OnDisk', "PARTIAL_TAIL") = RowsOfKind(OnDisk, "PARTIAL_TAIL")
      <4>1. RowsOfKind(Append(OnDisk, row), "PARTIAL_TAIL") = RowsOfKind(OnDisk, "PARTIAL_TAIL")
        <5>1. RowsOfKind(Append(OnDisk, row), "PARTIAL_TAIL")
                = RowsOfKind(OnDisk, "PARTIAL_TAIL")
                    \cup (IF row.kind = "PARTIAL_TAIL" THEN {row} ELSE {})
          BY <1>1, RowAdded
        <5> QED
          BY <2>2, <5>1
      <4> QED
        BY <2>2, <4>1
    <3>2. Len(OnDisk') = Len(OnDisk) + 1
      BY <1>1, <2>2
    <3> QED
      BY <1>1, <3>1, <3>2 DEF RecordedTails
  <2> QED
    BY <2>1, <2>2
<1>3. \A i \in DOMAIN retained : Len(retained[i].rows) \in Nat
  <2>1. retained \in Seq(Files)
    BY DEF JournalTyped
  <2>2. \A i \in DOMAIN retained : retained[i] \in Files
    BY <2>1
  <2> QED
    BY <2>2 DEF Files
<1>4. Len(OnDisk) \in Nat /\ Len(OnDisk') \in Nat
  <2>1. CASE OnDisk' = OnDisk
    BY <1>1, <2>1
  <2>2. ASSUME NEW row \in JournalRows, OnDisk' = Append(OnDisk, row) PROVE Len(OnDisk') \in Nat
    BY <1>1, <2>2
  <2> QED
    BY <1>1, <2>1, <2>2
<1>5. ASSUME NEW i \in RecordedTails(OnDisk')
      PROVE  i \in DOMAIN retained' /\ Len(retained'[i].rows) < Len(OnDisk')
  BY <1>2, <1>3, <1>4, <1>5 DEF TailsInv
<1> QED
  BY <1>5 DEF TailsInv

(* Start puts the file away; what has a row is shorter than it.            *)
LEMMA StartTails == ASSUME JournalInv, TailsInv, Start PROVE TailsInv'
<1>1. CASE torn = <<>>
  <2>1. OnDisk' = OnDisk /\ retained' = retained /\ pc' = "SCAN"
    BY <1>1 DEF Start, OnDisk
  <2> QED
    BY <2>1, TailsOn DEF JournalInv
<1>2. CASE torn # <<>>
  <2>1. /\ pc' = "RENAMED" /\ retained' # <<>> /\ Last(retained').rows = OnDisk'
        /\ OnDisk' = OnDisk /\ Len(retained') = Len(retained) + 1
        /\ \A n \in DOMAIN retained : retained'[n] = retained[n]
    BY <1>2, FileRetained DEF JournalInv
  <2>2. \A n \in DOMAIN retained : n \in DOMAIN retained'
    <3>1. retained \in Seq(Files) /\ retained' \in Seq(Files)
      BY <1>2, FileRetained DEF JournalInv, JournalTyped
    <3> QED
      BY <2>1, <3>1
  <2>3. ASSUME NEW i \in RecordedTails(OnDisk')
        PROVE  i \in DOMAIN retained' /\ Len(retained'[i].rows) < Len(OnDisk')
    BY <2>1, <2>2, <2>3 DEF TailsInv
  <2> QED
    BY <2>1, <2>3 DEF TailsInv
<1> QED
  BY <1>1, <1>2

LEMMA RecordPartialTailTails ==
  ASSUME JournalInv, TailsInv, RecordPartialTail PROVE TailsInv'
<1> DEFINE n == Len(retained)
           row == PartialTail(n)
<1>1. pc = "PREFIX" /\ pc' = "SCAN" /\ AppendRow(row) /\ retained' = retained
  BY DEF RecordPartialTail
<1>2. OnDisk = journal /\ OnDisk' = Append(journal, row)
  BY <1>1 DEF OnDisk, AppendRow
<1>3. journal \in Seq(JournalRows) /\ retained \in Seq(Files)
  BY DEF JournalInv, JournalTyped
<1>4. n \in DOMAIN retained /\ Len(retained[n].rows) = Len(journal)
  <2>1. retained # <<>> /\ Len(Last(retained).rows) = Len(journal)
    BY <1>1, <1>2 DEF TailsInv
  <2>2. n \in DOMAIN retained
    BY <1>3, <2>1, EmptySeq
  <2> QED
    BY <2>1, <2>2 DEF Last
<1>5. row \in JournalRows /\ row.kind = "PARTIAL_TAIL" /\ row.artifact = n
  BY <1>3 DEF PartialTail, JournalRows
<1> HIDE DEF row, n
<1>6. RowsOfKind(OnDisk', "PARTIAL_TAIL") = RowsOfKind(journal, "PARTIAL_TAIL") \cup {row}
  BY <1>2, <1>3, <1>5, RowAdded
<1>7. RecordedTails(OnDisk') = RecordedTails(journal) \cup {n}
  BY <1>5, <1>6 DEF RecordedTails
<1>8. Len(OnDisk') = Len(journal) + 1 /\ Len(journal) \in Nat
  BY <1>2, <1>3, <1>5
<1>9. \A i \in DOMAIN retained : Len(retained[i].rows) \in Nat
  <2>1. \A i \in DOMAIN retained : retained[i] \in Files
    BY <1>3
  <2> QED
    BY <2>1 DEF Files
<1>10. ASSUME NEW i \in RecordedTails(OnDisk')
       PROVE  i \in DOMAIN retained' /\ Len(retained'[i].rows) < Len(OnDisk')
  <2>1. i = n \/ i \in RecordedTails(OnDisk)
    BY <1>2, <1>7, <1>10
  <2>2. CASE i = n
    BY <1>1, <1>4, <1>8, <2>2
  <2>3. CASE i \in RecordedTails(OnDisk)
    <3>1. i \in DOMAIN retained /\ Len(retained[i].rows) < Len(journal)
      BY <1>2, <2>3 DEF TailsInv
    <3> QED
      BY <1>1, <1>8, <1>9, <3>1
  <2> QED
    BY <2>1, <2>2, <2>3
<1> QED
  BY <1>1, <1>10 DEF TailsInv

LEMMA TailsStep ==
  ASSUME JournalInv, TailsInv, [Next]_vars, "RENAMED" \notin CrashPoints
  PROVE  TailsInv'
<1> USE DEF durable, local, history
<1>1. ASSUME retained' = retained, OnDisk' = OnDisk, pc' \notin {"RENAMED", "PREFIX", "REFUSED"}
      PROVE  TailsInv'
  BY <1>1, TailsOn DEF JournalInv
<1>2. ASSUME NEW row, AppendRow(row), pc # "RENAMED", row \in JournalRows,
             row.kind # "PARTIAL_TAIL", retained' = retained,
             pc' \notin {"RENAMED", "PREFIX", "REFUSED"}
      PROVE  TailsInv'
  <2>1. OnDisk' = Append(OnDisk, row)
    BY <1>2 DEF OnDisk, AppendRow
  <2> QED
    BY <1>2, <2>1, TailsOn DEF JournalInv
<1>3. CASE ReceiveBatch
  BY <1>1, <1>3 DEF ReceiveBatch, OnDisk
<1>4. CASE StoreRaw
  BY <1>1, <1>4 DEF StoreRaw, OnDisk
<1>5. CASE ApplyReceived
  BY <1>1, <1>5 DEF ApplyReceived, OnDisk
<1>6. CASE RespondWithoutConfirmation
  BY <1>1, <1>6 DEF RespondWithoutConfirmation, OnDisk
<1>7. CASE ConfirmInStore
  BY <1>1, <1>7 DEF ConfirmInStore, OnDisk
<1>8. CASE RecoverByApplying
  BY <1>1, <1>8 DEF RecoverByApplying, OnDisk
<1>9. CASE Listen
  BY <1>1, <1>9 DEF Listen, OnDisk
<1>10. CASE Crash
  BY <1>1, <1>10 DEF Crash, OnDisk
<1>11. CASE RecordReceived \/ RecordOutcome \/ RecordConfirmation \/ RecoverCommitted \/ RecordRecovered
  <2>1. AppendingRow /\ pc \notin {"PREFIX", "RENAMED"} /\ retained' = retained
        /\ pc' \notin {"RENAMED", "PREFIX", "REFUSED"}
    BY <1>11 DEF RecordReceived, RecordOutcome, RecordConfirmation, RecoverCommitted,
                 RecordRecovered, AppendingRow
  <2>2. AppendRow(RowInWriting)
    BY <1>11 DEF RecordReceived, RecordOutcome, RecordConfirmation, RecoverCommitted,
                 RecordRecovered, RowInWriting
  <2>3. RowInWriting.kind # "PARTIAL_TAIL"
    BY <1>11 DEF RecordReceived, RecordOutcome, RecordConfirmation, RecoverCommitted,
                 RecordRecovered, RowInWriting, Received, Outcome, Confirmation
  <2> QED
    BY <1>2, <2>1, <2>2, <2>3, RowInWritingTyped
<1>12. CASE Start
  BY <1>12, StartTails
<1>13. CASE StartRefused
  <2>1. pc' = "REFUSED" /\ UNCHANGED <<retained, OnDisk>> /\ AlreadyRetained'
    BY <1>13 DEF StartRefused, OnDisk, AlreadyRetained
  <2> QED
    BY <2>1 DEF TailsInv
<1>14. CASE RewritePrefix
  <2>1. pc = "RENAMED" /\ pc' = "PREFIX" /\ OnDisk' = OnDisk /\ retained' = retained
    BY <1>14 DEF RewritePrefix, OnDisk
  <2> QED
    BY <2>1 DEF TailsInv
<1>15. CASE RecordPartialTail
  BY <1>15, RecordPartialTailTails
<1>16. CASE UNCHANGED vars
  <2>1. UNCHANGED <<OnDisk, retained, pc, AlreadyRetained>>
    BY <1>16 DEF vars, OnDisk, AlreadyRetained
  <2> QED
    BY <2>1 DEF TailsInv
<1> QED
  BY <1>3, <1>4, <1>5, <1>6, <1>7, <1>8, <1>9, <1>10, <1>11, <1>12, <1>13, <1>14, <1>15,
     <1>16 DEF Next, Process

(* A process that listens has an outcome for every receive on record; the  *)
(* receive a recovery comes to is in the store already or is one apply     *)
(* answers with an outcome the journal can hold (ERRORS,                   *)
(* input_journal.py:26); and reconcile refuses to go on                    *)
(* (E_OFFLINE_PARTIAL_ALREADY_RETAINED, :341) only after an earlier        *)
(* recovery died between retaining an artifact and recording it (:343 to   *)
(* :350).  It does refuse then: nothing here says that every recovery ends.*)
THEOREM ListeningIsComplete ==
  ASSUME "RENAMED" \notin CrashPoints
  PROVE  Spec => []CompleteWhenListening
<1>1. Init => TailsInv
  <2> SUFFICES ASSUME Init PROVE TailsInv
    OBVIOUS
  <2>1. OnDisk = <<>> /\ pc = "DOWN"
    BY DEF Init, OnDisk
  <2>2. RecordedTails(OnDisk) = {}
    BY <2>1 DEF RecordedTails, RowsOfKind
  <2> QED
    BY <2>1, <2>2 DEF TailsInv
<1>2. JournalInv /\ TailsInv /\ [Next]_vars => TailsInv'
  BY TailsStep
<1>3. ASSUME JournalInv, TailsInv PROVE CompleteWhenListening
  <2>1. pc = "IDLE" => Incomplete(journal) = {}
    BY <1>3 DEF JournalInv, Control, OnDisk
  <2>2. ASSUME pc = "SCAN", Incomplete(journal) # {}
        PROVE  Journalled(db, FirstIncomplete.obs)
    <3>1. FirstIncomplete.obs \in JournalObs /\ db \in Databases /\ Usable(db)
      BY <1>3, <2>2, TheIncomplete DEF JournalInv, JournalTyped
    <3> QED
      BY <3>1, DeliveryApplied
  <2>3. ASSUME pc = "REFUSED" PROVE ~(DOMAIN retained \subseteq RecordedTails(journal))
    <3>1. PICK n \in DOMAIN retained : retained[n] = Bytes(journal, torn)
      BY <1>3, <2>3 DEF TailsInv, AlreadyRetained, Range
    <3>2. retained[n].rows = journal /\ Len(journal) \in Nat
      BY <1>3, <3>1 DEF Bytes, JournalInv, JournalTyped
    <3>3. n \notin RecordedTails(journal)
      <4>1. ~(Len(retained[n].rows) < Len(journal))
        BY <3>2
      <4> QED
        BY <1>3, <2>3, <4>1 DEF TailsInv, OnDisk
    <3> QED
      BY <3>1, <3>3
  <2> QED
    BY <2>1, <2>2, <2>3 DEF CompleteWhenListening
<1> QED
  BY <1>1, <1>2, <1>3, JournalInvariant, PTL DEF Spec

-----------------------------------------------------------------------------
(* The replay of a journal (verify_replay_equivalence, replay.py).         *)

Beginning == [db |-> FreshDb, replayed |-> {}]

(* f gives the state after each of the first m rows.                       *)
Replaying(f, m, rows) ==
  f = [n \in 0..m |-> IF n = 0 THEN Beginning ELSE ReplayRow(f[n - 1], rows[n])]

LEMMA ReplayingExists ==
  ASSUME NEW rows, NEW k \in Nat
  PROVE  \E f : Replaying(f, k, rows)
<1> DEFINE T == {m \in Nat : \E f : Replaying(f, m, rows)}
<1>1. 0 \in T
  <2>1. Replaying([n \in 0..0 |-> Beginning], 0, rows)
    BY DEF Replaying
  <2> QED
    BY <2>1
<1>2. ASSUME NEW m \in T PROVE m + 1 \in T
  <2>1. PICK f : Replaying(f, m, rows)
    OBVIOUS
  <2> DEFINE g == [n \in 0..m + 1 |->
                     IF n = m + 1 THEN ReplayRow(f[m], rows[m + 1]) ELSE f[n]]
  <2>2. ASSUME NEW n \in 0..m + 1
        PROVE  g[n] = IF n = 0 THEN Beginning ELSE ReplayRow(g[n - 1], rows[n])
    <3>1. CASE n = m + 1
      BY <3>1
    <3>2. CASE n \in 0..m
      BY <2>1, <3>2 DEF Replaying
    <3> QED
      BY <3>1, <3>2
  <2>3. Replaying(g, m + 1, rows)
    BY <2>2 DEF Replaying
  <2> HIDE DEF g
  <2> QED
    BY <2>3
<1>3. T = Nat
  <2>1. T \in SUBSET Nat
    OBVIOUS
  <2> HIDE DEF T
  <2> QED
    BY <1>1, <1>2, <2>1, SetInduction
<1> QED
  BY <1>3

LEMMA ReplayIsReplaying ==
  ASSUME NEW S, NEW rows \in Seq(S)
  PROVE  \E f : Replaying(f, Len(rows), rows) /\ ReplayOf(rows) = f[Len(rows)]
<1> DEFINE after == CHOOSE f : Replaying(f, Len(rows), rows)
<1>1. Replaying(after, Len(rows), rows)
  BY ReplayingExists
<1>2. ReplayOf(rows) = after[Len(rows)]
  BY DEF ReplayOf, Replaying, Beginning
<1> HIDE DEF after
<1> QED
  BY <1>1, <1>2

(* One more row is one more operation.                                     *)
LEMMA ReplayOfAppend ==
  ASSUME NEW S, NEW rows \in Seq(S), NEW row \in S
  PROVE  ReplayOf(Append(rows, row)) = ReplayRow(ReplayOf(rows), row)
<1> DEFINE longer == Append(rows, row)
           k == Len(rows)
<1>1. /\ k \in Nat /\ longer \in Seq(S) /\ Len(longer) = k + 1 /\ longer[k + 1] = row
      /\ \A n \in 1..k : longer[n] = rows[n]
  BY AppendProperties
<1>2. PICK f : Replaying(f, k, rows) /\ ReplayOf(rows) = f[k]
  BY ReplayIsReplaying
<1> HIDE DEF longer
<1>3. PICK g : Replaying(g, k + 1, longer) /\ ReplayOf(longer) = g[k + 1]
  BY <1>1, ReplayIsReplaying
<1> HIDE DEF k
<1> DEFINE T == {m \in Nat : m <= k => f[m] = g[m]}
<1>4. T = Nat
  <2>1. T \in SUBSET Nat
    OBVIOUS
  <2>2. 0 \in T
    BY <1>1, <1>2, <1>3 DEF Replaying
  <2>3. ASSUME NEW m \in T PROVE m + 1 \in T
    <3>1. SUFFICES ASSUME m + 1 <= k PROVE f[m + 1] = g[m + 1]
      OBVIOUS
    <3>2. /\ f[m] = g[m] /\ longer[m + 1] = rows[m + 1]
          /\ m + 1 \in 0..k /\ m + 1 \in 0..k + 1 /\ m + 1 # 0 /\ (m + 1) - 1 = m
      BY <1>1, <3>1
    <3>3. f[m + 1] = ReplayRow(f[m], rows[m + 1])
      BY <1>2, <3>2 DEF Replaying
    <3>4. g[m + 1] = ReplayRow(g[m], longer[m + 1])
      BY <1>3, <3>2 DEF Replaying
    <3> QED
      BY <3>2, <3>3, <3>4
  <2> HIDE DEF T
  <2> QED
    BY <2>1, <2>2, <2>3, SetInduction
<1>5. f[k] = g[k]
  BY <1>1, <1>4
<1>6. g[k + 1] = ReplayRow(g[k], longer[k + 1])
  BY <1>1, <1>3 DEF Replaying
<1> QED
  BY <1>1, <1>2, <1>3, <1>5, <1>6 DEF longer

LEMMA ReplayOfNothing == ReplayOf(<<>>) = Beginning
<1>1. <<>> \in Seq({}) /\ Len(<<>>) = 0
  BY EmptySeq
<1>2. PICK f : Replaying(f, 0, <<>>) /\ ReplayOf(<<>>) = f[0]
  BY <1>1, ReplayIsReplaying
<1> QED
  BY <1>2 DEF Replaying

(* apply does not read the confirmations.                                  *)
LEMMA AlikeApply ==
  ASSUME NEW d \in Databases, NEW e \in Databases, Alike(d, e), NEW o
  PROVE  /\ Alike(ApplyDb(d, o), ApplyDb(e, o))
         /\ ReceivedOutcome("NONE", d, o) = ReceivedOutcome("NONE", e, o)
<1>1. /\ GenState(d, o) = GenState(e, o) /\ RawAt(d, o) = RawAt(e, o)
      /\ Accepting(d, o) = Accepting(e, o) /\ CanShock(d) = CanShock(e)
  BY DEF Alike, GenState, RawAt, Accepting, CanShock
<1>2. /\ IsNext(d, o) = IsNext(e, o) /\ IsGap(d, o) = IsGap(e, o)
      /\ IsConflict(d, o) = IsConflict(e, o) /\ IsDuplicate(d, o) = IsDuplicate(e, o)
  BY <1>1 DEF Alike, IsNext, IsGap, IsConflict, IsDuplicate
<1>3. Verdict(d, o) = Verdict(e, o)
  BY <1>1, <1>2 DEF Alike, Verdict
<1>4. NewRow(d, o) = NewRow(e, o)
  BY DEF Alike, NewRow
<1>5. ASSUME NEW reason
      PROVE  Alike(LoseContinuity(d, o, reason), LoseContinuity(e, o, reason))
  <2>1. GapRow(d, o, reason) = GapRow(e, o, reason)
    BY DEF Alike, GapRow
  <2> QED
    BY <2>1 DEF Alike, LoseContinuity, Databases
<1>6. Alike([d EXCEPT !.chain = @ \cup {NewRow(d, o)}], [e EXCEPT !.chain = @ \cup {NewRow(e, o)}])
  BY <1>4 DEF Alike, Databases
<1>7. Alike(ApplyDb(d, o), ApplyDb(e, o))
  BY <1>1, <1>2, <1>5, <1>6 DEF ApplyDb
<1>8. ApplyDb(d, o).chain = ApplyDb(e, o).chain
  BY <1>7 DEF Alike
<1>9. AckOf(ApplyDb(d, o), o) = AckOf(ApplyDb(e, o), o)
  BY <1>8 DEF AckOf
<1>10. ~Denied("NONE", d, o) /\ ~Denied("NONE", e, o)
  BY DEF Denied
<1> QED
  BY <1>3, <1>7, <1>9, <1>10 DEF ReceivedOutcome

(* What has an outcome has been applied: applying it again changes nothing.*)
LEMMA HeldIsApplied ==
  ASSUME NEW d \in Databases, Usable(d), NEW o \in JournalObs, NEW out \in OutcomeValues,
         Holds(d, 0, out, o)
  PROVE  ApplyDb(d, o) = d
<1>1. \A r \in d.chain : SamePosition(r, o) <=> r.seq = o.seq
  BY Positions
<1>2. RawAt(d, o) = {r \in d.chain : r.seq = o.seq}
  BY Positions
<1>3. CASE d.gens[Stream][0] # "ACTIVE"
  <2>1. ~Accepting(d, o)
    BY <1>3, Positions DEF Accepting
  <2> QED
    BY <2>1 DEF ApplyDb, IsNext, IsConflict, IsGap
<1>4. CASE d.gens[Stream][0] = "ACTIVE"
  <2>1. d.gaps = {}
    BY <1>4 DEF Usable
  <2>2. out.status = "APPLIED"
    <3>1. SUFFICES ASSUME out.status # "APPLIED" PROVE FALSE
      OBVIOUS
    <3>2. out.code \in Codes /\ GapDetectedBy(d, o) = {}
      BY <2>1, <3>1 DEF OutcomeValues, GapDetectedBy
    <3>3. CASE out.code = "GAP"
      BY <3>1, <3>2, <3>3 DEF Holds
    <3>4. CASE out.code = "CONFLICT"
      BY <3>1, <3>2, <3>4 DEF Holds
    <3>5. CASE out.code = "CLOSED_GENERATION"
      BY <1>4, <3>1, <3>5 DEF Holds
    <3>6. CASE out.code = "STORAGE_FAILED"
      BY <3>1, <3>6 DEF Holds
    <3> QED
      BY <3>2, <3>3, <3>4, <3>5, <3>6 DEF Codes
  <2>3. PICK r \in d.chain : SamePosition(r, o) /\ r.body = o.body
    BY <2>2 DEF Holds, AppliedRow
  <2>4. RawAt(d, o) = {r}
    BY <1>1, <1>2, <2>3 DEF Usable
  <2> QED
    BY <2>3, <2>4 DEF ApplyDb, IsNext, IsConflict, IsGap
<1> QED
  BY <1>3, <1>4

(* confirm_ack in a replay, whatever it answers.                           *)
LEMMA ConfirmAgain ==
  ASSUME NEW d \in Databases, NEW a \in Acks
  PROVE  /\ ConfirmDb(d, a) \in Databases /\ Alike(ConfirmDb(d, a), d)
         /\ \A c \in ConfirmDb(d, a).confirms :
              c \in d.confirms \/ (c.seq = a.seq /\ c.cursor = a.cursor)
<1> DEFINE row == [stream |-> a.stream, gen |-> a.gen, seq |-> a.seq, cursor |-> a.cursor,
                   previous |-> Highest(d.confirms, a.stream, a.gen)]
<1>1. a.stream = Stream /\ a.gen = 0 /\ a.seq \in 1..MaxSeq /\ a.cursor \in Seq(Bodies)
  BY DEF Acks
<1>2. Highest(d.confirms, a.stream, a.gen) \in 0..MaxSeq
  BY RowsTyped, HighestIsGreatest
<1>3. row \in ConfirmRows /\ row.seq = a.seq /\ row.cursor = a.cursor
  BY <1>1, <1>2, ContextStream DEF ConfirmRows, Generations
<1>4. ConfirmDb(d, a) = d \/ ConfirmDb(d, a) = [d EXCEPT !.confirms = @ \cup {row}]
  BY DEF ConfirmDb
<1> HIDE DEF row
<1>5. [d EXCEPT !.confirms = @ \cup {row}] \in Databases
  BY <1>3 DEF Databases
<1>6. /\ Alike([d EXCEPT !.confirms = @ \cup {row}], d)
      /\ [d EXCEPT !.confirms = @ \cup {row}].confirms = d.confirms \cup {row}
  BY DEF Alike, Databases
<1> QED
  BY <1>3, <1>4, <1>5, <1>6 DEF Alike

LEMMA NothingReplayed ==
  ASSUME ReplayInv, OnDisk' = OnDisk, db' = db, denials' = denials, recovered' = recovered,
         pc' \notin {"RECEIVED", "APPLIED", "CONFIRMED"}
  PROVE  ReplayInv'
BY DEF ReplayInv

LEMMA RowReplayed ==
  ASSUME JournalTyped, pc # "RENAMED", pc' # "RENAMED", NEW row \in JournalRows, AppendRow(row)
  PROVE  ReplayOf(OnDisk') = ReplayRow(ReplayOf(OnDisk), row)
<1>1. OnDisk = journal /\ OnDisk' = Append(journal, row)
  BY DEF OnDisk, AppendRow
<1>2. journal \in Seq(JournalRows)
  BY DEF JournalTyped
<1> QED
  BY <1>1, <1>2, ReplayOfAppend

LEMMA OutcomeReplayed ==
  ASSUME JournalInv, JournalInv', ReplayInv, pc # "RENAMED",
         pc' \notin {"RENAMED", "RECEIVED", "APPLIED", "CONFIRMED"},
         NEW i \in Nat, NEW out \in OutcomeValues,
         NEW r \in Incomplete(OnDisk), r.index = i, Holds(db, denials, out, r.obs),
         AppendRow(Outcome(i, out)),
         UNCHANGED <<db, torn, rawFiles, retained, denials, current, acked>>,
         recovered \subseteq recovered',
         i \in recovered' \/ (denials = 0 => Outcome(i, out) \in ReplayOf(OnDisk).replayed)
  PROVE  ReplayInv'
<1> DEFINE x == Outcome(i, out)
<1>1. batch' \in Seq(JournalObs) /\ ack' \in Acks \cup {NoAck}
  BY DEF JournalInv, JournalTyped
<1>2. Incomplete(OnDisk') = {} /\ Outcomes(OnDisk') = Outcomes(OnDisk) \cup {x}
  BY <1>1, OutcomeAppended
<1>3. x \in JournalRows /\ x.kind = "OUTCOME" /\ x.index = i
  BY DEF Outcome, JournalRows
<1>4. r.obs \in JournalObs
  BY DiskTyped DEF JournalInv, Incomplete
<1>5. denials = 0 => ApplyDb(db, r.obs) = db
  BY <1>4, HeldIsApplied DEF JournalInv, JournalTyped
<1>6. AppendRow(x)
  OBVIOUS
<1> HIDE DEF x
<1>7. ReplayOf(OnDisk') = ReplayOf(OnDisk)
  <2>1. ReplayOf(OnDisk') = ReplayRow(ReplayOf(OnDisk), x)
    BY <1>3, <1>6, RowReplayed DEF JournalInv
  <2> QED
    BY <1>3, <2>1 DEF ReplayRow
<1>8. SUFFICES ASSUME denials = 0 PROVE ReplayInv'
  BY DEF ReplayInv
<1>9. Alike(ReplayOf(OnDisk).db, db)
  BY <1>5, <1>8 DEF ReplayInv
<1>10. \A q \in Outcomes(OnDisk') : q.index \in recovered' \/ q \in ReplayOf(OnDisk).replayed
  BY <1>2, <1>3, <1>8 DEF ReplayInv, x
<1> QED
  BY <1>2, <1>7, <1>8, <1>9, <1>10 DEF ReplayInv

LEMMA DeliveryReplayed ==
  ASSUME JournalInv, ReplayInv, denials = 0, NEW r, Incomplete(OnDisk) = {r}, r.obs \in JournalObs,
         db' = ApplyDb(db, r.obs), OnDisk' = OnDisk, recovered' = recovered,
         pc' \notin {"RECEIVED", "CONFIRMED"},
         pc' = "APPLIED" => Outcome(current', outcome') \in ReplayOf(OnDisk).replayed
  PROVE  ReplayInv'
<1> DEFINE o == r.obs
           e == ApplyDb(db, o)
<1>1. db \in Databases /\ Usable(db) /\ ~Denied("NONE", db, o)
  BY DEF JournalInv, JournalTyped, Denied
<1>2. e = ReceivedDb("NONE", db, o)
  BY <1>1 DEF ReceivedDb
<1> HIDE DEF e
<1>3. /\ e \in Databases /\ Usable(e) /\ Concerns(db, e, o)
      /\ ReceivedOutcome("NONE", db, o) \in OutcomeValues
      /\ Holds(e, 0, ReceivedOutcome("NONE", db, o), o)
  BY <1>1, <1>2, DeliveryApplied
<1>4. ApplyDb(e, o) = e
  BY <1>3, HeldIsApplied
<1>5. Alike(ReplayOf(OnDisk).db, e) /\ e.confirms = db.confirms
  BY <1>3 DEF ReplayInv, Concerns, e
<1>6. db' = e
  BY DEF e
<1>7. \A q \in Incomplete(OnDisk') : Alike(ReplayOf(OnDisk').db, ApplyDb(db', q.obs))
  BY <1>4, <1>5, <1>6
<1>8. Incomplete(OnDisk') # {}
  OBVIOUS
<1> HIDE DEF o
<1> QED
  BY <1>5, <1>6, <1>7, <1>8 DEF ReplayInv

LEMMA ReceiptReplayed ==
  ASSUME JournalInv, JournalInv', ReplayInv, RecordReceived PROVE ReplayInv'
<1> DEFINE o == Head(batch)
           row == Received(current', o)
           p == ReplayOf(OnDisk)
<1>1. /\ pc = "RAW" /\ pc' = "RECEIVED" /\ AppendRow(row)
      /\ UNCHANGED <<db, denials, batch, recovered>>
  BY DEF RecordReceived, history
<1>2. Incomplete(OnDisk) = {} /\ batch # <<>> /\ batch \in Seq(JournalObs)
  BY <1>1 DEF JournalInv, Control, JournalTyped
<1>3. o \in JournalObs /\ current' \in Nat
  BY <1>2, HeadTailProperties DEF JournalInv, JournalTyped
<1>4. row \in JournalRows /\ row.kind = "RECEIVED" /\ row.index = current' /\ row.obs = o
  BY <1>3 DEF Received, JournalRows
<1>5. Incomplete(OnDisk') = {row}
  BY <1>1 DEF JournalInv, Control
<1> HIDE DEF row
<1>6. Outcomes(OnDisk') = Outcomes(OnDisk)
  BY <1>1, <1>4, RowAppended DEF JournalInv
<1>7. ReplayOf(OnDisk') = ReplayRow(p, row)
  BY <1>1, <1>4, RowReplayed DEF JournalInv
<1>8. ReplayOf(OnDisk') = [db |-> ApplyDb(p.db, o),
                           replayed |-> p.replayed \cup
                             {Outcome(current', ReceivedOutcome("NONE", p.db, o))}]
  BY <1>4, <1>7 DEF ReplayRow
<1>9. SUFFICES ASSUME denials = 0 PROVE ReplayInv'
  BY <1>1 DEF ReplayInv
<1>10. /\ p \in [db : Databases, replayed : SUBSET JournalRows]
       /\ p.db \in Databases /\ Alike(p.db, db) /\ db \in Databases /\ Usable(db)
  BY <1>2, <1>9 DEF ReplayInv, JournalInv, JournalTyped
<1>11. /\ Alike(ApplyDb(p.db, o), ApplyDb(db, o)) /\ ApplyDb(p.db, o) \in Databases
       /\ ReceivedOutcome("NONE", p.db, o) = ReceivedOutcome("NONE", db, o)
  BY <1>3, <1>10, AlikeApply, ApplyTyped, ContextStream
<1>12. ApplyDb(p.db, o).confirms = p.db.confirms
  BY <1>10 DEF ApplyDb, LoseContinuity, Databases
<1>13. \A c \in p.db.confirms : \E e \in db.confirms : c.seq = e.seq /\ c.cursor = e.cursor
  BY <1>9 DEF ReplayInv
<1>14. \A q \in Outcomes(OnDisk) : q.index \in recovered \/ q \in p.replayed
  BY <1>9 DEF ReplayInv
<1>15. Head(batch') = o
  BY <1>1
<1>16. ReceivedOutcome("NONE", db, o) \in OutcomeValues
  <2>1. 0 = IF Denied("NONE", db, o) THEN 0 + 1 ELSE 0
    BY DEF Denied
  <2> QED
    BY <1>3, <1>10, <2>1, DeliveryApplied
<1>17. ReplayOf(OnDisk') \in [db : Databases, replayed : SUBSET JournalRows]
  <2>1. Outcome(current', ReceivedOutcome("NONE", db, o)) \in JournalRows
    BY <1>3, <1>16 DEF Outcome, JournalRows
  <2> HIDE DEF p, o
  <2> QED
    BY <1>8, <1>10, <1>11, <2>1
<1> HIDE DEF p, o
<1> QED
  BY <1>1, <1>4, <1>5, <1>6, <1>8, <1>11, <1>12, <1>13, <1>14, <1>15,
     <1>17 DEF ReplayInv

LEMMA ConfirmationReplayed ==
  ASSUME JournalInv, JournalInv', ReplayInv, RecordConfirmation PROVE ReplayInv'
<1> DEFINE row == Confirmation(ack)
           p == ReplayOf(OnDisk)
<1>1. /\ pc = "CONFIRMED" /\ pc' = "IDLE" /\ AppendRow(row)
      /\ UNCHANGED <<db, denials, recovered>>
  BY DEF RecordConfirmation
<1>2. ack \in Acks /\ Incomplete(OnDisk) = {} /\ Incomplete(OnDisk') = {}
  BY <1>1 DEF JournalInv, Control, JournalTyped
<1>3. row \in JournalRows /\ row.kind = "ACK_CONFIRMATION" /\ row.ack = ack
  BY <1>2 DEF Confirmation, JournalRows
<1> HIDE DEF row
<1>4. Outcomes(OnDisk') = Outcomes(OnDisk)
  BY <1>1, <1>3, RowAppended DEF JournalInv
<1>5. ReplayOf(OnDisk') = [p EXCEPT !.db = ConfirmDb(@, ack)]
  <2>1. ReplayOf(OnDisk') = ReplayRow(p, row)
    BY <1>1, <1>3, RowReplayed DEF JournalInv
  <2> QED
    BY <1>3, <2>1 DEF ReplayRow
<1>6. SUFFICES ASSUME denials = 0 PROVE ReplayInv'
  BY <1>1 DEF ReplayInv
<1>7. /\ p.db \in Databases /\ Alike(p.db, db)
      /\ \A c \in p.db.confirms : \E e \in db.confirms : c.seq = e.seq /\ c.cursor = e.cursor
      /\ \E e \in db.confirms : ack.seq = e.seq /\ ack.cursor = e.cursor
      /\ \A q \in Outcomes(OnDisk) : q.index \in recovered \/ q \in p.replayed
  BY <1>1, <1>2, <1>6 DEF ReplayInv
<1>8. /\ ConfirmDb(p.db, ack) \in Databases /\ Alike(ConfirmDb(p.db, ack), p.db)
      /\ \A c \in ConfirmDb(p.db, ack).confirms :
           c \in p.db.confirms \/ (c.seq = ack.seq /\ c.cursor = ack.cursor)
  BY <1>2, <1>7, ConfirmAgain
<1>9. /\ ReplayOf(OnDisk').db = ConfirmDb(p.db, ack) /\ ReplayOf(OnDisk').replayed = p.replayed
      /\ ReplayOf(OnDisk') \in [db : Databases, replayed : SUBSET JournalRows]
  <2>1. p \in [db : Databases, replayed : SUBSET JournalRows]
    BY <1>6 DEF ReplayInv
  <2> HIDE DEF p
  <2> QED
    BY <1>5, <1>8, <2>1
<1>10. Alike(ConfirmDb(p.db, ack), db)
  BY <1>7, <1>8 DEF Alike
<1> HIDE DEF p
<1> QED
  BY <1>1, <1>2, <1>4, <1>7, <1>8, <1>9, <1>10 DEF ReplayInv

LEMMA ReplayInit == Init => ReplayInv
<1> SUFFICES ASSUME Init PROVE ReplayInv
  OBVIOUS
<1>1. OnDisk = <<>> /\ pc = "DOWN" /\ db = FreshDb
  BY DEF Init, OnDisk
<1>2. Receives(<<>>) = {} /\ Outcomes(<<>>) = {} /\ Incomplete(<<>>) = {}
  <2>1. DOMAIN <<>> = {}
    BY EmptySeq
  <2> QED
    BY <2>1 DEF Receives, Outcomes, Incomplete, RowsOfKind
<1>3. ReplayOf(<<>>).db = FreshDb /\ ReplayOf(<<>>) \in [db : Databases, replayed : SUBSET JournalRows]
  <2>1. FreshDb \in Databases
    BY <1>1, JournalInit DEF JournalInv, JournalTyped
  <2> QED
    BY <2>1, ReplayOfNothing DEF Beginning
<1>4. FreshDb.confirms = {} /\ Alike(FreshDb, FreshDb)
  BY DEF FreshDb, Alike
<1> QED
  BY <1>1, <1>2, <1>3, <1>4 DEF ReplayInv

LEMMA ReplayStep ==
  ASSUME JournalInv, JournalInv', ReplayInv, [Next]_vars, "RENAMED" \notin CrashPoints
  PROVE  ReplayInv'
<1>1. CASE ReceiveBatch \/ StoreRaw \/ RespondWithoutConfirmation \/ Start
            \/ StartRefused \/ RewritePrefix \/ Listen
  <2>1. /\ OnDisk' = OnDisk
        /\ UNCHANGED <<db, denials, recovered>> /\ pc' \notin {"RECEIVED", "APPLIED", "CONFIRMED"}
    <3>1. CASE ReceiveBatch
      BY <3>1 DEF ReceiveBatch, OnDisk, durable, history
    <3>2. CASE StoreRaw
      BY <3>2 DEF StoreRaw, OnDisk, history
    <3>3. CASE RespondWithoutConfirmation
      BY <3>3 DEF RespondWithoutConfirmation, OnDisk, durable
    <3>4. CASE Start
      <4>1. UNCHANGED <<db, denials, recovered>> /\ pc' \in {"RENAMED", "SCAN"} /\ pc = "DOWN"
        BY <3>4 DEF Start, history
      <4>2. OnDisk' = OnDisk
        BY <3>4, <4>1, FileRetained DEF Start, OnDisk, JournalInv
      <4> QED
        BY <4>1, <4>2
    <3>5. CASE StartRefused
      BY <3>5 DEF StartRefused, OnDisk, durable, history
    <3>6. CASE RewritePrefix
      BY <3>6 DEF RewritePrefix, OnDisk, history
    <3>7. CASE Listen
      BY <3>7 DEF Listen, OnDisk, durable, history
    <3> QED
      BY <1>1, <3>1, <3>2, <3>3, <3>4, <3>5, <3>6, <3>7
  <2> QED
    BY <2>1, NothingReplayed
<1>2. CASE Crash
  <2>1. pc # "RENAMED" /\ pc' = "DOWN" /\ journal' = journal /\ UNCHANGED <<db, denials, recovered>>
    BY <1>2 DEF Crash
  <2> QED
    BY <2>1, NothingReplayed DEF OnDisk
<1>3. CASE RecordReceived
  BY <1>3, ReceiptReplayed
<1>4. CASE RecordConfirmation
  BY <1>4, ConfirmationReplayed
<1>5. CASE RecordPartialTail
  <2> DEFINE row == PartialTail(Len(retained))
  <2>1. /\ pc = "PREFIX" /\ pc' = "SCAN" /\ AppendRow(row) /\ UNCHANGED <<db, denials, recovered>>
    BY <1>5 DEF RecordPartialTail, history
  <2>2. row \in JournalRows /\ row.kind = "PARTIAL_TAIL"
    BY DEF JournalInv, JournalTyped, PartialTail, JournalRows
  <2> HIDE DEF row
  <2>3. /\ ReplayOf(OnDisk') = ReplayRow(ReplayOf(OnDisk), row)
        /\ Receives(OnDisk') = Receives(OnDisk) /\ Outcomes(OnDisk') = Outcomes(OnDisk)
    BY <2>1, <2>2, RowReplayed, RowAppended DEF JournalInv
  <2>4. ReplayOf(OnDisk') = ReplayOf(OnDisk) /\ Incomplete(OnDisk') = Incomplete(OnDisk)
    BY <2>2, <2>3 DEF ReplayRow, Incomplete
  <2> QED
    BY <2>1, <2>3, <2>4 DEF ReplayInv
<1>6. CASE ApplyReceived
  <2> DEFINE o == Head(batch)
             row == Received(current, o)
  <2>1. /\ pc = "RECEIVED" /\ batch # <<>> /\ Incomplete(OnDisk) = {row}
        /\ batch \in Seq(JournalObs) /\ db \in Databases /\ Usable(db) /\ denials \in Nat
    BY <1>6 DEF ApplyReceived, JournalInv, JournalTyped, Control
  <2>2. o \in JournalObs /\ row.obs = o
    BY <2>1, HeadTailProperties DEF Received
  <2>3. Journalled(db, o)
    BY <2>1, <2>2, DeliveryApplied
  <2>4. /\ db' = ReceivedDb(fault, db, o) /\ outcome' = ReceivedOutcome(fault, db, o)
        /\ denials' = IF Denied(fault, db, o) THEN denials + 1 ELSE denials
        /\ pc' = "APPLIED" /\ UNCHANGED <<journal, retained, current, recovered>>
    BY <1>6, <2>3 DEF ApplyReceived, history
  <2>5. SUFFICES ASSUME denials' = 0 PROVE ReplayInv'
    BY DEF ReplayInv
  <2>6. denials = 0 /\ ~Denied(fault, db, o)
    BY <2>1, <2>4, <2>5
  <2>7. /\ db' = ApplyDb(db, o) /\ outcome' = ReceivedOutcome("NONE", db, o)
    BY <2>4, <2>6 DEF ReceivedDb, ReceivedOutcome, Denied
  <2>8. Outcome(current', outcome') \in ReplayOf(OnDisk).replayed
    BY <2>1, <2>4, <2>6, <2>7 DEF ReplayInv
  <2>9. OnDisk' = OnDisk
    BY <2>1, <2>4 DEF OnDisk
  <2> HIDE DEF row
  <2> QED
    BY <2>1, <2>2, <2>4, <2>6, <2>7, <2>8, <2>9, DeliveryReplayed
<1>7. CASE RecoverByApplying
  <2>1. /\ pc = "SCAN" /\ pc' = "REAPPLIED" /\ Incomplete(journal) # {}
        /\ db' = ReceivedDb("NONE", db, FirstIncomplete.obs)
        /\ UNCHANGED <<journal, retained, denials, recovered>>
    BY <1>7 DEF RecoverByApplying, history
  <2>2. /\ OnDisk = journal /\ Incomplete(OnDisk) = {FirstIncomplete}
        /\ FirstIncomplete.obs \in JournalObs
    BY <2>1, TheIncomplete
  <2>3. db' = ApplyDb(db, FirstIncomplete.obs)
    BY <2>1 DEF ReceivedDb, Denied
  <2>4. OnDisk' = OnDisk
    BY <2>1 DEF OnDisk
  <2>5. SUFFICES ASSUME denials = 0 PROVE ReplayInv'
    BY <2>1 DEF ReplayInv
  <2> QED
    BY <2>1, <2>2, <2>3, <2>4, <2>5, DeliveryReplayed
<1>8. CASE RecordOutcome
  <2> DEFINE row == Received(current, Head(batch))
  <2>1. /\ pc = "APPLIED" /\ pc' = "NEXT" /\ AppendRow(Outcome(current, outcome))
        /\ UNCHANGED <<db, torn, rawFiles, retained, denials, current, acked, recovered>>
    BY <1>8 DEF RecordOutcome, history
  <2>2. /\ row \in Incomplete(OnDisk) /\ outcome \in OutcomeValues /\ current \in Nat
        /\ Holds(db, denials, outcome, row.obs)
    BY <2>1 DEF JournalInv, JournalTyped, Control
  <2>3. row.index = current
    BY DEF Received
  <2>4. denials = 0 => Outcome(current, outcome) \in ReplayOf(OnDisk).replayed
    BY <2>1 DEF ReplayInv
  <2> HIDE DEF row
  <2> QED
    BY <2>1, <2>2, <2>3, <2>4, OutcomeReplayed
<1>9. CASE RecoverCommitted
  <2> DEFINE r == FirstIncomplete
  <2>1. /\ pc = "SCAN" /\ pc' = pc /\ Incomplete(journal) # {} /\ Committed(db, r.obs)
        /\ AppendRow(Outcome(r.index, CommittedOutcome(db, r.obs)))
        /\ recovered' = recovered \cup {r.index}
        /\ UNCHANGED <<db, torn, rawFiles, retained, denials, current, acked>>
    BY <1>9 DEF RecoverCommitted, local
  <2>2. r \in Incomplete(OnDisk) /\ r.obs \in JournalObs /\ r.index \in Nat
    BY <2>1, TheIncomplete
  <2>3. /\ CommittedOutcome(db, r.obs) \in OutcomeValues
        /\ Holds(db, denials, CommittedOutcome(db, r.obs), r.obs)
    BY <2>1, <2>2, CommittedHolds DEF JournalInv, JournalTyped
  <2> HIDE DEF r
  <2> QED
    BY <2>1, <2>2, <2>3, OutcomeReplayed
<1>10. CASE RecordRecovered
  <2>1. /\ pc = "REAPPLIED" /\ pc' = "SCAN" /\ AppendRow(Outcome(current, outcome))
        /\ recovered' = recovered \cup {current}
        /\ UNCHANGED <<db, torn, rawFiles, retained, denials, current, acked>>
    BY <1>10 DEF RecordRecovered, local
  <2>2. PICK r \in Incomplete(OnDisk) : r.index = current
    BY <2>1 DEF JournalInv, Control
  <2>3. outcome \in OutcomeValues /\ current \in Nat /\ Holds(db, denials, outcome, r.obs)
    BY <2>1, <2>2 DEF JournalInv, JournalTyped, Control
  <2> QED
    BY <2>1, <2>2, <2>3, OutcomeReplayed
<1>11. CASE ConfirmInStore
  <2>1. /\ pc = "NEXT" /\ pc' = "CONFIRMED" /\ ack # NoAck /\ ack.seq > ConfirmedIn(db)
        /\ db' = ConfirmDb(db, ack) /\ UNCHANGED <<journal, retained, denials, ack, recovered>>
    BY <1>11 DEF ConfirmInStore, Confirmed, ConfirmedIn, local, history
  <2>2. /\ db \in Databases /\ Usable(db) /\ ack \in Acks /\ HoldsAck(db, ack)
        /\ Incomplete(OnDisk) = {}
    BY <2>1 DEF JournalInv, JournalTyped, Control, Backs
  <2>3. /\ db.confirms \subseteq db'.confirms /\ Alike(db', db)
        /\ \E c \in db'.confirms : c.seq = ack.seq /\ c.cursor = ack.cursor
    BY <2>1, <2>2, Confirming DEF Extends
  <2>4. OnDisk' = OnDisk
    BY <2>1 DEF OnDisk
  <2>5. SUFFICES ASSUME denials = 0 PROVE ReplayInv'
    BY <2>1 DEF ReplayInv
  <2>6. Alike(ReplayOf(OnDisk).db, db')
    BY <2>2, <2>3, <2>5 DEF ReplayInv, Alike
  <2> QED
    BY <2>1, <2>2, <2>3, <2>4, <2>5, <2>6 DEF ReplayInv
<1>12. CASE UNCHANGED vars
  <2>1. UNCHANGED <<db, journal, retained, denials, pc, batch, current, outcome, ack, recovered>>
    BY <1>12 DEF vars
  <2> QED
    BY <2>1 DEF ReplayInv, OnDisk
<1> QED
  BY <1>1, <1>2, <1>3, <1>4, <1>5, <1>6, <1>7, <1>8, <1>9, <1>10, <1>11, <1>12 DEF Next, Process

(* verify_replay_equivalence (replay.py) accepts what live processes       *)
(* recorded, whatever deaths and recoveries lie in between: as long as the *)
(* fault store has refused nothing, the journal replayed into a fresh      *)
(* store gives the chain, gaps, conflicts, generations and controller of   *)
(* the original and confirms nothing more, and gives every outcome a live  *)
(* process recorded.                                                       *)
THEOREM ReplayReconstructs ==
  ASSUME "RENAMED" \notin CrashPoints
  PROVE  Spec => []ReplayAgrees
<1>1. Init => ReplayInv
  BY ReplayInit
<1>2. JournalInv /\ JournalInv' /\ ReplayInv /\ [Next]_vars => ReplayInv'
  BY ReplayStep
<1>3. ASSUME JournalInv, ReplayInv PROVE ReplayAgrees
  <2>1. SUFFICES ASSUME Quiet PROVE ReplayReachesSameStore /\ LiveOutcomesReplay
    BY DEF ReplayAgrees, ReplayReachesSameStore, LiveOutcomesReplay
  <2>2. OnDisk = journal /\ Incomplete(OnDisk) = {} /\ denials = 0
    BY <1>3, <2>1 DEF Quiet, OnDisk, JournalInv, Control
  <2>3. /\ ReplayOf(journal).db \in Databases /\ db \in Databases
        /\ Alike(ReplayOf(journal).db, db)
        /\ \A c \in ReplayOf(journal).db.confirms :
             \E e \in db.confirms : c.seq = e.seq /\ c.cursor = e.cursor
        /\ \A q \in Outcomes(journal) : q.index \in recovered \/ q \in ReplayOf(journal).replayed
    BY <1>3, <2>2 DEF ReplayInv, JournalInv, JournalTyped
  <2>4. SameButConfirmations(ReplayOf(journal).db, db)
    BY <2>3 DEF Alike, SameButConfirmations, Databases
  <2> QED
    BY <2>3, <2>4 DEF ReplayReachesSameStore, LiveOutcomesReplay
<1> QED
  BY <1>1, <1>2, <1>3, JournalInvariant, PTL DEF Spec
===============================================================================
