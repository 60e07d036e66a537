------------------------------ MODULE IngestOps ------------------------------
(***************************************************************************)
(* What one transaction of the SQLite ingest store does to the database:   *)
(* Ingestor.apply, confirm_ack, store_late_repair and the run closing      *)
(* transaction of src/src/moj_discovery/ingest.py and                      *)
(* src/tools/destruction_support.py, under the constraints and triggers of *)
(* discovery-store-v1.sql.                                                 *)
(*                                                                         *)
(* The operators are functions from a database value to a database value,  *)
(* so that the state machines (Ingest, InputJournal) and the replay of a   *)
(* journal into a fresh database all use the same definition.              *)
(*                                                                         *)
(* Abstractions.  One run.  A content hash is the observation itself and a *)
(* cursor hash the sequence of bodies it digests (both hashes are taken to *)
(* be injective).  The five rows that apply inserts together (raw commit,  *)
(* application, revision, reducer cursor, outbox ACK) are one chain row.   *)
(* The shock, transition and epoch-binding rows that _gap inserts with the *)
(* gap row are represented by that gap row and the controller state.       *)
(***************************************************************************)
EXTENDS Naturals, Sequences, FiniteSetsExt

CONSTANTS
  Streams,   \* the streams of the run
  Bodies,    \* distinguishable contents of an observation
  MaxSeq     \* bound: sequence numbers offered to the store are 1..MaxSeq

ASSUME MaxSeqAssumption == MaxSeq \in Nat

(* Generation 0 is created with the run; a second one exists only after a  *)
(* loss of continuity, and the single coherence controller is then closed  *)
(* for the rest of the run, so there is never a third.                     *)
Generations == {0, 1}

GenStates == {"NONE", "ACTIVE", "QUARANTINED_GAP", "CLOSED"}

Observations == [stream : Streams, gen : Generations, seq : 1..MaxSeq, body : Bodies]

(* The seed hash of every cursor chain. *)
H0 == <<>>

ChainRows   == [stream : Streams, gen : Generations, seq : 1..MaxSeq, body : Bodies,
                prior : Seq(Bodies), cursor : Seq(Bodies)]
ConfirmRows == [stream : Streams, gen : Generations, seq : 1..MaxSeq,
                cursor : Seq(Bodies), previous : 0..MaxSeq]
GapRows     == [stream : Streams, gen : Generations, from : 1..MaxSeq, to : 1..MaxSeq,
                detected : 1..MaxSeq, body : Bodies,
                reason : {"MISSING_SEQUENCE", "CONFLICTING_DUPLICATE"}]

Databases ==
  [run        : {"OPEN", "CLOSED"},
   controller : {"OPEN", "SHOCKED_CLOSED"},
   gens       : [Streams -> [Generations -> GenStates]],
   chain      : SUBSET ChainRows,       \* disposition APPLIED, with its four linked rows
   repairs    : SUBSET ChainRows,       \* disposition LATE_REPAIR_ONLY
   conflicts  : SUBSET Observations,
   gaps       : SUBSET GapRows,
   confirms   : SUBSET ConfirmRows]     \* ack_cursors of owner BACKEND

FreshDb ==
  [run        |-> "OPEN",
   controller |-> "OPEN",
   gens       |-> [s \in Streams |-> [g \in Generations |-> IF g = 0 THEN "ACTIVE" ELSE "NONE"]],
   chain      |-> {},
   repairs    |-> {},
   conflicts  |-> {},
   gaps       |-> {},
   confirms   |-> {}]

-----------------------------------------------------------------------------
(* Reading the database.                                                   *)

SamePosition(a, b) == a.stream = b.stream /\ a.gen = b.gen /\ a.seq = b.seq

RowsOf(rows, s, g) == {r \in rows : r.stream = s /\ r.gen = g}

Highest(rows, s, g) == Max({0} \cup {r.seq : r \in RowsOf(rows, s, g)})

CursorAt(rows, s, g, n) ==
  IF n = 0 THEN H0 ELSE (CHOOSE r \in RowsOf(rows, s, g) : r.seq = n).cursor

GenState(d, o) == d.gens[o.stream][o.gen]

RawAt(d, o) == {r \in d.chain \cup d.repairs : SamePosition(r, o)}

(* The part of the chain below a position, as store_late_repair reads it. *)
HighestBelow(rows, s, g, n) == Max({0} \cup {r.seq : r \in {q \in RowsOf(rows, s, g) : q.seq < n}})

-----------------------------------------------------------------------------
(* Ingestor.apply: the case an observation falls in.                       *)

(* Mutant: apply does not look at generation_state. *)
AcceptingAnyState(d, o) ==
  /\ d.run = "OPEN"
  /\ GenState(d, o) # "NONE"
  /\ \A c \in d.conflicts : ~(c.stream = o.stream /\ c.gen = o.gen)

Accepting(d, o) ==
  /\ d.run = "OPEN"
  /\ GenState(d, o) = "ACTIVE"
  /\ \A c \in d.conflicts : ~(c.stream = o.stream /\ c.gen = o.gen)

IsDuplicate(d, o) ==
  Accepting(d, o) /\ \E r \in d.chain : SamePosition(r, o) /\ r.body = o.body

IsConflict(d, o) ==
  Accepting(d, o) /\ \E r \in RawAt(d, o) : r.body # o.body

(* Mutant: any later sequence is taken for the next one. *)
IsNextOrLater(d, o) ==
  /\ Accepting(d, o)
  /\ RawAt(d, o) = {}
  /\ o.seq > Highest(d.chain, o.stream, o.gen)

IsNext(d, o) ==
  /\ Accepting(d, o)
  /\ RawAt(d, o) = {}
  /\ o.seq = Highest(d.chain, o.stream, o.gen) + 1

IsGap(d, o) ==
  /\ Accepting(d, o)
  /\ RawAt(d, o) = {}
  /\ o.seq > Highest(d.chain, o.stream, o.gen) + 1

(* Mutant: _gap does not look at the controller. *)
CanAlwaysShock(d) == TRUE

(* _gap needs the run's only coherence controller to be open. *)
CanShock(d) == d.controller = "OPEN"

(* The error apply raises, or "APPLIED".  The last case is the defensive   *)
(* E_INGEST_INCOMPLETE_DURABLE_CHAIN of a position at or below the cursor  *)
(* that has no complete chain row.                                         *)
Verdict(d, o) ==
  CASE d.run # "OPEN" -> "E_INGEST_RUN_BINDING"
    [] d.run = "OPEN" /\ GenState(d, o) = "NONE" -> "E_INGEST_GENERATION_BINDING"
    [] d.run = "OPEN" /\ GenState(d, o) \in {"QUARANTINED_GAP", "CLOSED"}
         -> "E_INGEST_GENERATION_CLOSED"
    [] d.run = "OPEN" /\ GenState(d, o) = "ACTIVE" /\ ~Accepting(d, o) -> "E_INGEST_CONFLICT"
    [] IsDuplicate(d, o) \/ IsNext(d, o) -> "APPLIED"
    [] IsConflict(d, o) /\ CanShock(d) -> "E_INGEST_CONFLICT"
    [] IsGap(d, o) /\ CanShock(d) -> "E_INGEST_GAP"
    [] (IsConflict(d, o) \/ IsGap(d, o)) /\ ~CanShock(d) -> "E_INGEST_GAP_COHERENCE_BINDING"
    [] OTHER -> "E_INGEST_INCOMPLETE_DURABLE_CHAIN"

-----------------------------------------------------------------------------
(* Ingestor.apply: what the committed transaction leaves.                  *)

(* Mutant: the cursor lookup forgets which generation it extends. *)
NewRowOfGenerationZero(d, o) ==
  LET prior == CursorAt(d.chain, o.stream, 0, HighestBelow(d.chain, o.stream, 0, o.seq))
  IN  [stream |-> o.stream, gen |-> o.gen, seq |-> o.seq, body |-> o.body,
       prior |-> prior, cursor |-> Append(prior, o.body)]

NewRow(d, o) ==
  LET prior == CursorAt(d.chain, o.stream, o.gen, Highest(d.chain, o.stream, o.gen))
  IN  [stream |-> o.stream, gen |-> o.gen, seq |-> o.seq, body |-> o.body,
       prior |-> prior, cursor |-> Append(prior, o.body)]

GapRow(d, o, reason) ==
  LET conflict == reason = "CONFLICTING_DUPLICATE"
  IN  [stream |-> o.stream, gen |-> o.gen,
       from |-> IF conflict THEN o.seq ELSE Highest(d.chain, o.stream, o.gen) + 1,
       to |-> IF conflict THEN o.seq ELSE o.seq - 1,
       detected |-> o.seq, body |-> o.body, reason |-> reason]

(* Mutant: _gap opens the successor without closing the predecessor. *)
LoseContinuityKeepsGeneration(d, o, reason) ==
  [d EXCEPT
     !.gaps       = @ \cup {GapRow(d, o, reason)},
     !.controller = "SHOCKED_CLOSED",
     !.gens       = [d.gens EXCEPT ![o.stream][o.gen + 1] = "ACTIVE"]]

(* _gap: gap, shock, transition, controller close, epoch binding, closing  *)
(* of the generation and opening of its successor, in one transaction.     *)
LoseContinuity(d, o, reason) ==
  [d EXCEPT
     !.gaps       = @ \cup {GapRow(d, o, reason)},
     !.controller = "SHOCKED_CLOSED",
     !.conflicts  = IF reason = "CONFLICTING_DUPLICATE" THEN @ \cup {o} ELSE @,
     !.gens       = [d.gens EXCEPT
                       ![o.stream][o.gen] = IF reason = "CONFLICTING_DUPLICATE"
                                              THEN "CLOSED" ELSE "QUARANTINED_GAP",
                       ![o.stream][o.gen + 1] = "ACTIVE"]]

ApplyDb(d, o) ==
  CASE IsNext(d, o) -> [d EXCEPT !.chain = @ \cup {NewRow(d, o)}]
    [] IsConflict(d, o) /\ CanShock(d) -> LoseContinuity(d, o, "CONFLICTING_DUPLICATE")
    [] IsGap(d, o) /\ CanShock(d) -> LoseContinuity(d, o, "MISSING_SEQUENCE")
    [] OTHER -> d

-----------------------------------------------------------------------------
(* Ingestor.confirm_ack for the outbox ACK a (stream, gen, seq, cursor).    *)

HoldsAck(d, a) == \E r \in d.chain : SamePosition(r, a) /\ r.cursor = a.cursor

(* Mutant: an older ACK than the confirmed one is confirmed again. *)
ConfirmVerdictAllowsRegression(d, a) ==
  CASE ~HoldsAck(d, a) -> "E_ACK_CONFIRMATION_BINDING"
    [] HoldsAck(d, a) /\ Highest(d.confirms, a.stream, a.gen) = a.seq -> "ALREADY_CONFIRMED"
    [] OTHER -> "CONFIRMED"

ConfirmVerdict(d, a) ==
  LET previous == Highest(d.confirms, a.stream, a.gen)
  IN  CASE ~HoldsAck(d, a) -> "E_ACK_CONFIRMATION_BINDING"
        [] HoldsAck(d, a) /\ previous > a.seq -> "E_ACK_CONFIRMATION_REGRESSION"
        [] HoldsAck(d, a) /\ previous = a.seq -> "ALREADY_CONFIRMED"
        [] OTHER -> "CONFIRMED"

ConfirmDb(d, a) ==
  IF ConfirmVerdict(d, a) = "CONFIRMED"
    THEN [d EXCEPT !.confirms = @ \cup
            {[stream |-> a.stream, gen |-> a.gen, seq |-> a.seq, cursor |-> a.cursor,
              previous |-> Highest(@, a.stream, a.gen)]}]
    ELSE d

-----------------------------------------------------------------------------
(* Ingestor.store_late_repair.                                             *)

(* Mutant: any gap of the generation admits a repair of any position. *)
CanRepairOutsideGap(d, o) ==
  /\ d.run = "OPEN"
  /\ GenState(d, o) \in {"CLOSED", "QUARANTINED_GAP"}
  /\ RowsOf(d.gaps, o.stream, o.gen) # {}
  /\ RawAt(d, o) = {}

CanRepair(d, o) ==
  /\ d.run = "OPEN"
  /\ GenState(d, o) \in {"CLOSED", "QUARANTINED_GAP"}
  /\ \E gap \in RowsOf(d.gaps, o.stream, o.gen) : o.seq \in gap.from .. gap.to
  /\ RawAt(d, o) = {}

(* Mutant: the repair is stored with disposition APPLIED. *)
RepairDbApplies(d, o) ==
  LET prior == CursorAt(d.chain, o.stream, o.gen,
                        HighestBelow(d.chain, o.stream, o.gen, o.seq))
  IN  [d EXCEPT !.chain = @ \cup
         {[stream |-> o.stream, gen |-> o.gen, seq |-> o.seq, body |-> o.body,
           prior |-> prior, cursor |-> Append(prior, o.body)]}]

RepairDb(d, o) ==
  LET prior == CursorAt(d.chain, o.stream, o.gen,
                        HighestBelow(d.chain, o.stream, o.gen, o.seq))
  IN  [d EXCEPT !.repairs = @ \cup
         {[stream |-> o.stream, gen |-> o.gen, seq |-> o.seq, body |-> o.body,
           prior |-> prior, cursor |-> Append(prior, o.body)]}]

(* validate_journal, with which every transaction begins: the rows of a     *)
(* generation are numbered 1..n and each extends the cursor of the one     *)
(* before; its confirmations grow, each linked to the one before it and    *)
(* for the cursor of a chain row.  The operators above leave its refusal   *)
(* out; that it never refuses is a property of Ingest.                     *)
ValidJournal(d) ==
  /\ \A s \in Streams, g \in Generations :
       LET rows == RowsOf(d.chain, s, g)
       IN  /\ {r.seq : r \in rows} = 1..Highest(rows, s, g)
           /\ \A r, q \in rows : r.seq = q.seq => r = q
           /\ \A r \in rows : /\ r.prior = CursorAt(rows, s, g, r.seq - 1)
                              /\ r.cursor = Append(r.prior, r.body)
  /\ \A c \in d.confirms :
       /\ HoldsAck(d, c)
       /\ c.previous = HighestBelow(d.confirms, c.stream, c.gen, c.seq)
       /\ \A e \in d.confirms : SamePosition(c, e) => c = e

(* _validate_snapshot_relations of the crash harness, as far as it is about *)
(* generations: every gap has closed its generation and the successor is    *)
(* active, or closed by a later gap or with the run.                        *)
GapRelations(d) ==
  /\ \A r \in d.repairs : GenState(d, r) # "ACTIVE"
  /\ \A gap \in d.gaps :
       LET successor == gap.gen + 1
       IN  /\ GenState(d, gap) \notin {"NONE", "ACTIVE"}
           /\ successor \in Generations
           /\ \/ d.gens[gap.stream][successor] = "ACTIVE"
              \/ d.gens[gap.stream][successor] = "CLOSED" /\ d.run = "CLOSED"
              \/ RowsOf(d.gaps, gap.stream, successor) # {}

(* The transaction that closes every generation and then the run. *)
CloseRunDb(d) ==
  [d EXCEPT
     !.run  = "CLOSED",
     !.gens = [s \in Streams |-> [g \in Generations |->
                 IF d.gens[s][g] = "NONE" THEN "NONE" ELSE "CLOSED"]]]
=============================================================================
