------------------------------- MODULE Ingest -------------------------------
(***************************************************************************)
(* The backend store as a state machine: every public operation of         *)
(* Ingestor (src/src/moj_discovery/ingest.py), each one BEGIN IMMEDIATE    *)
(* transaction, called in any order by any caller.  Callers may repeat,    *)
(* reorder and invent observations, confirm old ACKs, and offer late       *)
(* repairs at any time.                                                    *)
(***************************************************************************)
EXTENDS IngestOps

VARIABLE db   \* the committed content of run.sqlite3

ingestVars == <<db>>

TypeOK == db \in Databases

-----------------------------------------------------------------------------
IngestInit == db = FreshDb

Apply(o) == db' = ApplyDb(db, o)

(* Any row that looks like an ACK may be presented; only one of the outbox *)
(* is accepted.                                                            *)
ConfirmAck(a) == db' = ConfirmDb(db, a)

StoreLateRepair(o) == CanRepair(db, o) /\ db' = RepairDb(db, o)

CloseRun == db.run = "OPEN" /\ db' = CloseRunDb(db)

IngestNext ==
  \/ \E o \in Observations : Apply(o) \/ StoreLateRepair(o)
  \/ \E a \in db.chain \cup db.repairs : ConfirmAck(a)
  \/ CloseRun

IngestSpec == IngestInit /\ [][IngestNext]_ingestVars

-----------------------------------------------------------------------------
(* Properties.                                                             *)

(* validate_journal, which every transaction runs first, accepts every     *)
(* reachable store: the chain rows of a generation have one row per        *)
(* sequence 1..n, each linked to the cursor of the row before it           *)
(* (store.py validate_journal; were it to fail once, no later operation    *)
(* on the run could succeed).                                              *)
ChainLinked ==
  /\ \A r, q \in db.chain : SamePosition(r, q) => r = q
  /\ \A r \in db.chain :
       /\ r.cursor = Append(r.prior, r.body)
       /\ r.seq = 1 => r.prior = H0
       /\ r.seq > 1 => \E q \in RowsOf(db.chain, r.stream, r.gen) :
                          q.seq = r.seq - 1 /\ q.cursor = r.prior

(* The validators accept every store that transactions can leave: the chain *)
(* and the history of confirmations, which validate_journal checks before   *)
(* anything else is done (one store it refuses could never be used again),  *)
(* and the gaps with their generations, which the crash harness checks.     *)
ValidatorsAccept == ValidJournal(db) /\ GapRelations(db)

(* A loss of continuity is atomic and happens at most once in a run: a gap *)
(* row, the closed controller, the closed generation and its successor     *)
(* appear together (_gap; triggers gap_epoch_binding_..., stream_          *)
(* generation_gap_close_..., successor_generation_...).                    *)
ContinuityLossAtomic ==
  /\ db.controller = "SHOCKED_CLOSED" <=> db.gaps # {}
  /\ \A p, q \in db.gaps : p = q
  /\ \A s \in Streams :
       /\ db.gens[s][1] # "NONE" <=> RowsOf(db.gaps, s, 0) # {}
       /\ db.gens[s][0] \in {"QUARANTINED_GAP", "CLOSED"} <=>
            (RowsOf(db.gaps, s, 0) # {} \/ db.run = "CLOSED")
  /\ \A p \in db.gaps : p.gen = 0

(* While a run is open each stream has exactly one generation that accepts *)
(* observations (index one_active_generation_per_stream).                  *)
OneActiveGeneration ==
  \A s \in Streams :
    db.run = "OPEN" => \E g \in Generations : \A h \in Generations :
                          db.gens[s][h] = "ACTIVE" <=> h = g

(* The position a gap blocks stays blocked: nothing at or after the first  *)
(* missing sequence of a quarantined generation is applied or confirmed,   *)
(* and a conflict never replaces what was applied (ack_blocked_after_      *)
(* sequence of gap_records).                                               *)
AckBlockedAfterGap ==
  \A gap \in db.gaps :
    IF gap.reason = "MISSING_SEQUENCE"
      THEN /\ \A r \in RowsOf(db.chain, gap.stream, gap.gen) : r.seq < gap.from
           /\ \A c \in RowsOf(db.confirms, gap.stream, gap.gen) : c.seq < gap.from
      ELSE \E r \in RowsOf(db.chain, gap.stream, gap.gen) :
             r.seq = gap.detected /\ r.body # gap.body

(* A late repair is history only: it lies in a missing range, above every  *)
(* applied position of its generation, and no ACK was ever confirmed for   *)
(* it (store_late_repair: "without applying or acknowledging it").         *)
LateRepairIsHistory ==
  \A r \in db.repairs :
    /\ db.gens[r.stream][r.gen] # "ACTIVE"
    /\ \E gap \in RowsOf(db.gaps, r.stream, r.gen) :
         gap.reason = "MISSING_SEQUENCE" /\ r.seq \in gap.from .. gap.to
    /\ \A q \in RowsOf(db.chain, r.stream, r.gen) : q.seq < r.seq
    /\ \A c \in db.confirms : ~SamePosition(c, r)

(* The defensive branch of apply is dead: whatever observation arrives,    *)
(* every position at or below the cursor has its complete chain row.       *)
NeverIncompleteChain ==
  \A o \in Observations : Verdict(db, o) # "E_INGEST_INCOMPLETE_DURABLE_CHAIN"

(* What was acknowledged, lost or repaired late stays what it was, under    *)
(* every order of old ACKs, gaps, conflicts and late observations.          *)
HistoryKept ==
  ValidatorsAccept /\ AckBlockedAfterGap /\ LateRepairIsHistory /\ NeverIncompleteChain

(* Once a generation has left ACTIVE no transaction adds to its applied    *)
(* chain, although its old ACKs may still be confirmed and late repairs    *)
(* stored; and a confirmed position is never withdrawn or lowered.         *)
ClosedGenerationFrozen ==
  [][\A s \in Streams, g \in Generations :
       /\ db.gens[s][g] \in {"QUARANTINED_GAP", "CLOSED"} =>
            /\ RowsOf(db'.chain, s, g) = RowsOf(db.chain, s, g)
            /\ db'.gens[s][g] # "ACTIVE"
       /\ Highest(db'.confirms, s, g) >= Highest(db.confirms, s, g)]_ingestVars
=============================================================================
