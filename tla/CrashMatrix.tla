------------------------------ MODULE CrashMatrix ------------------------------
(***************************************************************************)
(* The process-crash campaigns over the ingest and coherence store: the    *)
(* backend matrix (run_loopback_ack_crash_matrix.py and                    *)
(* run_sqlite_crash_matrix.py over inspect_restart_state.py) and the gap   *)
(* matrix (run_gap_coherence_crash_matrix.py).                             *)
(*                                                                         *)
(* A harness launches one child for a registered case.  The child prepares *)
(* the store, runs one transaction statement by statement, stops at the    *)
(* case's boundary, publishes a witness and a checkpoint; the harness      *)
(* kills it there, reads the database, lets a successor recover it, reads  *)
(* again and compares with an oracle that is written down independently of *)
(* the program.  The two mutations of a case give the harness a wrong      *)
(* expectation or a delivery with a wrong content hash.                    *)
(*                                                                         *)
(* A database is abstracted to its row counts, the state of the target     *)
(* stream's generations and cursors, and the coherence controller with its *)
(* transitions.  The child may die or stall anywhere, and so may each of   *)
(* the harness's own recovery processes.                                   *)
(***************************************************************************)
EXTENDS Naturals, Sequences, FiniteSets, SequencesExt

CONSTANTS
  Keys,   \* pairs <<family, key>>: the registered cases of this instance
  Kinds,  \* which of "NONE", "EXPECTED", "INPUT" mutations are campaigned
  None    \* no value

VARIABLES
  case,     \* the scenario being run
  kind,     \* the mutation applied to it
  hpc,      \* where the harness stands
  verdict,  \* what it concluded
  cpc,      \* where the child stands
  db,       \* the committed database
  work,     \* the database as the child's connection sees it
  tx,       \* the statements of the transaction the child runs
  step,     \* how many of them were executed
  baseline, \* baseline-state.json of the gap child
  witness,  \* boundary.json, empty before it is written
  marker,   \* checkpoint.json was renamed into place
  before,   \* what the first reader saw
  after,    \* what the second reader saw
  replay,   \* what the backend recovery answered
  crash,    \* history: where the child was when the harness killed it
  disturbed \* history: something stalled or died on its own

vars == <<case, kind, hpc, verdict, cpc, db, work, tx, step, baseline, witness,
          marker, before, after, replay, crash, disturbed>>

CHAIN == {"raw_commits", "application_records", "derived_revisions", "reducer_cursors",
          "ack_outbox"}

GAP_INSERTS == {"gap_records", "shock_observations", "coherence_transitions",
                "gap_epoch_bindings", "generation_transitions", "stream_generations"}

PROOFS == {"clock_mappings", "clock_mapping_closures", "input_freshness_vectors",
           "coherence_epochs", "authoritative_resnapshot_proofs"}

Tables == CHAIN \cup GAP_INSERTS \cup PROOFS \cup {"raw_conflicts"}

-----------------------------------------------------------------------------
(* Statements.                                                             *)

Insert(t) == [do |-> "INSERT", table |-> t, gen |-> 0, to |-> None]

InsertRaw(g, disposition) == [Insert("raw_commits") EXCEPT !.gen = g, !.to = disposition]

InsertGeneration(g) == [Insert("stream_generations") EXCEPT !.gen = g, !.to = "ACTIVE"]

InsertTransition(from, to, at) ==
  [do |-> "INSERT", table |-> "coherence_transitions", gen |-> at, to |-> <<from, to>>]

UpdateController(to) ==
  [do |-> "UPDATE", table |-> "coherence_controllers", gen |-> 0, to |-> to]

UpdateGeneration(g, to) == [do |-> "UPDATE", table |-> "stream_generations", gen |-> g, to |-> to]

Is(s, do, table) == s.do = do /\ s.table = table

Counted(d, s) == IF s.do = "INSERT" THEN [d EXCEPT !.rows[s.table] = @ + 1] ELSE d

Execute(d, s) ==
  LET e == Counted(d, s)
  IN CASE s.table = "stream_generations" /\ s.to # None  -> [e EXCEPT !.gens[s.gen] = s.to]
       [] s.table = "raw_commits" /\ s.to = "APPLIED"    -> [e EXCEPT !.top[s.gen] = @ + 1]
       [] s.table = "coherence_controllers"              ->
            [[e EXCEPT !.ctl = s.to] EXCEPT !.rev = @ + 1]
       [] s.table = "coherence_transitions"              ->
            [e EXCEPT !.log = Append(@, [from |-> s.to[1], to |-> s.to[2], at |-> s.gen])]
       [] OTHER                                          -> e

(* The database after the first n statements, and after all of them.       *)
RunTo(d, statements, n) ==
  LET run[k \in 0..n] == IF k = 0 THEN d ELSE Execute(run[k - 1], statements[k])
  IN run[n]

Run(d, statements) == RunTo(d, statements, Len(statements))

(* provision: the store a child starts from. *)
Provisioned ==
  [rows |-> [t \in Tables |-> IF t \in {"stream_generations", "coherence_epochs"} THEN 1 ELSE 0],
   gens |-> [g \in 0..2 |-> IF g = 0 THEN "ACTIVE" ELSE None],
   top  |-> [g \in 0..2 |-> 0],
   ctl  |-> "OPEN", rev |-> 0, log |-> <<>>]

-----------------------------------------------------------------------------
(* The operations of the children, each one transaction.                   *)

Deliver(g, n)     == [do |-> "DELIVER", gen |-> g, seq |-> n, same |-> TRUE]
DeliverOther(g, n) == [Deliver(g, n) EXCEPT !.same = FALSE]
Do(name)          == [Deliver(0, 1) EXCEPT !.do = name]

(* Ingestor takes its time from the clock, the coherence operations of the *)
(* child take the constants 6 to 10.                                       *)
Now == 100

ChainTx(g) ==
  <<InsertRaw(g, "APPLIED"), Insert("application_records"), Insert("derived_revisions"),
    Insert("reducer_cursors"), Insert("ack_outbox")>>

(* Mutant: the controller is closed after the affected epoch was bound. *)
GapTxBindingFirst(d, g, closed) ==
  <<Insert("gap_records"), Insert("shock_observations"),
    InsertTransition(d.ctl, "SHOCKED_CLOSED", Now), Insert("gap_epoch_bindings"),
    UpdateController("SHOCKED_CLOSED"), UpdateGeneration(g, closed),
    Insert("generation_transitions"), InsertGeneration(g + 1)>>

GapTx(d, g, closed) ==
  <<Insert("gap_records"), Insert("shock_observations"),
    InsertTransition(d.ctl, "SHOCKED_CLOSED", Now), UpdateController("SHOCKED_CLOSED"),
    Insert("gap_epoch_bindings"), UpdateGeneration(g, closed),
    Insert("generation_transitions"), InsertGeneration(g + 1)>>

(* The answer of Ingestor.apply; an error is raised after its commit where *)
(* the transaction has statements.                                         *)
Answer(d, o) ==
  CASE d.gens[o.gen] # "ACTIVE"                     -> "E_INGEST_GENERATION_CLOSED"
    [] d.gens[o.gen] = "ACTIVE" /\ o.seq <= d.top[o.gen] ->
         IF o.same THEN "ACK" ELSE "E_INGEST_CONFLICT"
    [] d.gens[o.gen] = "ACTIVE" /\ o.seq = d.top[o.gen] + 1 -> "ACK"
    [] OTHER                                        -> "E_INGEST_GAP"

DeliveryTx(d, o) ==
  CASE Answer(d, o) = "ACK" /\ o.seq > d.top[o.gen] -> ChainTx(o.gen)
    [] Answer(d, o) = "E_INGEST_GAP"                -> GapTx(d, o.gen, "QUARANTINED_GAP")
    [] Answer(d, o) = "E_INGEST_CONFLICT"           ->
         <<Insert("raw_conflicts")>> \o GapTx(d, o.gen, "CLOSED")
    [] OTHER                                        -> <<>>

(* _shock_close, _waiting, _pending, _release, _new_shock_pending, _close_mapping *)
ShockTx(d) ==
  <<Insert("shock_observations"), InsertTransition(d.ctl, "SHOCKED_CLOSED", 6),
    UpdateController("SHOCKED_CLOSED")>>

WaitingTx ==
  <<InsertTransition("SHOCKED_CLOSED", "WAITING_FOR_RESNAPSHOT", 7),
    UpdateController("WAITING_FOR_RESNAPSHOT")>>

PendingTx ==
  <<Insert("clock_mappings"), Insert("clock_mappings"), Insert("clock_mappings"),
    Insert("input_freshness_vectors"), Insert("coherence_epochs"),
    Insert("authoritative_resnapshot_proofs"),
    InsertTransition("WAITING_FOR_RESNAPSHOT", "NEW_EPOCH_PENDING", 8),
    UpdateController("NEW_EPOCH_PENDING")>>

ReleaseTx ==
  <<InsertTransition("NEW_EPOCH_PENDING", "NEW_EPOCH_OPEN", 9),
    UpdateController("NEW_EPOCH_OPEN")>>

NewShockTx ==
  <<Insert("shock_observations"), Insert("coherence_epochs"),
    InsertTransition("NEW_EPOCH_PENDING", "WAITING_FOR_RESNAPSHOT", 10),
    UpdateController("WAITING_FOR_RESNAPSHOT")>>

(* _seed_epoch_continuity: a stream of its own with a closed generation 0, *)
(* and one observation applied in its generation 1.                        *)
SeedTx ==
  <<Insert("stream_generations"), Insert("gap_records"), Insert("gap_epoch_bindings"),
    Insert("generation_transitions"), Insert("stream_generations"), Insert("raw_commits"),
    Insert("application_records"), Insert("derived_revisions"), Insert("reducer_cursors"),
    Insert("ack_outbox")>>

Transaction(d, op) ==
  CASE op.do = "DELIVER"     -> DeliveryTx(d, op)
    [] op.do = "LATE_REPAIR" -> <<InsertRaw(0, "LATE_REPAIR_ONLY")>>
    [] op.do = "MAPPING"     -> <<Insert("clock_mappings")>>
    [] op.do = "CLOSURE"     -> <<Insert("clock_mapping_closures")>>
    [] op.do = "CAPACITY"    -> GapTx(d, 0, "QUARANTINED_GAP")
    [] op.do = "SHOCK"       -> ShockTx(d)
    [] op.do = "WAITING"     -> WaitingTx
    [] op.do = "PENDING"     -> PendingTx
    [] op.do = "RELEASE"     -> ReleaseTx
    [] op.do = "NEW_SHOCK"   -> NewShockTx
    [] op.do = "SEED"        -> SeedTx

Commit(d, op) == Run(d, Transaction(d, op))

CommitTo(d, ops, n) ==
  LET done[k \in 0..n] == IF k = 0 THEN d ELSE Commit(done[k - 1], ops[k])
  IN done[n]

CommitAll(d, ops) == CommitTo(d, ops, Len(ops))

-----------------------------------------------------------------------------
(* The registered cases.                                                   *)

(* BEFORE_STATEMENT: a trace callback sees a statement before it executes. *)
PHASES ==
  [k \in {"SQL-01", "SQL-02", "SQL-03", "SQL-04", "SQL-05"} \cup
         {"GAP-01", "GAP-02", "GAP-03", "GAP-04", "GAP-05", "GAP-06", "GAP-07", "GAP-08"} |->
     CASE k = "SQL-01" -> Insert("application_records")
       [] k = "SQL-02" -> Insert("derived_revisions")
       [] k = "SQL-03" -> Insert("reducer_cursors")
       [] k = "SQL-04" -> Insert("ack_outbox")
       [] k = "GAP-01" -> Insert("shock_observations")
       [] k = "GAP-02" -> Insert("coherence_transitions")
       [] k = "GAP-03" -> UpdateController(None)
       [] k = "GAP-04" -> Insert("gap_epoch_bindings")
       [] k = "GAP-05" -> UpdateGeneration(0, None)
       [] k = "GAP-06" -> Insert("generation_transitions")
       [] k = "GAP-07" -> Insert("stream_generations")
       [] OTHER        -> [do |-> "COMMIT", table |-> None, gen |-> 0, to |-> None]]

GapKeys == {"GAP-01", "GAP-02", "GAP-03", "GAP-04", "GAP-05", "GAP-06", "GAP-07", "GAP-08"}

SqlKeys == {"SQL-01", "SQL-02", "SQL-03", "SQL-04", "SQL-05"}

(* run_backend_case: the scenario of a backend case. *)
BackendScenario(key) ==
  LET gap  == key \in GapKeys \cup {"GAP-10"}
      late == key = "LATE-01"
      base == gap \/ late \/ key = "ACK-06"
  IN [family |-> "BACKEND", key |-> key, kill |-> TRUE, operation |-> "GAP",
      setup  |-> IF late THEN <<Deliver(0, 1), Deliver(0, 3)>>
                 ELSE IF base THEN <<Deliver(0, 1)>> ELSE <<>>,
      first  |-> <<>>,
      pre    |-> <<>>,
      op     |-> Deliver(0, IF gap THEN 3 ELSE IF late THEN 2 ELSE 1),
      then   |-> <<>>,
      point  |-> CASE key \in SqlKeys \cup GapKeys -> "STATEMENT"
                   [] key = "SEND-01"              -> "BEGIN"
                   [] key = "SQL-06"               -> "COMMIT"
                   [] OTHER                        -> "AFTER"]

(* _scenario and the operation the gap child derives from it. *)
GapScenario(key) ==
  [family |-> "GAP", key |-> key,
   kill   |-> key \notin {"CONFLICT-01", "LATE-01", "GAP-11", "CAPACITY-01", "EPOCH-05"},
   operation |-> CASE key \in {"CLOCK-01", "CLOCK-02"} -> "CLOCK"
                   [] key = "CAPACITY-01"              -> "CAPACITY"
                   [] key \in {"EPOCH-01", "EPOCH-02", "EPOCH-03", "EPOCH-04", "EPOCH-05"}
                        -> "EPOCH"
                   [] OTHER                            -> "GAP",
   setup  |-> CASE key \in {"LATE-01", "GAP-11"}     -> <<Deliver(0, 1), Deliver(0, 3)>>
                [] key \in {"CLOCK-01", "CLOCK-02"}  -> <<>>
                [] OTHER                             -> <<Deliver(0, 1)>>,
   first  |-> CASE key = "GAP-11"   -> <<Do("SEED"), Do("WAITING"), Do("PENDING"), Do("RELEASE")>>
                [] key = "EPOCH-03" -> <<Do("SHOCK"), Do("SEED"), Do("WAITING")>>
                [] key \in {"EPOCH-04", "EPOCH-05"}
                     -> <<Do("SHOCK"), Do("SEED"), Do("WAITING"), Do("PENDING")>>
                [] OTHER            -> <<>>,
   pre    |-> IF key \in {"CLOCK-01", "CLOCK-02"} THEN <<Do("MAPPING")>> ELSE <<>>,
   op     |-> CASE key = "CONFLICT-01"               -> DeliverOther(0, 1)
                [] key = "LATE-01"                   -> [Deliver(0, 2) EXCEPT !.do = "LATE_REPAIR"]
                [] key = "GAP-11"                    -> Deliver(1, 2)
                [] key = "CAPACITY-01"               -> Do("CAPACITY")
                [] key \in {"CLOCK-01", "CLOCK-02"}  -> Do("CLOSURE")
                [] key \in {"EPOCH-01", "EPOCH-02"}  -> Do("SHOCK")
                [] key = "EPOCH-03"                  -> Do("PENDING")
                [] key = "EPOCH-04"                  -> Do("RELEASE")
                [] key = "EPOCH-05"                  -> Do("NEW_SHOCK")
                [] OTHER                             -> Deliver(0, 3),
   then   |-> IF key = "LATE-01" THEN <<Do("WAITING")>> ELSE <<>>,
   point  |-> CASE key \in GapKeys                               -> "STATEMENT"
                [] key \in {"CLOCK-01", "EPOCH-01", "EPOCH-03"}  -> "BEFORE_COMMIT"
                [] key \in {"GAP-09", "EPOCH-04"}                -> "COMMIT"
                [] OTHER                                         -> "AFTER"]

Scenario(c) == IF c[1] = "BACKEND" THEN BackendScenario(c[2]) ELSE GapScenario(c[2])

(* The cases the two harnesses register.                                   *)
BackendKeys ==
  {"SEND-01", "SQL-06", "SQL-07", "ACK-06", "GAP-10", "LATE-01"} \cup SqlKeys \cup GapKeys

CoherenceKeys ==
  {"GAP-09", "GAP-10", "GAP-11", "CONFLICT-01", "LATE-01", "CAPACITY-01", "CLOCK-01", "CLOCK-02",
   "EPOCH-01", "EPOCH-02", "EPOCH-03", "EPOCH-04", "EPOCH-05"} \cup GapKeys

Registered == ({"BACKEND"} \X BackendKeys) \cup ({"GAP"} \X CoherenceKeys)

ASSUME KeysAssumption == Keys \subseteq Registered
ASSUME KindsAssumption == Kinds \subseteq {"NONE", "EXPECTED", "INPUT"}
ASSUME NoneAssumption ==
  None \notin {"PASS", "ACTIVE", "APPLIED", "LATE_REPAIR_ONLY", "QUARANTINED_GAP", "CLOSED"}

(* Where the child stops in its transaction: before statement n, with      *)
(* Len(tx) + 1 the COMMIT.  0 when the awaited statement does not occur.   *)
PausesBefore(c, statements) ==
  LET at == {n \in 1..Len(statements) : Is(statements[n], PHASES[c.key].do, PHASES[c.key].table)}
  IN CASE c.point = "BEFORE_COMMIT"                                 -> Len(statements) + 1
       [] c.point = "STATEMENT" /\ PHASES[c.key].do = "COMMIT"      -> Len(statements) + 1
       [] c.point = "STATEMENT" /\ at # {} -> CHOOSE n \in at : \A m \in at : n <= m
       [] OTHER                                                     -> 0

-----------------------------------------------------------------------------
(* The oracles, written without the transactions above.                    *)

(* _oracle: the whole backend database after the given commits. *)
Oracle(committed, gap) ==
  [rows |-> [t \in Tables |->
               IF t \in CHAIN /\ committed THEN 1
               ELSE IF t = "stream_generations" THEN IF gap THEN 2 ELSE 1
               ELSE IF t = "coherence_epochs" THEN 1
               ELSE IF t \in GAP_INSERTS /\ gap THEN 1 ELSE 0],
   gens |-> [g \in 0..2 |-> IF gap THEN <<"QUARANTINED_GAP", "ACTIVE", None>>[g + 1]
                            ELSE <<"ACTIVE", None, None>>[g + 1]],
   ctl  |-> IF gap THEN "SHOCKED_CLOSED" ELSE "OPEN",
   rev  |-> IF gap THEN 1 ELSE 0]

(* _snapshot: the compared projection of what the reader returned. *)
Snapshot(d) == [rows |-> d.rows, gens |-> d.gens, ctl |-> d.ctl, rev |-> d.rev]

(* run_backend_case: expected_state, one outcome or the two of a commit. *)
BackendExpected(c) ==
  LET gap == c.key \in GapKeys \cup {"GAP-10"}
      late == c.key = "LATE-01"
      base == gap \/ late \/ c.key = "ACK-06"
      closed == late \/ c.key = "GAP-10"
      Outcome(committed) ==
        [before |-> Oracle(committed, closed), after |-> Oracle(TRUE, gap \/ late),
         replay |-> IF closed THEN "E_INGEST_GENERATION_CLOSED"
                    ELSE IF gap THEN "E_INGEST_GAP" ELSE "ACK"]
  IN IF c.key = "SQL-06" THEN {Outcome(FALSE), Outcome(TRUE)}
     ELSE {Outcome(base \/ c.key = "SQL-07")}

(* crash-harness-registry.v1.json: the row deltas, the controller and the  *)
(* active generation that a gap case expects at restart.                   *)
Deltas(ones, zeros) == [t \in ones \cup zeros |-> IF t \in ones THEN 1 ELSE 0]

GapExpected(c) ==
  LET row(d, ctl, active) == [deltas |-> d, coherence |-> ctl, active |-> active]
      rolledBack == row(Deltas({}, GAP_INSERTS), "OPEN", 0)
      closed(extra, active) == row(Deltas(GAP_INSERTS \cup extra, CHAIN \ {"raw_commits"}),
                                   "SHOCKED_CLOSED", active)
      shock == {"shock_observations", "coherence_transitions"}
      proof == {"authoritative_resnapshot_proofs", "input_freshness_vectors",
                "coherence_epochs", "coherence_transitions"}
  IN CASE c.key \in GapKeys -> {rolledBack}
       [] c.key = "GAP-09" -> {rolledBack, row(Deltas(GAP_INSERTS, {}), "SHOCKED_CLOSED", 1)}
       [] c.key = "GAP-10" -> {closed({}, 1)}
       [] c.key = "GAP-11" -> {closed({}, 2)}
       [] c.key = "CONFLICT-01" -> {closed({"raw_conflicts"}, 1)}
       [] c.key = "LATE-01" ->
            {row(Deltas({"raw_commits"}, (CHAIN \ {"raw_commits"}) \cup
                        {"gap_records", "generation_transitions"}), "WAITING_FOR_RESNAPSHOT", 1)}
       [] c.key = "CAPACITY-01" -> {row(Deltas({}, {}), "SHOCKED_CLOSED_AFTER_TERMINAL_GAP", 1)}
       [] c.key = "CLOCK-01" -> {row(Deltas({}, shock \cup {"clock_mapping_closures"}), "OPEN", 0)}
       [] c.key = "CLOCK-02" ->
            {row(Deltas({"clock_mapping_closures"}, shock), "OPEN_BUT_INELIGIBLE", 0)}
       [] c.key = "EPOCH-01" ->
            {row(Deltas({}, shock), "OPEN_BUT_SHOCK_REDETECTION_REQUIRED", 0)}
       [] c.key = "EPOCH-02" -> {row(Deltas(shock, {}), "SHOCKED_CLOSED", 0)}
       [] c.key = "EPOCH-03" -> {row(Deltas({}, proof), "WAITING_FOR_RESNAPSHOT", 0)}
       [] c.key = "EPOCH-04" ->
            {row(Deltas({}, {"coherence_transitions"}), "NEW_EPOCH_PENDING", 0),
             row(Deltas({"coherence_transitions"}, {}), "NEW_EPOCH_OPEN", 0)}
       [] OTHER -> {row(Deltas(shock \cup {"coherence_epochs"}, {}), "WAITING_FOR_RESNAPSHOT", 0)}

(* _semantic_view, over the tables one expected outcome names. *)
Coherence(c, d) ==
  CASE c.operation = "CLOCK" /\ d.rows["clock_mapping_closures"] > 0
         /\ d.rows["shock_observations"] = 0              -> "OPEN_BUT_INELIGIBLE"
    [] c.operation = "EPOCH" /\ d.ctl = "OPEN"             -> "OPEN_BUT_SHOCK_REDETECTION_REQUIRED"
    [] c.operation = "CAPACITY" /\ d.rows["gap_records"] > 0 -> "SHOCKED_CLOSED_AFTER_TERMINAL_GAP"
    [] OTHER                                               -> d.ctl

SemanticView(c, base, d, tables) ==
  [deltas    |-> [t \in tables |-> d.rows[t] - base.rows[t]],
   coherence |-> Coherence(c, d),
   active    |-> CHOOSE g \in 0..2 : d.gens[g] = "ACTIVE"]

-----------------------------------------------------------------------------
(* What the harness checks between two snapshots.                          *)

TargetGaps(d) == Cardinality({g \in 0..2 : d.gens[g] \in {"QUARANTINED_GAP", "CLOSED"}})

(* _validate_recovery *)
RecoveryHolds(c, b, a) ==
  /\ \A t \in Tables : a.rows[t] >= b.rows[t]
  /\ c.operation = "GAP" /\ TargetGaps(b) = 0 =>
       /\ TargetGaps(a) = 1
       /\ a.gens[0] = "QUARANTINED_GAP" /\ a.gens[1] = "ACTIVE"
       /\ a.ctl = "SHOCKED_CLOSED"
  /\ c.operation = "GAP" /\ TargetGaps(b) > 0 =>
       TargetGaps(a) = TargetGaps(b) /\ a.rows["raw_commits"] = b.rows["raw_commits"]
  /\ c.operation = "CLOCK" =>
       /\ a.rows["clock_mapping_closures"] > 0 /\ a.rows["shock_observations"] > 0
       /\ a.ctl = "SHOCKED_CLOSED"
  /\ c.operation = "CAPACITY" => a = b
  /\ c.operation = "EPOCH" =>
       a.ctl = CASE c.key = "EPOCH-03" -> "NEW_EPOCH_PENDING"
                 [] c.key = "EPOCH-04" -> "NEW_EPOCH_OPEN"
                 [] OTHER              -> "WAITING_FOR_RESNAPSHOT"

(* _validate_state_evolution, generations_reachable *)
GenerationsReachable(b, a) ==
  \A g \in 0..2 :
    CASE b.gens[g] = "ACTIVE"          -> a.gens[g] \in {"ACTIVE", "QUARANTINED_GAP", "CLOSED"}
      [] b.gens[g] = "QUARANTINED_GAP" -> a.gens[g] \in {"QUARANTINED_GAP", "CLOSED"}
      [] b.gens[g] = "CLOSED"          -> a.gens[g] = "CLOSED"
      [] OTHER                         -> TRUE

(* _validate_state_evolution, replay_controller: follow the new            *)
(* transitions, always the earliest that leaves the current state.         *)
Followed(pending, ctl) ==
  LET leaving == {t \in pending : t.from = ctl}
  IN CHOOSE t \in leaving : \A u \in leaving : t.at <= u.at

Follow(acc) ==
  IF acc.pending = {} \/ ~acc.ok THEN acc
  ELSE IF \A t \in acc.pending : t.from # acc.ctl THEN [acc EXCEPT !.ok = FALSE]
  ELSE LET t == Followed(acc.pending, acc.ctl)
       IN [pending |-> acc.pending \ {t}, ctl |-> t.to, rev |-> acc.rev + 1, ok |-> TRUE]

ReplayTo(start, n) ==
  LET acc[k \in 0..n] == IF k = 0 THEN start ELSE Follow(acc[k - 1])
  IN acc[n]

ReplayController(b, a) ==
  LET new == SubSeq(a.log, Len(b.log) + 1, Len(a.log))
      end == ReplayTo([pending |-> ToSet(new), ctl |-> b.ctl, rev |-> b.rev, ok |-> TRUE],
                      Len(new))
  IN end.ok /\ end.ctl = a.ctl /\ end.rev = a.rev

StateEvolution(b, a) ==
  /\ Len(b.log) <= Len(a.log)
  /\ \A t \in Tables : b.rows[t] <= a.rows[t]
  /\ GenerationsReachable(b, a)
  /\ ReplayController(b, a)

-----------------------------------------------------------------------------
(* The child.                                                              *)

Alive == {"boot", "held", "verify", "ready", "running", "after", "stopping", "witnessed",
          "stopped"}

ChildUnchanged == UNCHANGED <<case, kind, hpc, verdict, before, after, replay, crash, disturbed>>

(* provision and the setup deliveries; the input mutation is then held     *)
(* until the harness has seen the process.                                 *)
ChildProvision ==
  /\ cpc = "boot"
  /\ db' = CommitAll(Provisioned, case.setup)
  /\ marker' = (kind = "INPUT")
  /\ cpc' = IF kind = "INPUT" THEN "held" ELSE "verify"
  /\ ChildUnchanged /\ UNCHANGED <<work, tx, step, baseline, witness>>

(* launch-continue.json or continue.json appeared. *)
ChildReleased ==
  /\ cpc = "held"
  /\ hpc = "released"
  /\ cpc' = IF kind = "INPUT" THEN "verify" ELSE "exited"
  /\ ChildUnchanged /\ UNCHANGED <<db, work, tx, step, baseline, witness, marker>>

(* Mutant: the content hash is not verified. *)
ChildPrepareUnverified ==
  /\ cpc = "verify"
  /\ baseline' = CommitAll(db, case.first)
  /\ db' = CommitAll(baseline', case.pre)
  /\ cpc' = "ready"
  /\ ChildUnchanged /\ UNCHANGED <<work, tx, step, witness, marker>>

(* The delivery is validated before anything else is prepared. *)
ChildPrepare ==
  /\ cpc = "verify"
  /\ \/ /\ kind = "INPUT"
        /\ cpc' = "rejected"
        /\ UNCHANGED <<db, baseline>>
     \/ /\ kind # "INPUT"
        /\ baseline' = CommitAll(db, case.first)
        /\ db' = CommitAll(baseline', case.pre)
        /\ cpc' = "ready"
  /\ ChildUnchanged /\ UNCHANGED <<work, tx, step, witness, marker>>

(* A connection of the case's transaction; SEND-01 stops before it begins. *)
ChildBegin ==
  /\ cpc = "ready"
  /\ work' = db
  /\ tx' = IF case.point = "BEGIN" THEN <<>> ELSE Transaction(db, case.op)
  /\ cpc' = IF case.point = "BEGIN" THEN "stopping" ELSE "running"
  /\ ChildUnchanged /\ UNCHANGED <<db, step, baseline, witness, marker>>

(* Mutant: every statement is its own transaction. *)
ChildStatementAutocommit ==
  /\ cpc = "running"
  /\ step < Len(tx)
  /\ PausesBefore(case, tx) # step + 1
  /\ work' = Execute(work, tx[step + 1])
  /\ db' = work'
  /\ step' = step + 1
  /\ ChildUnchanged /\ UNCHANGED <<cpc, tx, baseline, witness, marker>>

ChildStatement ==
  /\ cpc = "running"
  /\ step < Len(tx)
  /\ PausesBefore(case, tx) # step + 1
  /\ work' = Execute(work, tx[step + 1])
  /\ step' = step + 1
  /\ ChildUnchanged /\ UNCHANGED <<cpc, db, tx, baseline, witness, marker>>

(* Mutant: the child stops one statement late. *)
ChildStopsLate ==
  /\ cpc = "running"
  /\ \/ PausesBefore(case, tx) = step + 1
     \/ case.point = "COMMIT" /\ step = Len(tx)
  /\ work' = IF step < Len(tx) THEN Execute(work, tx[step + 1]) ELSE work
  /\ step' = IF step < Len(tx) THEN step + 1 ELSE step
  /\ cpc' = "stopping"
  /\ ChildUnchanged /\ UNCHANGED <<db, tx, baseline, witness, marker>>

(* The traced statement, or the first file sync inside the commit. *)
ChildStops ==
  /\ cpc = "running"
  /\ \/ PausesBefore(case, tx) = step + 1
     \/ case.point = "COMMIT" /\ step = Len(tx)
  /\ cpc' = "stopping"
  /\ ChildUnchanged /\ UNCHANGED <<db, work, tx, step, baseline, witness, marker>>

ChildCommit ==
  /\ cpc = "running"
  /\ step = Len(tx)
  /\ PausesBefore(case, tx) # step + 1
  /\ case.point # "COMMIT"
  /\ db' = work
  /\ cpc' = "after"
  /\ ChildUnchanged /\ UNCHANGED <<work, tx, step, baseline, witness, marker>>

(* What follows the commit, up to the boundary behind it; a child that     *)
(* never met its statement ends without a checkpoint.                      *)
ChildFinish ==
  /\ cpc = "after"
  /\ db' = CommitAll(db, case.then)
  /\ work' = db'
  /\ cpc' = IF case.point = "AFTER" THEN "stopping" ELSE "failed"
  /\ ChildUnchanged /\ UNCHANGED <<tx, step, baseline, witness, marker>>

(* pause, _checkpoint: the witness first, then the checkpoint by rename. *)
ChildWitness ==
  /\ cpc = "stopping"
  /\ witness' = {[inTx   |-> case.point \in {"STATEMENT", "BEFORE_COMMIT", "COMMIT"},
                  tables |-> work,
                  answer |-> IF case.point = "AFTER" THEN Answer(baseline, case.op) ELSE None]}
  /\ cpc' = "witnessed"
  /\ ChildUnchanged /\ UNCHANGED <<db, work, tx, step, baseline, marker>>

ChildMark ==
  /\ cpc = "witnessed"
  /\ marker' = TRUE
  /\ cpc' = IF case.kill THEN "stopped" ELSE "held"
  /\ ChildUnchanged /\ UNCHANGED <<db, work, tx, step, baseline, witness>>

(* External: the child ends on its own. *)
ChildDies ==
  /\ cpc \in Alive
  /\ cpc' = "failed"
  /\ disturbed' = TRUE
  /\ UNCHANGED <<case, kind, hpc, verdict, db, work, tx, step, baseline, witness, marker,
                 before, after, replay, crash>>

Child ==
  \/ ChildProvision \/ ChildReleased \/ ChildPrepare \/ ChildBegin \/ ChildStatement
  \/ ChildStops \/ ChildCommit \/ ChildFinish \/ ChildWitness \/ ChildMark

-----------------------------------------------------------------------------
(* The harness.                                                            *)

ChildState == <<db, work, tx, step, baseline, witness, marker>>

Observed == <<before, after, replay, crash>>

Launch ==
  /\ hpc = "launch"
  /\ hpc' = "await"
  /\ cpc' = "boot"
  /\ UNCHANGED <<case, kind, verdict, disturbed>> /\ UNCHANGED ChildState /\ UNCHANGED Observed

(* An exception of the case.  Only execute_crash_matrix has a finally that *)
(* kills the child; the gap harness leaves it to itself.                   *)
Fail(reason) ==
  /\ hpc' = "done"
  /\ verdict' = reason
  /\ cpc' = IF case.family = "BACKEND" /\ cpc \in Alive THEN "killed" ELSE cpc
  /\ UNCHANGED <<case, kind>> /\ UNCHANGED ChildState /\ UNCHANGED Observed

(* _checkpoint, the loop over the marker, the child and the deadline. *)
AwaitCheckpoint ==
  /\ hpc = "await"
  /\ marker
  /\ hpc' = IF kind = "INPUT" THEN "released"
            ELSE IF case.family = "BACKEND" THEN "boundary" ELSE "terminate"
  /\ UNCHANGED <<case, kind, verdict, cpc, disturbed>> /\ UNCHANGED ChildState
  /\ UNCHANGED Observed

AwaitChildFailed ==
  /\ hpc = "await"
  /\ ~marker
  /\ cpc \notin Alive
  /\ Fail("E_CRASH_CHILD_FAILED")
  /\ UNCHANGED disturbed

(* Mutant: the wait has no deadline. *)
AwaitNoDeadline == FALSE /\ UNCHANGED vars

AwaitDeadline ==
  /\ hpc = "await"
  /\ ~marker
  /\ cpc \in Alive
  /\ Fail("E_CRASH_CHECKPOINT_MISSING")
  /\ disturbed' = TRUE

(* validate_boundary of run_backend_case: the durable tables by a separate *)
(* reader, the uncommitted ones by the witness.                            *)
Ordinal ==
  [k \in SqlKeys \cup GapKeys |->
     CASE k \in {"SQL-01", "GAP-01"} -> 1 [] k \in {"SQL-02", "GAP-02"} -> 2
       [] k \in {"SQL-03", "GAP-03"} -> 3 [] k \in {"SQL-04", "GAP-04"} -> 4
       [] k \in {"SQL-05", "GAP-05"} -> 5 [] k = "GAP-06" -> 6
       [] k = "GAP-07" -> 7 [] OTHER -> 8]

Written(stage, n) == IF stage >= n THEN 1 ELSE 0

(* What the first n statements of the chain and of the gap leave in the     *)
(* rows the witness reports.                                               *)
ChainWritten(w, n) ==
  /\ w.rows["raw_commits"] = Written(n, 1)
  /\ w.rows["application_records"] = Written(n, 2)
  /\ w.rows["derived_revisions"] = Written(n, 3)
  /\ w.rows["reducer_cursors"] = Written(n, 4)
  /\ w.rows["ack_outbox"] = Written(n, 5)

GapWritten(w, n) ==
  /\ w.rows["gap_records"] = Written(n, 1)
  /\ w.rows["shock_observations"] = Written(n, 2)
  /\ w.rows["coherence_transitions"] = Written(n, 3)
  /\ w.rows["gap_epoch_bindings"] = Written(n, 5)
  /\ w.rows["generation_transitions"] = Written(n, 7)
  /\ w.rows["stream_generations"] = 1 + Written(n, 8)
  /\ w.ctl = IF n >= 4 THEN "SHOCKED_CLOSED" ELSE "OPEN"
  /\ w.gens[0] = IF n >= 6 THEN "QUARANTINED_GAP" ELSE "ACTIVE"

BoundaryHolds ==
  LET late == case.key = "LATE-01"
      base == case.key \in GapKeys \cup {"GAP-10", "LATE-01", "ACK-06"}
  IN \E seen \in witness :
     /\ case.point # "COMMIT" =>
          /\ seen.inTx = (case.point = "STATEMENT")
          /\ Snapshot(db) = IF case.point = "STATEMENT" THEN Oracle(base, late)
                            ELSE Oracle(base \/ case.key = "SQL-07",
                                        late \/ case.key = "GAP-10")
     /\ case.key = "GAP-10"  => seen.answer = "E_INGEST_GAP"
     /\ case.key = "LATE-01" => seen.answer = "E_INGEST_GENERATION_CLOSED"
     /\ case.key \in {"SQL-07", "ACK-06"} => seen.answer = "ACK"
     /\ case.key \in SqlKeys => ChainWritten(seen.tables, Ordinal[case.key])
     /\ case.key \in GapKeys => GapWritten(seen.tables, Ordinal[case.key])

ValidateBoundary ==
  /\ hpc = "boundary"
  /\ IF BoundaryHolds
       THEN /\ hpc' = "terminate"
            /\ UNCHANGED <<case, kind, verdict, cpc>> /\ UNCHANGED ChildState
            /\ UNCHANGED Observed
       ELSE Fail("E_CRASH_BOUNDARY")
  /\ UNCHANGED disturbed

(* SIGKILL to the process group.  SQLite keeps what was committed; of a    *)
(* transaction inside its commit it keeps all or nothing.                  *)
Kill ==
  /\ hpc = "terminate"
  /\ case.kill
  /\ cpc \in Alive
  /\ cpc' = "killed"
  /\ crash' = [at |-> cpc, step |-> step]
  /\ db' \in IF case.point = "COMMIT" THEN {db, work} ELSE {db}
  /\ hpc' = IF case.family = "BACKEND" THEN "reopen" ELSE "before"
  /\ UNCHANGED <<case, kind, verdict, work, tx, step, baseline, witness, marker,
                 before, after, replay, disturbed>>

KillTooLate ==
  /\ hpc = "terminate"
  /\ case.kill
  /\ cpc \notin Alive
  /\ Fail("E_CRASH_CHILD_NOT_KILLED")
  /\ UNCHANGED disturbed

(* continue.json for a case whose kill action is NONE. *)
Release ==
  /\ hpc = "terminate"
  /\ ~case.kill
  /\ hpc' = "released"
  /\ UNCHANGED <<case, kind, verdict, cpc, disturbed>> /\ UNCHANGED ChildState
  /\ UNCHANGED Observed

(* child.wait(timeout=5): the exit status decides. *)
ReleasedExits ==
  /\ hpc = "released"
  /\ cpc \notin Alive
  /\ \/ /\ cpc = "exited"
        /\ hpc' = "before"
        /\ UNCHANGED <<case, kind, verdict, cpc>> /\ UNCHANGED ChildState /\ UNCHANGED Observed
     \/ cpc = "rejected" /\ Fail("CONTENT_HASH_MISMATCH")
     \/ cpc \notin {"exited", "rejected"} /\ Fail("E_GAP_TERMINATION")
  /\ UNCHANGED disturbed

ReleasedTimeout ==
  /\ hpc = "released"
  /\ cpc \in Alive
  /\ Fail("TimeoutExpired")
  /\ disturbed' = TRUE

(* The reopening process of the backend matrix: read-write, no bootstrap. *)
Reopen ==
  /\ hpc = "reopen"
  /\ hpc' = "before"
  /\ UNCHANGED <<case, kind, verdict, cpc, disturbed>> /\ UNCHANGED ChildState
  /\ UNCHANGED Observed

ReadBefore ==
  /\ hpc = "before"
  /\ before' = db
  /\ hpc' = "recover"
  /\ UNCHANGED <<case, kind, verdict, cpc, after, replay, crash, disturbed>>
  /\ UNCHANGED ChildState

(* Mutant: the gap is applied again whatever the database holds. *)
RecoveredTwice(c, d) ==
  CASE c.operation = "CLOCK" -> Commit(Commit(d, Do("CLOSURE")), Do("SHOCK"))
    [] c.operation = "GAP"   -> Commit(d, c.op)
    [] OTHER                 -> d

(* _recover of the gap child, and the operations it repeats. *)
Recovered(c, d) ==
  LET shock(e)   == IF c.operation = "EPOCH" /\ e.ctl = "OPEN" THEN Commit(e, Do("SHOCK")) ELSE e
      waiting(e) == IF e.ctl = "SHOCKED_CLOSED" THEN Commit(e, Do("WAITING")) ELSE e
      pending(e) == IF e.ctl = "WAITING_FOR_RESNAPSHOT" /\ c.key \in {"EPOCH-03", "EPOCH-04"}
                      THEN Commit(e, Do("PENDING")) ELSE e
      release(e) == IF e.ctl = "NEW_EPOCH_PENDING" /\ c.key = "EPOCH-04"
                      THEN Commit(e, Do("RELEASE")) ELSE e
      close(e)   == IF e.rows["clock_mapping_closures"] = 0 THEN Commit(e, Do("CLOSURE")) ELSE e
      closed(e)  == IF e.rows["shock_observations"] = 0 THEN Commit(e, Do("SHOCK")) ELSE e
  IN CASE c.operation = "GAP" /\ d.rows["gap_records"] = 0 -> Commit(d, c.op)
       [] c.operation = "CLOCK" -> closed(close(d))
       [] c.operation = "EPOCH" -> release(pending(waiting(shock(d))))
       [] OTHER                 -> d

(* The successor process: the backend one replays the delivery. *)
Recover ==
  /\ hpc = "recover"
  /\ IF case.family = "BACKEND"
       THEN db' = Commit(db, case.op) /\ replay' = Answer(db, case.op)
       ELSE db' = Recovered(case, db) /\ replay' = replay
  /\ hpc' = "read_after"
  /\ UNCHANGED <<case, kind, verdict, cpc, work, tx, step, baseline, witness, marker,
                 before, after, crash, disturbed>>

ReadAfter ==
  /\ hpc = "read_after"
  /\ after' = db
  /\ hpc' = "compare"
  /\ UNCHANGED <<case, kind, verdict, cpc, before, replay, crash, disturbed>>
  /\ UNCHANGED ChildState

(* A reopening, reading or recovering process fails or takes too long. *)
SuccessorFails ==
  /\ hpc \in {"reopen", "before", "recover", "read_after"}
  /\ Fail("E_ACTUAL_STATE_READER_FAILED")
  /\ disturbed' = TRUE

BackendMatches ==
  [before |-> Snapshot(before), after |-> Snapshot(after), replay |-> replay]
    \in BackendExpected(case)

GapMatches ==
  \E o \in GapExpected(case) :
    /\ kind = "NONE"
    /\ SemanticView(case, baseline, before, DOMAIN o.deltas) = o

(* _record and _compare, in their order. *)
GapVerdict ==
  CASE ~(StateEvolution(baseline, before) /\ StateEvolution(before, after))
                                           -> "E_GAP_STATE_EVOLUTION"
    [] StateEvolution(baseline, before) /\ StateEvolution(before, after)
         /\ ~RecoveryHolds(case, before, after) -> "E_GAP_RECOVERY_PREDICATE"
    [] OTHER -> IF GapMatches THEN "PASS" ELSE "E_GAP_STATE_MISMATCH"

Compare ==
  /\ hpc = "compare"
  /\ Fail(IF case.family = "GAP" THEN GapVerdict
          ELSE IF BackendMatches THEN "PASS" ELSE "E_RESTART_STATE_MISMATCH")
  /\ UNCHANGED disturbed

Harness ==
  \/ Launch \/ AwaitCheckpoint \/ AwaitChildFailed \/ AwaitDeadline
  \/ ValidateBoundary \/ Kill \/ KillTooLate \/ Release
  \/ ReleasedExits \/ ReleasedTimeout \/ Reopen \/ ReadBefore \/ Recover \/ ReadAfter
  \/ SuccessorFails \/ Compare

-----------------------------------------------------------------------------
Init ==
  /\ \E k \in Keys : case = Scenario(k)
  /\ kind \in Kinds
  /\ kind # "NONE" => case.family = "GAP"
  /\ hpc = "launch" /\ verdict = None
  /\ cpc = "none" /\ db = Provisioned /\ work = Provisioned /\ tx = <<>> /\ step = 0
  /\ baseline = Provisioned /\ witness = {} /\ marker = FALSE
  /\ before = None /\ after = None /\ replay = None
  /\ crash = None /\ disturbed = FALSE

Next == Child \/ ChildDies \/ Harness

(* The harness process runs on; its deadlines are part of it.  Nothing is  *)
(* assumed of the child.                                                   *)
Fairness == WF_vars(Harness)

Spec == Init /\ [][Next]_vars /\ Fairness

-----------------------------------------------------------------------------
(* The store before the case's transaction, and after all of it. *)
Old == CommitAll(CommitAll(CommitAll(Provisioned, case.setup), case.first), case.pre)

New == CommitAll(Commit(Old, case.op), case.then)

(* No false alarm and no missed mutation: unless a process stalled or died *)
(* on its own, every registered case passes and every campaigned mutation  *)
(* of it is detected; the oracles, the boundary formulas, the evolution    *)
(* and recovery predicates all agree with what the transactions do.        *)
HonestCasesPass ==
  hpc = "done" /\ ~disturbed =>
    verdict = CASE kind = "NONE"     -> "PASS"
                [] kind = "EXPECTED" -> "E_GAP_STATE_MISMATCH"
                [] OTHER             -> "CONTENT_HASH_MISMATCH"

(* Wherever the child was killed, the first reader sees all of the case's  *)
(* transaction or nothing of it, and nothing of it unless the kill came    *)
(* inside or after the commit.                                             *)
AllOrNothing ==
  before # None =>
    /\ before \in {Old, New}
    /\ case.point \in {"BEGIN", "STATEMENT", "BEFORE_COMMIT"} => before = Old
    /\ case.point = "AFTER" => before = New

(* A passing crash case was a crash: the child was killed while it held    *)
(* still at the registered boundary, with exactly the registered number of *)
(* statements executed, and it never ran again.                            *)
PassMeansCrashed ==
  verdict = "PASS" /\ case.kill =>
    /\ cpc = "killed"
    /\ crash.at = "stopped"
    /\ case.point = "STATEMENT" => crash.step = Ordinal[case.key]
    /\ case.point \in {"BEFORE_COMMIT", "COMMIT"} => crash.step = Len(tx)

(* Recovery does not depend on the crash: the database it leaves is the    *)
(* one a child that was never killed would have left to it.                *)
RecoveryConverges ==
  after # None =>
    after = IF case.family = "BACKEND" THEN New ELSE Recovered(case, New)

(* A delivery whose content hash is wrong stores nothing, and the backend  *)
(* harness leaves no child behind, however its case ended.                 *)
NothingLeftBehind ==
  /\ kind = "INPUT" => db \in {Provisioned, CommitAll(Provisioned, case.setup)}
  /\ hpc = "done" /\ case.family = "BACKEND" => cpc \notin Alive

(* Whatever the child does, the harness reaches a verdict. *)
EveryCaseEnds == <>(hpc = "done")

=============================================================================
