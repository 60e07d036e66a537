# A TLA+ model of the discovery pipeline

The repository holds a synthetic, offline "discovery" pipeline and the tooling that qualifies
and reviews it.  A browser extension redacts observations, spools them in IndexedDB and sends
them in batches over an authenticated loopback WebSocket; a Python receiver journals every
delivery, applies it to a SQLite store and acknowledges what is durable; the journal can be
replayed into a fresh store and compared; a closed run can be destroyed.  Around it stand the
rules that decide when observations may be used together (coherence, clocks), one-use
authorizations, the campaigns that kill every process at every registered boundary, the
evidence those campaigns leave, and the launch of an independent review.

Every definition is translated from the source; `map` in PROJECT.json gives the lines.
File names below are relative to `src/` of the repository: `moj_discovery/` stands for
`src/moj_discovery/`, `ext/` for `extension/src/`, `schema` for
`vendor/hybrid-discovery-v6.3.6/sql/discovery-store-v1.sql`.

Contents: 1 inventory, 2 modules and how they correspond to the code, 3 what is checked,
bounds and fairness, 4 what is proved, 5 disagreements found, 6 what is not modelled,
7 what is left.

## 1. Inventory

| Part | Source | State | Operations | Correct when |
|---|---|---|---|---|
| Ingest store | `moj_discovery/ingest.py`, `store.py`, schema | SQLite rows: generations, raw commits with their application, cursor and outbox rows, conflicts, gaps, ACK confirmations, the coherence controller | `apply`, `confirm_ack`, `store_late_repair`, closing a run | one linked chain per generation; continuity is lost at most once and atomically; ACKs only for durable rows and never backwards; the validators accept what the transactions leave |
| Input journal | `moj_discovery/input_journal.py` | `receive.jsonl` (hash-chained lines), `raw/*.json`, `partial-tail-*` | `record_received`, `_apply_received`, `record_outcome`, `record_ack_confirmation`, `reconcile` | evidence before effect; one outcome per delivery; a recovery after a crash at any point, where it is not refused |
| Replay | `replay.py`, `offline_projection.py`, `offline_run.py` | a second run directory | `verify_replay_equivalence` | the journal alone reconstructs the store |
| Receiver | `offline_receiver.py`, `tools/run_offline_receiver.py` | sockets, used sessions, the active session, a lock | `_connection`, `process_batch`, replacement, close | one batch at a time, an ACK only for what is stored and confirmed, at most two sockets |
| Session protocol | `offline_protocol.py`, `ext/offline/protocol.ts` | stage, counters, nonces | `accept`, `send`, `verify_frame` | both ends agree on the order and the number of frames |
| Spool | `ext/spool.ts` | IndexedDB: entries and one state row per stream | `append`, `persistVerifiedAck`, `exportRetained` | nothing lost or duplicated by racing instances, the ACK never past the log or back |
| Loopback client | `ext/security/loopback.ts` | session, pending batch, inbox, retry clock | `connect`, `flushPending`, `close` | every spooled record is sent until it is acknowledged, or the flush fails with an error |
| Worker, bootstrap | `ext/offline/bootstrap.ts` | a worker and its command queue | PIPELINE, FLUSH, terminate, restart | a restart keeps the spool |
| Coherence controller | `coherence.py`, schema triggers, `tools/gap_coherence_crash_child.py` | controller row, epochs, shocks, proofs, transitions | shock, wait, candidate, release | nothing is released across a shock |
| Clock mapping | `clock.py`, `clock_vectors.py`, `clock_precedence.py`, `ext/contracts/` | mappings and their closures | derive, store, validate, select, close | the interval contains the true offset; no mapping is used again after its closure |
| Authorization records | `authorization_semantics.py`, schema triggers | revocation ledger, consumptions | evaluate, consume | acted on once, never past a revocation or a lease |
| Review authority | `tools/bootstrap_review_authority.py`, `issue_review_launch_authorization.py`, `prepare_review_workspace.py`, `finalize_review.py`, `aggregate_reviews.py`, `moj_discovery/review_authorization.py`, `review_aggregation.py` | key, one-use database, workspace, namespace socket, result, receipt, aggregate | bootstrap, issue, prepare, execute, finalize, aggregate, revoke | work only on a burned serial; a receipt stands for one finished run; revocations are honoured |
| Crash campaigns | `tools/run_loopback_ack_crash_matrix.py` (with `run_browser_handshake`), `run_sqlite_crash_matrix.py`, `inspect_restart_state.py`, `run_gap_coherence_crash_matrix.py`, `qualify_chrome_indexeddb.py` and their children | one case: child, database or spool, witness, checkpoint | launch, wait, kill, reopen, read, recover, compare | honest runs pass, mutated ones do not, a pass was a crash, every case ends |
| Run destruction | `tools/destruction_support.py`, `destruction_crash_child.py`, `run_destruction_crash_matrix.py` | consumption row, external artifacts, both stores | `execute`, recovery | a proof only when everything is gone; resumable anywhere |
| Repair evidence | `tools/verify_repair_evidence.py`, `owner_mutation_evidence.py`, `run_full_repair_qualification.py`, `verify_full_repair_qualification.py`, `retained_artifact_io.py`, the owners' matrices | working tree, build, owner directories, aggregate, retained copies, proofs | claim, run owners, validate, retain, prove, verify | a proof was earned on one tree by one campaign |
| Generation controller | `generation.py` | none (pure) | replace after a gap, capacity decision | agrees with the SQL and the spool |
| Governance documents | `governance.py`, `review.py` | none | verify signed documents and registries | functions of files |
| Canonicalisation, redaction | `canonical.py`, `ext/canonical.ts`, `ext/security/redaction.ts`, `synthetic_source.py` | none | pure functions on bytes | both languages agree |
| Static gates, toolchain checks | `pack_verifier.py`, `universal_denial.py`, `tools/verify_toolchains.py`, `verify_local.py`, `assemble_review_pack.py` | files of a pack | hash, schema and inventory checks | functions of files |

The parts meet like this.  The worker appends to the spool (one IndexedDB transaction per
write); its client reads pending records, sends a BATCH frame and stores the ACK in the
spool.  The receiver's handler takes the batch under a lock and, for each observation,
writes the raw file and a RECEIVED line, applies the observation to the store, writes the
OUTCOME line and, at the end, confirms the ACK in the store and in the journal before it
answers.  The journal and the store are files without a common transaction; the spool and
the receiver are different processes; the database of the spool is shared by worker
instances; the store's controller row is written by ingest and by recovery tools.  The crash
harnesses own such processes, kill them and compare what is left with an oracle; the evidence
campaign runs the harnesses and judges the files they leave; the review authority lets two
roles run commands over a sealed pack, each on an authorization consumed before.

What is hard about it: crashes between two durable effects, also during a recovery;
redelivery of what is on record; ACKs lost, late or repeated; a second connection replacing
the first; two spool instances writing from stale snapshots; a gap closing a generation
while deliveries for it are on their way; a tool that writes from an old reading of the
controller; a kill that races the exit of the process it is for; files that change between
the check and the use; a revocation between two steps of a launch; clocks that restart in the
middle of an exchange.  `hazards` in PROJECT.json lists each at its line with the properties
that cover it.

## 2. Modules

| Module | Stands for | Used by |
|---|---|---|
| `IngestOps` | the transactions of `Ingestor` as functions on the store's rows (`Verdict`, `ApplyDb`, the gap, the confirmation, the late repair) and the validators that read them | `Ingest`, `InputJournal` |
| `Ingest` | the store as a state machine: any transaction, any order | `MCIngest`, `InputJournal` (its `db`), `IngestProofs` |
| `InputJournal` | the receiver process with journal, raw files and store, one durable effect per step; crash and `reconcile` | `Replay` |
| `Replay` | `verify_replay_equivalence` as a recursive function over the journal's rows, and the properties that compare its result with the live store | `MCReplay`, `JournalProofs` |
| `SpoolLog` | what the spool promises: one log, one advancing ACK | refined by `Spool` |
| `Spool` | instances of class `Spool` over one database: snapshot and compare-and-swap | `MCSpool`, `StoreProofs` |
| `Session` | several ends that hold one credential; frames repeated, delayed, mixed | `MCSession`, `LoopbackProofs` |
| `DeliveryLog` | what delivery promises: spooled, stored, confirmed, acknowledged, in that order | refined by `Delivery` |
| `Delivery` | flush loop, connections, handlers, replacement, crashes | `MCDelivery`, `LoopbackProofs` |
| `CoherenceTable` | the transition table of `coherence.py` | refined by `Coherence` |
| `Coherence` | the SQL guards on controller, epochs, shocks, proofs and transitions, under racing writers | `MCCoherence`, `StoreProofs` |
| `Clock` | one clock mapping from the four timestamps to the selected row, over clocks that restart | `MCAuthority`, `AuthorityProofs` |
| `Authorization` | judging, consuming and acting on one-use records, with revocations, reboots and a wall clock set back | `MCAuthority`, `AuthorityProofs` |
| `Review` | every host command of a review launch, one step per access to shared state | `MCReview`, `AuthorityProofs` |
| `CrashMatrix` | the process-crash campaigns of the backend and gap matrices: harness, child, database, oracle | `MCCrashMatrix`, `CrashProofs` |
| `Handshake` | the browser crash campaign: worker, receiver, spool, journal, readers | `MCCrashMatrix`, `CampaignProofs` |
| `BrowserProbe` | the qualification of the browser, by both transports | `MCCrashMatrix`, `CampaignProofs` |
| `Destruction` | the steps of `execute` and of recoveries, with kills and replaced plans | `MCCrashMatrix`, `CampaignProofs` |
| `Evidence` | the full repair campaign, its judgement and its two proofs, while files change | `MCEvidence`, `EvidenceProofs` |
| `IngestProofs`, `JournalProofs`, `StoreProofs`, `LoopbackProofs`, `AuthorityProofs`, `EvidenceProofs`, `CrashProofs`, `CampaignProofs` | the theorems (`JournalProofs` rests on `IngestProofs`, `CampaignProofs` on `CrashProofs`) | |

**Ingest.**  A database is a record of sets of rows.  The five rows that one applied
observation writes (raw commit, application, reducer revision, reducer cursor, outbox ACK)
are one row of `chain`, because the transaction writes them together; a cursor hash is the
sequence of bodies it commits to.  `Verdict` is the order of early returns of `apply`;
`ApplyDb` is what the transaction leaves.  `confirm_ack` and `store_late_repair` are
actions; so is closing the run.  `Ingest` lets any observation arrive at any time; the
guard of every SQL trigger that an operation can meet is in the operation.  `ValidJournal`
is `validate_journal` and `GapRelations` the relations the crash harness demands; no
transaction calls them, that they never refuse is part of `HistoryKept`.

**Journal and replay.**  `pc` names the point in `process_batch` or `reconcile`; every
durable effect is one step and a crash may come at each name in `CrashPoints`.  What
is left of a row whose write broke off is `torn`: bytes every row begins with (canonical
JSON, `{"`), bytes every row of its kind begins with, or more (`Parts`; `Cuts` says which of
the three can happen).  `reconcile` renames a torn journal to an artifact named by the digest
of its bytes (`retained`) and writes the complete lines back and a PARTIAL_TAIL row; when an
artifact of these bytes is there already it raises E_OFFLINE_PARTIAL_ALREADY_RETAINED instead
(`StartRefused`; `REFUSED` is final, as every later start reads the same files).  `OnDisk` is what a process that starts now would recover:
the journal, or the complete prefix while a rename is half done.  The fault
`SQLITE_DENY_THIRD` makes the third raw commit fail.  `acked` is a history of ACK frames
handed to the socket.

**Spool.**  An instance has a queue of calls (`serializeWrite`); the head is `QUEUED`, then
in `WRITE` with the snapshot it read; the transaction compares the state row with the
snapshot and either writes or fails, after which an append looks once more (`RECHECK`)
whether its observation has been retained by somebody else.  `Terminate` drops an instance's
calls at any moment.  `returned`, `refused` and `writer` are history.  The cursor hash is the
prefix of identities.

**Session.**  All ends have the same key, so the MAC says only that some holder sent a
frame.  Any frame ever sent may reach any end, any number of times; nonces are distinct.

**Delivery.**  Composes the spool (by its length and ACK), the store (by its stored and
confirmed positions, which `Ingest` and `InputJournal` justify) and connections.  HELLO,
WELCOME, READY, READY_ACK are one frame each way, since `Session` has the four.  A batch
is processed in one step: `process_batch` holds the lock and awaits nothing in between;
`StoreAfterCrash` is what a crash inside it and the `reconcile` after it may leave.
Connections are slots, used again when both ends are gone.  `retried` is
`retryStarted !== undefined`.

**Coherence.**  The recovery operations of `gap_coherence_crash_child.py` SELECT the
controller before their transaction begins, so each writer has a reading `seen[w]` that may
be arbitrarily old; the ingest store reads inside BEGIN IMMEDIATE and has none.  A refused
operation rolls back and is no step.  The row names the tool uses once (`epoch:1`,
`proof:1`) become fresh names, an epoch's name is its generation; the three clock mappings
of a proof are one; timestamps, hashes, run and fixture columns are left out.
`EvaluatorReleases` is what `evaluate_release` asks of the rows, `Related` what the crash
harness asks of a logged transition.

**Clock.**  The clocks are external: a clock shows a value at most its resolution behind the
true one and may restart between any two timestamps; each boot has a base.  `Alter` changes a
stored row in a way the table's CHECKs allow.  `Select` sees rows that survived
`validate_stored_mapping`, as `ClockMapper.select` is given them.

**Authorization.**  A record is its content; static failures (hash, key, signature, audience)
are one field `flaw`.  The supplier of the revocation records may offer the ledger, a prefix, the ledger with
an entry missing, forged or repeated.  The evaluator has no caller in the package but its
vectors, so the process that judges, consumes and acts in this order is external and follows
the `consumed_before` of the contract.

**Review.**  A process runs one command, one step for every read or write of shared state
(one-use database, sealed inputs, clock, boot, revocations, result, workspace, receipt).  The
broker owns a role's namespace and leaf commands; the human writes the result, attests,
revokes.

**CrashMatrix, Handshake, BrowserProbe.**  `CrashMatrix` builds each of the 40 registered cases
from a sequence of statements (a store abstracted to row counts, generations, cursors and
controller), kills the child at the registered boundary and compares with the oracle
that the harness writes down on its own.  A kill during a commit leaves either database.
`Handshake` has the eleven browser cases; `BrowserProbe` the sentinel write, group kill and
read-back.  All three let the owned processes stall and die on their own.

**Destruction.**  One case is one checkpoint and one plan.  `immutable_json` is two steps,
because the file exists under its final name before it has its bytes.  A kill may fall
anywhere; a recovery goes through `execute` again, under the plan that is there then.

**Evidence.**  A working tree is one value, and a binding is the tree it was captured from.
Runners execute owners, validate, retain and prove; a verifier proves again later.  Edits,
builds, prerequisites that go away, altered files and deaths come in between.

## 3. What is checked

| Run | Instance | Distinct states | Shows |
|---|---|---|---|
| `ingest` | 2 streams, 2 bodies, sequences to 2 | 18,764 | linked chains, a history the validators accept, atomic loss of continuity, one active generation, frozen generations |
| `replay` | 1 stream, 2 bodies, sequences to 3, 3 deliveries, 2 crashes, with and without the fault | 2,606,171 | journal and store agree at every instant, evidence behind ACKs, a process that listens is complete, a recovery is refused only after one that died half way, replay reaches the same store |
| `spool` | 2 instances, 3 identities of two sizes, limit 2, 2 calls each | 535,166 | the CAS is a log; returned is retained; only others make a snapshot stale; a retained record is never refused |
| `session` | 2 clients and 2 handlers on one credential | 13,560 | one conversation per credential, frames in order and once |
| `delivery` | 2 records, batches of 2, 2 connections, 2 faults, denial at 2 | 332,322 | the client only stops for honest reasons, the stages refine `DeliveryLog`, everything spooled is acknowledged or the client has stopped |
| `coherence` | 2 writers, 2 streams, 3 shocks, epochs to 3 | 658,906 | no closed epoch returns, candidates answer the active shock with later evidence, transitions follow the table |
| `review` | 2 roles, 2 authorizations, 2 processes, 2 commands, 1 fault | 1,515,458 | work on a burned serial once and in order, honest receipts and aggregates, revocations honoured |
| `crash_matrix` | 40 process cases with mutations, 11 browser cases, both browser transports, all destruction checkpoints with 3 kills | 10,450 | no false alarm, all or nothing, a pass was a crash, deletion accounted, destruction resumes, campaigns end |
| `evidence` | 4 trees, 2 runners, 1 verifier, 2 events | 2,836,962 | a proof is earned on one tree by one campaign, a rejection has a reason |
| `authority` | one clock pair with a restart each, 2 mappings; 4 records, 2 verifiers, 1 reboot, 1 revocation | 724,633 | bounded offsets, closed mappings stay closed, one act per record, no hidden revocation, no stretched lease, evaluator and trigger agree |
| `rename_window`, `closed_candidate` | small | | two disagreements of section 5 |

All runs but `spool` and `ingest` turn deadlock checking off: the bounds (or the end of a case, or a
stopped client) end the behaviours.  Each property of a passing run has a mutant: the
model with one plausible bug in a mapped definition, for which TLC finds the property
violated.  The mutated forms stand before the definitions they replace.

`crash_matrix` and `authority` hold components that share no state: one moves, the others stay
in one initial state, so that every component is explored in full and none multiplies another.

*Bounds.*  Two bodies per position are enough for every verdict: redelivery, conflict, gap
before and after a first record, late repair, in one stream and beside another.  Three
deliveries and two crashes allow a redelivery of what closed the generation and a crash of
the recovery of a crash, also in the write of the PARTIAL_TAIL row at the bytes of the first
tear, which makes the second restart end in `REFUSED`.  `replay` cuts rows at their opening or
beyond what they share with others (`Cuts` without `KIND`: two rows of a kind torn at common
bytes need, as rows torn at the opening do, an unrecorded artifact); the theorems hold for
any `Cuts`, and `rename_window` has all three.  In the spool, two calls per instance are a running one and one
behind it, the limit admits two small records or the large one, so capacity refusals and
repeated appends at the limit happen.  In `Delivery`, two connections are one replaced by the
other, and slots are used again; two faults are, for instance, a reset and a receiver crash;
three records were checked once (764,000 states, no error) and are too slow to keep.  Three
shocks are: one that closes an epoch, one that closes the candidate, one after it.  Three
kills let two recoveries die as well.  In `Review` the one fault is a tick of the clock, a kill, a
timeout, a reboot, an edit, a revocation or a replaced result, so two of them never meet.  In
`Evidence` two events are any two of edits, outages, alterations and deaths; builds
are free.  The bounds of `authority` are small because all its properties are theorems.

*Symmetry* is used for streams, bodies, instances, clients, handlers, writers, processes, roles, runners and
verifiers where the specification does not tell them apart, and never in a run with a liveness
property.

*Fairness.*  `Delivery`: event loops run what is ready (weak fairness of the client and of
each handler), TCP delivers what was sent or reports the close (weak fairness of the
network), and the retry loop ends 30 seconds after the first error since a batch succeeded
(`loopback.ts:145-148`; strong fairness of `GiveUp`).  No timer has to fire and nobody has
to restart a worker or a receiver.  Crash campaigns: only the harness process runs on, its
deadlines are part of it; nothing is assumed of the processes it owns.  `Destruction`: a
process goes on until it ends, and the crash matrix kills the process that waits at its
checkpoint and starts the recovery.  `Coherence` (only for `closed_candidate`): writers keep
reading and trying, deliveries keep coming, shocks are not owed.  The other runs assume none.

## 4. What is proved

The theorems hold for every value of the constants under the assumptions the modules declare:
limits and bounds are natural numbers, the size of an observation is positive, a batch has
room for a record and a review for a command, there is a stream, "no value" is none of the
values, records have the fields of their type, no process is a runner and a verifier, the
cases and mutations of a crash campaign are among the registered ones.  One hypothesis is not
of that kind and stands in the theorems it belongs to: `"RENAMED" \notin CrashPoints` in
`JournalProofs`.

`IngestProofs` (all properties of `ingest`)
- First, facts about the transactions of `IngestOps`, for any database; `JournalProofs` uses
  them too.
- `TypeOK` is inductive once it is known that the highest sequence of a generation is one of
  its rows or 0 (`HighestIsGreatest`: a bounded set of naturals has a
  maximum).  `ChainLinked` is inductive beside `TypeOK`: only `Apply` adds to the chain, and
  the row it adds continues the highest one (`NextRowLinked`).  `ContinuityLossAtomic` is
  not inductive alone: it does not say that the first generation exists, nor that the second
  one is still active while the run is open.  `GenerationStates` adds both, and
  `LossOfGenerationZero` then shows that continuity can only be lost in generation 0 and
  before any other loss.  `OneActiveGeneration` follows from the same invariant.
- `HistoryAlwaysKept`: `HistoryInv` adds `Kept`: confirmations are numbered without holes and
  linked, what is closed has its gap or its run, a conflict is about one position, no ACK
  passes a gap, and a late repair is history.  From it both validators accept
  (`JournalIsValid`, `GapsAreRelated`) and every chain is complete (`ChainIsComplete`).
  `ClosedGenerationsFrozen` is the action property over the same invariant.

`JournalProofs` (all properties of `replay`)
- `JournalInv` says of the rows a process started now would recover (`OnDisk`) and of the
  store, at every point of `process_batch` and `reconcile`: receives are numbered, each has at
  most one outcome, the outcome is what the store did (`Matches`), what the store did has its
  receive and raw file (`Evidence`), an acknowledged position has its outbox row, outcome and
  confirmation (`Backs`), and the store may lack only the delivery in work (`Control`).  The
  properties alone are not inductive: none says which single delivery may be half done at
  which `pc`.  From it `JournalIsEvidence`, `AcksHaveEvidence`, and `ListeningIsComplete`: a
  recovery skips nothing and can finish every receive it comes to.  The last part of that
  property needs `TailsInv` as well: an artifact with a PARTIAL_TAIL row holds fewer lines
  than the journal, so a torn journal can equal only an artifact whose recovery died before
  its row.  Such a journal is refused for good (section 5, item 12); that every recovery gets
  to listen is not claimed, and is not so.
- `ReplayReconstructs`: `ReplayInv` keeps, beside `JournalInv`, what the replay of the rows
  gives at every instant: the store, or the store once the delivery without an outcome is
  applied (`Alike`).  A new row extends the recursive function `ReplayOf` by one step
  of `ReplayRow`.
- All under the hypothesis that no crash comes between the rename of the journal and the end of
  the rewriting.  It is needed: `rename_window` is the counterexample.

`StoreProofs`: spool (all properties of `spool`)
- `SpoolImplementsLog`: the racing snapshots and transactions refine `SpoolLog`; with
  `ReturnedAlwaysRetained`, `OwnWritesNeverConflict`.  The inductive
  invariant is `TypeOK`, `QueueInv` and `StoreInv`.  `QueueInv`: only the head of a queue is in
  work, what a call in `WRITE` is about to store fits the snapshot it read, and that snapshot
  differs from the present state only when another instance was the last writer.  `StoreInv`:
  sequence, cursors and ACK fit the rows, the counted bytes are within the limit, and what was
  returned is there.  Without the part about snapshots a commit could not be shown to append
  at the end of the rows.
- `SpoolAlwaysValid`, `RetainedIsAnswered`: `BytesInv` adds that the counted bytes are the sum
  over the rows, a recursive function whose unfolding is proved by induction on a set of naturals.  Then every
  snapshot passes `validate`, so the second look of a failed append finds what was retained.

`LoopbackProofs`: session (both properties of `session`)
- `SessionInv`: counters count the frames (`CountersCount`); an end that knows its peer's nonce
  knows how far that peer has come and that it knows the same pair (`ClientNonces`,
  `HandlerNonces`); what a sent frame says of its sender is true and stays true
  (`AllTruthful`); everything an end has accepted was sent by the one end it knows
  (`OneSource`); one handler answers a credential (`OneHandler`).  Hence `FramesInOrderOnce`
  and `CredentialConversesOnce`, for any number of ends and any frames repeated, delayed or
  mixed.

`LoopbackProofs`: delivery (the safety of `delivery`)
- `DeliveryInv`: the four positions are ordered (`LogOrder`), what is in work or on a wire was
  offered (`AllOffered`), a connection speaks HELLO first, and what each phase of client and
  handler implies (`Phases`).  `HonestStops`; `DeliveryImplementsLog`: every step of client,
  network, handler and crash is a step of `DeliveryLog` or none.

`StoreProofs`: coherence (all properties of `coherence`)
- The schema compares no times and no order of generations, so the argument needs a number:
  `Frontier`, the youngest generation a stream may have, is the current epoch while the
  controller is open and one more while it is closed.  Every number up to the current epoch
  has named an epoch, and a name is given once; so a candidate can only be the successor
  (`CandidateIsNext`), its cursor lies beyond everything that was there before the shock
  (`EarlyIsOld`), and closed epochs lie behind (`ClosedBehind`).
- `ClosedNeverReturns`, `PendingAlwaysAnswers`, `ControllerFollowsTable` (the triggers
  implement `CoherenceTable`), and `ClosedCandidateStays`: after a candidate was closed its
  successor has a name and cannot be a candidate, so the controller waits for ever.  This is
  the general form of the `closed_candidate` run.

`AuthorityProofs`: clocks and records (all properties of `authority`)
- `OffsetTheorem`: each timestamp lies within its resolution of the true value of its boot and real
  times are ordered, so whatever was judged with equal boots on both sides has an interval
  around the true offset (`ExchangeBounds`); an altered row keeps its exchange, from which
  validation recomputes it.  `ClosedTheorem`.
- `ActedOnceTheorem`, `RevocationTheorem` (an offer that meets the checkpoint is the ledger:
  `OfferIsLedger`), `LeaseTheorem` (the monotonic clock of the first boot is real time, any
  other boot is untrusted), `GuardTheorem`.

`AuthorityProofs`: review (all properties of `review`)
- `ReviewInv` has one part per kind of state.  `Knows`: what a process has checked and may still
  rely on at its step (a burned serial, a finished run, two receipts that fit).  `Wary`: a
  process that started after a revocation of its launch is before the check that reads it.
  `Working`: the commands of a role ran in order under the authorization that owns scratch and
  broker, and their number fits the broker's position.  `Preparing` and `Writing`: one process prepares
  a role, one writes the receipt it created.  `ReceiptTrue` and `Joined`: what a receipt and an
  aggregate stand for.  What a process knows outlives the steps of all others because what is
  issued, burned, revoked, run or signed stays so (`Grows`): every action is shown to let these
  things only grow, and `OthersKnow`, `WorkingLasts`, `ReceiptLasts`, `AggregateLasts` conclude.
- `RevocationIsHonoured`, `WorkIsOnBurnedSerial`, `ResultsAreHonest`, with any number of faults
  and revocations, where the run has one.

`EvidenceProofs` (both properties of `evidence`)
- `ProofsAreEarned`: `EarnedInv`.  No owner compares everything it read with everything else, so
  what a proof says of the tree has to come from the order of the readings.  While no edit is
  undone, a tree that is there again was there all the time: if the first binding, SQL's, is the
  tree of now, everything captured or run since was that tree (`Chron`); a judgement that captured
  the same tree freezes this (`Frozen`).  Beside it: what was recorded as passed ran right on the
  tree it ran on (`RanRight`), the cache of compiled modules holds what it compiled (`Caching`),
  the first round of controls is still known in the later rounds (`ControlsPassed`), the directory
  has one campaign (`Roled`), and what is retained refers to that campaign (`Retained`, `Proved`).
  The two properties alone say nothing of a campaign that is still running.
- `NobodyIsRejectedForNothing`: `CalmInv`.  As long as nobody interferes, each stage leaves what the
  tree gives (`Left`), so every later comparison finds what it expects, in memory (`FullAt`), in the
  campaign's files and in the retained set (`Settled`).
- Both hold for any number of verifiers, where the run has one: with two the loser of the race for
  the P04 proof is rejected, which is the exception in `RejectedForReason`.

`CrashProofs`: the process campaigns, for any subset of the registered cases and mutations
- What the transactions leave.  Every store a case comes to is written as one record `DB(rows,
  generations, tops, controller, revision, log)`; what each statement, each transaction and each
  recovery makes of such a record is computed once, for any rows and any log (the effects).  A
  transaction is a recursive function of its statements (`RunTo`), so its effect is reached
  statement by statement.
- What the harness says to it.  For each registered case the store before its transaction and
  the one after it are computed, and recovery is shown to end in the same store from both.  The
  oracle counts, the snapshot views, `_validate_state_evolution` with its replay of the
  controller (`ReplayTo`) and `_validate_recovery` then agree with what was computed
  (`BackendFamily`, `Honest`); each campaigned mutation differs from it.
- Where a case is.  `CrashFacts`: types, what the child has executed where it stands
  (`ChildAt`: `work` is the store after `step` statements, and it pauses exactly before the
  registered one), and what the harness may have read by then (`HarnessAt`).  The properties
  alone are not inductive: they speak of `before`, `after` and the verdict, and say nothing of
  a child that is still inside its transaction.  `CaseUndisturbed` adds what holds as long as
  nothing stalled or died on its own: each check of the harness is met by what it finds.
- `HonestCasesAlwaysPass`, `CrashLeavesAllOrNothing`, `PassAlwaysMeansCrashed`.

`CampaignProofs`: destruction, browser, and the campaigns together (the safety of `crash_matrix`)
- `DestructionAlwaysAccounted`, `OnlyTheConsumedPlan`.  `Established` says which fact holds
  from which step on (the plan, the row, the copy, the intent, the pending status); each
  survives kills and recoveries because artifacts are never removed and stores never return.
  `SidecarsGone` is needed because the proof is written on the absence of database and browser
  store alone.
- Qualification: `ProbeInv`.  The records of the harness and the browser move in step
  (`RecordsInStep`), a page keeps the module it loaded (`ModuleLasts`), and while nothing went
  wrong every answer shows the sentinel and the prepared module (`ProbeUnharmed`).
  `ProbeQualifiesTheDurable`, `ProbeRejectsForCause`.
- Browser campaign: `HandshakeInv`.  What is durable wherever the worker and the receiver have
  come (`StoresKnown`), one request at a time (`Waits`), a worker that is to be stopped goes to
  its boundary and no further (`Contained`), where both stood when one was stopped (`StoppedAt`),
  and stores that were seen whole stay whole (`SeenWhole`).  `HandshakeUndisturbed` describes, by
  the task of the harness, stores, wire records and readings while nothing failed.
  `HandshakeDurableInOrder`, `HandshakeVerdictsHold`.
- `NoCampaignFailsHonestRuns`, `CampaignCrashesAreAtomic`, `CampaignPassWasACrash`,
  `CampaignsAccountForDestruction`: the
  invariants of the run, from the conjunction of the four; a step of one campaign is a stutter
  of the others.  The run takes every registered case; the theorems hold for any subset.

Only model-checked: liveness (`Settles`, `Resumes`, `CampaignsEnd`), because temporal logic
with fairness is beyond the prover.  Every invariant and every other action property and
refinement that a passing run checks is the subject of a theorem.

## 5. Where code and documents disagree

As runs, with their findings in PROJECT.json:

1. `rename_window`: `reconcile` renames the journal and writes the complete lines back
   afterwards.  After a crash in between the next start sees no journal, or part of one, and
   takes it for the whole; evidence behind ACKs already sent is only in the `partial-tail`
   file nobody reads.  The `replay` run takes every crash point but this one.
2. `closed_candidate`: the crash-harness registry promises a new candidate after a shock
   closed one; the schema admits a proof only for a shock that was logged as
   SHOCK_ATOMIC_CLOSE, which that shock never is.  `ClosedCandidateStays` proves it.

Stated in a property or a definition, met while modelling:

3. `reconcile` finds the outcome of an unfinished receive by content hash
   (`input_journal.py:365`).  If the receive is a redelivery of the observation that closed
   the generation, the recovered outcome is GAP (or CONFLICT, or APPLIED) where `apply`
   answers CLOSED_GENERATION, and `replay.py:46` raises E_OFFLINE_REPLAY_OUTCOME.  Adding
   `RecoveredOutcomesReplay` to `MCReplay.cfg` shows it.
4. The confirmation is committed in the store before its journal line
   (`input_journal.py:298`); after a crash between them nothing writes the line, and the
   replayed store lacks the confirmation.  `ReplayStoreEqual` shows it.
5. A kill inside `immutable_json` leaves half a file which every recovery refuses, although
   the registry (`:1446`, `:1575`) says that the intent and the proof are then written: the
   exception in `Resumes`.
6. The gap harness refuses a reachable store in which a proof's mapping was closed after the
   proof had done its work (`run_gap_coherence_crash_matrix.py:671`): the exception in
   `HarnessAccepts`.  It also leaves a live child behind when the checkpoint is missing
   (`:994-995`, no finally), where the backend harness does not
   (`inspect_restart_state.py:207-212`): `NothingLeftBehind` speaks of the backend only.
7. An exchange of odd width is ACCEPTed with the rounded-up uncertainty
   (`clock_vectors.py`), and the CHECK `offset_upper = offset_lower + 2 * base_uncertainty`
   then refuses the row: `Derive` stores only what `ValidateMidpoint` admits.
8. `finalize_review.py:186` does not compare the authorization of the attested namespace run
   with the one it finalizes, against contract 05 ("the host-issued execution chain"):
   `ReceiptOfOwnRun`, in no run, does not hold.  A crash between the two key writes of the
   bootstrap, or inside a receipt, blocks every later attempt.
9. By the pipe, when the Node owner exits first (`chrome_pipe.cjs:56-63`) the clean-up raises
   (`qualify_chrome_indexeddb.py:771-772`), masks the first error and leaves the browser's
   group alone; by the legacy transport a second browser that cannot start is reported as a
   blocked environment.
10. A standalone destruction matrix captures its binding after running (`:268`), so an edit
   during its case goes unnoticed; only the full campaign detects it, and an edit that is
   undone before anybody looks is detected by nobody (`undone` in `Evidence`).
11. The trigger wants a previous hash in every revocation row, the evaluator none in the
   first; the evaluator does not see a receipt identity used twice, only the trigger does
   (`GuardAgreesWithEvaluator` states the exception).
12. A recovery can be refused for ever.  A row torn at its first bytes is retained, and a death
   in the write of the PARTIAL_TAIL row at the same bytes (`{"` for all rows) leaves a file with
   the digest of that artifact; `reconcile` raises E_OFFLINE_PARTIAL_ALREADY_RETAINED
   (`input_journal.py:341-342`), then and at every later start.  The check keeps an artifact
   from being overwritten by an equal one.  `StartRefused` fires in `replay`, and
   `CompleteWhenListening` states that it takes an earlier recovery that died before its row;
   the other properties of the journal hold in `REFUSED` as well: the evidence stays on disk.

## 6. What is not modelled

- Ingest: LIFECYCLE and GAP observations (the code raises ContractNotImplementedError);
  SQLite and OS errors other than the injected denial; closing a run with receives open;
  `bootstrap_v1` (a crash between the file and its DDL, `store.py:99`, leaves an empty
  database every later start refuses).
- Journal: tampering checks; repair by hand of a refused journal; the injected faults that only kill or drop where the model
  crashes or loses anyway.
- Receiver and client: PING, STOP, frame sizes, the inbox limit, the ten-minute limits,
  exhaustion of credentials.  `close()` of the client comes through the worker's command
  queue and never during a flush.
- Coherence: the flags and state fields `evaluate_release` takes from outside.  No code of
  the package reopens a controller after a gap; only the crash child does.
- Clock: `compute_drift`, `verify_clock_observation`, the INT64 guard (integers are
  unbounded), the TypeScript twin.
- Authorization: the contents behind `flaw`; a revocation that comes after the judgement is
  not looked up at consumption, in the code as in the model.
- Review: contents of measured files and commands, `build_plan_self_review`, rotation of the
  trust epoch, reading of the prior attestation.
- Crash campaigns: identities, provenance and hashes of the records; setup deliveries and
  recovery transactions are atomic; mutations of browser cases are in `Evidence`.
- Destruction: contents of the plan; a deletion of the browser's store blocked by another
  connection; writers to the stores while they are destroyed.
- Evidence: one case and one mutated trial stand for an owner's; the two browser owners are
  merged; clock rows that are NOT_IMPLEMENTED; the
  check of the retained TypeScript executable of a clock case
  (`run_clock_vector_qualification.py:360-370`, `:389`), without which the model admits more.
  The inventory is opened and then written (`run_full_repair_qualification.py:261-262`), one
  step here: a verifier that reads it half written ends as one that finds none.
- Governance documents, generation controller, canonicalisation, redaction, static gates,
  toolchain checks, the browser authority of the extension: functions of bytes or files, or
  contracts that throw, without state that interleaves with anything.

## 7. What is left

Models: rotation of the trust epoch and `build_plan_self_review` in `Review`; a second fault
in its run; `compute_drift`.  Proofs: liveness stays with TLC.  What the run shows of the four
campaigns side by side is proved; the mutations of the browser cases, which `Evidence` has as
one mutated trial, would be the next thing to model.
