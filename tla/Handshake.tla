------------------------------ MODULE Handshake ------------------------------
(***************************************************************************)
(* The browser crash campaign (run_browser_handshake): a dedicated worker   *)
(* of the extension spools one observation, sends it to a loopback          *)
(* receiver, persists the acknowledgement and confirms it.  The harness     *)
(* stops the worker or the receiver at the registered boundary, restarts    *)
(* the receiver, reads both stores, lets a recovery worker finish, reads    *)
(* again and verifies what it kept.                                         *)
(*                                                                         *)
(* Both stores are abstracted to the one position they are about: the spool *)
(* to its row and its acknowledgement, the journal to the commit and the    *)
(* confirmation.  A worker, a receiver and a wait of the harness may fail   *)
(* anywhere.                                                                *)
(***************************************************************************)
EXTENDS Naturals, FiniteSets

CONSTANTS
    Cases,     \* the registered cases of this instance
    Nothing    \* no value

ASSUME NothingAssumption ==
    /\ Nothing \notin {"PASS", "FAIL", "BLOCKED_ENVIRONMENT", "crash", "deliver", "recover",
                      "/ingest", "/confirm"}
    /\ Nothing \notin [worker : {"/ingest", "/confirm", "failed"}, receiver : {"held"},
                       path : {"/ingest", "/confirm"}]

VARIABLES
    entry,     \* the case that runs
    task,      \* where the harness stands
    outcome,   \* what it concluded
    worker,    \* the worker: what it does, where it is, which receiver it knows
    spool,     \* IndexedDB, as committed: the row and its acknowledgement
    receiver,  \* the receiver: which one it is, where it is in a request
    request,   \* a request sent and not yet read
    journal,   \* SQLite, as committed: the commit and the confirmation
    wires,     \* the wire records: receiver, serial, path
    sighting,   \* what the receiver saw at its boundary
    earlier,   \* what the readers saw before the recovery
    later,     \* what they saw after it
    stopped,   \* history: where both were when the harness stopped one
    upset      \* history: something failed or stalled on its own

handshakeVars == <<entry, task, outcome, worker, spool, receiver, request, journal, wires,
                   sighting, earlier, later, stopped, upset>>

-----------------------------------------------------------------------------
(* The registry: kill action, and what a restart must find.                 *)
Expect(kill, rows, ack, committed, confirmed) ==
    [kill |-> kill, spool |-> [rows |-> rows, ack |-> ack],
     journal |-> [committed |-> committed, confirmed |-> confirmed]]

Registry ==
    [idb_01_before_transaction              |-> Expect("WORKER", 0, 0, 0, 0),
     idb_02_during_sequence_allocation      |-> Expect("WORKER", 0, 0, 0, 0),
     idb_03_during_row_put                  |-> Expect("WORKER", 0, 0, 0, 0),
     idb_04_after_commit                    |-> Expect("WORKER", 1, 0, 0, 0),
     send_01_after_send_before_backend_begin |-> Expect("RECEIVER", 1, 0, 0, 0),
     ack_01_before_extension_ack_transaction |-> Expect("WORKER", 1, 0, 1, 0),
     ack_02_during_extension_ack_transaction |-> Expect("WORKER", 1, 0, 1, 0),
     ack_03_after_extension_ack_transaction |-> Expect("WORKER", 1, 1, 1, 0),
     ack_04_before_backend_confirmation_commit |-> Expect("RECEIVER", 1, 1, 1, 0),
     ack_05_after_backend_confirmation_commit |-> Expect("RECEIVER", 1, 1, 1, 1),
     ack_06_duplicate_identical             |-> Expect("NONE", 1, 1, 1, 1)]

ASSUME CasesAssumption == Cases \subseteq DOMAIN Registry

Expected == Registry[entry]

Indexed == {"idb_01_before_transaction", "idb_02_during_sequence_allocation",
            "idb_03_during_row_put", "idb_04_after_commit"}

(* Where the worker stops and says so; the cases that are not named end     *)
(* without a stop of the worker.                                            *)
BoundaryEarly ==                              \* mutant: before the acknowledgement is put
    [idb_01_before_transaction |-> "opened", idb_02_during_sequence_allocation |-> "allocated",
     idb_03_during_row_put |-> "put", idb_04_after_commit |-> "spooled",
     ack_01_before_extension_ack_transaction |-> "acknowledged",
     ack_02_during_extension_ack_transaction |-> "acknowledged",
     ack_03_after_extension_ack_transaction |-> "persisted"]
Boundary ==
    [idb_01_before_transaction |-> "opened", idb_02_during_sequence_allocation |-> "allocated",
     idb_03_during_row_put |-> "put", idb_04_after_commit |-> "spooled",
     ack_01_before_extension_ack_transaction |-> "acknowledged",
     ack_02_during_extension_ack_transaction |-> "acknowledging",
     ack_03_after_extension_ack_transaction |-> "persisted"]

NoWorker == [op |-> Nothing, at |-> "gone", round |-> 1, to |-> Nothing, given |-> FALSE]
NoReceiver == [nth |-> Nothing, at |-> "gone", path |-> Nothing, serial |-> 0]

Halted ==
    worker.op # "recover" /\ entry \in DOMAIN Boundary /\ worker.at = Boundary[entry]

-----------------------------------------------------------------------------
(* The worker (indexeddb-crash-child.ts over spool.ts).                     *)

Moves(from, to) ==
    /\ worker.at = from /\ ~Halted /\ worker' = [worker EXCEPT !.at = to]
    /\ UNCHANGED <<entry, task, outcome, receiver, journal, wires, sighting, earlier, later,
                   stopped, upset>>

(* The append of a case of the spool, in the steps of its transaction.      *)
AppendStep ==
    /\ worker.op = "crash"
    /\ \/ Moves("begin", "opened") /\ UNCHANGED spool
       \/ Moves("opened", "allocated") /\ UNCHANGED spool
       \/ Moves("allocated", "put") /\ UNCHANGED spool
       \/ Moves("put", "spooled") /\ spool' = [spool EXCEPT !.rows = 1]
    /\ UNCHANGED request

(* The append of a delivery; a recovery appends when it finds no row, and   *)
(* fails when it was given no observation to append.                        *)
Append1 ==
    /\ worker.op \in {"deliver", "recover"}
    /\ IF spool.rows = 1 \/ worker.given
       THEN Moves("begin", "spooled") /\ spool' = [spool EXCEPT !.rows = 1]
       ELSE Moves("begin", "failed") /\ UNCHANGED spool
    /\ UNCHANGED request

Post(path, from) ==
    /\ worker.op # "crash" /\ Moves(from, path)
    /\ request' = [path |-> path, to |-> worker.to] /\ UNCHANGED spool

(* persistVerifiedAck, one transaction. *)
PersistAck ==
    /\ \/ Moves("acknowledged", "acknowledging") /\ UNCHANGED spool
       \/ Moves("acknowledging", "persisted") /\ spool' = [spool EXCEPT !.ack = 1]
    /\ UNCHANGED request

ConfirmUnpersisted == Post("/confirm", "acknowledged")  \* mutant: confirms too early
Confirm == Post("/confirm", "persisted")

(* The duplicate of the last case, and the end of a delivery. *)
EndRound ==
    /\ IF /\ entry = "ack_06_duplicate_identical"
          /\ worker.op = "deliver" /\ worker.round = 1
       THEN /\ worker.at = "confirmed"
            /\ worker' = [worker EXCEPT !.at = "spooled", !.round = 2]
            /\ UNCHANGED <<entry, task, outcome, receiver, journal, wires, sighting, earlier,
                           later, stopped, upset>>
       ELSE Moves("confirmed", "answered")
    /\ UNCHANGED <<spool, request>>

(* The receiver its request went to is gone. *)
Unanswered ==
    /\ \E path \in {"/ingest", "/confirm"} : Moves(path, "failed")
    /\ receiver.at = "gone" \/ receiver.nth # worker.to
    /\ request' = Nothing /\ UNCHANGED spool

Worker ==
    \/ AppendStep \/ Append1 \/ Post("/ingest", "spooled") \/ PersistAck \/ Confirm
    \/ EndRound \/ Unanswered

-----------------------------------------------------------------------------
(* The receiver (browser_server), one request at a time.                    *)

ReceiverUnchanged ==
    UNCHANGED <<entry, task, outcome, spool, earlier, later, stopped, upset>>

Receive ==
    /\ receiver.at = "idle" /\ request # Nothing /\ request.to = receiver.nth
    /\ receiver' = [receiver EXCEPT !.at = "received", !.path = request.path,
                                    !.serial = @ + 1]
    /\ request' = Nothing
    /\ ReceiverUnchanged /\ UNCHANGED <<worker, journal, wires, sighting>>

(* pause: the witness and the checkpoint, and never on. *)
HoldsAt(at) ==
    /\ receiver.nth = 0
    /\ \/ /\ entry = "send_01_after_send_before_backend_begin"
          /\ at = "received" /\ receiver.path = "/ingest"
       \/ /\ entry = "ack_04_before_backend_confirmation_commit"
          /\ at = "received" /\ receiver.path = "/confirm"
       \/ /\ entry = "ack_05_after_backend_confirmation_commit"
          /\ at = "applied" /\ receiver.path = "/confirm"

Hold ==
    /\ HoldsAt(receiver.at)
    /\ receiver' = [receiver EXCEPT !.at = "held"]
    /\ sighting' = [path |-> receiver.path, journal |-> journal]
    /\ ReceiverUnchanged /\ UNCHANGED <<worker, request, journal, wires>>

(* Ingestor.apply and Ingestor.confirm_ack, both idempotent. *)
Apply ==
    /\ receiver.at = "received" /\ ~HoldsAt("received")
    /\ receiver' = [receiver EXCEPT !.at = "applied"]
    /\ journal' = IF receiver.path = "/ingest" THEN [journal EXCEPT !.committed = 1]
                  ELSE [journal EXCEPT !.confirmed = 1]
    /\ ReceiverUnchanged /\ UNCHANGED <<worker, request, wires, sighting>>

Record ==
    /\ receiver.at = "applied" /\ ~HoldsAt("applied")
    /\ receiver' = [receiver EXCEPT !.at = "recorded"]
    /\ wires' = wires \cup {<<receiver.nth, receiver.serial, receiver.path>>}
    /\ ReceiverUnchanged /\ UNCHANGED <<worker, request, journal, sighting>>

AnswerUnrecorded ==                                 \* mutant: answers, then keeps the record
    /\ receiver.at = "applied" /\ ~HoldsAt("applied")
    /\ receiver' = [receiver EXCEPT !.at = "idle"]
    /\ worker' = IF worker.at = receiver.path /\ worker.to = receiver.nth
                 THEN [worker EXCEPT !.at = IF @ = "/ingest" THEN "acknowledged" ELSE "confirmed"]
                 ELSE worker
    /\ ReceiverUnchanged /\ UNCHANGED <<request, journal, wires, sighting>>
Respond ==
    /\ receiver.at = "recorded"
    /\ receiver' = [receiver EXCEPT !.at = "idle"]
    /\ worker' = IF worker.at = receiver.path /\ worker.to = receiver.nth
                 THEN [worker EXCEPT !.at = IF @ = "/ingest" THEN "acknowledged" ELSE "confirmed"]
                 ELSE worker
    /\ ReceiverUnchanged /\ UNCHANGED <<request, journal, wires, sighting>>

Receiver == Receive \/ Hold \/ Apply \/ Record \/ Respond

-----------------------------------------------------------------------------
(* Something fails on its own: the receiver ends, the worker throws.        *)
Misfortune ==
    /\ ~upset /\ upset' = TRUE
    /\ \/ receiver.at # "gone" /\ receiver' = NoReceiver /\ UNCHANGED worker
       \/ worker.at \notin {"gone", "failed", "answered"} /\ ~Halted
          /\ worker' = [worker EXCEPT !.at = "failed"] /\ UNCHANGED receiver
    /\ UNCHANGED <<entry, task, outcome, spool, request, journal, wires, sighting, earlier,
                   later, stopped>>

-----------------------------------------------------------------------------
(* The harness.                                                             *)

Stores == [spool |-> spool, journal |-> journal]

Step(from, to) ==
    task = from /\ task' = to /\ UNCHANGED <<entry, outcome, spool, journal, wires, sighting, upset>>

(* The extension, the browser and its probe.                                *)
OpenBrowser ==
    /\ Step("browser", "launch") /\ UNCHANGED <<worker, receiver, request, earlier, later, stopped>>

StartReceiver(from, to, nth) ==
    /\ Step(from, to) /\ receiver' = [NoReceiver EXCEPT !.nth = nth, !.at = "idle"]
    /\ UNCHANGED <<worker, request, earlier, later, stopped>>

BeginWorker ==
    /\ Step("begin", "await")
    /\ worker' = [NoWorker EXCEPT !.op = IF entry \in Indexed THEN "crash" ELSE "deliver",
                                  !.at = "begin", !.to = 0, !.given = TRUE]
    /\ UNCHANGED <<receiver, request, earlier, later, stopped>>

(* The worker says where it stopped, or that it is through. *)
Checkpoint ==
    /\ Expected.kill # "RECEIVER" /\ (Halted \/ worker.at = "answered")
    /\ Step("await", "terminate")
    /\ UNCHANGED <<worker, receiver, request, earlier, later, stopped>>

(* The checkpoint of the receiver, and the kill. *)
KillReceiver ==
    /\ Expected.kill = "RECEIVER" /\ receiver.at = "held"
    /\ Step("await", "terminate")
    /\ receiver' = NoReceiver
    /\ stopped' = [worker |-> worker.at, receiver |-> receiver.at, path |-> receiver.path]
    /\ UNCHANGED <<worker, request, earlier, later>>

(* Worker.terminate aborts the transaction that is not complete. *)
TerminateWorker ==
    /\ Step("terminate", IF Expected.kill = "RECEIVER" THEN "restart" ELSE "stop")
    /\ worker' = NoWorker /\ request' = Nothing
    /\ stopped' = IF stopped = Nothing
                  THEN [worker |-> worker.at, receiver |-> receiver.at, path |-> Nothing]
                  ELSE stopped
    /\ UNCHANGED <<receiver, earlier, later>>

StopReceiver(from, to) ==
    /\ receiver.at # "gone" /\ Step(from, to) /\ receiver' = NoReceiver
    /\ UNCHANGED <<worker, request, earlier, later, stopped>>

ReadEarlier ==
    /\ Step("before", "recover") /\ earlier' = Stores
    /\ UNCHANGED <<worker, receiver, request, later, stopped>>

(* The recovery worker gets the observation again when no row was found.    *)
RecoverBlind ==                          \* mutant: never gives it the observation
    /\ Step("recover", "recovering")
    /\ worker' = [NoWorker EXCEPT !.op = "recover", !.at = "begin", !.to = 1]
    /\ UNCHANGED <<receiver, request, earlier, later, stopped>>
Recovery ==
    /\ Step("recover", "recovering")
    /\ worker' = [NoWorker EXCEPT !.op = "recover", !.at = "begin", !.to = 1,
                                  !.given = earlier.spool.rows = 0]
    /\ UNCHANGED <<receiver, request, earlier, later, stopped>>

Recovers ==
    /\ worker.at = "answered" /\ Step("recovering", "after")
    /\ worker' = NoWorker
    /\ UNCHANGED <<receiver, request, earlier, later, stopped>>

ReadLater ==
    /\ Step("after", "last") /\ later' = Stores
    /\ UNCHANGED <<worker, receiver, request, earlier, stopped>>

(* _verify_browser_ack over what the case kept: the rows the two readers of *)
(* the spool saw,                                                           *)
SpoolsHold ==
    /\ earlier.spool = Expected.spool
    /\ later.spool = [rows |-> 1, ack |-> 1]

(* what the receiver saw when it was killed,                                *)
SightingHolds ==
    Expected.kill = "RECEIVER" =>
        /\ sighting.journal = earlier.journal
        /\ sighting.path = IF entry = "send_01_after_send_before_backend_begin"
                           THEN "/ingest" ELSE "/confirm"

(* what the two readers of the journal saw,                                 *)
JournalsHold ==
    /\ earlier.journal = Expected.journal
    /\ later.journal = [committed |-> 1, confirmed |-> 1]

(* and the wire records the case leaves, by receiver and serial.            *)
WiresOf(nth, count) ==
    {<<nth, k, IF k % 2 = 1 THEN "/ingest" ELSE "/confirm">> : k \in 1..count}

WiresHold ==
    LET first == IF entry \in Indexed \cup {"send_01_after_send_before_backend_begin"} THEN 0
                 ELSE IF Expected.kill = "NONE" THEN 4 ELSE 1
    IN wires = WiresOf(0, first) \cup WiresOf(1, 2)

Verified == SpoolsHold /\ SightingHolds /\ JournalsHold /\ WiresHold

Conclude(verdict) ==
    /\ task' = "done" /\ outcome' = verdict
    /\ UNCHANGED <<entry, spool, journal, wires, sighting, earlier, later, stopped>>

(* No browser, no build of the extension, no probe in time.                 *)
Blocked ==
    /\ task = "browser" /\ Conclude("BLOCKED_ENVIRONMENT")
    /\ UNCHANGED <<worker, receiver, request, upset>>

Verify ==
    /\ task = "verify" /\ Conclude(IF Verified THEN "PASS" ELSE "FAIL")
    /\ UNCHANGED <<worker, receiver, request, upset>>

(* An exception: the receiver is killed by the finally of the handshake,    *)
(* the browser and its worker by the one of the case.                       *)
AbortLeaving ==                              \* mutant: no finally
    Conclude("FAIL") /\ UNCHANGED <<worker, receiver, request>>
Abort ==
    /\ Conclude("FAIL")
    /\ receiver' = NoReceiver /\ worker' = NoWorker /\ request' = Nothing

(* What each wait of the harness does when a process has failed: the wait   *)
(* for a checkpoint sees the receiver end, every answer of a worker may be  *)
(* an error, a receiver to be stopped must be alive.                        *)
Rejects ==
    /\ \/ task = "await" /\ Expected.kill = "RECEIVER" /\ receiver.at = "gone"
       \/ task = "await" /\ Expected.kill # "RECEIVER" /\ worker.at = "failed"
       \/ task = "recovering" /\ worker.at = "failed"
       \/ task \in {"stop", "last"} /\ receiver.at = "gone"
    /\ Abort /\ UNCHANGED upset

(* A deadline: of the checkpoint, of a call into the browser, of a reader,  *)
(* of a start.                                                              *)
Timeout ==
    /\ task \notin {"verify", "done"} /\ Abort /\ upset' = TRUE

HandshakeHarness ==
    \/ OpenBrowser \/ Blocked \/ StartReceiver("launch", "begin", 0) \/ BeginWorker \/ Checkpoint \/ KillReceiver
    \/ TerminateWorker \/ StopReceiver("stop", "restart")
    \/ StartReceiver("restart", "before", 1) \/ ReadEarlier \/ Recovery \/ Recovers
    \/ ReadLater \/ StopReceiver("last", "verify") \/ Verify \/ Rejects \/ Timeout

-----------------------------------------------------------------------------
HandshakeInit ==
    /\ entry \in Cases /\ task = "browser" /\ outcome = Nothing
    /\ worker = NoWorker /\ spool = [rows |-> 0, ack |-> 0]
    /\ receiver = NoReceiver /\ request = Nothing
    /\ journal = [committed |-> 0, confirmed |-> 0]
    /\ wires = {} /\ sighting = Nothing /\ earlier = Nothing /\ later = Nothing
    /\ stopped = Nothing /\ upset = FALSE

HandshakeNext == Worker \/ Receiver \/ Misfortune \/ HandshakeHarness

(* The harness runs on, its deadlines included; nothing is assumed of the   *)
(* worker and the receiver.                                                 *)
HandshakeFairness == WF_handshakeVars(HandshakeHarness)

HandshakeSpec == HandshakeInit /\ [][HandshakeNext]_handshakeVars /\ HandshakeFairness

-----------------------------------------------------------------------------
(* Across every crash and restart, no store is ahead of the one before it:  *)
(* what is confirmed was acknowledged in the extension, what was            *)
(* acknowledged is committed in the backend, what is committed is spooled.  *)
DurableInOrder ==
    /\ journal.confirmed <= spool.ack
    /\ spool.ack <= journal.committed
    /\ journal.committed <= spool.rows

(* A PASS was earned: the harness stopped the registered process at the     *)
(* registered boundary, and the recovery left the position whole on both    *)
(* sides.  The worker of a receiver that is killed waits for its answer, or *)
(* has failed on its own, which the harness does not look at.               *)
PassIsWhole ==
    outcome = "PASS" =>
        /\ spool = [rows |-> 1, ack |-> 1] /\ journal = [committed |-> 1, confirmed |-> 1]
        /\ Expected.kill = "WORKER" =>
              stopped.worker = (IF entry = "ack_02_during_extension_ack_transaction"
                                THEN "acknowledging" ELSE Boundary[entry])
              /\ stopped.receiver = "idle"
        /\ Expected.kill = "RECEIVER" =>
              stopped.receiver = "held" /\ stopped.worker \in {stopped.path, "failed"}

(* A case is only failed when something failed or stalled on its own: the   *)
(* registered states, the recovery and the wire records agree with what the *)
(* worker and the receiver do.                                              *)
FailHasCause == outcome = "FAIL" => upset

(* However the case goes, it comes to a verdict, and neither a worker nor a *)
(* receiver outlives it.                                                    *)
HandshakeEnds == <>[](task = "done" /\ worker.at = "gone" /\ receiver.at = "gone")
=============================================================================
