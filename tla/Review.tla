-------------------------------- MODULE Review --------------------------------
(***************************************************************************)
(* The launch of an independent review by the host authority: the key and  *)
(* its one-use database (bootstrap_review_authority.py), the signed launch *)
(* authorization (issue_review_launch_authorization.py), the preparation   *)
(* of the workspace and the namespace broker that runs the leaf commands   *)
(* (prepare_review_workspace.py), the signed receipt (finalize_review.py)  *)
(* and the aggregate of both reviews (aggregate_reviews.py).               *)
(*                                                                         *)
(* Each command is a host process: it may be interleaved with the others,  *)
(* be killed between two steps, or find that the sealed inputs, the clock, *)
(* the boot or the revocations changed since it last looked.  The human    *)
(* of the contract writes the result, attests the fresh session, revokes.  *)
(***************************************************************************)
EXTENDS Naturals, Sequences

CONSTANTS
  Roles,         \* the review roles of this instance
  Auths,         \* identities of launch authorizations: id, serial and run id
  Procs,         \* host processes
  Inputs,        \* contents the five signed inputs may have
  Sealed,        \* those that verify as a sealed review pack
  Commands,      \* number of configured leaf commands
  Lifetime,      \* maximum_duration_seconds, in ticks
  MaxDelay,      \* maximum_aggregate_delay_seconds, in ticks
  MaxFaults,     \* bound on ticks, kills, timeouts, reboots, edits and revocations
  None, Torn     \* no value; a file whose writing was interrupted

ASSUME ReviewAssumption ==
  /\ Sealed \subseteq Inputs /\ Sealed # {}
  /\ Commands \in Nat \ {0} /\ Lifetime \in Nat \ {0}
  /\ MaxDelay \in Nat /\ MaxFaults \in Nat
  /\ {None, Torn} \cap (Auths \cup Procs \cup Inputs) = {} /\ None # Torn

VARIABLES
  keys,       \* the two key files: "absent", "ok" or Torn
  state,      \* state.sqlite: its authority row, consumed_serials, revocations
  issued,     \* signed authorizations: role, inputs, time and boot
  host,       \* the clock, the boot id, the contents of the signed inputs, faults so far
  scratch,    \* the authorization whose preparation created the role's scratch
  broker,     \* the namespace broker of each role
  marker,     \* namespace-state.json: the authorization it names
  attest,     \* workspace-attestation.json
  result,     \* result.json, written by the reviewer
  receipt,    \* execution-receipt.json
  aggregate,  \* the aggregate result
  proc,       \* the host processes
  leaves      \* history: the leaf commands run for each role, in order

vars == <<keys, state, issued, host, scratch, broker, marker, attest, result,
          receipt, aggregate, proc, leaves>>

Outcomes == {"PASS", "HOLD"}
Idle == [pc |-> "idle", auth |-> None, peer |-> None, seq |-> 0, seen |-> None,
         read |-> None, clean |-> TRUE]
NoBroker == [status |-> "none", auth |-> None, seq |-> 0, busy |-> None, junk |-> FALSE]

Init ==
  /\ keys = [private |-> "absent", public |-> "absent"]
  /\ state = [row |-> FALSE, consumed |-> {}, revoked |-> {}]
  /\ issued = [a \in Auths |-> None]
  /\ host \in [now : {0}, boot : {0}, inputs : Sealed, faults : {0}]
  /\ scratch = [r \in Roles |-> None]
  /\ broker = [r \in Roles |-> NoBroker]
  /\ marker = [r \in Roles |-> None]
  /\ attest = [r \in Roles |-> None]
  /\ result = [r \in Roles |-> None]
  /\ receipt = [r \in Roles |-> None]
  /\ aggregate = None
  /\ proc = [p \in Procs |-> Idle]
  /\ leaves = [r \in Roles |-> <<>>]

-----------------------------------------------------------------------------
(* What the commands check. *)

Issued == {a \in Auths : issued[a] # None}
RoleOf(a) == issued[a].role
Expires(a) == issued[a].at + Lifetime

\* verify_review_launch_authorization, with this host's boot and clock.
Verified(a) ==
  /\ issued[a].boot = host.boot
  /\ issued[a].at <= host.now /\ host.now < Expires(a)

\* measure_review_context: the inputs are a sealed pack ...
Measured == host.inputs \in Sealed
\* ... and, once there is an authorization, the one it was signed for.
Matches(a) == Measured /\ host.inputs = issued[a].inputs

\* bootstrap_review_authority without initialisation: both keys, a readable pair.
Authority == keys.private = "ok" /\ keys.public = "ok"

\* Mutant: the revocations are not read.
LaunchedOnce(a) == state.row /\ a \in state.consumed

\* _validate_consumed_authorization, and _authority_state when it does not consume.
Launched(a) == state.row /\ a \in state.consumed /\ a \notin state.revoked

\* Whether _authority_state(consume=True) takes the serial.
Consumable(a) == state.row /\ a \notin state.revoked /\ a \notin state.consumed

Goto(p, step) == proc' = [proc EXCEPT ![p].pc = step]
Stop(p) == proc' = [proc EXCEPT ![p] = Idle]

\* A command continues when its check holds and fails otherwise.
Check(p, ok, step) == IF ok THEN Goto(p, step) ELSE Stop(p)

Start(p, a, step) ==
  proc' = [proc EXCEPT ![p] = [Idle EXCEPT !.pc = step, !.auth = a,
                                           !.clean = a \notin state.revoked]]

\* The host disturbs the commands a bounded number of times.
Faulty(h) == h.faults < MaxFaults /\ host' = [h EXCEPT !.faults = @ + 1]

Host == <<keys, state, issued, host>>
Work == <<scratch, broker, marker, leaves>>
Files == <<attest, result, receipt, aggregate>>

-----------------------------------------------------------------------------
(* bootstrap_review_authority --initialize-if-absent.                      *)

\* The human starts one bootstrap at a time; it writes the missing pair.
Bootstrap(p) ==
  /\ proc[p] = Idle
  /\ \A q \in Procs : proc[q].pc \notin {"b_private", "b_public", "b_state"}
  /\ \/ keys = [private |-> "absent", public |-> "absent"] /\ Goto(p, "b_private")
     \/ Authority /\ ~state.row /\ Goto(p, "b_state")
  /\ UNCHANGED <<Host, Work, Files>>

WritePrivate(p) ==
  /\ proc[p].pc = "b_private"
  /\ keys' = [keys EXCEPT !.private = "ok"]
  /\ Goto(p, "b_public")
  /\ UNCHANGED <<state, issued, host, Work, Files>>

WritePublic(p) ==
  /\ proc[p].pc = "b_public"
  /\ keys' = [keys EXCEPT !.public = "ok"]
  /\ Goto(p, "b_state")
  /\ UNCHANGED <<state, issued, host, Work, Files>>

\* _state: the authority's row, in one commit.
WriteState(p) ==
  /\ proc[p].pc = "b_state"
  /\ state' = [state EXCEPT !.row = TRUE]
  /\ Stop(p)
  /\ UNCHANGED <<keys, issued, host, Work, Files>>

-----------------------------------------------------------------------------
(* issue_review_launch_authorization.                                      *)

\* The context is measured before the authority is touched.
Issue(p, r) ==
  /\ proc[p] = Idle
  /\ Measured /\ Authority
  /\ proc' = [proc EXCEPT ![p] = [Idle EXCEPT !.pc = "i_sign", !.peer = r, !.seen = host.inputs]]
  /\ state' = [state EXCEPT !.row = TRUE]
  /\ UNCHANGED <<keys, issued, host, Work, Files>>

\* Signed only when the snapshots still hold, then moved into place.
Sign(p) ==
  /\ proc[p].pc = "i_sign"
  /\ \/ /\ host.inputs # proc[p].seen
        /\ UNCHANGED issued
     \/ /\ host.inputs = proc[p].seen
        /\ \E a \in Auths \ Issued :
             issued' = [issued EXCEPT ![a] = [role |-> proc[p].peer, inputs |-> proc[p].seen,
                                              at |-> host.now, boot |-> host.boot]]
  /\ Stop(p)
  /\ UNCHANGED <<keys, state, host, Work, Files>>

-----------------------------------------------------------------------------
(* prepare_review_workspace --authorization: consume, prepare, launch.     *)

Prepare(p, a) ==
  /\ proc[p] = Idle /\ a \in Issued
  /\ Verified(a) /\ Matches(a)
  /\ Start(p, a, "p_consume")
  /\ UNCHANGED <<Host, Work, Files>>

\* _authority_state(consume=True): one BEGIN IMMEDIATE transaction.
ConsumeSerial(p) ==
  LET a == proc[p].auth
      ok == Consumable(a)
  IN /\ proc[p].pc = "p_consume"
     /\ state' = [state EXCEPT !.consumed = @ \cup (IF ok THEN {a} ELSE {})]
     /\ Check(p, ok, "p_recheck")
     /\ UNCHANGED <<keys, issued, host, Work, Files>>

Recheck(p) ==
  /\ proc[p].pc = "p_recheck"
  /\ Check(p, Launched(proc[p].auth), "p_scratch")
  /\ UNCHANGED <<Host, Work, Files>>

\* Mutant: mkdir(exist_ok=True).
TakeScratch(p) ==
  LET a == proc[p].auth
  IN /\ proc[p].pc = "p_scratch"
     /\ scratch' = [scratch EXCEPT ![RoleOf(a)] = a]
     /\ Goto(p, "p_run")
     /\ UNCHANGED <<Host, broker, marker, leaves, Files>>

\* _copy_node_inputs refuses an existing scratch tree, and creates it.
MakeScratch(p) ==
  LET a == proc[p].auth
      r == RoleOf(a)
  IN /\ proc[p].pc = "p_scratch"
     /\ scratch' = [scratch EXCEPT ![r] = IF @ = None THEN a ELSE @]
     /\ Check(p, scratch[r] = None, "p_run")
     /\ UNCHANGED <<Host, broker, marker, leaves, Files>>

\* A preparation command may fail.
RunPreparation(p) ==
  /\ proc[p].pc = "p_run"
  /\ Stop(p)
  /\ UNCHANGED <<Host, Work, Files>>

\* After the preparation commands, _start_namespace: the broker is a process of
\* its own, and outlives this one.
Spawn(p) ==
  LET r == RoleOf(proc[p].auth)
  IN /\ proc[p].pc = "p_run"
     /\ broker' = [broker EXCEPT ![r] = [NoBroker EXCEPT !.status = "up", !.auth = proc[p].auth]]
     /\ Goto(p, "p_wait")
     /\ UNCHANGED <<Host, scratch, marker, leaves, Files>>

\* The socket appears and the marker is replaced, or the broker is terminated.
AwaitBroker(p) ==
  LET r == RoleOf(proc[p].auth)
  IN /\ proc[p].pc = "p_wait"
     /\ \/ /\ broker[r].status = "up"
           /\ marker' = [marker EXCEPT ![r] = proc[p].auth]
           /\ Goto(p, "p_attest")
           /\ UNCHANGED broker
        \/ /\ broker' = [broker EXCEPT ![r].status = "dead"]
           /\ Stop(p)
           /\ UNCHANGED marker
     /\ UNCHANGED <<Host, scratch, leaves, Files>>

WriteAttestation(p) ==
  LET a == proc[p].auth
  IN /\ proc[p].pc = "p_attest"
     /\ attest' = [attest EXCEPT ![RoleOf(a)] =
                     [auth |-> a, finishedAt |-> None, fresh |-> FALSE]]
     /\ Stop(p)
     /\ UNCHANGED <<Host, Work, result, receipt, aggregate>>
-----------------------------------------------------------------------------
(* prepare_review_workspace --authorization --execute: the leaf commands.  *)

Execute(p, a) ==
  /\ proc[p] = Idle /\ a \in Issued
  /\ Verified(a) /\ Matches(a)
  /\ Start(p, a, "e_state")
  /\ UNCHANGED <<Host, Work, Files>>

ExecuteState(p) ==
  /\ proc[p].pc = "e_state"
  /\ Check(p, Launched(proc[p].auth), "e_open")
  /\ UNCHANGED <<Host, Work, Files>>

\* The attestation is read now and written back at the end; the marker must
\* name this authorization and a process that is still the same one.
OpenNamespace(p) ==
  LET a == proc[p].auth
      r == RoleOf(a)
      ok == attest[r] \notin {None, Torn} /\ marker[r] = a /\ broker[r].status = "up"
  IN /\ proc[p].pc = "e_open"
     /\ proc' = [proc EXCEPT ![p] = IF ok THEN [@ EXCEPT !.pc = "e_send", !.seen = attest[r]]
                                         ELSE Idle]
     /\ UNCHANGED <<Host, Work, Files>>

\* The request the broker of a role waits for, before the authorization expires.
Expected(p, r) ==
  /\ broker[r].auth = proc[p].auth
  /\ broker[r].seq = proc[p].seq
  /\ host.now < Expires(proc[p].auth)

\* The broker takes one connection at a time and runs the next command only for
\* the request it expects; else it ends.
Send(p) ==
  LET a == proc[p].auth
      r == RoleOf(a)
      b == broker[r]
      expected == Expected(p, r)
  IN /\ proc[p].pc = "e_send"
     /\ b.busy = None /\ ~b.junk
     /\ CASE b.status # "up" -> UNCHANGED <<broker, leaves>>
          [] b.status = "up" /\ expected ->
               /\ broker' = [broker EXCEPT ![r].busy = p]
               /\ leaves' = [leaves EXCEPT ![r] = Append(@, <<a, b.seq + 1>>)]
          [] OTHER ->
               /\ broker' = [broker EXCEPT ![r].status = "dead"]
               /\ UNCHANGED leaves
     /\ Check(p, b.status = "up" /\ expected, "e_reply")
     /\ UNCHANGED <<Host, scratch, marker, Files>>

\* Mutant: a broker whose answer was not taken waits for the request again.
ReplyOrRepeat(r) ==
  LET p == broker[r].busy
      waits == proc[p].pc = "e_reply" /\ proc[p].auth = broker[r].auth
  IN /\ broker[r].status = "up" /\ p # None
     /\ broker' = [broker EXCEPT ![r].busy = None, ![r].seq = IF waits THEN @ + 1 ELSE @]
     /\ proc' = IF waits THEN [proc EXCEPT ![p].pc = "e_write"] ELSE proc
     /\ UNCHANGED <<Host, scratch, marker, leaves, Files>>

\* The command ends.  A client that still waits gets its exit code, whole or
\* not; a client that is gone breaks the pipe and ends the broker.
Reply(r) ==
  LET b == broker[r]
      p == b.busy
      waits == proc[p].pc = "e_reply" /\ proc[p].auth = b.auth
      last == b.seq + 1 = Commands
  IN /\ b.status = "up" /\ p # None
     /\ broker' = [broker EXCEPT ![r] =
          [b EXCEPT !.busy = None, !.seq = @ + 1,
                    !.status = IF waits /\ last THEN "done"
                              ELSE IF waits /\ ~b.junk THEN "up" ELSE "dead"]]
     /\ IF waits
        THEN \E answer \in {"zero", "nonzero", "cut"} :
               IF answer = "zero"
               THEN proc' = [proc EXCEPT ![p].seq = @ + 1,
                                         ![p].pc = IF last THEN "e_write" ELSE "e_send"]
               ELSE Stop(p)
        ELSE UNCHANGED proc
     /\ UNCHANGED <<Host, scratch, marker, leaves, Files>>

\* The client waits sixty seconds for the broker, to connect or for the answer.
GiveUp(p) ==
  LET r == RoleOf(proc[p].auth)
  IN /\ \/ proc[p].pc = "e_reply"
        \/ proc[p].pc = "e_send" /\ broker[r].busy # None
     /\ broker' = [broker EXCEPT ![r].junk = @ \/ (proc[p].pc = "e_send" /\ broker[r].busy # p)]
     /\ Stop(p)
     /\ Faulty(host)
     /\ UNCHANGED <<keys, state, issued, scratch, marker, leaves, Files>>

WriteExecution(p) ==
  LET r == RoleOf(proc[p].auth)
  IN /\ proc[p].pc = "e_write"
     /\ attest' = [attest EXCEPT ![r] = [proc[p].seen EXCEPT !.finishedAt = host.now]]
     /\ Stop(p)
     /\ UNCHANGED <<Host, Work, result, receipt, aggregate>>

-----------------------------------------------------------------------------
(* finalize_review.                                                        *)

\* authorized_review_context and the first _validate_current_delivery.
Finalize(p, a) ==
  LET r == RoleOf(a)
  IN /\ proc[p] = Idle /\ a \in Issued
     /\ Verified(a) /\ Matches(a)
     /\ receipt[r] = None /\ result[r] # None /\ attest[r] # None
     /\ Start(p, a, "f_read")
     /\ UNCHANGED <<Host, Work, Files>>

\* The result is the authorization's and the attestation a prepared, attested
\* workspace of this role; the inputs still hold.
ReadDelivery(p) ==
  LET a == proc[p].auth
      r == RoleOf(a)
      ok == /\ result[r].run = a
            /\ attest[r] # Torn /\ attest[r].fresh
            /\ host.inputs = issued[a].inputs
  IN /\ proc[p].pc = "f_read"
     /\ proc' = [proc EXCEPT ![p] =
          IF ok THEN [@ EXCEPT !.pc = "f_state", !.seen = attest[r], !.read = result[r]] ELSE Idle]
     /\ UNCHANGED <<Host, Work, Files>>

FinalizeState(p) ==
  /\ proc[p].pc = "f_state"
  /\ Check(p, Authority /\ Launched(proc[p].auth), "f_sign")
  /\ UNCHANGED <<Host, Work, Files>>

\* Mutant: the attestation need not be of a finished run.
FinishedInTime(a, at) == at.finishedAt # None => at.finishedAt <= Expires(a)

\* finished <= expires and finished <= now (consumption and start are earlier, as
\* the host clock does not go back); a workspace never executed has no finished_at.
ExecutedInTime(a, at) ==
  /\ at.finishedAt # None
  /\ at.finishedAt <= Expires(a) /\ at.finishedAt <= host.now

SignReceipt(p) ==
  LET a == proc[p].auth
  IN /\ proc[p].pc = "f_sign"
     /\ Check(p, /\ Verified(a) /\ host.inputs = issued[a].inputs
                 /\ receipt[RoleOf(a)] = None
                 /\ ExecutedInTime(a, proc[p].seen), "f_create")
     /\ UNCHANGED <<Host, Work, Files>>

\* Mutant: open("w").
OverwriteReceipt(p) ==
  /\ proc[p].pc = "f_create"
  /\ receipt' = [receipt EXCEPT ![RoleOf(proc[p].auth)] = Torn]
  /\ Goto(p, "f_write")
  /\ UNCHANGED <<Host, Work, attest, result, aggregate>>

\* open("x"): the file exists from here, and is empty until it is written.
CreateReceipt(p) ==
  LET r == RoleOf(proc[p].auth)
  IN /\ proc[p].pc = "f_create"
     /\ receipt' = [receipt EXCEPT ![r] = IF @ = None THEN Torn ELSE @]
     /\ Check(p, receipt[r] = None, "f_write")
     /\ UNCHANGED <<Host, Work, attest, result, aggregate>>

WriteReceipt(p) ==
  LET a == proc[p].auth
  IN /\ proc[p].pc = "f_write"
     /\ receipt' = [receipt EXCEPT ![RoleOf(a)] =
                      [auth |-> a, workspace |-> proc[p].seen, result |-> proc[p].read]]
     /\ Stop(p)
     /\ UNCHANGED <<Host, Work, attest, result, aggregate>>

-----------------------------------------------------------------------------
(* aggregate_reviews.                                                      *)

\* Mutant: the result is not compared with the one the receipt signs.
ReceiptPresent(a) ==
  LET r == RoleOf(a)
  IN /\ receipt[r] \notin {None, Torn} /\ result[r] # None
     /\ receipt[r].auth = a /\ result[r].run = a
     /\ ExecutedInTime(a, receipt[r].workspace)

\* verify_review_execution_receipt, verify_review_result_binding.
ReceiptHolds(a) ==
  LET r == RoleOf(a)
  IN /\ receipt[r] \notin {None, Torn} /\ result[r] # None
     /\ receipt[r].auth = a /\ receipt[r].result = result[r] /\ result[r].run = a
     /\ ExecutedInTime(a, receipt[r].workspace)

Later(m, n) == IF m < n THEN n ELSE m

\* aggregate_independent_reviews: both chains, one pack, not too late.
Aggregate(p, a, b) ==
  LET finished(c) == receipt[RoleOf(c)].workspace.finishedAt
  IN /\ proc[p] = Idle /\ {a, b} \subseteq Issued
     /\ RoleOf(a) # RoleOf(b)
     /\ Verified(a) /\ Verified(b) /\ Matches(a) /\ Matches(b)
     /\ ReceiptHolds(a) /\ ReceiptHolds(b)
     /\ host.now <= Later(finished(a), finished(b)) + MaxDelay
     /\ proc' = [proc EXCEPT ![p] =
          [Idle EXCEPT !.pc = "g_first", !.auth = a, !.peer = b,
             !.read = IF result[RoleOf(a)].outcome = "PASS" /\ result[RoleOf(b)].outcome = "PASS"
                      THEN "PASS" ELSE "HOLD",
             !.seen = [c \in {a, b} |-> receipt[RoleOf(c)]],
             !.clean = {a, b} \cap state.revoked = {}]]
     /\ UNCHANGED <<Host, Work, Files>>

AggregateState(p) ==
  /\ \/ /\ proc[p].pc = "g_first"
        /\ Check(p, Authority /\ Launched(proc[p].auth), "g_second")
     \/ /\ proc[p].pc = "g_second"
        /\ Check(p, Launched(proc[p].peer), "g_write")
  /\ UNCHANGED <<Host, Work, Files>>

WriteAggregate(p) ==
  LET ok == host.inputs = issued[proc[p].auth].inputs
  IN /\ proc[p].pc = "g_write"
     /\ aggregate' = IF ok THEN [verdict |-> proc[p].read, chains |-> proc[p].seen] ELSE aggregate
     /\ Stop(p)
     /\ UNCHANGED <<Host, Work, attest, result, receipt>>

-----------------------------------------------------------------------------
(* The human, the host, and failures.                                      *)

\* The reviewer writes a result for a run it was given, and may replace it.
WriteResult(a, o) ==
  /\ a \in Issued /\ attest[RoleOf(a)] # None
  /\ result' = [result EXCEPT ![RoleOf(a)] = [run |-> a, outcome |-> o]]
  /\ IF result[RoleOf(a)] = None THEN UNCHANGED host ELSE Faulty(host)
  /\ UNCHANGED <<keys, state, issued, Work, attest, receipt, aggregate, proc>>

AttestSession(r) ==
  /\ attest[r] \notin {None, Torn} /\ result[r] # None
  /\ attest' = [attest EXCEPT ![r].fresh = TRUE]
  /\ UNCHANGED <<Host, Work, result, receipt, aggregate, proc>>

RevokeLaunch(a) ==
  /\ a \in Issued
  /\ state' = [state EXCEPT !.revoked = @ \cup {a}]
  /\ Faulty(host)
  /\ UNCHANGED <<keys, issued, Work, Files, proc>>

ChangeInputs(i) ==
  /\ Faulty([host EXCEPT !.inputs = i])
  /\ UNCHANGED <<keys, state, issued, Work, Files, proc>>

ClockTicks ==
  /\ Faulty([host EXCEPT !.now = @ + 1])
  /\ UNCHANGED <<keys, state, issued, Work, Files, proc>>

\* What the file a killed process was writing may be left as.
Kill(p) ==
  LET tear(step, old) == IF proc[p].pc = step THEN {old, Torn} ELSE {old}
      r == RoleOf(proc[p].auth)
  IN /\ proc[p] # Idle
     /\ \E t \in tear("b_private", keys.private), u \in tear("b_public", keys.public) :
          keys' = [private |-> t, public |-> u]
     /\ attest' = IF proc[p].pc \notin {"p_attest", "e_write"} THEN attest
                  ELSE [attest EXCEPT ![r] = Torn]
     /\ aggregate' = IF proc[p].pc = "g_write" THEN Torn ELSE aggregate
     /\ Stop(p)
     /\ Faulty(host)
     /\ UNCHANGED <<state, issued, Work, result, receipt>>

RestartHost ==
  /\ Faulty([host EXCEPT !.boot = @ + 1])
  /\ proc' = [p \in Procs |-> Idle]
  /\ broker' = [r \in Roles |->
                  [broker[r] EXCEPT !.status = IF @ = "up" THEN "dead" ELSE @, !.busy = None]]
  /\ UNCHANGED <<keys, state, issued, scratch, marker, leaves, Files>>

Command(p) ==
  \/ Bootstrap(p) \/ WritePrivate(p) \/ WritePublic(p) \/ WriteState(p)
  \/ \E r \in Roles : Issue(p, r)
  \/ Sign(p)
  \/ \E a \in Auths : Prepare(p, a) \/ Execute(p, a) \/ Finalize(p, a)
  \/ ConsumeSerial(p) \/ Recheck(p) \/ MakeScratch(p) \/ RunPreparation(p)
  \/ Spawn(p) \/ AwaitBroker(p) \/ WriteAttestation(p)
  \/ ExecuteState(p) \/ OpenNamespace(p) \/ Send(p) \/ WriteExecution(p)
  \/ ReadDelivery(p) \/ FinalizeState(p) \/ SignReceipt(p)
  \/ CreateReceipt(p) \/ WriteReceipt(p)
  \/ \E a, b \in Auths : Aggregate(p, a, b)
  \/ AggregateState(p) \/ WriteAggregate(p)

Environment ==
  \/ \E a \in Auths, o \in Outcomes : WriteResult(a, o)
  \/ \E r \in Roles : AttestSession(r) \/ Reply(r)
  \/ \E a \in Auths : RevokeLaunch(a)
  \/ \E i \in Inputs : ChangeInputs(i)
  \/ \E p \in Procs : GiveUp(p) \/ Kill(p)
  \/ ClockTicks \/ RestartHost

Next == (\E p \in Procs : Command(p)) \/ Environment

Spec == Init /\ [][Next]_vars
-----------------------------------------------------------------------------
(* Properties.                                                             *)

\* The role's leaf commands that ran under an authorization, in order.
RanUnder(a, r) == leaves[r] = [k \in 1 .. Len(leaves[r]) |-> <<a, k>>]

\* Whatever clients contend for the namespace, time out or are killed, a role's
\* leaf commands run under one authorization, each at most once and in the
\* configured order (_run_namespace_broker).
LeavesOnceInOrder ==
  \A r \in Roles : leaves[r] # <<>> =>
     /\ Len(leaves[r]) <= Commands
     /\ RanUnder(broker[r].auth, r)
     /\ scratch[r] = broker[r].auth

\* The serial is burned before any work: no workspace, namespace or leaf without
\* a committed consumption, and one preparation at a time works on a role
\* (prepare_review_workspace.py:104, contract 05: "crash burns serial").
AtWork(p) == proc[p].pc \in {"p_run", "p_wait", "p_attest"}
ConsumedBeforeWork ==
  /\ \A r \in Roles : scratch[r] # None => scratch[r] \in state.consumed
  /\ \A p \in Procs : AtWork(p) => scratch[RoleOf(proc[p].auth)] = proc[p].auth
  /\ \A p, q \in Procs : AtWork(p) /\ AtWork(q) /\ RoleOf(proc[p].auth) = RoleOf(proc[q].auth)
                            => p = q

\* A complete receipt stands for a finished, human-attested run of every leaf
\* command, finished within the authorization's lifetime, on a consumed serial.
ReceiptHonest ==
  \A r \in Roles : receipt[r] \notin {None, Torn} =>
    LET a == receipt[r].auth
        w == receipt[r].workspace
    IN /\ a \in state.consumed /\ RoleOf(a) = r
       /\ w.fresh /\ w.finishedAt # None /\ w.finishedAt <= Expires(a)
       /\ RanUnder(w.auth, r) /\ Len(leaves[r]) = Commands
       /\ receipt[r].result.run = a

\* Every command that started after a revocation stops before its effect:
\* "Revocations ... are checked at prepare, execute, finalize and aggregate".
RevocationHonoured ==
  \A p \in Procs :
    proc[p].pc \in {"p_recheck", "p_scratch", "p_run", "p_wait", "p_attest", "e_open",
                    "e_send", "e_reply", "e_write", "f_sign", "f_create", "f_write", "g_write"}
      => proc[p].clean

\* A PASS aggregate joins two receipts, still in place, of authorizations for one
\* pack and one boot, both results PASS and neither run older than the bound
\* when the other was aggregated.
AggregateSound ==
  aggregate \notin {None, Torn} =>
    LET chains == {aggregate.chains[c] : c \in DOMAIN aggregate.chains}
    IN /\ \A c \in DOMAIN aggregate.chains : receipt[RoleOf(c)] = aggregate.chains[c]
       /\ \A x, y \in chains : /\ issued[x.auth].inputs = issued[y.auth].inputs
                                /\ issued[x.auth].boot = issued[y.auth].boot
                                /\ x # y => RoleOf(x.auth) # RoleOf(y.auth)
       /\ aggregate.verdict = "PASS" => \A x \in chains : x.result.outcome = "PASS"

\* A role's work is done once, in order, on a serial burned before it began.
WorkOnBurnedSerial == LeavesOnceInOrder /\ ConsumedBeforeWork

\* A receipt and an aggregate stand for the runs they name, and a receipt is never replaced.
ResultsHonest == ReceiptHonest /\ AggregateSound

\* The execution chain of contract 05: "Finalize requires ... the host-issued
\* execution chain": a receipt's commands ran under the receipt's authorization.
ReceiptOfOwnRun ==
  \A r \in Roles : receipt[r] \notin {None, Torn} => receipt[r].workspace.auth = receipt[r].auth
=============================================================================
