----------------------------- MODULE BrowserProbe -----------------------------
(***************************************************************************)
(* The qualification of the browser environment (qualify_chrome_indexeddb): *)
(* a browser writes a sentinel into IndexedDB, its process group is killed, *)
(* a second browser on the same profile reads it back.                      *)
(*                                                                         *)
(* By the legacy transport the harness owns the browser itself; by the pipe *)
(* it owns a Node process whose child the browser is, and kills their group *)
(* by way of that owner.  A browser and an owner may end on their own and   *)
(* hang anywhere, and the module under test may be edited once.             *)
(***************************************************************************)
EXTENDS Naturals, Sequences

CONSTANT Absent    \* no value

ASSUME AbsentAssumption ==
    Absent \notin {"PASS", "REJECTED", "BLOCKED_ENVIRONMENT", "prepared", "edited", "sentinel",
                   "alive", "exited"}

VARIABLES
    transport,  \* "legacy" or "pipe"
    stage,      \* where the harness stands
    phase,      \* 1 before the kill, 2 after it
    finding,    \* what it concluded
    chrome,     \* the browser: which phase's, where it is, the module it loaded
    owner,      \* the Node process of the pipe
    disk,       \* IndexedDB of the profile, as committed
    module,     \* the module in the extension's directory
    seen,       \* per phase: the sentinel and the module the page reported
    killed,     \* history: the stores at each kill of a living browser
    mishap      \* history: something ended, stalled or was edited on its own

probeVars == <<transport, stage, phase, finding, chrome, owner, disk, module, seen, killed,
               mishap>>

NoChrome == [phase |-> 0, at |-> "gone", loaded |-> Absent]

-----------------------------------------------------------------------------
(* The browser.                                                             *)
BrowserUnchanged == UNCHANGED <<transport, stage, phase, finding, owner, module, killed, mishap>>

LoadPage ==
    /\ chrome.at = "started"
    /\ chrome' = [chrome EXCEPT !.at = "probe", !.loaded = module]
    /\ BrowserUnchanged /\ UNCHANGED <<disk, seen>>

(* writeSentinel until its transaction completes, or readSentinel. *)
Evaluate ==
    /\ chrome.at = "probe" /\ stage = "work"
    /\ chrome' = [chrome EXCEPT !.at = "stored"]
    /\ disk' = IF phase = 1 THEN "sentinel" ELSE disk
    /\ BrowserUnchanged /\ UNCHANGED seen

(* Its evidence: the record read back and the module fetched again. *)
Report ==
    /\ chrome.at = "stored"
    /\ chrome' = [chrome EXCEPT !.at = "answered"]
    /\ seen' = Append(seen, [sentinel |-> disk, module |-> module, loaded |-> chrome.loaded])
    /\ BrowserUnchanged /\ UNCHANGED disk

Browser == LoadPage \/ Evaluate \/ Report

(* The owner of the pipe ends with its browser: fail, and exit. *)
OwnerFails ==
    /\ owner = "alive" /\ chrome.at = "exited" /\ owner' = "exited"
    /\ UNCHANGED <<transport, stage, phase, finding, chrome, disk, module, seen, killed, mishap>>

(* The browser ends, its owner ends, the module is edited. *)
Mishap ==
    /\ ~mishap /\ mishap' = TRUE
    /\ \/ chrome.at \notin {"gone", "exited"} /\ chrome' = [chrome EXCEPT !.at = "exited"]
          /\ UNCHANGED <<owner, module>>
       \/ owner = "alive" /\ owner' = "exited" /\ UNCHANGED <<chrome, module>>
       \/ stage # "prepare" /\ module' = "edited" /\ UNCHANGED <<chrome, owner>>
    /\ UNCHANGED <<transport, stage, phase, finding, disk, seen, killed>>

-----------------------------------------------------------------------------
(* The harness.                                                             *)

(* The process whose group is killed. *)
LeaderAlive == IF transport = "pipe" THEN owner = "alive" ELSE chrome.at \notin {"gone", "exited"}

(* What the finally clauses leave: the legacy one kills each browser that   *)
(* runs, the one of the pipe kills the group only while its leader lives.   *)
LeftRunning == IF stage = "work" THEN chrome ELSE NoChrome \* mutant: a call that fails leaves it
Left ==
    IF transport = "pipe" /\ ~LeaderAlive /\ chrome.at # "exited" THEN chrome ELSE NoChrome

Close(verdict) ==
    /\ stage' = "done" /\ finding' = verdict /\ chrome' = Left /\ owner' = Absent
    /\ UNCHANGED <<transport, phase, disk, module, seen, killed>>

(* The built extension and a fresh profile; or no browser, no build.  The   *)
(* pipe only reports the first of these, the other is an exception.         *)
PrepareExtension ==
    \/ /\ stage = "prepare" /\ stage' = "launch"
       /\ UNCHANGED <<transport, phase, finding, chrome, owner, disk, module, seen, killed, mishap>>
    \/ stage = "prepare" /\ Close("BLOCKED_ENVIRONMENT") /\ UNCHANGED mishap
    \/ stage = "prepare" /\ transport = "pipe" /\ Close("REJECTED") /\ mishap' = TRUE

StartBrowser ==
    /\ stage = "launch" /\ stage' = "await"
    /\ chrome' = [phase |-> phase, at |-> "started", loaded |-> Absent]
    /\ owner' = IF transport = "pipe" THEN "alive" ELSE Absent
    /\ UNCHANGED <<transport, phase, finding, disk, module, seen, killed, mishap>>

(* _wait_for_target and _wait_for_probe; the pipe waits for its owner only, *)
(* which waits for the page.                                                *)
ProbeReady ==
    /\ stage = "await" /\ LeaderAlive
    /\ transport = "legacy" => chrome.at = "probe"
    /\ stage' = "work"
    /\ UNCHANGED <<transport, phase, finding, chrome, owner, disk, module, seen, killed, mishap>>

TakeAnswer ==
    /\ stage = "work" /\ Len(seen) = phase
    /\ stage' = IF transport = "legacy" /\ phase = 2 THEN "validate" ELSE "kill"
    /\ UNCHANGED <<transport, phase, finding, chrome, owner, disk, module, seen, killed, mishap>>

(* SIGKILL to the group of a leader that lives. *)
KillGroup ==
    /\ stage = "kill" /\ LeaderAlive
    /\ killed' = Append(killed, [browser |-> chrome.at, disk |-> disk])
    /\ chrome' = NoChrome /\ owner' = Absent
    /\ phase' = 2 /\ stage' = IF phase = 1 THEN "launch" ELSE "validate"
    /\ UNCHANGED <<transport, finding, disk, module, seen, mishap>>

KillUnowned ==
    /\ stage = "kill" /\ ~LeaderAlive /\ Close("REJECTED") /\ UNCHANGED mishap

(* A wait or a call meets an ended process: of the legacy start it is a     *)
(* blocked environment, whichever phase it is.                              *)
PhaseFails ==
    /\ stage \in {"await", "work"} /\ ~LeaderAlive
    /\ Close(IF transport = "legacy" /\ stage = "await" THEN "BLOCKED_ENVIRONMENT"
             ELSE "REJECTED")
    /\ UNCHANGED mishap

PhaseDeadline ==
    /\ stage \in {"await", "work"} /\ mishap' = TRUE
    /\ \/ Close("REJECTED")
       \/ transport = "legacy" /\ stage = "await" /\ Close("BLOCKED_ENVIRONMENT")

(* _verify_hosted_pipe: both groups killed, the module compared once more.  *)
PipeEvidenceHolds == Len(killed) = 2 /\ module = "prepared"

(* validate_qualification_evidence.                                         *)
EvidenceBlind ==                         \* mutant: the second module is not compared
    /\ \A p \in 1..2 : seen[p].sentinel = "sentinel"
    /\ seen[1].module = "prepared" /\ Len(killed) >= 1
    /\ transport = "pipe" => PipeEvidenceHolds
QualificationHolds ==
    /\ \A p \in 1..2 : seen[p].sentinel = "sentinel" /\ seen[p].module = "prepared"
    /\ Len(killed) >= 1
    /\ transport = "pipe" => PipeEvidenceHolds

ValidateQualification ==
    /\ stage = "validate"
    /\ Close(IF QualificationHolds THEN "PASS" ELSE "REJECTED") /\ UNCHANGED mishap

Qualifier ==
    \/ PrepareExtension \/ StartBrowser \/ ProbeReady \/ TakeAnswer \/ KillGroup \/ KillUnowned
    \/ PhaseFails \/ PhaseDeadline \/ ValidateQualification

-----------------------------------------------------------------------------
ProbeInit ==
    /\ transport \in {"legacy", "pipe"} /\ stage = "prepare" /\ phase = 1 /\ finding = Absent
    /\ chrome = NoChrome /\ owner = Absent /\ disk = Absent /\ module = "prepared"
    /\ seen = <<>> /\ killed = <<>> /\ mishap = FALSE

ProbeNext == Browser \/ OwnerFails \/ Mishap \/ Qualifier

(* The harness runs on, its deadlines included. *)
ProbeFairness == WF_probeVars(Qualifier)

ProbeSpec == ProbeInit /\ [][ProbeNext]_probeVars /\ ProbeFairness

-----------------------------------------------------------------------------
(* A PASS is what it claims: the first browser was killed while its group   *)
(* was owned and after the sentinel was on disk, a second one read it, and  *)
(* both ran the prepared module.                                            *)
QualifiedMeansDurable ==
    finding = "PASS" =>
        /\ killed[1].disk = "sentinel"
        /\ transport = "legacy" => killed[1].browser = "answered"
        /\ \A p \in 1..2 : seen[p].loaded = "prepared"

(* The qualification rejects only what went wrong. *)
RejectHasCause == finding = "REJECTED" => mishap

(* It comes to an end and leaves no browser, save one whose pipe owner      *)
(* ended before it.                                                         *)
QualificationEnds ==
    <>[](stage = "done" /\ (chrome.at # "gone" => transport = "pipe" /\ mishap))
=============================================================================
