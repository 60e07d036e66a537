------------------------------ MODULE Evidence ------------------------------
(***************************************************************************)
(* The full repair campaign and its proof:                                 *)
(*   run_full_repair_evidence     five owners execute their cases and the  *)
(*                                mutations of those cases;                *)
(*   aggregate_repair_evidence, validate_full_mutation_reports and         *)
(*   validate_full_durability_release                                      *)
(*                                judge the records they left behind;      *)
(*   run_full_repair_qualification                                         *)
(*                                retains the files the records reference, *)
(*                                judges the records again from the        *)
(*                                retained copies and writes the P03 proof;*)
(*   verify_full_repair_qualification                                      *)
(*                                does that last part alone, later, and    *)
(*                                writes the P04 proof.                    *)
(* Meanwhile a developer edits and compiles the working tree, files are    *)
(* altered, prerequisites come and go, and a process may die anywhere.     *)
(*                                                                         *)
(* A working tree is one value: capture_binding hashes it, so a binding is *)
(* the tree it was captured from.  An owner has one case and one mutated   *)
(* trial of it, and the files of both are one file, named after the owner. *)
(***************************************************************************)
EXTENDS Naturals, Sequences, SequencesExt

CONSTANTS
    Trees,        \* contents the working tree may have
    Broken,       \* <<t, o>>: the program of tree t fails the case of o
    Blind,        \* <<t, o>>: tree t's comparator accepts the mutation of o
    Runners,      \* processes of run_full_repair_qualification (P03)
    Verifiers,    \* processes of verify_full_repair_qualification (P04)
    MaxEvents,    \* bound on edits, outages, altered files and deaths together
    None

ASSUME EvidenceAssumption ==
    /\ None \notin Trees \cup Runners \cup Verifiers \cup {"PASS"}
    /\ Runners \cap Verifiers = {}

Owners == <<"SQL", "BROWSER", "GAP", "DESTRUCTION", "CLOCK">>
OwnerSet == Range(Owners)
TypeScript == {"BROWSER", "DESTRUCTION", "CLOCK"}   \* run compiled modules
Procs == Runners \cup Verifiers
Files == OwnerSet \cup {"AGGREGATE"}

VARIABLES
    tree,         \* the working tree
    edits,        \* how often it was edited
    seen,         \* history: the trees it has been
    undone,       \* history: an edit brought back an earlier tree
    fresh,        \* history: the build was of the tree at the start
    build,        \* the tree that extension/.test-build was compiled from
    up,           \* prerequisites present: "chrome", "node"
    proc,         \* the processes
    campaign,     \* who created the campaign directory
    files,        \* the campaign's files: [by, ok], or None
    aggregate,    \* the aggregate's content: [by, rows, trials], or None
    copies,       \* the retained copies
    foreign,      \* an undeclared file is among them
    inventory,    \* the digests the inventory records, or None
    proof,        \* the proofs "P03" and "P04"
    faults        \* outages, alterations and deaths so far

disk == <<campaign, files, aggregate, copies, foreign, inventory, proof>>
world == <<tree, edits, seen, undone, fresh, build, up>>
vars == <<world, proc, disk, faults>>

(* What each owner does, stage by stage.  SQL and the gap matrix capture    *)
(* their binding once, before the first case; the browser before each case; *)
(* the destruction case only after it has run.  owner_mutation_evidence     *)
(* captures another before the trials of SQL and the browser, each mutated  *)
(* destruction execution one after its own, and the clock's validation      *)
(* scope captures again when it ends.                                       *)
Stages(o) ==
    CASE o \in {"SQL", "BROWSER"} -> <<"capture", "case", "recapture", "trial">>
      [] o = "GAP"                -> <<"capture", "case", "trial">>
      [] o = "DESTRUCTION"        -> <<"case", "capture", "trial", "recapture">>
      [] o = "CLOCK"              -> <<"capture", "case", "trial", "drift">>

NoRow == [status |-> None, bound |-> None, ran |-> None, mods |-> None]
NoTrial == [bound |-> None, ran |-> None, mods |-> None, detected |-> FALSE]

Idle == [pc |-> "idle", own |-> 1, stage |-> 1,
         rows |-> [o \in OwnerSet |-> NoRow],
         trials |-> [o \in OwnerSet |-> NoTrial],
         read |-> [f \in Files |-> None],
         snap |-> None, round |-> 1, ok |-> TRUE,
         cache |-> [t \in Trees |-> None]]

Init ==
    /\ tree \in Trees /\ edits = 0 /\ seen = {tree} /\ undone = FALSE
    /\ build \in Trees /\ fresh = (build = tree) /\ up = {"chrome", "node"}
    /\ proc = [p \in Procs |-> Idle]
    /\ campaign = None /\ files = [f \in Files |-> None] /\ aggregate = None
    /\ copies = [f \in Files |-> None] /\ foreign = FALSE
    /\ inventory = None /\ proof = [k \in {"P03", "P04"} |-> None]
    /\ faults = 0

-----------------------------------------------------------------------------
(* Helpers on one process. *)

Owner(p) == Owners[proc[p].own]
At(p, stage) == /\ proc[p].pc = "owner"
                /\ Stages(Owner(p))[proc[p].stage] = stage

(* The next stage of the owner, the next owner, or the judging. *)
Next1(d) ==
    IF d.stage < Len(Stages(Owners[d.own])) THEN [d EXCEPT !.stage = @ + 1]
    ELSE IF d.own < Len(Owners) THEN [d EXCEPT !.own = @ + 1, !.stage = 1]
    ELSE [d EXCEPT !.pc = "judge"]

Becomes(p, d) == proc' = [proc EXCEPT ![p] = d]
Reject(p) == Becomes(p, [proc[p] EXCEPT !.pc = "rejected"])

(* What _compiled_typescript_module_hashes answers for a binding: the       *)
(* result of an earlier call of this process with that binding, or else a   *)
(* compilation of the tree as it is now.                                    *)
Compiled(d, key) == IF d.cache[key] # None THEN d.cache[key] ELSE tree
Compiling(d, key) == [d EXCEPT !.cache[key] = Compiled(d, key)]

Good(r) == [by |-> r, ok |-> TRUE]      \* the bytes runner r recorded

-----------------------------------------------------------------------------
(* The campaign. *)

(* run_full_repair_qualification refuses existing outputs... *)
Begin(r) ==
    /\ proc[r].pc = "idle"
    /\ IF \/ files["AGGREGATE"] # None \/ inventory # None \/ proof["P03"] # None
          \/ campaign # None \/ \E f \in Files : copies[f] # None
       THEN Becomes(r, [proc[r] EXCEPT !.pc = "refused"])
       ELSE Becomes(r, [proc[r] EXCEPT !.pc = "claim"])
    /\ UNCHANGED <<world, disk, faults>>

(* ...and run_full_repair_evidence creates the campaign directory, which    *)
(* must not exist by then either.                                           *)
ClaimAny(r) ==
    /\ proc[r].pc = "claim"
    /\ campaign' = r
    /\ Becomes(r, [proc[r] EXCEPT !.pc = "owner"])
    /\ UNCHANGED <<world, files, aggregate, copies, foreign, inventory, proof, faults>>

Claim(r) ==
    IF campaign = None THEN ClaimAny(r)
    ELSE /\ proc[r].pc = "claim"
         /\ Becomes(r, [proc[r] EXCEPT !.pc = "refused"])
         /\ UNCHANGED <<world, disk, faults>>

(* capture_binding: the owner's rows will carry the tree of this moment. *)
Capture(r) ==
    /\ At(r, "capture")
    /\ Becomes(r, Next1([proc[r] EXCEPT !.rows[Owner(r)].bound = tree]))
    /\ UNCHANGED <<world, disk, faults>>

(* An owner without its prerequisite reports the case BLOCKED; the          *)
(* destruction matrix does not catch it and the campaign ends.              *)
Blocked(o) == \/ o \in {"BROWSER", "DESTRUCTION"} /\ "chrome" \notin up
              \/ o = "CLOCK" /\ "node" \notin up

(* The program under test answers right: the sources and, for an owner that *)
(* runs compiled modules, the sources those were compiled from.             *)
Right(o) == /\ <<tree, o>> \notin Broken
            /\ o \in TypeScript => <<build, o>> \notin Broken

(* One case: its processes run on the tree, leave their files, and the      *)
(* owner checks the record where it does.                                   *)
CaseOf(r, o) == At(r, "case") /\ Owner(r) = o

Keep(r, d, status) ==
    LET o == Owner(r)
        mods == IF o \in TypeScript THEN build ELSE None
    IN /\ Becomes(r, Next1([d EXCEPT !.rows[o].status = status, !.rows[o].ran = tree,
                                     !.rows[o].mods = mods]))
       /\ files' = [files EXCEPT ![o] = Good(r)]

ReportBlocked(r) ==
    Becomes(r, Next1([proc[r] EXCEPT !.rows[Owner(r)].status = "BLOCKED"])) /\ UNCHANGED files

Stop(r) == Reject(r) /\ UNCHANGED files

(* SQL and the gap matrix raise on a wrong answer. *)
SqlCase(r) ==
    /\ CaseOf(r, "SQL")
    /\ IF Right("SQL") THEN Keep(r, proc[r], "PASS") ELSE Stop(r)

GapCase(r) ==
    /\ CaseOf(r, "GAP")
    /\ IF Right("GAP") THEN Keep(r, proc[r], "PASS") ELSE Stop(r)

(* The browser's record is verified at once, compiled modules included. *)
BrowserCase(r) ==
    /\ CaseOf(r, "BROWSER")
    /\ LET bound == proc[r].rows["BROWSER"].bound
           d == Compiling(proc[r], bound)
       IN IF Blocked("BROWSER") THEN ReportBlocked(r)
          ELSE IF Right("BROWSER") /\ build = Compiled(d, bound) THEN Keep(r, d, "PASS")
          ELSE Stop(r)

(* The destruction case ends the campaign where the others report BLOCKED. *)
DestructionCase(r) ==
    /\ CaseOf(r, "DESTRUCTION")
    /\ IF ~Blocked("DESTRUCTION") /\ Right("DESTRUCTION")
       THEN Keep(r, proc[r], "PASS") ELSE Stop(r)

(* The clock keeps the record of a failed vector. *)
ClockCase(r) ==
    /\ CaseOf(r, "CLOCK")
    /\ IF Blocked("CLOCK") THEN ReportBlocked(r)
       ELSE Keep(r, proc[r], IF Right("CLOCK") THEN "PASS" ELSE "FAIL")

RunCase(r) ==
    /\ \/ SqlCase(r) \/ BrowserCase(r) \/ GapCase(r) \/ DestructionCase(r) \/ ClockCase(r)
    /\ UNCHANGED <<world, campaign, aggregate, copies, foreign, inventory, proof, faults>>

(* The binding of the trials.  Destruction verifies its record and the      *)
(* trials nested in it here: one binding, and modules compiled from it.     *)
RecaptureTrials(r) ==
    /\ At(r, "recapture") /\ Owner(r) \in {"SQL", "BROWSER"}
    /\ Becomes(r, Next1([proc[r] EXCEPT !.trials[Owner(r)].bound = tree]))
    /\ UNCHANGED <<world, disk, faults>>

RecaptureDestruction(r) ==
    /\ At(r, "recapture") /\ Owner(r) = "DESTRUCTION"
    /\ LET row == proc[r].rows["DESTRUCTION"]
           d == Compiling(proc[r], row.bound)
           mods == {row.mods, proc[r].trials["DESTRUCTION"].mods}
       IN IF tree = row.bound /\ mods = {Compiled(d, row.bound)}
          THEN Becomes(r, Next1([d EXCEPT !.trials["DESTRUCTION"].bound = tree]))
          ELSE Reject(r)
    /\ UNCHANGED <<world, disk, faults>>

(* The mutated trials.  A surviving mutation ends the campaign, except in   *)
(* the clock's report, which keeps it.                                      *)
TrialOf(r, o) == At(r, "trial") /\ Owner(r) = o
Caught(o) == <<tree, o>> \notin Blind

KeepTrial(r, d, bound, detected) ==
    LET o == Owner(r)
        mods == IF o \in TypeScript THEN build ELSE None
    IN Becomes(r, Next1([d EXCEPT !.trials[o] =
           [bound |-> bound, ran |-> tree, mods |-> mods, detected |-> detected]]))

(* SQL and the browser need the control to PASS under the trials' own       *)
(* binding and the child that ran the trial to have captured that binding.  *)
Controlled(r, o) ==
    /\ proc[r].rows[o].status = "PASS"
    /\ proc[r].trials[o].bound = proc[r].rows[o].bound
    /\ tree = proc[r].trials[o].bound
    /\ files[o] = Good(r)

SqlTrial(r) ==
    /\ TrialOf(r, "SQL")
    /\ IF Right("SQL") /\ Controlled(r, "SQL") /\ Caught("SQL")
       THEN KeepTrial(r, proc[r], proc[r].trials["SQL"].bound, TRUE)
       ELSE Reject(r)

BrowserTrial(r) ==
    /\ TrialOf(r, "BROWSER")
    /\ LET bound == proc[r].trials["BROWSER"].bound
           d == Compiling(proc[r], bound)
       IN IF /\ ~Blocked("BROWSER") /\ Right("BROWSER")
             /\ Controlled(r, "BROWSER") /\ Caught("BROWSER")
             /\ build = Compiled(d, bound)
          THEN KeepTrial(r, d, bound, TRUE)
          ELSE Reject(r)

(* The gap trials inherit the matrix's binding, compared with nothing. *)
GapTrial(r) ==
    /\ TrialOf(r, "GAP")
    /\ IF Right("GAP") /\ Caught("GAP")
       THEN KeepTrial(r, proc[r], proc[r].rows["GAP"].bound, TRUE)
       ELSE Reject(r)

DestructionTrial(r) ==
    /\ TrialOf(r, "DESTRUCTION")
    /\ IF ~Blocked("DESTRUCTION") /\ Right("DESTRUCTION") /\ Caught("DESTRUCTION")
       THEN KeepTrial(r, proc[r], proc[r].trials["DESTRUCTION"].bound, TRUE)
       ELSE Reject(r)

(* The clock's trial has a control run of its own, and counts as detected   *)
(* also when its record does not verify.                                    *)
ClockTrial(r) ==
    /\ TrialOf(r, "CLOCK")
    /\ LET bound == proc[r].rows["CLOCK"].bound
           d == Compiling(proc[r], bound)
       IN KeepTrial(r, d, bound, /\ ~Blocked("CLOCK") /\ Right("CLOCK")
                                 /\ Caught("CLOCK") \/ build # Compiled(d, bound))

RunTrial(r) ==
    /\ \/ SqlTrial(r) \/ BrowserTrial(r) \/ GapTrial(r)
       \/ DestructionTrial(r) \/ ClockTrial(r)
    /\ UNCHANGED <<world, disk, faults>>

(* The end of the clock campaign's validation scope. *)
Drift(r) ==
    /\ At(r, "drift")
    /\ IF tree # proc[r].rows["CLOCK"].bound THEN Reject(r)
       ELSE Becomes(r, Next1(proc[r]))
    /\ UNCHANGED <<world, disk, faults>>

-----------------------------------------------------------------------------
(* Judging: two rounds on the campaign's own files and, when those find     *)
(* nothing, two more for the release gate; the same four on the retained    *)
(* copies.  Odd rounds are aggregate_repair_evidence, even ones             *)
(* validate_full_mutation_reports.                                          *)

Live(p) == proc[p].pc \in {"judge", "judged"}
Judging(p) == proc[p].pc \in {"judge", "rejudge"}
Controls(p) == proc[p].round % 2 = 1

(* The records a process judges: a campaign has them in memory, the         *)
(* verification reads them from the retained aggregate.                     *)
Rows(p) == IF Live(p) THEN proc[p].rows ELSE aggregate.rows
Trials(p) == IF Live(p) THEN proc[p].trials ELSE aggregate.trials

(* The bytes at an owner's recorded path are those the record hashes.       *)
Intact(p, o) == IF Live(p) THEN files[o] = Good(p)
                ELSE copies[o] = Good(aggregate.by)

(* A verified record: the binding is the one captured for this judgement,   *)
(* the referenced bytes are the recorded ones, and the modules that ran are *)
(* those the binding compiles to.                                           *)
BoundAndIntact(p, d, o) == Rows(p)[o].bound = d.snap /\ Intact(p, o)
CompiledFrom(p, d, o) == Rows(p)[o].mods = Compiled(d, d.snap)

VerifySqlCompiled(p, d) ==     \* mutant: modules asked of an owner that runs none
    BoundAndIntact(p, d, "SQL") /\ CompiledFrom(p, d, "SQL")

VerifySql(p, d) == BoundAndIntact(p, d, "SQL")
VerifyGap(p, d) == BoundAndIntact(p, d, "GAP")
VerifyBrowser(p, d) == BoundAndIntact(p, d, "BROWSER") /\ CompiledFrom(p, d, "BROWSER")
VerifyDestruction(p, d) ==
    BoundAndIntact(p, d, "DESTRUCTION") /\ CompiledFrom(p, d, "DESTRUCTION")

(* Only the clock's BLOCKED records carry a binding, and it is verified. *)
VerifyClock(p, d) ==
    /\ Rows(p)["CLOCK"].bound = d.snap
    /\ \/ Rows(p)["CLOCK"].status = "BLOCKED"
       \/ Intact(p, "CLOCK") /\ CompiledFrom(p, d, "CLOCK")

VerifyExecuted(p, d, o) == [SQL |-> VerifySql(p, d), BROWSER |-> VerifyBrowser(p, d),
                            GAP |-> VerifyGap(p, d), CLOCK |-> VerifyClock(p, d),
                            DESTRUCTION |-> VerifyDestruction(p, d)][o]

RecordFine(p, d, o) ==
    \/ Rows(p)[o].status = "PASS" /\ VerifyExecuted(p, d, o)
    \/ Rows(p)[o].status = "BLOCKED" /\ (o = "CLOCK" => VerifyClock(p, d))

(* The result is PASS when no record is in error and every one passed.      *)
AllPass(p, d) == \A o \in OwnerSet : /\ Rows(p)[o].status = "PASS"
                                      /\ RecordFine(p, d, o)

(* A mutation counts when its owner detected it and its evidence verifies   *)
(* under the binding of the round; the evidence of SQL's and the browser's  *)
(* includes their controls.                                                 *)
TrialBound(p, d, o) == Trials(p)[o].bound = d.snap /\ Intact(p, o)
TrialCompiled(p, d, o) == Trials(p)[o].mods = Compiled(d, d.snap)

OwnerTrialFine(p, d, o) ==
    /\ TrialBound(p, d, o)
    /\ Rows(p)[o].status = "PASS" /\ VerifyExecuted(p, d, o)
    /\ o \in TypeScript => TrialCompiled(p, d, o)

GapTrialFine(p, d) == TrialBound(p, d, "GAP")

DestructionTrialFine(p, d) == TrialBound(p, d, "DESTRUCTION") /\ TrialCompiled(p, d, "DESTRUCTION")

(* Each clock record opens a validation scope of its own, so there the tree *)
(* must still be that one.                                                  *)
ClockTrialFine(p, d) ==
    /\ TrialBound(p, d, "CLOCK") /\ TrialCompiled(p, d, "CLOCK")
    /\ tree = d.snap

TrialsFineUndetected(p, d) ==     \* mutant: evidence without a detection
    /\ GapTrialFine(p, d) /\ DestructionTrialFine(p, d) /\ ClockTrialFine(p, d)
    /\ \A o \in {"SQL", "BROWSER"} : OwnerTrialFine(p, d, o)

TrialsFine(p, d) ==
    /\ \A o \in OwnerSet : Trials(p)[o].detected
    /\ GapTrialFine(p, d) /\ DestructionTrialFine(p, d) /\ ClockTrialFine(p, d)
    /\ \A o \in {"SQL", "BROWSER"} : OwnerTrialFine(p, d, o)

(* A round starts by capturing the binding... *)
Snap(p) ==
    /\ Judging(p) /\ proc[p].snap = None
    /\ Becomes(p, [proc[p] EXCEPT !.snap = tree])
    /\ UNCHANGED <<world, disk, faults>>

(* ...then judges; a round of controls waits for its drift check, and a     *)
(* round of mutations closes the pair.                                      *)
Judge(p) ==
    /\ proc[p].pc \in {"judge", "rejudge"} /\ proc[p].snap # None
    /\ LET d == Compiling(proc[p], proc[p].snap)
       IN IF Controls(p)
          THEN Becomes(p, [d EXCEPT !.ok = @ /\ AllPass(p, d),
                               !.pc = IF @ = "judge" THEN "judged" ELSE "rejudged"])
          ELSE IF ~TrialsFine(p, d) THEN Reject(p)
          ELSE IF ~d.ok THEN Reject(p)
          ELSE IF d.round = 2 THEN Becomes(p, [d EXCEPT !.round = 3, !.snap = None])
          ELSE IF d.pc = "rejudge" THEN Becomes(p, [d EXCEPT !.pc = "prove"])
          ELSE Becomes(p, [d EXCEPT !.snap = None, !.round = 1, !.pc = "write"])
    /\ UNCHANGED <<world, disk, faults>>

(* _clock_validation_scope: the inputs are captured again and compared.     *)
DriftCheck(p) ==
    /\ proc[p].pc \in {"judged", "rejudged"}
    /\ Becomes(p, [proc[p] EXCEPT !.ok = @ /\ tree = proc[p].snap,
                        !.pc = IF @ = "judged" THEN "judge" ELSE "rejudge",
                        !.snap = None, !.round = @ + 1])
    /\ UNCHANGED <<world, disk, faults>>

-----------------------------------------------------------------------------
(* Retaining. *)

WriteAggregate(r) ==
    /\ proc[r].pc = "write"
    /\ aggregate' = [by |-> r, rows |-> proc[r].rows, trials |-> proc[r].trials]
    /\ files' = [files EXCEPT !["AGGREGATE"] = Good(r)]
    /\ Becomes(r, [proc[r] EXCEPT !.pc = "collect"])
    /\ UNCHANGED <<world, campaign, copies, foreign, inventory, proof, faults>>

(* collect_retained_sources hashes every referenced file.                   *)
Collect(r) ==
    /\ proc[r].pc = "collect"
    /\ IF \A o \in OwnerSet : files[o] = Good(r)
       THEN Becomes(r, [proc[r] EXCEPT !.pc = "copy"])
       ELSE Reject(r)
    /\ UNCHANGED <<world, disk, faults>>

(* write_closed_inventory reads each file again, the aggregate first, copies *)
(* what it read and records the digest of that; the inventory comes last.   *)
CopyOrder == <<"AGGREGATE">> \o Owners

Copy(r) ==
    /\ proc[r].pc = "copy"
    /\ \E i \in DOMAIN CopyOrder :
          /\ copies[CopyOrder[i]] = None /\ \A j \in 1..(i - 1) : copies[CopyOrder[j]] # None
          /\ copies' = [copies EXCEPT ![CopyOrder[i]] = files[CopyOrder[i]]]
          /\ Becomes(r, [proc[r] EXCEPT !.read[CopyOrder[i]] = files[CopyOrder[i]],
                             !.pc = IF i < Len(CopyOrder) THEN @ ELSE "inventory"])
    /\ UNCHANGED <<world, campaign, files, aggregate, foreign, inventory, proof, faults>>

WriteInventory(r) ==
    /\ proc[r].pc = "inventory"
    /\ inventory' = [f \in Files |-> proc[r].read[f]]
    /\ Becomes(r, [proc[r] EXCEPT !.pc = "load"])
    /\ UNCHANGED <<world, campaign, files, aggregate, copies, foreign, proof, faults>>

-----------------------------------------------------------------------------
(* Verifying the retained set. *)

(* The P04 command; without an inventory, or with its proof already there,  *)
(* it ends at once and changes nothing.                                     *)
StartVerify(v) ==
    /\ proc[v].pc = "idle"
    /\ inventory # None /\ proof["P04"] = None
    /\ Becomes(v, [proc[v] EXCEPT !.pc = "load"])
    /\ UNCHANGED <<world, disk, faults>>

(* RetainedArtifactIO.from_manifest: exactly the listed files, each with    *)
(* the listed bytes.                                                        *)
ExactSet == ~foreign /\ \A f \in Files : copies[f] = inventory[f]

(* validate_inventory_closure: the listed digests are those the aggregate   *)
(* references.  Its own digest is taken from the copy at hand.              *)
Closed == \A o \in OwnerSet : inventory[o] = Good(aggregate.by)

(* P04 also compares the copy of the aggregate with the aggregate.  A copy  *)
(* of an aggregate that was altered before it was copied may still parse    *)
(* and carry the same records, or may not.                                  *)
LoadInventory(p) ==
    /\ proc[p].pc = "load"
    /\ \/ /\ ExactSet /\ Closed
          /\ p \in Verifiers => copies["AGGREGATE"] = files["AGGREGATE"]
          /\ Becomes(p, [proc[p] EXCEPT !.pc = "rejudge"])
       \/ /\ \/ ~ExactSet \/ ~Closed \/ ~copies["AGGREGATE"].ok
             \/ p \in Verifiers /\ copies["AGGREGATE"] # files["AGGREGATE"]
          /\ Reject(p)
    /\ UNCHANGED <<world, disk, faults>>

Kind(p) == IF p \in Runners THEN "P03" ELSE "P04"

(* The proof is created exclusively, after everything else. *)
Prove(p) ==
    /\ proc[p].pc = "prove"
    /\ IF proof[Kind(p)] # None
       THEN Reject(p) /\ UNCHANGED proof
       ELSE /\ proof' = [proof EXCEPT ![Kind(p)] = [by |-> p, snap |-> proc[p].snap]]
            /\ Becomes(p, [proc[p] EXCEPT !.pc = "done"])
    /\ UNCHANGED <<world, campaign, files, aggregate, copies, foreign, inventory, faults>>

-----------------------------------------------------------------------------
(* The world around the processes. *)

Edit(t) ==
    /\ edits + faults < MaxEvents /\ t # tree
    /\ tree' = t /\ seen' = seen \cup {t} /\ edits' = edits + 1
    /\ undone' = (undone \/ t \in seen)
    /\ UNCHANGED <<fresh, build, up, proc, disk, faults>>

Compile ==
    /\ build # tree /\ build' = tree
    /\ UNCHANGED <<tree, edits, seen, undone, fresh, up, proc, disk, faults>>

Fault == edits + faults < MaxEvents /\ faults' = faults + 1

Outage(x) ==
    /\ x \in up /\ up' = up \ {x} /\ Fault
    /\ UNCHANGED <<tree, edits, seen, undone, fresh, build, proc, disk>>

Return(x) ==
    /\ x \notin up /\ up' = up \cup {x}
    /\ UNCHANGED <<tree, edits, seen, undone, fresh, build, proc, disk, faults>>

AlterFile(f) ==
    /\ files[f] # None /\ files[f].ok /\ Fault
    /\ files' = [files EXCEPT ![f].ok = FALSE]
    /\ UNCHANGED <<world, proc, campaign, aggregate, copies, foreign, inventory, proof>>

AlterCopy(f) ==
    /\ copies[f] # None /\ copies[f].ok /\ Fault
    /\ copies' = [copies EXCEPT ![f].ok = FALSE]
    /\ UNCHANGED <<world, proc, campaign, files, aggregate, foreign, inventory, proof>>

AddForeign ==
    /\ ~foreign /\ copies["AGGREGATE"] # None /\ Fault
    /\ foreign' = TRUE
    /\ UNCHANGED <<world, proc, campaign, files, aggregate, copies, inventory, proof>>

Finished == {"idle", "refused", "rejected", "done", "dead"}

Die(p) ==
    /\ proc[p].pc \notin Finished /\ Fault
    /\ Becomes(p, [proc[p] EXCEPT !.pc = "dead"])
    /\ UNCHANGED <<world, disk>>

Campaign(r) == \/ Begin(r) \/ Claim(r) \/ Capture(r) \/ RunCase(r) \/ RunTrial(r)
               \/ RecaptureTrials(r) \/ RecaptureDestruction(r) \/ Drift(r)
               \/ WriteAggregate(r) \/ Collect(r) \/ Copy(r) \/ WriteInventory(r)
Validation(p) == Snap(p) \/ Judge(p) \/ DriftCheck(p) \/ LoadInventory(p) \/ Prove(p)

Next == \/ \E r \in Runners : Campaign(r)
        \/ \E v \in Verifiers : StartVerify(v)
        \/ \E p \in Procs : Validation(p) \/ Die(p)
        \/ \E t \in Trees : Edit(t)
        \/ Compile \/ AddForeign
        \/ \E x \in {"chrome", "node"} : Outage(x) \/ Return(x)
        \/ \E f \in Files : AlterFile(f) \/ AlterCopy(f)

Spec == Init /\ [][Next]_vars

-----------------------------------------------------------------------------
(* Every proof is earned: if no edit was undone meanwhile, one tree, the one *)
(* the last judgement captured, is what every owner recorded, what every    *)
(* case and every mutated trial really ran on, and what the compiled        *)
(* modules they loaded came from; its program passes every case and its     *)
(* comparators reject every mutation.  No owner sees this by itself: the    *)
(* gap trials compare the tree with nothing, the destruction case binds     *)
(* itself to the tree it finds when it is over (run_destruction_crash_      *)
(* matrix.py:268).                                                          *)
EarnedOnOneTree ==
    \A k \in {"P03", "P04"} : (proof[k] # None /\ ~undone) =>
        LET t == proof[k].snap IN
        \A o \in OwnerSet :
            /\ aggregate.rows[o].status = "PASS"
            /\ aggregate.rows[o].bound = t /\ aggregate.rows[o].ran = t
            /\ aggregate.trials[o].bound = t /\ aggregate.trials[o].ran = t
            /\ o \in TypeScript => {aggregate.rows[o].mods, aggregate.trials[o].mods} = {t}
            /\ <<t, o>> \notin Broken \cup Blind

(* One campaign per evidence directory: of two runners started together one *)
(* gets it, and a campaign that died or was rejected never has a proof, not *)
(* even from a later run.  And a proof is of that campaign only, whatever   *)
(* was undone: its records name one binding, and the retained digests are   *)
(* those of the files the campaign wrote, although the copy reads each file *)
(* a second time after its hash was checked                                 *)
(* (run_full_repair_qualification.py:243).                                  *)
OneCampaign ==
    /\ \A r \in Runners :
           proc[r].pc \notin {"idle", "claim", "refused", "dead"} => campaign = r
    /\ proof["P03"] # None => proc[campaign].pc = "done"
    /\ \A k \in {"P03", "P04"} : proof[k] # None =>
           /\ aggregate.by = campaign
           /\ \A o \in OwnerSet : /\ inventory[o] = Good(campaign)
                                  /\ aggregate.rows[o].bound = proof[k].snap
                                  /\ aggregate.trials[o].bound = proof[k].snap

(* A qualification proof was earned: on one tree, by one campaign.          *)
ProofEarned == EarnedOnOneTree /\ OneCampaign

(* A campaign is rejected for a reason: an edit, a fault, sources that do   *)
(* not pass, or a build that is not of these sources; a verification also   *)
(* because another one wrote the proof first.  The checks that make a proof *)
(* hard to get wrong do not reject an honest, undisturbed run.              *)
Sound(t) == \A o \in OwnerSet : <<t, o>> \notin Broken \cup Blind
ProvedByOther(p) == p \in Verifiers /\ proof["P04"] # None /\ proof["P04"].by # p
RejectedForReason ==
    (\E p \in Procs : proc[p].pc = "rejected" /\ ~ProvedByOther(p)) =>
        edits > 0 \/ faults > 0 \/ ~Sound(tree) \/ ~fresh
=============================================================================
