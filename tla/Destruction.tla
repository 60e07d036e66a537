----------------------------- MODULE Destruction -----------------------------
(***************************************************************************)
(* The destruction of a closed run: destruction_crash_child.py and the     *)
(* mechanics of destruction_support.py.  A process consumes the authority  *)
(* in the run's database, keeps copies of the consumption and of the       *)
(* intent outside the run, deletes the browser's store and the database,   *)
(* and writes a proof.  It may be killed between any two durable effects;  *)
(* a recovery process then goes through the same steps again.              *)
(*                                                                         *)
(* A plan is the authorized one, one that validate_plan refuses, or another *)
(* valid one put in its place while no process ran; its contents           *)
(* and signature are abstracted.  A file is absent, partly written or       *)
(* complete.                                                                *)
(***************************************************************************)
EXTENDS Naturals

CONSTANT MaxKills   \* bound on kills

ASSUME ConstantsAssumption == MaxKills \in Nat

VARIABLES
  plan,         \* precommit.json, as the process reads it when it starts
  boundary,     \* the checkpoint this case stops its first process at
  pc,           \* the step the process is at, or the artifact it is writing
  recovering,   \* whether the process is a recovery
  row,          \* the consumption is committed in the database
  status,       \* run_meta.run_status
  store,        \* which of database, sidecars and browser store are still there
  file,         \* state of the external artifacts
  kills

destructionVars == <<plan, boundary, pc, recovering, row, status, store, file, kills>>

RunStores == {"DATABASE", "SIDECARS", "BROWSER"}
Artifacts == {"CONSUMED", "INTENT", "PROOF"}
Checkpoints == {"01", "01A", "02", "03", "04", "05", "06"}
BackendFirst == boundary = "04"
Ended == {"done", "failed", "killed"}

FirstDeletion == IF BackendFirst THEN "database" ELSE "browser"

\* The checkpoint a process passes before a step, if there is one.
CheckpointBefore(step) ==
  CASE step = "inventory" -> "01"
    [] step = "intent" -> "01A"
    [] step = FirstDeletion -> "02"
    [] step \in {"browser", "database"} \ {FirstDeletion} -> IF BackendFirst THEN "04" ELSE "03"
    [] step = "prove" -> "05"
    [] step = "done" -> "06"
    [] OTHER -> "NONE"

\* checkpoint(): the first process waits there to be killed.
Paused == ~recovering /\ CheckpointBefore(pc) = boundary

Plans == {"AUTHORIZED", "OTHER", "REFUSED"}

\* make_plan, over what prepare_backend has written and the browser holds: the authority for
\* this very run and inventory.  The INPUT mutation takes the human invocation out of it.
MadePlans == {"AUTHORIZED", "REFUSED"}

\* validate_plan: a plan of this scope, signed, whose parts are bound to each other.
Validated == plan # "REFUSED"

DestructionInit ==
  /\ plan \in MadePlans
  /\ boundary \in Checkpoints
  /\ pc = "start" /\ recovering = FALSE
  /\ row = FALSE /\ status = "CLOSED"
  /\ store \in {RunStores, RunStores \ {"SIDECARS"}}
  /\ file = [a \in Artifacts |-> "ABSENT"]
  /\ kills = 0

-----------------------------------------------------------------------------
Refuse == pc' = "failed" /\ UNCHANGED <<row, status, store, file>>
Goto(step) == pc' = step /\ UNCHANGED <<row, status, store, file>>

\* consumption: every identity and hash of the row is taken from the plan, so no other plan
\* has the row that was committed.
SameConsumption == plan = "AUTHORIZED"

\* Mutant: only the database is asked.
ConsumedInDatabase == SameConsumption /\ "DATABASE" \in store /\ row

\* Mutant: any valid plan will do.
ConsumedByAnyPlan ==
  Validated /\ IF "DATABASE" \in store THEN row ELSE file["CONSUMED"] = "COMPLETE"

\* validate_consumed: the row in the database, or the copy kept outside once it is gone.
Consumed ==
  SameConsumption /\ IF "DATABASE" \in store THEN row ELSE file["CONSUMED"] = "COMPLETE"

\* validate_external: the intent, too, byte for byte.
External == Consumed /\ file["INTENT"] = "COMPLETE"

\* Mutant: a file that exists is taken for the right one.
PersistIfAbsent(a, next) ==
  IF file[a] = "ABSENT" THEN file' = [file EXCEPT ![a] = "PARTIAL"] /\ pc' = a
                        ELSE pc' = next /\ UNCHANGED file

\* immutable_json: created exclusively, then written and flushed; what is there already
\* must be the same bytes.
Persist(a, next) ==
  CASE file[a] = "ABSENT" -> /\ file' = [file EXCEPT ![a] = "PARTIAL"]
                             /\ pc' = a
    [] file[a] = "PARTIAL" -> pc' = "failed" /\ UNCHANGED file
    [] file[a] = "COMPLETE" -> pc' = next /\ UNCHANGED file

\* The write and the flush of the file the same process has created.
Flushed(a, next) ==
  /\ pc = a
  /\ file' = [file EXCEPT ![a] = "COMPLETE"]
  /\ pc' = next
  /\ UNCHANGED <<row, status, store>>

At(step) == pc = step /\ ~Paused

\* validate_plan first.
Start ==
  /\ At("start")
  /\ IF ~Validated THEN Refuse
     ELSE Goto(IF ~recovering THEN "inventory" ELSE IF boundary = "01" THEN "done" ELSE "validate")

\* The inventory is read and compared before the authority is consumed.
Inventory == At("inventory") /\ Goto("consume")

Consume ==
  /\ At("consume")
  /\ row' = TRUE /\ pc' = "validate"
  /\ UNCHANGED <<status, store, file>>

Validate ==
  /\ At("validate")
  /\ IF ~Consumed THEN Refuse ELSE Goto(IF "DATABASE" \in store THEN "keep" ELSE "intent")

Keep ==
  /\ At("keep")
  /\ Persist("CONSUMED", "intent")
  /\ UNCHANGED <<row, status, store>>

Intent ==
  /\ At("intent")
  /\ IF ~Consumed THEN Refuse
     ELSE Persist("INTENT", "pending") /\ UNCHANGED <<row, status, store>>

MarkPending ==
  /\ At("pending")
  /\ status' = IF "DATABASE" \in store THEN "DESTRUCTION_PENDING" ELSE status
  /\ pc' = FirstDeletion
  /\ UNCHANGED <<row, store, file>>

DeleteBrowser ==
  /\ At("browser")
  /\ IF ~External THEN Refuse
     ELSE /\ store' = store \ {"BROWSER"}
          /\ pc' = IF BackendFirst THEN "prove" ELSE "database"
          /\ UNCHANGED <<row, status, file>>

\* Mutant: what SQLite left beside the database stays.
DeleteDatabaseOnly ==
  /\ At("database")
  /\ IF ~External THEN Refuse
     ELSE /\ store' = store \ {"DATABASE"}
          /\ pc' = IF BackendFirst THEN "browser" ELSE "prove"
          /\ UNCHANGED <<row, status, file>>

\* delete_backend: the database first, and what SQLite left beside it after.
DeleteDatabase ==
  /\ At("database")
  /\ IF ~External THEN Refuse
     ELSE /\ store' = store \ {"DATABASE"}
          /\ pc' = "sidecars"
          /\ UNCHANGED <<row, status, file>>

DeleteSidecars ==
  /\ At("sidecars")
  /\ store' = store \ {"SIDECARS"}
  /\ pc' = IF BackendFirst THEN "browser" ELSE "prove"
  /\ UNCHANGED <<row, status, file>>

\* write_proof: only when both stores are seen to be gone.
Prove ==
  /\ At("prove")
  /\ IF ~External \/ store \cap {"BROWSER", "DATABASE"} # {} THEN Refuse
     ELSE Persist("PROOF", "done") /\ UNCHANGED <<row, status, store>>

DestroyStep ==
  /\ \/ Start \/ Inventory \/ Consume \/ Validate \/ Keep \/ Intent \/ MarkPending
     \/ DeleteBrowser \/ DeleteDatabase \/ DeleteSidecars \/ Prove
     \/ Flushed("CONSUMED", "intent") \/ Flushed("INTENT", "pending") \/ Flushed("PROOF", "done")
  /\ UNCHANGED <<plan, boundary, recovering, kills>>

\* The process is killed, at its checkpoint or at any other moment, the write of an artifact
\* included.
KillDestroyer ==
  /\ pc \notin Ended \/ Paused
  /\ kills < MaxKills
  /\ pc' = "killed" /\ kills' = kills + 1
  /\ UNCHANGED <<plan, boundary, recovering, row, status, store, file>>

\* A recovery is started after the first process, and again when one has failed.
StartRecovery ==
  /\ pc \in {"killed", "failed"}
  /\ pc' = "start" /\ recovering' = TRUE
  /\ UNCHANGED <<plan, boundary, row, status, store, file, kills>>

\* Between two processes the plan is replaced.
ReplacePlan ==
  /\ pc \in {"killed", "failed"} /\ plan = "AUTHORIZED"
  /\ plan' \in Plans \ {"AUTHORIZED"}
  /\ UNCHANGED <<boundary, pc, recovering, row, status, store, file, kills>>

DestructionNext == DestroyStep \/ KillDestroyer \/ StartRecovery \/ ReplacePlan

\* The harness kills the process that waits at its checkpoint.  Kills anywhere else, and
\* another plan, may or may not come.
KillWaiting == Paused /\ KillDestroyer

-----------------------------------------------------------------------------
(* Correctness.                                                            *)

\* Whatever has been deleted, the authority for it and the intent are outside the run, whole,
\* so that a recovery can go on without the database (destroy_03, destroy_04); and a database
\* that outlives the browser's store says that its run is being destroyed.
DeletionAccounted ==
  store \cap {"BROWSER", "DATABASE"} # {"BROWSER", "DATABASE"} =>
    /\ row /\ file["CONSUMED"] = "COMPLETE" /\ file["INTENT"] = "COMPLETE"
    /\ "DATABASE" \in store => status = "DESTRUCTION_PENDING"

\* A deletion proof, even an unfinished one, means that nothing of the run is left
\* (write_proof; E_DESTRUCTION_PROOF_STORES_PRESENT).
ProofMeansGone == file["PROOF"] # "ABSENT" => store = {}

\* What is deleted, and the claim that all is, is accounted for outside the run.
DestructionAccounted == DeletionAccounted /\ ProofMeansGone

\* A step takes something from the run, or writes its intent or its proof, only under the
\* plan that was consumed, whatever the plan was replaced by in between (validate_plan,
\* validate_consumed and validate_external of every process).
OnlyUnderConsumedPlan ==
  [][store' # store \/ file'["INTENT"] # file["INTENT"] \/ file'["PROOF"] # file["PROOF"] =>
       plan = "AUTHORIZED" /\ (row \/ row')]_destructionVars

\* Once the authority is consumed, recoveries bring the destruction to its proof
\* (crash-harness-registry.v1.json:1446, 1575: the intent is reconstructed, the proof written),
\* unless a kill inside immutable_json left half an artifact or the plan was replaced, which
\* every recovery refuses.
Resumes == \/ row ~> file["PROOF"] = "COMPLETE"
           \/ <>[](plan # "AUTHORIZED" \/ \E a \in Artifacts : file[a] = "PARTIAL")
=============================================================================
