--------------------------- MODULE CampaignProofs ---------------------------
(***************************************************************************)
(* The campaigns that crash a program on purpose: Destruction with its     *)
(* kills and recoveries, the qualification of the browser environment      *)
(* (BrowserProbe), the browser campaign (Handshake) and the process        *)
(* campaigns (CrashProofs), and the invariants of CampaignSpec, under      *)
(* which one of the four moves and the others stand still.                 *)
(***************************************************************************)
EXTENDS MCCrashMatrix, CrashProofs

-----------------------------------------------------------------------------
(***************************************************************************)
(* For every number of kills: nothing is deleted, and nothing is claimed   *)
(* to be gone, that is not accounted for outside the run, and only the     *)
(* consumed plan ever takes anything from it.                              *)
(*                                                                         *)
(* What a process relies on at a step was established by an earlier step,  *)
(* of itself or of a process killed before it; Established says which fact *)
(* holds from which step on, and each fact survives every later step       *)
(* because artifacts are never removed and stores never come back.         *)
(***************************************************************************)

DestructionSpec == DestructionInit /\ [][DestructionNext]_destructionVars

\* The steps in front of which the database has been deleted, in one order or the other.
Deleting == {"browser", "database", "sidecars", "prove", "PROOF"}
WithIntent == Deleting \cup {"pending"}
WithCopy == WithIntent \cup {"intent", "INTENT"}
WithRow == WithCopy \cup {"keep", "CONSUMED"}
UnderPlan == WithRow \cup {"inventory", "consume"}

Files ==
  /\ store \subseteq RunStores
  /\ file \in [Artifacts -> {"ABSENT", "PARTIAL", "COMPLETE"}]
  /\ status \in {"CLOSED", "DESTRUCTION_PENDING"}

\* What holds from a step on.
Established ==
  /\ pc = "start" /\ ~recovering => plan \in MadePlans
  /\ pc \in UnderPlan => plan = "AUTHORIZED"
  /\ pc \in WithRow => row
  /\ pc \in WithCopy => file["CONSUMED"] = "COMPLETE"
  /\ pc \in WithIntent => file["INTENT"] = "COMPLETE"
  /\ pc \in Deleting /\ "DATABASE" \in store => status = "DESTRUCTION_PENDING"

\* The sidecars go with the database, so that the last step finds none.
SidecarsGone ==
  /\ pc = "prove" \/ (pc = "browser" /\ BackendFirst) => "SIDECARS" \notin store
  /\ pc = "PROOF" => store = {}

\* The copy outside is made from the row.
CopyOfRow == file["CONSUMED"] # "ABSENT" => row

Accounted ==
  /\ Files /\ Established /\ SidecarsGone /\ CopyOfRow
  /\ DeletionAccounted /\ ProofMeansGone

LEMMA InitAccounted == DestructionInit => Accounted
BY DEF DestructionInit, Accounted, Files, Established, SidecarsGone, CopyOfRow, DeletionAccounted,
       ProofMeansGone, RunStores, Artifacts, UnderPlan, WithRow, WithCopy, WithIntent, Deleting

\* One step of a process, killed at its end or not, keeps the account.
LEMMA StepAccounted == Accounted /\ DestroyStep => Accounted'
<1> SUFFICES ASSUME Accounted, DestroyStep PROVE Accounted'
  OBVIOUS
<1> USE DEF Accounted, Files, Established, SidecarsGone, CopyOfRow, DeletionAccounted,
            ProofMeansGone, RunStores, Artifacts, UnderPlan, WithRow, WithCopy, WithIntent,
            Deleting, BackendFirst
<1>0. UNCHANGED <<plan, boundary, recovering, kills>>
  BY DEF DestroyStep
<1>1. CASE Start
  BY <1>0, <1>1 DEF Start, At, Refuse, Goto, Validated, MadePlans
<1>2. CASE Inventory
  BY <1>0, <1>2 DEF Inventory, At, Goto
<1>3. CASE Consume
  BY <1>0, <1>3 DEF Consume, At
<1>4. CASE Validate
  BY <1>0, <1>4 DEF Validate, At, Refuse, Goto, Consumed, SameConsumption
<1>5. CASE Keep
  BY <1>0, <1>5 DEF Keep, At, Persist
<1>6. CASE Intent
  BY <1>0, <1>6 DEF Intent, At, Persist, Refuse
<1>7. CASE MarkPending
  BY <1>0, <1>7 DEF MarkPending, At, FirstDeletion
<1>8. CASE DeleteBrowser
  BY <1>0, <1>8 DEF DeleteBrowser, At, Refuse
<1>9. CASE DeleteDatabase
  BY <1>0, <1>9 DEF DeleteDatabase, At, Refuse
<1>10. CASE DeleteSidecars
  BY <1>0, <1>10 DEF DeleteSidecars, At
<1>11. CASE Prove
  BY <1>0, <1>11 DEF Prove, At, Persist, Refuse
<1>12. CASE Flushed("CONSUMED", "intent")
  BY <1>0, <1>12 DEF Flushed
<1>13. CASE Flushed("INTENT", "pending")
  BY <1>0, <1>13 DEF Flushed
<1>14. CASE Flushed("PROOF", "done")
  BY <1>0, <1>14 DEF Flushed
<1> QED
  BY <1>1, <1>2, <1>3, <1>4, <1>5, <1>6, <1>7, <1>8, <1>9, <1>10, <1>11, <1>12, <1>13, <1>14
     DEF DestroyStep

\* A kill, a recovery that starts and a plan that is replaced leave the artifacts alone, and
\* put the process where nothing has been established yet.
LEMMA OthersKeepAccount ==
  Accounted /\ (KillDestroyer \/ StartRecovery \/ ReplacePlan \/ UNCHANGED destructionVars)
    => Accounted'
BY DEF Accounted, Files, Established, SidecarsGone, CopyOfRow, DeletionAccounted,
       ProofMeansGone, RunStores, Artifacts, UnderPlan, WithRow, WithCopy, WithIntent,
       Deleting, BackendFirst, KillDestroyer, StartRecovery, ReplacePlan, destructionVars

LEMMA AlwaysAccounted == DestructionSpec => []Accounted
<1>1. Accounted /\ [DestructionNext]_destructionVars => Accounted'
  BY StepAccounted, OthersKeepAccount DEF DestructionNext
<1> QED
  BY <1>1, InitAccounted, PTL DEF DestructionSpec

-----------------------------------------------------------------------------
\* Whatever kills, recoveries and replaced plans there are, what is deleted is accounted for
\* outside the run and a proof means that nothing is left (delete_backend, write_proof).
THEOREM DestructionAlwaysAccounted == DestructionSpec => []DestructionAccounted
<1>1. Accounted => DestructionAccounted
  BY DEF Accounted, DestructionAccounted
<1> QED
  BY <1>1, AlwaysAccounted, PTL

\* What a step does to the stores, the intent and the proof: only the deletions, the writing
\* of an intent and the writing of a proof touch them.
LEMMA OnlyThoseSteps ==
  ASSUME Files, DestructionNext,
         store' # store \/ file'["INTENT"] # file["INTENT"] \/ file'["PROOF"] # file["PROOF"]
  PROVE  pc \in WithCopy
<1> USE DEF Files, WithCopy, WithIntent, Deleting, Artifacts
<1>1. DestroyStep
  BY DEF DestructionNext, KillDestroyer, StartRecovery, ReplacePlan
<1>2. CASE Start \/ Inventory \/ Consume \/ Validate
  BY <1>2 DEF Start, Inventory, Consume, Validate, Refuse, Goto
<1>3. CASE Keep \/ Flushed("CONSUMED", "intent")
  BY <1>3 DEF Keep, Persist, Flushed
<1>4. CASE Intent \/ MarkPending \/ DeleteBrowser \/ DeleteDatabase \/ DeleteSidecars \/ Prove
  BY <1>4 DEF Intent, MarkPending, DeleteBrowser, DeleteDatabase, DeleteSidecars, Prove, At
<1>5. CASE Flushed("INTENT", "pending") \/ Flushed("PROOF", "done")
  BY <1>5 DEF Flushed
<1> QED
  BY <1>1, <1>2, <1>3, <1>4, <1>5 DEF DestroyStep

\* Nothing is taken from the run, and no intent or proof written, but under the plan that was
\* consumed (validate_plan, validate_consumed, validate_external).
THEOREM OnlyTheConsumedPlan == DestructionSpec => OnlyUnderConsumedPlan
<1> DEFINE DestructionStep ==
      store' # store \/ file'["INTENT"] # file["INTENT"] \/ file'["PROOF"] # file["PROOF"]
        => plan = "AUTHORIZED" /\ (row \/ row')
<1>1. Accounted /\ [DestructionNext]_destructionVars => [DestructionStep]_destructionVars
  <2> SUFFICES ASSUME Accounted, DestructionNext,
                      store' # store \/ file'["INTENT"] # file["INTENT"]
                        \/ file'["PROOF"] # file["PROOF"]
               PROVE  plan = "AUTHORIZED" /\ row
    BY DEF destructionVars
  <2>1. pc \in WithCopy
    BY OnlyThoseSteps DEF Accounted
  <2> QED
    BY <2>1 DEF Accounted, Established, UnderPlan, WithRow
<1> QED
  BY <1>1, AlwaysAccounted, PTL DEF DestructionSpec, OnlyUnderConsumedPlan

-----------------------------------------------------------------------------
(***************************************************************************)
(* The qualification of the browser environment.  The records of the       *)
(* harness and the browser move in step: an answer is recorded where the   *)
(* module answers, a kill where the process group ends, and what was       *)
(* recorded is never taken back.  While nothing went wrong, the records    *)
(* are those a qualification asks for.                                     *)
(***************************************************************************)
BrowserPlaces == {"gone", "started", "probe", "stored", "answered", "exited"}
ModuleStates == {"prepared", "edited"}
ProbeAnswers == [sentinel : {Absent, "sentinel"}, module : ModuleStates, loaded : {Absent} \cup ModuleStates]
KillRecords == [browser : BrowserPlaces, disk : {Absent, "sentinel"}]

ProbeTyped ==
  /\ transport \in {"legacy", "pipe"}
  /\ stage \in {"prepare", "launch", "await", "work", "kill", "validate", "done"}
  /\ phase \in 1..2 /\ module \in ModuleStates /\ mishap \in BOOLEAN
  /\ chrome \in [phase : 0..2, at : BrowserPlaces, loaded : {Absent} \cup ModuleStates]
  /\ owner \in {Absent, "alive", "exited"} /\ disk \in {Absent, "sentinel"}
  /\ seen \in Seq(ProbeAnswers) /\ killed \in Seq(KillRecords)
  /\ stage # "done" => finding = Absent

\* A page keeps the module it loaded, and an edit is not taken back.
ModuleLasts ==
  /\ chrome.at \in {"probe", "stored", "answered"} /\ module = "prepared" =>
       chrome.loaded = "prepared"
  /\ \A i \in DOMAIN seen : seen[i].module = "prepared" => seen[i].loaded = "prepared"

\* How far the harness, the browser and the records are, relative to each other.
RecordsInStep ==
  /\ stage \in {"prepare", "launch"} => chrome = NoChrome
  /\ stage = "prepare" => phase = 1
  /\ stage \in {"prepare", "launch"} => Len(seen) = phase - 1 /\ Len(killed) = phase - 1
  /\ stage = "await" => /\ chrome.at \in {"started", "probe", "exited"}
                        /\ Len(seen) = phase - 1 /\ Len(killed) = phase - 1
  /\ stage = "work" =>
       /\ chrome.at \in {"started", "probe", "stored", "answered", "exited"}
       /\ Len(killed) = phase - 1
       /\ Len(seen) \in {phase - 1, phase}
       /\ chrome.at \in {"started", "probe", "stored"} => Len(seen) = phase - 1
       /\ chrome.at = "answered" => Len(seen) = phase
  /\ stage = "kill" => /\ chrome.at \in {"answered", "exited"}
                       /\ Len(seen) = phase /\ Len(killed) = phase - 1
                       /\ transport = "legacy" => phase = 1
  /\ stage = "validate" => /\ Len(seen) = 2 /\ phase = 2
                           /\ chrome.at \in {"gone", "answered", "exited"}
                           /\ Len(killed) = IF transport = "pipe" THEN 2 ELSE 1
  /\ chrome.at \in {"stored", "answered"} \/ Len(seen) > 0 => disk = "sentinel"
  /\ Len(killed) > 0 => /\ killed[1].disk = "sentinel"
                        /\ transport = "legacy" => killed[1].browser = "answered"

\* What the records show while nothing went wrong.
ProbeUnharmed ==
  ~mishap =>
    /\ module = "prepared" /\ chrome.at # "exited" /\ finding # "REJECTED"
    /\ \A i \in DOMAIN seen : seen[i].sentinel = "sentinel" /\ seen[i].module = "prepared"
    /\ transport = "pipe" /\ stage \in {"await", "work", "kill"} => owner = "alive"
    /\ stage \in {"await", "work", "kill"} => chrome.at # "gone"

PassShows == finding = "PASS" =>
  /\ stage = "done" /\ Len(seen) >= 2 /\ Len(killed) >= 1
  /\ \A p \in 1..2 : seen[p].loaded = "prepared"

ProbeInv == ProbeTyped /\ ModuleLasts /\ RecordsInStep /\ ProbeUnharmed /\ PassShows

LEMMA ProbeInvStarts == ProbeInit => ProbeInv
<1> SUFFICES ASSUME ProbeInit PROVE ProbeInv
  OBVIOUS
<1>1. /\ Len(seen) = 0 /\ DOMAIN seen = {} /\ seen \in Seq(ProbeAnswers)
      /\ Len(killed) = 0 /\ killed \in Seq(KillRecords)
  BY DEF ProbeInit
<1>2. ProbeTyped
  <2>1. chrome \in [phase : 0..2, at : BrowserPlaces, loaded : {Absent} \cup ModuleStates]
    BY DEF ProbeInit, NoChrome, BrowserPlaces
  <2>2. mishap \in BOOLEAN
    BY Zenon DEF ProbeInit
  <2> QED
    BY <1>1, <2>1, <2>2 DEF ProbeInit, ProbeTyped, ModuleStates
<1> QED
  BY <1>1, <1>2, AbsentAssumption
     DEF ProbeInit, ProbeInv, ModuleLasts, RecordsInStep, ProbeUnharmed, PassShows, NoChrome

LEMMA AnswerAppended ==
  ASSUME NEW S, NEW s \in Seq(S), NEW x \in S
  PROVE  /\ Append(s, x) \in Seq(S) /\ Len(Append(s, x)) = Len(s) + 1
         /\ \A i \in DOMAIN s : i \in DOMAIN Append(s, x) /\ Append(s, x)[i] = s[i]
         /\ \A i \in DOMAIN Append(s, x) : i \in DOMAIN s \/ (i = Len(s) + 1 /\ Append(s, x)[i] = x)
         /\ Append(s, x)[Len(s) + 1] = x
OBVIOUS

LEMMA BrowserKeeps == ASSUME ProbeInv, Browser \/ OwnerFails \/ Mishap PROVE ProbeInv'
<1>1. CASE LoadPage
  <2>1. ProbeTyped'
    BY <1>1
       DEF LoadPage, BrowserUnchanged, ProbeInv, ProbeTyped, ModuleLasts, RecordsInStep,
           ProbeUnharmed, PassShows, BrowserPlaces, ModuleStates, NoChrome
  <2>2. ModuleLasts'
    BY <1>1
       DEF LoadPage, BrowserUnchanged, ProbeInv, ProbeTyped, ModuleLasts, RecordsInStep,
           ProbeUnharmed, PassShows, BrowserPlaces, ModuleStates, NoChrome
  <2>3. RecordsInStep'
    BY <1>1
       DEF LoadPage, BrowserUnchanged, ProbeInv, ProbeTyped, ModuleLasts, RecordsInStep,
           ProbeUnharmed, PassShows, BrowserPlaces, ModuleStates, NoChrome
  <2>4. ProbeUnharmed'
    BY <1>1
       DEF LoadPage, BrowserUnchanged, ProbeInv, ProbeTyped, ModuleLasts, RecordsInStep,
           ProbeUnharmed, PassShows, BrowserPlaces, ModuleStates, NoChrome
  <2>5. PassShows'
    BY <1>1
       DEF LoadPage, BrowserUnchanged, ProbeInv, ProbeTyped, ModuleLasts, RecordsInStep,
           ProbeUnharmed, PassShows, BrowserPlaces, ModuleStates, NoChrome
  <2> QED
    BY <2>1, <2>2, <2>3, <2>4, <2>5 DEF ProbeInv
<1>2. CASE Evaluate
  BY <1>2
     DEF Evaluate, BrowserUnchanged, ProbeInv, ProbeTyped, ModuleLasts, RecordsInStep,
         ProbeUnharmed, PassShows, BrowserPlaces, ModuleStates, NoChrome
<1>3. CASE Report
  <2> DEFINE x == [sentinel |-> disk, module |-> module, loaded |-> chrome.loaded]
  <2>1. x \in ProbeAnswers /\ x.sentinel = disk /\ x.module = module /\ x.loaded = chrome.loaded
    BY DEF ProbeInv, ProbeTyped, ProbeAnswers
  <2>2. seen \in Seq(ProbeAnswers) /\ seen' = Append(seen, x)
    BY <1>3 DEF Report, ProbeInv, ProbeTyped
  <2> HIDE DEF x
  <2>3. /\ seen' \in Seq(ProbeAnswers) /\ Len(seen') = Len(seen) + 1
        /\ \A i \in DOMAIN seen : i \in DOMAIN seen' /\ seen'[i] = seen[i]
        /\ \A i \in DOMAIN seen' : i \in DOMAIN seen \/ (i = Len(seen) + 1 /\ seen'[i] = x)
    BY <2>1, <2>2, AnswerAppended
  <2>4. ProbeTyped'
    BY <1>3, <2>3 DEF Report, BrowserUnchanged, ProbeInv, ProbeTyped, BrowserPlaces
  <2>5. ModuleLasts'
    BY <1>3, <2>1, <2>3 DEF Report, BrowserUnchanged, ProbeInv, ModuleLasts
  <2>6. RecordsInStep'
    BY <1>3, <2>2, <2>3
       DEF Report, BrowserUnchanged, ProbeInv, ProbeTyped, RecordsInStep, NoChrome
  <2>7. ProbeUnharmed'
    BY <1>3, <2>1, <2>3
       DEF Report, BrowserUnchanged, ProbeInv, ProbeTyped, RecordsInStep, ProbeUnharmed
  <2>8. PassShows'
    BY <1>3, <2>2, <2>3 DEF Report, BrowserUnchanged, ProbeInv, ProbeTyped, PassShows
  <2> QED
    BY <2>4, <2>5, <2>6, <2>7, <2>8 DEF ProbeInv
<1>4. CASE OwnerFails
  BY <1>4
     DEF OwnerFails, ProbeInv, ProbeTyped, ModuleLasts, RecordsInStep, ProbeUnharmed, PassShows
<1>5. CASE Mishap
  BY <1>5
     DEF Mishap, ProbeInv, ProbeTyped, ModuleLasts, RecordsInStep, ProbeUnharmed, PassShows,
         BrowserPlaces, ModuleStates, NoChrome
<1> QED
  BY <1>1, <1>2, <1>3, <1>4, <1>5 DEF Browser

LEMMA CloseKeeps == ASSUME ProbeInv, NEW judged, Close(judged), mishap' \in BOOLEAN, mishap => mishap',
                          judged = "REJECTED" => mishap', judged = "PASS" => stage = "validate" /\ QualificationHolds
                    PROVE ProbeInv'
BY AbsentAssumption
   DEF Close, Left, LeaderAlive, QualificationHolds, ProbeInv, ProbeTyped, ModuleLasts,
       RecordsInStep, ProbeUnharmed, PassShows, BrowserPlaces, ModuleStates, NoChrome

LEMMA QualifierKeeps == ASSUME ProbeInv, Qualifier PROVE ProbeInv'
<1>1. CASE PrepareExtension
  <2>1. ASSUME stage = "prepare", Close("BLOCKED_ENVIRONMENT"), UNCHANGED mishap PROVE ProbeInv'
    BY <2>1, CloseKeeps DEF ProbeInv, ProbeTyped
  <2>2. ASSUME Close("REJECTED"), mishap' = TRUE PROVE ProbeInv'
    BY <2>2, CloseKeeps
  <2>3. ASSUME stage = "prepare" /\ stage' = "launch",
               UNCHANGED <<transport, phase, finding, chrome, owner, disk, module, seen, killed, mishap>>
        PROVE  ProbeInv'
    BY <2>3 DEF ProbeInv, ProbeTyped, ModuleLasts, RecordsInStep, ProbeUnharmed, PassShows
  <2> QED
    BY <1>1, <2>1, <2>2, <2>3 DEF PrepareExtension
<1>2. CASE StartBrowser
  BY <1>2
     DEF StartBrowser, ProbeInv, ProbeTyped, ModuleLasts, RecordsInStep, ProbeUnharmed,
         PassShows, BrowserPlaces, ModuleStates
<1>3. CASE ProbeReady
  BY <1>3
     DEF ProbeReady, LeaderAlive, ProbeInv, ProbeTyped, ModuleLasts, RecordsInStep,
         ProbeUnharmed, PassShows, BrowserPlaces
<1>4. CASE TakeAnswer
  <2>1. ProbeTyped'
    BY <1>4
       DEF TakeAnswer, ProbeInv, ProbeTyped, ModuleLasts, RecordsInStep, ProbeUnharmed,
           PassShows, BrowserPlaces
  <2>2. ModuleLasts'
    BY <1>4
       DEF TakeAnswer, ProbeInv, ProbeTyped, ModuleLasts, RecordsInStep, ProbeUnharmed,
           PassShows, BrowserPlaces
  <2>3. RecordsInStep'
    <3>1. /\ stage = "work" /\ Len(seen) = phase /\ Len(killed) = phase - 1 /\ phase \in 1..2
          /\ chrome.at \in {"answered", "exited"} /\ transport \in {"legacy", "pipe"}
          /\ stage' = IF transport = "legacy" /\ phase = 2 THEN "validate" ELSE "kill"
          /\ UNCHANGED <<transport, phase, chrome, disk, seen, killed>>
      BY <1>4 DEF TakeAnswer, ProbeInv, ProbeTyped, RecordsInStep
    <3>2. CASE transport = "legacy" /\ phase = 2
      BY <3>1, <3>2 DEF ProbeInv, RecordsInStep
    <3>3. CASE ~(transport = "legacy" /\ phase = 2)
      BY <3>1, <3>3 DEF ProbeInv, RecordsInStep
    <3> QED
      BY <3>2, <3>3
  <2>4. ProbeUnharmed'
    BY <1>4
       DEF TakeAnswer, ProbeInv, ProbeTyped, ModuleLasts, RecordsInStep, ProbeUnharmed,
           PassShows, BrowserPlaces
  <2>5. PassShows'
    BY <1>4
       DEF TakeAnswer, ProbeInv, ProbeTyped, ModuleLasts, RecordsInStep, ProbeUnharmed,
           PassShows, BrowserPlaces
  <2> QED
    BY <2>1, <2>2, <2>3, <2>4, <2>5 DEF ProbeInv
<1>5. CASE KillGroup
  <2> DEFINE x == [browser |-> chrome.at, disk |-> disk]
  <2>1. x \in KillRecords /\ x.disk = disk /\ x.browser = chrome.at
    BY DEF ProbeInv, ProbeTyped, KillRecords
  <2>2. killed \in Seq(KillRecords) /\ killed' = Append(killed, x)
    BY <1>5 DEF KillGroup, ProbeInv, ProbeTyped
  <2> HIDE DEF x
  <2>3. /\ killed' \in Seq(KillRecords) /\ Len(killed') = Len(killed) + 1
        /\ \A i \in DOMAIN killed : i \in DOMAIN killed' /\ killed'[i] = killed[i]
        /\ killed'[Len(killed) + 1] = x
    BY <2>1, <2>2, AnswerAppended
  <2>4. ProbeTyped' /\ ModuleLasts' /\ ProbeUnharmed' /\ PassShows'
    BY <1>5, <2>3
       DEF KillGroup, LeaderAlive, ProbeInv, ProbeTyped, ModuleLasts, RecordsInStep,
           ProbeUnharmed, PassShows, BrowserPlaces, NoChrome, ModuleStates
  <2>5. RecordsInStep'
    <3>1. Len(killed) > 0 => killed'[1] = killed[1]
      BY <2>2, <2>3
    <3>2. Len(killed) = 0 => killed'[1] = x
      BY <2>3
    <3>3. /\ killed'[1].disk = "sentinel"
          /\ transport = "legacy" => killed'[1].browser = "answered"
      BY <1>5, <2>1, <2>2, <3>1, <3>2
         DEF KillGroup, LeaderAlive, ProbeInv, ProbeTyped, RecordsInStep
    <3> QED
      <4>1. /\ chrome' = NoChrome /\ phase' = 2 /\ seen' = seen /\ disk' = disk
            /\ transport' = transport /\ stage' = IF phase = 1 THEN "launch" ELSE "validate"
            /\ Len(seen) = phase /\ Len(killed) = phase - 1 /\ phase \in 1..2
            /\ transport = "legacy" => phase = 1
        BY <1>5 DEF KillGroup, ProbeInv, ProbeTyped, RecordsInStep
      <4>2. chrome'.at = "gone"
        BY <4>1 DEF NoChrome
      <4>3. (chrome.at \in {"stored", "answered"} \/ Len(seen) > 0 => disk = "sentinel")'
        BY <4>1, <4>2 DEF ProbeInv, RecordsInStep
      <4>4. Len(killed') = phase /\ Len(seen') = phase
        BY <2>3, <4>1
      <4>5. CASE phase = 1
        BY <3>3, <4>1, <4>2, <4>3, <4>4, <4>5 DEF RecordsInStep
      <4>6. CASE phase = 2
        <5>1. transport # "legacy" /\ transport \in {"legacy", "pipe"}
          BY <4>1, <4>6 DEF ProbeInv, ProbeTyped
        <5> QED
          BY <3>3, <4>1, <4>2, <4>3, <4>4, <4>6, <5>1 DEF RecordsInStep
      <4> QED
        BY <4>1, <4>5, <4>6
  <2> QED
    BY <2>4, <2>5 DEF ProbeInv
<1>6. CASE KillUnowned
  <2>1. mishap
    BY <1>6 DEF KillUnowned, LeaderAlive, ProbeInv, ProbeTyped, ProbeUnharmed, RecordsInStep
  <2> QED
    BY <1>6, <2>1, CloseKeeps DEF KillUnowned, ProbeInv, ProbeTyped
<1>7. CASE PhaseFails
  <2>1. mishap
    BY <1>7 DEF PhaseFails, LeaderAlive, ProbeInv, ProbeTyped, ProbeUnharmed, RecordsInStep
  <2> QED
    BY <1>7, <2>1, CloseKeeps DEF PhaseFails, ProbeInv, ProbeTyped
<1>8. CASE PhaseDeadline
  BY <1>8, CloseKeeps DEF PhaseDeadline
<1>9. CASE ValidateQualification
  <2>1. stage = "validate" /\ (~QualificationHolds => mishap)
    <3>1. SUFFICES ASSUME ~mishap PROVE QualificationHolds
      BY <1>9 DEF ValidateQualification
    <3>2. /\ stage = "validate" /\ Len(seen) = 2 /\ seen \in Seq(ProbeAnswers)
          /\ Len(killed) = IF transport = "pipe" THEN 2 ELSE 1
      BY <1>9 DEF ValidateQualification, ProbeInv, ProbeTyped, RecordsInStep
    <3>3. /\ module = "prepared"
          /\ \A i \in DOMAIN seen : seen[i].sentinel = "sentinel" /\ seen[i].module = "prepared"
      BY <3>1 DEF ProbeInv, ProbeUnharmed
    <3>4. DOMAIN seen = 1..2
      BY <3>2
    <3> QED
      BY <3>2, <3>3, <3>4 DEF QualificationHolds, PipeEvidenceHolds
  <2> QED
    BY <1>9, <2>1, CloseKeeps DEF ValidateQualification, ProbeInv, ProbeTyped
<1> QED
  BY <1>1, <1>2, <1>3, <1>4, <1>5, <1>6, <1>7, <1>8, <1>9 DEF Qualifier

LEMMA ProbeInvKeeps == ASSUME ProbeInv, [ProbeNext]_probeVars PROVE ProbeInv'
<1>1. CASE UNCHANGED probeVars
  BY <1>1
     DEF probeVars, ProbeInv, ProbeTyped, ModuleLasts, RecordsInStep, ProbeUnharmed, PassShows
<1> QED
  BY <1>1, BrowserKeeps, QualifierKeeps DEF ProbeNext

LEMMA ProbeClaims == ProbeInv => RejectHasCause /\ QualifiedMeansDurable
BY DEF ProbeInv, ProbeTyped, RecordsInStep, ProbeUnharmed, PassShows, RejectHasCause,
       QualifiedMeansDurable

LEMMA ProbeAlways == ProbeSpec => []ProbeInv
BY ProbeInvStarts, ProbeInvKeeps, PTL DEF ProbeSpec

(* A qualification is rejected only when the browser, its owner or the     *)
(* module failed on its own (run_environment_qualification).               *)
THEOREM ProbeRejectsForCause == ProbeSpec => []RejectHasCause
BY ProbeAlways, ProbeClaims, PTL

(* A qualification that passes has seen the sentinel and the prepared      *)
(* module before and after a kill of the browser.                          *)
THEOREM ProbeQualifiesTheDurable == ProbeSpec => []QualifiedMeansDurable
BY ProbeAlways, ProbeClaims, PTL

-----------------------------------------------------------------------------
(***************************************************************************)
(* The browser campaign.  HandshakeFacts says what is durable wherever the *)
(* worker and the receiver have come, and where both stand when the        *)
(* harness stops one; SeenWhole, that stores seen whole stay whole; and    *)
(* HandshakeUndisturbed, by the task of the harness, what the stores, the  *)
(* wire records and the readings are while nothing failed on its own.      *)
(***************************************************************************)
Paths == {"/ingest", "/confirm"}
Busy == {"received", "held", "applied", "recorded"}
Preparing == {"begin", "opened", "allocated", "put"}
Confirmed == {"confirmed", "answered"}
Persisted == {"persisted", "/confirm"} \cup Confirmed
Acknowledged == {"acknowledged", "acknowledging"} \cup Persisted
Spooled == {"spooled", "/ingest"} \cup Acknowledged
WorkerPlaces == {"gone", "failed"} \cup Preparing \cup Spooled

Bits == {0, 1}
Spools == [rows : Bits, ack : Bits]
Journals == [committed : Bits, confirmed : Bits]
StoredPair == [spool : Spools, journal : Journals]
Stops == [worker : Paths \cup {"failed"}, receiver : {"held"}, path : Paths]

Opening == {"browser", "launch", "begin"}
Restarted == {"restart", "before", "recover", "recovering", "after", "last", "verify"}
Tasks == Opening \cup {"await", "terminate", "stop", "done"} \cup Restarted

WorkerType == [op : {Nothing, "crash", "deliver", "recover"}, at : WorkerPlaces, round : 1..2,
               to : {Nothing, 0, 1}, given : BOOLEAN]
ReceiverType == [nth : {Nothing, 0, 1}, at : {"gone", "idle"} \cup Busy,
                 path : {Nothing} \cup Paths, serial : Nat]

HandshakeTyped ==
  /\ entry \in DOMAIN Registry /\ task \in Tasks /\ upset \in BOOLEAN
  /\ worker \in WorkerType
  /\ receiver \in ReceiverType
  /\ spool \in Spools /\ journal \in Journals
  /\ task # "done" => outcome = Nothing

\* What is known of the stores wherever a process has come.
StoresKnown ==
  /\ DurableInOrder
  /\ worker.at \in Spooled => spool.rows = 1
  /\ worker.at \in Acknowledged => journal.committed = 1
  /\ worker.at \in Persisted => spool.ack = 1
  /\ worker.at \in Confirmed => journal.confirmed = 1
  /\ request # Nothing => /\ request.path = "/ingest" => spool.rows = 1
                          /\ request.path = "/confirm" => spool.ack = 1
  /\ receiver.at \in Busy => /\ receiver.path = "/ingest" => spool.rows = 1
                             /\ receiver.path = "/confirm" => spool.ack = 1
  /\ receiver.at \in {"applied", "recorded"} =>
       /\ receiver.path = "/ingest" => journal.committed = 1
       /\ receiver.path = "/confirm" => journal.confirmed = 1

\* One request at a time, and its worker waits for it.
Waits ==
  /\ request # Nothing => /\ request \in [path : Paths, to : {Nothing, 0, 1}]
                          /\ worker.at \in {request.path, "failed"}
                          /\ receiver.at \in {"gone", "idle"}
  /\ receiver.at \in Busy => /\ receiver.path \in Paths /\ request = Nothing
                             /\ worker.at \in {receiver.path, "failed"}

\* A worker that is to be stopped comes to its boundary and no further.
UpTo ==
  [idb_01_before_transaction |-> {"begin", "opened"},
   idb_02_during_sequence_allocation |-> {"begin", "opened", "allocated"},
   idb_03_during_row_put |-> {"begin", "opened", "allocated", "put"},
   idb_04_after_commit |-> {"begin", "opened", "allocated", "put", "spooled"},
   ack_01_before_extension_ack_transaction |-> {"begin", "spooled", "/ingest", "acknowledged"},
   ack_02_during_extension_ack_transaction |->
     {"begin", "spooled", "/ingest", "acknowledged", "acknowledging"},
   ack_03_after_extension_ack_transaction |->
     {"begin", "spooled", "/ingest", "acknowledged", "acknowledging", "persisted"}]

Contained ==
  /\ task = "terminate" /\ Expected.kill = "RECEIVER" => receiver.at = "gone"
  /\ task = "terminate" /\ Expected.kill # "RECEIVER" => Halted \/ worker.at = "answered"
  /\ task \in {"await", "terminate"} =>
       /\ worker.op = IF entry \in Indexed THEN "crash" ELSE "deliver"
       /\ entry \in DOMAIN Boundary => worker.at \in UpTo[entry] \cup {"failed"}
  /\ worker.op = "crash" => worker.at \in Preparing \cup {"spooled", "failed"}
  /\ task \in Opening \cup {"stop", "restart", "before", "recover", "after", "last", "verify"} =>
       worker = NoWorker
  /\ task \in {"recovering"} => worker.op = "recover"

\* Whom the harness stopped, and where.
StoppedAt ==
  /\ task \in Opening \cup {"await"} => stopped = Nothing
  /\ task = "terminate" /\ Expected.kill # "RECEIVER" => stopped = Nothing
  /\ task = "terminate" /\ Expected.kill = "WORKER" => Halted
  /\ task = "stop" /\ Expected.kill = "WORKER" =>
       /\ stopped.worker = Boundary[entry] /\ stopped.receiver \in {"idle", "gone"}
       /\ stopped.receiver = "gone" => receiver.at = "gone"
  /\ (task \in Restarted \/ outcome = "PASS") /\ Expected.kill = "WORKER" =>
       stopped.worker = Boundary[entry] /\ stopped.receiver = "idle"
  /\ (task \in Restarted \cup {"terminate"} \/ outcome = "PASS") /\ Expected.kill = "RECEIVER" =>
       /\ stopped \in Stops /\ stopped.receiver = "held"
       /\ stopped.worker \in {stopped.path, "failed"}
  /\ task = "stop" => Expected.kill # "RECEIVER"

WholeStores == [spool |-> [rows |-> 1, ack |-> 1], journal |-> [committed |-> 1, confirmed |-> 1]]

\* What was seen whole stays whole.
SeenWhole ==
  task \in {"last", "verify"} \/ outcome = "PASS" =>
    /\ later.spool = WholeStores.spool => spool = WholeStores.spool
    /\ later.journal = WholeStores.journal => journal = WholeStores.journal
    /\ outcome = "PASS" => later.spool = WholeStores.spool /\ later.journal = WholeStores.journal

HandshakeFacts ==
  HandshakeTyped /\ StoresKnown /\ Waits /\ Contained /\ StoppedAt

-----------------------------------------------------------------------------
(* What holds while nothing has failed or stalled on its own. *)
FirstSerials ==
  IF entry \in Indexed \cup {"send_01_after_send_before_backend_begin"} THEN 0
  ELSE IF Expected.kill = "NONE" THEN 4 ELSE 1

AsExpected == spool = Expected.spool /\ journal = Expected.journal

HeldPath == IF entry = "send_01_after_send_before_backend_begin" THEN "/ingest" ELSE "/confirm"

\* The records of the receiver that runs.
Recorded == IF receiver.at \in {"received", "held", "applied"} THEN receiver.serial - 1
            ELSE receiver.serial

\* The requests received so far, by where the worker is.
EarlierSerials == 2 * (worker.round - 1)
Serials ==
  /\ worker.at \in Preparing => receiver.serial = 0 /\ receiver.at = "idle" /\ worker.round = 1
  /\ worker.at = "spooled" => receiver.serial = EarlierSerials
  /\ worker.at = "/ingest" =>
       receiver.serial = IF receiver.at \in Busy THEN EarlierSerials + 1 ELSE EarlierSerials
  /\ worker.at \in {"acknowledged", "acknowledging", "persisted"} => receiver.serial = EarlierSerials + 1
  /\ worker.at = "/confirm" =>
       receiver.serial = IF receiver.at \in Busy THEN EarlierSerials + 2 ELSE EarlierSerials + 1
  /\ worker.at \in Confirmed => receiver.serial = EarlierSerials + 2

\* What the first worker has not done yet.
NotYet ==
  worker.round = 1 =>
    /\ worker.at \in Preparing => spool.rows = 0
    /\ worker.at \notin Acknowledged /\ receiver.at \notin {"applied", "recorded"} =>
         journal.committed = 0
    /\ worker.at \notin Persisted => spool.ack = 0
    /\ worker.at # "/confirm" /\ worker.at \notin Confirmed => journal.confirmed = 0
    /\ receiver.at \in {"gone", "idle", "received"} /\ worker.at \notin Confirmed =>
         journal.confirmed = 0

HeldAt ==
  receiver.at = "held" =>
    /\ Expected.kill = "RECEIVER" /\ worker.round = 1
    /\ sighting = [path |-> receiver.path, journal |-> journal] /\ receiver.path = HeldPath
    /\ journal.confirmed = IF entry = "ack_05_after_backend_confirmation_commit" THEN 1 ELSE 0

RunningOn(nth) ==
  /\ receiver.at # "gone" /\ receiver.nth = nth /\ worker.to = nth /\ worker.at # "failed"
  /\ Serials

StartsFresh ==
  task \in Opening =>
    /\ spool = [rows |-> 0, ack |-> 0] /\ journal = [committed |-> 0, confirmed |-> 0]
    /\ wires = {}
    /\ task = "begin" => receiver = [NoReceiver EXCEPT !.nth = 0, !.at = "idle"]

Delivering ==
  task = "await" \/ (task = "terminate" /\ Expected.kill # "RECEIVER") =>
    /\ RunningOn(0) /\ worker.given /\ NotYet /\ HeldAt /\ wires = WiresOf(0, Recorded)
    /\ worker.round = 2 => entry = "ack_06_duplicate_identical"
    /\ worker.at = "answered" /\ entry = "ack_06_duplicate_identical" => worker.round = 2
    /\ task = "terminate" => Halted \/ worker.at = "answered"

StoodAtBoundary ==
  task \in {"stop", "restart", "before", "recover"}
      \/ (task = "terminate" /\ Expected.kill = "RECEIVER") =>
    /\ AsExpected /\ wires = WiresOf(0, FirstSerials)
    /\ task = "stop" => receiver.at = "idle"
    /\ task = "terminate" => receiver.at = "gone" /\ worker.at \in Paths \cup {"failed"}
    /\ task \in {"before", "recover"} => receiver = [NoReceiver EXCEPT !.nth = 1, !.at = "idle"]

RecoveringOn ==
  task = "recovering" =>
    /\ RunningOn(1) /\ worker.round = 1 /\ (spool.rows = 1 \/ worker.given = TRUE)
    /\ wires = WiresOf(0, FirstSerials) \cup WiresOf(1, Recorded)

ComesThrough ==
  task \in {"after", "last", "verify"} =>
    /\ spool = WholeStores.spool /\ journal = WholeStores.journal
    /\ wires = WiresOf(0, FirstSerials) \cup WiresOf(1, 2)
    /\ task \in {"after", "last"} => receiver.at = "idle"
    /\ task \in {"last", "verify"} => later = WholeStores

RecordsKept ==
  /\ task \in {"terminate"} \cup Restarted /\ Expected.kill = "RECEIVER" =>
       sighting = [path |-> HeldPath, journal |-> Expected.journal]
  /\ task \in {"recover", "recovering", "after", "last", "verify"} =>
       earlier = [spool |-> Expected.spool, journal |-> Expected.journal]

HandshakeUndisturbed ==
  upset = FALSE =>
    outcome # "FAIL" /\ StartsFresh /\ Delivering /\ StoodAtBoundary /\ RecoveringOn /\ ComesThrough /\ RecordsKept

-----------------------------------------------------------------------------
(* The registry, entry by entry; and each action keeps HandshakeFacts.     *)
LEMMA KillOf ==
  ASSUME entry \in DOMAIN Registry
  PROVE  /\ Expected.kill = "RECEIVER" <=> entry \in {"send_01_after_send_before_backend_begin",
              "ack_04_before_backend_confirmation_commit", "ack_05_after_backend_confirmation_commit"}
         /\ Expected.kill = "NONE" <=> entry = "ack_06_duplicate_identical"
         /\ Expected.kill = "WORKER" <=> entry \in DOMAIN Boundary
         /\ Expected.kill \in {"RECEIVER", "NONE", "WORKER"}
BY DEF Expected, Registry, Expect, Boundary

LEMMA BoundaryOf ==
  ASSUME entry \in DOMAIN Boundary
  PROVE  /\ entry = "idb_01_before_transaction" =>
              Boundary[entry] = "opened" /\ UpTo[entry] = {"begin", "opened"}
         /\ entry = "idb_02_during_sequence_allocation" =>
              Boundary[entry] = "allocated" /\ UpTo[entry] = {"begin", "opened", "allocated"}
         /\ entry = "idb_03_during_row_put" =>
              Boundary[entry] = "put" /\ UpTo[entry] = {"begin", "opened", "allocated", "put"}
         /\ entry = "idb_04_after_commit" =>
              /\ Boundary[entry] = "spooled"
              /\ UpTo[entry] = {"begin", "opened", "allocated", "put", "spooled"}
         /\ entry = "ack_01_before_extension_ack_transaction" =>
              /\ Boundary[entry] = "acknowledged"
              /\ UpTo[entry] = {"begin", "spooled", "/ingest", "acknowledged"}
         /\ entry = "ack_02_during_extension_ack_transaction" =>
              /\ Boundary[entry] = "acknowledging"
              /\ UpTo[entry] = {"begin", "spooled", "/ingest", "acknowledged", "acknowledging"}
         /\ entry = "ack_03_after_extension_ack_transaction" =>
              /\ Boundary[entry] = "persisted"
              /\ UpTo[entry] = {"begin", "spooled", "/ingest", "acknowledged", "acknowledging",
                                "persisted"}
         /\ entry \in {"idb_01_before_transaction", "idb_02_during_sequence_allocation",
                       "idb_03_during_row_put", "idb_04_after_commit",
                       "ack_01_before_extension_ack_transaction",
                       "ack_02_during_extension_ack_transaction",
                       "ack_03_after_extension_ack_transaction"}
BY DEF Boundary, UpTo

LEMMA StateOf ==
  ASSUME entry \in DOMAIN Registry
  PROVE  /\ entry \in {"idb_01_before_transaction", "idb_02_during_sequence_allocation",
                       "idb_03_during_row_put"} =>
              /\ Expected.spool = [rows |-> 0, ack |-> 0]
              /\ Expected.journal = [committed |-> 0, confirmed |-> 0]
         /\ entry \in {"idb_04_after_commit", "send_01_after_send_before_backend_begin"} =>
              /\ Expected.spool = [rows |-> 1, ack |-> 0]
              /\ Expected.journal = [committed |-> 0, confirmed |-> 0]
         /\ entry \in {"ack_01_before_extension_ack_transaction",
                       "ack_02_during_extension_ack_transaction"} =>
              /\ Expected.spool = [rows |-> 1, ack |-> 0]
              /\ Expected.journal = [committed |-> 1, confirmed |-> 0]
         /\ entry \in {"ack_03_after_extension_ack_transaction",
                       "ack_04_before_backend_confirmation_commit"} =>
              /\ Expected.spool = [rows |-> 1, ack |-> 1]
              /\ Expected.journal = [committed |-> 1, confirmed |-> 0]
         /\ entry \in {"ack_05_after_backend_confirmation_commit", "ack_06_duplicate_identical"} =>
              /\ Expected.spool = [rows |-> 1, ack |-> 1]
              /\ Expected.journal = [committed |-> 1, confirmed |-> 1]
BY DEF Expected, Registry, Expect

LEMMA StopsKnown == Nothing \notin Stops
BY NothingAssumption DEF Stops, Paths

LEMMA HandshakeStarts == HandshakeInit => HandshakeFacts
<1> SUFFICES ASSUME HandshakeInit PROVE HandshakeFacts
  OBVIOUS
<1>1. HandshakeTyped
  <2>1. upset \in BOOLEAN
    BY Zenon DEF HandshakeInit
  <2>2. entry \in DOMAIN Registry
    BY CasesAssumption DEF HandshakeInit
  <2>3. worker \in WorkerType
    BY DEF HandshakeInit, NoWorker, WorkerPlaces, WorkerType
  <2>4. receiver \in ReceiverType
    BY DEF HandshakeInit, NoReceiver, ReceiverType
  <2> QED
    BY <2>1, <2>2, <2>3, <2>4
       DEF HandshakeInit, HandshakeTyped, Spools, Journals, Bits, Tasks, Opening
<1>2. StoresKnown
  BY DEF HandshakeInit, StoresKnown, DurableInOrder, NoWorker, NoReceiver, Spooled, Acknowledged,
         Persisted, Confirmed, Busy
<1>3. Waits /\ StoppedAt
  BY NothingAssumption DEF HandshakeInit, Waits, StoppedAt, NoReceiver, Busy, Opening, Restarted
<1>4. Contained
  BY NothingAssumption, <1>1 DEF HandshakeInit, Contained, HandshakeTyped, NoWorker, Opening
<1> QED
  BY <1>1, <1>2, <1>3, <1>4 DEF HandshakeFacts

LEMMA MovesKeeps ==
  ASSUME HandshakeFacts, NEW from, NEW to \in WorkerPlaces, Moves(from, to)
  PROVE  /\ worker' = [worker EXCEPT !.at = to] /\ worker.at = from /\ worker'.at = to
         /\ worker'.op = worker.op /\ worker'.round = worker.round
         /\ worker'.to = worker.to /\ worker'.given = worker.given
         /\ worker' \in WorkerType
         /\ Expected' = Expected
         /\ StoppedAt'
<1>1. HandshakeTyped
  BY DEF HandshakeFacts
<1>2. /\ worker' = [worker EXCEPT !.at = to] /\ worker.at = from /\ ~Halted
      /\ worker \in WorkerType
  BY <1>1 DEF Moves, HandshakeTyped, WorkerType
<1>3. Expected' = Expected
  BY DEF Moves, Expected
<1>4. StoppedAt'
  BY <1>2, <1>3 DEF Moves, HandshakeFacts, StoppedAt, KillOf
<1> QED
  BY <1>2, <1>3, <1>4 DEF WorkerType

\* A worker's step that Moves from one place to the next.
LEMMA ContainedMoves ==
  ASSUME HandshakeFacts, NEW from, NEW to \in WorkerPlaces, Moves(from, to), from \notin {"gone", "answered"},
         worker.op = "crash" => to \in Preparing \cup {"spooled", "failed"},
         \/ to = "failed"
         \/ /\ <<from, to>> \in {<<"begin", "opened">>, <<"opened", "allocated">>,
                                 <<"allocated", "put">>, <<"put", "spooled">>}
            /\ worker.op = "crash"
         \/ /\ <<from, to>> \in {<<"begin", "spooled">>, <<"spooled", "/ingest">>,
                                 <<"/ingest", "acknowledged">>,
                                 <<"acknowledged", "acknowledging">>,
                                 <<"acknowledging", "persisted">>,
                                 <<"persisted", "/confirm">>, <<"/confirm", "confirmed">>,
                                 <<"confirmed", "answered">>}
            /\ worker.op # "crash"
  PROVE  Contained'
<1>1. /\ worker'.at = to /\ worker.at = from /\ worker'.op = worker.op /\ entry' = entry /\ task' = task
      /\ ~Halted /\ Expected' = Expected /\ receiver' = receiver
  BY MovesKeeps DEF Moves
<1>2. worker # NoWorker
  BY <1>1 DEF NoWorker
<1>3. Contained
  BY DEF HandshakeFacts
<1>4. (entry \in DOMAIN Boundary /\ worker.at \in UpTo[entry] /\ worker.op # "recover"
        /\ worker.op = (IF entry \in Indexed THEN "crash" ELSE "deliver")) =>
         to \in UpTo[entry] \cup {"failed"}
  BY <1>1, BoundaryOf DEF Halted, Indexed
<1>5. task \in {"await", "terminate"} => worker.op # "recover"
  BY <1>3 DEF Contained
<1> QED
  BY <1>1, <1>2, <1>3, <1>4, <1>5 DEF Contained


LEMMA OpenKeeps == ASSUME HandshakeFacts, AppendStep, worker.at = "begin" PROVE HandshakeFacts'
<1>1. HandshakeTyped /\ StoresKnown /\ Waits /\ Contained
  BY DEF HandshakeFacts
<1>2. Moves("begin", "opened") /\ "opened" \in WorkerPlaces /\ "begin" \notin {"gone", "answered"}
  BY DEF AppendStep, Moves, WorkerPlaces, Preparing, Spooled, Acknowledged, Persisted, Confirmed
<1>3. StoppedAt' /\ worker.at = "begin" /\ worker'.at = "opened" /\ worker'.op = worker.op
  BY <1>2, MovesKeeps
<1>4. Contained'
  BY <1>1, <1>2, ContainedMoves
     DEF AppendStep, Moves, Contained, Preparing, Spooled, Acknowledged, Persisted, Confirmed
<1>5. HandshakeTyped'
  BY <1>1, <1>2, MovesKeeps DEF AppendStep, Moves, Moves, HandshakeTyped, Spools, Bits
<1>6. Waits'
  BY <1>1, <1>2, <1>3
     DEF AppendStep, Moves, Moves, Waits, HandshakeTyped, WorkerType, ReceiverType, Paths, Busy
<1>7. StoresKnown'
  BY <1>1, <1>2, <1>3
     DEF AppendStep, Moves, Moves, StoresKnown, DurableInOrder, HandshakeTyped, Waits, Spools,
         Journals, Bits, Paths, Preparing, Spooled, Acknowledged, Persisted, Confirmed, Busy
<1> QED
  BY <1>3, <1>4, <1>5, <1>6, <1>7 DEF HandshakeFacts

LEMMA Post1Keeps == ASSUME HandshakeFacts, Post("/ingest", "spooled") PROVE HandshakeFacts'
<1>1. HandshakeTyped /\ StoresKnown /\ Waits /\ Contained
  BY DEF HandshakeFacts
<1>2. Moves("spooled", "/ingest") /\ "/ingest" \in WorkerPlaces /\ "spooled" \notin {"gone", "answered"}
  BY DEF Post, WorkerPlaces, Preparing, Spooled, Acknowledged, Persisted, Confirmed
<1>3. StoppedAt' /\ worker.at = "spooled" /\ worker'.at = "/ingest" /\ worker'.op = worker.op
  BY <1>2, MovesKeeps
<1>4. Contained'
  BY <1>1, <1>2, ContainedMoves
     DEF Post, Contained, Preparing, Spooled, Acknowledged, Persisted, Confirmed
<1>5. HandshakeTyped'
  BY <1>1, <1>2, MovesKeeps DEF Post, Moves, HandshakeTyped, Spools, Bits
<1>6. Waits'
  BY <1>1, <1>2, <1>3
     DEF Post, Moves, Waits, HandshakeTyped, WorkerType, ReceiverType, Paths, Busy
<1>7. StoresKnown'
  BY <1>1, <1>2, <1>3
     DEF Post, Moves, StoresKnown, DurableInOrder, HandshakeTyped, Waits, Spools, Journals, Bits,
         Paths, Preparing, Spooled, Acknowledged, Persisted, Confirmed, Busy
<1> QED
  BY <1>3, <1>4, <1>5, <1>6, <1>7 DEF HandshakeFacts

LEMMA ConfirmKeeps == ASSUME HandshakeFacts, Confirm PROVE HandshakeFacts'
<1>1. HandshakeTyped /\ StoresKnown /\ Waits /\ Contained
  BY DEF HandshakeFacts
<1>2. Moves("persisted", "/confirm") /\ "/confirm" \in WorkerPlaces /\ "persisted" \notin {"gone", "answered"}
  BY DEF Confirm, Post, WorkerPlaces, Preparing, Spooled, Acknowledged, Persisted, Confirmed
<1>3. StoppedAt' /\ worker.at = "persisted" /\ worker'.at = "/confirm" /\ worker'.op = worker.op
  BY <1>2, MovesKeeps
<1>4. Contained'
  BY <1>1, <1>2, ContainedMoves
     DEF Confirm, Post, Contained, Preparing, Spooled, Acknowledged, Persisted, Confirmed
<1>5. HandshakeTyped'
  BY <1>1, <1>2, MovesKeeps DEF Confirm, Post, Moves, HandshakeTyped, Spools, Bits
<1>6. Waits'
  BY <1>1, <1>2, <1>3
     DEF Confirm, Post, Moves, Waits, HandshakeTyped, WorkerType, ReceiverType, Paths, Busy
<1>7. StoresKnown'
  BY <1>1, <1>2, <1>3
     DEF Confirm, Post, Moves, StoresKnown, DurableInOrder, HandshakeTyped, Waits, Spools,
         Journals, Bits, Paths, Preparing, Spooled, Acknowledged, Persisted, Confirmed, Busy
<1> QED
  BY <1>3, <1>4, <1>5, <1>6, <1>7 DEF HandshakeFacts

LEMMA AllocateKeeps ==
  ASSUME HandshakeFacts, AppendStep, worker.at = "opened"
  PROVE  HandshakeFacts'
<1>1. HandshakeTyped /\ StoresKnown /\ Waits /\ Contained
  BY DEF HandshakeFacts
<1>2. Moves("opened", "allocated") /\ "allocated" \in WorkerPlaces /\ "opened" \notin {"gone", "answered"}
  BY DEF AppendStep, Moves, WorkerPlaces, Preparing, Spooled, Acknowledged, Persisted, Confirmed
<1>3. StoppedAt' /\ worker.at = "opened" /\ worker'.at = "allocated" /\ worker'.op = worker.op
  BY <1>2, MovesKeeps
<1>4. Contained'
  BY <1>1, <1>2, ContainedMoves
     DEF AppendStep, Moves, Contained, Preparing, Spooled, Acknowledged, Persisted, Confirmed
<1>5. HandshakeTyped'
  BY <1>1, <1>2, MovesKeeps DEF AppendStep, Moves, Moves, HandshakeTyped, Spools, Bits
<1>6. Waits'
  BY <1>1, <1>2, <1>3
     DEF AppendStep, Moves, Moves, Waits, HandshakeTyped, WorkerType, ReceiverType, Paths, Busy
<1>7. StoresKnown'
  BY <1>1, <1>2, <1>3
     DEF AppendStep, Moves, Moves, StoresKnown, DurableInOrder, HandshakeTyped, Waits, Spools,
         Journals, Bits, Paths, Preparing, Spooled, Acknowledged, Persisted, Confirmed, Busy
<1> QED
  BY <1>3, <1>4, <1>5, <1>6, <1>7 DEF HandshakeFacts

LEMMA PutKeeps == ASSUME HandshakeFacts, AppendStep, worker.at = "allocated" PROVE HandshakeFacts'
<1>1. HandshakeTyped /\ StoresKnown /\ Waits /\ Contained
  BY DEF HandshakeFacts
<1>2. Moves("allocated", "put") /\ "put" \in WorkerPlaces /\ "allocated" \notin {"gone", "answered"}
  BY DEF AppendStep, Moves, WorkerPlaces, Preparing, Spooled, Acknowledged, Persisted, Confirmed
<1>3. StoppedAt' /\ worker.at = "allocated" /\ worker'.at = "put" /\ worker'.op = worker.op
  BY <1>2, MovesKeeps
<1>4. Contained'
  BY <1>1, <1>2, ContainedMoves
     DEF AppendStep, Moves, Contained, Preparing, Spooled, Acknowledged, Persisted, Confirmed
<1>5. HandshakeTyped'
  BY <1>1, <1>2, MovesKeeps DEF AppendStep, Moves, Moves, HandshakeTyped, Spools, Bits
<1>6. Waits'
  BY <1>1, <1>2, <1>3
     DEF AppendStep, Moves, Moves, Waits, HandshakeTyped, WorkerType, ReceiverType, Paths, Busy
<1>7. StoresKnown'
  BY <1>1, <1>2, <1>3
     DEF AppendStep, Moves, Moves, StoresKnown, DurableInOrder, HandshakeTyped, Waits, Spools,
         Journals, Bits, Paths, Preparing, Spooled, Acknowledged, Persisted, Confirmed, Busy
<1> QED
  BY <1>3, <1>4, <1>5, <1>6, <1>7 DEF HandshakeFacts

LEMMA SpooledKeeps == ASSUME HandshakeFacts, AppendStep, worker.at = "put" PROVE HandshakeFacts'
<1>1. HandshakeTyped /\ StoresKnown /\ Waits /\ Contained
  BY DEF HandshakeFacts
<1>2. Moves("put", "spooled") /\ "spooled" \in WorkerPlaces /\ "put" \notin {"gone", "answered"}
  BY DEF AppendStep, Moves, WorkerPlaces, Preparing, Spooled, Acknowledged, Persisted, Confirmed
<1>3. StoppedAt' /\ worker.at = "put" /\ worker'.at = "spooled" /\ worker'.op = worker.op
  BY <1>2, MovesKeeps
<1>4. Contained'
  BY <1>1, <1>2, ContainedMoves
     DEF AppendStep, Moves, Contained, Preparing, Spooled, Acknowledged, Persisted, Confirmed
<1>5. HandshakeTyped'
  BY <1>1, <1>2, MovesKeeps DEF AppendStep, Moves, Moves, HandshakeTyped, Spools, Bits
<1>6. Waits'
  BY <1>1, <1>2, <1>3
     DEF AppendStep, Moves, Moves, Waits, HandshakeTyped, WorkerType, ReceiverType, Paths, Busy
<1>7. StoresKnown'
  BY <1>1, <1>2, <1>3
     DEF AppendStep, Moves, Moves, StoresKnown, DurableInOrder, HandshakeTyped, Waits, Spools,
         Journals, Bits, Paths, Preparing, Spooled, Acknowledged, Persisted, Confirmed, Busy
<1> QED
  BY <1>3, <1>4, <1>5, <1>6, <1>7 DEF HandshakeFacts

LEMMA AppendKeeps ==
  ASSUME HandshakeFacts, Append1, spool.rows = 1 \/ worker.given
  PROVE  HandshakeFacts'
<1>1. HandshakeTyped /\ StoresKnown /\ Waits /\ Contained
  BY DEF HandshakeFacts
<1>2. Moves("begin", "spooled") /\ "spooled" \in WorkerPlaces /\ "begin" \notin {"gone", "answered"}
  BY DEF Append1, Moves, WorkerPlaces, Preparing, Spooled, Acknowledged, Persisted, Confirmed
<1>3. StoppedAt' /\ worker.at = "begin" /\ worker'.at = "spooled" /\ worker'.op = worker.op
  BY <1>2, MovesKeeps
<1>4. Contained'
  BY <1>1, <1>2, ContainedMoves
     DEF Append1, Moves, Contained, Preparing, Spooled, Acknowledged, Persisted, Confirmed
<1>5. HandshakeTyped'
  BY <1>1, <1>2, MovesKeeps DEF Append1, Moves, Moves, HandshakeTyped, Spools, Bits
<1>6. Waits'
  BY <1>1, <1>2, <1>3
     DEF Append1, Moves, Moves, Waits, HandshakeTyped, WorkerType, ReceiverType, Paths, Busy
<1>7. StoresKnown'
  BY <1>1, <1>2, <1>3
     DEF Append1, Moves, Moves, StoresKnown, DurableInOrder, HandshakeTyped, Waits, Spools,
         Journals, Bits, Paths, Preparing, Spooled, Acknowledged, Persisted, Confirmed, Busy
<1> QED
  BY <1>3, <1>4, <1>5, <1>6, <1>7 DEF HandshakeFacts

LEMMA AppendFailsKeeps ==
  ASSUME HandshakeFacts, Append1, ~(spool.rows = 1 \/ worker.given)
  PROVE  HandshakeFacts'
<1>1. HandshakeTyped /\ StoresKnown /\ Waits /\ Contained
  BY DEF HandshakeFacts
<1>2. Moves("begin", "failed") /\ "failed" \in WorkerPlaces /\ "begin" \notin {"gone", "answered"}
  BY DEF Append1, Moves, WorkerPlaces, Preparing, Spooled, Acknowledged, Persisted, Confirmed
<1>3. StoppedAt' /\ worker.at = "begin" /\ worker'.at = "failed" /\ worker'.op = worker.op
  BY <1>2, MovesKeeps
<1>4. Contained'
  BY <1>1, <1>2, ContainedMoves
     DEF Append1, Moves, Contained, Preparing, Spooled, Acknowledged, Persisted, Confirmed
<1>5. HandshakeTyped'
  BY <1>1, <1>2, MovesKeeps DEF Append1, Moves, Moves, HandshakeTyped, Spools, Bits
<1>6. Waits'
  BY <1>1, <1>2, <1>3
     DEF Append1, Moves, Moves, Waits, HandshakeTyped, WorkerType, ReceiverType, Paths, Busy
<1>7. StoresKnown'
  BY <1>1, <1>2, <1>3
     DEF Append1, Moves, Moves, StoresKnown, DurableInOrder, HandshakeTyped, Waits, Spools,
         Journals, Bits, Paths, Preparing, Spooled, Acknowledged, Persisted, Confirmed, Busy
<1> QED
  BY <1>3, <1>4, <1>5, <1>6, <1>7 DEF HandshakeFacts

LEMMA AcknowledgingKeeps ==
  ASSUME HandshakeFacts, PersistAck, worker.at = "acknowledged"
  PROVE  HandshakeFacts'
<1>1. HandshakeTyped /\ StoresKnown /\ Waits /\ Contained
  BY DEF HandshakeFacts
<1>2. Moves("acknowledged", "acknowledging") /\ "acknowledging" \in WorkerPlaces /\ "acknowledged" \notin {"gone", "answered"}
  BY DEF PersistAck, Moves, WorkerPlaces, Preparing, Spooled, Acknowledged, Persisted, Confirmed
<1>3. StoppedAt' /\ worker.at = "acknowledged" /\ worker'.at = "acknowledging" /\ worker'.op = worker.op
  BY <1>2, MovesKeeps
<1>4. Contained'
  BY <1>1, <1>2, ContainedMoves
     DEF PersistAck, Moves, Contained, Preparing, Spooled, Acknowledged, Persisted, Confirmed
<1>5. HandshakeTyped'
  BY <1>1, <1>2, MovesKeeps DEF PersistAck, Moves, Moves, HandshakeTyped, Spools, Bits
<1>6. Waits'
  BY <1>1, <1>2, <1>3
     DEF PersistAck, Moves, Moves, Waits, HandshakeTyped, WorkerType, ReceiverType, Paths, Busy
<1>7. StoresKnown'
  BY <1>1, <1>2, <1>3
     DEF PersistAck, Moves, Moves, StoresKnown, DurableInOrder, HandshakeTyped, Waits, Spools,
         Journals, Bits, Paths, Preparing, Spooled, Acknowledged, Persisted, Confirmed, Busy
<1> QED
  BY <1>3, <1>4, <1>5, <1>6, <1>7 DEF HandshakeFacts

LEMMA PersistKeeps ==
  ASSUME HandshakeFacts, PersistAck, worker.at = "acknowledging"
  PROVE  HandshakeFacts'
<1>1. HandshakeTyped /\ StoresKnown /\ Waits /\ Contained
  BY DEF HandshakeFacts
<1>2. Moves("acknowledging", "persisted") /\ "persisted" \in WorkerPlaces /\ "acknowledging" \notin {"gone", "answered"}
  BY DEF PersistAck, Moves, WorkerPlaces, Preparing, Spooled, Acknowledged, Persisted, Confirmed
<1>3. StoppedAt' /\ worker.at = "acknowledging" /\ worker'.at = "persisted" /\ worker'.op = worker.op
  BY <1>2, MovesKeeps
<1>4. Contained'
  BY <1>1, <1>2, ContainedMoves
     DEF PersistAck, Moves, Contained, Preparing, Spooled, Acknowledged, Persisted, Confirmed
<1>5. HandshakeTyped'
  BY <1>1, <1>2, MovesKeeps DEF PersistAck, Moves, Moves, HandshakeTyped, Spools, Bits
<1>6. Waits'
  BY <1>1, <1>2, <1>3
     DEF PersistAck, Moves, Moves, Waits, HandshakeTyped, WorkerType, ReceiverType, Paths, Busy
<1>7. StoresKnown'
  BY <1>1, <1>2, <1>3
     DEF PersistAck, Moves, Moves, StoresKnown, DurableInOrder, HandshakeTyped, Waits, Spools,
         Journals, Bits, Paths, Preparing, Spooled, Acknowledged, Persisted, Confirmed, Busy
<1> QED
  BY <1>3, <1>4, <1>5, <1>6, <1>7 DEF HandshakeFacts

LEMMA EndKeeps ==
  ASSUME HandshakeFacts, EndRound,
         ~(entry = "ack_06_duplicate_identical" /\ worker.op = "deliver" /\ worker.round = 1)
  PROVE  HandshakeFacts'
<1>1. HandshakeTyped /\ StoresKnown /\ Waits /\ Contained
  BY DEF HandshakeFacts
<1>2. Moves("confirmed", "answered") /\ "answered" \in WorkerPlaces /\ "confirmed" \notin {"gone", "answered"}
  BY DEF EndRound, Moves, WorkerPlaces, Preparing, Spooled, Acknowledged, Persisted, Confirmed
<1>3. StoppedAt' /\ worker.at = "confirmed" /\ worker'.at = "answered" /\ worker'.op = worker.op
  BY <1>2, MovesKeeps
<1>4. Contained'
  BY <1>1, <1>2, ContainedMoves
     DEF EndRound, Moves, Contained, Preparing, Spooled, Acknowledged, Persisted, Confirmed
<1>5. HandshakeTyped'
  BY <1>1, <1>2, MovesKeeps DEF EndRound, Moves, Moves, HandshakeTyped, Spools, Bits
<1>6. Waits'
  BY <1>1, <1>2, <1>3
     DEF EndRound, Moves, Moves, Waits, HandshakeTyped, WorkerType, ReceiverType, Paths, Busy
<1>7. StoresKnown'
  BY <1>1, <1>2, <1>3
     DEF EndRound, Moves, Moves, StoresKnown, DurableInOrder, HandshakeTyped, Waits, Spools,
         Journals, Bits, Paths, Preparing, Spooled, Acknowledged, Persisted, Confirmed, Busy
<1> QED
  BY <1>3, <1>4, <1>5, <1>6, <1>7 DEF HandshakeFacts

LEMMA IngestLostKeeps ==
  ASSUME HandshakeFacts, Unanswered, worker.at = "/ingest"
  PROVE  HandshakeFacts'
<1>1. HandshakeTyped /\ StoresKnown /\ Waits /\ Contained
  BY DEF HandshakeFacts
<1>2. Moves("/ingest", "failed") /\ "failed" \in WorkerPlaces /\ "/ingest" \notin {"gone", "answered"}
  BY DEF Unanswered, Moves, WorkerPlaces, Preparing, Spooled, Acknowledged, Persisted, Confirmed
<1>3. StoppedAt' /\ worker.at = "/ingest" /\ worker'.at = "failed" /\ worker'.op = worker.op
  BY <1>2, MovesKeeps
<1>4. Contained'
  BY <1>1, <1>2, ContainedMoves
     DEF Unanswered, Moves, Contained, Preparing, Spooled, Acknowledged, Persisted, Confirmed
<1>5. HandshakeTyped'
  BY <1>1, <1>2, MovesKeeps DEF Unanswered, Moves, Moves, HandshakeTyped, Spools, Bits
<1>6. Waits'
  BY <1>1, <1>2, <1>3
     DEF Unanswered, Moves, Moves, Waits, HandshakeTyped, WorkerType, ReceiverType, Paths, Busy
<1>7. StoresKnown'
  BY <1>1, <1>2, <1>3
     DEF Unanswered, Moves, Moves, StoresKnown, DurableInOrder, HandshakeTyped, Waits, Spools,
         Journals, Bits, Paths, Preparing, Spooled, Acknowledged, Persisted, Confirmed, Busy
<1> QED
  BY <1>3, <1>4, <1>5, <1>6, <1>7 DEF HandshakeFacts

LEMMA ConfirmLostKeeps ==
  ASSUME HandshakeFacts, Unanswered, worker.at = "/confirm"
  PROVE  HandshakeFacts'
<1>1. HandshakeTyped /\ StoresKnown /\ Waits /\ Contained
  BY DEF HandshakeFacts
<1>2. Moves("/confirm", "failed") /\ "failed" \in WorkerPlaces /\ "/confirm" \notin {"gone", "answered"}
  BY DEF Unanswered, Moves, WorkerPlaces, Preparing, Spooled, Acknowledged, Persisted, Confirmed
<1>3. StoppedAt' /\ worker.at = "/confirm" /\ worker'.at = "failed" /\ worker'.op = worker.op
  BY <1>2, MovesKeeps
<1>4. Contained'
  BY <1>1, <1>2, ContainedMoves
     DEF Unanswered, Moves, Contained, Preparing, Spooled, Acknowledged, Persisted, Confirmed
<1>5. HandshakeTyped'
  BY <1>1, <1>2, MovesKeeps DEF Unanswered, Moves, Moves, HandshakeTyped, Spools, Bits
<1>6. Waits'
  BY <1>1, <1>2, <1>3
     DEF Unanswered, Moves, Moves, Waits, HandshakeTyped, WorkerType, ReceiverType, Paths, Busy
<1>7. StoresKnown'
  BY <1>1, <1>2, <1>3
     DEF Unanswered, Moves, Moves, StoresKnown, DurableInOrder, HandshakeTyped, Waits, Spools,
         Journals, Bits, Paths, Preparing, Spooled, Acknowledged, Persisted, Confirmed, Busy
<1> QED
  BY <1>3, <1>4, <1>5, <1>6, <1>7 DEF HandshakeFacts

LEMMA ReceiveKeeps == ASSUME HandshakeFacts, Receive PROVE HandshakeFacts'
<1>1. HandshakeTyped /\ StoresKnown /\ Waits /\ Contained /\ StoppedAt
  BY DEF HandshakeFacts
<1>2. Expected' = Expected /\ entry' = entry
  BY DEF Receive, Expected, ReceiverUnchanged, Step
<1>a. worker \in WorkerType /\ receiver \in ReceiverType
  BY <1>1 DEF HandshakeTyped
<1>b. worker' \in WorkerType
  BY <1>a
     DEF Receive, WorkerType, Preparing, Spooled, Acknowledged, Persisted, Confirmed,
         WorkerPlaces, Spools, Journals, Bits, Paths, Busy, Opening, Restarted, Tasks, Stops,
         NoReceiver, NoWorker, Step, ReceiverUnchanged, Halted
<1>c. receiver' \in ReceiverType
  <2>1. receiver.serial + 1 \in Nat /\ request.path \in Paths
    BY <1>a, <1>1 DEF Receive, Waits, ReceiverType
  <2> QED
    BY <1>a, <2>1 DEF Receive, ReceiverType, Busy
<1>3. HandshakeTyped'
  BY <1>1, <1>2, <1>b, <1>c
     DEF Receive, HandshakeTyped, Preparing, Spooled, Acknowledged, Persisted, Confirmed,
         WorkerPlaces, Spools, Journals, Bits, Paths, Busy, Opening, Restarted, Tasks, Stops,
         NoReceiver, NoWorker, Step, ReceiverUnchanged, Halted
<1>4. Waits'
  BY <1>1, <1>2, BoundaryOf, KillOf
     DEF Receive, HandshakeTyped, WorkerType, ReceiverType, Waits, Contained, Preparing, Spooled,
         Acknowledged, Persisted, Confirmed, WorkerPlaces, Spools, Journals, Bits, Paths, Busy,
         Opening, Restarted, Tasks, Stops, NoReceiver, NoWorker, Step, ReceiverUnchanged, Halted
<1>5. StoresKnown'
  BY <1>1, <1>2
     DEF Receive, HandshakeTyped, StoresKnown, DurableInOrder, Waits, Preparing, Spooled,
         Acknowledged, Persisted, Confirmed, WorkerPlaces, Spools, Journals, Bits, Paths, Busy,
         Opening, Restarted, Tasks, Stops, NoReceiver, NoWorker, Step, ReceiverUnchanged, Halted
<1>6. Contained'
  BY <1>1, <1>2, BoundaryOf, NothingAssumption
     DEF Receive, HandshakeTyped, WorkerType, ReceiverType, Contained, Waits, Preparing, Spooled,
         Acknowledged, Persisted, Confirmed, WorkerPlaces, Spools, Journals, Bits, Paths, Busy,
         Opening, Restarted, Tasks, Stops, NoReceiver, NoWorker, Step, ReceiverUnchanged, Halted,
         Indexed
<1>7. StoppedAt'
  BY <1>1, <1>2, KillOf, BoundaryOf, NothingAssumption
     DEF Receive, Indexed, HandshakeTyped, WorkerType, ReceiverType, Contained, Waits, StoppedAt,
         Preparing, Spooled, Acknowledged, Persisted, Confirmed, WorkerPlaces, Spools, Journals,
         Bits, Paths, Busy, Opening, Restarted, Tasks, Stops, NoReceiver, NoWorker, Step,
         ReceiverUnchanged, Halted
<1> QED
  BY <1>3, <1>4, <1>5, <1>6, <1>7 DEF HandshakeFacts

LEMMA HoldKeeps == ASSUME HandshakeFacts, Hold PROVE HandshakeFacts'
<1>1. HandshakeTyped /\ StoresKnown /\ Waits /\ Contained /\ StoppedAt
  BY DEF HandshakeFacts
<1>2. Expected' = Expected /\ entry' = entry
  BY DEF Hold, HoldsAt, Expected, ReceiverUnchanged, Step
<1>a. worker \in WorkerType /\ receiver \in ReceiverType
  BY <1>1 DEF HandshakeTyped
<1>b. worker' \in WorkerType
  BY <1>a
     DEF Hold, HoldsAt, WorkerType, Preparing, Spooled, Acknowledged, Persisted, Confirmed,
         WorkerPlaces, Spools, Journals, Bits, Paths, Busy, Opening, Restarted, Tasks, Stops,
         NoReceiver, NoWorker, Step, ReceiverUnchanged, Halted
<1>c. receiver' \in ReceiverType
  BY <1>a, <1>1
     DEF Hold, HoldsAt, Waits, ReceiverType, Preparing, Spooled, Acknowledged, Persisted,
         Confirmed, WorkerPlaces, Spools, Journals, Bits, Paths, Busy, Opening, Restarted, Tasks,
         Stops, NoReceiver, NoWorker, Step, ReceiverUnchanged, Halted
<1>3. HandshakeTyped'
  BY <1>1, <1>2, <1>b, <1>c
     DEF Hold, HoldsAt, HandshakeTyped, Preparing, Spooled, Acknowledged, Persisted, Confirmed,
         WorkerPlaces, Spools, Journals, Bits, Paths, Busy, Opening, Restarted, Tasks, Stops,
         NoReceiver, NoWorker, Step, ReceiverUnchanged, Halted
<1>4. Waits'
  BY <1>1, <1>2, BoundaryOf, KillOf
     DEF Hold, HoldsAt, HandshakeTyped, WorkerType, ReceiverType, Waits, Contained, Preparing,
         Spooled, Acknowledged, Persisted, Confirmed, WorkerPlaces, Spools, Journals, Bits,
         Paths, Busy, Opening, Restarted, Tasks, Stops, NoReceiver, NoWorker, Step,
         ReceiverUnchanged, Halted
<1>5. StoresKnown'
  BY <1>1, <1>2
     DEF Hold, HoldsAt, HandshakeTyped, StoresKnown, DurableInOrder, Waits, Preparing, Spooled,
         Acknowledged, Persisted, Confirmed, WorkerPlaces, Spools, Journals, Bits, Paths, Busy,
         Opening, Restarted, Tasks, Stops, NoReceiver, NoWorker, Step, ReceiverUnchanged, Halted
<1>6. Contained'
  BY <1>1, <1>2, BoundaryOf, NothingAssumption
     DEF Hold, HoldsAt, HandshakeTyped, WorkerType, ReceiverType, Contained, Waits, Preparing,
         Spooled, Acknowledged, Persisted, Confirmed, WorkerPlaces, Spools, Journals, Bits,
         Paths, Busy, Opening, Restarted, Tasks, Stops, NoReceiver, NoWorker, Step,
         ReceiverUnchanged, Halted, Indexed
<1>7. StoppedAt'
  BY <1>1, <1>2, KillOf, BoundaryOf, NothingAssumption
     DEF Hold, HoldsAt, Indexed, HandshakeTyped, WorkerType, ReceiverType, Contained, Waits,
         StoppedAt, Preparing, Spooled, Acknowledged, Persisted, Confirmed, WorkerPlaces, Spools,
         Journals, Bits, Paths, Busy, Opening, Restarted, Tasks, Stops, NoReceiver, NoWorker,
         Step, ReceiverUnchanged, Halted
<1> QED
  BY <1>3, <1>4, <1>5, <1>6, <1>7 DEF HandshakeFacts

LEMMA ApplyKeeps == ASSUME HandshakeFacts, Apply PROVE HandshakeFacts'
<1>1. HandshakeTyped /\ StoresKnown /\ Waits /\ Contained /\ StoppedAt
  BY DEF HandshakeFacts
<1>2. Expected' = Expected /\ entry' = entry
  BY DEF Apply, Expected, ReceiverUnchanged, Step
<1>a. worker \in WorkerType /\ receiver \in ReceiverType
  BY <1>1 DEF HandshakeTyped
<1>b. worker' \in WorkerType
  BY <1>a
     DEF Apply, WorkerType, Preparing, Spooled, Acknowledged, Persisted, Confirmed, WorkerPlaces,
         Spools, Journals, Bits, Paths, Busy, Opening, Restarted, Tasks, Stops, NoReceiver,
         NoWorker, Step, ReceiverUnchanged, Halted
<1>c. receiver' \in ReceiverType
  BY <1>a, <1>1
     DEF Apply, Waits, ReceiverType, Preparing, Spooled, Acknowledged, Persisted, Confirmed,
         WorkerPlaces, Spools, Journals, Bits, Paths, Busy, Opening, Restarted, Tasks, Stops,
         NoReceiver, NoWorker, Step, ReceiverUnchanged, Halted
<1>3. HandshakeTyped'
  BY <1>1, <1>2, <1>b, <1>c
     DEF Apply, HandshakeTyped, Preparing, Spooled, Acknowledged, Persisted, Confirmed,
         WorkerPlaces, Spools, Journals, Bits, Paths, Busy, Opening, Restarted, Tasks, Stops,
         NoReceiver, NoWorker, Step, ReceiverUnchanged, Halted
<1>4. Waits'
  BY <1>1, <1>2, BoundaryOf, KillOf
     DEF Apply, HandshakeTyped, WorkerType, ReceiverType, Waits, Contained, Preparing, Spooled,
         Acknowledged, Persisted, Confirmed, WorkerPlaces, Spools, Journals, Bits, Paths, Busy,
         Opening, Restarted, Tasks, Stops, NoReceiver, NoWorker, Step, ReceiverUnchanged, Halted
<1>5. StoresKnown'
  BY <1>1, <1>2
     DEF Apply, HandshakeTyped, StoresKnown, DurableInOrder, Waits, Preparing, Spooled,
         Acknowledged, Persisted, Confirmed, WorkerPlaces, Spools, Journals, Bits, Paths, Busy,
         Opening, Restarted, Tasks, Stops, NoReceiver, NoWorker, Step, ReceiverUnchanged, Halted
<1>6. Contained'
  BY <1>1, <1>2, BoundaryOf, NothingAssumption
     DEF Apply, HandshakeTyped, WorkerType, ReceiverType, Contained, Waits, Preparing, Spooled,
         Acknowledged, Persisted, Confirmed, WorkerPlaces, Spools, Journals, Bits, Paths, Busy,
         Opening, Restarted, Tasks, Stops, NoReceiver, NoWorker, Step, ReceiverUnchanged, Halted,
         Indexed
<1>7. StoppedAt'
  BY <1>1, <1>2, KillOf, BoundaryOf, NothingAssumption
     DEF Apply, Indexed, HandshakeTyped, WorkerType, ReceiverType, Contained, Waits, StoppedAt,
         Preparing, Spooled, Acknowledged, Persisted, Confirmed, WorkerPlaces, Spools, Journals,
         Bits, Paths, Busy, Opening, Restarted, Tasks, Stops, NoReceiver, NoWorker, Step,
         ReceiverUnchanged, Halted
<1> QED
  BY <1>3, <1>4, <1>5, <1>6, <1>7 DEF HandshakeFacts

LEMMA RecordKeeps == ASSUME HandshakeFacts, Record PROVE HandshakeFacts'
<1>1. HandshakeTyped /\ StoresKnown /\ Waits /\ Contained /\ StoppedAt
  BY DEF HandshakeFacts
<1>2. Expected' = Expected /\ entry' = entry
  BY DEF Record, Expected, ReceiverUnchanged, Step
<1>a. worker \in WorkerType /\ receiver \in ReceiverType
  BY <1>1 DEF HandshakeTyped
<1>b. worker' \in WorkerType
  BY <1>a
     DEF Record, WorkerType, Preparing, Spooled, Acknowledged, Persisted, Confirmed,
         WorkerPlaces, Spools, Journals, Bits, Paths, Busy, Opening, Restarted, Tasks, Stops,
         NoReceiver, NoWorker, Step, ReceiverUnchanged, Halted
<1>c. receiver' \in ReceiverType
  BY <1>a, <1>1
     DEF Record, Waits, ReceiverType, Preparing, Spooled, Acknowledged, Persisted, Confirmed,
         WorkerPlaces, Spools, Journals, Bits, Paths, Busy, Opening, Restarted, Tasks, Stops,
         NoReceiver, NoWorker, Step, ReceiverUnchanged, Halted
<1>3. HandshakeTyped'
  BY <1>1, <1>2, <1>b, <1>c
     DEF Record, HandshakeTyped, Preparing, Spooled, Acknowledged, Persisted, Confirmed,
         WorkerPlaces, Spools, Journals, Bits, Paths, Busy, Opening, Restarted, Tasks, Stops,
         NoReceiver, NoWorker, Step, ReceiverUnchanged, Halted
<1>4. Waits'
  BY <1>1, <1>2, BoundaryOf, KillOf
     DEF Record, HandshakeTyped, WorkerType, ReceiverType, Waits, Contained, Preparing, Spooled,
         Acknowledged, Persisted, Confirmed, WorkerPlaces, Spools, Journals, Bits, Paths, Busy,
         Opening, Restarted, Tasks, Stops, NoReceiver, NoWorker, Step, ReceiverUnchanged, Halted
<1>5. StoresKnown'
  BY <1>1, <1>2
     DEF Record, HandshakeTyped, StoresKnown, DurableInOrder, Waits, Preparing, Spooled,
         Acknowledged, Persisted, Confirmed, WorkerPlaces, Spools, Journals, Bits, Paths, Busy,
         Opening, Restarted, Tasks, Stops, NoReceiver, NoWorker, Step, ReceiverUnchanged, Halted
<1>6. Contained'
  BY <1>1, <1>2, BoundaryOf, NothingAssumption
     DEF Record, HandshakeTyped, WorkerType, ReceiverType, Contained, Waits, Preparing, Spooled,
         Acknowledged, Persisted, Confirmed, WorkerPlaces, Spools, Journals, Bits, Paths, Busy,
         Opening, Restarted, Tasks, Stops, NoReceiver, NoWorker, Step, ReceiverUnchanged, Halted,
         Indexed
<1>7. StoppedAt'
  BY <1>1, <1>2, KillOf, BoundaryOf, NothingAssumption
     DEF Record, Indexed, HandshakeTyped, WorkerType, ReceiverType, Contained, Waits, StoppedAt,
         Preparing, Spooled, Acknowledged, Persisted, Confirmed, WorkerPlaces, Spools, Journals,
         Bits, Paths, Busy, Opening, Restarted, Tasks, Stops, NoReceiver, NoWorker, Step,
         ReceiverUnchanged, Halted
<1> QED
  BY <1>3, <1>4, <1>5, <1>6, <1>7 DEF HandshakeFacts

LEMMA RespondKeeps == ASSUME HandshakeFacts, Respond PROVE HandshakeFacts'
<1>1. HandshakeTyped /\ StoresKnown /\ Waits /\ Contained /\ StoppedAt
  BY DEF HandshakeFacts
<1>2. Expected' = Expected /\ entry' = entry
  BY DEF Respond, Expected, ReceiverUnchanged, Step
<1>a. worker \in WorkerType /\ receiver \in ReceiverType
  BY <1>1 DEF HandshakeTyped
<1>b. worker' \in WorkerType
  BY <1>a
     DEF Respond, WorkerType, Preparing, Spooled, Acknowledged, Persisted, Confirmed,
         WorkerPlaces, Spools, Journals, Bits, Paths, Busy, Opening, Restarted, Tasks, Stops,
         NoReceiver, NoWorker, Step, ReceiverUnchanged, Halted
<1>c. receiver' \in ReceiverType
  BY <1>a, <1>1
     DEF Respond, Waits, ReceiverType, Preparing, Spooled, Acknowledged, Persisted, Confirmed,
         WorkerPlaces, Spools, Journals, Bits, Paths, Busy, Opening, Restarted, Tasks, Stops,
         NoReceiver, NoWorker, Step, ReceiverUnchanged, Halted
<1>3. HandshakeTyped'
  BY <1>1, <1>2, <1>b, <1>c
     DEF Respond, HandshakeTyped, Preparing, Spooled, Acknowledged, Persisted, Confirmed,
         WorkerPlaces, Spools, Journals, Bits, Paths, Busy, Opening, Restarted, Tasks, Stops,
         NoReceiver, NoWorker, Step, ReceiverUnchanged, Halted
<1>4. Waits'
  BY <1>1, <1>2, BoundaryOf, KillOf
     DEF Respond, HandshakeTyped, WorkerType, ReceiverType, Waits, Contained, Preparing, Spooled,
         Acknowledged, Persisted, Confirmed, WorkerPlaces, Spools, Journals, Bits, Paths, Busy,
         Opening, Restarted, Tasks, Stops, NoReceiver, NoWorker, Step, ReceiverUnchanged, Halted
<1>5. StoresKnown'
  BY <1>1, <1>2
     DEF Respond, HandshakeTyped, StoresKnown, DurableInOrder, Waits, Preparing, Spooled,
         Acknowledged, Persisted, Confirmed, WorkerPlaces, Spools, Journals, Bits, Paths, Busy,
         Opening, Restarted, Tasks, Stops, NoReceiver, NoWorker, Step, ReceiverUnchanged, Halted
<1>6. Contained'
  BY <1>1, <1>2, BoundaryOf, NothingAssumption
     DEF Respond, HandshakeTyped, WorkerType, ReceiverType, Contained, Waits, Preparing, Spooled,
         Acknowledged, Persisted, Confirmed, WorkerPlaces, Spools, Journals, Bits, Paths, Busy,
         Opening, Restarted, Tasks, Stops, NoReceiver, NoWorker, Step, ReceiverUnchanged, Halted,
         Indexed
<1>7. StoppedAt'
  BY <1>1, <1>2, KillOf, BoundaryOf, NothingAssumption
     DEF Respond, Indexed, HandshakeTyped, WorkerType, ReceiverType, Contained, Waits, StoppedAt,
         Preparing, Spooled, Acknowledged, Persisted, Confirmed, WorkerPlaces, Spools, Journals,
         Bits, Paths, Busy, Opening, Restarted, Tasks, Stops, NoReceiver, NoWorker, Step,
         ReceiverUnchanged, Halted
<1> QED
  BY <1>3, <1>4, <1>5, <1>6, <1>7 DEF HandshakeFacts

LEMMA MisfortuneKeeps == ASSUME HandshakeFacts, Misfortune PROVE HandshakeFacts'
<1>1. HandshakeTyped /\ StoresKnown /\ Waits /\ Contained /\ StoppedAt
  BY DEF HandshakeFacts
<1>2. Expected' = Expected /\ entry' = entry
  BY DEF Misfortune, Expected, ReceiverUnchanged, Step
<1>a. worker \in WorkerType /\ receiver \in ReceiverType
  BY <1>1 DEF HandshakeTyped
<1>b. worker' \in WorkerType
  BY <1>a
     DEF Misfortune, WorkerType, Preparing, Spooled, Acknowledged, Persisted, Confirmed,
         WorkerPlaces, Spools, Journals, Bits, Paths, Busy, Opening, Restarted, Tasks, Stops,
         NoReceiver, NoWorker, Step, ReceiverUnchanged, Halted
<1>c. receiver' \in ReceiverType
  BY <1>a, <1>1
     DEF Misfortune, Waits, ReceiverType, Preparing, Spooled, Acknowledged, Persisted, Confirmed,
         WorkerPlaces, Spools, Journals, Bits, Paths, Busy, Opening, Restarted, Tasks, Stops,
         NoReceiver, NoWorker, Step, ReceiverUnchanged, Halted
<1>3. HandshakeTyped'
  BY <1>1, <1>2, <1>b, <1>c
     DEF Misfortune, HandshakeTyped, Preparing, Spooled, Acknowledged, Persisted, Confirmed,
         WorkerPlaces, Spools, Journals, Bits, Paths, Busy, Opening, Restarted, Tasks, Stops,
         NoReceiver, NoWorker, Step, ReceiverUnchanged, Halted
<1>4. Waits'
  BY <1>1, <1>2, BoundaryOf, KillOf
     DEF Misfortune, HandshakeTyped, WorkerType, ReceiverType, Waits, Contained, Preparing,
         Spooled, Acknowledged, Persisted, Confirmed, WorkerPlaces, Spools, Journals, Bits,
         Paths, Busy, Opening, Restarted, Tasks, Stops, NoReceiver, NoWorker, Step,
         ReceiverUnchanged, Halted
<1>5. StoresKnown'
  <2>1. CASE receiver' = NoReceiver /\ worker' = worker
    BY <1>1, <2>1 DEF Misfortune, StoresKnown, DurableInOrder, NoReceiver, Busy
  <2>2. CASE worker' = [worker EXCEPT !.at = "failed"] /\ receiver' = receiver
    <3>1. worker'.at = "failed"
      BY <1>a, <2>2 DEF WorkerType
    <3> QED
      BY <1>1, <2>2, <3>1
         DEF Misfortune, StoresKnown, DurableInOrder, Spooled, Acknowledged, Persisted, Confirmed
  <2> QED
    BY <2>1, <2>2 DEF Misfortune
<1>6. Contained'
  BY <1>1, <1>2, BoundaryOf, NothingAssumption
     DEF Misfortune, HandshakeTyped, WorkerType, ReceiverType, Contained, Waits, Preparing,
         Spooled, Acknowledged, Persisted, Confirmed, WorkerPlaces, Spools, Journals, Bits,
         Paths, Busy, Opening, Restarted, Tasks, Stops, NoReceiver, NoWorker, Step,
         ReceiverUnchanged, Halted, Indexed
<1>7. StoppedAt'
  BY <1>1, <1>2, KillOf, BoundaryOf, NothingAssumption
     DEF Misfortune, Indexed, HandshakeTyped, WorkerType, ReceiverType, Contained, Waits,
         StoppedAt, Preparing, Spooled, Acknowledged, Persisted, Confirmed, WorkerPlaces, Spools,
         Journals, Bits, Paths, Busy, Opening, Restarted, Tasks, Stops, NoReceiver, NoWorker,
         Step, ReceiverUnchanged, Halted
<1> QED
  BY <1>3, <1>4, <1>5, <1>6, <1>7 DEF HandshakeFacts

LEMMA AgainKeeps ==
  ASSUME HandshakeFacts, EndRound,
         entry = "ack_06_duplicate_identical" /\ worker.op = "deliver" /\ worker.round = 1
  PROVE  HandshakeFacts'
<1>1. HandshakeTyped /\ StoresKnown /\ Waits /\ Contained /\ StoppedAt
  BY DEF HandshakeFacts
<1>2. Expected' = Expected /\ entry' = entry
  BY DEF EndRound, Expected, ReceiverUnchanged, Step
<1>a. worker \in WorkerType /\ receiver \in ReceiverType
  BY <1>1 DEF HandshakeTyped
<1>b. worker' \in WorkerType
  <2>1. worker' = [worker EXCEPT !.at = "spooled", !.round = 2]
    BY DEF EndRound
  <2>2. 2 \in 1..2 /\ "spooled" \in WorkerPlaces
    BY DEF WorkerPlaces, Spooled
  <2> QED
    BY <1>a, <2>1, <2>2 DEF WorkerType
<1>c. receiver' \in ReceiverType
  BY <1>a, <1>1
     DEF EndRound, Waits, ReceiverType, Preparing, Spooled, Acknowledged, Persisted, Confirmed,
         WorkerPlaces, Spools, Journals, Bits, Paths, Busy, Opening, Restarted, Tasks, Stops,
         NoReceiver, NoWorker, Step, ReceiverUnchanged, Halted
<1>3. HandshakeTyped'
  BY <1>1, <1>2, <1>b, <1>c
     DEF EndRound, HandshakeTyped, Preparing, Spooled, Acknowledged, Persisted, Confirmed,
         WorkerPlaces, Spools, Journals, Bits, Paths, Busy, Opening, Restarted, Tasks, Stops,
         NoReceiver, NoWorker, Step, ReceiverUnchanged, Halted
<1>4. Waits'
  BY <1>1, <1>2, BoundaryOf, KillOf
     DEF EndRound, HandshakeTyped, WorkerType, ReceiverType, Waits, Contained, Preparing,
         Spooled, Acknowledged, Persisted, Confirmed, WorkerPlaces, Spools, Journals, Bits,
         Paths, Busy, Opening, Restarted, Tasks, Stops, NoReceiver, NoWorker, Step,
         ReceiverUnchanged, Halted
<1>5. StoresKnown'
  BY <1>1, <1>2
     DEF EndRound, HandshakeTyped, StoresKnown, DurableInOrder, Waits, Preparing, Spooled,
         Acknowledged, Persisted, Confirmed, WorkerPlaces, Spools, Journals, Bits, Paths, Busy,
         Opening, Restarted, Tasks, Stops, NoReceiver, NoWorker, Step, ReceiverUnchanged, Halted
<1>6. Contained'
  <2>1. worker.at = "confirmed" /\ worker'.at = "spooled" /\ worker'.op = "deliver" /\ worker.op = "deliver"
        /\ task' = task /\ receiver' = receiver
    BY <1>a DEF EndRound, WorkerType
  <2>2. entry \notin DOMAIN Boundary
    BY DEF Boundary
  <2>3. worker # NoWorker
    BY <2>1 DEF NoWorker
  <2>4. ~Halted
    BY <2>2 DEF Halted
  <2> QED
    BY <1>1, <1>2, <2>1, <2>2, <2>3, <2>4 DEF Contained
<1>7. StoppedAt'
  BY <1>1, <1>2, KillOf, BoundaryOf, NothingAssumption
     DEF EndRound, Indexed, HandshakeTyped, WorkerType, ReceiverType, Contained, Waits,
         StoppedAt, Preparing, Spooled, Acknowledged, Persisted, Confirmed, WorkerPlaces, Spools,
         Journals, Bits, Paths, Busy, Opening, Restarted, Tasks, Stops, NoReceiver, NoWorker,
         Step, ReceiverUnchanged, Halted
<1> QED
  BY <1>3, <1>4, <1>5, <1>6, <1>7 DEF HandshakeFacts

LEMMA OpenBrowserKeeps == ASSUME HandshakeFacts, OpenBrowser PROVE HandshakeFacts'
<1>1. HandshakeTyped /\ StoresKnown /\ Waits /\ Contained /\ StoppedAt
  BY DEF HandshakeFacts
<1>2. Expected' = Expected /\ entry' = entry
  BY DEF OpenBrowser, Expected, ReceiverUnchanged, Step
<1>a. worker \in WorkerType /\ receiver \in ReceiverType
  BY <1>1 DEF HandshakeTyped
<1>b. worker' \in WorkerType
  BY <1>a
     DEF OpenBrowser, WorkerType, Preparing, Spooled, Acknowledged, Persisted, Confirmed,
         WorkerPlaces, Spools, Journals, Bits, Paths, Busy, Opening, Restarted, Tasks, Stops,
         NoReceiver, NoWorker, Step, ReceiverUnchanged, Halted
<1>c. receiver' \in ReceiverType
  BY <1>a, <1>1
     DEF OpenBrowser, Waits, ReceiverType, Preparing, Spooled, Acknowledged, Persisted,
         Confirmed, WorkerPlaces, Spools, Journals, Bits, Paths, Busy, Opening, Restarted, Tasks,
         Stops, NoReceiver, NoWorker, Step, ReceiverUnchanged, Halted
<1>3. HandshakeTyped'
  BY <1>1, <1>2, <1>b, <1>c
     DEF OpenBrowser, HandshakeTyped, Preparing, Spooled, Acknowledged, Persisted, Confirmed,
         WorkerPlaces, Spools, Journals, Bits, Paths, Busy, Opening, Restarted, Tasks, Stops,
         NoReceiver, NoWorker, Step, ReceiverUnchanged, Halted
<1>4. Waits'
  BY <1>1, <1>2, BoundaryOf, KillOf
     DEF OpenBrowser, HandshakeTyped, WorkerType, ReceiverType, Waits, Contained, Preparing,
         Spooled, Acknowledged, Persisted, Confirmed, WorkerPlaces, Spools, Journals, Bits,
         Paths, Busy, Opening, Restarted, Tasks, Stops, NoReceiver, NoWorker, Step,
         ReceiverUnchanged, Halted
<1>5. StoresKnown'
  BY <1>1, <1>2
     DEF OpenBrowser, HandshakeTyped, StoresKnown, DurableInOrder, Waits, Preparing, Spooled,
         Acknowledged, Persisted, Confirmed, WorkerPlaces, Spools, Journals, Bits, Paths, Busy,
         Opening, Restarted, Tasks, Stops, NoReceiver, NoWorker, Step, ReceiverUnchanged, Halted
<1>6. Contained'
  BY <1>1, <1>2, BoundaryOf, NothingAssumption
     DEF OpenBrowser, HandshakeTyped, WorkerType, ReceiverType, Contained, Waits, Preparing,
         Spooled, Acknowledged, Persisted, Confirmed, WorkerPlaces, Spools, Journals, Bits,
         Paths, Busy, Opening, Restarted, Tasks, Stops, NoReceiver, NoWorker, Step,
         ReceiverUnchanged, Halted, Indexed
<1>7. StoppedAt'
  BY <1>1, <1>2, KillOf, BoundaryOf, NothingAssumption
     DEF OpenBrowser, Indexed, HandshakeTyped, WorkerType, ReceiverType, Contained, Waits,
         StoppedAt, Preparing, Spooled, Acknowledged, Persisted, Confirmed, WorkerPlaces, Spools,
         Journals, Bits, Paths, Busy, Opening, Restarted, Tasks, Stops, NoReceiver, NoWorker,
         Step, ReceiverUnchanged, Halted
<1> QED
  BY <1>3, <1>4, <1>5, <1>6, <1>7 DEF HandshakeFacts

LEMMA LaunchKeeps ==
  ASSUME HandshakeFacts, StartReceiver("launch", "begin", 0)
  PROVE  HandshakeFacts'
<1>1. HandshakeTyped /\ StoresKnown /\ Waits /\ Contained /\ StoppedAt
  BY DEF HandshakeFacts
<1>2. Expected' = Expected /\ entry' = entry
  BY DEF StartReceiver, Expected, ReceiverUnchanged, Step
<1>a. worker \in WorkerType /\ receiver \in ReceiverType
  BY <1>1 DEF HandshakeTyped
<1>b. worker' \in WorkerType
  BY <1>a
     DEF StartReceiver, WorkerType, Preparing, Spooled, Acknowledged, Persisted, Confirmed,
         WorkerPlaces, Spools, Journals, Bits, Paths, Busy, Opening, Restarted, Tasks, Stops,
         NoReceiver, NoWorker, Step, ReceiverUnchanged, Halted
<1>c. receiver' \in ReceiverType
  BY <1>a, <1>1
     DEF StartReceiver, Waits, ReceiverType, Preparing, Spooled, Acknowledged, Persisted,
         Confirmed, WorkerPlaces, Spools, Journals, Bits, Paths, Busy, Opening, Restarted, Tasks,
         Stops, NoReceiver, NoWorker, Step, ReceiverUnchanged, Halted
<1>3. HandshakeTyped'
  BY <1>1, <1>2, <1>b, <1>c
     DEF StartReceiver, HandshakeTyped, Preparing, Spooled, Acknowledged, Persisted, Confirmed,
         WorkerPlaces, Spools, Journals, Bits, Paths, Busy, Opening, Restarted, Tasks, Stops,
         NoReceiver, NoWorker, Step, ReceiverUnchanged, Halted
<1>4. Waits'
  BY <1>1, <1>2, BoundaryOf, KillOf
     DEF StartReceiver, HandshakeTyped, WorkerType, ReceiverType, Waits, Contained, Preparing,
         Spooled, Acknowledged, Persisted, Confirmed, WorkerPlaces, Spools, Journals, Bits,
         Paths, Busy, Opening, Restarted, Tasks, Stops, NoReceiver, NoWorker, Step,
         ReceiverUnchanged, Halted
<1>5. StoresKnown'
  BY <1>1, <1>2
     DEF StartReceiver, HandshakeTyped, StoresKnown, DurableInOrder, Waits, Preparing, Spooled,
         Acknowledged, Persisted, Confirmed, WorkerPlaces, Spools, Journals, Bits, Paths, Busy,
         Opening, Restarted, Tasks, Stops, NoReceiver, NoWorker, Step, ReceiverUnchanged, Halted
<1>6. Contained'
  BY <1>1, <1>2, BoundaryOf, NothingAssumption
     DEF StartReceiver, HandshakeTyped, WorkerType, ReceiverType, Contained, Waits, Preparing,
         Spooled, Acknowledged, Persisted, Confirmed, WorkerPlaces, Spools, Journals, Bits,
         Paths, Busy, Opening, Restarted, Tasks, Stops, NoReceiver, NoWorker, Step,
         ReceiverUnchanged, Halted, Indexed
<1>7. StoppedAt'
  BY <1>1, <1>2, KillOf, BoundaryOf, NothingAssumption
     DEF StartReceiver, Indexed, HandshakeTyped, WorkerType, ReceiverType, Contained, Waits,
         StoppedAt, Preparing, Spooled, Acknowledged, Persisted, Confirmed, WorkerPlaces, Spools,
         Journals, Bits, Paths, Busy, Opening, Restarted, Tasks, Stops, NoReceiver, NoWorker,
         Step, ReceiverUnchanged, Halted
<1> QED
  BY <1>3, <1>4, <1>5, <1>6, <1>7 DEF HandshakeFacts

LEMMA BeginWorkerKeeps == ASSUME HandshakeFacts, BeginWorker PROVE HandshakeFacts'
<1>1. HandshakeTyped /\ StoresKnown /\ Waits /\ Contained /\ StoppedAt
  BY DEF HandshakeFacts
<1>2. Expected' = Expected /\ entry' = entry
  BY DEF BeginWorker, Expected, ReceiverUnchanged, Step
<1>a. worker \in WorkerType /\ receiver \in ReceiverType
  BY <1>1 DEF HandshakeTyped
<1>b. worker' \in WorkerType
  <2> DEFINE o == worker'.op
             g == worker'.given
             n == worker'.to
  <2>1. o \in {"crash", "deliver", "recover"} /\ n \in {0, 1}
    BY DEF BeginWorker, NoWorker
  <2>2. g \in BOOLEAN
    BY DEF BeginWorker, NoWorker
  <2>3. worker' = [op |-> o, at |-> "begin", round |-> 1, to |-> n, given |-> g]
    BY DEF BeginWorker, NoWorker
  <2> QED
    BY <2>1, <2>2, <2>3 DEF WorkerType, WorkerPlaces, Preparing
<1>c. receiver' \in ReceiverType
  BY <1>a, <1>1
     DEF BeginWorker, Waits, ReceiverType, Preparing, Spooled, Acknowledged, Persisted,
         Confirmed, WorkerPlaces, Spools, Journals, Bits, Paths, Busy, Opening, Restarted, Tasks,
         Stops, NoReceiver, NoWorker, Step, ReceiverUnchanged, Halted
<1>3. HandshakeTyped'
  BY <1>1, <1>2, <1>b, <1>c
     DEF BeginWorker, HandshakeTyped, Preparing, Spooled, Acknowledged, Persisted, Confirmed,
         WorkerPlaces, Spools, Journals, Bits, Paths, Busy, Opening, Restarted, Tasks, Stops,
         NoReceiver, NoWorker, Step, ReceiverUnchanged, Halted
<1>4. Waits'
  BY <1>1, <1>2, BoundaryOf, KillOf
     DEF BeginWorker, HandshakeTyped, WorkerType, ReceiverType, Waits, Contained, Preparing,
         Spooled, Acknowledged, Persisted, Confirmed, WorkerPlaces, Spools, Journals, Bits,
         Paths, Busy, Opening, Restarted, Tasks, Stops, NoReceiver, NoWorker, Step,
         ReceiverUnchanged, Halted
<1>5. StoresKnown'
  BY <1>1, <1>2
     DEF BeginWorker, HandshakeTyped, StoresKnown, DurableInOrder, Waits, Preparing, Spooled,
         Acknowledged, Persisted, Confirmed, WorkerPlaces, Spools, Journals, Bits, Paths, Busy,
         Opening, Restarted, Tasks, Stops, NoReceiver, NoWorker, Step, ReceiverUnchanged, Halted
<1>6. Contained'
  BY <1>1, <1>2, BoundaryOf, NothingAssumption
     DEF BeginWorker, HandshakeTyped, WorkerType, ReceiverType, Contained, Waits, Preparing,
         Spooled, Acknowledged, Persisted, Confirmed, WorkerPlaces, Spools, Journals, Bits,
         Paths, Busy, Opening, Restarted, Tasks, Stops, NoReceiver, NoWorker, Step,
         ReceiverUnchanged, Halted, Indexed
<1>7. StoppedAt'
  BY <1>1, <1>2, KillOf, BoundaryOf, NothingAssumption
     DEF BeginWorker, Indexed, HandshakeTyped, WorkerType, ReceiverType, Contained, Waits,
         StoppedAt, Preparing, Spooled, Acknowledged, Persisted, Confirmed, WorkerPlaces, Spools,
         Journals, Bits, Paths, Busy, Opening, Restarted, Tasks, Stops, NoReceiver, NoWorker,
         Step, ReceiverUnchanged, Halted
<1> QED
  BY <1>3, <1>4, <1>5, <1>6, <1>7 DEF HandshakeFacts

LEMMA CheckpointKeeps == ASSUME HandshakeFacts, Checkpoint PROVE HandshakeFacts'
<1>1. HandshakeTyped /\ StoresKnown /\ Waits /\ Contained /\ StoppedAt
  BY DEF HandshakeFacts
<1>2. Expected' = Expected /\ entry' = entry
  BY DEF Checkpoint, Expected, ReceiverUnchanged, Step
<1>a. worker \in WorkerType /\ receiver \in ReceiverType
  BY <1>1 DEF HandshakeTyped
<1>b. worker' \in WorkerType
  BY <1>a
     DEF Checkpoint, WorkerType, Preparing, Spooled, Acknowledged, Persisted, Confirmed,
         WorkerPlaces, Spools, Journals, Bits, Paths, Busy, Opening, Restarted, Tasks, Stops,
         NoReceiver, NoWorker, Step, ReceiverUnchanged, Halted
<1>c. receiver' \in ReceiverType
  BY <1>a, <1>1
     DEF Checkpoint, Waits, ReceiverType, Preparing, Spooled, Acknowledged, Persisted, Confirmed,
         WorkerPlaces, Spools, Journals, Bits, Paths, Busy, Opening, Restarted, Tasks, Stops,
         NoReceiver, NoWorker, Step, ReceiverUnchanged, Halted
<1>3. HandshakeTyped'
  BY <1>1, <1>2, <1>b, <1>c
     DEF Checkpoint, HandshakeTyped, Preparing, Spooled, Acknowledged, Persisted, Confirmed,
         WorkerPlaces, Spools, Journals, Bits, Paths, Busy, Opening, Restarted, Tasks, Stops,
         NoReceiver, NoWorker, Step, ReceiverUnchanged, Halted
<1>4. Waits'
  BY <1>1, <1>2, BoundaryOf, KillOf
     DEF Checkpoint, HandshakeTyped, WorkerType, ReceiverType, Waits, Contained, Preparing,
         Spooled, Acknowledged, Persisted, Confirmed, WorkerPlaces, Spools, Journals, Bits,
         Paths, Busy, Opening, Restarted, Tasks, Stops, NoReceiver, NoWorker, Step,
         ReceiverUnchanged, Halted
<1>5. StoresKnown'
  BY <1>1, <1>2
     DEF Checkpoint, HandshakeTyped, StoresKnown, DurableInOrder, Waits, Preparing, Spooled,
         Acknowledged, Persisted, Confirmed, WorkerPlaces, Spools, Journals, Bits, Paths, Busy,
         Opening, Restarted, Tasks, Stops, NoReceiver, NoWorker, Step, ReceiverUnchanged, Halted
<1>6. Contained'
  BY <1>1, <1>2, BoundaryOf, NothingAssumption
     DEF Checkpoint, HandshakeTyped, WorkerType, ReceiverType, Contained, Waits, Preparing,
         Spooled, Acknowledged, Persisted, Confirmed, WorkerPlaces, Spools, Journals, Bits,
         Paths, Busy, Opening, Restarted, Tasks, Stops, NoReceiver, NoWorker, Step,
         ReceiverUnchanged, Halted, Indexed
<1>7. StoppedAt'
  BY <1>1, <1>2, KillOf, BoundaryOf, NothingAssumption
     DEF Checkpoint, Indexed, HandshakeTyped, WorkerType, ReceiverType, Contained, Waits,
         StoppedAt, Preparing, Spooled, Acknowledged, Persisted, Confirmed, WorkerPlaces, Spools,
         Journals, Bits, Paths, Busy, Opening, Restarted, Tasks, Stops, NoReceiver, NoWorker,
         Step, ReceiverUnchanged, Halted
<1> QED
  BY <1>3, <1>4, <1>5, <1>6, <1>7 DEF HandshakeFacts

LEMMA KillReceiverKeeps == ASSUME HandshakeFacts, KillReceiver PROVE HandshakeFacts'
<1>1. HandshakeTyped /\ StoresKnown /\ Waits /\ Contained /\ StoppedAt
  BY DEF HandshakeFacts
<1>2. Expected' = Expected /\ entry' = entry
  BY DEF KillReceiver, Expected, ReceiverUnchanged, Step
<1>a. worker \in WorkerType /\ receiver \in ReceiverType
  BY <1>1 DEF HandshakeTyped
<1>b. worker' \in WorkerType
  BY <1>a
     DEF KillReceiver, WorkerType, Preparing, Spooled, Acknowledged, Persisted, Confirmed,
         WorkerPlaces, Spools, Journals, Bits, Paths, Busy, Opening, Restarted, Tasks, Stops,
         NoReceiver, NoWorker, Step, ReceiverUnchanged, Halted
<1>c. receiver' \in ReceiverType
  BY <1>a, <1>1
     DEF KillReceiver, Waits, ReceiverType, Preparing, Spooled, Acknowledged, Persisted,
         Confirmed, WorkerPlaces, Spools, Journals, Bits, Paths, Busy, Opening, Restarted, Tasks,
         Stops, NoReceiver, NoWorker, Step, ReceiverUnchanged, Halted
<1>3. HandshakeTyped'
  BY <1>1, <1>2, <1>b, <1>c
     DEF KillReceiver, HandshakeTyped, Preparing, Spooled, Acknowledged, Persisted, Confirmed,
         WorkerPlaces, Spools, Journals, Bits, Paths, Busy, Opening, Restarted, Tasks, Stops,
         NoReceiver, NoWorker, Step, ReceiverUnchanged, Halted
<1>4. Waits'
  BY <1>1, <1>2, BoundaryOf, KillOf
     DEF KillReceiver, HandshakeTyped, WorkerType, ReceiverType, Waits, Contained, Preparing,
         Spooled, Acknowledged, Persisted, Confirmed, WorkerPlaces, Spools, Journals, Bits,
         Paths, Busy, Opening, Restarted, Tasks, Stops, NoReceiver, NoWorker, Step,
         ReceiverUnchanged, Halted
<1>5. StoresKnown'
  BY <1>1, <1>2
     DEF KillReceiver, HandshakeTyped, StoresKnown, DurableInOrder, Waits, Preparing, Spooled,
         Acknowledged, Persisted, Confirmed, WorkerPlaces, Spools, Journals, Bits, Paths, Busy,
         Opening, Restarted, Tasks, Stops, NoReceiver, NoWorker, Step, ReceiverUnchanged, Halted
<1>6. Contained'
  BY <1>1, <1>2, BoundaryOf, NothingAssumption
     DEF KillReceiver, HandshakeTyped, WorkerType, ReceiverType, Contained, Waits, Preparing,
         Spooled, Acknowledged, Persisted, Confirmed, WorkerPlaces, Spools, Journals, Bits,
         Paths, Busy, Opening, Restarted, Tasks, Stops, NoReceiver, NoWorker, Step,
         ReceiverUnchanged, Halted, Indexed
<1>7. StoppedAt'
  BY <1>1, <1>2, KillOf, BoundaryOf, NothingAssumption
     DEF KillReceiver, Indexed, HandshakeTyped, WorkerType, ReceiverType, Contained, Waits,
         StoppedAt, Preparing, Spooled, Acknowledged, Persisted, Confirmed, WorkerPlaces, Spools,
         Journals, Bits, Paths, Busy, Opening, Restarted, Tasks, Stops, NoReceiver, NoWorker,
         Step, ReceiverUnchanged, Halted
<1> QED
  BY <1>3, <1>4, <1>5, <1>6, <1>7 DEF HandshakeFacts

LEMMA TerminateWorkerKeeps == ASSUME HandshakeFacts, TerminateWorker PROVE HandshakeFacts'
<1>1. HandshakeTyped /\ StoresKnown /\ Waits /\ Contained /\ StoppedAt
  BY DEF HandshakeFacts
<1>2. Expected' = Expected /\ entry' = entry
  BY DEF TerminateWorker, Expected, ReceiverUnchanged, Step
<1>a. worker \in WorkerType /\ receiver \in ReceiverType
  BY <1>1 DEF HandshakeTyped
<1>b. worker' \in WorkerType
  BY <1>a
     DEF TerminateWorker, WorkerType, Preparing, Spooled, Acknowledged, Persisted, Confirmed,
         WorkerPlaces, Spools, Journals, Bits, Paths, Busy, Opening, Restarted, Tasks, Stops,
         NoReceiver, NoWorker, Step, ReceiverUnchanged, Halted
<1>c. receiver' \in ReceiverType
  BY <1>a, <1>1
     DEF TerminateWorker, Waits, ReceiverType, Preparing, Spooled, Acknowledged, Persisted,
         Confirmed, WorkerPlaces, Spools, Journals, Bits, Paths, Busy, Opening, Restarted, Tasks,
         Stops, NoReceiver, NoWorker, Step, ReceiverUnchanged, Halted
<1>3. HandshakeTyped'
  BY <1>1, <1>2, <1>b, <1>c
     DEF TerminateWorker, HandshakeTyped, Preparing, Spooled, Acknowledged, Persisted, Confirmed,
         WorkerPlaces, Spools, Journals, Bits, Paths, Busy, Opening, Restarted, Tasks, Stops,
         NoReceiver, NoWorker, Step, ReceiverUnchanged, Halted
<1>4. Waits'
  BY <1>1, <1>2, BoundaryOf, KillOf
     DEF TerminateWorker, HandshakeTyped, WorkerType, ReceiverType, Waits, Contained, Preparing,
         Spooled, Acknowledged, Persisted, Confirmed, WorkerPlaces, Spools, Journals, Bits,
         Paths, Busy, Opening, Restarted, Tasks, Stops, NoReceiver, NoWorker, Step,
         ReceiverUnchanged, Halted
<1>5. StoresKnown'
  BY <1>1, <1>2
     DEF TerminateWorker, HandshakeTyped, StoresKnown, DurableInOrder, Waits, Preparing, Spooled,
         Acknowledged, Persisted, Confirmed, WorkerPlaces, Spools, Journals, Bits, Paths, Busy,
         Opening, Restarted, Tasks, Stops, NoReceiver, NoWorker, Step, ReceiverUnchanged, Halted
<1>6. Contained'
  BY <1>1, <1>2, BoundaryOf, NothingAssumption
     DEF TerminateWorker, HandshakeTyped, WorkerType, ReceiverType, Contained, Waits, Preparing,
         Spooled, Acknowledged, Persisted, Confirmed, WorkerPlaces, Spools, Journals, Bits,
         Paths, Busy, Opening, Restarted, Tasks, Stops, NoReceiver, NoWorker, Step,
         ReceiverUnchanged, Halted, Indexed
<1>7. StoppedAt'
  <2>1. CASE Expected.kill = "RECEIVER"
    <3>1. stopped \in Stops /\ stopped.receiver = "held" /\ stopped.worker \in {stopped.path, "failed"}
      BY <1>1, <2>1 DEF TerminateWorker, Step, StoppedAt
    <3>2. stopped # Nothing
      BY <3>1, NothingAssumption, StopsKnown
    <3> QED
      BY <1>1, <1>2, <2>1, <3>1, <3>2 DEF TerminateWorker, Step, StoppedAt, Opening, Restarted
  <2>2. CASE Expected.kill # "RECEIVER"
    <3>1. stopped' = [worker |-> worker.at, receiver |-> receiver.at, path |-> Nothing] /\ receiver' = receiver /\ task' = "stop"
      BY <1>1, <2>2 DEF TerminateWorker, Step, StoppedAt
    <3>2. Expected.kill = "WORKER" => worker.at = Boundary[entry]
      BY <1>1, <2>2 DEF TerminateWorker, Step, StoppedAt, Halted
    <3>3. Halted \/ worker.at = "answered"
      BY <1>1, <2>2 DEF TerminateWorker, Step, Contained
    <3>4. worker.at \notin Paths /\ worker.at # "failed"
      BY <3>3, BoundaryOf DEF Halted, Paths
    <3>5. receiver.at \in {"gone", "idle"}
      BY <1>1, <1>a, <3>4 DEF Waits, ReceiverType
    <3> QED
      BY <1>1, <1>2, <2>2, <3>1, <3>2, <3>5, NothingAssumption
         DEF TerminateWorker, Step, StoppedAt, HandshakeTyped, Opening, Restarted
  <2> QED
    BY <2>1, <2>2
<1> QED
  BY <1>3, <1>4, <1>5, <1>6, <1>7 DEF HandshakeFacts

LEMMA StopKeeps == ASSUME HandshakeFacts, StopReceiver("stop", "restart") PROVE HandshakeFacts'
<1>1. HandshakeTyped /\ StoresKnown /\ Waits /\ Contained /\ StoppedAt
  BY DEF HandshakeFacts
<1>2. Expected' = Expected /\ entry' = entry
  BY DEF StopReceiver, Expected, ReceiverUnchanged, Step
<1>a. worker \in WorkerType /\ receiver \in ReceiverType
  BY <1>1 DEF HandshakeTyped
<1>b. worker' \in WorkerType
  BY <1>a
     DEF StopReceiver, WorkerType, Preparing, Spooled, Acknowledged, Persisted, Confirmed,
         WorkerPlaces, Spools, Journals, Bits, Paths, Busy, Opening, Restarted, Tasks, Stops,
         NoReceiver, NoWorker, Step, ReceiverUnchanged, Halted
<1>c. receiver' \in ReceiverType
  BY <1>a, <1>1
     DEF StopReceiver, Waits, ReceiverType, Preparing, Spooled, Acknowledged, Persisted,
         Confirmed, WorkerPlaces, Spools, Journals, Bits, Paths, Busy, Opening, Restarted, Tasks,
         Stops, NoReceiver, NoWorker, Step, ReceiverUnchanged, Halted
<1>3. HandshakeTyped'
  BY <1>1, <1>2, <1>b, <1>c
     DEF StopReceiver, HandshakeTyped, Preparing, Spooled, Acknowledged, Persisted, Confirmed,
         WorkerPlaces, Spools, Journals, Bits, Paths, Busy, Opening, Restarted, Tasks, Stops,
         NoReceiver, NoWorker, Step, ReceiverUnchanged, Halted
<1>4. Waits'
  BY <1>1, <1>2, BoundaryOf, KillOf
     DEF StopReceiver, HandshakeTyped, WorkerType, ReceiverType, Waits, Contained, Preparing,
         Spooled, Acknowledged, Persisted, Confirmed, WorkerPlaces, Spools, Journals, Bits,
         Paths, Busy, Opening, Restarted, Tasks, Stops, NoReceiver, NoWorker, Step,
         ReceiverUnchanged, Halted
<1>5. StoresKnown'
  BY <1>1, <1>2
     DEF StopReceiver, HandshakeTyped, StoresKnown, DurableInOrder, Waits, Preparing, Spooled,
         Acknowledged, Persisted, Confirmed, WorkerPlaces, Spools, Journals, Bits, Paths, Busy,
         Opening, Restarted, Tasks, Stops, NoReceiver, NoWorker, Step, ReceiverUnchanged, Halted
<1>6. Contained'
  BY <1>1, <1>2, BoundaryOf, NothingAssumption
     DEF StopReceiver, HandshakeTyped, WorkerType, ReceiverType, Contained, Waits, Preparing,
         Spooled, Acknowledged, Persisted, Confirmed, WorkerPlaces, Spools, Journals, Bits,
         Paths, Busy, Opening, Restarted, Tasks, Stops, NoReceiver, NoWorker, Step,
         ReceiverUnchanged, Halted, Indexed
<1>7. StoppedAt'
  BY <1>1, <1>2, KillOf, BoundaryOf, NothingAssumption
     DEF StopReceiver, Indexed, HandshakeTyped, WorkerType, ReceiverType, Contained, Waits,
         StoppedAt, Preparing, Spooled, Acknowledged, Persisted, Confirmed, WorkerPlaces, Spools,
         Journals, Bits, Paths, Busy, Opening, Restarted, Tasks, Stops, NoReceiver, NoWorker,
         Step, ReceiverUnchanged, Halted
<1> QED
  BY <1>3, <1>4, <1>5, <1>6, <1>7 DEF HandshakeFacts

LEMMA RestartKeeps ==
  ASSUME HandshakeFacts, StartReceiver("restart", "before", 1)
  PROVE  HandshakeFacts'
<1>1. HandshakeTyped /\ StoresKnown /\ Waits /\ Contained /\ StoppedAt
  BY DEF HandshakeFacts
<1>2. Expected' = Expected /\ entry' = entry
  BY DEF StartReceiver, Expected, ReceiverUnchanged, Step
<1>a. worker \in WorkerType /\ receiver \in ReceiverType
  BY <1>1 DEF HandshakeTyped
<1>b. worker' \in WorkerType
  BY <1>a
     DEF StartReceiver, WorkerType, Preparing, Spooled, Acknowledged, Persisted, Confirmed,
         WorkerPlaces, Spools, Journals, Bits, Paths, Busy, Opening, Restarted, Tasks, Stops,
         NoReceiver, NoWorker, Step, ReceiverUnchanged, Halted
<1>c. receiver' \in ReceiverType
  BY <1>a, <1>1
     DEF StartReceiver, Waits, ReceiverType, Preparing, Spooled, Acknowledged, Persisted,
         Confirmed, WorkerPlaces, Spools, Journals, Bits, Paths, Busy, Opening, Restarted, Tasks,
         Stops, NoReceiver, NoWorker, Step, ReceiverUnchanged, Halted
<1>3. HandshakeTyped'
  BY <1>1, <1>2, <1>b, <1>c
     DEF StartReceiver, HandshakeTyped, Preparing, Spooled, Acknowledged, Persisted, Confirmed,
         WorkerPlaces, Spools, Journals, Bits, Paths, Busy, Opening, Restarted, Tasks, Stops,
         NoReceiver, NoWorker, Step, ReceiverUnchanged, Halted
<1>4. Waits'
  BY <1>1, <1>2, BoundaryOf, KillOf
     DEF StartReceiver, HandshakeTyped, WorkerType, ReceiverType, Waits, Contained, Preparing,
         Spooled, Acknowledged, Persisted, Confirmed, WorkerPlaces, Spools, Journals, Bits,
         Paths, Busy, Opening, Restarted, Tasks, Stops, NoReceiver, NoWorker, Step,
         ReceiverUnchanged, Halted
<1>5. StoresKnown'
  BY <1>1, <1>2
     DEF StartReceiver, HandshakeTyped, StoresKnown, DurableInOrder, Waits, Preparing, Spooled,
         Acknowledged, Persisted, Confirmed, WorkerPlaces, Spools, Journals, Bits, Paths, Busy,
         Opening, Restarted, Tasks, Stops, NoReceiver, NoWorker, Step, ReceiverUnchanged, Halted
<1>6. Contained'
  BY <1>1, <1>2, BoundaryOf, NothingAssumption
     DEF StartReceiver, HandshakeTyped, WorkerType, ReceiverType, Contained, Waits, Preparing,
         Spooled, Acknowledged, Persisted, Confirmed, WorkerPlaces, Spools, Journals, Bits,
         Paths, Busy, Opening, Restarted, Tasks, Stops, NoReceiver, NoWorker, Step,
         ReceiverUnchanged, Halted, Indexed
<1>7. StoppedAt'
  BY <1>1, <1>2, KillOf, BoundaryOf, NothingAssumption
     DEF StartReceiver, Indexed, HandshakeTyped, WorkerType, ReceiverType, Contained, Waits,
         StoppedAt, Preparing, Spooled, Acknowledged, Persisted, Confirmed, WorkerPlaces, Spools,
         Journals, Bits, Paths, Busy, Opening, Restarted, Tasks, Stops, NoReceiver, NoWorker,
         Step, ReceiverUnchanged, Halted
<1> QED
  BY <1>3, <1>4, <1>5, <1>6, <1>7 DEF HandshakeFacts

LEMMA ReadEarlierKeeps == ASSUME HandshakeFacts, ReadEarlier PROVE HandshakeFacts'
<1>1. HandshakeTyped /\ StoresKnown /\ Waits /\ Contained /\ StoppedAt
  BY DEF HandshakeFacts
<1>2. Expected' = Expected /\ entry' = entry
  BY DEF ReadEarlier, Expected, ReceiverUnchanged, Step
<1>a. worker \in WorkerType /\ receiver \in ReceiverType
  BY <1>1 DEF HandshakeTyped
<1>b. worker' \in WorkerType
  BY <1>a
     DEF ReadEarlier, WorkerType, Preparing, Spooled, Acknowledged, Persisted, Confirmed,
         WorkerPlaces, Spools, Journals, Bits, Paths, Busy, Opening, Restarted, Tasks, Stops,
         NoReceiver, NoWorker, Step, ReceiverUnchanged, Halted
<1>c. receiver' \in ReceiverType
  BY <1>a, <1>1
     DEF ReadEarlier, Waits, ReceiverType, Preparing, Spooled, Acknowledged, Persisted,
         Confirmed, WorkerPlaces, Spools, Journals, Bits, Paths, Busy, Opening, Restarted, Tasks,
         Stops, NoReceiver, NoWorker, Step, ReceiverUnchanged, Halted
<1>3. HandshakeTyped'
  BY <1>1, <1>2, <1>b, <1>c
     DEF ReadEarlier, HandshakeTyped, Preparing, Spooled, Acknowledged, Persisted, Confirmed,
         WorkerPlaces, Spools, Journals, Bits, Paths, Busy, Opening, Restarted, Tasks, Stops,
         NoReceiver, NoWorker, Step, ReceiverUnchanged, Halted
<1>4. Waits'
  BY <1>1, <1>2, BoundaryOf, KillOf
     DEF ReadEarlier, HandshakeTyped, WorkerType, ReceiverType, Waits, Contained, Preparing,
         Spooled, Acknowledged, Persisted, Confirmed, WorkerPlaces, Spools, Journals, Bits,
         Paths, Busy, Opening, Restarted, Tasks, Stops, NoReceiver, NoWorker, Step,
         ReceiverUnchanged, Halted
<1>5. StoresKnown'
  BY <1>1, <1>2
     DEF ReadEarlier, HandshakeTyped, StoresKnown, DurableInOrder, Waits, Preparing, Spooled,
         Acknowledged, Persisted, Confirmed, WorkerPlaces, Spools, Journals, Bits, Paths, Busy,
         Opening, Restarted, Tasks, Stops, NoReceiver, NoWorker, Step, ReceiverUnchanged, Halted
<1>6. Contained'
  BY <1>1, <1>2, BoundaryOf, NothingAssumption
     DEF ReadEarlier, HandshakeTyped, WorkerType, ReceiverType, Contained, Waits, Preparing,
         Spooled, Acknowledged, Persisted, Confirmed, WorkerPlaces, Spools, Journals, Bits,
         Paths, Busy, Opening, Restarted, Tasks, Stops, NoReceiver, NoWorker, Step,
         ReceiverUnchanged, Halted, Indexed
<1>7. StoppedAt'
  BY <1>1, <1>2, KillOf, BoundaryOf, NothingAssumption
     DEF ReadEarlier, Indexed, HandshakeTyped, WorkerType, ReceiverType, Contained, Waits,
         StoppedAt, Preparing, Spooled, Acknowledged, Persisted, Confirmed, WorkerPlaces, Spools,
         Journals, Bits, Paths, Busy, Opening, Restarted, Tasks, Stops, NoReceiver, NoWorker,
         Step, ReceiverUnchanged, Halted
<1> QED
  BY <1>3, <1>4, <1>5, <1>6, <1>7 DEF HandshakeFacts

LEMMA RecoveryKeeps == ASSUME HandshakeFacts, Recovery PROVE HandshakeFacts'
<1>1. HandshakeTyped /\ StoresKnown /\ Waits /\ Contained /\ StoppedAt
  BY DEF HandshakeFacts
<1>2. Expected' = Expected /\ entry' = entry
  BY DEF Recovery, Expected, ReceiverUnchanged, Step
<1>a. worker \in WorkerType /\ receiver \in ReceiverType
  BY <1>1 DEF HandshakeTyped
<1>b. worker' \in WorkerType
  <2> DEFINE o == worker'.op
             g == worker'.given
             n == worker'.to
  <2>1. o \in {"crash", "deliver", "recover"} /\ n \in {0, 1}
    BY DEF Recovery, NoWorker
  <2>2. g \in BOOLEAN
    BY DEF Recovery, NoWorker
  <2>3. worker' = [op |-> o, at |-> "begin", round |-> 1, to |-> n, given |-> g]
    BY DEF Recovery, NoWorker
  <2> QED
    BY <2>1, <2>2, <2>3 DEF WorkerType, WorkerPlaces, Preparing
<1>c. receiver' \in ReceiverType
  BY <1>a, <1>1
     DEF Recovery, Waits, ReceiverType, Preparing, Spooled, Acknowledged, Persisted, Confirmed,
         WorkerPlaces, Spools, Journals, Bits, Paths, Busy, Opening, Restarted, Tasks, Stops,
         NoReceiver, NoWorker, Step, ReceiverUnchanged, Halted
<1>3. HandshakeTyped'
  BY <1>1, <1>2, <1>b, <1>c
     DEF Recovery, HandshakeTyped, Preparing, Spooled, Acknowledged, Persisted, Confirmed,
         WorkerPlaces, Spools, Journals, Bits, Paths, Busy, Opening, Restarted, Tasks, Stops,
         NoReceiver, NoWorker, Step, ReceiverUnchanged, Halted
<1>4. Waits'
  BY <1>1, <1>2, BoundaryOf, KillOf
     DEF Recovery, HandshakeTyped, WorkerType, ReceiverType, Waits, Contained, Preparing,
         Spooled, Acknowledged, Persisted, Confirmed, WorkerPlaces, Spools, Journals, Bits,
         Paths, Busy, Opening, Restarted, Tasks, Stops, NoReceiver, NoWorker, Step,
         ReceiverUnchanged, Halted
<1>5. StoresKnown'
  BY <1>1, <1>2
     DEF Recovery, HandshakeTyped, StoresKnown, DurableInOrder, Waits, Preparing, Spooled,
         Acknowledged, Persisted, Confirmed, WorkerPlaces, Spools, Journals, Bits, Paths, Busy,
         Opening, Restarted, Tasks, Stops, NoReceiver, NoWorker, Step, ReceiverUnchanged, Halted
<1>6. Contained'
  BY <1>1, <1>2, BoundaryOf, NothingAssumption
     DEF Recovery, HandshakeTyped, WorkerType, ReceiverType, Contained, Waits, Preparing,
         Spooled, Acknowledged, Persisted, Confirmed, WorkerPlaces, Spools, Journals, Bits,
         Paths, Busy, Opening, Restarted, Tasks, Stops, NoReceiver, NoWorker, Step,
         ReceiverUnchanged, Halted, Indexed
<1>7. StoppedAt'
  BY <1>1, <1>2, KillOf, BoundaryOf, NothingAssumption
     DEF Recovery, Indexed, HandshakeTyped, WorkerType, ReceiverType, Contained, Waits,
         StoppedAt, Preparing, Spooled, Acknowledged, Persisted, Confirmed, WorkerPlaces, Spools,
         Journals, Bits, Paths, Busy, Opening, Restarted, Tasks, Stops, NoReceiver, NoWorker,
         Step, ReceiverUnchanged, Halted
<1> QED
  BY <1>3, <1>4, <1>5, <1>6, <1>7 DEF HandshakeFacts

LEMMA RecoversKeeps == ASSUME HandshakeFacts, Recovers PROVE HandshakeFacts'
<1>1. HandshakeTyped /\ StoresKnown /\ Waits /\ Contained /\ StoppedAt
  BY DEF HandshakeFacts
<1>2. Expected' = Expected /\ entry' = entry
  BY DEF Recovers, Expected, ReceiverUnchanged, Step
<1>a. worker \in WorkerType /\ receiver \in ReceiverType
  BY <1>1 DEF HandshakeTyped
<1>b. worker' \in WorkerType
  BY <1>a
     DEF Recovers, WorkerType, Preparing, Spooled, Acknowledged, Persisted, Confirmed,
         WorkerPlaces, Spools, Journals, Bits, Paths, Busy, Opening, Restarted, Tasks, Stops,
         NoReceiver, NoWorker, Step, ReceiverUnchanged, Halted
<1>c. receiver' \in ReceiverType
  BY <1>a, <1>1
     DEF Recovers, Waits, ReceiverType, Preparing, Spooled, Acknowledged, Persisted, Confirmed,
         WorkerPlaces, Spools, Journals, Bits, Paths, Busy, Opening, Restarted, Tasks, Stops,
         NoReceiver, NoWorker, Step, ReceiverUnchanged, Halted
<1>3. HandshakeTyped'
  BY <1>1, <1>2, <1>b, <1>c
     DEF Recovers, HandshakeTyped, Preparing, Spooled, Acknowledged, Persisted, Confirmed,
         WorkerPlaces, Spools, Journals, Bits, Paths, Busy, Opening, Restarted, Tasks, Stops,
         NoReceiver, NoWorker, Step, ReceiverUnchanged, Halted
<1>4. Waits'
  BY <1>1, <1>2, BoundaryOf, KillOf
     DEF Recovers, HandshakeTyped, WorkerType, ReceiverType, Waits, Contained, Preparing,
         Spooled, Acknowledged, Persisted, Confirmed, WorkerPlaces, Spools, Journals, Bits,
         Paths, Busy, Opening, Restarted, Tasks, Stops, NoReceiver, NoWorker, Step,
         ReceiverUnchanged, Halted
<1>5. StoresKnown'
  BY <1>1, <1>2
     DEF Recovers, HandshakeTyped, StoresKnown, DurableInOrder, Waits, Preparing, Spooled,
         Acknowledged, Persisted, Confirmed, WorkerPlaces, Spools, Journals, Bits, Paths, Busy,
         Opening, Restarted, Tasks, Stops, NoReceiver, NoWorker, Step, ReceiverUnchanged, Halted
<1>6. Contained'
  BY <1>1, <1>2, BoundaryOf, NothingAssumption
     DEF Recovers, HandshakeTyped, WorkerType, ReceiverType, Contained, Waits, Preparing,
         Spooled, Acknowledged, Persisted, Confirmed, WorkerPlaces, Spools, Journals, Bits,
         Paths, Busy, Opening, Restarted, Tasks, Stops, NoReceiver, NoWorker, Step,
         ReceiverUnchanged, Halted, Indexed
<1>7. StoppedAt'
  BY <1>1, <1>2, KillOf, BoundaryOf, NothingAssumption
     DEF Recovers, Indexed, HandshakeTyped, WorkerType, ReceiverType, Contained, Waits,
         StoppedAt, Preparing, Spooled, Acknowledged, Persisted, Confirmed, WorkerPlaces, Spools,
         Journals, Bits, Paths, Busy, Opening, Restarted, Tasks, Stops, NoReceiver, NoWorker,
         Step, ReceiverUnchanged, Halted
<1> QED
  BY <1>3, <1>4, <1>5, <1>6, <1>7 DEF HandshakeFacts

LEMMA ReadLaterKeeps == ASSUME HandshakeFacts, ReadLater PROVE HandshakeFacts'
<1>1. HandshakeTyped /\ StoresKnown /\ Waits /\ Contained /\ StoppedAt
  BY DEF HandshakeFacts
<1>2. Expected' = Expected /\ entry' = entry
  BY DEF ReadLater, Expected, ReceiverUnchanged, Step
<1>a. worker \in WorkerType /\ receiver \in ReceiverType
  BY <1>1 DEF HandshakeTyped
<1>b. worker' \in WorkerType
  BY <1>a
     DEF ReadLater, WorkerType, Preparing, Spooled, Acknowledged, Persisted, Confirmed,
         WorkerPlaces, Spools, Journals, Bits, Paths, Busy, Opening, Restarted, Tasks, Stops,
         NoReceiver, NoWorker, Step, ReceiverUnchanged, Halted
<1>c. receiver' \in ReceiverType
  BY <1>a, <1>1
     DEF ReadLater, Waits, ReceiverType, Preparing, Spooled, Acknowledged, Persisted, Confirmed,
         WorkerPlaces, Spools, Journals, Bits, Paths, Busy, Opening, Restarted, Tasks, Stops,
         NoReceiver, NoWorker, Step, ReceiverUnchanged, Halted
<1>3. HandshakeTyped'
  BY <1>1, <1>2, <1>b, <1>c
     DEF ReadLater, HandshakeTyped, Preparing, Spooled, Acknowledged, Persisted, Confirmed,
         WorkerPlaces, Spools, Journals, Bits, Paths, Busy, Opening, Restarted, Tasks, Stops,
         NoReceiver, NoWorker, Step, ReceiverUnchanged, Halted
<1>4. Waits'
  BY <1>1, <1>2, BoundaryOf, KillOf
     DEF ReadLater, HandshakeTyped, WorkerType, ReceiverType, Waits, Contained, Preparing,
         Spooled, Acknowledged, Persisted, Confirmed, WorkerPlaces, Spools, Journals, Bits,
         Paths, Busy, Opening, Restarted, Tasks, Stops, NoReceiver, NoWorker, Step,
         ReceiverUnchanged, Halted
<1>5. StoresKnown'
  BY <1>1, <1>2
     DEF ReadLater, HandshakeTyped, StoresKnown, DurableInOrder, Waits, Preparing, Spooled,
         Acknowledged, Persisted, Confirmed, WorkerPlaces, Spools, Journals, Bits, Paths, Busy,
         Opening, Restarted, Tasks, Stops, NoReceiver, NoWorker, Step, ReceiverUnchanged, Halted
<1>6. Contained'
  BY <1>1, <1>2, BoundaryOf, NothingAssumption
     DEF ReadLater, HandshakeTyped, WorkerType, ReceiverType, Contained, Waits, Preparing,
         Spooled, Acknowledged, Persisted, Confirmed, WorkerPlaces, Spools, Journals, Bits,
         Paths, Busy, Opening, Restarted, Tasks, Stops, NoReceiver, NoWorker, Step,
         ReceiverUnchanged, Halted, Indexed
<1>7. StoppedAt'
  BY <1>1, <1>2, KillOf, BoundaryOf, NothingAssumption
     DEF ReadLater, Indexed, HandshakeTyped, WorkerType, ReceiverType, Contained, Waits,
         StoppedAt, Preparing, Spooled, Acknowledged, Persisted, Confirmed, WorkerPlaces, Spools,
         Journals, Bits, Paths, Busy, Opening, Restarted, Tasks, Stops, NoReceiver, NoWorker,
         Step, ReceiverUnchanged, Halted
<1> QED
  BY <1>3, <1>4, <1>5, <1>6, <1>7 DEF HandshakeFacts

LEMMA StopLastKeeps == ASSUME HandshakeFacts, StopReceiver("last", "verify") PROVE HandshakeFacts'
<1>1. HandshakeTyped /\ StoresKnown /\ Waits /\ Contained /\ StoppedAt
  BY DEF HandshakeFacts
<1>2. Expected' = Expected /\ entry' = entry
  BY DEF StopReceiver, Expected, ReceiverUnchanged, Step
<1>a. worker \in WorkerType /\ receiver \in ReceiverType
  BY <1>1 DEF HandshakeTyped
<1>b. worker' \in WorkerType
  BY <1>a
     DEF StopReceiver, WorkerType, Preparing, Spooled, Acknowledged, Persisted, Confirmed,
         WorkerPlaces, Spools, Journals, Bits, Paths, Busy, Opening, Restarted, Tasks, Stops,
         NoReceiver, NoWorker, Step, ReceiverUnchanged, Halted
<1>c. receiver' \in ReceiverType
  BY <1>a, <1>1
     DEF StopReceiver, Waits, ReceiverType, Preparing, Spooled, Acknowledged, Persisted,
         Confirmed, WorkerPlaces, Spools, Journals, Bits, Paths, Busy, Opening, Restarted, Tasks,
         Stops, NoReceiver, NoWorker, Step, ReceiverUnchanged, Halted
<1>3. HandshakeTyped'
  BY <1>1, <1>2, <1>b, <1>c
     DEF StopReceiver, HandshakeTyped, Preparing, Spooled, Acknowledged, Persisted, Confirmed,
         WorkerPlaces, Spools, Journals, Bits, Paths, Busy, Opening, Restarted, Tasks, Stops,
         NoReceiver, NoWorker, Step, ReceiverUnchanged, Halted
<1>4. Waits'
  BY <1>1, <1>2, BoundaryOf, KillOf
     DEF StopReceiver, HandshakeTyped, WorkerType, ReceiverType, Waits, Contained, Preparing,
         Spooled, Acknowledged, Persisted, Confirmed, WorkerPlaces, Spools, Journals, Bits,
         Paths, Busy, Opening, Restarted, Tasks, Stops, NoReceiver, NoWorker, Step,
         ReceiverUnchanged, Halted
<1>5. StoresKnown'
  BY <1>1, <1>2
     DEF StopReceiver, HandshakeTyped, StoresKnown, DurableInOrder, Waits, Preparing, Spooled,
         Acknowledged, Persisted, Confirmed, WorkerPlaces, Spools, Journals, Bits, Paths, Busy,
         Opening, Restarted, Tasks, Stops, NoReceiver, NoWorker, Step, ReceiverUnchanged, Halted
<1>6. Contained'
  BY <1>1, <1>2, BoundaryOf, NothingAssumption
     DEF StopReceiver, HandshakeTyped, WorkerType, ReceiverType, Contained, Waits, Preparing,
         Spooled, Acknowledged, Persisted, Confirmed, WorkerPlaces, Spools, Journals, Bits,
         Paths, Busy, Opening, Restarted, Tasks, Stops, NoReceiver, NoWorker, Step,
         ReceiverUnchanged, Halted, Indexed
<1>7. StoppedAt'
  BY <1>1, <1>2, KillOf, BoundaryOf, NothingAssumption
     DEF StopReceiver, Indexed, HandshakeTyped, WorkerType, ReceiverType, Contained, Waits,
         StoppedAt, Preparing, Spooled, Acknowledged, Persisted, Confirmed, WorkerPlaces, Spools,
         Journals, Bits, Paths, Busy, Opening, Restarted, Tasks, Stops, NoReceiver, NoWorker,
         Step, ReceiverUnchanged, Halted
<1> QED
  BY <1>3, <1>4, <1>5, <1>6, <1>7 DEF HandshakeFacts

LEMMA VerifyKeeps == ASSUME HandshakeFacts, Verify PROVE HandshakeFacts'
<1>1. HandshakeTyped /\ StoresKnown /\ Waits /\ Contained /\ StoppedAt
  BY DEF HandshakeFacts
<1>2. Expected' = Expected /\ entry' = entry
  BY DEF Verify, Conclude, Expected, ReceiverUnchanged, Step
<1>a. worker \in WorkerType /\ receiver \in ReceiverType
  BY <1>1 DEF HandshakeTyped
<1>b. worker' \in WorkerType
  BY <1>a
     DEF Verify, Conclude, WorkerType, Preparing, Spooled, Acknowledged, Persisted, Confirmed,
         WorkerPlaces, Spools, Journals, Bits, Paths, Busy, Opening, Restarted, Tasks, Stops,
         NoReceiver, NoWorker, Step, ReceiverUnchanged, Halted
<1>c. receiver' \in ReceiverType
  BY <1>a, <1>1
     DEF Verify, Conclude, Waits, ReceiverType, Preparing, Spooled, Acknowledged, Persisted,
         Confirmed, WorkerPlaces, Spools, Journals, Bits, Paths, Busy, Opening, Restarted, Tasks,
         Stops, NoReceiver, NoWorker, Step, ReceiverUnchanged, Halted
<1>3. HandshakeTyped'
  BY <1>1, <1>2, <1>b, <1>c
     DEF Verify, Conclude, HandshakeTyped, Preparing, Spooled, Acknowledged, Persisted,
         Confirmed, WorkerPlaces, Spools, Journals, Bits, Paths, Busy, Opening, Restarted, Tasks,
         Stops, NoReceiver, NoWorker, Step, ReceiverUnchanged, Halted
<1>4. Waits'
  BY <1>1, <1>2, BoundaryOf, KillOf
     DEF Verify, Conclude, HandshakeTyped, WorkerType, ReceiverType, Waits, Contained, Preparing,
         Spooled, Acknowledged, Persisted, Confirmed, WorkerPlaces, Spools, Journals, Bits,
         Paths, Busy, Opening, Restarted, Tasks, Stops, NoReceiver, NoWorker, Step,
         ReceiverUnchanged, Halted
<1>5. StoresKnown'
  BY <1>1, <1>2
     DEF Verify, Conclude, HandshakeTyped, StoresKnown, DurableInOrder, Waits, Preparing,
         Spooled, Acknowledged, Persisted, Confirmed, WorkerPlaces, Spools, Journals, Bits,
         Paths, Busy, Opening, Restarted, Tasks, Stops, NoReceiver, NoWorker, Step,
         ReceiverUnchanged, Halted
<1>6. Contained'
  BY <1>1, <1>2, BoundaryOf, NothingAssumption
     DEF Verify, Conclude, HandshakeTyped, WorkerType, ReceiverType, Contained, Waits, Preparing,
         Spooled, Acknowledged, Persisted, Confirmed, WorkerPlaces, Spools, Journals, Bits,
         Paths, Busy, Opening, Restarted, Tasks, Stops, NoReceiver, NoWorker, Step,
         ReceiverUnchanged, Halted, Indexed
<1>7. StoppedAt'
  BY <1>1, <1>2, KillOf, BoundaryOf, NothingAssumption
     DEF Verify, Conclude, Indexed, HandshakeTyped, WorkerType, ReceiverType, Contained, Waits,
         StoppedAt, Preparing, Spooled, Acknowledged, Persisted, Confirmed, WorkerPlaces, Spools,
         Journals, Bits, Paths, Busy, Opening, Restarted, Tasks, Stops, NoReceiver, NoWorker,
         Step, ReceiverUnchanged, Halted
<1> QED
  BY <1>3, <1>4, <1>5, <1>6, <1>7 DEF HandshakeFacts

LEMMA BlockedKeeps == ASSUME HandshakeFacts, Blocked PROVE HandshakeFacts'
<1>1. HandshakeTyped /\ StoresKnown /\ Waits /\ Contained /\ StoppedAt
  BY DEF HandshakeFacts
<1>2. Expected' = Expected /\ entry' = entry
  BY DEF Blocked, Conclude, Expected, ReceiverUnchanged, Step
<1>a. worker \in WorkerType /\ receiver \in ReceiverType
  BY <1>1 DEF HandshakeTyped
<1>b. worker' \in WorkerType
  BY <1>a
     DEF Blocked, Conclude, WorkerType, Preparing, Spooled, Acknowledged, Persisted, Confirmed,
         WorkerPlaces, Spools, Journals, Bits, Paths, Busy, Opening, Restarted, Tasks, Stops,
         NoReceiver, NoWorker, Step, ReceiverUnchanged, Halted
<1>c. receiver' \in ReceiverType
  BY <1>a, <1>1
     DEF Blocked, Conclude, Waits, ReceiverType, Preparing, Spooled, Acknowledged, Persisted,
         Confirmed, WorkerPlaces, Spools, Journals, Bits, Paths, Busy, Opening, Restarted, Tasks,
         Stops, NoReceiver, NoWorker, Step, ReceiverUnchanged, Halted
<1>3. HandshakeTyped'
  BY <1>1, <1>2, <1>b, <1>c
     DEF Blocked, Conclude, HandshakeTyped, Preparing, Spooled, Acknowledged, Persisted,
         Confirmed, WorkerPlaces, Spools, Journals, Bits, Paths, Busy, Opening, Restarted, Tasks,
         Stops, NoReceiver, NoWorker, Step, ReceiverUnchanged, Halted
<1>4. Waits'
  BY <1>1, <1>2, BoundaryOf, KillOf
     DEF Blocked, Conclude, HandshakeTyped, WorkerType, ReceiverType, Waits, Contained,
         Preparing, Spooled, Acknowledged, Persisted, Confirmed, WorkerPlaces, Spools, Journals,
         Bits, Paths, Busy, Opening, Restarted, Tasks, Stops, NoReceiver, NoWorker, Step,
         ReceiverUnchanged, Halted
<1>5. StoresKnown'
  BY <1>1, <1>2
     DEF Blocked, Conclude, HandshakeTyped, StoresKnown, DurableInOrder, Waits, Preparing,
         Spooled, Acknowledged, Persisted, Confirmed, WorkerPlaces, Spools, Journals, Bits,
         Paths, Busy, Opening, Restarted, Tasks, Stops, NoReceiver, NoWorker, Step,
         ReceiverUnchanged, Halted
<1>6. Contained'
  BY <1>1, <1>2, BoundaryOf, NothingAssumption
     DEF Blocked, Conclude, HandshakeTyped, WorkerType, ReceiverType, Contained, Waits,
         Preparing, Spooled, Acknowledged, Persisted, Confirmed, WorkerPlaces, Spools, Journals,
         Bits, Paths, Busy, Opening, Restarted, Tasks, Stops, NoReceiver, NoWorker, Step,
         ReceiverUnchanged, Halted, Indexed
<1>7. StoppedAt'
  BY <1>1, <1>2, KillOf, BoundaryOf, NothingAssumption
     DEF Blocked, Conclude, Indexed, HandshakeTyped, WorkerType, ReceiverType, Contained, Waits,
         StoppedAt, Preparing, Spooled, Acknowledged, Persisted, Confirmed, WorkerPlaces, Spools,
         Journals, Bits, Paths, Busy, Opening, Restarted, Tasks, Stops, NoReceiver, NoWorker,
         Step, ReceiverUnchanged, Halted
<1> QED
  BY <1>3, <1>4, <1>5, <1>6, <1>7 DEF HandshakeFacts

LEMMA RejectsKeeps == ASSUME HandshakeFacts, Rejects PROVE HandshakeFacts'
<1>1. HandshakeTyped /\ StoresKnown /\ Waits /\ Contained /\ StoppedAt
  BY DEF HandshakeFacts
<1>2. Expected' = Expected /\ entry' = entry
  BY DEF Rejects, Abort, Conclude, Expected, ReceiverUnchanged, Step
<1>a. worker \in WorkerType /\ receiver \in ReceiverType
  BY <1>1 DEF HandshakeTyped
<1>b. worker' \in WorkerType
  BY <1>a
     DEF Rejects, Abort, Conclude, WorkerType, Preparing, Spooled, Acknowledged, Persisted,
         Confirmed, WorkerPlaces, Spools, Journals, Bits, Paths, Busy, Opening, Restarted, Tasks,
         Stops, NoReceiver, NoWorker, Step, ReceiverUnchanged, Halted
<1>c. receiver' \in ReceiverType
  BY <1>a, <1>1
     DEF Rejects, Abort, Conclude, Waits, ReceiverType, Preparing, Spooled, Acknowledged,
         Persisted, Confirmed, WorkerPlaces, Spools, Journals, Bits, Paths, Busy, Opening,
         Restarted, Tasks, Stops, NoReceiver, NoWorker, Step, ReceiverUnchanged, Halted
<1>3. HandshakeTyped'
  BY <1>1, <1>2, <1>b, <1>c
     DEF Rejects, Abort, Conclude, HandshakeTyped, Preparing, Spooled, Acknowledged, Persisted,
         Confirmed, WorkerPlaces, Spools, Journals, Bits, Paths, Busy, Opening, Restarted, Tasks,
         Stops, NoReceiver, NoWorker, Step, ReceiverUnchanged, Halted
<1>4. Waits'
  BY <1>1, <1>2, BoundaryOf, KillOf
     DEF Rejects, Abort, Conclude, HandshakeTyped, WorkerType, ReceiverType, Waits, Contained,
         Preparing, Spooled, Acknowledged, Persisted, Confirmed, WorkerPlaces, Spools, Journals,
         Bits, Paths, Busy, Opening, Restarted, Tasks, Stops, NoReceiver, NoWorker, Step,
         ReceiverUnchanged, Halted
<1>5. StoresKnown'
  BY <1>1, <1>2
     DEF Rejects, Abort, Conclude, HandshakeTyped, StoresKnown, DurableInOrder, Waits, Preparing,
         Spooled, Acknowledged, Persisted, Confirmed, WorkerPlaces, Spools, Journals, Bits,
         Paths, Busy, Opening, Restarted, Tasks, Stops, NoReceiver, NoWorker, Step,
         ReceiverUnchanged, Halted
<1>6. Contained'
  BY <1>1, <1>2, BoundaryOf, NothingAssumption
     DEF Rejects, Abort, Conclude, HandshakeTyped, WorkerType, ReceiverType, Contained, Waits,
         Preparing, Spooled, Acknowledged, Persisted, Confirmed, WorkerPlaces, Spools, Journals,
         Bits, Paths, Busy, Opening, Restarted, Tasks, Stops, NoReceiver, NoWorker, Step,
         ReceiverUnchanged, Halted, Indexed
<1>7. StoppedAt'
  BY <1>1, <1>2, KillOf, BoundaryOf, NothingAssumption
     DEF Rejects, Abort, Conclude, Indexed, HandshakeTyped, WorkerType, ReceiverType, Contained,
         Waits, StoppedAt, Preparing, Spooled, Acknowledged, Persisted, Confirmed, WorkerPlaces,
         Spools, Journals, Bits, Paths, Busy, Opening, Restarted, Tasks, Stops, NoReceiver,
         NoWorker, Step, ReceiverUnchanged, Halted
<1> QED
  BY <1>3, <1>4, <1>5, <1>6, <1>7 DEF HandshakeFacts

LEMMA TimeoutKeeps == ASSUME HandshakeFacts, Timeout PROVE HandshakeFacts'
<1>1. HandshakeTyped /\ StoresKnown /\ Waits /\ Contained /\ StoppedAt
  BY DEF HandshakeFacts
<1>2. Expected' = Expected /\ entry' = entry
  BY DEF Timeout, Abort, Conclude, Expected, ReceiverUnchanged, Step
<1>a. worker \in WorkerType /\ receiver \in ReceiverType
  BY <1>1 DEF HandshakeTyped
<1>b. worker' \in WorkerType
  BY <1>a
     DEF Timeout, Abort, Conclude, WorkerType, Preparing, Spooled, Acknowledged, Persisted,
         Confirmed, WorkerPlaces, Spools, Journals, Bits, Paths, Busy, Opening, Restarted, Tasks,
         Stops, NoReceiver, NoWorker, Step, ReceiverUnchanged, Halted
<1>c. receiver' \in ReceiverType
  BY <1>a, <1>1
     DEF Timeout, Abort, Conclude, Waits, ReceiverType, Preparing, Spooled, Acknowledged,
         Persisted, Confirmed, WorkerPlaces, Spools, Journals, Bits, Paths, Busy, Opening,
         Restarted, Tasks, Stops, NoReceiver, NoWorker, Step, ReceiverUnchanged, Halted
<1>3. HandshakeTyped'
  BY <1>1, <1>2, <1>b, <1>c
     DEF Timeout, Abort, Conclude, HandshakeTyped, Preparing, Spooled, Acknowledged, Persisted,
         Confirmed, WorkerPlaces, Spools, Journals, Bits, Paths, Busy, Opening, Restarted, Tasks,
         Stops, NoReceiver, NoWorker, Step, ReceiverUnchanged, Halted
<1>4. Waits'
  BY <1>1, <1>2, BoundaryOf, KillOf
     DEF Timeout, Abort, Conclude, HandshakeTyped, WorkerType, ReceiverType, Waits, Contained,
         Preparing, Spooled, Acknowledged, Persisted, Confirmed, WorkerPlaces, Spools, Journals,
         Bits, Paths, Busy, Opening, Restarted, Tasks, Stops, NoReceiver, NoWorker, Step,
         ReceiverUnchanged, Halted
<1>5. StoresKnown'
  BY <1>1, <1>2
     DEF Timeout, Abort, Conclude, HandshakeTyped, StoresKnown, DurableInOrder, Waits, Preparing,
         Spooled, Acknowledged, Persisted, Confirmed, WorkerPlaces, Spools, Journals, Bits,
         Paths, Busy, Opening, Restarted, Tasks, Stops, NoReceiver, NoWorker, Step,
         ReceiverUnchanged, Halted
<1>6. Contained'
  BY <1>1, <1>2, BoundaryOf, NothingAssumption
     DEF Timeout, Abort, Conclude, HandshakeTyped, WorkerType, ReceiverType, Contained, Waits,
         Preparing, Spooled, Acknowledged, Persisted, Confirmed, WorkerPlaces, Spools, Journals,
         Bits, Paths, Busy, Opening, Restarted, Tasks, Stops, NoReceiver, NoWorker, Step,
         ReceiverUnchanged, Halted, Indexed
<1>7. StoppedAt'
  BY <1>1, <1>2, KillOf, BoundaryOf, NothingAssumption
     DEF Timeout, Abort, Conclude, Indexed, HandshakeTyped, WorkerType, ReceiverType, Contained,
         Waits, StoppedAt, Preparing, Spooled, Acknowledged, Persisted, Confirmed, WorkerPlaces,
         Spools, Journals, Bits, Paths, Busy, Opening, Restarted, Tasks, Stops, NoReceiver,
         NoWorker, Step, ReceiverUnchanged, Halted
<1> QED
  BY <1>3, <1>4, <1>5, <1>6, <1>7 DEF HandshakeFacts

LEMMA WorkerKeeps == ASSUME HandshakeFacts, Worker PROVE HandshakeFacts'
<1>1. CASE AppendStep
  <2>1. worker.at \in {"begin", "opened", "allocated", "put"}
    BY <1>1 DEF AppendStep, Moves
  <2> QED
    BY <1>1, <2>1, OpenKeeps, AllocateKeeps, PutKeeps, SpooledKeeps
<1>2. CASE PersistAck
  <2>1. worker.at \in {"acknowledged", "acknowledging"}
    BY <1>2 DEF PersistAck, Moves
  <2> QED
    BY <1>2, <2>1, AcknowledgingKeeps, PersistKeeps
<1>3. CASE Unanswered
  <2>1. worker.at \in {"/ingest", "/confirm"}
    BY <1>3 DEF Unanswered, Moves
  <2> QED
    BY <1>3, <2>1, IngestLostKeeps, ConfirmLostKeeps
<1> QED
  BY <1>1, <1>2, <1>3, AppendKeeps, AppendFailsKeeps, Post1Keeps, ConfirmKeeps, EndKeeps,
     AgainKeeps
     DEF Worker

LEMMA ReceiverKeeps == ASSUME HandshakeFacts, Receiver PROVE HandshakeFacts'
BY ReceiveKeeps, HoldKeeps, ApplyKeeps, RecordKeeps, RespondKeeps DEF Receiver

LEMMA HarnessKeepsFacts == ASSUME HandshakeFacts, HandshakeHarness PROVE HandshakeFacts'
BY OpenBrowserKeeps, LaunchKeeps, BeginWorkerKeeps, CheckpointKeeps, KillReceiverKeeps,
   TerminateWorkerKeeps, StopKeeps, RestartKeeps, ReadEarlierKeeps, RecoveryKeeps, RecoversKeeps,
   ReadLaterKeeps, StopLastKeeps, VerifyKeeps, BlockedKeeps, RejectsKeeps, TimeoutKeeps
   DEF HandshakeHarness

LEMMA HandshakeKeeps ==
  ASSUME HandshakeFacts, [HandshakeNext]_handshakeVars
  PROVE  HandshakeFacts'
<1>1. CASE UNCHANGED handshakeVars
  <2>1. HandshakeTyped' /\ Waits'
    BY <1>1 DEF handshakeVars, HandshakeFacts, HandshakeTyped, Waits
  <2>2. StoresKnown'
    BY <1>1 DEF handshakeVars, HandshakeFacts, StoresKnown, DurableInOrder
  <2>3. Contained' /\ StoppedAt'
    BY <1>1 DEF handshakeVars, HandshakeFacts, Contained, StoppedAt, Halted, Expected
  <2> QED
    BY <2>1, <2>2, <2>3 DEF HandshakeFacts
<1> QED
  BY <1>1, WorkerKeeps, ReceiverKeeps, MisfortuneKeeps, HarnessKeepsFacts DEF HandshakeNext

\* The harness moves alone, and touches no store.
LEMMA Separate ==
  /\ Worker \/ Receiver \/ Misfortune =>
       UNCHANGED <<entry, task, outcome, earlier, later, stopped>>
  /\ HandshakeHarness => UNCHANGED <<entry, spool, journal, wires, sighting>>
<1>1. ASSUME Worker PROVE UNCHANGED <<entry, task, outcome, earlier, later, stopped>>
  BY <1>1 DEF Worker, AppendStep, Append1, Post, PersistAck, Confirm, EndRound, Unanswered, Moves
<1>2. ASSUME Receiver PROVE UNCHANGED <<entry, task, outcome, earlier, later, stopped>>
  BY <1>2 DEF Receiver, Receive, Hold, Apply, Record, Respond, ReceiverUnchanged
<1>3. ASSUME Misfortune PROVE UNCHANGED <<entry, task, outcome, earlier, later, stopped>>
  BY <1>3 DEF Misfortune
<1>4. ASSUME HandshakeHarness PROVE UNCHANGED <<entry, spool, journal, wires, sighting>>
  BY <1>4
     DEF HandshakeHarness, OpenBrowser, Blocked, StartReceiver, BeginWorker, Checkpoint,
         KillReceiver, TerminateWorker, StopReceiver, ReadEarlier, Recovery, Recovers, ReadLater,
         Verify, Rejects, Timeout, Abort, Conclude, Step
<1> QED
  BY <1>1, <1>2, <1>3, <1>4

LEMMA WholeLasts ==
  ASSUME HandshakeFacts, Worker \/ Receiver \/ Misfortune
  PROVE  /\ spool = WholeStores.spool => spool' = WholeStores.spool
         /\ journal = WholeStores.journal => journal' = WholeStores.journal
<1>1. HandshakeTyped
  BY DEF HandshakeFacts
<1>2. CASE Worker
  BY <1>1, <1>2
     DEF Worker, AppendStep, Append1, Post, PersistAck, Confirm, EndRound, Unanswered, Moves,
         HandshakeTyped, Spools, Journals, Bits, WholeStores
<1>3. CASE Receiver
  BY <1>1, <1>3
     DEF Receiver, Receive, Hold, Apply, Record, Respond, ReceiverUnchanged, HandshakeTyped,
         Spools, Journals, Bits, WholeStores
<1>4. CASE Misfortune
  BY <1>4 DEF Misfortune
<1> QED
  BY <1>2, <1>3, <1>4

LEMMA SeenWholeKeeps ==
  ASSUME HandshakeFacts, SeenWhole, [HandshakeNext]_handshakeVars
  PROVE  SeenWhole'
<1>1. CASE UNCHANGED handshakeVars
  BY <1>1 DEF handshakeVars, SeenWhole
<1>2. CASE Worker \/ Receiver \/ Misfortune
  <2>1. UNCHANGED <<entry, task, outcome, earlier, later, stopped>>
    BY <1>2, Separate
  <2> QED
    BY <1>2, <2>1, WholeLasts DEF SeenWhole
<1>3. CASE HandshakeHarness
  <2>1. UNCHANGED <<entry, spool, journal, wires, sighting>>
    BY <1>3, Separate
  <2>2. HandshakeTyped
    BY DEF HandshakeFacts
  <2>3. CASE ReadLater
    BY <2>1, <2>2, <2>3, NothingAssumption
       DEF ReadLater, Step, Stores, SeenWhole, HandshakeTyped, WholeStores
  <2>4. CASE Verify
    <3>1. later' = later /\ task = "verify" /\ outcome' = IF Verified THEN "PASS" ELSE "FAIL"
      BY <2>4 DEF Verify, Conclude
    <3>2. CASE Verified
      BY <2>1, <2>2, <3>1, <3>2 DEF SeenWhole, Verified, SpoolsHold, JournalsHold, WholeStores
    <3>3. CASE ~Verified
      BY <2>1, <2>2, <2>4, <3>1, <3>3 DEF SeenWhole, Verify, Conclude
    <3> QED
      BY <3>2, <3>3
  <2>5. CASE StopReceiver("last", "verify")
    BY <2>1, <2>2, <2>5 DEF SeenWhole, StopReceiver, Step
  <2>6. CASE ~ReadLater /\ ~Verify /\ ~StopReceiver("last", "verify")
    <3>1. task' \notin {"last", "verify"} /\ outcome' # "PASS"
      BY <1>3, <2>2, <2>6, NothingAssumption
         DEF HandshakeTyped, HandshakeHarness, OpenBrowser, Blocked, StartReceiver, BeginWorker,
             Checkpoint, KillReceiver, TerminateWorker, StopReceiver, ReadEarlier, Recovery,
             Recovers, Rejects, Timeout, Abort, Conclude, Step
    <3> QED
      BY <3>1 DEF SeenWhole
  <2> QED
    BY <2>3, <2>4, <2>5, <2>6
<1> QED
  BY <1>1, <1>2, <1>3 DEF HandshakeNext

LEMMA PassShown == ASSUME HandshakeFacts, SeenWhole PROVE PassIsWhole
BY KillOf
   DEF HandshakeFacts, HandshakeTyped, StoppedAt, SeenWhole, WholeStores, PassIsWhole, Stops,
       Boundary

-----------------------------------------------------------------------------
(* Each action keeps what holds while nothing has failed.                  *)
LEMMA Quiet ==
  ASSUME HandshakeFacts,
         task \in Opening \cup {"stop", "restart", "before", "recover", "after", "last", "verify"}
  PROVE  ~Worker /\ ~Receiver
<1>1. worker = NoWorker /\ worker.at = "gone" /\ worker.op = Nothing
  BY DEF HandshakeFacts, Contained, NoWorker
<1>2. request = Nothing /\ receiver.at \notin Busy
  BY <1>1 DEF HandshakeFacts, Waits, Paths
<1>3. ~Worker
  BY <1>1, NothingAssumption
     DEF Worker, AppendStep, Append1, Post, PersistAck, Confirm, EndRound, Unanswered, Moves
<1>4. ~Receiver
  BY <1>2 DEF Receiver, Receive, Hold, HoldsAt, Apply, Record, Respond, Busy
<1> QED
  BY <1>3, <1>4

LEMMA WiresGrow ==
  ASSUME NEW n, NEW k \in Nat
  PROVE  /\ WiresOf(n, 0) = {}
         /\ WiresOf(n, k + 1) = WiresOf(n, k) \cup
              {<<n, k + 1, IF (k + 1) % 2 = 1 THEN "/ingest" ELSE "/confirm">>}
<1>1. 1..0 = {} /\ 1..(k + 1) = (1..k) \cup {k + 1}
  OBVIOUS
<1> QED
  BY <1>1 DEF WiresOf

LEMMA WorkerRuns ==
  ASSUME HandshakeFacts, NEW n \in {0, 1}, RunningOn(n), Worker,
         spool.rows = 1 \/ worker.given = TRUE
  PROVE  RunningOn(n)' /\ Recorded' = Recorded /\ wires' = wires /\ worker'.given = worker.given
<1>1. worker \in WorkerType /\ receiver \in ReceiverType /\ Waits /\ Contained
  BY DEF HandshakeFacts, HandshakeTyped
<1>2. receiver.at # "gone" /\ receiver.nth = n /\ worker.to = n /\ worker.at # "failed" /\ Serials
  BY DEF RunningOn
<1>3. receiver' = receiver /\ wires' = wires
  BY DEF Worker, AppendStep, Append1, Post, PersistAck, Confirm, EndRound, Unanswered, Moves
<1>4. Recorded' = Recorded
  BY <1>3 DEF Recorded
<1>5. /\ worker'.at # "failed" /\ worker'.to = n /\ worker'.given = worker.given
  BY <1>1, <1>2
     DEF Worker, AppendStep, Append1, Post, PersistAck, Confirm, EndRound, Unanswered, Moves,
         WorkerType
<1>6. worker.at \notin Paths
  BY <1>1, <1>2
     DEF Worker, AppendStep, Append1, Post, PersistAck, Confirm, EndRound, Unanswered, Moves,
         Paths
<1>7. receiver.at = "idle"
  BY <1>1, <1>2, <1>6 DEF Waits, ReceiverType
<1>8. Serials'
  <2>1. CASE worker' = [worker EXCEPT !.at = "spooled", !.round = 2] /\ worker.at = "confirmed" /\ worker.round = 1
    BY <1>1, <1>2, <1>3, <1>7, <2>1
       DEF Serials, EarlierSerials, WorkerType, ReceiverType, Preparing, Spooled, Acknowledged,
           Persisted, Confirmed, Busy
  <2>2. CASE ~(worker' = [worker EXCEPT !.at = "spooled", !.round = 2] /\ worker.at = "confirmed" /\ worker.round = 1)
    <3>1. PICK from, to : /\ Moves(from, to)
                          /\ \/ from \in Preparing /\ to \in Preparing \cup {"spooled"}
                             \/ from = "spooled" /\ to = "/ingest"
                             \/ from = "acknowledged" /\ to = "acknowledging"
                             \/ from = "acknowledging" /\ to = "persisted"
                             \/ from = "persisted" /\ to = "/confirm"
                             \/ from = "confirmed" /\ to = "answered"
      BY <1>2, <1>6, <2>2
         DEF Worker, AppendStep, Append1, Post, PersistAck, Confirm, EndRound, Unanswered, Paths,
             Preparing, Moves
    <3>2. worker.at = from /\ worker'.at = to /\ worker'.round = worker.round
      BY <1>1, <3>1 DEF Moves, WorkerType
    <3> QED
      BY <1>1, <1>2, <1>3, <1>7, <3>1, <3>2
         DEF Serials, EarlierSerials, WorkerType, ReceiverType, Preparing, Spooled, Acknowledged,
             Persisted, Confirmed, Busy
  <2> QED
    BY <2>1, <2>2
<1> QED
  BY <1>2, <1>3, <1>4, <1>5, <1>8 DEF RunningOn

LEMMA ReceiverRuns ==
  ASSUME HandshakeFacts, NEW n \in {0, 1}, NEW base, RunningOn(n), Receiver,
         wires = base \cup WiresOf(n, Recorded)
  PROVE  /\ RunningOn(n)' /\ wires' = base \cup WiresOf(n, Recorded')
         /\ worker'.given = worker.given /\ worker'.round = worker.round
<1>1. worker \in WorkerType /\ receiver \in ReceiverType /\ Waits
  BY DEF HandshakeFacts, HandshakeTyped
<1>2. receiver.at # "gone" /\ receiver.nth = n /\ worker.to = n /\ worker.at # "failed" /\ Serials
  BY DEF RunningOn
<1>3. receiver.at \in Busy => receiver.path = worker.at /\ worker.at \in Paths
  BY <1>1, <1>2 DEF Waits
<1>4. CASE Receive
  <2>1. worker.at = request.path /\ worker.at \in Paths /\ receiver.at = "idle" /\ worker' = worker /\ wires' = wires
    BY <1>1, <1>2, <1>4 DEF Receive, Waits, ReceiverUnchanged
  <2>2. receiver'.at = "received" /\ receiver'.serial = receiver.serial + 1 /\ receiver'.nth = n
    BY <1>1, <1>2, <1>4 DEF Receive, ReceiverType
  <2>3. Recorded' = Recorded
    BY <1>1, <2>1, <2>2 DEF Recorded, ReceiverType
  <2>4. Serials'
    BY <1>1, <1>2, <2>1, <2>2
       DEF Serials, EarlierSerials, WorkerType, ReceiverType, Paths, Preparing, Spooled,
           Acknowledged, Persisted, Confirmed, Busy
  <2> QED
    BY <1>2, <2>1, <2>2, <2>3, <2>4 DEF RunningOn
<1>5. CASE Hold \/ Apply
  <2>1. /\ worker' = worker /\ wires' = wires /\ receiver.at \in {"received", "applied"}
        /\ receiver'.serial = receiver.serial /\ receiver'.nth = n
        /\ receiver.at = "received" => receiver'.at \in {"held", "applied"}
        /\ receiver.at = "applied" => receiver'.at = "held"
    BY <1>1, <1>2, <1>5 DEF Hold, HoldsAt, Apply, ReceiverUnchanged, ReceiverType
  <2>2. Recorded' = Recorded
    BY <1>1, <2>1 DEF Recorded, ReceiverType
  <2>3. Serials'
    BY <1>1, <1>2, <1>3, <2>1
       DEF Serials, EarlierSerials, WorkerType, ReceiverType, Paths, Preparing, Spooled,
           Acknowledged, Persisted, Confirmed, Busy
  <2> QED
    BY <1>2, <2>1, <2>2, <2>3 DEF RunningOn
<1>6. CASE Record
  <2>1. /\ worker' = worker /\ receiver.at = "applied"
        /\ receiver'.serial = receiver.serial /\ receiver'.nth = n /\ receiver'.at = "recorded"
        /\ wires' = wires \cup {<<n, receiver.serial, worker.at>>}
    BY <1>1, <1>2, <1>3, <1>6 DEF Record, ReceiverUnchanged, ReceiverType, Busy
  <2>2. /\ receiver.serial = 2 * (worker.round - 1) + (IF worker.at = "/ingest" THEN 1 ELSE 2)
        /\ worker.at \in {"/ingest", "/confirm"} /\ worker.round \in {1, 2}
    BY <1>1, <1>2, <1>3, <2>1 DEF Serials, EarlierSerials, WorkerType, Paths, Busy
  <2>3. /\ receiver.serial \in {1, 2, 3, 4}
        /\ worker.at = IF receiver.serial % 2 = 1 THEN "/ingest" ELSE "/confirm"
    BY <2>2
  <2>4. Recorded = receiver.serial - 1 /\ Recorded' = receiver.serial
    BY <2>1, <2>3 DEF Recorded
  <2>5. Recorded \in Nat /\ Recorded + 1 = receiver.serial
    BY <2>3, <2>4
  <2>6. WiresOf(n, receiver.serial) = WiresOf(n, Recorded) \cup {<<n, receiver.serial, worker.at>>}
    BY <2>3, <2>5, WiresGrow
  <2>7. Serials'
    BY <1>1, <1>2, <1>3, <2>1
       DEF Serials, EarlierSerials, WorkerType, ReceiverType, Paths, Preparing, Spooled,
           Acknowledged, Persisted, Confirmed, Busy
  <2> QED
    BY <1>2, <2>1, <2>4, <2>6, <2>7 DEF RunningOn
<1>7. CASE Respond
  <2>1. /\ wires' = wires /\ receiver.at = "recorded" /\ worker.at \in Paths
        /\ receiver'.serial = receiver.serial /\ receiver'.nth = n /\ receiver'.at = "idle"
        /\ worker' = [worker EXCEPT !.at = IF @ = "/ingest" THEN "acknowledged" ELSE "confirmed"]
    BY <1>1, <1>2, <1>3, <1>7 DEF Respond, ReceiverUnchanged, ReceiverType, Busy
  <2>2. /\ worker'.at = (IF worker.at = "/ingest" THEN "acknowledged" ELSE "confirmed")
        /\ worker'.round = worker.round /\ worker'.to = worker.to /\ worker'.given = worker.given
    BY <1>1, <2>1 DEF WorkerType
  <2>3. Recorded' = Recorded
    BY <2>1 DEF Recorded
  <2>4. Serials'
    BY <1>1, <1>2, <2>1, <2>2
       DEF Serials, EarlierSerials, WorkerType, ReceiverType, Paths, Preparing, Spooled,
           Acknowledged, Persisted, Confirmed, Busy
  <2> QED
    BY <1>2, <2>1, <2>2, <2>3, <2>4 DEF RunningOn
<1> QED
  BY <1>4, <1>5, <1>6, <1>7 DEF Receiver

LEMMA DeliversOn ==
  ASSUME HandshakeFacts, Delivering, task = "await", Worker \/ Receiver
  PROVE  Delivering'
<1>1. worker \in WorkerType /\ receiver \in ReceiverType /\ Waits /\ StoresKnown /\ Contained
      /\ spool \in Spools /\ journal \in Journals /\ entry \in DOMAIN Registry
  BY DEF HandshakeFacts, HandshakeTyped
<1>2. /\ RunningOn(0) /\ worker.given = TRUE /\ NotYet /\ HeldAt /\ wires = WiresOf(0, Recorded)
      /\ worker.round = 2 => entry = "ack_06_duplicate_identical"
      /\ worker.at = "answered" /\ entry = "ack_06_duplicate_identical" => worker.round = 2
  BY DEF Delivering
<1>3. UNCHANGED <<entry, task, outcome, earlier, later, stopped>> /\ Expected' = Expected
  BY Separate DEF Expected
<1>4. receiver.at \in Busy => receiver.path = worker.at /\ worker.at \in Paths
  BY <1>1, <1>2 DEF Waits, RunningOn
<1>5. CASE Worker
  <2>1. RunningOn(0)' /\ Recorded' = Recorded /\ wires' = wires /\ worker'.given = worker.given
    BY <1>2, <1>5, WorkerRuns
  <2>2. wires' = WiresOf(0, Recorded')
    BY <1>2, <2>1
  <2>3. receiver' = receiver /\ journal' = journal /\ sighting' = sighting /\ worker.at \notin Paths
    BY <1>1, <1>2, <1>5
       DEF RunningOn, Worker, AppendStep, Append1, Post, PersistAck, Confirm, EndRound,
           Unanswered, Moves, Paths
  <2>4. receiver.at \notin Busy
    BY <1>4, <2>3
  <2>5. /\ worker'.round \in {worker.round, 2}
        /\ worker'.round = 2 => worker.round = 2 \/ entry = "ack_06_duplicate_identical"
        /\ worker'.at = "answered" /\ entry = "ack_06_duplicate_identical" => worker'.round = 2
        /\ worker'.round = 1 =>
             /\ worker.round = 1
             /\ worker.at \in Acknowledged <=> worker'.at \in Acknowledged
             /\ worker.at \in Confirmed <=> worker'.at \in Confirmed
             /\ spool' = spool \/ worker'.at \in {"spooled", "persisted"}
             /\ spool'.ack = spool.ack \/ worker'.at = "persisted"
             /\ worker.at \in Persisted => worker'.at \in Persisted
             /\ worker'.at \in Preparing => worker.at \in Preparing
    <3>1. CASE worker' = [worker EXCEPT !.at = "spooled", !.round = 2] /\ worker.at = "confirmed" /\ worker.round = 1
          /\ entry = "ack_06_duplicate_identical"
      BY <1>1, <3>1 DEF WorkerType
    <3>2. CASE ~(worker' = [worker EXCEPT !.at = "spooled", !.round = 2] /\ worker.at = "confirmed" /\ worker.round = 1
               /\ entry = "ack_06_duplicate_identical")
      <4>1. PICK from, to : /\ Moves(from, to)
                            /\ \/ /\ from \in Preparing /\ to \in Preparing /\ spool' = spool
                               \/ /\ from \in Preparing /\ to = "spooled" /\ spool' = [spool EXCEPT !.rows = 1]
                               \/ from = "spooled" /\ to = "/ingest" /\ spool' = spool
                               \/ from = "acknowledged" /\ to = "acknowledging" /\ spool' = spool
                               \/ /\ from = "acknowledging" /\ to = "persisted"
                                  /\ spool' = [spool EXCEPT !.ack = 1]
                               \/ from = "persisted" /\ to = "/confirm" /\ spool' = spool
                               \/ /\ from = "confirmed" /\ to = "answered" /\ spool' = spool
                                  /\ ~(entry = "ack_06_duplicate_identical" /\ worker.op = "deliver"
                                       /\ worker.round = 1)
        BY <1>2, <1>5, <2>3, <3>2
           DEF Worker, AppendStep, Append1, Post, PersistAck, Confirm, EndRound, Unanswered,
               Moves, Paths, Preparing
      <4>2. worker.at = from /\ worker'.at = to /\ worker'.round = worker.round
        BY <1>1, <4>1 DEF Moves, WorkerType
      <4>3. entry = "ack_06_duplicate_identical" => worker.op = "deliver"
        BY <1>1 DEF Contained, Indexed
      <4> QED
        BY <1>1, <1>2, <4>1, <4>2, <4>3
           DEF WorkerType, Spools, Bits, Preparing, Spooled, Acknowledged, Persisted, Confirmed,
               Busy
    <3> QED
      BY <3>1, <3>2
  <2>6. NotYet'
    BY <1>1, <1>2, <2>3, <2>4, <2>5
       DEF NotYet, ReceiverType, Preparing, Spooled, Acknowledged, Persisted, Confirmed, Busy
  <2>7. HeldAt'
    BY <2>3, <2>4 DEF HeldAt, Busy
  <2> QED
    BY <1>1, <1>2, <1>3, <2>1, <2>2, <2>5, <2>6, <2>7 DEF Delivering
<1>6. CASE Receiver
  <2>1. RunningOn(0)' /\ wires' = {} \cup WiresOf(0, Recorded') /\ worker'.given = worker.given /\ worker'.round = worker.round
    <3>1. wires = {} \cup WiresOf(0, Recorded)
      BY <1>2
    <3> QED
      BY <1>2, <1>6, <3>1, ReceiverRuns
  <2>2. spool' = spool
    BY <1>6 DEF Receiver, Receive, Hold, Apply, Record, Respond, ReceiverUnchanged
  <2>3. worker'.at # "answered" \/ worker' = worker
    BY <1>1, <1>2, <1>4, <1>6
       DEF Receiver, Receive, Hold, Apply, Record, Respond, ReceiverUnchanged, WorkerType
  <2>4. NotYet' /\ HeldAt'
    <3>1. CASE Receive
      <4>1. worker' = worker /\ journal' = journal /\ sighting' = sighting /\ receiver'.at = "received" /\ receiver.at = "idle"
        BY <1>1, <3>1 DEF Receive, ReceiverUnchanged, ReceiverType
      <4> QED
        BY <1>2, <2>2, <4>1 DEF NotYet, HeldAt
    <3>2. CASE Hold
      <4>1. /\ worker' = worker /\ journal' = journal /\ receiver'.at = "held" /\ receiver'.path = receiver.path
            /\ sighting' = [path |-> receiver.path, journal |-> journal]
            /\ receiver.path = worker.at /\ worker.at \in Paths /\ HoldsAt(receiver.at)
        BY <1>1, <1>4, <3>2 DEF Hold, HoldsAt, ReceiverUnchanged, ReceiverType, Busy
      <4>2. Expected.kill = "RECEIVER" /\ receiver.path = HeldPath /\ worker.round = 1
        <5>1. entry # "ack_06_duplicate_identical"
          BY <4>1 DEF HoldsAt
        <5>2. worker.round = 1
          BY <1>1, <1>2, <5>1 DEF WorkerType
        <5> QED
          BY <1>1, <4>1, <5>2, KillOf DEF HoldsAt, HeldPath
      <4>3. journal.confirmed = IF entry = "ack_05_after_backend_confirmation_commit" THEN 1 ELSE 0
        BY <1>1, <1>2, <4>1, <4>2 DEF HoldsAt, NotYet, StoresKnown, Confirmed, Paths
      <4>4. NotYet'
        BY <1>1, <1>2, <2>2, <4>1, <4>2, <4>3
           DEF HoldsAt, NotYet, HeldPath, Paths, Preparing, Spooled, Acknowledged, Persisted,
               Confirmed, Busy
      <4>5. HeldAt'
        BY <1>3, <4>1, <4>2, <4>3 DEF HeldAt, HeldPath
      <4> QED
        BY <4>4, <4>5
    <3>3. CASE Apply
      <4>1. /\ worker' = worker /\ receiver'.at = "applied" /\ receiver'.path = receiver.path
            /\ receiver.path = worker.at /\ worker.at \in Paths
            /\ worker.at = "/ingest" => journal'.confirmed = journal.confirmed
        BY <1>1, <1>4, <3>3 DEF Apply, ReceiverUnchanged, ReceiverType, Busy, Journals
      <4> QED
        BY <1>2, <2>2, <4>1
           DEF NotYet, HeldAt, Paths, Preparing, Spooled, Acknowledged, Persisted, Confirmed,
               Busy
    <3>4. CASE Record
      <4>1. /\ worker' = worker /\ receiver'.at = "recorded" /\ receiver'.path = receiver.path /\ journal' = journal
            /\ receiver.path = worker.at /\ worker.at \in Paths /\ receiver.at = "applied"
        BY <1>1, <1>4, <3>4 DEF Record, ReceiverUnchanged, ReceiverType, Busy
      <4> QED
        BY <1>2, <2>2, <4>1
           DEF NotYet, HeldAt, Paths, Preparing, Spooled, Acknowledged, Persisted, Confirmed,
               Busy
    <3>5. CASE Respond
      <4>1. /\ receiver'.at = "idle" /\ journal' = journal /\ worker'.round = worker.round
            /\ receiver.path = worker.at /\ worker.at \in Paths /\ receiver.at = "recorded"
            /\ worker'.at = IF worker.at = "/ingest" THEN "acknowledged" ELSE "confirmed"
        BY <1>1, <1>2, <1>4, <2>1, <3>5
           DEF Respond, ReceiverUnchanged, ReceiverType, WorkerType, Busy, RunningOn
      <4> QED
        BY <1>2, <2>2, <4>1
           DEF NotYet, HeldAt, Paths, Preparing, Spooled, Acknowledged, Persisted, Confirmed,
               Busy
    <3> QED
      BY <1>6, <3>1, <3>2, <3>3, <3>4, <3>5 DEF Receiver
  <2> QED
    BY <1>1, <1>2, <1>3, <2>1, <2>3, <2>4 DEF Delivering
<1> QED
  BY <1>5, <1>6

LEMMA HandshakeUndisturbedStarts == HandshakeInit => HandshakeUndisturbed
BY NothingAssumption
   DEF HandshakeInit, HandshakeUndisturbed, StartsFresh, Delivering, StoodAtBoundary,
       RecoveringOn, ComesThrough, RecordsKept, Opening, Restarted

\* The worker and the receiver only move while they deliver or recover.
LEMMA ProcessesRun ==
  ASSUME HandshakeFacts, HandshakeUndisturbed, Worker \/ Receiver
  PROVE  HandshakeUndisturbed'
<1>1. worker \in WorkerType /\ receiver \in ReceiverType /\ Waits /\ StoresKnown /\ Contained
      /\ spool \in Spools /\ journal \in Journals /\ entry \in DOMAIN Registry /\ task \in Tasks
  BY DEF HandshakeFacts, HandshakeTyped
<1>2. UNCHANGED <<entry, task, outcome, earlier, later, stopped, upset>> /\ Expected' = Expected
  BY Separate
     DEF Expected, Worker, AppendStep, Append1, Post, PersistAck, Confirm, EndRound, Unanswered,
         Moves, Receiver, Receive, Hold, Apply, Record, Respond, ReceiverUnchanged
<1> SUFFICES ASSUME upset = FALSE PROVE HandshakeUndisturbed'
  BY <1>2 DEF HandshakeUndisturbed
<1>3. outcome # "FAIL" /\ StartsFresh /\ Delivering /\ StoodAtBoundary /\ RecoveringOn /\ ComesThrough /\ RecordsKept
  BY DEF HandshakeUndisturbed
<1>4. task \in {"await", "terminate", "recovering", "done"}
  BY <1>1, Quiet DEF Tasks, Restarted
<1>5. CASE task = "await"
  <2>1. Delivering'
    BY <1>3, <1>5, DeliversOn
  <2> QED
    BY <1>2, <1>3, <1>5, <2>1
       DEF HandshakeUndisturbed, StartsFresh, Delivering, StoodAtBoundary, RecoveringOn,
           ComesThrough, RecordsKept, Opening, Restarted
<1>6. CASE task = "terminate" /\ Expected.kill # "RECEIVER"
  <2>1. Halted \/ worker.at = "answered"
    BY <1>3, <1>6 DEF Delivering
  <2>2. worker.at \notin Paths \cup {"failed", "gone", "confirmed"}
    BY <2>1, BoundaryOf DEF Halted, Paths
  <2>3. request = Nothing /\ receiver.at \notin Busy
    BY <1>1, <2>2 DEF Waits
  <2>4. ~Worker
    BY <2>1, <2>2
       DEF Worker, AppendStep, Append1, Post, PersistAck, Confirm, EndRound, Unanswered, Moves,
           Paths
  <2>5. ~Receiver
    BY <2>3 DEF Receiver, Receive, Hold, HoldsAt, Apply, Record, Respond, Busy
  <2> QED
    BY <2>4, <2>5
<1>7. CASE task = "terminate" /\ Expected.kill = "RECEIVER"
  <2>1. receiver.at = "gone" /\ worker.at \in Paths \cup {"failed"}
    BY <1>3, <1>7 DEF StoodAtBoundary
  <2>2. ~Receiver
    BY <2>1 DEF Receiver, Receive, Hold, HoldsAt, Apply, Record, Respond
  <2>3. Worker
    BY <2>2
  <2>4. UNCHANGED <<spool, journal, wires, receiver, sighting>> /\ worker'.at = "failed"
    BY <1>1, <2>1, <2>3
       DEF Worker, AppendStep, Append1, Post, PersistAck, Confirm, EndRound, Unanswered, Moves,
           Paths, WorkerType
  <2>5. AsExpected' /\ WiresOf(0, FirstSerials)' = WiresOf(0, FirstSerials)
    BY <1>2, <1>3, <1>7, <2>4 DEF StoodAtBoundary, AsExpected, FirstSerials
  <2> QED
    BY <1>2, <1>3, <1>7, <2>1, <2>4, <2>5
       DEF HandshakeUndisturbed, StartsFresh, Delivering, StoodAtBoundary, RecoveringOn,
           ComesThrough, RecordsKept, Opening, Restarted, HeldPath
<1>8. CASE task = "recovering"
  <2>1. /\ RunningOn(1) /\ worker.round = 1 /\ (spool.rows = 1 \/ worker.given = TRUE)
        /\ wires = WiresOf(0, FirstSerials) \cup WiresOf(1, Recorded) /\ worker.op = "recover"
    BY <1>1, <1>3, <1>8 DEF RecoveringOn, Contained
  <2>2. /\ RunningOn(1)' /\ wires' = WiresOf(0, FirstSerials) \cup WiresOf(1, Recorded')
        /\ worker'.given = worker.given
    <3>1. CASE Worker
      BY <2>1, <3>1, WorkerRuns
    <3>2. CASE Receiver
      <4> DEFINE base == WiresOf(0, FirstSerials)
      <4>1. wires = base \cup WiresOf(1, Recorded)
        BY <2>1
      <4> HIDE DEF base
      <4>2. /\ RunningOn(1)' /\ wires' = base \cup WiresOf(1, Recorded')
            /\ worker'.given = worker.given
        BY <2>1, <3>2, <4>1, ReceiverRuns
      <4> QED
        BY <4>2 DEF base
    <3> QED
      BY <3>1, <3>2
  <2>3. worker'.round = 1
    BY <1>1, <2>1
       DEF Worker, AppendStep, Append1, Post, PersistAck, Confirm, EndRound, Unanswered, Moves,
           Receiver, Receive, Hold, Apply, Record, Respond, ReceiverUnchanged, WorkerType
  <2>4. spool.rows = 1 => spool'.rows = 1
    BY <1>1
       DEF Worker, AppendStep, Append1, Post, PersistAck, Confirm, EndRound, Unanswered, Moves,
           Receiver, Receive, Hold, Apply, Record, Respond, ReceiverUnchanged, Spools
  <2>5. FirstSerials' = FirstSerials
    BY <1>2 DEF FirstSerials
  <2>6. sighting' = sighting
    BY <2>1
       DEF RunningOn, Worker, AppendStep, Append1, Post, PersistAck, Confirm, EndRound,
           Unanswered, Moves, Receiver, Receive, Hold, HoldsAt, Apply, Record, Respond,
           ReceiverUnchanged
  <2> QED
    BY <1>2, <1>3, <1>8, <2>1, <2>2, <2>3, <2>4, <2>5, <2>6
       DEF HandshakeUndisturbed, StartsFresh, Delivering, StoodAtBoundary, RecoveringOn,
           ComesThrough, RecordsKept, Opening, Restarted, HeldPath
<1>9. CASE task = "done"
  BY <1>2, <1>3, <1>9
     DEF HandshakeUndisturbed, StartsFresh, Delivering, StoodAtBoundary, RecoveringOn,
         ComesThrough, RecordsKept, Opening, Restarted
<1> QED
  BY <1>4, <1>5, <1>6, <1>7, <1>8, <1>9

LEMMA OpenBrowserUndisturbed ==
  ASSUME HandshakeFacts, HandshakeUndisturbed, upset = FALSE, OpenBrowser
  PROVE  HandshakeUndisturbed'
<1>1. worker \in WorkerType /\ receiver \in ReceiverType /\ Waits /\ StoresKnown /\ Contained /\ StoppedAt
      /\ spool \in Spools /\ journal \in Journals /\ entry \in DOMAIN Registry /\ task \in Tasks
      /\ (task # "done" => outcome = Nothing)
  BY DEF HandshakeFacts, HandshakeTyped
<1>2. UNCHANGED <<entry, spool, journal, wires, sighting>> /\ Expected' = Expected /\ FirstSerials' = FirstSerials /\ HeldPath' = HeldPath
  BY Separate DEF HandshakeHarness, Expected, FirstSerials, HeldPath
<1>3. outcome # "FAIL" /\ StartsFresh /\ Delivering /\ StoodAtBoundary /\ RecoveringOn /\ ComesThrough /\ RecordsKept
  BY DEF HandshakeUndisturbed
<1> QED
  BY <1>1, <1>2, <1>3, NothingAssumption
     DEF OpenBrowser, Step, HandshakeUndisturbed, StartsFresh, Delivering, StoodAtBoundary,
         RecoveringOn, ComesThrough, RecordsKept, Opening, Restarted, NoReceiver, AsExpected

LEMMA BlockedUndisturbed ==
  ASSUME HandshakeFacts, HandshakeUndisturbed, upset = FALSE, Blocked
  PROVE  HandshakeUndisturbed'
<1>1. worker \in WorkerType /\ receiver \in ReceiverType /\ Waits /\ StoresKnown /\ Contained /\ StoppedAt
      /\ spool \in Spools /\ journal \in Journals /\ entry \in DOMAIN Registry /\ task \in Tasks
      /\ (task # "done" => outcome = Nothing)
  BY DEF HandshakeFacts, HandshakeTyped
<1>2. UNCHANGED <<entry, spool, journal, wires, sighting>> /\ Expected' = Expected /\ FirstSerials' = FirstSerials /\ HeldPath' = HeldPath
  BY Separate DEF HandshakeHarness, Expected, FirstSerials, HeldPath
<1>3. outcome # "FAIL" /\ StartsFresh /\ Delivering /\ StoodAtBoundary /\ RecoveringOn /\ ComesThrough /\ RecordsKept
  BY DEF HandshakeUndisturbed
<1> QED
  BY <1>1, <1>2, <1>3, NothingAssumption
     DEF Blocked, Conclude, Step, HandshakeUndisturbed, StartsFresh, Delivering, StoodAtBoundary,
         RecoveringOn, ComesThrough, RecordsKept, Opening, Restarted, NoReceiver, AsExpected

LEMMA LaunchUndisturbed ==
  ASSUME HandshakeFacts, HandshakeUndisturbed, upset = FALSE, StartReceiver("launch", "begin", 0)
  PROVE  HandshakeUndisturbed'
<1>1. worker \in WorkerType /\ receiver \in ReceiverType /\ Waits /\ StoresKnown /\ Contained /\ StoppedAt
      /\ spool \in Spools /\ journal \in Journals /\ entry \in DOMAIN Registry /\ task \in Tasks
      /\ (task # "done" => outcome = Nothing)
  BY DEF HandshakeFacts, HandshakeTyped
<1>2. UNCHANGED <<entry, spool, journal, wires, sighting>> /\ Expected' = Expected /\ FirstSerials' = FirstSerials /\ HeldPath' = HeldPath
  BY Separate DEF HandshakeHarness, Expected, FirstSerials, HeldPath
<1>3. outcome # "FAIL" /\ StartsFresh /\ Delivering /\ StoodAtBoundary /\ RecoveringOn /\ ComesThrough /\ RecordsKept
  BY DEF HandshakeUndisturbed
<1> QED
  BY <1>1, <1>2, <1>3, NothingAssumption
     DEF StartReceiver, Step, HandshakeUndisturbed, StartsFresh, Delivering, StoodAtBoundary,
         RecoveringOn, ComesThrough, RecordsKept, Opening, Restarted, NoReceiver, AsExpected

LEMMA BeginWorkerUndisturbed ==
  ASSUME HandshakeFacts, HandshakeUndisturbed, upset = FALSE, BeginWorker
  PROVE  HandshakeUndisturbed'
<1>1. worker \in WorkerType /\ receiver \in ReceiverType /\ Waits /\ StoresKnown /\ Contained /\ StoppedAt
      /\ spool \in Spools /\ journal \in Journals /\ entry \in DOMAIN Registry /\ task \in Tasks
      /\ (task # "done" => outcome = Nothing)
  BY DEF HandshakeFacts, HandshakeTyped
<1>2. UNCHANGED <<entry, spool, journal, wires, sighting>> /\ Expected' = Expected /\ FirstSerials' = FirstSerials /\ HeldPath' = HeldPath
  BY Separate DEF HandshakeHarness, Expected, FirstSerials, HeldPath
<1>3. outcome # "FAIL" /\ StartsFresh /\ Delivering /\ StoodAtBoundary /\ RecoveringOn /\ ComesThrough /\ RecordsKept
  BY DEF HandshakeUndisturbed
<1>4. /\ task = "begin" /\ task' = "await" /\ outcome' = outcome /\ receiver' = receiver
      /\ worker'.at = "begin" /\ worker'.round = 1 /\ worker'.to = 0 /\ worker'.given = TRUE
  BY DEF BeginWorker, Step, NoWorker
<1>5. receiver.at = "idle" /\ receiver.nth = 0 /\ receiver.serial = 0 /\ wires = {}
      /\ spool = [rows |-> 0, ack |-> 0] /\ journal = [committed |-> 0, confirmed |-> 0]
  BY <1>3, <1>4 DEF StartsFresh, Opening, NoReceiver
<1>6. RunningOn(0)' /\ NotYet' /\ HeldAt'
  BY <1>2, <1>4, <1>5
     DEF RunningOn, Serials, EarlierSerials, NotYet, HeldAt, Preparing, Spooled, Acknowledged,
         Persisted, Confirmed, Busy
<1>7. wires' = WiresOf(0, Recorded')
  BY <1>2, <1>4, <1>5, WiresGrow DEF Recorded
<1> QED
  BY <1>1, <1>2, <1>3, NothingAssumption, <1>4, <1>6, <1>7
     DEF BeginWorker, Step, HandshakeUndisturbed, StartsFresh, Delivering, StoodAtBoundary,
         RecoveringOn, ComesThrough, RecordsKept, Opening, Restarted, NoReceiver, AsExpected

LEMMA CheckpointUndisturbed ==
  ASSUME HandshakeFacts, HandshakeUndisturbed, upset = FALSE, Checkpoint
  PROVE  HandshakeUndisturbed'
<1>1. worker \in WorkerType /\ receiver \in ReceiverType /\ Waits /\ StoresKnown /\ Contained /\ StoppedAt
      /\ spool \in Spools /\ journal \in Journals /\ entry \in DOMAIN Registry /\ task \in Tasks
      /\ (task # "done" => outcome = Nothing)
  BY DEF HandshakeFacts, HandshakeTyped
<1>2. UNCHANGED <<entry, spool, journal, wires, sighting>> /\ Expected' = Expected /\ FirstSerials' = FirstSerials /\ HeldPath' = HeldPath
  BY Separate DEF HandshakeHarness, Expected, FirstSerials, HeldPath
<1>3. outcome # "FAIL" /\ StartsFresh /\ Delivering /\ StoodAtBoundary /\ RecoveringOn /\ ComesThrough /\ RecordsKept
  BY DEF HandshakeUndisturbed
<1>4. /\ task = "await" /\ task' = "terminate" /\ outcome' = outcome /\ receiver' = receiver
      /\ worker' = worker /\ request' = request /\ Expected.kill # "RECEIVER"
      /\ (Halted \/ worker.at = "answered")
  BY DEF Checkpoint, Step
<1>5. RunningOn(0)' /\ NotYet' /\ HeldAt' /\ Recorded' = Recorded /\ (Halted' \/ worker'.at = "answered")
  BY <1>2, <1>3, <1>4
     DEF Delivering, RunningOn, Serials, EarlierSerials, NotYet, HeldAt, HeldPath, Recorded,
         Halted, Preparing, Spooled, Acknowledged, Persisted, Confirmed, Busy
<1> QED
  BY <1>1, <1>2, <1>3, NothingAssumption, <1>4, <1>5
     DEF Checkpoint, Step, HandshakeUndisturbed, StartsFresh, Delivering, StoodAtBoundary,
         RecoveringOn, ComesThrough, RecordsKept, Opening, Restarted, NoReceiver, AsExpected

LEMMA KillReceiverUndisturbed ==
  ASSUME HandshakeFacts, HandshakeUndisturbed, upset = FALSE, KillReceiver
  PROVE  HandshakeUndisturbed'
<1>1. worker \in WorkerType /\ receiver \in ReceiverType /\ Waits /\ StoresKnown /\ Contained /\ StoppedAt
      /\ spool \in Spools /\ journal \in Journals /\ entry \in DOMAIN Registry /\ task \in Tasks
      /\ (task # "done" => outcome = Nothing)
  BY DEF HandshakeFacts, HandshakeTyped
<1>2. UNCHANGED <<entry, spool, journal, wires, sighting>> /\ Expected' = Expected /\ FirstSerials' = FirstSerials /\ HeldPath' = HeldPath
  BY Separate DEF HandshakeHarness, Expected, FirstSerials, HeldPath
<1>3. outcome # "FAIL" /\ StartsFresh /\ Delivering /\ StoodAtBoundary /\ RecoveringOn /\ ComesThrough /\ RecordsKept
  BY DEF HandshakeUndisturbed
<1>4. /\ task = "await" /\ task' = "terminate" /\ outcome' = outcome /\ receiver'.at = "gone"
      /\ worker' = worker /\ Expected.kill = "RECEIVER" /\ receiver.at = "held"
  BY DEF KillReceiver, Step, NoReceiver
<1>5. /\ RunningOn(0) /\ NotYet /\ HeldAt /\ wires = WiresOf(0, Recorded)
  BY <1>3, <1>4 DEF Delivering
<1>6. /\ worker.round = 1 /\ sighting = [path |-> HeldPath, journal |-> journal]
      /\ worker.at = HeldPath /\ worker.at \in Paths
      /\ journal.confirmed = IF entry = "ack_05_after_backend_confirmation_commit" THEN 1 ELSE 0
  BY <1>1, <1>4, <1>5 DEF HeldAt, RunningOn, Waits, Busy
<1>7. CASE entry = "send_01_after_send_before_backend_begin"
  <2>1. worker.at = "/ingest"
    BY <1>6, <1>7 DEF HeldPath
  <2>2. receiver.serial = 1 /\ Recorded = 0 /\ FirstSerials = 0
    BY <1>4, <1>5, <1>6, <1>7, <2>1
       DEF RunningOn, Serials, EarlierSerials, Busy, Recorded, FirstSerials
  <2>3. spool.rows = 1 /\ spool.ack = 0 /\ journal.committed = 0 /\ journal.confirmed = 0
    BY <1>1, <1>4, <1>5, <1>6, <1>7, <2>1
       DEF NotYet, StoresKnown, Preparing, Spooled, Acknowledged, Persisted, Confirmed, Busy
  <2>4. AsExpected
    BY <1>1, <1>7, <2>3, StateOf DEF AsExpected, Spools, Journals
  <2> QED
    BY <1>1, <1>2, <1>3, <1>4, <1>5, <1>6, <2>2, <2>4, NothingAssumption
       DEF HandshakeUndisturbed, StartsFresh, Delivering, StoodAtBoundary, RecoveringOn,
           ComesThrough, RecordsKept, Opening, Restarted, AsExpected
<1>8. CASE entry \in {"ack_04_before_backend_confirmation_commit", "ack_05_after_backend_confirmation_commit"}
  <2>1. worker.at = "/confirm"
    BY <1>6, <1>8 DEF HeldPath
  <2>2. receiver.serial = 2 /\ Recorded = 1 /\ FirstSerials = 1
    BY <1>4, <1>5, <1>6, <1>8, <2>1
       DEF RunningOn, Serials, EarlierSerials, Busy, Recorded, FirstSerials, Indexed
  <2>3. spool.rows = 1 /\ spool.ack = 1 /\ journal.committed = 1
    BY <1>1, <1>4, <1>5, <1>6, <2>1
       DEF StoresKnown, Preparing, Spooled, Acknowledged, Persisted, Confirmed, Busy
  <2>4. AsExpected
    BY <1>1, <1>6, <1>8, <2>3, StateOf DEF AsExpected, Spools, Journals
  <2> QED
    BY <1>1, <1>2, <1>3, <1>4, <1>5, <1>6, <2>2, <2>4, NothingAssumption
       DEF HandshakeUndisturbed, StartsFresh, Delivering, StoodAtBoundary, RecoveringOn,
           ComesThrough, RecordsKept, Opening, Restarted, AsExpected
<1>9. entry \in {"send_01_after_send_before_backend_begin",
         "ack_04_before_backend_confirmation_commit", "ack_05_after_backend_confirmation_commit"}
  BY <1>1, <1>4, KillOf
<1> QED
  BY <1>1, <1>2, <1>3, NothingAssumption, <1>7, <1>8, <1>9
     DEF KillReceiver, Step, HandshakeUndisturbed, StartsFresh, Delivering, StoodAtBoundary,
         RecoveringOn, ComesThrough, RecordsKept, Opening, Restarted, NoReceiver, AsExpected

LEMMA TerminateWorkerUndisturbed ==
  ASSUME HandshakeFacts, HandshakeUndisturbed, upset = FALSE, TerminateWorker
  PROVE  HandshakeUndisturbed'
<1>1. worker \in WorkerType /\ receiver \in ReceiverType /\ Waits /\ StoresKnown /\ Contained /\ StoppedAt
      /\ spool \in Spools /\ journal \in Journals /\ entry \in DOMAIN Registry /\ task \in Tasks
      /\ (task # "done" => outcome = Nothing)
  BY DEF HandshakeFacts, HandshakeTyped
<1>2. UNCHANGED <<entry, spool, journal, wires, sighting>> /\ Expected' = Expected /\ FirstSerials' = FirstSerials /\ HeldPath' = HeldPath
  BY Separate DEF HandshakeHarness, Expected, FirstSerials, HeldPath
<1>3. outcome # "FAIL" /\ StartsFresh /\ Delivering /\ StoodAtBoundary /\ RecoveringOn /\ ComesThrough /\ RecordsKept
  BY DEF HandshakeUndisturbed
<1>4. CASE Expected.kill = "RECEIVER"
  <2>1. /\ task = "terminate" /\ task' = "restart" /\ outcome' = outcome
    BY <1>4 DEF TerminateWorker, Step
  <2> QED
    BY <1>1, <1>2, <1>3, <1>4, <2>1, NothingAssumption
       DEF HandshakeUndisturbed, StartsFresh, Delivering, StoodAtBoundary, RecoveringOn,
           ComesThrough, RecordsKept, Opening, Restarted, AsExpected
<1>5. CASE Expected.kill # "RECEIVER"
  <2>1. /\ task = "terminate" /\ task' = "stop" /\ outcome' = outcome /\ receiver' = receiver
    BY <1>5 DEF TerminateWorker, Step
  <2>2. /\ RunningOn(0) /\ NotYet /\ wires = WiresOf(0, Recorded) /\ (Halted \/ worker.at = "answered")
        /\ worker.round = 2 => entry = "ack_06_duplicate_identical"
        /\ worker.at = "answered" /\ entry = "ack_06_duplicate_identical" => worker.round = 2
    BY <1>3, <1>5, <2>1 DEF Delivering
  <2>3. worker.at \notin Paths /\ worker.at # "failed"
    BY <2>2, BoundaryOf DEF Halted, Paths
  <2>4. receiver.at = "idle"
    BY <1>1, <2>2, <2>3 DEF RunningOn, Waits, ReceiverType
  <2>5. CASE entry \in DOMAIN Boundary
    <3>1. worker.at = Boundary[entry] /\ worker.round = 1
      BY <1>1, <2>1, <2>2, <2>5, BoundaryOf DEF Halted, Contained, WorkerType
    <3>2. Recorded = FirstSerials
      BY <1>1, <1>5, <2>2, <2>4, <2>5, <3>1, BoundaryOf, KillOf
         DEF RunningOn, Serials, EarlierSerials, Recorded, FirstSerials, Indexed, Preparing,
             Spooled, Acknowledged, Persisted, Confirmed, Busy
    <3>3. AsExpected
      BY <1>1, <2>2, <2>4, <2>5, <3>1, BoundaryOf, StateOf
         DEF AsExpected, NotYet, StoresKnown, DurableInOrder, Spools, Journals, Bits, Preparing,
             Spooled, Acknowledged, Persisted, Confirmed, Busy
    <3> QED
      BY <1>1, <1>2, <1>3, <1>5, <2>1, <2>2, <2>4, <3>2, <3>3, NothingAssumption
         DEF HandshakeUndisturbed, StartsFresh, Delivering, StoodAtBoundary, RecoveringOn,
             ComesThrough, RecordsKept, Opening, Restarted, AsExpected
  <2>6. CASE entry = "ack_06_duplicate_identical"
    <3>1. worker.at = "answered" /\ worker.round = 2
      BY <2>2, <2>6 DEF Halted, Boundary
    <3>2. Recorded = FirstSerials
      BY <1>1, <2>2, <2>4, <2>6, <3>1, KillOf
         DEF RunningOn, Serials, EarlierSerials, Recorded, FirstSerials, Indexed, Confirmed
    <3>3. AsExpected
      BY <1>1, <2>6, <3>1, StateOf
         DEF AsExpected, StoresKnown, Spools, Journals, Preparing, Spooled, Acknowledged,
             Persisted, Confirmed, Busy
    <3> QED
      BY <1>1, <1>2, <1>3, <1>5, <2>1, <2>2, <2>4, <3>2, <3>3, NothingAssumption
         DEF HandshakeUndisturbed, StartsFresh, Delivering, StoodAtBoundary, RecoveringOn,
             ComesThrough, RecordsKept, Opening, Restarted, AsExpected
  <2> QED
    BY <1>1, <1>5, <2>5, <2>6, KillOf
<1> QED
  BY <1>1, <1>2, <1>3, NothingAssumption, <1>4, <1>5
     DEF TerminateWorker, Step, HandshakeUndisturbed, StartsFresh, Delivering, StoodAtBoundary,
         RecoveringOn, ComesThrough, RecordsKept, Opening, Restarted, NoReceiver, AsExpected

LEMMA StopUndisturbed ==
  ASSUME HandshakeFacts, HandshakeUndisturbed, upset = FALSE, StopReceiver("stop", "restart")
  PROVE  HandshakeUndisturbed'
<1>1. worker \in WorkerType /\ receiver \in ReceiverType /\ Waits /\ StoresKnown /\ Contained /\ StoppedAt
      /\ spool \in Spools /\ journal \in Journals /\ entry \in DOMAIN Registry /\ task \in Tasks
      /\ (task # "done" => outcome = Nothing)
  BY DEF HandshakeFacts, HandshakeTyped
<1>2. UNCHANGED <<entry, spool, journal, wires, sighting>> /\ Expected' = Expected /\ FirstSerials' = FirstSerials /\ HeldPath' = HeldPath
  BY Separate DEF HandshakeHarness, Expected, FirstSerials, HeldPath
<1>3. outcome # "FAIL" /\ StartsFresh /\ Delivering /\ StoodAtBoundary /\ RecoveringOn /\ ComesThrough /\ RecordsKept
  BY DEF HandshakeUndisturbed
<1>4. Expected.kill # "RECEIVER"
  BY <1>1 DEF StoppedAt, StopReceiver, Step
<1> QED
  BY <1>1, <1>2, <1>3, NothingAssumption, <1>4
     DEF StopReceiver, Step, HandshakeUndisturbed, StartsFresh, Delivering, StoodAtBoundary,
         RecoveringOn, ComesThrough, RecordsKept, Opening, Restarted, NoReceiver, AsExpected

LEMMA RestartUndisturbed ==
  ASSUME HandshakeFacts, HandshakeUndisturbed, upset = FALSE, StartReceiver("restart", "before", 1)
  PROVE  HandshakeUndisturbed'
<1>1. worker \in WorkerType /\ receiver \in ReceiverType /\ Waits /\ StoresKnown /\ Contained /\ StoppedAt
      /\ spool \in Spools /\ journal \in Journals /\ entry \in DOMAIN Registry /\ task \in Tasks
      /\ (task # "done" => outcome = Nothing)
  BY DEF HandshakeFacts, HandshakeTyped
<1>2. UNCHANGED <<entry, spool, journal, wires, sighting>> /\ Expected' = Expected /\ FirstSerials' = FirstSerials /\ HeldPath' = HeldPath
  BY Separate DEF HandshakeHarness, Expected, FirstSerials, HeldPath
<1>3. outcome # "FAIL" /\ StartsFresh /\ Delivering /\ StoodAtBoundary /\ RecoveringOn /\ ComesThrough /\ RecordsKept
  BY DEF HandshakeUndisturbed
<1> QED
  BY <1>1, <1>2, <1>3, NothingAssumption
     DEF StartReceiver, Step, HandshakeUndisturbed, StartsFresh, Delivering, StoodAtBoundary,
         RecoveringOn, ComesThrough, RecordsKept, Opening, Restarted, NoReceiver, AsExpected

LEMMA ReadEarlierUndisturbed ==
  ASSUME HandshakeFacts, HandshakeUndisturbed, upset = FALSE, ReadEarlier
  PROVE  HandshakeUndisturbed'
<1>1. worker \in WorkerType /\ receiver \in ReceiverType /\ Waits /\ StoresKnown /\ Contained /\ StoppedAt
      /\ spool \in Spools /\ journal \in Journals /\ entry \in DOMAIN Registry /\ task \in Tasks
      /\ (task # "done" => outcome = Nothing)
  BY DEF HandshakeFacts, HandshakeTyped
<1>2. UNCHANGED <<entry, spool, journal, wires, sighting>> /\ Expected' = Expected /\ FirstSerials' = FirstSerials /\ HeldPath' = HeldPath
  BY Separate DEF HandshakeHarness, Expected, FirstSerials, HeldPath
<1>3. outcome # "FAIL" /\ StartsFresh /\ Delivering /\ StoodAtBoundary /\ RecoveringOn /\ ComesThrough /\ RecordsKept
  BY DEF HandshakeUndisturbed
<1> QED
  BY <1>1, <1>2, <1>3, NothingAssumption
     DEF ReadEarlier, Stores, Step, HandshakeUndisturbed, StartsFresh, Delivering,
         StoodAtBoundary, RecoveringOn, ComesThrough, RecordsKept, Opening, Restarted,
         NoReceiver, AsExpected

LEMMA RecoveryUndisturbed ==
  ASSUME HandshakeFacts, HandshakeUndisturbed, upset = FALSE, Recovery
  PROVE  HandshakeUndisturbed'
<1>1. worker \in WorkerType /\ receiver \in ReceiverType /\ Waits /\ StoresKnown /\ Contained /\ StoppedAt
      /\ spool \in Spools /\ journal \in Journals /\ entry \in DOMAIN Registry /\ task \in Tasks
      /\ (task # "done" => outcome = Nothing)
  BY DEF HandshakeFacts, HandshakeTyped
<1>2. UNCHANGED <<entry, spool, journal, wires, sighting>> /\ Expected' = Expected /\ FirstSerials' = FirstSerials /\ HeldPath' = HeldPath
  BY Separate DEF HandshakeHarness, Expected, FirstSerials, HeldPath
<1>3. outcome # "FAIL" /\ StartsFresh /\ Delivering /\ StoodAtBoundary /\ RecoveringOn /\ ComesThrough /\ RecordsKept
  BY DEF HandshakeUndisturbed
<1>4. /\ task = "recover" /\ task' = "recovering" /\ outcome' = outcome /\ receiver' = receiver
      /\ worker'.at = "begin" /\ worker'.round = 1 /\ worker'.to = 1 /\ worker'.given = (earlier.spool.rows = 0)
      /\ earlier' = earlier
  BY DEF Recovery, Step, NoWorker
<1>5. receiver.at = "idle" /\ receiver.nth = 1 /\ receiver.serial = 0 /\ wires = WiresOf(0, FirstSerials) /\ AsExpected
  BY <1>3, <1>4 DEF StoodAtBoundary, NoReceiver
<1>6. RunningOn(1)' /\ Recorded' = 0
  BY <1>2, <1>4, <1>5
     DEF RunningOn, Serials, EarlierSerials, Recorded, Preparing, Spooled, Acknowledged,
         Persisted, Confirmed, Busy
<1>7. spool'.rows = 1 \/ worker'.given = TRUE
  <2>1. earlier.spool = spool
    BY <1>3, <1>4, <1>5 DEF RecordsKept, AsExpected
  <2> QED
    BY <1>1, <1>2, <1>4, <2>1 DEF Spools, Bits
<1>8. wires' = WiresOf(0, FirstSerials) \cup WiresOf(1, Recorded')
  BY <1>2, <1>5, <1>6, WiresGrow
<1> QED
  BY <1>1, <1>2, <1>3, NothingAssumption, <1>4, <1>6, <1>7, <1>8
     DEF Recovery, Step, HandshakeUndisturbed, StartsFresh, Delivering, StoodAtBoundary,
         RecoveringOn, ComesThrough, RecordsKept, Opening, Restarted, NoReceiver, AsExpected

LEMMA RecoversUndisturbed ==
  ASSUME HandshakeFacts, HandshakeUndisturbed, upset = FALSE, Recovers
  PROVE  HandshakeUndisturbed'
<1>1. worker \in WorkerType /\ receiver \in ReceiverType /\ Waits /\ StoresKnown /\ Contained /\ StoppedAt
      /\ spool \in Spools /\ journal \in Journals /\ entry \in DOMAIN Registry /\ task \in Tasks
      /\ (task # "done" => outcome = Nothing)
  BY DEF HandshakeFacts, HandshakeTyped
<1>2. UNCHANGED <<entry, spool, journal, wires, sighting>> /\ Expected' = Expected /\ FirstSerials' = FirstSerials /\ HeldPath' = HeldPath
  BY Separate DEF HandshakeHarness, Expected, FirstSerials, HeldPath
<1>3. outcome # "FAIL" /\ StartsFresh /\ Delivering /\ StoodAtBoundary /\ RecoveringOn /\ ComesThrough /\ RecordsKept
  BY DEF HandshakeUndisturbed
<1>4. /\ task = "recovering" /\ task' = "after" /\ outcome' = outcome /\ receiver' = receiver
      /\ worker.at = "answered" /\ earlier' = earlier
  BY DEF Recovers, Step
<1>5. RunningOn(1) /\ worker.round = 1 /\ wires = WiresOf(0, FirstSerials) \cup WiresOf(1, Recorded)
  BY <1>3, <1>4 DEF RecoveringOn
<1>6. receiver.at = "idle"
  BY <1>1, <1>4, <1>5 DEF RunningOn, Waits, ReceiverType, Paths
<1>7. Recorded = 2
  BY <1>1, <1>4, <1>5, <1>6 DEF RunningOn, Serials, EarlierSerials, Recorded, Confirmed
<1>8. spool = WholeStores.spool /\ journal = WholeStores.journal
  BY <1>1, <1>4
     DEF StoresKnown, WholeStores, Spools, Journals, Preparing, Spooled, Acknowledged, Persisted,
         Confirmed, Busy
<1> QED
  BY <1>1, <1>2, <1>3, NothingAssumption, <1>4, <1>5, <1>6, <1>7, <1>8
     DEF Recovers, Step, HandshakeUndisturbed, StartsFresh, Delivering, StoodAtBoundary,
         RecoveringOn, ComesThrough, RecordsKept, Opening, Restarted, NoReceiver, AsExpected

LEMMA ReadLaterUndisturbed ==
  ASSUME HandshakeFacts, HandshakeUndisturbed, upset = FALSE, ReadLater
  PROVE  HandshakeUndisturbed'
<1>1. worker \in WorkerType /\ receiver \in ReceiverType /\ Waits /\ StoresKnown /\ Contained /\ StoppedAt
      /\ spool \in Spools /\ journal \in Journals /\ entry \in DOMAIN Registry /\ task \in Tasks
      /\ (task # "done" => outcome = Nothing)
  BY DEF HandshakeFacts, HandshakeTyped
<1>2. UNCHANGED <<entry, spool, journal, wires, sighting>> /\ Expected' = Expected /\ FirstSerials' = FirstSerials /\ HeldPath' = HeldPath
  BY Separate DEF HandshakeHarness, Expected, FirstSerials, HeldPath
<1>3. outcome # "FAIL" /\ StartsFresh /\ Delivering /\ StoodAtBoundary /\ RecoveringOn /\ ComesThrough /\ RecordsKept
  BY DEF HandshakeUndisturbed
<1> QED
  BY <1>1, <1>2, <1>3, NothingAssumption
     DEF ReadLater, Stores, WholeStores, Step, HandshakeUndisturbed, StartsFresh, Delivering,
         StoodAtBoundary, RecoveringOn, ComesThrough, RecordsKept, Opening, Restarted,
         NoReceiver, AsExpected

LEMMA StopLastUndisturbed ==
  ASSUME HandshakeFacts, HandshakeUndisturbed, upset = FALSE, StopReceiver("last", "verify")
  PROVE  HandshakeUndisturbed'
<1>1. worker \in WorkerType /\ receiver \in ReceiverType /\ Waits /\ StoresKnown /\ Contained /\ StoppedAt
      /\ spool \in Spools /\ journal \in Journals /\ entry \in DOMAIN Registry /\ task \in Tasks
      /\ (task # "done" => outcome = Nothing)
  BY DEF HandshakeFacts, HandshakeTyped
<1>2. UNCHANGED <<entry, spool, journal, wires, sighting>> /\ Expected' = Expected /\ FirstSerials' = FirstSerials /\ HeldPath' = HeldPath
  BY Separate DEF HandshakeHarness, Expected, FirstSerials, HeldPath
<1>3. outcome # "FAIL" /\ StartsFresh /\ Delivering /\ StoodAtBoundary /\ RecoveringOn /\ ComesThrough /\ RecordsKept
  BY DEF HandshakeUndisturbed
<1> QED
  BY <1>1, <1>2, <1>3, NothingAssumption
     DEF StopReceiver, Step, HandshakeUndisturbed, StartsFresh, Delivering, StoodAtBoundary,
         RecoveringOn, ComesThrough, RecordsKept, Opening, Restarted, NoReceiver, AsExpected

LEMMA VerifyUndisturbed ==
  ASSUME HandshakeFacts, HandshakeUndisturbed, upset = FALSE, Verify
  PROVE  HandshakeUndisturbed'
<1>1. worker \in WorkerType /\ receiver \in ReceiverType /\ Waits /\ StoresKnown /\ Contained /\ StoppedAt
      /\ spool \in Spools /\ journal \in Journals /\ entry \in DOMAIN Registry /\ task \in Tasks
      /\ (task # "done" => outcome = Nothing)
  BY DEF HandshakeFacts, HandshakeTyped
<1>2. UNCHANGED <<entry, spool, journal, wires, sighting>> /\ Expected' = Expected /\ FirstSerials' = FirstSerials /\ HeldPath' = HeldPath
  BY Separate DEF HandshakeHarness, Expected, FirstSerials, HeldPath
<1>3. outcome # "FAIL" /\ StartsFresh /\ Delivering /\ StoodAtBoundary /\ RecoveringOn /\ ComesThrough /\ RecordsKept
  BY DEF HandshakeUndisturbed
<1>4. task = "verify"
  BY DEF Verify
<1>5. /\ earlier = [spool |-> Expected.spool, journal |-> Expected.journal]
      /\ later = WholeStores /\ wires = WiresOf(0, FirstSerials) \cup WiresOf(1, 2)
      /\ Expected.kill = "RECEIVER" => sighting = [path |-> HeldPath, journal |-> Expected.journal]
  BY <1>3, <1>4 DEF ComesThrough, RecordsKept, Restarted
<1>6. Verified
  BY <1>5
     DEF Verified, SpoolsHold, SightingHolds, JournalsHold, WiresHold, WholeStores, HeldPath,
         FirstSerials
<1> QED
  BY <1>1, <1>2, <1>3, NothingAssumption, <1>4, <1>6
     DEF Verify, Conclude, Step, HandshakeUndisturbed, StartsFresh, Delivering, StoodAtBoundary,
         RecoveringOn, ComesThrough, RecordsKept, Opening, Restarted, NoReceiver, AsExpected

LEMMA NeverRejects ==
  ASSUME HandshakeFacts, HandshakeUndisturbed, upset = FALSE
  PROVE  ~Rejects
<1>1. outcome # "FAIL" /\ StartsFresh /\ Delivering /\ StoodAtBoundary /\ RecoveringOn /\ ComesThrough /\ RecordsKept
  BY DEF HandshakeUndisturbed
<1> QED
  BY <1>1 DEF Rejects, Delivering, StoodAtBoundary, RecoveringOn, ComesThrough, RunningOn

LEMMA HandshakeUndisturbedKeeps ==
  ASSUME HandshakeFacts, HandshakeUndisturbed, [HandshakeNext]_handshakeVars
  PROVE  HandshakeUndisturbed'
<1>1. CASE UNCHANGED handshakeVars
  BY <1>1
     DEF handshakeVars, HandshakeUndisturbed, StartsFresh, Delivering, StoodAtBoundary,
         RecoveringOn, ComesThrough, RecordsKept, RunningOn, Serials, EarlierSerials, NotYet,
         HeldAt, HeldPath, FirstSerials, Recorded, AsExpected, Expected, Halted, Preparing,
         Spooled, Acknowledged, Persisted, Confirmed, Busy
<1>2. CASE Worker \/ Receiver
  BY <1>2, ProcessesRun
<1>3. CASE Misfortune
  BY <1>3 DEF Misfortune, HandshakeUndisturbed
<1>4. CASE HandshakeHarness
  <2>1. CASE Timeout
    BY <2>1 DEF Timeout, HandshakeUndisturbed
  <2>2. CASE upset # FALSE
    <3>1. upset' = upset \/ upset' = TRUE
      BY <1>4
         DEF HandshakeHarness, OpenBrowser, Blocked, StartReceiver, BeginWorker, Checkpoint,
             KillReceiver, TerminateWorker, StopReceiver, ReadEarlier, Recovery, Recovers,
             ReadLater, Verify, Rejects, Timeout, Abort, Conclude, Step
    <3> QED
      BY <2>2, <3>1 DEF HandshakeUndisturbed
  <2>3. CASE upset = FALSE /\ ~Timeout
    BY <1>4, <2>3, NeverRejects, OpenBrowserUndisturbed, BlockedUndisturbed, LaunchUndisturbed,
       BeginWorkerUndisturbed,
       CheckpointUndisturbed, KillReceiverUndisturbed, TerminateWorkerUndisturbed, StopUndisturbed,
       RestartUndisturbed, ReadEarlierUndisturbed, RecoveryUndisturbed, RecoversUndisturbed,
       ReadLaterUndisturbed, StopLastUndisturbed, VerifyUndisturbed DEF HandshakeHarness
  <2> QED
    BY <2>1, <2>2, <2>3
<1> QED
  BY <1>1, <1>2, <1>3, <1>4 DEF HandshakeNext

HandshakeInv == HandshakeFacts /\ SeenWhole /\ HandshakeUndisturbed

LEMMA HandshakeInvStarts == HandshakeInit => HandshakeInv
<1>1. HandshakeInit => SeenWhole
  BY NothingAssumption DEF HandshakeInit, SeenWhole
<1> QED
  BY <1>1, HandshakeStarts, HandshakeUndisturbedStarts DEF HandshakeInv

LEMMA HandshakeInvKeeps == HandshakeInv /\ [HandshakeNext]_handshakeVars => HandshakeInv'
BY HandshakeKeeps, SeenWholeKeeps, HandshakeUndisturbedKeeps DEF HandshakeInv

LEMMA HandshakeClaims == HandshakeInv => DurableInOrder /\ PassIsWhole /\ FailHasCause
<1>1. ASSUME HandshakeInv, upset # TRUE, outcome = "FAIL" PROVE FALSE
  BY <1>1 DEF HandshakeInv, HandshakeUndisturbed, HandshakeFacts, HandshakeTyped
<1>2. ASSUME HandshakeInv PROVE upset \in BOOLEAN
  BY <1>2 DEF HandshakeInv, HandshakeFacts, HandshakeTyped
<1> QED
  BY <1>1, <1>2, PassShown DEF HandshakeInv, HandshakeFacts, StoresKnown, FailHasCause

LEMMA HandshakeAlways == HandshakeSpec => []HandshakeInv
BY HandshakeInvStarts, HandshakeInvKeeps, PTL DEF HandshakeSpec

(* Whatever is stopped or fails, an acknowledgement is durable only after  *)
(* its row and its commit, a confirmation only after the acknowledgement.  *)
THEOREM HandshakeDurableInOrder == HandshakeSpec => []DurableInOrder
BY HandshakeAlways, HandshakeClaims, PTL

(* A browser case that passes left both stores whole, and one that fails   *)
(* had a process fail or stall on its own (run_browser_handshake).         *)
THEOREM HandshakeVerdictsHold == HandshakeSpec => [](PassIsWhole /\ FailHasCause)
BY HandshakeAlways, HandshakeClaims, PTL

-----------------------------------------------------------------------------
(***************************************************************************)
(* The campaigns side by side.  A step moves one of them and leaves the    *)
(* variables of the others alone, which is a stutter of each: the          *)
(* conjunction of the four invariants is an invariant of CampaignSpec, for *)
(* any subset of the registered cases and any number of kills.             *)
(***************************************************************************)
CampaignInv == CrashInv /\ HandshakeInv /\ ProbeInv /\ Accounted

LEMMA CampaignInvStarts == CampaignInit => CampaignInv
BY CrashInvStarts, HandshakeInvStarts, ProbeInvStarts, InitAccounted
   DEF CampaignInit, CampaignInv

LEMMA AccountedKeeps == Accounted /\ [DestructionNext]_destructionVars => Accounted'
BY StepAccounted, OthersKeepAccount DEF DestructionNext

LEMMA CampaignInvKeeps == CampaignInv /\ [CampaignNext]_allVars => CampaignInv'
<1> SUFFICES ASSUME CampaignInv, [CampaignNext]_allVars PROVE CampaignInv'
  OBVIOUS
<1>1. [Next]_vars
  BY DEF CampaignNext, allVars
<1>2. [HandshakeNext]_handshakeVars
  BY DEF CampaignNext, allVars
<1>3. [ProbeNext]_probeVars
  BY DEF CampaignNext, allVars
<1>4. [DestructionNext]_destructionVars
  BY DEF CampaignNext, allVars
<1>5. CrashInv' /\ HandshakeInv'
  BY <1>1, <1>2, CrashInvKeeps, HandshakeInvKeeps DEF CampaignInv
<1>6. ProbeInv' /\ Accounted'
  BY <1>3, <1>4, ProbeInvKeeps, AccountedKeeps DEF CampaignInv
<1> QED
  BY <1>5, <1>6 DEF CampaignInv

LEMMA CampaignAlways == CampaignSpec => []CampaignInv
BY CampaignInvStarts, CampaignInvKeeps, PTL DEF CampaignSpec

(* Whichever campaign runs: a case that fails, or an environment that is   *)
(* rejected, had a cause outside the program that is tested; the harness   *)
(* never rejects an honest run.                                            *)
THEOREM NoCampaignFailsHonestRuns == CampaignSpec => []NoFalseAlarm
<1>1. CampaignInv => NoFalseAlarm
  BY CrashClaims, HandshakeClaims, ProbeClaims DEF CampaignInv, NoFalseAlarm
<1> QED
  BY <1>1, CampaignAlways, PTL

(* Wherever a campaign kills a process, what is durable is whole           *)
(* transactions in their order, recovery makes the same of it as of a run  *)
(* without the kill, and no process of the backend harness is left behind. *)
THEOREM CampaignCrashesAreAtomic == CampaignSpec => []CrashIsAtomic
<1>1. CampaignInv => CrashIsAtomic
  BY CrashClaims, HandshakeClaims DEF CampaignInv, CrashIsAtomic
<1> QED
  BY <1>1, CampaignAlways, PTL

(* A PASS was a crash at the registered boundary, and the recovery after   *)
(* it left what it had to.                                                 *)
THEOREM CampaignPassWasACrash == CampaignSpec => []PassWasACrash
<1>1. CampaignInv => PassWasACrash
  BY CrashClaims, HandshakeClaims, ProbeClaims DEF CampaignInv, PassWasACrash
<1> QED
  BY <1>1, CampaignAlways, PTL

(* A campaign is one of its own whatever the others do, so what is proved  *)
(* of the destruction holds here too: every deletion is accounted for, and *)
(* under the consumed plan (validate_plan, delete_backend, write_proof).   *)
THEOREM CampaignsAccountForDestruction ==
  CampaignSpec => []DestructionAccounted /\ OnlyUnderConsumedPlan
<1>1. CampaignInit => DestructionInit
  BY DEF CampaignInit
<1>2. [CampaignNext]_allVars => [DestructionNext]_destructionVars
  BY DEF CampaignNext, allVars
<1>3. CampaignSpec => DestructionSpec
  BY <1>1, <1>2, PTL DEF CampaignSpec, DestructionSpec
<1> QED
  BY <1>3, DestructionAlwaysAccounted, OnlyTheConsumedPlan

=============================================================================
