---------------------------- MODULE MCCrashMatrix ----------------------------
(***************************************************************************)
(* Every case the harnesses register, with its mutations: of the process    *)
(* campaigns, of the browser campaign and of the destruction campaign, and  *)
(* the qualification of the browser environment.  They share no state: one  *)
(* of the four moves, the others stay in one initial state.                 *)
(***************************************************************************)
EXTENDS CrashMatrix, Handshake, BrowserProbe, Destruction

MCKeys == Registered

VARIABLE part    \* the campaign that runs

allVars == <<part, vars, handshakeVars, probeVars, destructionVars>>

CampaignInit ==
  /\ part \in {"process", "browser", "environment", "destruction"}
  /\ Init /\ HandshakeInit /\ ProbeInit /\ DestructionInit
  /\ part # "process" => case = GapScenario("GAP-09") /\ kind = "NONE"
  /\ part # "browser" => entry = "ack_06_duplicate_identical"
  /\ part # "environment" => transport = "pipe"
  /\ part # "destruction" => plan = "AUTHORIZED" /\ boundary = "01" /\ store = RunStores

CampaignNext ==
  \/ part = "process" /\ Next /\ UNCHANGED <<part, handshakeVars, probeVars, destructionVars>>
  \/ part = "browser" /\ HandshakeNext /\ UNCHANGED <<part, vars, probeVars, destructionVars>>
  \/ part = "environment" /\ ProbeNext /\ UNCHANGED <<part, vars, handshakeVars, destructionVars>>
  \/ part = "destruction" /\ DestructionNext /\ UNCHANGED <<part, vars, handshakeVars, probeVars>>

(* The harness process runs on; the destruction campaign's own process, too, *)
(* unless it is killed.                                                     *)
OtherHarness ==
  \/ part = "process" /\ Harness /\ UNCHANGED <<part, handshakeVars, probeVars, destructionVars>>
  \/ part = "browser" /\ HandshakeHarness /\ UNCHANGED <<part, vars, probeVars, destructionVars>>
  \/ part = "environment" /\ Qualifier /\ UNCHANGED <<part, vars, handshakeVars, destructionVars>>

Destroying(A) == part = "destruction" /\ A /\ UNCHANGED <<part, vars, handshakeVars, probeVars>>

CampaignFairness ==
  /\ WF_allVars(OtherHarness)
  /\ WF_allVars(Destroying(DestroyStep))
  /\ WF_allVars(Destroying(KillWaiting))
  /\ WF_allVars(Destroying(StartRecovery))

CampaignSpec == CampaignInit /\ [][CampaignNext]_allVars /\ CampaignFairness

(* A crash keeps the order and the atomicity of what is durable, and leaves *)
(* nothing else behind.                                                     *)
CrashIsAtomic == AllOrNothing /\ RecoveryConverges /\ NothingLeftBehind /\ DurableInOrder

(* Each campaign fails a case only for a cause: honest runs pass.           *)
NoFalseAlarm == HonestCasesPass /\ FailHasCause /\ RejectHasCause

(* A PASS of a kill case was a crash at the registered boundary, and the    *)
(* recovery after it left what it had to.                                   *)
PassWasACrash == PassMeansCrashed /\ PassIsWhole /\ QualifiedMeansDurable

(* Whatever the processes do, each campaign comes to a verdict and leaves   *)
(* no process it owns behind.                                               *)
CampaignsEnd ==
  /\ part = "process" => EveryCaseEnds
  /\ part = "browser" => HandshakeEnds
  /\ part = "environment" => QualificationEnds

=============================================================================
