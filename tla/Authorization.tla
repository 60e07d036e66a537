---------------------------- MODULE Authorization ----------------------------
(***************************************************************************)
(* The one-use authorization records: evaluate_record judges a record       *)
(* against the revocation ledger, the clocks, the records it rests on and   *)
(* the consumptions, and the trigger of authorization_consumptions lets a   *)
(* record be consumed once, before the act it authorizes ("consumed_before").*)
(* A record is named by its content hash. The evaluator has no caller but   *)
(* its vectors: the processes that judge, consume, act and die, the clocks  *)
(* and whoever supplies the revocation records are external.                *)
(***************************************************************************)
EXTENDS Integers, Sequences

CONSTANTS
    Verifiers,        \* processes that judge a record and act on it
    Record,           \* [content -> the record's fields], see RecordType
    Revocable,        \* what a revocation may name: a content, a serial, the key
    Effectives,       \* when a revocation takes effect
    MaxNow,           \* bound on time
    MaxReboots,       \* bound on reboots
    MaxRevocations,   \* bound on the ledger
    NoRecord          \* no claim

Contents == DOMAIN Record

(* FAILURE_PRECEDENCE; the first eight are failures of the record alone. *)
FailurePrecedence == <<
    "CONTENT_HASH_MISMATCH", "UNTRUSTED_KEY_ID", "KEY_ROLE_OR_ISSUANCE_INVALID",
    "SIGNATURE_INVALID", "PACK_HASH_MISMATCH", "BASELINE_MISMATCH", "BUILD_HASH_MISMATCH",
    "AUDIENCE_MISMATCH",
    "REVOKED", "CLOCK_UNTRUSTED", "NOT_YET_VALID", "EXPIRED",
    "PREREQUISITE_GATE_INVALID", "SCOPE_BINDING_MISMATCH",
    "CONSUMPTION_STORE_UNAVAILABLE", "ALREADY_CONSUMED", "SERIAL_CONFLICT",
    "LOCAL_STATE_CONFLICT">>
Flaws == {FailurePrecedence[i] : i \in 1..8}

(* The record types the consumption table holds, and what each is consumed  *)
(* before.                                                                  *)
ConsumedBefore ==
    [GateReceipt |-> "GATE_USE", DiscoveryRunAuthorization |-> "DEBUGGER_ATTACH",
     BodyClassApproval |-> "BODY_TICKET", ProviderCallAuthorization |-> "PROVIDER_IO"]
Types == DOMAIN ConsumedBefore \cup {"ProviderProbeProtocol"}

RecordType ==
    [type : Types, receipt : STRING, serial : STRING, nonce : STRING, scope : STRING,
     needs : SUBSET Contents, notBefore : Nat, expires : Nat, deadline : Nat,
     before : STRING, flaw : Flaws \cup {"NONE"}]

(* Only run and call records carry a lease on the monotonic clock, and only *)
(* they are judged together with records they need: gates or the protocol.  *)
Clocked(c) == Record[c].type \in {"DiscoveryRunAuthorization", "ProviderCallAuthorization"}

ASSUME AuthorizationAssumption ==
    /\ Record \in [Contents -> RecordType] /\ NoRecord \notin Contents
    /\ \A c \in Contents : Record[c].needs # {} => Clocked(c)
    /\ Effectives \subseteq Nat /\ MaxNow \in Nat /\ MaxReboots \in Nat /\ MaxRevocations \in Nat

VARIABLES
    mode,      \* "TEST" or "ACTIVE": the trust mode of the evaluation
    now,       \* real time; every record is issued at 0, in boot 0
    skew,      \* how far the wall clock is behind real time
    boots,     \* reboots so far
    bootedAt,  \* real time of the last boot
    ledger,    \* the signed revocations, in the order of the chain
    consumed,  \* authorization_consumptions, by content
    pc, claim, \* per verifier: where it is, and the record it judged VALID;
               \* history: when it did, and how long the ledger was
    acts       \* history: acts[c] is how often record c was acted on

authVars == <<mode, now, skew, boots, bootedAt, ledger, consumed, pc, claim, acts>>

Wall == now - skew
Mono == now - bootedAt

NoClaim == [record |-> NoRecord, at |-> 0, wall |-> 0, seen |-> 0]

AuthInit ==
    /\ mode \in {"TEST", "ACTIVE"} /\ now = 0 /\ skew = 0 /\ boots = 0 /\ bootedAt = 0
    /\ ledger = << >> /\ consumed = {} /\ acts = [c \in Contents |-> 0]
    /\ pc = [v \in Verifiers |-> "idle"] /\ claim = [v \in Verifiers |-> NoClaim]

-----------------------------------------------------------------------------
(* Revocations. An entry names its place in the chain and the build it was  *)
(* issued for, and revokes a content, a serial or the key of every record.  *)

Names(entry, c) == entry.target \in {c, Record[c].serial, "key"}

(* revocation_chain_guard: the next sequence number, on the present head.   *)
RevocationChainGuard(sequence, head) ==
    /\ sequence = 1 => ledger = << >>
    /\ sequence > 1 => sequence - 1 = head /\ head <= Len(ledger)
    /\ \A i \in DOMAIN ledger : ledger[i].sequence # sequence

(* _is_revoked over the records offered, against the required checkpoint.   *)
ChainHolds(offered) ==
    \A i \in DOMAIN offered :
        offered[i].sequence = i /\ offered[i].signed /\ offered[i].build = "this"
CheckpointUnread(offered) == ChainHolds(offered)   \* mutant: no required checkpoint
CheckpointMet(offered) ==
    /\ Len(offered) = Len(ledger) /\ ChainHolds(offered)
    /\ Len(offered) > 0 => offered[Len(offered)] = ledger[Len(ledger)]

IsRevoked(c, offered) ==
    \E i \in DOMAIN offered : offered[i].effective <= Wall /\ Names(offered[i], c)

(* The trust root holds no active key: only the test mode trusts any.       *)
Trusted == mode = "TEST"

(* _record_mechanism_valid: signature, key, role, audience, issuance.       *)
MechanismValid(c) == Trusted /\ Record[c].flaw = "NONE"

(* A record another one rests on: a gate or the provider's protocol.        *)
SupportsUnrevoked(c, offered) ==                   \* mutant: its revocation unread
    MechanismValid(c) /\ Record[c].notBefore <= Wall /\ Wall < Record[c].expires
Supports(c, offered) ==
    /\ MechanismValid(c) /\ CheckpointMet(offered) /\ ~IsRevoked(c, offered)
    /\ Record[c].notBefore <= Wall /\ Wall < Record[c].expires

-----------------------------------------------------------------------------
(* _add_clock_and_time_faults; "detected" is the backend's word that it     *)
(* restarted, that a clock went back or that the evidence is missing.       *)

SameBootUnread == TRUE                             \* mutant: boot identities not compared
SameBoot == boots = 0

ClockFaults(c, detected) ==
    LET r == Record[c]
        leased == Clocked(c) /\ ~detected /\ SameBoot
    IN {f \in {"CLOCK_UNTRUSTED"} : Clocked(c) /\ ~leased}
       \cup {f \in {"NOT_YET_VALID"} : Wall < r.notBefore}
       \cup {f \in {"EXPIRED"} : Wall >= r.expires \/ (leased /\ Mono >= r.deadline)}

(* _add_consumption_faults and the conflicts with consumed records: the     *)
(* content, the identity (issuer, key, audience, serial), the nonce in its  *)
(* scope.                                                                   *)
SameSerial(c, d) == Record[c].serial = Record[d].serial
SameNonce(c, d) ==
    Record[c].nonce = Record[d].nonce /\ Record[c].scope = Record[d].scope

ConsumptionFaultsBySerial(c) ==                    \* mutant: nonces not compared
    {f \in {"ALREADY_CONSUMED"} : c \in consumed}
    \cup {f \in {"SERIAL_CONFLICT"} : \E d \in consumed \ {c} : SameSerial(c, d)}
ConsumptionFaults(c) ==
    {f \in {"ALREADY_CONSUMED"} : c \in consumed}
    \cup {f \in {"SERIAL_CONFLICT"} : \E d \in consumed \ {c} : SameSerial(c, d)}
    \cup {f \in {"LOCAL_STATE_CONFLICT"} : \E d \in consumed \ {c} : SameNonce(c, d)}

(* The gates a run rests on, and the protocol a call rests on.              *)
PrerequisiteFaults(c, offered) ==
    {f \in {"PREREQUISITE_GATE_INVALID"} :
        /\ Record[c].type = "DiscoveryRunAuthorization"
        /\ \E d \in Record[c].needs : ~Supports(d, offered)}
ScopeFaults(c, offered) ==
    {f \in {"SCOPE_BINDING_MISMATCH"} :
        /\ Record[c].type = "ProviderCallAuthorization"
        /\ \E d \in Record[c].needs : ~Supports(d, offered)}

(* _evaluate_record: every fault, then the first of the precedence.         *)
Faults(c, offered, detected, available) ==
    LET revocable == CheckpointMet(offered)
    IN ({Record[c].flaw} \ {"NONE"})
       \cup {f \in {"UNTRUSTED_KEY_ID"} : ~Trusted}
       \cup {f \in {"REVOKED"} : revocable /\ IsRevoked(c, offered)}
       \cup {f \in {"LOCAL_STATE_CONFLICT"} : ~revocable}
       \cup ClockFaults(c, detected)
       \cup PrerequisiteFaults(c, offered) \cup ScopeFaults(c, offered)
       \cup {f \in {"CONSUMPTION_STORE_UNAVAILABLE"} : ~available}
       \cup ConsumptionFaults(c)

Evaluate(c, offered, detected, available) ==
    LET faults == Faults(c, offered, detected, available)
        found == {i \in DOMAIN FailurePrecedence : FailurePrecedence[i] \in faults}
    IN IF faults = {} THEN "VALID"
       ELSE FailurePrecedence[CHOOSE i \in found : \A j \in found : i <= j]

(* authorization_consumption_binding_guard over the rows of the table.      *)
BindingGuardExact(c) ==                           \* mutant: only an exact replay
    c \notin consumed /\ \A d \in consumed : Record[d].receipt # Record[c].receipt
BindingGuard(c) ==
    /\ Record[c].type \in DOMAIN ConsumedBefore
    /\ Record[c].before = ConsumedBefore[Record[c].type]
    /\ \A d \in consumed : /\ d # c /\ Record[d].receipt # Record[c].receipt
                           /\ ~SameSerial(c, d) /\ ~SameNonce(c, d)

-----------------------------------------------------------------------------
(* What a supplier hands over as the revocation records: the ledger, a      *)
(* prefix of it, the ledger without an entry or with one replaced.          *)
Forged(entry) == [entry EXCEPT !.target = "nobody", !.signed = FALSE]
Prefixes == {SubSeq(ledger, 1, k) : k \in 0..Len(ledger)}
Gaps == {SubSeq(ledger, 1, i - 1) \o SubSeq(ledger, i + 1, Len(ledger)) : i \in DOMAIN ledger}
Forgeries == {[ledger EXCEPT ![i] = Forged(ledger[i])] : i \in DOMAIN ledger}
Repetitions == {[ledger EXCEPT ![i] = ledger[j]] : i, j \in DOMAIN ledger}
Offers == Prefixes \cup Gaps \cup Forgeries \cup Repetitions

Judge(v, c) ==
    /\ pc[v] = "idle"
    /\ "VALID" \in {Evaluate(c, offered, detected, available) :
                     offered \in Offers, detected \in BOOLEAN, available \in BOOLEAN}
    /\ pc' = [pc EXCEPT ![v] = "valid"]
    /\ claim' = [claim EXCEPT ![v] =
                    [record |-> c, at |-> now, wall |-> Wall, seen |-> Len(ledger)]]
    /\ UNCHANGED <<mode, now, skew, boots, bootedAt, ledger, consumed, acts>>

(* The row is inserted; the trigger sees the table as it is then.           *)
Consume(v) ==
    /\ pc[v] = "valid"
    /\ IF BindingGuard(claim[v].record)
       THEN /\ consumed' = consumed \cup {claim[v].record}
            /\ pc' = [pc EXCEPT ![v] = "consumed"] /\ UNCHANGED claim
       ELSE /\ pc' = [pc EXCEPT ![v] = "idle"] /\ claim' = [claim EXCEPT ![v] = NoClaim]
            /\ UNCHANGED consumed
    /\ UNCHANGED <<mode, now, skew, boots, bootedAt, ledger, acts>>

Act(v) ==
    /\ pc[v] = "consumed" /\ acts' = [acts EXCEPT ![claim[v].record] = @ + 1]
    /\ pc' = [pc EXCEPT ![v] = "idle"] /\ claim' = [claim EXCEPT ![v] = NoClaim]
    /\ UNCHANGED <<mode, now, skew, boots, bootedAt, ledger, consumed>>

(* The verifier dies between two steps. *)
Die(v) ==
    /\ pc[v] # "idle" /\ pc' = [pc EXCEPT ![v] = "idle"]
    /\ claim' = [claim EXCEPT ![v] = NoClaim]
    /\ UNCHANGED <<mode, now, skew, boots, bootedAt, ledger, consumed, acts>>

Revoke ==
    /\ Len(ledger) < MaxRevocations
    /\ \E target \in Revocable, effective \in Effectives, build \in {"this", "other"},
          sequence \in 1..MaxRevocations, head \in 0..MaxRevocations :
          /\ RevocationChainGuard(sequence, head)
          /\ ledger' = Append(ledger, [sequence |-> sequence, target |-> target,
                                       effective |-> effective, build |-> build,
                                       signed |-> TRUE])
    /\ UNCHANGED <<mode, now, skew, boots, bootedAt, consumed, pc, claim, acts>>

TimePasses ==
    /\ now < MaxNow /\ now' = now + 1
    /\ UNCHANGED <<mode, skew, boots, bootedAt, ledger, consumed, pc, claim, acts>>

(* The wall clock is set back. *)
WallRollback ==
    /\ skew = 0 /\ now > 0 /\ skew' = 1
    /\ UNCHANGED <<mode, now, boots, bootedAt, ledger, consumed, pc, claim, acts>>

(* The machine reboots: the monotonic clock starts again, every verifier    *)
(* is gone.                                                                 *)
Reboot ==
    /\ boots < MaxReboots /\ boots' = boots + 1 /\ bootedAt' = now
    /\ pc' = [v \in Verifiers |-> "idle"] /\ claim' = [v \in Verifiers |-> NoClaim]
    /\ UNCHANGED <<mode, now, skew, ledger, consumed, acts>>

AuthNext ==
    \/ \E v \in Verifiers : \/ \E c \in Contents : Judge(v, c)
                            \/ Consume(v) \/ Act(v) \/ Die(v)
    \/ Revoke \/ TimePasses \/ WallRollback \/ Reboot

AuthSpec == AuthInit /\ [][AuthNext]_authVars

-----------------------------------------------------------------------------
(* No two acts rest on the same record, the same identity or the same nonce *)
(* in a scope, whatever stale judgement an act comes from.                  *)
ActedOnce ==
    /\ \A c \in Contents : acts[c] <= 1
    /\ \A c, d \in Contents : c # d /\ acts[c] > 0 /\ acts[d] > 0 =>
          Record[c].receipt # Record[d].receipt /\ ~SameSerial(c, d) /\ ~SameNonce(c, d)

(* A record is never judged VALID when the ledger of that moment revoked it *)
(* or a record it rests on, however the supplier cut or forged what it      *)
(* offered.                                                                 *)
RevocationNotHidden ==
    \A v \in Verifiers : pc[v] # "idle" =>
        \A c \in {claim[v].record} \cup Record[claim[v].record].needs, i \in 1..claim[v].seen :
            Names(ledger[i], c) => ledger[i].effective > claim[v].wall

(* A leased record is judged VALID only in the lease, by real time: neither *)
(* a reboot nor a wall clock set back stretches it.                         *)
LeaseNotStretched ==
    \A v \in Verifiers : pc[v] # "idle" /\ Clocked(claim[v].record) =>
        claim[v].at < Record[claim[v].record].deadline

(* The evaluator and the trigger agree on every record about what was       *)
(* consumed, but for a receipt identity, which only the trigger sees.       *)
GuardAgreesWithEvaluator ==
    \A c \in Contents :
        (Record[c].type \in DOMAIN ConsumedBefore
            /\ Record[c].before = ConsumedBefore[Record[c].type]) =>
        (BindingGuard(c) <=>
            /\ ConsumptionFaults(c) = {}
            /\ \A d \in consumed : Record[d].receipt # Record[c].receipt)
=============================================================================
