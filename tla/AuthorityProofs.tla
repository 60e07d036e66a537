----------------------------- MODULE AuthorityProofs -----------------------------
(***************************************************************************)
(* What a decision rests on when its time has passed, its ledger has grown *)
(* or its launch was revoked: the clock mappings of Clock, the records of  *)
(* Authorization and the launches of Review.                               *)
(***************************************************************************)
EXTENDS Clock, Authorization, Review, SequenceTheorems, WellFoundedInduction, TLAPS

(***************************************************************************)
(* OffsetBounded for every base, resolution, limit and number of restarts.  *)
(* The argument: each timestamp is its clock's true value less at most the  *)
(* resolution (StampRight), they are taken in order, so what the equal      *)
(* boots of an accepted exchange leave is linear arithmetic.                *)
(***************************************************************************)

StampType == [value : Int, boot : 0..MaxBoots, at : Nat]

StampRight(c, t) ==
    /\ t.value <= Base[c][t.boot] + t.at
    /\ Base[c][t.boot] + t.at - Resolution(c) <= t.value

ExchangeRight(s) ==
    /\ s \in Seq(StampType)
    /\ \A i \in DOMAIN s : StampRight(Owner(i), s[i])
    /\ \A i, j \in DOMAIN s : i <= j => s[i].at <= s[j].at

ClockInv ==
    /\ time \in Nat /\ boot \in [Clocks -> 0..MaxBoots]
    /\ ExchangeRight(stamps) /\ Len(stamps) <= 4
    /\ \A i \in DOMAIN stamps : stamps[i].at <= time
    /\ \A r \in rows : ExchangeRight(r.raw) /\ Len(r.raw) = 4

-----------------------------------------------------------------------------
(* The bounds derive_clock_mapping computes from an accepted exchange       *)
(* contain the true offset of the boots its first two timestamps name.      *)
LEMMA ExchangeBounds ==
    ASSUME NEW s, ExchangeRight(s), Len(s) = 4, SameBoots(s)
    PROVE  LET offset == Base["target"][s[2].boot] - Base["source"][s[1].boot]
           IN Lower(s) <= offset /\ offset <= Upper(s)
<1>1. /\ 1 \in DOMAIN s /\ 2 \in DOMAIN s /\ 3 \in DOMAIN s /\ 4 \in DOMAIN s
      /\ s[1] \in StampType /\ s[2] \in StampType
      /\ s[3] \in StampType /\ s[4] \in StampType
  <2>1. s \in Seq(StampType)
    BY DEF ExchangeRight
  <2>2. DOMAIN s = 1..4
    BY <2>1
  <2>3. \A i \in 1..4 : s[i] \in StampType
    BY <2>1, <2>2, ElementOfSeq
  <2> QED  BY <2>2, <2>3
<1>2. /\ StampRight("source", s[1]) /\ StampRight("source", s[4])
      /\ StampRight("target", s[2]) /\ StampRight("target", s[3])
  BY <1>1 DEF ExchangeRight, Owner
<1>3. s[1].at <= s[2].at /\ s[3].at <= s[4].at
  BY <1>1 DEF ExchangeRight
<1>4. \A b \in 0..MaxBoots : Base["source"][b] \in Int /\ Base["target"][b] \in Int
  BY ClockAssumption DEF Clocks
<1> DEFINE S == Base["source"][s[1].boot]
           T == Base["target"][s[2].boot]
<1>5. S \in Int /\ T \in Int
  BY <1>1, <1>4 DEF StampType
<1>6. /\ s[1].value <= S + s[1].at /\ S + s[1].at - Rs <= s[1].value
      /\ s[4].value <= S + s[4].at /\ S + s[4].at - Rs <= s[4].value
      /\ s[2].value <= T + s[2].at /\ T + s[2].at - Rt <= s[2].value
      /\ s[3].value <= T + s[3].at /\ T + s[3].at - Rt <= s[3].value
  BY <1>2 DEF StampRight, Resolution, SameBoots
<1>7. /\ s[1].value \in Int /\ s[1].at \in Nat /\ s[2].value \in Int /\ s[2].at \in Nat
      /\ s[3].value \in Int /\ s[3].at \in Nat /\ s[4].value \in Int /\ s[4].at \in Nat
  BY <1>1 DEF StampType
<1>8. Rs \in Nat /\ Rt \in Nat
  BY ClockAssumption
<1> DEFINE v1 == s[1].value   v2 == s[2].value   v3 == s[3].value   v4 == s[4].value
           a1 == s[1].at      a2 == s[2].at      a3 == s[3].at      a4 == s[4].at
<1>9. /\ v1 \in Int /\ v2 \in Int /\ v3 \in Int /\ v4 \in Int
      /\ a1 \in Nat /\ a2 \in Nat /\ a3 \in Nat /\ a4 \in Nat
      /\ v1 <= S + a1 /\ S + a4 - Rs <= v4 /\ T + a2 - Rt <= v2 /\ v3 <= T + a3
      /\ a1 <= a2 /\ a3 <= a4
  BY <1>3, <1>6, <1>7
<1> HIDE DEF S, T, v1, v2, v3, v4, a1, a2, a3, a4
<1>10. (v3 - v4) - (Rs + Rt) <= T - S /\ T - S <= (v2 - v1) + (Rs + Rt)
  BY <1>5, <1>8, <1>9
<1> QED  BY <1>10 DEF S, T, v1, v2, v3, v4, Lower, Upper, Padding

(* The invariant of the clocks, the exchange under way and the stored rows. *)
LEMMA ClockInvariant == ClockSpec => []ClockInv
<1> USE ClockAssumption
<1>1. ClockInit => ClockInv
  BY DEF ClockInit, ClockInv, ExchangeRight
<1>2. ClockInv /\ [ClockNext]_clockVars => ClockInv'
  <2> SUFFICES ASSUME ClockInv, [ClockNext]_clockVars PROVE ClockInv'
    OBVIOUS
  <2>1. CASE Tick
    <3>1. \A i \in DOMAIN stamps : stamps[i].at \in Nat
      <4>1. stamps \in Seq(StampType) /\ DOMAIN stamps = 1..Len(stamps)
        BY DEF ClockInv, ExchangeRight
      <4>2. \A i \in DOMAIN stamps : stamps[i] \in StampType
        BY <4>1, ElementOfSeq
      <4> QED  BY <4>2 DEF StampType
    <3>2. time' = time + 1 /\ UNCHANGED <<boot, stamps, rows>>
      BY <2>1 DEF Tick
    <3>3. time' \in Nat /\ \A i \in DOMAIN stamps : stamps[i].at <= time'
      BY <3>1, <3>2 DEF ClockInv
    <3> QED  BY <3>2, <3>3 DEF ClockInv, ExchangeRight, StampRight
  <2>2. ASSUME NEW c \in Clocks, Restart(c) PROVE ClockInv'
    BY <2>2 DEF ClockInv, Restart, ExchangeRight
  <2>3. CASE Stamp
    <3> DEFINE c == Owner(Len(stamps) + 1)
               true == Base[c][boot[c]] + time
    <3>1. PICK v \in (true - Resolution(c))..true :
              stamps' = Append(stamps, [value |-> v, boot |-> boot[c], at |-> time])
      BY <2>3 DEF Stamp
    <3>2. /\ c \in Clocks /\ Len(stamps) \in Nat /\ Len(stamps) < 4 /\ time \in Nat
          /\ stamps \in Seq(StampType)
      BY <2>3 DEF Stamp, Owner, Clocks, ClockInv, ExchangeRight
    <3>3. boot[c] \in 0..MaxBoots /\ Base[c][boot[c]] \in Int /\ Resolution(c) \in Nat
      BY <3>2 DEF ClockInv, Resolution
    <3>4. v \in Int /\ v <= true /\ true - Resolution(c) <= v
      BY <3>2, <3>3
    <3> DEFINE t == [value |-> v, boot |-> boot[c], at |-> time]
    <3>5. t \in StampType /\ StampRight(c, t)
      BY <3>2, <3>3, <3>4 DEF StampType, StampRight
    <3>6. /\ Len(stamps') = Len(stamps) + 1 /\ stamps' \in Seq(StampType)
          /\ \A i \in DOMAIN stamps : stamps'[i] = stamps[i]
          /\ stamps'[Len(stamps) + 1] = t
          /\ DOMAIN stamps' = DOMAIN stamps \cup {Len(stamps) + 1}
          /\ DOMAIN stamps = 1..Len(stamps)
      <4> HIDE DEF t
      <4> QED  BY <3>1, <3>2, <3>5 DEF t
    <3>7. \A i \in DOMAIN stamps' : StampRight(Owner(i), stamps'[i])
      <4> SUFFICES ASSUME NEW i \in DOMAIN stamps'
                   PROVE  StampRight(Owner(i), stamps'[i])
        OBVIOUS
      <4>1. CASE i \in DOMAIN stamps
        BY <4>1, <3>6 DEF ClockInv, ExchangeRight
      <4>2. CASE i = Len(stamps) + 1
        BY <4>2, <3>5, <3>6
      <4> QED  BY <4>1, <4>2, <3>6
    <3>8. /\ \A i \in DOMAIN stamps' : stamps'[i].at <= time
          /\ \A i, j \in DOMAIN stamps' : i <= j => stamps'[i].at <= stamps'[j].at
      <4>1. \A i \in DOMAIN stamps : stamps[i].at <= time
        BY DEF ClockInv
      <4>2. t.at = time
        OBVIOUS
      <4>3. \A i \in DOMAIN stamps' : stamps'[i].at <= time
        <5> HIDE DEF t
        <5> QED  BY <4>1, <4>2, <3>2, <3>6
      <4>4. ASSUME NEW i \in DOMAIN stamps', NEW j \in DOMAIN stamps', i <= j
            PROVE  stamps'[i].at <= stamps'[j].at
        <5>1. CASE j = Len(stamps) + 1
          <6> HIDE DEF t
          <6> QED  BY <5>1, <4>2, <4>3, <3>6
        <5>2. CASE j \in DOMAIN stamps
          <6>1. i \in DOMAIN stamps
            <7> HIDE DEF t
            <7> QED  BY <5>2, <4>4, <3>2, <3>6
          <6> QED  BY <6>1, <5>2, <4>4, <3>6 DEF ClockInv, ExchangeRight
        <5> QED  BY <5>1, <5>2, <3>6
      <4> QED  BY <4>3, <4>4
    <3>9. UNCHANGED <<time, boot, rows>>
      BY <2>3 DEF Stamp
    <3>10. ExchangeRight(stamps') /\ Len(stamps') <= 4
      BY <3>2, <3>6, <3>7, <3>8 DEF ExchangeRight
    <3>11. \A r \in rows : ExchangeRight(r.raw) /\ Len(r.raw) = 4
      BY DEF ClockInv
    <3> HIDE DEF t, true, c
    <3> QED  BY <3>8, <3>9, <3>10, <3>11 DEF ClockInv, ExchangeRight, StampRight
  <2>4. CASE Derive
    <3>1. UNCHANGED <<time, boot>> /\ stamps' = << >>
      BY <2>4 DEF Derive
    <3>2. \A r \in rows' : r \in rows \/ r.raw = stamps
      BY <2>4 DEF Derive, RowOf
    <3>3. \A r \in rows' : ExchangeRight(r.raw) /\ Len(r.raw) = 4
      BY <3>2, <2>4 DEF Derive, ClockInv
    <3>4. ExchangeRight(<< >>) /\ Len(<< >>) <= 4 /\ DOMAIN << >> = {}
      BY DEF ExchangeRight
    <3> QED  BY <3>1, <3>3, <3>4 DEF ClockInv, ExchangeRight, StampRight
  <2>5. CASE Alter
    <3>1. UNCHANGED <<time, boot, stamps>>
      BY <2>5 DEF Alter
    <3>2. \A q \in rows' : \E r \in rows : q.raw = r.raw
      <4>1. PICK r \in rows, k \in {-1, 1} :
               rows' = (rows \ {r}) \cup
                  {[r EXCEPT !.lower = @ + k, !.upper = @ + k, !.midpoint = @ + k]}
        BY <2>5, Zenon DEF Alter
      <4> DEFINE q == [r EXCEPT !.lower = @ + k, !.upper = @ + k, !.midpoint = @ + k]
      <4>2. q.raw = r.raw
        OBVIOUS
      <4> HIDE DEF q
      <4> QED  BY <4>1, <4>2, Zenon DEF q
    <3> QED  BY <3>1, <3>2 DEF ClockInv, ExchangeRight, StampRight
  <2>6. CASE Select
    BY <2>6 DEF ClockInv, Select, ExchangeRight, StampRight
  <2>7. ASSUME NEW r \in rows, Close(r.id) PROVE ClockInv'
    BY <2>7 DEF ClockInv, Close, ExchangeRight, StampRight
  <2>8. CASE UNCHANGED clockVars
    BY <2>8 DEF ClockInv, clockVars, ExchangeRight, StampRight
  <2> QED
    BY <2>1, <2>2, <2>3, <2>4, <2>5, <2>6, <2>7, <2>8 DEF ClockNext
<1> QED  BY <1>1, <1>2, PTL DEF ClockSpec

(* A row that survives validate_stored_mapping contains the true offset     *)
(* between the boots it names.                                              *)
THEOREM OffsetTheorem == ClockSpec => []OffsetBounded
<1>1. ClockInv => OffsetBounded
  <2> SUFFICES ASSUME ClockInv, NEW r \in rows, ValidateStoredMapping(r)
               PROVE  r.lower <= Offset(r) /\ Offset(r) <= r.upper
    BY DEF OffsetBounded
  <2>1. DeriveClockMapping(r.raw, "NONE") = "ACCEPT" /\ r = RowOf(r.id, r.raw)
    BY DEF ValidateStoredMapping
  <2>2. SameBoots(r.raw)
    BY <2>1 DEF DeriveClockMapping
  <2>3. r.lower = Lower(r.raw) /\ r.upper = Upper(r.raw)
    BY <2>1 DEF RowOf
  <2>4. ExchangeRight(r.raw) /\ Len(r.raw) = 4
    BY DEF ClockInv
  <2> QED  BY <2>2, <2>3, <2>4, ExchangeBounds DEF Offset
<1> QED  BY <1>1, ClockInvariant, PTL

(* ClockMapper never selects a mapping that was ever closed: the history    *)
(* keeps every closure.                                                     *)
THEOREM ClosedTheorem == ClockSpec => ClosedNeverChosen
<1> DEFINE Kept == history = retired
<1>1. ClockInit => Kept
  BY DEF ClockInit
<1>2. Kept /\ [ClockNext]_clockVars => Kept'
  BY DEF ClockNext, clockVars, Tick, Restart, Stamp, Derive, Alter, Select, Close
<1>3. Kept /\ [ClockNext]_clockVars => [chosen' # chosen => chosen' \notin retired]_clockVars
  BY DEF ClockNext, clockVars, Tick, Restart, Stamp, Derive, Alter, Select, Close
<1> QED  BY <1>1, <1>2, <1>3, PTL DEF ClockSpec, ClosedNeverChosen

(***************************************************************************)
(* For every set of records, number of verifiers and length of the ledger:  *)
(*   ActedOnce            from what the trigger keeps of the table, and the *)
(*                        claims of the verifiers that have consumed;       *)
(*   RevocationNotHidden  from what the required checkpoint leaves of an    *)
(*                        offer: nothing but the ledger itself;             *)
(*   LeaseNotStretched    from the boot the lease names.                    *)
(***************************************************************************)

(* A set of naturals that is not empty has a least element. *)
LEMMA LeastNatural ==
  ASSUME NEW T \in SUBSET Nat, T # {}
  PROVE  \E m \in T : \A y \in T : m <= y
<1>1. \E R : IsWellFoundedOn(R, Nat) /\ \A x, y \in Nat : x < y => <<x, y>> \in R
  <2>1. IsWellFoundedOn(OpToRel(<, Nat), Nat)
    BY NatLessThanWellFounded
  <2>2. \A x, y \in Nat : x < y => <<x, y>> \in OpToRel(<, Nat)
    BY Zenon DEF OpToRel
  <2> QED
    BY <2>1, <2>2, Zenon
<1>2. PICK R : IsWellFoundedOn(R, Nat) /\ \A x, y \in Nat : x < y => <<x, y>> \in R
  BY <1>1
<1>3. IsWellFoundedOn(R, Nat) /\ T \subseteq Nat
  BY <1>2
<1>4. \E m \in T : \A y \in T : ~(<<y, m>> \in R)
  BY <1>3, WFMin, Zenon
<1>5. PICK m \in T : \A y \in T : ~(<<y, m>> \in R)
  BY <1>4
<1>6. \A y \in T : ~(y < m)
  BY <1>2, <1>5
<1> QED
  BY <1>6


(* The claims of the verifiers. *)
ClaimsTyped ==
    /\ pc \in [Verifiers -> {"idle", "valid", "consumed"}]
    /\ DOMAIN claim = Verifiers
    /\ \A v \in Verifiers : pc[v] # "idle" => claim[v].record \in Contents

Apart(c, d) ==
    /\ Record[c].receipt # Record[d].receipt
    /\ ~SameSerial(c, d) /\ ~SameNonce(c, d)

(* What the trigger keeps: the rows are apart, every act rests on a row, and *)
(* a verifier that consumed holds a row of its own nobody acted on.          *)
ConsumptionInv ==
    /\ ClaimsTyped
    /\ consumed \subseteq Contents
    /\ \A c, d \in consumed : c # d => Apart(c, d)
    /\ acts \in [Contents -> Nat]
    /\ \A c \in Contents : acts[c] <= 1 /\ (acts[c] > 0 => c \in consumed)
    /\ \A v \in Verifiers : pc[v] = "consumed" =>
          claim[v].record \in consumed /\ acts[claim[v].record] = 0
    /\ \A v, w \in Verifiers : v # w /\ pc[v] = "consumed" /\ pc[w] = "consumed" =>
          claim[v].record # claim[w].record

LEMMA ConsumptionInvariant == AuthSpec => []ConsumptionInv
<1>1. AuthInit => ConsumptionInv
  BY DEF AuthInit, ConsumptionInv, ClaimsTyped
<1>2. ConsumptionInv /\ [AuthNext]_authVars => ConsumptionInv'
  <2> SUFFICES ASSUME ConsumptionInv, [AuthNext]_authVars PROVE ConsumptionInv'
    OBVIOUS
  <2> USE DEF ConsumptionInv, ClaimsTyped
  <2>1. ASSUME NEW v \in Verifiers, NEW c \in Contents, Judge(v, c) PROVE ConsumptionInv'
    <3>1. /\ pc[v] = "idle" /\ UNCHANGED <<consumed, acts>>
          /\ pc' = [pc EXCEPT ![v] = "valid"]
          /\ claim' = [claim EXCEPT ![v] =
                [record |-> c, at |-> now, wall |-> Wall, seen |-> Len(ledger)]]
      BY <2>1 DEF Judge
    <3>2. /\ ClaimsTyped'
          /\ \A w \in Verifiers : pc'[w] = "consumed" =>
                pc[w] = "consumed" /\ claim'[w] = claim[w]
      BY <3>1
    <3> QED  BY <3>1, <3>2 DEF Apart, SameSerial, SameNonce
  <2>2. ASSUME NEW v \in Verifiers, Consume(v) PROVE ConsumptionInv'
    <3>1. CASE BindingGuard(claim[v].record)
      <4>1. /\ pc[v] = "valid" /\ UNCHANGED <<acts, claim>>
            /\ pc' = [pc EXCEPT ![v] = "consumed"]
            /\ consumed' = consumed \cup {claim[v].record}
        BY <2>2, <3>1 DEF Consume
      <4>2. claim[v].record \in Contents
        BY <4>1
      <4>3. \A d \in consumed : d # claim[v].record /\ Apart(claim[v].record, d)
                                /\ Apart(d, claim[v].record)
        BY <3>1 DEF BindingGuard, Apart, SameSerial, SameNonce
      <4>4. acts[claim[v].record] = 0
        BY <4>2, <4>3
      <4>5. \A c, d \in consumed' : c # d => Apart(c, d)
        BY <4>1, <4>3
      <4>6. \A w \in Verifiers : pc'[w] = "consumed" => w = v \/ pc[w] = "consumed"
        BY <4>1
      <4>7. ClaimsTyped' /\ consumed' \subseteq Contents
        BY <4>1, <4>2
      <4>8. \A u, w \in Verifiers : u # w /\ pc'[u] = "consumed" /\ pc'[w] = "consumed" =>
                claim'[u].record # claim'[w].record
        BY <4>1, <4>3, <4>6
      <4> QED  BY <4>1, <4>2, <4>4, <4>5, <4>6, <4>7, <4>8 DEF Apart, SameSerial, SameNonce
    <3>2. CASE ~BindingGuard(claim[v].record)
      <4>1. /\ UNCHANGED <<consumed, acts>>
            /\ pc' = [pc EXCEPT ![v] = "idle"] /\ claim' = [claim EXCEPT ![v] = NoClaim]
        BY <2>2, <3>2 DEF Consume
      <4> QED  BY <4>1 DEF Apart, SameSerial, SameNonce
    <3> QED  BY <3>1, <3>2
  <2>3. ASSUME NEW v \in Verifiers, Act(v) PROVE ConsumptionInv'
    <3>1. /\ pc[v] = "consumed" /\ acts' = [acts EXCEPT ![claim[v].record] = @ + 1]
          /\ pc' = [pc EXCEPT ![v] = "idle"] /\ claim' = [claim EXCEPT ![v] = NoClaim]
          /\ UNCHANGED consumed
      BY <2>3 DEF Act
    <3>2. /\ claim[v].record \in consumed /\ acts[claim[v].record] = 0
          /\ claim[v].record \in Contents
      BY <3>1
    <3>3. \A w \in Verifiers : pc'[w] = "consumed" =>
              /\ w # v /\ pc[w] = "consumed" /\ claim'[w] = claim[w]
              /\ claim[w].record # claim[v].record
      BY <3>1
    <3>4. acts' \in [Contents -> Nat]
      BY <3>1, <3>2
    <3>5. \A c \in Contents : acts'[c] <= 1 /\ (acts'[c] > 0 => c \in consumed)
      BY <3>1, <3>2
    <3>6. \A w \in Verifiers : pc'[w] = "consumed" =>
              claim'[w].record \in consumed /\ acts'[claim'[w].record] = 0
      BY <3>1, <3>2, <3>3
    <3>7. ClaimsTyped'
      BY <3>1
    <3>8. \A u, w \in Verifiers : u # w /\ pc'[u] = "consumed" /\ pc'[w] = "consumed" =>
              claim'[u].record # claim'[w].record
      BY <3>3
    <3> QED  BY <3>1, <3>4, <3>5, <3>6, <3>7, <3>8 DEF Apart, SameSerial, SameNonce
  <2>4. ASSUME NEW v \in Verifiers, Die(v) PROVE ConsumptionInv'
    <3>1. /\ pc' = [pc EXCEPT ![v] = "idle"] /\ claim' = [claim EXCEPT ![v] = NoClaim]
          /\ UNCHANGED <<consumed, acts>>
      BY <2>4 DEF Die
    <3> QED  BY <3>1 DEF Apart, SameSerial, SameNonce
  <2>5. CASE Reboot
    <3>1. /\ pc' = [v \in Verifiers |-> "idle"] /\ claim' = [v \in Verifiers |-> NoClaim]
          /\ UNCHANGED <<consumed, acts>>
      BY <2>5 DEF Reboot
    <3> QED  BY <3>1 DEF Apart, SameSerial, SameNonce
  <2>6. CASE UNCHANGED <<consumed, pc, claim, acts>>
    BY <2>6 DEF Apart, SameSerial, SameNonce
  <2> QED
    BY <2>1, <2>2, <2>3, <2>4, <2>5, <2>6
       DEF AuthNext, Revoke, TimePasses, WallRollback, authVars
<1> QED  BY <1>1, <1>2, PTL DEF AuthSpec

(* No two acts rest on the same record, identity, nonce or receipt, however *)
(* many verifiers judged them VALID at once.                                *)
THEOREM ActedOnceTheorem == AuthSpec => []ActedOnce
<1>1. ConsumptionInv => ActedOnce
  BY DEF ConsumptionInv, ActedOnce, Apart
<1> QED  BY <1>1, ConsumptionInvariant, PTL

-----------------------------------------------------------------------------
(* What VALID means: the precedence picks a failure whenever there is one.  *)
LEMMA PrecedenceNames ==
    ASSUME NEW c \in Contents, NEW offered, NEW detected, NEW available
    PROVE  \A f \in Faults(c, offered, detected, available) :
               \E i \in 1..18 : FailurePrecedence[i] = f
<1>1. /\ FailurePrecedence[2] = "UNTRUSTED_KEY_ID" /\ FailurePrecedence[9] = "REVOKED"
      /\ FailurePrecedence[10] = "CLOCK_UNTRUSTED" /\ FailurePrecedence[11] = "NOT_YET_VALID"
      /\ FailurePrecedence[12] = "EXPIRED"
      /\ FailurePrecedence[13] = "PREREQUISITE_GATE_INVALID"
      /\ FailurePrecedence[14] = "SCOPE_BINDING_MISMATCH"
      /\ FailurePrecedence[15] = "CONSUMPTION_STORE_UNAVAILABLE"
      /\ FailurePrecedence[16] = "ALREADY_CONSUMED"
      /\ FailurePrecedence[17] = "SERIAL_CONFLICT"
      /\ FailurePrecedence[18] = "LOCAL_STATE_CONFLICT"
  BY DEF FailurePrecedence
<1>2. Record[c].flaw \in Flaws \cup {"NONE"}
  BY AuthorizationAssumption DEF RecordType
<1>3. \A f \in {Record[c].flaw} \ {"NONE"} : \E i \in 1..18 : FailurePrecedence[i] = f
  BY <1>2 DEF Flaws
<1>4. \A f \in ClockFaults(c, detected) : f \in {"CLOCK_UNTRUSTED", "NOT_YET_VALID", "EXPIRED"}
  BY DEF ClockFaults
<1>5. \A f \in ConsumptionFaults(c) :
          f \in {"ALREADY_CONSUMED", "SERIAL_CONFLICT", "LOCAL_STATE_CONFLICT"}
  BY DEF ConsumptionFaults
<1>6. \A f \in Faults(c, offered, detected, available) :
          \/ f \in {Record[c].flaw} \ {"NONE"} \/ f \in ClockFaults(c, detected)
          \/ f \in ConsumptionFaults(c)
          \/ f \in {"UNTRUSTED_KEY_ID", "REVOKED", "LOCAL_STATE_CONFLICT",
                    "PREREQUISITE_GATE_INVALID", "SCOPE_BINDING_MISMATCH",
                    "CONSUMPTION_STORE_UNAVAILABLE"}
  BY DEF Faults, PrerequisiteFaults, ScopeFaults
<1> QED  BY <1>1, <1>3, <1>4, <1>5, <1>6, SMTT(30)

LEMMA ValidIsFaultless ==
    ASSUME NEW c \in Contents, NEW offered, NEW detected, NEW available,
           Evaluate(c, offered, detected, available) = "VALID"
    PROVE  Faults(c, offered, detected, available) = {}
<1> DEFINE faults == Faults(c, offered, detected, available)
           found == {i \in DOMAIN FailurePrecedence : FailurePrecedence[i] \in faults}
           first == CHOOSE i \in found : \A j \in found : i <= j
<1> SUFFICES ASSUME faults # {} PROVE FALSE
  OBVIOUS
<1>1. DOMAIN FailurePrecedence = 1..18
  BY DEF FailurePrecedence
<1>2. found # {} /\ found \subseteq Nat
  BY <1>1, PrecedenceNames
<1>3. \E i \in found : \A j \in found : i <= j
  BY <1>2, LeastNatural
<1>4. first \in found
  BY <1>3
<1>5. FailurePrecedence[first] # "VALID"
  <2>1. /\ FailurePrecedence[1] # "VALID" /\ FailurePrecedence[2] # "VALID"
        /\ FailurePrecedence[3] # "VALID" /\ FailurePrecedence[4] # "VALID"
        /\ FailurePrecedence[5] # "VALID" /\ FailurePrecedence[6] # "VALID"
        /\ FailurePrecedence[7] # "VALID" /\ FailurePrecedence[8] # "VALID"
        /\ FailurePrecedence[9] # "VALID" /\ FailurePrecedence[10] # "VALID"
        /\ FailurePrecedence[11] # "VALID" /\ FailurePrecedence[12] # "VALID"
        /\ FailurePrecedence[13] # "VALID" /\ FailurePrecedence[14] # "VALID"
        /\ FailurePrecedence[15] # "VALID" /\ FailurePrecedence[16] # "VALID"
        /\ FailurePrecedence[17] # "VALID" /\ FailurePrecedence[18] # "VALID"
    BY DEF FailurePrecedence
  <2>2. first \in 1..18
    BY <1>1, <1>4
  <2> HIDE DEF first
  <2>3. \/ first \in {1, 2, 3, 4, 5, 6} \/ first \in {7, 8, 9, 10, 11, 12}
        \/ first \in {13, 14, 15, 16, 17, 18}
    BY <2>2
  <2> QED  BY <2>1, <2>3
<1>6. Evaluate(c, offered, detected, available) = FailurePrecedence[first]
  BY DEF Evaluate
<1> QED  BY <1>5, <1>6

-----------------------------------------------------------------------------
(* The ledger is a chain of signed entries. *)
EntryType == [sequence : Nat, target : Revocable, effective : Nat, build : {"this", "other"},
              signed : {TRUE}]
LedgerInv ==
    /\ ledger \in Seq(EntryType)
    /\ \A i \in DOMAIN ledger : ledger[i].sequence = i

(* An offer that meets the required checkpoint is the ledger.               *)
LEMMA OfferIsLedger ==
    ASSUME LedgerInv, NEW offered \in Offers, CheckpointMet(offered)
    PROVE  offered = ledger
<1>1. /\ ledger \in Seq(EntryType) /\ Len(ledger) \in Nat /\ DOMAIN ledger = 1..Len(ledger)
      /\ Len(offered) = Len(ledger) /\ ChainHolds(offered)
      /\ \A i \in 1..Len(ledger) : ledger[i].sequence = i
  BY DEF CheckpointMet, LedgerInv
<1>2. \A i \in 1..Len(ledger) : ledger[i] \in EntryType
  BY <1>1, ElementOfSeq
<1>3. ASSUME NEW k \in 0..Len(ledger), offered = SubSeq(ledger, 1, k) PROVE offered = ledger
  <2>1. Len(SubSeq(ledger, 1, k)) = k
    BY <1>1, <1>2, SubSeqProperties
  <2>2. k = Len(ledger)
    BY <1>1, <1>3, <2>1
  <2> QED  BY <1>1, <1>3, <2>2, SubSeqFull
<1>4. ASSUME NEW i \in 1..Len(ledger),
             offered = SubSeq(ledger, 1, i - 1) \o SubSeq(ledger, i + 1, Len(ledger))
      PROVE  FALSE
  <2> DEFINE left == SubSeq(ledger, 1, i - 1)
             right == SubSeq(ledger, i + 1, Len(ledger))
  <2>1. left \in Seq(EntryType) /\ Len(left) = i - 1
    BY <1>1, <1>2, SubSeqProperties
  <2>2. right \in Seq(EntryType) /\ Len(right) = Len(ledger) - i
    <3>1. i + 1 \in Int /\ \A j \in (i + 1)..Len(ledger) : ledger[j] \in EntryType
      BY <1>1, <1>2
    <3>2. /\ right \in Seq(EntryType)
          /\ Len(right) = IF i + 1 <= Len(ledger) THEN Len(ledger) - (i + 1) + 1 ELSE 0
      BY <3>1, <1>1, SubSeqProperties
    <3> HIDE DEF right
    <3>3. CASE i + 1 <= Len(ledger)
      BY <3>2, <3>3, <1>1
    <3>4. CASE i = Len(ledger)
      BY <3>2, <3>4, <1>1
    <3>5. i + 1 <= Len(ledger) \/ i = Len(ledger)
      <4>1. \A n \in Nat : \A k \in 1..n : k + 1 <= n \/ k = n
        OBVIOUS
      <4> QED
        BY <1>1, <4>1
    <3> QED  BY <3>3, <3>4, <3>5
  <2> HIDE DEF left, right
  <2>3. Len(left \o right) = Len(left) + Len(right)
    BY <2>1, <2>2, ConcatProperties
  <2>4. offered = left \o right
    BY <1>4 DEF left, right
  <2> QED  BY <1>1, <2>1, <2>2, <2>3, <2>4
<1>5. ASSUME NEW i \in 1..Len(ledger), offered = [ledger EXCEPT ![i] = Forged(ledger[i])] PROVE FALSE
  <2>1. i \in DOMAIN offered /\ offered[i] = Forged(ledger[i])
    BY <1>1, <1>5
  <2>2. offered[i].signed = FALSE
    BY <1>2, <2>1 DEF Forged, EntryType
  <2> QED  BY <2>1, <2>2, <1>1 DEF ChainHolds
<1>6. ASSUME NEW i \in 1..Len(ledger), NEW j \in 1..Len(ledger),
             offered = [ledger EXCEPT ![i] = ledger[j]]
      PROVE  offered = ledger
  <2>1. i \in DOMAIN offered /\ offered[i] = ledger[j]
    BY <1>1, <1>6
  <2>2. ledger[j].sequence = i
    BY <1>1, <2>1 DEF ChainHolds
  <2>3. i = j
    BY <1>1, <2>2
  <2> QED  BY <1>1, <1>6, <2>3
<1>7. CASE offered \in Prefixes
  BY <1>3, <1>7 DEF Prefixes
<1>8. CASE offered \in Gaps
  <2>1. PICK i \in DOMAIN ledger :
            offered = SubSeq(ledger, 1, i - 1) \o SubSeq(ledger, i + 1, Len(ledger))
    BY <1>8 DEF Gaps
  <2> QED  BY <1>1, <1>4, <2>1
<1>9. CASE offered \in Forgeries
  BY <1>1, <1>5, <1>9 DEF Forgeries
<1>10. CASE offered \in Repetitions
  BY <1>1, <1>6, <1>10 DEF Repetitions
<1> QED  BY <1>7, <1>8, <1>9, <1>10 DEF Offers

-----------------------------------------------------------------------------
(* No entry of the ledger a verifier judged by revokes its record or one    *)
(* the record rests on.                                                     *)
Unrevoked(c, n, wall) ==
    \A d \in {c} \cup Record[c].needs, i \in 1..n :
        Names(ledger[i], d) => ledger[i].effective > wall

RevocationInv ==
    /\ LedgerInv /\ ClaimsTyped
    /\ now \in Nat /\ skew \in Nat
    /\ \A v \in Verifiers : pc[v] # "idle" =>
          /\ claim[v].seen \in 0..Len(ledger)
          /\ Unrevoked(claim[v].record, claim[v].seen, claim[v].wall)

LEMMA ValidIsUnrevoked ==
    ASSUME LedgerInv, now \in Nat, skew \in Nat, NEW c \in Contents,
           "VALID" \in {Evaluate(c, offered, detected, available) :
                         offered \in Offers, detected \in BOOLEAN, available \in BOOLEAN}
    PROVE  Unrevoked(c, Len(ledger), Wall)
<1>1. PICK offered \in Offers, detected \in BOOLEAN, available \in BOOLEAN :
          Evaluate(c, offered, detected, available) = "VALID"
  OBVIOUS
<1>2. Faults(c, offered, detected, available) = {}
  BY <1>1, ValidIsFaultless
<1>3. CheckpointMet(offered)
  <2>1. "LOCAL_STATE_CONFLICT" \notin Faults(c, offered, detected, available)
    BY <1>2
  <2> QED  BY <2>1 DEF Faults
<1>4. offered = ledger
  BY <1>3, OfferIsLedger
<1>5. ~IsRevoked(c, ledger)
  <2>1. "REVOKED" \notin Faults(c, offered, detected, available)
    BY <1>2
  <2> QED  BY <2>1, <1>3, <1>4 DEF Faults
<1>6. ASSUME NEW d \in Record[c].needs PROVE ~IsRevoked(d, ledger)
  <2>1. \/ Record[c].type = "DiscoveryRunAuthorization"
        \/ Record[c].type = "ProviderCallAuthorization"
    BY <1>6, AuthorizationAssumption DEF Clocked
  <2>2. /\ "PREREQUISITE_GATE_INVALID" \notin Faults(c, offered, detected, available)
        /\ "SCOPE_BINDING_MISMATCH" \notin Faults(c, offered, detected, available)
    BY <1>2
  <2>3. ~(\E e \in Record[c].needs : ~Supports(e, offered))
    BY <2>1, <2>2 DEF Faults, PrerequisiteFaults, ScopeFaults
  <2> QED  BY <2>3, <1>4 DEF Supports
<1>7. \A i \in 1..Len(ledger) : ledger[i].effective \in Nat
  <2>1. \A i \in 1..Len(ledger) : ledger[i] \in EntryType
    BY ElementOfSeq DEF LedgerInv
  <2> QED  BY <2>1 DEF EntryType
<1>8. DOMAIN ledger = 1..Len(ledger) /\ Wall \in Int
  BY DEF LedgerInv, Wall
<1> QED  BY <1>5, <1>6, <1>7, <1>8 DEF Unrevoked, IsRevoked

LEMMA RevocationInvariant == AuthSpec => []RevocationInv
<1>1. AuthInit => RevocationInv
  <2> SUFFICES ASSUME AuthInit PROVE RevocationInv
    OBVIOUS
  <2>1. << >> \in Seq(EntryType) /\ DOMAIN << >> = {}
    OBVIOUS
  <2> QED  BY <2>1 DEF AuthInit, RevocationInv, LedgerInv, ClaimsTyped
<1>2. RevocationInv /\ [AuthNext]_authVars => RevocationInv'
  <2> SUFFICES ASSUME RevocationInv, [AuthNext]_authVars PROVE RevocationInv'
    OBVIOUS
  <2>1. ASSUME NEW v \in Verifiers, NEW c \in Contents, Judge(v, c) PROVE RevocationInv'
    <3>1. /\ pc' = [pc EXCEPT ![v] = "valid"]
          /\ claim' = [claim EXCEPT ![v] =
                [record |-> c, at |-> now, wall |-> Wall, seen |-> Len(ledger)]]
          /\ UNCHANGED <<now, skew, ledger>>
      BY <2>1 DEF Judge
    <3>2. Unrevoked(c, Len(ledger), Wall)
      BY <2>1, ValidIsUnrevoked DEF Judge, RevocationInv
    <3>3. /\ ClaimsTyped' /\ LedgerInv' /\ Len(ledger) \in Nat
          /\ now' \in Nat /\ skew' \in Nat
      BY <3>1 DEF RevocationInv, ClaimsTyped, LedgerInv
    <3>4. ASSUME NEW w \in Verifiers, pc'[w] # "idle"
          PROVE  /\ claim'[w].seen \in 0..Len(ledger)
                 /\ Unrevoked(claim'[w].record, claim'[w].seen, claim'[w].wall)
      <4>1. CASE w = v
        <5>1. /\ claim'[v].record = c /\ claim'[v].wall = Wall
              /\ claim'[v].seen = Len(ledger)
          BY <3>1 DEF RevocationInv, ClaimsTyped
        <5> QED  BY <4>1, <5>1, <3>2, <3>3
      <4>2. CASE w # v
        BY <4>2, <3>1, <3>4 DEF RevocationInv, ClaimsTyped
      <4> QED  BY <4>1, <4>2
    <3> QED  BY <3>1, <3>3, <3>4 DEF RevocationInv, Unrevoked
  <2>2. ASSUME NEW v \in Verifiers, Consume(v) \/ Act(v) \/ Die(v) PROVE RevocationInv'
    <3>1. /\ pc[v] # "idle" /\ UNCHANGED <<now, skew, ledger>>
          /\ \/ pc' = [pc EXCEPT ![v] = "consumed"] /\ UNCHANGED claim
             \/ pc' = [pc EXCEPT ![v] = "idle"] /\ claim' = [claim EXCEPT ![v] = NoClaim]
      BY <2>2 DEF Consume, Act, Die
    <3>2. /\ ClaimsTyped' /\ LedgerInv' /\ now' \in Nat /\ skew' \in Nat
      BY <3>1 DEF RevocationInv, ClaimsTyped, LedgerInv
    <3>3. ASSUME NEW w \in Verifiers, pc'[w] # "idle"
          PROVE  pc[w] # "idle" /\ claim'[w] = claim[w]
      BY <3>1, <3>3 DEF RevocationInv, ClaimsTyped
    <3> QED  BY <3>1, <3>2, <3>3 DEF RevocationInv, Unrevoked
  <2>3. CASE Reboot
    <3>1. /\ pc' = [v \in Verifiers |-> "idle"] /\ claim' = [v \in Verifiers |-> NoClaim]
          /\ UNCHANGED <<now, skew, ledger>>
      BY <2>3 DEF Reboot
    <3> QED  BY <3>1 DEF RevocationInv, ClaimsTyped, LedgerInv
  <2>4. CASE Revoke
    <3>1. PICK target \in Revocable, effective \in Effectives, build \in {"this", "other"},
               sequence \in 1..MaxRevocations, head \in 0..MaxRevocations :
             /\ RevocationChainGuard(sequence, head)
             /\ ledger' = Append(ledger, [sequence |-> sequence, target |-> target,
                                          effective |-> effective, build |-> build,
                                          signed |-> TRUE])
      BY <2>4 DEF Revoke
    <3> DEFINE entry == [sequence |-> sequence, target |-> target, effective |-> effective,
                         build |-> build, signed |-> TRUE]
    <3>2. UNCHANGED <<now, skew, pc, claim>>
      BY <2>4 DEF Revoke
    <3>3. /\ ledger \in Seq(EntryType) /\ Len(ledger) \in Nat /\ DOMAIN ledger = 1..Len(ledger)
          /\ \A i \in 1..Len(ledger) : ledger[i].sequence = i
      BY DEF RevocationInv, LedgerInv
    <3>4. sequence = Len(ledger) + 1
      <4>1. sequence \in Nat /\ sequence >= 1 /\ head \in Int
        BY AuthorizationAssumption
      <4>2. CASE sequence = 1
        BY <3>1, <4>2 DEF RevocationChainGuard
      <4>3. CASE sequence > 1
        <5>1. sequence - 1 <= Len(ledger)
          BY <3>1, <4>3 DEF RevocationChainGuard
        <5>2. ~(sequence \in 1..Len(ledger))
          BY <3>1, <3>3 DEF RevocationChainGuard
        <5> QED  BY <3>3, <4>1, <5>1, <5>2
      <4> QED  BY <4>1, <4>2, <4>3
    <3>5. entry \in EntryType
      BY <3>3, <3>4, AuthorizationAssumption DEF EntryType
    <3>6. entry.sequence = Len(ledger) + 1
      BY <3>4
    <3> HIDE DEF entry
    <3>7. /\ ledger' \in Seq(EntryType) /\ Len(ledger') = Len(ledger) + 1
          /\ \A i \in 1..Len(ledger) : ledger'[i] = ledger[i]
          /\ ledger'[Len(ledger) + 1] = entry
      BY <3>1, <3>3, <3>5, AppendProperties DEF entry
    <3>8. LedgerInv'
      BY <3>3, <3>6, <3>7 DEF LedgerInv
    <3>9. ASSUME NEW v \in Verifiers, pc'[v] # "idle"
          PROVE  /\ claim'[v].seen \in 0..Len(ledger')
                 /\ Unrevoked(claim[v].record, claim[v].seen, claim[v].wall)'
      <4>1. /\ claim[v].seen \in 0..Len(ledger) /\ claim' = claim
            /\ Unrevoked(claim[v].record, claim[v].seen, claim[v].wall)
        BY <3>2, <3>9 DEF RevocationInv
      <4>2. \A i \in 1..claim[v].seen : ledger'[i] = ledger[i]
        BY <3>3, <3>7, <4>1
      <4>3. claim'[v].seen \in 0..Len(ledger')
        BY <3>3, <3>7, <4>1
      <4>4. ASSUME NEW d \in {claim[v].record} \cup Record[claim[v].record].needs,
                   NEW i \in 1..claim[v].seen
            PROVE  Names(ledger'[i], d) => ledger'[i].effective > claim[v].wall
        <5>1. Names(ledger[i], d) => ledger[i].effective > claim[v].wall
          BY <4>1 DEF Unrevoked
        <5> QED  BY <5>1, <4>2
      <4>5. Unrevoked(claim[v].record, claim[v].seen, claim[v].wall)'
        BY <4>1, <4>4 DEF Unrevoked, Names
      <4> QED  BY <4>3, <4>5
    <3> QED  BY <3>2, <3>8, <3>9 DEF RevocationInv, ClaimsTyped
  <2>5. CASE TimePasses \/ WallRollback
    <3>1. UNCHANGED <<ledger, pc, claim>> /\ now' \in Nat /\ skew' \in Nat
      BY <2>5 DEF TimePasses, WallRollback, RevocationInv
    <3> QED  BY <3>1 DEF RevocationInv, ClaimsTyped, LedgerInv, Unrevoked
  <2>6. CASE UNCHANGED authVars
    BY <2>6 DEF RevocationInv, ClaimsTyped, LedgerInv, Unrevoked, authVars
  <2> QED
    BY <2>1, <2>2, <2>3, <2>4, <2>5, <2>6 DEF AuthNext
<1> QED  BY <1>1, <1>2, PTL DEF AuthSpec

(* A record is never judged VALID against the ledger of the moment, however *)
(* long the ledger is and whatever is offered in its place.                 *)
THEOREM RevocationTheorem == AuthSpec => []RevocationNotHidden
<1>1. RevocationInv => RevocationNotHidden
  BY DEF RevocationInv, RevocationNotHidden, Unrevoked
<1> QED  BY <1>1, RevocationInvariant, PTL

-----------------------------------------------------------------------------
(* A verifier judged a leased record while the lease ran.                   *)
LeaseInv ==
    /\ ClaimsTyped
    /\ now \in Nat /\ boots \in Nat /\ (boots = 0 => bootedAt = 0)
    /\ LeaseNotStretched

LEMMA ValidIsLeased ==
    ASSUME now \in Nat, boots \in Nat, boots = 0 => bootedAt = 0,
           NEW c \in Contents, Clocked(c),
           "VALID" \in {Evaluate(c, offered, detected, available) :
                         offered \in Offers, detected \in BOOLEAN, available \in BOOLEAN}
    PROVE  now < Record[c].deadline
<1>1. PICK offered \in Offers, detected \in BOOLEAN, available \in BOOLEAN :
          Evaluate(c, offered, detected, available) = "VALID"
  OBVIOUS
<1>2. Faults(c, offered, detected, available) = {}
  BY <1>1, ValidIsFaultless
<1>3. ClockFaults(c, detected) = {}
  BY <1>2 DEF Faults
<1>4. SameBoot
  <2>1. "CLOCK_UNTRUSTED" \notin ClockFaults(c, detected)
    BY <1>3
  <2> QED  BY <2>1 DEF ClockFaults
<1>5. ~detected
  <2>1. "CLOCK_UNTRUSTED" \notin ClockFaults(c, detected)
    BY <1>3
  <2> QED  BY <2>1 DEF ClockFaults
<1>6. ~(Mono >= Record[c].deadline)
  <2>1. "EXPIRED" \notin ClockFaults(c, detected)
    BY <1>3
  <2> QED  BY <2>1, <1>4, <1>5 DEF ClockFaults
<1>7. Record[c].deadline \in Nat
  BY AuthorizationAssumption DEF RecordType
<1>8. Mono = now
  BY <1>4 DEF SameBoot, Mono
<1> QED  BY <1>6, <1>7, <1>8

(* A reboot or a wall clock set back never stretches a lease.               *)
THEOREM LeaseTheorem == AuthSpec => []LeaseNotStretched
<1>1. AuthInit => LeaseInv
  BY DEF AuthInit, LeaseInv, ClaimsTyped, LeaseNotStretched
<1>2. LeaseInv /\ [AuthNext]_authVars => LeaseInv'
  <2> SUFFICES ASSUME LeaseInv, [AuthNext]_authVars PROVE LeaseInv'
    OBVIOUS
  <2> USE DEF LeaseInv, ClaimsTyped, LeaseNotStretched
  <2>1. ASSUME NEW v \in Verifiers, NEW c \in Contents, Judge(v, c) PROVE LeaseInv'
    <3>1. /\ pc' = [pc EXCEPT ![v] = "valid"]
          /\ claim' = [claim EXCEPT ![v] =
                [record |-> c, at |-> now, wall |-> Wall, seen |-> Len(ledger)]]
          /\ UNCHANGED <<now, boots, bootedAt>>
      BY <2>1 DEF Judge
    <3>2. Clocked(c) => now < Record[c].deadline
      BY <2>1, ValidIsLeased DEF Judge
    <3>3. claim'[v].record = c /\ claim'[v].at = now
      BY <3>1
    <3>4. \A w \in Verifiers \ {v} : claim'[w] = claim[w] /\ pc'[w] = pc[w]
      BY <3>1
    <3>5. ClaimsTyped'
      BY <3>1
    <3>6. LeaseNotStretched'
      BY <3>2, <3>3, <3>4 DEF Clocked
    <3> QED  BY <3>1, <3>5, <3>6
  <2>2. ASSUME NEW v \in Verifiers, Consume(v) \/ Act(v) \/ Die(v) PROVE LeaseInv'
    <3>1. /\ pc[v] # "idle" /\ UNCHANGED <<now, boots, bootedAt>>
          /\ \/ pc' = [pc EXCEPT ![v] = "consumed"] /\ UNCHANGED claim
             \/ pc' = [pc EXCEPT ![v] = "idle"] /\ claim' = [claim EXCEPT ![v] = NoClaim]
      BY <2>2 DEF Consume, Act, Die
    <3> QED  BY <3>1 DEF Clocked
  <2>3. CASE Reboot
    <3>1. /\ pc' = [v \in Verifiers |-> "idle"] /\ claim' = [v \in Verifiers |-> NoClaim]
          /\ boots' = boots + 1 /\ UNCHANGED now
      BY <2>3 DEF Reboot
    <3> QED  BY <3>1
  <2>4. CASE Revoke \/ WallRollback \/ UNCHANGED authVars
    BY <2>4 DEF Revoke, WallRollback, authVars, Clocked
  <2>5. CASE TimePasses
    BY <2>5 DEF TimePasses, Clocked
  <2> QED
    BY <2>1, <2>2, <2>3, <2>4, <2>5 DEF AuthNext
<1>3. LeaseInv => LeaseNotStretched
  BY DEF LeaseInv
<1> QED  BY <1>1, <1>2, <1>3, PTL DEF AuthSpec

-----------------------------------------------------------------------------
(* The evaluator and the trigger agree in every state: a replay is a serial *)
(* that was consumed, and only a receipt identity escapes the evaluator.    *)
THEOREM GuardTheorem == AuthSpec => []GuardAgreesWithEvaluator
<1>1. GuardAgreesWithEvaluator
  <2> SUFFICES ASSUME NEW c \in Contents,
                      Record[c].type \in DOMAIN ConsumedBefore,
                      Record[c].before = ConsumedBefore[Record[c].type]
               PROVE  BindingGuard(c) <=>
                        /\ ConsumptionFaults(c) = {}
                        /\ \A d \in consumed : Record[d].receipt # Record[c].receipt
    BY DEF GuardAgreesWithEvaluator
  <2>1. ConsumptionFaults(c) = {} <=>
          /\ c \notin consumed
          /\ \A d \in consumed \ {c} : ~SameSerial(c, d) /\ ~SameNonce(c, d)
    <3>1. "ALREADY_CONSUMED" \in ConsumptionFaults(c) <=> c \in consumed
      BY DEF ConsumptionFaults
    <3>2. "SERIAL_CONFLICT" \in ConsumptionFaults(c)
            <=> \E d \in consumed \ {c} : SameSerial(c, d)
      BY DEF ConsumptionFaults
    <3>3. "LOCAL_STATE_CONFLICT" \in ConsumptionFaults(c)
            <=> \E d \in consumed \ {c} : SameNonce(c, d)
      BY DEF ConsumptionFaults
    <3>4. ConsumptionFaults(c) \subseteq
            {"ALREADY_CONSUMED", "SERIAL_CONFLICT", "LOCAL_STATE_CONFLICT"}
      BY DEF ConsumptionFaults
    <3> QED  BY <3>1, <3>2, <3>3, <3>4
  <2> QED  BY <2>1 DEF BindingGuard
<1> QED  BY <1>1, PTL

-----------------------------------------------------------------------------
(* The launch of a review.                                                 *)

Launches == [role : Roles, inputs : Inputs, at : Nat, boot : Nat]
Brokers  == [status : {"none", "up", "dead", "done"}, auth : Auths \cup {None},
             seq : Nat, busy : Procs \cup {None}, junk : BOOLEAN]
Attests  == [auth : Auths, finishedAt : Nat \cup {None}, fresh : BOOLEAN]
Results  == [run : Auths, outcome : Outcomes]
Receipts == [auth : Auths, workspace : Attests, result : Results]

BootSteps == {"b_private", "b_public", "b_state"}
PrepSteps == {"p_consume", "p_recheck", "p_scratch", "p_run", "p_wait", "p_attest"}
ExecSteps == {"e_state", "e_open", "e_send", "e_reply", "e_write"}
FinalSteps == {"f_read", "f_state", "f_sign", "f_create", "f_write"}
JoinSteps == {"g_first", "g_second", "g_write"}
LaunchSteps == PrepSteps \cup ExecSteps \cup FinalSteps \cup JoinSteps

\* What a process may have read: the inputs, an attestation, two receipts; and
\* a result, or a verdict.
Seen == {None} \cup Inputs \cup Attests \cup UNION {[D -> Receipts] : D \in SUBSET Auths}
Read == {None} \cup Results \cup Outcomes

Steps == {"idle", "i_sign"} \cup BootSteps \cup LaunchSteps
Processes == [pc : Steps,
              auth : Auths \cup {None}, peer : Auths \cup Roles \cup {None}, seq : Nat,
              seen : Seen, read : Read, clean : BOOLEAN]

HostTyped ==
  /\ state \in [row : BOOLEAN, consumed : SUBSET Auths, revoked : SUBSET Auths]
  /\ issued \in [Auths -> {None} \cup Launches]
  /\ host \in [now : Nat, boot : Nat, inputs : Inputs, faults : Nat]
WorkTyped ==
  /\ scratch \in [Roles -> Auths \cup {None}]
  /\ broker \in [Roles -> Brokers]
  /\ leaves \in [Roles -> Seq(Auths \X Nat)]
FilesTyped ==
  /\ attest \in [Roles -> {None, Torn} \cup Attests]
  /\ result \in [Roles -> {None} \cup Results]
  /\ receipt \in [Roles -> {None, Torn} \cup Receipts]
ReviewTyped == HostTyped /\ WorkTyped /\ FilesTyped /\ proc \in [Procs -> Processes]

\* Every leaf command of the role ran, under the one authorization it worked for.
Complete(r) == RanUnder(scratch[r], r) /\ Len(leaves[r]) = Commands

\* An attestation of the role's own workspace, finished only when all of it ran.
Honest(r, w) ==
  /\ w \in Attests /\ scratch[r] = w.auth
  /\ w.finishedAt # None => Complete(r)

\* A verdict joins receipts that are in place and fit together.
Joined(verdict, chains) ==
  /\ DOMAIN chains \subseteq Issued
  /\ \A c \in DOMAIN chains :
       chains[c] \notin {None, Torn} /\ receipt[RoleOf(c)] = chains[c] /\ chains[c].auth = c
  /\ \A c, d \in DOMAIN chains :
       /\ issued[c].inputs = issued[d].inputs /\ issued[c].boot = issued[d].boot
       /\ c # d => RoleOf(c) # RoleOf(d)
  /\ verdict = "PASS" => \A c \in DOMAIN chains : chains[c].result.outcome = "PASS"

\* What a process knows at its step.
Burned == {"p_recheck", "p_scratch", "p_run", "p_wait", "p_attest", "e_open", "e_send",
           "e_reply", "e_write", "f_sign", "f_create", "f_write"}
Knows(p) ==
  LET x == proc[p]
      a == x.auth
      r == RoleOf(a)
  IN /\ x.pc = "i_sign" => x.peer \in Roles
     /\ x.pc \in LaunchSteps => a \in Issued
     /\ x.pc \in JoinSteps => x.peer \in Issued /\ Joined(x.read, x.seen)
     /\ x.pc \in Burned => a \in state.consumed
     /\ x.pc \in {"e_send", "e_reply", "e_write"} => Honest(r, x.seen)
     /\ x.pc = "e_write" => Complete(r)
     /\ x.pc = "f_read" => result[r] \in Results /\ (attest[r] = Torn \/ Honest(r, attest[r]))
     /\ x.pc \in {"f_state", "f_sign", "f_create", "f_write"} =>
          /\ Honest(r, x.seen) /\ x.seen.fresh
          /\ x.read \in Results /\ x.read.run = a
     /\ x.pc \in {"f_create", "f_write"} =>
          x.seen.finishedAt # None /\ x.seen.finishedAt <= Expires(a)

\* A process that started after a revocation will meet it.
Unclean(p) ==
  LET x == proc[p] IN
  /\ x.pc \in {"p_consume", "e_state", "f_read", "f_state"} => x.auth \in state.revoked
  /\ x.pc = "g_first" => {x.auth, x.peer} \cap state.revoked # {}
  /\ x.pc = "g_second" => x.peer \in state.revoked
  /\ x.pc \notin Burned \cup {"g_write"}
Wary(p) == ~proc[p].clean => Unclean(p)

\* The work of a role: its scratch, its broker, the commands that ran.
Working(r) ==
  /\ scratch[r] # None =>
       scratch[r] \in state.consumed /\ scratch[r] \in Issued /\ RoleOf(scratch[r]) = r
  /\ scratch[r] = None => broker[r].status = "none"
  /\ broker[r].status = "none" => broker[r] = NoBroker /\ leaves[r] = <<>>
  /\ broker[r].status # "none" => broker[r].auth = scratch[r]
  /\ RanUnder(broker[r].auth, r) /\ Len(leaves[r]) <= Commands
  /\ broker[r].status = "up" =>
       /\ broker[r].seq < Commands
       /\ Len(leaves[r]) = IF broker[r].busy = None THEN broker[r].seq ELSE broker[r].seq + 1

ReceiptTrue(r) ==
  receipt[r] \notin {None, Torn} =>
    LET a == receipt[r].auth
        w == receipt[r].workspace
    IN /\ a \in state.consumed /\ a \in Issued /\ RoleOf(a) = r
       /\ Honest(r, w) /\ w.fresh /\ w.finishedAt # None /\ w.finishedAt <= Expires(a)
       /\ receipt[r].result.run = a

\* One preparation works on a role, and starts its broker once.
Preparing ==
  /\ \A p \in Procs : AtWork(p) =>
       LET r == RoleOf(proc[p].auth)
       IN /\ scratch[r] = proc[p].auth
          /\ (proc[p].pc = "p_run" <=> broker[r].status = "none")
  /\ \A p, q \in Procs : AtWork(p) /\ AtWork(q) /\ RoleOf(proc[p].auth) = RoleOf(proc[q].auth)
                            => p = q

\* One process writes the receipt it created.
Writing ==
  /\ \A p \in Procs : proc[p].pc = "f_write" => receipt[RoleOf(proc[p].auth)] = Torn
  /\ \A p, q \in Procs : /\ proc[p].pc = "f_write" /\ proc[q].pc = "f_write"
                         /\ RoleOf(proc[p].auth) = RoleOf(proc[q].auth)
                         => p = q

ReviewInv ==
  /\ ReviewTyped
  /\ \A p \in Procs : Knows(p) /\ Wary(p)
  /\ \A r \in Roles : Working(r)
  /\ \A r \in Roles : attest[r] \in {None, Torn} \/ Honest(r, attest[r])
  /\ \A r \in Roles : ReceiptTrue(r)
  /\ Preparing /\ Writing
  /\ aggregate \notin {None, Torn} => Joined(aggregate.verdict, aggregate.chains)

-----------------------------------------------------------------------------
(* A step of the review: what it may change, and what lasts through it.    *)

Moves(p) ==
  /\ proc' \in [Procs -> Processes]
  /\ \A q \in Procs : q # p => proc'[q] = proc[q]

Keeps(p) ==
  /\ proc'[p].auth = proc[p].auth /\ proc'[p].peer = proc[p].peer
  /\ proc'[p].seq = proc[p].seq /\ proc'[p].seen = proc[p].seen
  /\ proc'[p].read = proc[p].read /\ proc'[p].clean = proc[p].clean

\* What is issued, burned, revoked, signed or done stays so.
Grows ==
  /\ \A a \in Issued : a \in Issued' /\ issued'[a] = issued[a]
  /\ state.consumed \subseteq state'.consumed /\ state.revoked \subseteq state'.revoked
  /\ \A r \in Roles : scratch[r] # None => scratch'[r] = scratch[r]
  /\ \A r \in Roles : Complete(r) => Complete(r)'
  /\ \A r \in Roles : \/ attest'[r] = attest[r] \/ attest'[r] = Torn
                      \/ Honest(r, attest[r])'
  /\ \A r \in Roles : result'[r] = result[r] \/ result'[r] \in Results
  /\ \A r \in Roles : receipt[r] \notin {None, Torn} => receipt'[r] = receipt[r]

LEMMA IdleTyped == Idle \in Processes
BY DEF Idle, Processes, Steps, Seen, Read

LEMMA Stopped ==
  ASSUME proc \in [Procs -> Processes], NEW p \in Procs, Stop(p)
  PROVE  /\ Moves(p) /\ proc'[p] = Idle
         /\ Knows(p)' /\ Wary(p)' /\ ~AtWork(p)' /\ proc'[p].pc # "f_write"
<1>1. Moves(p) /\ proc'[p] = Idle
  BY IdleTyped DEF Stop, Moves
<1>2. proc'[p].pc = "idle" /\ proc'[p].clean
  BY <1>1 DEF Idle
<1>3. Knows(p)'
  BY <1>2 DEF Knows, LaunchSteps, PrepSteps, ExecSteps, FinalSteps, JoinSteps, Burned
<1>4. Wary(p)' /\ ~AtWork(p)'
  BY <1>2 DEF Wary, AtWork
<1> QED
  BY <1>1, <1>2, <1>3, <1>4

LEMMA WentTo ==
  ASSUME proc \in [Procs -> Processes], NEW p \in Procs, NEW step \in Steps, Goto(p, step)
  PROVE  Moves(p) /\ proc'[p].pc = step /\ Keeps(p)
BY DEF Goto, Moves, Keeps, Processes

LEMMA RoleTyped ==
  ASSUME HostTyped, NEW a \in Issued
  PROVE  a \in Auths /\ issued[a] \in Launches /\ RoleOf(a) \in Roles /\ Expires(a) \in Nat
<1>1. a \in Auths /\ issued[a] \in Launches
  BY DEF HostTyped, Issued
<1>2. issued[a].role \in Roles /\ issued[a].at \in Nat
  BY <1>1 DEF Launches
<1> QED
  BY <1>1, <1>2, ReviewAssumption DEF RoleOf, Expires

LEMMA NoneIsNoAuth == None \notin Auths /\ None \notin Procs /\ None # Torn
BY ReviewAssumption

LEMMA RoleLasts ==
  ASSUME Grows, NEW a \in Issued
  PROVE  a \in Issued' /\ RoleOf(a)' = RoleOf(a) /\ Expires(a)' = Expires(a)
         /\ issued'[a] = issued[a]
BY DEF Grows, RoleOf, Expires

LEMMA HonestLasts ==
  ASSUME Grows, NEW r \in Roles, NEW w, Honest(r, w)
  PROVE  w \in Attests /\ scratch'[r] = w.auth /\ (w.finishedAt # None => Complete(r)')
<1>1. w.auth \in Auths
  BY DEF Honest, Attests
<1> QED
  BY <1>1, NoneIsNoAuth DEF Grows, Honest

LEMMA JoinedLasts ==
  ASSUME HostTyped, Grows, NEW v, NEW c, Joined(v, c)
  PROVE  Joined(v, c)'
<1>1. \A a \in DOMAIN c : a \in Issued /\ RoleOf(a) \in Roles
  BY RoleTyped DEF Joined
<1>2. \A a \in DOMAIN c : a \in Issued' /\ RoleOf(a)' = RoleOf(a) /\ issued'[a] = issued[a]
  BY <1>1, RoleLasts
<1>3. \A a \in DOMAIN c : c[a] \notin {None, Torn} /\ receipt'[RoleOf(a)] = c[a] /\ c[a].auth = a
  BY <1>1 DEF Joined, Grows
<1>4. \A a, b \in DOMAIN c : /\ issued'[a].inputs = issued'[b].inputs
                             /\ issued'[a].boot = issued'[b].boot
                             /\ a # b => RoleOf(a) # RoleOf(b)
  BY <1>2 DEF Joined
<1> QED
  BY <1>2, <1>3, <1>4 DEF Joined

LEMMA AttestLasts ==
  ASSUME Grows, NEW r \in Roles, Honest(r, attest[r])
  PROVE  attest'[r] = Torn \/ Honest(r, attest[r])'
<1> SUFFICES ASSUME attest'[r] = attest[r]
             PROVE  Honest(r, attest[r])'
  BY DEF Grows
<1>1. /\ attest[r] \in Attests /\ scratch'[r] = attest[r].auth
      /\ attest[r].finishedAt # None => Complete(r)'
  BY HonestLasts
<1> QED
  BY <1>1 DEF Honest

\* Another process knows what it knew.
LEMMA OthersKnow ==
  ASSUME HostTyped, Grows, NEW q \in Procs, proc'[q] = proc[q], Knows(q), Wary(q)
  PROVE  Knows(q)' /\ Wary(q)'
<1> DEFINE x == proc[q]
           a == x.auth
           r == RoleOf(a)
<1>1. x.pc \in LaunchSteps => /\ a \in Issued /\ r \in Roles /\ a \in Issued'
                              /\ RoleOf(a)' = r /\ Expires(a)' = Expires(a)
  BY RoleTyped, RoleLasts DEF Knows
<1>2. x.pc \in JoinSteps => x.peer \in Issued' /\ Joined(x.read, x.seen)'
  BY JoinedLasts, RoleLasts DEF Knows
<1>3. x.pc \in {"e_send", "e_reply", "e_write", "f_state", "f_sign", "f_create", "f_write"}
        => x.seen \in Attests /\ scratch'[r] = x.seen.auth
           /\ (x.seen.finishedAt # None => Complete(r)')
  BY <1>1, HonestLasts DEF Knows, LaunchSteps, ExecSteps, FinalSteps
<1>4. x.pc = "e_write" => Complete(r)'
  BY <1>1 DEF Knows, Grows, LaunchSteps, ExecSteps
<1>5. x.pc = "f_read" => result'[r] \in Results
  BY <1>1 DEF Knows, Grows, LaunchSteps, FinalSteps
<1>6. \A s \in Roles : x.pc = "f_read" /\ s = r => attest'[s] = Torn \/ Honest(s, attest[s])'
  <2> SUFFICES ASSUME NEW s \in Roles, x.pc = "f_read", s = r, attest[s] # Torn
               PROVE  attest'[s] = Torn \/ Honest(s, attest[s])'
    BY DEF Grows
  <2>1. Honest(s, attest[s])
    BY DEF Knows
  <2> QED
    BY <2>1, AttestLasts
<1>7. Knows(q)'
  BY <1>1, <1>2, <1>3, <1>4, <1>5, <1>6
     DEF Knows, Grows, Honest, LaunchSteps, ExecSteps, FinalSteps, JoinSteps, PrepSteps, Burned
<1>8. Wary(q)'
  BY DEF Wary, Unclean, Grows
<1> QED
  BY <1>7, <1>8

\* The parts of the invariant a step leaves alone.
LEMMA WorkingLasts ==
  ASSUME HostTyped, Grows, NEW r \in Roles, Working(r),
         scratch'[r] = scratch[r], broker'[r] = broker[r], leaves'[r] = leaves[r]
  PROVE  Working(r)'
<1>1. scratch[r] # None => scratch[r] \in Issued' /\ RoleOf(scratch[r])' = RoleOf(scratch[r])
  BY RoleLasts DEF Working
<1>2. scratch'[r] # None =>
        scratch'[r] \in state'.consumed /\ scratch'[r] \in Issued' /\ RoleOf(scratch[r])' = r
  BY <1>1 DEF Working, Grows, RoleOf
<1> QED
  BY <1>2 DEF Working, RanUnder

LEMMA ReceiptLasts ==
  ASSUME HostTyped, Grows, NEW r \in Roles, ReceiptTrue(r), receipt'[r] = receipt[r]
  PROVE  ReceiptTrue(r)'
<1> SUFFICES ASSUME receipt[r] \notin {None, Torn} PROVE ReceiptTrue(r)'
  BY DEF ReceiptTrue
<1> DEFINE a == receipt[r].auth
           w == receipt[r].workspace
<1>1. a \in state'.consumed /\ a \in Issued' /\ RoleOf(a)' = r /\ Expires(a)' = Expires(a)
  BY RoleLasts DEF ReceiptTrue, Grows
<1>2. w \in Attests /\ scratch'[r] = w.auth /\ (w.finishedAt # None => Complete(r)')
  BY HonestLasts DEF ReceiptTrue
<1> QED
  BY <1>1, <1>2 DEF ReceiptTrue, Honest, RoleOf, Expires

LEMMA AggregateLasts ==
  ASSUME HostTyped, Grows, aggregate' = aggregate,
         aggregate \notin {None, Torn} => Joined(aggregate.verdict, aggregate.chains)
  PROVE  (aggregate \notin {None, Torn} => Joined(aggregate.verdict, aggregate.chains))'
<1> SUFFICES ASSUME aggregate \notin {None, Torn}
             PROVE  Joined(aggregate.verdict, aggregate.chains)'
  OBVIOUS
<1>1. \E v, c : v = aggregate.verdict /\ c = aggregate.chains
  OBVIOUS
<1>2. PICK v, c : v = aggregate.verdict /\ c = aggregate.chains
  BY <1>1
<1>3. Joined(v, c)'
  BY <1>2, JoinedLasts
<1> QED
  BY <1>2, <1>3 DEF Joined

LEMMA PreparingLasts ==
  ASSUME HostTyped, Grows, NEW p, Moves(p), \A q \in Procs : Knows(q), Preparing,
         \A r \in Roles : broker'[r].status = "none" <=> broker[r].status = "none",
         AtWork(p)' => /\ AtWork(p) /\ proc'[p].auth = proc[p].auth
                       /\ (proc'[p].pc = "p_run" <=> proc[p].pc = "p_run")
  PROVE  Preparing'
<1>1. ASSUME NEW q \in Procs, AtWork(q)'
      PROVE  /\ AtWork(q) /\ proc'[q].auth = proc[q].auth
             /\ (proc'[q].pc = "p_run" <=> proc[q].pc = "p_run")
  BY <1>1 DEF Moves, AtWork
<1>2. \A q \in Procs : AtWork(q) => /\ proc[q].auth \in Issued /\ RoleOf(proc[q].auth) \in Roles
                                     /\ proc[q].auth \in Auths
  BY RoleTyped DEF AtWork, Knows, LaunchSteps, PrepSteps
<1>3. \A q \in Procs : AtWork(q)' =>
        /\ RoleOf(proc[q].auth) \in Roles
        /\ RoleOf(proc[q].auth)' = RoleOf(proc[q].auth)
        /\ scratch'[RoleOf(proc[q].auth)] = proc[q].auth
  <2> SUFFICES ASSUME NEW q \in Procs, AtWork(q)'
               PROVE  /\ RoleOf(proc[q].auth) \in Roles
                      /\ RoleOf(proc[q].auth)' = RoleOf(proc[q].auth)
                      /\ scratch'[RoleOf(proc[q].auth)] = proc[q].auth
    OBVIOUS
  <2>1. AtWork(q) /\ proc'[q].auth = proc[q].auth
    BY <1>1 DEF AtWork
  <2>2. /\ RoleOf(proc[q].auth) \in Roles /\ proc[q].auth # None
        /\ scratch[RoleOf(proc[q].auth)] = proc[q].auth
        /\ proc[q].auth \in Issued
    BY <2>1, <1>2, NoneIsNoAuth DEF Preparing
  <2>3. issued'[proc[q].auth] = issued[proc[q].auth]
    BY <2>2, RoleLasts
  <2> QED
    BY <2>1, <2>2, <2>3 DEF Grows, RoleOf
<1>4. \A q \in Procs : AtWork(q)' =>
        /\ scratch'[RoleOf(proc[q].auth)'] = proc'[q].auth
        /\ (proc'[q].pc = "p_run" <=> broker'[RoleOf(proc[q].auth)'].status = "none")
  BY <1>1, <1>3 DEF Preparing, AtWork
<1>5. \A q, t \in Procs : AtWork(q)' /\ AtWork(t)'
        /\ RoleOf(proc[q].auth)' = RoleOf(proc[t].auth)' => q = t
  BY <1>1, <1>3 DEF Preparing, AtWork
<1> QED
  BY <1>4, <1>5 DEF Preparing, AtWork

LEMMA WritingLasts ==
  ASSUME HostTyped, Grows, NEW p, Moves(p), \A q \in Procs : Knows(q), Writing,
         \A r \in Roles : receipt[r] = Torn => receipt'[r] = Torn,
         proc'[p].pc = "f_write" => proc'[p] = proc[p]
  PROVE  Writing'
<1>1. \A q \in Procs : proc'[q].pc = "f_write" => proc'[q] = proc[q]
  BY DEF Moves
<1>2. \A q \in Procs : proc'[q].pc = "f_write" =>
        /\ RoleOf(proc[q].auth) \in Roles /\ RoleOf(proc[q].auth)' = RoleOf(proc[q].auth)
  BY <1>1, RoleTyped, RoleLasts DEF Knows, LaunchSteps, FinalSteps, RoleOf
<1> QED
  BY <1>1, <1>2 DEF Writing

\* A command that reads, or writes what only the authority holds.
LEMMA QuietStep ==
  ASSUME ReviewInv, Grows, NEW p, Moves(p), p \in Procs => Knows(p)' /\ Wary(p)', ~AtWork(p)',
         proc'[p].pc # "f_write", HostTyped',
         UNCHANGED <<scratch, broker, leaves, attest, result, receipt, aggregate>>
  PROVE  ReviewInv'
<1>1. ReviewTyped'
  BY DEF ReviewInv, ReviewTyped, WorkTyped, FilesTyped, Moves
<1>2. \A q \in Procs : Knows(q)' /\ Wary(q)'
  BY OthersKnow DEF ReviewInv, ReviewTyped, Moves
<1>3. \A r \in Roles : Working(r)' /\ ReceiptTrue(r)'
  BY WorkingLasts, ReceiptLasts DEF ReviewInv, ReviewTyped
<1>4. \A r \in Roles : (attest[r] \in {None, Torn} \/ Honest(r, attest[r]))'
  BY AttestLasts DEF ReviewInv
<1>5. Preparing' /\ Writing'
  BY PreparingLasts, WritingLasts DEF ReviewInv, ReviewTyped
<1>6. (aggregate \notin {None, Torn} => Joined(aggregate.verdict, aggregate.chains))'
  BY AggregateLasts DEF ReviewInv, ReviewTyped
<1> QED
  BY <1>1, <1>2, <1>3, <1>4, <1>5, <1>6 DEF ReviewInv

-----------------------------------------------------------------------------
(* The commands, one step at a time.                                       *)

LEMMA GrowsQuietly ==
  ASSUME HostTyped, UNCHANGED <<scratch, broker, leaves, attest, result, receipt>>,
         \A a \in Issued : a \in Issued' /\ issued'[a] = issued[a],
         state.consumed \subseteq state'.consumed, state.revoked \subseteq state'.revoked
  PROVE  Grows
<1>1. \A r \in Roles : Complete(r) => Complete(r)'
  BY DEF Complete, RanUnder
<1> QED
  BY <1>1 DEF Grows

LEMMA QuietStop ==
  ASSUME ReviewInv, NEW p \in Procs, Stop(p), Grows, HostTyped',
         UNCHANGED <<scratch, broker, leaves, attest, result, receipt, aggregate>>
  PROVE  ReviewInv'
BY Stopped, QuietStep DEF ReviewInv, ReviewTyped

LEMMA NothingHappens ==
  ASSUME ReviewInv, UNCHANGED <<state, issued, host>>,
         UNCHANGED <<scratch, broker, leaves, attest, result, receipt>>
  PROVE  Grows /\ HostTyped'
<1>1. HostTyped /\ HostTyped'
  BY DEF ReviewInv, ReviewTyped, HostTyped
<1> QED
  BY <1>1, GrowsQuietly DEF Issued

LEMMA BootstrapKeeps ==
  ASSUME ReviewInv, NEW p \in Procs,
         Bootstrap(p) \/ WritePrivate(p) \/ WritePublic(p) \/ WriteState(p)
  PROVE  ReviewInv'
<1>1. /\ state' \in [row : BOOLEAN, consumed : SUBSET Auths, revoked : SUBSET Auths]
      /\ state'.consumed = state.consumed /\ state'.revoked = state.revoked
  BY DEF ReviewInv, ReviewTyped, HostTyped, Bootstrap, WritePrivate, WritePublic, WriteState, Host
<1>2. /\ UNCHANGED <<issued, host, scratch, broker, leaves, attest, result, receipt, aggregate>>
      /\ proc \in [Procs -> Processes]
  BY DEF ReviewInv, ReviewTyped, Bootstrap, WritePrivate, WritePublic, WriteState, Host, Work, Files
<1>3. Grows /\ HostTyped'
  BY <1>1, <1>2, GrowsQuietly DEF ReviewInv, ReviewTyped, HostTyped, Issued
<1>4. CASE WriteState(p)
  BY <1>2, <1>3, <1>4, QuietStop DEF WriteState
<1>5. CASE Bootstrap(p) \/ WritePrivate(p) \/ WritePublic(p)
  <2>1. \E step \in BootSteps : Goto(p, step)
    BY <1>5 DEF Bootstrap, WritePrivate, WritePublic, BootSteps
  <2>2. PICK step \in BootSteps : Goto(p, step)
    BY <2>1
  <2>3. Moves(p) /\ proc'[p].pc = step /\ Keeps(p)
    BY <1>2, <2>2, WentTo DEF Steps
  <2>4. /\ Knows(p)' /\ ~AtWork(p)' /\ proc'[p].pc # "f_write"
    BY <2>3 DEF Knows, AtWork, BootSteps, LaunchSteps, PrepSteps, ExecSteps, FinalSteps,
                JoinSteps, Burned
  <2>5. Wary(p)'
    BY <2>3 DEF Wary, Unclean, BootSteps, Burned
  <2> QED
    BY <1>2, <1>3, <2>3, <2>4, <2>5, QuietStep
<1> QED
  BY <1>4, <1>5

LEMMA IssueKeeps ==
  ASSUME ReviewInv, NEW p \in Procs, NEW r \in Roles, Issue(p, r)
  PROVE  ReviewInv'
<1>1. /\ state' \in [row : BOOLEAN, consumed : SUBSET Auths, revoked : SUBSET Auths]
      /\ state'.consumed = state.consumed /\ state'.revoked = state.revoked
  BY DEF ReviewInv, ReviewTyped, HostTyped, Issue
<1>2. UNCHANGED <<issued, host, scratch, broker, leaves, attest, result, receipt, aggregate>>
  BY DEF Issue, Work, Files
<1>3. Grows /\ HostTyped'
  BY <1>1, <1>2, GrowsQuietly DEF ReviewInv, ReviewTyped, HostTyped, Issued
<1> DEFINE x == [Idle EXCEPT !.pc = "i_sign", !.peer = r, !.seen = host.inputs]
<1>4. x \in Processes /\ x.pc = "i_sign" /\ x.peer = r /\ x.clean
  <2>1. host.inputs \in Seen
    BY DEF ReviewInv, ReviewTyped, HostTyped, Seen
  <2> QED
    BY <2>1, IdleTyped DEF Idle, Processes, Steps
<1>5. proc' = [proc EXCEPT ![p] = x]
  BY DEF Issue
<1> HIDE DEF x
<1>6. Moves(p) /\ proc'[p] = x
  BY <1>4, <1>5 DEF Moves, ReviewInv, ReviewTyped
<1>7. Knows(p)' /\ Wary(p)' /\ ~AtWork(p)' /\ proc'[p].pc # "f_write"
  BY <1>4, <1>6 DEF Knows, Wary, AtWork, BootSteps, LaunchSteps, PrepSteps, ExecSteps, FinalSteps,
                    JoinSteps, Burned
<1> QED
  BY <1>2, <1>3, <1>6, <1>7, QuietStep

LEMMA SignKeeps ==
  ASSUME ReviewInv, NEW p \in Procs, Sign(p)
  PROVE  ReviewInv'
<1>1. /\ UNCHANGED <<state, host, scratch, broker, leaves, attest, result, receipt, aggregate>>
      /\ Stop(p)
  BY DEF Sign, Work, Files
<1>2. CASE UNCHANGED issued
  BY <1>1, <1>2, NothingHappens, QuietStop
<1>3. CASE host.inputs = proc[p].seen /\ \E a \in Auths \ Issued :
             issued' = [issued EXCEPT ![a] = [role |-> proc[p].peer, inputs |-> proc[p].seen,
                                              at |-> host.now, boot |-> host.boot]]
  <2>1. PICK a \in Auths \ Issued :
             issued' = [issued EXCEPT ![a] = [role |-> proc[p].peer, inputs |-> proc[p].seen,
                                              at |-> host.now, boot |-> host.boot]]
    BY <1>3
  <2>2. proc[p].peer \in Roles /\ proc[p].seen \in Inputs /\ host.now \in Nat /\ host.boot \in Nat
    BY <1>3 DEF Sign, ReviewInv, ReviewTyped, HostTyped, Knows
  <2>3. [role |-> proc[p].peer, inputs |-> proc[p].seen, at |-> host.now, boot |-> host.boot]
          \in Launches
    BY <2>2 DEF Launches
  <2>4. issued' \in [Auths -> {None} \cup Launches]
    BY <2>1, <2>3 DEF ReviewInv, ReviewTyped, HostTyped
  <2>5. \A c \in Issued : c \in Issued' /\ issued'[c] = issued[c]
    BY <2>1 DEF Issued, ReviewInv, ReviewTyped, HostTyped
  <2>6. Grows /\ HostTyped'
    BY <1>1, <2>4, <2>5, GrowsQuietly DEF ReviewInv, ReviewTyped, HostTyped
  <2> QED
    BY <1>1, <2>6, QuietStop
<1> QED
  BY <1>2, <1>3 DEF Sign

\* A command that looks and goes on, or ends.
Unchanged == UNCHANGED <<state, issued, host, scratch, broker, leaves, attest, result, receipt,
                         aggregate>>

LEMMA LooksAndGoesOn ==
  ASSUME ReviewInv, NEW p \in Procs, Unchanged, Moves(p), Knows(p)', Wary(p)',
         proc'[p].pc \notin {"p_run", "p_wait", "p_attest", "f_write"}
  PROVE  ReviewInv'
<1>1. Grows /\ HostTyped'
  BY NothingHappens DEF Unchanged
<1>2. ~AtWork(p)' /\ proc'[p].pc # "f_write"
  BY DEF AtWork
<1> QED
  BY <1>1, <1>2, QuietStep DEF Unchanged

LEMMA LooksAndStops ==
  ASSUME ReviewInv, NEW p \in Procs, Unchanged, Stop(p)
  PROVE  ReviewInv'
BY NothingHappens, QuietStop DEF Unchanged

LEMMA Started ==
  ASSUME ReviewInv, NEW p \in Procs, NEW a \in Auths, NEW step \in Steps, Start(p, a, step)
  PROVE  /\ Moves(p) /\ proc'[p].pc = step /\ proc'[p].auth = a
         /\ proc'[p].clean = (a \notin state.revoked)
<1> DEFINE x == [Idle EXCEPT !.pc = step, !.auth = a, !.clean = a \notin state.revoked]
<1>1. /\ x \in Processes /\ x.pc = step /\ x.auth = a /\ x.clean = (a \notin state.revoked)
  BY IdleTyped DEF Idle, Processes
<1>2. proc' = [proc EXCEPT ![p] = x]
  BY DEF Start
<1> HIDE DEF x
<1> QED
  BY <1>1, <1>2 DEF Moves, ReviewInv, ReviewTyped

LEMMA StartKeeps ==
  ASSUME ReviewInv, NEW p \in Procs, NEW a \in Auths,
         Prepare(p, a) \/ Execute(p, a) \/ Finalize(p, a)
  PROVE  ReviewInv'
<1>1. Unchanged /\ a \in Issued
  BY DEF Prepare, Execute, Finalize, Host, Work, Files, Unchanged
<1>2. PICK step \in {"p_consume", "e_state", "f_read"} : Start(p, a, step)
        /\ (step = "f_read" => Finalize(p, a))
  BY DEF Prepare, Execute, Finalize
<1>3. /\ Moves(p) /\ proc'[p].pc = step /\ proc'[p].auth = a
      /\ proc'[p].clean = (a \notin state.revoked)
  BY <1>2, Started DEF Steps, LaunchSteps, PrepSteps, ExecSteps, FinalSteps
<1>4. step = "f_read" =>
        /\ RoleOf(a) \in Roles /\ result[RoleOf(a)] \in Results
        /\ attest[RoleOf(a)] = Torn \/ Honest(RoleOf(a), attest[RoleOf(a)])
  BY <1>1, <1>2, RoleTyped DEF Finalize, ReviewInv, ReviewTyped, FilesTyped
<1>5. UNCHANGED <<issued, scratch, leaves, result, attest>>
  BY <1>1 DEF Unchanged
<1>6. Knows(p)'
  BY <1>1, <1>3, <1>4, <1>5
     DEF Knows, LaunchSteps, PrepSteps, ExecSteps, FinalSteps, JoinSteps, Burned, Issued, RoleOf,
         Honest, Complete, RanUnder
<1>7. Wary(p)'
  BY <1>1, <1>3 DEF Wary, Unclean, Burned, Unchanged
<1> QED
  BY <1>1, <1>3, <1>6, <1>7, LooksAndGoesOn

LEMMA ConsumeKeeps ==
  ASSUME ReviewInv, NEW p \in Procs, ConsumeSerial(p)
  PROVE  ReviewInv'
<1> DEFINE a == proc[p].auth
<1>1. a \in Issued /\ a \in Auths
  BY RoleTyped DEF ConsumeSerial, ReviewInv, ReviewTyped, Knows, LaunchSteps, PrepSteps
<1>2. /\ UNCHANGED <<issued, host, scratch, broker, leaves, attest, result, receipt, aggregate>>
      /\ state' = [state EXCEPT !.consumed = @ \cup (IF Consumable(a) THEN {a} ELSE {})]
      /\ proc \in [Procs -> Processes]
  BY DEF ConsumeSerial, Work, Files, ReviewInv, ReviewTyped
<1>3. /\ state' \in [row : BOOLEAN, consumed : SUBSET Auths, revoked : SUBSET Auths]
      /\ state.consumed \subseteq state'.consumed /\ state'.revoked = state.revoked
      /\ Consumable(a) => a \in state'.consumed
  BY <1>1, <1>2 DEF ReviewInv, ReviewTyped, HostTyped
<1>4. Grows /\ HostTyped'
  BY <1>2, <1>3, GrowsQuietly DEF ReviewInv, ReviewTyped, HostTyped, Issued
<1>5. CASE Stop(p)
  BY <1>2, <1>4, <1>5, QuietStop
<1>6. CASE Consumable(a) /\ Goto(p, "p_recheck")
  <2>1. Moves(p) /\ proc'[p].pc = "p_recheck" /\ Keeps(p)
    BY <1>2, <1>6, WentTo DEF Steps, LaunchSteps, PrepSteps
  <2>2. Knows(p)' /\ ~AtWork(p)'
    BY <1>1, <1>2, <1>3, <1>6, <2>1
       DEF Knows, AtWork, LaunchSteps, ExecSteps, FinalSteps, JoinSteps, Burned, Issued, Keeps
  <2>3. Wary(p)'
    BY <1>6, <2>1 DEF ConsumeSerial, ReviewInv, Wary, Unclean, Consumable, Keeps
  <2> QED
    BY <1>2, <1>4, <2>1, <2>2, <2>3, QuietStep
<1> QED
  BY <1>5, <1>6 DEF ConsumeSerial, Check

LEMMA CheckKeeps ==
  ASSUME ReviewInv, NEW p \in Procs, Recheck(p) \/ ExecuteState(p)
  PROVE  ReviewInv'
<1> DEFINE a == proc[p].auth
<1>1. Unchanged /\ proc \in [Procs -> Processes] /\ a \in Issued
  BY DEF Recheck, ExecuteState, Host, Work, Files, Unchanged, ReviewInv, ReviewTyped, Knows,
         LaunchSteps, PrepSteps, ExecSteps
<1>2. CASE Stop(p)
  BY <1>1, <1>2, LooksAndStops
<1>3. ASSUME Launched(a), NEW step \in {"p_scratch", "e_open"}, Goto(p, step)
      PROVE  ReviewInv'
  <2>1. Moves(p) /\ proc'[p].pc = step /\ Keeps(p)
    BY <1>1, <1>3, WentTo DEF Steps, LaunchSteps, PrepSteps, ExecSteps
  <2>2. a \in state.consumed /\ a \notin state.revoked
    BY <1>3 DEF Launched
  <2>3. Knows(p)'
    BY <1>1, <2>1, <2>2
       DEF Knows, LaunchSteps, PrepSteps, ExecSteps, FinalSteps, JoinSteps, Burned, Issued, Keeps,
           Unchanged
  <2>4. proc[p].clean
    BY <2>2 DEF Recheck, ExecuteState, ReviewInv, Wary, Unclean, Burned
  <2>5. Wary(p)'
    BY <2>1, <2>4 DEF Wary, Keeps
  <2> QED
    BY <1>1, <2>1, <2>3, <2>5, LooksAndGoesOn
<1> QED
  BY <1>2, <1>3 DEF Recheck, ExecuteState, Check

LEMMA RunPreparationKeeps ==
  ASSUME ReviewInv, NEW p \in Procs, RunPreparation(p)
  PROVE  ReviewInv'
BY LooksAndStops DEF RunPreparation, Host, Work, Files, Unchanged

\* What is read now is what is known later.
LEMMA OpenNamespaceKeeps ==
  ASSUME ReviewInv, NEW p \in Procs, OpenNamespace(p)
  PROVE  ReviewInv'
<1> DEFINE a == proc[p].auth
           r == RoleOf(a)
<1>1. /\ Unchanged /\ proc \in [Procs -> Processes] /\ proc[p].pc = "e_open"
      /\ a \in Issued /\ r \in Roles /\ a \in state.consumed /\ proc[p].clean
  BY RoleTyped
     DEF OpenNamespace, Host, Work, Files, Unchanged, ReviewInv, ReviewTyped, Knows, Wary, Unclean,
         LaunchSteps, ExecSteps, Burned
<1>2. CASE Stop(p)
  BY <1>1, <1>2, LooksAndStops
<1>3. CASE attest[r] \notin {None, Torn}
           /\ proc' = [proc EXCEPT ![p] = [@ EXCEPT !.pc = "e_send", !.seen = attest[r]]]
  <2>1. Honest(r, attest[r]) /\ attest[r] \in Seen
    BY <1>1, <1>3 DEF ReviewInv, Honest, Seen
  <2>2. "e_send" \in Steps
    BY DEF Steps, LaunchSteps, ExecSteps
  <2>3. /\ Moves(p) /\ proc'[p].pc = "e_send" /\ proc'[p].auth = a /\ proc'[p].seen = attest[r]
        /\ proc'[p].clean = proc[p].clean
    BY <1>1, <1>3, <2>1, <2>2 DEF Moves, Processes
  <2>4. UNCHANGED <<issued, scratch, leaves, attest, state>>
    BY <1>1 DEF Unchanged
  <2>5. Knows(p)'
    BY <1>1, <2>1, <2>3, <2>4
       DEF Knows, LaunchSteps, PrepSteps, ExecSteps, FinalSteps, JoinSteps, Burned, Issued, RoleOf,
           Honest, Complete, RanUnder
  <2>6. Wary(p)'
    BY <1>1, <2>3 DEF Wary
  <2> QED
    BY <1>1, <2>3, <2>5, <2>6, LooksAndGoesOn
<1> QED
  BY <1>2, <1>3 DEF OpenNamespace, Stop

LEMMA ReadDeliveryKeeps ==
  ASSUME ReviewInv, NEW p \in Procs, ReadDelivery(p)
  PROVE  ReviewInv'
<1> DEFINE a == proc[p].auth
           r == RoleOf(a)
<1>1. /\ Unchanged /\ proc \in [Procs -> Processes] /\ proc[p].pc = "f_read"
      /\ a \in Issued /\ r \in Roles
      /\ result[r] \in Results /\ (attest[r] = Torn \/ Honest(r, attest[r]))
      /\ ~proc[p].clean => a \in state.revoked
  BY RoleTyped
     DEF ReadDelivery, Host, Work, Files, Unchanged, ReviewInv, ReviewTyped, Knows, Wary, Unclean,
         LaunchSteps, FinalSteps
<1>2. CASE Stop(p)
  BY <1>1, <1>2, LooksAndStops
<1>3. CASE /\ result[r].run = a /\ attest[r] # Torn /\ attest[r].fresh
           /\ proc' = [proc EXCEPT ![p] = [@ EXCEPT !.pc = "f_state", !.seen = attest[r],
                                                    !.read = result[r]]]
  <2>1. Honest(r, attest[r]) /\ attest[r] \in Seen /\ result[r] \in Read
    BY <1>1, <1>3 DEF ReviewInv, Honest, Seen, Read
  <2>2. "f_state" \in Steps
    BY DEF Steps, LaunchSteps, FinalSteps
  <2>3. /\ Moves(p) /\ proc'[p].pc = "f_state" /\ proc'[p].auth = a /\ proc'[p].seen = attest[r]
        /\ proc'[p].clean = proc[p].clean /\ proc'[p].read = result[r]
    BY <1>1, <1>3, <2>1, <2>2 DEF Moves, Processes
  <2>4. UNCHANGED <<issued, scratch, leaves, attest, result, state>>
    BY <1>1 DEF Unchanged
  <2>5. Knows(p)'
    <3>1. PICK s \in Roles : s = r
      BY <1>1
    <3>2. issued'[a].role = s /\ a \in Issued'
      BY <1>1, <2>4, <3>1 DEF Issued, RoleOf
    <3>3. Honest(s, attest[s])'
      <4>1. Honest(s, attest[s])
        BY <2>1, <3>1
      <4> QED
        BY <4>1, <2>4 DEF Honest, Complete, RanUnder, RoleOf
    <3>4. attest'[s] = attest[s] /\ attest[s].fresh /\ result[s] \in Results /\ result[s].run = a
      BY <1>1, <1>3, <2>4, <3>1
    <3>5. proc'[p].seen = attest'[s] /\ proc'[p].read = result[s]
      BY <2>3, <3>1, <3>4
    <3> QED
      BY <2>3, <3>2, <3>3, <3>4, <3>5
         DEF Knows, LaunchSteps, PrepSteps, ExecSteps, FinalSteps, JoinSteps, Burned, RoleOf
  <2>6. Wary(p)'
    BY <1>1, <2>3, <2>4 DEF Wary, Unclean, Burned
  <2> QED
    BY <1>1, <2>3, <2>5, <2>6, LooksAndGoesOn
<1> QED
  BY <1>2, <1>3 DEF ReadDelivery, Stop

LEMMA FinalizeStateKeeps ==
  ASSUME ReviewInv, NEW p \in Procs, FinalizeState(p) \/ SignReceipt(p)
  PROVE  ReviewInv'
<1> DEFINE a == proc[p].auth
           r == RoleOf(a)
           w == proc[p].seen
<1>1. /\ Unchanged /\ proc \in [Procs -> Processes] /\ proc[p].pc \in {"f_state", "f_sign"}
      /\ a \in Issued /\ r \in Roles
      /\ Honest(r, w) /\ w.fresh /\ proc[p].read \in Results /\ proc[p].read.run = a
      /\ proc[p].pc = "f_sign" => a \in state.consumed /\ proc[p].clean
      /\ ~proc[p].clean => a \in state.revoked
  BY RoleTyped
     DEF FinalizeState, SignReceipt, Host, Work, Files, Unchanged, ReviewInv, ReviewTyped, Knows,
         Wary, Unclean, LaunchSteps, FinalSteps, Burned
<1>2. CASE Stop(p)
  BY <1>1, <1>2, LooksAndStops
<1>3. ASSUME NEW step \in {"f_sign", "f_create"}, Goto(p, step),
             a \in state.consumed, proc[p].clean,
             step = "f_create" => w.finishedAt # None /\ w.finishedAt <= Expires(a)
      PROVE  ReviewInv'
  <2>1. Moves(p) /\ proc'[p].pc = step /\ Keeps(p)
    BY <1>1, <1>3, WentTo DEF Steps, LaunchSteps, FinalSteps
  <2>2. UNCHANGED <<issued, scratch, leaves, state>>
    BY <1>1 DEF Unchanged
  <2>3. Knows(p)'
    BY <1>1, <1>3, <2>1, <2>2
       DEF Knows, LaunchSteps, PrepSteps, ExecSteps, FinalSteps, JoinSteps, Burned, Issued, RoleOf,
           Expires, Honest, Complete, RanUnder, Keeps
  <2>4. Wary(p)'
    BY <1>3, <2>1 DEF Wary, Keeps
  <2> QED
    BY <1>1, <1>3, <2>1, <2>3, <2>4, LooksAndGoesOn
<1>4. CASE FinalizeState(p)
  BY <1>1, <1>2, <1>3, <1>4 DEF FinalizeState, Check, Launched
<1>5. CASE SignReceipt(p)
  BY <1>1, <1>2, <1>3, <1>5 DEF SignReceipt, Check, ExecutedInTime
<1> QED
  BY <1>4, <1>5

LEMMA AggregateKeeps ==
  ASSUME ReviewInv, NEW p \in Procs, NEW a \in Auths, NEW b \in Auths, Aggregate(p, a, b)
  PROVE  ReviewInv'
<1> DEFINE chains == [c \in {a, b} |-> receipt[RoleOf(c)]]
           verdict == IF result[RoleOf(a)].outcome = "PASS" /\ result[RoleOf(b)].outcome = "PASS"
                      THEN "PASS" ELSE "HOLD"
           unrevoked == {a, b} \cap state.revoked = {}
           x == [Idle EXCEPT !.pc = "g_first", !.auth = a, !.peer = b, !.read = verdict,
                             !.seen = chains, !.clean = unrevoked]
<1>1. Unchanged /\ a \in Issued /\ b \in Issued
  BY DEF Aggregate, Host, Work, Files, Unchanged
<1>2. /\ ReceiptHolds(a) /\ ReceiptHolds(b) /\ Matches(a) /\ Matches(b)
      /\ Verified(a) /\ Verified(b) /\ RoleOf(a) # RoleOf(b)
  BY DEF Aggregate
<1>3. \A c \in {a, b} :
        /\ RoleOf(c) \in Roles /\ receipt[RoleOf(c)] \notin {None, Torn}
        /\ receipt[RoleOf(c)] \in Receipts /\ receipt[RoleOf(c)].auth = c
        /\ receipt[RoleOf(c)].result = result[RoleOf(c)]
  BY <1>1, <1>2, RoleTyped DEF ReceiptHolds, ReviewInv, ReviewTyped, FilesTyped
<1>4. chains \in Seen
  <2>1. chains \in [{a, b} -> Receipts] /\ {a, b} \in SUBSET Auths
    BY <1>3
  <2> QED
    BY <2>1 DEF Seen
<1>5. Joined(verdict, chains)
  <2>1. \A c \in {a, b} : chains[c] = receipt[RoleOf(c)]
    OBVIOUS
  <2>2. DOMAIN chains = {a, b}
    OBVIOUS
  <2>3. verdict = "PASS" => \A c \in {a, b} : result[RoleOf(c)].outcome = "PASS"
    OBVIOUS
  <2>4. issued[a].inputs = issued[b].inputs /\ issued[a].boot = issued[b].boot
    BY <1>2 DEF Matches, Verified
  <2> HIDE DEF chains, verdict
  <2> QED
    BY <1>1, <1>2, <1>3, <2>1, <2>2, <2>3, <2>4 DEF Joined
<1>6. verdict \in Read /\ unrevoked \in BOOLEAN
  BY DEF Read, Outcomes
<1>7. proc' = [proc EXCEPT ![p] = x]
  BY DEF Aggregate
<1> HIDE DEF chains, verdict, unrevoked
<1>8. "g_first" \in Steps
  BY DEF Steps, LaunchSteps, JoinSteps
<1>9. /\ x \in Processes /\ x.pc = "g_first" /\ x.auth = a /\ x.peer = b /\ x.read = verdict
      /\ x.seen = chains /\ x.clean = unrevoked
  BY <1>4, <1>6, <1>8, IdleTyped DEF Idle, Processes
<1> HIDE DEF x
<1>10. Moves(p) /\ proc'[p] = x
  BY <1>7, <1>9 DEF Moves, ReviewInv, ReviewTyped
<1>11. UNCHANGED <<issued, state, receipt>>
  BY <1>1 DEF Unchanged
<1>12. Knows(p)'
  BY <1>1, <1>5, <1>9, <1>10, <1>11
     DEF Knows, LaunchSteps, PrepSteps, ExecSteps, FinalSteps, JoinSteps, Burned, Issued, RoleOf,
         Joined
<1>13. Wary(p)'
  BY <1>9, <1>10, <1>11 DEF Wary, Unclean, Burned, unrevoked
<1> QED
  BY <1>1, <1>9, <1>10, <1>12, <1>13, LooksAndGoesOn

LEMMA AggregateStateKeeps ==
  ASSUME ReviewInv, NEW p \in Procs, AggregateState(p)
  PROVE  ReviewInv'
<1> DEFINE x == proc[p]
<1>1. /\ Unchanged /\ proc \in [Procs -> Processes] /\ x.pc \in {"g_first", "g_second"}
      /\ x.auth \in Issued /\ x.peer \in Issued /\ Joined(x.read, x.seen)
      /\ ~x.clean => IF x.pc = "g_first" THEN {x.auth, x.peer} \cap state.revoked # {}
                     ELSE x.peer \in state.revoked
  BY DEF AggregateState, Host, Work, Files, Unchanged, ReviewInv, ReviewTyped, Knows, Wary, Unclean,
         LaunchSteps, JoinSteps
<1>2. CASE Stop(p)
  BY <1>1, <1>2, LooksAndStops
<1>3. ASSUME NEW step \in {"g_second", "g_write"}, Goto(p, step),
             ~x.clean => step = "g_second" /\ x.peer \in state.revoked
      PROVE  ReviewInv'
  <2>1. Moves(p) /\ proc'[p].pc = step /\ Keeps(p)
    BY <1>1, <1>3, WentTo DEF Steps, LaunchSteps, JoinSteps
  <2>2. UNCHANGED <<issued, receipt, state>>
    BY <1>1 DEF Unchanged
  <2>3. Knows(p)'
    BY <1>1, <1>3, <2>1, <2>2
       DEF Knows, LaunchSteps, PrepSteps, ExecSteps, FinalSteps, JoinSteps, Burned, Issued, RoleOf,
           Joined, Keeps
  <2>4. Wary(p)'
    BY <1>3, <2>1, <2>2 DEF Wary, Unclean, Burned, Keeps
  <2> QED
    BY <1>1, <1>3, <2>1, <2>3, <2>4, LooksAndGoesOn
<1>4. CASE x.pc = "g_first" /\ Check(p, Authority /\ Launched(x.auth), "g_second")
  <2>1. CASE Goto(p, "g_second") /\ Launched(x.auth)
    BY <1>1, <1>3, <1>4, <2>1 DEF Launched
  <2> QED
    BY <1>2, <1>4, <2>1 DEF Check
<1>5. CASE x.pc = "g_second" /\ Check(p, Launched(x.peer), "g_write")
  <2>1. CASE Goto(p, "g_write") /\ Launched(x.peer)
    BY <1>1, <1>3, <1>5, <2>1 DEF Launched
  <2> QED
    BY <1>2, <1>5, <2>1 DEF Check
<1> QED
  BY <1>4, <1>5 DEF AggregateState

\* A step of the work itself: scratch, broker or leaf commands.
LEMMA WorkStep ==
  ASSUME ReviewInv, Grows, NEW p \in Procs, Moves(p), Knows(p)', Wary(p)',
         proc'[p].pc = "f_write" => proc'[p] = proc[p], HostTyped', WorkTyped',
         \A r \in Roles : Working(r)', Preparing',
         UNCHANGED <<attest, result, receipt, aggregate>>
  PROVE  ReviewInv'
<1>1. ReviewTyped'
  BY DEF ReviewInv, ReviewTyped, FilesTyped, Moves
<1>2. \A q \in Procs : Knows(q)' /\ Wary(q)'
  BY OthersKnow DEF ReviewInv, ReviewTyped, Moves
<1>3. \A r \in Roles : ReceiptTrue(r)'
  BY ReceiptLasts DEF ReviewInv, ReviewTyped
<1>4. \A r \in Roles : (attest[r] \in {None, Torn} \/ Honest(r, attest[r]))'
  BY AttestLasts DEF ReviewInv
<1>5. Writing'
  BY WritingLasts DEF ReviewInv, ReviewTyped
<1>6. (aggregate \notin {None, Torn} => Joined(aggregate.verdict, aggregate.chains))'
  BY AggregateLasts DEF ReviewInv, ReviewTyped
<1> QED
  BY <1>1, <1>2, <1>3, <1>4, <1>5, <1>6 DEF ReviewInv

\* Host state that a step of the work leaves alone.
LEMMA HostLasts ==
  ASSUME ReviewInv, UNCHANGED <<state, issued, host>>
  PROVE  /\ HostTyped' /\ Issued' = Issued
         /\ \A a \in Issued : a \in Issued' /\ issued'[a] = issued[a]
BY DEF ReviewInv, ReviewTyped, HostTyped, Issued

LEMMA MakeScratchKeeps ==
  ASSUME ReviewInv, NEW p \in Procs, MakeScratch(p)
  PROVE  ReviewInv'
<1> DEFINE a == proc[p].auth
           r == RoleOf(a)
<1>1. /\ proc \in [Procs -> Processes] /\ proc[p].pc = "p_scratch"
      /\ a \in Issued /\ a \in Auths /\ r \in Roles /\ a \in state.consumed /\ proc[p].clean
      /\ UNCHANGED <<state, issued, host, broker, leaves, attest, result, receipt, aggregate>>
  BY RoleTyped
     DEF MakeScratch, Host, Work, Files, ReviewInv, ReviewTyped, Knows, Wary, Unclean, LaunchSteps,
         PrepSteps, Burned
<1>2. CASE scratch[r] # None
  <2>1. scratch' = scratch
    BY <1>1, <1>2 DEF MakeScratch, ReviewInv, ReviewTyped, WorkTyped
  <2>2. Stop(p)
    BY <1>2 DEF MakeScratch, Check
  <2> QED
    BY <1>1, <2>1, <2>2, LooksAndStops DEF Unchanged
<1>3. CASE scratch[r] = None
  <2>1. Goto(p, "p_run") /\ scratch' = [scratch EXCEPT ![r] = a]
    BY <1>3 DEF MakeScratch, Check
  <2>2. Moves(p) /\ proc'[p].pc = "p_run" /\ Keeps(p)
    BY <1>1, <2>1, WentTo DEF Steps, LaunchSteps, PrepSteps
  <2>3. /\ scratch' \in [Roles -> Auths \cup {None}] /\ scratch'[r] = a
        /\ \A s \in Roles : s # r => scratch'[s] = scratch[s]
    BY <1>1, <2>1 DEF ReviewInv, ReviewTyped, WorkTyped
  <2>4. broker[r] = NoBroker /\ leaves[r] = <<>> /\ broker[r].status = "none"
    BY <1>1, <1>3 DEF ReviewInv, Working
  <2>5. \A s \in Roles : Complete(s) => s # r
    BY <2>4, ReviewAssumption DEF Complete
  <2>6. \A s \in Roles : Complete(s) => Complete(s)'
    BY <1>1, <2>3, <2>5 DEF Complete, RanUnder
  <2>7. Grows /\ HostTyped'
    BY <1>1, <1>3, <2>3, <2>6, HostLasts DEF Grows
  <2>8. WorkTyped'
    BY <1>1, <2>3 DEF WorkTyped, ReviewInv, ReviewTyped
  <2>9. ASSUME NEW s \in Roles PROVE Working(s)'
    <3>1. CASE s # r
      BY <1>1, <2>3, <2>7, <3>1, WorkingLasts DEF ReviewInv, ReviewTyped
    <3>2. CASE s = r
      <4>1. a \in Issued' /\ issued' = issued
        BY <1>1, HostLasts
      <4>2. Working(r)
        BY <1>1 DEF ReviewInv
      <4>3. scratch'[s] = a /\ a \in state'.consumed /\ a \in Issued' /\ issued'[a].role = s
        BY <1>1, <2>3, <3>2, <4>1 DEF RoleOf
      <4>4. broker'[s] = broker[s] /\ leaves'[s] = leaves[s]
        BY <1>1
      <4> QED
        BY <1>1, <2>4, <3>2, <4>2, <4>3, <4>4, NoneIsNoAuth DEF Working, RanUnder, RoleOf, NoBroker
    <3> QED
      BY <3>1, <3>2
  <2>10. Preparing'
    <3>1. \A q \in Procs : q # p /\ AtWork(q)' =>
            /\ AtWork(q) /\ proc'[q] = proc[q] /\ RoleOf(proc[q].auth) \in Roles
            /\ RoleOf(proc[q].auth) # r /\ proc[q].auth \in Issued
      <4> SUFFICES ASSUME NEW q \in Procs, q # p, AtWork(q)'
                   PROVE  /\ AtWork(q) /\ proc'[q] = proc[q] /\ RoleOf(proc[q].auth) \in Roles
                          /\ RoleOf(proc[q].auth) # r /\ proc[q].auth \in Issued
        OBVIOUS
      <4>1. proc'[q] = proc[q] /\ AtWork(q)
        BY <2>2 DEF Moves, AtWork
      <4>2. /\ proc[q].auth \in Issued /\ proc[q].auth # None /\ RoleOf(proc[q].auth) \in Roles
        BY <4>1, RoleTyped, NoneIsNoAuth
           DEF ReviewInv, ReviewTyped, Knows, AtWork, LaunchSteps, PrepSteps
      <4>3. scratch[RoleOf(proc[q].auth)] = proc[q].auth
        BY <4>1 DEF ReviewInv, Preparing
      <4> QED
        BY <1>3, <4>1, <4>2, <4>3
    <3>2. /\ proc'[p].auth = a /\ issued' = issued /\ broker' = broker
      BY <1>1, <2>2 DEF Keeps
    <3>3. \A q \in Procs : AtWork(q)' =>
            /\ scratch'[RoleOf(proc[q].auth)'] = proc'[q].auth
            /\ (proc'[q].pc = "p_run" <=> broker'[RoleOf(proc[q].auth)'].status = "none")
      <4> SUFFICES ASSUME NEW q \in Procs, AtWork(q)'
                   PROVE  /\ scratch'[RoleOf(proc[q].auth)'] = proc'[q].auth
                          /\ (proc'[q].pc = "p_run"
                                <=> broker'[RoleOf(proc[q].auth)'].status = "none")
        OBVIOUS
      <4>1. CASE q = p
        BY <1>1, <2>2, <2>3, <2>4, <3>2, <4>1 DEF RoleOf
      <4>2. CASE q # p
        <5>1. /\ AtWork(q) /\ proc'[q] = proc[q] /\ RoleOf(proc[q].auth) \in Roles
              /\ RoleOf(proc[q].auth) # r
          BY <3>1, <4>2
        <5> QED
          BY <2>3, <3>2, <5>1 DEF RoleOf, ReviewInv, Preparing
      <4> QED
        BY <4>1, <4>2
    <3>4. ASSUME NEW q \in Procs, NEW t \in Procs, AtWork(q)', AtWork(t)',
                 (RoleOf(proc[q].auth) = RoleOf(proc[t].auth))', q # t
          PROVE  FALSE
      <4>1. q # p => AtWork(q) /\ proc'[q] = proc[q] /\ RoleOf(proc[q].auth) # r
        BY <3>1, <3>4
      <4>2. t # p => AtWork(t) /\ proc'[t] = proc[t] /\ RoleOf(proc[t].auth) # r
        BY <3>1, <3>4
      <4>3. issued'[proc'[q].auth].role = issued'[proc'[t].auth].role
        BY <3>4 DEF RoleOf
      <4> QED
        BY <3>2, <3>4, <4>1, <4>2, <4>3 DEF RoleOf, ReviewInv, Preparing
    <3> QED
      BY <3>3, <3>4 DEF Preparing
  <2>11. Knows(p)' /\ Wary(p)'
    <3>1. a \in Issued'
      BY <1>1, HostLasts
    <3> QED
      BY <1>1, <2>2, <3>1
         DEF Knows, Wary, LaunchSteps, PrepSteps, ExecSteps, FinalSteps, JoinSteps, Burned, Keeps
  <2> QED
    BY <1>1, <2>2, <2>7, <2>8, <2>9, <2>10, <2>11, WorkStep
<1> QED
  BY <1>2, <1>3

LEMMA SpawnKeeps ==
  ASSUME ReviewInv, NEW p \in Procs, Spawn(p)
  PROVE  ReviewInv'
<1> DEFINE a == proc[p].auth
           r == RoleOf(a)
           b == [NoBroker EXCEPT !.status = "up", !.auth = a]
<1>1. /\ proc \in [Procs -> Processes] /\ proc[p].pc = "p_run"
      /\ a \in Issued /\ a \in Auths /\ r \in Roles /\ a \in state.consumed /\ proc[p].clean
      /\ UNCHANGED <<state, issued, host, scratch, leaves, attest, result, receipt, aggregate>>
  BY RoleTyped
     DEF Spawn, Host, Files, ReviewInv, ReviewTyped, Knows, Wary, Unclean, LaunchSteps, PrepSteps,
         Burned
<1>2. scratch[r] = a /\ broker[r].status = "none"
  BY <1>1 DEF ReviewInv, Preparing, AtWork
<1>3. leaves[r] = <<>>
  BY <1>1, <1>2 DEF ReviewInv, Working
<1>4. /\ b \in Brokers /\ b.status = "up" /\ b.auth = a /\ b.seq = 0 /\ b.busy = None
  BY <1>1 DEF Brokers, NoBroker
<1>5. broker' = [broker EXCEPT ![r] = b] /\ Goto(p, "p_wait")
  BY DEF Spawn
<1> HIDE DEF b
<1>6. /\ broker' \in [Roles -> Brokers] /\ broker'[r] = b
      /\ \A s \in Roles : s # r => broker'[s] = broker[s]
  BY <1>1, <1>4, <1>5 DEF ReviewInv, ReviewTyped, WorkTyped
<1>7. Moves(p) /\ proc'[p].pc = "p_wait" /\ Keeps(p)
  BY <1>1, <1>5, WentTo DEF Steps, LaunchSteps, PrepSteps
<1>8. Grows /\ HostTyped' /\ issued' = issued /\ Issued' = Issued
  BY <1>1, HostLasts DEF Grows, Complete, RanUnder
<1>9. WorkTyped'
  BY <1>1, <1>6 DEF WorkTyped, ReviewInv, ReviewTyped
<1>10. ASSUME NEW s \in Roles PROVE Working(s)'
  <2>1. CASE s # r
    BY <1>1, <1>6, <1>8, <2>1, WorkingLasts DEF ReviewInv, ReviewTyped
  <2>2. CASE s = r
    <3>1. leaves'[s] = <<>> /\ broker'[s] = b /\ scratch'[s] = a
      BY <1>1, <1>2, <1>3, <1>6, <2>2
    <3>2. RanUnder(broker[s].auth, s)' /\ Len(leaves'[s]) = 0
      BY <3>1 DEF RanUnder
    <3>3. a \in state'.consumed /\ a \in Issued' /\ issued'[a].role = s
      BY <1>1, <1>8, <2>2 DEF RoleOf
    <3> QED
      BY <1>1, <1>4, <3>1, <3>2, <3>3, NoneIsNoAuth, ReviewAssumption DEF Working, RoleOf
  <2> QED
    BY <2>1, <2>2
<1>11. Preparing'
  <2>1. ASSUME NEW q \in Procs, q # p, AtWork(q)'
        PROVE  AtWork(q) /\ proc'[q] = proc[q] /\ RoleOf(proc[q].auth) # r
               /\ RoleOf(proc[q].auth) \in Roles
    <3>1. AtWork(q) /\ proc'[q] = proc[q]
      BY <1>7, <2>1 DEF Moves, AtWork
    <3>2. RoleOf(proc[q].auth) \in Roles
      BY <3>1, RoleTyped DEF ReviewInv, ReviewTyped, Knows, AtWork, LaunchSteps, PrepSteps
    <3> QED
      BY <1>1, <2>1, <3>1, <3>2 DEF ReviewInv, Preparing, AtWork
  <2>2. proc'[p].auth = a
    BY <1>7 DEF Keeps
  <2>3. ASSUME NEW q \in Procs, AtWork(q)'
        PROVE  /\ scratch'[RoleOf(proc[q].auth)'] = proc'[q].auth
               /\ (proc'[q].pc = "p_run" <=> broker'[RoleOf(proc[q].auth)'].status = "none")
    <3>1. CASE q = p
      BY <1>1, <1>2, <1>4, <1>6, <1>7, <1>8, <2>2, <3>1 DEF RoleOf
    <3>2. CASE q # p
      <4>1. /\ AtWork(q) /\ proc'[q] = proc[q] /\ RoleOf(proc[q].auth) # r
            /\ RoleOf(proc[q].auth) \in Roles
        BY <2>1, <2>3, <3>2
      <4> QED
        BY <1>1, <1>6, <1>8, <4>1 DEF RoleOf, ReviewInv, Preparing
    <3> QED
      BY <3>1, <3>2
  <2>4. ASSUME NEW q \in Procs, NEW t \in Procs, AtWork(q)', AtWork(t)',
               (RoleOf(proc[q].auth) = RoleOf(proc[t].auth))', q # t
        PROVE  FALSE
    <3>1. q # p => AtWork(q) /\ proc'[q] = proc[q] /\ RoleOf(proc[q].auth) # r
      BY <2>1, <2>4
    <3>2. t # p => AtWork(t) /\ proc'[t] = proc[t] /\ RoleOf(proc[t].auth) # r
      BY <2>1, <2>4
    <3>3. issued'[proc'[q].auth].role = issued'[proc'[t].auth].role
      BY <2>4 DEF RoleOf
    <3> QED
      BY <1>8, <2>2, <2>4, <3>1, <3>2, <3>3 DEF RoleOf, ReviewInv, Preparing
  <2> QED
    BY <2>3, <2>4 DEF Preparing
<1>12. Knows(p)' /\ Wary(p)'
  BY <1>1, <1>7, <1>8
     DEF Knows, Wary, LaunchSteps, PrepSteps, ExecSteps, FinalSteps, JoinSteps, Burned, Keeps
<1> QED
  BY <1>1, <1>7, <1>8, <1>9, <1>10, <1>11, <1>12, WorkStep

\* A step of a broker that runs.
LEMMA BrokerStep ==
  ASSUME ReviewInv, NEW p \in Procs, Moves(p),
         \/ proc'[p] = proc[p]
         \/ Knows(p)' /\ Wary(p)' /\ ~AtWork(p)' /\ proc'[p].pc # "f_write",
         NEW r \in Roles, HostTyped', WorkTyped',
         \A s \in Roles : s # r => broker'[s] = broker[s] /\ leaves'[s] = leaves[s],
         broker[r].status # "none", broker'[r].status # "none",
         broker'[r].auth = broker[r].auth,
         leaves'[r] = leaves[r] \/ Len(leaves[r]) < Commands,
         RanUnder(broker[r].auth, r)', Len(leaves'[r]) <= Commands,
         broker'[r].status = "up" =>
           /\ broker'[r].seq < Commands
           /\ Len(leaves'[r]) = IF broker'[r].busy = None THEN broker'[r].seq ELSE broker'[r].seq + 1,
         UNCHANGED <<state, issued, scratch, attest, result, receipt, aggregate>>
  PROVE  ReviewInv'
<1>1. ASSUME NEW s \in Roles, Complete(s) PROVE Complete(s)'
  <2>1. Len(leaves[s]) = Commands /\ Commands \in Nat
    BY <1>1, ReviewAssumption DEF Complete
  <2>2. ~(Len(leaves[s]) < Commands)
    BY <2>1
  <2>3. leaves'[s] = leaves[s] /\ scratch'[s] = scratch[s]
    BY <2>2
  <2> QED
    BY <1>1, <2>3 DEF Complete, RanUnder
<1>2. Grows
  BY <1>1 DEF Grows, Issued
<1>3. ASSUME NEW s \in Roles PROVE Working(s)'
  <2>1. CASE s # r
    BY <1>2, <2>1, WorkingLasts DEF ReviewInv, ReviewTyped
  <2>2. CASE s = r
    <3>1. Working(r)
      BY DEF ReviewInv
    <3>2. /\ RanUnder(broker[s].auth, s)' /\ broker'[s].status # "none"
          /\ broker'[s].auth = scratch'[s] /\ scratch'[s] # None
      BY <2>2, <3>1 DEF Working
    <3> QED
      BY <2>2, <3>1, <3>2 DEF Working, Issued, RoleOf
  <2> QED
    BY <2>1, <2>2
<1>4. \A s \in Roles : broker'[s].status = "none" <=> broker[s].status = "none"
  OBVIOUS
<1>5. AtWork(p)' => /\ AtWork(p) /\ proc'[p].auth = proc[p].auth
                    /\ (proc'[p].pc = "p_run" <=> proc[p].pc = "p_run")
  BY DEF AtWork
<1>6. Preparing'
  BY <1>2, <1>4, <1>5, PreparingLasts DEF ReviewInv, ReviewTyped
<1>7. Knows(p)' /\ Wary(p)'
  BY <1>2, OthersKnow DEF ReviewInv, ReviewTyped
<1> QED
  BY <1>2, <1>3, <1>6, <1>7, WorkStep

LEMMA AwaitBrokerKeeps ==
  ASSUME ReviewInv, NEW p \in Procs, AwaitBroker(p)
  PROVE  ReviewInv'
<1> DEFINE a == proc[p].auth
           r == RoleOf(a)
<1>1. /\ proc \in [Procs -> Processes] /\ proc[p].pc = "p_wait"
      /\ a \in Issued /\ r \in Roles /\ a \in state.consumed /\ proc[p].clean
      /\ UNCHANGED <<state, issued, host, scratch, leaves, attest, result, receipt, aggregate>>
  BY RoleTyped
     DEF AwaitBroker, Host, Files, ReviewInv, ReviewTyped, Knows, Wary, Unclean, LaunchSteps,
         PrepSteps, Burned
<1>2. broker[r].status # "none" /\ Working(r)
  BY <1>1 DEF ReviewInv, Preparing, AtWork
<1>3. HostTyped'
  BY <1>1, HostLasts
<1>4. CASE Goto(p, "p_attest") /\ UNCHANGED broker
  <2>1. Moves(p) /\ proc'[p].pc = "p_attest" /\ Keeps(p)
    BY <1>1, <1>4, WentTo DEF Steps, LaunchSteps, PrepSteps
  <2>2. Knows(p)' /\ Wary(p)'
    BY <1>1, <2>1
       DEF Knows, Wary, LaunchSteps, PrepSteps, ExecSteps, FinalSteps, JoinSteps, Burned, Keeps,
           Issued
  <2>3. Grows
    BY <1>1, <1>4, NothingHappens
  <2>4. \A s \in Roles : Working(s)'
    BY <1>1, <1>4, <2>3, WorkingLasts DEF ReviewInv, ReviewTyped
  <2>5. AtWork(p) /\ proc'[p].auth = a /\ (proc'[p].pc = "p_run" <=> proc[p].pc = "p_run")
    BY <1>1, <2>1 DEF AtWork, Keeps
  <2>6. \A s \in Roles : broker'[s].status = "none" <=> broker[s].status = "none"
    BY <1>4
  <2>7. Preparing'
    BY <2>1, <2>3, <2>5, <2>6, PreparingLasts DEF ReviewInv, ReviewTyped
  <2>8. WorkTyped'
    BY <1>1, <1>4 DEF WorkTyped, ReviewInv, ReviewTyped
  <2> QED
    BY <1>1, <1>3, <2>1, <2>2, <2>3, <2>4, <2>7, <2>8, WorkStep
<1>5. CASE Stop(p) /\ broker' = [broker EXCEPT ![r].status = "dead"]
  <2>1. /\ broker' \in [Roles -> Brokers] /\ broker'[r].status = "dead"
        /\ broker'[r].auth = broker[r].auth
        /\ \A s \in Roles : s # r => broker'[s] = broker[s]
    BY <1>1, <1>5 DEF ReviewInv, ReviewTyped, WorkTyped, Brokers
  <2>2. WorkTyped'
    BY <1>1, <2>1 DEF WorkTyped, ReviewInv, ReviewTyped
  <2>3. RanUnder(broker[r].auth, r) /\ Len(leaves[r]) <= Commands
    BY <1>2 DEF Working
  <2>4. ASSUME NEW s \in Roles, s = r PROVE RanUnder(broker[s].auth, s)'
    BY <1>1, <2>1, <2>3, <2>4 DEF RanUnder
  <2>5. PICK s \in Roles : s = r
    BY <1>1
  <2>6. /\ \A t \in Roles : t # s => broker'[t] = broker[t] /\ leaves'[t] = leaves[t]
        /\ broker[s].status # "none" /\ broker'[s].status = "dead"
        /\ broker'[s].auth = broker[s].auth /\ leaves'[s] = leaves[s]
        /\ Len(leaves'[s]) <= Commands
    BY <1>1, <1>2, <2>1, <2>3, <2>5
  <2> QED
    BY <1>1, <1>3, <1>5, <2>2, <2>4, <2>5, <2>6, Stopped, BrokerStep
<1> QED
  BY <1>4, <1>5 DEF AwaitBroker

LEMMA SendKeeps ==
  ASSUME ReviewInv, NEW p \in Procs, Send(p)
  PROVE  ReviewInv'
<1> DEFINE a == proc[p].auth
<1>1. PICK r \in Roles : r = RoleOf(a)
  BY RoleTyped DEF Send, ReviewInv, ReviewTyped, Knows, LaunchSteps, ExecSteps
<1> DEFINE b == broker[r]
<1>2. /\ proc \in [Procs -> Processes] /\ proc[p].pc = "e_send"
      /\ a \in Issued /\ a \in Auths /\ a \in state.consumed /\ proc[p].clean
      /\ Honest(r, proc[p].seen) /\ b.busy = None /\ b \in Brokers
      /\ UNCHANGED <<state, issued, host, scratch, attest, result, receipt, aggregate>>
  BY <1>1, RoleTyped
     DEF Send, Host, Files, ReviewInv, ReviewTyped, WorkTyped, Knows, Wary, Unclean, LaunchSteps,
         ExecSteps, Burned
<1>3. HostTyped' /\ Issued' = Issued /\ Working(r)
  BY <1>2, HostLasts DEF ReviewInv
<1>4. CASE b.status # "up"
  <2>1. UNCHANGED <<broker, leaves>>
    BY <1>1, <1>4 DEF Send
  <2>2. Stop(p)
    BY <1>1, <1>4 DEF Send, Check
  <2> QED
    BY <1>2, <2>1, <2>2, LooksAndStops DEF Unchanged
<1>5. CASE b.status = "up" /\ ~Expected(p, r)
  <2>1. broker' = [broker EXCEPT ![r].status = "dead"] /\ leaves' = leaves /\ Stop(p)
    BY <1>1, <1>5 DEF Send, Check
  <2>2. /\ broker' \in [Roles -> Brokers] /\ broker'[r].status = "dead"
        /\ broker'[r].auth = broker[r].auth
        /\ \A s \in Roles : s # r => broker'[s] = broker[s] /\ leaves'[s] = leaves[s]
    BY <2>1 DEF ReviewInv, ReviewTyped, WorkTyped, Brokers
  <2>3. WorkTyped'
    BY <1>2, <2>1, <2>2 DEF WorkTyped, ReviewInv, ReviewTyped
  <2>4. RanUnder(broker[r].auth, r)' /\ Len(leaves'[r]) <= Commands
    BY <1>3, <2>1, <2>2 DEF Working, RanUnder
  <2> QED
    BY <1>2, <1>3, <1>5, <2>1, <2>2, <2>3, <2>4, Stopped, BrokerStep
<1>6. CASE b.status = "up" /\ Expected(p, r)
  <2>1. /\ broker' = [broker EXCEPT ![r].busy = p]
        /\ leaves' = [leaves EXCEPT ![r] = Append(@, <<a, b.seq + 1>>)]
        /\ Goto(p, "e_reply")
    BY <1>1, <1>6 DEF Send, Check
  <2>2. /\ broker' \in [Roles -> Brokers] /\ broker'[r].status = "up"
        /\ broker'[r].auth = b.auth /\ broker'[r].seq = b.seq /\ broker'[r].busy = p
        /\ \A s \in Roles : s # r => broker'[s] = broker[s]
    BY <1>6, <2>1 DEF ReviewInv, ReviewTyped, WorkTyped, Brokers
  <2>3. b.auth = a /\ b.seq < Commands /\ b.seq \in Nat /\ Len(leaves[r]) = b.seq
        /\ RanUnder(b.auth, r)
    BY <1>2, <1>3, <1>6 DEF Working, Expected, Brokers
  <2>4. /\ leaves' \in [Roles -> Seq(Auths \X Nat)]
        /\ leaves'[r] = Append(leaves[r], <<a, b.seq + 1>>)
        /\ \A s \in Roles : s # r => leaves'[s] = leaves[s]
    BY <1>2, <2>1, <2>3 DEF ReviewInv, ReviewTyped, WorkTyped
  <2>5. WorkTyped'
    BY <1>2, <2>2, <2>4 DEF WorkTyped, ReviewInv, ReviewTyped
  <2>6. leaves[r] \in Seq(Auths \X Nat)
    BY DEF ReviewInv, ReviewTyped, WorkTyped
  <2>7. Len(leaves'[r]) = b.seq + 1
    BY <2>3, <2>4, <2>6
  <2>8. RanUnder(broker[r].auth, r)'
    <3> DEFINE old == leaves[r]
               n == b.seq
               e == <<a, n + 1>>
    <3>1. old \in Seq(Auths \X Nat) /\ n \in Nat /\ Len(old) = n
      BY <2>3, <2>6
    <3>2. old = [k \in 1..n |-> <<a, k>>]
      BY <2>3 DEF RanUnder
    <3>3. \A k \in 1..n : old[k] = <<a, k>>
      BY <3>2
    <3>4. /\ Append(old, e) = [k \in 1..(n + 1) |-> IF k = n + 1 THEN e ELSE old[k]]
      BY <3>1
    <3>5. \A k \in 1..(n + 1) : (IF k = n + 1 THEN e ELSE old[k]) = <<a, k>>
      <4> SUFFICES ASSUME NEW k \in 1..(n + 1)
                   PROVE  (IF k = n + 1 THEN e ELSE old[k]) = <<a, k>>
        OBVIOUS
      <4>1. k # n + 1 => k \in 1..n
        BY <3>1
      <4> QED
        BY <3>3, <4>1
    <3>6. Append(old, e) = [k \in 1..(n + 1) |-> <<a, k>>]
      <4> HIDE DEF old, n, e
      <4> QED
        BY <3>4, <3>5
    <3> QED
      BY <2>2, <2>3, <2>4, <2>7, <3>6 DEF RanUnder
  <2>9. /\ Moves(p) /\ proc'[p].pc = "e_reply" /\ Keeps(p)
    BY <1>2, <2>1, WentTo DEF Steps, LaunchSteps, ExecSteps
  <2>10. Knows(p)'
    <3>1. /\ proc'[p].auth = a /\ proc'[p].seen = proc[p].seen /\ issued'[a].role = r
      BY <1>1, <1>2, <2>9 DEF Keeps, RoleOf
    <3>2. \A w \in {proc[p].seen} : Honest(r, w)'
      <4>1. ~Complete(r)
        BY <2>3, ReviewAssumption DEF Complete
      <4> QED
        BY <1>2, <4>1 DEF Honest
    <3> QED
      BY <1>2, <1>3, <2>9, <3>1, <3>2
         DEF Knows, LaunchSteps, PrepSteps, ExecSteps, FinalSteps, JoinSteps, Burned, RoleOf,
             Honest, Complete, RanUnder
  <2>11. Wary(p)' /\ ~AtWork(p)'
    BY <1>2, <2>9 DEF Wary, AtWork, Keeps
  <2>12. Len(leaves'[r]) <= Commands /\ Len(leaves[r]) < Commands /\ p # None
    BY <2>3, <2>7, ReviewAssumption
  <2> QED
    BY <1>2, <1>3, <1>6, <2>2, <2>3, <2>4, <2>5, <2>7, <2>8, <2>9, <2>10, <2>11, <2>12, BrokerStep
<1> QED
  BY <1>4, <1>5, <1>6

LEMMA ReplyKeeps ==
  ASSUME ReviewInv, NEW r \in Roles, Reply(r)
  PROVE  ReviewInv'
<1> DEFINE b == broker[r]
           p == b.busy
           waits == proc[p].pc = "e_reply" /\ proc[p].auth = b.auth
           last == b.seq + 1 = Commands
           status == IF waits /\ last THEN "done"
                     ELSE IF waits /\ ~b.junk THEN "up" ELSE "dead"
           n == b.seq + 1
           b2 == [b EXCEPT !.busy = None, !.seq = n, !.status = status]
<1>1. /\ proc \in [Procs -> Processes] /\ b \in Brokers /\ b.status = "up" /\ b.busy # None
      /\ UNCHANGED <<state, issued, host, scratch, leaves, attest, result, receipt, aggregate>>
      /\ p \in Procs
  BY DEF Reply, Host, Files, ReviewInv, ReviewTyped, WorkTyped, Brokers
<1>2. HostTyped' /\ Issued' = Issued /\ Working(r)
  BY <1>1, HostLasts DEF ReviewInv
<1>3. /\ b.seq \in Nat /\ b.seq < Commands /\ Len(leaves[r]) = b.seq + 1
      /\ RanUnder(b.auth, r) /\ b.auth = scratch[r] /\ Len(leaves[r]) <= Commands
      /\ scratch[r] # None => RoleOf(scratch[r]) = r
  BY <1>1, <1>2 DEF Working, Brokers
<1>5. broker' = [broker EXCEPT ![r] = b2]
  BY DEF Reply
<1>s. status \in {"done", "up", "dead"} /\ (status = "up" => ~last)
  OBVIOUS
<1>n. n \in Nat
  BY <1>3
<1> HIDE DEF status, n
<1>4. /\ b2 \in Brokers /\ b2.auth = b.auth /\ b2.seq = n /\ b2.busy = None
      /\ b2.status # "none" /\ (b2.status = "up" => ~last)
  BY <1>1, <1>n, <1>s DEF Brokers
<1> HIDE DEF b2
<1>6. /\ broker' \in [Roles -> Brokers] /\ broker'[r] = b2
      /\ \A s \in Roles : s # r => broker'[s] = broker[s] /\ leaves'[s] = leaves[s]
  BY <1>1, <1>4, <1>5 DEF ReviewInv, ReviewTyped, WorkTyped
<1>7. WorkTyped'
  BY <1>1, <1>6 DEF WorkTyped, ReviewInv, ReviewTyped
<1>8. RanUnder(broker[r].auth, r)' /\ Len(leaves'[r]) <= Commands /\ leaves'[r] = leaves[r]
  BY <1>1, <1>3, <1>4, <1>6 DEF RanUnder
<1>9. broker'[r].status = "up" =>
        /\ broker'[r].seq < Commands
        /\ Len(leaves'[r]) = IF broker'[r].busy = None THEN broker'[r].seq ELSE broker'[r].seq + 1
  BY <1>1, <1>3, <1>4, <1>6, ReviewAssumption DEF n
<1>10. PICK q \in Procs : q = p
  BY <1>1
<1>11. Moves(q) /\ \/ proc'[q] = proc[q]
                   \/ Knows(q)' /\ Wary(q)' /\ ~AtWork(q)' /\ proc'[q].pc # "f_write"
  <2>1. CASE ~waits
    <3>1. proc' = proc
      BY <2>1 DEF Reply
    <3> QED
      BY <1>1, <3>1 DEF Moves
  <2>2. CASE waits /\ Stop(q)
    BY <1>1, <2>2, Stopped
  <2>3. CASE waits /\ proc' = [proc EXCEPT ![q].seq = @ + 1,
                                           ![q].pc = IF last THEN "e_write" ELSE "e_send"]
    <3> DEFINE step == IF last THEN "e_write" ELSE "e_send"
    <3>1. step \in {"e_write", "e_send"} /\ step \in Steps /\ (step = "e_write" => last)
      BY DEF Steps, LaunchSteps, ExecSteps
    <3> HIDE DEF step
    <3> DEFINE m == proc[q].seq + 1
               x == [proc[q] EXCEPT !.seq = m, !.pc = step]
    <3>m. proc[q] \in Processes /\ m \in Nat
      BY <1>1 DEF Processes
    <3>x. /\ x \in Processes /\ x.pc = step /\ x.auth = proc[q].auth
          /\ x.seen = proc[q].seen /\ x.clean = proc[q].clean
      <4> HIDE DEF m
      <4> QED
        BY <3>1, <3>m DEF Processes
    <3>y. proc' = [proc EXCEPT ![q] = x]
      BY <1>1, <2>3 DEF Processes, step
    <3> HIDE DEF x
    <3>2. /\ Moves(q) /\ proc'[q].pc = step /\ proc'[q].auth = proc[q].auth
          /\ proc'[q].seen = proc[q].seen /\ proc'[q].clean = proc[q].clean
      BY <1>1, <3>x, <3>y DEF Moves
    <3>3. /\ proc[q].pc = "e_reply" /\ proc[q].auth = b.auth /\ proc[q].auth \in Issued
          /\ proc[q].auth \in state.consumed /\ proc[q].clean
          /\ Honest(RoleOf(proc[q].auth), proc[q].seen)
      BY <1>10, <2>3
         DEF ReviewInv, Knows, Wary, Unclean, LaunchSteps, ExecSteps, Burned
    <3>4. RoleOf(proc[q].auth) = r
      BY <1>3, <3>3, RoleTyped, NoneIsNoAuth DEF ReviewInv, ReviewTyped
    <3>5. last => Complete(r)
      BY <1>3 DEF Complete
    <3>6. UNCHANGED <<scratch, leaves, issued, state>>
      BY <1>1
    <3>7. Knows(q)'
      BY <1>2, <3>1, <3>2, <3>3, <3>4, <3>5, <3>6
         DEF Knows, LaunchSteps, PrepSteps, ExecSteps, FinalSteps, JoinSteps, Burned, RoleOf,
             Honest, Complete, RanUnder
    <3>8. Wary(q)' /\ ~AtWork(q)' /\ proc'[q].pc # "f_write"
      BY <3>1, <3>2, <3>3 DEF Wary, AtWork
    <3> QED
      BY <3>2, <3>7, <3>8
  <2> QED
    BY <1>10, <2>1, <2>2, <2>3 DEF Reply
<1> QED
  BY <1>1, <1>2, <1>4, <1>6, <1>7, <1>8, <1>9, <1>11, BrokerStep

\* host.faults counts, and no more.
LEMMA FaultyTyped ==
  ASSUME HostTyped, NEW h \in [now : Nat, boot : Nat, inputs : Inputs, faults : Nat], Faulty(h),
         UNCHANGED <<state, issued>>
  PROVE  HostTyped' /\ Issued' = Issued
BY DEF HostTyped, Faulty, Issued

LEMMA GiveUpKeeps ==
  ASSUME ReviewInv, NEW p \in Procs, GiveUp(p)
  PROVE  ReviewInv'
<1> DEFINE a == proc[p].auth
<1>1. PICK r \in Roles : r = RoleOf(a)
  BY RoleTyped DEF GiveUp, ReviewInv, ReviewTyped, Knows, LaunchSteps, ExecSteps
<1>2. /\ proc \in [Procs -> Processes] /\ Stop(p) /\ Faulty(host)
      /\ proc[p].pc \in {"e_send", "e_reply"}
      /\ UNCHANGED <<state, issued, scratch, leaves, attest, result, receipt, aggregate>>
      /\ a \in Issued /\ Honest(r, proc[p].seen) /\ Working(r)
  BY <1>1 DEF GiveUp, Files, ReviewInv, ReviewTyped, Knows, LaunchSteps, ExecSteps
<1>4. HostTyped' /\ Issued' = Issued
  BY <1>2, FaultyTyped DEF ReviewInv, ReviewTyped, HostTyped
<1>3. PICK j \in BOOLEAN : broker' = [broker EXCEPT ![r].junk = j]
  <2>1. broker[r].junk \in BOOLEAN
    BY DEF ReviewInv, ReviewTyped, WorkTyped, Brokers
  <2> QED
    BY <1>1, <2>1 DEF GiveUp
<1>0. CASE proc[p].pc = "e_reply"
  <2>1. broker'[r].junk = broker[r].junk
    BY <1>0, <1>1 DEF GiveUp, ReviewInv, ReviewTyped, WorkTyped, Brokers
  <2>2. broker' = broker
    BY <1>3, <2>1 DEF ReviewInv, ReviewTyped, WorkTyped, Brokers
  <2>3. Grows
    BY <1>2, <1>4, <2>2, GrowsQuietly DEF ReviewInv, ReviewTyped, Issued
  <2> QED
    BY <1>2, <1>4, <2>2, <2>3, QuietStop
<1>5. /\ broker' \in [Roles -> Brokers] /\ broker'[r].status = broker[r].status
      /\ broker'[r].auth = broker[r].auth /\ broker'[r].seq = broker[r].seq
      /\ broker'[r].busy = broker[r].busy
      /\ \A s \in Roles : s # r => broker'[s] = broker[s] /\ leaves'[s] = leaves[s]
  BY <1>2, <1>3 DEF ReviewInv, ReviewTyped, WorkTyped, Brokers
<1>6. CASE broker[r].status = "none"
  BY <1>0, <1>1, <1>2, <1>6 DEF GiveUp, Working, NoBroker
<1> SUFFICES ASSUME broker[r].status # "none" PROVE ReviewInv'
  BY <1>6
<1>7. WorkTyped'
  BY <1>2, <1>5 DEF WorkTyped, ReviewInv, ReviewTyped
<1>8. /\ RanUnder(broker[r].auth, r)' /\ Len(leaves'[r]) <= Commands /\ leaves'[r] = leaves[r]
  BY <1>2, <1>5 DEF Working, RanUnder
<1>9. broker'[r].status = "up" =>
        /\ broker'[r].seq < Commands
        /\ Len(leaves'[r]) = IF broker'[r].busy = None THEN broker'[r].seq ELSE broker'[r].seq + 1
  BY <1>2, <1>5 DEF Working
<1> QED
  BY <1>2, <1>4, <1>5, <1>7, <1>8, <1>9, Stopped, BrokerStep

-----------------------------------------------------------------------------
(* What the commands write, and what the human and the host do.            *)

\* A step that writes files of the reviews.
LEMMA FileStep ==
  ASSUME ReviewInv, Grows, NEW p, Moves(p), p \in Procs => Knows(p)' /\ Wary(p)',
         AtWork(p)' => proc'[p] = proc[p], HostTyped', FilesTyped',
         UNCHANGED <<scratch, broker, leaves>>,
         \A r \in Roles : attest'[r] \in {None, Torn} \/ Honest(r, attest[r])',
         \A r \in Roles : ReceiptTrue(r)', Writing',
         (aggregate \notin {None, Torn} => Joined(aggregate.verdict, aggregate.chains))'
  PROVE  ReviewInv'
<1>1. ReviewTyped'
  BY DEF ReviewInv, ReviewTyped, WorkTyped, Moves
<1>2. \A q \in Procs : Knows(q)' /\ Wary(q)'
  BY OthersKnow DEF ReviewInv, ReviewTyped, Moves
<1>3. \A r \in Roles : Working(r)'
  BY WorkingLasts DEF ReviewInv, ReviewTyped
<1>4. AtWork(p)' => /\ AtWork(p) /\ proc'[p].auth = proc[p].auth
                    /\ (proc'[p].pc = "p_run" <=> proc[p].pc = "p_run")
  BY DEF AtWork
<1>5. Preparing'
  BY <1>4, PreparingLasts DEF ReviewInv, ReviewTyped
<1> QED
  BY <1>1, <1>2, <1>3, <1>5 DEF ReviewInv

\* Grows, but for what is said of an attestation.
LEMMA GrowsAroundAttest ==
  ASSUME ReviewInv, UNCHANGED <<state, issued, scratch, leaves, result, receipt>>,
         \A r \in Roles : attest'[r] = attest[r] \/ attest'[r] = Torn \/ Honest(r, attest[r])'
  PROVE  Grows
<1>1. \A r \in Roles : Complete(r) => Complete(r)'
  BY DEF Complete, RanUnder
<1> QED
  BY <1>1 DEF Grows, Issued

LEMMA AttestStep ==
  ASSUME ReviewInv, NEW p, Moves(p), p \in Procs => Knows(p)' /\ Wary(p)',
         proc'[p] = proc[p] \/ (~AtWork(p)' /\ proc'[p].pc # "f_write"),
         HostTyped', FilesTyped',
         UNCHANGED <<state, issued, scratch, broker, leaves, result, receipt, aggregate>>,
         \A r \in Roles : attest'[r] = attest[r] \/ attest'[r] = Torn \/ Honest(r, attest[r])'
  PROVE  ReviewInv'
<1>1. Grows
  BY GrowsAroundAttest
<1>2. \A r \in Roles : attest'[r] \in {None, Torn} \/ Honest(r, attest[r])'
  <2> SUFFICES ASSUME NEW r \in Roles, attest'[r] = attest[r], attest[r] \notin {None, Torn}
               PROVE  attest'[r] \in {None, Torn} \/ Honest(r, attest[r])'
    OBVIOUS
  <2>1. Honest(r, attest[r])
    BY DEF ReviewInv
  <2> QED
    BY <1>1, <2>1, AttestLasts
<1>3. \A r \in Roles : ReceiptTrue(r)'
  BY <1>1, ReceiptLasts DEF ReviewInv, ReviewTyped
<1>4. Writing'
  BY <1>1, WritingLasts DEF ReviewInv, ReviewTyped
<1>5. (aggregate \notin {None, Torn} => Joined(aggregate.verdict, aggregate.chains))'
  BY <1>1, AggregateLasts DEF ReviewInv, ReviewTyped
<1> QED
  BY <1>1, <1>2, <1>3, <1>4, <1>5, FileStep

LEMMA WriteAttestationKeeps ==
  ASSUME ReviewInv, NEW p \in Procs, WriteAttestation(p)
  PROVE  ReviewInv'
<1> DEFINE a == proc[p].auth
           w == [auth |-> a, finishedAt |-> None, fresh |-> FALSE]
<1>1. PICK r \in Roles : r = RoleOf(a)
  BY RoleTyped DEF WriteAttestation, ReviewInv, ReviewTyped, Knows, LaunchSteps, PrepSteps
<1>2. /\ proc \in [Procs -> Processes] /\ Stop(p) /\ a \in Auths
      /\ UNCHANGED <<state, issued, host, scratch, broker, leaves, result, receipt, aggregate>>
      /\ attest' = [attest EXCEPT ![r] = w] /\ scratch[r] = a
  BY <1>1, RoleTyped
     DEF WriteAttestation, Host, Work, ReviewInv, ReviewTyped, Preparing, AtWork, Knows,
         LaunchSteps, PrepSteps
<1>3. w \in Attests /\ w.auth = a /\ w.finishedAt = None
  BY <1>2 DEF Attests
<1> HIDE DEF w
<1>4. /\ FilesTyped' /\ attest'[r] = w
      /\ \A s \in Roles : s # r => attest'[s] = attest[s]
  BY <1>2, <1>3 DEF FilesTyped, ReviewInv, ReviewTyped
<1>5. Honest(r, attest[r])'
  BY <1>2, <1>3, <1>4 DEF Honest
<1>6. HostTyped'
  BY <1>2, HostLasts
<1> QED
  BY <1>2, <1>4, <1>5, <1>6, Stopped, AttestStep

LEMMA WriteExecutionKeeps ==
  ASSUME ReviewInv, NEW p \in Procs, WriteExecution(p)
  PROVE  ReviewInv'
<1> DEFINE a == proc[p].auth
           w == [proc[p].seen EXCEPT !.finishedAt = host.now]
<1>1. PICK r \in Roles : r = RoleOf(a)
  BY RoleTyped DEF WriteExecution, ReviewInv, ReviewTyped, Knows, LaunchSteps, ExecSteps
<1>2. /\ proc \in [Procs -> Processes] /\ Stop(p) /\ host.now \in Nat
      /\ UNCHANGED <<state, issued, host, scratch, broker, leaves, result, receipt, aggregate>>
      /\ attest' = [attest EXCEPT ![r] = w]
      /\ Honest(r, proc[p].seen) /\ Complete(r)
  BY <1>1
     DEF WriteExecution, Host, Work, ReviewInv, ReviewTyped, HostTyped, Knows, LaunchSteps,
         ExecSteps
<1>3. w \in Attests /\ w.auth = scratch[r]
  BY <1>2 DEF Attests, Honest
<1> HIDE DEF w
<1>4. /\ FilesTyped' /\ attest'[r] = w
      /\ \A s \in Roles : s # r => attest'[s] = attest[s]
  BY <1>2, <1>3 DEF FilesTyped, ReviewInv, ReviewTyped
<1>5. Honest(r, attest[r])'
  BY <1>2, <1>3, <1>4 DEF Honest, Complete, RanUnder
<1>6. HostTyped'
  BY <1>2, HostLasts
<1> QED
  BY <1>2, <1>4, <1>5, <1>6, Stopped, AttestStep

LEMMA SameProcess ==
  ASSUME ReviewInv, NEW p, proc' = proc, Grows
  PROVE  Moves(p) /\ (p \in Procs => Knows(p)' /\ Wary(p)')
BY OthersKnow DEF ReviewInv, ReviewTyped, Moves

LEMMA AttestSessionKeeps ==
  ASSUME ReviewInv, NEW r \in Roles, AttestSession(r)
  PROVE  ReviewInv'
<1> DEFINE w == [attest[r] EXCEPT !.fresh = TRUE]
<1>1. /\ UNCHANGED <<state, issued, host, scratch, broker, leaves, result, receipt, aggregate>>
      /\ attest' = [attest EXCEPT ![r] = w] /\ proc' = proc /\ Honest(r, attest[r])
  BY DEF AttestSession, Host, Work, ReviewInv
<1>2. /\ w \in Attests /\ w.auth = attest[r].auth /\ w.finishedAt = attest[r].finishedAt
  BY <1>1 DEF Attests, Honest
<1> HIDE DEF w
<1>3. /\ FilesTyped' /\ attest'[r] = w
      /\ \A s \in Roles : s # r => attest'[s] = attest[s]
  BY <1>1, <1>2 DEF FilesTyped, ReviewInv, ReviewTyped
<1>4. Honest(r, attest[r])'
  BY <1>1, <1>2, <1>3 DEF Honest, Complete, RanUnder
<1>5. HostTyped'
  BY <1>1, HostLasts
<1>6. \A s \in Roles : attest'[s] = attest[s] \/ attest'[s] = Torn \/ Honest(s, attest[s])'
  BY <1>3, <1>4
<1>7. Grows
  BY <1>1, <1>6, GrowsAroundAttest
<1> QED
  BY <1>1, <1>3, <1>5, <1>6, <1>7, SameProcess, AttestStep

LEMMA WriteResultKeeps ==
  ASSUME ReviewInv, NEW a \in Auths, NEW o \in Outcomes, WriteResult(a, o)
  PROVE  ReviewInv'
<1> DEFINE w == [run |-> a, outcome |-> o]
<1>1. /\ UNCHANGED <<state, issued, scratch, broker, leaves, attest, receipt, aggregate>>
      /\ proc' = proc /\ result' = [result EXCEPT ![RoleOf(a)] = w] /\ w \in Results
      /\ UNCHANGED host \/ Faulty(host)
  BY DEF WriteResult, Work, Results
<1> HIDE DEF w
<1>2. HostTyped'
  BY <1>1, HostLasts, FaultyTyped DEF ReviewInv, ReviewTyped, HostTyped
<1>3. /\ FilesTyped' 
      /\ \A s \in Roles : result'[s] = result[s] \/ result'[s] \in Results
  BY <1>1 DEF FilesTyped, ReviewInv, ReviewTyped
<1>4. \A s \in Roles : Complete(s) => Complete(s)'
  BY <1>1 DEF Complete, RanUnder
<1>5. Grows
  BY <1>1, <1>3, <1>4 DEF Grows, Issued
<1>6. \A r \in Roles : attest'[r] \in {None, Torn} \/ Honest(r, attest[r])'
  <2> SUFFICES ASSUME NEW r \in Roles, attest'[r] = attest[r], attest[r] \notin {None, Torn}
               PROVE  attest'[r] \in {None, Torn} \/ Honest(r, attest[r])'
    BY <1>1
  <2>1. Honest(r, attest[r])
    BY DEF ReviewInv
  <2> QED
    BY <1>5, <2>1, AttestLasts
<1>7. \A r \in Roles : ReceiptTrue(r)'
  BY <1>1, <1>5, ReceiptLasts DEF ReviewInv, ReviewTyped
<1>8. Moves(None) /\ (None \in Procs => Knows(None)' /\ Wary(None)')
  BY <1>1, <1>5, SameProcess
<1>9. Writing'
  BY <1>1, <1>5, <1>8, WritingLasts DEF ReviewInv, ReviewTyped
<1>10. (aggregate \notin {None, Torn} => Joined(aggregate.verdict, aggregate.chains))'
  BY <1>1, <1>5, AggregateLasts DEF ReviewInv, ReviewTyped
<1> QED
  BY <1>1, <1>2, <1>3, <1>5, <1>6, <1>7, <1>8, <1>9, <1>10, FileStep

\* The host or the human acts, and no process moves.
LEMMA IdleEnvironment ==
  ASSUME ReviewInv, Grows, proc' = proc, HostTyped',
         UNCHANGED <<scratch, broker, leaves, attest, result, receipt, aggregate>>
  PROVE  ReviewInv'
<1>1. ReviewTyped'
  BY DEF ReviewInv, ReviewTyped, WorkTyped, FilesTyped
<1>2. \A q \in Procs : Knows(q)' /\ Wary(q)'
  BY OthersKnow DEF ReviewInv, ReviewTyped
<1>3. \A r \in Roles : Working(r)' /\ ReceiptTrue(r)'
  BY WorkingLasts, ReceiptLasts DEF ReviewInv, ReviewTyped
<1>4. \A r \in Roles : (attest[r] \in {None, Torn} \/ Honest(r, attest[r]))'
  BY AttestLasts DEF ReviewInv
<1>5. Moves(None)
  BY SameProcess
<1>6. AtWork(None)' => /\ AtWork(None) /\ proc'[None].auth = proc[None].auth
                       /\ (proc'[None].pc = "p_run" <=> proc[None].pc = "p_run")
  BY DEF AtWork
<1>7. Preparing' /\ Writing'
  BY <1>5, <1>6, PreparingLasts, WritingLasts DEF ReviewInv, ReviewTyped
<1>8. (aggregate \notin {None, Torn} => Joined(aggregate.verdict, aggregate.chains))'
  BY AggregateLasts DEF ReviewInv, ReviewTyped
<1> QED
  BY <1>1, <1>2, <1>3, <1>4, <1>7, <1>8 DEF ReviewInv

LEMMA RevokeKeeps ==
  ASSUME ReviewInv, NEW a \in Auths, RevokeLaunch(a)
  PROVE  ReviewInv'
<1>1. /\ UNCHANGED <<issued, scratch, broker, leaves, attest, result, receipt, aggregate>>
      /\ proc' = proc /\ state' = [state EXCEPT !.revoked = @ \cup {a}] /\ Faulty(host)
  BY DEF RevokeLaunch, Work, Files
<1>2. /\ state' \in [row : BOOLEAN, consumed : SUBSET Auths, revoked : SUBSET Auths]
      /\ state.consumed \subseteq state'.consumed /\ state.revoked \subseteq state'.revoked
  BY <1>1 DEF ReviewInv, ReviewTyped, HostTyped
<1>3. HostTyped'
  BY <1>1, <1>2 DEF ReviewInv, ReviewTyped, HostTyped, Faulty
<1>4. Grows
  BY <1>1, <1>2, GrowsQuietly DEF ReviewInv, ReviewTyped, Issued
<1> QED
  BY <1>1, <1>3, <1>4, IdleEnvironment

LEMMA WorldKeeps ==
  ASSUME ReviewInv, ClockTicks \/ \E i \in Inputs : ChangeInputs(i)
  PROVE  ReviewInv'
<1>1. /\ UNCHANGED <<state, issued, scratch, broker, leaves, attest, result, receipt, aggregate>>
      /\ proc' = proc
  BY DEF ClockTicks, ChangeInputs, Work, Files
<1>2. HostTyped'
  <2>1. HostTyped /\ host \in [now : Nat, boot : Nat, inputs : Inputs, faults : Nat]
    BY DEF ReviewInv, ReviewTyped, HostTyped
  <2>2. CASE ClockTicks
    <3> DEFINE n == host.now + 1
               h == [host EXCEPT !.now = n]
    <3>1. n \in Nat
      BY <2>1
    <3>2. Faulty(h)
      BY <2>2 DEF ClockTicks
    <3> HIDE DEF n
    <3>3. h \in [now : Nat, boot : Nat, inputs : Inputs, faults : Nat]
      BY <2>1, <3>1
    <3> HIDE DEF h
    <3> QED
      BY <1>1, <2>1, <3>2, <3>3, FaultyTyped
  <2>3. CASE \E i \in Inputs : ChangeInputs(i)
    <3>1. PICK i \in Inputs : ChangeInputs(i)
      BY <2>3
    <3> DEFINE h == [host EXCEPT !.inputs = i]
    <3>2. Faulty(h) /\ h \in [now : Nat, boot : Nat, inputs : Inputs, faults : Nat]
      BY <2>1, <3>1 DEF ChangeInputs
    <3> HIDE DEF h
    <3> QED
      BY <1>1, <2>1, <3>2, FaultyTyped
  <2> QED
    BY <2>2, <2>3
<1>3. Grows
  BY <1>1, GrowsQuietly DEF ReviewInv, ReviewTyped, Issued
<1> QED
  BY <1>1, <1>2, <1>3, IdleEnvironment

LEMMA KillKeeps ==
  ASSUME ReviewInv, NEW p \in Procs, Kill(p)
  PROVE  ReviewInv'
<1> DEFINE r == RoleOf(proc[p].auth)
<1>1. /\ UNCHANGED <<state, issued, scratch, broker, leaves, result, receipt>>
      /\ proc \in [Procs -> Processes] /\ Stop(p) /\ Faulty(host)
      /\ aggregate' = aggregate \/ aggregate' = Torn
      /\ attest' = attest \/ attest' = [attest EXCEPT ![r] = Torn]
  BY DEF Kill, Work, ReviewInv, ReviewTyped
<1>2. HostTyped'
  BY <1>1, FaultyTyped DEF ReviewInv, ReviewTyped, HostTyped
<1>3. /\ FilesTyped' /\ \A s \in Roles : attest'[s] = attest[s] \/ attest'[s] = Torn
  BY <1>1 DEF FilesTyped, ReviewInv, ReviewTyped
<1>4. Grows
  BY <1>1, <1>3, GrowsAroundAttest
<1>5. \A s \in Roles : attest'[s] \in {None, Torn} \/ Honest(s, attest[s])'
  <2> SUFFICES ASSUME NEW s \in Roles, attest'[s] = attest[s], attest[s] \notin {None, Torn}
               PROVE  attest'[s] \in {None, Torn} \/ Honest(s, attest[s])'
    BY <1>3
  <2>1. Honest(s, attest[s])
    BY DEF ReviewInv
  <2> QED
    BY <1>4, <2>1, AttestLasts
<1>6. \A s \in Roles : ReceiptTrue(s)'
  BY <1>1, <1>4, ReceiptLasts DEF ReviewInv, ReviewTyped
<1>7. Moves(p) /\ Knows(p)' /\ Wary(p)' /\ ~AtWork(p)' /\ proc'[p].pc # "f_write"
  BY <1>1, Stopped
<1>8. Writing'
  BY <1>1, <1>4, <1>7, WritingLasts DEF ReviewInv, ReviewTyped
<1>9. (aggregate \notin {None, Torn} => Joined(aggregate.verdict, aggregate.chains))'
  BY <1>1, <1>4, AggregateLasts DEF ReviewInv, ReviewTyped
<1> QED
  BY <1>1, <1>2, <1>3, <1>4, <1>5, <1>6, <1>7, <1>8, <1>9, FileStep

\* open("x") gives the receipt to one process, which alone writes it.
LEMMA CreateReceiptKeeps ==
  ASSUME ReviewInv, NEW p \in Procs, CreateReceipt(p)
  PROVE  ReviewInv'
<1> DEFINE a == proc[p].auth
<1>1. PICK r \in Roles : r = RoleOf(a)
  BY RoleTyped DEF CreateReceipt, ReviewInv, ReviewTyped, Knows, LaunchSteps, FinalSteps
<1>2. /\ proc \in [Procs -> Processes] /\ proc[p].pc = "f_create" /\ a \in Issued
      /\ a \in state.consumed /\ proc[p].clean
      /\ Honest(r, proc[p].seen) /\ proc[p].seen.fresh
      /\ proc[p].read \in Results /\ proc[p].read.run = a
      /\ proc[p].seen.finishedAt # None /\ proc[p].seen.finishedAt <= Expires(a)
      /\ UNCHANGED <<state, issued, host, scratch, broker, leaves, attest, result, aggregate>>
  BY <1>1
     DEF CreateReceipt, Host, Work, ReviewInv, ReviewTyped, Knows, Wary, Unclean, LaunchSteps,
         FinalSteps, Burned
<1>3. HostTyped' /\ Issued' = Issued
  BY <1>2, HostLasts
<1>4. CASE receipt[r] # None
  <2>1. receipt' = receipt /\ Stop(p)
    BY <1>1, <1>4 DEF CreateReceipt, Check, ReviewInv, ReviewTyped, FilesTyped
  <2> QED
    BY <1>2, <2>1, LooksAndStops DEF Unchanged
<1>5. CASE receipt[r] = None
  <2>1. receipt' = [receipt EXCEPT ![r] = Torn] /\ Goto(p, "f_write")
    BY <1>1, <1>5 DEF CreateReceipt, Check
  <2>2. /\ FilesTyped' /\ receipt'[r] = Torn
        /\ \A s \in Roles : s # r => receipt'[s] = receipt[s]
    BY <1>2, <2>1 DEF FilesTyped, ReviewInv, ReviewTyped
  <2>3. \A s \in Roles : Complete(s) => Complete(s)'
    BY <1>2 DEF Complete, RanUnder
  <2>4. Grows
    BY <1>2, <1>3, <1>5, <2>2, <2>3 DEF Grows
  <2>5. Moves(p) /\ proc'[p].pc = "f_write" /\ Keeps(p)
    BY <1>2, <2>1, WentTo DEF Steps, LaunchSteps, FinalSteps
  <2>6. issued'[a].role = r /\ issued' = issued /\ proc'[p].auth = a
    BY <1>1, <1>2, <2>5 DEF RoleOf, Keeps
  <2>7. Knows(p)'
    <3>1. /\ proc'[p].seen = proc[p].seen /\ proc'[p].read = proc[p].read
          /\ UNCHANGED <<scratch, leaves, issued, state>>
      BY <1>2, <2>5 DEF Keeps
    <3>2. proc'[p].seen.finishedAt <= Expires(proc[p].auth)'
      BY <1>2, <2>6, <3>1 DEF Expires
    <3> QED
      BY <1>2, <1>3, <2>5, <2>6, <3>1, <3>2
         DEF Knows, LaunchSteps, PrepSteps, ExecSteps, FinalSteps, JoinSteps, Burned, RoleOf,
             Honest, Complete, RanUnder
  <2>8. Wary(p)' /\ ~AtWork(p)'
    BY <1>2, <2>5 DEF Wary, AtWork, Keeps
  <2>9. \A s \in Roles : ReceiptTrue(s)'
    <3>1. ASSUME NEW s \in Roles PROVE ReceiptTrue(s)'
      <4>1. CASE s = r
        BY <2>2, <4>1 DEF ReceiptTrue
      <4>2. CASE s # r
        BY <2>2, <2>4, <4>2, ReceiptLasts DEF ReviewInv, ReviewTyped
      <4> QED
        BY <4>1, <4>2
    <3> QED
      BY <3>1
  <2>10. \A s \in Roles : attest'[s] \in {None, Torn} \/ Honest(s, attest[s])'
    <3> SUFFICES ASSUME NEW s \in Roles, attest'[s] = attest[s], attest[s] \notin {None, Torn}
                 PROVE  attest'[s] \in {None, Torn} \/ Honest(s, attest[s])'
      BY <1>2
    <3>1. Honest(s, attest[s])
      BY DEF ReviewInv
    <3> QED
      BY <2>4, <3>1, AttestLasts
  <2>11. Writing'
    <3>1. ASSUME NEW q \in Procs, q # p, proc'[q].pc = "f_write"
          PROVE  /\ proc'[q] = proc[q] /\ RoleOf(proc[q].auth) \in Roles
                 /\ receipt[RoleOf(proc[q].auth)] = Torn /\ RoleOf(proc[q].auth) # r
      <4>1. proc'[q] = proc[q] /\ proc[q].pc = "f_write"
        BY <2>5, <3>1 DEF Moves
      <4>2. RoleOf(proc[q].auth) \in Roles
        BY <4>1, RoleTyped DEF ReviewInv, ReviewTyped, Knows, LaunchSteps, FinalSteps
      <4> QED
        BY <1>5, <4>1, <4>2, NoneIsNoAuth DEF ReviewInv, Writing
    <3>2. ASSUME NEW q \in Procs, proc'[q].pc = "f_write"
          PROVE  receipt'[issued'[proc'[q].auth].role] = Torn
      <4>1. CASE q = p
        BY <2>2, <2>6, <4>1
      <4>2. CASE q # p
        BY <2>2, <2>6, <3>1, <3>2, <4>2 DEF RoleOf
      <4> QED
        BY <4>1, <4>2
    <3>3. ASSUME NEW q \in Procs, NEW t \in Procs, proc'[q].pc = "f_write",
                 proc'[t].pc = "f_write",
                 issued'[proc'[q].auth].role = issued'[proc'[t].auth].role
          PROVE  q = t
      <4>1. q # p => proc'[q] = proc[q] /\ RoleOf(proc[q].auth) # r
        BY <3>1, <3>3
      <4>2. t # p => proc'[t] = proc[t] /\ RoleOf(proc[t].auth) # r
        BY <3>1, <3>3
      <4> QED
        BY <2>6, <3>3, <4>1, <4>2 DEF RoleOf, ReviewInv, Writing
    <3> QED
      BY <3>2, <3>3 DEF Writing, RoleOf
  <2>12. (aggregate \notin {None, Torn} => Joined(aggregate.verdict, aggregate.chains))'
    BY <1>2, <2>4, AggregateLasts DEF ReviewInv, ReviewTyped
  <2> QED
    BY <1>2, <1>3, <2>2, <2>4, <2>5, <2>7, <2>8, <2>9, <2>10, <2>11, <2>12, FileStep
<1> QED
  BY <1>4, <1>5

LEMMA WriteReceiptKeeps ==
  ASSUME ReviewInv, NEW p \in Procs, WriteReceipt(p)
  PROVE  ReviewInv'
<1> DEFINE a == proc[p].auth
<1>0. PICK c : c = [auth |-> a, workspace |-> proc[p].seen, result |-> proc[p].read]
  OBVIOUS
<1>1. PICK r \in Roles : r = RoleOf(a)
  BY RoleTyped DEF WriteReceipt, ReviewInv, ReviewTyped, Knows, LaunchSteps, FinalSteps
<1>2. /\ proc \in [Procs -> Processes] /\ proc[p].pc = "f_write" /\ Stop(p)
      /\ a \in Issued /\ a \in state.consumed
      /\ Honest(r, proc[p].seen) /\ proc[p].seen.fresh
      /\ proc[p].read \in Results /\ proc[p].read.run = a
      /\ proc[p].seen.finishedAt # None /\ proc[p].seen.finishedAt <= Expires(a)
      /\ receipt[r] = Torn /\ receipt' = [receipt EXCEPT ![r] = c]
      /\ UNCHANGED <<state, issued, host, scratch, broker, leaves, attest, result, aggregate>>
  BY <1>0, <1>1
     DEF WriteReceipt, Host, Work, ReviewInv, ReviewTyped, Knows, LaunchSteps, FinalSteps, Burned,
         Writing
<1>3. HostTyped' /\ Issued' = Issued /\ a \in Auths
  BY <1>2, HostLasts, RoleTyped DEF ReviewInv, ReviewTyped
<1>4. /\ c \in Receipts /\ c.auth = a /\ c.workspace = proc[p].seen /\ c.result = proc[p].read
  BY <1>0, <1>2, <1>3 DEF Receipts, Honest
<1>5. /\ FilesTyped' /\ receipt'[r] = c
      /\ \A s \in Roles : s # r => receipt'[s] = receipt[s]
  BY <1>2, <1>4 DEF FilesTyped, ReviewInv, ReviewTyped
<1>6. \A s \in Roles : Complete(s) => Complete(s)'
  BY <1>2 DEF Complete, RanUnder
<1>7. Grows
  BY <1>2, <1>3, <1>5, <1>6 DEF Grows
<1>8. Moves(p) /\ Knows(p)' /\ Wary(p)' /\ ~AtWork(p)' /\ proc'[p].pc # "f_write"
  BY <1>2, Stopped
<1>9. ReceiptTrue(r)'
  <2>1. issued' = issued /\ issued[a].role = r
    BY <1>1, <1>2 DEF RoleOf
  <2>2. Honest(r, c.workspace)'
    BY <1>2, <1>4, <1>5 DEF Honest, Complete, RanUnder
  <2>3. c.workspace.finishedAt <= issued'[a].at + Lifetime
    BY <1>2, <1>4 DEF Expires
  <2> QED
    BY <1>2, <1>3, <1>4, <1>5, <2>1, <2>2, <2>3 DEF ReceiptTrue, RoleOf, Expires, Honest
<1>10. ASSUME NEW s \in Roles PROVE ReceiptTrue(s)'
  <2>1. CASE s = r
    BY <1>9, <2>1
  <2>2. CASE s # r
    BY <1>5, <1>7, <2>2, ReceiptLasts DEF ReviewInv, ReviewTyped
  <2> QED
    BY <2>1, <2>2
<1>11. \A s \in Roles : attest'[s] \in {None, Torn} \/ Honest(s, attest[s])'
  <2> SUFFICES ASSUME NEW s \in Roles, attest'[s] = attest[s], attest[s] \notin {None, Torn}
               PROVE  attest'[s] \in {None, Torn} \/ Honest(s, attest[s])'
    BY <1>2
  <2>1. Honest(s, attest[s])
    BY DEF ReviewInv
  <2> QED
    BY <1>7, <2>1, AttestLasts
<1>12. ASSUME NEW q \in Procs, proc'[q].pc = "f_write"
       PROVE  /\ proc'[q] = proc[q] /\ issued'[proc'[q].auth].role = RoleOf(proc[q].auth)
              /\ receipt'[RoleOf(proc[q].auth)] = Torn
  <2>1. q # p /\ proc'[q] = proc[q] /\ proc[q].pc = "f_write"
    BY <1>8, <1>12 DEF Moves
  <2>2. RoleOf(proc[q].auth) \in Roles /\ receipt[RoleOf(proc[q].auth)] = Torn
    BY <2>1, RoleTyped DEF ReviewInv, ReviewTyped, Writing, Knows, LaunchSteps, FinalSteps
  <2>3. RoleOf(proc[q].auth) # r
    BY <1>1, <1>2, <2>1 DEF ReviewInv, Writing
  <2> QED
    BY <1>2, <1>5, <2>1, <2>2, <2>3 DEF RoleOf
<1>13. ASSUME NEW q \in Procs, NEW t \in Procs, proc'[q].pc = "f_write", proc'[t].pc = "f_write",
              issued'[proc'[q].auth].role = issued'[proc'[t].auth].role
       PROVE  q = t
  BY <1>12, <1>13 DEF ReviewInv, Writing
<1>14. Writing'
  BY <1>12, <1>13 DEF Writing, RoleOf
<1>15. (aggregate \notin {None, Torn} => Joined(aggregate.verdict, aggregate.chains))'
  BY <1>2, <1>7, AggregateLasts DEF ReviewInv, ReviewTyped
<1> QED
  BY <1>2, <1>3, <1>5, <1>7, <1>8, <1>10, <1>11, <1>14, <1>15, FileStep

LEMMA WriteAggregateKeeps ==
  ASSUME ReviewInv, NEW p \in Procs, WriteAggregate(p)
  PROVE  ReviewInv'
<1>1. /\ proc \in [Procs -> Processes] /\ proc[p].pc = "g_write" /\ Stop(p)
      /\ Joined(proc[p].read, proc[p].seen)
      /\ UNCHANGED <<state, issued, host, scratch, broker, leaves, attest, result, receipt>>
  BY DEF WriteAggregate, Host, Work, ReviewInv, ReviewTyped, Knows, JoinSteps
<1>2. CASE aggregate' = aggregate
  BY <1>1, <1>2, LooksAndStops DEF Unchanged
<1>3. CASE aggregate' = [verdict |-> proc[p].read, chains |-> proc[p].seen]
  <2>1. HostTyped' /\ Grows
    BY <1>1, NothingHappens
  <2>2. FilesTyped'
    BY <1>1 DEF FilesTyped, ReviewInv, ReviewTyped
  <2>3. Moves(p) /\ Knows(p)' /\ Wary(p)' /\ ~AtWork(p)' /\ proc'[p].pc # "f_write"
    BY <1>1, Stopped
  <2>4. \A s \in Roles : attest'[s] \in {None, Torn} \/ Honest(s, attest[s])'
    <3> SUFFICES ASSUME NEW s \in Roles, attest'[s] = attest[s], attest[s] \notin {None, Torn}
                 PROVE  attest'[s] \in {None, Torn} \/ Honest(s, attest[s])'
      BY <1>1
    <3>1. Honest(s, attest[s])
      BY DEF ReviewInv
    <3> QED
      BY <2>1, <3>1, AttestLasts
  <2>5. \A s \in Roles : ReceiptTrue(s)'
    BY <1>1, <2>1, ReceiptLasts DEF ReviewInv, ReviewTyped
  <2>6. Writing'
    BY <1>1, <2>1, <2>3, WritingLasts DEF ReviewInv, ReviewTyped
  <2>7. (aggregate \notin {None, Torn} => Joined(aggregate.verdict, aggregate.chains))'
    <3>1. PICK v, c : v = proc[p].read /\ c = proc[p].seen
      OBVIOUS
    <3>2. Joined(v, c)'
      BY <1>1, <2>1, <3>1, JoinedLasts DEF ReviewInv, ReviewTyped
    <3>3. aggregate'.verdict = v /\ aggregate'.chains = c
      BY <1>3, <3>1
    <3> QED
      BY <3>2, <3>3 DEF Joined
  <2> QED
    BY <1>1, <2>1, <2>2, <2>3, <2>4, <2>5, <2>6, <2>7, FileStep
<1> QED
  BY <1>2, <1>3 DEF WriteAggregate

\* A reboot ends every process and every broker; the files and the database stay.
LEMMA RestartHostKeeps ==
  ASSUME ReviewInv, RestartHost
  PROVE  ReviewInv'
<1>1. /\ UNCHANGED <<state, issued, scratch, leaves, attest, result, receipt, aggregate>>
      /\ proc' = [p \in Procs |-> Idle]
  BY DEF RestartHost, Files
<1>2. HostTyped'
  <2>1. HostTyped /\ host \in [now : Nat, boot : Nat, inputs : Inputs, faults : Nat]
    BY DEF ReviewInv, ReviewTyped, HostTyped
  <2> DEFINE n == host.boot + 1
             h == [host EXCEPT !.boot = n]
  <2>2. n \in Nat
    BY <2>1
  <2>3. Faulty(h)
    BY DEF RestartHost
  <2> HIDE DEF n
  <2>4. h \in [now : Nat, boot : Nat, inputs : Inputs, faults : Nat]
    BY <2>1, <2>2
  <2> HIDE DEF h
  <2> QED
    BY <1>1, <2>1, <2>3, <2>4, FaultyTyped
<1>3. Grows
  <2>1. \A r \in Roles : Complete(r) => Complete(r)'
    BY <1>1 DEF Complete, RanUnder
  <2> QED
    BY <1>1, <2>1 DEF Grows, Issued
<1>4. ASSUME NEW r \in Roles
      PROVE  /\ broker'[r] \in Brokers /\ broker'[r].status # "up"
             /\ broker'[r].auth = broker[r].auth
             /\ (broker'[r].status = "none" <=> broker[r].status = "none")
             /\ (broker[r] = NoBroker => broker'[r] = NoBroker)
  <2> DEFINE b == broker[r]
             s == IF b.status = "up" THEN "dead" ELSE b.status
  <2>1. b \in Brokers
    BY DEF ReviewInv, ReviewTyped, WorkTyped
  <2>2. broker'[r] = [b EXCEPT !.status = s, !.busy = None]
    BY DEF RestartHost
  <2>3. s \in {"none", "dead", "done"} /\ (s = "none" <=> b.status = "none")
    BY <2>1 DEF Brokers
  <2> HIDE DEF b, s
  <2>4. /\ broker'[r] \in Brokers /\ broker'[r].status = s /\ broker'[r].auth = b.auth
        /\ broker'[r].seq = b.seq /\ broker'[r].busy = None /\ broker'[r].junk = b.junk
    BY <2>1, <2>2, <2>3 DEF Brokers
  <2>5. ASSUME b = NoBroker PROVE broker'[r] = NoBroker
    <3>1. /\ broker'[r] = [NoBroker EXCEPT !.status = s, !.busy = None]
          /\ s = "none"
      BY <2>2, <2>3, <2>5 DEF NoBroker
    <3> QED
      BY <3>1 DEF NoBroker
  <2> QED
    BY <2>3, <2>4, <2>5 DEF b
<1>5. WorkTyped'
  <2>1. broker' = [r \in Roles |-> broker'[r]]
    BY DEF RestartHost
  <2> QED
    BY <1>1, <1>4, <2>1 DEF WorkTyped, ReviewInv, ReviewTyped
<1>6. ReviewTyped'
  BY <1>1, <1>2, <1>5, IdleTyped DEF ReviewInv, ReviewTyped, FilesTyped
<1>7. ASSUME NEW q \in Procs
      PROVE  Knows(q)' /\ Wary(q)' /\ proc'[q].pc = "idle"
  <2>1. proc'[q].pc = "idle" /\ proc'[q].clean
    BY <1>1 DEF Idle
  <2> QED
    BY <2>1 DEF Knows, Wary, LaunchSteps, PrepSteps, ExecSteps, FinalSteps, JoinSteps, Burned
<1>8. ASSUME NEW r \in Roles PROVE Working(r)'
  <2>1. Working(r)
    BY DEF ReviewInv
  <2>2. RanUnder(broker[r].auth, r)'
    BY <1>1, <1>4, <2>1 DEF Working, RanUnder
  <2> QED
    BY <1>1, <1>4, <2>1, <2>2 DEF Working, Issued, RoleOf
<1>9. \A s \in Roles : (attest[s] \in {None, Torn} \/ Honest(s, attest[s]))'
  BY <1>1, <1>3, AttestLasts DEF ReviewInv
<1>10. \A s \in Roles : ReceiptTrue(s)'
  BY <1>1, <1>3, ReceiptLasts DEF ReviewInv, ReviewTyped
<1>11. Preparing' /\ Writing'
  BY <1>7 DEF Preparing, Writing, AtWork
<1>12. (aggregate \notin {None, Torn} => Joined(aggregate.verdict, aggregate.chains))'
  BY <1>1, <1>3, AggregateLasts DEF ReviewInv, ReviewTyped
<1> QED
  BY <1>6, <1>7, <1>8, <1>9, <1>10, <1>11, <1>12 DEF ReviewInv

-----------------------------------------------------------------------------
(* The invariant, and what it says of the launch.                          *)

LEMMA ReviewInit == Init => ReviewInv
<1> SUFFICES ASSUME Init PROVE ReviewInv
  OBVIOUS
<1>1. ReviewTyped
  <2>1. HostTyped
    BY ReviewAssumption DEF Init, HostTyped
  <2>2. WorkTyped
    <3>1. NoBroker \in Brokers
      BY DEF NoBroker, Brokers
    <3>2. <<>> \in Seq(Auths \X Nat)
      OBVIOUS
    <3> QED
      BY <3>1, <3>2 DEF Init, WorkTyped
  <2>3. FilesTyped /\ proc \in [Procs -> Processes]
    BY IdleTyped DEF Init, FilesTyped
  <2> QED
    BY <2>1, <2>2, <2>3 DEF ReviewTyped
<1>2. ASSUME NEW p \in Procs
      PROVE  Knows(p) /\ Wary(p) /\ proc[p].pc = "idle"
  <2>1. proc[p].pc = "idle" /\ proc[p].clean
    BY DEF Init, Idle
  <2> QED
    BY <2>1 DEF Knows, Wary, LaunchSteps, PrepSteps, ExecSteps, FinalSteps, JoinSteps, Burned
<1>3. ASSUME NEW r \in Roles PROVE Working(r)
  <2>1. /\ scratch[r] = None /\ broker[r] = NoBroker /\ leaves[r] = <<>>
    BY DEF Init
  <2>2. Len(leaves[r]) = 0 /\ broker[r].status = "none"
    BY <2>1 DEF NoBroker
  <2>3. RanUnder(broker[r].auth, r)
    BY <2>1 DEF RanUnder
  <2> QED
    BY <2>1, <2>2, <2>3, ReviewAssumption DEF Working
<1>4. \A r \in Roles : attest[r] \in {None, Torn} /\ ReceiptTrue(r)
  BY DEF Init, ReceiptTrue
<1>5. Preparing /\ Writing
  BY <1>2 DEF Preparing, Writing, AtWork
<1>6. aggregate = None
  BY DEF Init
<1> QED
  BY <1>1, <1>2, <1>3, <1>4, <1>5, <1>6 DEF ReviewInv

LEMMA CommandKeeps ==
  ASSUME ReviewInv, NEW p \in Procs, Command(p)
  PROVE  ReviewInv'
<1>1. CASE Bootstrap(p) \/ WritePrivate(p) \/ WritePublic(p) \/ WriteState(p) \/ Sign(p)
           \/ \E r \in Roles : Issue(p, r)
  BY <1>1, BootstrapKeeps, IssueKeeps, SignKeeps
<1>2. CASE \E a \in Auths : Prepare(p, a) \/ Execute(p, a) \/ Finalize(p, a)
  BY <1>2, StartKeeps
<1>3. CASE \/ ConsumeSerial(p) \/ Recheck(p) \/ MakeScratch(p) \/ RunPreparation(p)
           \/ Spawn(p) \/ AwaitBroker(p) \/ WriteAttestation(p)
  BY <1>3, ConsumeKeeps, CheckKeeps, MakeScratchKeeps, RunPreparationKeeps, SpawnKeeps,
     AwaitBrokerKeeps, WriteAttestationKeeps
<1>4. CASE ExecuteState(p) \/ OpenNamespace(p) \/ Send(p) \/ WriteExecution(p)
  BY <1>4, CheckKeeps, OpenNamespaceKeeps, SendKeeps, WriteExecutionKeeps
<1>5. CASE \/ ReadDelivery(p) \/ FinalizeState(p) \/ SignReceipt(p)
           \/ CreateReceipt(p) \/ WriteReceipt(p)
  BY <1>5, ReadDeliveryKeeps, FinalizeStateKeeps, CreateReceiptKeeps, WriteReceiptKeeps
<1>6. CASE (\E a, b \in Auths : Aggregate(p, a, b)) \/ AggregateState(p) \/ WriteAggregate(p)
  BY <1>6, AggregateKeeps, AggregateStateKeeps, WriteAggregateKeeps
<1> QED
  BY <1>1, <1>2, <1>3, <1>4, <1>5, <1>6 DEF Command

LEMMA EnvironmentKeeps ==
  ASSUME ReviewInv, Environment
  PROVE  ReviewInv'
<1>1. CASE \E a \in Auths, o \in Outcomes : WriteResult(a, o)
  BY <1>1, WriteResultKeeps
<1>2. CASE \E r \in Roles : AttestSession(r) \/ Reply(r)
  BY <1>2, AttestSessionKeeps, ReplyKeeps
<1>3. CASE (\E a \in Auths : RevokeLaunch(a)) \/ (\E i \in Inputs : ChangeInputs(i)) \/ ClockTicks
  BY <1>3, RevokeKeeps, WorldKeeps
<1>4. CASE \E p \in Procs : GiveUp(p) \/ Kill(p)
  BY <1>4, GiveUpKeeps, KillKeeps
<1>5. CASE RestartHost
  BY <1>5, RestartHostKeeps
<1> QED
  BY <1>1, <1>2, <1>3, <1>4, <1>5 DEF Environment

\* Commands, the human and the host keep the invariant of the launch: what a process
\* has checked stays true until it acts on it.
THEOREM ReviewInvariant == Spec => []ReviewInv
<1>1. ReviewInv /\ [Next]_vars => ReviewInv'
  <2> SUFFICES ASSUME ReviewInv, [Next]_vars PROVE ReviewInv'
    OBVIOUS
  <2>1. CASE Next
    BY <2>1, CommandKeeps, EnvironmentKeeps DEF Next
  <2>2. CASE UNCHANGED vars
    <3>1. UNCHANGED <<state, issued, host, scratch, broker, leaves, attest, result, receipt,
                      aggregate, proc>>
      BY <2>2 DEF vars
    <3> QED
      BY <3>1, NothingHappens, IdleEnvironment
  <2> QED
    BY <2>1, <2>2
<1> QED
  BY <1>1, ReviewInit, PTL DEF Spec

\* A command that started after its launch was revoked never passes the check before
\* its effect, whatever else the host does between its start and that check
\* (_authority_state, _validate_consumed_authorization).
THEOREM RevocationIsHonoured == Spec => []RevocationHonoured
<1>1. ReviewInv => RevocationHonoured
  BY DEF ReviewInv, Wary, Unclean, Burned, RevocationHonoured
<1> QED
  BY <1>1, ReviewInvariant, PTL

\* No workspace, namespace or leaf command without a serial that was burned first;
\* one preparation works on a role, and its leaf commands run once and in order
\* (_authority_state, _copy_node_inputs, _run_namespace_broker).
THEOREM WorkIsOnBurnedSerial == Spec => []WorkOnBurnedSerial
<1>1. ReviewInv => LeavesOnceInOrder
  <2> SUFFICES ASSUME ReviewInv, NEW r \in Roles, leaves[r] # <<>>
               PROVE  /\ Len(leaves[r]) <= Commands /\ RanUnder(broker[r].auth, r)
                      /\ scratch[r] = broker[r].auth
    BY DEF LeavesOnceInOrder
  <2> QED
    BY DEF ReviewInv, Working
<1>2. ReviewInv => ConsumedBeforeWork
  BY DEF ReviewInv, Working, Preparing, ConsumedBeforeWork
<1> QED
  BY <1>1, <1>2, ReviewInvariant, PTL DEF WorkOnBurnedSerial

\* A written receipt stands for a finished, attested run of every leaf command within
\* the lifetime of a consumed serial, and an aggregate for receipts of one pack and one
\* boot that are still in place (finalize_review, aggregate_independent_reviews).
THEOREM ResultsAreHonest == Spec => []ResultsHonest
<1>1. ReviewInv => ReceiptHonest
  <2> SUFFICES ASSUME ReviewInv, NEW r \in Roles, receipt[r] \notin {None, Torn}
               PROVE  LET a == receipt[r].auth
                          w == receipt[r].workspace
                      IN /\ a \in state.consumed /\ RoleOf(a) = r
                         /\ w.fresh /\ w.finishedAt # None /\ w.finishedAt <= Expires(a)
                         /\ RanUnder(w.auth, r) /\ Len(leaves[r]) = Commands
                         /\ receipt[r].result.run = a
    BY DEF ReceiptHonest
  <2> QED
    BY DEF ReviewInv, ReceiptTrue, Honest, Complete
<1>2. ReviewInv => AggregateSound
  <2> SUFFICES ASSUME ReviewInv, aggregate \notin {None, Torn} PROVE AggregateSound
    BY DEF AggregateSound
  <2> DEFINE chains == aggregate.chains
  <2>1. Joined(aggregate.verdict, chains)
    BY DEF ReviewInv
  <2>2. \A x \in {chains[c] : c \in DOMAIN chains} : x.auth \in DOMAIN chains /\ chains[x.auth] = x
    BY <2>1 DEF Joined
  <2> QED
    BY <2>1, <2>2 DEF Joined, AggregateSound
<1> QED
  BY <1>1, <1>2, ReviewInvariant, PTL DEF ResultsHonest
===============================================================================
