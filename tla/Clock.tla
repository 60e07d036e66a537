-------------------------------- MODULE Clock --------------------------------
(***************************************************************************)
(* The mapping between two monotonic clocks, from the four-timestamp        *)
(* exchange to the mapping an observation is dated with:                    *)
(*   derive_clock_mapping     judges one exchange and bounds the offset     *)
(*                            (target clock minus source clock);            *)
(*   clock_mappings           the table whose CHECKs a stored row meets;    *)
(*   validate_stored_mapping  recomputes a row from the exchange it keeps;  *)
(*   ClockMapper              selects among the rows, and closes them for   *)
(*                            good.                                         *)
(* The clocks, their restarts and the network between them are external: a  *)
(* clock shows a value at most its resolution behind the true one, and      *)
(* never goes back within a boot.                                           *)
(***************************************************************************)
EXTENDS Integers, Sequences

CONSTANTS
    Base,             \* Base[c][b]: the value of clock c at time 0 of boot b
    Rs, Rt,           \* resolution of the source and of the target clock
    MaxRtt,           \* max_network_rtt_us
    MaxUncertainty,   \* max_base_uncertainty_us
    MaxTime,          \* bound on time
    MaxBoots,         \* bound on restarts of a clock
    MaxMappings       \* bound on stored mappings

Clocks == {"source", "target"}

ASSUME ClockAssumption ==
    /\ Rs \in Nat /\ Rt \in Nat /\ MaxRtt \in Nat /\ MaxUncertainty \in Nat
    /\ MaxTime \in Nat /\ MaxBoots \in Nat /\ MaxMappings \in Nat
    /\ Base \in [Clocks -> [0..MaxBoots -> Int]]

VARIABLES
    time,      \* real time
    boot,      \* boot[c]: how often clock c was restarted
    stamps,    \* the exchange: the timestamps taken so far
    rows,      \* the rows of clock_mappings, each with its exchange
    altered,   \* whether a stored row was altered
    history,   \* the mappings the closure history names
    chosen,    \* the mapping ClockMapper.select answered last, or NoMapping
    retired    \* history: every mapping ever closed

clockVars == <<time, boot, stamps, rows, altered, history, chosen, retired>>

Resolution(c) == IF c = "source" THEN Rs ELSE Rt
NoMapping == 0                               \* no mapping has this identity

(* Who takes the timestamps t1, t2, t3, t4. *)
Owner(i) == IF i = 1 \/ i = 4 THEN "source" ELSE "target"

ClockInit ==
    /\ time = 0 /\ boot = [c \in Clocks |-> 0] /\ stamps = << >>
    /\ rows = {} /\ altered = FALSE /\ history = {} /\ chosen = NoMapping /\ retired = {}

-----------------------------------------------------------------------------
(* Judging one exchange s = <<t1, t2, t3, t4>>. *)

Rtt(s) == (s[4].value - s[1].value) - (s[3].value - s[2].value)
PaddingOfTarget == Rt                      \* mutant: the source is exact
Padding == Rs + Rt

Lower(s) == (s[3].value - s[4].value) - Padding
Upper(s) == (s[2].value - s[1].value) + Padding
Midpoint(s) == (Lower(s) + Upper(s)) \div 2
BaseUncertainty(s) ==
    IF Upper(s) - Midpoint(s) > Midpoint(s) - Lower(s)
    THEN Upper(s) - Midpoint(s) ELSE Midpoint(s) - Lower(s)

(* The two timestamps of a side name the boot of its endpoint. *)
SameBootsOfTarget(s) == s[2].boot = s[3].boot      \* mutant: one side only
SameBoots(s) == s[1].boot = s[4].boot /\ s[2].boot = s[3].boot

(* What else a sample is refused for: the domain its timestamps name, their *)
(* unit or owner, and, after the bounds, too few samples, an old segment, a *)
(* wall clock step, contradicting intervals, a CDP clock.                   *)
Defects == {"NONE", "E_SOURCE_DOMAIN_MISMATCH", "E_UNIT_NOT_MICROSECOND",
            "E_WALL_STEP_TOLERANCE", "SOURCE_AGE_UNKNOWN"}

DeriveClockMapping(s, defect) ==
    CASE s[3].value < s[2].value             -> "E_NEGATIVE_TARGET_ORDER"
      [] s[4].value < s[1].value             -> "E_NEGATIVE_SOURCE_ORDER"
      [] Rtt(s) < 0                          -> "E_NEGATIVE_NETWORK_RTT"
      [] defect = "E_SOURCE_DOMAIN_MISMATCH" -> defect
      [] ~SameBoots(s)                       -> "E_BOOT_MISMATCH"
      [] defect = "E_UNIT_NOT_MICROSECOND"   -> defect
      [] Rtt(s) > MaxRtt                     -> "E_MAX_NETWORK_RTT_EXCEEDED"
      [] BaseUncertainty(s) > MaxUncertainty -> "E_MAX_BASE_UNCERTAINTY_EXCEEDED"
      [] OTHER                               -> IF defect = "NONE" THEN "ACCEPT" ELSE defect

(* validate_midpoint, and the CHECKs of clock_mappings it repeats. *)
ValidateMidpoint(row) ==
    /\ row.uncertainty \in 0..MaxUncertainty
    /\ row.lower <= row.midpoint /\ row.midpoint <= row.upper
    /\ row.upper = row.lower + 2 * row.uncertainty
    /\ row.midpoint = row.lower + row.uncertainty

(* The UNIQUE of the table: boots and start of validity. *)
Fresh(row) ==
    \A r \in rows : <<r.raw[1].boot, r.raw[2].boot, r.raw[4].value>>
                       # <<row.raw[1].boot, row.raw[2].boot, row.raw[4].value>>

RowOf(id, s) == [id |-> id, raw |-> s, lower |-> Lower(s), upper |-> Upper(s),
                 midpoint |-> Midpoint(s), uncertainty |-> BaseUncertainty(s)]

ValidateStoredMapping(row) ==
    /\ DeriveClockMapping(row.raw, "NONE") = "ACCEPT"
    /\ row = RowOf(row.id, row.raw)

-----------------------------------------------------------------------------
Tick ==
    /\ time < MaxTime /\ time' = time + 1
    /\ UNCHANGED <<boot, stamps, rows, altered, history, chosen, retired>>

(* A clock restarts, and from then on counts from another base. *)
Restart(c) ==
    /\ boot[c] < MaxBoots
    /\ boot' = [boot EXCEPT ![c] = @ + 1]
    /\ UNCHANGED <<time, stamps, rows, altered, history, chosen, retired>>

(* The next timestamp of the exchange; "at" is the real time it was taken. *)
Stamp ==
    /\ Len(stamps) < 4
    /\ LET c == Owner(Len(stamps) + 1)
           true == Base[c][boot[c]] + time
       IN \E v \in (true - Resolution(c))..true :
             /\ \A i \in DOMAIN stamps :
                   Owner(i) = c /\ stamps[i].boot = boot[c] => stamps[i].value <= v
             /\ stamps' = Append(stamps, [value |-> v, boot |-> boot[c], at |-> time])
    /\ UNCHANGED <<time, boot, rows, altered, history, chosen, retired>>

(* The exchange is over: judged, and stored when it is accepted and the     *)
(* table takes it.                                                          *)
Derive ==
    /\ Len(stamps) = 4 /\ stamps' = << >>
    /\ \E defect \in Defects, id \in 1..MaxMappings :
          /\ \A r \in rows : r.id < id
          /\ id > 1 => \E r \in rows : r.id = id - 1
          /\ rows' = IF /\ DeriveClockMapping(stamps, defect) = "ACCEPT"
                        /\ ValidateMidpoint(RowOf(id, stamps)) /\ Fresh(RowOf(id, stamps))
                     THEN rows \cup {RowOf(id, stamps)} ELSE rows
    /\ UNCHANGED <<time, boot, altered, history, chosen, retired>>

(* A stored row is altered, in a way the CHECKs of the table allow. *)
Alter ==
    /\ ~altered /\ altered' = TRUE
    /\ \E r \in rows, k \in {-1, 1} :
          rows' = (rows \ {r}) \cup
             {[r EXCEPT !.lower = @ + k, !.upper = @ + k, !.midpoint = @ + k]}
    /\ UNCHANGED <<time, boot, stamps, history, chosen, retired>>

(* ClockMapper.select over the rows that survive their validation: the      *)
(* narrowest, the freshest of those, the first by name of those.            *)
Better(r, q) ==
    LET width(x) == x.upper - x.lower   from(x) == x.raw[4].value
    IN \/ width(r) < width(q)
       \/ width(r) = width(q) /\ from(r) > from(q)
       \/ width(r) = width(q) /\ from(r) = from(q) /\ r.id <= q.id

Select ==
    LET eligible == {r \in rows : ValidateStoredMapping(r) /\ r.id \notin history}
    IN \E r \in eligible :
          /\ \A q \in eligible : Better(r, q)
          /\ chosen' = r.id
          /\ UNCHANGED <<time, boot, stamps, rows, altered, history, retired>>

(* ClockMapper.close appends to the history, and reopen refuses every       *)
(* mapping: a closure is for good.                                          *)
CloseReplacing(id) ==                      \* mutant: only the last closure
    /\ id \notin history /\ history' = {id} /\ retired' = retired \cup {id}
    /\ UNCHANGED <<time, boot, stamps, rows, altered, chosen>>
Close(id) ==
    /\ id \notin history
    /\ history' = history \cup {id} /\ retired' = retired \cup {id}
    /\ UNCHANGED <<time, boot, stamps, rows, altered, chosen>>

ClockNext ==
    \/ Tick
    \/ \E c \in Clocks : Restart(c)
    \/ Stamp
    \/ Derive
    \/ Alter
    \/ Select
    \/ \E r \in rows : Close(r.id)

ClockSpec == ClockInit /\ [][ClockNext]_clockVars

-----------------------------------------------------------------------------
(* The offset between the boots a row names. *)
Offset(row) == Base["target"][row.raw[2].boot] - Base["source"][row.raw[1].boot]

(* A row that survives validate_stored_mapping contains the true offset     *)
(* between the boots it names, wherever in the exchange a clock restarted,  *)
(* whatever the clocks' resolution hid, and however a row was altered.      *)
OffsetBounded ==
    \A r \in rows : ValidateStoredMapping(r) =>
        r.lower <= Offset(r) /\ Offset(r) <= r.upper

(* ClockMapper never selects a mapping that was ever closed, however many   *)
(* were closed after it.                                                    *)
ClosedNeverChosen == [][chosen' # chosen => chosen' \notin retired]_clockVars
=============================================================================
