---------------------------- MODULE IngestProofs ----------------------------
(***************************************************************************)
(* Proofs about Ingest, for every set of streams and bodies and every      *)
(* MaxSeq: its types, the chain, the loss of continuity, and what the      *)
(* store keeps (HistoryKept and ClosedGenerationFrozen).  The facts they   *)
(* rest on, about the transactions of IngestOps and for any database, come *)
(* first: what the queries return, the shapes the transactions keep, and   *)
(* how an applied row extends its chain.                                   *)
(***************************************************************************)
EXTENDS Ingest, WellFoundedInduction, TLAPS

-----------------------------------------------------------------------------
(* A set of naturals that is not empty has a least element. *)
LEMMA LeastNatural ==
  ASSUME NEW T \in SUBSET Nat, T # {}
  PROVE  \E m \in T : \A y \in T : m <= y
<1>1. \E R : IsWellFoundedOn(R, Nat) /\ \A x, y \in Nat : x < y => <<x, y>> \in R
  <2>1. IsWellFoundedOn(OpToRel(<, Nat), Nat)
    BY NatLessThanWellFounded
  <2>2. \A x, y \in Nat : x < y => <<x, y>> \in OpToRel(<, Nat)
    BY Zenon DEF OpToRel
  <2> QED
    BY <2>1, <2>2, Zenon
<1>2. PICK R : IsWellFoundedOn(R, Nat) /\ \A x, y \in Nat : x < y => <<x, y>> \in R
  BY <1>1
<1>3. IsWellFoundedOn(R, Nat) /\ T \subseteq Nat
  BY <1>2
<1>4. \E m \in T : \A y \in T : ~(<<y, m>> \in R)
  BY <1>3, WFMin, Zenon
<1>5. PICK m \in T : \A y \in T : ~(<<y, m>> \in R)
  BY <1>4
<1>6. \A y \in T : ~(y < m)
  BY <1>2, <1>5
<1> QED
  BY <1>6

LEMMA SetInduction ==
  ASSUME NEW T \in SUBSET Nat, 0 \in T, \A n \in T : n + 1 \in T
  PROVE  T = Nat
<1> SUFFICES ASSUME Nat \ T # {} PROVE FALSE
  OBVIOUS
<1>1. PICK m \in Nat \ T : \A y \in Nat \ T : m <= y
  BY LeastNatural
<1>2. m - 1 \in Nat /\ ~(m <= m - 1) /\ (m - 1) + 1 = m
  BY <1>1
<1> QED
  BY <1>1, <1>2

(* A bounded set of naturals that is not empty has a greatest element, and *)
(* Max returns it ("ORDER BY highest_contiguous_sequence DESC LIMIT 1").    *)
LEMMA MaxOfBounded ==
  ASSUME NEW S \in SUBSET Nat, NEW b \in Nat, S # {}, \A x \in S : x <= b
  PROVE  Max(S) \in S /\ \A x \in S : x <= Max(S)
<1> DEFINE T == {n \in Nat : \E x \in S : n = b - x}
<1>1. PICK x0 \in S : TRUE
  OBVIOUS
<1>2. b - x0 \in Nat
  OBVIOUS
<1>3. T # {}
  BY <1>2
<1>4. PICK m \in T : \A y \in T : m <= y
  BY <1>3, LeastNatural
<1>5. PICK x \in S : m = b - x
  BY <1>4
<1>6. ASSUME NEW y \in S
      PROVE  y <= x
  <2>1. b - y \in T
    OBVIOUS
  <2> QED
    BY <1>4, <1>5, <2>1
<1> QED
  BY <1>6 DEF Max

-----------------------------------------------------------------------------
(* The queries of apply and confirm_ack.                                   *)

(* Highest is the greatest sequence of a generation's rows, 0 without any. *)
LEMMA HighestIsGreatest ==
  ASSUME NEW rows, \A r \in rows : r.seq \in 1..MaxSeq, NEW s, NEW g
  PROVE  /\ Highest(rows, s, g) \in 0..MaxSeq
         /\ \/ Highest(rows, s, g) = 0
            \/ \E r \in RowsOf(rows, s, g) : r.seq = Highest(rows, s, g)
         /\ \A r \in RowsOf(rows, s, g) : r.seq <= Highest(rows, s, g)
<1> DEFINE S == {0} \cup {r.seq : r \in RowsOf(rows, s, g)}
<1>1. S \in SUBSET (0..MaxSeq) /\ 0 \in S
  BY MaxSeqAssumption DEF RowsOf
<1>2. Max(S) \in S /\ \A x \in S : x <= Max(S)
  <2>1. S \in SUBSET Nat /\ S # {} /\ \A x \in S : x <= MaxSeq
    BY <1>1, MaxSeqAssumption
  <2> HIDE DEF S
  <2> QED
    BY <2>1, MaxSeqAssumption, MaxOfBounded
<1> QED
  BY <1>1, <1>2 DEF Highest, RowsOf

(* The same for the rows below a position. *)
LEMMA HighestBelowIsGreatest ==
  ASSUME NEW rows, \A r \in rows : r.seq \in 1..MaxSeq, NEW s, NEW g, NEW n
  PROVE  /\ HighestBelow(rows, s, g, n) \in 0..MaxSeq
         /\ \/ HighestBelow(rows, s, g, n) = 0
            \/ \E r \in RowsOf(rows, s, g) : r.seq = HighestBelow(rows, s, g, n) /\ r.seq < n
         /\ \A r \in RowsOf(rows, s, g) : r.seq < n => r.seq <= HighestBelow(rows, s, g, n)
<1> DEFINE S == {0} \cup {r.seq : r \in {q \in RowsOf(rows, s, g) : q.seq < n}}
<1>1. S \in SUBSET (0..MaxSeq) /\ 0 \in S
  BY MaxSeqAssumption DEF RowsOf
<1>2. Max(S) \in S /\ \A x \in S : x <= Max(S)
  <2>1. S \in SUBSET Nat /\ S # {} /\ \A x \in S : x <= MaxSeq
    BY <1>1, MaxSeqAssumption
  <2> HIDE DEF S
  <2> QED
    BY <2>1, MaxSeqAssumption, MaxOfBounded
<1> QED
  BY <1>1, <1>2 DEF HighestBelow, RowsOf

(* The cursor read at position 0 or at an existing row. *)
LEMMA CursorAtRow ==
  ASSUME NEW rows \in SUBSET ChainRows, NEW s, NEW g, NEW n \in Nat,
         n = 0 \/ \E r \in RowsOf(rows, s, g) : r.seq = n
  PROVE  /\ CursorAt(rows, s, g, n) \in Seq(Bodies)
         /\ n = 0 => CursorAt(rows, s, g, n) = H0
         /\ n # 0 => \E r \in RowsOf(rows, s, g) :
                        r.seq = n /\ CursorAt(rows, s, g, n) = r.cursor
<1>1. CASE n = 0
  BY <1>1 DEF CursorAt, H0
<1>2. CASE n # 0
  <2>1. PICK r \in RowsOf(rows, s, g) :
             r.seq = n /\ r = CHOOSE q \in RowsOf(rows, s, g) : q.seq = n
    BY <1>2
  <2>2. CursorAt(rows, s, g, n) = r.cursor
    BY <1>2, <2>1 DEF CursorAt
  <2>3. r.cursor \in Seq(Bodies)
    BY <2>1 DEF RowsOf, ChainRows
  <2> QED
    BY <1>2, <2>1, <2>2, <2>3
<1> QED
  BY <1>1, <1>2
-----------------------------------------------------------------------------
(* Type correctness, one lemma per transaction.                            *)

LEMMA RowsTyped ==
  ASSUME NEW d \in Databases
  PROVE  /\ d.chain \in SUBSET ChainRows /\ d.repairs \in SUBSET ChainRows
         /\ d.confirms \in SUBSET ConfirmRows /\ d.gaps \in SUBSET GapRows
         /\ \A r \in d.chain : r.seq \in 1..MaxSeq
         /\ \A r \in d.confirms : r.seq \in 1..MaxSeq
  BY DEF Databases, ChainRows, ConfirmRows

LEMMA NewRowTyped ==
  ASSUME NEW d \in Databases, NEW o \in Observations
  PROVE  NewRow(d, o) \in ChainRows
<1> DEFINE h == Highest(d.chain, o.stream, o.gen)
<1>1. h \in Nat /\ (h = 0 \/ \E r \in RowsOf(d.chain, o.stream, o.gen) : r.seq = h)
  BY RowsTyped, HighestIsGreatest, MaxSeqAssumption
<1>2. CursorAt(d.chain, o.stream, o.gen, h) \in Seq(Bodies)
  BY <1>1, RowsTyped, CursorAtRow
<1>3. Append(CursorAt(d.chain, o.stream, o.gen, h), o.body) \in Seq(Bodies)
  BY <1>2 DEF Observations
<1> QED
  BY <1>2, <1>3 DEF NewRow, ChainRows, Observations

LEMMA LoseContinuityTyped ==
  ASSUME NEW d \in Databases, NEW o \in Observations,
         NEW reason \in {"MISSING_SEQUENCE", "CONFLICTING_DUPLICATE"},
         reason = "MISSING_SEQUENCE" => o.seq > Highest(d.chain, o.stream, o.gen) + 1
  PROVE  LoseContinuity(d, o, reason) \in Databases
<1>1. Highest(d.chain, o.stream, o.gen) \in 0..MaxSeq
  BY RowsTyped, HighestIsGreatest
<1>2. GapRow(d, o, reason) \in GapRows
  BY <1>1, MaxSeqAssumption DEF GapRow, GapRows, Observations
<1> DEFINE closed == IF reason = "CONFLICTING_DUPLICATE" THEN "CLOSED" ELSE "QUARANTINED_GAP"
           gs == [d.gens EXCEPT ![o.stream][o.gen] = closed, ![o.stream][o.gen + 1] = "ACTIVE"]
<1>3. d.gens \in [Streams -> [Generations -> GenStates]]
  BY DEF Databases
<1>4. gs \in [Streams -> [Generations -> GenStates]]
  BY <1>3 DEF GenStates, Observations
<1> HIDE DEF gs
<1>5. [d EXCEPT !.gaps = @ \cup {GapRow(d, o, reason)},
                !.controller = "SHOCKED_CLOSED",
                !.conflicts = IF reason = "CONFLICTING_DUPLICATE" THEN @ \cup {o} ELSE @,
                !.gens = gs] \in Databases
  BY <1>2, <1>4 DEF Databases
<1> QED
  BY <1>5 DEF LoseContinuity, gs

(* The three cases of apply that change the store exclude each other. *)
LEMMA CasesDisjoint ==
  ASSUME NEW d \in Databases, NEW o \in Observations
  PROVE  /\ IsNext(d, o) => ~IsConflict(d, o) /\ ~IsGap(d, o)
         /\ IsConflict(d, o) => ~IsGap(d, o)
<1>1. Highest(d.chain, o.stream, o.gen) \in 0..MaxSeq
  BY RowsTyped, HighestIsGreatest
<1> QED
  BY <1>1, MaxSeqAssumption DEF IsNext, IsConflict, IsGap, Observations

LEMMA ApplyTyped ==
  ASSUME NEW d \in Databases, NEW o \in Observations
  PROVE  ApplyDb(d, o) \in Databases
<1>1. CASE IsNext(d, o)
  <2>1. [d EXCEPT !.chain = @ \cup {NewRow(d, o)}] \in Databases
    BY NewRowTyped DEF Databases
  <2> QED
    BY <1>1, <2>1, CasesDisjoint DEF ApplyDb
<1>2. CASE ~IsNext(d, o) /\ IsConflict(d, o) /\ CanShock(d)
  <2>1. LoseContinuity(d, o, "CONFLICTING_DUPLICATE") \in Databases
    BY LoseContinuityTyped
  <2> QED
    BY <1>2, <2>1, CasesDisjoint DEF ApplyDb
<1>3. CASE ~IsNext(d, o) /\ ~(IsConflict(d, o) /\ CanShock(d)) /\ IsGap(d, o) /\ CanShock(d)
  <2>1. LoseContinuity(d, o, "MISSING_SEQUENCE") \in Databases
    BY <1>3, LoseContinuityTyped DEF IsGap
  <2> QED
    BY <1>3, <2>1, CasesDisjoint DEF ApplyDb
<1>4. CASE ~IsNext(d, o) /\ ~(IsConflict(d, o) /\ CanShock(d)) /\ ~(IsGap(d, o) /\ CanShock(d))
  BY <1>4 DEF ApplyDb
<1> QED
  BY <1>1, <1>2, <1>3, <1>4

LEMMA ConfirmTyped ==
  ASSUME NEW d \in Databases, NEW a \in ChainRows
  PROVE  ConfirmDb(d, a) \in Databases
<1>1. Highest(d.confirms, a.stream, a.gen) \in 0..MaxSeq
  BY RowsTyped, HighestIsGreatest
<1> DEFINE row == [stream |-> a.stream, gen |-> a.gen, seq |-> a.seq, cursor |-> a.cursor,
                   previous |-> Highest(d.confirms, a.stream, a.gen)]
<1>2. row \in ConfirmRows
  BY <1>1 DEF ConfirmRows, ChainRows
<1>3. [d EXCEPT !.confirms = @ \cup {row}] \in Databases
  BY <1>2 DEF Databases
<1> QED
  BY <1>3 DEF ConfirmDb

LEMMA RepairTyped ==
  ASSUME NEW d \in Databases, NEW o \in Observations
  PROVE  RepairDb(d, o) \in Databases
<1> DEFINE h == HighestBelow(d.chain, o.stream, o.gen, o.seq)
           prior == CursorAt(d.chain, o.stream, o.gen, h)
           row == [stream |-> o.stream, gen |-> o.gen, seq |-> o.seq, body |-> o.body,
                   prior |-> prior, cursor |-> Append(prior, o.body)]
<1>1. h \in Nat /\ (h = 0 \/ \E r \in RowsOf(d.chain, o.stream, o.gen) : r.seq = h)
  BY RowsTyped, HighestBelowIsGreatest, MaxSeqAssumption
<1>2. prior \in Seq(Bodies)
  BY <1>1, RowsTyped, CursorAtRow
<1> HIDE DEF prior
<1>3. row \in ChainRows
  BY <1>2 DEF ChainRows, Observations
<1>4. [d EXCEPT !.repairs = @ \cup {row}] \in Databases
  BY <1>3 DEF Databases
<1> QED
  BY <1>4 DEF RepairDb, prior

LEMMA CloseRunTyped ==
  ASSUME NEW d \in Databases
  PROVE  CloseRunDb(d) \in Databases
  BY DEF CloseRunDb, Databases, GenStates

-----------------------------------------------------------------------------
(* The applied chain.                                                      *)

LEMMA NextRowLinked ==
  ASSUME NEW d \in Databases, NEW o \in Observations, IsNext(d, o)
  PROVE  LET n == NewRow(d, o)
         IN  /\ SamePosition(n, o) /\ n.body = o.body
             /\ n.cursor = Append(n.prior, n.body)
             /\ n.seq = 1 => n.prior = H0
             /\ n.seq > 1 => \E q \in RowsOf(d.chain, n.stream, n.gen) :
                                q.seq = n.seq - 1 /\ q.cursor = n.prior
             /\ \A r \in d.chain : ~SamePosition(r, n)
<1> DEFINE h == Highest(d.chain, o.stream, o.gen)
           n == NewRow(d, o)
<1>1. h \in Nat /\ (h = 0 \/ \E r \in RowsOf(d.chain, o.stream, o.gen) : r.seq = h)
  BY RowsTyped, HighestIsGreatest, MaxSeqAssumption
<1>2. o.seq = h + 1 /\ RawAt(d, o) = {}
  BY DEF IsNext
<1>3. /\ n.stream = o.stream /\ n.gen = o.gen /\ n.seq = o.seq /\ n.body = o.body
      /\ n.prior = CursorAt(d.chain, o.stream, o.gen, h)
      /\ n.cursor = Append(n.prior, n.body)
  BY DEF NewRow
<1>4. /\ h = 0 => n.prior = H0
      /\ h # 0 => \E q \in RowsOf(d.chain, o.stream, o.gen) : q.seq = h /\ n.prior = q.cursor
  <2>1. d.chain \in SUBSET ChainRows
    BY RowsTyped
  <2> HIDE DEF h, n
  <2>2. CASE h = 0
    <3>1. CursorAt(d.chain, o.stream, o.gen, h) = H0
      BY <2>2 DEF CursorAt
    <3> QED
      BY <1>3, <2>2, <3>1
  <2>3. CASE h # 0
    <3>1. h \in Nat /\ \E q \in RowsOf(d.chain, o.stream, o.gen) : q.seq = h
      BY <1>1, <2>3
    <3>2. \E q \in RowsOf(d.chain, o.stream, o.gen) :
            q.seq = h /\ CursorAt(d.chain, o.stream, o.gen, h) = q.cursor
      BY <2>1, <2>3, <3>1, CursorAtRow
    <3> QED
      BY <1>3, <2>3, <3>2
  <2> QED
    BY <2>2, <2>3
<1>5. \A r \in d.chain : ~SamePosition(r, n)
  BY <1>2, <1>3 DEF RawAt, SamePosition
<1> HIDE DEF n, h
<1>6. o.seq - 1 = h /\ (o.seq = 1 <=> h = 0) /\ (o.seq > 1 <=> h # 0)
  BY <1>1, <1>2
<1> QED
  BY <1>3, <1>4, <1>5, <1>6 DEF SamePosition, n

-----------------------------------------------------------------------------
(* Type correctness: every transaction of the store leaves rows of the     *)
(* declared shapes, with sequences and cursors in range (the CHECK         *)
(* constraints of discovery-store-v1.sql).                                 *)
THEOREM TypeCorrect == IngestSpec => []TypeOK
<1>1. IngestInit => TypeOK
  BY DEF IngestInit, TypeOK, FreshDb, Databases, Generations, GenStates
<1>2. TypeOK /\ [IngestNext]_ingestVars => TypeOK'
  <2> SUFFICES ASSUME TypeOK, [IngestNext]_ingestVars
               PROVE  TypeOK'
    OBVIOUS
  <2>1. ASSUME NEW o \in Observations, Apply(o)
        PROVE  TypeOK'
    BY <2>1, ApplyTyped DEF Apply, TypeOK
  <2>2. ASSUME NEW o \in Observations, StoreLateRepair(o)
        PROVE  TypeOK'
    BY <2>2, RepairTyped DEF StoreLateRepair, TypeOK
  <2>3. ASSUME NEW a \in db.chain \cup db.repairs, ConfirmAck(a)
        PROVE  TypeOK'
    <3>1. a \in ChainRows
      BY RowsTyped DEF TypeOK
    <3> QED
      BY <2>3, <3>1, ConfirmTyped DEF ConfirmAck, TypeOK
  <2>4. CASE CloseRun
    BY <2>4, CloseRunTyped DEF CloseRun, TypeOK
  <2>5. CASE UNCHANGED ingestVars
    BY <2>5 DEF ingestVars, TypeOK
  <2> QED
    BY <2>1, <2>2, <2>3, <2>4, <2>5 DEF IngestNext
<1> QED
  BY <1>1, <1>2, PTL DEF IngestSpec

-----------------------------------------------------------------------------
(* The applied chain.                                                      *)

LEMMA ApplyKeepsChainLinked ==
  ASSUME TypeOK, ChainLinked, NEW o \in Observations, Apply(o)
  PROVE  ChainLinked'
<1>1. db \in Databases
  BY DEF TypeOK
<1>2. CASE IsNext(db, o)
  <2> DEFINE n == NewRow(db, o)
  <2>1. db'.chain = db.chain \cup {n}
    <3>1. db' = [db EXCEPT !.chain = @ \cup {n}]
      BY <1>1, <1>2, CasesDisjoint DEF Apply, ApplyDb
    <3> QED
      BY <1>1, <3>1 DEF Databases
  <2>2. /\ SamePosition(n, o) /\ n.body = o.body
        /\ n.cursor = Append(n.prior, n.body)
        /\ n.seq = 1 => n.prior = H0
        /\ n.seq > 1 => \E q \in RowsOf(db.chain, n.stream, n.gen) :
                           q.seq = n.seq - 1 /\ q.cursor = n.prior
        /\ \A r \in db.chain : ~SamePosition(r, n)
    BY <1>1, <1>2, NextRowLinked
  <2> HIDE DEF n
  <2>3. \A r, q \in db'.chain : SamePosition(r, q) => r = q
    BY <2>1, <2>2 DEF ChainLinked, SamePosition
  <2>4. \A s, g : RowsOf(db.chain, s, g) \subseteq RowsOf(db'.chain, s, g)
    BY <2>1 DEF RowsOf
  <2> QED
    BY <2>1, <2>2, <2>3, <2>4 DEF ChainLinked
<1>3. CASE ~IsNext(db, o)
  <2>1. db'.chain = db.chain
    <3>1. \A reason : LoseContinuity(db, o, reason).chain = db.chain
      BY <1>1 DEF LoseContinuity, Databases
    <3> QED
      BY <1>1, <1>3, <3>1, CasesDisjoint DEF Apply, ApplyDb
  <2> QED
    BY <2>1 DEF ChainLinked
<1> QED
  BY <1>2, <1>3

(* The applied rows of every generation are one linked chain: one row per  *)
(* sequence, each extending the cursor of the one before it, so that       *)
(* validate_journal (store.py) accepts every store the ingest produces.    *)
THEOREM ChainAlwaysLinked == IngestSpec => []ChainLinked
<1>1. IngestInit => ChainLinked
  BY DEF IngestInit, ChainLinked, FreshDb
<1>2. TypeOK /\ ChainLinked /\ [IngestNext]_ingestVars => ChainLinked'
  <2> SUFFICES ASSUME TypeOK, ChainLinked, [IngestNext]_ingestVars
               PROVE  ChainLinked'
    OBVIOUS
  <2>1. ASSUME NEW o \in Observations, Apply(o)
        PROVE  ChainLinked'
    BY <2>1, ApplyKeepsChainLinked
  <2>2. CASE db'.chain = db.chain
    BY <2>2 DEF ChainLinked
  <2>3. ASSUME NEW o \in Observations, StoreLateRepair(o)
        PROVE  db'.chain = db.chain
    BY <2>3 DEF StoreLateRepair, RepairDb, TypeOK, Databases
  <2>4. ASSUME NEW a \in db.chain \cup db.repairs, ConfirmAck(a)
        PROVE  db'.chain = db.chain
    BY <2>4 DEF ConfirmAck, ConfirmDb, TypeOK, Databases
  <2>5. CASE CloseRun
    BY <2>2, <2>5 DEF CloseRun, CloseRunDb, TypeOK, Databases
  <2>6. CASE UNCHANGED ingestVars
    BY <2>2, <2>6 DEF ingestVars
  <2> QED
    BY <2>1, <2>2, <2>3, <2>4, <2>5, <2>6 DEF IngestNext
<1> QED
  BY <1>1, <1>2, TypeCorrect, PTL DEF IngestSpec

-----------------------------------------------------------------------------
(* Loss of continuity.                                                     *)

(* ContinuityLossAtomic is not inductive alone: it does not say that the   *)
(* first generation exists, nor that the second one has not been closed    *)
(* while the run is open (which would need a second shock).                *)
GenerationStates ==
  \A s \in Streams :
    /\ db.gens[s][0] # "NONE"
    /\ db.run = "OPEN" => db.gens[s][1] \in {"NONE", "ACTIVE"}

ContinuityInv == TypeOK /\ ContinuityLossAtomic /\ GenerationStates

LEMMA LossOfGenerationZero ==
  ASSUME ContinuityInv, NEW o \in Observations, Accepting(db, o), CanShock(db)
  PROVE  /\ o.gen = 0 /\ db.gaps = {} /\ db.run = "OPEN"
         /\ \A s \in Streams : db.gens[s][0] = "ACTIVE" /\ db.gens[s][1] = "NONE"
<1>1. db.gaps = {} /\ db.run = "OPEN" /\ db.gens[o.stream][o.gen] = "ACTIVE"
  BY DEF ContinuityInv, ContinuityLossAtomic, CanShock, Accepting, GenState
<1>2. \A s \in Streams : db.gens[s][1] = "NONE"
  BY <1>1 DEF ContinuityInv, ContinuityLossAtomic, RowsOf
<1>3. \A s \in Streams : db.gens[s][0] \in GenStates
  BY DEF ContinuityInv, TypeOK, Databases, Generations
<1>4. \A s \in Streams : db.gens[s][0] = "ACTIVE"
  BY <1>1, <1>3 DEF ContinuityInv, ContinuityLossAtomic, GenerationStates, RowsOf, GenStates
<1>5. o.gen = 0
  BY <1>1, <1>2 DEF Observations, Generations
<1> QED
  BY <1>1, <1>2, <1>4, <1>5

LEMMA LoseContinuityKeepsInv ==
  ASSUME ContinuityInv, NEW o \in Observations, Accepting(db, o), CanShock(db),
         NEW reason \in {"MISSING_SEQUENCE", "CONFLICTING_DUPLICATE"},
         db' = LoseContinuity(db, o, reason)
  PROVE  ContinuityLossAtomic' /\ GenerationStates'
<1> DEFINE gap == GapRow(db, o, reason)
           closed == IF reason = "CONFLICTING_DUPLICATE" THEN "CLOSED" ELSE "QUARANTINED_GAP"
<1>1. /\ o.gen = 0 /\ db.gaps = {} /\ db.run = "OPEN"
      /\ \A s \in Streams : db.gens[s][0] = "ACTIVE" /\ db.gens[s][1] = "NONE"
  BY LossOfGenerationZero
<1>2. gap.stream = o.stream /\ gap.gen = 0
  BY <1>1 DEF GapRow
<1>3. /\ db'.gaps = {gap} /\ db'.controller = "SHOCKED_CLOSED" /\ db'.run = "OPEN"
      /\ db'.gens = [db.gens EXCEPT ![o.stream][0] = closed, ![o.stream][0 + 1] = "ACTIVE"]
  BY <1>1 DEF LoseContinuity, ContinuityInv, TypeOK, Databases
<1>4. o.stream \in Streams /\ db.gens \in [Streams -> [Generations -> GenStates]]
  BY DEF Observations, ContinuityInv, TypeOK, Databases
<1>5. \A s \in Streams : /\ db'.gens[s][0] = IF s = o.stream THEN closed ELSE "ACTIVE"
                         /\ db'.gens[s][1] = IF s = o.stream THEN "ACTIVE" ELSE "NONE"
  BY <1>1, <1>3, <1>4 DEF Generations
<1> HIDE DEF gap
<1>6. \A s \in Streams : RowsOf(db'.gaps, s, 0) # {} <=> s = o.stream
  BY <1>2, <1>3 DEF RowsOf
<1>7. ContinuityLossAtomic'
  BY <1>2, <1>3, <1>5, <1>6 DEF ContinuityLossAtomic
<1> QED
  BY <1>5, <1>7 DEF GenerationStates

LEMMA CloseRunKeepsInv ==
  ASSUME ContinuityInv, CloseRun
  PROVE  ContinuityLossAtomic' /\ GenerationStates'
<1>1. /\ db'.gaps = db.gaps /\ db'.controller = db.controller /\ db'.run = "CLOSED"
      /\ db'.gens = [s \in Streams |-> [g \in Generations |->
                       IF db.gens[s][g] = "NONE" THEN "NONE" ELSE "CLOSED"]]
  BY DEF CloseRun, CloseRunDb, ContinuityInv, TypeOK, Databases
<1>2. \A s \in Streams, g \in Generations :
         db'.gens[s][g] = IF db.gens[s][g] = "NONE" THEN "NONE" ELSE "CLOSED"
  BY <1>1
<1> QED
  BY <1>1, <1>2 DEF ContinuityInv, ContinuityLossAtomic, GenerationStates, Generations

LEMMA ContinuityStep ==
  ASSUME ContinuityInv, [IngestNext]_ingestVars
  PROVE  ContinuityLossAtomic' /\ GenerationStates'
<1>1. CASE /\ db'.gaps = db.gaps /\ db'.controller = db.controller
           /\ db'.run = db.run /\ db'.gens = db.gens
  BY <1>1 DEF ContinuityInv, ContinuityLossAtomic, GenerationStates
<1>2. ASSUME NEW o \in Observations, Apply(o)
      PROVE  ContinuityLossAtomic' /\ GenerationStates'
  <2>1. db \in Databases
    BY DEF ContinuityInv, TypeOK
  <2>2. CASE IsNext(db, o)
    <3>1. db' = [db EXCEPT !.chain = @ \cup {NewRow(db, o)}]
      BY <1>2, <2>1, <2>2, CasesDisjoint DEF Apply, ApplyDb
    <3> QED
      BY <1>1, <2>1, <3>1 DEF Databases
  <2>3. CASE IsConflict(db, o) /\ CanShock(db)
    <3>1. db' = LoseContinuity(db, o, "CONFLICTING_DUPLICATE")
      BY <1>2, <2>1, <2>3, CasesDisjoint DEF Apply, ApplyDb
    <3> QED
      BY <2>3, <3>1, LoseContinuityKeepsInv DEF IsConflict
  <2>4. CASE IsGap(db, o) /\ CanShock(db)
    <3>1. db' = LoseContinuity(db, o, "MISSING_SEQUENCE")
      BY <1>2, <2>1, <2>4, CasesDisjoint DEF Apply, ApplyDb
    <3> QED
      BY <2>4, <3>1, LoseContinuityKeepsInv DEF IsGap
  <2>5. CASE ~IsNext(db, o) /\ ~(IsConflict(db, o) /\ CanShock(db))
             /\ ~(IsGap(db, o) /\ CanShock(db))
    <3>1. db' = db
      BY <1>2, <2>5 DEF Apply, ApplyDb
    <3> QED
      BY <1>1, <3>1
  <2> QED
    BY <2>2, <2>3, <2>4, <2>5
<1>3. ASSUME NEW o \in Observations, StoreLateRepair(o)
      PROVE  ContinuityLossAtomic' /\ GenerationStates'
  BY <1>1, <1>3 DEF StoreLateRepair, RepairDb, ContinuityInv, TypeOK, Databases
<1>4. ASSUME NEW a \in db.chain \cup db.repairs, ConfirmAck(a)
      PROVE  ContinuityLossAtomic' /\ GenerationStates'
  BY <1>1, <1>4 DEF ConfirmAck, ConfirmDb, ContinuityInv, TypeOK, Databases
<1>5. CASE CloseRun
  BY <1>5, CloseRunKeepsInv
<1>6. CASE UNCHANGED ingestVars
  BY <1>1, <1>6 DEF ingestVars
<1> QED
  BY <1>2, <1>3, <1>4, <1>5, <1>6 DEF IngestNext

(* A loss of continuity is one atomic change of the gap, the controller,   *)
(* the closed generation and its successor, and it happens at most once in *)
(* a run (Ingestor._gap).                                                  *)
THEOREM ContinuityLossIsAtomic == IngestSpec => []ContinuityLossAtomic
<1>1. IngestInit => ContinuityLossAtomic /\ GenerationStates
  BY DEF IngestInit, FreshDb, ContinuityLossAtomic, GenerationStates, RowsOf, Generations
<1>2. TypeOK /\ (ContinuityLossAtomic /\ GenerationStates) /\ [IngestNext]_ingestVars
        => (ContinuityLossAtomic /\ GenerationStates)'
  BY ContinuityStep DEF ContinuityInv
<1> QED
  BY <1>1, <1>2, TypeCorrect, PTL DEF IngestSpec

(* In an open run each stream has exactly one generation that accepts      *)
(* observations (one_active_generation_per_stream).                        *)
THEOREM AlwaysOneActiveGeneration == IngestSpec => []OneActiveGeneration
<1>1. IngestInit => ContinuityLossAtomic /\ GenerationStates
  BY DEF IngestInit, FreshDb, ContinuityLossAtomic, GenerationStates, RowsOf, Generations
<1>2. TypeOK /\ (ContinuityLossAtomic /\ GenerationStates) /\ [IngestNext]_ingestVars
        => (ContinuityLossAtomic /\ GenerationStates)'
  BY ContinuityStep DEF ContinuityInv
<1>3. TypeOK /\ (ContinuityLossAtomic /\ GenerationStates) => OneActiveGeneration
  <2> SUFFICES ASSUME TypeOK, ContinuityLossAtomic, GenerationStates, db.run = "OPEN",
                      NEW s \in Streams
               PROVE  \E g \in Generations : \A h \in Generations :
                        db.gens[s][h] = "ACTIVE" <=> h = g
    BY DEF OneActiveGeneration
  <2>1. db.gens[s][0] \in GenStates
    BY DEF TypeOK, Databases, Generations
  <2>2. CASE RowsOf(db.gaps, s, 0) = {}
    <3>1. db.gens[s][0] = "ACTIVE" /\ db.gens[s][1] = "NONE"
      BY <2>1, <2>2 DEF ContinuityLossAtomic, GenerationStates, GenStates
    <3> QED
      BY <3>1 DEF Generations
  <2>3. CASE RowsOf(db.gaps, s, 0) # {}
    <3>1. db.gens[s][0] # "ACTIVE" /\ db.gens[s][1] = "ACTIVE"
      BY <2>3 DEF ContinuityLossAtomic, GenerationStates
    <3> QED
      BY <3>1 DEF Generations
  <2> QED
    BY <2>2, <2>3
<1> QED
  BY <1>1, <1>2, <1>3, TypeCorrect, PTL DEF IngestSpec

-----------------------------------------------------------------------------
(* The applied sequences of a generation are 1 .. highest.                 *)
Numbered ==
  \A s \in Streams, g \in Generations, n \in 1..MaxSeq :
    n <= Highest(db.chain, s, g) => \E r \in RowsOf(db.chain, s, g) : r.seq = n

(* The history of confirmations, as validate_journal reads it.             *)
ConfirmsLinked ==
  \A c \in db.confirms :
    /\ HoldsAck(db, c)
    /\ c.previous = HighestBelow(db.confirms, c.stream, c.gen, c.seq)
    /\ \A e \in db.confirms : SamePosition(c, e) => c = e

(* A closed run has closed its generations.                                *)
ClosedWithRun ==
  db.run = "CLOSED" => \A s \in Streams, g \in Generations : db.gens[s][g] \in {"NONE", "CLOSED"}

(* The gap of a conflict is the position of the conflict.                  *)
ConflictIsOnePosition ==
  \A gap \in db.gaps : gap.reason # "MISSING_SEQUENCE" =>
    gap.from = gap.detected /\ gap.to = gap.detected

(* HistoryKept is inductive beside what IngestProofs has shown and these.  *)
Kept == /\ Numbered /\ ConfirmsLinked /\ ClosedWithRun /\ ConflictIsOnePosition
        /\ AckBlockedAfterGap /\ LateRepairIsHistory

HistoryInv == ContinuityInv /\ ChainLinked /\ Kept

LEMMA FieldsTyped ==
  ASSUME TypeOK
  PROVE  /\ db \in Databases
         /\ db.chain \in SUBSET ChainRows /\ db.repairs \in SUBSET ChainRows
         /\ db.confirms \in SUBSET ConfirmRows /\ db.gaps \in SUBSET GapRows
         /\ db.gens \in [Streams -> [Generations -> GenStates]]
         /\ db.run \in {"OPEN", "CLOSED"}
         /\ \A r \in db.chain : r.seq \in 1..MaxSeq /\ r.stream \in Streams /\ r.gen \in Generations
         /\ \A r \in db.confirms : r.seq \in 1..MaxSeq
         /\ \A r \in db.gaps : r.stream \in Streams
  BY DEF TypeOK, Databases, ChainRows, ConfirmRows, GapRows

(* A generation a gap was recorded for is closed.                          *)
LEMMA GapClosesGeneration ==
  ASSUME ContinuityInv, NEW gap \in db.gaps
  PROVE  gap.gen = 0 /\ db.gens[gap.stream][gap.gen] \in {"QUARANTINED_GAP", "CLOSED"}
<1>1. gap.gen = 0 /\ gap.stream \in Streams
  BY FieldsTyped DEF ContinuityInv, ContinuityLossAtomic
<1>2. gap \in RowsOf(db.gaps, gap.stream, 0)
  BY <1>1 DEF RowsOf
<1> QED
  BY <1>1, <1>2 DEF ContinuityInv, ContinuityLossAtomic

-----------------------------------------------------------------------------
(* One lemma per transaction.                                              *)

LEMMA NextKeeps ==
  ASSUME HistoryInv, NEW o \in Observations, IsNext(db, o),
         db' = [db EXCEPT !.chain = @ \cup {NewRow(db, o)}]
  PROVE  Kept'
<1> DEFINE n == NewRow(db, o)
<1> USE DEF HistoryInv, Kept, ContinuityInv
<1>1. /\ db'.chain = db.chain \cup {n} /\ db'.repairs = db.repairs /\ db'.gaps = db.gaps
      /\ db'.confirms = db.confirms /\ db'.gens = db.gens /\ db'.run = db.run
  BY FieldsTyped DEF Databases
<1>2. /\ n.stream = o.stream /\ n.gen = o.gen /\ n.seq = o.seq /\ o.seq \in 1..MaxSeq
      /\ n.seq = Highest(db.chain, o.stream, o.gen) + 1
      /\ db.gens[n.stream][n.gen] = "ACTIVE"
  BY DEF NewRow, IsNext, Accepting, GenState, Observations
<1> HIDE DEF n
<1>3. Numbered'
  <2> SUFFICES ASSUME NEW s \in Streams, NEW g \in Generations, NEW k \in 1..MaxSeq,
                      k <= Highest(db'.chain, s, g)
               PROVE  \E r \in RowsOf(db'.chain, s, g) : r.seq = k
    BY DEF Numbered
  <2>1. \A r \in db'.chain : r.seq \in 1..MaxSeq
    BY <1>1, <1>2, FieldsTyped
  <2>2. PICK top \in RowsOf(db'.chain, s, g) : top.seq = Highest(db'.chain, s, g)
    BY <2>1, HighestIsGreatest, MaxSeqAssumption
  <2>3. RowsOf(db.chain, s, g) \subseteq RowsOf(db'.chain, s, g)
    BY <1>1 DEF RowsOf
  <2>4. CASE top \in db.chain
    <3>1. top.seq <= Highest(db.chain, s, g) /\ Highest(db.chain, s, g) \in 0..MaxSeq
      BY <2>2, <2>4, FieldsTyped, HighestIsGreatest DEF RowsOf
    <3>2. k <= Highest(db.chain, s, g)
      BY <2>1, <2>2, <3>1, MaxSeqAssumption DEF RowsOf
    <3>3. PICK r \in RowsOf(db.chain, s, g) : r.seq = k
      BY <3>2 DEF Numbered
    <3> QED
      BY <2>3, <3>3
  <2>5. CASE top = n
    <3>1. s = o.stream /\ g = o.gen
      BY <1>2, <2>2, <2>5 DEF RowsOf
    <3>2. Highest(db.chain, s, g) \in 0..MaxSeq
      BY FieldsTyped, HighestIsGreatest
    <3>3. k <= Highest(db.chain, s, g) \/ k = n.seq
      BY <1>2, <2>2, <2>5, <3>1, <3>2, MaxSeqAssumption
    <3>4. CASE k <= Highest(db.chain, s, g)
      <4>1. PICK r \in RowsOf(db.chain, s, g) : r.seq = k
        BY <3>4 DEF Numbered
      <4> QED
        BY <2>3, <4>1
    <3>5. CASE k = n.seq
      BY <2>2, <2>5, <3>5
    <3> QED
      BY <3>3, <3>4, <3>5
  <2> QED
    BY <1>1, <2>2, <2>4, <2>5 DEF RowsOf
<1>4. ConfirmsLinked'
  BY <1>1 DEF ConfirmsLinked, HoldsAck
<1>5. ClosedWithRun' /\ ConflictIsOnePosition'
  BY <1>1 DEF ClosedWithRun, ConflictIsOnePosition
<1>6. AckBlockedAfterGap'
  <2>1. \A gap \in db.gaps :
           RowsOf(db'.chain, gap.stream, gap.gen) = RowsOf(db.chain, gap.stream, gap.gen)
    BY <1>1, <1>2, GapClosesGeneration DEF RowsOf
  <2> QED
    BY <1>1, <2>1 DEF AckBlockedAfterGap
<1>7. LateRepairIsHistory'
  <2>1. \A r \in db.repairs :
           RowsOf(db'.chain, r.stream, r.gen) = RowsOf(db.chain, r.stream, r.gen)
    BY <1>1, <1>2 DEF RowsOf, LateRepairIsHistory
  <2> QED
    BY <1>1, <2>1 DEF LateRepairIsHistory
<1> QED
  BY <1>3, <1>4, <1>5, <1>6, <1>7

LEMMA LoseContinuityKeeps ==
  ASSUME HistoryInv, NEW o \in Observations, CanShock(db),
         NEW reason \in {"MISSING_SEQUENCE", "CONFLICTING_DUPLICATE"},
         IF reason = "MISSING_SEQUENCE" THEN IsGap(db, o) ELSE IsConflict(db, o),
         db' = LoseContinuity(db, o, reason)
  PROVE  Kept'
<1> DEFINE gap == GapRow(db, o, reason)
<1> USE DEF HistoryInv, Kept, ContinuityInv
<1>1. Accepting(db, o)
  BY DEF IsGap, IsConflict
<1>2. db.gaps = {} /\ db.run = "OPEN"
  BY <1>1, LossOfGenerationZero
<1>3. /\ db'.chain = db.chain /\ db'.repairs = db.repairs /\ db'.gaps = {gap}
      /\ db'.confirms = db.confirms /\ db'.run = db.run
  BY <1>2, FieldsTyped DEF LoseContinuity, Databases
<1>4. /\ gap.stream = o.stream /\ gap.gen = o.gen /\ gap.reason = reason
      /\ gap.detected = o.seq /\ gap.body = o.body
      /\ reason = "MISSING_SEQUENCE" => gap.from = Highest(db.chain, o.stream, o.gen) + 1
      /\ reason # "MISSING_SEQUENCE" => gap.from = o.seq /\ gap.to = o.seq
  BY DEF GapRow
<1> HIDE DEF gap
<1>5. db.repairs = {}
  BY <1>2 DEF LateRepairIsHistory, RowsOf
<1>6. AckBlockedAfterGap'
  <2>1. CASE reason = "MISSING_SEQUENCE"
    <3>1. /\ Highest(db.chain, o.stream, o.gen) \in 0..MaxSeq
          /\ \A r \in RowsOf(db.chain, o.stream, o.gen) :
               r.seq \in 1..MaxSeq /\ r.seq <= Highest(db.chain, o.stream, o.gen)
      BY FieldsTyped, HighestIsGreatest DEF RowsOf
    <3>2. \A r \in RowsOf(db.chain, o.stream, o.gen) : r.seq < gap.from
      BY <1>4, <2>1, <3>1, MaxSeqAssumption
    <3>3. \A c \in RowsOf(db.confirms, o.stream, o.gen) : c.seq < gap.from
      <4> SUFFICES ASSUME NEW c \in RowsOf(db.confirms, o.stream, o.gen)
                   PROVE  c.seq < gap.from
        OBVIOUS
      <4>1. PICK r \in db.chain : SamePosition(r, c)
        BY DEF ConfirmsLinked, HoldsAck, RowsOf
      <4>2. r \in RowsOf(db.chain, o.stream, o.gen) /\ r.seq = c.seq
        BY <4>1 DEF RowsOf, SamePosition
      <4> QED
        BY <3>2, <4>2
    <3> QED
      BY <1>3, <1>4, <2>1, <3>2, <3>3 DEF AckBlockedAfterGap
  <2>2. CASE reason = "CONFLICTING_DUPLICATE"
    <3>1. PICK r \in db.chain : SamePosition(r, o) /\ r.body # o.body
      BY <1>5, <2>2 DEF IsConflict, RawAt
    <3>2. r \in RowsOf(db.chain, o.stream, o.gen) /\ r.seq = o.seq
      BY <3>1 DEF SamePosition, RowsOf
    <3> QED
      BY <1>3, <1>4, <2>2, <3>1, <3>2 DEF AckBlockedAfterGap
  <2> QED
    BY <2>1, <2>2
<1>7. Numbered' /\ ConfirmsLinked' /\ ClosedWithRun' /\ LateRepairIsHistory'
  BY <1>2, <1>3, <1>5 DEF Numbered, ConfirmsLinked, HoldsAck, ClosedWithRun, LateRepairIsHistory
<1>8. ConflictIsOnePosition'
  BY <1>3, <1>4 DEF ConflictIsOnePosition
<1> QED
  BY <1>6, <1>7, <1>8

LEMMA ConfirmKeeps ==
  ASSUME HistoryInv, NEW a \in db.chain \cup db.repairs, ConfirmVerdict(db, a) = "CONFIRMED",
         db' = ConfirmDb(db, a)
  PROVE  Kept'
<1> DEFINE h == Highest(db.confirms, a.stream, a.gen)
           row == [stream |-> a.stream, gen |-> a.gen, seq |-> a.seq, cursor |-> a.cursor,
                   previous |-> h]
<1> USE DEF HistoryInv, Kept, ContinuityInv
<1>1. /\ db'.confirms = db.confirms \cup {row} /\ db'.chain = db.chain
      /\ db'.repairs = db.repairs /\ db'.gaps = db.gaps /\ db'.gens = db.gens /\ db'.run = db.run
  BY FieldsTyped DEF ConfirmDb, Databases
<1>2. HoldsAck(db, a) /\ ~(h > a.seq) /\ h # a.seq
  BY DEF ConfirmVerdict
<1>3. /\ h \in 0..MaxSeq /\ a.seq \in 1..MaxSeq
      /\ \A c \in RowsOf(db.confirms, a.stream, a.gen) : c.seq <= h
  BY FieldsTyped, HighestIsGreatest DEF ChainRows
<1>4. h < a.seq
  BY <1>2, <1>3, MaxSeqAssumption
<1>5. PICK r \in db.chain : SamePosition(r, a) /\ r.cursor = a.cursor
  BY <1>2 DEF HoldsAck
<1>6. row.stream = a.stream /\ row.gen = a.gen /\ row.seq = a.seq /\ row.cursor = a.cursor /\ row.previous = h
  OBVIOUS
<1> HIDE DEF row, h
<1>7. \A c \in db.confirms : c.stream = a.stream /\ c.gen = a.gen => c.seq \in 1..MaxSeq /\ c.seq < a.seq
  BY <1>3, <1>4, FieldsTyped, MaxSeqAssumption DEF RowsOf
<1>8. ConfirmsLinked'
  <2>1. \A c \in db'.confirms : HoldsAck(db, c)' <=> HoldsAck(db, c)
    BY <1>1 DEF HoldsAck
  <2>2. HoldsAck(db, row)
    BY <1>5, <1>6 DEF HoldsAck, SamePosition
  <2>3. \A c \in db.confirms :
           HighestBelow(db'.confirms, c.stream, c.gen, c.seq) =
             HighestBelow(db.confirms, c.stream, c.gen, c.seq)
    <3> SUFFICES ASSUME NEW c \in db.confirms
                 PROVE  HighestBelow(db'.confirms, c.stream, c.gen, c.seq) =
                          HighestBelow(db.confirms, c.stream, c.gen, c.seq)
      OBVIOUS
    <3>1. c.stream = a.stream /\ c.gen = a.gen => ~(row.seq < c.seq)
      BY <1>3, <1>6, <1>7, MaxSeqAssumption
    <3>2. {q \in RowsOf(db'.confirms, c.stream, c.gen) : q.seq < c.seq} =
            {q \in RowsOf(db.confirms, c.stream, c.gen) : q.seq < c.seq}
      BY <1>1, <1>6, <3>1 DEF RowsOf
    <3> QED
      BY <3>2 DEF HighestBelow
  <2>4. row.previous = HighestBelow(db'.confirms, row.stream, row.gen, row.seq)
    <3>1. ~(row.seq < row.seq)
      BY <1>3, <1>6, MaxSeqAssumption
    <3>2. {q \in RowsOf(db'.confirms, row.stream, row.gen) : q.seq < row.seq} =
            RowsOf(db.confirms, row.stream, row.gen)
      BY <1>1, <1>6, <1>7, <3>1 DEF RowsOf
    <3> QED
      BY <1>6, <3>2 DEF HighestBelow, Highest, h
  <2>5. \A c \in db.confirms : ~SamePosition(c, row) /\ ~SamePosition(row, c)
    BY <1>3, <1>6, <1>7, MaxSeqAssumption DEF SamePosition
  <2> QED
    BY <1>1, <2>1, <2>2, <2>3, <2>4, <2>5 DEF ConfirmsLinked
<1>9. AckBlockedAfterGap'
  <2> SUFFICES ASSUME NEW gap \in db.gaps, gap.reason = "MISSING_SEQUENCE",
                      NEW c \in RowsOf(db'.confirms, gap.stream, gap.gen)
               PROVE  c.seq < gap.from
    BY <1>1 DEF AckBlockedAfterGap
  <2>1. CASE c = row
    <3>1. r \in RowsOf(db.chain, gap.stream, gap.gen) /\ r.seq = c.seq
      BY <1>5, <1>6, <2>1 DEF RowsOf, SamePosition
    <3> QED
      BY <3>1 DEF AckBlockedAfterGap
  <2>2. CASE c \in db.confirms
    BY <2>2 DEF AckBlockedAfterGap, RowsOf
  <2> QED
    BY <1>1, <2>1, <2>2 DEF RowsOf
<1>10. LateRepairIsHistory'
  <2>1. ASSUME NEW q \in db.repairs, SamePosition(row, q) PROVE FALSE
    <3>1. r \in RowsOf(db.chain, q.stream, q.gen) /\ r.seq = q.seq
      BY <1>5, <1>6, <2>1 DEF RowsOf, SamePosition
    <3>2. r.seq < q.seq /\ r.seq \in 1..MaxSeq
      BY <3>1, FieldsTyped DEF LateRepairIsHistory
    <3> QED
      BY <3>1, <3>2, MaxSeqAssumption
  <2> QED
    BY <1>1, <2>1 DEF LateRepairIsHistory
<1>11. Numbered' /\ ClosedWithRun' /\ ConflictIsOnePosition'
  BY <1>1 DEF Numbered, ClosedWithRun, ConflictIsOnePosition
<1> QED
  BY <1>8, <1>9, <1>10, <1>11

LEMMA RepairKeeps ==
  ASSUME HistoryInv, NEW o \in Observations, CanRepair(db, o), db' = RepairDb(db, o)
  PROVE  Kept'
<1> DEFINE prior == CursorAt(db.chain, o.stream, o.gen,
                             HighestBelow(db.chain, o.stream, o.gen, o.seq))
           row == [stream |-> o.stream, gen |-> o.gen, seq |-> o.seq, body |-> o.body,
                   prior |-> prior, cursor |-> Append(prior, o.body)]
<1> USE DEF HistoryInv, Kept, ContinuityInv
<1>1. /\ db'.repairs = db.repairs \cup {row} /\ db'.chain = db.chain
      /\ db'.confirms = db.confirms /\ db'.gaps = db.gaps /\ db'.gens = db.gens /\ db'.run = db.run
  BY FieldsTyped DEF RepairDb, Databases
<1>2. row.stream = o.stream /\ row.gen = o.gen /\ row.seq = o.seq
  OBVIOUS
<1> HIDE DEF row
<1>3. PICK gap \in RowsOf(db.gaps, o.stream, o.gen) : o.seq \in gap.from .. gap.to
  BY DEF CanRepair
<1>4. /\ gap \in db.gaps /\ gap.stream = o.stream /\ gap.gen = o.gen
      /\ db.gens[o.stream][o.gen] \in {"CLOSED", "QUARANTINED_GAP"}
      /\ \A r \in db.chain : ~SamePosition(r, o)
  BY <1>3 DEF RowsOf, CanRepair, GenState, RawAt
<1>5. gap.reason = "MISSING_SEQUENCE"
  <2> SUFFICES ASSUME gap.reason # "MISSING_SEQUENCE" PROVE FALSE
    OBVIOUS
  <2>1. PICK r \in RowsOf(db.chain, o.stream, o.gen) : r.seq = gap.detected
    BY <1>4 DEF AckBlockedAfterGap
  <2>2. gap.from = gap.detected /\ gap.to = gap.detected
    BY <1>4 DEF ConflictIsOnePosition
  <2> QED
    BY <1>3, <1>4, <2>1, <2>2, FieldsTyped, MaxSeqAssumption DEF RowsOf, SamePosition, Observations
<1>6. \A q \in RowsOf(db.chain, o.stream, o.gen) : q.seq < o.seq
  <2>1. \A q \in RowsOf(db.chain, o.stream, o.gen) : q.seq < gap.from /\ q.seq \in Nat
    BY <1>4, <1>5, FieldsTyped, MaxSeqAssumption DEF AckBlockedAfterGap, RowsOf
  <2>2. gap.from \in Nat /\ gap.from <= o.seq /\ o.seq \in Nat
    BY <1>3, <1>4, FieldsTyped, MaxSeqAssumption DEF GapRows, Observations
  <2> QED
    BY <2>1, <2>2
<1>7. \A c \in db.confirms : ~SamePosition(c, row)
  <2> SUFFICES ASSUME NEW c \in db.confirms, SamePosition(c, row) PROVE FALSE
    OBVIOUS
  <2>1. PICK r \in db.chain : SamePosition(r, c)
    BY DEF ConfirmsLinked, HoldsAck
  <2> QED
    BY <1>2, <1>4, <2>1 DEF SamePosition
<1>8. LateRepairIsHistory'
  BY <1>1, <1>2, <1>3, <1>4, <1>5, <1>6, <1>7 DEF LateRepairIsHistory
<1>9. /\ Numbered' /\ ConfirmsLinked' /\ ClosedWithRun' /\ ConflictIsOnePosition'
      /\ AckBlockedAfterGap'
  BY <1>1 DEF Numbered, ConfirmsLinked, HoldsAck, ClosedWithRun, ConflictIsOnePosition,
              AckBlockedAfterGap
<1> QED
  BY <1>8, <1>9

LEMMA CloseRunKeeps ==
  ASSUME HistoryInv, CloseRun
  PROVE  Kept'
<1> USE DEF HistoryInv, Kept, ContinuityInv
<1>1. /\ db'.chain = db.chain /\ db'.repairs = db.repairs /\ db'.confirms = db.confirms
      /\ db'.gaps = db.gaps
      /\ db'.gens = [s \in Streams |-> [g \in Generations |->
                       IF db.gens[s][g] = "NONE" THEN "NONE" ELSE "CLOSED"]]
  BY FieldsTyped DEF CloseRun, CloseRunDb, Databases
<1>2. \A s \in Streams, g \in Generations : db'.gens[s][g] \in {"NONE", "CLOSED"}
  BY <1>1
<1>3. \A r \in db.repairs : r.stream \in Streams /\ r.gen \in Generations
  BY FieldsTyped DEF ChainRows
<1>4. ClosedWithRun'
  BY <1>2 DEF ClosedWithRun
<1>5. LateRepairIsHistory'
  BY <1>1, <1>2, <1>3 DEF LateRepairIsHistory
<1> QED
  BY <1>1, <1>4, <1>5 DEF Numbered, ConfirmsLinked, HoldsAck, ConflictIsOnePosition,
                          AckBlockedAfterGap

-----------------------------------------------------------------------------
(* Every step is one of the five transactions or leaves the store alone.   *)
LEMMA StepCases ==
  ASSUME TypeOK, [IngestNext]_ingestVars
  PROVE  \/ \E o \in Observations : IsNext(db, o) /\ db' = [db EXCEPT !.chain = @ \cup {NewRow(db, o)}]
         \/ \E o \in Observations, reason \in {"MISSING_SEQUENCE", "CONFLICTING_DUPLICATE"} :
              /\ CanShock(db)
              /\ IF reason = "MISSING_SEQUENCE" THEN IsGap(db, o) ELSE IsConflict(db, o)
              /\ db' = LoseContinuity(db, o, reason)
         \/ \E a \in db.chain \cup db.repairs :
              ConfirmVerdict(db, a) = "CONFIRMED" /\ db' = ConfirmDb(db, a)
         \/ \E o \in Observations : CanRepair(db, o) /\ db' = RepairDb(db, o)
         \/ CloseRun
         \/ db' = db
<1>1. ASSUME NEW o \in Observations, Apply(o)
      PROVE  \/ IsNext(db, o) /\ db' = [db EXCEPT !.chain = @ \cup {NewRow(db, o)}]
             \/ CanShock(db) /\ IsConflict(db, o) /\ db' = LoseContinuity(db, o, "CONFLICTING_DUPLICATE")
             \/ CanShock(db) /\ IsGap(db, o) /\ db' = LoseContinuity(db, o, "MISSING_SEQUENCE")
             \/ db' = db
  BY <1>1, CasesDisjoint, FieldsTyped DEF Apply, ApplyDb
<1>2. ASSUME NEW a \in db.chain \cup db.repairs, ConfirmAck(a)
      PROVE  \/ ConfirmVerdict(db, a) = "CONFIRMED" /\ db' = ConfirmDb(db, a)
             \/ db' = db
  BY <1>2 DEF ConfirmAck, ConfirmDb
<1>3. ASSUME NEW o \in Observations, StoreLateRepair(o)
      PROVE  CanRepair(db, o) /\ db' = RepairDb(db, o)
  BY <1>3 DEF StoreLateRepair
<1>4. CASE \E o \in Observations : Apply(o)
  BY <1>1, <1>4
<1> QED
  BY <1>2, <1>3, <1>4 DEF IngestNext, ingestVars

LEMMA HistoryInvariant == IngestSpec => []HistoryInv
<1>1. IngestInit => HistoryInv
  <2> SUFFICES ASSUME IngestInit PROVE HistoryInv
    OBVIOUS
  <2>1. /\ db.chain = {} /\ db.repairs = {} /\ db.confirms = {} /\ db.gaps = {} /\ db.run = "OPEN"
    BY DEF IngestInit, FreshDb
  <2>2. \A s, g : Highest({}, s, g) = 0
    <3>1. \A s, g : \/ Highest({}, s, g) = 0
                   \/ \E r \in RowsOf({}, s, g) : TRUE
      BY HighestIsGreatest
    <3> QED
      BY <3>1 DEF RowsOf
  <2>3. Numbered
    BY <2>1, <2>2, MaxSeqAssumption DEF Numbered
  <2>4. Kept
    BY <2>1, <2>3 DEF Kept, ConfirmsLinked, ClosedWithRun, ConflictIsOnePosition,
                      AckBlockedAfterGap, LateRepairIsHistory
  <2>5. TypeOK
    BY DEF IngestInit, TypeOK, FreshDb, Databases, Generations, GenStates
  <2>6. ContinuityLossAtomic /\ GenerationStates
    BY DEF IngestInit, FreshDb, ContinuityLossAtomic, GenerationStates, RowsOf, Generations
  <2>7. ChainLinked
    BY <2>1 DEF ChainLinked
  <2> QED
    BY <2>4, <2>5, <2>6, <2>7 DEF HistoryInv, ContinuityInv
<1>2. TypeOK' /\ ChainLinked' /\ HistoryInv /\ [IngestNext]_ingestVars => HistoryInv'
  <2> SUFFICES ASSUME TypeOK', ChainLinked', HistoryInv, [IngestNext]_ingestVars PROVE HistoryInv'
    OBVIOUS
  <2>1. ContinuityInv'
    BY ContinuityStep DEF HistoryInv, ContinuityInv
  <2>2. ASSUME db' = db PROVE Kept'
    BY <2>2 DEF HistoryInv, Kept, Numbered, ConfirmsLinked, HoldsAck, ClosedWithRun,
                ConflictIsOnePosition, AckBlockedAfterGap, LateRepairIsHistory
  <2>3. Kept'
    BY <2>2, StepCases, NextKeeps, LoseContinuityKeeps, ConfirmKeeps, RepairKeeps, CloseRunKeeps
       DEF HistoryInv, ContinuityInv
  <2> QED
    BY <2>1, <2>3 DEF HistoryInv
<1> QED
  BY <1>1, <1>2, TypeCorrect, ChainAlwaysLinked, PTL DEF IngestSpec

-----------------------------------------------------------------------------
(* What the invariant means for the validators and for apply.              *)

LEMMA JournalIsValid ==
  ASSUME HistoryInv
  PROVE  ValidJournal(db)
<1> USE DEF HistoryInv, Kept, ContinuityInv
<1>1. ASSUME NEW s \in Streams, NEW g \in Generations
      PROVE  LET rows == RowsOf(db.chain, s, g)
             IN  /\ {r.seq : r \in rows} = 1..Highest(rows, s, g)
                 /\ \A r, q \in rows : r.seq = q.seq => r = q
                 /\ \A r \in rows : /\ r.prior = CursorAt(rows, s, g, r.seq - 1)
                                    /\ r.cursor = Append(r.prior, r.body)
  <2> DEFINE rows == RowsOf(db.chain, s, g)
  <2>1. RowsOf(rows, s, g) = rows
    BY DEF RowsOf
  <2>2. Highest(rows, s, g) = Highest(db.chain, s, g)
    BY <2>1 DEF Highest
  <2>3. \A r \in rows : r \in db.chain /\ r.stream = s /\ r.gen = g /\ r.seq \in 1..MaxSeq
    BY FieldsTyped DEF RowsOf
  <2>4. Highest(db.chain, s, g) \in 0..MaxSeq /\ \A r \in rows : r.seq <= Highest(db.chain, s, g)
    BY FieldsTyped, HighestIsGreatest
  <2>5. \A n \in 1..MaxSeq : n <= Highest(db.chain, s, g) => \E r \in rows : r.seq = n
    BY DEF Numbered
  <2>6. \A r, q \in rows : r.seq = q.seq => r = q
    BY <2>3 DEF ChainLinked, SamePosition
  <2>7. \A r \in rows : /\ r.cursor = Append(r.prior, r.body)
                        /\ r.seq = 1 => r.prior = H0
                        /\ r.seq > 1 => \E q \in rows : q.seq = r.seq - 1 /\ q.cursor = r.prior
    BY <2>3 DEF ChainLinked
  <2> HIDE DEF rows
  <2>8. {r.seq : r \in rows} = 1..Highest(rows, s, g)
    BY <2>2, <2>3, <2>4, <2>5, MaxSeqAssumption
  <2>9. ASSUME NEW r \in rows PROVE r.prior = CursorAt(rows, s, g, r.seq - 1)
    <3>1. r.seq \in 1..MaxSeq
      BY <2>3
    <3>2. CASE r.seq = 1
      BY <2>7, <3>2 DEF CursorAt
    <3>3. CASE r.seq > 1
      <4>1. PICK q \in rows : q.seq = r.seq - 1 /\ q.cursor = r.prior
        BY <2>7, <3>3
      <4>2. (CHOOSE p \in RowsOf(rows, s, g) : p.seq = r.seq - 1) = q
        BY <2>1, <2>6, <4>1
      <4>3. r.seq - 1 # 0
        BY <3>1, <3>3, MaxSeqAssumption
      <4> QED
        BY <4>1, <4>2, <4>3 DEF CursorAt
    <3> QED
      BY <3>1, <3>2, <3>3, MaxSeqAssumption
  <2> QED
    BY <2>6, <2>7, <2>8, <2>9 DEF rows
<1> QED
  BY <1>1 DEF ValidJournal, ConfirmsLinked

LEMMA GapsAreRelated ==
  ASSUME HistoryInv
  PROVE  GapRelations(db)
<1> USE DEF HistoryInv, Kept, ContinuityInv
<1>1. \A r \in db.repairs : GenState(db, r) # "ACTIVE"
  BY DEF LateRepairIsHistory, GenState
<1>2. ASSUME NEW gap \in db.gaps
      PROVE  /\ gap.gen = 0 /\ GenState(db, gap) \notin {"NONE", "ACTIVE"}
             /\ \/ db.gens[gap.stream][1] = "ACTIVE"
                \/ db.gens[gap.stream][1] = "CLOSED" /\ db.run = "CLOSED"
  <2>1. gap.gen = 0 /\ db.gens[gap.stream][gap.gen] \in {"QUARANTINED_GAP", "CLOSED"}
    BY GapClosesGeneration
  <2>2. gap.stream \in Streams /\ gap \in RowsOf(db.gaps, gap.stream, 0)
    BY <2>1, FieldsTyped DEF RowsOf
  <2>3. db.gens[gap.stream][1] # "NONE"
    BY <2>2 DEF ContinuityLossAtomic
  <2>4. db.run \in {"OPEN", "CLOSED"}
    BY FieldsTyped
  <2> QED
    BY <2>1, <2>2, <2>3, <2>4 DEF GenState, GenerationStates, ClosedWithRun, Generations
<1> QED
  BY <1>1, <1>2 DEF GapRelations, Generations

LEMMA ChainIsComplete ==
  ASSUME HistoryInv
  PROVE  NeverIncompleteChain
<1> USE DEF HistoryInv, Kept, ContinuityInv
<1> SUFFICES ASSUME NEW o \in Observations
             PROVE  Verdict(db, o) # "E_INGEST_INCOMPLETE_DURABLE_CHAIN"
  BY DEF NeverIncompleteChain
<1>1. CASE ~Accepting(db, o)
  <2>1. db.gens[o.stream][o.gen] \in GenStates
    BY FieldsTyped DEF Observations
  <2>2. ~IsDuplicate(db, o) /\ ~IsNext(db, o) /\ ~IsConflict(db, o) /\ ~IsGap(db, o)
    BY <1>1 DEF IsDuplicate, IsNext, IsConflict, IsGap
  <2> QED
    BY <1>1, <2>1, <2>2 DEF Verdict, GenState, GenStates
<1>2. CASE Accepting(db, o)
  <2>1. db.run = "OPEN" /\ GenState(db, o) = "ACTIVE"
    BY <1>2 DEF Accepting
  <2>2. IsDuplicate(db, o) \/ IsConflict(db, o) \/ IsNext(db, o) \/ IsGap(db, o)
    <3>1. CASE RawAt(db, o) = {}
      <4>1. ~\E r \in RowsOf(db.chain, o.stream, o.gen) : r.seq = o.seq
        BY <3>1 DEF RawAt, RowsOf, SamePosition
      <4>2. o.stream \in Streams /\ o.gen \in Generations /\ o.seq \in 1..MaxSeq
        BY DEF Observations
      <4>3. ~(o.seq <= Highest(db.chain, o.stream, o.gen))
        BY <4>1, <4>2 DEF Numbered
      <4>4. Highest(db.chain, o.stream, o.gen) \in 0..MaxSeq
        BY FieldsTyped, HighestIsGreatest
      <4>5. \/ o.seq = Highest(db.chain, o.stream, o.gen) + 1
            \/ o.seq > Highest(db.chain, o.stream, o.gen) + 1
        BY <4>2, <4>3, <4>4, MaxSeqAssumption
      <4> QED
        BY <1>2, <3>1, <4>5 DEF IsNext, IsGap
    <3>2. CASE RawAt(db, o) # {}
      <4>1. PICK r \in db.chain \cup db.repairs : SamePosition(r, o)
        BY <3>2 DEF RawAt
      <4>2. r \notin db.repairs
        BY <2>1, <4>1 DEF LateRepairIsHistory, SamePosition, GenState
      <4> QED
        BY <1>2, <4>1, <4>2 DEF IsDuplicate, IsConflict, RawAt
    <3> QED
      BY <3>1, <3>2
  <2> QED
    BY <1>2, <2>1, <2>2 DEF Verdict
<1> QED
  BY <1>1, <1>2

(* What was acknowledged, lost or repaired late stays what it was: the      *)
(* validators accept every store, nothing is applied or acknowledged at or  *)
(* after a gap, a late repair is never either, and apply never meets a      *)
(* position without its chain row (ingest.py, store.py validate_journal).   *)
THEOREM HistoryAlwaysKept == IngestSpec => []HistoryKept
<1>1. HistoryInv => HistoryKept
  BY JournalIsValid, GapsAreRelated, ChainIsComplete
     DEF HistoryKept, ValidatorsAccept, HistoryInv, Kept
<1> QED
  BY <1>1, HistoryInvariant, PTL

-----------------------------------------------------------------------------
(* What a step may do to a generation that has been closed.                *)

Frozen(s, g) ==
  /\ db.gens[s][g] \in {"QUARANTINED_GAP", "CLOSED"} =>
       /\ RowsOf(db'.chain, s, g) = RowsOf(db.chain, s, g)
       /\ db'.gens[s][g] # "ACTIVE"
  /\ Highest(db'.confirms, s, g) >= Highest(db.confirms, s, g)

(* Confirmations are only added, so the highest one never falls.           *)
LEMMA ConfirmsGrow ==
  ASSUME TypeOK, TypeOK', db.confirms \subseteq db'.confirms, NEW s, NEW g
  PROVE  Highest(db'.confirms, s, g) >= Highest(db.confirms, s, g)
<1>1. /\ Highest(db.confirms, s, g) \in 0..MaxSeq
      /\ \/ Highest(db.confirms, s, g) = 0
         \/ \E r \in RowsOf(db.confirms, s, g) : r.seq = Highest(db.confirms, s, g)
  BY FieldsTyped, HighestIsGreatest
<1>2. \A r \in db'.confirms : r.seq \in 1..MaxSeq
  BY DEF TypeOK, Databases, ConfirmRows
<1>3. /\ Highest(db'.confirms, s, g) \in 0..MaxSeq
      /\ \A r \in RowsOf(db'.confirms, s, g) : r.seq <= Highest(db'.confirms, s, g)
  BY <1>2, HighestIsGreatest
<1>4. RowsOf(db.confirms, s, g) \subseteq RowsOf(db'.confirms, s, g)
  BY DEF RowsOf
<1> QED
  BY <1>1, <1>3, <1>4, MaxSeqAssumption

LEMMA StepKeepsFrozen ==
  ASSUME HistoryInv, TypeOK', [IngestNext]_ingestVars, NEW s \in Streams, NEW g \in Generations
  PROVE  Frozen(s, g)
<1> USE DEF HistoryInv, Kept, ContinuityInv
<1>1. ASSUME db'.chain = db.chain, db.confirms \subseteq db'.confirms,
             db.gens[s][g] \in {"QUARANTINED_GAP", "CLOSED"} => db'.gens[s][g] # "ACTIVE"
      PROVE  Frozen(s, g)
  BY <1>1, ConfirmsGrow DEF Frozen
<1>2. ASSUME NEW o \in Observations, IsNext(db, o),
             db' = [db EXCEPT !.chain = @ \cup {NewRow(db, o)}]
      PROVE  Frozen(s, g)
  <2>1. /\ db'.chain = db.chain \cup {NewRow(db, o)} /\ db'.gens = db.gens
        /\ db'.confirms = db.confirms
    BY <1>2, FieldsTyped DEF Databases
  <2>2. /\ NewRow(db, o).stream = o.stream /\ NewRow(db, o).gen = o.gen
        /\ db.gens[o.stream][o.gen] = "ACTIVE"
    BY <1>2 DEF NewRow, IsNext, Accepting, GenState
  <2>3. db.gens[s][g] # "ACTIVE" => RowsOf(db'.chain, s, g) = RowsOf(db.chain, s, g)
    BY <2>1, <2>2 DEF RowsOf
  <2>4. Highest(db'.confirms, s, g) >= Highest(db.confirms, s, g)
    BY <2>1, ConfirmsGrow
  <2> QED
    BY <2>1, <2>3, <2>4 DEF Frozen
<1>3. ASSUME NEW o \in Observations, NEW reason \in {"MISSING_SEQUENCE", "CONFLICTING_DUPLICATE"},
             CanShock(db), IF reason = "MISSING_SEQUENCE" THEN IsGap(db, o) ELSE IsConflict(db, o),
             db' = LoseContinuity(db, o, reason)
      PROVE  Frozen(s, g)
  <2>1. /\ o.gen = 0 /\ \A t \in Streams : db.gens[t][0] = "ACTIVE" /\ db.gens[t][1] = "NONE"
    BY <1>3, LossOfGenerationZero DEF IsGap, IsConflict
  <2>2. db.gens[s][g] \notin {"QUARANTINED_GAP", "CLOSED"}
    BY <2>1 DEF Generations
  <2>3. db'.chain = db.chain /\ db'.confirms = db.confirms
    BY <1>3, FieldsTyped DEF LoseContinuity, Databases
  <2> QED
    BY <1>1, <2>2, <2>3
<1>4. ASSUME NEW a \in db.chain \cup db.repairs, db' = ConfirmDb(db, a)
      PROVE  Frozen(s, g)
  <2>1. db'.chain = db.chain /\ db'.gens = db.gens /\ db.confirms \subseteq db'.confirms
    BY <1>4, FieldsTyped DEF ConfirmDb, Databases
  <2> QED
    BY <1>1, <2>1
<1>5. ASSUME NEW o \in Observations, db' = RepairDb(db, o)
      PROVE  Frozen(s, g)
  <2>1. db'.chain = db.chain /\ db'.gens = db.gens /\ db'.confirms = db.confirms
    BY <1>5, FieldsTyped DEF RepairDb, Databases
  <2> QED
    BY <1>1, <2>1
<1>6. CASE CloseRun
  <2>1. /\ db'.chain = db.chain /\ db'.confirms = db.confirms
        /\ db'.gens[s][g] \in {"NONE", "CLOSED"}
    BY <1>6, FieldsTyped DEF CloseRun, CloseRunDb, Databases
  <2> QED
    BY <1>1, <2>1
<1>7. CASE db' = db
  BY <1>1, <1>7
<1> QED
  BY <1>2, <1>3, <1>4, <1>5, <1>6, <1>7, StepCases

(* A closed generation gets no further applied row and does not become     *)
(* active again, and no confirmation is withdrawn or lowered, whatever     *)
(* transaction comes next (stream_generation_gap_close_..., confirm_ack).  *)
THEOREM ClosedGenerationsFrozen == IngestSpec => ClosedGenerationFrozen
<1>1. HistoryInv /\ TypeOK' /\ [IngestNext]_ingestVars =>
        [\A s \in Streams, g \in Generations :
           /\ db.gens[s][g] \in {"QUARANTINED_GAP", "CLOSED"} =>
                /\ RowsOf(db'.chain, s, g) = RowsOf(db.chain, s, g)
                /\ db'.gens[s][g] # "ACTIVE"
           /\ Highest(db'.confirms, s, g) >= Highest(db.confirms, s, g)]_ingestVars
  BY StepKeepsFrozen DEF Frozen
<1> QED
  BY <1>1, HistoryInvariant, TypeCorrect, PTL DEF IngestSpec, ClosedGenerationFrozen
=============================================================================
