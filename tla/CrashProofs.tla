----------------------------- MODULE CrashProofs -----------------------------
(***************************************************************************)
(* CrashMatrix, for any subset of the registered cases and mutations.      *)
(*                                                                         *)
(* The argument has three parts.  What the transactions leave in a store:  *)
(* every store a case comes to is written down as one record DB(...), and  *)
(* what each statement, transaction and recovery makes of it is computed   *)
(* once (the effects).  What the harness says to it: for every registered  *)
(* case and for both stores the crash can leave, recovery ends in the same *)
(* store, and the oracles, the evolution check and the recovery predicates *)
(* of the harness agree with what was computed (Honest, BackendFamily).    *)
(* And where a case is: CrashFacts, an invariant of the child and the      *)
(* harness, and CaseUndisturbed, what follows while nothing failed on its  *)
(* own.                                                                    *)
(***************************************************************************)
EXTENDS CrashMatrix, SequenceTheorems, FiniteSetTheorems, WellFoundedInduction, TLAPS

(* An induction over the natural numbers on sets instead of predicates.    *)
LEMMA LeastNatural ==
  ASSUME NEW T \in SUBSET Nat, T # {}
  PROVE  \E m \in T : \A y \in T : m <= y
<1>1. \E R : IsWellFoundedOn(R, Nat) /\ \A x, y \in Nat : x < y => <<x, y>> \in R
  <2>1. IsWellFoundedOn(OpToRel(<, Nat), Nat)
    BY NatLessThanWellFounded
  <2>2. \A x, y \in Nat : x < y => <<x, y>> \in OpToRel(<, Nat)
    BY Zenon DEF OpToRel
  <2> QED
    BY <2>1, <2>2, Zenon
<1>2. PICK R : IsWellFoundedOn(R, Nat) /\ \A x, y \in Nat : x < y => <<x, y>> \in R
  BY <1>1
<1>3. IsWellFoundedOn(R, Nat) /\ T \subseteq Nat
  BY <1>2
<1>4. \E m \in T : \A y \in T : ~(<<y, m>> \in R)
  BY <1>3, WFMin, Zenon
<1>5. PICK m \in T : \A y \in T : ~(<<y, m>> \in R)
  BY <1>4
<1>6. \A y \in T : ~(y < m)
  BY <1>2, <1>5
<1> QED
  BY <1>6

LEMMA SetInduction ==
  ASSUME NEW T \in SUBSET Nat, 0 \in T, \A n \in T : n + 1 \in T
  PROVE  T = Nat
<1> SUFFICES ASSUME Nat \ T # {} PROVE FALSE
  OBVIOUS
<1>1. PICK m \in Nat \ T : \A y \in Nat \ T : m <= y
  BY LeastNatural
<1>2. m - 1 \in Nat /\ ~(m <= m - 1) /\ (m - 1) + 1 = m
  BY <1>1
<1> QED
  BY <1>1, <1>2

-----------------------------------------------------------------------------
(* The steps of a transaction, of a sequence of operations, of a replay. *)
IsRun(run, d, statements, n) ==
  run = [k \in 0..n |-> IF k = 0 THEN d ELSE Execute(run[k - 1], statements[k])]

LEMMA RunIs ==
  ASSUME NEW d, NEW statements, NEW n \in Nat
  PROVE  \E run : IsRun(run, d, statements, n) /\ RunTo(d, statements, n) = run[n]
<1> DEFINE T == {m \in Nat : \E run : IsRun(run, d, statements, m)}
<1>1. 0 \in T
  <2>1. IsRun([k \in 0..0 |-> d], d, statements, 0)
    BY DEF IsRun
  <2> QED
    BY <2>1
<1>2. ASSUME NEW m \in T PROVE m + 1 \in T
  <2>1. PICK run : IsRun(run, d, statements, m)
    OBVIOUS
  <2> DEFINE next == [k \in 0..(m + 1) |-> IF k <= m THEN run[k] ELSE Execute(run[m], statements[m + 1])]
  <2>2. ASSUME NEW k \in 0..(m + 1)
        PROVE next[k] = IF k = 0 THEN d ELSE Execute(next[k - 1], statements[k])
    BY <2>1 DEF IsRun
  <2>3. IsRun(next, d, statements, m + 1)
    BY <2>2 DEF IsRun
  <2> QED
    BY <2>3
<1>3. n \in T
  BY <1>1, <1>2, SetInduction
<1> QED
  BY <1>3 DEF RunTo, IsRun

LEMMA RunsAgree ==
  ASSUME NEW d, NEW statements, NEW n \in Nat, NEW m \in Nat, n <= m,
         NEW f, NEW g, IsRun(f, d, statements, n), IsRun(g, d, statements, m)
  PROVE  f[n] = g[n]
<1> DEFINE T == {k \in Nat : k <= n => f[k] = g[k]}
<1>1. 0 \in T
  BY DEF IsRun
<1>2. ASSUME NEW k \in T PROVE k + 1 \in T
  BY DEF IsRun
<1>3. T = Nat
  <2> HIDE DEF T
  <2>1. T \in SUBSET Nat
    BY DEF T
  <2> QED
    BY <1>1, <1>2, <2>1, SetInduction
<1> QED
  BY <1>3

LEMMA RunSteps ==
  ASSUME NEW d, NEW statements
  PROVE  /\ RunTo(d, statements, 0) = d
         /\ \A n \in Nat : RunTo(d, statements, n + 1) = Execute(RunTo(d, statements, n), statements[n + 1])
<1>1. RunTo(d, statements, 0) = d
  BY RunIs DEF IsRun
<1>2. ASSUME NEW n \in Nat
      PROVE  RunTo(d, statements, n + 1) = Execute(RunTo(d, statements, n), statements[n + 1])
  <2>1. PICK f : IsRun(f, d, statements, n) /\ RunTo(d, statements, n) = f[n]
    BY RunIs
  <2>2. PICK g : IsRun(g, d, statements, n + 1) /\ RunTo(d, statements, n + 1) = g[n + 1]
    BY RunIs
  <2>3. f[n] = g[n]
    BY <2>1, <2>2, RunsAgree
  <2>4. g[n + 1] = Execute(g[n], statements[n + 1])
    BY <2>2 DEF IsRun
  <2> QED
    BY <2>1, <2>2, <2>3, <2>4
<1> QED
  BY <1>1, <1>2

IsDone(run, d, ops, n) ==
  run = [k \in 0..n |-> IF k = 0 THEN d ELSE Commit(run[k - 1], ops[k])]

LEMMA DoneIs ==
  ASSUME NEW d, NEW ops, NEW n \in Nat
  PROVE  \E run : IsDone(run, d, ops, n) /\ CommitTo(d, ops, n) = run[n]
<1> DEFINE T == {m \in Nat : \E run : IsDone(run, d, ops, m)}
<1>1. 0 \in T
  <2>1. IsDone([k \in 0..0 |-> d], d, ops, 0)
    BY DEF IsDone
  <2> QED
    BY <2>1
<1>2. ASSUME NEW m \in T PROVE m + 1 \in T
  <2>1. PICK run : IsDone(run, d, ops, m)
    OBVIOUS
  <2> DEFINE next == [k \in 0..(m + 1) |-> IF k <= m THEN run[k] ELSE Commit(run[m], ops[m + 1])]
  <2>2. ASSUME NEW k \in 0..(m + 1)
        PROVE next[k] = IF k = 0 THEN d ELSE Commit(next[k - 1], ops[k])
    BY <2>1 DEF IsDone
  <2>3. IsDone(next, d, ops, m + 1)
    BY <2>2 DEF IsDone
  <2> QED
    BY <2>3
<1>3. n \in T
  BY <1>1, <1>2, SetInduction
<1> QED
  BY <1>3 DEF CommitTo, IsDone

LEMMA DonesAgree ==
  ASSUME NEW d, NEW ops, NEW n \in Nat, NEW m \in Nat, n <= m,
         NEW f, NEW g, IsDone(f, d, ops, n), IsDone(g, d, ops, m)
  PROVE  f[n] = g[n]
<1> DEFINE T == {k \in Nat : k <= n => f[k] = g[k]}
<1>1. 0 \in T
  BY DEF IsDone
<1>2. ASSUME NEW k \in T PROVE k + 1 \in T
  BY DEF IsDone
<1>3. T = Nat
  <2> HIDE DEF T
  <2>1. T \in SUBSET Nat
    BY DEF T
  <2> QED
    BY <1>1, <1>2, <2>1, SetInduction
<1> QED
  BY <1>3

LEMMA DoneSteps ==
  ASSUME NEW d, NEW ops
  PROVE  /\ CommitTo(d, ops, 0) = d
         /\ \A n \in Nat : CommitTo(d, ops, n + 1) = Commit(CommitTo(d, ops, n), ops[n + 1])
<1>1. CommitTo(d, ops, 0) = d
  BY DoneIs DEF IsDone
<1>2. ASSUME NEW n \in Nat
      PROVE  CommitTo(d, ops, n + 1) = Commit(CommitTo(d, ops, n), ops[n + 1])
  <2>1. PICK f : IsDone(f, d, ops, n) /\ CommitTo(d, ops, n) = f[n]
    BY DoneIs
  <2>2. PICK g : IsDone(g, d, ops, n + 1) /\ CommitTo(d, ops, n + 1) = g[n + 1]
    BY DoneIs
  <2>3. f[n] = g[n]
    BY <2>1, <2>2, DonesAgree
  <2>4. g[n + 1] = Commit(g[n], ops[n + 1])
    BY <2>2 DEF IsDone
  <2> QED
    BY <2>1, <2>2, <2>3, <2>4
<1> QED
  BY <1>1, <1>2

IsReplay(run, start, n) ==
  run = [k \in 0..n |-> IF k = 0 THEN start ELSE Follow(run[k - 1])]

LEMMA ReplayIs ==
  ASSUME NEW start, NEW n \in Nat
  PROVE  \E run : IsReplay(run, start, n) /\ ReplayTo(start, n) = run[n]
<1> DEFINE T == {m \in Nat : \E run : IsReplay(run, start, m)}
<1>1. 0 \in T
  <2>1. IsReplay([k \in 0..0 |-> start], start, 0)
    BY DEF IsReplay
  <2> QED
    BY <2>1
<1>2. ASSUME NEW m \in T PROVE m + 1 \in T
  <2>1. PICK run : IsReplay(run, start, m)
    OBVIOUS
  <2> DEFINE next == [k \in 0..(m + 1) |-> IF k <= m THEN run[k] ELSE Follow(run[m])]
  <2>2. ASSUME NEW k \in 0..(m + 1)
        PROVE next[k] = IF k = 0 THEN start ELSE Follow(next[k - 1])
    BY <2>1 DEF IsReplay
  <2>3. IsReplay(next, start, m + 1)
    BY <2>2 DEF IsReplay
  <2> QED
    BY <2>3
<1>3. n \in T
  BY <1>1, <1>2, SetInduction
<1> QED
  BY <1>3 DEF ReplayTo, IsReplay

LEMMA ReplaysAgree ==
  ASSUME NEW start, NEW n \in Nat, NEW m \in Nat, n <= m,
         NEW f, NEW g, IsReplay(f, start, n), IsReplay(g, start, m)
  PROVE  f[n] = g[n]
<1> DEFINE T == {k \in Nat : k <= n => f[k] = g[k]}
<1>1. 0 \in T
  BY DEF IsReplay
<1>2. ASSUME NEW k \in T PROVE k + 1 \in T
  BY DEF IsReplay
<1>3. T = Nat
  <2> HIDE DEF T
  <2>1. T \in SUBSET Nat
    BY DEF T
  <2> QED
    BY <1>1, <1>2, <2>1, SetInduction
<1> QED
  BY <1>3

LEMMA ReplaySteps ==
  ASSUME NEW start
  PROVE  /\ ReplayTo(start, 0) = start
         /\ \A n \in Nat : ReplayTo(start, n + 1) = Follow(ReplayTo(start, n))
<1>1. ReplayTo(start, 0) = start
  BY ReplayIs DEF IsReplay
<1>2. ASSUME NEW n \in Nat
      PROVE  ReplayTo(start, n + 1) = Follow(ReplayTo(start, n))
  <2>1. PICK f : IsReplay(f, start, n) /\ ReplayTo(start, n) = f[n]
    BY ReplayIs
  <2>2. PICK g : IsReplay(g, start, n + 1) /\ ReplayTo(start, n + 1) = g[n + 1]
    BY ReplayIs
  <2>3. f[n] = g[n]
    BY <2>1, <2>2, ReplaysAgree
  <2>4. g[n + 1] = Follow(g[n])
    BY <2>2 DEF IsReplay
  <2> QED
    BY <2>1, <2>2, <2>3, <2>4
<1> QED
  BY <1>1, <1>2

-----------------------------------------------------------------------------
(* The registered cases. *)
CaseKnown ==
  \/ \E key \in BackendKeys : case = BackendScenario(key)
  \/ \E key \in CoherenceKeys : case = GapScenario(key)

LEMMA CaseFacts ==
  ASSUME CaseKnown
  PROVE  /\ case.family \in {"BACKEND", "GAP"}
         /\ case.point \in {"STATEMENT", "BEGIN", "COMMIT", "BEFORE_COMMIT", "AFTER"}
         /\ case.kill \/ (case.point = "AFTER" /\ case.family = "GAP")
         /\ case.point # "AFTER" => case.then = <<>>
         /\ case.family = "BACKEND" => case.first = <<>> /\ case.pre = <<>> /\ case.then = <<>>
         /\ case.op.do \in {"DELIVER", "LATE_REPAIR", "CLOSURE", "CAPACITY", "SHOCK", "PENDING",
                           "RELEASE", "NEW_SHOCK"}
<1>1. CASE \E key \in BackendKeys : case = BackendScenario(key)
  BY <1>1 DEF BackendScenario, BackendKeys, Deliver
<1>2. CASE \E key \in CoherenceKeys : case = GapScenario(key)
  <2>1. PICK key \in CoherenceKeys : case = GapScenario(key)
    BY <1>2
  <2>2. case.family = "GAP" /\ case.point \in {"STATEMENT", "COMMIT", "BEFORE_COMMIT", "AFTER"}
    BY <2>1 DEF GapScenario
  <2>3. case.kill \/ case.point = "AFTER"
    BY <2>1 DEF GapScenario, CoherenceKeys, GapKeys
  <2>4. case.point # "AFTER" => case.then = <<>>
    BY <2>1 DEF GapScenario, CoherenceKeys, GapKeys
  <2>5. case.op.do \in {"DELIVER", "LATE_REPAIR", "CLOSURE", "CAPACITY", "SHOCK", "PENDING",
                        "RELEASE", "NEW_SHOCK"}
    BY <2>1 DEF GapScenario, CoherenceKeys, GapKeys, Deliver, DeliverOther, Do
  <2> QED
    BY <2>2, <2>3, <2>4, <2>5
<1> QED
  BY <1>1, <1>2 DEF CaseKnown

(* The store at the turns of a case. *)
SetUp == CommitAll(Provisioned, case.setup)
Base == CommitAll(SetUp, case.first)

(* What a reader may find after the child was stopped. *)
Settled(d) ==
  /\ d \in {Old, New}
  /\ case.point \in {"BEGIN", "STATEMENT", "BEFORE_COMMIT"} => d = Old
  /\ case.point = "AFTER" => d = New

Target == IF case.family = "BACKEND" THEN New ELSE Recovered(case, New)


-----------------------------------------------------------------------------
(* Databases and what a statement makes of them. *)
DB(r, g, t, c, v, l) == [rows |-> r, gens |-> g, top |-> t, ctl |-> c, rev |-> v, log |-> l]

Counts == [Tables -> Nat]

More(r, T) == [t \in Tables |-> IF t \in T THEN r[t] + 1 ELSE r[t]]

LEMMA Executed ==
  ASSUME NEW r, NEW g, NEW t, NEW c, NEW v, NEW l, NEW s
  PROVE  Execute(DB(r, g, t, c, v, l), s)
           = DB(IF s.do = "INSERT" THEN [r EXCEPT ![s.table] = @ + 1] ELSE r,
                IF s.table = "stream_generations" /\ s.to # None THEN [g EXCEPT ![s.gen] = s.to] ELSE g,
                IF s.table = "raw_commits" /\ s.to = "APPLIED" THEN [t EXCEPT ![s.gen] = @ + 1] ELSE t,
                IF s.table = "coherence_controllers" THEN s.to ELSE c,
                IF s.table = "coherence_controllers" THEN v + 1 ELSE v,
                IF s.table = "coherence_transitions"
                  THEN Append(l, [from |-> s.to[1], to |-> s.to[2], at |-> s.gen]) ELSE l)
<1>1. Counted(DB(r, g, t, c, v, l), s)
        = DB(IF s.do = "INSERT" THEN [r EXCEPT ![s.table] = @ + 1] ELSE r, g, t, c, v, l)
  BY DEF Counted, DB
<1>2. \A q : [DB(q, g, t, c, v, l) EXCEPT !.gens[s.gen] = s.to]
        = DB(q, [g EXCEPT ![s.gen] = s.to], t, c, v, l)
  BY DEF DB
<1>3. \A q : [DB(q, g, t, c, v, l) EXCEPT !.top[s.gen] = @ + 1]
        = DB(q, g, [t EXCEPT ![s.gen] = @ + 1], c, v, l)
  BY DEF DB
<1>4. \A q : [[DB(q, g, t, c, v, l) EXCEPT !.ctl = s.to] EXCEPT !.rev = @ + 1]
        = DB(q, g, t, s.to, v + 1, l)
  <2>1. \A q, y : [DB(q, g, t, c, v, l) EXCEPT !.ctl = y] = DB(q, g, t, y, v, l)
    BY DEF DB
  <2>2. \A q, y : [DB(q, g, t, y, v, l) EXCEPT !.rev = @ + 1] = DB(q, g, t, y, v + 1, l)
    BY DEF DB
  <2> QED
    BY <2>1, <2>2
<1>5. \A q, x : [DB(q, g, t, c, v, l) EXCEPT !.log = Append(@, x)]
        = DB(q, g, t, c, v, Append(l, x))
  BY DEF DB
<1>6. \A q : Counted(DB(r, g, t, c, v, l), s)
        = DB(q, g, t, c, v, l) => Execute(DB(r, g, t, c, v, l), s)
           = DB(q,
                IF s.table = "stream_generations" /\ s.to # None THEN [g EXCEPT ![s.gen] = s.to] ELSE g,
                IF s.table = "raw_commits" /\ s.to = "APPLIED" THEN [t EXCEPT ![s.gen] = @ + 1] ELSE t,
                IF s.table = "coherence_controllers" THEN s.to ELSE c,
                IF s.table = "coherence_controllers" THEN v + 1 ELSE v,
                IF s.table = "coherence_transitions"
                  THEN Append(l, [from |-> s.to[1], to |-> s.to[2], at |-> s.gen]) ELSE l)
  <2> TAKE q
  <2> HAVE Counted(DB(r, g, t, c, v, l), s) = DB(q, g, t, c, v, l)
  <2>1. CASE s.table = "stream_generations" /\ s.to # None
    BY <1>2, <2>1 DEF Execute
  <2>2. CASE s.table = "raw_commits" /\ s.to = "APPLIED"
    BY <1>3, <2>2 DEF Execute
  <2>3. CASE s.table = "coherence_controllers"
    BY <1>4, <2>3 DEF Execute
  <2>4. CASE s.table = "coherence_transitions"
    BY <1>5, <2>4 DEF Execute
  <2>5. CASE /\ ~(s.table = "stream_generations" /\ s.to # None) /\ ~(s.table = "raw_commits" /\ s.to = "APPLIED")
             /\ s.table # "coherence_controllers" /\ s.table # "coherence_transitions"
    BY <2>5 DEF Execute
  <2> QED
    BY <2>1, <2>2, <2>3, <2>4, <2>5
<1> QED
  BY <1>1, <1>6

LEMMA MoreCounts ==
  ASSUME NEW r \in Counts, NEW T
  PROVE  More(r, T) \in Counts
BY DEF More, Counts

LEMMA MoreTwice ==
  ASSUME NEW r \in Counts, NEW S, NEW T, S \cap T = {}
  PROVE  More(More(r, S), T) = More(r, S \cup T)
BY DEF More, Counts

LEMMA OneMore ==
  ASSUME NEW r \in Counts, NEW x \in Tables
  PROVE  [r EXCEPT ![x] = @ + 1] = More(r, {x})
BY DEF More, Counts

LEMMA Inserted ==
  ASSUME NEW r \in Counts, NEW g, NEW t, NEW c, NEW v, NEW l,
         NEW x \in Tables \ {"coherence_transitions"}
  PROVE  Execute(DB(r, g, t, c, v, l), Insert(x)) = DB(More(r, {x}), g, t, c, v, l)
<1>1. x # "coherence_controllers"
  BY DEF Tables, CHAIN, GAP_INSERTS, PROOFS
<1>2. [r EXCEPT ![x] = @ + 1] = More(r, {x})
  BY OneMore
<1> DEFINE s == Insert(x)
<1>5. s.do = "INSERT" /\ s.table = x /\ s.to = None
  BY NoneAssumption DEF Insert
<1> HIDE DEF s
<1>6. Execute(DB(r, g, t, c, v, l), s)
           = DB(IF s.do = "INSERT" THEN [r EXCEPT ![s.table] = @ + 1] ELSE r,
                IF s.table = "stream_generations" /\ s.to # None THEN [g EXCEPT ![s.gen] = s.to] ELSE g,
                IF s.table = "raw_commits" /\ s.to = "APPLIED" THEN [t EXCEPT ![s.gen] = @ + 1] ELSE t,
                IF s.table = "coherence_controllers" THEN s.to ELSE c,
                IF s.table = "coherence_controllers" THEN v + 1 ELSE v,
                IF s.table = "coherence_transitions"
                  THEN Append(l, [from |-> s.to[1], to |-> s.to[2], at |-> s.gen]) ELSE l)
  BY Executed
<1> QED
  BY <1>1, <1>2, NoneAssumption, <1>5, <1>6 DEF s

LEMMA RawInserted ==
  ASSUME NEW r \in Counts, NEW g, NEW t, NEW c, NEW v, NEW l, NEW n
  PROVE  Execute(DB(r, g, t, c, v, l), InsertRaw(n, "APPLIED"))
           = DB(More(r, {"raw_commits"}), g, [t EXCEPT ![n] = @ + 1], c, v, l)
<1>1. "raw_commits" \in Tables
  BY DEF Tables, CHAIN
<1>2. [r EXCEPT !["raw_commits"] = @ + 1] = More(r, {"raw_commits"})
  BY <1>1, OneMore
<1> DEFINE s == InsertRaw(n, "APPLIED")
<1>5. s.do = "INSERT" /\ s.table = "raw_commits" /\ s.gen = n /\ s.to = "APPLIED"
  BY NoneAssumption DEF Insert, InsertRaw
<1> HIDE DEF s
<1>6. Execute(DB(r, g, t, c, v, l), s)
           = DB(IF s.do = "INSERT" THEN [r EXCEPT ![s.table] = @ + 1] ELSE r,
                IF s.table = "stream_generations" /\ s.to # None THEN [g EXCEPT ![s.gen] = s.to] ELSE g,
                IF s.table = "raw_commits" /\ s.to = "APPLIED" THEN [t EXCEPT ![s.gen] = @ + 1] ELSE t,
                IF s.table = "coherence_controllers" THEN s.to ELSE c,
                IF s.table = "coherence_controllers" THEN v + 1 ELSE v,
                IF s.table = "coherence_transitions"
                  THEN Append(l, [from |-> s.to[1], to |-> s.to[2], at |-> s.gen]) ELSE l)
  BY Executed
<1> QED
  BY <1>2, NoneAssumption, <1>5, <1>6 DEF s

LEMMA RepairInserted ==
  ASSUME NEW r \in Counts, NEW g, NEW t, NEW c, NEW v, NEW l, NEW n
  PROVE  Execute(DB(r, g, t, c, v, l), InsertRaw(n, "LATE_REPAIR_ONLY"))
           = DB(More(r, {"raw_commits"}), g, t, c, v, l)
<1>1. "raw_commits" \in Tables
  BY DEF Tables, CHAIN
<1>2. [r EXCEPT !["raw_commits"] = @ + 1] = More(r, {"raw_commits"})
  BY <1>1, OneMore
<1> DEFINE s == InsertRaw(n, "LATE_REPAIR_ONLY")
<1>5. s.do = "INSERT" /\ s.table = "raw_commits" /\ s.gen = n /\ s.to = "LATE_REPAIR_ONLY"
  BY NoneAssumption DEF Insert, InsertRaw
<1> HIDE DEF s
<1>6. Execute(DB(r, g, t, c, v, l), s)
           = DB(IF s.do = "INSERT" THEN [r EXCEPT ![s.table] = @ + 1] ELSE r,
                IF s.table = "stream_generations" /\ s.to # None THEN [g EXCEPT ![s.gen] = s.to] ELSE g,
                IF s.table = "raw_commits" /\ s.to = "APPLIED" THEN [t EXCEPT ![s.gen] = @ + 1] ELSE t,
                IF s.table = "coherence_controllers" THEN s.to ELSE c,
                IF s.table = "coherence_controllers" THEN v + 1 ELSE v,
                IF s.table = "coherence_transitions"
                  THEN Append(l, [from |-> s.to[1], to |-> s.to[2], at |-> s.gen]) ELSE l)
  BY Executed
<1> QED
  BY <1>2, NoneAssumption, <1>5, <1>6 DEF s

LEMMA GenerationInserted ==
  ASSUME NEW r \in Counts, NEW g, NEW t, NEW c, NEW v, NEW l, NEW n
  PROVE  Execute(DB(r, g, t, c, v, l), InsertGeneration(n))
           = DB(More(r, {"stream_generations"}), [g EXCEPT ![n] = "ACTIVE"], t, c, v, l)
<1>1. "stream_generations" \in Tables
  BY DEF Tables, GAP_INSERTS
<1>2. [r EXCEPT !["stream_generations"] = @ + 1] = More(r, {"stream_generations"})
  BY <1>1, OneMore
<1> DEFINE s == InsertGeneration(n)
<1>5. s.do = "INSERT" /\ s.table = "stream_generations" /\ s.gen = n /\ s.to = "ACTIVE"
  BY NoneAssumption DEF Insert, InsertGeneration
<1> HIDE DEF s
<1>6. Execute(DB(r, g, t, c, v, l), s)
           = DB(IF s.do = "INSERT" THEN [r EXCEPT ![s.table] = @ + 1] ELSE r,
                IF s.table = "stream_generations" /\ s.to # None THEN [g EXCEPT ![s.gen] = s.to] ELSE g,
                IF s.table = "raw_commits" /\ s.to = "APPLIED" THEN [t EXCEPT ![s.gen] = @ + 1] ELSE t,
                IF s.table = "coherence_controllers" THEN s.to ELSE c,
                IF s.table = "coherence_controllers" THEN v + 1 ELSE v,
                IF s.table = "coherence_transitions"
                  THEN Append(l, [from |-> s.to[1], to |-> s.to[2], at |-> s.gen]) ELSE l)
  BY Executed
<1> QED
  BY <1>2, NoneAssumption, <1>5, <1>6 DEF s

Passage(from, to, at) == [from |-> from, to |-> to, at |-> at]

LEMMA TransitionInserted ==
  ASSUME NEW r \in Counts, NEW g, NEW t, NEW c, NEW v, NEW l, NEW x, NEW y, NEW n
  PROVE  Execute(DB(r, g, t, c, v, l), InsertTransition(x, y, n))
           = DB(More(r, {"coherence_transitions"}), g, t, c, v, Append(l, Passage(x, y, n)))
<1>1. "coherence_transitions" \in Tables
  BY DEF Tables, GAP_INSERTS
<1>2. [r EXCEPT !["coherence_transitions"] = @ + 1] = More(r, {"coherence_transitions"})
  BY <1>1, OneMore
<1> DEFINE s == InsertTransition(x, y, n)
<1>5. s.do = "INSERT" /\ s.table = "coherence_transitions" /\ s.gen = n /\ s.to[1] = x /\ s.to[2] = y
  BY NoneAssumption DEF InsertTransition
<1> HIDE DEF s
<1>6. Execute(DB(r, g, t, c, v, l), s)
           = DB(IF s.do = "INSERT" THEN [r EXCEPT ![s.table] = @ + 1] ELSE r,
                IF s.table = "stream_generations" /\ s.to # None THEN [g EXCEPT ![s.gen] = s.to] ELSE g,
                IF s.table = "raw_commits" /\ s.to = "APPLIED" THEN [t EXCEPT ![s.gen] = @ + 1] ELSE t,
                IF s.table = "coherence_controllers" THEN s.to ELSE c,
                IF s.table = "coherence_controllers" THEN v + 1 ELSE v,
                IF s.table = "coherence_transitions"
                  THEN Append(l, [from |-> s.to[1], to |-> s.to[2], at |-> s.gen]) ELSE l)
  BY Executed
<1> QED
  BY <1>2, <1>5, <1>6 DEF s, Passage

LEMMA ControllerUpdated ==
  ASSUME NEW r, NEW g, NEW t, NEW c, NEW v \in Nat, NEW l, NEW y
  PROVE  Execute(DB(r, g, t, c, v, l), UpdateController(y)) = DB(r, g, t, y, v + 1, l)
<1> DEFINE s == UpdateController(y)
<1>5. s.do = "UPDATE" /\ s.table = "coherence_controllers" /\ s.to = y
  BY NoneAssumption DEF UpdateController
<1> HIDE DEF s
<1>6. Execute(DB(r, g, t, c, v, l), s)
           = DB(IF s.do = "INSERT" THEN [r EXCEPT ![s.table] = @ + 1] ELSE r,
                IF s.table = "stream_generations" /\ s.to # None THEN [g EXCEPT ![s.gen] = s.to] ELSE g,
                IF s.table = "raw_commits" /\ s.to = "APPLIED" THEN [t EXCEPT ![s.gen] = @ + 1] ELSE t,
                IF s.table = "coherence_controllers" THEN s.to ELSE c,
                IF s.table = "coherence_controllers" THEN v + 1 ELSE v,
                IF s.table = "coherence_transitions"
                  THEN Append(l, [from |-> s.to[1], to |-> s.to[2], at |-> s.gen]) ELSE l)
  BY Executed
<1> QED
  BY <1>5, <1>6 DEF s

LEMMA GenerationUpdated ==
  ASSUME NEW r, NEW g, NEW t, NEW c, NEW v, NEW l, NEW n, NEW y, y # None
  PROVE  Execute(DB(r, g, t, c, v, l), UpdateGeneration(n, y))
           = DB(r, [g EXCEPT ![n] = y], t, c, v, l)
<1> DEFINE s == UpdateGeneration(n, y)
<1>5. s.do = "UPDATE" /\ s.table = "stream_generations" /\ s.gen = n /\ s.to = y
  BY NoneAssumption DEF UpdateGeneration
<1> HIDE DEF s
<1>6. Execute(DB(r, g, t, c, v, l), s)
           = DB(IF s.do = "INSERT" THEN [r EXCEPT ![s.table] = @ + 1] ELSE r,
                IF s.table = "stream_generations" /\ s.to # None THEN [g EXCEPT ![s.gen] = s.to] ELSE g,
                IF s.table = "raw_commits" /\ s.to = "APPLIED" THEN [t EXCEPT ![s.gen] = @ + 1] ELSE t,
                IF s.table = "coherence_controllers" THEN s.to ELSE c,
                IF s.table = "coherence_controllers" THEN v + 1 ELSE v,
                IF s.table = "coherence_transitions"
                  THEN Append(l, [from |-> s.to[1], to |-> s.to[2], at |-> s.gen]) ELSE l)
  BY Executed
<1> QED
  BY <1>5, <1>6 DEF s

-----------------------------------------------------------------------------
(* What the transactions make of them. *)
LEMMA RunUnrolls ==
  ASSUME NEW d, NEW s
  PROVE  /\ RunTo(d, s, 0) = d
         /\ RunTo(d, s, 1) = Execute(RunTo(d, s, 0), s[1])
         /\ RunTo(d, s, 2) = Execute(RunTo(d, s, 1), s[2])
         /\ RunTo(d, s, 3) = Execute(RunTo(d, s, 2), s[3])
         /\ RunTo(d, s, 4) = Execute(RunTo(d, s, 3), s[4])
         /\ RunTo(d, s, 5) = Execute(RunTo(d, s, 4), s[5])
         /\ RunTo(d, s, 6) = Execute(RunTo(d, s, 5), s[6])
         /\ RunTo(d, s, 7) = Execute(RunTo(d, s, 6), s[7])
         /\ RunTo(d, s, 8) = Execute(RunTo(d, s, 7), s[8])
         /\ RunTo(d, s, 9) = Execute(RunTo(d, s, 8), s[9])
         /\ RunTo(d, s, 10) = Execute(RunTo(d, s, 9), s[10])
<1>1. /\ RunTo(d, s, 0) = d
      /\ \A n \in Nat : RunTo(d, s, n + 1) = Execute(RunTo(d, s, n), s[n + 1])
  BY RunSteps
<1>2. RunTo(d, s, 0 + 1) = Execute(RunTo(d, s, 0), s[0 + 1])
  BY <1>1
<1>3. RunTo(d, s, 1 + 1) = Execute(RunTo(d, s, 1), s[1 + 1])
  BY <1>1
<1>4. RunTo(d, s, 2 + 1) = Execute(RunTo(d, s, 2), s[2 + 1])
  BY <1>1
<1>5. RunTo(d, s, 3 + 1) = Execute(RunTo(d, s, 3), s[3 + 1])
  BY <1>1
<1>6. RunTo(d, s, 4 + 1) = Execute(RunTo(d, s, 4), s[4 + 1])
  BY <1>1
<1>7. RunTo(d, s, 5 + 1) = Execute(RunTo(d, s, 5), s[5 + 1])
  BY <1>1
<1>8. RunTo(d, s, 6 + 1) = Execute(RunTo(d, s, 6), s[6 + 1])
  BY <1>1
<1>9. RunTo(d, s, 7 + 1) = Execute(RunTo(d, s, 7), s[7 + 1])
  BY <1>1
<1>10. RunTo(d, s, 8 + 1) = Execute(RunTo(d, s, 8), s[8 + 1])
  BY <1>1
<1>11. RunTo(d, s, 9 + 1) = Execute(RunTo(d, s, 9), s[9 + 1])
  BY <1>1
<1> QED
  BY <1>1, <1>2, <1>3, <1>4, <1>5, <1>6, <1>7, <1>8, <1>9, <1>10, <1>11

(* What a statement does to the counters and states of the generations. *)
Bump(t, n) == [t EXCEPT ![n] = @ + 1]

Put(g, n, to) == [g EXCEPT ![n] = to]

(* An applied observation. *)
LEMMA ChainSteps ==
  ASSUME NEW r \in Counts, NEW g, NEW t, NEW c, NEW v \in Nat, NEW l, NEW n \in Nat
  PROVE  LET d == DB(r, g, t, c, v, l)
             s == ChainTx(n)
             r1 == More(r, {"raw_commits"})
             r2 == More(r1, {"application_records"})
             r3 == More(r2, {"derived_revisions"})
             r4 == More(r3, {"reducer_cursors"})
             r5 == More(r4, {"ack_outbox"})
         IN  /\ RunTo(d, s, 1) = DB(r1, g, Bump(t, n), c, v, l)
             /\ RunTo(d, s, 2) = DB(r2, g, Bump(t, n), c, v, l)
             /\ RunTo(d, s, 3) = DB(r3, g, Bump(t, n), c, v, l)
             /\ RunTo(d, s, 4) = DB(r4, g, Bump(t, n), c, v, l)
             /\ RunTo(d, s, 5) = DB(r5, g, Bump(t, n), c, v, l)
<1> DEFINE d == DB(r, g, t, c, v, l)
           s == ChainTx(n)
           r1 == More(r, {"raw_commits"})
           r2 == More(r1, {"application_records"})
           r3 == More(r2, {"derived_revisions"})
           r4 == More(r3, {"reducer_cursors"})
           r5 == More(r4, {"ack_outbox"})
<1>1. /\ Len(s) = 5
      /\ s[1] = InsertRaw(n, "APPLIED")
      /\ s[2] = Insert("application_records")
      /\ s[3] = Insert("derived_revisions")
      /\ s[4] = Insert("reducer_cursors")
      /\ s[5] = Insert("ack_outbox")
  BY DEF ChainTx
<1> HIDE DEF s
<1>2. /\ RunTo(d, s, 0) = d
      /\ RunTo(d, s, 1) = Execute(RunTo(d, s, 0), s[1])
      /\ RunTo(d, s, 2) = Execute(RunTo(d, s, 1), s[2])
      /\ RunTo(d, s, 3) = Execute(RunTo(d, s, 2), s[3])
      /\ RunTo(d, s, 4) = Execute(RunTo(d, s, 3), s[4])
      /\ RunTo(d, s, 5) = Execute(RunTo(d, s, 4), s[5])
  BY RunUnrolls
<1>41. r1 \in Counts
  BY MoreCounts
<1>42. r2 \in Counts
  BY <1>41, MoreCounts
<1>43. r3 \in Counts
  BY <1>42, MoreCounts
<1>44. r4 \in Counts
  BY <1>43, MoreCounts
<1>45. r5 \in Counts
  BY <1>44, MoreCounts
<1>6. {"ack_outbox", "application_records", "derived_revisions", "reducer_cursors"} \subseteq Tables \ {"coherence_transitions"}
  BY DEF Tables, CHAIN, GAP_INSERTS, PROOFS
<1> HIDE DEF r1, r2, r3, r4, r5
<1>7. RunTo(d, s, 1) = DB(r1, g, [t EXCEPT ![n] = @ + 1], c, v, l)
  <2>1. Execute(DB(r, g, t, c, v, l), InsertRaw(n, "APPLIED"))
          = DB(r1, g, [t EXCEPT ![n] = @ + 1], c, v, l)
    BY RawInserted DEF r1
  <2> QED
    BY <1>1, <1>2, <2>1
<1>8. RunTo(d, s, 2) = DB(r2, g, [t EXCEPT ![n] = @ + 1], c, v, l)
  <2>1. Execute(DB(r1, g, [t EXCEPT ![n] = @ + 1], c, v, l), Insert("application_records"))
          = DB(r2, g, [t EXCEPT ![n] = @ + 1], c, v, l)
    BY <1>41, <1>6, Inserted DEF r2
  <2> QED
    BY <1>1, <1>2, <1>7, <2>1
<1>9. RunTo(d, s, 3) = DB(r3, g, [t EXCEPT ![n] = @ + 1], c, v, l)
  <2>1. Execute(DB(r2, g, [t EXCEPT ![n] = @ + 1], c, v, l), Insert("derived_revisions"))
          = DB(r3, g, [t EXCEPT ![n] = @ + 1], c, v, l)
    BY <1>42, <1>6, Inserted DEF r3
  <2> QED
    BY <1>1, <1>2, <1>8, <2>1
<1>10. RunTo(d, s, 4) = DB(r4, g, [t EXCEPT ![n] = @ + 1], c, v, l)
  <2>1. Execute(DB(r3, g, [t EXCEPT ![n] = @ + 1], c, v, l), Insert("reducer_cursors"))
          = DB(r4, g, [t EXCEPT ![n] = @ + 1], c, v, l)
    BY <1>43, <1>6, Inserted DEF r4
  <2> QED
    BY <1>1, <1>2, <1>9, <2>1
<1>11. RunTo(d, s, 5) = DB(r5, g, [t EXCEPT ![n] = @ + 1], c, v, l)
  <2>1. Execute(DB(r4, g, [t EXCEPT ![n] = @ + 1], c, v, l), Insert("ack_outbox"))
          = DB(r5, g, [t EXCEPT ![n] = @ + 1], c, v, l)
    BY <1>44, <1>6, Inserted DEF r5
  <2> QED
    BY <1>1, <1>2, <1>10, <2>1
<1> QED
  BY <1>7, <1>8, <1>9, <1>10, <1>11 DEF d, s, r1, r2, r3, r4, r5, Bump

LEMMA ChainRun ==
  ASSUME NEW r \in Counts, NEW g, NEW t, NEW c, NEW v \in Nat, NEW l, NEW n \in Nat
  PROVE  Run(DB(r, g, t, c, v, l), ChainTx(n))
           = DB(More(r, CHAIN), g, [t EXCEPT ![n] = @ + 1], c, v, l)
<1> DEFINE d == DB(r, g, t, c, v, l)
           s == ChainTx(n)
           r1 == More(r, {"raw_commits"})
           r2 == More(r1, {"application_records"})
           r3 == More(r2, {"derived_revisions"})
           r4 == More(r3, {"reducer_cursors"})
           r5 == More(r4, {"ack_outbox"})
<1>1. Len(s) = 5
  BY DEF ChainTx
<1>3. Run(d, s) = RunTo(d, s, Len(s))
  BY DEF Run
<1>5. r5 = More(r, CHAIN)
  BY DEF More, Counts, CHAIN, GAP_INSERTS
<1>6. RunTo(d, s, 5) = DB(r5, g, Bump(t, n), c, v, l)
  BY ChainSteps
<1> HIDE DEF r1, r2, r3, r4, r5
<1> QED
  BY <1>1, <1>3, <1>5, <1>6 DEF Bump

(* A gap: the controller closes, the generation ends, the next one begins. *)
LEMMA GapSteps ==
  ASSUME NEW r \in Counts, NEW g, NEW t, NEW c, NEW v \in Nat, NEW l, NEW n \in Nat
  PROVE  LET d == DB(r, g, t, c, v, l)
             s == GapTx(DB(r, g, t, c, v, l), n, "QUARANTINED_GAP")
             h == Put(g, n, "QUARANTINED_GAP")
             r1 == More(r, {"gap_records"})
             r2 == More(r1, {"shock_observations"})
             r3 == More(r2, {"coherence_transitions"})
             r4 == More(r3, {"gap_epoch_bindings"})
             r5 == More(r4, {"generation_transitions"})
             r6 == More(r5, {"stream_generations"})
         IN  /\ RunTo(d, s, 1) = DB(r1, g, t, c, v, l)
             /\ RunTo(d, s, 2) = DB(r2, g, t, c, v, l)
             /\ RunTo(d, s, 3) = DB(r3, g, t, c, v, Append(l, Passage(c, "SHOCKED_CLOSED", Now)))
             /\ RunTo(d, s, 4)
                  = DB(r3, g, t, "SHOCKED_CLOSED", v + 1,
                      Append(l, Passage(c, "SHOCKED_CLOSED", Now)))
             /\ RunTo(d, s, 5)
                  = DB(r4, g, t, "SHOCKED_CLOSED", v + 1,
                      Append(l, Passage(c, "SHOCKED_CLOSED", Now)))
             /\ RunTo(d, s, 6)
                  = DB(r4, h, t, "SHOCKED_CLOSED", v + 1,
                      Append(l, Passage(c, "SHOCKED_CLOSED", Now)))
             /\ RunTo(d, s, 7)
                  = DB(r5, h, t, "SHOCKED_CLOSED", v + 1,
                      Append(l, Passage(c, "SHOCKED_CLOSED", Now)))
             /\ RunTo(d, s, 8)
                  = DB(r6, Put(h, n + 1, "ACTIVE"), t, "SHOCKED_CLOSED", v + 1,
                      Append(l, Passage(c, "SHOCKED_CLOSED", Now)))
<1> DEFINE d == DB(r, g, t, c, v, l)
           s == GapTx(DB(r, g, t, c, v, l), n, "QUARANTINED_GAP")
           h == [g EXCEPT ![n] = "QUARANTINED_GAP"]
           r1 == More(r, {"gap_records"})
           r2 == More(r1, {"shock_observations"})
           r3 == More(r2, {"coherence_transitions"})
           r4 == More(r3, {"gap_epoch_bindings"})
           r5 == More(r4, {"generation_transitions"})
           r6 == More(r5, {"stream_generations"})
<1>1. /\ Len(s) = 8
      /\ s[1] = Insert("gap_records")
      /\ s[2] = Insert("shock_observations")
      /\ s[3] = InsertTransition(c, "SHOCKED_CLOSED", Now)
      /\ s[4] = UpdateController("SHOCKED_CLOSED")
      /\ s[5] = Insert("gap_epoch_bindings")
      /\ s[6] = UpdateGeneration(n, "QUARANTINED_GAP")
      /\ s[7] = Insert("generation_transitions")
      /\ s[8] = InsertGeneration(n + 1)
  BY DEF GapTx, DB
<1> HIDE DEF s
<1>2. /\ RunTo(d, s, 0) = d
      /\ RunTo(d, s, 1) = Execute(RunTo(d, s, 0), s[1])
      /\ RunTo(d, s, 2) = Execute(RunTo(d, s, 1), s[2])
      /\ RunTo(d, s, 3) = Execute(RunTo(d, s, 2), s[3])
      /\ RunTo(d, s, 4) = Execute(RunTo(d, s, 3), s[4])
      /\ RunTo(d, s, 5) = Execute(RunTo(d, s, 4), s[5])
      /\ RunTo(d, s, 6) = Execute(RunTo(d, s, 5), s[6])
      /\ RunTo(d, s, 7) = Execute(RunTo(d, s, 6), s[7])
      /\ RunTo(d, s, 8) = Execute(RunTo(d, s, 7), s[8])
  BY RunUnrolls
<1>41. r1 \in Counts
  BY MoreCounts
<1>42. r2 \in Counts
  BY <1>41, MoreCounts
<1>43. r3 \in Counts
  BY <1>42, MoreCounts
<1>44. r4 \in Counts
  BY <1>43, MoreCounts
<1>45. r5 \in Counts
  BY <1>44, MoreCounts
<1>46. r6 \in Counts
  BY <1>45, MoreCounts
<1>6. {"gap_epoch_bindings", "gap_records", "generation_transitions", "shock_observations"} \subseteq Tables \ {"coherence_transitions"}
  BY DEF Tables, CHAIN, GAP_INSERTS, PROOFS
<1> HIDE DEF r1, r2, r3, r4, r5, r6, h
<1>7. RunTo(d, s, 1) = DB(r1, g, t, c, v, l)
  <2>1. Execute(DB(r, g, t, c, v, l), Insert("gap_records")) = DB(r1, g, t, c, v, l)
    BY <1>6, Inserted DEF r1
  <2> QED
    BY <1>1, <1>2, <2>1
<1>8. RunTo(d, s, 2) = DB(r2, g, t, c, v, l)
  <2>1. Execute(DB(r1, g, t, c, v, l), Insert("shock_observations")) = DB(r2, g, t, c, v, l)
    BY <1>41, <1>6, Inserted DEF r2
  <2> QED
    BY <1>1, <1>2, <1>7, <2>1
<1>9. RunTo(d, s, 3) = DB(r3, g, t, c, v, Append(l, Passage(c, "SHOCKED_CLOSED", Now)))
  <2>1. Execute(DB(r2, g, t, c, v, l), InsertTransition(c, "SHOCKED_CLOSED", Now))
          = DB(r3, g, t, c, v, Append(l, Passage(c, "SHOCKED_CLOSED", Now)))
    BY <1>42, TransitionInserted DEF r3
  <2> QED
    BY <1>1, <1>2, <1>8, <2>1
<1>10. RunTo(d, s, 4)
         = DB(r3, g, t, "SHOCKED_CLOSED", v + 1, Append(l, Passage(c, "SHOCKED_CLOSED", Now)))
  <2>1. Execute(DB(r3, g, t, c, v, Append(l, Passage(c, "SHOCKED_CLOSED", Now))), UpdateController("SHOCKED_CLOSED"))
          = DB(r3, g, t, "SHOCKED_CLOSED", v + 1, Append(l, Passage(c, "SHOCKED_CLOSED", Now)))
    BY ControllerUpdated
  <2> QED
    BY <1>1, <1>2, <1>9, <2>1
<1>11. RunTo(d, s, 5)
         = DB(r4, g, t, "SHOCKED_CLOSED", v + 1, Append(l, Passage(c, "SHOCKED_CLOSED", Now)))
  <2>1. Execute(DB(r3, g, t, "SHOCKED_CLOSED", v + 1, Append(l, Passage(c, "SHOCKED_CLOSED", Now))), Insert("gap_epoch_bindings"))
          = DB(r4, g, t, "SHOCKED_CLOSED", v + 1, Append(l, Passage(c, "SHOCKED_CLOSED", Now)))
    BY <1>43, <1>6, Inserted DEF r4
  <2> QED
    BY <1>1, <1>2, <1>10, <2>1
<1>12. RunTo(d, s, 6)
         = DB(r4, h, t, "SHOCKED_CLOSED", v + 1, Append(l, Passage(c, "SHOCKED_CLOSED", Now)))
  <2>1. Execute(DB(r4, g, t, "SHOCKED_CLOSED", v + 1, Append(l, Passage(c, "SHOCKED_CLOSED", Now))), UpdateGeneration(n, "QUARANTINED_GAP"))
          = DB(r4, h, t, "SHOCKED_CLOSED", v + 1, Append(l, Passage(c, "SHOCKED_CLOSED", Now)))
    BY GenerationUpdated, NoneAssumption DEF h
  <2> QED
    BY <1>1, <1>2, <1>11, <2>1
<1>13. RunTo(d, s, 7)
         = DB(r5, h, t, "SHOCKED_CLOSED", v + 1, Append(l, Passage(c, "SHOCKED_CLOSED", Now)))
  <2>1. Execute(DB(r4, h, t, "SHOCKED_CLOSED", v + 1, Append(l, Passage(c, "SHOCKED_CLOSED", Now))), Insert("generation_transitions"))
          = DB(r5, h, t, "SHOCKED_CLOSED", v + 1, Append(l, Passage(c, "SHOCKED_CLOSED", Now)))
    BY <1>44, <1>6, Inserted DEF r5
  <2> QED
    BY <1>1, <1>2, <1>12, <2>1
<1>14. RunTo(d, s, 8)
         = DB(r6, [h EXCEPT ![n + 1] = "ACTIVE"], t, "SHOCKED_CLOSED", v + 1,
             Append(l, Passage(c, "SHOCKED_CLOSED", Now)))
  <2>1. \A m : Execute(DB(r5, h, t, "SHOCKED_CLOSED", v + 1,
              Append(l, Passage(c, "SHOCKED_CLOSED", Now))), InsertGeneration(m))
               = DB(r6, [h EXCEPT ![m] = "ACTIVE"], t, "SHOCKED_CLOSED", v + 1,
                     Append(l, Passage(c, "SHOCKED_CLOSED", Now)))
    BY <1>45, GenerationInserted DEF r6
  <2> QED
    BY <1>1, <1>2, <1>13, <2>1
<1> QED
  BY <1>7, <1>8, <1>9, <1>10, <1>11, <1>12, <1>13, <1>14 DEF d, s, r1, r2, r3, r4, r5, r6, h, Put

LEMMA GapRun ==
  ASSUME NEW r \in Counts, NEW g, NEW t, NEW c, NEW v \in Nat, NEW l, NEW n \in Nat
  PROVE  Run(DB(r, g, t, c, v, l), GapTx(DB(r, g, t, c, v, l), n, "QUARANTINED_GAP"))
           = DB(More(r, GAP_INSERTS), [[g EXCEPT ![n] = "QUARANTINED_GAP"] EXCEPT ![n + 1] = "ACTIVE"], t, "SHOCKED_CLOSED",
              v + 1, Append(l, Passage(c, "SHOCKED_CLOSED", Now)))
<1> DEFINE d == DB(r, g, t, c, v, l)
           s == GapTx(DB(r, g, t, c, v, l), n, "QUARANTINED_GAP")
           h == Put(g, n, "QUARANTINED_GAP")
           r1 == More(r, {"gap_records"})
           r2 == More(r1, {"shock_observations"})
           r3 == More(r2, {"coherence_transitions"})
           r4 == More(r3, {"gap_epoch_bindings"})
           r5 == More(r4, {"generation_transitions"})
           r6 == More(r5, {"stream_generations"})
<1>1. Len(s) = 8
  BY DEF GapTx, DB
<1>3. Run(d, s) = RunTo(d, s, Len(s))
  BY DEF Run
<1>5. r6 = More(r, GAP_INSERTS)
  BY DEF More, Counts, CHAIN, GAP_INSERTS
<1>6. RunTo(d, s, 8)
        = DB(r6, Put(h, n + 1, "ACTIVE"), t, "SHOCKED_CLOSED", v + 1,
            Append(l, Passage(c, "SHOCKED_CLOSED", Now)))
  BY GapSteps
<1> HIDE DEF r1, r2, r3, r4, r5, r6
<1> QED
  BY <1>1, <1>3, <1>5, <1>6 DEF Put

(* _shock_close *)
LEMMA ShockRun ==
  ASSUME NEW r \in Counts, NEW g, NEW t, NEW c, NEW v \in Nat, NEW l
  PROVE  Run(DB(r, g, t, c, v, l), ShockTx(DB(r, g, t, c, v, l)))
           = DB(More(r, {"shock_observations", "coherence_transitions"}), g, t, "SHOCKED_CLOSED",
              v + 1, Append(l, Passage(c, "SHOCKED_CLOSED", 6)))
<1> DEFINE d == DB(r, g, t, c, v, l)
           s == ShockTx(DB(r, g, t, c, v, l))
           r1 == More(r, {"shock_observations"})
           r2 == More(r1, {"coherence_transitions"})
<1>1. /\ Len(s) = 3
      /\ s[1] = Insert("shock_observations")
      /\ s[2] = InsertTransition(c, "SHOCKED_CLOSED", 6)
      /\ s[3] = UpdateController("SHOCKED_CLOSED")
  BY DEF ShockTx, DB
<1> HIDE DEF s
<1>2. /\ RunTo(d, s, 0) = d
      /\ RunTo(d, s, 1) = Execute(RunTo(d, s, 0), s[1])
      /\ RunTo(d, s, 2) = Execute(RunTo(d, s, 1), s[2])
      /\ RunTo(d, s, 3) = Execute(RunTo(d, s, 2), s[3])
  BY RunUnrolls
<1>3. Run(d, s) = RunTo(d, s, Len(s))
  BY DEF Run
<1>41. r1 \in Counts
  BY MoreCounts
<1>42. r2 \in Counts
  BY <1>41, MoreCounts
<1>5. r2 = More(r, {"shock_observations", "coherence_transitions"})
  BY DEF More, Counts, CHAIN, GAP_INSERTS
<1>6. {"shock_observations"} \subseteq Tables \ {"coherence_transitions"}
  BY DEF Tables, CHAIN, GAP_INSERTS, PROOFS
<1> HIDE DEF r1, r2
<1>7. RunTo(d, s, 1) = DB(r1, g, t, c, v, l)
  <2>1. Execute(DB(r, g, t, c, v, l), Insert("shock_observations")) = DB(r1, g, t, c, v, l)
    BY <1>6, Inserted DEF r1
  <2> QED
    BY <1>1, <1>2, <2>1
<1>8. RunTo(d, s, 2) = DB(r2, g, t, c, v, Append(l, Passage(c, "SHOCKED_CLOSED", 6)))
  <2>1. Execute(DB(r1, g, t, c, v, l), InsertTransition(c, "SHOCKED_CLOSED", 6))
          = DB(r2, g, t, c, v, Append(l, Passage(c, "SHOCKED_CLOSED", 6)))
    BY <1>41, TransitionInserted DEF r2
  <2> QED
    BY <1>1, <1>2, <1>7, <2>1
<1>9. RunTo(d, s, 3)
        = DB(r2, g, t, "SHOCKED_CLOSED", v + 1, Append(l, Passage(c, "SHOCKED_CLOSED", 6)))
  <2>1. Execute(DB(r2, g, t, c, v, Append(l, Passage(c, "SHOCKED_CLOSED", 6))), UpdateController("SHOCKED_CLOSED"))
          = DB(r2, g, t, "SHOCKED_CLOSED", v + 1, Append(l, Passage(c, "SHOCKED_CLOSED", 6)))
    BY ControllerUpdated
  <2> QED
    BY <1>1, <1>2, <1>8, <2>1
<1> QED
  BY <1>1, <1>3, <1>5, <1>9 DEF s

(* _waiting *)
LEMMA WaitingRun ==
  ASSUME NEW r \in Counts, NEW g, NEW t, NEW c, NEW v \in Nat, NEW l
  PROVE  Run(DB(r, g, t, c, v, l), WaitingTx)
           = DB(More(r, {"coherence_transitions"}), g, t, "WAITING_FOR_RESNAPSHOT",
              v + 1, Append(l, Passage("SHOCKED_CLOSED", "WAITING_FOR_RESNAPSHOT", 7)))
<1> DEFINE d == DB(r, g, t, c, v, l)
           s == WaitingTx
           r1 == More(r, {"coherence_transitions"})
<1>1. /\ Len(s) = 2
      /\ s[1] = InsertTransition("SHOCKED_CLOSED", "WAITING_FOR_RESNAPSHOT", 7)
      /\ s[2] = UpdateController("WAITING_FOR_RESNAPSHOT")
  BY DEF WaitingTx
<1> HIDE DEF s
<1>2. /\ RunTo(d, s, 0) = d
      /\ RunTo(d, s, 1) = Execute(RunTo(d, s, 0), s[1])
      /\ RunTo(d, s, 2) = Execute(RunTo(d, s, 1), s[2])
  BY RunUnrolls
<1>3. Run(d, s) = RunTo(d, s, Len(s))
  BY DEF Run
<1>41. r1 \in Counts
  BY MoreCounts
<1>5. r1 = More(r, {"coherence_transitions"})
  BY DEF More, Counts, CHAIN, GAP_INSERTS
<1> HIDE DEF r1
<1>7. RunTo(d, s, 1)
        = DB(r1, g, t, c, v, Append(l, Passage("SHOCKED_CLOSED", "WAITING_FOR_RESNAPSHOT", 7)))
  <2>1. Execute(DB(r, g, t, c, v, l), InsertTransition("SHOCKED_CLOSED", "WAITING_FOR_RESNAPSHOT", 7))
          = DB(r1, g, t, c, v, Append(l, Passage("SHOCKED_CLOSED", "WAITING_FOR_RESNAPSHOT", 7)))
    BY TransitionInserted DEF r1
  <2> QED
    BY <1>1, <1>2, <2>1
<1>8. RunTo(d, s, 2)
        = DB(r1, g, t, "WAITING_FOR_RESNAPSHOT", v + 1,
            Append(l, Passage("SHOCKED_CLOSED", "WAITING_FOR_RESNAPSHOT", 7)))
  <2>1. Execute(DB(r1, g, t, c, v, Append(l, Passage("SHOCKED_CLOSED", "WAITING_FOR_RESNAPSHOT", 7))), UpdateController("WAITING_FOR_RESNAPSHOT"))
          = DB(r1, g, t, "WAITING_FOR_RESNAPSHOT", v + 1,
              Append(l, Passage("SHOCKED_CLOSED", "WAITING_FOR_RESNAPSHOT", 7)))
    BY ControllerUpdated
  <2> QED
    BY <1>1, <1>2, <1>7, <2>1
<1> QED
  BY <1>1, <1>3, <1>5, <1>8 DEF s

(* _release *)
LEMMA ReleaseRun ==
  ASSUME NEW r \in Counts, NEW g, NEW t, NEW c, NEW v \in Nat, NEW l
  PROVE  Run(DB(r, g, t, c, v, l), ReleaseTx)
           = DB(More(r, {"coherence_transitions"}), g, t, "NEW_EPOCH_OPEN",
              v + 1, Append(l, Passage("NEW_EPOCH_PENDING", "NEW_EPOCH_OPEN", 9)))
<1> DEFINE d == DB(r, g, t, c, v, l)
           s == ReleaseTx
           r1 == More(r, {"coherence_transitions"})
<1>1. /\ Len(s) = 2
      /\ s[1] = InsertTransition("NEW_EPOCH_PENDING", "NEW_EPOCH_OPEN", 9)
      /\ s[2] = UpdateController("NEW_EPOCH_OPEN")
  BY DEF ReleaseTx
<1> HIDE DEF s
<1>2. /\ RunTo(d, s, 0) = d
      /\ RunTo(d, s, 1) = Execute(RunTo(d, s, 0), s[1])
      /\ RunTo(d, s, 2) = Execute(RunTo(d, s, 1), s[2])
  BY RunUnrolls
<1>3. Run(d, s) = RunTo(d, s, Len(s))
  BY DEF Run
<1>41. r1 \in Counts
  BY MoreCounts
<1>5. r1 = More(r, {"coherence_transitions"})
  BY DEF More, Counts, CHAIN, GAP_INSERTS
<1> HIDE DEF r1
<1>7. RunTo(d, s, 1)
        = DB(r1, g, t, c, v, Append(l, Passage("NEW_EPOCH_PENDING", "NEW_EPOCH_OPEN", 9)))
  <2>1. Execute(DB(r, g, t, c, v, l), InsertTransition("NEW_EPOCH_PENDING", "NEW_EPOCH_OPEN", 9))
          = DB(r1, g, t, c, v, Append(l, Passage("NEW_EPOCH_PENDING", "NEW_EPOCH_OPEN", 9)))
    BY TransitionInserted DEF r1
  <2> QED
    BY <1>1, <1>2, <2>1
<1>8. RunTo(d, s, 2)
        = DB(r1, g, t, "NEW_EPOCH_OPEN", v + 1,
            Append(l, Passage("NEW_EPOCH_PENDING", "NEW_EPOCH_OPEN", 9)))
  <2>1. Execute(DB(r1, g, t, c, v, Append(l, Passage("NEW_EPOCH_PENDING", "NEW_EPOCH_OPEN", 9))), UpdateController("NEW_EPOCH_OPEN"))
          = DB(r1, g, t, "NEW_EPOCH_OPEN", v + 1,
              Append(l, Passage("NEW_EPOCH_PENDING", "NEW_EPOCH_OPEN", 9)))
    BY ControllerUpdated
  <2> QED
    BY <1>1, <1>2, <1>7, <2>1
<1> QED
  BY <1>1, <1>3, <1>5, <1>8 DEF s

(* _new_shock_pending *)
LEMMA NewShockRun ==
  ASSUME NEW r \in Counts, NEW g, NEW t, NEW c, NEW v \in Nat, NEW l
  PROVE  Run(DB(r, g, t, c, v, l), NewShockTx)
           = DB(More(r, {"shock_observations", "coherence_epochs", "coherence_transitions"}), g, t,
              "WAITING_FOR_RESNAPSHOT", v + 1,
              Append(l, Passage("NEW_EPOCH_PENDING", "WAITING_FOR_RESNAPSHOT", 10)))
<1> DEFINE d == DB(r, g, t, c, v, l)
           s == NewShockTx
           r1 == More(r, {"shock_observations"})
           r2 == More(r1, {"coherence_epochs"})
           r3 == More(r2, {"coherence_transitions"})
<1>1. /\ Len(s) = 4
      /\ s[1] = Insert("shock_observations")
      /\ s[2] = Insert("coherence_epochs")
      /\ s[3] = InsertTransition("NEW_EPOCH_PENDING", "WAITING_FOR_RESNAPSHOT", 10)
      /\ s[4] = UpdateController("WAITING_FOR_RESNAPSHOT")
  BY DEF NewShockTx
<1> HIDE DEF s
<1>2. /\ RunTo(d, s, 0) = d
      /\ RunTo(d, s, 1) = Execute(RunTo(d, s, 0), s[1])
      /\ RunTo(d, s, 2) = Execute(RunTo(d, s, 1), s[2])
      /\ RunTo(d, s, 3) = Execute(RunTo(d, s, 2), s[3])
      /\ RunTo(d, s, 4) = Execute(RunTo(d, s, 3), s[4])
  BY RunUnrolls
<1>3. Run(d, s) = RunTo(d, s, Len(s))
  BY DEF Run
<1>41. r1 \in Counts
  BY MoreCounts
<1>42. r2 \in Counts
  BY <1>41, MoreCounts
<1>43. r3 \in Counts
  BY <1>42, MoreCounts
<1>5. r3 = More(r, {"shock_observations", "coherence_epochs", "coherence_transitions"})
  BY DEF More, Counts, CHAIN, GAP_INSERTS
<1>6. {"coherence_epochs", "shock_observations"} \subseteq Tables \ {"coherence_transitions"}
  BY DEF Tables, CHAIN, GAP_INSERTS, PROOFS
<1> HIDE DEF r1, r2, r3
<1>7. RunTo(d, s, 1) = DB(r1, g, t, c, v, l)
  <2>1. Execute(DB(r, g, t, c, v, l), Insert("shock_observations")) = DB(r1, g, t, c, v, l)
    BY <1>6, Inserted DEF r1
  <2> QED
    BY <1>1, <1>2, <2>1
<1>8. RunTo(d, s, 2) = DB(r2, g, t, c, v, l)
  <2>1. Execute(DB(r1, g, t, c, v, l), Insert("coherence_epochs")) = DB(r2, g, t, c, v, l)
    BY <1>41, <1>6, Inserted DEF r2
  <2> QED
    BY <1>1, <1>2, <1>7, <2>1
<1>9. RunTo(d, s, 3)
        = DB(r3, g, t, c, v,
            Append(l, Passage("NEW_EPOCH_PENDING", "WAITING_FOR_RESNAPSHOT", 10)))
  <2>1. Execute(DB(r2, g, t, c, v, l), InsertTransition("NEW_EPOCH_PENDING", "WAITING_FOR_RESNAPSHOT", 10))
          = DB(r3, g, t, c, v,
              Append(l, Passage("NEW_EPOCH_PENDING", "WAITING_FOR_RESNAPSHOT", 10)))
    BY <1>42, TransitionInserted DEF r3
  <2> QED
    BY <1>1, <1>2, <1>8, <2>1
<1>10. RunTo(d, s, 4)
         = DB(r3, g, t, "WAITING_FOR_RESNAPSHOT", v + 1,
             Append(l, Passage("NEW_EPOCH_PENDING", "WAITING_FOR_RESNAPSHOT", 10)))
  <2>1. Execute(DB(r3, g, t, c, v, Append(l, Passage("NEW_EPOCH_PENDING", "WAITING_FOR_RESNAPSHOT", 10))), UpdateController("WAITING_FOR_RESNAPSHOT"))
          = DB(r3, g, t, "WAITING_FOR_RESNAPSHOT", v + 1,
              Append(l, Passage("NEW_EPOCH_PENDING", "WAITING_FOR_RESNAPSHOT", 10)))
    BY ControllerUpdated
  <2> QED
    BY <1>1, <1>2, <1>9, <2>1
<1> QED
  BY <1>1, <1>3, <1>5, <1>10 DEF s

(* _pending *)
LEMMA PendingRun ==
  ASSUME NEW r \in Counts, NEW g, NEW t, NEW c, NEW v \in Nat, NEW l
  PROVE  Run(DB(r, g, t, c, v, l), PendingTx)
           = DB(More(More(More(r, {"clock_mappings"}), {"clock_mappings"}), {"clock_mappings", "input_freshness_vectors", "coherence_epochs",
              "authoritative_resnapshot_proofs", "coherence_transitions"}), g, t,
              "NEW_EPOCH_PENDING", v + 1,
              Append(l, Passage("WAITING_FOR_RESNAPSHOT", "NEW_EPOCH_PENDING", 8)))
<1> DEFINE d == DB(r, g, t, c, v, l)
           s == PendingTx
           r1 == More(r, {"clock_mappings"})
           r2 == More(r1, {"clock_mappings"})
           r3 == More(r2, {"clock_mappings"})
           r4 == More(r3, {"input_freshness_vectors"})
           r5 == More(r4, {"coherence_epochs"})
           r6 == More(r5, {"authoritative_resnapshot_proofs"})
           r7 == More(r6, {"coherence_transitions"})
<1>1. /\ Len(s) = 8
      /\ s[1] = Insert("clock_mappings")
      /\ s[2] = Insert("clock_mappings")
      /\ s[3] = Insert("clock_mappings")
      /\ s[4] = Insert("input_freshness_vectors")
      /\ s[5] = Insert("coherence_epochs")
      /\ s[6] = Insert("authoritative_resnapshot_proofs")
      /\ s[7] = InsertTransition("WAITING_FOR_RESNAPSHOT", "NEW_EPOCH_PENDING", 8)
      /\ s[8] = UpdateController("NEW_EPOCH_PENDING")
  BY DEF PendingTx
<1> HIDE DEF s
<1>2. /\ RunTo(d, s, 0) = d
      /\ RunTo(d, s, 1) = Execute(RunTo(d, s, 0), s[1])
      /\ RunTo(d, s, 2) = Execute(RunTo(d, s, 1), s[2])
      /\ RunTo(d, s, 3) = Execute(RunTo(d, s, 2), s[3])
      /\ RunTo(d, s, 4) = Execute(RunTo(d, s, 3), s[4])
      /\ RunTo(d, s, 5) = Execute(RunTo(d, s, 4), s[5])
      /\ RunTo(d, s, 6) = Execute(RunTo(d, s, 5), s[6])
      /\ RunTo(d, s, 7) = Execute(RunTo(d, s, 6), s[7])
      /\ RunTo(d, s, 8) = Execute(RunTo(d, s, 7), s[8])
  BY RunUnrolls
<1>3. Run(d, s) = RunTo(d, s, Len(s))
  BY DEF Run
<1>41. r1 \in Counts
  BY MoreCounts
<1>42. r2 \in Counts
  BY <1>41, MoreCounts
<1>43. r3 \in Counts
  BY <1>42, MoreCounts
<1>44. r4 \in Counts
  BY <1>43, MoreCounts
<1>45. r5 \in Counts
  BY <1>44, MoreCounts
<1>46. r6 \in Counts
  BY <1>45, MoreCounts
<1>47. r7 \in Counts
  BY <1>46, MoreCounts
<1>5. r7 = More(More(More(r, {"clock_mappings"}), {"clock_mappings"}), {"clock_mappings", "input_freshness_vectors", "coherence_epochs",
              "authoritative_resnapshot_proofs", "coherence_transitions"})
  BY DEF More, Counts, CHAIN, GAP_INSERTS
<1>6. {"authoritative_resnapshot_proofs", "clock_mappings", "coherence_epochs", "input_freshness_vectors"} \subseteq Tables \ {"coherence_transitions"}
  BY DEF Tables, CHAIN, GAP_INSERTS, PROOFS
<1> HIDE DEF r1, r2, r3, r4, r5, r6, r7
<1>7. RunTo(d, s, 1) = DB(r1, g, t, c, v, l)
  <2>1. Execute(DB(r, g, t, c, v, l), Insert("clock_mappings")) = DB(r1, g, t, c, v, l)
    BY <1>6, Inserted DEF r1
  <2> QED
    BY <1>1, <1>2, <2>1
<1>8. RunTo(d, s, 2) = DB(r2, g, t, c, v, l)
  <2>1. Execute(DB(r1, g, t, c, v, l), Insert("clock_mappings")) = DB(r2, g, t, c, v, l)
    BY <1>41, <1>6, Inserted DEF r2
  <2> QED
    BY <1>1, <1>2, <1>7, <2>1
<1>9. RunTo(d, s, 3) = DB(r3, g, t, c, v, l)
  <2>1. Execute(DB(r2, g, t, c, v, l), Insert("clock_mappings")) = DB(r3, g, t, c, v, l)
    BY <1>42, <1>6, Inserted DEF r3
  <2> QED
    BY <1>1, <1>2, <1>8, <2>1
<1>10. RunTo(d, s, 4) = DB(r4, g, t, c, v, l)
  <2>1. Execute(DB(r3, g, t, c, v, l), Insert("input_freshness_vectors")) = DB(r4, g, t, c, v, l)
    BY <1>43, <1>6, Inserted DEF r4
  <2> QED
    BY <1>1, <1>2, <1>9, <2>1
<1>11. RunTo(d, s, 5) = DB(r5, g, t, c, v, l)
  <2>1. Execute(DB(r4, g, t, c, v, l), Insert("coherence_epochs")) = DB(r5, g, t, c, v, l)
    BY <1>44, <1>6, Inserted DEF r5
  <2> QED
    BY <1>1, <1>2, <1>10, <2>1
<1>12. RunTo(d, s, 6) = DB(r6, g, t, c, v, l)
  <2>1. Execute(DB(r5, g, t, c, v, l), Insert("authoritative_resnapshot_proofs"))
          = DB(r6, g, t, c, v, l)
    BY <1>45, <1>6, Inserted DEF r6
  <2> QED
    BY <1>1, <1>2, <1>11, <2>1
<1>13. RunTo(d, s, 7)
         = DB(r7, g, t, c, v,
             Append(l, Passage("WAITING_FOR_RESNAPSHOT", "NEW_EPOCH_PENDING", 8)))
  <2>1. Execute(DB(r6, g, t, c, v, l), InsertTransition("WAITING_FOR_RESNAPSHOT", "NEW_EPOCH_PENDING", 8))
          = DB(r7, g, t, c, v,
              Append(l, Passage("WAITING_FOR_RESNAPSHOT", "NEW_EPOCH_PENDING", 8)))
    BY <1>46, TransitionInserted DEF r7
  <2> QED
    BY <1>1, <1>2, <1>12, <2>1
<1>14. RunTo(d, s, 8)
         = DB(r7, g, t, "NEW_EPOCH_PENDING", v + 1,
             Append(l, Passage("WAITING_FOR_RESNAPSHOT", "NEW_EPOCH_PENDING", 8)))
  <2>1. Execute(DB(r7, g, t, c, v, Append(l, Passage("WAITING_FOR_RESNAPSHOT", "NEW_EPOCH_PENDING", 8))), UpdateController("NEW_EPOCH_PENDING"))
          = DB(r7, g, t, "NEW_EPOCH_PENDING", v + 1,
              Append(l, Passage("WAITING_FOR_RESNAPSHOT", "NEW_EPOCH_PENDING", 8)))
    BY ControllerUpdated
  <2> QED
    BY <1>1, <1>2, <1>13, <2>1
<1> QED
  BY <1>1, <1>3, <1>5, <1>14 DEF s

(* _seed_epoch_continuity *)
LEMMA SeedRun ==
  ASSUME NEW r \in Counts, NEW g, NEW t, NEW c, NEW v \in Nat, NEW l
  PROVE  Run(DB(r, g, t, c, v, l), SeedTx)
           = DB(More(More(r, {"stream_generations", "gap_records", "gap_epoch_bindings", "generation_transitions"}), {"stream_generations"} \cup CHAIN), g, t, c, v, l)
<1> DEFINE d == DB(r, g, t, c, v, l)
           s == SeedTx
           r1 == More(r, {"stream_generations"})
           r2 == More(r1, {"gap_records"})
           r3 == More(r2, {"gap_epoch_bindings"})
           r4 == More(r3, {"generation_transitions"})
           r5 == More(r4, {"stream_generations"})
           r6 == More(r5, {"raw_commits"})
           r7 == More(r6, {"application_records"})
           r8 == More(r7, {"derived_revisions"})
           r9 == More(r8, {"reducer_cursors"})
           r10 == More(r9, {"ack_outbox"})
<1>1. /\ Len(s) = 10
      /\ s[1] = Insert("stream_generations")
      /\ s[2] = Insert("gap_records")
      /\ s[3] = Insert("gap_epoch_bindings")
      /\ s[4] = Insert("generation_transitions")
      /\ s[5] = Insert("stream_generations")
      /\ s[6] = Insert("raw_commits")
      /\ s[7] = Insert("application_records")
      /\ s[8] = Insert("derived_revisions")
      /\ s[9] = Insert("reducer_cursors")
      /\ s[10] = Insert("ack_outbox")
  BY DEF SeedTx
<1> HIDE DEF s
<1>2. /\ RunTo(d, s, 0) = d
      /\ RunTo(d, s, 1) = Execute(RunTo(d, s, 0), s[1])
      /\ RunTo(d, s, 2) = Execute(RunTo(d, s, 1), s[2])
      /\ RunTo(d, s, 3) = Execute(RunTo(d, s, 2), s[3])
      /\ RunTo(d, s, 4) = Execute(RunTo(d, s, 3), s[4])
      /\ RunTo(d, s, 5) = Execute(RunTo(d, s, 4), s[5])
      /\ RunTo(d, s, 6) = Execute(RunTo(d, s, 5), s[6])
      /\ RunTo(d, s, 7) = Execute(RunTo(d, s, 6), s[7])
      /\ RunTo(d, s, 8) = Execute(RunTo(d, s, 7), s[8])
      /\ RunTo(d, s, 9) = Execute(RunTo(d, s, 8), s[9])
      /\ RunTo(d, s, 10) = Execute(RunTo(d, s, 9), s[10])
  BY RunUnrolls
<1>3. Run(d, s) = RunTo(d, s, Len(s))
  BY DEF Run
<1>41. r1 \in Counts
  BY MoreCounts
<1>42. r2 \in Counts
  BY <1>41, MoreCounts
<1>43. r3 \in Counts
  BY <1>42, MoreCounts
<1>44. r4 \in Counts
  BY <1>43, MoreCounts
<1>45. r5 \in Counts
  BY <1>44, MoreCounts
<1>46. r6 \in Counts
  BY <1>45, MoreCounts
<1>47. r7 \in Counts
  BY <1>46, MoreCounts
<1>48. r8 \in Counts
  BY <1>47, MoreCounts
<1>49. r9 \in Counts
  BY <1>48, MoreCounts
<1>410. r10 \in Counts
  BY <1>49, MoreCounts
<1>5. r10 = More(More(r, {"stream_generations", "gap_records", "gap_epoch_bindings", "generation_transitions"}),
                  {"stream_generations"} \cup CHAIN)
  <2>1. r4 = More(r, {"stream_generations", "gap_records", "gap_epoch_bindings", "generation_transitions"})
    BY DEF More, Counts
  <2>2. r10 = More(r4, {"stream_generations"} \cup CHAIN)
    <3> HIDE DEF r4
    <3> QED
      BY <1>44 DEF More, Counts, CHAIN
  <2> QED
    BY <2>1, <2>2
<1>6. {"ack_outbox", "application_records", "derived_revisions", "gap_epoch_bindings", "gap_records", "generation_transitions", "raw_commits", "reducer_cursors", "stream_generations"} \subseteq Tables \ {"coherence_transitions"}
  BY DEF Tables, CHAIN, GAP_INSERTS, PROOFS
<1> HIDE DEF r1, r2, r3, r4, r5, r6, r7, r8, r9, r10
<1>7. RunTo(d, s, 1) = DB(r1, g, t, c, v, l)
  <2>1. Execute(DB(r, g, t, c, v, l), Insert("stream_generations")) = DB(r1, g, t, c, v, l)
    BY <1>6, Inserted DEF r1
  <2> QED
    BY <1>1, <1>2, <2>1
<1>8. RunTo(d, s, 2) = DB(r2, g, t, c, v, l)
  <2>1. Execute(DB(r1, g, t, c, v, l), Insert("gap_records")) = DB(r2, g, t, c, v, l)
    BY <1>41, <1>6, Inserted DEF r2
  <2> QED
    BY <1>1, <1>2, <1>7, <2>1
<1>9. RunTo(d, s, 3) = DB(r3, g, t, c, v, l)
  <2>1. Execute(DB(r2, g, t, c, v, l), Insert("gap_epoch_bindings")) = DB(r3, g, t, c, v, l)
    BY <1>42, <1>6, Inserted DEF r3
  <2> QED
    BY <1>1, <1>2, <1>8, <2>1
<1>10. RunTo(d, s, 4) = DB(r4, g, t, c, v, l)
  <2>1. Execute(DB(r3, g, t, c, v, l), Insert("generation_transitions")) = DB(r4, g, t, c, v, l)
    BY <1>43, <1>6, Inserted DEF r4
  <2> QED
    BY <1>1, <1>2, <1>9, <2>1
<1>11. RunTo(d, s, 5) = DB(r5, g, t, c, v, l)
  <2>1. Execute(DB(r4, g, t, c, v, l), Insert("stream_generations")) = DB(r5, g, t, c, v, l)
    BY <1>44, <1>6, Inserted DEF r5
  <2> QED
    BY <1>1, <1>2, <1>10, <2>1
<1>12. RunTo(d, s, 6) = DB(r6, g, t, c, v, l)
  <2>1. Execute(DB(r5, g, t, c, v, l), Insert("raw_commits")) = DB(r6, g, t, c, v, l)
    BY <1>45, <1>6, Inserted DEF r6
  <2> QED
    BY <1>1, <1>2, <1>11, <2>1
<1>13. RunTo(d, s, 7) = DB(r7, g, t, c, v, l)
  <2>1. Execute(DB(r6, g, t, c, v, l), Insert("application_records")) = DB(r7, g, t, c, v, l)
    BY <1>46, <1>6, Inserted DEF r7
  <2> QED
    BY <1>1, <1>2, <1>12, <2>1
<1>14. RunTo(d, s, 8) = DB(r8, g, t, c, v, l)
  <2>1. Execute(DB(r7, g, t, c, v, l), Insert("derived_revisions")) = DB(r8, g, t, c, v, l)
    BY <1>47, <1>6, Inserted DEF r8
  <2> QED
    BY <1>1, <1>2, <1>13, <2>1
<1>15. RunTo(d, s, 9) = DB(r9, g, t, c, v, l)
  <2>1. Execute(DB(r8, g, t, c, v, l), Insert("reducer_cursors")) = DB(r9, g, t, c, v, l)
    BY <1>48, <1>6, Inserted DEF r9
  <2> QED
    BY <1>1, <1>2, <1>14, <2>1
<1>16. RunTo(d, s, 10) = DB(r10, g, t, c, v, l)
  <2>1. Execute(DB(r9, g, t, c, v, l), Insert("ack_outbox")) = DB(r10, g, t, c, v, l)
    BY <1>49, <1>6, Inserted DEF r10
  <2> QED
    BY <1>1, <1>2, <1>15, <2>1
<1> QED
  BY <1>1, <1>3, <1>5, <1>16 DEF s

(* MAPPING *)
LEMMA MappingRun ==
  ASSUME NEW r \in Counts, NEW g, NEW t, NEW c, NEW v \in Nat, NEW l
  PROVE  Run(DB(r, g, t, c, v, l), <<Insert("clock_mappings")>>)
           = DB(More(r, {"clock_mappings"}), g, t, c, v, l)
<1> DEFINE d == DB(r, g, t, c, v, l)
           s == <<Insert("clock_mappings")>>
           r1 == More(r, {"clock_mappings"})
<1>1. /\ Len(s) = 1
      /\ s[1] = Insert("clock_mappings")
  BY DEF Insert
<1> HIDE DEF s
<1>2. /\ RunTo(d, s, 0) = d
      /\ RunTo(d, s, 1) = Execute(RunTo(d, s, 0), s[1])
  BY RunUnrolls
<1>3. Run(d, s) = RunTo(d, s, Len(s))
  BY DEF Run
<1>41. r1 \in Counts
  BY MoreCounts
<1>5. r1 = More(r, {"clock_mappings"})
  BY DEF More, Counts, CHAIN, GAP_INSERTS
<1>6. {"clock_mappings"} \subseteq Tables \ {"coherence_transitions"}
  BY DEF Tables, CHAIN, GAP_INSERTS, PROOFS
<1> HIDE DEF r1
<1>7. RunTo(d, s, 1) = DB(r1, g, t, c, v, l)
  <2>1. Execute(DB(r, g, t, c, v, l), Insert("clock_mappings")) = DB(r1, g, t, c, v, l)
    BY <1>6, Inserted DEF r1
  <2> QED
    BY <1>1, <1>2, <2>1
<1> QED
  BY <1>1, <1>3, <1>5, <1>7 DEF s

(* _close_mapping *)
LEMMA ClosureRun ==
  ASSUME NEW r \in Counts, NEW g, NEW t, NEW c, NEW v \in Nat, NEW l
  PROVE  Run(DB(r, g, t, c, v, l), <<Insert("clock_mapping_closures")>>)
           = DB(More(r, {"clock_mapping_closures"}), g, t, c, v, l)
<1> DEFINE d == DB(r, g, t, c, v, l)
           s == <<Insert("clock_mapping_closures")>>
           r1 == More(r, {"clock_mapping_closures"})
<1>1. /\ Len(s) = 1
      /\ s[1] = Insert("clock_mapping_closures")
  BY DEF Insert
<1> HIDE DEF s
<1>2. /\ RunTo(d, s, 0) = d
      /\ RunTo(d, s, 1) = Execute(RunTo(d, s, 0), s[1])
  BY RunUnrolls
<1>3. Run(d, s) = RunTo(d, s, Len(s))
  BY DEF Run
<1>41. r1 \in Counts
  BY MoreCounts
<1>5. r1 = More(r, {"clock_mapping_closures"})
  BY DEF More, Counts, CHAIN, GAP_INSERTS
<1>6. {"clock_mapping_closures"} \subseteq Tables \ {"coherence_transitions"}
  BY DEF Tables, CHAIN, GAP_INSERTS, PROOFS
<1> HIDE DEF r1
<1>7. RunTo(d, s, 1) = DB(r1, g, t, c, v, l)
  <2>1. Execute(DB(r, g, t, c, v, l), Insert("clock_mapping_closures")) = DB(r1, g, t, c, v, l)
    BY <1>6, Inserted DEF r1
  <2> QED
    BY <1>1, <1>2, <2>1
<1> QED
  BY <1>1, <1>3, <1>5, <1>7 DEF s

(* A late repair: its raw commit alone. *)
LEMMA LateRepairRun ==
  ASSUME NEW r \in Counts, NEW g, NEW t, NEW c, NEW v \in Nat, NEW l
  PROVE  Run(DB(r, g, t, c, v, l), <<InsertRaw(0, "LATE_REPAIR_ONLY")>>)
           = DB(More(r, {"raw_commits"}), g, t, c, v, l)
<1> DEFINE d == DB(r, g, t, c, v, l)
           s == <<InsertRaw(0, "LATE_REPAIR_ONLY")>>
           r1 == More(r, {"raw_commits"})
<1>1. /\ Len(s) = 1
      /\ s[1] = InsertRaw(0, "LATE_REPAIR_ONLY")
  BY DEF InsertRaw
<1> HIDE DEF s
<1>2. /\ RunTo(d, s, 0) = d
      /\ RunTo(d, s, 1) = Execute(RunTo(d, s, 0), s[1])
  BY RunUnrolls
<1>3. Run(d, s) = RunTo(d, s, Len(s))
  BY DEF Run
<1>41. r1 \in Counts
  BY MoreCounts
<1>5. r1 = More(r, {"raw_commits"})
  BY DEF More, Counts, CHAIN, GAP_INSERTS
<1> HIDE DEF r1
<1>7. RunTo(d, s, 1) = DB(r1, g, t, c, v, l)
  <2>1. Execute(DB(r, g, t, c, v, l), InsertRaw(0, "LATE_REPAIR_ONLY")) = DB(r1, g, t, c, v, l)
    BY RepairInserted DEF r1
  <2> QED
    BY <1>1, <1>2, <2>1
<1> QED
  BY <1>1, <1>3, <1>5, <1>7 DEF s

(* A conflict: it is recorded, and the generation ends as by a gap. *)
LEMMA ConflictRun ==
  ASSUME NEW r \in Counts, NEW g, NEW t, NEW c, NEW v \in Nat, NEW l, NEW n \in Nat
  PROVE  Run(DB(r, g, t, c, v, l), <<Insert("raw_conflicts")>> \o GapTx(DB(r, g, t, c, v, l), n, "CLOSED"))
           = DB(More(r, GAP_INSERTS \cup {"raw_conflicts"}), [[g EXCEPT ![n] = "CLOSED"] EXCEPT ![n + 1] = "ACTIVE"], t,
              "SHOCKED_CLOSED", v + 1, Append(l, Passage(c, "SHOCKED_CLOSED", Now)))
<1> DEFINE d == DB(r, g, t, c, v, l)
           s == <<Insert("raw_conflicts")>> \o GapTx(DB(r, g, t, c, v, l), n, "CLOSED")
           h == [g EXCEPT ![n] = "CLOSED"]
           r1 == More(r, {"raw_conflicts"})
           r2 == More(r1, {"gap_records"})
           r3 == More(r2, {"shock_observations"})
           r4 == More(r3, {"coherence_transitions"})
           r5 == More(r4, {"gap_epoch_bindings"})
           r6 == More(r5, {"generation_transitions"})
           r7 == More(r6, {"stream_generations"})
<1>1. /\ Len(s) = 9
      /\ s[1] = Insert("raw_conflicts")
      /\ s[2] = Insert("gap_records")
      /\ s[3] = Insert("shock_observations")
      /\ s[4] = InsertTransition(c, "SHOCKED_CLOSED", Now)
      /\ s[5] = UpdateController("SHOCKED_CLOSED")
      /\ s[6] = Insert("gap_epoch_bindings")
      /\ s[7] = UpdateGeneration(n, "CLOSED")
      /\ s[8] = Insert("generation_transitions")
      /\ s[9] = InsertGeneration(n + 1)
  <2> DEFINE one == <<Insert("raw_conflicts")>>
             gap == GapTx(DB(r, g, t, c, v, l), n, "CLOSED")
             All == {Insert("raw_conflicts")} \cup {gap[i] : i \in 1..8}
  <2>1. /\ Len(gap) = 8 /\ gap \in Seq({gap[i] : i \in 1..8})
        /\ gap[1] = Insert("gap_records")
        /\ gap[2] = Insert("shock_observations")
        /\ gap[3] = InsertTransition(c, "SHOCKED_CLOSED", Now)
        /\ gap[4] = UpdateController("SHOCKED_CLOSED")
        /\ gap[5] = Insert("gap_epoch_bindings")
        /\ gap[6] = UpdateGeneration(n, "CLOSED")
        /\ gap[7] = Insert("generation_transitions")
        /\ gap[8] = InsertGeneration(n + 1)
    BY DEF GapTx, DB
  <2>2. Len(one) = 1 /\ one \in Seq({Insert("raw_conflicts")}) /\ one[1] = Insert("raw_conflicts")
    OBVIOUS
  <2>3. one \in Seq(All) /\ gap \in Seq(All)
    <3> HIDE DEF one, gap
    <3> QED
      BY <2>1, <2>2
  <2> HIDE DEF one, gap, All
  <2>4. /\ Len(one \o gap) = Len(one) + Len(gap)
        /\ \A i \in 1..(Len(one) + Len(gap)) :
             (one \o gap)[i] = IF i <= Len(one) THEN one[i] ELSE gap[i - Len(one)]
    BY <2>3, ConcatProperties
  <2>7. Len(one \o gap) = 9 /\ \A i \in 1..9 : (one \o gap)[i] = IF i <= 1 THEN one[i] ELSE gap[i - 1]
    BY <2>1, <2>2, <2>4
  <2>5. /\ Len(one \o gap) = 9 /\ (one \o gap)[1] = one[1]
        /\ (one \o gap)[2] = gap[1] /\ (one \o gap)[3] = gap[2] /\ (one \o gap)[4] = gap[3]
        /\ (one \o gap)[5] = gap[4] /\ (one \o gap)[6] = gap[5] /\ (one \o gap)[7] = gap[6]
        /\ (one \o gap)[8] = gap[7] /\ (one \o gap)[9] = gap[8]
    BY <2>7
  <2>6. s = one \o gap
    BY DEF one, gap
  <2> QED
    BY <2>1, <2>2, <2>5, <2>6
<1> HIDE DEF s
<1>2. /\ RunTo(d, s, 0) = d
      /\ RunTo(d, s, 1) = Execute(RunTo(d, s, 0), s[1])
      /\ RunTo(d, s, 2) = Execute(RunTo(d, s, 1), s[2])
      /\ RunTo(d, s, 3) = Execute(RunTo(d, s, 2), s[3])
      /\ RunTo(d, s, 4) = Execute(RunTo(d, s, 3), s[4])
      /\ RunTo(d, s, 5) = Execute(RunTo(d, s, 4), s[5])
      /\ RunTo(d, s, 6) = Execute(RunTo(d, s, 5), s[6])
      /\ RunTo(d, s, 7) = Execute(RunTo(d, s, 6), s[7])
      /\ RunTo(d, s, 8) = Execute(RunTo(d, s, 7), s[8])
      /\ RunTo(d, s, 9) = Execute(RunTo(d, s, 8), s[9])
  BY RunUnrolls
<1>3. Run(d, s) = RunTo(d, s, Len(s))
  BY DEF Run
<1>41. r1 \in Counts
  BY MoreCounts
<1>42. r2 \in Counts
  BY <1>41, MoreCounts
<1>43. r3 \in Counts
  BY <1>42, MoreCounts
<1>44. r4 \in Counts
  BY <1>43, MoreCounts
<1>45. r5 \in Counts
  BY <1>44, MoreCounts
<1>46. r6 \in Counts
  BY <1>45, MoreCounts
<1>47. r7 \in Counts
  BY <1>46, MoreCounts
<1>5. r7 = More(r, GAP_INSERTS \cup {"raw_conflicts"})
  BY DEF More, Counts, CHAIN, GAP_INSERTS
<1>6. {"gap_epoch_bindings", "gap_records", "generation_transitions", "raw_conflicts", "shock_observations"} \subseteq Tables \ {"coherence_transitions"}
  BY DEF Tables, CHAIN, GAP_INSERTS, PROOFS
<1> HIDE DEF r1, r2, r3, r4, r5, r6, r7, h
<1>7. RunTo(d, s, 1) = DB(r1, g, t, c, v, l)
  <2>1. Execute(DB(r, g, t, c, v, l), Insert("raw_conflicts")) = DB(r1, g, t, c, v, l)
    BY <1>6, Inserted DEF r1
  <2> QED
    BY <1>1, <1>2, <2>1
<1>8. RunTo(d, s, 2) = DB(r2, g, t, c, v, l)
  <2>1. Execute(DB(r1, g, t, c, v, l), Insert("gap_records")) = DB(r2, g, t, c, v, l)
    BY <1>41, <1>6, Inserted DEF r2
  <2> QED
    BY <1>1, <1>2, <1>7, <2>1
<1>9. RunTo(d, s, 3) = DB(r3, g, t, c, v, l)
  <2>1. Execute(DB(r2, g, t, c, v, l), Insert("shock_observations")) = DB(r3, g, t, c, v, l)
    BY <1>42, <1>6, Inserted DEF r3
  <2> QED
    BY <1>1, <1>2, <1>8, <2>1
<1>10. RunTo(d, s, 4) = DB(r4, g, t, c, v, Append(l, Passage(c, "SHOCKED_CLOSED", Now)))
  <2>1. Execute(DB(r3, g, t, c, v, l), InsertTransition(c, "SHOCKED_CLOSED", Now))
          = DB(r4, g, t, c, v, Append(l, Passage(c, "SHOCKED_CLOSED", Now)))
    BY <1>43, TransitionInserted DEF r4
  <2> QED
    BY <1>1, <1>2, <1>9, <2>1
<1>11. RunTo(d, s, 5)
         = DB(r4, g, t, "SHOCKED_CLOSED", v + 1, Append(l, Passage(c, "SHOCKED_CLOSED", Now)))
  <2>1. Execute(DB(r4, g, t, c, v, Append(l, Passage(c, "SHOCKED_CLOSED", Now))), UpdateController("SHOCKED_CLOSED"))
          = DB(r4, g, t, "SHOCKED_CLOSED", v + 1, Append(l, Passage(c, "SHOCKED_CLOSED", Now)))
    BY ControllerUpdated
  <2> QED
    BY <1>1, <1>2, <1>10, <2>1
<1>12. RunTo(d, s, 6)
         = DB(r5, g, t, "SHOCKED_CLOSED", v + 1, Append(l, Passage(c, "SHOCKED_CLOSED", Now)))
  <2>1. Execute(DB(r4, g, t, "SHOCKED_CLOSED", v + 1, Append(l, Passage(c, "SHOCKED_CLOSED", Now))), Insert("gap_epoch_bindings"))
          = DB(r5, g, t, "SHOCKED_CLOSED", v + 1, Append(l, Passage(c, "SHOCKED_CLOSED", Now)))
    BY <1>44, <1>6, Inserted DEF r5
  <2> QED
    BY <1>1, <1>2, <1>11, <2>1
<1>13. RunTo(d, s, 7)
         = DB(r5, h, t, "SHOCKED_CLOSED", v + 1, Append(l, Passage(c, "SHOCKED_CLOSED", Now)))
  <2>1. Execute(DB(r5, g, t, "SHOCKED_CLOSED", v + 1, Append(l, Passage(c, "SHOCKED_CLOSED", Now))), UpdateGeneration(n, "CLOSED"))
          = DB(r5, h, t, "SHOCKED_CLOSED", v + 1, Append(l, Passage(c, "SHOCKED_CLOSED", Now)))
    BY GenerationUpdated, NoneAssumption DEF h
  <2> QED
    BY <1>1, <1>2, <1>12, <2>1
<1>14. RunTo(d, s, 8)
         = DB(r6, h, t, "SHOCKED_CLOSED", v + 1, Append(l, Passage(c, "SHOCKED_CLOSED", Now)))
  <2>1. Execute(DB(r5, h, t, "SHOCKED_CLOSED", v + 1, Append(l, Passage(c, "SHOCKED_CLOSED", Now))), Insert("generation_transitions"))
          = DB(r6, h, t, "SHOCKED_CLOSED", v + 1, Append(l, Passage(c, "SHOCKED_CLOSED", Now)))
    BY <1>45, <1>6, Inserted DEF r6
  <2> QED
    BY <1>1, <1>2, <1>13, <2>1
<1>15. RunTo(d, s, 9)
         = DB(r7, [h EXCEPT ![n + 1] = "ACTIVE"], t, "SHOCKED_CLOSED", v + 1,
             Append(l, Passage(c, "SHOCKED_CLOSED", Now)))
  <2>1. \A m : Execute(DB(r6, h, t, "SHOCKED_CLOSED", v + 1,
              Append(l, Passage(c, "SHOCKED_CLOSED", Now))), InsertGeneration(m))
               = DB(r7, [h EXCEPT ![m] = "ACTIVE"], t, "SHOCKED_CLOSED", v + 1,
                     Append(l, Passage(c, "SHOCKED_CLOSED", Now)))
    BY <1>46, GenerationInserted DEF r7
  <2> QED
    BY <1>1, <1>2, <1>14, <2>1
<1> QED
  BY <1>1, <1>3, <1>5, <1>15 DEF s, h

-----------------------------------------------------------------------------
(* The operations on the stores a case can meet. *)
Zero == Provisioned.rows
G0 == [g \in 0..2 |-> IF g = 0 THEN "ACTIVE" ELSE None]
G1 == [[G0 EXCEPT ![0] = "QUARANTINED_GAP"] EXCEPT ![1] = "ACTIVE"]
G2 == [[G1 EXCEPT ![1] = "QUARANTINED_GAP"] EXCEPT ![2] = "ACTIVE"]
GC == [[G0 EXCEPT ![0] = "CLOSED"] EXCEPT ![1] = "ACTIVE"]
T0 == [g \in 0..2 |-> 0]
T1 == [T0 EXCEPT ![0] = @ + 1]

LEMMA Generations ==
  /\ G0[0] = "ACTIVE" /\ G0[1] = None /\ G0[2] = None
  /\ G1[0] = "QUARANTINED_GAP" /\ G1[1] = "ACTIVE" /\ G1[2] = None
  /\ G2[0] = "QUARANTINED_GAP" /\ G2[1] = "QUARANTINED_GAP" /\ G2[2] = "ACTIVE"
  /\ GC[0] = "CLOSED" /\ GC[1] = "ACTIVE" /\ GC[2] = None
  /\ T0[0] = 0 /\ T1[0] = 1 /\ T1[1] = 0
BY DEF G0, G1, G2, GC, T0, T1

LEMMA ProvisionedIs ==
  /\ Provisioned = DB(Zero, G0, T0, "OPEN", 0, <<>>)
  /\ Zero \in Counts
  /\ Zero["gap_records"] = 0 /\ Zero["shock_observations"] = 0 /\ Zero["clock_mapping_closures"] = 0
BY DEF Provisioned, DB, Zero, G0, T0, Counts, Tables, CHAIN, GAP_INSERTS, PROOFS

LEMMA Delivered ==
  ASSUME NEW r \in Counts, NEW c, NEW v \in Nat, NEW l
  PROVE  /\ Answer(DB(r, G0, T0, c, v, l), Deliver(0, 1)) = "ACK"
         /\ Transaction(DB(r, G0, T0, c, v, l), Deliver(0, 1)) = ChainTx(0)
         /\ Commit(DB(r, G0, T0, c, v, l), Deliver(0, 1)) = DB(More(r, CHAIN), G0, T1, c, v, l)
<1> DEFINE d == DB(r, G0, T0, c, v, l)
<1>1. d.gens = G0 /\ d.top = T0
  BY DEF DB
<1>2. Deliver(0, 1).do = "DELIVER" /\ Deliver(0, 1).gen = 0 /\ Deliver(0, 1).seq = 1 /\ Deliver(0, 1).same = TRUE
  BY DEF Deliver
<1> DEFINE o == Deliver(0, 1)
<1> HIDE DEF d, o
<1>3. Answer(d, o) = "ACK"
  BY <1>1, <1>2, Generations DEF Answer, o
<1>4. Transaction(d, o) = ChainTx(0)
  BY <1>1, <1>2, <1>3, Generations DEF Transaction, DeliveryTx, o
<1>5. Run(d, ChainTx(0)) = DB(More(r, CHAIN), G0, T1, c, v, l)
  BY ChainRun DEF d, T1
<1> QED
  BY <1>3, <1>4, <1>5 DEF Commit, d, o

LEMMA RunNothing ==
  ASSUME NEW d
  PROVE  Run(d, <<>>) = d
BY RunSteps DEF Run

LEMMA Repeated ==
  ASSUME NEW r \in Counts, NEW c, NEW v \in Nat, NEW l
  PROVE  /\ Answer(DB(r, G0, T1, c, v, l), Deliver(0, 1)) = "ACK"
         /\ Commit(DB(r, G0, T1, c, v, l), Deliver(0, 1)) = DB(r, G0, T1, c, v, l)
<1> DEFINE d == DB(r, G0, T1, c, v, l)
           o == Deliver(0, 1)
<1>1. d.gens = G0 /\ d.top = T1
  BY DEF DB
<1>2. o.do = "DELIVER" /\ o.gen = 0 /\ o.seq = 1 /\ o.same = TRUE
  BY DEF Deliver
<1> HIDE DEF d, o
<1>3. Answer(d, o) = "ACK"
  BY <1>1, <1>2, Generations DEF Answer
<1>4. Transaction(d, o) = <<>>
  BY <1>1, <1>2, <1>3, Generations DEF Transaction, DeliveryTx
<1> QED
  BY <1>3, <1>4, RunNothing DEF Commit, d, o

LEMMA DeliveredGap ==
  ASSUME NEW r \in Counts, NEW c, NEW v \in Nat, NEW l
  PROVE  /\ Answer(DB(r, G0, T1, c, v, l), Deliver(0, 3)) = "E_INGEST_GAP"
         /\ Transaction(DB(r, G0, T1, c, v, l), Deliver(0, 3))
              = GapTx(DB(r, G0, T1, c, v, l), 0, "QUARANTINED_GAP")
         /\ Commit(DB(r, G0, T1, c, v, l), Deliver(0, 3))
              = DB(More(r, GAP_INSERTS), G1, T1, "SHOCKED_CLOSED", v + 1,
                    Append(l, Passage(c, "SHOCKED_CLOSED", Now)))
<1> DEFINE d == DB(r, G0, T1, c, v, l)
           o == Deliver(0, 3)
<1>1. d.gens = G0 /\ d.top = T1
  BY DEF DB
<1>2. o.do = "DELIVER" /\ o.gen = 0 /\ o.seq = 3 /\ o.same = TRUE
  BY DEF Deliver
<1> HIDE DEF d, o
<1>3. Answer(d, o) = "E_INGEST_GAP"
  BY <1>1, <1>2, Generations DEF Answer
<1>4. Transaction(d, o) = GapTx(d, 0, "QUARANTINED_GAP")
  BY <1>1, <1>2, <1>3, Generations DEF Transaction, DeliveryTx
<1>5. Run(d, GapTx(d, 0, "QUARANTINED_GAP"))
        = DB(More(r, GAP_INSERTS), G1, T1, "SHOCKED_CLOSED", v + 1,
              Append(l, Passage(c, "SHOCKED_CLOSED", Now)))
  <2>1. Run(d, GapTx(d, 0, "QUARANTINED_GAP"))
          = DB(More(r, GAP_INSERTS), [[G0 EXCEPT ![0] = "QUARANTINED_GAP"] EXCEPT ![0 + 1] = "ACTIVE"], T1, "SHOCKED_CLOSED",
               v + 1, Append(l, Passage(c, "SHOCKED_CLOSED", Now)))
    BY GapRun DEF d
  <2> QED
    BY <2>1 DEF G1
<1> QED
  BY <1>3, <1>4, <1>5 DEF Commit, d, o

LEMMA DeliveredLate ==
  ASSUME NEW r \in Counts, NEW c, NEW v \in Nat, NEW l, NEW n
  PROVE  /\ Answer(DB(r, G1, T1, c, v, l), Deliver(0, n)) = "E_INGEST_GENERATION_CLOSED"
         /\ Commit(DB(r, G1, T1, c, v, l), Deliver(0, n)) = DB(r, G1, T1, c, v, l)
<1> DEFINE d == DB(r, G1, T1, c, v, l)
           o == Deliver(0, n)
<1>1. d.gens = G1 /\ d.top = T1
  BY DEF DB
<1>2. o.do = "DELIVER" /\ o.gen = 0
  BY DEF Deliver
<1> HIDE DEF d, o
<1>3. Answer(d, o) = "E_INGEST_GENERATION_CLOSED"
  BY <1>1, <1>2, Generations DEF Answer
<1>4. Transaction(d, o) = <<>>
  BY <1>1, <1>2, <1>3, Generations DEF Transaction, DeliveryTx
<1> QED
  BY <1>3, <1>4, RunNothing DEF Commit, d, o

LEMMA DeliveredNext ==
  ASSUME NEW r \in Counts, NEW c, NEW v \in Nat, NEW l
  PROVE  Commit(DB(r, G1, T1, c, v, l), Deliver(1, 2))
           = DB(More(r, GAP_INSERTS), G2, T1, "SHOCKED_CLOSED", v + 1,
                 Append(l, Passage(c, "SHOCKED_CLOSED", Now)))
<1> DEFINE d == DB(r, G1, T1, c, v, l)
           o == Deliver(1, 2)
<1>1. d.gens = G1 /\ d.top = T1
  BY DEF DB
<1>2. o.do = "DELIVER" /\ o.gen = 1 /\ o.seq = 2 /\ o.same = TRUE
  BY DEF Deliver
<1> HIDE DEF d, o
<1>3. Answer(d, o) = "E_INGEST_GAP"
  BY <1>1, <1>2, Generations DEF Answer
<1>4. Transaction(d, o) = GapTx(d, 1, "QUARANTINED_GAP")
  BY <1>1, <1>2, <1>3, Generations DEF Transaction, DeliveryTx
<1>5. Run(d, GapTx(d, 1, "QUARANTINED_GAP"))
        = DB(More(r, GAP_INSERTS), G2, T1, "SHOCKED_CLOSED", v + 1,
              Append(l, Passage(c, "SHOCKED_CLOSED", Now)))
  <2>1. Run(d, GapTx(d, 1, "QUARANTINED_GAP"))
          = DB(More(r, GAP_INSERTS), [[G1 EXCEPT ![1] = "QUARANTINED_GAP"] EXCEPT ![1 + 1] = "ACTIVE"], T1, "SHOCKED_CLOSED",
               v + 1, Append(l, Passage(c, "SHOCKED_CLOSED", Now)))
    BY GapRun DEF d
  <2> QED
    BY <2>1 DEF G2
<1> QED
  BY <1>4, <1>5 DEF Commit, d, o

LEMMA DeliveredConflict ==
  ASSUME NEW r \in Counts, NEW c, NEW v \in Nat, NEW l
  PROVE  Commit(DB(r, G0, T1, c, v, l), DeliverOther(0, 1))
           = DB(More(r, GAP_INSERTS \cup {"raw_conflicts"}), GC, T1, "SHOCKED_CLOSED", v + 1,
                Append(l, Passage(c, "SHOCKED_CLOSED", Now)))
<1> DEFINE d == DB(r, G0, T1, c, v, l)
           o == DeliverOther(0, 1)
<1>1. d.gens = G0 /\ d.top = T1
  BY DEF DB
<1>2. o.do = "DELIVER" /\ o.gen = 0 /\ o.seq = 1 /\ o.same = FALSE
  BY DEF Deliver, DeliverOther
<1> HIDE DEF d, o
<1>3. Answer(d, o) = "E_INGEST_CONFLICT"
  BY <1>1, <1>2, Generations DEF Answer
<1>4. Transaction(d, o) = <<Insert("raw_conflicts")>> \o GapTx(d, 0, "CLOSED")
  BY <1>1, <1>2, <1>3, Generations DEF Transaction, DeliveryTx
<1>5. Run(d, <<Insert("raw_conflicts")>> \o GapTx(d, 0, "CLOSED"))
        = DB(More(r, GAP_INSERTS \cup {"raw_conflicts"}), GC, T1, "SHOCKED_CLOSED", v + 1,
             Append(l, Passage(c, "SHOCKED_CLOSED", Now)))
  BY ConflictRun DEF d, GC
<1> QED
  BY <1>4, <1>5 DEF Commit, d, o

LEMMA DoneSequence ==
  ASSUME NEW r \in Counts, NEW g, NEW t, NEW c, NEW v \in Nat, NEW l
  PROVE  /\ Commit(DB(r, g, t, c, v, l), Do("MAPPING"))
              = DB(More(r, {"clock_mappings"}), g, t, c, v, l)
         /\ Commit(DB(r, g, t, c, v, l), Do("CLOSURE"))
              = DB(More(r, {"clock_mapping_closures"}), g, t, c, v, l)
         /\ Commit(DB(r, g, t, c, v, l), Do("SHOCK"))
              = DB(More(r, {"shock_observations", "coherence_transitions"}), g, t, "SHOCKED_CLOSED",
                   v + 1, Append(l, Passage(c, "SHOCKED_CLOSED", 6)))
         /\ Commit(DB(r, g, t, c, v, l), Do("WAITING"))
              = DB(More(r, {"coherence_transitions"}), g, t, "WAITING_FOR_RESNAPSHOT", v + 1,
                   Append(l, Passage("SHOCKED_CLOSED", "WAITING_FOR_RESNAPSHOT", 7)))
         /\ Commit(DB(r, g, t, c, v, l), Do("RELEASE"))
              = DB(More(r, {"coherence_transitions"}), g, t, "NEW_EPOCH_OPEN", v + 1,
                   Append(l, Passage("NEW_EPOCH_PENDING", "NEW_EPOCH_OPEN", 9)))
         /\ Commit(DB(r, g, t, c, v, l), [Deliver(0, 2) EXCEPT !.do = "LATE_REPAIR"])
              = DB(More(r, {"raw_commits"}), g, t, c, v, l)
<1> DEFINE d == DB(r, g, t, c, v, l)
<1>1. \A name : Do(name).do = name
  BY DEF Do, Deliver
<1>2. Run(d, <<Insert("clock_mappings")>>) = DB(More(r, {"clock_mappings"}), g, t, c, v, l)
  BY MappingRun
<1>3. Run(d, <<Insert("clock_mapping_closures")>>)
        = DB(More(r, {"clock_mapping_closures"}), g, t, c, v, l)
  BY ClosureRun
<1>4. Run(d, ShockTx(d))
        = DB(More(r, {"shock_observations", "coherence_transitions"}), g, t, "SHOCKED_CLOSED",
                              v + 1, Append(l, Passage(c, "SHOCKED_CLOSED", 6)))
  BY ShockRun
<1>5. Run(d, WaitingTx)
        = DB(More(r, {"coherence_transitions"}), g, t, "WAITING_FOR_RESNAPSHOT", v + 1,
                             Append(l, Passage("SHOCKED_CLOSED", "WAITING_FOR_RESNAPSHOT", 7)))
  BY WaitingRun
<1>6. Run(d, ReleaseTx) = DB(More(r, {"coherence_transitions"}), g, t, "NEW_EPOCH_OPEN", v + 1,
                             Append(l, Passage("NEW_EPOCH_PENDING", "NEW_EPOCH_OPEN", 9)))
  BY ReleaseRun
<1>7. Run(d, <<InsertRaw(0, "LATE_REPAIR_ONLY")>>) = DB(More(r, {"raw_commits"}), g, t, c, v, l)
  BY LateRepairRun
<1> HIDE DEF d
<1>8. /\ Transaction(d, Do("MAPPING")) = <<Insert("clock_mappings")>>
      /\ Transaction(d, Do("CLOSURE")) = <<Insert("clock_mapping_closures")>>
      /\ Transaction(d, Do("SHOCK")) = ShockTx(d)
      /\ Transaction(d, Do("WAITING")) = WaitingTx
      /\ Transaction(d, Do("RELEASE")) = ReleaseTx
  BY <1>1 DEF Transaction
<1>9. [Deliver(0, 2) EXCEPT !.do = "LATE_REPAIR"].do = "LATE_REPAIR"
  BY DEF Deliver
<1>10. Transaction(d, [Deliver(0, 2) EXCEPT !.do = "LATE_REPAIR"]) = <<InsertRaw(0, "LATE_REPAIR_ONLY")>>
  BY <1>9 DEF Transaction
<1> QED
  BY <1>2, <1>3, <1>4, <1>5, <1>6, <1>7, <1>8, <1>10 DEF Commit, d

LEMMA DoneGap ==
  ASSUME NEW r \in Counts, NEW c, NEW v \in Nat, NEW l
  PROVE  Commit(DB(r, G0, T1, c, v, l), Do("CAPACITY"))
           = DB(More(r, GAP_INSERTS), G1, T1, "SHOCKED_CLOSED", v + 1,
                 Append(l, Passage(c, "SHOCKED_CLOSED", Now)))
<1> DEFINE d == DB(r, G0, T1, c, v, l)
<1>1. Do("CAPACITY").do = "CAPACITY"
  BY DEF Do, Deliver
<1>2. Run(d, GapTx(d, 0, "QUARANTINED_GAP"))
        = DB(More(r, GAP_INSERTS), G1, T1, "SHOCKED_CLOSED", v + 1,
              Append(l, Passage(c, "SHOCKED_CLOSED", Now)))
  <2>1. Run(d, GapTx(d, 0, "QUARANTINED_GAP"))
          = DB(More(r, GAP_INSERTS), [[G0 EXCEPT ![0] = "QUARANTINED_GAP"] EXCEPT ![0 + 1] = "ACTIVE"], T1, "SHOCKED_CLOSED",
               v + 1, Append(l, Passage(c, "SHOCKED_CLOSED", Now)))
    BY GapRun
  <2> QED
    BY <2>1 DEF G1
<1> HIDE DEF d
<1>3. Transaction(d, Do("CAPACITY")) = GapTx(d, 0, "QUARANTINED_GAP")
  BY <1>1 DEF Transaction
<1> QED
  BY <1>2, <1>3 DEF Commit, d

(* The longer ones, as far as the cases after them look. *)
Pended(r) ==
  More(More(More(r, {"clock_mappings"}), {"clock_mappings"}),
       {"clock_mappings", "input_freshness_vectors", "coherence_epochs",
        "authoritative_resnapshot_proofs", "coherence_transitions"})

Seeded(r) ==
  More(More(r, {"stream_generations", "gap_records", "gap_epoch_bindings", "generation_transitions"}),
       {"stream_generations"} \cup CHAIN)

LEMMA DoneLong ==
  ASSUME NEW r \in Counts, NEW g, NEW t, NEW c, NEW v \in Nat, NEW l
  PROVE  /\ Commit(DB(r, g, t, c, v, l), Do("PENDING"))
              = DB(Pended(r), g, t, "NEW_EPOCH_PENDING", v + 1,
                   Append(l, Passage("WAITING_FOR_RESNAPSHOT", "NEW_EPOCH_PENDING", 8)))
         /\ Commit(DB(r, g, t, c, v, l), Do("SEED")) = DB(Seeded(r), g, t, c, v, l)
         /\ Commit(DB(r, g, t, c, v, l), Do("NEW_SHOCK"))
              = DB(More(r, {"shock_observations", "coherence_epochs", "coherence_transitions"}), g, t,
                   "WAITING_FOR_RESNAPSHOT", v + 1,
                   Append(l, Passage("NEW_EPOCH_PENDING", "WAITING_FOR_RESNAPSHOT", 10)))
<1> DEFINE d == DB(r, g, t, c, v, l)
<1>1. \A name : Do(name).do = name
  BY DEF Do, Deliver
<1>2. Run(d, PendingTx) = DB(Pended(r), g, t, "NEW_EPOCH_PENDING", v + 1,
                             Append(l, Passage("WAITING_FOR_RESNAPSHOT", "NEW_EPOCH_PENDING", 8)))
  BY PendingRun DEF Pended
<1>3. Run(d, SeedTx) = DB(Seeded(r), g, t, c, v, l)
  BY SeedRun DEF Seeded
<1>4. Run(d, NewShockTx)
        = DB(More(r, {"shock_observations", "coherence_epochs", "coherence_transitions"}), g, t,
             "WAITING_FOR_RESNAPSHOT", v + 1,
             Append(l, Passage("NEW_EPOCH_PENDING", "WAITING_FOR_RESNAPSHOT", 10)))
  BY NewShockRun
<1> HIDE DEF d
<1>5. /\ Transaction(d, Do("PENDING")) = PendingTx
      /\ Transaction(d, Do("SEED")) = SeedTx
      /\ Transaction(d, Do("NEW_SHOCK")) = NewShockTx
  BY <1>1 DEF Transaction
<1> QED
  BY <1>2, <1>3, <1>4, <1>5 DEF Commit, d

LEMMA RowsKept ==
  ASSUME NEW r \in Counts
  PROVE  /\ Pended(r) \in Counts /\ Seeded(r) \in Counts
         /\ \A x \in Tables : r[x] <= Pended(r)[x] /\ r[x] <= Seeded(r)[x]
         /\ \A T : \A x \in Tables : r[x] <= More(r, T)[x]
<1>1. \A q \in Counts : \A T : \A x \in Tables : q[x] <= More(q, T)[x]
  BY DEF More, Counts
<1>2. \A q \in Counts : \A T : More(q, T) \in Counts
  BY MoreCounts
<1>3. \A p \in Counts, q \in Counts : \A x \in Tables : p[x] \in Nat /\ q[x] \in Nat
  BY DEF Counts
<1>4. \A S, T : \A x \in Tables : r[x] <= More(More(r, S), T)[x]
  <2> TAKE S, T
  <2>1. More(r, S) \in Counts /\ More(More(r, S), T) \in Counts
    BY <1>2
  <2> TAKE x \in Tables
  <2>2. r[x] <= More(r, S)[x] /\ More(r, S)[x] <= More(More(r, S), T)[x]
    BY <1>1, <2>1
  <2> QED
    BY <1>3, <2>1, <2>2
<1>5. \A S, T, U : \A x \in Tables : r[x] <= More(More(More(r, S), T), U)[x]
  <2> TAKE S, T, U
  <2>1. More(More(r, S), T) \in Counts /\ More(More(More(r, S), T), U) \in Counts
    BY <1>2
  <2> TAKE x \in Tables
  <2>2. r[x] <= More(More(r, S), T)[x] /\ More(More(r, S), T)[x] <= More(More(More(r, S), T), U)[x]
    BY <1>1, <1>4, <2>1
  <2> QED
    BY <1>3, <2>1, <2>2
<1>6. Pended(r) \in Counts /\ Seeded(r) \in Counts
  BY <1>2 DEF Pended, Seeded
<1> QED
  BY <1>1, <1>4, <1>5, <1>6 DEF Pended, Seeded

LEMMA NoneDone ==
  ASSUME NEW d
  PROVE  CommitAll(d, <<>>) = d
BY DoneSteps DEF CommitAll

-----------------------------------------------------------------------------
(* Where the cases start from. *)
LEMMA DoneUnrolls ==
  ASSUME NEW d, NEW ops
  PROVE  /\ CommitTo(d, ops, 0) = d
         /\ CommitTo(d, ops, 1) = Commit(CommitTo(d, ops, 0), ops[1])
         /\ CommitTo(d, ops, 2) = Commit(CommitTo(d, ops, 1), ops[2])
         /\ CommitTo(d, ops, 3) = Commit(CommitTo(d, ops, 2), ops[3])
         /\ CommitTo(d, ops, 4) = Commit(CommitTo(d, ops, 3), ops[4])
<1>1. /\ CommitTo(d, ops, 0) = d
      /\ \A n \in Nat : CommitTo(d, ops, n + 1) = Commit(CommitTo(d, ops, n), ops[n + 1])
  BY DoneSteps
<1>2. CommitTo(d, ops, 0 + 1) = Commit(CommitTo(d, ops, 0), ops[0 + 1])
  BY <1>1
<1>3. CommitTo(d, ops, 1 + 1) = Commit(CommitTo(d, ops, 1), ops[1 + 1])
  BY <1>1
<1>4. CommitTo(d, ops, 2 + 1) = Commit(CommitTo(d, ops, 2), ops[2 + 1])
  BY <1>1
<1>5. CommitTo(d, ops, 3 + 1) = Commit(CommitTo(d, ops, 3), ops[3 + 1])
  BY <1>1
<1> QED
  BY <1>1, <1>2, <1>3, <1>4, <1>5

LEMMA DoneOne ==
  ASSUME NEW d, NEW o
  PROVE  CommitAll(d, <<o>>) = Commit(d, o)
<1> DEFINE ops == <<o>>
<1>1. Len(ops) = 1 /\ ops[1] = o
  OBVIOUS
<1> HIDE DEF ops
<1>2. CommitAll(d, ops) = Commit(d, o)
  BY <1>1, DoneUnrolls DEF CommitAll
<1> QED
  BY <1>2 DEF ops

LEMMA DoneTwo ==
  ASSUME NEW d, NEW o, NEW p
  PROVE  CommitAll(d, <<o, p>>) = Commit(Commit(d, o), p)
<1> DEFINE ops == <<o, p>>
<1>1. Len(ops) = 2 /\ ops[1] = o /\ ops[2] = p
  OBVIOUS
<1> HIDE DEF ops
<1>2. CommitAll(d, ops) = Commit(Commit(d, o), p)
  BY <1>1, DoneUnrolls DEF CommitAll
<1> QED
  BY <1>2 DEF ops

LEMMA DoneThree ==
  ASSUME NEW d, NEW o, NEW p, NEW q
  PROVE  CommitAll(d, <<o, p, q>>) = Commit(Commit(Commit(d, o), p), q)
<1> DEFINE ops == <<o, p, q>>
<1>1. Len(ops) = 3 /\ ops[1] = o /\ ops[2] = p /\ ops[3] = q
  OBVIOUS
<1> HIDE DEF ops
<1>2. CommitAll(d, ops) = Commit(Commit(Commit(d, o), p), q)
  BY <1>1, DoneUnrolls DEF CommitAll
<1> QED
  BY <1>2 DEF ops

LEMMA DoneFour ==
  ASSUME NEW d, NEW o, NEW p, NEW q, NEW s
  PROVE  CommitAll(d, <<o, p, q, s>>) = Commit(Commit(Commit(Commit(d, o), p), q), s)
<1> DEFINE ops == <<o, p, q, s>>
<1>1. Len(ops) = 4 /\ ops[1] = o /\ ops[2] = p /\ ops[3] = q /\ ops[4] = s
  OBVIOUS
<1> HIDE DEF ops
<1>2. CommitAll(d, ops) = Commit(Commit(Commit(Commit(d, o), p), q), s)
  BY <1>1, DoneUnrolls DEF CommitAll
<1> QED
  BY <1>2 DEF ops

Chained == More(Zero, CHAIN)
Gapped == More(Chained, GAP_INSERTS)
Closing == Append(<<>>, Passage("OPEN", "SHOCKED_CLOSED", Now))
P0 == DB(Zero, G0, T0, "OPEN", 0, <<>>)
A0 == DB(Chained, G0, T1, "OPEN", 0, <<>>)
B0 == DB(Gapped, G1, T1, "SHOCKED_CLOSED", 0 + 1, Closing)

LEMMA StoresReached ==
  /\ Chained \in Counts /\ Gapped \in Counts /\ Provisioned = P0
  /\ CommitAll(P0, <<Deliver(0, 1)>>) = A0
  /\ CommitAll(P0, <<Deliver(0, 1), Deliver(0, 3)>>) = B0
  /\ Commit(P0, Deliver(0, 1)) = A0 /\ Commit(A0, Deliver(0, 3)) = B0
<1>1. Chained \in Counts /\ Gapped \in Counts
  BY ProvisionedIs, MoreCounts DEF Chained, Gapped
<1>2. Commit(P0, Deliver(0, 1)) = A0
  BY ProvisionedIs, Delivered DEF P0, A0, Chained
<1>3. Commit(A0, Deliver(0, 3)) = B0
  BY <1>1, DeliveredGap DEF A0, B0, Gapped, Closing
<1>4. Provisioned = P0
  BY ProvisionedIs DEF P0
<1>5. CommitAll(P0, <<Deliver(0, 1)>>) = Commit(P0, Deliver(0, 1))
  BY DoneOne
<1>6. CommitAll(P0, <<Deliver(0, 1), Deliver(0, 3)>>) = Commit(Commit(P0, Deliver(0, 1)), Deliver(0, 3))
  BY DoneTwo
<1> QED
  BY <1>1, <1>2, <1>3, <1>4, <1>5, <1>6

-----------------------------------------------------------------------------
(* The evolution of a store, as the gap harness checks it. *)
States == {"OPEN", "SHOCKED_CLOSED", "WAITING_FOR_RESNAPSHOT", "NEW_EPOCH_PENDING", "NEW_EPOCH_OPEN"}
Logs == Seq([from : States, to : States, at : Nat])

LEMMA Followable ==
  ASSUME NEW t, t.at \in Nat, NEW p, NEW n \in Nat,
         t \in p, \A u \in p : u # t => u.from # t.from
  PROVE  Follow([pending |-> p, ctl |-> t.from, rev |-> n, ok |-> TRUE])
           = [pending |-> p \ {t}, ctl |-> t.to, rev |-> n + 1, ok |-> TRUE]
<1> DEFINE acc == [pending |-> p, ctl |-> t.from, rev |-> n, ok |-> TRUE]
<1>1. {u \in p : u.from = t.from} = {t}
  OBVIOUS
<1>2. Followed(p, t.from) = t
  BY <1>1 DEF Followed
<1>3. acc.pending = p /\ acc.ctl = t.from /\ acc.rev = n /\ acc.ok = TRUE
  OBVIOUS
<1> HIDE DEF acc
<1>4. Follow(acc) = [pending |-> p \ {t}, ctl |-> t.to, rev |-> n + 1, ok |-> TRUE]
  BY <1>2, <1>3 DEF Follow
<1> QED
  BY <1>4 DEF acc

LEMMA ReplayUnrolls ==
  ASSUME NEW start
  PROVE  /\ ReplayTo(start, 0) = start /\ ReplayTo(start, 1) = Follow(start)
         /\ ReplayTo(start, 2) = Follow(Follow(start))
<1>1. /\ ReplayTo(start, 0) = start
      /\ \A n \in Nat : ReplayTo(start, n + 1) = Follow(ReplayTo(start, n))
  BY ReplaySteps
<1>2. ReplayTo(start, 0 + 1) = Follow(ReplayTo(start, 0))
  BY <1>1
<1>3. ReplayTo(start, 1 + 1) = Follow(ReplayTo(start, 1))
  BY <1>1
<1> QED
  BY <1>1, <1>2, <1>3

LEMMA LogGrows ==
  ASSUME NEW l \in Logs, NEW x \in States, NEW y \in States, NEW n \in Nat
  PROVE  /\ Append(l, Passage(x, y, n)) \in Logs
         /\ Len(Append(l, Passage(x, y, n))) = Len(l) + 1
         /\ Append(l, Passage(x, y, n))[Len(l) + 1] = Passage(x, y, n)
         /\ \A i \in 1..Len(l) : Append(l, Passage(x, y, n))[i] = l[i]
<1>1. Passage(x, y, n) \in [from : States, to : States, at : Nat]
  BY DEF Passage
<1> QED
  BY <1>1 DEF Logs

LEMMA LogLength ==
  ASSUME NEW l \in Logs
  PROVE  Len(l) \in Nat
BY DEF Logs

(* The last one and the last two entries of a log. *)
LEMMA LogEnd ==
  ASSUME NEW k \in Logs, NEW n \in Nat
  PROVE  /\ Len(k) = n + 1 => /\ SubSeq(k, n + 1, n + 1) = <<k[n + 1]>>
                             /\ Len(<<k[n + 1]>>) = 1 /\ ToSet(<<k[n + 1]>>) = {k[n + 1]}
         /\ Len(k) = n + 2 => /\ SubSeq(k, n + 1, n + 2) = <<k[n + 1], k[n + 2]>>
                             /\ Len(<<k[n + 1], k[n + 2]>>) = 2
                             /\ ToSet(<<k[n + 1], k[n + 2]>>) = {k[n + 1], k[n + 2]}
<1> DEFINE S == [from : States, to : States, at : Nat]
<1>1. k \in Seq(S)
  BY DEF Logs
<1> HIDE DEF S
<1>2. ASSUME Len(k) = n + 1 PROVE SubSeq(k, n + 1, n + 1) = <<k[n + 1]>>
  <2> DEFINE u == SubSeq(k, n + 1, n + 1)
             w == <<k[n + 1]>>
  <2>1. n + 1 \in Int /\ (\A i \in (n + 1)..(n + 1) : k[i] \in S) /\ (n + 1) - (n + 1) + 1 = 1
    BY <1>1, <1>2
  <2>2. u \in Seq(S) /\ Len(u) = 1 /\ \A i \in 1..1 : u[i] = k[n + 1 + i - 1]
    BY <2>1, SubSeqProperties
  <2>3. u[1] = k[n + 1]
    BY <2>2
  <2>4. w \in Seq(S) /\ Len(w) = 1 /\ w[1] = k[n + 1]
    BY <2>1
  <2> HIDE DEF u, w
  <2>5. u = w
    BY <2>2, <2>3, <2>4, SeqEqual
  <2> QED
    BY <2>5 DEF u, w
<1>3. ASSUME Len(k) = n + 2 PROVE SubSeq(k, n + 1, n + 2) = <<k[n + 1], k[n + 2]>>
  <2> DEFINE u == SubSeq(k, n + 1, n + 2)
             w == <<k[n + 1], k[n + 2]>>
  <2>1. /\ n + 1 \in Int /\ n + 2 \in Int /\ (\A i \in (n + 1)..(n + 2) : k[i] \in S)
        /\ (n + 2) - (n + 1) + 1 = 2
    BY <1>1, <1>3
  <2>2. u \in Seq(S) /\ Len(u) = 2 /\ \A i \in 1..2 : u[i] = k[n + 1 + i - 1]
    BY <2>1, SubSeqProperties
  <2>3. u[1] = k[n + 1] /\ u[2] = k[n + 2]
    <3>1. u[1] = k[n + 1 + 1 - 1] /\ u[2] = k[n + 1 + 2 - 1]
      BY <2>2
    <3>2. n + 1 + 1 - 1 = n + 1 /\ n + 1 + 2 - 1 = n + 2
      OBVIOUS
    <3> QED
      BY <3>1, <3>2
  <2>4. w \in Seq(S) /\ Len(w) = 2 /\ w[1] = k[n + 1] /\ w[2] = k[n + 2]
    BY <2>1
  <2> HIDE DEF u, w
  <2>5. u = w
    BY <2>2, <2>3, <2>4, SeqEqual
  <2> QED
    BY <2>5 DEF u, w
<1>4. \A x, y : /\ Len(<<x>>) = 1 /\ ToSet(<<x>>) = {x}
               /\ Len(<<x, y>>) = 2 /\ ToSet(<<x, y>>) = {x, y}
  <2> TAKE x, y
  <2>1. DOMAIN <<x>> = {1} /\ <<x>>[1] = x /\ DOMAIN <<x, y>> = {1, 2} /\ <<x, y>>[1] = x /\ <<x, y>>[2] = y
    OBVIOUS
  <2>2. ToSet(<<x>>) = {<<x>>[i] : i \in {1}} /\ ToSet(<<x, y>>) = {<<x, y>>[i] : i \in {1, 2}}
    BY <2>1 DEF ToSet
  <2> QED
    BY <2>1, <2>2
<1> QED
  BY <1>2, <1>3, <1>4

LEMMA EvolvesQuietly ==
  ASSUME NEW r, NEW r2, NEW g, NEW g2, NEW t, NEW t2, NEW c, NEW v \in Nat, NEW l \in Logs,
         \A x \in Tables : r[x] <= r2[x],
         GenerationsReachable(DB(r, g, t, c, v, l), DB(r2, g2, t2, c, v, l))
  PROVE  StateEvolution(DB(r, g, t, c, v, l), DB(r2, g2, t2, c, v, l))
<1> DEFINE b == DB(r, g, t, c, v, l)
           a == DB(r2, g2, t2, c, v, l)
           new == SubSeq(l, Len(l) + 1, Len(l))
           start == [pending |-> ToSet(new), ctl |-> c, rev |-> v, ok |-> TRUE]
<1>1. new = <<>> /\ Len(new) = 0
  BY DEF Logs
<1>2. start.ok /\ start.ctl = c /\ start.rev = v
  OBVIOUS
<1>3. b.log = l /\ a.log = l /\ b.ctl = c /\ a.ctl = c /\ b.rev = v /\ a.rev = v /\ b.rows = r /\ a.rows = r2
  BY DEF DB
<1>4. Len(l) \in Nat
  BY DEF Logs
<1> HIDE DEF a, b, new, start
<1>5. ReplayController(b, a)
  <2>1. ReplayTo(start, Len(new)) = start
    BY <1>1, ReplayUnrolls
  <2> QED
    BY <1>2, <1>3, <2>1 DEF ReplayController, start, new
<1> QED
  BY <1>3, <1>4, <1>5 DEF StateEvolution, a, b

LEMMA EvolvesOnce ==
  ASSUME NEW r, NEW r2, NEW g, NEW g2, NEW t, NEW t2, NEW c \in States, NEW c2 \in States, NEW v \in Nat,
         NEW n \in Nat, NEW l \in Logs,
         \A x \in Tables : r[x] <= r2[x],
         GenerationsReachable(DB(r, g, t, c, v, l), DB(r2, g2, t2, c2, v + 1,
               Append(l, Passage(c, c2, n))))
  PROVE  StateEvolution(DB(r, g, t, c, v, l), DB(r2, g2, t2, c2, v + 1,
               Append(l, Passage(c, c2, n))))
<1> DEFINE p == Passage(c, c2, n)
           k == Append(l, p)
           b == DB(r, g, t, c, v, l)
           a == DB(r2, g2, t2, c2, v + 1, k)
           new == SubSeq(k, Len(l) + 1, Len(l) + 1)
           start == [pending |-> ToSet(new), ctl |-> c, rev |-> v, ok |-> TRUE]
<1>1. b.log = l /\ a.log = k /\ b.ctl = c /\ a.ctl = c2 /\ b.rev = v /\ a.rev = v + 1 /\ b.rows = r /\ a.rows = r2
  BY DEF DB
<1>2. p.from = c /\ p.to = c2 /\ p.at = n
  BY DEF Passage
<1>3. k \in Logs /\ Len(k) = Len(l) + 1 /\ k[Len(l) + 1] = p /\ Len(l) \in Nat
  BY LogGrows, LogLength
<1> HIDE DEF p, k, a, b
<1>5. Len(new) = 1 /\ ToSet(new) = {p}
  <2>1. \A i \in Nat : Len(k) = i + 1 =>
          Len(SubSeq(k, i + 1, i + 1)) = 1 /\ ToSet(SubSeq(k, i + 1, i + 1)) = {k[i + 1]}
    BY <1>3, LogEnd
  <2> QED
    BY <1>3, <2>1
<1> HIDE DEF new
<1>6. start = [pending |-> {p}, ctl |-> p.from, rev |-> v, ok |-> TRUE]
  BY <1>2, <1>5
<1>7. Follow(start) = [pending |-> {p} \ {p}, ctl |-> p.to, rev |-> v + 1, ok |-> TRUE]
  <2>1. p.at \in Nat /\ p \in {p} /\ \A u \in {p} : u # p => u.from # p.from
    BY <1>2
  <2> QED
    BY <1>6, <2>1, Followable
<1> HIDE DEF start
<1>8. ReplayController(b, a)
  <2>1. ReplayTo(start, Len(new)) = [pending |-> {p} \ {p}, ctl |-> p.to, rev |-> v + 1, ok |-> TRUE]
    BY <1>5, <1>7, ReplayUnrolls
  <2> QED
    BY <1>1, <1>2, <1>3, <2>1 DEF ReplayController, start, new
<1> QED
  BY <1>1, <1>3, <1>8 DEF StateEvolution, a, b, k, p

LEMMA EvolvesTwice ==
  ASSUME NEW r, NEW r2, NEW g, NEW g2, NEW t, NEW t2, NEW c \in States, NEW c2 \in States, NEW c3 \in States,
         c # c2, NEW v \in Nat, NEW n \in Nat, NEW m \in Nat, NEW l \in Logs,
         \A x \in Tables : r[x] <= r2[x],
         GenerationsReachable(DB(r, g, t, c, v, l),
           DB(r2, g2, t2, c3, v + 1 + 1,
                 Append(Append(l, Passage(c, c2, n)), Passage(c2, c3, m))))
  PROVE  StateEvolution(DB(r, g, t, c, v, l),
           DB(r2, g2, t2, c3, v + 1 + 1,
                 Append(Append(l, Passage(c, c2, n)), Passage(c2, c3, m))))
<1> DEFINE p == Passage(c, c2, n)
           q == Passage(c2, c3, m)
           j == Append(l, p)
           k == Append(j, q)
           b == DB(r, g, t, c, v, l)
           a == DB(r2, g2, t2, c3, v + 1 + 1, k)
           new == SubSeq(k, Len(l) + 1, Len(l) + 2)
           start == [pending |-> ToSet(new), ctl |-> c, rev |-> v, ok |-> TRUE]
<1>1. /\ b.log = l /\ a.log = k /\ b.ctl = c /\ a.ctl = c3 /\ b.rev = v /\ a.rev = v + 1 + 1
      /\ b.rows = r /\ a.rows = r2
  BY DEF DB
<1>2. p.from = c /\ p.to = c2 /\ p.at = n /\ q.from = c2 /\ q.to = c3 /\ q.at = m
  BY DEF Passage
<1>3. j \in Logs /\ Len(j) = Len(l) + 1 /\ j[Len(l) + 1] = p /\ Len(l) \in Nat
  BY LogGrows, LogLength
<1> HIDE DEF j
<1>3c. Len(j) \in Nat
  BY <1>3
<1>3a. k \in Logs /\ Len(k) = Len(j) + 1 /\ k[Len(j) + 1] = q /\ \A i \in 1..Len(j) : k[i] = j[i]
  <2>1. \A x \in States, y \in States, i \in Nat :
          /\ Append(j, Passage(x, y, i)) \in Logs
          /\ Len(Append(j, Passage(x, y, i))) = Len(j) + 1
          /\ Append(j, Passage(x, y, i))[Len(j) + 1] = Passage(x, y, i)
          /\ \A h \in 1..Len(j) : Append(j, Passage(x, y, i))[h] = j[h]
    BY <1>3, LogGrows
  <2> QED
    BY <2>1
<1> HIDE DEF p, q, k, a, b
<1>3b. /\ Len(k) = Len(l) + 2 /\ k[Len(l) + 1] = p /\ k[Len(l) + 2] = q
  BY <1>3, <1>3a
<1>5. Len(new) = 2 /\ ToSet(new) = {p, q}
  <2>1. \A i \in Nat : Len(k) = i + 2 =>
          /\ Len(SubSeq(k, i + 1, i + 2)) = 2
          /\ ToSet(SubSeq(k, i + 1, i + 2)) = {k[i + 1], k[i + 2]}
    <3>1. SUFFICES ASSUME NEW i \in Nat, Len(k) = i + 2
                   PROVE  /\ Len(SubSeq(k, i + 1, i + 2)) = 2
                          /\ ToSet(SubSeq(k, i + 1, i + 2)) = {k[i + 1], k[i + 2]}
      OBVIOUS
    <3>2. /\ SubSeq(k, i + 1, i + 2) = <<k[i + 1], k[i + 2]>>
          /\ Len(<<k[i + 1], k[i + 2]>>) = 2
          /\ ToSet(<<k[i + 1], k[i + 2]>>) = {k[i + 1], k[i + 2]}
      BY <1>3a, <3>1, LogEnd, Zenon
    <3> QED
      BY <3>2, Zenon
  <2> QED
    BY <1>3, <1>3b, <2>1
<1> HIDE DEF new
<1>6. start = [pending |-> {p, q}, ctl |-> p.from, rev |-> v, ok |-> TRUE]
  BY <1>2, <1>5
<1>7. Follow(start) = [pending |-> {q}, ctl |-> q.from, rev |-> v + 1, ok |-> TRUE]
  <2>1. /\ p.at \in Nat /\ p \in {p, q} /\ \A u \in {p, q} : u # p => u.from # p.from
        /\ {p, q} \ {p} = {q} /\ p.to = q.from
    BY <1>2
  <2>2. Follow(start) = [pending |-> {p, q} \ {p}, ctl |-> p.to, rev |-> v + 1, ok |-> TRUE]
    BY <1>6, <2>1, Followable
  <2> QED
    BY <2>1, <2>2
<1> HIDE DEF start
<1>7a. Follow(Follow(start)) = [pending |-> {q} \ {q}, ctl |-> q.to, rev |-> v + 1 + 1, ok |-> TRUE]
  <2>1. q.at \in Nat /\ q \in {q} /\ (\A u \in {q} : u # q => u.from # q.from) /\ v + 1 \in Nat
    BY <1>2
  <2>2. \A w \in Nat : Follow([pending |-> {q}, ctl |-> q.from, rev |-> w, ok |-> TRUE])
               = [pending |-> {q} \ {q}, ctl |-> q.to, rev |-> w + 1, ok |-> TRUE]
    BY <2>1, Followable
  <2> QED
    BY <1>7, <2>1, <2>2
<1>8. ReplayController(b, a)
  <2>1. ReplayTo(start, Len(new)) = [pending |-> {q} \ {q}, ctl |-> q.to, rev |-> v + 1 + 1, ok |-> TRUE]
    BY <1>5, <1>7a, ReplayUnrolls
  <2> QED
    BY <1>1, <1>2, <1>3b, <2>1 DEF ReplayController, start, new
<1> QED
  BY <1>1, <1>3, <1>3b, <1>8 DEF StateEvolution, a, b, j, k, p, q

-----------------------------------------------------------------------------
(* The stores the coherence cases prepare. *)
LEMMA EmptyLog == <<>> \in Logs
BY DEF Logs

LEMMA FirstLog ==
  ASSUME NEW n \in Nat
  PROVE  Append(<<>>, Passage("OPEN", "SHOCKED_CLOSED", n)) \in Logs
<1>1. \A l \in Logs : Append(l, Passage("OPEN", "SHOCKED_CLOSED", n)) \in Logs
  BY LogGrows DEF States
<1> QED
  BY <1>1, EmptyLog, Zenon

LEMMA StoredLog == Closing \in Logs
<1>1. Now \in Nat
  BY DEF Now
<1> QED
  BY <1>1, FirstLog, Zenon DEF Closing

LEMMA Waited ==
  \E r \in Counts, v \in Nat, l \in Logs :
    CommitAll(A0, <<Do("SHOCK"), Do("SEED"), Do("WAITING")>>)
      = DB(r, G0, T1, "WAITING_FOR_RESNAPSHOT", v, l)
<1> DEFINE r1 == More(Chained, {"shock_observations", "coherence_transitions"})
           r2 == Seeded(r1)
           r3 == More(r2, {"coherence_transitions"})
           l1 == Append(<<>>, Passage("OPEN", "SHOCKED_CLOSED", 6))
           l2 == Append(l1, Passage("SHOCKED_CLOSED", "WAITING_FOR_RESNAPSHOT", 7))
<1>1. r1 \in Counts
  BY StoresReached, MoreCounts
<1>2. r2 \in Counts
  BY <1>1, RowsKept
<1>3. r3 \in Counts
  BY <1>2, MoreCounts
<1>4. l1 \in Logs
  <2>1. 6 \in Nat
    OBVIOUS
  <2> QED
    BY <2>1, FirstLog, Zenon
<1>5. l2 \in Logs
  BY <1>4, LogGrows DEF States
<1>6. Commit(A0, Do("SHOCK")) = DB(r1, G0, T1, "SHOCKED_CLOSED", 0 + 1, l1)
  <2>1. \A l : Commit(DB(Chained, G0, T1, "OPEN", 0, l), Do("SHOCK"))
               = DB(r1, G0, T1, "SHOCKED_CLOSED", 0 + 1,
                     Append(l, Passage("OPEN", "SHOCKED_CLOSED", 6)))
    BY StoresReached, DoneSequence
  <2> QED
    BY <2>1, Zenon DEF A0
<1> HIDE DEF r1, r2, r3, l1, l2
<1>7. Commit(DB(r1, G0, T1, "SHOCKED_CLOSED", 0 + 1, l1), Do("SEED"))
        = DB(r2, G0, T1, "SHOCKED_CLOSED", 0 + 1, l1)
  BY <1>1, DoneLong DEF r2
<1>8. Commit(DB(r2, G0, T1, "SHOCKED_CLOSED", 0 + 1, l1), Do("WAITING"))
        = DB(r3, G0, T1, "WAITING_FOR_RESNAPSHOT", 0 + 1 + 1, l2)
  BY <1>2, DoneSequence DEF r3, l2
<1>9. CommitAll(A0, <<Do("SHOCK"), Do("SEED"), Do("WAITING")>>)
        = Commit(Commit(Commit(A0, Do("SHOCK")), Do("SEED")), Do("WAITING"))
  BY DoneThree
<1> QED
  BY <1>3, <1>5, <1>6, <1>7, <1>8, <1>9

LEMMA Awaited ==
  \E r \in Counts, v \in Nat, l \in Logs :
    CommitAll(A0, <<Do("SHOCK"), Do("SEED"), Do("WAITING"), Do("PENDING")>>)
      = DB(r, G0, T1, "NEW_EPOCH_PENDING", v, l)
<1>1. PICK r \in Counts, v \in Nat, l \in Logs :
        CommitAll(A0, <<Do("SHOCK"), Do("SEED"), Do("WAITING")>>)
          = DB(r, G0, T1, "WAITING_FOR_RESNAPSHOT", v, l)
  BY Waited
<1> DEFINE l2 == Append(l, Passage("WAITING_FOR_RESNAPSHOT", "NEW_EPOCH_PENDING", 8))
<1>2. Commit(DB(r, G0, T1, "WAITING_FOR_RESNAPSHOT", v, l), Do("PENDING"))
        = DB(Pended(r), G0, T1, "NEW_EPOCH_PENDING", v + 1, l2)
  BY DoneLong
<1>3. l2 \in Logs
  BY LogGrows DEF States
<1>4. Pended(r) \in Counts
  BY RowsKept
<1>5. CommitAll(A0, <<Do("SHOCK"), Do("SEED"), Do("WAITING"), Do("PENDING")>>)
        = Commit(Commit(Commit(Commit(A0, Do("SHOCK")), Do("SEED")), Do("WAITING")), Do("PENDING"))
  BY DoneFour
<1>6. CommitAll(A0, <<Do("SHOCK"), Do("SEED"), Do("WAITING")>>)
        = Commit(Commit(Commit(A0, Do("SHOCK")), Do("SEED")), Do("WAITING"))
  BY DoneThree
<1>7. v + 1 \in Nat
  OBVIOUS
<1> HIDE DEF l2
<1> QED
  BY <1>1, <1>2, <1>3, <1>4, <1>5, <1>6, <1>7

LEMMA Reopened ==
  \E r \in Counts, v \in Nat, l \in Logs :
    /\ CommitAll(B0, <<Do("SEED"), Do("WAITING"), Do("PENDING"), Do("RELEASE")>>)
         = DB(r, G1, T1, "NEW_EPOCH_OPEN", v, l)
    /\ r["gap_records"] # 0
<1> DEFINE r1 == Seeded(Gapped)
           r2 == More(r1, {"coherence_transitions"})
           r3 == Pended(r2)
           r4 == More(r3, {"coherence_transitions"})
           l1 == Append(Closing, Passage("SHOCKED_CLOSED", "WAITING_FOR_RESNAPSHOT", 7))
           l2 == Append(l1, Passage("WAITING_FOR_RESNAPSHOT", "NEW_EPOCH_PENDING", 8))
           l3 == Append(l2, Passage("NEW_EPOCH_PENDING", "NEW_EPOCH_OPEN", 9))
<1>1. r1 \in Counts
  BY StoresReached, RowsKept
<1>2. r2 \in Counts
  BY <1>1, MoreCounts
<1>3. r3 \in Counts
  BY <1>2, RowsKept
<1>4. r4 \in Counts
  BY <1>3, MoreCounts
<1>5. l1 \in Logs
  BY StoredLog, LogGrows DEF States
<1>6. l2 \in Logs
  BY <1>5, LogGrows DEF States
<1>7. l3 \in Logs
  BY <1>6, LogGrows DEF States
<1>8. Commit(B0, Do("SEED")) = DB(r1, G1, T1, "SHOCKED_CLOSED", 0 + 1, Closing)
  BY StoresReached, DoneLong DEF B0
<1>9. r4["gap_records"] # 0
  <2>1. "gap_records" \in Tables /\ "gap_records" \in GAP_INSERTS
    BY DEF Tables, GAP_INSERTS
  <2>2. Gapped["gap_records"] = Chained["gap_records"] + 1
    BY <2>1 DEF Gapped, More
  <2>3. /\ Gapped["gap_records"] <= r1["gap_records"] /\ r1["gap_records"] <= r2["gap_records"]
        /\ r2["gap_records"] <= r3["gap_records"] /\ r3["gap_records"] <= r4["gap_records"]
    <3> HIDE DEF r1, r2, r3, r4
    <3>1. Gapped["gap_records"] <= r1["gap_records"]
      BY <2>1, StoresReached, RowsKept DEF r1
    <3>2. r1["gap_records"] <= r2["gap_records"]
      BY <2>1, <1>1, RowsKept DEF r2
    <3>3. r2["gap_records"] <= r3["gap_records"]
      BY <2>1, <1>2, RowsKept DEF r3
    <3>4. r3["gap_records"] <= r4["gap_records"]
      BY <2>1, <1>3, RowsKept DEF r4
    <3> QED
      BY <3>1, <3>2, <3>3, <3>4
  <2>4. /\ Chained["gap_records"] \in Nat /\ Gapped["gap_records"] \in Nat /\ r1["gap_records"] \in Nat
        /\ r2["gap_records"] \in Nat /\ r3["gap_records"] \in Nat /\ r4["gap_records"] \in Nat
    <3> HIDE DEF r1, r2, r3, r4
    <3> QED
      BY <2>1, <1>1, <1>2, <1>3, <1>4, StoresReached DEF Counts
  <2> HIDE DEF r1, r2, r3, r4
  <2> QED
    BY <2>2, <2>3, <2>4
<1> HIDE DEF r1, r2, r3, r4, l1, l2, l3
<1>10. Commit(DB(r1, G1, T1, "SHOCKED_CLOSED", 0 + 1, Closing), Do("WAITING"))
         = DB(r2, G1, T1, "WAITING_FOR_RESNAPSHOT", 0 + 1 + 1, l1)
  BY <1>1, DoneSequence DEF r2, l1
<1>11. \A v \in Nat : Commit(DB(r2, G1, T1, "WAITING_FOR_RESNAPSHOT", v, l1), Do("PENDING"))
         = DB(r3, G1, T1, "NEW_EPOCH_PENDING", v + 1, l2)
  BY <1>2, DoneLong DEF r3, l2
<1>12. \A v \in Nat : Commit(DB(r3, G1, T1, "NEW_EPOCH_PENDING", v, l2), Do("RELEASE"))
         = DB(r4, G1, T1, "NEW_EPOCH_OPEN", v + 1, l3)
  BY <1>3, DoneSequence DEF r4, l3
<1>13. CommitAll(B0, <<Do("SEED"), Do("WAITING"), Do("PENDING"), Do("RELEASE")>>)
         = Commit(Commit(Commit(Commit(B0, Do("SEED")), Do("WAITING")), Do("PENDING")), Do("RELEASE"))
  BY DoneFour
<1>14. CommitAll(B0, <<Do("SEED"), Do("WAITING"), Do("PENDING"), Do("RELEASE")>>)
         = DB(r4, G1, T1, "NEW_EPOCH_OPEN", 0 + 1 + 1 + 1 + 1, l3)
  BY <1>8, <1>10, <1>11, <1>12, <1>13
<1> QED
  BY <1>4, <1>7, <1>9, <1>14

-----------------------------------------------------------------------------
(* What the harness derives from the generations of a store. *)
LEMMA Reaches ==
  ASSUME NEW b, NEW a,
         \/ b.gens = G0 /\ a.gens \in {G0, G1, GC}
         \/ b.gens = G1 /\ a.gens \in {G1, G2}
         \/ b.gens = G2 /\ a.gens = G2
         \/ b.gens = GC /\ a.gens = GC
  PROVE  GenerationsReachable(b, a)
<1>1. CASE b.gens = G0 /\ a.gens \in {G0, G1, GC}
  BY <1>1, Generations, NoneAssumption DEF GenerationsReachable
<1>2. CASE b.gens = G1 /\ a.gens \in {G1, G2}
  BY <1>2, Generations, NoneAssumption DEF GenerationsReachable
<1>3. CASE b.gens = G2 /\ a.gens = G2
  BY <1>3, Generations, NoneAssumption DEF GenerationsReachable
<1>4. CASE b.gens = GC /\ a.gens = GC
  BY <1>4, Generations, NoneAssumption DEF GenerationsReachable
<1> QED
  BY <1>1, <1>2, <1>3, <1>4

LEMMA Gaps ==
  ASSUME NEW d
  PROVE  /\ d.gens = G0 => TargetGaps(d) = 0
         /\ d.gens \in {G1, GC} => TargetGaps(d) = 1
         /\ d.gens = G2 => TargetGaps(d) = 2
<1> DEFINE ended == {g \in 0..2 : d.gens[g] \in {"QUARANTINED_GAP", "CLOSED"}}
<1>1. ASSUME d.gens = G0 PROVE ended = {}
  BY <1>1, Generations, NoneAssumption
<1>2. ASSUME d.gens \in {G1, GC} PROVE ended = {0}
  BY <1>2, Generations, NoneAssumption
<1>3. ASSUME d.gens = G2 PROVE ended = {0} \cup {1}
  BY <1>3, Generations, NoneAssumption
<1>4. Cardinality({}) = 0 /\ Cardinality({0}) = 1 /\ IsFiniteSet({0})
  BY FS_EmptySet, FS_Singleton
<1>5. Cardinality({0} \cup {1}) = 2
  BY <1>4, FS_AddElement
<1> QED
  BY <1>1, <1>2, <1>3, <1>4, <1>5 DEF TargetGaps

LEMMA Actives ==
  ASSUME NEW d
  PROVE  /\ d.gens = G0 => (CHOOSE g \in 0..2 : d.gens[g] = "ACTIVE") = 0
         /\ d.gens \in {G1, GC} => (CHOOSE g \in 0..2 : d.gens[g] = "ACTIVE") = 1
         /\ d.gens = G2 => (CHOOSE g \in 0..2 : d.gens[g] = "ACTIVE") = 2
BY Generations, NoneAssumption

LEMMA View ==
  ASSUME NEW c, NEW b, NEW d, NEW ones \in SUBSET Tables, NEW zeros \in SUBSET Tables,
         \A x \in ones : d.rows[x] - b.rows[x] = 1,
         \A x \in zeros \ ones : d.rows[x] - b.rows[x] = 0
  PROVE  /\ DOMAIN Deltas(ones, zeros) = ones \cup zeros
         /\ SemanticView(c, b, d, ones \cup zeros)
              = [deltas |-> Deltas(ones, zeros), coherence |-> Coherence(c, d),
                 active |-> CHOOSE g \in 0..2 : d.gens[g] = "ACTIVE"]
BY DEF SemanticView, Deltas

LEMMA Setups == Old = CommitAll(Base, case.pre) /\ New = CommitAll(Commit(Old, case.op), case.then)
BY DEF Old, New, Base, SetUp

-----------------------------------------------------------------------------
(* A reader finds d, recovery makes Target of it: the gap harness has      *)
(* nothing to object.                                                      *)
Honest(d) ==
  /\ Recovered(case, d) = Target
  /\ StateEvolution(Base, d) /\ StateEvolution(d, Target)
  /\ RecoveryHolds(case, d, Target)
  /\ \E o \in GapExpected(case) : SemanticView(case, Base, d, DOMAIN o.deltas) = o

LEMMA Fields ==
  ASSUME NEW r, NEW g, NEW t, NEW c, NEW v, NEW l
  PROVE  LET d == DB(r, g, t, c, v, l)
         IN d.rows = r /\ d.gens = g /\ d.top = t /\ d.ctl = c /\ d.rev = v /\ d.log = l
BY DEF DB

LEMMA StandsStill ==
  ASSUME NEW r \in Counts, NEW S, NEW g \in {G0, G1, G2, GC}, NEW t, NEW c, NEW v \in Nat, NEW l \in Logs
  PROVE  /\ StateEvolution(DB(r, g, t, c, v, l), DB(r, g, t, c, v, l))
         /\ StateEvolution(DB(r, g, t, c, v, l), DB(More(r, S), g, t, c, v, l))
<1>1. \A x \in Tables : r[x] <= r[x] /\ r[x] <= More(r, S)[x]
  BY RowsKept DEF Counts
<1>2. \A q : GenerationsReachable(DB(r, g, t, c, v, l), DB(q, g, t, c, v, l))
  BY Fields, Reaches
<1> QED
  BY <1>1, <1>2, EvolvesQuietly

LEMMA Advances ==
  ASSUME NEW r \in Counts, NEW r2, \A x \in Tables : r[x] <= r2[x],
         NEW g \in {G0, G1}, NEW g2 \in {G0, G1, G2, GC},
         g2 = g \/ (g = G0 /\ g2 \in {G1, GC}) \/ (g = G1 /\ g2 = G2),
         NEW t, NEW c \in States, NEW c2 \in States, NEW v \in Nat, NEW l \in Logs, NEW n \in Nat
  PROVE  StateEvolution(DB(r, g, t, c, v, l), DB(r2, g2, t, c2, v + 1,
               Append(l, Passage(c, c2, n))))
<1>1. GenerationsReachable(DB(r, g, t, c, v, l), DB(r2, g2, t, c2, v + 1,
            Append(l, Passage(c, c2, n))))
  <2>1. CASE g = G0 /\ g2 \in {G0, G1, GC}
    BY <2>1, Fields, Reaches
  <2>2. CASE g = G1 /\ g2 \in {G1, G2}
    BY <2>2, Fields, Reaches
  <2> QED
    BY <2>1, <2>2
<1> QED
  BY <1>1, EvolvesOnce

LEMMA NothingLost ==
  ASSUME NEW b, b.rows \in Counts
  PROVE  \A x \in Tables : b.rows[x] >= b.rows[x]
BY DEF Counts

LEMMA A0Gap ==
  /\ StateEvolution(A0, A0) /\ StateEvolution(A0, B0) /\ StateEvolution(B0, B0)
  /\ \A x \in Tables : B0.rows[x] >= A0.rows[x] /\ B0.rows[x] >= B0.rows[x]
  /\ A0.gens = G0 /\ A0.ctl = "OPEN" /\ A0.rows = Chained
  /\ B0.gens = G1 /\ B0.ctl = "SHOCKED_CLOSED" /\ B0.rows = Gapped
  /\ Chained["gap_records"] = 0 /\ Gapped["gap_records"] = 1
  /\ \A x \in GAP_INSERTS : B0.rows[x] - A0.rows[x] = 1 /\ A0.rows[x] - A0.rows[x] = 0
  /\ \A x \in CHAIN : B0.rows[x] - A0.rows[x] = 0
<1>1. A0.gens = G0 /\ A0.ctl = "OPEN" /\ A0.rows = Chained
  BY DEF A0, DB
<1>2. B0.gens = G1 /\ B0.ctl = "SHOCKED_CLOSED" /\ B0.rows = Gapped
  BY DEF B0, DB
<1>3. /\ Chained \in Counts /\ Gapped \in Counts
      /\ \A x \in Tables : Chained[x] \in Nat /\ Gapped[x] \in Nat /\ Chained[x] <= Gapped[x]
  <2>1. Chained \in Counts /\ Gapped \in Counts
    BY StoresReached
  <2>2. \A x \in Tables : Chained[x] <= Gapped[x]
    BY <2>1, RowsKept DEF Gapped
  <2> QED
    BY <2>1, <2>2 DEF Counts
<1>4. StateEvolution(A0, A0)
  <2>1. G0 \in {G0, G1, G2, GC} /\ 0 \in Nat
    OBVIOUS
  <2> QED
    BY <1>3, <2>1, EmptyLog, StandsStill, Zenon DEF A0
<1>5. StateEvolution(B0, B0)
  <2>1. G1 \in {G0, G1, G2, GC} /\ 0 + 1 \in Nat
    OBVIOUS
  <2> QED
    BY <1>3, <2>1, StoredLog, StandsStill, Zenon DEF B0
<1>6. StateEvolution(A0, B0)
  <2>1. \A v \in Nat, n \in Nat : \A l \in Logs : StateEvolution(DB(Chained, G0, T1, "OPEN", v, l),
          DB(Gapped, G1, T1, "SHOCKED_CLOSED", v + 1,
                Append(l, Passage("OPEN", "SHOCKED_CLOSED", n))))
    <3> DEFINE x == "OPEN"
               y == "SHOCKED_CLOSED"
    <3>1. x \in States /\ y \in States
      BY DEF States
    <3> HIDE DEF x, y
    <3>2. \A v \in Nat, n \in Nat : \A l \in Logs : StateEvolution(DB(Chained, G0, T1, x, v, l),
            DB(Gapped, G1, T1, y, v + 1, Append(l, Passage(x, y, n))))
      BY <1>3, <3>1, Advances
    <3> QED
      BY <3>2 DEF x, y
  <2>2. 0 \in Nat /\ Now \in Nat
    BY DEF Now
  <2> QED
    BY <2>1, <2>2, EmptyLog, Zenon DEF A0, B0, Closing
<1>7. Chained["gap_records"] = 0 /\ Gapped["gap_records"] = 1
  <2>1. "gap_records" \in Tables /\ "gap_records" \in GAP_INSERTS /\ "gap_records" \notin CHAIN
    BY DEF Tables, GAP_INSERTS, CHAIN
  <2> QED
    BY <2>1, ProvisionedIs DEF Gapped, Chained, More
<1>8. GAP_INSERTS \subseteq Tables /\ CHAIN \subseteq Tables /\ GAP_INSERTS \cap CHAIN = {}
  BY DEF Tables, GAP_INSERTS, CHAIN
<1>9. \A x \in GAP_INSERTS : Gapped[x] - Chained[x] = 1 /\ Chained[x] - Chained[x] = 0
  BY <1>3, <1>8 DEF Gapped, More
<1>10. \A x \in CHAIN : Gapped[x] - Chained[x] = 0
  BY <1>3, <1>8 DEF Gapped, More
<1> QED
  BY <1>1, <1>2, <1>3, <1>4, <1>5, <1>6, <1>7, <1>9, <1>10

(* GAP-01 to GAP-10 and CAPACITY-01. *)
LEMMA GapsHonest ==
  ASSUME NEW key \in GapKeys \cup {"GAP-09", "GAP-10", "CAPACITY-01"}, case = GapScenario(key),
         NEW d, Settled(d)
  PROVE  Honest(d)
<1>1. /\ case.key = key /\ case.family = "GAP" /\ case.setup = <<Deliver(0, 1)>>
      /\ case.first = <<>> /\ case.pre = <<>> /\ case.then = <<>>
  BY DEF GapScenario, GapKeys
<1>2. /\ key # "CAPACITY-01" => case.operation = "GAP" /\ case.op = Deliver(0, 3)
      /\ key = "CAPACITY-01" => case.operation = "CAPACITY" /\ case.op = Do("CAPACITY")
  BY DEF GapScenario, GapKeys
<1>3. /\ key \in GapKeys => case.point = "STATEMENT"
      /\ key = "GAP-09" => case.point = "COMMIT"
      /\ key \in {"GAP-10", "CAPACITY-01"} => case.point = "AFTER"
  BY DEF GapScenario, GapKeys
<1>4. Commit(A0, case.op) = B0
  <2>1. CASE key # "CAPACITY-01"
    BY <1>2, <2>1, StoresReached
  <2>2. CASE key = "CAPACITY-01"
    <3>1. \A l : Commit(DB(Chained, G0, T1, "OPEN", 0, l), Do("CAPACITY"))
            = DB(Gapped, G1, T1, "SHOCKED_CLOSED", 0 + 1,
                  Append(l, Passage("OPEN", "SHOCKED_CLOSED", Now)))
      BY StoresReached, DoneGap DEF Gapped
    <3> QED
      BY <1>2, <2>2, <3>1, Zenon DEF A0, B0, Closing
  <2> QED
    BY <2>1, <2>2
<1>5. Base = A0 /\ Old = A0 /\ New = B0
  BY <1>1, <1>4, NoneDone, StoresReached, Setups DEF Base, SetUp
<1>6. Recovered(case, B0) = B0 /\ (key # "CAPACITY-01" => Recovered(case, A0) = B0)
  BY <1>1, <1>2, <1>4, A0Gap DEF Recovered
<1>7. Target = B0
  BY <1>1, <1>5, <1>6 DEF Target
<1>8. d \in {A0, B0} /\ (key \in GapKeys => d = A0) /\ (key \in {"GAP-10", "CAPACITY-01"} => d = B0)
  BY <1>3, <1>5 DEF Settled
<1>9. StateEvolution(Base, d) /\ StateEvolution(d, Target)
  BY <1>5, <1>7, <1>8, A0Gap
<1>10. RecoveryHolds(case, d, Target)
  <2>1. /\ TargetGaps(A0) = 0 /\ TargetGaps(B0) = 1
    BY A0Gap, Gaps
  <2>2. CASE d = A0
    <3>1. key # "CAPACITY-01"
      BY <1>8, <2>1, <2>2
    <3> QED
      BY <1>2, <1>7, <2>1, <2>2, <3>1, A0Gap, Generations DEF RecoveryHolds
  <2>3. CASE d = B0
    BY <1>2, <1>7, <2>1, <2>3, A0Gap DEF RecoveryHolds
  <2> QED
    BY <1>8, <2>2, <2>3
<1>11. \E o \in GapExpected(case) : SemanticView(case, A0, d, DOMAIN o.deltas) = o
  <2>0. GAP_INSERTS \subseteq Tables /\ CHAIN \subseteq Tables /\ {} \subseteq Tables /\ GAP_INSERTS \cap CHAIN = {}
    BY DEF Tables, GAP_INSERTS, CHAIN
  <2>1. CASE d = A0 /\ key # "CAPACITY-01"
    <3> DEFINE o == [deltas |-> Deltas({}, GAP_INSERTS), coherence |-> "OPEN", active |-> 0]
    <3>1. o \in GapExpected(case)
      BY <1>1, <1>8, <2>1, A0Gap DEF GapExpected, GapKeys
    <3>2. Coherence(case, d) = "OPEN"
      BY <1>2, <2>1, A0Gap DEF Coherence
    <3>3. (CHOOSE g \in 0..2 : d.gens[g] = "ACTIVE") = 0
      BY <2>1, A0Gap, Actives
    <3>4. DOMAIN o.deltas = {} \cup GAP_INSERTS
      BY DEF Deltas
    <3>5. SemanticView(case, A0, d, {} \cup GAP_INSERTS) = o
      BY <2>0, <2>1, <3>2, <3>3, A0Gap DEF SemanticView, Deltas
    <3> QED
      BY <3>1, <3>4, <3>5
  <2>2. CASE d = B0 /\ key = "GAP-09"
    <3> DEFINE o == [deltas |-> Deltas(GAP_INSERTS, {}), coherence |-> "SHOCKED_CLOSED", active |-> 1]
    <3>1. o \in GapExpected(case)
      BY <1>1, <2>2 DEF GapExpected, GapKeys
    <3>2. Coherence(case, d) = "SHOCKED_CLOSED"
      BY <1>2, <2>2, A0Gap DEF Coherence
    <3>3. (CHOOSE g \in 0..2 : d.gens[g] = "ACTIVE") = 1
      BY <2>2, A0Gap, Actives
    <3>4. DOMAIN o.deltas = GAP_INSERTS \cup {}
      BY DEF Deltas
    <3>5. SemanticView(case, A0, d, GAP_INSERTS \cup {}) = o
      BY <2>0, <2>2, <3>2, <3>3, A0Gap DEF SemanticView, Deltas
    <3> QED
      BY <3>1, <3>4, <3>5
  <2>3. CASE d = B0 /\ key = "GAP-10"
    <3> DEFINE o == [deltas |-> Deltas(GAP_INSERTS \cup {}, CHAIN \ {"raw_commits"}),
                     coherence |-> "SHOCKED_CLOSED", active |-> 1]
    <3>1. o \in GapExpected(case)
      BY <1>1, <2>3 DEF GapExpected, GapKeys
    <3>2. Coherence(case, d) = "SHOCKED_CLOSED"
      BY <1>2, <2>3, A0Gap DEF Coherence
    <3>3. (CHOOSE g \in 0..2 : d.gens[g] = "ACTIVE") = 1
      BY <2>3, A0Gap, Actives
    <3>4. DOMAIN o.deltas = (GAP_INSERTS \cup {}) \cup (CHAIN \ {"raw_commits"})
      BY DEF Deltas
    <3>5. SemanticView(case, A0, d, (GAP_INSERTS \cup {}) \cup (CHAIN \ {"raw_commits"})) = o
      BY <2>0, <2>3, <3>2, <3>3, A0Gap DEF SemanticView, Deltas
    <3> QED
      BY <3>1, <3>4, <3>5
  <2>4. CASE d = B0 /\ key = "CAPACITY-01"
    <3> DEFINE o == [deltas |-> Deltas({}, {}), coherence |-> "SHOCKED_CLOSED_AFTER_TERMINAL_GAP", active |-> 1]
    <3>1. o \in GapExpected(case)
      BY <1>1, <2>4 DEF GapExpected, GapKeys
    <3>2. Coherence(case, d) = "SHOCKED_CLOSED_AFTER_TERMINAL_GAP"
      BY <1>2, <2>4, A0Gap DEF Coherence
    <3>3. (CHOOSE g \in 0..2 : d.gens[g] = "ACTIVE") = 1
      BY <2>4, A0Gap, Actives
    <3>4. DOMAIN o.deltas = {} \cup {}
      BY DEF Deltas
    <3>5. SemanticView(case, A0, d, {} \cup {}) = o
      BY <2>0, <2>4, <3>2, <3>3, A0Gap DEF SemanticView, Deltas
    <3> QED
      BY <3>1, <3>4, <3>5
  <2>5. /\ d = A0 => key # "CAPACITY-01"
        /\ d = B0 => key \in {"GAP-09", "GAP-10", "CAPACITY-01"}
    <3>1. TargetGaps(A0) = 0 /\ TargetGaps(B0) = 1
      BY A0Gap, Gaps
    <3> QED
      BY <1>8, <3>1
  <2> QED
    BY <1>8, <2>1, <2>2, <2>3, <2>4, <2>5
<1> QED
  BY <1>5, <1>6, <1>7, <1>8, <1>9, <1>10, <1>11, A0Gap, Gaps DEF Honest

LEMMA Differs ==
  ASSUME NEW r \in Counts, NEW S
  PROVE  \A x \in Tables : /\ More(r, S)[x] - r[x] = IF x \in S THEN 1 ELSE 0
                           /\ r[x] - r[x] = 0
                           /\ r[x] <= More(r, S)[x]
                           /\ More(r, S)[x] >= r[x]
                           /\ More(r, S)[x] <= More(r, S)[x]
                           /\ More(r, S)[x] >= More(r, S)[x]
                           /\ r[x] \in Nat /\ More(r, S)[x] \in Nat
                           /\ More(r, S)[x] = IF x \in S THEN r[x] + 1 ELSE r[x]
BY DEF Counts, More

LEMMA Transits ==
  ASSUME NEW r \in Counts, NEW r2, \A x \in Tables : r[x] <= r2[x],
         NEW g \in {G0, G1}, NEW g2 \in {G0, G1, G2, GC},
         g2 = g \/ (g = G0 /\ g2 \in {G1, GC}) \/ (g = G1 /\ g2 = G2),
         NEW t, NEW v \in Nat, NEW l \in Logs
  PROVE  /\ StateEvolution(DB(r, g, t, "OPEN", v, l),
              DB(r2, g2, t, "SHOCKED_CLOSED", v + 1,
                    Append(l, Passage("OPEN", "SHOCKED_CLOSED", Now))))
         /\ StateEvolution(DB(r, g, t, "NEW_EPOCH_OPEN", v, l),
              DB(r2, g2, t, "SHOCKED_CLOSED", v + 1,
                    Append(l, Passage("NEW_EPOCH_OPEN", "SHOCKED_CLOSED", Now))))
         /\ StateEvolution(DB(r, g, t, "OPEN", v, l),
              DB(r2, g2, t, "SHOCKED_CLOSED", v + 1,
                    Append(l, Passage("OPEN", "SHOCKED_CLOSED", 6))))
         /\ StateEvolution(DB(r, g, t, "SHOCKED_CLOSED", v, l),
              DB(r2, g2, t, "WAITING_FOR_RESNAPSHOT", v + 1,
                 Append(l, Passage("SHOCKED_CLOSED", "WAITING_FOR_RESNAPSHOT", 7))))
         /\ StateEvolution(DB(r, g, t, "WAITING_FOR_RESNAPSHOT", v, l),
              DB(r2, g2, t, "NEW_EPOCH_PENDING", v + 1,
                 Append(l, Passage("WAITING_FOR_RESNAPSHOT", "NEW_EPOCH_PENDING", 8))))
         /\ StateEvolution(DB(r, g, t, "NEW_EPOCH_PENDING", v, l),
              DB(r2, g2, t, "NEW_EPOCH_OPEN", v + 1,
                 Append(l, Passage("NEW_EPOCH_PENDING", "NEW_EPOCH_OPEN", 9))))
         /\ StateEvolution(DB(r, g, t, "NEW_EPOCH_PENDING", v, l),
              DB(r2, g2, t, "WAITING_FOR_RESNAPSHOT", v + 1,
                 Append(l, Passage("NEW_EPOCH_PENDING", "WAITING_FOR_RESNAPSHOT", 10))))
<1>1. \A c \in States, c2 \in States, n \in Nat :
        StateEvolution(DB(r, g, t, c, v, l), DB(r2, g2, t, c2, v + 1,
              Append(l, Passage(c, c2, n))))
  BY Advances
<1>2. /\ "OPEN" \in States /\ "SHOCKED_CLOSED" \in States /\ "WAITING_FOR_RESNAPSHOT" \in States
      /\ "NEW_EPOCH_PENDING" \in States /\ "NEW_EPOCH_OPEN" \in States
      /\ Now \in Nat /\ 6 \in Nat /\ 7 \in Nat /\ 8 \in Nat /\ 9 \in Nat /\ 10 \in Nat
  BY DEF States, Now
<1> QED
  BY <1>1, <1>2, Zenon

(* GAP-11: the successor of the first gap has one of its own. *)
LEMMA NextGapHonest ==
  ASSUME case = GapScenario("GAP-11"), NEW d, Settled(d)
  PROVE  Honest(d)
<1>1. /\ case.key = "GAP-11" /\ case.family = "GAP" /\ case.setup = <<Deliver(0, 1), Deliver(0, 3)>>
      /\ case.first = <<Do("SEED"), Do("WAITING"), Do("PENDING"), Do("RELEASE")>>
      /\ case.pre = <<>> /\ case.then = <<>>
      /\ case.operation = "GAP" /\ case.op = Deliver(1, 2) /\ case.point = "AFTER"
  BY DEF GapScenario, GapKeys
<1>2. PICK r \in Counts, v \in Nat, l \in Logs :
        /\ CommitAll(B0, <<Do("SEED"), Do("WAITING"), Do("PENDING"), Do("RELEASE")>>)
             = DB(r, G1, T1, "NEW_EPOCH_OPEN", v, l)
        /\ r["gap_records"] # 0
  BY Reopened
<1> DEFINE b == DB(r, G1, T1, "NEW_EPOCH_OPEN", v, l)
           l2 == Append(l, Passage("NEW_EPOCH_OPEN", "SHOCKED_CLOSED", Now))
           r2 == More(r, GAP_INSERTS)
           a == DB(r2, G2, T1, "SHOCKED_CLOSED", v + 1, l2)
<1>3. Commit(b, Deliver(1, 2)) = a
  BY DeliveredNext
<1>4. l2 \in Logs /\ v + 1 \in Nat
  BY LogGrows DEF States, Now
<1>5. \A x \in Tables : r[x] <= r2[x]
  BY Differs
<1>6. StateEvolution(b, a)
  BY <1>5, Transits
<1>7. StateEvolution(a, a)
  <2>1. r2 \in Counts
    BY MoreCounts
  <2> HIDE DEF r2, l2
  <2> QED
    BY <1>4, <2>1, StandsStill
<1>8. a.rows = r2 /\ a.gens = G2 /\ a.ctl = "SHOCKED_CLOSED" /\ b.rows = r
  BY Fields
<1>9. GAP_INSERTS \subseteq Tables /\ CHAIN \subseteq Tables /\ GAP_INSERTS \cap CHAIN = {} /\ "gap_records" \in GAP_INSERTS
  BY DEF Tables, GAP_INSERTS, CHAIN
<1>10. /\ \A x \in GAP_INSERTS : a.rows[x] - b.rows[x] = 1
       /\ \A x \in CHAIN : a.rows[x] - b.rows[x] = 0
       /\ \A x \in Tables : a.rows[x] >= a.rows[x]
       /\ a.rows["gap_records"] # 0
  <2>1. \A S : \A x \in Tables : r[x] \in Nat /\ More(r, S)[x] = IF x \in S THEN r[x] + 1 ELSE r[x]
    BY Differs
  <2>2. \A x \in Tables : r[x] \in Nat /\ r2[x] = IF x \in GAP_INSERTS THEN r[x] + 1 ELSE r[x]
    BY <2>1, Zenon
  <2> HIDE DEF a, b, r2
  <2> QED
    BY <1>8, <1>9, <2>2
<1> HIDE DEF a, b, r2, l2
<1>11. Base = b /\ Old = b /\ New = a /\ d = a
  BY <1>1, <1>2, <1>3, NoneDone, StoresReached, Setups DEF Base, SetUp, Settled, b
<1>12. Recovered(case, a) = a
  BY <1>1, <1>10 DEF Recovered
<1>13. Target = a
  BY <1>1, <1>11, <1>12 DEF Target
<1>14. RecoveryHolds(case, a, a)
  <2>1. TargetGaps(a) = 2
    BY <1>8, Gaps
  <2> QED
    BY <1>1, <1>10, <2>1 DEF RecoveryHolds
<1>15. \E o \in GapExpected(case) : SemanticView(case, b, a, DOMAIN o.deltas) = o
  <2> DEFINE o == [deltas |-> Deltas(GAP_INSERTS \cup {}, CHAIN \ {"raw_commits"}),
                   coherence |-> "SHOCKED_CLOSED", active |-> 2]
  <2>1. o \in GapExpected(case)
    BY <1>1 DEF GapExpected, GapKeys
  <2>2. Coherence(case, a) = "SHOCKED_CLOSED"
    BY <1>1, <1>8 DEF Coherence
  <2>3. (CHOOSE g \in 0..2 : a.gens[g] = "ACTIVE") = 2
    BY <1>8, Actives
  <2>4. DOMAIN o.deltas = (GAP_INSERTS \cup {}) \cup (CHAIN \ {"raw_commits"})
    BY DEF Deltas
  <2>5. SemanticView(case, b, a, (GAP_INSERTS \cup {}) \cup (CHAIN \ {"raw_commits"})) = o
    BY <1>9, <1>10, <2>2, <2>3 DEF SemanticView, Deltas
  <2> QED
    BY <2>1, <2>4, <2>5
<1> QED
  BY <1>6, <1>7, <1>11, <1>12, <1>13, <1>14, <1>15 DEF Honest

(* CONFLICT-01: another record under a sequence that is stored. *)
LEMMA ConflictHonest ==
  ASSUME case = GapScenario("CONFLICT-01"), NEW d, Settled(d)
  PROVE  Honest(d)
<1>1. /\ case.key = "CONFLICT-01" /\ case.family = "GAP" /\ case.setup = <<Deliver(0, 1)>>
      /\ case.first = <<>> /\ case.pre = <<>> /\ case.then = <<>>
      /\ case.operation = "GAP" /\ case.op = DeliverOther(0, 1) /\ case.point = "AFTER"
  BY DEF GapScenario, GapKeys
<1> DEFINE ones == GAP_INSERTS \cup {"raw_conflicts"}
           r2 == More(Chained, ones)
           a == DB(r2, GC, T1, "SHOCKED_CLOSED", 0 + 1, Closing)
<1>3. Commit(A0, DeliverOther(0, 1)) = a
  <2>1. \A v \in Nat : \A l : Commit(DB(Chained, G0, T1, "OPEN", v, l), DeliverOther(0, 1))
            = DB(r2, GC, T1, "SHOCKED_CLOSED", v + 1,
                  Append(l, Passage("OPEN", "SHOCKED_CLOSED", Now)))
    BY StoresReached, DeliveredConflict
  <2>2. 0 \in Nat
    OBVIOUS
  <2> QED
    BY <2>1, <2>2, Zenon DEF A0, Closing
<1>5. \A x \in Tables : /\ Chained[x] <= r2[x]
                        /\ r2[x] = IF x \in ones THEN Chained[x] + 1 ELSE Chained[x]
                        /\ Chained[x] \in Nat
  <2>1. \A S : \A x \in Tables : /\ Chained[x] \in Nat /\ Chained[x] <= More(Chained, S)[x]
                                 /\ More(Chained, S)[x] = IF x \in S THEN Chained[x] + 1 ELSE Chained[x]
    BY StoresReached, Differs
  <2> HIDE DEF ones
  <2> QED
    BY <2>1
<1>5a. r2 \in Counts
  BY StoresReached, MoreCounts
<1> HIDE DEF r2
<1>6. StateEvolution(A0, a)
  <2>1. \A v \in Nat, l \in Logs : StateEvolution(DB(Chained, G0, T1, "OPEN", v, l),
              DB(r2, GC, T1, "SHOCKED_CLOSED", v + 1,
                    Append(l, Passage("OPEN", "SHOCKED_CLOSED", Now))))
    BY <1>5, StoresReached, Transits
  <2>2. 0 \in Nat
    OBVIOUS
  <2> QED
    BY <2>1, <2>2, EmptyLog, Zenon DEF A0, Closing
<1>7. StateEvolution(a, a)
  <2>1. \A v \in Nat, l \in Logs : StateEvolution(DB(r2, GC, T1, "SHOCKED_CLOSED", v, l), DB(r2, GC, T1, "SHOCKED_CLOSED", v, l))
    BY <1>5a, StandsStill
  <2>2. 0 + 1 \in Nat
    OBVIOUS
  <2> QED
    BY <2>1, <2>2, StoredLog, Zenon
<1>8. a.rows = r2 /\ a.gens = GC /\ a.ctl = "SHOCKED_CLOSED"
  BY Fields
<1>9. ones \subseteq Tables /\ CHAIN \subseteq Tables /\ ones \cap CHAIN = {} /\ "gap_records" \in ones
  BY DEF Tables, GAP_INSERTS, CHAIN
<1> HIDE DEF a, ones
<1>10. /\ \A x \in ones : a.rows[x] - A0.rows[x] = 1
       /\ \A x \in CHAIN : a.rows[x] - A0.rows[x] = 0
       /\ \A x \in Tables : a.rows[x] >= a.rows[x]
       /\ a.rows["gap_records"] # 0
  <2>1. \A x \in Tables : a.rows[x] \in Nat /\ A0.rows[x] \in Nat
                         /\ a.rows[x] = IF x \in ones THEN A0.rows[x] + 1 ELSE A0.rows[x]
    BY <1>5, <1>8, A0Gap
  <2> QED
    BY <1>9, <2>1
<1>11. Base = A0 /\ Old = A0 /\ New = a /\ d = a
  BY <1>1, <1>3, NoneDone, StoresReached, Setups DEF Base, SetUp, Settled
<1>12. Recovered(case, a) = a
  BY <1>1, <1>10 DEF Recovered
<1>13. Target = a
  BY <1>1, <1>11, <1>12 DEF Target
<1>14. RecoveryHolds(case, a, a)
  <2>1. TargetGaps(a) = 1
    BY <1>8, Gaps
  <2> QED
    BY <1>1, <1>10, <2>1 DEF RecoveryHolds
<1>15. \E o \in GapExpected(case) : SemanticView(case, A0, a, DOMAIN o.deltas) = o
  <2> DEFINE o == [deltas |-> Deltas(ones, CHAIN \ {"raw_commits"}),
                   coherence |-> "SHOCKED_CLOSED", active |-> 1]
  <2>1. o \in GapExpected(case)
    BY <1>1 DEF GapExpected, GapKeys, ones
  <2>2. Coherence(case, a) = "SHOCKED_CLOSED"
    BY <1>1, <1>8 DEF Coherence
  <2>3. (CHOOSE g \in 0..2 : a.gens[g] = "ACTIVE") = 1
    BY <1>8, Actives
  <2>4. DOMAIN o.deltas = ones \cup (CHAIN \ {"raw_commits"})
    BY DEF Deltas
  <2>5. SemanticView(case, A0, a, ones \cup (CHAIN \ {"raw_commits"})) = o
    <3> HIDE DEF ones
    <3> QED
      BY <1>9, <1>10, <2>2, <2>3 DEF SemanticView, Deltas
  <2> QED
    BY <2>1, <2>4, <2>5
<1> QED
  BY <1>6, <1>7, <1>11, <1>12, <1>13, <1>14, <1>15 DEF Honest

(* LATE-01: a repair of the closed generation, then the wait for a snapshot. *)
LEMMA LateHonest ==
  ASSUME case = GapScenario("LATE-01"), NEW d, Settled(d)
  PROVE  Honest(d)
<1>1. /\ case.key = "LATE-01" /\ case.family = "GAP" /\ case.setup = <<Deliver(0, 1), Deliver(0, 3)>>
      /\ case.first = <<>> /\ case.pre = <<>> /\ case.then = <<Do("WAITING")>>
      /\ case.operation = "GAP" /\ case.op = [Deliver(0, 2) EXCEPT !.do = "LATE_REPAIR"]
      /\ case.point = "AFTER"
  BY DEF GapScenario, GapKeys
<1> DEFINE r1 == More(Gapped, {"raw_commits"})
           r2 == More(r1, {"coherence_transitions"})
           l2 == Append(Closing, Passage("SHOCKED_CLOSED", "WAITING_FOR_RESNAPSHOT", 7))
           b == DB(r1, G1, T1, "SHOCKED_CLOSED", 0 + 1, Closing)
           a == DB(r2, G1, T1, "WAITING_FOR_RESNAPSHOT", 0 + 1 + 1, l2)
<1>2. r1 \in Counts
  BY StoresReached, MoreCounts
<1>2a. r2 \in Counts
  BY <1>2, MoreCounts
<1>2b. /\ \A x \in Tables : r1[x] = IF x \in {"raw_commits"} THEN Gapped[x] + 1 ELSE Gapped[x]
       /\ \A x \in Tables : Gapped[x] \in Nat
  BY StoresReached, Differs
<1>2c. \A x \in Tables : r2[x] = IF x \in {"coherence_transitions"} THEN r1[x] + 1 ELSE r1[x]
  BY <1>2, Differs
<1>3. Commit(B0, [Deliver(0, 2) EXCEPT !.do = "LATE_REPAIR"]) = b
  <2>1. \A v \in Nat : \A l : Commit(DB(Gapped, G1, T1, "SHOCKED_CLOSED", v, l), [Deliver(0, 2) EXCEPT !.do = "LATE_REPAIR"])
                          = DB(r1, G1, T1, "SHOCKED_CLOSED", v, l)
    BY StoresReached, DoneSequence
  <2>2. 0 + 1 \in Nat
    OBVIOUS
  <2> QED
    BY <2>1, <2>2, Zenon DEF B0
<1> HIDE DEF r1, r2
<1>4. Commit(b, Do("WAITING")) = a
  <2>1. \A v \in Nat : \A l : Commit(DB(r1, G1, T1, "SHOCKED_CLOSED", v, l), Do("WAITING"))
                          = DB(r2, G1, T1, "WAITING_FOR_RESNAPSHOT", v + 1,
                               Append(l, Passage("SHOCKED_CLOSED", "WAITING_FOR_RESNAPSHOT", 7)))
    BY <1>2, DoneSequence DEF r2
  <2>2. 0 + 1 \in Nat
    OBVIOUS
  <2> QED
    BY <2>1, <2>2, Zenon
<1>5. l2 \in Logs
  BY StoredLog, LogGrows DEF States
<1>6. StateEvolution(B0, a)
  <2>1. \A x \in Tables : Gapped[x] <= r2[x]
    BY <1>2b, <1>2c
  <2>2. \A v \in Nat, l \in Logs : StateEvolution(DB(Gapped, G1, T1, "SHOCKED_CLOSED", v, l),
              DB(r2, G1, T1, "WAITING_FOR_RESNAPSHOT", v + 1,
                 Append(l, Passage("SHOCKED_CLOSED", "WAITING_FOR_RESNAPSHOT", 7))))
    BY <2>1, StoresReached, Transits
  <2>3. 0 + 1 \in Nat
    OBVIOUS
  <2> QED
    BY <2>2, <2>3, StoredLog, Zenon DEF B0
<1> HIDE DEF l2
<1>7. StateEvolution(a, a)
  <2>1. \A v \in Nat, l \in Logs : StateEvolution(DB(r2, G1, T1, "WAITING_FOR_RESNAPSHOT", v, l), DB(r2, G1, T1, "WAITING_FOR_RESNAPSHOT", v, l))
    BY <1>2a, StandsStill
  <2>2. 0 + 1 + 1 \in Nat
    OBVIOUS
  <2> QED
    BY <1>5, <2>1, <2>2, Zenon
<1>8. a.rows = r2 /\ a.gens = G1 /\ a.ctl = "WAITING_FOR_RESNAPSHOT"
  BY Fields
<1> DEFINE zeros == (CHAIN \ {"raw_commits"}) \cup {"gap_records", "generation_transitions"}
<1>9. /\ zeros \subseteq Tables /\ "raw_commits" \in Tables \ zeros /\ "gap_records" \in Tables
      /\ "coherence_transitions" \notin zeros \cup {"raw_commits"} /\ "gap_records" \in GAP_INSERTS
  BY DEF Tables, GAP_INSERTS, CHAIN
<1> HIDE DEF a, b, zeros
<1>10. /\ a.rows["raw_commits"] - B0.rows["raw_commits"] = 1
       /\ \A x \in zeros : a.rows[x] - B0.rows[x] = 0
       /\ \A x \in Tables : a.rows[x] >= a.rows[x]
       /\ a.rows["gap_records"] # 0
  <2>1. r2["gap_records"] = Gapped["gap_records"]
    BY <1>2b, <1>2c, <1>9
  <2>2. \A x \in zeros : r2[x] = Gapped[x]
    BY <1>2b, <1>2c, <1>9
  <2>3. r2["raw_commits"] = Gapped["raw_commits"] + 1
    BY <1>2b, <1>2c, <1>9
  <2>4. \A x \in Tables : Gapped[x] \in Nat /\ r2[x] \in Nat
    BY <1>2b, <1>2c
  <2> QED
    BY <1>8, <1>9, <2>1, <2>2, <2>3, <2>4, A0Gap
<1>11. Base = B0 /\ Old = B0 /\ New = a /\ d = a
  <2>1. CommitAll(b, <<Do("WAITING")>>) = a
    BY <1>4, DoneOne
  <2> QED
    BY <1>1, <1>3, <2>1, NoneDone, StoresReached, Setups DEF Base, SetUp, Settled
<1>12. Recovered(case, a) = a
  BY <1>1, <1>10 DEF Recovered
<1>13. Target = a
  BY <1>1, <1>11, <1>12 DEF Target
<1>14. RecoveryHolds(case, a, a)
  <2>1. TargetGaps(a) = 1
    BY <1>8, Gaps
  <2> QED
    BY <1>1, <1>10, <2>1 DEF RecoveryHolds
<1>15. \E o \in GapExpected(case) : SemanticView(case, B0, a, DOMAIN o.deltas) = o
  <2> DEFINE o == [deltas |-> Deltas({"raw_commits"}, zeros), coherence |-> "WAITING_FOR_RESNAPSHOT", active |-> 1]
  <2>1. o \in GapExpected(case)
    BY <1>1 DEF GapExpected, GapKeys, zeros
  <2>2. Coherence(case, a) = "WAITING_FOR_RESNAPSHOT"
    BY <1>1, <1>8 DEF Coherence
  <2>3. (CHOOSE g \in 0..2 : a.gens[g] = "ACTIVE") = 1
    BY <1>8, Actives
  <2>4. DOMAIN o.deltas = {"raw_commits"} \cup zeros
    BY DEF Deltas
  <2>5. SemanticView(case, B0, a, {"raw_commits"} \cup zeros) = o
    BY <1>9, <1>10, <2>2, <2>3 DEF SemanticView, Deltas
  <2> QED
    BY <2>1, <2>4, <2>5
<1> QED
  BY <1>6, <1>7, <1>11, <1>12, <1>13, <1>14, <1>15 DEF Honest

-----------------------------------------------------------------------------
ShockRows == {"shock_observations", "coherence_transitions"}

(* CLOCK-01 and CLOCK-02: a mapping is closed, the shock is still missing. *)
LEMMA ClockHonest ==
  ASSUME NEW key \in {"CLOCK-01", "CLOCK-02"}, case = GapScenario(key), NEW d, Settled(d)
  PROVE  Honest(d)
<1>1. /\ case.key = key /\ case.family = "GAP" /\ case.setup = <<>> /\ case.first = <<>>
      /\ case.pre = <<Do("MAPPING")>> /\ case.then = <<>>
      /\ case.operation = "CLOCK" /\ case.op = Do("CLOSURE")
      /\ case.point = IF key = "CLOCK-01" THEN "BEFORE_COMMIT" ELSE "AFTER"
  BY DEF GapScenario, GapKeys
<1> DEFINE r1 == More(Zero, {"clock_mappings"})
           r2 == More(r1, {"clock_mapping_closures"})
           r3 == More(r2, ShockRows)
           l3 == Append(<<>>, Passage("OPEN", "SHOCKED_CLOSED", 6))
           o == DB(r1, G0, T0, "OPEN", 0, <<>>)
           n == DB(r2, G0, T0, "OPEN", 0, <<>>)
           a == DB(r3, G0, T0, "SHOCKED_CLOSED", 0 + 1, l3)
<1>2. r1 \in Counts
  BY ProvisionedIs, MoreCounts
<1>3. r2 \in Counts
  BY <1>2, MoreCounts
<1>4. r3 \in Counts
  BY <1>3, MoreCounts
<1>5. \A x \in Tables : Zero[x] \in Nat /\ r1[x] = IF x \in {"clock_mappings"} THEN Zero[x] + 1 ELSE Zero[x]
  BY ProvisionedIs, Differs
<1>6. \A x \in Tables : r2[x] = IF x \in {"clock_mapping_closures"} THEN r1[x] + 1 ELSE r1[x]
  BY <1>2, Differs
<1>7. \A x \in Tables : r3[x] = IF x \in ShockRows THEN r2[x] + 1 ELSE r2[x]
  <2> HIDE DEF r2
  <2> QED
    BY <1>3, Differs
<1>8. l3 \in Logs
  <2>1. 6 \in Nat
    OBVIOUS
  <2> QED
    BY <2>1, FirstLog, Zenon
<1> HIDE DEF r1, r2, r3
<1>9. Commit(P0, Do("MAPPING")) = o /\ Commit(o, Do("CLOSURE")) = n /\ Commit(n, Do("SHOCK")) = a
  <2>1. \A v \in Nat : \A l : Commit(DB(Zero, G0, T0, "OPEN", v, l), Do("MAPPING"))
          = DB(r1, G0, T0, "OPEN", v, l)
    BY ProvisionedIs, DoneSequence DEF r1
  <2>2. \A v \in Nat : \A l : Commit(DB(r1, G0, T0, "OPEN", v, l), Do("CLOSURE"))
          = DB(r2, G0, T0, "OPEN", v, l)
    BY <1>2, DoneSequence DEF r2
  <2>3. \A v \in Nat : \A l : Commit(DB(r2, G0, T0, "OPEN", v, l), Do("SHOCK"))
                 = DB(r3, G0, T0, "SHOCKED_CLOSED", v + 1,
                       Append(l, Passage("OPEN", "SHOCKED_CLOSED", 6)))
    BY <1>3, DoneSequence DEF r3, ShockRows
  <2>4. 0 \in Nat
    OBVIOUS
  <2> QED
    BY <2>1, <2>2, <2>3, <2>4, Zenon DEF P0
<1>10. /\ \A x \in Tables : /\ Zero[x] <= r1[x] /\ Zero[x] <= r2[x]
                            /\ r1[x] <= r3[x] /\ r2[x] <= r3[x]
       /\ \A x \in Tables : r1[x] \in Nat /\ r2[x] \in Nat /\ r3[x] \in Nat
  BY <1>5, <1>6, <1>7
<1>11. StateEvolution(P0, o) /\ StateEvolution(P0, n)
  <2>1. \A p, q : GenerationsReachable(DB(p, G0, T0, "OPEN", 0, <<>>), DB(q, G0, T0, "OPEN", 0, <<>>))
    BY Fields, Reaches
  <2>2. 0 \in Nat
    OBVIOUS
  <2> QED
    BY <1>10, <2>1, <2>2, EmptyLog, EvolvesQuietly DEF P0
<1>12. StateEvolution(o, a) /\ StateEvolution(n, a)
  <2>1. \A q \in {r1, r2} : \A v \in Nat, l \in Logs : StateEvolution(DB(q, G0, T0, "OPEN", v, l),
              DB(r3, G0, T0, "SHOCKED_CLOSED", v + 1,
                    Append(l, Passage("OPEN", "SHOCKED_CLOSED", 6))))
    BY <1>2, <1>3, <1>10, Transits
  <2>2. 0 \in Nat
    OBVIOUS
  <2> QED
    BY <2>1, <2>2, EmptyLog, Zenon
<1> HIDE DEF l3
<1>13. /\ P0.rows = Zero /\ o.rows = r1 /\ n.rows = r2 /\ a.rows = r3
       /\ o.gens = G0 /\ n.gens = G0 /\ o.ctl = "OPEN" /\ n.ctl = "OPEN" /\ a.ctl = "SHOCKED_CLOSED"
  BY Fields DEF P0
<1> HIDE DEF o, n, a
<1>14. /\ "clock_mapping_closures" \in Tables \ ShockRows /\ "shock_observations" \in ShockRows /\ ShockRows \subseteq Tables
       /\ "clock_mappings" \notin ShockRows
  BY DEF ShockRows, Tables, GAP_INSERTS, PROOFS
<1>15. /\ o.rows["clock_mapping_closures"] = 0 /\ o.rows["shock_observations"] = 0
       /\ n.rows["clock_mapping_closures"] = 1 /\ n.rows["shock_observations"] = 0
       /\ a.rows["clock_mapping_closures"] = 1 /\ a.rows["shock_observations"] = 1
       /\ \A x \in ShockRows : o.rows[x] - P0.rows[x] = 0 /\ n.rows[x] - P0.rows[x] = 0
       /\ o.rows["clock_mapping_closures"] - P0.rows["clock_mapping_closures"] = 0
       /\ n.rows["clock_mapping_closures"] - P0.rows["clock_mapping_closures"] = 1
       /\ \A x \in Tables : a.rows[x] >= o.rows[x] /\ a.rows[x] >= n.rows[x]
  <2>1. Zero["shock_observations"] = 0 /\ Zero["clock_mapping_closures"] = 0
    BY ProvisionedIs
  <2>2. /\ r1["clock_mapping_closures"] = 0 /\ r1["shock_observations"] = 0
        /\ r2["clock_mapping_closures"] = 1 /\ r2["shock_observations"] = 0
        /\ r3["clock_mapping_closures"] = 1 /\ r3["shock_observations"] = 1
    BY <1>5, <1>6, <1>7, <1>14, <2>1
  <2>3. \A x \in ShockRows : r1[x] = Zero[x] /\ r2[x] = Zero[x] /\ Zero[x] \in Nat
    BY <1>5, <1>6, <1>14
  <2>4. \A x \in Tables : r3[x] >= r1[x] /\ r3[x] >= r2[x]
    BY <1>10
  <2> QED
    BY <1>13, <2>1, <2>2, <2>3, <2>4
<1>16. Base = P0 /\ Old = o /\ New = n
  <2>1. CommitAll(P0, <<Do("MAPPING")>>) = o
    BY <1>9, DoneOne
  <2> QED
    BY <1>1, <1>9, <2>1, NoneDone, StoresReached, Setups DEF Base, SetUp
<1>17. Recovered(case, o) = a /\ Recovered(case, n) = a
  <2>1. case.operation = "CLOCK"
    BY <1>1
  <2> QED
    BY <1>9, <1>15, <2>1 DEF Recovered
<1>18. Target = a
  BY <1>1, <1>16, <1>17 DEF Target
<1>19. d = IF key = "CLOCK-01" THEN o ELSE n
  BY <1>1, <1>16 DEF Settled
<1>20. RecoveryHolds(case, d, a)
  BY <1>1, <1>13, <1>15, <1>19 DEF RecoveryHolds
<1>21. \E p \in GapExpected(case) : SemanticView(case, P0, d, DOMAIN p.deltas) = p
  <2>1. CASE key = "CLOCK-01"
    <3> DEFINE p == [deltas |-> Deltas({}, ShockRows \cup {"clock_mapping_closures"}), coherence |-> "OPEN", active |-> 0]
    <3>1. p \in GapExpected(case)
      BY <1>1, <2>1 DEF GapExpected, GapKeys, ShockRows
    <3>2. Coherence(case, o) = "OPEN"
      BY <1>1, <1>13, <1>15 DEF Coherence
    <3>3. (CHOOSE g \in 0..2 : o.gens[g] = "ACTIVE") = 0
      BY <1>13, Actives
    <3>4. DOMAIN p.deltas = {} \cup (ShockRows \cup {"clock_mapping_closures"})
      BY DEF Deltas
    <3>5. SemanticView(case, P0, o, {} \cup (ShockRows \cup {"clock_mapping_closures"})) = p
      BY <1>14, <1>15, <3>2, <3>3 DEF SemanticView, Deltas
    <3> QED
      BY <1>19, <2>1, <3>1, <3>4, <3>5
  <2>2. CASE key = "CLOCK-02"
    <3> DEFINE p == [deltas |-> Deltas({"clock_mapping_closures"}, ShockRows), coherence |-> "OPEN_BUT_INELIGIBLE",
                     active |-> 0]
    <3>1. p \in GapExpected(case)
      BY <1>1, <2>2 DEF GapExpected, GapKeys, ShockRows
    <3>2. Coherence(case, n) = "OPEN_BUT_INELIGIBLE"
      BY <1>1, <1>13, <1>15 DEF Coherence
    <3>3. (CHOOSE g \in 0..2 : n.gens[g] = "ACTIVE") = 0
      BY <1>13, Actives
    <3>4. DOMAIN p.deltas = {"clock_mapping_closures"} \cup ShockRows
      BY DEF Deltas
    <3>5. SemanticView(case, P0, n, {"clock_mapping_closures"} \cup ShockRows) = p
      BY <1>14, <1>15, <3>2, <3>3 DEF SemanticView, Deltas
    <3> QED
      BY <1>19, <2>2, <3>1, <3>4, <3>5
  <2> QED
    BY <2>1, <2>2
<1> QED
  BY <1>11, <1>12, <1>16, <1>17, <1>18, <1>19, <1>20, <1>21 DEF Honest

(* EPOCH-01 and EPOCH-02: a shock before and after it is committed. *)
LEMMA ShockHonest ==
  ASSUME NEW key \in {"EPOCH-01", "EPOCH-02"}, case = GapScenario(key), NEW d, Settled(d)
  PROVE  Honest(d)
<1>1. /\ case.key = key /\ case.family = "GAP" /\ case.setup = <<Deliver(0, 1)>> /\ case.first = <<>>
      /\ case.pre = <<>> /\ case.then = <<>>
      /\ case.operation = "EPOCH" /\ case.op = Do("SHOCK")
      /\ case.point = IF key = "EPOCH-01" THEN "BEFORE_COMMIT" ELSE "AFTER"
  BY DEF GapScenario, GapKeys
<1> DEFINE r1 == More(Chained, ShockRows)
           r2 == More(r1, {"coherence_transitions"})
           l1 == Append(<<>>, Passage("OPEN", "SHOCKED_CLOSED", 6))
           l2 == Append(l1, Passage("SHOCKED_CLOSED", "WAITING_FOR_RESNAPSHOT", 7))
           n == DB(r1, G0, T1, "SHOCKED_CLOSED", 0 + 1, l1)
           a == DB(r2, G0, T1, "WAITING_FOR_RESNAPSHOT", 0 + 1 + 1, l2)
<1>2. r1 \in Counts
  BY StoresReached, MoreCounts
<1>3. \A x \in Tables : Chained[x] \in Nat /\ r1[x] = IF x \in ShockRows THEN Chained[x] + 1 ELSE Chained[x]
  BY StoresReached, Differs
<1> HIDE DEF r1
<1>4. \A x \in Tables : r2[x] = IF x \in {"coherence_transitions"} THEN r1[x] + 1 ELSE r1[x]
  BY <1>2, Differs
<1>5. \A x \in Tables : Chained[x] <= r1[x] /\ r1[x] <= r2[x] /\ Chained[x] <= r2[x] /\ r2[x] \in Nat /\ r1[x] \in Nat
  BY <1>3, <1>4
<1> HIDE DEF r2
<1>6. l1 \in Logs
  <2>1. 6 \in Nat
    OBVIOUS
  <2> QED
    BY <2>1, FirstLog, Zenon
<1>7. Commit(A0, Do("SHOCK")) = n
  <2>1. \A v \in Nat : \A l : Commit(DB(Chained, G0, T1, "OPEN", v, l), Do("SHOCK"))
                 = DB(r1, G0, T1, "SHOCKED_CLOSED", v + 1,
                       Append(l, Passage("OPEN", "SHOCKED_CLOSED", 6)))
    BY StoresReached, DoneSequence DEF r1, ShockRows
  <2>2. 0 \in Nat
    OBVIOUS
  <2> QED
    BY <2>1, <2>2, Zenon DEF A0
<1>8. Commit(n, Do("WAITING")) = a
  <2>1. \A v \in Nat : \A l : Commit(DB(r1, G0, T1, "SHOCKED_CLOSED", v, l), Do("WAITING"))
                          = DB(r2, G0, T1, "WAITING_FOR_RESNAPSHOT", v + 1,
                               Append(l, Passage("SHOCKED_CLOSED", "WAITING_FOR_RESNAPSHOT", 7)))
    BY <1>2, DoneSequence DEF r2
  <2>2. 0 + 1 \in Nat
    OBVIOUS
  <2> QED
    BY <2>1, <2>2, Zenon
<1>9. StateEvolution(A0, A0) /\ StateEvolution(A0, n)
  <2>1. \A v \in Nat, l \in Logs : StateEvolution(DB(Chained, G0, T1, "OPEN", v, l),
              DB(r1, G0, T1, "SHOCKED_CLOSED", v + 1,
                    Append(l, Passage("OPEN", "SHOCKED_CLOSED", 6))))
    BY <1>5, StoresReached, Transits
  <2>2. 0 \in Nat
    OBVIOUS
  <2>3. StateEvolution(A0, n)
    BY <2>1, <2>2, EmptyLog, Zenon DEF A0
  <2> QED
    BY <2>3, A0Gap
<1>10. StateEvolution(n, a)
  <2>1. \A v \in Nat, l \in Logs : StateEvolution(DB(r1, G0, T1, "SHOCKED_CLOSED", v, l),
              DB(r2, G0, T1, "WAITING_FOR_RESNAPSHOT", v + 1,
                 Append(l, Passage("SHOCKED_CLOSED", "WAITING_FOR_RESNAPSHOT", 7))))
    BY <1>2, <1>5, Transits
  <2>2. 0 + 1 \in Nat
    OBVIOUS
  <2> QED
    BY <1>6, <2>1, <2>2, Zenon
<1>11. StateEvolution(A0, a)
  <2>1. \A k : GenerationsReachable(DB(Chained, G0, T1, "OPEN", 0, <<>>), DB(r2, G0, T1, "WAITING_FOR_RESNAPSHOT", 0 + 1 + 1, k))
    BY Fields, Reaches
  <2>2. \A c \in States, c2 \in States, c3 \in States, v \in Nat, i \in Nat, j \in Nat, l \in Logs :
          c # c2 /\ GenerationsReachable(DB(Chained, G0, T1, c, v, l),
             DB(r2, G0, T1, c3, v + 1 + 1,
                   Append(Append(l, Passage(c, c2, i)), Passage(c2, c3, j))))
          => StateEvolution(DB(Chained, G0, T1, c, v, l),
             DB(r2, G0, T1, c3, v + 1 + 1,
                   Append(Append(l, Passage(c, c2, i)), Passage(c2, c3, j))))
    BY <1>5, EvolvesTwice
  <2>3. /\ "OPEN" \in States /\ "SHOCKED_CLOSED" \in States /\ "WAITING_FOR_RESNAPSHOT" \in States
        /\ "OPEN" # "SHOCKED_CLOSED" /\ 0 \in Nat /\ 6 \in Nat /\ 7 \in Nat
    BY DEF States
  <2> QED
    BY <2>1, <2>2, <2>3, EmptyLog, Zenon DEF A0
<1> HIDE DEF l1, l2
<1>12. /\ n.rows = r1 /\ n.gens = G0 /\ n.ctl = "SHOCKED_CLOSED"
       /\ a.rows = r2 /\ a.gens = G0 /\ a.ctl = "WAITING_FOR_RESNAPSHOT"
  BY Fields
<1> HIDE DEF n, a
<1>13. Base = A0 /\ Old = A0 /\ New = n
  BY <1>1, <1>7, NoneDone, StoresReached, Setups DEF Base, SetUp
<1>14. Recovered(case, A0) = a /\ Recovered(case, n) = a
  BY <1>1, <1>7, <1>8, <1>12, A0Gap DEF Recovered
<1>15. Target = a
  BY <1>1, <1>13, <1>14 DEF Target
<1>16. d = IF key = "EPOCH-01" THEN A0 ELSE n
  BY <1>1, <1>13 DEF Settled
<1>17. RecoveryHolds(case, d, a)
  <2>1. \A x \in Tables : a.rows[x] >= A0.rows[x] /\ a.rows[x] >= n.rows[x]
    BY <1>3, <1>5, <1>12, A0Gap
  <2> QED
    BY <1>1, <1>12, <1>16, <2>1 DEF RecoveryHolds
<1>18. \E p \in GapExpected(case) : SemanticView(case, A0, d, DOMAIN p.deltas) = p
  <2>0. /\ ShockRows \subseteq Tables
        /\ \A x \in ShockRows : n.rows[x] - A0.rows[x] = 1 /\ A0.rows[x] - A0.rows[x] = 0
    <3>1. ShockRows \subseteq Tables
      BY DEF ShockRows, Tables, GAP_INSERTS
    <3> QED
      BY <1>3, <1>12, <3>1, A0Gap
  <2>1. CASE key = "EPOCH-01"
    <3> DEFINE p == [deltas |-> Deltas({}, ShockRows), coherence |-> "OPEN_BUT_SHOCK_REDETECTION_REQUIRED", active |-> 0]
    <3>1. p \in GapExpected(case)
      BY <1>1, <2>1 DEF GapExpected, GapKeys, ShockRows
    <3>2. Coherence(case, A0) = "OPEN_BUT_SHOCK_REDETECTION_REQUIRED"
      BY <1>1, A0Gap DEF Coherence
    <3>3. (CHOOSE g \in 0..2 : A0.gens[g] = "ACTIVE") = 0
      BY A0Gap, Actives
    <3>4. DOMAIN p.deltas = {} \cup ShockRows
      BY DEF Deltas
    <3>5. SemanticView(case, A0, A0, {} \cup ShockRows) = p
      BY <2>0, <3>2, <3>3 DEF SemanticView, Deltas
    <3> QED
      BY <1>16, <2>1, <3>1, <3>4, <3>5
  <2>2. CASE key = "EPOCH-02"
    <3> DEFINE p == [deltas |-> Deltas(ShockRows, {}), coherence |-> "SHOCKED_CLOSED", active |-> 0]
    <3>1. p \in GapExpected(case)
      BY <1>1, <2>2 DEF GapExpected, GapKeys, ShockRows
    <3>2. Coherence(case, n) = "SHOCKED_CLOSED"
      BY <1>1, <1>12 DEF Coherence
    <3>3. (CHOOSE g \in 0..2 : n.gens[g] = "ACTIVE") = 0
      BY <1>12, Actives
    <3>4. DOMAIN p.deltas = ShockRows \cup {}
      BY DEF Deltas
    <3>5. SemanticView(case, A0, n, ShockRows \cup {}) = p
      BY <2>0, <3>2, <3>3 DEF SemanticView, Deltas
    <3> QED
      BY <1>16, <2>2, <3>1, <3>4, <3>5
  <2> QED
    BY <2>1, <2>2
<1> QED
  BY <1>9, <1>10, <1>11, <1>13, <1>14, <1>15, <1>16, <1>17, <1>18 DEF Honest

ProofRows == {"authoritative_resnapshot_proofs", "input_freshness_vectors", "coherence_epochs",
          "coherence_transitions"}

(* EPOCH-03: the proof of a new epoch is not committed. *)
LEMMA PendingHonest ==
  ASSUME case = GapScenario("EPOCH-03"), NEW d, Settled(d)
  PROVE  Honest(d)
<1>1. /\ case.key = "EPOCH-03" /\ case.family = "GAP" /\ case.setup = <<Deliver(0, 1)>>
      /\ case.first = <<Do("SHOCK"), Do("SEED"), Do("WAITING")>> /\ case.pre = <<>> /\ case.then = <<>>
      /\ case.operation = "EPOCH" /\ case.op = Do("PENDING") /\ case.point = "BEFORE_COMMIT"
  BY DEF GapScenario, GapKeys
<1>2. PICK r \in Counts, v \in Nat, l \in Logs :
        CommitAll(A0, <<Do("SHOCK"), Do("SEED"), Do("WAITING")>>)
          = DB(r, G0, T1, "WAITING_FOR_RESNAPSHOT", v, l)
  BY Waited
<1> DEFINE b == DB(r, G0, T1, "WAITING_FOR_RESNAPSHOT", v, l)
           r2 == Pended(r)
           l2 == Append(l, Passage("WAITING_FOR_RESNAPSHOT", "NEW_EPOCH_PENDING", 8))
           a == DB(r2, G0, T1, "NEW_EPOCH_PENDING", v + 1, l2)
<1>3. Commit(b, Do("PENDING")) = a
  BY DoneLong
<1>4. l2 \in Logs
  BY LogGrows DEF States
<1>5. /\ r2 \in Counts
      /\ \A x \in Tables : r[x] <= r2[x] /\ r[x] \in Nat /\ r2[x] \in Nat
  BY RowsKept DEF Counts
<1> HIDE DEF r2
<1>6. StateEvolution(b, a)
  BY <1>5, Transits
<1>6a. StateEvolution(b, b)
  BY StandsStill
<1>7. StateEvolution(a, a)
  <2>1. v + 1 \in Nat
    OBVIOUS
  <2> HIDE DEF l2
  <2> QED
    BY <1>4, <1>5, <2>1, StandsStill
<1>8. b.rows = r /\ b.gens = G0 /\ b.ctl = "WAITING_FOR_RESNAPSHOT" /\ a.rows = r2 /\ a.gens = G0 /\ a.ctl = "NEW_EPOCH_PENDING"
  BY Fields
<1> HIDE DEF b, a, l2
<1>9. Base = b /\ Old = b /\ New = a
  BY <1>1, <1>2, <1>3, NoneDone, StoresReached, Setups DEF Base, SetUp, b
<1>10. Recovered(case, a) = a /\ Recovered(case, b) = a
  BY <1>1, <1>3, <1>8 DEF Recovered
<1>11. Target = a
  BY <1>1, <1>9, <1>10 DEF Target
<1>12. d \in {b, a} /\ (case.point = "BEFORE_COMMIT" => d = b) /\ (case.point = "AFTER" => d = a)
  BY <1>9 DEF Settled
<1>13. RecoveryHolds(case, d, a)
  <2>1. \A x \in Tables : a.rows[x] >= b.rows[x] /\ a.rows[x] >= a.rows[x]
    BY <1>5, <1>8
  <2> QED
    BY <1>1, <1>8, <1>12, <2>1 DEF RecoveryHolds
<1>14. \E p \in GapExpected(case) : SemanticView(case, b, d, DOMAIN p.deltas) = p
  <2>1. CASE d = b
    <3> DEFINE p == [deltas |-> Deltas({}, ProofRows), coherence |-> "WAITING_FOR_RESNAPSHOT", active |-> 0]
    <3>1. p \in GapExpected(case)
      BY <1>1 DEF GapExpected, GapKeys, ShockRows, ProofRows
    <3>2. Coherence(case, b) = "WAITING_FOR_RESNAPSHOT"
      BY <1>1, <1>8 DEF Coherence
    <3>3. (CHOOSE g \in 0..2 : b.gens[g] = "ACTIVE") = 0
      BY <1>8, Actives
    <3>4. DOMAIN p.deltas = {} \cup ProofRows
      BY DEF Deltas
    <3>5. SemanticView(case, b, b, {} \cup ProofRows) = p
      <4>1. \A x \in ProofRows : b.rows[x] - b.rows[x] = 0
        <5>1. ProofRows \subseteq Tables
          BY DEF Tables, GAP_INSERTS, PROOFS, ShockRows, ProofRows
        <5> QED
          BY <1>5, <1>8, <5>1 DEF ShockRows
      <4> QED
        BY <3>2, <3>3, <4>1 DEF SemanticView, Deltas
    <3> QED
      BY <2>1, <3>1, <3>4, <3>5
  <2> QED
    BY <1>1, <1>12, <2>1
<1> QED
  BY <1>6, <1>6a, <1>7, <1>9, <1>10, <1>11, <1>12, <1>13, <1>14, <1>1 DEF Honest

(* EPOCH-04: inside the commit that opens the new epoch. *)
LEMMA ReleaseHonest ==
  ASSUME case = GapScenario("EPOCH-04"), NEW d, Settled(d)
  PROVE  Honest(d)
<1>1. /\ case.key = "EPOCH-04" /\ case.family = "GAP" /\ case.setup = <<Deliver(0, 1)>>
      /\ case.first = <<Do("SHOCK"), Do("SEED"), Do("WAITING"), Do("PENDING")>> /\ case.pre = <<>> /\ case.then = <<>>
      /\ case.operation = "EPOCH" /\ case.op = Do("RELEASE") /\ case.point = "COMMIT"
  BY DEF GapScenario, GapKeys
<1>2. PICK r \in Counts, v \in Nat, l \in Logs :
        CommitAll(A0, <<Do("SHOCK"), Do("SEED"), Do("WAITING"), Do("PENDING")>>)
          = DB(r, G0, T1, "NEW_EPOCH_PENDING", v, l)
  BY Awaited
<1> DEFINE b == DB(r, G0, T1, "NEW_EPOCH_PENDING", v, l)
           r2 == More(r, {"coherence_transitions"})
           l2 == Append(l, Passage("NEW_EPOCH_PENDING", "NEW_EPOCH_OPEN", 9))
           a == DB(r2, G0, T1, "NEW_EPOCH_OPEN", v + 1, l2)
<1>3. Commit(b, Do("RELEASE")) = a
  BY DoneSequence
<1>4. l2 \in Logs
  BY LogGrows DEF States
<1>5. /\ r2 \in Counts
      /\ \A x \in Tables : r[x] <= r2[x] /\ r[x] \in Nat /\ r2[x] \in Nat /\ (x \in {"coherence_transitions"} => r2[x] = r[x] + 1)
  <2>1. r2 \in Counts
    BY MoreCounts
  <2>2. \A S : \A x \in Tables : r[x] <= More(r, S)[x] /\ r[x] \in Nat /\ More(r, S)[x] \in Nat /\ (x \in S => More(r, S)[x] = r[x] + 1)
    BY Differs
  <2>3. \A x \in Tables : r[x] <= r2[x] /\ r[x] \in Nat /\ r2[x] \in Nat /\ (x \in {"coherence_transitions"} => r2[x] = r[x] + 1)
    BY <2>2, Zenon
  <2> QED
    BY <2>1, <2>3
<1> HIDE DEF r2
<1>6. StateEvolution(b, a)
  BY <1>5, Transits
<1>6a. StateEvolution(b, b)
  BY StandsStill
<1>7. StateEvolution(a, a)
  <2>1. v + 1 \in Nat
    OBVIOUS
  <2> HIDE DEF l2
  <2> QED
    BY <1>4, <1>5, <2>1, StandsStill
<1>8. b.rows = r /\ b.gens = G0 /\ b.ctl = "NEW_EPOCH_PENDING" /\ a.rows = r2 /\ a.gens = G0 /\ a.ctl = "NEW_EPOCH_OPEN"
  BY Fields
<1> HIDE DEF b, a, l2
<1>9. Base = b /\ Old = b /\ New = a
  BY <1>1, <1>2, <1>3, NoneDone, StoresReached, Setups DEF Base, SetUp, b
<1>10. Recovered(case, a) = a /\ Recovered(case, b) = a
  BY <1>1, <1>3, <1>8 DEF Recovered
<1>11. Target = a
  BY <1>1, <1>9, <1>10 DEF Target
<1>12. d \in {b, a} /\ (case.point = "BEFORE_COMMIT" => d = b) /\ (case.point = "AFTER" => d = a)
  BY <1>9 DEF Settled
<1>13. RecoveryHolds(case, d, a)
  <2>1. \A x \in Tables : a.rows[x] >= b.rows[x] /\ a.rows[x] >= a.rows[x]
    BY <1>5, <1>8
  <2> QED
    BY <1>1, <1>8, <1>12, <2>1 DEF RecoveryHolds
<1>14. \E p \in GapExpected(case) : SemanticView(case, b, d, DOMAIN p.deltas) = p
  <2>1. CASE d = b
    <3> DEFINE p == [deltas |-> Deltas({}, {"coherence_transitions"}), coherence |-> "NEW_EPOCH_PENDING", active |-> 0]
    <3>1. p \in GapExpected(case)
      BY <1>1 DEF GapExpected, GapKeys, ShockRows, ProofRows
    <3>2. Coherence(case, b) = "NEW_EPOCH_PENDING"
      BY <1>1, <1>8 DEF Coherence
    <3>3. (CHOOSE g \in 0..2 : b.gens[g] = "ACTIVE") = 0
      BY <1>8, Actives
    <3>4. DOMAIN p.deltas = {} \cup {"coherence_transitions"}
      BY DEF Deltas
    <3>5. SemanticView(case, b, b, {} \cup {"coherence_transitions"}) = p
      <4>1. \A x \in {"coherence_transitions"} : b.rows[x] - b.rows[x] = 0
        <5>1. {"coherence_transitions"} \subseteq Tables
          BY DEF Tables, GAP_INSERTS, PROOFS, ShockRows, ProofRows
        <5> QED
          BY <1>5, <1>8, <5>1 DEF ShockRows
      <4> QED
        BY <3>2, <3>3, <4>1 DEF SemanticView, Deltas
    <3> QED
      BY <2>1, <3>1, <3>4, <3>5
  <2>2. CASE d = a
    <3> DEFINE p == [deltas |-> Deltas({"coherence_transitions"}, {}), coherence |-> "NEW_EPOCH_OPEN", active |-> 0]
    <3>1. p \in GapExpected(case)
      BY <1>1 DEF GapExpected, GapKeys, ShockRows, ProofRows
    <3>2. Coherence(case, a) = "NEW_EPOCH_OPEN"
      BY <1>1, <1>8 DEF Coherence
    <3>3. (CHOOSE g \in 0..2 : a.gens[g] = "ACTIVE") = 0
      BY <1>8, Actives
    <3>4. DOMAIN p.deltas = {"coherence_transitions"} \cup {}
      BY DEF Deltas
    <3>5. SemanticView(case, b, a, {"coherence_transitions"} \cup {}) = p
      <4>1. \A x \in {"coherence_transitions"} : a.rows[x] - b.rows[x] = 1
        <5>1. {"coherence_transitions"} \subseteq Tables
          BY DEF Tables, GAP_INSERTS, PROOFS, ShockRows, ProofRows
        <5> QED
          BY <1>5, <1>8, <5>1 DEF ShockRows
      <4> QED
        BY <3>2, <3>3, <4>1 DEF SemanticView, Deltas
    <3> QED
      BY <2>2, <3>1, <3>4, <3>5
  <2> QED
    BY <1>1, <1>12, <2>1, <2>2
<1> QED
  BY <1>6, <1>6a, <1>7, <1>9, <1>10, <1>11, <1>12, <1>13, <1>14, <1>1 DEF Honest

(* EPOCH-05: a further shock while the new epoch is pending. *)
LEMMA NewShockHonest ==
  ASSUME case = GapScenario("EPOCH-05"), NEW d, Settled(d)
  PROVE  Honest(d)
<1>1. /\ case.key = "EPOCH-05" /\ case.family = "GAP" /\ case.setup = <<Deliver(0, 1)>>
      /\ case.first = <<Do("SHOCK"), Do("SEED"), Do("WAITING"), Do("PENDING")>> /\ case.pre = <<>> /\ case.then = <<>>
      /\ case.operation = "EPOCH" /\ case.op = Do("NEW_SHOCK") /\ case.point = "AFTER"
  BY DEF GapScenario, GapKeys
<1>2. PICK r \in Counts, v \in Nat, l \in Logs :
        CommitAll(A0, <<Do("SHOCK"), Do("SEED"), Do("WAITING"), Do("PENDING")>>)
          = DB(r, G0, T1, "NEW_EPOCH_PENDING", v, l)
  BY Awaited
<1> DEFINE b == DB(r, G0, T1, "NEW_EPOCH_PENDING", v, l)
           r2 == More(r, {"shock_observations", "coherence_epochs", "coherence_transitions"})
           l2 == Append(l, Passage("NEW_EPOCH_PENDING", "WAITING_FOR_RESNAPSHOT", 10))
           a == DB(r2, G0, T1, "WAITING_FOR_RESNAPSHOT", v + 1, l2)
<1>3. Commit(b, Do("NEW_SHOCK")) = a
  BY DoneLong
<1>4. l2 \in Logs
  BY LogGrows DEF States
<1>5. /\ r2 \in Counts
      /\ \A x \in Tables : r[x] <= r2[x] /\ r[x] \in Nat /\ r2[x] \in Nat /\ (x \in {"shock_observations", "coherence_epochs", "coherence_transitions"} => r2[x] = r[x] + 1)
  <2>1. r2 \in Counts
    BY MoreCounts
  <2>2. \A S : \A x \in Tables : r[x] <= More(r, S)[x] /\ r[x] \in Nat /\ More(r, S)[x] \in Nat /\ (x \in S => More(r, S)[x] = r[x] + 1)
    BY Differs
  <2>3. \A x \in Tables : r[x] <= r2[x] /\ r[x] \in Nat /\ r2[x] \in Nat /\ (x \in {"shock_observations", "coherence_epochs", "coherence_transitions"} => r2[x] = r[x] + 1)
    BY <2>2, Zenon
  <2> QED
    BY <2>1, <2>3
<1> HIDE DEF r2
<1>6. StateEvolution(b, a)
  BY <1>5, Transits
<1>6a. StateEvolution(b, b)
  BY StandsStill
<1>7. StateEvolution(a, a)
  <2>1. v + 1 \in Nat
    OBVIOUS
  <2> HIDE DEF l2
  <2> QED
    BY <1>4, <1>5, <2>1, StandsStill
<1>8. b.rows = r /\ b.gens = G0 /\ b.ctl = "NEW_EPOCH_PENDING" /\ a.rows = r2 /\ a.gens = G0 /\ a.ctl = "WAITING_FOR_RESNAPSHOT"
  BY Fields
<1> HIDE DEF b, a, l2
<1>9. Base = b /\ Old = b /\ New = a
  BY <1>1, <1>2, <1>3, NoneDone, StoresReached, Setups DEF Base, SetUp, b
<1>10. Recovered(case, a) = a /\ Recovered(case, b) = Recovered(case, b)
  BY <1>1, <1>3, <1>8 DEF Recovered
<1>11. Target = a
  BY <1>1, <1>9, <1>10 DEF Target
<1>12. d \in {b, a} /\ (case.point = "BEFORE_COMMIT" => d = b) /\ (case.point = "AFTER" => d = a)
  BY <1>9 DEF Settled
<1>13. RecoveryHolds(case, d, a)
  <2>1. \A x \in Tables : a.rows[x] >= b.rows[x] /\ a.rows[x] >= a.rows[x]
    BY <1>5, <1>8
  <2> QED
    BY <1>1, <1>8, <1>12, <2>1 DEF RecoveryHolds
<1>14. \E p \in GapExpected(case) : SemanticView(case, b, d, DOMAIN p.deltas) = p
  <2>1. CASE d = a
    <3> DEFINE p == [deltas |-> Deltas((ShockRows \cup {"coherence_epochs"}), {}), coherence |-> "WAITING_FOR_RESNAPSHOT", active |-> 0]
    <3>1. p \in GapExpected(case)
      BY <1>1 DEF GapExpected, GapKeys, ShockRows, ProofRows
    <3>2. Coherence(case, a) = "WAITING_FOR_RESNAPSHOT"
      BY <1>1, <1>8 DEF Coherence
    <3>3. (CHOOSE g \in 0..2 : a.gens[g] = "ACTIVE") = 0
      BY <1>8, Actives
    <3>4. DOMAIN p.deltas = (ShockRows \cup {"coherence_epochs"}) \cup {}
      BY DEF Deltas
    <3>5. SemanticView(case, b, a, (ShockRows \cup {"coherence_epochs"}) \cup {}) = p
      <4>1. \A x \in (ShockRows \cup {"coherence_epochs"}) : a.rows[x] - b.rows[x] = 1
        <5>1. (ShockRows \cup {"coherence_epochs"}) \subseteq Tables
          BY DEF Tables, GAP_INSERTS, PROOFS, ShockRows, ProofRows
        <5> QED
          BY <1>5, <1>8, <5>1 DEF ShockRows
      <4> QED
        BY <3>2, <3>3, <4>1 DEF SemanticView, Deltas
    <3> QED
      BY <2>1, <3>1, <3>4, <3>5
  <2> QED
    BY <1>1, <1>12, <2>1
<1> QED
  BY <1>6, <1>6a, <1>7, <1>9, <1>10, <1>11, <1>12, <1>13, <1>14, <1>1 DEF Honest

LEMMA GapFamily ==
  ASSUME CaseKnown, case.family = "GAP", NEW d, Settled(d)
  PROVE  Honest(d)
<1>1. PICK key \in CoherenceKeys : case = GapScenario(key)
  BY DEF CaseKnown, BackendScenario
<1>2. key \in GapKeys \cup {"GAP-09", "GAP-10", "GAP-11", "CONFLICT-01", "LATE-01", "CAPACITY-01", "CLOCK-01",
                            "CLOCK-02", "EPOCH-01", "EPOCH-02", "EPOCH-03", "EPOCH-04", "EPOCH-05"}
  BY DEF CoherenceKeys
<1>3. CASE key \in GapKeys \cup {"GAP-09", "GAP-10", "CAPACITY-01"}
  BY <1>1, <1>3, GapsHonest
<1>4. CASE key \in {"CLOCK-01", "CLOCK-02"}
  BY <1>1, <1>4, ClockHonest
<1>5. CASE key \in {"EPOCH-01", "EPOCH-02"}
  BY <1>1, <1>5, ShockHonest
<1> QED
  BY <1>1, <1>2, <1>3, <1>4, <1>5, NextGapHonest, ConflictHonest, LateHonest, PendingHonest,
     ReleaseHonest,
     NewShockHonest

-----------------------------------------------------------------------------
(* The backend cases. *)
LEMMA Oracles ==
  /\ Snapshot(P0) = Oracle(FALSE, FALSE) /\ Snapshot(A0) = Oracle(TRUE, FALSE)
  /\ Snapshot(B0) = Oracle(TRUE, TRUE)
<1>1. \A g \in {0, 1, 2} : /\ G0[g] = <<"ACTIVE", None, None>>[g + 1]
                          /\ G1[g] = <<"QUARANTINED_GAP", "ACTIVE", None>>[g + 1]
  BY Generations
<1>2. /\ G0 = [g \in 0..2 |-> <<"ACTIVE", None, None>>[g + 1]]
      /\ G1 = [g \in 0..2 |-> <<"QUARANTINED_GAP", "ACTIVE", None>>[g + 1]]
  <2>1. G0 = [g \in 0..2 |-> G0[g]] /\ G1 = [g \in 0..2 |-> G1[g]]
    BY DEF G0, G1
  <2>2. 0..2 = {0, 1, 2}
    OBVIOUS
  <2> QED
    BY <1>1, <2>1, <2>2
<1>3. \A x \in Tables : Zero[x] = IF x = "stream_generations" THEN 1 ELSE IF x = "coherence_epochs" THEN 1 ELSE 0
  BY DEF Zero, Provisioned
<1>4. \A x \in Tables : Chained[x] = IF x \in CHAIN THEN 1
                                    ELSE IF x = "stream_generations" THEN 1 ELSE IF x = "coherence_epochs" THEN 1 ELSE 0
  BY <1>3 DEF Chained, More, CHAIN
<1>5. \A x \in Tables : Gapped[x] = IF x \in CHAIN THEN 1
                                    ELSE IF x = "stream_generations" THEN 2 ELSE IF x = "coherence_epochs" THEN 1
                                    ELSE IF x \in GAP_INSERTS THEN 1 ELSE 0
  BY <1>4 DEF Gapped, More, CHAIN, GAP_INSERTS
<1>6. /\ Zero = [x \in Tables |-> IF x = "stream_generations" THEN 1 ELSE IF x = "coherence_epochs" THEN 1 ELSE 0]
      /\ Chained = [x \in Tables |-> IF x \in CHAIN THEN 1
                                    ELSE IF x = "stream_generations" THEN 1 ELSE IF x = "coherence_epochs" THEN 1 ELSE 0]
      /\ Gapped = [x \in Tables |-> IF x \in CHAIN THEN 1
                                    ELSE IF x = "stream_generations" THEN 2 ELSE IF x = "coherence_epochs" THEN 1
                                    ELSE IF x \in GAP_INSERTS THEN 1 ELSE 0]
  <2>1. Zero = [x \in Tables |-> Zero[x]] /\ Chained = [x \in Tables |-> Chained[x]] /\ Gapped = [x \in Tables |-> Gapped[x]]
    BY ProvisionedIs, StoresReached DEF Counts
  <2> QED
    BY <1>3, <1>4, <1>5, <2>1
<1>7. /\ Snapshot(P0) = [rows |-> Zero, gens |-> G0, ctl |-> "OPEN", rev |-> 0]
      /\ Snapshot(A0) = [rows |-> Chained, gens |-> G0, ctl |-> "OPEN", rev |-> 0]
      /\ Snapshot(B0) = [rows |-> Gapped, gens |-> G1, ctl |-> "SHOCKED_CLOSED", rev |-> 1]
  BY DEF Snapshot, P0, A0, B0, DB
<1>8. /\ Oracle(FALSE, FALSE) = [rows |-> Zero, gens |-> G0, ctl |-> "OPEN", rev |-> 0]
      /\ Oracle(TRUE, FALSE) = [rows |-> Chained, gens |-> G0, ctl |-> "OPEN", rev |-> 0]
      /\ Oracle(TRUE, TRUE) = [rows |-> Gapped, gens |-> G1, ctl |-> "SHOCKED_CLOSED", rev |-> 1]
  <2>1. Oracle(FALSE, FALSE) = [rows |-> Zero, gens |-> G0, ctl |-> "OPEN", rev |-> 0]
    BY <1>2, <1>6 DEF Oracle
  <2>2. Oracle(TRUE, FALSE) = [rows |-> Chained, gens |-> G0, ctl |-> "OPEN", rev |-> 0]
    BY <1>2, <1>6 DEF Oracle
  <2>3. Oracle(TRUE, TRUE) = [rows |-> Gapped, gens |-> G1, ctl |-> "SHOCKED_CLOSED", rev |-> 1]
    BY <1>2, <1>6 DEF Oracle
  <2> QED
    BY <2>1, <2>2, <2>3
<1> QED
  BY <1>7, <1>8

LEMMA StoreAnswers ==
  /\ Answer(P0, Deliver(0, 1)) = "ACK" /\ Transaction(P0, Deliver(0, 1)) = ChainTx(0)
  /\ Answer(A0, Deliver(0, 1)) = "ACK" /\ Commit(A0, Deliver(0, 1)) = A0
  /\ Answer(A0, Deliver(0, 3)) = "E_INGEST_GAP" /\ Transaction(A0, Deliver(0, 3)) = GapTx(A0, 0, "QUARANTINED_GAP")
  /\ \A n : Answer(B0, Deliver(0, n)) = "E_INGEST_GENERATION_CLOSED" /\ Commit(B0, Deliver(0, n)) = B0
<1>1. /\ Answer(P0, Deliver(0, 1)) = "ACK" /\ Transaction(P0, Deliver(0, 1)) = ChainTx(0)
  BY ProvisionedIs, Delivered DEF P0
<1>2. Answer(A0, Deliver(0, 1)) = "ACK" /\ Commit(A0, Deliver(0, 1)) = A0
  BY StoresReached, Repeated DEF A0
<1>3. Answer(A0, Deliver(0, 3)) = "E_INGEST_GAP" /\ Transaction(A0, Deliver(0, 3)) = GapTx(A0, 0, "QUARANTINED_GAP")
  BY StoresReached, DeliveredGap DEF A0
<1>4. \A n : Answer(B0, Deliver(0, n)) = "E_INGEST_GENERATION_CLOSED" /\ Commit(B0, Deliver(0, n)) = B0
  <2>1. \A v \in Nat : \A n, l : /\ Answer(DB(Gapped, G1, T1, "SHOCKED_CLOSED", v, l), Deliver(0, n)) = "E_INGEST_GENERATION_CLOSED"
                                /\ Commit(DB(Gapped, G1, T1, "SHOCKED_CLOSED", v, l), Deliver(0, n))
                                     = DB(Gapped, G1, T1, "SHOCKED_CLOSED", v, l)
    BY StoresReached, DeliveredLate
  <2>2. 0 + 1 \in Nat
    OBVIOUS
  <2> QED
    BY <2>1, <2>2, Zenon DEF B0
<1> QED
  BY <1>1, <1>2, <1>3, <1>4

(* The stores of a backend case and its delivery. *)
LEMMA BackendStores ==
  ASSUME NEW key \in BackendKeys, case = BackendScenario(key)
  PROVE  /\ case.key = key /\ case.family = "BACKEND" /\ Base = Old /\ case.kill = TRUE
         /\ key \in {"SEND-01", "SQL-06", "SQL-07"} \cup SqlKeys => Old = P0 /\ New = A0 /\ case.op = Deliver(0, 1)
         /\ key = "ACK-06" => Old = A0 /\ New = A0 /\ case.op = Deliver(0, 1)
         /\ key \in GapKeys \cup {"GAP-10"} => Old = A0 /\ New = B0 /\ case.op = Deliver(0, 3)
         /\ key = "LATE-01" => Old = B0 /\ New = B0 /\ case.op = Deliver(0, 2)
         /\ case.point = CASE key \in SqlKeys \cup GapKeys -> "STATEMENT"
                           [] key = "SEND-01"              -> "BEGIN"
                           [] key = "SQL-06"               -> "COMMIT"
                           [] OTHER                        -> "AFTER"
<1>1. /\ case.key = key /\ case.family = "BACKEND" /\ case.kill = TRUE
      /\ case.first = <<>> /\ case.pre = <<>> /\ case.then = <<>>
  BY DEF BackendScenario
<1>2. case.point = CASE key \in SqlKeys \cup GapKeys -> "STATEMENT"
                     [] key = "SEND-01"              -> "BEGIN"
                     [] key = "SQL-06"               -> "COMMIT"
                     [] OTHER                        -> "AFTER"
  BY DEF BackendScenario
<1>3. Base = CommitAll(P0, case.setup) /\ Old = Base /\ New = Commit(Old, case.op)
  BY <1>1, NoneDone, StoresReached, Setups DEF Base, SetUp
<1>4. CASE key \in {"SEND-01", "SQL-06", "SQL-07"} \cup SqlKeys
  <2>1. case.setup = <<>> /\ case.op = Deliver(0, 1)
    BY <1>4 DEF BackendScenario, GapKeys, SqlKeys
  <2>2. key \notin GapKeys \cup {"GAP-10", "LATE-01", "ACK-06"}
    BY <1>4 DEF GapKeys, SqlKeys
  <2> QED
    BY <1>1, <1>2, <1>3, <2>1, <2>2, NoneDone, StoresReached
<1>5. CASE key = "ACK-06"
  <2>1. case.setup = <<Deliver(0, 1)>> /\ case.op = Deliver(0, 1)
    BY <1>5 DEF BackendScenario, GapKeys, SqlKeys
  <2>2. key \notin GapKeys \cup {"SEND-01", "SQL-06", "SQL-07"} \cup SqlKeys
    BY <1>5 DEF GapKeys, SqlKeys
  <2> QED
    BY <1>1, <1>2, <1>3, <1>5, <2>1, <2>2, StoreAnswers, StoresReached
<1>6. CASE key \in GapKeys \cup {"GAP-10"}
  <2>1. case.setup = <<Deliver(0, 1)>> /\ case.op = Deliver(0, 3)
    BY <1>6 DEF BackendScenario, GapKeys, SqlKeys
  <2>2. key \notin {"SEND-01", "SQL-06", "SQL-07", "ACK-06", "LATE-01"} \cup SqlKeys
    BY <1>6 DEF GapKeys, SqlKeys
  <2> QED
    BY <1>1, <1>2, <1>3, <2>1, <2>2, StoresReached
<1>7. CASE key = "LATE-01"
  <2>1. case.setup = <<Deliver(0, 1), Deliver(0, 3)>> /\ case.op = Deliver(0, 2)
    BY <1>7 DEF BackendScenario, GapKeys, SqlKeys
  <2>2. key \notin GapKeys \cup {"SEND-01", "SQL-06", "SQL-07"} \cup SqlKeys
    BY <1>7 DEF GapKeys, SqlKeys
  <2> QED
    BY <1>1, <1>2, <1>3, <1>7, <2>1, <2>2, StoreAnswers, StoresReached
<1> QED
  BY <1>4, <1>5, <1>6, <1>7 DEF BackendKeys

(* Whatever the reader finds, the repeated delivery makes New of it, and   *)
(* the oracle of the case agrees.                                          *)
LEMMA BackendFamily ==
  ASSUME CaseKnown, case.family = "BACKEND", NEW d, Settled(d)
  PROVE  /\ Commit(d, case.op) = New
         /\ [before |-> Snapshot(d), after |-> Snapshot(New), replay |-> Answer(d, case.op)] \in BackendExpected(case)
<1>1. PICK key \in BackendKeys : case = BackendScenario(key)
  BY DEF CaseKnown, GapScenario
<1>1a. case.key = key
  BY <1>1, BackendStores
<1>2. CASE key \in {"SEND-01", "SQL-06", "SQL-07"} \cup SqlKeys
  <2>1. Old = P0 /\ New = A0 /\ case.op = Deliver(0, 1)
    BY <1>1, <1>2, BackendStores
  <2>2. /\ key \in {"SEND-01"} \cup SqlKeys => case.point \in {"BEGIN", "STATEMENT"}
        /\ key = "SQL-07" => case.point = "AFTER"
    BY <1>1, <1>2, BackendStores DEF SqlKeys, GapKeys
  <2>3. d \in {P0, A0} /\ (key \in {"SEND-01"} \cup SqlKeys => d = P0) /\ (key = "SQL-07" => d = A0)
    BY <2>1, <2>2 DEF Settled
  <2>4. key \notin GapKeys \cup {"GAP-10", "LATE-01", "ACK-06"}
    BY <1>2 DEF GapKeys, SqlKeys
  <2>5. Commit(d, case.op) = A0 /\ Answer(d, case.op) = "ACK"
    BY <2>1, <2>3, StoreAnswers, StoresReached
  <2>6. CASE key \in {"SEND-01"} \cup SqlKeys
    <3>1. key \notin {"SQL-06", "SQL-07"}
      BY <2>6 DEF SqlKeys
    <3> QED
      BY <1>1a, <2>1, <2>3, <2>4, <2>5, <2>6, <3>1, Oracles DEF BackendExpected
  <2>7. CASE key = "SQL-07"
    BY <1>1a, <2>1, <2>3, <2>4, <2>5, <2>7, Oracles DEF BackendExpected
  <2>8. CASE key = "SQL-06"
    BY <1>1a, <2>1, <2>3, <2>4, <2>5, <2>8, Oracles DEF BackendExpected
  <2> QED
    BY <1>2, <2>6, <2>7, <2>8
<1>3. CASE key = "ACK-06"
  <2>1. Old = A0 /\ New = A0 /\ case.op = Deliver(0, 1) /\ d = A0
    BY <1>1, <1>3, BackendStores DEF Settled
  <2>2. key \notin GapKeys
    BY <1>3 DEF GapKeys
  <2> QED
    BY <1>1a, <1>3, <2>1, <2>2, StoreAnswers, Oracles DEF BackendExpected
<1>4. CASE key \in GapKeys
  <2>1. Old = A0 /\ New = B0 /\ case.op = Deliver(0, 3) /\ case.point = "STATEMENT"
    BY <1>1, <1>4, BackendStores DEF SqlKeys, GapKeys
  <2>2. d = A0
    BY <2>1 DEF Settled
  <2>3. key \notin {"GAP-10", "LATE-01", "ACK-06", "SQL-06", "SQL-07"}
    BY <1>4 DEF GapKeys
  <2> QED
    BY <1>1a, <1>4, <2>1, <2>2, <2>3, StoresReached, StoreAnswers, Oracles DEF BackendExpected
<1>5. CASE key = "GAP-10"
  <2>1. Old = A0 /\ New = B0 /\ case.op = Deliver(0, 3)
    BY <1>1, <1>5, BackendStores
  <2>2. case.point = "AFTER"
    BY <1>1, <1>5, BackendStores DEF SqlKeys, GapKeys
  <2>3. d = B0
    BY <2>1, <2>2 DEF Settled
  <2> QED
    BY <1>1a, <1>5, <2>1, <2>3, StoresReached, StoreAnswers, Oracles DEF BackendExpected
<1>6. CASE key = "LATE-01"
  <2>1. Old = B0 /\ New = B0 /\ case.op = Deliver(0, 2) /\ d = B0
    BY <1>1, <1>6, BackendStores DEF Settled
  <2>2. key \notin GapKeys
    BY <1>6 DEF GapKeys
  <2> QED
    BY <1>1a, <1>6, <2>1, <2>2, StoreAnswers, Oracles DEF BackendExpected
<1> QED
  BY <1>2, <1>3, <1>4, <1>5, <1>6 DEF BackendKeys

LEMMA Converges ==
  ASSUME CaseKnown, NEW d, Settled(d)
  PROVE  /\ case.family = "BACKEND" => Commit(d, case.op) = New
         /\ case.family = "GAP" => Recovered(case, d) = Recovered(case, New)
BY GapFamily, BackendFamily DEF Honest, Target

-----------------------------------------------------------------------------
(* Where the children of the matrix stop in their transactions, and what   *)
(* they have written there.                                                *)
LEMMA ChainBoundary ==
  ASSUME NEW n \in 1..5
  PROVE  ChainWritten(RunTo(P0, ChainTx(0), n), n)
<1> DEFINE r1 == More(Zero, {"raw_commits"})
           r2 == More(r1, {"application_records"})
           r3 == More(r2, {"derived_revisions"})
           r4 == More(r3, {"reducer_cursors"})
           r5 == More(r4, {"ack_outbox"})
<1>1. Zero \in Counts /\ 0 \in Nat
  BY ProvisionedIs
<1>2. \A x \in CHAIN : Zero[x] = 0
  BY DEF Zero, Provisioned, Tables, CHAIN, GAP_INSERTS, PROOFS
<1>3. /\ RunTo(P0, ChainTx(0), 1) = DB(r1, G0, Bump(T0, 0), "OPEN", 0, <<>>)
      /\ RunTo(P0, ChainTx(0), 2) = DB(r2, G0, Bump(T0, 0), "OPEN", 0, <<>>)
      /\ RunTo(P0, ChainTx(0), 3) = DB(r3, G0, Bump(T0, 0), "OPEN", 0, <<>>)
      /\ RunTo(P0, ChainTx(0), 4) = DB(r4, G0, Bump(T0, 0), "OPEN", 0, <<>>)
      /\ RunTo(P0, ChainTx(0), 5) = DB(r5, G0, Bump(T0, 0), "OPEN", 0, <<>>)
  BY <1>1, ChainSteps DEF P0
<1>4. CHAIN \subseteq Tables
  BY DEF Tables
<1>5. /\ r1["raw_commits"] = 1
       /\ r1["application_records"] = 0
       /\ r1["derived_revisions"] = 0
       /\ r1["reducer_cursors"] = 0
       /\ r1["ack_outbox"] = 0
  BY <1>2, <1>4 DEF More, CHAIN
<1>6. /\ r2["raw_commits"] = 1
       /\ r2["application_records"] = 1
       /\ r2["derived_revisions"] = 0
       /\ r2["reducer_cursors"] = 0
       /\ r2["ack_outbox"] = 0
  BY <1>5, <1>4 DEF More, CHAIN
<1>7. /\ r3["raw_commits"] = 1
       /\ r3["application_records"] = 1
       /\ r3["derived_revisions"] = 1
       /\ r3["reducer_cursors"] = 0
       /\ r3["ack_outbox"] = 0
  BY <1>6, <1>4 DEF More, CHAIN
<1>8. /\ r4["raw_commits"] = 1
       /\ r4["application_records"] = 1
       /\ r4["derived_revisions"] = 1
       /\ r4["reducer_cursors"] = 1
       /\ r4["ack_outbox"] = 0
  BY <1>7, <1>4 DEF More, CHAIN
<1>9. /\ r5["raw_commits"] = 1
       /\ r5["application_records"] = 1
       /\ r5["derived_revisions"] = 1
       /\ r5["reducer_cursors"] = 1
       /\ r5["ack_outbox"] = 1
  BY <1>8, <1>4 DEF More, CHAIN
<1> HIDE DEF r1, r2, r3, r4, r5
<1>10. CASE n = 1
  BY <1>3, <1>5, <1>10, Fields DEF ChainWritten, Written
<1>11. CASE n = 2
  BY <1>3, <1>6, <1>11, Fields DEF ChainWritten, Written
<1>12. CASE n = 3
  BY <1>3, <1>7, <1>12, Fields DEF ChainWritten, Written
<1>13. CASE n = 4
  BY <1>3, <1>8, <1>13, Fields DEF ChainWritten, Written
<1>14. CASE n = 5
  BY <1>3, <1>9, <1>14, Fields DEF ChainWritten, Written
<1> QED
  BY <1>10, <1>11, <1>12, <1>13, <1>14

LEMMA GapStages ==
  ASSUME NEW n \in 1..8, NEW v \in Nat, NEW m \in Nat, m = 0, NEW l
  PROVE  LET d == DB(Chained, G0, T1, "OPEN", v, l)
         IN GapWritten(RunTo(d, GapTx(d, m, "QUARANTINED_GAP"), n), n)
<1> DEFINE d == DB(Chained, G0, T1, "OPEN", v, l)
           s == GapTx(d, m, "QUARANTINED_GAP")
           h == Put(G0, m, "QUARANTINED_GAP")
           e == Append(l, Passage("OPEN", "SHOCKED_CLOSED", Now))
           r1 == More(Chained, {"gap_records"})
           r2 == More(r1, {"shock_observations"})
           r3 == More(r2, {"coherence_transitions"})
           r4 == More(r3, {"gap_epoch_bindings"})
           r5 == More(r4, {"generation_transitions"})
           r6 == More(r5, {"stream_generations"})
<1> SUFFICES GapWritten(RunTo(d, s, n), n)
  OBVIOUS
<1>1. Chained \in Counts
  BY StoresReached
<1>2. \A x \in GAP_INSERTS : Chained[x] = IF x = "stream_generations" THEN 1 ELSE 0
  BY DEF Chained, More, Zero, Provisioned, Tables, CHAIN, GAP_INSERTS, PROOFS
<1>3. /\ RunTo(d, s, 1) = DB(r1, G0, T1, "OPEN", v, l)
      /\ RunTo(d, s, 2) = DB(r2, G0, T1, "OPEN", v, l)
      /\ RunTo(d, s, 3) = DB(r3, G0, T1, "OPEN", v, e)
      /\ RunTo(d, s, 4) = DB(r3, G0, T1, "SHOCKED_CLOSED", v + 1, e)
      /\ RunTo(d, s, 5) = DB(r4, G0, T1, "SHOCKED_CLOSED", v + 1, e)
      /\ RunTo(d, s, 6) = DB(r4, h, T1, "SHOCKED_CLOSED", v + 1, e)
      /\ RunTo(d, s, 7) = DB(r5, h, T1, "SHOCKED_CLOSED", v + 1, e)
      /\ RunTo(d, s, 8) = DB(r6, Put(h, m + 1, "ACTIVE"), T1, "SHOCKED_CLOSED", v + 1, e)
  BY <1>1, GapSteps
<1>4. GAP_INSERTS \subseteq Tables
  BY DEF Tables
<1> HIDE DEF r1, r2, r3, r4, r5, r6
<1>5. /\ r1["gap_records"] = 1
       /\ r1["shock_observations"] = 0
       /\ r1["coherence_transitions"] = 0
       /\ r1["gap_epoch_bindings"] = 0
       /\ r1["generation_transitions"] = 0
       /\ r1["stream_generations"] = 1
  BY <1>2, <1>4 DEF More, GAP_INSERTS, r1
<1>6. /\ r2["gap_records"] = 1
       /\ r2["shock_observations"] = 1
       /\ r2["coherence_transitions"] = 0
       /\ r2["gap_epoch_bindings"] = 0
       /\ r2["generation_transitions"] = 0
       /\ r2["stream_generations"] = 1
  BY <1>5, <1>4 DEF More, GAP_INSERTS, r2
<1>7. /\ r3["gap_records"] = 1
       /\ r3["shock_observations"] = 1
       /\ r3["coherence_transitions"] = 1
       /\ r3["gap_epoch_bindings"] = 0
       /\ r3["generation_transitions"] = 0
       /\ r3["stream_generations"] = 1
  BY <1>6, <1>4 DEF More, GAP_INSERTS, r3
<1>8. /\ r4["gap_records"] = 1
       /\ r4["shock_observations"] = 1
       /\ r4["coherence_transitions"] = 1
       /\ r4["gap_epoch_bindings"] = 1
       /\ r4["generation_transitions"] = 0
       /\ r4["stream_generations"] = 1
  BY <1>7, <1>4 DEF More, GAP_INSERTS, r4
<1>9. /\ r5["gap_records"] = 1
       /\ r5["shock_observations"] = 1
       /\ r5["coherence_transitions"] = 1
       /\ r5["gap_epoch_bindings"] = 1
       /\ r5["generation_transitions"] = 1
       /\ r5["stream_generations"] = 1
  BY <1>8, <1>4 DEF More, GAP_INSERTS, r5
<1>10. /\ r6["gap_records"] = 1
       /\ r6["shock_observations"] = 1
       /\ r6["coherence_transitions"] = 1
       /\ r6["gap_epoch_bindings"] = 1
       /\ r6["generation_transitions"] = 1
       /\ r6["stream_generations"] = 2
  BY <1>9, <1>4 DEF More, GAP_INSERTS, r6
<1>11. G0[0] = "ACTIVE" /\ h[0] = "QUARANTINED_GAP" /\ Put(h, m + 1, "ACTIVE")[0] = "QUARANTINED_GAP"
  BY Generations DEF Put, G0
<1> HIDE DEF h, e, s, d
<1>12. CASE n = 1
  BY <1>3, <1>5, <1>11, <1>12, Fields DEF GapWritten, Written
<1>13. CASE n = 2
  BY <1>3, <1>6, <1>11, <1>13, Fields DEF GapWritten, Written
<1>14. CASE n = 3
  BY <1>3, <1>7, <1>11, <1>14, Fields DEF GapWritten, Written
<1>15. CASE n = 4
  BY <1>3, <1>7, <1>11, <1>15, Fields DEF GapWritten, Written
<1>16. CASE n = 5
  BY <1>3, <1>8, <1>11, <1>16, Fields DEF GapWritten, Written
<1>17. CASE n = 6
  BY <1>3, <1>8, <1>11, <1>17, Fields DEF GapWritten, Written
<1>18. CASE n = 7
  BY <1>3, <1>9, <1>11, <1>18, Fields DEF GapWritten, Written
<1>19. CASE n = 8
  BY <1>3, <1>10, <1>11, <1>19, Fields DEF GapWritten, Written
<1> QED
  BY <1>12, <1>13, <1>14, <1>15, <1>16, <1>17, <1>18, <1>19

LEMMA GapBoundary ==
  ASSUME NEW n \in 1..8
  PROVE  GapWritten(RunTo(A0, GapTx(A0, 0, "QUARANTINED_GAP"), n), n)
<1>1. 0 \in Nat
  OBVIOUS
<1> QED
  BY <1>1, GapStages, Zenon DEF A0

LEMMA PausesAt ==
  ASSUME NEW c, NEW s, NEW m \in 1..Len(s), c.point = "STATEMENT", PHASES[c.key].do # "COMMIT",
         \A n \in 1..Len(s) : Is(s[n], PHASES[c.key].do, PHASES[c.key].table) <=> n = m
  PROVE  PausesBefore(c, s) = m
<1> DEFINE at == {n \in 1..Len(s) : Is(s[n], PHASES[c.key].do, PHASES[c.key].table)}
<1>1. at = {m}
  OBVIOUS
<1> HIDE DEF at
<1>2. (CHOOSE n \in at : \A q \in at : n <= q) = m
  <2>1. m \in at /\ \A q \in at : m <= q
    BY <1>1
  <2>2. (CHOOSE n \in at : \A q \in at : n <= q) \in at
    BY <2>1
  <2> QED
    BY <1>1, <2>2
<1> QED
  BY <1>1, <1>2 DEF PausesBefore, at

LEMMA PausesLast ==
  ASSUME NEW c, NEW s, c.point = "STATEMENT", PHASES[c.key].do = "COMMIT",
         \A n \in 1..Len(s) : s[n].do # "COMMIT"
  PROVE  PausesBefore(c, s) = Len(s) + 1
BY DEF PausesBefore, Is

LEMMA ChainPauses ==
  ASSUME NEW c, c.point = "STATEMENT", c.key \in SqlKeys
  PROVE  PausesBefore(c, ChainTx(0)) = Ordinal[c.key] + 1 /\ Ordinal[c.key] \in 1..5
<1> DEFINE s == ChainTx(0)
<1> SUFFICES PausesBefore(c, s) = Ordinal[c.key] + 1 /\ Ordinal[c.key] \in 1..5
  OBVIOUS
<1>1. /\ Len(s) = 5
      /\ s[1] = InsertRaw(0, "APPLIED")
      /\ s[2] = Insert("application_records")
      /\ s[3] = Insert("derived_revisions")
      /\ s[4] = Insert("reducer_cursors")
      /\ s[5] = Insert("ack_outbox")
  BY DEF ChainTx
<1>2. /\ s[1].do = "INSERT" /\ s[1].table = "raw_commits"
      /\ s[2].do = "INSERT" /\ s[2].table = "application_records"
      /\ s[3].do = "INSERT" /\ s[3].table = "derived_revisions"
      /\ s[4].do = "INSERT" /\ s[4].table = "reducer_cursors"
      /\ s[5].do = "INSERT" /\ s[5].table = "ack_outbox"
    <2> HIDE DEF s
  <2>1. s[1].do = "INSERT" /\ s[1].table = "raw_commits"
    BY <1>1 DEF Insert, InsertRaw
  <2>2. \A x : Insert(x).do = "INSERT" /\ Insert(x).table = x
    BY DEF Insert
  <2> QED
    BY <1>1, <2>1, <2>2
<1> HIDE DEF s
<1>3. CASE c.key = "SQL-01"
  <2>1. PHASES[c.key].do = "INSERT" /\ PHASES[c.key].table = "application_records" /\ Ordinal[c.key] = 1
    BY <1>3 DEF PHASES, Insert, Ordinal, SqlKeys, GapKeys
  <2>2. \A n \in 1..Len(s) : Is(s[n], PHASES[c.key].do, PHASES[c.key].table) <=> n = 2
    <3>1. 1..Len(s) = {1, 2, 3, 4, 5}
      BY <1>1
    <3> QED
      BY <1>2, <2>1, <3>1 DEF Is
  <2>3. PausesBefore(c, s) = 2
    <3>1. 2 \in 1..Len(s)
      BY <1>1
    <3> QED
      BY <2>1, <2>2, <3>1, PausesAt
  <2> QED
    BY <2>1, <2>3
<1>4. CASE c.key = "SQL-02"
  <2>1. PHASES[c.key].do = "INSERT" /\ PHASES[c.key].table = "derived_revisions" /\ Ordinal[c.key] = 2
    BY <1>4 DEF PHASES, Insert, Ordinal, SqlKeys, GapKeys
  <2>2. \A n \in 1..Len(s) : Is(s[n], PHASES[c.key].do, PHASES[c.key].table) <=> n = 3
    <3>1. 1..Len(s) = {1, 2, 3, 4, 5}
      BY <1>1
    <3> QED
      BY <1>2, <2>1, <3>1 DEF Is
  <2>3. PausesBefore(c, s) = 3
    <3>1. 3 \in 1..Len(s)
      BY <1>1
    <3> QED
      BY <2>1, <2>2, <3>1, PausesAt
  <2> QED
    BY <2>1, <2>3
<1>5. CASE c.key = "SQL-03"
  <2>1. PHASES[c.key].do = "INSERT" /\ PHASES[c.key].table = "reducer_cursors" /\ Ordinal[c.key] = 3
    BY <1>5 DEF PHASES, Insert, Ordinal, SqlKeys, GapKeys
  <2>2. \A n \in 1..Len(s) : Is(s[n], PHASES[c.key].do, PHASES[c.key].table) <=> n = 4
    <3>1. 1..Len(s) = {1, 2, 3, 4, 5}
      BY <1>1
    <3> QED
      BY <1>2, <2>1, <3>1 DEF Is
  <2>3. PausesBefore(c, s) = 4
    <3>1. 4 \in 1..Len(s)
      BY <1>1
    <3> QED
      BY <2>1, <2>2, <3>1, PausesAt
  <2> QED
    BY <2>1, <2>3
<1>6. CASE c.key = "SQL-04"
  <2>1. PHASES[c.key].do = "INSERT" /\ PHASES[c.key].table = "ack_outbox" /\ Ordinal[c.key] = 4
    BY <1>6 DEF PHASES, Insert, Ordinal, SqlKeys, GapKeys
  <2>2. \A n \in 1..Len(s) : Is(s[n], PHASES[c.key].do, PHASES[c.key].table) <=> n = 5
    <3>1. 1..Len(s) = {1, 2, 3, 4, 5}
      BY <1>1
    <3> QED
      BY <1>2, <2>1, <3>1 DEF Is
  <2>3. PausesBefore(c, s) = 5
    <3>1. 5 \in 1..Len(s)
      BY <1>1
    <3> QED
      BY <2>1, <2>2, <3>1, PausesAt
  <2> QED
    BY <2>1, <2>3
<1>7. CASE c.key = "SQL-05"
  <2>1. PHASES[c.key].do = "COMMIT" /\ Ordinal[c.key] = 5
    BY <1>7 DEF PHASES, Ordinal, SqlKeys, GapKeys
  <2>2. \A n \in 1..Len(s) : s[n].do # "COMMIT"
    <3>1. 1..Len(s) = {1, 2, 3, 4, 5}
      BY <1>1
    <3> QED
      BY <1>2, <3>1
  <2>3. PausesBefore(c, s) = Len(s) + 1
    BY <2>1, <2>2, PausesLast
  <2> QED
    BY <1>1, <2>1, <2>3
<1> QED
  BY <1>3, <1>4, <1>5, <1>6, <1>7 DEF SqlKeys

LEMMA GapPauses ==
  ASSUME NEW c, c.point = "STATEMENT", c.key \in GapKeys, NEW d, d.ctl = "OPEN"
  PROVE  PausesBefore(c, GapTx(d, 0, "QUARANTINED_GAP")) = Ordinal[c.key] + 1 /\ Ordinal[c.key] \in 1..8
<1> DEFINE s == GapTx(d, 0, "QUARANTINED_GAP")
<1> SUFFICES PausesBefore(c, s) = Ordinal[c.key] + 1 /\ Ordinal[c.key] \in 1..8
  OBVIOUS
<1>1. /\ Len(s) = 8
      /\ s[1] = Insert("gap_records")
      /\ s[2] = Insert("shock_observations")
      /\ s[3] = InsertTransition("OPEN", "SHOCKED_CLOSED", Now)
      /\ s[4] = UpdateController("SHOCKED_CLOSED")
      /\ s[5] = Insert("gap_epoch_bindings")
      /\ s[6] = UpdateGeneration(0, "QUARANTINED_GAP")
      /\ s[7] = Insert("generation_transitions")
      /\ s[8] = InsertGeneration(0 + 1)
  BY DEF GapTx
<1>2. /\ s[1].do = "INSERT" /\ s[1].table = "gap_records"
      /\ s[2].do = "INSERT" /\ s[2].table = "shock_observations"
      /\ s[3].do = "INSERT" /\ s[3].table = "coherence_transitions"
      /\ s[4].do = "UPDATE" /\ s[4].table = "coherence_controllers"
      /\ s[5].do = "INSERT" /\ s[5].table = "gap_epoch_bindings"
      /\ s[6].do = "UPDATE" /\ s[6].table = "stream_generations"
      /\ s[7].do = "INSERT" /\ s[7].table = "generation_transitions"
      /\ s[8].do = "INSERT" /\ s[8].table = "stream_generations"
  <2> HIDE DEF s
  <2>1. \A x : Insert(x).do = "INSERT" /\ Insert(x).table = x
    BY DEF Insert
  <2>2. InsertTransition("OPEN", "SHOCKED_CLOSED", Now).do = "INSERT"
        /\ InsertTransition("OPEN", "SHOCKED_CLOSED", Now).table = "coherence_transitions"
    BY DEF InsertTransition
  <2>3. \A x : /\ UpdateController(x).do = "UPDATE" /\ UpdateController(x).table = "coherence_controllers"
             /\ UpdateGeneration(0, x).do = "UPDATE" /\ UpdateGeneration(0, x).table = "stream_generations"
    BY DEF UpdateController, UpdateGeneration
  <2>4. \A x : InsertGeneration(x).do = "INSERT" /\ InsertGeneration(x).table = "stream_generations"
    BY DEF InsertGeneration, Insert
  <2> QED
    BY <1>1, <2>1, <2>2, <2>3, <2>4
<1> HIDE DEF s
<1>3. CASE c.key = "GAP-01"
  <2>1. PHASES[c.key].do = "INSERT" /\ PHASES[c.key].table = "shock_observations" /\ Ordinal[c.key] = 1
    BY <1>3 DEF PHASES, Insert, UpdateController, UpdateGeneration, Ordinal, SqlKeys, GapKeys
  <2>2. \A n \in 1..Len(s) : Is(s[n], PHASES[c.key].do, PHASES[c.key].table) <=> n = 2
    <3>1. 1..Len(s) = {1, 2, 3, 4, 5, 6, 7, 8}
      BY <1>1
    <3> QED
      BY <1>2, <2>1, <3>1 DEF Is
  <2>3. PausesBefore(c, s) = 2
    <3>1. 2 \in 1..Len(s)
      BY <1>1
    <3> QED
      BY <2>1, <2>2, <3>1, PausesAt
  <2> QED
    BY <2>1, <2>3
<1>4. CASE c.key = "GAP-02"
  <2>1. PHASES[c.key].do = "INSERT" /\ PHASES[c.key].table = "coherence_transitions" /\ Ordinal[c.key] = 2
    BY <1>4 DEF PHASES, Insert, UpdateController, UpdateGeneration, Ordinal, SqlKeys, GapKeys
  <2>2. \A n \in 1..Len(s) : Is(s[n], PHASES[c.key].do, PHASES[c.key].table) <=> n = 3
    <3>1. 1..Len(s) = {1, 2, 3, 4, 5, 6, 7, 8}
      BY <1>1
    <3> QED
      BY <1>2, <2>1, <3>1 DEF Is
  <2>3. PausesBefore(c, s) = 3
    <3>1. 3 \in 1..Len(s)
      BY <1>1
    <3> QED
      BY <2>1, <2>2, <3>1, PausesAt
  <2> QED
    BY <2>1, <2>3
<1>5. CASE c.key = "GAP-03"
  <2>1. PHASES[c.key].do = "UPDATE" /\ PHASES[c.key].table = "coherence_controllers" /\ Ordinal[c.key] = 3
    BY <1>5 DEF PHASES, Insert, UpdateController, UpdateGeneration, Ordinal, SqlKeys, GapKeys
  <2>2. \A n \in 1..Len(s) : Is(s[n], PHASES[c.key].do, PHASES[c.key].table) <=> n = 4
    <3>1. 1..Len(s) = {1, 2, 3, 4, 5, 6, 7, 8}
      BY <1>1
    <3> QED
      BY <1>2, <2>1, <3>1 DEF Is
  <2>3. PausesBefore(c, s) = 4
    <3>1. 4 \in 1..Len(s)
      BY <1>1
    <3> QED
      BY <2>1, <2>2, <3>1, PausesAt
  <2> QED
    BY <2>1, <2>3
<1>6. CASE c.key = "GAP-04"
  <2>1. PHASES[c.key].do = "INSERT" /\ PHASES[c.key].table = "gap_epoch_bindings" /\ Ordinal[c.key] = 4
    BY <1>6 DEF PHASES, Insert, UpdateController, UpdateGeneration, Ordinal, SqlKeys, GapKeys
  <2>2. \A n \in 1..Len(s) : Is(s[n], PHASES[c.key].do, PHASES[c.key].table) <=> n = 5
    <3>1. 1..Len(s) = {1, 2, 3, 4, 5, 6, 7, 8}
      BY <1>1
    <3> QED
      BY <1>2, <2>1, <3>1 DEF Is
  <2>3. PausesBefore(c, s) = 5
    <3>1. 5 \in 1..Len(s)
      BY <1>1
    <3> QED
      BY <2>1, <2>2, <3>1, PausesAt
  <2> QED
    BY <2>1, <2>3
<1>7. CASE c.key = "GAP-05"
  <2>1. PHASES[c.key].do = "UPDATE" /\ PHASES[c.key].table = "stream_generations" /\ Ordinal[c.key] = 5
    BY <1>7 DEF PHASES, Insert, UpdateController, UpdateGeneration, Ordinal, SqlKeys, GapKeys
  <2>2. \A n \in 1..Len(s) : Is(s[n], PHASES[c.key].do, PHASES[c.key].table) <=> n = 6
    <3>1. 1..Len(s) = {1, 2, 3, 4, 5, 6, 7, 8}
      BY <1>1
    <3> QED
      BY <1>2, <2>1, <3>1 DEF Is
  <2>3. PausesBefore(c, s) = 6
    <3>1. 6 \in 1..Len(s)
      BY <1>1
    <3> QED
      BY <2>1, <2>2, <3>1, PausesAt
  <2> QED
    BY <2>1, <2>3
<1>8. CASE c.key = "GAP-06"
  <2>1. PHASES[c.key].do = "INSERT" /\ PHASES[c.key].table = "generation_transitions" /\ Ordinal[c.key] = 6
    BY <1>8 DEF PHASES, Insert, UpdateController, UpdateGeneration, Ordinal, SqlKeys, GapKeys
  <2>2. \A n \in 1..Len(s) : Is(s[n], PHASES[c.key].do, PHASES[c.key].table) <=> n = 7
    <3>1. 1..Len(s) = {1, 2, 3, 4, 5, 6, 7, 8}
      BY <1>1
    <3> QED
      BY <1>2, <2>1, <3>1 DEF Is
  <2>3. PausesBefore(c, s) = 7
    <3>1. 7 \in 1..Len(s)
      BY <1>1
    <3> QED
      BY <2>1, <2>2, <3>1, PausesAt
  <2> QED
    BY <2>1, <2>3
<1>9. CASE c.key = "GAP-07"
  <2>1. PHASES[c.key].do = "INSERT" /\ PHASES[c.key].table = "stream_generations" /\ Ordinal[c.key] = 7
    BY <1>9 DEF PHASES, Insert, UpdateController, UpdateGeneration, Ordinal, SqlKeys, GapKeys
  <2>2. \A n \in 1..Len(s) : Is(s[n], PHASES[c.key].do, PHASES[c.key].table) <=> n = 8
    <3>1. 1..Len(s) = {1, 2, 3, 4, 5, 6, 7, 8}
      BY <1>1
    <3> QED
      BY <1>2, <2>1, <3>1 DEF Is
  <2>3. PausesBefore(c, s) = 8
    <3>1. 8 \in 1..Len(s)
      BY <1>1
    <3> QED
      BY <2>1, <2>2, <3>1, PausesAt
  <2> QED
    BY <2>1, <2>3
<1>10. CASE c.key = "GAP-08"
  <2>1. PHASES[c.key].do = "COMMIT" /\ Ordinal[c.key] = 8
    BY <1>10 DEF PHASES, Ordinal, SqlKeys, GapKeys
  <2>2. \A n \in 1..Len(s) : s[n].do # "COMMIT"
    <3>1. 1..Len(s) = {1, 2, 3, 4, 5, 6, 7, 8}
      BY <1>1
    <3> QED
      BY <1>2, <3>1
  <2>3. PausesBefore(c, s) = Len(s) + 1
    BY <2>1, <2>2, PausesLast
  <2> QED
    BY <1>1, <2>1, <2>3
<1> QED
  BY <1>3, <1>4, <1>5, <1>6, <1>7, <1>8, <1>9, <1>10 DEF GapKeys

(* A statement case stops in front of the statement it registers. *)
LEMMA Pauses ==
  ASSUME CaseKnown, case.point = "STATEMENT"
  PROVE  LET s == Transaction(Old, case.op)
         IN  /\ PausesBefore(case, s) = Ordinal[case.key] + 1 /\ Ordinal[case.key] \in 1..Len(s)
             /\ case.key \in SqlKeys => Old = P0 /\ s = ChainTx(0) /\ Len(s) = 5
             /\ case.key \in GapKeys => Old = A0 /\ s = GapTx(A0, 0, "QUARANTINED_GAP") /\ Len(s) = 8
             /\ case.key \in SqlKeys \cup GapKeys
<1>1. A0.ctl = "OPEN" /\ Len(ChainTx(0)) = 5 /\ Len(GapTx(A0, 0, "QUARANTINED_GAP")) = 8
  BY Fields DEF A0, ChainTx, GapTx
<1>2. CASE \E key \in BackendKeys : case = BackendScenario(key)
  <2>1. PICK key \in BackendKeys : case = BackendScenario(key)
    BY <1>2
  <2>2. key \in SqlKeys \cup GapKeys /\ case.key = key
    BY <2>1, BackendStores
  <2>3. CASE key \in SqlKeys
    <3>1. Transaction(Old, case.op) = ChainTx(0) /\ Old = P0
      BY <2>1, <2>3, BackendStores, StoreAnswers
    <3>2. key \notin GapKeys
      BY <2>3 DEF SqlKeys, GapKeys
    <3> QED
      BY <1>1, <2>2, <2>3, <3>1, <3>2, ChainPauses
  <2>4. CASE key \in GapKeys
    <3>1. Transaction(Old, case.op) = GapTx(A0, 0, "QUARANTINED_GAP") /\ Old = A0
      BY <2>1, <2>4, BackendStores, StoreAnswers
    <3>2. key \notin SqlKeys
      BY <2>4 DEF SqlKeys, GapKeys
    <3> QED
      BY <1>1, <2>2, <2>4, <3>1, <3>2, GapPauses
  <2> QED
    BY <2>2, <2>3, <2>4
<1>3. CASE \E key \in CoherenceKeys : case = GapScenario(key)
  <2>1. PICK key \in CoherenceKeys : case = GapScenario(key)
    BY <1>3
  <2>2. key \in GapKeys /\ case.key = key
    BY <2>1 DEF GapScenario
  <2>3. /\ case.setup = <<Deliver(0, 1)>> /\ case.first = <<>> /\ case.pre = <<>>
        /\ case.op = Deliver(0, 3)
    BY <2>1, <2>2 DEF GapScenario, GapKeys
  <2>4. Old = A0
    BY <2>3, NoneDone, StoresReached, Setups DEF Base, SetUp
  <2>5. key \notin SqlKeys
    BY <2>2 DEF SqlKeys, GapKeys
  <2> QED
    BY <1>1, <2>2, <2>3, <2>4, <2>5, StoreAnswers, GapPauses
<1> QED
  BY <1>2, <1>3 DEF CaseKnown

-----------------------------------------------------------------------------
(* Where a case is: the invariant of the campaign.  Types, where the child *)
(* stands and what it has stored by then, and what the harness has read.   *)
CaseEnded == {"none", "killed", "failed", "exited", "rejected"}
Awaiting == {"launch", "await", "released", "boundary", "terminate"}
Reading == {"reopen", "before", "recover", "read_after", "compare"}

CrashTyped ==
  /\ CaseKnown /\ kind \in {"NONE", "EXPECTED", "INPUT"}
  /\ kind = "INPUT" => case.family = "GAP"
  /\ cpc \in Alive \cup CaseEnded /\ hpc \in Awaiting \cup Reading \cup {"done"}
  /\ marker \in BOOLEAN /\ disturbed \in BOOLEAN /\ step \in Nat
  /\ hpc # "done" => verdict = None
  /\ hpc \in Awaiting \cup {"reopen", "before"} => before = None
  /\ hpc \in Awaiting \cup {"reopen", "before", "recover", "read_after"} => after = None

(* A child that stands at its boundary. *)
AtBoundary ==
  /\ case.point = "AFTER" => db = New /\ work = New
  /\ case.point # "AFTER" => db = Old
  /\ case.point = "BEGIN" => work = Old
  /\ case.point \in {"STATEMENT", "BEFORE_COMMIT", "COMMIT"} =>
       tx = Transaction(Old, case.op) /\ step <= Len(tx) /\ work = RunTo(Old, tx, step)
  /\ case.point \in {"STATEMENT", "BEFORE_COMMIT"} => PausesBefore(case, tx) = step + 1
  /\ case.point = "COMMIT" => step = Len(tx)

(* Where a child stands and what it has stored. *)
ChildAt ==
  /\ cpc \in {"none", "boot"} => db = Provisioned /\ marker = FALSE
  /\ cpc \in {"none", "boot", "verify", "ready"} \/ (cpc = "held" /\ kind = "INPUT") => step = 0
  /\ cpc \in {"verify", "rejected"} \/ (cpc = "held" /\ kind = "INPUT") => db = SetUp
  /\ kind = "INPUT" => /\ db \in {Provisioned, SetUp}
                       /\ cpc \in {"none", "boot", "held", "verify", "rejected", "failed"}
  /\ cpc = "rejected" => kind = "INPUT"
  /\ cpc = "ready" => db = Old /\ baseline = Base
  /\ cpc = "running" => /\ db = Old /\ baseline = Base /\ tx = Transaction(Old, case.op)
                        /\ step <= Len(tx) /\ work = RunTo(Old, tx, step)
                        /\ case.point # "BEGIN"
  /\ cpc = "after" => db = Commit(Old, case.op) /\ baseline = Base
                      /\ case.point \notin {"BEGIN", "COMMIT"}
  /\ cpc \in {"stopping", "witnessed", "stopped"} \/ (cpc = "held" /\ kind # "INPUT") =>
       AtBoundary /\ baseline = Base
  /\ cpc = "stopped" => case.kill
  /\ cpc = "held" /\ kind # "INPUT" => ~case.kill
  /\ marker = TRUE /\ kind # "INPUT" => cpc \in {"stopped", "held"} \cup CaseEnded
  /\ cpc = "exited" => ~case.kill /\ baseline = Base /\ db \in {New, Target}

(* Whom the harness stopped. *)
Crashed ==
  case.kill =>
    /\ cpc = "killed" /\ crash.at = "stopped"
    /\ case.point = "STATEMENT" => crash.step = Ordinal[case.key]
    /\ case.point \in {"BEFORE_COMMIT", "COMMIT"} => crash.step = Len(tx)

HarnessAt ==
  /\ hpc = "launch" <=> cpc = "none"
  /\ hpc \in {"boundary", "terminate"} => marker = TRUE /\ kind # "INPUT"
  /\ hpc = "released" => kind = "INPUT" \/ ~case.kill
  /\ hpc \in Awaiting => cpc # "killed" /\ (cpc = "exited" => hpc = "released" /\ db = New)
  /\ hpc \in Reading => cpc \in {"killed", "exited"} /\ Crashed /\ baseline = Base /\ kind # "INPUT"
  /\ hpc \in {"reopen", "before"} => Settled(db)
  /\ hpc = "recover" => db = before
  /\ hpc = "read_after" => db = Target
  /\ hpc = "compare" => after = Target
  /\ before = None \/ Settled(before)
  /\ after = None \/ after = Target
  /\ hpc \in {"recover", "read_after", "compare"} => Settled(before)
  /\ verdict = "PASS" => Crashed
  /\ hpc = "done" /\ case.family = "BACKEND" => cpc \notin Alive

CrashFacts == CrashTyped /\ ChildAt /\ HarnessAt

LEMMA SameCase ==
  ASSUME case' = case
  PROVE  /\ Old' = Old /\ New' = New /\ SetUp' = SetUp /\ Base' = Base /\ Target' = Target
         /\ CaseKnown' = CaseKnown /\ \A d : Settled(d)' = Settled(d)
BY DEF Old, New, SetUp, Base, Target, CaseKnown, Settled

LEMMA CrashStarts == Init => CrashFacts
<1> SUFFICES ASSUME Init PROVE CrashFacts
  OBVIOUS
<1>1. CaseKnown
  <2>1. PICK k \in Keys : case = Scenario(k)
    BY DEF Init
  <2>2. k \in Registered
    BY KeysAssumption
  <2>3. CASE k[1] = "BACKEND"
    BY <2>1, <2>2, <2>3 DEF Registered, Scenario, CaseKnown
  <2>4. CASE k[1] # "BACKEND"
    BY <2>1, <2>2, <2>4 DEF Registered, Scenario, CaseKnown
  <2> QED
    BY <2>3, <2>4
<1>2. marker \in BOOLEAN /\ disturbed \in BOOLEAN
  BY Zenon DEF Init
<1>3. CrashTyped
  BY <1>1, <1>2, KindsAssumption, CaseFacts DEF Init, CrashTyped, CaseEnded, Awaiting, Reading
<1>4. ChildAt
  BY DEF Init, ChildAt, Provisioned
<1>5. HarnessAt
  BY NoneAssumption DEF Init, HarnessAt, Awaiting, Reading, Crashed
<1> QED
  BY <1>3, <1>4, <1>5 DEF CrashFacts

LEMMA Unpaused ==
  ASSUME case.point \in {"AFTER", "COMMIT", "BEGIN"}, NEW s
  PROVE  PausesBefore(case, s) = 0
BY DEF PausesBefore

LEMMA PausedAtCommit ==
  ASSUME case.point = "BEFORE_COMMIT", NEW s
  PROVE  PausesBefore(case, s) = Len(s) + 1
BY DEF PausesBefore

LEMMA TransactionLength ==
  ASSUME CaseKnown, NEW d
  PROVE  Len(Transaction(d, case.op)) \in Nat
<1> DEFINE o == case.op
<1>1. o.do \in {"DELIVER", "LATE_REPAIR", "CLOSURE", "CAPACITY", "SHOCK", "PENDING", "RELEASE", "NEW_SHOCK"}
  BY CaseFacts
<1> HIDE DEF o
<1>2. \A g, c : Len(GapTx(d, g, c)) = 8 /\ GapTx(d, g, c) \in Seq({GapTx(d, g, c)[i] : i \in 1..8})
  BY DEF GapTx
<1>3. Len(DeliveryTx(d, o)) \in Nat
  <2>1. \A c : Len(<<Insert("raw_conflicts")>> \o GapTx(d, o.gen, c)) \in Nat
    BY DEF GapTx
  <2>2. Len(ChainTx(o.gen)) = 5
    BY DEF ChainTx
  <2> QED
    BY <1>2, <2>1, <2>2 DEF DeliveryTx
<1>4. Len(Transaction(d, o)) \in Nat
  BY <1>1, <1>2, <1>3 DEF Transaction, ShockTx, PendingTx, ReleaseTx, NewShockTx
<1> QED
  BY <1>4 DEF o

(* A child only moves while it is alive, and the harness does not read then. *)
LEMMA ChildLives ==
  ASSUME CrashFacts, Child \/ ChildDies
  PROVE  /\ cpc \in Alive /\ hpc \in Awaiting \cup {"done"} /\ hpc # "launch"
         /\ (hpc = "done" => case.family # "BACKEND")
         /\ UNCHANGED <<case, kind, hpc, verdict, before, after, replay, crash>>
<1>1. cpc \in Alive
  BY DEF Child, ChildProvision, ChildReleased, ChildPrepare, ChildBegin, ChildStatement,
         ChildStops,
         ChildCommit, ChildFinish, ChildWitness, ChildMark, ChildDies, Alive
<1>2. UNCHANGED <<case, kind, hpc, verdict, before, after, replay, crash>>
  BY DEF Child, ChildProvision, ChildReleased, ChildPrepare, ChildBegin, ChildStatement,
         ChildStops,
         ChildCommit, ChildFinish, ChildWitness, ChildMark, ChildDies, ChildUnchanged
<1> QED
  BY <1>1, <1>2 DEF CrashFacts, CrashTyped, HarnessAt, Alive

LEMMA ChildProvisionKeepsCase == ASSUME CrashFacts, ChildProvision PROVE CrashFacts'
<1>1. CrashTyped /\ ChildAt /\ HarnessAt /\ CaseKnown
  BY DEF CrashFacts, CrashTyped
<1>2. /\ cpc \in Alive /\ hpc \in Awaiting \cup {"done"} /\ hpc # "launch"
      /\ (hpc = "done" => case.family # "BACKEND")
      /\ UNCHANGED <<case, kind, hpc, verdict, before, after, replay, crash>>
  BY ChildLives DEF Child
<1>3. /\ Old' = Old /\ New' = New /\ SetUp' = SetUp /\ Base' = Base /\ Target' = Target
      /\ CaseKnown' = CaseKnown /\ \A d : Settled(d)' = Settled(d)
  BY <1>2, SameCase
<1>4. case.point \in {"STATEMENT", "BEGIN", "COMMIT", "BEFORE_COMMIT", "AFTER"} /\ (case.kill \/ case.point = "AFTER")
  BY <1>1, CaseFacts
<1>x. /\ RunTo(Old, tx', 0) = Old
      /\ RunTo(Old, tx, step + 1) = Execute(RunTo(Old, tx, step), tx[step + 1])
      /\ Len(Transaction(Old, case.op)) \in Nat
      /\ RunTo(Old, Transaction(Old, case.op), Len(Transaction(Old, case.op))) = Commit(Old, case.op)
      /\ (case.point \in {"AFTER", "COMMIT", "BEGIN"} => PausesBefore(case, tx) = 0)
      /\ (case.point # "AFTER" => case.then = <<>>)
  <2>1. step \in Nat
    BY <1>1 DEF CrashTyped
  <2>2. RunTo(Old, tx', 0) = Old /\ RunTo(Old, tx, step + 1) = Execute(RunTo(Old, tx, step), tx[step + 1])
    BY <2>1, RunSteps
  <2>3. RunTo(Old, Transaction(Old, case.op), Len(Transaction(Old, case.op))) = Commit(Old, case.op)
    BY DEF Commit, Run
  <2> QED
    BY <1>1, <2>2, <2>3, TransactionLength, Unpaused, CaseFacts
<1>5. CrashTyped'
  <2>1. marker' \in BOOLEAN /\ disturbed' \in BOOLEAN
    BY <1>1, ZenonT(30) DEF ChildProvision, ChildUnchanged, CrashTyped
  <2> QED
    BY <1>1, <1>2, <1>3, <2>1 DEF ChildProvision, ChildUnchanged, CrashTyped, Alive, CaseEnded
<1>6. ChildAt'
  BY <1>1, <1>2, <1>3, <1>4, Setups, <1>x
     DEF ChildProvision, SetUp, Base, ChildUnchanged, CrashTyped, HarnessAt, ChildAt, AtBoundary,
         Alive, CaseEnded
<1>7. HarnessAt'
  BY <1>1, <1>2, <1>3, <1>4, NoneAssumption
     DEF ChildProvision, ChildUnchanged, CrashTyped, HarnessAt, ChildAt, AtBoundary, Alive,
         CaseEnded, Awaiting, Reading, Crashed
<1> QED
  BY <1>5, <1>6, <1>7 DEF CrashFacts

LEMMA ChildReleasedKeepsCase == ASSUME CrashFacts, ChildReleased PROVE CrashFacts'
<1>1. CrashTyped /\ ChildAt /\ HarnessAt /\ CaseKnown
  BY DEF CrashFacts, CrashTyped
<1>2. /\ cpc \in Alive /\ hpc \in Awaiting \cup {"done"} /\ hpc # "launch"
      /\ (hpc = "done" => case.family # "BACKEND")
      /\ UNCHANGED <<case, kind, hpc, verdict, before, after, replay, crash>>
  BY ChildLives DEF Child
<1>3. /\ Old' = Old /\ New' = New /\ SetUp' = SetUp /\ Base' = Base /\ Target' = Target
      /\ CaseKnown' = CaseKnown /\ \A d : Settled(d)' = Settled(d)
  BY <1>2, SameCase
<1>4. case.point \in {"STATEMENT", "BEGIN", "COMMIT", "BEFORE_COMMIT", "AFTER"} /\ (case.kill \/ case.point = "AFTER")
  BY <1>1, CaseFacts
<1>x. /\ RunTo(Old, tx', 0) = Old
      /\ RunTo(Old, tx, step + 1) = Execute(RunTo(Old, tx, step), tx[step + 1])
      /\ Len(Transaction(Old, case.op)) \in Nat
      /\ RunTo(Old, Transaction(Old, case.op), Len(Transaction(Old, case.op))) = Commit(Old, case.op)
      /\ (case.point \in {"AFTER", "COMMIT", "BEGIN"} => PausesBefore(case, tx) = 0)
      /\ (case.point # "AFTER" => case.then = <<>>)
  <2>1. step \in Nat
    BY <1>1 DEF CrashTyped
  <2>2. RunTo(Old, tx', 0) = Old /\ RunTo(Old, tx, step + 1) = Execute(RunTo(Old, tx, step), tx[step + 1])
    BY <2>1, RunSteps
  <2>3. RunTo(Old, Transaction(Old, case.op), Len(Transaction(Old, case.op))) = Commit(Old, case.op)
    BY DEF Commit, Run
  <2> QED
    BY <1>1, <2>2, <2>3, TransactionLength, Unpaused, CaseFacts
<1>5. CrashTyped'
  <2>1. marker' \in BOOLEAN /\ disturbed' \in BOOLEAN
    BY <1>1, ZenonT(30) DEF ChildReleased, ChildUnchanged, CrashTyped
  <2> QED
    BY <1>1, <1>2, <1>3, <2>1 DEF ChildReleased, ChildUnchanged, CrashTyped, Alive, CaseEnded
<1>6. ChildAt'
  BY <1>1, <1>2, <1>3, <1>4, Setups, <1>x
     DEF ChildReleased, SetUp, Base, ChildUnchanged, CrashTyped, HarnessAt, ChildAt, AtBoundary,
         Alive, CaseEnded
<1>7. HarnessAt'
  BY <1>1, <1>2, <1>3, <1>4, NoneAssumption
     DEF ChildReleased, ChildUnchanged, CrashTyped, HarnessAt, ChildAt, AtBoundary, Alive, CaseEnded,
         Awaiting, Reading, Crashed
<1> QED
  BY <1>5, <1>6, <1>7 DEF CrashFacts

LEMMA ChildPrepareKeepsCase == ASSUME CrashFacts, ChildPrepare PROVE CrashFacts'
<1>1. CrashTyped /\ ChildAt /\ HarnessAt /\ CaseKnown
  BY DEF CrashFacts, CrashTyped
<1>2. /\ cpc \in Alive /\ hpc \in Awaiting \cup {"done"} /\ hpc # "launch"
      /\ (hpc = "done" => case.family # "BACKEND")
      /\ UNCHANGED <<case, kind, hpc, verdict, before, after, replay, crash>>
  BY ChildLives DEF Child
<1>3. /\ Old' = Old /\ New' = New /\ SetUp' = SetUp /\ Base' = Base /\ Target' = Target
      /\ CaseKnown' = CaseKnown /\ \A d : Settled(d)' = Settled(d)
  BY <1>2, SameCase
<1>4. case.point \in {"STATEMENT", "BEGIN", "COMMIT", "BEFORE_COMMIT", "AFTER"} /\ (case.kill \/ case.point = "AFTER")
  BY <1>1, CaseFacts
<1>x. /\ RunTo(Old, tx', 0) = Old
      /\ RunTo(Old, tx, step + 1) = Execute(RunTo(Old, tx, step), tx[step + 1])
      /\ Len(Transaction(Old, case.op)) \in Nat
      /\ RunTo(Old, Transaction(Old, case.op), Len(Transaction(Old, case.op))) = Commit(Old, case.op)
      /\ (case.point \in {"AFTER", "COMMIT", "BEGIN"} => PausesBefore(case, tx) = 0)
      /\ (case.point # "AFTER" => case.then = <<>>)
  <2>1. step \in Nat
    BY <1>1 DEF CrashTyped
  <2>2. RunTo(Old, tx', 0) = Old /\ RunTo(Old, tx, step + 1) = Execute(RunTo(Old, tx, step), tx[step + 1])
    BY <2>1, RunSteps
  <2>3. RunTo(Old, Transaction(Old, case.op), Len(Transaction(Old, case.op))) = Commit(Old, case.op)
    BY DEF Commit, Run
  <2> QED
    BY <1>1, <2>2, <2>3, TransactionLength, Unpaused, CaseFacts
<1>5. CrashTyped'
  <2>1. marker' \in BOOLEAN /\ disturbed' \in BOOLEAN
    BY <1>1, ZenonT(30) DEF ChildPrepare, ChildUnchanged, CrashTyped
  <2> QED
    BY <1>1, <1>2, <1>3, <2>1 DEF ChildPrepare, ChildUnchanged, CrashTyped, Alive, CaseEnded
<1>6. ChildAt'
  BY <1>1, <1>2, <1>3, <1>4, Setups, <1>x
     DEF ChildPrepare, SetUp, Base, ChildUnchanged, CrashTyped, HarnessAt, ChildAt, AtBoundary,
         Alive, CaseEnded
<1>7. HarnessAt'
  BY <1>1, <1>2, <1>3, <1>4, NoneAssumption
     DEF ChildPrepare, ChildUnchanged, CrashTyped, HarnessAt, ChildAt, AtBoundary, Alive, CaseEnded,
         Awaiting, Reading, Crashed
<1> QED
  BY <1>5, <1>6, <1>7 DEF CrashFacts

LEMMA ChildBeginKeepsCase == ASSUME CrashFacts, ChildBegin PROVE CrashFacts'
<1>1. CrashTyped /\ ChildAt /\ HarnessAt /\ CaseKnown
  BY DEF CrashFacts, CrashTyped
<1>2. /\ cpc \in Alive /\ hpc \in Awaiting \cup {"done"} /\ hpc # "launch"
      /\ (hpc = "done" => case.family # "BACKEND")
      /\ UNCHANGED <<case, kind, hpc, verdict, before, after, replay, crash>>
  BY ChildLives DEF Child
<1>3. /\ Old' = Old /\ New' = New /\ SetUp' = SetUp /\ Base' = Base /\ Target' = Target
      /\ CaseKnown' = CaseKnown /\ \A d : Settled(d)' = Settled(d)
  BY <1>2, SameCase
<1>4. case.point \in {"STATEMENT", "BEGIN", "COMMIT", "BEFORE_COMMIT", "AFTER"} /\ (case.kill \/ case.point = "AFTER")
  BY <1>1, CaseFacts
<1>x. /\ RunTo(Old, tx', 0) = Old
      /\ RunTo(Old, tx, step + 1) = Execute(RunTo(Old, tx, step), tx[step + 1])
      /\ Len(Transaction(Old, case.op)) \in Nat
      /\ RunTo(Old, Transaction(Old, case.op), Len(Transaction(Old, case.op))) = Commit(Old, case.op)
      /\ (case.point \in {"AFTER", "COMMIT", "BEGIN"} => PausesBefore(case, tx) = 0)
      /\ (case.point # "AFTER" => case.then = <<>>)
  <2>1. step \in Nat
    BY <1>1 DEF CrashTyped
  <2>2. RunTo(Old, tx', 0) = Old /\ RunTo(Old, tx, step + 1) = Execute(RunTo(Old, tx, step), tx[step + 1])
    BY <2>1, RunSteps
  <2>3. RunTo(Old, Transaction(Old, case.op), Len(Transaction(Old, case.op))) = Commit(Old, case.op)
    BY DEF Commit, Run
  <2> QED
    BY <1>1, <2>2, <2>3, TransactionLength, Unpaused, CaseFacts
<1>5. CrashTyped'
  <2>1. marker' \in BOOLEAN /\ disturbed' \in BOOLEAN
    BY <1>1, ZenonT(30) DEF ChildBegin, ChildUnchanged, CrashTyped
  <2> QED
    BY <1>1, <1>2, <1>3, <2>1 DEF ChildBegin, ChildUnchanged, CrashTyped, Alive, CaseEnded
<1>6. ChildAt'
  BY <1>1, <1>2, <1>3, <1>4, Setups, <1>x
     DEF ChildBegin, SetUp, Base, ChildUnchanged, CrashTyped, HarnessAt, ChildAt, AtBoundary,
         Alive, CaseEnded
<1>7. HarnessAt'
  BY <1>1, <1>2, <1>3, <1>4, NoneAssumption
     DEF ChildBegin, ChildUnchanged, CrashTyped, HarnessAt, ChildAt, AtBoundary, Alive, CaseEnded,
         Awaiting, Reading, Crashed
<1> QED
  BY <1>5, <1>6, <1>7 DEF CrashFacts

LEMMA ChildStatementKeepsCase == ASSUME CrashFacts, ChildStatement PROVE CrashFacts'
<1>1. CrashTyped /\ ChildAt /\ HarnessAt /\ CaseKnown
  BY DEF CrashFacts, CrashTyped
<1>2. /\ cpc \in Alive /\ hpc \in Awaiting \cup {"done"} /\ hpc # "launch"
      /\ (hpc = "done" => case.family # "BACKEND")
      /\ UNCHANGED <<case, kind, hpc, verdict, before, after, replay, crash>>
  BY ChildLives DEF Child
<1>3. /\ Old' = Old /\ New' = New /\ SetUp' = SetUp /\ Base' = Base /\ Target' = Target
      /\ CaseKnown' = CaseKnown /\ \A d : Settled(d)' = Settled(d)
  BY <1>2, SameCase
<1>4. case.point \in {"STATEMENT", "BEGIN", "COMMIT", "BEFORE_COMMIT", "AFTER"} /\ (case.kill \/ case.point = "AFTER")
  BY <1>1, CaseFacts
<1>x. /\ RunTo(Old, tx', 0) = Old
      /\ RunTo(Old, tx, step + 1) = Execute(RunTo(Old, tx, step), tx[step + 1])
      /\ Len(Transaction(Old, case.op)) \in Nat
      /\ RunTo(Old, Transaction(Old, case.op), Len(Transaction(Old, case.op))) = Commit(Old, case.op)
      /\ (case.point \in {"AFTER", "COMMIT", "BEGIN"} => PausesBefore(case, tx) = 0)
      /\ (case.point # "AFTER" => case.then = <<>>)
  <2>1. step \in Nat
    BY <1>1 DEF CrashTyped
  <2>2. RunTo(Old, tx', 0) = Old /\ RunTo(Old, tx, step + 1) = Execute(RunTo(Old, tx, step), tx[step + 1])
    BY <2>1, RunSteps
  <2>3. RunTo(Old, Transaction(Old, case.op), Len(Transaction(Old, case.op))) = Commit(Old, case.op)
    BY DEF Commit, Run
  <2> QED
    BY <1>1, <2>2, <2>3, TransactionLength, Unpaused, CaseFacts
<1>5. CrashTyped'
  <2>1. marker' \in BOOLEAN /\ disturbed' \in BOOLEAN
    BY <1>1, ZenonT(30) DEF ChildStatement, ChildUnchanged, CrashTyped
  <2> QED
    BY <1>1, <1>2, <1>3, <2>1 DEF ChildStatement, ChildUnchanged, CrashTyped, Alive, CaseEnded
<1>6. ChildAt'
  BY <1>1, <1>2, <1>3, <1>4, Setups, <1>x
     DEF ChildStatement, SetUp, Base, ChildUnchanged, CrashTyped, HarnessAt, ChildAt, AtBoundary,
         Alive, CaseEnded
<1>7. HarnessAt'
  BY <1>1, <1>2, <1>3, <1>4, NoneAssumption
     DEF ChildStatement, ChildUnchanged, CrashTyped, HarnessAt, ChildAt, AtBoundary, Alive,
         CaseEnded, Awaiting, Reading, Crashed
<1> QED
  BY <1>5, <1>6, <1>7 DEF CrashFacts

LEMMA ChildStopsKeepsCase == ASSUME CrashFacts, ChildStops PROVE CrashFacts'
<1>1. CrashTyped /\ ChildAt /\ HarnessAt /\ CaseKnown
  BY DEF CrashFacts, CrashTyped
<1>2. /\ cpc \in Alive /\ hpc \in Awaiting \cup {"done"} /\ hpc # "launch"
      /\ (hpc = "done" => case.family # "BACKEND")
      /\ UNCHANGED <<case, kind, hpc, verdict, before, after, replay, crash>>
  BY ChildLives DEF Child
<1>3. /\ Old' = Old /\ New' = New /\ SetUp' = SetUp /\ Base' = Base /\ Target' = Target
      /\ CaseKnown' = CaseKnown /\ \A d : Settled(d)' = Settled(d)
  BY <1>2, SameCase
<1>4. case.point \in {"STATEMENT", "BEGIN", "COMMIT", "BEFORE_COMMIT", "AFTER"} /\ (case.kill \/ case.point = "AFTER")
  BY <1>1, CaseFacts
<1>x. /\ RunTo(Old, tx', 0) = Old
      /\ RunTo(Old, tx, step + 1) = Execute(RunTo(Old, tx, step), tx[step + 1])
      /\ Len(Transaction(Old, case.op)) \in Nat
      /\ RunTo(Old, Transaction(Old, case.op), Len(Transaction(Old, case.op))) = Commit(Old, case.op)
      /\ (case.point \in {"AFTER", "COMMIT", "BEGIN"} => PausesBefore(case, tx) = 0)
      /\ (case.point # "AFTER" => case.then = <<>>)
  <2>1. step \in Nat
    BY <1>1 DEF CrashTyped
  <2>2. RunTo(Old, tx', 0) = Old /\ RunTo(Old, tx, step + 1) = Execute(RunTo(Old, tx, step), tx[step + 1])
    BY <2>1, RunSteps
  <2>3. RunTo(Old, Transaction(Old, case.op), Len(Transaction(Old, case.op))) = Commit(Old, case.op)
    BY DEF Commit, Run
  <2> QED
    BY <1>1, <2>2, <2>3, TransactionLength, Unpaused, CaseFacts
<1>5. CrashTyped'
  <2>1. marker' \in BOOLEAN /\ disturbed' \in BOOLEAN
    BY <1>1, ZenonT(30) DEF ChildStops, ChildUnchanged, CrashTyped
  <2> QED
    BY <1>1, <1>2, <1>3, <2>1 DEF ChildStops, ChildUnchanged, CrashTyped, Alive, CaseEnded
<1>6. ChildAt'
  BY <1>1, <1>2, <1>3, <1>4, Setups, <1>x
     DEF ChildStops, SetUp, Base, ChildUnchanged, CrashTyped, HarnessAt, ChildAt, AtBoundary,
         Alive, CaseEnded
<1>7. HarnessAt'
  BY <1>1, <1>2, <1>3, <1>4, NoneAssumption
     DEF ChildStops, ChildUnchanged, CrashTyped, HarnessAt, ChildAt, AtBoundary, Alive, CaseEnded,
         Awaiting, Reading, Crashed
<1> QED
  BY <1>5, <1>6, <1>7 DEF CrashFacts

LEMMA ChildCommitKeepsCase == ASSUME CrashFacts, ChildCommit PROVE CrashFacts'
<1>1. CrashTyped /\ ChildAt /\ HarnessAt /\ CaseKnown
  BY DEF CrashFacts, CrashTyped
<1>2. /\ cpc \in Alive /\ hpc \in Awaiting \cup {"done"} /\ hpc # "launch"
      /\ (hpc = "done" => case.family # "BACKEND")
      /\ UNCHANGED <<case, kind, hpc, verdict, before, after, replay, crash>>
  BY ChildLives DEF Child
<1>3. /\ Old' = Old /\ New' = New /\ SetUp' = SetUp /\ Base' = Base /\ Target' = Target
      /\ CaseKnown' = CaseKnown /\ \A d : Settled(d)' = Settled(d)
  BY <1>2, SameCase
<1>4. case.point \in {"STATEMENT", "BEGIN", "COMMIT", "BEFORE_COMMIT", "AFTER"} /\ (case.kill \/ case.point = "AFTER")
  BY <1>1, CaseFacts
<1>x. /\ RunTo(Old, tx', 0) = Old
      /\ RunTo(Old, tx, step + 1) = Execute(RunTo(Old, tx, step), tx[step + 1])
      /\ Len(Transaction(Old, case.op)) \in Nat
      /\ RunTo(Old, Transaction(Old, case.op), Len(Transaction(Old, case.op))) = Commit(Old, case.op)
      /\ (case.point \in {"AFTER", "COMMIT", "BEGIN"} => PausesBefore(case, tx) = 0)
      /\ (case.point # "AFTER" => case.then = <<>>)
  <2>1. step \in Nat
    BY <1>1 DEF CrashTyped
  <2>2. RunTo(Old, tx', 0) = Old /\ RunTo(Old, tx, step + 1) = Execute(RunTo(Old, tx, step), tx[step + 1])
    BY <2>1, RunSteps
  <2>3. RunTo(Old, Transaction(Old, case.op), Len(Transaction(Old, case.op))) = Commit(Old, case.op)
    BY DEF Commit, Run
  <2> QED
    BY <1>1, <2>2, <2>3, TransactionLength, Unpaused, CaseFacts
<1>5. CrashTyped'
  <2>1. marker' \in BOOLEAN /\ disturbed' \in BOOLEAN
    BY <1>1, ZenonT(30) DEF ChildCommit, ChildUnchanged, CrashTyped
  <2> QED
    BY <1>1, <1>2, <1>3, <2>1 DEF ChildCommit, ChildUnchanged, CrashTyped, Alive, CaseEnded
<1>6. ChildAt'
  BY <1>1, <1>2, <1>3, <1>4, Setups, <1>x
     DEF ChildCommit, SetUp, Base, ChildUnchanged, CrashTyped, HarnessAt, ChildAt, AtBoundary,
         Alive, CaseEnded
<1>7. HarnessAt'
  BY <1>1, <1>2, <1>3, <1>4, NoneAssumption
     DEF ChildCommit, ChildUnchanged, CrashTyped, HarnessAt, ChildAt, AtBoundary, Alive, CaseEnded,
         Awaiting, Reading, Crashed
<1> QED
  BY <1>5, <1>6, <1>7 DEF CrashFacts

LEMMA ChildFinishKeepsCase == ASSUME CrashFacts, ChildFinish PROVE CrashFacts'
<1>1. CrashTyped /\ ChildAt /\ HarnessAt /\ CaseKnown
  BY DEF CrashFacts, CrashTyped
<1>2. /\ cpc \in Alive /\ hpc \in Awaiting \cup {"done"} /\ hpc # "launch"
      /\ (hpc = "done" => case.family # "BACKEND")
      /\ UNCHANGED <<case, kind, hpc, verdict, before, after, replay, crash>>
  BY ChildLives DEF Child
<1>3. /\ Old' = Old /\ New' = New /\ SetUp' = SetUp /\ Base' = Base /\ Target' = Target
      /\ CaseKnown' = CaseKnown /\ \A d : Settled(d)' = Settled(d)
  BY <1>2, SameCase
<1>4. case.point \in {"STATEMENT", "BEGIN", "COMMIT", "BEFORE_COMMIT", "AFTER"} /\ (case.kill \/ case.point = "AFTER")
  BY <1>1, CaseFacts
<1>x. /\ RunTo(Old, tx', 0) = Old
      /\ RunTo(Old, tx, step + 1) = Execute(RunTo(Old, tx, step), tx[step + 1])
      /\ Len(Transaction(Old, case.op)) \in Nat
      /\ RunTo(Old, Transaction(Old, case.op), Len(Transaction(Old, case.op))) = Commit(Old, case.op)
      /\ (case.point \in {"AFTER", "COMMIT", "BEGIN"} => PausesBefore(case, tx) = 0)
      /\ (case.point # "AFTER" => case.then = <<>>)
  <2>1. step \in Nat
    BY <1>1 DEF CrashTyped
  <2>2. RunTo(Old, tx', 0) = Old /\ RunTo(Old, tx, step + 1) = Execute(RunTo(Old, tx, step), tx[step + 1])
    BY <2>1, RunSteps
  <2>3. RunTo(Old, Transaction(Old, case.op), Len(Transaction(Old, case.op))) = Commit(Old, case.op)
    BY DEF Commit, Run
  <2> QED
    BY <1>1, <2>2, <2>3, TransactionLength, Unpaused, CaseFacts
<1>5. CrashTyped'
  <2>1. marker' \in BOOLEAN /\ disturbed' \in BOOLEAN
    BY <1>1, ZenonT(30) DEF ChildFinish, ChildUnchanged, CrashTyped
  <2> QED
    BY <1>1, <1>2, <1>3, <2>1 DEF ChildFinish, ChildUnchanged, CrashTyped, Alive, CaseEnded
<1>6. ChildAt'
  BY <1>1, <1>2, <1>3, <1>4, Setups, <1>x
     DEF ChildFinish, SetUp, Base, ChildUnchanged, CrashTyped, HarnessAt, ChildAt, AtBoundary,
         Alive, CaseEnded
<1>7. HarnessAt'
  BY <1>1, <1>2, <1>3, <1>4, NoneAssumption
     DEF ChildFinish, ChildUnchanged, CrashTyped, HarnessAt, ChildAt, AtBoundary, Alive, CaseEnded,
         Awaiting, Reading, Crashed
<1> QED
  BY <1>5, <1>6, <1>7 DEF CrashFacts

LEMMA ChildWitnessKeepsCase == ASSUME CrashFacts, ChildWitness PROVE CrashFacts'
<1>1. CrashTyped /\ ChildAt /\ HarnessAt /\ CaseKnown
  BY DEF CrashFacts, CrashTyped
<1>2. /\ cpc \in Alive /\ hpc \in Awaiting \cup {"done"} /\ hpc # "launch"
      /\ (hpc = "done" => case.family # "BACKEND")
      /\ UNCHANGED <<case, kind, hpc, verdict, before, after, replay, crash>>
  BY ChildLives DEF Child
<1>3. /\ Old' = Old /\ New' = New /\ SetUp' = SetUp /\ Base' = Base /\ Target' = Target
      /\ CaseKnown' = CaseKnown /\ \A d : Settled(d)' = Settled(d)
  BY <1>2, SameCase
<1>4. case.point \in {"STATEMENT", "BEGIN", "COMMIT", "BEFORE_COMMIT", "AFTER"} /\ (case.kill \/ case.point = "AFTER")
  BY <1>1, CaseFacts
<1>x. /\ RunTo(Old, tx', 0) = Old
      /\ RunTo(Old, tx, step + 1) = Execute(RunTo(Old, tx, step), tx[step + 1])
      /\ Len(Transaction(Old, case.op)) \in Nat
      /\ RunTo(Old, Transaction(Old, case.op), Len(Transaction(Old, case.op))) = Commit(Old, case.op)
      /\ (case.point \in {"AFTER", "COMMIT", "BEGIN"} => PausesBefore(case, tx) = 0)
      /\ (case.point # "AFTER" => case.then = <<>>)
  <2>1. step \in Nat
    BY <1>1 DEF CrashTyped
  <2>2. RunTo(Old, tx', 0) = Old /\ RunTo(Old, tx, step + 1) = Execute(RunTo(Old, tx, step), tx[step + 1])
    BY <2>1, RunSteps
  <2>3. RunTo(Old, Transaction(Old, case.op), Len(Transaction(Old, case.op))) = Commit(Old, case.op)
    BY DEF Commit, Run
  <2> QED
    BY <1>1, <2>2, <2>3, TransactionLength, Unpaused, CaseFacts
<1>5. CrashTyped'
  <2>1. marker' \in BOOLEAN /\ disturbed' \in BOOLEAN
    BY <1>1, ZenonT(30) DEF ChildWitness, ChildUnchanged, CrashTyped
  <2> QED
    BY <1>1, <1>2, <1>3, <2>1 DEF ChildWitness, ChildUnchanged, CrashTyped, Alive, CaseEnded
<1>6. ChildAt'
  BY <1>1, <1>2, <1>3, <1>4, Setups, <1>x
     DEF ChildWitness, SetUp, Base, ChildUnchanged, CrashTyped, HarnessAt, ChildAt, AtBoundary,
         Alive, CaseEnded
<1>7. HarnessAt'
  BY <1>1, <1>2, <1>3, <1>4, NoneAssumption
     DEF ChildWitness, ChildUnchanged, CrashTyped, HarnessAt, ChildAt, AtBoundary, Alive, CaseEnded,
         Awaiting, Reading, Crashed
<1> QED
  BY <1>5, <1>6, <1>7 DEF CrashFacts

LEMMA ChildMarkKeepsCase == ASSUME CrashFacts, ChildMark PROVE CrashFacts'
<1>1. CrashTyped /\ ChildAt /\ HarnessAt /\ CaseKnown
  BY DEF CrashFacts, CrashTyped
<1>2. /\ cpc \in Alive /\ hpc \in Awaiting \cup {"done"} /\ hpc # "launch"
      /\ (hpc = "done" => case.family # "BACKEND")
      /\ UNCHANGED <<case, kind, hpc, verdict, before, after, replay, crash>>
  BY ChildLives DEF Child
<1>3. /\ Old' = Old /\ New' = New /\ SetUp' = SetUp /\ Base' = Base /\ Target' = Target
      /\ CaseKnown' = CaseKnown /\ \A d : Settled(d)' = Settled(d)
  BY <1>2, SameCase
<1>4. case.point \in {"STATEMENT", "BEGIN", "COMMIT", "BEFORE_COMMIT", "AFTER"} /\ (case.kill \/ case.point = "AFTER")
  BY <1>1, CaseFacts
<1>x. /\ RunTo(Old, tx', 0) = Old
      /\ RunTo(Old, tx, step + 1) = Execute(RunTo(Old, tx, step), tx[step + 1])
      /\ Len(Transaction(Old, case.op)) \in Nat
      /\ RunTo(Old, Transaction(Old, case.op), Len(Transaction(Old, case.op))) = Commit(Old, case.op)
      /\ (case.point \in {"AFTER", "COMMIT", "BEGIN"} => PausesBefore(case, tx) = 0)
      /\ (case.point # "AFTER" => case.then = <<>>)
  <2>1. step \in Nat
    BY <1>1 DEF CrashTyped
  <2>2. RunTo(Old, tx', 0) = Old /\ RunTo(Old, tx, step + 1) = Execute(RunTo(Old, tx, step), tx[step + 1])
    BY <2>1, RunSteps
  <2>3. RunTo(Old, Transaction(Old, case.op), Len(Transaction(Old, case.op))) = Commit(Old, case.op)
    BY DEF Commit, Run
  <2> QED
    BY <1>1, <2>2, <2>3, TransactionLength, Unpaused, CaseFacts
<1>5. CrashTyped'
  <2>1. marker' \in BOOLEAN /\ disturbed' \in BOOLEAN
    BY <1>1, ZenonT(30) DEF ChildMark, ChildUnchanged, CrashTyped
  <2> QED
    BY <1>1, <1>2, <1>3, <2>1 DEF ChildMark, ChildUnchanged, CrashTyped, Alive, CaseEnded
<1>6. ChildAt'
  BY <1>1, <1>2, <1>3, <1>4, Setups, <1>x
     DEF ChildMark, SetUp, Base, ChildUnchanged, CrashTyped, HarnessAt, ChildAt, AtBoundary,
         Alive, CaseEnded
<1>7. HarnessAt'
  BY <1>1, <1>2, <1>3, <1>4, NoneAssumption
     DEF ChildMark, ChildUnchanged, CrashTyped, HarnessAt, ChildAt, AtBoundary, Alive, CaseEnded,
         Awaiting, Reading, Crashed
<1> QED
  BY <1>5, <1>6, <1>7 DEF CrashFacts

LEMMA ChildDiesKeepsCase == ASSUME CrashFacts, ChildDies PROVE CrashFacts'
<1>1. CrashTyped /\ ChildAt /\ HarnessAt /\ CaseKnown
  BY DEF CrashFacts, CrashTyped
<1>2. /\ cpc \in Alive /\ hpc \in Awaiting \cup {"done"} /\ hpc # "launch"
      /\ (hpc = "done" => case.family # "BACKEND")
      /\ UNCHANGED <<case, kind, hpc, verdict, before, after, replay, crash>>
  BY ChildLives DEF Child
<1>3. /\ Old' = Old /\ New' = New /\ SetUp' = SetUp /\ Base' = Base /\ Target' = Target
      /\ CaseKnown' = CaseKnown /\ \A d : Settled(d)' = Settled(d)
  BY <1>2, SameCase
<1>4. case.point \in {"STATEMENT", "BEGIN", "COMMIT", "BEFORE_COMMIT", "AFTER"} /\ (case.kill \/ case.point = "AFTER")
  BY <1>1, CaseFacts
<1>x. /\ RunTo(Old, tx', 0) = Old
      /\ RunTo(Old, tx, step + 1) = Execute(RunTo(Old, tx, step), tx[step + 1])
      /\ Len(Transaction(Old, case.op)) \in Nat
      /\ RunTo(Old, Transaction(Old, case.op), Len(Transaction(Old, case.op))) = Commit(Old, case.op)
      /\ (case.point \in {"AFTER", "COMMIT", "BEGIN"} => PausesBefore(case, tx) = 0)
      /\ (case.point # "AFTER" => case.then = <<>>)
  <2>1. step \in Nat
    BY <1>1 DEF CrashTyped
  <2>2. RunTo(Old, tx', 0) = Old /\ RunTo(Old, tx, step + 1) = Execute(RunTo(Old, tx, step), tx[step + 1])
    BY <2>1, RunSteps
  <2>3. RunTo(Old, Transaction(Old, case.op), Len(Transaction(Old, case.op))) = Commit(Old, case.op)
    BY DEF Commit, Run
  <2> QED
    BY <1>1, <2>2, <2>3, TransactionLength, Unpaused, CaseFacts
<1>5. CrashTyped'
  <2>1. marker' \in BOOLEAN /\ disturbed' \in BOOLEAN
    BY <1>1, ZenonT(30) DEF ChildDies, ChildUnchanged, CrashTyped
  <2> QED
    BY <1>1, <1>2, <1>3, <2>1 DEF ChildDies, ChildUnchanged, CrashTyped, Alive, CaseEnded
<1>6. ChildAt'
  BY <1>1, <1>2, <1>3, <1>4, Setups, <1>x
     DEF ChildDies, SetUp, Base, ChildUnchanged, CrashTyped, HarnessAt, ChildAt, AtBoundary,
         Alive, CaseEnded
<1>7. HarnessAt'
  BY <1>1, <1>2, <1>3, <1>4, NoneAssumption
     DEF ChildDies, ChildUnchanged, CrashTyped, HarnessAt, ChildAt, AtBoundary, Alive, CaseEnded,
         Awaiting, Reading, Crashed
<1> QED
  BY <1>5, <1>6, <1>7 DEF CrashFacts

LEMMA LaunchKeepsCase == ASSUME CrashFacts, Launch PROVE CrashFacts'
<1>1. CrashTyped /\ ChildAt /\ HarnessAt /\ CaseKnown
  BY DEF CrashFacts, CrashTyped
<1>2. UNCHANGED <<case, kind>>
  BY DEF Launch
<1>3. /\ Old' = Old /\ New' = New /\ SetUp' = SetUp /\ Base' = Base /\ Target' = Target
      /\ CaseKnown' = CaseKnown /\ \A d : Settled(d)' = Settled(d)
  BY <1>2, SameCase
<1>4. case.point \in {"STATEMENT", "BEGIN", "COMMIT", "BEFORE_COMMIT", "AFTER"} /\ (case.kill \/ case.point = "AFTER")
  BY <1>1, CaseFacts
<1>5. CrashTyped'
  <2>1. marker' \in BOOLEAN /\ disturbed' \in BOOLEAN
    BY <1>1, ZenonT(30) DEF Launch, ChildState, CrashTyped
  <2> QED
    BY <1>1, <1>2, <1>3, <2>1
       DEF Launch, ChildState, Observed, CrashTyped, Alive, CaseEnded, Awaiting, Reading
<1>6. ChildAt'
  BY <1>1, <1>2, <1>3, <1>4
     DEF Launch, ChildState, Observed, CrashTyped, HarnessAt, ChildAt, AtBoundary, Alive, CaseEnded,
         Awaiting, Reading
<1>7. HarnessAt'
  BY <1>1, <1>2, <1>3, <1>4, NoneAssumption
     DEF Launch, ChildState, Observed, CrashTyped, HarnessAt, ChildAt, AtBoundary, Alive, CaseEnded,
         Awaiting, Reading, Crashed
<1> QED
  BY <1>5, <1>6, <1>7 DEF CrashFacts

LEMMA AwaitCheckpointKeepsCase == ASSUME CrashFacts, AwaitCheckpoint PROVE CrashFacts'
<1>1. CrashTyped /\ ChildAt /\ HarnessAt /\ CaseKnown
  BY DEF CrashFacts, CrashTyped
<1>2. UNCHANGED <<case, kind>>
  BY DEF AwaitCheckpoint
<1>3. /\ Old' = Old /\ New' = New /\ SetUp' = SetUp /\ Base' = Base /\ Target' = Target
      /\ CaseKnown' = CaseKnown /\ \A d : Settled(d)' = Settled(d)
  BY <1>2, SameCase
<1>4. case.point \in {"STATEMENT", "BEGIN", "COMMIT", "BEFORE_COMMIT", "AFTER"} /\ (case.kill \/ case.point = "AFTER")
  BY <1>1, CaseFacts
<1>5. CrashTyped'
  <2>1. marker' \in BOOLEAN /\ disturbed' \in BOOLEAN
    BY <1>1, ZenonT(30) DEF AwaitCheckpoint, ChildState, CrashTyped
  <2> QED
    BY <1>1, <1>2, <1>3, <2>1
       DEF AwaitCheckpoint, ChildState, Observed, CrashTyped, Alive, CaseEnded, Awaiting, Reading
<1>6. ChildAt'
  BY <1>1, <1>2, <1>3, <1>4
     DEF AwaitCheckpoint, ChildState, Observed, CrashTyped, HarnessAt, ChildAt, AtBoundary,
         Alive, CaseEnded, Awaiting, Reading
<1>7. HarnessAt'
  BY <1>1, <1>2, <1>3, <1>4, NoneAssumption
     DEF AwaitCheckpoint, ChildState, Observed, CrashTyped, HarnessAt, ChildAt, AtBoundary,
         Alive, CaseEnded, Awaiting, Reading, Crashed
<1> QED
  BY <1>5, <1>6, <1>7 DEF CrashFacts

LEMMA AwaitChildFailedKeepsCase == ASSUME CrashFacts, AwaitChildFailed PROVE CrashFacts'
<1>1. CrashTyped /\ ChildAt /\ HarnessAt /\ CaseKnown
  BY DEF CrashFacts, CrashTyped
<1>2. UNCHANGED <<case, kind>>
  BY DEF AwaitChildFailed, Fail
<1>3. /\ Old' = Old /\ New' = New /\ SetUp' = SetUp /\ Base' = Base /\ Target' = Target
      /\ CaseKnown' = CaseKnown /\ \A d : Settled(d)' = Settled(d)
  BY <1>2, SameCase
<1>4. case.point \in {"STATEMENT", "BEGIN", "COMMIT", "BEFORE_COMMIT", "AFTER"} /\ (case.kill \/ case.point = "AFTER")
  BY <1>1, CaseFacts
<1>5. CrashTyped'
  <2>1. marker' \in BOOLEAN /\ disturbed' \in BOOLEAN
    BY <1>1, ZenonT(30) DEF AwaitChildFailed, Fail, ChildState, CrashTyped
  <2> QED
    BY <1>1, <1>2, <1>3, <2>1
       DEF AwaitChildFailed, Fail, ChildState, Observed, CrashTyped, Alive, CaseEnded, Awaiting,
           Reading
<1>6. ChildAt'
  BY <1>1, <1>2, <1>3, <1>4
     DEF AwaitChildFailed, Fail, ChildState, Observed, CrashTyped, HarnessAt, ChildAt,
         AtBoundary, Alive, CaseEnded, Awaiting, Reading
<1>7. HarnessAt'
  BY <1>1, <1>2, <1>3, <1>4, NoneAssumption
     DEF AwaitChildFailed, Fail, ChildState, Observed, CrashTyped, HarnessAt, ChildAt,
         AtBoundary, Alive, CaseEnded, Awaiting, Reading, Crashed
<1> QED
  BY <1>5, <1>6, <1>7 DEF CrashFacts

LEMMA AwaitDeadlineKeepsCase == ASSUME CrashFacts, AwaitDeadline PROVE CrashFacts'
<1>1. CrashTyped /\ ChildAt /\ HarnessAt /\ CaseKnown
  BY DEF CrashFacts, CrashTyped
<1>2. UNCHANGED <<case, kind>>
  BY DEF AwaitDeadline, Fail
<1>3. /\ Old' = Old /\ New' = New /\ SetUp' = SetUp /\ Base' = Base /\ Target' = Target
      /\ CaseKnown' = CaseKnown /\ \A d : Settled(d)' = Settled(d)
  BY <1>2, SameCase
<1>4. case.point \in {"STATEMENT", "BEGIN", "COMMIT", "BEFORE_COMMIT", "AFTER"} /\ (case.kill \/ case.point = "AFTER")
  BY <1>1, CaseFacts
<1>5. CrashTyped'
  <2>1. marker' \in BOOLEAN /\ disturbed' \in BOOLEAN
    BY <1>1, ZenonT(30) DEF AwaitDeadline, Fail, ChildState, CrashTyped
  <2> QED
    BY <1>1, <1>2, <1>3, <2>1
       DEF AwaitDeadline, Fail, ChildState, Observed, CrashTyped, Alive, CaseEnded, Awaiting, Reading
<1>6. ChildAt'
  BY <1>1, <1>2, <1>3, <1>4
     DEF AwaitDeadline, Fail, ChildState, Observed, CrashTyped, HarnessAt, ChildAt, AtBoundary,
         Alive, CaseEnded, Awaiting, Reading
<1>7. HarnessAt'
  BY <1>1, <1>2, <1>3, <1>4, NoneAssumption
     DEF AwaitDeadline, Fail, ChildState, Observed, CrashTyped, HarnessAt, ChildAt, AtBoundary,
         Alive, CaseEnded, Awaiting, Reading, Crashed
<1> QED
  BY <1>5, <1>6, <1>7 DEF CrashFacts

LEMMA ValidateBoundaryKeepsCase == ASSUME CrashFacts, ValidateBoundary PROVE CrashFacts'
<1>1. CrashTyped /\ ChildAt /\ HarnessAt /\ CaseKnown
  BY DEF CrashFacts, CrashTyped
<1>2. UNCHANGED <<case, kind>>
  BY DEF ValidateBoundary, Fail
<1>3. /\ Old' = Old /\ New' = New /\ SetUp' = SetUp /\ Base' = Base /\ Target' = Target
      /\ CaseKnown' = CaseKnown /\ \A d : Settled(d)' = Settled(d)
  BY <1>2, SameCase
<1>4. case.point \in {"STATEMENT", "BEGIN", "COMMIT", "BEFORE_COMMIT", "AFTER"} /\ (case.kill \/ case.point = "AFTER")
  BY <1>1, CaseFacts
<1>5. CrashTyped'
  <2>1. marker' \in BOOLEAN /\ disturbed' \in BOOLEAN
    BY <1>1, ZenonT(30) DEF ValidateBoundary, Fail, ChildState, CrashTyped
  <2> QED
    BY <1>1, <1>2, <1>3, <2>1
       DEF ValidateBoundary, Fail, ChildState, Observed, CrashTyped, Alive, CaseEnded, Awaiting,
           Reading
<1>6. ChildAt'
  BY <1>1, <1>2, <1>3, <1>4
     DEF ValidateBoundary, Fail, ChildState, Observed, CrashTyped, HarnessAt, ChildAt,
         AtBoundary, Alive, CaseEnded, Awaiting, Reading
<1>7. HarnessAt'
  BY <1>1, <1>2, <1>3, <1>4, NoneAssumption
     DEF ValidateBoundary, Fail, ChildState, Observed, CrashTyped, HarnessAt, ChildAt,
         AtBoundary, Alive, CaseEnded, Awaiting, Reading, Crashed
<1> QED
  BY <1>5, <1>6, <1>7 DEF CrashFacts

LEMMA KillKeepsCase == ASSUME CrashFacts, Kill PROVE CrashFacts'
<1>1. CrashTyped /\ ChildAt /\ HarnessAt /\ CaseKnown
  BY DEF CrashFacts, CrashTyped
<1>2. UNCHANGED <<case, kind>>
  BY DEF Kill
<1>3. /\ Old' = Old /\ New' = New /\ SetUp' = SetUp /\ Base' = Base /\ Target' = Target
      /\ CaseKnown' = CaseKnown /\ \A d : Settled(d)' = Settled(d)
  BY <1>2, SameCase
<1>4. case.point \in {"STATEMENT", "BEGIN", "COMMIT", "BEFORE_COMMIT", "AFTER"} /\ (case.kill \/ case.point = "AFTER")
  BY <1>1, CaseFacts
<1>5. CrashTyped'
  <2>1. marker' \in BOOLEAN /\ disturbed' \in BOOLEAN
    BY <1>1, ZenonT(30) DEF Kill, ChildState, CrashTyped
  <2> QED
    BY <1>1, <1>2, <1>3, <2>1
       DEF Kill, ChildState, Observed, CrashTyped, Alive, CaseEnded, Awaiting, Reading
<1>6. ChildAt'
  BY <1>1, <1>2, <1>3, <1>4
     DEF Kill, ChildState, Observed, CrashTyped, HarnessAt, ChildAt, AtBoundary, Alive, CaseEnded,
         Awaiting, Reading
<1>7. HarnessAt'
  <2>1. /\ hpc = "terminate" /\ case.kill /\ cpc \in Alive /\ cpc' = "killed"
        /\ crash' = [at |-> cpc, step |-> step]
        /\ db' \in IF case.point = "COMMIT" THEN {db, work} ELSE {db}
        /\ hpc' \in {"reopen", "before"}
        /\ UNCHANGED <<verdict, work, tx, step, baseline, witness, marker, before, after>>
    BY DEF Kill
  <2>2. cpc = "stopped" /\ AtBoundary /\ baseline = Base /\ kind # "INPUT"
    BY <1>1, <2>1 DEF ChildAt, HarnessAt, Alive, CaseEnded
  <2>3. case.point # "AFTER" => New = Commit(Old, case.op)
    BY <1>1, CaseFacts, NoneDone, Setups
  <2>4. RunTo(Old, Transaction(Old, case.op), Len(Transaction(Old, case.op))) = Commit(Old, case.op)
    BY DEF Commit, Run
  <2>5. Settled(db')
    BY <1>4, <2>1, <2>2, <2>3, <2>4 DEF AtBoundary, Settled
  <2>6. /\ case.point = "STATEMENT" => step = Ordinal[case.key]
        /\ case.point \in {"BEFORE_COMMIT", "COMMIT"} => step = Len(tx)
    <3>1. case.point = "BEFORE_COMMIT" => Len(tx) + 1 = step + 1 /\ Len(tx) \in Nat /\ step \in Nat
      BY <1>1, <2>2, PausedAtCommit, TransactionLength DEF AtBoundary, CrashTyped
    <3>2. case.point = "STATEMENT" => step + 1 = Ordinal[case.key] + 1 /\ step \in Nat /\ Ordinal[case.key] \in Nat
      BY <1>1, <2>2, Pauses DEF AtBoundary, CrashTyped
    <3> QED
      BY <2>2, <3>1, <3>2 DEF AtBoundary
  <2>7. Crashed'
    BY <1>2, <1>3, <2>1, <2>2, <2>6 DEF Crashed
  <2>8. verdict = None /\ before = None /\ after = None
    BY <1>1, <2>1 DEF CrashTyped, Awaiting
  <2> QED
    BY <1>1, <1>2, <1>3, <2>1, <2>2, <2>5, <2>7, <2>8, NoneAssumption
       DEF HarnessAt, Awaiting, Reading, Alive
<1> QED
  BY <1>5, <1>6, <1>7 DEF CrashFacts

LEMMA KillTooLateKeepsCase == ASSUME CrashFacts, KillTooLate PROVE CrashFacts'
<1>1. CrashTyped /\ ChildAt /\ HarnessAt /\ CaseKnown
  BY DEF CrashFacts, CrashTyped
<1>2. UNCHANGED <<case, kind>>
  BY DEF KillTooLate, Fail
<1>3. /\ Old' = Old /\ New' = New /\ SetUp' = SetUp /\ Base' = Base /\ Target' = Target
      /\ CaseKnown' = CaseKnown /\ \A d : Settled(d)' = Settled(d)
  BY <1>2, SameCase
<1>4. case.point \in {"STATEMENT", "BEGIN", "COMMIT", "BEFORE_COMMIT", "AFTER"} /\ (case.kill \/ case.point = "AFTER")
  BY <1>1, CaseFacts
<1>5. CrashTyped'
  <2>1. marker' \in BOOLEAN /\ disturbed' \in BOOLEAN
    BY <1>1, ZenonT(30) DEF KillTooLate, Fail, ChildState, CrashTyped
  <2> QED
    BY <1>1, <1>2, <1>3, <2>1
       DEF KillTooLate, Fail, ChildState, Observed, CrashTyped, Alive, CaseEnded, Awaiting, Reading
<1>6. ChildAt'
  BY <1>1, <1>2, <1>3, <1>4
     DEF KillTooLate, Fail, ChildState, Observed, CrashTyped, HarnessAt, ChildAt, AtBoundary,
         Alive, CaseEnded, Awaiting, Reading
<1>7. HarnessAt'
  BY <1>1, <1>2, <1>3, <1>4, NoneAssumption
     DEF KillTooLate, Fail, ChildState, Observed, CrashTyped, HarnessAt, ChildAt, AtBoundary,
         Alive, CaseEnded, Awaiting, Reading, Crashed
<1> QED
  BY <1>5, <1>6, <1>7 DEF CrashFacts

LEMMA ReleaseKeepsCase == ASSUME CrashFacts, Release PROVE CrashFacts'
<1>1. CrashTyped /\ ChildAt /\ HarnessAt /\ CaseKnown
  BY DEF CrashFacts, CrashTyped
<1>2. UNCHANGED <<case, kind>>
  BY DEF Release
<1>3. /\ Old' = Old /\ New' = New /\ SetUp' = SetUp /\ Base' = Base /\ Target' = Target
      /\ CaseKnown' = CaseKnown /\ \A d : Settled(d)' = Settled(d)
  BY <1>2, SameCase
<1>4. case.point \in {"STATEMENT", "BEGIN", "COMMIT", "BEFORE_COMMIT", "AFTER"} /\ (case.kill \/ case.point = "AFTER")
  BY <1>1, CaseFacts
<1>5. CrashTyped'
  <2>1. marker' \in BOOLEAN /\ disturbed' \in BOOLEAN
    BY <1>1, ZenonT(30) DEF Release, ChildState, CrashTyped
  <2> QED
    BY <1>1, <1>2, <1>3, <2>1
       DEF Release, ChildState, Observed, CrashTyped, Alive, CaseEnded, Awaiting, Reading
<1>6. ChildAt'
  BY <1>1, <1>2, <1>3, <1>4
     DEF Release, ChildState, Observed, CrashTyped, HarnessAt, ChildAt, AtBoundary, Alive, CaseEnded,
         Awaiting, Reading
<1>7. HarnessAt'
  BY <1>1, <1>2, <1>3, <1>4, NoneAssumption
     DEF Release, ChildState, Observed, CrashTyped, HarnessAt, ChildAt, AtBoundary, Alive, CaseEnded,
         Awaiting, Reading, Crashed
<1> QED
  BY <1>5, <1>6, <1>7 DEF CrashFacts

LEMMA ReleasedExitsKeepsCase == ASSUME CrashFacts, ReleasedExits PROVE CrashFacts'
<1>1. CrashTyped /\ ChildAt /\ HarnessAt /\ CaseKnown
  BY DEF CrashFacts, CrashTyped
<1>2. UNCHANGED <<case, kind>>
  BY DEF ReleasedExits, Fail
<1>3. /\ Old' = Old /\ New' = New /\ SetUp' = SetUp /\ Base' = Base /\ Target' = Target
      /\ CaseKnown' = CaseKnown /\ \A d : Settled(d)' = Settled(d)
  BY <1>2, SameCase
<1>4. case.point \in {"STATEMENT", "BEGIN", "COMMIT", "BEFORE_COMMIT", "AFTER"} /\ (case.kill \/ case.point = "AFTER")
  BY <1>1, CaseFacts
<1>5. CrashTyped'
  <2>1. marker' \in BOOLEAN /\ disturbed' \in BOOLEAN
    BY <1>1, ZenonT(30) DEF ReleasedExits, Fail, ChildState, CrashTyped
  <2> QED
    BY <1>1, <1>2, <1>3, <2>1
       DEF ReleasedExits, Fail, ChildState, Observed, CrashTyped, Alive, CaseEnded, Awaiting, Reading
<1>6. ChildAt'
  BY <1>1, <1>2, <1>3, <1>4
     DEF ReleasedExits, Fail, ChildState, Observed, CrashTyped, HarnessAt, ChildAt, AtBoundary,
         Alive, CaseEnded, Awaiting, Reading
<1>7. HarnessAt'
  <2>1. CASE cpc = "exited"
    <3>1. db = New /\ ~case.kill /\ case.point = "AFTER" /\ kind # "INPUT" /\ cpc' = "exited" /\ hpc' = "before" /\ db' = db
          /\ UNCHANGED <<verdict, work, tx, step, baseline, witness, marker, before, after>>
      BY <1>1, <1>4, <2>1
         DEF ReleasedExits, Fail, ChildState, Observed, HarnessAt, ChildAt, Awaiting, Alive
    <3>2. Settled(db)
      BY <3>1 DEF Settled
    <3>3. verdict = None /\ before = None /\ after = None
      BY <1>1 DEF ReleasedExits, CrashTyped, Awaiting
    <3>4. baseline = Base
      BY <1>1, <2>1, <3>1 DEF ChildAt
    <3> QED
      BY <1>1, <1>2, <1>3, <3>1, <3>2, <3>3, <3>4, NoneAssumption
         DEF HarnessAt, Crashed, Awaiting, Reading
  <2>2. CASE cpc # "exited"
    BY <1>1, <1>2, <1>3, <1>4, <2>2, NoneAssumption
       DEF ReleasedExits, Fail, ChildState, Observed, CrashTyped, HarnessAt, ChildAt, Alive,
           CaseEnded, Awaiting, Reading, Crashed
  <2> QED
    BY <2>1, <2>2
<1> QED
  BY <1>5, <1>6, <1>7 DEF CrashFacts

LEMMA ReleasedTimeoutKeepsCase == ASSUME CrashFacts, ReleasedTimeout PROVE CrashFacts'
<1>1. CrashTyped /\ ChildAt /\ HarnessAt /\ CaseKnown
  BY DEF CrashFacts, CrashTyped
<1>2. UNCHANGED <<case, kind>>
  BY DEF ReleasedTimeout, Fail
<1>3. /\ Old' = Old /\ New' = New /\ SetUp' = SetUp /\ Base' = Base /\ Target' = Target
      /\ CaseKnown' = CaseKnown /\ \A d : Settled(d)' = Settled(d)
  BY <1>2, SameCase
<1>4. case.point \in {"STATEMENT", "BEGIN", "COMMIT", "BEFORE_COMMIT", "AFTER"} /\ (case.kill \/ case.point = "AFTER")
  BY <1>1, CaseFacts
<1>5. CrashTyped'
  <2>1. marker' \in BOOLEAN /\ disturbed' \in BOOLEAN
    BY <1>1, ZenonT(30) DEF ReleasedTimeout, Fail, ChildState, CrashTyped
  <2> QED
    BY <1>1, <1>2, <1>3, <2>1
       DEF ReleasedTimeout, Fail, ChildState, Observed, CrashTyped, Alive, CaseEnded, Awaiting,
           Reading
<1>6. ChildAt'
  BY <1>1, <1>2, <1>3, <1>4
     DEF ReleasedTimeout, Fail, ChildState, Observed, CrashTyped, HarnessAt, ChildAt, AtBoundary,
         Alive, CaseEnded, Awaiting, Reading
<1>7. HarnessAt'
  BY <1>1, <1>2, <1>3, <1>4, NoneAssumption
     DEF ReleasedTimeout, Fail, ChildState, Observed, CrashTyped, HarnessAt, ChildAt, AtBoundary,
         Alive, CaseEnded, Awaiting, Reading, Crashed
<1> QED
  BY <1>5, <1>6, <1>7 DEF CrashFacts

LEMMA ReopenKeepsCase == ASSUME CrashFacts, Reopen PROVE CrashFacts'
<1>1. CrashTyped /\ ChildAt /\ HarnessAt /\ CaseKnown
  BY DEF CrashFacts, CrashTyped
<1>2. UNCHANGED <<case, kind>>
  BY DEF Reopen
<1>3. /\ Old' = Old /\ New' = New /\ SetUp' = SetUp /\ Base' = Base /\ Target' = Target
      /\ CaseKnown' = CaseKnown /\ \A d : Settled(d)' = Settled(d)
  BY <1>2, SameCase
<1>4. case.point \in {"STATEMENT", "BEGIN", "COMMIT", "BEFORE_COMMIT", "AFTER"} /\ (case.kill \/ case.point = "AFTER")
  BY <1>1, CaseFacts
<1>5. CrashTyped'
  <2>1. marker' \in BOOLEAN /\ disturbed' \in BOOLEAN
    BY <1>1, ZenonT(30) DEF Reopen, ChildState, CrashTyped
  <2> QED
    BY <1>1, <1>2, <1>3, <2>1
       DEF Reopen, ChildState, Observed, CrashTyped, Alive, CaseEnded, Awaiting, Reading
<1>6. ChildAt'
  BY <1>1, <1>2, <1>3, <1>4
     DEF Reopen, ChildState, Observed, CrashTyped, HarnessAt, ChildAt, AtBoundary, Alive, CaseEnded,
         Awaiting, Reading
<1>7. HarnessAt'
  BY <1>1, <1>2, <1>3, <1>4, NoneAssumption
     DEF Reopen, ChildState, Observed, CrashTyped, HarnessAt, ChildAt, AtBoundary, Alive, CaseEnded,
         Awaiting, Reading, Crashed
<1> QED
  BY <1>5, <1>6, <1>7 DEF CrashFacts

LEMMA ReadBeforeKeepsCase == ASSUME CrashFacts, ReadBefore PROVE CrashFacts'
<1>1. CrashTyped /\ ChildAt /\ HarnessAt /\ CaseKnown
  BY DEF CrashFacts, CrashTyped
<1>2. UNCHANGED <<case, kind>>
  BY DEF ReadBefore
<1>3. /\ Old' = Old /\ New' = New /\ SetUp' = SetUp /\ Base' = Base /\ Target' = Target
      /\ CaseKnown' = CaseKnown /\ \A d : Settled(d)' = Settled(d)
  BY <1>2, SameCase
<1>4. case.point \in {"STATEMENT", "BEGIN", "COMMIT", "BEFORE_COMMIT", "AFTER"} /\ (case.kill \/ case.point = "AFTER")
  BY <1>1, CaseFacts
<1>5. CrashTyped'
  <2>1. marker' \in BOOLEAN /\ disturbed' \in BOOLEAN
    BY <1>1, ZenonT(30) DEF ReadBefore, ChildState, CrashTyped
  <2> QED
    BY <1>1, <1>2, <1>3, <2>1
       DEF ReadBefore, ChildState, Observed, CrashTyped, Alive, CaseEnded, Awaiting, Reading
<1>6. ChildAt'
  BY <1>1, <1>2, <1>3, <1>4
     DEF ReadBefore, ChildState, Observed, CrashTyped, HarnessAt, ChildAt, AtBoundary, Alive,
         CaseEnded, Awaiting, Reading
<1>7. HarnessAt'
  BY <1>1, <1>2, <1>3, <1>4, NoneAssumption
     DEF ReadBefore, ChildState, Observed, CrashTyped, HarnessAt, ChildAt, AtBoundary, Alive,
         CaseEnded, Awaiting, Reading, Crashed
<1> QED
  BY <1>5, <1>6, <1>7 DEF CrashFacts

LEMMA RecoverKeepsCase == ASSUME CrashFacts, Recover PROVE CrashFacts'
<1>1. CrashTyped /\ ChildAt /\ HarnessAt /\ CaseKnown
  BY DEF CrashFacts, CrashTyped
<1>2. UNCHANGED <<case, kind>>
  BY DEF Recover
<1>3. /\ Old' = Old /\ New' = New /\ SetUp' = SetUp /\ Base' = Base /\ Target' = Target
      /\ CaseKnown' = CaseKnown /\ \A d : Settled(d)' = Settled(d)
  BY <1>2, SameCase
<1>4. case.point \in {"STATEMENT", "BEGIN", "COMMIT", "BEFORE_COMMIT", "AFTER"} /\ (case.kill \/ case.point = "AFTER")
  BY <1>1, CaseFacts
<1>5. CrashTyped'
  <2>1. marker' \in BOOLEAN /\ disturbed' \in BOOLEAN
    BY <1>1, ZenonT(30) DEF Recover, ChildState, CrashTyped
  <2> QED
    BY <1>1, <1>2, <1>3, <2>1
       DEF Recover, ChildState, Observed, CrashTyped, Alive, CaseEnded, Awaiting, Reading
<1>6. ChildAt'
  <2>1. Settled(db) /\ cpc \in {"killed", "exited"} /\ kind # "INPUT"
    BY <1>1 DEF Recover, HarnessAt, Reading
  <2>2. db' = Target
    BY <1>1, <2>1, Converges, CaseFacts DEF Recover, HarnessAt, Target
  <2> QED
    BY <1>1, <1>2, <1>3, <1>4, <2>1, <2>2 DEF Recover, ChildAt, AtBoundary, Alive, CaseEnded
<1>7. HarnessAt'
  <2>1. Settled(db) /\ cpc \in {"killed", "exited"} /\ kind # "INPUT"
    BY <1>1 DEF Recover, HarnessAt, Reading
  <2>2. db' = Target
    BY <1>1, <2>1, Converges, CaseFacts DEF Recover, HarnessAt, Target
  <2> QED
    BY <1>1, <1>2, <1>3, <1>4, <2>1, <2>2, NoneAssumption
       DEF Recover, CrashTyped, HarnessAt, Awaiting, Reading, Crashed
<1> QED
  BY <1>5, <1>6, <1>7 DEF CrashFacts

LEMMA ReadAfterKeepsCase == ASSUME CrashFacts, ReadAfter PROVE CrashFacts'
<1>1. CrashTyped /\ ChildAt /\ HarnessAt /\ CaseKnown
  BY DEF CrashFacts, CrashTyped
<1>2. UNCHANGED <<case, kind>>
  BY DEF ReadAfter
<1>3. /\ Old' = Old /\ New' = New /\ SetUp' = SetUp /\ Base' = Base /\ Target' = Target
      /\ CaseKnown' = CaseKnown /\ \A d : Settled(d)' = Settled(d)
  BY <1>2, SameCase
<1>4. case.point \in {"STATEMENT", "BEGIN", "COMMIT", "BEFORE_COMMIT", "AFTER"} /\ (case.kill \/ case.point = "AFTER")
  BY <1>1, CaseFacts
<1>5. CrashTyped'
  <2>1. marker' \in BOOLEAN /\ disturbed' \in BOOLEAN
    BY <1>1, ZenonT(30) DEF ReadAfter, ChildState, CrashTyped
  <2> QED
    BY <1>1, <1>2, <1>3, <2>1
       DEF ReadAfter, ChildState, Observed, CrashTyped, Alive, CaseEnded, Awaiting, Reading
<1>6. ChildAt'
  BY <1>1, <1>2, <1>3, <1>4
     DEF ReadAfter, ChildState, Observed, CrashTyped, HarnessAt, ChildAt, AtBoundary, Alive,
         CaseEnded, Awaiting, Reading
<1>7. HarnessAt'
  BY <1>1, <1>2, <1>3, <1>4, NoneAssumption
     DEF ReadAfter, ChildState, Observed, CrashTyped, HarnessAt, ChildAt, AtBoundary, Alive,
         CaseEnded, Awaiting, Reading, Crashed
<1> QED
  BY <1>5, <1>6, <1>7 DEF CrashFacts

LEMMA SuccessorFailsKeepsCase == ASSUME CrashFacts, SuccessorFails PROVE CrashFacts'
<1>1. CrashTyped /\ ChildAt /\ HarnessAt /\ CaseKnown
  BY DEF CrashFacts, CrashTyped
<1>2. UNCHANGED <<case, kind>>
  BY DEF SuccessorFails, Fail
<1>3. /\ Old' = Old /\ New' = New /\ SetUp' = SetUp /\ Base' = Base /\ Target' = Target
      /\ CaseKnown' = CaseKnown /\ \A d : Settled(d)' = Settled(d)
  BY <1>2, SameCase
<1>4. case.point \in {"STATEMENT", "BEGIN", "COMMIT", "BEFORE_COMMIT", "AFTER"} /\ (case.kill \/ case.point = "AFTER")
  BY <1>1, CaseFacts
<1>5. CrashTyped'
  <2>1. marker' \in BOOLEAN /\ disturbed' \in BOOLEAN
    BY <1>1, ZenonT(30) DEF SuccessorFails, Fail, ChildState, CrashTyped
  <2> QED
    BY <1>1, <1>2, <1>3, <2>1
       DEF SuccessorFails, Fail, ChildState, Observed, CrashTyped, Alive, CaseEnded, Awaiting,
           Reading
<1>6. ChildAt'
  BY <1>1, <1>2, <1>3, <1>4
     DEF SuccessorFails, Fail, ChildState, Observed, CrashTyped, HarnessAt, ChildAt, AtBoundary,
         Alive, CaseEnded, Awaiting, Reading
<1>7. HarnessAt'
  BY <1>1, <1>2, <1>3, <1>4, NoneAssumption
     DEF SuccessorFails, Fail, ChildState, Observed, CrashTyped, HarnessAt, ChildAt, AtBoundary,
         Alive, CaseEnded, Awaiting, Reading, Crashed
<1> QED
  BY <1>5, <1>6, <1>7 DEF CrashFacts

LEMMA CompareKeepsCase == ASSUME CrashFacts, Compare PROVE CrashFacts'
<1>1. CrashTyped /\ ChildAt /\ HarnessAt /\ CaseKnown
  BY DEF CrashFacts, CrashTyped
<1>2. UNCHANGED <<case, kind>>
  BY DEF Compare, Fail
<1>3. /\ Old' = Old /\ New' = New /\ SetUp' = SetUp /\ Base' = Base /\ Target' = Target
      /\ CaseKnown' = CaseKnown /\ \A d : Settled(d)' = Settled(d)
  BY <1>2, SameCase
<1>4. case.point \in {"STATEMENT", "BEGIN", "COMMIT", "BEFORE_COMMIT", "AFTER"} /\ (case.kill \/ case.point = "AFTER")
  BY <1>1, CaseFacts
<1>5. CrashTyped'
  <2>1. marker' \in BOOLEAN /\ disturbed' \in BOOLEAN
    BY <1>1, ZenonT(30) DEF Compare, Fail, ChildState, CrashTyped
  <2> QED
    BY <1>1, <1>2, <1>3, <2>1
       DEF Compare, Fail, ChildState, Observed, CrashTyped, Alive, CaseEnded, Awaiting, Reading
<1>6. ChildAt'
  BY <1>1, <1>2, <1>3, <1>4
     DEF Compare, Fail, ChildState, Observed, CrashTyped, HarnessAt, ChildAt, AtBoundary, Alive,
         CaseEnded, Awaiting, Reading
<1>7. HarnessAt'
  BY <1>1, <1>2, <1>3, <1>4, NoneAssumption
     DEF Compare, Fail, ChildState, Observed, CrashTyped, HarnessAt, ChildAt, AtBoundary, Alive,
         CaseEnded, Awaiting, Reading, Crashed
<1> QED
  BY <1>5, <1>6, <1>7 DEF CrashFacts

-----------------------------------------------------------------------------
(* What an undisturbed case comes to.                                      *)
Witnessed ==
  [inTx   |-> case.point \in {"STATEMENT", "BEFORE_COMMIT", "COMMIT"},
   tables |-> work,
   answer |-> IF case.point = "AFTER" THEN Answer(Base, case.op) ELSE None]

Due == CASE kind = "NONE"     -> "PASS"
              [] kind = "EXPECTED" -> "E_GAP_STATE_MISMATCH"
              [] OTHER             -> "CONTENT_HASH_MISMATCH"

CaseUndisturbed ==
  /\ kind # "NONE" => case.family = "GAP"
  /\ cpc = "running" /\ case.point = "STATEMENT" => step < PausesBefore(case, tx)
  /\ cpc = "after" => case.point = "AFTER"
  /\ cpc = "failed" => disturbed = TRUE
  /\ cpc \in {"verify", "rejected"} /\ kind = "INPUT" => hpc \in {"released", "done"}
  /\ cpc \in {"witnessed", "stopped"} => witness = {Witnessed}
  /\ hpc = "boundary" => case.family = "BACKEND"
  /\ hpc \in {"read_after", "compare"} /\ case.family = "BACKEND" => replay = Answer(before, case.op)
  /\ hpc = "done" => disturbed = TRUE \/ verdict = Due

LEMMA CaseUndisturbedStarts == Init => CaseUndisturbed
BY DEF Init, CaseUndisturbed, Awaiting

LEMMA SameCaseTold ==
  ASSUME case' = case
  PROVE  /\ \A d : (Answer(d, case.op))' = Answer(d', case.op)
         /\ work' = work => Witnessed' = Witnessed
         /\ kind' = kind => Due' = Due
<1>1. Base' = Base
  BY SameCase
<1> QED
  BY <1>1 DEF Witnessed, Due

(* A backend child that stands at its boundary shows the harness what it   *)
(* expects to see there.                                                   *)
LEMMA HoldsAtBoundary ==
  ASSUME CaseKnown, case.family = "BACKEND", AtBoundary, witness = {Witnessed}, step \in Nat
  PROVE  BoundaryHolds
<1>1. PICK key \in BackendKeys : case = BackendScenario(key)
  BY DEF CaseKnown, GapScenario
<1>2. case.key = key /\ Base = Old
  BY <1>1, BackendStores
<1>3. /\ Witnessed.tables = work
      /\ case.point = "AFTER" => Witnessed.answer = Answer(Old, case.op)
  BY <1>2 DEF Witnessed
<1>3a. case.point \notin {"BEFORE_COMMIT", "COMMIT"} => Witnessed.inTx = (case.point = "STATEMENT")
  <2>1. Witnessed.inTx = (case.point \in {"STATEMENT", "BEFORE_COMMIT", "COMMIT"})
    BY DEF Witnessed
  <2>2. case.point \notin {"BEFORE_COMMIT", "COMMIT"} =>
          ((case.point \in {"STATEMENT", "BEFORE_COMMIT", "COMMIT"}) = (case.point = "STATEMENT"))
    OBVIOUS
  <2> QED
    BY <2>1, <2>2, Zenon
<1>4. CASE key \in SqlKeys
  <2>1. Old = P0 /\ case.point = "STATEMENT"
    BY <1>1, <1>4, BackendStores DEF SqlKeys, GapKeys
  <2>2. key \notin GapKeys \cup {"GAP-10", "LATE-01", "ACK-06", "SQL-07"}
    BY <1>4 DEF SqlKeys, GapKeys
  <2>3. tx = ChainTx(0) /\ step = Ordinal[key] /\ Ordinal[key] \in 1..5 /\ work = RunTo(P0, ChainTx(0), step)
    <3>1. /\ tx = Transaction(Old, case.op) /\ work = RunTo(Old, tx, step)
          /\ PausesBefore(case, tx) = step + 1
      BY <2>1 DEF AtBoundary
    <3>2. /\ PausesBefore(case, Transaction(Old, case.op)) = Ordinal[key] + 1
          /\ Transaction(Old, case.op) = ChainTx(0) /\ Ordinal[key] \in 1..5
      BY <1>2, <1>4, <2>1, Pauses
    <3> QED
      BY <2>1, <3>1, <3>2
  <2>4. ChainWritten(work, Ordinal[key])
    BY <2>3, ChainBoundary
  <2>5. Snapshot(db) = Oracle(FALSE, FALSE)
    BY <1>3, <2>1, Oracles DEF AtBoundary
  <2>6. Witnessed.inTx = (case.point = "STATEMENT")
    BY <1>3a, <2>1
  <2>7. (case.key \in GapKeys \cup {"GAP-10", "LATE-01", "ACK-06"}) = FALSE /\ (case.key = "LATE-01") = FALSE
    BY <1>2, <2>2
  <2>8. Snapshot(db) = Oracle(case.key \in GapKeys \cup {"GAP-10", "LATE-01", "ACK-06"}, case.key = "LATE-01")
    BY <2>5, <2>7, Zenon
  <2> QED
    BY <1>2, <1>3, <1>4, <2>6, <2>1, <2>2, <2>4, <2>8 DEF BoundaryHolds
<1>5. CASE key \in GapKeys
  <2>1. Old = A0 /\ case.point = "STATEMENT"
    BY <1>1, <1>5, BackendStores DEF SqlKeys, GapKeys
  <2>2. key \notin SqlKeys \cup {"GAP-10", "LATE-01", "ACK-06", "SQL-07"}
    BY <1>5 DEF SqlKeys, GapKeys
  <2>3. step = Ordinal[key] /\ Ordinal[key] \in 1..8 /\ work = RunTo(A0, GapTx(A0, 0, "QUARANTINED_GAP"), step)
    <3>1. /\ tx = Transaction(Old, case.op) /\ work = RunTo(Old, tx, step)
          /\ PausesBefore(case, tx) = step + 1
      BY <2>1 DEF AtBoundary
    <3>2. /\ PausesBefore(case, Transaction(Old, case.op)) = Ordinal[key] + 1
          /\ Transaction(Old, case.op) = GapTx(A0, 0, "QUARANTINED_GAP") /\ Ordinal[key] \in 1..8
      BY <1>2, <1>5, <2>1, Pauses
    <3> QED
      BY <2>1, <3>1, <3>2
  <2>4. GapWritten(work, Ordinal[key])
    BY <2>3, GapBoundary
  <2>5. Snapshot(db) = Oracle(TRUE, FALSE)
    BY <1>3, <2>1, Oracles DEF AtBoundary
  <2>6. Witnessed.inTx = (case.point = "STATEMENT")
    BY <1>3a, <2>1
  <2> QED
    BY <1>2, <1>3, <1>5, <2>6, <2>1, <2>2, <2>4, <2>5 DEF BoundaryHolds
<1>6. CASE key \in {"SEND-01", "SQL-06", "SQL-07", "ACK-06", "GAP-10", "LATE-01"}
  <2>1. key \notin SqlKeys \cup GapKeys
    BY <1>6 DEF SqlKeys, GapKeys
  <2>2. case.point = CASE key = "SEND-01" -> "BEGIN" [] key = "SQL-06" -> "COMMIT" [] OTHER -> "AFTER"
    BY <1>1, <2>1, BackendStores
  <2>3. CASE key = "SEND-01"
    <3>2. Old = P0 /\ case.point = "BEGIN"
      BY <1>1, <2>2, <2>3, BackendStores
    <3>3. Witnessed.inTx = (case.point = "STATEMENT")
      BY <1>3a, <3>2
    <3>1. Snapshot(db) = Oracle(FALSE, FALSE) /\ case.point = "BEGIN"
      BY <1>3, <3>2, <3>3, Oracles DEF AtBoundary
    <3> QED
      BY <1>2, <2>1, <2>3, <3>1, <3>3 DEF BoundaryHolds
  <2>4. CASE key = "SQL-06"
    <3>1. case.point = "COMMIT"
      BY <2>2, <2>4
    <3> QED
      BY <1>2, <2>1, <2>4, <3>1 DEF BoundaryHolds
  <2>5. CASE key = "SQL-07"
    <3>2. Old = P0 /\ New = A0 /\ case.point = "AFTER" /\ case.op = Deliver(0, 1)
      BY <1>1, <2>2, <2>5, BackendStores
    <3>3. Witnessed.inTx = (case.point = "STATEMENT")
      BY <1>3a, <3>2
    <3>1. Snapshot(db) = Oracle(TRUE, FALSE) /\ case.point = "AFTER" /\ Witnessed.answer = "ACK"
      BY <1>3, <3>2, <3>3, Oracles, StoreAnswers DEF AtBoundary
    <3> QED
      BY <1>2, <2>1, <2>5, <3>1, <3>3 DEF BoundaryHolds
  <2>6. CASE key = "ACK-06"
    <3>2. Old = A0 /\ New = A0 /\ case.point = "AFTER" /\ case.op = Deliver(0, 1)
      BY <1>1, <2>2, <2>6, BackendStores
    <3>3. Witnessed.inTx = (case.point = "STATEMENT")
      BY <1>3a, <3>2
    <3>1. Snapshot(db) = Oracle(TRUE, FALSE) /\ case.point = "AFTER" /\ Witnessed.answer = "ACK"
      BY <1>3, <3>2, <3>3, Oracles, StoreAnswers DEF AtBoundary
    <3> QED
      BY <1>2, <2>1, <2>6, <3>1, <3>3 DEF BoundaryHolds
  <2>7. CASE key = "GAP-10"
    <3>2. Old = A0 /\ New = B0 /\ case.point = "AFTER" /\ case.op = Deliver(0, 3)
      BY <1>1, <2>2, <2>7, BackendStores
    <3>3. Witnessed.inTx = (case.point = "STATEMENT")
      BY <1>3a, <3>2
    <3>1. Snapshot(db) = Oracle(TRUE, TRUE) /\ case.point = "AFTER" /\ Witnessed.answer = "E_INGEST_GAP"
      BY <1>3, <3>2, <3>3, Oracles, StoreAnswers DEF AtBoundary
    <3> QED
      BY <1>2, <2>1, <2>7, <3>1, <3>3 DEF BoundaryHolds
  <2>8. CASE key = "LATE-01"
    <3>2. Old = B0 /\ New = B0 /\ case.point = "AFTER" /\ case.op = Deliver(0, 2)
      BY <1>1, <2>2, <2>8, BackendStores
    <3>3. Witnessed.inTx = (case.point = "STATEMENT")
      BY <1>3a, <3>2
    <3>1. /\ Snapshot(db) = Oracle(TRUE, TRUE) /\ case.point = "AFTER"
          /\ Witnessed.answer = "E_INGEST_GENERATION_CLOSED"
      BY <1>3, <3>2, <3>3, Oracles, StoreAnswers DEF AtBoundary
    <3> QED
      BY <1>2, <2>1, <2>8, <3>1, <3>3 DEF BoundaryHolds
  <2> QED
    BY <1>6, <2>3, <2>4, <2>5, <2>6, <2>7, <2>8
<1> QED
  BY <1>4, <1>5, <1>6 DEF BackendKeys

(* And what the readers saw of an undisturbed case is what its oracle, the *)
(* evolution and the recovery predicates ask for.                          *)
LEMMA ComparesHonestly ==
  ASSUME CaseKnown, Settled(before), after = Target, baseline = Base,
         kind \in {"NONE", "EXPECTED"}, kind # "NONE" => case.family = "GAP",
         case.family = "BACKEND" => replay = Answer(before, case.op)
  PROVE  (IF case.family = "GAP" THEN GapVerdict
          ELSE IF BackendMatches THEN "PASS" ELSE "E_RESTART_STATE_MISMATCH") = Due
<1>1. CASE case.family = "GAP"
  <2>1. Honest(before)
    BY <1>1, GapFamily
  <2>2. /\ StateEvolution(baseline, before) /\ StateEvolution(before, after)
        /\ RecoveryHolds(case, before, after)
        /\ \E o \in GapExpected(case) : SemanticView(case, baseline, before, DOMAIN o.deltas) = o
    BY <2>1 DEF Honest
  <2>3. GapMatches <=> kind = "NONE"
    BY <2>2 DEF GapMatches
  <2>4. GapVerdict = IF GapMatches THEN "PASS" ELSE "E_GAP_STATE_MISMATCH"
    BY <2>2, Zenon DEF GapVerdict
  <2> QED
    BY <1>1, <2>3, <2>4 DEF Due
<1>2. CASE case.family # "GAP"
  <2>1. case.family = "BACKEND" /\ kind = "NONE"
    BY <1>2, CaseFacts
  <2>2. Target = New
    BY <2>1 DEF Target
  <2>3. [before |-> Snapshot(before), after |-> Snapshot(New), replay |-> Answer(before, case.op)] \in BackendExpected(case)
    BY <2>1, BackendFamily
  <2>4. BackendMatches
    BY <2>1, <2>2, <2>3 DEF BackendMatches
  <2> QED
    BY <1>2, <2>1, <2>4 DEF Due
<1> QED
  BY <1>1, <1>2

LEMMA ChildProvisionTold ==
  ASSUME CrashFacts, CaseUndisturbed, ChildProvision
  PROVE  CaseUndisturbed'
<1>1. CrashTyped /\ ChildAt /\ HarnessAt /\ CaseKnown
  BY DEF CrashFacts, CrashTyped
<1>2. /\ cpc \in Alive /\ hpc \in Awaiting \cup {"done"} /\ hpc # "launch"
      /\ UNCHANGED <<case, kind, hpc, verdict, before, after, replay, crash>>
  BY ChildLives DEF Child
<1>3. (work' = work => Witnessed' = Witnessed) /\ Due' = Due
  BY <1>2, SameCaseTold
<1> QED
  BY <1>1, <1>2, <1>3
     DEF ChildProvision, ChildUnchanged, CrashTyped, ChildAt, HarnessAt, CaseUndisturbed, Alive,
         Awaiting

LEMMA ChildReleasedTold ==
  ASSUME CrashFacts, CaseUndisturbed, ChildReleased
  PROVE  CaseUndisturbed'
<1>1. CrashTyped /\ ChildAt /\ HarnessAt /\ CaseKnown
  BY DEF CrashFacts, CrashTyped
<1>2. /\ cpc \in Alive /\ hpc \in Awaiting \cup {"done"} /\ hpc # "launch"
      /\ UNCHANGED <<case, kind, hpc, verdict, before, after, replay, crash>>
  BY ChildLives DEF Child
<1>3. (work' = work => Witnessed' = Witnessed) /\ Due' = Due
  BY <1>2, SameCaseTold
<1> QED
  BY <1>1, <1>2, <1>3
     DEF ChildReleased, ChildUnchanged, CrashTyped, ChildAt, HarnessAt, CaseUndisturbed, Alive,
         Awaiting

LEMMA ChildPrepareTold == ASSUME CrashFacts, CaseUndisturbed, ChildPrepare PROVE CaseUndisturbed'
<1>1. CrashTyped /\ ChildAt /\ HarnessAt /\ CaseKnown
  BY DEF CrashFacts, CrashTyped
<1>2. /\ cpc \in Alive /\ hpc \in Awaiting \cup {"done"} /\ hpc # "launch"
      /\ UNCHANGED <<case, kind, hpc, verdict, before, after, replay, crash>>
  BY ChildLives DEF Child
<1>3. (work' = work => Witnessed' = Witnessed) /\ Due' = Due
  BY <1>2, SameCaseTold
<1> QED
  BY <1>1, <1>2, <1>3
     DEF ChildPrepare, ChildUnchanged, CrashTyped, ChildAt, HarnessAt, CaseUndisturbed, Alive,
         Awaiting

LEMMA ChildBeginTold == ASSUME CrashFacts, CaseUndisturbed, ChildBegin PROVE CaseUndisturbed'
<1>1. CrashTyped /\ ChildAt /\ HarnessAt /\ CaseKnown
  BY DEF CrashFacts, CrashTyped
<1>2. /\ cpc \in Alive /\ hpc \in Awaiting \cup {"done"} /\ hpc # "launch"
      /\ UNCHANGED <<case, kind, hpc, verdict, before, after, replay, crash>>
  BY ChildLives DEF Child
<1>3. (work' = work => Witnessed' = Witnessed) /\ Due' = Due
  BY <1>2, SameCaseTold
<1>4. db = Old /\ step = 0
  BY <1>1 DEF ChildBegin, ChildAt
<1>5. case.point = "STATEMENT" => 0 < PausesBefore(case, Transaction(Old, case.op))
  BY <1>1, Pauses
<1> QED
  BY <1>1, <1>2, <1>3, <1>4, <1>5
     DEF ChildBegin, ChildUnchanged, CrashTyped, ChildAt, HarnessAt, CaseUndisturbed, Alive,
         Awaiting

LEMMA ChildStatementTold ==
  ASSUME CrashFacts, CaseUndisturbed, ChildStatement
  PROVE  CaseUndisturbed'
<1>1. CrashTyped /\ ChildAt /\ HarnessAt /\ CaseKnown
  BY DEF CrashFacts, CrashTyped
<1>2. /\ cpc \in Alive /\ hpc \in Awaiting \cup {"done"} /\ hpc # "launch"
      /\ UNCHANGED <<case, kind, hpc, verdict, before, after, replay, crash>>
  BY ChildLives DEF Child
<1>3. (work' = work => Witnessed' = Witnessed) /\ Due' = Due
  BY <1>2, SameCaseTold
<1>5. tx = Transaction(Old, case.op) /\ step \in Nat
  BY <1>1 DEF ChildStatement, ChildAt, CrashTyped
<1>6. case.point = "STATEMENT" => PausesBefore(case, tx) \in Nat
  BY <1>1, <1>5, Pauses
<1> QED
  BY <1>1, <1>2, <1>3, <1>5, <1>6
     DEF ChildStatement, ChildUnchanged, CrashTyped, ChildAt, HarnessAt, CaseUndisturbed, Alive,
         Awaiting

LEMMA ChildStopsTold == ASSUME CrashFacts, CaseUndisturbed, ChildStops PROVE CaseUndisturbed'
<1>1. CrashTyped /\ ChildAt /\ HarnessAt /\ CaseKnown
  BY DEF CrashFacts, CrashTyped
<1>2. /\ cpc \in Alive /\ hpc \in Awaiting \cup {"done"} /\ hpc # "launch"
      /\ UNCHANGED <<case, kind, hpc, verdict, before, after, replay, crash>>
  BY ChildLives DEF Child
<1>3. (work' = work => Witnessed' = Witnessed) /\ Due' = Due
  BY <1>2, SameCaseTold
<1> QED
  BY <1>1, <1>2, <1>3
     DEF ChildStops, ChildUnchanged, CrashTyped, ChildAt, HarnessAt, CaseUndisturbed, Alive,
         Awaiting

LEMMA ChildCommitTold == ASSUME CrashFacts, CaseUndisturbed, ChildCommit PROVE CaseUndisturbed'
<1>1. CrashTyped /\ ChildAt /\ HarnessAt /\ CaseKnown
  BY DEF CrashFacts, CrashTyped
<1>2. /\ cpc \in Alive /\ hpc \in Awaiting \cup {"done"} /\ hpc # "launch"
      /\ UNCHANGED <<case, kind, hpc, verdict, before, after, replay, crash>>
  BY ChildLives DEF Child
<1>3. (work' = work => Witnessed' = Witnessed) /\ Due' = Due
  BY <1>2, SameCaseTold
<1>5. tx = Transaction(Old, case.op) /\ step \in Nat /\ step = Len(tx) /\ PausesBefore(case, tx) # step + 1
      /\ case.point \notin {"COMMIT", "BEGIN"}
  BY <1>1 DEF ChildCommit, ChildAt, CrashTyped
<1>6. case.point # "STATEMENT"
  <2> SUFFICES ASSUME case.point = "STATEMENT" PROVE FALSE
    OBVIOUS
  <2>1. step < PausesBefore(case, tx) /\ cpc = "running"
    BY DEF CaseUndisturbed, ChildCommit
  <2>2. PausesBefore(case, tx) = Ordinal[case.key] + 1 /\ Ordinal[case.key] \in 1..Len(tx)
    BY <1>1, <1>5, Pauses
  <2> QED
    BY <1>5, <2>1, <2>2
<1>7. case.point # "BEFORE_COMMIT"
  BY <1>5, PausedAtCommit
<1>8. case.point = "AFTER"
  BY <1>1, <1>5, <1>6, <1>7, CaseFacts
<1> QED
  BY <1>1, <1>2, <1>3, <1>8
     DEF ChildCommit, ChildUnchanged, CrashTyped, ChildAt, HarnessAt, CaseUndisturbed, Alive,
         Awaiting

LEMMA ChildFinishTold == ASSUME CrashFacts, CaseUndisturbed, ChildFinish PROVE CaseUndisturbed'
<1>1. CrashTyped /\ ChildAt /\ HarnessAt /\ CaseKnown
  BY DEF CrashFacts, CrashTyped
<1>2. /\ cpc \in Alive /\ hpc \in Awaiting \cup {"done"} /\ hpc # "launch"
      /\ UNCHANGED <<case, kind, hpc, verdict, before, after, replay, crash>>
  BY ChildLives DEF Child
<1>3. (work' = work => Witnessed' = Witnessed) /\ Due' = Due
  BY <1>2, SameCaseTold
<1> QED
  BY <1>1, <1>2, <1>3
     DEF ChildFinish, ChildUnchanged, CrashTyped, ChildAt, HarnessAt, CaseUndisturbed, Alive,
         Awaiting

LEMMA ChildWitnessTold == ASSUME CrashFacts, CaseUndisturbed, ChildWitness PROVE CaseUndisturbed'
<1>1. CrashTyped /\ ChildAt /\ HarnessAt /\ CaseKnown
  BY DEF CrashFacts, CrashTyped
<1>2. /\ cpc \in Alive /\ hpc \in Awaiting \cup {"done"} /\ hpc # "launch"
      /\ UNCHANGED <<case, kind, hpc, verdict, before, after, replay, crash>>
  BY ChildLives DEF Child
<1>3. (work' = work => Witnessed' = Witnessed) /\ Due' = Due
  BY <1>2, SameCaseTold
<1>4. baseline = Base
  BY <1>1 DEF ChildWitness, ChildAt
<1>5. witness' = {Witnessed} /\ work' = work
  BY <1>4 DEF ChildWitness, Witnessed
<1> QED
  BY <1>1, <1>2, <1>3, <1>4, <1>5
     DEF ChildWitness, ChildUnchanged, CrashTyped, ChildAt, HarnessAt, CaseUndisturbed, Alive,
         Awaiting

LEMMA ChildMarkTold == ASSUME CrashFacts, CaseUndisturbed, ChildMark PROVE CaseUndisturbed'
<1>1. CrashTyped /\ ChildAt /\ HarnessAt /\ CaseKnown
  BY DEF CrashFacts, CrashTyped
<1>2. /\ cpc \in Alive /\ hpc \in Awaiting \cup {"done"} /\ hpc # "launch"
      /\ UNCHANGED <<case, kind, hpc, verdict, before, after, replay, crash>>
  BY ChildLives DEF Child
<1>3. (work' = work => Witnessed' = Witnessed) /\ Due' = Due
  BY <1>2, SameCaseTold
<1> QED
  BY <1>1, <1>2, <1>3
     DEF ChildMark, ChildUnchanged, CrashTyped, ChildAt, HarnessAt, CaseUndisturbed, Alive,
         Awaiting

LEMMA ChildDiesTold == ASSUME CrashFacts, CaseUndisturbed, ChildDies PROVE CaseUndisturbed'
<1>1. CrashTyped /\ ChildAt /\ HarnessAt /\ CaseKnown
  BY DEF CrashFacts, CrashTyped
<1>2. /\ cpc \in Alive /\ hpc \in Awaiting \cup {"done"} /\ hpc # "launch"
      /\ UNCHANGED <<case, kind, hpc, verdict, before, after, replay, crash>>
  BY ChildLives DEF Child
<1>3. (work' = work => Witnessed' = Witnessed) /\ Due' = Due
  BY <1>2, SameCaseTold
<1> QED
  BY <1>1, <1>2, <1>3
     DEF ChildDies, ChildUnchanged, CrashTyped, ChildAt, HarnessAt, CaseUndisturbed, Alive,
         Awaiting

LEMMA LaunchTold == ASSUME CrashFacts, CaseUndisturbed, Launch PROVE CaseUndisturbed'
<1>1. CrashTyped /\ ChildAt /\ HarnessAt /\ CaseKnown
  BY DEF CrashFacts, CrashTyped
<1>2. UNCHANGED <<case, kind, work, tx, step, witness>>
  BY DEF Launch, ChildState
<1>3. Witnessed' = Witnessed /\ Due' = Due
  BY <1>2, SameCaseTold
<1> QED
  BY <1>1, <1>2, <1>3
     DEF Launch, ChildState, Observed, CrashTyped, ChildAt, HarnessAt, CaseUndisturbed, Alive,
         CaseEnded, Awaiting, Reading

LEMMA AwaitCheckpointTold ==
  ASSUME CrashFacts, CaseUndisturbed, AwaitCheckpoint
  PROVE  CaseUndisturbed'
<1>1. CrashTyped /\ ChildAt /\ HarnessAt /\ CaseKnown
  BY DEF CrashFacts, CrashTyped
<1>2. UNCHANGED <<case, kind, work, tx, step, witness>>
  BY DEF AwaitCheckpoint, ChildState
<1>3. Witnessed' = Witnessed /\ Due' = Due
  BY <1>2, SameCaseTold
<1> QED
  BY <1>1, <1>2, <1>3
     DEF AwaitCheckpoint, ChildState, Observed, CrashTyped, ChildAt, HarnessAt, CaseUndisturbed,
         Alive, CaseEnded, Awaiting, Reading

LEMMA AwaitChildFailedTold ==
  ASSUME CrashFacts, CaseUndisturbed, AwaitChildFailed
  PROVE  CaseUndisturbed'
<1>1. CrashTyped /\ ChildAt /\ HarnessAt /\ CaseKnown
  BY DEF CrashFacts, CrashTyped
<1>2. UNCHANGED <<case, kind, work, tx, step, witness>>
  BY DEF AwaitChildFailed, Fail, ChildState
<1>3. Witnessed' = Witnessed /\ Due' = Due
  BY <1>2, SameCaseTold
<1>4. disturbed = TRUE
  BY <1>1 DEF AwaitChildFailed, CrashTyped, ChildAt, HarnessAt, CaseUndisturbed, CaseEnded, Awaiting
<1> QED
  BY <1>1, <1>2, <1>3, <1>4
     DEF AwaitChildFailed, Fail, ChildState, Observed, CrashTyped, ChildAt, HarnessAt,
         CaseUndisturbed, Alive, CaseEnded, Awaiting, Reading

LEMMA AwaitDeadlineTold ==
  ASSUME CrashFacts, CaseUndisturbed, AwaitDeadline
  PROVE  CaseUndisturbed'
<1>1. CrashTyped /\ ChildAt /\ HarnessAt /\ CaseKnown
  BY DEF CrashFacts, CrashTyped
<1>2. UNCHANGED <<case, kind, work, tx, step, witness>>
  BY DEF AwaitDeadline, Fail, ChildState
<1>3. Witnessed' = Witnessed /\ Due' = Due
  BY <1>2, SameCaseTold
<1> QED
  BY <1>1, <1>2, <1>3
     DEF AwaitDeadline, Fail, ChildState, Observed, CrashTyped, ChildAt, HarnessAt,
         CaseUndisturbed, Alive, CaseEnded, Awaiting, Reading

LEMMA ValidateBoundaryTold ==
  ASSUME CrashFacts, CaseUndisturbed, ValidateBoundary
  PROVE  CaseUndisturbed'
<1>1. CrashTyped /\ ChildAt /\ HarnessAt /\ CaseKnown
  BY DEF CrashFacts, CrashTyped
<1>2. UNCHANGED <<case, kind, work, tx, step, witness>>
  BY DEF ValidateBoundary, Fail, ChildState
<1>3. Witnessed' = Witnessed /\ Due' = Due
  BY <1>2, SameCaseTold
<1>4. case.family = "BACKEND" /\ case.kill /\ kind # "INPUT" /\ marker = TRUE /\ step \in Nat
  <2>1. case.family = "BACKEND"
    BY DEF ValidateBoundary, CaseUndisturbed
  <2>2. case.kill
    BY <1>1, <2>1, CaseFacts, BackendStores DEF CaseKnown, GapScenario
  <2> QED
    BY <1>1, <2>1, <2>2 DEF ValidateBoundary, HarnessAt, CrashTyped
<1>5. cpc \in {"stopped", "failed"}
  BY <1>1, <1>4 DEF ValidateBoundary, ChildAt, HarnessAt, CaseEnded, Awaiting
<1>6. BoundaryHolds \/ disturbed = TRUE
  <2>1. CASE cpc = "stopped"
    <3>1. AtBoundary /\ witness = {Witnessed}
      BY <1>1, <2>1 DEF ChildAt, CaseUndisturbed
    <3> QED
      BY <1>1, <1>4, <3>1, HoldsAtBoundary
  <2>2. CASE cpc = "failed"
    BY <2>2 DEF CaseUndisturbed
  <2> QED
    BY <1>5, <2>1, <2>2
<1> QED
  BY <1>1, <1>2, <1>3, <1>4, <1>5, <1>6
     DEF ValidateBoundary, Fail, ChildState, Observed, CrashTyped, ChildAt, HarnessAt,
         CaseUndisturbed, Alive, CaseEnded, Awaiting, Reading

LEMMA KillTold == ASSUME CrashFacts, CaseUndisturbed, Kill PROVE CaseUndisturbed'
<1>1. CrashTyped /\ ChildAt /\ HarnessAt /\ CaseKnown
  BY DEF CrashFacts, CrashTyped
<1>2. UNCHANGED <<case, kind, work, tx, step, witness>>
  BY DEF Kill, ChildState
<1>3. Witnessed' = Witnessed /\ Due' = Due
  BY <1>2, SameCaseTold
<1> QED
  BY <1>1, <1>2, <1>3
     DEF Kill, ChildState, Observed, CrashTyped, ChildAt, HarnessAt, CaseUndisturbed, Alive,
         CaseEnded, Awaiting, Reading

LEMMA KillTooLateTold == ASSUME CrashFacts, CaseUndisturbed, KillTooLate PROVE CaseUndisturbed'
<1>1. CrashTyped /\ ChildAt /\ HarnessAt /\ CaseKnown
  BY DEF CrashFacts, CrashTyped
<1>2. UNCHANGED <<case, kind, work, tx, step, witness>>
  BY DEF KillTooLate, Fail, ChildState
<1>3. Witnessed' = Witnessed /\ Due' = Due
  BY <1>2, SameCaseTold
<1>4. disturbed = TRUE
  BY <1>1 DEF KillTooLate, CrashTyped, ChildAt, HarnessAt, CaseUndisturbed, CaseEnded, Awaiting
<1> QED
  BY <1>1, <1>2, <1>3, <1>4
     DEF KillTooLate, Fail, ChildState, Observed, CrashTyped, ChildAt, HarnessAt,
         CaseUndisturbed, Alive, CaseEnded, Awaiting, Reading

LEMMA ReleaseTold == ASSUME CrashFacts, CaseUndisturbed, Release PROVE CaseUndisturbed'
<1>1. CrashTyped /\ ChildAt /\ HarnessAt /\ CaseKnown
  BY DEF CrashFacts, CrashTyped
<1>2. UNCHANGED <<case, kind, work, tx, step, witness>>
  BY DEF Release, ChildState
<1>3. Witnessed' = Witnessed /\ Due' = Due
  BY <1>2, SameCaseTold
<1> QED
  BY <1>1, <1>2, <1>3
     DEF Release, ChildState, Observed, CrashTyped, ChildAt, HarnessAt, CaseUndisturbed, Alive,
         CaseEnded, Awaiting, Reading

LEMMA ReleasedExitsTold ==
  ASSUME CrashFacts, CaseUndisturbed, ReleasedExits
  PROVE  CaseUndisturbed'
<1>1. CrashTyped /\ ChildAt /\ HarnessAt /\ CaseKnown
  BY DEF CrashFacts, CrashTyped
<1>2. UNCHANGED <<case, kind, work, tx, step, witness>>
  BY DEF ReleasedExits, Fail, ChildState
<1>3. Witnessed' = Witnessed /\ Due' = Due
  BY <1>2, SameCaseTold
<1>4. cpc \notin {"exited", "rejected"} => disturbed = TRUE
  BY <1>1 DEF ReleasedExits, CrashTyped, ChildAt, HarnessAt, CaseUndisturbed, CaseEnded, Awaiting
<1>5. cpc = "rejected" => Due = "CONTENT_HASH_MISMATCH"
  BY <1>1 DEF ChildAt, Due
<1> QED
  BY <1>1, <1>2, <1>3, <1>4, <1>5
     DEF ReleasedExits, Fail, ChildState, Observed, CrashTyped, ChildAt, HarnessAt,
         CaseUndisturbed, Alive, CaseEnded, Awaiting, Reading

LEMMA ReleasedTimeoutTold ==
  ASSUME CrashFacts, CaseUndisturbed, ReleasedTimeout
  PROVE  CaseUndisturbed'
<1>1. CrashTyped /\ ChildAt /\ HarnessAt /\ CaseKnown
  BY DEF CrashFacts, CrashTyped
<1>2. UNCHANGED <<case, kind, work, tx, step, witness>>
  BY DEF ReleasedTimeout, Fail, ChildState
<1>3. Witnessed' = Witnessed /\ Due' = Due
  BY <1>2, SameCaseTold
<1> QED
  BY <1>1, <1>2, <1>3
     DEF ReleasedTimeout, Fail, ChildState, Observed, CrashTyped, ChildAt, HarnessAt,
         CaseUndisturbed, Alive, CaseEnded, Awaiting, Reading

LEMMA ReopenTold == ASSUME CrashFacts, CaseUndisturbed, Reopen PROVE CaseUndisturbed'
<1>1. CrashTyped /\ ChildAt /\ HarnessAt /\ CaseKnown
  BY DEF CrashFacts, CrashTyped
<1>2. UNCHANGED <<case, kind, work, tx, step, witness>>
  BY DEF Reopen, ChildState
<1>3. Witnessed' = Witnessed /\ Due' = Due
  BY <1>2, SameCaseTold
<1> QED
  BY <1>1, <1>2, <1>3
     DEF Reopen, ChildState, Observed, CrashTyped, ChildAt, HarnessAt, CaseUndisturbed, Alive,
         CaseEnded, Awaiting, Reading

LEMMA ReadBeforeTold == ASSUME CrashFacts, CaseUndisturbed, ReadBefore PROVE CaseUndisturbed'
<1>1. CrashTyped /\ ChildAt /\ HarnessAt /\ CaseKnown
  BY DEF CrashFacts, CrashTyped
<1>2. UNCHANGED <<case, kind, work, tx, step, witness>>
  BY DEF ReadBefore, ChildState
<1>3. Witnessed' = Witnessed /\ Due' = Due
  BY <1>2, SameCaseTold
<1> QED
  BY <1>1, <1>2, <1>3
     DEF ReadBefore, ChildState, Observed, CrashTyped, ChildAt, HarnessAt, CaseUndisturbed,
         Alive, CaseEnded, Awaiting, Reading

LEMMA RecoverTold == ASSUME CrashFacts, CaseUndisturbed, Recover PROVE CaseUndisturbed'
<1>1. CrashTyped /\ ChildAt /\ HarnessAt /\ CaseKnown
  BY DEF CrashFacts, CrashTyped
<1>2. UNCHANGED <<case, kind, work, tx, step, witness>>
  BY DEF Recover, ChildState
<1>3. Witnessed' = Witnessed /\ Due' = Due
  BY <1>2, SameCaseTold
<1> QED
  BY <1>1, <1>2, <1>3
     DEF Recover, ChildState, Observed, CrashTyped, ChildAt, HarnessAt, CaseUndisturbed, Alive,
         CaseEnded, Awaiting, Reading

LEMMA ReadAfterTold == ASSUME CrashFacts, CaseUndisturbed, ReadAfter PROVE CaseUndisturbed'
<1>1. CrashTyped /\ ChildAt /\ HarnessAt /\ CaseKnown
  BY DEF CrashFacts, CrashTyped
<1>2. UNCHANGED <<case, kind, work, tx, step, witness>>
  BY DEF ReadAfter, ChildState
<1>3. Witnessed' = Witnessed /\ Due' = Due
  BY <1>2, SameCaseTold
<1> QED
  BY <1>1, <1>2, <1>3
     DEF ReadAfter, ChildState, Observed, CrashTyped, ChildAt, HarnessAt, CaseUndisturbed, Alive,
         CaseEnded, Awaiting, Reading

LEMMA SuccessorFailsTold ==
  ASSUME CrashFacts, CaseUndisturbed, SuccessorFails
  PROVE  CaseUndisturbed'
<1>1. CrashTyped /\ ChildAt /\ HarnessAt /\ CaseKnown
  BY DEF CrashFacts, CrashTyped
<1>2. UNCHANGED <<case, kind, work, tx, step, witness>>
  BY DEF SuccessorFails, Fail, ChildState
<1>3. Witnessed' = Witnessed /\ Due' = Due
  BY <1>2, SameCaseTold
<1> QED
  BY <1>1, <1>2, <1>3
     DEF SuccessorFails, Fail, ChildState, Observed, CrashTyped, ChildAt, HarnessAt,
         CaseUndisturbed, Alive, CaseEnded, Awaiting, Reading

LEMMA CompareTold == ASSUME CrashFacts, CaseUndisturbed, Compare PROVE CaseUndisturbed'
<1>1. CrashTyped /\ ChildAt /\ HarnessAt /\ CaseKnown
  BY DEF CrashFacts, CrashTyped
<1>2. UNCHANGED <<case, kind, work, tx, step, witness>>
  BY DEF Compare, Fail, ChildState
<1>3. Witnessed' = Witnessed /\ Due' = Due
  BY <1>2, SameCaseTold
<1>4. /\ Settled(before) /\ after = Target /\ baseline = Base /\ kind \in {"NONE", "EXPECTED"}
      /\ kind # "NONE" => case.family = "GAP"
      /\ case.family = "BACKEND" => replay = Answer(before, case.op)
  BY <1>1 DEF Compare, HarnessAt, CrashTyped, CaseUndisturbed, Reading
<1>5. verdict' = Due
  BY <1>1, <1>4, ComparesHonestly DEF Compare, Fail
<1> QED
  BY <1>1, <1>2, <1>3, <1>5
     DEF Compare, Fail, ChildState, Observed, CrashTyped, ChildAt, HarnessAt, CaseUndisturbed,
         Alive, CaseEnded, Awaiting, Reading

-----------------------------------------------------------------------------
(* Every step, of the child or of the harness.                             *)
LEMMA CaseKeeps == ASSUME CrashFacts, [Next]_vars PROVE CrashFacts'
<1>1. CASE UNCHANGED vars
  <2>1. case' = case
    BY <1>1 DEF vars
  <2>2. /\ Old' = Old /\ New' = New /\ SetUp' = SetUp /\ Base' = Base /\ Target' = Target
        /\ CaseKnown' = CaseKnown /\ \A d : Settled(d)' = Settled(d)
    BY <2>1, SameCase
  <2>3. CrashTyped'
    BY <1>1, <2>2 DEF vars, CrashFacts, CrashTyped
  <2>4. ChildAt'
    BY <1>1, <2>2 DEF vars, CrashFacts, ChildAt, AtBoundary
  <2>5. HarnessAt'
    BY <1>1, <2>2 DEF vars, CrashFacts, HarnessAt, Crashed
  <2> QED
    BY <2>3, <2>4, <2>5 DEF CrashFacts
<1>2. CASE Child
  BY <1>2,
     ChildProvisionKeepsCase, ChildReleasedKeepsCase, ChildPrepareKeepsCase, ChildBeginKeepsCase,
     ChildStatementKeepsCase, ChildStopsKeepsCase, ChildCommitKeepsCase, ChildFinishKeepsCase,
     ChildWitnessKeepsCase, ChildMarkKeepsCase
     DEF Child
<1>3. CASE ChildDies
  BY <1>3, ChildDiesKeepsCase
<1>4. CASE Harness
  BY <1>4,
     LaunchKeepsCase, AwaitCheckpointKeepsCase, AwaitChildFailedKeepsCase, AwaitDeadlineKeepsCase,
     ValidateBoundaryKeepsCase, KillKeepsCase, KillTooLateKeepsCase, ReleaseKeepsCase,
     ReleasedExitsKeepsCase, ReleasedTimeoutKeepsCase, ReopenKeepsCase, ReadBeforeKeepsCase,
     RecoverKeepsCase, ReadAfterKeepsCase, SuccessorFailsKeepsCase, CompareKeepsCase
     DEF Harness
<1> QED
  BY <1>1, <1>2, <1>3, <1>4 DEF Next

LEMMA CaseUndisturbedKeeps ==
  ASSUME CrashFacts, CaseUndisturbed, [Next]_vars
  PROVE  CaseUndisturbed'
<1>1. CASE UNCHANGED vars
  <2>1. Witnessed' = Witnessed /\ Due' = Due
    BY <1>1, SameCaseTold DEF vars
  <2> QED
    BY <1>1, <2>1 DEF vars, CaseUndisturbed
<1>2. CASE Child
  BY <1>2,
     ChildProvisionTold, ChildReleasedTold, ChildPrepareTold, ChildBeginTold, ChildStatementTold,
     ChildStopsTold, ChildCommitTold, ChildFinishTold, ChildWitnessTold, ChildMarkTold
     DEF Child
<1>3. CASE ChildDies
  BY <1>3, ChildDiesTold
<1>4. CASE Harness
  BY <1>4,
     LaunchTold, AwaitCheckpointTold, AwaitChildFailedTold, AwaitDeadlineTold,
     ValidateBoundaryTold, KillTold, KillTooLateTold, ReleaseTold, ReleasedExitsTold,
     ReleasedTimeoutTold, ReopenTold, ReadBeforeTold, RecoverTold, ReadAfterTold,
     SuccessorFailsTold, CompareTold
     DEF Harness
<1> QED
  BY <1>1, <1>2, <1>3, <1>4 DEF Next

CrashInv == CrashFacts /\ CaseUndisturbed

LEMMA CrashInvStarts == Init => CrashInv
BY CrashStarts, CaseUndisturbedStarts DEF CrashInv

LEMMA CrashInvKeeps == CrashInv /\ [Next]_vars => CrashInv'
BY CaseKeeps, CaseUndisturbedKeeps DEF CrashInv

LEMMA CrashClaims ==
  CrashInv => /\ HonestCasesPass /\ PassMeansCrashed
              /\ AllOrNothing /\ RecoveryConverges /\ NothingLeftBehind
<1> SUFFICES ASSUME CrashInv PROVE /\ HonestCasesPass /\ PassMeansCrashed
                                   /\ AllOrNothing /\ RecoveryConverges /\ NothingLeftBehind
  OBVIOUS
<1>1. CrashTyped /\ ChildAt /\ HarnessAt /\ CaseUndisturbed
  BY DEF CrashInv, CrashFacts
<1>2. HonestCasesPass
  <2>1. ASSUME hpc = "done", ~disturbed PROVE verdict = Due
    BY <1>1, <2>1 DEF CaseUndisturbed, CrashTyped
  <2> QED
    BY <2>1 DEF HonestCasesPass, Due
<1>3. PassMeansCrashed
  BY <1>1 DEF HarnessAt, Crashed, PassMeansCrashed
<1>4. AllOrNothing
  BY <1>1 DEF HarnessAt, Settled, AllOrNothing
<1>5. RecoveryConverges
  BY <1>1 DEF HarnessAt, Target, RecoveryConverges
<1>6. NothingLeftBehind
  BY <1>1 DEF HarnessAt, ChildAt, SetUp, NothingLeftBehind
<1> QED
  BY <1>2, <1>3, <1>4, <1>5, <1>6

-----------------------------------------------------------------------------
LEMMA CrashAlways == Spec => []CrashInv
BY CrashInvStarts, CrashInvKeeps, PTL DEF Spec

(* Unless a process stalled or died on its own, every registered case      *)
(* passes and every mutation of it is detected: validate_boundary, the     *)
(* oracles, _validate_state_evolution and _validate_recovery agree with    *)
(* what the transactions do, statement by statement.                       *)
THEOREM HonestCasesAlwaysPass == Spec => []HonestCasesPass
BY CrashAlways, CrashClaims, PTL

(* Wherever the child was killed, the first reader sees all of the case's  *)
(* transaction or nothing of it, and recovery makes the same store of both *)
(* (run_backend_case, _recover).                                           *)
THEOREM CrashLeavesAllOrNothing == Spec => [](AllOrNothing /\ RecoveryConverges)
BY CrashAlways, CrashClaims, PTL

(* A PASS of a kill case was a kill at the registered boundary, with the   *)
(* registered number of statements executed; a rejected delivery stores    *)
(* nothing and the backend harness leaves no child behind.                 *)
THEOREM PassAlwaysMeansCrashed == Spec => [](PassMeansCrashed /\ NothingLeftBehind)
BY CrashAlways, CrashClaims, PTL

=============================================================================
