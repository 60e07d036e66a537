----------------------------- MODULE StoreProofs -----------------------------
(***************************************************************************)
(* What the stores of the two sides keep: Spool, the extension's IndexedDB *)
(* database, and Coherence, the controller in the run's SQLite database.   *)
(***************************************************************************)
EXTENDS Spool, Coherence, SequenceTheorems, FiniteSetTheorems, WellFoundedInduction, TLAPS

(***************************************************************************)
(* Proofs about Spool, for any instances, identities, sizes, limit and     *)
(* bounds: the type invariant, then the inductive invariant IInv and what  *)
(* follows from it, up to the refinement of SpoolLog.                      *)
(***************************************************************************)

LEMMA InitialStateType == InitialState \in State
BY DEF InitialState, State

(* The calls a finished call leaves behind: the others of its instance,    *)
(* one place further on.                                                   *)
LEMMA FinishQueue ==
  ASSUME TypeOK, NEW i \in Instances, NEW k \in Serving(i), Finish(i, k)
  PROVE  /\ queue' \in [Instances -> Seq(Jobs)]
         /\ \A j \in Instances : j # i => queue'[j] = queue[j]
         /\ \A n \in DOMAIN queue'[i] :
              n + 1 \in DOMAIN queue[i] /\ n + 1 # 1 /\ queue'[i][n] = queue[i][n + 1]
<1> DEFINE rest == [n \in 1..Len(queue[i]) - 1 |-> queue[i][IF n < k THEN n ELSE n + 1]]
<1>1. k = 1 /\ queue[i] \in Seq(Jobs) /\ 1 \in 1..Len(queue[i]) /\ DOMAIN queue[i] = 1..Len(queue[i])
  BY DEF TypeOK, Serving
<1>2. Len(queue[i]) - 1 \in Nat
  BY <1>1
<1>3. \A n \in 1..Len(queue[i]) - 1 :
        n + 1 \in DOMAIN queue[i] /\ n + 1 # 1 /\ rest[n] = queue[i][n + 1]
  BY <1>1
<1>4. rest \in Seq(Jobs)
  <2>1. \A n \in 1..Len(queue[i]) - 1 : rest[n] \in Jobs
    BY <1>1, <1>3, ElementOfSeq
  <2>2. rest \in [1..Len(queue[i]) - 1 -> Jobs]
    BY <2>1
  <2> QED
    BY <1>2, <2>2, SeqDef
<1>5. queue' = [queue EXCEPT ![i] = rest]
  BY DEF Finish
<1>6. queue'[i] = rest /\ DOMAIN rest = 1..Len(queue[i]) - 1
  BY <1>5 DEF TypeOK
<1> HIDE DEF rest
<1>7. queue' \in [Instances -> Seq(Jobs)] /\ \A j \in Instances : j # i => queue'[j] = queue[j]
  BY <1>4, <1>5 DEF TypeOK
<1> QED
  BY <1>3, <1>6, <1>7

(* A call in work takes a new phase and the state of its snapshot. *)
LEMMA EnterQueue ==
  ASSUME TypeOK, NEW i \in Instances, NEW k \in Serving(i), NEW phase, Enter(i, k, phase),
         Entered(queue[i][k], phase) \in Jobs
  PROVE  /\ queue' \in [Instances -> Seq(Jobs)]
         /\ \A j \in Instances : j # i => queue'[j] = queue[j]
         /\ DOMAIN queue'[i] = DOMAIN queue[i]
         /\ queue'[i][k] = Entered(queue[i][k], phase)
         /\ \A n \in DOMAIN queue[i] : n # k => queue'[i][n] = queue[i][n]
<1> DEFINE next == [queue[i] EXCEPT ![k] = Entered(queue[i][k], phase)]
<1>1. queue[i] \in Seq(Jobs) /\ k \in 1..Len(queue[i])
  BY DEF TypeOK, Serving
<1>2. next \in Seq(Jobs)
  BY <1>1, ExceptSeq
<1>3. queue' = [queue EXCEPT ![i] = next]
  BY DEF Enter
<1>4. DOMAIN next = DOMAIN queue[i] /\ next[k] = Entered(queue[i][k], phase)
      /\ \A n \in DOMAIN queue[i] : n # k => next[n] = queue[i][n]
  BY <1>1
<1>5. queue'[i] = next
  BY <1>3 DEF TypeOK
<1> HIDE DEF next
<1>6. queue' \in [Instances -> Seq(Jobs)] /\ \A j \in Instances : j # i => queue'[j] = queue[j]
  BY <1>2, <1>3 DEF TypeOK
<1> QED
  BY <1>4, <1>5, <1>6

(* A new call waits at the end of its instance's queue. *)
LEMMA CallQueue ==
  ASSUME TypeOK, NEW i \in Instances, NEW job \in Jobs,
         queue' = [queue EXCEPT ![i] = Append(queue[i], job)]
  PROVE  /\ queue' \in [Instances -> Seq(Jobs)]
         /\ \A j \in Instances : j # i => queue'[j] = queue[j]
         /\ \A n \in DOMAIN queue'[i] :
              \/ n \in DOMAIN queue[i] /\ queue'[i][n] = queue[i][n]
              \/ queue'[i][n] = job
<1>1. queue[i] \in Seq(Jobs)
  BY DEF TypeOK
<1>2. Append(queue[i], job) \in Seq(Jobs)
  BY <1>1, AppendProperties
<1>3. queue' \in [Instances -> Seq(Jobs)] /\ queue'[i] = Append(queue[i], job)
      /\ \A j \in Instances : j # i => queue'[j] = queue[j]
  BY <1>2 DEF TypeOK
<1>4. \A n \in DOMAIN queue'[i] :
        \/ n \in DOMAIN queue[i] /\ queue'[i][n] = queue[i][n]
        \/ queue'[i][n] = job
  BY <1>1, <1>3
<1> QED
  BY <1>3, <1>4

LEMMA AppendJob ==
  ASSUME NEW job \in Jobs, job.op = "APPEND"
  PROVE  /\ job.obs \in Observations /\ job.seen \in State
         /\ \A found \in State : \A phase \in {"WRITE", "RECHECK"} :
              [job EXCEPT !.phase = phase, !.seen = found] \in Jobs
BY DEF Jobs

LEMMA AckJob ==
  ASSUME NEW job \in Jobs, job.op = "ACK"
  PROVE  /\ job.seq \in Nat /\ job.cursor \in Seq(Ids) /\ job.seen \in State
         /\ \A found \in State : [job EXCEPT !.phase = "WRITE", !.seen = found] \in Jobs
BY DEF Jobs

LEMMA AppendedState ==
  ASSUME NEW s \in State, NEW id \in Ids
  PROVE  [s EXCEPT !.next = s.next + 1, !.last = Append(s.last, id),
                   !.bytes = s.bytes + Size[id]] \in State
<1> DEFINE next  == s.next + 1
           last  == Append(s.last, id)
           bytes == s.bytes + Size[id]
<1>1. s.next \in Nat \ {0} /\ s.last \in Seq(Ids) /\ s.bytes \in Nat
  BY DEF State
<1>2. next \in Nat \ {0}
  BY <1>1
<1>3. last \in Seq(Ids)
  BY <1>1, AppendProperties
<1>4. bytes \in Nat
  BY <1>1, SizeAssumption
<1> HIDE DEF next, last, bytes
<1>5. [s EXCEPT !.next = next, !.last = last, !.bytes = bytes] \in State
  BY <1>2, <1>3, <1>4 DEF State
<1> QED
  BY <1>5 DEF next, last, bytes

LEMMA CallTypes ==
  /\ \A o \in Observations : AppendCall(o) \in Jobs
  /\ \A n \in Nat, c \in Seq(Ids) : AckCall(n, c) \in Jobs
BY InitialStateType DEF AppendCall, AckCall, Jobs

LEMMA ServingJob ==
  ASSUME TypeOK, NEW i \in Instances, NEW k \in Serving(i)
  PROVE  queue[i][k] \in Jobs /\ k \in DOMAIN queue[i] /\ k = 1
BY ElementOfSeq DEF TypeOK, Serving

LEMMA CursorType ==
  ASSUME TypeOK, NEW n \in 0..Len(rows)
  PROVE  Cursor(n) \in Seq(Ids) /\ Len(Cursor(n)) = n
<1>1. rows \in Seq(Ids) /\ Len(rows) \in Nat
  BY DEF TypeOK
<1>2. \A i \in 1..n : rows[i] \in Ids
  BY <1>1, ElementOfSeq
<1> QED
  BY <1>1, <1>2, SubSeqProperties DEF Cursor

-----------------------------------------------------------------------------
LEMMA TypeInit == Init => TypeOK
<1> SUFFICES ASSUME Init PROVE TypeOK
  OBVIOUS
<1>1. rows \in Seq(Ids) /\ <<>> \in Seq(Jobs)
  BY EmptySeq DEF Init
<1> QED
  BY <1>1, InitialStateType DEF Init, TypeOK

LEMMA TypeNext == TypeOK /\ [Next]_vars => TypeOK'
<1> SUFFICES ASSUME TypeOK, [Next]_vars PROVE TypeOK'
  OBVIOUS
<1> USE DEF TypeOK
<1>1. ASSUME NEW i \in Instances, CallAppend(i) PROVE TypeOK'
  <2>1. PICK o \in Observations : queue' = [queue EXCEPT ![i] = Append(queue[i], AppendCall(o))]
    BY <1>1 DEF CallAppend
  <2>2. queue' \in [Instances -> Seq(Jobs)]
    BY <2>1, CallTypes, CallQueue
  <2> QED
    BY <1>1, <2>2 DEF CallAppend
<1>2. ASSUME NEW i \in Instances, CallPersistAck(i) PROVE TypeOK'
  <2>1. PICK n \in 0..MaxSeq : \E c \in {<<>>} \cup {Cursor(m) : m \in {n} \cap DOMAIN rows} :
          queue' = [queue EXCEPT ![i] = Append(queue[i], AckCall(n, c))]
    BY <1>2 DEF CallPersistAck
  <2>2. PICK c \in {<<>>} \cup {Cursor(m) : m \in {n} \cap DOMAIN rows} :
          queue' = [queue EXCEPT ![i] = Append(queue[i], AckCall(n, c))]
    BY <2>1
  <2>3. c \in Seq(Ids)
    <3>1. CASE c = <<>>
      BY <3>1, EmptySeq
    <3>2. CASE \E m \in DOMAIN rows : c = Cursor(m)
      <4>1. PICK m \in DOMAIN rows : c = Cursor(m)
        BY <3>2
      <4>2. m \in 0..Len(rows)
        BY <4>1
      <4> QED
        BY <4>1, <4>2, CursorType
    <3> QED
      BY <3>1, <3>2
  <2>4. queue' \in [Instances -> Seq(Jobs)]
    <3>1. n \in Nat
      BY BoundAssumption
    <3>2. AckCall(n, c) \in Jobs
      BY <2>3, <3>1, CallTypes
    <3> QED
      BY <2>2, <3>2, CallQueue
  <2> QED
    BY <1>2, <2>4 DEF CallPersistAck
<1>3. ASSUME NEW i \in Instances, Terminate(i) PROVE TypeOK'
  <2>1. <<>> \in Seq(Jobs)
    BY EmptySeq
  <2> QED
    BY <1>3, <2>1 DEF Terminate
<1>4. ASSUME NEW i \in Instances, NEW k \in DOMAIN queue[i], AnswerRetained(i, k) PROVE TypeOK'
  <2>1. k \in Serving(i) /\ queue[i][k].op = "APPEND" /\ Finish(i, k)
    BY <1>4 DEF AnswerRetained, At
  <2>2. queue' \in [Instances -> Seq(Jobs)] /\ queue[i][k].obs \in Observations
    BY <2>1, FinishQueue, ServingJob, AppendJob
  <2> QED
    BY <1>4, <2>2 DEF AnswerRetained
<1>5. ASSUME NEW i \in Instances, NEW k \in DOMAIN queue[i], RefuseAppend(i, k) PROVE TypeOK'
  <2>1. k \in Serving(i) /\ queue[i][k].op = "APPEND" /\ Finish(i, k)
    BY <1>5 DEF RefuseAppend, At
  <2>2. queue' \in [Instances -> Seq(Jobs)] /\ queue[i][k].obs \in Observations
    BY <2>1, FinishQueue, ServingJob, AppendJob
  <2> QED
    BY <1>5, <2>2 DEF RefuseAppend
<1>6. ASSUME NEW i \in Instances, NEW k \in DOMAIN queue[i],
             PrepareAppend(i, k) \/ AbortAppend(i, k) PROVE TypeOK'
  <2>1. PICK phase \in {"WRITE", "RECHECK"} :
          k \in Serving(i) /\ queue[i][k].op = "APPEND" /\ Enter(i, k, phase)
    BY <1>6 DEF PrepareAppend, AbortAppend, At
  <2>2. Entered(queue[i][k], phase) \in Jobs
    BY <2>1, ServingJob, AppendJob DEF Entered
  <2>3. queue' \in [Instances -> Seq(Jobs)]
    BY <2>1, <2>2, EnterQueue
  <2> QED
    BY <1>6, <2>3 DEF PrepareAppend, AbortAppend
<1>7. ASSUME NEW i \in Instances, NEW k \in DOMAIN queue[i], CommitAppend(i, k) PROVE TypeOK'
  <2> DEFINE job == queue[i][k]
  <2>1. k \in Serving(i) /\ job.op = "APPEND" /\ Finish(i, k)
    BY <1>7 DEF CommitAppend, At
  <2>2. queue' \in [Instances -> Seq(Jobs)] /\ job.obs \in Observations /\ job.seen \in State
    BY <2>1, FinishQueue, ServingJob, AppendJob
  <2>3. job.obs.id \in Ids /\ Size[job.obs.id] \in Nat
    BY <2>2, SizeAssumption DEF Observations
  <2>4. rows' \in Seq(Ids)
    BY <1>7, <2>3, AppendProperties DEF CommitAppend
  <2>5. state' = [job.seen EXCEPT !.next = job.seen.next + 1,
                                  !.last = Append(job.seen.last, job.obs.id),
                                  !.bytes = job.seen.bytes + Size[job.obs.id]]
    BY <1>7 DEF CommitAppend
  <2> HIDE DEF job
  <2>7. state' \in State
    BY <2>2, <2>3, <2>5, AppendedState
  <2> QED
    BY <1>7, <2>2, <2>4, <2>7 DEF CommitAppend, job
<1>8. ASSUME NEW i \in Instances, NEW k \in DOMAIN queue[i],
             RefuseAck(i, k) \/ AbortAck(i, k) PROVE TypeOK'
  <2>1. k \in Serving(i) /\ Finish(i, k)
    BY <1>8 DEF RefuseAck, AbortAck, At
  <2>2. queue' \in [Instances -> Seq(Jobs)]
    BY <2>1, FinishQueue
  <2> QED
    BY <1>8, <2>2 DEF RefuseAck, AbortAck
<1>9. ASSUME NEW i \in Instances, NEW k \in DOMAIN queue[i], PrepareAck(i, k) PROVE TypeOK'
  <2>1. k \in Serving(i) /\ queue[i][k].op = "ACK" /\ Enter(i, k, "WRITE")
    BY <1>9 DEF PrepareAck, At
  <2>2. Entered(queue[i][k], "WRITE") \in Jobs
    BY <2>1, ServingJob, AckJob DEF Entered
  <2>3. queue' \in [Instances -> Seq(Jobs)]
    BY <2>1, <2>2, EnterQueue
  <2> QED
    BY <1>9, <2>3 DEF PrepareAck
<1>10. ASSUME NEW i \in Instances, NEW k \in DOMAIN queue[i], CommitAck(i, k) PROVE TypeOK'
  <2> DEFINE job == queue[i][k]
  <2>1. k \in Serving(i) /\ job.op = "ACK" /\ Finish(i, k)
    BY <1>10 DEF CommitAck, At
  <2>2. queue' \in [Instances -> Seq(Jobs)] /\ job.seq \in Nat /\ job.cursor \in Seq(Ids)
        /\ job.seen \in State
    BY <2>1, FinishQueue, ServingJob, AckJob
  <2>3. state' = [job.seen EXCEPT !.ack = job.seq, !.ackCursor = job.cursor]
    BY <1>10 DEF CommitAck
  <2> HIDE DEF job
  <2>4. state' \in State
    BY <2>2, <2>3 DEF State
  <2> QED
    BY <1>10, <2>2, <2>4 DEF CommitAck
<1>11. CASE UNCHANGED vars
  BY <1>11 DEF vars
<1> QED
  BY <1>1, <1>2, <1>3, <1>4, <1>5, <1>6, <1>7, <1>8, <1>9, <1>10, <1>11 DEF Next, Write

(* The type invariant of the spool, for any constants. *)
THEOREM TypeCorrect == Spec => []TypeOK
BY TypeInit, TypeNext, PTL DEF Spec

-----------------------------------------------------------------------------
(* A call between its snapshot and its transaction satisfies what the      *)
(* snapshot was checked for; the snapshot may be stale, so all is said in  *)
(* terms of it.                                                            *)
JobReady(job) ==
  job.phase = "WRITE" =>
    IF job.op = "APPEND"
      THEN job.obs.seq = job.seen.next /\ job.seen.bytes + Size[job.obs.id] <= Limit
      ELSE /\ job.seq \in job.seen.ack..job.seen.next - 1
           /\ job.cursor = SubSeq(job.seen.last, 1, job.seq)

JobsReady == \A i \in Instances : \A k \in DOMAIN queue[i] : JobReady(queue[i][k])

OneInWork ==
  \A i \in Instances : \A k \in DOMAIN queue[i] : k # 1 => queue[i][k].phase = "QUEUED"

QueueInv == JobsReady /\ OneInWork /\ StaleOnlyByOthers
StoreInv == Chained /\ state.bytes <= Limit /\ ReturnedIsRetained

IInv == TypeOK /\ QueueInv /\ StoreInv

LEMMA FinishKeepsQueueInv ==
  ASSUME IInv, NEW i \in Instances, NEW k \in Serving(i), Finish(i, k),
         UNCHANGED <<state, writer>> \/ writer' = i
  PROVE  QueueInv'
<1>1. /\ \A j \in Instances : j # i => queue'[j] = queue[j]
      /\ \A n \in DOMAIN queue'[i] :
           n + 1 \in DOMAIN queue[i] /\ n + 1 # 1 /\ queue'[i][n] = queue[i][n + 1]
  BY FinishQueue DEF IInv
<1>2. \A n \in DOMAIN queue'[i] : queue'[i][n].phase = "QUEUED"
  BY <1>1 DEF IInv, QueueInv, OneInWork
<1>3. JobsReady'
  <2>1. ASSUME NEW j \in Instances, NEW n \in DOMAIN queue'[j], j # i
        PROVE  JobReady(queue'[j][n])
    BY <1>1, <2>1 DEF IInv, QueueInv, JobsReady
  <2>2. \A n \in DOMAIN queue'[i] : JobReady(queue'[i][n])
    BY <1>2 DEF JobReady
  <2> QED
    BY <2>1, <2>2 DEF JobsReady, JobReady
<1>4. OneInWork'
  BY <1>1, <1>2 DEF IInv, QueueInv, OneInWork
<1>5. StaleOnlyByOthers'
  BY <1>1, <1>2 DEF IInv, QueueInv, StaleOnlyByOthers
<1> QED
  BY <1>3, <1>4, <1>5 DEF QueueInv

LEMMA EnterKeepsQueueInv ==
  ASSUME IInv, NEW i \in Instances, NEW k \in Serving(i), NEW phase, Enter(i, k, phase),
         Entered(queue[i][k], phase) \in Jobs, JobReady(Entered(queue[i][k], phase)),
         UNCHANGED <<state, writer>>
  PROVE  QueueInv'
<1>1. /\ \A j \in Instances : j # i => queue'[j] = queue[j]
      /\ DOMAIN queue'[i] = DOMAIN queue[i]
      /\ queue'[i][k] = Entered(queue[i][k], phase)
      /\ \A n \in DOMAIN queue[i] : n # k => queue'[i][n] = queue[i][n]
  BY EnterQueue DEF IInv
<1>2. k = 1 /\ queue[i][k] \in Jobs
  BY ServingJob DEF IInv
<1>3. queue'[i][k].seen = state
  BY <1>1, <1>2 DEF Entered, Jobs
<1>4. JobsReady'
  BY <1>1 DEF IInv, QueueInv, JobsReady, JobReady
<1>5. OneInWork'
  BY <1>1, <1>2 DEF IInv, QueueInv, OneInWork
<1>6. StaleOnlyByOthers'
  BY <1>1, <1>3 DEF IInv, QueueInv, StaleOnlyByOthers
<1> QED
  BY <1>4, <1>5, <1>6 DEF QueueInv

LEMMA CallKeepsQueueInv ==
  ASSUME IInv, NEW i \in Instances, NEW job \in Jobs, job.phase = "QUEUED",
         queue' = [queue EXCEPT ![i] = Append(queue[i], job)],
         UNCHANGED <<state, writer>>
  PROVE  QueueInv'
<1>1. /\ \A j \in Instances : j # i => queue'[j] = queue[j]
      /\ \A n \in DOMAIN queue'[i] :
           \/ n \in DOMAIN queue[i] /\ queue'[i][n] = queue[i][n]
           \/ queue'[i][n] = job
  BY CallQueue DEF IInv
<1>2. JobsReady'
  BY <1>1 DEF IInv, QueueInv, JobsReady, JobReady
<1>3. OneInWork'
  BY <1>1 DEF IInv, QueueInv, OneInWork
<1>4. StaleOnlyByOthers'
  BY <1>1 DEF IInv, QueueInv, StaleOnlyByOthers
<1> QED
  BY <1>2, <1>3, <1>4 DEF QueueInv

LEMMA UnchangedStore ==
  ASSUME IInv, UNCHANGED <<rows, state, returned>>
  PROVE  StoreInv'
BY DEF IInv, StoreInv, Chained, Cursor, ReturnedIsRetained, Retained

(* The cursors of the positions that are there stay what they are. *)
LEMMA CursorGrows ==
  ASSUME NEW r \in Seq(Ids), NEW id \in Ids, NEW n \in 0..Len(r)
  PROVE  SubSeq(Append(r, id), 1, n) = SubSeq(r, 1, n)
<1>1. CASE n = 0
  BY <1>1, SubSeqEmpty
<1>2. CASE n # 0
  <2>1. Append(r, id) = r \o <<id>> /\ <<id>> \in Seq(Ids)
    BY AppendIsConcat
  <2>2. 1 \in 1..Len(r) /\ n \in 1..Len(r)
    BY <1>2
  <2> QED
    BY <2>1, <2>2, SubSeqOfConcat1
<1> QED
  BY <1>1, <1>2

-----------------------------------------------------------------------------
(* The bytes that validate adds up (spool.ts:216).                         *)

LEMMA SetInduction ==
  ASSUME NEW T \in SUBSET Nat, 0 \in T, \A n \in T : n + 1 \in T
  PROVE  T = Nat
<1>1. \E R : IsWellFoundedOn(R, Nat) /\ \A x, y \in Nat : x < y => <<x, y>> \in R
  <2>1. IsWellFoundedOn(OpToRel(<, Nat), Nat)
    BY NatLessThanWellFounded
  <2>2. \A x, y \in Nat : x < y => <<x, y>> \in OpToRel(<, Nat)
    BY Zenon DEF OpToRel
  <2> QED
    BY <2>1, <2>2, Zenon
<1>2. PICK R : IsWellFoundedOn(R, Nat) /\ \A x, y \in Nat : x < y => <<x, y>> \in R
  BY <1>1
<1>3. SUFFICES ASSUME Nat \ T # {} PROVE FALSE
  OBVIOUS
<1>4. \E m \in Nat \ T : \A y \in Nat \ T : ~(<<y, m>> \in R)
  BY <1>2, <1>3, WFMin, Zenon
<1>5. PICK m \in Nat \ T : \A y \in Nat \ T : ~(<<y, m>> \in R)
  BY <1>4
<1>6. m - 1 \in Nat /\ m - 1 < m
  BY <1>5
<1>7. m - 1 \in T
  BY <1>2, <1>5, <1>6
<1>8. (m - 1) + 1 = m
  BY <1>5
<1> QED
  BY <1>5, <1>7, <1>8

IsTotal(f, r) == f = [n \in 0..Len(r) |-> IF n = 0 THEN 0 ELSE f[n - 1] + Size[r[n]]]

LEMMA TotalExists ==
  ASSUME NEW r \in Seq(Ids)
  PROVE  \E f \in [0..Len(r) -> Nat] : IsTotal(f, r)
<1> DEFINE Upto(m, f) == f = [n \in 0..m |-> IF n = 0 THEN 0 ELSE f[n - 1] + Size[r[n]]]
           T == {m \in Nat : m <= Len(r) => \E f \in [0..m -> Nat] : Upto(m, f)}
<1>1. 0 \in T
  <2>1. [n \in 0..0 |-> 0] \in [0..0 -> Nat] /\ Upto(0, [n \in 0..0 |-> 0])
    OBVIOUS
  <2> HIDE DEF Upto
  <2> QED
    BY <2>1
<1>2. ASSUME NEW m \in T PROVE m + 1 \in T
  <2> HIDE DEF Upto
  <2>1. SUFFICES ASSUME m + 1 <= Len(r) PROVE \E f \in [0..m + 1 -> Nat] : Upto(m + 1, f)
    OBVIOUS
  <2>2. PICK f \in [0..m -> Nat] : Upto(m, f)
    BY <1>2, <2>1
  <2>3. m + 1 \in 1..Len(r) /\ Size[r[m + 1]] \in Nat
    BY <1>2, <2>1, SizeAssumption
  <2> DEFINE g == [n \in 0..m + 1 |-> IF n = m + 1 THEN f[m] + Size[r[m + 1]] ELSE f[n]]
  <2>4. g \in [0..m + 1 -> Nat]
    BY <2>2, <2>3
  <2>5. ASSUME NEW n \in 0..m + 1
        PROVE  g[n] = IF n = 0 THEN 0 ELSE g[n - 1] + Size[r[n]]
    <3>1. CASE n = m + 1
      BY <2>3, <3>1
    <3>2. CASE n \in 0..m
      BY <2>2, <3>2 DEF Upto
    <3> QED
      BY <3>1, <3>2
  <2>6. Upto(m + 1, g)
    BY <2>4, <2>5 DEF Upto
  <2> HIDE DEF g
  <2> QED
    BY <2>4, <2>6
<1> HIDE DEF Upto
<1>3. T = Nat
  <2>1. T \in SUBSET Nat
    OBVIOUS
  <2> HIDE DEF T
  <2> QED
    BY <1>1, <1>2, <2>1, SetInduction
<1>4. \E f \in [0..Len(r) -> Nat] : Upto(Len(r), f)
  BY <1>3
<1> QED
  BY <1>4 DEF Upto, IsTotal

LEMMA BytesAreTotal ==
  ASSUME NEW r \in Seq(Ids)
  PROVE  \E f : IsTotal(f, r) /\ BytesOf(r) = f[Len(r)]
<1> DEFINE total == CHOOSE f : IsTotal(f, r)
<1>1. IsTotal(total, r)
  BY TotalExists
<1>2. BytesOf(r) = total[Len(r)]
  BY DEF BytesOf, IsTotal
<1> HIDE DEF total
<1> QED
  BY <1>1, <1>2

(* The totals of a prefix are those of the whole. *)
LEMMA TotalsAgree ==
  ASSUME NEW r \in Seq(Ids), NEW s \in Seq(Ids), Len(r) <= Len(s),
         \A n \in 1..Len(r) : s[n] = r[n],
         NEW f, NEW g, IsTotal(f, r), IsTotal(g, s)
  PROVE  \A n \in 0..Len(r) : f[n] = g[n]
<1> DEFINE T == {m \in Nat : m <= Len(r) => f[m] = g[m]}
<1>1. 0 \in T
  BY DEF IsTotal
<1>2. ASSUME NEW m \in T PROVE m + 1 \in T
  <2>1. m \in Nat /\ Len(r) \in Nat /\ Len(s) \in Nat
    OBVIOUS
  <2>2. SUFFICES ASSUME m + 1 <= Len(r) PROVE f[m + 1] = g[m + 1]
    BY <2>1
  <2>3. f[m] = g[m] /\ s[m + 1] = r[m + 1]
    BY <1>2, <2>1, <2>2
  <2>4. m + 1 \in 0..Len(r) /\ m + 1 \in 0..Len(s) /\ m + 1 # 0 /\ (m + 1) - 1 = m
    BY <2>1, <2>2
  <2>5. f[m + 1] = f[m] + Size[r[m + 1]]
    BY <2>4 DEF IsTotal
  <2>6. g[m + 1] = g[m] + Size[s[m + 1]]
    BY <2>4 DEF IsTotal
  <2> QED
    BY <2>3, <2>5, <2>6
<1>3. T = Nat
  <2>1. T \in SUBSET Nat
    OBVIOUS
  <2> HIDE DEF T
  <2> QED
    BY <1>1, <1>2, <2>1, SetInduction
<1> QED
  BY <1>3

LEMMA BytesAppended ==
  ASSUME NEW r \in Seq(Ids), NEW id \in Ids
  PROVE  BytesOf(Append(r, id)) = BytesOf(r) + Size[id]
<1> DEFINE s == Append(r, id)
<1>1. /\ s \in Seq(Ids) /\ Len(s) = Len(r) + 1 /\ s[Len(r) + 1] = id
      /\ \A n \in 1..Len(r) : s[n] = r[n]
  BY AppendProperties
<1>2. PICK f : IsTotal(f, r) /\ BytesOf(r) = f[Len(r)]
  BY BytesAreTotal
<1> HIDE DEF s
<1>3. PICK g : IsTotal(g, s) /\ BytesOf(s) = g[Len(s)]
  BY <1>1, BytesAreTotal
<1>4. Len(r) \in Nat
  OBVIOUS
<1>5. f[Len(r)] = g[Len(r)]
  BY <1>1, <1>2, <1>3, <1>4, TotalsAgree
<1>6. g[Len(r) + 1] = g[Len(r)] + Size[id]
  BY <1>1, <1>3, <1>4 DEF IsTotal
<1> QED
  BY <1>1, <1>2, <1>3, <1>5, <1>6 DEF s

LEMMA NoBytes == BytesOf(<<>>) = 0
<1>1. <<>> \in Seq(Ids) /\ Len(<<>>) = 0
  BY EmptySeq
<1>2. PICK f : IsTotal(f, <<>>) /\ BytesOf(<<>>) = f[0]
  BY <1>1, BytesAreTotal
<1> QED
  BY <1>1, <1>2 DEF IsTotal

-----------------------------------------------------------------------------
(* The two transactions.  Same makes the snapshot the stored state, so     *)
(* JobReady speaks of the rows as they are.                                *)

LEMMA CommitAppendStep ==
  ASSUME IInv, NEW i \in Instances, NEW k \in Serving(i), CommitAppend(i, k)
  PROVE  /\ StoreInv'
         /\ queue[i][k].obs.id \in Ids
         /\ rows' = Append(rows, queue[i][k].obs.id)
         /\ \A n \in DOMAIN rows : rows[n] # queue[i][k].obs.id
         /\ state'.ack = state.ack
<1> DEFINE o == queue[i][k].obs
<1>1. queue[i][k] \in Jobs /\ k \in DOMAIN queue[i] /\ queue[i][k].op = "APPEND"
      /\ queue[i][k].phase = "WRITE" /\ state = queue[i][k].seen
  BY ServingJob DEF CommitAppend, At, Same, IInv
<1>2. o \in Observations /\ o.seq \in 1..MaxSeq /\ o.id \in Ids /\ Size[o.id] \in Nat
  BY <1>1, AppendJob, SizeAssumption DEF Observations
<1>3. o.seq = state.next /\ state.bytes + Size[o.id] <= Limit
  BY <1>1 DEF IInv, QueueInv, JobsReady, JobReady
<1>4. /\ rows' = Append(rows, o.id)
      /\ state' = [state EXCEPT !.next = state.next + 1,
                               !.last = Append(state.last, o.id),
                               !.bytes = state.bytes + Size[o.id]]
      /\ returned' = returned \cup {o}
      /\ refused' = {}
      /\ \A n \in DOMAIN rows : rows[n] # o.id
  BY <1>1 DEF CommitAppend, Addable
<1>5. rows \in Seq(Ids) /\ state \in State /\ returned \in SUBSET Observations
  BY DEF IInv, TypeOK
<1> HIDE DEF o
<1>6. state.next = Len(rows) + 1 /\ state.last = rows /\ state.ack \in 0..Len(rows)
      /\ state.ackCursor = Cursor(state.ack)
  BY <1>5, SubSeqFull DEF IInv, StoreInv, Chained, Cursor
<1>7. state'.next = state.next + 1 /\ state'.last = Append(state.last, o.id)
      /\ state'.bytes = state.bytes + Size[o.id]
      /\ state'.ack = state.ack /\ state'.ackCursor = state.ackCursor
  BY <1>4, <1>5 DEF State
<1>8. /\ rows' \in Seq(Ids) /\ Len(rows') = Len(rows) + 1
      /\ \A n \in 1..Len(rows) : rows'[n] = rows[n]
      /\ rows'[Len(rows) + 1] = o.id
  BY <1>2, <1>4, <1>5, AppendProperties
<1>9. Chained'
  <2>1. SubSeq(rows', 1, Len(rows')) = rows'
    BY <1>8, SubSeqFull
  <2>2. SubSeq(rows', 1, state.ack) = SubSeq(rows, 1, state.ack)
    BY <1>2, <1>4, <1>5, <1>6, CursorGrows
  <2>3. state'.next = Len(rows') + 1 /\ state'.ack \in 0..Len(rows')
    BY <1>5, <1>6, <1>7, <1>8
  <2>4. state'.last = SubSeq(rows', 1, Len(rows'))
    BY <1>4, <1>6, <1>7, <2>1
  <2>5. state'.ackCursor = SubSeq(rows', 1, state'.ack)
    BY <1>6, <1>7, <2>2 DEF Cursor
  <2> QED
    BY <2>3, <2>4, <2>5 DEF Chained, Cursor
<1>10. ReturnedIsRetained'
  <2>1. ASSUME NEW x \in returned PROVE x.seq \in DOMAIN rows' /\ rows'[x.seq] = x.id
    BY <1>5, <1>8 DEF IInv, StoreInv, ReturnedIsRetained, Retained
  <2>2. o.seq \in DOMAIN rows' /\ rows'[o.seq] = o.id
    BY <1>3, <1>5, <1>6, <1>8
  <2> QED
    BY <1>4, <2>1, <2>2 DEF ReturnedIsRetained, Retained
<1>11. state'.bytes <= Limit
  BY <1>3, <1>4, <1>7
<1> QED
  BY <1>2, <1>4, <1>7, <1>9, <1>10, <1>11 DEF StoreInv, o

LEMMA CommitAckStep ==
  ASSUME IInv, NEW i \in Instances, NEW k \in Serving(i), CommitAck(i, k)
  PROVE  /\ StoreInv'
         /\ rows' = rows
         /\ state'.ack \in state.ack..Len(rows)
<1> DEFINE job == queue[i][k]
<1>1. job \in Jobs /\ k \in DOMAIN queue[i] /\ job.op = "ACK"
      /\ job.phase = "WRITE" /\ state = job.seen
  BY ServingJob DEF CommitAck, At, Same, IInv
<1>2. job.seq \in state.ack..state.next - 1 /\ job.cursor = SubSeq(state.last, 1, job.seq)
  BY <1>1 DEF IInv, QueueInv, JobsReady, JobReady
<1>3. state' = [state EXCEPT !.ack = job.seq, !.ackCursor = job.cursor]
      /\ UNCHANGED <<rows, returned>> /\ refused' = {}
  BY <1>1 DEF CommitAck
<1>4. rows \in Seq(Ids) /\ state \in State
  BY DEF IInv, TypeOK
<1> HIDE DEF job
<1>5. state.next = Len(rows) + 1 /\ state.last = rows /\ state.ack \in 0..Len(rows)
      /\ state.last = Cursor(Len(rows))
  BY <1>4, SubSeqFull DEF IInv, StoreInv, Chained, Cursor
<1>6. state'.next = state.next /\ state'.last = state.last /\ state'.bytes = state.bytes
      /\ state'.ack = job.seq /\ state'.ackCursor = job.cursor
  BY <1>3, <1>4 DEF State
<1>7. job.seq \in state.ack..Len(rows) /\ job.seq \in 0..Len(rows)
  BY <1>2, <1>4, <1>5
<1>8. Chained'
  BY <1>2, <1>3, <1>5, <1>6, <1>7 DEF Chained, Cursor
<1>9. state'.bytes <= Limit /\ ReturnedIsRetained'
  BY <1>3, <1>6 DEF IInv, StoreInv, ReturnedIsRetained, Retained
<1> QED
  BY <1>3, <1>6, <1>7, <1>8, <1>9 DEF StoreInv

-----------------------------------------------------------------------------
LEMMA IInvInit == Init => IInv
<1> SUFFICES ASSUME Init PROVE IInv
  OBVIOUS
<1>1. TypeOK
  BY TypeInit
<1>2. QueueInv
  BY DEF Init, QueueInv, JobsReady, OneInWork, StaleOnlyByOthers
<1>3. Chained
  <2>1. SubSeq(<<>>, 1, 0) = <<>>
    BY SubSeqEmpty
  <2>2. Len(rows) = 0 /\ state.ack = 0 /\ state.next = 1 /\ state.last = <<>>
        /\ state.ackCursor = <<>> /\ rows = <<>>
    BY DEF Init, InitialState
  <2> QED
    BY <2>1, <2>2 DEF Chained, Cursor
<1>4. state.bytes <= Limit /\ ReturnedIsRetained
  BY BoundAssumption DEF Init, InitialState, ReturnedIsRetained
<1> QED
  BY <1>1, <1>2, <1>3, <1>4 DEF IInv, StoreInv

LEMMA IInvNext == IInv /\ [Next]_vars => IInv'
<1> SUFFICES ASSUME IInv, [Next]_vars PROVE IInv'
  OBVIOUS
<1>1. TypeOK'
  BY TypeNext DEF IInv
<1> SUFFICES QueueInv' /\ StoreInv'
  BY <1>1 DEF IInv
<1>2. ASSUME NEW i \in Instances, CallAppend(i) PROVE QueueInv' /\ StoreInv'
  <2>1. PICK o \in Observations : queue' = [queue EXCEPT ![i] = Append(queue[i], AppendCall(o))]
    BY <1>2 DEF CallAppend
  <2>2. AppendCall(o) \in Jobs /\ AppendCall(o).phase = "QUEUED"
    BY CallTypes DEF AppendCall
  <2> QED
    BY <1>2, <2>1, <2>2, CallKeepsQueueInv, UnchangedStore DEF CallAppend
<1>3. ASSUME NEW i \in Instances, CallPersistAck(i) PROVE QueueInv' /\ StoreInv'
  <2>1. PICK n \in 0..MaxSeq : \E c \in {<<>>} \cup {Cursor(m) : m \in {n} \cap DOMAIN rows} :
          queue' = [queue EXCEPT ![i] = Append(queue[i], AckCall(n, c))]
    BY <1>3 DEF CallPersistAck
  <2>2. PICK c \in {<<>>} \cup {Cursor(m) : m \in {n} \cap DOMAIN rows} :
          queue' = [queue EXCEPT ![i] = Append(queue[i], AckCall(n, c))]
    BY <2>1
  <2>3. c \in Seq(Ids)
    <3>1. CASE c = <<>>
      BY <3>1, EmptySeq
    <3>2. CASE \E m \in DOMAIN rows : c = Cursor(m)
      <4>1. PICK m \in DOMAIN rows : c = Cursor(m)
        BY <3>2
      <4>2. m \in 0..Len(rows)
        BY <4>1 DEF IInv, TypeOK
      <4> QED
        BY <4>1, <4>2, CursorType DEF IInv
    <3> QED
      BY <3>1, <3>2
  <2>4. AckCall(n, c) \in Jobs /\ AckCall(n, c).phase = "QUEUED"
    <3>1. n \in Nat
      BY BoundAssumption
    <3> QED
      BY <2>3, <3>1, CallTypes DEF AckCall
  <2> QED
    BY <1>3, <2>2, <2>4, CallKeepsQueueInv, UnchangedStore DEF CallPersistAck
<1>4. ASSUME NEW i \in Instances, Terminate(i) PROVE QueueInv' /\ StoreInv'
  <2>1. queue' = [queue EXCEPT ![i] = <<>>] /\ UNCHANGED <<rows, state, returned, writer>>
        /\ refused' = {}
    BY <1>4 DEF Terminate
  <2>2. queue'[i] = <<>> /\ \A j \in Instances : j # i => queue'[j] = queue[j]
    BY <2>1 DEF IInv, TypeOK
  <2>3. JobsReady'
    BY <2>2 DEF IInv, QueueInv, JobsReady, JobReady
  <2>4. OneInWork' /\ StaleOnlyByOthers'
    BY <2>1, <2>2 DEF IInv, QueueInv, OneInWork, StaleOnlyByOthers
  <2> QED
    BY <2>1, <2>3, <2>4, UnchangedStore DEF QueueInv
<1>5. ASSUME NEW i \in Instances, NEW k \in DOMAIN queue[i], AnswerRetained(i, k)
      PROVE  QueueInv' /\ StoreInv'
  <2>1. k \in Serving(i) /\ Finish(i, k) /\ UNCHANGED <<rows, state, writer>> /\ refused' = {}
        /\ Retained(queue[i][k].obs) /\ returned' = returned \cup {queue[i][k].obs}
    BY <1>5 DEF AnswerRetained, At
  <2>2. StoreInv'
    BY <2>1 DEF IInv, StoreInv, Chained, Cursor, ReturnedIsRetained, Retained
  <2> QED
    BY <2>1, <2>2, FinishKeepsQueueInv
<1>6. ASSUME NEW i \in Instances, NEW k \in DOMAIN queue[i], RefuseAppend(i, k)
      PROVE  QueueInv' /\ StoreInv'
  <2>1. k \in Serving(i) /\ Finish(i, k) /\ UNCHANGED <<rows, state, returned, writer>>
    BY <1>6 DEF RefuseAppend, At
  <2>3. StoreInv'
    BY <2>1 DEF IInv, StoreInv, Chained, Cursor, ReturnedIsRetained, Retained
  <2> QED
    BY <2>1, <2>3, FinishKeepsQueueInv
<1>7. ASSUME NEW i \in Instances, NEW k \in DOMAIN queue[i], PrepareAppend(i, k)
      PROVE  QueueInv' /\ StoreInv'
  <2> DEFINE entered == Entered(queue[i][k], "WRITE")
  <2>1. k \in Serving(i) /\ queue[i][k].op = "APPEND" /\ Enter(i, k, "WRITE")
        /\ Appendable(queue[i][k].obs) /\ UNCHANGED <<rows, state, returned, writer>>
    BY <1>7 DEF PrepareAppend, At
  <2>2. queue[i][k] \in Jobs /\ state \in State
    BY <2>1, ServingJob DEF IInv, TypeOK
  <2>3. entered \in Jobs
    BY <2>1, <2>2, AppendJob DEF Entered
  <2>4. entered.op = "APPEND" /\ entered.obs = queue[i][k].obs /\ entered.seen = state
    BY <2>1, <2>2 DEF Entered, Jobs
  <2>5. JobReady(entered)
    BY <2>1, <2>4 DEF JobReady, Appendable, Fits
  <2> QED
    BY <2>1, <2>3, <2>5, EnterKeepsQueueInv, UnchangedStore
<1>8. ASSUME NEW i \in Instances, NEW k \in DOMAIN queue[i], AbortAppend(i, k)
      PROVE  QueueInv' /\ StoreInv'
  <2> DEFINE entered == Entered(queue[i][k], "RECHECK")
  <2>1. k \in Serving(i) /\ queue[i][k].op = "APPEND" /\ Enter(i, k, "RECHECK")
        /\ UNCHANGED <<rows, state, returned, writer>>
    BY <1>8 DEF AbortAppend, At
  <2>2. queue[i][k] \in Jobs /\ state \in State
    BY <2>1, ServingJob DEF IInv, TypeOK
  <2>3. entered \in Jobs /\ entered.phase = "RECHECK"
    BY <2>1, <2>2, AppendJob DEF Entered, Jobs
  <2>4. JobReady(entered)
    BY <2>3 DEF JobReady
  <2> QED
    BY <2>1, <2>3, <2>4, EnterKeepsQueueInv, UnchangedStore
<1>9. ASSUME NEW i \in Instances, NEW k \in DOMAIN queue[i], CommitAppend(i, k)
      PROVE  QueueInv' /\ StoreInv'
  <2>1. k \in Serving(i) /\ Finish(i, k) /\ writer' = i
    BY <1>9 DEF CommitAppend, At
  <2> QED
    BY <1>9, <2>1, FinishKeepsQueueInv, CommitAppendStep
<1>10. ASSUME NEW i \in Instances, NEW k \in DOMAIN queue[i], RefuseAck(i, k) \/ AbortAck(i, k)
       PROVE  QueueInv' /\ StoreInv'
  <2>1. k \in Serving(i) /\ Finish(i, k) /\ UNCHANGED <<rows, state, returned, writer>>
    BY <1>10 DEF RefuseAck, AbortAck, At
  <2> QED
    BY <2>1, FinishKeepsQueueInv, UnchangedStore
<1>11. ASSUME NEW i \in Instances, NEW k \in DOMAIN queue[i], PrepareAck(i, k)
       PROVE  QueueInv' /\ StoreInv'
  <2> DEFINE job == queue[i][k]
             entered == Entered(job, "WRITE")
  <2>1. k \in Serving(i) /\ job.op = "ACK" /\ Enter(i, k, "WRITE")
        /\ Acceptable(job.seq, job.cursor) /\ UNCHANGED <<rows, state, returned, writer>>
    BY <1>11 DEF PrepareAck, At
  <2>2. job \in Jobs /\ state \in State /\ rows \in Seq(Ids) /\ job.seq \in Nat
    BY <2>1, ServingJob, AckJob DEF IInv, TypeOK
  <2>3. entered \in Jobs
    BY <2>1, <2>2, AckJob DEF Entered
  <2>4. entered.op = "ACK" /\ entered.seq = job.seq /\ entered.cursor = job.cursor
        /\ entered.seen = state
    BY <2>1, <2>2 DEF Entered, Jobs
  <2>5. state.next = Len(rows) + 1 /\ state.last = rows /\ state.ack \in 0..Len(rows)
    BY <2>2, SubSeqFull DEF IInv, StoreInv, Chained, Cursor
  <2>6. job.seq \in state.ack..state.next - 1 /\ job.cursor = SubSeq(state.last, 1, job.seq)
    BY <2>1, <2>2, <2>5 DEF Acceptable, Cursor
  <2>7. JobReady(entered)
    BY <2>4, <2>6 DEF JobReady
  <2> QED
    BY <2>1, <2>3, <2>7, EnterKeepsQueueInv, UnchangedStore
<1>12. ASSUME NEW i \in Instances, NEW k \in DOMAIN queue[i], CommitAck(i, k)
       PROVE  QueueInv' /\ StoreInv'
  <2>1. k \in Serving(i) /\ Finish(i, k) /\ writer' = i
    BY <1>12 DEF CommitAck, At
  <2> QED
    BY <1>12, <2>1, FinishKeepsQueueInv, CommitAckStep
<1>13. CASE UNCHANGED vars
  BY <1>13 DEF vars, IInv, QueueInv, JobsReady, JobReady, OneInWork, StaleOnlyByOthers,
               StoreInv, Chained, Cursor, ReturnedIsRetained, Retained
<1> QED
  BY <1>2, <1>3, <1>4, <1>5, <1>6, <1>7, <1>8, <1>9, <1>10, <1>11, <1>12, <1>13 DEF Next, Write

THEOREM InvariantCorrect == Spec => []IInv
BY IInvInit, IInvNext, PTL DEF Spec

(* An observation whose append has returned is in the spool for good. *)
THEOREM ReturnedAlwaysRetained == Spec => []ReturnedIsRetained
BY InvariantCorrect, PTL DEF IInv, StoreInv

(* Only another instance's write makes a snapshot stale. *)
THEOREM OwnWritesNeverConflict == Spec => []StaleOnlyByOthers
BY InvariantCorrect, PTL DEF IInv, QueueInv

(* The bytes counted are the bytes stored; and of two instances that       *)
(* append one observation, neither is refused.                             *)
BytesInv == state.bytes = BytesOf(rows) /\ RetainedNeverRefused

LEMMA BytesInit == Init => BytesInv
BY NoBytes DEF Init, InitialState, BytesInv, RetainedNeverRefused

LEMMA BytesStep ==
  ASSUME IInv, BytesInv, [Next]_vars
  PROVE  BytesInv'
<1>1. ASSUME NEW i \in Instances, NEW k \in DOMAIN queue[i], CommitAppend(i, k)
      PROVE  BytesInv'
  <2> DEFINE o == queue[i][k].obs
  <2>1. k \in Serving(i) /\ Same(queue[i][k]) /\ refused' = {}
    BY <1>1 DEF CommitAppend, At
  <2>2. rows' = Append(rows, o.id) /\ o.id \in Ids
    BY <1>1, <2>1, CommitAppendStep
  <2>3. state'.bytes = state.bytes + Size[o.id]
    BY <1>1 DEF CommitAppend, Same, IInv, TypeOK, State
  <2>4. BytesOf(rows') = BytesOf(rows) + Size[o.id]
    BY <2>2, BytesAppended DEF IInv, TypeOK
  <2> QED
    BY <2>1, <2>3, <2>4 DEF BytesInv, RetainedNeverRefused
<1>2. ASSUME NEW i \in Instances, NEW k \in DOMAIN queue[i], CommitAck(i, k)
      PROVE  BytesInv'
  BY <1>2 DEF CommitAck, Same, IInv, TypeOK, State, BytesInv, RetainedNeverRefused
<1>3. ASSUME NEW i \in Instances, NEW k \in DOMAIN queue[i], RefuseAppend(i, k)
      PROVE  BytesInv'
  <2>1. Valid
    BY DEF IInv, StoreInv, BytesInv, Valid
  <2> QED
    BY <1>3, <2>1 DEF RefuseAppend, BytesInv, RetainedNeverRefused, Retained
<1>4. CASE UNCHANGED <<rows, state>> /\ refused' \in {{}, refused}
  BY <1>4 DEF BytesInv, RetainedNeverRefused, Retained
<1>5. \/ UNCHANGED <<rows, state>> /\ refused' \in {{}, refused}
      \/ \E i \in Instances : \E k \in DOMAIN queue[i] :
           CommitAppend(i, k) \/ CommitAck(i, k) \/ RefuseAppend(i, k)
  BY DEF Next, Write, vars, CallAppend, CallPersistAck, Terminate, AnswerRetained,
         PrepareAppend, AbortAppend, RefuseAck, PrepareAck, AbortAck
<1> QED
  BY <1>1, <1>2, <1>3, <1>4, <1>5

LEMMA BytesCorrect == Spec => [](IInv /\ BytesInv)
<1>1. Init => BytesInv
  BY BytesInit
<1>2. IInv /\ BytesInv /\ [Next]_vars => BytesInv'
  BY BytesStep
<1> QED
  BY <1>1, <1>2, InvariantCorrect, PTL DEF Spec

(* What validate checks is intact at every snapshot, whatever instances    *)
(* raced to it (spool.ts:210-247): positions, cursors and the sum of the   *)
(* payload sizes; and the bytes stay within the limit of appendRecord.     *)
THEOREM SpoolAlwaysValid == Spec => []SpoolValid
<1>1. IInv /\ BytesInv => SpoolValid
  BY DEF IInv, StoreInv, BytesInv, SpoolValid, Valid
<1> QED
  BY <1>1, BytesCorrect, PTL

(* appendRecord never refuses an observation that is in the spool: after a *)
(* failed transaction the recheck finds what the other instance stored.    *)
THEOREM RetainedIsAnswered == Spec => []RetainedNeverRefused
<1>1. IInv /\ BytesInv => RetainedNeverRefused
  BY DEF BytesInv
<1> QED
  BY <1>1, BytesCorrect, PTL

LEMMA StepImplementsLog ==
  ASSUME IInv, [Next]_vars
  PROVE  [Log!LogNext]_<<rows, state.ack>>
<1>1. ASSUME NEW i \in Instances, NEW k \in DOMAIN queue[i], CommitAppend(i, k)
      PROVE  Log!Grow
  <2>1. k \in Serving(i)
    BY <1>1 DEF CommitAppend, At
  <2> QED
    BY <1>1, <2>1, CommitAppendStep DEF Log!Grow
<1>2. ASSUME NEW i \in Instances, NEW k \in DOMAIN queue[i], CommitAck(i, k)
      PROVE  Log!Acknowledge \/ UNCHANGED <<rows, state.ack>>
  <2>1. k \in Serving(i)
    BY <1>2 DEF CommitAck, At
  <2>2. rows' = rows /\ state'.ack \in state.ack..Len(rows) /\ state.ack \in Nat
    BY <1>2, <2>1, CommitAckStep DEF IInv, TypeOK, State
  <2>3. CASE state'.ack = state.ack
    BY <2>2, <2>3
  <2>4. CASE state'.ack # state.ack
    <3>1. Len(rows) \in Nat
      BY DEF IInv, TypeOK
    <3>2. state'.ack \in state.ack + 1..Len(rows)
      BY <2>2, <2>4, <3>1
    <3> QED
      BY <2>2, <3>2 DEF Log!Acknowledge
  <2> QED
    BY <2>3, <2>4
<1>3. \/ UNCHANGED <<rows, state>>
      \/ \E i \in Instances : \E k \in DOMAIN queue[i] : CommitAppend(i, k) \/ CommitAck(i, k)
  BY DEF Next, Write, vars, CallAppend, CallPersistAck, Terminate, AnswerRetained,
         RefuseAppend, PrepareAppend, AbortAppend, RefuseAck, PrepareAck, AbortAck
<1> QED
  BY <1>1, <1>2, <1>3 DEF Log!LogNext

(* All instances together implement one log: every transaction appends one *)
(* new observation or advances the acknowledged position, and everything   *)
(* else leaves both as they are.                                           *)
THEOREM SpoolImplementsLog == Spec => SpoolIsLog
<1>1. Init => Log!LogInit
  BY DEF Init, InitialState, Log!LogInit
<1>2. IInv /\ [Next]_vars => [Log!LogNext]_<<rows, state.ack>>
  BY StepImplementsLog
<1> QED
  BY <1>1, <1>2, InvariantCorrect, PTL DEF Spec, SpoolIsLog, Log!LogSpec

(***************************************************************************)
(* Proofs about Coherence, for any writers, streams and bounds: what a     *)
(* shock has closed does not come back, a pending candidate answers its    *)
(* shock, and the controller follows the table.                            *)
(*                                                                         *)
(* The schema compares no times and no order of generations.  What saves   *)
(* it is a number, Frontier: no stream's generation and no cursor lies     *)
(* beyond it, every generation up to the current one has given its name    *)
(* to an epoch, and a name is given once.  So the only epoch that can be   *)
(* a candidate is the current one's successor, its cursor is younger than  *)
(* the shock, and once that candidate is closed no other can follow.       *)
(***************************************************************************)

States == OpenStates \cup {"SHOCKED_CLOSED", "WAITING_FOR_RESNAPSHOT", "NEW_EPOCH_PENDING"}
Controllers == [state : States, current : Nat, candidate : Nat \cup {None},
                predecessor : Nat \cup {None}, shock : Nat \cup {None}]

IsOpen == ctl.state \in OpenStates
Named == {e.id : e \in epochs}

\* The youngest generation a stream may have: a shock lets it grow by one.
Frontier == IF IsOpen THEN ctl.current ELSE ctl.current + 1

Typed ==
  /\ ctl \in Controllers
  /\ generation \in [Streams -> Nat \cup {None}]
  /\ cursors \subseteq Streams \X Nat
  /\ early \subseteq cursors
  /\ closures \subseteq Nat
  /\ NewShock \in Nat \ {0} /\ DOMAIN shocks = 1 .. NewShock - 1

\* Generations and epochs keep pace.
InPace ==
  /\ 0 .. ctl.current \subseteq Named
  /\ \A s \in Streams : generation[s] # None => generation[s] <= Frontier
  /\ \A c \in cursors : c[2] <= Frontier

ProofsSound ==
  \A p \in proofs :
    /\ p.id \in Named \cap Nat /\ p.candidate = p.id
    /\ p.cursor \in cursors /\ p.cursor[2] = p.candidate
    /\ \A q \in proofs : q.id = p.id => q = p

\* What each state of the controller has behind it.
Phases ==
  /\ ctl.state = "NEW_EPOCH_PENDING" =>
       /\ ctl.candidate = ctl.current + 1
       /\ \E p \in proofs : /\ p.candidate = ctl.candidate
                            /\ p.predecessor = ctl.current /\ p.shock = ctl.shock
       /\ \E e \in epochs : e.id = ctl.candidate /\ e.predecessor = ctl.current
  /\ ctl.state # "NEW_EPOCH_PENDING" => ctl.candidate = None
  /\ ctl.state = "NEW_EPOCH_OPEN" => \E p \in proofs : p.candidate = ctl.current
  /\ ~IsOpen =>
       /\ ctl.shock = NewShock - 1
       /\ \E t \in transitions : t.reason = "SHOCK_ATOMIC_CLOSE" /\ t.predecessor = ctl.current

\* The candidate's successor has a name already: no proof can open it, and none follows.
Stuck == ctl.state = "WAITING_FOR_RESNAPSHOT" /\ ctl.current + 1 \in Named

\* The cursors from before the last shock are too old for a candidate.
EarlyIsOld ==
  /\ ctl.state = "NEW_EPOCH_OPEN" => \A c \in early : c[2] < ctl.current
  /\ ~IsOpen => Stuck \/ \A c \in early : c[2] <= ctl.current

\* Closed epochs lie behind, and only a controller that is stuck has closed a candidate.
ClosedBehind ==
  \A t \in transitions :
    /\ t.reason = "SHOCK_ATOMIC_CLOSE" => t.predecessor \in Nat /\ t.predecessor < Frontier
    /\ t.reason = "NEW_SHOCK_CLOSED_CANDIDATE" => Stuck /\ t.candidate = ctl.current + 1

CoherenceInv ==
  Typed /\ InPace /\ ProofsSound /\ Phases /\ EarlyIsOld /\ ClosedBehind /\ HarnessAccepts

-----------------------------------------------------------------------------
(* What single steps do.                                                   *)

LEMMA InitInv == CoherenceInit => CoherenceInv
<1> SUFFICES ASSUME CoherenceInit PROVE CoherenceInv
  OBVIOUS
<1>1. DOMAIN shocks = {} /\ NewShock = 1
  BY FS_EmptySet DEF CoherenceInit, NewShock
<1>2. Typed
  BY <1>1, BoundsAssumption DEF CoherenceInit, Typed, Controllers, States, OpenStates
<1> QED
  BY <1>1, <1>2, BoundsAssumption
     DEF CoherenceInit, CoherenceInv, InPace, ProofsSound, Phases, EarlyIsOld, ClosedBehind, HarnessAccepts,
         Frontier, IsOpen, Named, OpenStates, Stuck

\* A new shock takes the next number.
LEMMA ObserveCounts ==
  ASSUME Typed, NEW type, Observe(type)
  PROVE  /\ NewShock' = NewShock + 1
         /\ DOMAIN shocks' = 1 .. NewShock
         /\ early' = cursors
<1>1. DOMAIN shocks' = DOMAIN shocks \cup {NewShock}
  BY DEF Observe
<1>2. IsFiniteSet(DOMAIN shocks) /\ NewShock \notin DOMAIN shocks
  BY FS_Interval DEF Typed
<1>3. Cardinality(DOMAIN shocks') = Cardinality(DOMAIN shocks) + 1
  BY <1>1, <1>2, FS_AddElement
<1>4. 1 .. NewShock = (1 .. NewShock - 1) \cup {NewShock}
  BY DEF Typed
<1> QED
  BY <1>1, <1>3, <1>4 DEF Typed, Observe, NewShock

\* A transition that is related stays related, or one of its mappings is closed.
LEMMA RelatedStays ==
  ASSUME HarnessAccepts, epochs \subseteq epochs', proofs \subseteq proofs',
         cursors \subseteq cursors', closures \subseteq closures'
  PROVE  \A t \in transitions : Related(t)' \/ t.proof \in closures'
BY DEF HarnessAccepts, Related

\* A shock, whether it comes as a gap or otherwise, closes an open controller.
LEMMA CloseKeeps ==
  ASSUME CoherenceInv, IsOpen, NEW type, Observe(type), NEW from,
         ctl' = [ctl EXCEPT !.state = "SHOCKED_CLOSED", !.shock = NewShock],
         transitions' = transitions \cup
           {Row("SHOCK_ATOMIC_CLOSE", from, ctl.current, None, NewShock, None)},
         UNCHANGED <<epochs, proofs, closures, cursors>>,
         generation' \in [Streams -> Nat \cup {None}],
         \A s \in Streams : generation'[s] # None => generation'[s] <= ctl.current + 1
  PROVE  CoherenceInv'
<1> DEFINE new == Row("SHOCK_ATOMIC_CLOSE", from, ctl.current, None, NewShock, None)
<1>1. /\ NewShock' = NewShock + 1 /\ DOMAIN shocks' = 1 .. NewShock /\ early' = cursors
      /\ NewShock \in Nat
  BY ObserveCounts DEF CoherenceInv, Typed
<1>2. /\ ctl'.state = "SHOCKED_CLOSED" /\ ctl'.shock = NewShock
      /\ ctl'.current = ctl.current /\ ctl'.candidate = ctl.candidate
      /\ ctl' \in Controllers /\ ctl.current \in Nat
  BY <1>1 DEF CoherenceInv, Typed, Controllers, States
<1>3. ~IsOpen' /\ Named' = Named /\ Frontier' = ctl.current + 1
  BY <1>2 DEF IsOpen, OpenStates, Named, Frontier
<1>4. Typed'
  BY <1>1, <1>2 DEF CoherenceInv, Typed
<1>5. InPace'
  BY <1>2, <1>3 DEF CoherenceInv, Typed, InPace, Frontier
<1>6. ProofsSound'
  BY <1>3 DEF CoherenceInv, ProofsSound
<1>7. new \in transitions' /\ new.reason = "SHOCK_ATOMIC_CLOSE" /\ new.predecessor = ctl.current
  BY DEF Row
<1>8. ctl.candidate = None
  BY DEF CoherenceInv, Phases, IsOpen, OpenStates
<1>9. Phases'
  BY <1>1, <1>2, <1>3, <1>7, <1>8 DEF Phases
<1>10. EarlyIsOld'
  BY <1>1, <1>2, <1>3 DEF EarlyIsOld, CoherenceInv, InPace, Frontier
<1>11. ClosedBehind'
  <2>1. \A t \in transitions : t.reason = "SHOCK_ATOMIC_CLOSE" =>
          t.predecessor \in Nat /\ t.predecessor < ctl.current + 1
    BY <1>2 DEF CoherenceInv, ClosedBehind, Frontier
  <2>2. \A t \in transitions : t.reason # "NEW_SHOCK_CLOSED_CANDIDATE"
    BY DEF CoherenceInv, ClosedBehind, Stuck, IsOpen, OpenStates
  <2> QED
    BY <1>2, <1>3, <2>1, <2>2 DEF ClosedBehind, Row
<1>12. HarnessAccepts'
  <2>1. \A t \in transitions : Related(t)' \/ t.proof \in closures'
    BY RelatedStays DEF CoherenceInv
  <2>2. \A t : t.reason = "SHOCK_ATOMIC_CLOSE" /\ t.candidate = None => Related(t)'
    BY DEF Related
  <2> QED
    BY <2>1, <2>2 DEF HarnessAccepts, Row
<1> QED
  BY <1>4, <1>5, <1>6, <1>9, <1>10, <1>11, <1>12 DEF CoherenceInv

LEMMA GapKeeps == ASSUME CoherenceInv, NEW s \in Streams, Gap(s) PROVE CoherenceInv'
<1>1. IsOpen /\ Observe("GAP_LIKE")
  BY DEF Gap, IsOpen
<1>2. ctl.current \in Nat /\ Frontier = ctl.current
  BY <1>1 DEF CoherenceInv, Typed, Controllers, Frontier
<1>3. generation[s] \in Nat /\ generation[s] <= ctl.current
  BY <1>2 DEF Gap, CoherenceInv, Typed, InPace
<1>4. /\ generation' \in [Streams -> Nat \cup {None}]
      /\ \A r \in Streams : generation'[r] # None => generation'[r] <= ctl.current + 1
  BY <1>2, <1>3 DEF Gap, CoherenceInv, Typed, InPace
<1> QED
  BY <1>1, <1>4, CloseKeeps DEF Gap, Commit

LEMMA ShockCloseKeeps ==
  ASSUME CoherenceInv, NEW w \in Writers, NEW type, ShockClose(w, type) PROVE CoherenceInv'
<1>1. Observe(type) /\ ctl.state \in OpenStates /\ seen[w].current = ctl.current
  BY DEF ShockClose, Commit, TransitionAdmitted, Row
<1>2. ctl.current \in Nat /\ Frontier = ctl.current
  BY <1>1 DEF CoherenceInv, Typed, Controllers, Frontier, IsOpen
<1>3. /\ generation' \in [Streams -> Nat \cup {None}]
      /\ \A r \in Streams : generation'[r] # None => generation'[r] <= ctl.current + 1
  BY <1>2 DEF ShockClose, CoherenceInv, Typed, InPace
<1> QED
  BY <1>1, <1>3, CloseKeeps DEF ShockClose, Commit, IsOpen

LEMMA WaitingKeeps == ASSUME CoherenceInv, NEW w \in Writers, Waiting(w) PROVE CoherenceInv'
<1>1. ctl' = [ctl EXCEPT !.state = "WAITING_FOR_RESNAPSHOT"] /\ ctl.state = "SHOCKED_CLOSED"
  <2>1. ctl' = [ctl EXCEPT !.state = "WAITING_FOR_RESNAPSHOT"]
    BY DEF Waiting, Commit
  <2> QED
    BY <2>1 DEF Waiting, Commit, UpdateAdmitted, CoherenceInv, Typed, Controllers, OpenStates
<1>2. /\ ctl'.state = "WAITING_FOR_RESNAPSHOT" /\ ctl'.shock = ctl.shock
      /\ ctl'.current = ctl.current /\ ctl'.candidate = ctl.candidate
      /\ ctl' \in Controllers
  BY <1>1 DEF CoherenceInv, Typed, Controllers, States
<1>3. /\ UNCHANGED <<epochs, proofs, shocks, closures, generation, cursors, early>>
      /\ transitions' = transitions \cup
           {Row("CLOSE_RECORDED", "SHOCKED_CLOSED", seen[w].current, None, seen[w].shock, None)}
  BY DEF Waiting, Commit
<1>4. ~IsOpen /\ ~IsOpen' /\ Named' = Named /\ Frontier' = Frontier /\ NewShock' = NewShock
  BY <1>1, <1>2, <1>3 DEF IsOpen, OpenStates, Named, Frontier, NewShock
<1>5. Typed' /\ InPace' /\ ProofsSound'
  BY <1>2, <1>3, <1>4 DEF CoherenceInv, Typed, InPace, ProofsSound
<1>6. Phases'
  BY <1>1, <1>2, <1>3, <1>4 DEF CoherenceInv, Phases
<1>7. EarlyIsOld'
  BY <1>1, <1>2, <1>3, <1>4 DEF CoherenceInv, EarlyIsOld, Stuck
<1>8. ClosedBehind'
  BY <1>1, <1>2, <1>3, <1>4 DEF CoherenceInv, ClosedBehind, Stuck, Row
<1>9. HarnessAccepts'
  <2>1. \A t \in transitions : Related(t)' \/ t.proof \in closures'
    BY <1>3, RelatedStays DEF CoherenceInv
  <2>2. \A t : t.reason = "CLOSE_RECORDED" /\ t.candidate = None => Related(t)'
    BY DEF Related
  <2> QED
    BY <1>3, <2>1, <2>2 DEF HarnessAccepts, Row
<1> QED
  BY <1>5, <1>6, <1>7, <1>8, <1>9 DEF CoherenceInv

\* A candidate is the successor of the current epoch: its name is free and its cursor is there.
LEMMA CandidateIsNext ==
  ASSUME CoherenceInv, ~IsOpen, NEW n \in Nat, NEW s \in Streams,
         n \notin Named, <<s, n>> \in cursors
  PROVE  n = ctl.current + 1 /\ ~Stuck
<1>1. n <= ctl.current + 1 /\ ctl.current \in Nat
  BY DEF CoherenceInv, Typed, Controllers, InPace, Frontier
<1>2. n \notin 0 .. ctl.current
  BY DEF CoherenceInv, InPace
<1> QED
  BY <1>1, <1>2 DEF Stuck

LEMMA PendingKeeps ==
  ASSUME CoherenceInv, NEW w \in Writers, NEW s \in Streams, NEW n \in 1 .. LastEpoch,
         Pending(w, s, n)
  PROVE  CoherenceInv'
<1> DEFINE e == [id |-> n, predecessor |-> seen[w].current, proof |-> n]
           p == [id |-> n, candidate |-> n, predecessor |-> seen[w].current,
                 shock |-> seen[w].shock, cursor |-> <<s, n>>]
           t == Row("RESNAPSHOT_CANDIDATE_ACCEPTED", "WAITING_FOR_RESNAPSHOT",
                    seen[w].current, n, seen[w].shock, n)
<1>1. /\ ctl' = [ctl EXCEPT !.state = "NEW_EPOCH_PENDING", !.candidate = n,
                            !.predecessor = ctl.current]
      /\ epochs' = epochs \cup {e} /\ proofs' = proofs \cup {p}
      /\ transitions' = transitions \cup {t}
      /\ UNCHANGED <<shocks, closures, generation, cursors, early>>
  BY DEF Pending, Commit
<1>2. /\ ctl.state = "WAITING_FOR_RESNAPSHOT"
      /\ seen[w].current = ctl.current /\ seen[w].shock = ctl.shock /\ n \notin closures
  BY DEF Pending, Commit, TransitionAdmitted, Row, MappingsOpen
<1>3. n \notin Named /\ <<s, n>> \in cursors
  BY DEF Pending, EpochFits, ProofAdmitted, Named
<1>4. n \in Nat /\ ctl.current \in Nat /\ ~IsOpen
  BY <1>2, BoundsAssumption DEF CoherenceInv, Typed, Controllers, IsOpen, OpenStates
<1>5. n = ctl.current + 1 /\ ~Stuck
  BY <1>3, <1>4, CandidateIsNext
<1>6. /\ ctl'.state = "NEW_EPOCH_PENDING" /\ ctl'.shock = ctl.shock
      /\ ctl'.current = ctl.current /\ ctl'.candidate = n /\ ctl' \in Controllers
  BY <1>1, <1>4 DEF CoherenceInv, Typed, Controllers, States
<1>7. /\ ~IsOpen' /\ Named' = Named \cup {n} /\ Frontier' = Frontier /\ NewShock' = NewShock
  <2>1. Named' = Named \cup {e.id}
    BY <1>1 DEF Named
  <2> QED
    BY <1>1, <1>4, <1>6, <2>1 DEF IsOpen, OpenStates, Frontier, NewShock
<1>8. Typed' /\ InPace'
  BY <1>1, <1>6, <1>7 DEF CoherenceInv, Typed, InPace
<1>9. ProofsSound'
  BY <1>1, <1>3, <1>4, <1>7 DEF CoherenceInv, ProofsSound
<1>10. Phases'
  <2>1. p \in proofs' /\ p.candidate = n /\ p.predecessor = ctl.current /\ p.shock = ctl.shock
    BY <1>1, <1>2
  <2>2. e \in epochs' /\ e.id = n /\ e.predecessor = ctl.current
    BY <1>1, <1>2
  <2>3. /\ ctl.shock = NewShock - 1
        /\ \E u \in transitions : u.reason = "SHOCK_ATOMIC_CLOSE" /\ u.predecessor = ctl.current
    BY <1>4 DEF CoherenceInv, Phases
  <2> HIDE DEF p, e, t
  <2> QED
    BY <1>1, <1>5, <1>6, <1>7, <2>1, <2>2, <2>3 DEF Phases
<1>11. EarlyIsOld'
  BY <1>1, <1>4, <1>5, <1>6, <1>7 DEF CoherenceInv, EarlyIsOld
<1>12. ClosedBehind'
  BY <1>1, <1>5, <1>6, <1>7 DEF CoherenceInv, ClosedBehind, Row
<1>13. HarnessAccepts'
  <2>1. \A u \in transitions : Related(u)' \/ u.proof \in closures'
    BY <1>1, RelatedStays DEF CoherenceInv
  <2>2. p \in proofs' /\ e \in epochs' /\ n \notin closures' /\ <<s, n>> \in cursors'
    BY <1>1, <1>2, <1>3
  <2>3. \A u : u = t => Related(u)'
    BY <2>2 DEF Related, Row
  <2> QED
    BY <1>1, <2>1, <2>3 DEF HarnessAccepts
<1> QED
  BY <1>8, <1>9, <1>10, <1>11, <1>12, <1>13 DEF CoherenceInv

LEMMA ReleaseKeeps == ASSUME CoherenceInv, NEW w \in Writers, Release(w) PROVE CoherenceInv'
<1> DEFINE t == Row("RELEASE_PREDICATE_SATISFIED", "NEW_EPOCH_PENDING", seen[w].current,
                    seen[w].candidate, seen[w].shock, seen[w].candidate)
<1>1. /\ ctl' = [ctl EXCEPT !.state = "NEW_EPOCH_OPEN", !.current = ctl.candidate,
                            !.candidate = None]
      /\ transitions' = transitions \cup {t}
      /\ UNCHANGED <<epochs, proofs, shocks, closures, generation, cursors, early>>
  BY DEF Release, Commit
<1>2. /\ ctl.state = "NEW_EPOCH_PENDING" /\ seen[w].candidate = ctl.candidate
      /\ seen[w].candidate \notin closures
      /\ \E e \in epochs, p \in proofs :
           /\ p.id = seen[w].candidate
           /\ Binds(p, e, seen[w].current, seen[w].candidate, seen[w].shock)
  BY DEF Release, Commit, TransitionAdmitted, Row, MappingsOpen
<1>3. ctl.current \in Nat /\ ctl.candidate = ctl.current + 1 /\ ~IsOpen /\ ~Stuck
  BY <1>2 DEF CoherenceInv, Typed, Controllers, Phases, IsOpen, OpenStates, Stuck
<1>4. /\ ctl'.state = "NEW_EPOCH_OPEN" /\ ctl'.shock = ctl.shock
      /\ ctl'.current = ctl.current + 1 /\ ctl'.candidate = None /\ ctl' \in Controllers
  <2>1. "NEW_EPOCH_OPEN" \in States /\ ctl.current + 1 \in Nat
    BY <1>3 DEF States, OpenStates
  <2>2. ctl' = [ctl EXCEPT !.state = "NEW_EPOCH_OPEN", !.current = ctl.current + 1,
                           !.candidate = None]
    BY <1>1, <1>3
  <2> QED
    BY <2>1, <2>2 DEF CoherenceInv, Typed, Controllers
<1>5. IsOpen' /\ Named' = Named /\ Frontier' = Frontier /\ NewShock' = NewShock
  BY <1>1, <1>3, <1>4 DEF IsOpen, OpenStates, Named, Frontier, NewShock
<1>6. PICK q \in proofs : q.candidate = ctl.candidate
  BY <1>2 DEF CoherenceInv, Phases
<1>7. ctl.candidate \in Named
  BY <1>6 DEF CoherenceInv, ProofsSound
<1>8. Typed' /\ InPace' /\ ProofsSound'
  <2>1. 0 .. ctl.current + 1 = (0 .. ctl.current) \cup {ctl.current + 1}
    BY <1>3
  <2> QED
    BY <1>1, <1>3, <1>4, <1>5, <1>7, <2>1 DEF CoherenceInv, Typed, InPace, ProofsSound
<1>9. Phases'
  BY <1>1, <1>3, <1>4, <1>5, <1>6 DEF Phases
<1>10. EarlyIsOld'
  <2>1. \A c \in early : c[2] <= ctl.current /\ c[2] \in Nat
    BY <1>3 DEF CoherenceInv, EarlyIsOld, Typed
  <2> QED
    BY <1>1, <1>3, <1>4, <1>5, <2>1 DEF EarlyIsOld
<1>11. ClosedBehind'
  BY <1>1, <1>3, <1>4, <1>5 DEF CoherenceInv, ClosedBehind, Row
<1>12. HarnessAccepts'
  <2>1. \A u \in transitions : Related(u)' \/ u.proof \in closures'
    BY <1>1, RelatedStays DEF CoherenceInv
  <2>2. \A p \in proofs : p.cursor \in cursors
    BY DEF CoherenceInv, ProofsSound
  <2>3. \A u : u = t => Related(u)'
    BY <1>1, <1>2, <2>2 DEF Related, Row, Binds
  <2> QED
    BY <1>1, <2>1, <2>3 DEF HarnessAccepts
<1> QED
  BY <1>8, <1>9, <1>10, <1>11, <1>12 DEF CoherenceInv

LEMMA NewShockPendingKeeps == ASSUME CoherenceInv, NewShockPending PROVE CoherenceInv'
<1> DEFINE e == [id |-> ctl.candidate + 1, predecessor |-> ctl.candidate, proof |-> ctl.candidate]
           t == Row("NEW_SHOCK_CLOSED_CANDIDATE", "NEW_EPOCH_PENDING", ctl.current,
                    ctl.candidate, NewShock, ctl.candidate)
<1>1. /\ ctl' = [ctl EXCEPT !.state = "WAITING_FOR_RESNAPSHOT", !.candidate = None,
                            !.shock = NewShock]
      /\ epochs' = epochs \cup {e} /\ transitions' = transitions \cup {t}
      /\ UNCHANGED <<proofs, closures, generation, cursors>>
      /\ Observe("OTHER") /\ ctl.candidate # None
  BY DEF NewShockPending, Commit
<1>2. /\ NewShock' = NewShock + 1 /\ DOMAIN shocks' = 1 .. NewShock /\ early' = cursors
      /\ NewShock \in Nat
  BY <1>1, ObserveCounts DEF CoherenceInv, Typed
<1>3. ctl.state = "NEW_EPOCH_PENDING"
  BY <1>1 DEF CoherenceInv, Phases
<1>4. ctl.current \in Nat /\ ctl.candidate = ctl.current + 1 /\ ~IsOpen /\ ~Stuck
  BY <1>3 DEF CoherenceInv, Typed, Controllers, Phases, IsOpen, OpenStates, Stuck
<1>5. /\ ctl'.state = "WAITING_FOR_RESNAPSHOT" /\ ctl'.shock = NewShock
      /\ ctl'.current = ctl.current /\ ctl'.candidate = None /\ ctl' \in Controllers
  BY <1>1, <1>2 DEF CoherenceInv, Typed, Controllers, States
<1>6. ctl.candidate \in Named
  BY <1>3 DEF CoherenceInv, Phases, Named
<1>7. ~IsOpen' /\ Named' = Named \cup {e.id} /\ Frontier' = Frontier
  <2>1. Named' = Named \cup {e.id}
    BY <1>1 DEF Named
  <2> QED
    BY <1>4, <1>5, <2>1 DEF IsOpen, OpenStates, Frontier
<1>8. Stuck'
  BY <1>4, <1>5, <1>6, <1>7 DEF Stuck
<1>9. Typed' /\ InPace' /\ ProofsSound'
  BY <1>1, <1>2, <1>5, <1>7 DEF CoherenceInv, Typed, InPace, ProofsSound
<1>10. Phases'
  <2>1. \E u \in transitions' : u.reason = "SHOCK_ATOMIC_CLOSE" /\ u.predecessor = ctl.current
    BY <1>1, <1>4 DEF CoherenceInv, Phases
  <2> QED
    BY <1>2, <1>5, <2>1 DEF Phases
<1>11. EarlyIsOld'
  BY <1>5, <1>8 DEF EarlyIsOld
<1>12. ClosedBehind'
  BY <1>1, <1>4, <1>5, <1>7, <1>8 DEF CoherenceInv, ClosedBehind, Row
<1>13. HarnessAccepts'
  <2>1. \A u \in transitions : Related(u)' \/ u.proof \in closures'
    BY <1>1, RelatedStays DEF CoherenceInv
  <2>2. \E f \in epochs : f.id = ctl.candidate /\ f.predecessor = ctl.current
    BY <1>3 DEF CoherenceInv, Phases
  <2>3. \A u : u = t => Related(u)'
    BY <1>1, <2>2 DEF Related, Row
  <2> QED
    BY <1>1, <2>1, <2>3 DEF HarnessAccepts
<1> QED
  BY <1>9, <1>10, <1>11, <1>12, <1>13 DEF CoherenceInv

\* What leaves the controller and its history alone: readings, new streams, deliveries and
\* closed mappings.
LEMMA OthersKeep ==
  ASSUME CoherenceInv,
         \/ \E s \in Streams : SeedGeneration(s) \/ Deliver(s)
         \/ \E p \in proofs : CloseMapping(p)
         \/ \E w \in Writers : Read(w)
         \/ UNCHANGED coherenceVars
  PROVE  CoherenceInv'
<1>1. /\ UNCHANGED <<ctl, epochs, proofs, shocks, transitions, early>>
      /\ cursors \subseteq cursors' /\ closures \subseteq closures'
  BY DEF SeedGeneration, Deliver, CloseMapping, Read, coherenceVars
<1>2. IsOpen' = IsOpen /\ Named' = Named /\ Frontier' = Frontier /\ NewShock' = NewShock
  BY <1>1 DEF IsOpen, Named, Frontier, NewShock
<1>3. ctl.current \in Nat
  BY DEF CoherenceInv, Typed, Controllers
<1>4. /\ generation' \in [Streams -> Nat \cup {None}]
      /\ \A s \in Streams : generation'[s] # None => generation'[s] <= Frontier
      /\ cursors' \subseteq Streams \X Nat /\ \A c \in cursors' : c[2] <= Frontier
      /\ closures' \subseteq Nat
  <2>1. CASE \E s \in Streams : SeedGeneration(s)
    <3>1. Frontier = ctl.current + 1
      BY <2>1 DEF SeedGeneration, Frontier, IsOpen, OpenStates
    <3> QED
      BY <1>3, <2>1, <3>1 DEF SeedGeneration, CoherenceInv, Typed, InPace
  <2>2. CASE \E s \in Streams : Deliver(s)
    BY <2>2 DEF Deliver, CoherenceInv, Typed, InPace
  <2>3. CASE \E p \in proofs : CloseMapping(p)
    BY <2>3 DEF CloseMapping, CoherenceInv, Typed, InPace, ProofsSound
  <2>4. CASE UNCHANGED <<generation, cursors, closures>>
    BY <2>4 DEF CoherenceInv, Typed, InPace
  <2> QED
    BY <2>1, <2>2, <2>3, <2>4 DEF Read, coherenceVars
<1>5. Typed' /\ InPace' /\ ProofsSound'
  BY <1>1, <1>2, <1>4 DEF CoherenceInv, Typed, InPace, ProofsSound
<1>6. Phases' /\ EarlyIsOld' /\ ClosedBehind'
  BY <1>1, <1>2 DEF CoherenceInv, Phases, EarlyIsOld, ClosedBehind, Stuck
<1>7. HarnessAccepts'
  <2>1. \A u \in transitions : Related(u)' \/ u.proof \in closures'
    BY <1>1, RelatedStays DEF CoherenceInv
  <2> QED
    BY <1>1, <2>1 DEF HarnessAccepts
<1> QED
  BY <1>5, <1>6, <1>7 DEF CoherenceInv

LEMMA CoherenceInvariant == CoherenceSpec => []CoherenceInv
<1>1. CoherenceInv /\ [CoherenceNext]_coherenceVars => CoherenceInv'
  BY GapKeeps, ShockCloseKeeps, WaitingKeeps, PendingKeeps, ReleaseKeeps, NewShockPendingKeeps,
     OthersKeep DEF CoherenceNext, Recovering
<1> QED
  BY <1>1, InitInv, PTL DEF CoherenceSpec

-----------------------------------------------------------------------------
(* The promises.                                                           *)

LEMMA NothingReturns == CoherenceInv => NothingComesBack
<1> SUFFICES ASSUME CoherenceInv PROVE NothingComesBack
  OBVIOUS
<1>1. ctl.current \in Nat
  BY DEF CoherenceInv, Typed, Controllers
<1>2. IsOpen => \A n \in ClosedEpochs : n \in Nat /\ n < ctl.current
  BY <1>1 DEF CoherenceInv, ClosedBehind, ClosedEpochs, Frontier, Stuck, IsOpen, OpenStates
<1>3. ctl.candidate \notin ClosedEpochs
  <2>1. CASE ctl.state = "NEW_EPOCH_PENDING"
    <3>1. ctl.candidate = ctl.current + 1
      BY <2>1 DEF CoherenceInv, Phases
    <3>2. \A n \in ClosedEpochs : n < ctl.current + 1
      BY <1>1, <2>1 DEF CoherenceInv, ClosedBehind, ClosedEpochs, Frontier, Stuck, IsOpen, OpenStates
    <3> QED
      BY <1>1, <3>1, <3>2
  <2>2. CASE ctl.state # "NEW_EPOCH_PENDING"
    <3>1. ctl.candidate = None
      BY <2>2 DEF CoherenceInv, Phases
    <3>2. \A n \in ClosedEpochs : n \in Nat
      BY <1>1 DEF CoherenceInv, ClosedBehind, ClosedEpochs
    <3> QED
      BY <3>1, <3>2, BoundsAssumption
  <2> QED
    BY <2>1, <2>2
<1>4. ClosedForever
  BY <1>1, <1>2, <1>3 DEF ClosedForever, IsOpen
<1>5. PostShockEvidence
  <2> SUFFICES ASSUME ctl.state = "NEW_EPOCH_OPEN"
               PROVE  \E p \in proofs : p.candidate = ctl.current /\ p.cursor \notin early
    BY DEF PostShockEvidence
  <2>1. PICK p \in proofs : p.candidate = ctl.current
    BY DEF CoherenceInv, Phases
  <2>2. p.cursor[2] = ctl.current /\ \A c \in early : c[2] < ctl.current
    BY <2>1 DEF CoherenceInv, ProofsSound, EarlyIsOld
  <2> QED
    BY <1>1, <2>1, <2>2
<1> QED
  BY <1>4, <1>5 DEF NothingComesBack, CoherenceInv

LEMMA PendingAnswers == CoherenceInv => PendingAnswersShock
<1> SUFFICES ASSUME CoherenceInv PROVE PendingRestsOnProof /\ SchemaAsStrict
  BY DEF PendingAnswersShock
<1>1. PendingRestsOnProof
  BY DEF CoherenceInv, Phases, PendingRestsOnProof
<1>2. ASSUME NEW p \in proofs,
             TransitionAdmitted(Row("RELEASE_PREDICATE_SATISFIED", "NEW_EPOCH_PENDING",
                                    ctl.current, ctl.candidate, ctl.shock, p.id), epochs, proofs)
      PROVE  EvaluatorReleases(p)
  <2>1. /\ ctl.state = "NEW_EPOCH_PENDING" /\ p.id \notin closures
        /\ \E e \in epochs, q \in proofs :
             /\ q.id = p.id /\ Binds(q, e, ctl.current, ctl.candidate, ctl.shock)
             /\ generation[q.cursor[1]] = q.cursor[2]
    BY <1>2 DEF TransitionAdmitted, Row, MappingsOpen
  <2>2. /\ p.candidate = ctl.candidate /\ p.predecessor = ctl.current /\ p.shock = ctl.shock
        /\ generation[p.cursor[1]] = p.cursor[2]
    BY <2>1 DEF CoherenceInv, ProofsSound, Binds
  <2>3. ctl.current \in Nat /\ ctl.candidate = ctl.current + 1 /\ ~IsOpen /\ ~Stuck
    BY <2>1 DEF CoherenceInv, Typed, Controllers, Phases, IsOpen, OpenStates, Stuck
  <2>4. ctl.candidate \notin {None, ctl.current}
    BY <2>3, BoundsAssumption
  <2>5. ctl.current \in ClosedEpochs /\ ctl.shock = NewShock - 1
    BY <2>3 DEF CoherenceInv, Phases, ClosedEpochs
  <2>6. p.cursor \in cursors \ early
    <3>1. p.cursor \in cursors /\ p.cursor[2] = ctl.current + 1
      BY <2>2, <2>3 DEF CoherenceInv, ProofsSound
    <3>2. \A c \in early : c[2] <= ctl.current
      BY <2>3 DEF CoherenceInv, EarlyIsOld
    <3> QED
      BY <2>3, <3>1, <3>2
  <2> QED
    BY <2>1, <2>2, <2>4, <2>5, <2>6 DEF EvaluatorReleases
<1> QED
  BY <1>1, <1>2 DEF SchemaAsStrict

\* An epoch a shock has closed is never opened again, what opens is younger than the shock, and
\* the logged history can be read back (coherence.py CLOSED_FOREVER, E_NOT_STRICTLY_POST_SHOCK).
THEOREM ClosedNeverReturns == CoherenceSpec => []NothingComesBack
BY CoherenceInvariant, NothingReturns, PTL

\* A candidate answers the shock that is active, and what the triggers release evaluate_release
\* would have released, however stale the writers' readings of the controller.
THEOREM PendingAlwaysAnswers == CoherenceSpec => []PendingAnswersShock
BY CoherenceInvariant, PendingAnswers, PTL

\* Every write of the controller is a row of the table, or leaves its state alone.
LEMMA StepFollowsTable ==
  ASSUME CoherenceInv, [CoherenceNext]_coherenceVars PROVE [Promise!Next]_(ctl.state)
<1> USE DEF Promise!Next, Promise!Transition, Promise!Table
<1>1. ASSUME NEW s \in Streams, Gap(s) PROVE Promise!Next
  <2>1. ctl.state \in OpenStates /\ ctl'.state = "SHOCKED_CLOSED"
    BY <1>1 DEF Gap, Commit, CoherenceInv, Typed, Controllers
  <2> QED
    BY <2>1 DEF OpenStates
<1>2. ASSUME NEW w \in Writers, NEW type, ShockClose(w, type) PROVE Promise!Next
  <2>1. ctl.state \in OpenStates /\ ctl'.state = "SHOCKED_CLOSED"
    BY <1>2 DEF ShockClose, Commit, TransitionAdmitted, Row, CoherenceInv, Typed, Controllers
  <2> QED
    BY <2>1 DEF OpenStates
<1>3. ASSUME NEW w \in Writers, Waiting(w) PROVE Promise!Next
  <2>1. ctl' = [ctl EXCEPT !.state = "WAITING_FOR_RESNAPSHOT"]
    BY <1>3 DEF Waiting, Commit
  <2>2. ctl.state = "SHOCKED_CLOSED" /\ ctl'.state = "WAITING_FOR_RESNAPSHOT"
    BY <1>3, <2>1 DEF Waiting, Commit, UpdateAdmitted, CoherenceInv, Typed, Controllers, OpenStates
  <2> QED
    BY <2>2
<1>4. ASSUME NEW w \in Writers, NEW s \in Streams, NEW n \in 1 .. LastEpoch, Pending(w, s, n)
      PROVE  Promise!Next
  <2>1. ctl.state = "WAITING_FOR_RESNAPSHOT" /\ ctl'.state = "NEW_EPOCH_PENDING"
    BY <1>4 DEF Pending, Commit, TransitionAdmitted, Row, CoherenceInv, Typed, Controllers
  <2> QED
    BY <2>1
<1>5. ASSUME NEW w \in Writers, Release(w) PROVE Promise!Next
  <2>1. ctl.state = "NEW_EPOCH_PENDING" /\ ctl'.state = "NEW_EPOCH_OPEN"
    BY <1>5 DEF Release, Commit, TransitionAdmitted, Row, CoherenceInv, Typed, Controllers
  <2> QED
    BY <2>1
<1>6. ASSUME NewShockPending PROVE Promise!Next
  <2>1. ctl.state = "NEW_EPOCH_PENDING" /\ ctl'.state = "WAITING_FOR_RESNAPSHOT"
    BY <1>6 DEF NewShockPending, Commit, CoherenceInv, Phases, Typed, Controllers
  <2> QED
    BY <2>1
<1>7. ASSUME \/ \E s \in Streams : SeedGeneration(s) \/ Deliver(s)
             \/ \E p \in proofs : CloseMapping(p)
             \/ \E w \in Writers : Read(w)
             \/ UNCHANGED coherenceVars
      PROVE  ctl' = ctl
  BY <1>7 DEF SeedGeneration, Deliver, CloseMapping, Read, coherenceVars
<1> HIDE DEF Promise!Next, Promise!Transition, Promise!Table
<1> QED
  BY <1>1, <1>2, <1>3, <1>4, <1>5, <1>6, <1>7 DEF CoherenceNext, Recovering

\* The store's triggers implement the state machine of coherence.py, whoever writes and however
\* stale what the writer has read (coherence_controller_update_guard).
THEOREM ControllerFollowsTable == CoherenceSpec => FollowsTable
<1>1. CoherenceInit => Promise!Init
  BY DEF CoherenceInit, Promise!Init
<1> QED
  BY <1>1, StepFollowsTable, CoherenceInvariant, PTL DEF CoherenceSpec, FollowsTable, Promise!Spec

\* Where a new shock has closed the candidate, the controller stays: this is why
\* ClosedCandidateIsFollowed, the promise of crash-harness-registry.v1.json:1377, fails.
THEOREM ClosedCandidateStays == CoherenceSpec => [][CandidateClosed => CandidateClosed']_coherenceVars
<1>1. CoherenceInv /\ [CoherenceNext]_coherenceVars => [CandidateClosed => CandidateClosed']_coherenceVars
  <2> SUFFICES ASSUME CoherenceInv, CoherenceNext, CandidateClosed PROVE CandidateClosed'
    OBVIOUS
  <2>1. ctl.state = "WAITING_FOR_RESNAPSHOT" /\ ~IsOpen /\ Stuck
    BY DEF CandidateClosed, CoherenceInv, ClosedBehind, IsOpen, OpenStates
  <2>2. ASSUME NEW w \in Writers, NEW s \in Streams, NEW n \in 1 .. LastEpoch, Pending(w, s, n)
        PROVE  FALSE
    <3>1. n \in Nat /\ n \notin Named /\ <<s, n>> \in cursors
      BY <2>2, BoundsAssumption DEF Pending, EpochFits, ProofAdmitted, Named
    <3> QED
      BY <2>1, <3>1, CandidateIsNext
  <2>3. ctl.candidate = None
    BY <2>1 DEF CoherenceInv, Phases
  <2>4. ASSUME NEW w \in Writers, NEW type, ShockClose(w, type) PROVE FALSE
    BY <2>1, <2>4 DEF ShockClose, Commit, TransitionAdmitted, Row, IsOpen
  <2>5. ASSUME NEW w \in Writers, Waiting(w) PROVE FALSE
    <3>1. [ctl EXCEPT !.state = "WAITING_FOR_RESNAPSHOT"].shock = ctl.shock
      BY DEF CoherenceInv, Typed, Controllers
    <3>2. [ctl EXCEPT !.state = "WAITING_FOR_RESNAPSHOT"].state = "WAITING_FOR_RESNAPSHOT"
      BY DEF CoherenceInv, Typed, Controllers
    <3> QED
      BY <2>1, <2>5, <3>1, <3>2 DEF Waiting, Commit, UpdateAdmitted, OpenStates
  <2>6. ASSUME NEW w \in Writers, Release(w) PROVE FALSE
    BY <2>1, <2>6 DEF Release, Commit, TransitionAdmitted, Row
  <2>7. ASSUME NEW s \in Streams, Gap(s) PROVE FALSE
    BY <2>1, <2>7 DEF Gap, IsOpen
  <2>8. ~NewShockPending
    BY <2>3 DEF NewShockPending
  <2>9. UNCHANGED <<ctl, transitions>>
    <3>1. \/ \E s \in Streams : SeedGeneration(s) \/ Deliver(s)
          \/ \E p \in proofs : CloseMapping(p)
          \/ \E w \in Writers : Read(w)
      BY <2>2, <2>4, <2>5, <2>6, <2>7, <2>8 DEF CoherenceNext, Recovering
    <3> QED
      BY <3>1 DEF SeedGeneration, Deliver, CloseMapping, Read
  <2> QED
    BY <2>9 DEF CandidateClosed
<1> QED
  BY <1>1, CoherenceInvariant, PTL DEF CoherenceSpec
=============================================================================
