------------------------------- MODULE Spool -------------------------------
(***************************************************************************)
(* The durable spool of one stream generation, src/extension/src/spool.ts: *)
(* several instances of class Spool (a worker and the ones that replace    *)
(* it) over one IndexedDB database.  An instance runs its writes one after *)
(* the other (serializeWrite); a write is a read-only snapshot and, later, *)
(* a read-write transaction that compares the stored state with the        *)
(* snapshot before it changes anything.  Instances interleave between the  *)
(* two, and an instance may be terminated at any point.                    *)
(*                                                                         *)
(* Abstractions: an observation is its position and its raw observation    *)
(* identity; a cursor hash is the sequence of identities it commits to;    *)
(* input validation (schema, binding, hashes) happens before the snapshot  *)
(* and admits exactly Observations.                                        *)
(***************************************************************************)
EXTENDS Integers, Sequences

CONSTANTS
  Instances,  \* instances of Spool over the database
  Ids,        \* raw observation identities
  Size,       \* payload bytes of an observation
  Limit,      \* normalByteLimit
  MaxSeq,     \* bound: positions offered
  MaxJobs     \* bound: calls an instance has accepted and not answered

ASSUME SizeAssumption == Size \in [Ids -> Nat \ {0}]
ASSUME BoundAssumption == MaxSeq \in Nat /\ Limit \in Nat /\ MaxJobs \in Nat

VARIABLES
  rows,      \* spool_entries_v1, by sequence
  state,     \* the stream's row of browser_stream_state_v1
  queue,     \* the calls each instance has accepted, in order
  returned,  \* observations for which an append has returned
  refused,   \* the observation of an append that the last step refused
  writer     \* the instance of the last committed transaction

vars == <<rows, state, queue, returned, refused, writer>>

Observations == [seq : 1..MaxSeq, id : Ids]

(* Cursor hashes bind every identity up to the position; <<>> is H0. *)
Cursor(n) == SubSeq(rows, 1, n)

InitialState == [next |-> 1, last |-> <<>>, ack |-> 0, ackCursor |-> <<>>, bytes |-> 0]

AppendCall(o)  == [op |-> "APPEND", obs |-> o, phase |-> "QUEUED", seen |-> InitialState]
AckCall(n, c)  == [op |-> "ACK", seq |-> n, cursor |-> c, phase |-> "QUEUED",
                   seen |-> InitialState]

(* validate adds up the payload sizes of the rows, in their order. *)
BytesOf(r) ==
  LET total[n \in 0..Len(r)] == IF n = 0 THEN 0 ELSE total[n - 1] + Size[r[n]]
  IN  total[Len(r)]

(* validate: what every snapshot checks before it is used. *)
Chained ==
  /\ state.next = Len(rows) + 1
  /\ state.last = Cursor(Len(rows))
  /\ state.ack \in 0..Len(rows)
  /\ state.ackCursor = Cursor(state.ack)

Valid == Chained /\ state.bytes = BytesOf(rows)

Retained(o) == o.seq \in DOMAIN rows /\ rows[o.seq] = o.id

Init ==
  /\ rows = <<>>
  /\ state = InitialState
  /\ queue = [i \in Instances |-> <<>>]
  /\ returned = {} /\ refused = {}
  /\ writer \in Instances

-----------------------------------------------------------------------------
(* Mutant: the calls of an instance run side by side. *)
ServingAll(i) == DOMAIN queue[i]

(* serializeWrite: the place in its queue of the call an instance works on. *)
Serving(i) == DOMAIN queue[i] \cap {1}

Finish(i, k) ==
  queue' = [queue EXCEPT ![i] = [n \in 1..Len(queue[i]) - 1 |->
                                   queue[i][IF n < k THEN n ELSE n + 1]]]

Entered(job, phase) == [job EXCEPT !.phase = phase, !.seen = state]

Enter(i, k, phase) ==
  queue' = [queue EXCEPT ![i] = [queue[i] EXCEPT ![k] = Entered(queue[i][k], phase)]]

CallAppend(i) ==
  /\ Len(queue[i]) < MaxJobs
  /\ \E o \in Observations : queue' = [queue EXCEPT ![i] = Append(queue[i], AppendCall(o))]
  /\ refused' = {}
  /\ UNCHANGED <<rows, state, returned, writer>>

(* The cursor of the position, or one that is not. *)
CallPersistAck(i) ==
  /\ Len(queue[i]) < MaxJobs
  /\ \E n \in 0..MaxSeq : \E c \in {<<>>} \cup {Cursor(m) : m \in {n} \cap DOMAIN rows} :
       queue' = [queue EXCEPT ![i] = Append(queue[i], AckCall(n, c))]
  /\ refused' = {}
  /\ UNCHANGED <<rows, state, returned, writer>>

-----------------------------------------------------------------------------
(* appendRecord *)

At(i, k, op, phase) ==
  k \in Serving(i) /\ queue[i][k].op = op /\ queue[i][k].phase = phase

(* Mutant: the limit is compared with the bytes already used. *)
FitsBefore(o) == state.bytes <= Limit

Fits(o) == state.bytes + Size[o.id] <= Limit

Appendable(o) == Valid /\ o.seq = state.next /\ Fits(o)

(* Mutant: any record at the position answers the call. *)
AnswerRetainedAny(i, k) ==
  LET o == queue[i][k].obs
  IN  /\ At(i, k, "APPEND", "QUEUED") \/ At(i, k, "APPEND", "RECHECK")
      /\ Valid /\ o.seq \in DOMAIN rows
      /\ returned' = returned \cup {o}
      /\ Finish(i, k)
      /\ refused' = {}
      /\ UNCHANGED <<rows, state, writer>>

(* The observation is already there: after the first snapshot, or after    *)
(* the one that follows a failed transaction.                              *)
AnswerRetained(i, k) ==
  LET o == queue[i][k].obs
  IN  /\ At(i, k, "APPEND", "QUEUED") \/ At(i, k, "APPEND", "RECHECK")
      /\ Valid /\ Retained(o)
      /\ returned' = returned \cup {o}
      /\ Finish(i, k)
      /\ refused' = {}
      /\ UNCHANGED <<rows, state, writer>>

(* E_SPOOL_CONFLICT, E_SPOOL_SEQUENCE, E_SPOOL_CAPACITY, E_SPOOL_CHAIN, or *)
(* the error of the failed transaction.                                    *)
RefuseAppend(i, k) ==
  LET o == queue[i][k].obs
  IN  /\ \/ At(i, k, "APPEND", "QUEUED") /\ ~Appendable(o)
         \/ At(i, k, "APPEND", "RECHECK")
      /\ ~(Valid /\ Retained(o))
      /\ refused' = {o}
      /\ Finish(i, k)
      /\ UNCHANGED <<rows, state, returned, writer>>

PrepareAppend(i, k) ==
  /\ At(i, k, "APPEND", "QUEUED")
  /\ Appendable(queue[i][k].obs)
  /\ Enter(i, k, "WRITE")
  /\ refused' = {}
  /\ UNCHANGED <<rows, state, returned, writer>>

(* Mutant: the stored state is not compared with the snapshot. *)
SameUnchecked(job) == TRUE

(* write: the stored state is still the one of the snapshot. *)
Same(job) == state = job.seen

(* add: neither the key nor the unique by_raw_observation_id is taken. *)
Addable(o) == o.seq \notin DOMAIN rows /\ \A k \in DOMAIN rows : rows[k] # o.id

(* The entry at its key and the next state, in one transaction. *)
CommitAppend(i, k) ==
  LET job == queue[i][k]
      id  == job.obs.id
  IN  /\ At(i, k, "APPEND", "WRITE")
      /\ Same(job) /\ Addable(job.obs)
      /\ rows' = Append(rows, id)
      /\ state' = [job.seen EXCEPT !.next = job.seen.next + 1,
                                   !.last = Append(job.seen.last, id),
                                   !.bytes = job.seen.bytes + Size[id]]
      /\ returned' = returned \cup {job.obs}
      /\ refused' = {}
      /\ writer' = i
      /\ Finish(i, k)

(* Mutant: a failed transaction is the end of the call. *)
AbortAppendWithoutRecheck(i, k) ==
  /\ At(i, k, "APPEND", "WRITE")
  /\ ~(Same(queue[i][k]) /\ Addable(queue[i][k].obs))
  /\ Finish(i, k)
  /\ refused' = {queue[i][k].obs}
  /\ UNCHANGED <<rows, state, returned, writer>>

AbortAppend(i, k) ==
  /\ At(i, k, "APPEND", "WRITE")
  /\ ~(Same(queue[i][k]) /\ Addable(queue[i][k].obs))
  /\ Enter(i, k, "RECHECK")
  /\ refused' = {}
  /\ UNCHANGED <<rows, state, returned, writer>>

-----------------------------------------------------------------------------
(* persistAck *)

(* Mutant: an older acknowledgement is accepted. *)
AcceptableOld(n, c) == Valid /\ n <= Len(rows) /\ c = Cursor(n)

Acceptable(n, c) == Valid /\ n >= state.ack /\ n <= Len(rows) /\ c = Cursor(n)

(* E_SPOOL_ACK *)
RefuseAck(i, k) ==
  /\ At(i, k, "ACK", "QUEUED")
  /\ ~Acceptable(queue[i][k].seq, queue[i][k].cursor)
  /\ Finish(i, k)
  /\ refused' = {}
  /\ UNCHANGED <<rows, state, returned, writer>>

PrepareAck(i, k) ==
  /\ At(i, k, "ACK", "QUEUED")
  /\ Acceptable(queue[i][k].seq, queue[i][k].cursor)
  /\ Enter(i, k, "WRITE")
  /\ refused' = {}
  /\ UNCHANGED <<rows, state, returned, writer>>

CommitAck(i, k) ==
  /\ At(i, k, "ACK", "WRITE")
  /\ Same(queue[i][k])
  /\ state' = [queue[i][k].seen EXCEPT !.ack = queue[i][k].seq,
                                       !.ackCursor = queue[i][k].cursor]
  /\ writer' = i
  /\ Finish(i, k)
  /\ refused' = {}
  /\ UNCHANGED <<rows, returned>>

(* E_SPOOL_ABORT *)
AbortAck(i, k) ==
  /\ At(i, k, "ACK", "WRITE")
  /\ ~Same(queue[i][k])
  /\ Finish(i, k)
  /\ refused' = {}
  /\ UNCHANGED <<rows, state, returned, writer>>

-----------------------------------------------------------------------------
(* restartWorker: what the instance had accepted is gone, committed or not. *)
Terminate(i) ==
  /\ queue[i] # <<>>
  /\ queue' = [queue EXCEPT ![i] = <<>>]
  /\ refused' = {}
  /\ UNCHANGED <<rows, state, returned, writer>>

Write(i, k) ==
  \/ AnswerRetained(i, k) \/ RefuseAppend(i, k) \/ PrepareAppend(i, k)
  \/ CommitAppend(i, k) \/ AbortAppend(i, k)
  \/ RefuseAck(i, k) \/ PrepareAck(i, k) \/ CommitAck(i, k) \/ AbortAck(i, k)

Next ==
  \E i \in Instances :
    \/ CallAppend(i) \/ CallPersistAck(i) \/ Terminate(i)
    \/ \E k \in DOMAIN queue[i] : Write(i, k)

Spec == Init /\ [][Next]_vars

-----------------------------------------------------------------------------
State == [next : Nat \ {0}, last : Seq(Ids), ack : Nat, ackCursor : Seq(Ids), bytes : Nat]

Jobs ==
  [op : {"APPEND"}, obs : Observations, phase : {"QUEUED", "WRITE", "RECHECK"}, seen : State]
  \cup [op : {"ACK"}, seq : Nat, cursor : Seq(Ids), phase : {"QUEUED", "WRITE"}, seen : State]

(* The shape of the database and of the calls in progress. *)
TypeOK ==
  /\ rows \in Seq(Ids)
  /\ state \in State
  /\ queue \in [Instances -> Seq(Jobs)]
  /\ returned \in SUBSET Observations
  /\ refused \in SUBSET Observations
  /\ writer \in Instances

(* The checks of validate hold after every transaction, whatever instances *)
(* raced to it: a snapshot never finds the spool damaged (E_SPOOL_CHAIN),  *)
(* and the bytes counted are the bytes stored, within the limit.           *)
SpoolValid == Valid /\ state.bytes <= Limit

(* An append that has returned, from whichever path of appendRecord, has   *)
(* its own observation durably at its own position, for good.              *)
ReturnedIsRetained == \A o \in returned : Retained(o)

(* serializeWrite: a transaction of an instance finds its snapshot stale   *)
(* only when another instance has written; a worker that appends and       *)
(* persists ACKs side by side never aborts itself (PIPELINE).              *)
StaleOnlyByOthers ==
  \A i \in Instances : \A k \in DOMAIN queue[i] :
    queue[i][k].phase = "WRITE" /\ queue[i][k].seen # state => writer # i

(* An append is never refused while its observation is in the spool: of    *)
(* two instances that append the same one, both succeed.                   *)
RetainedNeverRefused == \A o \in refused : ~Retained(o)

(* All the instances together implement the one log of SpoolLog. *)
Log == INSTANCE SpoolLog WITH log <- rows, ack <- state.ack
SpoolIsLog == Log!LogSpec
=============================================================================
