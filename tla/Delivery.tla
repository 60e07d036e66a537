------------------------------ MODULE Delivery ------------------------------
(***************************************************************************)
(* Delivery of one spooled stream: the client's flushPending loop          *)
(* (src/extension/src/security/loopback.ts) and the receiver's connection  *)
(* handlers (src/src/moj_discovery/offline_receiver.py) over WebSocket     *)
(* connections that close, reset and delay, while a writer appends, the    *)
(* worker is replaced and the receiver process crashes and is restarted.   *)
(*                                                                         *)
(* Composition: the spool is the log of SpoolLog, by its length and its    *)
(* acknowledged position; the receiver's store and journal are their       *)
(* contiguous positions (Ingest and InputJournal show what stands behind   *)
(* them); HELLO, WELCOME, READY are one frame each way.  Every connection  *)
(* has its own key and counters, so a frame is one of its connection.      *)
(*                                                                         *)
(* A connection is a slot, used again once both ends have let go of it;    *)
(* the number of credentials is not bounded.                               *)
(***************************************************************************)
EXTENDS Naturals, Sequences, FiniteSets

CONSTANTS
  MaxRecords,  \* bound: observations spooled
  BatchSize,   \* 1 or 32 in the code
  DenyAt,      \* the position a store with --fault SQLITE_DENY_THIRD denies
  Slots,       \* bound: connections that exist at a time
  MaxFaults,   \* bound: resets, timeouts, crashes and worker restarts
  None         \* no slot, no batch

ASSUME DeliveryAssumption ==
  /\ MaxRecords \in Nat /\ BatchSize \in Nat \ {0} /\ DenyAt \in Nat
  /\ MaxFaults \in Nat /\ None \notin Slots

VARIABLES
  spooled, acked,      \* the spool: records, acknowledged position
  applied, confirmed,  \* the receiver's store: stored and confirmed positions
  up, denies,          \* the receiver process runs; it has the fault store
  pc, error,           \* what the client does next; why it stopped
  session, ready,      \* the client's connection; its handshake is complete
  batch,               \* the BATCH the client waits for an answer to
  inbox,               \* frames received and not yet read
  retried,             \* retryStarted is set
  clientOpen, serverOpen,  \* the ends of each connection that are open
  toServer, toClient,      \* frames in flight
  handler,             \* the coroutine _connection of each connection
  inHand,              \* the BATCH it has read and not yet processed
  active,              \* _active
  faults

spoolVars  == <<spooled, acked>>
storeVars  == <<applied, confirmed, up, denies>>
clientVars == <<pc, error, session, ready, batch, inbox, retried>>
linkVars   == <<clientOpen, serverOpen, toServer, toClient>>
serverVars == <<handler, inHand, active>>
vars == <<spooled, acked, applied, confirmed, up, denies, pc, error, session, ready,
          batch, inbox, retried, clientOpen, serverOpen, toServer, toClient,
          handler, inHand, active, faults>>

Batch(first, last, id) == [first |-> first, last |-> last, id |-> id]

Frame(s, type)   == [slot |-> s, type |-> type]
BatchFrame(s, b) == [slot |-> s, type |-> "BATCH", batch |-> b]
Ack(s, b, n)     == [slot |-> s, type |-> "ACK", id |-> b.id, seq |-> n]
Nack(s, b)       == [slot |-> s, type |-> "NACK", id |-> b.id]

NoBatch == Batch(0, 0, 0)

Init ==
  /\ spooled = 0 /\ acked = 0
  /\ applied = 0 /\ confirmed = 0
  /\ up = TRUE /\ denies \in BOOLEAN
  /\ pc = "IDLE" /\ error = "NONE"
  /\ session = None /\ ready = FALSE
  /\ batch = NoBatch /\ inbox = <<>> /\ retried = FALSE
  /\ clientOpen = [s \in Slots |-> FALSE] /\ serverOpen = [s \in Slots |-> FALSE]
  /\ toServer = [s \in Slots |-> <<>>] /\ toClient = [s \in Slots |-> <<>>]
  /\ handler = [s \in Slots |-> "NONE"]
  /\ inHand = [s \in Slots |-> NoBatch]
  /\ active = None
  /\ faults = 0

-----------------------------------------------------------------------------
(* The client.                                                             *)

SpoolRecord ==
  /\ spooled < MaxRecords
  /\ spooled' = spooled + 1
  /\ UNCHANGED <<acked, storeVars, clientVars, linkVars, serverVars, faults>>

BeginFlush ==
  /\ pc = "IDLE" /\ acked < spooled
  /\ pc' = "FLUSH"
  /\ retried' = FALSE
  /\ UNCHANGED <<spoolVars, storeVars, error, session, ready, batch, inbox,
                 linkVars, serverVars, faults>>

Connected == session # None /\ ready /\ clientOpen[session]

(* The old connection is closed on the client's side. *)
Released == IF session = None THEN clientOpen ELSE [clientOpen EXCEPT ![session] = FALSE]

Free(s) ==
  /\ handler[s] = "NONE" /\ ~clientOpen[s] /\ ~serverOpen[s]
  /\ toServer[s] = <<>> /\ toClient[s] = <<>> /\ s # session

(* _request: connections that are not closed and whose handler runs. *)
Reserved == {s \in Slots : handler[s] # "NONE" /\ serverOpen[s]}

(* Mutant: connect keeps what the old socket has received. *)
ConnectKeepingInbox ==
  /\ pc = "FLUSH" /\ ~Connected
  /\ up /\ Cardinality(Reserved) < 2
  /\ \E s \in Slots :
       /\ Free(s)
       /\ session' = s
       /\ clientOpen' = [Released EXCEPT ![s] = TRUE]
       /\ serverOpen' = [serverOpen EXCEPT ![s] = TRUE]
       /\ toServer' = [toServer EXCEPT ![s] = <<Frame(s, "HELLO")>>]
       /\ handler' = [handler EXCEPT ![s] = "HELLO"]
  /\ ready' = FALSE
  /\ pc' = "HANDSHAKE"
  /\ UNCHANGED <<spoolVars, storeVars, error, batch, inbox, retried, toClient, inHand, active, faults>>

(* connect, up to the first frame the client waits for. *)
Connect ==
  /\ pc = "FLUSH" /\ ~Connected
  /\ up /\ Cardinality(Reserved) < 2
  /\ \E s \in Slots :
       /\ Free(s)
       /\ session' = s
       /\ clientOpen' = [Released EXCEPT ![s] = TRUE]
       /\ serverOpen' = [serverOpen EXCEPT ![s] = TRUE]
       /\ toServer' = [toServer EXCEPT ![s] = <<Frame(s, "HELLO")>>]
       /\ handler' = [handler EXCEPT ![s] = "HELLO"]
  /\ inbox' = <<>> /\ ready' = FALSE
  /\ pc' = "HANDSHAKE"
  /\ UNCHANGED <<spoolVars, storeVars, error, batch, retried, toClient, inHand, active, faults>>

(* No receiver, or E_OFFLINE_SOCKET_CAPACITY: E_OFFLINE_TRANSPORT. *)
ConnectRefused ==
  /\ pc = "FLUSH" /\ ~Connected
  /\ ~up \/ Cardinality(Reserved) >= 2
  /\ clientOpen' = Released
  /\ session' = None
  /\ inbox' = <<>> /\ ready' = FALSE
  /\ pc' = "RETRY"
  /\ UNCHANGED <<spoolVars, storeVars, error, batch, retried, serverOpen, toServer, toClient,
                 serverVars, faults>>

Genuine(f) == f.slot = session

Stop(code) == pc' = "STOPPED" /\ error' = code /\ clientOpen' = Released

FinishHandshake ==
  /\ pc = "HANDSHAKE" /\ inbox # <<>>
  /\ inbox' = Tail(inbox)
  /\ IF Genuine(Head(inbox))
       THEN ready' = TRUE /\ pc' = "SEND" /\ UNCHANGED <<error, clientOpen>>
       ELSE Stop("E_OFFLINE_FRAME") /\ UNCHANGED ready
  /\ UNCHANGED <<spoolVars, storeVars, session, batch, retried, serverOpen, toServer, toClient,
                 serverVars, faults>>

Smaller(a, b) == IF a < b THEN a ELSE b

(* readPendingObservations, and a fresh batch_id. *)
Pending == Batch(acked + 1, Smaller(acked + BatchSize, spooled), 1 - batch.id)

Sending == pc = "SEND" \/ (pc = "FLUSH" /\ Connected)

NothingPending ==
  /\ Sending
  /\ acked = spooled
  /\ pc' = "IDLE"
  /\ UNCHANGED <<spoolVars, storeVars, error, session, ready, batch, inbox, retried,
                 linkVars, serverVars, faults>>

SendBatch ==
  /\ Sending
  /\ acked < spooled
  /\ IF clientOpen[session]
       THEN /\ batch' = Pending
            /\ toServer' = IF serverOpen[session]
                             THEN [toServer EXCEPT ![session] = Append(@, BatchFrame(session, batch'))]
                             ELSE toServer
            /\ pc' = "AWAIT"
       ELSE pc' = "RETRY" /\ UNCHANGED <<batch, toServer>>
  /\ UNCHANGED <<spoolVars, storeVars, error, session, ready, inbox, retried,
                 clientOpen, serverOpen, toClient, serverVars, faults>>

(* What flushPending throws on an answer to its batch, "NONE" if nothing. *)
Refusal(f) ==
  IF ~Genuine(f) THEN "E_OFFLINE_FRAME"
  ELSE IF f.type = "READY_ACK" \/ f.id # batch.id THEN "E_OFFLINE_ACK_IDENTITY"
  ELSE IF f.type = "NACK" THEN "E_OFFLINE_NACK"
  ELSE IF f.seq \notin batch.first..batch.last THEN "E_OFFLINE_ACK_RANGE"
  ELSE IF f.seq \notin acked..spooled THEN "E_SPOOL_ACK"
  ELSE "NONE"

(* An ACK is persisted; a partial one is followed by a NACK. *)
ReceiveAck ==
  LET f == Head(inbox)
  IN  /\ pc = "AWAIT" /\ inbox # <<>>
      /\ Refusal(f) = "NONE"
      /\ inbox' = Tail(inbox)
      /\ acked' = f.seq
      /\ IF f.seq = batch.last
           THEN pc' = "FLUSH" /\ retried' = FALSE
           ELSE pc' = "AWAIT_NACK" /\ UNCHANGED retried
      /\ UNCHANGED <<spooled, storeVars, error, session, ready, batch, linkVars, serverVars, faults>>

ReceiveRefused ==
  /\ pc \in {"AWAIT", "AWAIT_NACK"} /\ inbox # <<>>
  /\ LET f    == Head(inbox)
         code == Refusal(f)
     IN  IF pc = "AWAIT" THEN code # "NONE" /\ Stop(code)
         ELSE Stop(IF code \in {"E_OFFLINE_FRAME", "E_OFFLINE_NACK"} THEN code
                   ELSE "E_OFFLINE_NACK_IDENTITY")
  /\ inbox' = Tail(inbox)
  /\ UNCHANGED <<spoolVars, storeVars, session, ready, batch, retried,
                 serverOpen, toServer, toClient, serverVars, faults>>

Waiting == pc \in {"HANDSHAKE", "AWAIT", "AWAIT_NACK"} /\ inbox = <<>>

(* Mutant: the wait for a NACK does not see the socket close. *)
ReceiveClosedBeforeNack ==
  /\ Waiting /\ pc # "AWAIT_NACK" /\ ~clientOpen[session]
  /\ pc' = "RETRY"
  /\ UNCHANGED <<spoolVars, storeVars, error, session, ready, batch, inbox, retried,
                 linkVars, serverVars, faults>>

(* E_OFFLINE_TRANSPORT: the socket has closed. *)
ReceiveClosed ==
  /\ Waiting /\ ~clientOpen[session]
  /\ pc' = "RETRY"
  /\ UNCHANGED <<spoolVars, storeVars, error, session, ready, batch, inbox, retried,
                 linkVars, serverVars, faults>>

(* E_OFFLINE_TRANSPORT: nothing in 5 or 30 seconds. *)
ReceiveTimeout ==
  /\ Waiting /\ clientOpen[session]
  /\ faults < MaxFaults
  /\ faults' = faults + 1
  /\ pc' = "RETRY"
  /\ UNCHANGED <<spoolVars, storeVars, error, session, ready, batch, inbox, retried,
                 linkVars, serverVars>>

(* Mutant: the session is kept over a transport error. *)
RetryKeepingSession ==
  /\ pc = "RETRY"
  /\ pc' = "FLUSH"
  /\ retried' = TRUE
  /\ UNCHANGED <<spoolVars, storeVars, error, session, ready, batch, inbox, linkVars, serverVars, faults>>

(* The back-off of a transport error; the first one never exceeds 30 s. *)
Retry ==
  /\ pc = "RETRY"
  /\ pc' = "FLUSH"
  /\ retried' = TRUE
  /\ ready' = FALSE
  /\ UNCHANGED <<spoolVars, storeVars, error, session, batch, inbox, linkVars, serverVars, faults>>

GiveUp ==
  /\ pc = "RETRY" /\ retried
  /\ Stop("E_OFFLINE_RECONNECT_TIMEOUT")
  /\ UNCHANGED <<spoolVars, storeVars, session, ready, batch, inbox, retried,
                 serverOpen, toServer, toClient, serverVars, faults>>

-----------------------------------------------------------------------------
(* The receiver.                                                           *)

Send(s, frames) ==
  toClient' = [toClient EXCEPT ![s] = IF serverOpen[s] THEN @ \o frames ELSE @]

(* The handshake ends with READY_ACK; the connection then waits for the lock. *)
AnswerHello(s) ==
  /\ handler[s] = "HELLO" /\ serverOpen[s] /\ toServer[s] # <<>>
  /\ toServer' = [toServer EXCEPT ![s] = Tail(@)]
  /\ Send(s, <<Frame(s, "READY_ACK")>>)
  /\ handler' = [handler EXCEPT ![s] = "LOCK"]
  /\ UNCHANGED <<spoolVars, storeVars, clientVars, clientOpen, serverOpen, inHand, active, faults>>

(* The connection takes the place of the active one, which is closed. *)
Activate(s) ==
  /\ handler[s] = "LOCK"
  /\ serverOpen' = [t \in Slots |-> IF t = active /\ t # s THEN FALSE ELSE serverOpen[t]]
  /\ active' = s
  /\ handler' = [handler EXCEPT ![s] = "SERVING"]
  /\ UNCHANGED <<spoolVars, storeVars, clientVars, clientOpen, toServer, toClient, inHand, faults>>

(* recv: a BATCH, which then waits for the lock. *)
TakeBatch(s) ==
  /\ handler[s] = "SERVING" /\ inHand[s] = NoBatch /\ toServer[s] # <<>>
  /\ inHand' = [inHand EXCEPT ![s] = Head(toServer[s]).batch]
  /\ toServer' = [toServer EXCEPT ![s] = Tail(@)]
  /\ UNCHANGED <<spoolVars, storeVars, clientVars, clientOpen, serverOpen, toClient,
                 handler, active, faults>>

Larger(a, b) == IF a > b THEN a ELSE b

(* The last position of a batch that Ingestor.apply accepts: a position it *)
(* has is acknowledged again, the next one is stored unless the store      *)
(* denies it, a later one is a gap.                                        *)
Reached(b) ==
  IF b.first > applied + 1 THEN b.first - 1
  ELSE IF denies /\ DenyAt \in (applied + 1)..b.last THEN DenyAt - 1
  ELSE b.last

(* process_batch: an ACK of what applied, a NACK of what did not. *)
Responses(s, b) ==
  (IF Reached(b) >= b.first THEN <<Ack(s, b, Reached(b))>> ELSE <<>>)
  \o (IF Reached(b) < b.last THEN <<Nack(s, b)>> ELSE <<>>)

(* Mutant: the ACK is sent before the store has confirmed it. *)
ConfirmedAsBefore(b) == confirmed

ConfirmedAfter(b) == IF Reached(b) >= b.first THEN Larger(confirmed, Reached(b)) ELSE confirmed

ProcessBatch(s) ==
  LET b == inHand[s]
  IN  /\ b # NoBatch /\ active = s
      /\ applied' = Larger(applied, Reached(b))
      /\ confirmed' = ConfirmedAfter(b)
      /\ Send(s, Responses(s, b))
      /\ inHand' = [inHand EXCEPT ![s] = NoBatch]
      /\ serverOpen' = [serverOpen EXCEPT ![s] = @ /\ Reached(b) = b.last]
      /\ UNCHANGED <<spoolVars, up, denies, clientVars, clientOpen, toServer,
                     handler, active, faults>>

(* E_OFFLINE_SESSION_REPLACED *)
RejectReplaced(s) ==
  /\ inHand[s] # NoBatch /\ active # s
  /\ inHand' = [inHand EXCEPT ![s] = NoBatch]
  /\ serverOpen' = [serverOpen EXCEPT ![s] = FALSE]
  /\ UNCHANGED <<spoolVars, storeVars, clientVars, clientOpen, toServer, toClient,
                 handler, active, faults>>

(* The end of _connection; what was not read is gone. *)
HandlerEnds(s) ==
  /\ handler[s] # "NONE" /\ ~serverOpen[s] /\ inHand[s] = NoBatch
  /\ handler' = [handler EXCEPT ![s] = "NONE"]
  /\ toServer' = [toServer EXCEPT ![s] = <<>>]
  /\ active' = IF active = s THEN None ELSE active
  /\ UNCHANGED <<spoolVars, storeVars, clientVars, clientOpen, serverOpen, toClient,
                 inHand, faults>>

-----------------------------------------------------------------------------
(* The connections.                                                        *)

(* onmessage: only the current socket's frames, and only while it is open. *)
Deliver(s) ==
  /\ toClient[s] # <<>>
  /\ toClient' = [toClient EXCEPT ![s] = Tail(@)]
  /\ inbox' = IF s = session /\ clientOpen[s] THEN Append(inbox, Head(toClient[s])) ELSE inbox
  /\ UNCHANGED <<spoolVars, storeVars, pc, error, session, ready, batch, retried,
                 clientOpen, serverOpen, toServer, serverVars, faults>>

ServerSeesClose(s) ==
  /\ serverOpen[s] /\ ~clientOpen[s]
  /\ serverOpen' = [serverOpen EXCEPT ![s] = FALSE]
  /\ UNCHANGED <<spoolVars, storeVars, clientVars, clientOpen, toServer, toClient,
                 serverVars, faults>>

(* onclose, after the frames that came before it. *)
ClientSeesClose(s) ==
  /\ clientOpen[s] /\ ~serverOpen[s] /\ toClient[s] = <<>>
  /\ clientOpen' = [clientOpen EXCEPT ![s] = FALSE]
  /\ UNCHANGED <<spoolVars, storeVars, clientVars, serverOpen, toServer, toClient,
                 serverVars, faults>>

(***************************************************************************)
(* Faults.                                                                 *)
(***************************************************************************)

Fault == faults < MaxFaults /\ faults' = faults + 1

(* A connection is reset, with everything in flight on it. *)
Reset(s) ==
  /\ Fault
  /\ clientOpen[s] \/ serverOpen[s]
  /\ clientOpen' = [clientOpen EXCEPT ![s] = FALSE]
  /\ serverOpen' = [serverOpen EXCEPT ![s] = FALSE]
  /\ toServer' = [toServer EXCEPT ![s] = <<>>]
  /\ toClient' = [toClient EXCEPT ![s] = <<>>]
  /\ UNCHANGED <<spoolVars, storeVars, clientVars, serverVars>>

(* What the store holds once the process that died in process_batch has    *)
(* been succeeded by one that reconciles its journal: any part of the      *)
(* batch, the denied position too, and the confirmation only at its end.   *)
StoreAfterCrash(b) ==
  \/ \E n \in b.first - 1..Smaller(Reached(b) + 1, b.last) :
       applied' = Larger(applied, n) /\ UNCHANGED confirmed
  \/ applied' = Larger(applied, Reached(b)) /\ confirmed' = ConfirmedAfter(b)

ReceiverCrash ==
  /\ Fault
  /\ up /\ up' = FALSE
  /\ \/ UNCHANGED <<applied, confirmed>>
     \/ active # None /\ inHand[active] # NoBatch /\ StoreAfterCrash(inHand[active])
  /\ serverOpen' = [s \in Slots |-> FALSE]
  /\ toServer' = [s \in Slots |-> <<>>]
  /\ toClient' \in {toClient, [s \in Slots |-> <<>>]}
  /\ handler' = [s \in Slots |-> "NONE"]
  /\ inHand' = [s \in Slots |-> NoBatch]
  /\ active' = None
  /\ UNCHANGED <<spoolVars, denies, clientVars, clientOpen>>

(* run_offline_receiver: reconciled, with or without the fault store. *)
ReceiverStart ==
  /\ ~up /\ up' = TRUE
  /\ denies' \in BOOLEAN
  /\ UNCHANGED <<spoolVars, applied, confirmed, clientVars, linkVars, serverVars, faults>>

(* restartWorker and INIT: a new client on the same spool. *)
WorkerRestart ==
  /\ Fault
  /\ pc' = "IDLE" /\ error' = "NONE"
  /\ clientOpen' = Released
  /\ session' = None /\ ready' = FALSE
  /\ inbox' = <<>> /\ retried' = FALSE
  /\ UNCHANGED <<spoolVars, storeVars, batch, serverOpen, toServer, toClient, serverVars>>

-----------------------------------------------------------------------------
Client ==
  \/ BeginFlush \/ Connect \/ ConnectRefused \/ FinishHandshake
  \/ NothingPending \/ SendBatch \/ ReceiveAck \/ ReceiveRefused
  \/ ReceiveClosed \/ Retry \/ GiveUp

Receiver(s) ==
  \/ AnswerHello(s) \/ Activate(s) \/ TakeBatch(s)
  \/ ProcessBatch(s) \/ RejectReplaced(s) \/ HandlerEnds(s)

Network(s) == Deliver(s) \/ ServerSeesClose(s) \/ ClientSeesClose(s)

Next ==
  \/ SpoolRecord \/ Client \/ ReceiveTimeout
  \/ \E s \in Slots : Receiver(s) \/ Network(s) \/ Reset(s)
  \/ ReceiverCrash \/ ReceiverStart \/ WorkerRestart

(* Event loops run what is ready and TCP delivers or reports; the retry    *)
(* loop ends 30 seconds after the first error since a batch succeeded, so  *)
(* it cannot go round for ever without giving up.  Nobody is obliged to    *)
(* restart a receiver or a worker.                                         *)
Spec ==
  /\ Init /\ [][Next]_vars
  /\ WF_vars(Client) /\ SF_vars(GiveUp)
  /\ \A s \in Slots : WF_vars(Receiver(s)) /\ WF_vars(Network(s))

-----------------------------------------------------------------------------
(* Whatever is retried, repeated or late, every answer of the receiver to  *)
(* this client is one it accepts: it never stops on a frame, an identity,  *)
(* a range or a position, and a NACK means the store denied a write, never *)
(* that the client left a gap.                                             *)
OnlyHonestStops ==
  /\ error \in {"NONE", "E_OFFLINE_RECONNECT_TIMEOUT", "E_OFFLINE_NACK"}
  /\ error = "E_OFFLINE_NACK" => applied >= DenyAt - 1

(* Positions go through spool, store, confirmation and acknowledgement in  *)
(* that order and only forward: nothing is acknowledged in the spool that  *)
(* the receiver could lose.                                                *)
Log == INSTANCE DeliveryLog
DeliveryIsLog == Log!LogSpec

(* What is spooled is acknowledged, or the client has stopped with an      *)
(* error; no connection, replaced, refused or closing, leaves it waiting,  *)
(* even without its timers.                                                *)
Settles == \A n \in 1..MaxRecords : spooled >= n ~> acked >= n \/ pc = "STOPPED"
=============================================================================
