------------------------------- MODULE Session -------------------------------
(***************************************************************************)
(* The frames of one session credential: SessionState and verify_frame of  *)
(* src/src/moj_discovery/offline_protocol.py and of                        *)
(* src/extension/src/offline/protocol.ts, driven as loopback.ts (connect,  *)
(* flushPending) and offline_receiver.py (_connection) drive them.         *)
(*                                                                         *)
(* All ends hold the same session_id and key, so the MAC of every frame    *)
(* sent here verifies and proves only that some end sent it.  Any frame    *)
(* ever sent may arrive at any end, any number of times, in any order, or  *)
(* never: what the counters, directions, nonces and the single use of a    *)
(* credential have to put right.                                           *)
(*                                                                         *)
(* A nonce is 32 random bytes; two ends never draw the same, so an end is  *)
(* its own nonce.                                                          *)
(***************************************************************************)
EXTENDS Naturals, Sequences, SequencesExt

CONSTANTS
  Clients,     \* connections of clients that were given the credential
  Handlers,    \* the receiver's coroutines _connection that see its frames
  NoNonce,     \* a nonce not known yet
  MaxCounter   \* bound: frames an end sends

ASSUME EndsAssumption ==
  /\ Clients \cap Handlers = {}
  /\ NoNonce \notin Clients \cup Handlers
  /\ MaxCounter \in Nat

Ends == Clients \cup Handlers

VARIABLES
  state,   \* the SessionState of each end
  status,  \* "NEW", "OPEN", or "CLOSED" after an error or the end
  late,    \* more than 5 seconds since the end's SessionState was made
  used,    \* the session is in the receiver's _used_sessions
  sent,    \* history: the frames each end has sent
  got      \* history: the frames each end has accepted

sessionVars == <<state, status, late, used, sent, got>>

Outgoing(e) == IF e \in Clients THEN "CLIENT_TO_BACKEND" ELSE "BACKEND_TO_CLIENT"
Incoming(e) == IF e \in Clients THEN "BACKEND_TO_CLIENT" ELSE "CLIENT_TO_BACKEND"

NewState == [stage |-> 0, in |-> 0, out |-> 0, client |-> NoNonce, server |-> NoNonce]

SessionInit ==
  /\ state = [e \in Ends |-> NewState]
  /\ status = [e \in Ends |-> "NEW"]
  /\ late = [e \in Ends |-> FALSE]
  /\ used = FALSE
  /\ sent = [e \in Ends |-> <<>>]
  /\ got = [e \in Ends |-> <<>>]

-----------------------------------------------------------------------------
(* SessionState.accept.                                                    *)

Types == <<"HELLO", "WELCOME", "READY", "READY_ACK">>
Handshake == Range(Types)

(* Mutant: the counter of a frame is only required not to go back. *)
NumberedLoosely(e, f, incoming) ==
  /\ f.direction = (IF incoming THEN Incoming(e) ELSE Outgoing(e))
  /\ f.counter >= (IF incoming THEN state[e].in ELSE state[e].out) + 1

Numbered(e, f, incoming) ==
  /\ f.direction = (IF incoming THEN Incoming(e) ELSE Outgoing(e))
  /\ f.counter = (IF incoming THEN state[e].in ELSE state[e].out) + 1

(* Whose turn it is: stages 0 and 2 are the client's frames. *)
Turn(e, incoming) == incoming = ((state[e].stage % 2 = 1) = (e \in Clients))

(* Mutant: an answer is not compared with the nonces of the handshake. *)
AnyNonces(e, f) == f.type = "WELCOME" => f.server # f.client

Nonces(e, f) ==
  /\ f.type # "HELLO" => f.client = state[e].client
  /\ f.type = "WELCOME" => f.server # f.client
  /\ f.type \in {"READY", "READY_ACK"} => f.server = state[e].server

Acceptable(e, f, incoming) ==
  /\ Numbered(e, f, incoming)
  /\ IF state[e].stage < 4
       THEN /\ ~late[e]
            /\ f.type = Types[state[e].stage + 1]
            /\ Turn(e, incoming)
            /\ Nonces(e, f)
       ELSE state[e].stage = 4 /\ f.type \notin Handshake

NextStage(e, f) ==
  IF state[e].stage < 4 THEN state[e].stage + 1
  ELSE IF f.type = "STOP" THEN 5 ELSE 4

Accept(e, f, incoming) ==
  state' = [state EXCEPT ![e] =
    [stage  |-> NextStage(e, f),
     in     |-> IF incoming THEN f.counter ELSE state[e].in,
     out    |-> IF incoming THEN state[e].out ELSE f.counter,
     client |-> IF f.type = "HELLO" THEN f.client ELSE state[e].client,
     server |-> IF f.type = "WELCOME" THEN f.server ELSE state[e].server]]

-----------------------------------------------------------------------------
(* What the two programs send.                                             *)

(* The body of HELLO names the client's nonce; WELCOME adds the receiver's; *)
(* READY and READY_ACK repeat both.                                        *)
NextFrame(e, type) ==
  [from |-> e, direction |-> Outgoing(e), counter |-> state[e].out + 1, type |-> type,
   client |-> IF type = "HELLO" THEN e
              ELSE IF type \in Handshake THEN state[e].client ELSE NoNonce,
   server |-> IF type = "WELCOME" THEN e
              ELSE IF type \in {"READY", "READY_ACK"} THEN state[e].server ELSE NoNonce]

IsRequest(f) == f.type \in {"BATCH", "PING"}
IsAnswer(f) == f.type \in {"ACK", "NACK", "PONG"}

Owed(requests, answers) == Len(SelectSeq(requests, IsRequest)) > Len(SelectSeq(answers, IsAnswer))

(* A client sends and waits for the answer; a handler answers what it took: *)
(* a batch that applied in part with an ACK (PARTIAL) and a NACK.  The     *)
(* client of loopback.ts sends only BATCH; the receiver answers PING too.  *)
Answers(e) ==
  IF Last(sent[e]).type = "PARTIAL" THEN {"NACK"}
  ELSE IF Last(got[e]).type = "PING" THEN {"PONG"}
  ELSE {"ACK", "PARTIAL", "NACK"}

Says(e) ==
  IF state[e].stage < 4 THEN IF Turn(e, FALSE) THEN {Types[state[e].stage + 1]} ELSE {}
  ELSE IF e \in Clients
    THEN IF state[e].stage = 4 /\ ~Owed(sent[e], got[e]) THEN {"BATCH", "PING", "STOP"} ELSE {}
    ELSE IF Owed(got[e], sent[e]) THEN Answers(e) ELSE {}

(* A NACK ends the connection, and so does a STOP. *)
StatusAfter(e, f) == IF f.type \in {"NACK", "STOP"} THEN [status EXCEPT ![e] = "CLOSED"] ELSE status

Open(e) ==
  /\ status[e] = "NEW"
  /\ status' = [status EXCEPT ![e] = "OPEN"]
  /\ UNCHANGED <<state, late, used, sent, got>>

(* SessionState.send *)
SendNext(e) ==
  /\ status[e] = "OPEN" /\ state[e].out < MaxCounter
  /\ \E type \in Says(e) :
       LET f == NextFrame(e, type)
       IN  /\ Acceptable(e, f, FALSE)
           /\ Accept(e, f, FALSE)
           /\ sent' = [sent EXCEPT ![e] = Append(@, f)]
           /\ status' = StatusAfter(e, f)
  /\ UNCHANGED <<late, used, got>>

(* A frame the end could not send any more: E_OFFLINE_HANDSHAKE_TIMEOUT. *)
SendTooLate(e) ==
  /\ status[e] = "OPEN"
  /\ \E type \in Says(e) : ~Acceptable(e, NextFrame(e, type), FALSE)
  /\ status' = [status EXCEPT ![e] = "CLOSED"]
  /\ UNCHANGED <<state, late, used, sent, got>>

Arriving(e) == UNION {Range(sent[o]) : o \in Ends}

(* Mutant: a handler does not look at _used_sessions. *)
ReusableCredential(e) == TRUE

(* E_OFFLINE_SESSION_REUSE *)
FreshCredential(e) == e \in Handlers /\ state[e].stage = 0 => ~used

AwaitsFrame(e) == status[e] = "OPEN" /\ Says(e) = {}

(* verify_frame *)
Receive(e) ==
  /\ AwaitsFrame(e)
  /\ \E f \in Arriving(e) :
       /\ FreshCredential(e) /\ Acceptable(e, f, TRUE)
       /\ Accept(e, f, TRUE)
       /\ got' = [got EXCEPT ![e] = Append(@, f)]
       /\ status' = StatusAfter(e, f)
  /\ used' = (used \/ (e \in Handlers))
  /\ UNCHANGED <<late, sent>>

(* Any error closes the connection; a failed HELLO uses up no credential. *)
Reject(e) ==
  /\ AwaitsFrame(e)
  /\ \E f \in Arriving(e) : ~(FreshCredential(e) /\ Acceptable(e, f, TRUE))
  /\ status' = [status EXCEPT ![e] = "CLOSED"]
  /\ UNCHANGED <<state, late, used, sent, got>>

FiveSeconds(e) ==
  /\ status[e] = "OPEN" /\ state[e].stage < 4 /\ ~late[e]
  /\ late' = [late EXCEPT ![e] = TRUE]
  /\ UNCHANGED <<state, status, used, sent, got>>

SessionNext ==
  \E e \in Ends :
    Open(e) \/ SendNext(e) \/ SendTooLate(e) \/ Receive(e) \/ Reject(e) \/ FiveSeconds(e)

SessionSpec == SessionInit /\ [][SessionNext]_sessionVars

-----------------------------------------------------------------------------
Conversing(c, h) == state[c].client = state[h].client /\ state[c].server = state[h].server

(* An end that may carry observations has one peer: the only end of the    *)
(* other side with its nonces, and that end has come as far in the         *)
(* handshake as the frames say, or just one frame less.                    *)
ReadyHasPeer ==
  /\ \A h \in Handlers : state[h].stage >= 3 =>
       \E c \in Clients : Conversing(c, h) /\ state[c].stage >= 3
  /\ \A c \in Clients : state[c].stage >= 4 =>
       \E h \in Handlers : Conversing(c, h) /\ state[h].stage >= 4

(* The ends of a conversation take each other's frames in order, each      *)
(* once, and nothing else, whatever is delayed, repeated or sent by        *)
(* another holder of the credential.                                       *)
InOrderOnce ==
  \A c \in Clients, h \in Handlers :
    state[c].server # NoNonce /\ Conversing(c, h) =>
      IsPrefix(got[c], sent[h]) /\ IsPrefix(got[h], sent[c])

(* One credential makes one conversation: of all clients that hold it at   *)
(* most one is ever ready, and of all handlers at most one answers.        *)
SingleUse ==
  /\ \A c, d \in Clients : state[c].stage >= 4 /\ state[d].stage >= 4 => c = d
  /\ \A h, i \in Handlers : state[h].stage >= 1 /\ state[i].stage >= 1 => h = i

(* Handshakes that interleave with one credential come to one conversation  *)
(* between two ends that know each other.                                   *)
OneConversation == SingleUse /\ ReadyHasPeer
=============================================================================
