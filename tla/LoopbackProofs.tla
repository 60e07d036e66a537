---------------------------- MODULE LoopbackProofs ----------------------------
(***************************************************************************)
(* The loopback connection: the handshake and frames of Session, and the   *)
(* delivery of batches over connections of Delivery.                       *)
(***************************************************************************)
EXTENDS Session, Delivery, SequenceTheorems, TLAPS

-----------------------------------------------------------------------------
(***************************************************************************)
(* InOrderOnce and OneConversation of Session, for any number of clients   *)
(* and handlers that hold the credential and any number of frames.         *)
(*                                                                         *)
(* The counters make the frame with counter i the i-th its sender sent, so *)
(* what an end has accepted is a prefix of what one end has sent as soon   *)
(* as all of it comes from one end.  The nonces see to that for the four   *)
(* frames of the handshake.  The later frames carry none; there it is the  *)
(* single use of the credential: only one handler ever took a HELLO, so it *)
(* answered one client, and no other end ever gets to send such a frame.   *)
(***************************************************************************)

SignedTypes == {"HELLO", "WELCOME", "READY", "READY_ACK",
               "BATCH", "PING", "STOP", "ACK", "PARTIAL", "NACK", "PONG"}

Frames == [from : Ends, direction : {"CLIENT_TO_BACKEND", "BACKEND_TO_CLIENT"},
           counter : Nat, type : SignedTypes,
           client : Ends \cup {NoNonce}, server : Ends \cup {NoNonce}]

SessionStates == [stage : 0..5, in : Nat, out : Nat,
                  client : Ends \cup {NoNonce}, server : Ends \cup {NoNonce}]

SessionTyped ==
  /\ state \in [Ends -> SessionStates]
  /\ used \in BOOLEAN
  /\ sent \in [Ends -> Seq(Frames)] /\ got \in [Ends -> Seq(Frames)]

(* A frame is the one of its sender that its counter says.                 *)
CountersCount ==
  \A e \in Ends :
    /\ state[e].out = Len(sent[e]) /\ state[e].in = Len(got[e])
    /\ \A i \in DOMAIN sent[e] :
         sent[e][i].from = e /\ sent[e][i].direction = Outgoing(e) /\ sent[e][i].counter = i

(* The nonces an end knows, as far as it has come in the handshake.        *)
ClientNonces(c) ==
  /\ state[c].client = IF state[c].stage = 0 THEN NoNonce ELSE c
  /\ state[c].stage < 2 => state[c].server = NoNonce /\ got[c] = <<>>
  /\ state[c].stage >= 2 =>
       LET h == state[c].server
       IN  h \in Handlers /\ state[h].stage >= 2 /\ state[h].client = c
  /\ state[c].stage >= 4 => state[state[c].server].stage >= 4

HandlerNonces(h) ==
  /\ state[h].server = IF state[h].stage < 2 THEN NoNonce ELSE h
  /\ state[h].stage = 0 => state[h].client = NoNonce /\ got[h] = <<>>
  /\ state[h].stage >= 1 =>
       used /\ LET c == state[h].client IN c \in Clients /\ state[c].stage >= 1
  /\ state[h].stage >= 3 =>
       LET c == state[h].client IN state[c].stage >= 3 /\ state[c].server = h

(* What a frame an end has sent says of that end.                          *)
Truthful(e, f) ==
  CASE f.type = "HELLO" -> e \in Clients /\ state[e].stage >= 1 /\ f.client = e
    [] f.type = "WELCOME" ->
         e \in Handlers /\ state[e].stage >= 2 /\ f.client = state[e].client /\ f.server = e
    [] f.type = "READY" ->
         e \in Clients /\ state[e].stage >= 3 /\ f.client = e /\ f.server = state[e].server
    [] f.type = "READY_ACK" ->
         e \in Handlers /\ state[e].stage >= 4 /\ f.client = state[e].client /\ f.server = e
    [] OTHER -> state[e].stage >= 4

AllTruthful == \A e \in Ends : \A i \in DOMAIN sent[e] : Truthful(e, sent[e][i])

(* Everything an end has accepted comes from the one end it knows.         *)
GotFrom(e, o) == \A i \in DOMAIN got[e] : i \in DOMAIN sent[o] /\ got[e][i] = sent[o][i]

OneSource ==
  /\ \A c \in Clients : GotFrom(c, state[c].server)
  /\ \A h \in Handlers : GotFrom(h, state[h].client)

OneHandler == \A h, i \in Handlers : state[h].stage >= 1 /\ state[i].stage >= 1 => h = i

SessionInv ==
  /\ SessionTyped /\ CountersCount
  /\ \A c \in Clients : ClientNonces(c)
  /\ \A h \in Handlers : HandlerNonces(h)
  /\ AllTruthful /\ OneSource /\ OneHandler

-----------------------------------------------------------------------------
(* A sequence that agrees with another one wherever it is defined is a      *)
(* prefix of it.                                                            *)
LEMMA PrefixByElements ==
  ASSUME NEW S, NEW s \in Seq(S), NEW t \in Seq(S),
         \A i \in DOMAIN s : i \in DOMAIN t /\ s[i] = t[i]
  PROVE  IsPrefix(s, t)
<1>1. Len(s) \in Nat /\ DOMAIN s = 1..Len(s) /\ Len(t) \in Nat /\ DOMAIN t = 1..Len(t)
  OBVIOUS
<1>2. Len(s) <= Len(t)
  <2>1. CASE Len(s) = 0
    BY <1>1, <2>1
  <2>2. CASE Len(s) # 0
    <3>1. Len(s) \in DOMAIN s
      BY <1>1, <2>2
    <3> QED
      BY <1>1, <3>1
  <2> QED
    BY <2>1, <2>2
<1>3. SubSeq(s, 1, Len(s)) = SubSeq(t, 1, Len(s))
  BY <1>1, <1>2
<1> QED
  BY <1>2, <1>3 DEF IsPrefix

LEMMA HandshakeTypes == Handshake = {"HELLO", "WELCOME", "READY", "READY_ACK"}
<1>1. DOMAIN Types = {1, 2, 3, 4}
  BY DEF Types
<1>2. Handshake = {Types[1], Types[2], Types[3], Types[4]}
  BY <1>1, Zenon DEF Handshake, Range
<1> QED
  BY <1>2 DEF Types

(* The frames SessionState.accept admits, stage by stage.                  *)
LEMMA AcceptCases ==
  ASSUME NEW e \in Ends, state[e].stage \in 0..5, NEW f, NEW incoming \in BOOLEAN,
         Acceptable(e, f, incoming)
  PROVE  \/ /\ state[e].stage = 0 /\ f.type = "HELLO"
            /\ incoming <=> e \in Handlers
         \/ /\ state[e].stage = 1 /\ f.type = "WELCOME"
            /\ incoming <=> e \in Clients
            /\ f.client = state[e].client
         \/ /\ state[e].stage = 2 /\ f.type = "READY"
            /\ incoming <=> e \in Handlers
            /\ f.client = state[e].client /\ f.server = state[e].server
         \/ /\ state[e].stage = 3 /\ f.type = "READY_ACK"
            /\ incoming <=> e \in Clients
            /\ f.client = state[e].client /\ f.server = state[e].server
         \/ state[e].stage = 4 /\ f.type \notin {"HELLO", "WELCOME", "READY", "READY_ACK"}
<1>1. e \in Clients <=> e \notin Handlers
  BY EndsAssumption DEF Ends
<1>2. CASE state[e].stage = 0
  <2>1. f.type = "HELLO" /\ Turn(e, incoming)
    BY <1>2 DEF Acceptable, Types
  <2>2. ((state[e].stage % 2 = 1) = (e \in Clients)) = (e \in Handlers)
    <3>1. ~(state[e].stage % 2 = 1)
      BY <1>2
    <3>2. CASE e \in Clients
      BY <1>1, <3>1, <3>2, SMT
    <3>3. CASE e \notin Clients
      BY <1>1, <3>1, <3>3, SMT
    <3> QED
      BY <3>2, <3>3
  <2>3. incoming <=> e \in Handlers
    BY <2>1, <2>2, Zenon DEF Turn
  <2> QED
    BY <1>2, <2>1, <2>3
<1>3. CASE state[e].stage = 1
  <2>1. f.type = "WELCOME" /\ Turn(e, incoming) /\ f.client = state[e].client
    BY <1>3 DEF Acceptable, Types, Nonces
  <2>2. 1 % 2 = 1
    OBVIOUS
  <2>3. incoming <=> e \in Clients
    BY <1>1, <1>3, <2>1, <2>2 DEF Turn
  <2> QED
    BY <1>3, <2>1, <2>3
<1>4. CASE state[e].stage = 2
  <2>1. /\ f.type = "READY" /\ Turn(e, incoming)
        /\ f.client = state[e].client /\ f.server = state[e].server
    BY <1>4 DEF Acceptable, Types, Nonces
  <2>2. ((state[e].stage % 2 = 1) = (e \in Clients)) = (e \in Handlers)
    <3>1. ~(state[e].stage % 2 = 1)
      BY <1>4
    <3>2. CASE e \in Clients
      BY <1>1, <3>1, <3>2, SMT
    <3>3. CASE e \notin Clients
      BY <1>1, <3>1, <3>3, SMT
    <3> QED
      BY <3>2, <3>3
  <2>3. incoming <=> e \in Handlers
    BY <2>1, <2>2, Zenon DEF Turn
  <2> QED
    BY <1>4, <2>1, <2>3
<1>5. CASE state[e].stage = 3
  <2>1. /\ f.type = "READY_ACK" /\ Turn(e, incoming)
        /\ f.client = state[e].client /\ f.server = state[e].server
    BY <1>5 DEF Acceptable, Types, Nonces
  <2>2. 3 % 2 = 1
    OBVIOUS
  <2>3. incoming <=> e \in Clients
    BY <1>1, <1>5, <2>1, <2>2 DEF Turn
  <2> QED
    BY <1>5, <2>1, <2>3
<1>6. CASE state[e].stage \in {4, 5}
  BY <1>6, HandshakeTypes DEF Acceptable
<1> QED
  BY <1>2, <1>3, <1>4, <1>5, <1>6

(* An end never goes back, and never changes a nonce it has learnt.        *)
Grows ==
  \A e \in Ends :
    /\ state'[e].stage >= state[e].stage
    /\ state[e].stage >= 1 => state'[e].client = state[e].client
    /\ state[e].stage >= 2 => state'[e].server = state[e].server

AcceptedState(e, f, incoming) ==
  [stage  |-> NextStage(e, f),
   in     |-> IF incoming THEN f.counter ELSE state[e].in,
   out    |-> IF incoming THEN state[e].out ELSE f.counter,
   client |-> IF f.type = "HELLO" THEN f.client ELSE state[e].client,
   server |-> IF f.type = "WELCOME" THEN f.server ELSE state[e].server]

LEMMA AcceptGrows ==
  ASSUME SessionTyped, NEW e \in Ends, NEW f \in Frames, NEW incoming \in BOOLEAN,
         Acceptable(e, f, incoming), Accept(e, f, incoming)
  PROVE  /\ state' \in [Ends -> SessionStates] /\ Grows
         /\ state'[e] = AcceptedState(e, f, incoming)
         /\ \A o \in Ends : o # e => state'[o] = state[o]
<1>1. state[e] \in SessionStates
  BY DEF SessionTyped
<1>2. AcceptedState(e, f, incoming) \in SessionStates
  <2>1. NextStage(e, f) \in 0..5
    BY <1>1 DEF NextStage, SessionStates
  <2> QED
    BY <1>1, <2>1 DEF AcceptedState, SessionStates, Frames
<1>3. state' = [state EXCEPT ![e] = AcceptedState(e, f, incoming)]
  BY DEF Accept, AcceptedState
<1>4. /\ state'[e] = AcceptedState(e, f, incoming)
      /\ \A o \in Ends : o # e => state'[o] = state[o]
  BY <1>3 DEF SessionTyped
<1>5. Grows
  <2>1. state[e].stage \in 0..5
    BY <1>1 DEF SessionStates
  <2>2. /\ state'[e].stage >= state[e].stage
        /\ state[e].stage >= 1 => state'[e].client = state[e].client
        /\ state[e].stage >= 2 => state'[e].server = state[e].server
    BY <1>4, <2>1, AcceptCases DEF AcceptedState, NextStage
  <2>3. \A o \in Ends : state[o].stage \in 0..5
    BY DEF SessionTyped, SessionStates
  <2> QED
    BY <1>4, <2>2, <2>3 DEF Grows
<1> QED
  BY <1>2, <1>3, <1>4, <1>5 DEF SessionTyped

(* What was said of an end stays true as it goes on.                       *)
LEMMA TruthStays ==
  ASSUME SessionTyped, state' \in [Ends -> SessionStates], Grows,
         NEW e \in Ends, NEW f, Truthful(e, f)
  PROVE  Truthful(e, f)'
<1>1. state[e].stage \in 0..5 /\ state'[e].stage \in 0..5
  BY DEF SessionTyped, SessionStates
<1> QED
  BY <1>1 DEF Grows, Truthful

(* So do the nonces of an end that is not the one that moves.              *)
LEMMA NoncesStay ==
  ASSUME SessionTyped, state' \in [Ends -> SessionStates], Grows, used => used',
         NEW e \in Ends, state'[e] = state[e], got'[e] = got[e]
  PROVE  /\ e \in Clients /\ ClientNonces(e) => ClientNonces(e)'
         /\ e \in Handlers /\ HandlerNonces(e) => HandlerNonces(e)'
<1>1. \A o \in Ends : state[o].stage \in 0..5 /\ state'[o].stage \in 0..5
  BY DEF SessionTyped, SessionStates
<1>2. e \in Clients /\ ClientNonces(e) => ClientNonces(e)'
  BY <1>1 DEF ClientNonces, Grows, Ends
<1>3. e \in Handlers /\ HandlerNonces(e) => HandlerNonces(e)'
  BY <1>1 DEF HandlerNonces, Grows, Ends
<1> QED
  BY <1>2, <1>3

-----------------------------------------------------------------------------
LEMMA FrameTyped ==
  ASSUME SessionTyped, NEW e \in Ends, NEW type \in SignedTypes
  PROVE  NextFrame(e, type) \in Frames
<1>1. state[e] \in SessionStates
  BY DEF SessionTyped
<1>2. Outgoing(e) \in {"CLIENT_TO_BACKEND", "BACKEND_TO_CLIENT"}
  BY DEF Outgoing
<1> QED
  BY <1>1, <1>2 DEF NextFrame, Frames, SessionStates

LEMMA SaidTyped ==
  ASSUME NEW e \in Ends, NEW type \in Says(e), state[e].stage \in 0..5
  PROVE  type \in SignedTypes
<1>1. CASE state[e].stage < 4
  <2>1. Types[state[e].stage + 1] \in SignedTypes
    BY <1>1 DEF Types, SignedTypes
  <2> QED
    BY <1>1, <2>1 DEF Says
<1>2. CASE ~(state[e].stage < 4)
  BY <1>2 DEF Says, Answers, SignedTypes
<1> QED
  BY <1>1, <1>2

LEMMA SendKeeps ==
  ASSUME SessionInv, NEW e \in Ends, SendNext(e)
  PROVE  SessionInv'
<1> USE DEF SessionInv
<1>0. /\ state[e] \in SessionStates /\ sent[e] \in Seq(Frames)
      /\ \A o \in Ends : state[o].stage \in 0..5
      /\ e \in Clients <=> e \notin Handlers
  BY EndsAssumption DEF SessionTyped, SessionStates, Ends
<1>1. PICK type \in Says(e) : LET f == NextFrame(e, type)
                              IN  /\ Acceptable(e, f, FALSE) /\ Accept(e, f, FALSE)
                                  /\ sent' = [sent EXCEPT ![e] = Append(@, f)]
  BY DEF SendNext
<1> DEFINE f == NextFrame(e, type)
<1>2. /\ f \in Frames /\ f.from = e /\ f.direction = Outgoing(e)
      /\ f.counter = Len(sent[e]) + 1
      /\ type = "HELLO" => f.client = e
      /\ type = "WELCOME" => f.server = e
      /\ f.type = type
  BY <1>0, SaidTyped, FrameTyped DEF NextFrame, CountersCount
<1>3. /\ Acceptable(e, f, FALSE) /\ Accept(e, f, FALSE)
      /\ sent' = [sent EXCEPT ![e] = Append(@, f)]
      /\ used' = used /\ got' = got
  BY <1>1 DEF SendNext
<1> HIDE DEF f
<1>4. /\ state' \in [Ends -> SessionStates] /\ Grows
      /\ state'[e] = AcceptedState(e, f, FALSE)
      /\ \A o \in Ends : o # e => state'[o] = state[o]
  BY <1>2, <1>3, AcceptGrows
<1>5. /\ sent' \in [Ends -> Seq(Frames)]
      /\ sent'[e] = Append(sent[e], f)
      /\ \A o \in Ends : o # e => sent'[o] = sent[o]
  BY <1>0, <1>2, <1>3 DEF SessionTyped
<1>6. SessionTyped'
  BY <1>3, <1>4, <1>5 DEF SessionTyped
<1>7. /\ DOMAIN sent'[e] = 1..(Len(sent[e]) + 1) /\ Len(sent'[e]) = Len(sent[e]) + 1
      /\ sent'[e][Len(sent[e]) + 1] = f
      /\ \A i \in DOMAIN sent[e] : i \in DOMAIN sent'[e] /\ sent'[e][i] = sent[e][i]
      /\ \A i \in DOMAIN sent'[e] : i = Len(sent[e]) + 1 \/ i \in DOMAIN sent[e]
  BY <1>0, <1>2, <1>5
<1>8. CountersCount'
  <2>1. state'[e].out = Len(sent'[e]) /\ state'[e].in = Len(got'[e])
    BY <1>2, <1>3, <1>4, <1>7 DEF AcceptedState, CountersCount
  <2>2. ASSUME NEW i \in DOMAIN sent'[e]
        PROVE  /\ sent'[e][i].from = e /\ sent'[e][i].direction = Outgoing(e)
               /\ sent'[e][i].counter = i
    BY <1>2, <1>7, <2>2 DEF CountersCount
  <2>3. ASSUME NEW o \in Ends
        PROVE  /\ state'[o].out = Len(sent'[o]) /\ state'[o].in = Len(got'[o])
               /\ \A i \in DOMAIN sent'[o] :
                    /\ sent'[o][i].from = o /\ sent'[o][i].direction = Outgoing(o)
                    /\ sent'[o][i].counter = i
    <3>1. CASE o = e
      BY <2>1, <2>2, <3>1
    <3>2. CASE o # e
      <4>1. /\ state'[o] = state[o] /\ sent'[o] = sent[o] /\ got'[o] = got[o]
        BY <1>3, <1>4, <1>5, <2>3, <3>2
      <4> QED
        BY <2>3, <4>1 DEF CountersCount
    <3> QED
      BY <3>1, <3>2
  <2> QED
    BY <2>3 DEF CountersCount, Outgoing
<1>9. \/ state[e].stage = 0 /\ f.type = "HELLO" /\ e \in Clients
      \/ /\ state[e].stage = 1 /\ f.type = "WELCOME" /\ e \in Handlers
         /\ f.client = state[e].client
      \/ /\ state[e].stage = 2 /\ f.type = "READY" /\ e \in Clients
         /\ f.client = state[e].client /\ f.server = state[e].server
      \/ /\ state[e].stage = 3 /\ f.type = "READY_ACK" /\ e \in Handlers
         /\ f.client = state[e].client /\ f.server = state[e].server
      \/ state[e].stage = 4 /\ f.type \notin {"HELLO", "WELCOME", "READY", "READY_ACK"}
  BY <1>0, <1>3, AcceptCases
<1>10. ASSUME NEW k, k = f
       PROVE  Truthful(e, k)'
  BY <1>0, <1>2, <1>4, <1>9, <1>10 DEF Truthful, AcceptedState, NextStage, ClientNonces, HandlerNonces
<1>11. AllTruthful'
  <2>1. ASSUME NEW o \in Ends, NEW i \in DOMAIN sent'[o], NEW k, k = sent'[o][i]
        PROVE  Truthful(o, k)'
    <3>1. CASE i \in DOMAIN sent[o]
      <4>1. k = sent[o][i] /\ Truthful(o, sent[o][i])
        BY <1>5, <1>7, <2>1, <3>1 DEF AllTruthful
      <4>2. Truthful(o, k)
        BY <4>1
      <4> QED
        BY <1>4, <4>2, TruthStays
    <3>2. CASE i \notin DOMAIN sent[o]
      <4>1. o = e /\ k = f
        BY <1>5, <1>7, <2>1, <3>2
      <4> QED
        BY <1>10, <4>1
    <3> QED
      BY <3>1, <3>2
  <2> QED
    BY <2>1 DEF AllTruthful, Truthful
<1>12. \A c \in Clients : ClientNonces(c)'
  <2>1. ASSUME NEW c \in Clients, c # e
        PROVE  ClientNonces(c)'
    BY <1>3, <1>4, <2>1, NoncesStay DEF Ends
  <2>2. CASE e \in Clients
    <3>1. ClientNonces(e)
      BY <2>2
    <3>2. /\ state'[e].client = IF state'[e].stage = 0 THEN NoNonce ELSE e
          /\ state'[e].stage < 2 => state'[e].server = NoNonce /\ got'[e] = <<>>
      BY <1>0, <1>2, <1>3, <1>4, <1>9, <2>2, <3>1 DEF ClientNonces, AcceptedState, NextStage
    <3>3. state'[e].stage >= 2 => state[e].stage >= 2 /\ state'[e].server = state[e].server
      BY <1>0, <1>4, <1>9, <2>2 DEF AcceptedState, NextStage
    <3>4. state'[e].stage >= 4 => state[e].stage >= 4
      BY <1>0, <1>4, <1>9, <2>2 DEF AcceptedState, NextStage
    <3>5. \A o \in Ends : state'[o].stage \in 0..5
      BY <1>4 DEF SessionStates
    <3>6. ASSUME state'[e].stage >= 2
          PROVE  /\ state'[e].server \in Handlers
                 /\ state'[state'[e].server].stage >= 2 /\ state'[state'[e].server].client = e
                 /\ state'[e].stage >= 4 => state'[state'[e].server].stage >= 4
      <4>1. PICK h \in Handlers : h = state[e].server
        BY <3>1, <3>3, <3>6 DEF ClientNonces
      <4>2. /\ state[h].stage >= 2 /\ state[h].client = e
            /\ state[e].stage >= 4 => state[h].stage >= 4
        BY <3>1, <3>3, <3>6, <4>1 DEF ClientNonces
      <4>3. h \in Ends /\ state[h].stage \in 0..5 /\ state'[h].stage \in 0..5
        BY <1>0, <3>5 DEF Ends
      <4>4. state'[h].stage >= state[h].stage /\ state'[h].client = e
        BY <1>4, <4>2, <4>3 DEF Grows
      <4>5. state'[e].server = h
        BY <3>3, <3>6, <4>1
      <4> QED
        BY <3>4, <4>2, <4>3, <4>4, <4>5
    <3>8. ClientNonces(e)'
      BY <3>2, <3>5, <3>6 DEF ClientNonces
    <3> QED
      BY <2>1, <3>8
  <2> QED
    BY <2>1, <2>2
<1>13. \A h \in Handlers : HandlerNonces(h)'
  <2>1. ASSUME NEW h \in Handlers, h # e
        PROVE  HandlerNonces(h)'
    BY <1>3, <1>4, <2>1, NoncesStay DEF Ends
  <2>2. CASE e \in Handlers
    <3>1. HandlerNonces(e)
      BY <2>2
    <3> QED
      BY <1>0, <1>2, <1>3, <1>4, <1>9, <2>1, <2>2, <3>1
         DEF HandlerNonces, AcceptedState, NextStage, Grows, Ends
  <2> QED
    BY <2>1, <2>2
<1>14. OneSource'
  <2>1. \A o \in Ends : \A i \in DOMAIN sent[o] : i \in DOMAIN sent'[o] /\ sent'[o][i] = sent[o][i]
    BY <1>5, <1>7
  <2>2. \A x \in Ends, o \in Ends : GotFrom(x, o) => GotFrom(x, o)'
    BY <1>3, <2>1 DEF GotFrom
  <2>3. ASSUME NEW c \in Clients
        PROVE  GotFrom(c, state[c].server)'
    <3>1. state'[c].server = state[c].server
      BY <1>0, <1>4, <1>9 DEF AcceptedState, Ends
    <3> QED
      BY <1>3, <2>2, <3>1 DEF OneSource, ClientNonces, GotFrom, Ends
  <2>4. ASSUME NEW h \in Handlers
        PROVE  GotFrom(h, state[h].client)'
    <3>1. state'[h].client = state[h].client
      BY <1>0, <1>4, <1>9 DEF AcceptedState, Ends
    <3> QED
      BY <1>3, <2>2, <3>1 DEF OneSource, HandlerNonces, GotFrom, Ends
  <2> QED
    BY <2>3, <2>4 DEF OneSource
<1>15. OneHandler'
  <2>1. \A h \in Handlers : state'[h].stage >= 1 => state[h].stage >= 1
    BY <1>0, <1>4, <1>9 DEF Ends
  <2> QED
    BY <2>1 DEF OneHandler
<1> QED
  BY <1>6, <1>8, <1>11, <1>12, <1>13, <1>14, <1>15

(* Whose frame may arrive at an end as the next one.                       *)
LEMMA Sender ==
  ASSUME SessionInv, NEW e \in Ends, NEW f \in Arriving(e), Acceptable(e, f, TRUE)
  PROVE  \E o \in Ends :
           /\ o \in Clients <=> e \in Handlers
           /\ f.counter = Len(got[e]) + 1 /\ f.counter \in DOMAIN sent[o]
           /\ f = sent[o][f.counter] /\ f \in Frames
           /\ Truthful(o, f)
<1> USE DEF SessionInv
<1>1. PICK o \in Ends : f \in Range(sent[o])
  BY DEF Arriving
<1>2. PICK i \in DOMAIN sent[o] : f = sent[o][i]
  BY <1>1 DEF Range
<1>3. f.direction = Outgoing(o) /\ f.counter = i
  BY <1>2 DEF CountersCount
<1>4. f.direction = Incoming(e) /\ f.counter = Len(got[e]) + 1
  BY DEF Acceptable, Numbered, CountersCount
<1>5. o \in Clients <=> e \in Handlers
  BY <1>3, <1>4, EndsAssumption DEF Incoming, Outgoing, Ends
<1>6. f \in Frames
  BY <1>2 DEF SessionTyped
<1> QED
  BY <1>2, <1>3, <1>4, <1>5, <1>6 DEF AllTruthful

LEMMA ReceiveKeeps ==
  ASSUME SessionInv, NEW e \in Ends, Receive(e)
  PROVE  SessionInv'
<1> USE DEF SessionInv
<1>0. /\ state[e] \in SessionStates /\ got[e] \in Seq(Frames)
      /\ \A o \in Ends : state[o].stage \in 0..5
      /\ e \in Clients <=> e \notin Handlers
  BY EndsAssumption DEF SessionTyped, SessionStates, Ends
<1>1. PICK f \in Arriving(e) :
        /\ FreshCredential(e) /\ Acceptable(e, f, TRUE) /\ Accept(e, f, TRUE)
        /\ got' = [got EXCEPT ![e] = Append(@, f)]
  BY DEF Receive
<1>2. sent' = sent /\ used' = (used \/ (e \in Handlers))
  BY DEF Receive
<1>3. PICK o \in Ends :
        /\ o \in Clients <=> e \in Handlers
        /\ f.counter = Len(got[e]) + 1 /\ f.counter \in DOMAIN sent[o]
        /\ f = sent[o][f.counter] /\ f \in Frames
        /\ Truthful(o, f)
  BY <1>1, Sender
<1>4. /\ state' \in [Ends -> SessionStates] /\ Grows
      /\ state'[e] = AcceptedState(e, f, TRUE)
      /\ \A x \in Ends : x # e => state'[x] = state[x]
  BY <1>1, <1>3, AcceptGrows
<1>5. /\ got' \in [Ends -> Seq(Frames)]
      /\ got'[e] = Append(got[e], f)
      /\ \A x \in Ends : x # e => got'[x] = got[x]
  BY <1>0, <1>1, <1>3 DEF SessionTyped
<1>6. SessionTyped'
  BY <1>2, <1>4, <1>5 DEF SessionTyped
<1>7. /\ Len(got'[e]) = f.counter
      /\ got'[e][f.counter] = f
      /\ \A i \in DOMAIN got'[e] : i = f.counter \/ (i \in DOMAIN got[e] /\ got'[e][i] = got[e][i])
  BY <1>0, <1>3, <1>5
<1>8. CountersCount'
  <2>1. ASSUME NEW x \in Ends
        PROVE  /\ state'[x].out = Len(sent'[x]) /\ state'[x].in = Len(got'[x])
               /\ \A i \in DOMAIN sent'[x] :
                    /\ sent'[x][i].from = x /\ sent'[x][i].direction = Outgoing(x)
                    /\ sent'[x][i].counter = i
    BY <1>2, <1>4, <1>5, <1>7 DEF CountersCount, AcceptedState
  <2> QED
    BY <2>1 DEF CountersCount, Outgoing
<1>9. \/ state[e].stage = 0 /\ f.type = "HELLO" /\ e \in Handlers
      \/ /\ state[e].stage = 1 /\ f.type = "WELCOME" /\ e \in Clients
         /\ f.client = state[e].client
      \/ /\ state[e].stage = 2 /\ f.type = "READY" /\ e \in Handlers
         /\ f.client = state[e].client /\ f.server = state[e].server
      \/ /\ state[e].stage = 3 /\ f.type = "READY_ACK" /\ e \in Clients
         /\ f.client = state[e].client /\ f.server = state[e].server
      \/ state[e].stage = 4 /\ f.type \notin {"HELLO", "WELCOME", "READY", "READY_ACK"}
  BY <1>0, <1>1, AcceptCases
<1>10. AllTruthful'
  <2>1. ASSUME NEW x \in Ends, NEW i \in DOMAIN sent[x], NEW k, k = sent[x][i]
        PROVE  Truthful(x, k)'
    <3>1. Truthful(x, k)
      BY <2>1 DEF AllTruthful
    <3> QED
      BY <1>4, <3>1, TruthStays
  <2> QED
    BY <1>2, <2>1 DEF AllTruthful, Truthful
(* The sender is the one end that e knows, or gets to know by this frame.  *)
<1>11. /\ e \in Clients => o \in Handlers /\ state'[e].server = o
       /\ e \in Handlers => o \in Clients /\ state'[e].client = o
       /\ got[e] # <<>> => /\ e \in Clients => state[e].server = o
                           /\ e \in Handlers => state[e].client = o
  <2>0. o \in Clients <=> o \notin Handlers
    BY EndsAssumption DEF Ends
  <2>1. CASE state[e].stage = 0 /\ f.type = "HELLO" /\ e \in Handlers
    BY <1>0, <1>3, <1>4, <2>0, <2>1 DEF Truthful, AcceptedState, HandlerNonces
  <2>2. CASE state[e].stage = 1 /\ f.type = "WELCOME" /\ e \in Clients
    BY <1>0, <1>3, <1>4, <2>0, <2>2 DEF Truthful, AcceptedState, ClientNonces
  <2>3. CASE /\ state[e].stage = 2 /\ f.type = "READY" /\ e \in Handlers
             /\ f.client = state[e].client
    BY <1>0, <1>3, <1>4, <2>0, <2>3 DEF Truthful, AcceptedState
  <2>4. CASE /\ state[e].stage = 3 /\ f.type = "READY_ACK" /\ e \in Clients
             /\ f.server = state[e].server
    BY <1>0, <1>3, <1>4, <2>0, <2>4 DEF Truthful, AcceptedState
  <2>5. CASE state[e].stage = 4 /\ f.type \notin {"HELLO", "WELCOME", "READY", "READY_ACK"}
    <3>1. state[o].stage >= 4
      BY <1>3, <2>5 DEF Truthful
    <3>2. state'[e].client = state[e].client /\ state'[e].server = state[e].server
      BY <1>4, <2>5 DEF AcceptedState
    <3>3. CASE e \in Clients
      <4>1. o \in Handlers /\ state[e].server \in Handlers /\ state[state[e].server].stage >= 2
        BY <1>0, <1>3, <2>0, <2>5, <3>3 DEF ClientNonces
      <4>2. PICK h \in Handlers : h = state[e].server
        BY <4>1
      <4>3. h = o
        BY <1>0, <3>1, <4>1, <4>2 DEF OneHandler, Ends
      <4> QED
        BY <1>0, <3>2, <3>3, <4>1, <4>2, <4>3
    <3>4. CASE e \in Handlers
      <4>1. /\ o \in Clients /\ state[o].server \in Handlers
            /\ state[state[o].server].stage >= 2 /\ state[state[o].server].client = o
        BY <1>0, <1>3, <2>0, <3>1, <3>4 DEF ClientNonces
      <4>2. PICK h \in Handlers : h = state[o].server
        BY <4>1
      <4>3. h = e
        BY <1>0, <2>5, <3>4, <4>1, <4>2 DEF OneHandler, Ends
      <4> QED
        BY <1>0, <3>2, <3>4, <4>1, <4>2, <4>3
    <3> QED
      BY <3>3, <3>4 DEF Ends
  <2> QED
    BY <1>9, <2>1, <2>2, <2>3, <2>4, <2>5
<1>12. \A c \in Clients : ClientNonces(c)'
  <2>1. ASSUME NEW c \in Clients, c # e
        PROVE  ClientNonces(c)'
    BY <1>2, <1>4, <1>5, <2>1, NoncesStay DEF Ends
  <2>2. CASE e \in Clients
    <3>1. ClientNonces(e) /\ o \in Handlers /\ state'[e].server = o
      BY <1>11, <2>2
    <3>2. state'[e].client = e /\ state'[e].stage >= 2
      BY <1>0, <1>4, <1>9, <2>2, <3>1 DEF ClientNonces, AcceptedState, NextStage
    <3>3. /\ state[o].stage >= 2 /\ state[o].client = e
          /\ state'[e].stage >= 4 => state[o].stage >= 4
      <4>1. CASE f.type = "WELCOME" /\ state[e].stage = 1
        BY <1>0, <1>3, <1>4, <1>9, <2>2, <3>1, <4>1 DEF Truthful, ClientNonces, AcceptedState, NextStage
      <4>2. CASE f.type = "READY_ACK" /\ state[e].stage = 3
        BY <1>0, <1>3, <1>4, <1>9, <2>2, <3>1, <4>2 DEF Truthful, ClientNonces, AcceptedState, NextStage
      <4>3. CASE state[e].stage = 4
        <5>1. state[e].server = o
          BY <1>4, <1>9, <3>1, <4>3 DEF AcceptedState
        <5> QED
          BY <3>1, <4>3, <5>1 DEF ClientNonces
      <4> QED
        BY <1>0, <1>9, <2>2, <4>1, <4>2, <4>3
    <3>4. state'[o] = state[o]
      BY <1>0, <1>4, <2>2, <3>1
    <3>5. state'[e].stage \in 0..5
      BY <1>4 DEF SessionStates
    <3>6. /\ state'[state'[e].server].stage >= 2 /\ state'[state'[e].server].client = e
          /\ state'[e].stage >= 4 => state'[state'[e].server].stage >= 4
      BY <3>1, <3>3, <3>4
    <3>7. ClientNonces(e)'
      BY <3>1, <3>2, <3>5, <3>6 DEF ClientNonces
    <3> QED
      BY <2>1, <3>7
  <2> QED
    BY <2>1, <2>2
<1>13. \A h \in Handlers : HandlerNonces(h)'
  <2>1. ASSUME NEW h \in Handlers, h # e
        PROVE  HandlerNonces(h)'
    BY <1>2, <1>4, <1>5, <2>1, NoncesStay DEF Ends
  <2>2. CASE e \in Handlers
    <3>1. HandlerNonces(e) /\ o \in Clients /\ state'[e].client = o /\ used'
      BY <1>2, <1>11, <2>2
    <3>2. /\ state'[e].stage >= 1
          /\ state'[e].server = IF state'[e].stage < 2 THEN NoNonce ELSE e
      BY <1>0, <1>4, <1>9, <2>2, <3>1 DEF HandlerNonces, AcceptedState, NextStage
    <3>3. /\ state[o].stage >= 1
          /\ state'[e].stage >= 3 => state[o].stage >= 3 /\ state[o].server = e
      <4>1. CASE f.type = "HELLO" /\ state[e].stage = 0
        BY <1>0, <1>3, <1>4, <1>9, <2>2, <3>1, <4>1 DEF Truthful, HandlerNonces, AcceptedState, NextStage
      <4>2. CASE f.type = "READY" /\ state[e].stage = 2
        BY <1>0, <1>3, <1>4, <1>9, <2>2, <3>1, <4>2 DEF Truthful, HandlerNonces, AcceptedState, NextStage
      <4>3. CASE state[e].stage = 4
        <5>1. state[e].client = o
          BY <1>4, <1>9, <3>1, <4>3 DEF AcceptedState
        <5> QED
          BY <3>1, <4>3, <5>1 DEF HandlerNonces
      <4> QED
        BY <1>0, <1>9, <2>2, <4>1, <4>2, <4>3
    <3>4. state'[o] = state[o]
      BY <1>0, <1>4, <2>2, <3>1, EndsAssumption
    <3>5. state'[e].stage \in 0..5
      BY <1>4 DEF SessionStates
    <3>6. /\ state'[state'[e].client].stage >= 1
          /\ state'[e].stage >= 3 => /\ state'[state'[e].client].stage >= 3
                                     /\ state'[state'[e].client].server = e
      BY <3>1, <3>3, <3>4
    <3>7. HandlerNonces(e)'
      BY <3>1, <3>2, <3>5, <3>6 DEF HandlerNonces
    <3> QED
      BY <2>1, <3>7
  <2> QED
    BY <2>1, <2>2
<1>14. OneSource'
  <2>1. GotFrom(e, o)'
    <3>1. ASSUME NEW i \in DOMAIN got'[e]
          PROVE  i \in DOMAIN sent[o] /\ got'[e][i] = sent[o][i]
      <4>1. CASE i = f.counter
        BY <1>3, <1>7, <4>1
      <4>2. CASE i \in DOMAIN got[e] /\ got'[e][i] = got[e][i]
        <5>1. got[e] # <<>>
          BY <1>0, <4>2
        <5>2. GotFrom(e, o)
          BY <1>0, <1>11, <5>1 DEF OneSource, Ends
        <5> QED
          BY <4>2, <5>2 DEF GotFrom
      <4> QED
        BY <1>7, <4>1, <4>2
    <3> QED
      BY <1>2, <3>1 DEF GotFrom
  <2>2. ASSUME NEW c \in Clients
        PROVE  GotFrom(c, state[c].server)'
    <3>1. CASE c = e
      BY <1>11, <2>1, <3>1 DEF GotFrom
    <3>2. CASE c # e
      BY <1>2, <1>4, <1>5, <3>2 DEF OneSource, GotFrom, Ends
    <3> QED
      BY <3>1, <3>2
  <2>3. ASSUME NEW h \in Handlers
        PROVE  GotFrom(h, state[h].client)'
    <3>1. CASE h = e
      BY <1>11, <2>1, <3>1 DEF GotFrom
    <3>2. CASE h # e
      BY <1>2, <1>4, <1>5, <3>2 DEF OneSource, GotFrom, Ends
    <3> QED
      BY <3>1, <3>2
  <2> QED
    BY <2>2, <2>3 DEF OneSource
(* A handler takes its first frame only while no handler has taken one.    *)
<1>15. OneHandler'
  <2>1. ASSUME NEW h \in Handlers, h # e, state'[h].stage >= 1, e \in Handlers, state'[e].stage >= 1
        PROVE  FALSE
    <3>1. state[h].stage >= 1 /\ used
      BY <1>4, <2>1 DEF HandlerNonces, Ends
    <3>2. state[e].stage # 0
      BY <1>1, <2>1, <3>1 DEF FreshCredential
    <3> QED
      BY <1>0, <2>1, <3>1, <3>2 DEF OneHandler
  <2>2. ASSUME NEW h \in Handlers, NEW i \in Handlers, state'[h].stage >= 1, state'[i].stage >= 1
        PROVE  h = i
    <3>1. CASE h # e /\ i # e
      BY <1>4, <2>2, <3>1 DEF OneHandler, Ends
    <3> QED
      BY <2>1, <2>2, <3>1
  <2> QED
    BY <2>2 DEF OneHandler
<1> QED
  BY <1>6, <1>8, <1>10, <1>12, <1>13, <1>14, <1>15

LEMMA SessionInvariant == SessionSpec => []SessionInv
<1>1. SessionInit => SessionInv
  <2> SUFFICES ASSUME SessionInit PROVE SessionInv
    OBVIOUS
  <2>1. state = [e \in Ends |-> NewState] /\ used = FALSE
        /\ sent = [e \in Ends |-> <<>>] /\ got = [e \in Ends |-> <<>>]
    BY DEF SessionInit
  <2>2. SessionTyped
    <3>1. NewState \in SessionStates
      BY DEF NewState, SessionStates
    <3>2. state \in [Ends -> SessionStates]
      BY <2>1, <3>1
    <3>3. sent \in [Ends -> Seq(Frames)] /\ got \in [Ends -> Seq(Frames)]
      BY <2>1
    <3> QED
      BY <2>1, <3>2, <3>3 DEF SessionTyped
  <2>3. \A e \in Ends : state[e] = NewState /\ sent[e] = <<>> /\ got[e] = <<>>
    BY <2>1
  <2>4. \A c \in Clients : ClientNonces(c)
    BY <2>3 DEF ClientNonces, NewState, Ends
  <2>5. \A h \in Handlers : HandlerNonces(h)
    BY <2>3 DEF HandlerNonces, NewState, Ends
  <2>6. CountersCount /\ AllTruthful /\ OneSource
    BY <2>3 DEF CountersCount, AllTruthful, OneSource, GotFrom, NewState, Ends
  <2>7. OneHandler
    BY <2>3 DEF OneHandler, NewState, Ends
  <2> QED
    BY <2>2, <2>4, <2>5, <2>6, <2>7 DEF SessionInv
<1>2. SessionInv /\ [SessionNext]_sessionVars => SessionInv'
  <2> SUFFICES ASSUME SessionInv, [SessionNext]_sessionVars PROVE SessionInv'
    OBVIOUS
  <2>1. CASE UNCHANGED <<state, used, sent, got>>
    BY <2>1 DEF SessionInv, SessionTyped, CountersCount, ClientNonces, HandlerNonces,
                AllTruthful, Truthful, OneSource, GotFrom, OneHandler
  <2>2. ASSUME NEW e \in Ends, SendNext(e)
        PROVE  SessionInv'
    BY <2>2, SendKeeps
  <2>3. ASSUME NEW e \in Ends, Receive(e)
        PROVE  SessionInv'
    BY <2>3, ReceiveKeeps
  <2>4. ASSUME NEW e \in Ends, Open(e) \/ SendTooLate(e) \/ Reject(e) \/ FiveSeconds(e)
        PROVE  UNCHANGED <<state, used, sent, got>>
    BY <2>4 DEF Open, SendTooLate, Reject, FiveSeconds
  <2> QED
    BY <2>1, <2>2, <2>3, <2>4 DEF SessionNext, sessionVars
<1> QED
  BY <1>1, <1>2, PTL DEF SessionSpec

-----------------------------------------------------------------------------
LEMMA PrefixesFollow == SessionInv => InOrderOnce
<1> SUFFICES ASSUME SessionInv, NEW c \in Clients, NEW h \in Handlers,
                    state[c].server # NoNonce, Conversing(c, h)
             PROVE  IsPrefix(got[c], sent[h]) /\ IsPrefix(got[h], sent[c])
  BY DEF InOrderOnce
<1> USE DEF SessionInv
<1>1. c \in Ends /\ h \in Ends /\ state[c].stage \in 0..5 /\ state[h].stage \in 0..5
  BY DEF Ends, SessionTyped, SessionStates
<1>2. state[c].stage >= 2 /\ state[c].client = c
  BY <1>1 DEF ClientNonces
<1>3. state[h].client = c /\ state[c].server = h
  BY <1>1, <1>2 DEF Conversing, HandlerNonces
<1>4. GotFrom(c, h) /\ GotFrom(h, c)
  BY <1>3 DEF OneSource
<1>5. got \in [Ends -> Seq(Frames)] /\ sent \in [Ends -> Seq(Frames)]
  BY DEF SessionTyped
<1> QED
  BY <1>1, <1>4, <1>5, PrefixByElements DEF GotFrom

LEMMA OneConversationFollows == SessionInv => OneConversation
<1> SUFFICES ASSUME SessionInv PROVE OneConversation
  OBVIOUS
<1> USE DEF SessionInv
<1>0. \A e \in Ends : state[e].stage \in 0..5
  BY DEF SessionTyped, SessionStates
<1>1. ASSUME NEW c \in Clients, state[c].stage >= 4
      PROVE  \E h \in Handlers : /\ h = state[c].server /\ state[h].stage >= 4
                                 /\ state[h].client = c /\ Conversing(c, h)
  <2>1. c \in Ends /\ state[c].client = c
    BY <1>0, <1>1 DEF ClientNonces, Ends
  <2>2. PICK h \in Handlers : h = state[c].server /\ state[h].stage >= 4 /\ state[h].client = c
    BY <1>0, <1>1, <2>1 DEF ClientNonces
  <2>3. state[h].server = h
    BY <1>0, <2>2 DEF HandlerNonces, Ends
  <2> QED
    BY <2>1, <2>2, <2>3 DEF Conversing
<1>2. ASSUME NEW c \in Clients, NEW d \in Clients, state[c].stage >= 4, state[d].stage >= 4
      PROVE  c = d
  <2>1. PICK h \in Handlers : state[h].stage >= 4 /\ state[h].client = c
    BY <1>1, <1>2
  <2>2. PICK i \in Handlers : state[i].stage >= 4 /\ state[i].client = d
    BY <1>1, <1>2
  <2>3. h = i
    BY <1>0, <2>1, <2>2 DEF OneHandler, Ends
  <2> QED
    BY <2>1, <2>2, <2>3
<1>3. ASSUME NEW h \in Handlers, state[h].stage >= 3
      PROVE  \E c \in Clients : Conversing(c, h) /\ state[c].stage >= 3
  <2>1. h \in Ends /\ state[h].stage \in 0..5 /\ state[h].server = h
    BY <1>0, <1>3 DEF Ends, HandlerNonces
  <2>2. PICK c \in Clients : c = state[h].client /\ state[c].stage >= 3 /\ state[c].server = h
    BY <1>3, <2>1 DEF HandlerNonces
  <2>3. state[c].client = c
    BY <1>0, <2>2 DEF ClientNonces, Ends
  <2> QED
    BY <2>1, <2>2, <2>3 DEF Conversing
<1> QED
  BY <1>1, <1>2, <1>3 DEF OneConversation, SingleUse, ReadyHasPeer, OneHandler

(* The two ends of a conversation take each other's frames in order, each  *)
(* once and nothing else, whoever else holds the credential and however    *)
(* frames are delayed or repeated (SessionState.accept: counters,          *)
(* directions and nonces).                                                 *)
THEOREM FramesInOrderOnce == SessionSpec => []InOrderOnce
<1> QED
  BY SessionInvariant, PrefixesFollow, PTL

(* One credential comes to one conversation: at most one client is ever    *)
(* ready and at most one handler answers, and each of them has the other   *)
(* as its peer (_used_sessions and the nonces of the handshake).           *)
THEOREM CredentialConversesOnce == SessionSpec => []OneConversation
<1> QED
  BY SessionInvariant, OneConversationFollows, PTL

-----------------------------------------------------------------------------
(***************************************************************************)
(* OnlyHonestStops and DeliveryIsLog of Delivery, for any number of        *)
(* records, connections and faults and any batch size.                     *)
(*                                                                         *)
(* A connection carries at most one thing of the client's at a time: its   *)
(* HELLO or its BATCH on the way to the receiver, the BATCH in the         *)
(* handler's hand, or what has come of the answer.  Phases says which, for *)
(* the connection the client holds.  What an older connection still has    *)
(* can reach the store and nothing else, and all it can do there was       *)
(* offered when it was sent (Offered) and is offered still.                *)
(***************************************************************************)

Batches == [first : Nat, last : Nat, id : {0, 1}]

ServerFrames == [slot : Slots, type : {"HELLO"}]
                \cup [slot : Slots, type : {"BATCH"}, batch : Batches]
ClientFrames == [slot : Slots, type : {"READY_ACK"}]
                \cup [slot : Slots, type : {"ACK"}, id : {0, 1}, seq : Nat]
                \cup [slot : Slots, type : {"NACK"}, id : {0, 1}]

DeliveryTyped ==
  /\ spooled \in Nat /\ acked \in Nat /\ applied \in Nat /\ confirmed \in Nat
  /\ denies \in BOOLEAN /\ ready \in BOOLEAN
  /\ session \in Slots \cup {None} /\ active \in Slots \cup {None}
  /\ batch \in Batches /\ inHand \in [Slots -> Batches]
  /\ inbox \in Seq(ClientFrames) /\ toClient \in [Slots -> Seq(ClientFrames)]
  /\ toServer \in [Slots -> Seq(ServerFrames)]
  /\ clientOpen \in [Slots -> BOOLEAN] /\ serverOpen \in [Slots -> BOOLEAN]
  /\ handler \in [Slots -> {"NONE", "HELLO", "LOCK", "SERVING"}]

LogOrder == acked <= confirmed /\ confirmed <= applied /\ applied <= spooled

(* A batch the store can process without a gap: it begins at the next      *)
(* position or before, and holds what is spooled.                          *)
Offered(b) == 1 <= b.first /\ b.first <= applied + 1 /\ b.first <= b.last /\ b.last <= spooled

AllOffered ==
  \A s \in Slots :
    /\ inHand[s] # NoBatch => Offered(inHand[s])
    /\ \A i \in DOMAIN toServer[s] :
         toServer[s][i].type = "BATCH" => Offered(toServer[s][i].batch)

(* Until the HELLO is answered nothing else is sent on the connection.     *)
HelloFirst ==
  \A s \in Slots :
    IF handler[s] = "HELLO"
      THEN /\ toServer[s] \in {<<>>, <<Frame(s, "HELLO")>>}
           /\ inHand[s] = NoBatch /\ toClient[s] = <<>>
           /\ session = s => ~ready /\ inbox = <<>>
      ELSE /\ \A i \in DOMAIN toServer[s] : toServer[s][i].type = "BATCH"
           /\ handler[s] = "NONE" => inHand[s] = NoBatch

(* What the client has received or may yet receive on its connection.      *)
YetToRead == IF clientOpen[session] THEN inbox \o toClient[session] ELSE inbox

DeniedNow == applied >= DenyAt - 1

(* What may have come of the three kinds of answer.                        *)
ReadyAckOnly(q) ==
  /\ Len(q) <= 1
  /\ Len(q) = 1 => q[1] = Frame(session, "READY_ACK")

NackOnly(q) ==
  /\ Len(q) <= 1
  /\ Len(q) = 1 => q[1] = Nack(session, batch) /\ DeniedNow

Acknowledges(f) ==
  \E n \in batch.first..batch.last :
    f = Ack(session, batch, n) /\ n <= confirmed /\ (n # batch.last => DeniedNow)

AnswerOnly(q) ==
  /\ Len(q) <= 2
  /\ Len(q) >= 1 => Acknowledges(q[1]) \/ NackOnly(q)
  /\ Len(q) = 2 => q[1].seq # batch.last /\ q[2] = Nack(session, batch)

AtRest == toServer[session] = <<>> /\ inHand[session] = NoBatch

Phases ==
  /\ ready \/ pc \in {"HANDSHAKE", "SEND", "AWAIT", "AWAIT_NACK"} => session \in Slots
  /\ pc = "HANDSHAKE" =>
       /\ ~ready /\ inHand[session] = NoBatch
       /\ handler[session] # "HELLO" => toServer[session] = <<>>
       /\ ReadyAckOnly(YetToRead)
  /\ pc \in {"SEND", "AWAIT", "AWAIT_NACK"} => ready
  /\ ready /\ pc \in {"IDLE", "FLUSH", "SEND"} => AtRest /\ YetToRead = <<>>
  /\ pc = "AWAIT" =>
       /\ acked + 1 = batch.first /\ Offered(batch)
       /\ \/ /\ toServer[session] = <<BatchFrame(session, batch)>>
             /\ inHand[session] = NoBatch /\ YetToRead = <<>>
          \/ toServer[session] = <<>> /\ inHand[session] = batch /\ YetToRead = <<>>
          \/ AtRest /\ AnswerOnly(YetToRead)
  /\ pc = "AWAIT_NACK" => AtRest /\ NackOnly(YetToRead)

DeliveryInv ==
  /\ DeliveryTyped /\ LogOrder /\ AllOffered /\ HelloFirst /\ Phases /\ OnlyHonestStops

-----------------------------------------------------------------------------
(* Sequences.                                                              *)

Shortened(q, r) == Len(q) <= Len(r) /\ \A i \in 1..Len(q) : q[i] = r[i]

(* A frame moved from the wire to the inbox is where it was in the order.  *)
LEMMA MovedFrame ==
  ASSUME NEW S, NEW q \in Seq(S), NEW t \in Seq(S), t # <<>>
  PROVE  /\ Append(q, Head(t)) \in Seq(S) /\ Tail(t) \in Seq(S) /\ Head(t) \in S
         /\ Append(q, Head(t)) \o Tail(t) = q \o t
<1>1. /\ Head(t) \in S /\ Tail(t) \in Seq(S) /\ Len(Tail(t)) = Len(t) - 1
      /\ \A i \in 1..Len(Tail(t)) : Tail(t)[i] = t[i + 1]
      /\ Head(t) = t[1] /\ Len(t) > 0
  BY EmptySeq, HeadTailProperties
<1>2. Append(q, Head(t)) \in Seq(S)
  BY <1>1
<1>3. /\ Append(q, Head(t)) \o Tail(t) \in Seq(S) /\ q \o t \in Seq(S)
      /\ Len(Append(q, Head(t)) \o Tail(t)) = Len(q \o t)
  BY <1>1, <1>2
<1>4. ASSUME NEW i \in 1..Len(q \o t)
      PROVE  (Append(q, Head(t)) \o Tail(t))[i] = (q \o t)[i]
  <2>1. CASE i <= Len(q)
    BY <1>1, <1>2, <2>1
  <2>2. CASE i = Len(q) + 1
    BY <1>1, <1>2, <2>2
  <2>3. CASE i > Len(q) + 1
    BY <1>1, <1>2, <2>3
  <2> QED
    BY <2>1, <2>2, <2>3
<1>5. Append(q, Head(t)) \o Tail(t) = q \o t
  BY <1>3, <1>4, SeqEqual
<1> QED
  BY <1>1, <1>2, <1>5

(* Reading a frame: it is the first of what arrives, and the rest arrives. *)
LEMMA ReadFrame ==
  ASSUME NEW S, NEW q \in Seq(S), NEW t \in Seq(S), q # <<>>
  PROVE  /\ Tail(q) \in Seq(S) /\ Head(q) \in S
         /\ q \o t \in Seq(S) /\ Len(q \o t) >= 1 /\ Head(q) = (q \o t)[1]
         /\ Tail(q) \o t \in Seq(S) /\ Len(Tail(q) \o t) = Len(q \o t) - 1
         /\ \A i \in 1..Len(Tail(q) \o t) : (Tail(q) \o t)[i] = (q \o t)[i + 1]
         /\ Len(q) >= 1 /\ Head(q) = q[1] /\ Len(Tail(q)) = Len(q) - 1
         /\ \A i \in 1..Len(Tail(q)) : Tail(q)[i] = q[i + 1]
<1>1. /\ Head(q) \in S /\ Tail(q) \in Seq(S) /\ Len(Tail(q)) = Len(q) - 1
      /\ \A i \in 1..Len(Tail(q)) : Tail(q)[i] = q[i + 1]
      /\ Head(q) = q[1] /\ Len(q) > 0
  BY EmptySeq, HeadTailProperties
<1>2. /\ q \o t \in Seq(S) /\ Len(q \o t) = Len(q) + Len(t)
      /\ Tail(q) \o t \in Seq(S) /\ Len(Tail(q) \o t) = Len(q \o t) - 1
  BY <1>1
<1>3. ASSUME NEW i \in 1..Len(Tail(q) \o t)
      PROVE  (Tail(q) \o t)[i] = (q \o t)[i + 1]
  <2>1. CASE i <= Len(Tail(q))
    BY <1>1, <1>2, <2>1
  <2>2. CASE i > Len(Tail(q))
    BY <1>1, <1>2, <2>2
  <2> QED
    BY <2>1, <2>2
<1> QED
  BY <1>1, <1>2, <1>3

(* What has arrived is a beginning of what will arrive.                    *)
LEMMA ArrivedFirst ==
  ASSUME NEW S, NEW q \in Seq(S), NEW t \in Seq(S)
  PROVE  /\ Shortened(q, q \o t) /\ Shortened(q \o t, q \o t) /\ Shortened(q, q)
         /\ q \o t \in Seq(S) /\ q \o <<>> = q /\ <<>> \o t = t
BY DEF Shortened

-----------------------------------------------------------------------------
(* What every step may rely on.                                            *)

LEMMA FrameTypes ==
  ASSUME NEW s \in Slots, NEW b \in Batches, NEW n \in Nat
  PROVE  /\ Frame(s, "HELLO") \in ServerFrames /\ BatchFrame(s, b) \in ServerFrames
         /\ Frame(s, "READY_ACK") \in ClientFrames
         /\ Ack(s, b, n) \in ClientFrames /\ Nack(s, b) \in ClientFrames
<1>1. Frame(s, "HELLO") \in ServerFrames
  BY DEF Frame, ServerFrames
<1>2. BatchFrame(s, b) \in ServerFrames
  BY DEF BatchFrame, ServerFrames
<1>3. Frame(s, "READY_ACK") \in ClientFrames
  BY DEF Frame, ClientFrames
<1>4. Ack(s, b, n) \in ClientFrames
  BY DEF Ack, ClientFrames, Batches
<1>5. Nack(s, b) \in ClientFrames
  BY DEF Nack, ClientFrames, Batches
<1> QED
  BY <1>1, <1>2, <1>3, <1>4, <1>5

LEMMA NoBatchType == NoBatch \in Batches /\ NoBatch.first = 0
BY DEF NoBatch, Batch, Batches

LEMMA ArrivingType ==
  ASSUME DeliveryTyped, session \in Slots
  PROVE  /\ YetToRead \in Seq(ClientFrames) /\ Len(YetToRead) \in Nat
         /\ Len(YetToRead) = 0 <=> YetToRead = <<>>
         /\ Shortened(inbox, YetToRead)
<1>1. toClient[session] \in Seq(ClientFrames) /\ inbox \in Seq(ClientFrames)
  BY DEF DeliveryTyped
<1>2. YetToRead \in Seq(ClientFrames)
  BY <1>1, ArrivedFirst DEF YetToRead
<1>3. Shortened(inbox, YetToRead)
  BY <1>1, ArrivedFirst DEF YetToRead
<1> QED
  BY <1>2, <1>3, EmptySeq

(* A batch that the store could process, it still can.                     *)
LEMMA OfferStands ==
  ASSUME DeliveryTyped, NEW b \in Batches, Offered(b),
         spooled' \in Nat, applied' \in Nat, spooled <= spooled', applied <= applied'
  PROVE  1 <= b.first /\ b.first <= applied' + 1 /\ b.first <= b.last /\ b.last <= spooled'
BY DEF Offered, DeliveryTyped, Batches

(* The handlers add nothing the store could not process.                   *)
LEMMA OffersStand ==
  ASSUME DeliveryTyped, AllOffered,
         spooled' \in Nat, applied' \in Nat, spooled <= spooled', applied <= applied',
         \A s \in Slots : inHand'[s] = inHand[s] \/ inHand'[s] = NoBatch
                          \/ \E j \in DOMAIN toServer[s] :
                               toServer[s][j].type = "BATCH" /\ inHand'[s] = toServer[s][j].batch,
         \A s \in Slots : \A i \in DOMAIN toServer'[s] : \E j \in DOMAIN toServer[s] :
                            toServer'[s][i] = toServer[s][j]
  PROVE  AllOffered'
<1> SUFFICES ASSUME NEW s \in Slots
             PROVE  /\ inHand'[s] # NoBatch => Offered(inHand[s])'
                    /\ \A i \in DOMAIN toServer'[s] :
                         toServer'[s][i].type = "BATCH" => Offered(toServer[s][i].batch)'
  BY DEF AllOffered
<1>1. ASSUME NEW j \in DOMAIN toServer[s], toServer[s][j].type = "BATCH"
      PROVE  toServer[s][j].batch \in Batches
  <2>1. toServer[s][j] \in ServerFrames
    BY ElementOfSeq, LenProperties DEF DeliveryTyped
  <2> QED
    BY <1>1, <2>1 DEF ServerFrames
<1>2. ASSUME NEW b \in Batches, Offered(b)
      PROVE  1 <= b.first /\ b.first <= applied' + 1 /\ b.first <= b.last /\ b.last <= spooled'
  BY <1>2, OfferStands
<1>3. inHand'[s] # NoBatch => Offered(inHand[s])'
  <2> HAVE inHand'[s] # NoBatch
  <2>1. CASE inHand'[s] = inHand[s]
    <3>1. inHand[s] \in Batches /\ Offered(inHand[s])
      BY <2>1 DEF DeliveryTyped, AllOffered
    <3> QED
      BY <3>1, <2>1, <1>2 DEF Offered
  <2>2. CASE \E j \in DOMAIN toServer[s] :
               toServer[s][j].type = "BATCH" /\ inHand'[s] = toServer[s][j].batch
    <3>1. PICK j \in DOMAIN toServer[s] :
            toServer[s][j].type = "BATCH" /\ inHand'[s] = toServer[s][j].batch
      BY <2>2
    <3>2. toServer[s][j].batch \in Batches /\ Offered(toServer[s][j].batch)
      BY <3>1, <1>1 DEF AllOffered
    <3> QED
      BY <3>1, <3>2, <1>2 DEF Offered
  <2> QED
    BY <2>1, <2>2
<1>4. ASSUME NEW i \in DOMAIN toServer'[s], toServer'[s][i].type = "BATCH"
      PROVE  Offered(toServer[s][i].batch)'
  <2>1. PICK j \in DOMAIN toServer[s] : toServer'[s][i] = toServer[s][j]
    OBVIOUS
  <2>2. toServer[s][j].batch \in Batches /\ Offered(toServer[s][j].batch)
    BY <2>1, <1>1, <1>4 DEF AllOffered
  <2> QED
    BY <2>1, <2>2, <1>2 DEF Offered
<1> QED
  BY <1>3, <1>4

(* A step that takes nothing the client waits for but what is lost, and    *)
(* adds nothing, leaves the client's connection in its phase.              *)
LEMMA PhaseStands ==
  ASSUME DeliveryInv, session \in Slots,
         pc' = pc, session' = session, ready' = ready, batch' = batch, acked' = acked,
         spooled' \in Nat, applied' \in Nat, confirmed' \in Nat,
         spooled <= spooled', applied <= applied', confirmed <= confirmed',
         Shortened(YetToRead', YetToRead), Len(YetToRead') \in Nat,
         Len(YetToRead') = 0 <=> YetToRead' = <<>>,
         toServer'[session] = toServer[session] \/ toServer'[session] = <<>>,
         inHand'[session] = inHand[session] \/ inHand'[session] = NoBatch,
         handler'[session] = handler[session] \/ handler'[session] # "HELLO",
         handler[session] = "HELLO" /\ handler'[session] # "HELLO" => toServer'[session] = <<>>
  PROVE  Phases'
<1> DEFINE q == YetToRead
           r == YetToRead'
<1>1. Len(q) \in Nat /\ (Len(q) = 0 <=> q = <<>>) /\ (q = <<>> => r = <<>>)
  BY ArrivingType DEF DeliveryInv, Shortened
<1>2. Len(r) <= Len(q) /\ (Len(r) >= 1 => r[1] = q[1]) /\ (Len(r) >= 2 => r[2] = q[2])
      /\ Len(r) \in Nat
  BY <1>1 DEF Shortened
<1>3. DeniedNow => DeniedNow'
  BY DeliveryAssumption DEF DeniedNow, DeliveryInv, DeliveryTyped
<1>4. AtRest => AtRest'
  BY DEF AtRest
<1>5. ReadyAckOnly(q) => ReadyAckOnly(YetToRead)'
  BY <1>1, <1>2 DEF ReadyAckOnly
<1>6. NackOnly(q) => NackOnly(YetToRead)'
  BY <1>1, <1>2, <1>3 DEF NackOnly
<1>8. AnswerOnly(q) => AnswerOnly(YetToRead)'
  <2> HAVE AnswerOnly(q)
  <2>1. Len(r) <= 2
    BY <1>1, <1>2 DEF AnswerOnly
  <2>2. ASSUME Len(r) >= 1 PROVE (Acknowledges(YetToRead[1]) \/ NackOnly(YetToRead))'
    <3>1. CASE Acknowledges(q[1])
      <4>1. Acknowledges(r[1])
        BY <3>1, <2>2, <1>2
      <4>2. PICK n \in batch.first..batch.last :
              r[1] = Ack(session, batch, n) /\ n <= confirmed /\ (n # batch.last => DeniedNow)
        BY <4>1 DEF Acknowledges
      <4>3. n \in Nat
        BY DEF DeliveryInv, DeliveryTyped, Batches
      <4>4. /\ n \in batch'.first..batch'.last /\ r[1] = Ack(session', batch', n)
            /\ n <= confirmed' /\ (n # batch'.last => DeniedNow')
        BY <4>2, <4>3, <1>3 DEF DeliveryInv, DeliveryTyped
      <4> QED
        BY <4>4 DEF Acknowledges
    <3>2. CASE NackOnly(q)
      BY <3>2, <1>6
    <3> QED
      BY <2>2, <3>1, <3>2, <1>1, <1>2 DEF AnswerOnly
  <2>3. ASSUME Len(r) = 2 PROVE r[1].seq # batch'.last /\ r[2] = Nack(session', batch')
    <3>0. Len(q) <= 2
      BY DEF AnswerOnly
    <3> HIDE DEF q, r
    <3>2. Len(r) >= 1 /\ Len(r) >= 2
      BY <2>3
    <3>3. Len(q) = 2
      BY <1>1, <1>2, <2>3, <3>0
    <3>1. Len(q) = 2 /\ r[1] = q[1] /\ r[2] = q[2]
      BY <1>2, <3>2, <3>3
    <3> QED
      BY <3>1 DEF AnswerOnly
  <2> QED
    BY <2>1, <2>2, <2>3 DEF AnswerOnly
<1>9. /\ ready' \/ pc' \in {"HANDSHAKE", "SEND", "AWAIT", "AWAIT_NACK"} => session' \in Slots
      /\ pc' \in {"SEND", "AWAIT", "AWAIT_NACK"} => ready'
  BY DEF DeliveryInv, Phases
<1>10. pc' = "HANDSHAKE" =>
         /\ ~ready' /\ inHand'[session'] = NoBatch
         /\ handler'[session'] # "HELLO" => toServer'[session'] = <<>>
         /\ ReadyAckOnly(YetToRead)'
  BY <1>5 DEF DeliveryInv, Phases
<1>11. ready' /\ pc' \in {"IDLE", "FLUSH", "SEND"} => AtRest' /\ YetToRead' = <<>>
  BY <1>4, <1>1 DEF DeliveryInv, Phases
<1>12. ASSUME pc' = "AWAIT"
       PROVE  /\ acked' + 1 = batch'.first /\ Offered(batch)'
              /\ \/ /\ toServer'[session'] = <<BatchFrame(session', batch')>>
                    /\ inHand'[session'] = NoBatch /\ YetToRead' = <<>>
                 \/ toServer'[session'] = <<>> /\ inHand'[session'] = batch' /\ YetToRead' = <<>>
                 \/ AtRest' /\ AnswerOnly(YetToRead)'
  <2>1. acked + 1 = batch.first /\ Offered(batch) /\ batch \in Batches
    BY <1>12 DEF DeliveryInv, Phases, DeliveryTyped
  <2>2. Offered(batch)'
    BY <2>1, OfferStands DEF Offered, DeliveryInv
  <2>3. r = <<>> => AnswerOnly(YetToRead)'
    BY EmptySeq DEF AnswerOnly
  <2>4. \/ toServer[session] = <<BatchFrame(session, batch)>> /\ inHand[session] = NoBatch
           /\ q = <<>>
        \/ toServer[session] = <<>> /\ inHand[session] = batch /\ q = <<>>
        \/ AtRest /\ AnswerOnly(q)
    BY <1>12 DEF DeliveryInv, Phases
  <2> QED
    BY <2>1, <2>2, <2>3, <2>4, <1>1, <1>4, <1>8 DEF AtRest
<1>13. pc' = "AWAIT_NACK" => AtRest' /\ NackOnly(YetToRead)'
  BY <1>4, <1>6 DEF DeliveryInv, Phases
<1> HIDE DEF q, r
<1> QED
  BY <1>9, <1>10, <1>11, <1>12, <1>13 DEF Phases

(* What reaches the client and what is lost on the way.                    *)
LEMMA ArrivingStands ==
  ASSUME DeliveryTyped, DeliveryTyped', session \in Slots, session' = session,
         inbox' = inbox, clientOpen'[session] => clientOpen[session],
         toClient'[session] = toClient[session] \/ toClient'[session] = <<>>
  PROVE  Shortened(YetToRead', YetToRead)
<1>1. toClient[session] \in Seq(ClientFrames) /\ inbox \in Seq(ClientFrames)
  BY DEF DeliveryTyped
<1>2. clientOpen[session] \in BOOLEAN /\ clientOpen'[session] \in BOOLEAN
  BY DEF DeliveryTyped
<1>3. YetToRead' \in {inbox, inbox \o toClient[session]}
  BY <1>1, <1>2, ArrivedFirst DEF YetToRead
<1>4. CASE clientOpen[session]
  BY <1>1, <1>3, <1>4, ArrivedFirst DEF YetToRead
<1>5. CASE ~clientOpen[session]
  BY <1>1, <1>2, <1>5, ArrivedFirst DEF YetToRead
<1> QED
  BY <1>2, <1>4, <1>5

(* A step of the receiver, the network or the writer that gives the        *)
(* client's connection nothing new keeps the invariant.                    *)
LEMMA ClientUndisturbed ==
  ASSUME DeliveryInv, DeliveryTyped', LogOrder', AllOffered', HelloFirst',
         pc' = pc, session' = session, ready' = ready, batch' = batch, acked' = acked,
         error' = error,
         spooled <= spooled', applied <= applied', confirmed <= confirmed',
         session \in Slots =>
           /\ Shortened(YetToRead', YetToRead)
           /\ toServer'[session] = toServer[session] \/ toServer'[session] = <<>>
           /\ inHand'[session] = inHand[session] \/ inHand'[session] = NoBatch
           /\ handler'[session] = handler[session] \/ handler'[session] # "HELLO"
           /\ handler[session] = "HELLO" /\ handler'[session] # "HELLO"
                => toServer'[session] = <<>>
  PROVE  DeliveryInv'
<1>1. OnlyHonestStops'
  BY DeliveryAssumption DEF DeliveryInv, DeliveryTyped, OnlyHonestStops
<1>2. Phases'
  <2>1. CASE session \in Slots
    <3>1. session' \in Slots
      BY <2>1
    <3>2. Len(YetToRead') \in Nat /\ (Len(YetToRead') = 0 <=> YetToRead' = <<>>)
      <4>1. YetToRead' \in Seq(ClientFrames)
        <5>1. toClient'[session'] \in Seq(ClientFrames) /\ inbox' \in Seq(ClientFrames)
          BY <3>1 DEF DeliveryTyped
        <5> QED
          BY <5>1, ArrivedFirst DEF YetToRead
      <4> QED
        BY <4>1, EmptySeq
    <3>3. spooled' \in Nat /\ applied' \in Nat /\ confirmed' \in Nat
      BY DEF DeliveryTyped
    <3> QED
      BY <2>1, <3>2, <3>3, PhaseStands
  <2>2. CASE session \notin Slots
    <3>1. ~ready /\ pc \notin {"HANDSHAKE", "SEND", "AWAIT", "AWAIT_NACK"}
      BY <2>2 DEF DeliveryInv, Phases
    <3> QED
      BY <3>1 DEF Phases
  <2> QED
    BY <2>1, <2>2
<1> QED
  BY <1>1, <1>2 DEF DeliveryInv

(* HELLO first, on a connection whose handler, wire and hand are let be    *)
(* or emptied.                                                             *)
LEMMA HelloStands ==
  ASSUME HelloFirst, session' = session, ready' = ready, inbox' = inbox,
         \A s \in Slots :
           /\ handler'[s] = handler[s] \/ handler'[s] \notin {"HELLO", "NONE"}
              \/ (handler'[s] = "NONE" /\ inHand'[s] = NoBatch)
           /\ handler[s] = "HELLO" => handler'[s] = "HELLO" \/ toServer'[s] = <<>>
           /\ toServer'[s] = toServer[s] \/ toServer'[s] = <<>>
           /\ toClient'[s] = toClient[s] \/ toClient'[s] = <<>>
           /\ inHand'[s] = inHand[s] \/ inHand'[s] = NoBatch
  PROVE  HelloFirst'
<1> SUFFICES ASSUME NEW s \in Slots
             PROVE  IF handler'[s] = "HELLO"
                      THEN /\ toServer'[s] \in {<<>>, <<Frame(s, "HELLO")>>}
                           /\ inHand'[s] = NoBatch /\ toClient'[s] = <<>>
                           /\ session' = s => ~ready' /\ inbox' = <<>>
                      ELSE /\ \A i \in DOMAIN toServer'[s] : toServer'[s][i].type = "BATCH"
                           /\ handler'[s] = "NONE" => inHand'[s] = NoBatch
  BY DEF HelloFirst
<1>1. CASE handler'[s] = "HELLO"
  <2>1. handler[s] = "HELLO"
    BY <1>1
  <2> QED
    BY <1>1, <2>1 DEF HelloFirst
<1>2. CASE handler'[s] # "HELLO"
  <2>1. CASE handler[s] = "HELLO"
    BY <1>2, <2>1 DEF HelloFirst
  <2>2. CASE handler[s] # "HELLO"
    BY <1>2, <2>2 DEF HelloFirst
  <2> QED
    BY <2>1, <2>2
<1> QED
  BY <1>1, <1>2

(* Nothing stored, nothing spooled: what was offered is offered.           *)
LEMMA OffersLost ==
  ASSUME DeliveryTyped, AllOffered, DeliveryTyped', spooled <= spooled', applied <= applied',
         \A s \in Slots : inHand'[s] = inHand[s] \/ inHand'[s] = NoBatch,
         \A s \in Slots : toServer'[s] = toServer[s] \/ toServer'[s] = <<>>
  PROVE  AllOffered'
<1>1. ASSUME NEW s \in Slots, NEW i \in DOMAIN toServer'[s]
      PROVE  \E j \in DOMAIN toServer[s] : toServer'[s][i] = toServer[s][j]
  <2>1. CASE toServer'[s] = toServer[s]
    BY <2>1
  <2>2. CASE toServer'[s] = <<>>
    BY <2>2
  <2> QED
    BY <2>1, <2>2
<1>2. spooled' \in Nat /\ applied' \in Nat
  BY DEF DeliveryTyped
<1> QED
  BY <1>1, <1>2, OffersStand

(* A step that leaves the client alone and at most empties or closes       *)
(* things on the connections keeps the invariant.                          *)
LEMMA OnlyLosses ==
  ASSUME DeliveryInv, DeliveryTyped', LogOrder',
         pc' = pc, session' = session, ready' = ready, batch' = batch, inbox' = inbox,
         acked' = acked, error' = error,
         spooled <= spooled', applied <= applied', confirmed <= confirmed',
         \A s \in Slots :
           /\ handler'[s] = handler[s] \/ handler'[s] \notin {"HELLO", "NONE"}
              \/ (handler'[s] = "NONE" /\ inHand'[s] = NoBatch)
           /\ handler[s] = "HELLO" => handler'[s] = "HELLO" \/ toServer'[s] = <<>>
           /\ toServer'[s] = toServer[s] \/ toServer'[s] = <<>>
           /\ toClient'[s] = toClient[s] \/ toClient'[s] = <<>>
           /\ inHand'[s] = inHand[s] \/ inHand'[s] = NoBatch
           /\ clientOpen'[s] => clientOpen[s]
  PROVE  DeliveryInv'
<1>1. AllOffered'
  BY OffersLost DEF DeliveryInv
<1>2. HelloFirst'
  BY HelloStands DEF DeliveryInv
<1>3. session \in Slots => Shortened(YetToRead', YetToRead)
  BY ArrivingStands DEF DeliveryInv
<1> QED
  BY <1>1, <1>2, <1>3, ClientUndisturbed

LEMMA SpoolRecordKeeps == ASSUME DeliveryInv, SpoolRecord PROVE DeliveryInv'
<1> USE DEF SpoolRecord, storeVars, clientVars, linkVars, serverVars
<1>1. DeliveryTyped'
  BY DEF DeliveryInv, DeliveryTyped
<1>2. LogOrder' /\ spooled <= spooled'
  BY DEF DeliveryInv, DeliveryTyped, LogOrder
<1>3. applied <= applied' /\ confirmed <= confirmed'
  BY DEF DeliveryInv, DeliveryTyped
<1> QED
  BY <1>1, <1>2, <1>3, OnlyLosses

LEMMA ActivateKeeps == ASSUME DeliveryInv, NEW s \in Slots, Activate(s) PROVE DeliveryInv'
<1> USE DEF Activate, spoolVars, storeVars, clientVars
<1>1. DeliveryTyped'
  <2>1. serverOpen' \in [Slots -> BOOLEAN]
    BY DEF DeliveryInv, DeliveryTyped
  <2>2. handler' \in [Slots -> {"NONE", "HELLO", "LOCK", "SERVING"}]
    BY DEF DeliveryInv, DeliveryTyped
  <2> QED
    BY <2>1, <2>2 DEF DeliveryInv, DeliveryTyped
<1>2. LogOrder' /\ spooled <= spooled' /\ applied <= applied' /\ confirmed <= confirmed'
  BY DEF DeliveryInv, DeliveryTyped, LogOrder
<1>3. \A t \in Slots : handler'[t] = handler[t] \/ (handler'[t] = "SERVING" /\ handler[t] = "LOCK")
  BY DEF DeliveryInv, DeliveryTyped
<1> QED
  BY <1>1, <1>2, <1>3, OnlyLosses

LEMMA RejectReplacedKeeps ==
  ASSUME DeliveryInv, NEW s \in Slots, RejectReplaced(s) PROVE DeliveryInv'
<1> USE DEF RejectReplaced, spoolVars, storeVars, clientVars
<1>1. DeliveryTyped'
  <2>1. serverOpen' \in [Slots -> BOOLEAN]
    BY DEF DeliveryInv, DeliveryTyped
  <2>2. inHand' \in [Slots -> Batches]
    BY NoBatchType DEF DeliveryInv, DeliveryTyped
  <2> QED
    BY <2>1, <2>2 DEF DeliveryInv, DeliveryTyped
<1>2. LogOrder' /\ spooled <= spooled' /\ applied <= applied' /\ confirmed <= confirmed'
  BY DEF DeliveryInv, DeliveryTyped, LogOrder
<1>3. \A t \in Slots : inHand'[t] = inHand[t] \/ inHand'[t] = NoBatch
  BY DEF DeliveryInv, DeliveryTyped
<1> QED
  BY <1>1, <1>2, <1>3, OnlyLosses

LEMMA HandlerEndsKeeps ==
  ASSUME DeliveryInv, NEW s \in Slots, HandlerEnds(s) PROVE DeliveryInv'
<1> USE DEF HandlerEnds, spoolVars, storeVars, clientVars
<1>1. DeliveryTyped'
  <2>1. handler' \in [Slots -> {"NONE", "HELLO", "LOCK", "SERVING"}]
    BY DEF DeliveryInv, DeliveryTyped
  <2>2. toServer' \in [Slots -> Seq(ServerFrames)]
    BY EmptySeq DEF DeliveryInv, DeliveryTyped
  <2>3. active' \in Slots \cup {None}
    BY DEF DeliveryInv, DeliveryTyped
  <2> QED
    BY <2>1, <2>2, <2>3 DEF DeliveryInv, DeliveryTyped
<1>2. LogOrder' /\ spooled <= spooled' /\ applied <= applied' /\ confirmed <= confirmed'
  BY DEF DeliveryInv, DeliveryTyped, LogOrder
<1>3. \A t \in Slots :
        \/ handler'[t] = handler[t] /\ toServer'[t] = toServer[t]
        \/ handler'[t] = "NONE" /\ inHand'[t] = NoBatch /\ toServer'[t] = <<>>
  BY DEF DeliveryInv, DeliveryTyped
<1> QED
  BY <1>1, <1>2, <1>3, OnlyLosses

LEMMA ServerSeesCloseKeeps ==
  ASSUME DeliveryInv, NEW s \in Slots, ServerSeesClose(s) PROVE DeliveryInv'
<1> USE DEF ServerSeesClose, spoolVars, storeVars, clientVars, serverVars
<1>1. DeliveryTyped'
  BY DEF DeliveryInv, DeliveryTyped
<1>2. LogOrder' /\ spooled <= spooled' /\ applied <= applied' /\ confirmed <= confirmed'
  BY DEF DeliveryInv, DeliveryTyped, LogOrder
<1> QED
  BY <1>1, <1>2, OnlyLosses

LEMMA ClientSeesCloseKeeps ==
  ASSUME DeliveryInv, NEW s \in Slots, ClientSeesClose(s) PROVE DeliveryInv'
<1> USE DEF ClientSeesClose, spoolVars, storeVars, clientVars, serverVars
<1>1. DeliveryTyped'
  BY DEF DeliveryInv, DeliveryTyped
<1>2. LogOrder' /\ spooled <= spooled' /\ applied <= applied' /\ confirmed <= confirmed'
  BY DEF DeliveryInv, DeliveryTyped, LogOrder
<1>3. \A t \in Slots : clientOpen'[t] => clientOpen[t]
  BY DEF DeliveryInv, DeliveryTyped
<1> QED
  BY <1>1, <1>2, <1>3, OnlyLosses

LEMMA ResetKeeps == ASSUME DeliveryInv, NEW s \in Slots, Reset(s) PROVE DeliveryInv'
<1> USE DEF Reset, spoolVars, storeVars, clientVars, serverVars
<1>1. DeliveryTyped'
  <2>1. toServer' \in [Slots -> Seq(ServerFrames)] /\ toClient' \in [Slots -> Seq(ClientFrames)]
    BY EmptySeq DEF DeliveryInv, DeliveryTyped
  <2>2. clientOpen' \in [Slots -> BOOLEAN] /\ serverOpen' \in [Slots -> BOOLEAN]
    BY DEF DeliveryInv, DeliveryTyped
  <2> QED
    BY <2>1, <2>2 DEF DeliveryInv, DeliveryTyped
<1>2. LogOrder' /\ spooled <= spooled' /\ applied <= applied' /\ confirmed <= confirmed'
  BY DEF DeliveryInv, DeliveryTyped, LogOrder
<1>3. \A t \in Slots :
        /\ clientOpen'[t] => clientOpen[t]
        /\ toServer'[t] = toServer[t] \/ toServer'[t] = <<>>
        /\ toClient'[t] = toClient[t] \/ toClient'[t] = <<>>
  BY DEF DeliveryInv, DeliveryTyped
<1> QED
  BY <1>1, <1>2, <1>3, OnlyLosses

LEMMA ReceiverStartKeeps == ASSUME DeliveryInv, ReceiverStart PROVE DeliveryInv'
<1> USE DEF ReceiverStart, spoolVars, clientVars, linkVars, serverVars
<1>1. DeliveryTyped'
  BY DEF DeliveryInv, DeliveryTyped
<1>2. LogOrder' /\ spooled <= spooled' /\ applied <= applied' /\ confirmed <= confirmed'
  BY DEF DeliveryInv, DeliveryTyped, LogOrder
<1> QED
  BY <1>1, <1>2, OnlyLosses

(* What the store makes of an offered batch.                               *)
LEMMA ReachedBatch ==
  ASSUME DeliveryTyped, LogOrder, NEW b \in Batches, Offered(b)
  PROVE  /\ Reached(b) \in Nat /\ b.first - 1 <= Reached(b) /\ Reached(b) <= b.last
         /\ Reached(b) < b.last => Larger(applied, Reached(b)) >= DenyAt - 1
         /\ Larger(applied, Reached(b)) \in applied..spooled
         /\ ConfirmedAfter(b) \in Nat /\ confirmed <= ConfirmedAfter(b)
         /\ ConfirmedAfter(b) <= Larger(applied, Reached(b))
         /\ Reached(b) >= b.first => Reached(b) <= ConfirmedAfter(b)
<1>1. /\ b.first \in Nat /\ b.last \in Nat /\ 1 <= b.first /\ b.first <= applied + 1
      /\ b.first <= b.last /\ b.last <= spooled /\ applied \in Nat /\ spooled \in Nat
      /\ confirmed \in Nat /\ confirmed <= applied /\ applied <= spooled
      /\ denies \in BOOLEAN /\ DenyAt \in Nat
  BY DeliveryAssumption DEF DeliveryTyped, Batches, Offered, LogOrder
<1>2. Reached(b) = IF denies /\ DenyAt \in (applied + 1)..b.last THEN DenyAt - 1 ELSE b.last
  BY <1>1 DEF Reached
<1>3. /\ Reached(b) \in Nat /\ b.first - 1 <= Reached(b) /\ Reached(b) <= b.last
      /\ Reached(b) < b.last => Larger(applied, Reached(b)) >= DenyAt - 1
  BY <1>1, <1>2 DEF Larger
<1> QED
  BY <1>1, <1>3 DEF Larger, ConfirmedAfter

(* A crash loses nothing of the store, and adds only what was offered.     *)
LEMMA CrashStores ==
  ASSUME DeliveryTyped, LogOrder, AllOffered, ReceiverCrash
  PROVE  /\ applied' \in Nat /\ confirmed' \in Nat /\ applied <= applied'
         /\ confirmed <= confirmed' /\ confirmed' <= applied' /\ applied' <= spooled
<1> USE DEF ReceiverCrash
<1>1. CASE UNCHANGED <<applied, confirmed>>
  BY <1>1 DEF DeliveryTyped, LogOrder
<1>2. CASE active # None /\ inHand[active] # NoBatch /\ StoreAfterCrash(inHand[active])
  <2> DEFINE b == inHand[active]
  <2>1. active \in Slots
    BY <1>2 DEF DeliveryTyped
  <2>2. b \in Batches /\ Offered(b)
    BY <1>2, <2>1 DEF DeliveryTyped, AllOffered
  <2> HIDE DEF b
  <2>3. /\ Reached(b) \in Nat /\ b.first - 1 <= Reached(b) /\ Reached(b) <= b.last
        /\ Larger(applied, Reached(b)) \in applied..spooled
        /\ ConfirmedAfter(b) \in Nat /\ confirmed <= ConfirmedAfter(b)
        /\ ConfirmedAfter(b) <= Larger(applied, Reached(b))
    BY <2>2, ReachedBatch
  <2>4. /\ applied \in Nat /\ confirmed \in Nat /\ spooled \in Nat /\ b.first \in Nat
        /\ b.last \in Nat /\ b.last <= spooled /\ confirmed <= applied /\ applied <= spooled
        /\ 1 <= b.first
    BY <2>2 DEF DeliveryTyped, Batches, Offered, LogOrder
  <2>5. StoreAfterCrash(b)
    BY <1>2 DEF b
  <2>6. CASE \E n \in b.first - 1..Smaller(Reached(b) + 1, b.last) :
               applied' = Larger(applied, n) /\ UNCHANGED confirmed
    <3>1. PICK n \in b.first - 1..Smaller(Reached(b) + 1, b.last) :
            applied' = Larger(applied, n) /\ UNCHANGED confirmed
      BY <2>6
    <3>2. n \in Nat /\ n <= b.last
      BY <2>3, <2>4, <3>1 DEF Smaller
    <3> QED
      BY <3>1, <3>2, <2>4 DEF Larger
  <2>7. CASE applied' = Larger(applied, Reached(b)) /\ confirmed' = ConfirmedAfter(b)
    BY <2>7, <2>3, <2>4
  <2> QED
    BY <2>5, <2>6, <2>7 DEF StoreAfterCrash
<1> QED
  BY <1>1, <1>2

LEMMA ReceiverCrashKeeps == ASSUME DeliveryInv, ReceiverCrash PROVE DeliveryInv'
<1> USE DEF ReceiverCrash, spoolVars, clientVars
<1>1. /\ applied' \in Nat /\ confirmed' \in Nat /\ applied <= applied' /\ confirmed <= confirmed'
      /\ confirmed' <= applied' /\ applied' <= spooled
  BY CrashStores DEF DeliveryInv
<1>2. /\ handler' = [s \in Slots |-> "NONE"] /\ inHand' = [s \in Slots |-> NoBatch]
      /\ toServer' = [s \in Slots |-> <<>>] /\ toClient' \in {toClient, [s \in Slots |-> <<>>]}
  OBVIOUS
<1>3. DeliveryTyped'
  <2>1. inHand' \in [Slots -> Batches]
    BY <1>2, NoBatchType
  <2>2. /\ [s \in Slots |-> <<>>] \in [Slots -> Seq(ServerFrames)]
        /\ [s \in Slots |-> <<>>] \in [Slots -> Seq(ClientFrames)]
    BY EmptySeq
  <2>4. toClient \in [Slots -> Seq(ClientFrames)]
    BY DEF DeliveryInv, DeliveryTyped
  <2>3. /\ handler' \in [Slots -> {"NONE", "HELLO", "LOCK", "SERVING"}]
        /\ serverOpen' \in [Slots -> BOOLEAN]
    BY <1>2
  <2>5. toServer' \in [Slots -> Seq(ServerFrames)] /\ toClient' \in [Slots -> Seq(ClientFrames)]
    BY <1>2, <2>2, <2>4
  <2> QED
    BY <1>1, <2>1, <2>3, <2>5 DEF DeliveryInv, DeliveryTyped
<1>4. LogOrder' /\ spooled <= spooled'
  BY <1>1 DEF DeliveryInv, DeliveryTyped, LogOrder
<1>5. \A s \in Slots :
        /\ handler'[s] = "NONE" /\ inHand'[s] = NoBatch /\ toServer'[s] = <<>>
        /\ toClient'[s] = toClient[s] \/ toClient'[s] = <<>>
        /\ clientOpen'[s] => clientOpen[s]
  BY <1>2
<1>6. /\ pc' = pc /\ session' = session /\ ready' = ready /\ batch' = batch /\ inbox' = inbox
      /\ acked' = acked /\ error' = error
  OBVIOUS
<1> QED
  BY <1>1, <1>3, <1>4, <1>5, <1>6, OnlyLosses DEF DeliveryInv

LEMMA DeliverKeeps == ASSUME DeliveryInv, NEW s \in Slots, Deliver(s) PROVE DeliveryInv'
<1> USE DEF Deliver, spoolVars, storeVars, serverVars
<1>1. /\ inbox \in Seq(ClientFrames) /\ toClient[s] \in Seq(ClientFrames) /\ toClient[s] # <<>>
      /\ toClient \in [Slots -> Seq(ClientFrames)]
  BY DEF DeliveryInv, DeliveryTyped
<1>2. /\ Append(inbox, Head(toClient[s])) \in Seq(ClientFrames)
      /\ Tail(toClient[s]) \in Seq(ClientFrames)
      /\ Append(inbox, Head(toClient[s])) \o Tail(toClient[s]) = inbox \o toClient[s]
  BY <1>1, MovedFrame
<1>3. DeliveryTyped'
  <2>1. toClient' \in [Slots -> Seq(ClientFrames)] /\ inbox' \in Seq(ClientFrames)
    BY <1>1, <1>2
  <2> QED
    BY <2>1 DEF DeliveryInv, DeliveryTyped
<1>4. handler[s] # "HELLO"
  BY <1>1 DEF DeliveryInv, HelloFirst
<1>5. HelloFirst'
  <2> SUFFICES ASSUME NEW t \in Slots, handler[t] = "HELLO"
               PROVE  toClient'[t] = <<>> /\ (session = t => inbox' = <<>>)
    BY DEF DeliveryInv, HelloFirst
  <2>1. t # s
    BY <1>4
  <2> QED
    BY <1>1, <2>1 DEF DeliveryInv, HelloFirst
<1>6. ASSUME session \in Slots PROVE Shortened(YetToRead', YetToRead)
  <2>1. toClient[session] \in Seq(ClientFrames) /\ toClient'[session] \in Seq(ClientFrames)
    BY <1>3, <1>6 DEF DeliveryInv, DeliveryTyped
  <2>2. CASE session = s /\ clientOpen[s]
    <3>1. YetToRead' = Append(inbox, Head(toClient[s])) \o Tail(toClient[s])
      BY <1>1, <2>2 DEF YetToRead
    <3>2. YetToRead' = YetToRead
      BY <3>1, <1>2, <2>2 DEF YetToRead
    <3> QED
      BY <3>2, <1>1, <2>1, <2>2, ArrivedFirst DEF YetToRead
  <2>3. CASE session # s
    <3>1. YetToRead' = YetToRead
      BY <1>1, <2>3 DEF YetToRead
    <3> QED
      BY <3>1, <1>1, <2>1, ArrivedFirst DEF YetToRead
  <2>4. CASE session = s /\ ~clientOpen[s]
    <3>1. YetToRead' = inbox /\ YetToRead = inbox
      BY <2>4 DEF YetToRead
    <3> QED
      BY <3>1, <1>1, ArrivedFirst
  <2> QED
    BY <2>2, <2>3, <2>4
<1>7. LogOrder' /\ spooled <= spooled' /\ applied <= applied' /\ confirmed <= confirmed'
  BY DEF DeliveryInv, DeliveryTyped, LogOrder
<1>8. AllOffered'
  BY <1>3, <1>7, OffersLost DEF DeliveryInv
<1> QED
  BY <1>3, <1>5, <1>6, <1>7, <1>8, ClientUndisturbed

(* The READY_ACK is the first frame on its connection.                     *)
LEMMA AnswerHelloKeeps ==
  ASSUME DeliveryInv, NEW s \in Slots, AnswerHello(s) PROVE DeliveryInv'
<1> USE DEF AnswerHello, spoolVars, storeVars, clientVars
<1>1. /\ toServer[s] = <<Frame(s, "HELLO")>> /\ inHand[s] = NoBatch /\ toClient[s] = <<>>
      /\ session = s => ~ready /\ inbox = <<>>
  BY DEF DeliveryInv, HelloFirst
<1>2. toServer' = [toServer EXCEPT ![s] = <<>>]
  BY <1>1
<1>3. toClient' = [toClient EXCEPT ![s] = <<Frame(s, "READY_ACK")>>]
  <2>1. Frame(s, "READY_ACK") \in ClientFrames
    BY FrameTypes, DeliveryAssumption DEF Frame, ClientFrames
  <2>2. <<>> \o <<Frame(s, "READY_ACK")>> = <<Frame(s, "READY_ACK")>>
    BY <2>1, ArrivedFirst
  <2> QED
    BY <1>1, <2>2 DEF Send
<1>4. handler' = [handler EXCEPT ![s] = "LOCK"]
  OBVIOUS
<1>5. DeliveryTyped'
  <2>1. <<Frame(s, "READY_ACK")>> \in Seq(ClientFrames)
    BY DEF Frame, ClientFrames
  <2>2. toClient' \in [Slots -> Seq(ClientFrames)]
    BY <1>3, <2>1 DEF DeliveryInv, DeliveryTyped
  <2>3. toServer' \in [Slots -> Seq(ServerFrames)]
    BY <1>2, EmptySeq DEF DeliveryInv, DeliveryTyped
  <2>4. handler' \in [Slots -> {"NONE", "HELLO", "LOCK", "SERVING"}]
    BY <1>4 DEF DeliveryInv, DeliveryTyped
  <2> QED
    BY <2>2, <2>3, <2>4 DEF DeliveryInv, DeliveryTyped
<1>6. LogOrder' /\ spooled <= spooled' /\ applied <= applied' /\ confirmed <= confirmed'
  BY DEF DeliveryInv, DeliveryTyped, LogOrder
<1>7. \A t \in Slots : /\ toServer'[t] = toServer[t] \/ toServer'[t] = <<>>
                       /\ t # s => /\ toServer'[t] = toServer[t] /\ toClient'[t] = toClient[t]
                                   /\ handler'[t] = handler[t]
                       /\ inHand'[t] = inHand[t]
  BY <1>2, <1>3, <1>4 DEF DeliveryInv, DeliveryTyped
<1>8. /\ toServer'[s] = <<>> /\ handler'[s] = "LOCK"
      /\ toClient'[s] = <<Frame(s, "READY_ACK")>>
  BY <1>2, <1>3, <1>4 DEF DeliveryInv, DeliveryTyped
<1>9. AllOffered'
  BY <1>5, <1>6, <1>7, OffersLost DEF DeliveryInv
<1>10. HelloFirst'
  <2> SUFFICES ASSUME NEW t \in Slots
               PROVE  IF handler'[t] = "HELLO"
                        THEN /\ toServer'[t] \in {<<>>, <<Frame(t, "HELLO")>>}
                             /\ inHand'[t] = NoBatch /\ toClient'[t] = <<>>
                             /\ session' = t => ~ready' /\ inbox' = <<>>
                        ELSE /\ \A i \in DOMAIN toServer'[t] : toServer'[t][i].type = "BATCH"
                             /\ handler'[t] = "NONE" => inHand'[t] = NoBatch
    BY DEF HelloFirst
  <2>1. CASE t = s
    BY <1>8, <2>1
  <2>2. CASE t # s
    BY <1>7, <2>2 DEF DeliveryInv, HelloFirst
  <2> QED
    BY <2>1, <2>2
<1>11. CASE session = s
  <2>1. ~ready /\ pc \notin {"SEND", "AWAIT", "AWAIT_NACK"}
    BY <1>1, <1>11 DEF DeliveryInv, Phases
  <2>2. YetToRead' \in {<<>>, <<Frame(session, "READY_ACK")>>}
    <3>1. <<>> \o <<Frame(s, "READY_ACK")>> = <<Frame(s, "READY_ACK")>>
      <4>1. Frame(s, "READY_ACK") \in ClientFrames
        BY DEF Frame, ClientFrames
      <4> QED
        BY <4>1, ArrivedFirst
    <3> QED
      BY <1>1, <1>8, <1>11, <3>1 DEF YetToRead
  <2>3. ReadyAckOnly(YetToRead)'
    <3>1. CASE YetToRead' = <<>>
      BY <3>1, EmptySeq DEF ReadyAckOnly
    <3>2. CASE YetToRead' = <<Frame(session, "READY_ACK")>>
      <4>1. Len(YetToRead') = 1 /\ YetToRead'[1] = Frame(session', "READY_ACK")
        BY <3>2
      <4> QED
        BY <4>1 DEF ReadyAckOnly
    <3> QED
      BY <2>2, <3>1, <3>2
  <2>4. Phases'
    BY <1>1, <1>8, <1>11, <2>1, <2>3 DEF Phases
  <2> QED
    BY <1>5, <1>6, <1>9, <1>10, <2>4 DEF DeliveryInv, OnlyHonestStops
<1>12. CASE session # s
  <2>1. session \in Slots => Shortened(YetToRead', YetToRead)
    BY <1>5, <1>7, <1>12, ArrivingStands DEF DeliveryInv
  <2> QED
    BY <1>5, <1>6, <1>7, <1>9, <1>10, <1>12, <2>1, ClientUndisturbed
<1> QED
  BY <1>11, <1>12

(* A BATCH goes from the wire into the handler's hand.                     *)
LEMMA TakeBatchKeeps == ASSUME DeliveryInv, NEW s \in Slots, TakeBatch(s) PROVE DeliveryInv'
<1> USE DEF TakeBatch, spoolVars, storeVars, clientVars
<1>1. /\ toServer[s] \in Seq(ServerFrames) /\ toServer[s] # <<>> /\ handler[s] = "SERVING"
      /\ inHand[s] = NoBatch /\ toServer \in [Slots -> Seq(ServerFrames)]
      /\ inHand \in [Slots -> Batches]
  BY DEF DeliveryInv, DeliveryTyped
<1>2. /\ Head(toServer[s]) = toServer[s][1] /\ Head(toServer[s]) \in ServerFrames
      /\ Tail(toServer[s]) \in Seq(ServerFrames) /\ Len(toServer[s]) \in Nat
      /\ Len(toServer[s]) >= 1 /\ Len(Tail(toServer[s])) = Len(toServer[s]) - 1
      /\ \A i \in 1..Len(Tail(toServer[s])) : Tail(toServer[s])[i] = toServer[s][i + 1]
      /\ DOMAIN toServer[s] = 1..Len(toServer[s])
      /\ DOMAIN Tail(toServer[s]) = 1..Len(Tail(toServer[s]))
  BY <1>1, EmptySeq, HeadTailProperties, LenProperties
<1>3. 1 \in DOMAIN toServer[s] /\ toServer[s][1].type = "BATCH"
  BY <1>1, <1>2 DEF DeliveryInv, HelloFirst
<1>4. toServer[s][1].batch \in Batches
  BY <1>2, <1>3 DEF ServerFrames
<1>5. /\ inHand' = [inHand EXCEPT ![s] = toServer[s][1].batch]
      /\ toServer' = [toServer EXCEPT ![s] = Tail(toServer[s])]
  BY <1>2
<1>6. DeliveryTyped'
  <2>1. toServer' \in [Slots -> Seq(ServerFrames)] /\ inHand' \in [Slots -> Batches]
    BY <1>1, <1>2, <1>4, <1>5
  <2> QED
    BY <2>1 DEF DeliveryInv, DeliveryTyped
<1>7. LogOrder' /\ spooled <= spooled' /\ applied <= applied' /\ confirmed <= confirmed'
  BY DEF DeliveryInv, DeliveryTyped, LogOrder
<1>8. /\ inHand'[s] = toServer[s][1].batch /\ toServer'[s] = Tail(toServer[s])
      /\ \A t \in Slots \ {s} : inHand'[t] = inHand[t] /\ toServer'[t] = toServer[t]
  BY <1>1, <1>5
<1>9. AllOffered'
  <2>1. ASSUME NEW t \in Slots, NEW i \in DOMAIN toServer'[t]
        PROVE  \E j \in DOMAIN toServer[t] : toServer'[t][i] = toServer[t][j]
    <3>1. CASE t = s
      <4>1. i \in 1..Len(Tail(toServer[s])) /\ toServer'[t][i] = toServer[s][i + 1]
        BY <1>2, <1>8, <3>1, <2>1
      <4> QED
        BY <4>1, <1>2, <3>1
    <3>2. CASE t # s
      BY <1>8, <3>2
    <3> QED
      BY <3>1, <3>2
  <2>2. ASSUME NEW t \in Slots
        PROVE  inHand'[t] = inHand[t] \/ inHand'[t] = NoBatch
               \/ \E j \in DOMAIN toServer[t] :
                    toServer[t][j].type = "BATCH" /\ inHand'[t] = toServer[t][j].batch
    BY <1>3, <1>8
  <2>3. spooled' \in Nat /\ applied' \in Nat
    BY <1>6 DEF DeliveryTyped
  <2> QED
    BY <1>7, <2>1, <2>2, <2>3, OffersStand DEF DeliveryInv
<1>10. HelloFirst'
  <2> SUFFICES ASSUME NEW t \in Slots
               PROVE  IF handler'[t] = "HELLO"
                        THEN /\ toServer'[t] \in {<<>>, <<Frame(t, "HELLO")>>}
                             /\ inHand'[t] = NoBatch /\ toClient'[t] = <<>>
                             /\ session' = t => ~ready' /\ inbox' = <<>>
                        ELSE /\ \A i \in DOMAIN toServer'[t] : toServer'[t][i].type = "BATCH"
                             /\ handler'[t] = "NONE" => inHand'[t] = NoBatch
    BY DEF HelloFirst
  <2>1. CASE t = s
    <3>1. ASSUME NEW i \in DOMAIN toServer'[t] PROVE toServer'[t][i].type = "BATCH"
      <4>0. i \in DOMAIN Tail(toServer[s])
        BY <1>8, <2>1
      <4>2. i \in 1..Len(Tail(toServer[s]))
        BY <1>2, <4>0
      <4>3. Tail(toServer[s])[i] = toServer[s][i + 1]
        BY <1>2, <4>2
      <4>4. i + 1 \in 1..Len(toServer[s])
        BY <1>2, <4>2
      <4>1. i + 1 \in DOMAIN toServer[s] /\ toServer'[t][i] = toServer[s][i + 1]
        BY <1>2, <1>8, <2>1, <4>3, <4>4
      <4> QED
        BY <4>1, <1>1 DEF DeliveryInv, HelloFirst
    <3> QED
      BY <1>1, <2>1, <3>1
  <2>2. CASE t # s
    BY <1>8, <2>2 DEF DeliveryInv, HelloFirst
  <2> QED
    BY <2>1, <2>2
<1>11. CASE session = s
  <2>1. toServer[s] # <<>> /\ handler[s] # "HELLO"
    BY <1>1
  <2>2. pc # "HANDSHAKE" /\ ~(ready /\ pc \in {"IDLE", "FLUSH", "SEND"}) /\ pc # "AWAIT_NACK"
    BY <2>1, <1>11 DEF DeliveryInv, Phases, AtRest
  <2>3. ASSUME pc = "AWAIT"
        PROVE  toServer'[s] = <<>> /\ inHand'[s] = batch /\ YetToRead = <<>>
    <3>1. toServer[s] = <<BatchFrame(s, batch)>> /\ YetToRead = <<>>
      BY <2>1, <2>3, <1>11 DEF DeliveryInv, Phases, AtRest
    <3>2. toServer[s][1] = BatchFrame(s, batch) /\ Tail(toServer[s]) = <<>>
      BY <3>1
    <3> QED
      BY <3>1, <3>2, <1>8 DEF BatchFrame
  <2>4. YetToRead' = YetToRead
    BY DEF YetToRead
  <2>5. pc = "AWAIT" => acked' + 1 = batch'.first /\ Offered(batch)'
    BY DEF DeliveryInv, Phases, Offered
  <2>6. (ready \/ pc = "AWAIT" => session \in Slots) /\ (pc \in {"SEND", "AWAIT", "AWAIT_NACK"} => ready)
    BY DEF DeliveryInv, Phases
  <2>7. Phases'
    BY <1>11, <2>2, <2>3, <2>4, <2>5, <2>6 DEF Phases
  <2> QED
    BY <1>6, <1>7, <1>9, <1>10, <2>7 DEF DeliveryInv, OnlyHonestStops
<1>12. CASE session # s
  <2>1. session \in Slots => Shortened(YetToRead', YetToRead)
    BY <1>6, <1>8, <1>12, ArrivingStands DEF DeliveryInv
  <2> QED
    BY <1>6, <1>7, <1>8, <1>9, <1>10, <1>12, <2>1, ClientUndisturbed
<1> QED
  BY <1>11, <1>12

LEMMA TwoFrames ==
  ASSUME NEW S, NEW x \in S, NEW y \in S PROVE <<x>> \o <<y>> = <<x, y>>
<1>1. <<x>> \o <<y>> \in Seq(S) /\ <<x, y>> \in Seq(S)
  OBVIOUS
<1>2. Len(<<x>> \o <<y>>) = 2 /\ Len(<<x, y>>) = 2
  OBVIOUS
<1>3. /\ (<<x>> \o <<y>>)[1] = x /\ (<<x>> \o <<y>>)[2] = y
      /\ <<x, y>>[1] = x /\ <<x, y>>[2] = y
  OBVIOUS
<1>4. \A i \in 1..2 : i = 1 \/ i = 2
  OBVIOUS
<1>5. \A i \in 1..Len(<<x>> \o <<y>>) : (<<x>> \o <<y>>)[i] = <<x, y>>[i]
  BY <1>2, <1>3, <1>4
<1> QED
  BY <1>1, <1>2, <1>5, SeqEqual

(* What process_batch sends: one ACK, one NACK, or one then the other.     *)
LEMMA ResponsesAnswer ==
  ASSUME NEW s \in Slots, NEW b \in Batches, Reached(b) \in Nat,
         Reached(b) >= b.first - 1, Reached(b) <= b.last, b.first <= b.last
  PROVE  /\ Responses(s, b) \in Seq(ClientFrames)
         /\ \/ Reached(b) = b.last /\ Responses(s, b) = <<Ack(s, b, b.last)>>
            \/ Reached(b) \in b.first..(b.last - 1)
               /\ Responses(s, b) = <<Ack(s, b, Reached(b)), Nack(s, b)>>
            \/ Reached(b) < b.first /\ Responses(s, b) = <<Nack(s, b)>>
<1>1. /\ Ack(s, b, Reached(b)) \in ClientFrames /\ Nack(s, b) \in ClientFrames
      /\ b.first \in Nat /\ b.last \in Nat
  BY FrameTypes DEF Batches
<1> DEFINE acks == IF Reached(b) >= b.first THEN <<Ack(s, b, Reached(b))>> ELSE <<>>
           nacks == IF Reached(b) < b.last THEN <<Nack(s, b)>> ELSE <<>>
<1>0. Responses(s, b) = acks \o nacks
  BY DEF Responses
<1>2. CASE Reached(b) = b.last
  <2>1. acks = <<Ack(s, b, b.last)>> /\ nacks = <<>>
    BY <1>1, <1>2
  <2> HIDE DEF acks, nacks
  <2>2. <<Ack(s, b, b.last)>> \in Seq(ClientFrames)
    BY <1>1, <1>2
  <2> QED
    BY <1>0, <1>1, <1>2, <2>1, <2>2, ConcatEmptySeq
<1>3. CASE Reached(b) \in b.first..(b.last - 1)
  <2>1. Responses(s, b) = <<Ack(s, b, Reached(b))>> \o <<Nack(s, b)>>
    BY <1>1, <1>3 DEF Responses
  <2>2. Responses(s, b) = <<Ack(s, b, Reached(b)), Nack(s, b)>>
    BY <1>1, <2>1, TwoFrames
  <2>3. <<Ack(s, b, Reached(b)), Nack(s, b)>> \in Seq(ClientFrames)
    BY <1>1
  <2> QED
    BY <1>3, <2>2, <2>3
<1>4. CASE Reached(b) < b.first
  <2>1. acks = <<>> /\ nacks = <<Nack(s, b)>>
    BY <1>1, <1>4
  <2> HIDE DEF acks, nacks
  <2>2. <<Nack(s, b)>> \in Seq(ClientFrames)
    BY <1>1
  <2> QED
    BY <1>0, <1>1, <1>4, <2>1, <2>2, ConcatEmptySeq
<1> QED
  BY <1>1, <1>2, <1>3, <1>4

LEMMA ProcessBatchKeeps ==
  ASSUME DeliveryInv, NEW s \in Slots, ProcessBatch(s) PROVE DeliveryInv'
<1> DEFINE b == inHand[s]
<1> USE DEF ProcessBatch, spoolVars, clientVars
<1>1. b \in Batches /\ b # NoBatch /\ Offered(b)
  BY DEF DeliveryInv, DeliveryTyped, AllOffered
<1>2. /\ applied' = Larger(applied, Reached(b)) /\ confirmed' = ConfirmedAfter(b)
      /\ inHand' = [inHand EXCEPT ![s] = NoBatch]
      /\ toClient' = [toClient EXCEPT ![s] = IF serverOpen[s] THEN @ \o Responses(s, b) ELSE @]
      /\ serverOpen' = [serverOpen EXCEPT ![s] = @ /\ Reached(b) = b.last]
  BY DEF Send
<1> HIDE DEF b
<1>3. /\ Reached(b) \in Nat /\ b.first - 1 <= Reached(b) /\ Reached(b) <= b.last
      /\ Reached(b) < b.last => applied' >= DenyAt - 1
      /\ applied' \in applied..spooled /\ confirmed' \in Nat
      /\ confirmed <= confirmed' /\ confirmed' <= applied'
      /\ Reached(b) >= b.first => Reached(b) <= confirmed'
  BY <1>1, <1>2, ReachedBatch DEF DeliveryInv
<1>4. b.first \in Nat /\ b.last \in Nat /\ b.first <= b.last
  BY <1>1 DEF Batches, Offered
<1>5. /\ Responses(s, b) \in Seq(ClientFrames)
      /\ \/ Reached(b) = b.last /\ Responses(s, b) = <<Ack(s, b, b.last)>>
         \/ Reached(b) \in b.first..(b.last - 1)
            /\ Responses(s, b) = <<Ack(s, b, Reached(b)), Nack(s, b)>>
         \/ Reached(b) < b.first /\ Responses(s, b) = <<Nack(s, b)>>
  BY <1>1, <1>3, <1>4, ResponsesAnswer
<1>6. DeliveryTyped'
  <2>1. toClient[s] \in Seq(ClientFrames) /\ toClient \in [Slots -> Seq(ClientFrames)]
    BY DEF DeliveryInv, DeliveryTyped
  <2>2. toClient[s] \o Responses(s, b) \in Seq(ClientFrames)
    BY <2>1, <1>5, ArrivedFirst
  <2>3. toClient' \in [Slots -> Seq(ClientFrames)]
    BY <1>2, <2>1, <2>2
  <2>4. inHand' \in [Slots -> Batches]
    BY <1>2, NoBatchType DEF DeliveryInv, DeliveryTyped
  <2>5. serverOpen' \in [Slots -> BOOLEAN]
    BY <1>2 DEF DeliveryInv, DeliveryTyped
  <2>6. applied' \in Nat /\ confirmed' \in Nat
    BY <1>3 DEF DeliveryInv, DeliveryTyped
  <2> QED
    BY <2>3, <2>4, <2>5, <2>6 DEF DeliveryInv, DeliveryTyped
<1>7. LogOrder' /\ spooled <= spooled' /\ applied <= applied' /\ confirmed <= confirmed'
  BY <1>3 DEF DeliveryInv, DeliveryTyped, LogOrder
<1>8. /\ inHand'[s] = NoBatch
      /\ \A t \in Slots \ {s} : inHand'[t] = inHand[t] /\ toClient'[t] = toClient[t]
      /\ toClient'[s] \in {toClient[s], toClient[s] \o Responses(s, b)}
  BY <1>2 DEF DeliveryInv, DeliveryTyped
<1>9. AllOffered'
  BY <1>6, <1>7, <1>8, OffersLost DEF DeliveryInv
<1>10. HelloFirst'
  <2>1. handler[s] # "HELLO"
    BY <1>1 DEF DeliveryInv, HelloFirst, b
  <2> SUFFICES ASSUME NEW t \in Slots
               PROVE  IF handler'[t] = "HELLO"
                        THEN /\ toServer'[t] \in {<<>>, <<Frame(t, "HELLO")>>}
                             /\ inHand'[t] = NoBatch /\ toClient'[t] = <<>>
                             /\ session' = t => ~ready' /\ inbox' = <<>>
                        ELSE /\ \A i \in DOMAIN toServer'[t] : toServer'[t][i].type = "BATCH"
                             /\ handler'[t] = "NONE" => inHand'[t] = NoBatch
    BY DEF HelloFirst
  <2>2. CASE t = s
    BY <1>8, <2>1, <2>2 DEF DeliveryInv, HelloFirst
  <2>3. CASE t # s
    BY <1>8, <2>3 DEF DeliveryInv, HelloFirst
  <2> QED
    BY <2>2, <2>3
<1>11. CASE session = s
  <2>1. /\ pc \notin {"HANDSHAKE", "AWAIT_NACK"}
        /\ ~(ready /\ pc \in {"IDLE", "FLUSH", "SEND"})
        /\ (ready \/ pc = "AWAIT" => session \in Slots)
        /\ (pc \in {"SEND", "AWAIT", "AWAIT_NACK"} => ready)
    BY <1>1, <1>11 DEF DeliveryInv, Phases, AtRest, b
  <2>2. ASSUME pc = "AWAIT" PROVE AtRest' /\ AnswerOnly(YetToRead)' /\ Offered(batch)'
    <3>1. toServer[s] = <<>> /\ b = batch /\ YetToRead = <<>> /\ Offered(batch)
      BY <1>1, <1>11, <2>2 DEF DeliveryInv, Phases, AtRest, b
    <3>2. AtRest'
      BY <1>8, <1>11, <3>1 DEF AtRest
    <3>3. Offered(batch)'
      BY <3>1, <1>1, <1>6, <1>7, OfferStands DEF DeliveryInv, DeliveryTyped, Offered
    <3>4. YetToRead' \in {<<>>, Responses(s, b)}
      <4>1. inbox \in Seq(ClientFrames) /\ toClient[s] \in Seq(ClientFrames)
        BY DEF DeliveryInv, DeliveryTyped
      <4>2. CASE clientOpen[s]
        <5>1. inbox \o toClient[s] = <<>>
          BY <3>1, <1>11, <4>2 DEF YetToRead
        <5>2. inbox = <<>> /\ toClient[s] = <<>>
          BY <5>1, <4>1, ConcatEqualIffEmpty
        <5>3. toClient'[s] \in {<<>>, Responses(s, b)}
          BY <1>5, <1>8, <5>2, ArrivedFirst
        <5>4. YetToRead' = <<>> \o toClient'[s]
          BY <1>11, <4>2, <5>2 DEF YetToRead
        <5> QED
          BY <1>5, <5>3, <5>4, EmptySeq, ConcatEmptySeq
      <4>3. CASE ~clientOpen[s]
        BY <3>1, <1>11, <4>3 DEF YetToRead
      <4> QED
        BY <4>2, <4>3
    <3>5. AnswerOnly(YetToRead)'
      <4>1. CASE YetToRead' = <<>>
        BY <4>1, EmptySeq DEF AnswerOnly
      <4>2. CASE YetToRead' = <<Ack(s, batch, batch.last)>> /\ Reached(b) = batch.last
        <5>1. Len(YetToRead') = 1 /\ YetToRead'[1] = Ack(s, batch, batch.last)
          BY <4>2
        <5>2. /\ batch.last \in batch'.first..batch'.last
              /\ YetToRead'[1] = Ack(session', batch', batch.last) /\ batch.last <= confirmed'
          BY <1>3, <1>4, <1>11, <3>1, <4>2, <5>1
        <5>3. Acknowledges(YetToRead[1])'
          BY <5>2 DEF Acknowledges
        <5> QED
          BY <5>1, <5>3 DEF AnswerOnly
      <4>3. CASE YetToRead' = <<Ack(s, batch, Reached(b)), Nack(s, batch)>>
                 /\ Reached(b) \in batch.first..(batch.last - 1)
        <5>1. /\ Len(YetToRead') = 2 /\ YetToRead'[1] = Ack(s, batch, Reached(b))
              /\ YetToRead'[2] = Nack(s, batch)
          BY <4>3
        <5>2. DeniedNow'
          BY <1>3, <1>4, <3>1, <4>3 DEF DeniedNow
        <5>3. /\ Reached(b) \in batch'.first..batch'.last
              /\ YetToRead'[1] = Ack(session', batch', Reached(b)) /\ Reached(b) <= confirmed'
          BY <1>3, <1>4, <1>11, <3>1, <4>3, <5>1
        <5>4. Acknowledges(YetToRead[1])'
          BY <5>2, <5>3 DEF Acknowledges
        <5>5. YetToRead'[1].seq # batch'.last /\ YetToRead'[2] = Nack(session', batch')
          BY <1>3, <1>4, <1>11, <3>1, <4>3, <5>1 DEF Ack
        <5> QED
          BY <5>1, <5>4, <5>5 DEF AnswerOnly
      <4>4. CASE YetToRead' = <<Nack(s, batch)>> /\ Reached(b) < batch.first
        <5>1. Len(YetToRead') = 1 /\ YetToRead'[1] = Nack(session', batch')
          BY <1>11, <4>4
        <5>2. DeniedNow'
          BY <1>3, <1>4, <3>1, <4>4 DEF DeniedNow
        <5>3. NackOnly(YetToRead)'
          BY <5>1, <5>2 DEF NackOnly
        <5> QED
          BY <5>1, <5>3 DEF AnswerOnly
      <4> QED
        BY <1>5, <3>1, <3>4, <4>1, <4>2, <4>3, <4>4
    <3> QED
      BY <3>2, <3>3, <3>5
  <2>3. pc = "AWAIT" => acked' + 1 = batch'.first
    BY DEF DeliveryInv, Phases
  <2>4. Phases'
    BY <1>11, <2>1, <2>2, <2>3 DEF Phases
  <2>5. OnlyHonestStops'
    BY <1>6, <1>7, DeliveryAssumption DEF DeliveryInv, DeliveryTyped, OnlyHonestStops
  <2> QED
    BY <1>6, <1>7, <1>9, <1>10, <2>4, <2>5 DEF DeliveryInv
<1>12. CASE session # s
  <2>1. session \in Slots => Shortened(YetToRead', YetToRead)
    BY <1>6, <1>8, <1>12, ArrivingStands DEF DeliveryInv
  <2>2. session \in Slots => inHand'[session] = inHand[session]
    BY <1>8, <1>12
  <2> QED
    BY <1>6, <1>7, <1>9, <1>10, <2>1, <2>2, ClientUndisturbed
<1> QED
  BY <1>11, <1>12

-----------------------------------------------------------------------------
(* The client's steps.                                                     *)

LEMMA ReleasedType ==
  ASSUME DeliveryTyped
  PROVE  Released \in [Slots -> BOOLEAN] /\ \A s \in Slots : Released[s] => clientOpen[s]
BY DEF DeliveryTyped, Released

(* The client touches nothing of the receiver's.                           *)
LEMMA ClientHello ==
  ASSUME HelloFirst, UNCHANGED <<toServer, toClient, handler, inHand>>,
         \A s \in Slots : handler[s] = "HELLO" /\ session' = s => ~ready' /\ inbox' = <<>>
  PROVE  HelloFirst'
BY DEF HelloFirst

LEMMA ClientOffers ==
  ASSUME AllOffered, UNCHANGED <<toServer, inHand, applied, spooled>>
  PROVE  AllOffered'
BY DEF AllOffered, Offered

(* A step that only moves the program counter to where nothing is promised,*)
(* or from one place without a frame in flight to another.                 *)
LEMMA OnlyThePc ==
  ASSUME DeliveryInv,
         UNCHANGED <<spoolVars, applied, confirmed, denies, error, session, batch, inbox,
                     linkVars, serverVars>>,
         \/ pc' = "RETRY" /\ ready' = ready
         \/ pc' = "FLUSH" /\ ready' = FALSE
         \/ pc \in {"IDLE", "FLUSH", "SEND"} /\ pc' \in {"IDLE", "FLUSH"} /\ ready' = ready
  PROVE  DeliveryInv'
<1> USE DEF spoolVars, linkVars, serverVars
<1>1. DeliveryTyped'
  BY DEF DeliveryInv, DeliveryTyped
<1>2. LogOrder' /\ AllOffered' /\ OnlyHonestStops'
  BY ClientOffers DEF DeliveryInv, LogOrder, OnlyHonestStops
<1>3. HelloFirst'
  BY ClientHello DEF DeliveryInv, HelloFirst
<1>4. YetToRead' = YetToRead /\ AtRest' = AtRest
  BY DEF YetToRead, AtRest
<1>5. Phases'
  BY <1>4 DEF DeliveryInv, Phases
<1> QED
  BY <1>1, <1>2, <1>3, <1>5 DEF DeliveryInv

LEMMA PcStepsKeep ==
  ASSUME DeliveryInv,
         BeginFlush \/ NothingPending \/ ReceiveClosed \/ ReceiveTimeout \/ Retry
  PROVE  DeliveryInv'
<1> USE DEF spoolVars, storeVars, linkVars, serverVars
<1>1. CASE BeginFlush
  BY <1>1, OnlyThePc DEF BeginFlush
<1>2. CASE NothingPending
  BY <1>2, OnlyThePc DEF NothingPending, Sending
<1>3. CASE ReceiveClosed
  BY <1>3, OnlyThePc DEF ReceiveClosed
<1>4. CASE ReceiveTimeout
  BY <1>4, OnlyThePc DEF ReceiveTimeout
<1>5. CASE Retry
  BY <1>5, OnlyThePc DEF Retry
<1> QED
  BY <1>1, <1>2, <1>3, <1>4, <1>5

(* A step that ends the client's connection or its run.                    *)
LEMMA EndOfConnection ==
  ASSUME DeliveryInv,
         UNCHANGED <<spoolVars, applied, confirmed, denies, batch, serverOpen, toServer, toClient,
                     serverVars>>,
         clientOpen' = Released, pc' \in {"RETRY", "STOPPED", "IDLE"},
         \/ session' = session /\ ready' = ready /\ inbox' = inbox /\ pc' # "IDLE"
         \/ session' = session /\ ready' = ready /\ inbox # <<>> /\ inbox' = Tail(inbox) /\ pc' # "IDLE"
         \/ session' = None /\ ready' = FALSE /\ inbox' = <<>>,
         OnlyHonestStops'
  PROVE  DeliveryInv'
<1> USE DEF spoolVars, serverVars
<1>1. inbox' \in Seq(ClientFrames)
  <2>1. inbox \in Seq(ClientFrames)
    BY DEF DeliveryInv, DeliveryTyped
  <2>2. inbox # <<>> => Tail(inbox) \in Seq(ClientFrames)
    BY <2>1, HeadTailProperties
  <2> QED
    BY <2>1, <2>2, EmptySeq
<1>2. DeliveryTyped'
  BY <1>1, ReleasedType DEF DeliveryInv, DeliveryTyped
<1>3. LogOrder' /\ AllOffered'
  BY ClientOffers DEF DeliveryInv, LogOrder
<1>4. HelloFirst'
  <2>1. ASSUME NEW s \in Slots, handler[s] = "HELLO", session' = s
        PROVE  ~ready' /\ inbox' = <<>>
    BY <2>1, DeliveryAssumption DEF DeliveryInv, HelloFirst
  <2> QED
    BY <2>1, ClientHello DEF DeliveryInv
<1>5. Phases'
  BY DeliveryAssumption DEF DeliveryInv, Phases
<1> QED
  BY <1>2, <1>3, <1>4, <1>5 DEF DeliveryInv

LEMMA ConnectRefusedKeeps == ASSUME DeliveryInv, ConnectRefused PROVE DeliveryInv'
<1>1. OnlyHonestStops'
  BY DEF ConnectRefused, storeVars, DeliveryInv, OnlyHonestStops
<1> QED
  BY <1>1, EndOfConnection DEF ConnectRefused, spoolVars, storeVars, serverVars

LEMMA GiveUpKeeps == ASSUME DeliveryInv, GiveUp PROVE DeliveryInv'
<1>1. OnlyHonestStops'
  BY DEF GiveUp, Stop, storeVars, DeliveryInv, OnlyHonestStops
<1> QED
  BY <1>1, EndOfConnection DEF GiveUp, Stop, spoolVars, storeVars, serverVars

LEMMA WorkerRestartKeeps == ASSUME DeliveryInv, WorkerRestart PROVE DeliveryInv'
<1>1. OnlyHonestStops'
  BY DEF WorkerRestart, OnlyHonestStops
<1> QED
  BY <1>1, EndOfConnection DEF WorkerRestart, spoolVars, storeVars, serverVars

(* The frame read is the first of those that arrive.                       *)
LEMMA FirstArrives ==
  ASSUME DeliveryTyped, session \in Slots, inbox # <<>>
  PROVE  /\ Head(inbox) = YetToRead[1] /\ Len(YetToRead) >= 1 /\ Tail(inbox) \in Seq(ClientFrames)
         /\ Len(YetToRead) \in Nat /\ Head(inbox) \in ClientFrames
<1>1. toClient[session] \in Seq(ClientFrames) /\ inbox \in Seq(ClientFrames)
  BY DEF DeliveryTyped
<1> QED
  BY <1>1, ReadFrame, ArrivingType DEF YetToRead

(* An answer to the batch is one flushPending accepts.                     *)
LEMMA AnswerAccepted ==
  ASSUME DeliveryInv, pc = "AWAIT", inbox # <<>>
  PROVE  LET f == Head(inbox)
         IN  \/ /\ Refusal(f) = "NONE" /\ Acknowledges(f) /\ AnswerOnly(YetToRead)
                /\ f.seq \in batch.first..batch.last /\ f.seq <= confirmed /\ acked <= f.seq
             \/ Refusal(f) = "E_OFFLINE_NACK" /\ DeniedNow
<1> DEFINE f == Head(inbox)
<1>1. session \in Slots /\ DeliveryTyped /\ LogOrder /\ batch \in Batches
  BY DEF DeliveryInv, Phases, DeliveryTyped
<1>2. f = YetToRead[1] /\ Len(YetToRead) >= 1 /\ Len(YetToRead) \in Nat
  BY <1>1, FirstArrives
<1>3. AnswerOnly(YetToRead) /\ acked + 1 = batch.first /\ Offered(batch)
  <2>1. YetToRead # <<>>
    BY <1>2, EmptySeq
  <2> QED
    BY <2>1 DEF DeliveryInv, Phases
<1> HIDE DEF f
<1>4. CASE Acknowledges(f)
  <2>1. PICK n \in batch.first..batch.last :
          f = Ack(session, batch, n) /\ n <= confirmed /\ (n # batch.last => DeniedNow)
    BY <1>4 DEF Acknowledges
  <2>2. f.slot = session /\ f.type = "ACK" /\ f.id = batch.id /\ f.seq = n
    BY <2>1 DEF Ack
  <2>3. n \in acked..spooled /\ n <= confirmed /\ acked <= n
    BY <1>1, <1>3, <2>1 DEF DeliveryTyped, LogOrder, Batches
  <2>4. Refusal(f) = "NONE"
    BY <2>1, <2>2, <2>3 DEF Refusal, Genuine
  <2> QED
    BY <1>3, <1>4, <2>1, <2>2, <2>3, <2>4 DEF f
<1>5. CASE NackOnly(YetToRead)
  <2>3. Len(YetToRead) <= 1
    BY <1>5 DEF NackOnly
  <2>4. Len(YetToRead) \in Nat /\ Len(YetToRead) >= 1
    BY <1>2
  <2>5. \A n \in Nat : n >= 1 /\ n <= 1 => n = 1
    OBVIOUS
  <2>0. Len(YetToRead) = 1
    BY <2>3, <2>4, <2>5, Zenon
  <2>1. f = Nack(session, batch) /\ DeniedNow
    BY <1>2, <1>5, <2>0 DEF NackOnly
  <2>2. Refusal(f) = "E_OFFLINE_NACK"
    BY <2>1 DEF Refusal, Genuine, Nack
  <2> QED
    BY <2>1, <2>2 DEF f
<1> QED
  BY <1>2, <1>3, <1>4, <1>5 DEF AnswerOnly

LEMMA JustOne == ASSUME NEW n \in Nat, n >= 1, n <= 1 PROVE n = 1
OBVIOUS

LEMMA ReceiveRefusedKeeps == ASSUME DeliveryInv, ReceiveRefused PROVE DeliveryInv'
<1> DEFINE code == Refusal(Head(inbox))
<1>1. pc \in {"AWAIT", "AWAIT_NACK"} /\ inbox # <<>> /\ UNCHANGED applied
  BY DEF ReceiveRefused, storeVars
<1>2. CASE pc = "AWAIT"
  <2>1. error' = code /\ code # "NONE"
    BY <1>2 DEF ReceiveRefused, Stop
  <2>2. code = "E_OFFLINE_NACK" /\ DeniedNow
    BY <1>1, <1>2, <2>1, AnswerAccepted
  <2> QED
    BY <1>1, <1>2, <2>1, <2>2, EndOfConnection
       DEF ReceiveRefused, Stop, OnlyHonestStops, DeniedNow, spoolVars, storeVars, serverVars
<1>3. CASE pc = "AWAIT_NACK"
  <2>1. session \in Slots /\ NackOnly(YetToRead)
    BY <1>3 DEF DeliveryInv, Phases
  <2>2. Head(inbox) = YetToRead[1] /\ Len(YetToRead) >= 1 /\ Len(YetToRead) \in Nat
    BY <1>1, <2>1, FirstArrives DEF DeliveryInv
  <2>0. Len(YetToRead) = 1
    <3>1. Len(YetToRead) <= 1
      BY <2>1 DEF NackOnly
    <3> QED
      BY <2>2, <3>1, JustOne
  <2>3. Head(inbox) = Nack(session, batch) /\ DeniedNow
    BY <2>0, <2>1, <2>2 DEF NackOnly
  <2>4. code = "E_OFFLINE_NACK"
    BY <2>3 DEF Refusal, Genuine, Nack
  <2>5. error' = code
    BY <1>3, <2>4 DEF ReceiveRefused, Stop
  <2> QED
    BY <1>1, <1>3, <2>3, <2>4, <2>5, EndOfConnection
       DEF ReceiveRefused, Stop, OnlyHonestStops, DeniedNow, spoolVars, storeVars, serverVars
<1> QED
  BY <1>1, <1>2, <1>3

(* The READY_ACK ends the handshake with nothing in flight.                *)
LEMMA FinishHandshakeKeeps == ASSUME DeliveryInv, FinishHandshake PROVE DeliveryInv'
<1> USE DEF spoolVars, storeVars, serverVars
<1>1. /\ pc = "HANDSHAKE" /\ inbox # <<>> /\ inbox' = Tail(inbox) /\ session' = session
      /\ batch' = batch /\ acked' = acked
      /\ UNCHANGED <<spooled, applied, confirmed, denies, serverOpen, toServer, toClient,
                     handler, inHand, active>>
  BY DEF FinishHandshake
<1>2. /\ session \in Slots /\ ~ready /\ inHand[session] = NoBatch
      /\ handler[session] # "HELLO" => toServer[session] = <<>>
      /\ ReadyAckOnly(YetToRead)
  BY <1>1 DEF DeliveryInv, Phases
<1>3. /\ Head(inbox) = YetToRead[1] /\ Len(YetToRead) \in Nat /\ Len(YetToRead) >= 1
      /\ Tail(inbox) \in Seq(ClientFrames)
  BY <1>1, <1>2, FirstArrives DEF DeliveryInv
<1>4. Len(YetToRead) = 1
  <2>1. Len(YetToRead) <= 1
    BY <1>2 DEF ReadyAckOnly
  <2>2. Len(YetToRead) \in Nat /\ Len(YetToRead) >= 1
    BY <1>3
  <2> QED
    BY <2>1, <2>2, JustOne
<1>5. Genuine(Head(inbox))
  BY <1>2, <1>3, <1>4 DEF ReadyAckOnly, Genuine, Frame
<1>6. ready' = TRUE /\ pc' = "SEND" /\ error' = error /\ clientOpen' = clientOpen
  BY <1>5 DEF FinishHandshake
<1>7. DeliveryTyped'
  BY <1>1, <1>3, <1>6 DEF DeliveryInv, DeliveryTyped
<1>8. LogOrder' /\ AllOffered' /\ OnlyHonestStops'
  BY <1>1, <1>6, ClientOffers DEF DeliveryInv, LogOrder, OnlyHonestStops
<1>9. handler[session] # "HELLO"
  BY <1>1, <1>2 DEF DeliveryInv, HelloFirst
<1>10. HelloFirst'
  BY <1>1, <1>9, ClientHello DEF DeliveryInv
<1>11. YetToRead' = <<>>
  <2>1. inbox \in Seq(ClientFrames) /\ toClient[session] \in Seq(ClientFrames)
    BY <1>2 DEF DeliveryInv, DeliveryTyped
  <2>2. CASE clientOpen[session]
    <3>1. YetToRead' = Tail(inbox) \o toClient[session] /\ YetToRead = inbox \o toClient[session]
      BY <1>1, <1>6, <2>2 DEF YetToRead
    <3>2. YetToRead' \in Seq(ClientFrames) /\ Len(YetToRead') = 0
      BY <3>1, <2>1, <1>1, <1>4, ReadFrame
    <3> QED
      BY <3>2, EmptySeq
  <2>3. CASE ~clientOpen[session]
    <3>1. YetToRead' = Tail(inbox) /\ YetToRead = inbox
      BY <1>1, <1>6, <2>3 DEF YetToRead
    <3>2. YetToRead' \in Seq(ClientFrames) /\ Len(YetToRead') = 0
      BY <3>1, <2>1, <1>1, <1>4, ReadFrame
    <3> QED
      BY <3>2, EmptySeq
  <2> QED
    BY <2>2, <2>3
<1>12. AtRest'
  BY <1>1, <1>2, <1>9 DEF AtRest
<1>13. Phases'
  BY <1>1, <1>2, <1>6, <1>11, <1>12 DEF Phases
<1> QED
  BY <1>7, <1>8, <1>10, <1>13 DEF DeliveryInv

(* After a full ACK nothing is in flight; after a partial one, a NACK.     *)
LEMMA ReceiveAckKeeps == ASSUME DeliveryInv, ReceiveAck PROVE DeliveryInv'
<1> DEFINE f == Head(inbox)
<1> USE DEF spoolVars, storeVars, serverVars, linkVars
<1>1. /\ pc = "AWAIT" /\ inbox # <<>> /\ inbox' = Tail(inbox) /\ session' = session
      /\ batch' = batch /\ acked' = f.seq /\ Refusal(f) = "NONE" /\ ready' = ready
      /\ error' = error
      /\ UNCHANGED <<spooled, applied, confirmed, denies, clientOpen, serverOpen, toServer,
                     toClient, handler, inHand, active>>
      /\ IF f.seq = batch.last THEN pc' = "FLUSH" ELSE pc' = "AWAIT_NACK"
  BY DEF ReceiveAck
<1>2. /\ Acknowledges(f) /\ AnswerOnly(YetToRead) /\ f.seq \in batch.first..batch.last
      /\ f.seq <= confirmed /\ acked <= f.seq
  BY <1>1, AnswerAccepted
<1>3. /\ session \in Slots /\ ready /\ batch \in Batches /\ YetToRead # <<>>
      /\ Head(inbox) = YetToRead[1] /\ Len(YetToRead) \in Nat /\ Len(YetToRead) >= 1
      /\ Tail(inbox) \in Seq(ClientFrames)
  BY <1>1, FirstArrives, EmptySeq DEF DeliveryInv, Phases, DeliveryTyped
<1>4. AtRest
  BY <1>1, <1>3 DEF DeliveryInv, Phases
<1>5. f.seq \in Nat /\ (f.seq # batch.last => DeniedNow)
  BY <1>2, <1>3 DEF Acknowledges, Ack, Batches
<1>6. DeliveryTyped'
  BY <1>1, <1>3, <1>5 DEF DeliveryInv, DeliveryTyped
<1>7. LogOrder' /\ AllOffered' /\ OnlyHonestStops'
  BY <1>1, <1>2, ClientOffers DEF DeliveryInv, LogOrder, OnlyHonestStops
<1>8. HelloFirst'
  <2>1. handler[session] # "HELLO"
    BY <1>3 DEF DeliveryInv, HelloFirst
  <2> QED
    BY <1>1, <2>1, ClientHello DEF DeliveryInv
<1>9. /\ YetToRead' \in Seq(ClientFrames) /\ Len(YetToRead') = Len(YetToRead) - 1
      /\ Len(YetToRead') = 1 => YetToRead'[1] = YetToRead[2]
  <2>1. inbox \in Seq(ClientFrames) /\ toClient[session] \in Seq(ClientFrames)
    BY <1>3 DEF DeliveryInv, DeliveryTyped
  <2>2. CASE clientOpen[session]
    <3>1. YetToRead' = Tail(inbox) \o toClient[session] /\ YetToRead = inbox \o toClient[session]
      BY <1>1, <2>2 DEF YetToRead
    <3> QED
      BY <3>1, <2>1, <1>1, ReadFrame
  <2>3. CASE ~clientOpen[session]
    <3>1. YetToRead' = Tail(inbox) /\ YetToRead = inbox
      BY <1>1, <2>3 DEF YetToRead
    <3> QED
      BY <3>1, <2>1, <1>1, ReadFrame
  <2> QED
    BY <2>2, <2>3
<1>10. AtRest'
  BY <1>1, <1>4 DEF AtRest
<1>11. CASE f.seq = batch.last
  <2>1. Len(YetToRead) # 2 /\ Len(YetToRead) <= 2
    BY <1>2, <1>3, <1>11 DEF AnswerOnly
  <2>2. Len(YetToRead') = 0
    BY <1>3, <1>9, <2>1
  <2>3. YetToRead' = <<>>
    BY <1>9, <2>2, EmptySeq
  <2>4. Phases'
    BY <1>1, <1>3, <1>10, <1>11, <2>3 DEF Phases
  <2> QED
    BY <1>6, <1>7, <1>8, <2>4 DEF DeliveryInv
<1>12. CASE f.seq # batch.last
  <2>1. Len(YetToRead) <= 2 /\ (Len(YetToRead) = 2 => YetToRead[2] = Nack(session, batch))
    BY <1>2 DEF AnswerOnly
  <2>2. Len(YetToRead') <= 1 /\ (Len(YetToRead') = 1 => YetToRead'[1] = Nack(session', batch'))
    BY <1>1, <1>3, <1>9, <2>1
  <2>3. DeniedNow'
    BY <1>1, <1>5, <1>12 DEF DeniedNow
  <2>4. NackOnly(YetToRead)'
    BY <2>2, <2>3 DEF NackOnly
  <2>5. Phases'
    BY <1>1, <1>3, <1>10, <1>12, <2>4 DEF Phases
  <2> QED
    BY <1>6, <1>7, <1>8, <2>5 DEF DeliveryInv
<1> QED
  BY <1>11, <1>12

(* A batch is sent on a connection with nothing in flight.                 *)
LEMMA SendBatchKeeps == ASSUME DeliveryInv, SendBatch PROVE DeliveryInv'
<1> USE DEF spoolVars, storeVars, serverVars
<1>1. /\ session \in Slots /\ ready /\ AtRest /\ YetToRead = <<>>
      /\ DeliveryTyped /\ LogOrder /\ acked < spooled
  BY DEF SendBatch, Sending, Connected, DeliveryInv, Phases
<1>2. CASE ~clientOpen[session]
  BY <1>2, OnlyThePc DEF SendBatch, linkVars
<1>3. CASE clientOpen[session]
  <2>1. /\ batch' = Pending /\ pc' = "AWAIT"
        /\ toServer' = IF serverOpen[session]
                         THEN [toServer EXCEPT ![session] = Append(@, BatchFrame(session, batch'))]
                         ELSE toServer
        /\ UNCHANGED <<spooled, acked, applied, confirmed, denies, error, session, ready, inbox,
                       clientOpen, serverOpen, toClient, handler, inHand, active>>
    BY <1>3 DEF SendBatch
  <2>2. /\ batch' \in Batches /\ Offered(batch)' /\ Offered(batch') /\ acked' + 1 = batch'.first
    <3>1. /\ acked \in Nat /\ spooled \in Nat /\ applied \in Nat /\ confirmed \in Nat
          /\ batch.id \in {0, 1} /\ BatchSize \in Nat \ {0} /\ acked <= applied
      BY <1>1, DeliveryAssumption DEF DeliveryTyped, Batches, LogOrder
    <3>2. /\ batch'.first = acked + 1 /\ batch'.last = Smaller(acked + BatchSize, spooled)
          /\ batch'.id = 1 - batch.id /\ batch' \in Batches
      BY <2>1, <3>1 DEF Pending, Batch, Smaller, Batches
    <3>3. batch'.last \in Nat /\ batch'.first <= batch'.last /\ batch'.last <= spooled
      BY <1>1, <3>1, <3>2 DEF Smaller
    <3> QED
      BY <2>1, <3>1, <3>2, <3>3 DEF Offered
  <2>3. /\ toServer' \in [Slots -> Seq(ServerFrames)]
        /\ \A t \in Slots : t # session => toServer'[t] = toServer[t]
        /\ toServer'[session] \in {<<>>, <<BatchFrame(session, batch')>>}
    <3>1. toServer[session] = <<>> /\ toServer \in [Slots -> Seq(ServerFrames)]
      BY <1>1 DEF AtRest, DeliveryTyped
    <3>2. BatchFrame(session, batch') \in ServerFrames
      BY <1>1, <2>2 DEF BatchFrame, ServerFrames
    <3>3. /\ Append(toServer[session], BatchFrame(session, batch')) = <<BatchFrame(session, batch')>>
          /\ Append(toServer[session], BatchFrame(session, batch')) \in Seq(ServerFrames)
      BY <3>1, <3>2
    <3> QED
      BY <1>1, <2>1, <3>1, <3>3
  <2>4. DeliveryTyped'
    BY <1>1, <2>1, <2>2, <2>3 DEF DeliveryTyped
  <2>5. LogOrder' /\ OnlyHonestStops'
    BY <2>1 DEF DeliveryInv, LogOrder, OnlyHonestStops
  <2>6. ASSUME NEW i \in DOMAIN toServer'[session]
        PROVE  toServer'[session][i] = BatchFrame(session, batch')
    <3>1. CASE toServer'[session] = <<>>
      BY <3>1, <2>6
    <3>2. CASE toServer'[session] = <<BatchFrame(session, batch')>>
      <4>1. i = 1
        BY <3>2, <2>6
      <4> QED
        BY <4>1, <3>2
    <3> QED
      BY <2>3, <3>1, <3>2
  <2>7. AllOffered'
    <3>1. inHand'[session] = NoBatch
      BY <1>1, <2>1 DEF AtRest
    <3>2. ASSUME NEW i \in DOMAIN toServer'[session]
          PROVE  Offered(toServer[session][i].batch)'
      <4>1. toServer'[session'][i].batch = batch'
        BY <2>1, <2>6, <3>2 DEF BatchFrame
      <4> QED
        BY <4>1, <2>1, <2>2 DEF Offered
    <3> SUFFICES ASSUME NEW t \in Slots
                 PROVE  /\ inHand'[t] # NoBatch => Offered(inHand[t])'
                        /\ \A i \in DOMAIN toServer'[t] :
                             toServer'[t][i].type = "BATCH" => Offered(toServer[t][i].batch)'
      BY DEF AllOffered
    <3>3. CASE t = session
      BY <2>1, <3>1, <3>2, <3>3
    <3>4. CASE t # session
      BY <2>1, <2>3, <3>4 DEF DeliveryInv, AllOffered, Offered
    <3> QED
      BY <3>3, <3>4
  <2>8. HelloFirst'
    <3>1. handler[session] # "HELLO"
      BY <1>1 DEF DeliveryInv, HelloFirst
    <3>2. \A i \in DOMAIN toServer'[session] : toServer'[session][i].type = "BATCH"
      BY <2>6 DEF BatchFrame
    <3> SUFFICES ASSUME NEW t \in Slots
                 PROVE  IF handler'[t] = "HELLO"
                          THEN /\ toServer'[t] \in {<<>>, <<Frame(t, "HELLO")>>}
                               /\ inHand'[t] = NoBatch /\ toClient'[t] = <<>>
                               /\ session' = t => ~ready' /\ inbox' = <<>>
                          ELSE /\ \A i \in DOMAIN toServer'[t] : toServer'[t][i].type = "BATCH"
                               /\ handler'[t] = "NONE" => inHand'[t] = NoBatch
      BY DEF HelloFirst
    <3>3. CASE t = session
      BY <1>1, <2>1, <3>1, <3>2, <3>3 DEF AtRest
    <3>4. CASE t # session
      BY <2>1, <2>3, <3>4 DEF DeliveryInv, HelloFirst
    <3> QED
      BY <3>3, <3>4
  <2>9. YetToRead' = <<>> /\ inHand'[session'] = NoBatch
    BY <1>1, <2>1 DEF YetToRead, AtRest
  <2>10. AnswerOnly(YetToRead)'
    BY <2>9, EmptySeq DEF AnswerOnly
  <2>11. /\ toServer'[session'] \in {<<>>, <<BatchFrame(session', batch')>>}
         /\ session' \in Slots /\ ready'
    BY <1>1, <2>1, <2>3
  <2>12. Phases'
    BY <2>1, <2>2, <2>9, <2>10, <2>11 DEF Phases, AtRest
  <2> QED
    BY <2>4, <2>5, <2>7, <2>8, <2>12 DEF DeliveryInv
<1> QED
  BY <1>2, <1>3

(* A new connection, on a slot nobody holds, starts with the HELLO.        *)
LEMMA ConnectKeeps == ASSUME DeliveryInv, Connect PROVE DeliveryInv'
<1> USE DEF spoolVars, storeVars
<1>1. PICK s \in Slots :
        /\ Free(s) /\ session' = s
        /\ clientOpen' = [Released EXCEPT ![s] = TRUE]
        /\ serverOpen' = [serverOpen EXCEPT ![s] = TRUE]
        /\ toServer' = [toServer EXCEPT ![s] = <<Frame(s, "HELLO")>>]
        /\ handler' = [handler EXCEPT ![s] = "HELLO"]
  BY DEF Connect
<1>2. /\ inbox' = <<>> /\ ready' = FALSE /\ pc' = "HANDSHAKE"
      /\ UNCHANGED <<spooled, acked, applied, confirmed, denies, error, batch, toClient, inHand, active>>
  BY DEF Connect
<1>3. handler[s] = "NONE" /\ toClient[s] = <<>> /\ inHand[s] = NoBatch
  BY <1>1 DEF Free, DeliveryInv, HelloFirst
<1>4. DeliveryTyped'
  <2>1. clientOpen' \in [Slots -> BOOLEAN] /\ serverOpen' \in [Slots -> BOOLEAN]
    BY <1>1, ReleasedType DEF DeliveryInv, DeliveryTyped
  <2>2. toServer' \in [Slots -> Seq(ServerFrames)]
    <3>1. <<Frame(s, "HELLO")>> \in Seq(ServerFrames)
      BY DEF Frame, ServerFrames
    <3> QED
      BY <1>1, <3>1 DEF DeliveryInv, DeliveryTyped
  <2>3. handler' \in [Slots -> {"NONE", "HELLO", "LOCK", "SERVING"}]
    BY <1>1 DEF DeliveryInv, DeliveryTyped
  <2>4. inbox' \in Seq(ClientFrames)
    BY <1>2, EmptySeq
  <2> QED
    BY <1>1, <1>2, <2>1, <2>2, <2>3, <2>4 DEF DeliveryInv, DeliveryTyped
<1>5. LogOrder' /\ OnlyHonestStops'
  BY <1>2 DEF DeliveryInv, LogOrder, OnlyHonestStops
<1>6. /\ toServer'[s] = <<Frame(s, "HELLO")>> /\ handler'[s] = "HELLO"
      /\ \A t \in Slots : t # s => toServer'[t] = toServer[t] /\ handler'[t] = handler[t]
  BY <1>1 DEF DeliveryInv, DeliveryTyped
<1>7. AllOffered'
  <2> SUFFICES ASSUME NEW t \in Slots
               PROVE  /\ inHand'[t] # NoBatch => Offered(inHand[t])'
                      /\ \A i \in DOMAIN toServer'[t] :
                           toServer'[t][i].type = "BATCH" => Offered(toServer[t][i].batch)'
    BY DEF AllOffered
  <2>1. CASE t = s
    <3>1. \A i \in DOMAIN toServer'[t] : toServer'[t][i] = Frame(s, "HELLO")
      BY <1>6, <2>1
    <3> QED
      BY <1>2, <1>3, <2>1, <3>1 DEF Frame
  <2>2. CASE t # s
    BY <1>2, <1>6, <2>2 DEF DeliveryInv, AllOffered, Offered
  <2> QED
    BY <2>1, <2>2
<1>8. HelloFirst'
  <2> SUFFICES ASSUME NEW t \in Slots
               PROVE  IF handler'[t] = "HELLO"
                        THEN /\ toServer'[t] \in {<<>>, <<Frame(t, "HELLO")>>}
                             /\ inHand'[t] = NoBatch /\ toClient'[t] = <<>>
                             /\ session' = t => ~ready' /\ inbox' = <<>>
                        ELSE /\ \A i \in DOMAIN toServer'[t] : toServer'[t][i].type = "BATCH"
                             /\ handler'[t] = "NONE" => inHand'[t] = NoBatch
    BY DEF HelloFirst
  <2>1. CASE t = s
    BY <1>2, <1>3, <1>6, <2>1
  <2>2. CASE t # s
    BY <1>1, <1>2, <1>6, <2>2 DEF DeliveryInv, HelloFirst
  <2> QED
    BY <2>1, <2>2
<1>9. YetToRead' = <<>>
  <2>1. toClient'[session'] = <<>>
    BY <1>1, <1>2, <1>3
  <2> QED
    BY <1>2, <2>1, EmptySeq, ConcatEmptySeq DEF YetToRead
<1>10. ReadyAckOnly(YetToRead)'
  BY <1>9, EmptySeq DEF ReadyAckOnly
<1>11. Phases'
  BY <1>1, <1>2, <1>3, <1>6, <1>10 DEF Phases
<1> QED
  BY <1>4, <1>5, <1>7, <1>8, <1>11 DEF DeliveryInv

-----------------------------------------------------------------------------
LEMMA DeliveryInit == Init => DeliveryInv
<1> SUFFICES ASSUME Init PROVE DeliveryInv
  OBVIOUS
<1> USE DEF Init
<1>1. DeliveryTyped
  <2>1. /\ clientOpen \in [Slots -> BOOLEAN] /\ serverOpen \in [Slots -> BOOLEAN]
        /\ handler \in [Slots -> {"NONE", "HELLO", "LOCK", "SERVING"}]
    OBVIOUS
  <2>2. toServer \in [Slots -> Seq(ServerFrames)]
    BY EmptySeq
  <2>3. toClient \in [Slots -> Seq(ClientFrames)] /\ inbox \in Seq(ClientFrames)
    BY EmptySeq
  <2>4. inHand \in [Slots -> Batches] /\ batch \in Batches
    BY NoBatchType
  <2> QED
    BY <2>1, <2>2, <2>3, <2>4 DEF DeliveryTyped
<1>2. LogOrder /\ OnlyHonestStops
  BY DEF LogOrder, OnlyHonestStops
<1>3. AllOffered /\ HelloFirst
  BY DEF AllOffered, HelloFirst
<1>4. Phases
  BY DEF Phases
<1> QED
  BY <1>1, <1>2, <1>3, <1>4 DEF DeliveryInv

LEMMA DeliveryStep == DeliveryInv /\ [Next]_vars => DeliveryInv'
<1> SUFFICES ASSUME DeliveryInv, [Next]_vars PROVE DeliveryInv'
  OBVIOUS
<1>1. CASE UNCHANGED vars
  BY <1>1 DEF vars, DeliveryInv, DeliveryTyped, LogOrder, AllOffered, Offered, HelloFirst,
              Phases, YetToRead, AtRest, DeniedNow, ReadyAckOnly, NackOnly, Acknowledges,
              AnswerOnly, OnlyHonestStops
<1>2. CASE SpoolRecord
  BY <1>2, SpoolRecordKeeps
<1>3. CASE Client
  BY <1>3, PcStepsKeep, ConnectKeeps, ConnectRefusedKeeps, FinishHandshakeKeeps, SendBatchKeeps,
     ReceiveAckKeeps, ReceiveRefusedKeeps, GiveUpKeeps DEF Client
<1>4. CASE ReceiveTimeout
  BY <1>4, PcStepsKeep
<1>5. ASSUME NEW s \in Slots, Receiver(s) PROVE DeliveryInv'
  BY <1>5, AnswerHelloKeeps, ActivateKeeps, TakeBatchKeeps, ProcessBatchKeeps,
     RejectReplacedKeeps, HandlerEndsKeeps DEF Receiver
<1>6. ASSUME NEW s \in Slots, Network(s) PROVE DeliveryInv'
  BY <1>6, DeliverKeeps, ServerSeesCloseKeeps, ClientSeesCloseKeeps DEF Network
<1>7. ASSUME NEW s \in Slots, Reset(s) PROVE DeliveryInv'
  BY <1>7, ResetKeeps
<1>8. CASE ReceiverCrash \/ ReceiverStart \/ WorkerRestart
  BY <1>8, ReceiverCrashKeeps, ReceiverStartKeeps, WorkerRestartKeeps
<1> QED
  BY <1>1, <1>2, <1>3, <1>4, <1>5, <1>6, <1>7, <1>8 DEF Next

(* The inductive invariant of delivery.                                    *)
THEOREM DeliveryInvariant == Spec => []DeliveryInv
BY DeliveryInit, DeliveryStep, PTL DEF Spec

(* However connections close, time out and are replaced and however often  *)
(* worker and receiver come back, flushPending (loopback.ts) gives up only *)
(* for want of a connection or on a NACK of a write the store denied; no   *)
(* answer of this receiver is refused as a frame, identity or range.       *)
THEOREM HonestStops == Spec => []OnlyHonestStops
<1>1. DeliveryInv => OnlyHonestStops
  BY DEF DeliveryInv
<1> QED
  BY <1>1, DeliveryInvariant, PTL

-----------------------------------------------------------------------------
(* The refinement of DeliveryLog.                                          *)

LEMMA StoreStep ==
  ASSUME DeliveryTyped, LogOrder, LogOrder', DeliveryTyped',
         UNCHANGED <<spooled, acked>>, applied <= applied', confirmed <= confirmed'
  PROVE  Log!Store
BY DEF DeliveryTyped, LogOrder, Log!Store

(* Each step of delivery adds, stores or acknowledges, or does none of it. *)
LEMMA LogStep ==
  DeliveryInv /\ DeliveryInv' /\ [Next]_vars
    => [Log!LogNext]_<<spooled, applied, confirmed, acked>>
<1> SUFFICES ASSUME DeliveryInv, DeliveryInv', [Next]_vars
             PROVE  Log!LogNext \/ UNCHANGED <<spooled, applied, confirmed, acked>>
  OBVIOUS
<1> USE DEF spoolVars, storeVars
<1>1. CASE UNCHANGED vars
  BY <1>1 DEF vars
<1>2. CASE SpoolRecord
  BY <1>2 DEF SpoolRecord, Log!LogNext, Log!Add
<1>3. CASE ReceiveAck
  <2>1. /\ acked' = Head(inbox).seq /\ pc = "AWAIT" /\ inbox # <<>>
        /\ Refusal(Head(inbox)) = "NONE" /\ UNCHANGED <<spooled, applied, confirmed>>
    BY <1>3 DEF ReceiveAck
  <2>2. Head(inbox).seq <= confirmed /\ acked <= Head(inbox).seq
    BY <2>1, AnswerAccepted
  <2>3. acked' \in Nat /\ acked \in Nat /\ confirmed \in Nat
    BY DEF DeliveryInv, DeliveryTyped
  <2>4. Log!Acknowledge
    BY <2>1, <2>2, <2>3 DEF Log!Acknowledge
  <2> QED
    BY <2>4 DEF Log!LogNext
<1>4. CASE Client /\ ~ReceiveAck
  BY <1>4 DEF Client, BeginFlush, Connect, ConnectRefused, FinishHandshake, NothingPending,
              SendBatch, ReceiveRefused, ReceiveClosed, Retry, GiveUp
<1>5. CASE ReceiveTimeout \/ ReceiverStart \/ WorkerRestart
  BY <1>5 DEF ReceiveTimeout, ReceiverStart, WorkerRestart
<1>6. ASSUME NEW s \in Slots, ProcessBatch(s)
      PROVE  Log!LogNext
  <2>1. inHand[s] \in Batches /\ Offered(inHand[s])
    BY <1>6 DEF ProcessBatch, DeliveryInv, DeliveryTyped, AllOffered
  <2>2. applied <= applied' /\ confirmed <= confirmed'
    BY <1>6, <2>1, ReachedBatch DEF ProcessBatch, DeliveryInv, DeliveryTyped
  <2>3. Log!Store
    BY <1>6, <2>2, StoreStep DEF ProcessBatch, DeliveryInv
  <2> QED
    BY <2>3 DEF Log!LogNext
<1>7. ASSUME NEW s \in Slots,
             (Receiver(s) /\ ~ProcessBatch(s)) \/ Network(s) \/ Reset(s)
      PROVE  UNCHANGED <<spooled, applied, confirmed, acked>>
  BY <1>7 DEF Receiver, AnswerHello, Activate, TakeBatch, RejectReplaced, HandlerEnds,
              Network, Deliver, ServerSeesClose, ClientSeesClose, Reset
<1>8. CASE ReceiverCrash
  <2>1. UNCHANGED <<spooled, acked>>
    BY <1>8 DEF ReceiverCrash
  <2>2. applied <= applied' /\ confirmed <= confirmed'
    BY <1>8, CrashStores DEF DeliveryInv
  <2>3. Log!Store
    BY <2>1, <2>2, StoreStep DEF DeliveryInv
  <2> QED
    BY <2>3 DEF Log!LogNext
<1> QED
  BY <1>1, <1>2, <1>3, <1>4, <1>5, <1>6, <1>7, <1>8 DEF Next, Client, Receiver

(* Delivery implements the log: what the spool of the extension calls      *)
(* acknowledged is confirmed, what is confirmed is stored and what is      *)
(* stored was spooled, and no failure moves any of them backward.          *)
THEOREM DeliveryImplementsLog == Spec => DeliveryIsLog
<1>1. Init => Log!LogInit
  BY DEF Init, Log!LogInit
<1> QED
  BY <1>1, LogStep, DeliveryInvariant, PTL DEF Spec, DeliveryIsLog, Log!LogSpec
===============================================================================
