---------------------------- MODULE WsHubProofs ----------------------------
(***************************************************************************)
(* The WebSocket service, for any number of connections, messages and any  *)
(* size of the buffers: what the checked runs say of a few connections.    *)
(*                                                                         *)
(* The proofs rest on two invariants.  HubInv relates a connection's       *)
(* handler to what the hub, the writer and the gauge know about it.        *)
(* Ordered says which messages may be in a buffer, given what the client   *)
(* has received.                                                           *)
(***************************************************************************)
EXTENDS WsHub, FiniteSetTheorems, TLAPS

-----------------------------------------------------------------------------
(* The invariants *)

\* Handlers whose connection the hub knows.
Known == {"connecting", "reading", "broadcasting", "unregistering"}

\* A handler registers before its writer starts, the hub knows it from then
\* until it unregisters, and the hub is only sending to sessions it knows.
Life(s) ==
  /\ writer[s] = "absent" <=> pc[s] \in {"absent", "registering", "connecting"}
  /\ s \in sessions <=> pc[s] \in Known
  /\ pc[s] \in {"disconnecting", "done"} => ~open[s]
  /\ pc[s] \in {"absent", "registering"} => output[s] = <<>> /\ received[s] = <<>>
  /\ s \in sending => s \in sessions /\ joined[s] < Len(log)

Lives == \A s \in Sessions : Life(s)

\* The connections between their connect and their disconnect handler.
Counted ==
  {s \in Sessions : pc[s] \in {"reading", "broadcasting", "unregistering", "closing",
                               "disconnecting"}}

Gauge == IsFiniteSet(Counted) /\ active = Cardinality(Counted)

HubInv == TypeOK /\ Lives /\ Gauge

-----------------------------------------------------------------------------
(* Types, lives and the gauge *)

\* A sequence of positions of the log stays one when the log grows.
LEMMA SeqWider ==
  ASSUME NEW m \in Nat, NEW n \in Nat, m <= n
  PROVE  Seq(1..m) \subseteq Seq(1..n)
<1>1. SUFFICES ASSUME NEW q \in Seq(1..m) PROVE q \in Seq(1..n)
  OBVIOUS
<1>2. \A k \in 1..Len(q) : q[k] \in 1..n
  OBVIOUS
<1> QED
  BY <1>2

\* Initially there is no connection.
LEMMA InitHub == Init => HubInv
<1> SUFFICES ASSUME Init PROVE HubInv
  OBVIOUS
<1>1. TypeOK
  BY HubAssumption DEF Init, TypeOK, Positions
<1>2. Lives
  BY DEF Init, Lives, Life, Known
<1>3. Counted = {}
  BY DEF Init, Counted
<1>4. Gauge
  BY <1>3, FS_EmptySet DEF Gauge, Init
<1> QED
  BY <1>1, <1>2, <1>4 DEF HubInv

\* The gauge is the same as long as no handler enters or leaves the part of
\* its life in which it is counted.
LEMMA GaugeSame == ASSUME Gauge, active' = active, Counted' = Counted PROVE Gauge'
BY DEF Gauge

\* A client that is upgraded is not known yet.
LEMMA UpgradeHub == ASSUME HubInv, NEW s \in Sessions, Upgrade(s) PROVE HubInv'
<1> USE DEF HubInv
<1>1. TypeOK'
  BY DEF Upgrade, TypeOK, Positions, At, Goto
<1>2. Lives'
  BY DEF Upgrade, Lives, Life, Known, At, Goto, TypeOK
<1>3. Counted' = Counted
  BY DEF Upgrade, Counted, At, Goto, TypeOK
<1> QED
  BY <1>1, <1>2, <1>3, GaugeSame DEF Upgrade

\* Registration makes a session known, with nothing to receive yet.
LEMMA RegisterHub == ASSUME HubInv, NEW s \in Sessions, Register(s) PROVE HubInv'
<1> USE DEF HubInv
<1>1. TypeOK'
  <2>1. Len(log) \in 0..Len(log)
    BY DEF TypeOK
  <2> QED
    BY <2>1 DEF Register, TypeOK, Positions, At, Goto
<1>2. Lives'
  BY DEF Register, Lives, Life, Known, At, Goto, TypeOK, HubReady
<1>3. Counted' = Counted
  BY DEF Register, Counted, At, Goto, TypeOK
<1> QED
  BY <1>1, <1>2, <1>3, GaugeSame DEF Register

\* The connect handler counts a handler that was not counted.
LEMMA OnConnectHub == ASSUME HubInv, NEW s \in Sessions, OnConnect(s) PROVE HubInv'
<1> USE DEF HubInv
<1>1. TypeOK'
  BY DEF OnConnect, TypeOK, Positions, At, Goto
<1>2. Lives'
  BY DEF OnConnect, Lives, Life, Known, At, Goto, TypeOK
<1>3. Counted' = Counted \cup {s} /\ s \notin Counted
  BY DEF OnConnect, Counted, At, Goto, TypeOK
<1>4. Gauge'
  BY <1>3, FS_AddElement DEF OnConnect, Gauge
<1> QED
  BY <1>1, <1>2, <1>4

\* The disconnect handler takes out a handler that was counted.
LEMMA OnDisconnectHub == ASSUME HubInv, NEW s \in Sessions, OnDisconnect(s) PROVE HubInv'
<1> USE DEF HubInv
<1>1. Counted' = Counted \ {s} /\ s \in Counted
  BY DEF OnDisconnect, Counted, At, Goto, TypeOK
<1>2. Gauge'
  BY <1>1, FS_RemoveElement DEF OnDisconnect, Gauge
<1>3. active' \in Nat
  BY <1>2, FS_CardinalityType DEF Gauge
<1>4. TypeOK'
  BY <1>3 DEF OnDisconnect, TypeOK, Positions, At, Goto
<1>5. Lives'
  BY DEF OnDisconnect, Lives, Life, Known, At, Goto, TypeOK
<1> QED
  BY <1>2, <1>4, <1>5

\* Reading a message, failing to, and closing the session only move the handler.
LEMMA HandlerHub ==
  ASSUME HubInv, NEW s \in Sessions, ReadMessage(s) \/ ReadError(s) \/ CloseSession(s)
  PROVE  HubInv'
<1> USE DEF HubInv
<1>1. TypeOK'
  BY DEF ReadMessage, ReadError, CloseSession, TypeOK, Positions, At, Goto
<1>2. Lives'
  BY DEF ReadMessage, ReadError, CloseSession, Lives, Life, Known, At, Goto, TypeOK
<1>3. Counted' = Counted
  BY DEF ReadMessage, ReadError, CloseSession, Counted, At, Goto, TypeOK
<1> QED
  BY <1>1, <1>2, <1>3, GaugeSame DEF ReadMessage, ReadError, CloseSession

\* A handler that unregisters is forgotten.  No message is on its way to it,
\* because the hub has sent the last one to everybody.
LEMMA UnregisterHub == ASSUME HubInv, NEW s \in Sessions, Unregister(s) PROVE HubInv'
<1> USE DEF HubInv
<1>1. TypeOK'
  BY DEF Unregister, Without, TypeOK, Positions, At, Goto
<1>2. Lives'
  BY DEF Unregister, Without, Lives, Life, Known, At, Goto, TypeOK, HubReady
<1>3. Counted' = Counted
  BY DEF Unregister, Counted, At, Goto, TypeOK
<1> QED
  BY <1>1, <1>2, <1>3, GaugeSame DEF Unregister

\* A message that the hub accepts is newer than every registration.
LEMMA AcceptHub == ASSUME HubInv, NEW s \in Sessions, Accept(s) PROVE HubInv'
<1> USE DEF HubInv
<1>1. Len(log) \in Nat /\ log' \in Seq(Sessions) /\ Len(log') = Len(log) + 1
  BY DEF Accept, TypeOK
<1>2. Seq(Positions) \subseteq Seq(Positions')
  BY <1>1, SeqWider DEF Positions
<1>3. \A t \in Sessions : joined[t] \in 0..Len(log') /\ joined[t] < Len(log')
  <2>1. \A n \in Nat : 0..n \subseteq 0..(n + 1) /\ \A k \in 0..n : k < n + 1
    OBVIOUS
  <2> QED
    BY <1>1, <2>1 DEF TypeOK
<1>4. TypeOK'
  <2>1. output' \in [Sessions -> Seq(Positions')]
    BY <1>2 DEF Accept, TypeOK
  <2>2. received' \in [Sessions -> Seq(Positions')]
    BY <1>2 DEF Accept, TypeOK
  <2>3. joined' \in [Sessions -> 0..Len(log')]
    BY <1>3 DEF Accept, TypeOK
  <2> QED
    BY <1>1, <2>1, <2>2, <2>3 DEF Accept, Recipients, TypeOK, At, Goto
<1>5. Lives'
  BY <1>3 DEF Accept, Recipients, Lives, Life, Known, At, Goto, TypeOK
<1>6. Counted' = Counted
  BY DEF Accept, Counted, At, Goto, TypeOK
<1> QED
  BY <1>4, <1>5, <1>6, GaugeSame DEF Accept

\* The hub puts a message into a buffer that has room for it, or none.
LEMMA ForwardHub == ASSUME HubInv, NEW s \in Sessions, Forward(s) PROVE HubInv'
<1> USE DEF HubInv
<1>1. Len(log) \in Positions
  BY DEF Forward, Lives, Life, TypeOK, Positions
<1>2. HasRoom(s) => Enqueued(s) \in Seq(Positions) /\ Len(Enqueued(s)) <= BufferSize
  BY <1>1, HubAssumption DEF TypeOK, HasRoom, Enqueued
<1>3. TypeOK'
  BY <1>2 DEF Forward, TypeOK, Positions
<1>4. Lives'
  BY DEF Forward, Lives, Life, Known, TypeOK
<1>5. Counted' = Counted
  BY DEF Forward, Counted
<1> QED
  BY <1>3, <1>4, <1>5, GaugeSame DEF Forward

\* A write takes the first message out of the buffer.
LEMMA WriteHub ==
  ASSUME HubInv, NEW s \in Sessions, Write(s) \/ WriteError(s)
  PROVE  HubInv'
<1> USE DEF HubInv
<1>1. /\ output[s] \in Seq(Positions) /\ output[s] # <<>>
      /\ Head(output[s]) \in Positions /\ Tail(output[s]) \in Seq(Positions)
      /\ Len(Tail(output[s])) <= BufferSize
  BY HubAssumption DEF Write, WriteError, TypeOK
<1>2. Append(received[s], Head(output[s])) \in Seq(Positions)
  BY <1>1 DEF TypeOK
<1>3. /\ output' = [output EXCEPT ![s] = Tail(output[s])]
      /\ received' \in {received, [received EXCEPT ![s] = Append(received[s], Head(output[s]))]}
      /\ writer' \in {writer, [writer EXCEPT ![s] = "failed"]}
      /\ writer[s] = "running"
      /\ UNCHANGED <<log, pc, peer, open, sessions, sending, active, joined, dropped>>
  BY DEF Write, WriteError, Written
<1>4. TypeOK'
  <2>1. output' \in [Sessions -> Seq(Positions)]
    BY <1>1, <1>3 DEF TypeOK
  <2>2. \A t \in Sessions : Len(output'[t]) <= BufferSize
    BY <1>1, <1>3 DEF TypeOK
  <2>3. received' \in [Sessions -> Seq(Positions)]
    BY <1>2, <1>3 DEF TypeOK
  <2>4. Positions' = Positions
    BY <1>3 DEF Positions
  <2> QED
    BY <1>3, <2>1, <2>2, <2>3, <2>4 DEF TypeOK
<1>5. Lives'
  <2> SUFFICES ASSUME NEW t \in Sessions PROVE Life(t)'
    BY DEF Lives
  <2>1. pc[s] \notin {"absent", "registering", "connecting"}
    BY <1>3 DEF Lives, Life
  <2>2. writer'[t] = "absent" <=> writer[t] = "absent"
    BY <1>3 DEF TypeOK
  <2>3. t # s => output'[t] = output[t] /\ received'[t] = received[t]
    BY <1>3 DEF TypeOK
  <2> QED
    BY <1>3, <2>1, <2>2, <2>3 DEF Lives, Life
<1>6. Counted' = Counted
  BY <1>3 DEF Counted
<1> QED
  BY <1>3, <1>4, <1>5, <1>6, GaugeSame

\* A writer that ends, or a client that leaves, changes nothing else.
LEMMA EndsHub ==
  ASSUME HubInv, NEW s \in Sessions, WriterClose(s) \/ WriterExit(s) \/ PeerLeaves(s)
  PROVE  HubInv'
<1> USE DEF HubInv
<1>1. TypeOK'
  BY DEF WriterClose, WriterExit, PeerLeaves, TypeOK, Positions
<1>2. Lives'
  BY DEF WriterClose, WriterExit, PeerLeaves, Lives, Life, Known, TypeOK
<1>3. Counted' = Counted
  BY DEF WriterClose, WriterExit, PeerLeaves, Counted
<1> QED
  BY <1>1, <1>2, <1>3, GaugeSame DEF WriterClose, WriterExit, PeerLeaves

\* Every step preserves the types, the lives and the gauge.
LEMMA StepHub == HubInv /\ [Next]_vars => HubInv'
<1> SUFFICES ASSUME HubInv, [Next]_vars PROVE HubInv'
  OBVIOUS
<1>1. CASE UNCHANGED vars
  BY <1>1 DEF vars, HubInv, TypeOK, Positions, Lives, Life, Gauge, Counted
<1>2. CASE Next
  <2>1. PICK s \in Sessions : Handler(s) \/ Serve(s) \/ Forward(s) \/ Writer(s) \/ Client(s)
    BY <1>2 DEF Next
  <2>2. CASE Handler(s)
    BY <2>2, OnConnectHub, HandlerHub, OnDisconnectHub DEF Handler
  <2>3. CASE Serve(s)
    BY <2>3, RegisterHub, UnregisterHub, AcceptHub DEF Serve
  <2>4. CASE Forward(s)
    BY <2>4, ForwardHub
  <2>5. CASE Writer(s)
    BY <2>5, WriteHub, EndsHub DEF Writer
  <2>6. CASE Client(s)
    BY <2>6, UpgradeHub, HandlerHub, EndsHub DEF Client
  <2> QED
    BY <2>1, <2>2, <2>3, <2>4, <2>5, <2>6
<1> QED
  BY <1>1, <1>2

\* HubInv is an invariant of the hub.
LEMMA HubInvariant == Spec => []HubInv
BY InitHub, StepHub, PTL DEF Spec

\* Every variable keeps its type; in particular, no buffer ever holds more
\* messages than its size, and the gauge never falls below zero.
THEOREM TypeCorrect == Spec => []TypeOK
<1>1. HubInv => TypeOK
  BY DEF HubInv
<1> QED
  BY <1>1, HubInvariant, PTL

\* When every connection has been handled, the hub has forgotten them all and
\* the gauge of active connections is back at zero.
THEOREM HubForgets == Spec => []NothingLeaks
<1>1. HubInv => NothingLeaks
  <2> SUFFICES ASSUME HubInv, \A s \in Sessions : pc[s] \in {"absent", "done"}
               PROVE  sessions = {} /\ active = 0
    BY DEF NothingLeaks
  <2>1. sessions = {}
    BY DEF HubInv, TypeOK, Lives, Life, Known
  <2>2. Counted = {}
    BY DEF Counted
  <2>3. active = 0
    BY <2>2, FS_EmptySet DEF HubInv, Gauge
  <2> QED
    BY <2>1, <2>3
<1> QED
  BY <1>1, HubInvariant, PTL

-----------------------------------------------------------------------------
(* Nobody misses a message *)

\* The positions from - 1 ahead of the first to k in a row.
Run(from, k) == [i \in 1..k |-> from + i]

\* Taking the first element of one sequence to the end of another changes
\* nothing in the two together.
LEMMA Handover ==
  ASSUME NEW S, NEW r \in Seq(S), NEW o \in Seq(S), o # <<>>
  PROVE  Append(r, Head(o)) \o Tail(o) = r \o o
OBVIOUS

\* What is put behind a sequence is put behind the two together.
LEMMA Behind ==
  ASSUME NEW r \in Seq(Nat), NEW o \in Seq(Nat), NEW x \in Nat
  PROVE  r \o Append(o, x) = Append(r \o o, x)
OBVIOUS

\* A run goes on with the position that comes next.
LEMMA RunGoesOn ==
  ASSUME NEW from \in Nat, NEW k \in Nat, NEW x \in Nat, x = from + k + 1,
         NEW p \in Seq(Nat), p = Run(from, k)
  PROVE  Append(p, x) = Run(from, k + 1)
<1>1. Len(p) = k /\ \A i \in 1..k : p[i] = from + i
  BY DEF Run
<1> QED
  BY <1>1 DEF Run

\* What NothingMissed says of one session, with its antecedent.
Connected(s) == s \in sessions \ dropped /\ open[s] /\ peer[s] = "up" /\ writer[s] # "failed"

Complete(s) ==
  Connected(s) => received[s] \o output[s] = Run(joined[s], Sent(s) - joined[s])

\* Nothing changes for a session that stays as it is.
LEMMA CompleteSame ==
  ASSUME NEW s \in Sessions, Complete(s), Connected(s)' => Connected(s),
         received'[s] = received[s], output'[s] = output[s], joined'[s] = joined[s],
         Sent(s)' = Sent(s)
  PROVE  Complete(s)'
BY DEF Complete

\* The induction step: in a run of the service, every connected session has
\* received or will receive one run of positions, without a gap.
LEMMA CompleteStep ==
  ASSUME HubInv, \A s \in Sessions : Complete(s), Next, NEW t \in Sessions
  PROVE  Complete(t)'
<1> USE DEF HubInv
<1>1. PICK s \in Sessions : Handler(s) \/ Serve(s) \/ Forward(s) \/ Writer(s) \/ Client(s)
  BY DEF Next
<1>2. CASE Handler(s) \/ ReadMessage(s) \/ Unregister(s) \/ Upgrade(s) \/ PeerLeaves(s)
  <2>1. received' = received /\ output' = output /\ joined' = joined /\ log' = log
        /\ sending' = sending
    BY <1>2 DEF Handler, OnConnect, ReadError, CloseSession, OnDisconnect, ReadMessage,
                Unregister, Upgrade, PeerLeaves
  <2>2. Connected(t)' => Connected(t)
    <3>1. CASE Upgrade(s)
      BY <3>1 DEF Upgrade, Connected, At, TypeOK, Lives, Life, Known
    <3>2. CASE Handler(s) \/ ReadMessage(s) \/ Unregister(s) \/ PeerLeaves(s)
      BY <3>2 DEF Handler, OnConnect, ReadError, CloseSession, OnDisconnect, ReadMessage,
                  Unregister, PeerLeaves, Without, Connected, At, TypeOK, Lives, Life
    <3> QED
      BY <1>2, <3>1, <3>2
  <2> QED
    BY <2>1, <2>2, CompleteSame DEF Sent
<1>3. CASE Register(s)
  <2>1. CASE t = s
    <3>1. received'[s] = <<>> /\ output'[s] = <<>> /\ joined'[s] = Len(log)
      BY <1>3 DEF Register, At, Lives, Life, TypeOK
    <3>2. Sent(s)' = Len(log) /\ Len(log) \in Nat
      BY <1>3 DEF Register, HubReady, Sent, TypeOK
    <3>3. Run(joined'[s], 0) = <<>>
      BY DEF Run
    <3>4. Sent(s)' - joined'[s] = 0
      BY <3>1, <3>2
    <3> QED
      BY <2>1, <3>1, <3>3, <3>4 DEF Complete
  <2>2. CASE t # s
    BY <1>3, <2>2, CompleteSame DEF Register, Connected, Sent, TypeOK
  <2> QED
    BY <2>1, <2>2
<1>4. CASE Accept(s)
  <2>1. Connected(t)' => Connected(t)
    BY <1>4 DEF Accept, Connected
  <2>2. t \in sessions => Sent(t)' = Sent(t)
    BY <1>4 DEF Accept, Recipients, HubReady, Sent, TypeOK
  <2>3. CASE t \in sessions
    BY <1>4, <2>1, <2>2, <2>3, CompleteSame DEF Accept
  <2>4. CASE t \notin sessions
    BY <1>4, <2>4 DEF Accept, Complete, Connected
  <2> QED
    BY <2>3, <2>4
<1>5. CASE Forward(s)
  <2>1. CASE t # s
    BY <1>5, <2>1, CompleteSame DEF Forward, Connected, Sent, TypeOK
  <2>2. CASE t = s /\ Connected(s)'
    <3>1. s \in sending /\ open[s] /\ output'[s] = Append(output[s], Len(log)) /\ Connected(s)
      BY <1>5, <2>2 DEF Forward, Enqueued, Connected, TypeOK
    <3> DEFINE k == Sent(s) - joined[s]
    <3>2. /\ joined[s] \in Nat /\ Len(log) \in Nat /\ Sent(s) = Len(log) - 1
          /\ joined[s] < Len(log)
      BY <3>1 DEF Sent, TypeOK, Lives, Life
    <3>3. k \in Nat /\ Len(log) = joined[s] + k + 1 /\ Len(log) - joined[s] = k + 1
      BY <3>2
    <3>4. received[s] \o output[s] = Run(joined[s], k)
      BY <3>1 DEF Complete
    <3>5. received[s] \in Seq(Nat) /\ output[s] \in Seq(Nat)
      BY DEF TypeOK, Positions
    <3> HIDE DEF k
    <3>6. received[s] \o Append(output[s], Len(log)) = Run(joined[s], k + 1)
      <4>1. received[s] \o output[s] \in Seq(Nat)
        BY <3>5
      <4>2. received[s] \o Append(output[s], Len(log)) = Append(received[s] \o output[s], Len(log))
        BY <3>2, <3>5, Behind
      <4>3. Append(received[s] \o output[s], Len(log)) = Run(joined[s], k + 1)
        BY <3>2, <3>3, <3>4, <4>1, RunGoesOn
      <4> QED
        BY <4>2, <4>3
    <3>7. Sent(s)' = Len(log) /\ joined'[s] = joined[s] /\ received'[s] = received[s]
      BY <1>5 DEF Forward, Sent
    <3> QED
      BY <2>2, <3>1, <3>3, <3>6, <3>7 DEF Complete
  <2> QED
    BY <2>1, <2>2 DEF Complete
<1>6. CASE Write(s)
  <2>1. CASE t # s
    BY <1>6, <2>1, CompleteSame DEF Write, Connected, Sent, TypeOK
  <2>2. CASE t = s /\ Connected(s)'
    <3>1. /\ received'[s] = Append(received[s], Head(output[s])) /\ output'[s] = Tail(output[s])
          /\ output[s] # <<>> /\ Connected(s)
      BY <1>6, <2>2 DEF Write, Written, Connected, TypeOK
    <3>2. received[s] \in Seq(Positions) /\ output[s] \in Seq(Positions)
      BY DEF TypeOK
    <3>3. received'[s] \o output'[s] = received[s] \o output[s]
      BY <3>1, <3>2, Handover
    <3>4. joined'[s] = joined[s] /\ Sent(s)' = Sent(s)
      BY <1>6 DEF Write, Sent
    <3> QED
      BY <2>2, <3>1, <3>3, <3>4 DEF Complete
  <2> QED
    BY <2>1, <2>2 DEF Complete
<1>7. CASE WriteError(s) \/ WriterClose(s) \/ WriterExit(s)
  <2>1. CASE t # s
    BY <1>7, <2>1, CompleteSame DEF WriteError, WriterClose, WriterExit, Connected, Sent, TypeOK
  <2>2. CASE t = s
    BY <1>7, <2>2 DEF WriteError, WriterClose, WriterExit, Complete, Connected, TypeOK
  <2> QED
    BY <2>1, <2>2
<1> QED
  BY <1>1, <1>2, <1>3, <1>4, <1>5, <1>6, <1>7 DEF Serve, Writer, Client

\* A client that keeps its connection, on which no write has failed and whose
\* buffer was never full, has received, or has in its buffer, every message
\* since its registration, each once and in order.
THEOREM ConnectedMissNothing == Spec => []NothingMissed
<1> DEFINE CompleteInv == \A s \in Sessions : Complete(s)
<1>1. Init => CompleteInv
  BY DEF Init, Complete, Connected
<1>2. HubInv /\ CompleteInv /\ [Next]_vars => CompleteInv'
  <2> SUFFICES ASSUME HubInv, CompleteInv, [Next]_vars PROVE CompleteInv'
    OBVIOUS
  <2>1. CASE UNCHANGED vars
    BY <2>1 DEF vars, Complete, Connected, Sent
  <2>2. CASE Next
    BY <2>2, CompleteStep
  <2> QED
    BY <2>1, <2>2
<1>3. HubInv /\ CompleteInv => NothingMissed
  BY DEF HubInv, TypeOK, NothingMissed, Complete, Connected, Run
<1> QED
  BY <1>1, <1>2, <1>3, HubInvariant, PTL DEF Spec

-----------------------------------------------------------------------------
(* The service implements the broadcast *)

\* What is in a client's buffer comes after what it has heard last, in
\* order, and the hub has sent it.
Ordered(s) ==
  /\ B!Last(s) <= Sent(s)
  /\ \A k \in DOMAIN output[s] : B!Last(s) < output[s][k] /\ output[s][k] <= Sent(s)
  /\ \A k, l \in DOMAIN output[s] : k < l => output[s][k] < output[s][l]

\* The numbers that Ordered compares are integers.
LEMMA OrderedTypes ==
  ASSUME TypeOK, NEW s \in Sessions
  PROVE  /\ Len(log) \in Nat /\ Sent(s) \in Int /\ B!Last(s) \in Int
         /\ output[s] \in Seq(Nat)
<1>1. received[s] \in Seq(Positions) /\ output[s] \in Seq(Positions)
  BY DEF TypeOK
<1>2. received[s] # <<>> => received[s][Len(received[s])] \in Positions
  BY <1>1
<1>3. joined[s] \in Int
  BY DEF TypeOK
<1> QED
  BY <1>1, <1>2, <1>3 DEF TypeOK, Sent, B!Last, Positions

\* A session keeps its order as long as it hears nothing and its buffer is the
\* same, whatever else the hub sends.
LEMMA OrderedSame ==
  ASSUME TypeOK, TypeOK', NEW s \in Sessions, Ordered(s),
         received'[s] = received[s], output'[s] = output[s], joined'[s] = joined[s],
         Sent(s) <= Sent(s)'
  PROVE  Ordered(s)'
<1>1. B!Last(s)' = B!Last(s)
  BY DEF B!Last
<1>2. /\ Sent(s) \in Int /\ B!Last(s) \in Int /\ output[s] \in Seq(Nat)
  BY OrderedTypes
<1>3. Sent(s)' \in Int
  BY DEF TypeOK, Sent
<1>4. B!Last(s)' <= Sent(s)'
  BY <1>1, <1>2, <1>3 DEF Ordered
<1>5. \A k \in DOMAIN output[s] : output[s][k] \in Int
  BY <1>2
<1>6. ASSUME NEW k \in DOMAIN output[s]
      PROVE  B!Last(s) < output[s][k] /\ output[s][k] <= Sent(s)'
  BY <1>2, <1>3, <1>5 DEF Ordered
<1> QED
  BY <1>1, <1>4, <1>6 DEF Ordered

\* A write takes the oldest message, the one the client hears if it is there.
LEMMA OrderedWrite ==
  ASSUME HubInv, HubInv', NEW s \in Sessions, Ordered(s), Write(s) \/ WriteError(s)
  PROVE  Ordered(s)'
<1> USE DEF HubInv
<1> DEFINE o == output[s]
<1>1. /\ output'[s] = Tail(o) /\ o # <<>> /\ joined'[s] = joined[s] /\ Sent(s)' = Sent(s)
      /\ received'[s] = received[s] \/ received'[s] = Append(received[s], Head(o))
  BY DEF Write, WriteError, Written, TypeOK, Sent
<1>2. o \in Seq(Nat) /\ B!Last(s) \in Int /\ Sent(s) \in Int /\ received[s] \in Seq(Positions)
  BY OrderedTypes DEF TypeOK
<1>3. /\ DOMAIN Tail(o) = 1..(Len(o) - 1) /\ DOMAIN o = 1..Len(o) /\ Len(o) \in Nat
      /\ Len(o) >= 1 /\ Head(o) = o[1]
      /\ \A k \in 1..(Len(o) - 1) : Tail(o)[k] = o[k + 1]
  BY <1>1, <1>2
<1>4. \A k \in DOMAIN o : o[k] \in Int
  BY <1>2
<1>5. B!Last(s)' = B!Last(s) \/ B!Last(s)' = o[1]
  <2>1. CASE received'[s] = received[s]
    BY <1>1, <2>1 DEF B!Last
  <2>2. CASE received'[s] = Append(received[s], Head(o))
    <3>1. received'[s] # <<>> /\ received'[s][Len(received'[s])] = Head(o)
      BY <1>2, <2>2
    <3> QED
      BY <1>3, <3>1 DEF B!Last
  <2> QED
    BY <1>1, <2>1, <2>2
<1>6. /\ B!Last(s) <= Sent(s)
      /\ \A k \in DOMAIN o : B!Last(s) < o[k] /\ o[k] <= Sent(s)
      /\ \A k, l \in DOMAIN o : k < l => o[k] < o[l]
  BY DEF Ordered
<1> HIDE DEF o
<1>7. B!Last(s)' <= Sent(s)'
  BY <1>1, <1>2, <1>3, <1>5, <1>6
<1>8. ASSUME NEW k \in DOMAIN Tail(o)
      PROVE  B!Last(s)' < Tail(o)[k] /\ Tail(o)[k] <= Sent(s)'
  <2>1. k + 1 \in DOMAIN o /\ 1 \in DOMAIN o /\ 1 < k + 1 /\ Tail(o)[k] = o[k + 1]
    BY <1>3
  <2> QED
    BY <1>1, <1>5, <1>6, <2>1
<1>9. ASSUME NEW k \in DOMAIN Tail(o), NEW l \in DOMAIN Tail(o), k < l
      PROVE  Tail(o)[k] < Tail(o)[l]
  <2>1. k + 1 \in DOMAIN o /\ l + 1 \in DOMAIN o /\ k + 1 < l + 1
    BY <1>3, <1>9
  <2> QED
    BY <1>3, <1>6, <2>1
<1> QED
  BY <1>1, <1>7, <1>8, <1>9 DEF Ordered

\* A message that is forwarded is newer than all that the buffer holds and
\* the client has heard.
LEMMA OrderedForward ==
  ASSUME HubInv, HubInv', NEW s \in Sessions, Ordered(s), Forward(s)
  PROVE  Ordered(s)'
<1> USE DEF HubInv
<1> DEFINE o == output[s]
<1>1. o \in Seq(Nat) /\ B!Last(s) \in Int /\ Len(log) \in Nat
  BY OrderedTypes
<1>2. Sent(s) = Len(log) - 1 /\ Sent(s)' = Len(log) /\ received' = received /\ joined' = joined
  BY DEF Forward, Sent
<1>3. CASE output'[s] = o
  BY <1>1, <1>2, <1>3, OrderedSame
<1>4. CASE output'[s] = Append(o, Len(log))
  <2> DEFINE q == Append(o, Len(log))
  <2>1. B!Last(s)' = B!Last(s)
    BY <1>2 DEF B!Last
  <2>2. /\ DOMAIN o = 1..Len(o) /\ Len(o) \in Nat /\ DOMAIN q = 1..(Len(o) + 1)
        /\ q[Len(o) + 1] = Len(log) /\ \A k \in DOMAIN o : q[k] = o[k] /\ o[k] \in Int
    BY <1>1
  <2>3. /\ B!Last(s) <= Len(log) - 1
        /\ \A k \in DOMAIN o : B!Last(s) < o[k] /\ o[k] <= Len(log) - 1
        /\ \A k, l \in DOMAIN o : k < l => o[k] < o[l]
    BY <1>2 DEF Ordered
  <2> HIDE DEF o, q
  <2>4. ASSUME NEW k \in DOMAIN q
        PROVE  B!Last(s) < q[k] /\ q[k] <= Len(log)
    <3>1. CASE k \in DOMAIN o
      BY <1>1, <2>2, <2>3, <3>1
    <3>2. CASE k = Len(o) + 1
      BY <1>1, <2>2, <2>3, <3>2
    <3> QED
      BY <2>2, <3>1, <3>2
  <2>5. ASSUME NEW k \in DOMAIN q, NEW l \in DOMAIN q, k < l
        PROVE  q[k] < q[l]
    <3>1. k \in DOMAIN o
      BY <2>2, <2>5
    <3>2. CASE l \in DOMAIN o
      BY <2>2, <2>3, <2>5, <3>1, <3>2
    <3>3. CASE l = Len(o) + 1
      BY <1>1, <2>2, <2>3, <3>1, <3>3
    <3> QED
      BY <2>2, <3>2, <3>3
  <2>6. output'[s] = q /\ B!Last(s) <= Len(log)
    BY <1>1, <1>4, <2>3 DEF o, q
  <2> QED
    BY <1>2, <2>1, <2>4, <2>5, <2>6 DEF Ordered
<1> QED
  BY <1>3, <1>4 DEF Forward, Enqueued, TypeOK

\* The order is kept by every step.
LEMMA OrderedStep ==
  ASSUME HubInv, HubInv', \A s \in Sessions : Ordered(s), Next, NEW t \in Sessions
  PROVE  Ordered(t)'
<1> USE DEF HubInv
<1>1. PICK s \in Sessions : Handler(s) \/ Serve(s) \/ Forward(s) \/ Writer(s) \/ Client(s)
  BY DEF Next
<1>2. Sent(t) \in Int
  BY OrderedTypes
<1>3. CASE Register(s) /\ t = s
  <2>1. received'[s] = <<>> /\ output'[s] = <<>> /\ joined'[s] = Len(log)
    BY <1>3 DEF Register, At, Lives, Life, TypeOK
  <2>2. Sent(s)' = Len(log) /\ Len(log) \in Nat
    BY <1>3 DEF Register, HubReady, Sent, TypeOK
  <2> QED
    BY <1>3, <2>1, <2>2 DEF Ordered, B!Last
<1>4. CASE Accept(s)
  <2>1. Sent(t) <= Sent(t)'
    BY <1>4 DEF Accept, Recipients, HubReady, Sent, TypeOK
  <2> QED
    BY <1>4, <2>1, OrderedSame DEF Accept
<1>5. CASE (Write(s) \/ WriteError(s) \/ Forward(s)) /\ t = s
  BY <1>5, OrderedWrite, OrderedForward
<1>6. CASE \/ Handler(s) \/ ReadMessage(s) \/ Unregister(s) \/ Upgrade(s) \/ PeerLeaves(s)
           \/ WriterClose(s) \/ WriterExit(s)
           \/ (Register(s) \/ Write(s) \/ WriteError(s) \/ Forward(s)) /\ t # s
  <2>1. received'[t] = received[t] /\ output'[t] = output[t] /\ joined'[t] = joined[t]
    BY <1>6 DEF Handler, OnConnect, ReadError, CloseSession, OnDisconnect, ReadMessage,
                Unregister, Upgrade, PeerLeaves, WriterClose, WriterExit, Register, Write,
                WriteError, Forward, TypeOK
  <2>2. log' = log /\ (t \in sending' <=> t \in sending)
    BY <1>6 DEF Handler, OnConnect, ReadError, CloseSession, OnDisconnect, ReadMessage,
                Unregister, Upgrade, PeerLeaves, WriterClose, WriterExit, Register, Write,
                WriteError, Forward, TypeOK
  <2>3. Sent(t) <= Sent(t)'
    BY <1>2, <2>2 DEF Sent
  <2> QED
    BY <2>1, <2>3, OrderedSame
<1> QED
  BY <1>1, <1>3, <1>4, <1>5, <1>6 DEF Serve, Writer, Client

\* Initially no client has heard anything.
LEMMA OrderedInit == Init => \A s \in Sessions : Ordered(s)
BY DEF Init, Ordered, B!Last, Sent

\* Every step of the service is a step of the broadcast, or changes nothing in it.
LEMMA BroadcastStep ==
  ASSUME HubInv, \A s \in Sessions : Ordered(s), Next
  PROVE  [B!BNext]_B!bvars
<1> USE DEF HubInv
<1>1. PICK s \in Sessions : Handler(s) \/ Serve(s) \/ Forward(s) \/ Writer(s) \/ Client(s)
  BY DEF Next
<1>2. CASE Register(s)
  <2>1. ClientState[s] = "out"
    BY <1>2 DEF Register, At, ClientState
  <2>2. ClientState' = [ClientState EXCEPT ![s] = "in"]
    BY <1>2 DEF Register, Goto, ClientState, TypeOK
  <2>3. B!Join(s)
    BY <1>2, <2>1, <2>2 DEF Register, B!Join
  <2> QED
    BY <2>3 DEF B!BNext
<1>3. CASE Accept(s)
  <2>1. ClientState[s] = "in"
    BY <1>3 DEF Accept, At, ClientState
  <2>2. ClientState' = ClientState
    BY <1>3 DEF Accept, At, Goto, ClientState, TypeOK
  <2>3. B!Say(s)
    BY <1>3, <2>1, <2>2 DEF Accept, B!Say
  <2> QED
    BY <2>3 DEF B!BNext
<1>4. CASE CloseSession(s)
  <2>1. ClientState[s] = "in"
    BY <1>4 DEF CloseSession, At, ClientState
  <2>2. ClientState' = [ClientState EXCEPT ![s] = "left"]
    BY <1>4 DEF CloseSession, At, Goto, ClientState, TypeOK
  <2>3. B!Leave(s)
    BY <1>4, <2>1, <2>2 DEF CloseSession, B!Leave
  <2> QED
    BY <2>3 DEF B!BNext
<1>5. CASE Write(s) /\ received' # received
  <2>1. ClientState[s] = "in" /\ ClientState' = ClientState
    BY <1>5 DEF Write, ClientState, Lives, Life, TypeOK
  <2>2. /\ received' = [received EXCEPT ![s] = Append(@, Head(output[s]))]
        /\ output[s] # <<>> /\ log' = log /\ joined' = joined
    BY <1>5 DEF Write
  <2>3. Head(output[s]) \in (B!Last(s) + 1)..Len(log)
    <3>1. /\ output[s] \in Seq(Nat) /\ B!Last(s) \in Int /\ Len(log) \in Nat
          /\ Sent(s) \in Int /\ Sent(s) <= Len(log)
      BY OrderedTypes DEF Sent
    <3>2. 1 \in DOMAIN output[s] /\ Head(output[s]) = output[s][1] /\ output[s][1] \in Int
      BY <2>2, <3>1
    <3>3. B!Last(s) < output[s][1] /\ output[s][1] <= Sent(s)
      BY <3>2 DEF Ordered
    <3> QED
      BY <3>1, <3>2, <3>3
  <2>4. B!Hear(s)
    BY <2>1, <2>2, <2>3 DEF B!Hear
  <2> QED
    BY <2>4 DEF B!BNext
<1>6. CASE \/ OnConnect(s) \/ ReadError(s) \/ OnDisconnect(s) \/ ReadMessage(s) \/ Unregister(s)
           \/ Upgrade(s)
  <2>1. ClientState' = ClientState
    BY <1>6 DEF OnConnect, ReadError, OnDisconnect, ReadMessage, Unregister, Upgrade, At, Goto,
                ClientState, TypeOK
  <2> QED
    BY <1>6, <2>1 DEF OnConnect, ReadError, OnDisconnect, ReadMessage, Unregister, Upgrade,
                      B!bvars
<1>7. CASE \/ Forward(s) \/ WriteError(s) \/ WriterClose(s) \/ WriterExit(s) \/ PeerLeaves(s)
           \/ (Write(s) /\ received' = received)
  BY <1>7 DEF Forward, WriteError, WriterClose, WriterExit, PeerLeaves, Write, ClientState,
              B!bvars
<1> QED
  BY <1>1, <1>2, <1>3, <1>4, <1>5, <1>6, <1>7 DEF Handler, Serve, Writer, Client

\* The hub and its goroutines implement the broadcast: one order of messages
\* for all clients, nothing twice, nothing from before the registration.
THEOREM ImplementsBroadcast == Spec => Broadcasts
<1> DEFINE OrderedInv == \A s \in Sessions : Ordered(s)
<1>1. Init => OrderedInv
  BY OrderedInit
<1>2. HubInv /\ HubInv' /\ OrderedInv /\ [Next]_vars => OrderedInv'
  <2> SUFFICES ASSUME HubInv, HubInv', OrderedInv, [Next]_vars PROVE OrderedInv'
    OBVIOUS
  <2>1. CASE UNCHANGED vars
    BY <2>1 DEF vars, Ordered, B!Last, Sent
  <2>2. CASE Next
    BY <2>2, OrderedStep
  <2> QED
    BY <2>1, <2>2
<1>3. Init => B!BInit
  BY DEF Init, B!BInit, ClientState
<1>4. HubInv /\ OrderedInv /\ [Next]_vars => [B!BNext]_B!bvars
  <2> SUFFICES ASSUME HubInv, OrderedInv, [Next]_vars PROVE [B!BNext]_B!bvars
    OBVIOUS
  <2>1. CASE UNCHANGED vars
    BY <2>1 DEF vars, B!bvars, ClientState
  <2>2. CASE Next
    BY <2>2, BroadcastStep
  <2> QED
    BY <2>1, <2>2
<1> HIDE DEF OrderedInv
<1> QED
  BY <1>1, <1>2, <1>3, <1>4, HubInvariant, PTL DEF Spec, Broadcasts, B!BSpec

=============================================================================
