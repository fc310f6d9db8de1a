------------------------------- MODULE WsHub -------------------------------
(***************************************************************************)
(* The WebSocket service: AddWebSocket of pkg/http/http.go on the hub and  *)
(* the sessions of olahol/melody (vendored).                               *)
(*                                                                         *)
(* Each connection has two goroutines, the handler (HandleRequest, with    *)
(* the read loop in it) and the writer (writePump).  One hub goroutine     *)
(* owns the set of sessions.  Handlers hand it registrations, messages and *)
(* unregistrations over unbuffered channels; it hands messages to writers  *)
(* over buffered ones, and drops a message when the buffer is full.        *)
(*                                                                         *)
(* A message is its position in the order in which the hub accepts them.   *)
(* Melody.Close is never called: the hub runs as long as the process.      *)
(***************************************************************************)
EXTENDS Naturals, Sequences, FiniteSets

CONSTANTS
  Sessions,     \* connections, each used once
  BufferSize,   \* MessageBufferSize: 256
  MaxMessages   \* bound on the messages explored

ASSUME HubAssumption == BufferSize \in Nat /\ MaxMessages \in Nat

VARIABLES
  log,       \* log[i] is the session that sent message i
  pc,        \* session -> where its handler is
  peer,      \* session -> whether the client is still there
  open,      \* session -> Session.open
  output,    \* session -> messages in its buffered channel
  writer,    \* session -> state of its writer
  sessions,  \* hub.sessions
  sending,   \* the sessions to which the hub has yet to send the last message
  received,  \* session -> messages the client has received
  active,    \* the gauge wsConnectionsActive
  \* History, read by no step:
  joined,    \* session -> number of messages when it was registered
  dropped    \* sessions for which a full buffer has cost a message

vars == <<log, pc, peer, open, output, writer, sessions, sending, received, active,
          joined, dropped>>

Init ==
  /\ log = <<>>
  /\ pc = [s \in Sessions |-> "absent"]
  /\ peer = [s \in Sessions |-> "absent"]
  /\ open = [s \in Sessions |-> TRUE]
  /\ output = [s \in Sessions |-> <<>>]
  /\ writer = [s \in Sessions |-> "absent"]
  /\ sessions = {}
  /\ sending = {}
  /\ received = [s \in Sessions |-> <<>>]
  /\ active = 0
  /\ joined = [s \in Sessions |-> 0]
  /\ dropped = {}

At(s, label) == pc[s] = label
Goto(s, label) == pc' = [pc EXCEPT ![s] = label]

\* The hub is back in its select statement.
HubReady == sending = {}

-----------------------------------------------------------------------------
(* Handlers *)

\* GET /ws is upgraded.
Upgrade(s) ==
  /\ At(s, "absent")
  /\ Goto(s, "registering")
  /\ peer' = [peer EXCEPT ![s] = "up"]
  /\ UNCHANGED <<log, open, output, writer, sessions, sending, received, active, joined, dropped>>

\* The connect handler counts the connection; the writer starts.
OnConnect(s) ==
  /\ At(s, "connecting")
  /\ Goto(s, "reading")
  /\ active' = active + 1
  /\ writer' = [writer EXCEPT ![s] = "running"]
  /\ UNCHANGED <<log, peer, open, output, sessions, sending, received, joined, dropped>>

\* A text message comes in, perhaps from the read buffer of a connection that
\* the writer has closed: the message handler calls Broadcast.
ReadMessage(s) ==
  /\ At(s, "reading") /\ peer[s] = "up"
  /\ Len(log) + Cardinality({t \in Sessions : At(t, "broadcasting")}) < MaxMessages
  /\ Goto(s, "broadcasting")
  /\ UNCHANGED <<log, peer, open, output, writer, sessions, sending, received, active,
                 joined, dropped>>

\* ReadMessage fails: the client has closed, no pong came back in time, its
\* message was longer than melody's limit of 512 bytes, or the writer has
\* closed the connection.
ReadError(s) ==
  /\ At(s, "reading")
  /\ ~open[s] \/ peer[s] = "gone"
  /\ Goto(s, "unregistering")
  /\ UNCHANGED <<log, peer, open, output, writer, sessions, sending, received, active,
                 joined, dropped>>

\* Session.close at the end of the handler.
CloseSession(s) ==
  /\ At(s, "closing")
  /\ Goto(s, "disconnecting")
  /\ open' = [open EXCEPT ![s] = FALSE]
  /\ UNCHANGED <<log, peer, output, writer, sessions, sending, received, active, joined, dropped>>

\* The disconnect handler.
OnDisconnect(s) ==
  /\ At(s, "disconnecting")
  /\ Goto(s, "done")
  /\ active' = active - 1
  /\ UNCHANGED <<log, peer, open, output, writer, sessions, sending, received, joined, dropped>>

-----------------------------------------------------------------------------
(* The hub *)

Register(s) ==
  /\ HubReady /\ At(s, "registering")
  /\ Goto(s, "connecting")
  /\ sessions' = sessions \cup {s}
  /\ joined' = [joined EXCEPT ![s] = Len(log)]
  /\ UNCHANGED <<log, peer, open, output, writer, sending, received, active, dropped>>

\* Mutant of Without: sessions that their writer has closed are forgotten.
WithoutIfOpen(s) == IF open[s] THEN sessions \ {s} ELSE sessions
Without(s) == sessions \ {s}

Unregister(s) ==
  /\ HubReady /\ At(s, "unregistering")
  /\ Goto(s, "closing")
  /\ sessions' = Without(s)
  /\ UNCHANGED <<log, peer, open, output, writer, sending, received, active, joined, dropped>>

\* Mutant of Recipients: the sender is left out.
AllOthers(s) == sessions \ {s}
Recipients(s) == sessions

\* The hub takes a message, and goes through its sessions.
Accept(s) ==
  /\ HubReady /\ At(s, "broadcasting")
  /\ Goto(s, "reading")
  /\ log' = Append(log, s)
  /\ sending' = Recipients(s)
  /\ UNCHANGED <<peer, open, output, writer, sessions, received, active, joined, dropped>>

\* Mutant of HasRoom: the limit is off by one.
HasRoomForOneMore(s) == Len(output[s]) <= BufferSize
HasRoom(s) == Len(output[s]) < BufferSize

Enqueued(s) == Append(output[s], Len(log))

\* Session.writeMessage, which does not block.
Forward(s) ==
  /\ s \in sending
  /\ sending' = sending \ {s}
  /\ \/ /\ ~open[s]
        /\ UNCHANGED <<output, dropped>>
     \/ /\ open[s] /\ HasRoom(s)
        /\ output' = [output EXCEPT ![s] = Enqueued(s)]
        /\ UNCHANGED dropped
     \/ /\ open[s] /\ ~HasRoom(s)
        /\ dropped' = dropped \cup {s}
        /\ UNCHANGED output
  /\ UNCHANGED <<log, pc, peer, open, writer, sessions, received, active, joined>>

-----------------------------------------------------------------------------
(* Writers *)

\* Mutant of Written: the message stays in the buffer.
WrittenAgain(s) == output[s]
\* What is left in the buffer after a write.
Written(s) == Tail(output[s])

\* The next message is written.  The client receives it if it is still there;
\* if not, the write may succeed all the same.
Write(s) ==
  /\ writer[s] = "running" /\ output[s] # <<>> /\ open[s]
  /\ output' = [output EXCEPT ![s] = Written(s)]
  /\ received' = IF peer[s] = "up" THEN [received EXCEPT ![s] = Append(@, Head(output[s]))]
                 ELSE received
  /\ UNCHANGED <<log, pc, peer, open, writer, sessions, sending, active, joined, dropped>>

\* A write fails, or takes too long: its message is lost.
WriteError(s) ==
  /\ writer[s] = "running" /\ output[s] # <<>>
  /\ output' = [output EXCEPT ![s] = Tail(@)]
  /\ writer' = [writer EXCEPT ![s] = "failed"]
  /\ UNCHANGED <<log, pc, peer, open, sessions, sending, received, active, joined, dropped>>

\* The writer that has failed closes the session.
WriterClose(s) ==
  /\ writer[s] = "failed"
  /\ writer' = [writer EXCEPT ![s] = "done"]
  /\ open' = [open EXCEPT ![s] = FALSE]
  /\ UNCHANGED <<log, pc, peer, output, sessions, sending, received, active, joined, dropped>>

\* outputDone is closed.
WriterExit(s) ==
  /\ writer[s] = "running" /\ ~open[s]
  /\ writer' = [writer EXCEPT ![s] = "done"]
  /\ UNCHANGED <<log, pc, peer, open, output, sessions, sending, received, active,
                 joined, dropped>>

-----------------------------------------------------------------------------

\* The client closes its side, or vanishes, or sends a message that is too long:
\* the answer is a close frame, after which nothing can be written.
PeerLeaves(s) ==
  /\ peer[s] = "up"
  /\ peer' = [peer EXCEPT ![s] = "gone"]
  /\ UNCHANGED <<log, pc, open, output, writer, sessions, sending, received, active,
                 joined, dropped>>

Handler(s) == OnConnect(s) \/ ReadError(s) \/ CloseSession(s) \/ OnDisconnect(s)
Serve(s) == Register(s) \/ Unregister(s) \/ Accept(s)
Writer(s) == Write(s) \/ WriteError(s) \/ WriterClose(s) \/ WriterExit(s)
Client(s) == Upgrade(s) \/ ReadMessage(s) \/ PeerLeaves(s)

Next == \E s \in Sessions : Handler(s) \/ Serve(s) \/ Forward(s) \/ Writer(s) \/ Client(s)

Spec == Init /\ [][Next]_vars

\* Goroutines that can run do.  The hub serves every channel: its select picks
\* at random among those that are ready, and a channel's senders queue.
Fairness ==
  \A s \in Sessions :
    /\ WF_vars(Handler(s)) /\ WF_vars(Writer(s)) /\ WF_vars(Forward(s))
    /\ SF_vars(Serve(s))

FairSpec == Spec /\ Fairness

-----------------------------------------------------------------------------
(* Properties *)

Positions == 1..Len(log)

\* Every variable has its type; in particular no buffer holds more messages
\* than its size.
TypeOK ==
  /\ log \in Seq(Sessions)
  /\ pc \in [Sessions -> {"absent", "registering", "connecting", "reading", "broadcasting",
                          "unregistering", "closing", "disconnecting", "done"}]
  /\ peer \in [Sessions -> {"absent", "up", "gone"}]
  /\ open \in [Sessions -> BOOLEAN]
  /\ writer \in [Sessions -> {"absent", "running", "failed", "done"}]
  /\ sessions \subseteq Sessions /\ sending \subseteq Sessions /\ dropped \subseteq Sessions
  /\ active \in Nat
  /\ joined \in [Sessions -> 0..Len(log)]
  /\ output \in [Sessions -> Seq(Positions)]
  /\ \A s \in Sessions : Len(output[s]) <= BufferSize
  /\ received \in [Sessions -> Seq(Positions)]

\* Once every connection has been handled, the hub has forgotten them all and
\* the gauge is back at zero: a connection closed from either end is counted
\* out once.
NothingLeaks ==
  (\A s \in Sessions : pc[s] \in {"absent", "done"}) => sessions = {} /\ active = 0

\* The last message that the hub has sent, or decided not to send, to s.
Sent(s) == IF s \in sending THEN Len(log) - 1 ELSE Len(log)

\* A client that keeps its connection, on which no write has failed and whose
\* buffer was never full when a message came, misses nothing: it has received, or will find in its buffer,
\* every message since its registration, its own included.
NothingMissed ==
  \A s \in sessions \ dropped :
    open[s] /\ peer[s] = "up" /\ writer[s] # "failed" =>
      received[s] \o output[s] = [i \in 1..(Sent(s) - joined[s]) |-> joined[s] + i]

\* The hub and the handlers implement the broadcast that clients rely on: one
\* order for all, no message twice, none from before the registration.
ClientState ==
  [s \in Sessions |->
     IF pc[s] \in {"absent", "registering"} THEN "out"
     ELSE IF pc[s] \in {"disconnecting", "done"} THEN "left" ELSE "in"]

B == INSTANCE Broadcast WITH
       Clients <- Sessions, state <- ClientState, heard <- received

Broadcasts == B!BSpec

\* A client that has left, or vanished, is forgotten: a full buffer, a dead
\* writer or a busy hub never keeps its handler from ending.
LeaversForgotten ==
  \A s \in Sessions : peer[s] = "gone" ~> pc[s] = "done" /\ s \notin sessions

\* A message reaches every client registered at the time, unless its buffer
\* was full or its connection ends.
MessagesArrive ==
  \A s \in Sessions, i \in 1..MaxMessages :
    s \in sessions /\ joined[s] < i /\ i <= Len(log)
      ~> \/ \E k \in DOMAIN received[s] : received[s][k] = i
         \/ s \in dropped \/ ~open[s] \/ peer[s] = "gone"

=============================================================================
