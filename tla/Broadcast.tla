----------------------------- MODULE Broadcast -----------------------------
(***************************************************************************)
(* What the WebSocket service promises the clients of GET /ws: one log of  *)
(* messages, in an order that all clients agree on.  A client hears its    *)
(* own messages and everybody else's from the moment it has joined, never  *)
(* out of order and never twice; it may miss some.                         *)
(***************************************************************************)
EXTENDS Naturals, Sequences

CONSTANTS Clients

VARIABLES
  log,      \* the messages; log[i] is the client that sent message i
  state,    \* client -> "out", "in" or "left"
  joined,   \* client -> length of the log when it joined
  heard     \* client -> the positions of the messages it has heard

bvars == <<log, state, joined, heard>>

BInit ==
  /\ log = <<>>
  /\ state = [c \in Clients |-> "out"]
  /\ joined = [c \in Clients |-> 0]
  /\ heard = [c \in Clients |-> <<>>]

\* The position of the last message a client has heard, or has not had to.
Last(c) == IF heard[c] = <<>> THEN joined[c] ELSE heard[c][Len(heard[c])]

Join(c) ==
  /\ state[c] = "out"
  /\ state' = [state EXCEPT ![c] = "in"]
  /\ joined' = [joined EXCEPT ![c] = Len(log)]
  /\ UNCHANGED <<log, heard>>

Say(c) ==
  /\ state[c] = "in"
  /\ log' = Append(log, c)
  /\ UNCHANGED <<state, joined, heard>>

Hear(c) ==
  /\ state[c] = "in"
  /\ \E i \in (Last(c) + 1)..Len(log) : heard' = [heard EXCEPT ![c] = Append(@, i)]
  /\ UNCHANGED <<log, state, joined>>

Leave(c) ==
  /\ state[c] = "in"
  /\ state' = [state EXCEPT ![c] = "left"]
  /\ UNCHANGED <<log, joined, heard>>

BNext == \E c \in Clients : Join(c) \/ Say(c) \/ Hear(c) \/ Leave(c)

BSpec == BInit /\ [][BNext]_bvars

=============================================================================
