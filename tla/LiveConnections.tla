---------------------------- MODULE LiveConnections ----------------------------
(***************************************************************************)
(* The websockets that watch the graph grow: the manager of a local        *)
(* installation (ConnectionManager and websocket_graph in src/main.py) and *)
(* the one of a private workspace (WorkspaceConnectionManager and          *)
(* WorkspaceRuntime.websocket in src/security/workspaces.py), which asks   *)
(* the identity store before every message and every few seconds.          *)
(*                                                                         *)
(* `guarded` tells which.  Whether a socket is permitted is decided        *)
(* elsewhere (Sessions) and changes at any time.  Messages have no content *)
(* and the pong of a ping is left out: it is a send like any other.        *)
(***************************************************************************)
EXTENDS Naturals, FiniteSets

CONSTANTS
  Sockets,        \* clients' sockets
  Messages,       \* broadcasts
  Caps            \* values of MAX_WS_CONNECTIONS, max_connections

ASSUME LiveConnectionsAssumption ==
  IsFiniteSet(Sockets) /\ IsFiniteSet(Messages) /\ Caps \subseteq Nat \ {0}

VARIABLES
  guarded,    \* is this a private workspace's manager
  cap,        \* how many connections it holds
  permitted,  \* the sockets _authorize lets pass
  socket,     \* how far each socket has come
  active,     \* active_connections
  pending,    \* _pending, _pending_connections
  message,    \* the broadcasts, and where each send of theirs is
  delivered,  \* history: the sockets a message reached
  since       \* history: the sockets permitted at some time since a broadcast began
liveVars == <<guarded, cap, permitted, socket, active, pending, message, delivered, since>>

SocketStates == {"idle", "asking", "accepting", "open", "checking", "gone"}
SendStates == {"none", "asking", "sending", "closing", "done"}
Watching == {s \in Sockets : socket[s] \in {"open", "checking"}}
Passes(s) == guarded => s \in permitted
Sends(m, s, step) == [message EXCEPT ![m][s] = step]
Underway == {m \in Messages : \E s \in Sockets : message[m][s] \notin {"none", "done"}}

InitLive ==
  /\ guarded \in BOOLEAN /\ cap \in Caps
  /\ permitted = Sockets
  /\ socket = [s \in Sockets |-> "idle"]
  /\ active = {} /\ pending = 0
  /\ message = [m \in Messages |-> [s \in Sockets |-> "none"]]
  /\ delivered = [m \in Messages |-> {}]
  /\ since = [m \in Messages |-> {}]

-----------------------------------------------------------------------------
(***************************************************************************)
(* Handshakes.                                                             *)
(***************************************************************************)

\* The handshake's authorisation, where there is one.
AskSocket(s) ==
  /\ socket[s] = "idle"
  /\ socket' = [socket EXCEPT ![s] = IF Passes(s) THEN "asking" ELSE "gone"]
  /\ UNCHANGED <<guarded, cap, permitted, active, pending, message, delivered, since>>

MutantFull == Cardinality(active) >= cap
\* is_full: handshakes in flight take a place.
Full == Cardinality(active) + pending >= cap

\* connect: checked and reserved without an await in between.
EnterSocket(s) ==
  /\ socket[s] = "asking"
  /\ IF Full THEN /\ socket' = [socket EXCEPT ![s] = "gone"]
                  /\ UNCHANGED pending
             ELSE /\ socket' = [socket EXCEPT ![s] = "accepting"]
                  /\ pending' = pending + 1
  /\ UNCHANGED <<guarded, cap, permitted, active, message, delivered, since>>

\* accept() returns, fails or is cancelled.
AcceptSocket(s, ok) ==
  /\ socket[s] = "accepting"
  /\ pending' = pending - 1
  /\ active' = IF ok THEN active \cup {s} ELSE active
  /\ socket' = [socket EXCEPT ![s] = IF ok THEN "open" ELSE "gone"]
  /\ UNCHANGED <<guarded, cap, permitted, message, delivered, since>>

-----------------------------------------------------------------------------
(***************************************************************************)
(* The receive loop of a socket.                                           *)
(***************************************************************************)

\* A message of the client, or four seconds without one.
Receive(s) ==
  /\ socket[s] = "open" /\ guarded
  /\ socket' = [socket EXCEPT ![s] = "checking"]
  /\ UNCHANGED <<guarded, cap, permitted, active, pending, message, delivered, since>>

MutantRecheck(s) ==
  /\ socket[s] = "checking"
  /\ socket' = [socket EXCEPT ![s] = "open"]
  /\ UNCHANGED <<guarded, cap, permitted, active, pending, message, delivered, since>>
\* _authorize in the loop: the socket goes on or is closed.
Recheck(s) ==
  /\ socket[s] = "checking"
  /\ socket' = [socket EXCEPT ![s] = IF Passes(s) THEN "open" ELSE "gone"]
  /\ active' = IF Passes(s) THEN active ELSE active \ {s}
  /\ UNCHANGED <<guarded, cap, permitted, pending, message, delivered, since>>

\* The client leaves; every way out of the loop disconnects.
LeaveSocket(s) ==
  /\ socket[s] \in {"open", "checking"}
  /\ socket' = [socket EXCEPT ![s] = "gone"]
  /\ active' = active \ {s}
  /\ UNCHANGED <<guarded, cap, permitted, pending, message, delivered, since>>

-----------------------------------------------------------------------------
(***************************************************************************)
(* Broadcasts: to the sockets of the list as it was, all at once.          *)
(***************************************************************************)
Broadcast(m) ==
  /\ message[m] = [s \in Sockets |-> "none"] /\ active # {}
  /\ message' = [message EXCEPT ![m] =
       [s \in Sockets |-> IF s \notin active THEN "done"
                          ELSE IF guarded THEN "asking" ELSE "sending"]]
  /\ since' = [since EXCEPT ![m] = permitted]
  /\ UNCHANGED <<guarded, cap, permitted, socket, active, pending, delivered>>

\* _close takes the socket off the list before it closes it; the local manager
\* closes first.
Unhealthy(m, s) ==
  /\ message' = Sends(m, s, "closing")
  /\ active' = IF guarded THEN active \ {s} ELSE active

MutantAskSend(m, s) ==
  /\ message[m][s] = "asking"
  /\ message' = Sends(m, s, "sending")
  /\ UNCHANGED <<active, guarded, cap, permitted, socket, pending, delivered, since>>
AskSend(m, s) ==
  /\ message[m][s] = "asking"
  /\ IF Passes(s) THEN message' = Sends(m, s, "sending") /\ UNCHANGED active
                  ELSE Unhealthy(m, s)
  /\ UNCHANGED <<guarded, cap, permitted, socket, pending, delivered, since>>

\* send_text ends within two seconds, or it is given up.
Send2s(m, s, ok) ==
  /\ message[m][s] = "sending"
  /\ IF ok /\ socket[s] # "gone"
     THEN /\ message' = Sends(m, s, "done")
          /\ delivered' = [delivered EXCEPT ![m] = @ \cup {s}]
          /\ UNCHANGED active
     ELSE Unhealthy(m, s) /\ UNCHANGED delivered
  /\ UNCHANGED <<guarded, cap, permitted, socket, pending, since>>

\* So does close(); the socket's own loop notices later (LeaveSocket).
Close2s(m, s) ==
  /\ message[m][s] = "closing"
  /\ message' = Sends(m, s, "done")
  /\ active' = active \ {s}
  /\ UNCHANGED <<guarded, cap, permitted, socket, pending, delivered, since>>

\* shutdown() of a workspace's manager.
CloseAll ==
  /\ guarded /\ active # {}
  /\ active' = {}
  /\ socket' = [s \in Sockets |-> IF s \in active THEN "gone" ELSE socket[s]]
  /\ UNCHANGED <<guarded, cap, permitted, pending, message, delivered, since>>

\* A login, a logout, an expiry or a new configuration file.
TurnPermission(s) ==
  /\ permitted' = IF s \in permitted THEN permitted \ {s} ELSE permitted \cup {s}
  /\ since' = [m \in Messages |-> IF m \in Underway THEN since[m] \cup permitted' ELSE since[m]]
  /\ UNCHANGED <<guarded, cap, socket, active, pending, message, delivered>>

NextLive ==
  \/ \E s \in Sockets : AskSocket(s) \/ EnterSocket(s)
  \/ \E s \in Sockets, ok \in BOOLEAN : AcceptSocket(s, ok)
  \/ \E s \in Sockets : Receive(s) \/ Recheck(s) \/ LeaveSocket(s)
  \/ \E m \in Messages : Broadcast(m)
  \/ \E m \in Messages, s \in Sockets : AskSend(m, s) \/ Close2s(m, s)
  \/ \E m \in Messages, s \in Sockets, ok \in BOOLEAN : Send2s(m, s, ok)
  \/ CloseAll
  \/ \E s \in Sockets : guarded /\ TurnPermission(s)

LiveSpec == InitLive /\ [][NextLive]_liveVars

\* Every wait of the loops and of the sends has a limit of a few seconds, and the
\* identity store answers or fails.
TimersFire ==
  /\ \A s \in Sockets : WF_liveVars(Receive(s)) /\ WF_liveVars(Recheck(s))
  /\ \A m \in Messages, s \in Sockets :
       /\ WF_liveVars(AskSend(m, s)) /\ WF_liveVars(Close2s(m, s))
       /\ WF_liveVars(\E ok \in BOOLEAN : Send2s(m, s, ok))

-----------------------------------------------------------------------------
LiveTypeOK ==
  /\ guarded \in BOOLEAN /\ cap \in Caps /\ permitted \subseteq Sockets /\ active \subseteq Sockets
  /\ socket \in [Sockets -> SocketStates] /\ pending \in Nat
  /\ message \in [Messages -> [Sockets -> SendStates]]
  /\ delivered \in [Messages -> SUBSET Sockets] /\ since \in [Messages -> SUBSET Sockets]

\* The sockets that are open never exceed the cap, although accept() waits, fails or
\* is cancelled after the check; places reserved by a handshake are given back; and
\* no socket whose loop has ended is left in the list that broadcasts go to.
ConnectionsBounded ==
  /\ Cardinality(active) + pending <= cap
  /\ pending = Cardinality({s \in Sockets : socket[s] = "accepting"})
  /\ active \subseteq Watching

\* A message reaches only sockets that were permitted after its broadcast began:
\* whoever was revoked before does not see it, although the list was read earlier.
NoDeliveryAfterRevocation ==
  guarded => \A m \in Messages : delivered[m] \subseteq since[m]

\* A socket whose permission is withdrawn for good is dropped, also when it never
\* sends and nothing is broadcast.
RevokedSocketLeaves ==
  \A s \in Sockets :
    (guarded /\ s \in active /\ s \notin permitted) ~> (s \notin active \/ s \in permitted)

\* A broadcast ends, however its clients behave.
BroadcastsEnd == \A m \in Messages : (m \in Underway) ~> (m \notin Underway)

LiveConnectionsHold ==
  /\ []LiveTypeOK /\ []ConnectionsBounded /\ []NoDeliveryAfterRevocation
  /\ RevokedSocketLeaves /\ BroadcastsEnd
=============================================================================
