------------------------------ MODULE AgentLink ------------------------------
(***************************************************************************)
(* What keeps an agent in touch with the cloud: the loops that start() and   *)
(* stop() of agent-bridge/lib/agent.js switch on and off, and the socket     *)
(* over which agent-bridge/lib/hub.js is woken (the other end of it is       *)
(* backend/src/agent/signalrHub.ts).  The control panel pairs and unpairs    *)
(* the agent while start() is still waiting for its first heartbeat, and a   *)
(* socket closes long after it was told to.                                  *)
(***************************************************************************)
EXTENDS Integers, FiniteSets

CONSTANTS
  Sockets,        \* WebSocket objects, reused once they are closed
  NoSocket,       \* no tracked socket
  MaxPairings,    \* bound: pairings in one behaviour
  MaxDrops        \* bound: connections refused or cut in one behaviour

ASSUME AgentLinkConstants ==
  /\ NoSocket \notin Sockets
  /\ MaxPairings \in Nat /\ MaxDrops \in Nat

VARIABLES
  paired,      \* whether the state file holds a token
  running,     \* status.running
  starting,    \* calls of start() that wait for the first heartbeat
  loops,       \* sets of intervals in timers
  socket,      \* the socket hub.js tracks
  wire,        \* the state of each WebSocket
  reconnect,   \* reconnectTimer is set
  pairings,    \* pairings so far
  drops,       \* connections refused or cut so far
  starts       \* history: calls of start() that went through

linkVars == <<paired, running, starting, loops, socket, wire, reconnect, pairings, drops,
              starts>>

AgentLinkTypeOK ==
  /\ paired \in BOOLEAN /\ running \in BOOLEAN /\ reconnect \in BOOLEAN
  /\ {starting, loops, pairings, drops, starts} \subseteq Nat
  /\ socket \in Sockets \cup {NoSocket}
  /\ wire \in [Sockets -> {"none", "connecting", "open", "closing"}]

\* bridge.js starts an agent that is paired.
AgentLinkInit ==
  /\ paired \in BOOLEAN
  /\ running = paired /\ starting = (IF paired THEN 1 ELSE 0)
  /\ loops = 0 /\ socket = NoSocket /\ wire = [w \in Sockets |-> "none"]
  /\ reconnect = FALSE /\ pairings = 0 /\ drops = 0 /\ starts = starting

\* stop(): every interval is cleared, the timer and the tracked socket are given up. The
\* socket's close event is still to come.
Stop ==
  /\ loops' = 0
  /\ reconnect' = FALSE
  /\ wire' = IF socket = NoSocket THEN wire ELSE [wire EXCEPT ![socket] = "closing"]
  /\ socket' = NoSocket

-----------------------------------------------------------------------------
\* Planted defect: start() returns early, as status.running has not been reset.
PairWhileRunning ==
  /\ pairings < MaxPairings
  /\ pairings' = pairings + 1
  /\ paired' = TRUE
  /\ Stop
  /\ running' = TRUE
  /\ starting' = (IF running THEN starting ELSE starting + 1)
  /\ starts' = (IF running THEN starts ELSE starts + 1)
  /\ UNCHANGED drops

\* POST /api/pair of the control panel: cmmp.pair stores a token, and then stop(), start().
Pair ==
  /\ pairings < MaxPairings
  /\ pairings' = pairings + 1
  /\ paired' = TRUE
  /\ Stop
  /\ running' = TRUE /\ starting' = starting + 1 /\ starts' = starts + 1
  /\ UNCHANGED drops

\* POST /api/unpair, and the end of FORGET_SERVER: stop() and resetState().
Forgotten ==
  /\ paired' = FALSE
  /\ Stop
  /\ running' = FALSE
  /\ UNCHANGED <<starting, pairings, drops, starts>>

\* connect(), with the timer armed or not: nothing without a token; otherwise a new socket
\* is tracked in place of the last one, or the constructor throws and the timer is set.
Connect(armed) ==
  \/ ~ paired /\ reconnect' = armed /\ UNCHANGED <<socket, wire, drops>>
  \/ /\ paired
     /\ \E w \in Sockets :
          /\ wire[w] = "none"
          /\ wire' = [wire EXCEPT ![w] = "connecting"]
          /\ socket' = w
     /\ reconnect' = armed
     /\ UNCHANGED drops
  \/ /\ paired /\ drops < MaxDrops
     /\ drops' = drops + 1
     /\ reconnect' = TRUE
     /\ UNCHANGED <<socket, wire>>

\* start() has sent its first heartbeat and playlist sync: it sets its intervals and
\* connects, whatever was stopped in the meantime.
StartGoesOn ==
  /\ starting > 0
  /\ starting' = starting - 1
  /\ loops' = loops + 1
  /\ Connect(reconnect)
  /\ UNCHANGED <<paired, running, pairings, starts>>

\* verifyAgentToken and the handshake succeed.
Accept(w) ==
  /\ wire[w] = "connecting"
  /\ wire' = [wire EXCEPT ![w] = "open"]
  /\ UNCHANGED <<paired, running, starting, loops, socket, reconnect, pairings, drops, starts>>

\* Planted defect: a lost connection is not opened again.
CloseForGood(w) ==
  /\ \/ wire[w] = "closing" /\ UNCHANGED drops
     \/ wire[w] \in {"connecting", "open"} /\ drops < MaxDrops /\ drops' = drops + 1
  /\ wire' = [wire EXCEPT ![w] = "none"]
  /\ socket' = IF socket = w THEN NoSocket ELSE socket
  /\ UNCHANGED <<paired, running, starting, loops, reconnect, pairings, starts>>

\* The close event: of a socket given up before, or of one that is refused or cut. The
\* timer is set, if it is not, whether or not the agent still runs.
CloseEvent(w) ==
  /\ \/ wire[w] = "closing" /\ UNCHANGED drops
     \/ wire[w] \in {"connecting", "open"} /\ drops < MaxDrops /\ drops' = drops + 1
  /\ wire' = [wire EXCEPT ![w] = "none"]
  /\ socket' = IF socket = w THEN NoSocket ELSE socket
  /\ reconnect' = TRUE
  /\ UNCHANGED <<paired, running, starting, loops, pairings, starts>>

\* Planted defect: the timer is an interval.
ReconnectRepeats ==
  /\ reconnect
  /\ Connect(TRUE)
  /\ UNCHANGED <<paired, running, starting, loops, pairings, starts>>

\* scheduleReconnect's timer fires and is forgotten.
ReconnectFires ==
  /\ reconnect
  /\ Connect(FALSE)
  /\ UNCHANGED <<paired, running, starting, loops, pairings, starts>>

-----------------------------------------------------------------------------
AgentLinkNext ==
  \/ Pair \/ Forgotten \/ StartGoesOn \/ ReconnectFires
  \/ \E w \in Sockets : Accept(w) \/ CloseEvent(w)

\* The first heartbeat is answered or fails, timers fire, and every socket ends up open or
\* closed.
AgentLinkFairness ==
  /\ WF_linkVars(StartGoesOn) /\ WF_linkVars(ReconnectFires)
  /\ \A w \in Sockets : WF_linkVars(Accept(w) \/ CloseEvent(w))

AgentLinkSpec == AgentLinkInit /\ [][AgentLinkNext]_linkVars
AgentLinkFairSpec == AgentLinkSpec /\ AgentLinkFairness

-----------------------------------------------------------------------------
\* An agent that shows itself as running polls the cloud, or is about to.
RunningPolls == running => loops > 0 \/ starting > 0

\* Sockets that exist, on their way in or out, and the timer that will open another one.
Live == {w \in Sockets : wire[w] # "none"}

\* Reconnecting never multiplies connections: of each start() there is at most one socket
\* or timer, however often connections break.
SocketsPerStart == Cardinality(Live) + (IF reconnect THEN 1 ELSE 0) + starting <= starts

\* An agent that runs on is connected to the hub in the end, whatever was given up, refused
\* or cut before.
HubReturns == running ~> (~ running \/ \E w \in Sockets : wire[w] = "open")
=============================================================================
