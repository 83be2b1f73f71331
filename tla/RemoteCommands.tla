--------------------------- MODULE RemoteCommands ---------------------------
(***************************************************************************)
(* The remote-command path of one paired venue: POST /commands in the      *)
(* portal backend (backend/src/routes/commands.ts), the rows it keeps in   *)
(* RemoteCommand and Zone, the in-memory ack rendezvous                    *)
(* (backend/src/lib/agent-registry.ts), the prayer scheduler's commands    *)
(* (backend/src/lib/prayer-scheduler.ts), the agent's own poll loops       *)
(* (agent-bridge/lib/agent.js) and the pending / ack / heartbeat handlers  *)
(* that serve them (backend/src/routes/agent.ts).                          *)
(*                                                                         *)
(* Every `await` of the code is a step boundary: a database statement is   *)
(* one atomic step, whatever runs between two statements may interleave.   *)
(***************************************************************************)
EXTENDS Naturals, FiniteSets

CONSTANTS
  Commands,       \* identities of RemoteCommand rows; each is issued at most once
  Zones,          \* the venue's zones
  None,           \* null: a server-level command's zone, an idle handler's command
  Polls,          \* concurrent runs of pollCommandsOnce (1.5 s timer and hub push overlap)
  Kinds,          \* the command types that are issued
  Sources,        \* who issues zone transport: "USER", "SUPER_ADMIN", "SCHEDULE"
  ZoneSync,       \* whether the heartbeat's zone report is part of the instance
  Faults,         \* the kinds of fault that may happen
  MaxFaults       \* bound: how many faults happen in one behaviour

TransportKinds == {"PLAY", "PAUSE", "STOP", "NEXT"}
ServerKinds    == {"SYNC_MUSIC"}
FaultKinds     == {"ackLost", "ackAbort", "pollLost", "agentCrash", "backendCrash"}

ASSUME ConstantsOK ==
  /\ None \notin Zones \cup Commands
  /\ IsFiniteSet(Commands)
  /\ Kinds \subseteq TransportKinds \cup ServerKinds
  /\ Sources \subseteq {"USER", "SUPER_ADMIN", "SCHEDULE"}
  /\ ZoneSync \in BOOLEAN
  /\ Faults \subseteq FaultKinds
  /\ MaxFaults \in Nat

VARIABLES
  pc,         \* where the request (or scheduler step) behind each command is
  cmd,        \* the immutable columns of each RemoteCommand row
  status,     \* RemoteCommand.status, "NONE" before the row exists
  born,       \* RemoteCommand.issuedAt, as a rank
  zone,       \* the cloud's Zone rows
  connected,  \* isAgentConnected: the agent was seen within the staleness window
  poll,       \* the agent's poll runs
  ack,        \* ack requests inside the backend, by poll and reported result
  local,      \* the zones' real playback state on the venue PC
  performed,  \* the commands the venue PC has carried out
  doubtful,   \* the commands that it may come to carry out again (history, see PerformedOnce:
              \* no action reads it)
  beat,       \* the part of a heartbeat's zone report still to be stored
  faults      \* faults so far

vars == <<pc, cmd, status, born, zone, connected, poll, ack, local, performed,
          doubtful, beat, faults>>

Playback == {"PLAYING", "PAUSED", "STOPPED"}
NoState  == "NO_STATE"      \* an ack that carries no zoneState
Results  == {"SUCCESS", "FAILED"}
Terminal == {"SUCCESS", "FAILED", "TIMEOUT"}
Open     == {"PENDING", "SENT"}
Statuses == {"NONE"} \cup Open \cup Terminal

\* What a zone's playback state becomes under a command of kind k.
Effect(k, state) ==
  CASE k = "PLAY"  -> "PLAYING"
    [] k = "PAUSE" -> "PAUSED"
    [] k = "STOP"  -> "STOPPED"
    [] OTHER       -> state

\* The local service starts playing when it skips to another track.
LocalEffect(k, state) == IF k = "NEXT" THEN "PLAYING" ELSE Effect(k, state)

\* Requests still being served by the backend process.
InFlight == {"due", "flagged", "bumped", "created", "waiting", "expired",
             "acked", "check", "effect", "apply"}
PcValues == {"idle", "queued", "refused", "succeeded", "failed", "lost"} \cup InFlight

NoCommand == [target |-> None, kind |-> "NONE", source |-> "NONE", sequence |-> 0]
IdlePoll  == [at |-> "idle", batch |-> {}, unsent |-> {}, current |-> None,
              result |-> "SUCCESS", state |-> NoState]
IdleAck   == [at |-> "idle", command |-> None, state |-> NoState]

Init ==
  /\ pc        = [c \in Commands |-> "idle"]
  /\ cmd       = [c \in Commands |-> NoCommand]
  /\ status    = [c \in Commands |-> "NONE"]
  /\ born      = [c \in Commands |-> 0]
  /\ local     = [z \in Zones |-> "PLAYING"]
  /\ zone      = [z \in Zones |-> [commandSequence |-> 0, lastAppliedSequence |-> 0,
                                   playbackState |-> "PLAYING", pausedByPrayer |-> FALSE]]
  /\ connected = FALSE
  /\ poll      = [p \in Polls |-> IdlePoll]
  /\ ack       = [p \in Polls |-> [r \in Results |-> IdleAck]]
  /\ performed = {}
  /\ doubtful  = {}
  /\ beat      = [z \in {} |-> "PLAYING"]
  /\ faults    = 0

-----------------------------------------------------------------------------
(* The portal's request: POST /commands                                    *)

Rank == 1 + Cardinality({c \in Commands : status[c] # "NONE"})

\* The server is offline: a FAILED row is kept for audit, nothing is queued.
Refuse(c, z, k, s) ==
  /\ pc[c] = "idle"
  /\ ~connected
  /\ pc'     = [pc EXCEPT ![c] = "refused"]
  /\ cmd'    = [cmd EXCEPT ![c] = [target |-> z, kind |-> k, source |-> s, sequence |-> 0]]
  /\ status' = [status EXCEPT ![c] = "FAILED"]
  /\ born'   = [born EXCEPT ![c] = Rank]
  /\ UNCHANGED <<zone, connected, poll, ack, local, performed, doubtful, beat, faults>>

\* Planted defect: the number is read, and its increment is lost.
TakeSequenceNoIncrement(c, z, k, s) ==
  /\ UNCHANGED zone
  /\ cmd'  = [cmd EXCEPT ![c] = [target |-> z, kind |-> k, source |-> s,
                                 sequence |-> zone[z].commandSequence + 1]]
  /\ pc'   = [pc EXCEPT ![c] = "bumped"]

\* Take the zone's next sequence number for command c.
TakeSequence(c, z, k, s) ==
  /\ zone' = [zone EXCEPT ![z].commandSequence = @ + 1]
  /\ cmd'  = [cmd EXCEPT ![c] = [target |-> z, kind |-> k, source |-> s,
                                 sequence |-> zone[z].commandSequence + 1]]
  /\ pc'   = [pc EXCEPT ![c] = "bumped"]

BumpSequence(c, z, k, s) ==
  /\ pc[c] = "idle"
  /\ connected
  /\ TakeSequence(c, z, k, s)
  /\ UNCHANGED <<status, born, connected, poll, ack, local, performed, doubtful, beat, faults>>

\* Insert the row of command c with status st.
InsertRow(c, st) ==
  /\ status' = [status EXCEPT ![c] = st]
  /\ born'   = [born EXCEPT ![c] = Rank]

CreateRow(c) ==
  /\ pc[c] = "bumped"
  /\ cmd[c].source # "SCHEDULE"
  /\ InsertRow(c, "SENT")
  /\ pc' = [pc EXCEPT ![c] = "created"]
  /\ UNCHANGED <<cmd, zone, connected, poll, ack, local, performed, doubtful, beat, faults>>

\* The request moves on without touching the database.
Step(c, from, to) ==
  /\ pc[c] = from
  /\ pc' = [pc EXCEPT ![c] = to]
  /\ UNCHANGED <<cmd, status, born, zone, connected, poll, ack, local, performed,
                 doubtful, beat, faults>>

\* The insert's await resumes: push to the agent, register the waiter.
ArmWaiter(c) == Step(c, "created", "waiting")

\* Planted defect: a request gives up only on a row that is still open.
AckTimeoutUnlessClosed(c) == status[c] \in Open /\ Step(c, "waiting", "expired")

\* The waiter's timer fires: the waiter is deleted, the TIMEOUT write is due.
AckTimeout(c) == Step(c, "waiting", "expired")

RecordTimeout(c) ==
  /\ pc[c] = "expired"
  /\ status' = [status EXCEPT ![c] = "TIMEOUT"]
  /\ pc'     = [pc EXCEPT ![c] = "failed"]
  /\ UNCHANGED <<cmd, born, zone, connected, poll, ack, local, performed, doubtful, beat, faults>>

\* Planted defect: any ack counts as a success.
ReadOutcomeUnchecked(c) == Step(c, "acked", "check")

\* An ack resolved the waiter: the row is read again for its final status.
ReadOutcome(c) == Step(c, "acked", IF status[c] = "SUCCESS" THEN "check" ELSE "failed")

\* Was this very command's zoneState recorded by its ack?
CheckApplied(c) ==
  Step(c, "check", IF zone[cmd[c].target].lastAppliedSequence # cmd[c].sequence
                   THEN "effect" ELSE "succeeded")

\* applyZoneCommandEffect reads the zone and drops a stale effect ...
ReadZone(c) ==
  Step(c, "effect", IF cmd[c].sequence < zone[cmd[c].target].lastAppliedSequence
                    THEN "succeeded" ELSE "apply")

\* ... and otherwise writes the effect the command was expected to have.
ApplyEffect(c) ==
  /\ pc[c] = "apply"
  /\ pc' = [pc EXCEPT ![c] = "succeeded"]
  /\ LET old == zone[cmd[c].target] IN
     zone' = [zone EXCEPT ![cmd[c].target] =
                [old EXCEPT !.lastAppliedSequence = cmd[c].sequence,
                            !.playbackState = Effect(cmd[c].kind, old.playbackState),
                            !.pausedByPrayer =
                              (old.pausedByPrayer /\ cmd[c].source # "SUPER_ADMIN")]]
  /\ UNCHANGED <<cmd, status, born, connected, poll, ack, local, performed, doubtful, beat, faults>>

\* A server-level command: the row is left PENDING and the request answered.
CreateServerCommand(c, k) ==
  /\ pc[c] = "idle"
  /\ cmd' = [cmd EXCEPT ![c] = [target |-> None, kind |-> k, source |-> "USER", sequence |-> 0]]
  /\ InsertRow(c, "PENDING")
  /\ pc' = [pc EXCEPT ![c] = "queued"]
  /\ UNCHANGED <<zone, connected, poll, ack, local, performed, doubtful, beat, faults>>

\* A user presses a button.
Issue(c) ==
  \/ \E z \in Zones, k \in Kinds \cap TransportKinds, s \in Sources \ {"SCHEDULE"} :
       Refuse(c, z, k, s) \/ BumpSequence(c, z, k, s)
  \/ \E k \in Kinds \cap ServerKinds : CreateServerCommand(c, k)

\* The backend serves the request.
Serve(c) ==
  \/ CreateRow(c) \/ ArmWaiter(c) \/ AckTimeout(c) \/ RecordTimeout(c)
  \/ ReadOutcome(c) \/ CheckApplied(c) \/ ReadZone(c) \/ ApplyEffect(c)

-----------------------------------------------------------------------------
(* The prayer scheduler's commands                                         *)

\* findMany: the zones a prayer's start (k = "PAUSE") or end (k = "PLAY") is about.
PrayerDue(c, z, k) ==
  /\ pc[c] = "idle"
  /\ IF k = "PAUSE" THEN zone[z].playbackState = "PLAYING" ELSE zone[z].pausedByPrayer
  /\ cmd' = [cmd EXCEPT ![c] = [target |-> z, kind |-> k, source |-> "SCHEDULE", sequence |-> 0]]
  /\ pc'  = [pc EXCEPT ![c] = "due"]
  /\ UNCHANGED <<status, born, zone, connected, poll, ack, local, performed, doubtful, beat, faults>>

PrayerFlag(c) ==
  /\ pc[c] = "due"
  /\ zone' = [zone EXCEPT ![cmd[c].target].pausedByPrayer = (cmd[c].kind = "PAUSE")]
  /\ pc'   = [pc EXCEPT ![c] = "flagged"]
  /\ UNCHANGED <<cmd, status, born, connected, poll, ack, local, performed, doubtful, beat, faults>>

PrayerBump(c) ==
  /\ pc[c] = "flagged"
  /\ TakeSequence(c, cmd[c].target, cmd[c].kind, "SCHEDULE")
  /\ UNCHANGED <<status, born, connected, poll, ack, local, performed, doubtful, beat, faults>>

PrayerCreate(c) ==
  /\ pc[c] = "bumped"
  /\ cmd[c].source = "SCHEDULE"
  /\ InsertRow(c, "PENDING")
  /\ pc' = [pc EXCEPT ![c] = "queued"]
  /\ UNCHANGED <<cmd, zone, connected, poll, ack, local, performed, doubtful, beat, faults>>

Tick(c) ==
  /\ "SCHEDULE" \in Sources
  /\ \E z \in Zones, k \in {"PAUSE", "PLAY"} : PrayerDue(c, z, k)

Schedule(c) ==
  \/ PrayerFlag(c) \/ PrayerBump(c) \/ PrayerCreate(c)

-----------------------------------------------------------------------------
(* The agent: poll, execute in order of issue, read back, acknowledge      *)

\* Poll run p of an agent that is up has command c, or is at work on it.
Holds(p, c) == /\ poll[p].at \notin {"idle", "orphan"}
               /\ c \in poll[p].batch \cup {poll[p].current}

\* Those of the commands b that a run other than p holds.
AlsoHeld(p, b) == {c \in b : \E q \in Polls \ {p} : Holds(q, c)}

\* Planted defects: FAILED rows are retried; all listed rows are marked; only new
\* rows are delivered.
PollRetriesFailed(p) ==
  /\ poll[p].at = "idle"
  /\ poll' = [poll EXCEPT ![p] =
                [IdlePoll EXCEPT !.at = "listed",
                                 !.batch  = {c \in Commands : status[c] \in Open \cup {"FAILED"}},
                                 !.unsent = {c \in Commands : status[c] = "PENDING"}]]
  /\ doubtful' = doubtful \cup AlsoHeld(p, poll'[p].batch)
  /\ connected' = TRUE
  /\ UNCHANGED <<pc, cmd, status, born, zone, ack, local, performed, beat, faults>>

PollMarksAll(p) ==
  /\ poll[p].at = "idle"
  /\ LET open == {c \in Commands : status[c] \in Open} IN
     poll' = [poll EXCEPT ![p] = [IdlePoll EXCEPT !.at = "listed", !.batch = open, !.unsent = open]]
  /\ doubtful' = doubtful \cup AlsoHeld(p, poll'[p].batch)
  /\ connected' = TRUE
  /\ UNCHANGED <<pc, cmd, status, born, zone, ack, local, performed, beat, faults>>

PollOnlyPending(p) ==
  /\ poll[p].at = "idle"
  /\ LET new == {c \in Commands : status[c] = "PENDING"} IN
     poll' = [poll EXCEPT ![p] = [IdlePoll EXCEPT !.at = "listed", !.batch = new, !.unsent = new]]
  /\ doubtful' = doubtful \cup AlsoHeld(p, poll'[p].batch)
  /\ connected' = TRUE
  /\ UNCHANGED <<pc, cmd, status, born, zone, ack, local, performed, beat, faults>>

\* GET /server/commands/pending: findMany of every PENDING or SENT row.
PollList(p) ==
  /\ poll[p].at = "idle"
  /\ poll' = [poll EXCEPT ![p] =
                [IdlePoll EXCEPT !.at = "listed",
                                 !.batch  = {c \in Commands : status[c] \in Open},
                                 !.unsent = {c \in Commands : status[c] = "PENDING"}]]
  /\ doubtful' = doubtful \cup AlsoHeld(p, poll'[p].batch)
  /\ connected' = TRUE
  /\ UNCHANGED <<pc, cmd, status, born, zone, ack, local, performed, beat, faults>>

\* What a poll run does next once it holds batch b.
Continue(b) == [IdlePoll EXCEPT !.at = IF b = {} THEN "idle" ELSE "run", !.batch = b]

\* updateMany of the rows that were read PENDING, then the response. An agent
\* that is gone ("orphan") never sees the response.
PollMark(p) ==
  /\ poll[p].at \in {"listed", "orphan"}
  /\ status' = [c \in Commands |-> IF c \in poll[p].unsent THEN "SENT" ELSE status[c]]
  /\ poll'   = [poll EXCEPT ![p] = IF @.at = "listed" THEN Continue(@.batch) ELSE IdlePoll]
  /\ doubtful' = doubtful \cup {c \in poll[p].unsent : status[c] \in Terminal}
  /\ UNCHANGED <<pc, cmd, born, zone, connected, ack, local, performed, beat, faults>>

\* c is the oldest command left in the batch of poll run p.
IsNext(p, c) ==
  /\ poll[p].at = "run"
  /\ c \in poll[p].batch
  /\ \A d \in poll[p].batch : born[c] <= born[d]

\* Poll run p is done with the local handler of c and moves on to step `to`.
Ran(p, c, to, result) ==
  poll' = [poll EXCEPT ![p] = [at |-> to, batch |-> poll[p].batch \ {c}, unsent |-> {},
                               current |-> c, result |-> result, state |-> NoState]]

\* The local handler succeeds; zone transport is then read back.
RunSucceeds(p, c) ==
  /\ IsNext(p, c)
  /\ performed' = performed \cup {c}
  /\ IF cmd[c].target = None
     THEN /\ Ran(p, c, "reply", "SUCCESS")
          /\ UNCHANGED local
     ELSE /\ Ran(p, c, "ran", "SUCCESS")
          /\ local' = [local EXCEPT ![cmd[c].target] = LocalEffect(cmd[c].kind, @)]
  /\ UNCHANGED <<pc, cmd, status, born, zone, connected, ack, doubtful, beat, faults>>

\* Planted defect: the error of the local handler is swallowed.
RunFailsSwallowed(p, c) ==
  /\ IsNext(p, c)
  /\ Ran(p, c, "reply", "SUCCESS")
  /\ UNCHANGED <<pc, cmd, status, born, zone, connected, ack, local, performed, doubtful, beat, faults>>

\* The local handler throws (the local API refused, the service is down).
RunFails(p, c) ==
  /\ IsNext(p, c)
  /\ Ran(p, c, "reply", "FAILED")
  /\ UNCHANGED <<pc, cmd, status, born, zone, connected, ack, local, performed, doubtful, beat, faults>>

\* readBackZoneState; a failure is logged and the ack carries no zoneState.
ReadBack(p) ==
  /\ poll[p].at = "ran"
  /\ \E s \in {local[cmd[poll[p].current].target], NoState} :
       poll' = [poll EXCEPT ![p] = [poll[p] EXCEPT !.at = "reply", !.state = s]]
  /\ UNCHANGED <<pc, cmd, status, born, zone, connected, ack, local, performed, doubtful, beat, faults>>

\* The ack handler reads the row. One already closed is left alone and the
\* agent goes on with its batch; otherwise the handler is about to write it.
AckRead(p) ==
  LET q == poll[p] IN
  /\ q.at = "reply"
  /\ ack[p][q.result].at = "idle"
  /\ IF status[q.current] \in Terminal
     THEN /\ poll' = [poll EXCEPT ![p] = Continue(q.batch)]
          /\ connected' = TRUE
          /\ UNCHANGED ack
     ELSE /\ poll' = [poll EXCEPT ![p].at = "await"]
          /\ ack'  = [ack EXCEPT ![p][q.result] =
                        [at |-> "read", command |-> q.current, state |-> q.state]]
          /\ UNCHANGED connected
  /\ UNCHANGED <<pc, cmd, status, born, zone, local, performed, doubtful, beat, faults>>

\* The handler writes the reported status over whatever the row holds by now.
AckWrite(p, r) ==
  LET h == ack[p][r] IN
  /\ h.at = "read"
  /\ status' = [status EXCEPT ![h.command] = r]
  /\ ack'    = [ack EXCEPT ![p][r].at = IF h.state = NoState THEN "stored" ELSE "written"]
  /\ UNCHANGED <<pc, cmd, born, zone, connected, poll, local, performed, doubtful, beat, faults>>

\* Planted defect: the zone is marked up to date with its newest command.
AckZoneNewest(p, r) ==
  LET h == ack[p][r]
      z == cmd[h.command].target IN
  /\ h.at = "written"
  /\ zone' = [zone EXCEPT ![z] = [zone[z] EXCEPT
                !.playbackState = h.state, !.lastAppliedSequence = zone[z].commandSequence]]
  /\ ack' = [ack EXCEPT ![p][r].at = "stored"]
  /\ UNCHANGED <<pc, cmd, status, born, connected, poll, local, performed, doubtful, beat, faults>>

\* The acked zoneState becomes the cloud's, marked with the command's sequence.
AckZone(p, r) ==
  LET h == ack[p][r]
      z == cmd[h.command].target IN
  /\ h.at = "written"
  /\ zone' = [zone EXCEPT ![z] = [zone[z] EXCEPT
                !.playbackState = h.state, !.lastAppliedSequence = cmd[h.command].sequence]]
  /\ ack' = [ack EXCEPT ![p][r].at = "stored"]
  /\ UNCHANGED <<pc, cmd, status, born, connected, poll, local, performed, doubtful, beat, faults>>

\* Planted defect: the timer leaves its waiter registered.
AckResolveExpired(p, r) ==
  LET c == ack[p][r].command IN
  /\ ack[p][r].at = "stored"
  /\ ack' = [ack EXCEPT ![p][r] = IdleAck]
  /\ pc'  = [pc EXCEPT ![c] = IF @ \in {"waiting", "failed"} THEN "acked" ELSE @]
  /\ poll' = [poll EXCEPT ![p] =
                IF @.at = "await" /\ @.result = r THEN Continue(@.batch) ELSE @]
  /\ connected' = TRUE
  /\ UNCHANGED <<cmd, status, born, zone, local, performed, doubtful, beat, faults>>

\* resolveAck wakes a waiting request, then the response releases the agent
\* (unless it has stopped waiting for this one).
AckResolve(p, r) ==
  LET c == ack[p][r].command IN
  /\ ack[p][r].at = "stored"
  /\ ack' = [ack EXCEPT ![p][r] = IdleAck]
  /\ pc'  = [pc EXCEPT ![c] = IF @ = "waiting" THEN "acked" ELSE @]
  /\ poll' = [poll EXCEPT ![p] =
                IF @.at = "await" /\ @.result = r THEN Continue(@.batch) ELSE @]
  /\ connected' = TRUE
  /\ UNCHANGED <<cmd, status, born, zone, local, performed, doubtful, beat, faults>>

PollRun(p) ==
  \/ PollList(p) \/ PollMark(p) \/ ReadBack(p) \/ AckRead(p)
  \/ \E c \in Commands : RunSucceeds(p, c) \/ RunFails(p, c)

AckHandler(p, r) == AckWrite(p, r) \/ AckZone(p, r) \/ AckResolve(p, r)

-----------------------------------------------------------------------------
(* Heartbeats, and their absence                                           *)

\* heartbeatOnce: the backend marks the agent seen; the local zones are read.
Heartbeat ==
  /\ DOMAIN beat = {}
  /\ connected' = TRUE
  /\ beat' = IF ZoneSync THEN local ELSE beat
  /\ UNCHANGED <<pc, cmd, status, born, zone, poll, ack, local, performed, doubtful, faults>>

\* Planted defect: a reported state other than PLAYING has no mapping.
SyncZonePlayingOnly(z) ==
  /\ z \in DOMAIN beat
  /\ zone' = [zone EXCEPT ![z].playbackState = IF beat[z] = "PLAYING" THEN beat[z] ELSE @]
  /\ beat' = [y \in DOMAIN beat \ {z} |-> beat[y]]
  /\ connected' = (connected \/ DOMAIN beat = {z})
  /\ UNCHANGED <<pc, cmd, status, born, poll, ack, local, performed, doubtful, faults>>

\* POST /server/zones/sync stores the report zone by zone.
SyncZone(z) ==
  /\ z \in DOMAIN beat
  /\ zone' = [zone EXCEPT ![z].playbackState = beat[z]]
  /\ beat' = [y \in DOMAIN beat \ {z} |-> beat[y]]
  /\ connected' = (connected \/ DOMAIN beat = {z})
  /\ UNCHANGED <<pc, cmd, status, born, poll, ack, local, performed, doubtful, faults>>

\* Nothing has been heard of the agent for the whole staleness window.
GoStale ==
  /\ connected
  /\ connected' = FALSE
  /\ UNCHANGED <<pc, cmd, status, born, zone, poll, ack, local, performed, doubtful, beat, faults>>

-----------------------------------------------------------------------------
(* Faults, at most MaxFaults of them                                       *)

Fault(kind) ==
  /\ kind \in Faults
  /\ faults < MaxFaults
  /\ faults' = faults + 1

\* Planted defect: a SUCCESS that could not be acked is dropped like a FAILED.
AckThrowsDrops(q) == IF q.result \in Results THEN IdlePoll ELSE q

\* ackCommand throws: a SUCCESS is retried as FAILED by executeCommand's catch,
\* a FAILED ends the poll run and drops the rest of its batch.
AckThrows(q) ==
  IF q.result = "SUCCESS"
  THEN [q EXCEPT !.at = "reply", !.result = "FAILED", !.state = NoState]
  ELSE IdlePoll

\* The commands carried out that the runs P are at work on, with rows still open.
Unclosed(P) == {c \in performed : status[c] \notin Terminal /\ \E p \in P : poll[p].current = c}

\* The runs that have a FAILED to report: it is not retried.
Failing == {p \in Polls : poll[p].result = "FAILED"}

\* The ack request, or its response, is lost on the network.
AckLost(p) ==
  /\ Fault("ackLost")
  /\ poll[p].at \in {"reply", "await"}
  /\ poll' = [poll EXCEPT ![p] = AckThrows(@)]
  /\ doubtful' = doubtful \cup Unclosed({p} \cap Failing)
  /\ UNCHANGED <<pc, cmd, status, born, zone, connected, ack, local, performed, beat>>

\* A database statement of the ack handler throws: the agent gets a 500.
AckAbort(p, r) ==
  /\ Fault("ackAbort")
  /\ ack[p][r].at # "idle"
  /\ ack'  = [ack EXCEPT ![p][r] = IdleAck]
  /\ poll' = [poll EXCEPT ![p] = IF @.at = "await" /\ @.result = r THEN AckThrows(@) ELSE @]
  /\ doubtful' = doubtful \cup Unclosed({q \in Failing : q = p /\ poll[q].at = "await" /\ r = "FAILED"})
  /\ UNCHANGED <<pc, cmd, status, born, zone, connected, local, performed, beat>>

\* The response to a poll is lost; its handler still marks the rows.
PollLost(p) ==
  /\ Fault("pollLost")
  /\ poll[p].at = "listed"
  /\ poll' = [poll EXCEPT ![p].at = "orphan"]
  /\ UNCHANGED <<pc, cmd, status, born, zone, connected, ack, local, performed, doubtful, beat>>

\* The agent process dies; requests inside the backend run to their end.
AgentCrash ==
  /\ Fault("agentCrash")
  /\ poll' = [p \in Polls |-> IF poll[p].at \in {"listed", "orphan"}
                              THEN [poll[p] EXCEPT !.at = "orphan"] ELSE IdlePoll]
  /\ doubtful' = doubtful \cup Unclosed(Polls)
  /\ UNCHANGED <<pc, cmd, status, born, zone, connected, ack, local, performed, beat>>

\* The backend restarts: waiters, lastSeen and every request in flight are gone.
BackendCrash ==
  /\ Fault("backendCrash")
  /\ pc'  = [c \in Commands |-> IF pc[c] \in InFlight THEN "lost" ELSE pc[c]]
  /\ ack' = [p \in Polls |-> [r \in Results |-> IdleAck]]
  /\ poll' = [p \in Polls |-> CASE poll[p].at = "await" -> AckThrows(poll[p])
                                [] poll[p].at \in {"listed", "orphan"} -> IdlePoll
                                [] OTHER -> poll[p]]
  /\ beat' = [z \in {} |-> "PLAYING"]
  /\ connected' = FALSE
  /\ doubtful' = doubtful \cup Unclosed({p \in Failing : poll[p].at = "await"})
  /\ UNCHANGED <<cmd, status, born, zone, local, performed>>

FaultStep ==
  \/ \E p \in Polls : AckLost(p) \/ PollLost(p) \/ \E r \in Results : AckAbort(p, r)
  \/ AgentCrash \/ BackendCrash

Next ==
  \/ \E c \in Commands : Issue(c) \/ Serve(c) \/ Tick(c) \/ Schedule(c)
  \/ \E p \in Polls : PollRun(p) \/ \E r \in Results : AckHandler(p, r)
  \/ Heartbeat \/ (\E z \in Zones : SyncZone(z)) \/ GoStale
  \/ FaultStep

Spec == Init /\ [][Next]_vars

\* The backend's event loop, the scheduler's loop over its zones, the agent's
\* timers (set by start() and never cleared while it is paired), the handlers of
\* requests that arrived and the ack timer all make progress. Users, staleness
\* and faults are not fair.
Fairness ==
  /\ \A c \in Commands : WF_vars(Serve(c)) /\ WF_vars(Schedule(c))
  /\ \A p \in Polls : /\ WF_vars(PollRun(p))
                      /\ \A r \in Results : WF_vars(AckHandler(p, r))
  /\ WF_vars(Heartbeat)
  /\ \A z \in Zones : WF_vars(SyncZone(z))

FairSpec == Spec /\ Fairness

-----------------------------------------------------------------------------
(* Properties                                                              *)

Rows    == [target : Zones \cup {None}, kind : {"NONE"} \cup TransportKinds \cup ServerKinds,
            source : {"NONE", "USER", "SUPER_ADMIN", "SCHEDULE"}, sequence : Nat]
ZoneRow == [commandSequence : Nat, lastAppliedSequence : Nat,
            playbackState : Playback, pausedByPrayer : BOOLEAN]
PollRec == [at : {"idle", "listed", "orphan", "run", "ran", "reply", "await"},
            batch : SUBSET Commands, unsent : SUBSET Commands, current : Commands \cup {None},
            result : Results, state : Playback \cup {NoState}]
AckRec  == [at : {"idle", "read", "written", "stored"},
            command : Commands \cup {None}, state : Playback \cup {NoState}]

\* Every variable has its type.
TypeOK ==
  /\ pc \in [Commands -> PcValues]
  /\ cmd \in [Commands -> Rows]
  /\ status \in [Commands -> Statuses]
  /\ born \in [Commands -> Nat]
  /\ zone \in [Zones -> ZoneRow]
  /\ connected \in BOOLEAN
  /\ poll \in [Polls -> PollRec]
  /\ ack \in [Polls -> [Results -> AckRec]]
  /\ local \in [Zones -> Playback]
  /\ performed \subseteq Commands /\ doubtful \subseteq Commands
  /\ DOMAIN beat \subseteq Zones /\ beat \in [DOMAIN beat -> Playback]
  /\ faults \in 0 .. MaxFaults

\* A command is only ever shown as successful, in its row or in the answer to the
\* request, when the venue PC carried it out: "the UI never assumes success on
\* send", through duplicated polls, retried and late acks, timeouts and restarts.
SuccessWasPerformed ==
  \A c \in Commands : status[c] = "SUCCESS" \/ pc[c] = "succeeded" => c \in performed

\* A command refused because the venue is offline is recorded FAILED and is never
\* delivered afterwards: "nothing is queued for later delivery".
RefusedNeverDelivered ==
  \A c \in Commands : pc[c] = "refused" =>
    /\ status[c] = "FAILED"
    /\ c \notin performed
    /\ \A p \in Polls : c \notin poll[p].batch /\ poll[p].current # c

\* When a zone transport request has been answered, with success or an error, its
\* row is closed: it is "never left PENDING for the UI to poll".
AnsweredIsClosed ==
  \A c \in Commands : pc[c] \in {"succeeded", "failed"} => status[c] \in Terminal

\* No two commands of a zone carry the same sequence number, however their
\* requests and the prayer scheduler interleave, and none is ahead of its zone.
SequencesDistinct ==
  \A c \in Commands : cmd[c].sequence > 0 =>
    /\ cmd[c].sequence <= zone[cmd[c].target].commandSequence
    /\ \A d \in Commands : d # c /\ cmd[d].target = cmd[c].target
                             => cmd[d].sequence # cmd[c].sequence

\* What a zone calls its last applied sequence is the sequence of a command of
\* that zone which the venue PC really carried out.
AppliedWasPerformed ==
  \A z \in Zones : zone[z].lastAppliedSequence > 0 =>
    \E c \in performed : /\ cmd[c].target = z
                         /\ cmd[c].sequence = zone[z].lastAppliedSequence

\* No command is carried out twice (a NEXT never skips two tracks), through lost polls and
\* acks, retries and restarts, but for three ways of the code: two poll runs held it at the same
\* time; it was carried out and the agent gave up reporting it while its row was open; or a
\* late mark of a poll reopened its closed row.
PerformedOnce == \A p \in Polls, c \in Commands : IsNext(p, c) /\ c \in performed => c \in doubtful

\* Every row ends up closed for good, so long as faults stop: server-level and
\* scheduled commands too, which no request waits for.
AllSettle == <>[](\A c \in Commands : status[c] \in Terminal \cup {"NONE"})

\* Every request in flight is answered (or dies with the backend process).
RequestsAnswered == \A c \in Commands : pc[c] \in InFlight ~> pc[c] \notin InFlight

\* Once commands cease, the zone shown by the portal is the zone that is playing,
\* whatever the acks, timeouts and optimistic effects left behind.
CloudConverges == <>[](\A z \in Zones : zone[z].playbackState = local[z])

-----------------------------------------------------------------------------
(* Why the invariants hold: what every step preserves                      *)

\* The row of c exists and was not a refusal: only such a row reaches the agent.
Delivered(c) == status[c] # "NONE" /\ pc[c] # "refused"

\* A row that does not exist yet belongs to a request that has not inserted it;
\* a row is PENDING only when no request waits for it.
RowsFollowRequests ==
  \A c \in Commands :
    /\ pc[c] \in {"idle", "due", "flagged", "bumped"} => status[c] = "NONE"
    /\ pc[c] = "refused" => status[c] = "FAILED"
    /\ pc[c] \in (InFlight \ {"due", "flagged", "bumped"})
                   \cup {"queued", "succeeded", "failed"} => status[c] # "NONE"
    /\ status[c] = "PENDING" => pc[c] = "queued"
    /\ pc[c] = "idle" => cmd[c] = NoCommand
    /\ pc[c] \in {"due", "flagged"} => cmd[c].sequence = 0
    /\ pc[c] \in InFlight \cup {"succeeded"} => cmd[c].target \in Zones
    /\ cmd[c].sequence > 0 => cmd[c].target \in Zones

\* The agent and the ack handlers only ever hold delivered commands.
OnlyDelivered ==
  /\ \A c \in performed : Delivered(c)
  /\ \A p \in Polls :
       /\ \A c \in poll[p].batch : Delivered(c)
       /\ \A c \in poll[p].unsent : pc[c] = "queued" /\ status[c] # "NONE"
       /\ poll[p].current # None => Delivered(poll[p].current)
       /\ poll[p].at \in {"ran", "reply", "await"} => poll[p].current # None
       /\ \A r \in Results : ack[p][r].at # "idle" =>
            ack[p][r].command # None /\ Delivered(ack[p][r].command)

\* A success on its way to the cloud is the success of a performed command, and
\* the zoneState that travels with it is that of the command's own zone.
EvidenceInTransit ==
  /\ \A p \in Polls :
       /\ poll[p].at = "ran" =>
            /\ poll[p].result = "SUCCESS" /\ poll[p].current \in performed
            /\ cmd[poll[p].current].target \in Zones
       /\ poll[p].at \in {"reply", "await"} /\ poll[p].result = "SUCCESS" =>
            poll[p].current \in performed
       /\ poll[p].state # NoState =>
            /\ poll[p].at \in {"reply", "await"} /\ poll[p].result = "SUCCESS"
            /\ cmd[poll[p].current].target \in Zones
       /\ ack[p]["SUCCESS"].at # "idle" => ack[p]["SUCCESS"].command \in performed
       /\ \A r \in Results :
            /\ ack[p][r].state # NoState =>
                 /\ ack[p][r].at # "idle" /\ r = "SUCCESS"
                 /\ cmd[ack[p][r].command].target \in Zones
            /\ ack[p][r].at = "written" => ack[p][r].state # NoState
  /\ \A c \in Commands :
       status[c] = "SUCCESS" \/ pc[c] \in {"check", "effect", "apply", "succeeded"}
         => c \in performed

\* A request that is past its wait, or an ack past its write, has closed the row.
ClosedRows ==
  /\ \A c \in Commands : pc[c] \in {"acked", "check", "effect", "apply", "succeeded", "failed"}
                           => status[c] \in Terminal
  /\ \A p \in Polls, r \in Results :
       ack[p][r].at \in {"written", "stored"} /\ pc[ack[p][r].command] # "queued"
         => status[ack[p][r].command] \in Terminal

IInv ==
  /\ TypeOK /\ RowsFollowRequests /\ OnlyDelivered /\ EvidenceInTransit /\ ClosedRows
  /\ SequencesDistinct /\ AppliedWasPerformed

-----------------------------------------------------------------------------
(* The promise to the requester, and its refinement                        *)

Answer(c) ==
  CASE pc[c] = "refused"   -> "refused"
    [] pc[c] = "succeeded" -> "ok"
    [] pc[c] = "failed"    -> "error"
    [] OTHER               -> IF status[c] = "NONE" THEN "none" ELSE "open"

Promise == INSTANCE CommandPromise
           WITH answer <- [c \in Commands |-> Answer(c)], done <- performed

\* The whole path, with every fault, implements the promise of CommandPromise:
\* one answer, "ok" only after the venue PC acted, no late delivery of a refusal.
PromiseKept == Promise!Spec

-----------------------------------------------------------------------------
(* What the documentation says and the code does not keep                  *)

\* agent.ts:291-294: a command "already in a terminal state (the cloud gave up and
\* recorded TIMEOUT, or a duplicate/delayed ack repeats a status already recorded)
\* must not be re-resolved". The ack handler checks one read and writes with another
\* statement, the expired waiter writes TIMEOUT unseen, and a poll marks SENT whatever
\* it had read PENDING.
ClosedIsFinal ==
  [][\A c \in Commands : status[c] \in Terminal => status'[c] = status[c]]_vars

\* README.md:236-239: "an effect whose `sequence` is behind the zone's
\* `lastAppliedSequence` is discarded rather than clobbering a newer action".
AppliedNeverRegresses ==
  [][\A z \in Zones : zone'[z].lastAppliedSequence >= zone[z].lastAppliedSequence]_vars

\* README.md:232-235: "a Super Admin action still clears `pausedByPrayer`
\* immediately". The ack path that records a zoneState never does.
OverrideClearsPrayer ==
  [][\A c \in Commands :
       cmd[c].source = "SUPER_ADMIN" /\ pc[c] # "succeeded" /\ pc'[c] = "succeeded"
         => ~zone'[cmd[c].target].pausedByPrayer]_vars

=============================================================================
