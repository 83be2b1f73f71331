------------------------ MODULE RemoteCommandsProofs ------------------------
(***************************************************************************)
(* What holds of the remote-command path for every number of commands,     *)
(* zones and overlapping poll runs, and for any number of faults.          *)
(***************************************************************************)
EXTENDS RemoteCommands, FiniteSetTheorems, TLAPS

\* The rank a row is born with is a natural number.
LEMMA RankIsNat == Rank \in Nat
  <1>1. IsFiniteSet({c \in Commands : status[c] # "NONE"})
    BY ConstantsOK, FS_Subset
  <1>2. Cardinality({c \in Commands : status[c] # "NONE"}) \in Nat
    BY <1>1, FS_CardinalityType
  <1>3. QED
    BY <1>2 DEF Rank

\* What a poll run turns into is a poll run.
LEMMA ContinueType == \A b \in SUBSET Commands : Continue(b) \in PollRec
  BY DEF Continue, IdlePoll, PollRec, Results

LEMMA ContinueFields ==
  \A b : /\ Continue(b).at \in {"idle", "run"} /\ Continue(b).batch = b
         /\ Continue(b).unsent = {} /\ Continue(b).current = None
         /\ Continue(b).result = "SUCCESS" /\ Continue(b).state = NoState
  BY DEF Continue, IdlePoll

LEMMA AckThrowsType == \A q \in PollRec : AckThrows(q) \in PollRec
  BY DEF AckThrows, IdlePoll, PollRec, Results

LEMMA TakeSequenceType ==
  ASSUME TypeOK, NEW c \in Commands, NEW z \in Zones,
         NEW k \in {"NONE"} \cup TransportKinds \cup ServerKinds,
         NEW s \in {"USER", "SUPER_ADMIN", "SCHEDULE"}, TakeSequence(c, z, k, s)
  PROVE  /\ cmd' \in [Commands -> Rows]
         /\ zone' \in [Zones -> ZoneRow]
         /\ pc' \in [Commands -> PcValues]
  <1>1. zone[z].commandSequence + 1 \in Nat
    BY DEF TypeOK, ZoneRow
  <1>2. cmd' \in [Commands -> Rows]
    BY <1>1 DEF TypeOK, Rows, TakeSequence
  <1>3. zone' \in [Zones -> ZoneRow]
    BY DEF TypeOK, ZoneRow, TakeSequence
  <1>4. pc' \in [Commands -> PcValues]
    BY DEF TypeOK, PcValues, InFlight, TakeSequence
  <1>5. QED
    BY <1>2, <1>3, <1>4

LEMMA InsertRowType ==
  ASSUME TypeOK, NEW c \in Commands, NEW st \in Statuses, InsertRow(c, st)
  PROVE  status' \in [Commands -> Statuses] /\ born' \in [Commands -> Nat]
  BY RankIsNat DEF TypeOK, InsertRow

\* Every step keeps every variable in its type. A poll run reads back the zone of
\* its command, so that the type of what it reports rests on EvidenceInTransit.
LEMMA TypeStep == IInv /\ [Next]_vars => TypeOK'
  <1> SUFFICES ASSUME TypeOK, RowsFollowRequests, OnlyDelivered, EvidenceInTransit, [Next]_vars
               PROVE  TypeOK'
    BY DEF IInv
  <1>1. CASE UNCHANGED vars
    BY <1>1 DEF vars, TypeOK
  <1>2. ASSUME NEW c \in Commands, Issue(c) PROVE TypeOK'
    <2>1. ASSUME NEW z \in Zones, NEW k \in TransportKinds,
                 NEW s \in {"USER", "SUPER_ADMIN"}, Refuse(c, z, k, s)
          PROVE  TypeOK'
      <3>1. cmd' \in [Commands -> Rows]
        BY <2>1 DEF TypeOK, Refuse, Rows
      <3>2. pc' \in [Commands -> PcValues] /\ status' \in [Commands -> Statuses]
        BY <2>1 DEF TypeOK, Refuse, PcValues, Statuses, Terminal
      <3>3. born' \in [Commands -> Nat]
        BY <2>1, RankIsNat DEF TypeOK, Refuse
      <3>4. QED
        BY <2>1, <3>1, <3>2, <3>3 DEF TypeOK, Refuse
    <2>2. ASSUME NEW z \in Zones, NEW k \in TransportKinds,
                 NEW s \in {"USER", "SUPER_ADMIN"}, BumpSequence(c, z, k, s)
          PROVE  TypeOK'
      BY <2>2, TakeSequenceType DEF TypeOK, BumpSequence
    <2>3. ASSUME NEW k \in ServerKinds, CreateServerCommand(c, k)
          PROVE  TypeOK'
      <3>1. cmd' \in [Commands -> Rows]
        BY <2>3 DEF TypeOK, CreateServerCommand, Rows
      <3>2. pc' \in [Commands -> PcValues]
        BY <2>3 DEF TypeOK, CreateServerCommand, PcValues
      <3>3. "PENDING" \in Statuses
        BY DEF Statuses, Open
      <3>4. QED
        BY <2>3, <3>1, <3>2, <3>3, InsertRowType DEF TypeOK, CreateServerCommand
    <2>4. Sources \ {"SCHEDULE"} \subseteq {"USER", "SUPER_ADMIN"}
      BY ConstantsOK
    <2>5. QED
      BY <1>2, <2>1, <2>2, <2>3, <2>4 DEF Issue
  <1>3. ASSUME NEW c \in Commands, Serve(c) PROVE TypeOK'
    <2>1. CASE CreateRow(c)
      <3>1. "SENT" \in Statuses
        BY DEF Statuses, Open
      <3>2. pc' \in [Commands -> PcValues]
        BY <2>1 DEF TypeOK, CreateRow, PcValues, InFlight
      <3>3. QED
        BY <2>1, <3>1, <3>2, InsertRowType DEF TypeOK, CreateRow
    <2>2. ASSUME NEW from, NEW to \in PcValues, Step(c, from, to) PROVE TypeOK'
      BY <2>2 DEF TypeOK, Step
    <2>3. CASE ArmWaiter(c) \/ AckTimeout(c) \/ ReadOutcome(c) \/ CheckApplied(c) \/ ReadZone(c)
      BY <2>2, <2>3 DEF ArmWaiter, AckTimeout, ReadOutcome, CheckApplied, ReadZone,
                        PcValues, InFlight
    <2>4. CASE RecordTimeout(c)
      BY <2>4 DEF TypeOK, RecordTimeout, PcValues, Statuses, Terminal
    <2>5. CASE ApplyEffect(c)
      <3> DEFINE old == zone[cmd[c].target]
                 row == [old EXCEPT !.lastAppliedSequence = cmd[c].sequence,
                            !.playbackState = Effect(cmd[c].kind, old.playbackState),
                            !.pausedByPrayer =
                              (old.pausedByPrayer /\ cmd[c].source # "SUPER_ADMIN")]
      <3>1. cmd[c].target \in Zones /\ cmd[c].sequence \in Nat
        BY <2>5 DEF ApplyEffect, RowsFollowRequests, InFlight, TypeOK, Rows
      <3>2. old \in ZoneRow
        BY <3>1 DEF TypeOK
      <3>3. Effect(cmd[c].kind, old.playbackState) \in Playback
        BY <3>2 DEF Effect, Playback, ZoneRow
      <3>4. row \in ZoneRow
        BY <3>1, <3>2, <3>3 DEF ZoneRow
      <3>5. zone' = [zone EXCEPT ![cmd[c].target] = row]
        BY <2>5 DEF ApplyEffect
      <3> HIDE DEF row
      <3>6. zone' \in [Zones -> ZoneRow] /\ pc' \in [Commands -> PcValues]
        BY <2>5, <3>4, <3>5 DEF ApplyEffect, TypeOK, PcValues
      <3>7. QED
        BY <2>5, <3>6 DEF ApplyEffect, TypeOK
    <2>6. QED
      BY <1>3, <2>1, <2>3, <2>4, <2>5 DEF Serve
  <1>4. ASSUME NEW c \in Commands, Tick(c) PROVE TypeOK'
    <2>1. PICK z \in Zones, k \in {"PAUSE", "PLAY"} : PrayerDue(c, z, k)
      BY <1>4 DEF Tick
    <2>2. cmd' \in [Commands -> Rows] /\ pc' \in [Commands -> PcValues]
      BY <2>1 DEF PrayerDue, TypeOK, Rows, TransportKinds, PcValues, InFlight
    <2>3. QED
      BY <2>1, <2>2 DEF PrayerDue, TypeOK
  <1>5. ASSUME NEW c \in Commands, Schedule(c) PROVE TypeOK'
    <2>1. CASE PrayerFlag(c)
      BY <2>1 DEF PrayerFlag, TypeOK, ZoneRow, PcValues, InFlight
    <2>2. CASE PrayerBump(c)
      <3>1. cmd[c].target \in Zones /\ cmd[c].kind \in {"NONE"} \cup TransportKinds \cup ServerKinds
        BY <2>2 DEF PrayerBump, TypeOK, RowsFollowRequests, InFlight, Rows
      <3>2. QED
        BY <2>2, <3>1, TakeSequenceType DEF PrayerBump, TypeOK
    <2>3. CASE PrayerCreate(c)
      <3>1. "PENDING" \in Statuses
        BY DEF Statuses, Open
      <3>2. pc' \in [Commands -> PcValues]
        BY <2>3 DEF TypeOK, PrayerCreate, PcValues
      <3>3. QED
        BY <2>3, <3>1, <3>2, InsertRowType DEF TypeOK, PrayerCreate
    <2>4. QED
      BY <1>5, <2>1, <2>2, <2>3 DEF Schedule
  <1>6. ASSUME NEW p \in Polls, PollRun(p) PROVE TypeOK'
    <2>0. poll[p] \in PollRec
      BY DEF TypeOK
    <2>1. CASE PollList(p)
      <3>1. poll' \in [Polls -> PollRec]
        BY <2>1 DEF PollList, TypeOK, PollRec, IdlePoll, Results
      <3>2. doubtful' \subseteq Commands
        BY <2>1, <3>1 DEF PollList, AlsoHeld, TypeOK, PollRec
      <3>3. QED
        BY <2>1, <3>1, <3>2 DEF PollList, TypeOK
    <2>2. CASE PollMark(p)
      <3>1. Continue(poll[p].batch) \in PollRec /\ IdlePoll \in PollRec
        BY <2>0, ContinueType DEF PollRec, IdlePoll, Results
      <3>2. poll' \in [Polls -> PollRec]
        BY <2>2, <3>1 DEF PollMark, TypeOK
      <3>3. status' \in [Commands -> Statuses]
        BY <2>2 DEF PollMark, TypeOK, Statuses, Open
      <3>4. doubtful' \subseteq Commands
        BY <2>0, <2>2 DEF PollMark, TypeOK, PollRec
      <3>5. QED
        BY <2>2, <3>2, <3>3, <3>4 DEF PollMark, TypeOK
    <2>3. CASE ReadBack(p)
      <3>1. cmd[poll[p].current].target \in Zones
        BY <2>3 DEF ReadBack, EvidenceInTransit
      <3>2. PICK s \in {local[cmd[poll[p].current].target], NoState} :
               poll' = [poll EXCEPT ![p] = [poll[p] EXCEPT !.at = "reply", !.state = s]]
        BY <2>3 DEF ReadBack
      <3>3. s \in Playback \cup {NoState}
        BY <3>1, <3>2 DEF TypeOK
      <3>4. [poll[p] EXCEPT !.at = "reply", !.state = s] \in PollRec
        BY <2>0, <3>3 DEF PollRec
      <3>5. QED
        BY <2>3, <3>2, <3>4 DEF ReadBack, TypeOK
    <2>4. CASE AckRead(p)
      <3>1. Continue(poll[p].batch) \in PollRec /\ [poll[p] EXCEPT !.at = "await"] \in PollRec
        BY <2>0, ContinueType DEF PollRec
      <3>2. poll' \in [Polls -> PollRec]
        BY <2>4, <3>1 DEF AckRead, TypeOK
      <3>3. [at |-> "read", command |-> poll[p].current, state |-> poll[p].state] \in AckRec
        BY <2>0 DEF PollRec, AckRec
      <3>4. ack' \in [Polls -> [Results -> AckRec]]
        <4>1. ack' = ack \/
              ack' = [ack EXCEPT ![p] = [ack[p] EXCEPT ![poll[p].result] =
                [at |-> "read", command |-> poll[p].current, state |-> poll[p].state]]]
          BY <2>4 DEF AckRead
        <4>2. ack[p] \in [Results -> AckRec]
          BY DEF TypeOK
        <4>3. [ack[p] EXCEPT ![poll[p].result] =
                [at |-> "read", command |-> poll[p].current, state |-> poll[p].state]]
                \in [Results -> AckRec]
          BY <3>3, <4>2
        <4>4. QED
          BY <4>1, <4>3 DEF TypeOK
      <3>5. QED
        BY <2>4, <3>2, <3>4 DEF AckRead, TypeOK
    <2>5. ASSUME NEW c \in Commands, RunSucceeds(p, c) PROVE TypeOK'
      <3>1. poll' \in [Polls -> PollRec]
        BY <2>0, <2>5 DEF RunSucceeds, Ran, TypeOK, PollRec, Results
      <3>2. LocalEffect(cmd[c].kind, local[cmd[c].target]) \in Playback
              \/ cmd[c].target \notin Zones
        BY DEF LocalEffect, Effect, Playback, TypeOK
      <3>3. local' \in [Zones -> Playback]
        BY <2>5, <3>2 DEF RunSucceeds, TypeOK
      <3>4. QED
        BY <2>5, <3>1, <3>3 DEF RunSucceeds, TypeOK
    <2>6. ASSUME NEW c \in Commands, RunFails(p, c) PROVE TypeOK'
      <3>1. poll' \in [Polls -> PollRec]
        BY <2>0, <2>6 DEF RunFails, Ran, TypeOK, PollRec, Results
      <3>2. QED
        BY <2>6, <3>1 DEF RunFails, TypeOK
    <2>7. QED
      BY <1>6, <2>1, <2>2, <2>3, <2>4, <2>5, <2>6 DEF PollRun
  <1>7. ASSUME NEW p \in Polls, NEW r \in Results, AckHandler(p, r) PROVE TypeOK'
    <2>1. CASE AckWrite(p, r)
      <3>1. r \in Statuses
        BY DEF Results, Statuses, Terminal
      <3>2. status' \in [Commands -> Statuses]
        BY <2>1, <3>1 DEF AckWrite, TypeOK
      <3>3. ack' \in [Polls -> [Results -> AckRec]]
        BY <2>1 DEF AckWrite, TypeOK, AckRec
      <3>4. QED
        BY <2>1, <3>2, <3>3 DEF AckWrite, TypeOK
    <2>2. CASE AckZone(p, r)
      <3> DEFINE z == cmd[ack[p][r].command].target
                 row == [zone[z] EXCEPT !.playbackState = ack[p][r].state,
                           !.lastAppliedSequence = cmd[ack[p][r].command].sequence]
      <3>1. ack[p][r].state # NoState /\ z \in Zones
        BY <2>2 DEF AckZone, EvidenceInTransit
      <3>2. ack[p][r] \in AckRec
        BY DEF TypeOK
      <3>3. ack[p][r].state \in Playback
        BY <3>1, <3>2 DEF AckRec
      <3>4. ack[p][r].command \in Commands
        BY <2>2, <3>2 DEF AckZone, AckRec, OnlyDelivered
      <3>5. row \in ZoneRow
        BY <3>1, <3>3, <3>4 DEF TypeOK, ZoneRow, Rows
      <3>6. zone' = [zone EXCEPT ![z] = row]
        BY <2>2 DEF AckZone
      <3> HIDE DEF row
      <3>7. zone' \in [Zones -> ZoneRow]
        BY <3>5, <3>6 DEF TypeOK
      <3>8. ack' \in [Polls -> [Results -> AckRec]]
        <4>1. [ack[p][r] EXCEPT !.at = "stored"] \in AckRec
          BY <3>2 DEF AckRec
        <4>2. ack' = [ack EXCEPT ![p] = [ack[p] EXCEPT ![r] = [ack[p][r] EXCEPT !.at = "stored"]]]
          BY <2>2 DEF AckZone
        <4>3. QED
          BY <4>1, <4>2 DEF TypeOK
      <3>9. QED
        BY <2>2, <3>4, <3>7, <3>8 DEF AckZone, TypeOK
    <2>3. CASE AckResolve(p, r)
      <3>1. IdleAck \in AckRec
        BY DEF IdleAck, AckRec
      <3>2. ack' \in [Polls -> [Results -> AckRec]]
        BY <2>3, <3>1 DEF AckResolve, TypeOK
      <3>3. Continue(poll[p].batch) \in PollRec
        BY ContinueType DEF TypeOK, PollRec
      <3>4. poll' \in [Polls -> PollRec]
        BY <2>3, <3>3 DEF AckResolve, TypeOK
      <3>5. pc' \in [Commands -> PcValues]
        BY <2>3 DEF AckResolve, TypeOK, PcValues, InFlight
      <3>6. QED
        BY <2>3, <3>2, <3>4, <3>5 DEF AckResolve, TypeOK
    <2>4. QED
      BY <1>7, <2>1, <2>2, <2>3 DEF AckHandler
  <1>8. CASE Heartbeat
    BY <1>8 DEF Heartbeat, TypeOK
  <1>9. ASSUME NEW z \in Zones, SyncZone(z) PROVE TypeOK'
    <2>1. zone' \in [Zones -> ZoneRow]
      BY <1>9 DEF SyncZone, TypeOK, ZoneRow
    <2>2. connected' \in BOOLEAN /\ DOMAIN beat' \subseteq Zones /\ beat' \in [DOMAIN beat' -> Playback]
      BY <1>9 DEF SyncZone, TypeOK
    <2>3. QED
      BY <1>9, <2>1, <2>2 DEF SyncZone, TypeOK
  <1>10. CASE GoStale
    BY <1>10 DEF GoStale, TypeOK
  <1>11. CASE FaultStep
    <2>1. ASSUME NEW kind, Fault(kind) PROVE faults' \in 0 .. MaxFaults
      BY <2>1, ConstantsOK DEF Fault, TypeOK
    <2>2. \A p \in Polls : poll[p] \in PollRec /\ AckThrows(poll[p]) \in PollRec
      BY AckThrowsType DEF TypeOK
    <2>3. IdlePoll \in PollRec /\ IdleAck \in AckRec
      BY DEF IdlePoll, PollRec, Results, IdleAck, AckRec
    <2>0. \A P : Unclosed(P) \subseteq Commands
      BY DEF Unclosed, TypeOK
    <2>4. ASSUME NEW p \in Polls, AckLost(p) PROVE TypeOK'
      BY <2>0, <2>1, <2>2, <2>4 DEF AckLost, TypeOK
    <2>5. ASSUME NEW p \in Polls, PollLost(p) PROVE TypeOK'
      <3>1. poll' \in [Polls -> PollRec]
        BY <2>2, <2>5 DEF PollLost, TypeOK, PollRec
      <3>2. QED
        BY <2>1, <2>5, <3>1 DEF PollLost, TypeOK
    <2>6. ASSUME NEW p \in Polls, NEW r \in Results, AckAbort(p, r) PROVE TypeOK'
      BY <2>0, <2>1, <2>2, <2>3, <2>6 DEF AckAbort, TypeOK
    <2>7. CASE AgentCrash
      <3>1. \A p \in Polls : [poll[p] EXCEPT !.at = "orphan"] \in PollRec
        BY <2>2 DEF PollRec
      <3>2. poll' \in [Polls -> PollRec]
        BY <2>3, <2>7, <3>1 DEF AgentCrash, TypeOK
      <3>3. QED
        BY <2>0, <2>1, <2>7, <3>2 DEF AgentCrash, TypeOK
    <2>8. CASE BackendCrash
      <3>1. poll' \in [Polls -> PollRec]
        BY <2>2, <2>3, <2>8 DEF BackendCrash, TypeOK
      <3>2. pc' \in [Commands -> PcValues]
        BY <2>8 DEF BackendCrash, TypeOK, PcValues
      <3>3. ack' \in [Polls -> [Results -> AckRec]]
        BY <2>3, <2>8 DEF BackendCrash
      <3>4. QED
        BY <2>0, <2>1, <2>8, <3>1, <3>2, <3>3 DEF BackendCrash, TypeOK
    <2>9. QED
      BY <1>11, <2>4, <2>5, <2>6, <2>7, <2>8 DEF FaultStep
  <1>12. QED
    BY <1>1, <1>2, <1>3, <1>4, <1>5, <1>6, <1>7, <1>8, <1>9, <1>10, <1>11 DEF Next

-----------------------------------------------------------------------------
(* Which steps touch which part of the state                               *)

\* Rows and requests change only in the handlers of commands.ts, the scheduler, the
\* poll handler's update, the ack handler's writes and a restart of the backend.
LEMMA RequestSteps ==
  ASSUME [Next]_vars
  PROVE  \/ UNCHANGED <<pc, cmd, status>>
         \/ \E c \in Commands : Issue(c) \/ Serve(c) \/ Tick(c) \/ Schedule(c)
         \/ \E p \in Polls : PollMark(p)
         \/ \E p \in Polls, r \in Results : AckWrite(p, r) \/ AckResolve(p, r)
         \/ BackendCrash
  <1>1. CASE UNCHANGED vars
    BY <1>1 DEF vars
  <1>2. ASSUME NEW p \in Polls, PollRun(p) PROVE UNCHANGED <<pc, cmd, status>> \/ PollMark(p)
    BY <1>2 DEF PollRun, PollList, ReadBack, AckRead, RunSucceeds, RunFails
  <1>3. ASSUME NEW p \in Polls, NEW r \in Results, AckZone(p, r)
        PROVE  UNCHANGED <<pc, cmd, status>>
    BY <1>3 DEF AckZone
  <1>4. ASSUME Heartbeat \/ (\E z \in Zones : SyncZone(z)) \/ GoStale
        PROVE  UNCHANGED <<pc, cmd, status>>
    BY <1>4 DEF Heartbeat, SyncZone, GoStale
  <1>5. ASSUME FaultStep PROVE UNCHANGED <<pc, cmd, status>> \/ BackendCrash
    BY <1>5 DEF FaultStep, AckLost, PollLost, AckAbort, AgentCrash
  <1>6. QED
    BY <1>1, <1>2, <1>3, <1>4, <1>5 DEF Next, AckHandler

\* Requests and the scheduler never touch the agent's side or the ack handlers.
LEMMA RequestsKeepAgent ==
  ASSUME NEW c \in Commands, Issue(c) \/ Serve(c) \/ Tick(c) \/ Schedule(c)
  PROVE  UNCHANGED <<poll, ack, local, performed>>
  BY DEF Issue, Refuse, BumpSequence, CreateServerCommand, Serve, CreateRow, ArmWaiter,
         AckTimeout, RecordTimeout, ReadOutcome, CheckApplied, ReadZone, ApplyEffect, Step,
         Tick, PrayerDue, Schedule, PrayerFlag, PrayerBump, PrayerCreate

\* The agent's poll runs and the ack handlers change only here.
LEMMA AgentSteps ==
  ASSUME [Next]_vars
  PROVE  \/ UNCHANGED <<poll, ack, performed>>
         \/ \E p \in Polls : PollRun(p) \/ \E r \in Results : AckHandler(p, r)
         \/ FaultStep
  <1>1. ASSUME NEW c \in Commands, Issue(c) \/ Serve(c) \/ Tick(c) \/ Schedule(c)
        PROVE  UNCHANGED <<poll, ack, performed>>
    BY <1>1, RequestsKeepAgent
  <1>2. ASSUME Heartbeat \/ (\E z \in Zones : SyncZone(z)) \/ GoStale
        PROVE  UNCHANGED <<poll, ack, performed>>
    BY <1>2 DEF Heartbeat, SyncZone, GoStale
  <1>3. QED
    BY <1>1, <1>2 DEF Next, vars

\* How an ack handler of the backend moves in a step.
AckMoved(p, r) ==
  LET h == ack[p][r] IN
  \/ ack'[p][r] = h
  \/ ack'[p][r] = IdleAck
  \/ AckRead(p) /\ r = poll[p].result
       /\ ack'[p][r] = [at |-> "read", command |-> poll[p].current, state |-> poll[p].state]
  \/ AckWrite(p, r) /\ ack'[p][r] = [at |-> IF h.state = NoState THEN "stored" ELSE "written",
                                     command |-> h.command, state |-> h.state]
  \/ AckZone(p, r) /\ ack'[p][r] = [at |-> "stored", command |-> h.command, state |-> h.state]

LEMMA AckMoves ==
  ASSUME TypeOK, [Next]_vars, NEW p \in Polls, NEW r \in Results
  PROVE  AckMoved(p, r)
  <1>0. ack[p][r] \in AckRec /\ poll[p] \in PollRec
    BY DEF TypeOK
  <1>1. CASE UNCHANGED <<poll, ack, performed>>
    BY <1>1 DEF AckMoved
  <1>2. ASSUME NEW q \in Polls, PollRun(q) PROVE AckMoved(p, r)
    <2>1. CASE AckRead(q)
      <3>1. CASE ack' = ack
        BY <3>1 DEF AckMoved
      <3>2. CASE ack' = [ack EXCEPT ![q][poll[q].result] = [at |-> "read",
                           command |-> poll[q].current, state |-> poll[q].state]]
        <4>1. CASE p = q /\ r = poll[q].result
          BY <2>1, <3>2, <4>1 DEF AckMoved, TypeOK
        <4>2. CASE ~(p = q /\ r = poll[q].result)
          BY <3>2, <4>2 DEF AckMoved, TypeOK
        <4>3. QED
          BY <4>1, <4>2
      <3>3. QED
        BY <2>1, <3>1, <3>2 DEF AckRead
    <2>2. CASE ack' = ack
      BY <2>2 DEF AckMoved
    <2>3. QED
      BY <1>2, <2>1, <2>2 DEF PollRun, PollList, PollMark, ReadBack, RunSucceeds, RunFails
  <1>3. ASSUME NEW q \in Polls, NEW s \in Results, AckHandler(q, s) PROVE AckMoved(p, r)
    <2>1. CASE ~(p = q /\ r = s)
      <3>1. ack'[p][r] = ack[p][r]
        BY <1>3, <2>1 DEF TypeOK, AckHandler, AckWrite, AckZone, AckResolve
      <3>2. QED
        BY <3>1 DEF AckMoved
    <2>2. CASE p = q /\ r = s
      <3>1. CASE AckWrite(p, r)
        <4>1. ack'[p][r] = [ack[p][r] EXCEPT !.at =
                              IF ack[p][r].state = NoState THEN "stored" ELSE "written"]
          BY <3>1 DEF TypeOK, AckWrite
        <4>2. QED
          BY <1>0, <3>1, <4>1 DEF AckMoved, AckRec
      <3>2. CASE AckZone(p, r)
        <4>1. ack'[p][r] = [ack[p][r] EXCEPT !.at = "stored"]
          BY <3>2 DEF TypeOK, AckZone
        <4>2. QED
          BY <1>0, <3>2, <4>1 DEF AckMoved, AckRec
      <3>3. CASE AckResolve(p, r)
        BY <3>3 DEF AckMoved, TypeOK, AckResolve
      <3>4. QED
        BY <1>3, <2>2, <3>1, <3>2, <3>3 DEF AckHandler
    <2>3. QED
      BY <2>1, <2>2
  <1>4. CASE FaultStep
    <2>1. ASSUME NEW q \in Polls, NEW s \in Results, AckAbort(q, s) PROVE AckMoved(p, r)
      BY <2>1 DEF AckMoved, AckAbort, TypeOK
    <2>2. CASE BackendCrash
      BY <2>2 DEF AckMoved, BackendCrash
    <2>3. CASE ack' = ack
      BY <2>3 DEF AckMoved
    <2>4. QED
      BY <1>4, <2>1, <2>2, <2>3 DEF FaultStep, AckLost, PollLost, AgentCrash
  <1>5. QED
    BY <1>1, <1>2, <1>3, <1>4, AgentSteps

\* How a poll run of the agent moves in a step.
PollMoved(p) ==
  \/ poll'[p] \in {poll[p], IdlePoll}
  \/ poll[p].at \in {"listed", "reply", "await"} /\ poll'[p] = Continue(poll[p].batch)
  \/ PollList(p) \/ ReadBack(p)
  \/ \E c \in Commands : RunSucceeds(p, c) \/ RunFails(p, c)
  \/ AckRead(p) /\ poll'[p] = [poll[p] EXCEPT !.at = "await"]
  \/ poll[p].at \in {"listed", "orphan"} /\ poll'[p] = [poll[p] EXCEPT !.at = "orphan"]
  \/ poll[p].at \in {"reply", "await"} /\ poll'[p] = AckThrows(poll[p])

LEMMA PollMoves ==
  ASSUME TypeOK, [Next]_vars, NEW p \in Polls
  PROVE  PollMoved(p)
  <1>1. CASE poll' = poll
    BY <1>1 DEF PollMoved
  <1>2. ASSUME NEW q \in Polls, PollRun(q) PROVE PollMoved(p)
    <2>1. CASE p # q
      BY <1>2, <2>1 DEF PollMoved, TypeOK, PollRun, PollList, PollMark, ReadBack, AckRead,
                        RunSucceeds, RunFails, Ran
    <2>2. CASE p = q
      <3>1. CASE PollMark(p)
        BY <3>1 DEF PollMoved, TypeOK, PollMark
      <3>2. CASE AckRead(p)
        BY <3>2 DEF PollMoved, TypeOK, AckRead
      <3>3. QED
        BY <1>2, <2>2, <3>1, <3>2 DEF PollMoved, PollRun
    <2>3. QED
      BY <2>1, <2>2
  <1>3. ASSUME NEW q \in Polls, NEW s \in Results, AckHandler(q, s) PROVE PollMoved(p)
    BY <1>3 DEF PollMoved, TypeOK, AckHandler, AckWrite, AckZone, AckResolve
  <1>4. CASE FaultStep
    <2>1. ASSUME NEW q \in Polls, AckLost(q) PROVE PollMoved(p)
      BY <2>1 DEF PollMoved, TypeOK, AckLost
    <2>2. ASSUME NEW q \in Polls, PollLost(q) PROVE PollMoved(p)
      BY <2>2 DEF PollMoved, TypeOK, PollLost
    <2>3. ASSUME NEW q \in Polls, NEW s \in Results, AckAbort(q, s) PROVE PollMoved(p)
      BY <2>3 DEF PollMoved, TypeOK, AckAbort
    <2>4. CASE AgentCrash
      BY <2>4 DEF PollMoved, AgentCrash
    <2>5. CASE BackendCrash
      BY <2>5 DEF PollMoved, BackendCrash
    <2>6. QED
      BY <1>4, <2>1, <2>2, <2>3, <2>4, <2>5 DEF FaultStep
  <1>5. QED
    BY <1>1, <1>2, <1>3, <1>4, AgentSteps

\* Only a poll run that succeeds performs a command; nothing is undone.
LEMMA PerformedMoves ==
  ASSUME [Next]_vars
  PROVE  \/ performed' = performed
         \/ \E p \in Polls, c \in Commands : RunSucceeds(p, c) /\ performed' = performed \cup {c}
  <1>1. ASSUME NEW p \in Polls, PollRun(p)
        PROVE  performed' = performed \/ \E c \in Commands : RunSucceeds(p, c)
    BY <1>1 DEF PollRun, PollList, PollMark, ReadBack, AckRead, RunFails
  <1>2. ASSUME NEW p \in Polls, NEW r \in Results, AckHandler(p, r) PROVE performed' = performed
    BY <1>2 DEF AckHandler, AckWrite, AckZone, AckResolve
  <1>3. ASSUME FaultStep PROVE performed' = performed
    BY <1>3 DEF FaultStep, AckLost, PollLost, AckAbort, AgentCrash, BackendCrash
  <1>4. ASSUME NEW p \in Polls, NEW c \in Commands, RunSucceeds(p, c)
        PROVE  performed' = performed \cup {c}
    BY <1>4 DEF RunSucceeds
  <1>5. QED
    BY <1>1, <1>2, <1>3, <1>4, AgentSteps

\* A delivered command keeps its columns and stays delivered, a command that no
\* request waits for keeps it so, and a row is never deleted.
LEMMA DeliveredStays ==
  ASSUME IInv, [Next]_vars, NEW d \in Commands
  PROVE  /\ Delivered(d) => Delivered(d)' /\ cmd'[d] = cmd[d]
         /\ pc[d] = "queued" => pc'[d] = "queued"
         /\ status[d] # "NONE" => status'[d] # "NONE"
  <1> USE DEF Delivered
  <1>0. TypeOK /\ RowsFollowRequests /\ OnlyDelivered
    BY DEF IInv
  <1>1. CASE UNCHANGED <<pc, cmd, status>>
    BY <1>1
  <1>2. ASSUME NEW c \in Commands, Issue(c) \/ Tick(c)
        PROVE  /\ Delivered(d) => Delivered(d)' /\ cmd'[d] = cmd[d]
               /\ pc[d] = "queued" => pc'[d] = "queued"
               /\ status[d] # "NONE" => status'[d] # "NONE"
    BY <1>0, <1>2 DEF TypeOK, RowsFollowRequests, Issue, Refuse, BumpSequence, TakeSequence,
                      CreateServerCommand, InsertRow, Tick, PrayerDue
  <1>3. ASSUME NEW c \in Commands, Serve(c) \/ Schedule(c)
        PROVE  /\ Delivered(d) => Delivered(d)' /\ cmd'[d] = cmd[d]
               /\ pc[d] = "queued" => pc'[d] = "queued"
               /\ status[d] # "NONE" => status'[d] # "NONE"
    BY <1>0, <1>3 DEF TypeOK, RowsFollowRequests, Serve, CreateRow, ArmWaiter, AckTimeout,
                      RecordTimeout, ReadOutcome, CheckApplied, ReadZone, ApplyEffect, Step,
                      InsertRow, Schedule, PrayerFlag, PrayerBump, TakeSequence, PrayerCreate
  <1>4. ASSUME NEW p \in Polls, PollMark(p)
        PROVE  /\ Delivered(d) => Delivered(d)' /\ cmd'[d] = cmd[d]
               /\ pc[d] = "queued" => pc'[d] = "queued"
               /\ status[d] # "NONE" => status'[d] # "NONE"
    BY <1>4 DEF PollMark
  <1>5. ASSUME NEW p \in Polls, NEW r \in Results, AckWrite(p, r) \/ AckResolve(p, r)
        PROVE  /\ Delivered(d) => Delivered(d)' /\ cmd'[d] = cmd[d]
               /\ pc[d] = "queued" => pc'[d] = "queued"
               /\ status[d] # "NONE" => status'[d] # "NONE"
    BY <1>0, <1>5 DEF TypeOK, AckWrite, AckResolve, Results
  <1>6. CASE BackendCrash
    BY <1>0, <1>6 DEF TypeOK, BackendCrash, InFlight
  <1>7. QED
    BY <1>1, <1>2, <1>3, <1>4, <1>5, <1>6, RequestSteps

\* A closed row whose request is served by a waiter stays closed.
LEMMA ClosedStays ==
  ASSUME IInv, [Next]_vars, NEW d \in Commands, pc[d] # "queued", status[d] \in Terminal
  PROVE  status'[d] \in Terminal
  <1>0. TypeOK /\ RowsFollowRequests /\ OnlyDelivered
    BY DEF IInv
  <1>1. CASE UNCHANGED <<pc, cmd, status>>
    BY <1>1
  <1>2. ASSUME NEW c \in Commands, Issue(c) \/ Tick(c) PROVE status'[d] \in Terminal
    BY <1>0, <1>2 DEF TypeOK, RowsFollowRequests, Issue, Refuse, BumpSequence, Terminal,
                      CreateServerCommand, InsertRow, Tick, PrayerDue
  <1>3. ASSUME NEW c \in Commands, Serve(c) \/ Schedule(c) PROVE status'[d] \in Terminal
    BY <1>0, <1>3 DEF TypeOK, RowsFollowRequests, Serve, CreateRow, ArmWaiter, AckTimeout,
                      RecordTimeout, ReadOutcome, CheckApplied, ReadZone, ApplyEffect, Step,
                      InsertRow, Schedule, PrayerFlag, PrayerBump, PrayerCreate, Terminal
  <1>4. ASSUME NEW p \in Polls, PollMark(p) PROVE status'[d] \in Terminal
    BY <1>0, <1>4 DEF PollMark, OnlyDelivered
  <1>5. ASSUME NEW p \in Polls, NEW r \in Results, AckWrite(p, r) \/ AckResolve(p, r)
        PROVE  status'[d] \in Terminal
    BY <1>0, <1>5 DEF TypeOK, AckWrite, AckResolve, Results, Terminal
  <1>6. CASE BackendCrash
    BY <1>6 DEF BackendCrash
  <1>7. QED
    BY <1>1, <1>2, <1>3, <1>4, <1>5, <1>6, RequestSteps

-----------------------------------------------------------------------------
(* Each part of the inductive invariant is preserved                       *)

LEMMA RowsStep == IInv /\ [Next]_vars => RowsFollowRequests'
  <1> DEFINE Row(c) == /\ pc[c] \in {"idle", "due", "flagged", "bumped"} => status[c] = "NONE"
                       /\ pc[c] = "refused" => status[c] = "FAILED"
                       /\ pc[c] \in (InFlight \ {"due", "flagged", "bumped"})
                                      \cup {"queued", "succeeded", "failed"} => status[c] # "NONE"
                       /\ status[c] = "PENDING" => pc[c] = "queued"
                       /\ pc[c] = "idle" => cmd[c] = NoCommand
                       /\ pc[c] \in {"due", "flagged"} => cmd[c].sequence = 0
                       /\ pc[c] \in InFlight \cup {"succeeded"} => cmd[c].target \in Zones
                       /\ cmd[c].sequence > 0 => cmd[c].target \in Zones
  <1> SUFFICES ASSUME IInv, [Next]_vars, NEW d \in Commands PROVE Row(d)'
    BY DEF RowsFollowRequests
  <1>0. TypeOK /\ Row(d) /\ OnlyDelivered
    BY DEF IInv, RowsFollowRequests
  <1>1. CASE UNCHANGED <<pc, cmd, status>>
    BY <1>0, <1>1
  <1>2. ASSUME NEW c \in Commands, Issue(c) PROVE Row(d)'
    BY <1>0, <1>2 DEF TypeOK, Issue, Refuse, BumpSequence, TakeSequence, CreateServerCommand,
                      InsertRow, InFlight
  <1>3. ASSUME NEW c \in Commands, Serve(c) PROVE Row(d)'
    BY <1>0, <1>3 DEF TypeOK, Serve, CreateRow, ArmWaiter, AckTimeout, RecordTimeout,
                      ReadOutcome, CheckApplied, ReadZone, ApplyEffect, Step, InsertRow, InFlight
  <1>4. ASSUME NEW c \in Commands, Tick(c) \/ Schedule(c) PROVE Row(d)'
    BY <1>0, <1>4 DEF TypeOK, Tick, PrayerDue, Schedule, PrayerFlag, PrayerBump, PrayerCreate,
                      TakeSequence, InsertRow, InFlight
  <1>5. ASSUME NEW p \in Polls, PollMark(p) PROVE Row(d)'
    BY <1>0, <1>5 DEF TypeOK, PollMark, OnlyDelivered, InFlight
  <1>6. ASSUME NEW p \in Polls, NEW r \in Results, AckWrite(p, r) PROVE Row(d)'
    <2>1. Delivered(ack[p][r].command)
      BY <1>0, <1>6 DEF AckWrite, OnlyDelivered
    <2>2. QED
      BY <1>0, <1>6, <2>1 DEF TypeOK, AckWrite, Delivered, Results, InFlight
  <1>7. ASSUME NEW p \in Polls, NEW r \in Results, AckResolve(p, r) PROVE Row(d)'
    BY <1>0, <1>7 DEF TypeOK, AckResolve, InFlight
  <1>8. CASE BackendCrash
    BY <1>0, <1>8 DEF TypeOK, BackendCrash, InFlight
  <1>9. QED
    BY <1>1, <1>2, <1>3, <1>4, <1>5, <1>6, <1>7, <1>8, RequestSteps

LEMMA DeliveredStep == IInv /\ [Next]_vars => OnlyDelivered'
  <1> SUFFICES ASSUME IInv, [Next]_vars PROVE OnlyDelivered'
    OBVIOUS
  <1>0. TypeOK /\ OnlyDelivered /\ RowsFollowRequests
    BY DEF IInv
  <1>1. \A d \in Commands : /\ Delivered(d) => Delivered(d)'
                            /\ pc[d] = "queued" => pc'[d] = "queued"
                            /\ status[d] # "NONE" => status'[d] # "NONE"
    BY DeliveredStays
  <1> DEFINE Kept(p) == /\ \A c \in poll[p].batch : Delivered(c)
                        /\ \A c \in poll[p].unsent : pc[c] = "queued" /\ status[c] # "NONE"
                        /\ poll[p].current # None => Delivered(poll[p].current)
                        /\ poll[p].at \in {"ran", "reply", "await"} => poll[p].current # None
             Acks(p, r) == ack[p][r].at # "idle" =>
                             ack[p][r].command # None /\ Delivered(ack[p][r].command)
  <1>2. ASSUME NEW p \in Polls
        PROVE  poll[p] \in PollRec /\ Kept(p) /\ \A r \in Results : ack[p][r] \in AckRec /\ Acks(p, r)
    BY <1>0 DEF TypeOK, OnlyDelivered
  <1>3. ASSUME NEW p \in Polls, NEW r \in Results PROVE Acks(p, r)'
    <2>1. ack[p][r] \in AckRec /\ Acks(p, r) /\ poll[p] \in PollRec /\ Kept(p)
      BY <1>2
    <2>2. ack'[p][r].at # "idle" =>
            \/ ack[p][r].at # "idle" /\ ack'[p][r].command = ack[p][r].command
            \/ poll[p].at = "reply" /\ ack'[p][r].command = poll[p].current
      <3>1. AckMoved(p, r)
        BY <1>0, AckMoves
      <3>2. AckRead(p) => poll[p].at = "reply"
        BY DEF AckRead
      <3>3. AckWrite(p, r) \/ AckZone(p, r) => ack[p][r].at # "idle"
        BY DEF AckWrite, AckZone
      <3>4. QED
        BY <3>1, <3>2, <3>3 DEF AckMoved, IdleAck
    <2>3. QED
      BY <1>1, <2>1, <2>2 DEF AckRec, PollRec
  <1>4. ASSUME NEW p \in Polls PROVE Kept(p)'
    <2>1. poll[p] \in PollRec /\ Kept(p)
      BY <1>2
    <2>2. CASE poll'[p] \in {poll[p], IdlePoll, Continue(poll[p].batch)}
      <3>1. CASE poll'[p] = poll[p]
        BY <1>1, <2>1, <3>1 DEF PollRec
      <3>2. CASE poll'[p] \in {IdlePoll, Continue(poll[p].batch)}
        <4>1. /\ poll'[p].batch \subseteq poll[p].batch /\ poll'[p].unsent = {}
              /\ poll'[p].current = None /\ poll'[p].at \in {"idle", "run"}
          BY <3>2, ContinueFields DEF IdlePoll
        <4>2. QED
          BY <1>1, <2>1, <4>1 DEF PollRec, Delivered
      <3>3. QED
        BY <2>2, <3>1, <3>2
    <2>3. CASE PollList(p)
      BY <1>0, <2>3 DEF TypeOK, PollList, IdlePoll, Delivered, RowsFollowRequests, Open
    <2>4. CASE ReadBack(p)
      BY <1>0, <1>1, <2>1, <2>4 DEF TypeOK, ReadBack, PollRec
    <2>5. ASSUME NEW c \in Commands, RunSucceeds(p, c) \/ RunFails(p, c) PROVE Kept(p)'
      <3>1. Delivered(c)
        BY <2>1, <2>5 DEF RunSucceeds, RunFails, IsNext
      <3>2. poll'[p].batch = poll[p].batch \ {c} /\ poll'[p].unsent = {} /\ poll'[p].current = c
        BY <1>0, <2>5 DEF TypeOK, RunSucceeds, RunFails, Ran
      <3>3. QED
        BY <1>1, <2>1, <3>1, <3>2, ConstantsOK DEF PollRec
    <2>6. CASE AckRead(p) /\ poll'[p] = [poll[p] EXCEPT !.at = "await"]
      BY <1>1, <2>1, <2>6 DEF AckRead, PollRec
    <2>7. CASE poll[p].at \in {"listed", "orphan"} /\ poll'[p] = [poll[p] EXCEPT !.at = "orphan"]
      BY <1>1, <2>1, <2>7 DEF PollRec
    <2>8. CASE poll[p].at \in {"reply", "await"} /\ poll'[p] = AckThrows(poll[p])
      BY <1>1, <2>1, <2>8 DEF AckThrows, IdlePoll, PollRec
    <2>9. QED
      BY <1>0, <2>2, <2>3, <2>4, <2>5, <2>6, <2>7, <2>8, PollMoves DEF PollMoved
  <1>5. ASSUME NEW c \in performed' PROVE Delivered(c)'
    <2>1. ASSUME NEW p \in Polls, NEW d \in Commands, RunSucceeds(p, d) PROVE Delivered(d)
      BY <1>2, <2>1 DEF RunSucceeds, IsNext
    <2>2. QED
      BY <1>0, <1>1, <1>5, <2>1, PerformedMoves DEF TypeOK, OnlyDelivered
  <1>6. QED
    BY <1>3, <1>4, <1>5 DEF OnlyDelivered

LEMMA EvidenceStep == IInv /\ [Next]_vars => EvidenceInTransit'
  <1> SUFFICES ASSUME IInv, [Next]_vars PROVE EvidenceInTransit'
    OBVIOUS
  <1>0. TypeOK /\ OnlyDelivered /\ RowsFollowRequests /\ EvidenceInTransit
    BY DEF IInv
  <1>1. ASSUME NEW d \in Commands, Delivered(d) PROVE cmd'[d] = cmd[d]
    BY <1>1, DeliveredStays
  <1>2. performed \subseteq performed'
    BY PerformedMoves
  <1> DEFINE Runs(p) == /\ poll[p].at = "ran" =>
                             /\ poll[p].result = "SUCCESS"
                             /\ poll[p].current \in performed
                             /\ cmd[poll[p].current].target \in Zones
                        /\ poll[p].at \in {"reply", "await"} /\ poll[p].result = "SUCCESS" =>
                             poll[p].current \in performed
                        /\ poll[p].state # NoState =>
                             /\ poll[p].at \in {"reply", "await"} /\ poll[p].result = "SUCCESS"
                             /\ cmd[poll[p].current].target \in Zones
             Acks(p, r) == /\ r = "SUCCESS" /\ ack[p][r].at # "idle" =>
                                ack[p][r].command \in performed
                           /\ ack[p][r].state # NoState =>
                                /\ ack[p][r].at # "idle" /\ r = "SUCCESS"
                                /\ cmd[ack[p][r].command].target \in Zones
                           /\ ack[p][r].at = "written" => ack[p][r].state # NoState
             Shown(c) == status[c] = "SUCCESS" \/ pc[c] \in {"check", "effect", "apply", "succeeded"}
                           => c \in performed
  <1>3. ASSUME NEW p \in Polls
        PROVE  /\ poll[p] \in PollRec /\ Runs(p)
               /\ poll[p].at \in {"ran", "reply", "await"} =>
                    poll[p].current \in Commands /\ Delivered(poll[p].current)
    BY <1>0, ConstantsOK DEF TypeOK, EvidenceInTransit, OnlyDelivered, PollRec, Results
  <1>4. ASSUME NEW p \in Polls, NEW r \in Results
        PROVE  /\ ack[p][r] \in AckRec /\ Acks(p, r)
               /\ ack[p][r].at # "idle" =>
                    ack[p][r].command \in Commands /\ Delivered(ack[p][r].command)
    BY <1>0, ConstantsOK DEF TypeOK, EvidenceInTransit, OnlyDelivered, AckRec, Results
  <1>5. ASSUME NEW p \in Polls PROVE Runs(p)'
    <2>1. /\ poll[p] \in PollRec /\ Runs(p)
          /\ poll[p].at \in {"ran", "reply", "await"} =>
               poll[p].current \in Commands /\ Delivered(poll[p].current)
      BY <1>3
    <2>2. CASE poll'[p] = poll[p]
      BY <1>1, <1>2, <2>1, <2>2
    <2>3. CASE poll'[p] \in {IdlePoll, Continue(poll[p].batch)} \/ PollList(p)
      <3>1. poll'[p].at \in {"idle", "run", "listed"} /\ poll'[p].state = NoState
        <4>1. PollList(p) => poll'[p].at = "listed" /\ poll'[p].state = NoState
          BY <1>0 DEF TypeOK, PollList, IdlePoll
        <4>2. IdlePoll.at = "idle" /\ IdlePoll.state = NoState
          BY DEF IdlePoll
        <4>3. QED
          BY <2>3, <4>1, <4>2, ContinueFields
      <3>2. QED
        BY <3>1
    <2>4. CASE ReadBack(p)
      <3>1. /\ poll[p].at = "ran" /\ poll[p].result = poll'[p].result
            /\ poll'[p].at = "reply" /\ poll'[p].current = poll[p].current
        <4>1. PICK st \in {local[cmd[poll[p].current].target], NoState} :
                 poll' = [poll EXCEPT ![p] = [poll[p] EXCEPT !.at = "reply", !.state = st]]
          BY <2>4 DEF ReadBack
        <4>2. poll'[p] = [poll[p] EXCEPT !.at = "reply", !.state = st]
          BY <1>0, <4>1 DEF TypeOK
        <4>3. QED
          BY <2>1, <2>4, <4>2 DEF ReadBack, PollRec
      <3>2. QED
        BY <1>1, <1>2, <2>1, <3>1
    <2>5. ASSUME NEW c \in Commands, RunSucceeds(p, c) PROVE Runs(p)'
      <3>1. /\ poll'[p].current = c /\ poll'[p].result = "SUCCESS" /\ poll'[p].state = NoState
            /\ c \in performed' /\ cmd' = cmd
            /\ poll'[p].at = IF cmd[c].target = None THEN "reply" ELSE "ran"
        BY <1>0, <2>5 DEF TypeOK, RunSucceeds, Ran
      <3>2. QED
        BY <1>0, <3>1 DEF TypeOK, Rows
    <2>6. ASSUME NEW c \in Commands, RunFails(p, c) PROVE Runs(p)'
      <3>1. /\ poll'[p].result = "FAILED" /\ poll'[p].state = NoState /\ poll'[p].at = "reply"
        BY <1>0, <2>6 DEF TypeOK, RunFails, Ran
      <3>2. QED
        BY <3>1
    <2>7. CASE AckRead(p) /\ poll'[p] = [poll[p] EXCEPT !.at = "await"]
      <3>1. /\ poll[p].at = "reply" /\ poll'[p].at = "await" /\ cmd' = cmd
            /\ poll'[p].result = poll[p].result /\ poll'[p].state = poll[p].state
            /\ poll'[p].current = poll[p].current
        BY <2>1, <2>7 DEF AckRead, PollRec
      <3>2. QED
        BY <1>2, <2>1, <3>1
    <2>8. CASE poll[p].at \in {"listed", "orphan"} /\ poll'[p] = [poll[p] EXCEPT !.at = "orphan"]
      <3>1. poll'[p].at = "orphan" /\ poll'[p].state = poll[p].state
        BY <2>1, <2>8 DEF PollRec
      <3>2. QED
        BY <2>1, <2>8, <3>1
    <2>9. CASE poll[p].at \in {"reply", "await"} /\ poll'[p] = AckThrows(poll[p])
      <3>1. /\ poll'[p].state = NoState /\ poll'[p].at \in {"idle", "reply"}
            /\ poll'[p].at = "reply" => poll'[p].result = "FAILED"
        BY <2>1, <2>9 DEF AckThrows, IdlePoll, PollRec
      <3>2. QED
        BY <3>1
    <2>10. QED
      BY <1>0, <2>2, <2>3, <2>4, <2>5, <2>6, <2>7, <2>8, <2>9, PollMoves DEF PollMoved
  <1>6. ASSUME NEW p \in Polls, NEW r \in Results PROVE Acks(p, r)'
    <2>1. /\ ack[p][r] \in AckRec /\ Acks(p, r)
          /\ ack[p][r].at # "idle" =>
               ack[p][r].command \in Commands /\ Delivered(ack[p][r].command)
      BY <1>4
    <2>2. CASE ack'[p][r] = ack[p][r]
      BY <1>1, <1>2, <2>1, <2>2
    <2>3. CASE ack'[p][r] = IdleAck
      BY <2>3 DEF IdleAck
    <2>4. CASE AckRead(p) /\ r = poll[p].result
                 /\ ack'[p][r] = [at |-> "read", command |-> poll[p].current,
                                  state |-> poll[p].state]
      BY <1>2, <1>3, <2>4 DEF AckRead
    <2>5. CASE /\ AckWrite(p, r) \/ AckZone(p, r)
               /\ \/ ack'[p][r] = [at |-> IF ack[p][r].state = NoState THEN "stored" ELSE "written",
                                   command |-> ack[p][r].command, state |-> ack[p][r].state]
                  \/ ack'[p][r] = [at |-> "stored", command |-> ack[p][r].command,
                                   state |-> ack[p][r].state]
      <3>1. ack[p][r].at # "idle" /\ cmd' = cmd
        BY <2>5 DEF AckWrite, AckZone
      <3>2. QED
        BY <1>2, <2>1, <2>5, <3>1
    <2>6. QED
      BY <1>0, <2>2, <2>3, <2>4, <2>5, AckMoves DEF AckMoved
  <1>7. ASSUME NEW c \in Commands PROVE Shown(c)'
    <2>1. Shown(c)
      BY <1>0 DEF EvidenceInTransit
    <2> USE <1>0, <1>2, <2>1 DEF TypeOK
    <2>2. CASE UNCHANGED <<pc, cmd, status>>
      BY <2>2
    <2>3. ASSUME NEW d \in Commands, Issue(d) \/ Tick(d) \/ Schedule(d) PROVE Shown(c)'
      BY <2>3 DEF Issue, Refuse, BumpSequence, TakeSequence, CreateServerCommand, InsertRow,
                  Tick, PrayerDue, Schedule, PrayerFlag, PrayerBump, PrayerCreate
    <2>4. ASSUME NEW d \in Commands, Serve(d) PROVE Shown(c)'
      BY <2>4 DEF Serve, CreateRow, ArmWaiter, AckTimeout, RecordTimeout, ReadOutcome,
                  CheckApplied, ReadZone, ApplyEffect, Step, InsertRow
    <2>5. ASSUME NEW p \in Polls, PollMark(p) PROVE Shown(c)'
      BY <2>5 DEF PollMark
    <2>6. ASSUME NEW p \in Polls, NEW r \in Results, AckWrite(p, r) PROVE Shown(c)'
      <3>1. r = "SUCCESS" => ack[p][r].command \in performed
        BY <1>4, <2>6 DEF AckWrite
      <3>2. QED
        BY <2>6, <3>1 DEF AckWrite
    <2>7. ASSUME NEW p \in Polls, NEW r \in Results, AckResolve(p, r) PROVE Shown(c)'
      BY <2>7 DEF AckResolve
    <2>8. CASE BackendCrash
      BY <2>8 DEF BackendCrash
    <2>9. QED
      BY <2>2, <2>3, <2>4, <2>5, <2>6, <2>7, <2>8, RequestSteps
  <1>8. QED
    BY <1>5, <1>6, <1>7 DEF EvidenceInTransit, Results

LEMMA ClosedStep == IInv /\ [Next]_vars => ClosedRows'
  <1> SUFFICES ASSUME IInv, [Next]_vars PROVE ClosedRows'
    OBVIOUS
  <1>0. TypeOK /\ OnlyDelivered /\ RowsFollowRequests /\ EvidenceInTransit /\ ClosedRows
    BY DEF IInv
  <1>1. \A d \in Commands : pc[d] # "queued" /\ status[d] \in Terminal => status'[d] \in Terminal
    BY ClosedStays
  <1>2. \A d \in Commands : pc[d] = "queued" => pc'[d] = "queued"
    BY DeliveredStays
  <1> DEFINE Answered(c) == pc[c] \in {"acked", "check", "effect", "apply", "succeeded", "failed"}
                              => status[c] \in Terminal
             Acks(p, r) == ack[p][r].at \in {"written", "stored"} /\ pc[ack[p][r].command] # "queued"
                             => status[ack[p][r].command] \in Terminal
  <1>3. ASSUME NEW p \in Polls, NEW r \in Results
        PROVE  /\ Acks(p, r)
               /\ ack[p][r].at # "idle" => ack[p][r].command \in Commands
    BY <1>0, ConstantsOK DEF TypeOK, ClosedRows, OnlyDelivered, AckRec
  <1>4. ASSUME NEW c \in Commands PROVE Answered(c)'
    <2>1. Answered(c)
      BY <1>0 DEF ClosedRows
    <2> USE <1>0, <2>1 DEF TypeOK, Terminal
    <2>2. CASE UNCHANGED <<pc, cmd, status>>
      BY <2>2
    <2>3. ASSUME NEW d \in Commands, Issue(d) \/ Tick(d) \/ Schedule(d) PROVE Answered(c)'
      BY <2>3 DEF Issue, Refuse, BumpSequence, TakeSequence, CreateServerCommand, InsertRow,
                  Tick, PrayerDue, Schedule, PrayerFlag, PrayerBump, PrayerCreate
    <2>4. ASSUME NEW d \in Commands, Serve(d) PROVE Answered(c)'
      BY <2>4 DEF Serve, CreateRow, ArmWaiter, AckTimeout, RecordTimeout, ReadOutcome,
                  CheckApplied, ReadZone, ApplyEffect, Step, InsertRow
    <2>5. ASSUME NEW p \in Polls, PollMark(p) PROVE Answered(c)'
      BY <2>5 DEF PollMark, OnlyDelivered
    <2>6. ASSUME NEW p \in Polls, NEW r \in Results, AckWrite(p, r) PROVE Answered(c)'
      BY <2>6 DEF AckWrite, Results
    <2>7. ASSUME NEW p \in Polls, NEW r \in Results, AckResolve(p, r) PROVE Answered(c)'
      <3>1. ack[p][r].at = "stored" /\ ack[p][r].command \in Commands
        BY <1>3, <2>7 DEF AckResolve
      <3>2. pc[ack[p][r].command] = "waiting" => status[ack[p][r].command] \in Terminal
        BY <1>3, <3>1
      <3>3. QED
        BY <2>7, <3>1, <3>2 DEF AckResolve
    <2>8. CASE BackendCrash
      BY <2>8 DEF BackendCrash
    <2>9. QED
      BY <2>2, <2>3, <2>4, <2>5, <2>6, <2>7, <2>8, RequestSteps
  <1>5. ASSUME NEW p \in Polls, NEW r \in Results PROVE Acks(p, r)'
    <2>1. Acks(p, r) /\ (ack[p][r].at # "idle" => ack[p][r].command \in Commands)
      BY <1>3
    <2>2. CASE ack'[p][r] = ack[p][r]
      BY <1>1, <1>2, <2>1, <2>2
    <2>3. CASE ack'[p][r] = IdleAck
      BY <2>3 DEF IdleAck
    <2>4. CASE ack'[p][r] = [at |-> "read", command |-> poll[p].current, state |-> poll[p].state]
      BY <2>4
    <2>5. CASE AckWrite(p, r) /\ ack'[p][r].command = ack[p][r].command
      <3>1. status' = [status EXCEPT ![ack[p][r].command] = r] /\ ack[p][r].command \in Commands
        BY <2>1, <2>5 DEF AckWrite
      <3>2. status'[ack'[p][r].command] \in Terminal
        BY <1>0, <2>5, <3>1 DEF TypeOK, Results, Terminal
      <3>3. QED
        BY <3>2
    <2>6. CASE AckZone(p, r) /\ ack'[p][r].command = ack[p][r].command
      <3>1. ack[p][r].at = "written" /\ pc' = pc /\ status' = status
        BY <2>6 DEF AckZone
      <3>2. QED
        BY <2>1, <2>6, <3>1
    <2>7. AckMoved(p, r)
      BY <1>0, AckMoves
    <2>8. QED
      BY <2>2, <2>3, <2>4, <2>5, <2>6, <2>7 DEF AckMoved
  <1>6. QED
    BY <1>4, <1>5 DEF ClosedRows

LEMMA SequencesStep == IInv /\ [Next]_vars => SequencesDistinct'
  <1> SUFFICES ASSUME IInv, [Next]_vars PROVE SequencesDistinct'
    OBVIOUS
  <1>0. TypeOK /\ SequencesDistinct /\ RowsFollowRequests
    BY DEF IInv
  <1>1. ASSUME NEW c \in Commands, NEW z \in Zones, NEW k, NEW s, TakeSequence(c, z, k, s),
               cmd[c].sequence = 0
        PROVE  SequencesDistinct'
    BY <1>0, <1>1 DEF TypeOK, SequencesDistinct, RowsFollowRequests, TakeSequence, Rows, ZoneRow
  <1>2. ASSUME NEW c \in Commands, NEW row, row.sequence = 0, zone' = zone,
               cmd' = [cmd EXCEPT ![c] = row]
        PROVE  SequencesDistinct'
    BY <1>0, <1>2 DEF TypeOK, SequencesDistinct
  <1>3. ASSUME cmd' = cmd,
               \A z \in Zones : zone'[z].commandSequence = zone[z].commandSequence
        PROVE  SequencesDistinct'
    BY <1>0, <1>3 DEF SequencesDistinct, RowsFollowRequests
  <1>4. ASSUME NEW c \in Commands, Issue(c) \/ Tick(c) PROVE SequencesDistinct'
    <2>1. ASSUME NEW z \in Zones, NEW k, NEW s, BumpSequence(c, z, k, s) PROVE SequencesDistinct'
      BY <1>0, <1>1, <2>1 DEF BumpSequence, RowsFollowRequests, NoCommand
    <2>2. ASSUME NEW z, NEW k, NEW s,
                 Refuse(c, z, k, s) \/ CreateServerCommand(c, k) \/ PrayerDue(c, z, k)
          PROVE  SequencesDistinct'
      BY <1>2, <2>2 DEF Refuse, CreateServerCommand, PrayerDue
    <2>3. QED
      BY <1>4, <2>1, <2>2 DEF Issue, Tick
  <1>5. ASSUME NEW c \in Commands, Serve(c) PROVE SequencesDistinct'
    <2>1. cmd' = cmd
      BY <1>5 DEF Serve, CreateRow, ArmWaiter, AckTimeout, RecordTimeout, ReadOutcome,
                  CheckApplied, ReadZone, ApplyEffect, Step
    <2>2. \A z \in Zones : zone'[z].commandSequence = zone[z].commandSequence
      <3>1. CASE ApplyEffect(c)
        BY <1>0, <3>1 DEF TypeOK, ZoneRow, ApplyEffect
      <3>2. CASE zone' = zone
        BY <3>2
      <3>3. QED
        BY <1>5, <3>1, <3>2 DEF Serve, CreateRow, ArmWaiter, AckTimeout, RecordTimeout,
                                ReadOutcome, CheckApplied, ReadZone, Step
    <2>3. QED
      BY <1>3, <2>1, <2>2
  <1>6. ASSUME NEW c \in Commands, Schedule(c) PROVE SequencesDistinct'
    <2>1. CASE PrayerBump(c)
      BY <1>0, <1>1, <2>1 DEF PrayerBump, RowsFollowRequests, InFlight
    <2>2. CASE PrayerFlag(c) \/ PrayerCreate(c)
      BY <1>0, <1>3, <2>2 DEF TypeOK, ZoneRow, PrayerFlag, PrayerCreate
    <2>3. QED
      BY <1>6, <2>1, <2>2 DEF Schedule
  <1>7. ASSUME NEW p \in Polls, NEW r \in Results, AckZone(p, r) PROVE SequencesDistinct'
    BY <1>0, <1>3, <1>7 DEF TypeOK, ZoneRow, AckZone
  <1>8. ASSUME NEW z \in Zones, SyncZone(z) PROVE SequencesDistinct'
    BY <1>0, <1>3, <1>8 DEF TypeOK, ZoneRow, SyncZone
  <1>9. CASE UNCHANGED <<cmd, zone>>
    BY <1>3, <1>9
  <1>10. ASSUME NEW p \in Polls, PollRun(p) \/ (\E r \in Results : AckWrite(p, r) \/ AckResolve(p, r))
         PROVE  UNCHANGED <<cmd, zone>>
    BY <1>10 DEF PollRun, PollList, PollMark, ReadBack, AckRead, RunSucceeds, RunFails,
                 AckWrite, AckResolve
  <1>11. ASSUME FaultStep \/ Heartbeat \/ GoStale PROVE UNCHANGED <<cmd, zone>>
    BY <1>11 DEF FaultStep, AckLost, PollLost, AckAbort, AgentCrash, BackendCrash, Heartbeat, GoStale
  <1>12. QED
    BY <1>4, <1>5, <1>6, <1>7, <1>8, <1>9, <1>10, <1>11 DEF Next, AckHandler, vars

LEMMA AppliedStep == IInv /\ [Next]_vars => AppliedWasPerformed'
  <1> SUFFICES ASSUME IInv, [Next]_vars PROVE AppliedWasPerformed'
    OBVIOUS
  <1>0. /\ TypeOK /\ OnlyDelivered /\ RowsFollowRequests
        /\ EvidenceInTransit /\ AppliedWasPerformed
    BY DEF IInv
  <1>1. \A d \in performed : d \in performed' /\ cmd'[d] = cmd[d]
    BY <1>0, DeliveredStays, PerformedMoves DEF TypeOK, OnlyDelivered
  <1>2. ASSUME \A z \in Zones :
                 \/ zone'[z].lastAppliedSequence = zone[z].lastAppliedSequence
                 \/ \E c \in performed : /\ cmd[c].target = z
                                         /\ zone'[z].lastAppliedSequence = cmd[c].sequence
        PROVE  AppliedWasPerformed'
    BY <1>1, <1>2, <1>0 DEF AppliedWasPerformed
  <1>3. ASSUME NEW c \in Commands, Issue(c) \/ Tick(c) \/ Schedule(c) PROVE AppliedWasPerformed'
    <2>1. \A z \in Zones : zone'[z].lastAppliedSequence = zone[z].lastAppliedSequence
      <3>1. ASSUME NEW z \in Zones, NEW k, NEW src, TakeSequence(c, z, k, src)
            PROVE  \A y \in Zones : zone'[y].lastAppliedSequence = zone[y].lastAppliedSequence
        BY <1>0, <3>1 DEF TypeOK, ZoneRow, TakeSequence
      <3>2. CASE zone' = zone
        BY <3>2
      <3>3. CASE PrayerFlag(c)
        BY <1>0, <3>3 DEF TypeOK, ZoneRow, PrayerFlag
      <3>4. CASE PrayerBump(c)
        BY <1>0, <3>1, <3>4 DEF PrayerBump, RowsFollowRequests, InFlight
      <3>5. CASE Issue(c)
        BY <3>1, <3>2, <3>5 DEF Issue, Refuse, BumpSequence, CreateServerCommand
      <3>6. CASE Tick(c) \/ PrayerCreate(c)
        BY <3>2, <3>6 DEF Tick, PrayerDue, PrayerCreate
      <3>7. QED
        BY <1>3, <3>3, <3>4, <3>5, <3>6 DEF Schedule
    <2>2. QED
      BY <1>2, <2>1
  <1>4. ASSUME NEW c \in Commands, Serve(c) PROVE AppliedWasPerformed'
    <2>1. CASE ApplyEffect(c)
      <3>1. c \in performed
        BY <1>0, <2>1 DEF ApplyEffect, EvidenceInTransit
      <3>2. \A z \in Zones : zone'[z].lastAppliedSequence =
                IF z = cmd[c].target THEN cmd[c].sequence ELSE zone[z].lastAppliedSequence
        BY <1>0, <2>1 DEF ApplyEffect, TypeOK, ZoneRow
      <3>3. QED
        BY <1>2, <3>1, <3>2
    <2>2. CASE zone' = zone
      BY <1>2, <2>2
    <2>3. QED
      BY <1>4, <2>1, <2>2 DEF Serve, CreateRow, ArmWaiter, AckTimeout, RecordTimeout, ReadOutcome,
                  CheckApplied, ReadZone, Step
  <1>5. ASSUME NEW p \in Polls, NEW r \in Results, AckZone(p, r) PROVE AppliedWasPerformed'
    <2>1. ack[p][r].command \in performed
      BY <1>0, <1>5 DEF AckZone, EvidenceInTransit
    <2>2. \A z \in Zones : zone'[z].lastAppliedSequence =
              IF z = cmd[ack[p][r].command].target THEN cmd[ack[p][r].command].sequence
              ELSE zone[z].lastAppliedSequence
      BY <1>0, <1>5 DEF AckZone, TypeOK, ZoneRow
    <2>3. QED
      BY <1>2, <2>1, <2>2
  <1>6. ASSUME NEW z \in Zones, SyncZone(z) PROVE AppliedWasPerformed'
    BY <1>0, <1>2, <1>6 DEF TypeOK, ZoneRow, SyncZone
  <1>7. CASE zone' = zone
    BY <1>2, <1>7
  <1>8. ASSUME NEW p \in Polls, PollRun(p) \/ (\E r \in Results : AckWrite(p, r) \/ AckResolve(p, r))
        PROVE  zone' = zone
    BY <1>8 DEF PollRun, PollList, PollMark, ReadBack, AckRead, RunSucceeds, RunFails,
                AckWrite, AckResolve
  <1>9. ASSUME FaultStep \/ Heartbeat \/ GoStale PROVE zone' = zone
    BY <1>9 DEF FaultStep, AckLost, PollLost, AckAbort, AgentCrash, BackendCrash, Heartbeat, GoStale
  <1>10. QED
    BY <1>3, <1>4, <1>5, <1>6, <1>7, <1>8, <1>9 DEF Next, AckHandler, vars

-----------------------------------------------------------------------------
(* The theorems                                                            *)

LEMMA InitIInv == Init => IInv
  <1> SUFFICES ASSUME Init PROVE IInv
    OBVIOUS
  <1>1. TypeOK
    <2>1. IdlePoll \in PollRec /\ IdleAck \in AckRec /\ NoCommand \in Rows
      BY DEF IdlePoll, PollRec, Results, IdleAck, AckRec, NoCommand, Rows
    <2>2. [commandSequence |-> 0, lastAppliedSequence |-> 0,
           playbackState |-> "PLAYING", pausedByPrayer |-> FALSE] \in ZoneRow
      BY DEF ZoneRow, Playback
    <2>3. DOMAIN beat = {} /\ beat \in [DOMAIN beat -> Playback]
      BY DEF Init
    <2>4. /\ pc \in [Commands -> PcValues] /\ status \in [Commands -> Statuses]
          /\ local \in [Zones -> Playback] /\ faults \in 0 .. MaxFaults
      BY ConstantsOK DEF Init, PcValues, Statuses, Playback
    <2>5. QED
      BY <2>1, <2>2, <2>3, <2>4 DEF Init, TypeOK
  <1>2. RowsFollowRequests
    BY DEF Init, RowsFollowRequests, NoCommand, InFlight
  <1>3. OnlyDelivered
    BY DEF Init, OnlyDelivered, IdlePoll, IdleAck
  <1>4. EvidenceInTransit
    BY DEF Init, EvidenceInTransit, IdlePoll, IdleAck, Results
  <1>5. ClosedRows
    BY DEF Init, ClosedRows, IdleAck, Results
  <1>6. SequencesDistinct /\ AppliedWasPerformed
    BY DEF Init, SequencesDistinct, AppliedWasPerformed, NoCommand
  <1>7. QED
    BY <1>1, <1>2, <1>3, <1>4, <1>5, <1>6 DEF IInv

\* The inductive invariant: rows follow their requests, the agent and the ack handlers
\* hold only delivered commands and only true evidence of what was performed.
THEOREM Inductive == Spec => []IInv
  <1>1. IInv /\ [Next]_vars => IInv'
    BY TypeStep, RowsStep, DeliveredStep, EvidenceStep, ClosedStep, SequencesStep, AppliedStep
       DEF IInv
  <1>2. QED
    BY InitIInv, <1>1, PTL DEF Spec

\* Rows, zone rows, poll runs and ack handlers stay in their types, whatever is issued,
\* lost, restarted or repeated.
THEOREM TypeCorrect == Spec => []TypeOK
  <1>1. IInv => TypeOK
    BY DEF IInv
  <1>2. QED
    BY Inductive, <1>1, PTL

\* A success shown to anyone is the success of a command the venue PC carried out.
THEOREM SuccessIsReal == Spec => []SuccessWasPerformed
  <1>1. IInv => SuccessWasPerformed
    BY DEF IInv, EvidenceInTransit, SuccessWasPerformed
  <1>2. QED
    BY Inductive, <1>1, PTL

\* A command refused because the venue is offline is never delivered later.
THEOREM RefusalIsFinal == Spec => []RefusedNeverDelivered
  <1>1. IInv => RefusedNeverDelivered
    BY ConstantsOK DEF IInv, RowsFollowRequests, OnlyDelivered, Delivered, RefusedNeverDelivered
  <1>2. QED
    BY Inductive, <1>1, PTL

\* A zone request that has been answered leaves a closed row behind.
THEOREM AnswerCloses == Spec => []AnsweredIsClosed
  <1>1. IInv => AnsweredIsClosed
    BY DEF IInv, ClosedRows, AnsweredIsClosed
  <1>2. QED
    BY Inductive, <1>1, PTL

\* Commands of a zone never share a sequence number.
THEOREM SequencesAreDistinct == Spec => []SequencesDistinct
  <1>1. IInv => SequencesDistinct
    BY DEF IInv
  <1>2. QED
    BY Inductive, <1>1, PTL

\* The last applied sequence of a zone is that of a command really carried out.
THEOREM AppliedIsReal == Spec => []AppliedWasPerformed
  <1>1. IInv => AppliedWasPerformed
    BY DEF IInv
  <1>2. QED
    BY Inductive, <1>1, PTL

-----------------------------------------------------------------------------
(* The command path implements the promise made to the requester           *)

Answers == [c \in Commands |-> Answer(c)]

\* A step that answers one command and performs none is the abstract Tell.
LEMMA TellOne ==
  ASSUME NEW c \in Commands, NEW from, NEW to, performed' = performed,
         Answer(c) = from, Answer(c)' = to,
         \A d \in Commands \ {c} : Answer(d)' = Answer(d)
  PROVE  Promise!Tell(c, from, to)
  <1>1. Answers' = [Answers EXCEPT ![c] = to]
    BY DEF Answers
  <1>2. QED
    BY <1>1 DEF Promise!Tell, Answers

\* Other commands keep their answers while a request or the scheduler works on c.
LEMMA OthersKeep ==
  ASSUME TypeOK, NEW c \in Commands, Issue(c) \/ Serve(c) \/ Tick(c) \/ Schedule(c)
  PROVE  /\ \A d \in Commands \ {c} : Answer(d)' = Answer(d)
         /\ performed' = performed
         /\ pc' = [pc EXCEPT ![c] = pc'[c]] /\ status' = [status EXCEPT ![c] = status'[c]]
  <1>1. pc' = [pc EXCEPT ![c] = pc'[c]] /\ status' = [status EXCEPT ![c] = status'[c]]
    <2>1. CASE Issue(c) \/ Tick(c)
      BY <2>1 DEF TypeOK, Issue, Refuse, BumpSequence, TakeSequence, CreateServerCommand,
                  InsertRow, Tick, PrayerDue
    <2>2. CASE Serve(c)
      BY <2>2 DEF TypeOK, Serve, CreateRow, ArmWaiter, AckTimeout, RecordTimeout, ReadOutcome,
                  CheckApplied, ReadZone, ApplyEffect, Step, InsertRow
    <2>3. CASE Schedule(c)
      BY <2>3 DEF TypeOK, Schedule, PrayerFlag, PrayerBump, PrayerCreate, TakeSequence, InsertRow
    <2>4. QED
      BY <2>1, <2>2, <2>3
  <1>2. \A d \in Commands \ {c} : pc'[d] = pc[d] /\ status'[d] = status[d]
    BY <1>1 DEF TypeOK
  <1>3. QED
    BY <1>1, <1>2, RequestsKeepAgent DEF Answer

LEMMA PromiseStep ==
  ASSUME IInv, IInv', [Next]_vars
  PROVE  [Promise!Next]_(Promise!vars)
  <1>0. /\ TypeOK /\ TypeOK' /\ RowsFollowRequests /\ RowsFollowRequests'
        /\ OnlyDelivered /\ EvidenceInTransit
    BY DEF IInv
  <1>1. ASSUME performed' = performed, \A d \in Commands : Answer(d)' = Answer(d)
        PROVE  UNCHANGED Promise!vars
    BY <1>1 DEF Promise!vars
  <1>2. ASSUME NEW c \in Commands, Issue(c) \/ Serve(c) \/ Tick(c) \/ Schedule(c)
        PROVE  Promise!Next \/ UNCHANGED Promise!vars
    <2>1. /\ \A d \in Commands \ {c} : Answer(d)' = Answer(d)
          /\ performed' = performed
      BY <1>0, <1>2, OthersKeep
    <2>2. ASSUME Answer(c)' = Answer(c) PROVE UNCHANGED Promise!vars
      BY <1>1, <2>1, <2>2
    <2>3. ASSUME Answer(c) = "none", Answer(c)' \in {"open", "refused"} PROVE Promise!Next
      BY <2>1, <2>3, TellOne DEF Promise!Next, Promise!Accept, Promise!Refuse
    <2>4. ASSUME Answer(c) = "open", Answer(c)' = "error" PROVE Promise!Next
      BY <2>1, <2>4, TellOne DEF Promise!Next, Promise!AnswerError
    <2>5. ASSUME Answer(c) = "open", Answer(c)' = "ok", c \in performed PROVE Promise!Next
      BY <2>1, <2>5, TellOne DEF Promise!Next, Promise!AnswerOk
    <2>6. CASE Issue(c) \/ Tick(c)
      BY <1>0, <2>2, <2>3, <2>6 DEF Answer, TypeOK, RowsFollowRequests, Issue, Refuse,
         BumpSequence, TakeSequence, CreateServerCommand, InsertRow, Tick, PrayerDue
    <2>7. CASE Schedule(c)
      BY <1>0, <2>2, <2>3, <2>7 DEF Answer, TypeOK, RowsFollowRequests, Schedule, PrayerFlag,
         PrayerBump, TakeSequence, PrayerCreate, InsertRow
    <2>8. CASE CreateRow(c)
      BY <1>0, <2>3, <2>8 DEF Answer, TypeOK, RowsFollowRequests, CreateRow, InsertRow
    <2>9. CASE ArmWaiter(c) \/ AckTimeout(c)
      BY <1>0, <2>2, <2>9 DEF Answer, TypeOK, ArmWaiter, AckTimeout, Step
    <2>10. CASE RecordTimeout(c)
      BY <1>0, <2>4, <2>10 DEF Answer, TypeOK, RowsFollowRequests, InFlight, RecordTimeout
    <2>11. CASE ReadOutcome(c)
      BY <1>0, <2>2, <2>4, <2>11 DEF Answer, TypeOK, RowsFollowRequests, InFlight, ReadOutcome, Step
    <2>12. CASE CheckApplied(c) \/ ReadZone(c) \/ ApplyEffect(c)
      <3>1. Answer(c) = "open" /\ c \in performed
        BY <1>0, <2>12 DEF Answer, RowsFollowRequests, InFlight, EvidenceInTransit, CheckApplied,
           ReadZone, ApplyEffect, Step
      <3>2. pc'[c] \in {"effect", "apply", "succeeded"} /\ status' = status
        BY <1>0, <2>12 DEF TypeOK, CheckApplied, ReadZone, ApplyEffect, Step
      <3>3. QED
        BY <1>0, <2>2, <2>5, <3>1, <3>2 DEF Answer, RowsFollowRequests, InFlight
    <2>13. QED
      BY <1>2, <2>6, <2>7, <2>8, <2>9, <2>10, <2>11, <2>12 DEF Serve
  <1>3. ASSUME NEW p \in Polls, NEW c \in Commands, RunSucceeds(p, c) PROVE Promise!Next
    <2>1. Answer(c) \notin {"none", "refused"}
      BY <1>0, <1>3 DEF RunSucceeds, IsNext, OnlyDelivered, Delivered, Answer
    <2>2. Answers' = Answers /\ performed' = performed \cup {c}
      BY <1>3 DEF RunSucceeds, Answers, Answer
    <2>3. Promise!Perform(c)
      BY <2>1, <2>2 DEF Promise!Perform, Answers
    <2>4. QED
      BY <2>3 DEF Promise!Next
  <1>4. ASSUME performed' = performed, \A d \in Commands : 
                 /\ status'[d] = "NONE" <=> status[d] = "NONE"
                 /\ \/ pc'[d] = pc[d]
                    \/ {pc[d], pc'[d]} \cap {"refused", "succeeded", "failed"} = {}
        PROVE  UNCHANGED Promise!vars
    BY <1>1, <1>4 DEF Answer
  <1>5. ASSUME NEW p \in Polls, PollMark(p) PROVE UNCHANGED Promise!vars
    BY <1>0, <1>4, <1>5 DEF PollMark, OnlyDelivered
  <1>6. ASSUME NEW p \in Polls, NEW r \in Results, AckHandler(p, r) PROVE UNCHANGED Promise!vars
    <2>1. AckWrite(p, r) => Delivered(ack[p][r].command)
      BY <1>0 DEF AckWrite, OnlyDelivered
    <2>2. QED
      BY <1>0, <1>4, <1>6, <2>1 DEF AckHandler, AckWrite, AckZone, AckResolve, TypeOK,
                                    Delivered, Results
  <1>7. CASE BackendCrash
    BY <1>0, <1>4, <1>7 DEF BackendCrash, InFlight, TypeOK
  <1>8. CASE UNCHANGED <<pc, status, performed>>
    BY <1>1, <1>8 DEF Answer
  <1>9. ASSUME NEW p \in Polls, PollRun(p)
        PROVE  \/ PollMark(p) \/ (\E c \in Commands : RunSucceeds(p, c))
               \/ UNCHANGED <<pc, status, performed>>
    BY <1>9 DEF PollRun, PollList, ReadBack, AckRead, RunFails
  <1>10. ASSUME FaultStep PROVE BackendCrash \/ UNCHANGED <<pc, status, performed>>
    BY <1>10 DEF FaultStep, AckLost, PollLost, AckAbort, AgentCrash
  <1>11. ASSUME Heartbeat \/ (\E z \in Zones : SyncZone(z)) \/ GoStale
         PROVE  UNCHANGED <<pc, status, performed>>
    BY <1>11 DEF Heartbeat, SyncZone, GoStale
  <1>12. QED
    BY <1>2, <1>3, <1>5, <1>6, <1>7, <1>8, <1>9, <1>10, <1>11 DEF Next, vars

\* The whole path, with every fault, implements CommandPromise: one answer per command,
\* "ok" only after the venue PC acted, nothing delivered after a refusal.
THEOREM PathKeepsPromise == Spec => PromiseKept
  <1>1. Init => Promise!Init
    BY DEF Init, Promise!Init, Answer
  <1>2. IInv /\ IInv' /\ [Next]_vars => [Promise!Next]_(Promise!vars)
    BY PromiseStep
  <1>3. QED
    BY Inductive, <1>1, <1>2, PTL DEF Spec, PromiseKept, Promise!Spec

-----------------------------------------------------------------------------
(* A command is carried out once                                           *)

\* The agent is at work on command c.
AtWork(c) == \E p \in Polls : poll[p].at \in {"ran", "reply", "await"} /\ poll[p].current = c

\* Apart from the doubtful commands: one run at most holds a command, none has one in line that
\* was carried out, a command carried out has its row closed or is being reported, and an ack
\* past its write has closed its row.
HeldOnce == \A p, q \in Polls, c \in Commands :
              Holds(p, c) /\ Holds(q, c) /\ c \notin doubtful => p = q
NotAgain == \A p \in Polls, c \in Commands :
              poll[p].at \notin {"idle", "orphan"} /\ c \in poll[p].batch /\ c \in performed
                => c \in doubtful
Accounted == \A c \in Commands :
               c \in performed /\ c \notin doubtful => status[c] \in Terminal \/ AtWork(c)
AckedIsClosed == \A p \in Polls, r \in Results :
  ack[p][r].at \in {"written", "stored"} /\ ack[p][r].command \notin doubtful
    => status[ack[p][r].command] \in Terminal

\* The agent waits for the ack it sent.
AwaitsItsAck ==
  \A p \in Polls : poll[p].at = "await" =>
    LET h == ack[p][poll[p].result] IN h.at # "idle" /\ h.command = poll[p].current

\* The inductive invariant of a command's only run.
OnceInv == IInv /\ AwaitsItsAck /\ HeldOnce /\ NotAgain /\ Accounted /\ AckedIsClosed

\* Doubt is never taken back.
LEMMA DoubtStays == ASSUME [Next]_vars PROVE doubtful \subseteq doubtful'
  <1>1. ASSUME NEW c \in Commands, Issue(c) \/ Serve(c) \/ Tick(c) \/ Schedule(c)
        PROVE  doubtful' = doubtful
    BY <1>1 DEF Issue, Refuse, BumpSequence, CreateServerCommand, Serve, CreateRow, ArmWaiter,
       AckTimeout, RecordTimeout, ReadOutcome, CheckApplied, ReadZone, ApplyEffect, Step,
       Tick, PrayerDue, Schedule, PrayerFlag, PrayerBump, PrayerCreate
  <1>2. ASSUME NEW p \in Polls, PollRun(p) PROVE doubtful \subseteq doubtful'
    BY <1>2 DEF PollRun, PollList, PollMark, ReadBack, AckRead, RunSucceeds, RunFails
  <1>3. ASSUME NEW p \in Polls, NEW r \in Results, AckHandler(p, r)
        PROVE  doubtful \subseteq doubtful'
    BY <1>3 DEF AckHandler, AckWrite, AckZone, AckResolve
  <1>4. ASSUME Heartbeat \/ (\E z \in Zones : SyncZone(z)) \/ GoStale
        PROVE  doubtful \subseteq doubtful'
    BY <1>4 DEF Heartbeat, SyncZone, GoStale
  <1>5. ASSUME FaultStep PROVE doubtful \subseteq doubtful'
    BY <1>5 DEF FaultStep, AckLost, PollLost, AckAbort, AgentCrash, BackendCrash
  <1>6. QED
    BY <1>1, <1>2, <1>3, <1>4, <1>5 DEF Next, vars

\* A closed row stays closed, but for the late mark of a poll.
LEMMA ClosedOrDoubtful ==
  ASSUME IInv, [Next]_vars, NEW d \in Commands, status[d] \in Terminal
  PROVE  status'[d] \in Terminal \/ d \in doubtful'
  <1>0. TypeOK /\ RowsFollowRequests /\ OnlyDelivered
    BY DEF IInv
  <1>1. CASE UNCHANGED <<pc, cmd, status>>
    BY <1>1
  <1>2. ASSUME NEW c \in Commands, Issue(c) \/ Tick(c) PROVE status'[d] \in Terminal
    BY <1>0, <1>2 DEF TypeOK, RowsFollowRequests, Issue, Refuse, BumpSequence, Terminal,
                      CreateServerCommand, InsertRow, Tick, PrayerDue
  <1>3. ASSUME NEW c \in Commands, Serve(c) \/ Schedule(c) PROVE status'[d] \in Terminal
    BY <1>0, <1>3 DEF TypeOK, RowsFollowRequests, Serve, CreateRow, ArmWaiter, AckTimeout,
                      RecordTimeout, ReadOutcome, CheckApplied, ReadZone, ApplyEffect, Step,
                      InsertRow, Schedule, PrayerFlag, PrayerBump, PrayerCreate, Terminal
  <1>4. ASSUME NEW p \in Polls, PollMark(p) PROVE status'[d] \in Terminal \/ d \in doubtful'
    BY <1>4 DEF PollMark
  <1>5. ASSUME NEW p \in Polls, NEW r \in Results, AckWrite(p, r) \/ AckResolve(p, r)
        PROVE  status'[d] \in Terminal
    BY <1>0, <1>5 DEF TypeOK, AckWrite, AckResolve, Results, Terminal
  <1>6. CASE BackendCrash
    BY <1>6 DEF BackendCrash
  <1>7. QED
    BY <1>1, <1>2, <1>3, <1>4, <1>5, <1>6, RequestSteps

\* A run comes to hold a command by listing it, and to have it in line only so.
LEMMA HoldsMoves ==
  ASSUME TypeOK, [Next]_vars, NEW p \in Polls, NEW c \in Commands, ~PollList(p)
  PROVE  /\ Holds(p, c)' => Holds(p, c)
         /\ poll'[p].at \notin {"idle", "orphan"} /\ c \in poll'[p].batch
              => poll[p].at \notin {"idle", "orphan"} /\ c \in poll[p].batch
  <1> DEFINE InLine == poll[p].at \notin {"idle", "orphan"} /\ c \in poll[p].batch
             Goal == (Holds(p, c)' => Holds(p, c)) /\ (InLine' => InLine)
  <1> SUFFICES Goal
    OBVIOUS
  <1>0. poll[p] \in PollRec /\ c # None
    BY ConstantsOK DEF TypeOK
  <1>1. CASE poll'[p] \in {poll[p], IdlePoll}
    BY <1>1 DEF Holds, IdlePoll
  <1>2. CASE poll[p].at \in {"listed", "reply", "await"} /\ poll'[p] = Continue(poll[p].batch)
    BY <1>0, <1>2, ContinueFields DEF Holds
  <1>3. CASE ReadBack(p)
    <2>1. /\ poll[p].at = "ran" /\ poll'[p].batch = poll[p].batch
          /\ poll'[p].current = poll[p].current
      BY <1>0, <1>3 DEF ReadBack, TypeOK, PollRec
    <2>2. QED
      BY <2>1 DEF Holds
  <1>4. ASSUME NEW d \in Commands, RunSucceeds(p, d) \/ RunFails(p, d) PROVE Goal
    <2>1. /\ poll[p].at = "run" /\ d \in poll[p].batch
          /\ poll'[p].batch = poll[p].batch \ {d} /\ poll'[p].current = d
      BY <1>4 DEF RunSucceeds, RunFails, Ran, IsNext, TypeOK
    <2>2. QED
      BY <2>1 DEF Holds
  <1>5. CASE AckRead(p) /\ poll'[p] = [poll[p] EXCEPT !.at = "await"]
    <2>1. /\ poll[p].at = "reply" /\ poll'[p].batch = poll[p].batch
          /\ poll'[p].current = poll[p].current
      BY <1>0, <1>5 DEF AckRead, PollRec
    <2>2. QED
      BY <2>1 DEF Holds
  <1>6. CASE poll'[p] = [poll[p] EXCEPT !.at = "orphan"]
    BY <1>0, <1>6 DEF Holds, PollRec
  <1>7. CASE poll[p].at \in {"reply", "await"} /\ poll'[p] = AckThrows(poll[p])
    <2>1. \/ poll'[p] = IdlePoll
          \/ poll'[p].batch = poll[p].batch /\ poll'[p].current = poll[p].current
      BY <1>0, <1>7 DEF AckThrows, PollRec
    <2>2. QED
      BY <1>7, <2>1 DEF Holds, IdlePoll
  <1>8. QED
    BY <1>1, <1>2, <1>3, <1>4, <1>5, <1>6, <1>7, PollMoves DEF PollMoved

\* What a poll lists: the open rows, with doubt about those that another run holds.
LEMMA Lists ==
  ASSUME TypeOK, NEW p \in Polls, PollList(p)
  PROVE  /\ poll[p].at = "idle" /\ poll'[p].current = None /\ poll'[p].at = "listed"
         /\ poll'[p].batch = {c \in Commands : status[c] \in Open}
         /\ \A q \in Polls \ {p} : poll'[q] = poll[q]
         /\ UNCHANGED <<status, ack, performed>>
         /\ \A c \in Commands, q \in Polls \ {p} :
              status[c] \in Open /\ Holds(q, c) => c \in doubtful'
  <1>1. /\ poll[p].at = "idle" /\ poll'[p].current = None /\ poll'[p].at = "listed"
        /\ poll'[p].batch = {c \in Commands : status[c] \in Open}
        /\ \A q \in Polls \ {p} : poll'[q] = poll[q]
        /\ UNCHANGED <<status, ack, performed>>
    BY DEF PollList, TypeOK, IdlePoll
  <1>2. doubtful' = doubtful \cup AlsoHeld(p, poll'[p].batch)
    BY DEF PollList
  <1>3. QED
    BY <1>1, <1>2 DEF AlsoHeld

\* Two runs come to hold a command only with doubt about it.
LEMMA HeldOnceStep ==
  ASSUME OnceInv, [Next]_vars
  PROVE  HeldOnce'
  <1>0. TypeOK /\ HeldOnce /\ doubtful \subseteq doubtful'
    BY DoubtStays DEF OnceInv, IInv
  <1> SUFFICES ASSUME NEW p \in Polls, NEW q \in Polls, NEW c \in Commands,
                      Holds(p, c)', Holds(q, c)', c \notin doubtful', p # q
               PROVE  FALSE
    BY DEF HeldOnce
  <1>1. ASSUME NEW s \in Polls, NEW t \in Polls, s # t, PollList(s), Holds(s, c)', Holds(t, c)'
        PROVE  FALSE
    <2>1. Holds(t, c) /\ c \in poll'[s].batch
      BY <1>0, <1>1, Lists, ConstantsOK DEF Holds
    <2>2. QED
      BY <1>0, <1>1, <2>1, Lists
  <1>2. CASE ~PollList(p) /\ ~PollList(q)
    BY <1>0, <1>2, HoldsMoves DEF HeldOnce
  <1>3. QED
    BY <1>1, <1>2

\* A command carried out comes to be in line only with doubt about it.
LEMMA NotAgainStep ==
  ASSUME OnceInv, [Next]_vars
  PROVE  NotAgain'
  <1>0. /\ TypeOK /\ HeldOnce /\ NotAgain /\ Accounted /\ OnlyDelivered
        /\ doubtful \subseteq doubtful' /\ performed \subseteq Commands
    BY DoubtStays DEF OnceInv, IInv, TypeOK
  <1> SUFFICES ASSUME NEW p \in Polls, NEW c \in Commands, poll'[p].at \notin {"idle", "orphan"},
                      c \in poll'[p].batch, c \in performed', c \notin doubtful'
               PROVE  FALSE
    BY DEF NotAgain
  <1>1. CASE PollList(p)
    <2>1. poll[p].at = "idle" /\ c \in performed /\ status[c] \in Open /\ c \notin doubtful
      BY <1>0, <1>1, Lists
    <2>2. AtWork(c)
      BY <1>0, <2>1 DEF Accounted, Open, Terminal
    <2>3. PICK q \in Polls : poll[q].at \in {"ran", "reply", "await"} /\ poll[q].current = c
      BY <2>2 DEF AtWork
    <2>4. QED
      BY <1>0, <1>1, <2>1, <2>3, Lists DEF Holds
  <1>2. CASE ~PollList(p)
    <2>1. poll[p].at \notin {"idle", "orphan"} /\ c \in poll[p].batch
      BY <1>0, <1>2, HoldsMoves
    <2>2. CASE c \in performed
      BY <1>0, <2>1, <2>2 DEF NotAgain
    <2>3. ASSUME NEW q \in Polls, NEW d \in Commands, RunSucceeds(q, d),
                 performed' = performed \cup {d}, c = d
          PROVE  FALSE
      <3>1. poll[q].at = "run" /\ c \in poll[q].batch /\ c \notin poll'[q].batch
        BY <1>0, <2>3 DEF RunSucceeds, Ran, IsNext, TypeOK
      <3>2. Holds(p, c) /\ Holds(q, c)
        BY <2>1, <3>1 DEF Holds
      <3>3. QED
        BY <1>0, <3>1, <3>2 DEF HeldOnce
    <2>4. QED
      BY <2>2, <2>3, PerformedMoves
  <1>3. QED
    BY <1>1, <1>2

\* The ack that the agent waits for is being handled.
LEMMA AwaitStep ==
  ASSUME IInv, AwaitsItsAck, [Next]_vars
  PROVE  AwaitsItsAck'
  <1>0. TypeOK
    BY DEF IInv
  <1> DEFINE Awaited(p) == poll[p].at = "await" =>
                             /\ ack[p][poll[p].result].at # "idle"
                             /\ ack[p][poll[p].result].command = poll[p].current
  <1> SUFFICES ASSUME NEW p \in Polls PROVE Awaited(p)'
    BY DEF AwaitsItsAck
  <1>1. poll[p] \in PollRec /\ Awaited(p)
    BY <1>0 DEF TypeOK, AwaitsItsAck
  <1>2. CASE UNCHANGED <<poll, ack, performed>>
    BY <1>1, <1>2
  <1>3. ASSUME NEW q \in Polls, PollRun(q) PROVE Awaited(p)'
    <2>1. CASE AckRead(q)
      <3>1. CASE q = p /\ status[poll[p].current] \in Terminal
        BY <1>0, <2>1, <3>1, ContinueFields DEF AckRead, TypeOK
      <3>2. CASE q = p /\ status[poll[p].current] \notin Terminal
        <4>1. /\ poll'[p].result = poll[p].result /\ poll'[p].current = poll[p].current
              /\ ack'[p][poll[p].result] = [at |-> "read", command |-> poll[p].current,
                                            state |-> poll[p].state]
          BY <1>0, <1>1, <2>1, <3>2 DEF AckRead, TypeOK, PollRec
        <4>2. QED
          BY <4>1
      <3>3. CASE q # p
        <4>1. poll'[p] = poll[p] /\ ack'[p] = ack[p]
          BY <1>0, <2>1, <3>3 DEF AckRead, TypeOK
        <4>2. QED
          BY <1>1, <4>1
      <3>4. QED
        BY <3>1, <3>2, <3>3
    <2>2. CASE ack' = ack /\ (poll'[p] = poll[p] \/ poll'[p].at # "await")
      BY <1>1, <2>2
    <2>3. CASE ack' = ack /\ q = p /\ ~AckRead(q)
      <3>1. CASE PollList(p)
        BY <1>0, <3>1 DEF PollList, TypeOK, IdlePoll
      <3>2. CASE PollMark(p)
        <4>1. poll'[p] \in {Continue(poll[p].batch), IdlePoll}
          BY <1>0, <3>2 DEF PollMark, TypeOK
        <4>2. QED
          BY <4>1, ContinueFields DEF IdlePoll
      <3>3. CASE ReadBack(p)
        BY <1>0, <1>1, <3>3 DEF ReadBack, TypeOK, PollRec
      <3>4. ASSUME NEW c \in Commands, RunSucceeds(p, c) \/ RunFails(p, c) PROVE Awaited(p)'
        BY <1>0, <3>4 DEF RunSucceeds, RunFails, Ran, TypeOK
      <3>5. QED
        BY <1>3, <2>3, <3>1, <3>2, <3>3, <3>4 DEF PollRun
    <2>4. CASE ack' = ack /\ q # p /\ ~AckRead(q)
      <3>1. poll'[p] = poll[p]
        BY <1>0, <1>3, <2>4 DEF PollRun, PollList, PollMark, ReadBack, RunSucceeds, RunFails,
           Ran, TypeOK
      <3>2. QED
        BY <1>1, <2>4, <3>1
    <2>5. QED
      BY <1>3, <2>1, <2>3, <2>4 DEF PollRun, PollList, PollMark, ReadBack, RunSucceeds, RunFails
  <1>4. ASSUME NEW q \in Polls, NEW s \in Results, AckHandler(q, s) PROVE Awaited(p)'
    <2>1. CASE AckWrite(q, s) \/ AckZone(q, s)
      <3>1. poll' = poll
        BY <2>1 DEF AckWrite, AckZone
      <3>2. \A r \in Results : /\ ack'[p][r].at = "idle" => ack[p][r].at = "idle"
                               /\ ack'[p][r].command = ack[p][r].command
        <4> SUFFICES ASSUME NEW r \in Results
                     PROVE  /\ ack'[p][r].at = "idle" => ack[p][r].at = "idle"
                            /\ ack'[p][r].command = ack[p][r].command
          OBVIOUS
        <4>1. CASE p = q /\ r = s
          <5>0. ack \in [Polls -> [Results -> AckRec]]
            BY <1>0 DEF TypeOK
          <5>1. \E a \in {"stored", "written"} : ack'[p][r] = [ack[p][r] EXCEPT !.at = a]
            <6>1. CASE AckWrite(q, s)
              BY <5>0, <4>1, <6>1 DEF AckWrite
            <6>2. CASE AckZone(q, s)
              BY <5>0, <4>1, <6>2 DEF AckZone
            <6> QED
              BY <2>1, <6>1, <6>2
          <5>2. ack[p][r] \in AckRec
            BY <1>0 DEF TypeOK
          <5>3. QED
            BY <5>1, <5>2 DEF AckRec
        <4>2. CASE ~(p = q /\ r = s)
          <5>1. ack'[p][r] = ack[p][r]
            BY <1>0, <2>1, <4>2 DEF AckWrite, AckZone, TypeOK
          <5>2. QED
            BY <5>1
        <4>3. QED
          BY <4>1, <4>2
      <3>3. poll[p].result \in Results
        BY <1>1 DEF PollRec
      <3>4. QED
        BY <1>1, <3>1, <3>2, <3>3
    <2>2. CASE AckResolve(q, s)
      <3>1. CASE q = p /\ poll[p].at = "await" /\ poll[p].result = s
        BY <1>0, <2>2, <3>1, ContinueFields DEF AckResolve, TypeOK
      <3>2. CASE ~(q = p /\ poll[p].at = "await" /\ poll[p].result = s)
        <4>1. poll'[p] = poll[p]
          BY <1>0, <2>2, <3>2 DEF AckResolve, TypeOK
        <4>2. poll[p].at = "await" => ack'[p][poll[p].result] = ack[p][poll[p].result]
          BY <1>0, <1>1, <2>2, <3>2 DEF AckResolve, TypeOK, PollRec
        <4>3. QED
          BY <1>1, <4>1, <4>2
      <3>3. QED
        BY <3>1, <3>2
    <2>3. QED
      BY <1>4, <2>1, <2>2 DEF AckHandler
  <1>5. CASE FaultStep
    <2>0. AckThrows(poll[p]).at # "await"
      BY <1>1 DEF AckThrows, IdlePoll, PollRec
    <2>1. ASSUME NEW q \in Polls, AckLost(q) \/ PollLost(q) PROVE Awaited(p)'
      BY <1>0, <1>1, <2>0, <2>1 DEF AckLost, PollLost, TypeOK, PollRec
    <2>2. ASSUME NEW q \in Polls, NEW s \in Results, AckAbort(q, s) PROVE Awaited(p)'
      <3>1. CASE q = p /\ poll[p].at = "await" /\ poll[p].result = s
        BY <1>0, <2>0, <2>2, <3>1 DEF AckAbort, TypeOK
      <3>2. CASE ~(q = p /\ poll[p].at = "await" /\ poll[p].result = s)
        <4>1. poll'[p] = poll[p]
          BY <1>0, <2>2, <3>2 DEF AckAbort, TypeOK
        <4>2. poll[p].at = "await" => ack'[p][poll[p].result] = ack[p][poll[p].result]
          BY <1>0, <1>1, <2>2, <3>2 DEF AckAbort, TypeOK, PollRec
        <4>3. QED
          BY <1>1, <4>1, <4>2
      <3>3. QED
        BY <3>1, <3>2
    <2>3. CASE AgentCrash \/ BackendCrash
      BY <1>1, <2>0, <2>3 DEF AgentCrash, BackendCrash, IdlePoll, PollRec
    <2>4. QED
      BY <1>5, <2>1, <2>2, <2>3 DEF FaultStep
  <1>6. QED
    BY <1>2, <1>3, <1>4, <1>5, AgentSteps


\* Past its write an ack has closed its row, which is reopened only with doubt about it.
LEMMA AckedStep ==
  ASSUME OnceInv, [Next]_vars
  PROVE  AckedIsClosed'
  <1>0. TypeOK /\ AckedIsClosed /\ OnlyDelivered /\ IInv /\ doubtful \subseteq doubtful'
    BY DoubtStays DEF OnceInv, IInv
  <1> SUFFICES ASSUME NEW p \in Polls, NEW r \in Results, ack'[p][r].at \in {"written", "stored"},
                      ack'[p][r].command \notin doubtful'
               PROVE  status'[ack'[p][r].command] \in Terminal
    BY DEF AckedIsClosed
  <1>1. ack[p][r].at # "idle" => ack[p][r].command \in Commands
    BY <1>0 DEF TypeOK, OnlyDelivered, AckRec
  <1>2. CASE ack'[p][r] = ack[p][r]
    BY <1>0, <1>1, <1>2, ClosedOrDoubtful DEF AckedIsClosed
  <1>3. CASE AckWrite(p, r) /\ ack'[p][r].command = ack[p][r].command
    <2>1. status' = [status EXCEPT ![ack[p][r].command] = r] /\ ack[p][r].command \in Commands
      BY <1>1, <1>3 DEF AckWrite
    <2>2. QED
      BY <1>0, <1>3, <2>1 DEF TypeOK, Results, Terminal
  <1>4. CASE AckZone(p, r) /\ ack'[p][r].command = ack[p][r].command
    <2>1. ack[p][r].at = "written" /\ status' = status
      BY <1>4 DEF AckZone
    <2>2. QED
      BY <1>0, <1>4, <2>1 DEF AckedIsClosed
  <1>5. AckMoved(p, r)
    BY <1>0, AckMoves
  <1>6. QED
    BY <1>2, <1>3, <1>4, <1>5 DEF AckMoved, IdleAck

\* A run at work on a command carried out, whose row is open, stays at it: it gives it up
\* only with doubt about it, or when the row is closed.
LEMMA StaysAtWork ==
  ASSUME OnceInv, [Next]_vars, NEW p \in Polls, NEW c \in Commands, c \in performed,
         poll[p].at \in {"ran", "reply", "await"}, poll[p].current = c,
         status[c] \notin Terminal, c \notin doubtful'
  PROVE  poll'[p].at \in {"ran", "reply", "await"} /\ poll'[p].current = c
  <1> DEFINE Goal == poll'[p].at \in {"ran", "reply", "await"} /\ poll'[p].current = c
  <1>0. TypeOK /\ AckedIsClosed /\ AwaitsItsAck /\ c \notin doubtful
    BY DoubtStays DEF OnceInv, IInv
  <1>1. poll[p] \in PollRec
    BY <1>0 DEF TypeOK
  <1>2. CASE poll'[p] = poll[p]
    BY <1>2
  <1>3. poll[p].at \in {"reply", "await"} /\ poll[p].result = "SUCCESS"
          => AckThrows(poll[p]).at = "reply" /\ AckThrows(poll[p]).current = c
    BY <1>1 DEF AckThrows, PollRec
  <1>4. \A P \in SUBSET Polls : p \in P => c \in Unclosed(P)
    BY DEF Unclosed
  <1>5. ASSUME NEW q \in Polls, PollRun(q) PROVE Goal
    <2>1. CASE q # p
      <3>1. poll'[p] = poll[p]
        BY <1>0, <1>5, <2>1 DEF PollRun, PollList, PollMark, ReadBack, AckRead, RunSucceeds,
           RunFails, Ran, TypeOK
      <3>2. QED
        BY <1>2, <3>1
    <2>2. CASE q = p
      <3>1. ReadBack(p) \/ AckRead(p)
        BY <1>5, <2>2 DEF PollRun, PollList, PollMark, RunSucceeds, RunFails, IsNext
      <3>2. CASE ReadBack(p)
        BY <1>0, <1>1, <3>2 DEF ReadBack, TypeOK, PollRec
      <3>3. CASE AckRead(p)
        <4>1. poll'[p] = [poll[p] EXCEPT !.at = "await"]
          BY <1>0, <3>3 DEF AckRead, TypeOK
        <4>2. QED
          BY <1>1, <4>1 DEF PollRec
      <3>4. QED
        BY <3>1, <3>2, <3>3
    <2>3. QED
      BY <2>1, <2>2
  <1>6. ASSUME NEW q \in Polls, NEW s \in Results, AckHandler(q, s) PROVE Goal
    <2>1. CASE AckWrite(q, s) \/ AckZone(q, s)
      BY <1>2, <2>1 DEF AckWrite, AckZone
    <2>2. CASE AckResolve(q, s)
      <3>1. ~(q = p /\ poll[p].at = "await" /\ poll[p].result = s)
        BY <1>0, <2>2 DEF AckResolve, AwaitsItsAck, AckedIsClosed
      <3>2. poll'[p] = poll[p]
        BY <1>0, <2>2, <3>1 DEF AckResolve, TypeOK
      <3>3. QED
        BY <1>2, <3>2
    <2>3. QED
      BY <1>6, <2>1, <2>2 DEF AckHandler
  <1>7. ASSUME FaultStep PROVE Goal
    <2>1. ASSUME NEW q \in Polls, AckLost(q) PROVE Goal
      <3>1. CASE q = p
        <4>1. p \notin Failing
          BY <1>4, <2>1, <3>1 DEF AckLost
        <4>2. poll[p].result = "SUCCESS" /\ poll'[p] = AckThrows(poll[p])
          BY <1>0, <1>1, <2>1, <3>1, <4>1 DEF AckLost, Failing, PollRec, Results, TypeOK
        <4>3. QED
          BY <1>3, <2>1, <3>1, <4>2 DEF AckLost
      <3>2. CASE q # p
        <4>1. poll'[p] = poll[p]
          BY <1>0, <2>1, <3>2 DEF AckLost, TypeOK
        <4>2. QED
          BY <1>2, <4>1
      <3>3. QED
        BY <3>1, <3>2
    <2>2. ASSUME NEW q \in Polls, PollLost(q) PROVE Goal
      <3>1. poll'[p] = poll[p]
        BY <1>0, <2>2 DEF PollLost, TypeOK
      <3>2. QED
        BY <1>2, <3>1
    <2>3. ASSUME NEW q \in Polls, NEW s \in Results, AckAbort(q, s) PROVE Goal
      <3>1. CASE q = p /\ poll[p].at = "await" /\ poll[p].result = s
        <4>1. s # "FAILED"
          BY <1>4, <2>3, <3>1 DEF AckAbort, Failing
        <4>2. poll[p].result = "SUCCESS" /\ poll'[p] = AckThrows(poll[p])
          BY <1>0, <2>3, <3>1, <4>1 DEF AckAbort, Results, TypeOK
        <4>3. QED
          BY <1>3, <3>1, <4>2
      <3>2. CASE ~(q = p /\ poll[p].at = "await" /\ poll[p].result = s)
        <4>1. poll'[p] = poll[p]
          BY <1>0, <2>3, <3>2 DEF AckAbort, TypeOK
        <4>2. QED
          BY <1>2, <4>1
      <3>3. QED
        BY <3>1, <3>2
    <2>4. CASE AgentCrash
      <3>1. Unclosed(Polls) \subseteq doubtful'
        BY <2>4 DEF AgentCrash
      <3>2. QED
        BY <1>4, <3>1
    <2>5. CASE BackendCrash
      <3>1. CASE poll[p].at = "await"
        <4>1. p \notin Failing
          <5>1. Unclosed({q \in Failing : poll[q].at = "await"}) \subseteq doubtful'
            BY <2>5 DEF BackendCrash
          <5>2. {q \in Failing : poll[q].at = "await"} \in SUBSET Polls
            BY DEF Failing
          <5>3. QED
            BY <1>4, <3>1, <5>1, <5>2
        <4>2. poll[p].result = "SUCCESS" /\ poll'[p] = AckThrows(poll[p])
          BY <1>1, <2>5, <3>1, <4>1 DEF BackendCrash, Failing, PollRec, Results
        <4>3. QED
          BY <1>3, <3>1, <4>2
      <3>2. CASE poll[p].at # "await"
        <4>1. poll'[p] = poll[p]
          BY <2>5, <3>2 DEF BackendCrash
        <4>2. QED
          BY <1>2, <4>1
      <3>3. QED
        BY <3>1, <3>2
    <2>6. QED
      BY <1>7, <2>1, <2>2, <2>3, <2>4, <2>5 DEF FaultStep
  <1>8. QED
    BY <1>2, <1>5, <1>6, <1>7, AgentSteps

\* A command carried out stays accounted for.
LEMMA AccountedStep ==
  ASSUME OnceInv, [Next]_vars
  PROVE  Accounted'
  <1>0. TypeOK /\ Accounted /\ IInv /\ doubtful \subseteq doubtful'
    BY DoubtStays DEF OnceInv, IInv
  <1> SUFFICES ASSUME NEW c \in Commands, c \in performed', c \notin doubtful'
               PROVE  status'[c] \in Terminal \/ AtWork(c)'
    BY DEF Accounted
  <1>1. CASE c \in performed
    <2>1. CASE status[c] \in Terminal
      BY <1>0, <2>1, ClosedOrDoubtful
    <2>2. CASE status[c] \notin Terminal
      <3>1. PICK p \in Polls : poll[p].at \in {"ran", "reply", "await"} /\ poll[p].current = c
        BY <1>0, <1>1, <2>2 DEF Accounted, AtWork
      <3>2. QED
        BY <1>1, <2>2, <3>1, StaysAtWork DEF AtWork
    <2>3. QED
      BY <2>1, <2>2
  <1>2. ASSUME NEW p \in Polls, RunSucceeds(p, c) PROVE AtWork(c)'
    <2>1. poll'[p].at \in {"ran", "reply"} /\ poll'[p].current = c
      BY <1>0, <1>2 DEF RunSucceeds, Ran, TypeOK
    <2>2. QED
      BY <2>1 DEF AtWork
  <1>3. QED
    BY <1>1, <1>2, PerformedMoves

\* The invariant of a command's only run, for every number of overlapping runs and of faults.
THEOREM OnceInductive == Spec => []OnceInv
  <1>1. Init => OnceInv
    <2> SUFFICES ASSUME Init PROVE OnceInv
      OBVIOUS
    <2>1. IInv
      BY InitIInv
    <2>2. AwaitsItsAck /\ HeldOnce /\ NotAgain /\ Accounted /\ AckedIsClosed
      BY DEF Init, AwaitsItsAck, HeldOnce, NotAgain, Accounted, AckedIsClosed, Holds, IdlePoll,
             IdleAck
    <2>3. QED
      BY <2>1, <2>2 DEF OnceInv
  <1>2. IInv /\ [Next]_vars => IInv'
    BY TypeStep, RowsStep, DeliveredStep, EvidenceStep, ClosedStep, SequencesStep, AppliedStep
       DEF IInv
  <1>3. OnceInv /\ [Next]_vars => OnceInv'
    <2> SUFFICES ASSUME OnceInv, [Next]_vars PROVE OnceInv'
      OBVIOUS
    <2>1. IInv'
      BY <1>2 DEF OnceInv
    <2>2. AwaitsItsAck'
      BY AwaitStep DEF OnceInv
    <2>3. HeldOnce' /\ NotAgain' /\ Accounted' /\ AckedIsClosed'
      BY HeldOnceStep, NotAgainStep, AccountedStep, AckedStep
    <2>4. QED
      BY <2>1, <2>2, <2>3 DEF OnceInv
  <1>4. QED
    BY <1>1, <1>3, PTL DEF Spec

\* No command is carried out twice, with any number of overlapping runs and of faults, but for
\* the three ways of the code that `doubtful` records: held by two runs at once, given up
\* unreported while its row was open, or reopened by a late mark.
THEOREM CarriedOutOnce == Spec => []PerformedOnce
  <1>1. OnceInv => PerformedOnce
    BY DEF OnceInv, NotAgain, PerformedOnce, IsNext
  <1>2. QED
    BY OnceInductive, <1>1, PTL
=============================================================================
