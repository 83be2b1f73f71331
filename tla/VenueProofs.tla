------------------------------ MODULE VenueProofs ------------------------------
(***************************************************************************)
(* The instance that the runs check is made of the parts as they are: each   *)
(* of its behaviours is a behaviour of every part, so that what is proved of *)
(* the parts holds of it.  The types of the parts that have no proofs of     *)
(* their own are proved here.                                               *)
(***************************************************************************)
EXTENDS MCVenue, AgentProofs, PortalProofs, PrayerTimesProofs, PortalListsProofs

-----------------------------------------------------------------------------
(* The parts within the venue *)

\* Each part begins as it does by itself ...
LEMMA PartsBegin ==
  VenueInit => /\ LifecycleInit /\ TrackSyncInit /\ ZoneReportsInit /\ VenueQueueInit
               /\ AgentLinkInit /\ EqualizerInit /\ SessionsInit /\ PrayerTimesInit
               /\ DemoPrayerInit /\ PortalRowsInit /\ PortalCacheInit /\ PortalPagesInit
BY DEF VenueInit

\* ... and takes its own steps, or none.
LEMMA PartsStep ==
  ASSUME [VenueNext]_venueVars
  PROVE  /\ [LifecycleNext]_lifecycleVars /\ [TrackSyncNext]_trackVars
         /\ [ZoneReportsNext]_zoneVars /\ [VenueQueueNext]_queueVars
         /\ [AgentLinkNext]_linkVars /\ [EqualizerNext]_eqVars
         /\ [SessionsNext]_sessionVars /\ [PrayerTimesNext]_timesVars
         /\ [DemoPrayerNext]_demoVars /\ [PortalRowsNext]_rowVars
         /\ [PortalCacheNext]_cacheVars /\ [PortalPagesNext]_pageVars
BY DEF VenueNext, venueVars, ServerMoves, TracksMove, ZonesMove, QueueMoves, PrayerMoves, DemoMoves, RowsMove,
       CacheMoves, PortalRowsNext

\* A behaviour of the venue is one of every part.
THEOREM VenueIsItsParts ==
  VenueSpec => /\ LifecycleSpec /\ TrackSyncSpec /\ ZoneReportsSpec /\ VenueQueueSpec
               /\ AgentLinkSpec /\ EqualizerSpec /\ SessionsSpec /\ PrayerTimesSpec
               /\ DemoPrayerSpec /\ PortalRowsSpec /\ PortalCacheSpec /\ PortalPagesSpec
BY PartsBegin, PartsStep, PTL
   DEF VenueSpec, LifecycleSpec, TrackSyncSpec, ZoneReportsSpec, VenueQueueSpec, AgentLinkSpec,
       EqualizerSpec, SessionsSpec, PrayerTimesSpec, DemoPrayerSpec, PortalRowsSpec,
       PortalCacheSpec, PortalPagesSpec

-----------------------------------------------------------------------------
(* Reports of zones (ZoneReports) *)

ReportRec == [pc : {"idle", "loop", "write", "prune"}, zones : SUBSET LocalZones,
              todo : SUBSET LocalZones, zone : SUBSET LocalZones, found : Nat,
              stale : SUBSET (LocalZones \X Nat)]

LEMMA ReportTypes ==
  /\ NoReport \in ReportRec
  /\ \A zones \in SUBSET LocalZones :
       [NoReport EXCEPT !.pc = "loop", !.zones = zones, !.todo = zones] \in ReportRec
BY DEF NoReport, ReportRec

\* A report that goes on, while the rows and the zones stay.
LEMMA ReportMoves ==
  ASSUME ZoneReportsTypeOK, NEW r \in Reports, NEW q \in ReportRec, ReportStep(r, q),
         zoneRow' \in [LocalZones -> Nat], created' \in [LocalZones -> Nat],
         localZones' \subseteq LocalZones, deleting' \subseteq LocalZones,
         syncConfig' \subseteq LocalZones, UNCHANGED zoneEdits,
         zoneFaults' \in {zoneFaults, zoneFaults + 1}
  PROVE  ZoneReportsTypeOK'
<1>1. report' \in [Reports -> ReportRec]
  BY DEF ZoneReportsTypeOK, ReportStep, ReportRec
<1>2. zoneEdits' \in Nat /\ zoneFaults' \in Nat
  BY DEF ZoneReportsTypeOK
<1> QED
  BY <1>1, <1>2 DEF ZoneReportsTypeOK, ReportRec

LEMMA ZoneReportsStep ==
  ASSUME ZoneReportsTypeOK, ZoneReportsNext
  PROVE  ZoneReportsTypeOK'
<1>1. ASSUME NEW z \in LocalZones, EditLocally(z) \/ DeleteRow(z) \/ CreateSyncConfig(z)
      PROVE  ZoneReportsTypeOK'
  <2>1. zoneRow' \in [LocalZones -> Nat] /\ localZones' \subseteq LocalZones
        /\ deleting' \subseteq LocalZones /\ syncConfig' \subseteq LocalZones
    BY <1>1 DEF EditLocally, DeleteRow, CreateSyncConfig, ZoneReportsTypeOK
  <2>2. zoneEdits' \in {zoneEdits, zoneEdits + 1} /\ UNCHANGED <<created, report, zoneFaults>>
    BY <1>1 DEF EditLocally, DeleteRow, CreateSyncConfig
  <2> QED
    BY <2>1, <2>2 DEF ZoneReportsTypeOK
<1>2. ASSUME NEW r \in Reports, BeginReport(r) \/ LoseReport(r)
      PROVE  ZoneReportsTypeOK'
  <2>1. PICK q \in ReportRec : ReportStep(r, q)
    BY <1>2, ReportTypes DEF BeginReport, LoseReport, ZoneReportsTypeOK
  <2>2. UNCHANGED <<zoneRow, created, localZones, deleting, syncConfig, zoneEdits>>
        /\ zoneFaults' \in {zoneFaults, zoneFaults + 1}
    BY <1>2 DEF BeginReport, LoseReport, ZoneFault
  <2> QED
    BY <2>1, <2>2, ReportMoves DEF ZoneReportsTypeOK
<1>3. ASSUME NEW r \in Reports, NEW z \in LocalZones, RunSyncConfig(r, z)
      PROVE  ZoneReportsTypeOK'
  <2>1. PICK q \in ReportRec : ReportStep(r, q)
    BY <1>3, ReportTypes DEF RunSyncConfig, ZoneReportsTypeOK
  <2>2. localZones' \subseteq LocalZones /\ syncConfig' \subseteq LocalZones
        /\ UNCHANGED <<zoneRow, created, deleting, zoneEdits>>
        /\ zoneFaults' \in {zoneFaults, zoneFaults + 1}
    BY <1>3 DEF RunSyncConfig, ZoneFault, ZoneReportsTypeOK
  <2> QED
    BY <2>1, <2>2, ReportMoves DEF ZoneReportsTypeOK
<1>4. ASSUME NEW r \in Reports, NEW z \in LocalZones, FindRow(r, z)
      PROVE  ZoneReportsTypeOK'
  <2> DEFINE q == [report[r] EXCEPT !.pc = "write", !.todo = @ \ {z}, !.zone = {z},
                                    !.found = zoneRow[z]]
  <2>1. q \in ReportRec
    BY DEF ZoneReportsTypeOK, ReportRec
  <2>2. ReportStep(r, q)
    BY <1>4 DEF FindRow
  <2> HIDE DEF q
  <2>3. UNCHANGED <<zoneRow, created, localZones, deleting, syncConfig, zoneEdits, zoneFaults>>
    BY <1>4 DEF FindRow
  <2> QED
    BY <2>1, <2>2, <2>3, ReportMoves DEF ZoneReportsTypeOK
<1>5. ASSUME NEW r \in Reports, NEW z \in LocalZones, WriteRow(r, z)
      PROVE  ZoneReportsTypeOK'
  <2> DEFINE q == [report[r] EXCEPT !.pc = "loop", !.zone = {}, !.found = 0]
  <2>1. q \in ReportRec
    BY DEF ZoneReportsTypeOK, ReportRec
  <2>2. ReportStep(r, q) \/ ReportStep(r, NoReport)
    BY <1>5 DEF WriteRow
  <2> HIDE DEF q
  <2>3. created[z] + 1 \in Nat
    BY DEF ZoneReportsTypeOK
  <2>4. zoneRow' \in [LocalZones -> Nat] /\ created' \in [LocalZones -> Nat]
    BY <1>5, <2>3 DEF WriteRow, ZoneReportsTypeOK
  <2>5. UNCHANGED <<localZones, deleting, syncConfig, zoneEdits, zoneFaults>>
    BY <1>5 DEF WriteRow
  <2> QED
    BY <2>1, <2>2, <2>4, <2>5, ReportTypes, ReportMoves DEF ZoneReportsTypeOK
<1>6. ASSUME NEW r \in Reports, FindStale(r)
      PROVE  ZoneReportsTypeOK'
  <2> DEFINE stale == {<<z, zoneRow[z]>> : z \in {y \in LocalZones \ report[r].zones :
                                                   zoneRow[y] # 0}}
             q == [report[r] EXCEPT !.pc = "prune", !.stale = stale]
  <2>1. stale \subseteq LocalZones \X Nat
    BY DEF ZoneReportsTypeOK
  <2>2. ReportStep(r, q)
    BY <1>6 DEF FindStale
  <2> HIDE DEF stale
  <2>3. q \in ReportRec
    BY <2>1 DEF ZoneReportsTypeOK, ReportRec
  <2> HIDE DEF q
  <2>4. UNCHANGED <<zoneRow, created, localZones, deleting, syncConfig, zoneEdits, zoneFaults>>
    BY <1>6 DEF FindStale
  <2> QED
    BY <2>2, <2>3, <2>4, ReportMoves DEF ZoneReportsTypeOK
<1>7. ASSUME NEW r \in Reports, Prune(r)
      PROVE  ZoneReportsTypeOK'
  <2>1. zoneRow' \in [LocalZones -> Nat]
    BY <1>7 DEF Prune, ZoneReportsTypeOK
  <2>2. /\ ReportStep(r, NoReport)
        /\ UNCHANGED <<created, localZones, deleting, syncConfig, zoneEdits, zoneFaults>>
    BY <1>7 DEF Prune
  <2> QED
    BY <2>1, <2>2, ReportTypes, ReportMoves DEF ZoneReportsTypeOK
<1> QED
  BY <1>1, <1>2, <1>3, <1>4, <1>5, <1>6, <1>7 DEF ZoneReportsNext, ReportSteps

\* Reports, rows and deletions of zones keep their types (POST /server/zones/sync of agent.ts).
THEOREM ZoneReportsTypes == ZoneReportsSpec => []ZoneReportsTypeOK
<1>1. ZoneReportsInit => ZoneReportsTypeOK
  <2> SUFFICES ASSUME ZoneReportsInit PROVE ZoneReportsTypeOK
    OBVIOUS
  <2>1. report \in [Reports -> ReportRec]
    BY ReportTypes DEF ZoneReportsInit
  <2>2. zoneRow \in [LocalZones -> Nat] /\ created \in [LocalZones -> Nat]
    BY DEF ZoneReportsInit
  <2> QED
    BY <2>1, <2>2 DEF ZoneReportsInit, ZoneReportsTypeOK, ReportRec
<1>2. ZoneReportsTypeOK /\ [ZoneReportsNext]_zoneVars => ZoneReportsTypeOK'
  <2>1. ZoneReportsTypeOK /\ UNCHANGED zoneVars => ZoneReportsTypeOK'
    BY DEF ZoneReportsTypeOK, zoneVars
  <2> QED
    BY <2>1, ZoneReportsStep
<1> QED
  BY <1>1, <1>2, PTL DEF ZoneReportsSpec

-----------------------------------------------------------------------------
(* A zone's queue (VenueQueue) *)

QueueRec == [pc : {"idle", "assigned", "planned", "read", "add", "point"},
             list : Playlists \cup {NoPlaylist}, wanted : SUBSET Songs, keep : SUBSET Songs,
             seen : SUBSET Entries, stale : SUBSET Entries]

PlayerRec == [state : {"playing", "paused", "stopped"}, song : Songs \cup {NoSong}]

LEMMA QueueTypes ==
  ASSUME VenueQueueTypeOK
  PROVE  /\ NoQueueRun \in QueueRec /\ [state |-> "stopped", song |-> NoSong] \in PlayerRec
         /\ player \in PlayerRec /\ queueRun \in [QueueRuns -> QueueRec]
         /\ SongsOf(queue) \subseteq Songs
         /\ \A s \in slots : s.playlist \in Playlists
<1>1. \A s \in Slots : s.playlist \in Playlists
  BY VenueQueueConstants
<1> QED
  BY <1>1 DEF VenueQueueTypeOK, NoQueueRun, QueueRec, PlayerRec, SongsOf, Entries

\* A run that goes on, perhaps with the queue or the player.
LEMMA QueueRunMoves ==
  ASSUME VenueQueueTypeOK, NEW r \in QueueRuns, NEW q \in QueueRec, QueueStep(r, q),
         queue' \subseteq Entries, entries' \in [Songs -> 0 .. MaxEntries], player' \in PlayerRec,
         UNCHANGED <<assigned, excluded, contents, slots, clock, mapped, queueEdits>>,
         queueFaults' \in {queueFaults, queueFaults + 1}
  PROVE  VenueQueueTypeOK'
<1>1. queueRun' \in [QueueRuns -> QueueRec]
  BY QueueTypes DEF QueueStep
<1>2. queueFaults' \in Nat
  BY DEF VenueQueueTypeOK
<1> QED
  BY <1>1, <1>2 DEF VenueQueueTypeOK, QueueRec, PlayerRec

LEMMA EditsOfTheQueue ==
  ASSUME VenueQueueTypeOK, NEW p, NEW s, NEW e,
         \/ p \in Playlists /\ (AssignPlaylist(p) \/ AssignFromPlaylist(p) \/ DeletePlaylist(p))
         \/ p \in Playlists /\ s \in Songs /\ EditPlaylist(p, s)
         \/ s \in Songs /\ ToggleExcluded(s)
         \/ e \in Slots /\ ToggleSlot(e)
  PROVE  VenueQueueTypeOK'
<1>1. queueEdits' \in Nat
  BY DEF AssignPlaylist, AssignFromPlaylist, DeletePlaylist, EditPlaylist, ToggleExcluded,
         ToggleSlot, Edit, VenueQueueTypeOK
<1>2. assigned' \in Playlists \cup {NoPlaylist} /\ excluded' \subseteq Songs
  BY DEF AssignPlaylist, AssignFromPlaylist, DeletePlaylist, EditPlaylist, ToggleExcluded,
         ToggleSlot, VenueQueueTypeOK
<1>3. slots' \subseteq Slots
  BY DEF AssignPlaylist, AssignFromPlaylist, DeletePlaylist, EditPlaylist, ToggleExcluded,
         ToggleSlot, VenueQueueTypeOK
<1>4. contents' \in [Playlists -> SUBSET Songs]
  BY DEF AssignPlaylist, AssignFromPlaylist, DeletePlaylist, EditPlaylist, ToggleExcluded,
         ToggleSlot, VenueQueueTypeOK
<1>5. UNCHANGED <<clock, mapped, queue, entries, player, queueRun, queueFaults>>
  BY DEF AssignPlaylist, AssignFromPlaylist, DeletePlaylist, EditPlaylist, ToggleExcluded,
         ToggleSlot
<1> QED
  BY <1>1, <1>2, <1>3, <1>4, <1>5 DEF VenueQueueTypeOK

LEMMA QueueSurroundings ==
  ASSUME VenueQueueTypeOK, NEW s,
         (s \in Songs /\ TrackArrives(s)) \/ ClockTicks \/ PlayerActs
  PROVE  VenueQueueTypeOK'
<1>1. CASE s \in Songs /\ TrackArrives(s)
  BY <1>1 DEF TrackArrives, VenueQueueTypeOK
<1>2. CASE ClockTicks
  <2>1. clock' \in 0 .. DayTime
    BY <1>2, VenueQueueConstants DEF ClockTicks, VenueQueueTypeOK
  <2> QED
    BY <1>2, <2>1 DEF ClockTicks, VenueQueueTypeOK
<1>3. CASE PlayerActs
  <2>1. player' \in PlayerRec
    BY <1>3, QueueTypes DEF PlayerActs, PlayerRec
  <2> QED
    BY <1>3, <2>1 DEF PlayerActs, PlayerRec, VenueQueueTypeOK
<1> QED
  BY <1>1, <1>2, <1>3

LEMMA QueueRunsOn ==
  ASSUME VenueQueueTypeOK, NEW r \in QueueRuns,
         FetchAssignment(r) \/ SchedulesFail(r) \/ QueueSteps(r)
  PROVE  VenueQueueTypeOK'
<1> USE QueueTypes
<1>0. queueRun[r] \in QueueRec
  OBVIOUS
<1>1. CASE FetchAssignment(r)
  <2> DEFINE wanted1 == IF assigned = NoPlaylist THEN {} ELSE contents[assigned] \ excluded
             q == [NoQueueRun EXCEPT !.pc = "assigned", !.list = assigned, !.wanted = wanted1]
  <2>1. wanted1 \subseteq Songs /\ assigned \in Playlists \cup {NoPlaylist}
    BY DEF VenueQueueTypeOK
  <2>2. QueueStep(r, q)
    BY <1>1 DEF FetchAssignment
  <2> HIDE DEF wanted1
  <2>3. q \in QueueRec
    BY <2>1 DEF QueueRec, NoQueueRun
  <2> HIDE DEF q
  <2>4. UNCHANGED <<assigned, excluded, contents, slots, clock, mapped, queue, entries, player,
                    queueEdits, queueFaults>>
    BY <1>1 DEF FetchAssignment
  <2> QED
    BY <2>2, <2>3, <2>4, QueueRunMoves DEF VenueQueueTypeOK
<1>2. CASE FetchSchedules(r) \/ SchedulesFail(r)
  <2>1. \A s \in Winners :
          [queueRun[r] EXCEPT !.pc = "planned", !.list = s.playlist,
                              !.wanted = contents[s.playlist] \ excluded] \in QueueRec
    <3> TAKE s \in Winners
    <3>1. s.playlist \in Playlists
      BY DEF Winners, Active
    <3>2. contents[s.playlist] \ excluded \subseteq Songs
      BY <3>1 DEF VenueQueueTypeOK
    <3> QED
      BY <1>0, <3>1, <3>2 DEF QueueRec
  <2>2. [queueRun[r] EXCEPT !.pc = "planned"] \in QueueRec
    BY <1>0 DEF QueueRec
  <2>3. PICK q \in QueueRec : QueueStep(r, q)
    BY <1>2, <2>1, <2>2 DEF FetchSchedules, SchedulesFail
  <2>4. UNCHANGED <<assigned, excluded, contents, slots, clock, mapped, queue, entries, player,
                    queueEdits>>
    BY <1>2 DEF FetchSchedules, SchedulesFail
  <2>5. queueFaults' \in {queueFaults, queueFaults + 1}
    BY <1>2 DEF FetchSchedules, SchedulesFail, QueueFault
  <2> QED
    BY <2>3, <2>4, <2>5, QueueRunMoves DEF VenueQueueTypeOK
<1>3. CASE ReadQueue(r)
  <2> DEFINE keep == queueRun[r].wanted \cap mapped
             q == [queueRun[r] EXCEPT !.pc = "read", !.keep = keep, !.seen = queue,
                                      !.stale = {e \in queue : e[1] \notin keep}]
  <2>1. q \in QueueRec
    BY <1>0 DEF QueueRec, VenueQueueTypeOK
  <2>2. QueueStep(r, q)
    BY <1>3 DEF ReadQueue
  <2> HIDE DEF q
  <2>3. UNCHANGED <<assigned, excluded, contents, slots, clock, mapped, queue, entries, player,
                    queueEdits, queueFaults>>
    BY <1>3 DEF ReadQueue
  <2> QED
    BY <2>1, <2>2, <2>3, QueueRunMoves DEF VenueQueueTypeOK
<1>4. CASE DropStale(r)
  <2>1. [queueRun[r] EXCEPT !.pc = "add"] \in QueueRec
        /\ \A e : [queueRun[r] EXCEPT !.stale = @ \ {e}] \in QueueRec
    BY <1>0 DEF QueueRec
  <2>2. PICK q \in QueueRec : QueueStep(r, q)
    BY <1>4, <2>1 DEF DropStale
  <2>3. queue' \subseteq queue /\ queueFaults' \in {queueFaults, queueFaults + 1}
    BY <1>4 DEF DropStale, QueueFault
  <2>4. UNCHANGED <<assigned, excluded, contents, slots, clock, mapped, entries, player,
                    queueEdits>>
    BY <1>4 DEF DropStale
  <2> QED
    BY <2>1, <2>2, <2>3, <2>4, QueueRunMoves DEF VenueQueueTypeOK
<1>5. ASSUME NEW s \in Songs, AddMissing(r, s)
      PROVE  VenueQueueTypeOK'
  <2> DEFINE q == [queueRun[r] EXCEPT !.wanted = @ \ {s}]
             n == entries[s] + 1
  <2>1. q \in QueueRec
    BY <1>0 DEF QueueRec
  <2>2. QueueStep(r, q)
    BY <1>5 DEF AddMissing
  <2> HIDE DEF q
  <2>3. entries[s] < MaxEntries => n \in 1 .. MaxEntries /\ n \in 0 .. MaxEntries
    BY VenueQueueConstants DEF VenueQueueTypeOK
  <2>4. \/ UNCHANGED <<queue, entries>>
        \/ /\ entries[s] < MaxEntries /\ entries' = [entries EXCEPT ![s] = n]
           /\ queue' = queue \cup {<<s, n>>}
    BY <1>5 DEF AddMissing
  <2> HIDE DEF n
  <2>5. queue' \subseteq Entries /\ entries' \in [Songs -> 0 .. MaxEntries]
    BY <2>3, <2>4 DEF VenueQueueTypeOK, Entries
  <2>6. queueFaults' \in {queueFaults, queueFaults + 1}
    BY <1>5 DEF AddMissing, QueueFault
  <2>7. UNCHANGED <<assigned, excluded, contents, slots, clock, mapped, player, queueEdits>>
    BY <1>5 DEF AddMissing
  <2> QED
    BY <2>1, <2>2, <2>5, <2>6, <2>7, QueueRunMoves
<1>6. CASE AddedAll(r)
  <2> DEFINE q == [queueRun[r] EXCEPT !.pc = "point"]
  <2>1. q \in QueueRec
    BY <1>0 DEF QueueRec
  <2>2. QueueStep(r, q)
    BY <1>6 DEF AddedAll
  <2> HIDE DEF q
  <2>3. UNCHANGED <<assigned, excluded, contents, slots, clock, mapped, queue, entries, player,
                    queueEdits, queueFaults>>
    BY <1>6 DEF AddedAll
  <2> QED
    BY <2>1, <2>2, <2>3, QueueRunMoves DEF VenueQueueTypeOK
<1>7. CASE Repoint(r)
  <2>1. player' \in PlayerRec
    BY <1>7 DEF Repoint, PlayerRec
  <2>2. /\ QueueStep(r, NoQueueRun)
        /\ UNCHANGED <<assigned, excluded, contents, slots, clock, mapped, queue, entries,
                       queueEdits, queueFaults>>
    BY <1>7 DEF Repoint
  <2> QED
    BY <2>1, <2>2, QueueRunMoves DEF VenueQueueTypeOK
<1> QED
  BY <1>1, <1>2, <1>3, <1>4, <1>5, <1>6, <1>7 DEF QueueSteps

\* A zone's queue holds songs there are, and its player one of them or none, however runs of the
\* agent overlap with schedules and with the user (the queue of zone-manager.js).
THEOREM VenueQueueTypes == VenueQueueSpec => []VenueQueueTypeOK
<1>1. VenueQueueInit => VenueQueueTypeOK
  <2> SUFFICES ASSUME VenueQueueInit PROVE VenueQueueTypeOK
    OBVIOUS
  <2>1. queueRun \in [QueueRuns -> QueueRec] /\ player \in PlayerRec
    BY DEF VenueQueueInit, NoQueueRun, QueueRec, PlayerRec
  <2>2. entries \in [Songs -> 0 .. MaxEntries] /\ clock \in 0 .. DayTime
    BY VenueQueueConstants DEF VenueQueueInit
  <2> QED
    BY <2>1, <2>2 DEF VenueQueueInit, VenueQueueTypeOK, QueueRec, PlayerRec
<1>2. VenueQueueTypeOK /\ [VenueQueueNext]_queueVars => VenueQueueTypeOK'
  <2>1. VenueQueueTypeOK /\ UNCHANGED queueVars => VenueQueueTypeOK'
    BY DEF VenueQueueTypeOK, queueVars
  <2> SUFFICES ASSUME VenueQueueTypeOK, VenueQueueNext
               PROVE  VenueQueueTypeOK'
    BY <2>1
  <2> QED
    BY EditsOfTheQueue, QueueSurroundings, QueueRunsOn DEF VenueQueueNext
<1> QED
  BY <1>1, <1>2, PTL DEF VenueQueueSpec

-----------------------------------------------------------------------------
(* The demo in the browser (DemoPrayer) *)

EventRec == [start : Nat, end : Nat]
TimerSet == [Kinds -> Nat \cup {NoTime}]
DemoZoneRec == [state : {"PLAYING", "PAUSED", "STOPPED"}, held : BOOLEAN]
SentRec  == [zone : DemoZones, to : {"PLAYING", "PAUSED", "STOPPED"}, admin : BOOLEAN]
StageRec == [fired : SUBSET (Days \X {"start", "end"}), zones : [DemoZones -> DemoZoneRec],
             sent : Seq(SentRec)]

\* A scheduler that was not started has set no timer, and waits for nothing.
NotStarted == todayKey = NoDay =>
  timer = NoTimer /\ strays = {} /\ \A r \in Recalcs : recalc[r] = {}

DemoInv == DemoPrayerTypeOK /\ stage \in StageRec /\ NotStarted

LEMMA TheDayIsOne ==
  ASSUME DemoPrayerTypeOK
  PROVE  Day \in Days /\ (Day + 1) * DayHours \in Nat
<1>1. DayHours \in Nat /\ DayHours > 0 /\ MaxDemoNow \in Nat
  BY DemoPrayerConstants
<1>2. demoNow \in Nat /\ demoNow <= MaxDemoNow
  BY <1>1 DEF DemoPrayerTypeOK
<1> DEFINE a == demoNow \div DayHours
           b == MaxDemoNow \div DayHours
<1>3. /\ a \in Nat /\ b \in Nat
      /\ demoNow = DayHours * a + (demoNow % DayHours)
      /\ MaxDemoNow = DayHours * b + (MaxDemoNow % DayHours)
      /\ demoNow % DayHours \in 0 .. DayHours - 1
      /\ MaxDemoNow % DayHours \in 0 .. DayHours - 1
  BY <1>1, <1>2
<1> DEFINE m == demoNow % DayHours
           k == MaxDemoNow % DayHours
<1> HIDE DEF a, b, m, k
<1>4. a <= b
  <2> SUFFICES ASSUME a >= b + 1
               PROVE  FALSE
    BY <1>3
  <2>1. DayHours * a >= DayHours * (b + 1)
    BY <1>1, <1>3
  <2>2. DayHours * (b + 1) = DayHours * b + DayHours
    BY <1>1, <1>3
  <2>3. DayHours * a \in Nat /\ DayHours * b \in Nat /\ DayHours * (b + 1) \in Nat
    BY <1>1, <1>3
  <2> QED
    BY <1>1, <1>2, <1>3, <2>1, <2>2, <2>3 DEF m, k
<1>5. (a + 1) * DayHours \in Nat
  BY <1>1, <1>3
<1> QED
  BY <1>3, <1>4, <1>5 DEF Day, Days, a, b

LEMMA WindowTypes ==
  ASSUME NEW entry \in Entry, NEW day \in Days
  PROVE  Window(entry, day) \in EventRec
<1>1. DayHours \in Nat /\ PauseHours \in Nat /\ day \in Nat
  BY DemoPrayerConstants DEF Days
<1>2. Called[entry] \in Nat
  BY DemoPrayerConstants DEF Entry
<1>3. day * DayHours \in Nat
  BY <1>1
<1> DEFINE t == day * DayHours
<1> HIDE DEF t
<1>4. t + Called[entry] \in Nat /\ t + Called[entry] + PauseHours \in Nat
  BY <1>1, <1>2, <1>3 DEF t
<1> QED
  BY <1>4 DEF Window, EventRec, t

\* The commands of one event are a sequence: finitely many zones take part.
LEMMA CommandsTypes ==
  ASSUME NEW zs \in SUBSET DemoZones, NEW to \in {"PLAYING", "PAUSED", "STOPPED"}
  PROVE  Commands(zs, to) \in Seq(SentRec)
<1> DEFINE S == {Command(z, to, FALSE) : z \in zs}
           f == [z \in zs |-> Command(z, to, FALSE)]
<1>1. \A z \in zs : Command(z, to, FALSE) \in SentRec
  BY DEF Command, SentRec
<1>2. IsFiniteSet(zs)
  BY DemoPrayerConstants, FS_Subset
<1>3. S \subseteq SentRec /\ f \in Surjection(zs, S)
  BY <1>1 DEF Surjection
<1>4. IsFiniteSet(S)
  BY <1>2, <1>3, FS_Surjection
<1> HIDE DEF S, f
<1>5. Cardinality(S) \in Nat /\ ExistsBijection(1 .. Cardinality(S), S)
  BY <1>4, FS_CardinalityType
<1>6. PICK g \in [1 .. Cardinality(S) -> S] : IsInjective(g)
  BY <1>5 DEF ExistsBijection, Bijection, Injection
<1>7. SetToSeq(S) \in [1 .. Cardinality(S) -> S]
  BY <1>6 DEF SetToSeq
<1>8. SetToSeq(S) \in Seq(SentRec)
  BY <1>3, <1>5, <1>7
<1> QED
  BY <1>8 DEF Commands, S

LEMMA EventsTypes ==
  ASSUME NEW s \in StageRec, NEW key \in Days
  PROVE  Begin(s, key) \in StageRec /\ End(s, key) \in StageRec
<1> DEFINE playing == {z \in DemoZones : s.zones[z].state = "PLAYING"}
           held == {z \in DemoZones : s.zones[z].held}
           marked == [z \in DemoZones |-> [s.zones[z] EXCEPT !.held = @ \/ z \in playing]]
           released == [z \in DemoZones |-> [s.zones[z] EXCEPT !.held = FALSE]]
           begun == s.sent \o Commands(playing, "PAUSED")
           ended == s.sent \o Commands(held, "PLAYING")
<1>1. marked \in [DemoZones -> DemoZoneRec]
  BY DEF StageRec, DemoZoneRec
<1>2. released \in [DemoZones -> DemoZoneRec]
  BY DEF StageRec, DemoZoneRec
<1>3. /\ s.fired \cup {<<key, "start">>} \in SUBSET (Days \X {"start", "end"})
      /\ s.fired \cup {<<key, "end">>} \in SUBSET (Days \X {"start", "end"})
      /\ s.sent \in Seq(SentRec)
  BY DEF StageRec
<1>4. Commands(playing, "PAUSED") \in Seq(SentRec) /\ Commands(held, "PLAYING") \in Seq(SentRec)
  BY CommandsTypes
<1>5. begun \in Seq(SentRec) /\ ended \in Seq(SentRec)
  BY <1>3, <1>4, ConcatProperties
<1>6. Begin(s, key) \in {s, [fired |-> s.fired \cup {<<key, "start">>}, zones |-> marked,
                             sent |-> begun]}
  BY DEF Begin
<1>7. End(s, key) \in {s, [fired |-> s.fired \cup {<<key, "end">>}, zones |-> released,
                           sent |-> ended]}
  BY DEF End
<1> HIDE DEF marked, released, begun, ended
<1> QED
  BY <1>1, <1>2, <1>3, <1>5, <1>6, <1>7 DEF StageRec

LEMMA ArmTypes ==
  ASSUME NEW old \in TimerSet, NEW left \in SUBSET (Kinds \X Nat), NEW kinds \in SUBSET Kinds,
         NEW at, \A k \in kinds : at[k] \in Nat, Arm(old, left, kinds, at)
  PROVE  timer' \in TimerSet /\ strays' \subseteq Kinds \X Nat
<1>1. timer' \in TimerSet
  BY DEF Arm, TimerSet
<1>2. \A k \in kinds : old[k] # NoTime => <<k, old[k]>> \in Kinds \X Nat
  BY DEF TimerSet
<1> QED
  BY <1>1, <1>2 DEF Arm

LEMMA ScheduleTypes ==
  ASSUME DemoInv, NEW events \in SUBSET EventRec, NEW key, NEW today \in Days,
         NEW old \in TimerSet, NEW left \in SUBSET (Kinds \X Nat),
         NEW rollover \in SUBSET {"midnight"},
         ScheduleAll(events, key, today, old, left, rollover)
  PROVE  timer' \in TimerSet /\ strays' \subseteq Kinds \X Nat /\ stage' \in StageRec
<1> DEFINE due == {e \in events : <<key, "end">> \notin stage.fired}
           e == CHOOSE x \in due : TRUE
           next == (Day + 1) * DayHours
           at == [start |-> e.start, end |-> e.end, midnight |-> next]
           alone == [midnight |-> next]
<1>1. next \in Nat
  BY TheDayIsOne DEF DemoInv
<1>2. /\ rollover \subseteq Kinds
      /\ TimersFor(e, key) \cup rollover \subseteq {"start", "end", "midnight"}
      /\ TimersFor(e, key) \cup rollover \subseteq Kinds
  BY DEF TimersFor, Kinds
<1>3. CASE due = {}
  <2>1. Arm(old, left, rollover, alone) /\ stage' = stage
    BY <1>3 DEF ScheduleAll
  <2> HIDE DEF next
  <2>2. \A k \in rollover : alone[k] \in Nat
    BY <1>1
  <2> HIDE DEF alone
  <2> QED
    BY <1>2, <2>1, <2>2, ArmTypes DEF DemoInv
<1>4. CASE due # {}
  <2>1. e \in EventRec
    <3>1. e \in due
      BY <1>4
    <3> QED
      BY <3>1
  <2>2. stage' = CatchUp(e, key, today) /\ Arm(old, left, TimersFor(e, key) \cup rollover, at)
    BY <1>4 DEF ScheduleAll
  <2> HIDE DEF e, next, due
  <2>3. at.start \in Nat /\ at.end \in Nat /\ at.midnight \in Nat
    BY <1>1, <2>1 DEF EventRec
  <2>4. \A k \in TimersFor(e, key) \cup rollover : at[k] \in Nat
    BY <1>2, <2>3
  <2> HIDE DEF at
  <2>5. timer' \in TimerSet /\ strays' \subseteq Kinds \X Nat
    BY <1>2, <2>2, <2>4, ArmTypes
  <2> DEFINE begun == IF <<key, "start">> \notin stage.fired /\ demoNow >= e.start
                      THEN Begin(stage, today) ELSE stage
  <2>6. begun \in StageRec
    BY EventsTypes DEF DemoInv
  <2>7. CatchUp(e, key, today) \in {begun, End(begun, today)}
    BY DEF CatchUp
  <2> HIDE DEF begun
  <2>8. CatchUp(e, key, today) \in StageRec
    BY <2>6, <2>7, EventsTypes
  <2> QED
    BY <2>2, <2>5, <2>8
<1> QED
  BY <1>3, <1>4

\* What the scheduler and the zones are, and what they work with.
AtWork ==
  /\ timer \in TimerSet /\ strays \subseteq Kinds \X Nat /\ stage \in StageRec
  /\ todayKey \in Days \cup {NoDay} /\ todayEvents \subseteq EventRec
  /\ recalc \in [Recalcs -> SUBSET Entry] /\ NotStarted

AtHand ==
  /\ demoNow \in 0 .. MaxDemoNow /\ wanted \in DemoPlaces \cup {Off}
  /\ known \subseteq Entry /\ latest \subseteq known
  /\ hidden \in BOOLEAN /\ demoActs \in Nat /\ demoFaults \subseteq DemoFaultKinds

LEMMA DemoInvParts == DemoInv <=> AtHand /\ AtWork
BY DEF DemoInv, AtHand, AtWork, DemoPrayerTypeOK, StageRec, DemoZoneRec, SentRec, TimerSet,
       EventRec

LEMMA DaysAreNumbers == NoDay \notin Days
BY DEF NoDay, Days

LEMMA RecalculateTypes ==
  ASSUME DemoInv, NEW place \in DemoPlaces \cup {Off}, NEW left \in SUBSET (Kinds \X Nat),
         todayKey = NoDay => left = {},
         Recalculate(place, left)
  PROVE  AtWork'
<1>1. /\ NoTimer \in TimerSet /\ timer \in TimerSet
      /\ Day \in Days /\ (place # Off => <<place, Day>> \in Entry)
      /\ todayKey \in Days \cup {NoDay} /\ recalc \in [Recalcs -> SUBSET Entry]
      /\ todayEvents \subseteq EventRec /\ stage \in StageRec
  BY TheDayIsOne DEF DemoInv, DemoPrayerTypeOK, TimerSet, NoTimer, Entry, EventRec
<1>2. CASE place = Off /\ todayEvents' = {} /\ timer' = NoTimer /\ strays' = left
           /\ UNCHANGED <<todayKey, recalc, stage>>
  BY <1>1, <1>2 DEF AtWork, NotStarted, DemoInv
<1>3. CASE /\ place # Off /\ todayKey' = Day
           /\ todayEvents' = {Window(<<place, Day>>, Day)}
           /\ ScheduleAll(todayEvents', Day, Day, NoTimer, left, {"midnight"})
           /\ UNCHANGED recalc
  <2> DEFINE w == {Window(<<place, Day>>, Day)}
  <2>1. w \in SUBSET EventRec
    BY <1>1, <1>3, WindowTypes
  <2>2. ScheduleAll(w, Day, Day, NoTimer, left, {"midnight"})
    BY <1>3
  <2> HIDE DEF w
  <2>3. timer' \in TimerSet /\ strays' \subseteq Kinds \X Nat /\ stage' \in StageRec
    BY <1>1, <2>1, <2>2, ScheduleTypes
  <2>4. todayKey' \in Days /\ todayKey' # NoDay
    BY <1>1, <1>3, DaysAreNumbers
  <2> QED
    BY <1>1, <1>3, <2>1, <2>3, <2>4 DEF AtWork, NotStarted, w
<1>4. CASE /\ place # Off /\ todayKey' = Day /\ timer' = NoTimer /\ strays' = left
           /\ \E r \in Recalcs : recalc' = [recalc EXCEPT ![r] = {<<place, Day>>}]
           /\ UNCHANGED <<todayEvents, stage>>
  <2>1. todayKey' \in Days /\ todayKey' # NoDay
    BY <1>1, <1>4, DaysAreNumbers
  <2>2. recalc' \in [Recalcs -> SUBSET Entry]
    BY <1>1, <1>4
  <2> QED
    BY <1>1, <1>4, <2>1, <2>2 DEF AtWork, NotStarted
<1> QED
  BY <1>2, <1>3, <1>4 DEF Recalculate

LEMMA GoOnTypes ==
  ASSUME DemoInv, NEW r \in Recalcs, recalc[r] # {}, NEW entry \in Entry, GoOn(r, entry),
         UNCHANGED todayKey
  PROVE  AtWork'
<1> DEFINE x == CHOOSE y \in recalc[r] : TRUE
           day == x[2]
           w == {Window(entry, day)}
<1>1. x \in Entry
  <2>1. recalc[r] \subseteq Entry
    BY DEF DemoInv, DemoPrayerTypeOK
  <2> QED
    BY <2>1
<1>2. /\ recalc' = [recalc EXCEPT ![r] = {}] /\ todayEvents' = w
      /\ ScheduleAll(w, day, todayKey, timer, strays, {"midnight"})
  BY DEF GoOn
<1> HIDE DEF x
<1>3. day \in Days
  BY <1>1 DEF Entry
<1>4. w \in SUBSET EventRec
  BY <1>3, WindowTypes
<1> HIDE DEF w, day
<1>5. /\ timer \in TimerSet /\ strays \in SUBSET (Kinds \X Nat)
      /\ todayKey \in Days /\ recalc' \in [Recalcs -> SUBSET Entry]
  BY <1>2 DEF DemoInv, DemoPrayerTypeOK, NotStarted, TimerSet
<1>6. timer' \in TimerSet /\ strays' \subseteq Kinds \X Nat /\ stage' \in StageRec
  BY <1>2, <1>4, <1>5, ScheduleTypes
<1> QED
  BY <1>2, <1>4, <1>5, <1>6, DaysAreNumbers DEF AtWork, NotStarted

LEMMA GoesOffTypes ==
  ASSUME DemoInv, NEW k \in Kinds, NEW others \in TimerSet, NEW left \in SUBSET (Kinds \X Nat),
         todayKey \in Days, GoesOff(k, others, left)
  PROVE  AtWork'
<1>1. CASE /\ stage' = IF k = "start" THEN Begin(stage, todayKey) ELSE End(stage, todayKey)
           /\ timer' = others /\ strays' = left
           /\ UNCHANGED <<todayKey, todayEvents, recalc>>
  <2>1. AtWork /\ todayKey # NoDay
    BY DemoInvParts, DaysAreNumbers
  <2>2. stage' \in StageRec
    BY <1>1, EventsTypes DEF DemoInv
  <2> QED
    BY <1>1, <2>1, <2>2 DEF AtWork, NotStarted
<1>2. CASE Recalculate(wanted, left)
  BY <1>2, RecalculateTypes, DaysAreNumbers DEF DemoInv, DemoPrayerTypeOK
<1> QED
  BY <1>1, <1>2 DEF GoesOff

LEMMA DemoTimersTypes ==
  ASSUME DemoInv, DemoTimers
  PROVE  DemoInv'
<1>1. AtHand /\ AtWork
  BY DemoInvParts
<1>2. CASE \E k \in Kinds : TimerFires(k)
  <2>1. PICK k \in Kinds : TimerFires(k)
    BY <1>2
  <2> DEFINE others == [timer EXCEPT ![k] = NoTime]
  <2>2. timer[k] # NoTime /\ GoesOff(k, others, strays) /\ AtHand'
    BY <1>1, <2>1 DEF TimerFires, Due, AtHand
  <2>3. others \in TimerSet /\ strays \in SUBSET (Kinds \X Nat)
    BY <1>1 DEF AtWork, TimerSet
  <2>4. todayKey \in Days
    BY <1>1, <2>2 DEF AtWork, NotStarted, NoTimer
  <2> HIDE DEF others
  <2>5. AtWork'
    BY <2>2, <2>3, <2>4, GoesOffTypes
  <2> QED
    BY <2>2, <2>5, DemoInvParts, PTL
<1>3. CASE \E x \in strays : StrayFires(x)
  <2>1. PICK x \in strays : StrayFires(x)
    BY <1>3
  <2>2. GoesOff(x[1], timer, strays \ {x}) /\ AtHand'
    BY <1>1, <2>1 DEF StrayFires, AtHand
  <2>3. x[1] \in Kinds /\ timer \in TimerSet /\ strays \ {x} \in SUBSET (Kinds \X Nat)
    BY <1>1 DEF AtWork
  <2>4. todayKey \in Days
    BY <1>1 DEF AtWork, NotStarted
  <2>5. AtWork'
    BY <2>2, <2>3, <2>4, GoesOffTypes
  <2> QED
    BY <2>2, <2>5, DemoInvParts, PTL
<1> QED
  BY <1>2, <1>3 DEF DemoTimers

LEMMA ZonesAct ==
  ASSUME AtWork, UNCHANGED <<todayKey, todayEvents, timer, strays, recalc>>
  PROVE  stage' \in StageRec => AtWork'
BY DEF AtWork, NotStarted

LEMMA ZoneSteps ==
  ASSUME DemoInv,
         \/ \E z \in DemoZones, to \in {"PLAYING", "PAUSED", "STOPPED"}, admin \in BOOLEAN :
              SendCommand(z, to, admin)
         \/ Apply \/ CommandFails
  PROVE  DemoInv'
<1>1. AtHand /\ AtWork /\ stage \in StageRec
  BY DemoInvParts DEF DemoInv
<1>2. CASE \E z \in DemoZones, to \in {"PLAYING", "PAUSED", "STOPPED"}, admin \in BOOLEAN :
             SendCommand(z, to, admin)
  <2>1. PICK z \in DemoZones, to \in {"PLAYING", "PAUSED", "STOPPED"}, admin \in BOOLEAN :
             SendCommand(z, to, admin)
    BY <1>2
  <2> DEFINE q == Append(stage.sent, Command(z, to, admin))
  <2>2. q \in Seq(SentRec)
    <3>1. Command(z, to, admin) \in SentRec
      BY DEF Command, SentRec
    <3>2. stage.sent \in Seq(SentRec)
      BY <1>1 DEF StageRec
    <3> QED
      BY <3>1, <3>2, AppendProperties
  <2>3. stage' = [stage EXCEPT !.sent = q]
    BY <2>1 DEF SendCommand
  <2> HIDE DEF q
  <2>4. stage' \in StageRec
    BY <1>1, <2>2, <2>3 DEF StageRec
  <2>5. AtHand'
    BY <1>1, <2>1 DEF AtHand, SendCommand
  <2>6. AtWork'
    BY <1>1, <2>1, <2>4, ZonesAct DEF SendCommand
  <2> QED
    BY <2>5, <2>6, DemoInvParts, PTL
<1>3. ASSUME stage.sent # <<>>
      PROVE  Head(stage.sent) \in SentRec /\ Tail(stage.sent) \in Seq(SentRec)
  <2>1. stage.sent \in Seq(SentRec)
    BY <1>1 DEF StageRec
  <2> QED
    BY <1>3, <2>1, HeadTailProperties
<1>4. CASE Apply
  <2> DEFINE c == Head(stage.sent)
             q == Tail(stage.sent)
             f == [stage.zones EXCEPT ![c.zone] = [state |-> c.to, held |-> @.held /\ ~ c.admin]]
  <2>1. c \in SentRec /\ q \in Seq(SentRec)
    BY <1>3, <1>4 DEF Apply
  <2>2. stage' = [stage EXCEPT !.sent = q, !.zones = f]
    <3> HIDE DEF q
    <3>1. stage' = [stage EXCEPT !.sent = q,
                      !.zones[c.zone] = [state |-> c.to, held |-> @.held /\ ~ c.admin]]
      BY <1>4 DEF Apply, q
    <3> QED
      BY <1>1, <3>1 DEF StageRec
  <2> HIDE DEF c, q
  <2>3. f \in [DemoZones -> DemoZoneRec]
    <3>1. /\ stage.zones \in [DemoZones -> DemoZoneRec]
          /\ c.zone \in DemoZones /\ c.to \in {"PLAYING", "PAUSED", "STOPPED"}
      BY <1>1, <2>1 DEF StageRec, SentRec
    <3>2. (stage.zones[c.zone].held /\ ~ c.admin) \in BOOLEAN
      OBVIOUS
    <3> DEFINE b == stage.zones[c.zone].held /\ ~ c.admin
    <3>3. f = [stage.zones EXCEPT ![c.zone] = [state |-> c.to, held |-> b]]
      OBVIOUS
    <3> HIDE DEF b, f
    <3>4. b \in BOOLEAN
      BY <3>2 DEF b
    <3> QED
      BY <3>1, <3>3, <3>4 DEF DemoZoneRec
  <2> HIDE DEF f
  <2>4. stage' \in StageRec
    BY <1>1, <2>1, <2>2, <2>3 DEF StageRec
  <2>5. AtHand'
    BY <1>1, <1>4 DEF AtHand, Apply
  <2>6. AtWork'
    BY <1>1, <1>4, <2>4, ZonesAct DEF Apply
  <2> QED
    BY <2>5, <2>6, DemoInvParts, PTL
<1>5. CASE CommandFails
  <2> DEFINE q == Tail(stage.sent)
  <2>1. q \in Seq(SentRec) /\ stage' = [stage EXCEPT !.sent = q]
    BY <1>3, <1>5 DEF CommandFails
  <2> HIDE DEF q
  <2>2. stage' \in StageRec
    BY <1>1, <2>1 DEF StageRec
  <2>3. AtHand'
    BY <1>1, <1>5 DEF AtHand, CommandFails, DemoFault
  <2>4. AtWork'
    BY <1>1, <1>5, <2>2, ZonesAct DEF CommandFails
  <2> QED
    BY <2>3, <2>4, DemoInvParts, PTL
<1> QED
  BY <1>2, <1>4, <1>5

LEMMA RecalculationSteps ==
  ASSUME DemoInv,
         \/ StartScheduler
         \/ \E place \in DemoPlaces \cup {Off} : ConfigSaved(place)
         \/ \E r \in Recalcs : TimesArrive(r) \/ TimesFail(r)
  PROVE  DemoInv'
<1>1. AtHand /\ AtWork /\ strays \in SUBSET (Kinds \X Nat)
  BY DemoInvParts DEF AtWork
<1>2. todayKey = NoDay => strays = {}
  BY <1>1 DEF AtWork, NotStarted
<1>3. CASE StartScheduler
  <2>1. AtHand' /\ Recalculate(wanted, strays) /\ wanted \in DemoPlaces \cup {Off}
    BY <1>1, <1>3 DEF StartScheduler, AtHand
  <2>2. AtWork'
    BY <1>1, <1>2, <2>1, RecalculateTypes
  <2> QED
    BY <2>1, <2>2, DemoInvParts, PTL
<1>4. CASE \E place \in DemoPlaces \cup {Off} : ConfigSaved(place)
  <2>1. PICK place \in DemoPlaces \cup {Off} : ConfigSaved(place)
    BY <1>4
  <2>2. AtHand' /\ Recalculate(place, strays)
    BY <1>1, <2>1 DEF ConfigSaved, AtHand
  <2>3. AtWork'
    BY <1>1, <1>2, <2>2, RecalculateTypes
  <2> QED
    BY <2>2, <2>3, DemoInvParts, PTL
<1>5. CASE \E r \in Recalcs : TimesArrive(r) \/ TimesFail(r)
  <2>1. PICK r \in Recalcs : TimesArrive(r) \/ TimesFail(r)
    BY <1>5
  <2>2. recalc[r] # {} /\ recalc[r] \subseteq Entry /\ UNCHANGED todayKey
    BY <1>1, <2>1 DEF TimesArrive, TimesFail, AtWork
  <2>3. AtHand'
    BY <1>1, <2>1, <2>2 DEF TimesArrive, TimesFail, AtHand, DemoFault
  <2>4. CASE \E entry \in Entry : GoOn(r, entry)
    <3>1. AtWork'
      BY <2>2, <2>4, GoOnTypes
    <3> QED
      BY <2>3, <3>1, DemoInvParts, PTL
  <2>5. CASE /\ Arm(timer, strays, {"retry"}, [retry |-> demoNow])
             /\ recalc' = [recalc EXCEPT ![r] = {}]
             /\ UNCHANGED <<todayEvents, stage>>
    <3> DEFINE at == [retry |-> demoNow]
    <3>1. timer \in TimerSet /\ {"retry"} \in SUBSET Kinds
      BY <1>1 DEF AtWork, Kinds
    <3>2. \A k \in {"retry"} : at[k] \in Nat
      BY <1>1, DemoPrayerConstants DEF AtHand
    <3>3. Arm(timer, strays, {"retry"}, at)
      BY <2>5
    <3> HIDE DEF at
    <3>4. timer' \in TimerSet /\ strays' \subseteq Kinds \X Nat
      BY <1>1, <3>1, <3>2, <3>3, ArmTypes
    <3>5. todayKey' # NoDay
      BY <1>1, <2>2 DEF AtWork, NotStarted
    <3>6. AtWork'
      BY <1>1, <2>2, <2>5, <3>4, <3>5 DEF AtWork, NotStarted
    <3> QED
      BY <2>3, <3>6, DemoInvParts, PTL
  <2>6. latest \subseteq Entry
    BY <1>1 DEF AtHand
  <2> QED
    BY <2>1, <2>2, <2>4, <2>5, <2>6 DEF TimesArrive, TimesFail
<1> QED
  BY <1>3, <1>4, <1>5

LEMMA TabSteps ==
  ASSUME DemoInv, DemoTimePasses \/ Hide \/ Show \/ Reload
  PROVE  DemoInv'
<1>1. AtHand /\ AtWork
  BY DemoInvParts
<1>2. CASE DemoTimePasses
  <2>1. demoNow' \in 0 .. MaxDemoNow
    BY <1>1, <1>2, DemoPrayerConstants DEF AtHand, DemoTimePasses
  <2>2. AtHand' /\ AtWork'
    BY <1>1, <1>2, <2>1 DEF AtHand, AtWork, NotStarted, DemoTimePasses
  <2> QED
    BY <2>2, DemoInvParts, PTL
<1>3. CASE Hide
  <2>1. AtHand' /\ AtWork'
    BY <1>1, <1>3 DEF AtHand, AtWork, NotStarted, Hide
  <2> QED
    BY <2>1, DemoInvParts, PTL
<1>4. CASE Show
  <2>1. AtHand'
    BY <1>1, <1>4 DEF AtHand, Show
  <2>2. CASE todayKey = NoDay
    <3>1. AtWork'
      BY <1>1, <1>4, <2>2 DEF AtWork, NotStarted, Show
    <3> QED
      BY <2>1, <3>1, DemoInvParts, PTL
  <2>3. CASE todayKey # NoDay
    <3>1. /\ todayEvents \in SUBSET EventRec /\ todayKey \in Days /\ timer \in TimerSet
          /\ strays \in SUBSET (Kinds \X Nat) /\ {} \in SUBSET {"midnight"}
      BY <1>1, <2>3 DEF AtWork
    <3>2. ScheduleAll(todayEvents, todayKey, todayKey, timer, strays, {})
      BY <1>4, <2>3 DEF Show
    <3>3. timer' \in TimerSet /\ strays' \subseteq Kinds \X Nat /\ stage' \in StageRec
      BY <3>1, <3>2, ScheduleTypes
    <3>4. AtWork'
      BY <1>1, <1>4, <2>3, <3>3 DEF AtWork, NotStarted, Show
    <3> QED
      BY <2>1, <3>4, DemoInvParts, PTL
  <2> QED
    BY <2>2, <2>3
<1>5. CASE Reload
  <2>1. AtHand'
    BY <1>1, <1>5 DEF AtHand, Reload, DemoFault
  <2>2. Opened \in StageRec
    BY DEF Opened, StageRec, DemoZoneRec, Playing
  <2>3. NoTimer \in TimerSet /\ [r \in Recalcs |-> {}] \in [Recalcs -> SUBSET Entry]
    BY DEF NoTimer, TimerSet
  <2>4. AtWork'
    BY <1>5, <2>2, <2>3 DEF AtWork, NotStarted, Reload
  <2> QED
    BY <2>1, <2>4, DemoInvParts, PTL
<1> QED
  BY <1>2, <1>3, <1>4, <1>5

LEMMA DemoBegins == DemoPrayerInit => DemoInv
<1> SUFFICES ASSUME DemoPrayerInit PROVE DemoInv
  OBVIOUS
<1>1. AtHand
  BY DEF DemoPrayerInit, AtHand
<1>2. Opened \in StageRec
  BY DEF Opened, StageRec, DemoZoneRec, Playing
<1>3. NoTimer \in TimerSet /\ [r \in Recalcs |-> {}] \in [Recalcs -> SUBSET Entry]
  BY DEF NoTimer, TimerSet
<1>4. AtWork
  BY <1>2, <1>3 DEF AtWork, NotStarted, DemoPrayerInit
<1> QED
  BY <1>1, <1>4, DemoInvParts

\* The scheduler of the browser keeps its types whatever happens to the page: its timers are of
\* the four kinds and set for hours, its window is of a day it knows, and the commands on their
\* way are a sequence of commands to zones.
THEOREM DemoPrayerTypes == DemoPrayerSpec => []DemoPrayerTypeOK
<1>1. DemoInv /\ [DemoPrayerNext]_demoVars => DemoInv'
  <2> SUFFICES ASSUME DemoInv, [DemoPrayerNext]_demoVars PROVE DemoInv'
    OBVIOUS
  <2>1. CASE UNCHANGED demoVars
    <3>1. AtHand /\ AtWork
      BY DemoInvParts
    <3>2. AtHand' /\ AtWork'
      BY <2>1, <3>1 DEF demoVars, AtHand, AtWork, NotStarted
    <3> QED
      BY <3>2, DemoInvParts, PTL
  <2>2. CASE DemoPrayerNext
    BY <2>2, RecalculationSteps, TabSteps, ZoneSteps, DemoTimersTypes DEF DemoPrayerNext
  <2> QED
    BY <2>1, <2>2
<1>2. DemoInv => DemoPrayerTypeOK
  BY DEF DemoInv
<1> QED
  BY <1>1, <1>2, DemoBegins, PTL DEF DemoPrayerSpec

-----------------------------------------------------------------------------
(* The venue *)

\* Every part keeps its types, in whatever order the parts move.
THEOREM VenueTypes ==
  ASSUME PairsAreTracks
  PROVE  VenueSpec /\ TenantsAgree => []VenueTypeOK
<1>1. /\ LinkInv => AgentLinkTypeOK
      /\ TrackInv => TrackSyncTypeOK
      /\ EqInv => EqualizerTypeOK
      /\ SInv => SessionsTypeOK
  BY DEF LinkInv, TrackInv, EqInv, SInv
<1>2. VenueSpec => [](LifecycleTypeOK /\ TrackSyncTypeOK /\ ZoneReportsTypeOK /\ VenueQueueTypeOK)
  BY <1>1, VenueIsItsParts, LifecycleTypes, TrackInductive, ZoneReportsTypes, VenueQueueTypes, PTL
<1>3. VenueSpec => [](AgentLinkTypeOK /\ EqualizerTypeOK /\ SessionsTypeOK /\ PrayerTimesTypeOK)
  BY <1>1, VenueIsItsParts, LinkInductive, EqInductive, SessionsInductive, PrayerTimesTypes, PTL
<1>4. VenueSpec /\ TenantsAgree
        => [](DemoPrayerTypeOK /\ PortalRowsTypeOK /\ PortalCacheTypeOK /\ PortalPagesTypeOK)
  BY VenueIsItsParts, DemoPrayerTypes, PortalRowsTypes, CacheTypeCorrect, PortalPagesTypes, PTL
<1>5. /\ LifecycleTypeOK /\ TrackSyncTypeOK /\ ZoneReportsTypeOK /\ VenueQueueTypeOK
      /\ AgentLinkTypeOK /\ EqualizerTypeOK /\ SessionsTypeOK /\ PrayerTimesTypeOK
      /\ DemoPrayerTypeOK /\ PortalRowsTypeOK /\ PortalCacheTypeOK /\ PortalPagesTypeOK
      => VenueTypeOK
  BY DEF VenueTypeOK
<1> QED
  BY <1>2, <1>3, <1>4, <1>5, PTL

\* What the parts promise holds of the venue, which is what the run venue_safety checks of one.
THEOREM VenueIsSafe ==
  ASSUME PairsAreTracks, PrayerNearItsDate
  PROVE  VenueSpec /\ TenantsAgree /\ InOrder(Seed) =>
           /\ [](ReachedMeansShut /\ NoOrphanToken /\ CachedIsOnDisk /\ RunningPolls)
           /\ [](SocketsPerStart /\ ConfigMatchesFiles /\ AppliedStays /\ TimesAreRight)
           /\ [](ScheduledOnTime /\ VenueClockWins /\ TenantsAgree /\ ListsAgree)
           /\ [](OwnEditsShow /\ OfferedIsPermitted)
           /\ SignedOutForAReason /\ PairingKept
<1>1. VenueSpec => [](ReachedMeansShut /\ NoOrphanToken /\ CachedIsOnDisk /\ RunningPolls)
  BY VenueIsItsParts, ReachedMachineIsShut, NoTokenIsOrphaned, CachedHasFile, RunningAgentPolls, PTL
<1>2. VenueSpec => [](SocketsPerStart /\ ConfigMatchesFiles /\ AppliedStays /\ TimesAreRight)
  BY VenueIsItsParts, ConnectionsDoNotMultiply, ConfigIsComplete, AcknowledgedCurvesStay,
     SharedTimesAreRight, PTL
<1>3. VenueSpec /\ TenantsAgree /\ InOrder(Seed)
        => [](ScheduledOnTime /\ VenueClockWins /\ TenantsAgree /\ ListsAgree)
  BY VenueIsItsParts, PauseAtThePrayer, VenueClockRules, EveryRowHasOneTenant, ListsStayInOrder, PTL
<1>4. VenueSpec => [](OwnEditsShow /\ OfferedIsPermitted)
  BY VenueIsItsParts, EditsShow, PagesOfferWhatIsPermitted, PTL
<1>5. VenueSpec => SignedOutForAReason
  BY VenueIsItsParts, SignOutHasReason
<1>6. VenueSpec => PairingKept
  BY VenueIsItsParts, PairingKeepsItsPromise
<1> QED
  BY <1>1, <1>2, <1>3, <1>4, <1>5, <1>6
=============================================================================
