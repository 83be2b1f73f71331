----------------------------- MODULE VenueQueue -----------------------------
(***************************************************************************)
(* What one zone plays: the portal assigns a playlist, excludes tracks and   *)
(* keeps schedule slots (backend/src/routes/zones.ts, playlists.ts,          *)
(* schedules.ts); the agent fetches both (POST /server/zone-playlists/sync   *)
(* and GET /server/schedules in routes/agent.ts) and makes the zone's local  *)
(* queue match (syncZonePlaylistsOnce and applyZoneTrackList in              *)
(* agent-bridge/lib/agent.js).  Runs may overlap: a timer, the end of a track*)
(* sync, two commands and the control panel start them.                      *)
(*                                                                         *)
(* An entry of the local queue is a pair of its track and its number among   *)
(* the entries made for that track.                                         *)
(***************************************************************************)
EXTENDS Integers, FiniteSets

CONSTANTS
  Songs,           \* tracks
  Playlists,       \* playlists
  NoPlaylist,      \* nothing assigned, no schedule slot
  Slots,           \* the schedule slots a manager may enable
  QueueRuns,       \* runs of syncZonePlaylistsOnce that may be in progress together
  QueueFaults,     \* the kinds of fault that may happen
  DayTime,         \* bound: the clock's values on the day that is modelled, 0 .. DayTime
  MaxEntries,      \* bound: queue entries made for one track
  MaxQueueEdits,   \* bound: changes made by hand in one behaviour
  MaxQueueFaults   \* bound: faults in one behaviour

NoSong == NoPlaylist
Entries == Songs \X (1 .. MaxEntries)

ASSUME VenueQueueConstants ==
  /\ NoPlaylist \notin Playlists \cup Songs
  /\ Slots \subseteq [playlist : Playlists, today : BOOLEAN, start : Nat, end : Nat,
                      priority : Int]
  /\ QueueFaults \subseteq {"schedules", "local"}
  /\ {DayTime, MaxEntries, MaxQueueEdits, MaxQueueFaults} \subseteq Nat

VARIABLES
  assigned,    \* Zone.currentPlaylistId
  excluded,    \* Zone.excludedTrackIds
  contents,    \* the tracks of each playlist
  slots,       \* the zone's enabled Schedule rows
  clock,       \* the machine's time of day
  mapped,      \* tracks the machine has: the domain of trackIdMap
  queue,       \* the zone's local queue
  entries,     \* entries made so far, per track
  player,      \* what the local player does: its state and the loaded track
  queueRun,    \* the runs of syncZonePlaylistsOnce
  queueEdits,  \* changes made by hand so far
  queueFaults  \* faults so far

queueVars == <<assigned, excluded, contents, slots, clock, mapped, queue, entries, player,
               queueRun, queueEdits, queueFaults>>

NoQueueRun == [pc |-> "idle", list |-> NoPlaylist, wanted |-> {}, keep |-> {}, seen |-> {},
               stale |-> {}]

VenueQueueTypeOK ==
  /\ assigned \in Playlists \cup {NoPlaylist}
  /\ excluded \subseteq Songs
  /\ contents \in [Playlists -> SUBSET Songs]
  /\ slots \subseteq Slots /\ clock \in 0 .. DayTime
  /\ mapped \subseteq Songs
  /\ queue \subseteq Entries /\ entries \in [Songs -> 0 .. MaxEntries]
  /\ player \in [state : {"playing", "paused", "stopped"}, song : Songs \cup {NoSong}]
  /\ queueRun \in [QueueRuns -> [pc : {"idle", "assigned", "planned", "read", "add", "point"},
                                 list : Playlists \cup {NoPlaylist}, wanted : SUBSET Songs,
                                 keep : SUBSET Songs, seen : SUBSET Entries,
                                 stale : SUBSET Entries]]
  /\ queueEdits \in Nat /\ queueFaults \in Nat

VenueQueueInit ==
  /\ assigned = NoPlaylist /\ excluded = {}
  /\ contents \in [Playlists -> SUBSET Songs]
  /\ slots \in SUBSET Slots /\ clock = 0
  /\ mapped \in SUBSET Songs
  /\ queue = {} /\ entries = [s \in Songs |-> 0]
  /\ player = [state |-> "stopped", song |-> NoSong]
  /\ queueRun = [r \in QueueRuns |-> NoQueueRun]
  /\ queueEdits = 0 /\ queueFaults = 0

QueueFault(kind) ==
  kind \in QueueFaults /\ queueFaults < MaxQueueFaults /\ queueFaults' = queueFaults + 1

SongsOf(es) == {e[1] : e \in es}

\* activeScheduleWinners: of the slots whose window holds the time of day, one of the
\* highest priority (the first of them by its start).
Active == {s \in slots : s.today /\ s.start <= clock /\ clock < s.end}

Winners == {s \in Active : \A t \in Active :
              t.priority < s.priority \/ (t.priority = s.priority /\ s.start <= t.start)}

\* What the zone should play: the winning slot's playlist, or else the assigned one.
Targets == IF Active # {} THEN {s.playlist : s \in Winners} ELSE {assigned}

-----------------------------------------------------------------------------
(* The portal *)

Edit == queueEdits < MaxQueueEdits /\ queueEdits' = queueEdits + 1

\* POST /zones/:id/playlist: another playlist forgets the exclusions.
AssignPlaylist(p) ==
  /\ Edit
  /\ assigned' = p
  /\ excluded' = IF p = assigned THEN excluded ELSE {}
  /\ UNCHANGED <<contents, slots, clock, mapped, queue, entries, player, queueRun, queueFaults>>

\* POST /playlists/:id/assign: the exclusions stay.
AssignFromPlaylist(p) ==
  /\ Edit
  /\ assigned' = p
  /\ UNCHANGED <<excluded, contents, slots, clock, mapped, queue, entries, player, queueRun,
                 queueFaults>>

\* POST /zones/:id/tracks/:trackId/remove and .../restore.
ToggleExcluded(s) ==
  /\ Edit
  /\ excluded' = IF s \in excluded THEN excluded \ {s} ELSE excluded \cup {s}
  /\ UNCHANGED <<assigned, contents, slots, clock, mapped, queue, entries, player, queueRun,
                 queueFaults>>

\* A track is added to a playlist or taken out of it.
EditPlaylist(p, s) ==
  /\ Edit
  /\ contents' = [contents EXCEPT ![p] = IF s \in @ THEN @ \ {s} ELSE @ \cup {s}]
  /\ UNCHANGED <<assigned, excluded, slots, clock, mapped, queue, entries, player, queueRun,
                 queueFaults>>

\* DELETE /playlists/:id: the zone's assignment falls back to none, its slots go with it.
DeletePlaylist(p) ==
  /\ Edit
  /\ assigned' = IF assigned = p THEN NoPlaylist ELSE assigned
  /\ slots' = {s \in slots : s.playlist # p}
  /\ contents' = [contents EXCEPT ![p] = {}]
  /\ UNCHANGED <<excluded, clock, mapped, queue, entries, player, queueRun, queueFaults>>

\* A schedule slot is created or enabled, disabled or deleted.
ToggleSlot(s) ==
  /\ Edit
  /\ slots' = IF s \in slots THEN slots \ {s} ELSE slots \cup {s}
  /\ UNCHANGED <<assigned, excluded, contents, clock, mapped, queue, entries, player, queueRun,
                 queueFaults>>

-----------------------------------------------------------------------------
(* The machine's surroundings: time, the library, the player *)

ClockTicks ==
  /\ clock < DayTime
  /\ clock' = clock + 1
  /\ UNCHANGED <<assigned, excluded, contents, slots, mapped, queue, entries, player, queueRun,
                 queueEdits, queueFaults>>

\* Track sync records another track (module TrackSync).
TrackArrives(s) ==
  /\ s \notin mapped
  /\ mapped' = mapped \cup {s}
  /\ UNCHANGED <<assigned, excluded, contents, slots, clock, queue, entries, player, queueRun,
                 queueEdits, queueFaults>>

\* PLAY, NEXT, PREVIOUS and the end of a track play a track of the queue; PAUSE and STOP
\* stop playing, and PAUSE keeps the track loaded (agent-bridge/lib/local-api.js).
PlayerActs ==
  /\ \/ \E s \in SongsOf(queue) : player' = [state |-> "playing", song |-> s]
     \/ player.state = "playing" /\ player' = [player EXCEPT !.state = "paused"]
     \/ player' = [state |-> "stopped", song |-> NoSong]
  /\ player' # player
  /\ UNCHANGED <<assigned, excluded, contents, slots, clock, mapped, queue, entries, queueRun,
                 queueEdits, queueFaults>>

-----------------------------------------------------------------------------
(* syncZonePlaylistsOnce *)

QueueStep(r, step) == queueRun' = [queueRun EXCEPT ![r] = step]

\* The zone's assignment is fetched, with the tracks of its playlist.
FetchAssignment(r) ==
  /\ queueRun[r].pc = "idle"
  /\ QueueStep(r, [NoQueueRun EXCEPT !.pc = "assigned", !.list = assigned,
       !.wanted = IF assigned = NoPlaylist THEN {} ELSE contents[assigned] \ excluded])
  /\ UNCHANGED <<assigned, excluded, contents, slots, clock, mapped, queue, entries, player,
                 queueEdits, queueFaults>>

\* The schedule slots are fetched with their tracks. An active one replaces the assignment;
\* if neither names a playlist, the queue is left alone.
FetchSchedules(r) ==
  LET q == queueRun[r] IN
  /\ q.pc = "assigned"
  /\ \/ \E s \in Winners :
          QueueStep(r, [q EXCEPT !.pc = "planned", !.list = s.playlist,
                                 !.wanted = contents[s.playlist] \ excluded])
     \/ /\ Active = {}
        /\ QueueStep(r, IF q.list = NoPlaylist THEN NoQueueRun ELSE [q EXCEPT !.pc = "planned"])
  /\ UNCHANGED <<assigned, excluded, contents, slots, clock, mapped, queue, entries, player,
                 queueEdits, queueFaults>>

\* The slots cannot be fetched: the assignment counts, whatever slot was active before.
SchedulesFail(r) ==
  LET q == queueRun[r] IN
  /\ q.pc = "assigned"
  /\ QueueFault("schedules")
  /\ QueueStep(r, IF q.list = NoPlaylist THEN NoQueueRun ELSE [q EXCEPT !.pc = "planned"])
  /\ UNCHANGED <<assigned, excluded, contents, slots, clock, mapped, queue, entries, player,
                 queueEdits>>

\* applyZoneTrackList: the wanted tracks the machine has, and the queue as it is now.
ReadQueue(r) ==
  LET keep == queueRun[r].wanted \cap mapped IN
  /\ queueRun[r].pc = "planned"
  /\ QueueStep(r, [queueRun[r] EXCEPT !.pc = "read", !.keep = keep, !.seen = queue,
                                      !.stale = {e \in queue : e[1] \notin keep}])
  /\ UNCHANGED <<assigned, excluded, contents, slots, clock, mapped, queue, entries, player,
                 queueEdits, queueFaults>>

\* Planted defect: the entries of other tracks stay.
DropNothing(r) ==
  /\ queueRun[r].pc = "read"
  /\ QueueStep(r, [queueRun[r] EXCEPT !.pc = "add"])
  /\ UNCHANGED <<assigned, excluded, contents, slots, clock, mapped, queue, entries, player,
                 queueEdits, queueFaults>>

\* The entries of other tracks are removed one by one; the local API may refuse one.
DropStale(r) ==
  LET q == queueRun[r] IN
  /\ q.pc = "read"
  /\ \/ /\ q.stale = {} /\ UNCHANGED <<queue, queueFaults>>
        /\ QueueStep(r, [q EXCEPT !.pc = "add"])
     \/ \E e \in q.stale :
          /\ \/ queue' = queue \ {e} /\ UNCHANGED queueFaults
             \/ QueueFault("local") /\ UNCHANGED queue
          /\ QueueStep(r, [q EXCEPT !.stale = @ \ {e}])
  /\ UNCHANGED <<assigned, excluded, contents, slots, clock, mapped, entries, player,
                 queueEdits>>

\* The tracks the machine has that had no entry when the queue was read are added.
AddMissing(r, s) ==
  LET q == queueRun[r] IN
  /\ q.pc = "add"
  /\ s \in (q.wanted \cap mapped) \ SongsOf(q.seen)
  /\ \/ /\ entries[s] < MaxEntries
        /\ entries' = [entries EXCEPT ![s] = @ + 1]
        /\ queue' = queue \cup {<<s, entries[s] + 1>>}
        /\ UNCHANGED queueFaults
     \/ QueueFault("local") /\ UNCHANGED <<queue, entries>>
  /\ QueueStep(r, [q EXCEPT !.wanted = @ \ {s}])
  /\ UNCHANGED <<assigned, excluded, contents, slots, clock, mapped, player, queueEdits>>

AddedAll(r) ==
  LET q == queueRun[r] IN
  /\ q.pc = "add" /\ q.wanted \cap mapped \subseteq SongsOf(q.seen)
  /\ QueueStep(r, [q EXCEPT !.pc = "point"])
  /\ UNCHANGED <<assigned, excluded, contents, slots, clock, mapped, queue, entries, player,
                 queueEdits, queueFaults>>

\* A zone whose loaded track is not wanted any more is moved to its queue if it is playing,
\* and stopped if the queue is empty.
Repoint(r) ==
  LET q == queueRun[r] IN
  /\ q.pc = "point"
  /\ IF player.song = NoSong \/ player.song \in q.keep THEN UNCHANGED player
     ELSE \/ \E s \in SongsOf(queue) :
               player' = IF player.state = "playing" THEN [player EXCEPT !.song = s] ELSE player
          \/ queue = {} /\ player' = [state |-> "stopped", song |-> NoSong]
  /\ QueueStep(r, NoQueueRun)
  /\ UNCHANGED <<assigned, excluded, contents, slots, clock, mapped, queue, entries, queueEdits,
                 queueFaults>>

-----------------------------------------------------------------------------
QueueSteps(r) ==
  \/ FetchSchedules(r) \/ ReadQueue(r) \/ DropStale(r)
  \/ (\E s \in Songs : AddMissing(r, s)) \/ AddedAll(r) \/ Repoint(r)

VenueQueueNext ==
  \/ \E p \in Playlists : \/ AssignPlaylist(p) \/ AssignFromPlaylist(p) \/ DeletePlaylist(p)
                          \/ \E s \in Songs : EditPlaylist(p, s)
  \/ \E s \in Songs : ToggleExcluded(s) \/ TrackArrives(s)
  \/ \E s \in Slots : ToggleSlot(s)
  \/ ClockTicks \/ PlayerActs
  \/ \E r \in QueueRuns : FetchAssignment(r) \/ SchedulesFail(r) \/ QueueSteps(r)

\* The timer starts runs, and a run goes on.
VenueQueueFairness ==
  /\ WF_queueVars(\E r \in QueueRuns : FetchAssignment(r))
  /\ \A r \in QueueRuns : WF_queueVars(QueueSteps(r))

VenueQueueSpec == VenueQueueInit /\ [][VenueQueueNext]_queueVars
VenueQueueFairSpec == VenueQueueSpec /\ VenueQueueFairness

-----------------------------------------------------------------------------
\* Once nothing changes any more, the zone's queue holds the tracks of its schedule slot or
\* assigned playlist that the machine has, without the excluded ones, and nothing else; and
\* the zone does not play on a track of what it was assigned before.
QueueFollows ==
  <>[](NoPlaylist \notin Targets => \E p \in Targets :
         /\ SongsOf(queue) = (contents[p] \ excluded) \cap mapped
         /\ player.state = "playing" => player.song \in contents[p] \ excluded)
=============================================================================
