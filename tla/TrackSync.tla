------------------------------ MODULE TrackSync ------------------------------
(***************************************************************************)
(* How music reaches one venue: the portal marks tracks for a server       *)
(* (backend/src/routes/sync.ts, lib/zone-effects.ts), the agent reports     *)
(* what it has and is told what to fetch (POST /server/tracks/sync in       *)
(* routes/agent.ts), and downloads it (syncTracksOnce in                    *)
(* agent-bridge/lib/agent.js).  Runs of syncTracksOnce may overlap: a timer,*)
(* SYNC_MUSIC and the control panel start them.                             *)
(*                                                                         *)
(* A file is a pair of the track it holds and the number of its copy.      *)
(***************************************************************************)
EXTENDS Integers, FiniteSets

CONSTANTS
  Tracks,          \* the tracks of the cloud library
  SyncRuns,        \* runs of syncTracksOnce that may be in progress together
  SyncFaults,      \* the kinds of disturbance that may happen
  MaxCopies,       \* bound: downloads of one track
  MaxRequests,     \* bound: requests of the portal in one behaviour
  MaxSyncFaults    \* bound: disturbances in one behaviour

ASSUME TrackSyncConstants ==
  /\ SyncFaults \subseteq {"download", "scan", "folder", "reply", "crash", "delete"}
  /\ {MaxCopies, MaxRequests, MaxSyncFaults} \subseteq Nat

Files == Tracks \X (1 .. MaxCopies)

VARIABLES
  syncState,   \* TrackSyncState of the server: NONE where there is no row
  removed,     \* tracks deleted from the cloud library
  assign,      \* the track of a playlist assignment looked up and not yet written
  library,     \* cachedTrackIds and trackIdMap in the agent's memory
  saved,       \* the same, in the state file
  disk,        \* files in the music folder
  scanned,     \* files the local library knows
  syncRun,     \* the runs of syncTracksOnce
  requests,    \* requests of the portal so far
  troubles     \* disturbances so far

trackVars == <<syncState, removed, assign, library, saved, disk, scanned, syncRun, requests,
               troubles>>

NoRun == [pc |-> "idle", followUp |-> FALSE, report |-> {}, todo |-> {}, before |-> {},
          track |-> {}, any |-> FALSE]

TrackSyncTypeOK ==
  /\ syncState \in [Tracks -> {"NONE", "QUEUED_FOR_SYNC", "SYNCING", "CACHED_ON_SERVER"}]
  /\ removed \subseteq Tracks
  /\ assign \subseteq Tracks
  /\ library \in [cached : SUBSET Tracks, mapped : SUBSET Tracks]
  /\ saved \in [cached : SUBSET Tracks, mapped : SUBSET Tracks]
  /\ disk \subseteq Files /\ scanned \subseteq disk
  /\ syncRun \in [SyncRuns -> [pc : {"idle", "sent", "stored", "read", "replied", "work",
                                     "fetched", "written"},
                               followUp : BOOLEAN, report : SUBSET Tracks,
                               todo : SUBSET Tracks, before : SUBSET Files,
                               track : SUBSET Tracks, any : BOOLEAN]]
  /\ requests \in Nat /\ troubles \in Nat

TrackSyncInit ==
  /\ syncState = [t \in Tracks |-> "NONE"]
  /\ removed = {} /\ assign = {}
  /\ library = [cached |-> {}, mapped |-> {}] /\ saved = library
  /\ disk = {} /\ scanned = {}
  /\ syncRun = [r \in SyncRuns |-> NoRun]
  /\ requests = 0 /\ troubles = 0

Trouble(kind) == kind \in SyncFaults /\ troubles < MaxSyncFaults /\ troubles' = troubles + 1

-----------------------------------------------------------------------------
(* The portal *)

\* POST /sync/queue, and POST /sync/retry of a track that has a row: whatever its status.
QueueTrack(t) ==
  /\ t \notin removed /\ requests < MaxRequests
  /\ requests' = requests + 1
  /\ syncState' = [syncState EXCEPT ![t] = "QUEUED_FOR_SYNC"]
  /\ UNCHANGED <<removed, assign, library, saved, disk, scanned, syncRun, troubles>>

\* queuePlaylistTracksForServer leaves a cached track, or one in flight, alone ...
AssignLookup(t) ==
  /\ assign = {} /\ t \notin removed /\ requests < MaxRequests
  /\ requests' = requests + 1
  /\ syncState[t] \notin {"CACHED_ON_SERVER", "SYNCING"}
  /\ assign' = {t}
  /\ UNCHANGED <<syncState, removed, library, saved, disk, scanned, syncRun, troubles>>

\* ... and queues any other; the upsert throws if the track is gone.
AssignUpsert(t) ==
  /\ t \in assign
  /\ assign' = {}
  /\ syncState' = IF t \in removed THEN syncState
                  ELSE [syncState EXCEPT ![t] = "QUEUED_FOR_SYNC"]
  /\ UNCHANGED <<removed, library, saved, disk, scanned, syncRun, requests, troubles>>

\* DELETE /music/:id cascades to the track's rows.
DeleteTrack(t) ==
  /\ Trouble("delete") /\ t \notin removed
  /\ removed' = removed \cup {t}
  /\ syncState' = [syncState EXCEPT ![t] = "NONE"]
  /\ UNCHANGED <<assign, library, saved, disk, scanned, syncRun, requests>>

-----------------------------------------------------------------------------
(* syncTracksOnce and the endpoint it calls *)

SyncStep(r, step) == syncRun' = [syncRun EXCEPT ![r] = step]

\* A run begins, with a report of cachedTrackIds.
SyncBegin(r) ==
  /\ syncRun[r].pc = "idle"
  /\ SyncStep(r, [NoRun EXCEPT !.pc = "sent", !.report = library.cached])
  /\ UNCHANGED <<syncState, removed, assign, library, saved, disk, scanned, requests, troubles>>

\* Planted defect: a track that is being fetched keeps its row.
StoreReportSpared(r) ==
  LET q == syncRun[r] IN
  /\ q.pc = "sent"
  /\ \/ /\ q.report = {} /\ UNCHANGED syncState
        /\ SyncStep(r, [q EXCEPT !.pc = "stored"])
     \/ \E t \in q.report :
          /\ syncState' = IF t \in removed \/ syncState[t] = "SYNCING" THEN syncState
                          ELSE [syncState EXCEPT ![t] = "CACHED_ON_SERVER"]
          /\ SyncStep(r, IF t \in removed THEN NoRun ELSE [q EXCEPT !.report = @ \ {t}])
  /\ UNCHANGED <<removed, assign, library, saved, disk, scanned, requests, troubles>>

\* The reported tracks are upserted CACHED_ON_SERVER, one after the other; the upsert of a
\* track that was deleted throws, and with it the request.
StoreReport(r) ==
  LET q == syncRun[r] IN
  /\ q.pc = "sent"
  /\ \/ /\ q.report = {} /\ UNCHANGED syncState
        /\ SyncStep(r, [q EXCEPT !.pc = "stored"])
     \/ \E t \in q.report :
          /\ syncState' = IF t \in removed THEN syncState
                          ELSE [syncState EXCEPT ![t] = "CACHED_ON_SERVER"]
          /\ SyncStep(r, IF t \in removed THEN NoRun ELSE [q EXCEPT !.report = @ \ {t}])
  /\ UNCHANGED <<removed, assign, library, saved, disk, scanned, requests, troubles>>

\* findMany: the queued tracks are what the reply will carry.
ReadQueued(r) ==
  /\ syncRun[r].pc = "stored"
  /\ SyncStep(r, [syncRun[r] EXCEPT !.pc = "read",
                    !.todo = {t \in Tracks : syncState[t] = "QUEUED_FOR_SYNC"}])
  /\ UNCHANGED <<syncState, removed, assign, library, saved, disk, scanned, requests, troubles>>

\* updateMany: every track queued by now becomes SYNCING.
MarkSyncing(r) ==
  /\ syncRun[r].pc = "read"
  /\ syncState' = [t \in Tracks |-> IF syncState[t] = "QUEUED_FOR_SYNC" THEN "SYNCING"
                                    ELSE syncState[t]]
  /\ SyncStep(r, [syncRun[r] EXCEPT !.pc = "replied"])
  /\ UNCHANGED <<removed, assign, library, saved, disk, scanned, requests, troubles>>

\* The reply arrives. That of the follow-up report is not looked at, and the run is over.
TakeReply(r) ==
  LET q == syncRun[r] IN
  /\ q.pc = "replied"
  /\ SyncStep(r, IF q.followUp \/ q.todo = {} THEN NoRun
              ELSE [q EXCEPT !.pc = "work", !.report = {}])
  /\ UNCHANGED <<syncState, removed, assign, library, saved, disk, scanned, requests, troubles>>

\* The reply is lost, or the local API cannot name the music folder.
LoseReply(r) ==
  /\ syncRun[r].pc = "replied"
  /\ Trouble("reply") \/ (~ syncRun[r].followUp /\ Trouble("folder"))
  /\ SyncStep(r, NoRun)
  /\ UNCHANGED <<syncState, removed, assign, library, saved, disk, scanned, requests>>

\* The next track is downloaded, and the local tracks are listed before it is written.
Download(r, t) ==
  LET q == syncRun[r] IN
  /\ q.pc = "work" /\ t \in q.todo
  /\ SyncStep(r, [q EXCEPT !.pc = "fetched", !.todo = @ \ {t}, !.before = scanned,
                           !.track = {t}])
  /\ UNCHANGED <<syncState, removed, assign, library, saved, disk, scanned, requests, troubles>>

\* Planted defect: the track counts as cached all the same.
DownloadFailsUnnoticed(r, t) ==
  /\ syncRun[r].pc = "work" /\ t \in syncRun[r].todo
  /\ (t \in removed /\ UNCHANGED troubles) \/ Trouble("download")
  /\ library' = [library EXCEPT !.cached = @ \cup {t}]
  /\ SyncStep(r, [syncRun[r] EXCEPT !.todo = @ \ {t}, !.any = TRUE])
  /\ UNCHANGED <<syncState, removed, assign, saved, disk, scanned, requests>>

\* A download that fails is logged, and the loop goes on.
DownloadFails(r, t) ==
  /\ syncRun[r].pc = "work" /\ t \in syncRun[r].todo
  /\ (t \in removed /\ UNCHANGED troubles) \/ Trouble("download")
  /\ SyncStep(r, [syncRun[r] EXCEPT !.todo = @ \ {t}])
  /\ UNCHANGED <<syncState, removed, assign, library, saved, disk, scanned, requests>>

\* The file is written under a name of its own; the scan is under way.
WriteFile(r) ==
  LET q == syncRun[r] IN
  /\ q.pc = "fetched"
  /\ \E n \in 1 .. MaxCopies, t \in q.track :
       /\ <<t, n>> \notin disk /\ \A m \in 1 .. n - 1 : <<t, m>> \in disk
       /\ disk' = disk \cup {<<t, n>>}
       /\ SyncStep(r, [q EXCEPT !.pc = "written"])
  /\ UNCHANGED <<syncState, removed, assign, library, saved, scanned, requests, troubles>>

\* The scan finds every file of the folder, and the tracks that were not listed before are
\* taken for this one, if there is exactly one. The track counts as cached either way.
ScanAndMap(r) ==
  LET q == syncRun[r]
      t == CHOOSE x \in Tracks : x \in q.track
      new == disk \ q.before IN
  /\ q.pc = "written"
  /\ scanned' = disk
  /\ library' = [cached |-> library.cached \cup {t},
                 mapped |-> IF Cardinality(new) = 1 THEN library.mapped \cup {t}
                            ELSE library.mapped]
  /\ SyncStep(r, [q EXCEPT !.pc = "work", !.any = TRUE, !.track = {}, !.before = {}])
  /\ UNCHANGED <<syncState, removed, assign, saved, disk, requests, troubles>>

\* The scan fails, done or not: the track does not count, though its file is there.
ScanFails(r) ==
  /\ syncRun[r].pc = "written"
  /\ Trouble("scan")
  /\ scanned' \in {scanned, disk}
  /\ SyncStep(r, [syncRun[r] EXCEPT !.pc = "work", !.track = {}, !.before = {}])
  /\ UNCHANGED <<syncState, removed, assign, library, saved, disk, requests>>

\* After the last track the state file is saved, and what landed is reported.
FinishDownloads(r) ==
  LET q == syncRun[r] IN
  /\ q.pc = "work" /\ q.todo = {}
  /\ saved' = library
  /\ SyncStep(r, IF q.any THEN [NoRun EXCEPT !.pc = "sent", !.followUp = TRUE,
                                             !.report = library.cached]
                 ELSE NoRun)
  /\ UNCHANGED <<syncState, removed, assign, library, disk, scanned, requests, troubles>>

\* The agent restarts from its state file.
AgentRestart ==
  /\ Trouble("crash")
  /\ library' = saved
  /\ syncRun' = [r \in SyncRuns |-> NoRun]
  /\ UNCHANGED <<syncState, removed, assign, saved, disk, scanned, requests>>

-----------------------------------------------------------------------------
SyncSteps(r) ==
  \/ StoreReport(r) \/ ReadQueued(r) \/ MarkSyncing(r) \/ TakeReply(r)
  \/ (\E t \in Tracks : Download(r, t)) \/ WriteFile(r) \/ ScanAndMap(r) \/ FinishDownloads(r)

TrackSyncNext ==
  \/ \E t \in Tracks : QueueTrack(t) \/ AssignLookup(t) \/ AssignUpsert(t) \/ DeleteTrack(t)
  \/ \E r \in SyncRuns : \/ SyncBegin(r) \/ SyncSteps(r) \/ LoseReply(r) \/ ScanFails(r)
                         \/ \E t \in Tracks : DownloadFails(r, t)
  \/ AgentRestart

\* The timer starts runs, and a run goes on.
TrackSyncFairness ==
  /\ WF_trackVars(\E r \in SyncRuns : SyncBegin(r))
  /\ \A r \in SyncRuns : WF_trackVars(SyncSteps(r))

TrackSyncSpec == TrackSyncInit /\ [][TrackSyncNext]_trackVars
TrackSyncFairSpec == TrackSyncSpec /\ TrackSyncFairness

-----------------------------------------------------------------------------
\* The portal shows a track as cached on a server only if a file of it is on the machine's
\* disk, whatever was lost, restarted or requested again in between.
CachedIsOnDisk ==
  \A t \in Tracks : syncState[t] = "CACHED_ON_SERVER" => \E f \in disk : f[1] = t

\* A track that a run was told to fetch is shown as cached in the end, unless there was
\* trouble on the way.
FetchedIsShown ==
  \A t \in Tracks, r \in SyncRuns :
    (syncRun[r].pc = "work" /\ t \in syncRun[r].todo)
      ~> (syncState[t] = "CACHED_ON_SERVER" \/ troubles > 0)
=============================================================================
