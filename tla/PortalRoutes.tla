------------------------------ MODULE PortalRoutes ------------------------------
(***************************************************************************)
(* What each route of the backend that the portal calls (backend/src/routes)  *)
(* reads for its answer and writes, by table.                               *)
(*                                                                         *)
(* A table is read and written by kind of change: rows that are created, rows *)
(* that are written, rows whose references are emptied, and rows that are     *)
(* removed.  A route about one row is taken to be about any row of its table. *)
(* Rows that only decide whose rows are shown (the caller's organization and  *)
(* location) are left out: the rows shown come and go with these.            *)
(***************************************************************************)
EXTENDS Migrations, SequencesExt

Created(tables) == tables \X {"created"}
Written(tables) == tables \X {"written"}
Emptied(tables) == tables \X {"emptied"}
Removed(tables) == tables \X {"removed"}

\* What a count of rows, a column, one row, and a list of rows depend on.
Counted(tables) == Created(tables) \cup Removed(tables)
Column(tables)  == Written(tables) \cup Removed(tables)
One(tables)     == Column(tables) \cup Emptied(tables)
Whole(tables)   == Created(tables) \cup One(tables)

\* The tables that lose rows along with one of a table, and those with references to these
\* that are emptied.
Dependents(keys, tables, rule) == {k.table : k \in {e \in keys : e.rule = rule /\ e.to \in tables}}

FallWith(table, keys) ==
  LET all[n \in 0 .. Cardinality(keys)] ==
        IF n = 0 THEN {table}
        ELSE LET before == all[n - 1] IN before \cup Dependents(keys, before, "Cascade")
      tables == all[Cardinality(keys)]
  IN  Removed(tables) \cup Emptied(Dependents(keys, tables, "SetNull"))

Gone(table) == FallWith(table, Enforced)

pushActivity == Created({"ActivityEvent"})
pushCommand  == Created({"RemoteCommand"})

\* The name of the user who did something.
displayNameFor == Column({"User"})

\* queuePlaylistTracksForServer: rows for the tracks of a playlist, and a command.
QueuedTracks == Created({"TrackSyncState"}) \cup Written({"TrackSyncState"}) \cup pushCommand

-----------------------------------------------------------------------------
OrganizationReads ==
  LET withCounts == Counted({"Location", "MusicServer"}) IN
  [list |-> Whole({"Organization"}) \cup withCounts, get |-> One({"Organization"}) \cup withCounts]
OrganizationWrites ==
  [create |-> Created({"Organization"}) \cup pushActivity,
   update |-> Written({"Organization"}),
   remove |-> Gone("Organization")]

LocationReads ==
  LET withCounts == Counted({"MusicServer", "Zone"}) IN
  [list |-> Whole({"Location"}) \cup withCounts, get |-> One({"Location"}) \cup withCounts]
LocationWrites ==
  [create |-> Created({"Location"}), update |-> Written({"Location"}), remove |-> Gone("Location")]

ServerReads ==
  LET withExtras == Counted({"Zone"}) \cup Whole({"TrackSyncState"}) IN
  [list |-> Whole({"MusicServer"}) \cup withExtras, get |-> One({"MusicServer"}) \cup withExtras]
ServerLogs == Whole({"LogEntry"})
ServerWrites ==
  [register |-> Created({"MusicServer"}),
   pair     |-> Written({"MusicServer"}),
   remove   |-> Gone("MusicServer")]
ForgetRoute == pushCommand \cup Gone("MusicServer") \cup pushActivity

\* A command for a zone has its effect on the zone by the time it is answered; one for the
\* server is left to its agent.
CommandReads  == Whole({"RemoteCommand"}) \cup displayNameFor
ZoneCommand   == pushCommand \cup Written({"Zone"}) \cup pushActivity
ServerCommand == pushCommand

ZoneReads == [list |-> Whole({"Zone"}), get |-> One({"Zone"})]
\* A zone has the playlists that are assigned to it, and the one that it plays.
ZonePlaylists ==
  Column({"Zone"}) \cup Whole({"PlaylistAssignment", "PlaylistTrack"}) \cup One({"Playlist"})
ZonePrayer      == Written({"Zone"})
ZonePlaylist    == Written({"Zone"}) \cup QueuedTracks
ZoneExclusions  == Written({"Zone"})
ZoneRemoval     == Gone("Zone") \cup pushCommand \cup pushActivity

PlaylistReads ==
  [list |-> Whole({"Playlist", "PlaylistTrack"}),
   get  |-> One({"Playlist"}) \cup Whole({"PlaylistTrack"})]
\* The tracks that a playlist is created with are part of it.
PlaylistWrites ==
  [create      |-> Created({"Playlist"}),
   duplicate   |-> Created({"Playlist"}),
   update      |-> Written({"Playlist"}) \cup Counted({"PlaylistTrack"}),
   addTrack    |-> Written({"Playlist"}) \cup Created({"PlaylistTrack"}),
   removeTrack |-> Written({"Playlist"}) \cup Removed({"PlaylistTrack"}),
   remove      |-> Gone("Playlist"),
   assign      |-> Created({"PlaylistAssignment"}) \cup Written({"Zone"}) \cup QueuedTracks]

FolderReads  == Whole({"MusicFolder"})
FolderWrites ==
  [create |-> Created({"MusicFolder"}), rename |-> Written({"MusicFolder"}),
   remove |-> Gone("MusicFolder")]

TrackList   == Whole({"Track"}) \cup displayNameFor
TrackDetail == One({"Track"}) \cup displayNameFor
SyncStatus  == Whole({"TrackSyncState"})
TrackWrites ==
  [upload |-> Created({"Track"}), update |-> Written({"Track"}), remove |-> Gone("Track")]

ScheduleReads  == Whole({"Schedule"})
\* Creating a slot, or a change that names its playlist, assigns the playlist to the zone.
ScheduleWrites ==
  LET ensureZonePlaylistAssignment == Created({"PlaylistAssignment"}) IN
  [create |-> Created({"Schedule"}) \cup ensureZonePlaylistAssignment,
   update |-> Written({"Schedule"}) \cup ensureZonePlaylistAssignment,
   remove |-> Removed({"Schedule"})]

SyncReads  == Whole({"TrackSyncState"})
SyncWrites ==
  [queue |-> QueuedTracks \cup pushActivity, retry |-> Written({"TrackSyncState"}) \cup pushCommand]

UserReads  == Whole({"User"})
UserWrites == [invite |-> Created({"User"}), update |-> Written({"User"}), remove |-> Gone("User")]

ActivityFeed      == Whole({"ActivityEvent"})
AlertList         == Whole({"Alert"})
AlertAcknowledged == Written({"Alert"})
LogList           == Whole({"LogEntry"})

DashboardStats ==
  Counted({"Organization", "Location"})
    \cup Whole({"MusicServer", "Zone", "TrackSyncState", "Alert"})

PresetReads  == Whole({"EqPreset"})
\* Saving over a name writes its row.
PresetUpsert == Created({"EqPreset"}) \cup Written({"EqPreset"})
PresetDelete == Removed({"EqPreset"})

\* A linked location has its place from its row or from what its machines report; no edit but
\* their removal changes what these have reported.
LinkedPlace == Column({"Location"}) \cup Removed({"MusicServer"})
\* Settings that nobody has made are made with the defaults when they are asked for.
PrayerSettings == One({"PrayerConfig"}) \cup LinkedPlace
\* The settings that the times of a day depend on are part of what is asked for.
PrayerToday    == LinkedPlace
PrayerUpsert   == Written({"PrayerConfig"})

Session == One({"User"})
=============================================================================
