------------------------------- MODULE PortalApi -------------------------------
(***************************************************************************)
(* What each call of the portal's API clients (src/lib/api) reads and writes, *)
(* by table: with the backend, what its route does, and in the demo of the    *)
(* browser, what it does with the tables kept there; and the cached queries   *)
(* and the edits of the hooks (src/hooks) that are made of them.             *)
(***************************************************************************)
EXTENDS PortalRoutes

\* With the backend and in the demo the same, or not.
Both(changes)     == [real |-> changes, demo |-> changes]
Apart(real, demo) == [real |-> real, demo |-> demo]

-----------------------------------------------------------------------------
(* The API clients *)

OrganizationsApi ==
  [list   |-> Both(OrganizationReads.list),
   get    |-> Both(OrganizationReads.get),
   create |-> Both(OrganizationWrites.create),
   update |-> Both(OrganizationWrites.update),
   remove |-> Apart(OrganizationWrites.remove, Removed({"Organization"}))]

LocationsApi ==
  [list   |-> Both(LocationReads.list),
   get    |-> Both(LocationReads.get),
   create |-> Both(LocationWrites.create),
   update |-> Both(LocationWrites.update),
   remove |-> Apart(LocationWrites.remove, Removed({"Location"}))]

\* In the demo the counts are columns of the server's row.
ServersApi ==
  LET forgot == {"MusicServer", "Zone", "RemoteCommand", "TrackSyncState", "Alert", "LogEntry"} IN
  [list                   |-> Apart(ServerReads.list, Whole({"MusicServer"})),
   get                    |-> Apart(ServerReads.get, One({"MusicServer"})),
   register               |-> Both(ServerWrites.register),
   regeneratePairingCode  |-> Both(ServerWrites.pair),
   simulateAgentConnected |-> Apart({}, Written({"MusicServer"}) \cup pushActivity),
   remove                 |-> Apart(ServerWrites.remove, Removed({"MusicServer", "Zone"})),
   forget                 |-> Apart(ForgetRoute, Removed(forgot)),
   logs                   |-> Both(ServerLogs)]

CommandsApi ==
  [list |-> Apart(CommandReads, Whole({"RemoteCommand"})), send |-> Both(ZoneCommand \cup ServerCommand)]

\* In the demo nothing is assigned to a zone but the playlist it plays.
ZonesApi ==
  [list           |-> Both(ZoneReads.list),
   get            |-> Both(ZoneReads.get),
   playlists      |-> Apart(ZonePlaylists,
                            Column({"Zone", "Playlist"}) \cup Whole({"PlaylistTrack"})),
   assignPlaylist |-> Apart(ZonePlaylist, Written({"Zone"})),
   remove         |-> Apart(ZoneRemoval, Removed({"Zone"})),
   removeTrack    |-> Both(ZoneExclusions),
   restoreTrack   |-> Both(ZoneExclusions),
   control        |-> Both(ZoneCommand)]

PlaylistsApi ==
  [list        |-> Both(PlaylistReads.list),
   get         |-> Both(PlaylistReads.get),
   create      |-> Both(PlaylistWrites.create),
   duplicate   |-> Both(PlaylistWrites.duplicate),
   update      |-> Both(PlaylistWrites.update),
   addTrack    |-> Both(PlaylistWrites.addTrack),
   removeTrack |-> Both(PlaylistWrites.removeTrack),
   remove      |-> Apart(PlaylistWrites.remove, Removed({"Playlist", "PlaylistTrack"})),
   assign      |-> Apart(PlaylistWrites.assign, Written({"Zone"}))]

\* In the demo a track has the name of its uploader.
MusicApi ==
  [list                |-> Apart(TrackList, Whole({"Track"})),
   get                 |-> Apart(TrackDetail, One({"Track"})),
   upload              |-> Both(TrackWrites.upload),
   update              |-> Both(TrackWrites.update),
   remove              |-> Apart(TrackWrites.remove, Removed({"Track", "TrackSyncState"})),
   syncStatesForServer |-> Both(SyncStatus),
   syncStatesForTrack  |-> Both(SyncStatus)]

\* The demo has no folders.
MusicFoldersApi ==
  [list   |-> Apart(FolderReads, {}),
   create |-> Apart(FolderWrites.create, {}),
   rename |-> Apart(FolderWrites.rename, {}),
   remove |-> Apart(FolderWrites.remove, {})]

\* toggle names no playlist.
SchedulesApi ==
  [list   |-> Both(ScheduleReads),
   create |-> Apart(ScheduleWrites.create, Created({"Schedule"})),
   update |-> Apart(ScheduleWrites.update, Written({"Schedule"})),
   toggle |-> Both(Written({"Schedule"})),
   remove |-> Both(ScheduleWrites.remove)]

SyncApi ==
  [list       |-> Both(SyncReads),
   queue      |-> Apart(SyncWrites.queue, SyncWrites.queue \cup Written({"MusicServer"})),
   retry      |-> Both(SyncWrites.retry),
   syncConfig |-> Both(ServerCommand)]

UsersApi ==
  [list   |-> Both(UserReads),
   invite |-> Both(UserWrites.invite),
   update |-> Both(UserWrites.update),
   remove |-> Apart(UserWrites.remove, Removed({"User"}))]

MonitoringApi ==
  [activity         |-> Both(ActivityFeed),
   alerts           |-> Both(AlertList),
   acknowledgeAlert |-> Both(AlertAcknowledged),
   logs             |-> Both(LogList)]

EqualizerPresetsApi ==
  [list |-> Both(PresetReads), save |-> Both(PresetUpsert), remove |-> Both(PresetDelete)]

\* In the demo the settings are kept by themselves, and no machine reports its place.
PrayerApi ==
  [getConfig                  |-> Apart(PrayerSettings,
                                        One({"PrayerConfig"}) \cup Column({"Location"})),
   updateConfig               |-> Both(PrayerUpsert),
   getTodayTimes              |-> Apart(PrayerToday, {}),
   setZonePrayerParticipation |-> Both(ZonePrayer)]

DashboardApi == [stats |-> Both(DashboardStats)]

AuthApi == [me |-> Both(Session)]

-----------------------------------------------------------------------------
(* The hooks: queries with their keys, polled or not, and edits with the keys they     *)
(* invalidate when they have succeeded                                                *)

Query(key, reads) == [key |-> key, reads |-> reads, polled |-> FALSE]
Polled(key, reads) == [key |-> key, reads |-> reads, polled |-> TRUE]
EditOf(writes, keys) == [writes |-> writes, invalidates |-> keys, sets |-> {}]

OrganizationQueries ==
  [useOrganizations |-> Query(<<"organizations">>, OrganizationsApi.list),
   useOrganization  |-> Query(<<"organizations", "id">>, OrganizationsApi.get)]
OrganizationEdits ==
  [useCreateOrganization |-> EditOf(OrganizationsApi.create, {<<"organizations">>}),
   useUpdateOrganization |-> EditOf(OrganizationsApi.update, {<<"organizations">>}),
   useDeleteOrganization |-> EditOf(OrganizationsApi.remove, {<<"organizations">>})]

LocationQueries ==
  [useLocations |-> Query(<<"locations", "all">>, LocationsApi.list),
   useLocation  |-> Query(<<"locations", "detail", "id">>, LocationsApi.get)]
LocationEdits ==
  [useCreateLocation |-> EditOf(LocationsApi.create, {<<"locations">>, <<"organizations">>}),
   useUpdateLocation |-> EditOf(LocationsApi.update, {<<"locations">>, <<"prayer-config">>,
                                                      <<"prayer-times-today">>}),
   useDeleteLocation |-> EditOf(LocationsApi.remove, {<<"locations">>, <<"organizations">>})]

ServerQueries ==
  [useServers    |-> Polled(<<"servers", "filters">>, ServersApi.list),
   useServer     |-> Polled(<<"servers", "detail", "id">>, ServersApi.get),
   useServerLogs |-> Polled(<<"servers", "logs", "id">>, ServersApi.logs)]
ServerEdits ==
  [useRegisterServer         |-> EditOf(ServersApi.register, {<<"servers">>}),
   useRegeneratePairingCode  |-> EditOf(ServersApi.regeneratePairingCode, {<<"servers">>}),
   useSimulateAgentConnected |-> EditOf(ServersApi.simulateAgentConnected,
                                        {<<"servers">>, <<"dashboard-stats">>}),
   useForgetServer           |-> EditOf(ServersApi.forget, {<<"servers">>, <<"zones">>,
                                                            <<"commands">>, <<"dashboard-stats">>}),
   useDeleteServer           |-> EditOf(ServersApi.remove, {<<"servers">>, <<"zones">>})]

ZoneQueries ==
  [useZones         |-> Polled(<<"zones", "filters">>, ZonesApi.list),
   useZone          |-> Polled(<<"zones", "detail", "id">>, ZonesApi.get),
   useZonePlaylists |-> Query(<<"zones", "detail", "id", "playlists">>, ZonesApi.playlists)]
ZoneEdits ==
  [useZoneControls        |-> EditOf(ZonesApi.control, {<<"commands">>, <<"zones">>}),
   useAssignZonePlaylist  |-> EditOf(ZonesApi.assignPlaylist, {<<"zones">>}),
   useRemoveTrackFromZone |-> EditOf(ZonesApi.removeTrack, {<<"zones">>}),
   useRestoreTrackForZone |-> EditOf(ZonesApi.restoreTrack, {<<"zones">>}),
   useDeleteZone          |-> EditOf(ZonesApi.remove, {<<"zones">>})]

PlaylistQueries ==
  [usePlaylists |-> Query(<<"playlists", "all">>, PlaylistsApi.list),
   usePlaylist  |-> Query(<<"playlists", "detail", "id">>, PlaylistsApi.get)]
PlaylistEdits ==
  LET one == {<<"playlists", "detail", "id">>} IN
  [useCreatePlaylist          |-> EditOf(PlaylistsApi.create, {<<"playlists">>}),
   useDuplicatePlaylist       |-> EditOf(PlaylistsApi.duplicate, {<<"playlists">>}),
   useUpdatePlaylistTracks    |-> EditOf(PlaylistsApi.update, one),
   useAddTrackToPlaylist      |-> EditOf(PlaylistsApi.addTrack, one),
   useRemoveTrackFromPlaylist |-> EditOf(PlaylistsApi.removeTrack, one),
   useDeletePlaylist          |-> EditOf(PlaylistsApi.remove, {<<"playlists">>}),
   useAssignPlaylist          |-> EditOf(PlaylistsApi.assign, {<<"zones">>})]

MusicQueries ==
  [useTracks          |-> Query(<<"music", "filters">>, MusicApi.list),
   useMusicFolders    |-> Query(<<"music-folders">>, MusicFoldersApi.list),
   useTrackSyncStates |-> Polled(<<"sync", "track", "id">>, MusicApi.syncStatesForTrack)]
\* A deleted folder's tracks are in none.
DeletedFolder   == {<<"music-folders">>, <<"music">>}
MusicEdits ==
  [useCreateMusicFolder |-> EditOf(MusicFoldersApi.create, {<<"music-folders">>}),
   useRenameMusicFolder |-> EditOf(MusicFoldersApi.rename, {<<"music-folders">>}),
   useDeleteMusicFolder |-> EditOf(MusicFoldersApi.remove, DeletedFolder),
   useUpdateTrack       |-> EditOf(MusicApi.update, {<<"music">>}),
   useDeleteTrack       |-> EditOf(MusicApi.remove, {<<"music">>})]

\* The upload dialog, once its files have been sent.
UploadEdits == [uploadAll |-> EditOf(MusicApi.upload, {<<"music">>})]

ScheduleQueries == [useSchedules |-> Query(<<"schedules", "filters">>, SchedulesApi.list)]
ScheduleEdits ==
  [useCreateSchedule |-> EditOf(SchedulesApi.create, {<<"schedules">>}),
   useUpdateSchedule |-> EditOf(SchedulesApi.update, {<<"schedules">>}),
   useToggleSchedule |-> EditOf(SchedulesApi.toggle, {<<"schedules">>}),
   useDeleteSchedule |-> EditOf(SchedulesApi.remove, {<<"schedules">>})]

SyncQueries == [useSyncStates |-> Polled(<<"sync", "filters">>, SyncApi.list)]
SyncEdits ==
  [useQueueSync  |-> EditOf(SyncApi.queue, {<<"sync">>, <<"servers">>, <<"commands">>}),
   useRetrySync  |-> EditOf(SyncApi.retry, {<<"sync">>}),
   useSyncConfig |-> EditOf(SyncApi.syncConfig, {<<"commands">>})]

UserQueries == [useUsers |-> Query(<<"users">>, UsersApi.list)]
UserEdits ==
  [useInviteUser |-> EditOf(UsersApi.invite, {<<"users">>}),
   useUpdateUser |-> EditOf(UsersApi.update, {<<"users">>}),
   useDeleteUser |-> EditOf(UsersApi.remove, {<<"users">>})]

MonitoringQueries ==
  [useDashboardStats |-> Polled(<<"dashboard-stats">>, DashboardApi.stats),
   useActivityFeed   |-> Polled(<<"activity", "limit">>, MonitoringApi.activity),
   useAlerts         |-> Polled(<<"alerts">>, MonitoringApi.alerts),
   useLogs           |-> Polled(<<"logs", "filters", "limit">>, MonitoringApi.logs)]
MonitoringEdits ==
  [useAcknowledgeAlert |-> EditOf(MonitoringApi.acknowledgeAlert,
                                  {<<"alerts">>, <<"dashboard-stats">>})]

CommandQueries == [useCommands |-> Polled(<<"commands", "filters">>, CommandsApi.list)]
CommandEdits ==
  [useSendCommand |-> EditOf(CommandsApi.send, {<<"commands">>, <<"zones">>, <<"servers">>})]

PresetQueries ==
  [useEqualizerPresets |-> Query(<<"equalizer-presets">>, EqualizerPresetsApi.list)]
PresetEdits ==
  [useSaveEqualizerPreset   |-> EditOf(EqualizerPresetsApi.save, {<<"equalizer-presets">>}),
   useDeleteEqualizerPreset |-> EditOf(EqualizerPresetsApi.remove, {<<"equalizer-presets">>})]

PrayerQueries ==
  [usePrayerConfig     |-> Query(<<"prayer-config">>, PrayerApi.getConfig),
   useTodayPrayerTimes |-> Query(<<"prayer-times-today", "city", "country", "method">>,
                                 PrayerApi.getTodayTimes)]
\* The settings are not asked for again: the answer of the edit is put in their place.
PrayerEdits ==
  [useUpdatePrayerConfig         |-> [EditOf(PrayerApi.updateConfig, {})
                                        EXCEPT !.sets = {<<"prayer-config">>}],
   useSetZonePrayerParticipation |-> EditOf(PrayerApi.setZonePrayerParticipation, {<<"zones">>})]

SessionQueries == [useSession |-> Query(<<"session">>, AuthApi.me)]

\* What is invalidated when an event of the realtime connection arrives.
INVALIDATIONS ==
  [HEARTBEAT_RECEIVED   |-> {"servers", "dashboard-stats"},
   SERVER_CONNECTED     |-> {"servers", "dashboard-stats", "activity"},
   SERVER_DISCONNECTED  |-> {"servers", "dashboard-stats", "activity", "alerts"},
   ZONE_STATUS_CHANGED  |-> {"zones"},
   PLAYBACK_CHANGED     |-> {"zones"},
   MUSIC_SYNC_STARTED   |-> {"sync", "servers"},
   MUSIC_SYNC_COMPLETED |-> {"sync", "servers", "activity", "dashboard-stats"},
   MUSIC_SYNC_FAILED    |-> {"sync", "activity", "alerts", "dashboard-stats"},
   COMMAND_COMPLETED    |-> {"commands", "zones", "activity"},
   PRAYER_STARTED       |-> {"zones", "activity", "logs"},
   PRAYER_ENDED         |-> {"zones", "activity", "logs"},
   SUPER_ADMIN_OVERRIDE |-> {"zones", "commands", "activity"},
   ERROR                |-> {"activity", "alerts"}]

-----------------------------------------------------------------------------
PortalQueries ==
  OrganizationQueries @@ LocationQueries @@ ServerQueries @@ ZoneQueries @@ PlaylistQueries
  @@ MusicQueries @@ ScheduleQueries @@ SyncQueries @@ UserQueries @@ MonitoringQueries
  @@ CommandQueries @@ PresetQueries @@ PrayerQueries @@ SessionQueries

PortalEdits ==
  OrganizationEdits @@ LocationEdits @@ ServerEdits @@ ZoneEdits @@ PlaylistEdits @@ MusicEdits
  @@ UploadEdits @@ ScheduleEdits @@ SyncEdits @@ UserEdits @@ MonitoringEdits @@ CommandEdits
  @@ PresetEdits @@ PrayerEdits
=============================================================================
