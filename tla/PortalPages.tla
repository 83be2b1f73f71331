------------------------------ MODULE PortalPages ------------------------------
(***************************************************************************)
(* What the pages of the portal ask the backend for and offer to do, to whom *)
(* (src/app/(portal), src/components), and what the backend demands for it    *)
(* (backend/src/routes), with the roles that each of them goes by.           *)
(*                                                                         *)
(* A page shows what the role in its session may use; the backend decides by  *)
(* the role in the caller's token.  Both come from the user's row, at         *)
(* different times.  Layout, wording, sorting and what a form checks are left *)
(* out; the queries and edits are those of PortalApi, by the same names.      *)
(***************************************************************************)

\* The permissions of each role, as the portal has them.
MATRIX ==
  LET Manager ==
        {"location:read", "server:read", "server:command", "zone:read", "zone:control",
         "zone:assign", "music:read", "playlist:read", "schedule:read", "schedule:write",
         "sync:trigger", "users:manage", "logs:read", "prayer:read"}
      Admin ==
        Manager \cup {"org:read", "location:write", "server:write", "server:pair", "music:upload",
                      "music:delete", "playlist:write", "prayer:manage"} IN
  [SUPER_ADMIN        |-> Admin \cup {"org:write", "zone:override", "server:forget"},
   ORGANIZATION_ADMIN |-> Admin,
   LOCATION_MANAGER   |-> Manager,
   VIEWER             |-> {"zone:read", "zone:control"}]

\* And as the backend has them, in a copy.
BackendMATRIX ==
  LET org    == {"org:read", "location:read", "location:write"}
      fleet  == {"server:read", "server:write", "server:pair", "server:command"}
      zone   == {"zone:read", "zone:control", "zone:assign"}
      music  == {"music:read", "music:upload", "music:delete"}
      lists  == {"playlist:read", "playlist:write", "schedule:read", "schedule:write"}
      others == {"sync:trigger", "users:manage", "logs:read", "prayer:read", "prayer:manage"}
      Admin  == UNION {org, fleet, zone, music, lists, others} IN
  [SUPER_ADMIN        |-> Admin \cup {"org:write", "server:forget", "zone:override"},
   ORGANIZATION_ADMIN |-> Admin,
   LOCATION_MANAGER   |-> Admin \ {"org:read", "location:write", "server:write", "server:pair",
                                   "music:upload", "music:delete", "playlist:write",
                                   "prayer:manage"},
   VIEWER             |-> {"zone:read", "zone:control"}]

Holders(permissions) == {r \in DOMAIN MATRIX : permissions \cap MATRIX[r] # {}}

-----------------------------------------------------------------------------
(* What the routes demand, by the query or edit that calls them *)

Each(permission, ops) == ops \X {permission}

OrganizationDemands ==
  Each("org:read", {"useOrganizations", "useOrganization"})
    \cup Each("org:write", {"useCreateOrganization"})

LocationDemands ==
  Each("location:read", {"useLocations", "useLocation"})
    \cup Each("location:write", {"useCreateLocation", "useUpdateLocation"})

ServerDemands ==
  Each("server:read", {"useServers", "useServer"}) \cup Each("logs:read", {"useServerLogs"})
    \cup Each("server:write", {"useRegisterServer", "useDeleteServer"})
    \cup Each("server:forget", {"useForgetServer"})

\* A command is demanded by its type; the list of commands is for everyone, by scope.
CommandDemands ==
  Each("zone:control", {"useZoneControls"}) \cup Each("server:forget", {"FORGET_SERVER"})
    \cup Each("server:command", {"useSyncConfig", "useSendCommand"})

ZoneDemands ==
  Each("zone:read", {"useZones", "useZonePlaylists"})
    \cup Each("prayer:read", {"useSetZonePrayerParticipation"})
    \cup Each("zone:assign", {"useAssignZonePlaylist", "useRemoveTrackFromZone",
                              "useRestoreTrackForZone", "useDeleteZone"})

PlaylistDemands ==
  Each("playlist:read", {"usePlaylists", "usePlaylist"})
    \cup Each("playlist:write", {"useCreatePlaylist", "useDuplicatePlaylist", "useAssignPlaylist",
                                 "useUpdatePlaylistTracks", "useRemoveTrackFromPlaylist",
                                 "useDeletePlaylist"})

MusicDemands ==
  Each("music:read", {"useTracks", "useMusicFolders"})
    \cup Each("music:upload", {"useCreateMusicFolder", "useRenameMusicFolder",
                               "useDeleteMusicFolder", "uploadAll", "useUpdateTrack"})
    \cup Each("music:delete", {"useDeleteTrack"})

ScheduleDemands ==
  Each("schedule:read", {"useSchedules"})
    \cup Each("schedule:write", {"useCreateSchedule", "useUpdateSchedule", "useToggleSchedule",
                                 "useDeleteSchedule"})

SyncDemands == Each("sync:trigger", {"useSyncStates", "useQueueSync", "useRetrySync"})

UserDemands == Each("users:manage", {"useUsers", "useInviteUser", "useDeleteUser"})

MonitoringDemands ==
  Each("logs:read", {"useActivityFeed", "useAlerts", "useLogs", "useAcknowledgeAlert"})

DashboardDemands == Each("server:read", {"useDashboardStats"})

PresetDemands ==
  Each("zone:read", {"useEqualizerPresets"})
    \cup Each("zone:assign", {"useSaveEqualizerPreset", "useDeleteEqualizerPreset"})

PrayerDemands ==
  Each("prayer:read", {"usePrayerConfig", "useTodayPrayerTimes"})
    \cup Each("prayer:manage", {"useUpdatePrayerConfig"})

Demands ==
  OrganizationDemands \cup LocationDemands \cup ServerDemands \cup CommandDemands \cup ZoneDemands
    \cup PlaylistDemands \cup MusicDemands \cup ScheduleDemands \cup SyncDemands \cup UserDemands
    \cup MonitoringDemands \cup DashboardDemands \cup PresetDemands \cup PrayerDemands

Permits(r, op) == \A d \in Demands : d[1] = op => d[2] \in BackendMATRIX[r]

-----------------------------------------------------------------------------
(* The parts that pages share *)

\* A use of a query or an edit: the roles that it is shown to, and the queries that must have
\* been answered before it is.
Uses(ops)         == [roles : {DOMAIN MATRIX}, data : {{}}, op : ops]
For(roles, uses)  == {[u EXCEPT !.roles = @ \cap roles] : u \in uses}
From(data, uses)  == {[u EXCEPT !.data = @ \cup data] : u \in uses}
\* RoleGate, or a condition of can() in the page.
RoleGate(permissions, uses) == For(Holders(permissions), uses)

TrackPicker == Uses({"useTracks", "useMusicFolders"})

ScheduleFormDialog ==
  Uses({"useZones", "usePlaylists", "useCreateSchedule", "useUpdateSchedule"})
AlertsPanel == From({"useAlerts"}, Uses({"useAcknowledgeAlert"}))

ZonePlaylistDialog ==
  Uses({"usePlaylists", "useTracks"})
    \cup RoleGate({"zone:control"}, From({"usePlaylists", "useTracks"},
           Uses({"useRemoveTrackFromZone", "useRestoreTrackForZone"})))

ZoneScheduleDialog ==
  Uses({"useSchedules", "usePlaylists"})
    \cup RoleGate({"schedule:write", "zone:assign"},
           ScheduleFormDialog \cup From({"useSchedules"}, Uses({"useDeleteSchedule"})))

\* The curve is sent with the zone's own controls; a saved curve goes by its name.
EqualizerControls == Uses({"useEqualizerPresets", "useZoneControls"})
EqualizerPresets  ==
  Uses({"useSaveEqualizerPreset"})
    \cup From({"useEqualizerPresets"}, Uses({"useDeleteEqualizerPreset"}))

ZoneTransport == RoleGate({"zone:control"}, Uses({"useZoneControls"}))

\* Planted defect: the schedule of a zone is asked for whoever looks at it.
ZoneCardAsksAll ==
  Uses({"useZonePlaylists", "useSchedules"}) \cup RoleGate({"music:read"}, Uses({"useTracks"}))

ZoneCardQueries ==
  Uses({"useZonePlaylists"}) \cup RoleGate({"music:read"}, Uses({"useTracks"}))
    \cup RoleGate({"schedule:read"}, Uses({"useSchedules"}))

ZoneCard ==
  UNION {ZoneCardQueries, ZoneTransport, From({"useZonePlaylists"}, ZonePlaylistDialog),
         RoleGate({"zone:assign"}, Uses({"useDeleteZone"})),
         RoleGate({"zone:control"}, EqualizerControls \cup EqualizerPresets),
         RoleGate({"zone:assign"}, From({"useZonePlaylists"}, Uses({"useAssignZonePlaylist"}))),
         RoleGate({"schedule:read"}, ZoneScheduleDialog),
         RoleGate({"prayer:manage"}, Uses({"useSetZonePrayerParticipation"}))}

-----------------------------------------------------------------------------
(* The dialogs *)

CreateOrganizationDialog == Uses({"useCreateOrganization"})
CreateLocationDialog     == Uses({"useOrganizations", "useCreateLocation"})
EditLocationDialog       == Uses({"useUpdateLocation"})

\* Who invites into one organization, or into one location, is not asked which.
InviteUserDialog ==
  Uses({"useInviteUser"}) \cup For({"SUPER_ADMIN"}, Uses({"useOrganizations"}))
    \cup For({"SUPER_ADMIN", "ORGANIZATION_ADMIN"}, Uses({"useLocations"}))

RegisterServerDialog == Uses({"useOrganizations", "useLocations", "useRegisterServer"})

\* A command of any type, those for a zone as its controls send them.
SendCommandDialog ==
  Uses({"useServers", "useZones", "useSendCommand", "useZoneControls", "FORGET_SERVER"})

ServerQuickActions ==
  RoleGate({"server:command", "sync:trigger"}, Uses({"useSendCommand", "useSyncConfig"}))

ServerSyncTable == Uses({"useTracks"}) \cup From({"useSyncStates"}, Uses({"useRetrySync"}))

UploadMusicDialog  == Uses({"useMusicFolders", "useCreateMusicFolder", "uploadAll"})
FolderDialog       == Uses({"useCreateMusicFolder", "useRenameMusicFolder"})
DeleteFolderButton == Uses({"useDeleteMusicFolder"})
EditTrackDialog    == Uses({"useUpdateTrack"})
AssignSyncDialog   == Uses({"useServers", "useQueueSync"})
QueueSyncDialog    == Uses({"useServers", "useTracks", "useQueueSync"})

CreatePlaylistDialog == TrackPicker \cup Uses({"useOrganizations", "useCreatePlaylist"})
AddTracksDialog      == TrackPicker \cup Uses({"useUpdatePlaylistTracks"})
AssignPlaylistDialog ==
  Uses({"useOrganizations", "useLocations", "useServers", "useZones", "useAssignPlaylist"})

\* The settings can be seen without the permission to manage them.
PrayerModeForm ==
  Uses({"usePrayerConfig", "useLocations", "useTodayPrayerTimes"})
    \cup RoleGate({"prayer:manage"}, Uses({"useUpdatePrayerConfig"}))
ZoneParticipationList ==
  Uses({"useZones", "useServers"})
    \cup RoleGate({"prayer:manage"}, From({"useZones"}, Uses({"useSetZonePrayerParticipation"})))

-----------------------------------------------------------------------------
(* The pages *)

\* The alerts' bell is on every page.
Topbar == RoleGate({"logs:read"}, Uses({"useAlerts"}))

DashboardPage ==
  AlertsPanel \cup Uses({"useDashboardStats", "useServers", "useSyncStates", "useActivityFeed",
                         "useAlerts"})

OrganizationsPage ==
  Uses({"useOrganizations"}) \cup RoleGate({"org:write"}, CreateOrganizationDialog)
OrganizationDetailPage ==
  Uses({"useOrganization", "useLocations", "useServers"})
    \cup RoleGate({"location:write"}, From({"useOrganization"}, CreateLocationDialog))

LocationsPage ==
  Uses({"useOrganizations", "useLocations"}) \cup RoleGate({"location:write"}, CreateLocationDialog)
LocationDetailPage ==
  Uses({"useLocation", "useServers", "useZones"})
    \cup From({"useLocation"}, Uses({"useOrganization"}))
    \cup RoleGate({"location:write"}, From({"useLocation"}, EditLocationDialog))

ServersPage ==
  Uses({"useServers", "useLocations"}) \cup RoleGate({"server:pair"}, RegisterServerDialog)
ServerDetailPage ==
  Uses({"useServer", "useZones", "useServerLogs", "useCommands", "useSyncStates", "useSchedules",
        "usePlaylists"})
    \cup From({"useServer"},
           UNION {Uses({"useLocation"}), ServerQuickActions,
                  RoleGate({"server:write"}, Uses({"useDeleteServer"})),
                  RoleGate({"server:forget"}, Uses({"useForgetServer"}))})
ServerDetailTabs == From({"useServer"}, From({"useZones"}, ZoneCard) \cup ServerSyncTable)

\* The times of a location are asked for with the settings there are.
ZonesPage ==
  RoleGate({"location:read"}, Uses({"useLocations"}))
    \cup RoleGate({"server:read"}, Uses({"useServers"})) \cup Uses({"useZones", "usePrayerConfig"})
    \cup From({"useLocations", "usePrayerConfig", "useZones"}, Uses({"useTodayPrayerTimes"}))
    \cup From({"useZones"}, ZoneCard)

MusicLibraryPage ==
  Uses({"useTracks", "useMusicFolders"})
    \cup RoleGate({"music:upload"}, FolderDialog \cup UploadMusicDialog)
    \cup RoleGate({"sync:trigger"}, From({"useTracks"}, AssignSyncDialog))
MusicLibraryRows ==
  RoleGate({"music:upload"}, From({"useTracks"}, EditTrackDialog))
    \cup RoleGate({"music:upload"}, From({"useMusicFolders"}, FolderDialog \cup DeleteFolderButton))
    \cup RoleGate({"sync:trigger"}, From({"useTracks"}, AssignSyncDialog))
    \cup RoleGate({"music:delete"}, From({"useTracks"}, Uses({"useDeleteTrack"})))

PlaylistsPage ==
  Uses({"usePlaylists", "useOrganizations"})
    \cup RoleGate({"playlist:write"}, CreatePlaylistDialog)
    \cup RoleGate({"playlist:write"}, From({"usePlaylists"},
           Uses({"useDuplicatePlaylist", "useDeletePlaylist"})))
PlaylistDetailPage ==
  Uses({"usePlaylist", "useTracks"})
    \cup RoleGate({"playlist:write"}, From({"usePlaylist"},
           UNION {AssignPlaylistDialog, AddTracksDialog,
                  Uses({"useUpdatePlaylistTracks", "useRemoveTrackFromPlaylist"})}))

SchedulesPage ==
  Uses({"useSchedules", "useZones", "usePlaylists"})
    \cup RoleGate({"schedule:write"}, ScheduleFormDialog \cup From({"useSchedules"},
           Uses({"useToggleSchedule", "useDeleteSchedule"})))

PrayerModePage == RoleGate({"prayer:read"}, PrayerModeForm \cup ZoneParticipationList)

SyncPage ==
  Uses({"useServers", "useTracks", "useSyncStates"})
    \cup From({"useSyncStates"}, Uses({"useRetrySync"}))
    \cup RoleGate({"sync:trigger"}, QueueSyncDialog)

MonitoringPage == AlertsPanel \cup Uses({"useActivityFeed", "useAlerts", "useServers", "useLogs"})

CommandsPage ==
  Uses({"useServers", "useCommands"}) \cup RoleGate({"server:command"}, SendCommandDialog)

UsersPage ==
  Uses({"useUsers"}) \cup RoleGate({"org:read"}, Uses({"useOrganizations"}))
    \cup RoleGate({"location:read"}, Uses({"useLocations"}))
    \cup RoleGate({"users:manage"},
           InviteUserDialog \cup From({"useUsers"}, Uses({"useDeleteUser"})))

\* The organization of the user, who has one unless a Super Admin.
SettingsPage == For(DOMAIN MATRIX \ {"SUPER_ADMIN"}, Uses({"useOrganization"}))

Pages ==
  {"/dashboard", "/organizations", "/organizations/[id]", "/locations", "/locations/[id]",
   "/servers", "/servers/[id]", "/zones", "/music", "/playlists", "/playlists/[id]", "/schedules",
   "/prayer", "/sync", "/monitoring", "/commands", "/users", "/settings"}

Contents ==
  [p \in Pages |->
     CASE p = "/dashboard" -> DashboardPage
       [] p = "/organizations" -> OrganizationsPage
       [] p = "/organizations/[id]" -> OrganizationDetailPage
       [] p = "/locations" -> LocationsPage
       [] p = "/locations/[id]" -> LocationDetailPage
       [] p = "/servers" -> ServersPage
       [] p = "/servers/[id]" -> ServerDetailPage \cup ServerDetailTabs
       [] p = "/zones" -> ZonesPage
       [] p = "/music" -> MusicLibraryPage \cup MusicLibraryRows
       [] p = "/playlists" -> PlaylistsPage
       [] p = "/playlists/[id]" -> PlaylistDetailPage
       [] p = "/schedules" -> SchedulesPage
       [] p = "/prayer" -> PrayerModePage
       [] p = "/sync" -> SyncPage
       [] p = "/monitoring" -> MonitoringPage
       [] p = "/commands" -> CommandsPage
       [] p = "/users" -> UsersPage
       [] p = "/settings" -> SettingsPage]

\* NAV_GROUPS, by the permission that an item and the pages below it require.
requiredPermissionFor ==
  Each("location:read", {"/dashboard", "/locations", "/locations/[id]", "/settings"})
    \cup Each("org:read", {"/organizations", "/organizations/[id]"})
    \cup Each("server:read", {"/servers", "/servers/[id]"})
    \cup Each("zone:read", {"/zones"}) \cup Each("music:read", {"/music"})
    \cup Each("playlist:read", {"/playlists", "/playlists/[id]"})
    \cup Each("schedule:read", {"/schedules"}) \cup Each("prayer:read", {"/prayer"})
    \cup Each("sync:trigger", {"/sync"}) \cup Each("logs:read", {"/monitoring"})
    \cup Each("server:command", {"/commands"}) \cup Each("users:manage", {"/users"})

MayOpen(r, p) == \A x \in requiredPermissionFor : x[1] = p => x[2] \in MATRIX[r]

landingRoute(r) == IF r = "VIEWER" THEN "/zones" ELSE "/dashboard"

-----------------------------------------------------------------------------
CONSTANT NoOne   \* the role and the page of nobody

VARIABLES
  userRole,    \* the role in the user's row
  tokenRole,   \* that in the token that calls go with
  shownRole,   \* that in the session that pages are drawn for
  seenAs,      \* the roles that the answers which the pages hold were given to
  page         \* the page that is open

pageVars == <<userRole, tokenRole, shownRole, seenAs, page>>

PortalRoles == DOMAIN MATRIX

PortalPagesTypeOK ==
  /\ userRole \in PortalRoles
  /\ tokenRole \in PortalRoles \cup {NoOne} /\ shownRole \in PortalRoles \cup {NoOne}
  /\ seenAs \subseteq PortalRoles /\ page \in Pages \cup {NoOne}

PortalPagesInit ==
  /\ userRole \in PortalRoles
  /\ tokenRole = NoOne /\ shownRole = NoOne /\ seenAs = {} /\ page = NoOne

\* The page that was asked for before the login opens after it, or that of the role.
SignIn(p) ==
  /\ page = NoOne /\ p \in Pages \cup {landingRoute(userRole)}
  /\ tokenRole' = userRole /\ shownRole' = userRole /\ seenAs' = {userRole} /\ page' = p
  /\ UNCHANGED userRole

\* Somebody else changes the role.
ChangeRole(r) == userRole' = r /\ r # userRole /\ UNCHANGED <<tokenRole, shownRole, seenAs, page>>

\* A token that has run out is renewed from the row; what is on the pages stays.
RenewToken ==
  /\ page # NoOne
  /\ tokenRole' = userRole /\ seenAs' = seenAs \cup {userRole}
  /\ UNCHANGED <<userRole, shownRole, page>>

\* The session is asked for again when it is older than its time.
RefetchSession ==
  /\ page # NoOne /\ shownRole' = userRole
  /\ UNCHANGED <<userRole, tokenRole, seenAs, page>>

FollowLink(p) == page # NoOne /\ page' = p /\ UNCHANGED <<userRole, tokenRole, shownRole, seenAs>>

\* An address that is typed loads the portal anew, and the login page's leads to the page of
\* the token's role.
Load(p) ==
  /\ page # NoOne
  /\ shownRole' = userRole /\ seenAs' = {tokenRole} /\ page' = p
  /\ UNCHANGED <<userRole, tokenRole>>
LoadPublic == Load(landingRoute(tokenRole))

\* AuthGuard: a page that the role may not open is left before it is drawn.
Drawn == page # NoOne /\ MayOpen(shownRole, page)
Redirect ==
  /\ page # NoOne /\ ~ Drawn
  /\ page' = landingRoute(shownRole) /\ UNCHANGED <<userRole, tokenRole, shownRole, seenAs>>

LeavePortal ==
  /\ page # NoOne
  /\ tokenRole' = NoOne /\ shownRole' = NoOne /\ seenAs' = {} /\ page' = NoOne
  /\ UNCHANGED userRole

PortalPagesNext ==
  \/ \E p \in Pages : SignIn(p) \/ FollowLink(p) \/ Load(p)
  \/ \E r \in PortalRoles : ChangeRole(r)
  \/ RenewToken \/ RefetchSession \/ LoadPublic \/ Redirect \/ LeavePortal

PortalPagesSpec == PortalPagesInit /\ [][PortalPagesNext]_pageVars

-----------------------------------------------------------------------------
\* What the open page does: what is shown to the role, once the queries it is drawn from have
\* been answered to this role or to an earlier one.
Done ==
  {u.op : u \in {v \in Contents[page] \cup Topbar :
      /\ shownRole \in v.roles
      /\ \A q \in v.data : \E r \in seenAs : Permits(r, q)}}

\* What a page asks for or offers although the backend refuses it.
RefusedTo(r) ==
  CASE r = "VIEWER" ->
         \* The prayer settings, the playlist of a zone, and saved curves; with the answers that an
         \* earlier role was given, the prayer times and the tracks of the playlist.
         {"/zones"} \X {"usePrayerConfig", "usePlaylists", "useTracks", "useSaveEqualizerPreset",
                        "useDeleteEqualizerPreset", "useTodayPrayerTimes",
                        "useRemoveTrackFromZone", "useRestoreTrackForZone"}
    [] r = "LOCATION_MANAGER" ->
         \* Organizations, which are names to it; and "Forget Server" among the commands.
         ({"/locations", "/playlists"} \X {"useOrganizations"})
           \cup ({"/locations/[id]", "/settings"} \X {"useOrganization"})
           \cup {<<"/commands", "FORGET_SERVER">>}
    [] r = "ORGANIZATION_ADMIN" -> {<<"/commands", "FORGET_SERVER">>}
    [] OTHER -> {}

\* The home of a role is a page that it may open, or it would be sent there for ever; and
\* once the token and the session have the same role, a page asks and offers what the backend
\* allows this role, whatever role its answers are left from, but for what is listed (the
\* matrix of rbac.ts and its mirror, the conditions in the pages, and the checks in the routes
\* are written apart).
OfferedIsPermitted ==
  /\ page # NoOne => MayOpen(shownRole, landingRoute(shownRole))
  /\ Drawn /\ tokenRole = shownRole =>
       \A op \in Done : Permits(tokenRole, op) \/ <<page, op>> \in RefusedTo(tokenRole)
=============================================================================
