------------------------------ MODULE PortalRows ------------------------------
(***************************************************************************)
(* The rows that people manage in the portal, and the routes that write them *)
(* (backend/src/routes/users.ts, organizations.ts, locations.ts, servers.ts,  *)
(* zones.ts, playlists.ts, schedules.ts, music.ts) with the permissions of    *)
(* lib/rbac.ts and the scopes of lib/auth-context.ts.                         *)
(*                                                                         *)
(* A request reads what it decides on when it begins, and the statements it   *)
(* has yet to run are kept as a list: the database runs them one by one,      *)
(* between those of other requests, and one that fails ends the request.      *)
(***************************************************************************)
EXTENDS Migrations, SequencesExt

CONSTANTS
  Jobs,        \* requests that may be in progress together
  Claims,      \* callers: the role, organization and location in an access token
  Keys,        \* for each table, the keys that rows created later may get
  Seed,        \* the rows there are at the start
  New,         \* in a list of statements, the key of the row created before
  MaxJobs,     \* bound: requests in one behaviour
  MaxStops     \* bound: restarts of the backend in one behaviour

Roles == {"SUPER_ADMIN", "ORGANIZATION_ADMIN", "LOCATION_MANAGER", "VIEWER"}

ASSUME PortalRowsConstants ==
  /\ MaxJobs \in Nat /\ MaxStops \in Nat
  /\ \A a \in Claims : a.role \in Roles
  /\ \A x \in DOMAIN Seed : Satisfied(Seed, Seed[x].table, Seed[x].columns)

\* The rows at the start are of the tables, with the columns of their references, and users
\* have a role.
ASSUME SeedRows ==
  /\ IsFiniteSet(DOMAIN Seed)
  /\ \A x \in DOMAIN Seed :
       /\ DOMAIN Seed[x] = {"table", "columns"} /\ Seed[x].table \in DOMAIN Models
       /\ DOMAIN Models[Seed[x].table] \subseteq DOMAIN Seed[x].columns
       /\ Seed[x].table = "User" => "role" \in DOMAIN Seed[x].columns

\* The keys of later rows are new, and no key is that of two tables.
ASSUME KeysApart ==
  /\ DOMAIN Keys = {"User", "Organization", "Location", "MusicServer", "Zone", "Playlist",
                    "PlaylistAssignment", "Schedule", "Track", "MusicFolder"}
  /\ Null \notin DOMAIN Seed /\ New \notin DOMAIN Seed
  /\ \A t \in DOMAIN Keys : Keys[t] \cap (DOMAIN Seed \cup {Null, New}) = {}
  /\ \A t, u \in DOMAIN Keys : t # u => Keys[t] \cap Keys[u] = {}

VARIABLES
  rows,      \* the database
  used,      \* keys given to rows so far
  trackFiles,     \* tracks with a file in the music directory
  job,       \* for each request, the statements it has yet to run
  jobs,      \* requests so far
  stops,     \* restarts so far
  bereft,    \* history: users whose location was deleted, and slots that were moved by a request
             \* naming no playlist, since they were last written
  cut,       \* history: a request was ended by a restart
  jumbled    \* history: playlists a track was taken from, or whose edits overlapped

rowVars == <<rows, used, trackFiles, job, jobs, stops, bereft, cut, jumbled>>

Statement(op, table, key, columns) ==
  [op |-> op, table |-> table, key |-> key, columns |-> columns]

Ops == {"scope", "create", "update", "delete", "clear", "copy", "replace", "ensure", "file", "unlink"}

PortalRowsTypeOK ==
  /\ \A x \in DOMAIN rows :
       /\ rows[x].table \in DOMAIN Models
       /\ Satisfied(rows, rows[x].table, rows[x].columns)
  /\ used \subseteq UNION {Keys[t] : t \in DOMAIN Keys}
  /\ \A j \in Jobs, i \in 1 .. 3 : i <= Len(job[j]) => job[j][i].op \in Ops
  /\ jobs \in 0 .. MaxJobs /\ stops \in 0 .. MaxStops /\ cut \in BOOLEAN
  /\ bereft \subseteq Rows(rows, "User") \cup Rows(rows, "Schedule")

PortalRowsInit ==
  /\ rows = Seed
  /\ used = {} /\ trackFiles = Rows(Seed, "Track")
  /\ job = [j \in Jobs |-> <<>>]
  /\ jobs = 0 /\ stops = 0 /\ bereft = {} /\ cut = FALSE /\ jumbled = {}

-----------------------------------------------------------------------------
(* Who may do what *)

Managers == Roles \ {"VIEWER"}
Admins   == Managers \ {"LOCATION_MANAGER"}

\* MATRIX: the roles that have a permission to write.
Permitted ==
  [users    |-> Managers,         \* users:manage
   org      |-> {"SUPER_ADMIN"},  \* org:write
   location |-> Admins,           \* location:write
   server   |-> Admins,           \* server:write
   assign   |-> Managers,         \* zone:assign
   playlist |-> Admins,           \* playlist:write
   schedule |-> Managers,         \* schedule:write
   music    |-> Admins]           \* music:upload, music:delete

RANK == [SUPER_ADMIN |-> 3, ORGANIZATION_ADMIN |-> 2, LOCATION_MANAGER |-> 1, VIEWER |-> 0]

LOCATION_BOUND == {"VIEWER", "LOCATION_MANAGER"}

Outranks(a, role) == a.role = "SUPER_ADMIN" \/ RANK[role] < RANK[a.role]

\* A row of one organization is in reach of that organization and of a Super Admin.
InScope(a, organization) == a.role = "SUPER_ADMIN" \/ organization = a.organization

OrganizationOf(x) == rows[x].columns.organization

\* visibilityWhere
Visible(a, u) ==
  LET c == rows[u].columns IN
  CASE a.role = "SUPER_ADMIN"        -> TRUE
    [] a.role = "ORGANIZATION_ADMIN" -> a.organization # Null /\ c.organization = a.organization
    [] OTHER                         -> a.location # Null /\ c.location = a.location

\* Planted defect: the location is not compared with the organization.
ScopesUnchecked(a, role, organization, location) ==
  IF role = "SUPER_ADMIN" THEN {[organization |-> Null, location |-> Null]}
  ELSE {[organization |-> IF a.role = "SUPER_ADMIN" THEN organization ELSE a.organization,
         location |-> location]}

\* resolveScope: what a user of a role carries, and nothing if that is refused. The location
\* of a role bound to one decides the organization.
Scopes(a, role, organization, location) ==
  LET owner == IF a.role = "SUPER_ADMIN" THEN organization ELSE a.organization
      Venue(l) ==
        /\ l \in Rows(rows, "Location")
        /\ a.role = "LOCATION_MANAGER" => l = a.location
        /\ a.role = "ORGANIZATION_ADMIN" => OrganizationOf(l) = a.organization
      Inside(l) == l \in Rows(rows, "Location") /\ OrganizationOf(l) = owner IN
  CASE role = "SUPER_ADMIN" -> {[organization |-> Null, location |-> Null]}
    [] role \in LOCATION_BOUND ->
         {[organization |-> OrganizationOf(l), location |-> l] : l \in {v \in {location} : Venue(v)}}
    [] OTHER ->
         {[organization |-> owner, location |-> l] : l \in
            {v \in {location} : owner \in Rows(rows, "Organization") /\ (v = Null \/ Inside(v))}}

-----------------------------------------------------------------------------
FreeJob(j) == job[j] = <<>> /\ jobs < MaxJobs

\* A request of a permitted caller begins, with the statements it will run.
Request(j, statements) ==
  /\ FreeJob(j)
  /\ jobs' = jobs + 1
  /\ job' = [job EXCEPT ![j] = statements]
  /\ UNCHANGED <<rows, used, stops, bereft, cut>>

Asks(a, permission) == a \in Claims /\ a.role \in Permitted[permission]

Tables(table) == Rows(rows, table)

KeepFiles == UNCHANGED <<trackFiles, jumbled>>

-----------------------------------------------------------------------------
(* routes/users.ts *)

UserColumns(role, scope) ==
  [role |-> role, organization |-> scope.organization, location |-> scope.location]

\* POST /users/invite
InviteUser(j, a, role, organization, location) ==
  /\ Asks(a, "users") /\ Outranks(a, role)
  /\ \E scope \in Scopes(a, role, organization, location) :
       Request(j, <<Statement("create", "User", New, UserColumns(role, scope))>>)
  /\ KeepFiles

\* PATCH /users/:id reads the user; what the caller leaves out stays as it was read.
EditUser(j, a, u, role, organization, location) ==
  /\ Asks(a, "users") /\ u \in Tables("User") /\ Visible(a, u)
  /\ Outranks(a, rows[u].columns.role) /\ Outranks(a, role)
  /\ LET c == rows[u].columns IN
     Request(j, <<Statement("scope", "User", u,
       [caller |-> a, role |-> role,
        organization |-> IF organization = Null THEN c.organization ELSE organization,
        location |-> IF location = Null THEN c.location ELSE location])>>)
  /\ KeepFiles

\* The scope is resolved, and the update is next.
ScopeUser(j) ==
  /\ job[j] # <<>> /\ Head(job[j]).op = "scope"
  /\ LET s == Head(job[j])
         scopes == Scopes(s.columns.caller, s.columns.role, s.columns.organization,
                          s.columns.location) IN
     \/ \E scope \in scopes :
          job' = [job EXCEPT ![j] = <<Statement("update", "User", s.key,
                                                UserColumns(s.columns.role, scope))>>]
     \/ scopes = {} /\ job' = [job EXCEPT ![j] = <<>>]
  /\ UNCHANGED <<rows, used, trackFiles, jobs, stops, bereft, cut, jumbled>>

\* DELETE /users/:id
RemoveUser(j, a, u) ==
  /\ Asks(a, "users") /\ u \in Tables("User") /\ Visible(a, u)
  /\ Outranks(a, rows[u].columns.role)
  /\ Request(j, <<Statement("delete", "User", u, {})>>)
  /\ KeepFiles

-----------------------------------------------------------------------------
(* routes/organizations.ts, locations.ts, servers.ts *)

\* POST /organizations
CreateOrganization(j, a) ==
  /\ Asks(a, "org")
  /\ Request(j, <<Statement("create", "Organization", New, NoReferences)>>)
  /\ KeepFiles

\* DELETE /organizations/:id
DeleteOrganization(j, a, o) ==
  /\ Asks(a, "org")
  /\ Request(j, <<Statement("delete", "Organization", o, {})>>)
  /\ KeepFiles

\* POST /locations
CreateLocation(j, a, o) ==
  /\ Asks(a, "location") /\ InScope(a, o)
  /\ Request(j, <<Statement("create", "Location", New, [organization |-> o])>>)
  /\ KeepFiles

\* PATCH /locations/:id leaves out the organization in the body.
EditLocation(j, a, l) ==
  /\ Asks(a, "location") /\ l \in Tables("Location") /\ InScope(a, OrganizationOf(l))
  /\ Request(j, <<Statement("update", "Location", l, NoReferences)>>)
  /\ KeepFiles

\* DELETE /locations/:id
DeleteLocation(j, a, l) ==
  /\ Asks(a, "location") /\ l \in Tables("Location") /\ InScope(a, OrganizationOf(l))
  /\ Request(j, <<Statement("delete", "Location", l, {})>>)
  /\ KeepFiles

\* POST /servers: the location decides the organization.
CreateServer(j, a, l) ==
  /\ Asks(a, "server") /\ l \in Tables("Location") /\ InScope(a, OrganizationOf(l))
  /\ Request(j, <<Statement("create", "MusicServer", New,
                          [organization |-> OrganizationOf(l), location |-> l])>>)
  /\ KeepFiles

\* DELETE /servers/:id
RemoveServer(j, a, s) ==
  /\ Asks(a, "server")
  /\ Request(j, <<Statement("delete", "MusicServer", s, {})>>)
  /\ KeepFiles

\* POST /server/zones/sync: the agent of a server reports a zone, which gets its location.
ReportZone(j, s) ==
  /\ s \in Tables("MusicServer")
  /\ Request(j, <<Statement("create", "Zone", New,
                          [server |-> s, location |-> rows[s].columns.location,
                           currentPlaylist |-> Null])>>)
  /\ KeepFiles

\* scopedZone. What it asks of a VIEWER's location is left out: a VIEWER has no zone:assign.
ReachableZone(a, z) ==
  z \in Tables("Zone") /\ InScope(a, OrganizationOf(rows[z].columns.location))

\* DELETE /zones/:id
DeleteZone(j, a, z) ==
  /\ Asks(a, "assign") /\ ReachableZone(a, z)
  /\ Request(j, <<Statement("delete", "Zone", z, {})>>)
  /\ KeepFiles

-----------------------------------------------------------------------------
(* routes/playlists.ts and POST /zones/:id/playlist *)

\* withTrackIds: the tracks of a playlist with their positions.
TracksOf(p) == {x \in Tables("PlaylistTrack") : rows[x].columns.playlist = p}
TrackIds(p) == {rows[x].columns.track : x \in TracksOf(p)}

\* A request has yet to write the tracks of a playlist.
Writes(j, p) ==
  \E i \in DOMAIN job[j] :
    \/ /\ job[j][i].op = "replace" /\ job[j][i].key = p
    \/ /\ job[j][i].table = "PlaylistTrack" /\ job[j][i].columns.playlist = p

\* The tracks of a playlist are about to be written, perhaps while another request is.
Touches(p) ==
  /\ jumbled' = IF \E j \in Jobs : Writes(j, p) THEN jumbled \cup {p} ELSE jumbled
  /\ UNCHANGED trackFiles

Replacement(p, tracks) == Statement("replace", "Playlist", p, tracks)
Touch(p)               == Statement("update", "Playlist", p, NoReferences)
PlaylistColumns(o)     == [organization |-> o]

\* POST /playlists, with its tracks in their order
CreatePlaylist(j, a, o, tracks) ==
  /\ Asks(a, "playlist")
  /\ Request(j, <<Statement("create", "Playlist", New, PlaylistColumns(o)), Replacement(New, tracks)>>)
  /\ KeepFiles

\* POST /playlists/:id/duplicate finds the playlist, and reads its tracks next.
DuplicatePlaylist(j, a, p) ==
  /\ Asks(a, "playlist") /\ p \in Tables("Playlist")
  /\ Request(j, <<Statement("copy", "Playlist", p, rows[p].columns)>>)
  /\ KeepFiles

\* PATCH /playlists/:id
ChangePlaylist(j, a, p, tracks) ==
  /\ Asks(a, "playlist")
  /\ Request(j, <<Touch(p), Replacement(p, tracks)>>)
  /\ Touches(p)

\* POST /playlists/:id/tracks reads the tracks, and adds one at their number.
AddTrack(j, a, p, t) ==
  /\ Asks(a, "playlist")
  /\ Request(j, (IF t \in TrackIds(p) THEN <<>>
               ELSE <<Statement("create", "PlaylistTrack", <<p, t>>,
                                [playlist |-> p, track |-> t, position |-> Cardinality(TracksOf(p))])>>)
              \o <<Touch(p)>>)
  /\ Touches(p)

\* DELETE /playlists/:id/tracks/:trackId
RemoveTrack(j, a, p, t) ==
  /\ Asks(a, "playlist")
  /\ Request(j, <<Statement("clear", "PlaylistTrack", <<p, t>>, [playlist |-> p]), Touch(p)>>)
  /\ Touches(p)

\* DELETE /playlists/:id
RemovePlaylist(j, a, p) ==
  /\ Asks(a, "playlist")
  /\ Request(j, <<Statement("delete", "Playlist", p, {})>>)
  /\ KeepFiles

Assignment(z, p) == Statement("create", "PlaylistAssignment", New, [playlist |-> p, target |-> z])
PlaysNow(z, p)    == Statement("update", "Zone", z, [currentPlaylist |-> p])

IsZone(target) == target \in Keys["Zone"] \cup Rows(Seed, "Zone")

\* POST /playlists/:id/assign: a target that is a zone gets to play it.
AssignTo(j, a, target, p) ==
  /\ Asks(a, "playlist")
  /\ Request(j, <<Assignment(target, p)>>
              \o (IF IsZone(target) THEN <<PlaysNow(target, p)>> ELSE <<>>))
  /\ KeepFiles

\* POST /zones/:id/playlist, which assigns nothing. Whether the server is online is left open.
SetZonePlaylist(j, a, z, p) ==
  /\ Asks(a, "assign") /\ ReachableZone(a, z)
  /\ Request(j, <<PlaysNow(z, p)>>)
  /\ KeepFiles

-----------------------------------------------------------------------------
(* routes/schedules.ts *)

Ensure(z, p) == Statement("ensure", "PlaylistAssignment", New, [playlist |-> p, target |-> z])

\* POST /schedules
CreateSchedule(j, a, z, p) ==
  /\ Asks(a, "schedule")
  /\ Request(j, <<Statement("create", "Schedule", New, [zone |-> z, playlist |-> p]), Ensure(z, p)>>)
  /\ KeepFiles

\* PATCH /schedules/:id writes what the body names, be it the zone or the playlist.
EditSchedule(j, a, s, change) ==
  /\ Asks(a, "schedule")
  /\ Request(j, <<Statement("update", "Schedule", s, change)>>)
  /\ KeepFiles

\* DELETE /schedules/:id
DeleteSchedule(j, a, s) ==
  /\ Asks(a, "schedule")
  /\ Request(j, <<Statement("delete", "Schedule", s, {})>>)
  /\ KeepFiles

-----------------------------------------------------------------------------
(* routes/music.ts *)

\* POST /music/upload writes the file, and then the row.
UploadTrack(j, a, folder) ==
  /\ Asks(a, "music")
  /\ Request(j, <<Statement("file", "Track", New, {}),
               Statement("create", "Track", New, [folder |-> folder])>>)
  /\ KeepFiles

\* DELETE /music/:id does not wait until the file is unlinked before it deletes the row.
DiscardTrack(j, a, t) ==
  /\ Asks(a, "music")
  /\ LET delete == Statement("delete", "Track", t, {})
         unlink == Statement("unlink", "Track", t, {}) IN
     \/ t \in Tables("Track") /\ Request(j, <<unlink, delete>>)
     \/ t \in Tables("Track") /\ Request(j, <<delete, unlink>>)
     \/ t \notin Tables("Track") /\ Request(j, <<delete>>)
  /\ KeepFiles

\* PATCH /music/:id puts a track into a folder, or into none.
MoveTrack(j, a, t, folder) ==
  /\ Asks(a, "music")
  /\ Request(j, <<Statement("update", "Track", t, [folder |-> folder])>>)
  /\ KeepFiles

\* POST and DELETE /music/folders
CreateFolder(j, a) ==
  /\ Asks(a, "music")
  /\ Request(j, <<Statement("create", "MusicFolder", New, NoReferences)>>)
  /\ KeepFiles

DeleteFolder(j, a, f) ==
  /\ Asks(a, "music")
  /\ Request(j, <<Statement("delete", "MusicFolder", f, {})>>)
  /\ KeepFiles

-----------------------------------------------------------------------------
(* The statements *)

Runs(j, op) == job[j] # <<>> /\ Head(job[j]).op = op

\* The rest of the request goes on with the key of the row it created, or does not go on.
WithKey(statements, x) ==
  [i \in DOMAIN statements |-> IF statements[i].key = New /\ statements[i].op # "ensure"
                               THEN [statements[i] EXCEPT !.key = x] ELSE statements[i]]

Proceed(j)   == job' = [job EXCEPT ![j] = Tail(@)]
Left(j, s)   == job' = [job EXCEPT ![j] = s]
Fail(j)      == Left(j, <<>>) /\ UNCHANGED <<rows, used, trackFiles, bereft, jumbled>>
NotRequests  == UNCHANGED <<jobs, stops, cut>>

Unused(table) == Keys[table] \ used
NewKey(table) == CHOOSE x \in Unused(table) : TRUE

\* prisma.*.create: a row with a key that is taken already, or whose references are not
\* there, is refused.
RunCreate(j) ==
  /\ Runs(j, "create")
  /\ LET s == Head(job[j])
         x == IF s.key = New THEN NewKey(s.table) ELSE s.key IN
     \/ /\ s.key = New => Unused(s.table) # {}
        /\ Accepts(rows, s.table, s.columns) /\ x \notin DOMAIN rows
        /\ rows' = Inserted(rows, x, s.table, s.columns)
        /\ used' = IF s.key = New THEN used \cup {x} ELSE used
        /\ Left(j, WithKey(Tail(job[j]), x))
        /\ UNCHANGED <<trackFiles, bereft, jumbled>>
     \/ /\ ~ Accepts(rows, s.table, s.columns) \/ s.key \in DOMAIN rows
        /\ Fail(j)
  /\ NotRequests

\* A slot is given another zone, or a playlist, which is then assigned to the zone it has now.
MovesSlot(s) == s.table = "Schedule" /\ "zone" \in DOMAIN s.columns
NamesPlaylist(s) == s.table = "Schedule" /\ "playlist" \in DOMAIN s.columns

\* Planted defect: a slot moved to another zone is left at that.
AfterUpdateInPlace(s, slot, rest) ==
  IF NamesPlaylist(s) /\ ~ MovesSlot(s) THEN <<Ensure(slot.zone, slot.playlist)>> ELSE rest

AfterUpdate(s, slot, rest) == IF NamesPlaylist(s) THEN <<Ensure(slot.zone, slot.playlist)>> ELSE rest

\* prisma.*.update
RunUpdate(j) ==
  /\ Runs(j, "update")
  /\ LET s == Head(job[j])
         Written == Updated(rows, s.key, s.columns)
         Fits == s.key \in DOMAIN rows /\ Accepts(Written, s.table, Written[s.key].columns) IN
     \/ /\ Fits /\ rows' = Written
        /\ bereft' = IF s.table = "User" \/ NamesPlaylist(s) THEN bereft \ {s.key}
                     ELSE IF MovesSlot(s) THEN bereft \cup {s.key} ELSE bereft
        /\ Left(j, AfterUpdate(s, Written[s.key].columns, Tail(job[j])))
        /\ UNCHANGED <<used, trackFiles, jumbled>>
     \/ ~ Fits /\ Fail(j)
  /\ NotRequests

\* prisma.*.delete. Users keep a role that is bound to a location when theirs is deleted.
RunDelete(j) ==
  /\ Runs(j, "delete")
  /\ LET x == Head(job[j]).key
         gone == Doomed(rows, {x})
         Lost(u) == rows[u].columns.location \in gone IN
     \/ /\ x \in DOMAIN rows
        /\ rows' = Deleted(rows, {x})
        /\ bereft' = (bereft \cup {u \in Tables("User") : Lost(u)}) \ gone
        /\ jumbled' = jumbled \cup {p \in Tables("Playlist") : x \in TrackIds(p)}
        /\ Proceed(j) /\ UNCHANGED <<used, trackFiles>>
     \/ x \notin DOMAIN rows /\ Fail(j)
  /\ NotRequests

\* prisma.playlistTrack.deleteMany
RunClear(j) ==
  /\ Runs(j, "clear")
  /\ LET x == Head(job[j]).key IN
     \/ /\ x \in DOMAIN rows
        /\ rows' = Deleted(rows, {x}) /\ jumbled' = jumbled \cup {rows[x].columns.playlist}
     \/ x \notin DOMAIN rows /\ UNCHANGED <<rows, jumbled>>
  /\ Proceed(j) /\ NotRequests /\ UNCHANGED <<used, trackFiles, bereft>>

\* The copy is made of what the tracks are now, in any order that their positions allow.
RunCopy(j) ==
  /\ Runs(j, "copy")
  /\ LET s == Head(job[j])
         At(x) == rows[x].columns.position
         Ordered(q) == \A m, n \in DOMAIN q : m < n => At(q[m]) <= At(q[n]) IN
     \E q \in {x \in SetToSeqs(TracksOf(s.key)) : Ordered(x)} :
       Left(j, <<Statement("create", "Playlist", New, s.columns)>>
               \o (IF q = <<>> THEN <<>>
                   ELSE <<Replacement(New, [n \in DOMAIN q |-> rows[q[n]].columns.track])>>))
  /\ NotRequests /\ UNCHANGED <<rows, used, trackFiles, bereft, jumbled>>

\* replaceTrackIds: both of its statements take effect, or none.
RunReplace(j) ==
  /\ Runs(j, "replace")
  /\ LET p == Head(job[j]).key
         tracks == Head(job[j]).columns
         kept == Deleted(rows, TracksOf(p))
         Item(i) == [playlist |-> p, track |-> tracks[i], position |-> i - 1]
         items == {<<p, tracks[i]>> : i \in DOMAIN tracks}
         Fits == \A i \in DOMAIN tracks : Accepts(kept, "PlaylistTrack", Item(i)) IN
     \/ /\ Fits
        /\ rows' = [x \in DOMAIN kept \cup items |->
                      IF x \in items
                      THEN [table |-> "PlaylistTrack",
                            columns |-> Item(CHOOSE i \in DOMAIN tracks : x = <<p, tracks[i]>>)]
                      ELSE kept[x]]
        /\ jumbled' = IF \E k \in Jobs \ {j} : Writes(k, p) THEN jumbled ELSE jumbled \ {p}
        /\ Proceed(j) /\ UNCHANGED <<used, trackFiles, bereft>>
     \/ ~ Fits /\ Fail(j)
  /\ NotRequests

Assigned(z, p) ==
  \E x \in Tables("PlaylistAssignment") : rows[x].columns = [playlist |-> p, target |-> z]

\* ensureZonePlaylistAssignment looks, and creates what it did not find.
RunEnsure(j) ==
  /\ Runs(j, "ensure")
  /\ LET c == Head(job[j]).columns IN
     Left(j, IF Assigned(c.target, c.playlist) THEN <<>>
             ELSE <<Assignment(c.target, c.playlist)>>)
  /\ NotRequests /\ UNCHANGED <<rows, used, trackFiles, bereft, jumbled>>

\* The file is written under a name of its own, by which its track is known here.
RunFile(j) ==
  /\ Runs(j, "file") /\ Unused("Track") # {}
  /\ LET t == NewKey("Track") IN
     /\ used' = used \cup {t} /\ trackFiles' = trackFiles \cup {t}
     /\ Left(j, WithKey(Tail(job[j]), t))
  /\ NotRequests /\ UNCHANGED <<rows, bereft, jumbled>>

RunUnlink(j) ==
  /\ Runs(j, "unlink")
  /\ trackFiles' = trackFiles \ {Head(job[j]).key}
  /\ Proceed(j) /\ NotRequests /\ UNCHANGED <<rows, used, bereft, jumbled>>

\* The backend restarts: what requests have not run is not run.
Restart ==
  /\ stops < MaxStops
  /\ \E j \in Jobs : job[j] # <<>>
  /\ stops' = stops + 1 /\ cut' = TRUE
  /\ job' = [j \in Jobs |-> <<>>]
  /\ UNCHANGED <<rows, used, trackFiles, jobs, bereft, jumbled>>

-----------------------------------------------------------------------------
OrNull(keys) == keys \cup {Null}

\* Requests about who and what there is
TenantRequests(j) ==
  LET organizations == Tables("Organization")
      locations     == Tables("Location") IN
  \E a \in Claims :
    \/ \E role \in Roles, o \in OrNull(organizations), l \in OrNull(locations) :
         \/ InviteUser(j, a, role, o, l)
         \/ \E u \in Tables("User") : EditUser(j, a, u, role, o, l)
    \/ \E u \in Tables("User") : RemoveUser(j, a, u)
    \/ CreateOrganization(j, a)
    \/ \E o \in organizations : DeleteOrganization(j, a, o) \/ CreateLocation(j, a, o)
    \/ \E l \in locations : \/ EditLocation(j, a, l) \/ DeleteLocation(j, a, l)
                           \/ CreateServer(j, a, l)
    \/ \E s \in Tables("MusicServer") : RemoveServer(j, a, s)
    \/ \E z \in Tables("Zone") : DeleteZone(j, a, z)

\* What the body of an edit of a slot may name
SlotChanges ==
  LET zones == Tables("Zone")
      playlists == Tables("Playlist") IN
  [zone : zones] \cup [playlist : playlists] \cup [zone : zones, playlist : playlists]

\* Requests about what is played
ListRequests(j) ==
  LET playlists == Tables("Playlist")
      tracks    == Tables("Track")
      orders    == {<<>>} \cup SetToSeqs(tracks) IN
  \E a \in Claims :
    \/ \E q \in orders : \/ CreatePlaylist(j, a, a.organization, q)
                         \/ \E p \in playlists : ChangePlaylist(j, a, p, q)
    \/ \E p \in playlists :
         \/ DuplicatePlaylist(j, a, p) \/ RemovePlaylist(j, a, p)
         \/ \E t \in tracks : AddTrack(j, a, p, t) \/ RemoveTrack(j, a, p, t)
         \/ \E z \in Tables("Zone") : \/ AssignTo(j, a, z, p) \/ SetZonePlaylist(j, a, z, p)
                                     \/ CreateSchedule(j, a, z, p)
         \/ \E l \in Tables("Location") : AssignTo(j, a, l, p)
    \/ \E s \in Tables("Schedule") :
         DeleteSchedule(j, a, s) \/ \E change \in SlotChanges : EditSchedule(j, a, s, change)
    \/ \E z \in Tables("Zone") : DeleteZone(j, a, z)
    \/ \E f \in OrNull(Tables("MusicFolder")) :
         UploadTrack(j, a, f) \/ \E t \in tracks : MoveTrack(j, a, t, f)
    \/ \E t \in tracks : DiscardTrack(j, a, t)
    \/ \E f \in Tables("MusicFolder") : DeleteFolder(j, a, f)
    \/ CreateFolder(j, a)

Statements(j) ==
  \/ ScopeUser(j) \/ RunCreate(j) \/ RunUpdate(j) \/ RunDelete(j) \/ RunClear(j)
  \/ RunCopy(j) \/ RunReplace(j) \/ RunEnsure(j) \/ RunFile(j) \/ RunUnlink(j)

TenantNext == Restart \/ \E j \in Jobs : \/ FreeJob(j) /\ TenantRequests(j)
                                        \/ Statements(j)
                                        \/ \E s \in Tables("MusicServer") : ReportZone(j, s)
ListNext   == Restart \/ \E j \in Jobs : (FreeJob(j) /\ ListRequests(j)) \/ Statements(j)

PortalRowsNext == TenantNext \/ ListNext
PortalRowsSpec == PortalRowsInit /\ [][PortalRowsNext]_rowVars

-----------------------------------------------------------------------------
\* Every row names one tenant: a user with a location is of the organization the location is
\* of, a server of its location's organization, a zone of its server's location; and a role
\* that is bound to a location has one, unless that was deleted since (resolveScope of
\* users.ts, POST /servers, POST /server/zones/sync; the references of schema.prisma).
TenantsAgree ==
  /\ \A u \in Tables("User") :
       LET c == rows[u].columns IN
       /\ c.location # Null => c.organization = OrganizationOf(c.location)
       /\ c.role \in LOCATION_BOUND /\ u \notin bereft => c.location # Null
       /\ c.role = "SUPER_ADMIN" => c.organization = Null /\ c.location = Null
  /\ \A s \in Tables("MusicServer") : OrganizationOf(s) = OrganizationOf(rows[s].columns.location)
  /\ \A z \in Tables("Zone") :
       rows[z].columns.location = rows[rows[z].columns.server].columns.location

\* The playlist of slot s is assigned to its zone, or is about to be by the request that wrote it,
\* unless a request was cut off.
IsOffered(s) ==
  LET z == rows[s].columns.zone
      p == rows[s].columns.playlist IN
  \/ Assigned(z, p) \/ cut
  \/ \E j \in Jobs, i \in 1 .. 2 :
       /\ i <= Len(job[j]) /\ job[j][i].table = "PlaylistAssignment"
       /\ job[j][i].columns = [playlist |-> p, target |-> z]

\* What is scheduled for a zone can be chosen there, whatever it plays now: GET
\* /zones/:id/playlists lists the playlist of each of its slots, also of those moved from zone
\* to zone, unless it was the zone alone that was named (ensureZonePlaylistAssignment of
\* schedules.ts).
ScheduledIsOffered == \A s \in Tables("Schedule") : s \notin bereft => IsOffered(s)

\* schedules.ts:9-18: without the assignment, "a newly-scheduled playlist would never show up in
\* the zone's own 'assign playlist' picker". A slot moved by its zone alone goes without it.
MovedIsOffered == \A s \in Tables("Schedule") : IsOffered(s)

\* The tracks of a playlist have one order: no two share a position, unless one was taken out
\* or two edits of the playlist overlapped since its tracks were last replaced
\* (routes/playlists.ts, which adds a track at the number of tracks).
OrderIsTotal ==
  \A x, y \in Tables("PlaylistTrack") :
    LET c == rows[x].columns
        d == rows[y].columns IN
    x # y /\ c.playlist = d.playlist /\ c.playlist \notin jumbled => c.position # d.position

\* A track that is listed has its file, unless it is about to be deleted or a restart came
\* between its file and its row (routes/music.ts).
TrackHasFile ==
  \A t \in Tables("Track") :
    \/ t \in trackFiles \/ cut
    \/ \E j \in Jobs : Runs(j, "delete") /\ Head(job[j]).key = t

\* What people listen to is in order: what is scheduled is offered, a playlist has one order,
\* and a track has its file, however requests interleave (routes/schedules.ts, playlists.ts,
\* music.ts).
ListsAgree == ScheduledIsOffered /\ OrderIsTotal /\ TrackHasFile
=============================================================================
