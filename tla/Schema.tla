-------------------------------- MODULE Schema --------------------------------
(***************************************************************************)
(* The tables of the portal's database as the backend is written for them   *)
(* (backend/prisma/schema.prisma), and the references between their rows.     *)
(*                                                                         *)
(* A database is a function from the keys of the rows there are to the rows. *)
(* A row has its table, and its columns of which only those that another     *)
(* module asks about are kept.                                              *)
(***************************************************************************)
EXTENDS Integers, FiniteSets

CONSTANT Null

SetNull(table) == [to |-> table, rule |-> "SetNull"]
Cascade(table) == [to |-> table, rule |-> "Cascade"]

\* The references of each table, by column. A column that holds a key without being one of
\* these (PlaylistAssignment.targetId, Zone.currentTrackId, PrayerConfig.linkedLocationId,
\* Alert.locationId, Track.uploadedById, RemoteCommand.issuedById) outlives its row.
User               == [organization |-> SetNull("Organization"), location |-> SetNull("Location")]
RefreshToken       == [user |-> Cascade("User")]
EqPreset           == [organization |-> Cascade("Organization")]
Location           == [organization |-> Cascade("Organization")]
MusicServer        == [organization |-> Cascade("Organization"), location |-> Cascade("Location")]
AgentLink          == [server |-> Cascade("MusicServer")]
Zone               == [server |-> Cascade("MusicServer"), location |-> Cascade("Location"),
                       currentPlaylist |-> SetNull("Playlist")]
Track              == [folder |-> SetNull("MusicFolder")]
Playlist           == [organization |-> Cascade("Organization")]
PlaylistTrack      == [playlist |-> Cascade("Playlist"), track |-> Cascade("Track")]
PlaylistAssignment == [playlist |-> Cascade("Playlist")]
TrackSyncState     == [track |-> Cascade("Track"), server |-> Cascade("MusicServer")]
Schedule           == [zone |-> Cascade("Zone"), playlist |-> Cascade("Playlist")]
RemoteCommand      == [server |-> Cascade("MusicServer"), zone |-> SetNull("Zone")]
PrayerConfig       == [organization |-> Cascade("Organization")]
LogEntry           == [server |-> Cascade("MusicServer")]
Alert              == [server |-> SetNull("MusicServer")]

NoReferences == [c \in {} |-> Null]

Models ==
  [User |-> User, RefreshToken |-> RefreshToken, Organization |-> NoReferences,
   EqPreset |-> EqPreset, Location |-> Location, MusicServer |-> MusicServer,
   AgentLink |-> AgentLink, Zone |-> Zone, Track |-> Track, MusicFolder |-> NoReferences,
   Playlist |-> Playlist, PlaylistTrack |-> PlaylistTrack,
   PlaylistAssignment |-> PlaylistAssignment, TrackSyncState |-> TrackSyncState,
   Schedule |-> Schedule, RemoteCommand |-> RemoteCommand, PrayerConfig |-> PrayerConfig,
   LogEntry |-> LogEntry, Alert |-> Alert]

Rows(db, table) == {x \in DOMAIN db : db[x].table = table}

\* The references that a row can do without; a playlist of no organization is everyone's.
Optional(table, c) ==
  Models[table][c].rule = "SetNull" \/ <<table, c>> = <<"Playlist", "organization">>

\* A row is in order if the rows that its references name are there.
Satisfied(db, table, columns) ==
  \A c \in DOMAIN Models[table] :
    \/ columns[c] = Null /\ Optional(table, c)
    \/ columns[c] \in Rows(db, Models[table][c].to)
=============================================================================
