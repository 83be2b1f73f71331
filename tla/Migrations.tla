------------------------------ MODULE Migrations ------------------------------
(***************************************************************************)
(* The database as the migrations make it (backend/prisma/migrations): the  *)
(* tables, which of their references may be empty, and the foreign keys that *)
(* decide what a deletion takes along.  The backend is written for the       *)
(* tables of schema.prisma (Schema); it is these that run.                   *)
(*                                                                         *)
(* A database is a function from the keys of the rows there are to the rows. *)
(***************************************************************************)
EXTENDS Schema

\* A foreign key: a column, the table it refers to, and what follows a deletion there.
ForeignKey(table, column, to, rule) ==
  [table |-> table, column |-> column, to |-> to, rule |-> rule]

\* The tables of the first migration, each with its references that may be empty.
InitAccounts ==
  [User |-> {"organization"}, RefreshToken |-> {}, Organization |-> {}, Location |-> {},
   MusicServer |-> {}]
InitMusic ==
  [Zone |-> {"currentPlaylist"}, Track |-> {}, Playlist |-> {"organization"},
   PlaylistTrack |-> {}, PlaylistAssignment |-> {}, TrackSyncState |-> {}]
InitRecords ==
  [Schedule |-> {}, RemoteCommand |-> {"zone"}, PrayerConfig |-> {}, LogEntry |-> {},
   Alert |-> {"server"}, ActivityEvent |-> {}]

InitKeys ==
  LET Owned(table, column, to)  == ForeignKey(table, column, to, "Cascade")
      Loose(table, column, to)  == ForeignKey(table, column, to, "SetNull") IN
  {Loose("User", "organization", "Organization"),
   Owned("RefreshToken", "user", "User"),
   Owned("Location", "organization", "Organization"),
   Owned("MusicServer", "organization", "Organization"),
   Owned("MusicServer", "location", "Location"),
   Owned("Zone", "server", "MusicServer"),
   Owned("Zone", "location", "Location"),
   Loose("Zone", "currentPlaylist", "Playlist"),
   Owned("Playlist", "organization", "Organization"),
   Owned("PlaylistTrack", "playlist", "Playlist"),
   Owned("PlaylistTrack", "track", "Track"),
   Owned("PlaylistAssignment", "playlist", "Playlist"),
   Owned("TrackSyncState", "track", "Track"),
   Owned("TrackSyncState", "server", "MusicServer"),
   Owned("Schedule", "zone", "Zone"),
   Owned("Schedule", "playlist", "Playlist"),
   Owned("RemoteCommand", "server", "MusicServer"),
   Loose("RemoteCommand", "zone", "Zone"),
   Owned("PrayerConfig", "organization", "Organization"),
   Owned("LogEntry", "server", "MusicServer"),
   Loose("Alert", "server", "MusicServer")}

\* What a migration adds: groups of tables, columns for references that may be empty, and
\* foreign keys.
InitMigration ==
  [tables |-> {InitAccounts, InitMusic, InitRecords}, columns |-> {}, keys |-> InitKeys]

\* Planted defect: the column comes without its foreign key.
AddMusicFoldersLoose ==
  [tables |-> {[MusicFolder |-> {}]}, columns |-> {<<"Track", "folder">>}, keys |-> {}]

AddMusicFolders ==
  [tables |-> {[MusicFolder |-> {}]}, columns |-> {<<"Track", "folder">>},
   keys |-> {ForeignKey("Track", "folder", "MusicFolder", "SetNull")}]

AgentLinkAndZoneMapping ==
  [tables |-> {[AgentLink |-> {}]}, columns |-> {},
   keys |-> {ForeignKey("AgentLink", "server", "MusicServer", "Cascade")}]

AddUserLocation ==
  [tables |-> {}, columns |-> {<<"User", "location">>},
   keys |-> {ForeignKey("User", "location", "Location", "SetNull")}]

AddEqPresets ==
  [tables |-> {[EqPreset |-> {}]}, columns |-> {},
   keys |-> {ForeignKey("EqPreset", "organization", "Organization", "Cascade")}]

\* The others add no table and no reference.
Deployed == {InitMigration, AddMusicFolders, AgentLinkAndZoneMapping, AddUserLocation, AddEqPresets}

-----------------------------------------------------------------------------
Enforced == UNION {m.keys : m \in Deployed}

Groups == UNION {m.tables : m \in Deployed}

\* The foreign keys of each table, by column.
References ==
  LET tables == UNION {DOMAIN g : g \in Groups}
      Of(t)  == {k \in Enforced : k.table = t} IN
  [t \in tables |-> [c \in {k.column : k \in Of(t)} |-> CHOOSE k \in Of(t) : k.column = c]]

MayBeNull ==
  (UNION {m.columns : m \in Deployed})
    \cup (UNION {UNION {{t} \X g[t] : t \in DOMAIN g} : g \in Groups})

\* A row may be written if the rows that its references name are there.
Accepts(db, table, columns) ==
  \A c \in DOMAIN References[table] :
    \/ columns[c] = Null /\ <<table, c>> \in MayBeNull
    \/ columns[c] \in Rows(db, References[table][c].to)

\* The row x refers to a row of the set gone, and goes with it.
GoesWith(db, x, gone) ==
  \E k \in Enforced : /\ k.table = db[x].table /\ k.rule = "Cascade"
                      /\ db[x].columns[k.column] \in gone

\* What is deleted along with the rows of a set, and with those, and so on.
Doomed(db, rows) ==
  LET after[n \in 0 .. Cardinality(DOMAIN db)] ==
        IF n = 0 THEN rows
        ELSE after[n - 1] \cup {x \in DOMAIN db : GoesWith(db, x, after[n - 1])}
      depth == CHOOSE n \in 0 .. Cardinality(DOMAIN db) :
                 n = Cardinality(DOMAIN db) \/ after[n] = after[n + 1]
  IN  after[depth]

\* The database without the rows of a set: rows that cannot do without them go with them, and
\* the references of others are emptied.
Deleted(db, rows) ==
  LET gone == Doomed(db, rows)
      Emptied(x) ==
        [c \in DOMAIN db[x].columns |->
           IF c \in DOMAIN References[db[x].table] /\ db[x].columns[c] \in gone THEN Null
           ELSE db[x].columns[c]]
  IN  [x \in DOMAIN db \ gone |-> [db[x] EXCEPT !.columns = Emptied(x)]]

Inserted(db, x, table, columns) ==
  [y \in DOMAIN db \cup {x} |-> IF y = x THEN [table |-> table, columns |-> columns] ELSE db[y]]

Updated(db, x, columns) ==
  LET old == db[x].columns IN
  [db EXCEPT ![x].columns = [c \in DOMAIN old |-> IF c \in DOMAIN columns THEN columns[c]
                                                  ELSE old[c]]]
=============================================================================
