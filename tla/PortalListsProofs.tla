-------------------------- MODULE PortalListsProofs --------------------------
(***************************************************************************)
(* For any rows, callers and requests that overlap, and any restarts: every  *)
(* reference in the portal's database names a row that is there; what is     *)
(* scheduled is assigned, playlists have one order and tracks their files,   *)
(* or a request in progress is about to see to it.                           *)
(***************************************************************************)
EXTENDS PortalRowsProofs

-----------------------------------------------------------------------------
(* The tables and their references                                         *)

\* A foreign key is the reference of that name in the schema.
LEMMA KeysAreModels ==
  \A k \in Enforced :
    /\ k.table \in DOMAIN Models /\ k.column \in DOMAIN Models[k.table]
    /\ Models[k.table][k.column].to = k.to /\ Models[k.table][k.column].rule = k.rule
<1> DEFINE Fits(k) ==
      /\ k.table \in DOMAIN Models /\ k.column \in DOMAIN Models[k.table]
      /\ Models[k.table][k.column].to = k.to /\ Models[k.table][k.column].rule = k.rule
<1>1. ASSUME NEW t, NEW c, NEW to, NEW r, t \in DOMAIN Models, c \in DOMAIN Models[t],
             Models[t][c].to = to, Models[t][c].rule = r
      PROVE  Fits(ForeignKey(t, c, to, r))
  BY <1>1 DEF ForeignKey
<1> HIDE DEF Fits
<1>2. /\ Fits(ForeignKey("User", "organization", "Organization", "SetNull"))
      /\ Fits(ForeignKey("User", "location", "Location", "SetNull"))
      /\ Fits(ForeignKey("RefreshToken", "user", "User", "Cascade"))
  BY <1>1 DEF Models, User, RefreshToken, SetNull, Cascade
<1>3. /\ Fits(ForeignKey("EqPreset", "organization", "Organization", "Cascade"))
      /\ Fits(ForeignKey("Location", "organization", "Organization", "Cascade"))
      /\ Fits(ForeignKey("MusicServer", "organization", "Organization", "Cascade"))
      /\ Fits(ForeignKey("MusicServer", "location", "Location", "Cascade"))
      /\ Fits(ForeignKey("AgentLink", "server", "MusicServer", "Cascade"))
  BY <1>1 DEF Models, EqPreset, Location, MusicServer, AgentLink, Cascade
<1>4. /\ Fits(ForeignKey("Zone", "server", "MusicServer", "Cascade"))
      /\ Fits(ForeignKey("Zone", "location", "Location", "Cascade"))
      /\ Fits(ForeignKey("Zone", "currentPlaylist", "Playlist", "SetNull"))
      /\ Fits(ForeignKey("Track", "folder", "MusicFolder", "SetNull"))
      /\ Fits(ForeignKey("Playlist", "organization", "Organization", "Cascade"))
  BY <1>1 DEF Models, Zone, Track, Playlist, SetNull, Cascade
<1>5. /\ Fits(ForeignKey("PlaylistTrack", "playlist", "Playlist", "Cascade"))
      /\ Fits(ForeignKey("PlaylistTrack", "track", "Track", "Cascade"))
      /\ Fits(ForeignKey("PlaylistAssignment", "playlist", "Playlist", "Cascade"))
      /\ Fits(ForeignKey("TrackSyncState", "track", "Track", "Cascade"))
      /\ Fits(ForeignKey("TrackSyncState", "server", "MusicServer", "Cascade"))
  BY <1>1 DEF Models, PlaylistTrack, PlaylistAssignment, TrackSyncState, Cascade
<1>6. /\ Fits(ForeignKey("Schedule", "zone", "Zone", "Cascade"))
      /\ Fits(ForeignKey("Schedule", "playlist", "Playlist", "Cascade"))
      /\ Fits(ForeignKey("RemoteCommand", "server", "MusicServer", "Cascade"))
      /\ Fits(ForeignKey("RemoteCommand", "zone", "Zone", "SetNull"))
  BY <1>1 DEF Models, Schedule, RemoteCommand, SetNull, Cascade
<1>7. /\ Fits(ForeignKey("PrayerConfig", "organization", "Organization", "Cascade"))
      /\ Fits(ForeignKey("LogEntry", "server", "MusicServer", "Cascade"))
      /\ Fits(ForeignKey("Alert", "server", "MusicServer", "SetNull"))
  BY <1>1 DEF Models, PrayerConfig, LogEntry, Alert, SetNull, Cascade
<1>8. \A k \in Enforced : Fits(k)
  BY <1>2, <1>3, <1>4, <1>5, <1>6, <1>7, EnforcedAre DEF InitKeys
<1> QED
  BY <1>8 DEF Fits

\* A reference in the schema is a foreign key.
LEMMA ModelsAreKeys ==
  ASSUME NEW t \in DOMAIN Models, NEW c \in DOMAIN Models[t]
  PROVE  \E k \in Enforced : k.table = t /\ k.column = c
<1> DEFINE Has(u, d) == \E k \in Enforced : k.table = u /\ k.column = d
<1>1. ASSUME NEW u, NEW d, NEW to, NEW r, ForeignKey(u, d, to, r) \in Enforced
      PROVE  Has(u, d)
  BY <1>1 DEF ForeignKey
<1> HIDE DEF Has
<1>2. /\ Has("User", "organization") /\ Has("User", "location") /\ Has("RefreshToken", "user")
      /\ Has("EqPreset", "organization") /\ Has("Location", "organization")
      /\ Has("MusicServer", "organization") /\ Has("MusicServer", "location")
      /\ Has("AgentLink", "server") /\ Has("Zone", "server") /\ Has("Zone", "location")
      /\ Has("Zone", "currentPlaylist") /\ Has("Track", "folder")
      /\ Has("Playlist", "organization")
  BY <1>1, EnforcedAre DEF InitKeys
<1>3. /\ Has("PlaylistTrack", "playlist") /\ Has("PlaylistTrack", "track")
      /\ Has("PlaylistAssignment", "playlist") /\ Has("TrackSyncState", "track")
      /\ Has("TrackSyncState", "server") /\ Has("Schedule", "zone") /\ Has("Schedule", "playlist")
      /\ Has("RemoteCommand", "server") /\ Has("RemoteCommand", "zone")
      /\ Has("PrayerConfig", "organization") /\ Has("LogEntry", "server") /\ Has("Alert", "server")
  BY <1>1, EnforcedAre DEF InitKeys
<1>4. Has(t, c)
  BY <1>2, <1>3 DEF Models, User, RefreshToken, EqPreset, Location, MusicServer, AgentLink, Zone,
     Track, Playlist, PlaylistTrack, PlaylistAssignment, TrackSyncState, Schedule, RemoteCommand,
     PrayerConfig, LogEntry, Alert, NoReferences
<1> QED
  BY <1>4 DEF Has

\* The references that may be empty.
LEMMA NullsAre ==
  MayBeNull = {<<"User", "organization">>, <<"User", "location">>, <<"Zone", "currentPlaylist">>,
               <<"Track", "folder">>, <<"Playlist", "organization">>, <<"RemoteCommand", "zone">>,
               <<"Alert", "server">>}
<1> DEFINE Added == UNION {m.columns : m \in Deployed}
           Of(g) == UNION {{t} \X g[t] : t \in DOMAIN g}
           Empty == {<<"User", "organization">>, <<"User", "location">>,
                     <<"Zone", "currentPlaylist">>, <<"Track", "folder">>,
                     <<"Playlist", "organization">>, <<"RemoteCommand", "zone">>,
                     <<"Alert", "server">>}
<1>1. Added = {<<"Track", "folder">>, <<"User", "location">>}
  BY DEF Deployed, InitMigration, AddMusicFolders, AgentLinkAndZoneMapping, AddUserLocation,
         AddEqPresets
<1>2. MayBeNull = Added \cup (UNION {Of(g) : g \in Groups})
  BY DEF MayBeNull
<1>3. ASSUME NEW g, NEW t \in DOMAIN g, NEW c \in g[t]
      PROVE  <<t, c>> \in Of(g)
  BY <1>3
<1>4. ASSUME NEW g, NEW x \in Of(g)
      PROVE  \E t \in DOMAIN g : \E c \in g[t] : x = <<t, c>>
  BY <1>4
<1> HIDE DEF Added, Of
<1>5. ASSUME NEW g \in Groups, NEW t \in DOMAIN g, NEW c \in g[t]
      PROVE  <<t, c>> \in Empty
  BY <1>5, GroupsAre DEF InitAccounts, InitMusic, InitRecords
<1>6. /\ <<"User", "organization">> \in Of(InitAccounts)
      /\ <<"Zone", "currentPlaylist">> \in Of(InitMusic)
      /\ <<"Playlist", "organization">> \in Of(InitMusic)
      /\ <<"RemoteCommand", "zone">> \in Of(InitRecords)
      /\ <<"Alert", "server">> \in Of(InitRecords)
  BY <1>3 DEF InitAccounts, InitMusic, InitRecords
<1>7. InitAccounts \in Groups /\ InitMusic \in Groups /\ InitRecords \in Groups
  BY GroupsAre
<1>8. \A x \in MayBeNull : x \in Empty
  BY <1>1, <1>2, <1>4, <1>5
<1>9. \A x \in Empty : x \in MayBeNull
  BY <1>1, <1>2, <1>6, <1>7
<1> QED
  BY <1>8, <1>9

\* What follows a deletion, and which references do not bear it.
LEMMA RulesAre ==
  /\ \A k \in Enforced : \/ k.rule = "Cascade"
                         \/ k.rule = "SetNull" /\ <<k.table, k.column>> \in MayBeNull
  /\ \A k \in Enforced : k.to \notin {"PlaylistTrack", "PlaylistAssignment", "Schedule"}
<1> DEFINE Fits(k) == /\ \/ k.rule = "Cascade"
                         \/ k.rule = "SetNull" /\ <<k.table, k.column>> \in MayBeNull
                      /\ k.to \notin {"PlaylistTrack", "PlaylistAssignment", "Schedule"}
<1>1. ASSUME NEW t, NEW c, NEW to, to \notin {"PlaylistTrack", "PlaylistAssignment", "Schedule"}
      PROVE  /\ Fits(ForeignKey(t, c, to, "Cascade"))
             /\ <<t, c>> \in MayBeNull => Fits(ForeignKey(t, c, to, "SetNull"))
  BY <1>1 DEF ForeignKey
<1> HIDE DEF Fits
<1>2. \A k \in InitKeys : Fits(k)
  BY <1>1, NullsAre DEF InitKeys
<1>3. /\ Fits(ForeignKey("Track", "folder", "MusicFolder", "SetNull"))
      /\ Fits(ForeignKey("AgentLink", "server", "MusicServer", "Cascade"))
      /\ Fits(ForeignKey("User", "location", "Location", "SetNull"))
      /\ Fits(ForeignKey("EqPreset", "organization", "Organization", "Cascade"))
  BY <1>1, NullsAre
<1>4. \A k \in Enforced : Fits(k)
  BY <1>2, <1>3, EnforcedAre
<1> QED
  BY <1>4 DEF Fits

\* The references that may be empty are those the backend takes for such.
LEMMA OptionalAre ==
  ASSUME NEW t \in DOMAIN Models, NEW c \in DOMAIN Models[t]
  PROVE  Optional(t, c) <=> <<t, c>> \in MayBeNull
<1>1. ASSUME Models[t][c].rule = "SetNull"
      PROVE  <<t, c>> \in MayBeNull
  <2>1. PICK k \in Enforced : k.table = t /\ k.column = c
    BY ModelsAreKeys
  <2>2. k.rule = "SetNull"
    BY <1>1, <2>1, KeysAreModels
  <2> QED
    BY <2>1, <2>2, RulesAre
<1>2. ASSUME <<t, c>> \in MayBeNull, <<t, c>> # <<"Playlist", "organization">>
      PROVE  Models[t][c].rule = "SetNull"
  BY <1>2, NullsAre DEF Models, User, Zone, Track, RemoteCommand, Alert, SetNull
<1>3. <<"Playlist", "organization">> \in MayBeNull
  BY NullsAre
<1> QED
  BY <1>1, <1>2, <1>3 DEF Optional

\* The groups of tables are all the tables there are.
LEMMA TablesAre == DOMAIN Models \subseteq UNION {DOMAIN g : g \in Groups}
<1>1. /\ DOMAIN InitAccounts = {"User", "RefreshToken", "Organization", "Location", "MusicServer"}
      /\ DOMAIN InitMusic = {"Zone", "Track", "Playlist", "PlaylistTrack", "PlaylistAssignment",
                             "TrackSyncState"}
      /\ DOMAIN InitRecords = {"Schedule", "RemoteCommand", "PrayerConfig", "LogEntry", "Alert",
                               "ActivityEvent"}
      /\ DOMAIN [MusicFolder |-> {}] = {"MusicFolder"} /\ DOMAIN [AgentLink |-> {}] = {"AgentLink"}
      /\ DOMAIN [EqPreset |-> {}] = {"EqPreset"}
  BY DEF InitAccounts, InitMusic, InitRecords
<1>2. DOMAIN Models = {"User", "RefreshToken", "Organization", "EqPreset", "Location",
        "MusicServer", "AgentLink", "Zone", "Track", "MusicFolder", "Playlist", "PlaylistTrack",
        "PlaylistAssignment", "TrackSyncState", "Schedule", "RemoteCommand", "PrayerConfig",
        "LogEntry", "Alert"}
  BY DEF Models
<1> QED
  BY <1>1, <1>2, GroupsAre

\* The references of any table are its foreign keys.
LEMMA TableReferences ==
  ASSUME NEW t \in DOMAIN Models
  PROVE  /\ DOMAIN References[t] = DOMAIN Models[t]
         /\ \A k \in Enforced : k.table = t => References[t][k.column].to = k.to
<1> DEFINE Of(u) == {k \in Enforced : k.table = u}
           Cols(u) == [c \in {k.column : k \in Of(u)} |-> CHOOSE k \in Of(u) : k.column = c]
<1>1. References = [u \in UNION {DOMAIN g : g \in Groups} |-> Cols(u)]
  BY DEF References
<1>2. References[t] = Cols(t)
  BY <1>1, TablesAre
<1>3. DOMAIN Cols(t) = DOMAIN Models[t]
  <2>1. \A k \in Of(t) : k.column \in DOMAIN Models[t]
    BY KeysAreModels
  <2>2. \A c \in DOMAIN Models[t] : \E k \in Of(t) : k.column = c
    BY ModelsAreKeys
  <2>3. DOMAIN Cols(t) = {k.column : k \in Of(t)}
    OBVIOUS
  <2> DEFINE columns == DOMAIN Cols(t)
             names == DOMAIN Models[t]
  <2> HIDE DEF Of, Cols
  <2>4. \A c \in columns : c \in names
    BY <2>1, <2>3
  <2>5. \A c \in names : c \in columns
    BY <2>2, <2>3
  <2> QED
    BY <2>4, <2>5
<1>4. ASSUME NEW k \in Enforced, k.table = t
      PROVE  Cols(t)[k.column].to = k.to
  <2>1. k \in Of(t)
    BY <1>4
  <2> DEFINE j == CHOOSE i \in Of(t) : i.column = k.column
  <2>2. j \in Of(t) /\ j.column = k.column
    BY <2>1
  <2>3. Cols(t)[k.column] = j
    BY <2>1
  <2>4. j.to = Models[t][k.column].to /\ k.to = Models[t][k.column].to
    BY <1>4, <2>2, KeysAreModels
  <2> QED
    BY <2>3, <2>4
<1> QED
  BY <1>2, <1>3, <1>4

-----------------------------------------------------------------------------
(* Databases whose references name rows that are there                     *)

\* What a foreign key may hold.
NamesRow(db, k, v) ==
  \/ v = Null /\ <<k.table, k.column>> \in MayBeNull
  \/ v \in Rows(db, k.to)

RefersOK(db, t, columns) ==
  \A k \in Enforced : k.table = t => /\ k.column \in DOMAIN columns
                                     /\ NamesRow(db, k, columns[k.column])

RefsOK(db) ==
  \A x \in DOMAIN db : db[x].table \in DOMAIN Models /\ RefersOK(db, db[x].table, db[x].columns)

\* A row that the database accepts names rows that are there.
LEMMA AcceptedRefers ==
  ASSUME NEW db, NEW t \in DOMAIN Models, NEW columns, Accepts(db, t, columns),
         DOMAIN Models[t] \subseteq DOMAIN columns
  PROVE  RefersOK(db, t, columns)
<1> SUFFICES ASSUME NEW k \in Enforced, k.table = t
             PROVE  k.column \in DOMAIN columns /\ NamesRow(db, k, columns[k.column])
  BY DEF RefersOK
<1>1. k.column \in DOMAIN Models[t]
  BY KeysAreModels
<1>2. k.column \in DOMAIN References[t] /\ References[t][k.column].to = k.to
  BY <1>1, TableReferences
<1> QED
  BY <1>1, <1>2 DEF Accepts, NamesRow

\* What the schema says of a row, and what its references name, are the same.
LEMMA SatisfiedRefers ==
  ASSUME NEW db, NEW t \in DOMAIN Models, NEW columns
  PROVE  /\ RefersOK(db, t, columns) => Satisfied(db, t, columns)
         /\ DOMAIN Models[t] \subseteq DOMAIN columns /\ Satisfied(db, t, columns)
              => RefersOK(db, t, columns)
<1>1. ASSUME RefersOK(db, t, columns), NEW c \in DOMAIN Models[t]
      PROVE  \/ columns[c] = Null /\ Optional(t, c)
             \/ columns[c] \in Rows(db, Models[t][c].to)
  <2>1. PICK k \in Enforced : k.table = t /\ k.column = c
    BY ModelsAreKeys
  <2>2. NamesRow(db, k, columns[c]) /\ k.to = Models[t][c].to
    BY <1>1, <2>1, KeysAreModels DEF RefersOK
  <2> QED
    BY <2>1, <2>2, OptionalAre DEF NamesRow
<1>2. ASSUME DOMAIN Models[t] \subseteq DOMAIN columns, Satisfied(db, t, columns),
             NEW k \in Enforced, k.table = t
      PROVE  k.column \in DOMAIN columns /\ NamesRow(db, k, columns[k.column])
  <2>1. k.column \in DOMAIN Models[t] /\ Models[t][k.column].to = k.to
    BY <1>2, KeysAreModels
  <2> QED
    BY <1>2, <2>1, OptionalAre DEF Satisfied, NamesRow
<1> QED
  BY <1>1, <1>2 DEF Satisfied, RefersOK

\* Where there are more rows, what was named is named.
LEMMA RefersStays ==
  ASSUME NEW db, NEW later, \A t : Rows(db, t) \subseteq Rows(later, t), NEW t, NEW columns,
         RefersOK(db, t, columns)
  PROVE  RefersOK(later, t, columns)
BY DEF RefersOK, NamesRow

\* A row that is created names rows that are there.
LEMMA RefsInserted ==
  ASSUME NEW db, RefsOK(db), NEW x, x \notin DOMAIN db, NEW t \in DOMAIN Models, NEW columns,
         DOMAIN Models[t] \subseteq DOMAIN columns, Accepts(db, t, columns)
  PROVE  RefsOK(Inserted(db, x, t, columns))
<1> DEFINE later == Inserted(db, x, t, columns)
<1>1. DOMAIN later = DOMAIN db \cup {x} /\ \A y \in DOMAIN db : later[y] = db[y]
  BY DEF Inserted
<1>2. later[x].table = t /\ later[x].columns = columns
  BY DEF Inserted
<1> HIDE DEF later
<1>3. \A u : Rows(db, u) \subseteq Rows(later, u)
  BY <1>1 DEF Rows
<1>4. RefersOK(later, t, columns)
  BY <1>3, AcceptedRefers, RefersStays
<1>5. \A y \in DOMAIN db : RefersOK(later, db[y].table, db[y].columns)
  BY <1>3, RefersStays DEF RefsOK
<1>6. RefsOK(later)
  BY <1>1, <1>2, <1>4, <1>5 DEF RefsOK
<1> QED
  BY <1>6 DEF later

\* So does one that is written.
LEMMA RefsUpdated ==
  ASSUME NEW db, RefsOK(db), NEW x \in DOMAIN db, NEW columns, NEW later,
         IsUpdated(db, x, columns, later), Accepts(later, db[x].table, later[x].columns)
  PROVE  RefsOK(later)
<1>1. /\ DOMAIN later = DOMAIN db /\ \A y \in DOMAIN db : later[y].table = db[y].table
      /\ \A y \in DOMAIN db : y # x => later[y] = db[y]
      /\ DOMAIN later[x].columns = DOMAIN db[x].columns
  BY DEF IsUpdated
<1>2. \A u : Rows(db, u) \subseteq Rows(later, u)
  BY <1>1 DEF Rows
<1>3. DOMAIN Models[db[x].table] \subseteq DOMAIN db[x].columns /\ db[x].table \in DOMAIN Models
  BY ModelsAreKeys DEF RefsOK, RefersOK
<1>4. RefersOK(later, db[x].table, later[x].columns)
  BY <1>1, <1>3, AcceptedRefers
<1>5. \A y \in DOMAIN db : RefersOK(later, db[y].table, db[y].columns)
  BY <1>2, RefersStays DEF RefsOK
<1> QED
  BY <1>1, <1>4, <1>5 DEF RefsOK

\* A deletion empties the references to what it takes, or takes the row.
LEMMA RefsDeleted ==
  ASSUME NEW db, IsFiniteSet(DOMAIN db), \A x \in DOMAIN db : DOMAIN db[x] = {"table", "columns"},
         RefsOK(db), NEW X
  PROVE  RefsOK(Deleted(db, X))
<1> DEFINE gone == Doomed(db, X)
           later == Deleted(db, X)
<1>1. Closed(db, gone)
  BY DoomedLeast
<1>2. IsLeft(db, gone, later)
  BY DeletedAre
<1> HIDE DEF gone, later
<1>3. \A u : \A y \in Rows(db, u) : y \notin gone => y \in Rows(later, u)
  BY <1>2 DEF Rows, IsLeft
<1>4. ASSUME NEW x \in DOMAIN later, NEW k \in Enforced, k.table = later[x].table
      PROVE  k.column \in DOMAIN later[x].columns /\ NamesRow(later, k, later[x].columns[k.column])
  <2>1. x \in DOMAIN db /\ x \notin gone /\ k.table = db[x].table
    BY <1>2, <1>4 DEF IsLeft
  <2>2. k.column \in DOMAIN db[x].columns /\ NamesRow(db, k, db[x].columns[k.column])
    BY <2>1 DEF RefsOK, RefersOK
  <2>3. k.column \in DOMAIN References[db[x].table]
    BY <2>1, TableReferences, KeysAreModels
  <2> DEFINE v == db[x].columns[k.column]
  <2>4. k.column \in DOMAIN later[x].columns
        /\ later[x].columns[k.column] = IF v \in gone THEN Null ELSE v
    BY <1>2, <2>1, <2>2, <2>3 DEF IsLeft
  <2>5. v \in gone => k.rule # "Cascade"
    BY <1>1, <2>1, Stays
  <2>6. v \in gone => <<k.table, k.column>> \in MayBeNull
    BY <2>5, RulesAre
  <2>7. v \notin gone => NamesRow(later, k, v)
    BY <1>3, <2>2 DEF NamesRow
  <2> QED
    BY <2>4, <2>6, <2>7 DEF NamesRow
<1>5. \A x \in DOMAIN later : later[x].table \in DOMAIN Models
  BY <1>2 DEF IsLeft, RefsOK
<1> QED
  BY <1>4, <1>5 DEF RefsOK, RefersOK, later

\* Nothing refers to a track in a playlist, an assignment or a slot: they go alone.
LEMMA GoAlone ==
  ASSUME NEW db, IsFiniteSet(DOMAIN db), RefsOK(db), Null \notin DOMAIN db, NEW X,
         \A x \in X : x \in DOMAIN db /\ db[x].table \in {"PlaylistTrack", "PlaylistAssignment", "Schedule"}
  PROVE  /\ Doomed(db, X) = X
         /\ \A x \in DOMAIN db : \A k \in Enforced :
              k.table = db[x].table => db[x].columns[k.column] \notin X
<1>1. ASSUME NEW x \in DOMAIN db, NEW k \in Enforced, k.table = db[x].table
      PROVE  db[x].columns[k.column] \notin X
  <2> DEFINE v == db[x].columns[k.column]
  <2>1. NamesRow(db, k, v)
    BY <1>1 DEF RefsOK, RefersOK
  <2>2. k.to \notin {"PlaylistTrack", "PlaylistAssignment", "Schedule"}
    BY RulesAre
  <2> HIDE DEF v
  <2>3. v \notin X
    BY <2>1, <2>2 DEF NamesRow, Rows
  <2> QED
    BY <2>3 DEF v
<1>2. Closed(db, X)
  BY <1>1 DEF Closed, GoesWith
<1>3. X \subseteq Doomed(db, X) /\ Doomed(db, X) \subseteq X
  BY <1>2, DoomedLeast
<1> QED
  BY <1>1, <1>3

-----------------------------------------------------------------------------
(* What requests have yet to run                                           *)

\* Statements are of tables there are, and name the columns and the rows that they should.
StatementOK(given, s) ==
  /\ s.op \in Ops
  /\ s.op = "create" => /\ s.table \in DOMAIN Models
                        /\ DOMAIN Models[s.table] \subseteq DOMAIN s.columns
  /\ s.op \in {"update", "delete"} => /\ s.table \in DOMAIN Keys \ {"PlaylistAssignment"}
                                      /\ s.key \in KeysOf(s.table) \cap given
  /\ s.table = "PlaylistTrack" =>
       /\ s.op \in {"create", "clear"} /\ s.columns.playlist \in given
       /\ \E t : s.key = <<s.columns.playlist, t>>
       /\ s.op = "create" => \E p, t : \E n \in Nat :
            s.key = <<p, t>> /\ s.columns = [playlist |-> p, track |-> t, position |-> n]
  /\ s.table = "PlaylistAssignment" =>
       s.op \in {"create", "ensure"} /\ \E p, z : s.columns = [playlist |-> p, target |-> z]
  /\ s.table = "Schedule" /\ s.op = "create" =>
       \E z, p : s.columns = [zone |-> z, playlist |-> p]
  /\ s.table = "Schedule" /\ s.op = "update" => MovesSlot(s) \/ NamesPlaylist(s)
  /\ s.op = "replace" => s.table = "Playlist" /\ s.key \in given \cup {New}
  /\ s.op = "copy" => s.table = "Playlist" /\ "organization" \in DOMAIN s.columns
  /\ s.op = "clear" => s.table = "PlaylistTrack"
  /\ s.op = "ensure" => s.table = "PlaylistAssignment"
  /\ s.op \in {"file", "unlink"} => s.table = "Track"
  /\ s.op = "unlink" => s.key \in KeysOf("Track") \cap given
  /\ s.op = "scope" => s.table = "User" /\ s.key \in KeysOf("User") \cap given

\* What comes after a statement.
Follows(s, rest) ==
  /\ s.table = "Schedule" /\ s.op = "create" =>
       \E t : /\ rest = <<t>> /\ t.op = "ensure"
              /\ t.columns.playlist = s.columns.playlist
              /\ t.columns.target = s.columns.zone
  /\ s.op = "file" => \E t : /\ rest = <<t>> /\ t.op = "create" /\ t.table = "Track"
                             /\ t.key = New
  /\ s.op = "create" /\ s.table = "Track" => rest = <<>>
  /\ s.op = "create" /\ s.table = "PlaylistTrack" => \A t : rest = <<t>> => t.op = "update"
  /\ s.op = "unlink" => \/ rest = <<>>
                        \/ \E t : rest = <<t>> /\ t.op = "delete" /\ t.key = s.key
  /\ s.op = "delete" => \/ rest = <<>>
                        \/ \E t : rest = <<t>> /\ t.op = "unlink" /\ t.key = s.key

JobSound(given, q) ==
  \/ q = <<>>
  \/ \E s : q = <<s>> /\ StatementOK(given, s) /\ Follows(s, <<>>)
  \/ \E s, t : /\ q = <<s, t>> /\ StatementOK(given, s) /\ StatementOK(given, t)
               /\ Follows(s, <<t>>) /\ Follows(t, <<>>)

\* A list of tracks, each of them once.
Filled(tracks) ==
  /\ \E n \in Nat : DOMAIN tracks = 1 .. n
  /\ \A i, k \in DOMAIN tracks : tracks[i] = tracks[k] => i = k

\* The statements of a new request are about the rows there are.
AskedOf(s) ==
  /\ s.op = "replace" => Filled(s.columns)
  /\ s.op = "create" /\ s.table = "Track" => s.key = New
  /\ s.op = "unlink" => s.key \in Tables("Track")
  /\ s.op = "create" /\ s.table = "PlaylistTrack" =>
       s.columns.position = Cardinality(TracksOf(s.columns.playlist))

\* What only the second statement of a request can be, and what goes with the first.
AskedFirst(s, rest) ==
  /\ s.op = "unlink" => rest # <<>>
  /\ ~ (s.op = "create" /\ s.table = "Track")

\* A new request has at most two such statements.
Asked(q) ==
  \/ q = <<>>
  \/ \E s : q = <<s>> /\ AskedOf(s) /\ AskedFirst(s, <<>>)
  \/ \E s, t : /\ q = <<s, t>> /\ AskedOf(s) /\ AskedOf(t) /\ AskedFirst(s, <<t>>)
               /\ t.op = "unlink" => s.op = "delete"

\* The tracks of p are written by a statement.
Rewrites(s, p) ==
  \/ s.op = "replace" /\ s.key = p
  \/ s.table = "PlaylistTrack" /\ s.columns.playlist = p

\* A new request tells of its playlists when another one has yet to write their tracks.
Overlap(p) == /\ jumbled \subseteq jumbled'
              /\ (\E j \in Jobs : Writes(j, p)) => p \in jumbled'

Tells(q) ==
  /\ jumbled \subseteq jumbled'
  /\ \A i \in DOMAIN q : \A p \in GivenKeys : Rewrites(q[i], p) => Overlap(p)

\* A request begins.
Begins(j, q) ==
  /\ Request(j, q) /\ JobSound(GivenKeys, q) /\ Asked(q) /\ Tells(q)
  /\ trackFiles' = trackFiles

Fits(s, rest) == StatementOK(GivenKeys, s) /\ AskedOf(s) /\ Follows(s, rest)

\* A request with one statement begins.
LEMMA BeginsOne ==
  ASSUME NEW j \in Jobs, NEW s, Request(j, <<s>>), Fits(s, <<>>), AskedFirst(s, <<>>),
         trackFiles' = trackFiles, jumbled \subseteq jumbled',
         \A p \in GivenKeys : Rewrites(s, p) => Overlap(p)
  PROVE  \E q : Begins(j, q)
<1>1. JobSound(GivenKeys, <<s>>) /\ Asked(<<s>>)
  BY DEF JobSound, Asked, Fits
<1>2. Tells(<<s>>)
  BY DEF Tells
<1> QED
  BY <1>1, <1>2 DEF Begins

\* A request with two statements begins.
LEMMA BeginsTwo ==
  ASSUME NEW j \in Jobs, NEW s, NEW t, Request(j, <<s, t>>), Fits(s, <<t>>), Fits(t, <<>>),
         AskedFirst(s, <<t>>), t.op = "unlink" => s.op = "delete",
         trackFiles' = trackFiles, jumbled \subseteq jumbled',
         \A p \in GivenKeys : Rewrites(s, p) \/ Rewrites(t, p) => Overlap(p)
  PROVE  \E q : Begins(j, q)
<1>1. JobSound(GivenKeys, <<s, t>>) /\ Asked(<<s, t>>)
  BY DEF JobSound, Asked, Fits
<1>2. Tells(<<s, t>>)
  <2>1. \A i \in DOMAIN <<s, t>> : <<s, t>>[i] = s \/ <<s, t>>[i] = t
    OBVIOUS
  <2> QED
    BY <2>1 DEF Tells
<1> QED
  BY <1>1, <1>2 DEF Begins

-----------------------------------------------------------------------------
(* Requests begin                                                          *)

\* Statements that no other must follow, of tables that are no lists.
LEMMA DeleteFits ==
  ASSUME KeysTellApart, RowsInv, NEW table \in DOMAIN Keys \ {"PlaylistAssignment"},
         NEW x \in Tables(table), NEW s, s = Statement("delete", table, x, {})
  PROVE  /\ Fits(s, <<>>) /\ AskedFirst(s, <<>>)
         /\ s.op = "delete" /\ s.key = x /\ \A p : ~ Rewrites(s, p)
<1>1. s.op = "delete" /\ s.table = table /\ s.key = x
  BY StatementFields
<1>2. x \in KeysOf(table) /\ x \in GivenKeys
  BY RowGiven DEF RowsInv, Tables
<1>3. table # "PlaylistTrack"
  BY DEF KeysTellApart
<1> QED
  BY <1>1, <1>2, <1>3 DEF Fits, StatementOK, AskedOf, AskedFirst, Follows, Rewrites, Ops

\* A statement that creates a row with a new key.
LEMMA CreateFits ==
  ASSUME NEW table \in {"User", "Organization", "Location", "MusicServer", "Zone", "Playlist",
                        "MusicFolder"},
         NEW columns, DOMAIN Models[table] \subseteq DOMAIN columns,
         NEW s, s = Statement("create", table, New, columns), NEW rest
  PROVE  Fits(s, rest) /\ AskedFirst(s, rest) /\ \A p : ~ Rewrites(s, p)
<1>1. s.op = "create" /\ s.table = table /\ s.key = New /\ s.columns = columns
  BY StatementFields
<1>2. table \in DOMAIN Models
  BY DEF Models
<1> QED
  BY <1>1, <1>2 DEF Fits, StatementOK, AskedOf, AskedFirst, Follows, Rewrites, Ops

\* A statement that changes a row there was when the request began.
LEMMA UpdateFits ==
  ASSUME KeysTellApart, RowsInv, NEW table \in {"User", "Location", "Zone", "Track", "Playlist"},
         NEW x \in Tables(table), NEW columns,
         NEW s, s = Statement("update", table, x, columns), NEW rest
  PROVE  Fits(s, rest) /\ AskedFirst(s, rest) /\ s.op = "update" /\ \A p : ~ Rewrites(s, p)
<1>1. s.op = "update" /\ s.table = table /\ s.key = x
  BY StatementFields
<1>2. table \in DOMAIN Keys
  BY DEF KeysTellApart
<1>3. x \in KeysOf(table) /\ x \in GivenKeys
  BY <1>2, RowGiven DEF RowsInv, Tables
<1> QED
  BY <1>1, <1>2, <1>3 DEF Fits, StatementOK, AskedOf, AskedFirst, Follows, Rewrites, Ops

\* The references of the tables that requests create rows of.
LEMMA ColumnsAre ==
  /\ DOMAIN Models["User"] = {"organization", "location"}
  /\ DOMAIN Models["Organization"] = {} /\ DOMAIN Models["MusicFolder"] = {}
  /\ DOMAIN Models["Location"] = {"organization"}
  /\ DOMAIN Models["MusicServer"] = {"organization", "location"}
  /\ DOMAIN Models["Zone"] = {"server", "location", "currentPlaylist"}
  /\ DOMAIN Models["Playlist"] = {"organization"} /\ DOMAIN Models["Track"] = {"folder"}
  /\ DOMAIN Models["PlaylistTrack"] = {"playlist", "track"}
  /\ DOMAIN Models["PlaylistAssignment"] = {"playlist"}
  /\ DOMAIN Models["Schedule"] = {"zone", "playlist"}
  /\ {"User", "Organization", "MusicFolder", "Location", "MusicServer", "Zone", "Playlist",
      "Track", "PlaylistTrack", "PlaylistAssignment", "Schedule"} \subseteq DOMAIN Models
<1>1. DOMAIN NoReferences = {}
  BY DEF NoReferences
<1> QED
  BY <1>1 DEF Models, User, Location, MusicServer, Zone, Playlist, Track, PlaylistTrack,
              PlaylistAssignment, Schedule

\* Requests about who and what there is.
LEMMA TenantBegins ==
  ASSUME KeysTellApart, RowsInv, NEW j \in Jobs, NEW a, NEW role, NEW o, NEW l, NEW x,
         \/ InviteUser(j, a, role, o, l) \/ EditUser(j, a, x, role, o, l) \/ RemoveUser(j, a, x)
         \/ CreateOrganization(j, a)
         \/ (x \in Tables("Organization") /\ DeleteOrganization(j, a, x))
         \/ CreateLocation(j, a, o) \/ EditLocation(j, a, l) \/ DeleteLocation(j, a, l)
         \/ CreateServer(j, a, l) \/ (x \in Tables("MusicServer") /\ RemoveServer(j, a, x))
         \/ DeleteZone(j, a, x) \/ ReportZone(j, x)
  PROVE  \E q : Begins(j, q)
<1>1. KeepFiles
  BY DEF InviteUser, EditUser, RemoveUser, CreateOrganization, DeleteOrganization, CreateLocation,
         EditLocation, DeleteLocation, CreateServer, RemoveServer, DeleteZone, ReportZone
<1>2. ASSUME NEW s, Request(j, <<s>>), Fits(s, <<>>), AskedFirst(s, <<>>), \A p : ~ Rewrites(s, p)
      PROVE  \E q : Begins(j, q)
  BY <1>1, <1>2, BeginsOne DEF KeepFiles
<1>3. CASE InviteUser(j, a, role, o, l)
  <2>1. PICK scope : Request(j, <<Statement("create", "User", New, UserColumns(role, scope))>>)
    BY <1>3 DEF InviteUser
  <2>2. DOMAIN UserColumns(role, scope) = {"role", "organization", "location"}
    BY DEF UserColumns
  <2> QED
    BY <1>2, <2>1, <2>2, CreateFits, ColumnsAre
<1>4. CASE EditUser(j, a, x, role, o, l)
  <2>1. x \in Tables("User") /\ \E c : Request(j, <<Statement("scope", "User", x, c)>>)
    BY <1>4 DEF EditUser
  <2>2. PICK c : Request(j, <<Statement("scope", "User", x, c)>>)
    BY <2>1
  <2> DEFINE s == Statement("scope", "User", x, c)
  <2>3. s.op = "scope" /\ s.table = "User" /\ s.key = x
    BY StatementFields
  <2>4. x \in KeysOf("User") /\ x \in GivenKeys
    BY <2>1, RowGiven DEF RowsInv, Tables, KeysTellApart
  <2> HIDE DEF s
  <2>5. Fits(s, <<>>) /\ AskedFirst(s, <<>>) /\ \A p : ~ Rewrites(s, p)
    BY <2>3, <2>4 DEF Fits, StatementOK, AskedOf, AskedFirst, Follows, Rewrites, Ops
  <2> QED
    BY <1>2, <2>2, <2>5 DEF s
<1>5. CASE CreateOrganization(j, a)
  <2>1. Request(j, <<Statement("create", "Organization", New, NoReferences)>>)
    BY <1>5 DEF CreateOrganization
  <2> QED
    BY <1>2, <2>1, CreateFits, ColumnsAre
<1>6. CASE CreateLocation(j, a, o)
  <2>1. Request(j, <<Statement("create", "Location", New, [organization |-> o])>>)
    BY <1>6 DEF CreateLocation
  <2> QED
    BY <1>2, <2>1, CreateFits, ColumnsAre
<1>7. CASE EditLocation(j, a, l)
  <2>1. Request(j, <<Statement("update", "Location", l, NoReferences)>>) /\ l \in Tables("Location")
    BY <1>7 DEF EditLocation
  <2> QED
    BY <1>2, <2>1, UpdateFits
<1>8. CASE CreateServer(j, a, l)
  <2>1. Request(j, <<Statement("create", "MusicServer", New,
                               [organization |-> OrganizationOf(l), location |-> l])>>)
    BY <1>8 DEF CreateServer
  <2> QED
    BY <1>2, <2>1, CreateFits, ColumnsAre
<1>9. CASE ReportZone(j, x)
  <2>1. Request(j, <<Statement("create", "Zone", New,
                               [server |-> x, location |-> rows[x].columns.location,
                                currentPlaylist |-> Null])>>)
    BY <1>9 DEF ReportZone
  <2> QED
    BY <1>2, <2>1, CreateFits, ColumnsAre
<1>10. CASE \/ RemoveUser(j, a, x) \/ (x \in Tables("Organization") /\ DeleteOrganization(j, a, x))
            \/ DeleteLocation(j, a, l) \/ DeleteZone(j, a, x)
            \/ x \in Tables("MusicServer") /\ RemoveServer(j, a, x)
  <2>1. PICK table \in {"User", "Organization", "Location", "MusicServer", "Zone"} :
          \E y \in Tables(table) : Request(j, <<Statement("delete", table, y, {})>>)
    BY <1>10 DEF RemoveUser, DeleteOrganization, DeleteLocation, RemoveServer, DeleteZone,
                 ReachableZone
  <2>2. table \in DOMAIN Keys \ {"PlaylistAssignment"}
    BY DEF KeysTellApart
  <2> QED
    BY <1>2, <2>1, <2>2, DeleteFits
<1> QED
  BY <1>3, <1>4, <1>5, <1>6, <1>7, <1>8, <1>9, <1>10

\* Keys that were given are of some table.
UsedOK == used \subseteq UNION {Keys[t] : t \in DOMAIN Keys}

\* Statements about lists.
LEMMA TouchFits ==
  ASSUME KeysTellApart, RowsInv, NEW p \in Tables("Playlist")
  PROVE  /\ Fits(Touch(p), <<>>) /\ AskedFirst(Touch(p), <<>>)
         /\ Touch(p).op = "update" /\ \A q : ~ Rewrites(Touch(p), q)
BY UpdateFits DEF Touch

\* A statement that replaces the tracks of a playlist.
LEMMA ReplacementFits ==
  ASSUME NEW p \in GivenKeys \cup {New}, NEW tracks, Filled(tracks), NEW s, s = Replacement(p, tracks)
  PROVE  /\ Fits(s, <<>>) /\ AskedFirst(s, <<>>)
         /\ s.op = "replace" /\ \A q : Rewrites(s, q) => q = p
<1>1. s.op = "replace" /\ s.table = "Playlist" /\ s.key = p /\ s.columns = tracks
  BY StatementFields DEF Replacement
<1> QED
  BY <1>1 DEF Fits, StatementOK, AskedOf, AskedFirst, Follows, Rewrites, Ops

\* A statement that assigns a playlist to a zone unless it is assigned.
LEMMA EnsureFits ==
  ASSUME NEW z, NEW p, NEW s, s = Ensure(z, p)
  PROVE  /\ Fits(s, <<>>) /\ \A q : ~ Rewrites(s, q)
         /\ s.op = "ensure" /\ s.columns = [playlist |-> p, target |-> z]
<1>1. /\ s.op = "ensure" /\ s.table = "PlaylistAssignment" /\ s.key = New
      /\ s.columns = [playlist |-> p, target |-> z]
  BY StatementFields DEF Ensure
<1> QED
  BY <1>1 DEF Fits, StatementOK, AskedOf, Follows, Rewrites, Ops

\* A statement that assigns a playlist to a zone.
LEMMA AssignmentFits ==
  ASSUME NEW z, NEW p, NEW s, s = Assignment(z, p), NEW rest
  PROVE  /\ Fits(s, rest) /\ AskedFirst(s, rest) /\ \A q : ~ Rewrites(s, q)
         /\ s.op = "create" /\ s.table = "PlaylistAssignment" /\ s.key = New
         /\ s.columns = [playlist |-> p, target |-> z]
<1>1. /\ s.op = "create" /\ s.table = "PlaylistAssignment" /\ s.key = New
      /\ s.columns = [playlist |-> p, target |-> z]
  BY StatementFields DEF Assignment
<1>2. s.table \in DOMAIN Models /\ DOMAIN Models[s.table] \subseteq DOMAIN s.columns
  BY <1>1, ColumnsAre
<1> QED
  BY <1>1, <1>2 DEF Fits, StatementOK, AskedOf, AskedFirst, Follows, Rewrites, Ops

\* Requests about playlists that keep what is written of their tracks.
LEMMA PlaylistBegins ==
  ASSUME KeysTellApart, RowsInv, RefsOK(rows), UsedOK, NEW j \in Jobs, NEW a, NEW x, NEW p,
         NEW tracks,
         \/ CreatePlaylist(j, a, p, tracks) /\ Filled(tracks)
         \/ p \in Tables("Playlist") /\ (DuplicatePlaylist(j, a, p) \/ RemovePlaylist(j, a, p))
         \/ AssignTo(j, a, x, p) /\ x \in Tables("Zone") \cup Tables("Location")
         \/ SetZonePlaylist(j, a, x, p)
  PROVE  \E q : Begins(j, q)
<1>1. trackFiles' = trackFiles /\ jumbled \subseteq jumbled'
  BY DEF CreatePlaylist, DuplicatePlaylist, RemovePlaylist, AssignTo, SetZonePlaylist, KeepFiles
<1>2. ASSUME NEW s, Request(j, <<s>>), Fits(s, <<>>), AskedFirst(s, <<>>), \A q : ~ Rewrites(s, q)
      PROVE  \E q : Begins(j, q)
  BY <1>1, <1>2, BeginsOne
<1>3. CASE CreatePlaylist(j, a, p, tracks) /\ Filled(tracks)
  <2> DEFINE s == Statement("create", "Playlist", New, PlaylistColumns(p))
             t == Replacement(New, tracks)
  <2>1. Request(j, <<s, t>>)
    BY <1>3 DEF CreatePlaylist
  <2>2. DOMAIN PlaylistColumns(p) = {"organization"}
    BY DEF PlaylistColumns
  <2>3. /\ Fits(s, <<t>>) /\ AskedFirst(s, <<t>>) /\ \A q : ~ Rewrites(s, q)
        /\ Fits(t, <<>>) /\ t.op = "replace" /\ \A q : Rewrites(t, q) => q = New
    BY <1>3, <2>2, CreateFits, ReplacementFits, ColumnsAre
  <2>4. New \notin GivenKeys
    BY DEF GivenKeys, KeysTellApart, UsedOK
  <2> QED
    BY <1>1, <2>1, <2>3, <2>4, BeginsTwo
<1>4. CASE p \in Tables("Playlist") /\ DuplicatePlaylist(j, a, p)
  <2> DEFINE s == Statement("copy", "Playlist", p, rows[p].columns)
  <2>1. Request(j, <<s>>)
    BY <1>4 DEF DuplicatePlaylist
  <2>2. /\ s.op = "copy" /\ s.table = "Playlist" /\ s.key = p
        /\ s.columns = rows[p].columns
    BY StatementFields
  <2>3. "organization" \in DOMAIN rows[p].columns
    <3>1. p \in DOMAIN rows /\ rows[p].table = "Playlist"
      BY <1>4 DEF Tables, Rows
    <3> DEFINE t == "Playlist"
               c == "organization"
    <3>2. t \in DOMAIN Models /\ c \in DOMAIN Models[t]
      BY ColumnsAre
    <3> HIDE DEF t, c
    <3>3. PICK k \in Enforced : k.table = t /\ k.column = c
      BY <3>2, ModelsAreKeys
    <3> QED
      BY <3>1, <3>3 DEF RefsOK, RefersOK, t, c
  <2> HIDE DEF s
  <2>4. Fits(s, <<>>) /\ AskedFirst(s, <<>>) /\ \A q : ~ Rewrites(s, q)
    BY <2>2, <2>3 DEF Fits, StatementOK, AskedOf, AskedFirst, Follows, Rewrites, Ops
  <2> QED
    BY <1>2, <2>1, <2>4
<1>5. CASE p \in Tables("Playlist") /\ RemovePlaylist(j, a, p)
  <2>1. Request(j, <<Statement("delete", "Playlist", p, {})>>)
    BY <1>5 DEF RemovePlaylist
  <2> QED
    BY <1>2, <1>5, <2>1, DeleteFits DEF KeysTellApart
<1>6. ASSUME NEW z \in Tables("Zone")
      PROVE  /\ Fits(PlaysNow(z, p), <<>>) /\ AskedFirst(PlaysNow(z, p), <<>>)
             /\ PlaysNow(z, p).op = "update" /\ \A q : ~ Rewrites(PlaysNow(z, p), q)
  BY UpdateFits DEF PlaysNow
<1>7. CASE AssignTo(j, a, x, p) /\ x \in Tables("Zone") \cup Tables("Location")
  <2>1. Request(j, <<Assignment(x, p)>> \o (IF IsZone(x) THEN <<PlaysNow(x, p)>> ELSE <<>>))
    BY <1>7 DEF AssignTo
  <2>2. Request(j, <<Assignment(x, p)>>)
        \/ (IsZone(x) /\ Request(j, <<Assignment(x, p), PlaysNow(x, p)>>))
    BY <2>1, Concatenated
  <2>3. IsZone(x) => x \in Tables("Zone")
    <3>1. ASSUME IsZone(x), x \in Tables("Location")
          PROVE  FALSE
      <4>1. x \in KeysOf("Location") /\ x \in KeysOf("Zone")
        BY <3>1, RowGiven DEF RowsInv, Tables, KeysTellApart, IsZone, KeysOf
      <4> QED
        BY <4>1, OneTable DEF KeysTellApart
    <3> QED
      BY <1>7, <3>1
  <2>4. CASE Request(j, <<Assignment(x, p)>>)
    <3> DEFINE s == Assignment(x, p)
    <3>1. Fits(s, <<>>) /\ AskedFirst(s, <<>>) /\ \A q : ~ Rewrites(s, q)
      BY AssignmentFits
    <3> HIDE DEF s
    <3> QED
      BY <1>2, <2>4, <3>1 DEF s
  <2>5. CASE IsZone(x) /\ Request(j, <<Assignment(x, p), PlaysNow(x, p)>>)
    <3> DEFINE s == Assignment(x, p)
               t == PlaysNow(x, p)
    <3>1. /\ Fits(s, <<t>>) /\ AskedFirst(s, <<t>>) /\ \A q : ~ Rewrites(s, q)
      BY AssignmentFits
    <3>2. /\ Fits(t, <<>>) /\ t.op = "update" /\ \A q : ~ Rewrites(t, q)
      BY <1>6, <2>3, <2>5
    <3>3. Request(j, <<s, t>>)
      BY <2>5
    <3> HIDE DEF s, t
    <3> QED
      BY <1>1, <3>1, <3>2, <3>3, BeginsTwo
  <2> QED
    BY <2>2, <2>4, <2>5
<1>8. CASE SetZonePlaylist(j, a, x, p)
  <2>1. Request(j, <<PlaysNow(x, p)>>) /\ x \in Tables("Zone")
    BY <1>8 DEF SetZonePlaylist, ReachableZone
  <2> QED
    BY <1>2, <1>6, <2>1
<1> QED
  BY <1>3, <1>4, <1>5, <1>7, <1>8

\* Requests that write the tracks of a playlist tell of it.
LEMMA TouchesTell ==
  ASSUME NEW p, Touches(p)
  PROVE  trackFiles' = trackFiles /\ jumbled \subseteq jumbled' /\ Overlap(p)
BY DEF Touches, Overlap

\* A statement that adds a track to a playlist, at the number of its tracks.
LEMMA ItemFits ==
  ASSUME NEW p \in GivenKeys, NEW t, NEW n \in Nat, n = Cardinality(TracksOf(p)), NEW s,
         s = Statement("create", "PlaylistTrack", <<p, t>>,
                       [playlist |-> p, track |-> t, position |-> n]),
         NEW rest, \A u : rest = <<u>> => u.op = "update"
  PROVE  /\ Fits(s, rest) /\ AskedFirst(s, rest) /\ \A q : Rewrites(s, q) => q = p
<1>1. /\ s.op = "create" /\ s.table = "PlaylistTrack" /\ s.key = <<p, t>>
      /\ s.columns = [playlist |-> p, track |-> t, position |-> n]
  BY StatementFields
<1>2. s.table \in DOMAIN Models /\ DOMAIN Models[s.table] \subseteq DOMAIN s.columns
  BY <1>1, ColumnsAre
<1>3. s.columns.playlist = p /\ s.columns.position = n
  BY <1>1
<1>4. StatementOK(GivenKeys, s)
  BY <1>1, <1>2, <1>3 DEF StatementOK, Ops
<1> QED
  BY <1>1, <1>3, <1>4 DEF Fits, AskedOf, AskedFirst, Follows, Rewrites

\* A statement that takes a track from a playlist.
LEMMA ClearFits ==
  ASSUME NEW p \in GivenKeys, NEW t, NEW s,
         s = Statement("clear", "PlaylistTrack", <<p, t>>, [playlist |-> p]), NEW rest
  PROVE  /\ Fits(s, rest) /\ AskedFirst(s, rest) /\ \A q : Rewrites(s, q) => q = p
<1>1. /\ s.op = "clear" /\ s.table = "PlaylistTrack" /\ s.key = <<p, t>>
      /\ s.columns = [playlist |-> p]
  BY StatementFields
<1>2. s.columns.playlist = p
  BY <1>1
<1> QED
  BY <1>1, <1>2 DEF Fits, StatementOK, AskedOf, AskedFirst, Follows, Rewrites, Ops

\* A playlist has finitely many tracks.
LEMMA TracksCounted ==
  ASSUME RowsInv, NEW p
  PROVE  IsFiniteSet(TracksOf(p)) /\ Cardinality(TracksOf(p)) \in Nat
<1>1. TracksOf(p) \subseteq DOMAIN rows
  BY DEF TracksOf, Tables, Rows
<1> QED
  BY <1>1, FS_Subset, FS_CardinalityType DEF RowsInv, DbOK

\* Requests about the tracks of a playlist (routes/playlists.ts).
LEMMA TrackBegins ==
  ASSUME KeysTellApart, RowsInv, NEW j \in Jobs, NEW a, NEW p \in Tables("Playlist"), NEW x,
         \/ ChangePlaylist(j, a, p, x) /\ Filled(x)
         \/ AddTrack(j, a, p, x) \/ RemoveTrack(j, a, p, x)
  PROVE  \E q : Begins(j, q)
<1>1. trackFiles' = trackFiles /\ jumbled \subseteq jumbled' /\ Overlap(p)
  BY TouchesTell DEF ChangePlaylist, AddTrack, RemoveTrack
<1>2. p \in GivenKeys
  BY RowGiven DEF RowsInv, Tables, KeysTellApart
<1> DEFINE t == Touch(p)
<1>3. /\ Fits(t, <<>>) /\ AskedFirst(t, <<>>) /\ t.op = "update" /\ \A q : ~ Rewrites(t, q)
  BY TouchFits
<1>4. CASE ChangePlaylist(j, a, p, x) /\ Filled(x)
  <2> DEFINE s == Replacement(p, x)
  <2>1. Request(j, <<t, s>>)
    BY <1>4 DEF ChangePlaylist
  <2>2. /\ Fits(s, <<>>) /\ s.op = "replace" /\ \A q : Rewrites(s, q) => q = p
    BY <1>2, <1>4, ReplacementFits
  <2>3. /\ Fits(t, <<s>>) /\ AskedFirst(t, <<s>>) /\ \A q : ~ Rewrites(t, q)
    BY UpdateFits DEF Touch
  <2> HIDE DEF s, t
  <2> QED
    BY <1>1, <2>1, <2>2, <2>3, BeginsTwo
<1>5. CASE AddTrack(j, a, p, x)
  <2> DEFINE n == Cardinality(TracksOf(p))
             s == Statement("create", "PlaylistTrack", <<p, x>>,
                            [playlist |-> p, track |-> x, position |-> n])
  <2>1. Request(j, (IF x \in TrackIds(p) THEN <<>> ELSE <<s>>) \o <<t>>)
    BY <1>5 DEF AddTrack
  <2>2. n \in Nat
    BY TracksCounted
  <2> DEFINE rest == <<t>>
  <2>5. t.op = "update"
    BY StatementFields DEF Touch
  <2>6. \A u : rest = <<u>> => u.op = "update"
    <3> HIDE DEF t
    <3> QED
      BY <2>5
  <2> HIDE DEF rest
  <2>7. /\ Fits(s, rest) /\ AskedFirst(s, rest) /\ \A q : Rewrites(s, q) => q = p
    BY <1>2, <2>2, <2>6, ItemFits
  <2>3. /\ Fits(s, <<t>>) /\ AskedFirst(s, <<t>>) /\ \A q : Rewrites(s, q) => q = p
    BY <2>7 DEF rest
  <2> HIDE DEF s, t
  <2>4. Request(j, <<t>>) \/ Request(j, <<s, t>>)
    BY <2>1, Concatenated
  <2> QED
    BY <1>1, <1>3, <2>3, <2>4, BeginsOne, BeginsTwo
<1>6. CASE RemoveTrack(j, a, p, x)
  <2> DEFINE s == Statement("clear", "PlaylistTrack", <<p, x>>, [playlist |-> p])
  <2>1. Request(j, <<s, t>>)
    BY <1>6 DEF RemoveTrack
  <2>2. /\ Fits(s, <<t>>) /\ AskedFirst(s, <<t>>) /\ \A q : Rewrites(s, q) => q = p
    BY <1>2, ClearFits
  <2> HIDE DEF s, t
  <2> QED
    BY <1>1, <1>3, <2>1, <2>2, BeginsTwo
<1> QED
  BY <1>4, <1>5, <1>6

\* Requests about when it plays.
LEMMA SlotBegins ==
  ASSUME KeysTellApart, RowsInv, NEW j \in Jobs, NEW a, NEW x, NEW p,
         \/ CreateSchedule(j, a, x, p)
         \/ x \in Tables("Schedule") /\ p \in SlotChanges /\ EditSchedule(j, a, x, p)
         \/ x \in Tables("Schedule") /\ DeleteSchedule(j, a, x)
  PROVE  \E q : Begins(j, q)
<1>1. trackFiles' = trackFiles /\ jumbled \subseteq jumbled'
  BY DEF CreateSchedule, EditSchedule, DeleteSchedule, KeepFiles
<1>2. CASE CreateSchedule(j, a, x, p)
  <2> DEFINE s == Statement("create", "Schedule", New, [zone |-> x, playlist |-> p])
             t == Ensure(x, p)
  <2>1. Request(j, <<s, t>>)
    BY <1>2 DEF CreateSchedule
  <2>2. /\ s.op = "create" /\ s.table = "Schedule" /\ s.key = New
        /\ s.columns = [zone |-> x, playlist |-> p]
    BY StatementFields
  <2>3. /\ Fits(t, <<>>) /\ (\A q : ~ Rewrites(t, q))
        /\ t.op = "ensure" /\ t.columns = [playlist |-> p, target |-> x]
    BY EnsureFits
  <2>4. s.table \in DOMAIN Models /\ DOMAIN Models[s.table] \subseteq DOMAIN s.columns
    BY <2>2, ColumnsAre
  <2> HIDE DEF s, t
  <2>5. Follows(s, <<t>>)
    BY <2>2, <2>3 DEF Follows
  <2>6. /\ Fits(s, <<t>>) /\ AskedFirst(s, <<t>>) /\ \A q : ~ Rewrites(s, q)
    BY <2>2, <2>4, <2>5 DEF Fits, StatementOK, AskedOf, AskedFirst, Rewrites, Ops
  <2> QED
    BY <1>1, <2>1, <2>3, <2>6, BeginsTwo
<1>3. CASE x \in Tables("Schedule") /\ p \in SlotChanges /\ EditSchedule(j, a, x, p)
  <2> DEFINE s == Statement("update", "Schedule", x, p)
  <2>1. Request(j, <<s>>)
    BY <1>3 DEF EditSchedule
  <2>2. /\ s.op = "update" /\ s.table = "Schedule" /\ s.key = x /\ s.columns = p
    BY StatementFields
  <2>3. "zone" \in DOMAIN p \/ "playlist" \in DOMAIN p
    BY <1>3 DEF SlotChanges
  <2>4. x \in KeysOf("Schedule") /\ x \in GivenKeys /\ "Schedule" \in DOMAIN Keys \ {"PlaylistAssignment"}
    BY <1>3, RowGiven DEF RowsInv, Tables, KeysTellApart
  <2> HIDE DEF s
  <2>5. /\ Fits(s, <<>>) /\ AskedFirst(s, <<>>) /\ \A q : ~ Rewrites(s, q)
    BY <2>2, <2>3, <2>4 DEF Fits, StatementOK, AskedOf, AskedFirst, Follows, Rewrites, Ops, MovesSlot,
                            NamesPlaylist
  <2> QED
    BY <1>1, <2>1, <2>5, BeginsOne
<1>4. CASE x \in Tables("Schedule") /\ DeleteSchedule(j, a, x)
  <2> DEFINE s == Statement("delete", "Schedule", x, {})
  <2>1. Request(j, <<s>>)
    BY <1>4 DEF DeleteSchedule
  <2>2. Fits(s, <<>>) /\ AskedFirst(s, <<>>) /\ \A q : ~ Rewrites(s, q)
    BY <1>4, DeleteFits DEF KeysTellApart
  <2> HIDE DEF s
  <2> QED
    BY <1>1, <2>1, <2>2, BeginsOne
<1> QED
  BY <1>2, <1>3, <1>4

\* Requests about tracks and folders.
LEMMA MusicBegins ==
  ASSUME KeysTellApart, RowsInv, NEW j \in Jobs, NEW a, NEW x, NEW p,
         \/ UploadTrack(j, a, x)
         \/ x \in Tables("Track") /\ (DiscardTrack(j, a, x) \/ MoveTrack(j, a, x, p))
         \/ CreateFolder(j, a)
         \/ x \in Tables("MusicFolder") /\ DeleteFolder(j, a, x)
  PROVE  \E q : Begins(j, q)
<1>1. trackFiles' = trackFiles /\ jumbled \subseteq jumbled'
  BY DEF UploadTrack, DiscardTrack, MoveTrack, CreateFolder, DeleteFolder, KeepFiles
<1>2. ASSUME NEW s, Request(j, <<s>>), Fits(s, <<>>), AskedFirst(s, <<>>), \A q : ~ Rewrites(s, q)
      PROVE  \E q : Begins(j, q)
  BY <1>1, <1>2, BeginsOne
<1>3. CASE UploadTrack(j, a, x)
  <2> DEFINE s == Statement("file", "Track", New, {})
             t == Statement("create", "Track", New, [folder |-> x])
  <2>1. Request(j, <<s, t>>)
    BY <1>3 DEF UploadTrack
  <2>2. s.op = "file" /\ s.table = "Track"
    BY StatementFields
  <2>3. t.op = "create" /\ t.table = "Track" /\ t.key = New /\ t.columns = [folder |-> x]
    BY StatementFields
  <2>4. t.table \in DOMAIN Models /\ DOMAIN Models[t.table] \subseteq DOMAIN t.columns
    BY <2>3, ColumnsAre
  <2> HIDE DEF s, t
  <2>5. Fits(t, <<>>) /\ \A q : ~ Rewrites(t, q)
    BY <2>3, <2>4 DEF Fits, StatementOK, AskedOf, Follows, Rewrites, Ops
  <2>6. Fits(s, <<t>>) /\ AskedFirst(s, <<t>>) /\ \A q : ~ Rewrites(s, q)
    BY <2>2, <2>3 DEF Fits, StatementOK, AskedOf, AskedFirst, Follows, Rewrites, Ops
  <2> QED
    BY <1>1, <2>1, <2>3, <2>5, <2>6, BeginsTwo
<1>4. CASE x \in Tables("Track") /\ DiscardTrack(j, a, x)
  <2> DEFINE s == Statement("delete", "Track", x, {})
             t == Statement("unlink", "Track", x, {})
  <2>1. Request(j, <<t, s>>) \/ Request(j, <<s, t>>)
    BY <1>4 DEF DiscardTrack
  <2>2. s.op = "delete" /\ s.table = "Track" /\ s.key = x
    BY StatementFields
  <2>3. t.op = "unlink" /\ t.table = "Track" /\ t.key = x
    BY StatementFields
  <2>4. x \in KeysOf("Track") /\ x \in GivenKeys /\ "Track" \in DOMAIN Keys \ {"PlaylistAssignment"}
    BY <1>4, RowGiven DEF RowsInv, Tables, KeysTellApart
  <2> HIDE DEF s, t
  <2>5. StatementOK(GivenKeys, s) /\ StatementOK(GivenKeys, t)
    BY <2>2, <2>3, <2>4 DEF StatementOK, Ops
  <2>6. AskedOf(s) /\ AskedOf(t)
    BY <1>4, <2>2, <2>3 DEF AskedOf
  <2>7. Follows(s, <<>>) /\ Follows(t, <<>>) /\ Follows(s, <<t>>) /\ Follows(t, <<s>>)
    BY <2>2, <2>3 DEF Follows
  <2>8. AskedFirst(s, <<t>>) /\ AskedFirst(t, <<s>>)
    BY <2>2, <2>3 DEF AskedFirst
  <2>9. \A q : ~ Rewrites(s, q) /\ ~ Rewrites(t, q)
    BY <2>2, <2>3 DEF Rewrites
  <2> QED
    BY <1>1, <2>1, <2>2, <2>3, <2>5, <2>6, <2>7, <2>8, <2>9, BeginsTwo DEF Fits
<1>5. CASE x \in Tables("Track") /\ MoveTrack(j, a, x, p)
  <2> DEFINE s == Statement("update", "Track", x, [folder |-> p])
  <2>1. Request(j, <<s>>)
    BY <1>5 DEF MoveTrack
  <2>2. Fits(s, <<>>) /\ AskedFirst(s, <<>>) /\ \A q : ~ Rewrites(s, q)
    BY <1>5, UpdateFits
  <2> HIDE DEF s
  <2> QED
    BY <1>2, <2>1, <2>2
<1>6. CASE CreateFolder(j, a)
  <2> DEFINE s == Statement("create", "MusicFolder", New, NoReferences)
  <2>1. Request(j, <<s>>)
    BY <1>6 DEF CreateFolder
  <2>2. Fits(s, <<>>) /\ AskedFirst(s, <<>>) /\ \A q : ~ Rewrites(s, q)
    BY CreateFits, ColumnsAre
  <2> HIDE DEF s
  <2> QED
    BY <1>2, <2>1, <2>2
<1>7. CASE x \in Tables("MusicFolder") /\ DeleteFolder(j, a, x)
  <2> DEFINE s == Statement("delete", "MusicFolder", x, {})
  <2>1. Request(j, <<s>>)
    BY <1>7 DEF DeleteFolder
  <2>2. Fits(s, <<>>) /\ AskedFirst(s, <<>>) /\ \A q : ~ Rewrites(s, q)
    BY <1>7, DeleteFits DEF KeysTellApart
  <2> HIDE DEF s
  <2> QED
    BY <1>2, <2>1, <2>2
<1> QED
  BY <1>3, <1>4, <1>5, <1>6, <1>7

\* A request about what is played gives the tracks in an order.
LEMMA OrdersAreFilled ==
  ASSUME RowsInv, NEW q \in {<<>>} \cup SetToSeqs(Tables("Track"))
  PROVE  Filled(q)
<1>1. Filled(<<>>)
  <2>1. DOMAIN <<>> = 1 .. 0 /\ 0 \in Nat
    OBVIOUS
  <2> QED
    BY <2>1 DEF Filled
<1>2. CASE q \in SetToSeqs(Tables("Track"))
  <2> DEFINE n == Cardinality(Tables("Track"))
  <2>1. n \in Nat
    <3>1. Tables("Track") \subseteq DOMAIN rows
      BY DEF Tables, Rows
    <3> QED
      BY <3>1, FS_Subset, FS_CardinalityType DEF RowsInv, DbOK
  <2>2. DOMAIN q = 1 .. n /\ \A i, k \in 1 .. n : i # k => q[i] # q[k]
    BY <1>2 DEF SetToSeqs
  <2> HIDE DEF n
  <2> QED
    BY <2>1, <2>2 DEF Filled
<1> QED
  BY <1>1, <1>2

\* Every request begins so.
LEMMA RequestsBegin ==
  ASSUME KeysTellApart, RowsInv, RefsOK(rows), UsedOK, NEW j \in Jobs,
         \/ TenantRequests(j) \/ ListRequests(j)
         \/ \E s \in Tables("MusicServer") : ReportZone(j, s)
  PROVE  \E q : Begins(j, q)
<1>1. CASE TenantRequests(j)
  <2>1. \E a, role, o, l, x :
         \/ InviteUser(j, a, role, o, l) \/ EditUser(j, a, x, role, o, l) \/ RemoveUser(j, a, x)
         \/ CreateOrganization(j, a)
         \/ (x \in Tables("Organization") /\ DeleteOrganization(j, a, x))
         \/ CreateLocation(j, a, o) \/ EditLocation(j, a, l) \/ DeleteLocation(j, a, l)
         \/ CreateServer(j, a, l) \/ (x \in Tables("MusicServer") /\ RemoveServer(j, a, x))
         \/ DeleteZone(j, a, x) \/ ReportZone(j, x)
    BY <1>1 DEF TenantRequests
  <2> QED
    BY <2>1, TenantBegins
<1>2. CASE ListRequests(j)
  <2> DEFINE orders == {<<>>} \cup SetToSeqs(Tables("Track"))
  <2>1. \A q \in orders : Filled(q)
    BY OrdersAreFilled
  <2>2. \E a, p, x, q :
         \/ q \in orders /\ CreatePlaylist(j, a, p, q)
         \/ q \in orders /\ p \in Tables("Playlist") /\ ChangePlaylist(j, a, p, q)
         \/ p \in Tables("Playlist") /\ (DuplicatePlaylist(j, a, p) \/ RemovePlaylist(j, a, p))
         \/ p \in Tables("Playlist") /\ (AddTrack(j, a, p, x) \/ RemoveTrack(j, a, p, x))
         \/ AssignTo(j, a, x, p) /\ x \in Tables("Zone") \cup Tables("Location")
         \/ SetZonePlaylist(j, a, x, p)
         \/ CreateSchedule(j, a, x, p)
         \/ x \in Tables("Schedule") /\ p \in SlotChanges /\ EditSchedule(j, a, x, p)
         \/ x \in Tables("Schedule") /\ DeleteSchedule(j, a, x)
         \/ DeleteZone(j, a, x)
         \/ UploadTrack(j, a, x)
         \/ x \in Tables("Track") /\ (DiscardTrack(j, a, x) \/ MoveTrack(j, a, x, p))
         \/ CreateFolder(j, a)
         \/ x \in Tables("MusicFolder") /\ DeleteFolder(j, a, x)
    <3> HIDE DEF orders
    <3> QED
      BY <1>2 DEF ListRequests, orders
  <2> HIDE DEF orders
  <2>3. PICK a, p, x, q :
         \/ q \in orders /\ CreatePlaylist(j, a, p, q)
         \/ q \in orders /\ p \in Tables("Playlist") /\ ChangePlaylist(j, a, p, q)
         \/ p \in Tables("Playlist") /\ (DuplicatePlaylist(j, a, p) \/ RemovePlaylist(j, a, p))
         \/ p \in Tables("Playlist") /\ (AddTrack(j, a, p, x) \/ RemoveTrack(j, a, p, x))
         \/ AssignTo(j, a, x, p) /\ x \in Tables("Zone") \cup Tables("Location")
         \/ SetZonePlaylist(j, a, x, p)
         \/ CreateSchedule(j, a, x, p)
         \/ x \in Tables("Schedule") /\ p \in SlotChanges /\ EditSchedule(j, a, x, p)
         \/ x \in Tables("Schedule") /\ DeleteSchedule(j, a, x)
         \/ DeleteZone(j, a, x)
         \/ UploadTrack(j, a, x)
         \/ x \in Tables("Track") /\ (DiscardTrack(j, a, x) \/ MoveTrack(j, a, x, p))
         \/ CreateFolder(j, a)
         \/ x \in Tables("MusicFolder") /\ DeleteFolder(j, a, x)
    BY <2>2
  <2>4. q \in orders => Filled(q)
    BY <2>1
  <2> QED
    BY <2>3, <2>4, PlaylistBegins, TrackBegins, SlotBegins, MusicBegins, TenantBegins
<1>3. CASE \E s \in Tables("MusicServer") : ReportZone(j, s)
  BY <1>3, TenantBegins
<1> QED
  BY <1>1, <1>2, <1>3

-----------------------------------------------------------------------------
(* References name rows, and requests know what they have yet to run        *)

\* The invariant that is inductive: every reference names a row that is there, and what a
\* request has yet to run is about keys that were given.
RefsInv ==
  /\ RowsInv /\ RefsOK(rows) /\ UsedOK
  /\ \A j \in Jobs : JobSound(GivenKeys, job[j])

\* What a request knows of the keys that are given, it knows of more keys.
LEMMA SoundMore ==
  ASSUME NEW given, NEW now, given \subseteq now, NEW q, JobSound(given, q)
  PROVE  JobSound(now, q)
<1>1. ASSUME NEW s, StatementOK(given, s)
      PROVE  StatementOK(now, s)
  <2>1. \A x : x \in given => x \in now
    OBVIOUS
  <2> QED
    BY <1>1, <2>1 DEF StatementOK
<1> QED
  BY <1>1 DEF JobSound

\* The statement that is next, and what follows it.
LEMMA SoundHead ==
  ASSUME NEW given, NEW q, JobSound(given, q), q # <<>>
  PROVE  /\ StatementOK(given, Head(q)) /\ Follows(Head(q), Tail(q)) /\ JobSound(given, Tail(q))
         /\ \/ Tail(q) = <<>>
            \/ \E t : Tail(q) = <<t>> /\ StatementOK(given, t) /\ Follows(t, <<>>)
<1>1. ASSUME NEW s, q = <<s>>
      PROVE  Head(q) = s /\ Tail(q) = <<>>
  BY <1>1
<1>2. ASSUME NEW s, NEW t, q = <<s, t>>
      PROVE  Head(q) = s /\ Tail(q) = <<t>>
  BY <1>2
<1>3. CASE \E s : q = <<s>> /\ StatementOK(given, s) /\ Follows(s, <<>>)
  BY <1>1, <1>3 DEF JobSound
<1>4. CASE \E s, t : /\ q = <<s, t>> /\ StatementOK(given, s) /\ StatementOK(given, t)
                     /\ Follows(s, <<t>>) /\ Follows(t, <<>>)
  BY <1>2, <1>4 DEF JobSound
<1> QED
  BY <1>3, <1>4 DEF JobSound

\* The statement left takes the key of the row that was created before.
LEMMA WithKeyIs ==
  ASSUME NEW t, IsStatement(t), NEW x, NEW u,
         u = IF t.key = New /\ t.op # "ensure" THEN [t EXCEPT !.key = x] ELSE t
  PROVE  /\ WithKey(<<t>>, x) = <<u>> /\ IsStatement(u)
         /\ u.op = t.op /\ u.table = t.table /\ u.columns = t.columns
         /\ u.key = IF t.key = New /\ t.op # "ensure" THEN x ELSE t.key
<1> DEFINE q == <<t>>
<1>1. DOMAIN q = {1} /\ q[1] = t
  OBVIOUS
<1> HIDE DEF q
<1>2. WithKey(q, x) = [i \in {1} |-> u]
  BY <1>1 DEF WithKey
<1>3. WithKey(q, x) = <<u>>
  BY <1>2
<1> QED
  BY <1>3 DEF q, IsStatement

\* What is left of a request goes on with the key of a row.
LEMMA KeyedSound ==
  ASSUME KeysTellApart, NEW given, NEW t, IsStatement(t), StatementOK(given, t), Follows(t, <<>>),
         NEW x, x \in given \/ t.op = "update"
  PROVE  JobSound(given, WithKey(<<t>>, x))
<1> DEFINE u == IF t.key = New /\ t.op # "ensure" THEN [t EXCEPT !.key = x] ELSE t
<1>1. /\ WithKey(<<t>>, x) = <<u>> /\ IsStatement(u)
      /\ u.op = t.op /\ u.table = t.table /\ u.columns = t.columns
      /\ u.key = IF t.key = New /\ t.op # "ensure" THEN x ELSE t.key
  BY WithKeyIs
<1> HIDE DEF u
<1>2. \A table : New \notin KeysOf(table)
  BY DEF KeysTellApart, KeysOf, Rows
<1>3. ~ IsPair(New)
  BY DEF KeysTellApart
<1>4. t.op \in {"scope", "update", "delete", "clear", "unlink"} => t.key # New
  <2>1. t.op = "clear" => IsPair(t.key)
    BY DEF StatementOK, IsPair
  <2> QED
    BY <1>2, <1>3, <2>1 DEF StatementOK
<1>5. t.table = "PlaylistTrack" => t.key # New
  BY <1>3 DEF StatementOK, IsPair
<1>6. u.key = t.key \/ (u.key = x /\ t.op \in {"create", "replace", "copy", "file"}
                        /\ t.table # "PlaylistTrack" /\ x \in given)
  BY <1>1, <1>4, <1>5 DEF StatementOK, Ops
<1>7. StatementOK(given, u)
  BY <1>1, <1>6 DEF StatementOK, MovesSlot, NamesPlaylist
<1>8. Follows(u, <<>>)
  BY <1>1, <1>6 DEF Follows
<1> QED
  BY <1>1, <1>7, <1>8 DEF JobSound

\* A step of one request: what it must keep for the invariant to hold after it.
LEMMA RefsStep ==
  ASSUME RefsInv, RowsInv', NEW j \in Jobs, NEW q, job' = [job EXCEPT ![j] = q],
         used \subseteq used', UsedOK', RefsOK(rows'), JobSound(GivenKeys', q)
  PROVE  RefsInv'
<1>1. GivenKeys \subseteq GivenKeys'
  BY DEF GivenKeys
<1>2. \A k \in Jobs : job'[k] = q \/ job'[k] = job[k]
  BY DEF RefsInv, RowsInv
<1>3. \A k \in Jobs : JobSound(GivenKeys', job[k])
  BY <1>1, SoundMore DEF RefsInv
<1>4. \A k \in Jobs : JobSound(GivenKeys', job'[k])
  BY <1>2, <1>3
<1>5. RefsOK(rows)'
  BY DEF RefsOK, RefersOK, NamesRow, Rows
<1> QED
  BY <1>4, <1>5 DEF RefsInv

\* The rows and the keys are left alone.
LEMMA RefsSame ==
  ASSUME RefsInv, RowsInv', NEW j \in Jobs, NEW q, job' = [job EXCEPT ![j] = q],
         rows' = rows, used' = used, JobSound(GivenKeys, q)
  PROVE  RefsInv'
<1>1. GivenKeys' = GivenKeys /\ UsedOK' /\ RefsOK(rows')
  BY DEF GivenKeys, UsedOK, RefsInv
<1> QED
  BY <1>1, RefsStep

\* A request that ends without a statement keeps the invariant.
LEMMA FailSound ==
  ASSUME RefsInv, RowsInv', NEW j \in Jobs, Fail(j)
  PROVE  RefsInv'
<1>1. JobSound(GivenKeys, <<>>)
  BY DEF JobSound
<1> QED
  BY <1>1, RefsSame DEF Fail, Left

\* The rest of a request goes on.
LEMMA ProceedSound ==
  ASSUME RefsInv, RowsInv', NEW j \in Jobs, job[j] # <<>>, Proceed(j), used' = used, RefsOK(rows')
  PROVE  RefsInv'
<1>1. GivenKeys' = GivenKeys /\ UsedOK'
  BY DEF GivenKeys, UsedOK, RefsInv
<1>2. JobSound(GivenKeys', Tail(job[j]))
  BY <1>1, SoundHead DEF RefsInv
<1> QED
  BY <1>1, <1>2, RefsStep DEF Proceed

\* What is left of a request after its head, as statements.
LEMMA RestIs ==
  ASSUME RefsInv, NEW j \in Jobs, job[j] # <<>>
  PROVE  /\ IsStatement(Head(job[j])) /\ StatementOK(GivenKeys, Head(job[j]))
         /\ Follows(Head(job[j]), Tail(job[j]))
         /\ \/ Tail(job[j]) = <<>>
            \/ \E t : /\ Tail(job[j]) = <<t>> /\ IsStatement(t) /\ StatementOK(GivenKeys, t)
                      /\ Follows(t, <<>>)
                      /\ t.op = "create" => Head(job[j]).op = "file" /\ t.table = "Track"
<1>1. IsStatement(Head(job[j])) /\ After(GivenKeys, Head(job[j]), Tail(job[j]))
  BY HeadIs DEF RefsInv
<1>2. /\ StatementOK(GivenKeys, Head(job[j])) /\ Follows(Head(job[j]), Tail(job[j]))
      /\ \/ Tail(job[j]) = <<>>
         \/ \E t : Tail(job[j]) = <<t>> /\ StatementOK(GivenKeys, t) /\ Follows(t, <<>>)
  BY SoundHead DEF RefsInv
<1>3. ASSUME Tail(job[j]) # <<>>
      PROVE  \E t : /\ Tail(job[j]) = <<t>> /\ IsStatement(t) /\ StatementOK(GivenKeys, t)
                    /\ Follows(t, <<>>)
                    /\ t.op = "create" => Head(job[j]).op = "file" /\ t.table = "Track"
  <2>1. PICK t : Tail(job[j]) = <<t>> /\ StatementOK(GivenKeys, t) /\ Follows(t, <<>>)
    BY <1>2, <1>3
  <2>2. PICK u : /\ Tail(job[j]) = <<u>> /\ IsStatement(u)
                 /\ u.op = "create" => Head(job[j]).op = "file" /\ u.table = "Track"
    BY <1>1, <1>3 DEF After
  <2>3. u = t
    BY <2>1, <2>2
  <2> QED
    BY <2>1, <2>2, <2>3
<1> QED
  BY <1>1, <1>2, <1>3

\* The key of a row that a request creates.
LEMMA CreatedKey ==
  ASSUME KeysTellApart, RefsInv, NEW j \in Jobs, Runs(j, "create"), NEW s, s = Head(job[j])
  PROVE  /\ s.key = New => s.table \in DOMAIN Keys
         /\ s.key # New => \/ s.table = "Track" /\ s.key \in KeysOf("Track") \cap GivenKeys
                           \/ s.table = "PlaylistTrack" /\ IsPair(s.key)
         /\ s.table \in DOMAIN Keys \ {"Track"} => s.key = New
<1>1. Alone(rows, GivenKeys, s) \/ Plain(GivenKeys, s)
  BY HeadIs DEF RefsInv, Runs
<1>2. s.op = "create"
  BY DEF Runs
<1>3. CASE Alone(rows, GivenKeys, s)
  BY <1>2, <1>3 DEF Alone, KeysTellApart
<1>4. CASE Plain(GivenKeys, s)
  <2>1. New \notin KeysOf("Track") /\ ~ IsPair(New) /\ "PlaylistTrack" \notin DOMAIN Keys
    BY DEF KeysOf, KeysTellApart, Rows
  <2> QED
    BY <1>2, <1>4, <2>1 DEF Plain
<1> QED
  BY <1>1, <1>3, <1>4

\* Nothing left is nothing left when a key is given.
LEMMA EmptyKeyed == ASSUME NEW x PROVE WithKey(<<>>, x) = <<>>
BY DEF WithKey

\* A row is created.
LEMMA CreateRefs ==
  ASSUME KeysTellApart, RefsInv, RowsInv', NEW j \in Jobs, RunCreate(j)
  PROVE  RefsInv'
<1> DEFINE s == Head(job[j])
           x == IF s.key = New THEN NewKey(s.table) ELSE s.key
           rest == Tail(job[j])
<1>1. job[j] # <<>> /\ s.op = "create" /\ Runs(j, "create")
  BY DEF RunCreate, Runs
<1>2. CASE Fail(j)
  BY <1>2, FailSound
<1>3. CASE /\ s.key = New => Unused(s.table) # {}
           /\ Accepts(rows, s.table, s.columns) /\ x \notin DOMAIN rows
           /\ rows' = Inserted(rows, x, s.table, s.columns)
           /\ used' = IF s.key = New THEN used \cup {x} ELSE used
           /\ Left(j, WithKey(rest, x))
           /\ UNCHANGED <<trackFiles, bereft, jumbled>>
  <2>1. /\ StatementOK(GivenKeys, s) /\ Follows(s, rest)
        /\ \/ rest = <<>>
           \/ \E t : rest = <<t>> /\ IsStatement(t) /\ StatementOK(GivenKeys, t) /\ Follows(t, <<>>)
    BY <1>1, RestIs
  <2>2. RefsOK(rows')
    <3>1. s.table \in DOMAIN Models /\ DOMAIN Models[s.table] \subseteq DOMAIN s.columns
      BY <1>1, <2>1 DEF StatementOK
    <3> HIDE DEF x
    <3> QED
      BY <1>3, <3>1, RefsInserted DEF RefsInv
  <2>3. s.key = New => s.table \in DOMAIN Keys
    BY <1>1, CreatedKey
  <2>4. s.key = New => x \in Keys[s.table]
    BY <1>3, <2>3, NewKeyIs
  <2>5. UsedOK' /\ used \subseteq used' /\ GivenKeys \subseteq GivenKeys' /\ (s.key = New => x \in GivenKeys')
    BY <1>3, <2>3, <2>4 DEF UsedOK, RefsInv, GivenKeys
  <2>6. s.key # New => s.table \in {"Track", "PlaylistTrack"}
    BY <1>1, CreatedKey
  <2>7. JobSound(GivenKeys', WithKey(rest, x))
    <3>1. CASE rest = <<>>
      BY <3>1, EmptyKeyed DEF JobSound
    <3>2. ASSUME NEW t, rest = <<t>>, IsStatement(t), StatementOK(GivenKeys, t), Follows(t, <<>>)
          PROVE  JobSound(GivenKeys', WithKey(rest, x))
      <4>1. rest # <<>>
        BY <3>2
      <4>2. x \in GivenKeys' \/ t.op = "update"
        BY <1>1, <2>1, <2>5, <2>6, <3>2, <4>1 DEF Follows
      <4>3. JobSound(GivenKeys', rest)
        BY <1>1, <2>5, SoundHead, SoundMore DEF RefsInv
      <4>4. StatementOK(GivenKeys', t)
        <5>1. JobSound(GivenKeys, <<t>>)
          BY <3>2 DEF JobSound
        <5>2. JobSound(GivenKeys', <<t>>)
          BY <2>5, <5>1, SoundMore
        <5>3. Head(<<t>>) = t /\ <<t>> # <<>>
          OBVIOUS
        <5> HIDE DEF s, x, rest
        <5> QED
          BY <5>2, <5>3, SoundHead
      <4> HIDE DEF s, x, rest
      <4>5. JobSound(GivenKeys', WithKey(<<t>>, x))
        BY <3>2, <4>2, <4>4, KeyedSound
      <4> QED
        BY <3>2, <4>5
    <3> QED
      BY <2>1, <3>1, <3>2
  <2> HIDE DEF s, x, rest
  <2> QED
    BY <1>3, <2>2, <2>5, <2>7, RefsStep DEF Left
<1> QED
  BY <1>2, <1>3 DEF RunCreate

\* What changing a row does: a slot that is given a playlist goes on to assign it.
LEMMA UpdateIs ==
  ASSUME NEW j \in Jobs, RunUpdate(j), ~ Fail(j)
  PROVE  LET s == Head(job[j])
             later == Updated(rows, s.key, s.columns)
             c == later[s.key].columns IN
         /\ s.key \in DOMAIN rows /\ Accepts(later, s.table, c) /\ rows' = later
         /\ bereft' = IF s.table = "User" \/ NamesPlaylist(s) THEN bereft \ {s.key}
                      ELSE IF MovesSlot(s) THEN bereft \cup {s.key} ELSE bereft
         /\ UNCHANGED <<used, trackFiles, jumbled>>
         /\ \/ Proceed(j) /\ ~ NamesPlaylist(s)
            \/ NamesPlaylist(s) /\ job' = [job EXCEPT ![j] = <<Ensure(c.zone, c.playlist)>>]
BY DEF RunUpdate, AfterUpdate, Left, Proceed

\* A request goes on to assign a playlist.
LEMMA EnsureSound ==
  ASSUME NEW z, NEW p
  PROVE  JobSound(GivenKeys, <<Ensure(z, p)>>)
<1> DEFINE t == Ensure(z, p)
<1>1. Fits(t, <<>>)
  BY EnsureFits
<1> HIDE DEF t
<1>2. JobSound(GivenKeys, <<t>>)
  BY <1>1 DEF Fits, JobSound
<1> QED
  BY <1>2 DEF t

\* A row is changed.
LEMMA UpdateRefs ==
  ASSUME KeysTellApart, RefsInv, RowsInv', NEW j \in Jobs, RunUpdate(j)
  PROVE  RefsInv'
<1> DEFINE s == Head(job[j])
           later == Updated(rows, s.key, s.columns)
<1>1. job[j] # <<>> /\ s.op = "update"
  BY DEF RunUpdate, Runs
<1>2. CASE Fail(j)
  BY <1>2, FailSound
<1>3. CASE ~ Fail(j)
  <2> DEFINE q == <<Ensure(later[s.key].columns.zone, later[s.key].columns.playlist)>>
  <2>1. /\ s.key \in DOMAIN rows /\ Accepts(later, s.table, later[s.key].columns)
        /\ rows' = later /\ used' = used
        /\ Proceed(j) \/ job' = [job EXCEPT ![j] = q]
    BY <1>3, UpdateIs
  <2>2. DOMAIN rows[s.key] = {"table", "columns"} /\ DbOK(rows, GivenKeys, bereft)
    BY <2>1 DEF RefsInv, RowsInv, DbOK
  <2>3. IsUpdated(rows, s.key, s.columns, later)
    BY <2>1, <2>2, UpdatedAre
  <2>4. s.table \in DOMAIN Keys /\ s.key \in KeysOf(s.table)
    BY <1>1, RestIs DEF StatementOK
  <2>5. rows[s.key].table = s.table
    BY <2>1, <2>2, <2>4, TableOfKey
  <2>6. JobSound(GivenKeys, q)
    BY EnsureSound
  <2> HIDE DEF later, q
  <2>7. RefsOK(later)
    BY <2>1, <2>3, <2>5, RefsUpdated DEF RefsInv
  <2>8. GivenKeys' = GivenKeys /\ UsedOK'
    BY <2>1 DEF GivenKeys, UsedOK, RefsInv
  <2>9. CASE Proceed(j)
    BY <1>1, <2>1, <2>7, <2>9, ProceedSound
  <2>10. CASE job' = [job EXCEPT ![j] = q]
    BY <2>1, <2>6, <2>7, <2>8, <2>10, RefsStep
  <2> QED
    BY <2>1, <2>9, <2>10
<1> QED
  BY <1>2, <1>3

\* A row is deleted, with the rows that go along with it.
LEMMA DeleteRefs ==
  ASSUME RefsInv, RowsInv', NEW j \in Jobs, RunDelete(j) \/ RunClear(j)
  PROVE  RefsInv'
<1>1. IsFiniteSet(DOMAIN rows) /\ \A x \in DOMAIN rows : DOMAIN rows[x] = {"table", "columns"}
  BY DEF RefsInv, RowsInv, DbOK
<1>2. job[j] # <<>>
  BY DEF RunDelete, RunClear, Runs
<1>3. Fail(j) \/ ((rows' = rows \/ \E X : rows' = Deleted(rows, X)) /\ Proceed(j) /\ used' = used)
  BY DEF RunDelete, RunClear
<1>4. \A X : RefsOK(Deleted(rows, X))
  BY <1>1, RefsDeleted DEF RefsInv
<1>5. RefsOK(rows)
  BY DEF RefsInv
<1> QED
  BY <1>2, <1>3, <1>4, <1>5, FailSound, ProceedSound

\* The tracks of a playlist are replaced, row by row.
Listed(p, tracks) == {<<p, tracks[i]>> : i \in DOMAIN tracks}

ListedRow(x, row, p, tracks) ==
  /\ row.table = "PlaylistTrack"
  /\ \E i \in DOMAIN tracks :
       /\ x = <<p, tracks[i]>>
       /\ row.columns = [playlist |-> p, track |-> tracks[i], position |-> i - 1]

IsReplaced(kept, p, tracks, later) ==
  /\ DOMAIN later = DOMAIN kept \cup Listed(p, tracks)
  /\ \A x \in Listed(p, tracks) : ListedRow(x, later[x], p, tracks)
  /\ \A x \in DOMAIN kept : x \notin Listed(p, tracks) => later[x] = kept[x]

\* What replacing the tracks of a playlist does to the rows.
LEMMA ReplaceIs ==
  ASSUME NEW j \in Jobs, RunReplace(j), ~ Fail(j)
  PROVE  LET p == Head(job[j]).key
             tracks == Head(job[j]).columns
             kept == Deleted(rows, TracksOf(p)) IN
         /\ IsReplaced(kept, p, tracks, rows')
         /\ \A i \in DOMAIN tracks :
              Accepts(kept, "PlaylistTrack",
                      [playlist |-> p, track |-> tracks[i], position |-> i - 1])
         /\ jumbled' = IF \E k \in Jobs \ {j} : Writes(k, p) THEN jumbled ELSE jumbled \ {p}
         /\ Proceed(j) /\ UNCHANGED <<used, trackFiles, bereft>>
<1> DEFINE p == Head(job[j]).key
           tracks == Head(job[j]).columns
           kept == Deleted(rows, TracksOf(p))
           Item(i) == [playlist |-> p, track |-> tracks[i], position |-> i - 1]
           items == {<<p, tracks[i]>> : i \in DOMAIN tracks}
           row(x) == [table |-> "PlaylistTrack",
                      columns |-> Item(CHOOSE i \in DOMAIN tracks : x = <<p, tracks[i]>>)]
<1>1. /\ rows' = [x \in DOMAIN kept \cup items |-> IF x \in items THEN row(x) ELSE kept[x]]
      /\ \A i \in DOMAIN tracks : Accepts(kept, "PlaylistTrack", Item(i))
      /\ jumbled' = IF \E k \in Jobs \ {j} : Writes(k, p) THEN jumbled ELSE jumbled \ {p}
      /\ Proceed(j) /\ UNCHANGED <<used, trackFiles, bereft>>
  BY DEF RunReplace
<1>2. ASSUME NEW x \in items
      PROVE  ListedRow(x, row(x), p, tracks)
  <2>1. \E i \in DOMAIN tracks : x = <<p, tracks[i]>>
    OBVIOUS
  <2> DEFINE k == CHOOSE i \in DOMAIN tracks : x = <<p, tracks[i]>>
  <2>2. k \in DOMAIN tracks /\ x = <<p, tracks[k]>>
    BY <2>1
  <2>3. row(x).table = "PlaylistTrack" /\ row(x).columns = Item(k)
    OBVIOUS
  <2> HIDE DEF k, row
  <2> QED
    BY <2>2, <2>3 DEF ListedRow
<1>5. items = Listed(p, tracks)
  BY DEF Listed
<1> HIDE DEF row, items, kept
<1>3. /\ DOMAIN rows' = DOMAIN kept \cup items
      /\ \A x \in items : rows'[x] = row(x)
      /\ \A x \in DOMAIN kept : x \notin items => rows'[x] = kept[x]
  BY <1>1
<1>4. IsReplaced(kept, p, tracks, rows')
  BY <1>2, <1>3, <1>5 DEF IsReplaced
<1> QED
  BY <1>1, <1>4 DEF kept

\* The rows of other tables are as they were left.
LEMMA ReplacedTables ==
  ASSUME KeysTellApart, NEW kept, NEW given, NEW lost, DbOK(kept, given, lost), NEW p, NEW tracks,
         NEW later, IsReplaced(kept, p, tracks, later)
  PROVE  /\ \A x \in Listed(p, tracks) : later[x].table = "PlaylistTrack"
         /\ \A x \in DOMAIN kept : x \in Listed(p, tracks) => kept[x].table = "PlaylistTrack"
         /\ \A t : Rows(kept, t) \subseteq Rows(later, t)
         /\ \A t : t # "PlaylistTrack" => /\ Rows(later, t) = Rows(kept, t)
                                          /\ \A x \in Rows(kept, t) : later[x] = kept[x]
<1>1. \A x \in Listed(p, tracks) : IsPair(x)
  BY DEF Listed, IsPair
<1>2. \A x \in Listed(p, tracks) : later[x].table = "PlaylistTrack"
  BY DEF IsReplaced, ListedRow
<1>3. \A x \in DOMAIN kept : x \in Listed(p, tracks) => kept[x].table = "PlaylistTrack"
  BY <1>1, TableOfPair
<1> QED
  BY <1>2, <1>3 DEF IsReplaced, Rows

\* The tracks of a playlist are replaced.
LEMMA ReplaceRefs ==
  ASSUME KeysTellApart, RefsInv, RowsInv', NEW j \in Jobs, RunReplace(j)
  PROVE  RefsInv'
<1> DEFINE p == Head(job[j]).key
           tracks == Head(job[j]).columns
           kept == Deleted(rows, TracksOf(p))
           Item(i) == [playlist |-> p, track |-> tracks[i], position |-> i - 1]
<1>1. CASE Fail(j)
  BY <1>1, FailSound
<1>2. CASE ~ Fail(j)
  <2>1. /\ IsReplaced(kept, p, tracks, rows')
        /\ \A i \in DOMAIN tracks : Accepts(kept, "PlaylistTrack", Item(i))
        /\ Proceed(j) /\ used' = used
    BY <1>2, ReplaceIs
  <2>2. \A x \in TracksOf(p) : x \in DOMAIN rows /\ rows[x].table = "PlaylistTrack"
    BY DEF TracksOf, Tables, Rows
  <2>3. DbOK(kept, GivenKeys, bereft)
    BY <2>2, TracksGoAlone DEF RefsInv, RowsInv
  <2>4. RefsOK(kept)
    BY RefsDeleted DEF RefsInv, RowsInv, DbOK
  <2>5. /\ \A t : Rows(kept, t) \subseteq Rows(rows', t)
        /\ \A x \in DOMAIN kept : x \in Listed(p, tracks) => kept[x].table = "PlaylistTrack"
    BY <2>1, <2>3, ReplacedTables
  <2>6. ASSUME NEW x \in Listed(p, tracks)
        PROVE  rows'[x].table \in DOMAIN Models /\ RefersOK(rows', rows'[x].table, rows'[x].columns)
    <3>1. PICK i \in DOMAIN tracks : rows'[x].columns = Item(i) /\ rows'[x].table = "PlaylistTrack"
      BY <2>1 DEF IsReplaced, ListedRow
    <3> DEFINE t == "PlaylistTrack"
               c == Item(i)
    <3>2. t \in DOMAIN Models /\ DOMAIN Models[t] \subseteq DOMAIN c /\ Accepts(kept, t, c)
      BY <2>1, ColumnsAre
    <3>3. rows'[x].table = t /\ rows'[x].columns = c
      BY <3>1
    <3> HIDE DEF t, c, kept
    <3>4. RefersOK(rows', t, c)
      BY <2>5, <3>2, AcceptedRefers, RefersStays
    <3> QED
      BY <3>2, <3>3, <3>4
  <2>7. ASSUME NEW x \in DOMAIN kept, x \notin Listed(p, tracks)
        PROVE  rows'[x].table \in DOMAIN Models /\ RefersOK(rows', rows'[x].table, rows'[x].columns)
    <3>1. rows'[x] = kept[x]
      BY <2>1, <2>7 DEF IsReplaced
    <3> HIDE DEF kept
    <3> QED
      BY <2>4, <2>5, <2>7, <3>1, RefersStays DEF RefsOK
  <2>8. RefsOK(rows')
    BY <2>1, <2>6, <2>7 DEF RefsOK, IsReplaced
  <2>9. job[j] # <<>>
    BY DEF RunReplace, Runs
  <2> QED
    BY <2>1, <2>8, <2>9, ProceedSound
<1> QED
  BY <1>1, <1>2

\* A playlist is copied with its tracks in an order of theirs.
CopyOf(s) == Statement("create", "Playlist", New, s.columns)

Copied(q) == [n \in DOMAIN q |-> rows[q[n]].columns.track]

\* What reading the tracks of a playlist to copy leaves for the request to run.
LEMMA CopyIs ==
  ASSUME NEW j \in Jobs, RunCopy(j), NEW s, s = Head(job[j])
  PROVE  /\ UNCHANGED <<rows, used, trackFiles, bereft, jumbled>>
         /\ \E q \in SetToSeqs(TracksOf(s.key)) :
              \/ job' = [job EXCEPT ![j] = <<CopyOf(s)>>]
              \/ job' = [job EXCEPT ![j] = <<CopyOf(s), Replacement(New, Copied(q))>>]
<1> DEFINE At(x) == rows[x].columns.position
           Ordered(q) == \A m, n \in DOMAIN q : m < n => At(q[m]) <= At(q[n])
           t == CopyOf(Head(job[j]))
           u(q) == Replacement(New, Copied(q))
<1>1. PICK q \in SetToSeqs(TracksOf(Head(job[j]).key)) :
        job' = [job EXCEPT ![j] = <<t>> \o (IF q = <<>> THEN <<>> ELSE <<u(q)>>)]
  BY DEF RunCopy, Left, CopyOf, Copied
<1> DEFINE v == u(q)
<1> HIDE DEF t, u, v
<1>2. job' = [job EXCEPT ![j] = <<t>>] \/ job' = [job EXCEPT ![j] = <<t, v>>]
  BY <1>1, Concatenated DEF v
<1>3. UNCHANGED <<rows, used, trackFiles, bereft, jumbled>>
  BY DEF RunCopy
<1> QED
  BY <1>1, <1>2, <1>3 DEF t, u, v

\* The tracks of a playlist to copy are read.
LEMMA CopyRefs ==
  ASSUME RefsInv, RowsInv', NEW j \in Jobs, RunCopy(j)
  PROVE  RefsInv'
<1> DEFINE s == Head(job[j])
           t == CopyOf(s)
           u(q) == Replacement(New, Copied(q))
<1>1. job[j] # <<>> /\ s.op = "copy"
  BY DEF RunCopy, Runs
<1>2. "organization" \in DOMAIN s.columns
  BY <1>1, RestIs DEF StatementOK
<1> HIDE DEF s
<1>3. t.op = "create" /\ t.table = "Playlist" /\ t.key = New /\ t.columns = s.columns
  BY StatementFields DEF CopyOf
<1>4. t.table \in DOMAIN Models /\ DOMAIN Models[t.table] \subseteq DOMAIN t.columns
  BY <1>2, <1>3, ColumnsAre
<1> HIDE DEF t
<1>5. StatementOK(GivenKeys, t) /\ \A rest : Follows(t, rest)
  BY <1>3, <1>4 DEF StatementOK, Follows, Ops
<1>6. \A q : StatementOK(GivenKeys, u(q)) /\ Follows(u(q), <<>>)
  <2> SUFFICES ASSUME NEW q
               PROVE  StatementOK(GivenKeys, u(q)) /\ Follows(u(q), <<>>)
    OBVIOUS
  <2> DEFINE v == u(q)
  <2>1. v.op = "replace" /\ v.table = "Playlist" /\ v.key = New
    BY StatementFields DEF Replacement
  <2> HIDE DEF v
  <2>2. StatementOK(GivenKeys, v) /\ Follows(v, <<>>)
    BY <2>1 DEF StatementOK, Follows, Ops
  <2> QED
    BY <2>2 DEF v
<1>7. PICK q \in SetToSeqs(TracksOf(s.key)) :
              \/ job' = [job EXCEPT ![j] = <<t>>]
              \/ job' = [job EXCEPT ![j] = <<t, u(q)>>]
  BY CopyIs DEF s, t
<1> DEFINE v == u(q)
<1>8. StatementOK(GivenKeys, v) /\ Follows(v, <<>>)
  BY <1>6
<1>9. job' = [job EXCEPT ![j] = <<t>>] \/ job' = [job EXCEPT ![j] = <<t, v>>]
  BY <1>7
<1> HIDE DEF v
<1>10. JobSound(GivenKeys, <<t>>) /\ JobSound(GivenKeys, <<t, v>>)
  BY <1>5, <1>8 DEF JobSound
<1>11. rows' = rows /\ used' = used
  BY CopyIs
<1> QED
  BY <1>9, <1>10, <1>11, RefsSame

\* The other statements.
LEMMA OtherRefs ==
  ASSUME KeysTellApart, RefsInv, RowsInv', NEW j \in Jobs,
         ScopeUser(j) \/ RunEnsure(j) \/ RunFile(j) \/ RunUnlink(j)
  PROVE  RefsInv'
<1>1. JobSound(GivenKeys, <<>>)
  BY DEF JobSound
<1>2. CASE ScopeUser(j)
  <2> DEFINE s == Head(job[j])
  <2>1. job[j] # <<>> /\ s.op = "scope" /\ rows' = rows /\ used' = used
    BY <1>2 DEF ScopeUser
  <2>2. \/ job' = [job EXCEPT ![j] = <<>>]
        \/ \E c : job' = [job EXCEPT ![j] = <<Statement("update", "User", s.key, c)>>]
    BY <1>2 DEF ScopeUser
  <2>3. s.key \in KeysOf("User") /\ s.key \in GivenKeys
    BY <2>1, RestIs DEF StatementOK
  <2> HIDE DEF s
  <2>4. ASSUME NEW c, NEW t, t = Statement("update", "User", s.key, c)
        PROVE  JobSound(GivenKeys, <<t>>)
    <3>1. t.op = "update" /\ t.table = "User" /\ t.key = s.key
      BY <2>4, StatementFields
    <3>2. StatementOK(GivenKeys, t) /\ Follows(t, <<>>)
      BY <2>3, <3>1 DEF StatementOK, Follows, Ops, KeysTellApart
    <3> QED
      BY <3>2 DEF JobSound
  <2> QED
    BY <1>1, <2>1, <2>2, <2>4, RefsSame
<1>3. CASE RunEnsure(j)
  <2> DEFINE c == Head(job[j]).columns
             z == c.target
             p == c.playlist
             t == Assignment(z, p)
  <2>1. rows' = rows /\ used' = used
        /\ (job' = [job EXCEPT ![j] = <<>>] \/ job' = [job EXCEPT ![j] = <<t>>])
    BY <1>3 DEF RunEnsure, Left
  <2> HIDE DEF z, p
  <2>2. Fits(t, <<>>)
    BY AssignmentFits
  <2> HIDE DEF t
  <2>3. JobSound(GivenKeys, <<t>>)
    BY <2>2 DEF JobSound, Fits
  <2> QED
    BY <1>1, <2>1, <2>3, RefsSame
<1>4. CASE RunFile(j)
  <2> DEFINE x == NewKey("Track")
             rest == Tail(job[j])
  <2>1. /\ job[j] # <<>> /\ Unused("Track") # {} /\ rows' = rows
        /\ used' = used \cup {x} /\ job' = [job EXCEPT ![j] = WithKey(rest, x)]
    BY <1>4 DEF RunFile, Runs, Left
  <2>2. x \in Keys["Track"] /\ "Track" \in DOMAIN Keys
    BY <2>1, NewKeyIs DEF KeysTellApart
  <2> HIDE DEF x
  <2>3. GivenKeys \subseteq GivenKeys' /\ x \in GivenKeys' /\ used \subseteq used' /\ UsedOK'
    BY <2>1, <2>2 DEF GivenKeys, UsedOK, RefsInv
  <2>4. RefsOK(rows')
    BY <2>1 DEF RefsInv
  <2>5. JobSound(GivenKeys', WithKey(rest, x))
    <3>1. CASE rest = <<>>
      BY <3>1, EmptyKeyed DEF JobSound
    <3>2. CASE rest # <<>>
      <4>1. PICK t : rest = <<t>> /\ IsStatement(t)
        BY <2>1, <3>2, RestIs
      <4>2. JobSound(GivenKeys', rest)
        BY <2>1, <2>3, SoundHead, SoundMore DEF RefsInv
      <4> HIDE DEF rest
      <4>3. StatementOK(GivenKeys', t) /\ Follows(t, <<>>)
        <5>1. Head(<<t>>) = t /\ Tail(<<t>>) = <<>> /\ <<t>> # <<>>
          OBVIOUS
        <5> QED
          BY <4>1, <4>2, <5>1, SoundHead
      <4> QED
        BY <2>3, <4>1, <4>3, KeyedSound
    <3> QED
      BY <3>1, <3>2
  <2> HIDE DEF rest
  <2> QED
    BY <2>1, <2>3, <2>4, <2>5, RefsStep
<1>5. CASE RunUnlink(j)
  <2>1. job[j] # <<>> /\ Proceed(j) /\ used' = used /\ rows' = rows
    BY <1>5 DEF RunUnlink, Runs
  <2>2. RefsOK(rows')
    BY <2>1 DEF RefsInv
  <2> QED
    BY <2>1, <2>2, ProceedSound
<1> QED
  BY <1>2, <1>3, <1>4, <1>5

\* A restart ends the requests in progress and leaves the rows.
LEMMA RestartRefs ==
  ASSUME RefsInv, RowsInv', Restart
  PROVE  RefsInv'
<1>1. rows' = rows /\ GivenKeys' = GivenKeys /\ used' = used /\ job' = [j \in Jobs |-> <<>>]
  BY DEF Restart, GivenKeys
<1>2. \A j \in Jobs : JobSound(GivenKeys', job'[j])
  BY <1>1 DEF JobSound
<1>3. UsedOK' /\ RefsOK(rows)'
  BY <1>1 DEF RefsInv, UsedOK
<1> QED
  BY <1>2, <1>3 DEF RefsInv

\* A request begins.
LEMMA BeginsRefs ==
  ASSUME RefsInv, RowsInv', NEW j \in Jobs, NEW q, Begins(j, q)
  PROVE  RefsInv'
BY RefsSame DEF Begins, Request, FreeJob

\* Every step is one of these.
LEMMA StepsAre ==
  ASSUME KeysTellApart, RefsInv, PortalRowsNext
  PROVE  Restart \/ \E j \in Jobs : Statements(j) \/ \E q : Begins(j, q)
<1>1. Restart \/ \E j \in Jobs : \/ TenantRequests(j) \/ ListRequests(j) \/ Statements(j)
                                 \/ \E s \in Tables("MusicServer") : ReportZone(j, s)
  BY DEF PortalRowsNext, TenantNext, ListNext
<1> QED
  BY <1>1, RequestsBegin DEF RefsInv

\* Each step keeps the references and what requests know.
LEMMA RefsKept ==
  ASSUME KeysTellApart, RefsInv, [PortalRowsNext]_rowVars
  PROVE  RefsInv'
<1>1. RowsInv'
  BY RowsStep DEF RefsInv
<1>2. CASE PortalRowsNext
  BY <1>1, <1>2, StepsAre, RestartRefs, BeginsRefs, CreateRefs, UpdateRefs, DeleteRefs, CopyRefs,
     ReplaceRefs, OtherRefs DEF Statements
<1>3. CASE UNCHANGED rowVars
  <2>1. rows' = rows /\ used' = used /\ job' = job /\ GivenKeys' = GivenKeys
    BY <1>3 DEF rowVars, GivenKeys
  <2> QED
    BY <1>1, <2>1 DEF RefsInv, UsedOK
<1> QED
  BY <1>2, <1>3

-----------------------------------------------------------------------------
(* Rows about what is played, and what deletions take of them               *)

\* The foreign keys between what is played and where.
LEMMA ListKeys ==
  /\ ForeignKey("Schedule", "zone", "Zone", "Cascade") \in Enforced
  /\ ForeignKey("Schedule", "playlist", "Playlist", "Cascade") \in Enforced
  /\ ForeignKey("PlaylistTrack", "playlist", "Playlist", "Cascade") \in Enforced
  /\ ForeignKey("PlaylistTrack", "track", "Track", "Cascade") \in Enforced
  /\ ForeignKey("PlaylistAssignment", "playlist", "Playlist", "Cascade") \in Enforced
BY EnforcedAre DEF InitKeys

\* What rows about what is played refer to.
LEMMA ListColumns ==
  ASSUME NEW db, RefsOK(db), NEW x \in DOMAIN db
  PROVE  /\ db[x].table = "Schedule" =>
              /\ "zone" \in DOMAIN db[x].columns /\ "playlist" \in DOMAIN db[x].columns
              /\ db[x].columns.playlist \in Rows(db, "Playlist")
         /\ db[x].table = "PlaylistTrack" =>
              /\ "playlist" \in DOMAIN db[x].columns /\ "track" \in DOMAIN db[x].columns
              /\ db[x].columns.playlist \in Rows(db, "Playlist")
              /\ db[x].columns.track \in Rows(db, "Track")
         /\ db[x].table = "PlaylistAssignment" =>
              /\ "playlist" \in DOMAIN db[x].columns
              /\ db[x].columns.playlist \in Rows(db, "Playlist")
<1>1. ASSUME NEW t, NEW c, NEW to, db[x].table = t, <<t, c>> \notin MayBeNull,
             ForeignKey(t, c, to, "Cascade") \in Enforced
      PROVE  c \in DOMAIN db[x].columns /\ db[x].columns[c] \in Rows(db, to)
  <2> DEFINE k == ForeignKey(t, c, to, "Cascade")
  <2>1. k.table = t /\ k.column = c /\ k.to = to
    BY DEF ForeignKey
  <2> HIDE DEF k
  <2> QED
    BY <1>1, <2>1 DEF RefsOK, RefersOK, NamesRow, k
<1>2. /\ <<"Schedule", "zone">> \notin MayBeNull /\ <<"Schedule", "playlist">> \notin MayBeNull
      /\ <<"PlaylistTrack", "playlist">> \notin MayBeNull
      /\ <<"PlaylistTrack", "track">> \notin MayBeNull
      /\ <<"PlaylistAssignment", "playlist">> \notin MayBeNull
  BY NullsAre
<1>3. ASSUME db[x].table = "Schedule"
      PROVE  /\ "zone" \in DOMAIN db[x].columns /\ "playlist" \in DOMAIN db[x].columns
             /\ db[x].columns.playlist \in Rows(db, "Playlist")
  BY <1>1, <1>2, <1>3, ListKeys
<1>4. ASSUME db[x].table = "PlaylistTrack"
      PROVE  /\ "playlist" \in DOMAIN db[x].columns /\ "track" \in DOMAIN db[x].columns
             /\ db[x].columns.playlist \in Rows(db, "Playlist")
             /\ db[x].columns.track \in Rows(db, "Track")
  BY <1>1, <1>2, <1>4, ListKeys
<1>5. ASSUME db[x].table = "PlaylistAssignment"
      PROVE  /\ "playlist" \in DOMAIN db[x].columns
             /\ db[x].columns.playlist \in Rows(db, "Playlist")
  BY <1>1, <1>2, <1>5, ListKeys
<1> QED
  BY <1>3, <1>4, <1>5

\* What rows about what is played go with.
LEMMA ListKeysAre ==
  ASSUME NEW k \in Enforced, k.rule = "Cascade"
  PROVE  /\ k.table # "Track"
         /\ k.table = "PlaylistAssignment" => k.column = "playlist"
         /\ k.table = "PlaylistTrack" => \/ k.column = "playlist"
                                         \/ k.column = "track" /\ k.to = "Track"
<1>1. /\ k.column \in DOMAIN Models[k.table]
      /\ Models[k.table][k.column].to = k.to /\ Models[k.table][k.column].rule = "Cascade"
  BY KeysAreModels
<1>2. Models["Track"] = Track /\ Models["PlaylistAssignment"] = PlaylistAssignment
      /\ Models["PlaylistTrack"] = PlaylistTrack
  BY DEF Models
<1>3. k.table # "Track"
  BY <1>1, <1>2 DEF Track, SetNull
<1>4. k.table = "PlaylistAssignment" => k.column = "playlist"
  BY <1>1, <1>2 DEF PlaylistAssignment
<1>5. k.table = "PlaylistTrack" => \/ k.column = "playlist"
                                   \/ k.column = "track" /\ k.to = "Track"
  BY <1>1, <1>2 DEF PlaylistTrack, Cascade
<1> QED
  BY <1>3, <1>4, <1>5

\* An assignment goes with its playlist; a track in a playlist with that or with the track.
LEMMA DeletedLists ==
  ASSUME NEW db, IsFiniteSet(DOMAIN db), RefsOK(db), NEW X,
         \A x \in X : x \in DOMAIN db /\ db[x].table # "PlaylistAssignment"
  PROVE  /\ \A y \in Rows(db, "PlaylistAssignment") :
              y \in Doomed(db, X) => db[y].columns.playlist \in Doomed(db, X)
         /\ \A y \in Rows(db, "PlaylistTrack") :
              y \in Doomed(db, X) => \/ y \in X
                                     \/ db[y].columns.playlist \in Doomed(db, X)
                                     \/ db[y].columns.track \in X
<1> DEFINE gone == Doomed(db, X)
           S == {y \in gone :
                   \/ y \in X
                   \/ /\ db[y].table # "Track"
                      /\ db[y].table = "PlaylistAssignment" => db[y].columns.playlist \in gone
                      /\ db[y].table = "PlaylistTrack" => \/ db[y].columns.playlist \in gone
                                                          \/ db[y].columns.track \in X}
<1>1. X \subseteq gone /\ Closed(db, gone) /\ \A T : X \subseteq T /\ Closed(db, T) => gone \subseteq T
  BY DoomedLeast
<1> HIDE DEF gone
<1>2. Closed(db, S)
  <2> SUFFICES ASSUME NEW y \in DOMAIN db, GoesWith(db, y, S)
               PROVE  y \in S
    BY DEF Closed
  <2>1. PICK k \in Enforced : k.table = db[y].table /\ k.rule = "Cascade"
                              /\ db[y].columns[k.column] \in S
    BY DEF GoesWith
  <2>2. db[y].columns[k.column] \in gone
    BY <2>1
  <2>3. y \in gone
    BY <1>1, <2>1, <2>2 DEF Closed, GoesWith
  <2>4. ASSUME db[y].table = "PlaylistTrack", k.column = "track", k.to = "Track"
        PROVE  db[y].columns.track \in X
    <3>1. db[y].columns.track \in Rows(db, "Track")
      BY <2>4, ListColumns
    <3> QED
      BY <2>1, <2>4, <3>1 DEF Rows
  <2>5. /\ db[y].table # "Track"
        /\ db[y].table = "PlaylistAssignment" => k.column = "playlist"
        /\ db[y].table = "PlaylistTrack" => \/ k.column = "playlist"
                                            \/ k.column = "track" /\ k.to = "Track"
    BY <2>1, ListKeysAre
  <2> QED
    BY <2>2, <2>3, <2>4, <2>5
<1>3. gone \subseteq S
  BY <1>1, <1>2
<1>4. \A y \in Rows(db, "PlaylistAssignment") : y \in gone => db[y].columns.playlist \in gone
  BY <1>3 DEF Rows
<1>5. \A y \in Rows(db, "PlaylistTrack") :
        y \in gone => y \in X \/ db[y].columns.playlist \in gone \/ db[y].columns.track \in X
  BY <1>3 DEF Rows
<1> QED
  BY <1>4, <1>5 DEF gone

\* An assignment that stays keeps what it says.
LEMMA AssignmentLeft ==
  ASSUME NEW db, \A x \in DOMAIN db : DOMAIN db[x] = {"table", "columns"}, NEW X,
         NEW gone, gone = Doomed(db, X), NEW x \in Rows(db, "PlaylistAssignment"), x \notin gone,
         NEW p, NEW z, db[x].columns = [playlist |-> p, target |-> z], p \notin gone
  PROVE  /\ x \in Rows(Deleted(db, X), "PlaylistAssignment")
         /\ Deleted(db, X)[x].columns = [playlist |-> p, target |-> z]
<1> DEFINE old == db[x].columns
           new == [c \in DOMAIN old |->
                     IF c \in DOMAIN References["PlaylistAssignment"] /\ old[c] \in gone THEN Null
                     ELSE old[c]]
<1>1. x \in DOMAIN db /\ db[x].table = "PlaylistAssignment"
  BY DEF Rows
<1>2. x \in DOMAIN Deleted(db, X) /\ Deleted(db, X)[x] = [db[x] EXCEPT !.columns = new]
  BY <1>1 DEF Deleted
<1>3. x \in Rows(Deleted(db, X), "PlaylistAssignment")
  <2> DEFINE later == Deleted(db, X)
  <2>1. IsLeft(db, gone, later)
    BY DeletedAre
  <2> HIDE DEF later
  <2>2. x \in Rows(later, "PlaylistAssignment")
    BY <1>1, <2>1 DEF IsLeft, Rows
  <2> QED
    BY <2>2 DEF later
<1>4. DOMAIN References["PlaylistAssignment"] = {"playlist"}
  BY TableReferences, ColumnsAre
<1>5. new = [playlist |-> p, target |-> z]
  BY <1>4
<1>6. Deleted(db, X)[x].columns = new
  <2> HIDE DEF new
  <2> QED
    BY <1>1, <1>2
<1> QED
  BY <1>3, <1>5, <1>6

\* So does a slot.
LEMMA ScheduleLeft ==
  ASSUME NEW db, IsFiniteSet(DOMAIN db), \A x \in DOMAIN db : DOMAIN db[x] = {"table", "columns"},
         RefsOK(db), NEW X, NEW s \in Rows(Deleted(db, X), "Schedule")
  PROVE  /\ s \in Rows(db, "Schedule")
         /\ Deleted(db, X)[s].columns.zone = db[s].columns.zone
         /\ Deleted(db, X)[s].columns.playlist = db[s].columns.playlist
         /\ db[s].columns.playlist \notin Doomed(db, X)
<1> DEFINE gone == Doomed(db, X)
           later == Deleted(db, X)
<1>1. IsLeft(db, gone, later) /\ Closed(db, gone)
  BY DeletedAre, DoomedLeast
<1>2. s \in DOMAIN later
  BY DEF Rows
<1>3. s \in DOMAIN db /\ s \notin gone /\ db[s].table = "Schedule" /\ later[s].table = db[s].table
  BY <1>1, <1>2 DEF Rows, IsLeft
<1>4. "zone" \in DOMAIN db[s].columns /\ "playlist" \in DOMAIN db[s].columns
  BY <1>3, ListColumns
<1> HIDE DEF gone, later
<1>5. ASSUME NEW c, NEW to, ForeignKey("Schedule", c, to, "Cascade") \in Enforced
      PROVE  db[s].columns[c] \notin gone
  <2> DEFINE k == ForeignKey("Schedule", c, to, "Cascade")
  <2>1. k.table = "Schedule" /\ k.column = c /\ k.rule = "Cascade"
    BY DEF ForeignKey
  <2> HIDE DEF k
  <2> QED
    BY <1>1, <1>3, <1>5, <2>1, Stays DEF k
<1>6. db[s].columns.zone \notin gone /\ db[s].columns.playlist \notin gone
  BY <1>5, ListKeys
<1>7. later[s].columns.zone = db[s].columns.zone /\ later[s].columns.playlist = db[s].columns.playlist
  BY <1>1, <1>3, <1>4, <1>6 DEF IsLeft
<1>8. s \in Rows(db, "Schedule")
  BY <1>3 DEF Rows
<1> QED
  BY <1>6, <1>7, <1>8 DEF gone, later

-----------------------------------------------------------------------------
(* What is scheduled is assigned, or is about to be                         *)

IsAssigned(db, z, p) ==
  \E x \in Rows(db, "PlaylistAssignment") : db[x].columns = [playlist |-> p, target |-> z]

Covers(q, z, p) ==
  /\ q # <<>> /\ Head(q).table = "PlaylistAssignment"
  /\ Head(q).columns = [playlist |-> p, target |-> z]

\* The invariant that is inductive: a slot is assigned to its zone, or a request in progress is
\* about to assign it, unless it was moved by its zone alone.
CoveredInv ==
  /\ RefsInv
  /\ \/ cut
     \/ \A s \in Rows(rows, "Schedule") :
          LET c == rows[s].columns IN
          \/ s \in bereft
          \/ IsAssigned(rows, c.zone, c.playlist)
          \/ \E j \in Jobs : Covers(job[j], c.zone, c.playlist)

\* A slot keeps its zone, its playlist and what is assigned, or a request goes on to assign it;
\* else it is among those that are left without.
SlotsCovered(db, lost, later, left, q) ==
  \A s \in Rows(later, "Schedule") :
    LET c == later[s].columns IN
    \/ s \in left
    \/ /\ s \in Rows(db, "Schedule") /\ s \notin lost
       /\ c.zone = db[s].columns.zone /\ c.playlist = db[s].columns.playlist
       /\ IsAssigned(db, c.zone, c.playlist) => IsAssigned(later, c.zone, c.playlist)
    \/ Covers(q, c.zone, c.playlist)

\* A step of one request: what it must keep for each slot to stay covered.
LEMMA CoveredStep ==
  ASSUME KeysTellApart, CoveredInv, RefsInv', NEW j \in Jobs, NEW q, job' = [job EXCEPT ![j] = q],
         cut' = cut, SlotsCovered(rows, bereft, rows', bereft', q),
         \A z : \A p \in Rows(rows', "Playlist") : Covers(job[j], z, p) =>
           IsAssigned(rows', z, p) \/ Covers(q, z, p)
  PROVE  CoveredInv'
<1>1. DOMAIN job = Jobs /\ job'[j] = q /\ \A k \in Jobs : k # j => job'[k] = job[k]
  BY DEF CoveredInv, RefsInv, RowsInv
<1>2. ASSUME ~ cut, NEW s \in Rows(rows', "Schedule")
      PROVE  LET c == rows'[s].columns IN
             \/ s \in bereft'
             \/ IsAssigned(rows', c.zone, c.playlist)
             \/ \E k \in Jobs : Covers(job'[k], c.zone, c.playlist)
  <2> DEFINE z == rows'[s].columns.zone
             p == rows'[s].columns.playlist
  <2>1. CASE Covers(q, z, p)
    BY <1>1, <2>1
  <2>2. CASE /\ s \in Rows(rows, "Schedule") /\ s \notin bereft
             /\ z = rows[s].columns.zone /\ p = rows[s].columns.playlist
             /\ IsAssigned(rows, z, p) => IsAssigned(rows', z, p)
    <3>1. p \in Rows(rows', "Playlist")
      BY ListColumns DEF RefsInv, Rows
    <3>2. CASE IsAssigned(rows, z, p)
      BY <2>2, <3>2
    <3>3. CASE \E k \in Jobs : Covers(job[k], z, p)
      <4>1. PICK k \in Jobs : Covers(job[k], z, p)
        BY <3>3
      <4> HIDE DEF z, p
      <4>2. IsAssigned(rows', z, p) \/ \E i \in Jobs : Covers(job'[i], z, p)
        BY <1>1, <3>1, <4>1
      <4> QED
        BY <4>2 DEF z, p
    <3>4. IsAssigned(rows, z, p) \/ \E k \in Jobs : Covers(job[k], z, p)
      BY <1>2, <2>2 DEF CoveredInv
    <3> QED
      BY <3>2, <3>3, <3>4
  <2>3. \/ s \in bereft'
        \/ Covers(q, z, p)
        \/ /\ s \in Rows(rows, "Schedule") /\ s \notin bereft
           /\ z = rows[s].columns.zone /\ p = rows[s].columns.playlist
           /\ IsAssigned(rows, z, p) => IsAssigned(rows', z, p)
    BY DEF SlotsCovered
  <2> QED
    BY <2>1, <2>2, <2>3
<1>3. (\/ cut
       \/ \A s \in Rows(rows, "Schedule") :
          LET c == rows[s].columns IN
          \/ s \in bereft
          \/ IsAssigned(rows, c.zone, c.playlist)
          \/ \E k \in Jobs : Covers(job[k], c.zone, c.playlist))'
  BY <1>2 DEF Covers, IsAssigned, Rows
<1> QED
  BY <1>3 DEF CoveredInv

\* Rows that stay as they are keep the slots.
LEMMA SlotsSame ==
  ASSUME NEW db, NEW lost, NEW q
  PROVE  SlotsCovered(db, lost, db, lost, q)
BY DEF SlotsCovered

\* Only what creates an assignment, or looks whether it should, is about to assign.
LEMMA NotCovering ==
  ASSUME RefsInv, NEW j \in Jobs, Head(job[j]).op \notin {"create", "ensure"}, NEW z, NEW p
  PROVE  ~ Covers(job[j], z, p)
BY RestIs DEF Covers, StatementOK

\* The rows are left alone by a request that is about to assign nothing.
LEMMA CoveredSame ==
  ASSUME KeysTellApart, CoveredInv, RefsInv', NEW j \in Jobs, NEW q, job' = [job EXCEPT ![j] = q],
         rows' = rows, cut' = cut, bereft' = bereft,
         job[j] = <<>> \/ Head(job[j]).op \notin {"create", "ensure"}
  PROVE  CoveredInv'
<1>1. \A z, p : ~ Covers(job[j], z, p)
  <2>1. CASE job[j] = <<>>
    BY <2>1 DEF Covers
  <2>2. CASE Head(job[j]).op \notin {"create", "ensure"}
    BY <2>2, NotCovering DEF CoveredInv
  <2> QED
    BY <2>1, <2>2
<1>2. SlotsCovered(rows, bereft, rows', bereft', q)
  BY SlotsSame
<1> QED
  BY <1>1, <1>2, CoveredStep

\* A statement that runs neither creates a row nor assigns a playlist.
LEMMA ProceedCovered ==
  ASSUME KeysTellApart, CoveredInv, RefsInv', NEW j \in Jobs, job[j] # <<>>, Proceed(j), cut' = cut,
         Head(job[j]).op \notin {"create", "ensure"},
         SlotsCovered(rows, bereft, rows', bereft', Tail(job[j]))
  PROVE  CoveredInv'
<1>1. \A z, p : ~ Covers(job[j], z, p)
  BY NotCovering DEF CoveredInv
<1> QED
  BY <1>1, CoveredStep DEF Proceed

\* A request ends while it neither creates a row nor assigns a playlist.
LEMMA FailCovered ==
  ASSUME KeysTellApart, CoveredInv, RefsInv', NEW j \in Jobs, job[j] # <<>>, Fail(j), cut' = cut,
         Head(job[j]).op \notin {"create", "ensure"}
  PROVE  CoveredInv'
BY CoveredSame DEF Fail, Left

\* A request begins.
LEMMA BeginsCovered ==
  ASSUME KeysTellApart, CoveredInv, RefsInv', NEW j \in Jobs, NEW q, Begins(j, q)
  PROVE  CoveredInv'
BY CoveredSame DEF Begins, Request, FreeJob

\* Deletions take a slot, or leave it what is assigned.
LEMMA DeletedSlots ==
  ASSUME KeysTellApart, NEW db, IsFiniteSet(DOMAIN db),
         \A x \in DOMAIN db : DOMAIN db[x] = {"table", "columns"}, RefsOK(db), NEW X,
         \A x \in X : x \in DOMAIN db /\ db[x].table # "PlaylistAssignment", NEW lost, NEW left,
         lost \ Doomed(db, X) \subseteq left, NEW q
  PROVE  SlotsCovered(db, lost, Deleted(db, X), left, q)
<1> DEFINE later == Deleted(db, X)
           gone == Doomed(db, X)
<1>1. \A s \in Rows(later, "Schedule") :
        /\ s \in Rows(db, "Schedule")
        /\ later[s].columns.zone = db[s].columns.zone
        /\ later[s].columns.playlist = db[s].columns.playlist
        /\ db[s].columns.playlist \notin gone /\ s \notin gone
  <2>1. IsLeft(db, gone, later)
    BY DeletedAre
  <2>2. \A s \in Rows(later, "Schedule") :
          /\ s \in Rows(db, "Schedule")
          /\ later[s].columns.zone = db[s].columns.zone
          /\ later[s].columns.playlist = db[s].columns.playlist
          /\ db[s].columns.playlist \notin gone
    BY ScheduleLeft
  <2> HIDE DEF later, gone
  <2> QED
    BY <2>1, <2>2 DEF IsLeft, Rows
<1>2. ASSUME NEW z, NEW p, p \notin gone, IsAssigned(db, z, p)
      PROVE  IsAssigned(later, z, p)
  <2>1. PICK x \in Rows(db, "PlaylistAssignment") : db[x].columns = [playlist |-> p, target |-> z]
    BY <1>2 DEF IsAssigned
  <2>2. db[x].columns.playlist = p
    BY <2>1
  <2>3. x \notin gone
    BY <1>2, <2>2, DeletedLists
  <2>4. x \in Rows(later, "PlaylistAssignment") /\ later[x].columns = [playlist |-> p, target |-> z]
    BY <1>2, <2>1, <2>3, AssignmentLeft
  <2> QED
    BY <2>4 DEF IsAssigned
<1> HIDE DEF later, gone
<1>3. lost \ gone \subseteq left
  BY DEF gone
<1>4. SlotsCovered(db, lost, later, left, q)
  BY <1>1, <1>2, <1>3 DEF SlotsCovered
<1> QED
  BY <1>4 DEF later

\* What is written beside the slots and the assignments.
LEMMA CreatedSlots ==
  ASSUME NEW db, NEW lost, NEW x, x \notin DOMAIN db, NEW t, NEW columns, NEW later,
         later = Inserted(db, x, t, columns), NEW q,
         t = "Schedule" => Covers(q, columns.zone, columns.playlist)
  PROVE  /\ SlotsCovered(db, lost, later, lost, q)
         /\ \A z, p : IsAssigned(db, z, p) => IsAssigned(later, z, p)
<1>1. /\ DOMAIN later = DOMAIN db \cup {x} /\ \A y \in DOMAIN db : later[y] = db[y]
      /\ later[x].table = t /\ later[x].columns = columns
  BY DEF Inserted
<1>2. \A u : Rows(db, u) \subseteq Rows(later, u)
  BY <1>1 DEF Rows
<1>3. \A z, p : IsAssigned(db, z, p) => IsAssigned(later, z, p)
  BY <1>1, <1>2 DEF IsAssigned, Rows
<1>4. \A s \in Rows(later, "Schedule") :
        \/ s \in Rows(db, "Schedule") /\ later[s] = db[s]
        \/ s = x /\ t = "Schedule"
  BY <1>1 DEF Rows
<1>5. SlotsCovered(db, lost, later, lost, q)
  BY <1>1, <1>3, <1>4 DEF SlotsCovered
<1> QED
  BY <1>3, <1>5

\* An assignment to be created is accepted while its playlist is there.
LEMMA AssignmentAccepted ==
  ASSUME NEW db, NEW columns, NEW z, NEW p \in Rows(db, "Playlist"),
         columns = [playlist |-> p, target |-> z]
  PROVE  Accepts(db, "PlaylistAssignment", columns)
<1> DEFINE t == "PlaylistAssignment"
           k == ForeignKey(t, "playlist", "Playlist", "Cascade")
<1>1. DOMAIN References[t] = {"playlist"}
  BY TableReferences, ColumnsAre
<1>2. k \in Enforced /\ k.table = t /\ k.column = "playlist" /\ k.to = "Playlist" /\ t \in DOMAIN Models
  BY ListKeys, ColumnsAre DEF ForeignKey
<1> HIDE DEF t, k
<1>3. References[t]["playlist"].to = "Playlist"
  BY <1>2, TableReferences
<1>4. columns["playlist"] = p
  OBVIOUS
<1>5. Accepts(db, t, columns)
  BY <1>1, <1>3, <1>4 DEF Accepts
<1> QED
  BY <1>5 DEF t

\* A row is created: a slot is covered by the request, an assignment stays.
LEMMA CreateCovered ==
  ASSUME KeysTellApart, CoveredInv, RefsInv', NEW j \in Jobs, RunCreate(j)
  PROVE  CoveredInv'
<1> DEFINE s == Head(job[j])
           x == IF s.key = New THEN NewKey(s.table) ELSE s.key
           rest == Tail(job[j])
           q == WithKey(rest, x)
<1>1. job[j] # <<>> /\ s.op = "create" /\ Runs(j, "create") /\ cut' = cut
  BY DEF RunCreate, Runs, NotRequests
<1>2. /\ StatementOK(GivenKeys, s) /\ Follows(s, rest)
      /\ \/ rest = <<>>
         \/ \E t : rest = <<t>> /\ IsStatement(t) /\ StatementOK(GivenKeys, t)
  BY <1>1, RestIs DEF CoveredInv
<1>3. /\ s.key = New => s.table \in DOMAIN Keys
      /\ s.table \in DOMAIN Keys \ {"Track"} => s.key = New
  BY <1>1, CreatedKey DEF CoveredInv
<1>4. "Schedule" \in DOMAIN Keys \ {"Track"} /\ "PlaylistAssignment" \in DOMAIN Keys \ {"Track"}
  BY DEF KeysTellApart
<1>5. ASSUME ~ Accepts(rows, s.table, s.columns) \/ s.key \in DOMAIN rows, Fail(j)
      PROVE  CoveredInv'
  <2>1. rows' = rows /\ bereft' = bereft /\ job' = [job EXCEPT ![j] = <<>>]
    BY <1>5 DEF Fail, Left
  <2>2. ASSUME NEW z, NEW p \in Rows(rows, "Playlist"), Covers(job[j], z, p)
        PROVE  FALSE
    <3>1. s.table = "PlaylistAssignment" /\ s.columns = [playlist |-> p, target |-> z]
      BY <2>2 DEF Covers
    <3>2. s.key = New
      BY <1>3, <1>4, <3>1
    <3>3. New \notin DOMAIN rows
      <4>1. \A t : New \notin KeysOf(t)
        BY DEF KeysTellApart, KeysOf, Rows
      <4>2. ~ IsPair(New) /\ DbOK(rows, GivenKeys, bereft)
        BY DEF KeysTellApart, CoveredInv, RefsInv, RowsInv
      <4> QED
        BY <4>1, <4>2 DEF DbOK, KeyOK
    <3> HIDE DEF s
    <3>4. Accepts(rows, s.table, s.columns)
      BY <3>1, AssignmentAccepted
    <3> QED
      BY <1>5, <3>2, <3>3, <3>4
  <2> DEFINE e == <<>>
  <2>3. SlotsCovered(rows, bereft, rows', bereft', e)
    BY <2>1, SlotsSame
  <2>4. job' = [job EXCEPT ![j] = e]
    BY <2>1
  <2>5. \A z : \A p \in Rows(rows', "Playlist") : Covers(job[j], z, p) =>
           IsAssigned(rows', z, p) \/ Covers(e, z, p)
    BY <2>1, <2>2
  <2> HIDE DEF e
  <2> QED
    BY <1>1, <2>3, <2>4, <2>5, CoveredStep
<1>6. CASE /\ s.key = New => Unused(s.table) # {}
           /\ Accepts(rows, s.table, s.columns) /\ x \notin DOMAIN rows
           /\ rows' = Inserted(rows, x, s.table, s.columns)
           /\ used' = IF s.key = New THEN used \cup {x} ELSE used
           /\ Left(j, WithKey(rest, x))
           /\ UNCHANGED <<trackFiles, bereft, jumbled>>
  <2>1. ASSUME s.table = "Schedule"
        PROVE  Covers(q, s.columns.zone, s.columns.playlist)
    <3>2. PICK t : /\ rest = <<t>> /\ t.op = "ensure"
                   /\ t.columns.playlist = s.columns.playlist
                   /\ t.columns.target = s.columns.zone
      BY <1>1, <1>2, <2>1 DEF Follows
    <3>3. IsStatement(t) /\ StatementOK(GivenKeys, t)
      <4>1. rest # <<>>
        BY <3>2
      <4>2. PICK u : rest = <<u>> /\ IsStatement(u) /\ StatementOK(GivenKeys, u)
        BY <1>2, <4>1
      <4>3. t = u
        BY <3>2, <4>2
      <4> QED
        BY <4>2, <4>3
    <3>4. t.table = "PlaylistAssignment"
          /\ t.columns = [playlist |-> s.columns.playlist, target |-> s.columns.zone]
      BY <3>2, <3>3 DEF StatementOK
    <3> DEFINE u == IF t.key = New /\ t.op # "ensure" THEN [t EXCEPT !.key = x] ELSE t
    <3>5. u = t
      BY <3>2
    <3> HIDE DEF u, x, s
    <3>6. WithKey(<<t>>, x) = <<u>>
      BY <3>3, WithKeyIs DEF u
    <3>7. q = <<t>>
      BY <3>2, <3>5, <3>6
    <3>8. Head(<<t>>) = t /\ <<t>> # <<>>
      OBVIOUS
    <3> QED
      BY <3>4, <3>7, <3>8 DEF Covers
  <2> DEFINE table == s.table
             columns == s.columns
  <2>3. x \notin DOMAIN rows /\ rows' = Inserted(rows, x, table, columns)
        /\ bereft' = bereft /\ (table = "Schedule" => Covers(q, columns.zone, columns.playlist))
    BY <1>6, <2>1
  <2>4. job' = [job EXCEPT ![j] = q]
    BY <1>6 DEF Left
  <2>5. \A z, p : Covers(job[j], z, p) => table = "PlaylistAssignment"
                                          /\ columns = [playlist |-> p, target |-> z]
    BY DEF Covers
  <2> HIDE DEF table, columns, x, q
  <2>6. /\ SlotsCovered(rows, bereft, rows', bereft', q)
        /\ \A z, p : IsAssigned(rows, z, p) => IsAssigned(rows', z, p)
    BY <2>3, CreatedSlots
  <2>7. ASSUME NEW z, NEW p, Covers(job[j], z, p)
        PROVE  IsAssigned(rows', z, p)
    <3>1. x \in DOMAIN rows' /\ rows'[x].table = table /\ rows'[x].columns = columns
      BY <2>3 DEF Inserted
    <3> QED
      BY <2>5, <2>7, <3>1 DEF IsAssigned, Rows
  <2> QED
    BY <1>1, <2>4, <2>6, <2>7, CoveredStep
<1> QED
  BY <1>5, <1>6 DEF RunCreate

\* A slot that is written is about to be assigned, or is left without.
LEMMA UpdatedSlots ==
  ASSUME NEW db, NEW x \in DOMAIN db, NEW columns, NEW later, IsUpdated(db, x, columns, later),
         db[x].table # "PlaylistAssignment", NEW lost, NEW left, \A s \in lost : s # x => s \in left,
         NEW q,
         db[x].table = "Schedule" =>
           x \in left \/ Covers(q, later[x].columns.zone, later[x].columns.playlist)
  PROVE  SlotsCovered(db, lost, later, left, q)
<1>1. /\ DOMAIN later = DOMAIN db /\ \A y \in DOMAIN db : later[y].table = db[y].table
      /\ \A y \in DOMAIN db : y # x => later[y] = db[y]
  BY DEF IsUpdated
<1>2. ASSUME NEW z, NEW p, IsAssigned(db, z, p)
      PROVE  IsAssigned(later, z, p)
  <2>1. PICK y \in Rows(db, "PlaylistAssignment") : db[y].columns = [playlist |-> p, target |-> z]
    BY <1>2 DEF IsAssigned
  <2>2. y # x /\ y \in DOMAIN db /\ y \in Rows(later, "PlaylistAssignment")
    BY <1>1 DEF Rows
  <2>3. later[y] = db[y]
    BY <1>1, <2>2
  <2> QED
    BY <2>1, <2>2, <2>3 DEF IsAssigned
<1>3. Rows(later, "Schedule") = Rows(db, "Schedule")
  BY <1>1 DEF Rows
<1>4. \A s \in Rows(db, "Schedule") : s # x => later[s] = db[s]
  BY <1>1 DEF Rows
<1>5. x \in Rows(db, "Schedule") =>
        x \in left \/ Covers(q, later[x].columns.zone, later[x].columns.playlist)
  BY DEF Rows
<1> QED
  BY <1>2, <1>3, <1>4, <1>5 DEF SlotsCovered

\* A row is changed: a slot that is given a playlist is covered by the request, one that is moved
\* by its zone alone is left without.
LEMMA UpdateCovered ==
  ASSUME KeysTellApart, CoveredInv, RefsInv', NEW j \in Jobs, RunUpdate(j)
  PROVE  CoveredInv'
<1> DEFINE s == Head(job[j])
           x == s.key
           columns == s.columns
           later == Updated(rows, x, columns)
           c == later[x].columns
           e == <<Ensure(c.zone, c.playlist)>>
           rest == Tail(job[j])
<1>1. job[j] # <<>> /\ s.op = "update" /\ cut' = cut
  BY DEF RunUpdate, Runs, NotRequests
<1>2. CASE Fail(j)
  BY <1>1, <1>2, FailCovered
<1>3. CASE ~ Fail(j)
  <2>1. /\ x \in DOMAIN rows /\ rows' = later
        /\ bereft' = IF s.table = "User" \/ NamesPlaylist(s) THEN bereft \ {x}
                     ELSE IF MovesSlot(s) THEN bereft \cup {x} ELSE bereft
        /\ \/ Proceed(j) /\ ~ NamesPlaylist(s)
           \/ NamesPlaylist(s) /\ job' = [job EXCEPT ![j] = e]
    BY <1>3, UpdateIs
  <2>2. DOMAIN rows[x] = {"table", "columns"} /\ DbOK(rows, GivenKeys, bereft)
    BY <2>1 DEF CoveredInv, RefsInv, RowsInv, DbOK
  <2>3. IsUpdated(rows, x, columns, later)
    BY <2>1, <2>2, UpdatedAre
  <2>4. /\ s.table \in DOMAIN Keys /\ s.table # "PlaylistAssignment" /\ x \in KeysOf(s.table)
        /\ s.table = "Schedule" => MovesSlot(s) \/ NamesPlaylist(s)
    BY <1>1, RestIs DEF CoveredInv, StatementOK
  <2>5. rows[x].table = s.table
    BY <2>1, <2>2, <2>4, TableOfKey
  <2>6. \A y \in bereft : y # x => y \in bereft'
    BY <2>1
  <2>7. Covers(e, c.zone, c.playlist)
    <3> DEFINE t == Ensure(c.zone, c.playlist)
    <3>1. t.table = "PlaylistAssignment" /\ t.columns = [playlist |-> c.playlist, target |-> c.zone]
      BY StatementFields DEF Ensure
    <3>2. Head(<<t>>) = t /\ <<t>> # <<>>
      OBVIOUS
    <3> HIDE DEF t, c
    <3>3. Covers(<<t>>, c.zone, c.playlist)
      BY <3>1, <3>2 DEF Covers
    <3> QED
      BY <3>3 DEF t
  <2>8. \A z, p : ~ Covers(job[j], z, p)
    BY <1>1, NotCovering DEF CoveredInv
  <2>9. s.table = "Schedule" /\ ~ NamesPlaylist(s) => x \in bereft'
    BY <2>1, <2>4
  <2> HIDE DEF x, columns, later, e, rest, s
  <2>10. CASE Proceed(j) /\ ~ NamesPlaylist(s)
    <3>1. SlotsCovered(rows, bereft, rows', bereft', rest)
      BY <2>1, <2>3, <2>4, <2>5, <2>6, <2>9, <2>10, UpdatedSlots
    <3> QED
      BY <1>1, <2>10, <3>1, ProceedCovered DEF rest, s
  <2>11. CASE NamesPlaylist(s) /\ job' = [job EXCEPT ![j] = e]
    <3>1. SlotsCovered(rows, bereft, rows', bereft', e)
      BY <2>1, <2>3, <2>4, <2>5, <2>6, <2>7, UpdatedSlots
    <3> QED
      BY <1>1, <2>8, <2>11, <3>1, CoveredStep
  <2> QED
    BY <2>1, <2>10, <2>11
<1> QED
  BY <1>2, <1>3

\* A deletion: an assignment goes only along with its playlist, as do its slots.
LEMMA DeleteCovered ==
  ASSUME KeysTellApart, CoveredInv, RefsInv', NEW j \in Jobs, RunDelete(j) \/ RunClear(j)
  PROVE  CoveredInv'
<1> DEFINE s == Head(job[j])
           x == s.key
           rest == Tail(job[j])
<1>1. job[j] # <<>> /\ s.op \in {"delete", "clear"} /\ cut' = cut
  BY DEF RunDelete, RunClear, Runs, NotRequests
<1>2. \/ Fail(j)
      \/ rows' = rows /\ bereft' = bereft /\ Proceed(j)
      \/ /\ x \in DOMAIN rows /\ rows' = Deleted(rows, {x}) /\ Proceed(j)
         /\ bereft \ Doomed(rows, {x}) \subseteq bereft'
  BY DEF RunDelete, RunClear
<1>3. CASE Fail(j)
  BY <1>1, <1>3, FailCovered
<1>4. CASE rows' = rows /\ bereft' = bereft /\ Proceed(j)
  BY <1>1, <1>4, SlotsSame, ProceedCovered
<1>5. CASE /\ x \in DOMAIN rows /\ rows' = Deleted(rows, {x}) /\ Proceed(j)
           /\ bereft \ Doomed(rows, {x}) \subseteq bereft'
  <2>1. /\ IsFiniteSet(DOMAIN rows) /\ RefsOK(rows) /\ DbOK(rows, GivenKeys, bereft)
        /\ \A y \in DOMAIN rows : DOMAIN rows[y] = {"table", "columns"}
    BY DEF CoveredInv, RefsInv, RowsInv, DbOK
  <2>2. StatementOK(GivenKeys, s)
    BY <1>1, RestIs DEF CoveredInv
  <2>3. ASSUME s.op = "delete"
        PROVE  rows[x].table # "PlaylistAssignment"
    <3>1. s.table \in DOMAIN Keys \ {"PlaylistAssignment"} /\ x \in KeysOf(s.table)
      BY <2>2, <2>3 DEF StatementOK
    <3>2. rows[x].table = s.table
      BY <1>5, <2>1, <3>1, TableOfKey
    <3> QED
      BY <3>1, <3>2
  <2>4. ASSUME s.op = "clear"
        PROVE  rows[x].table # "PlaylistAssignment"
    <3>1. IsPair(x)
      BY <2>2, <2>4 DEF StatementOK, IsPair
    <3>2. rows[x].table = "PlaylistTrack"
      BY <1>5, <2>1, <3>1, TableOfPair
    <3> QED
      BY <3>2
  <2>5. rows[x].table # "PlaylistAssignment"
    BY <1>1, <2>3, <2>4
  <2> HIDE DEF x, rest
  <2> DEFINE X == {x}
  <2>6. \A y \in X : y \in DOMAIN rows /\ rows[y].table # "PlaylistAssignment"
    BY <1>5, <2>5
  <2>7. rows' = Deleted(rows, X) /\ bereft \ Doomed(rows, X) \subseteq bereft'
    BY <1>5
  <2> HIDE DEF X
  <2>8. SlotsCovered(rows, bereft, rows', bereft', rest)
    BY <2>1, <2>6, <2>7, DeletedSlots
  <2> QED
    BY <1>1, <1>5, <2>8, ProceedCovered DEF rest
<1> QED
  BY <1>2, <1>3, <1>4, <1>5

\* The tracks of a playlist are replaced.
LEMMA ReplaceCovered ==
  ASSUME KeysTellApart, CoveredInv, RefsInv', NEW j \in Jobs, RunReplace(j)
  PROVE  CoveredInv'
<1> DEFINE p == Head(job[j]).key
           tracks == Head(job[j]).columns
           X == TracksOf(p)
           kept == Deleted(rows, X)
           rest == Tail(job[j])
<1>1. job[j] # <<>> /\ Head(job[j]).op = "replace" /\ cut' = cut
  BY DEF RunReplace, Runs, NotRequests
<1>2. CASE Fail(j)
  BY <1>1, <1>2, FailCovered
<1>3. CASE ~ Fail(j)
  <2>1. IsReplaced(kept, p, tracks, rows') /\ Proceed(j) /\ bereft' = bereft
    BY <1>3, ReplaceIs
  <2>2. \A x \in X : x \in DOMAIN rows /\ rows[x].table = "PlaylistTrack"
    BY DEF TracksOf, Tables, Rows
  <2>3. DbOK(kept, GivenKeys, bereft)
    BY <2>2, TracksGoAlone DEF CoveredInv, RefsInv, RowsInv
  <2>4. /\ IsFiniteSet(DOMAIN rows) /\ RefsOK(rows)
        /\ \A y \in DOMAIN rows : DOMAIN rows[y] = {"table", "columns"}
    BY DEF CoveredInv, RefsInv, RowsInv, DbOK
  <2> HIDE DEF X, p, tracks, rest
  <2>5. SlotsCovered(rows, bereft, kept, bereft, rest)
    BY <2>2, <2>4, DeletedSlots
  <2> HIDE DEF kept
  <2>6. \A t : t # "PlaylistTrack" => /\ Rows(rows', t) = Rows(kept, t)
                                      /\ \A x \in Rows(kept, t) : rows'[x] = kept[x]
    BY <2>1, <2>3, ReplacedTables
  <2>7. \A z, q : IsAssigned(kept, z, q) => IsAssigned(rows', z, q)
    BY <2>6 DEF IsAssigned
  <2>8. Rows(rows', "Schedule") = Rows(kept, "Schedule")
        /\ \A x \in Rows(kept, "Schedule") : rows'[x] = kept[x]
    BY <2>6
  <2>9. SlotsCovered(rows, bereft, rows', bereft', rest)
    BY <2>1, <2>5, <2>7, <2>8 DEF SlotsCovered
  <2> QED
    BY <1>1, <2>1, <2>9, ProceedCovered DEF rest
<1> QED
  BY <1>2, <1>3

\* The other statements.
LEMMA OtherCovered ==
  ASSUME KeysTellApart, CoveredInv, RefsInv', NEW j \in Jobs,
         ScopeUser(j) \/ RunCopy(j) \/ RunFile(j) \/ RunUnlink(j)
  PROVE  CoveredInv'
<1>1. job[j] # <<>> /\ rows' = rows /\ cut' = cut /\ bereft' = bereft
      /\ Head(job[j]).op \in {"scope", "copy", "file", "unlink"}
  BY DEF ScopeUser, RunCopy, RunFile, RunUnlink, Runs, NotRequests
<1>2. \E q : job' = [job EXCEPT ![j] = q]
  BY DEF ScopeUser, RunCopy, RunFile, RunUnlink, Left, Fail, Proceed
<1> QED
  BY <1>1, <1>2, CoveredSame

\* What ensures an assignment finds it or goes on to create it.
LEMMA EnsureCovered ==
  ASSUME KeysTellApart, CoveredInv, RefsInv', NEW j \in Jobs, RunEnsure(j)
  PROVE  CoveredInv'
<1> DEFINE c == Head(job[j]).columns
           z == c.target
           p == c.playlist
           t == Assignment(z, p)
           q == IF Assigned(z, p) THEN <<>> ELSE <<t>>
<1>1. job[j] # <<>> /\ rows' = rows /\ cut' = cut /\ bereft' = bereft
      /\ job' = [job EXCEPT ![j] = q]
  BY DEF RunEnsure, Runs, NotRequests, Left
<1>2. t.table = "PlaylistAssignment" /\ t.columns = [playlist |-> p, target |-> z]
  BY StatementFields DEF Assignment
<1>3. \A y, w : Covers(job[j], y, w) => y = z /\ w = p
  BY DEF Covers
<1> HIDE DEF z, p, c
<1>4. Assigned(z, p) => IsAssigned(rows', z, p)
  BY <1>1 DEF Assigned, IsAssigned, Tables
<1>5. Head(<<t>>) = t /\ <<t>> # <<>>
  OBVIOUS
<1> HIDE DEF t
<1>6. ~ Assigned(z, p) => Covers(q, z, p)
  BY <1>2, <1>5 DEF Covers
<1> HIDE DEF q
<1>7. SlotsCovered(rows, bereft, rows', bereft', q)
  BY <1>1, SlotsSame
<1>8. \A y, w : Covers(job[j], y, w) => IsAssigned(rows', y, w) \/ Covers(q, y, w)
  BY <1>3, <1>4, <1>6
<1> QED
  BY <1>1, <1>7, <1>8, CoveredStep

\* A restart: it is recorded that a request may have been cut off.
LEMMA RestartCovered ==
  ASSUME CoveredInv, RefsInv', Restart
  PROVE  CoveredInv'
BY DEF Restart, CoveredInv

\* Each step keeps what is scheduled covered.
LEMMA CoveredKept ==
  ASSUME KeysTellApart, CoveredInv, [PortalRowsNext]_rowVars
  PROVE  CoveredInv'
<1>1. RefsInv'
  BY RefsKept DEF CoveredInv
<1>2. CASE PortalRowsNext
  <2>1. Restart \/ \E j \in Jobs : Statements(j) \/ \E q : Begins(j, q)
    BY <1>2, StepsAre DEF CoveredInv
  <2> QED
    BY <1>1, <2>1, RestartCovered, BeginsCovered, CreateCovered, UpdateCovered, DeleteCovered,
       ReplaceCovered, OtherCovered, EnsureCovered DEF Statements
<1>3. CASE UNCHANGED rowVars
  <2>1. rows' = rows /\ job' = job /\ cut' = cut /\ bereft' = bereft
    BY <1>3 DEF rowVars
  <2>2. (\/ cut
         \/ \A s \in Rows(rows, "Schedule") :
            LET c == rows[s].columns IN
            \/ s \in bereft
            \/ IsAssigned(rows, c.zone, c.playlist)
            \/ \E j \in Jobs : Covers(job[j], c.zone, c.playlist))'
    BY <2>1 DEF CoveredInv, IsAssigned, Covers, Rows
  <2> QED
    BY <1>1, <2>2 DEF CoveredInv
<1> QED
  BY <1>2, <1>3

\* What is covered by no request is assigned.
LEMMA CoveredOffers == CoveredInv => ScheduledIsOffered
<1> SUFFICES ASSUME CoveredInv, ~ cut, NEW s \in Tables("Schedule"), s \notin bereft,
                    NEW z, NEW p, z = rows[s].columns.zone, p = rows[s].columns.playlist
             PROVE  \/ Assigned(z, p)
                    \/ \E j \in Jobs, i \in 1 .. 2 :
                         /\ i <= Len(job[j]) /\ job[j][i].table = "PlaylistAssignment"
                         /\ job[j][i].columns = [playlist |-> p, target |-> z]
  BY DEF ScheduledIsOffered, IsOffered
<1>1. CASE IsAssigned(rows, z, p)
  BY <1>1 DEF IsAssigned, Assigned, Tables
<1>2. ASSUME NEW j \in Jobs, Covers(job[j], z, p)
      PROVE  /\ 1 <= Len(job[j]) /\ job[j][1].table = "PlaylistAssignment"
             /\ job[j][1].columns = [playlist |-> p, target |-> z]
  <2>1. ASSUME NEW t, job[j] = <<t>>
        PROVE  1 <= Len(job[j]) /\ job[j][1] = Head(job[j])
    BY <2>1
  <2>2. ASSUME NEW t, NEW u, job[j] = <<t, u>>
        PROVE  1 <= Len(job[j]) /\ job[j][1] = Head(job[j])
    BY <2>2
  <2>3. job[j] # <<>> /\ ((\E t : job[j] = <<t>>) \/ \E t, u : job[j] = <<t, u>>)
    BY <1>2 DEF Covers, CoveredInv, RefsInv, JobSound
  <2>4. 1 <= Len(job[j]) /\ job[j][1] = Head(job[j])
    BY <2>1, <2>2, <2>3
  <2> QED
    BY <1>2, <2>4 DEF Covers
<1>3. s \in Rows(rows, "Schedule") /\ 1 \in 1 .. 2
  BY DEF Tables
<1>4. IsAssigned(rows, z, p) \/ \E j \in Jobs : Covers(job[j], z, p)
  BY <1>3 DEF CoveredInv
<1> QED
  BY <1>1, <1>2, <1>3, <1>4

-----------------------------------------------------------------------------
(* A track that is listed has its file, or is about to be deleted            *)

\* A request is about to create a track of a file, to delete a row, or to unlink a file.
Makes(q, t) == q # <<>> /\ Head(q).op = "create" /\ Head(q).table = "Track" /\ Head(q).key = t

Discards(q, t) == q # <<>> /\ Head(q).op = "delete" /\ Head(q).key = t

Unlinks(q, t) ==
  /\ q # <<>>
  /\ \/ Head(q).op = "unlink" /\ Head(q).key = t
     \/ \E u : Tail(q) = <<u>> /\ u.op = "unlink" /\ u.key = t

Unlinked(q, t) == q # <<>> /\ Tail(q) = <<>> /\ Head(q).op = "unlink" /\ Head(q).key = t

\* A file is unlinked while its row is there only by a request that deletes that next.
UnlinksLast(q) == \A u : Tail(q) = <<u>> /\ u.op = "unlink" => q # <<>> /\ Head(q).op = "delete"

\* The invariant that is inductive: a track has its file or is about to be deleted, and a file
\* that is made belongs to one request until its track is there.
FilesInv ==
  /\ RefsInv
  /\ trackFiles \subseteq GivenKeys
  /\ \A t \in Rows(rows, "Track") :
       t \in trackFiles \/ cut \/ \E j \in Jobs : Discards(job[j], t)
  /\ \A j \in Jobs : \A t : Makes(job[j], t) =>
       /\ t \in KeysOf("Track") /\ t \in GivenKeys /\ t \in trackFiles /\ t \notin DOMAIN rows
       /\ \A k \in Jobs : k # j => ~ Makes(job[k], t) /\ ~ Unlinks(job[k], t)
  /\ \A j \in Jobs : job[j] # <<>> => UnlinksLast(job[j])
  /\ \A j \in Jobs : \A t : Unlinked(job[j], t) => t \notin DOMAIN rows

\* The file of a track stays, or the track goes.
FilesStay(later, q, old) ==
  \A t \in Rows(later, "Track") :
    \/ t \in trackFiles' \/ Discards(q, t)
    \/ /\ t \in Rows(rows, "Track") /\ ~ Discards(old, t)
       /\ t \in trackFiles => t \in trackFiles'

\* Keys of tracks that were given are those of rows that were there, or about to be.
TracksStay(db, given, later, old) ==
  \A t \in DOMAIN later : t \in KeysOf("Track") /\ t \in given => t \in DOMAIN db \/ Makes(old, t)

\* A file that is about to be unlinked is that of a track.
LEMMA UnlinksTrack ==
  ASSUME KeysTellApart, RefsInv, NEW j \in Jobs, NEW t, Unlinks(job[j], t)
  PROVE  t \in KeysOf("Track") /\ t \in GivenKeys
<1>1. job[j] # <<>>
  BY DEF Unlinks
<1>2. StatementOK(GivenKeys, Head(job[j])) /\ \A u : Tail(job[j]) = <<u>> => StatementOK(GivenKeys, u)
  <2>1. ASSUME NEW u, Tail(job[j]) = <<u>>
        PROVE  StatementOK(GivenKeys, u)
    <3>1. Tail(job[j]) # <<>>
      BY <2>1
    <3>2. PICK v : Tail(job[j]) = <<v>> /\ StatementOK(GivenKeys, v)
      BY <1>1, <3>1, RestIs
    <3>3. u = v
      BY <2>1, <3>2
    <3> QED
      BY <3>2, <3>3
  <2> QED
    BY <1>1, <2>1, RestIs
<1> QED
  BY <1>2 DEF Unlinks, StatementOK

\* What is unlinked next is about to be.
LEMMA UnlinkedUnlinks ==
  ASSUME NEW q, NEW t, Unlinked(q, t)
  PROVE  Unlinks(q, t)
BY DEF Unlinked, Unlinks

\* A step of one request: what it must keep for the files to be there.
LEMMA FilesStep ==
  ASSUME KeysTellApart, FilesInv, RefsInv', NEW j \in Jobs, NEW q, job' = [job EXCEPT ![j] = q],
         cut' = cut, trackFiles' \subseteq GivenKeys', GivenKeys \subseteq GivenKeys',
         FilesStay(rows', q, job[j]), TracksStay(rows, GivenKeys, rows', job[j]),
         \A k \in Jobs : \A t : k # j /\ Makes(job[k], t) =>
           t \in trackFiles' /\ ~ Makes(q, t) /\ ~ Unlinks(q, t),
         \A t : Makes(q, t) =>
           /\ t \in KeysOf("Track") /\ t \in GivenKeys' /\ t \in trackFiles' /\ t \notin DOMAIN rows'
           /\ \A k \in Jobs : k # j => ~ Unlinks(job[k], t),
         q # <<>> => UnlinksLast(q), \A t : Unlinked(q, t) => t \notin DOMAIN rows'
  PROVE  FilesInv'
<1>1. DOMAIN job = Jobs /\ job'[j] = q /\ \A k \in Jobs : k # j => job'[k] = job[k]
  BY DEF FilesInv, RefsInv, RowsInv
<1>2. \A t \in Rows(rows', "Track") :
        t \in trackFiles' \/ cut' \/ \E k \in Jobs : Discards(job'[k], t)
  <2> SUFFICES ASSUME NEW t \in Rows(rows', "Track"), t \in Rows(rows, "Track"),
                      ~ Discards(job[j], t), t \notin trackFiles
               PROVE  cut' \/ \E k \in Jobs : Discards(job'[k], t)
    BY <1>1 DEF FilesStay
  <2>1. cut \/ \E k \in Jobs : Discards(job[k], t)
    BY DEF FilesInv
  <2>2. \A k \in Jobs : Discards(job[k], t) => k # j /\ Discards(job'[k], t)
    BY <1>1
  <2> QED
    BY <2>1, <2>2
<1>3. ASSUME NEW k \in Jobs, k # j, NEW t, Makes(job[k], t)
      PROVE  /\ t \in KeysOf("Track") /\ t \in GivenKeys' /\ t \in trackFiles' /\ t \notin DOMAIN rows'
             /\ \A i \in Jobs : i # k => ~ Makes(job'[i], t) /\ ~ Unlinks(job'[i], t)
  <2>1. /\ t \in KeysOf("Track") /\ t \in GivenKeys /\ t \notin DOMAIN rows
        /\ \A i \in Jobs : i # k => ~ Makes(job[i], t) /\ ~ Unlinks(job[i], t)
    BY <1>3 DEF FilesInv
  <2>2. t \notin DOMAIN rows'
    BY <1>3, <2>1 DEF TracksStay
  <2>3. t \in trackFiles' /\ ~ Makes(q, t) /\ ~ Unlinks(q, t)
    BY <1>3
  <2>4. \A i \in Jobs : i # k => ~ Makes(job'[i], t) /\ ~ Unlinks(job'[i], t)
    BY <1>1, <2>1, <2>3
  <2> QED
    BY <2>1, <2>2, <2>3, <2>4
<1>4. ASSUME NEW t, Makes(q, t)
      PROVE  \A i \in Jobs : i # j => ~ Makes(job'[i], t) /\ ~ Unlinks(job'[i], t)
  BY <1>1, <1>4
<1>5. \A k \in Jobs : \A t : Makes(job'[k], t) =>
        /\ t \in KeysOf("Track") /\ t \in GivenKeys' /\ t \in trackFiles' /\ t \notin DOMAIN rows'
        /\ \A i \in Jobs : i # k => ~ Makes(job'[i], t) /\ ~ Unlinks(job'[i], t)
  <2> SUFFICES ASSUME NEW k \in Jobs, NEW t, Makes(job'[k], t)
               PROVE  /\ t \in KeysOf("Track") /\ t \in GivenKeys' /\ t \in trackFiles'
                      /\ t \notin DOMAIN rows'
                      /\ \A i \in Jobs : i # k => ~ Makes(job'[i], t) /\ ~ Unlinks(job'[i], t)
    OBVIOUS
  <2>1. CASE k = j
    <3>1. Makes(q, t)
      BY <1>1, <2>1
    <3> QED
      BY <1>4, <2>1, <3>1
  <2>2. CASE k # j
    <3>1. Makes(job[k], t)
      BY <1>1, <2>2
    <3> QED
      BY <1>3, <2>2, <3>1
  <2> QED
    BY <2>1, <2>2
<1>6. ASSUME NEW k \in Jobs, k # j, NEW t, Unlinked(job[k], t)
      PROVE  t \notin DOMAIN rows'
  <2>1. t \notin DOMAIN rows /\ Unlinks(job[k], t)
    BY <1>6, UnlinkedUnlinks DEF FilesInv
  <2>2. t \in KeysOf("Track") /\ t \in GivenKeys
    BY <2>1, UnlinksTrack DEF FilesInv
  <2>3. ~ Makes(job[j], t)
    BY <1>6, <2>1 DEF FilesInv
  <2> QED
    BY <2>1, <2>2, <2>3 DEF TracksStay
<1>7. \A k \in Jobs : \A t : Unlinked(job'[k], t) => t \notin DOMAIN rows'
  BY <1>1, <1>6
<1>8. \A k \in Jobs : job'[k] # <<>> => UnlinksLast(job'[k])
  BY <1>1 DEF FilesInv
<1>9. (\A k \in Jobs : \A t : Makes(job[k], t) =>
        /\ t \in KeysOf("Track") /\ t \in GivenKeys /\ t \in trackFiles /\ t \notin DOMAIN rows
        /\ \A i \in Jobs : i # k => ~ Makes(job[i], t) /\ ~ Unlinks(job[i], t))'
  BY <1>5 DEF Makes, Unlinks
<1>10. (\A t \in Rows(rows, "Track") :
         t \in trackFiles \/ cut \/ \E k \in Jobs : Discards(job[k], t))'
  BY <1>2 DEF Discards, Rows
<1>11. (\A k \in Jobs : \A t : Unlinked(job[k], t) => t \notin DOMAIN rows)'
  BY <1>7 DEF Unlinked
<1>12. (\A k \in Jobs : job[k] # <<>> => UnlinksLast(job[k]))'
  BY <1>8 DEF UnlinksLast
<1> QED
  BY <1>9, <1>10, <1>11, <1>12 DEF FilesInv

\* Statements that neither create a track of a file nor unlink one.
Calm(s) == s.op # "unlink" /\ ~ (s.op = "create" /\ s.table = "Track")

\* A list that neither makes a file nor unlinks one.
Calms(q) == /\ \A t : ~ Makes(q, t) /\ ~ Unlinks(q, t) /\ ~ Unlinked(q, t)
            /\ UnlinksLast(q)

\* Requests that neither create a track nor unlink a file.
LEMMA CalmRequests ==
  ASSUME NEW s, Calm(s), NEW t, t.op # "unlink"
  PROVE  Calms(<<>>) /\ Calms(<<s>>) /\ Calms(<<s, t>>)
<1>1. ASSUME NEW q, q # <<>>, Head(q) = s, Tail(q) = <<>> \/ Tail(q) = <<t>>
      PROVE  Calms(q)
  <2>1. \A u : Tail(q) = <<u>> => u = t
    BY <1>1
  <2>2. \A u : Tail(q) = <<u>> => u.op # "unlink"
    BY <2>1
  <2> QED
    BY <1>1, <2>2 DEF Calms, Calm, Makes, Unlinks, Unlinked, UnlinksLast
<1>2. <<s>> # <<>> /\ Head(<<s>>) = s /\ Tail(<<s>>) = <<>>
  OBVIOUS
<1>3. <<s, t>> # <<>> /\ Head(<<s, t>>) = s /\ Tail(<<s, t>>) = <<t>>
  OBVIOUS
<1>4. Calms(<<>>)
  <2>1. \A u : Tail(<<>>) # <<u>>
    OBVIOUS
  <2> QED
    BY <2>1 DEF Calms, Makes, Unlinks, Unlinked, UnlinksLast
<1> QED
  BY <1>1, <1>2, <1>3, <1>4

\* A request with nothing left does neither.
LEMMA CalmNothing == Calms(<<>>)
<1> DEFINE s == Statement("copy", "Playlist", New, {})
<1>1. s.op = "copy"
  BY StatementFields
<1> HIDE DEF s
<1>2. Calm(s) /\ s.op # "unlink"
  BY <1>1 DEF Calm
<1> QED
  BY <1>2, CalmRequests

\* What is left of a request when its head has run.
LEMMA TailFiles ==
  ASSUME FilesInv, NEW j \in Jobs, job[j] # <<>>, Head(job[j]).op # "file"
  PROVE  /\ \A t : ~ Makes(Tail(job[j]), t)
         /\ \A t : Unlinks(Tail(job[j]), t) => Unlinks(job[j], t)
         /\ \A t : Unlinked(Tail(job[j]), t) => Discards(job[j], t)
         /\ UnlinksLast(Tail(job[j]))
<1> DEFINE rest == Tail(job[j])
<1>1. CASE rest = <<>>
  <2>1. Calms(rest)
    BY <1>1, CalmNothing
  <2> HIDE DEF rest
  <2>2. \A t : ~ Makes(rest, t) /\ ~ Unlinks(rest, t) /\ ~ Unlinked(rest, t)
    BY <2>1 DEF Calms
  <2>3. UnlinksLast(rest)
    BY <2>1 DEF Calms
  <2> QED
    BY <2>2, <2>3 DEF rest
<1>2. CASE rest # <<>>
  <2>1. PICK u : /\ rest = <<u>>
                 /\ u.op = "create" => Head(job[j]).op = "file"
    BY <1>2, RestIs DEF FilesInv
  <2>2. <<u>> # <<>> /\ Head(<<u>>) = u /\ Tail(<<u>>) = <<>>
    OBVIOUS
  <2>3. Head(rest) = u /\ Tail(rest) = <<>>
    BY <2>1, <2>2
  <2>4. u.op = "unlink" => Head(job[j]).op = "delete"
    BY <2>1 DEF FilesInv, UnlinksLast
  <2>5. u.op = "unlink" => Discards(job[j], u.key)
    <3> SUFFICES ASSUME u.op = "unlink"
                 PROVE  Discards(job[j], u.key)
      OBVIOUS
    <3>1. Follows(Head(job[j]), rest)
      BY RestIs DEF FilesInv
    <3>2. PICK v : rest = <<v>> /\ v.key = Head(job[j]).key
      BY <1>2, <2>4, <3>1 DEF Follows
    <3>3. v = u
      BY <2>1, <3>2
    <3> QED
      BY <2>4, <3>2, <3>3 DEF Discards
  <2>6. \A v : Tail(rest) # <<v>>
    BY <2>3
  <2>7. \A t : ~ Makes(rest, t)
    BY <2>1, <2>3 DEF Makes
  <2>8. \A t : Unlinks(rest, t) => u.op = "unlink" /\ u.key = t
    <3> HIDE DEF rest
    <3> QED
      BY <2>3, <2>6 DEF Unlinks
  <2>9. \A t : Unlinks(rest, t) => Unlinks(job[j], t)
    BY <2>1, <2>8 DEF Unlinks
  <2>10. \A t : Unlinked(rest, t) => Discards(job[j], t)
    BY <2>5, <2>8, UnlinkedUnlinks
  <2>11. UnlinksLast(rest)
    <3> HIDE DEF rest
    <3> QED
      BY <2>6 DEF UnlinksLast
  <2> QED
    BY <2>7, <2>9, <2>10, <2>11
<1> QED
  BY <1>1, <1>2

\* The files are left alone, and so are the tracks of those that were given.
LEMMA FilesQuiet ==
  ASSUME KeysTellApart, FilesInv, RefsInv', NEW j \in Jobs, NEW q, job' = [job EXCEPT ![j] = q],
         cut' = cut, trackFiles' = trackFiles, used \subseteq used',
         Rows(rows', "Track") \subseteq Rows(rows, "Track"), TracksStay(rows, GivenKeys, rows', job[j]),
         \A t \in DOMAIN rows' : ~ Discards(job[j], t),
         \A t : ~ Makes(q, t), \A t : Unlinks(q, t) => Unlinks(job[j], t),
         UnlinksLast(q), \A t : Unlinked(q, t) => t \notin DOMAIN rows'
  PROVE  FilesInv'
<1>1. GivenKeys \subseteq GivenKeys' /\ trackFiles' \subseteq GivenKeys'
  BY DEF FilesInv, GivenKeys
<1>2. FilesStay(rows', q, job[j])
  BY DEF FilesStay, Rows
<1>3. \A k \in Jobs : \A t : k # j /\ Makes(job[k], t) =>
        t \in trackFiles' /\ ~ Makes(q, t) /\ ~ Unlinks(q, t)
  BY DEF FilesInv
<1> QED
  BY <1>1, <1>2, <1>3, FilesStep

\* A statement that runs and makes no file.
LEMMA ProceedFiles ==
  ASSUME KeysTellApart, FilesInv, RefsInv', NEW j \in Jobs, job[j] # <<>>, Proceed(j), cut' = cut,
         Head(job[j]).op # "file", trackFiles' = trackFiles, used' = used,
         Rows(rows', "Track") \subseteq Rows(rows, "Track"), TracksStay(rows, GivenKeys, rows', job[j]),
         \A t \in DOMAIN rows' : ~ Discards(job[j], t)
  PROVE  FilesInv'
<1> DEFINE q == Tail(job[j])
<1>1. /\ \A t : ~ Makes(q, t)
      /\ \A t : Unlinks(q, t) => Unlinks(job[j], t)
      /\ \A t : Unlinked(q, t) => Discards(job[j], t)
      /\ UnlinksLast(q)
  BY TailFiles
<1>2. job' = [job EXCEPT ![j] = q] /\ used \subseteq used'
  BY DEF Proceed
<1> HIDE DEF q
<1>3. \A t : Unlinked(q, t) => t \notin DOMAIN rows'
  BY <1>1
<1> QED
  BY <1>1, <1>2, <1>3, FilesQuiet

\* When no row is added, no track is.
LEMMA RowsStay ==
  ASSUME NEW db, NEW given, NEW later, DOMAIN later \subseteq DOMAIN db, NEW q
  PROVE  TracksStay(db, given, later, q)
BY DEF TracksStay

\* A request goes on with something else than a file or a track of one.
LEMMA CalmFiles ==
  ASSUME KeysTellApart, FilesInv, RefsInv', NEW j \in Jobs, NEW q, job' = [job EXCEPT ![j] = q],
         cut' = cut, trackFiles' = trackFiles, used' = used, rows' = rows, Calms(q),
         job[j] = <<>> \/ Head(job[j]).op # "delete" \/ Head(job[j]).key \notin DOMAIN rows
  PROVE  FilesInv'
<1>1. \A t \in DOMAIN rows : ~ Discards(job[j], t)
  BY DEF Discards
<1>2. TracksStay(rows, GivenKeys, rows', job[j])
  BY RowsStay
<1>3. \A t : ~ Makes(q, t) /\ ~ Unlinks(q, t) /\ ~ Unlinked(q, t)
  BY DEF Calms
<1>4. UnlinksLast(q)
  BY DEF Calms
<1> QED
  BY <1>1, <1>2, <1>3, <1>4, FilesQuiet

\* A request ends, but not one about to delete a row that is there.
LEMMA FailFiles ==
  ASSUME KeysTellApart, FilesInv, RefsInv', NEW j \in Jobs, Fail(j), cut' = cut,
         job[j] = <<>> \/ Head(job[j]).op # "delete" \/ Head(job[j]).key \notin DOMAIN rows
  PROVE  FilesInv'
BY CalmFiles, CalmNothing DEF Fail, Left

\* A request begins.
LEMMA BeginsFiles ==
  ASSUME KeysTellApart, FilesInv, RefsInv', NEW j \in Jobs, NEW q, Begins(j, q)
  PROVE  FilesInv'
<1>1. /\ job[j] = <<>> /\ job' = [job EXCEPT ![j] = q] /\ rows' = rows /\ cut' = cut
      /\ used' = used /\ trackFiles' = trackFiles /\ Asked(q)
  BY DEF Begins, Request, FreeJob
<1>2. ASSUME NEW s, q = <<s>>, AskedFirst(s, <<>>)
      PROVE  FilesInv'
  <2>1. Calm(s) /\ s.op # "unlink"
    BY <1>2 DEF Calm, AskedFirst
  <2>2. Calms(q)
    BY <1>2, <2>1, CalmRequests
  <2> QED
    BY <1>1, <2>2, CalmFiles
<1>3. ASSUME NEW s, NEW t, q = <<s, t>>, AskedOf(s), AskedOf(t), AskedFirst(s, <<t>>),
             t.op = "unlink" => s.op = "delete"
      PROVE  FilesInv'
  <2>1. q # <<>> /\ Head(q) = s /\ Tail(q) = <<t>> /\ <<t>> # <<>>
    BY <1>3
  <2>2. \A u : Tail(q) = <<u>> => u = t
    BY <2>1
  <2>3. \A x : ~ Makes(q, x) /\ ~ Unlinked(q, x)
    BY <1>3, <2>1 DEF Makes, Unlinked, AskedFirst
  <2>4. UnlinksLast(q)
    BY <1>3, <2>1, <2>2 DEF UnlinksLast
  <2>5. \A x : Unlinks(q, x) => x \in DOMAIN rows
    <3>1. \A x : Unlinks(q, x) => (s.op = "unlink" /\ s.key = x) \/ (t.op = "unlink" /\ t.key = x)
      BY <2>1, <2>2 DEF Unlinks
    <3> QED
      BY <1>3, <3>1 DEF AskedOf, Tables, Rows
  <2>6. GivenKeys' = GivenKeys /\ trackFiles' \subseteq GivenKeys'
    BY <1>1 DEF GivenKeys, FilesInv
  <2>7. FilesStay(rows', q, job[j]) /\ TracksStay(rows, GivenKeys, rows', job[j])
    BY <1>1 DEF FilesStay, TracksStay, Discards
  <2>8. \A k \in Jobs : \A x : k # j /\ Makes(job[k], x) =>
          x \in trackFiles' /\ ~ Makes(q, x) /\ ~ Unlinks(q, x)
    BY <1>1, <2>3, <2>5 DEF FilesInv
  <2> QED
    BY <1>1, <2>3, <2>4, <2>6, <2>7, <2>8, FilesStep
<1>4. CASE q = <<>>
  BY <1>1, <1>4, CalmNothing, CalmFiles
<1> QED
  BY <1>1, <1>2, <1>3, <1>4 DEF Asked

\* A row is created: that of a track comes after its file.
LEMMA CreateFiles ==
  ASSUME KeysTellApart, FilesInv, RefsInv', NEW j \in Jobs, RunCreate(j)
  PROVE  FilesInv'
<1> DEFINE s == Head(job[j])
           x == IF s.key = New THEN NewKey(s.table) ELSE s.key
           rest == Tail(job[j])
           q == WithKey(rest, x)
<1>1. job[j] # <<>> /\ s.op = "create" /\ Runs(j, "create") /\ cut' = cut
  BY DEF RunCreate, Runs, NotRequests
<1>2. CASE Fail(j)
  BY <1>1, <1>2, FailFiles
<1>3. CASE /\ s.key = New => Unused(s.table) # {}
           /\ x \notin DOMAIN rows
           /\ rows' = Inserted(rows, x, s.table, s.columns)
           /\ used' = IF s.key = New THEN used \cup {x} ELSE used
           /\ Left(j, WithKey(rest, x))
           /\ UNCHANGED <<trackFiles, bereft, jumbled>>
  <2>1. /\ s.key = New => s.table \in DOMAIN Keys
        /\ s.key # New => \/ s.table = "Track"
                          \/ s.table = "PlaylistTrack" /\ IsPair(s.key)
    BY <1>1, CreatedKey DEF FilesInv
  <2>2. s.table = "Track" => Makes(job[j], s.key)
    BY <1>1 DEF Makes
  <2>3. s.table = "Track" => s.key \in GivenKeys /\ s.key \in trackFiles
    BY <2>2 DEF FilesInv
  <2>4. New \notin GivenKeys
    BY DEF GivenKeys, KeysTellApart, UsedOK, FilesInv, RefsInv
  <2>5. s.table = "Track" => x = s.key /\ x \in trackFiles /\ Makes(job[j], x)
    BY <2>2, <2>3, <2>4
  <2>6. s.key = New => x \notin GivenKeys
    BY <1>3, <2>1, NewKeyIs
  <2>7. Calms(q)
    <3>1. CASE rest = <<>>
      BY <3>1, EmptyKeyed, CalmNothing
    <3>2. CASE rest # <<>>
      <4>1. PICK t : /\ rest = <<t>> /\ IsStatement(t)
                     /\ t.op = "create" => s.op = "file"
        BY <1>1, <3>2, RestIs DEF FilesInv
      <4>2. t.op # "unlink"
        BY <1>1, <4>1 DEF FilesInv, UnlinksLast
      <4>3. t.op # "create"
        BY <1>1, <4>1
      <4> DEFINE u == IF t.key = New /\ t.op # "ensure" THEN [t EXCEPT !.key = x] ELSE t
      <4> HIDE DEF x, u, rest
      <4>4. WithKey(<<t>>, x) = <<u>> /\ u.op = t.op
        BY <4>1, WithKeyIs DEF u
      <4>5. Calm(u) /\ u.op # "unlink"
        BY <4>2, <4>3, <4>4 DEF Calm
      <4>6. Calms(<<u>>)
        BY <4>5, CalmRequests
      <4> QED
        BY <4>1, <4>4, <4>6
    <3> QED
      BY <3>1, <3>2
  <2> DEFINE table == s.table
             columns == s.columns
  <2>8. x \notin DOMAIN rows /\ rows' = Inserted(rows, x, table, columns)
    BY <1>3
  <2>9. job' = [job EXCEPT ![j] = q] /\ trackFiles' = trackFiles
    BY <1>3 DEF Left
  <2>10. GivenKeys \subseteq GivenKeys' /\ trackFiles' \subseteq GivenKeys'
    BY <1>3 DEF GivenKeys, FilesInv
  <2>11. x \notin KeysOf("Track") \/ x \notin GivenKeys \/ Makes(job[j], x)
    <3>1. \A y \in KeysOf("Track") : ~ IsPair(y)
      BY KeysOfTypes DEF KeysTellApart
    <3> QED
      BY <2>1, <2>5, <2>6, <3>1
  <2>12. \A t : ~ Discards(job[j], t)
    BY <1>1 DEF Discards
  <2>13. table = "Track" => x \in trackFiles
    BY <2>5
  <2> HIDE DEF table, columns, x, q, s, rest
  <2>14. /\ DOMAIN rows' = DOMAIN rows \cup {x} /\ \A y \in DOMAIN rows : rows'[y] = rows[y]
         /\ rows'[x].table = table
    BY <2>8 DEF Inserted
  <2>15. TracksStay(rows, GivenKeys, rows', job[j])
    BY <2>11, <2>14 DEF TracksStay
  <2>16. FilesStay(rows', q, job[j])
    BY <2>9, <2>12, <2>13, <2>14 DEF FilesStay, Rows
  <2>17. /\ \A t : ~ Makes(q, t) /\ ~ Unlinks(q, t) /\ ~ Unlinked(q, t)
         /\ UnlinksLast(q)
    BY <2>7 DEF Calms
  <2>18. \A k \in Jobs : \A t : k # j /\ Makes(job[k], t) =>
           t \in trackFiles' /\ ~ Makes(q, t) /\ ~ Unlinks(q, t)
    BY <2>9, <2>17 DEF FilesInv
  <2> QED
    BY <1>1, <2>9, <2>10, <2>15, <2>16, <2>17, <2>18, FilesStep
<1> QED
  BY <1>2, <1>3 DEF RunCreate

\* Rows are changed or deleted.
LEMMA WriteFiles ==
  ASSUME KeysTellApart, FilesInv, RefsInv', NEW j \in Jobs,
         RunUpdate(j) \/ RunDelete(j) \/ RunClear(j)
  PROVE  FilesInv'
<1> DEFINE x == Head(job[j]).key
<1>1. /\ job[j] # <<>> /\ Head(job[j]).op \in {"update", "delete", "clear"} /\ cut' = cut
  BY DEF RunUpdate, RunDelete, RunClear, Runs, NotRequests
<1>2. CASE RunUpdate(j)
  <2> DEFINE columns == Head(job[j]).columns
             later == Updated(rows, x, columns)
             t == Ensure(later[x].columns.zone, later[x].columns.playlist)
             q == <<t>>
  <2>1. Head(job[j]).op = "update"
    BY <1>2 DEF RunUpdate, Runs
  <2>2. CASE Fail(j)
    BY <1>1, <2>1, <2>2, FailFiles
  <2>3. CASE ~ Fail(j)
    <3>1. /\ x \in DOMAIN rows /\ rows' = later /\ UNCHANGED <<used, trackFiles>>
          /\ Proceed(j) \/ job' = [job EXCEPT ![j] = q]
      BY <1>2, <2>3, UpdateIs
    <3>2. DOMAIN rows[x] = {"table", "columns"}
      BY <3>1 DEF FilesInv, RefsInv, RowsInv, DbOK
    <3>3. IsUpdated(rows, x, columns, later)
      BY <3>1, <3>2, UpdatedAre
    <3>4. t.op = "ensure"
      BY StatementFields DEF Ensure
    <3> HIDE DEF t
    <3>5. Calms(q)
      BY <3>4, CalmRequests DEF Calm
    <3> HIDE DEF later, x, columns, q
    <3>6. DOMAIN rows' = DOMAIN rows /\ Rows(rows', "Track") \subseteq Rows(rows, "Track")
      BY <3>1, <3>3 DEF IsUpdated, Rows
    <3>7. TracksStay(rows, GivenKeys, rows', job[j]) /\ \A u : ~ Discards(job[j], u)
      BY <2>1, <3>6, RowsStay DEF Discards
    <3>8. CASE Proceed(j)
      BY <1>1, <2>1, <3>1, <3>6, <3>7, <3>8, ProceedFiles
    <3>9. CASE job' = [job EXCEPT ![j] = q]
      <4>1. /\ \A u : ~ Makes(q, u) /\ ~ Unlinks(q, u) /\ ~ Unlinked(q, u)
            /\ UnlinksLast(q)
        BY <3>5 DEF Calms
      <4> QED
        BY <1>1, <3>1, <3>6, <3>7, <3>9, <4>1, FilesQuiet
    <3> QED
      BY <3>1, <3>8, <3>9
  <2> QED
    BY <2>2, <2>3
<1>3. ASSUME NEW X, rows' = Deleted(rows, X)
      PROVE  /\ DOMAIN rows' \subseteq DOMAIN rows /\ DOMAIN rows' \cap X = {}
             /\ Rows(rows', "Track") \subseteq Rows(rows, "Track")
  <2>1. \A y \in DOMAIN rows : DOMAIN rows[y] = {"table", "columns"}
    BY DEF FilesInv, RefsInv, RowsInv, DbOK
  <2>2. X \subseteq Doomed(rows, X) /\ IsLeft(rows, Doomed(rows, X), rows')
    BY <1>3, <2>1, DeletedAre, DoomedLeast DEF FilesInv, RefsInv, RowsInv, DbOK
  <2> QED
    BY <2>2 DEF IsLeft, Rows
<1>4. CASE RunDelete(j) \/ RunClear(j)
  <2>1. Head(job[j]).op # "file" /\ Head(job[j]).op # "create"
    BY <1>1
  <2>2. CASE Fail(j) /\ x \notin DOMAIN rows
    BY <1>1, <2>2, FailFiles
  <2>3. CASE x \notin DOMAIN rows /\ rows' = rows /\ Proceed(j) /\ UNCHANGED <<used, trackFiles>>
    <3>1. TracksStay(rows, GivenKeys, rows', job[j]) /\ \A t \in DOMAIN rows' : ~ Discards(job[j], t)
      BY <2>3, RowsStay DEF Discards
    <3>2. Rows(rows', "Track") \subseteq Rows(rows, "Track")
      BY <2>3
    <3> QED
      BY <1>1, <2>1, <2>3, <3>1, <3>2, ProceedFiles
  <2>4. CASE rows' = Deleted(rows, {x}) /\ Proceed(j) /\ UNCHANGED <<used, trackFiles>>
    <3>1. /\ DOMAIN rows' \subseteq DOMAIN rows /\ x \notin DOMAIN rows'
          /\ Rows(rows', "Track") \subseteq Rows(rows, "Track")
      <4> DEFINE X == {x}
      <4>1. rows' = Deleted(rows, X) /\ x \in X
        BY <2>4
      <4> HIDE DEF X
      <4> QED
        BY <1>3, <4>1
    <3>2. TracksStay(rows, GivenKeys, rows', job[j]) /\ \A t \in DOMAIN rows' : ~ Discards(job[j], t)
      BY <3>1, RowsStay DEF Discards
    <3> QED
      BY <1>1, <2>1, <2>4, <3>1, <3>2, ProceedFiles
  <2>5. \/ Fail(j) /\ x \notin DOMAIN rows
        \/ x \notin DOMAIN rows /\ rows' = rows /\ Proceed(j) /\ UNCHANGED <<used, trackFiles>>
        \/ rows' = Deleted(rows, {x}) /\ Proceed(j) /\ UNCHANGED <<used, trackFiles>>
    BY <1>4 DEF RunDelete, RunClear
  <2> QED
    BY <2>2, <2>3, <2>4, <2>5
<1> QED
  BY <1>2, <1>4

\* The tracks of a playlist are replaced.
LEMMA ReplaceFiles ==
  ASSUME KeysTellApart, FilesInv, RefsInv', NEW j \in Jobs, RunReplace(j)
  PROVE  FilesInv'
<1> DEFINE p == Head(job[j]).key
           tracks == Head(job[j]).columns
           X == TracksOf(p)
           kept == Deleted(rows, X)
<1>1. job[j] # <<>> /\ Head(job[j]).op = "replace" /\ cut' = cut
  BY DEF RunReplace, Runs, NotRequests
<1>2. CASE Fail(j)
  BY <1>1, <1>2, FailFiles
<1>3. CASE ~ Fail(j)
  <2>1. IsReplaced(kept, p, tracks, rows') /\ Proceed(j) /\ UNCHANGED <<used, trackFiles>>
    BY <1>3, ReplaceIs
  <2>2. \A x \in X : x \in DOMAIN rows /\ rows[x].table = "PlaylistTrack"
    BY DEF TracksOf, Tables, Rows
  <2>3. DbOK(kept, GivenKeys, bereft)
    BY <2>2, TracksGoAlone DEF FilesInv, RefsInv, RowsInv
  <2>4. IsLeft(rows, Doomed(rows, X), kept)
    BY DeletedAre DEF FilesInv, RefsInv, RowsInv, DbOK
  <2> HIDE DEF X, p, tracks
  <2>5. DOMAIN kept \subseteq DOMAIN rows /\ Rows(kept, "Track") \subseteq Rows(rows, "Track")
    <3> HIDE DEF kept
    <3> QED
      BY <2>4 DEF IsLeft, Rows
  <2> HIDE DEF kept
  <2>6. Rows(rows', "Track") = Rows(kept, "Track")
    <3> DEFINE t == "Track"
    <3>1. t # "PlaylistTrack"
      OBVIOUS
    <3> HIDE DEF t
    <3>2. Rows(rows', t) = Rows(kept, t)
      BY <2>1, <2>3, <3>1, ReplacedTables
    <3> QED
      BY <3>2 DEF t
  <2>7. TracksStay(rows, GivenKeys, rows', job[j])
    <3>1. \A y \in KeysOf("Track") : ~ IsPair(y)
      BY KeysOfTypes DEF KeysTellApart
    <3>2. \A y \in Listed(p, tracks) : IsPair(y)
      BY DEF Listed, IsPair
    <3>3. DOMAIN rows' = DOMAIN kept \cup Listed(p, tracks)
      BY <2>1 DEF IsReplaced
    <3> QED
      BY <2>5, <3>1, <3>2, <3>3 DEF TracksStay
  <2>8. \A t : ~ Discards(job[j], t)
    BY <1>1 DEF Discards
  <2>9. Rows(rows', "Track") \subseteq Rows(rows, "Track") /\ Head(job[j]).op # "file"
    BY <1>1, <2>5, <2>6
  <2> QED
    BY <1>1, <2>1, <2>7, <2>8, <2>9, ProceedFiles
<1> QED
  BY <1>2, <1>3

\* Statements that touch no file.
LEMMA OtherFiles ==
  ASSUME KeysTellApart, FilesInv, RefsInv', NEW j \in Jobs, ScopeUser(j) \/ RunCopy(j) \/ RunEnsure(j)
  PROVE  FilesInv'
<1>1. /\ job[j] # <<>> /\ Head(job[j]).op \in {"scope", "copy", "ensure"}
      /\ rows' = rows /\ used' = used /\ trackFiles' = trackFiles /\ cut' = cut
  BY DEF ScopeUser, RunCopy, RunEnsure, Runs, NotRequests
<1>2. ASSUME NEW q, job' = [job EXCEPT ![j] = q], Calms(q)
      PROVE  FilesInv'
  BY <1>1, <1>2, CalmFiles
<1>3. ASSUME NEW s, s.op # "unlink", s.op # "create" \/ s.table # "Track",
             NEW t, t.op # "unlink",
             \/ job' = [job EXCEPT ![j] = <<>>] \/ job' = [job EXCEPT ![j] = <<s>>]
             \/ job' = [job EXCEPT ![j] = <<s, t>>]
      PROVE  FilesInv'
  <2>1. Calms(<<>>) /\ Calms(<<s>>) /\ Calms(<<s, t>>)
    BY <1>3, CalmRequests DEF Calm
  <2> QED
    BY <1>2, <1>3, <2>1
<1>4. CASE ScopeUser(j)
  <2> DEFINE key == Head(job[j]).key
  <2>1. PICK c : LET s == Statement("update", "User", key, c) IN
                 job' = [job EXCEPT ![j] = <<>>] \/ job' = [job EXCEPT ![j] = <<s>>]
    BY <1>4 DEF ScopeUser
  <2> DEFINE s == Statement("update", "User", key, c)
  <2>2. s.op = "update"
    BY StatementFields
  <2>3. job' = [job EXCEPT ![j] = <<>>] \/ job' = [job EXCEPT ![j] = <<s>>]
    BY <2>1
  <2> HIDE DEF s
  <2> QED
    BY <1>3, <2>2, <2>3
<1>5. CASE RunCopy(j)
  <2> DEFINE s == CopyOf(Head(job[j]))
             u(q) == Replacement(New, Copied(q))
  <2>1. s.op = "create" /\ s.table = "Playlist"
    BY StatementFields DEF CopyOf
  <2>2. PICK q : job' = [job EXCEPT ![j] = <<s>>] \/ job' = [job EXCEPT ![j] = <<s, u(q)>>]
    BY <1>5, CopyIs
  <2> DEFINE t == u(q)
  <2>3. t.op = "replace"
    BY StatementFields DEF Replacement
  <2>4. job' = [job EXCEPT ![j] = <<s>>] \/ job' = [job EXCEPT ![j] = <<s, t>>]
    BY <2>2
  <2> HIDE DEF s, t
  <2> QED
    BY <1>3, <2>1, <2>3, <2>4
<1>6. CASE RunEnsure(j)
  <2> DEFINE c == Head(job[j]).columns
             s == Assignment(c.target, c.playlist)
  <2>1. job' = [job EXCEPT ![j] = <<>>] \/ job' = [job EXCEPT ![j] = <<s>>]
    BY <1>6 DEF RunEnsure, Left
  <2>2. s.op = "create" /\ s.table = "PlaylistAssignment"
    BY StatementFields DEF Assignment
  <2> HIDE DEF s
  <2> QED
    BY <1>3, <2>1, <2>2
<1> QED
  BY <1>4, <1>5, <1>6

\* The file of a track gets a name that no track has had.
LEMMA FileFiles ==
  ASSUME KeysTellApart, FilesInv, RefsInv', NEW j \in Jobs, RunFile(j)
  PROVE  FilesInv'
<1> DEFINE x == NewKey("Track")
           rest == Tail(job[j])
           q == WithKey(rest, x)
<1>1. /\ job[j] # <<>> /\ Head(job[j]).op = "file" /\ Unused("Track") # {} /\ cut' = cut
      /\ rows' = rows /\ used' = used \cup {x} /\ trackFiles' = trackFiles \cup {x}
      /\ job' = [job EXCEPT ![j] = q]
  BY DEF RunFile, Runs, Left, NotRequests
<1>2. x \in Keys["Track"] /\ x \in KeysOf("Track") /\ x \notin GivenKeys
  BY <1>1, NewKeyIs DEF KeysTellApart
<1>3. x \notin DOMAIN rows
  <2>1. ~ IsPair(x)
    BY <1>2, KeysOfTypes
  <2> HIDE DEF x
  <2> QED
    BY <1>2, <2>1 DEF FilesInv, RefsInv, RowsInv, DbOK, KeyOK
<1>4. GivenKeys' = GivenKeys \cup {x} /\ trackFiles' \subseteq GivenKeys' /\ GivenKeys \subseteq GivenKeys'
  BY <1>1 DEF GivenKeys, FilesInv
<1>5. /\ \A t : Makes(q, t) => t = x
      /\ \A t : ~ Unlinks(q, t) /\ ~ Unlinked(q, t)
      /\ UnlinksLast(q)
  <2>1. PICK t : rest = <<t>> /\ t.op = "create" /\ t.table = "Track" /\ t.key = New
    BY <1>1, RestIs DEF FilesInv, Follows
  <2>2. IsStatement(t)
    <3>1. rest # <<>>
      BY <2>1
    <3>2. PICK v : rest = <<v>> /\ IsStatement(v)
      BY <1>1, <3>1, RestIs DEF FilesInv
    <3>3. v = t
      BY <2>1, <3>2
    <3> QED
      BY <3>2, <3>3
  <2> DEFINE u == IF t.key = New /\ t.op # "ensure" THEN [t EXCEPT !.key = x] ELSE t
  <2> HIDE DEF x, u, rest
  <2>3. WithKey(<<t>>, x) = <<u>> /\ u.op = "create" /\ u.key = x
    BY <2>1, <2>2, WithKeyIs DEF u
  <2>4. q = <<u>>
    BY <2>1, <2>3
  <2> HIDE DEF q
  <2>5. Head(q) = u /\ Tail(q) = <<>> /\ q # <<>>
    BY <2>4
  <2>6. \A v : Tail(q) # <<v>>
    BY <2>5
  <2> QED
    BY <2>3, <2>5, <2>6 DEF Makes, Unlinks, Unlinked, UnlinksLast
<1> HIDE DEF x, q, rest
<1>6. \A k \in Jobs : ~ Unlinks(job[k], x)
  BY <1>2, UnlinksTrack DEF FilesInv
<1>7. \A t : Makes(q, t) =>
        /\ t \in KeysOf("Track") /\ t \in GivenKeys' /\ t \in trackFiles' /\ t \notin DOMAIN rows'
        /\ \A k \in Jobs : k # j => ~ Unlinks(job[k], t)
  BY <1>1, <1>2, <1>3, <1>4, <1>5, <1>6
<1>8. \A k \in Jobs : \A t : k # j /\ Makes(job[k], t) =>
        t \in trackFiles' /\ ~ Makes(q, t) /\ ~ Unlinks(q, t)
  BY <1>1, <1>2, <1>5 DEF FilesInv
<1>9. FilesStay(rows', q, job[j]) /\ TracksStay(rows, GivenKeys, rows', job[j])
  BY <1>1 DEF FilesStay, TracksStay, Discards
<1> QED
  BY <1>1, <1>4, <1>5, <1>7, <1>8, <1>9, FilesStep

\* A file is unlinked, after the row of its track was deleted.
LEMMA UnlinkFiles ==
  ASSUME KeysTellApart, FilesInv, RefsInv', NEW j \in Jobs, RunUnlink(j)
  PROVE  FilesInv'
<1> DEFINE x == Head(job[j]).key
           q == Tail(job[j])
<1>1. /\ job[j] # <<>> /\ Head(job[j]).op = "unlink" /\ rows' = rows /\ used' = used /\ cut' = cut
      /\ trackFiles' = trackFiles \ {x} /\ job' = [job EXCEPT ![j] = q]
  BY DEF RunUnlink, Runs, Proceed, NotRequests
<1>2. GivenKeys' = GivenKeys /\ trackFiles' \subseteq GivenKeys'
  BY <1>1 DEF GivenKeys, FilesInv
<1>3. /\ \A t : ~ Makes(q, t)
      /\ \A t : Unlinks(q, t) => Unlinks(job[j], t)
      /\ \A t : Unlinked(q, t) => Discards(job[j], t)
      /\ UnlinksLast(q)
  BY <1>1, TailFiles
<1>4. \A t : ~ Discards(job[j], t)
  BY <1>1 DEF Discards
<1>5. Unlinks(job[j], x)
  BY <1>1 DEF Unlinks
<1>6. x \notin DOMAIN rows \/ Discards(q, x)
  <2>1. CASE q = <<>>
    <3>1. Unlinked(job[j], x)
      BY <1>1, <2>1 DEF Unlinked
    <3> QED
      BY <3>1 DEF FilesInv
  <2>2. CASE q # <<>>
    <3>3. Follows(Head(job[j]), q)
      BY <1>1, RestIs DEF FilesInv
    <3> HIDE DEF q
    <3>1. PICK u : q = <<u>> /\ u.op = "delete" /\ u.key = x
      BY <1>1, <2>2, <3>3 DEF Follows
    <3>2. Head(q) = u
      BY <3>1
    <3> QED
      BY <2>2, <3>1, <3>2 DEF Discards
  <2> QED
    BY <2>1, <2>2
<1> HIDE DEF x, q
<1>7. FilesStay(rows', q, job[j]) /\ TracksStay(rows, GivenKeys, rows', job[j])
  BY <1>1, <1>4, <1>6 DEF FilesStay, TracksStay, Rows
<1>8. \A k \in Jobs : \A t : k # j /\ Makes(job[k], t) =>
        t \in trackFiles' /\ ~ Makes(q, t) /\ ~ Unlinks(q, t)
  BY <1>1, <1>3, <1>5 DEF FilesInv
<1> QED
  BY <1>1, <1>2, <1>3, <1>4, <1>7, <1>8, FilesStep

\* A restart: it is recorded that a request may have been cut off.
LEMMA RestartFiles ==
  ASSUME FilesInv, RefsInv', Restart
  PROVE  FilesInv'
<1>1. /\ cut' = TRUE /\ job' = [j \in Jobs |-> <<>>] /\ trackFiles' = trackFiles
      /\ rows' = rows /\ GivenKeys' = GivenKeys
  BY DEF Restart, GivenKeys
<1>2. \A j \in Jobs : job'[j] = <<>>
  BY <1>1
<1>3. (\A j \in Jobs : \A t : ~ Makes(job[j], t) /\ ~ Unlinked(job[j], t))'
  BY <1>2 DEF Makes, Unlinked
<1>4. (\A j \in Jobs : job[j] = <<>>)'
  BY <1>2
<1> QED
  BY <1>1, <1>3, <1>4 DEF FilesInv

\* Each step keeps the files of tracks.
LEMMA FilesKept ==
  ASSUME KeysTellApart, FilesInv, [PortalRowsNext]_rowVars
  PROVE  FilesInv'
<1>1. RefsInv'
  BY RefsKept DEF FilesInv
<1>2. CASE PortalRowsNext
  <2>1. Restart \/ \E j \in Jobs : Statements(j) \/ \E q : Begins(j, q)
    BY <1>2, StepsAre DEF FilesInv
  <2> QED
    BY <1>1, <2>1, RestartFiles, BeginsFiles, CreateFiles, WriteFiles, ReplaceFiles, OtherFiles,
       FileFiles, UnlinkFiles DEF Statements
<1>3. CASE UNCHANGED rowVars
  <2>1. /\ rows' = rows /\ job' = job /\ cut' = cut /\ trackFiles' = trackFiles
        /\ GivenKeys' = GivenKeys
    BY <1>3 DEF rowVars, GivenKeys
  <2>2. (\A t \in Rows(rows, "Track") :
           t \in trackFiles \/ cut \/ \E j \in Jobs : Discards(job[j], t))'
    BY <2>1 DEF FilesInv, Rows, Discards
  <2>3. (\A j \in Jobs : \A t : Makes(job[j], t) =>
           /\ t \in KeysOf("Track") /\ t \in GivenKeys /\ t \in trackFiles /\ t \notin DOMAIN rows
           /\ \A k \in Jobs : k # j => ~ Makes(job[k], t) /\ ~ Unlinks(job[k], t))'
    BY <2>1 DEF FilesInv, Makes, Unlinks
  <2>4. (/\ \A j \in Jobs : job[j] # <<>> => UnlinksLast(job[j])
         /\ \A j \in Jobs : \A t : Unlinked(job[j], t) => t \notin DOMAIN rows)'
    BY <2>1 DEF FilesInv, UnlinksLast, Unlinked
  <2> QED
    BY <1>1, <2>1, <2>2, <2>3, <2>4 DEF FilesInv
<1> QED
  BY <1>2, <1>3

\* A track has its file, or is about to be deleted.
LEMMA FilesAreThere == FilesInv => TrackHasFile
BY DEF FilesInv, TrackHasFile, Tables, Discards, Runs

-----------------------------------------------------------------------------
(* The tracks of a playlist have one order                                 *)

ItemsOf(db, p) == {x \in Rows(db, "PlaylistTrack") : db[x].columns.playlist = p}

\* The key of a track in a playlist is both; its position is a number.
ItemsOK(db) ==
  \A x \in Rows(db, "PlaylistTrack") :
    /\ x = <<db[x].columns.playlist, db[x].columns.track>>
    /\ "position" \in DOMAIN db[x].columns /\ db[x].columns.position \in Nat

\* Positions count the tracks.
InPlaces(db, p) ==
  \A x \in ItemsOf(db, p) :
    /\ db[x].columns.position < Cardinality(ItemsOf(db, p))
    /\ \A y \in ItemsOf(db, p) : x # y => db[x].columns.position # db[y].columns.position

\* The request has yet to write tracks of the playlist.
WritesIn(q, p) ==
  /\ q # <<>>
  /\ Rewrites(Head(q), p) \/ \E u : Tail(q) = <<u>> /\ Rewrites(u, p)

\* The tracks that replace those of a playlist are listed once each.
FilledIn(q) ==
  /\ Head(q).op = "replace" => Filled(Head(q).columns)
  /\ \A u : Tail(q) = <<u>> /\ u.op = "replace" => Filled(u.columns)

\* A request is about to add a track to p at position n.
Adds(q, p, n) ==
  /\ q # <<>> /\ Head(q).op = "create" /\ Head(q).table = "PlaylistTrack"
  /\ Head(q).columns.playlist = p /\ Head(q).columns.position = n

OneWriter(p) == \A j, k \in Jobs : WritesIn(job[j], p) /\ WritesIn(job[k], p) => j = k

\* A track that the request is about to add goes to the number of the tracks there are.
CountedOut(db, q, p) == \A n : Adds(q, p, n) => n = Cardinality(ItemsOf(db, p))

\* The invariant that is inductive: a playlist that is not jumbled has one writer, its tracks
\* are in places, and a track that is about to be added goes after them.
OrderInv ==
  /\ RefsInv
  /\ ItemsOK(rows)
  /\ \A j \in Jobs : job[j] # <<>> => FilledIn(job[j])
  /\ \A p \in GivenKeys : p \notin jumbled => OneWriter(p)
  /\ \A p \in Rows(rows, "Playlist") : p \notin jumbled =>
       InPlaces(rows, p) /\ \A j \in Jobs : CountedOut(rows, job[j], p)

\* The tracks of p are as they were.
ItemsSame(db, later, p) ==
  /\ ItemsOf(later, p) = ItemsOf(db, p)
  /\ \A x \in ItemsOf(db, p) : later[x].columns.position = db[x].columns.position

\* Tracks that stay as they are keep their places.
LEMMA SamePlaces ==
  ASSUME NEW db, NEW later, NEW p, ItemsSame(db, later, p)
  PROVE  /\ InPlaces(db, p) => InPlaces(later, p)
         /\ \A q : CountedOut(db, q, p) => CountedOut(later, q, p)
BY DEF ItemsSame, InPlaces, CountedOut

\* A step of one request: what it must keep for playlists to keep one order.
LEMMA KeepsOrder ==
  ASSUME OrderInv, RefsInv', NEW j \in Jobs, NEW q, job' = [job EXCEPT ![j] = q],
         ItemsOK(rows'), q # <<>> => FilledIn(q),
         \A p \in GivenKeys' : p \notin jumbled' =>
           \/ p \in GivenKeys /\ p \notin jumbled /\ (WritesIn(q, p) => WritesIn(job[j], p))
           \/ \A k \in Jobs : k # j => ~ WritesIn(job[k], p),
         \A p \in Rows(rows', "Playlist") : p \notin jumbled' =>
           /\ CountedOut(rows', q, p)
           /\ \/ p \in Rows(rows, "Playlist") /\ p \notin jumbled /\ ItemsSame(rows, rows', p)
              \/ /\ InPlaces(rows', p)
                 /\ \A k \in Jobs : k # j => \A n : ~ Adds(job[k], p, n)
  PROVE  OrderInv'
<1>1. DOMAIN job = Jobs /\ job'[j] = q /\ \A k \in Jobs : k # j => job'[k] = job[k]
  BY DEF OrderInv, RefsInv, RowsInv
<1>2. ASSUME NEW p \in GivenKeys', p \notin jumbled', NEW i \in Jobs, NEW k \in Jobs,
             WritesIn(job'[i], p), WritesIn(job'[k], p)
      PROVE  i = k
  <2>1. CASE p \in GivenKeys /\ p \notin jumbled /\ (WritesIn(q, p) => WritesIn(job[j], p))
    <3>1. WritesIn(job[i], p) /\ WritesIn(job[k], p)
      BY <1>1, <1>2, <2>1
    <3> QED
      BY <2>1, <3>1 DEF OrderInv, OneWriter
  <2>2. CASE \A l \in Jobs : l # j => ~ WritesIn(job[l], p)
    BY <1>1, <1>2, <2>2
  <2> QED
    BY <1>2, <2>1, <2>2
<1>3. ASSUME NEW p \in Rows(rows', "Playlist"), p \notin jumbled'
      PROVE  InPlaces(rows', p) /\ \A k \in Jobs : CountedOut(rows', job'[k], p)
  <2>1. CASE p \in Rows(rows, "Playlist") /\ p \notin jumbled /\ ItemsSame(rows, rows', p)
    <3>1. InPlaces(rows, p) /\ \A k \in Jobs : CountedOut(rows, job[k], p)
      BY <2>1 DEF OrderInv
    <3>2. InPlaces(rows', p) /\ \A k \in Jobs : CountedOut(rows', job[k], p)
      BY <2>1, <3>1, SamePlaces
    <3> QED
      BY <1>1, <1>3, <3>2
  <2>2. CASE /\ InPlaces(rows', p)
             /\ \A k \in Jobs : k # j => \A n : ~ Adds(job[k], p, n)
    <3>1. \A k \in Jobs : k # j => CountedOut(rows', job[k], p)
      BY <2>2 DEF CountedOut
    <3> QED
      BY <1>1, <1>3, <2>2, <3>1
  <2> QED
    BY <1>3, <2>1, <2>2
<1>4. \A k \in Jobs : job'[k] # <<>> => FilledIn(job'[k])
  BY <1>1 DEF OrderInv
<1>5. (\A k \in Jobs : job[k] # <<>> => FilledIn(job[k]))'
  BY <1>4 DEF FilledIn, Filled
<1>6. (\A p \in GivenKeys : p \notin jumbled => OneWriter(p))'
  BY <1>2 DEF OneWriter, WritesIn, Rewrites
<1>7. ItemsOK(rows)'
  BY DEF ItemsOK, Rows
<1>8. (\A p \in Rows(rows, "Playlist") : p \notin jumbled =>
         InPlaces(rows, p) /\ \A k \in Jobs : CountedOut(rows, job[k], p))'
  BY <1>3 DEF Rows, InPlaces, CountedOut, ItemsOf, Adds
<1> QED
  BY <1>5, <1>6, <1>7, <1>8 DEF OrderInv

\* Who writes the tracks of a playlist, and what it knows of it.
LEMMA WritesAre ==
  ASSUME KeysTellApart, RefsInv, NEW j \in Jobs, NEW p
  PROVE  /\ Writes(j, p) <=> WritesIn(job[j], p)
         /\ WritesIn(job[j], p) => p \in GivenKeys \cup {New}
         /\ \A n : Adds(job[j], p, n) => WritesIn(job[j], p) /\ p \in GivenKeys
<1>1. Writes(j, p) <=> \E i \in DOMAIN job[j] : Rewrites(job[j][i], p)
  BY DEF Writes, Rewrites
<1>2. ASSUME NEW s, StatementOK(GivenKeys, s), Rewrites(s, p)
      PROVE  p \in GivenKeys \cup {New}
  BY <1>2 DEF StatementOK, Rewrites
<1>3. CASE job[j] = <<>>
  BY <1>1, <1>3 DEF WritesIn, Adds
<1>4. ASSUME NEW s, job[j] = <<s>>, StatementOK(GivenKeys, s)
      PROVE  /\ Writes(j, p) <=> WritesIn(job[j], p)
             /\ WritesIn(job[j], p) => p \in GivenKeys \cup {New}
             /\ \A n : Adds(job[j], p, n) => WritesIn(job[j], p) /\ p \in GivenKeys
  <2> DEFINE q == <<s>>
  <2>1. q # <<>> /\ Head(q) = s /\ Tail(q) = <<>> /\ DOMAIN q = {1} /\ q[1] = s
    OBVIOUS
  <2>2. \A u : Tail(q) # <<u>>
    BY <2>1
  <2>3. job[j] = q
    BY <1>4
  <2> HIDE DEF q
  <2>4. WritesIn(job[j], p) <=> Rewrites(s, p)
    BY <2>1, <2>2, <2>3 DEF WritesIn
  <2>5. Writes(j, p) <=> Rewrites(s, p)
    BY <1>1, <2>1, <2>3
  <2>6. \A n : Adds(job[j], p, n) => Rewrites(s, p) /\ p \in GivenKeys
    BY <1>4, <2>1, <2>3 DEF Adds, Rewrites, StatementOK
  <2> QED
    BY <1>2, <1>4, <2>4, <2>5, <2>6
<1>5. ASSUME NEW s, NEW t, job[j] = <<s, t>>, StatementOK(GivenKeys, s), StatementOK(GivenKeys, t)
      PROVE  /\ Writes(j, p) <=> WritesIn(job[j], p)
             /\ WritesIn(job[j], p) => p \in GivenKeys \cup {New}
             /\ \A n : Adds(job[j], p, n) => WritesIn(job[j], p) /\ p \in GivenKeys
  <2> DEFINE q == <<s, t>>
  <2>1. /\ q # <<>> /\ Head(q) = s /\ Tail(q) = <<t>> /\ DOMAIN q = {1, 2}
        /\ q[1] = s /\ q[2] = t
    OBVIOUS
  <2>2. \A u : Tail(q) = <<u>> <=> u = t
    BY <2>1
  <2>3. job[j] = q
    BY <1>5
  <2> HIDE DEF q
  <2>4. WritesIn(job[j], p) <=> Rewrites(s, p) \/ Rewrites(t, p)
    BY <2>1, <2>2, <2>3 DEF WritesIn
  <2>5. Writes(j, p) <=> Rewrites(s, p) \/ Rewrites(t, p)
    BY <1>1, <2>1, <2>3
  <2>6. \A n : Adds(job[j], p, n) => Rewrites(s, p) /\ p \in GivenKeys
    BY <1>5, <2>1, <2>3 DEF Adds, Rewrites, StatementOK
  <2> QED
    BY <1>2, <1>5, <2>4, <2>5, <2>6
<1>6. JobSound(GivenKeys, job[j])
  BY DEF RefsInv
<1> QED
  BY <1>3, <1>4, <1>5, <1>6 DEF JobSound

\* The mark for a key that is not known yet is no key.
LEMMA NewNotGiven ==
  ASSUME KeysTellApart, RefsInv
  PROVE  New \notin GivenKeys
BY DEF GivenKeys, KeysTellApart, UsedOK, RefsInv

\* Rows that stay as they are keep the tracks of playlists.
LEMMA ItemsStay == \A db, p : ItemsSame(db, db, p)
BY DEF ItemsSame

\* What is left of a request writes and adds no more than it did.
LEMMA TailWrites ==
  ASSUME OrderInv, NEW j \in Jobs, job[j] # <<>>
  PROVE  /\ \A p : WritesIn(Tail(job[j]), p) => WritesIn(job[j], p)
         /\ \A p, n : ~ Adds(Tail(job[j]), p, n)
         /\ Tail(job[j]) # <<>> => FilledIn(Tail(job[j]))
<1> DEFINE rest == Tail(job[j])
<1>1. CASE rest = <<>>
  BY <1>1 DEF WritesIn, Adds
<1>2. CASE rest # <<>>
  <2>1. PICK u : /\ rest = <<u>>
                 /\ u.op = "create" => u.table = "Track"
    BY <1>2, RestIs DEF OrderInv
  <2>2. <<u>> # <<>> /\ Head(<<u>>) = u /\ Tail(<<u>>) = <<>>
    OBVIOUS
  <2>3. Head(rest) = u /\ Tail(rest) = <<>>
    BY <2>1, <2>2
  <2>4. \A v : Tail(rest) # <<v>>
    BY <2>3
  <2>5. u.op = "replace" => Filled(u.columns)
    BY <2>1 DEF OrderInv, FilledIn
  <2> HIDE DEF rest
  <2>6. \A p, n : ~ Adds(rest, p, n)
    BY <2>1, <2>3 DEF Adds
  <2>7. \A p : WritesIn(rest, p) => Rewrites(u, p)
    BY <2>3, <2>4 DEF WritesIn
  <2>8. FilledIn(rest)
    BY <2>3, <2>4, <2>5 DEF FilledIn
  <2>9. \A p : Rewrites(u, p) => WritesIn(job[j], p)
    BY <2>1 DEF WritesIn, rest
  <2> QED
    BY <2>6, <2>7, <2>8, <2>9 DEF rest
<1> QED
  BY <1>1, <1>2

\* Playlists are as they were, unless it is told of them, and nothing else is written.
LEMMA OrderQuiet ==
  ASSUME KeysTellApart, OrderInv, RefsInv', NEW j \in Jobs, NEW q, job' = [job EXCEPT ![j] = q],
         used \subseteq used', jumbled \subseteq jumbled', ItemsOK(rows'), q # <<>> => FilledIn(q),
         \A p \in GivenKeys' : WritesIn(q, p) => WritesIn(job[j], p), \A p, n : ~ Adds(q, p, n),
         \A p \in Rows(rows', "Playlist") : p \notin jumbled' =>
           p \in Rows(rows, "Playlist") /\ ItemsSame(rows, rows', p)
  PROVE  OrderInv'
<1>1. New \notin GivenKeys'
  BY DEF GivenKeys, KeysTellApart, UsedOK, RefsInv
<1>2. \A p \in GivenKeys' : p \notin jumbled' =>
        \/ p \in GivenKeys /\ p \notin jumbled /\ (WritesIn(q, p) => WritesIn(job[j], p))
        \/ \A k \in Jobs : k # j => ~ WritesIn(job[k], p)
  <2>1. \A p \in GivenKeys' : p \in GivenKeys \/ \A k \in Jobs : ~ WritesIn(job[k], p)
    BY <1>1, WritesAre DEF OrderInv
  <2> QED
    BY <2>1
<1>3. \A p \in Rows(rows', "Playlist") : p \notin jumbled' =>
        /\ CountedOut(rows', q, p)
        /\ p \in Rows(rows, "Playlist") /\ p \notin jumbled /\ ItemsSame(rows, rows', p)
  BY DEF CountedOut
<1> QED
  BY <1>2, <1>3, KeepsOrder

\* A statement that runs and leaves the tracks of playlists, or jumbles them.
LEMMA ProceedOrder ==
  ASSUME KeysTellApart, OrderInv, RefsInv', NEW j \in Jobs, job[j] # <<>>, Proceed(j), used' = used,
         jumbled \subseteq jumbled', ItemsOK(rows'),
         \A p \in Rows(rows', "Playlist") : p \notin jumbled' =>
           p \in Rows(rows, "Playlist") /\ ItemsSame(rows, rows', p)
  PROVE  OrderInv'
<1> DEFINE q == Tail(job[j])
<1>1. job' = [job EXCEPT ![j] = q] /\ used \subseteq used'
  BY DEF Proceed
<1>2. /\ \A p : WritesIn(q, p) => WritesIn(job[j], p)
      /\ \A p, n : ~ Adds(q, p, n)
      /\ q # <<>> => FilledIn(q)
  BY TailWrites
<1> HIDE DEF q
<1> QED
  BY <1>1, <1>2, OrderQuiet

\* The rows are left alone.
LEMMA OrderSame ==
  ASSUME KeysTellApart, OrderInv, RefsInv', NEW j \in Jobs, NEW q, job' = [job EXCEPT ![j] = q],
         used \subseteq used', jumbled' = jumbled, rows' = rows, q # <<>> => FilledIn(q),
         \A p \in GivenKeys' : ~ WritesIn(q, p), \A p, n : ~ Adds(q, p, n)
  PROVE  OrderInv'
<1>1. \A p \in Rows(rows', "Playlist") : p \in Rows(rows, "Playlist") /\ ItemsSame(rows, rows', p)
  BY ItemsStay
<1>2. ItemsOK(rows') /\ jumbled \subseteq jumbled'
  BY DEF OrderInv
<1> QED
  BY <1>1, <1>2, OrderQuiet

\* Statements that write no tracks of a playlist.
Silent(s) == s.op # "replace" /\ s.table # "PlaylistTrack"

\* Requests that write no tracks of playlists.
LEMMA SilentRequests ==
  ASSUME NEW s, Silent(s), NEW q, q = <<>> \/ q = <<s>>
  PROVE  /\ \A p : ~ WritesIn(q, p)
         /\ \A p, n : ~ Adds(q, p, n)
         /\ q # <<>> => FilledIn(q)
<1>1. CASE q = <<>>
  BY <1>1 DEF WritesIn, Adds
<1>2. CASE q = <<s>>
  <2>1. Head(q) = s /\ Tail(q) = <<>>
    BY <1>2
  <2>2. \A u : Tail(q) # <<u>>
    BY <2>1
  <2> QED
    BY <2>1, <2>2 DEF Silent, WritesIn, Adds, FilledIn, Rewrites
<1> QED
  BY <1>1, <1>2

\* Such a request begins or goes on while the rows stay.
LEMMA SilentOrder ==
  ASSUME KeysTellApart, OrderInv, RefsInv', NEW j \in Jobs, NEW s, Silent(s),
         NEW q, q = <<>> \/ q = <<s>>, job' = [job EXCEPT ![j] = q],
         used \subseteq used', jumbled' = jumbled, rows' = rows
  PROVE  OrderInv'
BY SilentRequests, OrderSame

\* A request ends.
LEMMA FailOrder ==
  ASSUME KeysTellApart, OrderInv, RefsInv', NEW j \in Jobs, Fail(j)
  PROVE  OrderInv'
<1> DEFINE q == <<>>
<1>1. job' = [job EXCEPT ![j] = q] /\ used \subseteq used' /\ jumbled' = jumbled /\ rows' = rows
  BY DEF Fail, Left
<1>2. q = <<>> /\ (\A p : ~ WritesIn(q, p)) /\ \A p, n : ~ Adds(q, p, n)
  BY DEF WritesIn, Adds
<1> HIDE DEF q
<1> QED
  BY <1>1, <1>2, OrderSame

\* A request begins: one that overlaps another on a playlist jumbles it.
LEMMA BeginsOrder ==
  ASSUME KeysTellApart, OrderInv, RefsInv', NEW j \in Jobs, NEW q, Begins(j, q)
  PROVE  OrderInv'
<1>1. /\ job[j] = <<>> /\ job' = [job EXCEPT ![j] = q] /\ rows' = rows /\ used' = used
      /\ Asked(q) /\ Tells(q) /\ jumbled \subseteq jumbled' /\ GivenKeys' = GivenKeys
  BY DEF Begins, Request, FreeJob, Tells, GivenKeys
<1>2. DOMAIN job = Jobs /\ job'[j] = q
  BY <1>1 DEF OrderInv, RefsInv, RowsInv
<1>3. /\ q # <<>> => FilledIn(q)
      /\ \A p, n : Adds(q, p, n) => n = Cardinality(TracksOf(p))
      /\ \A p : WritesIn(q, p) => \E i \in DOMAIN q : Rewrites(q[i], p)
  <2>1. CASE q = <<>>
    BY <2>1 DEF Adds, WritesIn
  <2>2. ASSUME NEW s, q = <<s>>, AskedOf(s)
        PROVE  /\ FilledIn(q)
               /\ \A p, n : Adds(q, p, n) => n = Cardinality(TracksOf(p))
               /\ \A p : WritesIn(q, p) => \E i \in DOMAIN q : Rewrites(q[i], p)
    <3>1. Head(q) = s /\ Tail(q) = <<>> /\ 1 \in DOMAIN q /\ q[1] = s
      BY <2>2
    <3>2. \A u : Tail(q) # <<u>>
      BY <3>1
    <3> QED
      BY <2>2, <3>1, <3>2 DEF AskedOf, FilledIn, Adds, WritesIn
  <2>3. ASSUME NEW s, NEW t, q = <<s, t>>, AskedOf(s), AskedOf(t)
        PROVE  /\ FilledIn(q)
               /\ \A p, n : Adds(q, p, n) => n = Cardinality(TracksOf(p))
               /\ \A p : WritesIn(q, p) => \E i \in DOMAIN q : Rewrites(q[i], p)
    <3>1. /\ Head(q) = s /\ Tail(q) = <<t>> /\ 1 \in DOMAIN q /\ q[1] = s
          /\ 2 \in DOMAIN q /\ q[2] = t
      BY <2>3
    <3>2. \A u : Tail(q) = <<u>> => u = t
      BY <3>1
    <3> QED
      BY <2>3, <3>1, <3>2 DEF AskedOf, FilledIn, Adds, WritesIn
  <2> QED
    BY <1>1, <2>1, <2>2, <2>3 DEF Asked
<1>4. ASSUME NEW p \in GivenKeys', p \notin jumbled', NEW k \in Jobs, k # j, WritesIn(job[k], p)
      PROVE  ~ WritesIn(q, p)
  <2>1. Writes(k, p)
    BY <1>4, WritesAre DEF OrderInv
  <2>2. ~ Overlap(p)
    BY <1>4, <2>1 DEF Overlap
  <2> QED
    BY <1>1, <1>3, <1>4, <2>2 DEF Tells
<1>5. \A p \in GivenKeys' : p \notin jumbled' =>
        \/ p \in GivenKeys /\ p \notin jumbled /\ (WritesIn(q, p) => WritesIn(job[j], p))
        \/ \A k \in Jobs : k # j => ~ WritesIn(job[k], p)
  BY <1>1, <1>4
<1>6. \A p \in Rows(rows', "Playlist") : p \notin jumbled' =>
        /\ CountedOut(rows', q, p)
        /\ p \in Rows(rows, "Playlist") /\ p \notin jumbled /\ ItemsSame(rows, rows', p)
  <2>1. \A p : TracksOf(p) = ItemsOf(rows, p)
    BY DEF TracksOf, ItemsOf, Tables
  <2> QED
    BY <1>1, <1>3, <2>1, ItemsStay DEF CountedOut
<1>7. ItemsOK(rows')
  BY <1>1 DEF OrderInv
<1> QED
  BY <1>1, <1>3, <1>5, <1>6, <1>7, KeepsOrder

\* The tracks of playlists are left alone.
LEMMA ItemsAlone ==
  ASSUME NEW db, NEW later, ItemsOK(db), Rows(later, "PlaylistTrack") = Rows(db, "PlaylistTrack"),
         \A x \in Rows(db, "PlaylistTrack") : later[x] = db[x]
  PROVE  ItemsOK(later) /\ \A p : ItemsSame(db, later, p)
BY DEF ItemsOK, ItemsSame, ItemsOf

\* A row is changed.
LEMMA UpdateOrder ==
  ASSUME KeysTellApart, OrderInv, RefsInv', NEW j \in Jobs, RunUpdate(j)
  PROVE  OrderInv'
<1> DEFINE s == Head(job[j])
           x == s.key
           columns == s.columns
           later == Updated(rows, x, columns)
<1>1. job[j] # <<>> /\ s.op = "update"
  BY DEF RunUpdate, Runs
<1>2. CASE Fail(j)
  BY <1>2, FailOrder
<1>3. CASE ~ Fail(j)
  <2> DEFINE t == Ensure(later[x].columns.zone, later[x].columns.playlist)
             q == <<t>>
  <2>1. /\ x \in DOMAIN rows /\ rows' = later /\ UNCHANGED <<used, trackFiles, jumbled>>
        /\ Proceed(j) \/ job' = [job EXCEPT ![j] = q]
    BY <1>3, UpdateIs
  <2>2. DOMAIN rows[x] = {"table", "columns"} /\ DbOK(rows, GivenKeys, bereft)
    BY <2>1 DEF OrderInv, RefsInv, RowsInv, DbOK
  <2>3. IsUpdated(rows, x, columns, later)
    BY <2>1, <2>2, UpdatedAre
  <2>4. s.table \in DOMAIN Keys /\ s.table # "PlaylistTrack" /\ x \in KeysOf(s.table)
    BY <1>1, RestIs DEF OrderInv, StatementOK, KeysTellApart
  <2>5. rows[x].table # "PlaylistTrack"
    BY <2>1, <2>2, <2>4, TableOfKey
  <2> HIDE DEF later, x, columns
  <2>6. t.op = "ensure" /\ \A p : ~ Rewrites(t, p)
    <3>1. /\ t.op = "ensure" /\ t.table = "PlaylistAssignment"
      BY StatementFields DEF Ensure
    <3> HIDE DEF t
    <3> QED
      BY <3>1 DEF Rewrites
  <2> HIDE DEF t
  <2>7. Head(q) = t /\ \A u : Tail(q) # <<u>>
    OBVIOUS
  <2> HIDE DEF q
  <2>8. /\ Rows(rows', "PlaylistTrack") = Rows(rows, "PlaylistTrack")
        /\ \A y \in Rows(rows, "PlaylistTrack") : rows'[y] = rows[y]
        /\ Rows(rows', "Playlist") = Rows(rows, "Playlist")
    BY <2>1, <2>3, <2>5 DEF IsUpdated, Rows
  <2>9. ItemsOK(rows') /\ \A p : ItemsSame(rows, rows', p)
    BY <2>8, ItemsAlone DEF OrderInv
  <2>10. CASE Proceed(j)
    BY <1>1, <2>1, <2>8, <2>9, <2>10, ProceedOrder
  <2>11. CASE job' = [job EXCEPT ![j] = q]
    <3>1. FilledIn(q) /\ (\A p : ~ WritesIn(q, p)) /\ \A p, n : ~ Adds(q, p, n)
      BY <2>6, <2>7 DEF FilledIn, WritesIn, Adds
    <3> QED
      BY <2>1, <2>8, <2>9, <2>11, <3>1, OrderQuiet
  <2> QED
    BY <2>1, <2>10, <2>11
<1> QED
  BY <1>2, <1>3

\* What a deletion leaves of playlists: those of which it takes no track are as they were.
LEMMA DeletedItems ==
  ASSUME NEW db, IsFiniteSet(DOMAIN db), \A x \in DOMAIN db : DOMAIN db[x] = {"table", "columns"},
         RefsOK(db), ItemsOK(db), NEW X,
         \A x \in X : x \in DOMAIN db /\ db[x].table # "PlaylistAssignment"
  PROVE  /\ ItemsOK(Deleted(db, X))
         /\ \A p \in Rows(Deleted(db, X), "Playlist") :
              /\ p \in Rows(db, "Playlist")
              /\ (\A y \in ItemsOf(db, p) : y \notin X /\ db[y].columns.track \notin X)
                   => ItemsSame(db, Deleted(db, X), p)
<1> DEFINE gone == Doomed(db, X)
           later == Deleted(db, X)
<1>1. Closed(db, gone)
  BY DoomedLeast
<1>2. IsLeft(db, gone, later)
  BY DeletedAre
<1>3. \A y \in Rows(db, "PlaylistTrack") :
        y \in gone => y \in X \/ db[y].columns.playlist \in gone \/ db[y].columns.track \in X
  BY DeletedLists
<1> HIDE DEF gone, later
<1>4. DOMAIN References["PlaylistTrack"] = {"playlist", "track"}
  BY TableReferences, ColumnsAre
<1>5. ASSUME NEW y \in Rows(later, "PlaylistTrack")
      PROVE  /\ y \in Rows(db, "PlaylistTrack")
             /\ DOMAIN later[y].columns = DOMAIN db[y].columns
             /\ later[y].columns.playlist = db[y].columns.playlist
             /\ later[y].columns.track = db[y].columns.track
             /\ later[y].columns.position = db[y].columns.position
  <2>1. y \in DOMAIN db /\ y \notin gone /\ db[y].table = "PlaylistTrack"
    BY <1>2 DEF IsLeft, Rows
  <2>2. y \in Rows(db, "PlaylistTrack")
    BY <2>1 DEF Rows
  <2>3. {"playlist", "track", "position"} \subseteq DOMAIN db[y].columns
    BY <2>1, <2>2, ListColumns DEF ItemsOK
  <2>4. ASSUME NEW c, NEW to, ForeignKey("PlaylistTrack", c, to, "Cascade") \in Enforced
        PROVE  db[y].columns[c] \notin gone
    <3> DEFINE k == ForeignKey("PlaylistTrack", c, to, "Cascade")
    <3>1. k.table = "PlaylistTrack" /\ k.column = c /\ k.rule = "Cascade"
      BY DEF ForeignKey
    <3> HIDE DEF k
    <3> QED
      BY <1>1, <2>1, <2>4, <3>1, Stays DEF k
  <2>5. db[y].columns.playlist \notin gone /\ db[y].columns.track \notin gone
    BY <2>4, ListKeys
  <2>6. \A c \in DOMAIN db[y].columns :
          later[y].columns[c] = IF c \in {"playlist", "track"} /\ db[y].columns[c] \in gone THEN Null
                                ELSE db[y].columns[c]
    BY <1>2, <1>4, <2>1 DEF IsLeft
  <2>7. DOMAIN later[y].columns = DOMAIN db[y].columns
    BY <1>2, <2>1 DEF IsLeft
  <2> QED
    BY <2>2, <2>3, <2>5, <2>6, <2>7
<1>6. \A y \in Rows(db, "PlaylistTrack") : y \notin gone => y \in Rows(later, "PlaylistTrack")
  BY <1>2 DEF IsLeft, Rows
<1>7. ItemsOK(later)
  BY <1>5 DEF ItemsOK
<1>8. ASSUME NEW p \in Rows(later, "Playlist")
      PROVE  /\ p \in Rows(db, "Playlist")
             /\ (\A y \in ItemsOf(db, p) : y \notin X /\ db[y].columns.track \notin X)
                  => ItemsSame(db, later, p)
  <2>1. p \in Rows(db, "Playlist") /\ p \notin gone
    BY <1>2 DEF IsLeft, Rows
  <2>2. ASSUME \A y \in ItemsOf(db, p) : y \notin X /\ db[y].columns.track \notin X
        PROVE  ItemsSame(db, later, p)
    <3>1. \A y \in ItemsOf(db, p) : y \in Rows(later, "PlaylistTrack")
      BY <1>3, <1>6, <2>1, <2>2 DEF ItemsOf
    <3>2. ItemsOf(later, p) = ItemsOf(db, p)
      BY <1>5, <3>1 DEF ItemsOf
    <3> QED
      BY <1>5, <3>1, <3>2 DEF ItemsSame
  <2> QED
    BY <2>1, <2>2
<1> QED
  BY <1>7, <1>8 DEF later

\* A deletion jumbles the playlists that a track is taken from.
LEMMA DeleteOrder ==
  ASSUME KeysTellApart, OrderInv, RefsInv', NEW j \in Jobs, RunDelete(j) \/ RunClear(j)
  PROVE  OrderInv'
<1> DEFINE s == Head(job[j])
           x == s.key
<1>1. job[j] # <<>> /\ s.op \in {"delete", "clear"}
  BY DEF RunDelete, RunClear, Runs
<1>2. /\ IsFiniteSet(DOMAIN rows) /\ RefsOK(rows) /\ DbOK(rows, GivenKeys, bereft) /\ ItemsOK(rows)
      /\ \A y \in DOMAIN rows : DOMAIN rows[y] = {"table", "columns"}
  BY DEF OrderInv, RefsInv, RowsInv, DbOK
<1>3. StatementOK(GivenKeys, s)
  BY <1>1, RestIs DEF OrderInv
<1>4. ASSUME x \in DOMAIN rows, rows[x].table # "PlaylistAssignment",
             rows' = Deleted(rows, {x}), Proceed(j), used' = used, jumbled \subseteq jumbled',
             \A p \in Rows(rows, "Playlist") : p \notin jumbled' =>
               \A y \in ItemsOf(rows, p) : y # x /\ rows[y].columns.track # x
      PROVE  OrderInv'
  <2> HIDE DEF x
  <2> DEFINE X == {x}
  <2>1. \A y \in X : y \in DOMAIN rows /\ rows[y].table # "PlaylistAssignment"
    BY <1>4
  <2>2. rows' = Deleted(rows, X) /\ \A y : y \in X <=> y = x
    BY <1>4
  <2> HIDE DEF X
  <2>3. /\ ItemsOK(rows')
        /\ \A p \in Rows(rows', "Playlist") :
             /\ p \in Rows(rows, "Playlist")
             /\ (\A y \in ItemsOf(rows, p) : y \notin X /\ rows[y].columns.track \notin X)
                  => ItemsSame(rows, rows', p)
    BY <1>2, <2>1, <2>2, DeletedItems
  <2>4. \A p \in Rows(rows', "Playlist") : p \notin jumbled' =>
          p \in Rows(rows, "Playlist") /\ ItemsSame(rows, rows', p)
    BY <1>4, <2>2, <2>3
  <2> QED
    BY <1>1, <1>4, <2>3, <2>4, ProceedOrder
<1>5. CASE RunDelete(j)
  <2>1. CASE Fail(j)
    BY <2>1, FailOrder
  <2>2. CASE /\ x \in DOMAIN rows /\ rows' = Deleted(rows, {x}) /\ Proceed(j) /\ used' = used
             /\ jumbled' = jumbled \cup {p \in Tables("Playlist") : x \in TrackIds(p)}
    <3>1. s.op = "delete"
      BY <1>5 DEF RunDelete, Runs
    <3>2. s.table \in DOMAIN Keys \ {"PlaylistAssignment"} /\ x \in KeysOf(s.table)
      BY <1>3, <3>1 DEF StatementOK
    <3>3. rows[x].table = s.table
      BY <1>2, <2>2, <3>2, TableOfKey
    <3>4. rows[x].table # "PlaylistAssignment" /\ rows[x].table # "PlaylistTrack"
      BY <3>2, <3>3 DEF KeysTellApart
    <3>5. \A p \in Rows(rows, "Playlist") : p \notin jumbled' =>
            \A y \in ItemsOf(rows, p) : y # x /\ rows[y].columns.track # x
      BY <2>2, <3>4 DEF ItemsOf, Rows, TrackIds, TracksOf, Tables
    <3> QED
      BY <1>4, <2>2, <3>4, <3>5
  <2> QED
    BY <1>5, <2>1, <2>2 DEF RunDelete
<1>6. CASE RunClear(j)
  <2>1. IsPair(x) /\ Proceed(j) /\ used' = used
    <3>1. s.op = "clear"
      BY <1>6 DEF RunClear, Runs
    <3> QED
      BY <1>3, <1>6, <3>1 DEF StatementOK, IsPair, RunClear
  <2>2. CASE rows' = rows /\ jumbled' = jumbled
    <3>1. ItemsOK(rows') /\ \A p \in Rows(rows', "Playlist") :
            p \in Rows(rows, "Playlist") /\ ItemsSame(rows, rows', p)
      BY <1>2, <2>2, ItemsStay
    <3> QED
      BY <1>1, <2>1, <2>2, <3>1, ProceedOrder
  <2>3. CASE /\ x \in DOMAIN rows /\ rows' = Deleted(rows, {x})
             /\ jumbled' = jumbled \cup {rows[x].columns.playlist}
    <3>1. rows[x].table = "PlaylistTrack"
      BY <1>2, <2>1, <2>3, TableOfPair
    <3>2. \A y \in Rows(rows, "PlaylistTrack") : rows[y].columns.track # x
      <4>1. \A y \in Rows(rows, "PlaylistTrack") : rows[y].columns.track \in Rows(rows, "Track")
        BY <1>2, ListColumns DEF Rows
      <4> QED
        BY <3>1, <4>1 DEF Rows
    <3>3. \A p \in Rows(rows, "Playlist") : p \notin jumbled' =>
            \A y \in ItemsOf(rows, p) : y # x /\ rows[y].columns.track # x
      BY <2>3, <3>2 DEF ItemsOf
    <3> QED
      BY <1>4, <2>1, <2>3, <3>1, <3>3
  <2> QED
    BY <1>6, <2>2, <2>3 DEF RunClear
<1> QED
  BY <1>5, <1>6

\* Tracks that are listed are in places of their own.
LEMMA ListedPlaces ==
  ASSUME NEW db, NEW p, NEW tracks, Filled(tracks), ItemsOf(db, p) = Listed(p, tracks),
         \A x \in Listed(p, tracks) : ListedRow(x, db[x], p, tracks)
  PROVE  InPlaces(db, p)
<1>1. PICK n \in Nat : DOMAIN tracks = 1 .. n
  BY DEF Filled
<1> DEFINE f == [i \in 1 .. n |-> <<p, tracks[i]>>]
<1>2. f \in Bijection(1 .. n, Listed(p, tracks))
  <2>1. f \in [1 .. n -> Listed(p, tracks)]
    BY <1>1 DEF Listed
  <2>2. \A i, k \in 1 .. n : f[i] = f[k] => i = k
    BY <1>1 DEF Filled
  <2>3. \A x \in Listed(p, tracks) : \E i \in 1 .. n : f[i] = x
    BY <1>1 DEF Listed
  <2> HIDE DEF f
  <2> QED
    BY <2>1, <2>2, <2>3 DEF Bijection, Injection, Surjection, IsInjective
<1>3. Cardinality(ItemsOf(db, p)) = n
  BY <1>2, FS_CountingElements DEF ExistsBijection
<1>4. ASSUME NEW x \in ItemsOf(db, p)
      PROVE  \E i \in 1 .. n : x = <<p, tracks[i]>> /\ db[x].columns.position = i - 1
  <2>1. ListedRow(x, db[x], p, tracks)
    BY <1>4
  <2>2. PICK i \in DOMAIN tracks :
          /\ x = <<p, tracks[i]>>
          /\ db[x].columns = [playlist |-> p, track |-> tracks[i], position |-> i - 1]
    BY <2>1 DEF ListedRow
  <2>3. db[x].columns.position = i - 1
    BY <2>2
  <2> QED
    BY <1>1, <2>2, <2>3
<1>5. \A x \in ItemsOf(db, p) : db[x].columns.position < n
  BY <1>4
<1>6. ASSUME NEW x \in ItemsOf(db, p), NEW y \in ItemsOf(db, p),
             db[x].columns.position = db[y].columns.position
      PROVE  x = y
  <2>1. PICK i \in 1 .. n : x = <<p, tracks[i]>> /\ db[x].columns.position = i - 1
    BY <1>4
  <2>2. PICK k \in 1 .. n : y = <<p, tracks[k]>> /\ db[y].columns.position = k - 1
    BY <1>4
  <2> QED
    BY <1>6, <2>1, <2>2
<1> QED
  BY <1>3, <1>5, <1>6 DEF InPlaces

\* Where one playlist is replaced the others are as they were.
LEMMA ReplacedItems ==
  ASSUME KeysTellApart, NEW db, NEW given, NEW lost, DbOK(db, given, lost), RefsOK(db), ItemsOK(db),
         NEW p, NEW X, X = ItemsOf(db, p), NEW tracks, Filled(tracks), NEW later,
         IsReplaced(Deleted(db, X), p, tracks, later)
  PROVE  /\ ItemsOK(later) /\ InPlaces(later, p)
         /\ \A u \in Rows(later, "Playlist") :
              u \in Rows(db, "Playlist") /\ (u # p => ItemsSame(db, later, u))
<1> DEFINE kept == Deleted(db, X)
<1>1. /\ IsFiniteSet(DOMAIN db) /\ \A x \in DOMAIN db : DOMAIN db[x] = {"table", "columns"}
      /\ \A x \in X : x \in DOMAIN db /\ db[x].table = "PlaylistTrack"
  BY DEF DbOK, ItemsOf, Rows
<1>2. /\ ItemsOK(kept)
      /\ \A u \in Rows(kept, "Playlist") :
           /\ u \in Rows(db, "Playlist")
           /\ (\A y \in ItemsOf(db, u) : y \notin X /\ db[y].columns.track \notin X)
                => ItemsSame(db, kept, u)
  BY <1>1, DeletedItems
<1>3. X \subseteq Doomed(db, X) /\ IsLeft(db, Doomed(db, X), kept)
  BY <1>1, DeletedAre, DoomedLeast
<1>4. DbOK(kept, given, lost)
  BY <1>1, TracksGoAlone
<1>5. IsReplaced(kept, p, tracks, later)
  OBVIOUS
<1> HIDE DEF kept
<1>6. Rows(later, "Playlist") = Rows(kept, "Playlist")
  <2> DEFINE t == "Playlist"
  <2>1. t # "PlaylistTrack"
    OBVIOUS
  <2> HIDE DEF t
  <2>2. Rows(later, t) = Rows(kept, t)
    BY <1>4, <1>5, <2>1, ReplacedTables
  <2> QED
    BY <2>2 DEF t
<1>7. \A x \in Rows(kept, "PlaylistTrack") : x \in Rows(db, "PlaylistTrack") /\ x \notin X
  BY <1>3 DEF IsLeft, Rows
<1>8. \A x \in Rows(kept, "PlaylistTrack") : kept[x].columns.playlist # p
  BY <1>2, <1>7 DEF ItemsOK, ItemsOf
<1>9. ASSUME NEW x \in Listed(p, tracks)
      PROVE  /\ x \in Rows(later, "PlaylistTrack") /\ later[x].columns.playlist = p
             /\ x = <<later[x].columns.playlist, later[x].columns.track>>
             /\ "position" \in DOMAIN later[x].columns /\ later[x].columns.position \in Nat
  <2>1. x \in DOMAIN later /\ ListedRow(x, later[x], p, tracks)
    BY <1>5 DEF IsReplaced
  <2>2. \A i \in DOMAIN tracks : i - 1 \in Nat
    BY DEF Filled
  <2> QED
    BY <2>1, <2>2 DEF ListedRow, Rows
<1>10. \A x \in Rows(later, "PlaylistTrack") :
         x \in Listed(p, tracks) \/ (x \in Rows(kept, "PlaylistTrack") /\ later[x] = kept[x])
  BY <1>5 DEF IsReplaced, Rows
<1>11. ItemsOK(later)
  BY <1>2, <1>9, <1>10 DEF ItemsOK
<1>12. ItemsOf(later, p) = Listed(p, tracks)
  BY <1>8, <1>9, <1>10 DEF ItemsOf
<1>13. InPlaces(later, p)
  BY <1>5, <1>12, ListedPlaces DEF IsReplaced
<1>14. ASSUME NEW u \in Rows(later, "Playlist"), u # p
       PROVE  ItemsSame(db, later, u)
  <2>1. \A y \in ItemsOf(db, u) : y \notin X
    BY <1>14 DEF ItemsOf
  <2>2. \A y \in Rows(db, "PlaylistTrack") : db[y].columns.track \in Rows(db, "Track")
    BY ListColumns DEF Rows
  <2>3. \A y \in ItemsOf(db, u) : db[y].columns.track \notin X
    BY <1>1, <2>2 DEF ItemsOf, Rows
  <2>4. ItemsSame(db, kept, u)
    BY <1>2, <1>6, <1>14, <2>1, <2>3
  <2>5. \A x \in Rows(kept, "PlaylistTrack") : x \notin Listed(p, tracks)
    BY <1>2, <1>8 DEF ItemsOK, Listed
  <2>6. \A x \in Rows(kept, "PlaylistTrack") :
          x \in Rows(later, "PlaylistTrack") /\ later[x] = kept[x]
    BY <1>5, <2>5 DEF IsReplaced, Rows
  <2>7. ItemsOf(later, u) = ItemsOf(kept, u)
    BY <1>9, <1>10, <1>14, <2>6 DEF ItemsOf
  <2>8. \A x \in ItemsOf(kept, u) : later[x] = kept[x]
    BY <2>6 DEF ItemsOf
  <2> QED
    BY <2>4, <2>7, <2>8 DEF ItemsSame
<1> QED
  BY <1>2, <1>6, <1>11, <1>13, <1>14

\* The playlists there are have keys that were given.
LEMMA PlaylistsGiven ==
  ASSUME RefsInv
  PROVE  Rows(rows, "Playlist") \subseteq GivenKeys
BY DEF RefsInv, RowsInv, DbOK, KeyOK, Rows

\* The tracks of a playlist are replaced, at the positions they are listed in.
LEMMA ReplaceOrder ==
  ASSUME KeysTellApart, OrderInv, RefsInv', NEW j \in Jobs, RunReplace(j)
  PROVE  OrderInv'
<1> DEFINE s == Head(job[j])
           p == s.key
           tracks == s.columns
           X == ItemsOf(rows, p)
           q == Tail(job[j])
<1>1. job[j] # <<>> /\ s.op = "replace"
  BY DEF RunReplace, Runs
<1>2. CASE Fail(j)
  BY <1>2, FailOrder
<1>3. CASE ~ Fail(j)
  <2>1. X = TracksOf(p)
    BY DEF ItemsOf, TracksOf, Tables
  <2>2. /\ IsReplaced(Deleted(rows, X), p, tracks, rows')
        /\ jumbled' = IF \E k \in Jobs \ {j} : Writes(k, p) THEN jumbled ELSE jumbled \ {p}
        /\ Proceed(j) /\ used' = used
    BY <1>3, <2>1, ReplaceIs
  <2>3. Filled(tracks)
    BY <1>1 DEF OrderInv, FilledIn
  <2>4. WritesIn(job[j], p)
    BY <1>1 DEF WritesIn, Rewrites
  <2>5. /\ \A u : WritesIn(q, u) => WritesIn(job[j], u)
        /\ \A u, n : ~ Adds(q, u, n)
        /\ q # <<>> => FilledIn(q)
    BY <1>1, TailWrites
  <2>6. DbOK(rows, GivenKeys, bereft) /\ RefsOK(rows) /\ ItemsOK(rows)
    BY DEF OrderInv, RefsInv, RowsInv
  <2> HIDE DEF s, p, tracks, q
  <2>7. /\ ItemsOK(rows') /\ InPlaces(rows', p)
        /\ \A u \in Rows(rows', "Playlist") :
             u \in Rows(rows, "Playlist") /\ (u # p => ItemsSame(rows, rows', u))
    BY <2>2, <2>3, <2>6, ReplacedItems
  <2>8. GivenKeys' = GivenKeys /\ job' = [job EXCEPT ![j] = q]
    BY <2>2 DEF GivenKeys, Proceed, q
  <2>9. ASSUME p \in GivenKeys, p \notin jumbled', NEW k \in Jobs, k # j, WritesIn(job[k], p)
        PROVE  FALSE
    <3>1. Writes(k, p)
      BY <2>9, WritesAre DEF OrderInv
    <3>2. p \notin jumbled
      BY <2>2, <2>9, <3>1
    <3> QED
      BY <2>4, <2>9, <3>2 DEF OrderInv, OneWriter
  <2>10. \A u : u # p /\ u \notin jumbled' => u \notin jumbled
    BY <2>2
  <2>11. \A u \in GivenKeys' : u \notin jumbled' =>
           \/ u \in GivenKeys /\ u \notin jumbled /\ (WritesIn(q, u) => WritesIn(job[j], u))
           \/ \A k \in Jobs : k # j => ~ WritesIn(job[k], u)
    BY <2>5, <2>8, <2>9, <2>10
  <2>12. ASSUME NEW u \in Rows(rows', "Playlist"), u \notin jumbled'
         PROVE  /\ CountedOut(rows', q, u)
                /\ \/ u \in Rows(rows, "Playlist") /\ u \notin jumbled /\ ItemsSame(rows, rows', u)
                   \/ /\ InPlaces(rows', u)
                      /\ \A k \in Jobs : k # j => \A n : ~ Adds(job[k], u, n)
    <3>1. CountedOut(rows', q, u)
      BY <2>5 DEF CountedOut
    <3>2. CASE u # p
      BY <2>7, <2>10, <2>12, <3>1, <3>2
    <3>3. CASE u = p
      <4>1. u \in GivenKeys
        BY <2>7, <2>12, PlaylistsGiven DEF OrderInv
      <4>2. \A k \in Jobs : k # j => \A n : ~ Adds(job[k], u, n)
        BY <2>9, <2>12, <3>3, <4>1, WritesAre DEF OrderInv
      <4> QED
        BY <2>7, <3>1, <3>3, <4>2
    <3> QED
      BY <3>2, <3>3
  <2> QED
    BY <2>5, <2>7, <2>8, <2>11, <2>12, KeepsOrder
<1> QED
  BY <1>2, <1>3

\* A track is added at the end of a playlist.
LEMMA AddedItem ==
  ASSUME NEW db, IsFiniteSet(DOMAIN db), ItemsOK(db), NEW a, NEW t, NEW n \in Nat, NEW x,
         x = <<a, t>>, x \notin DOMAIN db, NEW later, DOMAIN later = DOMAIN db \cup {x},
         \A y \in DOMAIN db : later[y] = db[y], later[x].table = "PlaylistTrack",
         later[x].columns = [playlist |-> a, track |-> t, position |-> n]
  PROVE  /\ ItemsOK(later) /\ Rows(later, "Playlist") = Rows(db, "Playlist")
         /\ \A p : p # a => ItemsSame(db, later, p)
         /\ InPlaces(db, a) /\ n = Cardinality(ItemsOf(db, a)) => InPlaces(later, a)
<1>1. Rows(later, "PlaylistTrack") = Rows(db, "PlaylistTrack") \cup {x}
      /\ Rows(later, "Playlist") = Rows(db, "Playlist")
  BY DEF Rows
<1>2. /\ later[x].columns.playlist = a /\ later[x].columns.track = t
      /\ "position" \in DOMAIN later[x].columns /\ later[x].columns.position = n
  OBVIOUS
<1>3. \A y \in Rows(db, "PlaylistTrack") : later[y] = db[y] /\ y # x
  BY DEF Rows
<1>4. ItemsOK(later)
  BY <1>1, <1>2, <1>3 DEF ItemsOK
<1>5. \A p : p # a => ItemsSame(db, later, p)
  BY <1>1, <1>2, <1>3 DEF ItemsSame, ItemsOf
<1>6. ItemsOf(later, a) = ItemsOf(db, a) \cup {x} /\ x \notin ItemsOf(db, a)
  BY <1>1, <1>2, <1>3 DEF ItemsOf
<1>7. IsFiniteSet(ItemsOf(db, a))
  <2>1. ItemsOf(db, a) \subseteq DOMAIN db
    BY DEF ItemsOf, Rows
  <2> QED
    BY <2>1, FS_Subset
<1>8. Cardinality(ItemsOf(later, a)) = Cardinality(ItemsOf(db, a)) + 1
  BY <1>6, <1>7, FS_AddElement
<1>9. \A y \in ItemsOf(db, a) : later[y] = db[y] /\ db[y].columns.position \in Nat
  BY <1>3 DEF ItemsOf, ItemsOK
<1>10. ASSUME InPlaces(db, a), n = Cardinality(ItemsOf(db, a))
       PROVE  InPlaces(later, a)
  <2>1. \A y \in ItemsOf(db, a) : later[y].columns.position < n
    BY <1>9, <1>10 DEF InPlaces
  <2>2. \A y, z \in ItemsOf(db, a) : y # z => later[y].columns.position # later[z].columns.position
    BY <1>9, <1>10 DEF InPlaces
  <2>3. \A y \in ItemsOf(db, a) : later[y].columns.position \in Nat
    BY <1>9
  <2>4. \A y \in ItemsOf(later, a) : later[y].columns.position < n + 1
    BY <1>2, <1>6, <2>1, <2>3
  <2>5. \A y, z \in ItemsOf(later, a) :
          y # z => later[y].columns.position # later[z].columns.position
    BY <1>2, <1>6, <2>1, <2>2, <2>3
  <2> QED
    BY <1>8, <1>10, <2>4, <2>5 DEF InPlaces
<1> QED
  BY <1>1, <1>4, <1>5, <1>10

\* A list of one statement has nothing after it.
LEMMA OneStatement ==
  ASSUME NEW s, NEW q, q = <<s>>
  PROVE  Head(q) = s /\ Tail(q) = <<>> /\ \A t : Tail(q) # <<t>>
<1>1. Head(q) = s /\ Tail(q) = <<>>
  OBVIOUS
<1>2. \A t : Tail(q) # <<t>>
  BY <1>1
<1> QED
  BY <1>1, <1>2

\* What is left of a request that created a row writes no more than it did, except in that row.
LEMMA KeyedWrites ==
  ASSUME KeysTellApart, OrderInv, NEW j \in Jobs, Runs(j, "create"), NEW x,
         NEW q, q = WithKey(Tail(job[j]), x)
  PROVE  /\ q # <<>> => FilledIn(q)
         /\ \A p, n : ~ Adds(q, p, n)
         /\ \A p : WritesIn(q, p) => \/ WritesIn(job[j], p)
                                     \/ p = x /\ Head(job[j]).key = New
<1> DEFINE s == Head(job[j])
           rest == Tail(job[j])
<1>1. job[j] # <<>> /\ s.op = "create"
  BY DEF Runs
<1>2. CASE rest = <<>>
  BY <1>2, EmptyKeyed DEF WritesIn, Adds
<1>3. CASE rest # <<>>
  <2>1. PICK t : /\ rest = <<t>> /\ IsStatement(t) /\ StatementOK(GivenKeys, t)
                 /\ t.op = "create" => s.op = "file"
    BY <1>1, <1>3, RestIs DEF OrderInv
  <2>2. t.op # "create" /\ Follows(s, rest)
    BY <1>1, <2>1, RestIs DEF OrderInv
  <2>3. s.key = New \/ s.table = "Track" \/ s.table = "PlaylistTrack"
    BY CreatedKey DEF OrderInv
  <2>4. s.key = New \/ t.op = "update"
    BY <1>1, <1>3, <2>1, <2>2, <2>3 DEF Follows
  <2>5. t.op = "replace" => Filled(t.columns)
    BY <1>1, <2>1 DEF OrderInv, FilledIn
  <2>6. \A p : Rewrites(t, p) => WritesIn(job[j], p)
    BY <1>1, <2>1 DEF WritesIn
  <2>7. PICK u : /\ WithKey(<<t>>, x) = <<u>>
                 /\ u.op = t.op /\ u.table = t.table /\ u.columns = t.columns
                 /\ u.key = IF t.key = New /\ t.op # "ensure" THEN x ELSE t.key
    <3> DEFINE v == IF t.key = New /\ t.op # "ensure" THEN [t EXCEPT !.key = x] ELSE t
    <3> HIDE DEF v
    <3>1. /\ WithKey(<<t>>, x) = <<v>>
          /\ v.op = t.op /\ v.table = t.table /\ v.columns = t.columns
          /\ v.key = IF t.key = New /\ t.op # "ensure" THEN x ELSE t.key
      BY <2>1, WithKeyIs DEF v
    <3> QED
      BY <3>1
  <2>8. q = <<u>>
    BY <2>1, <2>7
  <2>9. Head(q) = u /\ Tail(q) = <<>> /\ \A v : Tail(q) # <<v>>
    BY <2>8, OneStatement
  <2> HIDE DEF s, rest
  <2>10. (q # <<>> => FilledIn(q)) /\ \A p, n : ~ Adds(q, p, n)
    BY <2>2, <2>5, <2>7, <2>9 DEF FilledIn, Adds
  <2>11. \A p : Rewrites(u, p) => Rewrites(t, p) \/ (p = x /\ s.key = New)
    BY <2>4, <2>7 DEF Rewrites
  <2>12. \A p : WritesIn(q, p) => Rewrites(u, p)
    BY <2>9 DEF WritesIn
  <2> QED
    BY <2>6, <2>10, <2>11, <2>12 DEF s
<1> QED
  BY <1>2, <1>3

\* A row is created: a track is added at the number of tracks its playlist still has.
LEMMA CreateOrder ==
  ASSUME KeysTellApart, OrderInv, RefsInv', NEW j \in Jobs, RunCreate(j)
  PROVE  OrderInv'
<1> DEFINE s == Head(job[j])
           x == IF s.key = New THEN NewKey(s.table) ELSE s.key
           table == s.table
           columns == s.columns
           q == WithKey(Tail(job[j]), x)
<1>1. job[j] # <<>> /\ s.op = "create" /\ Runs(j, "create") /\ s = Head(job[j])
  BY DEF RunCreate, Runs
<1>2. CASE Fail(j)
  BY <1>2, FailOrder
<1>3. CASE /\ s.key = New => Unused(s.table) # {}
           /\ Accepts(rows, s.table, s.columns) /\ x \notin DOMAIN rows
           /\ rows' = Inserted(rows, x, s.table, s.columns)
           /\ used' = IF s.key = New THEN used \cup {x} ELSE used
           /\ Left(j, WithKey(Tail(job[j]), x))
           /\ UNCHANGED <<trackFiles, bereft, jumbled>>
  <2>1. /\ x \notin DOMAIN rows /\ DOMAIN rows' = DOMAIN rows \cup {x}
        /\ \A y \in DOMAIN rows : rows'[y] = rows[y]
        /\ rows'[x].table = table /\ rows'[x].columns = columns
    <3> HIDE DEF x
    <3> QED
      BY <1>3 DEF Inserted
  <2>2. s.key = New => s.table \in DOMAIN Keys
    BY <1>1, CreatedKey DEF OrderInv
  <2>3. s.key = New => x \notin GivenKeys
    BY <1>3, <2>2, NewKeyIs
  <2>4. table = "Playlist" => s.key = New
    <3>1. "Playlist" \in DOMAIN Keys \ {"Track"}
      BY DEF KeysTellApart
    <3> QED
      BY <1>1, <3>1, CreatedKey DEF OrderInv
  <2>5. /\ q # <<>> => FilledIn(q)
        /\ \A p, n : ~ Adds(q, p, n)
        /\ \A p : WritesIn(q, p) => WritesIn(job[j], p) \/ (p = x /\ s.key = New)
    <3>1. q = WithKey(Tail(job[j]), x)
      OBVIOUS
    <3> HIDE DEF q, x
    <3> QED
      BY <1>1, <3>1, KeyedWrites
  <2>6. StatementOK(GivenKeys, s)
    BY <1>1, RestIs DEF OrderInv
  <2>7. job' = [job EXCEPT ![j] = q] /\ jumbled' = jumbled
    BY <1>3 DEF Left
  <2>8. New \notin GivenKeys'
    BY DEF GivenKeys, KeysTellApart, UsedOK, RefsInv
  <2>9. ASSUME table = "PlaylistTrack"
        PROVE  \E a, t : \E n \in Nat : /\ x = <<a, t>> /\ Adds(job[j], a, n)
                                        /\ columns = [playlist |-> a, track |-> t, position |-> n]
    <3>1. PICK a, t : \E n \in Nat :
            s.key = <<a, t>> /\ s.columns = [playlist |-> a, track |-> t, position |-> n]
      BY <1>1, <2>6, <2>9 DEF StatementOK
    <3>2. PICK n \in Nat : s.columns = [playlist |-> a, track |-> t, position |-> n]
      BY <3>1
    <3>3. s.key # New
      BY <3>1 DEF KeysTellApart, IsPair
    <3>4. Adds(job[j], a, n)
      BY <1>1, <2>9, <3>2 DEF Adds
    <3> QED
      BY <3>1, <3>2, <3>3, <3>4
  <2> HIDE DEF s, x, table, columns, q
  <2>10. \A p \in GivenKeys' : p \notin jumbled' =>
           \/ p \in GivenKeys /\ p \notin jumbled /\ (WritesIn(q, p) => WritesIn(job[j], p))
           \/ \A k \in Jobs : k # j => ~ WritesIn(job[k], p)
    <3>1. \A p \in GivenKeys' : p \in GivenKeys \/ \A k \in Jobs : ~ WritesIn(job[k], p)
      BY <2>8, WritesAre DEF OrderInv
    <3> QED
      BY <2>3, <2>5, <2>7, <3>1
  <2>11. \A p : CountedOut(rows', q, p)
    BY <2>5 DEF CountedOut
  <2>12. /\ IsFiniteSet(DOMAIN rows) /\ ItemsOK(rows) /\ RefsOK(rows)
    BY DEF OrderInv, RefsInv, RowsInv, DbOK
  <2>13. CASE table = "PlaylistTrack"
    <3>1. PICK a, t : \E n \in Nat :
            /\ x = <<a, t>> /\ Adds(job[j], a, n)
            /\ columns = [playlist |-> a, track |-> t, position |-> n]
      BY <2>9, <2>13
    <3>2. PICK n \in Nat : /\ x = <<a, t>> /\ Adds(job[j], a, n)
                           /\ columns = [playlist |-> a, track |-> t, position |-> n]
      BY <3>1
    <3>3. /\ ItemsOK(rows') /\ Rows(rows', "Playlist") = Rows(rows, "Playlist")
          /\ \A p : p # a => ItemsSame(rows, rows', p)
          /\ InPlaces(rows, a) /\ n = Cardinality(ItemsOf(rows, a)) => InPlaces(rows', a)
      BY <2>1, <2>12, <2>13, <3>2, AddedItem
    <3>4. ASSUME a \in Rows(rows, "Playlist"), a \notin jumbled
          PROVE  /\ InPlaces(rows', a)
                 /\ \A k \in Jobs : k # j => \A m : ~ Adds(job[k], a, m)
      <4>1. InPlaces(rows, a) /\ n = Cardinality(ItemsOf(rows, a))
        BY <3>2, <3>4 DEF OrderInv, CountedOut
      <4>2. WritesIn(job[j], a) /\ a \in GivenKeys
        BY <3>2, WritesAre DEF OrderInv
      <4>3. \A k \in Jobs : k # j => \A m : ~ Adds(job[k], a, m)
        BY <3>4, <4>2, WritesAre DEF OrderInv, OneWriter
      <4> QED
        BY <3>3, <4>1, <4>3
    <3>5. \A p \in Rows(rows', "Playlist") : p \notin jumbled' =>
            /\ CountedOut(rows', q, p)
            /\ \/ p \in Rows(rows, "Playlist") /\ p \notin jumbled /\ ItemsSame(rows, rows', p)
               \/ /\ InPlaces(rows', p)
                  /\ \A k \in Jobs : k # j => \A m : ~ Adds(job[k], p, m)
      BY <2>7, <2>11, <3>3, <3>4
    <3> QED
      BY <2>5, <2>7, <2>10, <3>3, <3>5, KeepsOrder
  <2>14. CASE table # "PlaylistTrack"
    <3>1. /\ Rows(rows', "PlaylistTrack") = Rows(rows, "PlaylistTrack")
          /\ \A y \in Rows(rows, "PlaylistTrack") : rows'[y] = rows[y]
      BY <2>1, <2>14 DEF Rows
    <3>2. ItemsOK(rows') /\ \A p : ItemsSame(rows, rows', p)
      BY <2>12, <3>1, ItemsAlone
    <3>3. \A p \in Rows(rows', "Playlist") :
            p \in Rows(rows, "Playlist") \/ (p = x /\ table = "Playlist")
      BY <2>1 DEF Rows
    <3>4. ASSUME table = "Playlist"
          PROVE  /\ InPlaces(rows', x)
                 /\ \A k \in Jobs : k # j => \A m : ~ Adds(job[k], x, m)
      <4>1. x \notin GivenKeys
        BY <2>3, <2>4, <3>4
      <4>2. \A k \in Jobs : k # j => \A m : ~ Adds(job[k], x, m)
        BY <4>1, WritesAre DEF OrderInv
      <4>3. \A y \in Rows(rows, "PlaylistTrack") : rows[y].columns.playlist \in Rows(rows, "Playlist")
        BY <2>12, ListColumns DEF Rows
      <4>4. ItemsOf(rows, x) = {}
        BY <2>1, <4>3 DEF ItemsOf, Rows
      <4>5. ItemsOf(rows', x) = {}
        BY <3>2, <4>4 DEF ItemsSame
      <4> QED
        BY <4>2, <4>5 DEF InPlaces
    <3>5. \A p \in Rows(rows', "Playlist") : p \notin jumbled' =>
            /\ CountedOut(rows', q, p)
            /\ \/ p \in Rows(rows, "Playlist") /\ p \notin jumbled /\ ItemsSame(rows, rows', p)
               \/ /\ InPlaces(rows', p)
                  /\ \A k \in Jobs : k # j => \A n : ~ Adds(job[k], p, n)
      BY <2>7, <2>11, <3>2, <3>3, <3>4
    <3> QED
      BY <2>5, <2>7, <2>10, <3>2, <3>5, KeepsOrder
  <2> QED
    BY <2>13, <2>14
<1> QED
  BY <1>2, <1>3 DEF RunCreate

\* The copy lists each track once.
LEMMA CopiedFilled ==
  ASSUME RowsInv, ItemsOK(rows), NEW p, NEW q \in SetToSeqs(TracksOf(p))
  PROVE  Filled(Copied(q))
<1> DEFINE n == Cardinality(TracksOf(p))
<1>1. n \in Nat
  BY TracksCounted
<1>2. q \in [1 .. n -> TracksOf(p)] /\ \A i, k \in 1 .. n : i # k => q[i] # q[k]
  BY DEF SetToSeqs
<1> HIDE DEF n
<1>3. \A x \in TracksOf(p) : x = <<p, rows[x].columns.track>>
  BY DEF TracksOf, Tables, ItemsOK
<1>4. DOMAIN q = 1 .. n
  BY <1>2
<1>5. DOMAIN Copied(q) = 1 .. n /\ \A i \in 1 .. n : Copied(q)[i] = rows[q[i]].columns.track
  BY <1>4 DEF Copied
<1>6. \A i, k \in 1 .. n : rows[q[i]].columns.track = rows[q[k]].columns.track => q[i] = q[k]
  BY <1>2, <1>3
<1> QED
  BY <1>1, <1>2, <1>5, <1>6 DEF Filled

\* The tracks of a playlist to copy are read.
LEMMA CopyOrder ==
  ASSUME KeysTellApart, OrderInv, RefsInv', NEW j \in Jobs, RunCopy(j)
  PROVE  OrderInv'
<1> DEFINE s == Head(job[j])
           t == CopyOf(s)
<1>1. t.op = "create" /\ t.table = "Playlist"
  BY StatementFields DEF CopyOf
<1>2. /\ rows' = rows /\ used \subseteq used' /\ jumbled' = jumbled /\ GivenKeys' = GivenKeys
      /\ \E q \in SetToSeqs(TracksOf(s.key)) :
           \/ job' = [job EXCEPT ![j] = <<t>>]
           \/ job' = [job EXCEPT ![j] = <<t, Replacement(New, Copied(q))>>]
  BY CopyIs DEF GivenKeys
<1> HIDE DEF t, s
<1>3. CASE job' = [job EXCEPT ![j] = <<t>>]
  <2>1. Silent(t)
    BY <1>1 DEF Silent
  <2> DEFINE q == <<t>>
  <2>2. q = <<t>> /\ job' = [job EXCEPT ![j] = q]
    BY <1>3
  <2> HIDE DEF q
  <2> QED
    BY <1>2, <2>1, <2>2, SilentOrder
<1>4. ASSUME NEW q \in SetToSeqs(TracksOf(s.key)), NEW v, v = Replacement(New, Copied(q)),
             job' = [job EXCEPT ![j] = <<t, v>>]
      PROVE  OrderInv'
  <2>1. v.op = "replace" /\ v.table = "Playlist" /\ v.key = New /\ v.columns = Copied(q)
    BY <1>4, StatementFields DEF Replacement
  <2>2. Filled(v.columns)
    BY <2>1, CopiedFilled DEF OrderInv, RefsInv
  <2> DEFINE w == <<t, v>>
  <2>3. Head(w) = t /\ Tail(w) = <<v>>
    OBVIOUS
  <2>4. \A u : Tail(w) = <<u>> => u = v
    BY <2>3
  <2>5. job' = [job EXCEPT ![j] = w]
    BY <1>4
  <2> HIDE DEF w
  <2>6. FilledIn(w) /\ \A p, n : ~ Adds(w, p, n)
    BY <1>1, <2>2, <2>3, <2>4 DEF FilledIn, Adds
  <2>7. \A p : WritesIn(w, p) => p = New
    BY <1>1, <2>1, <2>3, <2>4 DEF WritesIn, Rewrites
  <2>8. \A p \in GivenKeys' : ~ WritesIn(w, p)
    BY <1>2, <2>7, NewNotGiven DEF OrderInv
  <2> QED
    BY <1>2, <2>5, <2>6, <2>8, OrderSame
<1> QED
  BY <1>2, <1>3, <1>4

\* The other statements.
LEMMA OtherOrder ==
  ASSUME KeysTellApart, OrderInv, RefsInv', NEW j \in Jobs,
         ScopeUser(j) \/ RunEnsure(j) \/ RunFile(j) \/ RunUnlink(j)
  PROVE  OrderInv'
<1>1. /\ job[j] # <<>> /\ rows' = rows /\ jumbled' = jumbled
      /\ Head(job[j]).op \in {"scope", "ensure", "file", "unlink"}
  BY DEF ScopeUser, RunEnsure, RunFile, RunUnlink, Runs
<1>2. ASSUME NEW s, Silent(s), used \subseteq used',
             job' = [job EXCEPT ![j] = <<>>] \/ job' = [job EXCEPT ![j] = <<s>>]
      PROVE  OrderInv'
  <2>1. PICK q : (q = <<>> \/ q = <<s>>) /\ job' = [job EXCEPT ![j] = q]
    BY <1>2
  <2> QED
    BY <1>1, <1>2, <2>1, SilentOrder
<1>3. CASE ScopeUser(j)
  <2>1. /\ used \subseteq used'
        /\ \/ job' = [job EXCEPT ![j] = <<>>]
           \/ \E x, c : job' = [job EXCEPT ![j] = <<Statement("update", "User", x, c)>>]
    BY <1>3 DEF ScopeUser
  <2>2. \A x, c : Silent(Statement("update", "User", x, c))
    BY StatementFields DEF Silent
  <2>3. Silent(Statement("update", "User", New, New))
    BY <2>2
  <2> QED
    BY <1>2, <2>1, <2>2, <2>3
<1>4. CASE RunEnsure(j)
  <2> DEFINE c == Head(job[j]).columns
             t == Assignment(c.target, c.playlist)
  <2>1. /\ used \subseteq used'
        /\ job' = [job EXCEPT ![j] = <<>>] \/ job' = [job EXCEPT ![j] = <<t>>]
    BY <1>4 DEF RunEnsure, Left
  <2>2. Silent(t)
    BY StatementFields DEF Silent, Assignment
  <2> HIDE DEF t
  <2> QED
    BY <1>2, <2>1, <2>2
<1>5. CASE RunFile(j)
  <2> DEFINE x == NewKey("Track")
             rest == Tail(job[j])
  <2>1. Head(job[j]).op = "file" /\ used \subseteq used' /\ job' = [job EXCEPT ![j] = WithKey(rest, x)]
    BY <1>5 DEF RunFile, Runs, Left
  <2>2. PICK t : rest = <<t>> /\ IsStatement(t)
    BY <1>1, <2>1, RestIs DEF OrderInv, Follows
  <2>3. PICK v : rest = <<v>> /\ v.op = "create" /\ v.table = "Track"
    BY <1>1, <2>1, RestIs DEF OrderInv, Follows
  <2>4. t = v
    BY <2>2, <2>3
  <2> HIDE DEF x, rest
  <2>5. PICK u : WithKey(<<t>>, x) = <<u>> /\ u.op = t.op /\ u.table = t.table
    <3> DEFINE w == IF t.key = New /\ t.op # "ensure" THEN [t EXCEPT !.key = x] ELSE t
    <3> HIDE DEF w
    <3>1. WithKey(<<t>>, x) = <<w>> /\ w.op = t.op /\ w.table = t.table
      BY <2>2, WithKeyIs DEF w
    <3> QED
      BY <3>1
  <2>6. Silent(u)
    BY <2>3, <2>4, <2>5 DEF Silent
  <2> QED
    BY <1>2, <2>1, <2>2, <2>5, <2>6
<1>6. CASE RunUnlink(j)
  <2>1. Proceed(j) /\ used' = used
    BY <1>6 DEF RunUnlink
  <2>2. /\ ItemsOK(rows') /\ jumbled \subseteq jumbled'
        /\ \A p \in Rows(rows', "Playlist") :
             p \in Rows(rows, "Playlist") /\ ItemsSame(rows, rows', p)
    BY <1>1, ItemsStay DEF OrderInv
  <2> QED
    BY <1>1, <2>1, <2>2, ProceedOrder
<1> QED
  BY <1>3, <1>4, <1>5, <1>6

\* A restart ends the requests in progress.
LEMMA RestartOrder ==
  ASSUME OrderInv, RefsInv', Restart
  PROVE  OrderInv'
<1>1. /\ rows' = rows /\ GivenKeys' = GivenKeys /\ jumbled' = jumbled /\ job' = [j \in Jobs |-> <<>>]
  BY DEF Restart, GivenKeys
<1>2. \A j \in Jobs : job'[j] = <<>>
  BY <1>1
<1>3. ItemsOK(rows)'
  BY <1>1 DEF OrderInv
<1>4. (\A j \in Jobs : job[j] # <<>> => FilledIn(job[j]))'
  BY <1>2
<1>5. (\A p \in GivenKeys : p \notin jumbled => OneWriter(p))'
  BY <1>2 DEF OneWriter, WritesIn
<1>6. (\A p \in Rows(rows, "Playlist") : p \notin jumbled =>
         InPlaces(rows, p) /\ \A j \in Jobs : CountedOut(rows, job[j], p))'
  BY <1>1, <1>2 DEF OrderInv, CountedOut, Adds
<1> QED
  BY <1>3, <1>4, <1>5, <1>6 DEF OrderInv

\* Each step keeps the order of playlists.
LEMMA OrderKept ==
  ASSUME KeysTellApart, OrderInv, [PortalRowsNext]_rowVars
  PROVE  OrderInv'
<1>1. RefsInv'
  BY RefsKept DEF OrderInv
<1>2. CASE PortalRowsNext
  <2>1. Restart \/ \E j \in Jobs : Statements(j) \/ \E q : Begins(j, q)
    BY <1>2, StepsAre DEF OrderInv
  <2> QED
    BY <1>1, <2>1, RestartOrder, BeginsOrder, CreateOrder, UpdateOrder, DeleteOrder,
       ReplaceOrder, CopyOrder, OtherOrder DEF Statements
<1>3. CASE UNCHANGED rowVars
  <2>1. rows' = rows /\ job' = job /\ jumbled' = jumbled /\ GivenKeys' = GivenKeys
    BY <1>3 DEF rowVars, GivenKeys
  <2>2. ItemsOK(rows)' /\ (\A j \in Jobs : job[j] # <<>> => FilledIn(job[j]))'
    BY <2>1 DEF OrderInv
  <2>3. (\A p \in GivenKeys : p \notin jumbled => OneWriter(p))'
    BY <2>1 DEF OrderInv, OneWriter
  <2>4. (\A p \in Rows(rows, "Playlist") : p \notin jumbled =>
           InPlaces(rows, p) /\ \A j \in Jobs : CountedOut(rows, job[j], p))'
    BY <2>1 DEF OrderInv
  <2> QED
    BY <1>1, <2>2, <2>3, <2>4 DEF OrderInv
<1> QED
  BY <1>2, <1>3

\* Tracks in places of their own have one order.
LEMMA PlacesAreApart == OrderInv => OrderIsTotal
<1> SUFFICES ASSUME OrderInv, NEW x \in Tables("PlaylistTrack"), NEW y \in Tables("PlaylistTrack"),
                    x # y, NEW p, p = rows[x].columns.playlist, p = rows[y].columns.playlist,
                    p \notin jumbled
             PROVE  rows[x].columns.position # rows[y].columns.position
  BY DEF OrderIsTotal
<1>1. x \in ItemsOf(rows, p) /\ y \in ItemsOf(rows, p)
  BY DEF ItemsOf, Tables
<1>2. p \in Rows(rows, "Playlist")
  BY ListColumns DEF Tables, Rows, OrderInv, RefsInv
<1> QED
  BY <1>1, <1>2 DEF OrderInv, InPlaces

-----------------------------------------------------------------------------
(* What people manage has the types it should                              *)

\* The counters are within their bounds.
BoundsOK == jobs \in 0 .. MaxJobs /\ stops \in 0 .. MaxStops /\ cut \in BOOLEAN

\* Users may lose their location, and slots what is assigned.
Bereavable(db) == Rows(db, "User") \cup Rows(db, "Schedule")

\* The invariant that is inductive, with the bounds and what is left without.
TypesInv == RefsInv /\ BoundsOK /\ bereft \subseteq Bereavable(rows)

\* The counters stay within their bounds.
LEMMA BoundsKept ==
  ASSUME KeysTellApart, RefsInv, BoundsOK, PortalRowsNext
  PROVE  BoundsOK'
<1>1. CASE Restart
  BY <1>1, PortalRowsConstants DEF Restart, BoundsOK
<1>2. ASSUME NEW j \in Jobs, NEW q, Begins(j, q)
      PROVE  BoundsOK'
  BY <1>2, PortalRowsConstants DEF Begins, Request, FreeJob, BoundsOK
<1>3. ASSUME NEW j \in Jobs, Statements(j)
      PROVE  jobs' = jobs /\ stops' = stops /\ cut' = cut
  BY <1>3 DEF Statements, ScopeUser, RunCreate, RunUpdate, RunDelete, RunClear, RunCopy, RunReplace,
              RunEnsure, RunFile, RunUnlink, NotRequests
<1> QED
  BY <1>1, <1>2, <1>3, StepsAre DEF BoundsOK

\* Users and slots stay when tracks are taken from a playlist.
LEMMA UsersStay ==
  ASSUME KeysTellApart, RefsInv, NEW X, \A x \in X : x \in DOMAIN rows /\ rows[x].table = "PlaylistTrack"
  PROVE  Bereavable(rows) \subseteq Bereavable(Deleted(rows, X))
<1>1. /\ IsFiniteSet(DOMAIN rows) /\ RefsOK(rows)
      /\ \A x \in DOMAIN rows : DOMAIN rows[x] = {"table", "columns"}
  BY DEF RefsInv, RowsInv, DbOK
<1>2. Null \notin DOMAIN rows
  <2>1. \A x \in DOMAIN rows : IsPair(x) \/ x \in KeysOf(rows[x].table)
    BY DEF RefsInv, RowsInv, DbOK, KeyOK
  <2> QED
    BY <2>1 DEF KeysTellApart, KeysOf, Rows
<1>3. Doomed(rows, X) = X
  BY <1>1, <1>2, GoAlone
<1> DEFINE later == Deleted(rows, X)
<1>4. IsLeft(rows, X, later)
  BY <1>1, <1>3, DeletedAre
<1> HIDE DEF later
<1>5. Bereavable(rows) \subseteq Bereavable(later)
  BY <1>4 DEF IsLeft, Rows, Bereavable
<1> QED
  BY <1>5 DEF later

\* What is left without is a user or a slot.
LEMMA BereftStatements ==
  ASSUME KeysTellApart, RefsInv, bereft \subseteq Bereavable(rows), NEW j \in Jobs, Statements(j)
  PROVE  bereft' \subseteq Bereavable(rows')
<1> DEFINE s == Head(job[j])
<1>1. DbOK(rows, GivenKeys, bereft) /\ \A x \in DOMAIN rows : DOMAIN rows[x] = {"table", "columns"}
  BY DEF RefsInv, RowsInv, DbOK
<1>2. CASE rows' = rows /\ bereft' = bereft
  BY <1>2
<1>3. CASE RunCreate(j)
  <2>1. (rows' = rows \/ \E x : /\ x \notin DOMAIN rows
                                /\ rows' = Inserted(rows, x, s.table, s.columns))
        /\ bereft' = bereft
    BY <1>3 DEF RunCreate, Fail
  <2>2. ASSUME NEW x, x \notin DOMAIN rows, rows' = Inserted(rows, x, s.table, s.columns)
        PROVE  Bereavable(rows) \subseteq Bereavable(rows')
    BY <2>2 DEF Inserted, Rows, Bereavable
  <2> QED
    BY <2>1, <2>2
<1>4. CASE RunUpdate(j)
  <2> DEFINE later == Updated(rows, s.key, s.columns)
  <2>1. CASE Fail(j)
    BY <2>1 DEF Fail
  <2>2. CASE ~ Fail(j)
    <3>1. /\ s.key \in DOMAIN rows /\ rows' = later
          /\ bereft' \subseteq bereft \/ (MovesSlot(s) /\ bereft' = bereft \cup {s.key})
      BY <1>4, <2>2, UpdateIs
    <3>2. IsUpdated(rows, s.key, s.columns, later)
      BY <1>1, <3>1, UpdatedAre
    <3>3. MovesSlot(s) => s.key \in Rows(rows, "Schedule")
      <4>1. job[j] # <<>> /\ s.op = "update"
        BY <1>4 DEF RunUpdate, Runs
      <4>2. s.table \in DOMAIN Keys /\ s.key \in KeysOf(s.table)
        BY <4>1, RestIs DEF StatementOK
      <4>3. rows[s.key].table = s.table
        BY <1>1, <3>1, <4>2, TableOfKey
      <4> QED
        BY <3>1, <4>3 DEF MovesSlot, Rows
    <3> HIDE DEF later, s
    <3>4. Bereavable(later) = Bereavable(rows)
      BY <3>2 DEF IsUpdated, Rows, Bereavable
    <3>5. bereft' \subseteq Bereavable(rows)
      BY <3>1, <3>3 DEF Bereavable
    <3> QED
      BY <3>1, <3>4, <3>5
  <2> QED
    BY <2>1, <2>2
<1>5. CASE RunDelete(j)
  <2> DEFINE x == s.key
             X == {x}
             gone == Doomed(rows, X)
             later == Deleted(rows, X)
  <2>1. \/ rows' = rows /\ bereft' = bereft
        \/ rows' = later /\ bereft' \subseteq Bereavable(rows) \ gone
    BY <1>5 DEF RunDelete, Fail, Tables, Bereavable
  <2>2. IsLeft(rows, gone, later)
    BY <1>1, DeletedAre
  <2> HIDE DEF gone, later
  <2>3. Bereavable(rows) \ gone \subseteq Bereavable(later)
    BY <2>2 DEF IsLeft, Rows, Bereavable
  <2> QED
    BY <2>1, <2>3
<1>6. CASE RunClear(j)
  <2> DEFINE x == s.key
             X == {x}
             later == Deleted(rows, X)
  <2>1. /\ bereft' = bereft
        /\ rows' = rows \/ (x \in DOMAIN rows /\ rows' = later)
    BY <1>6 DEF RunClear
  <2>2. job[j] # <<>> /\ s.op = "clear"
    BY <1>6 DEF RunClear, Runs
  <2>3. IsPair(x)
    BY <2>2, RestIs DEF StatementOK, IsPair
  <2>4. x \in DOMAIN rows => \A y \in X : y \in DOMAIN rows /\ rows[y].table = "PlaylistTrack"
    BY <1>1, <2>3, TableOfPair
  <2> HIDE DEF X, x
  <2>5. x \in DOMAIN rows => Bereavable(rows) \subseteq Bereavable(later)
    BY <2>4, UsersStay
  <2> QED
    BY <2>1, <2>5
<1>7. CASE RunReplace(j)
  <2> DEFINE p == s.key
             tracks == s.columns
             X == TracksOf(p)
             kept == Deleted(rows, X)
  <2>1. bereft' = bereft /\ (Fail(j) => rows' = rows)
    BY <1>7 DEF RunReplace, Fail
  <2>2. ~ Fail(j) => IsReplaced(kept, p, tracks, rows')
    BY <1>7, ReplaceIs
  <2>3. \A x \in X : x \in DOMAIN rows /\ rows[x].table = "PlaylistTrack"
    BY DEF TracksOf, Tables, Rows
  <2>4. DbOK(kept, GivenKeys, bereft)
    BY <1>1, <2>3, TracksGoAlone
  <2> HIDE DEF X, p, tracks
  <2>5. Bereavable(rows) \subseteq Bereavable(kept)
    BY <2>3, UsersStay
  <2> HIDE DEF kept
  <2>6. ~ Fail(j) => Bereavable(kept) \subseteq Bereavable(rows')
    BY <2>2, <2>4, ReplacedTables DEF Bereavable
  <2> QED
    BY <2>1, <2>5, <2>6
<1> QED
  BY <1>2, <1>3, <1>4, <1>5, <1>6, <1>7
  DEF Statements, ScopeUser, RunCopy, RunEnsure, RunFile, RunUnlink

\* Each step keeps the types.
LEMMA TypesKept ==
  ASSUME KeysTellApart, TypesInv, [PortalRowsNext]_rowVars
  PROVE  TypesInv'
<1>1. RefsInv'
  BY RefsKept DEF TypesInv
<1>2. CASE PortalRowsNext
  <2>1. BoundsOK'
    BY <1>2, BoundsKept DEF TypesInv
  <2>2. Restart \/ \E j \in Jobs : Statements(j) \/ \E q : Begins(j, q)
    BY <1>2, StepsAre DEF TypesInv
  <2>3. (Restart \/ \E j \in Jobs : \E q : Begins(j, q)) => rows' = rows /\ bereft' = bereft
    BY DEF Restart, Begins, Request, FreeJob
  <2>4. bereft' \subseteq Bereavable(rows')
    BY <2>2, <2>3, BereftStatements DEF TypesInv
  <2>5. (bereft \subseteq Bereavable(rows))'
    BY <2>4 DEF Rows, Bereavable
  <2> QED
    BY <1>1, <2>1, <2>5 DEF TypesInv
<1>3. CASE UNCHANGED rowVars
  <2>1. BoundsOK' /\ rows' = rows /\ bereft' = bereft
    BY <1>3 DEF rowVars, BoundsOK, TypesInv
  <2> QED
    BY <1>1, <2>1 DEF TypesInv
<1> QED
  BY <1>2, <1>3

\* What the invariant says of rows and statements is their type.
LEMMA TypesAreRight == TypesInv => PortalRowsTypeOK
<1> SUFFICES ASSUME TypesInv
             PROVE  PortalRowsTypeOK
  OBVIOUS
<1>1. \A x \in DOMAIN rows : /\ rows[x].table \in DOMAIN Models
                             /\ Satisfied(rows, rows[x].table, rows[x].columns)
  BY SatisfiedRefers DEF TypesInv, RefsInv, RefsOK
<1>2. ASSUME NEW j \in Jobs, NEW i \in 1 .. 3, i <= Len(job[j])
      PROVE  job[j][i].op \in Ops
  <2>1. ASSUME NEW s, job[j] = <<s>>, StatementOK(GivenKeys, s)
        PROVE  job[j][i].op \in Ops
    <3>1. i = 1
      BY <1>2, <2>1
    <3>2. job[j][i] = s
      BY <2>1, <3>1
    <3> QED
      BY <2>1, <3>2 DEF StatementOK
  <2>2. ASSUME NEW s, NEW t, job[j] = <<s, t>>, StatementOK(GivenKeys, s), StatementOK(GivenKeys, t)
        PROVE  job[j][i].op \in Ops
    <3>1. i \in 1 .. 2
      BY <1>2, <2>2
    <3>2. job[j][i] \in {s, t}
      BY <2>2, <3>1
    <3> QED
      BY <2>2, <3>2 DEF StatementOK
  <2>3. job[j] # <<>>
    BY <1>2
  <2>4. JobSound(GivenKeys, job[j])
    BY DEF TypesInv, RefsInv
  <2> QED
    BY <2>1, <2>2, <2>3, <2>4 DEF JobSound
<1>3. used \subseteq UNION {Keys[t] : t \in DOMAIN Keys}
  BY DEF TypesInv, RefsInv, UsedOK
<1> QED
  BY <1>1, <1>2, <1>3 DEF PortalRowsTypeOK, TypesInv, BoundsOK, Bereavable, Tables, Rows

-----------------------------------------------------------------------------
(* From the start                                                          *)

\* Rows among which what is scheduled is assigned, and the tracks of playlists are in places.
InOrder(db) ==
  /\ \A s \in Rows(db, "Schedule") : IsAssigned(db, db[s].columns.zone, db[s].columns.playlist)
  /\ ItemsOK(db) /\ \A p \in Rows(db, "Playlist") : InPlaces(db, p)

\* The rows at the start name rows that are there, and nothing is in progress.
LEMMA SeedRefs ==
  ASSUME KeysTellApart, PortalRowsInit, TenantsAgree
  PROVE  TypesInv
<1>1. /\ rows = Seed /\ used = {} /\ bereft = {} /\ jobs = 0 /\ stops = 0 /\ cut = FALSE
      /\ \A j \in Jobs : job[j] = <<>>
  BY DEF PortalRowsInit
<1>2. RowsInv
  BY SeedAgrees
<1>3. RefsOK(Seed)
  <2> SUFFICES ASSUME NEW x \in DOMAIN Seed
               PROVE  /\ Seed[x].table \in DOMAIN Models
                      /\ RefersOK(Seed, Seed[x].table, Seed[x].columns)
    BY DEF RefsOK
  <2> DEFINE t == Seed[x].table
             columns == Seed[x].columns
  <2>1. /\ t \in DOMAIN Models /\ DOMAIN Models[t] \subseteq DOMAIN columns
        /\ Satisfied(Seed, t, columns)
    BY PortalRowsConstants, SeedRows
  <2> HIDE DEF t, columns
  <2>2. RefersOK(Seed, t, columns)
    BY <2>1, SatisfiedRefers
  <2> QED
    BY <2>1, <2>2 DEF t, columns
<1>4. UsedOK /\ \A j \in Jobs : JobSound(GivenKeys, job[j])
  BY <1>1 DEF UsedOK, JobSound
<1>5. BoundsOK
  <2>1. MaxJobs \in Nat /\ MaxStops \in Nat
    BY PortalRowsConstants
  <2>2. jobs \in 0 .. MaxJobs /\ stops \in 0 .. MaxStops
    BY <1>1, <2>1
  <2>3. cut \in BOOLEAN
    BY <1>1
  <2> QED
    BY <2>2, <2>3 DEF BoundsOK
<1> QED
  BY <1>1, <1>2, <1>3, <1>4, <1>5 DEF TypesInv, RefsInv

\* What is scheduled at the start is assigned.
LEMMA SeedCovered ==
  ASSUME RefsInv, PortalRowsInit, InOrder(Seed)
  PROVE  CoveredInv
BY DEF PortalRowsInit, InOrder, CoveredInv

\* The tracks at the start have their files.
LEMMA SeedFiles ==
  ASSUME RefsInv, PortalRowsInit
  PROVE  FilesInv
<1>1. /\ rows = Seed /\ trackFiles = Rows(Seed, "Track") /\ \A j \in Jobs : job[j] = <<>>
  BY DEF PortalRowsInit
<1>2. trackFiles \subseteq GivenKeys
  BY <1>1 DEF Rows, GivenKeys
<1>3. \A q, t : q = <<>> => ~ Makes(q, t) /\ ~ Unlinked(q, t)
  BY DEF Makes, Unlinked
<1> QED
  BY <1>1, <1>2, <1>3 DEF FilesInv

\* The playlists at the start are in order.
LEMMA SeedOrdered ==
  ASSUME RefsInv, PortalRowsInit, InOrder(Seed)
  PROVE  OrderInv
<1>1. rows = Seed /\ \A j \in Jobs : job[j] = <<>>
  BY DEF PortalRowsInit
<1>2. \A q, p : q = <<>> => ~ WritesIn(q, p) /\ CountedOut(rows, q, p)
  BY DEF WritesIn, CountedOut, Adds
<1> QED
  BY <1>1, <1>2 DEF OrderInv, InOrder, OneWriter

\* The invariant is inductive: every reference names a row that is there, or is empty where it may
\* be, and each request knows what it has yet to run, however statements interleave and whatever
\* the deletions of others take along or empty (the foreign keys of the migrations).
THEOREM ReferencesInductive ==
  ASSUME PairsAreTracks
  PROVE  PortalRowsSpec /\ TenantsAgree => []TypesInv
<1>1. PortalRowsInit /\ TenantsAgree => TypesInv
  BY KeysDiffer, SeedRefs
<1>2. TypesInv /\ [PortalRowsNext]_rowVars => TypesInv'
  BY KeysDiffer, TypesKept
<1> QED
  BY <1>1, <1>2, PTL DEF PortalRowsSpec

\* Rows, statements and counters have their types: every row there is satisfies the references
\* that schema.prisma declares for its table, though it is the migrations that keep them.
THEOREM PortalRowsTypes ==
  ASSUME PairsAreTracks
  PROVE  PortalRowsSpec /\ TenantsAgree => []PortalRowsTypeOK
BY ReferencesInductive, TypesAreRight, PTL

\* What is scheduled is offered: a slot is assigned to its zone, or the request that wrote it is
\* still to assign it, unless a restart cut one off (ensureZonePlaylistAssignment of schedules.ts).
THEOREM SlotsAreOffered ==
  ASSUME PairsAreTracks
  PROVE  PortalRowsSpec /\ TenantsAgree /\ InOrder(Seed) => [](CoveredInv /\ ScheduledIsOffered)
<1>1. PortalRowsInit /\ TenantsAgree /\ InOrder(Seed) => CoveredInv
  BY KeysDiffer, SeedRefs, SeedCovered DEF TypesInv
<1>2. CoveredInv /\ [PortalRowsNext]_rowVars => CoveredInv'
  BY KeysDiffer, CoveredKept
<1> QED
  BY <1>1, <1>2, CoveredOffers, PTL DEF PortalRowsSpec

\* The tracks of a playlist have one order: positions count the tracks of a playlist that one
\* request at a time has edited since they were last replaced, from POST /playlists/:id/tracks
\* which adds at the number it read (routes/playlists.ts).
THEOREM OneOrder ==
  ASSUME PairsAreTracks
  PROVE  PortalRowsSpec /\ TenantsAgree /\ InOrder(Seed) => [](OrderInv /\ OrderIsTotal)
<1>1. PortalRowsInit /\ TenantsAgree /\ InOrder(Seed) => OrderInv
  BY KeysDiffer, SeedRefs, SeedOrdered DEF TypesInv
<1>2. OrderInv /\ [PortalRowsNext]_rowVars => OrderInv'
  BY KeysDiffer, OrderKept
<1> QED
  BY <1>1, <1>2, PlacesAreApart, PTL DEF PortalRowsSpec

\* A track that is listed has its file, unless its row is deleted next or a restart came between
\* (POST /music/upload and DELETE /music/:id of routes/music.ts).
THEOREM FilesOfTracks ==
  ASSUME PairsAreTracks
  PROVE  PortalRowsSpec /\ TenantsAgree => [](FilesInv /\ TrackHasFile)
<1>1. PortalRowsInit /\ TenantsAgree => FilesInv
  BY KeysDiffer, SeedRefs, SeedFiles DEF TypesInv
<1>2. FilesInv /\ [PortalRowsNext]_rowVars => FilesInv'
  BY KeysDiffer, FilesKept
<1> QED
  BY <1>1, <1>2, FilesAreThere, PTL DEF PortalRowsSpec

\* What people listen to is in order, if it is at the start.
THEOREM ListsStayInOrder ==
  ASSUME PairsAreTracks
  PROVE  PortalRowsSpec /\ TenantsAgree /\ InOrder(Seed) => []ListsAgree
<1>1. ScheduledIsOffered /\ OrderIsTotal /\ TrackHasFile => ListsAgree
  BY DEF ListsAgree
<1> QED
  BY <1>1, SlotsAreOffered, OneOrder, FilesOfTracks, PTL
=============================================================================
