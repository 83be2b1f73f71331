--------------------------- MODULE PortalRowsProofs ---------------------------
(***************************************************************************)
(* Every row of the portal names one tenant, however requests interleave    *)
(* and whatever deletions take along.                                       *)
(***************************************************************************)
EXTENDS PortalRows, FiniteSetTheorems, SequenceTheorems, WellFoundedInduction, TLAPS

(* Counting *)

\* A set of natural numbers that is not empty has a least element.
LEMMA LeastNumber ==
  ASSUME NEW T, T \subseteq Nat, T # {}
  PROVE  \E x \in T : \A y \in T : x <= y
<1> DEFINE R == OpToRel(<, Nat)
<1>1. IsWellFoundedOn(R, Nat)
  BY NatLessThanWellFounded
<1>2. \A x, y \in Nat : x < y => <<x, y>> \in R
  BY DEF OpToRel
<1> HIDE DEF R
<1>3. PICK x \in T : \A y \in T : ~ <<y, x>> \in R
  BY <1>1, WFMin
<1>4. ASSUME NEW y \in T
      PROVE  x <= y
  <2>1. x \in Nat /\ y \in Nat /\ ~ y < x
    BY <1>2, <1>3
  <2> QED
    BY <2>1
<1> QED
  BY <1>4

\* A set of natural numbers with 0 and the successor of each has them all.
LEMMA AllNumbers ==
  ASSUME NEW T, 0 \in T, \A n \in Nat : n \in T => n + 1 \in T
  PROVE  Nat \subseteq T
<1> SUFFICES ASSUME Nat \ T # {}
             PROVE  FALSE
  OBVIOUS
<1>1. PICK x \in Nat \ T : \A y \in Nat \ T : x <= y
  BY LeastNumber
<1>2. x # 0
  OBVIOUS
<1>3. x - 1 \in Nat /\ ~ x <= x - 1
  BY <1>2
<1>4. x - 1 \in T
  BY <1>1, <1>3
<1>5. x - 1 + 1 \in T
  BY <1>3, <1>4
<1> QED
  BY <1>5

-----------------------------------------------------------------------------
(* What a deletion takes along                                             *)

\* One round of a deletion: what goes with the rows of a set goes too.
Round(db, gone) == gone \cup {x \in DOMAIN db : GoesWith(db, x, gone)}

IsRounds(g, db, X, m) == g = [n \in 0 .. m |-> IF n = 0 THEN X ELSE Round(db, g[n - 1])]

\* Nothing goes with the rows of a set that is not in it.
Closed(db, gone) == \A x \in DOMAIN db : GoesWith(db, x, gone) => x \in gone

LEMMA RoundsExist ==
  ASSUME NEW db, NEW X, NEW m \in Nat
  PROVE  \E g : IsRounds(g, db, X, m)
<1> DEFINE T == {n \in Nat : \E g : IsRounds(g, db, X, n)}
<1>1. 0 \in T
  <2>1. IsRounds([n \in 0 .. 0 |-> X], db, X, 0)
    BY DEF IsRounds
  <2> QED
    BY <2>1
<1>2. ASSUME NEW n \in Nat, n \in T
      PROVE  n + 1 \in T
  <2>1. PICK g : IsRounds(g, db, X, n)
    BY <1>2
  <2> DEFINE h == [k \in 0 .. n + 1 |-> IF k <= n THEN g[k] ELSE Round(db, g[n])]
             e == [k \in 0 .. n + 1 |-> IF k = 0 THEN X ELSE Round(db, h[k - 1])]
  <2>2. ASSUME NEW k \in 0 .. n + 1
        PROVE  h[k] = e[k]
    <3>1. CASE k = 0
      BY <2>1, <3>1 DEF IsRounds
    <3>2. CASE k # 0 /\ k <= n
      <4>1. k \in 0 .. n /\ k - 1 \in 0 .. n /\ k - 1 \in 0 .. n + 1 /\ k - 1 <= n
        BY <3>2
      <4>2. g[k] = Round(db, g[k - 1])
        BY <2>1, <3>2, <4>1 DEF IsRounds
      <4>3. h[k] = g[k] /\ h[k - 1] = g[k - 1]
        BY <3>2, <4>1
      <4> QED
        BY <3>2, <4>2, <4>3
    <3>3. CASE k = n + 1
      <4>1. n \in 0 .. n + 1 /\ k - 1 = n /\ k # 0 /\ ~ k <= n
        BY <3>3
      <4> QED
        BY <4>1
    <3> QED
      BY <3>1, <3>2, <3>3
  <2>3. h = e
    BY <2>2
  <2> HIDE DEF h
  <2>4. IsRounds(h, db, X, n + 1)
    BY <2>3 DEF IsRounds
  <2> QED
    BY <2>4
<1> HIDE DEF T
<1>3. m \in T
  BY <1>1, <1>2, AllNumbers
<1> QED
  BY <1>3 DEF T

LEMMA RoundsNext ==
  ASSUME NEW db, NEW X, NEW m \in Nat, NEW g, IsRounds(g, db, X, m), NEW n \in Nat, n + 1 \in 0 .. m
  PROVE  g[n + 1] = Round(db, g[n])
<1>1. n + 1 # 0 /\ n + 1 - 1 = n
  OBVIOUS
<1> QED
  BY <1>1 DEF IsRounds

\* The rounds grow, stay within every closed set, and close or take a row more each.
LEMMA RoundsGrow ==
  ASSUME NEW db, IsFiniteSet(DOMAIN db), NEW X, NEW m \in Nat, NEW g, IsRounds(g, db, X, m)
  PROVE  \A n \in 0 .. m :
           /\ X \subseteq g[n]
           /\ \A S : X \subseteq S /\ Closed(db, S) => g[n] \subseteq S
           /\ Closed(db, g[n]) \/ Cardinality((DOMAIN db \cap g[n]) \ X) >= n
<1> DEFINE P(n) == /\ X \subseteq g[n]
                   /\ \A S : X \subseteq S /\ Closed(db, S) => g[n] \subseteq S
                   /\ Closed(db, g[n]) \/ Cardinality((DOMAIN db \cap g[n]) \ X) >= n
           T == {n \in Nat : n \in 0 .. m => P(n)}
<1>1. 0 \in T
  <2>1. g[0] = X
    BY DEF IsRounds
  <2>2. (DOMAIN db \cap X) \ X = {}
    OBVIOUS
  <2>3. Cardinality((DOMAIN db \cap g[0]) \ X) = 0
    BY <2>1, <2>2, FS_EmptySet
  <2> QED
    BY <2>1, <2>3
<1>2. ASSUME NEW n \in Nat, n \in T
      PROVE  n + 1 \in T
  <2> SUFFICES ASSUME n + 1 \in 0 .. m
               PROVE  P(n + 1)
    OBVIOUS
  <2>1. P(n) /\ n \in 0 .. m
    BY <1>2
  <2>2. g[n + 1] = Round(db, g[n])
    BY RoundsNext
  <2>3. X \subseteq g[n + 1] /\ g[n] \subseteq g[n + 1]
    BY <2>1, <2>2 DEF Round
  <2>4. ASSUME NEW S, X \subseteq S, Closed(db, S)
        PROVE  g[n + 1] \subseteq S
    <3>1. g[n] \subseteq S
      BY <2>1, <2>4
    <3>2. \A x \in DOMAIN db : GoesWith(db, x, g[n]) => GoesWith(db, x, S)
      BY <3>1 DEF GoesWith
    <3> QED
      BY <2>2, <2>4, <3>1, <3>2 DEF Round, Closed
  <2>5. CASE Closed(db, g[n])
    <3>1. g[n + 1] = g[n]
      BY <2>2, <2>5 DEF Round, Closed
    <3> QED
      BY <2>3, <2>4, <2>5, <3>1
  <2>6. CASE ~ Closed(db, g[n])
    <3> DEFINE old == (DOMAIN db \cap g[n]) \ X
               new == (DOMAIN db \cap g[n + 1]) \ X
    <3>1. PICK x \in DOMAIN db : GoesWith(db, x, g[n]) /\ x \notin g[n]
      BY <2>6 DEF Closed
    <3>2. x \in new /\ x \notin old /\ old \subseteq new
      BY <2>1, <2>2, <2>3, <3>1 DEF Round
    <3>3. IsFiniteSet(old) /\ IsFiniteSet(new)
      BY FS_Subset
    <3> HIDE DEF old, new
    <3>4. IsFiniteSet(old \cup {x}) /\ Cardinality(old \cup {x}) = Cardinality(old) + 1
      BY <3>2, <3>3, FS_AddElement
    <3>5. Cardinality(old \cup {x}) <= Cardinality(new)
      BY <3>2, <3>3, FS_Subset
    <3>6. Cardinality(old) >= n
      BY <2>1, <2>6 DEF old
    <3>7. Cardinality(old) \in Nat /\ Cardinality(new) \in Nat
      BY <3>3, FS_CardinalityType
    <3>8. Cardinality(new) >= n + 1
      BY <3>4, <3>5, <3>6, <3>7
    <3> QED
      BY <2>3, <2>4, <3>8 DEF new
  <2> QED
    BY <2>5, <2>6
<1> HIDE DEF T
<1>3. Nat \subseteq T
  BY <1>1, <1>2, AllNumbers
<1> QED
  BY <1>3 DEF T

\* A deletion takes along what goes with it, and no more than it must.
LEMMA DoomedLeast ==
  ASSUME NEW db, IsFiniteSet(DOMAIN db), NEW X
  PROVE  /\ X \subseteq Doomed(db, X)
         /\ Closed(db, Doomed(db, X))
         /\ \A S : X \subseteq S /\ Closed(db, S) => Doomed(db, X) \subseteq S
<1> DEFINE C == Cardinality(DOMAIN db)
           g == CHOOSE f : IsRounds(f, db, X, C)
           depth == CHOOSE n \in 0 .. C : n = C \/ g[n] = g[n + 1]
<1>1. C \in Nat
  BY FS_CardinalityType
<1>2. Doomed(db, X) = g[depth]
  BY DEF Doomed, IsRounds, Round
<1>3. IsRounds(g, db, X, C)
  BY <1>1, RoundsExist
<1>4. depth \in 0 .. C /\ (depth = C \/ g[depth] = g[depth + 1])
  <2>1. C \in 0 .. C
    BY <1>1
  <2> HIDE DEF C, g
  <2> QED
    BY <2>1
<1> HIDE DEF g, depth, C
<1>5. /\ X \subseteq g[depth]
      /\ \A S : X \subseteq S /\ Closed(db, S) => g[depth] \subseteq S
      /\ Closed(db, g[depth]) \/ Cardinality((DOMAIN db \cap g[depth]) \ X) >= depth
  BY <1>1, <1>3, <1>4, RoundsGrow
<1>6. Closed(db, g[depth])
  <2>1. CASE depth # C
    <3>1. depth \in Nat /\ depth + 1 \in 0 .. C
      BY <1>1, <1>4, <2>1
    <3>2. g[depth + 1] = Round(db, g[depth])
      BY <1>1, <1>3, <3>1, RoundsNext
    <3>3. g[depth] = Round(db, g[depth])
      BY <1>4, <2>1, <3>2
    <3>4. \A x \in DOMAIN db : GoesWith(db, x, g[depth]) => x \in Round(db, g[depth])
      BY DEF Round
    <3> QED
      BY <3>3, <3>4 DEF Closed
  <2>2. CASE depth = C /\ ~ Closed(db, g[depth])
    <3> DEFINE new == (DOMAIN db \cap g[depth]) \ X
    <3>1. new \subseteq DOMAIN db /\ IsFiniteSet(new) /\ Cardinality(new) >= C
      BY <1>5, <2>2, FS_Subset
    <3> HIDE DEF new
    <3>2. /\ Cardinality(new) <= Cardinality(DOMAIN db)
          /\ Cardinality(DOMAIN db) = Cardinality(new) => new = DOMAIN db
      BY <3>1, FS_Subset
    <3>3. Cardinality(new) \in Nat
      BY <3>1, FS_CardinalityType
    <3>4. new = DOMAIN db
      BY <1>1, <3>1, <3>2, <3>3 DEF C
    <3>5. DOMAIN db \subseteq g[depth]
      BY <3>4 DEF new
    <3> QED
      BY <3>5 DEF Closed
  <2> QED
    BY <2>1, <2>2
<1> QED
  BY <1>2, <1>5, <1>6
-----------------------------------------------------------------------------
(* The references that say whose a row is                                  *)

\* Tables whose rows name a tenant.
Owned == {"User", "Location", "MusicServer", "Zone"}

LEMMA GroupsAre ==
  Groups = {InitAccounts, InitMusic, InitRecords, [MusicFolder |-> {}], [AgentLink |-> {}],
            [EqPreset |-> {}]}
BY DEF Groups, Deployed, InitMigration, AddMusicFolders, AgentLinkAndZoneMapping,
       AddUserLocation, AddEqPresets

LEMMA EnforcedAre ==
  Enforced = InitKeys \cup {ForeignKey("Track", "folder", "MusicFolder", "SetNull"),
                            ForeignKey("AgentLink", "server", "MusicServer", "Cascade"),
                            ForeignKey("User", "location", "Location", "SetNull"),
                            ForeignKey("EqPreset", "organization", "Organization", "Cascade")}
BY DEF Enforced, Deployed, InitMigration, AddMusicFolders, AgentLinkAndZoneMapping,
       AddUserLocation, AddEqPresets

\* The foreign keys of these tables, one by one.
LEMMA OwnedKeys ==
  /\ \A k \in Enforced : k.table = "User" =>
       k \in {ForeignKey("User", "organization", "Organization", "SetNull"),
              ForeignKey("User", "location", "Location", "SetNull")}
  /\ \A k \in Enforced : k.table = "Location" =>
       k = ForeignKey("Location", "organization", "Organization", "Cascade")
  /\ \A k \in Enforced : k.table = "MusicServer" =>
       k \in {ForeignKey("MusicServer", "organization", "Organization", "Cascade"),
              ForeignKey("MusicServer", "location", "Location", "Cascade")}
  /\ \A k \in Enforced : k.table = "Zone" =>
       k \in {ForeignKey("Zone", "server", "MusicServer", "Cascade"),
              ForeignKey("Zone", "location", "Location", "Cascade"),
              ForeignKey("Zone", "currentPlaylist", "Playlist", "SetNull")}
  /\ \A k \in Enforced : k.table # "Organization"
<1>1. \A k \in InitKeys : k.table = "User" =>
        k = ForeignKey("User", "organization", "Organization", "SetNull")
  BY DEF InitKeys, ForeignKey
<1>2. \A k \in InitKeys : k.table = "Location" =>
        k = ForeignKey("Location", "organization", "Organization", "Cascade")
  BY DEF InitKeys, ForeignKey
<1>3. \A k \in InitKeys : k.table = "MusicServer" =>
        k \in {ForeignKey("MusicServer", "organization", "Organization", "Cascade"),
               ForeignKey("MusicServer", "location", "Location", "Cascade")}
  BY DEF InitKeys, ForeignKey
<1>4. \A k \in InitKeys : k.table = "Zone" =>
        k \in {ForeignKey("Zone", "server", "MusicServer", "Cascade"),
               ForeignKey("Zone", "location", "Location", "Cascade"),
               ForeignKey("Zone", "currentPlaylist", "Playlist", "SetNull")}
  BY DEF InitKeys, ForeignKey
<1>5. \A k \in InitKeys : k.table # "Organization"
  BY DEF InitKeys, ForeignKey
<1>6. /\ ForeignKey("Track", "folder", "MusicFolder", "SetNull").table = "Track"
      /\ ForeignKey("AgentLink", "server", "MusicServer", "Cascade").table = "AgentLink"
      /\ ForeignKey("User", "location", "Location", "SetNull").table = "User"
      /\ ForeignKey("EqPreset", "organization", "Organization", "Cascade").table = "EqPreset"
  BY DEF ForeignKey
<1> QED
  BY <1>1, <1>2, <1>3, <1>4, <1>5, <1>6, EnforcedAre

LEMMA OwnedKeysThere ==
  {ForeignKey("User", "organization", "Organization", "SetNull"),
   ForeignKey("User", "location", "Location", "SetNull"),
   ForeignKey("Location", "organization", "Organization", "Cascade"),
   ForeignKey("MusicServer", "organization", "Organization", "Cascade"),
   ForeignKey("MusicServer", "location", "Location", "Cascade"),
   ForeignKey("Zone", "server", "MusicServer", "Cascade"),
   ForeignKey("Zone", "location", "Location", "Cascade")} \subseteq Enforced
BY EnforcedAre DEF InitKeys

LEMMA OwnedTables == Owned \subseteq UNION {DOMAIN g : g \in Groups}
<1>1. InitAccounts \in Groups /\ InitMusic \in Groups
  BY GroupsAre
<1>2. {"User", "Location", "MusicServer"} \subseteq DOMAIN InitAccounts /\ "Zone" \in DOMAIN InitMusic
  BY DEF InitAccounts, InitMusic
<1> QED
  BY <1>1, <1>2 DEF Owned

\* The references of a table are its foreign keys.
LEMMA ReferencesAre ==
  ASSUME NEW t \in Owned
  PROVE  /\ t \in DOMAIN References
         /\ DOMAIN References[t] = {k.column : k \in {j \in Enforced : j.table = t}}
         /\ \A c \in DOMAIN References[t] : /\ References[t][c] \in Enforced
                                            /\ References[t][c].table = t
                                            /\ References[t][c].column = c
<1> DEFINE Of(u) == {k \in Enforced : k.table = u}
           Cols(u) == [c \in {k.column : k \in Of(u)} |-> CHOOSE k \in Of(u) : k.column = c]
<1>1. References = [u \in UNION {DOMAIN g : g \in Groups} |-> Cols(u)]
  BY DEF References
<1>2. References[t] = Cols(t) /\ t \in DOMAIN References
  BY <1>1, OwnedTables
<1>3. \A c \in {k.column : k \in Of(t)} : (CHOOSE k \in Of(t) : k.column = c) \in Of(t)
         /\ (CHOOSE k \in Of(t) : k.column = c).column = c
  OBVIOUS
<1> QED
  BY <1>2, <1>3

\* Which of the columns may be empty.
LEMMA OwnedNull ==
  /\ \A c : <<"Location", c>> \notin MayBeNull
  /\ \A c : <<"MusicServer", c>> \notin MayBeNull
  /\ \A c : <<"Zone", c>> \in MayBeNull => c = "currentPlaylist"
<1> DEFINE Added == UNION {m.columns : m \in Deployed}
           Of(g) == UNION {{t} \X g[t] : t \in DOMAIN g}
<1>1. Added = {<<"Track", "folder">>, <<"User", "location">>}
  BY DEF Deployed, InitMigration, AddMusicFolders, AgentLinkAndZoneMapping, AddUserLocation,
         AddEqPresets
<1>2. ASSUME NEW x \in MayBeNull, x \notin Added
      PROVE  \E g \in Groups : x \in Of(g)
  BY <1>2 DEF MayBeNull
<1>3. ASSUME NEW t, NEW c, NEW g \in Groups, <<t, c>> \in Of(g)
      PROVE  t \in DOMAIN g /\ c \in g[t]
  BY <1>3
<1>4. ASSUME NEW t \in {"Location", "MusicServer", "Zone"}, NEW c, <<t, c>> \in MayBeNull
      PROVE  t = "Zone" /\ c = "currentPlaylist"
  <2>1. <<t, c>> \notin Added
    BY <1>1
  <2>2. PICK g \in Groups : <<t, c>> \in Of(g)
    BY <1>2, <1>4, <2>1
  <2>3. t \in DOMAIN g /\ c \in g[t]
    BY <1>3, <2>2
  <2> QED
    BY <2>3, GroupsAre DEF InitAccounts, InitMusic, InitRecords
<1> QED
  BY <1>4

\* What the references of an accepted row name is there.
LEMMA AcceptedRow ==
  ASSUME NEW db, NEW columns
  PROVE  /\ Accepts(db, "User", columns) =>
              columns.location = Null \/ columns.location \in Rows(db, "Location")
         /\ Accepts(db, "Location", columns) =>
              columns.organization \in Rows(db, "Organization")
         /\ Accepts(db, "MusicServer", columns) => columns.location \in Rows(db, "Location")
         /\ Accepts(db, "Zone", columns) => /\ columns.server \in Rows(db, "MusicServer")
                                            /\ columns.location \in Rows(db, "Location")
<1>1. ASSUME NEW t \in Owned, NEW k \in Enforced, k.table = t,
             \A j \in Enforced : j.table = t /\ j.column = k.column => j.to = k.to,
             Accepts(db, t, columns)
      PROVE  \/ columns[k.column] = Null /\ <<t, k.column>> \in MayBeNull
             \/ columns[k.column] \in Rows(db, k.to)
  <2>1. k.column \in DOMAIN References[t]
    BY <1>1, ReferencesAre
  <2>2. References[t][k.column].to = k.to
    BY <1>1, <2>1, ReferencesAre
  <2> QED
    BY <1>1, <2>1, <2>2 DEF Accepts
<1>2. Accepts(db, "User", columns) =>
        columns.location = Null \/ columns.location \in Rows(db, "Location")
  <2> DEFINE k == ForeignKey("User", "location", "Location", "SetNull")
  <2>1. k \in Enforced /\ k.table = "User" /\ k.column = "location" /\ k.to = "Location"
    BY OwnedKeysThere DEF ForeignKey
  <2>2. \A j \in Enforced : j.table = "User" /\ j.column = "location" => j.to = "Location"
    BY OwnedKeys DEF ForeignKey
  <2> HIDE DEF k
  <2> QED
    BY <1>1, <2>1, <2>2 DEF Owned
<1>3. Accepts(db, "Location", columns) => columns.organization \in Rows(db, "Organization")
  <2> DEFINE k == ForeignKey("Location", "organization", "Organization", "Cascade")
  <2>1. /\ k \in Enforced /\ k.table = "Location" /\ k.column = "organization"
        /\ k.to = "Organization"
    BY OwnedKeysThere DEF ForeignKey
  <2>2. \A j \in Enforced : j.table = "Location" => j.to = "Organization"
    BY OwnedKeys DEF ForeignKey
  <2> HIDE DEF k
  <2> QED
    BY <1>1, <2>1, <2>2, OwnedNull DEF Owned
<1>4. Accepts(db, "MusicServer", columns) => columns.location \in Rows(db, "Location")
  <2> DEFINE k == ForeignKey("MusicServer", "location", "Location", "Cascade")
  <2>1. k \in Enforced /\ k.table = "MusicServer" /\ k.column = "location" /\ k.to = "Location"
    BY OwnedKeysThere DEF ForeignKey
  <2>2. \A j \in Enforced : j.table = "MusicServer" /\ j.column = "location" => j.to = "Location"
    BY OwnedKeys DEF ForeignKey
  <2> HIDE DEF k
  <2> QED
    BY <1>1, <2>1, <2>2, OwnedNull DEF Owned
<1>5. Accepts(db, "Zone", columns) => columns.server \in Rows(db, "MusicServer")
  <2> DEFINE k == ForeignKey("Zone", "server", "MusicServer", "Cascade")
  <2>1. k \in Enforced /\ k.table = "Zone" /\ k.column = "server" /\ k.to = "MusicServer"
    BY OwnedKeysThere DEF ForeignKey
  <2>2. \A j \in Enforced : j.table = "Zone" /\ j.column = "server" => j.to = "MusicServer"
    BY OwnedKeys DEF ForeignKey
  <2> HIDE DEF k
  <2> QED
    BY <1>1, <2>1, <2>2, OwnedNull DEF Owned
<1>6. Accepts(db, "Zone", columns) => columns.location \in Rows(db, "Location")
  <2> DEFINE k == ForeignKey("Zone", "location", "Location", "Cascade")
  <2>1. k \in Enforced /\ k.table = "Zone" /\ k.column = "location" /\ k.to = "Location"
    BY OwnedKeysThere DEF ForeignKey
  <2>2. \A j \in Enforced : j.table = "Zone" /\ j.column = "location" => j.to = "Location"
    BY OwnedKeys DEF ForeignKey
  <2> HIDE DEF k
  <2> QED
    BY <1>1, <2>1, <2>2, OwnedNull DEF Owned
<1> QED
  BY <1>2, <1>3, <1>4, <1>5, <1>6

-----------------------------------------------------------------------------
(* Databases whose rows name one tenant                                    *)

IsPair(x) == \E p, q : x = <<p, q>>

\* The keys that the rows of a table may have.
KeysOf(t) == Rows(Seed, t) \cup (IF t \in DOMAIN Keys THEN Keys[t] ELSE {})

\* A track in a playlist has the key of both, and nothing else has such a key.
PairsAreTracks ==
  /\ \A x \in DOMAIN Seed : IsPair(x) <=> Seed[x].table = "PlaylistTrack"
  /\ \A t \in DOMAIN Keys : \A x \in Keys[t] : ~ IsPair(x)
  /\ ~ IsPair(New) /\ ~ IsPair(Null)

\* Keys tell rows and tables apart.
KeysTellApart ==
  /\ IsFiniteSet(DOMAIN Seed)
  /\ \A x \in DOMAIN Seed : DOMAIN Seed[x] = {"table", "columns"}
  /\ DOMAIN Keys = {"User", "Organization", "Location", "MusicServer", "Zone", "Playlist",
                    "PlaylistAssignment", "Schedule", "Track", "MusicFolder"}
  /\ \A t \in DOMAIN Keys : \A x \in Keys[t] :
       x \notin DOMAIN Seed /\ x # Null /\ x # New /\ ~ IsPair(x)
  /\ \A t, u \in DOMAIN Keys : t # u => Keys[t] \cap Keys[u] = {}
  /\ \A x \in DOMAIN Seed : x # Null /\ (IsPair(x) <=> Seed[x].table = "PlaylistTrack")
  /\ New \notin DOMAIN Seed /\ ~ IsPair(New) /\ ~ IsPair(Null)

LEMMA KeysDiffer ==
  ASSUME PairsAreTracks
  PROVE  KeysTellApart
BY SeedRows, KeysApart DEF PairsAreTracks, KeysTellApart

KeyOK(t, x, given) == IF t = "PlaylistTrack" THEN IsPair(x) ELSE x \in KeysOf(t) /\ x \in given

UserOK(db, lost, u) ==
  LET c == db[u].columns IN
  /\ {"role", "organization", "location"} \subseteq DOMAIN c
  /\ c.location # Null => /\ c.location \in Rows(db, "Location")
                          /\ c.organization = db[c.location].columns.organization
  /\ c.role \in LOCATION_BOUND /\ u \notin lost => c.location # Null
  /\ c.role = "SUPER_ADMIN" => c.organization = Null /\ c.location = Null

LocationOK(db, l) ==
  LET c == db[l].columns IN
  "organization" \in DOMAIN c /\ c.organization \in Rows(db, "Organization")

ServerOK(db, s) ==
  LET c == db[s].columns IN
  /\ {"organization", "location"} \subseteq DOMAIN c
  /\ c.location \in Rows(db, "Location")
  /\ c.organization = db[c.location].columns.organization

ZoneOK(db, z) ==
  LET c == db[z].columns IN
  /\ {"server", "location"} \subseteq DOMAIN c
  /\ c.server \in Rows(db, "MusicServer")
  /\ c.location = db[c.server].columns.location

\* Rows have their tables' keys, name rows that are there, and agree on whose they are.
DbOK(db, given, lost) ==
  /\ IsFiniteSet(DOMAIN db)
  /\ \A x \in DOMAIN db : DOMAIN db[x] = {"table", "columns"} /\ KeyOK(db[x].table, x, given)
  /\ \A u \in Rows(db, "User") : UserOK(db, lost, u)
  /\ \A l \in Rows(db, "Location") : LocationOK(db, l)
  /\ \A s \in Rows(db, "MusicServer") : ServerOK(db, s)
  /\ \A z \in Rows(db, "Zone") : ZoneOK(db, z)

\* A key of a table is no key of another.
LEMMA OneTable ==
  ASSUME KeysTellApart, NEW t \in DOMAIN Keys, NEW u, NEW x \in KeysOf(t), x \in KeysOf(u)
  PROVE  t = u
BY DEF KeysTellApart, KeysOf, Rows

LEMMA KeysOfTypes ==
  ASSUME KeysTellApart, NEW t, t # "PlaylistTrack", NEW x \in KeysOf(t)
  PROVE  ~ IsPair(x) /\ x # Null
BY DEF KeysTellApart, KeysOf, Rows

\* The row with a key of a table is of that table.
LEMMA TableOfKey ==
  ASSUME KeysTellApart, NEW db, NEW given, NEW lost, DbOK(db, given, lost),
         NEW t \in DOMAIN Keys, NEW x \in DOMAIN db, x \in KeysOf(t)
  PROVE  db[x].table = t
<1>1. t # "PlaylistTrack" /\ ~ IsPair(x)
  BY KeysOfTypes DEF KeysTellApart
<1>2. x \in KeysOf(db[x].table)
  BY <1>1 DEF DbOK, KeyOK
<1> QED
  BY <1>2, OneTable

\* The row of a track in a playlist.
LEMMA TableOfPair ==
  ASSUME KeysTellApart, NEW db, NEW given, NEW lost, DbOK(db, given, lost),
         NEW x \in DOMAIN db, IsPair(x)
  PROVE  db[x].table = "PlaylistTrack"
<1>1. db[x].table # "PlaylistTrack" => x \in KeysOf(db[x].table)
  BY DEF DbOK, KeyOK
<1> QED
  BY <1>1, KeysOfTypes

\* Columns that say whose a row is.
Marks == {"role", "organization", "location", "server"}

SameTenant(r, t) ==
  /\ t.table = r.table /\ DOMAIN t.columns = DOMAIN r.columns
  /\ \A c \in Marks : c \in DOMAIN r.columns => t.columns[c] = r.columns[c]

\* A write to anything else.
LEMMA OtherWrite ==
  ASSUME NEW db, NEW given, NEW lost, DbOK(db, given, lost), NEW later, NEW now, given \subseteq now,
         IsFiniteSet(DOMAIN later),
         \A x \in DOMAIN later : /\ DOMAIN later[x] = {"table", "columns"}
                                 /\ KeyOK(later[x].table, x, now),
         \A x \in DOMAIN db : db[x].table \in Owned \cup {"Organization"} =>
           x \in DOMAIN later /\ SameTenant(db[x], later[x]),
         \A x \in DOMAIN later : later[x].table \in Owned =>
           x \in DOMAIN db /\ db[x].table = later[x].table
  PROVE  DbOK(later, now, lost)
<1>1. \A t \in Owned \cup {"Organization"} : \A x \in Rows(db, t) :
        x \in Rows(later, t) /\ SameTenant(db[x], later[x])
  BY DEF Rows, SameTenant
<1>2. \A t \in Owned : \A x \in Rows(later, t) :
        x \in Rows(db, t) /\ SameTenant(db[x], later[x])
  BY DEF Rows
<1>3. \A u \in Rows(later, "User") : UserOK(later, lost, u)
  <2> SUFFICES ASSUME NEW u \in Rows(later, "User")
               PROVE  UserOK(later, lost, u)
    OBVIOUS
  <2>1. u \in Rows(db, "User") /\ SameTenant(db[u], later[u]) /\ UserOK(db, lost, u)
    BY <1>2 DEF Owned, DbOK
  <2>2. /\ {"role", "organization", "location"} \subseteq DOMAIN later[u].columns
        /\ later[u].columns.role = db[u].columns.role
        /\ later[u].columns.organization = db[u].columns.organization
        /\ later[u].columns.location = db[u].columns.location
    BY <2>1 DEF UserOK, SameTenant, Marks
  <2>3. ASSUME db[u].columns.location # Null
        PROVE  /\ db[u].columns.location \in Rows(later, "Location")
               /\ later[db[u].columns.location].columns.organization
                    = db[db[u].columns.location].columns.organization
    <3> DEFINE l == db[u].columns.location
    <3>1. l \in Rows(db, "Location") /\ LocationOK(db, l)
      BY <2>1, <2>3 DEF UserOK, DbOK
    <3>2. l \in Rows(later, "Location") /\ SameTenant(db[l], later[l])
      BY <1>1, <3>1 DEF Owned
    <3> QED
      BY <3>1, <3>2 DEF LocationOK, SameTenant, Marks
  <2> QED
    BY <2>1, <2>2, <2>3 DEF UserOK
<1>4. \A l \in Rows(later, "Location") : LocationOK(later, l)
  <2> SUFFICES ASSUME NEW l \in Rows(later, "Location")
               PROVE  LocationOK(later, l)
    OBVIOUS
  <2>1. l \in Rows(db, "Location") /\ SameTenant(db[l], later[l]) /\ LocationOK(db, l)
    BY <1>2 DEF Owned, DbOK
  <2> QED
    BY <1>1, <2>1 DEF LocationOK, SameTenant, Marks
<1>5. \A s \in Rows(later, "MusicServer") : ServerOK(later, s)
  <2> SUFFICES ASSUME NEW s \in Rows(later, "MusicServer")
               PROVE  ServerOK(later, s)
    OBVIOUS
  <2>1. s \in Rows(db, "MusicServer") /\ SameTenant(db[s], later[s]) /\ ServerOK(db, s)
    BY <1>2 DEF Owned, DbOK
  <2> DEFINE l == db[s].columns.location
  <2>2. l \in Rows(db, "Location") /\ LocationOK(db, l)
    BY <2>1 DEF ServerOK, DbOK
  <2>3. l \in Rows(later, "Location") /\ SameTenant(db[l], later[l])
    BY <1>1, <2>2 DEF Owned
  <2>4. later[l].columns.organization = db[l].columns.organization
    BY <2>2, <2>3 DEF LocationOK, SameTenant, Marks
  <2>5. /\ {"organization", "location"} \subseteq DOMAIN later[s].columns
        /\ later[s].columns.organization = db[s].columns.organization
        /\ later[s].columns.location = l
    BY <2>1 DEF ServerOK, SameTenant, Marks
  <2> HIDE DEF l
  <2> QED
    BY <2>1, <2>3, <2>4, <2>5 DEF ServerOK, l
<1>6. \A z \in Rows(later, "Zone") : ZoneOK(later, z)
  <2> SUFFICES ASSUME NEW z \in Rows(later, "Zone")
               PROVE  ZoneOK(later, z)
    OBVIOUS
  <2>1. z \in Rows(db, "Zone") /\ SameTenant(db[z], later[z]) /\ ZoneOK(db, z)
    BY <1>2 DEF Owned, DbOK
  <2> DEFINE s == db[z].columns.server
  <2>2. s \in Rows(db, "MusicServer") /\ ServerOK(db, s)
    BY <2>1 DEF ZoneOK, DbOK
  <2>3. s \in Rows(later, "MusicServer") /\ SameTenant(db[s], later[s])
    BY <1>1, <2>2 DEF Owned
  <2>4. later[s].columns.location = db[s].columns.location
    BY <2>2, <2>3 DEF ServerOK, SameTenant, Marks
  <2>5. /\ {"server", "location"} \subseteq DOMAIN later[z].columns
        /\ later[z].columns.location = db[z].columns.location
        /\ later[z].columns.server = s
    BY <2>1 DEF ZoneOK, SameTenant, Marks
  <2> HIDE DEF s
  <2> QED
    BY <2>1, <2>3, <2>4, <2>5 DEF ZoneOK, s
<1> QED
  BY <1>3, <1>4, <1>5, <1>6 DEF DbOK

-----------------------------------------------------------------------------
(* Deletions                                                               *)

\* What is left of a database without some rows, row by row.
IsLeft(db, gone, later) ==
  /\ DOMAIN later = DOMAIN db \ gone
  /\ \A x \in DOMAIN db \ gone :
       /\ DOMAIN later[x] = {"table", "columns"}
       /\ later[x].table = db[x].table
       /\ DOMAIN later[x].columns = DOMAIN db[x].columns
       /\ \A c \in DOMAIN db[x].columns :
            later[x].columns[c] =
              IF c \in DOMAIN References[db[x].table] /\ db[x].columns[c] \in gone THEN Null
              ELSE db[x].columns[c]

LEMMA DeletedAre ==
  ASSUME NEW db, NEW X, \A x \in DOMAIN db : DOMAIN db[x] = {"table", "columns"}
  PROVE  IsLeft(db, Doomed(db, X), Deleted(db, X))
<1> DEFINE gone == Doomed(db, X)
           Emptied(x) ==
             [c \in DOMAIN db[x].columns |->
                IF c \in DOMAIN References[db[x].table] /\ db[x].columns[c] \in gone THEN Null
                ELSE db[x].columns[c]]
<1>1. Deleted(db, X) = [x \in DOMAIN db \ gone |-> [db[x] EXCEPT !.columns = Emptied(x)]]
  BY DEF Deleted
<1>2. ASSUME NEW x \in DOMAIN db \ gone
      PROVE  /\ DOMAIN Deleted(db, X)[x] = {"table", "columns"}
             /\ Deleted(db, X)[x].table = db[x].table
             /\ Deleted(db, X)[x].columns = Emptied(x)
  <2>1. Deleted(db, X)[x] = [db[x] EXCEPT !.columns = Emptied(x)]
    BY <1>1
  <2>2. DOMAIN db[x] = {"table", "columns"}
    OBVIOUS
  <2> HIDE DEF Emptied
  <2> QED
    BY <2>1, <2>2
<1> QED
  BY <1>1, <1>2 DEF IsLeft

\* A row that stays does not depend on one that goes.
LEMMA Stays ==
  ASSUME NEW db, NEW gone, Closed(db, gone), NEW x \in DOMAIN db, x \notin gone,
         NEW k \in Enforced, k.rule = "Cascade", k.table = db[x].table
  PROVE  db[x].columns[k.column] \notin gone
BY DEF Closed, GoesWith

LEMMA OwnedStay ==
  ASSUME NEW db, NEW gone, Closed(db, gone), NEW x \in DOMAIN db, x \notin gone
  PROVE  /\ db[x].table = "Location" => db[x].columns.organization \notin gone
         /\ db[x].table = "MusicServer" => /\ db[x].columns.organization \notin gone
                                           /\ db[x].columns.location \notin gone
         /\ db[x].table = "Zone" => /\ db[x].columns.server \notin gone
                                    /\ db[x].columns.location \notin gone
<1>1. ASSUME NEW table, NEW column, NEW to, db[x].table = table,
             ForeignKey(table, column, to, "Cascade") \in Enforced
      PROVE  db[x].columns[column] \notin gone
  <2> DEFINE k == ForeignKey(table, column, to, "Cascade")
  <2>1. k.table = table /\ k.column = column /\ k.rule = "Cascade"
    BY DEF ForeignKey
  <2> HIDE DEF k
  <2> QED
    BY <1>1, <2>1, Stays DEF k
<1> QED
  BY <1>1, OwnedKeysThere

LEMMA UserReferences == DOMAIN References["User"] = {"organization", "location"}
<1>1. \A k \in Enforced : k.table = "User" => k.column \in {"organization", "location"}
  BY OwnedKeys DEF ForeignKey
<1>2. /\ \E k \in Enforced : k.table = "User" /\ k.column = "organization"
      /\ \E k \in Enforced : k.table = "User" /\ k.column = "location"
  BY OwnedKeysThere DEF ForeignKey
<1>3. DOMAIN References["User"] = {k.column : k \in {j \in Enforced : j.table = "User"}}
  BY ReferencesAre DEF Owned
<1> QED
  BY <1>1, <1>2, <1>3

\* What is left agrees: a user whose location went has none.
LEMMA DeleteWrite ==
  ASSUME KeysTellApart, NEW db, NEW given, NEW lost, DbOK(db, given, lost), NEW X, NEW gone,
         gone = Doomed(db, X)
  PROVE  /\ DbOK(Deleted(db, X), given,
                 (lost \cup {u \in Rows(db, "User") : db[u].columns.location \in gone}) \ gone)
         /\ \A l \in Rows(Deleted(db, X), "Location") :
              /\ l \in Rows(db, "Location")
              /\ Deleted(db, X)[l].columns.organization = db[l].columns.organization
         /\ \A s \in Rows(Deleted(db, X), "MusicServer") :
              /\ s \in Rows(db, "MusicServer")
              /\ Deleted(db, X)[s].columns.location = db[s].columns.location
<1> DEFINE later == Deleted(db, X)
           bare == (lost \cup {u \in Rows(db, "User") : db[u].columns.location \in gone}) \ gone
<1>1. Closed(db, gone) /\ \A x \in DOMAIN db : DOMAIN db[x] = {"table", "columns"}
  BY DoomedLeast DEF DbOK
<1>2. IsLeft(db, gone, later)
  BY <1>1, DeletedAre
<1> HIDE DEF later
<1>3. \A t : \A x \in Rows(later, t) : x \in Rows(db, t) /\ x \notin gone
  BY <1>2 DEF Rows, IsLeft
<1>4. \A t : \A x \in Rows(db, t) : x \notin gone => x \in Rows(later, t)
  BY <1>2 DEF Rows, IsLeft
<1>5. ASSUME NEW l \in Rows(later, "Location")
      PROVE  /\ l \in Rows(db, "Location") /\ LocationOK(db, l)
             /\ DOMAIN later[l].columns = DOMAIN db[l].columns
             /\ later[l].columns.organization = db[l].columns.organization
             /\ db[l].columns.organization \notin gone
  <2>1. l \in Rows(db, "Location") /\ l \in DOMAIN db \ gone /\ LocationOK(db, l)
    BY <1>3 DEF DbOK, Rows
  <2>2. db[l].columns.organization \notin gone
    BY <1>1, <2>1, OwnedStay DEF Rows
  <2> QED
    BY <1>2, <2>1, <2>2 DEF LocationOK, IsLeft
<1>6. ASSUME NEW s \in Rows(later, "MusicServer")
      PROVE  /\ s \in Rows(db, "MusicServer") /\ ServerOK(db, s)
             /\ DOMAIN later[s].columns = DOMAIN db[s].columns
             /\ later[s].columns.organization = db[s].columns.organization
             /\ later[s].columns.location = db[s].columns.location
             /\ db[s].columns.location \notin gone
  <2>1. s \in Rows(db, "MusicServer") /\ s \in DOMAIN db \ gone /\ ServerOK(db, s)
    BY <1>3 DEF DbOK, Rows
  <2>2. db[s].columns.organization \notin gone /\ db[s].columns.location \notin gone
    BY <1>1, <2>1, OwnedStay DEF Rows
  <2> QED
    BY <1>2, <2>1, <2>2 DEF ServerOK, IsLeft
<1>7. \A x \in DOMAIN later : DOMAIN later[x] = {"table", "columns"} /\ KeyOK(later[x].table, x, given)
  BY <1>2 DEF DbOK, IsLeft
<1>8. IsFiniteSet(DOMAIN later)
  BY <1>2, FS_Subset DEF DbOK, IsLeft
<1>9. \A l \in Rows(later, "Location") : LocationOK(later, l)
  BY <1>4, <1>5 DEF LocationOK
<1>10. \A s \in Rows(later, "MusicServer") : ServerOK(later, s)
  <2> SUFFICES ASSUME NEW s \in Rows(later, "MusicServer")
               PROVE  ServerOK(later, s)
    OBVIOUS
  <2>1. db[s].columns.location \in Rows(later, "Location")
    BY <1>4, <1>6 DEF ServerOK
  <2> QED
    BY <1>5, <1>6, <2>1 DEF ServerOK
<1>11. \A z \in Rows(later, "Zone") : ZoneOK(later, z)
  <2> SUFFICES ASSUME NEW z \in Rows(later, "Zone")
               PROVE  ZoneOK(later, z)
    OBVIOUS
  <2>1. z \in Rows(db, "Zone") /\ z \in DOMAIN db \ gone /\ ZoneOK(db, z)
    BY <1>3 DEF DbOK, Rows
  <2>2. db[z].columns.server \notin gone /\ db[z].columns.location \notin gone
    BY <1>1, <2>1, OwnedStay DEF Rows
  <2>3. /\ DOMAIN later[z].columns = DOMAIN db[z].columns
        /\ later[z].columns.server = db[z].columns.server
        /\ later[z].columns.location = db[z].columns.location
    BY <1>2, <2>1, <2>2 DEF ZoneOK, IsLeft
  <2>4. db[z].columns.server \in Rows(later, "MusicServer")
    BY <1>4, <2>1, <2>2 DEF ZoneOK
  <2> QED
    BY <1>6, <2>1, <2>3, <2>4 DEF ZoneOK
<1>12. \A u \in Rows(later, "User") : UserOK(later, bare, u)
  <2> SUFFICES ASSUME NEW u \in Rows(later, "User")
               PROVE  UserOK(later, bare, u)
    OBVIOUS
  <2>1. u \in Rows(db, "User") /\ u \in DOMAIN db \ gone /\ UserOK(db, lost, u)
    BY <1>3 DEF DbOK, Rows
  <2> DEFINE c == db[u].columns
             d == later[u].columns
  <2>2. /\ {"role", "organization", "location"} \subseteq DOMAIN d
        /\ d.role = c.role
        /\ d.organization = IF c.organization \in gone THEN Null ELSE c.organization
        /\ d.location = IF c.location \in gone THEN Null ELSE c.location
    BY <1>2, <2>1, UserReferences DEF UserOK, Rows, IsLeft
  <2>3. /\ c.location # Null => /\ c.location \in Rows(db, "Location")
                                /\ c.organization = db[c.location].columns.organization
        /\ c.role \in LOCATION_BOUND /\ u \notin lost => c.location # Null
        /\ c.role = "SUPER_ADMIN" => c.organization = Null /\ c.location = Null
    BY <2>1 DEF UserOK
  <2> HIDE DEF c, d
  <2>4. ASSUME d.location # Null
        PROVE  d.location \in Rows(later, "Location") /\ d.organization = later[d.location].columns.organization
    <3>1. d.location = c.location /\ c.location \notin gone
      BY <2>2, <2>4
    <3>2. c.location \in Rows(later, "Location")
      BY <1>4, <2>3, <2>4, <3>1
    <3>3. /\ later[c.location].columns.organization = db[c.location].columns.organization
          /\ db[c.location].columns.organization \notin gone
      BY <1>5, <3>2
    <3> QED
      BY <2>2, <2>3, <2>4, <3>1, <3>2, <3>3
  <2>5. ASSUME d.role \in LOCATION_BOUND, u \notin bare
        PROVE  d.location # Null
    <3>1. u \notin lost /\ c.location \notin gone
      BY <2>1, <2>5 DEF c
    <3> QED
      BY <2>2, <2>3, <2>5, <3>1
  <2>6. d.role = "SUPER_ADMIN" => d.organization = Null /\ d.location = Null
    BY <2>2, <2>3
  <2> QED
    BY <2>2, <2>4, <2>5, <2>6 DEF UserOK, d
<1> HIDE DEF bare
<1>13. DbOK(later, given, bare)
  BY <1>7, <1>8, <1>9, <1>10, <1>11, <1>12 DEF DbOK
<1> QED
  BY <1>5, <1>6, <1>13 DEF later, bare

\* Users who lost their location are excused.
LEMMA MoreLost ==
  ASSUME NEW db, NEW given, NEW lost, DbOK(db, given, lost), NEW more,
         \A u \in Rows(db, "User") : u \in lost => u \in more
  PROVE  DbOK(db, given, more)
<1>1. \A u \in Rows(db, "User") : UserOK(db, more, u)
  BY DEF DbOK, UserOK
<1> QED
  BY <1>1 DEF DbOK

\* No location goes with the tracks of a playlist.
LEMMA TracksGoAlone ==
  ASSUME KeysTellApart, NEW db, NEW given, NEW lost, DbOK(db, given, lost), NEW X,
         \A x \in X : x \in DOMAIN db /\ db[x].table = "PlaylistTrack"
  PROVE  DbOK(Deleted(db, X), given, lost)
<1> DEFINE S == DOMAIN db \ (Rows(db, "Location") \cup Rows(db, "Organization"))
           gone == Doomed(db, X)
<1>1. X \subseteq S
  BY DEF Rows
<1>2. Closed(db, S)
  <2> SUFFICES ASSUME NEW x \in DOMAIN db, GoesWith(db, x, S), x \notin S
               PROVE  FALSE
    BY DEF Closed
  <2>1. PICK k \in Enforced : k.table = db[x].table /\ db[x].columns[k.column] \in S
    BY DEF GoesWith
  <2>2. db[x].table = "Location"
    BY <2>1, OwnedKeys DEF Rows
  <2>3. k.column = "organization"
    BY <2>1, <2>2, OwnedKeys DEF ForeignKey
  <2>4. db[x].columns.organization \in Rows(db, "Organization")
    BY <2>2 DEF DbOK, LocationOK, Rows
  <2> QED
    BY <2>1, <2>3, <2>4
<1>3. gone \subseteq S
  BY <1>1, <1>2, DoomedLeast DEF DbOK
<1> HIDE DEF S, gone
<1>4. \A u \in Rows(db, "User") : db[u].columns.location \notin gone
  <2> SUFFICES ASSUME NEW u \in Rows(db, "User"), db[u].columns.location \in gone
               PROVE  FALSE
    OBVIOUS
  <2>1. db[u].columns.location \in DOMAIN db /\ db[u].columns.location \notin Rows(db, "Location")
    BY <1>3 DEF S
  <2>2. db[u].columns.location = Null
    BY <2>1 DEF DbOK, UserOK
  <2>3. KeyOK(db[Null].table, Null, given)
    BY <2>1, <2>2 DEF DbOK
  <2>4. ~ IsPair(Null)
    BY DEF KeysTellApart
  <2> QED
    BY <2>3, <2>4, KeysOfTypes DEF KeyOK
<1>5. DbOK(Deleted(db, X), given,
           (lost \cup {u \in Rows(db, "User") : db[u].columns.location \in gone}) \ gone)
  BY DeleteWrite DEF gone
<1> HIDE DEF DbOK
<1> QED
  BY <1>4, <1>5, MoreLost

-----------------------------------------------------------------------------
(* Rows that are created and updated                                       *)

\* A database with some columns of one row written.
IsUpdated(db, x, columns, later) ==
  /\ DOMAIN later = DOMAIN db
  /\ \A y \in DOMAIN db : y # x => later[y] = db[y]
  /\ DOMAIN later[x] = {"table", "columns"}
  /\ later[x].table = db[x].table
  /\ DOMAIN later[x].columns = DOMAIN db[x].columns
  /\ \A c \in DOMAIN db[x].columns :
       later[x].columns[c] = IF c \in DOMAIN columns THEN columns[c] ELSE db[x].columns[c]

LEMMA UpdatedAre ==
  ASSUME NEW db, NEW x \in DOMAIN db, DOMAIN db[x] = {"table", "columns"}, NEW columns
  PROVE  IsUpdated(db, x, columns, Updated(db, x, columns))
<1> DEFINE new == [c \in DOMAIN db[x].columns |->
                     IF c \in DOMAIN columns THEN columns[c] ELSE db[x].columns[c]]
           row == [db[x] EXCEPT !.columns = new]
<1>1. Updated(db, x, columns) = [db EXCEPT ![x] = row]
  BY DEF Updated
<1>2. DOMAIN row = {"table", "columns"} /\ row.table = db[x].table /\ row.columns = new
  <2> HIDE DEF new
  <2> QED
    OBVIOUS
<1>3. DOMAIN new = DOMAIN db[x].columns
      /\ \A c \in DOMAIN db[x].columns :
           new[c] = IF c \in DOMAIN columns THEN columns[c] ELSE db[x].columns[c]
  OBVIOUS
<1> HIDE DEF row, new
<1>4. /\ DOMAIN Updated(db, x, columns) = DOMAIN db
      /\ \A y \in DOMAIN db : y # x => Updated(db, x, columns)[y] = db[y]
      /\ Updated(db, x, columns)[x] = row
  BY <1>1
<1> QED
  BY <1>2, <1>3, <1>4 DEF IsUpdated

\* One row is written that no other refers to: a new one, or a user.
LEMMA OneWrite ==
  ASSUME NEW db, NEW given, NEW lost, DbOK(db, given, lost), NEW later, NEW now, given \subseteq now,
         NEW x, NEW t, NEW more, x \notin DOMAIN db \/ (x \in Rows(db, "User") /\ t = "User"),
         DOMAIN later = DOMAIN db \cup {x}, \A y \in DOMAIN db : y # x => later[y] = db[y],
         DOMAIN later[x] = {"table", "columns"}, later[x].table = t, KeyOK(t, x, now),
         t = "User" => UserOK(later, more, x),
         t = "Location" => LocationOK(later, x),
         t = "MusicServer" => ServerOK(later, x),
         t = "Zone" => ZoneOK(later, x),
         \A u \in lost : u # x => u \in more
  PROVE  DbOK(later, now, more)
<1>1. \A u : \A y \in Rows(db, u) : y # x => y \in Rows(later, u) /\ later[y] = db[y]
  BY DEF Rows
<1>2. \A u : \A y \in Rows(later, u) : y # x => y \in Rows(db, u) /\ later[y] = db[y]
  BY DEF Rows
<1>3. \A u \in Rows(later, "User") : UserOK(later, more, u)
  <2> SUFFICES ASSUME NEW u \in Rows(later, "User"), u # x
               PROVE  UserOK(later, more, u)
    BY DEF Rows
  <2>1. u \in Rows(db, "User") /\ later[u] = db[u] /\ UserOK(db, lost, u)
    BY <1>2 DEF DbOK
  <2>2. ASSUME db[u].columns.location # Null
        PROVE  /\ db[u].columns.location \in Rows(later, "Location")
               /\ later[db[u].columns.location] = db[db[u].columns.location]
    <3>1. db[u].columns.location \in Rows(db, "Location")
      BY <2>1, <2>2 DEF UserOK
    <3>2. db[u].columns.location # x
      BY <3>1 DEF Rows
    <3> QED
      BY <1>1, <3>1, <3>2
  <2> QED
    BY <2>1, <2>2 DEF UserOK
<1>4. \A l \in Rows(later, "Location") : LocationOK(later, l)
  <2> SUFFICES ASSUME NEW l \in Rows(later, "Location"), l # x
               PROVE  LocationOK(later, l)
    BY DEF Rows
  <2>1. l \in Rows(db, "Location") /\ later[l] = db[l] /\ LocationOK(db, l)
    BY <1>2 DEF DbOK
  <2>2. db[l].columns.organization \in Rows(db, "Organization") /\ db[l].columns.organization # x
    BY <2>1 DEF LocationOK, Rows
  <2> QED
    BY <1>1, <2>1, <2>2 DEF LocationOK
<1>5. \A s \in Rows(later, "MusicServer") : ServerOK(later, s)
  <2> SUFFICES ASSUME NEW s \in Rows(later, "MusicServer"), s # x
               PROVE  ServerOK(later, s)
    BY DEF Rows
  <2>1. s \in Rows(db, "MusicServer") /\ later[s] = db[s] /\ ServerOK(db, s)
    BY <1>2 DEF DbOK
  <2>2. db[s].columns.location \in Rows(db, "Location") /\ db[s].columns.location # x
    BY <2>1 DEF ServerOK, Rows
  <2> QED
    BY <1>1, <2>1, <2>2 DEF ServerOK
<1>6. \A z \in Rows(later, "Zone") : ZoneOK(later, z)
  <2> SUFFICES ASSUME NEW z \in Rows(later, "Zone"), z # x
               PROVE  ZoneOK(later, z)
    BY DEF Rows
  <2>1. z \in Rows(db, "Zone") /\ later[z] = db[z] /\ ZoneOK(db, z)
    BY <1>2 DEF DbOK
  <2>2. db[z].columns.server \in Rows(db, "MusicServer") /\ db[z].columns.server # x
    BY <2>1 DEF ZoneOK, Rows
  <2> QED
    BY <1>1, <2>1, <2>2 DEF ZoneOK
<1>7. \A y \in DOMAIN later : DOMAIN later[y] = {"table", "columns"} /\ KeyOK(later[y].table, y, now)
  <2> SUFFICES ASSUME NEW y \in DOMAIN db, y # x
               PROVE  DOMAIN later[y] = {"table", "columns"} /\ KeyOK(later[y].table, y, now)
    OBVIOUS
  <2> QED
    BY DEF DbOK, KeyOK
<1>8. IsFiniteSet(DOMAIN later)
  BY FS_AddElement DEF DbOK
<1> QED
  BY <1>3, <1>4, <1>5, <1>6, <1>7, <1>8 DEF DbOK

-----------------------------------------------------------------------------
(* Requests under way                                                      *)

\* Keys that are given to rows already, or were.
GivenKeys == DOMAIN Seed \cup used

IsStatement(s) == DOMAIN s = {"op", "table", "key", "columns"}

\* What a user is about to get: a location that is there still has the same organization.
UserFits(db, given, c) ==
  /\ DOMAIN c = {"role", "organization", "location"}
  /\ c.location # Null =>
       /\ c.location \in given
       /\ c.location \in Rows(db, "Location") =>
            c.organization = db[c.location].columns.organization
  /\ c.role \in LOCATION_BOUND => c.location # Null
  /\ c.role = "SUPER_ADMIN" => c.organization = Null /\ c.location = Null

ServerFits(db, given, c) ==
  /\ {"organization", "location"} \subseteq DOMAIN c
  /\ c.location \in given
  /\ c.location \in Rows(db, "Location") => c.organization = db[c.location].columns.organization

ZoneFits(db, given, c) ==
  /\ {"server", "location"} \subseteq DOMAIN c
  /\ c.server \in given
  /\ c.server \in Rows(db, "MusicServer") => c.location = db[c.server].columns.location

\* A statement that says whose a row is, and is all that its request has yet to run.
Alone(db, given, s) ==
  \/ s.op = "scope" /\ s.key \in KeysOf("User") /\ s.columns.role \in Roles
  \/ /\ s.table = "User" /\ UserFits(db, given, s.columns)
     /\ \/ s.op = "create" /\ s.key = New
        \/ s.op = "update" /\ s.key \in KeysOf("User")
  \/ /\ s.op = "create" /\ s.key = New
     /\ \/ s.table = "Location" /\ "organization" \in DOMAIN s.columns
        \/ s.table = "MusicServer" /\ ServerFits(db, given, s.columns)
        \/ s.table = "Zone" /\ ZoneFits(db, given, s.columns)

\* A statement that does not.
Plain(given, s) ==
  /\ s.op # "scope"
  /\ s.op = "create" => \/ s.key = New /\ s.table \in DOMAIN Keys \ Owned
                        \/ s.table = "Track" /\ s.key \in KeysOf("Track") \cap given
                        \/ s.table = "PlaylistTrack" /\ IsPair(s.key)
  /\ s.op = "update" => /\ s.table # "User" /\ DOMAIN s.columns \cap Marks = {}
                        /\ s.table = "Schedule" => s.key \in KeysOf("Schedule")
  /\ s.op = "clear" => IsPair(s.key)
  /\ s.op = "replace" => IsFiniteSet(DOMAIN s.columns)

\* What a request may have left when s has run.
After(given, s, rest) ==
  \/ rest = <<>>
  \/ \E t : /\ rest = <<t>> /\ IsStatement(t) /\ Plain(given, t)
            /\ t.op = "create" => s.op = "file" /\ t.table = "Track"

JobOK(db, given, q) ==
  \/ q = <<>>
  \/ \E s : q = <<s>> /\ IsStatement(s) /\ (Alone(db, given, s) \/ Plain(given, s))
  \/ \E s, t : /\ q = <<s, t>> /\ IsStatement(s) /\ Plain(given, s)
               /\ After(given, s, <<t>>)

\* The invariant that is inductive.
RowsInv ==
  /\ DbOK(rows, GivenKeys, bereft)
  /\ DOMAIN job = Jobs
  /\ \A j \in Jobs : JobOK(rows, GivenKeys, job[j])

LEMMA NextStatement ==
  ASSUME NEW db, NEW given, NEW q, JobOK(db, given, q), q # <<>>
  PROVE  /\ IsStatement(Head(q))
         /\ \/ Alone(db, given, Head(q)) /\ Tail(q) = <<>>
            \/ Plain(given, Head(q))
         /\ After(given, Head(q), Tail(q))
<1>1. CASE \E s : q = <<s>> /\ IsStatement(s) /\ (Alone(db, given, s) \/ Plain(given, s))
  <2>1. PICK s : q = <<s>> /\ IsStatement(s) /\ (Alone(db, given, s) \/ Plain(given, s))
    BY <1>1
  <2>2. Head(q) = s /\ Tail(q) = <<>>
    BY <2>1
  <2> QED
    BY <2>1, <2>2 DEF After
<1>2. CASE \E s, t : /\ q = <<s, t>> /\ IsStatement(s) /\ Plain(given, s)
                     /\ After(given, s, <<t>>)
  <2>1. PICK s, t : /\ q = <<s, t>> /\ IsStatement(s) /\ Plain(given, s)
                    /\ After(given, s, <<t>>)
    BY <1>2
  <2>2. Head(q) = s /\ Tail(q) = <<t>>
    BY <2>1
  <2> QED
    BY <2>1, <2>2
<1> QED
  BY <1>1, <1>2 DEF JobOK

\* The rest of a request is a request.
LEMMA RestOK ==
  ASSUME NEW db, NEW given, NEW s, NEW rest, After(given, s, rest)
  PROVE  JobOK(db, given, rest)
BY DEF After, JobOK

\* Rows of locations and servers only go, and their owners do not change.
Evolves(db, given, later) ==
  /\ \A l \in Rows(later, "Location") : l \in given =>
       /\ l \in Rows(db, "Location")
       /\ later[l].columns.organization = db[l].columns.organization
  /\ \A s \in Rows(later, "MusicServer") : s \in given =>
       /\ s \in Rows(db, "MusicServer")
       /\ later[s].columns.location = db[s].columns.location

LEMMA AloneStays ==
  ASSUME NEW db, NEW given, NEW later, NEW now, given \subseteq now, Evolves(db, given, later),
         NEW s, Alone(db, given, s)
  PROVE  Alone(later, now, s)
<1>1. ASSUME NEW c, UserFits(db, given, c)
      PROVE  UserFits(later, now, c)
  BY <1>1 DEF UserFits, Evolves
<1>2. ASSUME NEW c, ServerFits(db, given, c)
      PROVE  ServerFits(later, now, c)
  BY <1>2 DEF ServerFits, Evolves
<1>3. ASSUME NEW c, ZoneFits(db, given, c)
      PROVE  ZoneFits(later, now, c)
  BY <1>3 DEF ZoneFits, Evolves
<1> QED
  BY <1>1, <1>2, <1>3 DEF Alone

LEMMA JobStays ==
  ASSUME NEW db, NEW given, NEW later, NEW now, given \subseteq now, Evolves(db, given, later),
         NEW q, JobOK(db, given, q)
  PROVE  JobOK(later, now, q)
<1>1. ASSUME NEW s, Plain(given, s)
      PROVE  Plain(now, s)
  BY <1>1 DEF Plain
<1>2. ASSUME NEW s, NEW rest, After(given, s, rest)
      PROVE  After(now, s, rest)
  BY <1>1, <1>2 DEF After
<1> QED
  BY <1>1, <1>2, AloneStays DEF JobOK

\* The rest of a request goes on with the key of the row it created.
LEMMA WithKeyOK ==
  ASSUME KeysTellApart, NEW db, NEW given, NEW s, NEW rest, After(given, s, rest), NEW x,
         s.op = "file" => x \in KeysOf("Track") \cap given
  PROVE  JobOK(db, given, WithKey(rest, x))
<1>1. CASE rest = <<>>
  <2>1. WithKey(rest, x) = <<>>
    BY <1>1 DEF WithKey
  <2> QED
    BY <2>1 DEF JobOK
<1>2. CASE rest # <<>>
  <2>1. PICK t : /\ rest = <<t>> /\ IsStatement(t) /\ Plain(given, t)
                 /\ t.op = "create" => s.op = "file" /\ t.table = "Track"
    BY <1>2 DEF After
  <2> DEFINE u == IF t.key = New /\ t.op # "ensure" THEN [t EXCEPT !.key = x] ELSE t
  <2>2. WithKey(rest, x) = <<u>>
    <3>1. DOMAIN rest = {1} /\ rest[1] = t
      BY <2>1
    <3>2. WithKey(rest, x) = [i \in {1} |-> u]
      BY <3>1 DEF WithKey
    <3> HIDE DEF u
    <3> QED
      BY <3>2
  <2>3. /\ IsStatement(u) /\ u.op = t.op /\ u.table = t.table /\ u.columns = t.columns
        /\ u.key = IF t.key = New /\ t.op # "ensure" THEN x ELSE t.key
    BY <2>1 DEF IsStatement
  <2> HIDE DEF u
  <2>4. Plain(given, u)
    <3>1. u.op = "create" => u.table = "Track" /\ x \in KeysOf("Track") \cap given
      BY <2>1, <2>3
    <3>2. u.op = "create" => \/ u.key = x
                             \/ u.key \in KeysOf("Track") \cap given
      BY <2>1, <2>3, <3>1 DEF Plain
    <3>3. u.op = "clear" => IsPair(u.key)
      BY <2>1, <2>3 DEF Plain, KeysTellApart
    <3>4. u.op = "update" /\ u.table = "Schedule" => u.key \in KeysOf("Schedule")
      <4>1. New \notin KeysOf("Schedule")
        BY DEF KeysTellApart, KeysOf, Rows
      <4> HIDE DEF KeysTellApart
      <4>2. t.op = "update" /\ t.table = "Schedule" => t.key \in KeysOf("Schedule")
        BY <2>1 DEF Plain
      <4> QED
        BY <2>3, <4>1, <4>2
    <3> QED
      BY <2>1, <2>3, <3>1, <3>2, <3>3, <3>4 DEF Plain
  <2> QED
    BY <2>2, <2>3, <2>4 DEF JobOK
<1> QED
  BY <1>1, <1>2

\* A request goes on with q.
LEMMA JobStep ==
  ASSUME RowsInv, NEW j \in Jobs, NEW q, job' = [job EXCEPT ![j] = q], used \subseteq used',
         DbOK(rows', GivenKeys', bereft'), Evolves(rows, GivenKeys, rows'), JobOK(rows', GivenKeys', q)
  PROVE  RowsInv'
<1>1. GivenKeys \subseteq GivenKeys'
  BY DEF GivenKeys
<1>2. DOMAIN job' = Jobs /\ \A k \in Jobs : job'[k] = q \/ job'[k] = job[k]
  BY DEF RowsInv
<1>3. \A k \in Jobs : JobOK(rows', GivenKeys', job[k])
  BY <1>1, JobStays DEF RowsInv
<1>4. \A k \in Jobs : JobOK(rows', GivenKeys', job'[k])
  BY <1>2, <1>3
<1> QED
  BY <1>2, <1>4 DEF RowsInv

LEMMA EvolvesSame ==
  ASSUME NEW db, NEW given
  PROVE  Evolves(db, given, db)
BY DEF Evolves

\* The database is left alone.
LEMMA JobOnly ==
  ASSUME RowsInv, NEW j \in Jobs, NEW q, job' = [job EXCEPT ![j] = q],
         UNCHANGED <<rows, used, bereft>>, JobOK(rows, GivenKeys, q)
  PROVE  RowsInv'
<1>1. rows' = rows /\ used' = used /\ bereft' = bereft /\ GivenKeys' = GivenKeys
  BY DEF GivenKeys
<1>2. DbOK(rows', GivenKeys', bereft') /\ Evolves(rows, GivenKeys, rows') /\ JobOK(rows', GivenKeys', q)
  BY <1>1, EvolvesSame DEF RowsInv
<1> QED
  BY <1>1, <1>2, JobStep

-----------------------------------------------------------------------------
(* Requests begin                                                          *)

LEMMA RowGiven ==
  ASSUME KeysTellApart, NEW db, NEW given, NEW lost, DbOK(db, given, lost), NEW t \in DOMAIN Keys,
         NEW x \in Rows(db, t)
  PROVE  x \in given /\ x \in KeysOf(t) /\ x # Null
<1>1. t # "PlaylistTrack"
  BY DEF KeysTellApart
<1>2. x \in DOMAIN db /\ db[x].table = t
  BY DEF Rows
<1>3. x \in given /\ x \in KeysOf(t)
  BY <1>1, <1>2 DEF DbOK, KeyOK
<1> QED
  BY <1>1, <1>3, KeysOfTypes

LEMMA RequestKeeps ==
  ASSUME RowsInv, NEW j \in Jobs, NEW q, Request(j, q), JobOK(rows, GivenKeys, q)
  PROVE  RowsInv'
BY JobOnly DEF Request, FreeJob

LEMMA StatementFields ==
  ASSUME NEW op, NEW table, NEW key, NEW columns
  PROVE  /\ IsStatement(Statement(op, table, key, columns))
         /\ Statement(op, table, key, columns).op = op
         /\ Statement(op, table, key, columns).table = table
         /\ Statement(op, table, key, columns).key = key
         /\ Statement(op, table, key, columns).columns = columns
BY DEF Statement, IsStatement

LEMMA RequestAlone ==
  ASSUME RowsInv, NEW j \in Jobs, NEW s, Request(j, <<s>>), IsStatement(s),
         Alone(rows, GivenKeys, s) \/ Plain(GivenKeys, s)
  PROVE  RowsInv'
<1>1. JobOK(rows, GivenKeys, <<s>>)
  BY DEF JobOK
<1> QED
  BY <1>1, RequestKeeps

LEMMA RequestTwo ==
  ASSUME RowsInv, NEW j \in Jobs, NEW s, NEW t, Request(j, <<s, t>>), IsStatement(s), IsStatement(t),
         Plain(GivenKeys, s), Plain(GivenKeys, t), t.op = "create" => s.op = "file" /\ t.table = "Track"
  PROVE  RowsInv'
<1>1. After(GivenKeys, s, <<t>>)
  BY DEF After
<1>2. JobOK(rows, GivenKeys, <<s, t>>)
  BY <1>1 DEF JobOK
<1> QED
  BY <1>2, RequestKeeps

LEMMA Concatenated ==
  ASSUME NEW s, NEW t
  PROVE  <<>> \o <<t>> = <<t>> /\ <<s>> \o <<>> = <<s>> /\ <<s>> \o <<t>> = <<s, t>>
<1>1. <<s>> \in Seq({s, t}) /\ <<t>> \in Seq({s, t}) /\ <<>> \in Seq({s, t})
  OBVIOUS
<1>2. <<>> \o <<t>> = <<t>>
  BY <1>1
<1>3. <<s>> \o <<>> = <<s>>
  BY <1>1, ConcatEmptySeq
<1>4. <<s>> \o <<t>> = <<s, t>>
  <2> DEFINE u == <<s>> \o <<t>>
             v == <<s, t>>
  <2>1. u \in Seq({s, t}) /\ Len(u) = 2 /\ \A i \in 1 .. 2 : u[i] = IF i <= 1 THEN s ELSE t
    <3>1. /\ u \in Seq({s, t}) /\ Len(u) = Len(<<s>>) + Len(<<t>>)
          /\ \A i \in 1 .. Len(<<s>>) + Len(<<t>>) :
               u[i] = IF i <= Len(<<s>>) THEN <<s>>[i] ELSE <<t>>[i - Len(<<s>>)]
      BY <1>1, ConcatProperties
    <3>2. Len(<<s>>) = 1 /\ Len(<<t>>) = 1 /\ <<s>>[1] = s /\ <<t>>[1] = t
      OBVIOUS
    <3> HIDE DEF u
    <3>3. Len(u) = 2 /\ u[1] = s /\ u[2] = t
      BY <3>1, <3>2
    <3> QED
      BY <3>1, <3>3
  <2>2. v \in Seq({s, t}) /\ Len(v) = 2 /\ v[1] = s /\ v[2] = t
    OBVIOUS
  <2> HIDE DEF u, v
  <2>3. \A i \in 1 .. Len(u) : u[i] = v[i]
    BY <2>1, <2>2
  <2>4. u = v
    BY <2>1, <2>2, <2>3, SeqEqual
  <2> QED
    BY <2>4 DEF u, v
<1> QED
  BY <1>2, <1>3, <1>4

\* What a scope is resolved to fits.
LEMMA ScopesFit ==
  ASSUME KeysTellApart, RowsInv, NEW a, NEW role \in Roles, NEW organization, NEW location,
         NEW scope \in Scopes(a, role, organization, location)
  PROVE  UserFits(rows, GivenKeys, UserColumns(role, scope))
<1> DEFINE c == UserColumns(role, scope)
<1>1. /\ DOMAIN c = {"role", "organization", "location"} /\ c.role = role
      /\ c.organization = scope.organization /\ c.location = scope.location
  BY DEF UserColumns
<1>2. \A l \in Rows(rows, "Location") : l \in GivenKeys /\ l # Null
  BY RowGiven DEF RowsInv, KeysTellApart
<1> HIDE DEF c
<1>3. CASE role = "SUPER_ADMIN"
  <2>1. scope.organization = Null /\ scope.location = Null
    BY <1>3 DEF Scopes, LOCATION_BOUND
  <2> QED
    BY <1>1, <1>3, <2>1 DEF UserFits, c, LOCATION_BOUND
<1>4. CASE role \in LOCATION_BOUND
  <2>1. scope.location \in Rows(rows, "Location") /\ scope.organization = OrganizationOf(scope.location)
    BY <1>4 DEF Scopes, LOCATION_BOUND
  <2> QED
    BY <1>1, <1>2, <1>4, <2>1 DEF UserFits, c, LOCATION_BOUND, OrganizationOf
<1>5. CASE role = "ORGANIZATION_ADMIN"
  <2>1. \/ scope.location = Null
        \/ /\ scope.location \in Rows(rows, "Location")
           /\ OrganizationOf(scope.location) = scope.organization
    BY <1>5 DEF Scopes, LOCATION_BOUND
  <2> QED
    BY <1>1, <1>2, <1>5, <2>1 DEF UserFits, c, LOCATION_BOUND, OrganizationOf
<1> QED
  BY <1>3, <1>4, <1>5 DEF Roles, LOCATION_BOUND

\* Requests that say whose a row is.
LEMMA OwnedRequests ==
  ASSUME KeysTellApart, RowsInv, NEW j \in Jobs, NEW a, NEW role \in Roles, NEW o, NEW l, NEW u,
         \/ InviteUser(j, a, role, o, l) \/ EditUser(j, a, u, role, o, l)
         \/ CreateLocation(j, a, o) \/ CreateServer(j, a, l) \/ ReportZone(j, u)
  PROVE  RowsInv'
<1> DEFINE Ok(s) == IsStatement(s) /\ Alone(rows, GivenKeys, s)
<1>1. CASE InviteUser(j, a, role, o, l)
  <2>1. PICK scope \in Scopes(a, role, o, l) :
          Request(j, <<Statement("create", "User", New, UserColumns(role, scope))>>)
    BY <1>1 DEF InviteUser
  <2> DEFINE s == Statement("create", "User", New, UserColumns(role, scope))
  <2>2. IsStatement(s) /\ Alone(rows, GivenKeys, s)
    BY StatementFields, ScopesFit DEF Alone
  <2> HIDE DEF s
  <2> QED
    BY <2>1, <2>2, RequestAlone DEF s
<1>2. CASE EditUser(j, a, u, role, o, l)
  <2> DEFINE c == [caller |-> a, role |-> role,
                   organization |-> IF o = Null THEN rows[u].columns.organization ELSE o,
                   location |-> IF l = Null THEN rows[u].columns.location ELSE l]
             s == Statement("scope", "User", u, c)
  <2>1. Request(j, <<s>>) /\ u \in Rows(rows, "User")
    BY <1>2 DEF EditUser, Tables
  <2>2. c.role = role
    OBVIOUS
  <2> HIDE DEF c
  <2>3. u \in KeysOf("User")
    BY <2>1, RowGiven DEF RowsInv, KeysTellApart
  <2>4. IsStatement(s) /\ Alone(rows, GivenKeys, s)
    BY <2>2, <2>3, StatementFields DEF Alone
  <2> HIDE DEF s
  <2> QED
    BY <2>1, <2>4, RequestAlone
<1>3. CASE CreateLocation(j, a, o)
  <2> DEFINE s == Statement("create", "Location", New, [organization |-> o])
  <2>1. Request(j, <<s>>)
    BY <1>3 DEF CreateLocation
  <2>2. IsStatement(s) /\ Alone(rows, GivenKeys, s)
    BY StatementFields DEF Alone
  <2> HIDE DEF s
  <2> QED
    BY <2>1, <2>2, RequestAlone
<1>4. CASE CreateServer(j, a, l)
  <2> DEFINE c == [organization |-> OrganizationOf(l), location |-> l]
             s == Statement("create", "MusicServer", New, c)
  <2>1. Request(j, <<s>>) /\ l \in Rows(rows, "Location")
    BY <1>4 DEF CreateServer, Tables
  <2>2. l \in GivenKeys
    BY <2>1, RowGiven DEF RowsInv, KeysTellApart
  <2>3. ServerFits(rows, GivenKeys, c)
    BY <2>2 DEF ServerFits, OrganizationOf
  <2> HIDE DEF c
  <2>4. IsStatement(s) /\ Alone(rows, GivenKeys, s)
    BY <2>3, StatementFields DEF Alone
  <2> HIDE DEF s
  <2> QED
    BY <2>1, <2>4, RequestAlone
<1>5. CASE ReportZone(j, u)
  <2> DEFINE c == [server |-> u, location |-> rows[u].columns.location, currentPlaylist |-> Null]
             s == Statement("create", "Zone", New, c)
  <2>1. Request(j, <<s>>) /\ u \in Rows(rows, "MusicServer")
    BY <1>5 DEF ReportZone, Tables
  <2>2. u \in GivenKeys
    BY <2>1, RowGiven DEF RowsInv, KeysTellApart
  <2>3. ZoneFits(rows, GivenKeys, c)
    BY <2>2 DEF ZoneFits
  <2> HIDE DEF c
  <2>4. IsStatement(s) /\ Alone(rows, GivenKeys, s)
    BY <2>3, StatementFields DEF Alone
  <2> HIDE DEF s
  <2> QED
    BY <2>1, <2>4, RequestAlone
<1> QED
  BY <1>1, <1>2, <1>3, <1>4, <1>5

LEMMA PlainStatement ==
  ASSUME NEW given, NEW op, NEW table, NEW key, NEW columns, op # "scope",
         op = "create" => \/ key = New /\ table \in DOMAIN Keys \ Owned
                          \/ table = "PlaylistTrack" /\ IsPair(key),
         op = "update" => table # "User" /\ DOMAIN columns \cap Marks = {},
         op = "update" /\ table = "Schedule" => key \in KeysOf("Schedule"),
         op = "clear" => IsPair(key),
         op = "replace" => IsFiniteSet(DOMAIN columns)
  PROVE  /\ IsStatement(Statement(op, table, key, columns))
         /\ Plain(given, Statement(op, table, key, columns))
<1> DEFINE s == Statement(op, table, key, columns)
<1>1. IsStatement(s) /\ s.op = op /\ s.table = table /\ s.key = key /\ s.columns = columns
  BY StatementFields
<1> HIDE DEF s
<1>2. Plain(given, s)
  BY <1>1 DEF Plain
<1> QED
  BY <1>1, <1>2 DEF s

\* A statement that is none of those that must be watched.
LEMMA EasyStatement ==
  ASSUME NEW given, NEW op \in {"delete", "copy", "replace", "ensure", "file", "unlink"},
         NEW table, NEW key, NEW columns, op = "replace" => IsFiniteSet(DOMAIN columns)
  PROVE  /\ IsStatement(Statement(op, table, key, columns))
         /\ Plain(given, Statement(op, table, key, columns))
BY PlainStatement

LEMMA NewRow ==
  ASSUME KeysTellApart, NEW given,
         NEW table \in {"Organization", "Playlist", "PlaylistAssignment", "Schedule", "Track",
                        "MusicFolder"},
         NEW columns
  PROVE  /\ IsStatement(Statement("create", table, New, columns))
         /\ Plain(given, Statement("create", table, New, columns))
<1>1. table \in DOMAIN Keys \ Owned
  BY DEF KeysTellApart, Owned
<1> QED
  BY <1>1, PlainStatement

LEMMA OtherColumns ==
  ASSUME NEW given, NEW table, table # "User", NEW key, NEW columns,
         DOMAIN columns \subseteq {"currentPlaylist", "playlist", "folder", "zone"},
         table = "Schedule" => key \in KeysOf("Schedule")
  PROVE  /\ IsStatement(Statement("update", table, key, columns))
         /\ Plain(given, Statement("update", table, key, columns))
<1>1. DOMAIN columns \cap Marks = {}
  BY DEF Marks
<1> QED
  BY <1>1, PlainStatement

\* A request of one such statement, or of two.
LEMMA RequestPlain ==
  ASSUME RowsInv, NEW j \in Jobs, NEW s, Request(j, <<s>>), IsStatement(s) /\ Plain(GivenKeys, s)
  PROVE  RowsInv'
BY RequestAlone

LEMMA RequestPair ==
  ASSUME RowsInv, NEW j \in Jobs, NEW s, NEW t, Request(j, <<s, t>>),
         IsStatement(s) /\ Plain(GivenKeys, s), IsStatement(t) /\ Plain(GivenKeys, t),
         t.op # "create"
  PROVE  RowsInv'
BY RequestTwo

\* Requests about who and what there is that say nothing of whose it is.
LEMMA PlainTenantRequests ==
  ASSUME KeysTellApart, RowsInv, NEW j \in Jobs, NEW a, NEW x,
         \/ RemoveUser(j, a, x) \/ CreateOrganization(j, a) \/ DeleteOrganization(j, a, x)
         \/ EditLocation(j, a, x) \/ DeleteLocation(j, a, x) \/ RemoveServer(j, a, x)
         \/ DeleteZone(j, a, x)
  PROVE  RowsInv'
<1>1. CASE CreateOrganization(j, a)
  <2>1. Request(j, <<Statement("create", "Organization", New, NoReferences)>>)
    BY <1>1 DEF CreateOrganization
  <2> QED
    BY <2>1, NewRow, RequestPlain
<1>2. CASE EditLocation(j, a, x)
  <2>1. Request(j, <<Statement("update", "Location", x, NoReferences)>>)
    BY <1>2 DEF EditLocation
  <2>2. DOMAIN NoReferences = {}
    BY DEF NoReferences
  <2> QED
    BY <2>1, <2>2, OtherColumns, RequestPlain
<1>3. CASE \/ RemoveUser(j, a, x) \/ DeleteOrganization(j, a, x) \/ DeleteLocation(j, a, x)
           \/ RemoveServer(j, a, x) \/ DeleteZone(j, a, x)
  <2>1. PICK table : Request(j, <<Statement("delete", table, x, {})>>)
    BY <1>3 DEF RemoveUser, DeleteOrganization, DeleteLocation, RemoveServer, DeleteZone
  <2> QED
    BY <2>1, EasyStatement, RequestPlain
<1> QED
  BY <1>1, <1>2, <1>3

\* Requests about playlists and where they play.
LEMMA PlaylistRequests ==
  ASSUME KeysTellApart, RowsInv, NEW j \in Jobs, NEW a, NEW p, NEW x,
         \/ IsFiniteSet(DOMAIN x) /\ (CreatePlaylist(j, a, p, x) \/ ChangePlaylist(j, a, p, x))
         \/ DuplicatePlaylist(j, a, p)
         \/ AddTrack(j, a, p, x) \/ RemoveTrack(j, a, p, x) \/ RemovePlaylist(j, a, p)
         \/ AssignTo(j, a, x, p) \/ SetZonePlaylist(j, a, x, p)
  PROVE  RowsInv'
<1>1. ASSUME NEW q, NEW tracks, IsFiniteSet(DOMAIN tracks)
      PROVE  IsStatement(Replacement(q, tracks)) /\ Plain(GivenKeys, Replacement(q, tracks))
             /\ Replacement(q, tracks).op # "create"
  BY <1>1, EasyStatement, StatementFields DEF Replacement
<1>2. ASSUME NEW q
      PROVE  IsStatement(Touch(q)) /\ Plain(GivenKeys, Touch(q)) /\ Touch(q).op # "create"
  <2>1. DOMAIN NoReferences = {}
    BY DEF NoReferences
  <2> QED
    BY <2>1, OtherColumns, StatementFields DEF Touch
<1>3. ASSUME NEW z
      PROVE  IsStatement(PlaysNow(z, p)) /\ Plain(GivenKeys, PlaysNow(z, p))
             /\ PlaysNow(z, p).op # "create"
  <2>1. DOMAIN [currentPlaylist |-> p] = {"currentPlaylist"}
    OBVIOUS
  <2> QED
    BY <2>1, OtherColumns, StatementFields DEF PlaysNow
<1>4. IsStatement(Assignment(x, p)) /\ Plain(GivenKeys, Assignment(x, p))
  BY NewRow DEF Assignment
<1>5. CASE IsFiniteSet(DOMAIN x) /\ CreatePlaylist(j, a, p, x)
  <2> DEFINE s == Statement("create", "Playlist", New, PlaylistColumns(p))
  <2>1. Request(j, <<s, Replacement(New, x)>>)
    BY <1>5 DEF CreatePlaylist
  <2>2. IsStatement(s) /\ Plain(GivenKeys, s)
    BY NewRow
  <2> QED
    BY <1>1, <1>5, <2>1, <2>2, RequestPair
<1>6. CASE DuplicatePlaylist(j, a, p)
  <2>1. Request(j, <<Statement("copy", "Playlist", p, rows[p].columns)>>)
    BY <1>6 DEF DuplicatePlaylist
  <2> QED
    BY <2>1, EasyStatement, RequestPlain
<1>7. CASE IsFiniteSet(DOMAIN x) /\ ChangePlaylist(j, a, p, x)
  <2>1. Request(j, <<Touch(p), Replacement(p, x)>>)
    BY <1>7 DEF ChangePlaylist
  <2> QED
    BY <1>1, <1>2, <1>7, <2>1, RequestPair
<1>8. CASE AddTrack(j, a, p, x)
  <2> DEFINE s == Statement("create", "PlaylistTrack", <<p, x>>,
                            [playlist |-> p, track |-> x, position |-> Cardinality(TracksOf(p))])
  <2>1. IsStatement(s) /\ Plain(GivenKeys, s)
    BY PlainStatement DEF IsPair
  <2> HIDE DEF s
  <2>2. Request(j, (IF x \in TrackIds(p) THEN <<>> ELSE <<s>>) \o <<Touch(p)>>)
    BY <1>8 DEF AddTrack, s
  <2>3. Request(j, <<Touch(p)>>) \/ Request(j, <<s, Touch(p)>>)
    BY <2>2, Concatenated
  <2> QED
    BY <1>2, <2>1, <2>3, RequestPlain, RequestPair
<1>9. CASE RemoveTrack(j, a, p, x)
  <2> DEFINE s == Statement("clear", "PlaylistTrack", <<p, x>>, [playlist |-> p])
  <2>1. IsStatement(s) /\ Plain(GivenKeys, s)
    BY PlainStatement DEF IsPair
  <2>2. Request(j, <<s, Touch(p)>>)
    BY <1>9 DEF RemoveTrack
  <2> QED
    BY <1>2, <2>1, <2>2, RequestPair
<1>10. CASE RemovePlaylist(j, a, p)
  <2>1. Request(j, <<Statement("delete", "Playlist", p, {})>>)
    BY <1>10 DEF RemovePlaylist
  <2> QED
    BY <2>1, EasyStatement, RequestPlain
<1>11. CASE AssignTo(j, a, x, p)
  <2>1. Request(j, <<Assignment(x, p)>> \o (IF IsZone(x) THEN <<PlaysNow(x, p)>> ELSE <<>>))
    BY <1>11 DEF AssignTo
  <2>2. Request(j, <<Assignment(x, p)>>) \/ Request(j, <<Assignment(x, p), PlaysNow(x, p)>>)
    BY <2>1, Concatenated
  <2> QED
    BY <1>3, <1>4, <2>2, RequestPlain, RequestPair
<1>12. CASE SetZonePlaylist(j, a, x, p)
  <2>1. Request(j, <<PlaysNow(x, p)>>)
    BY <1>12 DEF SetZonePlaylist
  <2> QED
    BY <1>3, <2>1, RequestPlain
<1> QED
  BY <1>5, <1>6, <1>7, <1>8, <1>9, <1>10, <1>11, <1>12

\* Requests about when it plays, and about tracks and folders.
LEMMA MusicRequests ==
  ASSUME KeysTellApart, RowsInv, NEW j \in Jobs, NEW a, NEW x, NEW p,
         \/ CreateSchedule(j, a, x, p) \/ DeleteSchedule(j, a, x)
         \/ x \in Tables("Schedule") /\ p \in SlotChanges /\ EditSchedule(j, a, x, p)
         \/ UploadTrack(j, a, x) \/ DiscardTrack(j, a, x) \/ MoveTrack(j, a, x, p)
         \/ CreateFolder(j, a) \/ DeleteFolder(j, a, x)
  PROVE  RowsInv'
<1>1. ASSUME NEW z
      PROVE  IsStatement(Ensure(z, p)) /\ Plain(GivenKeys, Ensure(z, p)) /\ Ensure(z, p).op # "create"
  <2> DEFINE columns == [playlist |-> p, target |-> z]
             s == Statement("ensure", "PlaylistAssignment", New, columns)
  <2>1. Ensure(z, p) = s
    BY DEF Ensure
  <2> HIDE DEF columns
  <2>2. IsStatement(s) /\ Plain(GivenKeys, s)
    BY EasyStatement
  <2>3. s.op = "ensure"
    BY StatementFields
  <2> QED
    BY <2>1, <2>2, <2>3
<1>2. CASE CreateSchedule(j, a, x, p)
  <2> DEFINE s == Statement("create", "Schedule", New, [zone |-> x, playlist |-> p])
  <2>1. IsStatement(s) /\ Plain(GivenKeys, s)
    BY NewRow
  <2>2. Request(j, <<s, Ensure(x, p)>>)
    BY <1>2 DEF CreateSchedule
  <2> QED
    BY <1>1, <2>1, <2>2, RequestPair
<1>3. CASE x \in Tables("Schedule") /\ p \in SlotChanges /\ EditSchedule(j, a, x, p)
  <2> DEFINE s == Statement("update", "Schedule", x, p)
  <2>1. DOMAIN p \subseteq {"playlist", "zone"} /\ x \in KeysOf("Schedule")
    BY <1>3, RowGiven DEF SlotChanges, Tables, RowsInv, KeysTellApart
  <2>2. IsStatement(s) /\ Plain(GivenKeys, s)
    BY <2>1, OtherColumns
  <2>3. Request(j, <<s>>)
    BY <1>3 DEF EditSchedule
  <2> QED
    BY <2>2, <2>3, RequestPlain
<1>4. CASE UploadTrack(j, a, x)
  <2> DEFINE s == Statement("file", "Track", New, {})
             t == Statement("create", "Track", New, [folder |-> x])
  <2>1. IsStatement(s) /\ Plain(GivenKeys, s) /\ s.op = "file"
    BY EasyStatement, StatementFields
  <2>2. IsStatement(t) /\ Plain(GivenKeys, t) /\ t.table = "Track"
    BY NewRow, StatementFields
  <2>3. Request(j, <<s, t>>)
    BY <1>4 DEF UploadTrack
  <2> QED
    BY <2>1, <2>2, <2>3, RequestTwo
<1>5. CASE DiscardTrack(j, a, x)
  <2> DEFINE s == Statement("delete", "Track", x, {})
             t == Statement("unlink", "Track", x, {})
  <2>1. IsStatement(s) /\ Plain(GivenKeys, s) /\ s.op # "create"
    BY EasyStatement, StatementFields
  <2>2. IsStatement(t) /\ Plain(GivenKeys, t) /\ t.op # "create"
    BY EasyStatement, StatementFields
  <2>3. Request(j, <<t, s>>) \/ Request(j, <<s, t>>) \/ Request(j, <<s>>)
    BY <1>5 DEF DiscardTrack
  <2> HIDE DEF s, t
  <2> QED
    BY <2>1, <2>2, <2>3, RequestPlain, RequestPair
<1>6. CASE MoveTrack(j, a, x, p)
  <2>1. Request(j, <<Statement("update", "Track", x, [folder |-> p])>>)
    BY <1>6 DEF MoveTrack
  <2>2. DOMAIN [folder |-> p] = {"folder"}
    OBVIOUS
  <2> QED
    BY <2>1, <2>2, OtherColumns, RequestPlain
<1>7. CASE CreateFolder(j, a)
  <2>1. Request(j, <<Statement("create", "MusicFolder", New, NoReferences)>>)
    BY <1>7 DEF CreateFolder
  <2> QED
    BY <2>1, NewRow, RequestPlain
<1>8. CASE DeleteSchedule(j, a, x) \/ DeleteFolder(j, a, x)
  <2>1. PICK table : Request(j, <<Statement("delete", table, x, {})>>)
    BY <1>8 DEF DeleteSchedule, DeleteFolder
  <2> QED
    BY <2>1, EasyStatement, RequestPlain
<1> QED
  BY <1>2, <1>3, <1>4, <1>5, <1>6, <1>7, <1>8

-----------------------------------------------------------------------------
(* Statements run                                                          *)

\* The statement a request runs next.
LEMMA HeadIs ==
  ASSUME RowsInv, NEW j \in Jobs, job[j] # <<>>
  PROVE  /\ IsStatement(Head(job[j]))
         /\ \/ Alone(rows, GivenKeys, Head(job[j])) /\ Tail(job[j]) = <<>>
            \/ Plain(GivenKeys, Head(job[j]))
         /\ After(GivenKeys, Head(job[j]), Tail(job[j]))
BY NextStatement DEF RowsInv

\* What is left of a request is in order, whatever rows and keys there are now.
LEMMA AfterMore ==
  ASSUME NEW given, NEW now, given \subseteq now, NEW s, NEW rest, After(given, s, rest)
  PROVE  After(now, s, rest)
BY DEF After, Plain

LEMMA NoJob ==
  ASSUME NEW db, NEW given
  PROVE  JobOK(db, given, <<>>)
BY DEF JobOK

LEMMA FailKeeps ==
  ASSUME RowsInv, NEW j \in Jobs, Fail(j)
  PROVE  RowsInv'
BY JobOnly, NoJob DEF Fail, Left

LEMMA UsersScoped ==
  ASSUME KeysTellApart, RowsInv, NEW j \in Jobs, ScopeUser(j)
  PROVE  RowsInv'
<1> DEFINE s == Head(job[j])
           scopes == Scopes(s.columns.caller, s.columns.role, s.columns.organization,
                            s.columns.location)
<1>1. job[j] # <<>> /\ s.op = "scope"
  BY DEF ScopeUser
<1>2. s.key \in KeysOf("User") /\ s.columns.role \in Roles
  BY <1>1, HeadIs DEF Alone, Plain
<1>3. CASE \E scope \in scopes :
             job' = [job EXCEPT ![j] = <<Statement("update", "User", s.key,
                                                   UserColumns(s.columns.role, scope))>>]
  <2>1. PICK scope \in scopes :
             job' = [job EXCEPT ![j] = <<Statement("update", "User", s.key,
                                                   UserColumns(s.columns.role, scope))>>]
    BY <1>3
  <2>2. UserFits(rows, GivenKeys, UserColumns(s.columns.role, scope))
    BY <1>2, ScopesFit
  <2> DEFINE t == Statement("update", "User", s.key, UserColumns(s.columns.role, scope))
  <2>3. IsStatement(t) /\ Alone(rows, GivenKeys, t)
    BY <1>2, <2>2, StatementFields DEF Alone
  <2> HIDE DEF t
  <2>4. JobOK(rows, GivenKeys, <<t>>)
    BY <2>3 DEF JobOK
  <2> QED
    BY <2>1, <2>4, JobOnly DEF ScopeUser, t
<1>4. CASE job' = [job EXCEPT ![j] = <<>>]
  BY <1>4, JobOnly, NoJob DEF ScopeUser
<1> QED
  BY <1>3, <1>4 DEF ScopeUser

\* A key that no row has had.
LEMMA NewKeyIs ==
  ASSUME KeysTellApart, NEW t \in DOMAIN Keys, Unused(t) # {}
  PROVE  /\ NewKey(t) \in Keys[t] /\ NewKey(t) \in KeysOf(t) /\ NewKey(t) \notin GivenKeys
<1>1. NewKey(t) \in Unused(t)
  BY DEF NewKey
<1> QED
  BY <1>1 DEF Unused, KeysOf, KeysTellApart, GivenKeys

LEMMA KeysGiven ==
  ASSUME RowsInv, NEW x, used' = used \cup {x}
  PROVE  GivenKeys \subseteq GivenKeys' /\ x \in GivenKeys' /\ used \subseteq used'
BY DEF GivenKeys

\* A row is created.
LEMMA CreateWrites ==
  ASSUME KeysTellApart, NEW db, NEW given, NEW lost, DbOK(db, given, lost), NEW now,
         given \subseteq now, NEW x, NEW s, x \notin DOMAIN db, KeyOK(s.table, x, now),
         s.op = "create", Alone(db, given, s) \/ s.table \notin Owned,
         x \notin given \/ s.table \notin Owned, Accepts(db, s.table, s.columns)
  PROVE  DbOK(Inserted(db, x, s.table, s.columns), now, lost)
<1> DEFINE c == s.columns
<1> DEFINE later == Inserted(db, x, s.table, s.columns)
<1>1. /\ DOMAIN later = DOMAIN db \cup {x}
      /\ \A y \in DOMAIN db : later[y] = db[y]
      /\ DOMAIN later[x] = {"table", "columns"} /\ later[x].table = s.table
      /\ later[x].columns = c
  <2>1. DOMAIN later = DOMAIN db \cup {x}
    BY DEF Inserted
  <2>2. \A y \in DOMAIN db : later[y] = db[y]
    BY DEF Inserted
  <2>3. DOMAIN later[x] = {"table", "columns"} /\ later[x].table = s.table
    BY DEF Inserted
  <2>4. later[x].columns = c
    BY DEF Inserted
  <2> QED
    BY <2>1, <2>2, <2>3, <2>4
<1> HIDE DEF later
<1>2. \A t : \A y \in Rows(db, t) : y \in Rows(later, t) /\ later[y] = db[y]
  BY <1>1 DEF Rows
<1>3. ASSUME s.table = "User"
      PROVE  UserOK(later, lost, x)
  <2>1. UserFits(db, given, c)
    BY <1>3 DEF Alone, Owned
  <2>2. c.location = Null \/ c.location \in Rows(db, "Location")
    BY <1>3, AcceptedRow
  <2> QED
    BY <1>1, <1>2, <2>1, <2>2 DEF UserFits, UserOK
<1>4. ASSUME s.table = "Location"
      PROVE  LocationOK(later, x)
  <2>1. "organization" \in DOMAIN c
    BY <1>4 DEF Alone, Owned
  <2>2. c.organization \in Rows(db, "Organization")
    BY <1>4, AcceptedRow
  <2> QED
    BY <1>1, <1>2, <2>1, <2>2 DEF LocationOK
<1>5. ASSUME s.table = "MusicServer"
      PROVE  ServerOK(later, x)
  <2>1. ServerFits(db, given, c)
    BY <1>5 DEF Alone, Owned
  <2>2. c.location \in Rows(db, "Location")
    BY <1>5, AcceptedRow
  <2> QED
    BY <1>1, <1>2, <2>1, <2>2 DEF ServerFits, ServerOK
<1>6. ASSUME s.table = "Zone"
      PROVE  ZoneOK(later, x)
  <2>1. ZoneFits(db, given, c)
    BY <1>6 DEF Alone, Owned
  <2>2. c.server \in Rows(db, "MusicServer")
    BY <1>6, AcceptedRow
  <2> QED
    BY <1>1, <1>2, <2>1, <2>2 DEF ZoneFits, ZoneOK
<1> QED
  BY <1>1, <1>3, <1>4, <1>5, <1>6, OneWrite DEF later

\* A new row is of no one who waits for a location or a server that was there.
LEMMA CreateEvolves ==
  ASSUME NEW db, NEW given, NEW x, NEW t, NEW columns, x \notin DOMAIN db,
         x \notin given \/ t \notin {"Location", "MusicServer"}
  PROVE  Evolves(db, given, Inserted(db, x, t, columns))
<1> DEFINE later == Inserted(db, x, t, columns)
<1>1. /\ DOMAIN later = DOMAIN db \cup {x} /\ \A y \in DOMAIN db : later[y] = db[y]
      /\ later[x].table = t
  <2>1. DOMAIN later = DOMAIN db \cup {x}
    BY DEF Inserted
  <2>2. \A y \in DOMAIN db : later[y] = db[y]
    BY DEF Inserted
  <2>3. later[x].table = t
    BY DEF Inserted
  <2> QED
    BY <2>1, <2>2, <2>3
<1> HIDE DEF later
<1>2. Evolves(db, given, later)
  BY <1>1 DEF Evolves, Rows
<1> QED
  BY <1>2 DEF later

LEMMA MoreGiven ==
  ASSUME NEW db, NEW given, NEW lost, DbOK(db, given, lost), NEW now, given \subseteq now
  PROVE  DbOK(db, now, lost)
BY DEF DbOK, KeyOK

LEMMA RowsCreated ==
  ASSUME KeysTellApart, RowsInv, NEW j \in Jobs, RunCreate(j)
  PROVE  RowsInv'
<1> DEFINE s == Head(job[j])
           x == IF s.key = New THEN NewKey(s.table) ELSE s.key
<1>1. job[j] # <<>> /\ s.op = "create"
  BY DEF RunCreate, Runs
<1>2. CASE Fail(j)
  BY <1>2, FailKeeps
<1>3. CASE /\ s.key = New => Unused(s.table) # {}
           /\ Accepts(rows, s.table, s.columns) /\ x \notin DOMAIN rows
           /\ rows' = Inserted(rows, x, s.table, s.columns)
           /\ used' = IF s.key = New THEN used \cup {x} ELSE used
           /\ Left(j, WithKey(Tail(job[j]), x))
           /\ UNCHANGED <<trackFiles, bereft, jumbled>>
  <2>1. /\ Alone(rows, GivenKeys, s) \/ Plain(GivenKeys, s)
        /\ After(GivenKeys, s, Tail(job[j]))
    BY <1>1, HeadIs
  <2>2. GivenKeys \subseteq GivenKeys' /\ used \subseteq used' /\ (s.key = New => x \in GivenKeys')
    BY <1>3 DEF GivenKeys
  <2>3. ASSUME s.table \in DOMAIN Keys, s.key = New
        PROVE  KeyOK(s.table, x, GivenKeys') /\ x \notin GivenKeys
    <3>1. x \in KeysOf(s.table) /\ x \notin GivenKeys
      BY <1>3, <2>3, NewKeyIs
    <3>2. s.table # "PlaylistTrack"
      BY <2>3 DEF KeysTellApart
    <3> QED
      BY <2>2, <2>3, <3>1, <3>2 DEF KeyOK
  <2>4. /\ KeyOK(s.table, x, GivenKeys') /\ (Alone(rows, GivenKeys, s) \/ s.table \notin Owned)
        /\ x \notin GivenKeys \/ s.table \notin Owned
    <3>1. CASE Alone(rows, GivenKeys, s)
      <4>1. s.table \in DOMAIN Keys /\ s.key = New
        BY <1>1, <3>1 DEF Alone, KeysTellApart
      <4> QED
        BY <2>3, <3>1, <4>1
    <3>2. CASE s.key = New /\ s.table \in DOMAIN Keys \ Owned
      BY <2>3, <3>2
    <3>3. CASE s.table = "Track" /\ s.key \in KeysOf("Track") \cap GivenKeys
      <4>1. s.key # New
        BY <3>3 DEF KeysOf, KeysTellApart, Rows
      <4> QED
        BY <2>2, <3>3, <4>1 DEF KeyOK, Owned
    <3>4. CASE s.table = "PlaylistTrack" /\ IsPair(s.key)
      <4>1. s.key # New
        BY <3>4 DEF KeysTellApart
      <4> QED
        BY <3>4, <4>1 DEF KeyOK, Owned
    <3> QED
      BY <1>1, <2>1, <3>1, <3>2, <3>3, <3>4 DEF Plain
  <2> HIDE DEF x
  <2>5. DbOK(Inserted(rows, x, s.table, s.columns), GivenKeys', bereft)
    BY <1>1, <1>3, <2>2, <2>4, CreateWrites DEF RowsInv
  <2>6. DbOK(rows', GivenKeys', bereft')
    BY <1>3, <2>5
  <2>7. Evolves(rows, GivenKeys, rows')
    BY <1>3, <2>4, CreateEvolves DEF Owned
  <2>8. JobOK(rows', GivenKeys', WithKey(Tail(job[j]), x))
    BY <1>1, <2>1, <2>2, AfterMore, WithKeyOK
  <2> QED
    BY <1>3, <2>2, <2>6, <2>7, <2>8, JobStep DEF Left
<1> QED
  BY <1>2, <1>3 DEF RunCreate

\* The rest of a request goes on as it is.
LEMMA ProceedStep ==
  ASSUME RowsInv, NEW j \in Jobs, job[j] # <<>>, Proceed(j), used \subseteq used',
         DbOK(rows', GivenKeys', bereft'), Evolves(rows, GivenKeys, rows')
  PROVE  RowsInv'
<1>1. GivenKeys \subseteq GivenKeys'
  BY DEF GivenKeys
<1>2. After(GivenKeys', Head(job[j]), Tail(job[j]))
  BY <1>1, HeadIs, AfterMore
<1>3. JobOK(rows', GivenKeys', Tail(job[j]))
  BY <1>2, RestOK
<1> QED
  BY <1>3, JobStep DEF Proceed

\* A user is written.
LEMMA UserStatements ==
  ASSUME KeysTellApart, NEW db, NEW given, NEW lost, DbOK(db, given, lost),
         NEW x \in Rows(db, "User"), NEW c, UserFits(db, given, c), NEW later,
         IsUpdated(db, x, c, later),
         Accepts(later, "User", later[x].columns)
  PROVE  DbOK(later, given, lost \ {x}) /\ Evolves(db, given, later)
<1>1. /\ x \in DOMAIN db /\ db[x].table = "User" /\ later[x].table = "User"
      /\ DOMAIN later = DOMAIN db /\ \A y \in DOMAIN db : y # x => later[y] = db[y]
      /\ DOMAIN later[x] = {"table", "columns"}
  BY DEF Rows, IsUpdated
<1>2. \A t : t # "User" => Rows(later, t) = Rows(db, t) /\ \A y \in Rows(db, t) : later[y] = db[y]
  BY <1>1 DEF Rows
<1>3. {"role", "organization", "location"} \subseteq DOMAIN db[x].columns
  BY DEF DbOK, UserOK
<1>4. /\ {"role", "organization", "location"} \subseteq DOMAIN later[x].columns
      /\ later[x].columns.role = c.role /\ later[x].columns.organization = c.organization
      /\ later[x].columns.location = c.location
  BY <1>3 DEF UserFits, IsUpdated
<1>5. c.location = Null \/ c.location \in Rows(later, "Location")
  BY <1>4, AcceptedRow
<1>6. UserOK(later, lost \ {x}, x)
  BY <1>2, <1>4, <1>5 DEF UserFits, UserOK
<1>7. KeyOK("User", x, given)
  BY <1>1 DEF DbOK
<1>8. DbOK(later, given, lost \ {x})
  <2>1. DOMAIN later = DOMAIN db \cup {x} /\ \A u \in lost : u # x => u \in lost \ {x}
    BY <1>1
  <2> DEFINE more == lost \ {x}
             t == "User"
  <2> HIDE DEF more, t
  <2>2. /\ t # "Location" /\ t # "MusicServer" /\ t # "Zone" /\ t = "User"
        /\ later[x].table = t /\ KeyOK(t, x, given) /\ UserOK(later, more, x)
        /\ \A u \in lost : u # x => u \in more
    BY <1>1, <1>6, <1>7, <2>1 DEF more, t
  <2>3. DbOK(later, given, more)
    BY <1>1, <2>1, <2>2, OneWrite
  <2> QED
    BY <2>3 DEF more
<1>9. Evolves(db, given, later)
  BY <1>2 DEF Evolves
<1> QED
  BY <1>8, <1>9

\* A row is written that keeps what says whose it is.
LEMMA OtherUpdate ==
  ASSUME NEW db, NEW given, NEW lost, DbOK(db, given, lost), NEW x \in DOMAIN db,
         NEW c, DOMAIN c \cap Marks = {}, NEW later, IsUpdated(db, x, c, later)
  PROVE  DbOK(later, given, lost) /\ Evolves(db, given, later)
<1>1. \A y \in DOMAIN db : SameTenant(db[y], later[y])
  <2>1. SameTenant(db[x], later[x])
    BY DEF SameTenant, IsUpdated
  <2> QED
    BY <2>1 DEF SameTenant, IsUpdated
<1>2. \A y \in DOMAIN later : DOMAIN later[y] = {"table", "columns"} /\ KeyOK(later[y].table, y, given)
  BY DEF DbOK, IsUpdated
<1>3. DbOK(later, given, lost)
  <2>1. IsFiniteSet(DOMAIN later) /\ DOMAIN later = DOMAIN db
    BY DEF DbOK, IsUpdated
  <2>2. \A y \in DOMAIN db : db[y].table \in Owned \cup {"Organization"} =>
          y \in DOMAIN later /\ SameTenant(db[y], later[y])
    BY <1>1, <2>1
  <2>3. \A y \in DOMAIN later : later[y].table \in Owned =>
          y \in DOMAIN db /\ db[y].table = later[y].table
    BY <1>1, <2>1 DEF SameTenant
  <2> QED
    BY <1>2, <2>1, <2>2, <2>3, OtherWrite
<1>4. Evolves(db, given, later)
  <2>1. \A t : \A y \in Rows(later, t) : y \in Rows(db, t) /\ SameTenant(db[y], later[y])
    BY <1>1 DEF Rows, SameTenant, IsUpdated
  <2>2. \A l \in Rows(db, "Location") : "organization" \in DOMAIN db[l].columns
    BY DEF DbOK, LocationOK
  <2>3. \A s \in Rows(db, "MusicServer") : "location" \in DOMAIN db[s].columns
    BY DEF DbOK, ServerOK
  <2> QED
    BY <2>1, <2>2, <2>3 DEF Evolves, SameTenant, Marks
<1> QED
  BY <1>3, <1>4

\* Only users are looked up among those that lost their location.
LEMMA OtherLost ==
  ASSUME NEW db, NEW given, NEW lost, DbOK(db, given, lost), NEW more,
         \A u \in Rows(db, "User") : u \in lost => u \in more
  PROVE  DbOK(db, given, more)
BY DEF DbOK, UserOK

\* What a request goes on with once a row is changed.
LEMMA AfterUpdateIs ==
  ASSUME NEW s, NEW slot, NEW rest
  PROVE  \/ AfterUpdate(s, slot, rest) = rest
         \/ \E z, p : AfterUpdate(s, slot, rest) = <<Ensure(z, p)>>
BY DEF AfterUpdate

LEMMA RowsUpdated ==
  ASSUME KeysTellApart, RowsInv, NEW j \in Jobs, RunUpdate(j)
  PROVE  RowsInv'
<1> DEFINE s == Head(job[j])
           later == Updated(rows, s.key, s.columns)
<1>1. job[j] # <<>> /\ s.op = "update"
  BY DEF RunUpdate, Runs
<1>2. CASE Fail(j)
  BY <1>2, FailKeeps
<1> DEFINE lost == IF s.table = "User" \/ NamesPlaylist(s) THEN bereft \ {s.key}
                   ELSE IF MovesSlot(s) THEN bereft \cup {s.key} ELSE bereft
           slot == later[s.key].columns
           q == AfterUpdate(s, slot, Tail(job[j]))
<1>3. CASE /\ s.key \in DOMAIN rows /\ Accepts(later, s.table, slot)
           /\ rows' = later /\ bereft' = lost
           /\ Left(j, q) /\ UNCHANGED <<used, trackFiles, jumbled>>
  <2>1. DOMAIN rows[s.key] = {"table", "columns"} /\ DbOK(rows, GivenKeys, bereft)
    BY <1>3 DEF RowsInv, DbOK
  <2>2. IsUpdated(rows, s.key, s.columns, later)
    BY <1>3, <2>1, UpdatedAre
  <2>3. GivenKeys' = GivenKeys
    BY <1>3 DEF GivenKeys
  <2>4. JobOK(later, GivenKeys, q)
    <3>1. ASSUME NEW z, NEW p
          PROVE  JobOK(later, GivenKeys, <<Ensure(z, p)>>)
      <4> DEFINE t == Ensure(z, p)
      <4>1. IsStatement(t) /\ Plain(GivenKeys, t)
        BY EasyStatement DEF Ensure
      <4> HIDE DEF t, later
      <4>2. JobOK(later, GivenKeys, <<t>>)
        BY <4>1 DEF JobOK
      <4> QED
        BY <4>2 DEF t
    <3>2. JobOK(later, GivenKeys, Tail(job[j]))
      BY <1>1, HeadIs, RestOK
    <3> HIDE DEF later, slot
    <3>3. q = Tail(job[j]) \/ \E z, p : q = <<Ensure(z, p)>>
      BY AfterUpdateIs
    <3> QED
      BY <3>1, <3>2, <3>3
  <2> HIDE DEF q
  <2>5. CASE s.table = "User"
    <3>1. UserFits(rows, GivenKeys, s.columns) /\ s.key \in KeysOf("User")
      BY <1>1, <2>5, HeadIs DEF Alone, Plain
    <3>2. rows[s.key].table = "User"
      BY <1>3, <2>1, <3>1, TableOfKey DEF KeysTellApart
    <3>3. s.key \in Rows(rows, "User")
      BY <1>3, <3>2 DEF Rows
    <3>4. Accepts(later, "User", later[s.key].columns)
      BY <1>3, <2>5
    <3> HIDE DEF later
    <3>5. DbOK(later, GivenKeys, bereft \ {s.key}) /\ Evolves(rows, GivenKeys, later)
      BY <2>1, <2>2, <3>1, <3>3, <3>4, UserStatements
    <3>6. DbOK(later, GivenKeys, lost)
      BY <2>5, <3>5
    <3> HIDE DEF lost, slot
    <3>7. rows' = later /\ bereft' = lost /\ used' = used /\ job' = [job EXCEPT ![j] = q]
      BY <1>3 DEF Left
    <3> QED
      BY <2>3, <2>4, <3>5, <3>6, <3>7, JobStep
  <2>6. CASE s.table # "User"
    <3>1. /\ DOMAIN s.columns \cap Marks = {}
          /\ s.table = "Schedule" => s.key \in KeysOf("Schedule")
      <4>1. Plain(GivenKeys, s)
        BY <1>1, <2>6, HeadIs DEF Alone
      <4> HIDE DEF s
      <4> QED
        BY <1>1, <4>1 DEF Plain
    <3> HIDE DEF later
    <3>2. DbOK(later, GivenKeys, bereft) /\ Evolves(rows, GivenKeys, later)
      BY <1>3, <2>1, <2>2, <3>1, OtherUpdate
    <3>3. DbOK(later, GivenKeys, lost)
      <4>1. ASSUME NEW u \in Rows(later, "User"), u \in bereft
            PROVE  u \in lost
        <5>1. u \in KeysOf("User")
          BY <3>2 DEF DbOK, KeyOK, Rows
        <5>2. "User" \in DOMAIN Keys /\ "User" # "Schedule"
          BY DEF KeysTellApart
        <5>3. u # s.key \/ s.table # "Schedule"
          BY <3>1, <5>1, <5>2, OneTable
        <5>4. lost = bereft \/ s.table = "Schedule"
          BY <2>6 DEF NamesPlaylist, MovesSlot
        <5>5. bereft \ {s.key} \subseteq lost
          OBVIOUS
        <5> HIDE DEF lost, s
        <5> QED
          BY <4>1, <5>3, <5>4, <5>5
      <4> HIDE DEF lost
      <4> QED
        BY <3>2, <4>1, OtherLost
    <3> HIDE DEF lost, slot
    <3>4. rows' = later /\ bereft' = lost /\ used' = used /\ job' = [job EXCEPT ![j] = q]
      BY <1>3 DEF Left
    <3> QED
      BY <2>3, <2>4, <3>2, <3>3, <3>4, JobStep
  <2> QED
    BY <2>5, <2>6
<1> QED
  BY <1>2, <1>3 DEF RunUpdate

\* Deletions only take rows of locations and servers, and change nothing of those that stay.
LEMMA DeleteEvolves ==
  ASSUME KeysTellApart, NEW db, NEW given, NEW lost, DbOK(db, given, lost), NEW X
  PROVE  Evolves(db, given, Deleted(db, X))
<1> DEFINE gone == Doomed(db, X)
           later == Deleted(db, X)
           bare == (lost \cup {u \in Rows(db, "User") : db[u].columns.location \in gone}) \ gone
<1>1. /\ DbOK(later, given, bare)
      /\ \A l \in Rows(later, "Location") :
           l \in Rows(db, "Location") /\ later[l].columns.organization = db[l].columns.organization
      /\ \A s \in Rows(later, "MusicServer") :
           s \in Rows(db, "MusicServer") /\ later[s].columns.location = db[s].columns.location
  BY DeleteWrite
<1> HIDE DEF later
<1>2. Evolves(db, given, later)
  BY <1>1 DEF Evolves
<1> QED
  BY <1>2 DEF later

LEMMA RowsDeleted ==
  ASSUME KeysTellApart, RowsInv, NEW j \in Jobs, RunDelete(j)
  PROVE  RowsInv'
<1> DEFINE x == Head(job[j]).key
           gone == Doomed(rows, {x})
           bare == (bereft \cup {u \in Rows(rows, "User") : rows[u].columns.location \in gone}) \ gone
<1>1. job[j] # <<>>
  BY DEF RunDelete, Runs
<1>2. CASE Fail(j)
  BY <1>2, FailKeeps
<1>3. CASE /\ rows' = Deleted(rows, {x}) /\ bereft' = bare
           /\ Proceed(j) /\ UNCHANGED <<used, trackFiles>>
  <2>1. DbOK(Deleted(rows, {x}), GivenKeys, bare) /\ Evolves(rows, GivenKeys, Deleted(rows, {x}))
    BY DeleteWrite, DeleteEvolves DEF RowsInv
  <2> HIDE DEF bare
  <2>2. GivenKeys' = GivenKeys
    BY <1>3 DEF GivenKeys
  <2> QED
    BY <1>1, <1>3, <2>1, <2>2, ProceedStep
<1> QED
  BY <1>2, <1>3 DEF RunDelete, Tables

LEMMA TracksCleared ==
  ASSUME KeysTellApart, RowsInv, NEW j \in Jobs, RunClear(j)
  PROVE  RowsInv'
<1> DEFINE x == Head(job[j]).key
<1>1. job[j] # <<>> /\ IsPair(x)
  BY HeadIs DEF RunClear, Runs, Alone, Plain
<1>2. GivenKeys' = GivenKeys /\ bereft' = bereft /\ used' = used /\ Proceed(j)
  BY DEF RunClear, GivenKeys
<1>3. CASE x \in DOMAIN rows /\ rows' = Deleted(rows, {x})
  <2>1. rows[x].table = "PlaylistTrack"
    BY <1>1, <1>3, TableOfPair DEF RowsInv
  <2>2. DbOK(Deleted(rows, {x}), GivenKeys, bereft) /\ Evolves(rows, GivenKeys, Deleted(rows, {x}))
    BY <1>3, <2>1, TracksGoAlone, DeleteEvolves DEF RowsInv
  <2> QED
    BY <1>1, <1>2, <1>3, <2>2, ProceedStep
<1>4. CASE rows' = rows
  BY <1>1, <1>2, <1>4, EvolvesSame, ProceedStep DEF RowsInv
<1> QED
  BY <1>3, <1>4 DEF RunClear

\* An order of tracks that are there is finite.
LEMMA OrdersAreFinite ==
  ASSUME NEW db, IsFiniteSet(DOMAIN db), NEW S, S \subseteq DOMAIN db, NEW q \in SetToSeqs(S)
  PROVE  DOMAIN q = 1 .. Cardinality(S) /\ IsFiniteSet(DOMAIN q)
<1>1. Cardinality(S) \in Nat
  BY FS_Subset, FS_CardinalityType
<1>2. DOMAIN q = 1 .. Cardinality(S)
  BY DEF SetToSeqs
<1> QED
  BY <1>1, <1>2, FS_Interval

LEMMA TracksCopied ==
  ASSUME KeysTellApart, RowsInv, NEW j \in Jobs, RunCopy(j)
  PROVE  RowsInv'
<1> DEFINE c == Head(job[j]).columns
           tracks == TracksOf(Head(job[j]).key)
           At(x) == rows[x].columns.position
           Ordered(q) == \A m, n \in DOMAIN q : m < n => At(q[m]) <= At(q[n])
           t == Statement("create", "Playlist", New, c)
           u(q) == Replacement(New, [n \in DOMAIN q |-> rows[q[n]].columns.track])
<1>1. PICK q \in SetToSeqs(tracks) :
        job' = [job EXCEPT ![j] = <<t>> \o (IF q = <<>> THEN <<>> ELSE <<u(q)>>)]
  BY DEF RunCopy, Left
<1>2. IsFiniteSet(DOMAIN q)
  BY OrdersAreFinite DEF RowsInv, DbOK, TracksOf, Tables, Rows
<1>3. IsStatement(t) /\ Plain(GivenKeys, t)
  BY NewRow
<1>4. IsStatement(u(q)) /\ Plain(GivenKeys, u(q)) /\ u(q).op # "create"
  <2> DEFINE d == [n \in DOMAIN q |-> rows[q[n]].columns.track]
  <2>1. IsFiniteSet(DOMAIN d)
    BY <1>2
  <2> HIDE DEF d
  <2>2. IsStatement(Replacement(New, d)) /\ Plain(GivenKeys, Replacement(New, d))
        /\ Replacement(New, d).op # "create"
    BY <2>1, EasyStatement, StatementFields DEF Replacement
  <2> QED
    BY <2>2 DEF d
<1> DEFINE v == u(q)
<1> HIDE DEF t, u
<1>5. JobOK(rows, GivenKeys, <<t>>) /\ JobOK(rows, GivenKeys, <<t, v>>)
  <2>1. IsStatement(v) /\ Plain(GivenKeys, v) /\ v.op # "create"
    BY <1>4
  <2> HIDE DEF v
  <2>2. After(GivenKeys, t, <<v>>)
    BY <2>1 DEF After
  <2> QED
    BY <1>3, <2>1, <2>2 DEF JobOK
<1>6. job' = [job EXCEPT ![j] = <<t>>] \/ job' = [job EXCEPT ![j] = <<t, v>>]
  BY <1>1, Concatenated
<1>7. UNCHANGED <<rows, used, bereft>>
  BY DEF RunCopy
<1> HIDE DEF v
<1> QED
  BY <1>5, <1>6, <1>7, JobOnly

LEMMA TracksReplaced ==
  ASSUME KeysTellApart, RowsInv, NEW j \in Jobs, RunReplace(j)
  PROVE  RowsInv'
<1> DEFINE p == Head(job[j]).key
           tracks == Head(job[j]).columns
           kept == Deleted(rows, TracksOf(p))
           Item(i) == [playlist |-> p, track |-> tracks[i], position |-> i - 1]
           items == {<<p, tracks[i]>> : i \in DOMAIN tracks}
           row(x) == [table |-> "PlaylistTrack",
                      columns |-> Item(CHOOSE i \in DOMAIN tracks : x = <<p, tracks[i]>>)]
<1>1. job[j] # <<>> /\ IsFiniteSet(DOMAIN tracks)
  BY HeadIs DEF RunReplace, Runs, Alone, Plain
<1>2. CASE Fail(j)
  BY <1>2, FailKeeps
<1>3. CASE /\ rows' = [x \in DOMAIN kept \cup items |-> IF x \in items THEN row(x) ELSE kept[x]]
           /\ Proceed(j) /\ UNCHANGED <<used, trackFiles, bereft>>
  <2>1. \A x \in TracksOf(p) : x \in DOMAIN rows /\ rows[x].table = "PlaylistTrack"
    BY DEF TracksOf, Tables, Rows
  <2>2. DbOK(kept, GivenKeys, bereft) /\ Evolves(rows, GivenKeys, kept)
    BY <2>1, TracksGoAlone, DeleteEvolves DEF RowsInv
  <2>3. \A x \in items : IsPair(x)
    BY DEF IsPair
  <2>4. \A x \in items : DOMAIN row(x) = {"table", "columns"} /\ row(x).table = "PlaylistTrack"
    OBVIOUS
  <2>5. IsFiniteSet(items)
    <3> DEFINE f == [i \in DOMAIN tracks |-> <<p, tracks[i]>>]
    <3>1. f \in Surjection(DOMAIN tracks, items)
      BY DEF Surjection
    <3> HIDE DEF f, items
    <3> QED
      BY <1>1, <3>1, FS_Surjection
  <2> HIDE DEF kept, items, row
  <2>6. /\ DOMAIN rows' = DOMAIN kept \cup items
        /\ \A x \in items : rows'[x] = row(x)
        /\ \A x \in DOMAIN kept : x \notin items => rows'[x] = kept[x]
    BY <1>3
  <2>7. \A x \in DOMAIN kept : x \in items => kept[x].table = "PlaylistTrack"
    BY <2>2, <2>3, TableOfPair
  <2>8. IsFiniteSet(DOMAIN rows')
    <3>1. IsFiniteSet(DOMAIN kept)
      BY <2>2 DEF DbOK
    <3>2. IsFiniteSet(DOMAIN kept \cup items)
      BY <2>5, <3>1, FS_Union
    <3> QED
      BY <2>6, <3>2
  <2>9. \A x \in DOMAIN rows' : /\ DOMAIN rows'[x] = {"table", "columns"}
                                /\ KeyOK(rows'[x].table, x, GivenKeys)
    BY <2>2, <2>3, <2>4, <2>6 DEF DbOK, KeyOK
  <2>10. \A x \in DOMAIN kept : kept[x].table \in Owned \cup {"Organization"} =>
           x \in DOMAIN rows' /\ SameTenant(kept[x], rows'[x])
    BY <2>6, <2>7 DEF SameTenant, Owned
  <2>11. \A x \in DOMAIN rows' : rows'[x].table \in Owned =>
           x \in DOMAIN kept /\ kept[x] = rows'[x] /\ kept[x].table = rows'[x].table
    BY <2>4, <2>6 DEF Owned
  <2>12. DbOK(rows', GivenKeys, bereft)
    BY <2>2, <2>8, <2>9, <2>10, <2>11, OtherWrite
  <2>13. \A t \in Owned : \A x \in Rows(rows', t) : x \in Rows(kept, t) /\ rows'[x] = kept[x]
    BY <2>11 DEF Rows
  <2>14. Evolves(rows, GivenKeys, rows')
    BY <2>2, <2>13 DEF Evolves, Owned
  <2>15. GivenKeys' = GivenKeys
    BY <1>3 DEF GivenKeys
  <2> QED
    BY <1>1, <1>3, <2>12, <2>14, <2>15, ProceedStep
<1> QED
  BY <1>2, <1>3 DEF RunReplace

\* Statements that leave the rows alone.
LEMMA OtherStatements ==
  ASSUME KeysTellApart, RowsInv, NEW j \in Jobs, RunEnsure(j) \/ RunFile(j) \/ RunUnlink(j)
  PROVE  RowsInv'
<1>1. CASE RunEnsure(j)
  <2> DEFINE c == Head(job[j]).columns
             t == Assignment(c.target, c.playlist)
  <2>1. IsStatement(t) /\ Plain(GivenKeys, t)
    BY NewRow DEF Assignment
  <2>2. job' = [job EXCEPT ![j] = <<>>] \/ job' = [job EXCEPT ![j] = <<t>>]
    BY <1>1 DEF RunEnsure, Left
  <2> HIDE DEF t
  <2>3. JobOK(rows, GivenKeys, <<>>) /\ JobOK(rows, GivenKeys, <<t>>)
    BY <2>1, NoJob DEF JobOK
  <2> QED
    BY <1>1, <2>2, <2>3, JobOnly DEF RunEnsure
<1>2. CASE RunFile(j)
  <2> DEFINE x == NewKey("Track")
  <2>1. /\ job[j] # <<>> /\ Unused("Track") # {} /\ rows' = rows /\ bereft' = bereft
        /\ used' = used \cup {x} /\ job' = [job EXCEPT ![j] = WithKey(Tail(job[j]), x)]
    BY <1>2 DEF RunFile, Runs, Left
  <2>2. x \in KeysOf("Track")
    BY <2>1, NewKeyIs DEF KeysTellApart
  <2> HIDE DEF x
  <2>3. GivenKeys \subseteq GivenKeys' /\ x \in GivenKeys' /\ used \subseteq used'
    BY <2>1, KeysGiven
  <2>4. DbOK(rows', GivenKeys', bereft') /\ Evolves(rows, GivenKeys, rows')
    BY <2>1, <2>3, MoreGiven, EvolvesSame DEF RowsInv
  <2>5. After(GivenKeys', Head(job[j]), Tail(job[j]))
    BY <2>1, <2>3, HeadIs, AfterMore
  <2>6. JobOK(rows', GivenKeys', WithKey(Tail(job[j]), x))
    BY <2>2, <2>3, <2>5, WithKeyOK
  <2> QED
    BY <2>1, <2>3, <2>4, <2>6, JobStep
<1>3. CASE RunUnlink(j)
  <2>1. /\ job[j] # <<>> /\ rows' = rows /\ bereft' = bereft /\ used' = used /\ GivenKeys' = GivenKeys
        /\ Proceed(j)
    BY <1>3 DEF RunUnlink, Runs, GivenKeys
  <2> QED
    BY <2>1, EvolvesSame, ProceedStep DEF RowsInv
<1> QED
  BY <1>1, <1>2, <1>3

LEMMA RestartKeeps ==
  ASSUME RowsInv, Restart
  PROVE  RowsInv'
<1>1. rows' = rows /\ GivenKeys' = GivenKeys /\ bereft' = bereft /\ job' = [j \in Jobs |-> <<>>]
  BY DEF Restart, GivenKeys
<1>2. DOMAIN job' = Jobs /\ \A j \in Jobs : JobOK(rows', GivenKeys', job'[j])
  BY <1>1, NoJob
<1> QED
  BY <1>1, <1>2 DEF RowsInv

-----------------------------------------------------------------------------
(* Every step                                                              *)

LEMMA RequestsKeep ==
  ASSUME KeysTellApart, RowsInv, NEW j \in Jobs,
         \/ TenantRequests(j) \/ ListRequests(j)
         \/ \E s \in Tables("MusicServer") : ReportZone(j, s)
  PROVE  RowsInv'
<1>1. CASE TenantRequests(j)
  <2> USE <1>1
  <2>1. \E a \in Claims :
          \/ \E role \in Roles : \E o, l, u :
               \/ InviteUser(j, a, role, o, l) \/ EditUser(j, a, u, role, o, l)
          \/ \E o : CreateLocation(j, a, o) \/ CreateServer(j, a, o)
          \/ \E x : \/ RemoveUser(j, a, x) \/ CreateOrganization(j, a) \/ DeleteOrganization(j, a, x)
                    \/ EditLocation(j, a, x) \/ DeleteLocation(j, a, x) \/ RemoveServer(j, a, x)
                    \/ DeleteZone(j, a, x)
    BY DEF TenantRequests
  <2>2. "VIEWER" \in Roles
    BY DEF Roles
  <2> QED
    BY <2>1, <2>2, OwnedRequests, PlainTenantRequests
<1>2. CASE ListRequests(j)
  <2> DEFINE orders == {<<>>} \cup SetToSeqs(Tables("Track"))
  <2>1. \A q \in orders : IsFiniteSet(DOMAIN q)
    <3>1. DOMAIN <<>> = 1 .. 0 /\ IsFiniteSet(1 .. 0)
      BY FS_Interval
    <3>2. \A q \in SetToSeqs(Tables("Track")) : IsFiniteSet(DOMAIN q)
      BY OrdersAreFinite DEF RowsInv, DbOK, Tables, Rows
    <3> QED
      BY <3>1, <3>2
  <2>2. \E a \in Claims :
          \/ \E q \in orders : \E p : CreatePlaylist(j, a, p, q) \/ ChangePlaylist(j, a, p, q)
          \/ \E p, x : \/ DuplicatePlaylist(j, a, p) \/ RemovePlaylist(j, a, p)
                       \/ AddTrack(j, a, p, x) \/ RemoveTrack(j, a, p, x)
                       \/ AssignTo(j, a, x, p) \/ SetZonePlaylist(j, a, x, p)
          \/ \E x, p : \/ CreateSchedule(j, a, x, p) \/ DeleteSchedule(j, a, x)
                       \/ x \in Tables("Schedule") /\ p \in SlotChanges /\ EditSchedule(j, a, x, p)
                       \/ UploadTrack(j, a, x) \/ DiscardTrack(j, a, x)
                       \/ MoveTrack(j, a, x, p) \/ CreateFolder(j, a) \/ DeleteFolder(j, a, x)
          \/ \E z : DeleteZone(j, a, z)
    <3> HIDE DEF orders
    <3> QED
      BY <1>2 DEF ListRequests, orders
  <2> HIDE DEF orders
  <2>3. PICK a \in Claims :
          \/ \E q \in orders : \E p : CreatePlaylist(j, a, p, q) \/ ChangePlaylist(j, a, p, q)
          \/ \E p, x : \/ DuplicatePlaylist(j, a, p) \/ RemovePlaylist(j, a, p)
                       \/ AddTrack(j, a, p, x) \/ RemoveTrack(j, a, p, x)
                       \/ AssignTo(j, a, x, p) \/ SetZonePlaylist(j, a, x, p)
          \/ \E x, p : \/ CreateSchedule(j, a, x, p) \/ DeleteSchedule(j, a, x)
                       \/ x \in Tables("Schedule") /\ p \in SlotChanges /\ EditSchedule(j, a, x, p)
                       \/ UploadTrack(j, a, x) \/ DiscardTrack(j, a, x)
                       \/ MoveTrack(j, a, x, p) \/ CreateFolder(j, a) \/ DeleteFolder(j, a, x)
          \/ \E z : DeleteZone(j, a, z)
    BY <2>2
  <2> QED
    BY <2>1, <2>3, PlaylistRequests, MusicRequests, PlainTenantRequests
<1>3. CASE \E s \in Tables("MusicServer") : ReportZone(j, s)
  <2>1. "VIEWER" \in Roles
    BY DEF Roles
  <2> QED
    BY <1>3, <2>1, OwnedRequests
<1> QED
  BY <1>1, <1>2, <1>3

LEMMA StatementsKeep ==
  ASSUME KeysTellApart, RowsInv, NEW j \in Jobs, Statements(j)
  PROVE  RowsInv'
BY UsersScoped, RowsCreated, RowsUpdated, RowsDeleted, TracksCleared, TracksCopied, TracksReplaced,
   OtherStatements DEF Statements

LEMMA RowsStep ==
  ASSUME KeysTellApart, RowsInv, [PortalRowsNext]_rowVars
  PROVE  RowsInv'
<1>1. CASE Restart
  BY <1>1, RestartKeeps
<1>2. CASE \E j \in Jobs : \/ TenantRequests(j) \/ ListRequests(j) \/ Statements(j)
                           \/ \E s \in Tables("MusicServer") : ReportZone(j, s)
  BY <1>2, RequestsKeep, StatementsKeep
<1>3. CASE UNCHANGED rowVars
  <2>1. rows' = rows /\ used' = used /\ bereft' = bereft /\ job' = job /\ GivenKeys' = GivenKeys
    BY <1>3 DEF rowVars, GivenKeys
  <2> QED
    BY <2>1 DEF RowsInv
<1> QED
  BY <1>1, <1>2, <1>3 DEF PortalRowsNext, TenantNext, ListNext

\* The references of these tables, as the backend knows them.
LEMMA ModelsAre ==
  /\ Models["User"] = User /\ Models["Location"] = Location
  /\ Models["MusicServer"] = MusicServer /\ Models["Zone"] = Zone
BY DEF Models

LEMMA SeedAgrees ==
  ASSUME KeysTellApart, PortalRowsInit, TenantsAgree
  PROVE  RowsInv
<1>1. /\ rows = Seed /\ bereft = {} /\ GivenKeys = DOMAIN Seed
      /\ DOMAIN job = Jobs /\ \A j \in Jobs : job[j] = <<>>
  BY DEF PortalRowsInit, GivenKeys
<1>2. \A x \in DOMAIN Seed : /\ Satisfied(Seed, Seed[x].table, Seed[x].columns)
                             /\ DOMAIN Models[Seed[x].table] \subseteq DOMAIN Seed[x].columns
                             /\ Seed[x].table = "User" => "role" \in DOMAIN Seed[x].columns
  BY PortalRowsConstants, SeedRows
<1>3. \A x \in DOMAIN Seed : KeyOK(Seed[x].table, x, GivenKeys)
  BY <1>1 DEF KeysTellApart, KeyOK, KeysOf, Rows
<1>4. ASSUME NEW u \in Rows(Seed, "User")
      PROVE  UserOK(Seed, {}, u)
  <2> DEFINE c == Seed[u].columns
  <2>1. u \in DOMAIN Seed /\ Seed[u].table = "User"
    BY DEF Rows
  <2>2. Satisfied(Seed, "User", c) /\ DOMAIN User \subseteq DOMAIN c /\ "role" \in DOMAIN c
    BY <1>2, <2>1, ModelsAre
  <2>3. {"role", "organization", "location"} \subseteq DOMAIN c
    BY <2>2 DEF User
  <2>4. c.location = Null \/ c.location \in Rows(Seed, "Location")
    BY <2>2, ModelsAre DEF Satisfied, User, SetNull
  <2> QED
    BY <1>1, <2>3, <2>4 DEF TenantsAgree, Tables, OrganizationOf, UserOK
<1>5. ASSUME NEW l \in Rows(Seed, "Location")
      PROVE  LocationOK(Seed, l)
  <2> DEFINE c == Seed[l].columns
  <2>1. l \in DOMAIN Seed /\ Seed[l].table = "Location"
    BY DEF Rows
  <2>2. Satisfied(Seed, "Location", c) /\ DOMAIN Location \subseteq DOMAIN c
    BY <1>2, <2>1, ModelsAre
  <2>3. c.organization \in Rows(Seed, "Organization")
    BY <2>2, ModelsAre DEF Satisfied, Optional, Location, Cascade
  <2> QED
    BY <2>2, <2>3 DEF LocationOK, Location
<1>6. ASSUME NEW s \in Rows(Seed, "MusicServer")
      PROVE  ServerOK(Seed, s)
  <2> DEFINE c == Seed[s].columns
  <2>1. s \in DOMAIN Seed /\ Seed[s].table = "MusicServer"
    BY DEF Rows
  <2>2. Satisfied(Seed, "MusicServer", c) /\ DOMAIN MusicServer \subseteq DOMAIN c
    BY <1>2, <2>1, ModelsAre
  <2>3. c.location \in Rows(Seed, "Location")
    BY <2>2, ModelsAre DEF Satisfied, Optional, MusicServer, Cascade
  <2>4. {"organization", "location"} \subseteq DOMAIN c
    BY <2>2 DEF MusicServer
  <2> QED
    BY <1>1, <2>3, <2>4 DEF TenantsAgree, Tables, OrganizationOf, ServerOK
<1>7. ASSUME NEW z \in Rows(Seed, "Zone")
      PROVE  ZoneOK(Seed, z)
  <2> DEFINE c == Seed[z].columns
  <2>1. z \in DOMAIN Seed /\ Seed[z].table = "Zone"
    BY DEF Rows
  <2>2. Satisfied(Seed, "Zone", c) /\ DOMAIN Zone \subseteq DOMAIN c
    BY <1>2, <2>1, ModelsAre
  <2>3. c.server \in Rows(Seed, "MusicServer")
    BY <2>2, ModelsAre DEF Satisfied, Optional, Zone, Cascade
  <2>4. {"server", "location"} \subseteq DOMAIN c
    BY <2>2 DEF Zone
  <2> QED
    BY <1>1, <2>3, <2>4 DEF TenantsAgree, Tables, ZoneOK
<1>8. DbOK(rows, GivenKeys, bereft)
  BY <1>1, <1>3, <1>4, <1>5, <1>6, <1>7 DEF KeysTellApart, DbOK
<1>9. \A j \in Jobs : JobOK(rows, GivenKeys, job[j])
  BY <1>1, NoJob
<1> QED
  BY <1>1, <1>8, <1>9 DEF RowsInv

LEMMA RowsAgree == RowsInv => TenantsAgree
BY DEF RowsInv, DbOK, UserOK, ServerOK, ZoneOK, TenantsAgree, Tables, OrganizationOf

\* The invariant is inductive: the keys of the tables stay apart, the references that say whose a
\* row is name rows that are there and agree, and what a request has yet to write still fits the
\* rows there are, however the statements of requests interleave with deletions and restarts.
THEOREM TenantsInductive ==
  ASSUME PairsAreTracks
  PROVE  PortalRowsSpec /\ TenantsAgree => []RowsInv
<1>1. PortalRowsInit /\ TenantsAgree => RowsInv
  BY KeysDiffer, SeedAgrees
<1>2. RowsInv /\ [PortalRowsNext]_rowVars => RowsInv'
  BY KeysDiffer, RowsStep
<1> QED
  BY <1>1, <1>2, PTL DEF PortalRowsSpec

\* Every row of the portal names one tenant (resolveScope of users.ts, POST /servers, POST
\* /server/zones/sync), if those there at the start do, whatever is invited, moved and deleted.
THEOREM EveryRowHasOneTenant ==
  ASSUME PairsAreTracks
  PROVE  PortalRowsSpec /\ TenantsAgree => []TenantsAgree
BY TenantsInductive, RowsAgree, PTL

==============================================================================
