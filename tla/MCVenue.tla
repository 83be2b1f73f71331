------------------------------- MODULE MCVenue -------------------------------
(***************************************************************************)
(* One instance for the parts of a venue's life that share no state at the  *)
(* granularity of their modules: a behaviour exercises one of them (focus)  *)
(* and leaves the others where they began, so that the states to check are  *)
(* the sum of theirs and not the product.                                   *)
(***************************************************************************)
EXTENDS ServerLifecycle, TrackSync, ZoneReports, VenueQueue, AgentLink, Equalizer, Sessions,
        PrayerTimes, DemoPrayer, PortalRows, PortalApi, PortalCache, PortalPages

CONSTANTS s1, a1, z1, z2, r1, p1, p2, m1, za, pa, pb, da,
          o1, o2, o3, l1, l2, l3, u1, u2, n1, n2, n3, t1, t3, f1, f2, d3, d4, h2, h3, h4,
          Parts   \* the parts a run explores

VARIABLE focus    \* the part that moves

venueVars == <<focus, lifecycleVars, trackVars, zoneVars, queueVars, linkVars, eqVars,
               sessionVars, timesVars, demoVars, rowVars, cacheVars, pageVars>>

MCSibling == Servers \X Servers

\* p1 all day, and p2 in the afternoon instead.
MCSlots == {[playlist |-> p1, today |-> TRUE, start |-> 0, end |-> 2, priority |-> 0],
            [playlist |-> p2, today |-> TRUE, start |-> 1, end |-> 2, priority |-> 1]}

MCContents == [p \in Playlists |-> IF p = p1 THEN {m1} ELSE Songs]

\* za keeps its clock, the other zone changes it in the night after day 0.
MCClock == [z \in Zones |-> IF z = za THEN [before |-> 4, after |-> 4, at |-> 0]
                            ELSE [before |-> 1, after |-> 2, at |-> 25]]

MCCityZone == [p \in Places |-> CHOOSE z \in Zones : (z = za) = (p = pa)]

\* The prayer of pa and that of pb, an hour later from day 1.
MCSun == [x \in Places \X Dates |->
            24 * x[2] + (IF x[1] = pa THEN 1 ELSE 5) + (IF x[2] > 0 THEN 1 ELSE 0)]

MCConfigs == {[linked |-> TRUE, point |-> pb, city |-> pb, zone |-> za],
              [linked |-> FALSE, point |-> Nowhere, city |-> pb, zone |-> Nowhere]}

\* The prayer of da, and that of the other place, an hour earlier.
MCCalled == [x \in DemoPlaces \X Days |-> IF x[1] = da THEN 1 ELSE 0]

\* Two organizations with a venue each, and in the first a manager, a server with two zones, a
\* track and a playlist of it, which is scheduled; a playlist that is everyone's is played.
MCSeed ==
  LET Row(table, columns) == [table |-> table, columns |-> columns] IN
     (o1 :> Row("Organization", NoReferences)) @@ (o2 :> Row("Organization", NoReferences))
  @@ (l1 :> Row("Location", [organization |-> o1]))
  @@ (l2 :> Row("Location", [organization |-> o2]))
  @@ (u1 :> Row("User", [role |-> "LOCATION_MANAGER", organization |-> o1, location |-> l1]))
  @@ (n1 :> Row("MusicServer", [organization |-> o1, location |-> l1]))
  @@ (z1 :> Row("Zone", [server |-> n1, location |-> l1, currentPlaylist |-> p2]))
  @@ (z2 :> Row("Zone", [server |-> n1, location |-> l1, currentPlaylist |-> Null]))
  @@ (p1 :> Row("Playlist", [organization |-> o1]))
  @@ (p2 :> Row("Playlist", [organization |-> Null]))
  @@ (t1 :> Row("Track", [folder |-> f1])) @@ (m1 :> Row("Track", [folder |-> Null]))
  @@ (<<p1, t1>> :> Row("PlaylistTrack", [playlist |-> p1, track |-> t1, position |-> 0]))
  @@ (f1 :> Row("MusicFolder", NoReferences))
  @@ (h2 :> Row("Schedule", [zone |-> z1, playlist |-> p1]))
  @@ (<<z1, p1>> :> Row("PlaylistAssignment", [playlist |-> p1, target |-> z1]))

MCKeys == [User |-> {u2}, Organization |-> {o3}, Location |-> {l3}, MusicServer |-> {n2},
           Zone |-> {n3}, Playlist |-> {d3}, PlaylistAssignment |-> {d4, h4}, Schedule |-> {h3},
           Track |-> {t3}, MusicFolder |-> {f2}]

MCClaims == {[role |-> "SUPER_ADMIN", organization |-> Null, location |-> Null],
             [role |-> "ORGANIZATION_ADMIN", organization |-> o1, location |-> Null],
             [role |-> "LOCATION_MANAGER", organization |-> o1, location |-> l1],
             [role |-> "VIEWER", organization |-> o1, location |-> l1]}

-----------------------------------------------------------------------------
\* What holds of a part that does not move.
Still(part, fact) == focus # part => fact

VenueInit ==
  /\ focus \in Parts
  /\ LifecycleInit /\ TrackSyncInit /\ SessionsInit /\ PortalRowsInit
  /\ PortalCacheInit   /\ Still("cache", mode = "real" /\ viewed.hook = "useUsers")
  /\ PortalPagesInit   /\ Still("pages", userRole = "VIEWER")
  /\ ZoneReportsInit   /\ Still("zones", localZones = {})
  /\ VenueQueueInit    /\ contents = MCContents /\ Still("queue", slots = {} /\ mapped = {})
  /\ AgentLinkInit     /\ Still("link", ~ paired)
  /\ EqualizerInit     /\ Still("equalizer", bound = [z \in EqZones |-> NoDevice])
  /\ PrayerTimesInit
  /\ Still("place", location = [zone |-> za, city |-> pa] /\ settings.linked)
  /\ DemoPrayerInit    /\ Still("demo", wanted = Off /\ demoNow = 0)

\* The one machine a1, with two servers and no faults, or these without "Forget Server", or with the
\* one server s1 and both, and a second code for it; or any number of machines that only pair, with
\* faults. The machine with two servers is told to forget s1, which is like the other.
ServerMoves ==
  LET OneMachine == \A a \in Agents \ {a1} : pairing'[a] = NoPairing
      OneServer  == \A s \in Servers \ {s1} : ~ row'[s].exists
      OneCode(S) == \A s \in S : codes'[s] <= 1 IN
  /\ LifecycleNext
  /\ \/ /\ focus = "servers" /\ OneMachine /\ OneCode(Servers) /\ mishaps' = 0
        /\ forget'.server \in {NoServer, s1}
     \/ focus = "pairings" /\ OneMachine /\ OneCode(Servers) /\ mishaps' = 0 /\ forget' = NoForget
     \/ focus = "forgets" /\ OneMachine /\ OneServer
     \/ /\ focus = "claims" /\ OneCode(Servers) /\ forget' = NoForget /\ offline' = NoSweep
        /\ \A a \in Agents : beat'[a] = NoBeat

\* Runs overlap, after two requests, or with a fault after one; or a fault comes while one run goes on.
TracksMove ==
  /\ focus = "tracks" /\ TrackSyncNext
  /\ \/ troubles' = 0 \/ requests' <= 1
     \/ Cardinality({r \in SyncRuns : syncRun'[r].pc # "idle"}) < 2

\* Reports one at a time, or those of the zone z1 alone.
ZonesMove ==
  \/ /\ focus = "zones" /\ ZoneReportsNext
     /\ Cardinality({r \in Reports : report'[r].pc # "idle"}) < 2
  \/ focus = "reports" /\ ZoneReportsNext /\ localZones' \subseteq {z1}

\* One run at a time, or an assignment without schedules.
QueueMoves ==
  \/ /\ focus = "queue" /\ VenueQueueNext /\ queueEdits' + queueFaults' < 2
     /\ \A r \in QueueRuns \ {r1} : queueRun'[r] = NoQueueRun
  \/ focus = "runs" /\ VenueQueueNext /\ slots' = {} /\ clock' = 0 /\ queueFaults' = 0

\* The venue's place is resolved, or its times are asked for around a single edit, twice if a
\* fault comes in between.
PrayerMoves ==
  \/ focus = "place" /\ PrayerTimesNext /\ asks' = 0 /\ now' = 0 /\ prayerFaults' = 0
  \/ focus = "times" /\ PrayerTimesNext /\ venueEdits' <= 1 /\ (prayerFaults' = 0 \/ asks' <= 2)

\* From the first change on, the tab stays in view.
DemoMoves == focus = "demo" /\ DemoPrayerNext /\ (demoActs' = 0 \/ ~ hidden')

\* Who and what there is, or what is played.
RowsMove ==
  \/ focus = "tenants" /\ TenantNext
  \/ focus = "lists" /\ ListNext

\* One edit of any query, or one with a fault where it is not polled; and two of a few queries,
\* which between them are refreshed, replaced and left behind.
CacheMoves ==
  /\ focus = "cache" /\ PortalCacheNext
  /\ \/ edits' + cacheFaults' <= 1
     \/ /\ edits' + cacheFaults' <= 2 /\ mode = "real" /\ ~ viewed.polled
        /\ edits' = 2 => viewed.hook \in {"useTracks", "usePlaylist", "useLocation",
                                          "usePrayerConfig"}

VenueNext ==
  /\ UNCHANGED focus
  /\ \/ /\ ServerMoves
        /\ UNCHANGED <<trackVars, zoneVars, queueVars, linkVars, eqVars, sessionVars, timesVars,
                       demoVars, rowVars, cacheVars, pageVars>>
     \/ /\ TracksMove
        /\ UNCHANGED <<lifecycleVars, zoneVars, queueVars, linkVars, eqVars, sessionVars,
                       timesVars, demoVars, rowVars, cacheVars, pageVars>>
     \/ /\ ZonesMove
        /\ UNCHANGED <<lifecycleVars, trackVars, queueVars, linkVars, eqVars, sessionVars,
                       timesVars, demoVars, rowVars, cacheVars, pageVars>>
     \/ /\ QueueMoves
        /\ UNCHANGED <<lifecycleVars, trackVars, zoneVars, linkVars, eqVars, sessionVars,
                       timesVars, demoVars, rowVars, cacheVars, pageVars>>
     \/ /\ focus = "link" /\ AgentLinkNext
        /\ UNCHANGED <<lifecycleVars, trackVars, zoneVars, queueVars, eqVars, sessionVars,
                       timesVars, demoVars, rowVars, cacheVars, pageVars>>
     \/ /\ focus = "equalizer" /\ EqualizerNext
        /\ UNCHANGED <<lifecycleVars, trackVars, zoneVars, queueVars, linkVars, sessionVars,
                       timesVars, demoVars, rowVars, cacheVars, pageVars>>
     \/ /\ focus = "sessions" /\ SessionsNext
        /\ UNCHANGED <<lifecycleVars, trackVars, zoneVars, queueVars, linkVars, eqVars, timesVars,
                       demoVars, rowVars, cacheVars, pageVars>>
     \/ /\ PrayerMoves
        /\ UNCHANGED <<lifecycleVars, trackVars, zoneVars, queueVars, linkVars, eqVars,
                       sessionVars, demoVars, rowVars, cacheVars, pageVars>>
     \/ /\ DemoMoves
        /\ UNCHANGED <<lifecycleVars, trackVars, zoneVars, queueVars, linkVars, eqVars,
                       sessionVars, timesVars, rowVars, cacheVars, pageVars>>
     \/ /\ RowsMove
        /\ UNCHANGED <<lifecycleVars, trackVars, zoneVars, queueVars, linkVars, eqVars,
                       sessionVars, timesVars, demoVars, cacheVars, pageVars>>
     \/ /\ CacheMoves
        /\ UNCHANGED <<lifecycleVars, trackVars, zoneVars, queueVars, linkVars, eqVars,
                       sessionVars, timesVars, demoVars, rowVars, pageVars>>
     \/ /\ focus = "pages" /\ PortalPagesNext
        /\ UNCHANGED <<lifecycleVars, trackVars, zoneVars, queueVars, linkVars, eqVars,
                       sessionVars, timesVars, demoVars, rowVars, cacheVars>>

On(parts, A) == focus \in parts /\ A

\* The fairness of each part, which is asked of it only while it moves.
VenueFairness ==
  /\ \A s \in Servers : WF_lifecycleVars(On({"pairings", "forgets"}, SeenAges(s)))
  /\ WF_lifecycleVars(On({"forgets"}, ForgetSteps))
  /\ WF_lifecycleVars(On({"pairings", "forgets"}, \E s \in Servers : RetentionDelete(s)))
  /\ SF_lifecycleVars(On({"pairings", "forgets"}, SweepRead))
  /\ WF_lifecycleVars(On({"pairings", "forgets"}, SweepSteps))
  /\ \A a \in Agents : /\ WF_lifecycleVars(On({"pairings", "forgets"}, PairSteps(a)))
                       /\ WF_lifecycleVars(On({"forgets"}, WipeSteps(a)))
                       /\ SF_lifecycleVars(On({"pairings", "forgets"}, BeatBegin(a)))
                       /\ WF_lifecycleVars(On({"pairings", "forgets"}, BeatWrite(a)))
  /\ WF_trackVars(On({"tracks"}, \E r \in SyncRuns : SyncBegin(r)))
  /\ \A r \in SyncRuns : WF_trackVars(On({"tracks"}, SyncSteps(r)))
  /\ WF_zoneVars(On({"zones", "reports"}, \E r \in Reports : BeginReport(r)))
  /\ \A r \in Reports : WF_zoneVars(On({"zones", "reports"}, ReportSteps(r)))
  /\ \A z \in LocalZones : /\ WF_zoneVars(On({"zones", "reports"}, CreateSyncConfig(z)))
                           /\ SF_zoneVars(On({"zones", "reports"},
                                \E r \in Reports : RunSyncConfig(r, z)))
  /\ WF_queueVars(On({"queue", "runs"}, \E r \in QueueRuns : FetchAssignment(r)))
  /\ \A r \in QueueRuns : WF_queueVars(On({"queue", "runs"}, QueueSteps(r)))
  /\ WF_linkVars(On({"link"}, StartGoesOn)) /\ WF_linkVars(On({"link"}, ReconnectFires))
  /\ \A w \in Sockets : WF_linkVars(On({"link"}, Accept(w) \/ CloseEvent(w)))
  /\ \A r \in EqRuns : WF_eqVars(On({"equalizer"}, EqSteps(r)))
  /\ WF_demoVars(On({"demo"}, DemoTimePasses)) /\ WF_demoVars(On({"demo"}, DemoTimers))
  /\ WF_demoVars(On({"demo"}, Apply))

VenueSpec     == VenueInit /\ [][VenueNext]_venueVars
VenueFairSpec == VenueSpec /\ VenueFairness

\* Every part keeps its types.
VenueTypeOK ==
  /\ LifecycleTypeOK /\ TrackSyncTypeOK /\ ZoneReportsTypeOK /\ VenueQueueTypeOK
  /\ AgentLinkTypeOK /\ EqualizerTypeOK /\ SessionsTypeOK /\ PrayerTimesTypeOK
  /\ DemoPrayerTypeOK /\ PortalRowsTypeOK /\ PortalCacheTypeOK
  /\ PortalPagesTypeOK
=============================================================================
