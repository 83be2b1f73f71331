------------------------------ MODULE AgentProofs ------------------------------
(***************************************************************************)
(* The agent and the server it is paired with, for any number of machines,   *)
(* servers, sockets, lost connections, tracks, overlapping runs, requests,   *)
(* zones, devices, commands and disturbances: an agent that shows itself as  *)
(* running polls, and reconnecting never multiplies the connections of a     *)
(* start(); a track that the portal shows as cached has a file on the        *)
(* machine's disk; config.txt matches the zone files whenever nobody writes  *)
(* and no write has failed, and a curve that was acknowledged stays in force *)
(* as long as commands do not overlap; a machine that "Forget Server" has    *)
(* reached is shut, no token outlives its row, and pairing implements        *)
(* PairingPromise.                                                          *)
(***************************************************************************)
EXTENDS AgentLink, TrackSync, Equalizer, ServerLifecycle, FiniteSetTheorems, SequenceTheorems,
        TLAPS

-----------------------------------------------------------------------------
(* The connection to the hub (AgentLink) *)
\* The socket that is tracked exists, so that giving it up opens none.
TrackedIsLive == socket # NoSocket => wire[socket] # "none"

\* The invariant that is inductive.
LinkInv ==
  /\ AgentLinkTypeOK /\ RunningPolls /\ SocketsPerStart
  /\ TrackedIsLive /\ IsFiniteSet(Live)

-----------------------------------------------------------------------------
(* How the sockets that exist change *)

\* A socket is created.
LEMMA OneMore ==
  ASSUME AgentLinkTypeOK, IsFiniteSet(Live), NEW w \in Sockets, wire[w] = "none",
         wire' = [wire EXCEPT ![w] = "connecting"]
  PROVE  /\ IsFiniteSet(Live') /\ Cardinality(Live') = Cardinality(Live) + 1
         /\ wire' \in [Sockets -> {"none", "connecting", "open", "closing"}]
         /\ wire'[w] # "none"
<1>1. Live' = Live \cup {w} /\ w \notin Live
  BY DEF Live, AgentLinkTypeOK
<1>2. wire' \in [Sockets -> {"none", "connecting", "open", "closing"}] /\ wire'[w] # "none"
  BY DEF AgentLinkTypeOK
<1> QED
  BY <1>1, <1>2, FS_AddElement

\* A socket is closed.
LEMMA OneLess ==
  ASSUME AgentLinkTypeOK, IsFiniteSet(Live), NEW w \in Sockets, wire[w] # "none",
         wire' = [wire EXCEPT ![w] = "none"]
  PROVE  /\ IsFiniteSet(Live') /\ Cardinality(Live') = Cardinality(Live) - 1
         /\ wire' \in [Sockets -> {"none", "connecting", "open", "closing"}]
<1>1. Live' = Live \ {w} /\ w \in Live
  BY DEF Live, AgentLinkTypeOK
<1>2. wire' \in [Sockets -> {"none", "connecting", "open", "closing"}]
  BY DEF AgentLinkTypeOK
<1> QED
  BY <1>1, <1>2, FS_RemoveElement

\* A socket that exists changes its state.
LEMMA AsMany ==
  ASSUME AgentLinkTypeOK, NEW w \in Sockets, NEW state \in {"open", "closing"}, wire[w] # "none",
         wire' = [wire EXCEPT ![w] = state]
  PROVE  /\ Live' = Live
         /\ wire' \in [Sockets -> {"none", "connecting", "open", "closing"}]
BY DEF Live, AgentLinkTypeOK

\* stop() leaves every socket there is, and tracks none.
LEMMA StopKeeps ==
  ASSUME LinkInv, Stop
  PROVE  /\ Live' = Live /\ socket' = NoSocket /\ loops' = 0 /\ reconnect' = FALSE
         /\ wire' \in [Sockets -> {"none", "connecting", "open", "closing"}]
<1>1. CASE socket = NoSocket
  BY <1>1 DEF LinkInv, AgentLinkTypeOK, Stop, Live
<1>2. CASE socket # NoSocket
  <2>1. socket \in Sockets /\ wire[socket] # "none" /\ wire' = [wire EXCEPT ![socket] = "closing"]
    BY <1>2 DEF LinkInv, AgentLinkTypeOK, TrackedIsLive, Stop
  <2> QED
    BY <2>1, AsMany DEF LinkInv, Stop
<1> QED
  BY <1>1, <1>2

\* connect() adds a socket or a timer, or neither.
LEMMA ConnectAddsOne ==
  ASSUME LinkInv, NEW armed \in BOOLEAN, Connect(armed)
  PROVE  /\ IsFiniteSet(Live') /\ TrackedIsLive'
         /\ wire' \in [Sockets -> {"none", "connecting", "open", "closing"}]
         /\ socket' \in Sockets \cup {NoSocket} /\ reconnect' \in BOOLEAN /\ drops' \in Nat
         /\ Cardinality(Live') + (IF reconnect' THEN 1 ELSE 0)
              <= Cardinality(Live) + (IF armed THEN 1 ELSE 0) + 1
<1>0. Cardinality(Live) \in Nat
  BY FS_CardinalityType DEF LinkInv
<1>1. CASE ~ paired /\ reconnect' = armed /\ UNCHANGED <<socket, wire, drops>>
  BY <1>0, <1>1 DEF LinkInv, AgentLinkTypeOK, TrackedIsLive, Live
<1>2. ASSUME NEW w \in Sockets, wire[w] = "none", wire' = [wire EXCEPT ![w] = "connecting"],
             socket' = w, reconnect' = armed, UNCHANGED drops
      PROVE  /\ IsFiniteSet(Live') /\ TrackedIsLive'
             /\ wire' \in [Sockets -> {"none", "connecting", "open", "closing"}]
             /\ socket' \in Sockets \cup {NoSocket} /\ reconnect' \in BOOLEAN /\ drops' \in Nat
             /\ Cardinality(Live') + (IF reconnect' THEN 1 ELSE 0)
                  <= Cardinality(Live) + (IF armed THEN 1 ELSE 0) + 1
  <2>1. /\ IsFiniteSet(Live') /\ Cardinality(Live') = Cardinality(Live) + 1
        /\ wire' \in [Sockets -> {"none", "connecting", "open", "closing"}]
        /\ wire'[w] # "none"
    BY <1>2, OneMore DEF LinkInv
  <2> QED
    BY <1>0, <1>2, <2>1 DEF LinkInv, AgentLinkTypeOK, TrackedIsLive
<1>3. CASE drops' = drops + 1 /\ reconnect' = TRUE /\ UNCHANGED <<socket, wire>>
  BY <1>0, <1>3 DEF LinkInv, AgentLinkTypeOK, TrackedIsLive, Live
<1> QED
  BY <1>1, <1>2, <1>3 DEF Connect

-----------------------------------------------------------------------------
(* The invariant *)

LEMMA LinkInit ==
  ASSUME AgentLinkConstants, AgentLinkInit
  PROVE  LinkInv
<1>1. Live = {}
  BY DEF AgentLinkInit, Live
<1>2. IsFiniteSet(Live) /\ Cardinality(Live) = 0
  BY <1>1, FS_EmptySet
<1>3. starting \in {0, 1} /\ (running => starting = 1)
  BY DEF AgentLinkInit
<1>4. RunningPolls
  BY <1>3 DEF AgentLinkInit, RunningPolls
<1>5. SocketsPerStart
  BY <1>2, <1>3 DEF AgentLinkInit, SocketsPerStart
<1>6. paired \in BOOLEAN /\ running \in BOOLEAN /\ reconnect \in BOOLEAN
  BY DEF AgentLinkInit
<1>7. AgentLinkTypeOK /\ TrackedIsLive
  BY <1>3, <1>6 DEF AgentLinkInit, AgentLinkTypeOK, TrackedIsLive
<1> QED
  BY <1>2, <1>4, <1>5, <1>7 DEF LinkInv

LEMMA PairStep ==
  ASSUME AgentLinkConstants, LinkInv, Pair
  PROVE  LinkInv'
<1>1. /\ Live' = Live /\ socket' = NoSocket /\ loops' = 0 /\ reconnect' = FALSE
      /\ wire' \in [Sockets -> {"none", "connecting", "open", "closing"}]
  BY StopKeeps DEF Pair
<1>2. Cardinality(Live) \in Nat
  BY FS_CardinalityType DEF LinkInv
<1>3. Cardinality(Live') = Cardinality(Live) /\ IsFiniteSet(Live')
  BY <1>1 DEF LinkInv
<1>4. RunningPolls' /\ TrackedIsLive'
  BY <1>1 DEF Pair, LinkInv, AgentLinkTypeOK, RunningPolls, TrackedIsLive
<1>6. (paired \in BOOLEAN /\ running \in BOOLEAN /\ reconnect \in BOOLEAN)'
  BY <1>1 DEF Pair
<1>7. AgentLinkTypeOK'
  BY <1>1, <1>6 DEF Pair, LinkInv, AgentLinkTypeOK
<1>5. SocketsPerStart'
  BY <1>1, <1>2, <1>3 DEF Pair, LinkInv, AgentLinkTypeOK, SocketsPerStart
<1> QED
  BY <1>3, <1>4, <1>5, <1>7 DEF LinkInv

LEMMA ForgottenStep ==
  ASSUME AgentLinkConstants, LinkInv, Forgotten
  PROVE  LinkInv'
<1>1. /\ Live' = Live /\ socket' = NoSocket /\ loops' = 0 /\ reconnect' = FALSE
      /\ wire' \in [Sockets -> {"none", "connecting", "open", "closing"}]
  BY StopKeeps DEF Forgotten
<1>2. Cardinality(Live) \in Nat
  BY FS_CardinalityType DEF LinkInv
<1>3. Cardinality(Live') = Cardinality(Live) /\ IsFiniteSet(Live')
  BY <1>1 DEF LinkInv
<1>4. RunningPolls' /\ TrackedIsLive'
  BY <1>1 DEF Forgotten, LinkInv, AgentLinkTypeOK, RunningPolls, TrackedIsLive
<1>6. (paired \in BOOLEAN /\ running \in BOOLEAN /\ reconnect \in BOOLEAN)'
  BY <1>1 DEF Forgotten
<1>7. AgentLinkTypeOK'
  BY <1>1, <1>6 DEF Forgotten, LinkInv, AgentLinkTypeOK
<1>5. SocketsPerStart'
  BY <1>1, <1>2, <1>3 DEF Forgotten, LinkInv, AgentLinkTypeOK, SocketsPerStart
<1> QED
  BY <1>3, <1>4, <1>5, <1>7 DEF LinkInv

LEMMA StartStep ==
  ASSUME AgentLinkConstants, LinkInv, StartGoesOn
  PROVE  LinkInv'
<1>1. reconnect \in BOOLEAN
  BY DEF LinkInv, AgentLinkTypeOK
<1>2. /\ IsFiniteSet(Live') /\ TrackedIsLive'
      /\ wire' \in [Sockets -> {"none", "connecting", "open", "closing"}]
      /\ socket' \in Sockets \cup {NoSocket} /\ reconnect' \in BOOLEAN /\ drops' \in Nat
      /\ Cardinality(Live') + (IF reconnect' THEN 1 ELSE 0)
           <= Cardinality(Live) + (IF reconnect THEN 1 ELSE 0) + 1
  BY <1>1, ConnectAddsOne DEF StartGoesOn
<1>3. Cardinality(Live) \in Nat /\ Cardinality(Live') \in Nat
  BY <1>2, FS_CardinalityType DEF LinkInv
<1>4. AgentLinkTypeOK' /\ RunningPolls'
  BY <1>2 DEF StartGoesOn, LinkInv, AgentLinkTypeOK, RunningPolls
<1>5. SocketsPerStart'
  BY <1>1, <1>2, <1>3 DEF StartGoesOn, LinkInv, AgentLinkTypeOK, SocketsPerStart
<1> QED
  BY <1>2, <1>4, <1>5 DEF LinkInv

LEMMA ReconnectStep ==
  ASSUME AgentLinkConstants, LinkInv, ReconnectFires
  PROVE  LinkInv'
<1>2. /\ IsFiniteSet(Live') /\ TrackedIsLive'
      /\ wire' \in [Sockets -> {"none", "connecting", "open", "closing"}]
      /\ socket' \in Sockets \cup {NoSocket} /\ reconnect' \in BOOLEAN /\ drops' \in Nat
      /\ Cardinality(Live') + (IF reconnect' THEN 1 ELSE 0) <= Cardinality(Live) + 0 + 1
  BY ConnectAddsOne DEF ReconnectFires
<1>3. Cardinality(Live) \in Nat /\ Cardinality(Live') \in Nat
  BY <1>2, FS_CardinalityType DEF LinkInv
<1>4. AgentLinkTypeOK' /\ RunningPolls'
  BY <1>2 DEF ReconnectFires, LinkInv, AgentLinkTypeOK, RunningPolls
<1>5. SocketsPerStart'
  BY <1>2, <1>3 DEF ReconnectFires, LinkInv, AgentLinkTypeOK, SocketsPerStart
<1> QED
  BY <1>2, <1>4, <1>5 DEF LinkInv

LEMMA AcceptStep ==
  ASSUME AgentLinkConstants, LinkInv, NEW w \in Sockets, Accept(w)
  PROVE  LinkInv'
<1>1. Live' = Live /\ wire' \in [Sockets -> {"none", "connecting", "open", "closing"}]
  BY AsMany DEF Accept, LinkInv
<1>2. AgentLinkTypeOK' /\ RunningPolls' /\ TrackedIsLive'
  BY <1>1 DEF Accept, LinkInv, AgentLinkTypeOK, RunningPolls, TrackedIsLive
<1> QED
  BY <1>1, <1>2 DEF Accept, LinkInv, SocketsPerStart

LEMMA CloseStep ==
  ASSUME AgentLinkConstants, LinkInv, NEW w \in Sockets, CloseEvent(w)
  PROVE  LinkInv'
<1>1. /\ IsFiniteSet(Live') /\ Cardinality(Live') = Cardinality(Live) - 1
      /\ wire' \in [Sockets -> {"none", "connecting", "open", "closing"}]
  BY OneLess DEF CloseEvent, LinkInv
<1>2. Cardinality(Live) \in Nat
  BY FS_CardinalityType DEF LinkInv
<1>3. AgentLinkTypeOK' /\ RunningPolls'
  BY <1>1 DEF CloseEvent, LinkInv, AgentLinkTypeOK, RunningPolls
<1>4. TrackedIsLive'
  BY DEF CloseEvent, LinkInv, AgentLinkTypeOK, TrackedIsLive
<1>5. SocketsPerStart'
  BY <1>1, <1>2 DEF CloseEvent, LinkInv, AgentLinkTypeOK, SocketsPerStart
<1> QED
  BY <1>1, <1>3, <1>4, <1>5 DEF LinkInv

\* The invariant holds for any sockets, pairings and faults.
THEOREM LinkInductive == AgentLinkSpec => []LinkInv
<1>1. AgentLinkInit => LinkInv
  BY AgentLinkConstants, LinkInit
<1>2. LinkInv /\ [AgentLinkNext]_linkVars => LinkInv'
  <2> SUFFICES ASSUME LinkInv, [AgentLinkNext]_linkVars
               PROVE  LinkInv'
    OBVIOUS
  <2>1. CASE Pair
    BY <2>1, AgentLinkConstants, PairStep
  <2>2. CASE Forgotten
    BY <2>2, AgentLinkConstants, ForgottenStep
  <2>3. CASE StartGoesOn
    BY <2>3, AgentLinkConstants, StartStep
  <2>4. CASE ReconnectFires
    BY <2>4, AgentLinkConstants, ReconnectStep
  <2>5. ASSUME NEW w \in Sockets, Accept(w)
        PROVE  LinkInv'
    BY <2>5, AgentLinkConstants, AcceptStep
  <2>6. ASSUME NEW w \in Sockets, CloseEvent(w)
        PROVE  LinkInv'
    BY <2>6, AgentLinkConstants, CloseStep
  <2>7. CASE UNCHANGED linkVars
    BY <2>7 DEF linkVars, LinkInv, AgentLinkTypeOK, RunningPolls, SocketsPerStart,
                TrackedIsLive, Live
  <2> QED
    BY <2>1, <2>2, <2>3, <2>4, <2>5, <2>6, <2>7 DEF AgentLinkNext
<1> QED
  BY <1>1, <1>2, PTL DEF AgentLinkSpec

\* An agent that shows itself as running has loops that poll the cloud, or a start() that is
\* about to set them.
THEOREM RunningAgentPolls == AgentLinkSpec => []RunningPolls
<1>1. LinkInv => RunningPolls
  BY DEF LinkInv
<1> QED
  BY <1>1, LinkInductive, PTL

\* Sockets and reconnect timers never outnumber the calls of start(), whatever is refused, cut
\* or given up.
THEOREM ConnectionsDoNotMultiply == AgentLinkSpec => []SocketsPerStart
<1>1. LinkInv => SocketsPerStart
  BY DEF LinkInv
<1> QED
  BY <1>1, LinkInductive, PTL

-----------------------------------------------------------------------------
(* Tracks (TrackSync) *)
States == {"NONE", "QUEUED_FOR_SYNC", "SYNCING", "CACHED_ON_SERVER"}

Library == [cached : SUBSET Tracks, mapped : SUBSET Tracks]

SyncRec == [pc : {"idle", "sent", "stored", "read", "replied", "work", "fetched", "written"},
            followUp : BOOLEAN, report : SUBSET Tracks, todo : SUBSET Tracks,
            before : SUBSET Files, track : SUBSET Tracks, any : BOOLEAN]

\* Each of the tracks has a file among those held.
HaveFiles(tracks, held) == \A t \in tracks : \E f \in held : f[1] = t

\* A run holds one track at a time, whose file is there once it is written.
OneTrack(q, held) ==
  /\ q.pc \in {"fetched", "written"} => \E t \in Tracks : q.track = {t}
  /\ q.pc = "written" => HaveFiles(q.track, held)

\* What the agent counts as cached, in its memory, in the state file and in the reports on
\* their way, is on the disk.
Known ==
  /\ HaveFiles(library.cached, disk) /\ HaveFiles(saved.cached, disk)
  /\ \A r \in SyncRuns : HaveFiles(syncRun[r].report, disk) /\ OneTrack(syncRun[r], disk)

\* The invariant that is inductive.
TrackInv == TrackSyncTypeOK /\ Known /\ CachedIsOnDisk

-----------------------------------------------------------------------------
\* Files are never removed by the agent, so what had one keeps it.
LEMMA MoreFiles ==
  ASSUME NEW tracks, NEW held, NEW more, held \subseteq more, HaveFiles(tracks, held)
  PROVE  HaveFiles(tracks, more)
BY DEF HaveFiles

LEMMA IdleRun ==
  /\ NoRun \in SyncRec /\ NoRun.pc = "idle" /\ NoRun.report = {} /\ NoRun.followUp = FALSE
  /\ NoRun.todo = {} /\ NoRun.before = {} /\ NoRun.track = {} /\ NoRun.any = FALSE
<1>1. NoRun.followUp = FALSE /\ NoRun.any = FALSE
  BY DEF NoRun
<1>2. /\ NoRun.pc = "idle" /\ NoRun.report = {} /\ NoRun.todo = {} /\ NoRun.before = {}
      /\ NoRun.track = {}
  BY DEF NoRun
<1>3. NoRun \in SyncRec
  BY DEF NoRun, SyncRec
<1> QED
  BY <1>1, <1>2, <1>3

\* What is not a run keeps its type.
Surroundings ==
  /\ syncState \in [Tracks -> States] /\ removed \subseteq Tracks /\ assign \subseteq Tracks
  /\ library \in Library /\ saved \in Library
  /\ disk \subseteq Files /\ scanned \subseteq disk
  /\ requests \in Nat /\ troubles \in Nat

LEMMA Types ==
  TrackSyncTypeOK <=> Surroundings /\ syncRun \in [SyncRuns -> SyncRec]
BY DEF TrackSyncTypeOK, Surroundings, States, Library, SyncRec

\* A step of one run: what it must keep for the invariant to hold after it.
LEMMA RunStep ==
  ASSUME TrackInv, NEW r \in SyncRuns, NEW m \in SyncRec, SyncStep(r, m), Surroundings',
         disk \subseteq disk', HaveFiles(m.report, disk'), OneTrack(m, disk'),
         HaveFiles(library'.cached, disk'), HaveFiles(saved'.cached, disk'),
         \A t \in Tracks : syncState'[t] = "CACHED_ON_SERVER" =>
           syncState[t] = "CACHED_ON_SERVER" \/ \E f \in disk' : f[1] = t
  PROVE  TrackInv'
<1>1. syncRun \in [SyncRuns -> SyncRec] /\ syncRun' = [syncRun EXCEPT ![r] = m]
  BY Types DEF TrackInv, SyncStep
<1>2. /\ syncRun' \in [SyncRuns -> SyncRec] /\ syncRun'[r] = m
      /\ \A q \in SyncRuns : q # r => syncRun'[q] = syncRun[q]
  BY <1>1
<1>3. TrackSyncTypeOK'
  BY <1>2, Types DEF TrackSyncTypeOK, Surroundings, States, Library, SyncRec
<1>4. Known'
  <2>1. ASSUME NEW q \in SyncRuns
        PROVE  HaveFiles(syncRun'[q].report, disk') /\ OneTrack(syncRun'[q], disk')
    <3>1. CASE q = r
      BY <1>2, <3>1
    <3>2. CASE q # r
      BY <1>2, <3>2 DEF TrackInv, Known, OneTrack, HaveFiles
    <3> QED
      BY <3>1, <3>2
  <2> QED
    BY <2>1 DEF Known
<1>5. CachedIsOnDisk'
  BY DEF TrackInv, CachedIsOnDisk
<1> QED
  BY <1>3, <1>4, <1>5 DEF TrackInv

\* A step of one run that only goes on, with a report of tracks that have files.
LEMMA RunGoesOn ==
  ASSUME TrackInv, NEW r \in SyncRuns, NEW m \in SyncRec, SyncStep(r, m),
         HaveFiles(m.report, disk), m.pc \notin {"fetched", "written"},
         troubles' \in Nat,
         UNCHANGED <<removed, assign, library, saved, disk, scanned, requests>>,
         syncState' \in [Tracks -> States],
         \A t \in Tracks : syncState'[t] = "CACHED_ON_SERVER" =>
           syncState[t] = "CACHED_ON_SERVER" \/ \E f \in disk : f[1] = t
  PROVE  TrackInv'
<1>1. Surroundings'
  BY Types DEF TrackInv, Surroundings
<1>2. OneTrack(m, disk')
  BY DEF OneTrack
<1>3. HaveFiles(library'.cached, disk') /\ HaveFiles(saved'.cached, disk')
  BY DEF TrackInv, Known
<1> QED
  BY <1>1, <1>2, <1>3, RunStep

\* A run whose record changes in what it is to do.
LEMMA Goes ==
  ASSUME TrackInv, NEW r \in SyncRuns
  PROVE  /\ syncRun[r] \in SyncRec /\ HaveFiles(syncRun[r].report, disk)
         /\ OneTrack(syncRun[r], disk) /\ syncState \in [Tracks -> States]
         /\ library \in Library /\ troubles \in Nat
         /\ removed \subseteq Tracks
BY Types DEF TrackInv, Known, Surroundings

-----------------------------------------------------------------------------
(* Steps *)

LEMMA Initially ==
  ASSUME TrackSyncConstants, TrackSyncInit
  PROVE  TrackInv
<1>1. syncRun \in [SyncRuns -> SyncRec] /\ \A r \in SyncRuns : syncRun[r] = NoRun
  BY IdleRun DEF TrackSyncInit
<1>3. /\ library \in Library /\ library.cached = {}
      /\ saved \in Library /\ saved.cached = {}
  BY DEF TrackSyncInit, Library
<1>4. syncState \in [Tracks -> States] /\ \A t \in Tracks : syncState[t] = "NONE"
  BY DEF TrackSyncInit, States
<1>5. Surroundings
  BY <1>3, <1>4 DEF TrackSyncInit, Surroundings
<1>6. Known
  BY <1>1, <1>3, IdleRun DEF Known, HaveFiles, OneTrack
<1>7. CachedIsOnDisk
  BY <1>4 DEF CachedIsOnDisk
<1> QED
  BY <1>1, <1>5, <1>6, <1>7, Types DEF TrackInv

\* Nothing but rows changes, and none becomes cached.
LEMMA PortalStep ==
  ASSUME TrackInv, NEW t \in Tracks,
         QueueTrack(t) \/ AssignLookup(t) \/ AssignUpsert(t) \/ DeleteTrack(t)
  PROVE  TrackInv'
<1>1. UNCHANGED <<library, saved, disk, scanned, syncRun>>
  BY DEF QueueTrack, AssignLookup, AssignUpsert, DeleteTrack
<1>2. syncState' \in [Tracks -> States]
      /\ \A u \in Tracks : syncState'[u] = "CACHED_ON_SERVER" => syncState[u] = "CACHED_ON_SERVER"
  BY Types DEF TrackInv, Surroundings, States, QueueTrack, AssignLookup, AssignUpsert, DeleteTrack
<1>3. /\ removed' \subseteq Tracks /\ assign' \subseteq Tracks
      /\ requests' \in Nat /\ troubles' \in Nat
  BY Types DEF TrackInv, Surroundings, QueueTrack, AssignLookup, AssignUpsert, DeleteTrack, Trouble
<1>4. Surroundings'
  BY <1>1, <1>2, <1>3, Types DEF TrackInv, Surroundings
<1>5. TrackSyncTypeOK'
  BY <1>1, <1>4, Types DEF TrackInv, TrackSyncTypeOK, Surroundings, States, Library, SyncRec
<1> QED
  BY <1>1, <1>2, <1>5 DEF TrackInv, Known, HaveFiles, OneTrack, CachedIsOnDisk

LEMMA BeginStep ==
  ASSUME TrackInv, NEW r \in SyncRuns, SyncBegin(r)
  PROVE  TrackInv'
<1> DEFINE m == [NoRun EXCEPT !.pc = "sent", !.report = library.cached]
<1>1. m \in SyncRec /\ m.pc = "sent" /\ m.report = library.cached
  BY IdleRun, Goes DEF SyncRec, Library
<1>2. SyncStep(r, m)
  BY DEF SyncBegin
<1> HIDE DEF m
<1>3. HaveFiles(m.report, disk)
  BY <1>1 DEF TrackInv, Known
<1> QED
  BY <1>1, <1>2, <1>3, RunGoesOn, Goes DEF SyncBegin

LEMMA StoreStep ==
  ASSUME TrackInv, NEW r \in SyncRuns, StoreReport(r)
  PROVE  TrackInv'
<1>0. syncRun[r] \in SyncRec /\ syncRun[r].pc = "sent" /\ HaveFiles(syncRun[r].report, disk)
  BY Goes DEF StoreReport
<1>1. PICK m \in SyncRec : /\ SyncStep(r, m)
                          /\ m.pc \in {"sent", "stored", "idle"}
                          /\ m.report \subseteq syncRun[r].report
  <2>1. CASE syncRun[r].report = {}
    <3>1. [syncRun[r] EXCEPT !.pc = "stored"] \in SyncRec
      BY <1>0 DEF SyncRec
    <3>2. [syncRun[r] EXCEPT !.pc = "stored"].pc = "stored"
          /\ [syncRun[r] EXCEPT !.pc = "stored"].report = syncRun[r].report
      BY <1>0 DEF SyncRec
    <3>3. SyncStep(r, [syncRun[r] EXCEPT !.pc = "stored"])
      BY <2>1 DEF StoreReport
    <3> QED
      BY <3>1, <3>2, <3>3
  <2>2. ASSUME NEW t \in syncRun[r].report,
               SyncStep(r, IF t \in removed THEN NoRun
                           ELSE [syncRun[r] EXCEPT !.report = @ \ {t}])
        PROVE  \E m \in SyncRec : /\ SyncStep(r, m)
                                 /\ m.pc \in {"sent", "stored", "idle"}
                                 /\ m.report \subseteq syncRun[r].report
    <3> DEFINE n == [syncRun[r] EXCEPT !.report = @ \ {t}]
    <3>1. n \in SyncRec /\ n.pc = "sent" /\ n.report \subseteq syncRun[r].report
      BY <1>0 DEF SyncRec
    <3> HIDE DEF n
    <3>2. SyncStep(r, NoRun) \/ SyncStep(r, n)
      BY <2>2 DEF n
    <3> QED
      BY <3>1, <3>2, IdleRun
  <2> QED
    BY <2>1, <2>2 DEF StoreReport
<1>3. HaveFiles(m.report, disk)
  BY <1>0, <1>1 DEF HaveFiles
<1>4. syncState' \in [Tracks -> States]
      /\ \A t \in Tracks : syncState'[t] = "CACHED_ON_SERVER" =>
           syncState[t] = "CACHED_ON_SERVER" \/ t \in syncRun[r].report
  BY Goes DEF StoreReport, States
<1>5. \A t \in Tracks : syncState'[t] = "CACHED_ON_SERVER" =>
        syncState[t] = "CACHED_ON_SERVER" \/ \E f \in disk : f[1] = t
  BY <1>4, Goes DEF HaveFiles
<1> QED
  BY <1>1, <1>3, <1>4, <1>5, RunGoesOn, Goes DEF StoreReport

LEMMA ReadStep ==
  ASSUME TrackInv, NEW r \in SyncRuns, ReadQueued(r)
  PROVE  TrackInv'
<1> DEFINE m == [syncRun[r] EXCEPT !.pc = "read",
                   !.todo = {t \in Tracks : syncState[t] = "QUEUED_FOR_SYNC"}]
<1>1. m \in SyncRec /\ m.pc = "read" /\ m.report = syncRun[r].report
  BY Goes DEF SyncRec
<1>2. SyncStep(r, m)
  BY DEF ReadQueued
<1> HIDE DEF m
<1> QED
  BY <1>1, <1>2, RunGoesOn, Goes DEF ReadQueued

LEMMA MarkStep ==
  ASSUME TrackInv, NEW r \in SyncRuns, MarkSyncing(r)
  PROVE  TrackInv'
<1> DEFINE m == [syncRun[r] EXCEPT !.pc = "replied"]
<1>1. m \in SyncRec /\ m.pc = "replied" /\ m.report = syncRun[r].report
  BY Goes DEF SyncRec
<1>2. SyncStep(r, m)
  BY DEF MarkSyncing
<1> HIDE DEF m
<1>3. syncState' \in [Tracks -> States]
      /\ \A t \in Tracks : syncState'[t] = "CACHED_ON_SERVER" => syncState[t] = "CACHED_ON_SERVER"
  BY Goes DEF MarkSyncing, States
<1> QED
  BY <1>1, <1>2, <1>3, RunGoesOn, Goes DEF MarkSyncing

LEMMA ReplyStep ==
  ASSUME TrackInv, NEW r \in SyncRuns, TakeReply(r)
  PROVE  TrackInv'
<1> DEFINE m == IF syncRun[r].followUp \/ syncRun[r].todo = {} THEN NoRun
                ELSE [syncRun[r] EXCEPT !.pc = "work", !.report = {}]
<1>1. m \in SyncRec /\ m.pc \in {"work", "idle"} /\ m.report = {}
  BY IdleRun, Goes DEF SyncRec
<1>2. SyncStep(r, m)
  BY DEF TakeReply
<1> HIDE DEF m
<1>3. HaveFiles(m.report, disk)
  BY <1>1 DEF HaveFiles
<1> QED
  BY <1>1, <1>2, <1>3, RunGoesOn, Goes DEF TakeReply

LEMMA LoseStep ==
  ASSUME TrackInv, NEW r \in SyncRuns, LoseReply(r)
  PROVE  TrackInv'
<1>1. SyncStep(r, NoRun) /\ troubles' \in Nat
  BY Goes DEF LoseReply, Trouble
<1>2. HaveFiles(NoRun.report, disk)
  BY IdleRun DEF HaveFiles
<1> QED
  BY <1>1, <1>2, IdleRun, RunGoesOn, Goes DEF LoseReply

LEMMA DownloadStep ==
  ASSUME TrackInv, NEW r \in SyncRuns, NEW t \in Tracks, Download(r, t)
  PROVE  TrackInv'
<1> DEFINE m == [syncRun[r] EXCEPT !.pc = "fetched", !.todo = @ \ {t}, !.before = scanned,
                                   !.track = {t}]
<1>0. scanned \subseteq Files
  BY Types DEF TrackInv, Surroundings
<1>1. m \in SyncRec /\ m.pc = "fetched" /\ m.report = syncRun[r].report /\ m.track = {t}
  BY <1>0, Goes DEF SyncRec
<1>2. SyncStep(r, m)
  BY DEF Download
<1> HIDE DEF m
<1>3. OneTrack(m, disk)
  BY <1>1 DEF OneTrack
<1>4. Surroundings'
  BY Types DEF TrackInv, Surroundings, Download
<1> QED
  BY <1>1, <1>2, <1>3, <1>4, RunStep, Goes DEF Download, TrackInv, Known

LEMMA FailStep ==
  ASSUME TrackInv, NEW r \in SyncRuns, NEW t \in Tracks, DownloadFails(r, t)
  PROVE  TrackInv'
<1> DEFINE m == [syncRun[r] EXCEPT !.todo = @ \ {t}]
<1>1. m \in SyncRec /\ m.pc = "work" /\ m.report = syncRun[r].report
  BY Goes DEF SyncRec, DownloadFails
<1>2. SyncStep(r, m)
  BY DEF DownloadFails
<1> HIDE DEF m
<1>3. troubles' \in Nat
  BY Goes DEF DownloadFails, Trouble
<1> QED
  BY <1>1, <1>2, <1>3, RunGoesOn, Goes DEF DownloadFails

LEMMA WriteStep ==
  ASSUME TrackInv, NEW r \in SyncRuns, WriteFile(r)
  PROVE  TrackInv'
<1> DEFINE m == [syncRun[r] EXCEPT !.pc = "written"]
<1>1. m \in SyncRec /\ m.pc = "written" /\ m.report = syncRun[r].report
      /\ m.track = syncRun[r].track
  BY Goes DEF SyncRec
<1>2. SyncStep(r, m)
  BY DEF WriteFile
<1> HIDE DEF m
<1>3. PICK n \in 1 .. MaxCopies, t \in syncRun[r].track : disk' = disk \cup {<<t, n>>}
  BY DEF WriteFile
<1>4. \E u \in Tracks : syncRun[r].track = {u}
  BY Goes DEF WriteFile, OneTrack
<1>5. t \in Tracks /\ syncRun[r].track = {t}
  BY <1>4
<1>6. disk' \subseteq Files /\ disk \subseteq disk'
  BY <1>3, <1>5, Types DEF TrackInv, Surroundings, Files
<1>7. Surroundings'
  BY <1>6, Types DEF TrackInv, Surroundings, WriteFile
<1>8. <<t, n>> \in disk' /\ <<t, n>>[1] = t
  BY <1>3
<1>9. OneTrack(m, disk')
  BY <1>1, <1>5, <1>8 DEF OneTrack, HaveFiles
<1>10. /\ HaveFiles(m.report, disk')
       /\ HaveFiles(library'.cached, disk') /\ HaveFiles(saved'.cached, disk')
  BY <1>1, <1>6, Goes, MoreFiles DEF TrackInv, Known, WriteFile
<1> QED
  BY <1>1, <1>2, <1>6, <1>7, <1>9, <1>10, RunStep DEF WriteFile

LEMMA ScanStep ==
  ASSUME TrackInv, NEW r \in SyncRuns, ScanAndMap(r)
  PROVE  TrackInv'
<1> DEFINE m == [syncRun[r] EXCEPT !.pc = "work", !.any = TRUE, !.track = {}, !.before = {}]
           u == CHOOSE x \in Tracks : x \in syncRun[r].track
           mapped == IF Cardinality(disk \ syncRun[r].before) = 1 THEN library.mapped \cup {u}
                     ELSE library.mapped
<1>1. m \in SyncRec /\ m.pc = "work" /\ m.report = syncRun[r].report
  BY Goes DEF SyncRec
<1>2. SyncStep(r, m) /\ library' = [cached |-> library.cached \cup {u}, mapped |-> mapped]
  BY DEF ScanAndMap
<1>3. \E t \in Tracks : syncRun[r].track = {t}
  BY Goes DEF ScanAndMap, OneTrack
<1>4. u \in Tracks /\ u \in syncRun[r].track
  BY <1>3
<1>5. mapped \subseteq Tracks
  BY <1>4, Goes DEF Library
<1> HIDE DEF m, u, mapped
<1>6. library' \in Library /\ library'.cached = library.cached \cup {u}
  BY <1>2, <1>4, <1>5, Goes DEF Library
<1>7. HaveFiles(library'.cached, disk)
  BY <1>4, <1>6, Goes DEF HaveFiles, OneTrack, ScanAndMap, TrackInv, Known
<1>8. Surroundings'
  BY <1>6, Types DEF TrackInv, Surroundings, ScanAndMap
<1>9. OneTrack(m, disk)
  BY <1>1 DEF OneTrack
<1>10. HaveFiles(m.report, disk) /\ HaveFiles(saved.cached, disk)
  BY <1>1, Goes DEF TrackInv, Known
<1>11. UNCHANGED <<disk, saved, syncState>>
  BY DEF ScanAndMap
<1> QED
  BY <1>1, <1>2, <1>7, <1>8, <1>9, <1>10, <1>11, RunStep

LEMMA ScanFailsStep ==
  ASSUME TrackInv, NEW r \in SyncRuns, ScanFails(r)
  PROVE  TrackInv'
<1> DEFINE m == [syncRun[r] EXCEPT !.pc = "work", !.track = {}, !.before = {}]
<1>1. m \in SyncRec /\ m.pc = "work" /\ m.report = syncRun[r].report
  BY Goes DEF SyncRec
<1>2. SyncStep(r, m)
  BY DEF ScanFails
<1> HIDE DEF m
<1>3. /\ scanned' \subseteq disk /\ troubles' \in Nat
      /\ UNCHANGED <<syncState, removed, assign, library, saved, disk, requests>>
  BY Types DEF TrackInv, Surroundings, ScanFails, Trouble
<1>4. Surroundings'
  BY <1>3, Types DEF TrackInv, Surroundings
<1>5. OneTrack(m, disk) /\ HaveFiles(m.report, disk)
  BY <1>1, Goes DEF OneTrack
<1>6. HaveFiles(library.cached, disk) /\ HaveFiles(saved.cached, disk)
  BY DEF TrackInv, Known
<1> QED
  BY <1>1, <1>2, <1>3, <1>4, <1>5, <1>6, RunStep

LEMMA FinishStep ==
  ASSUME TrackInv, NEW r \in SyncRuns, FinishDownloads(r)
  PROVE  TrackInv'
<1> DEFINE m == IF syncRun[r].any
                THEN [NoRun EXCEPT !.pc = "sent", !.followUp = TRUE, !.report = library.cached]
                ELSE NoRun
<1>1. m \in SyncRec /\ m.pc \in {"sent", "idle"} /\ m.report \in {library.cached, {}}
  BY IdleRun, Goes DEF SyncRec, Library
<1>2. SyncStep(r, m)
  BY DEF FinishDownloads
<1> HIDE DEF m
<1>3. OneTrack(m, disk)
  BY <1>1 DEF OneTrack
<1>4. Surroundings'
  BY Types DEF TrackInv, Surroundings, FinishDownloads
<1>5. HaveFiles(m.report, disk) /\ HaveFiles(library.cached, disk)
  BY <1>1 DEF TrackInv, Known, HaveFiles
<1> QED
  BY <1>1, <1>2, <1>3, <1>4, <1>5, RunStep DEF FinishDownloads

LEMMA RestartStep ==
  ASSUME TrackInv, AgentRestart
  PROVE  TrackInv'
<1>1. syncRun' \in [SyncRuns -> SyncRec] /\ \A r \in SyncRuns : syncRun'[r] = NoRun
  BY IdleRun DEF AgentRestart
<1>2. Surroundings'
  BY Types DEF TrackInv, Surroundings, AgentRestart, Trouble
<1>3. TrackSyncTypeOK'
  BY <1>1, <1>2 DEF TrackSyncTypeOK, Surroundings, States, Library, SyncRec
<1>4. Known'
  BY <1>1, IdleRun DEF AgentRestart, TrackInv, Known, HaveFiles, OneTrack
<1> QED
  BY <1>3, <1>4 DEF TrackInv, CachedIsOnDisk, AgentRestart

\* The invariant holds for any tracks, runs, requests and disturbances.
THEOREM TrackInductive == TrackSyncSpec => []TrackInv
<1>1. TrackSyncInit => TrackInv
  BY TrackSyncConstants, Initially
<1>2. TrackInv /\ [TrackSyncNext]_trackVars => TrackInv'
  <2> SUFFICES ASSUME TrackInv, [TrackSyncNext]_trackVars
               PROVE  TrackInv'
    OBVIOUS
  <2>1. ASSUME NEW t \in Tracks,
               QueueTrack(t) \/ AssignLookup(t) \/ AssignUpsert(t) \/ DeleteTrack(t)
        PROVE  TrackInv'
    BY <2>1, PortalStep
  <2>2. ASSUME NEW r \in SyncRuns, SyncSteps(r)
        PROVE  TrackInv'
    BY <2>2, StoreStep, ReadStep, MarkStep, ReplyStep, DownloadStep, WriteStep, ScanStep,
       FinishStep DEF SyncSteps
  <2>3. ASSUME NEW r \in SyncRuns, SyncBegin(r) \/ LoseReply(r) \/ ScanFails(r)
        PROVE  TrackInv'
    BY <2>3, BeginStep, LoseStep, ScanFailsStep
  <2>4. ASSUME NEW r \in SyncRuns, NEW t \in Tracks, DownloadFails(r, t)
        PROVE  TrackInv'
    BY <2>4, FailStep
  <2>5. CASE AgentRestart
    BY <2>5, RestartStep
  <2>6. CASE UNCHANGED trackVars
    BY <2>6 DEF trackVars, TrackInv, TrackSyncTypeOK, Known, HaveFiles, OneTrack, CachedIsOnDisk
  <2> QED
    BY <2>1, <2>2, <2>3, <2>4, <2>5, <2>6 DEF TrackSyncNext
<1> QED
  BY <1>1, <1>2, PTL DEF TrackSyncSpec

\* A track that the portal shows as cached on a server has a file on the machine's disk,
\* whatever reports were lost, overtaken or repeated and however often the agent restarted.
THEOREM CachedHasFile == TrackSyncSpec => []CachedIsOnDisk
<1>1. TrackInv => CachedIsOnDisk
  BY DEF TrackInv
<1> QED
  BY <1>1, TrackInductive, PTL

-----------------------------------------------------------------------------
(* The curves of the zones (Equalizer) *)

EqPcs == {"idle", "read", "write", "rebuild", "written", "prune", "pruned"}

EqRunRec == [pc : EqPcs, zone : SUBSET EqZones, wants : File, zones : SUBSET EqZones]

\* A command that writes has found a device, so every file names one.
WantsDevice ==
  \A r \in EqRuns : eqRun[r].pc \notin {"idle", "read"} => eqRun[r].wants.device # NoDevice
FilesNameDevices == \A z \in EqZones : files[z] # NoFile => files[z].device # NoDevice

\* Only a zone that is there has an acknowledged curve.
AppliedIsBound == \A z \in EqZones : applied[z] # NoFile => bound[z] # NoDevice

\* Commands that do not overlap are carried out one at a time.
OneAtATime ==
  ~ mingled => \A r, q \in EqRuns : eqRun[r].pc # "idle" /\ eqRun[q].pc # "idle" => r = q

\* What a command has read and written by now: the zones it read are those whose curves were
\* acknowledged, its own is not among these, and its file and its block are in place.
InForce(r) ==
  /\ eqRun[r].wants.device # NoDevice => eqRun[r].zone \subseteq eqRun[r].zones
  /\ \A z \in EqZones : applied[z] # NoFile => z \in eqRun[r].zones /\ z \notin eqRun[r].zone
  /\ eqRun[r].pc \in {"rebuild", "written", "prune", "pruned"} =>
       \A z \in eqRun[r].zone : files[z] = eqRun[r].wants
  /\ eqRun[r].pc \in {"written", "prune"} =>
       \A z \in eqRun[r].zone : <<eqRun[r].wants.device, z>> \in config
RunsInForce == ~ mingled => \A r \in EqRuns : eqRun[r].pc # "idle" => InForce(r)

\* Without faults, config.txt is behind the files only while the holder of the lock is about
\* to rebuild it.
ConfigFollows ==
  eqFaults = 0 =>
    \/ config = Mapping(files)
    \/ lock # <<>> /\ eqRun[Head(lock)].pc \in {"rebuild", "pruned"}

\* The invariant that is inductive.
EqInv ==
  /\ EqualizerTypeOK /\ WantsDevice /\ FilesNameDevices /\ AppliedIsBound
  /\ OneAtATime /\ RunsInForce /\ ConfigFollows /\ AppliedStays

-----------------------------------------------------------------------------
(* Runs *)

LEMMA IdleRec ==
  /\ NoEq \in EqRunRec /\ NoEq.pc = "idle"
  /\ NoFile \in File /\ NoFile.device = NoDevice
BY DEF NoEq, NoFile, EqRunRec, EqPcs, File

\* One command goes on to another step, and the others stay.
LEMMA Moves ==
  ASSUME EqualizerTypeOK, NEW r \in EqRuns, NEW pc \in EqPcs,
         EqStep(r, [eqRun[r] EXCEPT !.pc = pc])
  PROVE  /\ eqRun' \in [EqRuns -> EqRunRec]
         /\ eqRun'[r].pc = pc /\ eqRun'[r].zone = eqRun[r].zone
         /\ eqRun'[r].wants = eqRun[r].wants /\ eqRun'[r].zones = eqRun[r].zones
         /\ \A q \in EqRuns : q # r => eqRun'[q] = eqRun[q]
<1> DEFINE m == [eqRun[r] EXCEPT !.pc = pc]
<1>1. eqRun \in [EqRuns -> EqRunRec] /\ eqRun' = [eqRun EXCEPT ![r] = m]
  BY DEF EqualizerTypeOK, EqRunRec, EqPcs, EqStep
<1>2. /\ m \in EqRunRec /\ m.pc = pc /\ m.zone = eqRun[r].zone
      /\ m.wants = eqRun[r].wants /\ m.zones = eqRun[r].zones
  BY <1>1 DEF EqRunRec
<1> HIDE DEF m
<1> QED
  BY <1>1, <1>2

\* One command ends, and the others stay.
LEMMA Ends ==
  ASSUME EqualizerTypeOK, NEW r \in EqRuns, EqStep(r, NoEq)
  PROVE  /\ eqRun' \in [EqRuns -> EqRunRec] /\ eqRun'[r].pc = "idle"
         /\ \A q \in EqRuns : q # r => eqRun'[q] = eqRun[q]
<1>1. eqRun \in [EqRuns -> EqRunRec] /\ eqRun' = [eqRun EXCEPT ![r] = NoEq]
  BY DEF EqualizerTypeOK, EqRunRec, EqPcs, EqStep
<1> QED
  BY <1>1, IdleRec

\* The lock keeps its type, and who holds it, when somebody queues up for it.
LEMMA LockAppend ==
  ASSUME lock \in Seq(EqRuns), NEW r \in EqRuns, lock' = Append(lock, r)
  PROVE  /\ lock' \in Seq(EqRuns) /\ lock' # <<>>
         /\ lock # <<>> => Head(lock') = Head(lock)
BY AppendProperties, HeadTailAppend

LEMMA LockTail ==
  ASSUME lock \in Seq(EqRuns), lock # <<>>, lock' = Tail(lock)
  PROVE  lock' \in Seq(EqRuns)
BY HeadTailProperties

\* A configuration that is made of the files names devices only.
LEMMA MappingType ==
  ASSUME EqualizerTypeOK, FilesNameDevices
  PROVE  /\ Mapping(files) \subseteq Devices \X EqZones
         /\ \A z \in EqZones : files[z] # NoFile => <<files[z].device, z>> \in Mapping(files)
<1>1. ASSUME NEW z \in Named(files)
      PROVE  files[z].device \in Devices /\ z \in EqZones
  BY <1>1 DEF Named, EqualizerTypeOK, File, FilesNameDevices
<1>2. \A z \in EqZones : files[z] # NoFile => z \in Named(files)
  BY DEF Named
<1> QED
  BY <1>1, <1>2 DEF Mapping

-----------------------------------------------------------------------------
(* Steps *)

LEMMA EqInitially ==
  ASSUME EqualizerConstants, EqualizerInit
  PROVE  EqInv
<1>1. /\ eqRun \in [EqRuns -> EqRunRec] /\ \A r \in EqRuns : eqRun[r].pc = "idle"
      /\ files \in [EqZones -> File] /\ applied \in [EqZones -> File]
      /\ \A z \in EqZones : files[z] = NoFile /\ applied[z] = NoFile
  BY IdleRec DEF EqualizerInit
<1>6. mingled \in BOOLEAN
  <2>1. mingled = FALSE
    BY DEF EqualizerInit
  <2> QED
    BY <2>1
<1>8. lock \in Seq(EqRuns) /\ config \subseteq Devices \X EqZones
  BY DEF EqualizerInit
<1>7. bound \in [EqZones -> Devices \cup {NoDevice}] /\ eqEdits \in Nat /\ eqFaults \in Nat
  BY DEF EqualizerInit
<1>2. EqualizerTypeOK
  BY <1>1, <1>6, <1>7, <1>8 DEF EqualizerTypeOK, EqRunRec, EqPcs
<1>3. config = Mapping(files)
  BY <1>1 DEF EqualizerInit, Mapping, Named
<1>4. WantsDevice /\ FilesNameDevices /\ AppliedIsBound /\ AppliedStays
  BY <1>1 DEF WantsDevice, FilesNameDevices, AppliedIsBound, AppliedStays
<1>5. OneAtATime /\ RunsInForce /\ ConfigFollows
  BY <1>1, <1>3 DEF OneAtATime, RunsInForce, ConfigFollows
<1> QED
  BY <1>2, <1>4, <1>5 DEF EqInv

\* One command moves on without a write.
LEMMA MoveStep ==
  ASSUME EqInv, NEW r \in EqRuns, NEW pc \in {"write", "prune"},
         EqStep(r, [eqRun[r] EXCEPT !.pc = pc]), lock' = Append(lock, r),
         eqRun[r].wants.device # NoDevice,
         eqRun[r].pc = (IF pc = "write" THEN "read" ELSE "written"),
         UNCHANGED <<bound, files, config, applied, eqEdits, eqFaults, mingled>>
  PROVE  EqInv'
<1>1. /\ eqRun' \in [EqRuns -> EqRunRec]
      /\ eqRun'[r].pc = pc /\ eqRun'[r].zone = eqRun[r].zone
      /\ eqRun'[r].wants = eqRun[r].wants /\ eqRun'[r].zones = eqRun[r].zones
      /\ \A q \in EqRuns : q # r => eqRun'[q] = eqRun[q]
  BY Moves DEF EqInv, EqPcs
<1>2. /\ lock' \in Seq(EqRuns) /\ lock' # <<>>
      /\ lock # <<>> => Head(lock') = Head(lock) /\ Head(lock) \in EqRuns
  BY LockAppend, HeadTailProperties DEF EqInv, EqualizerTypeOK
<1>3. EqualizerTypeOK'
  BY <1>1, <1>2 DEF EqInv, EqualizerTypeOK, EqRunRec, EqPcs
<1>4. WantsDevice' /\ FilesNameDevices' /\ AppliedIsBound'
  BY <1>1 DEF EqInv, WantsDevice, FilesNameDevices, AppliedIsBound
<1>5. OneAtATime'
  BY <1>1 DEF EqInv, OneAtATime
<1>6. RunsInForce'
  <2> SUFFICES ASSUME ~ mingled, NEW q \in EqRuns, eqRun'[q].pc # "idle"
               PROVE  InForce(q)'
    BY DEF RunsInForce
  <2>1. eqRun[q].pc # "idle"
    BY <1>1
  <2>2. InForce(q)
    BY <2>1 DEF EqInv, RunsInForce
  <2>3. CASE q = r
    BY <1>1, <2>2, <2>3 DEF InForce
  <2>4. CASE q # r
    BY <1>1, <2>2, <2>4 DEF InForce
  <2> QED
    BY <2>3, <2>4
<1>7. ConfigFollows'
  BY <1>1, <1>2 DEF EqInv, ConfigFollows, Mapping, Named
<1> QED
  BY <1>3, <1>4, <1>5, <1>6, <1>7 DEF EqInv, AppliedStays

\* One command ends without a write.
LEMMA EndStep ==
  ASSUME EqInv, NEW r \in EqRuns, EqStep(r, NoEq), lock' \in Seq(EqRuns),
         eqFaults' \in Nat,
         eqFaults' = 0 => eqFaults = 0 /\ lock' = lock /\ eqRun[r].pc = "read",
         UNCHANGED <<bound, files, config, applied, eqEdits, mingled>>
  PROVE  EqInv'
<1>1. /\ eqRun' \in [EqRuns -> EqRunRec] /\ eqRun'[r].pc = "idle"
      /\ \A q \in EqRuns : q # r => eqRun'[q] = eqRun[q]
  BY Ends DEF EqInv
<1>2. EqualizerTypeOK'
  BY <1>1 DEF EqInv, EqualizerTypeOK, EqRunRec, EqPcs
<1>3. WantsDevice' /\ FilesNameDevices' /\ AppliedIsBound' /\ OneAtATime'
  BY <1>1 DEF EqInv, WantsDevice, FilesNameDevices, AppliedIsBound, OneAtATime
<1>4. RunsInForce'
  BY <1>1 DEF EqInv, RunsInForce, InForce
<1>5. ConfigFollows'
  <2>1. lock # <<>> => Head(lock) \in EqRuns
    BY HeadTailProperties DEF EqInv, EqualizerTypeOK
  <2> QED
    BY <1>1, <2>1 DEF EqInv, ConfigFollows, Mapping, Named
<1> QED
  BY <1>2, <1>3, <1>4, <1>5 DEF EqInv, AppliedStays

LEMMA EditStep ==
  ASSUME EqInv, NEW z \in EqZones, NEW d \in Devices \cup {NoDevice}, EditZone(z, d)
  PROVE  EqInv'
<1>1. /\ \A y \in EqZones : applied'[y] = applied[y] \/ applied'[y] = NoFile
      /\ applied' \in [EqZones -> File] /\ bound' \in [EqZones -> Devices \cup {NoDevice}]
  BY IdleRec DEF EqInv, EqualizerTypeOK, EditZone
<1>2. EqualizerTypeOK'
  BY <1>1 DEF EqInv, EqualizerTypeOK, EditZone
<1>3. WantsDevice' /\ FilesNameDevices' /\ OneAtATime'
  BY DEF EqInv, WantsDevice, FilesNameDevices, OneAtATime, EditZone
<1>4. AppliedIsBound'
  BY DEF EqInv, EqualizerTypeOK, AppliedIsBound, EditZone
<1>5. RunsInForce'
  BY <1>1 DEF EqInv, RunsInForce, InForce, EditZone
<1>6. ConfigFollows' /\ AppliedStays'
  BY <1>1 DEF EqInv, ConfigFollows, Mapping, Named, AppliedStays, EditZone
<1> QED
  BY <1>2, <1>3, <1>4, <1>5, <1>6 DEF EqInv

LEMMA CurveReadStep ==
  ASSUME EqInv, NEW r \in EqRuns, NEW z \in EqZones, NEW c \in Curves, ReadZones(r, z, c)
  PROVE  EqInv'
<1> DEFINE m == [pc |-> "read", zone |-> {z}, wants |-> [device |-> bound[z], curve |-> c],
                 zones |-> {y \in EqZones : bound[y] # NoDevice}]
<1>1. m \in EqRunRec
  BY DEF EqRunRec, EqPcs, File, EqInv, EqualizerTypeOK
<1>2. /\ m.pc = "read" /\ m.zone = {z} /\ m.wants.device = bound[z]
      /\ m.zones = {y \in EqZones : bound[y] # NoDevice}
  OBVIOUS
<1>3. eqRun' = [eqRun EXCEPT ![r] = m] /\ eqRun \in [EqRuns -> EqRunRec]
  BY DEF ReadZones, EqStep, EqInv, EqualizerTypeOK, EqRunRec, EqPcs
<1> HIDE DEF m
<1>4. eqRun' \in [EqRuns -> EqRunRec] /\ eqRun'[r] = m
      /\ \A q \in EqRuns : q # r => eqRun'[q] = eqRun[q]
  BY <1>1, <1>3
<1>5. /\ applied' \in [EqZones -> File] /\ applied'[z] = NoFile
      /\ \A y \in EqZones : y # z => applied'[y] = applied[y]
  BY IdleRec DEF ReadZones, EqInv, EqualizerTypeOK
<1>6. mingled' \in BOOLEAN /\ (~ mingled' => ~ mingled /\ \A q \in EqRuns : eqRun[q].pc = "idle")
  BY DEF ReadZones, EqInv, EqualizerTypeOK
<1>7. EqualizerTypeOK'
  BY <1>4, <1>5, <1>6 DEF ReadZones, EqInv, EqualizerTypeOK, EqRunRec, EqPcs
<1>8. WantsDevice' /\ FilesNameDevices' /\ AppliedIsBound'
  BY <1>2, <1>4, <1>5 DEF ReadZones, EqInv, WantsDevice, FilesNameDevices, AppliedIsBound
<1>9. OneAtATime'
  BY <1>4, <1>6 DEF OneAtATime
<1>10. RunsInForce'
  <2> SUFFICES ASSUME ~ mingled', NEW q \in EqRuns, eqRun'[q].pc # "idle"
               PROVE  InForce(q)'
    BY DEF RunsInForce
  <2>1. q = r
    BY <1>4, <1>6
  <2>2. \A y \in EqZones : applied'[y] # NoFile => bound[y] # NoDevice /\ y # z
    BY <1>5 DEF EqInv, AppliedIsBound
  <2> QED
    BY <1>2, <1>4, <2>1, <2>2 DEF InForce
<1>11. ConfigFollows'
  <2>1. lock # <<>> => Head(lock) \in EqRuns
    BY HeadTailProperties DEF EqInv, EqualizerTypeOK
  <2> QED
    BY <1>4, <2>1 DEF ReadZones, EqInv, ConfigFollows, Mapping, Named
<1>12. AppliedStays'
  BY <1>5, <1>6 DEF ReadZones, EqInv, AppliedStays
<1> QED
  BY <1>7, <1>8, <1>9, <1>10, <1>11, <1>12 DEF EqInv

LEMMA CurveWriteStep ==
  ASSUME EqInv, NEW r \in EqRuns, WriteCurve(r)
  PROVE  EqInv'
<1>1. /\ eqRun' \in [EqRuns -> EqRunRec]
      /\ eqRun'[r].pc = "rebuild" /\ eqRun'[r].zone = eqRun[r].zone
      /\ eqRun'[r].wants = eqRun[r].wants /\ eqRun'[r].zones = eqRun[r].zones
      /\ \A q \in EqRuns : q # r => eqRun'[q] = eqRun[q]
  BY Moves DEF WriteCurve, EqInv, EqPcs
<1>2. eqRun[r].pc = "write" /\ lock # <<>> /\ Head(lock) = r
  BY DEF WriteCurve, Holds
<1>3. eqRun[r].wants \in File /\ eqRun[r].wants.device # NoDevice
  BY <1>2 DEF EqInv, EqualizerTypeOK, WantsDevice
<1>4. /\ files' \in [EqZones -> File]
      /\ \A z \in EqZones : files'[z] = (IF z \in eqRun[r].zone THEN eqRun[r].wants ELSE files[z])
  BY <1>3 DEF WriteCurve, EqInv, EqualizerTypeOK
<1>5. EqualizerTypeOK'
  BY <1>1, <1>4 DEF WriteCurve, EqInv, EqualizerTypeOK, EqRunRec, EqPcs
<1>6. WantsDevice' /\ AppliedIsBound' /\ OneAtATime'
  BY <1>1, <1>2 DEF WriteCurve, EqInv, WantsDevice, AppliedIsBound, OneAtATime
<1>7. FilesNameDevices'
  BY <1>3, <1>4 DEF EqInv, FilesNameDevices
<1>8. ~ mingled => InForce(r)
  BY <1>2 DEF EqInv, RunsInForce
<1>9. RunsInForce'
  <2> SUFFICES ASSUME ~ mingled, NEW q \in EqRuns, eqRun'[q].pc # "idle"
               PROVE  InForce(q)'
    BY DEF RunsInForce, WriteCurve
  <2>1. q = r
    BY <1>1, <1>2 DEF EqInv, OneAtATime
  <2>2. eqRun[r].zone \subseteq EqZones
    BY DEF EqInv, EqualizerTypeOK
  <2> QED
    BY <1>1, <1>4, <1>8, <2>1, <2>2 DEF InForce, WriteCurve
<1>10. ConfigFollows'
  BY <1>1, <1>2 DEF ConfigFollows, WriteCurve
<1>11. AppliedStays'
  BY <1>4, <1>8 DEF WriteCurve, EqInv, AppliedStays, InForce
<1> QED
  BY <1>5, <1>6, <1>7, <1>9, <1>10, <1>11 DEF EqInv

LEMMA RebuildStep ==
  ASSUME EqInv, NEW r \in EqRuns, Rebuild(r)
  PROVE  EqInv'
<1>1. /\ eqRun' \in [EqRuns -> EqRunRec]
      /\ eqRun'[r].pc = "written" /\ eqRun'[r].zone = eqRun[r].zone
      /\ eqRun'[r].wants = eqRun[r].wants /\ eqRun'[r].zones = eqRun[r].zones
      /\ \A q \in EqRuns : q # r => eqRun'[q] = eqRun[q]
  BY Moves DEF Rebuild, EqInv, EqPcs
<1>2. eqRun[r].pc = "rebuild" /\ lock # <<>> /\ Head(lock) = r
  BY DEF Rebuild, Holds
<1>3. /\ config' \subseteq Devices \X EqZones
      /\ \A z \in EqZones : files[z] # NoFile => <<files[z].device, z>> \in config'
  BY MappingType DEF Rebuild, EqInv
<1>4. lock' \in Seq(EqRuns)
  BY <1>2, LockTail DEF Rebuild, EqInv, EqualizerTypeOK
<1>5. EqualizerTypeOK'
  BY <1>1, <1>3, <1>4 DEF Rebuild, EqInv, EqualizerTypeOK, EqRunRec, EqPcs
<1>6. WantsDevice' /\ FilesNameDevices' /\ AppliedIsBound' /\ OneAtATime'
  BY <1>1, <1>2 DEF Rebuild, EqInv, WantsDevice, FilesNameDevices, AppliedIsBound, OneAtATime
<1>7. eqRun[r].wants.device # NoDevice /\ eqRun[r].wants # NoFile
  BY <1>2, IdleRec DEF EqInv, WantsDevice
<1>8. ~ mingled => InForce(r)
  BY <1>2 DEF EqInv, RunsInForce
<1>9. RunsInForce'
  <2> SUFFICES ASSUME ~ mingled, NEW q \in EqRuns, eqRun'[q].pc # "idle"
               PROVE  InForce(q)'
    BY DEF RunsInForce, Rebuild
  <2>1. q = r
    BY <1>1, <1>2 DEF EqInv, OneAtATime
  <2>2. eqRun[r].zone \subseteq EqZones
    BY DEF EqInv, EqualizerTypeOK
  <2>3. \A z \in eqRun[r].zone : files[z] = eqRun[r].wants
    BY <1>2, <1>8 DEF InForce
  <2>4. \A z \in eqRun[r].zone : <<eqRun[r].wants.device, z>> \in config'
    BY <1>3, <1>7, <2>2, <2>3
  <2> QED
    BY <1>1, <1>8, <2>1, <2>3, <2>4 DEF InForce, Rebuild
<1>10. ConfigFollows'
  BY DEF ConfigFollows, Rebuild, Mapping, Named
<1>11. AppliedStays'
  BY <1>3 DEF Rebuild, EqInv, AppliedStays
<1> QED
  BY <1>5, <1>6, <1>9, <1>10, <1>11 DEF EqInv

\* A command succeeds, with everything that was acknowledged and its own curve in place.
LEMMA SucceedStep ==
  ASSUME EqInv, NEW r \in EqRuns, eqRun[r].pc \in {"prune", "pruned"}, lock # <<>>, Succeed(r),
         files' \in [EqZones -> File], FilesNameDevices', config' \subseteq Devices \X EqZones,
         eqFaults = 0 => config' = Mapping(files)',
         ~ mingled =>
           \A z \in EqZones :
             /\ applied[z] # NoFile =>
                  files'[z] = applied[z] /\ <<applied[z].device, z>> \in config'
             /\ z \in eqRun[r].zone =>
                  files'[z] = eqRun[r].wants /\ <<eqRun[r].wants.device, z>> \in config',
         UNCHANGED <<bound, eqEdits, eqFaults, mingled>>
  PROVE  EqInv'
<1>1. /\ eqRun' \in [EqRuns -> EqRunRec] /\ eqRun'[r].pc = "idle"
      /\ \A q \in EqRuns : q # r => eqRun'[q] = eqRun[q]
  BY Ends DEF EqInv, Succeed
<1>2. eqRun[r].wants \in File
  BY DEF EqInv, EqualizerTypeOK
<1>3. /\ applied' \in [EqZones -> File]
      /\ \A z \in EqZones : applied'[z] = (IF z \in eqRun[r].zone /\ bound[z] # NoDevice
                                           THEN eqRun[r].wants ELSE applied[z])
  BY <1>2 DEF Succeed, EqInv, EqualizerTypeOK
<1>4. lock' \in Seq(EqRuns)
  BY LockTail DEF Succeed, EqInv, EqualizerTypeOK
<1>5. EqualizerTypeOK'
  BY <1>1, <1>3, <1>4 DEF EqInv, EqualizerTypeOK, EqRunRec, EqPcs
<1>6. WantsDevice' /\ AppliedIsBound' /\ OneAtATime'
  BY <1>1, <1>3 DEF EqInv, WantsDevice, AppliedIsBound, OneAtATime
<1>7. RunsInForce'
  BY <1>1 DEF EqInv, RunsInForce, OneAtATime
<1>8. ConfigFollows'
  BY DEF ConfigFollows
<1>9. AppliedStays'
  BY <1>3 DEF AppliedStays
<1> QED
  BY <1>5, <1>6, <1>7, <1>8, <1>9 DEF EqInv

\* What a command that prunes keeps.
LEMMA KeepType ==
  ASSUME EqInv, NEW r \in EqRuns
  PROVE  /\ Keep(r) \in [EqZones -> File]
         /\ \A z \in EqZones : Keep(r)[z] = (IF z \in eqRun[r].zones THEN files[z] ELSE NoFile)
BY IdleRec DEF Keep, EqInv, EqualizerTypeOK

LEMMA PruneStep ==
  ASSUME EqInv, NEW r \in EqRuns, PruneFiles(r)
  PROVE  EqInv'
<1>1. eqRun[r].pc = "prune" /\ lock # <<>> /\ Head(lock) = r
  BY DEF PruneFiles, Holds
<1>2. /\ files' \in [EqZones -> File]
      /\ \A z \in EqZones : files'[z] = (IF z \in eqRun[r].zones THEN files[z] ELSE NoFile)
  BY KeepType DEF PruneFiles
<1>3. FilesNameDevices'
  BY <1>2 DEF EqInv, FilesNameDevices
<1>4. ~ mingled => InForce(r)
  BY <1>1 DEF EqInv, RunsInForce
<1>5. eqRun[r].wants.device # NoDevice /\ eqRun[r].zone \subseteq EqZones
  BY <1>1 DEF EqInv, WantsDevice, EqualizerTypeOK
<1>6. ASSUME ~ mingled, NEW z \in EqZones
      PROVE  /\ applied[z] # NoFile =>
                  files'[z] = applied[z] /\ <<applied[z].device, z>> \in config'
             /\ z \in eqRun[r].zone =>
                  files'[z] = eqRun[r].wants /\ <<eqRun[r].wants.device, z>> \in config'
  <2>1. applied[z] # NoFile => files[z] = applied[z] /\ <<applied[z].device, z>> \in config
    BY <1>6 DEF EqInv, AppliedStays
  <2>2. applied[z] # NoFile => z \in eqRun[r].zones
    BY <1>4, <1>6 DEF InForce
  <2>3. z \in eqRun[r].zone => /\ z \in eqRun[r].zones /\ files[z] = eqRun[r].wants
                               /\ <<eqRun[r].wants.device, z>> \in config
    BY <1>1, <1>4, <1>5, <1>6 DEF InForce
  <2>4. config' = config
    BY DEF PruneFiles
  <2> QED
    BY <1>2, <2>1, <2>2, <2>3, <2>4
<1>7. CASE files' = files
  <2>1. Succeed(r) /\ UNCHANGED <<bound, config, eqEdits, eqFaults, mingled>>
    BY <1>7 DEF PruneFiles
  <2>2. eqFaults = 0 => config' = Mapping(files)'
    BY <1>1, <1>7, <2>1 DEF EqInv, ConfigFollows, Mapping, Named
  <2>3. config' \subseteq Devices \X EqZones
    BY <2>1 DEF EqInv, EqualizerTypeOK
  <2> QED
    BY <1>1, <1>2, <1>3, <1>6, <2>1, <2>2, <2>3, SucceedStep
<1>8. CASE files' # files
  <2>1. /\ EqStep(r, [eqRun[r] EXCEPT !.pc = "pruned"])
        /\ UNCHANGED <<lock, applied, bound, config, eqEdits, eqFaults, mingled>>
    BY <1>8 DEF PruneFiles
  <2>2. /\ eqRun' \in [EqRuns -> EqRunRec]
        /\ eqRun'[r].pc = "pruned" /\ eqRun'[r].zone = eqRun[r].zone
        /\ eqRun'[r].wants = eqRun[r].wants /\ eqRun'[r].zones = eqRun[r].zones
        /\ \A q \in EqRuns : q # r => eqRun'[q] = eqRun[q]
    BY <2>1, Moves DEF EqInv, EqPcs
  <2>3. EqualizerTypeOK'
    BY <1>2, <2>1, <2>2 DEF EqInv, EqualizerTypeOK, EqRunRec, EqPcs
  <2>4. WantsDevice' /\ AppliedIsBound' /\ OneAtATime'
    BY <1>1, <2>1, <2>2 DEF EqInv, WantsDevice, AppliedIsBound, OneAtATime
  <2>5. RunsInForce'
    <3> SUFFICES ASSUME ~ mingled, NEW q \in EqRuns, eqRun'[q].pc # "idle"
                 PROVE  InForce(q)'
      BY <2>1 DEF RunsInForce
    <3>1. q = r
      BY <1>1, <2>2 DEF EqInv, OneAtATime
    <3> QED
      BY <1>4, <1>5, <1>6, <2>1, <2>2, <3>1 DEF InForce
  <2>6. ConfigFollows'
    BY <1>1, <2>1, <2>2 DEF ConfigFollows
  <2>7. AppliedStays'
    BY <1>6, <2>1 DEF AppliedStays
  <2> QED
    BY <1>3, <2>3, <2>4, <2>5, <2>6, <2>7 DEF EqInv
<1> QED
  BY <1>7, <1>8

LEMMA RebuildPrunedStep ==
  ASSUME EqInv, NEW r \in EqRuns, RebuildPruned(r)
  PROVE  EqInv'
<1>1. eqRun[r].pc = "pruned" /\ lock # <<>> /\ Head(lock) = r
  BY DEF RebuildPruned, Holds
<1>2. /\ config' \subseteq Devices \X EqZones
      /\ \A z \in EqZones : files[z] # NoFile => <<files[z].device, z>> \in config'
  BY MappingType DEF RebuildPruned, EqInv
<1>3. eqRun[r].wants # NoFile
  BY <1>1, IdleRec DEF EqInv, WantsDevice
<1>4. ~ mingled => InForce(r)
  BY <1>1 DEF EqInv, RunsInForce
<1>5. ASSUME ~ mingled, NEW z \in EqZones
      PROVE  /\ applied[z] # NoFile =>
                  files'[z] = applied[z] /\ <<applied[z].device, z>> \in config'
             /\ z \in eqRun[r].zone =>
                  files'[z] = eqRun[r].wants /\ <<eqRun[r].wants.device, z>> \in config'
  <2>1. applied[z] # NoFile => files[z] = applied[z]
    BY <1>5 DEF EqInv, AppliedStays
  <2>2. z \in eqRun[r].zone => files[z] = eqRun[r].wants
    BY <1>1, <1>4, <1>5 DEF InForce
  <2>3. files' = files
    BY DEF RebuildPruned
  <2> QED
    BY <1>2, <1>3, <2>1, <2>2, <2>3
<1>6. Succeed(r) /\ UNCHANGED <<bound, files, eqEdits, eqFaults, mingled>>
  BY DEF RebuildPruned
<1>7. config' = Mapping(files)' /\ FilesNameDevices' /\ files' \in [EqZones -> File]
  BY <1>6 DEF RebuildPruned, Mapping, Named, EqInv, EqualizerTypeOK, FilesNameDevices
<1> QED
  BY <1>1, <1>2, <1>5, <1>6, <1>7, SucceedStep

LEMMA CrashStep ==
  ASSUME EqInv, AgentCrash
  PROVE  EqInv'
<1>1. eqRun' \in [EqRuns -> EqRunRec] /\ \A r \in EqRuns : eqRun'[r].pc = "idle"
  BY IdleRec DEF AgentCrash
<1>2. eqFaults' \in Nat /\ eqFaults' # 0 /\ lock' \in Seq(EqRuns)
  BY DEF AgentCrash, EqFault, EqInv, EqualizerTypeOK
<1>3. EqualizerTypeOK'
  BY <1>1, <1>2 DEF AgentCrash, EqInv, EqualizerTypeOK, EqRunRec, EqPcs
<1>4. WantsDevice' /\ OneAtATime' /\ RunsInForce' /\ ConfigFollows'
  BY <1>1, <1>2 DEF WantsDevice, OneAtATime, RunsInForce, ConfigFollows
<1> QED
  BY <1>3, <1>4 DEF AgentCrash, EqInv, FilesNameDevices, AppliedIsBound, AppliedStays

LEMMA RunsStep ==
  ASSUME EqInv, NEW r \in EqRuns, QueueWrite(r) \/ QueuePrune(r) \/ RenameFails(r)
  PROVE  EqInv'
<1>1. CASE QueueWrite(r) /\ eqRun[r].wants.device = NoDevice
  BY <1>1, EndStep DEF QueueWrite, EqInv, EqualizerTypeOK
<1>2. CASE QueueWrite(r) /\ eqRun[r].wants.device # NoDevice
  BY <1>2, MoveStep DEF QueueWrite
<1>3. CASE QueuePrune(r)
  <2>1. eqRun[r].wants.device # NoDevice
    BY <1>3 DEF QueuePrune, EqInv, WantsDevice
  <2> QED
    BY <1>3, <2>1, MoveStep DEF QueuePrune
<1>4. CASE RenameFails(r)
  <2>1. lock' \in Seq(EqRuns) /\ eqFaults' \in Nat /\ eqFaults' # 0
    BY <1>4, LockTail DEF RenameFails, Holds, EqFault, EqInv, EqualizerTypeOK
  <2> QED
    BY <1>4, <2>1, EndStep DEF RenameFails
<1> QED
  BY <1>1, <1>2, <1>3, <1>4

\* The invariant holds for any zones, devices, commands and faults.
THEOREM EqInductive == EqualizerSpec => []EqInv
<1>1. EqualizerInit => EqInv
  BY EqualizerConstants, EqInitially
<1>2. EqInv /\ [EqualizerNext]_eqVars => EqInv'
  <2> SUFFICES ASSUME EqInv, [EqualizerNext]_eqVars
               PROVE  EqInv'
    OBVIOUS
  <2>1. ASSUME NEW z \in EqZones, NEW d \in Devices \cup {NoDevice}, EditZone(z, d)
        PROVE  EqInv'
    BY <2>1, EditStep
  <2>2. ASSUME NEW r \in EqRuns, EqSteps(r) \/ RenameFails(r)
        PROVE  EqInv'
    BY <2>2, RunsStep, CurveWriteStep, RebuildStep, PruneStep, RebuildPrunedStep DEF EqSteps
  <2>3. ASSUME NEW r \in EqRuns, NEW z \in EqZones, NEW c \in Curves, ReadZones(r, z, c)
        PROVE  EqInv'
    BY <2>3, CurveReadStep
  <2>4. CASE AgentCrash
    BY <2>4, CrashStep
  <2>5. CASE UNCHANGED eqVars
    BY <2>5 DEF eqVars, EqInv, EqualizerTypeOK, WantsDevice, FilesNameDevices, AppliedIsBound,
       OneAtATime, RunsInForce, InForce, ConfigFollows, Mapping, Named, AppliedStays
  <2> QED
    BY <2>1, <2>2, <2>3, <2>4, <2>5 DEF EqualizerNext
<1> QED
  BY <1>1, <1>2, PTL DEF EqualizerSpec

\* Without a fault, config.txt lists every zone file under its device whenever nobody writes:
\* the lock makes the two writes of a command one.
THEOREM ConfigIsComplete == EqualizerSpec => []ConfigMatchesFiles
<1>1. EqInv => ConfigMatchesFiles
  BY DEF EqInv, ConfigFollows, ConfigMatchesFiles
<1> QED
  BY <1>1, EqInductive, PTL

\* A curve that SET_EQ acknowledged is in its file and in config.txt until the zone is set anew
\* or deleted, whatever other commands do, fail to do, or leave half done, unless they overlap.
THEOREM AcknowledgedCurvesStay == EqualizerSpec => []AppliedStays
<1>1. EqInv => AppliedStays
  BY DEF EqInv
<1> QED
  BY <1>1, EqInductive, PTL


-----------------------------------------------------------------------------
(* "Forget Server" *)

ForgetRec == [pc : {"idle", "wait", "overdue", "answered", "delete"},
              server : Servers \cup {NoServer}, order : Orders \cup {NoOrder},
              reply : {"none", "reached", "unreached", "refused"}]
WipeRec   == [pc : {"idle", "script", "succeeded", "failed", "acked"},
              order : Orders \cup {NoOrder}]
OrderRec  == [server : Servers \cup {NoServer},
              status : {"none", "PENDING", "SENT", "SUCCESS", "FAILED", "TIMEOUT"}]

\* A request, a command and a machine that speak of success have a script behind them.
ForgetInv ==
  /\ forget \in ForgetRec /\ order \in [Orders -> OrderRec] /\ wiping \in [Agents -> WipeRec]
  /\ forget.pc \in {"wait", "overdue", "answered"} => forget.order \in Orders
  /\ forget.pc = "delete" => forget.order \in shut \cup {NoOrder}
  /\ \A k \in Orders : order[k].status = "SUCCESS" => k \in shut
  /\ \A a \in Agents : wiping[a].pc \in {"succeeded", "acked"} => wiping[a].order \in shut
  /\ \A a \in Agents : wiping[a].pc # "idle" => wiping[a].order \in Orders
  /\ ReachedMeansShut

forgetVars == <<forget, order, wiping, shut>>

LEMMA NoneYet ==
  ASSUME LifecycleConstants
  PROVE  /\ NoForget \in ForgetRec /\ NoForget.pc = "idle" /\ NoForget.order = NoOrder
         /\ NoForget.reply = "none" /\ NoForget.server = NoServer
         /\ NoWipe \in WipeRec /\ NoWipe.pc = "idle" /\ NoOrder \notin Orders
BY DEF NoForget, NoWipe, ForgetRec, WipeRec, Orders, NoOrder, LifecycleConstants

\* The request moves on: what its next state must be like.
LEMMA RequestStep ==
  ASSUME ForgetInv, NEW f \in ForgetRec, forget' = f, UNCHANGED <<order, wiping, shut>>,
         f.pc \in {"wait", "overdue", "answered"} => f.order \in Orders,
         f.pc = "delete" => f.order \in shut \cup {NoOrder},
         f.reply = "reached" => f.order \in shut
  PROVE  ForgetInv'
BY DEF ForgetInv, ReachedMeansShut

\* A machine moves on.
LEMMA MachineStep ==
  ASSUME ForgetInv, NEW a \in Agents, NEW w \in WipeRec, wiping' = [wiping EXCEPT ![a] = w],
         w.pc \in {"succeeded", "acked"} => w.order \in shut',
         w.pc # "idle" => w.order \in Orders,
         shut \subseteq shut', UNCHANGED <<forget, order>>
  PROVE  ForgetInv'
<1>1. wiping' \in [Agents -> WipeRec] /\ \A b \in Agents : wiping'[b] = (IF b = a THEN w ELSE wiping[b])
  BY DEF ForgetInv
<1> QED
  BY <1>1 DEF ForgetInv, ReachedMeansShut

\* A command gets another status.
LEMMA OrderStep ==
  ASSUME ForgetInv, NEW k \in Orders, NEW o \in OrderRec, order' = [order EXCEPT ![k] = o],
         o.status = "SUCCESS" => k \in shut
  PROVE  /\ order' \in [Orders -> OrderRec]
         /\ \A j \in Orders : order'[j].status = "SUCCESS" => j \in shut
<1>1. \A j \in Orders : order'[j] = (IF j = k THEN o ELSE order[j])
  BY DEF ForgetInv
<1> QED
  BY <1>1 DEF ForgetInv

LEMMA ForgetBeginStep ==
  ASSUME LifecycleConstants, ForgetInv, NEW s \in Servers, ForgetBegin(s)
  PROVE  ForgetInv'
<1>1. ASSUME NEW k \in Orders, order' = [order EXCEPT ![k] = [server |-> s, status |-> "PENDING"]],
             forget' = [pc |-> "wait", server |-> s, order |-> k, reply |-> "none"]
      PROVE  ForgetInv'
  <2>1. [server |-> s, status |-> "PENDING"] \in OrderRec
    BY DEF OrderRec
  <2>2. /\ order' \in [Orders -> OrderRec]
        /\ \A j \in Orders : order'[j].status = "SUCCESS" => j \in shut
    BY <1>1, <2>1, OrderStep
  <2>3. /\ forget' \in ForgetRec /\ forget'.pc = "wait" /\ forget'.order = k
        /\ forget'.reply = "none"
    BY <1>1 DEF ForgetRec
  <2> QED
    BY <2>2, <2>3 DEF ForgetBegin, ForgetInv, ReachedMeansShut
<1>2. CASE forget' = [NoForget EXCEPT !.pc = "delete", !.server = s] /\ UNCHANGED order
  <2> DEFINE f == [NoForget EXCEPT !.pc = "delete", !.server = s]
  <2>1. f \in ForgetRec /\ f.pc = "delete" /\ f.order = NoOrder /\ f.reply = "none"
    BY NoneYet DEF ForgetRec
  <2>2. UNCHANGED <<order, wiping, shut>> /\ forget' = f
    BY <1>2 DEF ForgetBegin
  <2> HIDE DEF f
  <2> QED
    BY <2>1, <2>2, RequestStep
<1> QED
  BY <1>1, <1>2 DEF ForgetBegin

LEMMA FetchStep ==
  ASSUME LifecycleConstants, ForgetInv, NEW a \in Agents, NEW k \in Orders, FetchForget(a, k)
  PROVE  ForgetInv'
<1> DEFINE o == [order[k] EXCEPT !.status = "SENT"]
<1>1. o \in OrderRec /\ o.status = "SENT" /\ order' = [order EXCEPT ![k] = o]
  BY DEF FetchForget, ForgetInv, OrderRec
<1> HIDE DEF o
<1>2. /\ order' \in [Orders -> OrderRec]
      /\ \A j \in Orders : order'[j].status = "SUCCESS" => j \in shut
  BY <1>1, OrderStep
<1> DEFINE w == [pc |-> "script", order |-> k]
<1>3. w \in WipeRec /\ w.pc = "script" /\ w.order = k /\ wiping' = [wiping EXCEPT ![a] = w]
  BY DEF FetchForget, WipeRec
<1> HIDE DEF w
<1>4. wiping' \in [Agents -> WipeRec] /\ \A b \in Agents : wiping'[b] = (IF b = a THEN w ELSE wiping[b])
  BY <1>3 DEF ForgetInv
<1> QED
  BY <1>2, <1>3, <1>4 DEF FetchForget, ForgetInv, ReachedMeansShut

LEMMA ScriptStep ==
  ASSUME LifecycleConstants, ForgetInv, NEW a \in Agents, NEW ok \in BOOLEAN,
         RunForgetScript(a, ok)
  PROVE  ForgetInv'
<1> DEFINE w == [wiping[a] EXCEPT !.pc = IF ok THEN "succeeded" ELSE "failed"]
<1>1. /\ w \in WipeRec /\ w.pc = (IF ok THEN "succeeded" ELSE "failed")
      /\ w.order = wiping[a].order /\ wiping[a].order \in Orders
      /\ wiping' = [wiping EXCEPT ![a] = w]
  BY DEF RunForgetScript, ForgetInv, WipeRec
<1> HIDE DEF w
<1>2. shut \subseteq shut' /\ (ok => wiping[a].order \in shut')
  BY DEF RunForgetScript
<1>3. w.pc \in {"succeeded", "acked"} => w.order \in shut'
  BY <1>1, <1>2
<1> QED
  BY <1>1, <1>2, <1>3, MachineStep DEF RunForgetScript

LEMMA AckStep ==
  ASSUME LifecycleConstants, ForgetInv, NEW a \in Agents, AckForget(a)
  PROVE  ForgetInv'
<1> DEFINE k == wiping[a].order
           answer == IF wiping[a].pc = "succeeded" THEN "SUCCESS" ELSE "FAILED"
           o == [order[k] EXCEPT !.status = answer]
           w == IF answer = "SUCCESS" THEN [wiping[a] EXCEPT !.pc = "acked"] ELSE NoWipe
<1>1. k \in Orders /\ (answer = "SUCCESS" => k \in shut)
  BY DEF AckForget, ForgetInv
<1>2. /\ w \in WipeRec /\ w.pc \in {"acked", "idle"}
      /\ w.pc = "acked" => w.order = k /\ k \in shut
  BY <1>1, NoneYet DEF ForgetInv, WipeRec
<1>3. wiping' = [wiping EXCEPT ![a] = w]
  BY DEF AckForget, ForgetInv
<1>4. wiping' \in [Agents -> WipeRec] /\ \A b \in Agents : wiping'[b] = (IF b = a THEN w ELSE wiping[b])
  BY <1>2, <1>3 DEF ForgetInv
<1>5. o \in OrderRec /\ o.status = answer
  BY <1>1 DEF ForgetInv, OrderRec
<1>6. order' \in {order, [order EXCEPT ![k] = o]}
  BY DEF AckForget
<1>7. \/ forget' = forget
      \/ forget' = [forget EXCEPT !.pc = "answered"] /\ forget.order = k
  BY DEF AckForget
<1>8. UNCHANGED shut
  BY DEF AckForget
<1> HIDE DEF k, answer, o, w
<1>9. /\ order' \in [Orders -> OrderRec]
      /\ \A j \in Orders : order'[j].status = "SUCCESS" => j \in shut
  BY <1>1, <1>5, <1>6, OrderStep DEF ForgetInv
<1>10. /\ forget' \in ForgetRec /\ forget'.order = forget.order /\ forget'.reply = forget.reply
       /\ \/ forget'.pc = forget.pc
          \/ forget'.pc = "answered" /\ forget.order = k
  BY <1>7 DEF ForgetInv, ForgetRec
<1> QED
  BY <1>1, <1>2, <1>4, <1>8, <1>9, <1>10 DEF ForgetInv, ReachedMeansShut

LEMMA WipeEnds ==
  ASSUME LifecycleConstants, ForgetInv, NEW a \in Agents,
         AckRefused(a) \/ WipeCredential(a) \/ WipeLost(a)
  PROVE  ForgetInv'
<1>1. wiping' = [wiping EXCEPT ![a] = NoWipe] /\ UNCHANGED <<forget, order, shut>>
  BY DEF AckRefused, WipeCredential, WipeLost
<1> QED
  BY <1>1, NoneYet, MachineStep

LEMMA RequestSteps ==
  ASSUME LifecycleConstants, ForgetInv, ForgetOverdue \/ ForgetAnswered \/ ForgetDelete
  PROVE  ForgetInv'
<1>1. CASE ForgetOverdue
  <2> DEFINE f == [forget EXCEPT !.pc = "overdue"]
  <2>1. /\ f \in ForgetRec /\ f.pc = "overdue" /\ f.order = forget.order
        /\ f.reply = forget.reply
    BY DEF ForgetInv, ForgetRec
  <2>2. UNCHANGED <<order, wiping, shut>> /\ forget' = f /\ forget.pc = "wait"
    BY <1>1 DEF ForgetOverdue
  <2> HIDE DEF f
  <2>3. f.order \in Orders /\ (f.reply = "reached" => f.order \in shut)
    BY <2>1, <2>2 DEF ForgetInv, ReachedMeansShut
  <2> QED
    BY <2>1, <2>2, <2>3, RequestStep
<1>2. CASE ForgetAnswered
  <2> DEFINE f == IF order[forget.order].status = "SUCCESS" THEN [forget EXCEPT !.pc = "delete"]
                  ELSE [forget EXCEPT !.pc = "idle", !.reply = "refused"]
  <2>1. /\ f \in ForgetRec /\ f.pc \in {"delete", "idle"} /\ f.order = forget.order
        /\ f.pc = "delete" => order[forget.order].status = "SUCCESS"
        /\ f.reply \in {forget.reply, "refused"}
    BY DEF ForgetInv, ForgetRec
  <2>2. UNCHANGED <<order, wiping, shut>> /\ forget' = f /\ forget.pc = "answered"
    BY <1>2 DEF ForgetAnswered
  <2> HIDE DEF f
  <2>3. /\ f.pc = "delete" => f.order \in shut
        /\ f.reply = "reached" => f.order \in shut
    BY <2>1, <2>2 DEF ForgetInv, ReachedMeansShut
  <2> QED
    BY <2>1, <2>2, <2>3, RequestStep
<1>3. CASE ForgetDelete
  <2> DEFINE answer == IF ~ row[forget.server].exists THEN "refused"
                       ELSE IF forget.order = NoOrder THEN "unreached" ELSE "reached"
             f == [forget EXCEPT !.pc = "idle", !.reply = answer]
  <2>1. /\ answer \in {"refused", "unreached", "reached"}
        /\ answer = "reached" => forget.order # NoOrder
    OBVIOUS
  <2>2. UNCHANGED <<order, wiping, shut>> /\ forget' = f /\ forget.pc = "delete"
    BY <1>3 DEF ForgetDelete
  <2> HIDE DEF answer
  <2>3. f \in ForgetRec /\ f.pc = "idle" /\ f.order = forget.order /\ f.reply = answer
    BY <2>1 DEF ForgetInv, ForgetRec
  <2> HIDE DEF f
  <2>4. f.reply = "reached" => f.order \in shut
    BY <2>1, <2>2, <2>3 DEF ForgetInv
  <2> QED
    BY <2>2, <2>3, <2>4, RequestStep
<1> QED
  BY <1>1, <1>2, <1>3

LEMMA TimeoutStep ==
  ASSUME LifecycleConstants, ForgetInv, ForgetTimeout
  PROVE  ForgetInv'
<1> DEFINE k == forget.order
           o == [order[k] EXCEPT !.status = "TIMEOUT"]
<1>1. k \in Orders
  BY DEF ForgetTimeout, ForgetInv
<1>2. o \in OrderRec /\ o.status = "TIMEOUT" /\ order' = [order EXCEPT ![k] = o]
  BY <1>1 DEF ForgetTimeout, ForgetInv, OrderRec
<1> HIDE DEF o
<1>3. /\ order' \in [Orders -> OrderRec]
      /\ \A j \in Orders : order'[j].status = "SUCCESS" => j \in shut
  BY <1>1, <1>2, OrderStep
<1>4. forget' \in ForgetRec /\ forget'.pc = "idle" /\ forget'.reply = "refused"
  BY DEF ForgetTimeout, ForgetInv, ForgetRec
<1> QED
  BY <1>3, <1>4 DEF ForgetTimeout, ForgetInv, ReachedMeansShut

\* The invariant holds for any servers, machines, requests and faults.
THEOREM ForgetInductive == LifecycleSpec => []ForgetInv
<1>1. LifecycleInit => ForgetInv
  <2> SUFFICES ASSUME LifecycleInit PROVE ForgetInv
    OBVIOUS
  <2>1. order \in [Orders -> OrderRec] /\ \A k \in Orders : order[k].status = "none"
    BY DEF LifecycleInit, OrderRec
  <2>2. wiping \in [Agents -> WipeRec] /\ \A a \in Agents : wiping[a].pc = "idle"
    BY LifecycleConstants, NoneYet DEF LifecycleInit
  <2> QED
    BY <2>1, <2>2, LifecycleConstants, NoneYet DEF LifecycleInit, ForgetInv, ReachedMeansShut
<1>2. ForgetInv /\ [LifecycleNext]_lifecycleVars => ForgetInv'
  <2> SUFFICES ASSUME ForgetInv, [LifecycleNext]_lifecycleVars
               PROVE  ForgetInv'
    OBVIOUS
  <2> USE LifecycleConstants
  <2>1. CASE UNCHANGED forgetVars
    BY <2>1 DEF forgetVars, ForgetInv, ReachedMeansShut
  <2>2. ASSUME NEW s \in Servers,
               Register(s) \/ NewPairingCode(s) \/ DeleteServer(s) \/ CodeAges(s)
                 \/ SeenAges(s) \/ RetentionDelete(s)
        PROVE  UNCHANGED forgetVars
    BY <2>2 DEF forgetVars, Register, NewPairingCode, DeleteServer, CodeAges, SeenAges,
       RetentionDelete
  <2>3. ASSUME NEW a \in Agents,
               (\E s \in Servers, n \in 1 .. MaxCodes : PairLookup(a, s, n))
                 \/ PairSteps(a) \/ PairLost(a) \/ Unpair(a) \/ Poll(a)
                 \/ BeatBegin(a) \/ BeatWrite(a)
        PROVE  UNCHANGED forgetVars
    BY <2>3 DEF forgetVars, PairLookup, PairSteps, PairClaim, PairFindPrevious, PairRelease,
       PairSaved, PairLost, Unpair, Poll, BeatBegin, BeatWrite
  <2>4. ASSUME SweepSteps \/ RetentionRead
        PROVE  UNCHANGED forgetVars
    BY <2>4 DEF forgetVars, SweepSteps, SweepRead, SweepCheck, SweepWrite, SweepEnd, RetentionRead
  <2>5. ASSUME NEW s \in Servers, ForgetBegin(s)
        PROVE  ForgetInv'
    BY <2>5, ForgetBeginStep
  <2>6. ASSUME NEW a \in Agents, NEW k \in Orders, FetchForget(a, k)
        PROVE  ForgetInv'
    BY <2>6, FetchStep
  <2>7. ASSUME NEW a \in Agents, WipeSteps(a) \/ WipeLost(a)
        PROVE  ForgetInv'
    BY <2>7, ScriptStep, AckStep, WipeEnds DEF WipeSteps
  <2>8. CASE ForgetSteps
    BY <2>8, RequestSteps, TimeoutStep DEF ForgetSteps
  <2>9. CASE LifecycleRestart
    <3>1. UNCHANGED <<order, wiping, shut>> /\ forget' \in {forget, NoForget}
      BY <2>9 DEF LifecycleRestart
    <3> QED
      BY <3>1, NoneYet DEF ForgetInv, ReachedMeansShut
  <2>10. CASE UNCHANGED lifecycleVars
    BY <2>1, <2>10 DEF lifecycleVars, forgetVars
  <2> QED
    BY <2>1, <2>2, <2>3, <2>4, <2>5, <2>6, <2>7, <2>8, <2>9, <2>10 DEF LifecycleNext
<1> QED
  BY <1>1, <1>2, PTL DEF LifecycleSpec

\* "Forget Server" answers that the machine was reached only when the shutdown script of that
\* very request has run to success, whatever timed out, was lost or restarted.
THEOREM ReachedMachineIsShut == LifecycleSpec => []ReachedMeansShut
<1>1. ForgetInv => ReachedMeansShut
  BY DEF ForgetInv
<1> QED
  BY <1>1, ForgetInductive, PTL

-----------------------------------------------------------------------------
(* Tokens *)

RowRec  == [exists : BOOLEAN, token : Nat, status : Statuses, code : Nat,
            age : {"live", "expired", "abandoned"}]
CredRec == [token : Nat, server : Servers \cup {NoServer}, library : Servers \cup {NoServer}]
PairRec == [pc : {"idle", "found", "claimed", "release", "done"},
            server : Servers \cup {NoServer}, token : Nat, previous : Servers \cup {NoServer}]

Issued == {"claimed", "release", "done"}

\* A request holds a token once it has claimed one, issued after the one its machine holds.
\* When its reply is due, a sibling server no longer accepts the machine's present token.
AgentOK(a) ==
  /\ pairing[a].pc \in {"idle", "found"} => pairing[a].token = 0
  /\ pairing[a].pc # "idle" => pairing[a].server \in Servers
  /\ pairing[a].pc \in Issued =>
       pairing[a].token # 0 /\ pairing[a].token <= minted[pairing[a].server]
  /\ cred[a].token = 0 <=> cred[a].server = NoServer
  /\ cred[a].token # 0 => cred[a].token <= minted[cred[a].server]
  /\ pairing[a].pc # "idle" => cred[a].token = 0 \/ cred[a].server = pairing[a].previous
  /\ (pairing[a].pc \in Issued /\ cred[a].token # 0 /\ cred[a].server = pairing[a].server)
       => cred[a].token < pairing[a].token
  /\ ( /\ pairing[a].pc = "done" /\ cred[a].token # 0 /\ cred[a].server # pairing[a].server
       /\ <<cred[a].server, pairing[a].server>> \in Sibling )
       => row[cred[a].server].token # cred[a].token

\* A row accepts no token or the last one issued for it.
RowOK(s) ==
  /\ row[s].token # 0 => row[s].token = minted[s]
  /\ ~ row[s].exists => row[s].token = 0

TokenTypes ==
  /\ row \in [Servers -> RowRec] /\ minted \in [Servers -> Nat]
  /\ cred \in [Agents -> CredRec] /\ pairing \in [Agents -> PairRec]

TokenInv ==
  /\ TokenTypes
  /\ \A s \in Servers : RowOK(s)
  /\ \A a \in Agents : AgentOK(a)
  /\ NoOrphanToken

LEMMA NoneYetPaired ==
  ASSUME LifecycleConstants
  PROVE  /\ NoRow \in RowRec /\ NoRow.token = 0 /\ ~ NoRow.exists
         /\ NoCred \in CredRec /\ NoCred.token = 0 /\ NoCred.server = NoServer
         /\ NoPairing \in PairRec /\ NoPairing.pc = "idle" /\ NoPairing.token = 0
         /\ NoServer \notin Servers
BY DEF NoRow, NoCred, NoPairing, RowRec, CredRec, PairRec, Statuses, LifecycleConstants

\* How rows and the tokens issued may change without disturbing a machine.
ServersMove ==
  /\ row' \in [Servers -> RowRec] /\ minted' \in [Servers -> Nat]
  /\ \A s \in Servers : /\ minted[s] <= minted'[s]
                        /\ row'[s].token \in {0, row[s].token, minted[s] + 1}

LEMMA OtherMachine ==
  ASSUME TokenTypes, NEW a \in Agents, AgentOK(a), ServersMove,
         cred'[a] = cred[a], pairing'[a] = pairing[a]
  PROVE  AgentOK(a)'
<1>1. /\ cred[a].token \in Nat /\ pairing[a].token \in Nat
      /\ cred[a].server \in Servers \cup {NoServer}
      /\ \A s \in Servers : minted[s] \in Nat /\ minted'[s] \in Nat
                            /\ row[s].token \in Nat /\ row'[s].token \in Nat
  BY DEF TokenTypes, ServersMove, CredRec, PairRec, RowRec
<1>2. cred[a].token # 0 => cred[a].server # NoServer /\ cred[a].server \in Servers
  BY <1>1 DEF AgentOK
<1>3. /\ pairing[a].pc \in Issued => pairing[a].server \in Servers
      /\ "idle" \notin Issued
  BY DEF AgentOK, Issued
<1>4. pairing[a].pc \in Issued =>
        pairing[a].token # 0 /\ pairing[a].token <= minted'[pairing[a].server]
  BY <1>1, <1>3 DEF AgentOK, ServersMove
<1>5. cred[a].token # 0 => cred[a].token <= minted'[cred[a].server]
  BY <1>1, <1>2 DEF AgentOK, ServersMove
<1>6. ( /\ pairing[a].pc = "done" /\ cred[a].token # 0 /\ cred[a].server # pairing[a].server
        /\ <<cred[a].server, pairing[a].server>> \in Sibling )
        => row'[cred[a].server].token # cred[a].token
  BY <1>1, <1>2 DEF AgentOK, ServersMove
<1> QED
  BY <1>4, <1>5, <1>6 DEF AgentOK

\* Rows change, lose their token or go, and nothing else moves.
LEMMA RowsOnly ==
  ASSUME TokenInv, row' \in [Servers -> RowRec],
         \A s \in Servers : /\ row'[s].token \in {0, row[s].token}
                            /\ ~ row'[s].exists => row'[s].token = 0,
         UNCHANGED <<minted, cred, pairing>>, dropped \subseteq dropped'
  PROVE  TokenInv'
<1>1. TokenTypes'
  BY DEF TokenInv, TokenTypes
<1>2. ServersMove
  BY DEF TokenInv, TokenTypes, ServersMove
<1>3. \A s \in Servers : RowOK(s)'
  BY DEF TokenInv, RowOK
<1>4. \A a \in Agents : AgentOK(a)'
  BY <1>2, OtherMachine DEF TokenInv
<1>5. NoOrphanToken'
  BY DEF TokenInv, NoOrphanToken
<1> QED
  BY <1>1, <1>3, <1>4, <1>5 DEF TokenInv

\* One row becomes r.
LEMMA OneRow ==
  ASSUME TokenInv, NEW s \in Servers, NEW r \in RowRec, r.token \in {0, row[s].token},
         ~ r.exists => r.token = 0, row' = [row EXCEPT ![s] = r],
         UNCHANGED <<minted, cred, pairing, dropped>>
  PROVE  TokenInv'
<1>1. row' \in [Servers -> RowRec] /\ \A x \in Servers : row'[x] = (IF x = s THEN r ELSE row[x])
  BY DEF TokenInv, TokenTypes
<1>2. \A x \in Servers : /\ row'[x].token \in {0, row[x].token}
                         /\ ~ row'[x].exists => row'[x].token = 0
  BY <1>1 DEF TokenInv, RowOK
<1> QED
  BY <1>1, <1>2, RowsOnly

\* The pairing request of one machine moves on to q, its credential to c.
LEMMA OneMachine ==
  ASSUME TokenInv, NEW a \in Agents, NEW q \in PairRec, NEW c \in CredRec,
         pairing' = [pairing EXCEPT ![a] = q], cred' = [cred EXCEPT ![a] = c],
         ServersMove, \A s \in Servers : RowOK(s)', AgentOK(a)', NoOrphanToken'
  PROVE  TokenInv'
<1>1. TokenTypes'
  BY DEF TokenInv, TokenTypes, ServersMove
<1>2. \A b \in Agents \ {a} : cred'[b] = cred[b] /\ pairing'[b] = pairing[b]
  BY DEF TokenInv, TokenTypes
<1>3. \A b \in Agents \ {a} : AgentOK(b)'
  BY <1>2, OtherMachine DEF TokenInv
<1> QED
  BY <1>1, <1>3 DEF TokenInv


CodesOK == codes \in [Servers -> Nat]

LEMMA RowActions ==
  ASSUME LifecycleConstants, TokenInv, CodesOK, NEW s \in Servers,
         Register(s) \/ NewPairingCode(s) \/ DeleteServer(s) \/ CodeAges(s) \/ RetentionDelete(s)
  PROVE  TokenInv'
<1>1. row[s] \in RowRec
  BY DEF TokenInv, TokenTypes
<1>2. CASE Register(s)
  <2> DEFINE r == [NoRow EXCEPT !.exists = TRUE, !.code = 1]
  <2>1. r \in RowRec /\ r.token = 0 /\ r.exists
    BY NoneYetPaired DEF RowRec, NoRow
  <2>2. row' = [row EXCEPT ![s] = r] /\ UNCHANGED <<minted, cred, pairing, dropped>>
    BY <1>2 DEF Register
  <2> HIDE DEF r
  <2> QED
    BY <2>1, <2>2, OneRow
<1>3. CASE NewPairingCode(s)
  <2> DEFINE n == codes[s] + 1
             r == [row[s] EXCEPT !.code = n, !.age = "live"]
  <2>1. row' = [row EXCEPT ![s] = r] /\ UNCHANGED <<minted, cred, pairing, dropped>>
    BY <1>3 DEF NewPairingCode
  <2>2. n \in Nat
    BY DEF CodesOK
  <2>3. r \in RowRec /\ r.token = row[s].token /\ r.exists = row[s].exists
    BY <1>1, <2>2 DEF RowRec
  <2> HIDE DEF r
  <2> QED
    BY <1>3, <2>1, <2>3, OneRow DEF NewPairingCode
<1>4. CASE DeleteServer(s) \/ RetentionDelete(s)
  <2>1. row' = [row EXCEPT ![s] = NoRow] /\ UNCHANGED <<minted, cred, pairing, dropped>>
    BY <1>4 DEF DeleteServer, RetentionDelete
  <2> QED
    BY <2>1, NoneYetPaired, OneRow
<1>5. CASE CodeAges(s)
  <2> DEFINE g == IF row[s].age = "live" THEN "expired" ELSE "abandoned"
             r == [row[s] EXCEPT !.age = g]
  <2>1. row' = [row EXCEPT ![s] = r] /\ UNCHANGED <<minted, cred, pairing, dropped>>
    BY <1>1, <1>5 DEF CodeAges
  <2>2. r \in RowRec /\ r.token = row[s].token /\ r.exists = row[s].exists
    BY <1>1 DEF RowRec
  <2> HIDE DEF r
  <2> QED
    BY <1>5, <2>1, <2>2, OneRow DEF CodeAges
<1> QED
  BY <1>2, <1>3, <1>4, <1>5

\* A heartbeat, the sweep, and the removal of a forgotten server.
LEMMA StatusWrites ==
  ASSUME LifecycleConstants, TokenInv, NEW s \in Servers,
         row' \in {row, [row EXCEPT ![s].status = "ONLINE"], [row EXCEPT ![s].status = "OFFLINE"],
                   [row EXCEPT ![s] = NoRow]},
         row[s].exists \/ row' \in {row, [row EXCEPT ![s] = NoRow]},
         UNCHANGED <<minted, cred, pairing, dropped>>
  PROVE  TokenInv'
<1>1. CASE row' = row
  BY <1>1, RowsOnly DEF TokenInv, TokenTypes, RowOK
<1>2. CASE row' = [row EXCEPT ![s] = NoRow]
  BY <1>2, NoneYetPaired, OneRow
<1>3. ASSUME NEW v \in Statuses, row' = [row EXCEPT ![s].status = v], row[s].exists
      PROVE  TokenInv'
  <2> DEFINE r == [row[s] EXCEPT !.status = v]
  <2>1. row' = [row EXCEPT ![s] = r]
    BY <1>3
  <2>2. r \in RowRec /\ r.token = row[s].token /\ r.exists = row[s].exists
    BY DEF TokenInv, TokenTypes, RowRec
  <2> HIDE DEF r
  <2> QED
    BY <1>3, <2>1, <2>2, OneRow
<1> QED
  BY <1>1, <1>2, <1>3 DEF Statuses

LEMMA LookupStep ==
  ASSUME LifecycleConstants, TokenInv, NEW a \in Agents, NEW s \in Servers, NEW n \in 1 .. MaxCodes,
         PairLookup(a, s, n)
  PROVE  TokenInv'
<1> DEFINE q == [pc |-> "found", server |-> s, token |-> 0, previous |-> cred[a].server]
<1>1. cred[a] \in CredRec
  BY DEF TokenInv, TokenTypes
<1>2. /\ q \in PairRec /\ q.pc = "found" /\ q.server = s /\ q.token = 0
      /\ q.previous = cred[a].server
  BY <1>1 DEF PairRec, CredRec
<1>3. /\ pairing' = [pairing EXCEPT ![a] = q] /\ pairing[a].pc = "idle"
      /\ UNCHANGED <<row, minted, cred, dropped>>
  BY DEF PairLookup
<1> HIDE DEF q
<1>4. \A b \in Agents : pairing'[b] = (IF b = a THEN q ELSE pairing[b])
  BY <1>3 DEF TokenInv, TokenTypes
<1>5. ServersMove /\ cred' = [cred EXCEPT ![a] = cred[a]]
  BY <1>3 DEF TokenInv, TokenTypes, ServersMove
<1>6. \A x \in Servers : RowOK(x)'
  BY <1>3 DEF TokenInv, RowOK
<1>7. AgentOK(a)'
  BY <1>2, <1>3, <1>4 DEF TokenInv, AgentOK, Issued
<1>8. NoOrphanToken'
  <2>1. pairing[a].token = 0
    BY <1>3 DEF TokenInv, AgentOK
  <2> QED
    BY <1>3, <1>4, <2>1 DEF TokenInv, NoOrphanToken
<1> QED
  BY <1>1, <1>2, <1>3, <1>5, <1>6, <1>7, <1>8, OneMachine

\* A request ends: nobody has its token any more but those it was given up by.
LEMMA RequestEnds ==
  ASSUME LifecycleConstants, TokenInv, NEW a \in Agents,
         pairing' = [pairing EXCEPT ![a] = NoPairing], UNCHANGED <<row, minted, cred>>,
         dropped \subseteq dropped',
         pairing[a].token # 0 => <<pairing[a].server, pairing[a].token>> \in dropped'
  PROVE  TokenInv'
<1>1. cred[a] \in CredRec /\ cred' = [cred EXCEPT ![a] = cred[a]]
  BY DEF TokenInv, TokenTypes
<1>2. \A b \in Agents : pairing'[b] = (IF b = a THEN NoPairing ELSE pairing[b])
  BY DEF TokenInv, TokenTypes
<1>3. ServersMove /\ \A s \in Servers : RowOK(s)'
  BY DEF TokenInv, TokenTypes, ServersMove, RowOK
<1>4. AgentOK(a)'
  BY <1>2, NoneYetPaired DEF TokenInv, AgentOK, Issued
<1>5. NoOrphanToken'
  <2> SUFFICES ASSUME NEW s \in Servers, row[s].token # 0
               PROVE  \/ \E b \in Agents : cred[b].server = s /\ cred[b].token = row[s].token
                      \/ \E b \in Agents : pairing'[b].server = s /\ pairing'[b].token = row[s].token
                      \/ <<s, row[s].token>> \in dropped'
    BY DEF NoOrphanToken
  <2>1. CASE \E b \in Agents : pairing[b].server = s /\ pairing[b].token = row[s].token
    BY <2>1, <1>2
  <2> QED
    BY <2>1 DEF TokenInv, NoOrphanToken
<1> QED
  BY <1>1, <1>3, <1>4, <1>5, NoneYetPaired, OneMachine

LEMMA FindPreviousStep ==
  ASSUME LifecycleConstants, TokenInv, NEW a \in Agents, PairFindPrevious(a)
  PROVE  TokenInv'
<1> DEFINE v == IF Releasable(a) THEN "release" ELSE "done"
           q == [pairing[a] EXCEPT !.pc = v]
<1>1. pairing[a] \in PairRec /\ cred[a] \in CredRec /\ cred' = [cred EXCEPT ![a] = cred[a]]
  BY DEF TokenInv, TokenTypes, PairFindPrevious
<1>2. /\ q \in PairRec /\ q.pc = v /\ q.server = pairing[a].server
      /\ q.token = pairing[a].token /\ q.previous = pairing[a].previous
  BY <1>1 DEF PairRec
<1>3. /\ pairing' = [pairing EXCEPT ![a] = q] /\ pairing[a].pc = "claimed"
      /\ UNCHANGED <<row, minted, cred, dropped>>
  BY DEF PairFindPrevious
<1>4. \/ v = "release"
      \/ /\ v = "done"
         /\ \/ pairing[a].previous \in {NoServer, pairing[a].server}
            \/ ~ row[pairing[a].previous].exists
            \/ <<pairing[a].previous, pairing[a].server>> \notin Sibling
  BY DEF Releasable
<1> HIDE DEF q, v
<1>5. \A b \in Agents : pairing'[b] = (IF b = a THEN q ELSE pairing[b])
  BY <1>3 DEF TokenInv, TokenTypes
<1>6. ServersMove /\ \A s \in Servers : RowOK(s)'
  BY <1>3 DEF TokenInv, TokenTypes, ServersMove, RowOK
<1>7. ( /\ cred[a].token # 0 /\ cred[a].server # pairing[a].server /\ v = "done"
        /\ <<cred[a].server, pairing[a].server>> \in Sibling )
        => row[cred[a].server].token # cred[a].token
  BY <1>1, <1>3, <1>4 DEF TokenInv, AgentOK, RowOK, CredRec
<1>8. AgentOK(a)'
  BY <1>2, <1>3, <1>4, <1>5, <1>7 DEF TokenInv, AgentOK, Issued
<1>9. NoOrphanToken'
  BY <1>2, <1>3, <1>5 DEF TokenInv, NoOrphanToken
<1> QED
  BY <1>1, <1>2, <1>3, <1>6, <1>8, <1>9, OneMachine

LEMMA ClaimStep ==
  ASSUME LifecycleConstants, TokenInv, NEW a \in Agents, PairClaim(a)
  PROVE  TokenInv'
<1> DEFINE s == pairing[a].server
<1>1. pairing[a] \in PairRec /\ cred[a] \in CredRec /\ pairing[a].pc = "found" /\ s \in Servers
  BY DEF TokenInv, TokenTypes, PairClaim, AgentOK
<1>2. pairing[a].token = 0
  BY <1>1 DEF TokenInv, AgentOK
<1>3. CASE ~ row[s].exists
  BY <1>2, <1>3, RequestEnds DEF PairClaim
<1>4. CASE row[s].exists
  <2> DEFINE n == minted[s] + 1
             q == [pairing[a] EXCEPT !.pc = "claimed", !.token = n]
             r == [row[s] EXCEPT !.token = n, !.status = "ONLINE", !.code = 0, !.age = "live"]
  <2>1. n \in Nat /\ n # 0 /\ n > minted[s] /\ minted[s] \in Nat
    BY <1>1 DEF TokenInv, TokenTypes
  <2>2. minted' = [minted EXCEPT ![s] = n] /\ UNCHANGED <<cred, dropped>>
    BY <1>4 DEF PairClaim
  <2>3. row' = [row EXCEPT ![s] = r] /\ pairing' = [pairing EXCEPT ![a] = q]
    BY <1>4 DEF PairClaim
  <2>4. /\ q \in PairRec /\ q.pc = "claimed" /\ q.server = s /\ q.token = n
        /\ q.previous = pairing[a].previous
    BY <1>1, <2>1 DEF PairRec
  <2>5. r \in RowRec /\ r.token = n /\ r.exists
    BY <1>1, <1>4, <2>1 DEF TokenInv, TokenTypes, RowRec, Statuses
  <2> HIDE DEF s, q, r
  <2>6. \A x \in Servers : row'[x] = (IF x = s THEN r ELSE row[x])
    BY <2>3 DEF TokenInv, TokenTypes
  <2>7. \A x \in Servers : minted'[x] = (IF x = s THEN n ELSE minted[x])
    BY <2>2 DEF TokenInv, TokenTypes
  <2> DEFINE m == minted[s]
  <2>8. row' \in [Servers -> RowRec] /\ minted' \in [Servers -> Nat]
    BY <2>1, <2>2, <2>3, <2>5 DEF TokenInv, TokenTypes
  <2>9. ServersMove
    BY <1>1, <2>1, <2>5, <2>6, <2>7, <2>8 DEF ServersMove, TokenInv, TokenTypes
  <2> HIDE DEF n
  <2>10. \A x \in Servers : RowOK(x)'
    BY <2>5, <2>6, <2>7 DEF TokenInv, RowOK
  <2>11. \A b \in Agents : pairing'[b] = (IF b = a THEN q ELSE pairing[b])
    BY <2>3 DEF TokenInv, TokenTypes
  <2>12. cred[a].token # 0 => cred[a].server \in Servers /\ cred[a].token <= minted[cred[a].server]
    BY <1>1 DEF TokenInv, AgentOK, CredRec
  <2>13. cred[a].token # 0 => cred[a].token <= minted'[cred[a].server]
    BY <1>1, <2>8, <2>9, <2>12 DEF ServersMove, TokenInv, TokenTypes, CredRec
  <2>14. cred[a].token # 0 /\ cred[a].server = s => cred[a].token < n
    BY <1>1, <2>1, <2>12 DEF CredRec
  <2>15. minted'[s] = n /\ n <= n
    BY <1>1, <2>1, <2>7
  <2>16. pairing'[a] = q /\ cred' = cred
    BY <2>2, <2>11
  <2>17. AgentOK(a)'
    BY <1>1, <2>1, <2>4, <2>13, <2>14, <2>15, <2>16 DEF TokenInv, AgentOK, Issued
  <2>18. NoOrphanToken'
    <3> SUFFICES ASSUME NEW x \in Servers, row'[x].token # 0
                 PROVE  \/ \E b \in Agents : cred'[b].server = x /\ cred'[b].token = row'[x].token
                        \/ \E b \in Agents : pairing'[b].server = x /\ pairing'[b].token = row'[x].token
                        \/ <<x, row'[x].token>> \in dropped'
      BY DEF NoOrphanToken
    <3>1. CASE x = s
      BY <3>1, <2>4, <2>5, <2>6, <2>16
    <3>2. CASE x # s
      <4>1. row'[x] = row[x]
        BY <3>2, <2>6
      <4>2. \A b \in Agents : pairing[b].token = row[x].token => pairing'[b] = pairing[b]
        BY <1>2, <2>11, <4>1
      <4> QED
        BY <2>2, <4>1, <4>2 DEF TokenInv, NoOrphanToken
    <3> QED
      BY <3>1, <3>2
  <2>19. cred' = [cred EXCEPT ![a] = cred[a]]
    BY <2>2 DEF TokenInv, TokenTypes
  <2> QED
    BY <1>1, <2>3, <2>4, <2>9, <2>10, <2>17, <2>18, <2>19, OneMachine
<1> QED
  BY <1>3, <1>4

LEMMA ReleaseStep ==
  ASSUME LifecycleConstants, TokenInv, NEW a \in Agents, PairRelease(a)
  PROVE  TokenInv'
<1> DEFINE p == pairing[a].previous
<1>1. pairing[a] \in PairRec /\ cred[a] \in CredRec /\ pairing[a].pc = "release"
  BY DEF TokenInv, TokenTypes, PairRelease
<1>2. CASE ~ row[p].exists
  BY <1>2, RequestEnds DEF PairRelease
<1>3. CASE row[p].exists
  <2> DEFINE q == [pairing[a] EXCEPT !.pc = "done"]
             r == [row[p] EXCEPT !.token = 0, !.status = "UNKNOWN"]
  <2>1. /\ row' = [row EXCEPT ![p] = r] /\ pairing' = [pairing EXCEPT ![a] = q]
        /\ UNCHANGED <<minted, cred, dropped>>
    BY <1>3 DEF PairRelease
  <2>2. /\ q \in PairRec /\ q.pc = "done" /\ q.server = pairing[a].server
        /\ q.token = pairing[a].token /\ q.previous = p
    BY <1>1 DEF PairRec
  <2>3. p \in Servers => r \in RowRec /\ r.token = 0
    BY DEF TokenInv, TokenTypes, RowRec, Statuses
  <2> HIDE DEF q, r, p
  <2>4. \A x \in Servers : row'[x] = (IF x = p THEN r ELSE row[x])
    BY <2>1 DEF TokenInv, TokenTypes
  <2>5. row' \in [Servers -> RowRec]
    BY <2>1, <2>3 DEF TokenInv, TokenTypes
  <2>6. ServersMove
    BY <2>1, <2>3, <2>4, <2>5 DEF TokenInv, TokenTypes, ServersMove
  <2>7. \A x \in Servers : RowOK(x)'
    BY <2>1, <2>3, <2>4 DEF TokenInv, RowOK
  <2>8. \A b \in Agents : pairing'[b] = (IF b = a THEN q ELSE pairing[b])
    BY <2>1 DEF TokenInv, TokenTypes
  <2>9. cred[a].token # 0 => cred[a].server = p /\ p \in Servers /\ row'[p].token = 0
    BY <1>1, <2>3, <2>4 DEF TokenInv, AgentOK, CredRec, p
  <2>10. pairing'[a] = q /\ cred' = cred /\ minted' = minted
    BY <2>1, <2>8
  <2>11. AgentOK(a)'
    BY <1>1, <2>2, <2>9, <2>10 DEF TokenInv, AgentOK, Issued, p
  <2>12. NoOrphanToken'
    BY <2>1, <2>2, <2>3, <2>4, <2>8 DEF TokenInv, NoOrphanToken
  <2>13. cred' = [cred EXCEPT ![a] = cred[a]]
    BY <2>1 DEF TokenInv, TokenTypes
  <2> QED
    BY <1>1, <2>1, <2>2, <2>6, <2>7, <2>11, <2>12, <2>13, OneMachine
<1> QED
  BY <1>2, <1>3

\* The machine keeps the token it was issued; the row it held before accepts its old one no
\* more, or the machine gives that one up.
LEMMA SavedStep ==
  ASSUME LifecycleConstants, TokenInv, NEW a \in Agents, PairSaved(a)
  PROVE  TokenInv'
<1> DEFINE s == pairing[a].server
           c == [token |-> pairing[a].token, server |-> s, library |-> s]
<1>1. /\ pairing[a] \in PairRec /\ cred[a] \in CredRec /\ pairing[a].pc = "done"
      /\ s \in Servers /\ pairing[a].token # 0 /\ pairing[a].token <= minted[s]
  BY DEF TokenInv, TokenTypes, PairSaved, AgentOK, Issued
<1>2. c \in CredRec /\ c.token = pairing[a].token /\ c.server = s
  BY <1>1 DEF CredRec, PairRec
<1>3. /\ cred' = [cred EXCEPT ![a] = c] /\ pairing' = [pairing EXCEPT ![a] = NoPairing]
      /\ UNCHANGED <<row, minted>> /\ dropped \subseteq dropped'
  BY DEF PairSaved
<1>4. cred[a].token # 0 /\ cred[a].server # s /\ <<cred[a].server, s>> \notin Sibling
        => <<cred[a].server, cred[a].token>> \in dropped'
  BY DEF PairSaved, Given
<1> HIDE DEF c
<1>5. \A b \in Agents : /\ pairing'[b] = (IF b = a THEN NoPairing ELSE pairing[b])
                        /\ cred'[b] = (IF b = a THEN c ELSE cred[b])
  BY <1>3 DEF TokenInv, TokenTypes
<1>6. ServersMove /\ \A x \in Servers : RowOK(x)'
  BY <1>3 DEF TokenInv, TokenTypes, ServersMove, RowOK
<1>7. AgentOK(a)'
  BY <1>1, <1>2, <1>3, <1>5, NoneYetPaired DEF AgentOK, Issued
<1>8. \A x \in Servers : cred[a].server = x /\ cred[a].token = row[x].token /\ row[x].token # 0
                           => <<x, row[x].token>> \in dropped'
  <2> SUFFICES ASSUME NEW x \in Servers, cred[a].server = x, cred[a].token = row[x].token,
                      row[x].token # 0
               PROVE  <<x, row[x].token>> \in dropped'
    OBVIOUS
  <2>1. x # s
    <3> SUFFICES ASSUME x = s PROVE FALSE
      OBVIOUS
    <3>1. cred[a].token < pairing[a].token
      BY <1>1 DEF TokenInv, AgentOK, Issued
    <3>2. cred[a].token = minted[s]
      BY DEF TokenInv, RowOK
    <3>3. cred[a].token \in Nat /\ pairing[a].token \in Nat
      BY <1>1 DEF CredRec, PairRec
    <3> QED
      BY <1>1, <3>1, <3>2, <3>3
  <2>2. <<x, s>> \notin Sibling
    BY <1>1, <2>1 DEF TokenInv, AgentOK
  <2> QED
    BY <1>4, <2>1, <2>2
<1>9. NoOrphanToken'
  <2> SUFFICES ASSUME NEW x \in Servers, row[x].token # 0
               PROVE  \/ \E b \in Agents : cred'[b].server = x /\ cred'[b].token = row[x].token
                      \/ \E b \in Agents : pairing'[b].server = x /\ pairing'[b].token = row[x].token
                      \/ <<x, row[x].token>> \in dropped'
    BY <1>3 DEF NoOrphanToken
  <2>1. CASE \E b \in Agents : cred[b].server = x /\ cred[b].token = row[x].token
    BY <2>1, <1>5, <1>8
  <2>2. CASE \E b \in Agents : pairing[b].server = x /\ pairing[b].token = row[x].token
    BY <2>2, <1>2, <1>5
  <2> QED
    BY <2>1, <2>2, <1>3 DEF TokenInv, NoOrphanToken
<1> QED
  BY <1>2, <1>3, <1>6, <1>7, <1>9, NoneYetPaired, OneMachine

\* A machine resets its state file and gives up the token in it.
LEMMA ResetStep ==
  ASSUME LifecycleConstants, TokenInv, NEW a \in Agents, Unpair(a) \/ WipeCredential(a)
  PROVE  TokenInv'
<1>1. cred[a] \in CredRec /\ pairing[a] \in PairRec
  BY DEF TokenInv, TokenTypes
<1>2. PICK c \in CredRec : /\ c.token = 0 /\ c.server = NoServer
                           /\ cred' = [cred EXCEPT ![a] = c]
  <2>1. CASE WipeCredential(a)
    BY <2>1, NoneYetPaired DEF WipeCredential
  <2>2. CASE Unpair(a)
    <3> DEFINE c == [NoCred EXCEPT !.library = cred[a].library]
    <3>1. c \in CredRec /\ c.token = 0 /\ c.server = NoServer
      BY <1>1, NoneYetPaired DEF CredRec, NoCred
    <3> QED
      BY <2>2, <3>1 DEF Unpair
  <2> QED
    BY <2>1, <2>2
<1>3. /\ UNCHANGED <<row, minted, pairing>> /\ dropped \subseteq dropped'
      /\ cred[a].token # 0 => <<cred[a].server, cred[a].token>> \in dropped'
  BY DEF Unpair, WipeCredential, Given
<1>4. \A b \in Agents : cred'[b] = (IF b = a THEN c ELSE cred[b])
  BY <1>2 DEF TokenInv, TokenTypes
<1>5. ServersMove /\ \A s \in Servers : RowOK(s)'
  BY <1>3 DEF TokenInv, TokenTypes, ServersMove, RowOK
<1>6. AgentOK(a)'
  BY <1>2, <1>3, <1>4 DEF TokenInv, AgentOK
<1>7. NoOrphanToken'
  <2> SUFFICES ASSUME NEW s \in Servers, row[s].token # 0
               PROVE  \/ \E b \in Agents : cred'[b].server = s /\ cred'[b].token = row[s].token
                      \/ \E b \in Agents : pairing[b].server = s /\ pairing[b].token = row[s].token
                      \/ <<s, row[s].token>> \in dropped'
    BY <1>3 DEF NoOrphanToken
  <2>1. CASE \E b \in Agents : cred[b].server = s /\ cred[b].token = row[s].token
    BY <2>1, <1>3, <1>4
  <2> QED
    BY <2>1, <1>3 DEF TokenInv, NoOrphanToken
<1>8. pairing' = [pairing EXCEPT ![a] = pairing[a]]
  BY <1>3 DEF TokenInv, TokenTypes
<1> QED
  BY <1>1, <1>2, <1>5, <1>6, <1>7, <1>8, OneMachine

LEMMA CodesRestart ==
  ASSUME LifecycleConstants, TokenInv, LifecycleRestart
  PROVE  TokenInv'
<1>1. /\ \A a \in Agents : pairing'[a] = NoPairing
      /\ pairing' \in [Agents -> PairRec] /\ UNCHANGED <<row, minted, cred>>
      /\ dropped \subseteq dropped'
      /\ \A a \in Agents : pairing[a].token # 0 =>
                             <<pairing[a].server, pairing[a].token>> \in dropped'
  BY NoneYetPaired DEF LifecycleRestart
<1>2. TokenTypes' /\ \A s \in Servers : RowOK(s)'
  BY <1>1 DEF TokenInv, TokenTypes, RowOK
<1>3. \A a \in Agents : AgentOK(a)'
  BY <1>1, NoneYetPaired DEF TokenInv, AgentOK, Issued
<1>4. NoOrphanToken'
  <2> SUFFICES ASSUME NEW s \in Servers, row[s].token # 0
               PROVE  \/ \E b \in Agents : cred[b].server = s /\ cred[b].token = row[s].token
                      \/ <<s, row[s].token>> \in dropped'
    BY <1>1 DEF NoOrphanToken
  <2> QED
    BY <1>1 DEF TokenInv, NoOrphanToken
<1> QED
  BY <1>2, <1>3, <1>4 DEF TokenInv

\* The invariant holds for any servers, machines, requests and faults.
THEOREM TokenInductive == LifecycleSpec => [](TokenInv /\ CodesOK)
<1>1. LifecycleInit => TokenInv /\ CodesOK
  <2> SUFFICES ASSUME LifecycleInit PROVE TokenInv /\ CodesOK
    OBVIOUS
  <2>1. TokenTypes
    BY LifecycleConstants, NoneYetPaired DEF LifecycleInit, TokenTypes
  <2>2. \A s \in Servers : RowOK(s) /\ row[s].token = 0
    BY LifecycleConstants, NoneYetPaired DEF LifecycleInit, RowOK
  <2>3. \A a \in Agents : AgentOK(a)
    BY LifecycleConstants, NoneYetPaired DEF LifecycleInit, AgentOK, Issued
  <2>4. NoOrphanToken
    BY <2>2 DEF NoOrphanToken
  <2> QED
    BY <2>1, <2>2, <2>3, <2>4 DEF TokenInv, CodesOK, LifecycleInit
<1>2. TokenInv /\ CodesOK /\ [LifecycleNext]_lifecycleVars => (TokenInv /\ CodesOK)'
  <2> SUFFICES ASSUME TokenInv, CodesOK, [LifecycleNext]_lifecycleVars
               PROVE  TokenInv' /\ CodesOK'
    OBVIOUS
  <2> USE LifecycleConstants
  <2>1. ASSUME UNCHANGED <<row, minted, cred, pairing, dropped>>
        PROVE  TokenInv'
    <3>1. /\ row' \in [Servers -> RowRec] /\ dropped \subseteq dropped'
          /\ \A s \in Servers : /\ row'[s].token \in {0, row[s].token}
                                /\ ~ row'[s].exists => row'[s].token = 0
      BY <2>1 DEF TokenInv, TokenTypes, RowOK
    <3> QED
      BY <2>1, <3>1, RowsOnly
  <2>2. ASSUME NEW s \in Servers,
               Register(s) \/ NewPairingCode(s) \/ DeleteServer(s) \/ CodeAges(s)
                 \/ RetentionDelete(s)
        PROVE  TokenInv' /\ CodesOK'
    <3>1. codes' \in {codes, [codes EXCEPT ![s] = 1], [codes EXCEPT ![s] = codes[s] + 1]}
      BY <2>2 DEF Register, NewPairingCode, DeleteServer, CodeAges, RetentionDelete
    <3>2. CodesOK'
      BY <3>1 DEF CodesOK
    <3> QED
      BY <2>2, <3>2, RowActions
  <2>3. ASSUME NEW s \in Servers, SeenAges(s) \/ ForgetBegin(s)
        PROVE  UNCHANGED <<codes, row, minted, cred, pairing, dropped>>
    BY <2>3 DEF SeenAges, ForgetBegin
  <2>4. ASSUME NEW a \in Agents,
               \/ \E s \in Servers, n \in 1 .. MaxCodes : PairLookup(a, s, n)
               \/ PairSteps(a) \/ PairLost(a) \/ Unpair(a) \/ WipeCredential(a)
        PROVE  TokenInv' /\ CodesOK'
    <3>1. UNCHANGED codes
      BY <2>4 DEF PairLookup, PairSteps, PairClaim, PairFindPrevious, PairRelease, PairSaved,
         PairLost, Unpair, WipeCredential
    <3> SUFFICES TokenInv'
      BY <3>1 DEF CodesOK
    <3>2. CASE PairLost(a)
      BY <3>2, RequestEnds DEF PairLost
    <3>3. CASE PairSteps(a)
      BY <3>3, ClaimStep, FindPreviousStep, ReleaseStep, SavedStep DEF PairSteps
    <3>4. CASE Unpair(a) \/ WipeCredential(a)
      BY <3>4, ResetStep
    <3>5. ASSUME NEW s \in Servers, NEW n \in 1 .. MaxCodes, PairLookup(a, s, n)
          PROVE  TokenInv'
      BY <3>5, LookupStep
    <3> QED
      BY <2>4, <3>2, <3>3, <3>4, <3>5
  <2>5. ASSUME NEW a \in Agents,
               \/ Poll(a) \/ BeatBegin(a) \/ WipeLost(a)
               \/ \E k \in Orders : FetchForget(a, k)
               \/ \E ok \in BOOLEAN : RunForgetScript(a, ok)
               \/ AckForget(a) \/ AckRefused(a)
        PROVE  UNCHANGED <<codes, row, minted, cred, pairing, dropped>>
    BY <2>5 DEF Poll, BeatBegin, WipeLost, FetchForget, RunForgetScript, AckForget, AckRefused
  <2>6. ASSUME NEW a \in Agents, BeatWrite(a)
        PROVE  TokenInv' /\ CodesOK'
    <3> DEFINE s == beat[a].server
    <3>1. /\ row' = row \/ (row[s].exists /\ row' = [row EXCEPT ![s].status = "ONLINE"])
          /\ UNCHANGED <<codes, minted, cred, pairing, dropped>>
      BY <2>6 DEF BeatWrite
    <3>2. CASE s \in Servers
      BY <3>1, <3>2, StatusWrites DEF CodesOK
    <3>3. CASE s \notin Servers
      <4>1. row' = row
        BY <3>1, <3>3 DEF TokenInv, TokenTypes
      <4> QED
        BY <2>1, <3>1, <4>1 DEF CodesOK
    <3> QED
      BY <3>2, <3>3
  <2>7. CASE SweepSteps \/ RetentionRead
    <3> DEFINE s == offline.server
    <3>1. /\ row' = row \/ (row[s].exists /\ row' = [row EXCEPT ![s].status = "OFFLINE"])
          /\ UNCHANGED <<codes, minted, cred, pairing, dropped>>
      BY <2>7 DEF SweepSteps, SweepRead, SweepCheck, SweepWrite, SweepEnd, RetentionRead
    <3>2. CASE s \in Servers
      BY <3>1, <3>2, StatusWrites DEF CodesOK
    <3>3. CASE s \notin Servers
      <4>1. row' = row
        BY <3>1, <3>3 DEF TokenInv, TokenTypes
      <4> QED
        BY <2>1, <3>1, <4>1 DEF CodesOK
    <3> QED
      BY <3>2, <3>3
  <2>8. CASE ForgetSteps
    <3> DEFINE s == forget.server
    <3>1. /\ row' \in {row, [row EXCEPT ![s] = NoRow]}
          /\ UNCHANGED <<codes, minted, cred, pairing, dropped>>
      BY <2>8 DEF ForgetSteps, ForgetOverdue, ForgetTimeout, ForgetAnswered, ForgetDelete
    <3>2. CASE s \in Servers
      BY <3>1, <3>2, StatusWrites DEF CodesOK
    <3>3. CASE s \notin Servers
      <4>1. row' = row
        BY <3>1, <3>3 DEF TokenInv, TokenTypes
      <4> QED
        BY <2>1, <3>1, <4>1 DEF CodesOK
    <3> QED
      BY <3>2, <3>3
  <2>9. CASE LifecycleRestart
    BY <2>9, CodesRestart DEF LifecycleRestart, CodesOK
  <2>10. CASE UNCHANGED lifecycleVars
    BY <2>1, <2>10 DEF lifecycleVars, CodesOK
  <2> QED
    BY <2>1, <2>2, <2>3, <2>4, <2>5, <2>6, <2>7, <2>8, <2>9, <2>10
       DEF LifecycleNext, WipeSteps, CodesOK
<1> QED
  BY <1>1, <1>2, PTL DEF LifecycleSpec

\* Whatever is re-paired, deleted, unpaired, lost or restarted, a row never accepts a token that
\* was neither kept by a machine, nor is on its way to one, nor was given up on that side.
THEOREM NoTokenIsOrphaned == LifecycleSpec => []NoOrphanToken
<1>1. TokenInv => NoOrphanToken
  BY DEF TokenInv
<1> QED
  BY <1>1, TokenInductive, PTL
-----------------------------------------------------------------------------
(* What pairing promises: every step is one of the promise *)

AcceptedTokens == [s \in Servers |-> row[s].token]
HeldTokens     == [a \in Agents |-> Tokens(a)]

\* No machine comes to have a token, and no row accepts another one.
LEMMA TokensLost ==
  ASSUME \A s \in Servers : row'[s].token = row[s].token, UNCHANGED minted,
         \A a \in Agents : Tokens(a)' \subseteq Tokens(a)
  PROVE  Pairing!Lose
<1>1. AcceptedTokens' = AcceptedTokens
  BY DEF AcceptedTokens
<1>2. HeldTokens' = [a \in Agents |-> HeldTokens[a] \cap HeldTokens'[a]]
  BY DEF HeldTokens
<1> QED
  BY <1>1, <1>2 DEF Pairing!Lose, AcceptedTokens, HeldTokens

\* A machine's tokens depend on its credential and its request alone.
LEMMA SameTokens ==
  ASSUME UNCHANGED cred, NEW a \in Agents, pairing'[a].token = pairing[a].token,
         pairing'[a].server = pairing[a].server
  PROVE  Tokens(a)' = Tokens(a)
BY DEF Tokens, Given

\* One row accepts no token any more, or the one it did.
LEMMA TokenRevoked ==
  ASSUME TokenInv, NEW s \in Servers, NEW r \in RowRec, r.token \in {0, row[s].token},
         row' = [row EXCEPT ![s] = r], UNCHANGED minted,
         \A a \in Agents : Tokens(a)' = Tokens(a)
  PROVE  Pairing!Next
<1>1. \A x \in Servers : row'[x] = (IF x = s THEN r ELSE row[x])
  BY DEF TokenInv, TokenTypes
<1>2. CASE r.token = row[s].token
  <2>1. \A x \in Servers : row'[x].token = row[x].token
    BY <1>1, <1>2
  <2> QED
    BY <2>1, TokensLost DEF Pairing!Next
<1>3. CASE r.token = 0
  <2>1. \A x \in Servers : row'[x].token = (IF x = s THEN 0 ELSE row[x].token)
    BY <1>1, <1>3
  <2>2. AcceptedTokens' = [AcceptedTokens EXCEPT ![s] = 0] /\ HeldTokens' = HeldTokens
    BY <2>1 DEF AcceptedTokens, HeldTokens
  <2>3. Pairing!Revoke(s)
    BY <2>2 DEF Pairing!Revoke, AcceptedTokens, HeldTokens
  <2> QED
    BY <2>3 DEF Pairing!Next
<1> QED
  BY <1>2, <1>3

\* A row that is registered, gets a new code, ages or is removed.
LEMMA RowPromise ==
  ASSUME LifecycleConstants, TokenInv, CodesOK, NEW s \in Servers,
         Register(s) \/ NewPairingCode(s) \/ DeleteServer(s) \/ CodeAges(s) \/ RetentionDelete(s)
  PROVE  Pairing!Next
<1>1. row[s] \in RowRec
  BY DEF TokenInv, TokenTypes
<1>2. UNCHANGED <<minted, cred, pairing>>
  BY DEF Register, NewPairingCode, DeleteServer, CodeAges, RetentionDelete
<1>3. \A a \in Agents : Tokens(a)' = Tokens(a)
  BY <1>2, SameTokens
<1>4. PICK r \in RowRec : r.token \in {0, row[s].token} /\ row' = [row EXCEPT ![s] = r]
  <2>1. CASE Register(s)
    <3> DEFINE r == [NoRow EXCEPT !.exists = TRUE, !.code = 1]
    <3>1. r \in RowRec /\ r.token = 0
      BY NoneYetPaired DEF RowRec, NoRow
    <3> QED
      BY <2>1, <3>1 DEF Register
  <2>2. CASE NewPairingCode(s)
    <3> DEFINE n == codes[s] + 1
               r == [row[s] EXCEPT !.code = n, !.age = "live"]
    <3>1. n \in Nat
      BY DEF CodesOK
    <3>2. r \in RowRec /\ r.token = row[s].token
      BY <1>1, <3>1 DEF RowRec
    <3> QED
      BY <2>2, <3>2 DEF NewPairingCode
  <2>3. CASE DeleteServer(s) \/ RetentionDelete(s)
    BY <2>3, NoneYetPaired DEF DeleteServer, RetentionDelete
  <2>4. CASE CodeAges(s)
    <3> DEFINE g == IF row[s].age = "live" THEN "expired" ELSE "abandoned"
               r == [row[s] EXCEPT !.age = g]
    <3>1. r \in RowRec /\ r.token = row[s].token
      BY <1>1 DEF RowRec
    <3>2. row' = [row EXCEPT ![s] = r]
      BY <2>4, <1>1 DEF CodeAges
    <3> QED
      BY <3>1, <3>2
  <2> QED
    BY <2>1, <2>2, <2>3, <2>4
<1> QED
  BY <1>2, <1>3, <1>4, TokenRevoked

\* A heartbeat, the sweep, and the removal of a forgotten server.
LEMMA StatusPromise ==
  ASSUME LifecycleConstants, TokenInv, NEW s,
         row' \in {row, [row EXCEPT ![s].status = "ONLINE"], [row EXCEPT ![s].status = "OFFLINE"],
                   [row EXCEPT ![s] = NoRow]},
         UNCHANGED <<minted, cred, pairing>>
  PROVE  Pairing!Next
<1>1. \A a \in Agents : Tokens(a)' = Tokens(a)
  BY SameTokens
<1>2. CASE row' = row
  BY <1>1, <1>2, TokensLost DEF Pairing!Next
<1>3. CASE s \notin Servers
  <2>1. row' = row
    BY <1>3 DEF TokenInv, TokenTypes
  <2> QED
    BY <1>2, <2>1
<1>4. CASE s \in Servers /\ row' = [row EXCEPT ![s] = NoRow]
  BY <1>1, <1>4, NoneYetPaired, TokenRevoked
<1>5. ASSUME NEW v \in Statuses, s \in Servers, row' = [row EXCEPT ![s].status = v]
      PROVE  Pairing!Next
  <2> DEFINE r == [row[s] EXCEPT !.status = v]
  <2>1. row' = [row EXCEPT ![s] = r]
    BY <1>5
  <2>2. r \in RowRec /\ r.token = row[s].token
    BY <1>5 DEF TokenInv, TokenTypes, RowRec
  <2> HIDE DEF r
  <2> QED
    BY <1>1, <1>5, <2>1, <2>2, TokenRevoked
<1> QED
  BY <1>2, <1>3, <1>4, <1>5 DEF Statuses

\* The claim is the grant: the request has the token, and the row accepts no other.
LEMMA ClaimGrants ==
  ASSUME LifecycleConstants, TokenInv, NEW a \in Agents, PairClaim(a)
  PROVE  Pairing!Next
<1>0. PICK s \in Servers : s = pairing[a].server
  BY DEF TokenInv, PairClaim, AgentOK
<1>1. /\ pairing[a] \in PairRec /\ pairing[a].pc = "found"
      /\ pairing[a].token = 0 /\ UNCHANGED cred
  BY DEF TokenInv, TokenTypes, PairClaim, AgentOK
<1>2. CASE ~ row[s].exists
  <2>1. UNCHANGED <<row, minted>> /\ pairing' = [pairing EXCEPT ![a] = NoPairing]
    BY <1>0, <1>2 DEF PairClaim
  <2>2. \A b \in Agents : Tokens(b)' \subseteq Tokens(b)
    <3> TAKE b \in Agents
    <3>1. pairing'[b].token = 0 \/ pairing'[b] = pairing[b]
      BY <2>1, NoneYetPaired DEF TokenInv, TokenTypes
    <3> QED
      BY <3>1, <1>1 DEF Tokens, Given
  <2> QED
    BY <2>1, <2>2, TokensLost DEF Pairing!Next
<1>3. CASE row[s].exists
  <2> DEFINE n == minted[s] + 1
             q == [pairing[a] EXCEPT !.pc = "claimed", !.token = n]
             r == [row[s] EXCEPT !.token = n, !.status = "ONLINE", !.code = 0, !.age = "live"]
  <2>1. n \in Nat /\ n # 0
    BY <1>1 DEF TokenInv, TokenTypes
  <2>2. minted' = [minted EXCEPT ![s] = n]
    BY <1>0, <1>3 DEF PairClaim
  <2>3. row' = [row EXCEPT ![s] = r] /\ pairing' = [pairing EXCEPT ![a] = q]
    BY <1>0, <1>3 DEF PairClaim
  <2>4. q.server = s /\ q.token = n
    BY <1>0, <1>1 DEF PairRec
  <2>5. r.token = n
    BY <1>1 DEF TokenInv, TokenTypes, RowRec
  <2> HIDE DEF q, r
  <2>6. \A x \in Servers : row'[x] = (IF x = s THEN r ELSE row[x])
    BY <2>3 DEF TokenInv, TokenTypes
  <2>7. \A b \in Agents : pairing'[b] = (IF b = a THEN q ELSE pairing[b])
    BY <2>3 DEF TokenInv, TokenTypes
  <2>8. AcceptedTokens' = [AcceptedTokens EXCEPT ![s] = n]
    BY <2>5, <2>6 DEF AcceptedTokens
  <2> HIDE DEF n
  <2>9. Tokens(a)' = Tokens(a) \cup {<<s, n>>}
    BY <1>1, <2>1, <2>4, <2>7 DEF Tokens, Given
  <2>10. \A b \in Agents \ {a} : Tokens(b)' = Tokens(b)
    BY <1>1, <2>7, SameTokens
  <2>11. HeldTokens' = [HeldTokens EXCEPT ![a] = HeldTokens[a] \cup {<<s, n>>}]
    BY <2>9, <2>10 DEF HeldTokens
  <2>12. Pairing!Grant(a, s)
    BY <2>2, <2>8, <2>11 DEF Pairing!Grant, AcceptedTokens, HeldTokens, n
  <2> QED
    BY <2>12 DEF Pairing!Next
<1> QED
  BY <1>2, <1>3

\* Every other step of a machine or its request.
LEMMA MachinePromise ==
  ASSUME LifecycleConstants, TokenInv, NEW a \in Agents,
         \/ \E s \in Servers, n \in 1 .. MaxCodes : PairLookup(a, s, n)
         \/ PairFindPrevious(a) \/ PairRelease(a) \/ PairSaved(a) \/ PairLost(a)
         \/ Unpair(a) \/ WipeCredential(a)
  PROVE  Pairing!Next
<1>1. \A b \in Agents : pairing[b] \in PairRec /\ cred[b] \in CredRec
  BY DEF TokenInv, TokenTypes
<1>2. CASE \/ \E s \in Servers, n \in 1 .. MaxCodes : PairLookup(a, s, n)
           \/ PairFindPrevious(a) \/ PairLost(a)
  <2>1. PICK q : /\ pairing' = [pairing EXCEPT ![a] = q]
                 /\ q.token = 0 \/ (q.token = pairing[a].token /\ q.server = pairing[a].server)
    <3>1. ASSUME NEW s \in Servers, NEW n \in 1 .. MaxCodes, PairLookup(a, s, n)
          PROVE  pairing' = [pairing EXCEPT ![a] = [pc |-> "found", server |-> s, token |-> 0,
                                                    previous |-> cred[a].server]]
      BY <3>1 DEF PairLookup
    <3>2. CASE PairFindPrevious(a)
      <4> DEFINE v == IF Releasable(a) THEN "release" ELSE "done"
                 q == [pairing[a] EXCEPT !.pc = v]
      <4>1. pairing' = [pairing EXCEPT ![a] = q]
        BY <3>2 DEF PairFindPrevious
      <4>2. q.token = pairing[a].token /\ q.server = pairing[a].server
        BY <1>1 DEF PairRec
      <4> QED
        BY <4>1, <4>2
    <3>3. CASE PairLost(a)
      BY <3>3, NoneYetPaired DEF PairLost
    <3> QED
      BY <1>2, <3>1, <3>2, <3>3
  <2>2. UNCHANGED <<row, minted, cred>>
    BY <1>2 DEF PairLookup, PairFindPrevious, PairLost
  <2>3. \A b \in Agents : pairing'[b] = (IF b = a THEN q ELSE pairing[b])
    BY <2>1 DEF TokenInv, TokenTypes
  <2>4. \A b \in Agents : Tokens(b)' \subseteq Tokens(b)
    BY <2>1, <2>2, <2>3 DEF Tokens, Given
  <2> QED
    BY <2>2, <2>4, TokensLost DEF Pairing!Next
<1>3. CASE PairRelease(a)
  <2> DEFINE p == pairing[a].previous
  <2>1. CASE ~ row[p].exists
    <3>1. pairing' = [pairing EXCEPT ![a] = NoPairing] /\ UNCHANGED <<row, minted, cred>>
      BY <1>3, <2>1 DEF PairRelease
    <3>2. \A b \in Agents : pairing'[b] = (IF b = a THEN NoPairing ELSE pairing[b])
      BY <3>1 DEF TokenInv, TokenTypes
    <3>3. \A b \in Agents : Tokens(b)' \subseteq Tokens(b)
      BY <3>1, <3>2, NoneYetPaired DEF Tokens, Given
    <3> QED
      BY <3>1, <3>3, TokensLost DEF Pairing!Next
  <2>2. CASE row[p].exists
    <3> DEFINE q == [pairing[a] EXCEPT !.pc = "done"]
               r == [row[p] EXCEPT !.token = 0, !.status = "UNKNOWN"]
    <3>1. /\ row' = [row EXCEPT ![p] = r] /\ pairing' = [pairing EXCEPT ![a] = q]
          /\ UNCHANGED <<minted, cred>>
      BY <1>3, <2>2 DEF PairRelease
    <3>2. q.token = pairing[a].token /\ q.server = pairing[a].server
      BY <1>1 DEF PairRec
    <3>3. p \in Servers => r \in RowRec /\ r.token = 0
      BY DEF TokenInv, TokenTypes, RowRec, Statuses
    <3> HIDE DEF q, r, p
    <3>4. \A b \in Agents : pairing'[b] = (IF b = a THEN q ELSE pairing[b])
      BY <3>1 DEF TokenInv, TokenTypes
    <3>5. \A b \in Agents : Tokens(b)' = Tokens(b)
      BY <3>1, <3>2, <3>4, SameTokens
    <3>6. CASE p \in Servers
      BY <3>1, <3>3, <3>5, <3>6, TokenRevoked
    <3>7. CASE p \notin Servers
      <4>1. row' = row
        BY <3>1, <3>7 DEF TokenInv, TokenTypes
      <4> QED
        BY <3>1, <3>5, <4>1, TokensLost DEF Pairing!Next
    <3> QED
      BY <3>6, <3>7
  <2> QED
    BY <2>1, <2>2
<1>4. CASE PairSaved(a)
  <2> DEFINE s == pairing[a].server
             c == [token |-> pairing[a].token, server |-> s, library |-> s]
  <2>1. pairing[a].token # 0
    BY <1>4 DEF PairSaved, TokenInv, AgentOK, Issued
  <2>2. /\ cred' = [cred EXCEPT ![a] = c] /\ pairing' = [pairing EXCEPT ![a] = NoPairing]
        /\ UNCHANGED <<row, minted>>
    BY <1>4 DEF PairSaved
  <2>3. c.token = pairing[a].token /\ c.server = pairing[a].server
    OBVIOUS
  <2> HIDE DEF c
  <2>4. \A b \in Agents : /\ pairing'[b] = (IF b = a THEN NoPairing ELSE pairing[b])
                          /\ cred'[b] = (IF b = a THEN c ELSE cred[b])
    BY <2>2 DEF TokenInv, TokenTypes
  <2>5. Tokens(a)' \subseteq Tokens(a)
    BY <2>1, <2>3, <2>4, NoneYetPaired DEF Tokens, Given
  <2>6. \A b \in Agents \ {a} : Tokens(b)' = Tokens(b)
    BY <2>4 DEF Tokens, Given
  <2>7. \A b \in Agents : Tokens(b)' \subseteq Tokens(b)
    BY <2>5, <2>6
  <2> QED
    BY <2>2, <2>7, TokensLost DEF Pairing!Next
<1>5. CASE Unpair(a) \/ WipeCredential(a)
  <2>1. UNCHANGED <<row, minted, pairing>>
    BY <1>5 DEF Unpair, WipeCredential
  <2>2. cred'[a].token = 0 /\ \A b \in Agents \ {a} : cred'[b] = cred[b]
    <3>1. CASE Unpair(a)
      <4> DEFINE c == [NoCred EXCEPT !.library = cred[a].library]
      <4>1. c.token = 0
        BY DEF NoCred
      <4>2. cred' = [cred EXCEPT ![a] = c]
        BY <3>1 DEF Unpair
      <4> HIDE DEF c
      <4> QED
        BY <4>1, <4>2 DEF TokenInv, TokenTypes
    <3>2. CASE WipeCredential(a)
      BY <3>2, NoneYetPaired DEF WipeCredential, TokenInv, TokenTypes
    <3> QED
      BY <1>5, <3>1, <3>2
  <2>3. \A b \in Agents : Tokens(b)' \subseteq Tokens(b)
    BY <2>1, <2>2 DEF Tokens, Given
  <2> QED
    BY <2>1, <2>3, TokensLost DEF Pairing!Next
<1> QED
  BY <1>2, <1>3, <1>4, <1>5

LEMMA EveryStepKeepsPromise ==
  ASSUME LifecycleConstants, TokenInv, CodesOK, [LifecycleNext]_lifecycleVars
  PROVE  Pairing!Next
<1>1. ASSUME UNCHANGED <<row, minted, cred, pairing>>
      PROVE  Pairing!Next
  <2>1. \A a \in Agents : Tokens(a)' = Tokens(a)
    BY <1>1, SameTokens
  <2> QED
    BY <1>1, <2>1, TokensLost DEF Pairing!Next
<1>2. ASSUME NEW s \in Servers,
             Register(s) \/ NewPairingCode(s) \/ DeleteServer(s) \/ CodeAges(s)
               \/ RetentionDelete(s)
      PROVE  Pairing!Next
  BY <1>2, RowPromise
<1>3. ASSUME NEW s \in Servers, SeenAges(s) \/ ForgetBegin(s)
      PROVE  UNCHANGED <<row, minted, cred, pairing>>
  BY <1>3 DEF SeenAges, ForgetBegin
<1>4. ASSUME NEW a \in Agents,
             \/ \E s \in Servers, n \in 1 .. MaxCodes : PairLookup(a, s, n)
             \/ PairSteps(a) \/ PairLost(a) \/ Unpair(a) \/ WipeCredential(a)
      PROVE  Pairing!Next
  BY <1>4, ClaimGrants, MachinePromise DEF PairSteps
<1>5. ASSUME NEW a \in Agents,
             \/ Poll(a) \/ BeatBegin(a) \/ WipeLost(a)
             \/ \E k \in Orders : FetchForget(a, k)
             \/ \E ok \in BOOLEAN : RunForgetScript(a, ok)
             \/ AckForget(a) \/ AckRefused(a)
      PROVE  UNCHANGED <<row, minted, cred, pairing>>
  BY <1>5 DEF Poll, BeatBegin, WipeLost, FetchForget, RunForgetScript, AckForget, AckRefused
<1>6. ASSUME NEW a \in Agents, BeatWrite(a)
      PROVE  Pairing!Next
  <2> DEFINE s == beat[a].server
  <2>1. /\ row' = row \/ row' = [row EXCEPT ![s].status = "ONLINE"]
        /\ UNCHANGED <<minted, cred, pairing>>
    BY <1>6 DEF BeatWrite
  <2> QED
    BY <2>1, StatusPromise
<1>7. CASE SweepSteps \/ RetentionRead
  <2> DEFINE s == offline.server
  <2>1. /\ row' = row \/ row' = [row EXCEPT ![s].status = "OFFLINE"]
        /\ UNCHANGED <<minted, cred, pairing>>
    BY <1>7 DEF SweepSteps, SweepRead, SweepCheck, SweepWrite, SweepEnd, RetentionRead
  <2> QED
    BY <2>1, StatusPromise
<1>8. CASE ForgetSteps
  <2> DEFINE s == forget.server
  <2>1. /\ row' \in {row, [row EXCEPT ![s] = NoRow]}
        /\ UNCHANGED <<minted, cred, pairing>>
    BY <1>8 DEF ForgetSteps, ForgetOverdue, ForgetTimeout, ForgetAnswered, ForgetDelete
  <2> QED
    BY <2>1, StatusPromise
<1>9. CASE LifecycleRestart
  <2>1. UNCHANGED <<row, minted, cred>> /\ \A a \in Agents : pairing'[a].token = 0
    BY <1>9, NoneYetPaired DEF LifecycleRestart
  <2>2. \A a \in Agents : Tokens(a)' \subseteq Tokens(a)
    BY <2>1 DEF Tokens, Given
  <2> QED
    BY <2>1, <2>2, TokensLost DEF Pairing!Next
<1>10. CASE UNCHANGED lifecycleVars
  BY <1>1, <1>10 DEF lifecycleVars
<1> QED
  BY <1>1, <1>2, <1>3, <1>4, <1>5, <1>6, <1>7, <1>8, <1>9, <1>10 DEF LifecycleNext, WipeSteps

LEMMA NobodyHasAToken ==
  ASSUME LifecycleConstants, LifecycleInit
  PROVE  Pairing!Init
<1>1. AcceptedTokens = [s \in Servers |-> 0] /\ minted = [s \in Servers |-> 0]
  BY NoneYetPaired DEF LifecycleInit, AcceptedTokens
<1>2. \A a \in Agents : Tokens(a) = {}
  BY NoneYetPaired DEF LifecycleInit, Tokens, Given
<1>3. HeldTokens = [a \in Agents |-> {}]
  BY <1>2 DEF HeldTokens
<1> QED
  BY <1>1, <1>3 DEF Pairing!Init, AcceptedTokens, HeldTokens

\* Pairing implements its promise for any servers, machines, requests and faults: a token goes to
\* one machine, and what a row accepts is the token it issued last or none.
THEOREM PairingKeepsItsPromise == LifecycleSpec => PairingKept
<1>1. LifecycleInit => Pairing!Init
  BY LifecycleConstants, NobodyHasAToken
<1>2. TokenInv /\ CodesOK /\ [LifecycleNext]_lifecycleVars => [Pairing!Next]_Pairing!vars
  BY LifecycleConstants, EveryStepKeepsPromise
<1> QED
  BY <1>1, <1>2, TokenInductive, PTL DEF LifecycleSpec, PairingKept, Pairing!Spec

\* No two machines have the same token.
NoneShared == \A a, b \in Agents : a # b => Tokens(a) \cap Tokens(b) = {}

\* A machine is granted a token that no machine has: theirs were issued before.
LEMMA SharesNothing ==
  ASSUME TokenInv, NoneShared, Pairing!Next
  PROVE  NoneShared'
<1>1. CASE \E s \in Servers : Pairing!Revoke(s)
  <2>1. HeldTokens' = HeldTokens
    BY <1>1 DEF Pairing!Revoke, HeldTokens
  <2> QED
    BY <2>1 DEF HeldTokens, NoneShared
<1>2. CASE Pairing!Lose
  <2>1. HeldTokens' = [a \in Agents |-> HeldTokens[a] \cap HeldTokens'[a]]
    BY <1>2 DEF Pairing!Lose, HeldTokens
  <2>2. \A a \in Agents : Tokens(a)' \subseteq Tokens(a)
    BY <2>1 DEF HeldTokens
  <2> QED
    BY <2>2 DEF NoneShared
<1>3. ASSUME NEW a \in Agents, NEW s \in Servers, Pairing!Grant(a, s)
      PROVE  NoneShared'
  <2> DEFINE n == minted[s] + 1
  <2>1. HeldTokens' = [HeldTokens EXCEPT ![a] = HeldTokens[a] \cup {<<s, n>>}]
    BY <1>3 DEF Pairing!Grant, HeldTokens
  <2>2. minted[s] \in Nat
    BY DEF TokenInv, TokenTypes
  <2>3. \A b \in Agents : /\ cred[b].token \in Nat /\ pairing[b].token \in Nat
                          /\ cred[b].token # 0 => cred[b].token <= minted[cred[b].server]
                          /\ pairing[b].token # 0 => pairing[b].token <= minted[pairing[b].server]
    BY DEF TokenInv, TokenTypes, AgentOK, CredRec, PairRec, Issued
  <2>4. \A b \in Agents : /\ ~ (cred[b].server = s /\ cred[b].token = n)
                          /\ ~ (pairing[b].server = s /\ pairing[b].token = n)
    BY <2>2, <2>3
  <2> HIDE DEF n
  <2>5. \A b \in Agents : <<s, n>> \notin Tokens(b)
    BY <2>4 DEF Tokens, Given
  <2>6. \A b \in Agents : Tokens(b)' = IF b = a THEN Tokens(a) \cup {<<s, n>>} ELSE Tokens(b)
    BY <2>1 DEF HeldTokens
  <2> QED
    BY <2>5, <2>6 DEF NoneShared
<1> QED
  BY <1>1, <1>2, <1>3 DEF Pairing!Next

\* Although two machines may claim one pairing code, at most one of them ever has the token that
\* the server accepts.
THEOREM TokenHasOneHolder == LifecycleSpec => []Pairing!OneHolder
<1>1. LifecycleInit => NoneShared
  BY LifecycleConstants, NoneYetPaired DEF LifecycleInit, NoneShared, Tokens, Given
<1>2. TokenInv /\ CodesOK /\ NoneShared /\ [LifecycleNext]_lifecycleVars => NoneShared'
  BY LifecycleConstants, EveryStepKeepsPromise, SharesNothing
<1>3. NoneShared => Pairing!OneHolder
  BY DEF NoneShared, Pairing!OneHolder
<1> QED
  BY <1>1, <1>2, <1>3, TokenInductive, PTL DEF LifecycleSpec

-----------------------------------------------------------------------------
(* The types of the rest: what the heartbeats and the sweeps hold *)

BeatRec      == [pc : {"idle", "authed"}, server : Servers \cup {NoServer}]
OfflineRec   == [pc : {"idle", "loop", "write"}, todo : SUBSET Servers,
                 server : Servers \cup {NoServer}]
RetentionRec == [pc : {"idle", "loop"}, todo : SUBSET Servers, server : Servers \cup {NoServer}]

\* A heartbeat that is under way, and a sweep about to write, are about a row.
SweepTypes ==
  /\ seen \subseteq Servers
  /\ beat \in [Agents -> BeatRec]
  /\ \A a \in Agents : beat[a].pc = "authed" => beat[a].server \in Servers
  /\ offline \in OfflineRec /\ (offline.pc = "write" => offline.server \in Servers)
  /\ retention \in RetentionRec
  /\ shut \subseteq Orders /\ dropped \subseteq Servers \X Nat /\ mishaps \in Nat

LEMMA NothingUnderWay ==
  /\ NoSweep \in OfflineRec /\ NoSweep \in RetentionRec /\ NoSweep.pc = "idle"
  /\ NoBeat \in BeatRec /\ NoBeat.pc = "idle"
BY DEF NoSweep, NoBeat, OfflineRec, RetentionRec, BeatRec

\* What a machine holds, and what a request has claimed, was issued for a row.
LEMMA TokensAreOfRows ==
  ASSUME LifecycleConstants, TokenInv, NEW a \in Agents
  PROVE  /\ Accepted(a) => cred[a].server \in Servers
         /\ Given(a) \subseteq Servers \X Nat
         /\ pairing[a].pc # "idle" => pairing[a].server \in Servers
         /\ pairing[a].token # 0 => <<pairing[a].server, pairing[a].token>> \in Servers \X Nat
<1>1. /\ cred[a].token \in Nat /\ pairing[a].token \in Nat
      /\ cred[a].server \in Servers \cup {NoServer}
      /\ pairing[a].pc \in {"idle", "found"} \/ pairing[a].pc # "idle"
  BY DEF TokenInv, TokenTypes, CredRec, PairRec
<1>2. cred[a].token # 0 => cred[a].server \in Servers
  BY <1>1 DEF TokenInv, AgentOK
<1>3. pairing[a].token # 0 => pairing[a].server \in Servers
  BY <1>1 DEF TokenInv, AgentOK
<1>4. pairing[a].pc # "idle" => pairing[a].server \in Servers
  BY DEF TokenInv, AgentOK
<1> QED
  BY <1>1, <1>2, <1>3, <1>4 DEF Accepted, Given

LEMMA SweepTypesStep ==
  ASSUME LifecycleConstants, TokenInv, ForgetInv, SweepTypes, LifecycleNext
  PROVE  SweepTypes'
<1> USE DEF SweepTypes
<1>1. ASSUME NEW s \in Servers,
             \/ Register(s) \/ NewPairingCode(s) \/ DeleteServer(s) \/ CodeAges(s) \/ SeenAges(s)
             \/ ForgetBegin(s)
      PROVE  SweepTypes'
  <2>1. seen' \subseteq seen /\ UNCHANGED <<beat, offline, retention, shut, dropped, mishaps>>
    BY <1>1 DEF Register, NewPairingCode, DeleteServer, CodeAges, SeenAges, ForgetBegin
  <2> QED
    BY <2>1
<1>2. ASSUME NEW s \in Servers, RetentionDelete(s)
      PROVE  SweepTypes'
  <2>1. retention' \in RetentionRec
    BY <1>2, NothingUnderWay DEF RetentionDelete, RetentionRec
  <2> QED
    BY <1>2, <2>1 DEF RetentionDelete
<1>3. ASSUME NEW a \in Agents,
             \/ \E s \in Servers, n \in 1 .. MaxCodes : PairLookup(a, s, n)
             \/ PairClaim(a) \/ PairFindPrevious(a)
             \/ \E ok \in BOOLEAN : RunForgetScript(a, ok)
             \/ AckRefused(a) \/ Unpair(a) \/ Poll(a) \/ WipeCredential(a)
             \/ \E k \in Orders : FetchForget(a, k)
             \/ AckForget(a)
      PROVE  SweepTypes'
  <2>1. seen' \subseteq seen \cup {cred[a].server}
    BY <1>3 DEF PairLookup, PairClaim, PairFindPrevious, RunForgetScript, AckRefused, Unpair, Poll,
                WipeCredential, FetchForget, AckForget
  <2>2. seen' = seen \/ Accepted(a)
    BY <1>3 DEF PairLookup, PairClaim, PairFindPrevious, RunForgetScript, AckRefused, Unpair, Poll,
                WipeCredential, FetchForget, AckForget
  <2>3. shut' \subseteq shut \cup {wiping[a].order} /\ (shut' = shut \/ wiping[a].pc # "idle")
    BY <1>3 DEF PairLookup, PairClaim, PairFindPrevious, RunForgetScript, AckRefused, Unpair, Poll,
                WipeCredential, FetchForget, AckForget
  <2>4. dropped' \subseteq dropped \cup Given(a)
    BY <1>3 DEF PairLookup, PairClaim, PairFindPrevious, RunForgetScript, AckRefused, Unpair, Poll,
                WipeCredential, FetchForget, AckForget
  <2>5. UNCHANGED <<beat, offline, retention, mishaps>>
    BY <1>3 DEF PairLookup, PairClaim, PairFindPrevious, RunForgetScript, AckRefused, Unpair, Poll,
                WipeCredential, FetchForget, AckForget
  <2>6. wiping[a].pc # "idle" => wiping[a].order \in Orders
    BY DEF ForgetInv
  <2>7. seen' \subseteq Servers /\ shut' \subseteq Orders /\ dropped' \subseteq Servers \X Nat
    BY <2>1, <2>2, <2>3, <2>4, <2>6, TokensAreOfRows
  <2> QED
    BY <2>5, <2>7
<1>4. ASSUME NEW a \in Agents, PairRelease(a) \/ PairSaved(a) \/ PairLost(a) \/ WipeLost(a)
      PROVE  SweepTypes'
  <2> DEFINE t == <<pairing[a].server, pairing[a].token>>
  <2>1. UNCHANGED <<beat, offline, retention, shut>>
    BY <1>4 DEF PairRelease, PairSaved, PairLost, WipeLost
  <2>2. seen' \subseteq seen \cup {pairing[a].server}
        /\ (seen' \subseteq seen \/ pairing[a].pc # "idle")
    BY <1>4 DEF PairRelease, PairSaved, PairLost, WipeLost
  <2>3. mishaps' \in {mishaps, mishaps + 1}
    BY <1>4 DEF PairRelease, PairSaved, PairLost, WipeLost
  <2>4. dropped' \subseteq dropped \cup Given(a) \cup {t}
    BY <1>4 DEF PairRelease, PairSaved, PairLost, WipeLost
  <2>5. ~ WipeLost(a) => pairing[a].pc \in {"release", "done"}
    <3>1. /\ PairRelease(a) => pairing[a].pc = "release"
          /\ PairSaved(a) \/ PairLost(a) => pairing[a].pc = "done"
      BY DEF PairRelease, PairSaved, PairLost
    <3> QED
      BY <1>4, <3>1
  <2>6. pairing[a].pc \in {"release", "done"} => t \in Servers \X Nat
    <3>1. pairing[a].pc \in {"release", "done"} => pairing[a].token # 0
      BY DEF TokenInv, AgentOK, Issued
    <3> QED
      BY <3>1, TokensAreOfRows
  <2>7. dropped' \subseteq Servers \X Nat
    <3>1. CASE WipeLost(a)
      BY <3>1 DEF WipeLost
    <3>2. CASE pairing[a].pc \in {"release", "done"}
      <4> HIDE DEF t
      <4> QED
        BY <3>2, <2>4, <2>6, TokensAreOfRows
    <3> QED
      BY <2>5, <3>1, <3>2
  <2>8. mishaps' \in Nat
    BY <2>3
  <2>9. seen' \subseteq Servers
    <3>1. CASE seen' \subseteq seen
      BY <3>1
    <3>2. CASE pairing[a].pc # "idle"
      BY <2>2, <3>2, TokensAreOfRows
    <3> QED
      BY <2>2, <3>1, <3>2
  <2> QED
    BY <2>1, <2>7, <2>8, <2>9
<1>5. ASSUME NEW a \in Agents, BeatBegin(a) \/ BeatWrite(a)
      PROVE  SweepTypes'
  <2>1. UNCHANGED <<offline, retention, shut, dropped, mishaps>>
    BY <1>5 DEF BeatBegin, BeatWrite
  <2>2. CASE BeatBegin(a)
    <3> DEFINE b == [pc |-> "authed", server |-> cred[a].server]
    <3>1. cred[a].server \in Servers
      BY <2>2, TokensAreOfRows DEF BeatBegin
    <3>2. b \in BeatRec /\ b.server \in Servers
      BY <3>1 DEF BeatRec
    <3>3. beat' = [beat EXCEPT ![a] = b] /\ seen' = seen
      BY <2>2 DEF BeatBegin
    <3> HIDE DEF b
    <3> QED
      BY <2>1, <3>2, <3>3
  <2>3. CASE BeatWrite(a)
    <3>1. beat' = [beat EXCEPT ![a] = NoBeat]
      BY <2>3 DEF BeatWrite
    <3>2. seen' \subseteq Servers
      BY <2>3 DEF BeatWrite
    <3> QED
      BY <2>1, <3>1, <3>2, NothingUnderWay
  <2> QED
    BY <1>5, <2>2, <2>3
<1>6. ASSUME SweepSteps
      PROVE  SweepTypes'
  <2>1. UNCHANGED <<beat, retention, shut, dropped, mishaps>> /\ seen' \subseteq seen
    BY <1>6 DEF SweepSteps, SweepRead, SweepCheck, SweepWrite, SweepEnd
  <2>2. offline' \in OfflineRec /\ (offline'.pc = "write" => offline'.server \in Servers)
    <3>1. CASE SweepRead
      BY <3>1 DEF SweepRead, OfflineRec, NoSweep
    <3>2. ASSUME NEW s \in Servers, SweepCheck(s)
          PROVE  offline' \in OfflineRec /\ (offline'.pc = "write" => offline'.server \in Servers)
      BY <3>2 DEF SweepCheck, OfflineRec
    <3>3. CASE SweepWrite \/ SweepEnd
      <4>1. offline' \in {NoSweep, [offline EXCEPT !.pc = "loop", !.server = NoServer]}
        BY <3>3 DEF SweepWrite, SweepEnd
      <4> QED
        BY <4>1, NothingUnderWay DEF OfflineRec
    <3> QED
      BY <1>6, <3>1, <3>2, <3>3 DEF SweepSteps
  <2> QED
    BY <2>1, <2>2
<1>7. CASE RetentionRead
  <2>1. retention' \in RetentionRec
    BY <1>7 DEF RetentionRead, RetentionRec, NoSweep
  <2> QED
    BY <1>7, <2>1 DEF RetentionRead
<1>8. CASE ForgetSteps
  <2>1. seen' \subseteq seen /\ UNCHANGED <<beat, offline, retention, shut, dropped, mishaps>>
    BY <1>8 DEF ForgetSteps, ForgetOverdue, ForgetTimeout, ForgetAnswered, ForgetDelete
  <2> QED
    BY <2>1
<1>9. CASE LifecycleRestart
  <2>1. dropped' \subseteq Servers \X Nat
    BY <1>9, TokensAreOfRows DEF LifecycleRestart
  <2> QED
    BY <1>9, <2>1, NothingUnderWay DEF LifecycleRestart
<1> QED
  BY <1>1, <1>2, <1>3, <1>4, <1>5, <1>6, <1>7, <1>8, <1>9 DEF LifecycleNext, PairSteps, WipeSteps

\* Every request, sweep and machine keeps its types.
THEOREM LifecycleTypes == LifecycleSpec => []LifecycleTypeOK
<1>1. LifecycleInit => SweepTypes
  BY NothingUnderWay DEF LifecycleInit, SweepTypes
<1>2. TokenInv /\ ForgetInv /\ SweepTypes /\ [LifecycleNext]_lifecycleVars => SweepTypes'
  <2>1. SweepTypes /\ UNCHANGED lifecycleVars => SweepTypes'
    BY DEF SweepTypes, lifecycleVars
  <2> QED
    BY <2>1, LifecycleConstants, SweepTypesStep
<1>3. TokenInv /\ CodesOK /\ ForgetInv /\ SweepTypes => LifecycleTypeOK
  BY DEF TokenInv, TokenTypes, CodesOK, ForgetInv, SweepTypes, LifecycleTypeOK, RowRec, CredRec,
         PairRec, BeatRec, OfflineRec, RetentionRec, ForgetRec, WipeRec, OrderRec
<1> QED
  BY <1>1, <1>2, <1>3, TokenInductive, ForgetInductive, PTL DEF LifecycleSpec
=============================================================================
