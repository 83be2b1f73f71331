# ZONEMAESTRO: a verification development

ZONEMAESTRO is a cloud portal that controls music players in restaurants and shops. Three
programs take part:

* the **portal backend** (`src/backend`, Fastify + Prisma): REST routes, a database, two sweeps,
  the prayer scheduler and an in-memory registry of agents;
* the **agent bridge** (`src/agent-bridge`, Node): runs on the venue's Windows PC, only ever calls
  out to the backend, and drives the local player through its local HTTP API;
* the **portal** (`src/src`, Next.js): what users see; in demo mode the browser is the whole system.

The local player itself (a compiled Windows service) is not in the repository.

This directory holds TLA+ models of these programs, the TLC configurations that check them on small
instances, and TLAPS proofs of what matters most for every instance.

## 1. Inventory

For each part: the state it keeps, its operations, whom it talks to, what is hard, and what makes it
correct. Section 2 says which module models what.

### 1.1 Remote-command dispatch (`backend/src/routes/commands.ts`, `lib/zone-effects.ts`, `lib/agent-registry.ts`)
*State*: the `RemoteCommand` rows (status PENDING, SENT, SUCCESS, FAILED, TIMEOUT), each zone's
`commandSequence`, `lastAppliedSequence` and playback state; in memory `lastSeen` and `ackWaiters`.
*Operations*: `POST /commands` refuses when the agent is not connected; otherwise it takes a sequence
number, inserts a SENT row, pushes, waits for an ack for at most 3 s, and either records TIMEOUT or
re-reads the row and applies an optimistic effect to the zone. Server-level commands are inserted
PENDING and answered at once.
*Interaction*: the agent endpoints write the same rows and resolve the waiter; the prayer scheduler
and heartbeats write the same zones.
*Hard*: every `await` lets another request, ack, timer or heartbeat in between a read and the write
based on it; acks are late, duplicated or lost; a restart forgets all waiters.
*Correct when*: a success is shown only of what was carried out; a refused command is never
delivered; an answered request leaves a closed row; sequence numbers are never shared; the zone shown
converges to the zone that plays.

### 1.2 Agent command loop (`agent-bridge/lib/agent.js`, `local-api.js`, `cmmp.js`)
*State*: in memory only, the batch being executed; nothing records what was executed.
*Operations*: a poll (1.5 s timer, or a push) fetches open rows, executes them one by one against the
local API, reads the zone's state back and acks; an error acks FAILED; an ack that throws is retried
as FAILED. A heartbeat reports the zones' playback states.
*Hard*: polls overlap, since `setInterval` does not wait; execute-then-ack is not atomic.
*Correct when*: rows are executed in order of issue, and without overlap or crash at most once.

### 1.3 Agent endpoints (`backend/src/routes/agent.ts`)
*State*: the rows above, `MusicServer` (status, token hash, pairing code), `TrackSyncState`.
*Operations*: `pairing/complete`, `server/token`, `heartbeat`, `commands/pending`, `commands/ack`,
`tracks/sync`, `zones/sync`, `zone-playlists/sync`, `schedules`.
*Hard*: check-then-act over two statements in the pairing code, the ack handler, the poll's marking
and the track queue.

### 1.4 Prayer scheduler (`backend/src/lib/prayer-scheduler.ts`)
*State*: the in-memory set `fired` of `org:date:prayer:start|end` keys; per zone `pausedByPrayer`;
`PrayerConfig`.
*Operations*: a 30 s tick evaluates each enabled configuration at the venue's clock; inside a window
it fires the start once (mark and PAUSE each playing zone), past it it fires the end (unmark, PLAY);
keys of other dates are pruned.
*Hard*: overlapping ticks, a failing statement between two zones or between mark and command,
restarts, a window that crosses midnight, one prayer disabled, the location cleared or Prayer Mode switched off inside
a window, managers acting meanwhile. *Correct when*: what a prayer paused is resumed, and only that.

### 1.5 Server lifecycle and pairing (`routes/servers.ts`, `lib/agent-sweep.ts`, `lib/pairing.ts`, `lib/agent-auth.ts`)
*State*: the `MusicServer` row: status, pairing code hash and expiry, agent token hash; the agent's
own token and server id. *Operations*: register, regenerate a code, pair, re-pair elsewhere (which
releases the former row), heartbeat, forget (queue FORGET_SERVER, wait for its ack, delete), delete,
the offline sweep and the retention sweep.
*Hard*: a code claimed twice, a sweep acting on stale reads, the forget ack racing its timeout.
*Correct when*: the token a row accepts is one that somebody has; a server is reported as reached and
shut down only if it was; a beating machine is shown online and a silent one offline.

### 1.6 Track distribution (`routes/sync.ts`, `routes/music.ts`, `lib/zone-effects.ts`, agent `syncTracksOnce`)
*State*: `TrackSyncState` (QUEUED_FOR_SYNC, SYNCING, CACHED_ON_SERVER), the agent's `cachedTrackIds`
and `trackIdMap`. *Operations*: queue, retry, queue-a-playlist (skips SYNCING and CACHED), the agent's
report and download. *Hard*: the read and the `updateMany` of the queue are two statements; a failed
download leaves SYNCING; state is saved once, at the end. *Correct when*: CACHED is only said of a
track that is on disk, and a track that was fetched is shown.

### 1.7 Zone reconciliation (`routes/zones.ts`, `zones/sync` in `routes/agent.ts`, agent `SYNC_CONFIG`)
*State*: `Zone` rows and their `localZoneId`; the local zones. *Hard*: a deleted zone is re-created
by a report read before the deletion reached the venue. *Correct when*: both sides end up with the
same zones, and a deletion is final.

### 1.8 Playlists, schedules, queue (`routes/playlists.ts`, `routes/schedules.ts`, agent `syncZonePlaylistsOnce`, `applyZoneTrackList`)
*State*: playlist rows with positions, assignments, schedule slots, exclusions; the local queue.
*Hard*: positions computed from a snapshot; overlapping runs that read different assignments; a PATCH that writes
whatever its body names, a slot's zone included.
*Correct when*: the queue of a zone ends up as what it is assigned, and what is scheduled can be chosen.

### 1.9 Equalizer writer (`agent-bridge/lib/eq-apo.js`, `local-api.js`)
*State*: one file per zone and `config.txt`, a promise-chain lock per directory. *Hard*: the external
reader holding a file; what was read before the lock was taken; a crash between two files.
*Correct when*: `config.txt` includes exactly the zones' files, and an acknowledged curve stays.

### 1.10 Agent hub (`agent-bridge/lib/hub.js`, `backend/src/agent/signalrHub.ts`) and `start`/`stop`
*State*: socket, reconnect timer, the sets of intervals. *Hard*: a `close` after `disconnect()`, a
`stop()` during `start()`. *Correct when*: a running agent polls, connections do not multiply, and the
hub is reached again.

### 1.11 Authentication (`routes/auth.ts`, `lib/jwt.ts`, portal `lib/api/client.ts`)
*State*: refresh-token rows, the browser's session. *Hard*: several calls refresh one token; replies
are lost between the rotation's statements. *Correct when*: a user is signed out for a reason only.

### 1.12 Prayer times (`lib/prayer-times.ts`, `timezone-math.ts`, `prayer-location.ts`, `routes/prayer.ts`)
*State*: an in-memory cache of a day's times per point; the venue's place from what its PCs report,
its row and the saved configuration. *Hard*: the shared cache, clocks that change, PCs that disagree.
*Correct when*: times are those of the place, date and clock asked for.

### 1.13 Browser demo (`src/src/lib/prayer/*`, mock branches of `src/src/lib/api`, `src/src/lib/mock`)
*State*: timers, `localStorage`, tables in memory. *Hard*: timers of a hidden tab, two `recalculate()`
at once, a reload inside a pause. *Correct when*: what a prayer paused plays again.

### 1.14 Administration routes and database (`backend/src/routes/*`, `backend/prisma`)
*State*: rows of users, organizations, locations, servers, zones, playlists, schedules, tracks, folders,
under the foreign keys of the migrations. *Hard*: requests of several statements without a transaction,
overlapping or cut off; rows that go with others. *Correct when*: every row names one tenant, lists keep
an order, a slot's playlist can be chosen.

### 1.15 The portal's interface (`src/src/hooks`, `lib/api`, `app`, `components`)
*State*: a cache of answers; the role in the session, beside that in the token and in the row.
*Hard*: edits that mark only some cached queries as stale, late or lost answers; permissions written
once in the backend, once in the portal, and once more in the conditions of each page.
*Correct when*: a user sees their own edits, and is offered what they may do.

## 2. Modules and their correspondence to the code

| module | what it models | extends / uses |
| --- | --- | --- |
| `RemoteCommands` | one venue: portal requests, prayer commands, rows, ack rendezvous, poll runs, heartbeats, faults (1.1, 1.2) | `CommandPromise` through INSTANCE |
| `CommandPromise` | what the path promises to whoever presses a button: the abstract specification | |
| `PrayerScheduler` | the tick runs of one organization over several days (1.4) | |
| `ServerLifecycle` | registration, pairing, heartbeats, sweeps, forget and delete (1.5) | `PairingPromise` through INSTANCE |
| `PairingPromise` | what pairing promises about tokens: the abstract specification | |
| `TrackSync` | one venue's tracks: cloud states, runs of `syncTracksOnce`, files and state file (1.6) | |
| `ZoneReports` | zone rows, local zones, reports and SYNC_CONFIG (1.7) | |
| `VenueQueue` | assignment, exclusions, slots and the machine's queue (1.8) | |
| `Equalizer` | SET_EQ on the machine (1.9) | |
| `AgentLink` | `start`, `stop` and the hub's sockets (1.10) | |
| `Sessions` | tokens, refreshes and sign-out (1.11) | |
| `PrayerTimes` | place, time zone, cache, conversion (1.12) | |
| `DemoPrayer` | the scheduler of the demo (1.13) | |
| `Schema`, `Migrations` | the tables as `schema.prisma` writes them, and their foreign keys as the migrations make them (1.14) | |
| `PortalRows` | the administration routes, statement by statement (1.14) | `Migrations` |
| `PortalRoutes` | what each route reads and writes, by table | `Schema` |
| `PortalApi` | what each hook's query or edit reads, writes and marks as stale, with the backend and in the demo (1.15) | `PortalRoutes` |
| `PortalCache` | the cache of one query under edits, polls, events, faults (1.15) | the tables of `PortalApi` as constants |
| `PortalPages` | what every page asks for and offers, to whom, and what the routes demand (1.15) | |
| `MCRemoteCommands`, `MCPrayerScheduler`, `MCVenue` | model values and instances for TLC | |
| `RemoteCommandsProofs`, `PrayerSchedulerProofs`, `PrayerTimesProofs`, `PortalRowsProofs` | theorems about the module of that name (section 5) | the module, `TLAPS` |
| `PortalListsProofs` | theorems about the lists of `PortalRows` | `PortalRowsProofs` |
| `AgentProofs` | theorems about `AgentLink`, `TrackSync`, `Equalizer` and `ServerLifecycle` | these, `TLAPS` |
| `PortalProofs` | theorems about `Sessions`, `PortalCache` and `PortalPages` | these, `TLAPS` |
| `VenueProofs` | theorems about `MCVenue`: its parts, their types, and all that `venue_safety` checks | `MCVenue`, `AgentProofs`, `PortalProofs`, `PrayerTimesProofs`, `PortalListsProofs` |

The convention is the same everywhere: **one database statement is one atomic step, and every
`await` is a step boundary** at which anything else may run. Node runs the code between two awaits
alone, so that code is part of the step that follows or precedes it. Operators whose comment says
*planted defect* stand next to the definition they spoil and are used by no action: they are the
mutants listed in `PROJECT.json`, each a plausible bug that the property of its row must catch.

### 2.1 RemoteCommands

| state | code |
| --- | --- |
| `pc[c]` | how far `POST /commands` (or the prayer scheduler's loop body) has come for command `c`: `bumped` after the sequence, `created` after the row, `waiting` in `waitForAck`, `acked`/`expired` when the promise settles, `check`, `effect`, `apply` in the fallback effect |
| `cmd`, `status`, `born` | the `RemoteCommand` row: immutable columns, status, rank of `issuedAt` |
| `zone[z]` | `commandSequence`, `lastAppliedSequence`, `playbackState`, `pausedByPrayer` |
| `connected` | `isAgentConnected` (`lastSeen` within the staleness window) |
| `poll[p]` | one run of `pollCommandsOnce`: the batch, the command executed, what is to be acked |
| `ack[p][r]` | `POST /server/commands/ack` for the result `r` of run `p` inside the backend |
| `local`, `performed` | the venue PC: zones' real state, commands carried out (external) |
| `doubtful` | history: the commands that the code may come to carry out twice (below) |
| `beat` | rows of a `zones/sync` report still to be stored |

Actions follow the statements: `Refuse`, `BumpSequence`, `CreateRow`, `ArmWaiter`, `AckTimeout`,
`RecordTimeout`, `ReadOutcome`, `CheckApplied`, `ReadZone`, `ApplyEffect` (request); `PrayerDue` ..
`PrayerCreate` (scheduler); `PollList`, `PollMark`, `RunSucceeds`, `RunFails`, `ReadBack`, `AckRead`
(agent and poll handler); `AckWrite`, `AckZone`, `AckResolve` (ack handler); `Heartbeat`, `SyncZone`,
`GoStale`; and the faults `AckLost`, `AckAbort`, `PollLost`, `AgentCrash`, `BackendCrash`. A push is
modelled as what it causes, a poll run that starts early, which is why several runs may overlap. An
error in the ack of a SUCCESS is answered by an ack of FAILED for the same command (`AckThrows`), as
`executeCommand`'s `catch` does.

Nothing records on the machine what was carried out, so the code can run a command twice in three ways, and
`PerformedOnce` says that it has no others. `doubtful` collects them where they happen: a poll run lists a row that
another run holds (`AlsoHeld`; `setInterval` and a push overlap runs in ordinary operation); the agent gives up reporting
a command it carried out while the row is open (a lost ack that is not retried, a crash, a poll cut off); the mark of a
poll writes SENT over a row closed since. The property itself assumes nothing about runs or faults.

Abstractions: one venue; PLAY, PAUSE and STOP stand for the commands with a final effect, NEXT for
those that are not idempotent, SYNC_MUSIC for the server-level ones; volume, mute, EQ and tracks are
not distinguished; EXECUTING and TIMEOUT, which the ack route accepts and `agent.js` never sends, are left out; the
3 s of `waitForAck` and the staleness window (45 s by default) may pass at any
moment, which includes every real timing.

### 2.2 PrayerScheduler

| state | code |
| --- | --- |
| `day`, `tod` | the venue's date (modulo `Days`) and time of day in units |
| `settings` | the `PrayerConfig` row (Prayer Mode, location, the prayers that are not disabled, times) and the zones whose `prayerModeEnabled` is set |
| `fired` | the `fired` set: date, prayer, edge |
| `mark[z]`, `state[z]` | `pausedByPrayer`, `playbackState` |
| `queue[z]` | commands issued for `z` on their way to the venue |
| `run[r]` | a tick in progress: the configuration and the clock it read, the prayer it is at, the zones still to do |
| `ticked` | ghost: whether a tick has begun since the time or the settings changed |
| `outdated` | ghost: the zones marked under settings that have changed since |

`TickBegin` reads the configuration and the clock once, `Skip`, `EnterWindow` and `LeaveWindow` are
the branches of the loop over the prayers, `Count` is `firePrayerEndIfZonesStillPaused`, `List`,
`MarkZone` and `Issue` are the statements of `firePrayerStart`/`firePrayerEnd`, `LoopEnds` records an
end, `TickEnds` prunes. The start is recorded *before* it is awaited and the end *after*; the model
keeps this order, and the two defects planted against it show that both matter. `TickFails` is any
statement that throws, `TimingsMissing` a provider without an answer, `Restart` the loss of `fired`, a
missed unit of time a process that was down. Abstractions: one organization; a zone carries out its
commands in the order of issue, each once or not at all (what may happen on the way is the subject of
`RemoteCommands`); the pre-prayer snapshot is not kept, because `firePrayerStart` lists only playing
zones, so a marked zone is always resumed.

### 2.3 The venue: ServerLifecycle, TrackSync, ZoneReports, VenueQueue, Equalizer, AgentLink

* `ServerLifecycle`: `row` is the `MusicServer` row, `cred` the machine's state file, `pairing`, `beat`
  and `wiping` the requests of a machine at their statements (`PairLookup`, `PairClaim`, the release of
  the sibling row, the reply), `forget` and `order` the "Forget Server" request and its command,
  `offline` and `retention` the two sweeps with the rows they read. The n-th code and the n-th token of
  a server are numbers, so equality of hashes is equality of numbers. A code or a `lastSeen` ages when
  it may (`CodeAges`, `SeenAges`). Faults: a lost reply (`PairLost`, `WipeLost`), a restart of the backend.
  `Tokens(a)` is what a machine has or is being sent; the tokens, the column of the row and the number of
  tokens issued are all that `PairingPromise` sees (`Pairing`).
* `TrackSync`: `syncState` is the server's column of `TrackSyncState`; a run reports what it has, gets
  QUEUED rows set to SYNCING and a list to fetch, downloads one by one, and saves once. `library` is
  memory, `saved` the file, `scanned` what the local player knows. The report is stored one track, one upsert, at a
  time (`StoreReport`). Disturbances: a failed download, a scan that fails after the file was written
  (`ScanFails`: the file is there and the track is not known), a missing folder, a lost reply, a restart, a file deleted by hand.
* `ZoneReports`: a row is the number of the creation it stems from, so a zone that is deleted and
  created anew is told apart. Reports overlap; `RunSyncConfig` reads, deletes locally, and reports
  again; if its ack is lost the command is delivered and carried out once more.
* `VenueQueue`: a run of `syncZonePlaylistsOnce` fetches the assignment, then the slots, decides by the
  machine's clock, adds what is missing, drops what is stale entry by entry (`DropStale`, from the queue as it was
  read), and skips on if the loaded track went. A
  playlist is a set here; positions are in `PortalRows`.
* `Equalizer`: `ReadZones` happens before the lock; under it, the zone's file, `config.txt`, pruning and
  `config.txt` again are written, each by a rename that may fail and be given up.
* `AgentLink`: `Pair` and `Forgotten` are the control panel and a wipe calling `start()` and `stop()`,
  `StartGoesOn` the rest of `start()` after its first heartbeat. Pushes only wake a poll.

### 2.4 People: Sessions, PrayerTimes, DemoPrayer

* `Sessions`: a call reads the session, may be refused, refreshes (verify, delete, create in the backend,
  three statements), stores and retries once, or signs out. Tokens are JWTs of a user and a second, so
  two signed in one second are equal, as in the code.
* `PrayerTimes`: time is in hours; `Offset` and `Clock` are given per zone and may change; the two-pass
  correction of `zonedTimeToUtc` is modelled as it is written. `cache` is ordered by insertion and
  bounded by `MAX_ENTRIES`, as the `Map` is.
* `DemoPrayer`: code runs to completion between timers, so one step is what runs until an `await` or the
  end of a callback. `strays` are timers that were replaced and not cleared.

### 2.5 The portal: Schema to PortalPages

* `Schema` gives each table its references from `schema.prisma`; `Migrations` gives the foreign keys with
  their ON DELETE rule, from the SQL. `Deleted` cascades along them, so deleting an organization is one
  statement that takes what the database takes.
* `PortalRows`: a request decides on what it reads when it begins and leaves a list of statements in
  `job[j]`; the database runs them one at a time, between those of the other request. A violated foreign
  key ends a request, a restart ends all. `EditSchedule` writes what the body names, the slot's zone, its playlist or
  both, and the assignment that follows is for the zone the update returned, if the body names a playlist (`Ensure`).
* `PortalRoutes` and `PortalApi` say what the calls read and write by table and kind of change (created,
  written, emptied, removed). An edit *affects* a query when it writes something the query reads.
  `PortalCache` takes one query at a time, with every edit that affects it or that marks it as stale; it gets
  queries, edits and events as constants, which the cfg sets to the tables of `PortalApi`.
* `PortalPages`: `Contents` lists each page's uses of hooks with the roles that reach them (RoleGate or
  `can()`) and the queries that must have been answered first; `Demands` lists what the routes check.
  `userRole`, `tokenRole` and `shownRole` are the role in the row, in the access token and in the session:
  a change of role reaches the token with its next renewal and the session when it is fetched again.

`MCVenue` puts all modules of 2.3 to 2.5 into one instance. Its variable `focus` chooses a **part**, and
only that part moves; the state space is the disjoint sum of the parts. These components meet in rows
that the modules already share through their inputs (a machine's zones, a zone's playlist), so moving two
at once adds product states and no new case; where they do meet in an interleaving
(commands, heartbeats and scheduler) `RemoteCommands` models them together. A part may be a component
with narrower bounds: `servers` is the whole lifecycle of one machine with two servers, without faults, `pairings` the same without "Forget Server", `forgets`
one server with faults and a second pairing code (`NewPairingCode`), `claims` two machines that pair with two servers and do nothing else;
`tracks` has overlapping runs with two requests, or one and a fault; `zones` is one report at a time, `reports` overlapping ones about one zone; `queue`
is one run with slots and faults, `runs` two runs without; `place` and `times` are the two halves of
`PrayerTimes`; `tenants` and `lists` of `PortalRows`.

## 3. Runs

Each passing run asks one question; its bounds are the smallest at which the question has all its cases.
`commands_path`, `commands_settle` and `prayer_day` explore the steps that an action constraint (`Explored`, `Settled`)
admits: two bounds in one run. In the fair runs it cuts only what is left to users, settings and faults, or a second tick run, none of
which has to happen, so that what is left is no less fair.

| run | instance | shows |
| --- | --- | --- |
| `commands_path` | 2 commands, 1 zone; either 2 overlapping poll runs, two commands of different kinds, an agent that stays in contact and read-backs that succeed, or 1 poll run, every fault kind, 2 faults, scheduled and server-level commands as well, two commands that differ in kind or in who issued them | `IInv`, `SuccessWasPerformed`, `RefusedNeverDelivered`, `AppliedWasPerformed`, `AnsweredIsClosed`, `SequencesDistinct`, `PerformedOnce`, and the refinement `PromiseKept`, although two runs of the agent hold the same rows and each acks twice, and whatever fails |
| `commands_settle` | 2 commands, 1 poll run, fair; either PAUSE with heartbeats, zone reports and a contact that comes and goes, or NEXT and SYNC_MUSIC with one lost ack or poll | every row is closed for good (`AllSettle`), every request is answered (`RequestsAnswered`), and the portal ends up showing what plays (`CloudConverges`) |
| `prayer_day` | 2 tick runs that overlap, 1 zone, 2 prayers whose pauses overlap, a manager, 1 disturbance; or 1 tick run, 2 zones, 1 prayer that is moved while they opt out, 2 disturbances; 4 units a day, fair; settings change in both | `StartExclusive`, `HeldOnlyInWindow`, `HeldIsReleased` |
| `venue_safety` | all parts, 739,000 states | the safety properties of 2.3 to 2.5, below |
| `venue_liveness` | the parts with liveness, fair, without faults of the tracks | what must come about, below |
| `commands_closed_final`, `commands_regress`, `commands_override`, `prayer_midnight`, `prayer_failed_start`, `prayer_disabled`, `slot_moved` | small | the findings of section 6 |

`venue_safety` checks, beside the types: a server reported as reached and shut down was
(`ReachedMeansShut`); the token a row accepts is one a machine has, is being given, or gave up
(`NoOrphanToken`), and however many claim a code, each token goes to one machine and the row accepts none but
the last (`PairingKept`, the refinement of `PairingPromise`); a track shown as cached is on disk (`CachedIsOnDisk`); a running agent polls
(`RunningPolls`); sockets and timers do not outnumber the calls of `start()` (`SocketsPerStart`);
`config.txt` matches the files (`ConfigMatchesFiles`) and acknowledged curves stay (`AppliedStays`);
times are those asked for (`TimesAreRight`), prayers are fired at the sun's time (`ScheduledOnTime`) on
the clock of the venue's own PCs (`VenueClockWins`); users, servers and zones name one tenant
(`TenantsAgree`); lists keep distinct places and slots a playlist that can be chosen (`ListsAgree`); a
user sees their own edits (`OwnEditsShow`); pages ask and offer what the backend permits
(`OfferedIsPermitted`); nobody is signed out without a reason (`SignedOutForAReason`).

`venue_liveness` checks: `SilentIsOffline`, `BeatingIsOnline`, `FetchedIsShown`, `ZonesConverge`,
`DeletedStaysDeleted`, `QueueFollows`, `HubReturns`, `EqualizerSettles`, `PlaysAgain`.

Why the bounds suffice. Two commands of one zone are the least with an order to get wrong; two runs
of a loop the least that overlap, and a third would hold the same rows as the second; every fault
kind may be followed by every other with `MaxFaults = 2`. Two overlapping prayers exercise a mark that
is taken over and a second end on the same tick; `Days = 2` distinguishes a date from the next, which
is all that pruning and keys ask; units of time before, inside and after each window make every
comparison of the tick go both ways. The settings of `prayer_day` (`Usual`) disable either prayer, clear the location,
switch Prayer Mode off, move a prayer, and take the zones out of it. `MaxQueue = 1` lets at most one manager's command wait behind the
scheduler's; `MaxLag = 0` says a tick ends before the time changes by one unit (a unit stands for
minutes, a tick for milliseconds).

In `MCVenue`: two servers, because re-pairing releases another row, and one machine, because what a
machine keeps concerns no other, but for two that claim one code, which is the part `claims` (both are parameters of
the theorems); one fault of each part, of any
kind; one "Forget Server", which meets a fault with the first server alone; two codes of a server where it is alone with its
machine, one elsewhere; two tracks and three copies of a file, one more than are ever made of one;
two zones on the machine, two edits; two songs in two playlists and one slot with a beginning and an
end in a day of two units; three sockets, so that two of them may close late; two equalizer zones on two
devices and two commands; two calls of two tabs, and tokens of 1 and 3 seconds, so that an access token
outlives a step and a refresh token outlives two; zones of different offsets of which one changes its
clock, three questions for a cache of two entries, so that one is evicted; two recalculations. The seed of
`PortalRows` is two organizations with a venue each, a server with two zones, so that a slot has a zone to move to, a track
in a folder, a playlist of the organization, which has a slot, and one of everyone; two requests at once, at most two in all, and one restart; the callers are one of each
role. `PortalCache` takes each query of the portal with one edit, and, with the backend and where the
query is not polled, a fault beside it; two edits of four queries which between them are refreshed, replaced
and left behind (the pairs of the other queries are of the same kinds). `PortalPages` has no bound: its states are finite.

Deadlock is checked except in the two venue runs, where a part stops when its bounds are used up. Symmetry permutes commands and poll
runs, zones and tick runs, only in runs without liveness.

## 4. Fairness

`RemoteCommands!Fairness`: weak fairness of the backend's event loop (requests, handlers, the scheduler's loop), of
each poll run (the agent's timers are set in `start()` and fire for as long as it is paired) and of
heartbeats. A timer step and a handler step are each one action that stays enabled until it is taken, so
weak fairness is enough. Users, staleness and faults are not fair: nobody has to press a button and
nothing has to fail.

`PrayerScheduler!Fairness`: weak fairness of the timer (that some run begins), of each run's steps and of deliveries, and
**strong** fairness of `Advance`. Time passing is a fact of the world, but the bounds `MaxLag` and `MaxQueue` disable the clock
while a run or a command is under way; with weak fairness a model could begin runs forever at one
moment. Runs may overlap, but again and again there is a moment without any: a run lasts far less than the half minute
between two, and without this runs could overlap for ever and the clock never move. Managers, settings and disturbances are not fair, and the last two are bounded.

`VenueFairness`, asked of a part only while it moves:

* `ServerLifecycle`: requests and sweeps go on (weak), time passes (`SeenAges`, weak), and a paired machine
  sends heartbeats: strong for the beginning of a heartbeat and of a sweep, since both are disabled while an earlier
  one is in progress and enabled again by its end, and an interval fires each time.
* `TrackSync`, `VenueQueue`, `ZoneReports`: the timer starts some run, and each run goes on (weak). A SYNC_CONFIG that is waiting is
  polled for again and again: strong, as a run disables it.
* `AgentLink`: the first heartbeat is answered or fails, timers fire, and a socket opens or closes (weak).
* `Equalizer`: a command goes on (weak): the rename loop is bounded, so each step returns.
* `DemoPrayer`: time, timers and replies (weak): a browser that is open runs its timers, late in a hidden tab.

## 5. Proofs

All theorems are for every value of the constants, from the named assumptions of the modules
(`ConstantsOK`, `LifecycleConstants`, `TrackSyncConstants`, `AgentLinkConstants`, `EqualizerConstants`,
`SessionsConstants`, `PrayerTimesConstants`, ...), which say no more than that bounds are numbers, that clocks
are within -12 to 14 hours of UTC, that the zones of the demo are finitely many, and that the names of "none" are not members. Where a theorem needs more, the
hypothesis has a name, stands in the theorem, and is explained below. The state of every module is unbounded
in the proofs: any number of commands, zones, days, sockets, tracks, rows and requests.

`RemoteCommandsProofs`: `Spec` implies `[]IInv`; from it `TypeOK`, `SuccessWasPerformed`,
`RefusedNeverDelivered`, `AnsweredIsClosed`, `SequencesDistinct` and `AppliedWasPerformed`; and
`Spec => PromiseKept`. None of the properties is inductive alone, so `IInv` adds:

* `RowsFollowRequests`: in which states of a request its row exists, and that a PENDING row has no request
  waiting. Without it a refused command could have a row a poll may list.
* `OnlyDelivered`: batches, commands being executed and acks are of rows that exist and were not refused.
* `EvidenceInTransit`: a SUCCESS that is being sent, stored or applied is of a command in `performed`. This
  carries `SuccessWasPerformed` through the steps between the venue and the row.
* `ClosedRows`: past its wait a request has closed its row, past its write an ack has. `TIMEOUT` is written
  unseen, but a terminal status is only ever replaced by another terminal one.

`PerformedOnce` (`CarriedOutOnce`) has no hypothesis on runs or faults: any number of poll runs overlap, any number of
messages are lost, and agent and backend crash at will. What it says is that a command that was carried out and is in
line again is `doubtful`, that is, went one of the three ways of 2.1. `OnceInv` (`OnceInductive`) adds to `IInv`, for each
command that is not doubtful:

* `HeldOnce`: one run at most holds it.
* `NotAgain`: if it was carried out, it is in no batch.
* `Accounted`: if it was carried out, its row is closed, or the agent is at work on it (running, or waiting for its ack).
* `AckedIsClosed`: an ack handler past its write has closed its row. And for all commands `AwaitsItsAck`: while the agent
  waits, the handler of the ack it sent is under way for the same command.

The proof is by conjunct, and within a conjunct by action. The refinement maps a request's `pc` to
`answer` (`Answer`) and `performed` to `done`; its steps are `Accept` (the row is created), `Refuse`,
`AnswerOk`, `AnswerError` and `Perform`, and all others stutter.

`PrayerSchedulerProofs` proves, for any zones, runs, prayers, day length and disturbances:

* `TypeOK`, with what each run holds (`PrayerTypeCorrect`).
* `StartExclusive`, from two assumptions that are part of the theorem: `MaxLag = 0`, and every configuration
  a manager may save keeps Prayer Mode on and has a location (`Active`); prayers may be disabled and moved. Both are needed. The inductive invariant says that a start
  under way is on record (`StartRecorded`), that a run in progress looks at the present date
  (`RunsCurrent`), so that the pruning of other dates cannot remove that record, and that only ends are
  counted (`AtAPrayer`). Saving `enabled = false` and then `true` while a start is under way breaks it: the
  tick in between prunes every key, and a third one starts the prayer again. A run that outlives midnight
  breaks it too: its pruning drops the keys of the new date while another run is starting a prayer under
  one of them.
* `HeldOnlyInWindow` from `PausesWithinTheDay`: a run ends within the unit of time it began in, nobody saves
  settings meanwhile, and every window closes before midnight by more than the units of time that may be missed
  (`MaxFaults`, of which the process may be down for any). The invariant bounds how long a mark outlives its
  window by the time that was missed (`HeldSinceStart`), and says that once a run has begun, one that
  is under way will come to each zone that is held for too long (`OverdueIsReached`). Without these
  conditions the code holds zones outside a window (`prayer_midnight`, section 6).

`AgentProofs`, of pairing and "Forget Server": `ReachedMeansShut` follows from `ForgetInv`: at each step between the
machine's script and the request's reply (script, ack, row, waiter, reply) what speaks of success has its command in
`shut`. `NoOrphanToken` follows from `TokenInv`: a row accepts the last token issued for it or none
(`RowOK`), and a machine's credential and each pairing under way stand in a fixed relation to the rows
(`AgentOK`): a token on its way is newer than the one held, and once a reply is due, the machine's former row no longer accepts
the machine's token. The second half is what makes releasing that row *before* replying necessary.

`PairingKept` is the refinement of `PairingPromise`, proved from `TokenInv` (`PairingKeepsItsPromise`). The claim of a code is
`Grant`: two machines that looked one code up both claim it, and the second grant replaces the first. A release, a
deletion, either sweep and "Forget Server" are `Revoke`; the reply that is kept, lost or cut off, the control panel's
unpair and the wipe are `Lose`, since a machine then has fewer tokens or the same; all else changes none of the three. The
promise has `OneHolder` (`TokenHasOneHolder`): no two machines have a token in common (`NoneShared`), because each
that is granted is newer than all that were.

`AgentProofs`, of the sockets, the tracks and the curves:

* `RunningPolls`, and `SocketsPerStart` by counting: sockets that exist, plus the timer, plus pending
  starts, never exceed the calls of `start()`. `TrackedIsLive` is needed for `disconnect()` to give up a
  socket that is counted.
* `CachedIsOnDisk` from `Known`: what is cached in memory, saved, being reported or stored has a file. Files
  are only added, so every step carries it.
* `OneAtATime` (mutual exclusion: a command that writes is the head of the lock's queue),
  `ConfigFollows` (config.txt may lag only while the head is between its file and `config.txt`), and
  `RunsInForce` (what a command has written is in force until its end) give `ConfigMatchesFiles` and
  `AppliedStays`.

`PortalProofs`, of sessions, the cache and the pages:

* `SignedOutForAReason`, for any number of calls, ticks and lost replies, with tokens of any length of life. As
  long as the user made one call at a time and no reply was lost, the invariant follows the tokens through a
  refresh: the row of the session is valid and the last there is (`RowOfSession`), unless a refresh has
  replaced it, whose own row is (`RowOfIssued`); and a refresh comes in a later second than the one it
  replaces was signed in (`RefreshIsLater`), or the two would be one row.
* `OwnEditsShow`. The invariant says the same of the answer that is on its way as of the one that is shown: each edit
  it lacks is accounted for (`Covered`). It rests on `EditsAccountedFor`, which
  says of the tables of `PortalApi` that each edit marks what it writes or is listed; TLC evaluates it for the real
  tables on every run, so a hook that marks less fails there.
* `OfferedIsPermitted`, as the portal is put together. `MatricesAgree`: the two copies of the matrix are one. `DemandTiers`
  sorts what the routes demand by who has it: everyone, staff (managers and up), the office (administrators), or a Super
  Admin. A part of a page `Suits` some roles if each is permitted what it is shown, but for named exceptions, and
  the lemmas about gates say how parts that suit make a part that suits; then the eighteen pages are gone through.
  The queries that must have been answered first play no role: what is left from another role's answers is covered. So a
  part that is moved to another page, or a gate that is loosened, fails at the lemma of that page.

`PrayerTimesProofs`: `TimesAreRight` and `VenueClockWins` for any points, dates, clocks and settings,
and `ScheduledOnTime` from `PrayerNearItsDate` (in every zone in use, a prayer of a date is at that date's
clock, or off by no more than the hours the code's correction undoes). The cache is
the heart of it: what is stored under a key is what was computed for it, and the zone missing from the key is the
exception of section 6. The arithmetic of the conversion is proved as lemmas on `%`.

`PortalRowsProofs`: `TenantsAgree` (`EveryRowHasOneTenant`) for any rows, callers, keys and number of requests, if the rows at the
start agree. Three arguments meet there:

* What a deletion takes along is defined by rounds. `DoomedLeast` shows that the rounds end in the *least* set
  that holds the deleted row and is closed under the cascading keys: so nothing stays that refers to a row that
  went, and nothing goes that did not have to. It is an induction on the number of rows, by a least counterexample.
* The foreign keys of the migrations are what keeps a server's location, a zone's server and a location's organization
  there (`OwnedStay`), while a user's location is emptied: those users are the history `bereft`.
* What a request has yet to write was decided on rows read earlier. `JobOK` says it still fits: a location,
  if it is still there, has the organization it had (`Evolves`), as no route changes that; keys are not given twice,
  so a location of the same key is the same location; and a statement that writes whose a row is is the last of
  its request.

Its hypothesis `PairsAreTracks` is about keys only: a track in a playlist is keyed by both, and no other key is such a pair.
`SeedRows` and `KeysApart` are assumptions of `PortalRows`, which TLC evaluates for the instance.

`PortalListsProofs`: `ListsAgree` (`ListsStayInOrder`), under the same hypotheses, if what is scheduled at the start is
assigned and the tracks of playlists are in places (`InOrder`, which speaks of the first state only). It rests on four
invariants, each inductive with the one before:

* `TypesInv`. Every reference names a row that is there, or is empty where it may be (`RefsOK`). That needs
  the whole of the migrations' keys: `ModelsAreKeys` and `KeysAreModels` compare them with `schema.prisma`, and
  `DoomedLeast` gives that what a deletion leaves refers to nothing that went. What a request has yet to run has one of
  the shapes its route writes (`JobSound`), about keys that were given: `RequestsBegin` goes through the routes one
  by one; after that only the key of a created row, and the tracks read for a copy, change a list.
* `CoveredInv`. A slot is assigned, or the request that wrote it assigns it next (`Covers`). Assignments are never
  deleted alone, only with their playlist, and then its slots go too; a change of a slot's playlist reads the slot's
  zone before it writes (`EditKnows`). A slot moves when a PATCH names a zone (`routes/schedules.ts:59` writes the body as
  it comes): if the body names a playlist too, the assignment for the new zone is next; if it names the zone alone, nothing
  assigns it (line 60), and the slot is in the history `bereft` until its playlist is next named. What happens to those is
  the finding `slot_moved`.
* `FilesInv`. A track has its file, or its row is the next thing a request deletes; a file without a row
  belongs to one request only, the one that uploaded it.
* `OrderInv`. A playlist that is not in `jumbled` has at most one request that writes its tracks, its
  positions are below the number of its tracks and apart, and a track about to be added goes after them. The bound
  on positions is what makes adding at the *count* safe, and a removal breaks it: hence the exception.

`VenueProofs` puts the parts together. `VenueIsItsParts`: a behaviour of `MCVenue` is a behaviour of each part's
own specification, since `focus` and the narrower bounds only leave steps out. Hence `VenueTypes` and `VenueIsSafe`: every
invariant and action property that `venue_safety` checks, for all values of the constants, under the hypotheses named
above. The types of the remaining parts are proved there too; where they are not inductive alone, one fact is added:

* `DemoPrayer`: a page whose scheduler has not started has no timer set and waits for no reply (`NotStarted`), so that
  what goes off is always of a day. The commands of a prayer are a sequence only because finitely many zones take part.
* `PortalPages`: who has a page open has a role in the token and in the session (`PagesInv`).
* `ServerLifecycle`: `TokenInv` says which tokens there are, the rest is what sweeps and heartbeats hold.

Only model-checked: everything under fairness, because liveness is out of the prover's reach (the properties of
`commands_settle`, `HeldIsReleased`, and those of `venue_liveness`). Every
invariant and every action property of a passing run is a theorem.

Induction over data is out of reach of the library's induction theorems, which take an operator as a parameter;
where a proof needs one (`Doomed`, the clocks of `PrayerTimes`) it argues with a least element of a set of
numbers instead (`LeastNumber`, `LeastNat`).

## 6. Where the code and its documentation disagree

With a run each:

* **Closed is not final** (`commands_closed_final`). The ack handler decides on one read and writes
  with another statement; the expired waiter writes TIMEOUT unseen; a poll marks SENT by id. So a
  TIMEOUT can become SUCCESS, which the comment at `routes/agent.ts:291-294` says must not happen.
* **Applied effects regress** (`commands_regress`). An ack stores its `zoneState` and sequence
  whatever the zone's `lastAppliedSequence`; README.md:236-239 says stale effects are discarded.
* **An override leaves the prayer mark** (`commands_override`). Only the optimistic effect clears
  `pausedByPrayer`, and it is skipped when the ack carried a `zoneState`.
* **A pause across midnight never ends** (`prayer_midnight`). Start, end and keys are those of the
  tick's date; on the next date the window has not opened yet, and by the time it would have closed the
  date has changed again.
* **A failed start is not retried** (`prayer_failed_start`). The start is recorded as fired before it runs and stays on
  record when it throws; the next tick, which `lib/prayer-scheduler.ts:242-243` says "re-evaluates from scratch", skips
  it, and the zones it did not reach play through the prayer. (The run has no manager and no command left over from the day
  before, which could start a zone inside a window as well; without the fault the property holds there.)

* **A prayer that is disabled keeps its zones** (`prayer_disabled`). The tick skips a disabled prayer
  (`lib/prayer-scheduler.ts:178`), and the whole organization without a location (line 169), before it looks for
  zones that are still held; `PUT /prayer/config` saves either inside a window. The end is never fired, and the zones stay
  paused and marked with Prayer Mode on, although lines 10-11 say they are resumed.
* **A slot moved by its zone alone is not offered** (`slot_moved`). `PATCH /schedules/:id` ensures the assignment only if
  the body names a playlist (`routes/schedules.ts:60`), so the slot's playlist is missing from the picker of the zone it
  moved to, which the comment at lines 9-18 says it must not be. The portal's dialog sends both and is safe.

Seen while modelling, kept in the models as they are, and written into the exceptions of the properties
named:

* `HeldOnlyInWindow`: the process is down from the close of a window until midnight, or Prayer Mode is off
  over the close of a window and on again the next day: the zones stay held until that prayer's next
  close. A zone held when Prayer Mode is switched off, loses its location or leaves out the prayer stays held
  until that is taken back (`HeldIsReleased` has these exceptions; the run `prayer_disabled` shows the last).
* `PerformedOnce`: the three ways of 2.1 in which a command is carried out twice.
* `SignedOutForAReason`: two calls that refresh one token at a time sign the user out, since the second
  finds the token gone, though `lib/api/client.ts:29` speaks of a transparent refresh.
* `TimesAreRight`: the cache's key lacks the time zone, so a point asked about in two zones shares the clock of
  the first.
* `PlaysAgain`: the demo's scheduler may replace timers without clearing them (`strays`), when two
  recalculations end in one order and began in another; what a stray timer repeats is in `fired` already, as long as
  the page is not reloaded.
* `FetchedIsShown`: a track whose download failed, or whose scan did, stays SYNCING until somebody retries it; so the
  run has no faults of the tracks, but requests again while runs overlap.
* `DeletedStaysDeleted` speaks of one edit by hand, the deletion, without faults; any further edit or a fault is left out.
* `PairingKept`: the first of two machines that claim one code is answered with a token that is no longer accepted. The
  retention sweep deletes a row that was given a code, or was paired, after the sweep read it.
* `firePrayerStart` marks zones of a list it read before its loop: one that a manager paused since is marked too, and
  resumed in the end, against the comment at `lib/prayer-scheduler.ts:98-100`; and a mark is cleared before
  its PLAY is issued, so a failure in between leaves the zone paused and unmarked.
* `ListsAgree`: after a removal and an addition two tracks of a playlist may have one position.
* `OwnEditsShow`: `LeftBehind` in `PortalCache` lists the queries that an edit changes and no hook asks
  for again until their `staleTime` is over.
* `OfferedIsPermitted`: `RefusedTo` in `PortalPages` lists what pages ask for and are refused. A viewer's zones page asks for the
  prayer settings and, with the playlist dialog, for playlists and tracks, although
  `components/zones/zone-card.tsx:74-75` says such queries are not sent; it offers to save curves. A location manager's
  pages ask for organizations; "Forget Server" is among the commands of the Send Command dialog.
* In the demo, lists hand out the live rows of the store, while single reads copy them
  ("A copy, not the live store reference", `lib/api/zones.ts:37`).
* `RESTART_SERVICE` is acked by the process that was to be restarted, so its SUCCESS says only that it began.
* The equalizer's dialog sends what changed 450 ms ago at the latest: an answer to an earlier curve shows
  "Saved" while a later one is on its way. `hooks/use-zones.ts:66` says replaying a curve is always safe; a retry of an older
  curve after a newer one is not.
* `components/prayer/prayer-mode-form.tsx:33` offers locations with coordinates, which the backend does not serialize, so with
  the backend none can be linked there.
* `app/(portal)/playlists/[id]/page.tsx` reorders by sending the cached list: an addition made since is undone.
* README.md:273 and README.md:433 name different schemas as the source of truth; the models follow
  `backend/prisma`.

## 7. Not modelled, and the plan

Next:

1. `RemoteCommands` and `PrayerScheduler` composed: the prayer's queue replaced by the real path, which
   covers the mark set on a zone paused since the list was read, and the command that fails after its mark is cleared.
2. The autosave of the equalizer's dialog, with two answers out of order.

Left out, with reasons:

* Two overlapping polls that both hold one FORGET_SERVER (`ServerLifecycle!FetchForget` gives it to one). The row and
  the waiting request follow whichever acks first; the other may run the script again, and wipe a machine whose first run
  reported FAILED.
* In `PortalRows`, the OFFLINE check of `PUT /zones/:id/playlist` and the narrowing of zones to the caller's locations
  for viewers, who have no permission to assign: the model allows more.
* The hazards of `PROJECT.json` without a property, each with its note there: what the properties that come near them
  exempt or what these bounds do not reach.

* `POST /server/token`, which the bridge never calls; the bytes of files, hashes and JWT signatures.
* The curve's arithmetic in `eq-apo.js` (sums of filters, floating point) and the text of its files.
* The rows of alerts, logs and saved curves: written by one statement and read by nobody who decides.
* `lib/mock/simulate.ts`: random movement for the eye. `agent-bridge/lib/shuffle.js`, which nothing calls.
* Two uploads of one name in one millisecond, which share a file name.
* Layout, wording, styling, charts, form validation, generated UI primitives (`components/ui`).
* The compiled local player (not in the repository; modelled through what the agent calls).
