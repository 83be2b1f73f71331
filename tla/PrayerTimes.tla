----------------------------- MODULE PrayerTimes -----------------------------
(***************************************************************************)
(* Where a venue is, what its clock shows, and when its prayers are: the     *)
(* location is resolved from what the venue's PCs report, the Location row   *)
(* and the saved configuration (backend/src/lib/prayer-location.ts, the       *)
(* heartbeat of routes/agent.ts, PUT /prayer/config); the day's times of a    *)
(* point come from a cache or from AlAdhan (lib/prayer-times.ts, lib/        *)
(* aladhan.ts); the scheduler's tick turns them into instants (lib/timezone-  *)
(* math.ts).  The portal asks the same cache, also about places that are not  *)
(* saved (GET /prayer/times/today).                                          *)
(*                                                                         *)
(* Time is counted in hours, there is one prayer, and a place stands for     *)
(* coordinates together with the calculation method.                        *)
(***************************************************************************)
EXTENDS Integers, Sequences

CONSTANTS
  Zones,         \* IANA time zones
  Clock,         \* of each zone, its offset before and after the clocks change, and when
  Places,        \* points with a calculation method
  Nowhere,       \* no place, no zone
  CityZone,      \* the zone of each place in the city dataset
  Sun,           \* for each place and date, the instant of the prayer
  Pcs,           \* the servers of the Location
  Configs,       \* the configurations an administrator may save
  Askers,        \* requests for times that may be in progress together, Tick among them
  Tick,          \* the scheduler's tick
  NowStep,       \* bound: hours by which time passes
  MaxNow,        \* bound: the last hour
  MAX_ENTRIES,   \* entries of the cache
  MaxVenueEdits, \* bound: heartbeats with news, and configurations saved
  MaxAsks,       \* bound: requests for times
  MaxPrayerFaults \* bound: fetches that fail, and restarts

Dates == -1 .. (MaxNow \div 24 + 1)

ASSUME PrayerTimesConstants ==
  /\ Clock \in [Zones -> [before : -12 .. 14, after : -12 .. 14, at : Int]]
  /\ Nowhere \notin Zones \cup Places
  /\ CityZone \in [Places -> Zones]
  /\ Sun \in [Places \X Dates -> Int]
  /\ Configs \subseteq [linked : BOOLEAN, point : Places \cup {Nowhere},
                        city : Places \cup {Nowhere}, zone : Zones \cup {Nowhere}]
  /\ Tick \in Askers
  /\ {NowStep, MaxNow, MAX_ENTRIES, MaxVenueEdits, MaxAsks, MaxPrayerFaults} \subseteq Nat
  /\ MAX_ENTRIES > 0

VARIABLES
  now,           \* the hour
  pc,            \* MusicServer rows: whether online, reported zone and place, and when
  location,      \* the Location row: its zone, and its city if the dataset knows it
  settings,      \* the PrayerConfig row
  cache,         \* of prayer-times.ts, the oldest entry first
  ask,           \* the requests: what they ask for, and whether they wait for AlAdhan
  answer,        \* what each asker was told last
  venueEdits,    \* heartbeats with news and configurations saved so far
  asks,          \* requests for times so far
  prayerFaults,  \* failures and restarts so far
  asked          \* history: what the cache was asked for since the backend started

timesVars == <<now, pc, location, settings, cache, ask, answer, venueEdits, asks, prayerFaults, asked>>

\* What is asked for, and what is answered.
Question == [place : Places, zone : Zones, date : Dates]
Answer   == [place : Places, zone : Zones, date : Dates, hour : 0 .. 23]
None     == <<>>

PrayerTimesTypeOK ==
  /\ now \in 0 .. MaxNow
  /\ pc \in [Pcs -> [online : BOOLEAN, zone : Zones \cup {Nowhere},
                     place : Places \cup {Nowhere}, at : Nat]]
  /\ location \in [zone : Zones \cup {Nowhere}, city : Places \cup {Nowhere}]
  /\ settings \in Configs
  /\ cache \in Seq([place : Places, date : Dates, hour : 0 .. 23]) /\ Len(cache) <= MAX_ENTRIES
  /\ ask \in [Askers -> Question \cup {None}]
  /\ answer \in [Askers -> Answer \cup {None}]
  /\ {venueEdits, asks, prayerFaults} \subseteq Nat
  /\ asked \subseteq Question

PrayerTimesInit ==
  /\ now = 0
  /\ pc = [p \in Pcs |-> [online |-> FALSE, zone |-> Nowhere, place |-> Nowhere, at |-> 0]]
  /\ location \in [zone : Zones \cup {Nowhere}, city : Places \cup {Nowhere}]
  /\ settings \in Configs
  /\ cache = <<>>
  /\ ask = [a \in Askers |-> None] /\ answer = ask
  /\ venueEdits = 0 /\ asks = 0 /\ prayerFaults = 0 /\ asked = {}

-----------------------------------------------------------------------------
(* timezone-math.ts *)

Offset(z, instant) == IF instant < Clock[z].at THEN Clock[z].before ELSE Clock[z].after

\* What the clock of zone z shows at an instant, counted from midnight of day 0.
Shown(z, instant) == instant + Offset(z, instant)

\* todayInTimeZone.
Today(z) == Shown(z, now) \div 24

\* Planted defect: the correction has the wrong sign.
ZonedTimeToUtcBackwards(date, hour, z) ==
  LET guess == 24 * date + hour IN guess - (guess - Shown(z, guess))

\* zonedTimeToUtc: the wall time is taken for an instant, read back in the zone, and
\* corrected by the difference.
ZonedTimeToUtc(date, hour, z) ==
  LET guess == 24 * date + hour IN guess + (guess - Shown(z, guess))

-----------------------------------------------------------------------------
(* prayer-location.ts *)

At(p, z) == [place |-> p, zone |-> z]

\* Planted defect: a server that never reported a zone comes first.
VenueServersNullsFirst ==
  {p \in Pcs : pc[p].online /\ \A q \in Pcs : pc[q].online =>
                 pc[p].at = 0 \/ (pc[q].at # 0 /\ pc[q].at <= pc[p].at)}

\* venueServerFor: of the online servers, the one that reported a zone last; a server that
\* never did comes last.
VenueServers == {p \in Pcs : pc[p].online /\ \A q \in Pcs : pc[q].online => pc[q].at <= pc[p].at}

\* What the configuration itself says.
FromConfig ==
  IF settings.point # Nowhere /\ settings.zone # Nowhere THEN At(settings.point, settings.zone)
  ELSE IF settings.city = Nowhere THEN None
  ELSE At(settings.city, IF settings.zone # Nowhere THEN settings.zone ELSE CityZone[settings.city])

\* resolvePrayerLocation: the clock of the venue's PC counts before that of the Location,
\* and its position before the Location's city.
Resolve(zone, place) ==
  LET clock == IF zone # Nowhere THEN zone ELSE location.zone IN
  IF place # Nowhere /\ clock # Nowhere THEN At(place, clock)
  ELSE IF location.city = Nowhere THEN FromConfig
  ELSE At(location.city, IF clock # Nowhere THEN clock ELSE CityZone[location.city])

Resolved ==
  IF ~ settings.linked THEN {FromConfig}
  ELSE IF VenueServers = {} THEN {Resolve(Nowhere, Nowhere)}
  ELSE {Resolve(pc[p].zone, pc[p].place) : p \in VenueServers}

-----------------------------------------------------------------------------
(* The venue, and who configures it *)

HoursPass ==
  /\ now + NowStep <= MaxNow
  /\ now' = now + NowStep
  /\ UNCHANGED <<pc, location, settings, cache, ask, answer, venueEdits, asks, prayerFaults, asked>>

VenueEdit == venueEdits < MaxVenueEdits /\ venueEdits' = venueEdits + 1

\* POST /server/heartbeat: what is not reported keeps its value, and only a report of a zone
\* is dated.
Heartbeat(p, z, place) ==
  /\ VenueEdit
  /\ pc' = [pc EXCEPT ![p] = [online |-> TRUE,
                              zone   |-> IF z # Nowhere THEN z ELSE pc[p].zone,
                              place  |-> IF place # Nowhere THEN place ELSE pc[p].place,
                              at     |-> IF z # Nowhere THEN venueEdits + 1 ELSE pc[p].at]]
  /\ UNCHANGED <<now, location, settings, cache, ask, answer, asks, prayerFaults, asked>>

\* The offline sweep.
GoesOffline(p) ==
  /\ pc[p].online
  /\ pc' = [pc EXCEPT ![p].online = FALSE]
  /\ UNCHANGED <<now, location, settings, cache, ask, answer, venueEdits, asks, prayerFaults, asked>>

\* PUT /prayer/config.
SaveConfig(c) ==
  /\ VenueEdit
  /\ settings' = c
  /\ UNCHANGED <<now, pc, location, cache, ask, answer, asks, prayerFaults, asked>>

-----------------------------------------------------------------------------
(* prayer-times.ts *)

\* Planted defect: the date is not part of the key.
KeyUndated(q) == <<q.place>>

\* keyFor: the zone is not part of the key.
Key(q) == <<q.place, q.date>>

Cached(q) == {i \in 1 .. Len(cache) : Key(cache[i]) = Key(q)}

Reply(a, q, hour) ==
  answer' = [answer EXCEPT ![a] = [place |-> q.place, zone |-> q.zone, date |-> q.date,
                                   hour |-> hour]]

\* The scheduler asks for the venue's times, the portal for those or for any others: an
\* answer comes from the cache at once, or AlAdhan is asked.
AskTimes(a, l) ==
  LET q == [place |-> l.place, zone |-> l.zone, date |-> Today(l.zone)] IN
  /\ ask[a] = None /\ asks < MaxAsks
  /\ asks' = asks + 1
  /\ asked' = asked \cup {q}
  /\ \/ \E i \in Cached(q) : Reply(a, q, cache[i].hour) /\ UNCHANGED ask
     \/ Cached(q) = {} /\ ask' = [ask EXCEPT ![a] = q] /\ UNCHANGED answer
  /\ UNCHANGED <<now, pc, location, settings, cache, venueEdits, prayerFaults>>

Locations(a) ==
  IF a = Tick THEN Resolved \ {None}
  ELSE (Resolved \ {None}) \cup {At(p, z) : p \in Places, z \in Zones}

\* Planted defect: the oldest entry goes when there are too many already.
RememberOneMore(entry) ==
  LET kept == IF Len(cache) > MAX_ENTRIES THEN Tail(cache) ELSE cache
      hit  == {i \in 1 .. Len(kept) : Key(kept[i]) = Key(entry)} IN
  cache' = IF hit = {} THEN Append(kept, entry)
           ELSE [i \in 1 .. Len(kept) |-> IF i \in hit THEN entry ELSE kept[i]]

\* remember: the oldest entry goes when the cache is full.
Remember(entry) ==
  LET kept == IF Len(cache) >= MAX_ENTRIES THEN Tail(cache) ELSE cache
      hit  == {i \in 1 .. Len(kept) : Key(kept[i]) = Key(entry)} IN
  cache' = IF hit = {} THEN Append(kept, entry)
           ELSE [i \in 1 .. Len(kept) |-> IF i \in hit THEN entry ELSE kept[i]]

\* AlAdhan answers with what the clock of the zone shows at the time of the prayer.
Fetched(a) ==
  LET q == ask[a]
      hour == Shown(q.zone, Sun[<<q.place, q.date>>]) % 24 IN
  /\ q # None
  /\ Remember([place |-> q.place, date |-> q.date, hour |-> hour])
  /\ Reply(a, q, hour)
  /\ ask' = [ask EXCEPT ![a] = None]
  /\ UNCHANGED <<now, pc, location, settings, venueEdits, asks, prayerFaults, asked>>

PrayerFault == prayerFaults < MaxPrayerFaults /\ prayerFaults' = prayerFaults + 1

\* It does not, and there are no times, even if others have cached them since.
FetchFails(a) ==
  /\ ask[a] # None /\ PrayerFault
  /\ ask' = [ask EXCEPT ![a] = None]
  /\ answer' = [answer EXCEPT ![a] = None]
  /\ UNCHANGED <<now, pc, location, settings, cache, venueEdits, asks, asked>>

\* The backend restarts with an empty cache.
BackendRestart ==
  /\ PrayerFault
  /\ cache' = <<>> /\ asked' = {}
  /\ ask' = [a \in Askers |-> None] /\ answer' = ask'
  /\ UNCHANGED <<now, pc, location, settings, venueEdits, asks>>

-----------------------------------------------------------------------------
PrayerTimesNext ==
  \/ HoursPass \/ BackendRestart
  \/ \E p \in Pcs : \/ GoesOffline(p)
                    \/ \E z \in Zones \cup {Nowhere}, place \in Places \cup {Nowhere} :
                         Heartbeat(p, z, place)
  \/ \E c \in Configs : SaveConfig(c)
  \/ \E a \in Askers : \/ Fetched(a) \/ FetchFails(a)
                       \/ \E l \in Locations(a) : AskTimes(a, l)

PrayerTimesSpec == PrayerTimesInit /\ [][PrayerTimesNext]_timesVars

-----------------------------------------------------------------------------
\* Nobody has asked for the same point and date in another zone.
OneZone(q) == \A o \in asked : Key(o) = Key(q) => o.zone = q.zone

\* The times that are shown and scheduled are those of the place and date asked for, on
\* the clock asked for, whoever fetched them: prayer-times.ts shares them by point and date
\* alone, so this holds for a point that is asked about in one zone only.
TimesAreRight ==
  \A a \in Askers : answer[a] # None /\ OneZone(answer[a]) =>
    answer[a].hour = Shown(answer[a].zone, Sun[<<answer[a].place, answer[a].date>>]) % 24

\* The clocks of the zone do not change within half a day of the prayer.
Steady(z, instant) == \A i \in instant - 24 .. instant + 24 : Offset(z, i) = Offset(z, instant)

\* The scheduler pauses the venue at the prayer's time of day, as the sun has it.
ScheduledOnTime ==
  LET t == answer[Tick] IN
  t # None /\ OneZone(t) /\ Steady(t.zone, Sun[<<t.place, t.date>>]) =>
    ZonedTimeToUtc(t.date, t.hour, t.zone) % 24 = Sun[<<t.place, t.date>>] % 24

\* The scheduler keeps the venue's own clock: while an online PC of the linked Location has
\* reported a zone, one that beats without reporting any does not outrank it.
VenueClockWins ==
  settings.linked /\ location.city # Nowhere
    /\ (\E p \in Pcs : pc[p].online /\ pc[p].zone # Nowhere)
  => \A l \in Resolved : \E p \in Pcs : pc[p].online /\ l.zone = pc[p].zone
=============================================================================
