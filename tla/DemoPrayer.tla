------------------------------ MODULE DemoPrayer ------------------------------
(***************************************************************************)
(* The demo mode of the portal, where the browser is the whole system: the  *)
(* prayer scheduler of the page (src/lib/prayer/scheduler.ts) with its       *)
(* timers, its cache (lib/prayer/cache.ts) and its configuration             *)
(* (lib/prayer/config-store.ts), and the zones and commands kept in memory   *)
(* (mock branches of lib/api/commands.ts and lib/mock/zone-effects.ts).      *)
(*                                                                         *)
(* Time is counted in hours of one time zone, and there is one prayer a day. *)
(* Code runs to completion between timers, events and replies, so what it    *)
(* does until it awaits one of them is one step.                            *)
(***************************************************************************)
EXTENDS Integers, SequencesExt

CONSTANTS
  DemoZones,      \* zones that take part in prayer mode
  DemoPlaces,     \* places the configuration may name
  Off,            \* prayer mode is off
  Called,         \* for each place and day, the hour the prayer is called
  PauseHours,     \* pauseDurationMinutes
  DayHours,       \* hours of a day
  Recalcs,        \* calls of recalculate() that may wait for AlAdhan together
  DemoFaultKinds, \* the kinds of disturbance that may happen, each once
  MaxDemoNow,     \* bound: the last hour
  MaxDemoActs     \* bound: configurations saved and commands of users

Days == 0 .. MaxDemoNow \div DayHours

ASSUME DemoPrayerConstants ==
  /\ IsFiniteSet(DemoZones) /\ Off \notin DemoPlaces
  /\ DayHours \in Nat /\ DayHours > 0
  /\ Called \in [DemoPlaces \X Days -> 0 .. DayHours - 1]
  /\ DemoFaultKinds \subseteq {"fetch", "command", "reload"}
  /\ {PauseHours, MaxDemoNow, MaxDemoActs} \subseteq Nat

NoTime == -1
NoDay  == -1
Kinds  == {"start", "end", "midnight", "retry"}

VARIABLES
  demoNow,     \* the hour
  wanted,      \* the configuration: a place, or Off
  known,       \* days and places whose times are cached
  latest,      \* the entry cached last, at most one
  todayKey,    \* the day the scheduler works on
  todayEvents, \* the window of that day's prayer, at most one
  timer,       \* the timers the scheduler can still clear
  strays,      \* timers that it has replaced without clearing them
  recalc,      \* for each waiting recalculate(), the day and the place it asked for
  stage,       \* what has been fired, the zones, and the commands on their way
  hidden,      \* the tab is in the background
  demoActs,    \* configurations and commands so far
  demoFaults   \* the disturbances so far

demoVars == <<demoNow, wanted, known, latest, todayKey, todayEvents, timer, strays, recalc,
              stage, hidden, demoActs, demoFaults>>

Entry   == DemoPlaces \X Days
Playing == [state |-> "PLAYING", held |-> FALSE]
NoTimer == [k \in Kinds |-> NoTime]

DemoPrayerTypeOK ==
  /\ demoNow \in 0 .. MaxDemoNow
  /\ wanted \in DemoPlaces \cup {Off}
  /\ known \subseteq Entry /\ latest \subseteq known
  /\ todayKey \in Days \cup {NoDay}
  /\ todayEvents \subseteq [start : Nat, end : Nat]
  /\ timer \in [Kinds -> Nat \cup {NoTime}] /\ strays \subseteq Kinds \X Nat
  /\ recalc \in [Recalcs -> SUBSET Entry]
  /\ stage.fired \subseteq Days \X {"start", "end"}
  /\ stage.zones \in [DemoZones -> [state : {"PLAYING", "PAUSED", "STOPPED"}, held : BOOLEAN]]
  /\ stage.sent \in Seq([zone : DemoZones, to : {"PLAYING", "PAUSED", "STOPPED"},
                         admin : BOOLEAN])
  /\ hidden \in BOOLEAN
  /\ demoActs \in Nat /\ demoFaults \subseteq DemoFaultKinds

\* A page that has just been opened: zones come from the seed and play.
Opened == [fired |-> {}, zones |-> [z \in DemoZones |-> Playing], sent |-> <<>>]

DemoPrayerInit ==
  /\ demoNow \in {h \in 0 .. MaxDemoNow : h < DayHours}
  /\ wanted \in DemoPlaces \cup {Off}
  /\ known = {} /\ latest = {}
  /\ todayKey = NoDay /\ todayEvents = {} /\ timer = NoTimer /\ strays = {}
  /\ recalc = [r \in Recalcs |-> {}]
  /\ stage = Opened /\ hidden = FALSE
  /\ demoActs = 0 /\ demoFaults = {}

Day == demoNow \div DayHours

DemoFault(kind) ==
  kind \in DemoFaultKinds \ demoFaults /\ demoFaults' = demoFaults \cup {kind}

-----------------------------------------------------------------------------
(* firePrayerStart and firePrayerEnd, as functions of the stage *)

Command(z, to, admin) == [zone |-> z, to |-> to, admin |-> admin]

Commands(zs, to) == SetToSeq({Command(z, to, FALSE) : z \in zs})

\* Once a day: every zone that plays is marked and sent a PAUSE.
Begin(s, key) ==
  LET playing == {z \in DemoZones : s.zones[z].state = "PLAYING"} IN
  IF <<key, "start">> \in s.fired THEN s
  ELSE [fired |-> s.fired \cup {<<key, "start">>},
        zones |-> [z \in DemoZones |-> [s.zones[z] EXCEPT !.held = @ \/ z \in playing]],
        sent  |-> s.sent \o Commands(playing, "PAUSED")]

\* Once a day: every marked zone is released and sent a PLAY.
End(s, key) ==
  LET held == {z \in DemoZones : s.zones[z].held} IN
  IF <<key, "end">> \in s.fired THEN s
  ELSE [fired |-> s.fired \cup {<<key, "end">>},
        zones |-> [z \in DemoZones |-> [s.zones[z] EXCEPT !.held = FALSE]],
        sent  |-> s.sent \o Commands(held, "PLAYING")]

-----------------------------------------------------------------------------
(* scheduleAll *)

\* Timers are set in place of others, which are not cleared.
Arm(old, left, kinds, at) ==
  /\ timer' = [k \in Kinds |-> IF k \in kinds THEN at[k] ELSE old[k]]
  /\ strays' = left \cup {<<k, old[k]>> : k \in {j \in kinds : old[j] # NoTime}}

\* What is late is fired at once: the end only after its start. The keys looked up are those
\* of the day asked for, the keys fired those of the day the scheduler works on.
CatchUp(e, key, today) ==
  LET begun == IF <<key, "start">> \notin stage.fired /\ demoNow >= e.start
               THEN Begin(stage, today) ELSE stage IN
  IF demoNow >= e.end /\ <<key, "start">> \in begun.fired THEN End(begun, today) ELSE begun

\* Planted defect: no timer is set for the end of a prayer that is under way.
TimersUnlessBegun(e, key) ==
  IF <<key, "start">> \notin stage.fired /\ demoNow < e.start THEN {"start", "end"} ELSE {}

\* Of what is not late, the timers to set.
TimersFor(e, key) ==
  (IF <<key, "start">> \notin stage.fired /\ demoNow < e.start THEN {"start"} ELSE {})
    \cup (IF demoNow < e.end THEN {"end"} ELSE {})

\* With or without the midnight timer.
ScheduleAll(events, key, today, old, left, rollover) ==
  LET due == {e \in events : <<key, "end">> \notin stage.fired}
      e == CHOOSE x \in due : TRUE
      at == [start |-> e.start, end |-> e.end, midnight |-> (Day + 1) * DayHours] IN
  IF due = {}
  THEN /\ Arm(old, left, rollover, [midnight |-> (Day + 1) * DayHours])
       /\ UNCHANGED stage
  ELSE /\ stage' = CatchUp(e, key, today)
       /\ Arm(old, left, TimersFor(e, key) \cup rollover, at)

-----------------------------------------------------------------------------
(* recalculate *)

\* The window of a day, from the times of an entry.
Window(entry, day) ==
  LET start == day * DayHours + Called[entry] IN
  [start |-> start, end |-> start + PauseHours]

\* The timers it knows are cleared; others are left. Prayer mode that is off leaves it at that;
\* cached times are used at once, and others are asked for.
Recalculate(place, left) ==
  \/ /\ place = Off
     /\ todayEvents' = {} /\ timer' = NoTimer /\ strays' = left
     /\ UNCHANGED <<todayKey, recalc, stage>>
  \/ /\ place # Off /\ <<place, Day>> \in known
     /\ todayKey' = Day
     /\ todayEvents' = {Window(<<place, Day>>, Day)}
     /\ ScheduleAll(todayEvents', Day, Day, NoTimer, left, {"midnight"})
     /\ UNCHANGED recalc
  \/ /\ place # Off /\ <<place, Day>> \notin known
     /\ todayKey' = Day
     /\ timer' = NoTimer /\ strays' = left
     /\ \E r \in Recalcs : recalc[r] = {} /\ recalc' = [recalc EXCEPT ![r] = {<<place, Day>>}]
     /\ UNCHANGED <<todayEvents, stage>>

\* It goes on with the times of an entry, whatever has been configured, cleared or set while
\* it waited.
GoOn(r, entry) ==
  LET day == (CHOOSE x \in recalc[r] : TRUE)[2] IN
  /\ recalc' = [recalc EXCEPT ![r] = {}]
  /\ todayEvents' = {Window(entry, day)}
  /\ ScheduleAll(todayEvents', day, todayKey, timer, strays, {"midnight"})

\* AlAdhan answers.
TimesArrive(r) ==
  /\ recalc[r] # {}
  /\ known' = known \cup recalc[r] /\ latest' = recalc[r]
  /\ \E entry \in recalc[r] : GoOn(r, entry)
  /\ UNCHANGED <<demoNow, wanted, todayKey, hidden, demoActs, demoFaults>>

\* AlAdhan fails: the entry cached last has to do, or another attempt is made later.
TimesFail(r) ==
  /\ recalc[r] # {}
  /\ DemoFault("fetch")
  /\ \/ \E entry \in latest : GoOn(r, entry)
     \/ /\ latest = {}
        /\ Arm(timer, strays, {"retry"}, [retry |-> demoNow])
        /\ recalc' = [recalc EXCEPT ![r] = {}]
        /\ UNCHANGED <<todayEvents, stage>>
  /\ UNCHANGED <<demoNow, wanted, known, latest, todayKey, hidden, demoActs>>

-----------------------------------------------------------------------------
(* Timers and events *)

\* usePrayerSchedulerBootstrap starts the scheduler of a page.
StartScheduler ==
  /\ todayKey = NoDay /\ wanted # Off /\ \A r \in Recalcs : recalc[r] = {}
  /\ Recalculate(wanted, strays)
  /\ UNCHANGED <<demoNow, wanted, known, latest, hidden, demoActs, demoFaults>>

\* A configuration is saved, or the Location it is linked to is edited: the scheduler is told.
ConfigSaved(place) ==
  /\ demoActs < MaxDemoActs /\ (todayKey # NoDay \/ wanted = Off)
  /\ demoActs' = demoActs + 1
  /\ wanted' = place
  /\ Recalculate(place, strays)
  /\ UNCHANGED <<demoNow, known, latest, hidden, demoFaults>>

\* What a timer does when it goes off; the others are left.
GoesOff(k, others, left) ==
  \/ /\ k \in {"start", "end"}
     /\ stage' = IF k = "start" THEN Begin(stage, todayKey) ELSE End(stage, todayKey)
     /\ timer' = others /\ strays' = left
     /\ UNCHANGED <<todayKey, todayEvents, recalc>>
  \/ k \in {"midnight", "retry"} /\ Recalculate(wanted, left)

\* Timers that are late go off in the order of the hours they were set for.
Due(at) ==
  /\ at # NoTime /\ at <= demoNow
  /\ \A k \in Kinds : timer[k] = NoTime \/ at <= timer[k]
  /\ \A x \in strays : at <= x[2]

TimerFires(k) ==
  /\ Due(timer[k])
  /\ GoesOff(k, [timer EXCEPT ![k] = NoTime], strays)
  /\ UNCHANGED <<demoNow, wanted, known, latest, hidden, demoActs, demoFaults>>

\* A timer that was replaced goes off all the same, at the hour it was set for.
StrayFires(x) ==
  /\ x \in strays /\ Due(x[2])
  /\ GoesOff(x[1], timer, strays \ {x})
  /\ UNCHANGED <<demoNow, wanted, known, latest, hidden, demoActs, demoFaults>>

\* The timers of a tab in view go off in time; those of one in the background may be late.
DemoTimePasses ==
  /\ demoNow < MaxDemoNow
  /\ hidden \/ /\ \A k \in Kinds : timer[k] = NoTime \/ timer[k] > demoNow
               /\ \A x \in strays : x[2] > demoNow
               /\ stage.sent = <<>>
  /\ demoNow' = demoNow + 1
  /\ UNCHANGED <<wanted, known, latest, todayKey, todayEvents, timer, strays, recalc, stage,
                 hidden, demoActs, demoFaults>>

Hide ==
  /\ ~ hidden
  /\ hidden' = TRUE
  /\ UNCHANGED <<demoNow, wanted, known, latest, todayKey, todayEvents, timer, strays, recalc,
                 stage, demoActs, demoFaults>>

\* The tab comes back into view, and reconcile() catches up with what it missed.
Show ==
  /\ hidden
  /\ hidden' = FALSE
  /\ IF todayKey = NoDay THEN UNCHANGED <<timer, strays, stage>>
     ELSE ScheduleAll(todayEvents, todayKey, todayKey, timer, strays, {})
  /\ UNCHANGED <<demoNow, wanted, known, latest, todayKey, todayEvents, recalc, demoActs,
                 demoFaults>>

\* The page is reloaded: what is in localStorage stays.
Reload ==
  /\ DemoFault("reload")
  /\ todayKey' = NoDay /\ todayEvents' = {} /\ timer' = NoTimer /\ strays' = {}
  /\ recalc' = [r \in Recalcs |-> {}]
  /\ stage' = Opened /\ hidden' = FALSE
  /\ UNCHANGED <<demoNow, wanted, known, latest, demoActs>>

-----------------------------------------------------------------------------
(* Commands: commandsApi.send and applyZoneCommandEffect *)

\* A user presses Play, Pause or Stop.
SendCommand(z, to, admin) ==
  /\ demoActs < MaxDemoActs
  /\ demoActs' = demoActs + 1
  /\ stage' = [stage EXCEPT !.sent = Append(@, Command(z, to, admin))]
  /\ UNCHANGED <<demoNow, wanted, known, latest, todayKey, todayEvents, timer, strays, recalc,
                 hidden, demoFaults>>

\* The delay of a command is over: it takes its sequence number and its effect in one go, so
\* none is ever stale. That of a Super Admin ends the hold.
Apply ==
  /\ stage.sent # <<>>
  /\ LET c == Head(stage.sent) IN
     stage' = [stage EXCEPT !.sent = Tail(@),
                 !.zones[c.zone] = [state |-> c.to, held |-> @.held /\ ~ c.admin]]
  /\ UNCHANGED <<demoNow, wanted, known, latest, todayKey, todayEvents, timer, strays, recalc,
                 hidden, demoActs, demoFaults>>

\* One in twelve fails, and so does every command to a server that is offline.
CommandFails ==
  /\ stage.sent # <<>>
  /\ DemoFault("command")
  /\ stage' = [stage EXCEPT !.sent = Tail(@)]
  /\ UNCHANGED <<demoNow, wanted, known, latest, todayKey, todayEvents, timer, strays, recalc,
                 hidden, demoActs>>

-----------------------------------------------------------------------------
DemoTimers ==
  (\E k \in Kinds : TimerFires(k)) \/ (\E x \in strays : StrayFires(x))

DemoPrayerNext ==
  \/ StartScheduler \/ DemoTimers \/ DemoTimePasses \/ Hide \/ Show \/ Reload
  \/ \E r \in Recalcs : TimesArrive(r) \/ TimesFail(r)
  \/ \E place \in DemoPlaces \cup {Off} : ConfigSaved(place)
  \/ \E z \in DemoZones, to \in {"PLAYING", "PAUSED", "STOPPED"}, admin \in BOOLEAN :
       SendCommand(z, to, admin)
  \/ Apply \/ CommandFails

\* Time passes, timers go off in the end, and what was sent arrives.
DemoPrayerFairness ==
  /\ WF_demoVars(DemoTimePasses) /\ WF_demoVars(DemoTimers) /\ WF_demoVars(Apply)

DemoPrayerSpec == DemoPrayerInit /\ [][DemoPrayerNext]_demoVars
DemoPrayerFairSpec == DemoPrayerSpec /\ DemoPrayerFairness

-----------------------------------------------------------------------------
\* A prayer that is not over by midnight.
LastsPastMidnight == \E x \in Entry : Called[x] + PauseHours >= DayHours

\* A zone that was paused for the prayer plays again in the end, however late the page was
\* opened and however long its tab was in the background, unless a command failed, somebody
\* changed something, or the day turns before the prayer is over.
PlaysAgain ==
  \A z \in DemoZones :
    stage.zones[z].held
      ~> \/ ~ stage.zones[z].held /\ stage.zones[z].state = "PLAYING"
         \/ demoActs > 0 \/ "command" \in demoFaults \/ LastsPastMidnight
=============================================================================
