--------------------------- MODULE PrayerScheduler ---------------------------
(***************************************************************************)
(* Prayer Mode of one organization (backend/src/lib/prayer-scheduler.ts):  *)
(* a timer starts tick runs; a run reads the configuration and the venue's *)
(* clock once, then goes through the day's prayers, pausing the playing    *)
(* zones inside a prayer's window and resuming the marked ones after it.   *)
(* Every `await` is a step boundary, and runs may overlap: setInterval     *)
(* does not wait for the last one.                                         *)
(*                                                                         *)
(* What happens to an issued command on its way to the venue is the        *)
(* subject of RemoteCommands; here a zone carries out its commands in the  *)
(* order of issue, each of them once, or fails to.                         *)
(***************************************************************************)
EXTENDS Integers, Sequences, FiniteSets

CONSTANTS
  Zones,         \* the organization's zones
  None,          \* no zone
  Runs,          \* tick runs that may be in progress together
  NumPrayers,    \* the day's prayers, numbered in the order of PRAYER_NAMES
  DayLength,     \* units of time in a day
  Days,          \* dates are counted modulo Days
  Configs,       \* the settings a manager may save
  ManagerKinds,  \* the commands managers issue
  Faults,        \* the kinds of disturbance that may happen
  MaxFaults,     \* bound: disturbances in one behaviour
  MaxQueue,      \* bound: commands of a zone on their way to the venue
  MaxLag         \* bound: units of time a tick run may last

Prayers  == 1 .. NumPrayers
NoPrayer == 0
Playback == {"PLAYING", "PAUSED", "STOPPED"}
Edges    == {"start", "end"}
Keys     == (0 .. Days - 1) \X Prayers \X Edges

Settings == [enabled : BOOLEAN, located : BOOLEAN, observed : SUBSET Prayers,
             start : [Prayers -> Int], pause : [Prayers -> Nat], zones : SUBSET Zones]

ASSUME ConstantsOK ==
  /\ None \notin Zones
  /\ NumPrayers \in Nat /\ DayLength \in Nat \ {0} /\ Days \in Nat \ {0}
  /\ Configs \subseteq Settings
  /\ ManagerKinds \subseteq {"PLAY", "PAUSE", "STOP"}
  /\ Faults \subseteq {"fail", "restart", "missed", "timings", "settings"}
  /\ MaxFaults \in Nat /\ MaxQueue \in Nat /\ MaxLag \in Nat

VARIABLES
  day, tod,   \* the venue's date and time of day
  settings,   \* the PrayerConfig row, with the zones whose prayerModeEnabled is set
  fired,      \* the keys of starts and ends this process has dealt with
  mark,       \* Zone.pausedByPrayer
  state,      \* Zone.playbackState
  queue,      \* commands issued for a zone and not yet carried out
  run,        \* the tick runs
  ticked,     \* whether a tick run has begun since the time changed, and since the
              \* settings were saved as well
  outdated,   \* zones marked under settings changed since (history: no action reads it)
  faults      \* disturbances so far

vars == <<day, tod, settings, fired, mark, state, queue, run, ticked, outdated, faults>>

IdleRun == [at |-> "idle", settings |-> CHOOSE s \in Configs : TRUE, day |-> 0, tod |-> 0,
            prayer |-> 1, edge |-> "start", left |-> {}, zone |-> None, age |-> 0]

Init ==
  /\ day = 0 /\ tod = 0
  /\ settings \in Configs
  /\ fired = {}
  /\ mark = [z \in Zones |-> NoPrayer]
  /\ state = [z \in Zones |-> "PLAYING"]
  /\ queue = [z \in Zones |-> <<>>]
  /\ run = [r \in Runs |-> IdleRun]
  /\ ticked = "no"
  /\ outdated = {}
  /\ faults = 0

-----------------------------------------------------------------------------
(* A tick run                                                              *)

Opens(s, p)  == s.start[p]
Closes(s, p) == s.start[p] + s.pause[p]

\* Keys of other dates are dropped.
Pruned(dates) == {k \in fired : k[1] \in dates}

\* A tick looks at the prayers: Prayer Mode is on, and a location can be resolved.
Active(s) == s.enabled /\ s.located

\* The configuration and the clock are read; a disabled one, and one without a usable
\* location, ends the run.
TickBegin(r) ==
  /\ run[r].at = "idle"
  /\ ticked' = "since"
  /\ IF Active(settings)
     THEN /\ run' = [run EXCEPT ![r] = [IdleRun EXCEPT !.at = "eval", !.settings = settings,
                                                       !.day = day, !.tod = tod]]
          /\ UNCHANGED fired
     ELSE /\ fired' = Pruned({})
          /\ UNCHANGED run
  /\ UNCHANGED <<day, tod, settings, mark, state, queue, outdated, faults>>

\* The prayer run r is at.
Now(r)    == run[r].prayer
Key(r, e) == <<run[r].day, run[r].prayer, e>>

NextPrayer(q) == [q EXCEPT !.at = "eval", !.prayer = @ + 1, !.left = {}, !.edge = "start"]

\* The day's prayers are gone through in order.
AtPrayer(r) == run[r].at = "eval" /\ Now(r) \in Prayers

Skip(r) ==
  LET s == run[r].settings  p == Now(r)  IN
  /\ AtPrayer(r)
  /\ \/ p \notin s.observed
     \/ run[r].tod < Opens(s, p)
     \/ run[r].tod >= Closes(s, p) /\ Key(r, "end") \in fired
     \/ run[r].tod < Closes(s, p) /\ Key(r, "start") \in fired
  /\ run' = [run EXCEPT ![r] = NextPrayer(@)]
  /\ UNCHANGED <<day, tod, settings, fired, mark, state, queue, ticked, outdated, faults>>

\* Planted defect: the start is not recorded before it is awaited.
EnterWindowUnrecorded(r) ==
  LET s == run[r].settings  p == Now(r)  IN
  /\ AtPrayer(r)
  /\ p \in s.observed
  /\ Opens(s, p) <= run[r].tod /\ run[r].tod < Closes(s, p)
  /\ Key(r, "start") \notin fired
  /\ run' = [run EXCEPT ![r].at = "list", ![r].edge = "start"]
  /\ UNCHANGED <<day, tod, settings, fired, mark, state, queue, ticked, outdated, faults>>

\* Inside the window: the start is recorded as fired before it is awaited.
EnterWindow(r) ==
  LET s == run[r].settings  p == Now(r)  IN
  /\ AtPrayer(r)
  /\ p \in s.observed
  /\ Opens(s, p) <= run[r].tod /\ run[r].tod < Closes(s, p)
  /\ Key(r, "start") \notin fired
  /\ fired' = fired \cup {Key(r, "start")}
  /\ run' = [run EXCEPT ![r].at = "list", ![r].edge = "start"]
  /\ UNCHANGED <<day, tod, settings, mark, state, queue, ticked, outdated, faults>>

\* Planted defect: the end is recorded before it is awaited, like the start.
LeaveWindowRecorded(r) ==
  LET s == run[r].settings  p == Now(r)  IN
  /\ AtPrayer(r)
  /\ p \in s.observed
  /\ Opens(s, p) <= run[r].tod /\ Closes(s, p) <= run[r].tod
  /\ Key(r, "end") \notin fired
  /\ fired' = fired \cup {Key(r, e) : e \in Edges}
  /\ run' = [run EXCEPT ![r].at = IF Key(r, "start") \in fired THEN "list" ELSE "count",
                        ![r].edge = "end"]
  /\ UNCHANGED <<day, tod, settings, mark, state, queue, ticked, outdated, faults>>

\* Past the window: resume, at once if this process fired the start, and otherwise
\* when a count finds zones that still carry the mark.
LeaveWindow(r) ==
  LET s == run[r].settings  p == Now(r)  IN
  /\ AtPrayer(r)
  /\ p \in s.observed
  /\ Opens(s, p) <= run[r].tod /\ Closes(s, p) <= run[r].tod
  /\ Key(r, "end") \notin fired
  /\ run' = [run EXCEPT ![r].at = IF Key(r, "start") \in fired THEN "list" ELSE "count",
                        ![r].edge = "end"]
  /\ UNCHANGED <<day, tod, settings, fired, mark, state, queue, ticked, outdated, faults>>

\* Run r has dealt with the edge of its prayer; an end is recorded only now.
Dealt(r) ==
  /\ fired' = fired \cup (IF run[r].edge = "end" THEN {Key(r, e) : e \in Edges} ELSE {})
  /\ run' = [run EXCEPT ![r] = NextPrayer(@)]

Count(r) ==
  /\ run[r].at = "count"
  /\ IF \E z \in Zones : mark[z] = Now(r)
     THEN run' = [run EXCEPT ![r].at = "list"] /\ UNCHANGED fired
     ELSE Dealt(r)
  /\ UNCHANGED <<day, tod, settings, mark, state, queue, ticked, outdated, faults>>

\* Planted defect: a marked zone that plays again is not looked at.
ListPausedOnly(r) ==
  /\ run[r].at = "list"
  /\ run' = [run EXCEPT ![r].at = "loop",
                        ![r].left = IF run[r].edge = "start"
                                    THEN {z \in settings.zones : state[z] = "PLAYING"}
                                    ELSE {z \in Zones : mark[z] = Now(r) /\ state[z] = "PAUSED"}]
  /\ UNCHANGED <<day, tod, settings, fired, mark, state, queue, ticked, outdated, faults>>

\* findMany: the playing zones that opted in, or the zones the prayer has marked.
List(r) ==
  /\ run[r].at = "list"
  /\ run' = [run EXCEPT ![r].at = "loop",
                        ![r].left = IF run[r].edge = "start"
                                    THEN {z \in settings.zones : state[z] = "PLAYING"}
                                    ELSE {z \in Zones : mark[z] = Now(r)}]
  /\ UNCHANGED <<day, tod, settings, fired, mark, state, queue, ticked, outdated, faults>>

\* One zone of the list: its mark is set, or cleared, ...
MarkZone(r, z) ==
  /\ run[r].at = "loop"
  /\ z \in run[r].left
  /\ mark' = [mark EXCEPT ![z] = IF run[r].edge = "start" THEN Now(r) ELSE NoPrayer]
  /\ run' = [run EXCEPT ![r].at = "issue", ![r].zone = z, ![r].left = @ \ {z}]
  /\ outdated' = IF run[r].edge = "start" /\ run[r].settings # settings
                 THEN outdated \cup {z} ELSE outdated \ {z}
  /\ UNCHANGED <<day, tod, settings, fired, state, queue, ticked, faults>>

\* ... and its command is issued.
Issue(r) ==
  /\ run[r].at = "issue"
  /\ queue' = [queue EXCEPT ![run[r].zone] =
                 Append(@, [kind |-> IF run[r].edge = "start" THEN "PAUSE" ELSE "PLAY",
                            source |-> "SCHEDULE"])]
  /\ run' = [run EXCEPT ![r].at = "loop", ![r].zone = None]
  /\ UNCHANGED <<day, tod, settings, fired, mark, state, ticked, outdated, faults>>

\* The list is done and the activity recorded.
LoopEnds(r) ==
  /\ run[r].at = "loop"
  /\ run[r].left = {}
  /\ Dealt(r)
  /\ UNCHANGED <<day, tod, settings, mark, state, queue, ticked, outdated, faults>>

\* All prayers are done: keys of dates other than the run's are pruned.
TickEnds(r) ==
  /\ run[r].at = "eval"
  /\ Now(r) \notin Prayers
  /\ fired' = Pruned({run[r].day})
  /\ run' = [run EXCEPT ![r] = IdleRun]
  /\ UNCHANGED <<day, tod, settings, mark, state, queue, ticked, outdated, faults>>

Tick(r) ==
  \/ TickBegin(r) \/ Skip(r) \/ EnterWindow(r) \/ LeaveWindow(r) \/ Count(r) \/ List(r)
  \/ (\E z \in Zones : MarkZone(r, z)) \/ Issue(r) \/ LoopEnds(r) \/ TickEnds(r)

-----------------------------------------------------------------------------
(* The venue, the managers and the clock                                   *)

\* A manager presses a button of zone z.
Manage(z, k, s) ==
  /\ Len(queue[z]) < MaxQueue
  /\ queue' = [queue EXCEPT ![z] = Append(@, [kind |-> k, source |-> s])]
  /\ UNCHANGED <<day, tod, settings, fired, mark, state, run, ticked, outdated, faults>>

Effect(k) == CASE k = "PLAY" -> "PLAYING" [] k = "PAUSE" -> "PAUSED" [] k = "STOP" -> "STOPPED"

\* The venue carries out the oldest command of z. A super admin's clears the mark when
\* the effect is applied by applyZoneCommandEffect, and not when the ack reports it.
Deliver(z) ==
  /\ queue[z] # <<>>
  /\ state' = [state EXCEPT ![z] = Effect(Head(queue[z]).kind)]
  /\ \/ UNCHANGED mark
     \/ /\ Head(queue[z]).source = "SUPER_ADMIN"
        /\ mark' = [mark EXCEPT ![z] = NoPrayer]
  /\ queue' = [queue EXCEPT ![z] = Tail(@)]
  /\ UNCHANGED <<day, tod, settings, fired, run, ticked, outdated, faults>>

\* The venue reports a failure.
DeliverFails(z) ==
  /\ queue[z] # <<>>
  /\ queue' = [queue EXCEPT ![z] = Tail(@)]
  /\ UNCHANGED <<day, tod, settings, fired, mark, state, run, ticked, outdated, faults>>

Fault(kind) ==
  /\ kind \in Faults
  /\ faults < MaxFaults
  /\ faults' = faults + 1

\* PUT /prayer/config, or PATCH /zones/:id.
Configure ==
  /\ Fault("settings")
  /\ settings' \in Configs \ {settings}
  /\ ticked' = IF ticked = "no" THEN "no" ELSE "before"
  /\ outdated' = {z \in Zones : mark[z] # NoPrayer}
  /\ UNCHANGED <<day, tod, fired, mark, state, queue, run>>

\* Time passes: the timer fires in every unit of time, unless the process is down.
Advance ==
  /\ \/ ticked # "no" /\ UNCHANGED faults
     \/ ticked = "no" /\ Fault("missed")
  /\ \A r \in Runs : run[r].at # "idle" => run[r].age < MaxLag
  /\ \A z \in Zones : Len(queue[z]) <= MaxQueue
  /\ IF tod + 1 < DayLength
     THEN tod' = tod + 1 /\ UNCHANGED day
     ELSE tod' = 0 /\ day' = (day + 1) % Days
  /\ run' = [r \in Runs |-> IF run[r].at = "idle" THEN run[r] ELSE [run[r] EXCEPT !.age = @ + 1]]
  /\ ticked' = "no"
  /\ UNCHANGED <<settings, fired, mark, state, queue, outdated>>

\* A statement of run r throws: the rest of the run is given up.
TickFails(r) ==
  /\ Fault("fail")
  /\ run[r].at # "idle"
  /\ run' = [run EXCEPT ![r] = IdleRun]
  /\ ticked' = "no"
  /\ UNCHANGED <<day, tod, settings, fired, mark, state, queue, outdated>>

\* The prayer times of the day cannot be had: the run only prunes.
TimingsMissing(r) ==
  /\ Fault("timings")
  /\ run[r].at = "eval" /\ Now(r) = 1
  /\ fired' = Pruned({run[r].day})
  /\ run' = [run EXCEPT ![r] = IdleRun]
  /\ ticked' = "no"
  /\ UNCHANGED <<day, tod, settings, mark, state, queue, outdated>>

\* The backend process restarts.
Restart ==
  /\ Fault("restart")
  /\ fired' = {}
  /\ run' = [r \in Runs |-> IdleRun]
  /\ ticked' = "no"
  /\ UNCHANGED <<day, tod, settings, mark, state, queue, outdated>>

Next ==
  \/ \E r \in Runs : Tick(r) \/ TickFails(r) \/ TimingsMissing(r)
  \/ \E z \in Zones : \/ Deliver(z) \/ DeliverFails(z)
                      \/ \E k \in ManagerKinds, s \in {"USER", "SUPER_ADMIN"} : Manage(z, k, s)
  \/ Configure \/ Advance \/ Restart

Spec == Init /\ [][Next]_vars

\* The timer keeps firing and the runs go on, the venue carries out what it is sent,
\* and time passes however often runs begin in between (the bounds MaxLag and MaxQueue
\* disable Advance again and again, so weak fairness would let the clock stand still). Runs
\* may overlap, but not for ever: each lasts far less than the half minute to the next.
Fairness ==
  /\ WF_vars(\E r \in Runs : TickBegin(r))
  /\ \A r \in Runs : WF_vars(run[r].at # "idle" /\ Tick(r))
  /\ \A z \in Zones : WF_vars(Deliver(z) \/ DeliverFails(z))
  /\ []<>(\A r \in Runs : run[r].at = "idle")
  /\ SF_vars(Advance)

FairSpec == Spec /\ Fairness

-----------------------------------------------------------------------------
(* Properties                                                              *)

CommandRec == [kind : {"PLAY", "PAUSE", "STOP"}, source : {"SCHEDULE", "USER", "SUPER_ADMIN"}]
RunRec == [at : {"idle", "eval", "count", "list", "loop", "issue"}, settings : Configs,
           day : 0 .. Days - 1, tod : 0 .. DayLength - 1, prayer : 1 .. NumPrayers + 1,
           edge : Edges, left : SUBSET Zones, zone : Zones \cup {None}, age : 0 .. MaxLag]

\* Every variable has its type.
TypeOK ==
  /\ day \in 0 .. Days - 1 /\ tod \in 0 .. DayLength - 1
  /\ settings \in Configs
  /\ fired \subseteq Keys
  /\ mark \in [Zones -> Prayers \cup {NoPrayer}]
  /\ state \in [Zones -> Playback]
  /\ queue \in [Zones -> Seq(CommandRec)]
  /\ run \in [Runs -> RunRec]
  /\ ticked \in {"no", "before", "since"}
  /\ faults \in 0 .. MaxFaults

\* Run r is pausing zones for its prayer.
Starting(r) == run[r].at \in {"list", "loop", "issue"} /\ run[r].edge = "start"

\* Two overlapping tick runs never both carry out the start of a prayer.
StartExclusive ==
  \A r, s \in Runs : r # s /\ Starting(r) /\ Starting(s) => Now(r) # Now(s)

\* p's window is open, possibly since yesterday.
Open(p) == \E t \in {tod, tod + DayLength} :
             Opens(settings, p) <= t /\ t < Closes(settings, p)

\* Once a tick run has gone through, a zone is held by a prayer only inside the
\* prayer's window, whatever managers did, and although ticks failed half way, were
\* missed, or ran in a process that has restarted since; unless the settings it was marked
\* under have changed.
HeldOnlyInWindow ==
  ticked = "since" /\ Active(settings) /\ (\A r \in Runs : run[r].at = "idle")
    => \A z \in Zones \ outdated : mark[z] # NoPrayer => Open(mark[z])

\* A zone that a prayer holds is let go in the end, although runs overlap, fail half way, are
\* missed or start in a new process, and managers play over the pause or move the prayer and
\* take the zone out of it; unless Prayer Mode was switched off, lost its location, or leaves
\* that prayer out (firePrayerEnd is for the zones that are marked, whatever they take part in).
HeldIsReleased ==
  \A z \in Zones :
    mark[z] # NoPrayer ~> \/ mark[z] = NoPrayer
                          \/ ~Active(settings) \/ mark[z] \notin settings.observed

-----------------------------------------------------------------------------
(* What a comment says and the code does not keep                          *)

\* prayer-scheduler.ts:11-12: Prayer Mode "pauses participating zones when a prayer starts and
\* resumes them `pauseDurationMinutes` later".
PausedIsResumed == \A z \in Zones : mark[z] # NoPrayer ~> mark[z] = NoPrayer

\* prayer-scheduler.ts:242-243: "a failed tick must never take the process down, and the next
\* one re-evaluates from scratch". Once a run has gone through, no zone that takes part plays
\* inside a prayer's window unless the prayer has dealt with it. A start that fails half way is
\* recorded as fired already, and the runs that follow skip it.
FailedStartIsRetried ==
  ticked = "since" /\ Active(settings) /\ (\A r \in Runs : run[r].at = "idle")
    => \A p \in settings.observed, z \in settings.zones :
         Opens(settings, p) <= tod /\ tod < Closes(settings, p) /\ state[z] = "PLAYING"
           => mark[z] # NoPrayer
=============================================================================
