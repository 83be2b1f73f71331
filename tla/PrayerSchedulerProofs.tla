----------------------- MODULE PrayerSchedulerProofs ------------------------
(***************************************************************************)
(* For any number of zones, runs and prayers and any length of the day:    *)
(* every state is of its types; overlapping tick runs never both carry out *)
(* the start of a prayer, as long as Prayer Mode stays on and a run ends   *)
(* before the time changes; and a zone is held for prayer only on the      *)
(* schedule's account, as long as every pause ends within its day.         *)
(***************************************************************************)
EXTENDS PrayerScheduler, TLAPS

\* The settings and the runs are of their types, and dates are counted modulo Days.
RunsOK ==
  /\ settings \in Configs
  /\ day \in 0 .. Days - 1 /\ tod \in 0 .. DayLength - 1
  /\ run \in [Runs -> RunRec]

\* A prayer that is being started is on record.
StartRecorded == \A r \in Runs : Starting(r) => Key(r, "start") \in fired

\* A run looks at the present day.
RunsCurrent == \A r \in Runs : run[r].at # "idle" => run[r].day = day

\* A run that deals with an edge has a prayer to do it for, and counts at an end only.
AtAPrayer ==
  \A r \in Runs : /\ run[r].at \notin {"idle", "eval"} => run[r].prayer \in Prayers
                  /\ run[r].at = "count" => run[r].edge = "end"

\* The invariant that is inductive.
PInv == RunsOK /\ StartRecorded /\ RunsCurrent /\ AtAPrayer /\ StartExclusive

\* A run that has not begun is of its type.
LEMMA IdleRunType ==
  ASSUME ConstantsOK, settings \in Configs
  PROVE  IdleRun \in RunRec /\ IdleRun.at = "idle"
<1>1. (CHOOSE s \in Configs : TRUE) \in Configs
  OBVIOUS
<1>2. 0 \in 0 .. Days - 1 /\ 0 \in 0 .. DayLength - 1 /\ 1 \in 1 .. NumPrayers + 1 /\ 0 \in 0 .. MaxLag
  BY DEF ConstantsOK
<1> QED
  BY <1>1, <1>2 DEF IdleRun, RunRec, Edges

\* The next prayer of a run that is not past the last.
LEMMA NextPrayerType ==
  ASSUME ConstantsOK, NEW q \in RunRec, q.prayer \in Prayers
  PROVE  NextPrayer(q) \in RunRec /\ NextPrayer(q).at = "eval" /\ NextPrayer(q).day = q.day
<1>1. q.prayer + 1 \in 1 .. NumPrayers + 1
  BY DEF ConstantsOK, Prayers
<1> QED
  BY <1>1 DEF NextPrayer, RunRec, Edges


-----------------------------------------------------------------------------
(* Steps                                                                   *)

\* A step of one run: what it must keep for the invariant to hold after it.
LEMMA RunStep ==
  ASSUME ConstantsOK, PInv, NEW r \in Runs, NEW q \in RunRec,
         run' = [run EXCEPT ![r] = q], UNCHANGED <<settings, day, tod>>,
         \A p : <<day, p, "start">> \in fired => <<day, p, "start">> \in fired',
         q.at = "idle" \/ q.day = day,
         q.at \notin {"idle", "eval"} => q.prayer \in Prayers,
         q.at = "count" => q.edge = "end",
         q.at \in {"list", "loop", "issue"} /\ q.edge = "start" =>
           /\ <<day, q.prayer, "start">> \in fired'
           /\ (Starting(r) /\ q.prayer = run[r].prayer) \/ <<day, q.prayer, "start">> \notin fired
  PROVE  PInv'
<1>1. RunsOK'
  BY DEF PInv, RunsOK
<1>2. run'[r] = q /\ \A s \in Runs : s # r => run'[s] = run[s]
  BY DEF PInv, RunsOK
<1>3. RunsCurrent'
  BY <1>2 DEF PInv, RunsCurrent
<1>4. ASSUME NEW s \in Runs, Starting(s)
      PROVE  run[s].day = day /\ <<day, run[s].prayer, "start">> \in fired
  BY <1>4 DEF PInv, StartRecorded, RunsCurrent, Starting, Key, Now
<1>5. ASSUME NEW s \in Runs, s # r, Starting(s)'
      PROVE  Starting(s) /\ run'[s].prayer = run[s].prayer /\ run'[s].day = day
  BY <1>2, <1>4, <1>5 DEF Starting
<1>6. Starting(r)' => q.at \in {"list", "loop", "issue"} /\ q.edge = "start" /\ q.day = day
  BY <1>2 DEF Starting
<1>7. StartRecorded'
  <2> SUFFICES ASSUME NEW s \in Runs, Starting(s)'
               PROVE  <<run'[s].day, run'[s].prayer, "start">> \in fired'
    BY DEF StartRecorded, Key, Now
  <2>1. CASE s = r
    BY <1>2, <1>6, <2>1
  <2>2. CASE s # r
    BY <1>4, <1>5, <2>2
  <2> QED
    BY <2>1, <2>2
<1>8. ASSUME NEW s \in Runs, s # r, Starting(s)', Starting(r)'
      PROVE  run'[s].prayer # run'[r].prayer
  <2>1. Starting(s) /\ run'[s].prayer = run[s].prayer /\ <<day, run[s].prayer, "start">> \in fired
    BY <1>4, <1>5, <1>8
  <2>2. CASE Starting(r) /\ q.prayer = run[r].prayer
    BY <1>2, <1>8, <2>1, <2>2 DEF PInv, StartExclusive, Now
  <2>3. CASE <<day, q.prayer, "start">> \notin fired
    BY <1>2, <2>1, <2>3
  <2> QED
    BY <1>6, <1>8, <2>2, <2>3
<1>9. StartExclusive'
  <2> SUFFICES ASSUME NEW s \in Runs, NEW t \in Runs, s # t, Starting(s)', Starting(t)'
               PROVE  run'[s].prayer # run'[t].prayer
    BY DEF StartExclusive, Now
  <2>1. CASE s # r /\ t # r
    BY <1>5, <2>1 DEF PInv, StartExclusive, Now
  <2> QED
    BY <1>8, <2>1
<1>10. AtAPrayer'
  BY <1>2 DEF PInv, AtAPrayer
<1> QED
  BY <1>1, <1>3, <1>7, <1>9, <1>10 DEF PInv

\* A step that leaves what the invariant is about.
LEMMA Elsewhere ==
  ASSUME PInv, UNCHANGED <<settings, day, tod, run, fired>>
  PROVE  PInv'
BY DEF PInv, RunsOK, StartRecorded, RunsCurrent, AtAPrayer, StartExclusive, Starting, Key, Now

\* When no run is in progress only types matter.
LEMMA AllIdle ==
  ASSUME RunsOK', \A r \in Runs : run'[r].at = "idle"
  PROVE  PInv'
BY DEF PInv, StartRecorded, RunsCurrent, AtAPrayer, StartExclusive, Starting

\* What is true of a run that is in progress.
LEMMA RunFacts ==
  ASSUME PInv, NEW r \in Runs
  PROVE  /\ run[r] \in RunRec
         /\ run[r].at # "idle" => run[r].day = day
         /\ run[r].at \notin {"idle", "eval"} => run[r].prayer \in Prayers
         /\ run[r].at = "count" => run[r].edge = "end"
         /\ Starting(r) => <<day, run[r].prayer, "start">> \in fired
BY DEF PInv, RunsOK, StartRecorded, RunsCurrent, AtAPrayer, Starting, Key, Now


LEMMA StepSkip ==
  ASSUME ConstantsOK, PInv, NEW r \in Runs, Skip(r)
  PROVE  PInv'
<1> DEFINE q == NextPrayer(run[r])
<1>1. q \in RunRec /\ q.at = "eval" /\ q.day = run[r].day
  BY RunFacts, NextPrayerType DEF Skip, AtPrayer, Now
<1>2. run[r].day = day
  BY RunFacts DEF Skip, AtPrayer
<1>3. run' = [run EXCEPT ![r] = q] /\ UNCHANGED <<settings, day, tod, fired>>
  BY DEF Skip
<1> HIDE DEF q
<1> QED
  BY <1>1, <1>2, <1>3, RunStep

LEMMA StepBegin ==
  ASSUME ConstantsOK, PInv, NEW r \in Runs, Active(settings), TickBegin(r)
  PROVE  PInv'
<1> DEFINE q == [IdleRun EXCEPT !.at = "eval", !.settings = settings, !.day = day, !.tod = tod]
<1>1. settings \in Configs /\ day \in 0 .. Days - 1 /\ tod \in 0 .. DayLength - 1
  BY DEF PInv, RunsOK
<1>2. q \in RunRec /\ q.at = "eval" /\ q.day = day
  BY <1>1, IdleRunType DEF RunRec
<1>3. run' = [run EXCEPT ![r] = q] /\ UNCHANGED <<settings, day, tod, fired>>
  BY DEF TickBegin
<1> HIDE DEF q
<1> QED
  BY <1>2, <1>3, RunStep

LEMMA StepEnterWindow ==
  ASSUME ConstantsOK, PInv, NEW r \in Runs, EnterWindow(r)
  PROVE  PInv'
<1> DEFINE q == [run[r] EXCEPT !.at = "list", !.edge = "start"]
<1>1. run[r] \in RunRec /\ run[r].day = day /\ run[r].prayer \in Prayers
  BY RunFacts DEF EnterWindow, AtPrayer, Now
<1>2. q \in RunRec /\ q.at = "list" /\ q.day = day /\ q.prayer = run[r].prayer
  BY <1>1 DEF RunRec, Edges
<1>3. run' = [run EXCEPT ![r] = q] /\ UNCHANGED <<settings, day, tod>>
  BY DEF EnterWindow
<1>4. fired' = fired \cup {<<day, run[r].prayer, "start">>} /\ <<day, run[r].prayer, "start">> \notin fired
  BY <1>1 DEF EnterWindow, Key, Now
<1> HIDE DEF q
<1> QED
  BY <1>1, <1>2, <1>3, <1>4, RunStep

LEMMA StepLeaveWindow ==
  ASSUME ConstantsOK, PInv, NEW r \in Runs, LeaveWindow(r)
  PROVE  PInv'
<1> DEFINE q == [run[r] EXCEPT !.at = IF Key(r, "start") \in fired THEN "list" ELSE "count",
                               !.edge = "end"]
<1>1. run[r] \in RunRec /\ run[r].day = day /\ run[r].prayer \in Prayers
  BY RunFacts DEF LeaveWindow, AtPrayer, Now
<1>2. q \in RunRec /\ q.edge = "end" /\ q.day = day /\ q.prayer = run[r].prayer
  BY <1>1 DEF RunRec, Edges
<1>3. run' = [run EXCEPT ![r] = q] /\ UNCHANGED <<settings, day, tod, fired>>
  BY DEF LeaveWindow
<1> HIDE DEF q
<1> QED
  BY <1>1, <1>2, <1>3, RunStep

\* Dealing with an edge is a step to the next prayer that forgets no key.
LEMMA StepDealt ==
  ASSUME ConstantsOK, PInv, NEW r \in Runs, run[r].at \notin {"idle", "eval"},
         Dealt(r), UNCHANGED <<settings, day, tod>>
  PROVE  PInv'
<1> DEFINE q == NextPrayer(run[r])
<1>1. q \in RunRec /\ q.at = "eval" /\ q.day = day
  BY RunFacts, NextPrayerType
<1>2. run' = [run EXCEPT ![r] = q] /\ fired \subseteq fired'
  BY DEF Dealt
<1> HIDE DEF q
<1> QED
  BY <1>1, <1>2, RunStep

LEMMA StepCount ==
  ASSUME ConstantsOK, PInv, NEW r \in Runs, Count(r)
  PROVE  PInv'
<1>1. run[r].at = "count" /\ UNCHANGED <<settings, day, tod>>
  BY DEF Count
<1>2. CASE Dealt(r)
  BY <1>1, <1>2, StepDealt
<1>3. CASE ~Dealt(r)
  <2> DEFINE q == [run[r] EXCEPT !.at = "list"]
  <2>1. run[r] \in RunRec /\ run[r].day = day /\ run[r].prayer \in Prayers
    BY <1>1, RunFacts
  <2>2. q \in RunRec /\ q.at = "list" /\ q.edge = run[r].edge /\ q.day = day
                     /\ q.prayer = run[r].prayer
    BY <2>1 DEF RunRec
  <2>3. run' = [run EXCEPT ![r] = q] /\ UNCHANGED fired
    BY <1>3 DEF Count
  <2>4. run[r].edge = "end"
    BY <1>1, RunFacts
  <2> HIDE DEF q
  <2> QED
    BY <1>1, <2>1, <2>2, <2>3, <2>4, RunStep
<1> QED
  BY <1>2, <1>3

LEMMA StepList ==
  ASSUME ConstantsOK, PInv, NEW r \in Runs, List(r)
  PROVE  PInv'
<1> DEFINE found == IF run[r].edge = "start"
                    THEN {z \in settings.zones : state[z] = "PLAYING"}
                    ELSE {z \in Zones : mark[z] = Now(r)}
           q == [run[r] EXCEPT !.at = "loop", !.left = found]
<1>1. run[r] \in RunRec /\ run[r].at = "list" /\ run[r].day = day /\ run[r].prayer \in Prayers
  BY RunFacts DEF List
<1>2. found \subseteq Zones
  BY DEF PInv, RunsOK, ConstantsOK, Settings
<1>3. run' = [run EXCEPT ![r] = q] /\ UNCHANGED <<settings, day, tod, fired>>
  BY DEF List
<1> HIDE DEF found
<1>4. q \in RunRec /\ q.at = "loop" /\ q.edge = run[r].edge /\ q.day = day
                   /\ q.prayer = run[r].prayer
  BY <1>1, <1>2 DEF RunRec
<1>5. q.edge = "start" => Starting(r) /\ <<day, q.prayer, "start">> \in fired'
  BY <1>1, <1>3, <1>4, RunFacts DEF Starting
<1> HIDE DEF q
<1> QED
  BY <1>1, <1>3, <1>4, <1>5, RunStep

LEMMA StepMarkZone ==
  ASSUME ConstantsOK, PInv, NEW r \in Runs, NEW z \in Zones, MarkZone(r, z)
  PROVE  PInv'
<1> DEFINE q == [run[r] EXCEPT !.at = "issue", !.zone = z, !.left = run[r].left \ {z}]
<1>1. run[r] \in RunRec /\ run[r].at = "loop" /\ run[r].day = day /\ run[r].prayer \in Prayers
  BY RunFacts DEF MarkZone
<1>2. q \in RunRec /\ q.at = "issue" /\ q.edge = run[r].edge /\ q.day = day
                   /\ q.prayer = run[r].prayer
  BY <1>1 DEF RunRec
<1>3. run' = [run EXCEPT ![r] = q] /\ UNCHANGED <<settings, day, tod, fired>>
  BY DEF MarkZone
<1>4. q.edge = "start" => Starting(r) /\ <<day, q.prayer, "start">> \in fired'
  BY <1>1, <1>2, <1>3, RunFacts DEF Starting
<1> HIDE DEF q
<1> QED
  BY <1>1, <1>2, <1>3, <1>4, RunStep

LEMMA StepIssue ==
  ASSUME ConstantsOK, PInv, NEW r \in Runs, Issue(r)
  PROVE  PInv'
<1> DEFINE q == [run[r] EXCEPT !.at = "loop", !.zone = None]
<1>1. run[r] \in RunRec /\ run[r].at = "issue" /\ run[r].day = day /\ run[r].prayer \in Prayers
  BY RunFacts DEF Issue
<1>2. q \in RunRec /\ q.at = "loop" /\ q.edge = run[r].edge /\ q.day = day
                   /\ q.prayer = run[r].prayer
  BY <1>1 DEF RunRec
<1>3. run' = [run EXCEPT ![r] = q] /\ UNCHANGED <<settings, day, tod, fired>>
  BY DEF Issue
<1>4. q.edge = "start" => Starting(r) /\ <<day, q.prayer, "start">> \in fired'
  BY <1>1, <1>2, <1>3, RunFacts DEF Starting
<1> HIDE DEF q
<1> QED
  BY <1>1, <1>2, <1>3, <1>4, RunStep

LEMMA StepLoopEnds ==
  ASSUME ConstantsOK, PInv, NEW r \in Runs, LoopEnds(r)
  PROVE  PInv'
BY StepDealt DEF LoopEnds

\* A run that ends, pruning the keys of other dates than its own or nothing.
LEMMA StepEnds ==
  ASSUME ConstantsOK, PInv, NEW r \in Runs, run[r].at # "idle",
         run' = [run EXCEPT ![r] = IdleRun], UNCHANGED <<settings, day, tod>>,
         fired' \in {fired, Pruned({run[r].day})}
  PROVE  PInv'
<1>1. IdleRun \in RunRec /\ IdleRun.at = "idle"
  BY IdleRunType DEF PInv, RunsOK
<1>2. \A p : <<day, p, "start">> \in fired => <<day, p, "start">> \in fired'
  BY RunFacts DEF Pruned
<1> QED
  BY <1>1, <1>2, RunStep

LEMMA StepRestart ==
  ASSUME ConstantsOK, PInv, Restart
  PROVE  PInv'
<1>1. IdleRun \in RunRec /\ IdleRun.at = "idle"
  BY IdleRunType DEF PInv, RunsOK
<1>2. RunsOK'
  BY <1>1 DEF PInv, RunsOK, Restart
<1> QED
  BY <1>1, <1>2, AllIdle DEF Restart

\* Time passes only when no run is in progress.
LEMMA StepAdvance ==
  ASSUME ConstantsOK, MaxLag = 0, PInv, Advance
  PROVE  PInv'
<1>1. ASSUME NEW r \in Runs
      PROVE  run[r].at = "idle" /\ run'[r] = run[r]
  <2>1. run[r].age \in 0 .. MaxLag
    BY <1>1, RunFacts DEF RunRec
  <2> QED
    BY <1>1, <2>1 DEF Advance
<1>2. run' = run
  BY <1>1 DEF Advance, PInv, RunsOK
<1>3. day' \in 0 .. Days - 1 /\ tod' \in 0 .. DayLength - 1
  BY DEF Advance, PInv, RunsOK, ConstantsOK
<1>4. RunsOK'
  BY <1>2, <1>3 DEF Advance, PInv, RunsOK
<1> QED
  BY <1>1, <1>4, AllIdle

-----------------------------------------------------------------------------
(* The theorem                                                             *)

LEMMA PInvInit ==
  ASSUME ConstantsOK, Init
  PROVE  PInv
<1>1. IdleRun \in RunRec /\ IdleRun.at = "idle"
  BY IdleRunType DEF Init
<1> QED
  BY <1>1 DEF Init, PInv, RunsOK, StartRecorded, RunsCurrent, AtAPrayer, StartExclusive,
              Starting, ConstantsOK

LEMMA PInvStep ==
  ASSUME ConstantsOK, MaxLag = 0, \A s \in Configs : Active(s), PInv, [Next]_vars
  PROVE  PInv'
<1>1. ASSUME NEW r \in Runs, Tick(r)
      PROVE  PInv'
  <2>1. Active(settings)
    BY DEF PInv, RunsOK
  <2> QED
    BY <1>1, <2>1, StepBegin, StepSkip, StepEnterWindow, StepLeaveWindow, StepCount, StepList,
       StepMarkZone, StepIssue, StepLoopEnds, StepEnds DEF Tick, TickEnds
<1>2. ASSUME NEW r \in Runs, TickFails(r) \/ TimingsMissing(r)
      PROVE  PInv'
  BY <1>2, StepEnds DEF TickFails, TimingsMissing
<1>3. ASSUME NEW z \in Zones, NEW k, NEW s, Deliver(z) \/ DeliverFails(z) \/ Manage(z, k, s)
      PROVE  PInv'
  BY <1>3, Elsewhere DEF Deliver, DeliverFails, Manage
<1>4. CASE Configure
  <2>1. settings' \in Configs /\ UNCHANGED <<day, tod, run, fired>>
    BY <1>4 DEF Configure
  <2> QED
    BY <2>1 DEF PInv, RunsOK, StartRecorded, RunsCurrent, AtAPrayer, StartExclusive, Starting,
                Key, Now
<1>5. CASE Advance
  BY <1>5, StepAdvance
<1>6. CASE Restart
  BY <1>6, StepRestart
<1>7. CASE UNCHANGED vars
  BY <1>7, Elsewhere DEF vars
<1> QED
  BY <1>1, <1>2, <1>3, <1>4, <1>5, <1>6, <1>7 DEF Next

\* Two overlapping tick runs never both carry out the start of a prayer, whatever
\* fails or restarts, as long as Prayer Mode stays on with a location and a tick run ends in the unit of
\* time it began in (prayer-scheduler.ts:203-205 records the start before it awaits it).
THEOREM StartIsExclusive ==
  ASSUME MaxLag = 0, \A s \in Configs : Active(s)
  PROVE  Spec => []StartExclusive
<1>1. Init => PInv
  BY PInvInit, ConstantsOK
<1>2. PInv /\ [Next]_vars => PInv'
  BY PInvStep, ConstantsOK
<1>3. PInv => StartExclusive
  BY DEF PInv
<1> QED
  BY <1>1, <1>2, <1>3, PTL DEF Spec

-----------------------------------------------------------------------------
(* Types                                                                   *)

\* The types are inductive together with where a run may be.
TInv == TypeOK /\ AtAPrayer

\* A step of one run that keeps to the types.
LEMMA TypedRunStep ==
  ASSUME ConstantsOK, TInv, NEW r \in Runs, NEW q \in RunRec, run' = [run EXCEPT ![r] = q],
         q.at \notin {"idle", "eval"} => q.prayer \in Prayers,
         q.at = "count" => q.edge = "end",
         UNCHANGED <<day, tod, settings, state>>,
         fired' \subseteq Keys, mark' \in [Zones -> Prayers \cup {NoPrayer}],
         queue' \in [Zones -> Seq(CommandRec)],
         ticked' \in {"no", "before", "since"}, faults' \in 0 .. MaxFaults
  PROVE  TInv'
<1>1. run' \in [Runs -> RunRec]
  BY DEF TInv, TypeOK
<1>2. run'[r] = q /\ \A s \in Runs : s # r => run'[s] = run[s]
  BY DEF TInv, TypeOK
<1>3. AtAPrayer'
  BY <1>2 DEF TInv, AtAPrayer
<1>4. TypeOK'
  BY <1>1 DEF TInv, TypeOK
<1> QED
  BY <1>3, <1>4 DEF TInv

\* What is true of the types of a run.
LEMMA TypedRun ==
  ASSUME TInv, NEW r \in Runs
  PROVE  /\ run[r] \in RunRec /\ Now(r) = run[r].prayer
         /\ run[r].at \notin {"idle", "eval"} => run[r].prayer \in Prayers
         /\ run[r].at = "count" => run[r].edge = "end"
BY DEF TInv, TypeOK, AtAPrayer, Now

\* The keys of a run at a prayer.
LEMMA KeyType ==
  ASSUME TInv, NEW r \in Runs, run[r].prayer \in Prayers, NEW e \in Edges
  PROVE  Key(r, e) \in Keys
BY TypedRun DEF Key, Keys, RunRec

LEMMA PrunedType ==
  ASSUME TInv, NEW dates
  PROVE  Pruned(dates) \subseteq fired /\ Pruned(dates) \subseteq Keys
BY DEF TInv, TypeOK, Pruned

\* What is left alone keeps its type.
LEMMA TypedRest ==
  ASSUME TInv
  PROVE  /\ fired \subseteq Keys /\ mark \in [Zones -> Prayers \cup {NoPrayer}]
         /\ queue \in [Zones -> Seq(CommandRec)] /\ settings \in Configs
         /\ day \in 0 .. Days - 1 /\ tod \in 0 .. DayLength - 1
         /\ ticked \in {"no", "before", "since"} /\ faults \in 0 .. MaxFaults
BY DEF TInv, TypeOK

LEMMA TypedBegin ==
  ASSUME ConstantsOK, TInv, NEW r \in Runs, TickBegin(r)
  PROVE  TInv'
<1>1. CASE Active(settings)
  <2> DEFINE q == [IdleRun EXCEPT !.at = "eval", !.settings = settings, !.day = day, !.tod = tod]
  <2>1. q \in RunRec /\ q.at = "eval"
    BY TypedRest, IdleRunType DEF RunRec
  <2>2. run' = [run EXCEPT ![r] = q] /\ ticked' = "since"
        /\ UNCHANGED <<day, tod, settings, state, fired, mark, queue, faults>>
    BY <1>1 DEF TickBegin
  <2> HIDE DEF q
  <2> QED
    BY <2>1, <2>2, TypedRest, TypedRunStep
<1>2. CASE ~Active(settings)
  BY <1>2, PrunedType DEF TickBegin, TInv, TypeOK, AtAPrayer
<1> QED
  BY <1>1, <1>2

LEMMA TypedSkip ==
  ASSUME ConstantsOK, TInv, NEW r \in Runs, Skip(r)
  PROVE  TInv'
<1> DEFINE q == NextPrayer(run[r])
<1>1. q \in RunRec /\ q.at = "eval"
  BY TypedRun, NextPrayerType DEF Skip, AtPrayer
<1>2. run' = [run EXCEPT ![r] = q]
      /\ UNCHANGED <<day, tod, settings, state, fired, mark, queue, ticked, faults>>
  BY DEF Skip
<1> HIDE DEF q
<1> QED
  BY <1>1, <1>2, TypedRest, TypedRunStep

LEMMA TypedEnterWindow ==
  ASSUME ConstantsOK, TInv, NEW r \in Runs, EnterWindow(r)
  PROVE  TInv'
<1> DEFINE q == [run[r] EXCEPT !.at = "list", !.edge = "start"]
<1>1. run[r] \in RunRec /\ run[r].prayer \in Prayers
  BY TypedRun DEF EnterWindow, AtPrayer
<1>2. q \in RunRec /\ q.at = "list" /\ q.prayer = run[r].prayer
  BY <1>1 DEF RunRec, Edges
<1>3. run' = [run EXCEPT ![r] = q] /\ fired' \subseteq Keys
      /\ UNCHANGED <<day, tod, settings, state, mark, queue, ticked, faults>>
  BY <1>1, KeyType, TypedRest DEF EnterWindow, Edges
<1> HIDE DEF q
<1> QED
  BY <1>1, <1>2, <1>3, TypedRest, TypedRunStep

LEMMA TypedLeaveWindow ==
  ASSUME ConstantsOK, TInv, NEW r \in Runs, LeaveWindow(r)
  PROVE  TInv'
<1> DEFINE q == [run[r] EXCEPT !.at = IF Key(r, "start") \in fired THEN "list" ELSE "count",
                               !.edge = "end"]
<1>1. run[r] \in RunRec /\ run[r].prayer \in Prayers
  BY TypedRun DEF LeaveWindow, AtPrayer
<1>2. q \in RunRec /\ q.edge = "end" /\ q.prayer = run[r].prayer
  BY <1>1 DEF RunRec, Edges
<1>3. run' = [run EXCEPT ![r] = q]
      /\ UNCHANGED <<day, tod, settings, state, fired, mark, queue, ticked, faults>>
  BY DEF LeaveWindow
<1> HIDE DEF q
<1> QED
  BY <1>1, <1>2, <1>3, TypedRest, TypedRunStep

LEMMA TypedDealt ==
  ASSUME ConstantsOK, TInv, NEW r \in Runs, run[r].at \notin {"idle", "eval"}, Dealt(r),
         UNCHANGED <<day, tod, settings, state, mark, queue, ticked, faults>>
  PROVE  TInv'
<1> DEFINE q == NextPrayer(run[r])
<1>1. run[r].prayer \in Prayers
  BY TypedRun
<1>2. q \in RunRec /\ q.at = "eval"
  BY <1>1, TypedRun, NextPrayerType
<1>3. run' = [run EXCEPT ![r] = q] /\ fired' \subseteq Keys
  BY <1>1, KeyType, TypedRest DEF Dealt
<1> HIDE DEF q
<1> QED
  BY <1>2, <1>3, TypedRest, TypedRunStep

LEMMA TypedCount ==
  ASSUME ConstantsOK, TInv, NEW r \in Runs, Count(r)
  PROVE  TInv'
<1>1. run[r].at = "count" /\ UNCHANGED <<day, tod, settings, state, mark, queue, ticked, faults>>
  BY DEF Count
<1>2. CASE Dealt(r)
  BY <1>1, <1>2, TypedDealt
<1>3. CASE ~Dealt(r)
  <2> DEFINE q == [run[r] EXCEPT !.at = "list"]
  <2>1. run[r] \in RunRec /\ run[r].prayer \in Prayers
    BY <1>1, TypedRun
  <2>2. q \in RunRec /\ q.at = "list" /\ q.prayer = run[r].prayer
    BY <2>1 DEF RunRec
  <2>3. run' = [run EXCEPT ![r] = q] /\ UNCHANGED fired
    BY <1>3 DEF Count
  <2> HIDE DEF q
  <2> QED
    BY <1>1, <2>1, <2>2, <2>3, TypedRest, TypedRunStep
<1> QED
  BY <1>2, <1>3

LEMMA TypedList ==
  ASSUME ConstantsOK, TInv, NEW r \in Runs, List(r)
  PROVE  TInv'
<1> DEFINE found == IF run[r].edge = "start"
                    THEN {z \in settings.zones : state[z] = "PLAYING"}
                    ELSE {z \in Zones : mark[z] = Now(r)}
           q == [run[r] EXCEPT !.at = "loop", !.left = found]
<1>1. run[r] \in RunRec /\ run[r].prayer \in Prayers
  BY TypedRun DEF List
<1>2. found \subseteq Zones
  BY TypedRest DEF ConstantsOK, Settings
<1>3. run' = [run EXCEPT ![r] = q]
      /\ UNCHANGED <<day, tod, settings, state, fired, mark, queue, ticked, faults>>
  BY DEF List
<1> HIDE DEF found
<1>4. q \in RunRec /\ q.at = "loop" /\ q.prayer = run[r].prayer
  BY <1>1, <1>2 DEF RunRec
<1> HIDE DEF q
<1> QED
  BY <1>1, <1>3, <1>4, TypedRest, TypedRunStep

LEMMA TypedMarkZone ==
  ASSUME ConstantsOK, TInv, NEW r \in Runs, NEW z \in Zones, MarkZone(r, z)
  PROVE  TInv'
<1> DEFINE q == [run[r] EXCEPT !.at = "issue", !.zone = z, !.left = run[r].left \ {z}]
           m == IF run[r].edge = "start" THEN Now(r) ELSE NoPrayer
<1>1. run[r] \in RunRec /\ run[r].prayer \in Prayers
  BY TypedRun DEF MarkZone
<1>2. q \in RunRec /\ q.at = "issue" /\ q.prayer = run[r].prayer
  BY <1>1 DEF RunRec
<1>3. m \in Prayers \cup {NoPrayer}
  BY <1>1, TypedRun
<1>4. run' = [run EXCEPT ![r] = q] /\ mark' = [mark EXCEPT ![z] = m]
      /\ UNCHANGED <<day, tod, settings, state, fired, queue, ticked, faults>>
  BY DEF MarkZone
<1> HIDE DEF q, m
<1>5. mark' \in [Zones -> Prayers \cup {NoPrayer}]
  BY <1>3, <1>4, TypedRest
<1> QED
  BY <1>1, <1>2, <1>4, <1>5, TypedRest, TypedRunStep

LEMMA TypedIssue ==
  ASSUME ConstantsOK, TInv, NEW r \in Runs, Issue(r)
  PROVE  TInv'
<1> DEFINE q == [run[r] EXCEPT !.at = "loop", !.zone = None]
           c == [kind |-> IF run[r].edge = "start" THEN "PAUSE" ELSE "PLAY", source |-> "SCHEDULE"]
<1>1. run[r] \in RunRec /\ run[r].prayer \in Prayers
  BY TypedRun DEF Issue
<1>2. q \in RunRec /\ q.at = "loop" /\ q.prayer = run[r].prayer
  BY <1>1 DEF RunRec
<1>3. c \in CommandRec
  BY DEF CommandRec
<1>4. run' = [run EXCEPT ![r] = q]
      /\ queue' = [queue EXCEPT ![run[r].zone] = Append(queue[run[r].zone], c)]
      /\ UNCHANGED <<day, tod, settings, state, fired, mark, ticked, faults>>
  BY DEF Issue
<1> HIDE DEF q, c
<1>5. queue' \in [Zones -> Seq(CommandRec)]
  <2>1. \A y \in Zones : Append(queue[y], c) \in Seq(CommandRec)
    BY <1>3, TypedRest
  <2>2. \A y \in Zones : queue'[y] = IF y = run[r].zone THEN Append(queue[y], c) ELSE queue[y]
    BY <1>4, TypedRest
  <2>3. queue' \in [Zones -> Seq(CommandRec)] <=> \A y \in Zones : queue'[y] \in Seq(CommandRec)
    BY <1>4, TypedRest
  <2> QED
    BY <2>1, <2>2, <2>3, TypedRest
<1> QED
  BY <1>1, <1>2, <1>4, <1>5, TypedRest, TypedRunStep

\* A run that ends, however it does.
LEMMA TypedEnds ==
  ASSUME ConstantsOK, TInv, NEW r \in Runs, run' = [run EXCEPT ![r] = IdleRun],
         UNCHANGED <<day, tod, settings, state, mark, queue>>, fired' \subseteq Keys,
         ticked' \in {"no", "before", "since"}, faults' \in 0 .. MaxFaults
  PROVE  TInv'
<1>1. IdleRun \in RunRec /\ IdleRun.at = "idle"
  BY IdleRunType, TypedRest
<1> QED
  BY <1>1, TypedRest, TypedRunStep

LEMMA TypedTick ==
  ASSUME ConstantsOK, TInv, NEW r \in Runs, Tick(r)
  PROVE  TInv'
<1>1. CASE LoopEnds(r)
  BY <1>1, TypedDealt DEF LoopEnds
<1>2. CASE TickEnds(r)
  BY <1>2, TypedEnds, TypedRest, PrunedType DEF TickEnds
<1> QED
  BY <1>1, <1>2, TypedBegin, TypedSkip, TypedEnterWindow, TypedLeaveWindow, TypedCount, TypedList,
     TypedMarkZone, TypedIssue DEF Tick

\* The disturbances are counted.
LEMMA FaultType ==
  ASSUME ConstantsOK, TInv, NEW kind, Fault(kind)
  PROVE  faults' = faults + 1 /\ faults' \in 0 .. MaxFaults
BY TypedRest DEF Fault, ConstantsOK

LEMMA TypedVenue ==
  ASSUME ConstantsOK, TInv, NEW z \in Zones,
         \/ Deliver(z) \/ DeliverFails(z)
         \/ \E k \in ManagerKinds, s \in {"USER", "SUPER_ADMIN"} : Manage(z, k, s)
  PROVE  TInv'
<1>1. queue[z] \in Seq(CommandRec)
  BY TypedRest
<1>2. CASE Deliver(z)
  <2>1. Head(queue[z]) \in CommandRec /\ Tail(queue[z]) \in Seq(CommandRec)
    BY <1>1, <1>2 DEF Deliver
  <2>2. Effect(Head(queue[z]).kind) \in Playback
    BY <2>1 DEF Effect, CommandRec, Playback
  <2>3. state' \in [Zones -> Playback] /\ queue' \in [Zones -> Seq(CommandRec)]
    BY <1>2, <2>1, <2>2 DEF Deliver, TInv, TypeOK
  <2>4. mark' \in [Zones -> Prayers \cup {NoPrayer}]
    BY <1>2, TypedRest DEF Deliver
  <2> QED
    BY <1>2, <2>3, <2>4 DEF Deliver, TInv, TypeOK, AtAPrayer
<1>3. CASE DeliverFails(z)
  <2>1. Tail(queue[z]) \in Seq(CommandRec)
    BY <1>1, <1>3 DEF DeliverFails
  <2>2. queue' \in [Zones -> Seq(CommandRec)]
    BY <1>3, <2>1, TypedRest DEF DeliverFails
  <2> QED
    BY <1>3, <2>2 DEF DeliverFails, TInv, TypeOK, AtAPrayer
<1>4. ASSUME NEW k \in ManagerKinds, NEW s \in {"USER", "SUPER_ADMIN"}, Manage(z, k, s)
      PROVE  TInv'
  <2>1. [kind |-> k, source |-> s] \in CommandRec
    BY <1>4 DEF CommandRec, ConstantsOK
  <2>2. Append(queue[z], [kind |-> k, source |-> s]) \in Seq(CommandRec)
    BY <1>1, <2>1
  <2>3. queue' \in [Zones -> Seq(CommandRec)]
    BY <1>4, <2>2, TypedRest DEF Manage
  <2> QED
    BY <1>4, <2>3 DEF Manage, TInv, TypeOK, AtAPrayer
<1> QED
  BY <1>2, <1>3, <1>4

LEMMA TypedAdvance ==
  ASSUME ConstantsOK, TInv, Advance
  PROVE  TInv'
<1>1. day' \in 0 .. Days - 1 /\ tod' \in 0 .. DayLength - 1
  BY TypedRest DEF Advance, ConstantsOK
<1>2. ASSUME NEW r \in Runs
      PROVE  /\ run'[r] \in RunRec /\ run'[r].at = run[r].at
             /\ run'[r].prayer = run[r].prayer /\ run'[r].edge = run[r].edge
  <2>1. CASE run[r].at = "idle"
    BY <2>1, TypedRun DEF Advance
  <2>2. CASE run[r].at # "idle"
    <3> DEFINE q == [run[r] EXCEPT !.age = run[r].age + 1]
    <3>1. run'[r] = q /\ run[r].age < MaxLag
      BY <2>2 DEF Advance
    <3>2. run[r].age + 1 \in 0 .. MaxLag
      BY <3>1, TypedRun DEF RunRec, ConstantsOK
    <3>3. q \in RunRec /\ q.at = run[r].at /\ q.prayer = run[r].prayer /\ q.edge = run[r].edge
      BY <3>2, TypedRun DEF RunRec
    <3> QED
      BY <3>1, <3>3
  <2> QED
    BY <2>1, <2>2
<1>3. run' \in [Runs -> RunRec]
  BY <1>2 DEF Advance
<1>4. AtAPrayer'
  BY <1>2 DEF TInv, AtAPrayer
<1>5. faults' \in 0 .. MaxFaults
  BY FaultType, TypedRest DEF Advance
<1> QED
  BY <1>1, <1>3, <1>4, <1>5 DEF Advance, TInv, TypeOK

LEMMA TypedInit ==
  ASSUME ConstantsOK, Init
  PROVE  TInv
<1>1. IdleRun \in RunRec /\ IdleRun.at = "idle"
  BY IdleRunType DEF Init
<1> QED
  BY <1>1 DEF Init, TInv, TypeOK, AtAPrayer, ConstantsOK, Playback

LEMMA TypedNext ==
  ASSUME ConstantsOK, TInv, [Next]_vars
  PROVE  TInv'
<1>1. ASSUME NEW r \in Runs, TickFails(r)
      PROVE  TInv'
  BY <1>1, TypedEnds, TypedRest, FaultType DEF TickFails
<1>2. ASSUME NEW r \in Runs, TimingsMissing(r)
      PROVE  TInv'
  BY <1>2, TypedEnds, TypedRest, FaultType, PrunedType DEF TimingsMissing
<1>3. CASE Configure
  <2>1. faults' \in 0 .. MaxFaults
    BY <1>3, FaultType DEF Configure
  <2> QED
    BY <1>3, <2>1 DEF Configure, TInv, TypeOK, AtAPrayer
<1>4. CASE Restart
  <2>1. IdleRun \in RunRec /\ IdleRun.at = "idle"
    BY IdleRunType, TypedRest
  <2>2. faults' \in 0 .. MaxFaults
    BY <1>4, FaultType DEF Restart
  <2> QED
    BY <1>4, <2>1, <2>2 DEF Restart, TInv, TypeOK, AtAPrayer
<1>5. CASE UNCHANGED vars
  BY <1>5 DEF vars, TInv, TypeOK, AtAPrayer
<1> QED
  BY <1>1, <1>2, <1>3, <1>4, <1>5, TypedTick, TypedVenue, TypedAdvance DEF Next

\* Every variable keeps its type: a run stays at one of the day's prayers or past the last, and
\* keys are of dates and prayers that there are, for any sizes and any settings.
THEOREM PrayerTypeCorrect == Spec => []TypeOK
<1>1. Init => TInv
  BY TypedInit, ConstantsOK
<1>2. TInv /\ [Next]_vars => TInv'
  BY TypedNext, ConstantsOK
<1>3. TInv => TypeOK
  BY DEF TInv
<1> QED
  BY <1>1, <1>2, <1>3, PTL DEF Spec

-----------------------------------------------------------------------------
(* Held only in the window                                                 *)

\* The conditions: a run ends within the unit of time it began in, nobody changes the settings,
\* and every pause ends on the day it begins, by more than the units of time that may be missed.
PausesWithinTheDay ==
  /\ MaxLag = 0 /\ "settings" \notin Faults
  /\ Days > 1 /\ MaxFaults < DayLength
  /\ \A s \in Configs, p \in Prayers : Closes(s, p) + MaxFaults < DayLength

\* A run in progress has the present time and settings.
RunsPresent ==
  \A r \in Runs : run[r].at # "idle" =>
    run[r].day = day /\ run[r].tod = tod /\ run[r].settings = settings

Inside(p) == p \in settings.observed /\ Opens(settings, p) <= tod /\ tod < Closes(settings, p)

Over(p) == Closes(settings, p) <= tod

\* Starts are made inside the window, and ends when it is over.
EdgesInTime ==
  \A r \in Runs :
    /\ Starting(r) => Inside(Now(r))
    /\ run[r].at \notin {"idle", "eval"} /\ run[r].edge = "end" => Over(Now(r))

\* A mark is of a prayer that began today, and it outlives the window only by the units of time
\* that were missed.
HeldSinceStart ==
  \A z \in Zones : mark[z] # NoPrayer =>
    /\ mark[z] \in settings.observed /\ Opens(settings, mark[z]) <= tod
    /\ tod <= Closes(settings, mark[z]) + faults

\* A run of state q has yet to come to the mark of zone z.
YetToReach(q, z) ==
  /\ q.at # "idle"
  /\ \/ q.prayer < mark[z]
     \/ q.prayer = mark[z] /\ q.at = "eval"
     \/ q.prayer = mark[z] /\ q.edge = "end" /\ (q.at \in {"count", "list"} \/ z \in q.left)

\* When a run has begun in this unit of time, one will release each zone held for too long.
OverdueIsReached ==
  ticked = "since" => \A z \in Zones : mark[z] # NoPrayer /\ Over(mark[z]) =>
                        \E r \in Runs : YetToReach(run[r], z)

\* An end on record has left no mark, and its window is over.
EndsHeldNothing == \A z \in Zones : <<day, mark[z], "end">> \notin fired
EndsInTime == \A p \in Prayers : <<day, p, "end">> \in fired => Over(p)

\* A run that releases zones has listed every zone that is held.
ListIsWhole ==
  \A r \in Runs : run[r].at \in {"loop", "issue"} /\ run[r].edge = "end" =>
    \A z \in Zones : mark[z] = Now(r) => z \in run[r].left

\* Keys of yesterday are kept only while no run has come through.
KeysRecent ==
  /\ \A k \in fired : k[1] = day \/ ((k[1] + 1) % Days = day /\ tod <= faults)
  /\ ticked = "since" => \/ \E r \in Runs : run[r].at # "idle"
                         \/ \A k \in fired : k[1] = day

\* The invariant that is inductive while Prayer Mode is on.
HInv ==
  /\ RunsPresent /\ EdgesInTime /\ HeldSinceStart /\ OverdueIsReached /\ EndsHeldNothing
  /\ EndsInTime /\ ListIsWhole /\ KeysRecent /\ ticked # "before"

\* Times of the day are integers.
LEMMA WindowInt ==
  ASSUME ConstantsOK, TInv, NEW p \in Prayers
  PROVE  /\ Opens(settings, p) \in Int /\ Closes(settings, p) \in Int
         /\ tod \in Int /\ faults \in Int /\ p \in Int /\ p # NoPrayer
<1>1. settings \in Settings
  BY TypedRest DEF ConstantsOK
<1>2. settings.start[p] \in Int /\ settings.pause[p] \in Int
  BY <1>1 DEF Settings
<1>3. NumPrayers \in Nat /\ DayLength \in Nat /\ MaxFaults \in Nat
  BY DEF ConstantsOK
<1> QED
  BY <1>2, <1>3, TypedRest DEF Opens, Closes, Prayers, NoPrayer

\* A step of a run that leaves the marks alone.
LEMMA HeldRunStep ==
  ASSUME ConstantsOK, TInv, HInv, NEW r \in Runs, NEW q \in RunRec, run[r].at # "idle",
         run' = [run EXCEPT ![r] = q], UNCHANGED <<day, tod, settings, mark, ticked, faults>>,
         q.at = "idle" \/ (q.day = day /\ q.tod = tod /\ q.settings = settings),
         q.at \in {"list", "loop", "issue"} /\ q.edge = "start" => Inside(q.prayer),
         q.at \notin {"idle", "eval"} /\ q.edge = "end" => Over(q.prayer),
         \A z \in Zones : mark[z] # NoPrayer /\ Over(mark[z]) /\ YetToReach(run[r], z)
                            => YetToReach(q, z),
         q.at \in {"loop", "issue"} /\ q.edge = "end" =>
           \A z \in Zones : mark[z] = q.prayer => z \in q.left,
         \A p \in Prayers \cup {NoPrayer} : <<day, p, "end">> \in fired' =>
           <<day, p, "end">> \in fired \/ (Over(p) /\ \A z \in Zones : mark[z] # p),
         \A k \in fired' : k \in fired \/ k[1] = day,
         q.at = "idle" => \A k \in fired' : k[1] = day
  PROVE  HInv'
<1>1. run'[r] = q /\ \A s \in Runs : s # r => run'[s] = run[s]
  BY DEF TInv, TypeOK
<1>2. Inside(q.prayer)' = Inside(q.prayer) /\ \A p : Over(p)' = Over(p)
  BY DEF Inside, Over, Opens, Closes
<1>3. RunsPresent'
  BY <1>1 DEF HInv, RunsPresent
<1>4. EdgesInTime'
  BY <1>1 DEF HInv, EdgesInTime, Starting, Now, Inside, Over, Opens, Closes
<1>5. HeldSinceStart'
  BY DEF HInv, HeldSinceStart, Opens, Closes
<1>6. OverdueIsReached'
  <2> SUFFICES ASSUME ticked = "since", NEW z \in Zones, mark[z] # NoPrayer, Over(mark[z])
               PROVE  \E s \in Runs : YetToReach(run[s], z)'
    BY <1>2 DEF OverdueIsReached
  <2>1. PICK s \in Runs : YetToReach(run[s], z)
    BY DEF HInv, OverdueIsReached
  <2>2. CASE s = r
    BY <1>1, <2>1, <2>2 DEF YetToReach
  <2>3. CASE s # r
    BY <1>1, <2>1, <2>3 DEF YetToReach
  <2> QED
    BY <2>2, <2>3
<1>7. EndsHeldNothing'
  <2> SUFFICES ASSUME NEW z \in Zones, <<day, mark[z], "end">> \in fired'
               PROVE  FALSE
    BY DEF EndsHeldNothing
  <2>1. mark[z] \in Prayers \cup {NoPrayer}
    BY TypedRest
  <2> QED
    BY <2>1 DEF HInv, EndsHeldNothing
<1>8. EndsInTime'
  BY <1>2 DEF HInv, EndsInTime
<1>9. ListIsWhole'
  BY <1>1 DEF HInv, ListIsWhole, Now
<1>10. KeysRecent'
  <2>1. \A k \in fired' : k[1] = day \/ ((k[1] + 1) % Days = day /\ tod <= faults)
    BY DEF HInv, KeysRecent
  <2>2. ticked = "since" => \/ \E s \in Runs : run'[s].at # "idle"
                            \/ \A k \in fired' : k[1] = day
    BY <1>1
  <2> QED
    BY <2>1, <2>2 DEF KeysRecent
<1> QED
  BY <1>3, <1>4, <1>5, <1>6, <1>7, <1>8, <1>9, <1>10 DEF HInv

\* What is true of a run in progress.
LEMMA HeldRun ==
  ASSUME TInv, HInv, NEW r \in Runs, run[r].at # "idle"
  PROVE  /\ run[r] \in RunRec /\ Now(r) = run[r].prayer
         /\ run[r].day = day /\ run[r].tod = tod /\ run[r].settings = settings
         /\ \A e : Key(r, e) = <<day, run[r].prayer, e>>
         /\ Starting(r) => Inside(Now(r))
         /\ run[r].at \notin {"idle", "eval"} /\ run[r].edge = "end" => Over(Now(r))
BY TypedRun DEF HInv, RunsPresent, EdgesInTime, Key, Now

LEMMA HeldSkip ==
  ASSUME ConstantsOK, TInv, HInv, NEW r \in Runs, Skip(r)
  PROVE  HInv'
<1> DEFINE q == NextPrayer(run[r])
           p == run[r].prayer
<1>1. /\ run[r].at = "eval" /\ p \in Prayers /\ run[r] \in RunRec
      /\ run[r].day = day /\ run[r].tod = tod /\ run[r].settings = settings
      /\ \A e : Key(r, e) = <<day, p, e>>
  BY HeldRun DEF Skip, AtPrayer, Now
<1>2. q \in RunRec /\ q.at = "eval" /\ q.day = day
  BY <1>1, NextPrayerType
<1>3. q.prayer = p + 1 /\ q.tod = tod /\ q.settings = settings
  BY <1>1 DEF NextPrayer, RunRec
<1>4. ASSUME NEW z \in Zones, mark[z] = p, Over(p)
      PROVE  FALSE
  <2>1. mark[z] # NoPrayer
    BY <1>1, <1>4, WindowInt
  <2>2. p \in settings.observed /\ Opens(settings, p) <= tod
    BY <1>4, <2>1 DEF HInv, HeldSinceStart
  <2>3. tod >= Closes(settings, p)
    BY <1>1, <1>4, WindowInt DEF Over
  <2>4. Key(r, "end") \in fired
    BY <1>1, <2>2, <2>3, WindowInt DEF Skip, Now
  <2> QED
    BY <1>1, <1>4, <2>4 DEF HInv, EndsHeldNothing
<1>5. ASSUME NEW z \in Zones, mark[z] # NoPrayer, Over(mark[z]), YetToReach(run[r], z)
      PROVE  YetToReach(q, z)
  <2>1. mark[z] \in Prayers
    BY <1>5, TypedRest
  <2>2. p < mark[z]
    BY <1>4, <1>5 DEF YetToReach
  <2>3. p + 1 < mark[z] \/ p + 1 = mark[z]
    BY <1>1, <2>1, <2>2 DEF Prayers
  <2> QED
    BY <1>2, <1>3, <2>3 DEF YetToReach
<1>6. run' = [run EXCEPT ![r] = q]
      /\ UNCHANGED <<day, tod, settings, mark, ticked, faults, fired>>
  BY DEF Skip
<1> HIDE DEF q, p
<1> QED
  BY <1>1, <1>2, <1>3, <1>5, <1>6, HeldRunStep

LEMMA HeldEnterWindow ==
  ASSUME ConstantsOK, TInv, HInv, NEW r \in Runs, EnterWindow(r)
  PROVE  HInv'
<1> DEFINE q == [run[r] EXCEPT !.at = "list", !.edge = "start"]
           p == run[r].prayer
<1>1. /\ run[r].at = "eval" /\ p \in Prayers /\ run[r] \in RunRec
      /\ run[r].day = day /\ run[r].tod = tod /\ run[r].settings = settings
      /\ \A e : Key(r, e) = <<day, p, e>>
  BY HeldRun DEF EnterWindow, AtPrayer, Now
<1>2. /\ q \in RunRec /\ q.at = "list" /\ q.edge = "start" /\ q.prayer = p
      /\ q.day = day /\ q.tod = tod /\ q.settings = settings
  BY <1>1 DEF RunRec, Edges
<1>3. Inside(p) /\ ~ Over(p)
  BY <1>1, WindowInt DEF EnterWindow, Inside, Over, Now
<1>4. \A z \in Zones : mark[z] # NoPrayer /\ Over(mark[z]) /\ YetToReach(run[r], z)
                         => YetToReach(q, z)
  BY <1>1, <1>2, <1>3 DEF YetToReach
<1>5. /\ run' = [run EXCEPT ![r] = q] /\ fired' = fired \cup {<<day, p, "start">>}
      /\ UNCHANGED <<day, tod, settings, mark, ticked, faults>>
  BY <1>1 DEF EnterWindow
<1>6. /\ \A k \in fired' : k \in fired \/ k[1] = day
      /\ \A x : <<day, x, "end">> \in fired' => <<day, x, "end">> \in fired
  BY <1>5
<1> HIDE DEF q, p
<1> QED
  BY <1>1, <1>2, <1>3, <1>4, <1>5, <1>6, HeldRunStep

LEMMA HeldLeaveWindow ==
  ASSUME ConstantsOK, TInv, HInv, NEW r \in Runs, LeaveWindow(r)
  PROVE  HInv'
<1> DEFINE at == IF Key(r, "start") \in fired THEN "list" ELSE "count"
           q  == [run[r] EXCEPT !.at = at, !.edge = "end"]
           p  == run[r].prayer
<1>1. /\ run[r].at = "eval" /\ p \in Prayers /\ run[r] \in RunRec
      /\ run[r].day = day /\ run[r].tod = tod /\ run[r].settings = settings
  BY HeldRun DEF LeaveWindow, AtPrayer, Now
<1>2. /\ q \in RunRec /\ q.at \in {"list", "count"} /\ q.edge = "end" /\ q.prayer = p
      /\ q.day = day /\ q.tod = tod /\ q.settings = settings
  BY <1>1 DEF RunRec, Edges
<1>3. Over(p)
  BY <1>1 DEF LeaveWindow, Over, Now
<1>4. \A z \in Zones : YetToReach(run[r], z) => YetToReach(q, z)
  BY <1>1, <1>2 DEF YetToReach
<1>5. /\ run' = [run EXCEPT ![r] = q]
      /\ UNCHANGED <<day, tod, settings, mark, ticked, faults, fired>>
  BY DEF LeaveWindow
<1> HIDE DEF q, p
<1> QED
  BY <1>1, <1>2, <1>3, <1>4, <1>5, HeldRunStep

\* A run is done with the edge of its prayer only when no zone is left.
LEMMA HeldDealt ==
  ASSUME ConstantsOK, TInv, HInv, NEW r \in Runs, run[r].at \in {"count", "loop"}, Dealt(r),
         run[r].edge = "end" => \A z \in Zones : mark[z] # run[r].prayer,
         UNCHANGED <<day, tod, settings, mark, ticked, faults>>
  PROVE  HInv'
<1> DEFINE q == NextPrayer(run[r])
           p == run[r].prayer
<1>1. /\ p \in Prayers /\ run[r] \in RunRec
      /\ run[r].day = day /\ run[r].tod = tod /\ run[r].settings = settings
      /\ \A e : Key(r, e) = <<day, p, e>>
      /\ run[r].edge = "end" => Over(p)
  BY HeldRun, TypedRun
<1>2. q \in RunRec /\ q.at = "eval" /\ q.day = day
  BY <1>1, NextPrayerType
<1>3. q.prayer = p + 1 /\ q.tod = tod /\ q.settings = settings
  BY <1>1 DEF NextPrayer, RunRec
<1>4. ASSUME NEW z \in Zones, mark[z] # NoPrayer, Over(mark[z]), YetToReach(run[r], z)
      PROVE  YetToReach(q, z)
  <2>1. mark[z] \in Prayers
    BY <1>4, TypedRest
  <2>2. p < mark[z]
    BY <1>4 DEF YetToReach
  <2>3. p + 1 < mark[z] \/ p + 1 = mark[z]
    BY <1>1, <2>1, <2>2 DEF Prayers
  <2> QED
    BY <1>2, <1>3, <2>3 DEF YetToReach
<1>5. \A k \in fired' : k \in fired \/ (run[r].edge = "end" /\ \E e \in Edges : k = <<day, p, e>>)
  BY <1>1 DEF Dealt
<1>6. run' = [run EXCEPT ![r] = q]
  BY DEF Dealt
<1>7. \A x : <<day, x, "end">> \in fired' =>
         <<day, x, "end">> \in fired \/ (Over(x) /\ \A z \in Zones : mark[z] # x)
  BY <1>1, <1>5
<1>8. \A k \in fired' : k \in fired \/ k[1] = day
  BY <1>5
<1> HIDE DEF q, p
<1> QED
  BY <1>1, <1>2, <1>3, <1>4, <1>6, <1>7, <1>8, HeldRunStep

LEMMA HeldCount ==
  ASSUME ConstantsOK, TInv, HInv, NEW r \in Runs, Count(r)
  PROVE  HInv'
<1>1. CASE \E z \in Zones : mark[z] = Now(r)
  <2> DEFINE q == [run[r] EXCEPT !.at = "list"]
             p == run[r].prayer
  <2>1. /\ run[r].at = "count" /\ run[r].edge = "end" /\ p \in Prayers /\ run[r] \in RunRec
        /\ run[r].day = day /\ run[r].tod = tod /\ run[r].settings = settings
        /\ Over(p)
    BY HeldRun, TypedRun DEF Count
  <2>2. /\ q \in RunRec /\ q.at = "list" /\ q.edge = "end" /\ q.prayer = p
        /\ q.day = day /\ q.tod = tod /\ q.settings = settings
    BY <2>1 DEF RunRec
  <2>3. \A z \in Zones : YetToReach(run[r], z) => YetToReach(q, z)
    BY <2>1, <2>2 DEF YetToReach
  <2>4. /\ run' = [run EXCEPT ![r] = q]
        /\ UNCHANGED <<day, tod, settings, mark, ticked, faults, fired>>
    BY <1>1 DEF Count
  <2> HIDE DEF q, p
  <2> QED
    BY <2>1, <2>2, <2>3, <2>4, HeldRunStep
<1>2. CASE ~ \E z \in Zones : mark[z] = Now(r)
  BY <1>2, HeldDealt DEF Count, Now
<1> QED
  BY <1>1, <1>2

LEMMA HeldList ==
  ASSUME ConstantsOK, TInv, HInv, NEW r \in Runs, List(r)
  PROVE  HInv'
<1> DEFINE found == IF run[r].edge = "start" THEN {z \in settings.zones : state[z] = "PLAYING"}
                    ELSE {z \in Zones : mark[z] = Now(r)}
           q == [run[r] EXCEPT !.at = "loop", !.left = found]
           p == run[r].prayer
<1>1. /\ run[r].at = "list" /\ p \in Prayers /\ run[r] \in RunRec
      /\ run[r].day = day /\ run[r].tod = tod /\ run[r].settings = settings
      /\ run[r].edge = "start" => Inside(p)
      /\ run[r].edge = "end" => Over(p)
  BY HeldRun, TypedRun DEF List, Starting
<1>2. found \subseteq Zones
  BY TypedRest DEF ConstantsOK, Settings
<1>3. run[r].edge = "end" => found = {z \in Zones : mark[z] = p}
  BY DEF Now
<1>4. run' = [run EXCEPT ![r] = q] /\ UNCHANGED <<day, tod, settings, mark, ticked, faults, fired>>
  BY DEF List
<1> HIDE DEF found
<1>5. /\ q \in RunRec /\ q.at = "loop" /\ q.edge = run[r].edge /\ q.prayer = p /\ q.left = found
      /\ q.day = day /\ q.tod = tod /\ q.settings = settings
  BY <1>1, <1>2 DEF RunRec
<1>6. \A z \in Zones : YetToReach(run[r], z) => YetToReach(q, z)
  BY <1>1, <1>3, <1>5 DEF YetToReach
<1> HIDE DEF q, p
<1> QED
  BY <1>1, <1>3, <1>4, <1>5, <1>6, HeldRunStep

LEMMA HeldIssue ==
  ASSUME ConstantsOK, TInv, HInv, NEW r \in Runs, Issue(r)
  PROVE  HInv'
<1> DEFINE q == [run[r] EXCEPT !.at = "loop", !.zone = None]
           p == run[r].prayer
<1>1. /\ run[r].at = "issue" /\ p \in Prayers /\ run[r] \in RunRec
      /\ run[r].day = day /\ run[r].tod = tod /\ run[r].settings = settings
      /\ run[r].edge = "start" => Inside(p)
      /\ run[r].edge = "end" => Over(p)
  BY HeldRun, TypedRun DEF Issue, Starting
<1>2. /\ q \in RunRec /\ q.at = "loop" /\ q.edge = run[r].edge /\ q.prayer = p
      /\ q.left = run[r].left
      /\ q.day = day /\ q.tod = tod /\ q.settings = settings
  BY <1>1 DEF RunRec
<1>3. \A z \in Zones : YetToReach(run[r], z) => YetToReach(q, z)
  BY <1>1, <1>2 DEF YetToReach
<1>4. run[r].edge = "end" => \A z \in Zones : mark[z] = p => z \in run[r].left
  BY <1>1 DEF HInv, ListIsWhole, Now
<1>5. run' = [run EXCEPT ![r] = q] /\ UNCHANGED <<day, tod, settings, mark, ticked, faults, fired>>
  BY DEF Issue
<1> HIDE DEF q, p
<1> QED
  BY <1>1, <1>2, <1>3, <1>4, <1>5, HeldRunStep

LEMMA HeldLoopEnds ==
  ASSUME ConstantsOK, TInv, HInv, NEW r \in Runs, LoopEnds(r)
  PROVE  HInv'
<1>1. run[r].edge = "end" => \A z \in Zones : mark[z] # run[r].prayer
  BY DEF LoopEnds, HInv, ListIsWhole, Now
<1> QED
  BY <1>1, HeldDealt DEF LoopEnds

LEMMA HeldTickEnds ==
  ASSUME ConstantsOK, TInv, HInv, NEW r \in Runs, TickEnds(r)
  PROVE  HInv'
<1>1. IdleRun \in RunRec /\ IdleRun.at = "idle"
  BY IdleRunType, TypedRest
<1>2. run[r] \in RunRec /\ run[r].day = day /\ run[r].at = "eval" /\ run[r].prayer \notin Prayers
  BY HeldRun DEF TickEnds
<1>3. \A z \in Zones : mark[z] # NoPrayer => ~ YetToReach(run[r], z)
  <2> SUFFICES ASSUME NEW z \in Zones, mark[z] # NoPrayer, YetToReach(run[r], z)
               PROVE  FALSE
    OBVIOUS
  <2>1. mark[z] \in Prayers
    BY TypedRest
  <2>2. run[r].prayer \in 1 .. NumPrayers + 1 /\ NumPrayers \in Nat
    BY <1>2 DEF RunRec, ConstantsOK
  <2>3. run[r].prayer < mark[z]
    BY <1>2, <2>1 DEF YetToReach
  <2> QED
    BY <1>2, <2>1, <2>2, <2>3 DEF Prayers
<1>4. fired' \subseteq fired /\ \A k \in fired' : k[1] = day
  BY <1>2 DEF TickEnds, Pruned
<1> QED
  BY <1>1, <1>2, <1>3, <1>4, HeldRunStep DEF TickEnds

\* A step that only takes marks away, and leaves runs and time alone.
LEMMA HeldElsewhere ==
  ASSUME TInv, HInv, UNCHANGED <<day, tod, settings, run, fired, ticked, faults>>,
         \A z \in Zones : mark'[z] \in {mark[z], NoPrayer}
  PROVE  HInv'
<1>0. \A k \in fired : k[2] # NoPrayer
  BY TypedRest DEF Keys, Prayers, NoPrayer
<1>1. \A r \in Runs, z \in Zones : mark'[z] # NoPrayer =>
         mark'[z] = mark[z] /\ (YetToReach(run[r], z) => YetToReach(run[r], z)')
  BY DEF YetToReach
<1>2. RunsPresent' /\ EdgesInTime'
  BY DEF HInv, RunsPresent, EdgesInTime, Starting, Inside, Over, Opens, Closes, Now
<1>3. HeldSinceStart'
  BY DEF HInv, HeldSinceStart, Opens, Closes
<1>4. OverdueIsReached'
  BY <1>1 DEF HInv, OverdueIsReached, Over, Closes
<1>5. EndsHeldNothing'
  <2>1. <<day, NoPrayer, "end">> \notin fired
    BY <1>0
  <2> QED
    BY <2>1 DEF HInv, EndsHeldNothing
<1>6. EndsInTime'
  BY DEF HInv, EndsInTime, Over, Closes
<1>7. ListIsWhole'
  <2> SUFFICES ASSUME NEW r \in Runs, run[r].at \in {"loop", "issue"}, run[r].edge = "end",
                      NEW z \in Zones, mark'[z] = Now(r)
               PROVE  z \in run[r].left
    BY DEF ListIsWhole, Now
  <2>1. Now(r) \in Prayers /\ Now(r) # NoPrayer
    BY TypedRun DEF Prayers, NoPrayer
  <2> QED
    BY <2>1 DEF HInv, ListIsWhole
<1>8. KeysRecent'
  BY DEF HInv, KeysRecent
<1> QED
  BY <1>2, <1>3, <1>4, <1>5, <1>6, <1>7, <1>8 DEF HInv

\* A zone is marked only inside the window, when no end is on record, and unmarked by a run that
\* has listed every zone.
LEMMA HeldMarkZone ==
  ASSUME ConstantsOK, TInv, HInv, NEW r \in Runs, NEW z \in Zones, MarkZone(r, z)
  PROVE  HInv'
<1> DEFINE p == run[r].prayer
           q == [run[r] EXCEPT !.at = "issue", !.zone = z, !.left = run[r].left \ {z}]
           m == IF run[r].edge = "start" THEN p ELSE NoPrayer
<1>1. /\ run[r].at = "loop" /\ p \in Prayers /\ run[r] \in RunRec
      /\ run[r].day = day /\ run[r].tod = tod /\ run[r].settings = settings
      /\ run[r].edge = "start" => Inside(p)
      /\ run[r].edge = "end" => Over(p)
  BY HeldRun, TypedRun DEF MarkZone, Starting
<1>2. /\ q.at = "issue" /\ q.edge = run[r].edge /\ q.prayer = p /\ q.left = run[r].left \ {z}
      /\ q.day = day /\ q.tod = tod /\ q.settings = settings
  BY <1>1 DEF RunRec
<1>3. m # NoPrayer => /\ m = p /\ run[r].edge = "start" /\ Inside(p) /\ ~ Over(p)
                      /\ tod <= Closes(settings, p) + faults
  BY <1>1, WindowInt, TypedRest DEF Over, Inside
<1>4. /\ run' = [run EXCEPT ![r] = q] /\ mark' = [mark EXCEPT ![z] = m]
      /\ UNCHANGED <<day, tod, settings, fired, ticked, faults>>
  BY DEF MarkZone, Now
<1> HIDE DEF q, m
<1>5. mark'[z] = m /\ \A y \in Zones : y # z => mark'[y] = mark[y]
  BY <1>4, TypedRest
<1>6. run'[r] = q /\ \A s \in Runs : s # r => run'[s] = run[s]
  BY <1>4 DEF TInv, TypeOK
<1>7. RunsPresent'
  BY <1>2, <1>4, <1>6 DEF HInv, RunsPresent
<1>8. EdgesInTime'
  BY <1>1, <1>2, <1>4, <1>6 DEF HInv, EdgesInTime, Starting, Inside, Over, Opens, Closes, Now
<1>9. HeldSinceStart'
  <2> SUFFICES ASSUME NEW y \in Zones, mark'[y] # NoPrayer
               PROVE  /\ mark'[y] \in settings.observed /\ Opens(settings, mark'[y]) <= tod
                      /\ tod <= Closes(settings, mark'[y]) + faults
    BY <1>4 DEF HeldSinceStart, Opens, Closes
  <2> QED
    BY <1>3, <1>5 DEF HInv, HeldSinceStart, Inside
<1>10. OverdueIsReached'
  <2> SUFFICES ASSUME ticked = "since", NEW y \in Zones, mark'[y] # NoPrayer, Over(mark'[y])
               PROVE  \E s \in Runs : YetToReach(run[s], y)'
    BY <1>4 DEF OverdueIsReached, Over, Closes
  <2>1. y # z /\ mark'[y] = mark[y]
    BY <1>3, <1>5
  <2>2. PICK s \in Runs : YetToReach(run[s], y)
    BY <2>1 DEF HInv, OverdueIsReached
  <2>3. CASE s = r
    BY <1>1, <1>2, <1>6, <2>1, <2>2, <2>3 DEF YetToReach
  <2>4. CASE s # r
    BY <1>6, <2>1, <2>2, <2>4 DEF YetToReach
  <2> QED
    BY <2>3, <2>4
<1>11. EndsHeldNothing'
  <2>1. \A k \in fired : k[2] # NoPrayer
    BY TypedRest DEF Keys, Prayers, NoPrayer
  <2>2. <<day, NoPrayer, "end">> \notin fired
    BY <2>1
  <2>3. <<day, m, "end">> \notin fired
    BY <1>1, <1>3, <2>2 DEF HInv, EndsInTime
  <2> QED
    BY <1>4, <1>5, <2>3 DEF HInv, EndsHeldNothing
<1>12. EndsInTime'
  BY <1>4 DEF HInv, EndsInTime, Over, Closes
<1>13. ListIsWhole'
  <2> SUFFICES ASSUME NEW s \in Runs, run'[s].at \in {"loop", "issue"}, run'[s].edge = "end",
                      NEW y \in Zones, mark'[y] = run'[s].prayer
               PROVE  y \in run'[s].left
    BY DEF ListIsWhole, Now
  <2>1. /\ run[s].at \in {"loop", "issue"} /\ run[s].edge = "end"
        /\ run[s].prayer = run'[s].prayer /\ run[s].prayer \in Prayers
    BY <1>1, <1>2, <1>6, TypedRun
  <2>2. y # z
    <3>1. run[s].prayer # NoPrayer
      BY <2>1 DEF Prayers, NoPrayer
    <3>2. Over(run[s].prayer)
      BY <2>1 DEF HInv, EdgesInTime, Now
    <3> QED
      BY <1>3, <1>5, <2>1, <3>1, <3>2
  <2>3. y \in run[s].left
    BY <1>5, <2>1, <2>2 DEF HInv, ListIsWhole, Now
  <2> QED
    BY <1>2, <1>6, <2>2, <2>3
<1>14. KeysRecent'
  <2>1. \E s \in Runs : run'[s].at # "idle"
    BY <1>2, <1>6
  <2> QED
    BY <1>4, <2>1 DEF HInv, KeysRecent
<1> QED
  BY <1>4, <1>7, <1>8, <1>9, <1>10, <1>11, <1>12, <1>13, <1>14 DEF HInv

\* A run begins, and is to reach every prayer.
LEMMA HeldBegin ==
  ASSUME ConstantsOK, TInv, HInv, Active(settings), NEW r \in Runs, TickBegin(r)
  PROVE  HInv'
<1> DEFINE q == [IdleRun EXCEPT !.at = "eval", !.settings = settings, !.day = day, !.tod = tod]
<1>1. run[r].at = "idle" /\ run' = [run EXCEPT ![r] = q] /\ ticked' = "since"
      /\ UNCHANGED <<day, tod, settings, fired, mark, faults>>
  BY DEF TickBegin
<1>2. q.at = "eval" /\ q.prayer = 1 /\ q.settings = settings /\ q.day = day /\ q.tod = tod
  BY DEF IdleRun
<1> HIDE DEF q
<1>3. run'[r] = q /\ \A s \in Runs : s # r => run'[s] = run[s]
  BY <1>1 DEF TInv, TypeOK
<1>4. RunsPresent' /\ EdgesInTime' /\ ListIsWhole'
  BY <1>1, <1>2, <1>3
     DEF HInv, RunsPresent, EdgesInTime, ListIsWhole, Starting, Inside, Over, Opens, Closes, Now
<1>5. HeldSinceStart' /\ EndsHeldNothing' /\ EndsInTime'
  BY <1>1 DEF HInv, HeldSinceStart, EndsHeldNothing, EndsInTime, Over, Opens, Closes
<1>6. OverdueIsReached'
  <2> SUFFICES ASSUME NEW z \in Zones, mark'[z] # NoPrayer
               PROVE  YetToReach(run[r], z)'
    BY DEF OverdueIsReached
  <2>1. mark[z] \in Prayers
    BY <1>1, TypedRest
  <2>2. 1 < mark[z] \/ 1 = mark[z]
    BY <2>1 DEF Prayers
  <2> QED
    BY <1>1, <1>2, <1>3, <2>2 DEF YetToReach
<1>7. KeysRecent'
  BY <1>1, <1>2, <1>3 DEF HInv, KeysRecent
<1> QED
  BY <1>1, <1>4, <1>5, <1>6, <1>7 DEF HInv

\* Runs that are given up: no run has come through in this unit of time, and it counts as missed.
LEMMA HeldGivenUp ==
  ASSUME ConstantsOK, TInv, HInv, UNCHANGED <<day, tod, settings, mark>>, fired' \subseteq fired,
         ticked' = "no", faults' = faults + 1,
         \A s \in Runs : run'[s] = run[s] \/ run'[s].at = "idle"
  PROVE  HInv'
<1>1. RunsPresent' /\ EdgesInTime' /\ ListIsWhole'
  BY DEF HInv, RunsPresent, EdgesInTime, ListIsWhole, Starting, Inside, Over, Opens, Closes, Now
<1>2. HeldSinceStart'
  <2> SUFFICES ASSUME NEW z \in Zones, mark[z] # NoPrayer
               PROVE  /\ mark[z] \in settings.observed /\ Opens(settings, mark[z]) <= tod
                      /\ tod <= Closes(settings, mark[z]) + (faults + 1)
    BY DEF HeldSinceStart, Opens, Closes
  <2>1. mark[z] \in Prayers
    BY TypedRest
  <2>2. tod <= Closes(settings, mark[z]) + faults
    BY DEF HInv, HeldSinceStart
  <2> QED
    BY <2>1, <2>2, WindowInt DEF HInv, HeldSinceStart
<1>3. OverdueIsReached' /\ EndsHeldNothing'
  BY DEF HInv, OverdueIsReached, EndsHeldNothing
<1>4. EndsInTime'
  BY DEF HInv, EndsInTime, Over, Closes
<1>5. KeysRecent'
  <2>1. tod <= faults => tod <= faults + 1
    BY TypedRest DEF ConstantsOK
  <2> QED
    BY <2>1 DEF HInv, KeysRecent
<1> QED
  BY <1>1, <1>2, <1>3, <1>4, <1>5 DEF HInv

\* Time passes when no run is in progress; a prayer that still holds a zone has not been over
\* for longer than the runs that were missed since, and so not until midnight.
LEMMA HeldAdvance ==
  ASSUME ConstantsOK, PausesWithinTheDay, TInv, HInv, Advance
  PROVE  HInv'
<1>1. \A r \in Runs : run[r].at = "idle" /\ run'[r] = run[r]
  <2> TAKE r \in Runs
  <2>1. run[r].age \in 0 .. MaxLag
    BY TypedRun DEF RunRec
  <2>2. ~ run[r].age < MaxLag
    BY <2>1 DEF PausesWithinTheDay
  <2> QED
    BY <2>2 DEF Advance
<1>2. ticked' = "no" /\ UNCHANGED <<settings, fired, mark>>
  BY DEF Advance
<1>3. \/ ticked = "since" /\ faults' = faults
      \/ ticked = "no" /\ faults' = faults + 1
  BY TypedRest DEF Advance, Fault, HInv
<1>4. /\ day \in 0 .. Days - 1 /\ tod \in 0 .. DayLength - 1 /\ faults \in Nat /\ faults' \in Nat
      /\ faults' <= MaxFaults /\ MaxFaults \in Nat /\ MaxFaults < DayLength /\ DayLength \in Nat
      /\ Days \in Nat /\ Days > 1
  BY TypedRest DEF Advance, Fault, ConstantsOK, PausesWithinTheDay
<1>5. ASSUME NEW z \in Zones, mark[z] # NoPrayer
      PROVE  /\ tod + 1 <= Closes(settings, mark[z]) + faults'
             /\ mark[z] \in settings.observed /\ Opens(settings, mark[z]) <= tod + 1
             /\ tod + 1 < DayLength
  <2>1. mark[z] \in Prayers
    BY <1>5, TypedRest
  <2>2. /\ mark[z] \in settings.observed /\ Opens(settings, mark[z]) <= tod
        /\ tod <= Closes(settings, mark[z]) + faults
    BY <1>5 DEF HInv, HeldSinceStart
  <2>3. ticked = "since" => ~ Over(mark[z])
    BY <1>1, <1>5 DEF HInv, OverdueIsReached, YetToReach
  <2>4. tod + 1 <= Closes(settings, mark[z]) + faults'
    BY <1>3, <1>4, <2>1, <2>2, <2>3, WindowInt DEF Over
  <2>5. Closes(settings, mark[z]) + MaxFaults < DayLength
    BY <2>1, TypedRest DEF PausesWithinTheDay
  <2> QED
    BY <1>4, <2>1, <2>2, <2>4, <2>5, WindowInt
<1>6. ASSUME NEW k \in fired, k[1] # day
      PROVE  (k[1] + 1) % Days = day /\ tod + 1 <= faults' /\ tod + 1 < DayLength
  <2>1. (k[1] + 1) % Days = day /\ tod <= faults /\ ticked = "no"
    BY <1>1, <1>3, <1>6 DEF HInv, KeysRecent
  <2> QED
    BY <1>3, <1>4, <2>1
<1>7. RunsPresent' /\ EdgesInTime' /\ ListIsWhole'
  BY <1>1 DEF RunsPresent, EdgesInTime, ListIsWhole, Starting
<1>8. OverdueIsReached'
  BY <1>2 DEF OverdueIsReached
<1>9. CASE tod + 1 < DayLength
  <2>1. tod' = tod + 1 /\ day' = day
    BY <1>9 DEF Advance
  <2>2. HeldSinceStart'
    BY <1>2, <1>5, <2>1 DEF HeldSinceStart, Opens, Closes
  <2>3. EndsHeldNothing'
    BY <1>2, <2>1 DEF HInv, EndsHeldNothing
  <2>4. EndsInTime'
    <3> SUFFICES ASSUME NEW p \in Prayers, <<day, p, "end">> \in fired
                 PROVE  Closes(settings, p) <= tod + 1
      BY <1>2, <2>1 DEF EndsInTime, Over, Closes
    <3>1. Closes(settings, p) <= tod
      BY DEF HInv, EndsInTime, Over
    <3> QED
      BY <1>4, <3>1, WindowInt
  <2>5. KeysRecent'
    BY <1>2, <1>6, <2>1 DEF KeysRecent
  <2> QED
    BY <1>2, <1>7, <1>8, <2>2, <2>3, <2>4, <2>5 DEF HInv
<1>10. CASE ~ tod + 1 < DayLength
  <2>1. tod' = 0 /\ day' = (day + 1) % Days
    BY <1>10 DEF Advance
  <2>2. day' # day
    <3>1. CASE day + 1 < Days
      <4>1. (day + 1) % Days = day + 1
        BY <1>4, <3>1
      <4> QED
        BY <1>4, <2>1, <4>1
    <3>2. CASE day + 1 = Days
      <4>1. Days % Days = 0
        BY <1>4
      <4> QED
        BY <1>4, <2>1, <3>2, <4>1
    <3> QED
      BY <1>4, <3>1, <3>2
  <2>3. \A k \in fired : k[1] = day
    BY <1>6, <1>10
  <2>4. \A p, e : <<day', p, e>> \notin fired
    BY <2>2, <2>3
  <2>5. HeldSinceStart'
    BY <1>2, <1>5, <1>10 DEF HeldSinceStart
  <2>6. EndsHeldNothing' /\ EndsInTime'
    BY <1>2, <2>4 DEF EndsHeldNothing, EndsInTime
  <2>7. KeysRecent'
    <3>1. 0 <= faults'
      BY <1>4
    <3> QED
      BY <1>2, <2>1, <2>3, <3>1 DEF KeysRecent
  <2> QED
    BY <1>2, <1>7, <1>8, <2>5, <2>6, <2>7 DEF HInv
<1> QED
  BY <1>9, <1>10

LEMMA HeldInit ==
  ASSUME Init
  PROVE  HInv
<1>1. \A r \in Runs : run[r].at = "idle"
  BY DEF Init, IdleRun
<1> QED
  BY <1>1 DEF Init, HInv, RunsPresent, EdgesInTime, HeldSinceStart, OverdueIsReached,
              EndsHeldNothing, EndsInTime, ListIsWhole, KeysRecent, Starting

LEMMA HeldStep ==
  ASSUME ConstantsOK, PausesWithinTheDay, TInv, HInv, Active(settings), [Next]_vars
  PROVE  HInv'
<1>1. ASSUME NEW r \in Runs, Tick(r)
      PROVE  HInv'
  BY <1>1, HeldBegin, HeldSkip, HeldEnterWindow, HeldLeaveWindow, HeldCount, HeldList,
     HeldMarkZone, HeldIssue, HeldLoopEnds, HeldTickEnds DEF Tick
<1>2. ASSUME NEW r \in Runs, TickFails(r) \/ TimingsMissing(r)
      PROVE  HInv'
  <2>1. IdleRun.at = "idle"
    BY DEF IdleRun
  <2>2. \A s \in Runs : run'[s] = run[s] \/ run'[s].at = "idle"
    BY <1>2, <2>1 DEF TickFails, TimingsMissing, TInv, TypeOK
  <2>3. fired' \subseteq fired /\ ticked' = "no" /\ faults' = faults + 1
    BY <1>2, PrunedType DEF TickFails, TimingsMissing, Fault
  <2> QED
    BY <1>2, <2>2, <2>3, HeldGivenUp DEF TickFails, TimingsMissing
<1>3. CASE Restart
  <2>1. \A s \in Runs : run'[s].at = "idle"
    BY <1>3 DEF Restart, IdleRun
  <2> QED
    BY <1>3, <2>1, HeldGivenUp DEF Restart, Fault
<1>4. ASSUME NEW z \in Zones, Deliver(z)
      PROVE  HInv'
  <2>1. \A y \in Zones : mark'[y] \in {mark[y], NoPrayer}
    BY <1>4, TypedRest DEF Deliver
  <2> QED
    BY <1>4, <2>1, HeldElsewhere DEF Deliver
<1>5. ASSUME NEW z \in Zones, NEW k, NEW s, DeliverFails(z) \/ Manage(z, k, s)
      PROVE  HInv'
  BY <1>5, HeldElsewhere DEF DeliverFails, Manage
<1>6. ~ Configure
  BY DEF Configure, Fault, PausesWithinTheDay
<1>7. CASE Advance
  BY <1>7, HeldAdvance
<1>8. CASE UNCHANGED vars
  BY <1>8, HeldElsewhere DEF vars
<1> QED
  BY <1>1, <1>2, <1>3, <1>4, <1>5, <1>6, <1>7, <1>8 DEF Next

\* After a tick run a zone is held by a prayer only inside the prayer's window: for any zones,
\* prayers and overlapping runs, whatever managers do, whichever runs fail, are missed, or come
\* after a restart of the process, as long as the pauses end on the day they begin and the
\* settings stay (prayer-scheduler.ts:200-222 resumes by the marks, not by what was fired).
THEOREM HeldInWindowOnly ==
  ASSUME PausesWithinTheDay
  PROVE  Spec => []HeldOnlyInWindow
<1> DEFINE I == TInv /\ (Active(settings) => HInv)
<1>1. Init => I
  BY TypedInit, HeldInit, ConstantsOK
<1>2. I /\ [Next]_vars => I'
  <2> SUFFICES ASSUME I, [Next]_vars
               PROVE  I'
    OBVIOUS
  <2>1. TInv'
    BY TypedNext, ConstantsOK
  <2>2. settings' = settings
    BY DEF Next, vars, Tick, TickBegin, Skip, EnterWindow, LeaveWindow, Count, List, MarkZone,
           Issue, LoopEnds, TickEnds, TickFails, TimingsMissing, Deliver, DeliverFails, Manage,
           Configure, Fault, Advance, Restart, PausesWithinTheDay
  <2> QED
    BY <2>1, <2>2, HeldStep, ConstantsOK
<1>3. I => HeldOnlyInWindow
  <2> SUFFICES ASSUME I, ticked = "since", Active(settings), \A r \in Runs : run[r].at = "idle",
                      NEW z \in Zones, mark[z] # NoPrayer
               PROVE  Open(mark[z])
    BY DEF HeldOnlyInWindow
  <2>1. mark[z] \in Prayers
    BY TypedRest
  <2>2. ~ Over(mark[z]) /\ Opens(settings, mark[z]) <= tod
    BY DEF HInv, OverdueIsReached, HeldSinceStart, YetToReach
  <2>3. tod < Closes(settings, mark[z])
    BY <2>1, <2>2, WindowInt, ConstantsOK DEF Over
  <2> QED
    BY <2>2, <2>3 DEF Open
<1> QED
  BY <1>1, <1>2, <1>3, PTL DEF Spec
=============================================================================
