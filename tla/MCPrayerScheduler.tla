------------------------- MODULE MCPrayerScheduler --------------------------
EXTENDS PrayerScheduler, TLC

CONSTANTS z1, z2, r1

\* Prayers at first, first + 1, ...; the first of them pauses these zones for so long, the
\* others for one unit of time.
Config(first, length, zones) ==
  [enabled |-> TRUE, located |-> TRUE, observed |-> Prayers,
   start |-> [p \in Prayers |-> first + p - 1],
   pause |-> [p \in Prayers |-> IF p = 1 THEN length ELSE 1], zones |-> zones]

\* What a manager may make of s: a prayer is disabled, the location is cleared, Prayer
\* Mode is switched off.
Variants(s) == {s, [s EXCEPT !.observed = @ \ {1}], [s EXCEPT !.located = FALSE],
                [s EXCEPT !.enabled = FALSE]}

\* One zone takes part, in two prayers whose pauses overlap; or two zones do, in one prayer,
\* which is moved later in the day while they opt out.
Usual ==
  Variants(Config(0, 2, {z1}))
    \cup {[s EXCEPT !.observed = @ \ {2}] :
            s \in Variants(Config(0, 1, {z1, z2})) \cup {Config(1, 1, {})}}

\* For the one zone tick runs overlap, a manager interferes and one thing goes wrong ...
Overlapping ==
  /\ Cardinality(settings.zones) = 1 /\ Cardinality(settings'.zones) = 1
  /\ faults' <= 1
  /\ queue'[z2] = <<>>

\* ... for the two, one run after the other does, and two things go wrong.
OneByOne ==
  /\ Cardinality(settings.zones) # 1 /\ Cardinality(settings'.zones) # 1
  /\ \A r \in Runs \ {r1} : run'[r].at = "idle"
  /\ \A z \in Zones : \A i \in DOMAIN queue'[z] : queue'[z][i].source = "SCHEDULE"

\* The steps that prayer_day explores.
Explored == Overlapping \/ OneByOne

\* A prayer is disabled; Prayer Mode stays on.
Selective == {Config(0, 1, {z1}), [Config(0, 1, {z1}) EXCEPT !.observed = {}]}

\* The pause ends on the next day.
Late == {Config(DayLength - 1, 2, {z1, z2})}

\* Both zones take part, and nothing is changed.
Steady == {Config(1, 2, {z1, z2})}
=============================================================================
