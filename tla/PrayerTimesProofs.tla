------------------------- MODULE PrayerTimesProofs --------------------------
(***************************************************************************)
(* The times of the prayers are right whoever asked for them, the scheduler *)
(* pauses when the sun says, and it keeps the venue's own clock.            *)
(***************************************************************************)
EXTENDS PrayerTimes, SequenceTheorems, WellFoundedInduction, TLAPS

\* What the clock of the zone shows at the prayer of a place and date.
HourAt(q) == Shown(q.zone, Sun[<<q.place, q.date>>]) % 24

TimesEntry == [place : Places, date : Dates, hour : 0 .. 23]

\* An entry of the cache was right for somebody who asked for its point and date.
EntryRight(entry) == \E o \in asked : Key(o) = Key(entry) /\ entry.hour = HourAt(o)

\* Only reported zones are dated, and none later than the last edit.
ReportsDated ==
  \A p \in Pcs : /\ pc[p].zone # Nowhere => pc[p].at > 0
                 /\ pc[p].at > 0 => pc[p].zone # Nowhere
                 /\ pc[p].at <= venueEdits

\* The invariant that is inductive: entries and answers were right for somebody who asked.
TimesInv ==
  /\ PrayerTimesTypeOK /\ venueEdits <= MaxVenueEdits
  /\ ReportsDated
  /\ \A i \in 1 .. Len(cache) : EntryRight(cache[i])
  /\ \A a \in Askers : ask[a] # None => ask[a] \in asked
  /\ \A a \in Askers : answer[a] # None => EntryRight(answer[a])

-----------------------------------------------------------------------------
(* Clocks and places                                                       *)

\* A set of natural numbers that is not empty has a least element.
LEMMA LeastNat ==
  ASSUME NEW T, T \subseteq Nat, T # {}
  PROVE  \E x \in T : \A y \in T : x <= y
<1> DEFINE R == OpToRel(<, Nat)
<1>1. IsWellFoundedOn(R, Nat)
  BY NatLessThanWellFounded
<1>2. \A x, y \in Nat : x < y => <<x, y>> \in R
  BY DEF OpToRel
<1> HIDE DEF R
<1>3. PICK x \in T : \A y \in T : ~ <<y, x>> \in R
  BY <1>1, WFMin
<1>4. ASSUME NEW y \in T
      PROVE  x <= y
  <2>1. x \in Nat /\ y \in Nat /\ ~ y < x
    BY <1>2, <1>3
  <2> QED
    BY <2>1
<1> QED
  BY <1>4

LEMMA HourRange ==
  ASSUME NEW z \in Zones, NEW instant \in Int
  PROVE  /\ Offset(z, instant) \in -12 .. 14 /\ Shown(z, instant) \in Int
         /\ Shown(z, instant) % 24 \in 0 .. 23
<1>1. Clock[z].before \in -12 .. 14 /\ Clock[z].after \in -12 .. 14
  BY PrayerTimesConstants
<1>2. Offset(z, instant) \in -12 .. 14
  BY <1>1 DEF Offset
<1>3. Shown(z, instant) \in Int
  BY <1>2 DEF Shown
<1>4. Shown(z, instant) % 24 \in 0 .. 23
  BY <1>3
<1> QED
  BY <1>2, <1>3, <1>4

LEMMA TodayType ==
  ASSUME PrayerTimesTypeOK, NEW z \in Zones
  PROVE  Today(z) \in Dates
<1>1. now \in 0 .. MaxNow /\ MaxNow \in Nat
  BY PrayerTimesConstants DEF PrayerTimesTypeOK
<1>2. Offset(z, now) \in -12 .. 14
  BY <1>1, HourRange
<1>3. -1 <= (now + Offset(z, now)) \div 24
  BY <1>1, <1>2
<1>4. (now + Offset(z, now)) \div 24 <= MaxNow \div 24 + 1
  BY <1>1, <1>2
<1>5. (now + Offset(z, now)) \div 24 \in Int /\ MaxNow \div 24 + 1 \in Int
  BY <1>1, <1>2
<1> QED
  BY <1>3, <1>4, <1>5 DEF Today, Shown, Dates

\* Places and zones that are known.
Spot == [place : Places, zone : Zones]

LEMMA FromConfigType ==
  ASSUME PrayerTimesTypeOK
  PROVE  FromConfig \in Spot \cup {None}
<1>1. /\ settings.point \in Places \cup {Nowhere} /\ settings.zone \in Zones \cup {Nowhere}
      /\ settings.city \in Places \cup {Nowhere}
  BY PrayerTimesConstants DEF PrayerTimesTypeOK
<1>2. settings.city # Nowhere => CityZone[settings.city] \in Zones
  BY <1>1, PrayerTimesConstants
<1> QED
  BY <1>1, <1>2 DEF FromConfig, At, Spot

LEMMA ResolveType ==
  ASSUME PrayerTimesTypeOK, NEW zone \in Zones \cup {Nowhere}, NEW place \in Places \cup {Nowhere}
  PROVE  Resolve(zone, place) \in Spot \cup {None}
<1>1. location.zone \in Zones \cup {Nowhere} /\ location.city \in Places \cup {Nowhere}
  BY DEF PrayerTimesTypeOK
<1>2. location.city # Nowhere => CityZone[location.city] \in Zones
  BY <1>1, PrayerTimesConstants
<1> QED
  BY <1>1, <1>2, FromConfigType DEF Resolve, At, Spot

LEMMA ResolvedType ==
  ASSUME PrayerTimesTypeOK
  PROVE  Resolved \subseteq Spot \cup {None}
<1>1. \A p \in VenueServers : pc[p].zone \in Zones \cup {Nowhere} /\ pc[p].place \in Places \cup {Nowhere}
  BY DEF PrayerTimesTypeOK, VenueServers
<1>2. \A p \in VenueServers : Resolve(pc[p].zone, pc[p].place) \in Spot \cup {None}
  BY <1>1, ResolveType
<1> QED
  BY <1>2, FromConfigType, ResolveType DEF Resolved

LEMMA LocationsType ==
  ASSUME PrayerTimesTypeOK, NEW a \in Askers, NEW l \in Locations(a)
  PROVE  l \in Spot
BY ResolvedType DEF Locations, At, Spot

-----------------------------------------------------------------------------
(* Steps                                                                   *)

LEMMA TimesTypes ==
  ASSUME PrayerTimesTypeOK
  PROVE  /\ now \in 0 .. MaxNow /\ venueEdits \in Nat /\ asks \in Nat /\ prayerFaults \in Nat
         /\ cache \in Seq(TimesEntry) /\ Len(cache) \in Nat /\ Len(cache) <= MAX_ENTRIES
         /\ \A i \in 1 .. Len(cache) : cache[i] \in TimesEntry
         /\ ask \in [Askers -> Question \cup {None}]
         /\ answer \in [Askers -> Answer \cup {None}]
         /\ asked \subseteq Question
         /\ MAX_ENTRIES \in Nat /\ MAX_ENTRIES > 0 /\ MaxVenueEdits \in Nat
<1>1. MAX_ENTRIES \in Nat /\ MAX_ENTRIES > 0 /\ MaxVenueEdits \in Nat
  BY PrayerTimesConstants
<1>2. now \in 0 .. MaxNow /\ venueEdits \in Nat /\ asks \in Nat /\ prayerFaults \in Nat
  BY DEF PrayerTimesTypeOK
<1>3. cache \in Seq(TimesEntry) /\ Len(cache) <= MAX_ENTRIES
  BY DEF PrayerTimesTypeOK, TimesEntry
<1>4. Len(cache) \in Nat /\ \A i \in 1 .. Len(cache) : cache[i] \in TimesEntry
  BY <1>3, ElementOfSeq, LenProperties
<1> QED
  BY <1>1, <1>2, <1>3, <1>4 DEF PrayerTimesTypeOK

\* What is remembered: the entry, and others that were there before.
LEMMA RememberKeeps ==
  ASSUME PrayerTimesTypeOK, NEW entry \in TimesEntry, Remember(entry)
  PROVE  /\ cache' \in Seq(TimesEntry) /\ Len(cache') <= MAX_ENTRIES
         /\ \A i \in 1 .. Len(cache') :
              cache'[i] = entry \/ \E k \in 1 .. Len(cache) : cache'[i] = cache[k]
<1> DEFINE kept == IF Len(cache) >= MAX_ENTRIES THEN Tail(cache) ELSE cache
           hit  == {i \in 1 .. Len(kept) : Key(kept[i]) = Key(entry)}
<1>1. /\ kept \in Seq(TimesEntry) /\ Len(kept) \in Nat /\ Len(kept) + 1 <= MAX_ENTRIES
      /\ \A i \in 1 .. Len(kept) : \E k \in 1 .. Len(cache) : kept[i] = cache[k]
  <2>1. CASE Len(cache) >= MAX_ENTRIES
    <3>1. cache # <<>>
      BY <2>1, TimesTypes
    <3>2. /\ Tail(cache) \in Seq(TimesEntry) /\ Len(Tail(cache)) = Len(cache) - 1
          /\ \A i \in 1 .. Len(Tail(cache)) : Tail(cache)[i] = cache[i + 1]
      BY <3>1, TimesTypes, HeadTailProperties
    <3>3. \A i \in 1 .. Len(cache) - 1 : i + 1 \in 1 .. Len(cache)
      BY TimesTypes
    <3> QED
      BY <2>1, <3>2, <3>3, TimesTypes
  <2>2. CASE ~ Len(cache) >= MAX_ENTRIES
    BY <2>2, TimesTypes
  <2> QED
    BY <2>1, <2>2
<1>2. cache' = IF hit = {} THEN Append(kept, entry)
               ELSE [i \in 1 .. Len(kept) |-> IF i \in hit THEN entry ELSE kept[i]]
  BY DEF Remember
<1> HIDE DEF kept
<1>3. CASE hit = {}
  <2>1. /\ Append(kept, entry) \in Seq(TimesEntry) /\ Len(Append(kept, entry)) = Len(kept) + 1
        /\ \A i \in 1 .. Len(kept) : Append(kept, entry)[i] = kept[i]
        /\ Append(kept, entry)[Len(kept) + 1] = entry
    BY <1>1, AppendProperties
  <2>2. \A i \in 1 .. Len(kept) + 1 : i \in 1 .. Len(kept) \/ i = Len(kept) + 1
    BY <1>1
  <2>3. cache' = Append(kept, entry)
    BY <1>2, <1>3
  <2> HIDE DEF hit
  <2> QED
    BY <1>1, <2>1, <2>2, <2>3
<1>4. CASE hit # {}
  <2> DEFINE s == [i \in 1 .. Len(kept) |-> IF i \in hit THEN entry ELSE kept[i]]
  <2>1. cache' = s
    BY <1>2, <1>4
  <2>2. \A i \in 1 .. Len(kept) : kept[i] \in TimesEntry /\ (s[i] = entry \/ s[i] = kept[i])
    BY <1>1
  <2> HIDE DEF hit
  <2>3. s \in Seq(TimesEntry) /\ Len(s) = Len(kept)
    BY <1>1, <2>2
  <2> HIDE DEF s
  <2> QED
    BY <1>1, <2>1, <2>2, <2>3, TimesTypes
<1> QED
  BY <1>3, <1>4

\* What was right for somebody stays so while more is asked.
LEMMA StaysRight ==
  ASSUME asked \subseteq asked', NEW entry, EntryRight(entry)
  PROVE  EntryRight(entry)'
BY DEF EntryRight

\* A step that leaves the requests and what is known of the venue's PCs alone.
LEMMA TimesElsewhere ==
  ASSUME TimesInv, UNCHANGED <<pc, location, cache, ask, answer, venueEdits, asks, prayerFaults, asked>>,
         now' \in 0 .. MaxNow, settings' \in Configs
  PROVE  TimesInv'
<1>1. PrayerTimesTypeOK'
  BY DEF TimesInv, PrayerTimesTypeOK
<1>2. ReportsDated'
  BY DEF TimesInv, ReportsDated
<1>3. \A entry : EntryRight(entry) => EntryRight(entry)'
  BY StaysRight
<1> QED
  BY <1>1, <1>2, <1>3 DEF TimesInv

LEMMA TimesHoursPass ==
  ASSUME TimesInv, HoursPass
  PROVE  TimesInv'
<1>1. now + NowStep \in 0 .. MaxNow
  BY TimesTypes, PrayerTimesConstants DEF TimesInv, HoursPass
<1> QED
  BY <1>1, TimesElsewhere DEF HoursPass, TimesInv, PrayerTimesTypeOK

\* Edits of the venue are counted.
LEMMA VenueEditType ==
  ASSUME TimesInv, VenueEdit
  PROVE  /\ venueEdits' \in Nat /\ venueEdits' <= MaxVenueEdits /\ venueEdits' = venueEdits + 1
         /\ \A n \in Nat : n <= venueEdits => n <= venueEdits'
BY TimesTypes DEF TimesInv, VenueEdit

LEMMA TimesSaveConfig ==
  ASSUME TimesInv, NEW c \in Configs, SaveConfig(c)
  PROVE  TimesInv'
<1>1. PrayerTimesTypeOK'
  BY VenueEditType DEF SaveConfig, TimesInv, PrayerTimesTypeOK
<1>2. ReportsDated'
  BY VenueEditType DEF SaveConfig, TimesInv, ReportsDated, PrayerTimesTypeOK
<1>3. \A entry : EntryRight(entry) => EntryRight(entry)'
  BY StaysRight DEF SaveConfig
<1> QED
  BY <1>1, <1>2, <1>3, VenueEditType DEF SaveConfig, TimesInv

\* A PC's row is written.
LEMMA TimesPc ==
  ASSUME TimesInv, NEW p \in Pcs,
         NEW row \in [online : BOOLEAN, zone : Zones \cup {Nowhere},
                      place : Places \cup {Nowhere}, at : Nat],
         pc' = [pc EXCEPT ![p] = row],
         row.zone # Nowhere => row.at > 0,
         row.at > 0 => row.zone # Nowhere,
         row.at <= venueEdits', venueEdits' \in Nat, venueEdits <= venueEdits',
         venueEdits' <= MaxVenueEdits,
         UNCHANGED <<now, location, settings, cache, ask, answer, asks, prayerFaults, asked>>
  PROVE  TimesInv'
<1>1. pc'[p] = row /\ \A q \in Pcs : q # p => pc'[q] = pc[q]
  BY DEF TimesInv, PrayerTimesTypeOK
<1>2. PrayerTimesTypeOK'
  BY DEF TimesInv, PrayerTimesTypeOK
<1>3. \A q \in Pcs : pc[q].at <= venueEdits => pc[q].at <= venueEdits'
  BY DEF TimesInv, PrayerTimesTypeOK
<1>4. ReportsDated'
  BY <1>1, <1>3 DEF TimesInv, ReportsDated
<1>5. \A entry : EntryRight(entry) => EntryRight(entry)'
  BY StaysRight
<1> QED
  BY <1>2, <1>4, <1>5 DEF TimesInv

LEMMA PcType ==
  ASSUME TimesInv, NEW p \in Pcs
  PROVE  /\ pc[p] \in [online : BOOLEAN, zone : Zones \cup {Nowhere},
                       place : Places \cup {Nowhere}, at : Nat]
         /\ pc[p].zone # Nowhere => pc[p].at > 0
         /\ pc[p].at > 0 => pc[p].zone # Nowhere
         /\ pc[p].at <= venueEdits
BY DEF TimesInv, ReportsDated, PrayerTimesTypeOK

LEMMA TimesHeartbeat ==
  ASSUME TimesInv, NEW p \in Pcs, NEW z \in Zones \cup {Nowhere}, NEW place \in Places \cup {Nowhere},
         Heartbeat(p, z, place)
  PROVE  TimesInv'
<1> DEFINE row == [online |-> TRUE,
                   zone   |-> IF z # Nowhere THEN z ELSE pc[p].zone,
                   place  |-> IF place # Nowhere THEN place ELSE pc[p].place,
                   at     |-> IF z # Nowhere THEN venueEdits + 1 ELSE pc[p].at]
<1>1. /\ VenueEdit /\ pc' = [pc EXCEPT ![p] = row]
      /\ UNCHANGED <<now, location, settings, cache, ask, answer, asks, prayerFaults, asked>>
  BY DEF Heartbeat
<1>2. venueEdits \in Nat /\ venueEdits' = venueEdits + 1 /\ venueEdits' <= MaxVenueEdits
  BY <1>1, TimesTypes, VenueEditType DEF TimesInv
<1>3. row \in [online : BOOLEAN, zone : Zones \cup {Nowhere}, place : Places \cup {Nowhere}, at : Nat]
  BY <1>2, PcType
<1>4. /\ row.zone # Nowhere => row.at > 0
      /\ row.at > 0 => row.zone # Nowhere
      /\ row.at <= venueEdits'
  BY <1>2, PcType
<1>5. venueEdits <= venueEdits' /\ venueEdits' \in Nat
  BY <1>2
<1> HIDE DEF row
<1> QED
  BY <1>1, <1>2, <1>3, <1>4, <1>5, TimesPc

LEMMA TimesGoesOffline ==
  ASSUME TimesInv, NEW p \in Pcs, GoesOffline(p)
  PROVE  TimesInv'
<1> DEFINE row == [pc[p] EXCEPT !.online = FALSE]
<1>1. /\ pc' = [pc EXCEPT ![p] = row]
      /\ UNCHANGED <<now, location, settings, cache, ask, answer, venueEdits, asks, prayerFaults, asked>>
  BY DEF GoesOffline
<1>2. row \in [online : BOOLEAN, zone : Zones \cup {Nowhere}, place : Places \cup {Nowhere}, at : Nat]
  BY PcType
<1>3. row.zone = pc[p].zone /\ row.at = pc[p].at
  BY PcType
<1>4. venueEdits' \in Nat /\ venueEdits <= venueEdits' /\ venueEdits' <= MaxVenueEdits
  BY <1>1, TimesTypes DEF TimesInv
<1>5. /\ row.zone # Nowhere => row.at > 0
      /\ row.at > 0 => row.zone # Nowhere
      /\ row.at <= venueEdits'
  BY <1>1, <1>3, PcType
<1> HIDE DEF row
<1> QED
  BY <1>1, <1>2, <1>4, <1>5, TimesPc
\* A step of the requests leaves the venue alone.
LEMMA TimesRequests ==
  ASSUME TimesInv, UNCHANGED <<now, pc, location, settings, venueEdits>>,
         cache' \in Seq(TimesEntry), Len(cache') <= MAX_ENTRIES,
         ask' \in [Askers -> Question \cup {None}], answer' \in [Askers -> Answer \cup {None}],
         asks' \in Nat, prayerFaults' \in Nat, asked' \subseteq Question
  PROVE  PrayerTimesTypeOK' /\ (venueEdits <= MaxVenueEdits)' /\ ReportsDated'
<1>1. PrayerTimesTypeOK'
  BY DEF TimesInv, PrayerTimesTypeOK, TimesEntry
<1>2. ReportsDated'
  BY DEF TimesInv, ReportsDated
<1> QED
  BY <1>1, <1>2 DEF TimesInv

LEMMA TimesFetchFails ==
  ASSUME TimesInv, NEW a \in Askers, FetchFails(a)
  PROVE  TimesInv'
<1>1. /\ ask' = [ask EXCEPT ![a] = None] /\ answer' = [answer EXCEPT ![a] = None]
      /\ prayerFaults' = prayerFaults + 1
      /\ UNCHANGED <<now, pc, location, settings, cache, venueEdits, asks, asked>>
  BY DEF FetchFails, PrayerFault
<1>2. /\ ask' \in [Askers -> Question \cup {None}] /\ answer' \in [Askers -> Answer \cup {None}]
      /\ \A b \in Askers : /\ ask'[b] # None => ask'[b] = ask[b]
                           /\ answer'[b] # None => answer'[b] = answer[b]
  BY <1>1, TimesTypes DEF TimesInv
<1>3. PrayerTimesTypeOK' /\ (venueEdits <= MaxVenueEdits)' /\ ReportsDated'
  BY <1>1, <1>2, TimesTypes, TimesRequests DEF TimesInv
<1>4. \A entry : EntryRight(entry) => EntryRight(entry)'
  BY <1>1, StaysRight
<1>5. \A i \in 1 .. Len(cache') : EntryRight(cache[i])'
  BY <1>1, <1>4 DEF TimesInv
<1>6. \A b \in Askers : ask'[b] # None => ask'[b] \in asked'
  BY <1>1, <1>2 DEF TimesInv
<1>7. \A b \in Askers : answer'[b] # None => EntryRight(answer[b])'
  <2> SUFFICES ASSUME NEW b \in Askers, answer'[b] # None
               PROVE  EntryRight(answer[b])'
    OBVIOUS
  <2>1. answer'[b] = answer[b] /\ EntryRight(answer[b])
    BY <1>2 DEF TimesInv
  <2> QED
    BY <1>1, <2>1 DEF EntryRight
<1> QED
  BY <1>1, <1>3, <1>5, <1>6, <1>7 DEF TimesInv

LEMMA TimesRestart ==
  ASSUME TimesInv, BackendRestart
  PROVE  TimesInv'
<1>1. /\ cache' = <<>> /\ asked' = {} /\ ask' = [a \in Askers |-> None] /\ answer' = ask'
      /\ prayerFaults' = prayerFaults + 1
      /\ UNCHANGED <<now, pc, location, settings, venueEdits, asks>>
  BY DEF BackendRestart, PrayerFault
<1>2. /\ cache' \in Seq(TimesEntry) /\ Len(cache') = 0
      /\ ask' \in [Askers -> Question \cup {None}] /\ answer' \in [Askers -> Answer \cup {None}]
      /\ \A b \in Askers : ask'[b] = None /\ answer'[b] = None
  BY <1>1
<1>3. PrayerTimesTypeOK' /\ (venueEdits <= MaxVenueEdits)' /\ ReportsDated'
  <2>1. Len(cache') <= MAX_ENTRIES
    BY <1>2, TimesTypes DEF TimesInv
  <2> QED
    BY <1>1, <1>2, <2>1, TimesTypes, TimesRequests DEF TimesInv
<1> QED
  BY <1>1, <1>2, <1>3 DEF TimesInv

\* What an asker is told is an answer, and right if it is right for somebody.
LEMMA ReplyType ==
  ASSUME NEW q \in Question, NEW hour \in 0 .. 23, NEW a \in Askers, Reply(a, q, hour),
         answer \in [Askers -> Answer \cup {None}]
  PROVE  /\ answer' \in [Askers -> Answer \cup {None}]
         /\ Key(answer'[a]) = Key(q) /\ answer'[a].hour = hour
         /\ \A b \in Askers : b # a => answer'[b] = answer[b]
<1> DEFINE r == [place |-> q.place, zone |-> q.zone, date |-> q.date, hour |-> hour]
<1>1. r \in Answer /\ Key(r) = Key(q) /\ r.hour = hour
  BY DEF Answer, Question, Key
<1>2. answer' = [answer EXCEPT ![a] = r]
  BY DEF Reply
<1> HIDE DEF r
<1> QED
  BY <1>1, <1>2

LEMMA TimesFetched ==
  ASSUME TimesInv, NEW a \in Askers, Fetched(a)
  PROVE  TimesInv'
<1> DEFINE q     == ask[a]
           hour  == HourAt(q)
           entry == [place |-> q.place, date |-> q.date, hour |-> hour]
<1>1. q \in Question /\ q \in asked
  BY TimesTypes DEF TimesInv, Fetched
<1>2. hour \in 0 .. 23
  <2>1. Sun[<<q.place, q.date>>] \in Int /\ q.zone \in Zones
    BY <1>1, PrayerTimesConstants DEF Question
  <2> QED
    BY <2>1, HourRange DEF HourAt
<1>3. /\ Remember(entry) /\ Reply(a, q, hour) /\ ask' = [ask EXCEPT ![a] = None]
      /\ UNCHANGED <<now, pc, location, settings, venueEdits, asks, prayerFaults, asked>>
  BY DEF Fetched, HourAt
<1>4. entry \in TimesEntry /\ Key(entry) = Key(q) /\ entry.hour = hour
  BY <1>1, <1>2 DEF TimesEntry, Question, Key
<1>5. EntryRight(entry)
  BY <1>1, <1>4 DEF EntryRight
<1> HIDE DEF entry
<1>6. /\ cache' \in Seq(TimesEntry) /\ Len(cache') <= MAX_ENTRIES
      /\ \A i \in 1 .. Len(cache') :
           cache'[i] = entry \/ \E k \in 1 .. Len(cache) : cache'[i] = cache[k]
  BY <1>3, <1>4, RememberKeeps DEF TimesInv
<1>7. /\ answer' \in [Askers -> Answer \cup {None}]
      /\ Key(answer'[a]) = Key(q) /\ answer'[a].hour = hour
      /\ \A b \in Askers : b # a => answer'[b] = answer[b]
  BY <1>1, <1>2, <1>3, ReplyType, TimesTypes DEF TimesInv
<1>8. /\ ask' \in [Askers -> Question \cup {None}]
      /\ \A b \in Askers : ask'[b] # None => ask'[b] = ask[b]
  BY <1>3, TimesTypes DEF TimesInv
<1>9. PrayerTimesTypeOK' /\ (venueEdits <= MaxVenueEdits)' /\ ReportsDated'
  BY <1>3, <1>6, <1>7, <1>8, TimesTypes, TimesRequests DEF TimesInv
<1>10. \A i \in 1 .. Len(cache') : EntryRight(cache[i])'
  <2> SUFFICES ASSUME NEW i \in 1 .. Len(cache')
               PROVE  EntryRight(cache[i])'
    OBVIOUS
  <2>1. EntryRight(cache'[i])
    BY <1>5, <1>6 DEF TimesInv
  <2> QED
    BY <1>3, <2>1 DEF EntryRight
<1>11. \A b \in Askers : ask'[b] # None => ask'[b] \in asked'
  BY <1>3, <1>8 DEF TimesInv
<1>12. \A b \in Askers : answer'[b] # None => EntryRight(answer[b])'
  <2> SUFFICES ASSUME NEW b \in Askers, answer'[b] # None
               PROVE  EntryRight(answer[b])'
    OBVIOUS
  <2>1. EntryRight(answer'[b])
    <3>1. CASE b = a
      BY <1>1, <1>7, <3>1 DEF EntryRight
    <3>2. CASE b # a
      BY <1>7, <3>2 DEF TimesInv
    <3> QED
      BY <3>1, <3>2
  <2> QED
    BY <1>3, <2>1 DEF EntryRight
<1> QED
  BY <1>9, <1>10, <1>11, <1>12 DEF TimesInv

LEMMA TimesAskTimes ==
  ASSUME TimesInv, NEW a \in Askers, NEW l \in Locations(a), AskTimes(a, l)
  PROVE  TimesInv'
<1> DEFINE q == [place |-> l.place, zone |-> l.zone, date |-> Today(l.zone)]
<1>1. q \in Question
  <2>1. l.place \in Places /\ l.zone \in Zones
    BY LocationsType DEF TimesInv, Spot
  <2>2. Today(l.zone) \in Dates
    BY <2>1, TodayType DEF TimesInv
  <2> QED
    BY <2>1, <2>2 DEF Question
<1>2. /\ asks' = asks + 1 /\ asked' = asked \cup {q}
      /\ UNCHANGED <<now, pc, location, settings, cache, venueEdits, prayerFaults>>
      /\ \/ \E i \in Cached(q) : Reply(a, q, cache[i].hour) /\ UNCHANGED ask
         \/ ask' = [ask EXCEPT ![a] = q] /\ UNCHANGED answer
  BY DEF AskTimes
<1> HIDE DEF q
<1>3. \A entry : EntryRight(entry) => EntryRight(entry)'
  BY <1>2, StaysRight
<1>4. \A i \in 1 .. Len(cache') : EntryRight(cache[i])'
  BY <1>2, <1>3 DEF TimesInv
<1>5. CASE \E i \in Cached(q) : Reply(a, q, cache[i].hour) /\ UNCHANGED ask
  <2>1. PICK i \in Cached(q) : Reply(a, q, cache[i].hour) /\ UNCHANGED ask
    BY <1>5
  <2>2. i \in 1 .. Len(cache) /\ Key(cache[i]) = Key(q) /\ cache[i].hour \in 0 .. 23
        /\ EntryRight(cache[i])
    BY TimesTypes DEF Cached, TimesInv, TimesEntry
  <2>3. /\ answer' \in [Askers -> Answer \cup {None}]
        /\ Key(answer'[a]) = Key(q) /\ answer'[a].hour = cache[i].hour
        /\ \A b \in Askers : b # a => answer'[b] = answer[b]
    BY <1>1, <2>1, <2>2, ReplyType, TimesTypes DEF TimesInv
  <2>4. PrayerTimesTypeOK' /\ (venueEdits <= MaxVenueEdits)' /\ ReportsDated'
    BY <1>1, <1>2, <2>1, <2>3, TimesTypes, TimesRequests DEF TimesInv
  <2>5. \A b \in Askers : ask'[b] # None => ask'[b] \in asked'
    BY <1>2, <2>1 DEF TimesInv
  <2>6. \A b \in Askers : answer'[b] # None => EntryRight(answer[b])'
    <3> SUFFICES ASSUME NEW b \in Askers, answer'[b] # None
                 PROVE  EntryRight(answer[b])'
      OBVIOUS
    <3>1. EntryRight(answer'[b])
      <4>1. CASE b = a
        BY <2>2, <2>3, <4>1 DEF EntryRight
      <4>2. CASE b # a
        BY <2>3, <4>2 DEF TimesInv
      <4> QED
        BY <4>1, <4>2
    <3> QED
      BY <1>2, <3>1 DEF EntryRight
  <2> QED
    BY <1>4, <2>4, <2>5, <2>6 DEF TimesInv
<1>6. CASE ask' = [ask EXCEPT ![a] = q] /\ UNCHANGED answer
  <2>1. /\ ask' \in [Askers -> Question \cup {None}]
        /\ \A b \in Askers : ask'[b] = q \/ ask'[b] = ask[b]
    BY <1>1, <1>6, TimesTypes DEF TimesInv
  <2>2. PrayerTimesTypeOK' /\ (venueEdits <= MaxVenueEdits)' /\ ReportsDated'
    BY <1>1, <1>2, <1>6, <2>1, TimesTypes, TimesRequests DEF TimesInv
  <2>3. \A b \in Askers : ask'[b] # None => ask'[b] \in asked'
    BY <1>2, <2>1 DEF TimesInv
  <2>4. \A b \in Askers : answer'[b] # None => EntryRight(answer[b])'
    <3> SUFFICES ASSUME NEW b \in Askers, answer'[b] # None
                 PROVE  EntryRight(answer[b])'
      OBVIOUS
    <3>1. EntryRight(answer[b]) /\ answer'[b] = answer[b]
      BY <1>6 DEF TimesInv
    <3> QED
      BY <1>2, <3>1 DEF EntryRight
  <2> QED
    BY <1>4, <2>2, <2>3, <2>4 DEF TimesInv
<1> QED
  BY <1>2, <1>5, <1>6

LEMMA TimesInit ==
  ASSUME PrayerTimesInit
  PROVE  TimesInv
<1>1. PrayerTimesTypeOK
  <2>1. MaxNow \in Nat /\ 0 <= MAX_ENTRIES
    BY PrayerTimesConstants
  <2>2. 0 \in 0 .. MaxNow
    BY <2>1
  <2> QED
    BY <2>1, <2>2 DEF PrayerTimesInit, PrayerTimesTypeOK
<1>2. ReportsDated
  BY DEF PrayerTimesInit, ReportsDated
<1>3. venueEdits <= MaxVenueEdits
  BY PrayerTimesConstants DEF PrayerTimesInit
<1> QED
  BY <1>1, <1>2, <1>3 DEF PrayerTimesInit, TimesInv

LEMMA TimesStep ==
  ASSUME TimesInv, [PrayerTimesNext]_timesVars
  PROVE  TimesInv'
<1>1. CASE UNCHANGED timesVars
  BY <1>1 DEF timesVars, TimesInv, PrayerTimesTypeOK, ReportsDated, EntryRight
<1>2. CASE PrayerTimesNext
  BY <1>2, TimesHoursPass, TimesRestart, TimesGoesOffline, TimesHeartbeat, TimesSaveConfig,
     TimesFetched, TimesFetchFails, TimesAskTimes DEF PrayerTimesNext
<1> QED
  BY <1>1, <1>2

\* Whatever is asked, fails and restarts, what is cached and what is answered was right for
\* somebody who asked for that point and date (the cache of prayer-times.ts).
THEOREM TimesInductive == PrayerTimesSpec => []TimesInv
<1>1. PrayerTimesInit => TimesInv
  BY TimesInit
<1>2. TimesInv /\ [PrayerTimesNext]_timesVars => TimesInv'
  BY TimesStep
<1> QED
  BY <1>1, <1>2, PTL DEF PrayerTimesSpec

\* The hours, what the PCs report, what is cached, asked and answered keep their types.
THEOREM PrayerTimesTypes == PrayerTimesSpec => []PrayerTimesTypeOK
<1>1. TimesInv => PrayerTimesTypeOK
  BY DEF TimesInv
<1> QED
  BY <1>1, TimesInductive, PTL

-----------------------------------------------------------------------------
(* What the venue is told and when it pauses                               *)

\* An answer that nobody shares with another zone is right for the one who asked.
LEMMA RightForOneZone ==
  ASSUME TimesInv, NEW a \in Askers, answer[a] # None, OneZone(answer[a])
  PROVE  /\ answer[a] \in Answer
         /\ answer[a].hour = Shown(answer[a].zone, Sun[<<answer[a].place, answer[a].date>>]) % 24
<1>1. answer[a] \in Answer
  BY TimesTypes DEF TimesInv
<1>2. PICK o \in asked : Key(o) = Key(answer[a]) /\ answer[a].hour = HourAt(o)
  BY DEF TimesInv, EntryRight
<1>3. o.zone = answer[a].zone
  BY <1>2 DEF OneZone
<1>4. o.place = answer[a].place /\ o.date = answer[a].date
  BY <1>2 DEF Key
<1> QED
  BY <1>1, <1>2, <1>3, <1>4 DEF HourAt

\* The times shown and scheduled are those of the place, date and clock asked for, though
\* prayer-times.ts shares them by point and date alone, as long as nobody asked in another
\* zone.
THEOREM SharedTimesAreRight == PrayerTimesSpec => []TimesAreRight
<1>1. TimesInv => TimesAreRight
  BY RightForOneZone DEF TimesAreRight
<1> QED
  BY <1>1, TimesInductive, PTL

LEMMA DayShift ==
  ASSUME NEW m \in Int, NEW k \in Int
  PROVE  (m + 24 * k) % 24 = m % 24
OBVIOUS

LEMMA DayAndHour ==
  ASSUME NEW m \in Int
  PROVE  m \div 24 \in Int /\ m % 24 \in 0 .. 23 /\ m = 24 * (m \div 24) + (m % 24)
OBVIOUS

\* The hour at which a zone's clock shows a prayer, taken on its date, is within a day of
\* the prayer: so it is wherever the prayer of a date falls on that date or next to it.
PrayerNearItsDate ==
  \A p \in Places, d \in Dates, z \in Zones :
    LET guess == 24 * d + (Shown(z, Sun[<<p, d>>]) % 24) IN
    Sun[<<p, d>>] - 24 <= guess /\ guess <= Sun[<<p, d>>] + 24

\* The conversion of timezone-math.ts finds the instant back: the offset it reads at its
\* guess is that of the prayer.
LEMMA ConversionRight ==
  ASSUME PrayerNearItsDate, NEW p \in Places, NEW d \in Dates, NEW z \in Zones,
         Steady(z, Sun[<<p, d>>])
  PROVE  ZonedTimeToUtc(d, Shown(z, Sun[<<p, d>>]) % 24, z) % 24 = Sun[<<p, d>>] % 24
<1> DEFINE s     == Sun[<<p, d>>]
           off   == Offset(z, s)
           hour  == Shown(z, s) % 24
           guess == 24 * d + hour
<1>1. s \in Int /\ d \in Int
  BY PrayerTimesConstants DEF Dates
<1>2. off \in Int /\ hour \in 0 .. 23 /\ hour = (s + off) % 24
  BY <1>1, HourRange DEF Shown
<1>3. guess \in s - 24 .. s + 24
  <2>1. s - 24 <= guess /\ guess <= s + 24
    BY DEF PrayerNearItsDate
  <2> HIDE DEF s, hour
  <2> QED
    BY <1>1, <1>2, <2>1
<1>4. Offset(z, guess) = off
  BY <1>3 DEF Steady
<1>5. ZonedTimeToUtc(d, hour, z) = guess - off
  <2>1. guess \in Int
    BY <1>1, <1>2
  <2>2. ZonedTimeToUtc(d, hour, z) = guess + (guess - (guess + Offset(z, guess)))
    BY DEF ZonedTimeToUtc, Shown
  <2> HIDE DEF guess, off
  <2> QED
    BY <1>2, <1>4, <2>1, <2>2
<1> HIDE DEF s, off, hour
<1>6. PICK k \in Int : s + off = 24 * k + hour
  <2>1. s + off \in Int
    BY <1>1, <1>2
  <2> QED
    BY <1>2, <2>1, DayAndHour
<1>7. guess - off = s + 24 * (d - k)
  BY <1>1, <1>2, <1>6
<1>8. (s + 24 * (d - k)) % 24 = s % 24
  BY <1>1, <1>6, DayShift
<1>9. ZonedTimeToUtc(d, hour, z) % 24 = s % 24
  BY <1>5, <1>7, <1>8
<1> QED
  BY <1>9 DEF s, hour

\* The scheduler turns the time it was told into the instant of the prayer, where the clocks
\* do not change around it (timezone-math.ts, the tick of prayer-scheduler.ts).
THEOREM PauseAtThePrayer ==
  ASSUME PrayerNearItsDate
  PROVE  PrayerTimesSpec => []ScheduledOnTime
<1>1. TimesInv => ScheduledOnTime
  <2> SUFFICES ASSUME TimesInv, answer[Tick] # None, OneZone(answer[Tick]),
                      Steady(answer[Tick].zone, Sun[<<answer[Tick].place, answer[Tick].date>>])
               PROVE  ZonedTimeToUtc(answer[Tick].date, answer[Tick].hour, answer[Tick].zone) % 24
                        = Sun[<<answer[Tick].place, answer[Tick].date>>] % 24
    BY DEF ScheduledOnTime
  <2>1. Tick \in Askers
    BY PrayerTimesConstants
  <2>2. /\ answer[Tick] \in Answer
        /\ answer[Tick].hour
             = Shown(answer[Tick].zone, Sun[<<answer[Tick].place, answer[Tick].date>>]) % 24
    BY <2>1, RightForOneZone
  <2>3. /\ answer[Tick].place \in Places /\ answer[Tick].date \in Dates
        /\ answer[Tick].zone \in Zones
    BY <2>2 DEF Answer
  <2> QED
    BY <2>2, <2>3, ConversionRight
<1> QED
  BY <1>1, TimesInductive, PTL

-----------------------------------------------------------------------------
(* Whose clock                                                             *)

\* While a PC is online there is one that nobody outranks.
LEMMA SomeVenueServer ==
  ASSUME TimesInv, NEW p \in Pcs, pc[p].online
  PROVE  VenueServers # {}
<1> DEFINE Online == {q \in Pcs : pc[q].online}
           T      == {MaxVenueEdits - pc[q].at : q \in Online}
<1>1. \A q \in Pcs : pc[q].at \in Nat /\ MaxVenueEdits - pc[q].at \in Nat
  <2> SUFFICES ASSUME NEW q \in Pcs
               PROVE  pc[q].at \in Nat /\ MaxVenueEdits - pc[q].at \in Nat
    OBVIOUS
  <2>1. pc[q].at \in Nat /\ pc[q].at <= venueEdits
    BY PcType
  <2>2. venueEdits \in Nat /\ venueEdits <= MaxVenueEdits /\ MaxVenueEdits \in Nat
    BY TimesTypes DEF TimesInv
  <2> QED
    BY <2>1, <2>2
<1>2. T \subseteq Nat /\ T # {}
  BY <1>1
<1>3. PICK x \in T : \A y \in T : x <= y
  BY <1>2, LeastNat
<1>4. PICK q \in Online : x = MaxVenueEdits - pc[q].at
  OBVIOUS
<1>5. ASSUME NEW r \in Pcs, pc[r].online
      PROVE  pc[r].at <= pc[q].at
  <2>1. MaxVenueEdits - pc[q].at <= MaxVenueEdits - pc[r].at
    BY <1>3, <1>4, <1>5
  <2>2. MaxVenueEdits \in Nat
    BY TimesTypes DEF TimesInv
  <2> QED
    BY <1>1, <2>1, <2>2
<1> QED
  BY <1>5 DEF VenueServers

\* The venue's own clock rules: while an online PC of a linked Location has reported a zone,
\* the times are for a zone that an online PC reported, not for one of a PC that beats
\* without reporting any (venueServerFor of prayer-location.ts).
THEOREM VenueClockRules == PrayerTimesSpec => []VenueClockWins
<1>1. TimesInv => VenueClockWins
  <2> SUFFICES ASSUME TimesInv, settings.linked, location.city # Nowhere,
                      NEW p \in Pcs, pc[p].online, pc[p].zone # Nowhere, NEW l \in Resolved
               PROVE  \E r \in Pcs : pc[r].online /\ l.zone = pc[r].zone
    BY DEF VenueClockWins
  <2>1. VenueServers # {}
    BY SomeVenueServer
  <2>2. PICK r \in VenueServers : l = Resolve(pc[r].zone, pc[r].place)
    BY <2>1 DEF Resolved
  <2>3. r \in Pcs /\ pc[r].online /\ pc[p].at <= pc[r].at
    BY DEF VenueServers
  <2>4. pc[r].zone # Nowhere
    BY <2>3, PcType
  <2>5. l.zone = pc[r].zone
    BY <2>2, <2>4 DEF Resolve, At
  <2> QED
    BY <2>3, <2>5
<1> QED
  BY <1>1, TimesInductive, PTL

=============================================================================
