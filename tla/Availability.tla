------------------------------ MODULE Availability ------------------------------
(***************************************************************************)
(* The week and the time off of providers (provider.service.ts).  The week *)
(* is replaced as a whole: the slots are read, and one transaction deletes *)
(* those the request leaves out, writes those it names and creates the     *)
(* others.                                                                 *)
(***************************************************************************)
EXTENDS Integers, FiniteSets, Sequences, FiniteSetsExt

CONSTANTS
    Providers, Zones,       \* Zones: time zones
    Ranges, Day,            \* what requests hold: pairs of a start and an end; minutes of a day
    Periods, LongestOff,    \* time off: pairs of a start and an end; its longest duration
    Workers, MaxEntries, MaxRow, MaxOff, MaxTime,    \* bounds
    None

AvailabilityAssumption == Day \in Nat /\ LongestOff \in Nat /\ None \notin Providers

VARIABLES
    slots,      \* rows: an id, its provider, a range, a time zone, whether it is active
    timeOff,    \* rows: an id, its provider, a start and an end
    work,       \* worker |-> its replacement, and the ids it read
    rows, now   \* ids given; the clock

vars == <<slots, timeOff, work, rows, now>>

Idle == [provider |-> None, week |-> <<>>, zone |-> None, read |-> {}]
Ids(set) == {s.id : s \in set}
SlotsOf(p) == {s \in slots : s.provider = p}
Entries == [id : 0..MaxRow, range : Ranges, active : BOOLEAN]   \* id 0: a new slot
Named(week) == {week[i].id : i \in DOMAIN week} \ {0}

Init ==
    /\ slots = {} /\ timeOff = {} /\ work = [w \in Workers |-> Idle]
    /\ rows = 0 /\ now = 0

\* Slip: a slot may end when it starts.
validEmpty(week, p) ==
    \A i \in DOMAIN week :
        /\ week[i].range[1] <= week[i].range[2]
        /\ week[i].range[1] >= 0 /\ week[i].range[2] <= Day
        /\ week[i].id \in Ids(SlotsOf(p)) \cup {0}

\* Ranges may overlap, and a slot may be named twice.
valid(week, p) ==
    \A i \in DOMAIN week :
        /\ week[i].range[1] < week[i].range[2]
        /\ week[i].range[1] >= 0 /\ week[i].range[2] <= Day
        /\ week[i].id \in Ids(SlotsOf(p)) \cup {0}

readSlots(w, p, week, zone) ==
    /\ work[w] = Idle /\ valid(week, p)
    /\ rows + Cardinality({i \in DOMAIN week : week[i].id = 0}) <= MaxRow
    /\ work' = [work EXCEPT ![w] = [provider |-> p, week |-> week, zone |-> zone,
                                    read |-> Ids(SlotsOf(p))]]
    /\ UNCHANGED <<slots, timeOff, rows, now>>

\* Slip: only the new slots get the time zone of the request.
RowKeepingZone(c, i, id) ==
    [id |-> id, provider |-> c.provider, range |-> c.week[i].range, active |-> c.week[i].active,
     zone |-> IF \E s \in slots : s.id = id THEN (CHOOSE s \in slots : s.id = id).zone ELSE c.zone]

Row(c, i, id) ==
    [id |-> id, provider |-> c.provider, range |-> c.week[i].range, active |-> c.week[i].active,
     zone |-> c.zone]

\* A slot that is named twice is written twice: the last entry stays.
Updated(c) == {Row(c, Max({i \in DOMAIN c.week : c.week[i].id = x}), x) : x \in Named(c.week)}
Created(c) ==
    LET new == {i \in DOMAIN c.week : c.week[i].id = 0}
    IN {Row(c, i, rows + Cardinality({j \in new : j <= i})) : i \in new}

\* Slip: nothing is deleted.
DroppedNone(c) == Named(c.week)
\* The slots that were read and are not named.
Dropped(c) == (c.read \ Named(c.week)) \cup Named(c.week)

\* Slip: a slot that is gone is left out, the others are written.
replaceWeekUpsert(w) ==
    LET c == work[w]
        there == {s \in Updated(c) : s.id \in Ids(slots)}
    IN /\ c # Idle
       /\ slots' = {s \in slots : s.id \notin Dropped(c)} \cup there \cup Created(c)
       /\ rows' = rows + Cardinality(Created(c))
       /\ work' = [work EXCEPT ![w] = Idle]
       /\ UNCHANGED <<timeOff, now>>

\* An update of a slot that was deleted meanwhile fails, and the transaction with it; slots
\* created since are not known to it and stay.
replaceWeek(w) ==
    LET c == work[w] IN
    /\ c # Idle
    /\ IF Named(c.week) \subseteq Ids(slots)
         THEN /\ slots' = {s \in slots : s.id \notin Dropped(c)} \cup Updated(c) \cup Created(c)
              /\ rows' = rows + Cardinality(Created(c))
         ELSE UNCHANGED <<slots, rows>>
    /\ work' = [work EXCEPT ![w] = Idle]
    /\ UNCHANGED <<timeOff, now>>

createTimeOff(p, d) ==
    /\ d[1] < d[2] /\ d[2] - d[1] <= LongestOff /\ Cardinality(timeOff) < MaxOff
    /\ \E x \in 1..MaxOff :
         /\ x \notin Ids(timeOff)
         /\ timeOff' = timeOff \cup {[id |-> x, provider |-> p, from |-> d[1], to |-> d[2]]}
    /\ UNCHANGED <<slots, work, rows, now>>

own(x, p) == {t \in timeOff : t.id = x /\ t.provider = p}

deleteTimeOff(p, x) ==
    /\ own(x, p) # {} /\ timeOff' = timeOff \ own(x, p)
    /\ UNCHANGED <<slots, work, rows, now>>

Tick == now < MaxTime /\ now' = now + 1 /\ UNCHANGED <<slots, timeOff, work, rows>>

Weeks == UNION {[1..n -> Entries] : n \in 0..MaxEntries}

Next ==
    \/ \E w \in Workers : \/ \E p \in Providers, week \in Weeks, z \in Zones : readSlots(w, p, week, z)
                          \/ replaceWeek(w)
    \/ \E p \in Providers : \/ \E d \in Periods : createTimeOff(p, d)
                            \/ \E x \in 1..MaxOff : deleteTimeOff(p, x)
    \/ Tick

Spec == Init /\ [][Next]_vars

-----------------------------------------------------------------------------
(***************************************************************************)
(* The overview (the slots and the time off are two queries at once).      *)
(***************************************************************************)

\* Slip: a period that begins now has not begun.
statusLate(t) == IF t.to < now THEN "past" ELSE IF t.from >= now THEN "upcoming" ELSE "active"
statusOf(t) == IF t.to < now THEN "past" ELSE IF t.from > now THEN "upcoming" ELSE "active"

\* Slip: the hours of inactive slots count.
weeklyMinutesAll(p) == MapThenSumSet(LAMBDA s : s.range[2] - s.range[1], SlotsOf(p))
weeklyMinutes(p) ==
    MapThenSumSet(LAMBDA s : s.range[2] - s.range[1], {s \in SlotsOf(p) : s.active})

\* The one that is under way comes first.
nextTimeOff(p) ==
    LET ahead == {t \in timeOff : t.provider = p /\ statusOf(t) # "past"}
    IN IF ahead = {} THEN None ELSE Min({t.from : t \in ahead})

-----------------------------------------------------------------------------
TypeOK ==
    /\ \A s \in slots : /\ s.provider \in Providers /\ s.zone \in Zones /\ s.id \in 1..rows
                        /\ 0 <= s.range[1] /\ s.range[1] < s.range[2] /\ s.range[2] <= Day
    /\ Cardinality(Ids(slots)) = Cardinality(slots)
    /\ \A t \in timeOff : t.provider \in Providers /\ t.from < t.to
    /\ Cardinality(Ids(timeOff)) = Cardinality(timeOff)

\* Replacements that overlap add up (a slot the other created is in neither's list), to at
\* most what every call at a time may hold.
ReplacementsAddUp ==
    \A p \in Providers : Cardinality(SlotsOf(p)) <= MaxEntries * Cardinality(Workers)

\* A replacement is carried out in full or not at all, and touches the slots of no other.
ReplacesAllOrNothing ==
    \A w \in Workers : (work[w] # Idle /\ work'[w] = Idle) =>
         \/ slots' = slots
         \/ /\ \A i \in DOMAIN work[w].week : \E s \in slots' :
                 /\ s.provider = work[w].provider
                 /\ IF work[w].week[i].id = 0 THEN s.id > rows ELSE s.id = work[w].week[i].id
                 /\ \/ s.range = work[w].week[i].range
                    \/ \E j \in DOMAIN work[w].week : j > i /\ work[w].week[j].id = work[w].week[i].id
            /\ {s \in slots' : s.provider # work[w].provider} =
               {s \in slots : s.provider # work[w].provider}

\* One replacement at a time, the slots of a provider are those of the last request, all
\* of one time zone.
OneZone == \A s, t \in slots : s.provider = t.provider => s.zone = t.zone
ReplacesWeek ==
    \A w \in Workers : (work[w] # Idle /\ work'[w] = Idle) =>
         LET mine == {s \in slots' : s.provider = work[w].provider}
         IN /\ Cardinality(mine) = Cardinality(Named(work[w].week))
                                   + Cardinality({i \in DOMAIN work[w].week : work[w].week[i].id = 0})
            /\ \A s \in mine : \E i \in DOMAIN work[w].week :
                   work[w].week[i].range = s.range /\ work[w].week[i].active = s.active

\* The hours of the week are no more than the active slots cover, counted as often as they
\* overlap, and no less than the time they cover.
HoursCovered ==
    \A p \in Providers :
        LET covered(m) == Cardinality({s \in SlotsOf(p) : s.active /\ s.range[1] <= m /\ m < s.range[2]})
        IN weeklyMinutes(p) = MapThenSumSet(covered, 0..(Day - 1))

\* As the clock goes on, a time off is first ahead, then under way from its first to its
\* last moment, then past; the next one is always one that is not over.
TimeOffInOrder ==
    \A p \in Providers :
        /\ nextTimeOff(p) # None =>
             \E t \in timeOff : t.provider = p /\ t.from = nextTimeOff(p) /\ t.to >= now
        /\ \A t \in timeOff : (t.provider = p /\ t.from <= now /\ now <= t.to) =>
                                  statusOf(t) = "active" /\ nextTimeOff(p) <= now

=============================================================================
