---------------------------- MODULE ProviderEarnings ----------------------------
(***************************************************************************)
(* What a provider is shown of its missions and money: the list of         *)
(* earnings, put together from three queries, the missions and the front   *)
(* page (provider.service.ts).  Days are the unit of time, cents of money. *)
(***************************************************************************)
EXTENDS Integers, FiniteSets, FiniteSetsExt

CONSTANTS
    MaxBooking,               \* bound: bookings are 1..MaxBooking, in the order of their ids
    Lengths, Leads,           \* of missions, and from the request to the start
    Statuses, Amounts, PayoutStatuses,    \* what bookings and shares may be; bounds
    Lookback, Week,           \* 120 and 7 days
    Limits,                   \* of the pages that are asked for
    Rates,                    \* cents a provider may ask for
    MaxTime, None

EarningsAssumption ==
    /\ PayoutStatuses \subseteq {"processing", "paid", "failed"}
    /\ Lookback \in Nat /\ Week \in Nat /\ Limits \subseteq Nat \ {0}

VARIABLES booking, share, now

vars == <<booking, share, now>>

Missions == 1..MaxBooking
Stored == {b \in Missions : booking[b] # None}
Mine == {b \in Stored : booking[b].assigned}

Init == booking = [b \in Missions |-> None] /\ share = [b \in Missions |-> None] /\ now = 0

\* Elsewhere: bookings are made, move on, are given to another provider.
create(b, lead, length) ==
    /\ booking[b] = None /\ (b > 1 => booking[b - 1] # None)
    /\ booking' = [booking EXCEPT ![b] = [status |-> "CONFIRMED", assigned |-> TRUE,
                                          start |-> now + lead, end |-> now + lead + length]]
    /\ UNCHANGED <<share, now>>
move(b, s) ==
    /\ b \in Stored /\ booking' = [booking EXCEPT ![b].status = s] /\ UNCHANGED <<share, now>>
withdraw(b) ==
    /\ b \in Mine /\ booking' = [booking EXCEPT ![b].assigned = FALSE] /\ UNCHANGED <<share, now>>

\* Elsewhere: the provider's share of a payment is recorded, joins a payout and is paid.
\* Slip: a share is recorded for a booking that does not exist.
distributeUnbooked(b, amount) ==
    /\ share[b] = None
    /\ share' = [share EXCEPT ![b] = [amount |-> amount, status |-> "pending", updated |-> now]]
    /\ UNCHANGED <<booking, now>>
distribute(b, amount) ==
    /\ b \in Mine /\ share[b] = None
    /\ share' = [share EXCEPT ![b] = [amount |-> amount, status |-> "pending", updated |-> now]]
    /\ UNCHANGED <<booking, now>>
payOut(b, s) ==
    /\ share[b] # None /\ share[b].status # "paid"
    /\ share' = [share EXCEPT ![b].status = s, ![b].updated = now] /\ UNCHANGED <<booking, now>>

Tick == now < MaxTime /\ now' = now + 1 /\ UNCHANGED <<booking, share>>

Next ==
    \/ \E b \in Missions : \/ \E lead \in Leads, length \in Lengths : create(b, lead, length)
                           \/ \E s \in Statuses : move(b, s)
                           \/ withdraw(b)
                           \/ \E amount \in Amounts : distribute(b, amount)
                           \/ \E s \in PayoutStatuses : payOut(b, s)
    \/ Tick

Spec == Init /\ [][Next]_vars

-----------------------------------------------------------------------------
(***************************************************************************)
(* Money: a quarter is the platform's, with a tax of 19 percent on it.     *)
(***************************************************************************)

Round(n, d) == (2 * n + d) \div (2 * d)
Commission(gross) == LET base == Round(25 * gross, 100) IN base + Round(19 * base, 100)
\* Slip: the tax on the commission is forgotten.
NetUntaxed(gross) == gross - Round(25 * gross, 100)
Net(gross) == gross - Commission(gross)
\* NET_PROVIDER_SHARE_FACTOR is 0.7025.
GrossOf(amount) == Max({amount, Round(10000 * amount, 7025)})

\* computeMissionBreakdown of a statement: what the client paid, where it is more, else what
\* the share is computed back to.
computeMissionBreakdown(amount, clientTotal) ==
    [gross |-> IF clientTotal > amount THEN clientTotal ELSE Round(10000 * amount, 7025),
     fee |-> Commission(IF clientTotal > amount THEN clientTotal ELSE Round(10000 * amount, 7025)),
     net |-> amount]

-----------------------------------------------------------------------------
(***************************************************************************)
(* The earnings: three queries, sorted together, filtered and cut.         *)
(***************************************************************************)

\* Slip: only of missions the provider still has.
SharedOfMine == {b \in Mine : share[b] # None}
Shared == {b \in Stored : share[b] # None}

\* Slip: bookings with a share are not left out.
AwaitingTwice == {b \in Mine : /\ booking[b].status \in {"COMPLETED", "IN_PROGRESS"}
                               /\ booking[b].end \in (now - Lookback)..(now - 1)}
Awaiting == {b \in Mine \ Shared : /\ booking[b].status \in {"COMPLETED", "IN_PROGRESS"}
                                   /\ booking[b].end \in (now - Lookback)..(now - 1)}
Upcoming ==
    {b \in Mine \ Shared :
        \/ /\ booking[b].status \in {"PENDING_PROVIDER", "PENDING_CLIENT", "CONFIRMED"}
           /\ booking[b].start >= now
        \/ booking[b].status = "IN_PROGRESS" /\ booking[b].end > now}

\* The rows from skip on of a query, at most limit; rows that rank alike by their ids.
Cut(S, Before(_, _), skip, limit) ==
    {x \in S : Cardinality({y \in S : Before(y, x)}) \in skip..(skip + limit - 1)}
Earlier(x, y, a, b) == a < b \/ (a = b /\ x < y)

ByUpdate(x, y) == Earlier(x, y, -share[x].updated, -share[y].updated)
ByEnd(x, y) == Earlier(x, y, -booking[x].end, -booking[y].end)
ByStart(x, y) == Earlier(x, y, booking[x].start, booking[y].start)

Mission(b) == [id |-> b, end |-> booking[b].end,
               status |-> CASE b \in Shared -> IF share[b].status = "paid" THEN "paid" ELSE "payable"
                            [] b \in Awaiting -> "awaiting_validation"
                            [] OTHER -> "upcoming"]
ClassOf(m) == CASE m.status \in {"paid", "payable"} -> 1
                [] m.status = "awaiting_validation" -> 2
                [] m.status = "upcoming" -> 3
InOrder(m, n) == \/ m.end > n.end
                 \/ m.end = n.end /\ Earlier(m.id, n.id, ClassOf(m), ClassOf(n))

\* Slip: the missions that come are skipped twice too, but not those that are over.
FetchedSkippingAhead(limit, offset) ==
    {Mission(b) : b \in Cut(Shared, ByUpdate, 0, limit) \cup Cut(Awaiting, ByEnd, 0, limit)
                        \cup Cut(Upcoming, ByStart, offset, limit)}

\* Only the missions that wait are fetched from the offset on.
Fetched(limit, offset) ==
    {Mission(b) : b \in Cut(Shared, ByUpdate, 0, limit) \cup Cut(Awaiting, ByEnd, offset, limit)
                        \cup Cut(Upcoming, ByStart, 0, limit)}

\* And the offset is applied once more to what was fetched.
resolveProviderEarnings(status, limit, offset) ==
    Cut({m \in Fetched(limit, offset) : status \in {None, m.status}}, InOrder, offset, limit)

computeEarningSummary(missions) ==
    [s \in {"payable", "paid", "awaiting_validation", "upcoming"} |->
        Cardinality({m \in missions : m.status = s})]
paidOrPayableCents(missions) ==
    MapThenSumSet(LAMBDA m : IF ClassOf(m) = 1 THEN share[m.id].amount ELSE 0, missions)

-----------------------------------------------------------------------------
(***************************************************************************)
(* The missions and the front page.                                        *)
(***************************************************************************)

listMissions(status, from, to) ==
    {b \in Mine : status \in {None, booking[b].status} /\ booking[b].start \in from..to}
\* Slip: a mission can be opened from its first day on.
getMissionStarted(b) == CASE b \notin Stored -> "BOOKING_NOT_FOUND"
                          [] b \in Stored /\ (b \notin Mine \/ booking[b].start > now) -> "BOOKING_FORBIDDEN"
                          [] OTHER -> "ok"
getMission(b) == CASE b \notin Stored -> "BOOKING_NOT_FOUND" [] b \in Stored \ Mine -> "BOOKING_FORBIDDEN"
                   [] OTHER -> "ok"

\* Whatever their status: a cancelled mission is still shown as one that comes.
upcoming == Cut({b \in Mine : booking[b].start >= now}, ByStart, 0, 5)
scheduled == {b \in Mine : booking[b].start \in now..(now + Week)}
buildSchedule == {[date |-> booking[b].start, missions |-> {x \in scheduled : booking[x].start = booking[b].start}]
                  : b \in scheduled}

Counted(s) == {b \in Mine : booking[b].status = s}
overdueMissions == {b \in Counted("IN_PROGRESS") : booking[b].end < now}
within24h == {b \in upcoming : booking[b].start - now <= 1}

\* Slip: the missions of the next day are counted before all is called well.
buildAlertsLate ==
    LET alerts == (IF Counted("PENDING_CLIENT") # {} THEN {"pending_confirmations"} ELSE {})
             \cup (IF overdueMissions # {} THEN {"overdue_missions"} ELSE {})
             \cup (IF Counted("DISPUTED") # {} THEN {"disputed"} ELSE {})
             \cup (IF within24h # {} THEN {"next_day"} ELSE {})
    IN IF alerts = {} THEN {"all_good"} ELSE alerts

buildAlerts ==
    LET alerts == (IF Counted("PENDING_CLIENT") # {} THEN {"pending_confirmations"} ELSE {})
             \cup (IF overdueMissions # {} THEN {"overdue_missions"} ELSE {})
             \cup (IF Counted("DISPUTED") # {} THEN {"disputed"} ELSE {})
    IN (IF alerts = {} THEN {"all_good"} ELSE alerts)
       \cup (IF within24h # {} THEN {"next_day"} ELSE {})

-----------------------------------------------------------------------------
TypeOK ==
    /\ \A b \in Stored : booking[b].status \in Statuses \cup {"CONFIRMED"} /\ booking[b].start <= booking[b].end
    /\ \A b \in Shared : share[b].status \in {"pending", "processing", "paid", "failed"}
                         /\ share[b].updated <= now
    /\ \A b \in Missions : share[b] # None => b \in Stored

\* A mission is in one of the three lists at most; it is in none if it was cancelled or is in
\* dispute, if it should have begun or was completed early, and at the moment it ends.
EachMissionOnce ==
    /\ Awaiting \cap Upcoming = {} /\ Shared \cap (Awaiting \cup Upcoming) = {}
    /\ \A b \in Mine \ (Shared \cup Awaiting \cup Upcoming) :
         \/ booking[b].status \in {"DRAFT", "CANCELLED", "DISPUTED"}
         \/ booking[b].status \in {"PENDING_PROVIDER", "PENDING_CLIENT", "CONFIRMED"} /\ booking[b].start < now
         \/ booking[b].status = "COMPLETED" /\ booking[b].end >= now
         \/ booking[b].status = "IN_PROGRESS" /\ booking[b].end = now
         \/ booking[b].end < now - Lookback

\* Paging through the earnings shows no mission twice, although the offset is applied to one
\* of the three queries and again to what they return (missions may be left out by it).
NothingTwice ==
    \A status \in {None, "payable", "awaiting_validation", "upcoming"}, limit \in Limits, k \in 0..1 :
        resolveProviderEarnings(status, limit, k * limit)
            \cap resolveProviderEarnings(status, limit, (k + 1) * limit) = {}

\* Without a limit that bites, the summary counts every share once, paid or not, also of a
\* booking that was cancelled since or given to another.
EveryShareCounted ==
    LET all == resolveProviderEarnings(None, MaxBooking, 0)
    IN /\ paidOrPayableCents(all) =
            MapThenSumSet(LAMBDA b : share[b].amount, {b \in Missions : share[b] # None})
       /\ computeEarningSummary(all)["paid"] = Cardinality({b \in Shared : share[b].status = "paid"})

\* A mission of the earnings can be opened unless its share outlived its assignment, and
\* whatever the list of missions shows can be.
ListedCanBeOpened ==
    /\ \A b \in Awaiting \cup Upcoming \cup upcoming : getMission(b) = "ok" /\ b \in listMissions(None, 0, booking[b].start)
    /\ \A b \in Shared : getMission(b) # "ok" => ~booking[b].assigned

\* What comes today or tomorrow does not hide that all is well, and a problem always does.
AllGoodMeansNoProblem ==
    "all_good" \in buildAlerts <=>
        \A b \in Mine : /\ booking[b].status \notin {"PENDING_CLIENT", "DISPUTED"}
                        /\ booking[b].status = "IN_PROGRESS" => booking[b].end >= now

\* The fee never eats the net, and a share computed back to its gross, on the list or on a
\* statement, is within two cents of what it was computed from.
SharesRoundTrip ==
    \A gross \in Rates :
        /\ 0 <= Net(gross) /\ Net(gross) + Commission(gross) = gross
        /\ GrossOf(Net(gross)) - gross \in -2..2
        /\ LET s == computeMissionBreakdown(Net(gross), 0) IN s.gross - s.fee - s.net \in -2..2
        /\ \A b \in Shared : share[b].amount = Net(gross) => GrossOf(share[b].amount) - gross \in -2..2

=============================================================================
