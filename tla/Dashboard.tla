-------------------------------- MODULE Dashboard --------------------------------
(***************************************************************************)
(* The two front pages of the back office, which count the same bookings   *)
(* and payments in queries of their own: employee/dashboard.service.ts     *)
(* and the overview of employee/bookings.service.ts.  Months are spans of  *)
(* days as weeks are; the process runs in UTC.                             *)
(***************************************************************************)
EXTENDS BookingHistory

CONSTANTS
    WeekDays, MonthDays,    \* days of a week and of a month
    ChartDays, ChartWeeks,  \* the length of the charts
    RecentDays,             \* what performance looks back on
    AheadDays,              \* how far ahead a provider is busy
    MaxRecent               \* MAX_RECENT_BOOKINGS

DashboardAssumption ==
    {WeekDays, MonthDays, ChartDays, ChartWeeks, RecentDays, AheadDays, MaxRecent} \subseteq Nat \ {0}

VARIABLE active     \* the accounts of the providers that are active

dashboard == <<booking, audit, now, active>>

InitDashboard == InitHistory /\ active = Providers

\* update of an account: the missions of the account stay.
setActive(p, on) ==
    /\ active' = IF on THEN active \cup {p} ELSE active \ {p}
    /\ active' # active
    /\ UNCHANGED history

NextDashboard ==
    \/ NextHistory /\ UNCHANGED active
    \/ \E p \in Providers, on \in BOOLEAN : setActive(p, on)

Spec == InitDashboard /\ [][NextDashboard]_dashboard

-----------------------------------------------------------------------------
successPaymentStatuses == {"CAPTURED", "RELEASED"}

\* Slip: money that is held is forgotten.
pendingWithoutHeld == {"PENDING", "REQUIRES_ACTION", "AUTHORIZED", "CAPTURE_PENDING"}

pendingPaymentStatuses == {"PENDING", "REQUIRES_ACTION", "AUTHORIZED", "CAPTURE_PENDING", "HELD"}
failedPaymentStatuses == {"FAILED", "DISPUTED"}
refundedPaymentStatuses == {"REFUNDED"}

startOfDay(t) == t - (t % DayLength)
startOfWeek(t) == t - (t % (WeekDays * DayLength))
startOfMonth(t) == t - (t % (MonthDays * DayLength))
addDays(t, n) == t + n * DayLength

bookingsChartStart == addDays(startOfDay(now), 1 - ChartDays)
revenueChartStart == addDays(startOfWeek(now), (1 - ChartWeeks) * WeekDays)

\* toFixed and Math.round of a ratio in percent; nothing of nothing is nothing.
Percent(n, d) == IF d = 0 THEN 0 ELSE (200 * n + d) \div (2 * d)

Payments(ss) == {b \in Stored : Row(b).payment # None /\ Row(b).payment.status \in ss}
RevenueSince(t) == Total({b \in Payments(successPaymentStatuses) : Row(b).payment.occurred >= t}, Amount)
Since(t) == {b \in Stored : Row(b).at >= t}

dashboardBookings ==
    LET of(ss) == Count(InStatus(Stored, ss))
        total == Count(Stored)
    IN  [total |-> total, today |-> Count(Since(startOfDay(now))),
         thisWeek |-> Count(Since(startOfWeek(now))), thisMonth |-> Count(Since(startOfMonth(now))),
         draft |-> of({"DRAFT"}), pending |-> of({"PENDING_CLIENT", "PENDING_PROVIDER"}),
         confirmed |-> of({"CONFIRMED"}), cancelled |-> of({"CANCELLED"}), completed |-> of({"COMPLETED"}),
         shortNotice |-> Count({b \in Stored : Row(b).x.short}),
         cancellationRate |-> Percent(of({"CANCELLED"}), total),
         conversionRate |-> Percent(of({"CONFIRMED", "IN_PROGRESS", "COMPLETED"}), total - of({"DRAFT"}))]

\* The basket is that of the completed bookings.
dashboardFinances ==
    LET done == InStatus(Stored, {"COMPLETED"})
    IN  [today |-> RevenueSince(startOfDay(now)), week |-> RevenueSince(startOfWeek(now)),
         month |-> RevenueSince(startOfMonth(now)),
         succeeded |-> Count(Payments(successPaymentStatuses)), pending |-> Count(Payments(pendingPaymentStatuses)),
         failed |-> Count(Payments(failedPaymentStatuses)), refunded |-> Count(Payments(refundedPaymentStatuses)),
         fees |-> Total(Payments(successPaymentStatuses), Fee),
         basket |-> IF done = {} THEN 0 ELSE Total(done, Price) \div Count(done)]

bookingsPerDay ==
    [i \in 0..(ChartDays - 1) |->
        Count({b \in Since(bookingsChartStart) : startOfDay(Row(b).at) = addDays(bookingsChartStart, i)})]

revenuePerWeek ==
    [i \in 0..(ChartWeeks - 1) |->
        Total({b \in Payments(successPaymentStatuses) :
                  startOfWeek(Row(b).payment.occurred) = addDays(revenueChartStart, i * WeekDays)}, Amount)]

Ahead == {b \in InStatus(Stored, {"CONFIRMED", "IN_PROGRESS"}) :
             Row(b).start >= now /\ Row(b).start < addDays(now, AheadDays)}

\* Slip: a provider counts once for each of its missions.
busyPerMission == {<<p, b>> \in Providers \X Ahead : IsAssigned(b, p)}

busyProviders == {p \in Providers : \E b \in Ahead : IsAssigned(b, p)}

dashboardOperations ==
    LET since == addDays(now, -RecentDays)
        eligible == {b \in Stored : Row(b).start >= since}
        recent(ss) == {b \in InStatus(Stored, ss) : Row(b).updated >= since}
    IN  [occupancyRate |-> Percent(Count(busyProviders), Count(active)),
         matching |-> Percent(Count(Assigned(eligible)), Count(eligible)),
         onTime |-> Percent(Count(recent({"COMPLETED"})), Count(recent({"CONFIRMED", "IN_PROGRESS", "COMPLETED"})))]

-----------------------------------------------------------------------------
(***************************************************************************)
(* The overview of employee/bookings.service.ts.                           *)
(***************************************************************************)
shortNoticeStatuses == {"PENDING_PROVIDER", "PENDING_CLIENT", "CONFIRMED", "IN_PROGRESS"}
cancelledStatuses == {"CANCELLED", "DISPUTED"}

\* Slip: a booking is dated by when it was asked for.
buildDailyChartByCreation(bs) ==
    LET days == {startOfDay(Row(b).at) : b \in bs}
    IN  [d \in {addDays(bookingsChartStart, i) : i \in 0..(ChartDays - 1)} \cup days |->
            Count({b \in bs : startOfDay(Row(b).at) = d})]

\* A day beyond the chart is added to it.
buildDailyChart(bs) ==
    LET days == {startOfDay(Row(b).start) : b \in bs}
    IN  [d \in {addDays(bookingsChartStart, i) : i \in 0..(ChartDays - 1)} \cup days |->
            Count({b \in bs : startOfDay(Row(b).start) = d})]

\* The number of the week in its year names the week.
getWeekNumber(t) == startOfWeek(t) \div (WeekDays * DayLength)

buildWeeklyRevenueChart(bs) ==
    LET weeks == {getWeekNumber(Row(b).payment.occurred) : b \in bs}
    IN  [w \in {getWeekNumber(addDays(revenueChartStart, i * WeekDays)) : i \in 0..(ChartWeeks - 1)} \cup weeks |->
            Total({b \in bs : getWeekNumber(Row(b).payment.occurred) = w}, Amount)]

\* Slip: the latest write counts, not the request.
recentUpdated == {b \in Stored : Count({c \in Stored : Row(c).updated > Row(b).updated}) < MaxRecent}

\* The bookings that may be among the most recent ones.
recent == {b \in Stored : Count({c \in Stored : Row(c).at > Row(b).at}) < MaxRecent}

mapListItem(b) ==
    [status |-> Row(b).status, shortNotice |-> Row(b).x.short, total |-> Price(b),
     provider |-> IF Row(b).assignments = <<>> THEN None ELSE Row(b).assignments[1].provider,
     paymentStatus |-> IF Row(b).payment = None THEN None ELSE Row(b).payment.status]

getOverview ==
    [all |-> Count(Stored),
     upcoming |-> Count({b \in InStatus(Stored, shortNoticeStatuses) : Row(b).start >= now}),
     completed |-> Count(InStatus(Stored, {"COMPLETED"})), cancelled |-> Count(InStatus(Stored, cancelledStatuses)),
     shortNotice |-> Count({b \in Stored : Row(b).x.short}),
     statuses |-> [s \in {Row(b).status : b \in Stored} |-> Count(InStatus(Stored, {s}))],
     payments |-> [s \in {Row(b).payment.status : b \in Payments(PaymentStatus)} |-> Count(Payments({s}))],
     revenueToday |-> RevenueSince(startOfDay(now)), revenueWeek |-> RevenueSince(startOfWeek(now)),
     revenueMonth |-> RevenueSince(startOfMonth(now)),
     basket |-> IF Stored = {} THEN 0 ELSE (2 * Total(Stored, Price) + Count(Stored)) \div (2 * Count(Stored)),
     byDay |-> buildDailyChart({b \in Stored : Row(b).start >= bookingsChartStart}),
     byWeek |-> buildWeeklyRevenueChart({b \in Payments(successPaymentStatuses) :
                                             Row(b).payment.occurred >= revenueChartStart}),
     recent |-> {mapListItem(b) : b \in recent}]

-----------------------------------------------------------------------------
TypeOK ==
    /\ active \subseteq Providers
    /\ \A b \in Stored : Row(b).status \in BookingStatus /\ Row(b).updated \in Row(b).at..now

SumOf(f) == MapThenSumSet(LAMBDA k : f[k], DOMAIN f)

\* Every payment is in one class of the summary and every booking in one status, in progress
\* and disputed aside; what is of today is of this week and of this month.
ClassesAreWhole ==
    LET b == dashboardBookings
        f == dashboardFinances
    IN  /\ f.succeeded + f.pending + f.failed + f.refunded = Count(Payments(PaymentStatus))
        /\ b.draft + b.pending + b.confirmed + b.cancelled + b.completed
              + Count(InStatus(Stored, {"IN_PROGRESS", "DISPUTED"})) = b.total
        /\ b.today <= b.thisWeek /\ b.today <= b.thisMonth /\ f.today <= f.week /\ f.today <= f.month
        /\ b.cancellationRate <= 100 /\ b.conversionRate <= 100

\* The charts hold what the figures beside them count: every booking and payment of their
\* span once, in the span, and the last bar is that of today or of this week.
ChartsAddUp ==
    /\ SumOf(bookingsPerDay) = Count(Since(bookingsChartStart))
    /\ bookingsPerDay[ChartDays - 1] = dashboardBookings.today
    /\ SumOf(revenuePerWeek) = RevenueSince(revenueChartStart)
    /\ revenuePerWeek[ChartWeeks - 1] = dashboardFinances.week
    /\ SumOf(getOverview.byDay) = Count({b \in Stored : Row(b).start >= bookingsChartStart})
    /\ \A d \in DOMAIN getOverview.byDay : d >= bookingsChartStart
    /\ SumOf(getOverview.byWeek) = SumOf(revenuePerWeek)
    /\ DOMAIN getOverview.byWeek = {getWeekNumber(revenueChartStart) + i : i \in 0..(ChartWeeks - 1)}

\* The two pages tell the same of what both count, and no booking is called recent unless every
\* one asked for later is.
PagesAgree ==
    LET o == getOverview
        b == dashboardBookings
        of(ss) == MapThenSumSet(LAMBDA s : o.statuses[s], ss \cap DOMAIN o.statuses)
    IN  /\ o.all = b.total /\ SumOf(o.statuses) = b.total /\ o.shortNotice = b.shortNotice
        /\ o.completed = b.completed /\ o.cancelled = b.cancelled + of({"DISPUTED"})
        /\ b.pending = of({"PENDING_CLIENT", "PENDING_PROVIDER"})
        /\ o.upcoming + o.completed + o.cancelled <= o.all
        /\ \A c \in recent, d \in Stored : Row(d).at > Row(c).at => mapListItem(d) \in o.recent /\ d \in recent

\* More of the active providers are busy than there are only while one that was deactivated
\* still has missions; the other rates are shares.
OccupancyExplained ==
    /\ dashboardOperations.occupancyRate > 100 => \E p \in Providers \ active, b \in Ahead : IsAssigned(b, p)
    /\ dashboardOperations.matching <= 100 /\ dashboardOperations.onTime <= 100

=============================================================================
