-------------------------------- MODULE Analytics --------------------------------
(***************************************************************************)
(* The analytics pages of the back office (employee/analytics.service.ts): *)
(* the overview, the funnel, the cohorts, the zones and the operations of  *)
(* a range, over the bookings and over what other parts file: postal       *)
(* leads, clients, providers, disputes and tickets.                        *)
(***************************************************************************)
EXTENDS BookingHistory, Folds

CONSTANTS
    Files,      \* what is filed, one row each
    FileKinds,  \* bound: its kinds in use
    Zones,
    Duration,   \* ticks of a mission
    Days7, Days30, Days90, \* the spans, in ticks
    Bad         \* a date that does not parse

Kinds == {"lead", "client", "provider", "dispute", "ticket"}

AnalyticsAssumption ==
    /\ FileKinds \subseteq Kinds /\ Duration \in Nat
    /\ {Days7, Days30, Days90} \subseteq Nat /\ Days7 <= Days30 /\ Days30 <= Days90
    /\ Days30 % DayLength = 0

VARIABLE filed

analytics == <<booking, audit, now, filed>>
NotFiled == [kind |-> "none"]

InitAnalytics == InitHistory /\ filed = [f \in Files |-> NotFiled]

\* done: a dispute or ticket is resolved, a client buys its next booking, a profile completed.
file(f, kind, who) ==
    /\ filed[f] = NotFiled
    /\ filed' = [filed EXCEPT ![f] = [kind |-> kind, at |-> now, who |-> who, done |-> None,
                                      identity |-> None, ready |-> None]]
    /\ UNCHANGED history

\* Done once; a provider's identity and its onboarding may be done before its profile.
finish(f, part) ==
    /\ filed[f] # NotFiled /\ filed[f].kind \in {"dispute", "ticket", "provider"}
    /\ part \in {"identity", "ready"} => filed[f].kind = "provider"
    /\ filed[f][part] = None
    /\ filed' = [filed EXCEPT ![f] = [@ EXCEPT ![part] = now]]
    /\ UNCHANGED history

NextAnalytics ==
    \/ NextHistory /\ UNCHANGED filed
    \/ \E f \in Files, kind \in FileKinds, x \in Requests, p \in Providers :
          file(f, kind, IF kind = "provider" THEN p ELSE x.client)
    \/ \E f \in Files, part \in {"done", "identity", "ready"} : finish(f, part)

Spec == InitAnalytics /\ [][NextAnalytics]_analytics

-----------------------------------------------------------------------------
SUCCESS_PAYMENT_STATUSES == {"CAPTURED", "RELEASED"}
PENDING_PAYMENT_STATUSES == {"PENDING", "REQUIRES_ACTION", "AUTHORIZED", "CAPTURE_PENDING", "HELD"}
CANCELLATION_REASONS == {"client_cancelled", "provider_cancelled", "admin_cancelled"}
CONFIRMED_BOOKING_STATUSES == {"CONFIRMED", "IN_PROGRESS", "COMPLETED"}

\* Slip: dates the wrong way round are used as they are.
resolveRangeAsAsked(from, to) ==
    LET end == IF to = None THEN now ELSE to
        start == IF from = None THEN end - Days30 ELSE from
    IN  IF Bad \in {from, to} THEN <<now - Days30, now>> ELSE <<start, end>>

resolveRange(from, to) ==
    LET end == IF to = None THEN now ELSE to
        start == IF from = None THEN end - Days30 ELSE from
    IN  IF Bad \in {from, to} THEN <<now - Days30, now>>
        ELSE IF start > end THEN <<end - Days7, end>> ELSE <<start, end>>

\* Slip: the loop stops before the end of the range.
generateDateBucketsBefore(r) ==
    {DayOf(t) : t \in {u \in r[1]..(r[2] - 1) : (u - r[1]) % DayLength = 0}}

\* A day for every step of twenty-four hours from the start that is not after the end.
generateDateBuckets(r) == {DayOf(t) : t \in {u \in r[1]..r[2] : (u - r[1]) % DayLength = 0}}

isWithin(t, r) == t \in r[1]..r[2]
InZone(bs, z) == {b \in bs : z = None \/ Row(b).x.zone = z}
EndAt(b) == Row(b).start + Duration
Filed(kind, r) == {f \in Files : filed[f] # NotFiled /\ filed[f].kind = kind /\ isWithin(filed[f].at, r)}

CancelledWithin(r, z) == {b \in InStatus(InZone(Stored, z), {"CANCELLED"}) : isWithin(Row(b).updated, r)}
CompletedWithin(r, z) == {b \in InStatus(InZone(Stored, z), {"COMPLETED"}) : isWithin(EndAt(b), r)}
OnDay(bs, At(_), d) == {b \in bs : DayOf(At(b)) = d}
AtOf(b) == Row(b).at
UpdatedOf(b) == Row(b).updated
OccurredOf(b) == Row(b).payment.occurred

\* Ready, and profileCompletedAt in the range, or none and createdAt in it.
ActivatedWithin(r) ==
    {f \in Files : /\ filed[f] # NotFiled /\ filed[f].kind = "provider" /\ filed[f].ready # None
                   /\ isWithin(IF filed[f].done # None THEN filed[f].done ELSE filed[f].at, r)}

\* Slip: the identity is asked for first.
ActivationByIdentity(f) ==
    IF filed[f].identity # None THEN filed[f].identity
    ELSE IF filed[f].done # None THEN filed[f].done ELSE filed[f].at

getProviderActivationDate(f) ==
    IF filed[f].done # None THEN filed[f].done
    ELSE IF filed[f].identity # None THEN filed[f].identity ELSE filed[f].at

getOverview(r, z) ==
    LET created == InZone(Created(r[1], r[2]), z)
        paid == InZone(Paid(r[1], r[2], SUCCESS_PAYMENT_STATUSES), z)
        days == generateDateBuckets(r)
    IN  [created |-> Count(created), paid |-> Count(paid),
         confirmed |-> Count(InStatus(created, CONFIRMED_BOOKING_STATUSES)),
         completed |-> Count(CompletedWithin(r, z)), cancelled |-> Count(CancelledWithin(r, z)),
         smart |-> Count({b \in created : Row(b).x.smart}),
         gross |-> Total(paid, Amount), commission |-> Total(paid, Fee),
         newClients |-> Count(Filed("client", r)), newProviders |-> Count(ActivatedWithin(r)),
         trend |-> [d \in days |->
            [created |-> Count(OnDay(created, AtOf, d)),
             completed |-> Count(OnDay(CompletedWithin(r, z), EndAt, d)),
             cancelled |-> Count(OnDay(CancelledWithin(r, z), UpdatedOf, d)),
             gross |-> Total(OnDay(paid, OccurredOf, d), Amount),
             activated |-> Count(OnDay(ActivatedWithin(r), getProviderActivationDate, d))]]]

\* Slip: a payment that is captured is no longer counted as started.
StartedPendingOnly(r, z) ==
    {b \in InZone(Stored, z) : /\ Row(b).payment # None /\ isWithin(Row(b).payment.at, r)
                               /\ Row(b).payment.status \in PENDING_PAYMENT_STATUSES}

Started(r, z) ==
    {b \in InZone(Stored, z) : /\ Row(b).payment # None /\ isWithin(Row(b).payment.at, r)
                               /\ Row(b).payment.status \in SUCCESS_PAYMENT_STATUSES \cup PENDING_PAYMENT_STATUSES}

AssignedWithin(r, z) ==
    {b \in InZone(Stored, z) : \E a \in ToSet(Row(b).assignments) : isWithin(a.at, r)}

getFunnel(r, z) ==
    LET created == InZone(Created(r[1], r[2]), z)
    IN  <<Count(Filed("lead", r)), Count(InStatus(created, {"DRAFT"})),
          Count(InStatus(created, {"PENDING_CLIENT", "PENDING_PROVIDER"})),
          Count(Started(r, z)), Count(InZone(Paid(r[1], r[2], SUCCESS_PAYMENT_STATUSES), z)),
          Count(AssignedWithin(r, z)), Count(CompletedWithin(r, z))>>

WeekOf(t) == t \div Days7

\* Slip: what lies in the span alone counts, not what came before it.
ReturnedInTheSpan(gap, days) == gap > days - Days7 /\ gap <= days

\* At most so long after joining, or before.
Returned(gap, days) == gap <= days

Retained(members, joined(_), bought(_), days) ==
    {f \in members : \E t \in bought(f) : Returned(t - joined(f), days)}

Cohorts(members, joined(_), bought(_)) ==
    [w \in {WeekOf(joined(f)) : f \in members} |->
        LET of == {f \in members : WeekOf(joined(f)) = w}
        IN  [size |-> Count(of),
             retention |-> [days \in {Days7, Days30, Days90} |-> Count(Retained(of, joined, bought, days))]]]

computeClientCohorts(r) ==
    LET joined(f) == filed[f].at
        bought(f) == {Row(b).at : b \in {c \in Created(r[1], r[2] + Days90) : Row(c).x.client = filed[f].who}}
    IN  Cohorts(Filed("client", r), joined, bought)

computeProviderCohorts(r) ==
    LET missions(f) == {Row(b).start : b \in {c \in InStatus(StartsWithin(r[1], r[2] + Days90), CONFIRMED_BOOKING_STATUSES) :
                                                IsAssigned(c, filed[f].who)}}
    IN  Cohorts(ActivatedWithin(r), getProviderActivationDate, missions)

AssignedAfter(b) == Row(b).assignments[1].at - Row(b).at

\* Slip: the share of every booking there is.
AveragePriceOfAll(bs) == (2 * Total(bs, Price) + Count(Stored)) \div (2 * Count(Stored))

\* Math.round of the mean
AveragePrice(bs) == (2 * Total(bs, Price) + Count(bs)) \div (2 * Count(bs))

getZonePerformance(r, z) ==
    LET bs == InZone(StartsWithin(r[1], r[2]), z)
    IN  [k \in {Row(b).x.zone : b \in bs} |->
            LET of == {b \in bs : Row(b).x.zone = k}
                prices == {Price(b) : b \in of}
            IN  [demand |-> Count(of), matches |-> Count(Assigned(of)),
                 delay |-> Total(Assigned(of), AssignedAfter),
                 min |-> Min(prices), max |-> Max(prices),
                 avg |-> AveragePrice(of)]]

DoneBy(kind, r) == {f \in Filed(kind, r) : filed[f].done # None}

\* Slip: whatever was resolved in the range, opened in it or not.
DisputesResolvedAny(r) ==
    {f \in Files : filed[f] # NotFiled /\ filed[f].kind = "dispute" /\ filed[f].done # None
                   /\ isWithin(filed[f].done, r)}

DisputesResolved(r) == {f \in DoneBy("dispute", r) : isWithin(filed[f].done, r)}

getOperations(r, z) ==
    LET of(reason) == {i \in Audited(r[1], r[2], {reason}) : audit[i].booking \in InZone(Stored, z)}
        all == UNION {of(reason) : reason \in CANCELLATION_REASONS}
        offers == {i \in Invited({b \in InZone(Stored, z) : Row(b).x.smart}) : isWithin(Invitation(i).at, r)}
    IN  [cancellations |-> Count(all), client |-> Count(of("client_cancelled")),
         provider |-> Count(of("provider_cancelled")), admin |-> Count(of("admin_cancelled")),
         trend |-> [d \in generateDateBuckets(r) |-> Count({i \in all : DayOf(audit[i].at) = d})],
         disputesOpened |-> Count(Filed("dispute", r)), disputesResolved |-> Count(DisputesResolved(r)),
         ticketsOpened |-> Count(Filed("ticket", r)), ticketsResolved |-> Count(DoneBy("ticket", r)),
         invitations |-> Count(offers),
         accepted |-> Count({i \in offers : Invitation(i).status = "ACCEPTED"}),
         responded |-> Count({i \in offers : Invitation(i).respondedAt # None})]

-----------------------------------------------------------------------------
TypeOK ==
    /\ \A f \in Files : filed[f] # NotFiled =>
          filed[f].at \in 0..now /\ filed[f].done \in {None} \cup filed[f].at..now
    /\ \A b \in Stored : Row(b).status \in BookingStatus /\ Row(b).updated \in Row(b).at..now

Dates == {None, Bad} \cup 0..now
SumOver(f, Part(_)) == MapThenSumSet(LAMBDA k : Part(f[k]), DOMAIN f)
CreatedOf(row) == row.created
CompletedOf(row) == row.completed
CancelledOf(row) == row.cancelled
GrossOf(row) == row.gross
ActivatedOf(row) == row.activated
Self(n) == n

\* A range never ends before it starts, whatever the request says.
RangeOrdered ==
    \A from \in Dates, to \in Dates :
        LET r == resolveRange(from, to) IN r[1] <= r[2] /\ r[2] <= now + Days90

\* The days of a trend add up to the figures beside it in every range of whole days, the
\* default one among them; any other one loses its last day and nothing else.
TrendsAddUp ==
    \A from \in {None} \cup 0..now :
        LET r == resolveRange(from, None)
            o == getOverview(r, None)
            p == getOperations(r, None)
            lost == DayOf(now) \notin generateDateBuckets(r)
            today == <<now - (now % DayLength), now>>
            off(n, ofToday) == IF lost THEN n - ofToday ELSE n
        IN  /\ (r[2] - r[1]) % DayLength = 0 => ~lost
            /\ SumOver(o.trend, CreatedOf) = off(o.created, Count(Created(today[1], now)))
            /\ SumOver(o.trend, CancelledOf) = off(o.cancelled, Count(CancelledWithin(today, None)))
            /\ SumOver(o.trend, CompletedOf) = off(o.completed, Count(CompletedWithin(today, None)))
            /\ SumOver(o.trend, GrossOf) = off(o.gross, Total(Paid(today[1], now, SUCCESS_PAYMENT_STATUSES), Amount))
            /\ SumOver(p.trend, Self) <= p.cancellations
            /\ ~lost => SumOver(p.trend, Self) = p.cancellations

\* Every provider the default range counts is activated on one of its days: the day is that of
\* the profile, the identity or the row, the range looks at the profile or the row.
ActivationsOnDays ==
    LET o == getOverview(resolveRange(None, None), None)
    IN  SumOver(o.trend, ActivatedOf) = o.newProviders

\* Over all of the time, no more payments are captured than were started, and what is
\* confirmed was asked for.
FunnelNarrows ==
    LET f == getFunnel(<<0, now>>, None)
        o == getOverview(<<0, now>>, None)
    IN  /\ f[5] <= f[4] /\ f[5] = o.paid
        /\ f[2] + f[3] + o.confirmed <= o.created
        /\ o.gross >= o.commission

\* Who comes back within seven days comes back within thirty and ninety, nobody is in two
\* cohorts, and every member of the range is in one.
CohortsNested ==
    LET c == computeClientCohorts(<<0, now>>)
        p == computeProviderCohorts(<<0, now>>)
        Nested(row) == /\ row.retention[Days7] <= row.retention[Days30]
                       /\ row.retention[Days30] <= row.retention[Days90]
                       /\ row.retention[Days90] <= row.size
        SizeOf(row) == row.size
    IN  /\ \A w \in DOMAIN c : Nested(c[w])
        /\ \A w \in DOMAIN p : Nested(p[w])
        /\ SumOver(c, SizeOf) = Count(Filed("client", <<0, now>>))
        /\ SumOver(p, SizeOf) = Count(ActivatedWithin(<<0, now>>))

\* The zones share the bookings of the range among them, none is matched more often than it
\* is asked for, and an average lies between the least and the greatest price.
ZonesAddUp ==
    \A z \in {None} \cup Zones :
        LET r == <<0, now + Days90>>
            rows == getZonePerformance(r, z)
            DemandOf(row) == row.demand
        IN  /\ SumOver(rows, DemandOf) = Count(InZone(StartsWithin(r[1], r[2]), z))
            /\ \A k \in DOMAIN rows : /\ rows[k].matches <= rows[k].demand /\ rows[k].delay >= 0
                                      /\ rows[k].min <= rows[k].avg /\ rows[k].avg <= rows[k].max

\* Of what a range opened no more is resolved than was opened, and every answer counted as
\* an acceptance has a time.
OperationsBounded ==
    \A from \in 0..now :
        LET o == getOperations(<<from, now>>, None)
        IN  /\ o.disputesResolved <= o.disputesOpened /\ o.ticketsResolved <= o.ticketsOpened
            /\ o.accepted <= o.responded /\ o.responded <= o.invitations
            /\ o.client + o.provider + o.admin = o.cancellations

=============================================================================
