----------------------------- MODULE MatchingReports -----------------------------
(***************************************************************************)
(* What employee/smart-matching.service.ts reports of the bookings that    *)
(* were matched: the overview and history of a range, one booking's        *)
(* timeline, and the scenarios, policies and guardrails.                   *)
(***************************************************************************)
EXTENDS BookingHistory

CONSTANTS
    Companies, EcoProviders, \* providers of that kind; the others are freelancers
    Weekend,                 \* the days of a weekend
    Hours24, Hours48         \* the two limits of a lead time, in ticks

ReportsAssumption ==
    /\ Companies \subseteq Providers /\ EcoProviders \subseteq Providers /\ Weekend \subseteq Nat
    /\ Hours24 \in Nat /\ Hours48 \in Nat /\ Hours24 < Hours48

Init == InitHistory
Next == NextHistory
Spec == Init /\ [][Next]_history

ACTIVE_MATCHING_STATUSES == {"PENDING_PROVIDER", "PENDING_CLIENT", "CONFIRMED", "IN_PROGRESS"}

Matches(from, to) == {b \in Created(from, to) : Row(b).x.smart}
InvitedAt(b) == {Invitation(i).at : i \in Invited({b})}
RespondedAt(b) == {Invitation(i).respondedAt : i \in Invited({b})} \ {None}

\* Slip: a cancelled booking that has no provider is still being matched.
PendingAny(bs) == bs

Pending(bs) == InStatus(bs \ Assigned(bs), ACTIVE_MATCHING_STATUSES)

MatchesOfDay(bs, d) == {b \in bs : DayOf(Row(b).at) = d}

getOverview(from, to) ==
    LET bs == Matches(from, to)
        answered == {b \in bs : RespondedAt(b) # {}}
    IN  [totalMatches |-> Count(bs), successfulMatches |-> Count(Assigned(bs)),
         pendingMatches |-> Count(Pending(bs)),
         contacted |-> Count(Invited(bs)),
         firstResponse |-> [b \in answered |-> Min(RespondedAt(b)) - Min(InvitedAt(b))],
         matchesByDay |-> [d \in {DayOf(Row(b).at) : b \in bs} |->
            [total |-> Count(MatchesOfDay(bs, d)),
             successful |-> Count(Assigned(MatchesOfDay(bs, d)))]],
         responsesByStatus |-> [s \in {Invitation(i).status : i \in Invited(bs)} |->
            Count({i \in Invited(bs) : Invitation(i).status = s})]]

\* The filters of the history that read what a booking went through.
listHistory(from, to, result, invitationStatus) ==
    {b \in Matches(from, to) :
        /\ CASE result = "assigned" -> Row(b).assignments # <<>>
             [] result = "unassigned" -> Row(b).assignments = <<>>
             [] OTHER -> TRUE
        /\ invitationStatus = None
           \/ \E i \in Invited({b}) : Invitation(i).status = invitationStatus}

buildInvitationSummary(b) ==
    LET of(ss) == Count({i \in Invited({b}) : Invitation(i).status \in ss})
    IN  [total |-> Count(Invited({b})), accepted |-> of({"ACCEPTED"}), declined |-> of({"DECLINED"}),
         expired |-> of({"EXPIRED"}), pending |-> of({"PENDING"})]

Event(type, p, at) == [type |-> type, provider |-> p, at |-> at]

\* The events in the order they are collected: invitation by invitation, the assignment last.
Collected(b) ==
    FlattenSeq([k \in 1..Count(Invited({b})) |->
        LET p == SetToSeq({i[2] : i \in Invited({b})})[k]
            i == Row(b).invitation[p]
        IN  <<Event("INVITED", p, i.at)>>
            \o (IF i.respondedAt = None THEN <<>>
                ELSE <<Event(IF i.status = "PENDING" THEN "EXPIRED" ELSE i.status, p, i.respondedAt)>>)])
    \o (IF Row(b).assignments = <<>> THEN <<>>
        ELSE <<Event("ASSIGNED", Row(b).assignments[1].provider, Row(b).assignments[1].at)>>)

\* Slip: of two events at one moment the later one comes first.
timelineReversed(b) ==
    FoldLeft(LAMBDA sorted, e : LET before == SelectSeq(sorted, LAMBDA o : o.at < e.at)
                                IN  before \o <<e>> \o SelectSeq(sorted, LAMBDA o : o.at >= e.at),
             <<>>, Collected(b))

\* The comparison never calls two events equal; the sort leaves them as they were.
timeline(b) ==
    FoldLeft(LAMBDA sorted, e : LET before == SelectSeq(sorted, LAMBDA o : o.at <= e.at)
                                IN  before \o <<e>> \o SelectSeq(sorted, LAMBDA o : o.at > e.at),
             <<>>, Collected(b))

leadTimeHours(b) == Row(b).start - Row(b).at

\* Slip: the flag alone does not make a booking urgent.
InScenarioByLead(id, b) ==
    CASE id = "standard" -> leadTimeHours(b) >= Hours48
      [] id = "urgent" -> leadTimeHours(b) < Hours24
      [] id = "recurring" -> Row(b).x.weekly
      [] id = "special" -> Row(b).x.special

InScenario(id, b) ==
    CASE id = "standard" -> ~Row(b).x.short /\ leadTimeHours(b) >= Hours48
      [] id = "urgent" -> Row(b).x.short \/ leadTimeHours(b) < Hours24
      [] id = "recurring" -> Row(b).x.weekly
      [] id = "special" -> Row(b).x.special

listScenarioMetrics(from, to, id) ==
    LET bs == {b \in Matches(from, to) : InScenario(id, b)}
    IN  [bookings |-> bs, invitations |-> Count(Invited(bs)),
         successes |-> InStatus(bs, {"CONFIRMED", "IN_PROGRESS", "COMPLETED"})]

ProviderOf(b) == IF Row(b).assignments = <<>> THEN None ELSE Row(b).assignments[1].provider

\* Slip: what has no provider yet is no breach.
CompliantOrOpen(bs, of) == {b \in bs : ProviderOf(b) \in of \cup {None}}

Compliant(bs, of) == {b \in bs : ProviderOf(b) \in of}
\* The code takes the weekday in local time and the day of a mission in UTC: one and the same
\* day on a server that runs in UTC, which is what is modelled.
isWeekend(t) == DayOf(t) \in Weekend

\* The missions are counted one by one; the third of a provider and day is a breach.
WeekendBreaches(bs) ==
    FoldLeft(LAMBDA acc, b :
                LET key == <<ProviderOf(b), DayOf(Row(b).start)>>
                    nth == 1 + Count({c \in acc.seen : <<ProviderOf(c), DayOf(Row(c).start)>> = key})
                IN  [seen |-> acc.seen \cup {b}, breaches |-> acc.breaches + IF nth > 2 THEN 1 ELSE 0],
             [seen |-> {}, breaches |-> 0], SetToSeq(bs)).breaches

listPolicyMetrics(from, to) ==
    LET bs == Matches(from, to)
        berlin == {b \in bs : Row(b).x.zone = "berlin"}
        eco == {b \in bs : Row(b).x.eco}
        weekend == {b \in bs : /\ ProviderOf(b) \in Providers \ Companies
                               /\ isWeekend(Row(b).start)}
    IN  [berlin |-> [impacted |-> Count(berlin), compliant |-> Count(Compliant(berlin, Companies)),
                     breaches |-> Count(berlin) - Count(Compliant(berlin, Companies))],
         eco |-> [impacted |-> Count(eco), compliant |-> Count(Compliant(eco, EcoProviders)),
                  breaches |-> Count(eco) - Count(Compliant(eco, EcoProviders))],
         weekend |-> [impacted |-> Count(weekend), breaches |-> WeekendBreaches(weekend)]]

Answers(from, to, p, ss) ==
    Count({i \in Invited(Stored) : /\ i[2] = p /\ Invitation(i).at \in from..to
                                   /\ Invitation(i).status \in ss})

\* Slip: two refusals are enough.
DeclineCasesOfTwo(from, to) ==
    {p \in Providers :
        LET declined == Answers(from, to, p, {"DECLINED"})
        IN  declined >= 2 /\ 10 * declined >= 7 * Answers(from, to, p, {"DECLINED", "ACCEPTED"})}

DeclineCases(from, to) ==
    {p \in Providers :
        LET declined == Answers(from, to, p, {"DECLINED"})
        IN  declined >= 3 /\ 10 * declined >= 7 * Answers(from, to, p, {"DECLINED", "ACCEPTED"})}

\* Slip: every change with a reason counts for the provider.
ProviderCancelsAny(from, to, p) == {i \in DOMAIN audit : ProviderOf(audit[i].booking) = p}

\* Who cancelled is not looked at: the first provider the booking has now.
ProviderCancels(from, to, p) ==
    {i \in Audited(from, to, {"provider_cancelled"}) : ProviderOf(audit[i].booking) = p}

ClientCancels(from, to, c) ==
    {i \in Audited(from, to, {"client_cancelled"}) : Row(audit[i].booking).x.client = c}

Clients == {x.client : x \in Requests}

\* Slip: a booking that left DRAFT counts as long as nothing is paid.
DraftsUnpaid(from, to, c) == {b \in Created(from, to) : Row(b).x.client = c /\ Row(b).payment = None}

Drafts(from, to, c) == {b \in InStatus(Created(from, to), {"DRAFT"}) : Row(b).x.client = c}

listGuardrailMetrics(from, to) ==
    [declines |-> DeclineCases(from, to),
     providerCases |-> {p \in Providers : Count(ProviderCancels(from, to, p)) >= 2},
     providerExamples |-> {p \in Providers : ProviderCancels(from, to, p) # {}},
     drafts |-> {c \in Clients : Count(Drafts(from, to, c)) >= 3},
     clientCases |-> {c \in Clients : Count(ClientCancels(from, to, c)) >= 2},
     clientExamples |-> {c \in Clients : ClientCancels(from, to, c) # {}}]

-----------------------------------------------------------------------------
TypeOK ==
    /\ \A b \in Stored : /\ Row(b).status \in BookingStatus
                         /\ Row(b).at \in 0..now /\ Row(b).updated \in Row(b).at..now
                         /\ Row(b).payment # None => Row(b).payment.status \in PaymentStatus
    /\ \A i \in DOMAIN audit : audit[i].booking \in Stored /\ audit[i].at \in 0..now

SumOver(f, Part(_)) == MapThenSumSet(LAMBDA k : Part(f[k]), DOMAIN f)
TotalOf(row) == row.total
SuccessfulOf(row) == row.successful
Self(n) == n

\* The charts of the overview add up to its totals, no booking is counted both as matched
\* and as pending, and the list of the history has the same bookings.
OverviewAddsUp ==
    \A from \in 0..now :
        LET o == getOverview(from, now)
        IN  /\ o.successfulMatches + o.pendingMatches <= o.totalMatches
            /\ o.pendingMatches = Count({b \in listHistory(from, now, "unassigned", None) :
                                            Row(b).status \in ACTIVE_MATCHING_STATUSES})
            /\ SumOver(o.matchesByDay, TotalOf) = o.totalMatches
            /\ SumOver(o.matchesByDay, SuccessfulOf) = o.successfulMatches
            /\ SumOver(o.responsesByStatus, Self) = o.contacted
            /\ Count(listHistory(from, now, "assigned", None)) = o.successfulMatches
            /\ Count(listHistory(from, now, None, None)) = o.totalMatches
            /\ \A b \in DOMAIN o.firstResponse : o.firstResponse[b] >= 0

\* An acceptance leaves no invitation open: a matched booking found among those with an open
\* invitation was not matched by one.
AcceptedClosesOthers ==
    \A b \in listHistory(0, now, "assigned", "PENDING") : buildInvitationSummary(b).accepted = 0

\* A timeline never shows an answer before its invitation, nor an assignment before the
\* acceptance that made it.
TimelineInOrder ==
    \A b \in Stored :
        LET t == timeline(b)
        IN  /\ \A j \in DOMAIN t, k \in DOMAIN t : j < k => t[j].at <= t[k].at
            /\ \A j \in DOMAIN t, k \in DOMAIN t :
                  t[j].type = "INVITED" /\ t[k].provider = t[j].provider
                  /\ t[k].type \in {"ACCEPTED", "DECLINED", "EXPIRED"} => j < k
            /\ \A j \in DOMAIN t, k \in DOMAIN t :
                  t[j].type = "ACCEPTED" /\ t[k].type = "ASSIGNED" /\ t[j].at = t[k].at => j < k

\* No booking is at once standard and urgent, and one that is neither lies between the limits.
ScenariosSplit ==
    \A b \in Matches(0, now) :
        /\ ~(InScenario("standard", b) /\ InScenario("urgent", b))
        /\ ~InScenario("standard", b) /\ ~InScenario("urgent", b)
              => ~Row(b).x.short /\ leadTimeHours(b) \in Hours24..(Hours48 - 1)
        /\ Row(b).x.short => InScenario("urgent", b)

\* The text of a scenario calls its successes finished missions.
FinishedAreCompleted ==
    \A id \in {"standard", "urgent", "recurring", "special"} :
        \A b \in listScenarioMetrics(0, now, id).successes : Row(b).status = "COMPLETED"

\* What breaks a policy is never more than what it is about; a booking nobody has yet breaks
\* the two priorities; and the count of a weekend does not depend on the order of the rows.
PoliciesAddUp ==
    LET m == listPolicyMetrics(0, now)
        open == {b \in Matches(0, now) : ProviderOf(b) = None}
        of(p, d) == Count({b \in Matches(0, now) : ProviderOf(b) = p /\ DayOf(Row(b).start) = d})
        over(p, d) == IF of(p, d) > 2 THEN of(p, d) - 2 ELSE 0
    IN  /\ m.berlin.breaches >= Count({b \in open : Row(b).x.zone = "berlin"})
        /\ m.eco.breaches >= Count({b \in open : Row(b).x.eco})
        /\ m.weekend.breaches <= m.weekend.impacted
        /\ m.weekend.breaches = MapThenSumSet(LAMBDA k : over(k[1], k[2]), (Providers \ Companies) \X Weekend)

\* The guardrail says seven refusals in ten and three answers at least; its code asks for
\* three refusals: the two are the same.
DeclinesAsTold ==
    \A from \in 0..now, p \in Providers :
        LET declined == Answers(from, now, p, {"DECLINED"})
            considered == declined + Answers(from, now, p, {"ACCEPTED"})
        IN  p \in listGuardrailMetrics(from, now).declines
                <=> considered >= 3 /\ 10 * declined >= 7 * considered

\* A cancellation is put on one provider at most, and on none when it was no provider's.
CancelsCountedOnce ==
    LET g == listGuardrailMetrics(0, now)
    IN  /\ MapThenSumSet(LAMBDA p : Count(ProviderCancels(0, now, p)), Providers)
              <= Count(Audited(0, now, {"provider_cancelled"}))
        /\ g.providerCases \subseteq g.providerExamples /\ g.clientCases \subseteq g.clientExamples

\* A client is reported for drafts only while three of its bookings are in DRAFT.
DraftsAreDrafts ==
    \A c \in listGuardrailMetrics(0, now).drafts :
        Count({b \in Stored : Row(b).status = "DRAFT" /\ Row(b).x.client = c}) >= 3

=============================================================================
