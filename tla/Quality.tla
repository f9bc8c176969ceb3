------------------------------- MODULE Quality -------------------------------
(***************************************************************************)
(* The quality desk (employee/quality.service.ts): reviews and their       *)
(* moderation, disputes seen as incidents, and the reports computed from   *)
(* both.  Reviews, disputes and the ratings of a profile are written by    *)
(* others.  A rating is in tenths; thirty and ninety days are windows of   *)
(* the clock.                                                              *)
(***************************************************************************)
EXTENDS Integers, FiniteSets, FiniteSetsExt, Folds

CONSTANTS
    Reviews, Disputes, Providers, Services, Moderators, Workers,
    Clients,    \* who opens disputes
    Scores,     \* bound: those of 1..5 in use
    Ratings,    \* bound: averages of a profile, in tenths
    Refunds,    \* bound: refunds of a dispute, in cents
    Statuses,   \* bound: those of a dispute in use
    Last30, Last90, \* the windows, in ticks
    TakeReviews,    \* reviews an answer lists: 10
    TakeOverview,   \* reviews the overview lists: 8
    TakeRisks,      \* providers the overview lists: 5
    TakeProgram,    \* providers a list of the programme has: 25
    MaxTime,    \* bound: the clock
    None

INCIDENT_OPEN_STATUSES == {"open", "under_review", "action_required"}
IncidentStatuses == INCIDENT_OPEN_STATUSES \cup {"refunded", "resolved", "rejected"}

QualityAssumption ==
    /\ Statuses \subseteq IncidentStatuses
    /\ Scores \subseteq 1..5 /\ Ratings \subseteq 10..50 /\ Refunds \subseteq Nat
    /\ {TakeReviews, TakeOverview, TakeRisks, TakeProgram} \subseteq Nat \ {0}
    /\ Last30 \in Nat /\ Last90 \in Nat /\ Last30 <= Last90 /\ MaxTime \in Nat
    /\ None \notin Providers \cup Moderators \cup Clients \cup Ratings \cup Refunds

VARIABLES
    review, dispute,
    rating,     \* provider |-> ratingAverage (external) and ratingCount
    req,        \* worker |-> the moderation it makes
    now

vars == <<review, dispute, rating, req, now>>

NoReview == [status |-> "none"]
Idle == [review |-> None]

Init ==
    /\ review = [r \in Reviews |-> NoReview] /\ dispute = [d \in Disputes |-> NoReview]
    /\ rating \in [Providers -> [average : Ratings \cup {None}, count : {0, 3}]]
    /\ req = [w \in Workers |-> Idle] /\ now = 0

publish(r, p, s, score) ==
    /\ review[r] = NoReview
    /\ review' = [review EXCEPT ![r] = [status |-> "published", provider |-> p, service |-> s,
                     score |-> score, at |-> now, moderatedBy |-> None]]
    /\ UNCHANGED <<dispute, rating, req, now>>

openDispute(d, ps, c, refund, damage) ==
    /\ dispute[d] = NoReview
    /\ dispute' = [dispute EXCEPT ![d] = [status |-> "open", providers |-> ps, openedBy |-> c,
                     refund |-> refund, damage |-> damage, at |-> now]]
    /\ UNCHANGED <<review, rating, req, now>>

UpdateReviewRead(w, r, status, notes, m) ==
    /\ req[w] = Idle /\ review[r] # NoReview
    /\ req' = [req EXCEPT ![w] = [review |-> r, status |-> status,
                  by |-> IF status # None \/ notes THEN m ELSE review[r].moderatedBy]]
    /\ UNCHANGED <<review, dispute, rating, now>>

\* Slip: the moderator is written when a review is flagged, not when it is hidden.
UpdateReviewWriteOnChange(w) ==
    /\ req[w] # Idle
    /\ review' = [review EXCEPT ![req[w].review] =
                    [@ EXCEPT !.status = IF req[w].status = None THEN @ ELSE req[w].status,
                              !.moderatedBy = IF req[w].status = "flagged" THEN req[w].by ELSE @]]
    /\ req' = [req EXCEPT ![w] = Idle] /\ UNCHANGED <<dispute, rating, now>>

\* A request without a status and without notes writes back the moderator it read.
UpdateReviewWrite(w) ==
    /\ req[w] # Idle
    /\ review' = [review EXCEPT ![req[w].review] =
                    [@ EXCEPT !.status = IF req[w].status = None THEN @ ELSE req[w].status,
                              !.moderatedBy = req[w].by]]
    /\ req' = [req EXCEPT ![w] = Idle] /\ UNCHANGED <<dispute, rating, now>>

\* Slip: what the request says is stored.
mapIncidentStatusRaw(status) == status

\* A status the enumeration does not have opens the dispute again.
mapIncidentStatus(status) == IF status \in IncidentStatuses THEN status ELSE "open"

updateIncident(d, status) ==
    /\ dispute[d] # NoReview
    /\ dispute' = [dispute EXCEPT ![d].status = mapIncidentStatus(status)]
    /\ UNCHANGED <<review, rating, req, now>>

Tick == now < MaxTime /\ now' = now + 1 /\ UNCHANGED <<review, dispute, rating, req>>

Next ==
    \/ \E r \in Reviews, p \in Providers, s \in Services, x \in Scores : publish(r, p, s, x)
    \/ \E d \in Disputes, ps \in SUBSET Providers, c \in Clients \cup {None},
          x \in Refunds \cup {None}, g \in BOOLEAN : openDispute(d, ps, c, x, g)
    \/ \E w \in Workers, r \in Reviews, s \in {"published", "hidden", "flagged", None},
          notes \in BOOLEAN, m \in Moderators : UpdateReviewRead(w, r, s, notes, m)
    \/ \E w \in Workers : UpdateReviewWrite(w)
    \/ \E d \in Disputes, s \in Statuses \cup {"other"} : updateIncident(d, s)
    \/ Tick

Spec == Init /\ [][Next]_vars

-----------------------------------------------------------------------------
(***************************************************************************)
(* What every report starts from.                                          *)
(***************************************************************************)
Stored == {r \in Reviews : review[r] # NoReview}
Filed == {d \in Disputes : dispute[d] # NoReview}

\* Slip: what is flagged does not count either.
VisibleUnflagged == {r \in Stored : review[r].status = "published"}

\* status: { not: HIDDEN }
Visible == {r \in Stored : review[r].status # "hidden"}

\* Slip: the first moment of the window is left out.
SinceAfter(days) == {r \in Visible : review[r].at > now - days}

Since(days) == {r \in Visible : review[r].at >= now - days}
ScoreSum(rs) == MapThenSumSet(LAMBDA r : review[r].score, rs)
IsOpen(d) == dispute[d].status \in INCIDENT_OPEN_STATUSES

\* The lists of n rows an order may give, when rows that tie come in any order.
Listed(rows, n, Before(_, _)) ==
    {l \in SUBSET rows : /\ Cardinality(l) = Min({n, Cardinality(rows)})
                         /\ \A x \in l, y \in rows \ l : ~Before(y, x)}
Newest(rs, n) == Listed(rs, n, LAMBDA r, q : review[r].at > review[q].at)

\* A provider without a rating comes after the lowest ones and before the highest.
RatedLower(p, q) ==
    rating[p].average # None /\ (rating[q].average = None \/ rating[p].average < rating[q].average)
RatedHigher(p, q) ==
    rating[q].average # None /\ (rating[p].average = None \/ rating[p].average > rating[q].average)
\* The second key of two of the lists.
Tied(p, q) == rating[p].average = rating[q].average
LowestFirst(p, q) == RatedLower(p, q) \/ (Tied(p, q) /\ rating[p].count > rating[q].count)
HighestFirst(p, q) == RatedHigher(p, q) \/ (Tied(p, q) /\ rating[p].count > rating[q].count)

\* The rows of one breakdown: how many reviews and the sum of their scores.
Breakdown(rs, Key(_)) ==
    [k \in {Key(r) : r \in rs} |->
        LET of == {r \in rs : Key(r) = k} IN [count |-> Cardinality(of), total |-> ScoreSum(of)]]

ByService(r) == review[r].service
ByMonth(r) == review[r].at

getOverview ==
    [reviewCount |-> Cardinality(Visible), total |-> ScoreSum(Visible),
     last30 |-> Cardinality(Since(Last30)),
     openIncidents |-> Cardinality({d \in Filed : IsOpen(d)}),
     services |-> Breakdown(Since(Last90), ByService),
     recent |-> Newest(Visible, TakeOverview),
     top |-> Listed({p \in Providers : rating[p].count >= 3 /\ rating[p].average # None},
                    TakeRisks, RatedHigher),
     atRisk |-> Listed({p \in Providers : /\ rating[p].count >= 3
                                          /\ rating[p].average = None \/ rating[p].average < 35},
                       TakeRisks, LowestFirst)]

Promoters(rs) == {r \in rs : review[r].score >= 4}
\* Slip: a four recommends and dissuades.
DetractorsOfThree(rs) == {r \in rs : review[r].score <= 4}

Detractors(rs) == {r \in rs : review[r].score <= 2}

\* Math.round: to the nearest, and up from the middle.
Rounded(share, of) == (2 * share + of) \div (2 * of)

\* The scores of a range; the net score is a share of a hundred, rounded.
getSatisfactionOverview(from, to) ==
    LET rs == {r \in Visible : review[r].at \in from..to}
        p == Cardinality(Promoters(rs))
        d == Cardinality(Detractors(rs))
    IN  [totalReviews |-> Cardinality(rs), total |-> ScoreSum(rs),
         promoters |-> p, detractors |-> d,
         nps |-> IF rs = {} THEN None ELSE Rounded(100 * (p - d), Cardinality(rs)),
         recent |-> Newest(rs, TakeReviews),
         services |-> Breakdown(rs, ByService), months |-> Breakdown(rs, ByMonth)]

getAlerts ==
    [providers |-> {p \in Providers : /\ rating[p].average # None /\ rating[p].average < 35
                                      /\ rating[p].count >= 3},
     reviews |-> Newest({r \in Since(Last30) : review[r].score <= 2}, TakeReviews),
     clients |-> {c \in Clients :
                    Cardinality({d \in Filed : /\ dispute[d].openedBy = c
                                               /\ dispute[d].at >= now - Last90}) >= 3}]

\* The counts of one provider in the list: all hidden, and the profile's own count is shown.
listProviders(p) ==
    LET own == {r \in Visible : review[r].provider = p}
    IN  [totalReviews |-> IF own = {} THEN rating[p].count ELSE Cardinality(own),
         reviewsLast30Days |-> Cardinality({r \in Since(Last30) : review[r].provider = p}),
         incidentsOpen |-> Cardinality({d \in Filed : IsOpen(d) /\ p \in dispute[d].providers})]

\* Slip: a provider without a rating is at risk.
ProviderFilterUnrated(focus, minReviews) ==
    {p \in Providers : rating[p].count >= 3 /\ (rating[p].average = None \/ rating[p].average < 35)}

\* The filters of the list: the one for low counts replaces that of the focus.
ProviderFilter(focus, minReviews) ==
    {p \in Providers :
        /\ CASE focus = "top" -> rating[p].average # None /\ rating[p].average > 45
             [] focus = "at_risk" -> rating[p].average # None /\ rating[p].average < 35
             [] OTHER -> TRUE
        /\ IF minReviews # 0 THEN rating[p].count >= minReviews
           ELSE focus = "at_risk" => rating[p].count >= 3}

\* Slip: the disputes of less than ninety days.
IncidentsAfter(p) ==
    {d \in Filed : p \in dispute[d].providers /\ dispute[d].at > now - Last90}

Incidents(p) ==
    {d \in Filed : p \in dispute[d].providers /\ dispute[d].at >= now - Last90}

\* Reviews of the range, disputes of ninety days, of one provider.
collectProgramMetrics(p, from) ==
    LET recent == {r \in Visible : review[r].provider = p /\ review[r].at >= from}
        own == {r \in Visible : review[r].provider = p}
    IN  [recentReviewCount |-> Cardinality(recent), recentTotal |-> ScoreSum(recent),
         incidentCount |-> Cardinality(Incidents(p)),
         incidentOpenCount |-> Cardinality({d \in Incidents(p) : IsOpen(d)}),
         lastReviewAt |-> IF own = {} THEN None ELSE Max({review[r].at : r \in own})]

\* Recent average minus the profile's, times ten times the number of reviews.
Diff(p, m) == 10 * m.recentTotal - rating[p].average * m.recentReviewCount
Known(p, m) == rating[p].average # None /\ m.recentReviewCount # 0

\* Slip: a fall is told from a greater difference alone.
TrendLoose(p, m) ==
    IF ~Known(p, m) THEN "flat" ELSE IF Diff(p, m) >= -3 * m.recentReviewCount THEN "up" ELSE "down"

trend(p, m) ==
    IF ~Known(p, m) \/ (Diff(p, m) \in -m.recentReviewCount .. m.recentReviewCount) THEN "flat"
    ELSE IF Diff(p, m) > 0 THEN "up" ELSE "down"

mapProgramProviderItem(p, from) ==
    LET m == collectProgramMetrics(p, from)
    IN  [flags |-> {f \in {"low_score", "incidents", "rating_drop"} :
                      CASE f = "low_score" -> rating[p].average # None /\ rating[p].average < 38
                        [] f = "incidents" -> m.incidentCount >= 2
                        [] OTHER -> Known(p, m) /\ Diff(p, m) < -2 * m.recentReviewCount},
         trend |-> trend(p, m), incidentsOpen |-> m.incidentOpenCount,
         lastReviewAt |-> m.lastReviewAt]

\* The two lists of the programme, with the thresholds of the request or 3.8 and 4.7.
getQualityProgramSummary(minReviews, maxRating, minRating) ==
    LET low == IF maxRating = None THEN 38 ELSE maxRating
        top == IF minRating = None THEN 47 ELSE minRating
        enough == {p \in Providers : rating[p].count >= minReviews}
    IN  [atRisk |-> Listed({p \in enough : rating[p].average = None \/ rating[p].average < low},
                           TakeProgram, RatedLower),
         top |-> Listed({p \in enough : rating[p].average # None /\ rating[p].average >= top},
                        TakeProgram, HighestFirst)]

getQualityProgramProvider(p) ==
    [profile |-> mapProgramProviderItem(p, now - Last90),
     totalReviews |-> Cardinality({r \in Visible : review[r].provider = p}),
     incidentsOpen |-> Cardinality({d \in Filed : IsOpen(d) /\ p \in dispute[d].providers}),
     recentReviews |-> Newest({r \in Visible : review[r].provider = p}, TakeReviews)]

RefundOf(d) == IF dispute[d].refund = None THEN 0 ELSE dispute[d].refund

deriveSeverity(d) ==
    IF RefundOf(d) >= 15000 \/ dispute[d].damage THEN "high"
    ELSE IF RefundOf(d) >= 5000 THEN "medium" ELSE "low"

\* Slip: the limits of the filter lie one cent higher.
SeverityFilterAbove(severity) ==
    {d \in Filed : dispute[d].refund # None /\
        CASE severity = "high" -> dispute[d].refund > 15000
          [] severity = "medium" -> dispute[d].refund > 5000 /\ dispute[d].refund <= 15000
          [] OTHER -> dispute[d].refund <= 5000}

\* What the list's filter asks of the table, which knows refunds alone.
SeverityFilter(severity) ==
    {d \in Filed : dispute[d].refund # None /\
        CASE severity = "high" -> dispute[d].refund >= 15000
          [] severity = "medium" -> dispute[d].refund >= 5000 /\ dispute[d].refund < 15000
          [] OTHER -> dispute[d].refund < 5000}

-----------------------------------------------------------------------------
TypeOK ==
    /\ \A r \in Stored : review[r].status \in {"published", "hidden", "flagged"}
                         /\ review[r].moderatedBy \in Moderators \cup {None}
    /\ \A d \in Filed : dispute[d].status \in IncidentStatuses
    /\ \A w \in Workers : req[w] # Idle => req[w].review \in Stored

\* The lists show r unless as many others as they take are no older.
ShownUnlessCut(r, rs, lists, n) ==
    \A l \in lists :
        r \in l \/ Cardinality({q \in rs \ {r} : review[q].at >= review[r].at}) >= n

\* A hidden review is on no list; every other one counts in each report whose
\* range it is in, and is listed unless newer ones fill the list.
HiddenNowhere ==
    LET satisfaction == getSatisfactionOverview(0, now)
        alerts == getAlerts.reviews
    IN  \A r \in Stored :
            LET p == review[r].provider
                provider == getQualityProgramProvider(p)
                own == {q \in Visible : review[q].provider = p}
            IN  IF review[r].status = "hidden"
                THEN r \notin UNION (alerts \cup provider.recentReviews
                                     \cup getOverview.recent \cup satisfaction.recent)
                ELSE /\ listProviders(p).totalReviews >= 1
                     /\ provider.profile.lastReviewAt # None
                     /\ satisfaction.totalReviews >= 1
                     /\ ShownUnlessCut(r, own, provider.recentReviews, TakeReviews)
                     /\ ShownUnlessCut(r, Visible, getOverview.recent, TakeOverview)
                     /\ review[r].score <= 2 /\ review[r].at >= now - Last30 =>
                            ShownUnlessCut(r, {q \in Visible : review[q].score <= 2}, alerts,
                                           TakeReviews)

SumOf(b, f(_)) == MapThenSumSet(LAMBDA k : f(b[k]), DOMAIN b)
CountOf(row) == row.count
TotalOf(row) == row.total

\* The parts of a report add up to its whole, and two reports of one range agree.
BreakdownsAddUp ==
    LET s == getSatisfactionOverview(now - Last90, now)
        o == getOverview
    IN  /\ SumOf(s.services, CountOf) = s.totalReviews
        /\ SumOf(s.months, CountOf) = s.totalReviews
        /\ SumOf(s.services, TotalOf) = s.total /\ SumOf(s.months, TotalOf) = s.total
        /\ s.services = o.services
        /\ o.last30 <= s.totalReviews /\ s.totalReviews <= o.reviewCount
        /\ getSatisfactionOverview(0, now).total = o.total

\* Nobody both recommends and dissuades: the net score lies between the two extremes, has
\* the sign of the majority, and shows an extreme only if at most one in two hundred differs.
NetScoreBounded ==
    LET s == getSatisfactionOverview(0, now)
        n == s.totalReviews
    IN  n > 0 =>
          /\ s.promoters + s.detractors <= n
          /\ s.nps \in -100..100
          /\ s.nps > 0 => s.promoters > s.detractors
          /\ s.nps < 0 => s.promoters < s.detractors
          /\ s.nps = 100 => 200 * (n - s.promoters) <= n /\ 2 * s.total > 7 * n
          /\ s.nps = -100 => 200 * (n - s.detractors) <= n

\* A provider flagged for a falling rating never has a trend that says otherwise.
FlagsFitTrend ==
    \A p \in Providers, from \in 0..now :
        LET i == mapProgramProviderItem(p, from)
        IN  "rating_drop" \in i.flags => i.trend = "down"

\* Thresholds of a request that cross put a provider on both lists; those of the code
\* never do.  A provider with an alert, or at risk in the overview, is on the list of those
\* at risk; where that list is full, an alert is missing only behind ones rated no higher.
ProgramListsDisjoint ==
    LET s == getQualityProgramSummary(3, None, None)
        alerts == getAlerts.providers
    IN  /\ \A risk \in s.atRisk, top \in s.top :
               /\ risk \cap top = {}
               /\ Cardinality(risk) < TakeProgram =>
                      alerts \cup UNION getOverview.atRisk \subseteq risk
               /\ \A p \in alerts \ risk, q \in risk : ~RatedLower(p, q)
        /\ ProviderFilter("at_risk", 0) = alerts

\* What a filter by severity finds has that severity, or a higher one for a damage.
SeverityFilterSound ==
    /\ \A d \in SeverityFilter("high") : deriveSeverity(d) = "high"
    /\ \A d \in SeverityFilter("medium") : deriveSeverity(d) = IF dispute[d].damage THEN "high" ELSE "medium"
    /\ \A d \in SeverityFilter("low") : deriveSeverity(d) = IF dispute[d].damage THEN "high" ELSE "low"
    /\ \A d \in Filed : dispute[d].refund # None =>
          \E s \in {"high", "medium", "low"} : d \in SeverityFilter(s)

\* The profile counts the open disputes of ninety days, the figures beside it all of
\* them: never fewer, and so does the list.
IncidentCountsAgree ==
    \A p \in Providers :
        LET q == getQualityProgramProvider(p)
        IN  /\ q.profile.incidentsOpen <= q.incidentsOpen
            /\ q.incidentsOpen = listProviders(p).incidentsOpen
            /\ now <= Last90 => q.profile.incidentsOpen = q.incidentsOpen

\* One request at a time, a review that is hidden or flagged names its moderator.
ModeratedByNamed ==
    \A r \in Stored : review[r].status # "published" => review[r].moderatedBy \in Moderators

=============================================================================
