------------------------------ MODULE MCSupport ------------------------------
(***************************************************************************)
(* The support centre, the desks of security and quality, side by side, on *)
(* small instances: rows of their own, so that in a behaviour              *)
(* one part is at work and the others stay as they began.  `alone` says    *)
(* whether requests come one at a time.                                    *)
(***************************************************************************)
EXTENDS Integers, Sequences, TLC

CONSTANTS x1, x2, client, agent, c1, c2, r1, p1, p2, p3, k1, k2, s1, s2, None

VARIABLES
    part, alone,
    ticket, message, settledAt, hour,                           \* Tickets
    dispute, messages, opening, reopened, centre,               \* Disputes
    incident, timeline, update, clock,                          \* Incidents
    review, complaint, rating, moderation, day                  \* Quality

\* Requests, tickets, disputes and reviews: two of a kind.
Pair == {x1, x2}

Inbox == INSTANCE Tickets WITH
    Users <- {client, agent}, Operators <- {agent}, Tickets <- {x1}, Day <- 2,
    Statuses <- {"open", "resolved"}, Priorities <- {"medium"}, MaxTime <- 2, MaxMessages <- 2, now <- hour
Levels == INSTANCE Tickets WITH
    Users <- {agent}, Operators <- {agent}, Tickets <- Pair, Day <- 2,
    Statuses <- {"open", "resolved"}, Priorities <- {"medium"}, MaxTime <- 3, MaxMessages <- 0, now <- hour
Cases == INSTANCE Disputes WITH
    Clients <- {c1, c2}, Reviewers <- {r1}, Providers <- {p1, p2}, Bookings <- {k1, k2},
    ClientOf <- (k1 :> c1) @@ (k2 :> c2), ProvidersOf <- (k1 :> {p1}) @@ (k2 :> {p1, p2}),
    Disputes <- Pair, Statuses <- {"open", "action_required", "refunded"},
    Refunds <- {"none", "some"}, MaxMessages <- 0, Workers <- {r1}, req <- opening
Security == INSTANCE Incidents WITH
    Operators <- {agent}, Statuses <- {"open", "resolved", "closed"}, MaxEntries <- 3,
    MaxTime <- 1, Workers <- Pair, req <- update, now <- clock
Desk == INSTANCE Quality WITH
    Reviews <- Pair, Disputes <- {}, Providers <- {p1}, Services <- {s1, s2},
    Moderators <- {r1}, Workers <- {agent}, Clients <- {c1}, Scores <- {2, 3, 4},
    Ratings <- {38}, Refunds <- {0}, Statuses <- {"open"}, Last30 <- 0, Last90 <- 1,
    TakeReviews <- 1, TakeOverview <- 1, TakeRisks <- 1, TakeProgram <- 1,
    MaxTime <- 2, dispute <- complaint, req <- moderation, now <- day
Complaints == INSTANCE Quality WITH
    Reviews <- {}, Disputes <- Pair, Providers <- {p1}, Services <- {s1},
    Moderators <- {r1}, Workers <- {agent}, Clients <- {c1}, Scores <- {3},
    Ratings <- {38}, Refunds <- {5000, 15000}, Statuses <- {"open", "resolved"},
    TakeReviews <- 1, TakeOverview <- 1, TakeRisks <- 1, TakeProgram <- 1,
    Last30 <- 1, Last90 <- 1, MaxTime <- 2, dispute <- complaint, req <- moderation, now <- day
\* Three providers with every rating that a threshold tells apart, for lists of one and two.
Ratings == INSTANCE Quality WITH
    Reviews <- {}, Disputes <- {}, Providers <- {p1, p2, p3}, Services <- {s1},
    Moderators <- {r1}, Workers <- {agent}, Clients <- {c1}, Scores <- {3},
    Ratings <- {34, 37, 38, 47}, Refunds <- {0}, Statuses <- {"open"}, Last30 <- 0, Last90 <- 1,
    TakeReviews <- 1, TakeOverview <- 1, TakeRisks <- 1, TakeProgram <- 2,
    MaxTime <- 0, dispute <- complaint, req <- moderation, now <- day

ASSUME /\ Inbox!TicketsAssumption /\ Levels!TicketsAssumption /\ Cases!DisputesAssumption
       /\ Security!IncidentsAssumption /\ Desk!QualityAssumption
       /\ Complaints!QualityAssumption /\ Ratings!QualityAssumption

tickets == <<ticket, message, settledAt, hour>>
disputes == <<dispute, messages, opening, reopened, centre>>
security == <<incident, timeline, update, clock>>
quality == <<review, complaint, rating, moderation, day>>
all == <<part, alone, tickets, disputes, security, quality>>

InitAll ==
    /\ part \in {"inbox", "levels", "disputes", "security", "reviews", "complaints", "ratings"}
    /\ alone \in BOOLEAN
    /\ part \in {"disputes", "reviews"} => alone
    /\ part \in {"inbox", "levels", "complaints", "ratings"} => ~alone
    /\ IF part = "levels" THEN Levels!Init ELSE Inbox!Init
    /\ Cases!Init /\ Security!Init
    /\ CASE part = "complaints" -> Complaints!Init [] part = "ratings" -> Ratings!Init
         [] OTHER -> Desk!Init
    /\ part # "ratings" =>
         /\ rating[p1].average = IF part = "reviews" /\ rating[p1].count > 0 THEN 38 ELSE None
         /\ part # "reviews" => rating[p1].count = 0

TicketsNext ==
    /\ \/ part = "inbox" /\ Inbox!Next
       \/ part = "levels" /\ Levels!Next
    /\ UNCHANGED <<part, alone, disputes, security, quality>>
DisputesNext ==
    /\ part = "disputes"
    /\ IF opening[r1] # None THEN Cases!CreateStore(r1)
       ELSE Cases!Next /\ (Cases!Stored = Pair => opening' = opening)
    /\ UNCHANGED <<part, alone, tickets, security, quality>>
SecurityNext ==
    /\ part = "security" /\ UNCHANGED <<part, alone, tickets, disputes, quality>>
    /\ IF alone /\ update[x1] # Security!Idle THEN Security!UpdateWrite(x1) ELSE Security!Next
    /\ alone => update'[x2] = update[x2]
QualityNext ==
    /\ \/ /\ part = "reviews"
          /\ IF moderation[agent] # Desk!Idle THEN Desk!UpdateReviewWrite(agent) ELSE Desk!Next
       \/ part = "complaints" /\ Complaints!Next
       \/ part = "ratings" /\ Ratings!Next
    /\ UNCHANGED <<part, alone, tickets, disputes, security>>

NextAll == TicketsNext \/ DisputesNext \/ SecurityNext \/ QualityNext
SpecAll == InitAll /\ [][NextAll]_all
Symmetry == Permutations(Pair)

-----------------------------------------------------------------------------
\* Tickets: a user's list has exactly the tickets the user may open, no ticket waits longer
\* for its first response than any operator's message took, the rate of a day counts only
\* what was settled within one, and the days of the overview hold every ticket once.
\* Disputes: opened one at a time, a booking has one under way, unless a reviewer opened an
\* old one again; a date of settlement means settled, until the centre writes the status;
\* the list is what its conditions say; a refund is marked by a reviewer who gives its
\* amount.  Incidents: a settled one names who settled it, however requests interleave;
\* updates one at a time, its timeline tells its status.
CasesSound ==
    /\ [](
        /\ part = "inbox" => Inbox!TypeOK /\ Inbox!ListedAsReadable /\ Inbox!FirstResponseIsFirst
        /\ part = "levels" => Levels!RateIsConservative /\ Levels!TimelineComplete
        /\ part = "disputes" => /\ Cases!TypeOK /\ Cases!OneOpenDispute /\ Cases!SettledHasDate
                                /\ Cases!ListedAsAsked
        /\ part = "security" => /\ Security!TypeOK /\ Security!SettledByNamed
                                /\ (alone => Security!TimelineTellsStatus))
    /\ [][part = "disputes" => Cases!MarksAsReviewer]_all

\* Quality: a hidden review shows in no report, every other one in each of its range unless
\* newer ones fill the list; the parts of a report add up to its whole and reports of one
\* range agree; the net score lies between its extremes; no provider flagged for a falling
\* rating has another trend; requests one at a time, a review hidden or flagged names its
\* moderator; filters by severity find that severity, and the counts of open disputes agree;
\* no provider is on both lists of the programme, and alerts are on that of those at risk
\* unless ones rated no higher fill it.
DesksSound ==
    /\ [](
        /\ part = "reviews" =>
             /\ Desk!HiddenNowhere /\ Desk!BreakdownsAddUp /\ Desk!NetScoreBounded
             /\ Desk!FlagsFitTrend /\ Desk!ModeratedByNamed
        /\ part = "complaints" =>
             /\ Complaints!TypeOK /\ Complaints!SeverityFilterSound /\ Complaints!IncidentCountsAgree
        /\ part = "ratings" => Ratings!ProgramListsDisjoint)

=============================================================================
