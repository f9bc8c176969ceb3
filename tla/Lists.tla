---------------------------------- MODULE Lists ----------------------------------
(***************************************************************************)
(* The paged lists of the back office, read page after page while rows are *)
(* added and written.  A list says by what it is ordered, by which columns *)
(* it is filtered, and how large its pages are; what a reader sees depends *)
(* on nothing else, so a state holds what the list asked for, not its name.*)
(* The total of an answer is read by a statement of its own and turns no   *)
(* page here.                                                              *)
(***************************************************************************)
EXTENDS Integers, FiniteSets, Sequences, SequencesExt

CONSTANTS
    Rows,       \* rows of the table, added in any order
    Sizes,      \* bound: the page sizes asked for
    MaxTime,    \* bound: writes
    Kinds,      \* bound: the filters in use, of "none", "fixed", "changing"
    None

ListsAssumption == Sizes \subseteq Int \cup {None} /\ MaxTime \in Nat /\ None \notin Int

-----------------------------------------------------------------------------
(***************************************************************************)
(* The lists.  fixed are the filters on columns nothing writes again,      *)
(* changing those on columns that handlers write while the row is listed.  *)
(***************************************************************************)
ResolvedPages == [default |-> 25, most |-> 100, clamp |-> "at least one"]
GivenOrDefault == [default |-> 25, most |-> 100, clamp |-> "default unless positive"]
CountOrDefault == [default |-> 25, most |-> 100, clamp |-> "default for zero"]
List(order, fixed, changing, pages) ==
    [order |-> order, fixed |-> fixed, changing |-> changing, pages |-> pages, fallible |-> FALSE]

bookingFilters == [fixed |-> {"mode", "service", "city", "postalCode", "shortNotice", "search"},
                   changing |-> {"statuses", "fallbackRequested", "fallbackEscalated", "minRetryCount",
                                 "startFrom", "startTo", "hasProvider", "clientId", "providerId"}]
ticketFilters == [fixed |-> {"type", "bookingId", "requesterId", "from", "to"},
                  changing |-> {"status", "priority", "category", "search"}]
disputeFilters == [fixed |-> {"bookingId", "search", "from", "to"}, changing |-> {"status", "clientId", "providerId"}]
reviewFilters == [fixed |-> {"from", "to", "providerId", "clientId", "minScore", "maxScore", "service", "city", "search"},
                  changing |-> {"status"}]
incidentFilters == [fixed |-> {"from", "to", "bookingId"},
                    changing |-> {"status", "clientId", "providerId", "severity", "search"}]
documentFilters == [fixed |-> {"documentType", "from", "to"}, changing |-> {"status", "search"}]

listBookings == List("startAt", bookingFilters.fixed, bookingFilters.changing, CountOrDefault)
listHistory == List("createdAt", {"from", "to", "service", "postalCode", "search"},
                    {"result", "invitationStatus"}, CountOrDefault)
listClients == List("createdAt", {}, {"status", "search"}, CountOrDefault)
listProviders == List("createdAt", {}, {"status", "search"}, CountOrDefault)
listEmployees == List("createdAt", {}, {"status", "search"}, CountOrDefault)
listPayments == List("occurredAt", {"method", "bookingId", "city", "service"}, {"from", "to", "status", "search"}, CountOrDefault)
listPayouts == List("createdAt", {"from", "to", "providerId"}, {"status", "search"}, CountOrDefault)

getTickets == List("updatedAt", ticketFilters.fixed, ticketFilters.changing, ResolvedPages)
getDisputes == List("createdAt", disputeFilters.fixed, disputeFilters.changing, ResolvedPages)
listReviews == List("createdAt", reviewFilters.fixed, reviewFilters.changing, ResolvedPages)
listIncidents == List("createdAt", incidentFilters.fixed, incidentFilters.changing, ResolvedPages)
listRated == List("ratingAverage", {}, {"search", "city", "service", "focus", "minReviews"}, ResolvedPages)
listLogs == List("createdAt", {"channel", "templateKey", "type", "bookingId", "userId", "search", "from", "to"},
                 {"status"}, [ResolvedPages EXCEPT !.most = 200])
providerServiceAreas == List("updatedAt", {}, {"search", "service"},
                             [default |-> 25, most |-> 200, clamp |-> "five or refused"])

listPromoCodes == List("createdAt", {}, {"search", "status"}, [ResolvedPages EXCEPT !.default = 20])
listPromoCodeUsages == List("createdAt", {"promoCodeId", "from", "to"}, {}, [ResolvedPages EXCEPT !.default = 20])
listCampaigns == List("updatedAt", {"from", "to"}, {"status", "channel", "search"}, [ResolvedPages EXCEPT !.default = 20])
listReferralInvites == List("updatedAt", {"search"}, {"status"}, [ResolvedPages EXCEPT !.default = 20])

listAuditLog == List("createdAt", {"providerId", "actorId", "documentId", "action", "from", "to"}, {}, GivenOrDefault)
listVerifications == List("createdAt", documentFilters.fixed, documentFilters.changing, GivenOrDefault)
listRequests == List("createdAt", {"type"}, {"status", "q"}, [GivenOrDefault EXCEPT !.default = 20])
listConsents == List("updatedAt", {}, {"role", "q", "from", "to"}, GivenOrDefault)
listEmployeeUsers == List("createdAt", {}, {"role", "status", "q"}, GivenOrDefault)
listSessions == List("createdAt", {"from", "to"}, {"role", "status", "q"}, GivenOrDefault)
listLoginAttempts == List("createdAt", {"q", "from", "to", "success"}, {}, GivenOrDefault)
listSecurityLogs == List("createdAt", {"category", "level", "q", "from", "to"}, {}, GivenOrDefault)
listSecurityIncidents == List("createdAt", {}, {"status", "category", "severity", "q"}, GivenOrDefault)

listWebhookEvents == List("receivedAt", {"provider", "from", "to"},
                          {"status", "eventType", "resourceId", "bookingId", "paymentId", "search"},
                          [ResolvedPages EXCEPT !.most = 200])
\* A table that cannot be read is an empty list.
listApiKeys == [List("createdAt", {}, {"status", "search"}, [ResolvedPages EXCEPT !.default = 20]) EXCEPT !.fallible = TRUE]
listImportJobs == [List("createdAt", {"entity", "search"}, {"status"}, [ResolvedPages EXCEPT !.default = 20]) EXCEPT !.fallible = TRUE]
listExportJobs == [List("createdAt", {"type"}, {"status", "search"}, [ResolvedPages EXCEPT !.default = 20]) EXCEPT !.fallible = TRUE]

AllLists == {listBookings, listHistory, listClients, listProviders, listEmployees, listPayments, listPayouts,
             getTickets, getDisputes, listReviews, listIncidents, listRated, listLogs, providerServiceAreas,
             listPromoCodes, listPromoCodeUsages, listCampaigns, listReferralInvites, listAuditLog,
             listVerifications, listRequests, listConsents, listEmployeeUsers, listSessions,
             listLoginAttempts, listSecurityLogs, listSecurityIncidents, listWebhookEvents,
             listApiKeys, listImportJobs, listExportJobs}

-----------------------------------------------------------------------------
Atmost(n, m) == IF n > m THEN m ELSE n
Atleast(n, m) == IF n < m THEN m ELSE n

\* Slip: only the lower bound is kept.
sizeUnbounded(p, n) ==
    IF n = None THEN p.default ELSE IF n <= 0 THEN 1 ELSE n

\* The ways to read a page size that is missing, zero or negative.
sizeOf(p, n) ==
    IF n = None THEN p.default
    ELSE CASE p.clamp = "default unless positive" -> IF n > 0 THEN Atmost(n, p.most) ELSE p.default
           [] p.clamp = "default for zero" -> IF n = 0 THEN p.default ELSE Atmost(Atleast(n, 1), p.most)
           [] p.clamp = "at least one" -> Atleast(1, Atmost(n, p.most))
           [] p.clamp = "five or refused" -> n

refuses(p, n) == p.clamp = "five or refused" /\ n # None /\ n \notin 5..p.most

SortOf(order) == CASE order \in {"createdAt", "receivedAt"} -> "fixed"
                   [] order \in {"updatedAt", "occurredAt"} -> "written"
                   [] order \in {"startAt", "ratingAverage"} -> "ranked"

VARIABLES
    row,    \* per row: its times, its rank, whether the filters in use let it through
    now,
    view    \* one reader, turning the pages

vars == <<row, now, view>>
NoRow == [at |-> 0]
Idle == [pc |-> "idle"]

Init == row = [r \in Rows |-> NoRow] /\ now = 0 /\ view = Idle

Stored == {r \in Rows : row[r] # NoRow}
Passes(v, r) == CASE v.filter = "none" -> TRUE
                  [] v.filter = "fixed" -> row[r].kind
                  [] v.filter = "changing" -> row[r].open
Listed(v) == {r \in Stored : Passes(v, r)}
KeyOf(v, r) == CASE v.sort = "fixed" -> row[r].at
                 [] v.sort = "written" -> row[r].touched
                 [] v.sort = "ranked" -> row[r].rank

\* What the reader could tell of a write: r is no longer as it was, a row that went leaves a gap.
Noticed(rs, gap) ==
    view' = IF view.pc # "turning" THEN view
            ELSE [view EXCEPT !.intact = @ \ rs, !.moved = @ \/ gap, !.quiet = FALSE]

\* A handler adds a row, or several with one statement and so of one time.
add(rs, kind, rank) ==
    /\ rs # {} /\ rs \cap Stored = {} /\ now < MaxTime /\ now' = now + 1
    /\ row' = [r \in Rows |-> IF r \in rs THEN [at |-> now + 1, touched |-> now + 1, rank |-> rank,
                                                kind |-> kind, open |-> TRUE]
                              ELSE row[r]]
    /\ Noticed({}, FALSE)

\* A handler writes a row: the columns of a changing filter, or those of the order.
write(r, open, rank) ==
    /\ r \in Stored /\ now < MaxTime /\ now' = now + 1
    /\ row' = [row EXCEPT ![r] = [@ EXCEPT !.touched = now + 1, !.open = open, !.rank = rank]]
    /\ Noticed({r}, (row[r].open /\ ~open /\ view.filter = "changing")
                    \/ (row[r].rank # rank /\ view.sort = "ranked"))

begin(l, n, kind) ==
    /\ view = Idle /\ ~refuses(l.pages, n)
    /\ kind = "fixed" => l.fixed # {}
    /\ kind = "changing" => l.changing # {}
    /\ LET v == [pc |-> "turning", sort |-> SortOf(l.order), filter |-> kind, size |-> sizeOf(l.pages, n),
                 most |-> l.pages.most, fallible |-> l.fallible, page |-> 1, seen |-> <<>>,
                 moved |-> FALSE, quiet |-> TRUE, failed |-> FALSE]
       IN  view' = v @@ [first |-> Listed(v), intact |-> Listed(v)]
    /\ UNCHANGED <<row, now>>

\* Slip: the oldest come first.
OrdersAscending(v) ==
    LET n == Cardinality(Listed(v))
    IN  {s \in [1..n -> Listed(v)] : \A i, j \in 1..n : i < j => s[i] # s[j] /\ KeyOf(v, s[i]) <= KeyOf(v, s[j])}

\* Newest or greatest first; equals in any order, another one with every statement.
Orders(v) ==
    LET n == Cardinality(Listed(v))
    IN  {s \in [1..n -> Listed(v)] : \A i, j \in 1..n : i < j => s[i] # s[j] /\ KeyOf(v, s[i]) >= KeyOf(v, s[j])}

\* Slip: the pages are counted from zero.
PageFromZero(v, s) == SubSeq(s, v.page * v.size + 1, Atmost((v.page + 1) * v.size, Len(s)))

\* Slip: rows are skipped, not pages.
PageByRow(v, s) == SubSeq(s, v.page, Atmost(v.page - 1 + v.size, Len(s)))

\* skip: (page - 1) * pageSize, take: pageSize
Page(v, s) == SubSeq(s, (v.page - 1) * v.size + 1, Atmost(v.page * v.size, Len(s)))

\* A page that is not full is the last one.
turn ==
    /\ view.pc = "turning"
    /\ \E s \in Orders(view) :
          view' = [view EXCEPT !.seen = @ \o Page(view, s), !.page = @ + 1,
                               !.pc = IF Len(Page(view, s)) < view.size THEN "done" ELSE @]
    /\ UNCHANGED <<row, now>>

fail ==
    /\ view.pc = "turning" /\ view.fallible
    /\ view' = [view EXCEPT !.pc = "done", !.failed = TRUE]
    /\ UNCHANGED <<row, now>>

\* Bound: what is written after the last page concerns no reader.
Next ==
    \/ \E rs \in SUBSET Rows, kind \in BOOLEAN, rank \in 0..1 : view.pc # "done" /\ add(rs, kind, rank)
    \/ \E r \in Rows, open \in BOOLEAN, rank \in 0..1 : view.pc # "done" /\ write(r, open, rank)
    \/ \E l \in AllLists, n \in Sizes, kind \in Kinds : begin(l, n, kind)
    \/ turn \/ fail

Spec == Init /\ [][Next]_vars

-----------------------------------------------------------------------------
\* A page is neither empty nor larger than the list allows, whatever size is asked for.
SizesBounded == view.pc # "idle" => view.size \in 1..view.most

Over == view.pc = "done" /\ ~view.failed
Seen == ToSet(view.seen)
Tied(r) == \E q \in Listed(view) \ {r} : row[q].at = row[r].at \/ KeyOf(view, q) = KeyOf(view, r)

\* A list ordered by creation, filtered by nothing that changes, shows every row that was there
\* when the reader began and whose time no other row has, however many rows are added and written.
CreatedListsComplete ==
    Over /\ view.sort = "fixed" /\ view.filter # "changing" =>
        \A r \in view.first : r \in Seen \/ Tied(r)

\* A list ordered by the last write shows every row that was not written meanwhile.
WrittenListsComplete ==
    Over /\ view.sort = "written" /\ view.filter # "changing" =>
        \A r \in view.intact : r \in Seen \/ Tied(r)

\* Whatever the list: a row nobody wrote is missed only because another one went from its
\* place, out of the filter or down the order.
MissedOnlyByGaps ==
    Over /\ ~view.moved => \A r \in view.intact : r \in Seen \/ Tied(r)

\* While nothing is written no row is shown twice.
QuietListsOnce ==
    view.pc # "idle" /\ view.quiet /\ Len(view.seen) # Cardinality(Seen) => \E r \in Seen : Tied(r)

=============================================================================
