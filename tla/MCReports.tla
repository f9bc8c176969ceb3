------------------------------- MODULE MCReports -------------------------------
(***************************************************************************)
(* The reports of the back office on small instances: analytics, the front *)
(* page, finance, matching and the lists that are read page by page.  One  *)
(* part is at work in a behaviour; the reports of bookings share their     *)
(* history.                                                                *)
(***************************************************************************)
EXTENDS Integers, Sequences, FiniteSets, TLC

CONSTANTS Parts, x1, x2, b1, b2, p1, p2, None, Bad

VARIABLES part, booking, audit, now, filed, active, payout, row, view, account, edited

\* Bookings, files, payouts or rows: two of a kind.
Pair == {x1, x2}
Asked == [smart |-> TRUE, short |-> TRUE, weekly |-> FALSE, special |-> FALSE, eco |-> FALSE,
          client |-> "c1", zone |-> "berlin", lead |-> 1, price |-> 3, amount |-> 3, fee |-> 1]
Planned == [Asked EXCEPT !.short = FALSE]
AtOnce == [Planned EXCEPT !.lead = 0]
ZoneNames == {"berlin", "hamburg"}

-----------------------------------------------------------------------------
Trends == INSTANCE Analytics WITH
    Bookings <- Pair, Providers <- {}, Duration <- 0, Zones <- ZoneNames, Requests <- {Asked},
    Cancellers <- {"admin"}, Targets <- {}, OpsStatuses <- {"COMPLETED"},
    MoneyStatuses <- {"CAPTURED"}, DayLength <- 2, MaxTime <- 2, MaxAudits <- 1, Files <- {},
    FileKinds <- {}, Days7 <- 1, Days30 <- 2, Days90 <- 3
Activations == INSTANCE Analytics WITH
    Bookings <- {}, Providers <- {p1}, Duration <- 0, Zones <- ZoneNames, Requests <- {Asked},
    Cancellers <- {}, Targets <- {}, OpsStatuses <- {}, MoneyStatuses <- {}, DayLength <- 2,
    MaxTime <- 4, MaxAudits <- 1, Files <- Pair, FileKinds <- {"provider"},
    Days7 <- 1, Days30 <- 2, Days90 <- 3
\* At once, or one tick after it is asked for; two zones, two prices.
Funnel == INSTANCE Analytics WITH
    Bookings <- Pair, Providers <- {p1}, Duration <- 0, Zones <- ZoneNames,
    Requests <- {[Asked EXCEPT !.price = 6, !.lead = 0],
                 [Planned EXCEPT !.smart = FALSE, !.zone = "hamburg"]},
    Cancellers <- {}, Targets <- {p1}, OpsStatuses <- {"CONFIRMED"},
    MoneyStatuses <- {"PENDING", "CAPTURED"}, DayLength <- 2, MaxTime <- 0, MaxAudits <- 0,
    Files <- {}, FileKinds <- {}, Days7 <- 1, Days30 <- 2, Days90 <- 3
Cohorts == INSTANCE Analytics WITH
    Bookings <- {b1}, Providers <- {p1}, Duration <- 0, Zones <- ZoneNames, Requests <- {Asked},
    Cancellers <- {}, Targets <- {p1}, OpsStatuses <- {"CONFIRMED"}, MoneyStatuses <- {},
    DayLength <- 2, MaxTime <- 1, MaxAudits <- 1, Files <- Pair, FileKinds <- {"client", "provider"},
    Days7 <- 1, Days30 <- 2, Days90 <- 3
Operations == INSTANCE Analytics WITH
    Bookings <- {b1}, Providers <- {p1}, Duration <- 0, Zones <- ZoneNames, Requests <- {Asked},
    Cancellers <- {"admin", "client", "company"}, Targets <- {}, OpsStatuses <- {},
    MoneyStatuses <- {}, DayLength <- 2, MaxTime <- 2, MaxAudits <- 1, Files <- Pair,
    FileKinds <- {"dispute", "ticket", "lead"}, Days7 <- 1, Days30 <- 2, Days90 <- 3

-----------------------------------------------------------------------------
\* To start at once, or beyond the days of the charts.
FrontPage == INSTANCE Dashboard WITH
    Bookings <- Pair, Providers <- {}, Requests <- {AtOnce, [Asked EXCEPT !.lead = 2, !.price = 4]},
    Cancellers <- {}, Targets <- {}, OpsStatuses <- {"COMPLETED", "DISPUTED"},
    MoneyStatuses <- {"CAPTURED", "HELD"}, DayLength <- 1, MaxTime <- 2, MaxAudits <- 1,
    WeekDays <- 2, MonthDays <- 3, ChartDays <- 2, ChartWeeks <- 2, RecentDays <- 1,
    AheadDays <- 2, MaxRecent <- 1
Charts == INSTANCE Dashboard WITH
    Bookings <- Pair, Providers <- {}, Requests <- {AtOnce, [Asked EXCEPT !.lead = 2, !.price = 4]},
    Cancellers <- {}, Targets <- {}, OpsStatuses <- {}, MoneyStatuses <- {"CAPTURED"},
    DayLength <- 1, MaxTime <- 4, MaxAudits <- 1, WeekDays <- 2, MonthDays <- 3, ChartDays <- 2,
    ChartWeeks <- 2, RecentDays <- 1, AheadDays <- 2, MaxRecent <- 1
Occupancy == INSTANCE Dashboard WITH
    Bookings <- {b1, b2}, Providers <- Pair, Requests <- {Planned}, Cancellers <- {},
    Targets <- Pair, OpsStatuses <- {"CONFIRMED", "COMPLETED"}, MoneyStatuses <- {},
    DayLength <- 1, MaxTime <- 2, MaxAudits <- 1, WeekDays <- 2, MonthDays <- 3, ChartDays <- 2,
    ChartWeeks <- 2, RecentDays <- 1, AheadDays <- 2, MaxRecent <- 1

\* The deposit is less than the price; one booking starts later than it is paid.
FinancePages == INSTANCE FinanceReports WITH
    Bookings <- Pair, Providers <- {}, Payouts <- {}, PayoutAmounts <- {2}, DEFAULT_RANGE_DAYS <- 2,
    MaxRows <- 1, Requests <- {[AtOnce EXCEPT !.price = 5],
                               [Planned EXCEPT !.price = 4, !.amount = 4]},
    Cancellers <- {}, Targets <- {}, OpsStatuses <- {},
    MoneyStatuses <- {"CAPTURED", "FAILED", "HELD"}, DayLength <- 1, MaxTime <- 2, MaxAudits <- 1,
    WeekDays <- 2, MonthDays <- 3, ChartDays <- 2, ChartWeeks <- 2, RecentDays <- 1,
    AheadDays <- 2, MaxRecent <- 1
FinanceRanges == INSTANCE FinanceReports WITH
    Bookings <- Pair, Providers <- {p1}, Payouts <- {x1, x2}, PayoutAmounts <- {2},
    DEFAULT_RANGE_DAYS <- 2, MaxRows <- 1, Requests <- {[AtOnce EXCEPT !.price = 5]},
    Cancellers <- {}, Targets <- {}, OpsStatuses <- {}, MoneyStatuses <- {"CAPTURED", "REFUNDED"},
    DayLength <- 1, MaxTime <- 2, MaxAudits <- 1, WeekDays <- 2, MonthDays <- 3, ChartDays <- 2,
    ChartWeeks <- 2, RecentDays <- 1, AheadDays <- 2, MaxRecent <- 1

-----------------------------------------------------------------------------
MatchHistory == INSTANCE MatchingReports WITH
    Bookings <- {b1, b2}, Providers <- Pair,
    Requests <- {Asked, [Asked EXCEPT !.smart = FALSE]}, Cancellers <- {"client"},
    Targets <- {}, OpsStatuses <- {}, MoneyStatuses <- {}, DayLength <- 1, MaxTime <- 1,
    MaxAudits <- 1, Companies <- {}, EcoProviders <- {}, Weekend <- {2}, Hours24 <- 2, Hours48 <- 4
\* A lead below both limits, one between them, a long one; short notice whatever the lead.
Policies == INSTANCE MatchingReports WITH
    Bookings <- Pair, Providers <- {p1, p2},
    Requests <- {[Planned EXCEPT !.eco = TRUE], [Planned EXCEPT !.lead = 2, !.special = TRUE],
                 [Planned EXCEPT !.lead = 4, !.weekly = TRUE, !.zone = "hamburg"],
                 [Asked EXCEPT !.lead = 4]},
    Cancellers <- {}, Targets <- {p1, p2}, OpsStatuses <- {"CONFIRMED"}, MoneyStatuses <- {},
    DayLength <- 1, MaxTime <- 0, MaxAudits <- 0, Companies <- {p2}, EcoProviders <- {p2},
    Weekend <- {1, 2}, Hours24 <- 2, Hours48 <- 4
Guardrails == INSTANCE MatchingReports WITH
    Bookings <- {x1, x2, b1}, Providers <- {p1}, Requests <- {Asked},
    Cancellers <- {"provider", "client"}, Targets <- {p1, None}, OpsStatuses <- {},
    MoneyStatuses <- {}, DayLength <- 1, MaxTime <- 0, MaxAudits <- 2, Companies <- {},
    EcoProviders <- {}, Weekend <- {1}, Hours24 <- 2, Hours48 <- 4

-----------------------------------------------------------------------------
Pages == INSTANCE Lists WITH Rows <- Pair, Sizes <- {1, 2}, MaxTime <- 3, Kinds <- {"none", "fixed"}
Filtered == INSTANCE Lists WITH Rows <- Pair, Sizes <- {1, 2}, MaxTime <- 3, Kinds <- {"changing"}
\* Missing, negative, zero, pages of one and two rows, and more than any list allows.
PageSizes == INSTANCE Lists WITH
    Rows <- Pair, Sizes <- {None, -1, 0, 1, 2, 500}, MaxTime <- 2,
    Kinds <- {"none", "fixed", "changing"}

\* Accounts that come in three weeks, nobody changing a role through the log.
Accounts == INSTANCE AdminUsers WITH
    Users <- Pair, RoleLists <- {<<"client">>, <<"provider">>}, WEEKS <- 1, MaxTime <- 2,
    MaxLog <- 0, Workers <- {}, user <- account, log <- << >>, req <- << >>

ASSUME /\ Trends!HistoryAssumption /\ Funnel!HistoryAssumption /\ Cohorts!HistoryAssumption
       /\ Operations!HistoryAssumption /\ FrontPage!HistoryAssumption /\ Charts!HistoryAssumption
       /\ Occupancy!HistoryAssumption /\ FinancePages!HistoryAssumption
       /\ FinanceRanges!HistoryAssumption /\ MatchHistory!HistoryAssumption
       /\ Policies!HistoryAssumption /\ Guardrails!HistoryAssumption
       /\ Trends!AnalyticsAssumption /\ Activations!AnalyticsAssumption
       /\ Cohorts!AnalyticsAssumption /\ Operations!AnalyticsAssumption
       /\ FrontPage!DashboardAssumption /\ FinancePages!FinanceAssumption
       /\ FinanceRanges!FinanceAssumption /\ MatchHistory!ReportsAssumption
       /\ Policies!ReportsAssumption /\ Pages!ListsAssumption /\ PageSizes!ListsAssumption
       /\ Accounts!AdminUsersAssumption

-----------------------------------------------------------------------------
all == <<part, booking, audit, now, filed, active, payout, row, view, account, edited>>
users == <<account, edited>>

Analysed == {"trends", "activations", "funnel", "cohorts", "operations"}
Listing == {"pages", "filtered", "sizes"}

\* What a part does not use stays empty.
Init ==
    /\ part \in Parts
    /\ CASE part = "activations" -> Activations!InitAnalytics
         [] part = "cohorts" -> Cohorts!InitAnalytics
         [] part = "operations" -> Operations!InitAnalytics
         [] part = "funnel" -> Funnel!InitAnalytics
         [] part = "trends" -> Trends!InitAnalytics
         [] part \in {"front", "charts", "finance_pages"} -> FrontPage!InitHistory /\ filed = <<>>
         [] part = "occupancy" -> Occupancy!InitHistory /\ filed = <<>>
         [] part = "finance_ranges" -> FinanceRanges!InitHistory /\ filed = <<>>
         [] part = "matches" -> MatchHistory!Init /\ filed = <<>>
         [] part = "guardrails" -> Guardrails!Init /\ filed = <<>>
         [] OTHER -> Policies!Init /\ filed = <<>>
    /\ active = IF part = "occupancy" THEN Pair ELSE IF part = "finance_ranges" THEN {p1} ELSE {}
    /\ payout = IF part = "finance_ranges" THEN [k \in Pair |-> FinanceRanges!NotPaidOut] ELSE <<>>
    /\ IF part = "sizes" THEN PageSizes!Init ELSE Pages!Init
    /\ Accounts!Init

AnalyticsNext ==
    /\ \/ part = "trends" /\ Trends!NextAnalytics
       \/ part = "activations" /\ Activations!NextAnalytics
       \/ part = "funnel" /\ Funnel!NextAnalytics
       \/ part = "cohorts" /\ Cohorts!NextAnalytics
       \/ part = "operations" /\ Operations!NextAnalytics
    /\ UNCHANGED <<part, active, payout, row, view, users>>
DashboardNext ==
    /\ \/ part = "front" /\ FrontPage!NextDashboard
       \/ part = "charts" /\ Charts!NextDashboard
       \/ part = "occupancy" /\ Occupancy!NextDashboard
    /\ UNCHANGED <<part, filed, payout, row, view, users>>
FinanceNext ==
    /\ \/ part = "finance_pages" /\ FinancePages!NextFinance
       \/ part = "finance_ranges" /\ FinanceRanges!NextFinance
    /\ UNCHANGED <<part, filed, row, view, users>>
MatchingNext ==
    /\ \/ part = "matches" /\ MatchHistory!Next
       \/ part = "policies" /\ Policies!Next
       \/ part = "guardrails" /\ Guardrails!Next
    /\ UNCHANGED <<part, filed, active, payout, row, view, users>>
ListsNext ==
    /\ \/ part = "pages" /\ Pages!Next
       \/ part = "filtered" /\ Filtered!Next
       \/ part = "sizes" /\ PageSizes!Next
    /\ UNCHANGED <<part, booking, audit, filed, active, payout, users>>

UsersNext ==
    /\ part = "accounts" /\ Accounts!Next
    /\ UNCHANGED <<part, booking, audit, filed, active, payout, row, view>>

Next == AnalyticsNext \/ DashboardNext \/ FinanceNext \/ MatchingNext \/ ListsNext \/ UsersNext
Spec == Init /\ [][Next]_all
Symmetry == Permutations(Pair)

-----------------------------------------------------------------------------
\* Analytics: a range starts before it ends, the days of a trend and the zones add up to
\* their totals, every activation is on a day of the range, each stage of the funnel is
\* within the one before, a longer span of a cohort counts at least what a shorter one
\* counts, and rates stay in their bounds.
\* Dashboard: each booking and each payment is in one class, pages that count the same
\* agree, charts add up to the figures beside them, who is shown as busy has a mission
\* ahead.  FinanceReports: the pages agree with the front page, ranges that meet add up, so
\* do the invoices of a page, and a commission is split without a rest.
\* MatchingReports: the overview adds up over days and results, an accepted invitation
\* leaves no other one open, the events of a timeline are in order, policies and scenarios
\* split the matches, declines and cancellations are counted as told and once, and what is
\* shown as a draft was never dispatched.
\* AdminUsers: everybody who came lately is in the overview's timeline, once.
FiguresSound ==
    /\ part = "trends" => Trends!TypeOK /\ Trends!RangeOrdered /\ Trends!TrendsAddUp
    /\ part = "activations" => Activations!ActivationsOnDays
    /\ part = "funnel" => Funnel!FunnelNarrows /\ Funnel!ZonesAddUp
    /\ part = "cohorts" => Cohorts!CohortsNested
    /\ part = "operations" => Operations!TypeOK /\ Operations!OperationsBounded
    /\ part = "front" => FrontPage!TypeOK /\ FrontPage!ClassesAreWhole /\ FrontPage!PagesAgree
    /\ part = "charts" => Charts!ChartsAddUp
    /\ part = "occupancy" => Occupancy!OccupancyExplained
    /\ part = "finance_pages" => FinancePages!FinanceAgrees /\ FinancePages!CommissionsSplit
    /\ part = "finance_ranges" => /\ FinanceRanges!FinanceTypeOK /\ FinanceRanges!FinanceAddsUp
                                  /\ FinanceRanges!InvoicesAddUp
    /\ part = "matches" => /\ MatchHistory!TypeOK /\ MatchHistory!OverviewAddsUp
                           /\ MatchHistory!AcceptedClosesOthers /\ MatchHistory!TimelineInOrder
    /\ part = "policies" => Policies!PoliciesAddUp /\ Policies!ScenariosSplit
    /\ part = "guardrails" => /\ Guardrails!DeclinesAsTold /\ Guardrails!CancelsCountedOnce
                              /\ Guardrails!DraftsAreDrafts
    /\ part = "accounts" => Accounts!TimelineComplete

\* Lists: in order of creation, a reader misses no row that was there all along, in order of
\* the last write, none that was left alone, with no write in between, every row is shown
\* once; under a filter on what is written, only a row that went can hide another; a page
\* has between one and the most rows.
ListsComplete ==
    /\ part = "pages" => /\ Pages!CreatedListsComplete /\ Pages!WrittenListsComplete
                         /\ Pages!QuietListsOnce
    /\ part = "filtered" => Filtered!MissedOnlyByGaps
    /\ part = "sizes" => PageSizes!SizesBounded

=============================================================================
