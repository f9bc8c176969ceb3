------------------------------ MODULE MCMatching ------------------------------
(***************************************************************************)
(* Matching, its scores, the calendars and the directory it reads, and the *)
(* notifications, side by side, on small instances: one part is at work in *)
(* a behaviour and the others stay as they began.                          *)
(***************************************************************************)
EXTENDS Integers, Sequences, FiniteSets, TLC

CONSTANTS w1, w2, p1, p2, p3, t1, b1, b2, town, eva, rolf, corp, zoe,
          ann, eve, s1, s2, booked, k1, None

VARIABLES
    part,
    booking, active, activeTeams, timeOff, queue, fresh, req, todo, byHand,     \* Matching
    configs, latest, cache, load,                                               \* MatchingScore
    slots, off, work, ids, day,                                                 \* Availability
    profile, jobs,                                                              \* Directory
    rows, calls, handlerSets, userStreams, sockets, received, reader, faults,   \* Notifications
    asks, matchingProgressCache, opsRecipientCache, working, lastActive, passed, now

Workers == {w1, w2}

-----------------------------------------------------------------------------
(* Matching: a day has twelve units, the buffer is one; the first provider *)
(* works in the morning and late, the second the whole day, both in town   *)
(* and in one team.                                                        *)
Slot(s, e) == [weekday |-> 0, start |-> s, end |-> e]
Profile(week, zones) ==
    [slots |-> week, zones |-> zones, areas |-> {}, categories |-> {"cleaning"}, offersEco |-> FALSE]
Request(s, e, n, team, chosen) ==
    [startAt |-> s, endAt |-> e, requiredProviders |-> n, team |-> team, providerIds |-> chosen,
     mode |-> IF chosen = << >> THEN "smart_match" ELSE "manual",
     service |-> "cleaning", bio |-> FALSE, city |-> town, shortNotice |-> FALSE]
ProfilesOf == (p1 :> Profile(<<Slot(1, 3), Slot(2, 6)>>, {town})) @@ (p2 :> Profile(<<Slot(2, 10)>>, {}))

\* A morning job, which may be moved, and a long one for two.
Match == INSTANCE Matching WITH
    Providers <- {p1, p2}, Profiles <- ProfilesOf, Teams <- {t1}, Members <- (t1 :> <<p2, p1>>),
    TimesOff <- {}, Bookings <- {b1, b2},
    Requests <- {Request(2, 4, 1, None, << >>), Request(4, 6, 1, None, << >>),
                 Request(3, 7, 2, None, << >>)},
    Chosen <- {},
    Day <- 12, BUFFER <- 1, Take <- 1, MaxRetries <- 0, Workers <- {town}
\* A job at short notice beside a planned one, with changes of status, and nothing retried.
Short == INSTANCE Matching WITH
    Providers <- {p1, p2}, Profiles <- ProfilesOf, Teams <- {t1}, Members <- (t1 :> <<p2, p1>>),
    TimesOff <- {}, Bookings <- {b1, b2},
    Requests <- {Request(2, 4, 1, None, << >>),
                 [Request(3, 5, 1, None, << >>) EXCEPT !.shortNotice = TRUE]},
    Chosen <- {"in_progress"},
    Day <- 12, BUFFER <- 1, Take <- 1, MaxRetries <- 0, Workers <- {town}
\* A request of a team, and those of a provider the client chose.
Teams == INSTANCE Matching WITH
    Providers <- {p1, p2}, Profiles <- ProfilesOf, Teams <- {t1}, Members <- (t1 :> <<p2, p1>>),
    TimesOff <- {[startAt |-> 0, endAt |-> 4]}, Bookings <- {b1, b2},
    Requests <- {Request(3, 5, 2, t1, << >>), Request(4, 7, 1, None, <<p2>>),
                 Request(3, 5, 1, None, <<p1>>)},
    Chosen <- {},
    Day <- 12, BUFFER <- 1, Take <- 1, MaxRetries <- 0, Workers <- {town}

(* Scores: an eco freelancer nearby, a rival better in all but eco, a      *)
(* company with cancellations, and one like the first but for the id.      *)
Facts == [near |-> "zone", rating |-> 4, offersEco |-> TRUE, availability |-> 70,
          rate |-> 20, company |-> FALSE]
Past(n, p, starts, cancelled, ofClient) ==
    [n |-> n, provider |-> p, startsRecently |-> starts, cancelledRecently |-> cancelled,
     ofClient |-> ofClient]
Default == [weights |-> [distance |-> 20, rating |-> 20, reliability |-> 15, experience |-> 10,
                         eco |-> 15, availability |-> 15, loyalty |-> 5],
            distanceMaxKm |-> 20, two |-> 2, threePlus |-> 5]

Score == INSTANCE MatchingScore WITH
    Candidates <- {eva, rolf, corp, zoe},
    Facts <- (eva :> Facts) @@ (zoe :> Facts)
        @@ (rolf :> [Facts EXCEPT !.rating = 5, !.availability = 100, !.offersEco = FALSE])
        @@ (corp :> [Facts EXCEPT !.company = TRUE, !.near = "area", !.rate = 60]),
    History <- {Past(1, eva, TRUE, FALSE, FALSE), Past(2, eva, TRUE, TRUE, FALSE),
                Past(3, rolf, TRUE, FALSE, FALSE), Past(4, rolf, FALSE, FALSE, TRUE),
                Past(5, corp, TRUE, TRUE, TRUE), Past(6, corp, FALSE, TRUE, FALSE)},
    Order <- (corp :> 1) @@ (eva :> 2) @@ (rolf :> 3) @@ (zoe :> 4),
    Configs <- {Default,
                [Default EXCEPT !.weights = ("price" :> 50 @@ "rating" :> 60)],
                [Default EXCEPT !.weights = ("experience" :> 90), !.distanceMaxKm = 50],
                [weights |-> [k \in DOMAIN Default.weights |-> 0], distanceMaxKm |-> 9,
                 two |-> 0, threePlus |-> 5]},
    Workers <- {town}, rows <- configs, req <- load

(* Calendars. *)
Weeks == INSTANCE Availability WITH
    Providers <- {p1}, Zones <- {"Berlin", "Paris"}, Ranges <- {<<0, 2>>, <<1, 4>>, <<2, 2>>},
    Day <- 3, Periods <- {}, LongestOff <- 2, Workers <- {town}, MaxEntries <- 2, MaxRow <- 3,
    MaxOff <- 0, MaxTime <- 0, timeOff <- off, rows <- ids, now <- day
Replacing == INSTANCE Availability WITH
    Providers <- {p1}, Zones <- {"Berlin"}, Ranges <- {<<0, 2>>}, Day <- 3, Periods <- {},
    LongestOff <- 2, MaxEntries <- 2, MaxRow <- 4, MaxOff <- 0, MaxTime <- 0,
    timeOff <- off, rows <- ids, now <- day
Absences == INSTANCE Availability WITH
    Providers <- {p1}, Zones <- {"Berlin"}, Ranges <- {}, Day <- 2,
    Periods <- {<<0, 1>>, <<1, 2>>, <<0, 3>>, <<2, 2>>}, LongestOff <- 2, Workers <- {town},
    MaxEntries <- 0, MaxRow <- 0, MaxOff <- 3, MaxTime <- 3,
    timeOff <- off, rows <- ids, now <- day

(* The directory: two cities, postal codes of two digits.                  *)
Area(city, spelling) == [city |-> city, spelling |-> spelling]
Row(services, areas, zones, rate, rating) ==
    [active |-> TRUE, services |-> services, areas |-> areas, zones |-> zones,
     rate |-> rate, rating |-> rating]
Search == [service |-> None, city |-> None, postal |-> None, minRate |-> 0, maxRate |-> 9,
           minRating |-> 0, sort |-> "rating", from |-> None, hours |-> 0, minMissions |-> 0]

Directory == INSTANCE Directory WITH
    Providers <- {p1, p2, p3},
    Rows <- {Row({"home"}, {Area("Berlin", "title")}, {<<1, 0>>}, 2, 4),
             Row({"home"}, {Area("Berlin", "lower"), Area("Bonn", "odd")}, {<<1, 1>>}, 1, 3),
             Row({"home", "office"}, {Area("Berlin", "upper")}, {}, 3, 5),
             Row({"home"}, {Area("Bonn", "oddLower")}, {<<5, 3>>}, 2, 5)},
    Areas <- [city : {"Berlin", "Bonn"}, spelling : {"title", "lower", "upper", "odd", "oddLower"}],
    PostalCity <- (<<1, 0>> :> "Berlin") @@ (<<1, 1>> :> "Berlin") @@ (<<5, 3>> :> "Bonn"),
    Digits <- 2, Take <- 2, MaxCandidates <- 2, Spans <- {<<0, 2>>, <<2, 4>>}, MaxJobs <- 1,
    Filters <- {Search,
                [Search EXCEPT !.service = "home", !.sort = "rate"],
                [Search EXCEPT !.city = Area("Berlin", "title"), !.minRating = 7],
                [Search EXCEPT !.city = Area("Berlin", "upper"), !.from = 1, !.hours = 2],
                [Search EXCEPT !.postal = <<1, 0>>, !.minMissions = 1],
                [Search EXCEPT !.postal = <<1>>, !.maxRate = 2],
                [Search EXCEPT !.postal = <<5, 3>>, !.city = Area("Berlin", "lower")],
                [Search EXCEPT !.postal = <<1, 1>>, !.from = 0, !.hours = 2],
                [Search EXCEPT !.postal = <<9, 9>>]}

(* Notifications: two users, one of whom may be staff. *)
Streams == INSTANCE BookingNotices WITH
    Users <- {ann, eve}, Staff <- {}, Kinds <- {booked}, Keys <- {k1}, Sockets <- {s1, s2},
    Take <- 2, MaxRows <- 2, MaxStreams <- 2, MaxFaults <- 1, Client <- ann, Providers <- {},
    Steps <- {k1}, ProgressTtl <- 2, OpsTtl <- 1, QueryTime <- 1, MaxTime <- 0
Inbox == INSTANCE BookingNotices WITH
    Users <- {ann, eve}, Staff <- {eve}, Kinds <- {booked}, Keys <- {}, Workers <- {town},
    Sockets <- {}, Take <- 1, MaxRows <- 3, MaxStreams <- 0, MaxFaults <- 0, Client <- ann,
    Providers <- {}, Steps <- {}, ProgressTtl <- 2, OpsTtl <- 1, QueryTime <- 1, MaxTime <- 0
Progress == INSTANCE BookingNotices WITH
    Users <- {ann, eve}, Staff <- {eve}, Kinds <- {booked}, Keys <- {k1}, Sockets <- {},
    Take <- 1, MaxRows <- 1, MaxStreams <- 0, MaxFaults <- 0, Client <- ann, Providers <- {},
    Steps <- {k1}, ProgressTtl <- 2, OpsTtl <- 1, QueryTime <- 1, MaxTime <- 3
Retried == INSTANCE BookingNotices WITH
    Users <- {ann, eve}, Staff <- {eve}, Kinds <- {booked}, Keys <- {k1}, Workers <- {town},
    Sockets <- {}, Take <- 1, MaxRows <- 2, MaxStreams <- 0, MaxFaults <- 2, Client <- ann,
    Providers <- {}, Steps <- {k1}, ProgressTtl <- 1, OpsTtl <- 2, QueryTime <- 1, MaxTime <- 3

ASSUME /\ Match!MatchingAssumption /\ Short!MatchingAssumption /\ Teams!MatchingAssumption
       /\ Score!ScoreAssumption
       /\ Weeks!AvailabilityAssumption /\ Replacing!AvailabilityAssumption
       /\ Absences!AvailabilityAssumption /\ Directory!DirectoryAssumption
       /\ Streams!NotificationsAssumption /\ Inbox!NotificationsAssumption
       /\ Progress!NotificationsAssumption /\ Progress!BookingNoticesAssumption
       /\ Retried!NotificationsAssumption /\ Retried!BookingNoticesAssumption

-----------------------------------------------------------------------------
matching == <<booking, active, activeTeams, timeOff, queue, fresh, req, todo, byHand>>
scores == <<configs, latest, cache, load>>
calendars == <<slots, off, work, ids, day>>
directory == <<profile, jobs>>
notices == <<rows, calls, handlerSets, userStreams, sockets, received, reader, faults>>
progress == <<asks, matchingProgressCache, opsRecipientCache, working, lastActive, passed, now>>
all == <<part, matching, scores, calendars, directory, notices, progress>>

Init ==
    /\ part \in {"match", "short", "teams", "scores", "weeks", "replacing", "absences",
                "directory", "streams", "inbox", "progress", "retried"}
    /\ IF part = "teams" THEN Teams!Init ELSE Match!Init
    /\ Score!Init /\ Directory!Init
    /\ IF part = "replacing" THEN Replacing!Init ELSE Weeks!Init
    /\ CASE part = "streams" -> Streams!InitNotices [] part = "progress" -> Progress!InitNotices
         [] part = "retried" -> Retried!InitNotices [] OTHER -> Inbox!InitNotices

\* Plans are stored before anything else happens; of the calendar, a time off comes and
\* goes, and where there are the team's requests, the team and an account.
MatchingNext ==
    /\ \/ /\ part = "match"
          /\ IF req[town] # Match!Idle THEN Match!CreateStore(town) ELSE Match!Next
       \/ /\ part = "short"
          /\ IF req[town] # Short!Idle THEN Short!CreateStore(town) ELSE Short!Next
          /\ fresh \subseteq fresh'
       \/ /\ part = "teams"
          /\ IF req[town] # Teams!Idle THEN Teams!CreateStore(town) ELSE Teams!Next
    /\ p2 \in active' /\ (part # "teams" => activeTeams' = {t1} /\ p1 \in active')
    /\ UNCHANGED <<part, scores, calendars, directory, notices, progress>>
ScoresNext == part = "scores" /\ Score!Next
              /\ UNCHANGED <<part, matching, calendars, directory, notices, progress>>
\* Weeks that are replaced at the same time have active slots, each named once.
CalendarsNext ==
    /\ \/ part = "weeks" /\ Weeks!Next
       \/ /\ part = "replacing" /\ Replacing!Next
          /\ \A w \in Workers : \A i, j \in DOMAIN work'[w].week :
               /\ work'[w].week[i].active
               /\ i < j => work'[w].week[i].id = 0 \/ work'[w].week[i].id # work'[w].week[j].id
       \/ part = "absences" /\ Absences!Next
    /\ UNCHANGED <<part, matching, scores, directory, notices, progress>>
DirectoryNext == part = "directory" /\ Directory!Next
                 /\ UNCHANGED <<part, matching, scores, calendars, notices, progress>>
\* One question at a time: streams, all of one user, then pages.
NoticesNext ==
    /\ \/ /\ part = "streams" /\ UNCHANGED progress
          /\ Streams!Emitting \/ Streams!Streaming \/ Streams!Restart
          /\ \A s \in {s1, s2} : sockets'[s].user # eve
       \/ part = "inbox" /\ (Inbox!Emitting \/ Inbox!Reading) /\ UNCHANGED progress
       \/ part = "progress" /\ Progress!NextNotices
       \/ part = "retried" /\ Retried!NextNotices
    /\ UNCHANGED <<part, matching, scores, calendars, directory>>

Next == MatchingNext \/ ScoresNext \/ CalendarsNext \/ DirectoryNext \/ NoticesNext
Spec == Init /\ [][Next]_all
Symmetry == Permutations(Workers)

-----------------------------------------------------------------------------
\* Matching: bookings that overlap share a provider only where somebody skipped the check,
\* whoever gets a booking works then, up to an hour on either side, and a plan has no more
\* providers than are wanted, a team's all of its own.  MatchingScore: the weights in use
\* are shares of one, who is as good in all and better in something that counts comes
\* first, ranks have no gaps and no ties, and requests one at a time, the cache holds what
\* was saved last.
AssignmentsSound ==
    /\ [](
        /\ part = "match" => Match!TypeOK /\ Match!DoubleBookedByHand
        /\ part = "short" => Short!TypeOK /\ Short!DoubleBookedByHand
        /\ part = "teams" => Teams!TypeOK /\ Teams!PlansAreSound
        /\ part = "scores" => /\ Score!TypeOK /\ Score!WeightsAreShares /\ Score!DominanceKept
                              /\ Score!RanksAreDense /\ Score!CacheIsCurrent)
    /\ [][part = "match" => Match!AssignsWork]_all

ReplacesWeeks ==
    /\ part = "replacing" => Replacing!ReplacesAllOrNothing
    /\ part = "weeks" => Weeks!ReplacesWeek

\* Availability: replacements that overlap add up to no more than they hold, each is carried
\* out in full or not at all; one at a time, the slots are those of the last request and a
\* week has one time zone; its hours are what its active slots cover; the next time off is
\* one that is not over.  Directory: the two ways to tell where a provider works agree, who
\* fits a search is on its page or behind a full one, a postal code is covered as the search
\* for it finds somebody, and whoever works in a listed city is found there.
CalendarsSound ==
    /\ [](
        /\ part = "replacing" => Replacing!ReplacementsAddUp
        /\ part = "weeks" => Weeks!TypeOK /\ Weeks!OneZone /\ Weeks!HoursCovered
        /\ part = "absences" => Absences!TimeOffInOrder
        /\ part = "directory" =>
             /\ Directory!TypeOK /\ Directory!LocationAgrees /\ Directory!ListedOrOutranked
             /\ Directory!CoverageFollows /\ Directory!CityFindsProviders)
    /\ [][ReplacesWeeks]_all

TellsAll ==
    /\ part = "streams" => Streams!ForgetsNobody
    /\ part = "progress" => Progress!DropsForAReason

\* Notifications: a key is stored for a user as often as emits overlap, what a stream was
\* told is in the table, an open stream was told of every row since it opened, an emit that
\* stops after its look-up leaves nobody without a row; pages show no row twice while rows
\* arrive, and miss one for each cursor read meanwhile.  BookingNotices: one step of the
\* progress is sent on once in its time and dropped only for that, whom the list calls staff
\* was active not long before, and a retry stores no second row for who has one.
NoticesSound ==
    /\ [](
        /\ part = "streams" => /\ Streams!TypeOK /\ Streams!CopiesBounded
                               /\ Streams!StreamedIsStored /\ Streams!OpenStreamsAreTold
        /\ part = "inbox" => Inbox!ShownOnce /\ Inbox!PagesComplete
        /\ part = "progress" => Progress!NoticesTypeOK /\ Progress!ProgressOnce /\ Progress!StaffFresh
        /\ part = "retried" => Retried!RetryAddsNone)
    /\ [][TellsAll]_all

=============================================================================
