------------------------------- MODULE Directory -------------------------------
(***************************************************************************)
(* The public directory of providers, the check whether a postal code is   *)
(* covered, and the list of cities (provider.service.ts).  Spellings       *)
(* matter: the database compares areas as they are written, the code       *)
(* normalises them.                                                        *)
(***************************************************************************)
EXTENDS Integers, FiniteSets, Sequences, SequencesExt

CONSTANTS
    Providers, Rows,          \* Rows: profiles they may have
    Areas, PostalCity,        \* spelt cities; postal code |-> its city in the table
    Digits,                   \* of a postal code
    Filters, Take,            \* of searches; the longest page
    MaxCandidates,            \* of the check of a postal code
    Spans, MaxJobs,           \* times of bookings; bound
    None

DirectoryAssumption ==
    /\ \A a \in Areas : a.spelling \in {"title", "lower", "upper", "odd", "oddLower"}
    /\ \A c \in DOMAIN PostalCity : Len(c) = Digits

VARIABLES
    profile,    \* provider |-> its profile
    jobs        \* assignments: a provider, a span, the status of the booking

vars == <<profile, jobs>>

\* A booking in one of these takes its provider's time.
BUSY_STATUSES == {"CONFIRMED", "IN_PROGRESS", "PENDING_PROVIDER", "PENDING_CLIENT"}
\* Bookings are given away waiting for the client or confirmed, and are over when completed
\* or cancelled.
GivenStatuses == {"PENDING_CLIENT", "CONFIRMED"}
JobStatuses == GivenStatuses \cup {"IN_PROGRESS", "COMPLETED", "CANCELLED"}

Job(p, span, status) == [provider |-> p, from |-> span[1], to |-> span[2], status |-> status]

Init == profile = [p \in Providers |-> None] /\ jobs = {}

Profiles == {p \in Providers : profile[p] # None}

createProfile(p, row) ==
    /\ profile[p] = None /\ profile' = [profile EXCEPT ![p] = row] /\ UNCHANGED jobs
setActive(p) ==
    /\ p \in Profiles /\ profile' = [profile EXCEPT ![p].active = ~@] /\ UNCHANGED jobs
\* Slip: the profile is not looked up.
assignAnybody(p, span, status) ==
    /\ Cardinality(jobs) < MaxJobs
    /\ jobs' = jobs \cup {Job(p, span, status)} /\ UNCHANGED profile
assign(p, span, status) ==
    /\ p \in Profiles /\ Cardinality(jobs) < MaxJobs
    /\ jobs' = jobs \cup {Job(p, span, status)} /\ UNCHANGED profile
\* A booking's status is written: confirmed, started, completed.
SetStatus(j, status) ==
    /\ jobs' = (jobs \ {j}) \cup {[j EXCEPT !.status = status]} /\ UNCHANGED profile

Next ==
    \/ \E p \in Providers : \/ \E row \in Rows : createProfile(p, row)
                            \/ setActive(p)
                            \/ \E span \in Spans, status \in GivenStatuses : assign(p, span, status)
    \/ \E j \in jobs, status \in JobStatuses : SetStatus(j, status)

Spec == Init /\ [][Next]_vars

-----------------------------------------------------------------------------
(***************************************************************************)
(* Spellings and postal codes.                                             *)
(***************************************************************************)

Spelt(city, spellings) == {[city |-> city, spelling |-> s] : s \in spellings}
normalizeCityName(area) == area.city
\* Of the city of the table, and of one that was typed in.
cityVariants(city) == Spelt(city, {"title", "lower", "upper"})
\* Slip: the city is looked for as it was typed.
TypedOnly(area) == {area}
buildCityVariants(area) == {area} \cup Spelt(area.city, {"lower", "title"})

lookup(code) == IF code \in DOMAIN PostalCity THEN PostalCity[code] ELSE None

ZoneWithin(p, prefix) == \E z \in profile[p].zones : IsPrefix(prefix, z)

\* Slip: an area has to be written as in the table.
matchesSpelling(p, prefix, cities) ==
    \/ prefix = None /\ cities = {}
    \/ prefix # None /\ ZoneWithin(p, prefix)
    \/ \E a \in profile[p].areas : a.spelling = "title" /\ normalizeCityName(a) \in cities

providerMatchesRequestedLocation(p, prefix, cities) ==
    \/ prefix = None /\ cities = {}
    \/ prefix # None /\ ZoneWithin(p, prefix)
    \/ \E a \in profile[p].areas : normalizeCityName(a) \in cities

-----------------------------------------------------------------------------
(***************************************************************************)
(* A search: the query, the page it returns, and what is filtered from it  *)
(* afterwards.  Providers that rank alike come in any order.               *)
(***************************************************************************)

TableCity(f) == IF f.postal = None THEN None ELSE lookup(f.postal)

OffersService(p, f) == f.service # None => f.service \in profile[p].services
WorksInCity(p, f) == f.city # None => profile[p].areas \cap buildCityVariants(f.city) # {}
WorksInPostal(p, f) ==
    f.postal # None =>
        ZoneWithin(p, f.postal)
        \/ (TableCity(f) # None /\ profile[p].areas \cap cityVariants(TableCity(f)) # {})
InRates(p, f) == f.minRate <= profile[p].rate /\ profile[p].rate <= f.maxRate
Clamp(x, low, high) == IF x < low THEN low ELSE IF x > high THEN high ELSE x
RatedEnough(p, f) == profile[p].rating >= Clamp(f.minRating, 0, 5)

Query(f) ==
    {p \in Profiles : /\ profile[p].active /\ OffersService(p, f)
                      /\ WorksInCity(p, f) /\ WorksInPostal(p, f)
                      /\ InRates(p, f) /\ RatedEnough(p, f)}

Ahead(p, q, f) == IF f.sort = "rate" THEN profile[p].rate < profile[q].rate
                  ELSE profile[p].rating > profile[q].rating

Pages(f) ==
    {page \in SUBSET Query(f) :
        /\ Cardinality(page) <= Take
        /\ page # Query(f) => Cardinality(page) = Take
        /\ \A p \in page, q \in Query(f) \ page : ~Ahead(q, p, f)}

CitiesAsked(f) == ({TableCity(f)} \cup (IF f.city = None THEN {} ELSE {normalizeCityName(f.city)}))
                  \ {None}

resolveCompletedMissions(p) == Cardinality({j \in jobs : j.provider = p /\ j.status = "COMPLETED"})

\* Slip: a booking that ends when the other begins is in its way.
isFreeApart(p, f) ==
    ~\E j \in jobs : /\ j.provider = p /\ j.status \in BUSY_STATUSES
                     /\ j.from <= f.from + f.hours /\ j.to >= f.from

isFree(p, f) ==
    ~\E j \in jobs : /\ j.provider = p /\ j.status \in BUSY_STATUSES
                     /\ j.from < f.from + f.hours /\ j.to > f.from

\* Without a date or with no hours, nobody's calendar is looked at.
resolveAvailabilityFlags(p, f) == f.from # None /\ f.hours > 0 => isFree(p, f)

PassesAfterwards(p, f) ==
    /\ providerMatchesRequestedLocation(p, f.postal, CitiesAsked(f))
    /\ resolveAvailabilityFlags(p, f)
    /\ resolveCompletedMissions(p) >= f.minMissions

listDirectoryProviders(f, page) == {p \in page : PassesAfterwards(p, f)}

getDirectoryProviderDetails(p) ==
    IF p \in Profiles /\ profile[p].active
      THEN [completed |-> resolveCompletedMissions(p), rate |-> profile[p].rate]
      ELSE None

-----------------------------------------------------------------------------
\* The query takes neighbours of the code in as well; only so many are looked at.
Candidates(code) ==
    {p \in Profiles :
        /\ profile[p].active
        /\ \/ ZoneWithin(p, SubSeq(code, 1, Digits - 1))
           \/ profile[p].areas \cap cityVariants(lookup(code)) # {}}

Matched(code, sample) ==
    {p \in sample : providerMatchesRequestedLocation(p, code, {lookup(code)})}

\* The answer for the candidates that were taken.
checkPostalCoverage(code, sample) ==
    CASE Len(code) < Digits -> [reason |-> "invalid_postal", count |-> 0]
      [] Len(code) >= Digits /\ lookup(code) = None -> [reason |-> "postal_not_found", count |-> 0]
      [] OTHER -> [reason |-> IF Matched(code, sample) = {} THEN "uncovered" ELSE "covered",
                   count |-> Cardinality(Matched(code, sample))]

\* The first letter is made a capital.
Capital(area) == [area EXCEPT !.spelling = IF @ = "lower" THEN "title"
                                           ELSE IF @ = "oddLower" THEN "odd" ELSE @]
listServiceCities == UNION {{Capital(a) : a \in profile[p].areas} :
                            p \in {q \in Profiles : profile[q].active}}

-----------------------------------------------------------------------------
TypeOK ==
    /\ profile \in [Providers -> {None} \cup {[r EXCEPT !.active = b] : r \in Rows, b \in BOOLEAN}]
    /\ \A j \in jobs : j.provider \in Profiles /\ j.status \in JobStatuses

\* The check of the location after the query takes nobody out again: both ways of comparing
\* places agree on whoever the query returned.
LocationAgrees ==
    \A f \in Filters : \A p \in Query(f) :
        providerMatchesRequestedLocation(p, f.postal, CitiesAsked(f))

\* Whoever is active, meets the query, is free at every moment asked for and has the missions
\* is listed, unless a full page of the query ranks no lower: the filters that come after the
\* page cost matching providers their place.
ListedOrOutranked ==
    \A f \in Filters : \A page \in Pages(f), p \in Query(f) :
        LET busy(m) == \E j \in jobs : /\ j.provider = p /\ j.status \in BUSY_STATUSES
                                       /\ j.from <= m /\ m < j.to
            fits == /\ f.from # None => \A m \in f.from..(f.from + f.hours - 1) : ~busy(m)
                    /\ Cardinality({j \in jobs : j.provider = p /\ j.status = "COMPLETED"})
                         >= f.minMissions
        IN /\ p \in page => (p \in listDirectoryProviders(f, page) <=> fits)
           /\ p \notin page => Cardinality(page) = Take /\ \A q \in page : ~Ahead(p, q, f)

\* Where the directory has somebody for a postal code of the table, the code is covered, as
\* long as not more candidates than are looked at live around it.
CoverageFollows ==
    \A f \in Filters :
        (f.postal # None /\ lookup(f.postal) # None /\ Cardinality(Candidates(f.postal)) <= MaxCandidates)
        => LET answer == checkPostalCoverage(f.postal, Candidates(f.postal))
           IN /\ Query(f) # {} => answer.reason = "covered"
              /\ answer.count >= Cardinality(Query(f))

\* A city of the list, typed in as it is written there, finds a provider, unless its areas
\* are only spelt in ways no variant has.
CityFindsProviders ==
    \A c \in listServiceCities : c.spelling # "odd" =>
        \E p \in Profiles : profile[p].active /\ profile[p].areas \cap buildCityVariants(c) # {}

=============================================================================
