------------------------------- MODULE Matching -------------------------------
(***************************************************************************)
(* Who may get a booking, and who gets it (booking-matching.service.ts and *)
(* the plans of bookings.service.ts): eligibility by working hours, time   *)
(* off, area and other bookings; plans made of requested providers, of a   *)
(* preferred team, of a matched team or of matched providers; and the job  *)
(* that retries the plans of the bookings that wait longest.               *)
(*                                                                         *)
(* The order in which matched providers come is that of MatchingScore; here*)
(* any of the eligible ones may come first.  BookingLifecycle has the      *)
(* seats, invitations, retries and escalations of one booking in full, and *)
(* TeamLocks the locks; here is what each of them does to the calendar.    *)
(***************************************************************************)
EXTENDS Integers, Sequences, FiniteSets, FiniteSetsExt, SequencesExt

CONSTANTS
    Providers, Profiles, \* provider |-> what does not change here
    Teams, Members,      \* team |-> its members, leads first and by index
    TimesOff,            \* the periods a provider may take off
    Bookings, Requests,  \* ids, and what clients may ask for
    Day, BUFFER,         \* lengths: of a day, and 60 minutes
    Take,                \* how many bookings one run of the job retries (5)
    MaxRetries,          \* bound: retries are counted up to it
    Chosen,              \* bound: the statuses that operators and providers set
    Workers, None

BLOCKING_STATUSES == {"draft", "pending_provider", "pending_client", "confirmed", "in_progress"}
BookingStatus == BLOCKING_STATUSES \cup {"completed", "cancelled", "disputed"}
PROVIDER_ALLOWED_STATUSES == {"confirmed", "in_progress", "completed", "cancelled"}

MatchingAssumption ==
    /\ Chosen \subseteq BookingStatus
    /\ Day \in Nat \ {0} /\ BUFFER \in Nat /\ Take \in Nat \ {0} /\ MaxRetries \in Nat
    /\ Members \in [Teams -> Seq(Providers)]
    /\ \A r \in Requests : /\ r.startAt < r.endAt /\ r.requiredProviders \in 1..20
                           /\ r.shortNotice => r.mode = "smart_match"

VARIABLES
    booking,    \* id |-> the request and the state of its booking
    active,     \* the providers whose user is active
    activeTeams,
    timeOff,    \* provider |-> the periods off
    queue,      \* the stored bookings, the one updated longest ago first
    fresh,      \* those updated less than five minutes ago
    req,        \* worker |-> the plan it made and will store
    todo,       \* what is left of the present run of the job
    byHand      \* bookings whose time, status or providers were last set without a check

calendar == <<active, activeTeams, timeOff>>
jobs == <<queue, fresh, todo>>
vars == <<booking, calendar, jobs, req, byHand>>

NoBooking == [status |-> "none", request |-> None, providers |-> << >>, team |-> None,
              retries |-> 0, candidate |-> None, broadcast |-> FALSE, invited |-> {}]
Idle == [request |-> None, booking |-> None, providers |-> << >>, team |-> None]

Init ==
    /\ booking = [b \in Bookings |-> NoBooking]
    /\ active = Providers /\ activeTeams = Teams
    /\ timeOff = [p \in Providers |-> {}]
    /\ queue = << >> /\ fresh = {} /\ todo = << >>
    /\ req = [w \in Workers |-> Idle]
    /\ byHand = {}

-----------------------------------------------------------------------------
(***************************************************************************)
(* Eligibility.                                                            *)
(***************************************************************************)

normalizeWeekday(t) == (t \div Day) % 7
Minutes(t) == t % Day

\* Slip: when the job ends is not compared.
CoversStart(slot, r, buffer) ==
    /\ normalizeWeekday(r.startAt) = slot.weekday
    /\ Minutes(r.startAt) >= slot.start - buffer

Covers(slot, r, buffer) ==
    /\ normalizeWeekday(r.startAt) = slot.weekday
    /\ Minutes(r.startAt) >= slot.start - buffer
    /\ Minutes(r.endAt) <= slot.end + buffer

\* 10 within working hours, 7 within an hour of them, 0 outside: as the first slot
\* in order decides that covers the job at all.
availabilityTier(p, r) ==
    LET slots == Profiles[p].slots
        covering == {i \in DOMAIN slots : Covers(slots[i], r, BUFFER)}
    IN IF covering = {} THEN 0
       ELSE IF Covers(slots[Min(covering)], r, 0) THEN 10 ELSE 7

Overlap(x, y) == x.startAt < y.endAt /\ x.endAt > y.startAt

hasBlockingTimeOff(p, r) == \E off \in timeOff[p] : Overlap(off, r)

Holds(p, b) == booking[b].status \in BLOCKING_STATUSES /\ p \in ToSet(booking[b].providers)

\* Slip: only confirmed bookings block.
BusyConfirmed(p, r, except) ==
    \E b \in Bookings \ {except} :
        /\ booking[b].status = "confirmed" /\ p \in ToSet(booking[b].providers)
        /\ Overlap(booking[b].request, r)

Busy(p, r, except) ==
    \E b \in Bookings \ {except} : Holds(p, b) /\ Overlap(booking[b].request, r)

load(p) == Cardinality({b \in Bookings : Holds(p, b)})

\* Zones count before areas, and somebody with neither works everywhere.
InArea(p, city) ==
    \/ city = None
    \/ Profiles[p].zones # {} /\ city \in Profiles[p].zones
    \/ Profiles[p].zones = {} /\ (Profiles[p].areas = {} \/ city \in Profiles[p].areas)

getEligibleProviders(r, except) ==
    {p \in active :
        /\ r.service \in Profiles[p].categories
        /\ r.bio => Profiles[p].offersEco
        /\ InArea(p, r.city)
        /\ availabilityTier(p, r) > 0
        /\ ~hasBlockingTimeOff(p, r)
        /\ ~Busy(p, r, except)}

\* Slip: all members count.
EligibleMembersAll(t, r, except) == Members[t]

EligibleMembers(t, r, except) ==
    LET eligible == getEligibleProviders(r, except)
    IN SelectSeq(Members[t], LAMBDA p : p \in eligible)

FirstOf(s, n) == SubSeq(s, 1, n)

\* matchTeam: the teams it may answer with, those of the least load.
matchTeam(r, except) ==
    LET big == {t \in activeTeams : Len(EligibleMembers(t, r, except)) >= r.requiredProviders}
        loadOf(t) == MapThenSumSet(load,
                       ToSet(FirstOf(EligibleMembers(t, r, except), r.requiredProviders)))
    IN IF r.requiredProviders = 1 THEN {}
       ELSE {t \in big : \A u \in big : loadOf(t) <= loadOf(u)}

ensureTeamEligible(t, r, except) ==
    t \in activeTeams /\ Len(EligibleMembers(t, r, except)) >= r.requiredProviders

ensureProvidersEligible(providers, r, except) ==
    ToSet(providers) \subseteq getEligibleProviders(r, except)

-----------------------------------------------------------------------------
(***************************************************************************)
(* Plans: the set of those buildAssignmentPlan may return, empty if it     *)
(* throws.                                                                 *)
(***************************************************************************)

Plan(providers, team) == [providers |-> providers, team |-> team]

TeamPlan(t, r, except) ==
    IF ensureTeamEligible(t, r, except)
      THEN {Plan(FirstOf(EligibleMembers(t, r, except), r.requiredProviders), t)}
      ELSE {}

RequestedPlan(r, except) ==
    IF /\ ensureProvidersEligible(r.providerIds, r, except)
       /\ Len(r.providerIds) >= r.requiredProviders
      THEN {Plan(FirstOf(r.providerIds, r.requiredProviders), None)}
      ELSE {}

\* matchProviders: as many as are wanted, or as there are.
Matched(r, except) ==
    LET eligible == getEligibleProviders(r, except)
        n == IF Cardinality(eligible) < r.requiredProviders
               THEN Cardinality(eligible) ELSE r.requiredProviders
    IN {Plan(s, None) : s \in {t \in [1..n -> eligible] : IsInjective(t)}}

buildAssignmentPlan(r, except) ==
    CASE r.team # None -> TeamPlan(r.team, r, except)
      [] r.team = None /\ r.mode = "manual" ->
           IF r.providerIds = << >> THEN {Plan(<< >>, None)} ELSE RequestedPlan(r, except)
      [] r.team = None /\ r.mode = "smart_match" /\ matchTeam(r, except) # {} ->
           UNION {TeamPlan(t, r, except) : t \in matchTeam(r, except)}
      [] OTHER ->
           IF r.providerIds # << >> THEN RequestedPlan(r, except) ELSE Matched(r, except)

\* A short-notice booking is planned by nobody: it waits for its payment, or, created by
\* an operator, for providers.
InitialPlans(r) ==
    IF r.shortNotice THEN {Plan(<< >>, None)} ELSE buildAssignmentPlan(r, None)

resolveInitialStatus(mode, providers) ==
    CASE providers # << >> -> "pending_client"
      [] mode = "smart_match" -> "pending_provider"
      [] OTHER -> "draft"
InitialStatuses(r, providers) ==
    {resolveInitialStatus(r.mode, providers)} \cup (IF r.shortNotice THEN {"draft"} ELSE {})

\* Slip: the older place of the row is kept.
UpdatedKeepsPlace(b) ==
    /\ queue' = Append(queue, b)
    /\ fresh' = fresh \cup {b}

\* Slip: the order is that of creation.
UpdatedInPlace(b) ==
    /\ queue' = IF b \in ToSet(queue) THEN queue ELSE Append(queue, b)
    /\ fresh' = fresh \cup {b}

\* The row is written: it becomes the freshest.
Updated(b) ==
    /\ queue' = Append(SelectSeq(queue, LAMBDA x : x # b), b)
    /\ fresh' = fresh \cup {b}

-----------------------------------------------------------------------------
(***************************************************************************)
(* Creation: the plan is made, and stored in a transaction later.          *)
(***************************************************************************)

CreatePlan(w, b, r) ==
    /\ req[w] = Idle /\ booking[b].status = "none"
    /\ \A v \in Workers : req[v].booking # b
    /\ \E plan \in InitialPlans(r) :
         req' = [req EXCEPT ![w] = [request |-> r, booking |-> b,
                                    providers |-> plan.providers, team |-> plan.team]]
    /\ UNCHANGED <<booking, calendar, jobs, byHand>>

CreateStore(w) ==
    LET b == req[w].booking  r == req[w].request IN
    /\ r # None
    /\ \E status \in InitialStatuses(r, req[w].providers) :
         booking' = [booking EXCEPT ![b] =
                       [NoBooking EXCEPT !.request = r, !.providers = req[w].providers,
                          !.team = req[w].team, !.status = status]]
    /\ Updated(b) /\ UNCHANGED todo
    /\ req' = [req EXCEPT ![w] = Idle]
    /\ UNCHANGED <<calendar, byHand>>

(***************************************************************************)
(* retryPendingProviderAssignments: every five minutes, the bookings that  *)
(* were not updated since the last run, oldest first.                      *)
(***************************************************************************)

Waits(b) == booking[b].status = "pending_provider" /\ booking[b].request.mode = "smart_match"

Snapshot(b) == [id |-> b, request |-> booking[b].request, providers |-> booking[b].providers,
                failed |-> FALSE]

Candidates ==
    LET due == SelectSeq(queue, LAMBDA b : Waits(b) /\ b \notin fresh)
    IN FirstOf(due, IF Len(due) < Take THEN Len(due) ELSE Take)

retryPendingProviderAssignments ==
    /\ todo = << >>
    /\ todo' = [i \in DOMAIN Candidates |-> Snapshot(Candidates[i])]
    /\ fresh' = {}
    /\ UNCHANGED <<booking, calendar, queue, req, byHand>>

Present == Head(todo)
\* buildRetryPayloadFromBooking: the providers that a client chose are not stored.
RetryPayload(r) == [r EXCEPT !.providerIds = << >>]
Plans == buildAssignmentPlan(RetryPayload(Present.request), Present.id)

\* A booking that has providers already is skipped, and a plan that throws is
\* logged: both leave the booking where it is in the order.
RetryLeaves ==
    /\ todo # << >> /\ ~Present.failed /\ (Present.providers # << >> \/ Plans = {})
    /\ todo' = Tail(todo)
    /\ UNCHANGED <<booking, calendar, queue, fresh, req, byHand>>

RetryFindsNobody ==
    /\ todo # << >> /\ ~Present.failed /\ Present.providers = << >>
    /\ \E plan \in Plans : plan.providers = << >>
    /\ todo' = [todo EXCEPT ![1].failed = TRUE]
    /\ UNCHANGED <<booking, calendar, queue, fresh, req, byHand>>

\* handleRetryFailure: the retry is counted, and a team that could do it after all, as its
\* members came free since, remembered for operators.
RetryFails ==
    /\ todo # << >> /\ Present.failed
    /\ LET teams == matchTeam(Present.request, Present.id) IN
         \E t \in IF teams = {} THEN {None} ELSE teams :
            booking' = [booking EXCEPT
                          ![Present.id].retries = IF @ < MaxRetries THEN @ + 1 ELSE @,
                          ![Present.id].candidate = IF @ = None THEN t ELSE @]
    /\ Updated(Present.id) /\ todo' = Tail(todo)
    /\ UNCHANGED <<calendar, req, byHand>>

\* New providers for the client to confirm; retries and the team found meanwhile are forgotten.
Reassign(b, providers, team) ==
    booking' = [booking EXCEPT ![b].status = "pending_client", ![b].providers = providers,
                  ![b].team = team, ![b].retries = 0, ![b].candidate = None]

\* Somebody is found, fewer than are wanted included: they replace whoever was
\* assigned since, and the booking waits for its client, cancelled or not.
RetryAssigns ==
    /\ todo # << >> /\ ~Present.failed /\ Present.providers = << >>
    /\ \E plan \in Plans :
         /\ plan.providers # << >>
         /\ Reassign(Present.id, plan.providers, plan.team)
    /\ byHand' = IF booking[Present.id].request = Present.request THEN byHand \ {Present.id}
                 ELSE byHand \cup {Present.id}
    /\ Updated(Present.id) /\ todo' = Tail(todo)
    /\ UNCHANGED <<calendar, req>>

Job ==
    \/ retryPendingProviderAssignments
    \/ RetryLeaves \/ RetryFindsNobody \/ RetryFails \/ RetryAssigns

(***************************************************************************)
(* What is changed without a look at the calendar.                         *)
(***************************************************************************)
Exists(b) == booking[b].status # "none"
ByHand(b) == byHand' = byHand \cup {b}

\* A booking that held nobody holds its providers again.
Revives(b, status) == booking[b].status \notin BLOCKING_STATUSES /\ status \in BLOCKING_STATUSES

assignFallbackTeam(b) ==
    LET t == booking[b].candidate IN
    /\ t # None
    /\ Reassign(b, FirstOf(Members[t], booking[b].request.requiredProviders), t)
    /\ ByHand(b) /\ Updated(b) /\ UNCHANGED <<calendar, todo, req>>

\* promoteLocksForBooking: whoever the confirmed locks are for, or the members of their team.
promoteLocksForBooking(b, providers, team) ==
    /\ booking[b].status = "pending_provider" /\ booking[b].providers = << >>
    /\ Len(providers) = booking[b].request.requiredProviders /\ IsInjective(providers)
    /\ team # None => providers = FirstOf(Members[team], Len(providers))
    /\ Reassign(b, providers, team)
    /\ ByHand(b) /\ Updated(b) /\ UNCHANGED <<calendar, todo, req>>

\* The columns an update does not write.
SameBooking(r, q) ==
    /\ r.requiredProviders = q.requiredProviders /\ r.team = q.team
    /\ r.shortNotice = q.shortNotice /\ r.providerIds = q.providerIds

\* A request that gives providers has them checked against the time it gives; otherwise the
\* booking moves, or changes to any status whatever, with those it has.
update(b, r, status, given, providers) ==
    /\ Exists(b) /\ SameBooking(r, booking[b].request)
    /\ given => ensureProvidersEligible(providers, r, b)
    /\ booking' = [booking EXCEPT ![b].request = r, ![b].status = status,
                     ![b].providers = IF given THEN providers ELSE @]
    /\ byHand' = IF given THEN byHand \ {b}
                 ELSE IF r # booking[b].request \/ Revives(b, status) THEN byHand \cup {b}
                 ELSE byHand
    /\ Updated(b) /\ UNCHANGED <<calendar, todo, req>>

\* updateMission: a provider who has the booking sets one of the statuses open to providers.
\* Two of them need payouts set up (module Payouts), which every provider here has.
updateMission(b, p, status) ==
    /\ Exists(b) /\ p \in ToSet(booking[b].providers) /\ status \in PROVIDER_ALLOWED_STATUSES
    /\ booking' = [booking EXCEPT ![b].status = status]
    /\ byHand' = IF Revives(b, status) THEN byHand \cup {b} ELSE byHand
    /\ Updated(b) /\ UNCHANGED <<calendar, todo, req>>

cancel(b) ==
    /\ booking[b].status \notin {"none", "cancelled"}
    /\ booking' = [booking EXCEPT ![b].status = "cancelled"]
    /\ Updated(b) /\ UNCHANGED <<calendar, todo, req, byHand>>

(***************************************************************************)
(* Short notice: once paid for, those who could do the job are invited,    *)
(* and whoever accepts first gets it, whatever happened to his calendar.   *)
(***************************************************************************)
dispatchShortNoticeBookingAfterPayment(b) ==
    LET eligible == getEligibleProviders(booking[b].request, None)
        limit == Max({12, 6 * booking[b].request.requiredProviders})
    IN  /\ Exists(b) /\ booking[b].request.shortNotice /\ ~booking[b].broadcast
        /\ \E asked \in SUBSET eligible :
             /\ Cardinality(asked) = Min({limit, Cardinality(eligible)})
             /\ booking' = [booking EXCEPT ![b].invited = asked, ![b].broadcast = asked # {},
                              ![b].status = IF @ = "draft" THEN "pending_provider" ELSE @]
        /\ Updated(b) /\ UNCHANGED <<calendar, todo, req, byHand>>

acceptShortNoticeInvitation(b, p) ==
    /\ booking[b].status \in {"pending_provider", "pending_client"}
    /\ p \in booking[b].invited \ ToSet(booking[b].providers)
    /\ Len(booking[b].providers) < booking[b].request.requiredProviders
    /\ booking' = [booking EXCEPT ![b].providers = Append(@, p), ![b].invited = {},
                     ![b].status = "pending_client"]
    /\ ByHand(b) /\ Updated(b) /\ UNCHANGED <<calendar, todo, req>>

\* The calendar: accounts, teams, and time off.
SetActive(p) ==
    /\ active' = IF p \in active THEN active \ {p} ELSE active \cup {p}
    /\ UNCHANGED <<booking, activeTeams, timeOff, jobs, req, byHand>>

SetTeamActive(t) ==
    /\ activeTeams' = IF t \in activeTeams THEN activeTeams \ {t} ELSE activeTeams \cup {t}
    /\ UNCHANGED <<booking, active, timeOff, jobs, req, byHand>>

createTimeOff(p, off) ==
    /\ timeOff' = [timeOff EXCEPT ![p] = @ \cup {off}]
    /\ UNCHANGED <<booking, active, activeTeams, jobs, req, byHand>>

deleteTimeOff(p, off) ==
    /\ timeOff' = [timeOff EXCEPT ![p] = @ \ {off}]
    /\ UNCHANGED <<booking, active, activeTeams, jobs, req, byHand>>

Next ==
    \/ \E w \in Workers :
         \/ \E b \in Bookings, r \in Requests : CreatePlan(w, b, r)
         \/ CreateStore(w)
    \/ Job
    \/ \E b \in Bookings :
         \/ assignFallbackTeam(b) \/ cancel(b) \/ dispatchShortNoticeBookingAfterPayment(b)
         \/ \E n \in 1..2 : \E s \in [1..n -> Providers], t \in Teams \cup {None} :
               promoteLocksForBooking(b, s, t)
         \/ \E r \in Requests, status \in Chosen \cup {booking[b].status} :
               \/ update(b, r, status, FALSE, << >>)
               \/ \E n \in 0..1 : \E s \in [1..n -> Providers] : update(b, r, status, TRUE, s)
         \/ \E p \in Providers :
               \/ acceptShortNoticeInvitation(b, p)
               \/ \E status \in Chosen : updateMission(b, p, status)
    \/ \E t \in Teams : SetTeamActive(t)
    \/ \E p \in Providers :
         \/ SetActive(p)
         \/ \E off \in TimesOff : createTimeOff(p, off) \/ deleteTimeOff(p, off)

Spec == Init /\ [][Next]_vars
FairSpec == Spec /\ WF_vars(Job)

-----------------------------------------------------------------------------
TypeOK ==
    /\ \A b \in Bookings :
         LET x == booking[b] IN
         /\ x.status \in BookingStatus \cup {"none"} /\ x.invited \subseteq Providers
         /\ x.request \in Requests \cup {None} /\ (x.request = None <=> x.status = "none")
         /\ x.providers \in Seq(Providers) /\ IsInjective(x.providers)
         /\ x.team \in Teams \cup {None} /\ x.candidate \in Teams \cup {None}
         /\ x.retries \in 0..MaxRetries
    /\ ToSet(queue) = {b \in Bookings : booking[b].status # "none"} /\ IsInjective(queue)
    /\ fresh \subseteq ToSet(queue)
    /\ \A x \in ToSet(todo) : x.id \in ToSet(queue) /\ x.request \in Requests

\* One request at a time, two bookings that overlap share a provider only if one of them was
\* last moved, brought back from a status that holds nobody, assigned its fallback team or
\* the providers of its locks, or accepted at short notice, which is done without a check;
\* or moved while a retry was about to plan it for the time it had.
DoubleBookedByHand ==
    \A b, c \in Bookings :
        (\E p \in Providers : Holds(p, b) /\ Holds(p, c))
        /\ b # c /\ Overlap(booking[b].request, booking[c].request)
        => {b, c} \cap byHand # {}

\* Whoever matching gives a booking to works then, in whatever order their slots
\* are: a slot of that weekday spans the job up to an hour on either side, unless
\* the job ends on another day, where only the times of day are compared.
AssignsWork ==
    \A b \in Bookings :
          LET r == booking'[b].request IN
          (/\ booking'[b].providers # booking[b].providers /\ b \notin byHand'
           /\ r.startAt \div Day = r.endAt \div Day) =>
             \A p \in ToSet(booking'[b].providers) :
                \E slot \in ToSet(Profiles[p].slots) :
                   /\ (r.startAt \div Day) % 7 = slot.weekday
                   /\ slot.start - BUFFER <= r.startAt % Day
                   /\ (r.startAt % Day) + (r.endAt - r.startAt) <= slot.end + BUFFER

\* A booking with a team of its own is planned with the team's first eligible
\* members or not at all, and no plan has more providers than are wanted.
PlansAreSound ==
    \A b \in Bookings : booking[b].status # "none" =>
        \A plan \in buildAssignmentPlan(booking[b].request, b) :
            /\ Len(plan.providers) <= booking[b].request.requiredProviders
            /\ plan.team # None =>
                 /\ Len(plan.providers) = booking[b].request.requiredProviders
                 /\ ToSet(plan.providers) \subseteq ToSet(Members[plan.team])
            /\ ToSet(plan.providers) \subseteq active

\* A waiting booking is retried sooner or later, unless so many bookings are left
\* where they are that one run takes no other.
Leaves(b) == Waits(b) /\ (booking[b].providers # << >>
                            \/ buildAssignmentPlan(RetryPayload(booking[b].request), b) = {})
EventuallyRetried ==
    \A b \in Bookings, n \in 0..MaxRetries - 1 :
        (Waits(b) /\ booking[b].retries = n)
            ~> (\/ ~Waits(b) \/ booking[b].retries # n \/ Leaves(b)
                \/ Cardinality({c \in Bookings : Leaves(c)}) >= Take)

=============================================================================
