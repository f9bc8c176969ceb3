------------------------------ MODULE MCRequests ------------------------------
(***************************************************************************)
(* Promo codes on small instances: one code that may be redeemed once and  *)
(* one that each client may redeem once.  Beside them, a part at work in a *)
(* behaviour: acceptances of a seat that races with every other writer;    *)
(* and, one request at a time, the limits of codes, the locks of a team    *)
(* and whose a booking is.                                                 *)
(***************************************************************************)
EXTENDS PromoUsage, TLC

CONSTANTS Parts, total, single, x1, x2, worker, p1, p2, morning, day, half, long, None,
          ann, cleo, pete, emma, acme, emptyCo,
          Users, Roles, Profiles, Companies, Associated, Visits     \* BookingAccess

VARIABLES
    part,
    status, profile, past, assigned, invitation, retry, serving, ended,     \* BookingLifecycle
    available, pending, slot, capacityBooked, lock, expired, locking, lost, \* TeamLocks
    booking, claim, told                                                    \* BookingAccess

TotalLimits == [p \in Promos |-> IF p = total THEN 1 ELSE Unlimited]
UserLimits == [p \in Promos |-> IF p = single THEN 1 ELSE Unlimited]

\* Slots, locks or tokens: two of a kind.
Pair == {x1, x2}

\* One seat, two providers, two workers, each of whom is a handler or a copy of the promotion
\* job: acceptances beside the two transactions that recreate assignments.
Racing == INSTANCE BookingLifecycleProofs WITH
    Providers <- {p1, p2}, PayoutReady <- {p1, p2}, Required <- 1, Teams <- {}, TeamMembers <- <<>>,
    Handlers <- Handlers, RetryJobs <- {}, PromoteJobs <- Handlers,
    Kinds <- {"short_notice", "dispatch", "accept", "client_cancel", "update"},
    OpsStatuses <- {"PENDING_PROVIDER"}, NoProvider <- None, NoTeam <- None, MaxCrashes <- 0,
    RetryCap <- 3, req <- serving, crashes <- ended

\* One seat and no writer but offers, acceptances and cancellations.
LastSeat == INSTANCE BookingLifecycleProofs WITH
    Providers <- {p1, p2}, PayoutReady <- {p1, p2}, Required <- 1, Teams <- {}, TeamMembers <- <<>>,
    Handlers <- Handlers, RetryJobs <- {}, PromoteJobs <- {},
    Kinds <- {"short_notice", "dispatch", "accept", "decline", "client_cancel", "mission"},
    OpsStatuses <- {"CONFIRMED"}, NoProvider <- None, NoTeam <- None, MaxCrashes <- 0,
    RetryCap <- 3, req <- serving, crashes <- ended

TwoWindows == {morning, day}
Locks == INSTANCE TeamLocksProofs WITH
    Bookings <- {half, long}, Windows <- TwoWindows,
    WindowOf <- [b \in {half, long} |-> IF b = half THEN morning ELSE day], Overlaps <- TwoWindows \X TwoWindows,
    SlotIds <- Pair, LockIds <- {1, 2}, LockProviders <- {p1, p2}, MaxMembers <- 2, Batch <- 2,
    Handlers <- {worker}, Jobs <- {}, NoWindow <- None, NoSlot <- None, Ageing <- {}, Moving <- {},
    MaxCrashes <- 1, req <- locking, crashes <- lost

\* Two workers at a time, each of whom is a handler or a copy of the expiry job.
Leaks == INSTANCE TeamLocksProofs WITH
    Bookings <- {half}, Windows <- {morning}, WindowOf <- [b \in {half} |-> morning],
    Overlaps <- {morning} \X {morning}, SlotIds <- {day}, LockIds <- Pair, LockProviders <- {p1},
    MaxMembers <- 2, Batch <- 2, Handlers <- Handlers, Jobs <- Handlers, NoWindow <- None,
    NoSlot <- None, Ageing <- Pair, Moving <- {half}, MaxCrashes <- 1, req <- locking, crashes <- lost

\* A client, a company's member who is also a provider, a provider, an employee.
RolesOf == (ann :> {"client"}) @@ (cleo :> {"company", "provider"})
             @@ (pete :> {"provider"}) @@ (emma :> {"employee"})
MembersOf == (acme :> {cleo, ann}) @@ (emptyCo :> {})
Access == INSTANCE BookingAccess WITH
    Bookings <- Visits, Tokens <- Pair, Workers <- {worker}, req <- claim

ASSUME RequestsAssumption ==
    Access!AccessAssumption /\ None \notin {p1, p2} \cup Pair \cup TwoWindows

lifecycle == <<status, profile, past, assigned, invitation, retry, serving, ended>>
locks == <<available, pending, slot, capacityBooked, lock, expired, locking, lost>>
access == <<booking, claim, told>>
all == <<part, vars, lifecycle, locks, access>>

InitAll ==
    /\ part \in Parts
    /\ Init /\ Racing!Init /\ Access!Init
    /\ IF part = "leaking" THEN Leaks!Init ELSE Locks!Init

NextAll ==
    \/ part = "promos" /\ Next /\ UNCHANGED <<part, lifecycle, locks, access>>
    \/ part = "promos_alone" /\ Next /\ Alone' /\ UNCHANGED <<part, lifecycle, locks, access>>
    \/ part = "racing" /\ Racing!Next /\ UNCHANGED <<part, vars, locks, access>>
    \/ part = "last_seat" /\ LastSeat!Next /\ UNCHANGED <<part, vars, locks, access>>
    \/ part = "locks" /\ Locks!Next /\ UNCHANGED <<part, vars, lifecycle, access>>
    \/ part = "leaking" /\ Leaks!Next /\ UNCHANGED <<part, vars, lifecycle, access>>
    \/ part = "access" /\ Access!Next /\ UNCHANGED <<part, vars, lifecycle, locks>>

SpecAll == InitAll /\ [][NextAll]_all
Symmetry == Permutations(Bookings) \cup Permutations(Handlers) \cup Permutations(Pair)

-----------------------------------------------------------------------------
\* PromoUsage: one request at a time, no limit is exceeded.
LimitsRespectedAlone == part = "promos_alone" => LimitsRespected
\* BookingLifecycle: what an acceptance checked under the row lock holds until it commits, and
\* it takes a free seat of an open booking, whatever recreates assignments beside it; where
\* nothing recreates them, the last seat is given once.
\* TeamLocks: one request at a time, what a slot has booked is held by locks, a provider is
\* locked once at a time, and a lock is taken only if the team can hold it.
SeatsAndLocksHold ==
    /\ [](/\ part = "racing" => Racing!SeatStaysOpen
          /\ part = "last_seat" => LastSeat!SeatsNeverOversold
          /\ part = "locks" => Locks!TypeOK /\ Locks!BookedIsHeld /\ Locks!ProviderLockedOnce)
    /\ [][/\ part = "racing" => \A p \in {p1, p2} : Racing!TakesAFreeSeat(p)
          /\ part = "locks" => Locks!TakesWhatFits]_all
\* TeamLocks: whatever races, neither a slot nor the plan counts more than active locks hold.
NoCapacityLeak == part = "leaking" => Leaks!NoCapacityLeak
\* BookingAccess: what is listed can be opened, and the other way round; one claim at a
\* time, who was told of a claim keeps the booking.
AccessSound == part = "access" => Access!TypeOK /\ Access!ListedAsReadable /\ Access!ClaimedForGood

=============================================================================
