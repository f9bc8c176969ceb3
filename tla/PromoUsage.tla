----------------------------- MODULE PromoUsage -----------------------------
(***************************************************************************)
(* Promo codes on bookings: PromoCodeService with the two callers that     *)
(* redeem and clear a code, createBookingRecord and update of              *)
(* bookings.service.ts, and claimGuestBooking, which changes the client a  *)
(* redemption is charged to.                                               *)
(*                                                                         *)
(* promoCode.usageCount is a counter kept beside the PromoCodeUsage rows.  *)
(* create evaluates the code before its transaction; update evaluates it   *)
(* inside, but before the booking.update that locks the Booking row.  The  *)
(* row lock is a phase of the request (update_locked, update_found); the   *)
(* promoCode row locks are not kept, because increments commute.           *)
(***************************************************************************)
EXTENDS Integers, FiniteSets

CONSTANTS
    Bookings, Promos, Clients,
    Guest,        \* the client of a booking nobody has claimed
    Absent,       \* the booking does not exist yet
    NoPromo, NoBooking,
    Unlimited,    \* maxTotalUsages, maxUsagesPerUser is null
    MaxTotal,     \* promo |-> maxTotalUsages
    MaxPerUser,   \* promo |-> maxUsagesPerUser
    Handlers,      \* requests served at the same time
    MaxCrashes    \* bound: requests that die half way

ASSUME PromoAssumption ==
    /\ IsFiniteSet(Bookings) /\ IsFiniteSet(Promos) /\ IsFiniteSet(Clients)
    /\ IsFiniteSet(Handlers) /\ Handlers # {}
    /\ Guest \notin Clients /\ Absent \notin Clients /\ Guest # Absent
    /\ NoPromo \notin Promos /\ NoBooking \notin Bookings
    /\ Unlimited \notin Int
    /\ MaxTotal \in [Promos -> Nat \cup {Unlimited}]
    /\ MaxPerUser \in [Promos -> Nat \cup {Unlimited}]
    /\ MaxCrashes \in Nat

VARIABLES
    owner,       \* booking |-> its clientId
    promoOf,     \* booking |-> booking.promoCodeId
    usages,      \* the committed PromoCodeUsage rows
    usageCount,  \* promo |-> promoCode.usageCount
    active,      \* promo |-> promoCode.isActive
    req,
    crashes

vars == <<owner, promoOf, usages, usageCount, active, req, crashes>>
tables == <<owner, promoOf, usages, usageCount, active>>

Buyers == Clients \cup {Guest}
Usage == [promo : Promos, booking : Bookings, client : Buyers]

\* A request: its phase, the booking and the code (NoPromo clears it), the
\* client it acts for, and the usage rows clearBookingPromo has read.
Phases == {"idle", "create_evaluated", "update_evaluated", "update_locked",
           "update_found", "claim_read"}
Idle == [pc |-> "idle", booking |-> NoBooking, promo |-> NoPromo,
         client |-> Guest, found |-> {}]
Request ==
    {r \in [pc : Phases, booking : Bookings \cup {NoBooking},
            promo : Promos \cup {NoPromo}, client : Buyers,
            found : SUBSET Usage] :
        /\ r.pc # "idle" => r.booking \in Bookings
        /\ r.pc = "create_evaluated" => r.promo \in Promos}

Init ==
    /\ owner = [b \in Bookings |-> Absent]
    /\ promoOf = [b \in Bookings |-> NoPromo]
    /\ usages = {}
    /\ usageCount = [p \in Promos |-> 0]
    /\ active = [p \in Promos |-> TRUE]
    /\ req = [w \in Handlers |-> Idle]
    /\ crashes = 0

UsagesOf(b) == {u \in usages : u.booking = b}
Redeemed(p) == {u \in usages : u.promo = p}

Become(w, r) == req' = [req EXCEPT ![w] = r]
Finish(w) == Become(w, Idle)

(***************************************************************************)
(* evaluateForBooking: active, total limit, per-user limit.  A refusal for *)
(* dates, service, postal code or a zero discount only ends the request.   *)
(***************************************************************************)

\* Slip: the limit is compared with >.
BelowTotalOffByOne(p) ==
    MaxTotal[p] # Unlimited => usageCount[p] <= MaxTotal[p]

BelowTotal(p) == MaxTotal[p] # Unlimited => usageCount[p] < MaxTotal[p]

\* Slip: the rows of the other bookings are excluded instead of this one's.
BelowPerUserInverted(p, client, except) ==
    MaxPerUser[p] \notin {Unlimited, 0} /\ client # Guest =>
        Cardinality({u \in Redeemed(p) : u.client = client
                                         /\ u.booking = except}) < MaxPerUser[p]

\* A limit of null or 0 is no limit (it is falsy), and neither is a guest.
BelowPerUser(p, client, except) ==
    MaxPerUser[p] \notin {Unlimited, 0} /\ client # Guest =>
        Cardinality({u \in Redeemed(p) : u.client = client
                                         /\ u.booking # except}) < MaxPerUser[p]

evaluateForBooking(p, client, except) ==
    active[p] /\ BelowTotal(p) /\ BelowPerUser(p, client, except)

(***************************************************************************)
(* createBookingRecord: evaluate, then one transaction that creates the    *)
(* booking, its usage row and the increment (skipClear).                   *)
(***************************************************************************)
Fresh(b) == owner[b] = Absent /\ \A w \in Handlers : req[w].booking # b

CreatePlain(b, client) ==
    /\ Fresh(b)
    /\ owner' = [owner EXCEPT ![b] = client]
    /\ UNCHANGED <<promoOf, usages, usageCount, active, req, crashes>>

CreateEvaluate(w, b, client, p) ==
    /\ req[w].pc = "idle" /\ Fresh(b)
    /\ evaluateForBooking(p, client, NoBooking)
    /\ Become(w, [Idle EXCEPT !.pc = "create_evaluated", !.booking = b,
                              !.promo = p, !.client = client])
    /\ UNCHANGED <<tables, crashes>>

CreateCommit(w) ==
    LET r == req[w] IN
    /\ r.pc = "create_evaluated"
    /\ owner' = [owner EXCEPT ![r.booking] = r.client]
    /\ usages' = usages \cup {[promo |-> r.promo, booking |-> r.booking,
                               client |-> r.client]}
    /\ promoOf' = [promoOf EXCEPT ![r.booking] = r.promo]
    /\ usageCount' = [usageCount EXCEPT ![r.promo] = @ + 1]
    /\ Finish(w)
    /\ UNCHANGED <<active, crashes>>

(***************************************************************************)
(* update with couponCode: evaluate inside the transaction, booking.update *)
(* (the row lock), clearBookingPromo (findMany, deleteMany, decrements),   *)
(* then usage row, promoCode of the booking, increment.                    *)
(***************************************************************************)
\* Slip: a booking that is not found is not refused.
UpdateEvaluateUnfound(w, b, p) ==
    /\ req[w].pc = "idle"
    /\ p # NoPromo => evaluateForBooking(p, owner[b], b)
    /\ Become(w, [Idle EXCEPT !.pc = "update_evaluated", !.booking = b,
                              !.promo = p])
    /\ UNCHANGED <<tables, crashes>>

UpdateEvaluate(w, b, p) ==
    /\ req[w].pc = "idle" /\ owner[b] # Absent
    /\ p # NoPromo => evaluateForBooking(p, owner[b], b)
    /\ Become(w, [Idle EXCEPT !.pc = "update_evaluated", !.booking = b,
                              !.promo = p])
    /\ UNCHANGED <<tables, crashes>>

Holding(w) == req[w].pc \in {"update_locked", "update_found"}

RowFree(w) ==
    \A v \in Handlers \ {w} : ~(Holding(v) /\ req[v].booking = req[w].booking)

\* Slip: the coupon is handled before the booking.update that locks the row.
UpdateLockTooLate(w) ==
    /\ req[w].pc = "update_evaluated"
    /\ Become(w, [req[w] EXCEPT !.pc = "update_locked",
                                !.client = owner[req[w].booking]])
    /\ UNCHANGED <<tables, crashes>>

UpdateLock(w) ==
    /\ req[w].pc = "update_evaluated"
    /\ RowFree(w)
    /\ Become(w, [req[w] EXCEPT !.pc = "update_locked",
                                !.client = owner[req[w].booking]])
    /\ UNCHANGED <<tables, crashes>>

ClearFind(w) ==
    /\ req[w].pc = "update_locked"
    /\ Become(w, [req[w] EXCEPT !.pc = "update_found",
                                !.found = UsagesOf(req[w].booking)])
    /\ UNCHANGED <<tables, crashes>>

\* The counter after one decrement per row found and the increment for p.
Recounted(found, p) ==
    [q \in Promos |-> usageCount[q] - Cardinality({u \in found : u.promo = q})
                      + (IF q = p THEN 1 ELSE 0)]

\* Slip: the code is replaced without giving the old one back.
UpdateCommitKeepsOld(w) ==
    LET r == req[w] IN
    /\ r.pc = "update_found"
    /\ usages' = usages \cup {[promo |-> q, booking |-> r.booking,
                               client |-> r.client] : q \in {r.promo} \ {NoPromo}}
    /\ usageCount' = Recounted({}, r.promo)
    /\ promoOf' = [promoOf EXCEPT ![r.booking] = r.promo]
    /\ Finish(w)
    /\ UNCHANGED <<owner, active, crashes>>

UpdateCommit(w) ==
    LET r == req[w] IN
    /\ r.pc = "update_found"
    /\ usages' = (IF r.found = {} THEN usages ELSE usages \ UsagesOf(r.booking))
                 \cup {[promo |-> q, booking |-> r.booking,
                        client |-> r.client] : q \in {r.promo} \ {NoPromo}}
    /\ usageCount' = Recounted(r.found, r.promo)
    /\ promoOf' = [promoOf EXCEPT ![r.booking] = r.promo]
    /\ Finish(w)
    /\ UNCHANGED <<owner, active, crashes>>

(***************************************************************************)
(* claimGuestBooking: the guest token is checked on what was read.         *)
(***************************************************************************)
ClaimRead(w, b, client) ==
    /\ req[w].pc = "idle" /\ owner[b] = Guest
    /\ Become(w, [Idle EXCEPT !.pc = "claim_read", !.booking = b,
                              !.client = client])
    /\ UNCHANGED <<tables, crashes>>

ClaimWrite(w) ==
    /\ req[w].pc = "claim_read"
    /\ RowFree(w)
    /\ owner' = [owner EXCEPT ![req[w].booking] = req[w].client]
    /\ Finish(w)
    /\ UNCHANGED <<promoOf, usages, usageCount, active, crashes>>

\* Marketing switches a code on or off.
ToggleActive(p) ==
    /\ active' = [active EXCEPT ![p] = ~@]
    /\ UNCHANGED <<owner, promoOf, usages, usageCount, req, crashes>>

\* The request dies (error, deadlock on promoCode rows, restart): rollback.
Crash(w) ==
    /\ req[w].pc # "idle" /\ crashes < MaxCrashes
    /\ crashes' = crashes + 1
    /\ Finish(w)
    /\ UNCHANGED tables

Continue(w) ==
    \/ CreateCommit(w) \/ UpdateLock(w) \/ ClearFind(w) \/ UpdateCommit(w)
    \/ ClaimWrite(w)

Next ==
    \/ \E b \in Bookings, c \in Buyers : CreatePlain(b, c)
    \/ \E w \in Handlers, b \in Bookings, c \in Buyers, p \in Promos :
          CreateEvaluate(w, b, c, p)
    \/ \E w \in Handlers, b \in Bookings, p \in Promos \cup {NoPromo} :
          UpdateEvaluate(w, b, p)
    \/ \E w \in Handlers, b \in Bookings, c \in Clients : ClaimRead(w, b, c)
    \/ \E w \in Handlers : Continue(w) \/ Crash(w)
    \/ \E p \in Promos : ToggleActive(p)

Spec == Init /\ [][Next]_vars

\* One request at a time, of however many handlers.
Alone ==
    \A v, w \in Handlers : req[v].pc # "idle" /\ req[w].pc # "idle" => v = w

AloneSpec == Init /\ [][Next /\ Alone']_vars

-----------------------------------------------------------------------------

\* Every table and every request holds a value of its type; the counter is an
\* integer that Prisma increments and decrements, so nothing keeps it natural.
TypeOK ==
    /\ owner \in [Bookings -> Buyers \cup {Absent}]
    /\ promoOf \in [Bookings -> Promos \cup {NoPromo}]
    /\ usages \subseteq Usage
    /\ usageCount \in [Promos -> Int]
    /\ active \in [Promos -> BOOLEAN]
    /\ req \in [Handlers -> Request]
    /\ crashes \in 0..MaxCrashes

\* The counter a limit is compared with is the number of redemptions, under
\* concurrent creations, updates and clears of the same bookings and codes.
UsageCountExact ==
    \A p \in Promos : usageCount[p] = Cardinality(Redeemed(p))

\* A booking shows the one code it redeemed, and shows none when it has none.
BookingShowsItsUsage ==
    \A b \in Bookings :
        {u.promo : u \in UsagesOf(b)} = {promoOf[b]} \ {NoPromo}

\* The limit is read before the redemption is written, so concurrent requests
\* overshoot it, and by at most one redemption per other request in flight.
InFlight(p) ==
    {w \in Handlers : req[w].pc # "idle" /\ req[w].promo = p}
OvershootBounded ==
    \A p \in Promos : MaxTotal[p] \in Nat =>
        usageCount[p] <= MaxTotal[p] + Cardinality(Handlers) - 1

\* One request at a time, neither limit is exceeded: the total number of
\* redemptions of a code, and those charged to one client.
LimitsRespected ==
    \A p \in Promos :
        /\ MaxTotal[p] # Unlimited => Cardinality(Redeemed(p)) <= MaxTotal[p]
        /\ MaxPerUser[p] \notin {Unlimited, 0} => \A c \in Clients :
              Cardinality({u \in Redeemed(p) : u.client = c}) <= MaxPerUser[p]

=============================================================================
