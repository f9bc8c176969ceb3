------------------------------ MODULE TeamLocks ------------------------------
(***************************************************************************)
(* The capacity locks of bookings: BookingLocksService with ensureSlot of  *)
(* TeamPlanningService and releaseExpiredLocksJob, for one team and one    *)
(* day, that is one TeamPlan row.                                          *)
(*                                                                         *)
(* Every operation finds rows in one statement and writes them in a later  *)
(* transaction that does not look again, except lockTeam, which re-reads   *)
(* the slot but, at READ COMMITTED, without a lock.  A transaction that    *)
(* only increments and decrements commutes with the others and is one      *)
(* step.  Sums of lockedCount are cardinalities of sets of units, elements *)
(* of LockIds \X (1..MaxMembers).                                          *)
(***************************************************************************)
EXTENDS Integers, FiniteSets, Functions

CONSTANTS
    Bookings,
    Windows, WindowOf,  \* booking |-> its [startAt, endAt)
    Overlaps,           \* the pairs of windows that overlap
    SlotIds, LockIds,   \* bounds: TeamPlanSlot and BookingTeamLock rows
    LockProviders,      \* providers that are locked one by one
    MaxMembers,         \* members of the team, up to the cap of the day
    Batch,              \* rows releaseExpiredLocksJob takes (25)
    Handlers,           \* Ops requests served at the same time
    Jobs,               \* running copies of releaseExpiredLocksJob
    NoBooking, NoWindow, NoSlot,
    Ageing, Moving,     \* bounds: the locks that may expire, the bookings
                        \* whose status changes
    MaxCrashes          \* bound: requests that die half way

LocksAssumption ==
    /\ IsFiniteSet(LockIds)
    /\ WindowOf \in [Bookings -> Windows]
    /\ MaxMembers \in Nat /\ Batch \in Nat \ {0} /\ MaxCrashes \in Nat
    /\ NoSlot \notin SlotIds /\ NoWindow \notin Windows
    /\ \A v, w \in Windows : <<v, w>> \in Overlaps => <<w, v>> \in Overlaps

Workers == Handlers \cup Jobs

VARIABLES
    available,  \* members that cover the window now (countMembersForWindow)
    pending,    \* bookings whose status is PENDING_PROVIDER
    slot,       \* TeamPlanSlot rows: window, capacity, booked
    capacityBooked, \* of the TeamPlan row
    lock,       \* BookingTeamLock rows
    expired,    \* the locks whose expiresAt has passed
    req,        \* what each worker is doing
    crashes

tables == <<slot, capacityBooked, lock, expired>>
vars == <<available, pending, tables, req, crashes>>

ACTIVE_LOCK_STATUSES == {"HELD", "CONFIRMED"}

Slot == [window : Windows \cup {NoWindow}, capacity : 0..MaxMembers, booked : Int]
Lock == [booking : Bookings \cup {NoBooking}, slot : SlotIds \cup {NoSlot},
         providers : SUBSET LockProviders, count : Nat,
         status : ACTIVE_LOCK_STATUSES \cup {"NONE", "RELEASED"}]
NoLock == [booking |-> NoBooking, slot |-> NoSlot, providers |-> {},
           count |-> 0, status |-> "NONE"]

\* A request: its phase, its booking, the slot it found, the members it
\* counted, the size of the lock it takes (first what was asked), the
\* providers it locks or the locks it read.
Phases == {"idle", "slot_sought", "slot_ready", "slot_checked",
           "providers_clear", "confirm_read", "release_read"}
Idle == [pc |-> "idle", booking |-> NoBooking, slot |-> NoSlot, members |-> 0,
         size |-> 0, providers |-> {}, locks |-> {}]
Request ==
    {r \in [pc : Phases, booking : Bookings \cup {NoBooking},
            slot : SlotIds \cup {NoSlot}, members : 0..MaxMembers,
            size : 0..MaxMembers, providers : SUBSET LockProviders,
            locks : SUBSET LockIds] :
        /\ r.pc \in {"slot_sought", "slot_ready", "slot_checked",
                     "providers_clear"} => r.booking \in Bookings
        /\ r.pc \in {"slot_ready", "slot_checked"} => r.slot \in SlotIds}

Init ==
    /\ available = MaxMembers
    /\ pending = Bookings
    /\ slot = [s \in SlotIds |->
                 [window |-> NoWindow, capacity |-> 0, booked |-> 0]]
    /\ capacityBooked = 0
    /\ lock = [l \in LockIds |-> NoLock]
    /\ expired = {}
    /\ req = [w \in Workers |-> Idle]
    /\ crashes = 0

Become(w, r) == req' = [req EXCEPT ![w] = r]
Finish(w) == Become(w, Idle)
IdleHandler(w) == w \in Handlers /\ req[w].pc = "idle"
Active(l) == lock[l].status \in ACTIVE_LOCK_STATUSES
Free == {l \in LockIds : lock[l].status = "NONE"}
SlotsFor(b) == {s \in SlotIds : slot[s].window = WindowOf[b]}
Smaller(a, b) == IF a < b THEN a ELSE b

\* Slip: a slot without head room is not refused.
WithHeadroomUnrefused(w, r, headroom) ==
    Become(w, [r EXCEPT !.pc = "slot_ready", !.size = Smaller(r.size, headroom)])

\* lockTeam, once it has a slot: the head room bounds the lock.
WithHeadroom(w, r, headroom) ==
    Become(w, IF headroom <= 0 THEN Idle
              ELSE [r EXCEPT !.pc = "slot_ready",
                             !.size = Smaller(r.size, headroom)])

(***************************************************************************)
(* createLocks for a team: ensureSlot, head room, then the transaction.    *)
(***************************************************************************)
Seeking(b, requested) ==
    [pc |-> "slot_sought", booking |-> b, slot |-> NoSlot,
     members |-> available, size |-> requested, providers |-> {}, locks |-> {}]

\* Slip: a slot that exists is used as it is.
SlotFindStale(w, b, requested) ==
    /\ IdleHandler(w)
    /\ available > 0
    /\ LET r == Seeking(b, requested)
       IN \/ SlotsFor(b) = {} /\ Become(w, r)
          \/ \E s \in SlotsFor(b) :
                WithHeadroom(w, [r EXCEPT !.slot = s],
                             slot[s].capacity - slot[s].booked)
    /\ UNCHANGED <<available, pending, tables, crashes>>

SlotFind(w, b, requested) ==
    /\ IdleHandler(w)
    /\ available > 0
    /\ LET r == Seeking(b, requested)
       IN \/ SlotsFor(b) = {} /\ Become(w, r)
          \/ \E s \in SlotsFor(b) :
                IF slot[s].capacity # available
                THEN Become(w, [r EXCEPT !.slot = s])
                ELSE WithHeadroom(w, [r EXCEPT !.slot = s],
                                  slot[s].capacity - slot[s].booked)
    /\ UNCHANGED <<available, pending, tables, crashes>>

\* The slot's capacity follows the members who were counted.
SlotResize(w) ==
    LET r == req[w] IN
    /\ r.pc = "slot_sought" /\ r.slot # NoSlot
    /\ slot' = [slot EXCEPT ![r.slot].capacity = r.members]
    /\ WithHeadroom(w, r, r.members - slot[r.slot].booked)
    /\ UNCHANGED <<available, pending, capacityBooked, lock, expired, crashes>>

\* No unique key: another request may have created one for the same window.
SlotCreate(w) ==
    LET r == req[w] IN
    /\ r.pc = "slot_sought" /\ r.slot = NoSlot
    /\ \E s \in SlotIds :
          /\ slot[s].window = NoWindow
          /\ slot' = [slot EXCEPT ![s] = [window |-> WindowOf[r.booking],
                                          capacity |-> r.members,
                                          booked |-> 0]]
          /\ WithHeadroom(w, [r EXCEPT !.slot = s], r.members)
    /\ UNCHANGED <<available, pending, capacityBooked, lock, expired, crashes>>

\* The transaction reads the slot again ...
SlotCheck(w) ==
    LET r == req[w] IN
    /\ r.pc = "slot_ready"
    /\ Become(w, IF slot[r.slot].capacity - slot[r.slot].booked < r.size
                 THEN Idle ELSE [r EXCEPT !.pc = "slot_checked"])
    /\ UNCHANGED <<available, pending, tables, crashes>>

TeamLock(r) == [booking |-> r.booking, slot |-> r.slot, providers |-> {},
                count |-> r.size, status |-> "HELD"]

\* Slip: the plan of the day is not told.
LockCommitSlotOnly(w) ==
    LET r == req[w] IN
    /\ r.pc = "slot_checked"
    /\ \E l \in Free : lock' = [lock EXCEPT ![l] = TeamLock(r)]
    /\ slot' = [slot EXCEPT ![r.slot].booked = @ + r.size]
    /\ Finish(w)
    /\ UNCHANGED <<available, pending, capacityBooked, expired, crashes>>

\* ... and creates the lock, counting it on the slot and on the plan.
LockCommit(w) ==
    LET r == req[w] IN
    /\ r.pc = "slot_checked"
    /\ \E l \in Free : lock' = [lock EXCEPT ![l] = TeamLock(r)]
    /\ slot' = [slot EXCEPT ![r.slot].booked = @ + r.size]
    /\ capacityBooked' = capacityBooked + r.size
    /\ Finish(w)
    /\ UNCHANGED <<available, pending, expired, crashes>>

(***************************************************************************)
(* createLocks for providers: nobody else's active lock may overlap.  An   *)
(* overlapping assignment refuses too, which changes nothing.              *)
(***************************************************************************)
OverlapsBooking(l, b) ==
    /\ lock[l].booking \in Bookings \ {b}
    /\ <<WindowOf[lock[l].booking], WindowOf[b]>> \in Overlaps

\* Slip: only the locks that Ops has confirmed are looked for.
ConflictsConfirmed(ps, b) ==
    {l \in LockIds : /\ lock[l].status = "CONFIRMED"
                     /\ lock[l].providers \cap ps # {}
                     /\ OverlapsBooking(l, b)}

Conflicts(ps, b) ==
    {l \in LockIds : /\ Active(l)
                     /\ lock[l].providers \cap ps # {}
                     /\ OverlapsBooking(l, b)}

ProvidersRead(w, b, ps) ==
    /\ IdleHandler(w)
    /\ Conflicts(ps, b) = {}
    /\ Become(w, [Idle EXCEPT !.pc = "providers_clear", !.booking = b,
                              !.providers = ps])
    /\ UNCHANGED <<available, pending, tables, crashes>>

\* The unique key (booking, provider), which released locks keep.
LockedBefore(b, ps) ==
    \E l \in LockIds : lock[l].booking = b /\ lock[l].providers \cap ps # {}

\* One lock per provider, in one transaction: all of them or none.
ProvidersCommit(w) ==
    LET r == req[w] IN
    /\ r.pc = "providers_clear"
    /\ \/ LockedBefore(r.booking, r.providers) /\ lock' = lock
       \/ /\ ~ LockedBefore(r.booking, r.providers)
          /\ \E rows \in SUBSET Free : \E who \in Bijection(rows, r.providers) :
                lock' = [l \in LockIds |->
                           IF l \in rows
                           THEN [booking |-> r.booking, slot |-> NoSlot,
                                 providers |-> {who[l]}, count |-> 1,
                                 status |-> "HELD"]
                           ELSE lock[l]]
    /\ Finish(w)
    /\ UNCHANGED <<available, pending, slot, capacityBooked, expired, crashes>>

(***************************************************************************)
(* confirmLocks and releaseLocks: read the locks, write them all.          *)
(***************************************************************************)
LocksOf(b, statuses) ==
    {l \in LockIds : lock[l].booking = b /\ lock[l].status \in statuses}

ConfirmRead(w, b, ids) ==
    LET held == ids \cap LocksOf(b, {"HELD"}) IN
    /\ IdleHandler(w) /\ held # {}
    /\ Become(w, [Idle EXCEPT !.pc = "confirm_read", !.locks = held])
    /\ UNCHANGED <<available, pending, tables, crashes>>

WithStatus(locks, status) ==
    [l \in LockIds |-> IF l \in locks THEN [lock[l] EXCEPT !.status = status]
                       ELSE lock[l]]

\* The status of now is not looked at.  An expired lock is not prolonged: its
\* expiresAt becomes now.
ConfirmWrite(w) ==
    /\ req[w].pc = "confirm_read"
    /\ lock' = WithStatus(req[w].locks, "CONFIRMED")
    /\ Finish(w)
    /\ UNCHANGED <<available, pending, slot, capacityBooked, expired, crashes>>

ReleaseRead(w, b, ids) ==
    LET active == ids \cap LocksOf(b, ACTIVE_LOCK_STATUSES) IN
    /\ IdleHandler(w) /\ active # {}
    /\ Become(w, [Idle EXCEPT !.pc = "release_read", !.locks = active])
    /\ UNCHANGED <<available, pending, tables, crashes>>

\* The units of capacity that the given locks have on the given slots.
Units(locks, slots) ==
    {u \in LockIds \X (1..MaxMembers) :
        /\ u[1] \in locks /\ lock[u[1]].slot \in slots
        /\ u[2] <= lock[u[1]].count}

\* Slip: the release looks for the capacity of provider locks only.
ReleaseWriteKeepsCapacity(w) ==
    /\ req[w].pc = "release_read"
    /\ lock' = WithStatus(req[w].locks, "RELEASED")
    /\ Finish(w)
    /\ UNCHANGED <<available, pending, slot, capacityBooked, expired, crashes>>

\* releaseLocks and releaseLockBatch give back what every lock took, released
\* meanwhile or not.
ReleaseWrite(w) ==
    LET locks == req[w].locks IN
    /\ req[w].pc = "release_read"
    /\ lock' = WithStatus(locks, "RELEASED")
    /\ slot' = [s \in SlotIds |->
                  [slot[s] EXCEPT !.booked = @ - Cardinality(Units(locks, {s}))]]
    /\ capacityBooked' = capacityBooked - Cardinality(Units(locks, SlotIds))
    /\ Finish(w)
    /\ UNCHANGED <<available, pending, expired, crashes>>

(***************************************************************************)
(* releaseExpiredLocksJob.  The code takes the oldest; which ones does not *)
(* matter here.                                                            *)
(***************************************************************************)

\* Slip: a confirmed lock does not expire.
ExpiredLocksHeld ==
    {l \in expired : lock[l].status = "HELD" /\ lock[l].booking \in pending}

ExpiredLocks == {l \in expired : Active(l) /\ lock[l].booking \in pending}

ExpiredRead(w) ==
    /\ w \in Jobs /\ req[w].pc = "idle"
    /\ ExpiredLocks # {}
    /\ \E locks \in SUBSET ExpiredLocks :
          /\ Cardinality(locks) = Smaller(Batch, Cardinality(ExpiredLocks))
          /\ Become(w, [Idle EXCEPT !.pc = "release_read", !.locks = locks])
    /\ UNCHANGED <<available, pending, tables, crashes>>

(***************************************************************************)
(* The environment: members come and go, bookings leave and re-enter       *)
(* PENDING_PROVIDER (BookingLifecycle), time passes, requests die.         *)
(***************************************************************************)
MembersChange ==
    /\ available' \in 0..MaxMembers
    /\ UNCHANGED <<pending, tables, req, crashes>>

BookingMoves(b) ==
    /\ b \in Moving
    /\ pending' = IF b \in pending THEN pending \ {b} ELSE pending \cup {b}
    /\ UNCHANGED <<available, tables, req, crashes>>

Expire(l) ==
    /\ l \in Ageing /\ Active(l)
    /\ expired' = expired \cup {l}
    /\ UNCHANGED <<available, pending, slot, capacityBooked, lock, req, crashes>>

Crash(w) ==
    /\ req[w].pc # "idle" /\ crashes < MaxCrashes
    /\ crashes' = crashes + 1
    /\ Finish(w)
    /\ UNCHANGED <<available, pending, tables>>

Start(w) ==
    \E b \in Bookings :
        \/ \E n \in 1..MaxMembers : SlotFind(w, b, n)
        \/ \E ps \in SUBSET LockProviders \ {{}} : ProvidersRead(w, b, ps)
        \/ \E ids \in SUBSET LockIds : ConfirmRead(w, b, ids)
                                       \/ ReleaseRead(w, b, ids)

Continue(w) ==
    \/ SlotResize(w) \/ SlotCreate(w) \/ SlotCheck(w) \/ LockCommit(w)
    \/ ProvidersCommit(w) \/ ConfirmWrite(w) \/ ReleaseWrite(w)

Next ==
    \/ \E w \in Workers : Start(w) \/ Continue(w) \/ ExpiredRead(w) \/ Crash(w)
    \/ MembersChange
    \/ \E b \in Bookings : BookingMoves(b)
    \/ \E l \in LockIds : Expire(l)

Spec == Init /\ [][Next]_vars

\* The cron starts the job every three minutes and a started job runs on.
FairSpec ==
    /\ Spec
    /\ \A w \in Jobs : WF_vars(ExpiredRead(w)) /\ WF_vars(ReleaseWrite(w))

-----------------------------------------------------------------------------

\* Every row and every request holds a value of its type; booked is an integer
\* that is incremented and decremented, so nothing keeps it natural.
TypeOK ==
    /\ available \in 0..MaxMembers
    /\ pending \subseteq Bookings
    /\ slot \in [SlotIds -> Slot]
    /\ capacityBooked \in Int
    /\ lock \in [LockIds -> Lock]
    /\ expired \subseteq LockIds
    /\ req \in [Workers -> Request]
    /\ crashes \in 0..MaxCrashes

Held(slots) == Units({l \in LockIds : Active(l)}, slots)

\* Whatever races with whatever, no capacity leaks: neither a slot nor the plan
\* counts more than active locks hold.  Two releases of one lock, or the
\* confirmation of a released one, only make the counters too small.
NoCapacityLeak ==
    /\ \A s \in SlotIds : slot[s].booked <= Cardinality(Held({s}))
    /\ capacityBooked <= Cardinality(Held(SlotIds))

\* One request at a time, the counters are exact: what slots and plan count as
\* booked is what active locks hold.
BookedIsHeld ==
    /\ \A s \in SlotIds : slot[s].booked = Cardinality(Held({s}))
    /\ capacityBooked = Cardinality(Held(SlotIds))

\* One request at a time, a new lock fits the members who were counted for it,
\* with all that is locked for the same window, in whatever slot.
TakesWhatFits ==
    \A w \in Workers :
        req[w].pc = "slot_checked" /\ lock' # lock =>
           \A slots \in {SlotsFor(req[w].booking)} :
              Cardinality(Held(slots)') <= req[w].members

\* One request at a time, a provider is not locked for two bookings that
\* overlap.
ProviderLockedOnce ==
    \A k, l \in LockIds :
        Active(k) /\ Active(l) /\ lock[k].providers \cap lock[l].providers # {}
          => ~ OverlapsBooking(k, lock[l].booking)

\* The job gets to every expired lock of a booking that still waits, whoever
\* confirms, releases and locks beside it.
ExpiredIsReleased ==
    LET due(l) == l \in expired /\ Active(l) /\ lock[l].booking \in pending
    IN \A l \in LockIds : due(l) ~> ~ due(l)

=============================================================================
