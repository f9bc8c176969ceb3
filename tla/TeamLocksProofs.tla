--------------------------- MODULE TeamLocksProofs ---------------------------
(***************************************************************************)
(* No capacity leaks, for every set of bookings, windows, slots and locks  *)
(* and any number of concurrent requests and jobs.                         *)
(***************************************************************************)
EXTENDS TeamLocks, FiniteSetTheorems, TLAPS

LEMMA IdleIsRequest ==
    ASSUME LocksAssumption
    PROVE  Idle \in Request
BY DEF LocksAssumption, Idle, Request, Phases

LEMMA BecomeType ==
    ASSUME req \in [Workers -> Request], NEW w \in Workers,
           NEW r \in Request, Become(w, r)
    PROVE  req' \in [Workers -> Request]
BY DEF Become

LEMMA FinishType ==
    ASSUME LocksAssumption, req \in [Workers -> Request], NEW w \in Workers, Finish(w)
    PROVE  req' \in [Workers -> Request]
BY IdleIsRequest DEF Finish, Become

\* What a request under way knows of its fields.
LEMMA RequestFields ==
    ASSUME TypeOK, NEW w \in Workers
    PROVE  /\ req[w] \in Request
           /\ req[w].booking \in Bookings \cup {NoBooking}
           /\ req[w].slot \in SlotIds \cup {NoSlot}
           /\ req[w].members \in 0..MaxMembers
           /\ req[w].size \in 0..MaxMembers
           /\ req[w].providers \subseteq LockProviders
           /\ req[w].locks \subseteq LockIds
           /\ req[w].pc \in {"slot_sought", "slot_ready", "slot_checked"}
                => req[w].booking \in Bookings
           /\ req[w].pc \in {"slot_ready", "slot_checked"}
                => req[w].slot \in SlotIds
BY DEF TypeOK, Request

(***************************************************************************)
(* Units of capacity.                                                      *)
(***************************************************************************)

\* Units are elements of a finite set, so they can be counted.
LEMMA UnitsFinite ==
    ASSUME LocksAssumption, NEW S, S \subseteq LockIds \X (1..MaxMembers)
    PROVE  IsFiniteSet(S) /\ Cardinality(S) \in Nat
<1>1. IsFiniteSet(1..MaxMembers)
  BY FS_Interval DEF LocksAssumption
<1>2. IsFiniteSet(LockIds \X (1..MaxMembers))
  BY <1>1, FS_Product DEF LocksAssumption
<1> QED
  BY <1>2, FS_Subset, FS_CardinalityType

\* The units of a request's size.
LEMMA IntervalUnits ==
    ASSUME NEW l, NEW n \in Nat
    PROVE  /\ IsFiniteSet({l} \X (1..n))
           /\ Cardinality({l} \X (1..n)) = n
<1>1. IsFiniteSet(1..n) /\ Cardinality(1..n) = n
  BY FS_Interval
<1>2. IsFiniteSet({l}) /\ Cardinality({l}) = 1
  BY FS_Singleton
<1> QED
  BY <1>1, <1>2, FS_Product

\* Counting is monotone.
LEMMA MoreUnits ==
    ASSUME NEW S, NEW T, IsFiniteSet(T), S \subseteq T
    PROVE  Cardinality(S) <= Cardinality(T)
BY FS_Subset

\* Taking U away from S takes at most as many units as U has.
LEMMA FewerUnits ==
    ASSUME NEW S, NEW U, NEW R, IsFiniteSet(S), IsFiniteSet(U),
           S \ U \subseteq R, IsFiniteSet(R)
    PROVE  Cardinality(S) - Cardinality(U) <= Cardinality(R)
<1>1. /\ IsFiniteSet(S \cap U) /\ Cardinality(S \cap U) \in Nat
      /\ Cardinality(S \cap U) <= Cardinality(U)
  BY FS_Subset, FS_CardinalityType
<1>2. Cardinality(S \ U) = Cardinality(S) - Cardinality(S \cap U)
  BY FS_Difference
<1>3. Cardinality(S \ U) <= Cardinality(R)
  BY <1>1, FS_Subset
<1>4. /\ Cardinality(S) \in Nat /\ Cardinality(U) \in Nat
      /\ Cardinality(R) \in Nat /\ Cardinality(S \ U) \in Nat
  BY FS_CardinalityType, FS_Subset
<1> QED
  BY <1>1, <1>2, <1>3, <1>4

(***************************************************************************)
(* Types.                                                                  *)
(***************************************************************************)

\* A request that is given head room keeps its type.
LEMMA HeadroomType ==
    ASSUME LocksAssumption, TypeOK, NEW w \in Workers, NEW r \in Request, NEW h \in Int,
           r.booking \in Bookings, r.slot \in SlotIds,
           WithHeadroom(w, r, h)
    PROVE  req' \in [Workers -> Request]
<1> DEFINE sized == [r EXCEPT !.pc = "slot_ready",
                              !.size = Smaller(r.size, h)]
<1>1. CASE h <= 0
  BY <1>1, IdleIsRequest, BecomeType DEF WithHeadroom, TypeOK
<1>2. CASE ~ (h <= 0)
  <2>1. Smaller(r.size, h) \in 0..MaxMembers
    BY <1>2 DEF LocksAssumption, Smaller, Request
  <2>2. sized \in Request
    BY <2>1 DEF Request, Phases
  <2> QED
    BY <1>2, <2>2, BecomeType DEF WithHeadroom, TypeOK
<1> QED
  BY <1>1, <1>2

LEMMA SlotFindType ==
    ASSUME LocksAssumption, TypeOK, NEW w \in Workers, NEW b \in Bookings,
           NEW n \in 1..MaxMembers, SlotFind(w, b, n)
    PROVE  TypeOK'
<1> DEFINE r == Seeking(b, n)
<1>1. r \in Request /\ r.booking = b
  <2>1. n \in 0..MaxMembers /\ available \in 0..MaxMembers
    BY DEF LocksAssumption, TypeOK
  <2> QED
    BY <2>1 DEF Seeking, Request, Phases
<1>2. req' \in [Workers -> Request]
  <2>1. CASE Become(w, r)
    BY <1>1, <2>1, BecomeType DEF TypeOK
  <2>2. ASSUME NEW s \in SlotIds, Become(w, [r EXCEPT !.slot = s])
        PROVE  req' \in [Workers -> Request]
    <3>1. [r EXCEPT !.slot = s] \in Request
      BY <1>1 DEF Request
    <3> QED
      BY <2>2, <3>1, BecomeType DEF TypeOK
  <2>3. ASSUME NEW s \in SlotIds,
               WithHeadroom(w, [r EXCEPT !.slot = s],
                            slot[s].capacity - slot[s].booked)
        PROVE  req' \in [Workers -> Request]
    <3>1. /\ [r EXCEPT !.slot = s] \in Request
          /\ [r EXCEPT !.slot = s].booking \in Bookings
          /\ [r EXCEPT !.slot = s].slot \in SlotIds
      BY <1>1 DEF Request
    <3>2. slot[s].capacity - slot[s].booked \in Int
      BY DEF LocksAssumption, TypeOK, Slot
    <3> HIDE DEF r
    <3> QED
      BY <2>3, <3>1, <3>2, HeadroomType
  <2> QED
    BY <2>1, <2>2, <2>3 DEF SlotFind, SlotsFor
<1> QED
  BY <1>2 DEF SlotFind, TypeOK, tables

LEMMA SlotWriteType ==
    ASSUME LocksAssumption, TypeOK, NEW w \in Workers, SlotResize(w) \/ SlotCreate(w)
    PROVE  TypeOK'
<1> DEFINE r == req[w]
<1>1. /\ r \in Request /\ r.members \in 0..MaxMembers
      /\ r.slot \in SlotIds \cup {NoSlot} /\ r.booking \in Bookings
  BY RequestFields DEF SlotResize, SlotCreate
<1>2. CASE SlotResize(w)
  <2>1. r.slot \in SlotIds
    BY <1>1, <1>2 DEF SlotResize
  <2>2. r.members - slot[r.slot].booked \in Int
    BY <1>1, <2>1 DEF LocksAssumption, TypeOK, Slot
  <2>3. WithHeadroom(w, r, r.members - slot[r.slot].booked)
    BY <1>2 DEF SlotResize
  <2>4. req' \in [Workers -> Request]
    BY <1>1, <2>1, <2>2, <2>3, HeadroomType
  <2>5. slot' \in [SlotIds -> Slot]
    BY <1>1, <1>2, <2>1 DEF SlotResize, TypeOK, Slot
  <2> QED
    BY <1>2, <2>4, <2>5 DEF SlotResize, TypeOK
<1>3. CASE SlotCreate(w)
  <2>1. PICK s \in SlotIds :
          /\ slot' = [slot EXCEPT ![s] = [window |-> WindowOf[r.booking],
                                          capacity |-> r.members,
                                          booked |-> 0]]
          /\ WithHeadroom(w, [r EXCEPT !.slot = s], r.members)
    BY <1>3 DEF SlotCreate
  <2>2. /\ [r EXCEPT !.slot = s] \in Request
        /\ [r EXCEPT !.slot = s].booking \in Bookings
        /\ [r EXCEPT !.slot = s].slot \in SlotIds
        /\ r.members \in Int
    BY <1>1 DEF Request
  <2>3. req' \in [Workers -> Request]
    BY <2>1, <2>2, HeadroomType
  <2>4. slot' \in [SlotIds -> Slot]
    BY <1>1, <2>1 DEF LocksAssumption, TypeOK, Slot
  <2> QED
    BY <1>3, <2>3, <2>4 DEF SlotCreate, TypeOK
<1> QED
  BY <1>2, <1>3

LEMMA LockWriteType ==
    ASSUME LocksAssumption, TypeOK, NEW w \in Workers, LockCommit(w) \/ ProvidersCommit(w)
    PROVE  TypeOK'
<1> DEFINE r == req[w]
<1>1. req' \in [Workers -> Request]
  BY FinishType DEF LockCommit, ProvidersCommit, TypeOK
<1>2. CASE LockCommit(w)
  <2>1. /\ r.booking \in Bookings /\ r.slot \in SlotIds
        /\ r.size \in 0..MaxMembers
    BY <1>2, RequestFields DEF LockCommit
  <2>2. r.size \in Nat
    BY <2>1 DEF LocksAssumption
  <2>3. TeamLock(r) \in Lock
    BY <2>1, <2>2 DEF TeamLock, Lock, ACTIVE_LOCK_STATUSES
  <2>4. lock' \in [LockIds -> Lock]
    BY <1>2, <2>3 DEF LockCommit, TypeOK
  <2>5. slot' \in [SlotIds -> Slot]
    BY <1>2, <2>1, <2>2 DEF LockCommit, TypeOK, Slot
  <2>6. capacityBooked' \in Int
    BY <1>2, <2>2 DEF LockCommit, TypeOK
  <2> QED
    BY <1>1, <1>2, <2>4, <2>5, <2>6 DEF LockCommit, TypeOK
<1>3. CASE ProvidersCommit(w) /\ lock' # lock
  <2> PICK rows \in SUBSET Free : \E who \in Bijection(rows, r.providers) :
          lock' = [l \in LockIds |->
                     IF l \in rows
                     THEN [booking |-> r.booking, slot |-> NoSlot,
                           providers |-> {who[l]}, count |-> 1,
                           status |-> "HELD"]
                     ELSE lock[l]]
    BY <1>3 DEF ProvidersCommit
  <2>1. PICK who \in Bijection(rows, r.providers) :
          lock' = [l \in LockIds |->
                     IF l \in rows
                     THEN [booking |-> r.booking, slot |-> NoSlot,
                           providers |-> {who[l]}, count |-> 1,
                           status |-> "HELD"]
                     ELSE lock[l]]
    OBVIOUS
  <2>2. who \in [rows -> r.providers]
    BY <2>1 DEF Bijection, Injection
  <2>3. r.booking \in Bookings \cup {NoBooking} /\ r.providers \subseteq LockProviders
    BY RequestFields
  <2>4. ASSUME NEW l \in LockIds PROVE lock'[l] \in Lock
    <3>1. CASE l \in rows
      <4>1. {who[l]} \subseteq LockProviders
        BY <2>2, <2>3, <3>1
      <4> QED
        BY <2>1, <2>3, <3>1, <4>1 DEF Lock, ACTIVE_LOCK_STATUSES
    <3>2. CASE l \notin rows
      BY <2>1, <3>2 DEF TypeOK
    <3> QED
      BY <3>1, <3>2
  <2>5. lock' \in [LockIds -> Lock]
    BY <2>1, <2>4
  <2> QED
    BY <1>1, <1>3, <2>5 DEF ProvidersCommit, TypeOK
<1>4. CASE ProvidersCommit(w) /\ lock' = lock
  BY <1>1, <1>4 DEF ProvidersCommit, TypeOK
<1> QED
  BY <1>2, <1>3, <1>4

LEMMA StatusType ==
    ASSUME TypeOK, NEW locks, NEW st \in {"CONFIRMED", "RELEASED"}
    PROVE  WithStatus(locks, st) \in [LockIds -> Lock]
<1>1. ASSUME NEW l \in LockIds PROVE [lock[l] EXCEPT !.status = st] \in Lock
  BY DEF TypeOK, Lock, ACTIVE_LOCK_STATUSES
<1> QED
  BY <1>1 DEF WithStatus, TypeOK

LEMMA StatusWriteType ==
    ASSUME LocksAssumption, TypeOK, NEW w \in Workers, ConfirmWrite(w) \/ ReleaseWrite(w)
    PROVE  TypeOK'
<1>1. req' \in [Workers -> Request] /\ lock' \in [LockIds -> Lock]
  BY FinishType, StatusType DEF ConfirmWrite, ReleaseWrite, TypeOK
<1>2. CASE ConfirmWrite(w)
  BY <1>1, <1>2 DEF ConfirmWrite, TypeOK
<1>3. CASE ReleaseWrite(w)
  <2> DEFINE locks == req[w].locks
  <2>1. \A slots : Cardinality(Units(locks, slots)) \in Nat
    <3> TAKE slots
    <3>1. Units(locks, slots) \subseteq LockIds \X (1..MaxMembers)
      BY DEF Units
    <3> QED
      BY <3>1, UnitsFinite
  <2>2. slot' \in [SlotIds -> Slot]
    <3>1. slot' = [s \in SlotIds |->
                     [slot[s] EXCEPT !.booked =
                        @ - Cardinality(Units(locks, {s}))]]
      BY <1>3 DEF ReleaseWrite
    <3> HIDE DEF locks
    <3> QED
      BY <2>1, <3>1 DEF TypeOK, Slot
  <2>3. capacityBooked' \in Int
    BY <1>3, <2>1 DEF ReleaseWrite, TypeOK
  <2> QED
    BY <1>1, <1>3, <2>2, <2>3 DEF ReleaseWrite, TypeOK
<1> QED
  BY <1>2, <1>3

LEMMA ReadType ==
    ASSUME LocksAssumption, TypeOK, NEW w \in Workers,
           \/ \E b \in Bookings :
                \/ \E ps \in SUBSET LockProviders : ProvidersRead(w, b, ps)
                \/ \E ids \in SUBSET LockIds :
                      ConfirmRead(w, b, ids) \/ ReleaseRead(w, b, ids)
           \/ SlotCheck(w)
           \/ ExpiredRead(w)
    PROVE  TypeOK'
<1>1. CASE \E b \in Bookings, ps \in SUBSET LockProviders :
             ProvidersRead(w, b, ps)
  <2>1. PICK b \in Bookings, ps \in SUBSET LockProviders :
          ProvidersRead(w, b, ps)
    BY <1>1
  <2>2. [Idle EXCEPT !.pc = "providers_clear", !.booking = b,
                     !.providers = ps] \in Request
    BY IdleIsRequest DEF Idle, Request, Phases
  <2> QED
    BY <2>1, <2>2, BecomeType DEF ProvidersRead, TypeOK, tables
<1>2. ASSUME NEW locks \in SUBSET LockIds,
             NEW pc \in {"confirm_read", "release_read"}
      PROVE  [Idle EXCEPT !.pc = pc, !.locks = locks] \in Request
  BY IdleIsRequest DEF Idle, Request, Phases
<1>3. CASE \E b \in Bookings, ids \in SUBSET LockIds :
             ConfirmRead(w, b, ids) \/ ReleaseRead(w, b, ids)
  BY <1>2, <1>3, BecomeType
     DEF ConfirmRead, ReleaseRead, LocksOf, TypeOK, tables
<1>4. CASE SlotCheck(w)
  <2>1. [req[w] EXCEPT !.pc = "slot_checked"] \in Request
    BY <1>4, RequestFields DEF SlotCheck, Request, Phases
  <2>2. req' \in [Workers -> Request]
    BY <1>4, <2>1, IdleIsRequest, BecomeType DEF SlotCheck, TypeOK
  <2> QED
    BY <1>4, <2>2 DEF SlotCheck, TypeOK, tables
<1>5. CASE ExpiredRead(w)
  <2>1. PICK locks \in SUBSET ExpiredLocks :
          Become(w, [Idle EXCEPT !.pc = "release_read", !.locks = locks])
    BY <1>5 DEF ExpiredRead
  <2>2. locks \in SUBSET LockIds
    BY DEF ExpiredLocks, TypeOK
  <2> QED
    BY <1>2, <1>5, <2>1, <2>2, BecomeType DEF ExpiredRead, TypeOK, tables
<1> QED
  BY <1>1, <1>3, <1>4, <1>5

LEMMA EnvironmentType ==
    ASSUME LocksAssumption, TypeOK,
           \/ MembersChange
           \/ \E b \in Bookings : BookingMoves(b)
           \/ \E l \in LockIds : Expire(l)
           \/ \E w \in Workers : Crash(w)
           \/ UNCHANGED vars
    PROVE  TypeOK'
<1>1. CASE MembersChange \/ \E b \in Bookings : BookingMoves(b)
  BY <1>1 DEF MembersChange, BookingMoves, TypeOK, tables
<1>2. CASE \E l \in LockIds : Expire(l)
  BY <1>2 DEF Expire, TypeOK
<1>3. CASE \E w \in Workers : Crash(w)
  BY <1>3, FinishType DEF LocksAssumption, Crash, TypeOK, tables
<1>4. CASE UNCHANGED vars
  BY <1>4 DEF TypeOK, vars, tables
<1> QED
  BY <1>1, <1>2, <1>3, <1>4

LEMMA TypeStep ==
    ASSUME LocksAssumption
    PROVE  TypeOK /\ [Next]_vars => TypeOK'
<1> SUFFICES ASSUME TypeOK, [Next]_vars PROVE TypeOK'
  OBVIOUS
<1>1. ASSUME NEW w \in Workers, Start(w) PROVE TypeOK'
  BY <1>1, SlotFindType, ReadType DEF Start
<1>2. ASSUME NEW w \in Workers, Continue(w) PROVE TypeOK'
  BY <1>2, SlotWriteType, LockWriteType, StatusWriteType, ReadType DEF Continue
<1>3. ASSUME NEW w \in Workers, ExpiredRead(w) \/ Crash(w) PROVE TypeOK'
  BY <1>3, ReadType, EnvironmentType
<1> QED
  BY <1>1, <1>2, <1>3, EnvironmentType DEF Next

LEMMA TypeInit ==
    ASSUME LocksAssumption
    PROVE  Init => TypeOK
<1> SUFFICES ASSUME Init PROVE TypeOK
  OBVIOUS
<1>1. NoLock \in Lock
  BY DEF NoLock, Lock
<1>2. slot \in [SlotIds -> Slot]
  BY DEF LocksAssumption, Init, Slot
<1> QED
  BY <1>1, <1>2, IdleIsRequest DEF LocksAssumption, Init, TypeOK

\* The tables of the locks and every request on them are well typed.
THEOREM LocksTypeCorrect ==
    ASSUME LocksAssumption
    PROVE  Spec => []TypeOK
BY TypeInit, TypeStep, PTL DEF Spec

(***************************************************************************)
(* No leak.  A step adds to a counter what the lock it creates holds, and  *)
(* takes from it at least what the locks it ends held.                     *)
(***************************************************************************)
LEMMA HeldFinite ==
    ASSUME LocksAssumption, NEW slots
    PROVE  /\ IsFiniteSet(Held(slots)) /\ Cardinality(Held(slots)) \in Nat
           /\ IsFiniteSet(Held(slots)') /\ Cardinality(Held(slots)') \in Nat
<1>1. /\ Held(slots) \subseteq LockIds \X (1..MaxMembers)
      /\ Held(slots)' \subseteq LockIds \X (1..MaxMembers)
  BY DEF Held, Units
<1> QED
  BY <1>1, UnitsFinite

\* A lock goes on holding its units while it stays active.
LEMMA HeldKept ==
    ASSUME LocksAssumption, NEW slots,
           \A l \in LockIds : Active(l) =>
              /\ Active(l)'
              /\ lock'[l].slot = lock[l].slot /\ lock'[l].count = lock[l].count
    PROVE  /\ Held(slots) \subseteq Held(slots)'
           /\ Cardinality(Held(slots)) <= Cardinality(Held(slots)')
<1>1. Held(slots) \subseteq Held(slots)'
  BY DEF Held, Units
<1> QED
  BY <1>1, HeldFinite, MoreUnits

LEMMA CommitHolds ==
    ASSUME LocksAssumption, TypeOK, NEW w \in Workers, LockCommit(w), NEW slots
    PROVE  /\ Cardinality(Held(slots)) <= Cardinality(Held(slots)')
           /\ req[w].slot \in slots =>
                Cardinality(Held(slots)) + req[w].size
                  <= Cardinality(Held(slots)')
<1> DEFINE r == req[w]
<1>1. PICK l \in Free : lock' = [lock EXCEPT ![l] = TeamLock(r)]
  BY DEF LockCommit
<1>2. l \in LockIds /\ ~ Active(l) /\ r.size \in 0..MaxMembers /\ r.size \in Nat
  BY <1>1, RequestFields DEF LocksAssumption, Free, Active, ACTIVE_LOCK_STATUSES
<1>3. \A k \in LockIds \ {l} : lock'[k] = lock[k]
  BY <1>1 DEF TypeOK
<1>4. lock'[l] = TeamLock(r)
  BY <1>1, <1>2 DEF TypeOK
<1>5. /\ Held(slots) \subseteq Held(slots)'
      /\ Cardinality(Held(slots)) <= Cardinality(Held(slots)')
  <2>1. \A k \in LockIds : Active(k) =>
           Active(k)' /\ lock'[k].slot = lock[k].slot
                      /\ lock'[k].count = lock[k].count
    BY <1>2, <1>3 DEF Active
  <2> QED
    BY <2>1, HeldKept
<1>6. ASSUME r.slot \in slots
      PROVE  Cardinality(Held(slots)) + r.size <= Cardinality(Held(slots)')
  <2> DEFINE new == {l} \X (1..r.size)
  <2>1. IsFiniteSet(new) /\ Cardinality(new) = r.size
    BY <1>2, IntervalUnits
  <2>2. new \subseteq Held(slots)'
    <3>1. /\ Active(l)' /\ lock'[l].slot = r.slot
          /\ lock'[l].count = r.size
      BY <1>4 DEF TeamLock, Active, ACTIVE_LOCK_STATUSES
    <3>2. \A n \in 1..r.size : n \in 1..MaxMembers /\ n <= r.size
      BY <1>2 DEF LocksAssumption
    <3>3. \A n \in 1..r.size : <<l, n>> \in Held(slots)'
      BY <1>2, <1>6, <3>1, <3>2 DEF Held, Units
    <3> QED
      BY <3>3
  <2>3. Held(slots) \cap new = {}
    BY <1>2 DEF Held, Units
  <2>4. Cardinality(Held(slots) \cup new) = Cardinality(Held(slots)) + r.size
    <3>1. Cardinality(Held(slots) \cup new) =
             Cardinality(Held(slots)) + Cardinality(new)
               - Cardinality(Held(slots) \cap new)
      BY <2>1, HeldFinite, FS_Union
    <3>2. Cardinality(Held(slots) \cap new) = 0
      BY <2>3, FS_EmptySet
    <3>3. Cardinality(Held(slots)) \in Nat
      BY HeldFinite
    <3> HIDE DEF new
    <3> QED
      BY <1>2, <2>1, <3>1, <3>2, <3>3
  <2>5. Held(slots) \cup new \subseteq Held(slots)'
    BY <1>5, <2>2
  <2> QED
    BY <2>4, <2>5, HeldFinite, MoreUnits
<1> QED
  BY <1>5, <1>6

LEMMA ReleaseHolds ==
    ASSUME LocksAssumption, TypeOK, NEW w \in Workers, ReleaseWrite(w), NEW slots
    PROVE  Cardinality(Held(slots)) - Cardinality(Units(req[w].locks, slots))
             <= Cardinality(Held(slots)')
<1> DEFINE gone == Units(req[w].locks, slots)
<1>1. gone \subseteq LockIds \X (1..MaxMembers)
  BY DEF Units
<1>2. IsFiniteSet(gone)
  BY <1>1, UnitsFinite
<1>3. \A l \in LockIds \ req[w].locks : lock'[l] = lock[l]
  BY DEF ReleaseWrite, WithStatus
<1>4. Held(slots) \ gone \subseteq Held(slots)'
  BY <1>3 DEF Held, Units, Active
<1> QED
  BY <1>2, <1>4, HeldFinite, FewerUnits

LEMMA CommitLeaksNothing ==
    ASSUME LocksAssumption, TypeOK, NoCapacityLeak, NEW w \in Workers, LockCommit(w)
    PROVE  NoCapacityLeak'
<1> DEFINE r == req[w]
<1>1. r.slot \in SlotIds /\ r.size \in Nat
  BY RequestFields DEF LocksAssumption, LockCommit
<1>2. ASSUME NEW s \in SlotIds
      PROVE  slot'[s].booked <= Cardinality(Held({s})')
  <2>1. /\ slot[s].booked \in Int
        /\ slot[s].booked <= Cardinality(Held({s}))
    BY DEF TypeOK, Slot, NoCapacityLeak
  <2>2. CASE s = r.slot
    <3>1. slot'[s].booked = slot[s].booked + r.size
      BY <2>2 DEF LockCommit, TypeOK, Slot
    <3>2. Cardinality(Held({s})) + r.size <= Cardinality(Held({s})')
      BY <2>2, CommitHolds
    <3> QED
      BY <1>1, <2>1, <3>1, <3>2, HeldFinite
  <2>3. CASE s # r.slot
    <3>1. slot'[s] = slot[s]
      BY <1>1, <2>3 DEF LockCommit, TypeOK
    <3>2. Cardinality(Held({s})) <= Cardinality(Held({s})')
      BY CommitHolds
    <3> QED
      BY <2>1, <3>1, <3>2, HeldFinite
  <2> QED
    BY <2>2, <2>3
<1>3. capacityBooked' <= Cardinality(Held(SlotIds)')
  <2>1. capacityBooked \in Int /\ capacityBooked <= Cardinality(Held(SlotIds))
    BY DEF TypeOK, NoCapacityLeak
  <2>2. capacityBooked' = capacityBooked + r.size
    BY DEF LockCommit
  <2>3. Cardinality(Held(SlotIds)) + r.size <= Cardinality(Held(SlotIds)')
    BY <1>1, CommitHolds
  <2> QED
    BY <1>1, <2>1, <2>2, <2>3, HeldFinite
<1> QED
  BY <1>2, <1>3 DEF NoCapacityLeak

LEMMA ReleaseLeaksNothing ==
    ASSUME LocksAssumption, TypeOK, NoCapacityLeak, NEW w \in Workers, ReleaseWrite(w)
    PROVE  NoCapacityLeak'
<1> DEFINE gone(slots) == Cardinality(Units(req[w].locks, slots))
<1>1. \A slots : gone(slots) \in Nat
  <2> TAKE slots
  <2>1. Units(req[w].locks, slots) \subseteq LockIds \X (1..MaxMembers)
    BY DEF Units
  <2> QED
    BY <2>1, UnitsFinite
<1>2. ASSUME NEW s \in SlotIds
      PROVE  slot'[s].booked <= Cardinality(Held({s})')
  <2>1. /\ slot[s].booked \in Int
        /\ slot[s].booked <= Cardinality(Held({s}))
    BY DEF TypeOK, Slot, NoCapacityLeak
  <2>2. slot'[s].booked = slot[s].booked - gone({s})
    BY DEF ReleaseWrite, TypeOK, Slot
  <2>3. Cardinality(Held({s})) - gone({s}) <= Cardinality(Held({s})')
    BY ReleaseHolds
  <2> HIDE DEF gone
  <2> QED
    BY <1>1, <2>1, <2>2, <2>3, HeldFinite
<1>3. capacityBooked' <= Cardinality(Held(SlotIds)')
  <2>1. capacityBooked \in Int /\ capacityBooked <= Cardinality(Held(SlotIds))
    BY DEF TypeOK, NoCapacityLeak
  <2>2. capacityBooked' = capacityBooked - gone(SlotIds)
    BY DEF ReleaseWrite
  <2>3. Cardinality(Held(SlotIds)) - gone(SlotIds)
          <= Cardinality(Held(SlotIds)')
    BY ReleaseHolds
  <2> HIDE DEF gone
  <2> QED
    BY <1>1, <2>1, <2>2, <2>3, HeldFinite
<1> QED
  BY <1>2, <1>3 DEF NoCapacityLeak

\* A step that only adds active locks, and raises no counter, leaks nothing.
LEMMA KeepingLeaksNothing ==
    ASSUME LocksAssumption, NoCapacityLeak,
           \A l \in LockIds : Active(l) =>
              /\ Active(l)'
              /\ lock'[l].slot = lock[l].slot /\ lock'[l].count = lock[l].count,
           \A s \in SlotIds : \/ slot'[s].booked = slot[s].booked
                              \/ slot'[s].booked = 0,
           UNCHANGED capacityBooked,
           TypeOK
    PROVE  NoCapacityLeak'
<1>1. \A slots : /\ Cardinality(Held(slots)) <= Cardinality(Held(slots)')
                 /\ Cardinality(Held(slots)) \in Nat
                 /\ Cardinality(Held(slots)') \in Nat
  BY HeldKept, HeldFinite
<1>2. ASSUME NEW s \in SlotIds
      PROVE  slot'[s].booked <= Cardinality(Held({s})')
  <2>1. /\ slot[s].booked \in Int
        /\ slot[s].booked <= Cardinality(Held({s}))
    BY DEF TypeOK, Slot, NoCapacityLeak
  <2> QED
    BY <1>1, <2>1
<1>3. capacityBooked' <= Cardinality(Held(SlotIds)')
  BY <1>1 DEF NoCapacityLeak, TypeOK
<1> QED
  BY <1>2, <1>3 DEF NoCapacityLeak

LEMMA SlotWriteLeaksNothing ==
    ASSUME LocksAssumption, TypeOK, NoCapacityLeak, NEW w \in Workers,
           SlotResize(w) \/ SlotCreate(w)
    PROVE  NoCapacityLeak'
<1>1. UNCHANGED <<lock, capacityBooked>>
  BY DEF SlotResize, SlotCreate
<1>2. CASE SlotResize(w)
  <2>1. \A s \in SlotIds : slot'[s].booked = slot[s].booked
    BY <1>2 DEF SlotResize, TypeOK, Slot
  <2> QED
    BY <1>1, <2>1, KeepingLeaksNothing DEF Active
<1>3. CASE SlotCreate(w)
  <2>1. \A s \in SlotIds : slot'[s].booked = slot[s].booked \/ slot'[s].booked = 0
    BY <1>3 DEF SlotCreate, TypeOK, Slot
  <2> QED
    BY <1>1, <2>1, KeepingLeaksNothing DEF Active
<1> QED
  BY <1>2, <1>3

LEMMA LockWriteLeaksNothing ==
    ASSUME LocksAssumption, TypeOK, NoCapacityLeak, NEW w \in Workers,
           ProvidersCommit(w) \/ ConfirmWrite(w)
    PROVE  NoCapacityLeak'
<1>1. UNCHANGED <<slot, capacityBooked>>
  BY DEF ProvidersCommit, ConfirmWrite
<1>2. CASE ProvidersCommit(w)
  <2>1. \A l \in LockIds : Active(l) => lock'[l] = lock[l]
    BY <1>2 DEF ProvidersCommit, Free, Active, ACTIVE_LOCK_STATUSES
  <2> QED
    BY <1>1, <2>1, KeepingLeaksNothing DEF Active
<1>3. CASE ConfirmWrite(w)
  <2>1. ASSUME NEW l \in LockIds, Active(l)
        PROVE  /\ Active(l)'
               /\ lock'[l].slot = lock[l].slot
               /\ lock'[l].count = lock[l].count
    <3>1. lock[l] \in Lock
      BY DEF TypeOK
    <3>2. lock'[l] = lock[l] \/ lock'[l] = [lock[l] EXCEPT !.status = "CONFIRMED"]
      BY <1>3 DEF ConfirmWrite, WithStatus
    <3> QED
      BY <2>1, <3>1, <3>2 DEF Active, ACTIVE_LOCK_STATUSES, Lock
  <2> QED
    BY <1>1, <2>1, KeepingLeaksNothing
<1> QED
  BY <1>2, <1>3

LEMMA LeakStep ==
    ASSUME LocksAssumption
    PROVE  TypeOK /\ NoCapacityLeak /\ [Next]_vars => NoCapacityLeak'
<1> SUFFICES ASSUME TypeOK, NoCapacityLeak, [Next]_vars PROVE NoCapacityLeak'
  OBVIOUS
<1>1. ASSUME UNCHANGED <<slot, capacityBooked, lock>> PROVE NoCapacityLeak'
  BY <1>1, KeepingLeaksNothing DEF Active
<1>2. ASSUME NEW w \in Workers, Start(w) PROVE NoCapacityLeak'
  BY <1>1, <1>2 DEF Start, SlotFind, ProvidersRead, ConfirmRead, ReleaseRead,
                    tables
<1>3. ASSUME NEW w \in Workers, Continue(w) PROVE NoCapacityLeak'
  <2>1. CASE SlotCheck(w)
    BY <1>1, <2>1 DEF SlotCheck, tables
  <2> QED
    BY <1>3, <2>1, SlotWriteLeaksNothing, CommitLeaksNothing,
       LockWriteLeaksNothing, ReleaseLeaksNothing DEF Continue
<1>4. ASSUME NEW w \in Workers, ExpiredRead(w) \/ Crash(w)
      PROVE  NoCapacityLeak'
  BY <1>1, <1>4 DEF ExpiredRead, Crash, tables
<1>5. CASE MembersChange \/ \E b \in Bookings : BookingMoves(b)
  BY <1>1, <1>5 DEF MembersChange, BookingMoves, tables
<1>6. CASE \E l \in LockIds : Expire(l)
  BY <1>1, <1>6 DEF Expire
<1>7. CASE UNCHANGED vars
  BY <1>1, <1>7 DEF vars, tables
<1> QED
  BY <1>2, <1>3, <1>4, <1>5, <1>6, <1>7 DEF Next

LEMMA LeakInit ==
    ASSUME LocksAssumption
    PROVE  Init => NoCapacityLeak
<1> SUFFICES ASSUME Init PROVE NoCapacityLeak
  OBVIOUS
<1>1. capacityBooked = 0 /\ \A s \in SlotIds : slot[s].booked = 0
  BY DEF Init
<1>2. \A slots : Cardinality(Held(slots)) >= 0
  BY HeldFinite
<1> QED
  BY <1>1, <1>2 DEF NoCapacityLeak

\* Under every interleaving of creations, confirmations, releases, jobs and
\* crashes, no capacity stays booked that no active lock holds.
THEOREM CapacityNeverLeaks ==
    ASSUME LocksAssumption
    PROVE  Spec => []NoCapacityLeak
BY TypeInit, TypeStep, LeakInit, LeakStep, PTL DEF Spec


(***************************************************************************)
(* One request at a time the counters are exact.  What a confirmation or a *)
(* release read is still active when it writes, a slot that is not yet     *)
(* created holds nothing, and what was free of conflicts still is.  None   *)
(* of the three survives a second request.                                 *)
(***************************************************************************)
ReadIsActive ==
    \A w \in Workers : req[w].pc \in {"confirm_read", "release_read"} =>
        \A l \in req[w].locks : Active(l)

\* Locks, and requests on the way to one, name slots that exist.
NamedSlotsExist ==
    /\ \A l \in LockIds : lock[l].slot \in SlotIds => slot[lock[l].slot].window # NoWindow
    /\ \A w \in Workers :
          req[w].slot \in SlotIds => slot[req[w].slot].window # NoWindow

ClearOfConflicts ==
    \A w \in Workers : req[w].pc = "providers_clear" =>
        Conflicts(req[w].providers, req[w].booking) = {}

\* The other half of BookedIsHeld: counters count all that is held.
AllIsCounted ==
    /\ \A s \in SlotIds : Cardinality(Held({s})) <= slot[s].booked
    /\ Cardinality(Held(SlotIds)) <= capacityBooked

OneByOne == TypeOK /\ NoCapacityLeak /\ ReadIsActive /\ NamedSlotsExist /\ AllIsCounted


\* One request changes, and there is no other.
LEMMA OnlyRequest ==
    ASSUME TypeOK, \A v, w \in Workers : v = w, NEW w \in Workers, NEW r, Become(w, r)
    PROVE  \A v \in Workers : req'[v] = r
BY DEF TypeOK, Become

LEMMA HeldShrinks ==
    ASSUME LocksAssumption, NEW slots,
           \A l \in LockIds : Active(l)' /\ lock'[l].slot \in slots =>
              /\ Active(l) /\ lock[l].slot \in slots
              /\ lock'[l].count = lock[l].count
    PROVE  Cardinality(Held(slots)') <= Cardinality(Held(slots))
<1>1. Held(slots)' \subseteq Held(slots)
  BY DEF Held, Units
<1> QED
  BY <1>1, HeldFinite, MoreUnits

LEMMA CommitHoldsNoMore ==
    ASSUME LocksAssumption, TypeOK, NEW w \in Workers, LockCommit(w), NEW slots
    PROVE  Cardinality(Held(slots)')
             <= Cardinality(Held(slots)) + (IF req[w].slot \in slots THEN req[w].size ELSE 0)
<1> DEFINE r == req[w]
<1>1. PICK l \in Free : lock' = [lock EXCEPT ![l] = TeamLock(r)]
  BY DEF LockCommit
<1>2. l \in LockIds /\ r.size \in Nat
  BY <1>1, RequestFields DEF LocksAssumption, Free
<1>3. \A k \in LockIds \ {l} : lock'[k] = lock[k]
  BY <1>1 DEF TypeOK
<1>4. lock'[l].slot = r.slot /\ lock'[l].count = r.size
  BY <1>1, <1>2 DEF TypeOK, TeamLock
<1>5. CASE r.slot \notin slots
  <2>1. \A k \in LockIds : Active(k)' /\ lock'[k].slot \in slots =>
           Active(k) /\ lock[k].slot \in slots /\ lock'[k].count = lock[k].count
    BY <1>3, <1>4, <1>5 DEF Active
  <2> QED
    BY <1>5, <2>1, HeldShrinks, HeldFinite
<1>6. CASE r.slot \in slots
  <2> DEFINE new == {l} \X (1..r.size)
  <2>1. IsFiniteSet(new) /\ Cardinality(new) = r.size
    BY <1>2, IntervalUnits
  <2>2. Held(slots)' \subseteq Held(slots) \cup new
    <3> SUFFICES ASSUME NEW k \in LockIds, NEW n \in 1..MaxMembers, <<k, n>> \in Held(slots)'
                 PROVE  <<k, n>> \in Held(slots) \cup new
      BY DEF Held, Units
    <3>1. CASE k = l
      <4>1. n <= r.size
        BY <1>4, <3>1 DEF Held, Units
      <4>2. n \in 1..r.size
        BY <1>2, <4>1 DEF LocksAssumption
      <4> QED
        BY <3>1, <4>2
    <3>2. CASE k # l
      BY <1>3, <3>2 DEF Held, Units, Active
    <3> QED
      BY <3>1, <3>2
  <2>3. /\ IsFiniteSet(Held(slots) \cup new)
        /\ Cardinality(Held(slots) \cup new) =
             Cardinality(Held(slots)) + Cardinality(new) - Cardinality(Held(slots) \cap new)
    BY <2>1, HeldFinite, FS_Union
  <2>4. Cardinality(Held(slots) \cap new) \in Nat
    BY <2>1, HeldFinite, FS_Intersection, FS_CardinalityType
  <2>5. Cardinality(Held(slots)') <= Cardinality(Held(slots) \cup new)
    BY <2>2, <2>3, MoreUnits
  <2> HIDE DEF new
  <2> QED
    BY <1>2, <1>6, <2>1, <2>3, <2>4, <2>5, HeldFinite
<1> QED
  BY <1>5, <1>6

LEMMA ReleaseFrees ==
    ASSUME LocksAssumption, TypeOK, NEW w \in Workers, ReleaseWrite(w), ReadIsActive, NEW slots
    PROVE  Cardinality(Held(slots)')
             <= Cardinality(Held(slots)) - Cardinality(Units(req[w].locks, slots))
<1> DEFINE gone == Units(req[w].locks, slots)
<1>1. gone \subseteq Held(slots)
  <2>1. \A l \in req[w].locks : Active(l)
    BY DEF ReadIsActive, ReleaseWrite
  <2> QED
    BY <2>1 DEF Held, Units
<1>2. Held(slots)' \subseteq Held(slots) \ gone
  <2> SUFFICES ASSUME NEW l \in LockIds, NEW n \in 1..MaxMembers, <<l, n>> \in Held(slots)'
               PROVE  <<l, n>> \in Held(slots) \ gone
    BY DEF Held, Units
  <2>0. lock[l] \in Lock
    BY DEF TypeOK
  <2>1. l \notin req[w].locks
    <3> SUFFICES ASSUME l \in req[w].locks PROVE FALSE
      OBVIOUS
    <3>1. lock'[l] = [lock[l] EXCEPT !.status = "RELEASED"]
      BY DEF ReleaseWrite, WithStatus
    <3>2. lock'[l].status = "RELEASED"
      BY <2>0, <3>1 DEF Lock
    <3>3. Active(l)'
      BY DEF Held, Units
    <3> QED
      BY <3>2, <3>3 DEF Active, ACTIVE_LOCK_STATUSES
  <2>2. lock'[l] = lock[l]
    BY <2>1 DEF ReleaseWrite, WithStatus
  <2> QED
    BY <2>1, <2>2 DEF Held, Units, Active
<1>3. IsFiniteSet(gone) /\ Cardinality(gone) \in Nat
  BY <1>1, HeldFinite, FS_Subset, FS_CardinalityType
<1>4. /\ IsFiniteSet(Held(slots) \ gone)
      /\ Cardinality(Held(slots) \ gone)
           = Cardinality(Held(slots)) - Cardinality(Held(slots) \cap gone)
  BY HeldFinite, FS_Difference
<1>5. Held(slots) \cap gone = gone
  BY <1>1
<1>6. Cardinality(Held(slots)') <= Cardinality(Held(slots) \ gone)
  BY <1>2, <1>4, MoreUnits
<1> QED
  BY <1>4, <1>5, <1>6

\* A step that activates no lock and lowers no counter of a slot in use still counts all.
LEMMA KeepingCountsAll ==
    ASSUME LocksAssumption, TypeOK, AllIsCounted, UNCHANGED capacityBooked,
           \A l \in LockIds : Active(l)' /\ lock'[l].slot \in SlotIds =>
              /\ Active(l)
              /\ lock'[l].slot = lock[l].slot /\ lock'[l].count = lock[l].count,
           \A s \in SlotIds : \/ slot'[s].booked = slot[s].booked
                              \/ slot'[s].booked = 0 /\ \A l \in LockIds : lock[l].slot # s
    PROVE  AllIsCounted'
<1>1. ASSUME NEW slots, slots \subseteq SlotIds
      PROVE  /\ Cardinality(Held(slots)') <= Cardinality(Held(slots))
             /\ Cardinality(Held(slots)) \in Nat /\ Cardinality(Held(slots)') \in Nat
  BY <1>1, HeldShrinks, HeldFinite
<1>2. ASSUME NEW s \in SlotIds
      PROVE  Cardinality(Held({s})') <= slot'[s].booked
  <2>1. /\ Cardinality(Held({s})') <= Cardinality(Held({s}))
        /\ Cardinality(Held({s})) \in Nat /\ Cardinality(Held({s})') \in Nat
    BY <1>1
  <2>2. slot[s].booked \in Int /\ Cardinality(Held({s})) <= slot[s].booked
    BY DEF TypeOK, Slot, AllIsCounted
  <2>3. CASE slot'[s].booked = slot[s].booked
    BY <2>1, <2>2, <2>3
  <2>4. CASE slot'[s].booked = 0 /\ \A l \in LockIds : lock[l].slot # s
    <3>1. Held({s}) = {}
      BY <2>4 DEF Held, Units
    <3>2. Cardinality(Held({s})) = 0
      BY <3>1, FS_EmptySet
    <3> QED
      BY <2>1, <2>4, <3>2
  <2> QED
    BY <2>3, <2>4
<1>3. Cardinality(Held(SlotIds)') <= capacityBooked'
  BY <1>1 DEF AllIsCounted, TypeOK
<1> QED
  BY <1>2, <1>3 DEF AllIsCounted

LEMMA CommitCountsAll ==
    ASSUME LocksAssumption, OneByOne, NEW w \in Workers, LockCommit(w)
    PROVE  AllIsCounted'
<1> DEFINE r == req[w]
<1>1. TypeOK /\ r.slot \in SlotIds /\ r.size \in Nat
  BY RequestFields DEF LocksAssumption, OneByOne, LockCommit
<1>2. ASSUME NEW s \in SlotIds
      PROVE  Cardinality(Held({s})') <= slot'[s].booked
  <2>1. /\ slot[s].booked \in Int
        /\ Cardinality(Held({s})) <= slot[s].booked
    BY DEF OneByOne, TypeOK, Slot, AllIsCounted
  <2>2. CASE s = r.slot
    <3>1. slot'[s].booked = slot[s].booked + r.size
      BY <1>1, <2>2 DEF LockCommit, TypeOK, Slot
    <3>2. Cardinality(Held({s})') <= Cardinality(Held({s})) + r.size
      BY <1>1, <2>2, CommitHoldsNoMore
    <3> QED
      BY <1>1, <2>1, <3>1, <3>2, HeldFinite
  <2>3. CASE s # r.slot
    <3>1. slot'[s] = slot[s]
      BY <1>1, <2>3 DEF LockCommit, TypeOK
    <3>2. Cardinality(Held({s})') <= Cardinality(Held({s})) + 0
      BY <1>1, <2>3, CommitHoldsNoMore
    <3> QED
      BY <2>1, <3>1, <3>2, HeldFinite
  <2> QED
    BY <2>2, <2>3
<1>3. Cardinality(Held(SlotIds)') <= capacityBooked'
  <2>1. capacityBooked \in Int /\ Cardinality(Held(SlotIds)) <= capacityBooked
    BY DEF OneByOne, TypeOK, AllIsCounted
  <2>2. capacityBooked' = capacityBooked + r.size
    BY DEF LockCommit
  <2>3. Cardinality(Held(SlotIds)') <= Cardinality(Held(SlotIds)) + r.size
    BY <1>1, CommitHoldsNoMore
  <2> QED
    BY <1>1, <2>1, <2>2, <2>3, HeldFinite
<1> QED
  BY <1>2, <1>3 DEF AllIsCounted

LEMMA ReleaseCountsAll ==
    ASSUME LocksAssumption, OneByOne, NEW w \in Workers, ReleaseWrite(w)
    PROVE  AllIsCounted'
<1> DEFINE gone(slots) == Cardinality(Units(req[w].locks, slots))
<1>1. \A slots : gone(slots) \in Nat
  <2> TAKE slots
  <2>1. Units(req[w].locks, slots) \subseteq LockIds \X (1..MaxMembers)
    BY DEF Units
  <2> QED
    BY <2>1, UnitsFinite
<1>2. ASSUME NEW s \in SlotIds
      PROVE  Cardinality(Held({s})') <= slot'[s].booked
  <2>1. /\ slot[s].booked \in Int
        /\ Cardinality(Held({s})) <= slot[s].booked
    BY DEF OneByOne, TypeOK, Slot, AllIsCounted
  <2>2. slot'[s].booked = slot[s].booked - gone({s})
    BY DEF ReleaseWrite, OneByOne, TypeOK, Slot
  <2>3. Cardinality(Held({s})') <= Cardinality(Held({s})) - gone({s})
    BY ReleaseFrees DEF OneByOne
  <2> HIDE DEF gone
  <2> QED
    BY <1>1, <2>1, <2>2, <2>3, HeldFinite
<1>3. Cardinality(Held(SlotIds)') <= capacityBooked'
  <2>1. capacityBooked \in Int /\ Cardinality(Held(SlotIds)) <= capacityBooked
    BY DEF OneByOne, TypeOK, AllIsCounted
  <2>2. capacityBooked' = capacityBooked - gone(SlotIds)
    BY DEF ReleaseWrite
  <2>3. Cardinality(Held(SlotIds)') <= Cardinality(Held(SlotIds)) - gone(SlotIds)
    BY ReleaseFrees DEF OneByOne
  <2> HIDE DEF gone
  <2> QED
    BY <1>1, <2>1, <2>2, <2>3, HeldFinite
<1> QED
  BY <1>2, <1>3 DEF AllIsCounted

\* What a confirmation writes was active, so it adds nothing to what is held.
LEMMA ConfirmWrites ==
    ASSUME TypeOK, ReadIsActive, NEW w \in Workers, ConfirmWrite(w), NEW l \in LockIds
    PROVE  /\ Active(l)' <=> Active(l)
           /\ lock'[l].slot = lock[l].slot /\ lock'[l].count = lock[l].count
           /\ lock'[l].providers = lock[l].providers /\ lock'[l].booking = lock[l].booking
<1>1. lock[l] \in Lock
  BY DEF TypeOK
<1>2. CASE l \in req[w].locks
  <2>1. Active(l) /\ lock'[l] = [lock[l] EXCEPT !.status = "CONFIRMED"]
    BY <1>2 DEF ConfirmWrite, WithStatus, ReadIsActive
  <2> QED
    BY <1>1, <2>1 DEF Active, ACTIVE_LOCK_STATUSES, Lock
<1>3. CASE l \notin req[w].locks
  BY <1>3 DEF ConfirmWrite, WithStatus, Active
<1> QED
  BY <1>2, <1>3

\* A provider's lock names no slot.
LEMMA ProvidersWrite ==
    ASSUME NEW w \in Workers, ProvidersCommit(w), NEW l \in LockIds
    PROVE  \/ lock'[l] = lock[l]
           \/ /\ l \in Free
              /\ lock'[l].slot = NoSlot /\ lock'[l].booking = req[w].booking
              /\ lock'[l].providers \subseteq req[w].providers
<1>1. CASE lock' = lock
  BY <1>1
<1>2. ASSUME NEW rows \in SUBSET Free, NEW who \in Bijection(rows, req[w].providers),
             lock' = [k \in LockIds |->
                        IF k \in rows
                        THEN [booking |-> req[w].booking, slot |-> NoSlot,
                              providers |-> {who[k]}, count |-> 1, status |-> "HELD"]
                        ELSE lock[k]]
      PROVE  \/ lock'[l] = lock[l]
             \/ /\ l \in Free
                /\ lock'[l].slot = NoSlot /\ lock'[l].booking = req[w].booking
                /\ lock'[l].providers \subseteq req[w].providers
  <2>1. \A k \in rows : who[k] \in req[w].providers
    BY <1>2 DEF Bijection, Injection, Surjection, IsInjective
  <2>2. CASE l \in rows
    BY <1>2, <2>1, <2>2
  <2>3. CASE l \notin rows
    BY <1>2, <2>3
  <2> QED
    BY <2>2, <2>3
<1> QED
  BY <1>1, <1>2 DEF ProvidersCommit

LEMMA AllStaysCounted ==
    ASSUME LocksAssumption, OneByOne, [Next]_vars
    PROVE  AllIsCounted'
<1>t. TypeOK /\ AllIsCounted /\ ReadIsActive /\ NoSlot \notin SlotIds
  BY DEF LocksAssumption, OneByOne
<1>1. ASSUME UNCHANGED <<slot, capacityBooked, lock>>
      PROVE  AllIsCounted'
  BY <1>t, <1>1, KeepingCountsAll DEF Active
<1>2. ASSUME NEW w \in Workers, SlotResize(w)
      PROVE  AllIsCounted'
  <2>1. \A s \in SlotIds : slot'[s].booked = slot[s].booked
    BY <1>t, <1>2 DEF SlotResize, TypeOK, Slot
  <2>2. UNCHANGED <<lock, capacityBooked>>
    BY <1>2 DEF SlotResize
  <2> QED
    BY <1>t, <2>1, <2>2, KeepingCountsAll DEF Active
<1>3. ASSUME NEW w \in Workers, SlotCreate(w)
      PROVE  AllIsCounted'
  <2>1. PICK n \in SlotIds :
          /\ slot[n].window = NoWindow
          /\ slot' = [slot EXCEPT ![n] = [window |-> WindowOf[req[w].booking],
                                          capacity |-> req[w].members, booked |-> 0]]
    BY <1>3 DEF SlotCreate
  <2>2. slot'[n].booked = 0 /\ \A s \in SlotIds \ {n} : slot'[s] = slot[s]
    BY <1>t, <2>1 DEF TypeOK
  <2>3. \A l \in LockIds : lock[l].slot # n
    BY <2>1 DEF OneByOne, NamedSlotsExist
  <2>4. UNCHANGED <<lock, capacityBooked>>
    BY <1>3 DEF SlotCreate
  <2>5. \A s \in SlotIds : \/ slot'[s].booked = slot[s].booked
                           \/ slot'[s].booked = 0 /\ \A l \in LockIds : lock[l].slot # s
    BY <2>2, <2>3
  <2> QED
    BY <1>t, <2>4, <2>5, KeepingCountsAll DEF Active
<1>4. ASSUME NEW w \in Workers, ProvidersCommit(w)
      PROVE  AllIsCounted'
  <2>1. \A l \in LockIds : lock'[l].slot \in SlotIds => lock'[l] = lock[l]
    BY <1>t, <1>4, ProvidersWrite
  <2>2. UNCHANGED <<slot, capacityBooked>>
    BY <1>4 DEF ProvidersCommit
  <2> QED
    BY <1>t, <2>1, <2>2, KeepingCountsAll DEF Active
<1>5. ASSUME NEW w \in Workers, ConfirmWrite(w)
      PROVE  AllIsCounted'
  <2>1. UNCHANGED <<slot, capacityBooked>>
    BY <1>5 DEF ConfirmWrite
  <2>2. \A l \in LockIds : Active(l)' => /\ Active(l)
                                         /\ lock'[l].slot = lock[l].slot
                                         /\ lock'[l].count = lock[l].count
    BY <1>t, <1>5, ConfirmWrites
  <2> QED
    BY <1>t, <2>1, <2>2, KeepingCountsAll
<1>6. ASSUME NEW w \in Workers, Start(w) \/ SlotCheck(w) \/ ExpiredRead(w) \/ Crash(w)
      PROVE  UNCHANGED <<slot, capacityBooked, lock>>
  BY <1>6 DEF Start, SlotFind, ProvidersRead, ConfirmRead, ReleaseRead, SlotCheck,
              ExpiredRead, Crash, tables
<1>7. MembersChange \/ (\E b \in Bookings : BookingMoves(b)) \/ (\E l \in LockIds : Expire(l))
        \/ UNCHANGED vars
      => UNCHANGED <<slot, capacityBooked, lock>>
  BY DEF MembersChange, BookingMoves, Expire, vars, tables
<1> QED
  BY <1>1, <1>2, <1>3, <1>4, <1>5, <1>6, <1>7, CommitCountsAll, ReleaseCountsAll
     DEF Next, Continue

\* What a request may become: it names a slot that exists, and reads active locks.
LEMMA RequestKnows ==
    ASSUME OneByOne, \A v, w \in Workers : v = w, NEW w \in Workers, NEW r, Become(w, r),
           \A s \in SlotIds : slot[s].window # NoWindow => slot'[s].window # NoWindow,
           \A l \in LockIds : lock'[l].slot \in SlotIds =>
              lock'[l].slot = lock[l].slot \/ lock'[l].slot = req[w].slot,
           r.slot \in SlotIds => slot'[r.slot].window # NoWindow,
           r.pc \in {"confirm_read", "release_read"} => \A l \in r.locks : Active(l)'
    PROVE  ReadIsActive' /\ NamedSlotsExist'
<1>1. \A v \in Workers : req'[v] = r
  BY OnlyRequest DEF OneByOne
<1>2. ReadIsActive'
  BY <1>1 DEF ReadIsActive
<1> QED
  BY <1>1, <1>2 DEF OneByOne, NamedSlotsExist

LEMMA FinishKnows ==
    ASSUME LocksAssumption, OneByOne, \A v, w \in Workers : v = w, NEW w \in Workers, Finish(w),
           \A s \in SlotIds : slot[s].window # NoWindow => slot'[s].window # NoWindow,
           \A l \in LockIds : lock'[l].slot \in SlotIds =>
              lock'[l].slot = lock[l].slot \/ lock'[l].slot = req[w].slot
    PROVE  ReadIsActive' /\ NamedSlotsExist'
<1>1. Idle.pc = "idle" /\ Idle.slot \notin SlotIds
  BY DEF LocksAssumption, Idle
<1> HIDE DEF Idle
<1> QED
  BY <1>1, RequestKnows DEF Finish

\* A request that is given head room, and one that is refused it.
LEMMA HeadroomKnows ==
    ASSUME LocksAssumption, OneByOne, \A v, w \in Workers : v = w, NEW w \in Workers,
           NEW r \in Request, NEW h, WithHeadroom(w, r, h),
           UNCHANGED lock,
           \A s \in SlotIds : slot[s].window # NoWindow => slot'[s].window # NoWindow,
           slot'[r.slot].window # NoWindow
    PROVE  ReadIsActive' /\ NamedSlotsExist'
<1>1. CASE h <= 0
  BY <1>1, FinishKnows DEF WithHeadroom, Finish
<1>2. CASE ~ (h <= 0)
  <2> DEFINE q == [r EXCEPT !.pc = "slot_ready", !.size = Smaller(r.size, h)]
  <2>1. Become(w, q)
    BY <1>2 DEF WithHeadroom
  <2>2. q.pc = "slot_ready" /\ q.slot = r.slot
    BY DEF Request
  <2> HIDE DEF q
  <2> QED
    BY <2>1, <2>2, RequestKnows
<1> QED
  BY <1>1, <1>2

LEMMA SlotsKnow ==
    ASSUME LocksAssumption, OneByOne, \A v, w \in Workers : v = w, NEW w \in Workers,
           \/ \E b \in Bookings, n \in 1..MaxMembers : SlotFind(w, b, n)
           \/ SlotResize(w) \/ SlotCreate(w)
    PROVE  ReadIsActive' /\ NamedSlotsExist'
<1>t. TypeOK /\ NoSlot \notin SlotIds /\ \A b \in Bookings : WindowOf[b] # NoWindow
  BY DEF LocksAssumption, OneByOne
<1>1. ASSUME NEW b \in Bookings, NEW n \in 1..MaxMembers, SlotFind(w, b, n)
      PROVE  ReadIsActive' /\ NamedSlotsExist'
  <2> DEFINE r == Seeking(b, n)
             at(s) == [r EXCEPT !.slot = s]
  <2>0. UNCHANGED <<slot, lock>>
    BY <1>1 DEF SlotFind, tables
  <2>1. r \in Request /\ r.slot = NoSlot /\ r.pc = "slot_sought"
    <3>1. n \in 0..MaxMembers /\ available \in 0..MaxMembers
      BY <1>t DEF LocksAssumption, TypeOK
    <3> QED
      BY <3>1 DEF Seeking, Request, Phases
  <2>2. ASSUME NEW s \in SlotsFor(b)
        PROVE  /\ at(s) \in Request /\ at(s).slot = s /\ at(s).pc = "slot_sought"
               /\ s \in SlotIds /\ slot[s].window # NoWindow
    BY <1>t, <2>1 DEF SlotsFor, Request
  <2>3. CASE Become(w, r)
    <3> HIDE DEF r
    <3> QED
      BY <1>t, <2>0, <2>1, <2>3, RequestKnows
  <2>4. ASSUME NEW s \in SlotsFor(b), Become(w, at(s))
        PROVE  ReadIsActive' /\ NamedSlotsExist'
    <3> HIDE DEF at, r
    <3> QED
      BY <2>0, <2>2, <2>4, RequestKnows
  <2>5. ASSUME NEW s \in SlotsFor(b), NEW h, WithHeadroom(w, at(s), h)
        PROVE  ReadIsActive' /\ NamedSlotsExist'
    <3> HIDE DEF at, r
    <3> QED
      BY <2>0, <2>2, <2>5, HeadroomKnows
  <2> QED
    BY <1>1, <2>3, <2>4, <2>5 DEF SlotFind
<1>2. CASE SlotResize(w)
  <2>1. req[w] \in Request /\ req[w].slot \in SlotIds
    BY <1>t, <1>2, RequestFields DEF SlotResize
  <2>2. slot[req[w].slot].window # NoWindow
    BY <2>1 DEF OneByOne, NamedSlotsExist
  <2>3. UNCHANGED lock /\ \A s \in SlotIds : slot'[s].window = slot[s].window
    BY <1>t, <1>2 DEF SlotResize, TypeOK, Slot
  <2> QED
    BY <1>2, <2>1, <2>2, <2>3, HeadroomKnows DEF SlotResize
<1>3. CASE SlotCreate(w)
  <2> DEFINE at(s) == [req[w] EXCEPT !.slot = s]
  <2>1. req[w] \in Request /\ req[w].booking \in Bookings
    BY <1>t, <1>3, RequestFields DEF SlotCreate
  <2>2. PICK s \in SlotIds :
          /\ slot[s].window = NoWindow
          /\ slot' = [slot EXCEPT ![s] = [window |-> WindowOf[req[w].booking],
                                          capacity |-> req[w].members, booked |-> 0]]
          /\ WithHeadroom(w, at(s), req[w].members)
    BY <1>3 DEF SlotCreate
  <2>3. at(s) \in Request /\ at(s).slot = s
    BY <1>3, <2>1 DEF SlotCreate, Request
  <2>4. /\ UNCHANGED lock /\ slot'[s].window = WindowOf[req[w].booking]
        /\ \A n \in SlotIds \ {s} : slot'[n] = slot[n]
    BY <1>t, <1>3, <2>2 DEF SlotCreate, TypeOK
  <2> HIDE DEF at
  <2> QED
    BY <1>t, <2>1, <2>2, <2>3, <2>4, HeadroomKnows
<1> QED
  BY <1>1, <1>2, <1>3

LEMMA LocksKnow ==
    ASSUME LocksAssumption, OneByOne, \A v, w \in Workers : v = w, NEW w \in Workers,
           \/ SlotCheck(w) \/ LockCommit(w) \/ ProvidersCommit(w)
           \/ ConfirmWrite(w) \/ ReleaseWrite(w) \/ Crash(w)
    PROVE  ReadIsActive' /\ NamedSlotsExist'
<1>t. TypeOK /\ NoSlot \notin SlotIds
  BY DEF LocksAssumption, OneByOne
<1>1. \A s \in SlotIds : slot[s].window # NoWindow => slot'[s].window # NoWindow
  <2>1. CASE LockCommit(w)
    BY <1>t, <2>1 DEF LockCommit, TypeOK, Slot
  <2>2. CASE ReleaseWrite(w)
    BY <1>t, <2>2 DEF ReleaseWrite, TypeOK, Slot
  <2>3. CASE SlotCheck(w) \/ ProvidersCommit(w) \/ ConfirmWrite(w) \/ Crash(w)
    BY <2>3 DEF SlotCheck, ProvidersCommit, ConfirmWrite, Crash, tables
  <2> QED
    BY <2>1, <2>2, <2>3
<1>2. CASE SlotCheck(w)
  <2> DEFINE q == [req[w] EXCEPT !.pc = "slot_checked"]
  <2>1. UNCHANGED <<slot, lock>> /\ (Become(w, Idle) \/ Become(w, q))
    BY <1>2 DEF SlotCheck, tables
  <2>2. q.pc = "slot_checked" /\ q.slot = req[w].slot
    BY <1>t, RequestFields DEF Request
  <2>3. req[w].slot \in SlotIds => slot[req[w].slot].window # NoWindow
    BY DEF OneByOne, NamedSlotsExist
  <2>4. CASE Become(w, q)
    <3> HIDE DEF q
    <3> QED
      BY <2>1, <2>2, <2>3, <2>4, RequestKnows
  <2>5. CASE Become(w, Idle)
    BY <2>1, <2>5, FinishKnows DEF Finish
  <2> QED
    BY <2>1, <2>4, <2>5
<1>3. CASE LockCommit(w)
  <2>1. PICK l \in Free : lock' = [lock EXCEPT ![l] = TeamLock(req[w])]
    BY <1>3 DEF LockCommit
  <2>2. \A k \in LockIds : lock'[k].slot = lock[k].slot \/ lock'[k].slot = req[w].slot
    BY <1>t, <2>1 DEF TypeOK, TeamLock
  <2>3. Finish(w)
    BY <1>3 DEF LockCommit
  <2> QED
    BY <1>1, <2>2, <2>3, FinishKnows
<1>4. CASE ProvidersCommit(w)
  <2>1. \A l \in LockIds : lock'[l].slot \in SlotIds => lock'[l].slot = lock[l].slot
    BY <1>t, <1>4, ProvidersWrite
  <2>2. Finish(w)
    BY <1>4 DEF ProvidersCommit
  <2> QED
    BY <1>1, <2>1, <2>2, FinishKnows
<1>5. CASE ConfirmWrite(w) \/ ReleaseWrite(w)
  <2>1. \A l \in LockIds : lock'[l].slot = lock[l].slot
    BY <1>t, <1>5 DEF ConfirmWrite, ReleaseWrite, WithStatus, TypeOK, Lock
  <2>2. Finish(w)
    BY <1>5 DEF ConfirmWrite, ReleaseWrite
  <2> QED
    BY <1>1, <2>1, <2>2, FinishKnows
<1>6. CASE Crash(w)
  <2>1. Finish(w) /\ UNCHANGED lock
    BY <1>6 DEF Crash, tables
  <2> QED
    BY <1>1, <2>1, FinishKnows
<1> QED
  BY <1>2, <1>3, <1>4, <1>5, <1>6

\* The three requests that read before they write.
LEMMA ReadsKnow ==
    ASSUME LocksAssumption, OneByOne, \A v, w \in Workers : v = w, NEW w \in Workers,
           \/ \E b \in Bookings, ps \in SUBSET LockProviders : ProvidersRead(w, b, ps)
           \/ \E b \in Bookings, ids \in SUBSET LockIds :
                 ConfirmRead(w, b, ids) \/ ReleaseRead(w, b, ids)
           \/ ExpiredRead(w)
    PROVE  ReadIsActive' /\ NamedSlotsExist'
<1> DEFINE reading(pc, locks) == [Idle EXCEPT !.pc = pc, !.locks = locks]
<1>t. NoSlot \notin SlotIds /\ Idle.slot = NoSlot
  BY DEF LocksAssumption, Idle
<1>0. UNCHANGED <<slot, lock>>
  BY DEF ProvidersRead, ConfirmRead, ReleaseRead, ExpiredRead, tables
<1>1. ASSUME NEW pc, NEW locks, Become(w, reading(pc, locks)), \A l \in locks : Active(l)
      PROVE  ReadIsActive' /\ NamedSlotsExist'
  <2>1. reading(pc, locks).slot = NoSlot /\ reading(pc, locks).locks = locks
    BY DEF Idle
  <2> HIDE DEF reading
  <2> QED
    BY <1>0, <1>1, <1>t, <2>1, RequestKnows DEF Active
<1>2. ASSUME NEW b \in Bookings, NEW ps \in SUBSET LockProviders, ProvidersRead(w, b, ps)
      PROVE  ReadIsActive' /\ NamedSlotsExist'
  <2> DEFINE q == [Idle EXCEPT !.pc = "providers_clear", !.booking = b, !.providers = ps]
  <2>1. Become(w, q) /\ q.slot = NoSlot /\ q.pc = "providers_clear"
    BY <1>2 DEF ProvidersRead, Idle
  <2> HIDE DEF q
  <2> QED
    BY <1>0, <1>t, <2>1, RequestKnows
<1>3. ASSUME NEW b \in Bookings, NEW ids \in SUBSET LockIds, ConfirmRead(w, b, ids)
      PROVE  ReadIsActive' /\ NamedSlotsExist'
  <2> DEFINE held == ids \cap LocksOf(b, {"HELD"})
  <2>1. Become(w, reading("confirm_read", held))
    BY <1>3 DEF ConfirmRead
  <2>2. \A l \in held : Active(l)
    BY DEF LocksOf, Active, ACTIVE_LOCK_STATUSES
  <2> HIDE DEF reading, held
  <2> QED
    BY <1>1, <2>1, <2>2
<1>4. ASSUME NEW b \in Bookings, NEW ids \in SUBSET LockIds, ReleaseRead(w, b, ids)
      PROVE  ReadIsActive' /\ NamedSlotsExist'
  <2> DEFINE active == ids \cap LocksOf(b, ACTIVE_LOCK_STATUSES)
  <2>1. Become(w, reading("release_read", active))
    BY <1>4 DEF ReleaseRead
  <2>2. \A l \in active : Active(l)
    BY DEF LocksOf, Active
  <2> HIDE DEF reading, active
  <2> QED
    BY <1>1, <2>1, <2>2
<1>5. CASE ExpiredRead(w)
  <2>1. PICK locks \in SUBSET ExpiredLocks : Become(w, reading("release_read", locks))
    BY <1>5 DEF ExpiredRead
  <2>2. \A l \in locks : Active(l)
    BY DEF ExpiredLocks
  <2> HIDE DEF reading
  <2> QED
    BY <1>1, <2>1, <2>2
<1> QED
  BY <1>2, <1>3, <1>4, <1>5

LEMMA OneByOneStays ==
    ASSUME LocksAssumption, OneByOne, \A v, w \in Workers : v = w, [Next]_vars
    PROVE  OneByOne'
<1>1. TypeOK' /\ NoCapacityLeak' /\ AllIsCounted'
  BY TypeStep, LeakStep, AllStaysCounted DEF OneByOne
<1>2. ASSUME NEW w \in Workers, Start(w) \/ Continue(w) \/ ExpiredRead(w) \/ Crash(w)
      PROVE  ReadIsActive' /\ NamedSlotsExist'
  BY <1>2, SlotsKnow, LocksKnow, ReadsKnow DEF Start, Continue
<1>3. ASSUME UNCHANGED <<slot, lock, req>>
      PROVE  ReadIsActive' /\ NamedSlotsExist'
  BY <1>3 DEF OneByOne, ReadIsActive, NamedSlotsExist, Active
<1>4. MembersChange \/ (\E b \in Bookings : BookingMoves(b)) \/ (\E l \in LockIds : Expire(l))
        \/ UNCHANGED vars
      => UNCHANGED <<slot, lock, req>>
  BY DEF MembersChange, BookingMoves, Expire, vars, tables
<1>5. ReadIsActive' /\ NamedSlotsExist'
  BY <1>2, <1>3, <1>4 DEF Next
<1> QED
  BY <1>1, <1>5 DEF OneByOne

LEMMA OneByOneHolds ==
    ASSUME LocksAssumption, \A v, w \in Workers : v = w
    PROVE  Spec => []OneByOne
<1>1. Init => OneByOne
  <2> SUFFICES ASSUME Init PROVE OneByOne
    OBVIOUS
  <2>1. TypeOK /\ NoCapacityLeak
    BY TypeInit, LeakInit
  <2>2. ReadIsActive /\ NamedSlotsExist
    BY DEF LocksAssumption, Init, Idle, NoLock, ReadIsActive, NamedSlotsExist
  <2>3. \A slots : Held(slots) = {}
    BY DEF Init, NoLock, Held, Units, Active, ACTIVE_LOCK_STATUSES
  <2>4. AllIsCounted
    BY <2>3, FS_EmptySet DEF Init, AllIsCounted
  <2> QED
    BY <2>1, <2>2, <2>4 DEF OneByOne
<1> QED
  BY <1>1, OneByOneStays, PTL DEF Spec

\* One request at a time, a slot and the plan count as booked what active locks hold,
\* neither more nor less, however locks are confirmed, released, expired and resized.
THEOREM CountersAreExact ==
    ASSUME LocksAssumption, \A v, w \in Workers : v = w
    PROVE  Spec => []BookedIsHeld
<1>1. OneByOne => BookedIsHeld
  <2> SUFFICES ASSUME OneByOne PROVE BookedIsHeld
    OBVIOUS
  <2>1. capacityBooked \in Int /\ \A s \in SlotIds : slot[s].booked \in Int
    BY DEF OneByOne, TypeOK, Slot
  <2>2. \A slots : Cardinality(Held(slots)) \in Nat
    BY HeldFinite
  <2> QED
    BY <2>1, <2>2 DEF OneByOne, NoCapacityLeak, AllIsCounted, BookedIsHeld
<1> QED
  BY <1>1, OneByOneHolds, PTL

(***************************************************************************)
(* Nobody is locked for two bookings that overlap: what the request looked *)
(* for before it locks is still not there when it does.                    *)
(***************************************************************************)
ActiveAreBooked == \A l \in LockIds : Active(l) => lock[l].booking \in Bookings

LockedOnce == OneByOne /\ ActiveAreBooked /\ ProviderLockedOnce /\ ClearOfConflicts

\* No active lock of a provider but those there were leaves nobody locked twice.
LEMMA NoNewConflicts ==
    ASSUME LockedOnce, UNCHANGED req \/ \A w \in Workers : req'[w].pc # "providers_clear",
           \A l \in LockIds : Active(l)' =>
              \/ /\ Active(l) /\ lock'[l].booking = lock[l].booking
                 /\ lock'[l].providers = lock[l].providers
              \/ lock'[l].booking \in Bookings /\ lock'[l].providers = {}
    PROVE  ActiveAreBooked' /\ ProviderLockedOnce' /\ ClearOfConflicts'
<1>1. ProviderLockedOnce'
  BY DEF LockedOnce, ProviderLockedOnce, OverlapsBooking
<1>2. ClearOfConflicts'
  BY DEF LockedOnce, ClearOfConflicts, Conflicts, OverlapsBooking
<1>3. ActiveAreBooked'
  BY DEF LockedOnce, ActiveAreBooked
<1> QED
  BY <1>1, <1>2, <1>3

LEMMA ProvidersCommitOnce ==
    ASSUME LocksAssumption,
           LockedOnce, \A v, w \in Workers : v = w, NEW w \in Workers, ProvidersCommit(w)
    PROVE  ActiveAreBooked' /\ ProviderLockedOnce' /\ ClearOfConflicts'
<1> DEFINE r == req[w]
<1>t. TypeOK
  BY DEF LockedOnce, OneByOne
<1>1. r.booking \in Bookings /\ WindowOf[r.booking] \in Windows
  BY <1>t, RequestFields DEF LocksAssumption, ProvidersCommit, TypeOK, Request
<1>2. \A l \in LockIds : Active(l) /\ lock[l].providers \cap r.providers # {}
        => ~ OverlapsBooking(l, r.booking)
  BY DEF LockedOnce, ClearOfConflicts, Conflicts, ProvidersCommit
<1>3. \A v \in Workers : req'[v].pc = "idle"
  <2>1. Finish(w)
    BY DEF ProvidersCommit
  <2>2. \A v \in Workers : req'[v] = Idle
    BY <1>t, <2>1, OnlyRequest DEF Finish
  <2> QED
    BY <2>2 DEF Idle
<1>4. ASSUME NEW k \in LockIds, NEW l \in LockIds, Active(k)', Active(l)',
             lock'[k].providers \cap lock'[l].providers # {},
             OverlapsBooking(k, lock[l].booking)'
      PROVE  FALSE
  <2> DEFINE a == lock'[k].booking
             b == lock'[l].booking
  <2>1. a \in Bookings /\ a # b /\ <<WindowOf[a], WindowOf[b]>> \in Overlaps
    BY <1>4 DEF OverlapsBooking
  <2>2. /\ lock'[k] = lock[k] \/ (a = r.booking /\ lock'[k].providers \subseteq r.providers)
        /\ lock'[l] = lock[l] \/ (b = r.booking /\ lock'[l].providers \subseteq r.providers)
    BY ProvidersWrite
  <2>3. CASE lock'[k] = lock[k] /\ lock'[l] = lock[l]
    BY <1>4, <2>3 DEF LockedOnce, ProviderLockedOnce, Active, OverlapsBooking
  <2>4. CASE lock'[k] = lock[k] /\ b = r.booking /\ lock'[l].providers \subseteq r.providers
    <3>1. Active(k) /\ lock[k].providers \cap r.providers # {}
      BY <1>4, <2>4 DEF Active
    <3>2. OverlapsBooking(k, r.booking)
      BY <2>1, <2>4 DEF OverlapsBooking
    <3> QED
      BY <1>2, <3>1, <3>2
  <2>5. CASE a = r.booking /\ lock'[k].providers \subseteq r.providers /\ lock'[l] = lock[l]
    <3>1. Active(l) /\ lock[l].providers \cap r.providers # {}
      BY <1>4, <2>5 DEF Active
    <3>2. b \in Bookings
      BY <2>5, <3>1 DEF LockedOnce, ActiveAreBooked
    <3>3. <<WindowOf[b], WindowOf[a]>> \in Overlaps
      BY <2>1, <3>2 DEF LocksAssumption
    <3>4. OverlapsBooking(l, r.booking)
      BY <2>1, <2>5, <3>2, <3>3 DEF OverlapsBooking
    <3> QED
      BY <1>2, <3>1, <3>4
  <2>6. CASE a = r.booking /\ b = r.booking
    BY <2>1, <2>6
  <2> QED
    BY <2>2, <2>3, <2>4, <2>5, <2>6
<1>5. ProviderLockedOnce'
  BY <1>4 DEF ProviderLockedOnce
<1>6. ActiveAreBooked'
  BY <1>1, ProvidersWrite DEF LockedOnce, ActiveAreBooked, Active
<1> QED
  BY <1>3, <1>5, <1>6 DEF ClearOfConflicts

LEMMA LockedOnceStays ==
    ASSUME LocksAssumption, LockedOnce, \A v, w \in Workers : v = w, [Next]_vars
    PROVE  LockedOnce'
<1>t. TypeOK /\ ReadIsActive
  BY DEF LockedOnce, OneByOne
<1>1. ASSUME NEW w \in Workers, NEW r, Become(w, r), r.pc # "providers_clear", UNCHANGED lock
      PROVE  ActiveAreBooked' /\ ProviderLockedOnce' /\ ClearOfConflicts'
  <2>1. \A v \in Workers : req'[v] = r
    BY <1>t, <1>1, OnlyRequest
  <2> QED
    BY <1>1, <2>1, NoNewConflicts DEF Active
<1>i. Idle.pc = "idle"
  BY DEF Idle
<1>2. ASSUME NEW w \in Workers, NEW r \in Request, NEW h, WithHeadroom(w, r, h), UNCHANGED lock
      PROVE  ActiveAreBooked' /\ ProviderLockedOnce' /\ ClearOfConflicts'
  <2> DEFINE q == [r EXCEPT !.pc = "slot_ready", !.size = Smaller(r.size, h)]
  <2>1. Become(w, Idle) \/ Become(w, q)
    BY <1>2 DEF WithHeadroom
  <2>2. q.pc = "slot_ready"
    BY DEF Request
  <2> HIDE DEF q, Idle
  <2> QED
    BY <1>1, <1>2, <1>i, <2>1, <2>2
<1>3. ASSUME NEW w \in Workers, NEW b \in Bookings, NEW n \in 1..MaxMembers, SlotFind(w, b, n)
      PROVE  ActiveAreBooked' /\ ProviderLockedOnce' /\ ClearOfConflicts'
  <2> DEFINE r == Seeking(b, n)
             at(s) == [r EXCEPT !.slot = s]
  <2>0. UNCHANGED lock
    BY <1>3 DEF SlotFind, tables
  <2>1. r \in Request /\ r.pc = "slot_sought"
    <3>1. n \in 0..MaxMembers /\ available \in 0..MaxMembers
      BY <1>t DEF LocksAssumption, TypeOK
    <3> QED
      BY <3>1 DEF Seeking, Request, Phases
  <2>2. \A s \in SlotIds : at(s) \in Request /\ at(s).pc = "slot_sought"
    BY <2>1 DEF Request
  <2>3. \/ Become(w, r)
        \/ \E s \in SlotIds : Become(w, at(s)) \/ \E h : WithHeadroom(w, at(s), h)
    BY <1>3 DEF SlotFind, SlotsFor
  <2> HIDE DEF at, r
  <2> QED
    BY <1>1, <1>2, <2>0, <2>1, <2>2, <2>3
<1>4. ASSUME NEW w \in Workers, SlotResize(w) \/ SlotCreate(w)
      PROVE  ActiveAreBooked' /\ ProviderLockedOnce' /\ ClearOfConflicts'
  <2> DEFINE at(s) == [req[w] EXCEPT !.slot = s]
  <2>1. req[w] \in Request
    BY <1>t, RequestFields
  <2>2. \A s \in SlotIds : req[w].pc = "slot_sought" => at(s) \in Request
    BY <2>1 DEF Request
  <2>3. /\ UNCHANGED lock
        /\ \/ \E h : WithHeadroom(w, req[w], h)
           \/ \E s \in SlotIds : /\ req[w].pc = "slot_sought"
                              /\ \E h : WithHeadroom(w, at(s), h)
    BY <1>4 DEF SlotResize, SlotCreate
  <2> HIDE DEF at
  <2> QED
    BY <1>2, <2>1, <2>2, <2>3
<1>5. ASSUME NEW w \in Workers, SlotCheck(w)
      PROVE  ActiveAreBooked' /\ ProviderLockedOnce' /\ ClearOfConflicts'
  <2> DEFINE q == [req[w] EXCEPT !.pc = "slot_checked"]
  <2>1. UNCHANGED lock /\ (Become(w, Idle) \/ Become(w, q))
    BY <1>5 DEF SlotCheck, tables
  <2>2. q.pc = "slot_checked"
    BY <1>t, RequestFields DEF Request
  <2> HIDE DEF q, Idle
  <2> QED
    BY <1>1, <1>i, <2>1, <2>2
<1>6. ASSUME NEW w \in Workers, Finish(w),
             \A l \in LockIds : Active(l)' =>
                \/ /\ Active(l) /\ lock'[l].booking = lock[l].booking
                   /\ lock'[l].providers = lock[l].providers
                \/ lock'[l].booking \in Bookings /\ lock'[l].providers = {}
      PROVE  ActiveAreBooked' /\ ProviderLockedOnce' /\ ClearOfConflicts'
  <2>1. \A v \in Workers : req'[v] = Idle
    BY <1>t, <1>6, OnlyRequest DEF Finish
  <2> HIDE DEF Idle
  <2> QED
    BY <1>6, <1>i, <2>1, NoNewConflicts
<1>7. ASSUME NEW w \in Workers, LockCommit(w)
      PROVE  ActiveAreBooked' /\ ProviderLockedOnce' /\ ClearOfConflicts'
  <2>1. PICK l \in Free : lock' = [lock EXCEPT ![l] = TeamLock(req[w])]
    BY <1>7 DEF LockCommit
  <2>2. /\ req[w].booking \in Bookings
        /\ TeamLock(req[w]).booking = req[w].booking /\ TeamLock(req[w]).providers = {}
    BY <1>t, <1>7, RequestFields DEF LockCommit, TeamLock
  <2>3. \A k \in LockIds : lock'[k] = lock[k] \/ lock'[k] = TeamLock(req[w])
    BY <1>t, <2>1 DEF TypeOK
  <2>4. Finish(w)
    BY <1>7 DEF LockCommit
  <2> QED
    BY <1>6, <2>2, <2>3, <2>4 DEF Active
<1>8. ASSUME NEW w \in Workers, ConfirmWrite(w)
      PROVE  ActiveAreBooked' /\ ProviderLockedOnce' /\ ClearOfConflicts'
  <2>1. \A l \in LockIds : Active(l)' => /\ Active(l)
                                         /\ lock'[l].booking = lock[l].booking
                                         /\ lock'[l].providers = lock[l].providers
    BY <1>t, <1>8, ConfirmWrites
  <2>2. Finish(w)
    BY <1>8 DEF ConfirmWrite
  <2> QED
    BY <1>6, <2>1, <2>2
<1>9. ASSUME NEW w \in Workers, ReleaseWrite(w)
      PROVE  ActiveAreBooked' /\ ProviderLockedOnce' /\ ClearOfConflicts'
  <2>1. ASSUME NEW l \in LockIds, Active(l)'
        PROVE  lock'[l] = lock[l]
    <3>1. lock[l] \in Lock
      BY <1>t DEF TypeOK
    <3>2. lock'[l] = lock[l] \/ lock'[l] = [lock[l] EXCEPT !.status = "RELEASED"]
      BY <1>9 DEF ReleaseWrite, WithStatus
    <3>3. lock'[l].status # "RELEASED"
      BY <2>1 DEF Active, ACTIVE_LOCK_STATUSES
    <3> QED
      BY <3>1, <3>2, <3>3 DEF Lock
  <2>2. Finish(w)
    BY <1>9 DEF ReleaseWrite
  <2> QED
    BY <1>6, <2>1, <2>2 DEF Active
<1>10. ASSUME NEW w \in Workers, Crash(w)
       PROVE  ActiveAreBooked' /\ ProviderLockedOnce' /\ ClearOfConflicts'
  BY <1>6, <1>10 DEF Crash, tables, Active
<1>11. ASSUME NEW w \in Workers, NEW b \in Bookings, NEW ps \in SUBSET LockProviders,
              ProvidersRead(w, b, ps)
       PROVE  ActiveAreBooked' /\ ProviderLockedOnce' /\ ClearOfConflicts'
  <2> DEFINE q == [Idle EXCEPT !.pc = "providers_clear", !.booking = b, !.providers = ps]
  <2>1. Become(w, q) /\ UNCHANGED lock /\ Conflicts(ps, b) = {}
    BY <1>11 DEF ProvidersRead, tables
  <2>2. q.booking = b /\ q.providers = ps
    BY DEF Idle
  <2> HIDE DEF q
  <2>3. \A v \in Workers : req'[v] = q
    BY <1>t, <2>1, OnlyRequest
  <2>4. ClearOfConflicts'
    BY <2>1, <2>2, <2>3 DEF ClearOfConflicts, Conflicts, Active, OverlapsBooking
  <2> QED
    BY <2>1, <2>4 DEF LockedOnce, ActiveAreBooked, ProviderLockedOnce, Active, OverlapsBooking
<1>12. ASSUME NEW w \in Workers,
              \/ \E b \in Bookings, ids \in SUBSET LockIds :
                    ConfirmRead(w, b, ids) \/ ReleaseRead(w, b, ids)
              \/ ExpiredRead(w)
       PROVE  ActiveAreBooked' /\ ProviderLockedOnce' /\ ClearOfConflicts'
  <2> DEFINE reading(pc, locks) == [Idle EXCEPT !.pc = pc, !.locks = locks]
  <2>1. /\ UNCHANGED lock
        /\ \E pc \in {"confirm_read", "release_read"} :
              \E locks : Become(w, reading(pc, locks))
    BY <1>12 DEF ConfirmRead, ReleaseRead, ExpiredRead, tables
  <2>2. \A pc, locks : reading(pc, locks).pc = pc
    BY DEF Idle
  <2> HIDE DEF reading
  <2> QED
    BY <1>1, <2>1, <2>2
<1>13. ASSUME UNCHANGED <<lock, req>>
       PROVE  ActiveAreBooked' /\ ProviderLockedOnce' /\ ClearOfConflicts'
  BY <1>13, NoNewConflicts DEF Active
<1>14. MembersChange \/ (\E b \in Bookings : BookingMoves(b)) \/ (\E l \in LockIds : Expire(l))
         \/ UNCHANGED vars
       => UNCHANGED <<lock, req>>
  BY DEF MembersChange, BookingMoves, Expire, vars, tables
<1>15. ASSUME NEW w \in Workers, Start(w) \/ ExpiredRead(w)
       PROVE  ActiveAreBooked' /\ ProviderLockedOnce' /\ ClearOfConflicts'
  BY <1>3, <1>11, <1>12, <1>15 DEF Start
<1>16. ASSUME NEW w \in Workers, Continue(w)
       PROVE  ActiveAreBooked' /\ ProviderLockedOnce' /\ ClearOfConflicts'
  BY <1>4, <1>5, <1>7, <1>8, <1>9, <1>16, ProvidersCommitOnce DEF Continue
<1>17. ActiveAreBooked' /\ ProviderLockedOnce' /\ ClearOfConflicts'
  BY <1>10, <1>13, <1>14, <1>15, <1>16 DEF Next
<1>18. OneByOne'
  BY OneByOneStays DEF LockedOnce
<1> QED
  BY <1>17, <1>18 DEF LockedOnce

\* One request at a time, a provider is never locked for two bookings that overlap,
\* whatever is confirmed, released, expired and locked again in between.
THEOREM NobodyIsLockedTwice ==
    ASSUME LocksAssumption, \A v, w \in Workers : v = w
    PROVE  Spec => []ProviderLockedOnce
<1>1. Init => ActiveAreBooked /\ ProviderLockedOnce /\ ClearOfConflicts
  BY DEF Init, Idle, NoLock, Active, ACTIVE_LOCK_STATUSES, ActiveAreBooked,
         ProviderLockedOnce, ClearOfConflicts
<1>2. OneByOne /\ ActiveAreBooked /\ ProviderLockedOnce /\ ClearOfConflicts => LockedOnce
  BY DEF LockedOnce
<1>3. LockedOnce => ProviderLockedOnce
  BY DEF LockedOnce
<1>4. LockedOnce /\ [Next]_vars => LockedOnce'
  BY LockedOnceStays
<1> QED
  BY <1>1, <1>2, <1>3, <1>4, OneByOneHolds, PTL DEF Spec

(***************************************************************************)
(* A lock fits.  There is one slot per window, and the one that a request  *)
(* found still has the capacity that it counted and the room that it saw.  *)
(***************************************************************************)
OneSlotEach ==
    \A s, t \in SlotIds :
        slot[s].window = slot[t].window /\ slot[s].window # NoWindow => s = t

SlotPhases == {"slot_sought", "slot_ready", "slot_checked"}

\* What the request r knows of a table of slots.
AsSeen(table, r) ==
    /\ r.pc = "slot_sought" /\ r.slot = NoSlot
         => \A s \in SlotIds : table[s].window # WindowOf[r.booking]
    /\ r.pc \in SlotPhases /\ r.slot # NoSlot => table[r.slot].window = WindowOf[r.booking]
    /\ r.pc \in {"slot_ready", "slot_checked"} => table[r.slot].capacity = r.members
    /\ r.pc = "slot_checked" => r.size <= table[r.slot].capacity - table[r.slot].booked

SlotsAsSeen == OneSlotEach /\ \A w \in Workers : AsSeen(slot, req[w])

LEMMA BecomesAsSeen ==
    ASSUME TypeOK, \A v, w \in Workers : v = w, NEW w \in Workers, NEW r, Become(w, r),
           OneSlotEach', AsSeen(slot', r)
    PROVE  SlotsAsSeen'
<1>1. \A v \in Workers : req'[v] = r
  BY OnlyRequest
<1> QED
  BY <1>1 DEF SlotsAsSeen, AsSeen

\* A request that is after no slot, or ends.
LEMMA SeesNoSlot ==
    ASSUME TypeOK, \A v, w \in Workers : v = w, SlotsAsSeen, NEW w \in Workers,
           NEW r, Become(w, r), r.pc \notin SlotPhases,
           \A s \in SlotIds : slot'[s].window = slot[s].window
    PROVE  SlotsAsSeen'
<1>1. OneSlotEach'
  BY DEF SlotsAsSeen, OneSlotEach
<1>2. AsSeen(slot', r)
  BY DEF AsSeen, SlotPhases
<1> QED
  BY <1>1, <1>2, BecomesAsSeen

LEMMA FinishSees ==
    ASSUME TypeOK, \A v, w \in Workers : v = w, SlotsAsSeen, NEW w \in Workers, Finish(w),
           \A s \in SlotIds : slot'[s].window = slot[s].window
    PROVE  SlotsAsSeen'
<1>1. Idle.pc \notin SlotPhases
  BY DEF Idle, SlotPhases
<1> QED
  BY <1>1, SeesNoSlot DEF Finish

LEMMA HeadroomSees ==
    ASSUME LocksAssumption,
           TypeOK, \A v, w \in Workers : v = w, NEW w \in Workers, NEW r \in Request, NEW h,
           WithHeadroom(w, r, h), OneSlotEach', r.slot \in SlotIds,
           slot'[r.slot].window = WindowOf[r.booking], slot'[r.slot].capacity = r.members
    PROVE  SlotsAsSeen'
<1>1. CASE h <= 0
  <2>1. Become(w, Idle)
    BY <1>1 DEF WithHeadroom
  <2>2. AsSeen(slot', Idle)
    BY DEF AsSeen, Idle, SlotPhases
  <2> QED
    BY <2>1, <2>2, BecomesAsSeen
<1>2. CASE ~ (h <= 0)
  <2> DEFINE q == [r EXCEPT !.pc = "slot_ready", !.size = Smaller(r.size, h)]
  <2>1. Become(w, q)
    BY <1>2 DEF WithHeadroom
  <2>2. /\ q.pc = "slot_ready" /\ q.slot = r.slot
        /\ q.booking = r.booking /\ q.members = r.members
    BY DEF Request
  <2> HIDE DEF q
  <2>3. AsSeen(slot', q)
    BY <2>2 DEF LocksAssumption, AsSeen
  <2> QED
    BY <2>1, <2>3, BecomesAsSeen
<1> QED
  BY <1>1, <1>2

LEMMA FindSees ==
    ASSUME LocksAssumption, TypeOK, \A v, w \in Workers : v = w, SlotsAsSeen, NEW w \in Workers,
           NEW b \in Bookings, NEW n \in 1..MaxMembers, SlotFind(w, b, n)
    PROVE  SlotsAsSeen'
<1> DEFINE r == Seeking(b, n)
           at(s) == [r EXCEPT !.slot = s]
<1>1. UNCHANGED slot /\ OneSlotEach'
  BY DEF SlotFind, tables, SlotsAsSeen, OneSlotEach
<1>2. /\ r \in Request /\ r.slot = NoSlot /\ r.pc = "slot_sought"
      /\ r.booking = b /\ r.members = available
  <2>1. n \in 0..MaxMembers /\ available \in 0..MaxMembers
    BY DEF LocksAssumption, TypeOK
  <2> QED
    BY <2>1 DEF Seeking, Request, Phases
<1>3. ASSUME NEW s \in SlotsFor(b)
      PROVE  /\ at(s) \in Request /\ at(s).slot = s /\ at(s).pc = "slot_sought"
             /\ at(s).booking = b /\ at(s).members = available
             /\ s \in SlotIds /\ slot[s].window = WindowOf[b]
  BY <1>2 DEF SlotsFor, Request
<1> HIDE DEF r, at
<1>4. CASE SlotsFor(b) = {} /\ Become(w, r)
  <2>1. AsSeen(slot', r)
    BY <1>1, <1>2, <1>4 DEF AsSeen, SlotsFor, SlotPhases
  <2> QED
    BY <1>1, <1>4, <2>1, BecomesAsSeen
<1>5. ASSUME NEW s \in SlotsFor(b), Become(w, at(s))
      PROVE  SlotsAsSeen'
  <2>1. AsSeen(slot', at(s))
    BY <1>1, <1>3 DEF LocksAssumption, AsSeen, SlotPhases
  <2> QED
    BY <1>1, <1>5, <2>1, BecomesAsSeen
<1>6. ASSUME NEW s \in SlotsFor(b), NEW h, WithHeadroom(w, at(s), h),
             slot[s].capacity = available
      PROVE  SlotsAsSeen'
  BY <1>1, <1>3, <1>6, HeadroomSees
<1> QED
  BY <1>4, <1>5, <1>6 DEF SlotFind, r, at

LEMMA ResizeSees ==
    ASSUME LocksAssumption,
           TypeOK, \A v, w \in Workers : v = w, SlotsAsSeen, NEW w \in Workers, SlotResize(w)
    PROVE  SlotsAsSeen'
<1> DEFINE r == req[w]
<1>1. r \in Request /\ r.slot \in SlotIds /\ r.pc = "slot_sought"
  BY RequestFields DEF SlotResize
<1>2. /\ \A s \in SlotIds : slot'[s].window = slot[s].window
      /\ slot'[r.slot].capacity = r.members
  BY <1>1 DEF SlotResize, TypeOK, Slot
<1>3. slot[r.slot].window = WindowOf[r.booking]
  BY <1>1 DEF LocksAssumption, SlotsAsSeen, AsSeen, SlotPhases
<1>4. OneSlotEach'
  BY <1>2 DEF SlotsAsSeen, OneSlotEach
<1> QED
  BY <1>1, <1>2, <1>3, <1>4, HeadroomSees DEF SlotResize

LEMMA CreateSees ==
    ASSUME LocksAssumption,
           TypeOK, \A v, w \in Workers : v = w, SlotsAsSeen, NEW w \in Workers, SlotCreate(w)
    PROVE  SlotsAsSeen'
<1> DEFINE r == req[w]
           at(s) == [r EXCEPT !.slot = s]
<1>1. r \in Request /\ r.slot = NoSlot /\ r.pc = "slot_sought"
  BY RequestFields DEF SlotCreate
<1>2. PICK s \in SlotIds :
         /\ slot[s].window = NoWindow
         /\ slot' = [slot EXCEPT ![s] = [window |-> WindowOf[r.booking],
                                         capacity |-> r.members, booked |-> 0]]
         /\ WithHeadroom(w, at(s), r.members)
  BY DEF SlotCreate
<1>3. /\ at(s) \in Request /\ at(s).slot = s
      /\ at(s).booking = r.booking /\ at(s).members = r.members
  BY <1>1 DEF Request
<1>4. /\ slot'[s].window = WindowOf[r.booking] /\ slot'[s].capacity = r.members
      /\ \A t \in SlotIds \ {s} : slot'[t] = slot[t]
  BY <1>2 DEF TypeOK
<1>5. \A t \in SlotIds : slot[t].window # WindowOf[r.booking]
  BY <1>1 DEF SlotsAsSeen, AsSeen
<1>6. OneSlotEach'
  BY <1>4, <1>5 DEF SlotsAsSeen, OneSlotEach
<1> HIDE DEF at
<1> QED
  BY <1>2, <1>3, <1>4, <1>6, HeadroomSees

LEMMA CheckSees ==
    ASSUME LocksAssumption,
           TypeOK, \A v, w \in Workers : v = w, SlotsAsSeen, NEW w \in Workers, SlotCheck(w)
    PROVE  SlotsAsSeen'
<1> DEFINE r == req[w]
           q == [r EXCEPT !.pc = "slot_checked"]
<1>1. r \in Request /\ r.slot \in SlotIds /\ r.size \in Int
  BY RequestFields DEF LocksAssumption, SlotCheck
<1>2. UNCHANGED slot
  BY DEF SlotCheck, tables
<1>3. CASE slot[r.slot].capacity - slot[r.slot].booked < r.size
  <2>1. Finish(w)
    BY <1>3 DEF SlotCheck, Finish
  <2> QED
    BY <1>2, <2>1, FinishSees
<1>4. CASE ~ (slot[r.slot].capacity - slot[r.slot].booked < r.size)
  <2>1. Become(w, q)
    BY <1>4 DEF SlotCheck
  <2>2. /\ q.pc = "slot_checked" /\ q.slot = r.slot /\ q.size = r.size
        /\ q.booking = r.booking /\ q.members = r.members
    BY <1>1 DEF Request
  <2>3. slot[r.slot].capacity \in Int /\ slot[r.slot].booked \in Int
    BY <1>1 DEF LocksAssumption, TypeOK, Slot
  <2>4. r.size <= slot[r.slot].capacity - slot[r.slot].booked
    BY <1>1, <1>4, <2>3
  <2>5. slot[r.slot].window = WindowOf[r.booking] /\ slot[r.slot].capacity = r.members
    BY <1>1 DEF LocksAssumption, SlotCheck, SlotsAsSeen, AsSeen, SlotPhases
  <2> HIDE DEF q
  <2>6. AsSeen(slot', q)
    BY <1>2, <2>2, <2>4, <2>5 DEF AsSeen
  <2>7. OneSlotEach'
    BY <1>2 DEF SlotsAsSeen, OneSlotEach
  <2> QED
    BY <2>1, <2>6, <2>7, BecomesAsSeen
<1> QED
  BY <1>3, <1>4

\* Commits, confirmations, releases and crashes end the request.
LEMMA EndsSee ==
    ASSUME TypeOK, \A v, w \in Workers : v = w, SlotsAsSeen, NEW w \in Workers,
           \/ LockCommit(w) \/ ProvidersCommit(w) \/ ConfirmWrite(w)
           \/ ReleaseWrite(w) \/ Crash(w)
    PROVE  SlotsAsSeen'
<1>1. CASE LockCommit(w)
  BY <1>1, FinishSees DEF LockCommit, TypeOK, Slot
<1>2. CASE ReleaseWrite(w)
  <2>1. \A s \in SlotIds : slot'[s].window = slot[s].window
    BY <1>2 DEF ReleaseWrite, TypeOK, Slot
  <2> QED
    BY <1>2, <2>1, FinishSees DEF ReleaseWrite
<1>3. CASE ProvidersCommit(w) \/ ConfirmWrite(w) \/ Crash(w)
  <2>1. Finish(w) /\ UNCHANGED slot
    BY <1>3 DEF ProvidersCommit, ConfirmWrite, Crash, tables
  <2> QED
    BY <2>1, FinishSees
<1> QED
  BY <1>1, <1>2, <1>3

LEMMA ReadsSee ==
    ASSUME TypeOK, \A v, w \in Workers : v = w, SlotsAsSeen, NEW w \in Workers,
           \/ \E b \in Bookings, ps \in SUBSET LockProviders : ProvidersRead(w, b, ps)
           \/ \E b \in Bookings, ids \in SUBSET LockIds :
                 ConfirmRead(w, b, ids) \/ ReleaseRead(w, b, ids)
           \/ ExpiredRead(w)
    PROVE  SlotsAsSeen'
<1>0. UNCHANGED slot
  BY DEF ProvidersRead, ConfirmRead, ReleaseRead, ExpiredRead, tables
<1>1. ASSUME NEW pc, NEW locks, Become(w, [Idle EXCEPT !.pc = pc, !.locks = locks]),
             pc \notin SlotPhases
      PROVE  SlotsAsSeen'
  <2> DEFINE q == [Idle EXCEPT !.pc = pc, !.locks = locks]
  <2>1. q.pc = pc
    BY DEF Idle
  <2> HIDE DEF q
  <2> QED
    BY <1>0, <1>1, <2>1, SeesNoSlot DEF q
<1>2. ASSUME NEW b \in Bookings, NEW ps \in SUBSET LockProviders, ProvidersRead(w, b, ps)
      PROVE  SlotsAsSeen'
  <2> DEFINE q == [Idle EXCEPT !.pc = "providers_clear", !.booking = b, !.providers = ps]
  <2>1. Become(w, q) /\ q.pc \notin SlotPhases
    BY <1>2 DEF ProvidersRead, Idle, SlotPhases
  <2> HIDE DEF q
  <2> QED
    BY <1>0, <2>1, SeesNoSlot
<1>3. {"confirm_read", "release_read"} \cap SlotPhases = {}
  BY DEF SlotPhases
<1>4. ASSUME NEW b \in Bookings, NEW ids \in SUBSET LockIds,
             ConfirmRead(w, b, ids) \/ ReleaseRead(w, b, ids)
      PROVE  SlotsAsSeen'
  BY <1>1, <1>3, <1>4 DEF ConfirmRead, ReleaseRead
<1>5. CASE ExpiredRead(w)
  BY <1>1, <1>3, <1>5 DEF ExpiredRead
<1> QED
  BY <1>2, <1>4, <1>5

LEMMA SlotsStayAsSeen ==
    ASSUME LocksAssumption, \A v, w \in Workers : v = w, TypeOK, SlotsAsSeen, [Next]_vars
    PROVE  SlotsAsSeen'
<1>1. ASSUME NEW w \in Workers, Start(w) \/ Continue(w) \/ ExpiredRead(w) \/ Crash(w)
      PROVE  SlotsAsSeen'
  BY <1>1, FindSees, ResizeSees, CreateSees, CheckSees, EndsSee, ReadsSee DEF Start, Continue
<1>2. ASSUME UNCHANGED <<slot, req>>
      PROVE  SlotsAsSeen'
  BY <1>2 DEF SlotsAsSeen, OneSlotEach, AsSeen
<1>3. MembersChange \/ (\E b \in Bookings : BookingMoves(b)) \/ (\E l \in LockIds : Expire(l))
        \/ UNCHANGED vars
      => UNCHANGED <<slot, req>>
  BY DEF MembersChange, BookingMoves, Expire, vars, tables
<1> QED
  BY <1>1, <1>2, <1>3 DEF Next

\* The lock that is created brings what is held in its window to no more than the members.
LEMMA CommitFits ==
    ASSUME LocksAssumption, OneByOne, SlotsAsSeen, NEW w \in Workers, LockCommit(w),
           NEW slots, slots = SlotsFor(req[w].booking)
    PROVE  Cardinality(Held(slots)') <= req[w].members
<1> DEFINE s == req[w].slot
           members == req[w].members
<1>t. TypeOK /\ AllIsCounted
  BY DEF OneByOne
<1>1. /\ s \in SlotIds /\ req[w].booking \in Bookings
      /\ req[w].size \in Int /\ members \in Int /\ slot[s].booked \in Int
  BY <1>t, RequestFields DEF LocksAssumption, LockCommit, TypeOK, Slot
<1>2. /\ slot[s].window = WindowOf[req[w].booking] /\ slot[s].capacity = members
      /\ req[w].size <= slot[s].capacity - slot[s].booked
  BY <1>1 DEF LocksAssumption, LockCommit, SlotsAsSeen, AsSeen, SlotPhases
<1>3. slots = {s}
  <2>1. slot[s].window # NoWindow
    BY <1>1, <1>2 DEF LocksAssumption
  <2> QED
    BY <1>1, <1>2, <2>1 DEF SlotsFor, SlotsAsSeen, OneSlotEach
<1>4. Cardinality(Held(slots)') <= Cardinality(Held(slots)) + req[w].size
  BY <1>t, <1>3, CommitHoldsNoMore
<1>5. Cardinality(Held(slots)) <= slot[s].booked
  BY <1>t, <1>1, <1>3 DEF AllIsCounted
<1> HIDE DEF s, members
<1> QED
  BY <1>1, <1>2, <1>4, <1>5, HeldFinite DEF members

LEMMA TakesStep ==
    ASSUME LocksAssumption, \A v, w \in Workers : v = w, OneByOne, SlotsAsSeen, [Next]_vars
    PROVE  TakesWhatFits
<1> SUFFICES ASSUME NEW w \in Workers, req[w].pc = "slot_checked", lock' # lock,
                    NEW slots, slots = SlotsFor(req[w].booking)
             PROVE  Cardinality(Held(slots)') <= req[w].members
  BY DEF TakesWhatFits
<1>1. ASSUME NEW v \in Workers, Start(v) \/ ExpiredRead(v) \/ Crash(v)
      PROVE  FALSE
  BY <1>1 DEF Start, SlotFind, ProvidersRead, ConfirmRead, ReleaseRead, ExpiredRead,
              Crash, tables
<1>2. ASSUME NEW v \in Workers, Continue(v)
      PROVE  LockCommit(w)
  <2>1. v = w
    OBVIOUS
  <2> QED
    BY <1>2, <2>1 DEF Continue, SlotResize, SlotCreate, SlotCheck, ProvidersCommit,
                      ConfirmWrite, ReleaseWrite
<1>3. MembersChange \/ (\E b \in Bookings : BookingMoves(b)) \/ (\E l \in LockIds : Expire(l))
        \/ UNCHANGED vars
      => FALSE
  BY DEF MembersChange, BookingMoves, Expire, vars, tables
<1> QED
  BY <1>1, <1>2, <1>3, CommitFits DEF Next

\* One request at a time, a new lock fits the members who were counted for it, with all
\* that is locked for the same window, however members come and go, locks are released
\* and expire and requests die before it.
THEOREM LocksFitTheMembers ==
    ASSUME LocksAssumption, \A v, w \in Workers : v = w
    PROVE  Spec => [][TakesWhatFits]_vars
<1>1. Init => SlotsAsSeen
  BY DEF LocksAssumption, Init, SlotsAsSeen, OneSlotEach, AsSeen, Idle, SlotPhases
<1>2. OneByOne => TypeOK
  BY DEF OneByOne
<1> QED
  BY <1>1, <1>2, OneByOneHolds, SlotsStayAsSeen, TakesStep, PTL DEF Spec

=============================================================================
