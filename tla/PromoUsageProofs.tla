-------------------------- MODULE PromoUsageProofs --------------------------
(***************************************************************************)
(* The usage counter of a promo code equals its redemptions, for every set *)
(* of bookings, codes, clients and concurrent requests.                    *)
(***************************************************************************)
EXTENDS MCRequests, Sequences, FiniteSetTheorems, TLAPS

(***************************************************************************)
(* The inductive invariant.  The counter is exact because the rows that    *)
(* clearBookingPromo deletes are those it counted, and nobody redeems for  *)
(* the same booking in between: the row lock (LockExclusive) for updates,  *)
(* the booking's absence (CreatesAreFresh) for creations.                  *)
(***************************************************************************)
CreatesAreFresh ==
    \A w \in Handlers : req[w].pc = "create_evaluated" =>
        /\ owner[req[w].booking] = Absent
        /\ \A v \in Handlers \ {w} : req[v].booking # req[w].booking

NoRowsBeforeBooking ==
    \A b \in Bookings : owner[b] = Absent => UsagesOf(b) = {}

LockExclusive ==
    \A v, w \in Handlers :
        v # w /\ Holding(v) /\ Holding(w) => req[v].booking # req[w].booking

FoundIsCurrent ==
    \A w \in Handlers :
        req[w].pc = "update_found" => req[w].found = UsagesOf(req[w].booking)

UpdatesExist ==
    \A w \in Handlers :
        req[w].pc \in {"update_evaluated", "update_locked", "update_found",
                       "claim_read"} => owner[req[w].booking] # Absent

Order == CreatesAreFresh /\ NoRowsBeforeBooking /\ UpdatesExist
Locking == LockExclusive /\ FoundIsCurrent
Counting == IsFiniteSet(usages) /\ UsageCountExact /\ BookingShowsItsUsage

IndInv == TypeOK /\ Order /\ Locking /\ Counting

LEMMA IdleIsRequest == Idle \in Request
BY PromoAssumption DEF Idle, Request, Phases, Buyers

LEMMA BecomeType ==
    ASSUME req \in [Handlers -> Request], NEW w \in Handlers,
           NEW r \in Request, Become(w, r)
    PROVE  req' \in [Handlers -> Request]
BY DEF Become

LEMMA FinishType ==
    ASSUME req \in [Handlers -> Request], NEW w \in Handlers, Finish(w)
    PROVE  req' \in [Handlers -> Request]
BY IdleIsRequest DEF Finish, Become

\* What a request under way knows of its fields.
LEMMA RequestFields ==
    ASSUME TypeOK, NEW w \in Handlers, req[w].pc # "idle"
    PROVE  /\ req[w] \in Request
           /\ req[w].booking \in Bookings
           /\ req[w].promo \in Promos \cup {NoPromo}
           /\ req[w].client \in Buyers
           /\ req[w].found \subseteq Usage
           /\ req[w].pc = "create_evaluated" => req[w].promo \in Promos
<1>1. req[w] \in Request
  BY DEF TypeOK
<1> QED
  BY <1>1 DEF Request

\* The usage row a request writes.
RowOf(r) == [promo |-> r.promo, booking |-> r.booking, client |-> r.client]

LEMMA CountType ==
    ASSUME TypeOK, NEW found, IsFiniteSet(found), NEW p
    PROVE  Recounted(found, p) \in [Promos -> Int]
<1>1. ASSUME NEW q \in Promos
      PROVE  Cardinality({u \in found : u.promo = q}) \in Nat
  BY FS_Subset, FS_CardinalityType
<1> QED
  BY <1>1 DEF Recounted, TypeOK

LEMMA NextType == IndInv /\ [Next]_vars => TypeOK'
<1> SUFFICES ASSUME IndInv, [Next]_vars
             PROVE  TypeOK'
  OBVIOUS
<1>t. TypeOK /\ IsFiniteSet(usages)
  BY DEF IndInv, Counting
<1>1. ASSUME NEW b \in Bookings, NEW c \in Buyers, CreatePlain(b, c)
      PROVE  TypeOK'
  BY <1>t, <1>1 DEF CreatePlain, TypeOK
<1>2. ASSUME NEW w \in Handlers, NEW b \in Bookings, NEW c \in Buyers,
             NEW p \in Promos, CreateEvaluate(w, b, c, p)
      PROVE  TypeOK'
  <2> DEFINE r == [Idle EXCEPT !.pc = "create_evaluated", !.booking = b,
                               !.promo = p, !.client = c]
  <2>1. r \in Request
    BY DEF Idle, Request, Phases
  <2>2. req' \in [Handlers -> Request]
    BY <1>t, <1>2, <2>1, BecomeType DEF CreateEvaluate, TypeOK
  <2> QED
    BY <1>t, <1>2, <2>2 DEF CreateEvaluate, tables, TypeOK
<1>3. ASSUME NEW w \in Handlers, NEW b \in Bookings, NEW p \in Promos \cup {NoPromo},
             UpdateEvaluate(w, b, p)
      PROVE  TypeOK'
  <2> DEFINE r == [Idle EXCEPT !.pc = "update_evaluated", !.booking = b,
                               !.promo = p]
  <2>1. r \in Request
    BY DEF Idle, Request, Phases, Buyers
  <2>2. req' \in [Handlers -> Request]
    BY <1>t, <1>3, <2>1, BecomeType DEF UpdateEvaluate, TypeOK
  <2> QED
    BY <1>t, <1>3, <2>2 DEF UpdateEvaluate, tables, TypeOK
<1>4. ASSUME NEW w \in Handlers, NEW b \in Bookings, NEW c \in Clients,
             ClaimRead(w, b, c)
      PROVE  TypeOK'
  <2> DEFINE r == [Idle EXCEPT !.pc = "claim_read", !.booking = b,
                               !.client = c]
  <2>1. r \in Request
    BY DEF Idle, Request, Phases, Buyers
  <2>2. req' \in [Handlers -> Request]
    BY <1>t, <1>4, <2>1, BecomeType DEF ClaimRead, TypeOK
  <2> QED
    BY <1>t, <1>4, <2>2 DEF ClaimRead, tables, TypeOK
<1>5. ASSUME NEW w \in Handlers, CreateCommit(w)
      PROVE  TypeOK'
  <2>1. req[w].pc # "idle" /\ req[w].pc = "create_evaluated"
    BY <1>5 DEF CreateCommit
  <2>2. RowOf(req[w]) \in Usage
    BY <1>t, <2>1, RequestFields DEF RowOf, Usage
  <2>3. req' \in [Handlers -> Request]
    BY <1>t, <1>5, FinishType DEF CreateCommit, TypeOK
  <2>4. req[w].booking \in Bookings /\ req[w].promo \in Promos
        /\ req[w].client \in Buyers
    BY <1>t, <2>1, RequestFields
  <2> QED
    BY <1>t, <1>5, <2>2, <2>3, <2>4 DEF CreateCommit, RowOf, TypeOK
<1>6. ASSUME NEW w \in Handlers, UpdateLock(w)
      PROVE  TypeOK'
  <2>0. req[w].pc # "idle" /\ req[w].pc = "update_evaluated"
    BY <1>6 DEF UpdateLock
  <2>1. owner[req[w].booking] \in Buyers
    BY <1>t, <2>0, RequestFields DEF IndInv, Order, UpdatesExist, TypeOK
  <2> DEFINE r == [req[w] EXCEPT !.pc = "update_locked",
                                 !.client = owner[req[w].booking]]
  <2>2. req[w] \in Request
    BY <1>t DEF TypeOK
  <2>3. r \in Request
    BY <2>0, <2>1, <2>2 DEF Request, Phases
  <2>4. req' \in [Handlers -> Request]
    BY <1>t, <1>6, <2>3, BecomeType DEF UpdateLock, TypeOK
  <2> QED
    BY <1>t, <1>6, <2>4 DEF UpdateLock, tables, TypeOK
<1>7. ASSUME NEW w \in Handlers, ClearFind(w)
      PROVE  TypeOK'
  <2>0. req[w].pc = "update_locked"
    BY <1>7 DEF ClearFind
  <2> DEFINE r == [req[w] EXCEPT !.pc = "update_found",
                                 !.found = UsagesOf(req[w].booking)]
  <2>1. req[w] \in Request /\ UsagesOf(req[w].booking) \in SUBSET Usage
    BY <1>t DEF TypeOK, UsagesOf
  <2>2. r \in Request
    BY <2>0, <2>1 DEF Request, Phases
  <2>3. req' \in [Handlers -> Request]
    BY <1>t, <1>7, <2>2, BecomeType DEF ClearFind, TypeOK
  <2> QED
    BY <1>t, <1>7, <2>3 DEF ClearFind, tables, TypeOK
<1>8. ASSUME NEW w \in Handlers, UpdateCommit(w)
      PROVE  TypeOK'
  <2>1. req[w].pc # "idle" /\ req[w].pc = "update_found"
    BY <1>8 DEF UpdateCommit
  <2>2. req[w].found \subseteq usages
    BY <2>1 DEF IndInv, Locking, FoundIsCurrent, UsagesOf
  <2>3. IsFiniteSet(req[w].found)
    BY <1>t, <2>2, FS_Subset
  <2>4. req[w].promo \in Promos => RowOf(req[w]) \in Usage
    BY <1>t, <2>1, RequestFields DEF RowOf, Usage
  <2>5. usages' \subseteq Usage
    BY <1>t, <1>8, <2>1, <2>4, RequestFields DEF UpdateCommit, RowOf, TypeOK
  <2>6. req' \in [Handlers -> Request]
    BY <1>t, <1>8, FinishType DEF UpdateCommit, TypeOK
  <2>7. usageCount' \in [Promos -> Int]
    BY <1>t, <1>8, <2>3, CountType DEF UpdateCommit
  <2>8. promoOf' \in [Bookings -> Promos \cup {NoPromo}]
    BY <1>t, <1>8, <2>1, RequestFields DEF UpdateCommit, TypeOK
  <2> QED
    BY <1>t, <1>8, <2>5, <2>6, <2>7, <2>8 DEF UpdateCommit, TypeOK
<1>9. ASSUME NEW w \in Handlers, ClaimWrite(w)
      PROVE  TypeOK'
  <2>1. req[w].pc # "idle"
    BY <1>9 DEF ClaimWrite
  <2>2. req' \in [Handlers -> Request]
    BY <1>t, <1>9, FinishType DEF ClaimWrite, TypeOK
  <2> QED
    BY <1>t, <1>9, <2>1, <2>2, RequestFields DEF ClaimWrite, TypeOK
<1>10. ASSUME NEW w \in Handlers, Crash(w)
      PROVE  TypeOK'
  <2>1. req' \in [Handlers -> Request]
    BY <1>t, <1>10, FinishType DEF Crash, TypeOK
  <2> QED
    BY <1>t, <1>10, <2>1, PromoAssumption DEF Crash, tables, TypeOK
<1>11. ASSUME NEW p \in Promos, ToggleActive(p)
      PROVE  TypeOK'
  BY <1>t, <1>11 DEF ToggleActive, TypeOK
<1>12. CASE UNCHANGED vars
  BY <1>t, <1>12 DEF vars, TypeOK
<1> QED
  BY <1>1, <1>2, <1>3, <1>4, <1>5, <1>6, <1>7, <1>8, <1>9, <1>10, <1>11, <1>12
     DEF Next, Continue

\* One request changes, the others stay.
LEMMA BecomeOnly ==
    ASSUME TypeOK, NEW w \in Handlers, NEW r, Become(w, r)
    PROVE  req'[w] = r /\ \A v \in Handlers \ {w} : req'[v] = req[v]
BY DEF TypeOK, Become

\* A request that ends leaves Order as it was, when the tables are.
LEMMA FinishKeeps ==
    ASSUME IndInv, NEW w \in Handlers, Finish(w), UNCHANGED <<owner, usages>>
    PROVE  Order' /\ Locking'
<1>1. req'[w] = Idle /\ \A v \in Handlers \ {w} : req'[v] = req[v]
  BY BecomeOnly DEF IndInv, Finish
<1>2. Idle.pc = "idle" /\ Idle.booking = NoBooking
  BY DEF Idle
<1>3. \A v \in Handlers : req[v].pc = "create_evaluated" => req[v].booking # NoBooking
  <2> SUFFICES ASSUME NEW v \in Handlers, req[v].pc = "create_evaluated"
               PROVE  req[v].booking # NoBooking
    OBVIOUS
  <2>1. req[v].booking \in Bookings
    BY RequestFields DEF IndInv
  <2> QED
    BY <2>1, PromoAssumption
<1>4. CreatesAreFresh'
  BY <1>1, <1>2, <1>3 DEF IndInv, Order, CreatesAreFresh
<1>5. NoRowsBeforeBooking' /\ UpdatesExist'
  BY <1>1, <1>2 DEF IndInv, Order, NoRowsBeforeBooking, UpdatesExist, UsagesOf
<1>6. Locking'
  BY <1>1, <1>2
     DEF IndInv, Locking, LockExclusive, FoundIsCurrent, Holding, UsagesOf
<1> QED
  BY <1>4, <1>5, <1>6 DEF Order

\* A request that starts, from idle, into a phase that holds no lock.
LEMMA StartKeeps ==
    ASSUME IndInv, NEW w \in Handlers, NEW r, Become(w, r),
           UNCHANGED <<owner, usages>>,
           r.pc \in {"create_evaluated", "update_evaluated", "claim_read"},
           r.pc = "create_evaluated" => r.booking \in Bookings /\ Fresh(r.booking),
           r.pc # "create_evaluated" => owner[r.booking] # Absent
    PROVE  Order' /\ Locking'
<1>1. req'[w] = r /\ \A v \in Handlers \ {w} : req'[v] = req[v]
  BY BecomeOnly DEF IndInv
<1>2. CreatesAreFresh'
  <2>1. ASSUME NEW v \in Handlers, req'[v].pc = "create_evaluated"
        PROVE  /\ owner'[req'[v].booking] = Absent
               /\ \A u \in Handlers \ {v} : req'[u].booking # req'[v].booking
    <3>1. CASE v = w
      BY <1>1, <2>1, <3>1 DEF Fresh
    <3>2. CASE v # w
      <4>1. req'[v] = req[v]
        BY <1>1, <3>2
      <4>2. /\ owner[req[v].booking] = Absent
            /\ \A u \in Handlers \ {v} : req[u].booking # req[v].booking
        BY <2>1, <4>1 DEF IndInv, Order, CreatesAreFresh
      <4>3. r.booking # req[v].booking
        <5>1. CASE r.pc = "create_evaluated"
          BY <5>1 DEF Fresh
        <5>2. CASE r.pc # "create_evaluated"
          BY <5>2, <4>2
        <5> QED
          BY <5>1, <5>2
      <4> QED
        BY <1>1, <4>1, <4>2, <4>3
    <3> QED
      BY <3>1, <3>2
  <2> QED
    BY <2>1 DEF CreatesAreFresh
<1>3. NoRowsBeforeBooking' /\ UpdatesExist'
  BY <1>1 DEF IndInv, Order, NoRowsBeforeBooking, UpdatesExist, UsagesOf
<1>4. Locking'
  BY <1>1 DEF IndInv, Locking, LockExclusive, FoundIsCurrent, Holding, UsagesOf
<1> QED
  BY <1>2, <1>3, <1>4 DEF Order

LEMMA UpdateLockKeeps ==
    ASSUME IndInv, NEW w \in Handlers, UpdateLock(w)
    PROVE  Order' /\ Locking'
<1> DEFINE r == [req[w] EXCEPT !.pc = "update_locked",
                               !.client = owner[req[w].booking]]
<1>0. req[w].pc = "update_evaluated" /\ RowFree(w) /\ UNCHANGED <<owner, usages>>
  BY DEF UpdateLock, tables
<1>1. req'[w] = r /\ \A v \in Handlers \ {w} : req'[v] = req[v]
  BY BecomeOnly DEF IndInv, UpdateLock
<1>2. r.pc = "update_locked" /\ r.booking = req[w].booking
  <2>1. req[w] \in Request
    BY DEF IndInv, TypeOK
  <2> QED
    BY <2>1 DEF Request
<1> HIDE DEF r
<1>3. CreatesAreFresh'
  BY <1>0, <1>1, <1>2 DEF IndInv, Order, CreatesAreFresh
<1>4. NoRowsBeforeBooking' /\ UpdatesExist'
  BY <1>0, <1>1, <1>2
     DEF IndInv, Order, NoRowsBeforeBooking, UpdatesExist, UsagesOf
<1>5. LockExclusive'
  BY <1>0, <1>1, <1>2 DEF IndInv, Locking, LockExclusive, Holding, RowFree
<1>6. FoundIsCurrent'
  BY <1>0, <1>1, <1>2 DEF IndInv, Locking, FoundIsCurrent, UsagesOf
<1> QED
  BY <1>3, <1>4, <1>5, <1>6 DEF Order, Locking

LEMMA ClearFindKeeps ==
    ASSUME IndInv, NEW w \in Handlers, ClearFind(w)
    PROVE  Order' /\ Locking'
<1> DEFINE r == [req[w] EXCEPT !.pc = "update_found",
                               !.found = UsagesOf(req[w].booking)]
<1>0. req[w].pc = "update_locked" /\ UNCHANGED <<owner, usages>>
  BY DEF ClearFind, tables
<1>1. req'[w] = r /\ \A v \in Handlers \ {w} : req'[v] = req[v]
  BY BecomeOnly DEF IndInv, ClearFind
<1>2. r.pc = "update_found" /\ r.booking = req[w].booking
      /\ r.found = UsagesOf(req[w].booking)
  <2>1. req[w] \in Request
    BY DEF IndInv, TypeOK
  <2> QED
    BY <2>1 DEF Request
<1> HIDE DEF r
<1>3. CreatesAreFresh'
  BY <1>0, <1>1, <1>2 DEF IndInv, Order, CreatesAreFresh
<1>4. NoRowsBeforeBooking' /\ UpdatesExist'
  BY <1>0, <1>1, <1>2
     DEF IndInv, Order, NoRowsBeforeBooking, UpdatesExist, UsagesOf
<1>5. LockExclusive'
  BY <1>0, <1>1, <1>2 DEF IndInv, Locking, LockExclusive, Holding
<1>6. FoundIsCurrent'
  BY <1>0, <1>1, <1>2 DEF IndInv, Locking, FoundIsCurrent, UsagesOf
<1> QED
  BY <1>3, <1>4, <1>5, <1>6 DEF Order, Locking

\* Writing the rows of one booking, by a request that alone may, ends it.
LEMMA CommitKeeps ==
    ASSUME IndInv, NEW w \in Handlers, Finish(w),
           NEW b \in Bookings, b = req[w].booking,
           \A v \in Handlers \ {w} :
               req[v].pc \in {"create_evaluated", "update_found"}
               => req[v].booking # b,
           owner'[b] # Absent,
           \A c \in Bookings \ {b} :
               owner'[c] = owner[c]
               /\ {u \in usages' : u.booking = c} = UsagesOf(c)
    PROVE  Order' /\ Locking'
<1>1. req'[w] = Idle /\ \A v \in Handlers \ {w} : req'[v] = req[v]
  BY BecomeOnly DEF IndInv, Finish
<1>2. Idle.pc = "idle" /\ Idle.booking = NoBooking
  BY DEF Idle
<1>3. \A v \in Handlers : req[v].pc # "idle" =>
          req[v].booking \in Bookings /\ req[v].booking # NoBooking
  BY RequestFields, PromoAssumption DEF IndInv
<1>4. CreatesAreFresh'
  BY <1>1, <1>2, <1>3 DEF IndInv, Order, CreatesAreFresh
<1>5. NoRowsBeforeBooking'
  BY DEF IndInv, Order, NoRowsBeforeBooking, UsagesOf
<1>6. UpdatesExist'
  BY <1>1, <1>2, <1>3 DEF IndInv, Order, UpdatesExist
<1>7. LockExclusive'
  BY <1>1, <1>2 DEF IndInv, Locking, LockExclusive, Holding
<1>8. FoundIsCurrent'
  BY <1>1, <1>2, <1>3 DEF IndInv, Locking, FoundIsCurrent, UsagesOf
<1> QED
  BY <1>4, <1>5, <1>6, <1>7, <1>8 DEF Order, Locking

ByPromo(S, q) == {u \in S : u.promo = q}
ByBooking(S, b) == {u \in S : u.booking = b}

\* Adding and removing redemptions, as the counter sees it.
LEMMA AddRow ==
    ASSUME NEW S, IsFiniteSet(S), NEW row, row \notin S, NEW q
    PROVE  Cardinality(ByPromo(S \cup {row}, q))
           = Cardinality(ByPromo(S, q)) + (IF row.promo = q THEN 1 ELSE 0)
<1> DEFINE R == ByPromo(S, q)
           T == ByPromo(S \cup {row}, q)
<1>1. IsFiniteSet(R) /\ Cardinality(R) \in Nat
  BY FS_Subset, FS_CardinalityType DEF ByPromo
<1>2. CASE row.promo = q
  <2>1. T = R \cup {row} /\ row \notin R
    BY <1>2 DEF ByPromo
  <2>2. Cardinality(R \cup {row}) = Cardinality(R) + 1
    BY <1>1, <2>1, FS_AddElement
  <2> QED
    BY <1>2, <2>1, <2>2
<1>3. CASE row.promo # q
  <2>1. T = R
    BY <1>3 DEF ByPromo
  <2> QED
    BY <1>1, <1>3, <2>1
<1> QED
  BY <1>2, <1>3

LEMMA RemoveRows ==
    ASSUME NEW S, IsFiniteSet(S), NEW F \in SUBSET S, NEW q
    PROVE  Cardinality(ByPromo(S \ F, q))
           = Cardinality(ByPromo(S, q)) - Cardinality(ByPromo(F, q))
<1> DEFINE R == ByPromo(S, q)
           G == ByPromo(F, q)
           T == ByPromo(S \ F, q)
<1>1. IsFiniteSet(R)
  BY FS_Subset DEF ByPromo
<1>2. T = R \ G /\ R \cap G = G
  BY DEF ByPromo
<1>3. Cardinality(R \ G) = Cardinality(R) - Cardinality(R \cap G)
  BY <1>1, FS_Difference
<1> QED
  BY <1>2, <1>3

LEMMA CreateCommitCounts ==
    ASSUME IndInv, NEW w \in Handlers, CreateCommit(w)
    PROVE  Counting' /\ Order' /\ Locking'
<1> DEFINE r == req[w]
           b == r.booking
           row == RowOf(r)
<1>1. /\ r.pc = "create_evaluated" /\ Finish(w)
      /\ b \in Bookings /\ r.promo \in Promos /\ r.client \in Buyers
  BY RequestFields DEF IndInv, CreateCommit
<1>2. /\ owner' = [owner EXCEPT ![b] = r.client]
      /\ usages' = usages \cup {row}
      /\ promoOf' = [promoOf EXCEPT ![b] = r.promo]
      /\ usageCount' = [usageCount EXCEPT ![r.promo] = @ + 1]
  BY DEF CreateCommit, RowOf
<1>3. row.promo = r.promo /\ row.booking = b
  BY DEF RowOf
<1>4. UsagesOf(b) = {}
  BY <1>1 DEF IndInv, Order, CreatesAreFresh, NoRowsBeforeBooking
<1>5. row \notin usages
  BY <1>3, <1>4 DEF UsagesOf
<1>6. /\ owner \in [Bookings -> Buyers \cup {Absent}]
      /\ promoOf \in [Bookings -> Promos \cup {NoPromo}]
      /\ usageCount \in [Promos -> Int]
      /\ IsFiniteSet(usages)
  BY DEF IndInv, TypeOK, Counting
<1>7. \A v \in Handlers \ {w} : req[v].booking # b
  BY <1>1 DEF IndInv, Order, CreatesAreFresh
<1> HIDE DEF row
<1>u. \A c \in Bookings \ {b} : UsagesOf(c)' = UsagesOf(c)
  BY <1>2, <1>3 DEF UsagesOf
<1>v. ByBooking(usages', b) = {row}
  BY <1>2, <1>3, <1>4 DEF UsagesOf, ByBooking
<1>8. IsFiniteSet(usages')
  BY <1>2, <1>6, FS_AddElement
<1>9. UsageCountExact'
  <2>1. ASSUME NEW q \in Promos
        PROVE  usageCount'[q] = Cardinality(Redeemed(q)')
    <3>0. Redeemed(q) = ByPromo(usages, q) /\ Redeemed(q)' = ByPromo(usages', q)
      BY DEF Redeemed, ByPromo
    <3>1. Cardinality(Redeemed(q)')
          = Cardinality(Redeemed(q)) + (IF row.promo = q THEN 1 ELSE 0)
      BY <1>2, <1>5, <1>6, <3>0, AddRow
    <3>2. usageCount[q] = Cardinality(Redeemed(q))
      BY DEF IndInv, Counting, UsageCountExact
    <3> QED
      BY <1>2, <1>3, <1>6, <3>1, <3>2
  <2> QED
    BY <2>1 DEF UsageCountExact
<1>10. BookingShowsItsUsage'
  <2>1. ASSUME NEW c \in Bookings
        PROVE  {u.promo : u \in UsagesOf(c)'} = {promoOf'[c]} \ {NoPromo}
    <3>1. CASE c = b
      <4>1. promoOf'[c] = r.promo /\ r.promo # NoPromo
        BY <1>1, <1>2, <1>6, <3>1, PromoAssumption
      <4>2. {u.promo : u \in {row}} = {r.promo}
        BY <1>3
      <4>3. UsagesOf(c)' = ByBooking(usages', b)
        BY <3>1 DEF UsagesOf, ByBooking
      <4> QED
        BY <1>v, <4>1, <4>2, <4>3
    <3>2. CASE c # b
      BY <1>2, <1>6, <1>u, <3>2 DEF IndInv, Counting, BookingShowsItsUsage
    <3> QED
      BY <3>1, <3>2
  <2> QED
    BY <2>1 DEF BookingShowsItsUsage
<1>11. Order' /\ Locking'
  <2>1. owner'[b] # Absent
    BY <1>1, <1>2, <1>6, PromoAssumption DEF Buyers
  <2>2. \A c \in Bookings \ {b} :
          owner'[c] = owner[c] /\ {u \in usages' : u.booking = c} = UsagesOf(c)
    BY <1>2, <1>6, <1>u DEF UsagesOf
  <2> QED
    BY <1>1, <1>7, <2>1, <2>2, CommitKeeps
<1> QED
  BY <1>8, <1>9, <1>10, <1>11 DEF Counting

LEMMA UpdateCommitCounts ==
    ASSUME IndInv, NEW w \in Handlers, UpdateCommit(w)
    PROVE  Counting' /\ Order' /\ Locking'
<1> DEFINE r == req[w]
           b == r.booking
           row == RowOf(r)
           kept == usages \ UsagesOf(b)
<1>1. /\ r.pc = "update_found" /\ Finish(w)
      /\ b \in Bookings /\ r.promo \in Promos \cup {NoPromo}
      /\ r.client \in Buyers
  BY RequestFields DEF IndInv, UpdateCommit
<1>2. r.found = UsagesOf(b)
  BY <1>1 DEF IndInv, Locking, FoundIsCurrent
<1>3. row.promo = r.promo /\ row.booking = b
  BY DEF RowOf
<1>4. usages' = IF r.promo = NoPromo THEN kept ELSE kept \cup {row}
  <2>1. kept = IF r.found = {} THEN usages ELSE usages \ UsagesOf(b)
    BY <1>2
  <2>2. {[promo |-> q, booking |-> b, client |-> r.client] :
             q \in {r.promo} \ {NoPromo}}
        = IF r.promo = NoPromo THEN {} ELSE {row}
    BY DEF RowOf
  <2> QED
    BY <2>1, <2>2 DEF UpdateCommit
<1>5. /\ owner' = owner
      /\ promoOf' = [promoOf EXCEPT ![b] = r.promo]
      /\ usageCount' = Recounted(UsagesOf(b), r.promo)
  BY <1>2 DEF UpdateCommit
<1>6. /\ owner \in [Bookings -> Buyers \cup {Absent}]
      /\ promoOf \in [Bookings -> Promos \cup {NoPromo}]
      /\ usageCount \in [Promos -> Int]
      /\ IsFiniteSet(usages)
  BY DEF IndInv, TypeOK, Counting
<1>7. UsagesOf(b) \in SUBSET usages /\ row \notin kept
  BY <1>3 DEF UsagesOf
<1> HIDE DEF row
<1>u. \A c \in Bookings \ {b} : UsagesOf(c)' = UsagesOf(c)
  BY <1>3, <1>4 DEF UsagesOf
<1>v. ByBooking(usages', b) = IF r.promo = NoPromo THEN {} ELSE {row}
  BY <1>3, <1>4 DEF UsagesOf, ByBooking
<1>8. IsFiniteSet(kept)
  BY <1>6, FS_Subset
<1> HIDE DEF kept
<1>9. IsFiniteSet(usages')
  BY <1>4, <1>8, FS_AddElement
<1>10. UsageCountExact'
  <2>1. ASSUME NEW q \in Promos
        PROVE  usageCount'[q] = Cardinality(Redeemed(q)')
    <3> DEFINE gone == Cardinality(ByPromo(UsagesOf(b), q))
               rest == Cardinality(ByPromo(kept, q))
    <3>0. Redeemed(q) = ByPromo(usages, q) /\ Redeemed(q)' = ByPromo(usages', q)
      BY DEF Redeemed, ByPromo
    <3>1. usageCount'[q] = usageCount[q] - gone + (IF q = r.promo THEN 1 ELSE 0)
      BY <1>5 DEF Recounted, ByPromo
    <3>2. rest = usageCount[q] - gone
      <4>1. usageCount[q] = Cardinality(Redeemed(q))
        BY DEF IndInv, Counting, UsageCountExact
      <4> QED
        BY <1>6, <1>7, <3>0, <4>1, RemoveRows DEF kept
    <3>3. gone \in Nat /\ usageCount[q] \in Int
      <4>1. IsFiniteSet(ByPromo(UsagesOf(b), q))
        BY <1>6, <1>7, FS_Subset DEF ByPromo
      <4> QED
        BY <1>6, <4>1, FS_CardinalityType
    <3>4. CASE r.promo = NoPromo
      <4>1. Cardinality(Redeemed(q)') = rest
        BY <1>4, <3>0, <3>4
      <4>2. q # r.promo
        BY <3>4, PromoAssumption
      <4> HIDE DEF gone, rest
      <4> QED
        BY <3>1, <3>2, <3>3, <4>1, <4>2
    <3>5. CASE r.promo # NoPromo
      <4>1. Cardinality(Redeemed(q)') = rest + (IF row.promo = q THEN 1 ELSE 0)
        BY <1>4, <1>7, <1>8, <3>0, <3>5, AddRow
      <4> HIDE DEF gone, rest
      <4> QED
        BY <1>3, <3>1, <3>2, <3>3, <4>1
    <3> QED
      BY <3>4, <3>5
  <2> QED
    BY <2>1 DEF UsageCountExact
<1>11. BookingShowsItsUsage'
  <2>1. ASSUME NEW c \in Bookings
        PROVE  {u.promo : u \in UsagesOf(c)'} = {promoOf'[c]} \ {NoPromo}
    <3>1. CASE c = b
      <4>1. promoOf'[c] = r.promo
        BY <1>1, <1>5, <1>6, <3>1
      <4>2. {u.promo : u \in {row}} = {r.promo}
        BY <1>3
      <4>3. UsagesOf(c)' = ByBooking(usages', b)
        BY <3>1 DEF UsagesOf, ByBooking
      <4> QED
        BY <1>v, <4>1, <4>2, <4>3
    <3>2. CASE c # b
      BY <1>5, <1>6, <1>u, <3>2 DEF IndInv, Counting, BookingShowsItsUsage
    <3> QED
      BY <3>1, <3>2
  <2> QED
    BY <2>1 DEF BookingShowsItsUsage
<1>12. Order' /\ Locking'
  <2>1. owner'[b] # Absent
    BY <1>1, <1>5 DEF IndInv, Order, UpdatesExist
  <2>2. \A c \in Bookings \ {b} :
          owner'[c] = owner[c] /\ {u \in usages' : u.booking = c} = UsagesOf(c)
    BY <1>5, <1>u DEF UsagesOf
  <2>3. \A v \in Handlers \ {w} :
          req[v].pc \in {"create_evaluated", "update_found"} => req[v].booking # b
    <3>1. Holding(w)
      BY <1>1 DEF Holding
    <3>2. \A v \in Handlers \ {w} : req[v].pc = "update_found" => req[v].booking # b
      BY <3>1 DEF IndInv, Locking, LockExclusive, Holding
    <3>3. \A v \in Handlers \ {w} :
              req[v].pc = "create_evaluated" => req[v].booking # b
      BY DEF IndInv, Order, CreatesAreFresh
    <3> QED
      BY <3>2, <3>3
  <2> QED
    BY <1>1, <2>1, <2>2, <2>3, CommitKeeps
<1> QED
  BY <1>9, <1>10, <1>11, <1>12 DEF Counting

\* A step that writes no redemption, no counter and no promoCode keeps the count.
LEMMA CountingStays ==
    ASSUME IndInv, UNCHANGED <<usages, usageCount, promoOf>>
    PROVE  Counting'
BY DEF IndInv, Counting, UsageCountExact, BookingShowsItsUsage, Redeemed, UsagesOf

LEMMA NextKeeps ==
    ASSUME IndInv, [Next]_vars
    PROVE  Order' /\ Locking' /\ Counting'
<1>1. ASSUME NEW b \in Bookings, NEW c \in Buyers, CreatePlain(b, c)
      PROVE  Order' /\ Locking' /\ Counting'
  <2>1. /\ owner' = [owner EXCEPT ![b] = c] /\ Fresh(b)
        /\ UNCHANGED <<usages, usageCount, promoOf, req>>
    BY <1>1 DEF CreatePlain
  <2>2. owner \in [Bookings -> Buyers \cup {Absent}] /\ c # Absent
    BY PromoAssumption DEF IndInv, TypeOK, Buyers
  <2>3. CreatesAreFresh'
    BY <2>1, <2>2 DEF IndInv, Order, CreatesAreFresh, Fresh
  <2>4. NoRowsBeforeBooking' /\ UpdatesExist'
    BY <2>1, <2>2
       DEF IndInv, Order, NoRowsBeforeBooking, UpdatesExist, UsagesOf, Fresh
  <2>5. Locking'
    BY <2>1 DEF IndInv, Locking, LockExclusive, FoundIsCurrent, Holding, UsagesOf
  <2> QED
    BY <2>1, <2>3, <2>4, <2>5, CountingStays DEF Order
<1>2. ASSUME NEW w \in Handlers, NEW b \in Bookings, NEW c \in Buyers,
             NEW p \in Promos, CreateEvaluate(w, b, c, p)
      PROVE  Order' /\ Locking' /\ Counting'
  <2> DEFINE r == [Idle EXCEPT !.pc = "create_evaluated", !.booking = b,
                               !.promo = p, !.client = c]
  <2>1. r.pc = "create_evaluated" /\ r.booking = b
    BY DEF Idle
  <2>2. Become(w, r) /\ Fresh(b) /\ UNCHANGED tables
    BY <1>2 DEF CreateEvaluate
  <2> HIDE DEF r
  <2> QED
    BY <2>1, <2>2, StartKeeps, CountingStays DEF tables
<1>3. ASSUME NEW w \in Handlers, NEW b \in Bookings,
             NEW p \in Promos \cup {NoPromo}, UpdateEvaluate(w, b, p)
      PROVE  Order' /\ Locking' /\ Counting'
  <2> DEFINE r == [Idle EXCEPT !.pc = "update_evaluated", !.booking = b,
                               !.promo = p]
  <2>1. r.pc = "update_evaluated" /\ r.booking = b
    BY DEF Idle
  <2>2. Become(w, r) /\ owner[b] # Absent /\ UNCHANGED tables
    BY <1>3 DEF UpdateEvaluate
  <2> HIDE DEF r
  <2> QED
    BY <2>1, <2>2, StartKeeps, CountingStays DEF tables
<1>4. ASSUME NEW w \in Handlers, NEW b \in Bookings, NEW c \in Clients,
             ClaimRead(w, b, c)
      PROVE  Order' /\ Locking' /\ Counting'
  <2> DEFINE r == [Idle EXCEPT !.pc = "claim_read", !.booking = b, !.client = c]
  <2>1. r.pc = "claim_read" /\ r.booking = b
    BY DEF Idle
  <2>2. Become(w, r) /\ owner[b] # Absent /\ UNCHANGED tables
    BY <1>4, PromoAssumption DEF ClaimRead
  <2> HIDE DEF r
  <2> QED
    BY <2>1, <2>2, StartKeeps, CountingStays DEF tables
<1>5. ASSUME NEW w \in Handlers, CreateCommit(w)
      PROVE  Order' /\ Locking' /\ Counting'
  BY <1>5, CreateCommitCounts
<1>6. ASSUME NEW w \in Handlers, UpdateLock(w)
      PROVE  Order' /\ Locking' /\ Counting'
  BY <1>6, UpdateLockKeeps, CountingStays DEF UpdateLock, tables
<1>7. ASSUME NEW w \in Handlers, ClearFind(w)
      PROVE  Order' /\ Locking' /\ Counting'
  BY <1>7, ClearFindKeeps, CountingStays DEF ClearFind, tables
<1>8. ASSUME NEW w \in Handlers, UpdateCommit(w)
      PROVE  Order' /\ Locking' /\ Counting'
  BY <1>8, UpdateCommitCounts
<1>9. ASSUME NEW w \in Handlers, ClaimWrite(w)
      PROVE  Order' /\ Locking' /\ Counting'
  <2>1. /\ owner' = [owner EXCEPT ![req[w].booking] = req[w].client]
        /\ Finish(w) /\ UNCHANGED <<usages, usageCount, promoOf>>
        /\ req[w].pc = "claim_read"
    BY <1>9 DEF ClaimWrite
  <2>2. /\ req[w].booking \in Bookings /\ req[w].client \in Buyers
        /\ owner[req[w].booking] # Absent
    BY <2>1, RequestFields DEF IndInv, Order, UpdatesExist
  <2>3. \A c \in Bookings : owner'[c] = Absent <=> owner[c] = Absent
    BY <2>1, <2>2, PromoAssumption DEF IndInv, TypeOK, Buyers
  <2>4. req'[w] = Idle /\ \A v \in Handlers \ {w} : req'[v] = req[v]
    BY <2>1, BecomeOnly DEF IndInv, Finish
  <2>5. Idle.pc = "idle" /\ Idle.booking = NoBooking
    BY DEF Idle
  <2>6. \A v \in Handlers : req[v].pc # "idle" =>
            req[v].booking \in Bookings /\ req[v].booking # NoBooking
    BY RequestFields, PromoAssumption DEF IndInv
  <2>7. CreatesAreFresh'
    BY <2>3, <2>4, <2>5, <2>6 DEF IndInv, Order, CreatesAreFresh
  <2>8. NoRowsBeforeBooking' /\ UpdatesExist'
    BY <2>1, <2>3, <2>4, <2>5, <2>6
       DEF IndInv, Order, NoRowsBeforeBooking, UpdatesExist, UsagesOf
  <2>9. Locking'
    BY <2>1, <2>4, <2>5
       DEF IndInv, Locking, LockExclusive, FoundIsCurrent, Holding, UsagesOf
  <2> QED
    BY <2>1, <2>7, <2>8, <2>9, CountingStays DEF Order
<1>10. ASSUME NEW w \in Handlers, Crash(w)
       PROVE  Order' /\ Locking' /\ Counting'
  BY <1>10, FinishKeeps, CountingStays DEF Crash, tables
<1>11. ASSUME NEW p \in Promos, ToggleActive(p)
       PROVE  Order' /\ Locking' /\ Counting'
  <2>1. UNCHANGED <<owner, promoOf, usages, usageCount, req>>
    BY <1>11 DEF ToggleActive
  <2>2. Order' /\ Locking'
    BY <2>1 DEF IndInv, Order, CreatesAreFresh, NoRowsBeforeBooking, UpdatesExist,
                Locking, LockExclusive, FoundIsCurrent, Holding, UsagesOf
  <2> QED
    BY <2>1, <2>2, CountingStays
<1>12. CASE UNCHANGED vars
  <2>1. UNCHANGED <<owner, promoOf, usages, usageCount, req>>
    BY <1>12 DEF vars
  <2>2. Order' /\ Locking'
    BY <2>1 DEF IndInv, Order, CreatesAreFresh, NoRowsBeforeBooking, UpdatesExist,
                Locking, LockExclusive, FoundIsCurrent, Holding, UsagesOf
  <2> QED
    BY <2>1, <2>2, CountingStays
<1> QED
  BY <1>1, <1>2, <1>3, <1>4, <1>5, <1>6, <1>7, <1>8, <1>9, <1>10, <1>11, <1>12
     DEF Next, Continue

LEMMA InitIndInv == Init => IndInv
<1> SUFFICES ASSUME Init PROVE IndInv
  OBVIOUS
<1>1. TypeOK
  BY IdleIsRequest, PromoAssumption DEF Init, TypeOK
<1>2. Order /\ Locking
  BY DEF Init, Idle, Order, CreatesAreFresh, NoRowsBeforeBooking, UpdatesExist,
         Locking, LockExclusive, FoundIsCurrent, Holding, UsagesOf
<1>3. \A p \in Promos : Redeemed(p) = {}
  BY DEF Init, Redeemed
<1>4. UsageCountExact /\ IsFiniteSet(usages)
  BY <1>3, FS_EmptySet DEF Init, UsageCountExact
<1>5. BookingShowsItsUsage
  BY DEF Init, BookingShowsItsUsage, UsagesOf
<1> QED
  BY <1>1, <1>2, <1>4, <1>5 DEF IndInv, Counting

LEMMA IndInvHolds == Spec => []IndInv
<1>1. IndInv /\ [Next]_vars => IndInv'
  BY NextType, NextKeeps DEF IndInv
<1> QED
  BY <1>1, InitIndInv, PTL DEF Spec

\* Type correctness of the promo tables and of every request under way.
THEOREM PromoTypeCorrect == Spec => []TypeOK
<1>1. IndInv => TypeOK
  BY DEF IndInv
<1> QED
  BY <1>1, IndInvHolds, PTL

\* promoCode.usageCount, kept by increments and decrements in createBookingRecord
\* and clearBookingPromo, never drifts from the redemptions it counts, for every
\* number of bookings, codes, clients and concurrent requests.
THEOREM UsageCountNeverDrifts == Spec => []UsageCountExact
<1>1. IndInv => UsageCountExact
  BY DEF IndInv, Counting
<1> QED
  BY <1>1, IndInvHolds, PTL

\* booking.promoCodeId is the code of the booking's only redemption, and null when
\* it has none: the discount shown is the one that is counted.
THEOREM PromoShownIsRedeemed == Spec => []BookingShowsItsUsage
<1>1. IndInv => BookingShowsItsUsage
  BY DEF IndInv, Counting
<1> QED
  BY <1>1, IndInvHolds, PTL
(***************************************************************************)
(* Limits.  A request that has evaluated a code may redeem it whatever the *)
(* others do meanwhile: redemptions and requests in flight together stay   *)
(* below the limit plus the other handlers.  Redemptions alone are not     *)
(* inductive.                                                              *)
(***************************************************************************)
WithinReach ==
    \A p \in Promos : MaxTotal[p] \in Nat =>
        usageCount[p] + Cardinality(InFlight(p)) <= MaxTotal[p] + Cardinality(Handlers) - 1

LEMMA InFlightFinite ==
    ASSUME NEW p
    PROVE  /\ IsFiniteSet(InFlight(p)) /\ Cardinality(InFlight(p)) \in Nat
           /\ Cardinality(InFlight(p)) <= Cardinality(Handlers)
           /\ Cardinality(Handlers) \in Nat /\ Cardinality(Handlers) > 0
<1>1. InFlight(p) \in SUBSET Handlers
  BY DEF InFlight
<1> QED
  BY <1>1, PromoAssumption, FS_Subset, FS_CardinalityType, FS_EmptySet

LEMMA InFlightFiniteNext ==
    ASSUME NEW p
    PROVE  /\ Cardinality(InFlight(p))' \in Nat
           /\ Cardinality(InFlight(p))' <= Cardinality(Handlers)
<1>1. InFlight(p)' \in SUBSET Handlers
  BY DEF InFlight
<1> QED
  BY <1>1, PromoAssumption, FS_Subset, FS_CardinalityType

\* A request that goes on or ends joins no code's requests; one that ends leaves.
LEMMA GoingOn ==
    ASSUME TypeOK, NEW w \in Handlers, NEW r, Become(w, r), NEW p,
           r.pc = "idle" \/ (req[w].pc # "idle" /\ r.promo = req[w].promo)
    PROVE  /\ InFlight(p)' \subseteq InFlight(p)
           /\ r.pc = "idle" => InFlight(p)' \subseteq InFlight(p) \ {w}
<1>1. req'[w] = r /\ \A v \in Handlers \ {w} : req'[v] = req[v]
  BY BecomeOnly
<1> QED
  BY <1>1 DEF InFlight

LEMMA Starting ==
    ASSUME TypeOK, NEW w \in Handlers, NEW r, Become(w, r), NEW p
    PROVE  InFlight(p)' \subseteq InFlight(p) \cup (IF r.promo = p THEN {w} ELSE {})
<1>1. req'[w] = r /\ \A v \in Handlers \ {w} : req'[v] = req[v]
  BY BecomeOnly
<1> QED
  BY <1>1 DEF InFlight

\* What a step does to the redemptions of a code and to the requests that may
\* redeem it: nothing new; a redemption by one of those requests, which ends; or a
\* request that found the code below its limit.
CodeMoves(p) ==
    \/ usageCount'[p] <= usageCount[p] /\ InFlight(p)' \subseteq InFlight(p)
    \/ \E w \in InFlight(p) : /\ usageCount'[p] <= usageCount[p] + 1
                              /\ InFlight(p)' \subseteq InFlight(p) \ {w}
    \/ usageCount'[p] = usageCount[p] /\ BelowTotal(p)

LEMMA CommitMoves ==
    ASSUME IndInv, NEW w \in Handlers, CreateCommit(w) \/ UpdateCommit(w), NEW p \in Promos
    PROVE  CodeMoves(p)
<1> DEFINE q == req[w].promo
<1>1. Finish(w) /\ req[w].pc # "idle"
  BY DEF CreateCommit, UpdateCommit
<1>2. InFlight(p)' \subseteq InFlight(p) \ {w}
  BY <1>1, GoingOn DEF Finish, Idle, IndInv
<1>3. q = p => w \in InFlight(p)
  BY <1>1 DEF InFlight
<1>4. usageCount'[p] <= usageCount[p] + (IF q = p THEN 1 ELSE 0)
  <2>0. usageCount \in [Promos -> Int]
    BY DEF IndInv, TypeOK
  <2>1. CASE CreateCommit(w)
    <3>1. q \in Promos /\ usageCount' = [usageCount EXCEPT ![q] = @ + 1]
      BY <2>1, RequestFields DEF IndInv, CreateCommit
    <3> QED
      BY <2>0, <3>1
  <2>2. CASE UpdateCommit(w)
    <3> DEFINE found == req[w].found
               gone == {u \in found : u.promo = p}
    <3>1. usageCount' = Recounted(found, q)
      BY <2>2 DEF UpdateCommit
    <3>2. found \in SUBSET usages
      BY <2>2 DEF IndInv, Locking, FoundIsCurrent, UpdateCommit, UsagesOf
    <3>3. IsFiniteSet(found)
      BY <3>2, FS_Subset DEF IndInv, Counting
    <3>4. Cardinality(gone) \in Nat
      <4>1. gone \in SUBSET found
        OBVIOUS
      <4> QED
        BY <3>3, <4>1, FS_Subset, FS_CardinalityType
    <3>5. usageCount'[p] = usageCount[p] - Cardinality(gone) + (IF p = q THEN 1 ELSE 0)
      BY <3>1 DEF Recounted
    <3> HIDE DEF gone, q
    <3> QED
      BY <2>0, <3>4, <3>5
  <2> QED
    BY <2>1, <2>2
<1>5. usageCount[p] \in Int /\ usageCount'[p] \in Int
  BY NextType DEF IndInv, TypeOK, Next, Continue
<1>6. CASE q = p
  BY <1>2, <1>3, <1>4, <1>6 DEF CodeMoves
<1>7. CASE q # p
  <2>1. usageCount'[p] <= usageCount[p]
    BY <1>4, <1>5, <1>7
  <2> QED
    BY <1>2, <2>1 DEF CodeMoves
<1> QED
  BY <1>6, <1>7

LEMMA StepsMove ==
    ASSUME IndInv, [Next]_vars, NEW p \in Promos
    PROVE  CodeMoves(p)
<1>t. TypeOK /\ usageCount[p] \in Int
  BY DEF IndInv, TypeOK
<1>q. ASSUME UNCHANGED usageCount, InFlight(p)' \subseteq InFlight(p)
      PROVE  CodeMoves(p)
  BY <1>t, <1>q DEF CodeMoves
<1>1. ASSUME UNCHANGED <<usageCount, req>>
      PROVE  CodeMoves(p)
  BY <1>q, <1>1 DEF InFlight
<1>2. ASSUME NEW w \in Handlers, NEW b \in Bookings, NEW c \in Buyers, NEW q \in Promos,
             CreateEvaluate(w, b, c, q)
      PROVE  CodeMoves(p)
  <2> DEFINE r == [Idle EXCEPT !.pc = "create_evaluated", !.booking = b,
                               !.promo = q, !.client = c]
  <2>1. Become(w, r) /\ UNCHANGED usageCount /\ BelowTotal(q)
    BY <1>2 DEF CreateEvaluate, tables, evaluateForBooking
  <2>2. r.promo = q
    BY DEF Idle
  <2>3. CASE q = p
    BY <2>1, <2>3 DEF CodeMoves
  <2>4. CASE q # p
    <3> HIDE DEF r
    <3> QED
      BY <1>q, <1>t, <2>1, <2>2, <2>4, Starting
  <2> QED
    BY <2>3, <2>4
<1>3. ASSUME NEW w \in Handlers, NEW b \in Bookings, NEW q \in Promos \cup {NoPromo},
             UpdateEvaluate(w, b, q)
      PROVE  CodeMoves(p)
  <2> DEFINE r == [Idle EXCEPT !.pc = "update_evaluated", !.booking = b, !.promo = q]
  <2>1. Become(w, r) /\ UNCHANGED usageCount /\ (q # NoPromo => BelowTotal(q))
    BY <1>3 DEF UpdateEvaluate, tables, evaluateForBooking
  <2>2. r.promo = q /\ p # NoPromo
    BY PromoAssumption DEF Idle
  <2>3. CASE q = p
    BY <2>1, <2>2, <2>3 DEF CodeMoves
  <2>4. CASE q # p
    <3> HIDE DEF r
    <3> QED
      BY <1>q, <1>t, <2>1, <2>2, <2>4, Starting
  <2> QED
    BY <2>3, <2>4
<1>4. ASSUME NEW w \in Handlers, NEW b \in Bookings, NEW c \in Clients, ClaimRead(w, b, c)
      PROVE  CodeMoves(p)
  <2> DEFINE r == [Idle EXCEPT !.pc = "claim_read", !.booking = b, !.client = c]
  <2>1. Become(w, r) /\ UNCHANGED usageCount
    BY <1>4 DEF ClaimRead, tables
  <2>2. r.promo = NoPromo /\ p # NoPromo
    BY PromoAssumption DEF Idle
  <2> HIDE DEF r
  <2> QED
    BY <1>q, <1>t, <2>1, <2>2, Starting
<1>5. ASSUME NEW w \in Handlers, UpdateLock(w)
      PROVE  CodeMoves(p)
  <2> DEFINE r == [req[w] EXCEPT !.pc = "update_locked", !.client = owner[req[w].booking]]
  <2>1. Become(w, r) /\ UNCHANGED usageCount /\ req[w].pc # "idle"
    BY <1>5 DEF UpdateLock, tables
  <2>2. r.promo = req[w].promo
    BY <1>t, <2>1, RequestFields DEF Request
  <2> HIDE DEF r
  <2> QED
    BY <1>q, <1>t, <2>1, <2>2, GoingOn
<1>6. ASSUME NEW w \in Handlers, ClearFind(w)
      PROVE  CodeMoves(p)
  <2> DEFINE r == [req[w] EXCEPT !.pc = "update_found", !.found = UsagesOf(req[w].booking)]
  <2>1. Become(w, r) /\ UNCHANGED usageCount /\ req[w].pc # "idle"
    BY <1>6 DEF ClearFind, tables
  <2>2. r.promo = req[w].promo
    BY <1>t, <2>1, RequestFields DEF Request
  <2> HIDE DEF r
  <2> QED
    BY <1>q, <1>t, <2>1, <2>2, GoingOn
<1>7. ASSUME NEW w \in Handlers, ClaimWrite(w) \/ Crash(w)
      PROVE  CodeMoves(p)
  <2>1. Become(w, Idle) /\ UNCHANGED usageCount /\ Idle.pc = "idle"
    BY <1>7 DEF ClaimWrite, Crash, Finish, tables, Idle
  <2> QED
    BY <1>q, <1>t, <2>1, GoingOn
<1>8. ASSUME NEW b \in Bookings, NEW c \in Buyers, CreatePlain(b, c)
      PROVE  UNCHANGED <<usageCount, req>>
  BY <1>8 DEF CreatePlain
<1>9. ASSUME NEW q \in Promos, ToggleActive(q)
      PROVE  UNCHANGED <<usageCount, req>>
  BY <1>9 DEF ToggleActive
<1>10. UNCHANGED vars => UNCHANGED <<usageCount, req>>
  BY DEF vars
<1> QED
  BY <1>1, <1>2, <1>3, <1>4, <1>5, <1>6, <1>7, <1>8, <1>9, <1>10, CommitMoves
     DEF Next, Continue

LEMMA ReachStays ==
    ASSUME IndInv, WithinReach, [Next]_vars
    PROVE  WithinReach'
<1> SUFFICES ASSUME NEW p \in Promos, MaxTotal[p] \in Nat
             PROVE  usageCount'[p] + Cardinality(InFlight(p))'
                        <= MaxTotal[p] + Cardinality(Handlers) - 1
  BY DEF WithinReach
<1> DEFINE U == usageCount[p]
           I == InFlight(p)
           H == Cardinality(Handlers)
<1>1. /\ IsFiniteSet(I) /\ Cardinality(I) \in Nat /\ H \in Nat
      /\ Cardinality(I') \in Nat /\ Cardinality(I') <= H
  BY InFlightFinite, InFlightFiniteNext
<1>2. U \in Int /\ U' \in Int
  BY NextType DEF IndInv, TypeOK
<1>3. U + Cardinality(I) <= MaxTotal[p] + H - 1
  BY DEF WithinReach
<1>4. \/ U' <= U /\ I' \subseteq I
      \/ \E w \in I : U' <= U + 1 /\ I' \subseteq I \ {w}
      \/ U' = U /\ U < MaxTotal[p]
  BY StepsMove, PromoAssumption DEF CodeMoves, BelowTotal
<1> HIDE DEF U, I, H
<1>5. CASE U' <= U /\ I' \subseteq I
  <2>1. Cardinality(I') <= Cardinality(I)
    BY <1>1, <1>5, FS_Subset
  <2> QED
    BY <1>1, <1>2, <1>3, <1>5, <2>1 DEF U, I, H
<1>6. CASE \E w \in I : U' <= U + 1 /\ I' \subseteq I \ {w}
  <2>1. PICK w \in I : U' <= U + 1 /\ I' \subseteq I \ {w}
    BY <1>6
  <2>2. IsFiniteSet(I \ {w}) /\ Cardinality(I \ {w}) = Cardinality(I) - 1
    BY <1>1, FS_RemoveElement
  <2>3. Cardinality(I') <= Cardinality(I \ {w})
    BY <2>1, <2>2, FS_Subset
  <2> QED
    BY <1>1, <1>2, <1>3, <2>1, <2>2, <2>3 DEF U, I, H
<1>7. CASE U' = U /\ U < MaxTotal[p]
  BY <1>1, <1>2, <1>7 DEF U, I, H
<1> QED
  BY <1>4, <1>5, <1>6, <1>7

\* The limit is read before the redemption is written: concurrent requests overshoot
\* it by less than the number of handlers, for every number of codes and handlers.
THEOREM OvershootStaysBounded == Spec => []OvershootBounded
<1>1. Init => WithinReach
  <2> SUFFICES ASSUME Init, NEW p \in Promos, MaxTotal[p] \in Nat
               PROVE  usageCount[p] + Cardinality(InFlight(p))
                        <= MaxTotal[p] + Cardinality(Handlers) - 1
    BY DEF WithinReach
  <2>1. usageCount[p] = 0 /\ InFlight(p) = {}
    BY DEF Init, Idle, InFlight
  <2> QED
    BY <2>1, InFlightFinite, FS_EmptySet
<1>2. WithinReach /\ IndInv => OvershootBounded
  <2> SUFFICES ASSUME WithinReach, IndInv, NEW p \in Promos, MaxTotal[p] \in Nat
               PROVE  usageCount[p] <= MaxTotal[p] + Cardinality(Handlers) - 1
    BY DEF OvershootBounded
  <2>1. usageCount[p] \in Int
    BY DEF IndInv, TypeOK
  <2> QED
    BY <2>1, InFlightFinite DEF WithinReach
<1> QED
  BY <1>1, <1>2, IndInvHolds, ReachStays, PTL DEF Spec


(***************************************************************************)
(* The limit per client, requests one at a time.  What an evaluation found *)
(* holds until the redemption is written: between the two nobody redeems,  *)
(* and the booking, which an update leaves out of the count, changes hands *)
(* only by a claim, which is a request too.                                *)
(***************************************************************************)
ChargedTo(p, c, e) == {u \in Redeemed(p) : u.client = c /\ u.booking # e}

LimitedPerUser(p) == MaxPerUser[p] \notin {Unlimited, 0}

PerUserKept ==
    \A p \in Promos, c \in Clients :
        LimitedPerUser(p) => Cardinality({u \in Redeemed(p) : u.client = c}) <= MaxPerUser[p]

\* Whom a request will charge, and the booking it does not count.
Charged(w) == IF req[w].pc = "update_evaluated" THEN owner[req[w].booking] ELSE req[w].client
Excepted(w) == IF req[w].pc = "create_evaluated" THEN NoBooking ELSE req[w].booking

RequestsBelow ==
    \A w \in Handlers :
        req[w].pc # "idle" /\ req[w].promo \in Promos =>
            BelowPerUser(req[w].promo, Charged(w), Excepted(w))

LimitInv == Alone /\ IndInv /\ PerUserKept /\ RequestsBelow

LEMMA OneMore ==
    ASSUME NEW S, IsFiniteSet(S), NEW m \in Nat, NEW x, NEW T,
           \/ T \subseteq S /\ Cardinality(S) <= m
           \/ T \subseteq S \cup {x} /\ Cardinality(S) < m
    PROVE  Cardinality(T) <= m
<1>1. IsFiniteSet(S \cup {x}) /\ Cardinality(S) \in Nat
      /\ Cardinality(S \cup {x}) <= Cardinality(S) + 1 /\ Cardinality(S \cup {x}) \in Nat
  <2>1. Cardinality(S) \in Nat
    BY FS_CardinalityType
  <2>2. /\ IsFiniteSet(S \cup {x})
        /\ \/ Cardinality(S \cup {x}) = Cardinality(S)
           \/ Cardinality(S \cup {x}) = Cardinality(S) + 1
    BY FS_AddElement
  <2> QED
    BY <2>1, <2>2
<1>2. CASE T \subseteq S /\ Cardinality(S) <= m
  BY <1>1, <1>2, FS_Subset, FS_CardinalityType
<1>3. CASE T \subseteq S \cup {x} /\ Cardinality(S) < m
  BY <1>1, <1>3, FS_Subset, FS_CardinalityType
<1> QED
  BY <1>2, <1>3

LEMMA CommitKeepsLimit ==
    ASSUME LimitInv, NEW w \in Handlers, CreateCommit(w) \/ UpdateCommit(w)
    PROVE  PerUserKept'
<1> SUFFICES ASSUME NEW p \in Promos, NEW c \in Clients, LimitedPerUser(p)
             PROVE  Cardinality({u \in Redeemed(p) : u.client = c})' <= MaxPerUser[p]
  BY DEF PerUserKept, LimitedPerUser
<1> DEFINE r == req[w]
           row == RowOf(r)
           mine == r.promo = p /\ r.client = c
           taken == {u \in Redeemed(p) : u.client = c}
           others == ChargedTo(p, c, Excepted(w))
<1>1. MaxPerUser[p] \in Nat /\ c # Guest /\ NoBooking \notin Bookings
  BY PromoAssumption DEF LimitedPerUser
<1>2. IsFiniteSet(taken) /\ IsFiniteSet(others) /\ others \subseteq taken
  <2>1. taken \in SUBSET usages /\ others \in SUBSET usages
    BY DEF Redeemed, ChargedTo
  <2> QED
    BY <2>1, FS_Subset DEF LimitInv, IndInv, Counting, ChargedTo
<1>3. Cardinality(taken) <= MaxPerUser[p]
  BY DEF LimitInv, PerUserKept
<1>4. mine => Cardinality(others) < MaxPerUser[p]
  <2>1. r.pc \notin {"update_evaluated", "idle"}
    BY DEF CreateCommit, UpdateCommit
  <2>2. mine => BelowPerUser(p, c, Excepted(w))
    BY <2>1 DEF LimitInv, RequestsBelow, Charged
  <2> QED
    BY <1>1, <2>2 DEF BelowPerUser, ChargedTo, LimitedPerUser
<1>5. usages' \subseteq usages \cup {row}
      /\ \A u \in usages' \ {row} : u.booking # Excepted(w)
  <2>1. CASE CreateCommit(w)
    <3>1. usages' = usages \cup {row} /\ Excepted(w) = NoBooking
      BY <2>1 DEF CreateCommit, RowOf, Excepted
    <3>2. \A u \in usages : u.booking \in Bookings
      BY DEF LimitInv, IndInv, TypeOK, Usage
    <3> QED
      BY <1>1, <3>1, <3>2
  <2>2. CASE UpdateCommit(w)
    <3>1. Excepted(w) = r.booking /\ r.found = UsagesOf(r.booking)
      BY <2>2 DEF UpdateCommit, Excepted, LimitInv, IndInv, Locking, FoundIsCurrent
    <3>2. usages' \subseteq (usages \ UsagesOf(r.booking)) \cup {row}
      BY <2>2, <3>1 DEF UpdateCommit, RowOf
    <3> QED
      BY <3>1, <3>2 DEF UsagesOf
  <2> QED
    BY <2>1, <2>2
<1>6. row.promo = r.promo /\ row.client = r.client
  BY DEF RowOf
<1>7. CASE mine
  <2>1. taken' \subseteq others \cup {row}
    BY <1>5 DEF Redeemed, ChargedTo
  <2> HIDE DEF taken, others, row
  <2>2. Cardinality(taken') <= MaxPerUser[p]
    BY <1>1, <1>2, <1>4, <1>7, <2>1, OneMore
  <2> QED
    BY <2>2 DEF taken
<1>8. CASE ~mine
  <2>1. taken' \subseteq taken
    BY <1>5, <1>6, <1>8 DEF Redeemed
  <2> HIDE DEF taken, others, row
  <2>2. Cardinality(taken') <= MaxPerUser[p]
    BY <1>1, <1>2, <1>3, <2>1, OneMore
  <2> QED
    BY <2>2 DEF taken
<1> QED
  BY <1>7, <1>8

\* A request that starts or goes on is below the limit of what it will charge, and no
\* other is under way.
LEMMA OneRequest ==
    ASSUME LimitInv, Alone', NEW w \in Handlers, NEW r, Become(w, r),
           r.pc # "idle" \/ req[w].pc # "idle", UNCHANGED usages,
           r.pc # "idle" /\ r.promo \in Promos =>
               BelowPerUser(r.promo,
                            IF r.pc = "update_evaluated" THEN owner'[r.booking] ELSE r.client,
                            IF r.pc = "create_evaluated" THEN NoBooking ELSE r.booking)
    PROVE  PerUserKept' /\ RequestsBelow'
<1>1. req'[w] = r /\ \A v \in Handlers \ {w} : req'[v] = req[v]
  BY BecomeOnly DEF LimitInv, IndInv
<1>2. PerUserKept'
  BY DEF LimitInv, PerUserKept, Redeemed
<1>3. \A v \in Handlers \ {w} : req'[v].pc = "idle"
  BY <1>1 DEF Alone, LimitInv
<1>4. ASSUME NEW v \in Handlers, req'[v].pc # "idle", req'[v].promo \in Promos
      PROVE  BelowPerUser(req[v].promo, Charged(v), Excepted(v))'
  <2>1. v = w
    BY <1>3, <1>4
  <2>2. req'[v] = r
    BY <1>1, <2>1
  <2> QED
    BY <1>4, <2>2 DEF BelowPerUser, Redeemed, Charged, Excepted
<1> QED
  BY <1>2, <1>4 DEF RequestsBelow

LEMMA LimitStays ==
    ASSUME LimitInv, [Next /\ Alone']_vars
    PROVE  LimitInv'
<1>0. IndInv' /\ TypeOK
  BY NextType, NextKeeps DEF LimitInv, IndInv
<1>a. Alone'
  BY DEF LimitInv, Alone, vars
<1>n. NoPromo \notin Promos
  BY PromoAssumption
<1>1. ASSUME NEW w \in Handlers, NEW b \in Bookings, NEW c \in Buyers, NEW q \in Promos,
             CreateEvaluate(w, b, c, q)
      PROVE  PerUserKept' /\ RequestsBelow'
  <2> DEFINE r == [Idle EXCEPT !.pc = "create_evaluated", !.booking = b,
                               !.promo = q, !.client = c]
  <2>1. Become(w, r) /\ UNCHANGED usages /\ BelowPerUser(q, c, NoBooking)
    BY <1>1 DEF CreateEvaluate, tables, evaluateForBooking
  <2>2. r.promo = q /\ r.pc = "create_evaluated" /\ r.client = c
    BY DEF Idle
  <2> HIDE DEF r
  <2> QED
    BY <1>a, <2>1, <2>2, OneRequest
<1>2. ASSUME NEW w \in Handlers, NEW b \in Bookings, NEW q \in Promos \cup {NoPromo},
             UpdateEvaluate(w, b, q)
      PROVE  PerUserKept' /\ RequestsBelow'
  <2> DEFINE r == [Idle EXCEPT !.pc = "update_evaluated", !.booking = b, !.promo = q]
  <2>1. /\ Become(w, r) /\ UNCHANGED <<usages, owner>>
        /\ q \in Promos => BelowPerUser(q, owner[b], b)
    BY <1>2, <1>n DEF UpdateEvaluate, tables, evaluateForBooking
  <2>2. r.promo = q /\ r.pc = "update_evaluated" /\ r.booking = b
    BY DEF Idle
  <2> HIDE DEF r
  <2> QED
    BY <1>a, <2>1, <2>2, OneRequest
<1>3. ASSUME NEW w \in Handlers, NEW b \in Bookings, NEW c \in Clients, ClaimRead(w, b, c)
      PROVE  PerUserKept' /\ RequestsBelow'
  <2> DEFINE r == [Idle EXCEPT !.pc = "claim_read", !.booking = b, !.client = c]
  <2>1. Become(w, r) /\ UNCHANGED usages
    BY <1>3 DEF ClaimRead, tables
  <2>2. r.promo = NoPromo /\ r.pc = "claim_read"
    BY DEF Idle
  <2> HIDE DEF r
  <2> QED
    BY <1>a, <1>n, <2>1, <2>2, OneRequest
<1>4. ASSUME NEW w \in Handlers, UpdateLock(w) \/ ClearFind(w)
      PROVE  PerUserKept' /\ RequestsBelow'
  <2>0. req[w].promo \in Promos => BelowPerUser(req[w].promo, Charged(w), Excepted(w))
    BY <1>4 DEF LimitInv, RequestsBelow, UpdateLock, ClearFind
  <2>1. req[w] \in Request
    BY <1>0 DEF TypeOK
  <2>2. CASE UpdateLock(w)
    <3> DEFINE r == [req[w] EXCEPT !.pc = "update_locked", !.client = owner[req[w].booking]]
    <3>1. Become(w, r) /\ UNCHANGED usages /\ req[w].pc = "update_evaluated"
      BY <2>2 DEF UpdateLock, tables
    <3>2. r.promo = req[w].promo /\ r.pc = "update_locked" /\ r.booking = req[w].booking
          /\ r.client = owner[req[w].booking]
      BY <2>1 DEF Request
    <3> HIDE DEF r
    <3> QED
      BY <1>a, <2>0, <3>1, <3>2, OneRequest DEF Charged, Excepted
  <2>3. CASE ClearFind(w)
    <3> DEFINE r == [req[w] EXCEPT !.pc = "update_found", !.found = UsagesOf(req[w].booking)]
    <3>1. Become(w, r) /\ UNCHANGED usages /\ req[w].pc = "update_locked"
      BY <2>3 DEF ClearFind, tables
    <3>2. r.promo = req[w].promo /\ r.pc = "update_found" /\ r.booking = req[w].booking
          /\ r.client = req[w].client
      BY <2>1 DEF Request
    <3> HIDE DEF r
    <3> QED
      BY <1>a, <2>0, <3>1, <3>2, OneRequest DEF Charged, Excepted
  <2> QED
    BY <1>4, <2>2, <2>3
<1>5. Idle.promo = NoPromo /\ Idle.pc = "idle"
  BY DEF Idle
<1>6. ASSUME NEW w \in Handlers, ClaimWrite(w) \/ Crash(w)
      PROVE  PerUserKept' /\ RequestsBelow'
  <2>1. Become(w, Idle) /\ UNCHANGED usages /\ req[w].pc # "idle"
    BY <1>6 DEF ClaimWrite, Crash, Finish, tables
  <2> HIDE DEF Idle
  <2> QED
    BY <1>5, <1>a, <1>n, <2>1, OneRequest
<1>7. ASSUME NEW w \in Handlers, CreateCommit(w) \/ UpdateCommit(w)
      PROVE  PerUserKept' /\ RequestsBelow'
  <2>1. req'[w] = Idle /\ \A v \in Handlers \ {w} : req'[v] = req[v] /\ req[w].pc # "idle"
    BY <1>0, <1>7, BecomeOnly DEF CreateCommit, UpdateCommit, Finish
  <2>2. \A v \in Handlers : req'[v].pc = "idle"
    BY <1>5, <2>1 DEF LimitInv, Alone
  <2> QED
    BY <1>7, <2>2, CommitKeepsLimit DEF RequestsBelow
<1>8. ASSUME NEW b \in Bookings, NEW c \in Buyers, CreatePlain(b, c)
      PROVE  PerUserKept' /\ RequestsBelow'
  <2>1. UNCHANGED <<usages, req>> /\ \A w \in Handlers : owner'[req[w].booking] = owner[req[w].booking]
    BY <1>0, <1>8 DEF CreatePlain, Fresh, TypeOK
  <2> QED
    BY <2>1 DEF LimitInv, PerUserKept, RequestsBelow, BelowPerUser, Redeemed, Charged, Excepted
<1>9. ASSUME UNCHANGED <<owner, usages, req>>
      PROVE  PerUserKept' /\ RequestsBelow'
  BY <1>9 DEF LimitInv, PerUserKept, RequestsBelow, BelowPerUser, Redeemed, Charged, Excepted
<1>10. ASSUME NEW q \in Promos, ToggleActive(q)
       PROVE  UNCHANGED <<owner, usages, req>>
  BY <1>10 DEF ToggleActive
<1>11. UNCHANGED vars => UNCHANGED <<owner, usages, req>>
  BY DEF vars
<1>12. PerUserKept' /\ RequestsBelow'
  BY <1>1, <1>2, <1>3, <1>4, <1>6, <1>7, <1>8, <1>9, <1>10, <1>11 DEF Next, Continue
<1> QED
  BY <1>0, <1>a, <1>12 DEF LimitInv

\* The only request that may redeem a code has found it below its limit.
AloneReach ==
    \A p \in Promos : MaxTotal[p] \in Nat =>
        usageCount[p] + Cardinality(InFlight(p)) <= MaxTotal[p]

LEMMA AloneReachStays ==
    ASSUME IndInv, AloneReach, [Next]_vars, Alone'
    PROVE  AloneReach'
<1> SUFFICES ASSUME NEW p \in Promos, MaxTotal[p] \in Nat
             PROVE  usageCount'[p] + Cardinality(InFlight(p))' <= MaxTotal[p]
  BY DEF AloneReach
<1> DEFINE U == usageCount[p]
           I == InFlight(p)
<1>1. /\ IsFiniteSet(I) /\ Cardinality(I) \in Nat /\ Cardinality(I') \in Nat
  BY InFlightFinite, InFlightFiniteNext
<1>2. U \in Int /\ U' \in Int
  BY NextType DEF IndInv, TypeOK
<1>3. U + Cardinality(I) <= MaxTotal[p]
  BY DEF AloneReach
<1>4. \/ U' <= U /\ I' \subseteq I
      \/ \E w \in I : U' <= U + 1 /\ I' \subseteq I \ {w}
      \/ U' = U /\ U < MaxTotal[p]
  BY StepsMove, PromoAssumption DEF CodeMoves, BelowTotal
<1>5. Cardinality(I') <= 1
  <2>1. \A v, w \in I' : v = w
    BY DEF InFlight, Alone
  <2> HIDE DEF I
  <2>2. CASE I' = {}
    BY <2>2, FS_EmptySet
  <2>3. ASSUME NEW w \in I'
        PROVE  Cardinality(I') <= 1
    <3>1. I' = {w}
      BY <2>1
    <3> QED
      BY <3>1, FS_Singleton
  <2> QED
    BY <2>2, <2>3
<1> HIDE DEF U, I
<1>6. CASE U' <= U /\ I' \subseteq I
  <2>1. Cardinality(I') <= Cardinality(I)
    BY <1>1, <1>6, FS_Subset
  <2> QED
    BY <1>1, <1>2, <1>3, <1>6, <2>1 DEF U, I
<1>7. CASE \E w \in I : U' <= U + 1 /\ I' \subseteq I \ {w}
  <2>1. PICK w \in I : U' <= U + 1 /\ I' \subseteq I \ {w}
    BY <1>7
  <2>2. IsFiniteSet(I \ {w}) /\ Cardinality(I \ {w}) = Cardinality(I) - 1
    BY <1>1, FS_RemoveElement
  <2>3. Cardinality(I') <= Cardinality(I \ {w})
    BY <2>1, <2>2, FS_Subset
  <2> QED
    BY <1>1, <1>2, <1>3, <2>1, <2>2, <2>3 DEF U, I
<1>8. CASE U' = U /\ U < MaxTotal[p]
  BY <1>1, <1>2, <1>5, <1>8 DEF U, I
<1> QED
  BY <1>4, <1>6, <1>7, <1>8

LEMMA LimitsAtFirst == Init => LimitInv /\ AloneReach
<1> SUFFICES ASSUME Init
             PROVE  LimitInv /\ AloneReach
  OBVIOUS
<1>1. \A w \in Handlers : req[w].pc = "idle"
  BY DEF Init, Idle
<1>2. Alone /\ RequestsBelow
  BY <1>1 DEF Alone, RequestsBelow
<1>3. ASSUME NEW p \in Promos, NEW c \in Clients, LimitedPerUser(p)
      PROVE  Cardinality({u \in Redeemed(p) : u.client = c}) <= MaxPerUser[p]
  <2>1. {u \in Redeemed(p) : u.client = c} = {}
    BY DEF Init, Redeemed
  <2>2. MaxPerUser[p] \in Nat
    BY <1>3, PromoAssumption DEF LimitedPerUser
  <2>3. Cardinality({u \in Redeemed(p) : u.client = c}) = 0
    BY <2>1, FS_EmptySet, Zenon
  <2> QED
    BY <2>2, <2>3
<1>4. ASSUME NEW p \in Promos, MaxTotal[p] \in Nat
      PROVE  usageCount[p] + Cardinality(InFlight(p)) <= MaxTotal[p]
  <2>1. usageCount[p] = 0 /\ InFlight(p) = {}
    BY <1>1 DEF Init, InFlight
  <2> QED
    BY <1>4, <2>1, FS_EmptySet
<1> QED
  BY <1>2, <1>3, <1>4, InitIndInv DEF LimitInv, PerUserKept, AloneReach

\* Requests one at a time, a code is redeemed no more often than its total limit, and by
\* no client more often than its limit per client, for every number of handlers, bookings,
\* codes and clients, with cleared and replaced codes and claims of guest bookings.
THEOREM LimitsAreKept == AloneSpec => []LimitsRespected
<1>1. LimitInv /\ AloneReach => LimitsRespected
  <2> SUFFICES ASSUME LimitInv, AloneReach, NEW p \in Promos
               PROVE  /\ MaxTotal[p] # Unlimited => Cardinality(Redeemed(p)) <= MaxTotal[p]
                      /\ MaxPerUser[p] \notin {Unlimited, 0} => \A c \in Clients :
                            Cardinality({u \in Redeemed(p) : u.client = c}) <= MaxPerUser[p]
    BY DEF LimitsRespected
  <2>1. ASSUME MaxTotal[p] # Unlimited
        PROVE  Cardinality(Redeemed(p)) <= MaxTotal[p]
    <3>1. MaxTotal[p] \in Nat
      BY <2>1, PromoAssumption
    <3>2. usageCount[p] + Cardinality(InFlight(p)) <= MaxTotal[p]
          /\ usageCount[p] = Cardinality(Redeemed(p))
      BY <3>1 DEF AloneReach, LimitInv, IndInv, Counting, UsageCountExact
    <3>3. usageCount[p] \in Int /\ Cardinality(InFlight(p)) \in Nat
      BY InFlightFinite DEF LimitInv, IndInv, TypeOK
    <3> QED
      BY <3>1, <3>2, <3>3
  <2> QED
    BY <2>1 DEF LimitInv, PerUserKept, LimitedPerUser
<1>2. LimitInv /\ [Next /\ Alone']_vars => LimitInv'
  BY LimitStays
<1>3. LimitInv /\ AloneReach /\ [Next /\ Alone']_vars => AloneReach'
  <2>1. LimitInv /\ [Next /\ Alone']_vars => IndInv /\ [Next]_vars /\ Alone'
    BY DEF LimitInv, Alone, vars
  <2> QED
    BY <2>1, AloneReachStays
<1> QED
  BY <1>1, <1>2, <1>3, LimitsAtFirst, PTL DEF AloneSpec

(***************************************************************************)
(* What the run checks beside promo codes follows from the theorems about  *)
(* bookings and locks: in a behaviour, the part at work obeys its          *)
(* specification, and the constants it is given meet the assumptions.      *)
(***************************************************************************)
LEMMA PartsBegin ==
    InitAll => /\ part = "promos_alone" => Init
               /\ part = "racing" => Racing!Init
               /\ part = "last_seat" => LastSeat!Init
               /\ part = "locks" => Locks!Init
               /\ part = "leaking" => Leaks!Init
               /\ part = "access" => Access!Init
<1>1. Racing!Workers = LastSeat!Workers
  BY DEF Racing!Workers, LastSeat!Workers
<1>2. Racing!Init => LastSeat!Init
  BY <1>1 DEF Racing!Init, LastSeat!Init, Racing!NoRetry, LastSeat!NoRetry, Racing!Idle, LastSeat!Idle
<1> QED
  BY <1>2 DEF InitAll

LEMMA OnePartMoves ==
    [NextAll]_all =>
        /\ part' = part
        /\ part = "promos_alone" => [Next /\ Alone']_vars
        /\ part = "racing" => [Racing!Next]_(Racing!vars)
        /\ part = "last_seat" => [LastSeat!Next]_(LastSeat!vars)
        /\ part = "locks" => [Locks!Next]_(Locks!vars)
        /\ part = "leaking" => [Leaks!Next]_(Leaks!vars)
        /\ part = "access" => [Access!Next]_(Access!vars)
<1>1. ASSUME UNCHANGED all
      PROVE  /\ part' = part /\ UNCHANGED vars
             /\ UNCHANGED Racing!vars /\ UNCHANGED LastSeat!vars /\ UNCHANGED Locks!vars
             /\ UNCHANGED Leaks!vars /\ UNCHANGED Access!vars
  BY <1>1 DEF all, lifecycle, locks, access, Racing!vars, LastSeat!vars, Locks!vars, Locks!tables,
              Leaks!vars, Leaks!tables, Access!vars
<1>2. ASSUME NextAll
      PROVE  /\ part' = part
             /\ part = "promos_alone" => Next /\ Alone'
             /\ part = "racing" => Racing!Next
             /\ part = "last_seat" => LastSeat!Next
             /\ part = "locks" => Locks!Next
             /\ part = "leaking" => Leaks!Next
             /\ part = "access" => Access!Next
  BY <1>2 DEF NextAll
<1> QED
  BY <1>1, <1>2

LEMMA PartStays ==
    [NextAll]_all =>
        /\ (part = "promos_alone")' <=> part = "promos_alone"
        /\ (part = "racing")' <=> part = "racing"
        /\ (part = "last_seat")' <=> part = "last_seat"
        /\ (part = "locks")' <=> part = "locks"
        /\ (part = "leaking")' <=> part = "leaking"
        /\ (part = "access")' <=> part = "access"
BY OnePartMoves

\* LimitsRespectedAlone, for all codes and however many handlers take turns.
THEOREM LimitsAreKeptAlone == SpecAll => []LimitsRespectedAlone
BY LimitsAreKept, PartsBegin, OnePartMoves, PartStays, PTL DEF SpecAll, AloneSpec, LimitsRespectedAlone

LEMMA SmallSets ==
    ASSUME NEW a, NEW b
    PROVE  IsFiniteSet({a, b})
<1>1. IsFiniteSet({a}) /\ {a, b} = {a} \cup {b}
  BY FS_Singleton
<1> QED
  BY <1>1, FS_AddElement

LEMMA RacingConstants == Racing!ConstantsAssumption
<1>0. IsFiniteSet({p1, p2})
  BY SmallSets
<1>1. Racing!IsFiniteSet({p1, p2})
  BY <1>0 DEF IsFiniteSet, Racing!IsFiniteSet
<1>n. None \notin {p1, p2} /\ None \notin {}
  BY RequestsAssumption
<1>2. << >> \in [{} -> Seq({p1, p2})]
  OBVIOUS
<1>3. {"short_notice", "dispatch", "accept", "client_cancel", "update"} \subseteq Racing!AllKinds
  BY DEF Racing!AllKinds
<1>4. {"PENDING_PROVIDER"} \subseteq Racing!BookingStatus
  BY DEF Racing!BookingStatus
<1>5. 3 \in Nat /\ 3 >= Racing!MAX_MATCHING_RETRY_ATTEMPTS /\ 0 \in Nat /\ 1 \in Nat \ {0}
  BY DEF Racing!MAX_MATCHING_RETRY_ATTEMPTS
<1> QED
  BY <1>1, <1>n, <1>2, <1>3, <1>4, <1>5

LEMMA LastSeatConstants == LastSeat!ConstantsAssumption /\ LastSeat!OffersOnly
<1>0. IsFiniteSet({p1, p2})
  BY SmallSets
<1>1. LastSeat!IsFiniteSet({p1, p2})
  BY <1>0 DEF IsFiniteSet, LastSeat!IsFiniteSet
<1>n. None \notin {p1, p2} /\ None \notin {}
  BY RequestsAssumption
<1>2. << >> \in [{} -> Seq({p1, p2})]
  OBVIOUS
<1>3. {"short_notice", "dispatch", "accept", "decline", "client_cancel", "mission"}
          \subseteq LastSeat!AllKinds
  BY DEF LastSeat!AllKinds
<1>4. {"CONFIRMED"} \subseteq LastSeat!BookingStatus
  BY DEF LastSeat!BookingStatus
<1>5. 3 \in Nat /\ 3 >= LastSeat!MAX_MATCHING_RETRY_ATTEMPTS /\ 0 \in Nat /\ 1 \in Nat \ {0}
  BY DEF LastSeat!MAX_MATCHING_RETRY_ATTEMPTS
<1>6. LastSeat!OffersOnly
  BY DEF LastSeat!OffersOnly
<1> QED
  BY <1>1, <1>n, <1>2, <1>3, <1>4, <1>5, <1>6

LEMMA LocksConstants == Locks!LocksAssumption /\ \A v, w \in Locks!Workers : v = w
<1>0. IsFiniteSet({1, 2})
  BY SmallSets
<1>1. Locks!IsFiniteSet({1, 2})
  BY <1>0 DEF IsFiniteSet, Locks!IsFiniteSet
<1>2. [b \in {half, long} |-> IF b = half THEN morning ELSE day] \in [{half, long} -> TwoWindows]
  BY DEF TwoWindows
<1>3. None \notin Pair /\ None \notin TwoWindows
  BY RequestsAssumption
<1>4. \A v, w \in Locks!Workers : v = w
  BY DEF Locks!Workers
<1>5. 2 \in Nat /\ 2 \in Nat \ {0} /\ 1 \in Nat
  OBVIOUS
<1>6. \A v, w \in TwoWindows : <<v, w>> \in TwoWindows \X TwoWindows
                                   => <<w, v>> \in TwoWindows \X TwoWindows
  OBVIOUS
<1> QED
  BY <1>1, <1>2, <1>3, <1>4, <1>5, <1>6 DEF Locks!LocksAssumption

LEMMA LeaksConstants == Leaks!LocksAssumption
<1>0. IsFiniteSet(Pair)
  BY SmallSets DEF Pair
<1>1. Leaks!IsFiniteSet(Pair)
  BY <1>0 DEF IsFiniteSet, Leaks!IsFiniteSet
<1>2. None # day /\ None # morning
  BY RequestsAssumption DEF TwoWindows
<1>3. 2 \in Nat /\ 2 \in Nat \ {0} /\ 1 \in Nat
  OBVIOUS
<1> QED
  BY <1>1, <1>2, <1>3 DEF Leaks!LocksAssumption

\* NoCapacityLeak, for any number of workers.
THEOREM RequestsLeakNothing == SpecAll => []NoCapacityLeak
<1>1. Leaks!Spec => []Leaks!NoCapacityLeak
  BY LeaksConstants, Leaks!CapacityNeverLeaks
<1> QED
  BY <1>1, PartsBegin, OnePartMoves, PartStays, PTL DEF SpecAll, Leaks!Spec, NoCapacityLeak

\* SeatsAndLocksHold, whoever the providers and whatever the windows are.
THEOREM SeatsAndLocksAreSound == SpecAll => SeatsAndLocksHold
<1>1. Racing!Spec => []Racing!SeatStaysOpen
  BY RacingConstants, Racing!SeatStaysOpenWhileLocked
<1>2. Racing!Spec => [][\A p \in {p1, p2} : Racing!TakesAFreeSeat(p)]_(Racing!vars)
  BY RacingConstants, Racing!AcceptanceIsSafe DEF Racing!AcceptTakesAFreeSeat
<1>3. LastSeat!Spec => []LastSeat!SeatsNeverOversold
  BY LastSeatConstants, LastSeat!OffersNeverOversell
<1>4. Locks!Spec => []Locks!TypeOK
  BY LocksConstants, Locks!LocksTypeCorrect
<1>5. Locks!Spec => []Locks!BookedIsHeld
  BY LocksConstants, Locks!CountersAreExact
<1>6. Locks!Spec => []Locks!ProviderLockedOnce
  BY LocksConstants, Locks!NobodyIsLockedTwice
<1>7. Locks!Spec => [][Locks!TakesWhatFits]_(Locks!vars)
  BY LocksConstants, Locks!LocksFitTheMembers
<1>8. /\ [NextAll]_all
      /\ part = "racing" => [\A p \in {p1, p2} : Racing!TakesAFreeSeat(p)]_(Racing!vars)
      /\ part = "locks" => [Locks!TakesWhatFits]_(Locks!vars)
      => [/\ part = "racing" => \A p \in {p1, p2} : Racing!TakesAFreeSeat(p)
          /\ part = "locks" => Locks!TakesWhatFits]_all
  <2>1. NextAll /\ part = "racing" /\ UNCHANGED Racing!vars => UNCHANGED all
    BY DEF NextAll, all, lifecycle, Racing!vars
  <2>2. NextAll /\ part = "locks" /\ UNCHANGED Locks!vars => UNCHANGED all
    BY DEF NextAll, all, locks, Locks!vars, Locks!tables
  <2> QED
    BY <2>1, <2>2
<1> QED
  BY <1>1, <1>2, <1>3, <1>4, <1>5, <1>6, <1>7, <1>8, PartsBegin, OnePartMoves, PartStays, PTL
     DEF SpecAll, Racing!Spec, LastSeat!Spec, Locks!Spec, SeatsAndLocksHold

(***************************************************************************)
(* Whose a booking is.  A claim under way has read a booking without a     *)
(* client; served one at a time, no other claim gives it one before the    *)
(* write, which takes the token as well, so that nobody claims it again.   *)
(***************************************************************************)
ClaimPending ==
    \A w \in {worker} : claim[w].pc = "read" =>
        /\ claim[w].user \in Users /\ claim[w].booking \in Visits
        /\ booking[claim[w].booking].status # "none" /\ booking[claim[w].booking].client = None

ToldAreStored ==
    \A u \in Users, b \in Visits : <<u, b>> \in told => booking[b].status # "none"

AccessInv == Access!TypeOK /\ Access!ClaimedForGood /\ ClaimPending /\ ToldAreStored

LEMMA AccessAtFirst == Access!Init => AccessInv
<1>1. None \in Users \cup {None} /\ None \in Companies \cup {None} /\ None \in Pair \cup {None}
      /\ None \in Visits \cup {None}
  OBVIOUS
<1>2. Access!NoRow \in Access!Row
  BY <1>1 DEF Access!NoRow, Access!Row
<1> QED
  BY <1>1, <1>2 DEF Access!Init, Access!Idle, AccessInv, Access!TypeOK, Access!ClaimedForGood,
                    ClaimPending, ToldAreStored, Access!NoRow

\* A row of its own type that keeps who it belongs to.
LEMMA SameOwner ==
    ASSUME AccessInv, NEW b \in Visits, NEW row \in Access!Row,
           booking' = [booking EXCEPT ![b] = row], UNCHANGED <<claim, told>>,
           booking[b].status # "none", row.status # "none",
           row.client = booking[b].client, row.token = booking[b].token
    PROVE  AccessInv'
<1>1. Access!TypeOK'
  BY DEF AccessInv, Access!TypeOK, Access!Row
<1>2. \A c \in Visits : /\ booking'[c].client = booking[c].client
                        /\ booking[c].status # "none" => booking'[c].status # "none"
  BY DEF AccessInv, Access!TypeOK
<1>3. Access!ClaimedForGood' /\ ToldAreStored'
  BY <1>2 DEF AccessInv, Access!ClaimedForGood, ToldAreStored
<1>4. ClaimPending'
  BY <1>2 DEF AccessInv, ClaimPending
<1> QED
  BY <1>1, <1>3, <1>4 DEF AccessInv

\* A booking that is new is under no claim and nobody was told of it.
LEMMA NewBooking ==
    ASSUME AccessInv, NEW b \in Visits, NEW client \in Users \cup {None},
           NEW company \in Companies \cup {None}, NEW token \in Pair \cup {None},
           NEW s \in {"draft", "pending"}, token # None => client = None,
           Access!createBookingRecord(b, client, company, token, s), UNCHANGED <<claim, told>>
    PROVE  AccessInv'
<1> DEFINE row == [Access!NoRow EXCEPT !.status = s, !.client = client,
                                       !.company = company, !.token = token]
<1>0. Access!NoRow \in Access!Row
  BY {} \in SUBSET Profiles, 0 \in 0..1 DEF Access!NoRow, Access!Row
<1>1. row \in Access!Row /\ row.token = token /\ row.client = client /\ row.status = s
  BY <1>0 DEF Access!Row
<1>2. booking' = [booking EXCEPT ![b] = row] /\ booking[b].status = "none"
  BY DEF Access!createBookingRecord
<1> HIDE DEF row
<1>3. Access!TypeOK'
  BY <1>1, <1>2 DEF AccessInv, Access!TypeOK
<1>4. \A c \in Visits \ {b} : booking'[c] = booking[c]
  BY <1>2 DEF AccessInv, Access!TypeOK
<1>5. \A u \in Users : <<u, b>> \notin told
  BY <1>2 DEF AccessInv, ToldAreStored
<1>6. Access!ClaimedForGood' /\ ToldAreStored'
  BY <1>4, <1>5 DEF AccessInv, Access!ClaimedForGood, ToldAreStored
<1>7. ClaimPending'
  BY <1>2, <1>4 DEF AccessInv, ClaimPending
<1> QED
  BY <1>3, <1>6, <1>7 DEF AccessInv

LEMMA AccessStays ==
    ASSUME AccessInv, [Access!Next]_(Access!vars)
    PROVE  AccessInv'
<1> USE RequestsAssumption DEF Access!AccessAssumption
<1>0. Access!TypeOK /\ \A b \in Visits : booking[b] \in Access!Row
  BY DEF AccessInv, Access!TypeOK
<1>1. ASSUME NEW u \in Users, NEW b \in Visits, NEW r \in Users \cup {None},
             NEW c \in Companies \cup {None}, NEW s \in {"draft", "pending"},
             Access!create(u, b, r, c, s)
      PROVE  AccessInv'
  <2>1. Access!resolveClientId(u, r) \in Users \cup {None}
    BY DEF Access!resolveClientId
  <2> QED
    BY <1>1, <2>1, NewBooking DEF Access!create
<1>2. ASSUME NEW b \in Visits, NEW t \in Pair, NEW s \in {"draft", "pending"},
             Access!createGuestDraft(b, t, s)
      PROVE  AccessInv'
  BY <1>2, NewBooking DEF Access!createGuestDraft
<1>3. ASSUME NEW u \in Users, NEW b \in Visits, NEW s \in {"draft", "pending", "cancelled"},
             NEW c \in Companies \cup {None}, NEW ps \in SUBSET Profiles,
             Access!update(u, b, s, c, ps)
      PROVE  AccessInv'
  <2> DEFINE row == [booking[b] EXCEPT !.status = s, !.company = c, !.providers = ps]
  <2>1. /\ row \in Access!Row /\ row.status = s
        /\ row.client = booking[b].client /\ row.token = booking[b].token
    BY <1>0 DEF Access!Row
  <2>2. booking' = [booking EXCEPT ![b] = row] /\ booking[b].status # "none"
    BY <1>3 DEF Access!update, Access!Stored
  <2> HIDE DEF row
  <2> QED
    BY <1>3, <2>1, <2>2, SameOwner DEF Access!update
<1>4. ASSUME NEW u \in Users, NEW b \in Visits, NEW a \in BOOLEAN, Access!cancel(u, b, a)
      PROVE  AccessInv'
  <2> DEFINE row == [booking[b] EXCEPT !.status = "cancelled"]
  <2>1. /\ row \in Access!Row /\ row.status = "cancelled"
        /\ row.client = booking[b].client /\ row.token = booking[b].token
    BY <1>0 DEF Access!Row
  <2>2. booking' = [booking EXCEPT ![b] = row] /\ booking[b].status # "none"
    BY <1>4 DEF Access!cancel, Access!Stored
  <2> HIDE DEF row
  <2> QED
    BY <1>4, <2>1, <2>2, SameOwner DEF Access!cancel
<1>5. ASSUME NEW b \in Visits, Access!Dispatch(b)
      PROVE  AccessInv'
  <2> DEFINE row == [booking[b] EXCEPT !.status = "pending"]
  <2>1. /\ row \in Access!Row /\ row.status = "pending"
        /\ row.client = booking[b].client /\ row.token = booking[b].token
    BY <1>0 DEF Access!Row
  <2>2. booking' = [booking EXCEPT ![b] = row] /\ booking[b].status # "none"
    BY <1>5 DEF Access!Dispatch, Access!Stored
  <2> HIDE DEF row
  <2> QED
    BY <1>5, <2>1, <2>2, SameOwner DEF Access!Dispatch
<1>6. ASSUME NEW b \in Visits, NEW p \in Profiles, Access!Accept(b, p)
      PROVE  AccessInv'
  <2> DEFINE row == [booking[b] EXCEPT !.providers = booking[b].providers \cup {p}]
  <2>1. /\ row \in Access!Row /\ row.status = booking[b].status
        /\ row.client = booking[b].client /\ row.token = booking[b].token
    BY <1>0 DEF Access!Row
  <2>2. booking' = [booking EXCEPT ![b] = row] /\ booking[b].status # "none"
    BY <1>6 DEF Access!Accept, Access!Stored
  <2> HIDE DEF row
  <2> QED
    BY <1>6, <2>1, <2>2, SameOwner DEF Access!Accept
<1>7. ASSUME NEW b \in Visits, Access!Retried(b)
      PROVE  AccessInv'
  <2> DEFINE row == [booking[b] EXCEPT !.retries = 1]
  <2>1. /\ row \in Access!Row /\ row.status = booking[b].status
        /\ row.client = booking[b].client /\ row.token = booking[b].token
    BY <1>0, 1 \in 0..1 DEF Access!Row
  <2>2. booking' = [booking EXCEPT ![b] = row] /\ booking[b].status # "none"
    BY <1>7 DEF Access!Retried, Access!Stored
  <2> HIDE DEF row
  <2> QED
    BY <1>7, <2>1, <2>2, SameOwner DEF Access!Retried
<1>8. ASSUME NEW u \in Users, NEW b \in Visits, NEW t \in Pair, Access!ClaimRead(worker, u, b, t)
      PROVE  AccessInv'
  <2>1. /\ claim' = [claim EXCEPT ![worker] = [pc |-> "read", user |-> u, booking |-> b]]
        /\ UNCHANGED <<booking, told>>
        /\ booking[b].status # "none" /\ booking[b].token = t
    BY <1>8 DEF Access!ClaimRead, Access!MayClaim, Access!Stored
  <2>2. booking[b].client = None
    BY <1>0, <2>1 DEF Access!TypeOK
  <2>3. Access!TypeOK'
    BY <1>0, <2>1 DEF Access!TypeOK
  <2>4. ClaimPending'
    BY <1>0, <2>1, <2>2 DEF ClaimPending, Access!TypeOK
  <2> QED
    BY <2>1, <2>3, <2>4 DEF AccessInv, Access!ClaimedForGood, ToldAreStored
<1>9. ASSUME Access!ClaimWrite(worker)
      PROVE  AccessInv'
  <2> DEFINE b == claim[worker].booking
             u == claim[worker].user
             row == [booking[b] EXCEPT !.client = u, !.token = None]
  <2>1. /\ u \in Users /\ b \in Visits /\ booking[b].status # "none" /\ booking[b].client = None
    BY <1>9 DEF Access!ClaimWrite, AccessInv, ClaimPending
  <2>2. row \in Access!Row /\ row.client = u /\ row.token = None /\ row.status # "none"
    <3>1. booking[b] \in Access!Row /\ u \in Users \cup {None} /\ None \in Pair \cup {None}
      BY <1>0, <2>1
    <3> HIDE DEF b, u
    <3> QED
      BY <2>1, <3>1 DEF Access!Row
  <2>3. /\ booking' = [booking EXCEPT ![b] = row]
        /\ told' = told \cup {<<u, b>>} /\ claim' = [claim EXCEPT ![worker] = Access!Idle]
    BY <1>9 DEF Access!ClaimWrite
  <2>4. Access!TypeOK'
    <3>1. told' \in SUBSET (Users \X Visits)
      BY <1>0, <2>1, <2>3 DEF Access!TypeOK
    <3> HIDE DEF row, b, u
    <3> QED
      BY <1>0, <2>1, <2>2, <2>3, <3>1 DEF Access!TypeOK, Access!Idle
  <2>5. ClaimPending'
    BY <1>0, <2>3 DEF ClaimPending, Access!TypeOK, Access!Idle
  <2> HIDE DEF row, b, u
  <2>6. \A v \in Users : <<v, b>> \notin told
    BY <2>1 DEF AccessInv, Access!ClaimedForGood
  <2>7. booking'[b] = row /\ \A c \in Visits \ {b} : booking'[c] = booking[c]
    BY <1>0, <2>1, <2>3 DEF Access!TypeOK
  <2>8. Access!ClaimedForGood' /\ ToldAreStored'
    BY <2>2, <2>3, <2>6, <2>7 DEF AccessInv, Access!ClaimedForGood, ToldAreStored
  <2> QED
    BY <2>4, <2>5, <2>8 DEF AccessInv
<1>10. CASE UNCHANGED Access!vars
  BY <1>10 DEF Access!vars, AccessInv, Access!TypeOK, Access!ClaimedForGood, ClaimPending,
               ToldAreStored
<1> QED
  BY <1>1, <1>2, <1>3, <1>4, <1>5, <1>6, <1>7, <1>8, <1>9, <1>10
     DEF Access!Next, Access!Unfiltered

LEMMA ListAgreesWithReads ==
    ASSUME Access!TypeOK
    PROVE  Access!ListedAsReadable
<1> SUFFICES ASSUME NEW u \in Users
             PROVE  /\ \A b \in Access!findAll(u, Access!Unfiltered) : b \in Access!findOne(u)
                    /\ \A b \in Access!findOne(u) : b \notin Access!findAll(u, Access!Unfiltered) =>
                         \/ booking[b].status = "draft" /\ (Access!isClient(u) \/ Access!isCompany(u))
                         \/ booking[b].client = u /\ ~Access!isClient(u)
  BY DEF Access!ListedAsReadable
<1>1. \A b \in Access!Stored : Access!Matches(booking[b], Access!Unfiltered) /\ b \in Visits
  BY DEF Access!Stored, Access!TypeOK, Access!Row, Access!Matches, Access!Unfiltered
<1>2. \A b \in Access!buildAccessFilter(u) :
         b \in Access!Stored /\ Access!assertBookingAccess(u, booking[b], TRUE)
  BY DEF Access!buildAccessFilter, Access!assertBookingAccess
<1>3. ASSUME NEW b \in Access!findOne(u), b \notin Access!findAll(u, Access!Unfiltered)
      PROVE  \/ booking[b].status = "draft" /\ (Access!isClient(u) \/ Access!isCompany(u))
             \/ booking[b].client = u /\ ~Access!isClient(u)
  <2>1. b \in Access!Stored /\ Access!assertBookingAccess(u, booking[b], TRUE)
    BY DEF Access!findOne
  <2>2. CASE b \in Access!buildAccessFilter(u)
    BY <1>1, <1>3, <2>1, <2>2 DEF Access!findAll, Access!shouldHideDrafts
  <2>3. CASE b \notin Access!buildAccessFilter(u)
    BY <2>1, <2>3 DEF Access!buildAccessFilter, Access!assertBookingAccess
  <2> QED
    BY <2>2, <2>3
<1> QED
  BY <1>2, <1>3 DEF Access!findAll, Access!findOne

\* AccessSound, for all accounts, roles, companies and bookings: claims one at a time,
\* whoever was told of a claim keeps the booking, and list and single reads agree.
THEOREM AccessIsSound == SpecAll => []AccessSound
<1>1. AccessInv => Access!TypeOK /\ Access!ListedAsReadable /\ Access!ClaimedForGood
  BY ListAgreesWithReads DEF AccessInv
<1> QED
  BY <1>1, AccessAtFirst, AccessStays, PartsBegin, OnePartMoves, PartStays, PTL
     DEF SpecAll, AccessSound

=============================================================================
