---------------------------- MODULE PayoutsProofs ----------------------------
(***************************************************************************)
(* What Payouts keeps for every number of providers, mandates and batches: *)
(* batches lose no distribution, pages and batches agree on who is paid,   *)
(* and, one request at a time, nothing is paid twice and the rows of       *)
(* mandates follow Mollie.                                                 *)
(***************************************************************************)
EXTENDS Payouts, TLAPS

(***************************************************************************)
(* Types.                                                                  *)
(***************************************************************************)
LEMMA IdleIsRequest == Idle \in Request
BY DEF Idle, Request, Phases, MandateStatus

LEMMA BecomeTypes ==
    ASSUME TypeOK, NEW w \in Workers, NEW r \in Request, Become(w, r)
    PROVE  req' \in [Workers -> Request]
BY DEF TypeOK, Become, Request

LEMMA FinishTypes ==
    ASSUME TypeOK, NEW w \in Workers, Finish(w)
    PROVE  req' \in [Workers -> Request]
BY IdleIsRequest, BecomeTypes DEF Finish

\* The requests that begin.
Customer(r, phase, p, payout, c) ==
    [r EXCEPT !.pc = phase, !.provider = p, !.payout = payout, !.customer = c]
Hook(r, m, s) == [r EXCEPT !.pc = "mandate_fetched", !.mandate = m, !.status = s]
Reading(r, items) == [r EXCEPT !.pc = "batch_read", !.items = items]

LEMMA Begins ==
    ASSUME NEW r \in Request
    PROVE  /\ \A phase \in Phases, p \in Providers, payout \in BOOLEAN,
                 c \in Customers \cup {None} : Customer(r, phase, p, payout, c) \in Request
           /\ \A m \in Mandates, s \in MandateStatus : Hook(r, m, s) \in Request
           /\ \A items \in SUBSET Distributions : Reading(r, items) \in Request
<1>1. ASSUME NEW phase \in Phases, NEW p \in Providers, NEW payout \in BOOLEAN,
             NEW c \in Customers \cup {None}
      PROVE  Customer(r, phase, p, payout, c) \in Request
  BY DEF Customer, Request
<1>2. ASSUME NEW m \in Mandates, NEW s \in MandateStatus
      PROVE  Hook(r, m, s) \in Request
  BY DEF Hook, Request, Phases
<1>3. ASSUME NEW items \in SUBSET Distributions
      PROVE  Reading(r, items) \in Request
  BY DEF Reading, Request, Phases
<1> QED
  BY <1>1, <1>2, <1>3

LEMMA ProfilesMove ==
    ASSUME TypeOK, NEW p, NEW s \in Kyc, NEW m \in Mandates \cup {None},
           transitionProviderPayoutStatus(p, s, m)
    PROVE  profile' \in [Providers -> Profile]
<1>1. ASSUME NEW row \in Profile
      PROVE  Transitioned(row, s, m) \in Profile
  BY DEF Transitioned, Profile, Kyc, Activation
<1>2. profile \in [Providers -> Profile]
  BY DEF TypeOK
<1>3. profile' = [profile EXCEPT ![p] = Transitioned(profile[p], s, m)]
  BY DEF transitionProviderPayoutStatus
<1> QED
  BY <1>1, <1>2, <1>3

LEMMA SetUpTypes ==
    ASSUME TypeOK, NEW w \in Workers, SetUp(w)
    PROVE  TypeOK'
<1>t. req[w] \in Request
  BY DEF TypeOK, Request
<1>1. ASSUME NEW p \in Providers, NEW payout \in BOOLEAN, CustomerRead(w, p, payout)
      PROVE  TypeOK'
  <2>1. Become(w, Customer(Idle, "customer_known", p, payout, customer[p]))
    BY <1>1 DEF CustomerRead, Customer
  <2>2. "customer_known" \in Phases /\ customer[p] \in Customers \cup {None}
    BY DEF Phases, TypeOK
  <2>3. req' \in [Workers -> Request]
    BY <2>1, <2>2, IdleIsRequest, Begins, BecomeTypes
  <2> QED
    BY <1>1, <2>3 DEF CustomerRead, TypeOK, mollie, money
<1>2. ASSUME NEW p \in Providers, NEW payout \in BOOLEAN, NEW c \in Customers,
             CustomerCreate(w, p, payout, c)
      PROVE  TypeOK'
  <2>1. Become(w, Customer(Idle, "customer_created", p, payout, c))
    BY <1>2 DEF CustomerCreate, Customer
  <2>2. "customer_created" \in Phases
    BY DEF Phases
  <2>3. req' \in [Workers -> Request]
    BY <2>1, <2>2, IdleIsRequest, Begins, BecomeTypes
  <2> QED
    BY <1>2, <2>3 DEF CustomerCreate, TypeOK, mollie, money
<1>3. CASE CustomerSave(w)
  <2>1. [req[w] EXCEPT !.pc = "customer_known"] \in Request
    BY <1>t DEF Request, Phases
  <2>2. req' \in [Workers -> Request]
    BY <1>3, <2>1, BecomeTypes DEF CustomerSave
  <2>3. customer' \in [Providers -> Customers \cup {None}]
    BY <1>t, <1>3 DEF CustomerSave, TypeOK, Request
  <2> QED
    BY <1>3, <2>2, <2>3 DEF CustomerSave, TypeOK, mollie, money
<1>4. ASSUME NEW m \in Mandates, NEW s \in MandateStatus, MandateCreate(w, m, s)
      PROVE  TypeOK'
  <2>1. [req[w] EXCEPT !.pc = "mandate_created", !.mandate = m, !.status = s] \in Request
    BY <1>t DEF Request, Phases
  <2>2. req' \in [Workers -> Request]
    BY <1>4, <2>1, BecomeTypes DEF MandateCreate
  <2>3. mandate' \in [Mandates -> [customer : Customers \cup {None}, status : MandateStatus]]
    BY <1>t, <1>4 DEF MandateCreate, TypeOK, Request
  <2> QED
    BY <1>4, <2>2, <2>3 DEF MandateCreate, TypeOK, money
<1>5. CASE MandateSave(w)
  <2>1. [req[w] EXCEPT !.pc = "mandate_saved"] \in Request
    BY <1>t DEF Request, Phases
  <2>2. req' \in [Workers -> Request]
    BY <1>5, <2>1, BecomeTypes, FinishTypes DEF MandateSave
  <2>3. record' \in [Mandates -> MandateStatus \cup {"none"}]
    BY <1>t, <1>5 DEF MandateSave, upsertMollieMandateRecord, TypeOK, Request
  <2> QED
    BY <1>5, <2>2, <2>3 DEF MandateSave, TypeOK, mollie, money
<1>6. CASE PayoutSetup(w)
  <2>1. req' \in [Workers -> Request]
    BY <1>6, FinishTypes DEF PayoutSetup
  <2>2. PayoutStatusOf(req[w].status) \in Kyc /\ req[w].mandate \in Mandates \cup {None}
    BY <1>t DEF PayoutStatusOf, Kyc, Request
  <2>3. profile' \in [Providers -> Profile]
    BY <1>6, <2>2, ProfilesMove DEF PayoutSetup
  <2> QED
    BY <1>6, <2>1, <2>3 DEF PayoutSetup, TypeOK, mollie, money
<1> QED
  BY <1>1, <1>2, <1>3, <1>4, <1>5, <1>6 DEF SetUp

LEMMA BatchTypes ==
    ASSUME PayoutsAssumption, TypeOK, NEW w \in Workers, Batch(w)
    PROVE  TypeOK'
<1>t. req[w] \in Request
  BY DEF TypeOK, Request
<1>1. CASE BatchRead(w)
  <2>1. Become(w, Reading(Idle, Pending))
    BY <1>1 DEF BatchRead, Reading
  <2>2. Pending \in SUBSET Distributions
    BY DEF Pending, TypeOK
  <2>3. req' \in [Workers -> Request]
    BY <2>1, <2>2, IdleIsRequest, Begins, BecomeTypes
  <2> QED
    BY <1>1, <2>3 DEF BatchRead, TypeOK, mollie, money
<1>2. CASE BatchGroup(w)
  <2> DEFINE items == {d \in req[w].items : Eligible(ProviderOf[d])}
  <2>1. items \in SUBSET Distributions
    BY <1>t DEF Request
  <2>2. [req[w] EXCEPT !.pc = "batch_grouped", !.items = items] \in Request
    <3> HIDE DEF items
    <3> QED
      BY <1>t, <2>1 DEF Request, Phases
  <2>3. req' \in [Workers -> Request]
    BY <1>2, <2>2, BecomeTypes, FinishTypes DEF BatchGroup
  <2> QED
    BY <1>2, <2>3 DEF BatchGroup, TypeOK, mollie, money
<1>3. CASE BatchStatements(w)
  <2>1. req' \in [Workers -> Request]
    BY <1>3, FinishTypes DEF BatchStatements
  <2>2. statements' \subseteq PayoutId
    BY <1>3 DEF BatchStatements, TypeOK, Payout, PayoutId
  <2> QED
    BY <1>3, <2>1, <2>2 DEF BatchStatements, TypeOK, mollie
<1>4. ASSUME NEW b \in Batches, BatchCommit(w, b)
      PROVE  TypeOK'
  <2>1. [req[w] EXCEPT !.pc = "batch_committed", !.batch = b] \in Request
    BY <1>t DEF Request, Phases
  <2>2. req' \in [Workers -> Request]
    BY <1>4, <2>1, BecomeTypes DEF BatchCommit
  <2>3. req[w].items \in SUBSET Distributions
    BY <1>t DEF Request
  <2>4. Grouped(b, req[w].items) \subseteq Payout
    BY <2>3 DEF Grouped, Payout, PayoutsAssumption
  <2>5. dist' \in [Distributions -> Row]
    <3>1. ASSUME NEW d \in Distributions
          PROVE  Marked(b, req[w].items)[d] \in Row
      BY DEF Marked, TypeOK, Row, PayoutId, PayoutsAssumption
    <3> QED
      BY <1>4, <3>1 DEF BatchCommit, Marked
  <2>6. payouts' \subseteq Payout
    BY <1>4, <2>4 DEF BatchCommit, TypeOK
  <2> QED
    BY <1>4, <2>2, <2>5, <2>6 DEF BatchCommit, TypeOK, mollie, Row
<1> QED
  BY <1>1, <1>2, <1>3, <1>4 DEF Batch

LEMMA OtherTypes ==
    ASSUME PayoutsAssumption, TypeOK,
           \/ \E w \in Workers : MandateHookSave(w) \/ Abort(w)
           \/ \E m \in Mandates :
                 \/ \E s \in MandateStatus : MandateMoves(m, s)
                 \/ \E w \in Workers : MandateHookFetch(w, m)
                 \/ MandateHookFails(m)
           \/ \E p \in Providers, s \in Kyc : updateProviderPayoutStatus(p, s)
           \/ \E d \in Distributions : Distribute(d) \/ PaymentMoves(d)
           \/ UNCHANGED vars
    PROVE  TypeOK'
<1>1. ASSUME NEW w \in Workers, MandateHookSave(w)
      PROVE  TypeOK'
  <2>1. req' \in [Workers -> Request]
    BY <1>1, FinishTypes DEF MandateHookSave
  <2>2. req[w].status \in MandateStatus
    BY DEF TypeOK, Request
  <2>3. record' \in [Mandates -> MandateStatus \cup {"none"}]
    BY <1>1, <2>2 DEF MandateHookSave, upsertMollieMandateRecord, TypeOK
  <2> QED
    BY <1>1, <2>1, <2>3 DEF MandateHookSave, TypeOK, mollie, money
<1>2. ASSUME NEW w \in Workers, Abort(w)
      PROVE  TypeOK'
  <2>1. req' \in [Workers -> Request]
    BY <1>2, FinishTypes DEF Abort
  <2>2. faults' \in 0..MaxFaults
    BY <1>2 DEF Abort, TypeOK, PayoutsAssumption
  <2> QED
    BY <1>2, <2>1, <2>2 DEF Abort, TypeOK, mollie, money
<1>3. ASSUME NEW m \in Mandates, NEW s \in MandateStatus, MandateMoves(m, s)
      PROVE  TypeOK'
  BY <1>3 DEF MandateMoves, TypeOK, money
<1>4. ASSUME NEW m \in Mandates, NEW w \in Workers, MandateHookFetch(w, m)
      PROVE  TypeOK'
  <2>1. Become(w, Hook(Idle, m, mandate[m].status)) \/ UNCHANGED req
    BY <1>4, Zenon DEF MandateHookFetch, Hook
  <2>2. mandate[m].status \in MandateStatus
    BY DEF TypeOK
  <2>3. req' \in [Workers -> Request]
    BY <2>1, <2>2, IdleIsRequest, Begins, BecomeTypes DEF TypeOK
  <2> QED
    BY <1>4, <2>3 DEF MandateHookFetch, TypeOK, money
<1>5. ASSUME NEW m \in Mandates, MandateHookFails(m)
      PROVE  TypeOK'
  BY <1>5 DEF MandateHookFails, TypeOK, money, PayoutsAssumption
<1>6. ASSUME NEW p \in Providers, NEW s \in Kyc, updateProviderPayoutStatus(p, s)
      PROVE  TypeOK'
  <2>1. profile' \in [Providers -> Profile]
    BY <1>6, ProfilesMove DEF updateProviderPayoutStatus
  <2> QED
    BY <1>6, <2>1 DEF updateProviderPayoutStatus, TypeOK, mollie, money
<1>7. ASSUME NEW d \in Distributions, Distribute(d) \/ PaymentMoves(d)
      PROVE  TypeOK'
  BY <1>7 DEF Distribute, PaymentMoves, TypeOK, Row, mollie
<1>8. CASE UNCHANGED vars
  BY <1>8 DEF vars, mollie, money, TypeOK
<1> QED
  BY <1>1, <1>2, <1>3, <1>4, <1>5, <1>6, <1>7, <1>8

LEMMA TypesStay == PayoutsAssumption /\ TypeOK /\ [Next]_vars => TypeOK'
BY SetUpTypes, BatchTypes, OtherTypes DEF Next

LEMMA TypesAtFirst == PayoutsAssumption /\ Init => TypeOK
<1> SUFFICES ASSUME PayoutsAssumption, Init
             PROVE  TypeOK
  OBVIOUS
<1>1. req \in [Workers -> Request] /\ faults \in 0..MaxFaults
  BY IdleIsRequest DEF Init, PayoutsAssumption
<1>2. /\ customer \in [Providers -> Customers \cup {None}]
      /\ mandate \in [Mandates -> [customer : Customers \cup {None}, status : MandateStatus]]
      /\ record \in [Mandates -> MandateStatus \cup {"none"}]
  BY DEF Init, MandateStatus
<1>3. profile \in [Providers -> Profile]
  BY DEF Init, Profile, Kyc, Activation
<1>4. dist \in [Distributions -> Row]
  BY DEF Init, Row
<1> QED
  BY <1>1, <1>2, <1>3, <1>4 DEF Init, TypeOK

\* Every row and every request holds a value of its type, whatever batches, set-ups,
\* webhooks and operators do at the same time.
THEOREM PayoutsTypeCorrect ==
    ASSUME PayoutsAssumption
    PROVE  Spec => []TypeOK
BY TypesAtFirst, TypesStay, PTL DEF Spec

(***************************************************************************)
(* Batches lose nothing.  The commit writes a payout's items and marks the *)
(* same distributions in one transaction, and nothing else writes either:  *)
(* what the requests read in between plays no part.                        *)
(***************************************************************************)
LEMMA MarkedRows ==
    ASSUME NEW b, NEW items, NEW d \in Distributions
    PROVE  /\ d \in items => /\ Marked(b, items)[d].status = "processing"
                             /\ Marked(b, items)[d].payout = <<b, ProviderOf[d]>>
           /\ d \notin items => Marked(b, items)[d] = dist[d]
BY DEF Marked

LEMMA CommitPays ==
    ASSUME PayoutsAssumption, TypeOK, ProcessingIsPaidOut, NEW w \in Workers, NEW b \in Batches,
           BatchCommit(w, b)
    PROVE  ProcessingIsPaidOut'
<1> DEFINE items == req[w].items
<1>1. items \in SUBSET Distributions
  BY DEF TypeOK, Request
<1>2. /\ payouts' = payouts \cup Grouped(b, items)
      /\ \A d \in Distributions :
            /\ d \in items => /\ dist'[d].status = "processing"
                              /\ dist'[d].payout = <<b, ProviderOf[d]>>
            /\ d \notin items => dist'[d] = dist[d]
  BY MarkedRows DEF BatchCommit
<1> HIDE DEF items
<1>3. ASSUME NEW d \in Distributions, dist'[d].status = "processing"
      PROVE  \E x \in payouts' : d \in x.items /\ dist'[d].payout = <<x.batch, x.provider>>
  <2>1. CASE d \in items
    <3> DEFINE x == [batch |-> b, provider |-> ProviderOf[d],
                     items |-> {e \in items : ProviderOf[e] = ProviderOf[d]}]
    <3>1. x \in Grouped(b, items)
      BY <2>1 DEF Grouped
    <3>2. d \in x.items /\ dist'[d].payout = <<x.batch, x.provider>>
      BY <1>2, <2>1
    <3> QED
      BY <1>2, <3>1, <3>2
  <2>2. CASE d \notin items
    BY <1>2, <1>3, <2>2 DEF ProcessingIsPaidOut
  <2> QED
    BY <2>1, <2>2
<1>4. ASSUME NEW x \in payouts', NEW d \in x.items
      PROVE  dist'[d].status = "processing" /\ x.provider = ProviderOf[d]
  <2>1. CASE x \in payouts
    <3>1. d \in Distributions
      BY <2>1 DEF TypeOK, Payout
    <3>2. dist[d].status = "processing" /\ x.provider = ProviderOf[d]
      BY <2>1 DEF ProcessingIsPaidOut
    <3> QED
      BY <1>2, <3>1, <3>2
  <2>2. CASE x \in Grouped(b, items)
    <3>1. d \in items /\ x.provider = ProviderOf[d]
      BY <2>2 DEF Grouped
    <3> QED
      BY <1>1, <1>2, <3>1
  <2> QED
    BY <1>2, <2>1, <2>2
<1> QED
  BY <1>3, <1>4 DEF ProcessingIsPaidOut

LEMMA PaidOutStays ==
    ASSUME PayoutsAssumption, TypeOK, ProcessingIsPaidOut, [Next]_vars
    PROVE  ProcessingIsPaidOut'
<1>1. ASSUME UNCHANGED <<dist, payouts>>
      PROVE  ProcessingIsPaidOut'
  BY <1>1 DEF ProcessingIsPaidOut
<1>2. ASSUME NEW d \in Distributions, Distribute(d)
      PROVE  ProcessingIsPaidOut'
  <2>1. /\ dist[d].status = "none" /\ dist'[d].status = "pending" /\ UNCHANGED payouts
        /\ \A e \in Distributions \ {d} : dist'[e] = dist[e]
    BY <1>2 DEF Distribute, TypeOK, Row
  <2>2. \A x \in payouts : x.items \subseteq Distributions \ {d}
    BY <2>1 DEF ProcessingIsPaidOut, TypeOK, Payout
  <2> QED
    BY <2>1, <2>2 DEF ProcessingIsPaidOut
<1>3. ASSUME NEW w \in Workers,
             SetUp(w) \/ BatchRead(w) \/ BatchGroup(w) \/ BatchStatements(w)
             \/ MandateHookSave(w) \/ Abort(w)
      PROVE  UNCHANGED <<dist, payouts>>
  BY <1>3 DEF SetUp, CustomerRead, CustomerCreate, CustomerSave, MandateCreate,
              MandateSave, PayoutSetup, BatchRead, BatchGroup, BatchStatements,
              MandateHookSave, Abort, money
<1>4. ASSUME NEW m \in Mandates,
             \/ \E s \in MandateStatus : MandateMoves(m, s)
             \/ \E w \in Workers : MandateHookFetch(w, m)
             \/ MandateHookFails(m)
      PROVE  UNCHANGED <<dist, payouts>>
  BY <1>4 DEF MandateMoves, MandateHookFetch, MandateHookFails, money
<1>5. ASSUME NEW p \in Providers, NEW s \in Kyc, updateProviderPayoutStatus(p, s)
      PROVE  UNCHANGED <<dist, payouts>>
  BY <1>5 DEF updateProviderPayoutStatus, money
<1>6. ASSUME NEW d \in Distributions, PaymentMoves(d)
      PROVE  UNCHANGED <<dist, payouts>>
  BY <1>6 DEF PaymentMoves
<1>7. UNCHANGED vars => UNCHANGED <<dist, payouts>>
  BY DEF vars, money
<1> QED
  BY <1>1, <1>2, <1>3, <1>4, <1>5, <1>6, <1>7, CommitPays DEF Next, Batch

\* A distribution marked as processing belongs to the payout it names, and one that a
\* payout lists is marked, for any number of batches at the same time and of aborts:
\* a distribution may be paid out twice, but is never lost.
THEOREM NothingIsLost ==
    ASSUME PayoutsAssumption
    PROVE  Spec => []ProcessingIsPaidOut
<1>1. Init => ProcessingIsPaidOut
  BY DEF Init, ProcessingIsPaidOut
<1> QED
  BY <1>1, TypesAtFirst, TypesStay, PaidOutStays, PTL DEF Spec

-----------------------------------------------------------------------------
\* What the pages show and what the batches ask for, of one profile.
Shown(row) ==
    /\ (normalizePayoutStatus(row) = "verified") <=> (row.ready /\ row.kyc = "verified")
    /\ (mapActivationStatus(row) = "active") <=> row.ready
    /\ (normalizePayoutStatus(row) = "rejected") <=> (mapActivationStatus(row) = "failed")

LEMMA TransitionShows ==
    ASSUME NEW row, NEW s \in Kyc, NEW m
    PROVE  Shown(Transitioned(row, s, m))
<1> DEFINE next == Transitioned(row, s, m)
<1>1. /\ next.ready <=> s = "verified"
      /\ next.kyc = s
      /\ s = "verified" => next.activation = "active"
      /\ s = "rejected" => next.activation = "failed"
      /\ s \notin {"verified", "rejected"} => next.activation = "pending"
  BY DEF Transitioned
<1> HIDE DEF next
<1>2. /\ next.activation = "active" => normalizePayoutStatus(next) = "verified"
      /\ next.activation = "failed" => normalizePayoutStatus(next) = "rejected"
      /\ next.activation = "pending" => normalizePayoutStatus(next) = "in_review"
  BY DEF normalizePayoutStatus
<1> QED
  BY <1>1, <1>2 DEF Shown, mapActivationStatus, next

LEMMA ShownStays ==
    ASSUME TypeOK, ShownAsUsed, [Next]_vars
    PROVE  ShownAsUsed'
<1>1. ASSUME UNCHANGED profile
      PROVE  ShownAsUsed'
  BY <1>1 DEF ShownAsUsed, Eligible
<1>2. ASSUME NEW p, NEW s \in Kyc, NEW m, transitionProviderPayoutStatus(p, s, m)
      PROVE  ShownAsUsed'
  <2>1. ASSUME NEW q \in Providers
        PROVE  Shown(profile'[q])
    <3>1. CASE q = p
      <4>1. profile'[q] = Transitioned(profile[q], s, m)
        BY <1>2, <3>1 DEF transitionProviderPayoutStatus, TypeOK
      <4> QED
        BY <4>1, TransitionShows
    <3>2. CASE q # p
      <4>1. profile'[q] = profile[q]
        BY <1>2, <3>2 DEF transitionProviderPayoutStatus, TypeOK
      <4> QED
        BY <4>1 DEF ShownAsUsed, Eligible, Shown
    <3> QED
      BY <3>1, <3>2
  <2> QED
    BY <2>1 DEF ShownAsUsed, Eligible, Shown
<1>3. ASSUME NEW w \in Workers, PayoutSetup(w)
      PROVE  ShownAsUsed'
  <2>1. PayoutStatusOf(req[w].status) \in Kyc
    BY DEF PayoutStatusOf, Kyc
  <2> QED
    BY <1>2, <1>3, <2>1 DEF PayoutSetup
<1>4. ASSUME NEW p \in Providers, NEW s \in Kyc, updateProviderPayoutStatus(p, s)
      PROVE  ShownAsUsed'
  BY <1>2, <1>4 DEF updateProviderPayoutStatus
<1>5. ASSUME NEW w \in Workers, SetUp(w), ~PayoutSetup(w)
      PROVE  UNCHANGED profile
  BY <1>5 DEF SetUp, CustomerRead, CustomerCreate, CustomerSave, MandateCreate, MandateSave
<1>6. ASSUME NEW w \in Workers, Batch(w) \/ MandateHookSave(w) \/ Abort(w)
      PROVE  UNCHANGED profile
  BY <1>6 DEF Batch, BatchRead, BatchGroup, BatchStatements, BatchCommit,
              MandateHookSave, Abort
<1>7. ASSUME NEW m \in Mandates,
             \/ \E s \in MandateStatus : MandateMoves(m, s)
             \/ \E w \in Workers : MandateHookFetch(w, m)
             \/ MandateHookFails(m)
      PROVE  UNCHANGED profile
  BY <1>7 DEF MandateMoves, MandateHookFetch, MandateHookFails
<1>8. ASSUME NEW d \in Distributions, Distribute(d) \/ PaymentMoves(d)
      PROVE  UNCHANGED profile
  BY <1>8 DEF Distribute, PaymentMoves
<1>9. UNCHANGED vars => UNCHANGED profile
  BY DEF vars
<1> QED
  BY <1>1, <1>3, <1>4, <1>5, <1>6, <1>7, <1>8, <1>9 DEF Next

\* The payout page, the bank page, the batches and the acceptance of missions agree on
\* who is verified, for any number of set-ups and operators at the same time.
THEOREM PagesAgreeWithBatches ==
    ASSUME PayoutsAssumption
    PROVE  Spec => []ShownAsUsed
<1>1. Init => ShownAsUsed
  BY DEF Init, ShownAsUsed, Eligible, normalizePayoutStatus, mapActivationStatus
<1> QED
  BY <1>1, TypesAtFirst, TypesStay, ShownStays, PTL DEF Spec

-----------------------------------------------------------------------------
(***************************************************************************)
(* One request at a time, what a request read is what it writes: nothing   *)
(* takes its distributions before its batch commits, and a mandate that it *)
(* holds has the status that it saw or a webhook under way.                *)
(***************************************************************************)
TakenArePending ==
    \A w \in Workers : req[w].pc \in {"batch_read", "batch_grouped"} =>
        \A d \in req[w].items : dist[d].status = "pending"

\* A mandate belongs to a customer that a profile names, so that its webhooks are not
\* passed over; a request that is about to name one finds the profile without.
CustomersAreKnown ==
    /\ \A m \in Mandates : mandate[m].customer # None => Known(mandate[m].customer)
    /\ \A m \in hooks : mandate[m].customer # None
    /\ \A w \in Workers :
          /\ req[w].pc = "customer_created" =>
                /\ req[w].provider \in Providers /\ customer[req[w].provider] = None
                /\ req[w].customer # None
          /\ req[w].pc = "customer_known" => req[w].customer # None /\ Known(req[w].customer)

Holds(w, m) ==
    req[w].mandate = m /\ req[w].pc \in {"mandate_created", "mandate_fetched"}

Announced ==
    \A m \in Mandates \ hooks :
        /\ \A w \in Workers : Holds(w, m) => req[w].status = mandate[m].status
        /\ (\A w \in Workers : ~Holds(w, m)) => record[m] \in {"none", mandate[m].status}

LEMMA AloneBecomes ==
    ASSUME TypeOK, \A v, u \in Workers : v = u, NEW w \in Workers, NEW r, Become(w, r)
    PROVE  \A v \in Workers : req[v] = req[w] /\ req'[v] = r
BY DEF TypeOK, Become

LEMMA AloneFinishes ==
    ASSUME TypeOK, \A v, u \in Workers : v = u, NEW w \in Workers, Finish(w)
    PROVE  /\ \A v \in Workers : req[v] = req[w] /\ req'[v] = Idle
           /\ Idle.pc = "idle" /\ Idle.mandate = None
BY AloneBecomes DEF Finish, Idle

\* What a batch took stays pending until it commits.
LEMMA TakenStays ==
    ASSUME PayoutsAssumption, \A v, w \in Workers : v = w, TypeOK, TakenArePending, [Next]_vars
    PROVE  TakenArePending'
<1>1. ASSUME UNCHANGED dist,
             \A v \in Workers : \/ req'[v] = req[v]
                                \/ req'[v].pc \notin {"batch_read", "batch_grouped"}
      PROVE  TakenArePending'
  BY <1>1 DEF TakenArePending
<1>2. ASSUME NEW w \in Workers, Finish(w), UNCHANGED dist
      PROVE  TakenArePending'
  BY <1>1, <1>2, AloneFinishes
<1>3. ASSUME NEW w \in Workers, SetUp(w)
      PROVE  TakenArePending'
  <2>1. UNCHANGED dist
    BY <1>3 DEF SetUp, CustomerRead, CustomerCreate, CustomerSave, MandateCreate,
                MandateSave, PayoutSetup, money
  <2>2. ASSUME NEW r, Become(w, r), r.pc \notin {"batch_read", "batch_grouped"}
        PROVE  TakenArePending'
    BY <1>1, <2>1, <2>2, AloneBecomes
  <2>3. ASSUME NEW p \in Providers, NEW payout \in BOOLEAN, NEW c, NEW phase,
               Become(w, Customer(Idle, phase, p, payout, c)),
               phase \in {"customer_known", "customer_created"}
        PROVE  TakenArePending'
    <3>1. Customer(Idle, phase, p, payout, c).pc = phase
      BY DEF Customer, Idle
    <3> QED
      BY <2>2, <2>3, <3>1
  <2>4. ASSUME NEW p \in Providers, NEW payout \in BOOLEAN, CustomerRead(w, p, payout)
        PROVE  TakenArePending'
    <3>1. Become(w, Customer(Idle, "customer_known", p, payout, customer[p]))
      BY <2>4 DEF CustomerRead, Customer
    <3> QED
      BY <2>3, <3>1
  <2>5. ASSUME NEW p \in Providers, NEW payout \in BOOLEAN, NEW c \in Customers,
               CustomerCreate(w, p, payout, c)
        PROVE  TakenArePending'
    <3>1. Become(w, Customer(Idle, "customer_created", p, payout, c))
      BY <2>5 DEF CustomerCreate, Customer
    <3> QED
      BY <2>3, <3>1
  <2>6. req[w] \in Request
    BY DEF TypeOK, Request
  <2>7. CASE CustomerSave(w)
    <3>1. Become(w, [req[w] EXCEPT !.pc = "customer_known"])
      BY <2>7 DEF CustomerSave
    <3>2. [req[w] EXCEPT !.pc = "customer_known"].pc = "customer_known"
      BY <2>6 DEF Request
    <3> QED
      BY <2>2, <3>1, <3>2
  <2>8. ASSUME NEW m \in Mandates, NEW s \in MandateStatus, MandateCreate(w, m, s)
        PROVE  TakenArePending'
    <3> DEFINE next == [req[w] EXCEPT !.pc = "mandate_created", !.mandate = m, !.status = s]
    <3>1. Become(w, next)
      BY <2>8 DEF MandateCreate
    <3>2. next.pc = "mandate_created"
      BY <2>6 DEF Request
    <3> QED
      BY <2>2, <3>1, <3>2
  <2>9. CASE MandateSave(w)
    <3>1. Finish(w) \/ Become(w, [req[w] EXCEPT !.pc = "mandate_saved"])
      BY <2>9 DEF MandateSave
    <3>2. [req[w] EXCEPT !.pc = "mandate_saved"].pc = "mandate_saved"
      BY <2>6 DEF Request
    <3> QED
      BY <1>2, <2>1, <2>2, <3>1, <3>2
  <2>10. PayoutSetup(w) => Finish(w)
    BY DEF PayoutSetup
  <2> QED
    BY <1>2, <1>3, <2>1, <2>4, <2>5, <2>7, <2>8, <2>9, <2>10 DEF SetUp
<1>4. ASSUME NEW w \in Workers, BatchRead(w)
      PROVE  TakenArePending'
  <2>1. Become(w, Reading(Idle, Pending)) /\ UNCHANGED dist
    BY <1>4 DEF BatchRead, Reading, money
  <2>2. Reading(Idle, Pending).items = Pending
    BY DEF Reading, Idle
  <2> QED
    BY <2>1, <2>2, AloneBecomes DEF TakenArePending, Pending
<1>5. ASSUME NEW w \in Workers, BatchGroup(w)
      PROVE  TakenArePending'
  <2> DEFINE items == {d \in req[w].items : Eligible(ProviderOf[d])}
             next == [req[w] EXCEPT !.pc = "batch_grouped", !.items = items]
  <2>1. UNCHANGED dist /\ (Finish(w) \/ Become(w, next))
    BY <1>5 DEF BatchGroup, money
  <2>2. req[w] \in Request /\ req[w].pc = "batch_read"
    BY <1>5 DEF TypeOK, Request, BatchGroup
  <2>3. next.items \subseteq req[w].items
    BY <2>2 DEF Request
  <2>4. CASE Become(w, next)
    <3> HIDE DEF next
    <3> QED
      BY <2>1, <2>2, <2>3, <2>4, AloneBecomes DEF TakenArePending
  <2> QED
    BY <1>2, <2>1, <2>4
<1>6. ASSUME NEW w \in Workers, NEW b \in Batches, BatchCommit(w, b)
      PROVE  TakenArePending'
  <2> DEFINE next == [req[w] EXCEPT !.pc = "batch_committed", !.batch = b]
  <2>1. Become(w, next)
    BY <1>6 DEF BatchCommit
  <2>2. next.pc = "batch_committed"
    BY DEF TypeOK, Request
  <2> HIDE DEF next
  <2> QED
    BY <2>1, <2>2, AloneBecomes DEF TakenArePending
<1>7. ASSUME NEW w \in Workers, BatchStatements(w) \/ MandateHookSave(w) \/ Abort(w)
      PROVE  TakenArePending'
  BY <1>2, <1>7 DEF BatchStatements, MandateHookSave, Abort, money
<1>8. ASSUME NEW m \in Mandates, NEW w \in Workers, MandateHookFetch(w, m)
      PROVE  TakenArePending'
  <2>1. UNCHANGED dist /\ (UNCHANGED req \/ Become(w, Hook(Idle, m, mandate[m].status)))
    BY <1>8, Zenon DEF MandateHookFetch, Hook, money
  <2>2. Hook(Idle, m, mandate[m].status).pc = "mandate_fetched"
    BY DEF Hook, Idle
  <2> QED
    BY <1>1, <2>1, <2>2, AloneBecomes
<1>9. ASSUME NEW d \in Distributions, Distribute(d)
      PROVE  TakenArePending'
  <2>1. UNCHANGED req /\ \A e \in Distributions : dist[e].status = "pending" => dist'[e].status = "pending"
    BY <1>9 DEF Distribute, TypeOK, Row
  <2>2. \A v \in Workers : req[v].items \subseteq Distributions
    BY DEF TypeOK, Request
  <2> QED
    BY <2>1, <2>2 DEF TakenArePending
<1>10. ASSUME \/ \E m \in Mandates : \/ \E s \in MandateStatus : MandateMoves(m, s)
                                     \/ MandateHookFails(m)
              \/ \E p \in Providers, s \in Kyc : updateProviderPayoutStatus(p, s)
              \/ \E d \in Distributions : PaymentMoves(d)
              \/ UNCHANGED vars
       PROVE  TakenArePending'
  <2>1. UNCHANGED <<req, dist>>
    BY <1>10 DEF MandateMoves, MandateHookFails, updateProviderPayoutStatus, PaymentMoves,
                 vars, money
  <2> QED
    BY <1>1, <2>1
<1> QED
  BY <1>3, <1>4, <1>5, <1>6, <1>7, <1>8, <1>9, <1>10 DEF Next, Batch

LEMMA OnceStays ==
    ASSUME PayoutsAssumption, TypeOK, ProcessingIsPaidOut, TakenArePending, PaidOutOnce,
           [Next]_vars
    PROVE  PaidOutOnce'
<1>1. UNCHANGED payouts => PaidOutOnce'
  BY DEF PaidOutOnce
<1>2. ASSUME NEW w \in Workers, NEW b \in Batches, BatchCommit(w, b)
      PROVE  PaidOutOnce'
  <2> DEFINE items == req[w].items
  <2>1. payouts' = payouts \cup Grouped(b, items)
    BY <1>2 DEF BatchCommit
  <2>2. \A d \in items : dist[d].status = "pending"
    BY <1>2 DEF BatchCommit, TakenArePending
  <2> HIDE DEF items
  <2>3. \A y \in Grouped(b, items) :
           /\ y.items \subseteq items
           /\ y = [batch |-> b, provider |-> y.provider, items |-> y.items]
           /\ y.items = {d \in items : ProviderOf[d] = y.provider}
    BY DEF Grouped
  <2>4. ASSUME NEW x \in payouts, NEW y \in Grouped(b, items)
        PROVE  x.items \cap y.items = {}
    BY <2>2, <2>3 DEF ProcessingIsPaidOut
  <2>5. ASSUME NEW x \in Grouped(b, items), NEW y \in Grouped(b, items), x # y
        PROVE  x.items \cap y.items = {}
    <3>1. x.provider # y.provider
      BY <2>3, <2>5
    <3> QED
      BY <2>3, <3>1
  <2> QED
    BY <2>1, <2>4, <2>5 DEF PaidOutOnce
<1>3. ASSUME NEW w \in Workers,
             SetUp(w) \/ BatchRead(w) \/ BatchGroup(w) \/ BatchStatements(w)
             \/ MandateHookSave(w) \/ Abort(w)
      PROVE  UNCHANGED payouts
  BY <1>3 DEF SetUp, CustomerRead, CustomerCreate, CustomerSave, MandateCreate,
              MandateSave, PayoutSetup, BatchRead, BatchGroup, BatchStatements,
              MandateHookSave, Abort, money
<1>4. ASSUME \/ \E m \in Mandates : \/ \E s \in MandateStatus : MandateMoves(m, s)
                                    \/ \E w \in Workers : MandateHookFetch(w, m)
                                    \/ MandateHookFails(m)
             \/ \E p \in Providers, s \in Kyc : updateProviderPayoutStatus(p, s)
             \/ \E d \in Distributions : Distribute(d) \/ PaymentMoves(d)
             \/ UNCHANGED vars
      PROVE  UNCHANGED payouts
  BY <1>4 DEF MandateMoves, MandateHookFetch, MandateHookFails, updateProviderPayoutStatus,
              Distribute, PaymentMoves, vars, money
<1> QED
  BY <1>1, <1>2, <1>3, <1>4 DEF Next, Batch

\* One request at a time, whatever dies and whatever payments and profiles do, no two
\* payouts list the same distribution.
THEOREM AloneNothingIsPaidTwice ==
    ASSUME PayoutsAssumption, \A v, w \in Workers : v = w
    PROVE  Spec => []PaidOutOnce
<1>1. Init => ProcessingIsPaidOut /\ TakenArePending /\ PaidOutOnce
  BY DEF Init, ProcessingIsPaidOut, TakenArePending, PaidOutOnce, Idle
<1> QED
  BY <1>1, TypesAtFirst, TypesStay, PaidOutStays, TakenStays, OnceStays, PTL DEF Spec

\* A request saves the customer of a profile that has none, and takes up mandates of
\* customers that were saved.
LEMMA CustomersStay ==
    ASSUME PayoutsAssumption, \A v, w \in Workers : v = w, TypeOK, CustomersAreKnown, [Next]_vars
    PROVE  CustomersAreKnown'
<1>1. ASSUME UNCHANGED <<customer, mandate>>, hooks' \subseteq hooks,
             \A v \in Workers : \/ req'[v] = req[v]
                                \/ req'[v].pc \notin {"customer_created", "customer_known"}
      PROVE  CustomersAreKnown'
  BY <1>1 DEF CustomersAreKnown, Known
<1>2. ASSUME NEW w \in Workers, Finish(w), UNCHANGED <<customer, mandate, hooks>>
      PROVE  CustomersAreKnown'
  BY <1>1, <1>2, AloneFinishes
<1>3. ASSUME NEW w \in Workers, NEW r, Become(w, r),
             r.pc \notin {"customer_created", "customer_known"},
             UNCHANGED <<customer, mandate>>, hooks' \subseteq hooks
      PROVE  CustomersAreKnown'
  BY <1>1, <1>3, AloneBecomes
<1>4. ASSUME NEW w \in Workers, NEW p \in Providers, NEW payout \in BOOLEAN,
             CustomerRead(w, p, payout)
      PROVE  CustomersAreKnown'
  <2> DEFINE r == Customer(Idle, "customer_known", p, payout, customer[p])
  <2>1. /\ Become(w, r) /\ customer[p] # None
        /\ UNCHANGED <<customer, mandate, hooks>>
    BY <1>4 DEF CustomerRead, Customer, mollie
  <2>2. r.pc = "customer_known" /\ r.customer = customer[p]
    BY DEF Customer, Idle
  <2> HIDE DEF r
  <2> QED
    BY <2>1, <2>2, AloneBecomes DEF CustomersAreKnown, Known
<1>5. ASSUME NEW w \in Workers, NEW p \in Providers, NEW payout \in BOOLEAN,
             NEW c \in Customers, CustomerCreate(w, p, payout, c)
      PROVE  CustomersAreKnown'
  <2> DEFINE r == Customer(Idle, "customer_created", p, payout, c)
  <2>1. /\ Become(w, r) /\ customer[p] = None
        /\ UNCHANGED <<customer, mandate, hooks>>
    BY <1>5 DEF CustomerCreate, Customer, mollie
  <2>2. r.pc = "customer_created" /\ r.customer = c /\ r.provider = p /\ c # None
    BY DEF Customer, Idle, PayoutsAssumption
  <2> HIDE DEF r
  <2> QED
    BY <2>1, <2>2, AloneBecomes DEF CustomersAreKnown, Known
<1>6. ASSUME NEW w \in Workers, CustomerSave(w)
      PROVE  CustomersAreKnown'
  <2> DEFINE r == [req[w] EXCEPT !.pc = "customer_known"]
             p == req[w].provider
             c == req[w].customer
  <2>1. /\ Become(w, r) /\ UNCHANGED <<mandate, hooks>>
        /\ customer' = [customer EXCEPT ![p] = c]
    BY <1>6 DEF CustomerSave, mollie
  <2>2. p \in Providers /\ customer[p] = None /\ c # None
    BY <1>6 DEF CustomerSave, CustomersAreKnown
  <2>3. r.pc = "customer_known" /\ r.customer = c
    BY DEF TypeOK, Request
  <2>4. customer'[p] = c /\ \A q \in Providers \ {p} : customer'[q] = customer[q]
    BY <2>1, <2>2 DEF TypeOK
  <2> HIDE DEF r, p, c
  <2>5. ASSUME NEW e, e # None, Known(e)
        PROVE  \E q \in Providers : customer'[q] = e
    BY <2>2, <2>4, <2>5 DEF Known
  <2> QED
    BY <2>1, <2>2, <2>3, <2>4, <2>5, AloneBecomes DEF CustomersAreKnown, Known
<1>7. ASSUME NEW w \in Workers, NEW m \in Mandates, NEW s \in MandateStatus,
             MandateCreate(w, m, s)
      PROVE  CustomersAreKnown'
  <2> DEFINE r == [req[w] EXCEPT !.pc = "mandate_created", !.mandate = m, !.status = s]
  <2>1. /\ Become(w, r) /\ UNCHANGED <<customer, hooks>>
        /\ mandate'[m].customer = req[w].customer
        /\ \A n \in Mandates \ {m} : mandate'[n] = mandate[n]
    BY <1>7 DEF MandateCreate, TypeOK
  <2>2. r.pc = "mandate_created"
    BY DEF TypeOK, Request
  <2>3. req[w].customer # None /\ Known(req[w].customer)
    BY <1>7 DEF MandateCreate, CustomersAreKnown
  <2>4. hooks \subseteq Mandates
    BY DEF TypeOK
  <2> HIDE DEF r
  <2> QED
    BY <2>1, <2>2, <2>3, <2>4, AloneBecomes DEF CustomersAreKnown, Known
<1>8. ASSUME NEW w \in Workers, MandateSave(w) \/ PayoutSetup(w)
      PROVE  CustomersAreKnown'
  <2>1. /\ UNCHANGED <<customer, mandate, hooks>>
        /\ Finish(w) \/ Become(w, [req[w] EXCEPT !.pc = "mandate_saved"])
    BY <1>8 DEF MandateSave, PayoutSetup, mollie
  <2>2. [req[w] EXCEPT !.pc = "mandate_saved"].pc = "mandate_saved"
    BY DEF TypeOK, Request
  <2> QED
    BY <1>2, <1>3, <2>1, <2>2
<1>9. ASSUME NEW w \in Workers, Batch(w)
      PROVE  CustomersAreKnown'
  <2> DEFINE r1 == [req[w] EXCEPT !.pc = "batch_grouped",
                        !.items = {d \in req[w].items : Eligible(ProviderOf[d])}]
  <2>1. CASE BatchRead(w)
    <3>1. Become(w, Reading(Idle, Pending)) /\ UNCHANGED <<customer, mandate, hooks>>
      BY <2>1 DEF BatchRead, Reading, mollie
    <3>2. Reading(Idle, Pending).pc = "batch_read"
      BY DEF Reading, Idle
    <3> QED
      BY <1>3, <3>1, <3>2
  <2>2. CASE BatchGroup(w)
    <3>1. UNCHANGED <<customer, mandate, hooks>> /\ (Finish(w) \/ Become(w, r1))
      BY <2>2 DEF BatchGroup, mollie
    <3>2. r1.pc = "batch_grouped"
      BY DEF TypeOK, Request
    <3> HIDE DEF r1
    <3> QED
      BY <1>2, <1>3, <3>1, <3>2
  <2>3. CASE BatchStatements(w)
    BY <1>2, <2>3 DEF BatchStatements, mollie
  <2>4. ASSUME NEW b \in Batches, BatchCommit(w, b)
        PROVE  CustomersAreKnown'
    <3> DEFINE r2 == [req[w] EXCEPT !.pc = "batch_committed", !.batch = b]
    <3>1. Become(w, r2) /\ UNCHANGED <<customer, mandate, hooks>>
      BY <2>4 DEF BatchCommit, mollie
    <3>2. r2.pc = "batch_committed"
      BY DEF TypeOK, Request
    <3> HIDE DEF r2
    <3> QED
      BY <1>3, <3>1, <3>2
  <2> QED
    BY <1>9, <2>1, <2>2, <2>3, <2>4 DEF Batch
<1>10. ASSUME NEW w \in Workers, MandateHookSave(w) \/ Abort(w)
       PROVE  CustomersAreKnown'
  BY <1>2, <1>10 DEF MandateHookSave, Abort, mollie
<1>11. ASSUME NEW m \in Mandates, NEW w \in Workers, MandateHookFetch(w, m)
       PROVE  CustomersAreKnown'
  <2>1. /\ UNCHANGED <<customer, mandate>> /\ hooks' \subseteq hooks
        /\ UNCHANGED req \/ Become(w, Hook(Idle, m, mandate[m].status))
    BY <1>11, Zenon DEF MandateHookFetch, Hook
  <2>2. Hook(Idle, m, mandate[m].status).pc = "mandate_fetched"
    BY DEF Hook, Idle
  <2> QED
    BY <1>1, <1>3, <2>1, <2>2
<1>12. ASSUME NEW m \in Mandates, NEW s \in MandateStatus, MandateMoves(m, s)
       PROVE  CustomersAreKnown'
  <2>1. /\ UNCHANGED <<customer, req>> /\ hooks' = hooks \cup {m}
        /\ mandate[m].customer # None
        /\ \A n \in Mandates : mandate'[n].customer = mandate[n].customer
    BY <1>12 DEF MandateMoves, TypeOK
  <2>2. hooks \subseteq Mandates
    BY DEF TypeOK
  <2> QED
    BY <2>1, <2>2 DEF CustomersAreKnown, Known
<1>13. ASSUME \/ \E m \in Mandates : MandateHookFails(m)
              \/ \E p \in Providers, s \in Kyc : updateProviderPayoutStatus(p, s)
              \/ \E d \in Distributions : Distribute(d) \/ PaymentMoves(d)
              \/ UNCHANGED vars
       PROVE  CustomersAreKnown'
  <2>1. UNCHANGED <<customer, mandate, req>> /\ hooks' \subseteq hooks
    BY <1>13 DEF MandateHookFails, updateProviderPayoutStatus, Distribute, PaymentMoves,
                 vars, mollie
  <2> QED
    BY <1>1, <2>1
<1> QED
  BY <1>4, <1>5, <1>6, <1>7, <1>8, <1>9, <1>10, <1>11, <1>12, <1>13 DEF Next, SetUp

\* A request that holds no mandate gives way to one that holds none either.
LEMMA HoldsNothing ==
    ASSUME PayoutsAssumption, \A v, w \in Workers : v = w, TypeOK, Announced,
           UNCHANGED <<mandate, hooks, record>>,
           \A w \in Workers :
              \/ req'[w] = req[w]
              \/ /\ req[w].pc \notin {"mandate_created", "mandate_fetched"}
                 /\ req'[w].pc \notin {"mandate_created", "mandate_fetched"}
    PROVE  Announced'
<1>1. \A w \in Workers, m \in Mandates : Holds(w, m)' <=> Holds(w, m)
  BY DEF Holds
<1>2. \A w \in Workers, m \in Mandates : Holds(w, m) => req'[w] = req[w]
  BY DEF Holds
<1> QED
  BY <1>1, <1>2 DEF Announced

\* The mandate is written as the request saw it.
LEMMA WrittenAsSeen ==
    ASSUME PayoutsAssumption, \A v, w \in Workers : v = w, TypeOK, Announced,
           UNCHANGED <<mandate, hooks>>, NEW u \in Workers,
           req[u].pc \in {"mandate_created", "mandate_fetched"},
           upsertMollieMandateRecord(req[u].mandate, req[u].status),
           req'[u].pc \notin {"mandate_created", "mandate_fetched"}
    PROVE  Announced'
<1>1. \A w \in Workers, m \in Mandates : ~Holds(w, m)'
  BY DEF Holds
<1>2. \A w \in Workers, m \in Mandates : Holds(w, m) <=> m = req[u].mandate
  BY DEF Holds
<1>3. \A m \in Mandates : record'[m] = IF m = req[u].mandate THEN req[u].status ELSE record[m]
  BY DEF upsertMollieMandateRecord, TypeOK
<1>4. ASSUME NEW m \in Mandates \ hooks
      PROVE  record'[m] \in {"none", mandate[m].status}
  BY <1>2, <1>3 DEF Announced
<1> QED
  BY <1>1, <1>4 DEF Announced

\* A request takes up a mandate with the status that it has.
LEMMA TakenUp ==
    ASSUME PayoutsAssumption, \A v, w \in Workers : v = w, TypeOK, Announced,
           UNCHANGED record, NEW u \in Workers, NEW m \in Mandates,
           req[u].pc \notin {"mandate_created", "mandate_fetched"},
           req'[u].pc \in {"mandate_created", "mandate_fetched"},
           req'[u].mandate = m, req'[u].status = mandate'[m].status,
           \A n \in Mandates \ {m} : mandate'[n] = mandate[n],
           hooks' \cup {m} = hooks \cup {m}
    PROVE  Announced'
<1>1. \A w \in Workers, n \in Mandates : ~Holds(w, n)
  BY DEF Holds
<1>2. \A w \in Workers : req'[w].mandate = m /\ req'[w].status = mandate'[m].status
  OBVIOUS
<1>3. \A w \in Workers, n \in Mandates \ {m} : ~Holds(w, n)'
  BY <1>2 DEF Holds
<1>5. Holds(u, m)'
  BY DEF Holds
<1>4. ASSUME NEW n \in Mandates \ hooks', n # m
      PROVE  record'[n] \in {"none", mandate'[n].status}
  <2>1. n \in Mandates \ hooks
    BY <1>4
  <2>2. record[n] \in {"none", mandate[n].status}
    BY <1>1, <2>1 DEF Announced
  <2> QED
    BY <1>4, <2>2
<1> QED
  BY <1>2, <1>3, <1>5, <1>4 DEF Announced

LEMMA AnnouncedStays ==
    ASSUME PayoutsAssumption, \A v, w \in Workers : v = w, MaxFaults = 0, TypeOK,
           CustomersAreKnown, Announced, [Next]_vars
    PROVE  Announced'
<1> DEFINE holding == {"mandate_created", "mandate_fetched"}
<1>1. ASSUME NEW w \in Workers, NEW r, Become(w, r), req[w].pc \notin holding,
             r.pc \notin holding, UNCHANGED <<mandate, hooks, record>>
      PROVE  Announced'
  <2>1. \A v \in Workers : req[v].pc \notin holding /\ req'[v].pc \notin holding
    BY <1>1, AloneBecomes
  <2> QED
    BY <1>1, <2>1, HoldsNothing
<1>2. ASSUME NEW w \in Workers, Finish(w), req[w].pc \notin holding,
             UNCHANGED <<mandate, hooks, record>>
      PROVE  Announced'
  <2>1. Idle.pc \notin holding
    BY DEF Idle
  <2> QED
    BY <1>1, <1>2, <2>1 DEF Finish
<1>3. ASSUME NEW w \in Workers, NEW p \in Providers, NEW payout \in BOOLEAN,
             CustomerRead(w, p, payout) \/ \E c \in Customers : CustomerCreate(w, p, payout, c)
      PROVE  Announced'
  <2>1. \/ Become(w, Customer(Idle, "customer_known", p, payout, customer[p]))
        \/ \E c \in Customers : Become(w, Customer(Idle, "customer_created", p, payout, c))
    BY <1>3, Zenon DEF CustomerRead, CustomerCreate, Customer
  <2>2. \A phase, c : Customer(Idle, phase, p, payout, c).pc = phase
    BY DEF Customer, Idle
  <2>3. req[w].pc = "idle" /\ UNCHANGED <<mandate, hooks, record>>
    BY <1>3 DEF CustomerRead, CustomerCreate, mollie
  <2> QED
    BY <1>1, <2>1, <2>2, <2>3
<1>4. ASSUME NEW w \in Workers, CustomerSave(w)
      PROVE  Announced'
  <2> DEFINE r == [req[w] EXCEPT !.pc = "customer_known"]
  <2>1. Become(w, r) /\ req[w].pc = "customer_created" /\ UNCHANGED <<mandate, hooks, record>>
    BY <1>4 DEF CustomerSave, mollie
  <2>2. r.pc = "customer_known"
    BY DEF TypeOK, Request
  <2> HIDE DEF r
  <2> QED
    BY <1>1, <2>1, <2>2
<1>5. ASSUME NEW w \in Workers, NEW m \in Mandates, NEW s \in MandateStatus,
             MandateCreate(w, m, s)
      PROVE  Announced'
  <2> DEFINE r == [req[w] EXCEPT !.pc = "mandate_created", !.mandate = m, !.status = s]
  <2>1. /\ Become(w, r) /\ req[w].pc = "customer_known" /\ UNCHANGED <<hooks, record>>
        /\ mandate'[m].status = s
        /\ \A n \in Mandates \ {m} : mandate'[n] = mandate[n]
    BY <1>5 DEF MandateCreate, TypeOK
  <2>2. r.pc = "mandate_created" /\ r.mandate = m /\ r.status = s
    BY DEF TypeOK, Request
  <2>3. req'[w] = r
    BY <2>1, AloneBecomes
  <2> HIDE DEF r
  <2> QED
    BY <2>1, <2>2, <2>3, TakenUp
<1>6. ASSUME NEW w \in Workers, MandateSave(w)
      PROVE  Announced'
  <2> DEFINE r == [req[w] EXCEPT !.pc = "mandate_saved"]
  <2>1. /\ upsertMollieMandateRecord(req[w].mandate, req[w].status)
        /\ req[w].pc = "mandate_created" /\ UNCHANGED <<mandate, hooks>>
        /\ Become(w, r) \/ Finish(w)
    BY <1>6 DEF MandateSave, mollie
  <2>2. r.pc = "mandate_saved"
    BY DEF TypeOK, Request
  <2> HIDE DEF r
  <2>3. req'[w].pc \notin holding
    BY <2>1, <2>2, AloneBecomes, AloneFinishes
  <2> QED
    BY <2>1, <2>3, WrittenAsSeen
<1>7. ASSUME NEW w \in Workers, MandateHookSave(w)
      PROVE  Announced'
  <2>1. req'[w].pc \notin holding
    BY <1>7, AloneFinishes DEF MandateHookSave
  <2> QED
    BY <1>7, <2>1, WrittenAsSeen DEF MandateHookSave, mollie
<1>8. ASSUME NEW w \in Workers, PayoutSetup(w) \/ BatchStatements(w)
      PROVE  Announced'
  BY <1>2, <1>8 DEF PayoutSetup, BatchStatements, mollie
<1>9. ASSUME NEW w \in Workers, BatchRead(w)
      PROVE  Announced'
  <2>1. /\ Become(w, Reading(Idle, Pending)) /\ req[w].pc = "idle"
        /\ UNCHANGED <<mandate, hooks, record>>
    BY <1>9 DEF BatchRead, Reading, mollie
  <2>2. Reading(Idle, Pending).pc = "batch_read"
    BY DEF Reading, Idle
  <2> QED
    BY <1>1, <2>1, <2>2
<1>10. ASSUME NEW w \in Workers, BatchGroup(w)
       PROVE  Announced'
  <2> DEFINE r == [req[w] EXCEPT !.pc = "batch_grouped",
                       !.items = {d \in req[w].items : Eligible(ProviderOf[d])}]
  <2>1. /\ Become(w, r) \/ Finish(w)
        /\ req[w].pc = "batch_read" /\ UNCHANGED <<mandate, hooks, record>>
    BY <1>10 DEF BatchGroup, mollie
  <2>2. r.pc = "batch_grouped"
    BY DEF TypeOK, Request
  <2> HIDE DEF r
  <2> QED
    BY <1>1, <1>2, <2>1, <2>2
<1>11. ASSUME NEW w \in Workers, NEW b \in Batches, BatchCommit(w, b)
       PROVE  Announced'
  <2> DEFINE r == [req[w] EXCEPT !.pc = "batch_committed", !.batch = b]
  <2>1. Become(w, r) /\ req[w].pc = "batch_grouped" /\ UNCHANGED <<mandate, hooks, record>>
    BY <1>11 DEF BatchCommit, mollie
  <2>2. r.pc = "batch_committed"
    BY DEF TypeOK, Request
  <2> HIDE DEF r
  <2> QED
    BY <1>1, <2>1, <2>2
<1>12. ASSUME NEW m \in Mandates, NEW w \in Workers, MandateHookFetch(w, m)
       PROVE  Announced'
  <2> DEFINE r == Hook(Idle, m, mandate[m].status)
  <2>1. m \in hooks /\ Known(mandate[m].customer)
    BY <1>12 DEF MandateHookFetch, CustomersAreKnown
  <2>2. Become(w, r)
    BY <1>12, <2>1, Zenon DEF MandateHookFetch, Hook
  <2>3. /\ req[w].pc = "idle" /\ UNCHANGED <<mandate, record>>
        /\ hooks' \cup {m} = hooks \cup {m}
    BY <1>12 DEF MandateHookFetch
  <2>4. r.pc = "mandate_fetched" /\ r.mandate = m /\ r.status = mandate[m].status
    BY DEF Hook, Idle
  <2>5. req'[w] = r
    BY <2>2, AloneBecomes
  <2> HIDE DEF r
  <2> QED
    BY <2>3, <2>4, <2>5, TakenUp
<1>13. ASSUME NEW m \in Mandates, NEW s \in MandateStatus, MandateMoves(m, s)
       PROVE  Announced'
  <2>1. /\ UNCHANGED <<req, record>> /\ hooks' = hooks \cup {m}
        /\ \A n \in Mandates \ {m} : mandate'[n] = mandate[n]
    BY <1>13 DEF MandateMoves, TypeOK
  <2>2. \A w \in Workers, n \in Mandates : Holds(w, n)' <=> Holds(w, n)
    BY <2>1 DEF Holds
  <2> QED
    BY <2>1, <2>2 DEF Announced
<1>14. ASSUME \/ \E p \in Providers, s \in Kyc : updateProviderPayoutStatus(p, s)
              \/ \E d \in Distributions : Distribute(d) \/ PaymentMoves(d)
              \/ UNCHANGED vars
       PROVE  Announced'
  <2>1. UNCHANGED <<mandate, hooks, record, req>>
    BY <1>14 DEF updateProviderPayoutStatus, Distribute, PaymentMoves, vars, mollie
  <2> QED
    BY <2>1, HoldsNothing
<1>15. /\ \A m \in Mandates : ~MandateHookFails(m)
       /\ \A w \in Workers : ~Abort(w)
  BY DEF MandateHookFails, Abort, TypeOK
<1> QED
  BY <1>3, <1>4, <1>5, <1>6, <1>7, <1>8, <1>9, <1>10, <1>11, <1>12, <1>13, <1>14, <1>15
     DEF Next, SetUp, Batch

\* One request at a time and without lost webhooks, a mandate row shows Mollie's status
\* once no webhook or set-up of it is under way, for any number of mandates and however
\* they move while a request holds them.
THEOREM AloneMandatesAreSynced ==
    ASSUME PayoutsAssumption, \A v, w \in Workers : v = w, MaxFaults = 0
    PROVE  Spec => []MandateSynced
<1>1. Init => CustomersAreKnown /\ Announced
  BY DEF Init, CustomersAreKnown, Announced, Idle
<1>2. Announced => MandateSynced
  BY DEF Announced, MandateSynced, Holds
<1> QED
  BY <1>1, <1>2, TypesAtFirst, TypesStay, CustomersStay, AnnouncedStays, PTL DEF Spec

=============================================================================
