-------------------------------- MODULE Payouts --------------------------------
(***************************************************************************)
(* How providers are paid out (payments.service.ts): the mandate at Mollie *)
(* and the payout columns of their profile, and the batches that the       *)
(* weekly job and operators generate from the payment distributions.       *)
(*                                                                         *)
(* Mollie is external: it keeps the customers and mandates, decides on a   *)
(* mandate, and announces every change with a webhook.  Distributions are  *)
(* rows that nothing in the repository creates.                            *)
(***************************************************************************)
EXTENDS Integers, FiniteSets

CONSTANTS
    Providers,
    Customers, Mandates, \* what Mollie can create; bounds
    Distributions,
    ProviderOf,          \* distribution |-> its beneficiary
    Batches,             \* ids of payout batches; bound
    Workers,             \* requests and jobs at the same time
    None,
    MaxFaults            \* bound: requests that die or cannot reach Mollie

PayoutsAssumption ==
    /\ ProviderOf \in [Distributions -> Providers]
    /\ None \notin Providers \cup Customers \cup Mandates \cup Batches
    /\ MaxFaults \in Nat

VARIABLES
    customer,   \* provider |-> clientProfile.externalCustomerId
    mandate,    \* mandate |-> what Mollie knows of it
    hooks,      \* the mandates a webhook is on its way for
    record,     \* mandate |-> the status in its PaymentMandate row
    profile,    \* provider |-> the payout columns of ProviderProfile
    dist,       \* distribution |-> its payoutStatus and providerPayoutId
    captured,   \* the distributions whose payment is CAPTURED or RELEASED
    payouts,    \* the ProviderPayout rows
    statements, \* the payouts with a statement document
    req,
    faults

mollie == <<mandate, hooks>>
money == <<dist, captured, payouts, statements>>
vars == <<customer, mollie, record, profile, money, req, faults>>

Kyc == {"pending", "in_review", "verified", "rejected"}
Activation == {"pending", "active", "failed"}
MandateStatus == {"pending", "valid", "invalid"}
Profile == [ready : BOOLEAN, kyc : Kyc, activation : Activation,
            mandate : Mandates \cup {None}]
Payout == [batch : Batches, provider : Providers, items : SUBSET Distributions]
PayoutId == Batches \X Providers
Row == [status : {"none", "pending", "processing"}, payout : PayoutId \cup {None}]
Phases == {"idle", "customer_created", "customer_known", "mandate_created",
           "mandate_saved", "mandate_fetched", "batch_read", "batch_grouped",
           "batch_committed"}

\* A request: its phase, the provider, whether it sets up a payout or only a
\* client's mandate, what it holds of Mollie, and the distributions it read.
Idle == [pc |-> "idle", provider |-> None, payout |-> FALSE, customer |-> None,
         mandate |-> None, status |-> "pending", items |-> {}, batch |-> None]
Request == [pc : Phases, provider : Providers \cup {None}, payout : BOOLEAN,
            customer : Customers \cup {None}, mandate : Mandates \cup {None},
            status : MandateStatus, items : SUBSET Distributions,
            batch : Batches \cup {None}]

Become(w, r) == req' = [req EXCEPT ![w] = r]
Finish(w) == Become(w, Idle)

Init ==
    /\ customer = [p \in Providers |-> None]
    /\ mandate = [m \in Mandates |-> [customer |-> None, status |-> "pending"]]
    /\ hooks = {}
    /\ record = [m \in Mandates |-> "none"]
    /\ profile = [p \in Providers |-> [ready |-> FALSE, kyc |-> "pending",
                                       activation |-> "pending", mandate |-> None]]
    /\ dist = [d \in Distributions |-> [status |-> "none", payout |-> None]]
    /\ captured = {}
    /\ payouts = {} /\ statements = {}
    /\ req = [w \in Workers |-> Idle]
    /\ faults = 0

-----------------------------------------------------------------------------
(***************************************************************************)
(* Setting up a payout, or a client's mandate.                             *)
(***************************************************************************)

\* ensureMollieCustomer: read the profile, create a customer if it has none.
CustomerRead(w, p, payout) ==
    /\ req[w].pc = "idle" /\ customer[p] # None
    /\ Become(w, [Idle EXCEPT !.pc = "customer_known", !.provider = p,
                    !.payout = payout, !.customer = customer[p]])
    /\ UNCHANGED <<customer, mollie, record, profile, money, faults>>

CustomerCreate(w, p, payout, c) ==
    /\ req[w].pc = "idle" /\ customer[p] = None
    /\ \A q \in Providers : customer[q] # c
    /\ \A v \in Workers : req[v].customer # c
    /\ \A m \in Mandates : mandate[m].customer # c
    /\ Become(w, [Idle EXCEPT !.pc = "customer_created", !.provider = p,
                    !.payout = payout, !.customer = c])
    /\ UNCHANGED <<customer, mollie, record, profile, money, faults>>

CustomerSave(w) ==
    /\ req[w].pc = "customer_created"
    /\ customer' = [customer EXCEPT ![req[w].provider] = req[w].customer]
    /\ Become(w, [req[w] EXCEPT !.pc = "customer_known"])
    /\ UNCHANGED <<mollie, record, profile, money, faults>>

MandateCreate(w, m, status) ==
    /\ req[w].pc = "customer_known" /\ mandate[m].customer = None
    /\ mandate' = [mandate EXCEPT ![m] = [customer |-> req[w].customer,
                                          status |-> status]]
    /\ Become(w, [req[w] EXCEPT !.pc = "mandate_created", !.mandate = m,
                                !.status = status])
    /\ UNCHANGED <<customer, hooks, record, profile, money, faults>>

upsertMollieMandateRecord(m, status) == record' = [record EXCEPT ![m] = status]

MandateSave(w) ==
    /\ req[w].pc = "mandate_created"
    /\ upsertMollieMandateRecord(req[w].mandate, req[w].status)
    /\ IF req[w].payout THEN Become(w, [req[w] EXCEPT !.pc = "mandate_saved"])
       ELSE Finish(w)
    /\ UNCHANGED <<customer, mollie, profile, money, faults>>

\* The profile after a transition to status; m is the mandate it is given, or
\* None if the caller names none.
\* Slip: a rejection leaves the activation as it was.
TransitionedKeepsActivation(row, status, m) ==
    LET details == IF m = None THEN row.mandate ELSE m IN
    [ready |-> status = "verified",
     kyc |-> status,
     activation |-> CASE status = "verified" -> "active"
                      [] status = "rejected" -> row.activation
                      [] OTHER -> "pending",
     mandate |-> IF status = "rejected" THEN m ELSE details]

Transitioned(row, status, m) ==
    LET details == IF m = None THEN row.mandate ELSE m IN
    [ready |-> status = "verified",
     kyc |-> status,
     activation |-> CASE status = "verified" -> "active"
                      [] status = "rejected" -> "failed"
                      [] OTHER -> "pending",
     mandate |-> IF status = "rejected" THEN m ELSE details]

transitionProviderPayoutStatus(p, status, m) ==
    profile' = [profile EXCEPT ![p] = Transitioned(@, status, m)]

\* Slip: Mollie's status is written into the profile as it is.
PayoutStatusOfRaw(mandateStatus) == mandateStatus

PayoutStatusOf(mandateStatus) ==
    CASE mandateStatus = "valid" -> "verified"
      [] mandateStatus = "invalid" -> "rejected"
      [] OTHER -> "in_review"

PayoutSetup(w) ==
    /\ req[w].pc = "mandate_saved"
    /\ transitionProviderPayoutStatus(req[w].provider,
            PayoutStatusOf(req[w].status), req[w].mandate)
    /\ Finish(w)
    /\ UNCHANGED <<customer, mollie, record, money, faults>>

\* Operators set any status.
updateProviderPayoutStatus(p, status) ==
    /\ transitionProviderPayoutStatus(p, status, None)
    /\ UNCHANGED <<customer, mollie, record, money, req, faults>>

\* What the payout page and the bank page show.  The column is never empty, so
\* that their fallbacks on the other columns are never reached.
normalizePayoutStatus(row) ==
    [active |-> "verified", failed |-> "rejected", pending |-> "in_review"][row.activation]

mapActivationStatus(row) == row.activation

(***************************************************************************)
(* Mandate webhooks update the mandate row, and only that row.             *)
(***************************************************************************)
MandateMoves(m, status) ==
    /\ mandate[m].customer # None
    /\ <<mandate[m].status, status>> \in
          {<<"pending", "valid">>, <<"pending", "invalid">>, <<"valid", "invalid">>}
    /\ mandate' = [mandate EXCEPT ![m].status = status]
    /\ hooks' = hooks \cup {m}
    /\ UNCHANGED <<customer, record, profile, money, req, faults>>

Known(c) == \E p \in Providers : customer[p] = c

MandateHookFetch(w, m) ==
    /\ req[w].pc = "idle" /\ m \in hooks
    /\ hooks' = hooks \ {m}
    /\ IF Known(mandate[m].customer)
       THEN Become(w, [Idle EXCEPT !.pc = "mandate_fetched", !.mandate = m,
                                   !.status = mandate[m].status])
       ELSE UNCHANGED req
    /\ UNCHANGED <<customer, mandate, record, profile, money, faults>>

\* Slip: only a mandate without a row is written.
MandateHookSaveNew(w) ==
    /\ req[w].pc = "mandate_fetched"
    /\ IF record[req[w].mandate] = "none"
       THEN upsertMollieMandateRecord(req[w].mandate, req[w].status)
       ELSE UNCHANGED record
    /\ Finish(w)
    /\ UNCHANGED <<customer, mollie, profile, money, faults>>

MandateHookSave(w) ==
    /\ req[w].pc = "mandate_fetched"
    /\ upsertMollieMandateRecord(req[w].mandate, req[w].status)
    /\ Finish(w)
    /\ UNCHANGED <<customer, mollie, profile, money, faults>>

\* Mollie cannot be reached: a warning, and the webhook is done.
MandateHookFails(m) ==
    /\ m \in hooks /\ faults < MaxFaults
    /\ hooks' = hooks \ {m} /\ faults' = faults + 1
    /\ UNCHANGED <<customer, mandate, record, profile, money, req>>

-----------------------------------------------------------------------------
(***************************************************************************)
(* generatePayoutBatch: read the pending distributions, then the providers *)
(* that are ready, then one transaction that creates the batch with one    *)
(* payout per provider and marks the distributions, then the statements.   *)
(***************************************************************************)
Distribute(d) ==
    /\ dist[d].status = "none"
    /\ dist' = [dist EXCEPT ![d].status = "pending"]
    /\ UNCHANGED <<customer, mollie, record, profile, captured, payouts,
                   statements, req, faults>>

PaymentMoves(d) ==
    /\ captured' = IF d \in captured THEN captured \ {d} ELSE captured \cup {d}
    /\ UNCHANGED <<customer, mollie, record, profile, dist, payouts, statements,
                   req, faults>>

\* Slip: distributions of an earlier batch are taken again.
PendingAny == {d \in captured : dist[d].status # "none"}

Pending == {d \in captured : dist[d].status = "pending"}

BatchRead(w) ==
    /\ req[w].pc = "idle" /\ Pending # {}
    /\ Become(w, [Idle EXCEPT !.pc = "batch_read", !.items = Pending])
    /\ UNCHANGED <<customer, mollie, record, profile, money, faults>>

Eligible(p) == profile[p].ready /\ profile[p].kyc = "verified"

\* Slip: the items of providers who are not ready are kept, and no batch made
\* while there are any.
BatchGroupAll(w) ==
    LET items == {d \in req[w].items : Eligible(ProviderOf[d])} IN
    /\ req[w].pc = "batch_read"
    /\ IF items # req[w].items THEN Finish(w)
       ELSE Become(w, [req[w] EXCEPT !.pc = "batch_grouped", !.items = items])
    /\ UNCHANGED <<customer, mollie, record, profile, money, faults>>

BatchGroup(w) ==
    LET items == {d \in req[w].items : Eligible(ProviderOf[d])} IN
    /\ req[w].pc = "batch_read"
    /\ IF items = {} THEN Finish(w)
       ELSE Become(w, [req[w] EXCEPT !.pc = "batch_grouped", !.items = items])
    /\ UNCHANGED <<customer, mollie, record, profile, money, faults>>

Grouped(b, items) ==
    {[batch |-> b, provider |-> p, items |-> {d \in items : ProviderOf[d] = p}] :
        p \in {ProviderOf[d] : d \in items}}

\* Slip: every pending distribution of the providers is marked.
MarkedPending(b, items) ==
    [d \in Distributions |->
        IF ProviderOf[d] \in {ProviderOf[e] : e \in items} /\ dist[d].status = "pending"
        THEN [status |-> "processing", payout |-> <<b, ProviderOf[d]>>] ELSE dist[d]]

\* The updateMany asks for the ids only: a distribution that another batch has
\* taken since it was read is taken over.
Marked(b, items) ==
    [d \in Distributions |->
        IF d \in items THEN [status |-> "processing", payout |-> <<b, ProviderOf[d]>>]
        ELSE dist[d]]

BatchCommit(w, b) ==
    /\ req[w].pc = "batch_grouped"
    /\ \A x \in payouts : x.batch # b
    /\ payouts' = payouts \cup Grouped(b, req[w].items)
    /\ dist' = Marked(b, req[w].items)
    /\ Become(w, [req[w] EXCEPT !.pc = "batch_committed", !.batch = b])
    /\ UNCHANGED <<customer, mollie, record, profile, captured, statements, faults>>

\* Each statement is made after the commit, and an error of one is logged.
BatchStatements(w) ==
    LET made == {<<x.batch, x.provider>> : x \in {x \in payouts : x.batch = req[w].batch}}
    IN  /\ req[w].pc = "batch_committed"
        /\ \E done \in SUBSET made : statements' = statements \cup done
        /\ Finish(w)
        /\ UNCHANGED <<customer, mollie, record, profile, dist, captured, payouts,
                       faults>>

Abort(w) ==
    /\ req[w].pc # "idle" /\ faults < MaxFaults
    /\ faults' = faults + 1
    /\ Finish(w)
    /\ UNCHANGED <<customer, mollie, record, profile, money>>

Batch(w) ==
    \/ BatchRead(w) \/ BatchGroup(w) \/ BatchStatements(w)
    \/ \E b \in Batches : BatchCommit(w, b)

SetUp(w) ==
    \/ \E p \in Providers, payout \in BOOLEAN :
          CustomerRead(w, p, payout)
          \/ \E c \in Customers : CustomerCreate(w, p, payout, c)
    \/ CustomerSave(w)
    \/ \E m \in Mandates, s \in MandateStatus : MandateCreate(w, m, s)
    \/ MandateSave(w) \/ PayoutSetup(w)

Next ==
    \/ \E w \in Workers : SetUp(w) \/ Batch(w) \/ MandateHookSave(w) \/ Abort(w)
    \/ \E m \in Mandates :
          \/ \E s \in MandateStatus : MandateMoves(m, s)
          \/ \E w \in Workers : MandateHookFetch(w, m)
          \/ MandateHookFails(m)
    \/ \E p \in Providers, s \in Kyc : updateProviderPayoutStatus(p, s)
    \/ \E d \in Distributions : Distribute(d) \/ PaymentMoves(d)

Spec == Init /\ [][Next]_vars

\* The weekly job runs, and runs to its end.
FairSpec == Spec /\ \A w \in Workers : WF_vars(Batch(w))

-----------------------------------------------------------------------------

\* Every row and every request holds a value of its type.
TypeOK ==
    /\ customer \in [Providers -> Customers \cup {None}]
    /\ mandate \in [Mandates -> [customer : Customers \cup {None},
                                 status : MandateStatus]]
    /\ hooks \subseteq Mandates
    /\ record \in [Mandates -> MandateStatus \cup {"none"}]
    /\ profile \in [Providers -> Profile]
    /\ dist \in [Distributions -> Row]
    /\ captured \subseteq Distributions
    /\ payouts \subseteq Payout /\ statements \subseteq PayoutId
    /\ req \in [Workers -> Request]
    /\ faults \in 0..MaxFaults

\* A distribution marked as processing belongs to the payout it names, which
\* lists it, and a distribution that a payout lists is marked: concurrent batches
\* may pay it twice but never lose it.
ProcessingIsPaidOut ==
    /\ \A d \in Distributions : dist[d].status = "processing" =>
          \E x \in payouts : d \in x.items /\ dist[d].payout = <<x.batch, x.provider>>
    /\ \A x \in payouts : \A d \in x.items :
          dist[d].status = "processing" /\ x.provider = ProviderOf[d]

\* One batch at a time, a distribution is paid out once.
PaidOutOnce ==
    \A x, y \in payouts : x # y => x.items \cap y.items = {}

\* A provider is shown as verified, on the payout page and on the bank page, and
\* rejected there, exactly when the batches and the acceptance of missions treat
\* them so, although three columns are written and each page reads others.
ShownAsUsed ==
    \A p \in Providers :
        LET row == profile[p] IN
        /\ (normalizePayoutStatus(row) = "verified") <=> Eligible(p)
        /\ (mapActivationStatus(row) = "active") <=> row.ready
        /\ (normalizePayoutStatus(row) = "rejected") <=> (mapActivationStatus(row) = "failed")

\* One request at a time and without lost webhooks, a mandate row shows Mollie's
\* status once no webhook or set-up of it is under way.
MandateSynced ==
    \A m \in Mandates :
        /\ record[m] # "none" /\ m \notin hooks
        /\ \A w \in Workers : req[w].mandate # m
        => record[m] = mandate[m].status

\* A pending distribution is paid out, unless its payment or its provider stops
\* qualifying.
PendingIsPaidOut ==
    \A d \in Distributions :
        (dist[d].status = "pending" /\ d \in captured /\ Eligible(ProviderOf[d]))
            ~> (dist[d].status = "processing" \/ d \notin captured
                \/ ~Eligible(ProviderOf[d]))

=============================================================================
