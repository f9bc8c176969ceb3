--------------------------- MODULE PaymentsProofs ---------------------------
(***************************************************************************)
(* What Payments keeps for every number of bookings, charges and requests  *)
(* at a time: nothing counts as paid that no client granted at Mollie and  *)
(* no event was taken at its word for, and a booking earns points at most  *)
(* once per event that may stand for a payment.                            *)
(***************************************************************************)
EXTENDS Payments, FiniteSetTheorems, TLAPS

(***************************************************************************)
(* Types.  Past the fetch a request is about a booking; before it, about a *)
(* charge that Mollie knows.                                               *)
(***************************************************************************)
ChargeRow == [status : ChargeStatus, for : Targets, amount : Nat]
PaymentRow == [status : PaymentStatus, amount : Nat, ref : Charges \cup {NoCharge}]

Request ==
    {r \in [pc : Phases, charge : Charges \cup {NoCharge}, for : Targets,
            adjust : BOOLEAN, status : Verdicts, seen : BOOLEAN,
            amount : Nat, points : Int] :
        /\ r.pc \in {"checkout_created", "checkout_found"} => r.charge \in Charges
        /\ r.pc \notin {"idle", "hook_fetched"} => r.for \in Bookings}

Types ==
    /\ charge \in [Charges -> ChargeRow]
    /\ offered \subseteq Charges /\ hooks \subseteq Charges \X ChargeStatus
    /\ resent \in 0..MaxResent
    /\ granted \in [Targets -> Nat] /\ onWord \in [Targets -> Nat]
    /\ assigned \subseteq Bookings /\ dispatched \subseteq Bookings
    /\ payment \in [Bookings -> PaymentRow]
    /\ invoice \in [Bookings -> Nat \cup {-1}]
    /\ audited \subseteq {"invoice_generated", "payment_captured"} \X Bookings
    /\ told \in [Bookings -> Nat] /\ earns \in [Bookings -> Nat]
    /\ feePaid \subseteq Providers
    /\ points \in [Clients -> Int] /\ mirror \in [Clients -> Int]
    /\ req \in [Workers -> Request]
    /\ faults \in 0..MaxFaults

LEMMA IdleIsRequest == Idle \in Request
BY DEF Idle, Request, Phases, Targets, Verdicts

LEMMA BecomeTypes ==
    ASSUME Types, NEW w \in Workers, NEW r \in Request, Become(w, r)
    PROVE  /\ req' \in [Workers -> Request] /\ req'[w] = r
           /\ \A v \in Workers \ {w} : req'[v] = req[v]
BY DEF Types, Become

LEMMA FinishTypes ==
    ASSUME Types, NEW w \in Workers, Finish(w)
    PROVE  /\ req' \in [Workers -> Request] /\ req'[w] = Idle
           /\ \A v \in Workers \ {w} : req'[v] = req[v]
BY IdleIsRequest, BecomeTypes DEF Finish

LEMMA TypesAtFirst == PaymentsAssumption /\ Init => Types
BY IdleIsRequest
   DEF PaymentsAssumption, Init, Types, ChargeRow, PaymentRow, PaymentStatus,
       NoPayment, Targets, ChargeStatus, Settled

\* The requests that begin, field by field.
Fields == [pc : Phases, charge : Charges \cup {NoCharge}, for : Targets,
           adjust : BOOLEAN, status : Verdicts, seen : BOOLEAN,
           amount : Nat, points : Int]

LEMMA IdleFields == Idle \in Fields /\ Idle.adjust = FALSE /\ Idle.charge = NoCharge
BY DEF Idle, Fields, Phases, Targets, Verdicts

Checkout(r, c, b) == [r EXCEPT !.pc = "checkout_created", !.charge = c, !.for = b]
Adjusting(r, b) == [r EXCEPT !.pc = "accepted", !.for = b, !.adjust = TRUE]
Hook(r, c, target, s) ==
    [r EXCEPT !.pc = "hook_fetched", !.charge = c, !.for = target, !.status = s]

LEMMA BeginsCheckout ==
    ASSUME NEW r \in Fields, NEW b \in Bookings, NEW c \in Charges
    PROVE  Checkout(r, c, b) \in Request /\ Checkout(r, c, b).pc = "checkout_created"
BY DEF Checkout, Fields, Request, Phases, Targets

LEMMA BeginsAdjusting ==
    ASSUME NEW r \in Fields, NEW b \in Bookings
    PROVE  /\ Adjusting(r, b) \in Request /\ Adjusting(r, b).pc = "accepted"
           /\ Adjusting(r, b).adjust
BY DEF Adjusting, Fields, Request, Phases, Targets

LEMMA BeginsHook ==
    ASSUME NEW r \in Fields, NEW target \in Targets, NEW c \in Charges,
           NEW s \in Verdicts
    PROVE  /\ Hook(r, c, target, s) \in Request
           /\ Hook(r, c, target, s).pc = "hook_fetched"
           /\ Hook(r, c, target, s).adjust = r.adjust
           /\ Hook(r, c, target, s).for = target /\ Hook(r, c, target, s).status = s
BY DEF Hook, Fields, Request, Phases

Unfetched(r, target, s) == [r EXCEPT !.pc = "hook_fetched", !.for = target, !.status = s]

LEMMA BeginsUnfetched ==
    ASSUME NEW r \in Fields, NEW target \in Targets, NEW s \in Verdicts
    PROVE  /\ Unfetched(r, target, s) \in Request
           /\ Unfetched(r, target, s).pc = "hook_fetched"
           /\ Unfetched(r, target, s).adjust = r.adjust
           /\ Unfetched(r, target, s).for = target /\ Unfetched(r, target, s).status = s
BY DEF Unfetched, Fields, Request, Phases

LEMMA CheckoutTypes ==
    ASSUME PaymentsAssumption, Types, NEW w \in Workers,
           \/ \E b \in Bookings, c \in Charges : CheckoutCreate(w, b, c)
           \/ CheckoutFind(w) \/ upsertPaymentRecord(w)
    PROVE  Types'
<1>t. req[w] \in Request
  BY DEF Types
<1>1. ASSUME NEW b \in Bookings, NEW c \in Charges, CheckoutCreate(w, b, c)
      PROVE  Types'
  <2> DEFINE r == Checkout(Idle, c, b)
  <2>0. Become(w, r)
    BY <1>1 DEF CheckoutCreate, Checkout
  <2>3. r \in Request
    BY IdleFields, BeginsCheckout
  <2>2. AmountDue(b) \in Nat /\ b \in Targets
    BY DEF AmountDue, PaymentsAssumption, Targets
  <2>4. charge' \in [Charges -> ChargeRow]
    BY <1>1, <2>2 DEF CheckoutCreate, NewCharge, Types, ChargeRow, ChargeStatus, Settled
  <2>5. req' \in [Workers -> Request]
    BY <2>0, <2>3, BecomeTypes
  <2> QED
    BY <1>1, <2>4, <2>5 DEF CheckoutCreate, Types, papers, loyalty
<1>2. CASE CheckoutFind(w)
  <2> DEFINE r == [req[w] EXCEPT !.pc = "checkout_found",
                                 !.seen = payment[req[w].for].status # "none"]
  <2>1. r \in Request
    BY <1>t, <1>2 DEF CheckoutFind, Request, Phases
  <2>2. req' \in [Workers -> Request]
    BY <1>2, <2>1, BecomeTypes DEF CheckoutFind
  <2> QED
    BY <1>2, <2>2 DEF CheckoutFind, Types, mollie, papers, loyalty
<1>3. CASE upsertPaymentRecord(w)
  <2>1. req[w].for \in Bookings /\ req[w].charge \in Charges
    BY <1>t, <1>3 DEF upsertPaymentRecord, Request
  <2>2. charge[req[w].charge].amount \in Nat
    BY <2>1 DEF Types, ChargeRow
  <2>3. payment' \in [Bookings -> PaymentRow] /\ offered' \subseteq Charges
    BY <1>3, <2>1, <2>2 DEF upsertPaymentRecord, Types, PaymentRow, PaymentStatus
  <2>4. req' \in [Workers -> Request]
    BY <1>3, FinishTypes DEF upsertPaymentRecord
  <2> QED
    BY <1>3, <2>3, <2>4 DEF upsertPaymentRecord, Types, papers, loyalty
<1> QED
  BY <1>1, <1>2, <1>3

LEMMA MollieTypes ==
    ASSUME PaymentsAssumption, Types,
           \/ \E p \in Providers, c \in Charges : CheckoutFee(p, c)
           \/ \E c \in Charges : Authorizes(c) \/ Pays(c) \/ Expires(c) \/ Resend(c)
    PROVE  Types'
<1>1. ASSUME NEW p \in Providers, NEW c \in Charges, CheckoutFee(p, c)
      PROVE  Types'
  <2>1. charge' \in [Charges -> ChargeRow]
    BY <1>1 DEF CheckoutFee, NewCharge, Types, ChargeRow, ChargeStatus, Settled, Targets
  <2> QED
    BY <1>1, <2>1 DEF CheckoutFee, Types, papers, loyalty
<1>2. ASSUME NEW c \in Charges, NEW status \in {"authorized", "paid", "failed"}, NEW from,
             Settle(c, from, status)
      PROVE  Types'
  <2>1. charge' \in [Charges -> ChargeRow] /\ hooks' \subseteq Charges \X ChargeStatus
    BY <1>2 DEF Settle, Types, ChargeRow, ChargeStatus, Settled
  <2>2. granted' \in [Targets -> Nat]
    <3> DEFINE t == charge[c].for
               more == IF status = "failed" THEN granted[t] ELSE granted[t] + 1
    <3>1. t \in Targets /\ granted \in [Targets -> Nat]
      BY DEF Types, ChargeRow
    <3>2. more \in Nat
      BY <3>1
    <3>3. granted' = [granted EXCEPT ![t] = more]
      BY <1>2 DEF Settle
    <3> HIDE DEF t, more
    <3> QED
      BY <3>1, <3>2, <3>3
  <2> QED
    BY <1>2, <2>1, <2>2 DEF Settle, Types, papers, loyalty
<1>3. ASSUME NEW c \in Charges, Resend(c)
      PROVE  Types'
  <2>1. hooks' \subseteq Charges \X ChargeStatus
    BY <1>3 DEF Resend, Types, ChargeRow
  <2> QED
    BY <1>3, <2>1 DEF Resend, Types, papers, loyalty, PaymentsAssumption
<1> QED
  BY <1>1, <1>2, <1>3 DEF Authorizes, Pays, Expires

\* A webhook comes in: its charge is fetched, or its event stays as its body is.
Takes(w) ==
    \/ \E c \in Charges, said \in ChargeStatus, type \in Verdicts : HookFetch(w, <<c, said>>, type)
    \/ \E of \in Lost, status \in Verdicts, target \in Targets :
          HookUnfetched(w, of, status, target)

Served(w, t, s) ==
    \E r \in Request :
        /\ Become(w, r) /\ r.pc = "hook_fetched" /\ ~r.adjust
        /\ r.for = t /\ r.status = s

\* The request that serves it, and what it goes by: a charge that is authorized or paid,
\* or an event taken at its word.
LEMMA TakenUp ==
    ASSUME Types, NEW w \in Workers, Takes(w)
    PROVE  /\ req[w].pc = "idle" /\ hooks' \subseteq hooks
           /\ UNCHANGED <<charge, offered, resent, granted, assigned, payment, papers, feePaid,
                          loyalty, dispatched>>
           /\ faults' \in {faults, faults + 1} /\ (faults' = faults \/ faults < MaxFaults)
           /\ \E t \in Targets, s \in Verdicts :
                 /\ Served(w, t, s)
                 /\ UNCHANGED onWord \/ TakeOnWord(t)
                 /\ s = "paid" =>
                      \/ TakeOnWord(t)
                      \/ \E h \in hooks \ hooks' :
                            /\ h[1] \in Charges /\ charge[h[1]].for = t
                            /\ charge[h[1]].status \in {"authorized", "paid"}
<1>1. ASSUME NEW c \in Charges, NEW said \in ChargeStatus, NEW type \in Verdicts,
             HookFetch(w, <<c, said>>, type)
      PROVE  /\ req[w].pc = "idle" /\ hooks' \subseteq hooks
             /\ UNCHANGED <<charge, offered, resent, granted, assigned, payment, papers,
                            feePaid, loyalty, dispatched, faults>>
             /\ \E t \in Targets, s \in Verdicts :
                 /\ Served(w, t, s) /\ (UNCHANGED onWord \/ TakeOnWord(t))
                 /\ s = "paid" =>
                      \/ TakeOnWord(t)
                      \/ \E h \in hooks \ hooks' :
                            /\ h[1] \in Charges /\ charge[h[1]].for = t
                            /\ charge[h[1]].status \in {"authorized", "paid"}
  <2> DEFINE row == charge[c]
             s == normalizeMollieStatus(row.status, type)
             r == Hook(Idle, c, row.for, s)
             h == <<c, said>>
  <2>1. row.for \in Targets /\ row.status \in ChargeStatus
    BY DEF Types, ChargeRow
  <2>2. /\ req[w].pc = "idle" /\ h \in hooks /\ hooks' = hooks \ {h} /\ Become(w, r)
        /\ IF row.status \notin Settled /\ type = "paid" THEN TakeOnWord(row.for)
                                                         ELSE UNCHANGED onWord
        /\ UNCHANGED <<charge, offered, resent, granted, assigned, payment, papers,
                       feePaid, loyalty, dispatched, faults>>
    BY <1>1, Zenon DEF HookFetch, Hook
  <2>3. s \in Verdicts
    BY <2>1 DEF normalizeMollieStatus, Verdicts, ChargeStatus, Settled
  <2>4. s = "paid" => \/ row.status \notin Settled /\ type = "paid"
                      \/ row.status \in {"authorized", "paid"}
    BY <2>1 DEF normalizeMollieStatus, Settled
  <2>5. Served(w, row.for, s)
    <3> HIDE DEF s
    <3>1. /\ r \in Request /\ r.pc = "hook_fetched" /\ r.for = row.for
          /\ r.status = s /\ ~r.adjust
      BY <2>1, <2>3, IdleFields, BeginsHook
    <3> HIDE DEF r
    <3> QED
      BY <2>2, <3>1 DEF Served
  <2>6. h[1] = c /\ h \in hooks \ hooks'
    BY <2>2
  <2> HIDE DEF s, r, h
  <2>7. s = "paid" =>
            \/ TakeOnWord(row.for)
            \/ \E g \in hooks \ hooks' :
                  /\ g[1] \in Charges /\ charge[g[1]].for = row.for
                  /\ charge[g[1]].status \in {"authorized", "paid"}
    BY <2>2, <2>4, <2>6, Zenon
  <2> QED
    BY <2>1, <2>2, <2>3, <2>5, <2>7, Zenon
<1>2. ASSUME NEW of \in Lost, NEW s \in Verdicts, NEW t \in Targets,
             HookUnfetched(w, of, s, t)
      PROVE  /\ req[w].pc = "idle" /\ hooks' \subseteq hooks
             /\ UNCHANGED <<charge, offered, resent, granted, assigned, payment, papers,
                            feePaid, loyalty, dispatched>>
             /\ faults' = faults + 1 /\ faults < MaxFaults
             /\ Served(w, t, s)
             /\ IF s = "paid" THEN TakeOnWord(t) ELSE UNCHANGED onWord
  <2> DEFINE r == [Idle EXCEPT !.pc = "hook_fetched", !.for = t, !.status = s]
  <2>1. r = Unfetched(Idle, t, s)
    BY DEF Unfetched
  <2>2. /\ r \in Request /\ r.pc = "hook_fetched" /\ r.for = t /\ r.status = s /\ ~r.adjust
    BY <2>1, IdleFields, BeginsUnfetched
  <2>3. Become(w, r)
    BY <1>2 DEF HookUnfetched
  <2> HIDE DEF r
  <2>4. Served(w, t, s)
    BY <2>2, <2>3 DEF Served
  <2> QED
    BY <1>2, <2>4 DEF HookUnfetched
<1> QED
  BY <1>1, <1>2 DEF Takes

LEMMA HookTypes ==
    ASSUME PaymentsAssumption, Types, NEW w \in Workers,
           \/ Takes(w)
           \/ HookFee(w) \/ HookNothing(w) \/ HookCapture(w) \/ HookFail(w)
    PROVE  Types'
<1>t. req[w] \in Request
  BY DEF Types
<1>1. CASE Takes(w)
  <2>1. PICK t \in Targets, s \in Verdicts :
           Served(w, t, s) /\ (UNCHANGED onWord \/ TakeOnWord(t))
    BY <1>1, TakenUp
  <2>3. req' \in [Workers -> Request]
    BY <2>1, BecomeTypes DEF Served
  <2>4. onWord' \in [Targets -> Nat]
    BY <2>1 DEF TakeOnWord, Types
  <2>5. hooks' \subseteq Charges \X ChargeStatus /\ faults' \in 0..MaxFaults
    BY <1>1, TakenUp DEF Types, PaymentsAssumption
  <2> QED
    BY <1>1, <2>3, <2>4, <2>5, TakenUp DEF Types, papers, loyalty
<1>2. CASE HookFee(w) \/ HookNothing(w)
  <2>1. req' \in [Workers -> Request]
    BY <1>2, FinishTypes DEF HookFee, HookNothing
  <2> QED
    BY <1>2, <2>1 DEF HookFee, HookNothing, Types, mollie, papers, loyalty
<1>3. CASE HookCapture(w)
  <2> DEFINE r == [req[w] EXCEPT !.pc = "hook_captured",
                                 !.amount = payment[req[w].for].amount]
  <2>1. req[w].for \in Bookings
    BY <1>3 DEF HookCapture, resolvePaymentIdFromMollie
  <2>2. r \in Request
    BY <1>t, <2>1 DEF Types, PaymentRow, Request, Phases
  <2>3. req' \in [Workers -> Request]
    BY <1>3, <2>2, BecomeTypes DEF HookCapture
  <2>4. payment' \in [Bookings -> PaymentRow]
    BY <1>3, <2>1 DEF HookCapture, Types, PaymentRow, PaymentStatus
  <2> QED
    BY <1>3, <2>3, <2>4 DEF HookCapture, Types, mollie, papers, loyalty
<1>4. CASE HookFail(w)
  <2>0. req[w].for \in Bookings
    BY <1>4 DEF HookFail, resolvePaymentIdFromMollie
  <2>1. payment' \in [Bookings -> PaymentRow]
    BY <1>4, <2>0 DEF HookFail, Types, PaymentRow, PaymentStatus
  <2>2. req' \in [Workers -> Request]
    BY <1>4, FinishTypes DEF HookFail
  <2> QED
    BY <1>4, <2>1, <2>2 DEF HookFail, Types, mollie, papers, loyalty
<1> QED
  BY <1>1, <1>2, <1>3, <1>4

LEMMA PapersTypes ==
    ASSUME PaymentsAssumption, Types, NEW w \in Workers,
           \/ HookInvoice(w) \/ HookInvoiceRefused(w) \/ notifyInvoiceGenerated(w)
           \/ HookToldCaptured(w)
    PROVE  Types'
<1>t. req[w] \in Request
  BY DEF Types
<1>1. CASE HookInvoice(w)
  <2> DEFINE known == <<"invoice_generated", req[w].for>> \in audited
             r == [req[w] EXCEPT !.pc = "hook_invoiced", !.seen = known]
  <2>1. req[w].for \in Bookings
    BY <1>t, <1>1 DEF HookInvoice, Request
  <2>2. r \in Request
    <3>1. known \in BOOLEAN
      OBVIOUS
    <3> HIDE DEF known
    <3> QED
      BY <1>t, <2>1, <3>1 DEF Request, Phases
  <2>3. req' \in [Workers -> Request]
    BY <1>1, <2>2, BecomeTypes DEF HookInvoice
  <2>4. invoice' \in [Bookings -> Nat \cup {-1}]
    BY <1>1, <2>1 DEF HookInvoice, Types, PaymentsAssumption
  <2> QED
    BY <1>1, <2>3, <2>4 DEF HookInvoice, Types, mollie, loyalty
<1>2. CASE HookInvoiceRefused(w)
  <2>1. req' \in [Workers -> Request]
    BY <1>2, FinishTypes DEF HookInvoiceRefused
  <2> QED
    BY <1>2, <2>1 DEF HookInvoiceRefused, Types, mollie, papers, loyalty
<1>3. CASE notifyInvoiceGenerated(w)
  <2>1. req[w].for \in Bookings
    BY <1>t, <1>3 DEF recordAuditEntry, notifyInvoiceGenerated, Request
  <2>2. [req[w] EXCEPT !.pc = "hook_told"] \in Request
    BY <1>t, <2>1 DEF Request, Phases
  <2>3. req' \in [Workers -> Request]
    BY <1>3, <2>2, BecomeTypes, FinishTypes DEF recordAuditEntry, notifyInvoiceGenerated
  <2>4. audited' \subseteq {"invoice_generated", "payment_captured"} \X Bookings
    BY <1>3, <2>1 DEF recordAuditEntry, notifyInvoiceGenerated, Types
  <2>5. told' \in [Bookings -> Nat]
    BY <1>3, <2>1 DEF recordAuditEntry, notifyInvoiceGenerated, Types
  <2> QED
    BY <1>3, <2>3, <2>4, <2>5 DEF recordAuditEntry, notifyInvoiceGenerated, Types, mollie, loyalty
<1>4. CASE HookToldCaptured(w)
  <2> DEFINE r == [req[w] EXCEPT !.pc = "loyalty_read", !.points = points[ClientOf[req[w].for]]]
  <2>1. req[w].for \in Bookings
    BY <1>t, <1>4 DEF recordAuditEntry, HookToldCaptured, Request
  <2>2. points[ClientOf[req[w].for]] \in Int
    BY <2>1 DEF PaymentsAssumption, Types
  <2>3. r \in Request
    BY <1>t, <2>1, <2>2 DEF Request, Phases
  <2>4. req' \in [Workers -> Request]
    BY <1>4, <2>3, BecomeTypes DEF recordAuditEntry, HookToldCaptured
  <2>5. audited' \subseteq {"invoice_generated", "payment_captured"} \X Bookings
    BY <1>4, <2>1 DEF recordAuditEntry, HookToldCaptured, Types
  <2> QED
    BY <1>4, <2>4, <2>5 DEF recordAuditEntry, HookToldCaptured, Types, mollie, loyalty
<1> QED
  BY <1>1, <1>2, <1>3, <1>4

LEMMA LoyaltyTypes ==
    ASSUME PaymentsAssumption, Types, NEW w \in Workers,
           finalizeBookingLoyalty(w) \/ LoyaltyFails(w)
    PROVE  Types'
<1>t. req[w] \in Request
  BY DEF Types
<1>1. req[w].for \in Bookings /\ req[w].points \in Int /\ req[w].amount \in Nat
  BY <1>t DEF finalizeBookingLoyalty, LoyaltyFails, Request
<1>2. dispatched' \subseteq Bookings /\ req' \in [Workers -> Request]
  BY <1>1, FinishTypes
     DEF finalizeBookingLoyalty, LoyaltyFails, triggerShortNoticeDispatch, Types
<1>3. CASE finalizeBookingLoyalty(w)
  <2> DEFINE gain == req[w].amount - (IF Redeemable(req[w]) > 0 THEN Redeemable(req[w]) ELSE 0)
             c == ClientOf[req[w].for]
  <2>1. Redeemable(req[w]) \in Int /\ c \in Clients
    BY <1>1 DEF Redeemable, Lesser, PaymentsAssumption
  <2>2. gain \in Int
    BY <1>1, <2>1
  <2>3. points' = [points EXCEPT ![c] = @ + gain] /\ mirror' = [mirror EXCEPT ![c] = req[w].points + gain]
    BY <1>3 DEF finalizeBookingLoyalty
  <2>4. points' \in [Clients -> Int] /\ mirror' \in [Clients -> Int]
    BY <1>1, <2>1, <2>2, <2>3 DEF Types
  <2>5. earns' \in [Bookings -> Nat]
    BY <1>1, <1>3 DEF finalizeBookingLoyalty, Types
  <2> QED
    BY <1>2, <1>3, <2>4, <2>5 DEF finalizeBookingLoyalty, Types, mollie, papers
<1>4. CASE LoyaltyFails(w)
  BY <1>2, <1>4 DEF LoyaltyFails, Types, mollie, papers, loyalty
<1> QED
  BY <1>3, <1>4

LEMMA AcceptTypes ==
    ASSUME PaymentsAssumption, Types,
           \/ \E b \in Bookings : Assign(b)
           \/ \E w \in Workers : \/ \E b \in Bookings : Accept(w, b)
                                 \/ adjustShortNoticePayment(w) \/ Abort(w)
    PROVE  Types'
<1>1. ASSUME NEW b \in Bookings, Assign(b)
      PROVE  Types'
  BY <1>1 DEF Assign, Types, mollie, papers, loyalty
<1>2. ASSUME NEW w \in Workers, NEW b \in Bookings, Accept(w, b)
      PROVE  Types'
  <2> DEFINE r == Adjusting(Idle, b)
  <2>0. Become(w, r)
    BY <1>2 DEF Accept, Adjusting
  <2>3. r \in Request
    BY IdleFields, BeginsAdjusting
  <2>2. req' \in [Workers -> Request]
    BY <2>0, <2>3, BecomeTypes
  <2> QED
    BY <1>2, <2>2 DEF Accept, Types, mollie, papers, loyalty
<1>3. ASSUME NEW w \in Workers, adjustShortNoticePayment(w)
      PROVE  Types'
  <2>1. req[w] \in Request /\ req[w].for \in Bookings
    BY <1>3 DEF adjustShortNoticePayment, Types, Request
  <2>2. [req[w] EXCEPT !.pc = "hook_captured"] \in Request
    BY <2>1 DEF Request, Phases
  <2>3. req' \in [Workers -> Request]
    BY <1>3, <2>2, BecomeTypes, FinishTypes DEF adjustShortNoticePayment
  <2>4. payment' \in [Bookings -> PaymentRow]
    <3>1. CASE UNCHANGED payment
      BY <3>1 DEF Types
    <3>2. CASE payment' = [payment EXCEPT ![req[w].for].amount = Total[req[w].for]]
      <4>1. Total[req[w].for] \in Nat
        BY <2>1 DEF PaymentsAssumption
      <4> QED
        BY <3>2, <2>1, <4>1 DEF Types, PaymentRow
    <3> QED
      BY <1>3, <3>1, <3>2 DEF adjustShortNoticePayment
  <2> QED
    BY <1>3, <2>3, <2>4 DEF adjustShortNoticePayment, Types, mollie, papers, loyalty
<1>4. ASSUME NEW w \in Workers, Abort(w)
      PROVE  Types'
  <2>1. req' \in [Workers -> Request]
    BY <1>4, FinishTypes DEF Abort
  <2>2. faults' \in 0..MaxFaults
    BY <1>4 DEF Abort, Types, PaymentsAssumption
  <2> QED
    BY <1>4, <2>1, <2>2 DEF Abort, Types, mollie, papers, loyalty
<1> QED
  BY <1>1, <1>2, <1>3, <1>4

\* A step is one of a request or of Mollie, an event taken up, or changes nothing here.
RequestStep(w) ==
    \/ \E b \in Bookings, c \in Charges : CheckoutCreate(w, b, c)
    \/ \E b \in Bookings : Accept(w, b)
    \/ Continue(w) \/ Abort(w)

MollieStep ==
    \/ \E p \in Providers, c \in Charges : CheckoutFee(p, c)
    \/ \E c \in Charges : Authorizes(c) \/ Pays(c) \/ Expires(c) \/ Resend(c)

LEMMA StepKinds ==
    ASSUME [Next]_vars
    PROVE  \/ \E w \in Workers : RequestStep(w)
           \/ \E w \in Workers : Takes(w)
           \/ MollieStep
           \/ \E b \in Bookings : Assign(b)
           \/ UNCHANGED vars
<1>1. ASSUME NEW c \in Charges, Receive(c)
      PROVE  \E w \in Workers : Takes(w)
  BY <1>1 DEF Receive, Takes
<1> QED
  BY <1>1 DEF Next, RequestStep, Takes, MollieStep, captureCheckoutPayment

LEMMA TypesStay == PaymentsAssumption /\ Types /\ [Next]_vars => Types'
<1> SUFFICES ASSUME PaymentsAssumption, Types, [Next]_vars
             PROVE  Types'
  OBVIOUS
<1>1. CASE UNCHANGED vars
  BY <1>1 DEF vars, mollie, papers, loyalty, Types
<1>2. ASSUME NEW w \in Workers, RequestStep(w)
      PROVE  Types'
  BY <1>2, CheckoutTypes, HookTypes, PapersTypes, LoyaltyTypes, AcceptTypes
     DEF RequestStep, Continue
<1>3. ASSUME NEW w \in Workers, Takes(w)
      PROVE  Types'
  BY <1>3, HookTypes
<1>4. CASE MollieStep
  BY <1>4, MollieTypes DEF MollieStep
<1>5. ASSUME NEW b \in Bookings, Assign(b)
      PROVE  Types'
  BY <1>5, AcceptTypes
<1> QED
  BY <1>1, <1>2, <1>3, <1>4, <1>5, StepKinds

\* Every row and every request holds a value of its type, whatever webhooks,
\* checkouts and errors interleave.
THEOREM PaymentsTypeCorrect ==
    ASSUME PaymentsAssumption
    PROVE  Spec => []TypeOK
<1>1. Types => TypeOK
  BY DEF Types, TypeOK, ChargeRow, PaymentRow, Request
<1> QED
  BY <1>1, TypesAtFirst, TypesStay, PTL DEF Spec

(***************************************************************************)
(* Money.  A request earns from the event it takes for paid on, unless it  *)
(* adjusts an accepted booking; then a client granted a charge of its      *)
(* booking or the event was taken at its word, and neither is undone.      *)
(***************************************************************************)
Earning(r) ==
    /\ ~r.adjust
    /\ \/ r.pc = "hook_fetched" /\ r.status = "paid"
       \/ r.pc \in {"hook_captured", "hook_invoiced", "hook_told", "loyalty_read"}

Tagged(r) ==
    /\ r.pc = "accepted" => r.adjust
    /\ r.pc \in {"hook_fetched", "hook_told", "loyalty_read"} => ~r.adjust

AllTagged == \A w \in Workers : Tagged(req[w])
AllBacked ==
    \A w \in Workers, t \in Targets :
        Earning(req[w]) /\ req[w].for = t => Backed(t)

\* Only a charge that Mollie knows is announced, and what it says of a charge was granted.
Ledger ==
    /\ \A h \in hooks : charge[h[1]].status # "none"
    /\ \A c \in Charges :
          charge[c].status \in {"authorized", "paid"} => granted[charge[c].for] > 0

\* What a step of a request does to the requests.
LEMMA RequestMoves ==
    ASSUME Types, AllTagged, NEW w \in Workers, RequestStep(w)
    PROVE  /\ \A v \in Workers \ {w} : req'[v] = req[v]
           /\ Tagged(req'[w])
           /\ Earning(req'[w]) => Earning(req[w]) /\ req'[w].for = req[w].for
<1> USE DEF Earning, Tagged
<1>t. req[w] \in Request /\ Tagged(req[w])
  BY DEF Types, AllTagged
<1>0. Tagged(Idle) /\ ~Earning(Idle)
  BY DEF Idle
<1>1. CASE Finish(w)
  BY <1>0, <1>1, FinishTypes
<1>2. ASSUME NEW b \in Bookings, NEW c \in Charges, CheckoutCreate(w, b, c)
      PROVE  req' = [req EXCEPT ![w] = Checkout(Idle, c, b)]
  BY <1>2 DEF CheckoutCreate, Checkout, Become
<1>3. ASSUME NEW b \in Bookings, Accept(w, b)
      PROVE  req' = [req EXCEPT ![w] = Adjusting(Idle, b)]
  BY <1>3 DEF Accept, Adjusting, Become
<1>4. ASSUME NEW r, req' = [req EXCEPT ![w] = r], Tagged(r),
             Earning(r) => Earning(req[w]) /\ r.for = req[w].for
      PROVE  /\ \A v \in Workers \ {w} : req'[v] = req[v]
             /\ Tagged(req'[w])
             /\ Earning(req'[w]) => Earning(req[w]) /\ req'[w].for = req[w].for
  <2>1. req'[w] = r /\ \A v \in Workers \ {w} : req'[v] = req[v]
    BY <1>4 DEF Types
  <2> QED
    BY <1>4, <2>1
<1>5. CASE \E b \in Bookings, c \in Charges : CheckoutCreate(w, b, c)
  <2>1. PICK b \in Bookings, c \in Charges : req' = [req EXCEPT ![w] = Checkout(Idle, c, b)]
    BY <1>2, <1>5
  <2>2. Checkout(Idle, c, b).pc = "checkout_created"
    BY IdleFields, BeginsCheckout
  <2> QED
    BY <1>4, <2>1, <2>2
<1>6. CASE \E b \in Bookings : Accept(w, b)
  <2>1. PICK b \in Bookings : req' = [req EXCEPT ![w] = Adjusting(Idle, b)]
    BY <1>3, <1>6
  <2>2. Adjusting(Idle, b).pc = "accepted" /\ Adjusting(Idle, b).adjust
    BY IdleFields, BeginsAdjusting
  <2> QED
    BY <1>4, <2>1, <2>2
<1>7. CASE CheckoutFind(w)
  <2> DEFINE seen == payment[req[w].for].status # "none"
             r == [req[w] EXCEPT !.pc = "checkout_found", !.seen = seen]
  <2>1. req' = [req EXCEPT ![w] = r]
    BY <1>7 DEF CheckoutFind, Become
  <2>2. r.pc = "checkout_found"
    BY <1>t DEF Request
  <2> QED
    BY <1>4, <2>1, <2>2
<1>8. CASE HookCapture(w)
  <2> DEFINE r == [req[w] EXCEPT !.pc = "hook_captured",
                                 !.amount = payment[req[w].for].amount]
  <2>1. req' = [req EXCEPT ![w] = r] /\ req[w].pc = "hook_fetched" /\ req[w].status = "paid"
    BY <1>8 DEF HookCapture, Become
  <2>2. r.pc = "hook_captured" /\ r.adjust = req[w].adjust /\ r.for = req[w].for
    BY <1>t DEF Request
  <2> QED
    BY <1>4, <2>1, <2>2
<1>9. CASE HookInvoice(w)
  <2> DEFINE known == <<"invoice_generated", req[w].for>> \in audited
             r == [req[w] EXCEPT !.pc = "hook_invoiced", !.seen = known]
  <2>1. req' = [req EXCEPT ![w] = r] /\ req[w].pc = "hook_captured"
    BY <1>9 DEF HookInvoice, Become
  <2>2. r.pc = "hook_invoiced" /\ r.adjust = req[w].adjust /\ r.for = req[w].for
    <3> HIDE DEF known
    <3> QED
      BY <1>t DEF Request
  <2> QED
    BY <1>4, <2>1, <2>2
<1>10. CASE notifyInvoiceGenerated(w)
  <2> DEFINE r == [req[w] EXCEPT !.pc = "hook_told"]
  <2>0. req[w].pc = "hook_invoiced" /\ IF req[w].adjust THEN Finish(w) ELSE Become(w, r)
    BY <1>10 DEF notifyInvoiceGenerated
  <2>1. Finish(w) \/ (~req[w].adjust /\ req' = [req EXCEPT ![w] = r])
    BY <2>0, Zenon DEF Become
  <2>2. r.pc = "hook_told" /\ r.adjust = req[w].adjust /\ r.for = req[w].for
    BY <1>t DEF Request
  <2> QED
    BY <1>1, <1>4, <2>0, <2>1, <2>2
<1>11. CASE HookToldCaptured(w)
  <2> DEFINE r == [req[w] EXCEPT !.pc = "loyalty_read",
                                 !.points = points[ClientOf[req[w].for]]]
  <2>1. req' = [req EXCEPT ![w] = r] /\ req[w].pc = "hook_told"
    BY <1>11 DEF HookToldCaptured, Become
  <2>2. r.pc = "loyalty_read" /\ r.adjust = req[w].adjust /\ r.for = req[w].for
    BY <1>t DEF Request
  <2> QED
    BY <1>4, <1>t, <2>1, <2>2
<1>12. CASE adjustShortNoticePayment(w)
  <2> DEFINE r == [req[w] EXCEPT !.pc = "hook_captured"]
  <2>1. req[w].pc = "accepted" /\ (Finish(w) \/ req' = [req EXCEPT ![w] = r])
    BY <1>12 DEF adjustShortNoticePayment, Become
  <2>2. r.pc = "hook_captured" /\ r.adjust = req[w].adjust
    BY <1>t DEF Request
  <2> QED
    BY <1>1, <1>4, <1>t, <2>1, <2>2
<1>13. CASE \/ upsertPaymentRecord(w) \/ HookFee(w) \/ HookNothing(w) \/ HookFail(w)
            \/ HookInvoiceRefused(w) \/ finalizeBookingLoyalty(w) \/ LoyaltyFails(w)
            \/ Abort(w)
  BY <1>1, <1>13
     DEF upsertPaymentRecord, HookFee, HookNothing, HookFail, HookInvoiceRefused,
         finalizeBookingLoyalty, LoyaltyFails, Abort
<1> QED
  BY <1>5, <1>6, <1>7, <1>8, <1>9, <1>10, <1>11, <1>12, <1>13 DEF RequestStep, Continue

LEMMA TakeMoves ==
    ASSUME Types, Ledger, NEW w \in Workers, Takes(w)
    PROVE  /\ \A v \in Workers \ {w} : req'[v] = req[v]
           /\ Tagged(req'[w]) /\ ~Earning(req[w])
           /\ Earning(req'[w]) => \E t \in Targets : req'[w].for = t /\ Backed(t)'
<1>1. PICK t \in Targets, s \in Verdicts :
         /\ Served(w, t, s)
         /\ UNCHANGED onWord \/ TakeOnWord(t)
         /\ s = "paid" =>
              \/ TakeOnWord(t)
              \/ \E h \in hooks \ hooks' :
                    /\ h[1] \in Charges /\ charge[h[1]].for = t
                    /\ charge[h[1]].status \in {"authorized", "paid"}
  BY TakenUp
<1>2. /\ \A v \in Workers \ {w} : req'[v] = req[v]
      /\ req'[w].pc = "hook_fetched" /\ ~req'[w].adjust
      /\ req'[w].for = t /\ req'[w].status = s
  BY <1>1, BecomeTypes DEF Served
<1>3. req[w].pc = "idle" /\ UNCHANGED granted
  BY TakenUp
<1>4. TakeOnWord(t) => Backed(t)'
  BY DEF TakeOnWord, Types, Backed
<1>5. (\E h \in hooks \ hooks' :
          /\ h[1] \in Charges /\ charge[h[1]].for = t
          /\ charge[h[1]].status \in {"authorized", "paid"}) => Backed(t)'
  BY <1>3 DEF Ledger, Backed
<1>6. s = "paid" => Backed(t)'
  BY <1>1, <1>4, <1>5
<1> QED
  BY <1>2, <1>3, <1>6 DEF Tagged, Earning

(***************************************************************************)
(* What a step does to the charges, the webhooks on their way and the      *)
(* histories.                                                              *)
(***************************************************************************)
Announces(c) ==
    \/ \E s \in {"authorized", "paid", "failed"} : Settle(c, {"open", "authorized"}, s)
    \/ Resend(c)

LEMMA MollieKinds ==
    ASSUME MollieStep
    PROVE  /\ UNCHANGED <<req, payment, dispatched, earns, feePaid, onWord>>
           /\ \/ \E t \in Targets, c \in Charges :
                    NewCharge(c, t, 1) /\ UNCHANGED <<hooks, resent, granted>>
              \/ \E c \in Charges : Announces(c)
<1>1. ASSUME NEW p \in Providers, NEW c \in Charges, CheckoutFee(p, c)
      PROVE  /\ UNCHANGED <<req, payment, dispatched, earns, feePaid, onWord>>
             /\ NewCharge(c, p, 1) /\ UNCHANGED <<hooks, resent, granted>>
             /\ p \in Targets
  BY <1>1 DEF CheckoutFee, loyalty, Targets
<1>2. ASSUME NEW c \in Charges, Resend(c)
      PROVE  UNCHANGED <<req, payment, dispatched, earns, feePaid, onWord>> /\ Announces(c)
  BY <1>2 DEF Resend, loyalty, Announces
<1>3. ASSUME NEW c \in Charges, NEW from \in SUBSET {"open", "authorized"},
             NEW s \in {"authorized", "paid", "failed"}, Settle(c, from, s)
      PROVE  UNCHANGED <<req, payment, dispatched, earns, feePaid, onWord>> /\ Announces(c)
  BY <1>3 DEF Settle, loyalty, Announces
<1>4. ASSUME NEW c \in Charges, Authorizes(c) \/ Pays(c) \/ Expires(c)
      PROVE  UNCHANGED <<req, payment, dispatched, earns, feePaid, onWord>> /\ Announces(c)
  BY <1>3, <1>4 DEF Authorizes, Pays, Expires
<1> QED
  BY <1>1, <1>2, <1>4 DEF MollieStep

LEMMA RequestKinds ==
    ASSUME NEW w \in Workers, RequestStep(w)
    PROVE  /\ UNCHANGED <<hooks, resent, granted, onWord>>
           /\ \/ UNCHANGED charge
              \/ \E b \in Bookings, c \in Charges : NewCharge(c, b, AmountDue(b))
<1>1. ASSUME NEW b \in Bookings, NEW c \in Charges, CheckoutCreate(w, b, c)
      PROVE  UNCHANGED <<hooks, resent, granted, onWord>> /\ NewCharge(c, b, AmountDue(b))
  BY <1>1 DEF CheckoutCreate
<1>2. ASSUME NEW b \in Bookings, Accept(w, b)
      PROVE  UNCHANGED <<charge, hooks, resent, granted, onWord>>
  BY <1>2 DEF Accept, mollie
<1>3. ASSUME Continue(w) \/ Abort(w)
      PROVE  UNCHANGED <<charge, hooks, resent, granted, onWord>>
  BY <1>3
     DEF Continue, Abort, CheckoutFind, upsertPaymentRecord, HookFee, HookNothing,
         HookCapture, HookFail, HookInvoice, HookInvoiceRefused,
         notifyInvoiceGenerated, HookToldCaptured, finalizeBookingLoyalty,
         LoyaltyFails, adjustShortNoticePayment, mollie
<1> QED
  BY <1>1, <1>2, <1>3 DEF RequestStep

LEMMA AfterNew ==
    ASSUME Types, NEW c \in Charges, NEW t, NEW a, NewCharge(c, t, a)
    PROVE  /\ charge[c].status = "none" /\ charge'[c].status = "open"
           /\ \A d \in Charges \ {c} : charge'[d] = charge[d]
BY DEF NewCharge, Types

\* Clients granted one thing more, or a charge failed.
LEMMA AfterSettle ==
    ASSUME Types, NEW c \in Charges, NEW from \in SUBSET {"open", "authorized"},
           NEW s \in {"authorized", "paid", "failed"}, Settle(c, from, s)
    PROVE  /\ charge[c].status \in {"open", "authorized"} /\ charge'[c].status = s
           /\ charge'[c].for = charge[c].for /\ charge[c].for \in Targets
           /\ \A d \in Charges \ {c} : charge'[d] = charge[d]
           /\ hooks' = hooks \cup {<<c, s>>} /\ UNCHANGED resent
           /\ \A t \in Targets :
                 granted'[t] = IF t = charge[c].for /\ s # "failed" THEN granted[t] + 1
                                                                   ELSE granted[t]
BY DEF Settle, Types, ChargeRow

LEMMA HistoryGrows ==
    ASSUME Types, [Next]_vars, NEW t \in Targets
    PROVE  granted'[t] >= granted[t] /\ onWord'[t] >= onWord[t]
<1>0. granted[t] \in Nat /\ onWord[t] \in Nat
  BY DEF Types
<1>1. ASSUME UNCHANGED <<granted, onWord>>
      PROVE  granted'[t] >= granted[t] /\ onWord'[t] >= onWord[t]
  BY <1>0, <1>1
<1>2. ASSUME NEW w \in Workers, Takes(w)
      PROVE  granted'[t] >= granted[t] /\ onWord'[t] >= onWord[t]
  <2>1. PICK a \in Targets : UNCHANGED onWord \/ TakeOnWord(a)
    BY <1>2, TakenUp
  <2>2. UNCHANGED granted
    BY <1>2, TakenUp
  <2> QED
    BY <1>0, <2>1, <2>2 DEF TakeOnWord, Types
<1>3. ASSUME NEW c \in Charges, Announces(c), UNCHANGED onWord
      PROVE  granted'[t] >= granted[t] /\ onWord'[t] >= onWord[t]
  <2>1. CASE Resend(c)
    BY <1>1, <1>3, <2>1 DEF Resend
  <2>2. ASSUME NEW s \in {"authorized", "paid", "failed"}, Settle(c, {"open", "authorized"}, s)
        PROVE  granted'[t] >= granted[t]
    BY <1>0, <2>2, AfterSettle
  <2> QED
    BY <1>0, <1>3, <2>1, <2>2 DEF Announces
<1>4. ASSUME NEW b \in Bookings, Assign(b)
      PROVE  UNCHANGED <<granted, onWord>>
  BY <1>4 DEF Assign, mollie
<1>5. UNCHANGED vars => UNCHANGED <<granted, onWord>>
  BY DEF vars, mollie
<1> QED
  BY <1>1, <1>2, <1>3, <1>4, <1>5, StepKinds, RequestKinds, MollieKinds

LEMMA LedgerStays ==
    ASSUME Types, Types', Ledger, [Next]_vars
    PROVE  Ledger'
<1>0. \A c \in Charges : charge[c].for \in Targets
  BY DEF Types, ChargeRow
<1>g. \A t \in Targets : granted[t] > 0 => granted'[t] > 0
  <2> SUFFICES ASSUME NEW t \in Targets, granted[t] > 0
               PROVE  granted'[t] > 0
    OBVIOUS
  <2>1. granted[t] \in Nat /\ granted'[t] \in Nat
    BY DEF Types
  <2>2. granted'[t] >= granted[t]
    BY HistoryGrows
  <2> QED
    BY <2>1, <2>2
<1>h. \A h \in hooks : h[1] \in Charges
  BY DEF Types
<1>1. ASSUME UNCHANGED charge, hooks' \subseteq hooks
      PROVE  Ledger'
  BY <1>0, <1>1, <1>g DEF Ledger
<1>2. ASSUME NEW c \in Charges, NEW t, NEW a, NewCharge(c, t, a), UNCHANGED hooks
      PROVE  Ledger'
  BY <1>0, <1>2, <1>g, <1>h, AfterNew DEF Ledger
<1>3. ASSUME NEW c \in Charges, Announces(c)
      PROVE  Ledger'
  <2>1. CASE Resend(c)
    <3>1. UNCHANGED charge /\ hooks' = hooks \cup {<<c, charge[c].status>>}
          /\ charge[c].status # "none"
      BY <2>1 DEF Resend
    <3>2. \A h \in hooks' : charge[h[1]].status # "none"
      BY <3>1 DEF Ledger
    <3> QED
      BY <1>0, <1>g, <3>1, <3>2 DEF Ledger
  <2>2. ASSUME NEW s \in {"authorized", "paid", "failed"}, Settle(c, {"open", "authorized"}, s)
        PROVE  Ledger'
    <3> DEFINE t == charge[c].for
    <3>1. /\ charge'[c].status = s /\ charge'[c].for = t /\ t \in Targets
          /\ \A d \in Charges \ {c} : charge'[d] = charge[d]
          /\ hooks' = hooks \cup {<<c, s>>}
          /\ s # "failed" => granted'[t] = granted[t] + 1
      BY <2>2, AfterSettle
    <3>2. granted[t] \in Nat
      BY <3>1 DEF Types
    <3>3. \A h \in hooks' : charge'[h[1]].status # "none"
      BY <1>h, <3>1 DEF Ledger
    <3>4. \A d \in Charges :
             charge'[d].status \in {"authorized", "paid"} => granted'[charge'[d].for] > 0
      BY <1>0, <1>g, <3>1, <3>2 DEF Ledger
    <3> QED
      BY <3>3, <3>4 DEF Ledger
  <2> QED
    BY <1>3, <2>1, <2>2 DEF Announces
<1>4. ASSUME NEW w \in Workers, Takes(w)
      PROVE  UNCHANGED charge /\ hooks' \subseteq hooks
  BY <1>4, TakenUp
<1>5. ASSUME NEW b \in Bookings, Assign(b)
      PROVE  UNCHANGED <<charge, hooks>>
  BY <1>5 DEF Assign, mollie
<1>6. UNCHANGED vars => UNCHANGED <<charge, hooks>>
  BY DEF vars, mollie
<1>7. ASSUME NEW w \in Workers, RequestStep(w)
      PROVE  Ledger'
  BY <1>1, <1>2, <1>7, RequestKinds
<1>8. CASE MollieStep
  BY <1>2, <1>3, <1>8, MollieKinds
<1> QED
  BY <1>1, <1>4, <1>5, <1>6, <1>7, <1>8, StepKinds

LEMMA BackedStays ==
    ASSUME Types, Types', [Next]_vars, NEW t \in Targets, Backed(t)
    PROVE  Backed(t)'
<1>1. granted[t] \in Nat /\ onWord[t] \in Nat /\ granted'[t] \in Nat /\ onWord'[t] \in Nat
  BY DEF Types
<1>2. granted'[t] >= granted[t] /\ onWord'[t] >= onWord[t]
  BY HistoryGrows
<1> QED
  BY <1>1, <1>2 DEF Backed

\* What Mollie does and an assignment leave the requests and all that is taken for paid alone.
LEMMA OthersTakeNothing ==
    ASSUME [Next]_vars
    PROVE  \/ \E w \in Workers : RequestStep(w)
           \/ \E w \in Workers : Takes(w)
           \/ UNCHANGED <<req, payment, dispatched, earns, feePaid>>
<1>1. ASSUME NEW b \in Bookings, Assign(b)
      PROVE  UNCHANGED <<req, payment, dispatched, earns, feePaid>>
  BY <1>1 DEF Assign, loyalty
<1>2. UNCHANGED vars => UNCHANGED <<req, payment, dispatched, earns, feePaid>>
  BY DEF vars, loyalty
<1> QED
  BY <1>1, <1>2, StepKinds, MollieKinds

Money == Types /\ Ledger /\ AllTagged /\ AllBacked /\ NothingWithoutMoney

LEMMA MoneyAtFirst == PaymentsAssumption /\ Init => Money
BY TypesAtFirst
   DEF Money, Init, Idle, Ledger, AllTagged, Tagged, AllBacked, Earning, NothingWithoutMoney,
       NoPayment

LEMMA BackingStays ==
    ASSUME Types, Types', Ledger, AllTagged, AllBacked, [Next]_vars
    PROVE  AllTagged' /\ AllBacked'
<1>1. ASSUME NEW w \in Workers, RequestStep(w), NEW v \in Workers
      PROVE  /\ Tagged(req'[v])
             /\ Earning(req'[v]) => Earning(req[v]) /\ req'[v].for = req[v].for
  <2>1. CASE v = w
    BY <1>1, <2>1, RequestMoves
  <2>2. CASE v # w
    BY <1>1, <2>2, RequestMoves DEF AllTagged
  <2> QED
    BY <2>1, <2>2
<1>2. ASSUME NEW w \in Workers, Takes(w), NEW v \in Workers
      PROVE  /\ Tagged(req'[v])
             /\ Earning(req'[v]) => \/ Earning(req[v]) /\ req'[v].for = req[v].for
                                    \/ \E t \in Targets : req'[v].for = t /\ Backed(t)'
  <2>1. CASE v = w
    BY <1>2, <2>1, TakeMoves
  <2>2. CASE v # w
    BY <1>2, <2>2, TakeMoves DEF AllTagged
  <2> QED
    BY <2>1, <2>2
<1>3. ASSUME UNCHANGED req, NEW v \in Workers
      PROVE  Tagged(req'[v]) /\ req'[v] = req[v]
  BY <1>3 DEF AllTagged
<1>4. ASSUME NEW v \in Workers
      PROVE  /\ Tagged(req'[v])
             /\ Earning(req'[v]) => \/ Earning(req[v]) /\ req'[v].for = req[v].for
                                    \/ \E t \in Targets : req'[v].for = t /\ Backed(t)'
  BY <1>1, <1>2, <1>3, OthersTakeNothing
<1>5. AllTagged'
  BY <1>4 DEF AllTagged
<1>6. ASSUME NEW v \in Workers, NEW t \in Targets, Earning(req'[v]), req'[v].for = t
      PROVE  Backed(t)'
  <2>1. CASE Earning(req[v]) /\ req'[v].for = req[v].for
    BY <1>6, <2>1, BackedStays DEF AllBacked
  <2> QED
    BY <1>4, <1>6, <2>1
<1> QED
  BY <1>5, <1>6 DEF AllBacked

TakenForPaid(t) ==
    \/ t \in Bookings /\ (payment[t].status = "CAPTURED" \/ t \in dispatched \/ earns[t] > 0)
    \/ t \in feePaid

\* Only a request that earns adds to what is taken for paid.
LEMMA OnlyEarningTakes ==
    ASSUME Types, AllTagged, NEW w \in Workers, RequestStep(w), NEW t,
           TakenForPaid(t)', ~TakenForPaid(t)
    PROVE  Earning(req[w]) /\ req[w].for = t
<1> USE DEF Earning, TakenForPaid
<1>t. req[w] \in Request /\ Tagged(req[w])
  BY DEF Types, AllTagged
<1>1. CASE UNCHANGED <<payment, dispatched, earns, feePaid>>
  BY <1>1
<1>2. CASE upsertPaymentRecord(w)
  <2>1. UNCHANGED <<dispatched, earns, feePaid>>
    BY <1>2 DEF upsertPaymentRecord, loyalty
  <2>2. ASSUME NEW b \in Bookings, payment'[b].status = "CAPTURED"
        PROVE  payment[b].status = "CAPTURED"
    <3>1. CASE UNCHANGED payment
      BY <2>2, <3>1
    <3>2. ASSUME NEW p, p.status = "PENDING", payment' = [payment EXCEPT ![req[w].for] = p]
          PROVE  payment[b].status = "CAPTURED"
      BY <2>2, <3>2 DEF Types
    <3> QED
      BY <1>2, <3>1, <3>2 DEF upsertPaymentRecord
  <2> QED
    BY <2>1, <2>2
<1>3. CASE HookFee(w)
  BY <1>t, <1>3 DEF HookFee, Tagged, loyalty
<1>4. CASE HookCapture(w)
  <2>1. UNCHANGED <<dispatched, earns, feePaid>> /\ Earning(req[w])
    BY <1>t, <1>4 DEF HookCapture, Tagged, loyalty
  <2>2. ASSUME NEW b \in Bookings, b # req[w].for
        PROVE  payment'[b] = payment[b]
    BY <1>4, <2>2 DEF HookCapture, Types
  <2> QED
    BY <2>1, <2>2
<1>5. CASE HookFail(w)
  <2>1. UNCHANGED <<dispatched, earns, feePaid>> /\ req[w].for \in Bookings
    BY <1>5 DEF HookFail, resolvePaymentIdFromMollie, loyalty
  <2>2. ASSUME NEW b \in Bookings, payment'[b].status = "CAPTURED"
        PROVE  payment[b].status = "CAPTURED"
    BY <1>5, <2>1, <2>2 DEF HookFail, Types, PaymentRow
  <2> QED
    BY <2>1, <2>2
<1>6. CASE finalizeBookingLoyalty(w) \/ LoyaltyFails(w)
  <2>1. Earning(req[w]) /\ req[w].for \in Bookings /\ UNCHANGED <<payment, feePaid>>
    BY <1>t, <1>6 DEF finalizeBookingLoyalty, LoyaltyFails, Tagged, Request
  <2>2. dispatched' \subseteq dispatched \cup {req[w].for}
    BY <1>6 DEF finalizeBookingLoyalty, LoyaltyFails, triggerShortNoticeDispatch
  <2>3. ASSUME NEW b \in Bookings, b # req[w].for
        PROVE  earns'[b] = earns[b]
    BY <1>6, <2>3 DEF finalizeBookingLoyalty, LoyaltyFails, loyalty, Types
  <2> QED
    BY <2>1, <2>2, <2>3
<1>7. CASE adjustShortNoticePayment(w)
  <2>1. UNCHANGED <<dispatched, earns, feePaid>> /\ req[w].for \in Bookings
    BY <1>t, <1>7 DEF adjustShortNoticePayment, loyalty, Request
  <2>2. ASSUME NEW b \in Bookings
        PROVE  payment'[b].status = payment[b].status
    BY <1>7, <2>1 DEF adjustShortNoticePayment, Types, PaymentRow
  <2> QED
    BY <2>1, <2>2
<1>8. ASSUME NEW b \in Bookings,
             Accept(w, b) \/ \E c \in Charges : CheckoutCreate(w, b, c)
      PROVE  UNCHANGED <<payment, dispatched, earns, feePaid>>
  BY <1>8 DEF Accept, CheckoutCreate, loyalty
<1>9. CASE \/ CheckoutFind(w) \/ HookNothing(w) \/ HookInvoice(w) \/ HookInvoiceRefused(w)
           \/ notifyInvoiceGenerated(w) \/ HookToldCaptured(w) \/ Abort(w)
  BY <1>1, <1>9
     DEF CheckoutFind, HookNothing, HookInvoice, HookInvoiceRefused,
         notifyInvoiceGenerated, HookToldCaptured, Abort, loyalty
<1> QED
  BY <1>1, <1>2, <1>3, <1>4, <1>5, <1>6, <1>7, <1>8, <1>9 DEF RequestStep, Continue

LEMMA MoneyStays == PaymentsAssumption /\ Money /\ [Next]_vars => Money'
<1> SUFFICES ASSUME PaymentsAssumption, Money, [Next]_vars
             PROVE  Money'
  OBVIOUS
<1>t. Types /\ Types'
  BY TypesStay DEF Money
<1>1. Types' /\ Ledger' /\ AllTagged' /\ AllBacked'
  BY <1>t, LedgerStays, BackingStays DEF Money
<1>0. ASSUME NEW t, TakenForPaid(t)'
      PROVE  t \in Targets
  BY <1>0, <1>1 DEF TakenForPaid, Types, Targets
<1>2. ASSUME NEW t, TakenForPaid(t)', ~TakenForPaid(t)
      PROVE  Backed(t)
  <2>0. t \in Targets
    BY <1>0, <1>2
  <2>1. CASE \E w \in Workers : RequestStep(w)
    BY <1>2, <2>0, <2>1, OnlyEarningTakes DEF Money, AllBacked
  <2>2. ASSUME UNCHANGED <<payment, dispatched, earns, feePaid>>
        PROVE  FALSE
    BY <1>2, <2>2 DEF TakenForPaid
  <2>3. ASSUME NEW w \in Workers, Takes(w)
        PROVE  UNCHANGED <<payment, dispatched, earns, feePaid>>
    BY <2>3, TakenUp DEF Money, loyalty
  <2> QED
    BY <2>1, <2>2, <2>3, OthersTakeNothing
<1>3. ASSUME NEW t, TakenForPaid(t)'
      PROVE  Backed(t)'
  <2>1. TakenForPaid(t) => Backed(t)
    BY DEF Money, NothingWithoutMoney, TakenForPaid
  <2> QED
    BY <1>t, <1>0, <1>2, <1>3, <2>1, BackedStays
<1>4. NothingWithoutMoney'
  BY <1>3 DEF NothingWithoutMoney, TakenForPaid
<1> QED
  BY <1>1, <1>4 DEF Money

\* What the platform takes for paid, a client granted at Mollie, unless an event was taken
\* at its word: a captured payment, a dispatched booking, points earned and a signup fee,
\* for any number of charges and of webhooks served at the same time.
THEOREM NothingIsTakenUnpaid ==
    ASSUME PaymentsAssumption
    PROVE  Spec => []NothingWithoutMoney
<1>1. Money => NothingWithoutMoney
  BY DEF Money
<1> QED
  BY <1>1, MoneyAtFirst, MoneyStays, PTL DEF Spec

(***************************************************************************)
(* Points.  What a client grants, a webhook that Mollie sends again and an *)
(* event taken at its word are worth one earning each: it waits in the     *)
(* announcement, then in the request that serves it, until the points are  *)
(* booked.  The sum of the three never exceeds what was granted, resent or *)
(* taken at its word; that earnings alone do not is not inductive.         *)
(***************************************************************************)
Working(b) == {w \in Workers : req[w].for = b /\ Earning(req[w])}
Announced(b) == {h \in hooks : charge[h[1]].for = b /\ charge[h[1]].status # "failed"}
Worth(b) == granted[b] + resent + onWord[b]

EarningsAccounted ==
    \A b \in Bookings :
        earns[b] + Cardinality(Announced(b)) + Cardinality(Working(b)) <= Worth(b)

LEMMA NoMore ==
    ASSUME NEW S, IsFiniteSet(S), NEW T \in SUBSET S
    PROVE  /\ IsFiniteSet(T) /\ Cardinality(T) \in Nat /\ Cardinality(S) \in Nat
           /\ Cardinality(T) <= Cardinality(S)
BY FS_Subset, FS_CardinalityType

LEMMA OneMore ==
    ASSUME NEW S, IsFiniteSet(S), NEW x, NEW T \in SUBSET (S \cup {x})
    PROVE  Cardinality(T) <= Cardinality(S) + 1
<1>1. /\ IsFiniteSet(S \cup {x}) /\ Cardinality(S) \in Nat
      /\ Cardinality(S \cup {x}) <= Cardinality(S) + 1
  <2>1. Cardinality(S) \in Nat
    BY FS_CardinalityType
  <2> QED
    BY <2>1, FS_AddElement
<1>2. Cardinality(T) <= Cardinality(S \cup {x}) /\ Cardinality(T) \in Nat
      /\ Cardinality(S \cup {x}) \in Nat
  BY <1>1, NoMore
<1> QED
  BY <1>1, <1>2

LEMMA OneLess ==
    ASSUME NEW S, IsFiniteSet(S), NEW x \in S, NEW T \in SUBSET (S \ {x})
    PROVE  Cardinality(T) + 1 <= Cardinality(S)
<1>1. /\ IsFiniteSet(S \ {x}) /\ Cardinality(S) \in Nat
      /\ Cardinality(S \ {x}) = Cardinality(S) - 1
  BY FS_RemoveElement, FS_CardinalityType
<1>2. Cardinality(T) <= Cardinality(S \ {x}) /\ Cardinality(T) \in Nat
  BY <1>1, NoMore
<1> QED
  BY <1>1, <1>2

LEMMA HooksAreFinite ==
    ASSUME PaymentsAssumption
    PROVE  IsFiniteSet(Charges \X ChargeStatus)
<1>1. IsFiniteSet({"none"}) /\ IsFiniteSet({"none", "open"}) /\ IsFiniteSet({"authorized"})
  BY FS_EmptySet, FS_AddElement
<1>2. IsFiniteSet({"authorized", "paid"})
  BY <1>1, FS_AddElement
<1>3. IsFiniteSet({"authorized", "paid", "failed"})
  BY <1>2, FS_AddElement
<1>4. IsFiniteSet(ChargeStatus)
  BY <1>1, <1>3, FS_Union DEF ChargeStatus, Settled
<1> QED
  BY <1>4, FS_Product DEF PaymentsAssumption

LEMMA CountsAreFinite ==
    ASSUME PaymentsAssumption, Types, NEW b \in Bookings
    PROVE  /\ IsFiniteSet(Announced(b)) /\ IsFiniteSet(Working(b))
           /\ Cardinality(Announced(b)) \in Nat /\ Cardinality(Working(b)) \in Nat
           /\ earns[b] \in Nat /\ Worth(b) \in Nat
           /\ granted[b] \in Nat /\ resent \in Nat /\ onWord[b] \in Nat
<1>1. Announced(b) \in SUBSET (Charges \X ChargeStatus) /\ Working(b) \in SUBSET Workers
  BY DEF Announced, Working, Types
<1>2. earns[b] \in Nat /\ granted[b] \in Nat /\ resent \in Nat /\ onWord[b] \in Nat
  BY DEF Types, PaymentsAssumption, Targets
<1> QED
  BY <1>1, <1>2, NoMore, HooksAreFinite DEF PaymentsAssumption, Worth

LEMMA CountsAreFiniteNext ==
    ASSUME PaymentsAssumption, Types', NEW b \in Bookings
    PROVE  /\ Cardinality(Announced(b))' \in Nat /\ Cardinality(Working(b))' \in Nat
           /\ earns'[b] \in Nat /\ Worth(b)' \in Nat
<1>1. Announced(b)' \in SUBSET (Charges \X ChargeStatus) /\ Working(b)' \in SUBSET Workers
  BY DEF Announced, Working, Types
<1>2. earns'[b] \in Nat /\ granted'[b] \in Nat /\ resent' \in Nat /\ onWord'[b] \in Nat
  BY DEF Types, PaymentsAssumption, Targets
<1> QED
  BY <1>1, <1>2, NoMore, HooksAreFinite DEF PaymentsAssumption, Worth

\* A charge that is made is not announced.
LEMMA NewIsQuiet ==
    ASSUME Types, Ledger, NEW c \in Charges, NEW t, NEW a, NewCharge(c, t, a),
           UNCHANGED hooks, NEW b
    PROVE  Announced(b)' = Announced(b)
<1>1. \A h \in hooks : h[1] \in Charges /\ h[1] # c
  BY AfterNew DEF Ledger, Types
<1>2. \A h \in hooks : charge'[h[1]] = charge[h[1]]
  BY <1>1, AfterNew
<1> QED
  BY <1>2 DEF Announced

\* What a request's step does to the counts: points are booked by the request
\* that was working for them, and it is done.
LEMMA RequestCounts ==
    ASSUME Types, Ledger, AllTagged, NEW w \in Workers, RequestStep(w), NEW b \in Bookings
    PROVE  /\ Announced(b)' = Announced(b) /\ Worth(b)' = Worth(b)
           /\ Working(b)' \subseteq Working(b)
           /\ \/ earns'[b] = earns[b]
              \/ /\ earns'[b] = earns[b] + 1
                 /\ w \in Working(b) /\ w \notin Working(b)'
<1>t. req[w] \in Request /\ Tagged(req[w]) /\ earns[b] \in Nat
  BY DEF Types, AllTagged
<1>1. Working(b)' \subseteq Working(b)
  <2> SUFFICES ASSUME NEW v \in Workers, req'[v].for = b, Earning(req'[v])
               PROVE  req[v].for = b /\ Earning(req[v])
    BY DEF Working
  <2>1. CASE v = w
    BY <2>1, RequestMoves
  <2>2. CASE v # w
    BY <2>2, RequestMoves
  <2> QED
    BY <2>1, <2>2
<1>2. Announced(b)' = Announced(b)
  <2>1. CASE UNCHANGED charge
    BY <2>1, RequestKinds DEF Announced
  <2>2. ASSUME NEW a \in Bookings, NEW c \in Charges, NewCharge(c, a, AmountDue(a))
        PROVE  Announced(b)' = Announced(b)
    BY <2>2, NewIsQuiet, RequestKinds
  <2> QED
    BY <2>1, <2>2, RequestKinds
<1>3. Worth(b)' = Worth(b)
  BY RequestKinds DEF Worth
<1>4. CASE finalizeBookingLoyalty(w)
  <2>1. Earning(req[w]) /\ req[w].for \in Bookings
    BY <1>t, <1>4 DEF finalizeBookingLoyalty, Earning, Tagged, Request
  <2>2. req'[w] = Idle
    BY <1>4, FinishTypes DEF finalizeBookingLoyalty
  <2>3. ~Earning(req'[w])
    BY <2>2 DEF Idle, Earning
  <2>4. w \notin Working(b)'
    BY <2>3 DEF Working
  <2>5. req[w].for = b => w \in Working(b)
    BY <2>1 DEF Working
  <2>6. \/ earns'[b] = earns[b]
        \/ earns'[b] = earns[b] + 1 /\ req[w].for = b
    BY <1>4, <2>1 DEF finalizeBookingLoyalty, Types
  <2> QED
    BY <1>1, <1>2, <1>3, <2>4, <2>5, <2>6
<1>5. ASSUME NEW a \in Bookings,
             Accept(w, a) \/ \E c \in Charges : CheckoutCreate(w, a, c)
      PROVE  UNCHANGED earns
  BY <1>5 DEF Accept, CheckoutCreate, loyalty
<1>6. ASSUME \/ CheckoutFind(w) \/ upsertPaymentRecord(w) \/ HookFee(w) \/ HookNothing(w)
             \/ HookCapture(w) \/ HookFail(w) \/ HookInvoice(w) \/ HookInvoiceRefused(w)
             \/ notifyInvoiceGenerated(w) \/ HookToldCaptured(w) \/ LoyaltyFails(w)
             \/ adjustShortNoticePayment(w) \/ Abort(w)
      PROVE  UNCHANGED earns
  BY <1>6
     DEF Abort, CheckoutFind, upsertPaymentRecord, HookFee, HookNothing, HookCapture,
         HookFail, HookInvoice, HookInvoiceRefused, notifyInvoiceGenerated,
         HookToldCaptured, LoyaltyFails, adjustShortNoticePayment, loyalty
<1> QED
  BY <1>1, <1>2, <1>3, <1>4, <1>5, <1>6 DEF RequestStep, Continue

\* A webhook of a charge that is granted moves to the request that serves it; an event
\* taken at its word brings one.
LEMMA TakeCounts ==
    ASSUME Types, Ledger, NEW w \in Workers, Takes(w), NEW b \in Bookings
    PROVE  /\ UNCHANGED <<earns, resent, granted>> /\ Announced(b)' \subseteq Announced(b)
           /\ \/ /\ Working(b)' \subseteq Working(b)
                 /\ onWord'[b] \in {onWord[b], onWord[b] + 1}
              \/ /\ Working(b)' \subseteq Working(b) \cup {w}
                 /\ \/ onWord'[b] = onWord[b] + 1
                    \/ /\ onWord'[b] = onWord[b]
                       /\ \E h \in Announced(b) : Announced(b)' \subseteq Announced(b) \ {h}
<1>1. PICK t \in Targets, s \in Verdicts :
         /\ Served(w, t, s)
         /\ UNCHANGED onWord \/ TakeOnWord(t)
         /\ s = "paid" =>
              \/ TakeOnWord(t)
              \/ \E h \in hooks \ hooks' :
                    /\ h[1] \in Charges /\ charge[h[1]].for = t
                    /\ charge[h[1]].status \in {"authorized", "paid"}
  BY TakenUp
<1>2. /\ \A v \in Workers \ {w} : req'[v] = req[v]
      /\ req'[w].for = t /\ req'[w].status = s /\ req'[w].pc = "hook_fetched"
  BY <1>1, BecomeTypes DEF Served
<1>3. /\ hooks' \subseteq hooks /\ UNCHANGED <<charge, earns, resent, granted>>
  BY TakenUp DEF loyalty
<1>4. Announced(b)' \subseteq Announced(b)
  BY <1>3 DEF Announced
<1>5. Working(b)' \subseteq Working(b) \cup {w}
  BY <1>2 DEF Working
<1>6. w \in Working(b)' => t = b /\ s = "paid"
  BY <1>2 DEF Working, Earning
<1>7. onWord'[b] = IF TakeOnWord(t) /\ t = b THEN onWord[b] + 1 ELSE onWord[b]
  <2>1. CASE TakeOnWord(t)
    BY <2>1 DEF TakeOnWord, Types, Targets
  <2>2. CASE ~TakeOnWord(t)
    BY <1>1, <2>2
  <2> QED
    BY <2>1, <2>2
<1>8. CASE w \notin Working(b)'
  BY <1>3, <1>4, <1>5, <1>7, <1>8
<1>9. CASE w \in Working(b)' /\ TakeOnWord(t)
  BY <1>3, <1>4, <1>5, <1>6, <1>7, <1>9
<1>10. CASE w \in Working(b)' /\ ~TakeOnWord(t)
  <2>1. PICK h \in hooks \ hooks' :
           h[1] \in Charges /\ charge[h[1]].for = t
           /\ charge[h[1]].status \in {"authorized", "paid"}
    BY <1>1, <1>6, <1>10
  <2>2. h \in Announced(b) /\ h \notin Announced(b)'
    BY <1>6, <1>10, <2>1 DEF Announced
  <2> QED
    BY <1>3, <1>4, <1>5, <1>7, <1>10, <2>2
<1> QED
  BY <1>8, <1>9, <1>10

\* What Mollie does: what a client grants is announced, and so is what comes again.
LEMMA MollieCounts ==
    ASSUME Types, Ledger, MollieStep, NEW b \in Bookings
    PROVE  /\ UNCHANGED earns /\ Working(b)' = Working(b)
           /\ \/ Announced(b)' \subseteq Announced(b) /\ Worth(b)' = Worth(b)
              \/ /\ \E h : Announced(b)' \subseteq Announced(b) \cup {h}
                 /\ Worth(b)' = Worth(b) + 1
<1>0. UNCHANGED <<req, earns, onWord>> /\ Working(b)' = Working(b)
  BY MollieKinds DEF Working
<1>n. /\ granted[b] \in Nat /\ resent \in Nat /\ onWord[b] \in Nat /\ b \in Targets
      /\ \A h \in hooks : h[1] \in Charges
  BY DEF Types, Targets
<1>1. ASSUME NEW t \in Targets, NEW c \in Charges, NewCharge(c, t, 1),
             UNCHANGED <<hooks, resent, granted>>
      PROVE  Announced(b)' \subseteq Announced(b) /\ Worth(b)' = Worth(b)
  BY <1>0, <1>1, NewIsQuiet DEF Worth
<1>2. ASSUME NEW c \in Charges, Resend(c)
      PROVE  /\ \E h : Announced(b)' \subseteq Announced(b) \cup {h}
             /\ Worth(b)' = Worth(b) + 1
  <2>1. /\ hooks' = hooks \cup {<<c, charge[c].status>>} /\ resent' = resent + 1
        /\ UNCHANGED <<charge, granted>>
    BY <1>2 DEF Resend
  <2> QED
    BY <1>0, <1>n, <2>1 DEF Announced, Worth
<1>3. ASSUME NEW c \in Charges, NEW s \in {"authorized", "paid", "failed"},
             Settle(c, {"open", "authorized"}, s)
      PROVE  \/ Announced(b)' \subseteq Announced(b) /\ Worth(b)' = Worth(b)
             \/ /\ \E h : Announced(b)' \subseteq Announced(b) \cup {h}
                /\ Worth(b)' = Worth(b) + 1
  <2>1. /\ charge[c].status \in {"open", "authorized"} /\ charge'[c].status = s
        /\ charge'[c].for = charge[c].for
        /\ \A d \in Charges \ {c} : charge'[d] = charge[d]
        /\ hooks' = hooks \cup {<<c, s>>} /\ UNCHANGED resent
        /\ granted'[b] = IF b = charge[c].for /\ s # "failed" THEN granted[b] + 1
                                                              ELSE granted[b]
    BY <1>3, <1>n, AfterSettle
  <2>2. Announced(b)' \subseteq Announced(b) \cup {<<c, s>>}
    BY <1>n, <2>1 DEF Announced
  <2>3. ~(b = charge[c].for /\ s # "failed") => Announced(b)' \subseteq Announced(b)
    <3>1. <<c, s>>[1] = c
      OBVIOUS
    <3>2. ~(b = charge[c].for /\ s # "failed") => <<c, s>> \notin Announced(b)'
      BY <2>1, <3>1 DEF Announced
    <3> QED
      BY <2>2, <3>2
  <2>4. Worth(b)' = IF b = charge[c].for /\ s # "failed" THEN Worth(b) + 1 ELSE Worth(b)
    BY <1>0, <1>n, <2>1 DEF Worth
  <2> QED
    BY <2>2, <2>3, <2>4
<1> QED
  BY <1>0, <1>1, <1>2, <1>3, MollieKinds DEF Announces

LEMMA AccountsStay ==
    ASSUME PaymentsAssumption, Money, EarningsAccounted, [Next]_vars
    PROVE  EarningsAccounted'
<1> SUFFICES ASSUME NEW b \in Bookings
             PROVE  (earns[b] + Cardinality(Announced(b)) + Cardinality(Working(b))
                        <= Worth(b))'
  BY DEF EarningsAccounted
<1>t. Types /\ Types' /\ Ledger /\ AllTagged
  BY TypesStay DEF Money
<1> DEFINE E == earns[b]
           A == Announced(b)
           W == Working(b)
           G == Worth(b)
<1>0. /\ IsFiniteSet(A) /\ IsFiniteSet(W)
      /\ Cardinality(A) \in Nat /\ Cardinality(W) \in Nat /\ E \in Nat /\ G \in Nat
      /\ E + Cardinality(A) + Cardinality(W) <= G
  BY <1>t, CountsAreFinite DEF EarningsAccounted
<1>1. /\ Cardinality(A') \in Nat /\ Cardinality(W') \in Nat /\ E' \in Nat /\ G' \in Nat
  BY <1>t, CountsAreFiniteNext
<1>2. /\ A' \subseteq A => Cardinality(A') <= Cardinality(A)
      /\ W' \subseteq W => Cardinality(W') <= Cardinality(W)
      /\ \A x : A' \subseteq A \cup {x} => Cardinality(A') <= Cardinality(A) + 1
      /\ \A x : W' \subseteq W \cup {x} => Cardinality(W') <= Cardinality(W) + 1
      /\ \A x \in A : A' \subseteq A \ {x} => Cardinality(A') + 1 <= Cardinality(A)
      /\ \A x \in W : W' \subseteq W \ {x} => Cardinality(W') + 1 <= Cardinality(W)
  <2> HIDE DEF A, W
  <2> QED
    BY <1>0, NoMore, OneMore, OneLess
<1>3. ASSUME NEW w \in Workers, RequestStep(w)
      PROVE  E' + Cardinality(A') + Cardinality(W') <= G'
  <2>1. /\ A' = A /\ G' = G /\ W' \subseteq W
        /\ \/ E' = E
           \/ E' = E + 1 /\ w \in W /\ W' \subseteq W \ {w}
    BY <1>t, <1>3, RequestCounts
  <2> HIDE DEF E, A, W, G
  <2> QED
    BY <1>0, <1>1, <1>2, <2>1
<1>4. ASSUME NEW w \in Workers, Takes(w)
      PROVE  E' + Cardinality(A') + Cardinality(W') <= G'
  <2>0. onWord[b] \in Nat /\ granted[b] \in Nat /\ resent \in Nat
    BY <1>t, CountsAreFinite
  <2>1. /\ E' = E /\ A' \subseteq A
        /\ \/ W' \subseteq W /\ G' \in {G, G + 1}
           \/ /\ W' \subseteq W \cup {w}
              /\ \/ G' = G + 1
                 \/ G' = G /\ \E h \in A : A' \subseteq A \ {h}
    BY <1>t, <1>4, <2>0, TakeCounts DEF Worth
  <2> HIDE DEF E, A, W, G
  <2>2. CASE W' \subseteq W /\ G' \in {G, G + 1}
    BY <1>0, <1>1, <1>2, <2>1, <2>2
  <2>3. CASE W' \subseteq W \cup {w} /\ G' = G + 1
    BY <1>0, <1>1, <1>2, <2>1, <2>3
  <2>4. CASE W' \subseteq W \cup {w} /\ G' = G /\ \E h \in A : A' \subseteq A \ {h}
    <3>1. Cardinality(A') + 1 <= Cardinality(A) /\ Cardinality(W') <= Cardinality(W) + 1
      BY <1>2, <2>4
    <3> QED
      BY <1>0, <1>1, <2>1, <2>4, <3>1
  <2> QED
    BY <2>1, <2>2, <2>3, <2>4
<1>5. ASSUME MollieStep
      PROVE  E' + Cardinality(A') + Cardinality(W') <= G'
  <2>1. /\ E' = E /\ W' = W
        /\ \/ A' \subseteq A /\ G' = G
           \/ (\E h : A' \subseteq A \cup {h}) /\ G' = G + 1
    BY <1>t, <1>5, MollieCounts
  <2> HIDE DEF E, A, W, G
  <2>2. CASE A' \subseteq A /\ G' = G
    <3>1. Cardinality(A') <= Cardinality(A) /\ Cardinality(W') = Cardinality(W)
      BY <1>2, <2>1, <2>2
    <3>2. E' = E /\ G' = G
      BY <2>1, <2>2
    <3> QED
      BY <1>0, <1>1, <3>1, <3>2
  <2>3. CASE (\E h : A' \subseteq A \cup {h}) /\ G' = G + 1
    <3>1. Cardinality(A') <= Cardinality(A) + 1 /\ Cardinality(W') = Cardinality(W)
      BY <1>2, <2>1, <2>3
    <3>2. E' = E /\ G' = G + 1
      BY <2>1, <2>3
    <3> QED
      BY <1>0, <1>1, <3>1, <3>2
  <2> QED
    BY <2>1, <2>2, <2>3
<1>6. ASSUME UNCHANGED <<charge, hooks, resent, granted, onWord, req, earns>>
      PROVE  E' + Cardinality(A') + Cardinality(W') <= G'
  <2>1. A' = A /\ W' = W /\ E' = E /\ G' = G
    BY <1>6 DEF Announced, Working, Worth
  <2> QED
    BY <1>0, <2>1
<1>7. ASSUME NEW a \in Bookings, Assign(a)
      PROVE  E' + Cardinality(A') + Cardinality(W') <= G'
  BY <1>6, <1>7 DEF Assign, mollie, loyalty
<1>8. ASSUME UNCHANGED vars
      PROVE  E' + Cardinality(A') + Cardinality(W') <= G'
  BY <1>6, <1>8 DEF vars, mollie, loyalty
<1> HIDE DEF E, A, W, G
<1>9. E' + Cardinality(A') + Cardinality(W') <= G'
  BY <1>3, <1>4, <1>5, <1>7, <1>8, StepKinds
<1> QED
  BY <1>9 DEF E, A, W, G

\* A booking earns points at most once per authorization, payment, repeated webhook and event
\* taken at its word, however many charges share its payment row and however many requests
\* serve them at a time.
THEOREM PointsAreEarnedPerWebhook ==
    ASSUME PaymentsAssumption
    PROVE  Spec => []EarnedPerWebhook
<1>1. Init => EarningsAccounted
  <2> SUFFICES ASSUME Init, NEW b \in Bookings
               PROVE  earns[b] + Cardinality(Announced(b)) + Cardinality(Working(b)) <= Worth(b)
    BY DEF EarningsAccounted
  <2>1. earns[b] = 0 /\ Announced(b) = {}
    BY DEF Init, Announced
  <2>2. \A w \in Workers : req[w].pc = "idle"
    BY DEF Init, Idle
  <2>3. Working(b) = {}
    BY <2>2 DEF Working, Earning
  <2>4. Worth(b) \in Nat
    BY TypesAtFirst, CountsAreFinite
  <2>5. Cardinality(Announced(b)) = 0 /\ Cardinality(Working(b)) = 0
    BY <2>1, <2>3, FS_EmptySet
  <2> QED
    BY <2>1, <2>4, <2>5
<1>2. Money /\ EarningsAccounted => EarnedPerWebhook
  <2> SUFFICES ASSUME Money, EarningsAccounted, NEW b \in Bookings
               PROVE  earns[b] <= granted[b] + resent + onWord[b]
    BY DEF EarnedPerWebhook
  <2> QED
    BY CountsAreFinite DEF Money, EarningsAccounted, Worth
<1> QED
  BY <1>1, <1>2, MoneyAtFirst, MoneyStays, AccountsStay, PTL DEF Spec

(***************************************************************************)
(* One request at a time.  Then what a request read still holds when it    *)
(* writes: the audit entry it looked for, the balance it computes with.    *)
(***************************************************************************)
Invoiced(b) == <<"invoice_generated", b>> \in audited

ReadsHold ==
    /\ \A b \in Bookings : told[b] = 1 => Invoiced(b)
    /\ \A w \in Workers :
          /\ req[w].pc = "hook_invoiced" => (req[w].seen <=> Invoiced(req[w].for))
          /\ req[w].pc = "loyalty_read" => req[w].points = points[ClientOf[req[w].for]]

OneByOne == Types /\ ReadsHold /\ ToldOnce /\ BalanceSound

\* The steps of a request that neither read nor write what ReadsHold is about.
Quiet(w) ==
    \/ \E b \in Bookings, c \in Charges : CheckoutCreate(w, b, c)
    \/ \E b \in Bookings : Accept(w, b)
    \/ Takes(w)
    \/ CheckoutFind(w) \/ upsertPaymentRecord(w) \/ HookFee(w) \/ HookNothing(w)
    \/ HookCapture(w) \/ HookFail(w) \/ HookInvoiceRefused(w) \/ LoyaltyFails(w)
    \/ adjustShortNoticePayment(w) \/ Abort(w)

LEMMA QuietSteps ==
    ASSUME Types, NEW w \in Workers, Quiet(w)
    PROVE  /\ UNCHANGED <<told, audited, points, mirror>>
           /\ req'[w].pc \notin {"hook_invoiced", "loyalty_read"}
<1>t. req[w] \in Request
  BY DEF Types
<1>1. UNCHANGED <<told, audited, points, mirror>>
  BY TakenUp
     DEF Quiet, CheckoutCreate, Accept, CheckoutFind, upsertPaymentRecord,
         HookFee, HookNothing, HookCapture, HookFail, HookInvoiceRefused, LoyaltyFails,
         adjustShortNoticePayment, Abort, papers, loyalty
<1>2. ASSUME NEW r, Become(w, r), r.pc \notin {"hook_invoiced", "loyalty_read"}
      PROVE  req'[w].pc \notin {"hook_invoiced", "loyalty_read"}
  BY <1>2 DEF Become, Types
<1>3. ASSUME Finish(w)
      PROVE  req'[w].pc \notin {"hook_invoiced", "loyalty_read"}
  BY <1>2, <1>3 DEF Finish, Idle
<1>4. ASSUME NEW b \in Bookings, NEW c \in Charges, CheckoutCreate(w, b, c)
      PROVE  req'[w].pc \notin {"hook_invoiced", "loyalty_read"}
  <2>1. Become(w, Checkout(Idle, c, b)) /\ Checkout(Idle, c, b).pc = "checkout_created"
    BY <1>4, IdleFields, BeginsCheckout DEF CheckoutCreate, Checkout
  <2> QED
    BY <1>2, <2>1
<1>5. ASSUME NEW b \in Bookings, Accept(w, b)
      PROVE  req'[w].pc \notin {"hook_invoiced", "loyalty_read"}
  <2>1. Become(w, Adjusting(Idle, b)) /\ Adjusting(Idle, b).pc = "accepted"
    BY <1>5, IdleFields, BeginsAdjusting DEF Accept, Adjusting
  <2> QED
    BY <1>2, <2>1
<1>6. ASSUME Takes(w)
      PROVE  req'[w].pc \notin {"hook_invoiced", "loyalty_read"}
  <2>1. PICK t \in Targets, s \in Verdicts : Served(w, t, s)
    BY <1>6, TakenUp
  <2>2. PICK r \in Request : Become(w, r) /\ r.pc = "hook_fetched"
    BY <2>1 DEF Served
  <2>3. r.pc \notin {"hook_invoiced", "loyalty_read"}
    BY <2>2
  <2> QED
    BY <1>2, <2>2, <2>3
<1>7. CASE CheckoutFind(w)
  <2> DEFINE found == payment[req[w].for].status # "none"
             r == [req[w] EXCEPT !.pc = "checkout_found", !.seen = found]
  <2>1. Become(w, r) /\ r.pc = "checkout_found"
    BY <1>t, <1>7 DEF CheckoutFind, Request
  <2> HIDE DEF r
  <2> QED
    BY <1>1, <1>2, <2>1
<1>8. CASE HookCapture(w) \/ adjustShortNoticePayment(w)
  <2> DEFINE r == [req[w] EXCEPT !.pc = "hook_captured"]
             q == [req[w] EXCEPT !.pc = "hook_captured",
                                 !.amount = payment[req[w].for].amount]
  <2>1. Finish(w) \/ Become(w, r) \/ Become(w, q)
    BY <1>8, Zenon DEF HookCapture, adjustShortNoticePayment
  <2>2. r.pc = "hook_captured" /\ q.pc = "hook_captured"
    BY <1>t DEF Request
  <2> HIDE DEF r, q
  <2> QED
    BY <1>1, <1>2, <1>3, <2>1, <2>2
<1>9. CASE \/ upsertPaymentRecord(w) \/ HookFee(w) \/ HookNothing(w) \/ HookFail(w)
           \/ HookInvoiceRefused(w) \/ LoyaltyFails(w) \/ Abort(w)
  <2>1. Finish(w)
    BY <1>9
       DEF upsertPaymentRecord, HookFee, HookNothing, HookFail, HookInvoiceRefused,
           LoyaltyFails, Abort
  <2> QED
    BY <1>1, <1>3, <2>1
<1> QED
  BY <1>1, <1>4, <1>5, <1>6, <1>7, <1>8, <1>9 DEF Quiet

LEMMA OneByOneKept ==
    ASSUME PaymentsAssumption, OneByOne, NEW w \in Workers, \A v \in Workers : v = w,
           HookInvoice(w) \/ notifyInvoiceGenerated(w) \/ HookToldCaptured(w)
           \/ finalizeBookingLoyalty(w)
    PROVE  ReadsHold' /\ ToldOnce' /\ BalanceSound'
<1>t. Types /\ req[w] \in Request
  BY DEF OneByOne, Types
<1>w. req[w].for \in Bookings /\ ClientOf[req[w].for] \in Clients
  BY <1>t DEF Request, HookInvoice, notifyInvoiceGenerated, HookToldCaptured,
              finalizeBookingLoyalty, PaymentsAssumption
<1>r. ASSUME NEW r, Become(w, r)
      PROVE  req'[w] = r
  BY <1>t, <1>r DEF Become, Types
<1>1. CASE HookInvoice(w)
  <2> DEFINE known == Invoiced(req[w].for)
             r == [req[w] EXCEPT !.pc = "hook_invoiced", !.seen = known]
  <2>1. Become(w, r) /\ UNCHANGED <<told, audited, points, mirror>>
    BY <1>1 DEF HookInvoice, loyalty, Invoiced
  <2>2. r.pc = "hook_invoiced" /\ r.seen = known /\ r.for = req[w].for
    <3> HIDE DEF known
    <3> QED
      BY <1>t DEF Request
  <2>3. req'[w] = r
    BY <1>r, <2>1
  <2> HIDE DEF r
  <2> QED
    BY <2>1, <2>2, <2>3 DEF OneByOne, ReadsHold, ToldOnce, BalanceSound, Invoiced
<1>2. CASE notifyInvoiceGenerated(w)
  <2> DEFINE r == [req[w] EXCEPT !.pc = "hook_told"]
             b == req[w].for
  <2>1. /\ audited' = audited \cup {<<"invoice_generated", b>>}
        /\ told' = [told EXCEPT ![b] = IF req[w].seen THEN @ ELSE @ + 1]
        /\ UNCHANGED <<points, mirror>> /\ req[w].pc = "hook_invoiced"
    BY <1>2 DEF recordAuditEntry, notifyInvoiceGenerated, loyalty
  <2>2. Finish(w) \/ Become(w, r)
    BY <1>2, Zenon DEF recordAuditEntry, notifyInvoiceGenerated
  <2>3. r.pc = "hook_told" /\ Idle.pc = "idle"
    BY <1>t DEF Request, Idle
  <2>4. req'[w].pc \notin {"hook_invoiced", "loyalty_read"}
    BY <1>r, <2>2, <2>3 DEF Finish
  <2>5. told[b] \in Nat /\ told[b] <= 1 /\ (told[b] = 1 => Invoiced(b))
    BY <1>t, <1>w DEF Types, OneByOne, ReadsHold, ToldOnce
  <2>6. req[w].seen <=> Invoiced(b)
    BY <2>1 DEF OneByOne, ReadsHold
  <2>7. \A a \in Bookings \ {b} : told'[a] = told[a]
    BY <1>t, <2>1 DEF Types
  <2>8. told'[b] <= 1
    BY <1>t, <1>w, <2>1, <2>5, <2>6 DEF Types
  <2>9. ToldOnce'
    BY <2>7, <2>8 DEF OneByOne, ToldOnce
  <2>10. \A a \in Bookings : told'[a] = 1 => Invoiced(a)'
    BY <2>1, <2>7 DEF OneByOne, ReadsHold, Invoiced
  <2> QED
    BY <2>1, <2>4, <2>9, <2>10 DEF OneByOne, ReadsHold, BalanceSound
<1>3. CASE HookToldCaptured(w)
  <2> DEFINE r == [req[w] EXCEPT !.pc = "loyalty_read",
                                 !.points = points[ClientOf[req[w].for]]]
  <2>1. /\ Become(w, r) /\ UNCHANGED <<told, points, mirror>>
        /\ audited \subseteq audited'
    BY <1>3 DEF recordAuditEntry, HookToldCaptured, loyalty
  <2>2. r.pc = "loyalty_read" /\ r.for = req[w].for
        /\ r.points = points[ClientOf[req[w].for]]
    BY <1>t DEF Request
  <2>3. req'[w] = r
    BY <1>r, <2>1
  <2> HIDE DEF r
  <2> QED
    BY <2>1, <2>2, <2>3 DEF OneByOne, ReadsHold, ToldOnce, BalanceSound, Invoiced
<1>4. CASE finalizeBookingLoyalty(w)
  <2> DEFINE c == ClientOf[req[w].for]
             spent == IF Redeemable(req[w]) > 0 THEN Redeemable(req[w]) ELSE 0
             gain == req[w].amount - spent
  <2>1. /\ points' = [points EXCEPT ![c] = @ + gain]
        /\ mirror' = [mirror EXCEPT ![c] = req[w].points + gain]
        /\ Finish(w) /\ UNCHANGED <<told, audited>> /\ req[w].pc = "loyalty_read"
    BY <1>4 DEF finalizeBookingLoyalty, papers
  <2>2. /\ points \in [Clients -> Int] /\ mirror \in [Clients -> Int] /\ c \in Clients
        /\ req[w].amount \in Nat /\ req[w].points = points[c]
        /\ points[c] >= 0 /\ mirror[c] = points[c]
    BY <1>t, <1>w, <2>1 DEF Types, Request, OneByOne, ReadsHold, BalanceSound
  <2>3. spent \in Int /\ spent <= points[c]
    BY <1>w, <2>2 DEF Redeemable, Lesser, PaymentsAssumption
  <2> HIDE DEF spent, c
  <2>4. points'[c] >= 0 /\ mirror'[c] = points'[c]
    BY <2>1, <2>2, <2>3
  <2>5. \A d \in Clients \ {c} : points'[d] = points[d] /\ mirror'[d] = mirror[d]
    BY <2>1, <2>2
  <2>6. BalanceSound'
    BY <2>4, <2>5 DEF OneByOne, BalanceSound
  <2>7. req'[w].pc = "idle"
    BY <1>r, <2>1 DEF Finish, Idle
  <2> QED
    BY <2>1, <2>6, <2>7 DEF OneByOne, ReadsHold, ToldOnce, Invoiced
<1> QED
  BY <1>1, <1>2, <1>3, <1>4

LEMMA OneByOneStays ==
    ASSUME PaymentsAssumption, OneByOne, \A v, w \in Workers : v = w, [Next]_vars
    PROVE  OneByOne'
<1>t. Types /\ Types'
  BY TypesStay DEF OneByOne
<1>1. ASSUME NEW w \in Workers, Quiet(w)
      PROVE  ReadsHold' /\ ToldOnce' /\ BalanceSound'
  BY <1>t, <1>1, QuietSteps DEF OneByOne, ReadsHold, ToldOnce, BalanceSound, Invoiced
<1>2. ASSUME UNCHANGED <<req, told, audited, points, mirror>>
      PROVE  ReadsHold' /\ ToldOnce' /\ BalanceSound'
  BY <1>2 DEF OneByOne, ReadsHold, ToldOnce, BalanceSound, Invoiced
<1>3. ASSUME MollieStep
      PROVE  ReadsHold' /\ ToldOnce' /\ BalanceSound'
  <2>1. ASSUME NEW p \in Providers, NEW c \in Charges, CheckoutFee(p, c)
        PROVE  ReadsHold' /\ ToldOnce' /\ BalanceSound'
    BY <1>2, <2>1 DEF CheckoutFee, loyalty, papers
  <2>2. ASSUME NEW c \in Charges, Authorizes(c) \/ Pays(c) \/ Expires(c) \/ Resend(c)
        PROVE  ReadsHold' /\ ToldOnce' /\ BalanceSound'
    BY <1>2, <2>2 DEF Authorizes, Pays, Expires, Settle, Resend, loyalty, papers
  <2> QED
    BY <1>3, <2>1, <2>2 DEF MollieStep
<1>4. ASSUME NEW b \in Bookings, Assign(b)
      PROVE  ReadsHold' /\ ToldOnce' /\ BalanceSound'
  BY <1>2, <1>4 DEF Assign, loyalty, papers
<1>5. ASSUME UNCHANGED vars
      PROVE  ReadsHold' /\ ToldOnce' /\ BalanceSound'
  BY <1>2, <1>5 DEF vars, loyalty, papers
<1>6. ASSUME NEW w \in Workers, RequestStep(w) \/ Takes(w)
      PROVE  ReadsHold' /\ ToldOnce' /\ BalanceSound'
  BY <1>1, <1>6, OneByOneKept DEF RequestStep, Continue, Quiet
<1>7. ReadsHold' /\ ToldOnce' /\ BalanceSound'
  BY <1>3, <1>4, <1>5, <1>6, StepKinds
<1> QED
  BY <1>t, <1>7 DEF OneByOne

LEMMA OneByOneHolds ==
    ASSUME PaymentsAssumption, \A v, w \in Workers : v = w
    PROVE  Spec => []OneByOne
<1>1. Init => OneByOne
  BY TypesAtFirst DEF Init, Idle, OneByOne, ReadsHold, ToldOnce, BalanceSound
<1> QED
  BY <1>1, OneByOneStays, PTL DEF Spec

\* Requests one at a time, a client is told of an invoice once, by repeated webhooks or
\* by an adjustment, for every number of charges and of webhooks.
THEOREM ClientIsToldOnce ==
    ASSUME PaymentsAssumption, \A v, w \in Workers : v = w
    PROVE  Spec => []ToldOnce
<1>1. OneByOne => ToldOnce
  BY DEF OneByOne
<1> QED
  BY <1>1, OneByOneHolds, PTL

\* Requests one at a time, no balance of points is overdrawn, and the profile shows it.
THEOREM NoBalanceIsOverdrawn ==
    ASSUME PaymentsAssumption, \A v, w \in Workers : v = w
    PROVE  Spec => []BalanceSound
<1>1. OneByOne => BalanceSound
  BY DEF OneByOne
<1> QED
  BY <1>1, OneByOneHolds, PTL

=============================================================================
