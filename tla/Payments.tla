------------------------------- MODULE Payments -------------------------------
(***************************************************************************)
(* A booking's payment: checkouts at Mollie, the webhooks that report on   *)
(* them, the invoice, the notifications, the loyalty points and the        *)
(* dispatch that follow a capture (payments.service.ts, the webhook        *)
(* controller, invoice.service.ts, finalizeBookingLoyalty of               *)
(* pricing.service.ts), and the provider's signup fee.                     *)
(*                                                                         *)
(* Mollie is external: a charge is open, may be authorized, and is paid or *)
(* failed for good; each change is announced by a webhook that names the   *)
(* charge and may be delivered again.  The controller answers 200 to       *)
(* everything, so a webhook that failed is not sent again on that account. *)
(***************************************************************************)
EXTENDS Integers, FiniteSets

CONSTANTS
    Bookings, Clients, Providers,
    Charges,      \* payments at Mollie; bound: how many are ever created
    Workers,      \* requests served at the same time
    NoCharge, NoTarget,
    ClientOf,     \* booking |-> booking.clientId
    ShortNotice,  \* the short-notice bookings
    Deposit,      \* booking |-> shortNoticeDepositCents, 0 if it has none
    Total,        \* booking |-> pricingTotalCents
    Credits,      \* booking |-> points its loyalty credits are worth
    InvoiceNumber,\* booking |-> SAU-<year>-<last characters of the payment id>
    MaxResent,    \* bound: webhooks that Mollie delivers again
    MaxFaults     \* bound: errors, restarts, and events that stay as their body is

PaymentsAssumption ==
    /\ Bookings \cap Providers = {}
    /\ NoTarget \notin Bookings \cup Providers /\ NoCharge \notin Charges
    /\ ClientOf \in [Bookings -> Clients]
    /\ ShortNotice \subseteq Bookings
    /\ Deposit \in [Bookings -> Nat] /\ \A b \in Bookings \ ShortNotice : Deposit[b] = 0
    /\ Total \in [Bookings -> Nat]
    /\ Credits \in [Bookings -> Nat]
    /\ DOMAIN InvoiceNumber = Bookings
    /\ MaxResent \in Nat /\ MaxFaults \in Nat
    /\ IsFiniteSet(Charges) /\ IsFiniteSet(Workers)

VARIABLES
    charge,      \* charge |-> what Mollie knows of it
    offered,     \* the charges whose checkout URL a client has received
    hooks,       \* the webhooks on their way: <<charge, the status they announce>>
    resent,
    granted,     \* history: target |-> authorizations and payments its clients made
    onWord,      \* history: target |-> events taken for paid that no charge bears out
    assigned,    \* the bookings with an assignment
    payment,     \* booking |-> its Payment row
    invoice,     \* booking |-> invoice.totalCents, or -1
    audited,     \* <<action, booking>> of the BookingAudit rows
    told,        \* booking |-> "invoice generated" messages sent
    feePaid,     \* the providers with signupFeePaidAt
    points,      \* client |-> loyaltyBalance.points
    mirror,      \* client |-> clientProfile.loyaltyPoints
    earns,       \* booking |-> its EARN rows in LoyaltyTransaction
    dispatched,  \* the bookings handed to dispatchShortNoticeBookingAfterPayment
    req,
    faults

mollie == <<charge, offered, hooks, resent, granted, onWord>>
papers == <<invoice, audited, told>>
loyalty == <<points, mirror, earns>>
vars == <<mollie, assigned, payment, papers, feePaid, loyalty, dispatched,
          req, faults>>

Targets == Bookings \cup Providers \cup {NoTarget}
Settled == {"authorized", "paid", "failed"}
ChargeStatus == Settled \cup {"none", "open"}
Verdicts == {"none", "paid", "failed"}
PaymentStatus == {"none", "PENDING", "CAPTURED", "FAILED"}
Phases == {"idle", "checkout_created", "checkout_found", "hook_fetched",
           "hook_captured", "hook_invoiced", "hook_told", "loyalty_read",
           "accepted"}

NoPayment == [status |-> "none", amount |-> 0, ref |-> NoCharge]

\* A request: its phase, the charge and the booking or provider it is about,
\* whether it adjusts the payment of an accepted booking, and what it has read:
\* a status at Mollie, that a row exists (seen), an amount, a balance.
Idle == [pc |-> "idle", charge |-> NoCharge, for |-> NoTarget, adjust |-> FALSE,
         status |-> "none", seen |-> FALSE, amount |-> 0, points |-> 0]

Become(w, r) == req' = [req EXCEPT ![w] = r]
Finish(w) == Become(w, Idle)

Init ==
    /\ charge = [c \in Charges |-> [status |-> "none", for |-> NoTarget, amount |-> 0]]
    /\ offered = {} /\ hooks = {} /\ resent = 0
    /\ granted = [t \in Targets |-> 0] /\ onWord = [t \in Targets |-> 0]
    /\ assigned = {}
    /\ payment = [b \in Bookings |-> NoPayment]
    /\ invoice = [b \in Bookings |-> -1]
    /\ audited = {}
    /\ told = [b \in Bookings |-> 0]
    /\ feePaid = {}
    /\ points = [c \in Clients |-> 0] /\ mirror = [c \in Clients |-> 0]
    /\ earns = [b \in Bookings |-> 0]
    /\ dispatched = {}
    /\ req = [w \in Workers |-> Idle]
    /\ faults = 0

(***************************************************************************)
(* Checkout: a charge is created at Mollie, then the one payment row of    *)
(* the booking is found and written.  Every checkout makes a new charge,   *)
(* whatever became of the earlier ones.                                    *)
(***************************************************************************)
requiresPayment(b) == b \in assigned \/ Deposit[b] > 0
AmountDue(b) == IF b \in assigned THEN Total[b] ELSE Deposit[b]

NewCharge(c, target, amount) ==
    /\ charge[c].status = "none"
    /\ charge' = [charge EXCEPT ![c] = [status |-> "open", for |-> target,
                                        amount |-> amount]]

CheckoutCreate(w, b, c) ==
    /\ req[w].pc = "idle" /\ requiresPayment(b)
    /\ NewCharge(c, b, AmountDue(b))
    /\ Become(w, [Idle EXCEPT !.pc = "checkout_created", !.charge = c, !.for = b])
    /\ UNCHANGED <<offered, hooks, resent, granted, onWord, assigned, payment, papers,
                   feePaid, loyalty, dispatched, faults>>

CheckoutFind(w) ==
    /\ req[w].pc = "checkout_created"
    /\ Become(w, [req[w] EXCEPT !.pc = "checkout_found",
                                !.seen = payment[req[w].for].status # "none"])
    /\ UNCHANGED <<mollie, assigned, payment, papers, feePaid, loyalty,
                   dispatched, faults>>

\* A create that finds the booking taken (@@unique) fails, and so does the
\* checkout; the charge stays at Mollie and nobody gets its URL.
upsertPaymentRecord(w) ==
    LET r == req[w] IN
    /\ r.pc = "checkout_found"
    /\ \/ /\ r.seen \/ payment[r.for].status = "none"
          /\ payment' = [payment EXCEPT ![r.for] =
                [status |-> "PENDING", amount |-> charge[r.charge].amount,
                 ref |-> r.charge]]
          /\ offered' = offered \cup {r.charge}
       \/ /\ ~r.seen /\ payment[r.for].status # "none"
          /\ UNCHANGED <<payment, offered>>
    /\ Finish(w)
    /\ UNCHANGED <<charge, hooks, resent, granted, onWord, assigned, papers, feePaid,
                   loyalty, dispatched, faults>>

\* createProviderSignupFeePayment keeps no row of its own.
CheckoutFee(p, c) ==
    /\ NewCharge(c, p, 1)
    /\ offered' = offered \cup {c}
    /\ UNCHANGED <<hooks, resent, granted, onWord, assigned, payment, papers, feePaid,
                   loyalty, dispatched, req, faults>>

(***************************************************************************)
(* Mollie.  Only a client with the URL can authorize or pay; an unpaid     *)
(* charge expires or is cancelled, and an authorized one may be captured   *)
(* or not.                                                                 *)
(***************************************************************************)
Settle(c, from, status) ==
    /\ charge[c].status \in from
    /\ charge' = [charge EXCEPT ![c].status = status]
    /\ hooks' = hooks \cup {<<c, status>>}
    /\ granted' = [granted EXCEPT ![charge[c].for] = IF status = "failed" THEN @ ELSE @ + 1]
    /\ UNCHANGED <<offered, resent, onWord, assigned, payment, papers, feePaid, loyalty,
                   dispatched, req, faults>>

Authorizes(c) == c \in offered /\ Settle(c, {"open"}, "authorized")
Pays(c) == c \in offered /\ Settle(c, {"open", "authorized"}, "paid")
Expires(c) == Settle(c, {"open", "authorized"}, "failed")

Resend(c) ==
    LET again == <<c, charge[c].status>> IN
    /\ charge[c].status # "none" /\ again \notin hooks /\ resent < MaxResent
    /\ hooks' = hooks \cup {again} /\ resent' = resent + 1
    /\ UNCHANGED <<charge, offered, granted, onWord, assigned, payment, papers, feePaid,
                   loyalty, dispatched, req, faults>>

(***************************************************************************)
(* A webhook: the charge is fetched from Mollie, the status applied to the *)
(* payment row, then invoice, messages, loyalty and dispatch, in order.    *)
(***************************************************************************)

\* Slip: an open charge counts as paid.
normalizeMollieStatusOpen(status, type) ==
    IF status \in {"paid", "authorized", "open"} THEN "paid"
    ELSE IF status = "failed" THEN "failed" ELSE type

\* Slip: the status is taken as Mollie gives it.
normalizeMollieStatusRaw(status, type) == IF status = "open" THEN type ELSE status

\* An authorized charge counts as paid.  An open one has no status the handler acts
\* on; then the type of the event decides, ".paid" or ".failed" and its like.
normalizeMollieStatus(status, type) ==
    IF status \in {"paid", "authorized"} THEN "paid"
    ELSE IF status = "failed" THEN "failed" ELSE type

TakeOnWord(t) == onWord' = [onWord EXCEPT ![t] = @ + 1]

\* type: what the type in the body of the event says.
HookFetch(w, hook, type) ==
    LET c == charge[hook[1]] IN
    /\ req[w].pc = "idle" /\ hook \in hooks
    /\ hooks' = hooks \ {hook}
    /\ Become(w, [Idle EXCEPT !.pc = "hook_fetched", !.charge = hook[1], !.for = c.for,
                              !.status = normalizeMollieStatus(c.status, type)])
    /\ IF c.status \notin Settled /\ type = "paid" THEN TakeOnWord(c.for)
                                               ELSE UNCHANGED onWord
    /\ UNCHANGED <<charge, offered, resent, granted, assigned, payment, papers, feePaid,
                   loyalty, dispatched, faults>>

\* enrichMollieEvent leaves an event as it is when Mollie cannot be asked about it, or
\* when it names no charge (of hooks, none then): the status and the booking or provider
\* in its body, if it has them, are what the handler goes by.
HookUnfetched(w, of, status, target) ==
    /\ req[w].pc = "idle" /\ of \subseteq hooks /\ faults < MaxFaults
    /\ hooks' = hooks \ of /\ faults' = faults + 1
    /\ Become(w, [Idle EXCEPT !.pc = "hook_fetched", !.for = target, !.status = status])
    /\ IF status = "paid" THEN TakeOnWord(target) ELSE UNCHANGED onWord
    /\ UNCHANGED <<charge, offered, resent, granted, assigned, payment, papers, feePaid,
                   loyalty, dispatched>>

\* metadata.bookingId leads to the row, whichever of its charges this is.
resolvePaymentIdFromMollie(r) ==
    r.for \in Bookings /\ payment[r.for].status # "none"

HookFee(w) ==
    LET r == req[w] IN
    /\ r.pc = "hook_fetched" /\ r.for \in Providers
    /\ feePaid' = feePaid \cup (IF r.status = "paid" THEN {r.for} ELSE {})
    /\ Finish(w)
    /\ UNCHANGED <<mollie, assigned, payment, papers, loyalty, dispatched, faults>>

HookNothing(w) ==
    LET r == req[w] IN
    /\ r.pc = "hook_fetched" /\ r.for \notin Providers
    /\ ~resolvePaymentIdFromMollie(r) \/ r.status = "none"
    /\ Finish(w)
    /\ UNCHANGED <<mollie, assigned, payment, papers, feePaid, loyalty,
                   dispatched, faults>>

\* The row becomes CAPTURED or FAILED whatever it was before.
HookCapture(w) ==
    LET r == req[w] IN
    /\ r.pc = "hook_fetched" /\ resolvePaymentIdFromMollie(r) /\ r.status = "paid"
    /\ payment' = [payment EXCEPT ![r.for].status = "CAPTURED"]
    /\ Become(w, [r EXCEPT !.pc = "hook_captured", !.amount = payment[r.for].amount])
    /\ UNCHANGED <<mollie, assigned, papers, feePaid, loyalty, dispatched, faults>>

HookFail(w) ==
    LET r == req[w] IN
    /\ r.pc = "hook_fetched" /\ resolvePaymentIdFromMollie(r) /\ r.status = "failed"
    /\ payment' = [payment EXCEPT ![r.for].status = "FAILED"]
    /\ Finish(w)
    /\ UNCHANGED <<mollie, assigned, papers, feePaid, loyalty, dispatched, faults>>

\* Another payment whose invoice has the same number (@unique).
NumberTaken(b) ==
    \E a \in Bookings \ {b} : invoice[a] >= 0 /\ InvoiceNumber[a] = InvoiceNumber[b]

\* generateClientInvoice upserts the invoice of the payment with the prices of
\* the booking; the look-up of the audit entry follows.
HookInvoice(w) ==
    LET r == req[w] IN
    /\ r.pc = "hook_captured" /\ ~NumberTaken(r.for)
    /\ invoice' = [invoice EXCEPT ![r.for] = Total[r.for]]
    /\ Become(w, [r EXCEPT !.pc = "hook_invoiced",
                           !.seen = <<"invoice_generated", r.for>> \in audited])
    /\ UNCHANGED <<mollie, assigned, payment, audited, told, feePaid, loyalty,
                   dispatched, faults>>

\* The error ends the webhook before points and dispatch.
HookInvoiceRefused(w) ==
    /\ req[w].pc = "hook_captured" /\ NumberTaken(req[w].for)
    /\ Finish(w)
    /\ UNCHANGED <<mollie, assigned, payment, papers, feePaid, loyalty,
                   dispatched, faults>>

\* recordInvoiceAuditEntry and recordPaymentCapturedAuditEntry: one entry per kind and payment.
recordAuditEntry(action, b) == audited' = audited \cup {<<action, b>>}

\* Slip: the audit entry is written but not looked at.
notifyInvoiceGeneratedAlways(w) ==
    LET r == req[w] IN
    /\ r.pc = "hook_invoiced"
    /\ recordAuditEntry("invoice_generated", r.for)
    /\ told' = [told EXCEPT ![r.for] = @ + 1]
    /\ IF r.adjust THEN Finish(w) ELSE Become(w, [r EXCEPT !.pc = "hook_told"])
    /\ UNCHANGED <<mollie, assigned, payment, invoice, feePaid, loyalty,
                   dispatched, faults>>

\* Slip: an adjustment runs on into the loyalty points.
notifyInvoiceGeneratedRunsOn(w) ==
    LET r == req[w] IN
    /\ r.pc = "hook_invoiced"
    /\ recordAuditEntry("invoice_generated", r.for)
    /\ told' = [told EXCEPT ![r.for] = IF r.seen THEN @ ELSE @ + 1]
    /\ Become(w, [r EXCEPT !.pc = "hook_told", !.amount = payment[r.for].amount])
    /\ UNCHANGED <<mollie, assigned, payment, invoice, feePaid, loyalty,
                   dispatched, faults>>

notifyInvoiceGenerated(w) ==
    LET r == req[w] IN
    /\ r.pc = "hook_invoiced"
    /\ recordAuditEntry("invoice_generated", r.for)
    /\ told' = [told EXCEPT ![r.for] = IF r.seen THEN @ ELSE @ + 1]
    /\ IF r.adjust THEN Finish(w) ELSE Become(w, [r EXCEPT !.pc = "hook_told"])
    /\ UNCHANGED <<mollie, assigned, payment, invoice, feePaid, loyalty,
                   dispatched, faults>>

\* notifyPaymentCapturedEvent, then the loyalty transaction reads the balance.
HookToldCaptured(w) ==
    LET r == req[w] IN
    /\ r.pc = "hook_told"
    /\ recordAuditEntry("payment_captured", r.for)
    /\ Become(w, [r EXCEPT !.pc = "loyalty_read", !.points = points[ClientOf[r.for]]])
    /\ UNCHANGED <<mollie, assigned, payment, invoice, told, feePaid, loyalty,
                   dispatched, faults>>

triggerShortNoticeDispatch(b) == dispatched' = dispatched \cup ({b} \cap ShortNotice)

Lesser(a, b) == IF a < b THEN a ELSE b

\* Slip: the credits are redeemed without regard to the balance.
RedeemableUncapped(r) == Credits[r.for]

Redeemable(r) == Lesser(r.points, Credits[r.for])

\* One point per unit paid is earned, what the balance read allows is redeemed;
\* the balance moves by increments, the client's profile gets the result as
\* computed from the balance read.
finalizeBookingLoyalty(w) ==
    LET r == req[w]
        c == ClientOf[r.for]
        gain == r.amount - (IF Redeemable(r) > 0 THEN Redeemable(r) ELSE 0)
    IN  /\ r.pc = "loyalty_read"
        /\ points' = [points EXCEPT ![c] = @ + gain]
        /\ mirror' = [mirror EXCEPT ![c] = r.points + gain]
        /\ earns' = [earns EXCEPT ![r.for] = IF r.amount > 0 THEN @ + 1 ELSE @]
        /\ triggerShortNoticeDispatch(r.for)
        /\ Finish(w)
        /\ UNCHANGED <<mollie, assigned, payment, papers, feePaid, faults>>

\* Slip: an error of the loyalty transaction ends the webhook.
LoyaltyFailsHard(w) ==
    /\ req[w].pc = "loyalty_read"
    /\ Finish(w)
    /\ UNCHANGED <<mollie, assigned, payment, papers, feePaid, loyalty,
                   dispatched, faults>>

\* An error of the loyalty transaction is logged, and the dispatch follows.
LoyaltyFails(w) ==
    /\ req[w].pc = "loyalty_read"
    /\ triggerShortNoticeDispatch(req[w].for)
    /\ Finish(w)
    /\ UNCHANGED <<mollie, assigned, payment, papers, feePaid, loyalty, faults>>

(***************************************************************************)
(* The acceptance of a short-notice booking commits and then adjusts the   *)
(* amount of its payment to the full price; no charge is made for the      *)
(* difference.  Planned bookings get their providers without it.           *)
(***************************************************************************)
Assign(b) ==
    /\ b \notin ShortNotice
    /\ assigned' = assigned \cup {b}
    /\ UNCHANGED <<mollie, payment, papers, feePaid, loyalty, dispatched, req, faults>>

Accept(w, b) ==
    /\ req[w].pc = "idle" /\ b \in ShortNotice \ assigned
    /\ assigned' = assigned \cup {b}
    /\ Become(w, [Idle EXCEPT !.pc = "accepted", !.for = b, !.adjust = TRUE])
    /\ UNCHANGED <<mollie, payment, papers, feePaid, loyalty, dispatched, faults>>

adjustShortNoticePayment(w) ==
    LET b == req[w].for IN
    /\ req[w].pc = "accepted"
    /\ IF payment[b].status # "none" /\ Total[b] > 0
       THEN /\ payment' = [payment EXCEPT ![b].amount = Total[b]]
            /\ Become(w, [req[w] EXCEPT !.pc = "hook_captured"])
       ELSE Finish(w) /\ UNCHANGED payment
    /\ UNCHANGED <<mollie, assigned, papers, feePaid, loyalty, dispatched, faults>>

\* POST /payments/capture sends a confirmation of a payment it finds; the capture
\* itself is left to Mollie, so none of these tables changes.
captureCheckoutPayment(b) == UNCHANGED vars

\* A restart, or an error that the webhook controller logs as FAILED.
Abort(w) ==
    /\ req[w].pc # "idle" /\ faults < MaxFaults
    /\ faults' = faults + 1
    /\ Finish(w)
    /\ UNCHANGED <<mollie, assigned, payment, papers, feePaid, loyalty, dispatched>>

Continue(w) ==
    \/ CheckoutFind(w) \/ upsertPaymentRecord(w)
    \/ HookFee(w) \/ HookNothing(w) \/ HookCapture(w) \/ HookFail(w)
    \/ HookInvoice(w) \/ HookInvoiceRefused(w) \/ notifyInvoiceGenerated(w)
    \/ HookToldCaptured(w) \/ finalizeBookingLoyalty(w) \/ LoyaltyFails(w)
    \/ adjustShortNoticePayment(w)

Receive(c) ==
    \E w \in Workers, said \in ChargeStatus, type \in Verdicts : HookFetch(w, <<c, said>>, type)

\* An event that stays as its body is was the one webhook of these, or none of them.
Lost == {{}} \cup {{hook} : hook \in hooks}

Next ==
    \/ \E w \in Workers, b \in Bookings, c \in Charges : CheckoutCreate(w, b, c)
    \/ \E p \in Providers, c \in Charges : CheckoutFee(p, c)
    \/ \E c \in Charges : Authorizes(c) \/ Pays(c) \/ Expires(c) \/ Resend(c) \/ Receive(c)
    \/ \E w \in Workers, of \in Lost, status \in Verdicts, target \in Targets :
          HookUnfetched(w, of, status, target)
    \/ \E w \in Workers : Continue(w) \/ Abort(w)
    \/ \E b \in Bookings : captureCheckoutPayment(b) \/ Assign(b)
    \/ \E b \in Bookings : \E w \in Workers : Accept(w, b)

Spec == Init /\ [][Next]_vars

\* A request that has started runs on; Mollie delivers its webhooks.
FairSpec == Spec /\ \A w \in Workers : WF_vars(Continue(w))
                 /\ \A c \in Charges : SF_vars(Receive(c))

-----------------------------------------------------------------------------

Paid(b) == {c \in Charges : charge[c].for = b /\ charge[c].status = "paid"}

\* Every row and every request holds a value of its type.
TypeOK ==
    /\ charge \in [Charges -> [status : ChargeStatus, for : Targets, amount : Nat]]
    /\ offered \subseteq Charges /\ hooks \subseteq Charges \X ChargeStatus
    /\ resent \in 0..MaxResent
    /\ granted \in [Targets -> Nat] /\ onWord \in [Targets -> Nat]
    /\ assigned \subseteq Bookings /\ dispatched \subseteq Bookings
    /\ payment \in [Bookings -> [status : PaymentStatus, amount : Nat,
                                 ref : Charges \cup {NoCharge}]]
    /\ invoice \in [Bookings -> Nat \cup {-1}]
    /\ audited \subseteq {"invoice_generated", "payment_captured"} \X Bookings
    /\ told \in [Bookings -> Nat] /\ earns \in [Bookings -> Nat]
    /\ feePaid \subseteq Providers
    /\ points \in [Clients -> Int] /\ mirror \in [Clients -> Int]
    /\ req \in [Workers -> [pc : Phases, charge : Charges \cup {NoCharge},
                            for : Targets, adjust : BOOLEAN, seen : BOOLEAN,
                            status : Verdicts, amount : Nat,
                            points : Int]]
    /\ faults \in 0..MaxFaults

\* A client authorized or paid a charge of the target, or an event about it was taken
\* at its word.
Backed(t) == granted[t] > 0 \/ onWord[t] > 0

\* What the platform takes for paid, a client granted at Mollie: a captured payment, a
\* dispatched booking, points earned and a signup fee, under any interleaving of
\* checkouts, expiries, late and repeated webhooks, unless an event was taken at its word.
NothingWithoutMoney ==
    /\ \A b \in Bookings :
          payment[b].status = "CAPTURED" \/ b \in dispatched \/ earns[b] > 0 => Backed(b)
    /\ \A p \in feePaid : Backed(p)

\* A booking earns points at most once per authorization, payment, repeated webhook and
\* event taken at its word, although several charges share its payment row and an
\* acceptance invoices it again.
EarnedPerWebhook ==
    \A b \in Bookings : earns[b] <= granted[b] + resent + onWord[b]

\* One request at a time, the audit entry keeps the client from being told of
\* the same invoice twice, by repeated webhooks or by an adjustment.
ToldOnce == \A b \in Bookings : told[b] <= 1

\* One request at a time, no balance is overdrawn, and the profile shows the
\* balance between requests.
BalanceSound ==
    \A c \in Clients : points[c] >= 0 /\ mirror[c] = points[c]

\* A short-notice booking whose charge was paid is handed to the dispatch,
\* whatever its other charges do and even if the loyalty points fail.
PaidIsDispatched ==
    \A c \in Charges, b \in Bookings :
        (charge[c].status = "paid" /\ charge[c].for = b /\ Deposit[b] > 0
         /\ \A a \in Bookings : InvoiceNumber[a] = InvoiceNumber[b] => a = b)
            ~> b \in dispatched

=============================================================================
