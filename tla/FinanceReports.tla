------------------------------ MODULE FinanceReports ------------------------------
(***************************************************************************)
(* The finance pages (employee/finance.service.ts): the overview of a      *)
(* range, the commissions, the invoices and statements, over the payments  *)
(* of the bookings and the payouts of the providers.                       *)
(***************************************************************************)
EXTENDS Dashboard

CONSTANTS
    Payouts,            \* rows of providerPayout
    PayoutAmounts,      \* bound: what they pay
    DEFAULT_RANGE_DAYS,
    MaxRows             \* invoices and statements of one page

PayoutStatus == {"PENDING", "PROCESSING", "PAID", "FAILED"}

FinanceAssumption == PayoutAmounts \subseteq Nat /\ DEFAULT_RANGE_DAYS \in Nat /\ MaxRows \in Nat \ {0}

VARIABLE payout

finance == <<booking, audit, now, active, payout>>
NotPaidOut == [status |-> "none"]

InitFinance == InitDashboard /\ payout = [k \in Payouts |-> NotPaidOut]

\* Slip: the status is written as the domain spells it.
openPayoutUnmapped(k, p, n) ==
    /\ payout[k] = NotPaidOut
    /\ payout' = [payout EXCEPT ![k] = [provider |-> p, amount |-> n, status |-> "processing", at |-> now]]
    /\ UNCHANGED dashboard

\* The row a batch makes for a provider; no code ever writes another status.
openPayout(k, p, n) ==
    /\ payout[k] = NotPaidOut
    /\ payout' = [payout EXCEPT ![k] = [provider |-> p, amount |-> n, status |-> "PROCESSING", at |-> now]]
    /\ UNCHANGED dashboard

NextFinance ==
    \/ NextDashboard /\ UNCHANGED payout
    \/ \E k \in Payouts, p \in Providers, n \in PayoutAmounts : openPayout(k, p, n)

SpecFinance == InitFinance /\ [][NextFinance]_finance

-----------------------------------------------------------------------------
\* Taken as asked for: a range that ends before it starts is empty.
resolveRange(from, to) ==
    LET end == IF to = None THEN now ELSE to
    IN  <<IF from = None THEN addDays(end, -DEFAULT_RANGE_DAYS) ELSE from, end>>

\* Slip: the end of the range is not in it.
PaymentsBefore(r, ss) == Paid(r[1], r[2] - 1, ss)

PaymentsIn(r, ss) == Paid(r[1], r[2], ss)
PayoutsIn(r, ss) == {k \in Payouts : /\ payout[k] # NotPaidOut /\ payout[k].status \in ss
                                     /\ payout[k].at \in r[1]..r[2]}
PayoutAmount(k) == payout[k].amount

\* Slip: the day says what was paid.
paymentsByDayPaid(r) ==
    [d \in {startOfDay(Row(b).payment.occurred) : b \in PaymentsIn(r, PaymentStatus)} |->
        LET of(ss) == {b \in PaymentsIn(r, ss) : startOfDay(Row(b).payment.occurred) = d}
        IN  [gross |-> Total(of(successPaymentStatuses), Amount), net |-> Total(of(PaymentStatus), Fee),
             failed |-> Total(of(failedPaymentStatuses), Amount)]]

paymentsByDay(r) ==
    [d \in {startOfDay(Row(b).payment.occurred) : b \in PaymentsIn(r, PaymentStatus)} |->
        LET of(ss) == {b \in PaymentsIn(r, ss) : startOfDay(Row(b).payment.occurred) = d}
        IN  [gross |-> Total(of(PaymentStatus), Amount), net |-> Total(of(PaymentStatus), Fee),
             failed |-> Total(of(failedPaymentStatuses), Amount)]]

payoutsByWeek(r) ==
    [w \in {startOfWeek(payout[k].at) : k \in PayoutsIn(r, PayoutStatus)} |->
        Total({k \in PayoutsIn(r, PayoutStatus) : startOfWeek(payout[k].at) = w}, PayoutAmount)]

financeOverview(r) ==
    LET paid == PaymentsIn(r, successPaymentStatuses)
    IN  [gross |-> Total(paid, Amount), net |-> Total(paid, Fee), commission |-> Total(paid, Fee),
         payoutPaid |-> Total(PayoutsIn(r, {"PAID"}), PayoutAmount),
         payoutPending |-> Total(PayoutsIn(r, {"PENDING", "PROCESSING"}), PayoutAmount),
         failed |-> Total(PaymentsIn(r, failedPaymentStatuses), Amount),
         refunded |-> Total(PaymentsIn(r, refundedPaymentStatuses), Amount),
         counts |-> [success |-> Count(paid), pending |-> Count(PaymentsIn(r, pendingPaymentStatuses)),
                     failed |-> Count(PaymentsIn(r, failedPaymentStatuses)),
                     refunded |-> Count(PaymentsIn(r, refundedPaymentStatuses))],
         byDay |-> paymentsByDay(r), byWeek |-> payoutsByWeek(r)]

\* Slip: the commission is taken off the price of the booking.
CommissionRowOfPrice(b) ==
    LET p == Row(b).payment
    IN  [total |-> Price(b), share |-> IF p = None THEN Price(b) ELSE Price(b) - Fee(b),
         commission |-> IF p = None THEN 0 ELSE Fee(b)]

\* Split of what is paid; of a booking without a payment everything is the provider's.
CommissionRow(b) ==
    LET p == Row(b).payment
    IN  [total |-> Price(b), share |-> IF p = None THEN Price(b) ELSE Amount(b) - Fee(b),
         commission |-> IF p = None THEN 0 ELSE Fee(b)]

getCommissions(r) ==
    LET bs == StartsWithin(r[1], r[2])
        share(b) == CommissionRow(b).share
        commission(b) == CommissionRow(b).commission
    IN  [commission |-> Total(bs, commission), share |-> Total(bs, share), bookings |-> Count(bs)]

OccurredOf(b) == Row(b).payment.occurred
PaidOutOf(k) == payout[k].at

\* Slip: an invoice for what was paid alone.
clientInvoicesPaid(r) ==
    {b \in PaymentsIn(r, successPaymentStatuses) :
        Count({c \in PaymentsIn(r, PaymentStatus) : OccurredOf(c) > OccurredOf(b)}) < MaxRows}

\* The newest rows, as many as a page has; of rows of one time any.
clientInvoices(r) ==
    {b \in PaymentsIn(r, PaymentStatus) :
        Count({c \in PaymentsIn(r, PaymentStatus) : OccurredOf(c) > OccurredOf(b)}) < MaxRows}

providerStatements(r) ==
    {k \in PayoutsIn(r, PayoutStatus) :
        Count({j \in PayoutsIn(r, PayoutStatus) : PaidOutOf(j) > PaidOutOf(k)}) < MaxRows}

\* An invoice for every payment, whatever has become of it.
formatInvoiceRecord(b) == [amount |-> Amount(b), status |-> Row(b).payment.status]
formatStatementRecord(k) ==
    [amount |-> PayoutAmount(k), commission |-> None, net |-> PayoutAmount(k), status |-> payout[k].status]

-----------------------------------------------------------------------------
FinanceTypeOK ==
    /\ TypeOK
    /\ \A k \in Payouts : payout[k] # NotPaidOut =>
          payout[k] \in [provider : Providers, amount : Nat, status : PayoutStatus, at : 0..now]

Ranges == {resolveRange(from, to) : from \in {None} \cup 0..now, to \in {None} \cup 0..now}
Column(f, Part(_)) == MapThenSumSet(LAMBDA d : Part(f[d]), DOMAIN f)

\* Every payment of a range is in one class and on one day of the chart; the chart calls gross
\* what was only asked for or failed as well, so that it passes the total by exactly that; and
\* every payout is pending for ever.
FinanceAddsUp ==
    \A r \in Ranges :
        LET o == financeOverview(r)
            gross(row) == row.gross
            net(row) == row.net
            failed(row) == row.failed
            open == PaymentsIn(r, pendingPaymentStatuses)
        IN  /\ SumOf(o.counts) = Count(PaymentsIn(r, PaymentStatus))
            /\ Column(o.byDay, gross) = o.gross + o.failed + o.refunded + Total(open, Amount)
            /\ Column(o.byDay, failed) = o.failed /\ Column(o.byDay, net) >= o.net
            /\ o.net <= o.gross
            /\ SumOf(o.byWeek) = o.payoutPending /\ o.payoutPaid = 0
            /\ r[1] > r[2] => o.byDay = <<>> /\ o.byWeek = <<>>

\* From the start of a week or of a month to now, the finance page tells the revenue of the
\* front pages, and over all of the time their fees and their classes.
FinanceAgrees ==
    LET f == dashboardFinances
        ever == financeOverview(<<0, now>>)
    IN  /\ financeOverview(<<startOfWeek(now), now>>).gross = f.week
        /\ financeOverview(<<startOfMonth(now), now>>).gross = getOverview.revenueMonth
        /\ ever.net = f.fees
        /\ ever.counts = [success |-> f.succeeded, pending |-> f.pending, failed |-> f.failed,
                          refunded |-> f.refunded]

\* What the page gives to the provider and to the platform is what the client pays, and
\* before a payment the price, none of it the platform's.
CommissionsSplit ==
    \A r \in Ranges :
        LET c == getCommissions(r)
            bs == StartsWithin(r[1], r[2])
            paid == {b \in bs : Row(b).payment # None}
        IN  /\ c.share + c.commission = Total(paid, Amount) + Total(bs \ paid, Price)
            /\ c.commission = Total(paid, Fee)

\* Invoices and statements that fit on a page add up to the charts of the overview, the
\* invoices of failed payments too; a page that is cut adds up to less.
InvoicesAddUp ==
    \A r \in Ranges :
        LET o == financeOverview(r)
            gross(row) == row.gross
            invoiced == Total(clientInvoices(r), LAMBDA b : formatInvoiceRecord(b).amount)
            stated == Total(providerStatements(r), LAMBDA k : formatStatementRecord(k).net)
        IN  /\ invoiced <= Column(o.byDay, gross) /\ stated <= SumOf(o.byWeek)
            /\ SumOf(o.counts) <= MaxRows => invoiced = Column(o.byDay, gross)
            /\ Count(PayoutsIn(r, PayoutStatus)) <= MaxRows => stated = SumOf(o.byWeek)

=============================================================================
