----------------------------- MODULE BookingHistory -----------------------------
(***************************************************************************)
(* What the reports of the back office read of a booking: its dates and    *)
(* status, its invitations, assignments and payment, and the reasons in    *)
(* its audit log.  One action per handler that writes them, in one step:   *)
(* how the handlers interleave is the subject of BookingLifecycle and of   *)
(* Payments.  A booking has one seat and one price: an acceptance sets a   *)
(* price of its own, and no report compares two prices of one booking.     *)
(* The modules of reports extend this one.                                 *)
(***************************************************************************)
EXTENDS Integers, FiniteSets, Sequences, SequencesExt

CONSTANTS
    Bookings, Providers,
    Requests,      \* what is asked for: see RequestType
    Cancellers,    \* bound: who cancels
    Targets,       \* bound: whom Ops or a request assigns
    OpsStatuses,   \* bound: the statuses Ops and missions ask for
    MoneyStatuses, \* bound: those of a payment in use
    DayLength,     \* ticks of a day
    MaxTime,       \* bound: the clock
    MaxAudits,     \* bound: status changes with a reason
    None

BookingStatus == {"DRAFT", "PENDING_PROVIDER", "PENDING_CLIENT", "CONFIRMED",
                  "IN_PROGRESS", "COMPLETED", "CANCELLED", "DISPUTED"}
PaymentStatus == {"PENDING", "REQUIRES_ACTION", "AUTHORIZED", "CAPTURE_PENDING", "CAPTURED",
                  "HELD", "RELEASED", "REFUNDED", "FAILED", "DISPUTED"}

\* lead: from the request to the start; amount and fee: what is paid, the platform's part.
RequestType == [smart : BOOLEAN, short : BOOLEAN, weekly : BOOLEAN, special : BOOLEAN,
                eco : BOOLEAN, client : STRING, zone : STRING, lead : Nat,
                price : Nat, amount : Nat, fee : Nat]

HistoryAssumption ==
    /\ Requests \subseteq RequestType
    /\ Cancellers \subseteq {"client", "company", "admin", "provider", "free text"}
    /\ Targets \subseteq Providers \cup {None} /\ OpsStatuses \subseteq BookingStatus /\ MoneyStatuses \subseteq PaymentStatus
    /\ DayLength \in Nat \ {0} /\ MaxTime \in Nat /\ MaxAudits \in Nat /\ None \notin Bookings \cup Providers

VARIABLES booking, audit, now

history == <<booking, audit, now>>
NoBooking == [status |-> "NONE"]
NoInvitations == [p \in Providers |-> None]

InitHistory == booking = [b \in Bookings |-> NoBooking] /\ audit = <<>> /\ now = 0

Stored == {b \in Bookings : booking[b] # NoBooking}

\* Every write of the row moves updatedAt.
Write(b, row) == booking' = [booking EXCEPT ![b] = [row EXCEPT !.updated = now]]
Row(b) == booking[b]

create(b, x, p) ==
    /\ Row(b) = NoBooking /\ (x.short => p = None)
    /\ Write(b, [status |-> IF p # None THEN "PENDING_CLIENT"
                            ELSE IF x.smart /\ ~x.short THEN "PENDING_PROVIDER" ELSE "DRAFT",
                 at |-> now, updated |-> now, start |-> now + x.lead, x |-> x,
                 invitation |-> NoInvitations,
                 assignments |-> IF p = None THEN <<>> ELSE <<[provider |-> p, at |-> now]>>,
                 payment |-> None])
    /\ UNCHANGED <<audit, now>>

\* dispatchShortNoticeBookingAfterPayment
dispatch(b, ps) ==
    /\ b \in Stored /\ Row(b).x.short /\ Row(b).invitation = NoInvitations
    /\ Write(b, [Row(b) EXCEPT !.status = IF @ = "DRAFT" THEN "PENDING_PROVIDER" ELSE @,
                               !.invitation = [p \in Providers |->
                                   IF p \in ps THEN [status |-> "PENDING", at |-> now, respondedAt |-> None]
                                   ELSE None]])
    /\ UNCHANGED <<audit, now>>

Answered(b, p, status) == [Row(b).invitation[p] EXCEPT !.status = status, !.respondedAt = now]
IsPending(b, p) == Row(b).invitation[p] # None /\ Row(b).invitation[p].status = "PENDING"
IsAssigned(b, p) == \E a \in ToSet(Row(b).assignments) : a.provider = p

\* Slip: the invitations of the others are left as they are.
acceptAlone(b, p) ==
    /\ b \in Stored /\ IsPending(b, p) /\ Row(b).assignments = <<>>
    /\ Row(b).status \in {"PENDING_PROVIDER", "PENDING_CLIENT"}
    /\ Write(b, [Row(b) EXCEPT !.status = "PENDING_CLIENT",
                               !.assignments = <<[provider |-> p, at |-> now]>>,
                               !.invitation[p].status = "ACCEPTED"])
    /\ UNCHANGED <<audit, now>>

\* acceptShortNoticeInvitation, of a booking with one seat: the others expire, answered too.
accept(b, p) ==
    /\ b \in Stored /\ IsPending(b, p) /\ Row(b).assignments = <<>>
    /\ Row(b).status \in {"PENDING_PROVIDER", "PENDING_CLIENT"}
    /\ Write(b, [Row(b) EXCEPT !.status = "PENDING_CLIENT",
                               !.assignments = <<[provider |-> p, at |-> now]>>,
                               !.invitation = [q \in Providers |->
                                   IF q = p THEN Answered(b, q, "ACCEPTED")
                                   ELSE IF IsPending(b, q) THEN Answered(b, q, "EXPIRED")
                                   ELSE @[q]]])
    /\ UNCHANGED <<audit, now>>

\* declineShortNoticeInvitation: whatever the invitation says, the booking is not written.
decline(b, p) ==
    /\ b \in Stored /\ Row(b).invitation[p] # None
    /\ booking' = [booking EXCEPT ![b].invitation[p] = Answered(b, p, "DECLINED")]
    /\ UNCHANGED <<audit, now>>

ReasonOf(by) == IF by = "free text" THEN by ELSE by \o "_cancelled"

\* Slip: the domain's status is written, toPrismaStatus is forgotten.
cancelUnmapped(b, by) ==
    /\ b \in Stored /\ Row(b).status # "cancelled" /\ Len(audit) < MaxAudits
    /\ Write(b, [Row(b) EXCEPT !.status = "cancelled"])
    /\ audit' = Append(audit, [booking |-> b, reason |-> ReasonOf(by), at |-> now])
    /\ UNCHANGED now

\* cancel and cancelMission: the reason is the caller's, or one of the default ones.
cancel(b, by) ==
    /\ b \in Stored /\ Row(b).status # "CANCELLED" /\ Len(audit) < MaxAudits
    /\ by \in {"client", "company"} => Row(b).assignments = <<>>
    /\ by = "provider" => Row(b).assignments # <<>>
    /\ Write(b, [Row(b) EXCEPT !.status = "CANCELLED"])
    /\ audit' = Append(audit, [booking |-> b, reason |-> ReasonOf(by), at |-> now])
    /\ UNCHANGED now

\* update by Ops and updateMission: only a mission that is cancelled has a reason.
updateStatus(b, s) ==
    /\ b \in Stored /\ Row(b).status # s
    /\ Write(b, [Row(b) EXCEPT !.status = s])
    /\ UNCHANGED <<audit, now>>

\* update with a list of providers: those kept keep their row.
reassign(b, p) ==
    /\ b \in Stored
    /\ Write(b, [Row(b) EXCEPT !.assignments =
                    IF p = None THEN <<>>
                    ELSE IF IsAssigned(b, p) THEN @ ELSE <<[provider |-> p, at |-> now]>>])
    /\ UNCHANGED <<audit, now>>

\* upsertPaymentRecord and the webhook: every write but the capture of a hold dates the row.
pay(b, s, dated) ==
    /\ b \in Stored
    /\ booking' = [booking EXCEPT ![b].payment =
          IF @ = None THEN [status |-> s, amount |-> Row(b).x.amount, fee |-> Row(b).x.fee,
                            at |-> now, occurred |-> now]
          ELSE [@ EXCEPT !.status = s, !.occurred = IF dated THEN now ELSE @]]
    /\ UNCHANGED <<audit, now>>

Tick == now < MaxTime /\ now' = now + 1 /\ UNCHANGED <<booking, audit>>

NextHistory ==
    \/ \E b \in Bookings, x \in Requests, p \in Targets \cup {None} : create(b, x, p)
    \/ \E b \in Bookings, ps \in SUBSET Providers : dispatch(b, ps)
    \/ \E b \in Bookings, p \in Providers : accept(b, p)
    \/ \E b \in Bookings, p \in Providers : decline(b, p)
    \/ \E b \in Bookings, by \in Cancellers : cancel(b, by)
    \/ \E b \in Bookings, s \in OpsStatuses : updateStatus(b, s)
    \/ \E b \in Bookings, p \in Targets : reassign(b, p)
    \/ \E b \in Bookings, s \in MoneyStatuses, dated \in BOOLEAN : pay(b, s, dated)
    \/ Tick

-----------------------------------------------------------------------------
(***************************************************************************)
(* What every report starts from: a range of the clock, both ends in it.   *)
(***************************************************************************)
Created(from, to) == {b \in Stored : Row(b).at \in from..to}
StartsWithin(from, to) == {b \in Stored : Row(b).start \in from..to}
DayOf(t) == t \div DayLength
Count(S) == Cardinality(S)
InStatus(bs, ss) == {b \in bs : Row(b).status \in ss}
Assigned(bs) == {b \in bs : Row(b).assignments # <<>>}
Paid(from, to, ss) ==
    {b \in Stored : /\ Row(b).payment # None /\ Row(b).payment.status \in ss
                    /\ Row(b).payment.occurred \in from..to}
Amount(b) == Row(b).payment.amount
Fee(b) == Row(b).payment.fee
Price(b) == Row(b).x.price
Total(bs, F(_)) == MapThenSumSet(F, bs)
Audited(from, to, reasons) ==
    {i \in DOMAIN audit : audit[i].at \in from..to /\ audit[i].reason \in reasons}
Invited(bs) == {i \in bs \X Providers : Row(i[1]).invitation[i[2]] # None}
Invitation(i) == Row(i[1]).invitation[i[2]]

=============================================================================
