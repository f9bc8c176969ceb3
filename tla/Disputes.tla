------------------------------- MODULE Disputes -------------------------------
(***************************************************************************)
(* Disputes: opened by clients and settled by reviewers                    *)
(* (disputes.service.ts), and edited and listed by the support centre      *)
(* (employee/support-center.service.ts), which writes the same rows by     *)
(* rules of its own.                                                       *)
(***************************************************************************)
EXTENDS Integers, FiniteSets

CONSTANTS
    Clients, Reviewers, Providers,
    Bookings, ClientOf, ProvidersOf, \* booking |-> its client, its providers
    Disputes,                        \* bound: ids
    Statuses, Refunds,               \* those reviewers set; bounds
    MaxMessages,                     \* bound
    Workers, None

DisputesAssumption ==
    /\ ClientOf \in [Bookings -> Clients]
    /\ ProvidersOf \in [Bookings -> SUBSET Providers]
    /\ Statuses \subseteq {"open", "under_review", "action_required",
                            "refunded", "resolved", "rejected"}
    /\ None \notin Clients \cup Reviewers \cup Providers \cup Bookings

VARIABLES
    dispute,    \* id |-> the row
    messages,   \* of all disputes
    req,        \* worker |-> the booking it opens a dispute of
    reopened,   \* disputes a reviewer opened again
    centre      \* disputes whose status the support centre wrote last

vars == <<dispute, messages, req, reopened, centre>>

ALLOWED_STATUSES == {"open", "under_review", "action_required",
                     "refunded", "resolved", "rejected"}
Unsettled == {"open", "under_review", "action_required"}
Amounts == {"none", "zero", "some"}     \* of refunds

NoDispute == [status |-> "none", booking |-> None, assignedTo |-> None,
              refund |-> "none", processed |-> FALSE, resolved |-> FALSE]

Init ==
    /\ dispute = [d \in Disputes |-> NoDispute]
    /\ messages = {} /\ req = [w \in Workers |-> None]
    /\ reopened = {} /\ centre = {}

Stored == {d \in Disputes : dispute[d].status # "none"}
OpenOf(b) == {d \in Stored : dispute[d].booking = b /\ dispute[d].status \in Unsettled}

-----------------------------------------------------------------------------
\* Slip: only the status "open" stands in the way of another dispute.
createDisputeOpen(w, c, b) ==
    /\ req[w] = None /\ ClientOf[b] = c
    /\ {d \in OpenOf(b) : dispute[d].status = "open"} = {}
    /\ req' = [req EXCEPT ![w] = b]
    /\ UNCHANGED <<dispute, messages, reopened, centre>>

createDispute(w, c, b) ==
    /\ req[w] = None /\ ClientOf[b] = c /\ OpenOf(b) = {}
    /\ req' = [req EXCEPT ![w] = b]
    /\ UNCHANGED <<dispute, messages, reopened, centre>>

\* Slip: the dispute is not connected to its booking.
CreateUnbooked(w) ==
    /\ req[w] # None
    /\ \E d \in Disputes \ Stored :
         dispute' = [dispute EXCEPT ![d] = [NoDispute EXCEPT !.status = "open"]]
    /\ req' = [req EXCEPT ![w] = None]
    /\ UNCHANGED <<messages, reopened, centre>>

CreateStore(w) ==
    /\ req[w] # None
    /\ \E d \in Disputes \ Stored :
         dispute' = [dispute EXCEPT ![d] = [NoDispute EXCEPT !.status = "open",
                                                             !.booking = req[w]]]
    /\ req' = [req EXCEPT ![w] = None]
    /\ UNCHANGED <<messages, reopened, centre>>

assignDispute(d, assignee) ==
    /\ d \in Stored
    /\ dispute' = [dispute EXCEPT ![d].assignedTo = assignee]
    /\ UNCHANGED <<messages, req, reopened, centre>>

Reopens(d, status) ==
    reopened' = IF status \in Unsettled /\ dispute[d].status \notin Unsettled
                  THEN reopened \cup {d} ELSE reopened

\* Slip: the date of a settlement that is taken back stays.
updateStatusKeepsDate(d, status, refund, reviewer) ==
    /\ d \in Stored
    /\ dispute' = [dispute EXCEPT ![d] =
                     [@ EXCEPT !.status = status, !.refund = refund, !.assignedTo = reviewer,
                        !.processed = @ \/ (refund = "some" /\ status = "refunded"),
                        !.resolved = @ \/ status \notin Unsettled]]
    /\ Reopens(d, status) /\ centre' = centre \ {d}
    /\ UNCHANGED <<messages, req>>

\* What the request leaves out is cleared; only that a refund was processed stays.  A
\* refund of zero is none: it is not processed.
updateStatus(d, status, refund, reviewer) ==
    /\ d \in Stored
    /\ dispute' = [dispute EXCEPT ![d] =
                     [@ EXCEPT !.status = status, !.refund = refund, !.assignedTo = reviewer,
                        !.processed = @ \/ (refund = "some" /\ status = "refunded"),
                        !.resolved = status \notin Unsettled]]
    /\ Reopens(d, status) /\ centre' = centre \ {d}
    /\ UNCHANGED <<messages, req>>

\* Slip: settling a dispute in the centre processes its refund.
updateDisputeProcesses(d, status, refund, assignee) ==
    /\ d \in Stored
    /\ dispute' = [dispute EXCEPT ![d] = [@ EXCEPT !.status = status, !.refund = refund,
                                            !.processed = @ \/ status = "refunded",
                                            !.assignedTo = assignee]]
    /\ Reopens(d, status) /\ centre' = centre \cup {d}
    /\ UNCHANGED <<messages, req>>

\* The centre changes what it is given and leaves both dates alone.
updateDispute(d, status, refund, assignee) ==
    /\ d \in Stored
    /\ dispute' = [dispute EXCEPT ![d] = [@ EXCEPT !.status = status, !.refund = refund,
                                                   !.assignedTo = assignee]]
    /\ Reopens(d, status)
    /\ centre' = IF status # dispute[d].status THEN centre \cup {d} ELSE centre
    /\ UNCHANGED <<messages, req>>

\* The quality desk writes the status alone.
updateIncident(d, status) ==
    /\ d \in Stored
    /\ dispute' = [dispute EXCEPT ![d].status = status]
    /\ Reopens(d, status)
    /\ centre' = IF status # dispute[d].status THEN centre \cup {d} ELSE centre
    /\ UNCHANGED <<messages, req>>

\* addMessageAsClient is the client's of the booking alone, addAdminMessage a reviewer's.
addMessage(d, role, u) ==
    /\ d \in Stored /\ Cardinality(messages) < MaxMessages
    /\ role = "client" => ClientOf[dispute[d].booking] = u
    /\ role = "admin" => u \in Reviewers
    /\ messages' = messages \cup {[dispute |-> d, role |-> role, author |-> u]}
    /\ UNCHANGED <<dispute, req, reopened, centre>>

Next ==
    \/ \E w \in Workers : \/ \E c \in Clients, b \in Bookings : createDispute(w, c, b)
                          \/ CreateStore(w)
    \/ \E d \in Disputes, r \in Reviewers :
         \/ assignDispute(d, r)
         \/ \E s \in Statuses, x \in Refunds :
              updateStatus(d, s, x, r) \/ updateDispute(d, s, x, r)
    \/ \E d \in Disputes, u \in Clients \cup Reviewers, role \in {"client", "admin"} :
         addMessage(d, role, u)
    \/ \E d \in Disputes : updateDispute(d, dispute[d].status, dispute[d].refund, None)
    \/ \E d \in Disputes, s \in Statuses : updateIncident(d, s)

Spec == Init /\ [][Next]_vars

-----------------------------------------------------------------------------
(***************************************************************************)
(* The support centre's list: of a status, a booking, a client, a provider.*)
(***************************************************************************)

BookingsFor(client, provider) ==
    {b \in Bookings : /\ client # None => ClientOf[b] = client
                      /\ provider # None => provider \in ProvidersOf[b]}

buildDisputeWhere(status, booking, ids) ==
    {d \in Stored :
        /\ status # None => dispute[d].status = status
        /\ booking # None => dispute[d].booking = booking
        /\ booking = None => dispute[d].booking \in ids}

\* Slip: a booking that is asked for is not held against the client and the provider.
getDisputesOfBooking(status, booking, client, provider) ==
    LET ids == BookingsFor(client, provider)
    IN IF (client # None \/ provider # None) /\ ids = {} THEN {}
       ELSE buildDisputeWhere(status, booking, ids)

getDisputes(status, booking, client, provider) ==
    LET ids == BookingsFor(client, provider)
    IN IF (client # None \/ provider # None)
          /\ (ids = {} \/ (booking # None /\ booking \notin ids)) THEN {}
       ELSE buildDisputeWhere(status, booking, ids)

-----------------------------------------------------------------------------
TypeOK ==
    /\ \A d \in Disputes :
         /\ dispute[d].status \in ALLOWED_STATUSES \cup {"none"}
         /\ dispute[d].booking \in Bookings \cup {None}
         /\ (dispute[d].booking = None) <=> (dispute[d].status = "none")
         /\ dispute[d].assignedTo \in Reviewers \cup {None}
         /\ dispute[d].refund \in Amounts
         /\ dispute[d].processed \in BOOLEAN
         /\ dispute[d].resolved \in BOOLEAN
    /\ \A m \in messages : m.dispute \in Stored /\ m.role \in {"client", "admin"}
    /\ reopened \subseteq Stored /\ centre \subseteq Stored

\* One request at a time, a booking has one dispute under way, unless a reviewer opened
\* an old one again.
OneOpenDispute ==
    \A b \in Bookings : Cardinality(OpenOf(b) \ reopened) <= 1

\* The date of the settlement says whether a dispute is settled, as long as the support
\* centre does not write its status.
SettledHasDate ==
    \A d \in Stored \ centre : dispute[d].resolved <=> dispute[d].status \notin Unsettled

\* A refund is marked as processed by a reviewer who gives its amount, never by the
\* support centre, and once marked it stays so.
MarksAsReviewer ==
    \A d \in Disputes :
          dispute'[d].processed # dispute[d].processed =>
             /\ dispute'[d].status = "refunded" /\ dispute'[d].refund = "some"
             /\ dispute'[d].resolved /\ d \notin centre'

\* The list is what the four conditions say, in whatever combination they come.
ListedAsAsked ==
    \A s \in Statuses \cup {None}, b \in Bookings \cup {None},
       c \in Clients \cup {None}, p \in Providers \cup {None} :
        getDisputes(s, b, c, p) =
            {d \in Stored : /\ s \in {None, dispute[d].status}
                            /\ b \in {None, dispute[d].booking}
                            /\ c \in {None, ClientOf[dispute[d].booking]}
                            /\ p \in {None} \cup ProvidersOf[dispute[d].booking]}

=============================================================================
