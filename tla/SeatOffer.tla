------------------------------ MODULE SeatOffer ------------------------------
(***************************************************************************)
(* What the short-notice flow promises of one booking, as if every request *)
(* were one step: seats are taken one by one and never beyond Required, a  *)
(* provider is offered a seat once, and the acceptance that takes a seat   *)
(* ends every other pending offer.  BookingLifecycle implements it with    *)
(* requests that read, lock and write in separate steps.                   *)
(***************************************************************************)
EXTENDS Integers, FiniteSets

CONSTANTS Providers, Required

VARIABLES status, assigned, invitation

vars == <<status, assigned, invitation>>

Init ==
    /\ status = "NONE"
    /\ assigned = {}
    /\ invitation = [p \in Providers |-> "NONE"]

\* The booking is created, with the seats it was created with.
Open(seats) ==
    /\ status = "NONE"
    /\ Cardinality(seats) <= Required
    /\ assigned' = seats
    /\ status' \in {"DRAFT", "PENDING_PROVIDER", "PENDING_CLIENT"}
    /\ UNCHANGED invitation

\* Providers who never had an offer get one.
Offer(invited) ==
    /\ \A p \in invited : invitation[p] = "NONE"
    /\ invitation' = [p \in Providers |->
                        IF p \in invited THEN "PENDING" ELSE invitation[p]]
    /\ UNCHANGED <<status, assigned>>

TakeSeat(p) ==
    /\ invitation[p] = "PENDING"
    /\ p \notin assigned /\ Cardinality(assigned) < Required
    /\ status \in {"PENDING_PROVIDER", "PENDING_CLIENT"}
    /\ assigned' = assigned \cup {p}
    /\ status' = "PENDING_CLIENT"
    /\ invitation' = [q \in Providers |->
                        IF q = p THEN "ACCEPTED"
                        ELSE IF invitation[q] = "PENDING" THEN "EXPIRED"
                        ELSE invitation[q]]

Refuse(p) ==
    /\ invitation[p] # "NONE"
    /\ invitation' = [invitation EXCEPT ![p] = "DECLINED"]
    /\ UNCHANGED <<status, assigned>>

\* Activation after payment, a cancellation or a mission update: it moves the
\* status and touches neither the seats nor the offers.
Move ==
    /\ status # "NONE"
    /\ status' \in {"PENDING_PROVIDER", "CONFIRMED", "IN_PROGRESS",
                    "COMPLETED", "CANCELLED"}
    /\ UNCHANGED <<assigned, invitation>>

Next ==
    \/ \E S \in SUBSET Providers : Open(S) \/ Offer(S)
    \/ \E p \in Providers : TakeSeat(p) \/ Refuse(p)
    \/ Move

Spec == Init /\ [][Next]_vars

=============================================================================
