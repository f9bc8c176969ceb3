------------------------- MODULE MCBookingLifecycle -------------------------
(***************************************************************************)
(* Instances of BookingLifecycle for TLC.                                  *)
(***************************************************************************)
EXTENDS BookingLifecycle, TLC

CONSTANTS p1, p2, p3, h1, h2, r1, m1, t1

NoTeams == [t \in {} |-> <<>>]
OneTeam == [t \in Teams |-> <<p2, p1>>]

\* Requests that add and answer offers but never delete an assignment.
OfferKinds == {"short_notice", "short_notice_ops", "dispatch", "accept",
               "decline", "client_cancel", "ops_cancel", "mission"}

OfferSymmetry == Permutations(Providers) \cup Permutations(Handlers)

=============================================================================
