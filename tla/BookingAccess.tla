----------------------------- MODULE BookingAccess -----------------------------
(***************************************************************************)
(* Whose a booking is and who may read, list and cancel it                 *)
(* (bookings.service.ts, bookings.controller.ts): bookings made by users,  *)
(* guest drafts that an account claims later with a token, the list with   *)
(* its filters, and the checks of single bookings.                         *)
(*                                                                         *)
(* Seats are given and drafts leave that status as BookingLifecycle says;  *)
(* here both just happen.                                                  *)
(***************************************************************************)
EXTENDS Integers

CONSTANTS
    Users, Roles,        \* user |-> the set of their roles
    Profiles,            \* the users with a provider profile
    Companies, Associated, \* company |-> its owner and members
    Bookings, Tokens,    \* ids and guest tokens; bounds
    Workers,
    None

AccessAssumption ==
    /\ Roles \in [Users -> SUBSET {"client", "company", "provider", "employee", "admin"}]
    /\ Profiles \subseteq Users
    /\ Associated \in [Companies -> SUBSET Users]
    /\ None \notin Users \cup Companies \cup Tokens

VARIABLES
    booking,    \* id |-> the booking's row
    req,        \* worker |-> the claim it handles
    told        \* <<user, booking>>: the claims that were answered with success

vars == <<booking, req, told>>

Row == [status : {"none", "draft", "pending", "cancelled"},
        client : Users \cup {None}, company : Companies \cup {None},
        token : Tokens \cup {None}, providers : SUBSET Profiles, retries : 0..1]
NoRow == [status |-> "none", client |-> None, company |-> None, token |-> None,
          providers |-> {}, retries |-> 0]
Idle == [pc |-> "idle", user |-> None, booking |-> None]

Stored == {b \in Bookings : booking[b].status # "none"}

Init ==
    /\ booking = [b \in Bookings |-> NoRow]
    /\ req = [w \in Workers |-> Idle]
    /\ told = {}

-----------------------------------------------------------------------------
(***************************************************************************)
(* Access.                                                                 *)
(***************************************************************************)

isElevated(u) == Roles[u] \cap {"admin", "employee"} # {}
isProvider(u) == "provider" \in Roles[u]
isClient(u) == "client" \in Roles[u]
isCompany(u) == "company" \in Roles[u]

isCompanyAssociated(u, c) == c # None /\ u \in Associated[c]

\* Slip: a member of any company is taken for one of the booking's company.
assertBookingAccessAnyCompany(u, row, allowProvider) ==
    \/ isElevated(u)
    \/ row.client = u
    \/ allowProvider /\ isProvider(u) /\ u \in row.providers
    \/ isCompany(u) /\ row.company # None

assertBookingAccess(u, row, allowProvider) ==
    \/ isElevated(u)
    \/ row.client = u
    \/ allowProvider /\ isProvider(u) /\ u \in row.providers
    \/ isCompany(u) /\ isCompanyAssociated(u, row.company)

canCancelBooking(u, row, allowProvider) ==
    \/ isElevated(u)
    \/ /\ row.client = u \/ (isCompany(u) /\ row.company # None)
       /\ row.providers = {}
    \/ /\ ~(row.client = u \/ (isCompany(u) /\ row.company # None))
       /\ allowProvider /\ isProvider(u) /\ u \in row.providers

\* The where clause of the list; a user it has no condition for is refused.
buildAccessFilter(u) ==
    IF isElevated(u) THEN Stored
    ELSE {b \in Stored :
            \/ isClient(u) /\ booking[b].client = u
            \/ isCompany(u) /\ isCompanyAssociated(u, booking[b].company)
            \/ isProvider(u) /\ u \in booking[b].providers}

shouldHideDrafts(u) == isClient(u) \/ isCompany(u)

\* The filters of a query: each is a set of wanted values, all of them when the
\* query leaves the filter out.
Unfiltered == [status |-> {"draft", "pending", "cancelled"},
               hasProvider |-> BOOLEAN, minRetryCount |-> 0, client |-> Users \cup {None}]
Matches(row, f) ==
    /\ row.status \in f.status
    /\ (row.providers # {}) \in f.hasProvider
    /\ row.retries >= f.minRetryCount
    /\ row.client \in f.client

findAll(u, f) ==
    {b \in buildAccessFilter(u) :
        /\ shouldHideDrafts(u) => booking[b].status # "draft"
        /\ Matches(booking[b], f)}

findOne(u) == {b \in Stored : assertBookingAccess(u, booking[b], TRUE)}

-----------------------------------------------------------------------------
(***************************************************************************)
(* Creation.                                                               *)
(***************************************************************************)

resolveClientId(u, requested) ==
    IF requested # None /\ (isElevated(u) \/ isCompany(u)) THEN requested ELSE u

\* A paid booking is pending at once, one that waits for its deposit a draft.
createBookingRecord(b, client, company, token, status) ==
    /\ booking[b].status = "none"
    /\ booking' = [booking EXCEPT ![b] =
                     [NoRow EXCEPT !.status = status, !.client = client,
                                   !.company = company, !.token = token]]

create(u, b, requested, company, status) ==
    /\ Roles[u] \cap {"client", "company", "employee", "admin"} # {}
    /\ createBookingRecord(b, resolveClientId(u, requested), company, None, status)
    /\ UNCHANGED <<req, told>>

createGuestDraft(b, token, status) ==
    /\ createBookingRecord(b, None, None, token, status)
    /\ UNCHANGED <<req, told>>

-----------------------------------------------------------------------------
(***************************************************************************)
(* claimGuestBooking: the checks are made on what was read, the update is  *)
(* by id alone.                                                            *)
(***************************************************************************)

\* Slip: a token is compared only if the booking still has one, and the client is
\* not looked at.
MayClaimWithout(u, row, token) == row.token \in {None, token}

MayClaim(u, row, token) == row.client \in {None, u} /\ row.token = token

ClaimRead(w, u, b, token) ==
    /\ req[w].pc = "idle" /\ Roles[u] \cap {"client", "company"} # {}
    /\ b \in Stored /\ MayClaim(u, booking[b], token)
    /\ req' = [req EXCEPT ![w] = [pc |-> "read", user |-> u, booking |-> b]]
    /\ UNCHANGED <<booking, told>>

\* Slip: the token stays on the claimed booking.
ClaimWriteKeepsToken(w) ==
    /\ req[w].pc = "read"
    /\ booking' = [booking EXCEPT ![req[w].booking].client = req[w].user]
    /\ told' = told \cup {<<req[w].user, req[w].booking>>}
    /\ req' = [req EXCEPT ![w] = Idle]

ClaimWrite(w) ==
    /\ req[w].pc = "read"
    /\ booking' = [booking EXCEPT ![req[w].booking].client = req[w].user,
                                  ![req[w].booking].token = None]
    /\ told' = told \cup {<<req[w].user, req[w].booking>>}
    /\ req' = [req EXCEPT ![w] = Idle]

(***************************************************************************)
(* Changes.                                                                *)
(***************************************************************************)

\* What update lets only operators change: status, company and providers.
update(u, b, status, company, providers) ==
    /\ b \in Stored /\ isElevated(u)
    /\ assertBookingAccess(u, booking[b], FALSE)
    /\ booking' = [booking EXCEPT ![b].status = status, ![b].company = company,
                                  ![b].providers = providers]
    /\ UNCHANGED <<req, told>>

cancel(u, b, allowProvider) ==
    /\ b \in Stored
    /\ assertBookingAccess(u, booking[b], allowProvider)
    /\ canCancelBooking(u, booking[b], allowProvider)
    /\ booking[b].status # "cancelled"
    /\ booking' = [booking EXCEPT ![b].status = "cancelled"]
    /\ UNCHANGED <<req, told>>

Dispatch(b) ==
    /\ b \in Stored /\ booking[b].status = "draft"
    /\ booking' = [booking EXCEPT ![b].status = "pending"]
    /\ UNCHANGED <<req, told>>

Accept(b, p) ==
    /\ b \in Stored /\ booking[b].status = "pending" /\ p \in Profiles \ booking[b].providers
    /\ booking' = [booking EXCEPT ![b].providers = @ \cup {p}]
    /\ UNCHANGED <<req, told>>

Retried(b) ==
    /\ b \in Stored /\ booking[b].status = "pending" /\ booking[b].retries = 0
    /\ booking' = [booking EXCEPT ![b].retries = 1]
    /\ UNCHANGED <<req, told>>

Next ==
    \/ \E u \in Users, b \in Bookings :
        \/ \E r \in Users \cup {None}, c \in Companies \cup {None}, s \in {"draft", "pending"} :
             create(u, b, r, c, s)
        \/ \E s \in Unfiltered.status, c \in Companies \cup {None}, ps \in SUBSET Profiles :
             update(u, b, s, c, ps)
        \/ \E allowProvider \in BOOLEAN : cancel(u, b, allowProvider)
        \/ \E w \in Workers, t \in Tokens : ClaimRead(w, u, b, t)
    \/ \E b \in Bookings :
        \/ \E t \in Tokens, s \in {"draft", "pending"} : createGuestDraft(b, t, s)
        \/ Dispatch(b) \/ Retried(b)
        \/ \E p \in Profiles : Accept(b, p)
    \/ \E w \in Workers : ClaimWrite(w)

Spec == Init /\ [][Next]_vars

-----------------------------------------------------------------------------
TypeOK ==
    /\ booking \in [Bookings -> Row]
    /\ \A b \in Bookings : booking[b].token # None => booking[b].client = None
    /\ req \in [Workers -> [pc : {"idle", "read"}, user : Users \cup {None},
                            booking : Bookings \cup {None}]]
    /\ told \subseteq Users \X Bookings

\* The list and the single reads are written separately, one as a query and one
\* as code, and agree: what is listed can be opened, and what a user with the
\* client's or the company's role can open is listed, drafts excepted, unless it
\* is theirs through a role they do not have.
ListedAsReadable ==
    \A u \in Users :
        /\ findAll(u, Unfiltered) \subseteq findOne(u)
        /\ \A b \in findOne(u) \ findAll(u, Unfiltered) :
             \/ booking[b].status = "draft" /\ (isClient(u) \/ isCompany(u))
             \/ booking[b].client = u /\ ~isClient(u)

\* One claim at a time, an account that was told that it claimed a booking is the
\* only one that was, and keeps the booking.
ClaimedForGood ==
    \A u \in Users, b \in Bookings :
        <<u, b>> \in told => booking[b].client = u

=============================================================================
