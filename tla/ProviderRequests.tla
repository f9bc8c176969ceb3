---------------------------- MODULE ProviderRequests ----------------------------
(***************************************************************************)
(* Requests to become a provider (provider-onboarding.service.ts): anyone  *)
(* files one; an approval makes the account of its address a provider's,   *)
(* step by step and outside of any transaction.                            *)
(***************************************************************************)
EXTENDS Integers, FiniteSets

CONSTANTS
    Requests, Emails, EmailOf, Types, TypeOf,   \* what is filed
    Workers, MaxReviews, MaxFaults,             \* bounds
    None

ProviderRequestsAssumption ==
    /\ EmailOf \in [Requests -> Emails] /\ TypeOf \in [Requests -> Types] /\ None \notin Types
    /\ MaxReviews \in Nat

VARIABLES
    status,     \* request |-> its status
    approved,   \* requests that were approved at some time
    roles,      \* address |-> the roles of its account, {} while there is none
    profile,    \* address |-> the type of its provider profile
    work,       \* worker |-> its review
    reviews,    \* that began
    failed      \* addresses a call failed for

vars == <<status, approved, roles, profile, work, reviews, failed>>

Roles == {"CLIENT", "ADMIN", "PROVIDER"}
Statuses == {"PENDING", "APPROVED", "REJECTED"}
Idle == [id |-> None, status |-> "none", ensure |-> FALSE, roles |-> {}, step |-> "none"]
Free(w) == work[w] = Idle
email(w) == EmailOf[work[w].id]

Init ==
    /\ status = [q \in Requests |-> "none"] /\ approved = {}
    /\ roles = [e \in Emails |-> {}] /\ profile = [e \in Emails |-> None]
    /\ work = [w \in Workers |-> Idle] /\ reviews = 0 /\ failed = {}

\* The mail with the check list is queued at best effort.
create(q) ==
    /\ status[q] = "none" /\ status' = [status EXCEPT ![q] = "PENDING"]
    /\ UNCHANGED <<approved, roles, profile, work, reviews, failed>>

\* Elsewhere: a client registers, the staff add a role.
register(e) ==
    /\ roles[e] = {} /\ roles' = [roles EXCEPT ![e] = {"CLIENT"}]
    /\ UNCHANGED <<status, approved, profile, work, reviews, failed>>
addRole(e) ==
    /\ roles[e] # {} /\ roles' = [roles EXCEPT ![e] = @ \cup {"ADMIN"}]
    /\ UNCHANGED <<status, approved, profile, work, reviews, failed>>

\* Slip: every review makes the account.
beginAnyVerdict(w, q, s) ==
    /\ Free(w) /\ status[q] # "none" /\ reviews < MaxReviews
    /\ work' = [work EXCEPT ![w] =
                  [id |-> q, status |-> s, roles |-> {}, step |-> "update",
                   ensure |-> status[q] # "APPROVED"]]
    /\ reviews' = reviews + 1
    /\ UNCHANGED <<status, approved, roles, profile, failed>>

\* Slip: only a pending request is made an account when approved.
beginPending(w, q, s) ==
    /\ Free(w) /\ status[q] # "none" /\ reviews < MaxReviews
    /\ work' = [work EXCEPT ![w] =
                  [id |-> q, status |-> s, roles |-> {}, step |-> "update",
                   ensure |-> s = "APPROVED" /\ status[q] = "PENDING"]]
    /\ reviews' = reviews + 1
    /\ UNCHANGED <<status, approved, roles, profile, failed>>

begin(w, q, s) ==
    /\ Free(w) /\ status[q] # "none" /\ reviews < MaxReviews
    /\ work' = [work EXCEPT ![w] =
                  [id |-> q, status |-> s, roles |-> {}, step |-> "update",
                   ensure |-> s = "APPROVED" /\ status[q] # "APPROVED"]]
    /\ reviews' = reviews + 1
    /\ UNCHANGED <<status, approved, roles, profile, failed>>

Then(w, next) == work' = [work EXCEPT ![w] = IF next = "end" THEN Idle ELSE [@ EXCEPT !.step = next]]

\* Any status can follow any other.
update(w) ==
    /\ work[w].step = "update"
    /\ status' = [status EXCEPT ![work[w].id] = work[w].status]
    /\ approved' = IF work[w].status = "APPROVED" THEN approved \cup {work[w].id} ELSE approved
    /\ Then(w, IF work[w].ensure THEN "findUser" ELSE "end")
    /\ UNCHANGED <<roles, profile, reviews, failed>>

\* Slip: no account is made.
findUserSkip(w) ==
    /\ work[w].step = "findUser"
    /\ work' = [work EXCEPT ![w].roles = roles[email(w)],
                            ![w].step = IF "CLIENT" \in roles[email(w)] THEN "updateUser"
                                        ELSE "findProfile"]
    /\ UNCHANGED <<status, approved, roles, profile, reviews, failed>>

findUser(w) ==
    /\ work[w].step = "findUser"
    /\ work' = [work EXCEPT ![w].roles = roles[email(w)],
                            ![w].step = IF roles[email(w)] = {} THEN "createUser"
                                        ELSE IF "PROVIDER" \in roles[email(w)] THEN "findProfile"
                                        ELSE "updateUser"]
    /\ UNCHANGED <<status, approved, roles, profile, reviews, failed>>

\* An address has one account: the second to create it fails, and its call with it.
createUser(w) ==
    /\ work[w].step = "createUser"
    /\ IF roles[email(w)] = {}
         THEN /\ roles' = [roles EXCEPT ![email(w)] = {"PROVIDER"}]
              /\ Then(w, "findProfile") /\ UNCHANGED failed
         ELSE /\ failed' = failed \cup {email(w)}
              /\ Then(w, "end") /\ UNCHANGED roles
    /\ UNCHANGED <<status, approved, profile, reviews>>

\* Slip: the role takes the place of the others.
NewRoles(read) == {"PROVIDER"}
\* The roles that were read, and this one; roles added since are lost.
WithProvider(read) == read \cup {"PROVIDER"}

updateUser(w) ==
    /\ work[w].step = "updateUser"
    /\ roles' = [roles EXCEPT ![email(w)] = WithProvider(work[w].roles)]
    /\ Then(w, "findProfile")
    /\ UNCHANGED <<status, approved, profile, reviews, failed>>

findProfile(w) ==
    /\ work[w].step = "findProfile"
    /\ Then(w, IF profile[email(w)] = None THEN "createProfile" ELSE "updateProfile")
    /\ UNCHANGED <<status, approved, roles, profile, reviews, failed>>

\* Slip: the type of the profile that is there stays.
TypeKept(w) == IF profile[email(w)] = None THEN TypeOf[work[w].id] ELSE profile[email(w)]
TypeWritten(w) == TypeOf[work[w].id]

createProfile(w) ==
    /\ work[w].step = "createProfile"
    /\ IF profile[email(w)] = None
         THEN /\ profile' = [profile EXCEPT ![email(w)] = TypeOf[work[w].id]] /\ UNCHANGED failed
         ELSE /\ failed' = failed \cup {email(w)} /\ UNCHANGED profile
    /\ Then(w, "end")
    /\ UNCHANGED <<status, approved, roles, reviews>>

updateProfile(w) ==
    /\ work[w].step = "updateProfile"
    /\ profile' = [profile EXCEPT ![email(w)] = TypeWritten(w)]
    /\ Then(w, "end")
    /\ UNCHANGED <<status, approved, roles, reviews, failed>>

\* The database or the process fails; what was written stays.
Fail(w) ==
    /\ ~Free(w) /\ Cardinality(failed) < MaxFaults
    /\ failed' = failed \cup {email(w)} /\ Then(w, "end")
    /\ UNCHANGED <<status, approved, roles, profile, reviews>>

Next ==
    \/ \E q \in Requests : create(q)
    \/ \E e \in Emails : register(e) \/ addRole(e)
    \/ \E w \in Workers :
         \/ \E q \in Requests, s \in Statuses : begin(w, q, s)
         \/ update(w) \/ findUser(w) \/ createUser(w) \/ updateUser(w)
         \/ findProfile(w) \/ createProfile(w) \/ updateProfile(w) \/ Fail(w)

Spec == Init /\ [][Next]_vars

-----------------------------------------------------------------------------
TypeOK ==
    /\ status \in [Requests -> Statuses \cup {"none"}] /\ approved \subseteq Requests
    /\ roles \in [Emails -> SUBSET Roles] /\ profile \in [Emails -> Types \cup {None}]
    /\ failed \subseteq Emails /\ reviews \in 0..MaxReviews
    /\ \A e \in Emails : profile[e] # None => roles[e] # {}

\* However reviews overlap and fail, a profile made here has the type of a request of its
\* address that was approved.
ProfileWasApproved ==
    \A e \in Emails : profile[e] # None =>
        \E q \in approved : EmailOf[q] = e /\ TypeOf[q] = profile[e]

\* Whoever was approved has an account with a profile when no review of the address is
\* under way and none failed (an approval is not made up for later: a request that is
\* approved already is left alone).
ApprovedHasAccount ==
    \A q \in approved :
        (EmailOf[q] \notin failed /\ \A w \in Workers : Free(w) \/ email(w) # EmailOf[q]) =>
            "PROVIDER" \in roles[EmailOf[q]] /\ profile[EmailOf[q]] # None

\* One call at a time, the last approval of an address decides the type of its profile,
\* and no role is lost.
WritesLastType ==
    \A w \in Workers : (work[w].ensure /\ work'[w] = Idle /\ email(w) \notin failed') =>
           profile'[email(w)] = TypeOf[work[w].id]
KeepsRoles ==
    \A e \in Emails : roles[e] \subseteq roles'[e]

=============================================================================
