------------------------------ MODULE MCAccounts ------------------------------
(***************************************************************************)
(* The modules about accounts, and the log of webhooks, side by side, on   *)
(* small instances.  They write rows of their own and call one another     *)
(* through none of them, so in a behaviour one part is at work and the     *)
(* others stay as they began; `alone` says whether requests come one at a  *)
(* time.                                                                   *)
(***************************************************************************)
EXTENDS Gdpr, TLC

CONSTANTS
    Emails, Tokens, Limit, Lifetime, SessionTime, MaxAttempts,             \* Sessions
    Users, RoleNames, MaxChanges, MaxWeeks,                                \* AdminUsers
    Numbers, Completed, MaxCalls, MaxCodes,                                \* Onboarding
    Docs, Reviewers, Builtin, Customs, DocLimit, MaxUploads,               \* Identity
    Filed, EmailOf, ProviderTypes, TypeOf, MaxReviews,                     \* ProviderRequests
    Hooks, Backlogs, DayPayments, Window1h, HookTime, HookFaults           \* Observability

VARIABLES
    part, alone,
    user, token, rows, audit, sessionNow, login, died,                  \* Sessions
    account, roleLog, change, edited, week,                             \* AdminUsers
    done, stage, phone, pending, delivered, codes, checkouts, late,     \* Onboarding
    call, wasComplete, behind, used,
    docs, idStatus, types, upload, committed, logged, undone, workflow, calls, mishaps,   \* Identity
    status, approved, roles, profile, review, reviews, failed,          \* ProviderRequests
    hookStep, hookLog, handled, answered, config, load, hookMisses, hookNow     \* Observability

Sessions == INSTANCE Sessions WITH MaxTime <- SessionTime, now <- sessionNow, req <- login
AdminUsers == INSTANCE AdminUsers WITH
    RoleLists <- {<<r>> : r \in RoleNames}, WEEKS <- 1, MaxTime <- MaxWeeks, MaxLog <- MaxChanges,
    user <- account, log <- roleLog, req <- change, now <- week
Checklist == INSTANCE Onboarding WITH
    Starts <- {Completed[k] : k \in DOMAIN Completed}, work <- call
Verification == INSTANCE Identity WITH
    Limit <- DocLimit, MaxCalls <- MaxUploads, work <- upload, used <- calls, faults <- mishaps
Approvals == INSTANCE ProviderRequests WITH
    Requests <- Filed, Types <- ProviderTypes, work <- review
Webhooks == INSTANCE Observability WITH
    Payments <- DayPayments, MaxTime <- HookTime, MaxFaults <- HookFaults,
    step <- hookStep, log <- hookLog, faults <- hookMisses, now <- hookNow

ASSUME AccountsAssumption ==
       /\ Sessions!SessionsAssumption /\ AdminUsers!AdminUsersAssumption
       /\ Checklist!OnboardingAssumption /\ Verification!IdentityAssumption
       /\ Approvals!ProviderRequestsAssumption /\ GdprAssumption /\ Webhooks!ObservabilityAssumption

sessions == <<user, token, rows, audit, sessionNow, login, died>>
users == <<account, roleLog, change, edited, week>>
onboarding == <<done, stage, phone, pending, delivered, codes, checkouts, late, call,
                wasComplete, behind, used>>
identity == <<docs, idStatus, types, upload, committed, logged, undone, workflow, calls, mishaps>>
requests == <<status, approved, roles, profile, review, reviews, failed>>
system == <<hookStep, hookLog, handled, answered, config, load, hookMisses, hookNow>>
all == <<part, alone, sessions, users, onboarding, identity, requests, vars, system>>

\* Every part begins as it may; the parts of a component differ in the bounds below.
InitAll ==
    /\ part \in {"sessions", "users", "checklist", "phones", "stages", "onfido", "staff",
                 "requests", "gdpr", "exports", "webhooks", "pages"}
    /\ alone \in BOOLEAN /\ (part = "stages" => alone)
    /\ alone => part \notin {"checklist", "phones", "onfido", "exports", "webhooks", "pages"}
    /\ Sessions!Init /\ AdminUsers!Init /\ Checklist!Init /\ Verification!Init
    /\ Approvals!Init /\ Init /\ Webhooks!Init
    /\ done = Completed[IF part \in DOMAIN Completed THEN part ELSE "checklist"]
    /\ workflow = (part # "staff")
    /\ part # "pages" => config \subseteq IF part = "webhooks" THEN {"mollieApiKey"} ELSE {}

\* Bound: requests that overlap are served while the clock stands still, with an id to spare.
SessionsNext ==
    /\ part = "sessions" /\ UNCHANGED <<part, alone, users, onboarding, identity, requests, vars, system>>
    /\ IF alone THEN Sessions!Serial
       ELSE Sessions!Next /\ UNCHANGED sessionNow /\ Len(rows') < Cardinality(Tokens)
UsersNext ==
    /\ part = "users" /\ UNCHANGED <<part, alone, sessions, onboarding, identity, requests, vars, system>>
    /\ IF alone THEN AdminUsers!Serial ELSE AdminUsers!Next
\* Calls may overlap with no code sent, codes with fewer calls; alone, there are calls for
\* the whole list.
OnboardingNext ==
    /\ part \in {"checklist", "phones", "stages"} /\ Checklist!Next
    /\ IF part = "phones" THEN used' <= 3 ELSE codes' = 0
    /\ part = "checklist" => used' <= 4
    /\ alone => \A v, w \in Workers : call'[v] # Checklist!Free /\ call'[w] # Checklist!Free => v = w
    /\ UNCHANGED <<part, alone, sessions, users, identity, requests, vars, system>>
\* With Onfido no kinds of document are made.
IdentityNext ==
    /\ part \in {"onfido", "staff"} /\ Verification!Next
    /\ part = "onfido" => types' = types
    /\ alone => \A v, w \in Workers :
                   upload'[v] # Verification!Free /\ upload'[w] # Verification!Free => v = w
    /\ UNCHANGED <<part, alone, sessions, users, onboarding, requests, vars, system>>
\* Alone, the role of an address does not change during a review either.
RequestsNext ==
    /\ part = "requests" /\ Approvals!Next
    /\ alone => /\ \A v, w \in Workers : review'[v] # Approvals!Idle /\ review'[w] # Approvals!Idle => v = w
                /\ (\E w \in Workers : ~Approvals!Free(w)) => roles' = roles \/ review' # review
    /\ UNCHANGED <<part, alone, sessions, users, onboarding, identity, vars, system>>
\* Exports are followed for longer, without a clock.
GdprNext ==
    /\ part \in {"gdpr", "exports"} /\ Next
    /\ IF part = "exports" THEN now' = 0 /\ \A q \in Requests \ Exports : request'[q].status = "none"
       ELSE \A q \in Requests : Len(log'[q]) + Cardinality({w \in Workers : work'[w].id = q}) <= 3
    /\ alone => Alone'
    /\ UNCHANGED <<part, alone, sessions, users, onboarding, identity, requests, system>>
\* Webhooks without payments and long queues, or one webhook that never fails with them.
SystemNext ==
    /\ part \in {"webhooks", "pages"} /\ Webhooks!Next
    /\ IF part = "webhooks" THEN load'.payments = 0 /\ {load'.pendingEmails, load'.stuckBookings} \subseteq 0..11
       ELSE /\ hookNow' = 0 /\ hookMisses' = 0
            /\ \E h \in Hooks : \A g \in Hooks \ {h} : hookStep'[g] = "new"
    /\ UNCHANGED <<part, alone, sessions, users, onboarding, identity, requests, vars>>

NextAll == \/ SessionsNext \/ UsersNext \/ OnboardingNext \/ IdentityNext \/ RequestsNext
           \/ GdprNext \/ SystemNext
SpecAll == InitAll /\ [][NextAll]_all

\* The values of the run: what a provider of each part has completed, two requests of one address.
CompletedTasks ==
    [checklist |-> {"phone", "identity", "profile", "pricing", "welcome_session", "payments"},
     phones |-> {"identity", "address", "profile", "welcome_session", "payments", "id_check", "signup_fee"},
     stages |-> {"phone", "identity", "profile", "pricing", "welcome_session", "payments", "signup_fee"}]
OneAddress == [q \in Filed |-> CHOOSE e \in Emails : TRUE]
KindOf == [q \in Filed |-> IF q = "alone" THEN "FREELANCER" ELSE "COMPANY"]
Symmetry == Permutations(Workers) \cup Permutations(Tokens)

-----------------------------------------------------------------------------
\* Sessions: however logins of one account interleave, once they are answered only its
\* newest sessions are live, attempts and sessions tell the same, and first logins that race
\* welcome an account once; requests one at a time exchange a refresh token once, for one of
\* its account.  AdminUsers: the role a user has is that of an entry of the log, changes one
\* at a time leave entries that form a chain to it, and the lists and figures of accounts
\* agree with the statuses shown.
AccountsSound ==
    /\ part = "sessions" =>
         /\ Sessions!TypeOK /\ Sessions!LimitKept /\ Sessions!AttemptsAndSessions
         /\ Sessions!ListedAsShown /\ Sessions!WelcomedOnce /\ (alone => Sessions!RotatedOnce)
    /\ part = "users" =>
         /\ AdminUsers!TypeOK /\ AdminUsers!RolesAreLogged /\ (alone => AdminUsers!LogIsChain)
         /\ AdminUsers!StatusFilters /\ AdminUsers!ProvidersAddUp

\* Onboarding: whoever is ready had the whole list completed at some time, after the fee is
\* paid only calls that had read the profile before check out, the number of an account
\* received the code that was entered; calls one at a time, the stage is the one of the
\* profile.
ChecklistSound ==
    /\ Checklist!TypeOK /\ Checklist!ReadyWasComplete /\ Checklist!LateCheckoutsBounded
    /\ Checklist!PhoneProven /\ (alone => Checklist!StageCurrent)
\* Identity: a document that names its reviewer is under review, uploads at the same time
\* pass the limit and late ones take back verdicts by no more than there are, the audit log
\* differs by calls under way or cut short; calls one at a time and without Onfido, none is
\* taken back, and a date of verification means verified.
IdentitySound ==
    /\ Verification!TypeOK /\ Verification!NamedMeansUnderReview
    /\ Verification!DocumentsBounded /\ Verification!LogTellsTruth
    /\ Verification!VerdictsTakenBackBounded
    /\ alone => undone = 0 /\ Verification!DateMeansVerified
\* ProviderRequests: a profile has the type of an approved request of its address, and
\* whoever was approved has one.
ApprovalsSound ==
    Approvals!TypeOK /\ Approvals!ProfileWasApproved /\ Approvals!ApprovedHasAccount

\* Overlapping calls lose no step of the list, and an archived kind of document is never
\* accepted again; calls one at a time, the last approval decides the type and no role is
\* lost.
KeepsWhatWasDone ==
    /\ part \in {"checklist", "phones", "stages"} => Checklist!KeepsSteps
    /\ part \in {"onfido", "staff"} => Verification!KeepsArchived
    /\ part = "requests" /\ alone => Approvals!WritesLastType /\ Approvals!KeepsRoles

\* The way of a provider to its first mission: the check list, the identity, the approval.
ProvidersSound ==
    /\ [](/\ part \in {"checklist", "phones", "stages"} => ChecklistSound
          /\ part \in {"onfido", "staff"} => IdentitySound
          /\ part = "requests" => ApprovalsSound)
    /\ [][KeepsWhatWasDone]_all

\* Gdpr, with LogTellsStatus: bundles are bounded by the calls at a time and those that
\* failed, an account is told of nothing that was not recorded, a bundle that the list
\* offers is served, and the other way round; decisions one at a time, a settled request
\* stays settled and its status is the last that the account was told.
DecisionsSound ==
    /\ [](
        part \in {"gdpr", "exports"} =>
            TypeOK /\ ToldWhatHappened /\ OfferedIsServed /\ BundlesBounded /\ (alone => ToldTheStatus))
    /\ [][alone => KeepsSettled]_all

\* Observability: the log of webhooks never claims more than what happened; unless a call
\* failed, a webhook is marked as what it was answered; one that failed within the hour
\* shows in the health of the system; a row marked as processed or failed keeps its mark;
\* health, integrations and flags agree.
WebhooksSound ==
    /\ [](
        part \in {"webhooks", "pages"} =>
            /\ Webhooks!TypeOK /\ Webhooks!LogTellsTruth /\ Webhooks!AnswerAgreesWithLog
            /\ Webhooks!FailureShows /\ Webhooks!PagesAgree)
    /\ [][Webhooks!KeepsMarks]_all

=============================================================================
