-------------------------- MODULE BookingLifecycle --------------------------
(***************************************************************************)
(* One booking row of bookings.service.ts and provider.service.ts: how it  *)
(* is created, offered to providers (short notice), accepted, declined,    *)
(* cancelled, re-matched by the cron jobs, reassigned and updated by Ops.  *)
(*                                                                         *)
(* Every handler reads the booking in one statement and writes it in a     *)
(* later one, so a request is a record in req with a phase; the database   *)
(* is PostgreSQL at READ COMMITTED.  Only the row locks that decide an     *)
(* order are kept:                                                         *)
(*   accept_locked     SELECT .. FOR UPDATE on the Booking row is held;    *)
(*   reassign_inserted the assignment rows are inserted, their foreign key *)
(*                     holds FOR KEY SHARE on the Booking row.             *)
(* A booking.update conflicts with FOR UPDATE and not with KEY SHARE.      *)
(* A transaction that an error, a deadlock or a restart ends is Crash: it  *)
(* rolls back and the request is gone.                                     *)
(***************************************************************************)
EXTENDS Integers, FiniteSets, Sequences

CONSTANTS
    Providers,    \* provider profiles
    PayoutReady,  \* the providers whose payoutReady flag is set
    Required,     \* booking.requiredProviders
    Teams,        \* provider teams that matchTeam may propose as fallback
    TeamMembers,  \* team |-> its members, in orderIndex order
    Handlers,     \* HTTP requests and webhooks served at the same time
    RetryJobs,    \* running copies of retryPendingProviderAssignments
    PromoteJobs,  \* running copies of promoteConfirmedLocksJob
    Kinds,        \* the kinds of request that arrive
    OpsStatuses,  \* the statuses an Ops update or a mission update asks for
    NoProvider, NoTeam,
    MaxCrashes,   \* bound: requests that die half way
    RetryCap      \* bound: matchingRetryCount is only told apart up to here

MAX_MATCHING_RETRY_ATTEMPTS == 3

BookingStatus == {"DRAFT", "PENDING_PROVIDER", "PENDING_CLIENT", "CONFIRMED",
                  "IN_PROGRESS", "COMPLETED", "CANCELLED", "DISPUTED"}

AllKinds == {"short_notice", "short_notice_ops", "smart", "manual",
             "dispatch", "accept", "decline", "client_cancel", "ops_cancel",
             "mission", "update", "mode", "fallback"}

ASSUME ConstantsAssumption ==
    /\ IsFiniteSet(Providers)
    /\ PayoutReady \subseteq Providers
    /\ Required \in Nat \ {0}
    /\ TeamMembers \in [Teams -> Seq(Providers)]
    /\ NoProvider \notin Providers
    /\ NoTeam \notin Teams
    /\ Kinds \subseteq AllKinds
    /\ OpsStatuses \subseteq BookingStatus
    /\ MaxCrashes \in Nat
    /\ RetryCap \in Nat /\ RetryCap >= MAX_MATCHING_RETRY_ATTEMPTS

Workers == Handlers \cup RetryJobs \cup PromoteJobs

PROVIDER_ALLOWED_STATUSES ==
    {"CONFIRMED", "IN_PROGRESS", "COMPLETED", "CANCELLED"}

InvitationStatus == {"NONE", "PENDING", "ACCEPTED", "DECLINED", "EXPIRED"}

VARIABLES
    status,      \* booking.status, NONE before the booking exists
    profile,     \* shortNotice, mode is SMART_MATCH, preferredTeamId is set
    past,        \* startAt is in the past
    assigned,    \* committed BookingAssignment rows, by provider
    invitation,  \* BookingInvitation rows, by provider
    retry,       \* matchingRetryCount and the three fallback columns
    req,         \* the request each worker is serving
    crashes

booking == <<status, profile, past, assigned, invitation, retry>>
vars == <<status, profile, past, assigned, invitation, retry, req, crashes>>

(***************************************************************************)
(* A request in flight: its phase, the acting provider, the set of         *)
(* providers it will assign or invite, the assignment rows it saw, the     *)
(* rows its DELETE removes at commit, the status it read (or will write)   *)
(* and the fallback columns it read.                                       *)
(***************************************************************************)
Phases == {"idle", "dispatch_read", "dispatch_matched", "dispatch_invited",
           "accept_read", "accept_locked", "client_cancel", "ops_cancel",
           "mission_read", "update_read", "reassign_planned",
           "reassign_deleting", "reassign_inserted", "retry_failed",
           "retry_escalate"}

Idle == [pc |-> "idle", prov |-> NoProvider, plan |-> {}, known |-> {},
         doomed |-> {}, seen |-> "NONE", asked |-> FALSE, team |-> NoTeam]

\* A request that writes for a provider, or a status it was given, has one.
Request ==
    {r \in [pc : Phases, prov : Providers \cup {NoProvider},
            plan : SUBSET Providers, known : SUBSET Providers,
            doomed : SUBSET Providers, seen : BookingStatus \cup {"NONE"},
            asked : BOOLEAN, team : Teams \cup {NoTeam}] :
        /\ r.pc \in {"accept_read", "accept_locked"} => r.prov \in Providers
        /\ r.pc = "mission_read" => r.seen \in BookingStatus}

NoRetry == [count |-> 0, requested |-> FALSE, escalated |-> FALSE,
            candidate |-> NoTeam]

Init ==
    /\ status = "NONE"
    /\ profile = [shortNotice |-> FALSE, smart |-> FALSE, preferred |-> FALSE]
    /\ past = FALSE
    /\ assigned = {}
    /\ invitation = [p \in Providers |-> "NONE"]
    /\ retry = NoRetry
    /\ req = [w \in Workers |-> Idle]
    /\ crashes = 0

(***************************************************************************)
(* Request bookkeeping and row locks.                                      *)
(***************************************************************************)
IdleAt(w) == req[w].pc = "idle"
Exists == status # "NONE"
Arrives(w, kind) == w \in Handlers /\ IdleAt(w) /\ kind \in Kinds
Become(w, r) == req' = [req EXCEPT ![w] = r]
Finish(w) == Become(w, Idle)

\* Slip: writers do not wait for the row lock.
RowNeverLocked(w) == w \in Workers

\* No other transaction holds FOR UPDATE on the Booking row.
RowFree(w) == \A v \in Workers \ {w} : req[v].pc # "accept_locked"

\* The transactions of others whose assignment rows are written, not committed.
Uncommitted(w) == {v \in Workers \ {w} : req[v].pc = "reassign_inserted"}

(***************************************************************************)
(* create and createGuestDraft.                                            *)
(***************************************************************************)

\* buildAssignmentPlan: a team or a chosen list fills every seat, matching may
\* return fewer providers than required, or none.
AssignmentPlans(preferred) ==
    {S \in SUBSET Providers :
        IF preferred THEN Cardinality(S) = Required
                     ELSE Cardinality(S) <= Required}

\* Slip: the domain value is stored, toPrismaStatus is forgotten.
InitialStatusUnmapped(smart, plan) ==
    IF plan # {} THEN "pending_client" ELSE "pending_provider"

resolveInitialStatus(smart, plan) ==
    IF plan # {} THEN "PENDING_CLIENT"
    ELSE IF smart THEN "PENDING_PROVIDER" ELSE "DRAFT"

CreatePlanned(w, kind, preferred, plan) ==
    /\ Arrives(w, kind) /\ kind \in {"smart", "manual"}
    /\ ~Exists
    /\ plan \in AssignmentPlans(preferred)
    /\ kind = "manual" /\ plan # {} => Cardinality(plan) = Required
    /\ profile' = [shortNotice |-> FALSE, smart |-> kind = "smart",
                   preferred |-> preferred]
    /\ status' = resolveInitialStatus(kind = "smart", plan)
    /\ assigned' = plan
    /\ UNCHANGED <<past, invitation, retry, req, crashes>>

\* A client's short-notice booking waits in DRAFT for its payment.
CreateShortNotice(w) ==
    /\ Arrives(w, "short_notice")
    /\ ~Exists
    /\ profile' = [shortNotice |-> TRUE, smart |-> TRUE, preferred |-> FALSE]
    /\ status' = "DRAFT"
    /\ UNCHANGED <<past, assigned, invitation, retry, req, crashes>>

\* Ops' one is offered at once: the request goes on to handleShortNoticeWorkflow.
CreateShortNoticeByOps(w, plan) ==
    /\ Arrives(w, "short_notice_ops")
    /\ ~Exists
    /\ profile' = [shortNotice |-> TRUE, smart |-> TRUE, preferred |-> FALSE]
    /\ status' = resolveInitialStatus(TRUE, {})
    /\ Become(w, [Idle EXCEPT !.pc = "dispatch_matched", !.plan = plan,
                              !.seen = "PENDING_PROVIDER"])
    /\ UNCHANGED <<past, assigned, invitation, retry, crashes>>

(***************************************************************************)
(* dispatchShortNoticeBookingAfterPayment and handleShortNoticeWorkflow,   *)
(* once per paid webhook, duplicates included.                             *)
(***************************************************************************)
DispatchRead(w) ==
    /\ Arrives(w, "dispatch")
    /\ Exists /\ profile.shortNotice
    /\ Become(w, [Idle EXCEPT !.pc = "dispatch_read", !.seen = status])
    /\ UNCHANGED <<booking, crashes>>

DispatchMatch(w, plan) ==
    /\ req[w].pc = "dispatch_read"
    /\ \A p \in Providers : invitation[p] = "NONE"
    /\ Become(w, [req[w] EXCEPT !.pc = "dispatch_matched", !.plan = plan])
    /\ UNCHANGED <<booking, crashes>>

DispatchSkip(w) ==
    /\ req[w].pc = "dispatch_read"
    /\ \E p \in Providers : invitation[p] # "NONE"
    /\ Finish(w)
    /\ UNCHANGED <<booking, crashes>>

\* Slip: an upsert in place of skipDuplicates.
DispatchInviteAgain(w) ==
    /\ req[w].pc = "dispatch_matched"
    /\ invitation' = [p \in Providers |->
            IF p \in req[w].plan THEN "PENDING" ELSE invitation[p]]
    /\ Become(w, [req[w] EXCEPT !.pc = "dispatch_invited"])
    /\ UNCHANGED <<status, profile, past, assigned, retry, crashes>>

\* createMany with skipDuplicates; the rows' foreign key waits for FOR UPDATE.
DispatchInvite(w) ==
    /\ req[w].pc = "dispatch_matched"
    /\ req[w].plan # {} => RowFree(w)
    /\ invitation' = [p \in Providers |->
            IF p \in req[w].plan /\ invitation[p] = "NONE"
            THEN "PENDING" ELSE invitation[p]]
    /\ Become(w, [req[w] EXCEPT !.pc = "dispatch_invited"])
    /\ UNCHANGED <<status, profile, past, assigned, retry, crashes>>

\* Slip: the booking is activated only when somebody could be invited.
DispatchActivateIfInvited(w) ==
    /\ req[w].pc = "dispatch_invited"
    /\ IF req[w].seen = "DRAFT" /\ req[w].plan # {}
       THEN RowFree(w) /\ status' = "PENDING_PROVIDER"
       ELSE UNCHANGED status
    /\ Finish(w)
    /\ UNCHANGED <<profile, past, assigned, invitation, retry, crashes>>

\* The DRAFT of the first read decides; the status of now is not looked at.
DispatchActivate(w) ==
    /\ req[w].pc = "dispatch_invited"
    /\ IF req[w].seen = "DRAFT"
       THEN RowFree(w) /\ status' = "PENDING_PROVIDER"
       ELSE UNCHANGED status
    /\ Finish(w)
    /\ UNCHANGED <<profile, past, assigned, invitation, retry, crashes>>

(***************************************************************************)
(* acceptShortNoticeInvitation: read the invitation, lock the row, check   *)
(* under the lock, then write and commit.                                  *)
(***************************************************************************)
AcceptRead(w, p) ==
    /\ Arrives(w, "accept")
    /\ p \in PayoutReady
    /\ invitation[p] = "PENDING"
    /\ Become(w, [Idle EXCEPT !.pc = "accept_read", !.prov = p])
    /\ UNCHANGED <<booking, crashes>>

\* Slip: off by one in the seat count.
SeatOpenOffByOne ==
    /\ Cardinality(assigned) <= Required
    /\ status \in {"PENDING_PROVIDER", "PENDING_CLIENT"}

\* What the transaction checks of the booking it re-reads under the lock.
SeatOpen ==
    /\ Cardinality(assigned) < Required
    /\ status \in {"PENDING_PROVIDER", "PENDING_CLIENT"}

AcceptLock(w) ==
    /\ req[w].pc = "accept_read"
    /\ RowFree(w) /\ Uncommitted(w) = {}
    /\ Become(w, IF SeatOpen THEN [req[w] EXCEPT !.pc = "accept_locked"]
                             ELSE Idle)
    /\ UNCHANGED <<booking, crashes>>

\* Slip: the invitation is updated by id alone, without status: PENDING.
AcceptCommitUnchecked(w) ==
    LET p == req[w].prov IN
    /\ req[w].pc = "accept_locked"
    /\ p \notin assigned
    /\ invitation' = [q \in Providers |->
            IF q = p THEN "ACCEPTED"
            ELSE IF invitation[q] = "PENDING" THEN "EXPIRED"
            ELSE invitation[q]]
    /\ assigned' = assigned \cup {p}
    /\ status' = "PENDING_CLIENT"
    /\ Finish(w)
    /\ UNCHANGED <<profile, past, retry, crashes>>

AcceptCommit(w) ==
    LET p == req[w].prov IN
    /\ req[w].pc = "accept_locked"
    /\ invitation[p] = "PENDING" /\ p \notin assigned
    /\ invitation' = [q \in Providers |->
            IF q = p THEN "ACCEPTED"
            ELSE IF invitation[q] = "PENDING" THEN "EXPIRED"
            ELSE invitation[q]]
    /\ assigned' = assigned \cup {p}
    /\ status' = "PENDING_CLIENT"
    /\ Finish(w)
    /\ UNCHANGED <<profile, past, retry, crashes>>

\* updateMany matched no row, or the assignment breaks its unique key.
AcceptRefused(w) ==
    /\ req[w].pc = "accept_locked"
    /\ invitation[req[w].prov] # "PENDING" \/ req[w].prov \in assigned
    /\ Finish(w)
    /\ UNCHANGED <<booking, crashes>>

\* declineShortNoticeInvitation: one update, whatever the invitation says.
Decline(p) ==
    /\ "decline" \in Kinds
    /\ invitation[p] # "NONE"
    /\ invitation' = [invitation EXCEPT ![p] = "DECLINED"]
    /\ UNCHANGED <<status, profile, past, assigned, retry, req, crashes>>

(***************************************************************************)
(* cancel, cancelMission and updateMission: checked on what was read, then *)
(* written unconditionally.                                                *)
(***************************************************************************)
ClientCancelRead(w) ==
    /\ Arrives(w, "client_cancel")
    /\ Exists /\ assigned = {} /\ status # "CANCELLED"
    /\ Become(w, [Idle EXCEPT !.pc = "client_cancel"])
    /\ UNCHANGED <<booking, crashes>>

OpsCancelRead(w) ==
    /\ Arrives(w, "ops_cancel")
    /\ Exists /\ status # "CANCELLED"
    /\ Become(w, [Idle EXCEPT !.pc = "ops_cancel"])
    /\ UNCHANGED <<booking, crashes>>

\* cancelMission, by an assigned provider.
MissionCancelRead(w) ==
    /\ Arrives(w, "mission")
    /\ assigned # {} /\ status # "CANCELLED"
    /\ Become(w, [Idle EXCEPT !.pc = "ops_cancel"])
    /\ UNCHANGED <<booking, crashes>>

\* Slip: cancelling also deletes the assignments.
CancelWriteAndUnassign(w) ==
    /\ req[w].pc \in {"client_cancel", "ops_cancel"}
    /\ RowFree(w)
    /\ status' = "CANCELLED"
    /\ assigned' = {}
    /\ Finish(w)
    /\ UNCHANGED <<profile, past, invitation, retry, crashes>>

CancelWrite(w) ==
    /\ req[w].pc \in {"client_cancel", "ops_cancel"}
    /\ RowFree(w)
    /\ status' = "CANCELLED"
    /\ Finish(w)
    /\ UNCHANGED <<profile, past, assigned, invitation, retry, crashes>>

MissionRead(w, p, s) ==
    /\ Arrives(w, "mission")
    /\ p \in assigned
    /\ s \in PROVIDER_ALLOWED_STATUSES \cap OpsStatuses /\ s # status
    /\ s \in {"CONFIRMED", "IN_PROGRESS"} => p \in PayoutReady
    /\ Become(w, [Idle EXCEPT !.pc = "mission_read", !.prov = p, !.seen = s])
    /\ UNCHANGED <<booking, crashes>>

MissionWrite(w) ==
    /\ req[w].pc = "mission_read"
    /\ RowFree(w)
    /\ status' = req[w].seen
    /\ Finish(w)
    /\ UNCHANGED <<profile, past, assigned, invitation, retry, crashes>>

(***************************************************************************)
(* update: one transaction whose first write, booking.update, locks the    *)
(* row.  With providerIds, the providers to add are those the first read   *)
(* did not show and the rows to delete those outside the list now.         *)
(***************************************************************************)

\* Rows that are gone at commit are no longer there for other DELETEs to remove.
Committed(w, gone) ==
    req' = [v \in Workers |->
              IF v = w THEN Idle
              ELSE [req[v] EXCEPT !.doomed = @ \ gone]]

\* Ops sends providerIds; s is NONE when the status is left out.
UpdateRead(w, targets, s) ==
    /\ Arrives(w, "update")
    /\ Exists
    /\ Become(w, [Idle EXCEPT !.pc = "update_read", !.plan = targets,
                              !.known = assigned, !.seen = s])
    /\ UNCHANGED <<booking, crashes>>

UpdateWrite(w) ==
    LET targets == req[w].plan
        added   == targets \ req[w].known
        removed == assigned \ targets
    IN
    /\ req[w].pc = "update_read"
    /\ RowFree(w)
    /\ \A v \in Uncommitted(w) : /\ req[v].plan \cap added = {}
                                 /\ req[v].doomed \cap removed = {}
    /\ IF added \cap assigned # {}
       THEN Finish(w) /\ UNCHANGED <<status, assigned>>
       ELSE /\ status' = IF req[w].seen = "NONE" THEN status ELSE req[w].seen
            /\ assigned' = (assigned \ removed) \cup added
            /\ Committed(w, removed)
    /\ UNCHANGED <<profile, past, invitation, retry, crashes>>

\* Ops sends a status and no providerIds: nothing it read decides the write.
UpdateStatus(w, s) ==
    /\ Arrives(w, "update")
    /\ Exists /\ RowFree(w)
    /\ status' = s
    /\ UNCHANGED <<profile, past, assigned, invitation, retry, req, crashes>>

\* The client sends a mode or moves startAt: both are written as they come.
UpdateMode(w) ==
    /\ Arrives(w, "mode")
    /\ Exists /\ RowFree(w)
    /\ profile' = [profile EXCEPT !.smart = ~@]
    /\ UNCHANGED <<status, past, assigned, invitation, retry, req, crashes>>

UpdateStart(w) ==
    /\ Arrives(w, "mode")
    /\ Exists /\ RowFree(w)
    /\ past
    /\ past' = FALSE
    /\ UNCHANGED <<status, profile, assigned, invitation, retry, req, crashes>>

(***************************************************************************)
(* The transaction that retrySmartMatching, promoteLocksForBooking and     *)
(* assignFallbackTeam share: DELETE every assignment row of the booking    *)
(* (those its snapshot shows), INSERT the plan, UPDATE the booking.        *)
(***************************************************************************)
ReassignPlanned(w, plan) ==
    Become(w, [Idle EXCEPT !.pc = "reassign_planned", !.plan = plan])

\* retrySmartMatching finds providers.
RetryMatched(w, plan) ==
    /\ w \in RetryJobs /\ IdleAt(w)
    /\ status = "PENDING_PROVIDER" /\ profile.smart /\ ~past
    /\ assigned = {}
    /\ plan # {} /\ plan \in AssignmentPlans(profile.preferred)
    /\ ReassignPlanned(w, plan)
    /\ UNCHANGED <<booking, crashes>>

\* It finds none.  With a preferred team buildAssignmentPlan throws instead and
\* the job only logs, so that case changes nothing.
RetryUnmatched(w) ==
    /\ w \in RetryJobs /\ IdleAt(w)
    /\ status = "PENDING_PROVIDER" /\ profile.smart /\ ~past
    /\ assigned = {} /\ ~profile.preferred
    /\ Become(w, [Idle EXCEPT !.pc = "retry_failed", !.asked = retry.requested,
                              !.team = retry.candidate])
    /\ UNCHANGED <<booking, crashes>>

\* Slip: the third failure is expected to be the one that escalates.
ExhaustedExactly(count) ==
    count = MAX_MATCHING_RETRY_ATTEMPTS /\ ~retry.escalated

Exhausted(count) ==
    count >= MAX_MATCHING_RETRY_ATTEMPTS /\ ~retry.escalated

\* handleRetryFailure: an atomic increment; the columns that were null when the
\* job read the booking are filled, and the new count decides what follows.
\* matchTeam proposes no team for a booking that one provider can serve.
RetryCount(w, match) ==
    LET count == IF retry.count < RetryCap THEN retry.count + 1 ELSE RetryCap
    IN
    /\ req[w].pc = "retry_failed"
    /\ match # NoTeam => Required > 1
    /\ RowFree(w)
    /\ retry' = [retry EXCEPT
            !.count = count,
            !.requested = @ \/ ~req[w].asked,
            !.candidate = IF req[w].team = NoTeam /\ match # NoTeam
                          THEN match ELSE @]
    /\ Become(w, IF Exhausted(count) THEN [Idle EXCEPT !.pc = "retry_escalate"]
                              ELSE Idle)
    /\ UNCHANGED <<status, profile, past, assigned, invitation, crashes>>

RetryEscalate(w) ==
    /\ req[w].pc = "retry_escalate"
    /\ RowFree(w)
    /\ retry' = [retry EXCEPT !.escalated = TRUE]
    /\ Finish(w)
    /\ UNCHANGED <<status, profile, past, assigned, invitation, crashes>>

\* promoteLocksForBooking: the confirmed locks name exactly Required providers.
PromoteRead(w, plan) ==
    /\ w \in PromoteJobs /\ IdleAt(w)
    /\ status = "PENDING_PROVIDER" /\ assigned = {}
    /\ plan \in {S \in SUBSET Providers : Cardinality(S) = Required}
    /\ ReassignPlanned(w, plan)
    /\ UNCHANGED <<booking, crashes>>

\* assignFallbackTeam: the first members of the candidate team.
FirstMembers(team) ==
    {TeamMembers[team][i] : i \in DOMAIN TeamMembers[team] \cap 1..Required}

FallbackRead(w) ==
    /\ Arrives(w, "fallback")
    /\ retry.candidate # NoTeam
    /\ FirstMembers(retry.candidate) # {}
    /\ ReassignPlanned(w, FirstMembers(retry.candidate))
    /\ UNCHANGED <<booking, crashes>>

\* The DELETE statement starts: its snapshot fixes the rows it will remove.
ReassignDelete(w) ==
    /\ req[w].pc = "reassign_planned"
    /\ Become(w, [req[w] EXCEPT !.pc = "reassign_deleting",
                                !.doomed = assigned])
    /\ UNCHANGED <<booking, crashes>>

\* The DELETE has its row locks and the INSERT its foreign-key lock; it waits
\* for uncommitted rows and fails on committed ones.
ReassignInsert(w) ==
    /\ req[w].pc = "reassign_deleting"
    /\ RowFree(w)
    /\ \A v \in Uncommitted(w) : /\ req[v].doomed \cap req[w].doomed = {}
                                 /\ req[v].plan \cap req[w].plan = {}
    /\ Become(w, IF req[w].plan \cap (assigned \ req[w].doomed) = {}
                 THEN [req[w] EXCEPT !.pc = "reassign_inserted"]
                 ELSE Idle)
    /\ UNCHANGED <<booking, crashes>>

\* Slip: fallbackEscalatedAt is left out of the reset.
RetryResetKeepsEscalation == [NoRetry EXCEPT !.escalated = retry.escalated]

\* The fallback columns an assignment clears.
RetryReset == NoRetry

ReassignCommit(w) ==
    /\ req[w].pc = "reassign_inserted"
    /\ RowFree(w)
    /\ assigned' = (assigned \ req[w].doomed) \cup req[w].plan
    /\ status' = "PENDING_CLIENT"
    /\ retry' = RetryReset
    /\ Committed(w, req[w].doomed)
    /\ UNCHANGED <<profile, past, invitation, crashes>>

(***************************************************************************)
(* The environment: time, and a request that ends half way (an exception   *)
(* of a notification, a deadlock victim, a restart of the process).        *)
(***************************************************************************)
StartPasses ==
    /\ Exists /\ ~past
    /\ past' = TRUE
    /\ UNCHANGED <<status, profile, assigned, invitation, retry, req, crashes>>

Crash(w) ==
    /\ ~IdleAt(w)
    /\ crashes < MaxCrashes
    /\ crashes' = crashes + 1
    /\ Finish(w)
    /\ UNCHANGED booking

Create(w) ==
    \/ \E kind \in {"smart", "manual"}, preferred \in BOOLEAN,
          plan \in SUBSET Providers : CreatePlanned(w, kind, preferred, plan)
    \/ CreateShortNotice(w)
    \/ \E plan \in SUBSET Providers : CreateShortNoticeByOps(w, plan)

Dispatch(w) ==
    \/ \E plan \in SUBSET Providers : DispatchMatch(w, plan)
    \/ DispatchSkip(w) \/ DispatchInvite(w) \/ DispatchActivate(w)

Accept(w) == AcceptLock(w) \/ AcceptCommit(w) \/ AcceptRefused(w)

Reassign(w) == ReassignDelete(w) \/ ReassignInsert(w) \/ ReassignCommit(w)

RetryFailure(w) ==
    \/ \E match \in Teams \cup {NoTeam} : RetryCount(w, match)
    \/ RetryEscalate(w)

\* What a request that has started does next.
Continue(w) ==
    \/ Dispatch(w) \/ Accept(w) \/ Reassign(w) \/ RetryFailure(w)
    \/ CancelWrite(w) \/ MissionWrite(w) \/ UpdateWrite(w)

RetryJob(w) ==
    \/ \E plan \in SUBSET Providers : RetryMatched(w, plan)
    \/ RetryUnmatched(w)

PromoteJob(w) == \E plan \in SUBSET Providers : PromoteRead(w, plan)

\* What a user, an operator or a webhook asks for.
Start(w) ==
    \/ Create(w)
    \/ DispatchRead(w)
    \/ \E p \in Providers : AcceptRead(w, p)
    \/ ClientCancelRead(w) \/ OpsCancelRead(w) \/ MissionCancelRead(w)
    \/ \E p \in Providers, s \in OpsStatuses : MissionRead(w, p, s)
    \/ \E targets \in SUBSET Providers, s \in OpsStatuses \cup {"NONE"} :
          UpdateRead(w, targets, s)
    \/ \E s \in OpsStatuses : UpdateStatus(w, s)
    \/ UpdateMode(w) \/ UpdateStart(w)
    \/ FallbackRead(w)

Next ==
    \/ \E w \in Workers : Start(w) \/ Continue(w) \/ RetryJob(w)
                          \/ PromoteJob(w) \/ Crash(w)
    \/ \E p \in Providers : Decline(p)
    \/ StartPasses

Spec == Init /\ [][Next]_vars

\* A started request runs on (Node never drops a promise), the cron starts the
\* retry job again and again; nothing obliges a user to ask.
FairSpec ==
    /\ Spec
    /\ \A w \in Workers : WF_vars(Continue(w))
    /\ \A w \in RetryJobs : WF_vars(RetryJob(w))

-----------------------------------------------------------------------------

\* Every column and every request holds a value of its type.
TypeOK ==
    /\ status \in BookingStatus \cup {"NONE"}
    /\ profile \in [shortNotice : BOOLEAN, smart : BOOLEAN, preferred : BOOLEAN]
    /\ past \in BOOLEAN
    /\ assigned \subseteq Providers
    /\ invitation \in [Providers -> InvitationStatus]
    /\ retry \in [count : 0..RetryCap, requested : BOOLEAN,
                  escalated : BOOLEAN, candidate : Teams \cup {NoTeam}]
    /\ req \in [Workers -> Request]
    /\ crashes \in 0..MaxCrashes

\* The row lock: an acceptance that has locked the booking excludes every other
\* acceptance and every reassignment that has written its rows.
RowLockExclusive ==
    \A v, w \in Workers :
        /\ v # w /\ req[v].pc = "accept_locked"
        => req[w].pc \notin {"accept_locked", "reassign_inserted"}

\* While an acceptance holds the lock, what it checked stays true.
SeatStaysOpen ==
    \A w \in Workers : req[w].pc = "accept_locked" => SeatOpen

\* p's answer turns to ACCEPTED: p joins the providers already there, on a
\* booking still open to providers, never one more than required, and every
\* other pending offer ends.
TakesAFreeSeat(p) ==
    invitation[p] # "ACCEPTED" /\ invitation'[p] = "ACCEPTED"
    => /\ p \notin assigned /\ assigned' = assigned \cup {p}
       /\ Cardinality(assigned') <= Required
       /\ status \in {"PENDING_PROVIDER", "PENDING_CLIENT"}
       /\ status' = "PENDING_CLIENT"
       /\ \A q \in Providers : invitation'[q] # "PENDING"

\* An acceptance takes a free seat, whatever jobs, operators, cancellations and
\* other acceptances run beside it (acceptShortNoticeInvitation's row lock).
AcceptTakesAFreeSeat == [][\A p \in Providers : TakesAFreeSeat(p)]_vars

\* An offer is made to a provider once and answered once: a second broadcast
\* (duplicate webhook) does not reopen it, and an answer of EXPIRED or DECLINED
\* is never turned into an acceptance by a request that read it as PENDING.
KeepsAnswer(p) ==
    /\ invitation[p] # "NONE" => invitation'[p] # "NONE"
    /\ invitation[p] \in {"ACCEPTED", "DECLINED", "EXPIRED"}
       => invitation'[p] \in {invitation[p], "DECLINED"}
AnsweredOnce == [][\A p \in Providers : KeepsAnswer(p)]_vars

\* The writers that delete and recreate assignments are switched off.
OffersOnly ==
    RetryJobs = {} /\ PromoteJobs = {} /\ Kinds \cap {"update", "fallback"} = {}

\* Without those writers (retry, promotion, fallback, Ops update), concurrent
\* acceptances never oversell the booking.
SeatsNeverOversold == Cardinality(assigned) <= Required

\* Under the same condition, a provider who was told "accepted" has the seat.
AcceptedKeepsSeat ==
    \A p \in Providers : invitation[p] = "ACCEPTED" => p \in assigned

\* One request at a time, an escalation to Ops means that matching was tried
\* MAX_MATCHING_RETRY_ATTEMPTS times, and that nobody has been assigned since.
EscalatedMeansExhausted ==
    retry.escalated => /\ retry.count >= MAX_MATCHING_RETRY_ATTEMPTS
                       /\ retry.requested

\* A smart-match booking that waits for providers is not forgotten: matching
\* assigns it, or Ops hears of it, even when a retry dies between counting and
\* escalating.  A preferred team is the exception the code leaves open.
Waiting ==
    /\ status = "PENDING_PROVIDER" /\ profile.smart /\ ~profile.preferred
    /\ assigned = {} /\ ~past
WaitingIsNoticed == Waiting ~> (~Waiting \/ retry.escalated)

\* A paid short-notice draft leaves DRAFT: whoever skips because invitations
\* exist relies on the dispatch that made them to activate the booking.
PaidDraftIsActivated ==
    \A w \in Handlers :
        req[w].pc = "dispatch_read" /\ req[w].seen = "DRAFT"
        ~> status # "DRAFT"

\* bookings.e2e.spec.ts: "prevents the client from cancelling once a provider
\* is assigned".
NoClientCancelOnceAssigned ==
    [][\A w \in Handlers :
          req[w].pc = "client_cancel" /\ status # "CANCELLED"
          /\ status' = "CANCELLED" /\ req'[w].pc = "idle"
          => assigned = {}]_vars

\* The offer phase implements the one-step-per-request specification: neither
\* the reads before the lock nor the stale writes of the status leak into the
\* seats and the offers.
Offers == INSTANCE SeatOffer
ImplementsSeatOffer == Offers!Spec

=============================================================================
