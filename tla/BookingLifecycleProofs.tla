----------------------- MODULE BookingLifecycleProofs -----------------------
(***************************************************************************)
(* Proofs about BookingLifecycle, for every set of providers and workers,  *)
(* every number of seats and every mix of requests and jobs.               *)
(***************************************************************************)
EXTENDS BookingLifecycle, FiniteSetTheorems, TLAPS

(***************************************************************************)
(* Type correctness.                                                       *)
(***************************************************************************)
LEMMA IdleIsRequest == Idle \in Request
BY DEF Idle, Request, Phases

\* Replacing one worker's request by a request keeps req well typed.
LEMMA BecomeType ==
    ASSUME req \in [Workers -> Request], NEW w \in Workers,
           NEW r \in Request, Become(w, r)
    PROVE  req' \in [Workers -> Request]
BY DEF Become

LEMMA FinishType ==
    ASSUME req \in [Workers -> Request], NEW w \in Workers, Finish(w)
    PROVE  req' \in [Workers -> Request]
BY IdleIsRequest DEF Finish, Become

LEMMA CommittedType ==
    ASSUME req \in [Workers -> Request], NEW w \in Workers, NEW gone,
           Committed(w, gone)
    PROVE  req' \in [Workers -> Request]
BY IdleIsRequest DEF Committed, Request

\* A request that starts stores a well-typed record.
LEMMA StartType ==
    ASSUME TypeOK, NEW w \in Workers, Start(w)
    PROVE  TypeOK'
<1> USE DEF TypeOK
<1>1. ASSUME NEW kind \in {"smart", "manual"}, NEW preferred \in BOOLEAN,
             NEW plan \in SUBSET Providers,
             CreatePlanned(w, kind, preferred, plan)
      PROVE  TypeOK'
  BY <1>1 DEF CreatePlanned, resolveInitialStatus, BookingStatus
<1>2. CASE CreateShortNotice(w)
  BY <1>2 DEF CreateShortNotice, BookingStatus
<1>3. ASSUME NEW plan \in SUBSET Providers, CreateShortNoticeByOps(w, plan)
      PROVE  TypeOK'
  <2> DEFINE r == [Idle EXCEPT !.pc = "dispatch_matched", !.plan = plan,
                               !.seen = "PENDING_PROVIDER"]
  <2>1. r \in Request
    BY DEF Idle, Request, Phases, BookingStatus
  <2>2. req' \in [Workers -> Request]
    BY <2>1, <1>3, BecomeType DEF CreateShortNoticeByOps
  <2> QED
    BY <2>2, <1>3 DEF CreateShortNoticeByOps, resolveInitialStatus, BookingStatus
<1>4. CASE DispatchRead(w)
  <2> DEFINE r == [Idle EXCEPT !.pc = "dispatch_read", !.seen = status]
  <2>1. r \in Request
    BY DEF Idle, Request, Phases
  <2>2. req' \in [Workers -> Request]
    BY <2>1, <1>4, BecomeType DEF DispatchRead
  <2> QED
    BY <2>2, <1>4 DEF DispatchRead, booking
<1>5. ASSUME NEW p \in Providers, AcceptRead(w, p)
      PROVE  TypeOK'
  <2> DEFINE r == [Idle EXCEPT !.pc = "accept_read", !.prov = p]
  <2>1. r \in Request
    BY DEF Idle, Request, Phases
  <2>2. req' \in [Workers -> Request]
    BY <2>1, <1>5, BecomeType DEF AcceptRead
  <2> QED
    BY <2>2, <1>5 DEF AcceptRead, booking
<1>6. CASE ClientCancelRead(w)
  <2> DEFINE r == [Idle EXCEPT !.pc = "client_cancel"]
  <2>1. r \in Request
    BY DEF Idle, Request, Phases
  <2>2. req' \in [Workers -> Request]
    BY <2>1, <1>6, BecomeType DEF ClientCancelRead
  <2> QED
    BY <2>2, <1>6 DEF ClientCancelRead, booking
<1>7. CASE OpsCancelRead(w) \/ MissionCancelRead(w)
  <2> DEFINE r == [Idle EXCEPT !.pc = "ops_cancel"]
  <2>1. r \in Request
    BY DEF Idle, Request, Phases
  <2>2. req' \in [Workers -> Request]
    BY <2>1, <1>7, BecomeType DEF OpsCancelRead, MissionCancelRead
  <2> QED
    BY <2>2, <1>7 DEF OpsCancelRead, MissionCancelRead, booking
<1>8. ASSUME NEW p \in Providers, NEW s \in OpsStatuses, MissionRead(w, p, s)
      PROVE  TypeOK'
  <2> DEFINE r == [Idle EXCEPT !.pc = "mission_read", !.prov = p, !.seen = s]
  <2>1. s \in BookingStatus
    BY ConstantsAssumption
  <2>2. r \in Request
    BY <2>1 DEF Idle, Request, Phases
  <2>3. req' \in [Workers -> Request]
    BY <2>2, <1>8, BecomeType DEF MissionRead
  <2> QED
    BY <2>3, <1>8 DEF MissionRead, booking
<1>9. ASSUME NEW targets \in SUBSET Providers, NEW s \in OpsStatuses \cup {"NONE"},
             UpdateRead(w, targets, s)
      PROVE  TypeOK'
  <2> DEFINE r == [Idle EXCEPT !.pc = "update_read", !.plan = targets,
                               !.known = assigned, !.seen = s]
  <2>1. s \in BookingStatus \cup {"NONE"}
    BY ConstantsAssumption
  <2>2. r \in Request
    BY <2>1 DEF Idle, Request, Phases
  <2>3. req' \in [Workers -> Request]
    BY <2>2, <1>9, BecomeType DEF UpdateRead
  <2> QED
    BY <2>3, <1>9 DEF UpdateRead, booking
<1>10. CASE UpdateMode(w) \/ UpdateStart(w)
  BY <1>10 DEF UpdateMode, UpdateStart
<1>12. ASSUME NEW s \in OpsStatuses, UpdateStatus(w, s)
       PROVE  TypeOK'
  BY <1>12, ConstantsAssumption DEF UpdateStatus
<1>11. CASE FallbackRead(w)
  <2>1. retry.candidate \in Teams
    BY <1>11 DEF FallbackRead
  <2>2. FirstMembers(retry.candidate) \in SUBSET Providers
    BY <2>1, ConstantsAssumption DEF FirstMembers
  <2> DEFINE r == [Idle EXCEPT !.pc = "reassign_planned",
                               !.plan = FirstMembers(retry.candidate)]
  <2>3. r \in Request
    BY <2>2 DEF Idle, Request, Phases
  <2>4. req' \in [Workers -> Request]
    BY <2>3, <1>11, BecomeType DEF FallbackRead, ReassignPlanned
  <2> QED
    BY <2>4, <1>11 DEF FallbackRead, booking
<1> QED
  BY <1>1, <1>2, <1>3, <1>4, <1>5, <1>6, <1>7, <1>8, <1>9, <1>10, <1>11, <1>12
     DEF Start, Create

\* The handlers that offer and take seats.
LEMMA OfferStepType ==
    ASSUME TypeOK, NEW w \in Workers, Dispatch(w) \/ Accept(w)
    PROVE  TypeOK'
<1> USE DEF TypeOK
<1>1. ASSUME NEW plan \in SUBSET Providers, DispatchMatch(w, plan)
      PROVE  TypeOK'
  <2> DEFINE r == [req[w] EXCEPT !.pc = "dispatch_matched", !.plan = plan]
  <2>1. r \in Request
    <3>1. req[w] \in Request
      OBVIOUS
    <3> HIDE DEF TypeOK
    <3>2. assigned \in SUBSET Providers
      BY DEF TypeOK
    <3> QED
      BY <3>1, <3>2 DEF Request, Phases
  <2>2. req' \in [Workers -> Request]
    BY <2>1, <1>1, BecomeType DEF DispatchMatch
  <2> QED
    BY <2>2, <1>1 DEF DispatchMatch, booking
<1>2. CASE DispatchSkip(w)
  BY <1>2, FinishType DEF DispatchSkip, booking
<1>3. CASE DispatchInvite(w)
  <2> DEFINE r == [req[w] EXCEPT !.pc = "dispatch_invited"]
  <2>1. r \in Request
    <3>1. req[w] \in Request
      OBVIOUS
    <3> HIDE DEF TypeOK
    <3>2. assigned \in SUBSET Providers
      BY DEF TypeOK
    <3> QED
      BY <3>1, <3>2 DEF Request, Phases
  <2>2. req' \in [Workers -> Request]
    BY <2>1, <1>3, BecomeType DEF DispatchInvite
  <2> QED
    BY <2>2, <1>3 DEF DispatchInvite, InvitationStatus
<1>4. CASE DispatchActivate(w)
  BY <1>4, FinishType DEF DispatchActivate, BookingStatus
<1>5. CASE AcceptLock(w)
  <2> DEFINE r == [req[w] EXCEPT !.pc = "accept_locked"]
  <2>1. r \in Request
    BY <1>5 DEF AcceptLock, Request, Phases
  <2>2. req' \in [Workers -> Request]
    BY <2>1, <1>5, BecomeType, IdleIsRequest DEF AcceptLock
  <2> QED
    BY <2>2, <1>5 DEF AcceptLock, booking
<1>6. CASE AcceptCommit(w)
  <2>1. req[w].prov \in Providers
    BY <1>6 DEF AcceptCommit, Request
  <2> QED
    BY <1>6, <2>1, FinishType DEF AcceptCommit, InvitationStatus, BookingStatus
<1>7. CASE AcceptRefused(w)
  BY <1>7, FinishType DEF AcceptRefused, booking
<1> QED
  BY <1>1, <1>2, <1>3, <1>4, <1>5, <1>6, <1>7 DEF Dispatch, Accept

\* The handlers that cancel, update and reassign, and the retry job.
LEMMA WriteStepType ==
    ASSUME TypeOK, NEW w \in Workers,
           Reassign(w) \/ RetryFailure(w) \/ CancelWrite(w)
              \/ MissionWrite(w) \/ UpdateWrite(w)
    PROVE  TypeOK'
<1> USE DEF TypeOK
<1>1. CASE ReassignDelete(w)
  <2> DEFINE r == [req[w] EXCEPT !.pc = "reassign_deleting",
                                 !.doomed = assigned]
  <2>1. r \in Request
    <3>1. req[w] \in Request
      OBVIOUS
    <3> HIDE DEF TypeOK
    <3>2. assigned \in SUBSET Providers
      BY DEF TypeOK
    <3> QED
      BY <3>1, <3>2 DEF Request, Phases
  <2>2. req' \in [Workers -> Request]
    BY <2>1, <1>1, BecomeType DEF ReassignDelete
  <2> QED
    BY <2>2, <1>1 DEF ReassignDelete, booking
<1>2. CASE ReassignInsert(w)
  <2> DEFINE r == [req[w] EXCEPT !.pc = "reassign_inserted"]
  <2>1. r \in Request
    BY DEF Request, Phases
  <2>2. req' \in [Workers -> Request]
    BY <2>1, <1>2, BecomeType, IdleIsRequest DEF ReassignInsert
  <2> QED
    BY <2>2, <1>2 DEF ReassignInsert, booking
<1>3. CASE ReassignCommit(w)
  <2>1. req[w].plan \in SUBSET Providers
    BY DEF Request
  <2>2. req' \in [Workers -> Request]
    BY <1>3, CommittedType DEF ReassignCommit
  <2>3. NoRetry \in [count : 0..RetryCap, requested : BOOLEAN,
                     escalated : BOOLEAN, candidate : Teams \cup {NoTeam}]
    BY ConstantsAssumption DEF NoRetry
  <2> QED
    BY <1>3, <2>1, <2>2, <2>3
       DEF ReassignCommit, RetryReset, BookingStatus
<1>4. ASSUME NEW match \in Teams \cup {NoTeam}, RetryCount(w, match)
      PROVE  TypeOK'
  <2> DEFINE r == [Idle EXCEPT !.pc = "retry_escalate"]
  <2>1. r \in Request
    BY DEF Idle, Request, Phases
  <2>2. req' \in [Workers -> Request]
    BY <2>1, <1>4, BecomeType, IdleIsRequest DEF RetryCount
  <2> DEFINE count == IF retry.count < RetryCap THEN retry.count + 1
                                                ELSE RetryCap
  <2>3. count \in 0..RetryCap
    BY ConstantsAssumption
  <2>4. retry' \in [count : 0..RetryCap, requested : BOOLEAN,
                    escalated : BOOLEAN, candidate : Teams \cup {NoTeam}]
    BY <1>4, <2>3 DEF RetryCount
  <2> QED
    BY <1>4, <2>2, <2>4 DEF RetryCount
<1>5. CASE RetryEscalate(w)
  BY <1>5, FinishType DEF RetryEscalate
<1>6. CASE CancelWrite(w)
  BY <1>6, FinishType DEF CancelWrite, BookingStatus
<1>7. CASE MissionWrite(w)
  <2>1. req[w].seen \in BookingStatus
    BY <1>7 DEF MissionWrite, Request
  <2> QED
    BY <1>7, <2>1, FinishType DEF MissionWrite
<1>8. CASE UpdateWrite(w)
  <2>1. /\ req[w].plan \in SUBSET Providers
        /\ req[w].seen \in BookingStatus \cup {"NONE"}
    BY <1>8 DEF UpdateWrite, Request
  <2>2. req' \in [Workers -> Request]
    BY <1>8, CommittedType, FinishType DEF UpdateWrite
  <2> QED
    BY <1>8, <2>1, <2>2 DEF UpdateWrite
<1> QED
  BY <1>1, <1>2, <1>3, <1>4, <1>5, <1>6, <1>7, <1>8
     DEF Reassign, RetryFailure

LEMMA JobType ==
    ASSUME TypeOK, NEW w \in Workers, RetryJob(w) \/ PromoteJob(w)
    PROVE  TypeOK'
<1> USE DEF TypeOK
<1>1. ASSUME NEW plan \in SUBSET Providers,
             RetryMatched(w, plan) \/ PromoteRead(w, plan)
      PROVE  TypeOK'
  <2> DEFINE r == [Idle EXCEPT !.pc = "reassign_planned", !.plan = plan]
  <2>1. r \in Request
    BY DEF Idle, Request, Phases
  <2>2. req' \in [Workers -> Request]
    BY <2>1, <1>1, BecomeType DEF RetryMatched, PromoteRead, ReassignPlanned
  <2> QED
    BY <2>2, <1>1 DEF RetryMatched, PromoteRead, booking
<1>2. CASE RetryUnmatched(w)
  <2> DEFINE r == [Idle EXCEPT !.pc = "retry_failed", !.asked = retry.requested,
                               !.team = retry.candidate]
  <2>1. r \in Request
    BY DEF Idle, Request, Phases
  <2>2. req' \in [Workers -> Request]
    BY <2>1, <1>2, BecomeType DEF RetryUnmatched
  <2> QED
    BY <2>2, <1>2 DEF RetryUnmatched, booking
<1> QED
  BY <1>1, <1>2 DEF RetryJob, PromoteJob

LEMMA EnvironmentType ==
    ASSUME TypeOK,
           StartPasses \/ (\E p \in Providers : Decline(p))
             \/ (\E w \in Workers : Crash(w))
    PROVE  TypeOK'
<1> USE DEF TypeOK
<1>1. CASE StartPasses
  BY <1>1 DEF StartPasses
<1>2. ASSUME NEW p \in Providers, Decline(p)
      PROVE  TypeOK'
  BY <1>2 DEF Decline, InvitationStatus
<1>3. ASSUME NEW w \in Workers, Crash(w)
      PROVE  TypeOK'
  BY <1>3, FinishType, ConstantsAssumption DEF Crash, booking
<1> QED
  BY <1>1, <1>2, <1>3

LEMMA InitType == Init => TypeOK
<1> SUFFICES ASSUME Init
             PROVE  TypeOK
  OBVIOUS
<1>1. req \in [Workers -> Request]
  BY IdleIsRequest DEF Init
<1>2. retry \in [count : 0..RetryCap, requested : BOOLEAN,
                escalated : BOOLEAN, candidate : Teams \cup {NoTeam}]
  BY ConstantsAssumption DEF Init, NoRetry
<1>3. crashes \in 0..MaxCrashes
  BY ConstantsAssumption DEF Init
<1> QED
  BY <1>1, <1>2, <1>3 DEF Init, TypeOK, InvitationStatus

LEMMA NextType == TypeOK /\ [Next]_vars => TypeOK'
<1> SUFFICES ASSUME TypeOK, [Next]_vars
             PROVE  TypeOK'
  OBVIOUS
<1>1. CASE UNCHANGED vars
  BY <1>1 DEF vars, TypeOK
<1>2. CASE Next
  BY <1>2, StartType, OfferStepType, WriteStepType, JobType, EnvironmentType
     DEF Next, Continue
<1> QED
  BY <1>1, <1>2

\* Every reachable state is well typed: in particular no handler stores an
\* invitation, assignment or request for a provider that does not exist.
THEOREM TypeCorrect == Spec => []TypeOK
BY InitType, NextType, PTL DEF Spec

(***************************************************************************)
(* The row lock.  SeatStaysOpen is not inductive alone: that nobody writes *)
(* the booking while an acceptance holds it rests on RowLockExclusive,     *)
(* because a reassignment past its INSERT commits without asking again.    *)
(***************************************************************************)
IndInv == TypeOK /\ RowLockExclusive /\ SeatStaysOpen

\* A step of w that takes no lock, and writes the booking only while no other
\* transaction holds its row.
Quiet(w) ==
    /\ \A v \in Workers \ {w} : req'[v].pc = req[v].pc
    /\ req'[w].pc \notin {"accept_locked", "reassign_inserted"}
    /\ UNCHANGED <<status, assigned>> \/ RowFree(w)

LEMMA QuietPreserves ==
    ASSUME IndInv, NEW w \in Workers, Quiet(w)
    PROVE  RowLockExclusive' /\ SeatStaysOpen'
<1>1. RowLockExclusive'
  BY DEF IndInv, RowLockExclusive, Quiet
<1>2. SeatStaysOpen'
  <2> SUFFICES ASSUME NEW v \in Workers, req'[v].pc = "accept_locked"
               PROVE  SeatOpen'
    BY DEF SeatStaysOpen
  <2>1. v # w /\ req[v].pc = "accept_locked"
    BY DEF Quiet
  <2>2. SeatOpen
    BY <2>1 DEF IndInv, SeatStaysOpen
  <2>3. ~RowFree(w)
    BY <2>1 DEF RowFree
  <2> QED
    BY <2>2, <2>3 DEF Quiet, SeatOpen
<1> QED
  BY <1>1, <1>2

\* A handler that stores a request whose phase takes no lock.
LEMMA BecomeQuiet ==
    ASSUME TypeOK, NEW w \in Workers, NEW r, Become(w, r),
           r.pc \notin {"accept_locked", "reassign_inserted"},
           UNCHANGED <<status, assigned>> \/ RowFree(w)
    PROVE  Quiet(w)
BY DEF TypeOK, Become, Quiet

LEMMA FinishQuiet ==
    ASSUME TypeOK, NEW w \in Workers, Finish(w),
           UNCHANGED <<status, assigned>> \/ RowFree(w)
    PROVE  Quiet(w)
BY DEF TypeOK, Finish, Become, Quiet, Idle

LEMMA CommittedQuiet ==
    ASSUME TypeOK, NEW w \in Workers, NEW gone, Committed(w, gone), RowFree(w)
    PROVE  Quiet(w)
<1>1. req' = [v \in Workers |-> IF v = w THEN Idle
                               ELSE [req[v] EXCEPT !.doomed = @ \ gone]]
  BY DEF Committed
<1>2. \A v \in Workers \ {w} : req'[v].pc = req[v].pc
  <2> SUFFICES ASSUME NEW v \in Workers \ {w}
               PROVE  req'[v].pc = req[v].pc
    OBVIOUS
  <2>1. req[v] \in Request
    BY DEF TypeOK
  <2>2. req'[v] = [req[v] EXCEPT !.doomed = req[v].doomed \ gone]
    BY <1>1
  <2> QED
    BY <2>1, <2>2 DEF Request
<1>3. req'[w].pc = "idle"
  BY <1>1 DEF Idle
<1> QED
  BY <1>2, <1>3 DEF Quiet

\* Before the booking exists nobody holds its row.
LEMMA NoRowNoLock ==
    ASSUME IndInv, NEW w \in Workers, ~Exists
    PROVE  RowFree(w)
BY DEF IndInv, SeatStaysOpen, SeatOpen, Exists, RowFree

LEMMA StartQuiet ==
    ASSUME IndInv, NEW w \in Workers, Start(w)
    PROVE  Quiet(w)
<1>t. TypeOK
  BY DEF IndInv
<1>1. ASSUME NEW kind \in {"smart", "manual"}, NEW preferred \in BOOLEAN,
             NEW plan \in SUBSET Providers,
             CreatePlanned(w, kind, preferred, plan)
      PROVE  Quiet(w)
  <2>1. RowFree(w) /\ req' = req /\ req[w].pc = "idle"
    BY <1>1, NoRowNoLock DEF CreatePlanned, Arrives, IdleAt
  <2> QED
    BY <2>1 DEF Quiet
<1>2. CASE CreateShortNotice(w)
  <2>1. RowFree(w) /\ req' = req /\ req[w].pc = "idle"
    BY <1>2, NoRowNoLock DEF CreateShortNotice, Arrives, IdleAt
  <2> QED
    BY <2>1 DEF Quiet
<1>3. ASSUME NEW plan \in SUBSET Providers, CreateShortNoticeByOps(w, plan)
      PROVE  Quiet(w)
  BY <1>t, <1>3, NoRowNoLock, BecomeQuiet DEF CreateShortNoticeByOps, Idle
<1>4. CASE DispatchRead(w)
  BY <1>t, <1>4, BecomeQuiet DEF DispatchRead, booking, Idle
<1>5. ASSUME NEW p \in Providers, AcceptRead(w, p)
      PROVE  Quiet(w)
  BY <1>t, <1>5, BecomeQuiet DEF AcceptRead, booking, Idle
<1>6. CASE ClientCancelRead(w)
  BY <1>t, <1>6, BecomeQuiet DEF ClientCancelRead, booking, Idle
<1>7. CASE OpsCancelRead(w) \/ MissionCancelRead(w)
  BY <1>t, <1>7, BecomeQuiet DEF OpsCancelRead, MissionCancelRead, booking, Idle
<1>8. ASSUME NEW p \in Providers, NEW s \in OpsStatuses, MissionRead(w, p, s)
      PROVE  Quiet(w)
  BY <1>t, <1>8, BecomeQuiet DEF MissionRead, booking, Idle
<1>9. ASSUME NEW targets \in SUBSET Providers, NEW s \in OpsStatuses \cup {"NONE"},
             UpdateRead(w, targets, s)
      PROVE  Quiet(w)
  BY <1>t, <1>9, BecomeQuiet DEF UpdateRead, booking, Idle
<1>10. CASE UpdateMode(w) \/ UpdateStart(w)
  BY <1>10 DEF UpdateMode, UpdateStart, Arrives, IdleAt, Quiet
<1>12. ASSUME NEW s \in OpsStatuses, UpdateStatus(w, s)
       PROVE  Quiet(w)
  BY <1>12 DEF UpdateStatus, Arrives, IdleAt, Quiet
<1>11. CASE FallbackRead(w)
  BY <1>t, <1>11, BecomeQuiet DEF FallbackRead, ReassignPlanned, booking, Idle
<1> QED
  BY <1>1, <1>2, <1>3, <1>4, <1>5, <1>6, <1>7, <1>8, <1>9, <1>10, <1>11, <1>12
     DEF Start, Create

\* Changing the phase of a stored request changes that field only.
LEMMA PhaseOf ==
    ASSUME TypeOK, NEW w \in Workers, NEW phase
    PROVE  [req[w] EXCEPT !.pc = phase].pc = phase
<1>1. req[w] \in Request
  BY DEF TypeOK
<1> QED
  BY <1>1 DEF Request

LEMMA ContinueQuiet ==
    ASSUME IndInv, NEW w \in Workers, Continue(w),
           ~AcceptLock(w), ~ReassignInsert(w)
    PROVE  Quiet(w)
<1>t. TypeOK /\ req[w] \in Request
  BY DEF IndInv, TypeOK
<1>1. ASSUME NEW plan \in SUBSET Providers, DispatchMatch(w, plan)
      PROVE  Quiet(w)
  <2> DEFINE r == [req[w] EXCEPT !.pc = "dispatch_matched", !.plan = plan]
  <2>1. r.pc = "dispatch_matched"
    BY <1>t DEF Request
  <2>2. Become(w, r) /\ UNCHANGED <<status, assigned>>
    BY <1>1 DEF DispatchMatch, booking
  <2> QED
    BY <1>t, <2>1, <2>2, BecomeQuiet
<1>2. CASE DispatchSkip(w)
  BY <1>t, <1>2, FinishQuiet DEF DispatchSkip, booking
<1>3. CASE DispatchInvite(w)
  BY <1>t, <1>3, BecomeQuiet, PhaseOf DEF DispatchInvite
<1>4. CASE DispatchActivate(w)
  BY <1>t, <1>4, FinishQuiet DEF DispatchActivate
<1>5. CASE AcceptCommit(w)
  <2>1. RowFree(w)
    BY <1>5 DEF AcceptCommit, IndInv, RowLockExclusive, RowFree
  <2> QED
    BY <1>t, <1>5, <2>1, FinishQuiet DEF AcceptCommit
<1>6. CASE AcceptRefused(w)
  BY <1>t, <1>6, FinishQuiet DEF AcceptRefused, booking
<1>7. CASE ReassignDelete(w)
  <2> DEFINE r == [req[w] EXCEPT !.pc = "reassign_deleting",
                                 !.doomed = assigned]
  <2>1. r.pc = "reassign_deleting"
    BY <1>t DEF Request
  <2>2. Become(w, r) /\ UNCHANGED <<status, assigned>>
    BY <1>7 DEF ReassignDelete, booking
  <2> QED
    BY <1>t, <2>1, <2>2, BecomeQuiet
<1>8. CASE ReassignCommit(w)
  BY <1>t, <1>8, CommittedQuiet DEF ReassignCommit
<1>9. ASSUME NEW match \in Teams \cup {NoTeam}, RetryCount(w, match)
      PROVE  Quiet(w)
  BY <1>t, <1>9, BecomeQuiet DEF RetryCount, Idle
<1>10. CASE RetryEscalate(w)
  BY <1>t, <1>10, FinishQuiet DEF RetryEscalate
<1>11. CASE CancelWrite(w)
  BY <1>t, <1>11, FinishQuiet DEF CancelWrite
<1>12. CASE MissionWrite(w)
  BY <1>t, <1>12, FinishQuiet DEF MissionWrite
<1>13. CASE UpdateWrite(w)
  BY <1>t, <1>13, FinishQuiet, CommittedQuiet DEF UpdateWrite
<1> QED
  BY <1>1, <1>2, <1>3, <1>4, <1>5, <1>6, <1>7, <1>8, <1>9, <1>10, <1>11,
     <1>12, <1>13
     DEF Continue, Dispatch, Accept, Reassign, RetryFailure

LEMMA JobQuiet ==
    ASSUME IndInv, NEW w \in Workers,
           RetryJob(w) \/ PromoteJob(w) \/ Crash(w)
    PROVE  Quiet(w)
<1>t. TypeOK
  BY DEF IndInv
<1>1. ASSUME NEW plan \in SUBSET Providers,
             RetryMatched(w, plan) \/ PromoteRead(w, plan)
      PROVE  Quiet(w)
  BY <1>t, <1>1, BecomeQuiet
     DEF RetryMatched, PromoteRead, ReassignPlanned, booking, Idle
<1>2. CASE RetryUnmatched(w)
  BY <1>t, <1>2, BecomeQuiet DEF RetryUnmatched, booking, Idle
<1>3. CASE Crash(w)
  BY <1>t, <1>3, FinishQuiet DEF Crash, booking
<1> QED
  BY <1>1, <1>2, <1>3 DEF RetryJob, PromoteJob

\* SELECT .. FOR UPDATE: granted to one, while no foreign-key lock is held.
LEMMA AcceptLockPreserves ==
    ASSUME IndInv, NEW w \in Workers, AcceptLock(w)
    PROVE  RowLockExclusive' /\ SeatStaysOpen'
<1>1. /\ \A v \in Workers \ {w} :
           /\ req'[v] = req[v]
           /\ req[v].pc \notin {"accept_locked", "reassign_inserted"}
      /\ UNCHANGED <<status, assigned>>
  BY DEF IndInv, TypeOK, AcceptLock, Become, RowFree, Uncommitted, booking
<1>2. req'[w].pc = "accept_locked" => SeatOpen
  BY DEF IndInv, TypeOK, AcceptLock, Become, Idle
<1> QED
  BY <1>1, <1>2 DEF RowLockExclusive, SeatStaysOpen, SeatOpen

\* The INSERT's FOR KEY SHARE: granted only while no acceptance holds the row.
LEMMA ReassignInsertPreserves ==
    ASSUME IndInv, NEW w \in Workers, ReassignInsert(w)
    PROVE  RowLockExclusive' /\ SeatStaysOpen'
<1>t. TypeOK
  BY DEF IndInv
<1>1. /\ \A v \in Workers \ {w} :
           req'[v] = req[v] /\ req[v].pc # "accept_locked"
      /\ UNCHANGED <<status, assigned>>
  BY DEF IndInv, TypeOK, ReassignInsert, Become, RowFree, booking
<1>2. req'[w].pc # "accept_locked"
  BY <1>t, PhaseOf DEF TypeOK, ReassignInsert, Become, Idle
<1> QED
  BY <1>1, <1>2 DEF RowLockExclusive, SeatStaysOpen, SeatOpen

LEMMA NextLock ==
    IndInv /\ [Next]_vars => RowLockExclusive' /\ SeatStaysOpen'
<1> SUFFICES ASSUME IndInv, [Next]_vars
             PROVE  RowLockExclusive' /\ SeatStaysOpen'
  OBVIOUS
<1>1. CASE UNCHANGED vars
  BY <1>1 DEF vars, IndInv, RowLockExclusive, SeatStaysOpen, SeatOpen
<1>2. ASSUME NEW w \in Workers,
             Start(w) \/ Continue(w) \/ RetryJob(w) \/ PromoteJob(w) \/ Crash(w)
      PROVE  RowLockExclusive' /\ SeatStaysOpen'
  BY <1>2, StartQuiet, ContinueQuiet, JobQuiet, QuietPreserves,
     AcceptLockPreserves, ReassignInsertPreserves
<1>3. CASE StartPasses \/ \E p \in Providers : Decline(p)
  BY <1>3 DEF StartPasses, Decline, IndInv, RowLockExclusive, SeatStaysOpen,
              SeatOpen
<1> QED
  BY <1>1, <1>2, <1>3 DEF Next

\* What an acceptance checked under the row lock is still true when it writes:
\* no cancellation, update, job or other acceptance gets between.
THEOREM SeatStaysOpenWhileLocked == Spec => []SeatStaysOpen
<1>1. Init => IndInv
  BY InitType
     DEF Init, Idle, IndInv, RowLockExclusive, SeatStaysOpen
<1>2. IndInv /\ [Next]_vars => IndInv'
  BY NextType, NextLock DEF IndInv
<1>3. IndInv => SeatStaysOpen
  BY DEF IndInv
<1> QED
  BY <1>1, <1>2, <1>3, PTL DEF Spec

(***************************************************************************)
(* Acceptances.                                                            *)
(***************************************************************************)

\* No action but AcceptCommit turns an answer into ACCEPTED.
NoNewAcceptance ==
    \A p \in Providers : invitation'[p] = "ACCEPTED" => invitation[p] = "ACCEPTED"

LEMMA OnlyAcceptCommitAccepts ==
    ASSUME TypeOK, Next, \A w \in Workers : ~AcceptCommit(w)
    PROVE  NoNewAcceptance
<1>1. ASSUME NEW w \in Workers, Start(w) \/ RetryJob(w) \/ PromoteJob(w) \/ Crash(w)
      PROVE  NoNewAcceptance
  BY <1>1
     DEF Start, Create, CreatePlanned, CreateShortNotice, CreateShortNoticeByOps,
         DispatchRead, AcceptRead, ClientCancelRead, OpsCancelRead,
         MissionCancelRead, MissionRead, UpdateRead, UpdateStatus, UpdateMode,
         UpdateStart, FallbackRead,
         RetryJob, RetryMatched, RetryUnmatched, PromoteJob, PromoteRead, Crash,
         booking, NoNewAcceptance
<1>2. ASSUME NEW w \in Workers, Dispatch(w) \/ Accept(w)
      PROVE  NoNewAcceptance
  BY <1>2
     DEF Dispatch, DispatchMatch, DispatchSkip, DispatchInvite, DispatchActivate,
         Accept, AcceptLock, AcceptRefused, booking, NoNewAcceptance
<1>3. ASSUME NEW w \in Workers, Reassign(w) \/ RetryFailure(w) \/ CancelWrite(w)
                                \/ MissionWrite(w) \/ UpdateWrite(w)
      PROVE  NoNewAcceptance
  BY <1>3
     DEF Reassign, ReassignDelete, ReassignInsert, ReassignCommit, RetryFailure,
         RetryCount, RetryEscalate, CancelWrite, MissionWrite, UpdateWrite,
         booking, NoNewAcceptance
<1>4. ASSUME NEW p \in Providers, Decline(p)
      PROVE  NoNewAcceptance
  BY <1>4 DEF Decline, TypeOK, NoNewAcceptance
<1>5. CASE StartPasses
  BY <1>5 DEF StartPasses, NoNewAcceptance
<1> QED
  BY <1>1, <1>2, <1>3, <1>4, <1>5 DEF Next, Continue

LEMMA AcceptCommitTakesAFreeSeat ==
    ASSUME IndInv, NEW w \in Workers, AcceptCommit(w), NEW p \in Providers
    PROVE  TakesAFreeSeat(p)
<1> SUFFICES ASSUME invitation[p] # "ACCEPTED", invitation'[p] = "ACCEPTED"
             PROVE  /\ p \notin assigned /\ assigned' = assigned \cup {p}
                    /\ Cardinality(assigned') <= Required
                    /\ status \in {"PENDING_PROVIDER", "PENDING_CLIENT"}
                    /\ status' = "PENDING_CLIENT"
                    /\ \A q \in Providers : invitation'[q] # "PENDING"
  BY DEF TakesAFreeSeat
<1>1. p = req[w].prov
  BY DEF AcceptCommit
<1>2. /\ p \notin assigned /\ assigned' = assigned \cup {p}
      /\ status' = "PENDING_CLIENT"
      /\ \A q \in Providers : invitation'[q] # "PENDING"
  BY <1>1 DEF AcceptCommit
<1>3. SeatOpen
  BY DEF AcceptCommit, IndInv, SeatStaysOpen
<1>4. IsFiniteSet(assigned)
  BY ConstantsAssumption, FS_Subset DEF IndInv, TypeOK
<1>5. Cardinality(assigned') = Cardinality(assigned) + 1
  BY <1>2, <1>4, FS_AddElement
<1>6. Cardinality(assigned) \in Nat
  BY <1>4, FS_CardinalityType
<1>7. Cardinality(assigned') <= Required
  BY <1>3, <1>5, <1>6, ConstantsAssumption DEF SeatOpen
<1> QED
  BY <1>2, <1>3, <1>7 DEF SeatOpen

\* Every acceptance takes a free seat of an open booking and ends the other
\* offers, under every interleaving with the jobs, Ops and the client.
THEOREM AcceptanceIsSafe == Spec => AcceptTakesAFreeSeat
<1>1. Init => IndInv
  BY InitType
     DEF Init, Idle, IndInv, RowLockExclusive, SeatStaysOpen
<1>2. IndInv /\ [Next]_vars => IndInv'
  BY NextType, NextLock DEF IndInv
<1>3. IndInv /\ [Next]_vars => [\A p \in Providers : TakesAFreeSeat(p)]_vars
  <2> SUFFICES ASSUME IndInv, Next
               PROVE  \A p \in Providers : TakesAFreeSeat(p)
    OBVIOUS
  <2>1. CASE \E w \in Workers : AcceptCommit(w)
    BY <2>1, AcceptCommitTakesAFreeSeat
  <2>2. CASE \A w \in Workers : ~AcceptCommit(w)
    BY <2>2, OnlyAcceptCommitAccepts
       DEF IndInv, NoNewAcceptance, TakesAFreeSeat
  <2> QED
    BY <2>1, <2>2
<1> QED
  BY <1>1, <1>2, <1>3, PTL DEF Spec, AcceptTakesAFreeSeat

\* The steps that leave every invitation as it is.
LEMMA InvitationWriters ==
    ASSUME TypeOK, Next,
           \A w \in Workers : ~AcceptCommit(w) /\ ~DispatchInvite(w),
           \A p \in Providers : ~Decline(p)
    PROVE  UNCHANGED invitation
<1>1. ASSUME NEW w \in Workers, Start(w) \/ RetryJob(w) \/ PromoteJob(w) \/ Crash(w)
      PROVE  UNCHANGED invitation
  BY <1>1
     DEF Start, Create, CreatePlanned, CreateShortNotice, CreateShortNoticeByOps,
         DispatchRead, AcceptRead, ClientCancelRead, OpsCancelRead,
         MissionCancelRead, MissionRead, UpdateRead, UpdateStatus, UpdateMode,
         UpdateStart, FallbackRead,
         RetryJob, RetryMatched, RetryUnmatched, PromoteJob, PromoteRead, Crash,
         booking
<1>2. ASSUME NEW w \in Workers, Continue(w)
      PROVE  UNCHANGED invitation
  BY <1>2
     DEF Continue, Dispatch, DispatchMatch, DispatchSkip, DispatchActivate,
         Accept, AcceptLock, AcceptRefused, Reassign, ReassignDelete,
         ReassignInsert, ReassignCommit, RetryFailure, RetryCount,
         RetryEscalate, CancelWrite, MissionWrite, UpdateWrite, booking
<1>3. CASE StartPasses
  BY <1>3 DEF StartPasses
<1> QED
  BY <1>1, <1>2, <1>3 DEF Next

\* No offer is reopened and no answer turned into an acceptance.
THEOREM AnswersAreFinal == Spec => AnsweredOnce
<1>1. TypeOK /\ [Next]_vars => [\A p \in Providers : KeepsAnswer(p)]_vars
  <2> SUFFICES ASSUME TypeOK, Next, NEW p \in Providers
               PROVE  KeepsAnswer(p)
    OBVIOUS
  <2>1. ASSUME NEW w \in Workers, AcceptCommit(w)
        PROVE  KeepsAnswer(p)
    BY <2>1 DEF AcceptCommit, KeepsAnswer
  <2>2. ASSUME NEW w \in Workers, DispatchInvite(w)
        PROVE  KeepsAnswer(p)
    BY <2>2 DEF DispatchInvite, KeepsAnswer
  <2>3. ASSUME NEW q \in Providers, Decline(q)
        PROVE  KeepsAnswer(p)
    BY <2>3 DEF Decline, KeepsAnswer, TypeOK
  <2>4. CASE UNCHANGED invitation
    BY <2>4 DEF KeepsAnswer
  <2> QED
    BY <2>1, <2>2, <2>3, <2>4, InvitationWriters
<1> QED
  BY <1>1, TypeCorrect, PTL DEF Spec, AnsweredOnce

(***************************************************************************)
(* Seats, when no writer deletes and recreates assignments.                *)
(***************************************************************************)
NoRecreation ==
    \A w \in Workers :
        req[w].pc \notin {"update_read", "reassign_planned",
                          "reassign_deleting", "reassign_inserted"}

SeatInv == IndInv /\ NoRecreation /\ SeatsNeverOversold

LEMMA NoRecreationStarts ==
    ASSUME OffersOnly, IndInv, NoRecreation, [Next]_vars
    PROVE  NoRecreation'
<1> DEFINE bad == {"update_read", "reassign_planned",
                   "reassign_deleting", "reassign_inserted"}
<1>t. TypeOK /\ RetryJobs = {} /\ PromoteJobs = {}
      /\ "update" \notin Kinds /\ "fallback" \notin Kinds
  BY DEF IndInv, OffersOnly
<1>0. ASSUME NEW w \in Workers, NEW r, Become(w, r), r.pc \notin bad
      PROVE  NoRecreation'
  BY <1>t, <1>0 DEF TypeOK, Become, NoRecreation
<1>1. ASSUME NEW w \in Workers, Finish(w)
      PROVE  NoRecreation'
  BY <1>t, <1>1 DEF TypeOK, Finish, Become, Idle, NoRecreation
<1>2. ASSUME NEW w \in Workers, Start(w)
      PROVE  NoRecreation'
  <2>1. ~FallbackRead(w)
    BY <1>t DEF FallbackRead, Arrives
  <2>2. ASSUME NEW targets, NEW s
        PROVE  ~UpdateRead(w, targets, s)
    BY <1>t DEF UpdateRead, Arrives
  <2>3. CASE UNCHANGED req
    BY <2>3 DEF NoRecreation
  <2>4. ASSUME NEW plan \in SUBSET Providers, CreateShortNoticeByOps(w, plan)
        PROVE  NoRecreation'
    BY <2>4, <1>0 DEF CreateShortNoticeByOps, Idle
  <2>5. CASE DispatchRead(w)
    BY <2>5, <1>0 DEF DispatchRead, Idle
  <2>6. ASSUME NEW p \in Providers, AcceptRead(w, p)
        PROVE  NoRecreation'
    BY <2>6, <1>0 DEF AcceptRead, Idle
  <2>7. CASE ClientCancelRead(w) \/ OpsCancelRead(w) \/ MissionCancelRead(w)
    BY <2>7, <1>0 DEF ClientCancelRead, OpsCancelRead, MissionCancelRead, Idle
  <2>8. ASSUME NEW p \in Providers, NEW s \in OpsStatuses, MissionRead(w, p, s)
        PROVE  NoRecreation'
    BY <2>8, <1>0 DEF MissionRead, Idle
  <2> QED
    BY <1>2, <2>1, <2>2, <2>3, <2>4, <2>5, <2>6, <2>7, <2>8
       DEF Start, Create, CreatePlanned, CreateShortNotice, UpdateStatus,
           UpdateMode, UpdateStart
<1>3. ASSUME NEW w \in Workers, Dispatch(w) \/ Accept(w)
      PROVE  NoRecreation'
  <2>t. req[w] \in Request
    BY <1>t DEF TypeOK
  <2>1. ASSUME NEW plan \in SUBSET Providers, DispatchMatch(w, plan)
        PROVE  NoRecreation'
    <3> DEFINE r == [req[w] EXCEPT !.pc = "dispatch_matched", !.plan = plan]
    <3>1. r.pc = "dispatch_matched"
      BY <2>t DEF Request
    <3>2. Become(w, r)
      BY <2>1 DEF DispatchMatch
    <3> QED
      BY <3>1, <3>2, <1>0
  <2>2. CASE DispatchInvite(w)
    BY <1>t, <2>2, <1>0, PhaseOf DEF DispatchInvite
  <2>3. CASE AcceptLock(w)
    <3>1. CASE SeatOpen
      BY <1>t, <3>1, <2>3, <1>0, PhaseOf DEF AcceptLock
    <3>2. CASE ~SeatOpen
      BY <3>2, <2>3, <1>1 DEF AcceptLock, Finish
    <3> QED
      BY <3>1, <3>2
  <2> QED
    BY <1>1, <1>3, <2>1, <2>2, <2>3
       DEF Dispatch, Accept, DispatchSkip, DispatchActivate, AcceptCommit,
           AcceptRefused
<1>4. ASSUME NEW w \in Workers, RetryFailure(w)
      PROVE  NoRecreation'
  <2>1. ASSUME NEW match, RetryCount(w, match)
        PROVE  NoRecreation'
    <3>1. Idle.pc \notin bad /\ [Idle EXCEPT !.pc = "retry_escalate"].pc \notin bad
      BY DEF Idle
    <3> QED
      BY <2>1, <3>1, <1>0 DEF RetryCount
  <2> QED
    BY <1>1, <1>4, <2>1 DEF RetryFailure, RetryEscalate
<1>5. ASSUME NEW w \in Workers, Reassign(w) \/ UpdateWrite(w)
      PROVE  FALSE
  BY <1>5 DEF Reassign, ReassignDelete, ReassignInsert, ReassignCommit,
              UpdateWrite, NoRecreation
<1>6. ASSUME NEW w \in Workers, RetryJob(w) \/ PromoteJob(w)
      PROVE  FALSE
  BY <1>t, <1>6 DEF RetryJob, RetryMatched, RetryUnmatched, PromoteJob, PromoteRead
<1>7. ASSUME NEW w \in Workers, CancelWrite(w) \/ MissionWrite(w) \/ Crash(w)
      PROVE  NoRecreation'
  BY <1>1, <1>7 DEF CancelWrite, MissionWrite, Crash
<1>8. CASE UNCHANGED req
  BY <1>8 DEF NoRecreation
<1> QED
  BY <1>2, <1>3, <1>4, <1>5, <1>6, <1>7, <1>8
     DEF Next, Continue, Decline, StartPasses, vars

LEMMA SeatsStayWithinRequired ==
    ASSUME SeatInv, [Next]_vars
    PROVE  SeatsNeverOversold'
<1>t. TypeOK /\ IndInv
  BY DEF SeatInv, IndInv
<1>1. ASSUME NEW w \in Workers, NEW kind, NEW preferred \in BOOLEAN,
             NEW plan \in SUBSET Providers,
             CreatePlanned(w, kind, preferred, plan)
      PROVE  SeatsNeverOversold'
  <2>1. Cardinality(plan) = Required \/ Cardinality(plan) <= Required
    BY <1>1 DEF CreatePlanned, AssignmentPlans
  <2>2. assigned' = plan
    BY <1>1 DEF CreatePlanned
  <2> QED
    BY <2>1, <2>2, ConstantsAssumption DEF SeatsNeverOversold
<1>2. ASSUME NEW w \in Workers, AcceptCommit(w)
      PROVE  SeatsNeverOversold'
  <2>1. SeatOpen /\ assigned' = assigned \cup {req[w].prov}
        /\ req[w].prov \notin assigned
    BY <1>t, <1>2 DEF AcceptCommit, IndInv, SeatStaysOpen
  <2>2. IsFiniteSet(assigned)
    BY <1>t, ConstantsAssumption, FS_Subset DEF TypeOK
  <2>3. Cardinality(assigned') = Cardinality(assigned) + 1
    BY <2>1, <2>2, FS_AddElement
  <2>4. Cardinality(assigned) \in Nat
    BY <2>2, FS_CardinalityType
  <2> QED
    BY <2>1, <2>3, <2>4, ConstantsAssumption DEF SeatOpen, SeatsNeverOversold
<1>3. ASSUME NEW w \in Workers, Reassign(w) \/ UpdateWrite(w)
      PROVE  FALSE
  BY <1>3 DEF Reassign, ReassignDelete, ReassignInsert, ReassignCommit,
              UpdateWrite, SeatInv, NoRecreation
<1>4. CASE UNCHANGED assigned
  BY <1>4 DEF SeatInv, SeatsNeverOversold
<1>5. ASSUME NEW w \in Workers,
             Start(w) \/ RetryJob(w) \/ PromoteJob(w) \/ Crash(w)
      PROVE  SeatsNeverOversold'
  BY <1>1, <1>4, <1>5
     DEF Start, Create, CreateShortNotice, CreateShortNoticeByOps,
         DispatchRead, AcceptRead, ClientCancelRead, OpsCancelRead,
         MissionCancelRead, MissionRead, UpdateRead, UpdateStatus, UpdateMode,
         UpdateStart, FallbackRead,
         RetryJob, RetryMatched, RetryUnmatched, PromoteJob, PromoteRead, Crash,
         booking
<1>6. ASSUME NEW w \in Workers, Continue(w)
      PROVE  SeatsNeverOversold'
  BY <1>2, <1>3, <1>4, <1>6
     DEF Continue, Dispatch, DispatchMatch, DispatchSkip, DispatchInvite,
         DispatchActivate, Accept, AcceptLock, AcceptRefused, RetryFailure,
         RetryCount, RetryEscalate, CancelWrite, MissionWrite, booking
<1> QED
  BY <1>4, <1>5, <1>6 DEF Next, Decline, StartPasses, vars

LEMMA SeatInvAtFirst == Init => SeatInv
<1> SUFFICES ASSUME Init
             PROVE  SeatInv
  OBVIOUS
<1>1. IndInv
  BY InitType DEF Init, Idle, IndInv, RowLockExclusive, SeatStaysOpen
<1>2. NoRecreation
  BY DEF Init, Idle, NoRecreation
<1>3. Cardinality(assigned) = 0
  BY FS_EmptySet DEF Init
<1> QED
  BY <1>1, <1>2, <1>3, ConstantsAssumption DEF SeatInv, SeatsNeverOversold

LEMMA SeatInvStays ==
    ASSUME OffersOnly, SeatInv, [Next]_vars
    PROVE  SeatInv'
BY NextType, NextLock, NoRecreationStarts, SeatsStayWithinRequired
   DEF SeatInv, IndInv

\* Acceptances, creations, cancellations and broadcasts alone never give a
\* booking more providers than it requires, however they interleave and crash.
THEOREM OffersNeverOversell ==
    ASSUME OffersOnly
    PROVE  Spec => []SeatsNeverOversold
<1>1. SeatInv => SeatsNeverOversold
  BY DEF SeatInv
<1> QED
  BY SeatInvAtFirst, SeatInvStays, <1>1, PTL DEF Spec

(***************************************************************************)
(* A booking that does not exist has no requests, offers, seats or retries,*)
(* and no step removes a booking: what a step finds decides what it may    *)
(* do, so every lemma below can leave the creation apart.                  *)
(***************************************************************************)
NothingBefore ==
    ~Exists => /\ \A w \in Workers : IdleAt(w)
               /\ assigned = {} /\ retry = NoRetry
               /\ \A p \in Providers : invitation[p] = "NONE"

LEMMA BookingsStay ==
    ASSUME TypeOK, [Next]_vars, Exists
    PROVE  Exists'
<1> USE DEF Exists
<1>1. ASSUME NEW w \in Workers, MissionWrite(w)
      PROVE  Exists'
  <2>1. req[w] \in Request /\ req[w].pc = "mission_read" /\ status' = req[w].seen
    BY <1>1 DEF TypeOK, MissionWrite
  <2>2. req[w].seen \in BookingStatus
    BY <2>1 DEF Request
  <2> QED
    BY <2>1, <2>2 DEF BookingStatus
<1>2. ASSUME NEW s \in OpsStatuses, status' = s
      PROVE  Exists'
  BY <1>2, ConstantsAssumption DEF BookingStatus
<1>3. ASSUME NEW w \in Workers, UpdateWrite(w)
      PROVE  Exists'
  BY <1>3 DEF UpdateWrite
<1>4. CASE UNCHANGED status
  BY <1>4
<1>5. ASSUME NEW w \in Workers, Start(w)
      PROVE  Exists'
  BY <1>2, <1>4, <1>5
     DEF Start, Create, CreatePlanned, CreateShortNotice, CreateShortNoticeByOps,
         DispatchRead, AcceptRead, ClientCancelRead, OpsCancelRead,
         MissionCancelRead, MissionRead, UpdateRead, UpdateStatus, UpdateMode,
         UpdateStart, FallbackRead, booking
<1>6. ASSUME NEW w \in Workers, Continue(w)
      PROVE  Exists'
  BY <1>1, <1>3, <1>4, <1>6
     DEF Continue, Dispatch, DispatchMatch, DispatchSkip, DispatchInvite,
         DispatchActivate, Accept, AcceptLock, AcceptCommit, AcceptRefused,
         Reassign, ReassignDelete, ReassignInsert, ReassignCommit,
         RetryFailure, RetryCount, RetryEscalate, CancelWrite, booking
<1>7. ASSUME NEW w \in Workers, RetryJob(w) \/ PromoteJob(w) \/ Crash(w)
      PROVE  Exists'
  BY <1>4, <1>7
     DEF RetryJob, RetryMatched, RetryUnmatched, PromoteJob, PromoteRead, Crash,
         booking
<1> QED
  BY <1>4, <1>5, <1>6, <1>7 DEF Next, Decline, StartPasses, vars

\* What a step does to a booking that does not exist: it creates it, or nothing.
LEMMA OnlyCreation ==
    ASSUME NothingBefore, ~Exists, Next
    PROVE  \E w \in Workers : Create(w)
<1>t. /\ \A w \in Workers : req[w].pc = "idle"
      /\ assigned = {} /\ retry.candidate = NoTeam
      /\ \A p \in Providers : invitation[p] = "NONE"
      /\ status = "NONE"
  BY DEF NothingBefore, NoRetry, IdleAt, Exists
<1> USE <1>t DEF Exists
<1>1. ASSUME NEW w \in Workers, Start(w)
      PROVE  Create(w)
  BY <1>1 DEF Start, DispatchRead, AcceptRead, ClientCancelRead, OpsCancelRead,
              MissionCancelRead, MissionRead, UpdateRead, UpdateStatus,
              UpdateMode, UpdateStart, FallbackRead
<1>2. ASSUME NEW w \in Workers, Continue(w)
      PROVE  FALSE
  BY <1>2 DEF Continue, Dispatch, DispatchMatch, DispatchSkip, DispatchInvite,
              DispatchActivate, Accept, AcceptLock, AcceptCommit, AcceptRefused,
              Reassign, ReassignDelete, ReassignInsert, ReassignCommit,
              RetryFailure, RetryCount, RetryEscalate, CancelWrite,
              MissionWrite, UpdateWrite
<1>3. ASSUME NEW w \in Workers, RetryJob(w) \/ PromoteJob(w) \/ Crash(w)
      PROVE  FALSE
  BY <1>3 DEF RetryJob, RetryMatched, RetryUnmatched, PromoteJob, PromoteRead,
              Crash, IdleAt
<1>4. ~StartPasses /\ \A p \in Providers : ~Decline(p)
  BY DEF StartPasses, Decline
<1> QED
  BY <1>1, <1>2, <1>3, <1>4 DEF Next

LEMMA CreationExists ==
    ASSUME NEW w \in Workers, Create(w)
    PROVE  Exists'
BY DEF Create, CreatePlanned, CreateShortNotice, CreateShortNoticeByOps,
       resolveInitialStatus, Exists

LEMMA NothingBeforeStays ==
    TypeOK /\ NothingBefore /\ [Next]_vars => NothingBefore'
<1> SUFFICES ASSUME TypeOK, NothingBefore, [Next]_vars
             PROVE  NothingBefore'
  OBVIOUS
<1>1. CASE Exists
  BY <1>1, BookingsStay DEF NothingBefore
<1>2. CASE ~Exists /\ Next
  BY <1>2, OnlyCreation, CreationExists DEF NothingBefore
<1>3. CASE UNCHANGED vars
  BY <1>3 DEF vars, NothingBefore, Exists, IdleAt
<1> QED
  BY <1>1, <1>2, <1>3

LEMMA NothingAtFirst == Init => NothingBefore
BY DEF Init, NothingBefore, IdleAt, Idle

(***************************************************************************)
(* Who was told "accepted" keeps the seat, when no writer deletes and      *)
(* recreates assignments: only a creation replaces them, and before it     *)
(* nobody has accepted.                                                    *)
(***************************************************************************)
KeepInv == SeatInv /\ NothingBefore /\ AcceptedKeepsSeat

LEMMA AcceptedStays ==
    ASSUME KeepInv, [Next]_vars
    PROVE  AcceptedKeepsSeat'
<1>t. TypeOK /\ NothingBefore /\ AcceptedKeepsSeat
  BY DEF KeepInv, SeatInv, IndInv
<1>1. CASE ~Exists /\ Next
  <2>1. PICK w \in Workers : Create(w)
    BY <1>t, <1>1, OnlyCreation
  <2>2. UNCHANGED invitation
    BY <2>1 DEF Create, CreatePlanned, CreateShortNotice, CreateShortNoticeByOps
  <2> QED
    BY <1>t, <1>1, <2>2 DEF NothingBefore, AcceptedKeepsSeat
<1>2. ASSUME NEW w \in Workers, Reassign(w) \/ UpdateWrite(w)
      PROVE  FALSE
  BY <1>2 DEF Reassign, ReassignDelete, ReassignInsert, ReassignCommit,
              UpdateWrite, KeepInv, SeatInv, NoRecreation
<1>3. ASSUME NEW w \in Workers, Start(w), Exists
      PROVE  UNCHANGED <<assigned, invitation>>
  BY <1>3
     DEF Start, Create, CreatePlanned, CreateShortNotice, CreateShortNoticeByOps,
         DispatchRead, AcceptRead, ClientCancelRead, OpsCancelRead,
         MissionCancelRead, MissionRead, UpdateRead, UpdateStatus, UpdateMode,
         UpdateStart, FallbackRead, booking
<1>4. ASSUME NEW w \in Workers, Continue(w),
             ~AcceptCommit(w), ~DispatchInvite(w)
      PROVE  UNCHANGED <<assigned, invitation>>
  BY <1>2, <1>4
     DEF Continue, Dispatch, DispatchMatch, DispatchSkip, DispatchActivate,
         Accept, AcceptLock, AcceptRefused, RetryFailure,
         RetryCount, RetryEscalate, CancelWrite, MissionWrite, booking
<1>5. ASSUME NEW w \in Workers, RetryJob(w) \/ PromoteJob(w) \/ Crash(w)
      PROVE  UNCHANGED <<assigned, invitation>>
  BY <1>5
     DEF RetryJob, RetryMatched, RetryUnmatched, PromoteJob, PromoteRead, Crash,
         booking
<1>6. ASSUME NEW w \in Workers, AcceptCommit(w) \/ DispatchInvite(w)
      PROVE  AcceptedKeepsSeat'
  BY <1>t, <1>6 DEF AcceptCommit, DispatchInvite, AcceptedKeepsSeat, TypeOK
<1>7. ASSUME NEW p \in Providers, Decline(p)
      PROVE  AcceptedKeepsSeat'
  BY <1>t, <1>7 DEF Decline, AcceptedKeepsSeat, TypeOK
<1>8. CASE UNCHANGED <<assigned, invitation>>
  BY <1>t, <1>8 DEF AcceptedKeepsSeat
<1> QED
  BY <1>1, <1>3, <1>4, <1>5, <1>6, <1>7, <1>8 DEF Next, StartPasses, vars

\* Under the same condition, a provider whose acceptance was confirmed keeps its
\* assignment until it declines, whatever is broadcast, cancelled or accepted
\* beside it.
THEOREM AcceptedProvidersKeepTheirSeat ==
    ASSUME OffersOnly
    PROVE  Spec => []AcceptedKeepsSeat
<1>1. Init => KeepInv
  BY SeatInvAtFirst, NothingAtFirst DEF KeepInv, AcceptedKeepsSeat, Init
<1>2. KeepInv /\ [Next]_vars => KeepInv'
  BY SeatInvStays, NothingBeforeStays, AcceptedStays
     DEF KeepInv, SeatInv, IndInv
<1>3. KeepInv => AcceptedKeepsSeat
  BY DEF KeepInv
<1> QED
  BY <1>1, <1>2, <1>3, PTL DEF Spec

(***************************************************************************)
(* The offer phase implements SeatOffer.  A step of SeatOffer that moves   *)
(* the status needs a booking (NothingBefore) and, for a mission update, a *)
(* status that a provider may ask for, which the write does not check.     *)
(***************************************************************************)
MissionAllowed ==
    \A w \in Workers :
        req[w].pc = "mission_read" => req[w].seen \in PROVIDER_ALLOWED_STATUSES

OfferInv == SeatInv /\ NothingBefore /\ MissionAllowed

\* A step leaves the requests it is not about alone, and its own does not become
\* a mission update unless it is one that has been checked.
LEMMA MissionAllowedStays ==
    ASSUME TypeOK, MissionAllowed, [Next]_vars
    PROVE  MissionAllowed'
<1>0. ASSUME NEW w \in Workers, NEW r, Become(w, r), r.pc # "mission_read"
      PROVE  MissionAllowed'
  BY <1>0 DEF TypeOK, Become, MissionAllowed
<1>1. ASSUME NEW w \in Workers, Finish(w)
      PROVE  MissionAllowed'
  BY <1>1 DEF TypeOK, Finish, Become, Idle, MissionAllowed
<1>2. ASSUME NEW w \in Workers, NEW gone, Committed(w, gone)
      PROVE  MissionAllowed'
  <2>1. \A v \in Workers : req[v] \in Request
    BY DEF TypeOK
  <2>2. \A v \in Workers :
            /\ [req[v] EXCEPT !.doomed = @ \ gone].pc = req[v].pc
            /\ [req[v] EXCEPT !.doomed = @ \ gone].seen = req[v].seen
    BY <2>1 DEF Request
  <2> QED
    BY <1>2, <2>2 DEF Committed, Idle, MissionAllowed
<1>3. CASE UNCHANGED req
  BY <1>3 DEF MissionAllowed
<1>4. ASSUME NEW w \in Workers, Start(w)
      PROVE  MissionAllowed'
  <2>1. ASSUME NEW p \in Providers, NEW s \in OpsStatuses, MissionRead(w, p, s)
        PROVE  MissionAllowed'
    BY <2>1 DEF MissionRead, TypeOK, Become, Idle, MissionAllowed
  <2>2. ASSUME NEW targets, NEW s, UpdateRead(w, targets, s)
        PROVE  MissionAllowed'
    BY <2>2, <1>0 DEF UpdateRead, Idle
  <2>3. ASSUME NEW plan, CreateShortNoticeByOps(w, plan)
        PROVE  MissionAllowed'
    BY <2>3, <1>0 DEF CreateShortNoticeByOps, Idle
  <2>4. CASE FallbackRead(w)
    BY <2>4, <1>0 DEF FallbackRead, ReassignPlanned, Idle
  <2>5. ASSUME NEW p \in Providers, AcceptRead(w, p)
        PROVE  MissionAllowed'
    BY <2>5, <1>0 DEF AcceptRead, Idle
  <2>6. CASE DispatchRead(w) \/ ClientCancelRead(w) \/ OpsCancelRead(w) \/ MissionCancelRead(w)
    BY <2>6, <1>0 DEF DispatchRead, ClientCancelRead, OpsCancelRead, MissionCancelRead, Idle
  <2> QED
    BY <1>3, <1>4, <2>1, <2>2, <2>3, <2>4, <2>5, <2>6
       DEF Start, Create, CreatePlanned, CreateShortNotice, UpdateStatus,
           UpdateMode, UpdateStart
<1>5. ASSUME NEW w \in Workers, Continue(w)
      PROVE  MissionAllowed'
  <2>t. req[w] \in Request
    BY DEF TypeOK
  <2>1. ASSUME NEW plan \in SUBSET Providers, DispatchMatch(w, plan)
        PROVE  MissionAllowed'
    <3> DEFINE r == [req[w] EXCEPT !.pc = "dispatch_matched", !.plan = plan]
    <3>1. r.pc = "dispatch_matched" /\ Become(w, r)
      BY <2>t, <2>1 DEF Request, DispatchMatch
    <3> QED
      BY <3>1, <1>0
  <2>2. CASE DispatchInvite(w)
    BY <2>2, <1>0, PhaseOf DEF DispatchInvite
  <2>3. CASE AcceptLock(w)
    <3>1. CASE SeatOpen
      BY <3>1, <2>3, <1>0, PhaseOf DEF AcceptLock
    <3>2. CASE ~SeatOpen
      BY <3>2, <2>3, <1>1 DEF AcceptLock, Finish
    <3> QED
      BY <3>1, <3>2
  <2>4. CASE ReassignDelete(w)
    <3> DEFINE r == [req[w] EXCEPT !.pc = "reassign_deleting", !.doomed = assigned]
    <3>1. r.pc = "reassign_deleting" /\ Become(w, r)
      BY <2>t, <2>4 DEF Request, ReassignDelete
    <3> QED
      BY <3>1, <1>0
  <2>5. CASE ReassignInsert(w)
    <3>1. CASE req[w].plan \cap (assigned \ req[w].doomed) = {}
      BY <3>1, <2>5, <1>0, PhaseOf DEF ReassignInsert
    <3>2. CASE req[w].plan \cap (assigned \ req[w].doomed) # {}
      BY <3>2, <2>5, <1>1 DEF ReassignInsert, Finish
    <3> QED
      BY <3>1, <3>2
  <2>6. ASSUME NEW match, RetryCount(w, match)
        PROVE  MissionAllowed'
    <3>1. Idle.pc # "mission_read"
          /\ [Idle EXCEPT !.pc = "retry_escalate"].pc # "mission_read"
      BY DEF Idle
    <3> QED
      BY <2>6, <3>1, <1>0 DEF RetryCount
  <2> QED
    BY <1>1, <1>2, <1>5, <2>1, <2>2, <2>3, <2>4, <2>5, <2>6
       DEF Continue, Dispatch, DispatchSkip, DispatchActivate, Accept,
           AcceptCommit, AcceptRefused, Reassign, ReassignCommit, RetryFailure,
           RetryEscalate, CancelWrite, MissionWrite, UpdateWrite
<1>6. ASSUME NEW w \in Workers, RetryJob(w) \/ PromoteJob(w) \/ Crash(w)
      PROVE  MissionAllowed'
  <2>1. ASSUME NEW plan, ReassignPlanned(w, plan)
        PROVE  MissionAllowed'
    BY <2>1, <1>0 DEF ReassignPlanned, Idle
  <2>2. CASE RetryUnmatched(w)
    BY <2>2, <1>0 DEF RetryUnmatched, Idle
  <2> QED
    BY <1>1, <1>6, <2>1, <2>2
       DEF RetryJob, RetryMatched, PromoteJob, PromoteRead, Crash
<1> QED
  BY <1>3, <1>4, <1>5, <1>6 DEF Next, Decline, StartPasses, vars

\* Seats are counted alike in both modules.
LEMMA SameCardinality == \A S : Offers!Cardinality(S) = Cardinality(S)
BY DEF Offers!Cardinality, Cardinality

\* A creation opens the booking with at most the seats it requires.
LEMMA CreationOpens ==
    ASSUME OfferInv, NEW w \in Workers, Create(w)
    PROVE  Offers!Next
<1>t. TypeOK /\ assigned = {} /\ status = "NONE"
  BY DEF OfferInv, SeatInv, IndInv, NothingBefore, Create, CreatePlanned,
         CreateShortNotice, CreateShortNoticeByOps, Exists
<1>1. SUFFICES \E S \in SUBSET Providers : Offers!Open(S)
  BY DEF Offers!Next
<1>2. ASSUME NEW kind, NEW preferred \in BOOLEAN, NEW plan \in SUBSET Providers,
             CreatePlanned(w, kind, preferred, plan)
      PROVE  Offers!Open(plan)
  <2>1. Cardinality(plan) <= Required
    BY <1>2, ConstantsAssumption DEF CreatePlanned, AssignmentPlans
  <2> QED
    BY <1>2, <1>t, <2>1, SameCardinality
       DEF CreatePlanned, Offers!Open, resolveInitialStatus
<1>3. ASSUME CreateShortNotice(w) \/ \E plan \in SUBSET Providers : CreateShortNoticeByOps(w, plan)
      PROVE  Offers!Open({})
  <2>1. Cardinality({}) <= Required
    BY FS_EmptySet, ConstantsAssumption
  <2> QED
    BY <1>3, <1>t, <2>1, SameCardinality
       DEF CreateShortNotice, CreateShortNoticeByOps, Offers!Open,
           resolveInitialStatus
<1> QED
  BY <1>2, <1>3 DEF Create

\* A broadcast offers a seat to those of its plan who never had an offer.
LEMMA BroadcastOffers ==
    ASSUME OfferInv, NEW w \in Workers, DispatchInvite(w)
    PROVE  Offers!Next
<1> DEFINE invited == {p \in req[w].plan : invitation[p] = "NONE"}
<1>1. req[w] \in Request
  BY DEF OfferInv, SeatInv, IndInv, TypeOK
<1>2. invited \in SUBSET Providers
  BY <1>1 DEF Request
<1>3. Offers!Offer(invited)
  BY DEF DispatchInvite, Offers!Offer
<1> QED
  BY <1>2, <1>3 DEF Offers!Next

\* A confirmed acceptance takes a seat that is free under the row lock.
LEMMA AcceptanceTakes ==
    ASSUME OfferInv, NEW w \in Workers, AcceptCommit(w)
    PROVE  Offers!Next
<1>1. req[w] \in Request /\ req[w].pc = "accept_locked" /\ SeatOpen
  BY DEF OfferInv, SeatInv, IndInv, TypeOK, SeatStaysOpen, AcceptCommit
<1>2. req[w].prov \in Providers
  BY <1>1 DEF Request
<1>3. Offers!TakeSeat(req[w].prov)
  BY <1>1, SameCardinality DEF AcceptCommit, SeatOpen, Offers!TakeSeat
<1> QED
  BY <1>2, <1>3 DEF Offers!Next

\* A write of the status that was read before, or sent with the request.
LEMMA WriteMoves ==
    ASSUME OfferInv, NEW w \in Workers,
           CancelWrite(w) \/ MissionWrite(w) \/ DispatchActivate(w)
    PROVE  Offers!Next \/ UNCHANGED Offers!vars
<1>1. status # "NONE"
  BY DEF OfferInv, NothingBefore, IdleAt, Exists, CancelWrite, MissionWrite,
         DispatchActivate
<1>2. ASSUME MissionWrite(w)
      PROVE  status' \in PROVIDER_ALLOWED_STATUSES
  BY <1>2 DEF MissionWrite, OfferInv, MissionAllowed
<1> QED
  BY <1>1, <1>2
     DEF CancelWrite, MissionWrite, DispatchActivate, Offers!Next, Offers!Move,
         Offers!vars, PROVIDER_ALLOWED_STATUSES

\* Every step of the offer phase is a step of SeatOffer, or leaves the status, the
\* seats and the offers as they are.
LEMMA StepsImplementOffers ==
    ASSUME OffersOnly, OfferInv, [Next]_vars
    PROVE  [Offers!Next]_(Offers!vars)
<1>1. CASE UNCHANGED <<status, assigned, invitation>>
  BY <1>1 DEF Offers!vars
<1>2. ASSUME NEW w \in Workers, Start(w)
      PROVE  Create(w) \/ UNCHANGED <<status, assigned, invitation>>
  <2>1. \A s \in OpsStatuses : ~UpdateStatus(w, s)
    BY DEF OffersOnly, UpdateStatus, Arrives
  <2> QED
    BY <1>2, <2>1
       DEF Start, DispatchRead, AcceptRead, ClientCancelRead, OpsCancelRead,
           MissionCancelRead, MissionRead, UpdateRead, UpdateMode, UpdateStart,
           FallbackRead, booking
<1>3. ASSUME NEW w \in Workers, Continue(w)
      PROVE  \/ DispatchInvite(w) \/ AcceptCommit(w)
             \/ CancelWrite(w) \/ MissionWrite(w) \/ DispatchActivate(w)
             \/ UNCHANGED <<status, assigned, invitation>>
  <2>1. ~Reassign(w) /\ ~UpdateWrite(w)
    BY DEF Reassign, ReassignDelete, ReassignInsert, ReassignCommit,
           UpdateWrite, OfferInv, SeatInv, NoRecreation
  <2> QED
    BY <1>3, <2>1
       DEF Continue, Dispatch, DispatchMatch, DispatchSkip, Accept, AcceptLock,
           AcceptRefused, RetryFailure, RetryCount, RetryEscalate, booking
<1>4. ASSUME NEW w \in Workers, RetryJob(w) \/ PromoteJob(w) \/ Crash(w)
      PROVE  UNCHANGED <<status, assigned, invitation>>
  BY <1>4 DEF RetryJob, RetryMatched, RetryUnmatched, PromoteJob, PromoteRead,
              Crash, booking
<1>5. ASSUME NEW p \in Providers, Decline(p)
      PROVE  Offers!Next
  BY <1>5 DEF Decline, Offers!Next, Offers!Refuse
<1> QED
  BY <1>1, <1>2, <1>3, <1>4, <1>5,
     CreationOpens, BroadcastOffers, AcceptanceTakes, WriteMoves
     DEF Next, StartPasses, vars

\* Without the writers that recreate assignments, what the requests do to a
\* booking in separate reads, locks and writes is what SeatOffer does to it in
\* single steps: the reads before the lock and the stale writes of the status do
\* not show in the seats and the offers.
THEOREM OffersImplementSeatOffer ==
    ASSUME OffersOnly
    PROVE  Spec => ImplementsSeatOffer
<1>1. Init => OfferInv /\ Offers!Init
  BY SeatInvAtFirst, NothingAtFirst
     DEF OfferInv, Init, Idle, MissionAllowed, Offers!Init
<1>2. OfferInv /\ [Next]_vars => OfferInv'
  BY SeatInvStays, NothingBeforeStays, MissionAllowedStays
     DEF OfferInv, SeatInv, IndInv
<1>3. OfferInv /\ [Next]_vars => [Offers!Next]_(Offers!vars)
  BY StepsImplementOffers
<1> QED
  BY <1>1, <1>2, <1>3, PTL DEF Spec, ImplementsSeatOffer, Offers!Spec

(***************************************************************************)
(* Escalation, one request at a time.  The retry job counts a failure,     *)
(* then escalates in a second update, so the columns it counted must still *)
(* be there: with a second worker an assignment may reset them between.    *)
(***************************************************************************)
OneAtATime == \A v, w \in Workers : v = w

RetryKept ==
    \A w \in Workers :
        /\ req[w].pc = "retry_failed" => req[w].asked = retry.requested
        /\ req[w].pc = "retry_escalate" =>
             /\ retry.count >= MAX_MATCHING_RETRY_ATTEMPTS /\ retry.requested

EscalationInv == TypeOK /\ RetryKept /\ EscalatedMeansExhausted

\* A step that leaves the worker outside the two phases, and the columns as they
\* are or reset.
LEMMA OutsideRetry ==
    ASSUME OneAtATime, EscalationInv, NEW w \in Workers,
           req'[w].pc \notin {"retry_failed", "retry_escalate"},
           retry' \in {retry, NoRetry}
    PROVE  RetryKept' /\ EscalatedMeansExhausted'
<1>1. RetryKept'
  BY DEF OneAtATime, RetryKept
<1>2. EscalatedMeansExhausted'
  BY DEF EscalationInv, EscalatedMeansExhausted, NoRetry
<1> QED
  BY <1>1, <1>2

LEMMA RetryCountExhausts ==
    ASSUME OneAtATime, EscalationInv, NEW w \in Workers, NEW match,
           RetryCount(w, match)
    PROVE  RetryKept' /\ EscalatedMeansExhausted'
<1> DEFINE count == IF retry.count < RetryCap THEN retry.count + 1 ELSE RetryCap
<1>1. /\ retry.count \in 0..RetryCap /\ retry.requested \in BOOLEAN
      /\ retry.escalated \in BOOLEAN
      /\ retry = [count |-> retry.count, requested |-> retry.requested,
                  escalated |-> retry.escalated, candidate |-> retry.candidate]
  BY DEF EscalationInv, TypeOK
<1>2. req[w].asked = retry.requested
  BY DEF RetryCount, EscalationInv, RetryKept
<1>3. retry'.count = count /\ retry'.escalated = retry.escalated /\ retry'.requested = TRUE
  BY <1>1, <1>2 DEF RetryCount
<1>4. count >= retry.count
  BY <1>1, ConstantsAssumption
<1>5. EscalatedMeansExhausted'
  BY <1>1, <1>3, <1>4, ConstantsAssumption
     DEF EscalationInv, EscalatedMeansExhausted, MAX_MATCHING_RETRY_ATTEMPTS
<1>6. req'[w] = (IF Exhausted(count) THEN [Idle EXCEPT !.pc = "retry_escalate"] ELSE Idle)
  BY DEF RetryCount, Become, EscalationInv, TypeOK
<1>7. RetryKept'
  BY <1>3, <1>6 DEF Exhausted, Idle, OneAtATime, RetryKept
<1> QED
  BY <1>5, <1>7

LEMMA RetryStaysKept ==
    ASSUME OneAtATime, EscalationInv, [Next]_vars
    PROVE  RetryKept' /\ EscalatedMeansExhausted'
<1> DEFINE phases == {"retry_failed", "retry_escalate"}
<1>t. TypeOK
  BY DEF EscalationInv
<1>1. ASSUME NEW w \in Workers, NEW r, Become(w, r), r.pc \notin phases,
             retry' \in {retry, NoRetry}
      PROVE  RetryKept' /\ EscalatedMeansExhausted'
  <2>1. req'[w].pc \notin phases
    BY <1>t, <1>1 DEF TypeOK, Become
  <2> QED
    BY <1>1, <2>1, OutsideRetry
<1>2. ASSUME NEW w \in Workers, Finish(w), retry' \in {retry, NoRetry}
      PROVE  RetryKept' /\ EscalatedMeansExhausted'
  BY <1>1, <1>2 DEF Finish, Idle
<1>3. ASSUME NEW w \in Workers, NEW gone, Committed(w, gone),
             retry' \in {retry, NoRetry}
      PROVE  RetryKept' /\ EscalatedMeansExhausted'
  BY <1>3, OutsideRetry DEF Committed, Idle
<1>4. CASE UNCHANGED <<req, retry>>
  BY <1>4 DEF EscalationInv, RetryKept, EscalatedMeansExhausted
<1>5. ASSUME NEW w \in Workers, Start(w)
      PROVE  RetryKept' /\ EscalatedMeansExhausted'
  <2>1. ASSUME NEW p, NEW s, MissionRead(w, p, s)
        PROVE  RetryKept' /\ EscalatedMeansExhausted'
    BY <2>1, <1>1 DEF MissionRead, Idle, booking
  <2>2. ASSUME NEW targets, NEW s, UpdateRead(w, targets, s)
        PROVE  RetryKept' /\ EscalatedMeansExhausted'
    BY <2>2, <1>1 DEF UpdateRead, Idle, booking
  <2>3. ASSUME NEW plan, CreateShortNoticeByOps(w, plan)
        PROVE  RetryKept' /\ EscalatedMeansExhausted'
    BY <2>3, <1>1 DEF CreateShortNoticeByOps, Idle
  <2>4. CASE FallbackRead(w)
    BY <2>4, <1>1 DEF FallbackRead, ReassignPlanned, Idle, booking
  <2>5. ASSUME NEW p, AcceptRead(w, p)
        PROVE  RetryKept' /\ EscalatedMeansExhausted'
    BY <2>5, <1>1 DEF AcceptRead, Idle, booking
  <2>6. CASE DispatchRead(w) \/ ClientCancelRead(w) \/ OpsCancelRead(w) \/ MissionCancelRead(w)
    BY <2>6, <1>1 DEF DispatchRead, ClientCancelRead, OpsCancelRead,
                      MissionCancelRead, Idle, booking
  <2> QED
    BY <1>4, <1>5, <2>1, <2>2, <2>3, <2>4, <2>5, <2>6
       DEF Start, Create, CreatePlanned, CreateShortNotice, UpdateStatus,
           UpdateMode, UpdateStart
<1>6. ASSUME NEW w \in Workers, Dispatch(w) \/ Accept(w)
      PROVE  RetryKept' /\ EscalatedMeansExhausted'
  <2>t. req[w] \in Request
    BY <1>t DEF TypeOK
  <2>1. ASSUME NEW plan \in SUBSET Providers, DispatchMatch(w, plan)
        PROVE  RetryKept' /\ EscalatedMeansExhausted'
    <3> DEFINE r == [req[w] EXCEPT !.pc = "dispatch_matched", !.plan = plan]
    <3>1. r.pc = "dispatch_matched" /\ Become(w, r) /\ retry' = retry
      BY <2>t, <2>1 DEF Request, DispatchMatch, booking
    <3> QED
      BY <3>1, <1>1
  <2>2. CASE DispatchInvite(w)
    BY <1>t, <2>2, <1>1, PhaseOf DEF DispatchInvite
  <2>3. CASE AcceptLock(w)
    <3>1. CASE SeatOpen
      BY <1>t, <3>1, <2>3, <1>1, PhaseOf DEF AcceptLock, booking
    <3>2. CASE ~SeatOpen
      BY <3>2, <2>3, <1>2 DEF AcceptLock, Finish, booking
    <3> QED
      BY <3>1, <3>2
  <2> QED
    BY <1>2, <1>6, <2>1, <2>2, <2>3
       DEF Dispatch, Accept, DispatchSkip, DispatchActivate, AcceptCommit,
           AcceptRefused, booking
<1>7. ASSUME NEW w \in Workers, Reassign(w)
      PROVE  RetryKept' /\ EscalatedMeansExhausted'
  <2>t. req[w] \in Request
    BY <1>t DEF TypeOK
  <2>1. CASE ReassignDelete(w)
    <3> DEFINE r == [req[w] EXCEPT !.pc = "reassign_deleting", !.doomed = assigned]
    <3>1. r.pc = "reassign_deleting" /\ Become(w, r) /\ retry' = retry
      BY <2>t, <2>1 DEF Request, ReassignDelete, booking
    <3> QED
      BY <3>1, <1>1
  <2>2. CASE ReassignInsert(w)
    <3>1. CASE req[w].plan \cap (assigned \ req[w].doomed) = {}
      <4>1. retry' = retry
        BY <2>2 DEF ReassignInsert, booking
      <4>2. Become(w, [req[w] EXCEPT !.pc = "reassign_inserted"])
        BY <3>1, <2>2 DEF ReassignInsert
      <4> QED
        BY <1>t, <4>1, <4>2, <1>1, PhaseOf
    <3>2. CASE req[w].plan \cap (assigned \ req[w].doomed) # {}
      BY <3>2, <2>2, <1>2 DEF ReassignInsert, Finish, booking
    <3> QED
      BY <3>1, <3>2
  <2>3. CASE ReassignCommit(w)
    BY <2>3, <1>3 DEF ReassignCommit, RetryReset
  <2> QED
    BY <1>7, <2>1, <2>2, <2>3 DEF Reassign
<1>8. ASSUME NEW w \in Workers, CancelWrite(w) \/ MissionWrite(w) \/ UpdateWrite(w)
                                \/ Crash(w)
      PROVE  RetryKept' /\ EscalatedMeansExhausted'
  BY <1>2, <1>3, <1>8 DEF CancelWrite, MissionWrite, UpdateWrite, Crash, booking
<1>9. ASSUME NEW w \in Workers, RetryFailure(w)
      PROVE  RetryKept' /\ EscalatedMeansExhausted'
  <2>1. CASE RetryEscalate(w)
    <3>1. req'[w].pc = "idle" /\ RetryKept'
      BY <1>t, <2>1 DEF RetryEscalate, Finish, Become, Idle, TypeOK,
                        OneAtATime, RetryKept
    <3>2. retry.count >= MAX_MATCHING_RETRY_ATTEMPTS /\ retry.requested
      BY <2>1 DEF RetryEscalate, EscalationInv, RetryKept
    <3>3. retry'.count = retry.count /\ retry'.requested = retry.requested
      BY <1>t, <2>1 DEF RetryEscalate, TypeOK
    <3> QED
      BY <3>1, <3>2, <3>3 DEF EscalatedMeansExhausted
  <2> QED
    BY <1>9, <2>1, RetryCountExhausts DEF RetryFailure
<1>10. ASSUME NEW w \in Workers, RetryJob(w) \/ PromoteJob(w)
       PROVE  RetryKept' /\ EscalatedMeansExhausted'
  <2>1. ASSUME NEW plan, ReassignPlanned(w, plan), UNCHANGED retry
        PROVE  RetryKept' /\ EscalatedMeansExhausted'
    BY <2>1, <1>1 DEF ReassignPlanned, Idle
  <2>2. CASE RetryUnmatched(w)
    BY <1>t, <2>2
       DEF RetryUnmatched, Become, Idle, TypeOK, OneAtATime, RetryKept,
           EscalationInv, EscalatedMeansExhausted, booking
  <2> QED
    BY <1>10, <2>1, <2>2
       DEF RetryJob, RetryMatched, PromoteJob, PromoteRead, booking
<1> QED
  BY <1>4, <1>5, <1>6, <1>7, <1>8, <1>9, <1>10
     DEF Next, Continue, Decline, StartPasses, vars

\* One request or job at a time, a booking is escalated to Ops only after matching
\* was tried MAX_MATCHING_RETRY_ATTEMPTS times and the fallback was asked for, and
\* an assignment takes the escalation back.
THEOREM EscalationIsEarned ==
    ASSUME OneAtATime
    PROVE  Spec => []EscalatedMeansExhausted
<1>1. Init => EscalationInv
  <2> SUFFICES ASSUME Init
               PROVE  EscalationInv
    OBVIOUS
  <2>1. \A w \in Workers : req[w].pc = "idle"
    BY DEF Init, Idle
  <2>2. ~retry.escalated
    BY DEF Init, NoRetry
  <2> QED
    BY <2>1, <2>2, InitType DEF EscalationInv, RetryKept, EscalatedMeansExhausted
<1>2. EscalationInv /\ [Next]_vars => EscalationInv'
  BY NextType, RetryStaysKept DEF EscalationInv
<1>3. EscalationInv => EscalatedMeansExhausted
  BY DEF EscalationInv
<1> QED
  BY <1>1, <1>2, <1>3, PTL DEF Spec
=============================================================================
