------------------------------ MODULE Onboarding ------------------------------
(***************************************************************************)
(* The way of one provider to its first mission (provider.service.ts): the *)
(* tasks of the check list, the telephone number that is proven by a code, *)
(* the signup fee, and the stage that is kept in the profile.  The stage   *)
(* is computed from a profile read earlier, and only some of the handlers  *)
(* compute it.  Decisions on the identity (module Identity), the payouts   *)
(* and the fee's webhook change the profile from outside.                  *)
(***************************************************************************)
EXTENDS Integers, FiniteSets

CONSTANTS
    Workers,        \* the calls under way at once
    Numbers,        \* telephone numbers
    Starts,         \* the tasks that may be completed at the start
    MaxCalls,       \* bound: calls
    MaxCodes,       \* bound: codes sent
    None

Checklist == <<"identity", "address", "phone", "profile", "pricing", "payments", "id_check",
               "signup_fee", "welcome_session">>
Tasks == {Checklist[i] : i \in DOMAIN Checklist}

OnboardingAssumption ==
    /\ Starts \subseteq SUBSET Tasks /\ IsFiniteSet(Workers)
    /\ MaxCalls \in Nat /\ MaxCodes \in Nat /\ None \notin Numbers

VARIABLES
    done,       \* the tasks whose field of the profile says completed
    stage,      \* onboardingStatus
    phone,      \* the number of the account
    pending,    \* pendingPhoneNumber with the code that was hashed, or None
    delivered,  \* the codes that reached a telephone
    codes,      \* codes made
    checkouts,  \* checkouts of the fee that may still be paid
    late,       \* checkouts that were made although the fee was paid
    work,       \* worker |-> its call with what it has read
    wasComplete,    \* whether the whole list was completed at some time
    behind,     \* whether the profile changed since a refresh last read it
    used

vars == <<done, stage, phone, pending, delivered, codes, checkouts, late, work, wasComplete, behind, used>>
phoneVars == <<phone, pending, delivered, codes>>
feeVars == <<checkouts, late>>

Free == [op |-> "none", task |-> None, done |-> {}, stage |-> None, pending |-> None]

Left(completed) == {i \in DOMAIN Checklist : Checklist[i] \notin completed}
First(left) == Checklist[CHOOSE i \in left : \A j \in left : i <= j]

\* Slip: the last stage is completed.
StageDone(completed) == IF Left(completed) = {} THEN "completed" ELSE First(Left(completed))

\* Slip: the payments are not waited for.
StageWithoutPayments(completed) ==
    LET left == Left(completed \cup {"payments"}) IN IF left = {} THEN "ready" ELSE First(left)

\* resolveOnboardingStage: the first task of the list that is not completed.
StageOf(completed) == IF Left(completed) = {} THEN "ready" ELSE First(Left(completed))

Init ==
    /\ done \in Starts /\ stage = "account_created" /\ phone = None /\ pending = None
    /\ delivered = {} /\ codes = 0 /\ checkouts = 0 /\ late = 0
    /\ work = [w \in Workers |-> Free]
    /\ wasComplete = (done = Tasks) /\ behind = TRUE /\ used = 0

\* A call begins with the profile as it is.
Enter(w, op, task) ==
    /\ work[w] = Free /\ used < MaxCalls /\ used' = used + 1
    /\ work' = [work EXCEPT ![w] = [op |-> op, task |-> task, done |-> done, stage |-> stage,
                                    pending |-> pending]]

begin(w, op, task) ==
    /\ Enter(w, op, task)
    /\ UNCHANGED <<done, stage, phoneVars, feeVars, wasComplete, behind>>

Complete(tasks) ==
    /\ done' = tasks /\ wasComplete' = (wasComplete \/ tasks = Tasks)
    /\ behind' = (behind \/ tasks # done)

\* Slip: the fields of the profile that was read are written back.
WithReadFields(w) == work[w].done \cup {work[w].task}

With(w) == done \cup {work[w].task}

Then(w, op) == work' = [work EXCEPT ![w].op = op]

\* completeIdentityStep, completeAddressStep: the fields of the step, then the stage.
completeStep(w) ==
    /\ work[w].op = "step" /\ Complete(With(w)) /\ Then(w, "refresh")
    /\ UNCHANGED <<stage, phoneVars, feeVars, used>>

\* The staff note the session, then the stage is computed for the provider.
completeWelcomeSession(w) ==
    /\ work[w].op = "welcome" /\ Complete(With(w)) /\ Then(w, "refresh")
    /\ UNCHANGED <<stage, phoneVars, feeVars, used>>

\* updateProfile completes the profile and the price and leaves the stage.
updateProfile(w) ==
    /\ work[w].op = "profile" /\ Complete(With(w))
    /\ work' = [work EXCEPT ![w] = Free]
    /\ UNCHANGED <<stage, phoneVars, feeVars, used>>

-----------------------------------------------------------------------------
(* refreshOnboardingStatus *)

readProfile(w) ==
    /\ work[w].op = "refresh"
    /\ work' = [work EXCEPT ![w] = [op |-> "stage", task |-> None, done |-> done, stage |-> stage,
                                    pending |-> None]]
    /\ behind' = FALSE
    /\ UNCHANGED <<done, stage, phoneVars, feeVars, wasComplete, used>>

\* Slip: a stage that was reached is left only for ready.
NextStageForward(seen) == IF StageOf(seen.done) # "ready" /\ seen.stage = "ready" THEN stage ELSE StageOf(seen.done)

\* Written when it is not the stage that was read; whatever was written since.
NextStage(seen) == IF seen.stage # StageOf(seen.done) THEN StageOf(seen.done) ELSE stage

writeStage(w) ==
    /\ work[w].op = "stage"
    /\ stage' = NextStage(work[w])
    /\ work' = [work EXCEPT ![w] = Free]
    /\ UNCHANGED <<done, phoneVars, feeVars, wasComplete, behind, used>>

-----------------------------------------------------------------------------
(* The telephone *)

\* requestPhoneVerification: the code replaces the one before, then the message is sent;
\* when that fails the code stays and nobody knows it.
requestPhoneVerification(w, number, sent) ==
    /\ work[w] = Free /\ used < MaxCalls /\ codes < MaxCodes
    /\ codes' = codes + 1 /\ used' = used + 1
    /\ pending' = [number |-> number, code |-> codes + 1, expired |-> FALSE]
    /\ delivered' = IF sent THEN delivered \cup {[number |-> number, code |-> codes + 1]} ELSE delivered
    /\ UNCHANGED <<done, stage, phone, feeVars, work, wasComplete, behind>>

expireCode ==
    /\ pending # None /\ pending' = [pending EXCEPT !.expired = TRUE]
    /\ UNCHANGED <<done, stage, phone, delivered, codes, feeVars, work, wasComplete, behind, used>>

\* Slip: the number is the one that waits now.
ProvenNumberNow(w) == IF pending = None THEN phone ELSE pending.number

ProvenNumber(w) == work[w].pending.number

\* Any code that arrived is entered; it must be the one that was read, which must not have
\* expired.  The number and the code that wait by now are cleared.
completePhoneStep(w, code) ==
    /\ work[w].op = "phone" /\ work[w].pending # None
    /\ ~work[w].pending.expired /\ code = work[w].pending.code
    /\ phone' = ProvenNumber(w) /\ pending' = None
    /\ Complete(done \cup {"phone"}) /\ Then(w, "refresh")
    /\ UNCHANGED <<stage, delivered, codes, feeVars, used>>

\* No code was asked for, it has expired or it is another one.
refusePhoneStep(w) ==
    /\ work[w].op = "phone" /\ work' = [work EXCEPT ![w] = Free]
    /\ UNCHANGED <<done, stage, phoneVars, feeVars, wasComplete, behind, used>>

-----------------------------------------------------------------------------
(* The fee *)

\* Slip: whether the fee is paid is not looked at.
FeeOpenAlways(w) == TRUE

FeeOpen(w) == "signup_fee" \notin work[w].done

\* A checkout is made when the profile that was read has no date of payment.
handleSignupFee(w) ==
    /\ work[w].op = "fee"
    /\ IF FeeOpen(w)
       THEN checkouts' = checkouts + 1 /\ late' = late + (IF "signup_fee" \in done THEN 1 ELSE 0)
       ELSE UNCHANGED feeVars
    /\ work' = [work EXCEPT ![w] = Free]
    /\ UNCHANGED <<done, stage, phoneVars, wasComplete, behind, used>>

\* The webhook notes the date, each time, and leaves the stage.
feePaid ==
    /\ checkouts > 0 /\ checkouts' = checkouts - 1
    /\ Complete(done \cup {"signup_fee"})
    /\ UNCHANGED <<stage, phoneVars, late, work, used>>

\* The identity is verified or refused, the payouts are activated or stopped.
decideOutside(task, completed) ==
    /\ used < MaxCalls /\ used' = used + 1
    /\ Complete(IF completed THEN done \cup {task} ELSE done \ {task})
    /\ UNCHANGED <<stage, phoneVars, feeVars, work>>

Next ==
    \/ \E w \in Workers :
         \/ \E task \in {"identity", "address"} : begin(w, "step", task)
         \/ begin(w, "welcome", "welcome_session") \/ completeWelcomeSession(w)
         \/ \E task \in {"profile", "pricing"} : begin(w, "profile", task)
         \/ \E op \in {"phone", "fee", "refresh"} : begin(w, op, None)
         \/ completeStep(w) \/ updateProfile(w) \/ readProfile(w) \/ writeStage(w)
         \/ \E number \in Numbers, sent \in BOOLEAN : requestPhoneVerification(w, number, sent)
         \/ \E sms \in delivered : completePhoneStep(w, sms.code)
         \/ refusePhoneStep(w) \/ handleSignupFee(w)
    \/ \E task \in {"payments", "id_check"}, completed \in BOOLEAN : decideOutside(task, completed)
    \/ feePaid \/ expireCode

Spec == Init /\ [][Next]_vars

-----------------------------------------------------------------------------
\* The shape of the state.
TypeOK ==
    /\ done \subseteq Tasks /\ stage \in Tasks \cup {"ready", "account_created"}
    /\ phone \in Numbers \cup {None} /\ checkouts \in Nat /\ late \in Nat
    /\ \A w \in Workers : /\ work[w].op \in {"none", "step", "welcome", "profile", "phone", "fee", "refresh", "stage"}
                          /\ work[w].op \in {"step", "welcome", "profile"} => work[w].task \in Tasks
    /\ phone # None => "phone" \in done

\* provider.service.ts:1551-1570, 2504-2511: whoever is let through as ready had the whole
\* list completed at some time, however the refreshes of several calls overtake one another
\* and although the stage is not computed again when the identity is refused later.
ReadyWasComplete == stage = "ready" => wasComplete

\* provider.service.ts:1551-1570: once no call is under way and nothing changed behind the
\* last refresh, the stage is the one of the profile (calls one at a time; overlapping
\* refreshes may leave the older stage).
StageCurrent == (~behind /\ \A w \in Workers : work[w] = Free) => stage = StageOf(done)

\* provider.service.ts:1121-1190, 2355-2440: calls at the same time lose no step: what was
\* completed stays so, but for the identity and the payouts, which are decided outside.
KeepsSteps == done \ {"payments", "id_check"} \subseteq done'

\* provider.service.ts:1167-1250: the number of the account is one that received the code
\* that was entered, although another number may be asked for between the check and the
\* update.
PhoneProven == phone # None => \E sms \in delivered : sms.number = phone

\* provider.service.ts:1254-1269: once the fee is paid no checkout is made, but by calls
\* that had read the profile before.
LateCheckoutsBounded == late <= Cardinality(Workers)

=============================================================================
