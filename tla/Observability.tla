---------------------------- MODULE Observability ----------------------------
(***************************************************************************)
(* The log of incoming webhooks, kept by the payments' webhook controller, *)
(* and what the system desk computes from it and from the other tables:    *)
(* health, integrations, flags (system-observability.service.ts).  A       *)
(* webhook is logged, handled and marked in separate calls, each of which  *)
(* may fail; every webhook is answered with 200.                           *)
(***************************************************************************)
EXTENDS Integers, FiniteSets

CONSTANTS
    Hooks,      \* webhook requests
    Backlogs,   \* bound: numbers of waiting mails and bookings in use
    Payments,   \* bound: payments of the last day
    Window1h, MaxTime,  \* bound: the clock, in ticks
    MaxFaults,  \* bound: failed calls to the database and crashes
    None

ObservabilityAssumption ==
    /\ Backlogs \subseteq Nat /\ 0 \in Backlogs /\ Payments \in Nat
    /\ Window1h \in Nat /\ MaxTime \in Nat /\ MaxFaults \in Nat
    /\ None \notin Nat \cup BOOLEAN

VARIABLES
    step,       \* hook |-> where the controller is with it
    log,        \* hook |-> its row: status and when it was received
    handled,    \* the hooks whose event the payments service has handled (external)
    answered,   \* hook |-> processed of the answer
    config,     \* the environment the process was started with
    load,       \* waiting mails, stuck bookings, payments and failed ones (external)
    faults, now

vars == <<step, log, handled, answered, config, load, faults, now>>

NoRow == [status |-> "none", receivedAt |-> None]
Settings == {"mollieApiKey", "smtpHost", "smtpLogin", "emailProviderUrl"}

Init ==
    /\ step = [h \in Hooks |-> "new"] /\ log = [h \in Hooks |-> NoRow]
    /\ handled = {} /\ answered = [h \in Hooks |-> None]
    /\ config \in SUBSET Settings
    /\ load = [pendingEmails |-> 0, failedEmails |-> 0, stuckBookings |-> 0,
               payments |-> 0, failedPayments |-> 0]
    /\ faults = 0 /\ now = 0

recordWebhookEvent(h) ==
    /\ step[h] = "new"
    /\ log' = [log EXCEPT ![h] = [status |-> "RECEIVED", receivedAt |-> now]]
    /\ step' = [step EXCEPT ![h] = "received"]
    /\ UNCHANGED <<handled, answered, config, load, faults, now>>

\* Slip: a row of its own is kept without the moment of its arrival.
RecordFailsBare(h) ==
    /\ step[h] = "new" /\ faults < MaxFaults /\ faults' = faults + 1
    /\ step' = [step EXCEPT ![h] = "answered"]
    /\ answered' = [answered EXCEPT ![h] = FALSE]
    /\ log' = [log EXCEPT ![h].status = "FAILED"]
    /\ UNCHANGED <<handled, config, load, now>>

\* Without its row an event is not handled either, and answered like any other.
RecordFails(h) ==
    /\ step[h] = "new" /\ faults < MaxFaults /\ faults' = faults + 1
    /\ step' = [step EXCEPT ![h] = "answered"]
    /\ answered' = [answered EXCEPT ![h] = FALSE]
    /\ UNCHANGED <<log, handled, config, load, now>>

\* Slip: a failure is noted as a step of the work.
MarkLate(h, status) ==
    log' = [log EXCEPT ![h].status = IF status = "FAILED" THEN "PROCESSING" ELSE status] /\ UNCHANGED faults

\* updateWebhookEvent swallows its failure: the row may keep the status it has.
Mark(h, status) ==
    \/ log' = [log EXCEPT ![h].status = status] /\ UNCHANGED faults
    \/ log' = log /\ faults < MaxFaults /\ faults' = faults + 1

Disabled(h) ==
    /\ step[h] = "received" /\ "mollieApiKey" \notin config
    /\ step' = [step EXCEPT ![h] = "answered"]
    /\ answered' = [answered EXCEPT ![h] = FALSE]
    /\ UNCHANGED <<log, handled, config, load, faults, now>>

\* The body is no event of the provider.
ParseFails(h) ==
    /\ step[h] = "received" /\ "mollieApiKey" \in config
    /\ step' = [step EXCEPT ![h] = "answered"]
    /\ answered' = [answered EXCEPT ![h] = FALSE]
    /\ Mark(h, "FAILED")
    /\ UNCHANGED <<handled, config, load, now>>

\* Slip: an event that could not be handled is marked before it is tried.
ParsedFailed(h) ==
    /\ step[h] = "received" /\ "mollieApiKey" \in config
    /\ step' = [step EXCEPT ![h] = "handling"]
    /\ Mark(h, "FAILED")
    /\ UNCHANGED <<handled, answered, config, load, now>>

Parsed(h) ==
    /\ step[h] = "received" /\ "mollieApiKey" \in config
    /\ step' = [step EXCEPT ![h] = "handling"]
    /\ Mark(h, "PROCESSING")
    /\ UNCHANGED <<handled, answered, config, load, now>>

handleMollieEvent(h) ==
    /\ step[h] = "handling"
    /\ handled' = handled \cup {h}
    /\ step' = [step EXCEPT ![h] = "handled"]
    /\ UNCHANGED <<log, answered, config, load, faults, now>>

\* Slip: the failure is thrown away, and the webhook counts as processed.
HandlingFailsQuietly(h) ==
    /\ step[h] = "handling"
    /\ step' = [step EXCEPT ![h] = "handled"]
    /\ UNCHANGED <<log, handled, answered, config, load, faults, now>>

\* What the payments service had stored before it threw stays; nobody tries again.
HandlingFails(h) ==
    /\ step[h] = "handling"
    /\ step' = [step EXCEPT ![h] = "answered"]
    /\ answered' = [answered EXCEPT ![h] = FALSE]
    /\ Mark(h, "FAILED")
    /\ UNCHANGED <<handled, config, load, now>>

Processed(h) ==
    /\ step[h] = "handled"
    /\ step' = [step EXCEPT ![h] = "answered"]
    /\ answered' = [answered EXCEPT ![h] = TRUE]
    /\ Mark(h, "PROCESSED")
    /\ UNCHANGED <<handled, config, load, now>>

\* The process dies between two calls; the sender gets no answer.
Crash(h) ==
    /\ step[h] \in {"received", "handling", "handled"} /\ faults < MaxFaults
    /\ step' = [step EXCEPT ![h] = "dead"] /\ faults' = faults + 1
    /\ UNCHANGED <<log, handled, answered, config, load, now>>

Loads(emails, bookings) ==
    /\ load' = [load EXCEPT !.pendingEmails = emails, !.stuckBookings = bookings]
    /\ UNCHANGED <<step, log, handled, answered, config, faults, now>>

MailFails == /\ load.failedEmails = 0 /\ load' = [load EXCEPT !.failedEmails = 1]
             /\ UNCHANGED <<step, log, handled, answered, config, faults, now>>

Pays(failed) ==
    /\ load.payments < Payments
    /\ load' = [load EXCEPT !.payments = @ + 1, !.failedPayments = IF failed THEN @ + 1 ELSE @]
    /\ UNCHANGED <<step, log, handled, answered, config, faults, now>>

Tick ==
    /\ now < MaxTime /\ now' = now + 1
    /\ UNCHANGED <<step, log, handled, answered, config, load, faults>>

Next ==
    \/ \E h \in Hooks :
         \/ recordWebhookEvent(h) \/ RecordFails(h) \/ Disabled(h) \/ ParseFails(h) \/ Parsed(h)
         \/ handleMollieEvent(h) \/ HandlingFails(h) \/ Processed(h) \/ Crash(h)
    \/ \E m, b \in Backlogs : Loads(m, b)
    \/ MailFails
    \/ \E f \in BOOLEAN : Pays(f)
    \/ Tick

Spec == Init /\ [][Next]_vars

-----------------------------------------------------------------------------
(***************************************************************************)
(* What the desk shows.                                                    *)
(***************************************************************************)
\* Slip: webhooks that wait are counted, those that failed are not.
FailedWaiting == {h \in Hooks : log[h].status = "RECEIVED" /\ log[h].receivedAt >= now - Window1h}

FailedWebhooks1h == {h \in Hooks : log[h].status = "FAILED" /\ log[h].receivedAt >= now - Window1h}

Above(n, degraded, down) == IF n > down THEN "down" ELSE IF n > degraded THEN "degraded" ELSE "ok"

\* More than one payment in ten has failed.
paymentStatus ==
    IF load.payments > 0 /\ 10 * load.failedPayments > load.payments THEN "degraded" ELSE "ok"

\* The checks that depend on what the tables say.
getHealthOverview ==
    [queues |-> Above(load.pendingEmails, 120, 500),
     matching |-> Above(load.stuckBookings, 10, 50),
     payments |-> paymentStatus,
     webhooks |-> IF FailedWebhooks1h # {} THEN "degraded" ELSE "ok"]

\* Slip: the status of the checks that come last.
GlobalOfWebhooks(checks) == checks.webhooks

computeGlobalStatus(checks) ==
    IF \E c \in DOMAIN checks : checks[c] = "down" THEN "down"
    ELSE IF \E c \in DOMAIN checks : checks[c] = "degraded" THEN "degraded" ELSE "ok"

\* Slip: a host alone makes the mails active.
MailsConfiguredByHost == "smtpHost" \in config

MailsConfigured == "smtpHost" \in config \/ "emailProviderUrl" \in config

getIntegrationsOverview ==
    [mollie |-> IF "mollieApiKey" \notin config THEN "inactive"
                ELSE IF load.failedPayments > 0 THEN "warning" ELSE "active",
     smtp |-> IF ~MailsConfigured THEN "inactive"
              ELSE IF load.failedEmails > 0 THEN "warning" ELSE "active",
     webhooks |-> IF \E h \in Hooks : log[h] # NoRow THEN "active" ELSE "warning"]

\* The flags of the page on the system.
getSystemInfo == [mollie |-> "mollieApiKey" \in config, smtp |-> MailsConfigured]

\* When the e-mail queue has a dispatcher.
CanSend == "emailProviderUrl" \in config \/ {"smtpHost", "smtpLogin"} \subseteq config

-----------------------------------------------------------------------------
TypeOK ==
    /\ \A h \in Hooks :
         /\ step[h] \in {"new", "received", "handling", "handled", "answered", "dead"}
         /\ log[h].status \in {"none", "RECEIVED", "PROCESSING", "PROCESSED", "FAILED"}
         /\ (log[h].receivedAt = None) <=> (log[h].status = "none")
         /\ answered[h] \in BOOLEAN \cup {None}
    /\ load.failedPayments <= load.payments /\ load.payments <= Payments

\* The row never claims more than what happened: marked as processed, or answered so, the
\* event has been handled; marked as failed, it has not.
LogTellsTruth ==
    \A h \in Hooks :
        /\ log[h].status = "PROCESSED" \/ answered[h] = TRUE => h \in handled
        /\ log[h].status = "FAILED" => h \notin handled

\* Where no call failed, an answered webhook is marked as what it was answered.
AnswerAgreesWithLog ==
    faults = 0 => \A h \in Hooks : step[h] = "answered" =>
        IF answered[h] THEN log[h].status = "PROCESSED"
        ELSE log[h].status = IF "mollieApiKey" \in config THEN "FAILED" ELSE "RECEIVED"

\* A webhook that failed within the hour shows in the health of the system, and the
\* whole is never better than a part.
FailureShows ==
    LET checks == getHealthOverview
        global == computeGlobalStatus(checks)
    IN  /\ \A h \in Hooks : log[h].status = "FAILED" /\ now - log[h].receivedAt <= Window1h =>
                               checks.webhooks # "ok" /\ global # "ok"
        /\ global = "ok" => load.pendingEmails <= 120 /\ load.stuckBookings <= 10
        /\ \A c \in DOMAIN checks : checks[c] = "down" => global = "down"

\* The three pages agree: what is flagged is not inactive, what is degraded not active,
\* and mails that can be sent are never shown as switched off.
PagesAgree ==
    LET i == getIntegrationsOverview
    IN  /\ getSystemInfo.mollie <=> i.mollie # "inactive"
        /\ getSystemInfo.smtp <=> i.smtp # "inactive"
        /\ getHealthOverview.payments = "degraded" => i.mollie # "active"
        /\ CanSend => i.smtp # "inactive"

\* A row that was marked as processed or failed keeps its mark.
KeepsMarks ==
    \A h \in Hooks : log[h].status \in {"PROCESSED", "FAILED"} => log'[h] = log[h]

=============================================================================
