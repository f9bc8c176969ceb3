-------------------------------- MODULE MCFair --------------------------------
(***************************************************************************)
(* What must happen in the end, on small instances: one part is at work in *)
(* a behaviour and the others stay as they began.  What is fair is stated  *)
(* in the modules: jobs that the cron starts again and again, requests     *)
(* that run on once they have started, webhooks that Mollie delivers.      *)
(***************************************************************************)
EXTENDS EmailQueue, TLC

CONSTANTS Parts, x1, x2, x3, x4, p1, p2, team, h1, h2, job, window, client, town,
          NoCharge, NoTarget

VARIABLES
    part,
    stage, profile, past, assigned, invitation, retry, serving, ended,        \* BookingLifecycle
    available, pending, slot, capacityBooked, lock, expired, locking, lost,   \* TeamLocks
    charge, offered, hooks, resent, granted, onWord, chosen, payment, invoice, \* Payments
    audited, told, feePaid, points, mirror, earns, dispatched, paying, broken,
    customer, mandate, moved, record, payable, dist, captured, payouts,       \* Payouts
    statements, batching, cuts,
    booking, active, activeTeams, timeOff, queue, fresh, plans, todo, byHand  \* Matching

\* Bookings, locks, charges, batches or mails: two of a kind.
Pair == {x1, x2}

-----------------------------------------------------------------------------
\* The retry job beside everything that can empty or reopen a booking.
Waiting == INSTANCE BookingLifecycle WITH
    Providers <- {p1}, PayoutReady <- {p1}, Required <- 1, Teams <- {}, TeamMembers <- <<>>,
    Handlers <- {h1}, RetryJobs <- {job}, PromoteJobs <- {},
    Kinds <- {"smart", "short_notice_ops", "update", "mode"},
    OpsStatuses <- {"PENDING_PROVIDER"}, NoProvider <- None, NoTeam <- None, MaxCrashes <- 1,
    RetryCap <- 4, status <- stage, req <- serving, crashes <- ended
\* Payment webhooks beside the answers and cancellations of a draft.
Drafts == INSTANCE BookingLifecycle WITH
    Providers <- {p1}, PayoutReady <- {p1}, Required <- 1, Teams <- {}, TeamMembers <- <<>>,
    Handlers <- {h1, job}, RetryJobs <- {}, PromoteJobs <- {},
    Kinds <- {"short_notice", "dispatch", "accept", "decline", "client_cancel"},
    OpsStatuses <- {}, NoProvider <- None, NoTeam <- None, MaxCrashes <- 0,
    RetryCap <- 3, status <- stage, req <- serving, crashes <- ended

Locks == INSTANCE TeamLocks WITH
    Bookings <- Pair, Windows <- {window}, WindowOf <- [b \in Pair |-> window],
    Overlaps <- {<<window, window>>}, SlotIds <- {1}, LockIds <- {1, 2}, LockProviders <- {},
    MaxMembers <- 1, Batch <- 1, Handlers <- {h1}, Jobs <- {job}, NoBooking <- None,
    NoWindow <- None, NoSlot <- None, Ageing <- {1, 2}, Moving <- {x1}, MaxCrashes <- 0,
    req <- locking, crashes <- lost

Checkout == INSTANCE Payments WITH
    Bookings <- {x1}, Clients <- {client}, Providers <- {}, Charges <- {1, 2}, Workers <- {h1},
    ClientOf <- (x1 :> client), ShortNotice <- {x1}, Deposit <- (x1 :> 1), Total <- (x1 :> 2),
    Credits <- (x1 :> 0), InvoiceNumber <- (x1 :> 1), MaxResent <- 0, MaxFaults <- 0,
    assigned <- chosen, req <- paying, faults <- broken
Weekly == INSTANCE Payouts WITH
    Providers <- {p1, p2}, Customers <- {}, Mandates <- {}, Distributions <- Pair,
    ProviderOf <- (x1 :> p1) @@ (x2 :> p2), Batches <- {1, 2}, Workers <- {job}, MaxFaults <- 0,
    hooks <- moved, profile <- payable, req <- batching, faults <- cuts

\* A day has twelve units; one booking wants the team, the others somebody eco, and
\* there is none.  Of the other changes, only those of the team are made.
Slot(s, e) == [weekday |-> 0, start |-> s, end |-> e]
Profile(slots, zones) ==
    [slots |-> slots, zones |-> zones, areas |-> {}, categories |-> {"cleaning"}, offersEco |-> FALSE]
Request(s, e, n, wanted, eco) ==
    [startAt |-> s, endAt |-> e, requiredProviders |-> n, team |-> wanted, providerIds |-> <<>>,
     mode |-> "smart_match", service |-> "cleaning", bio |-> eco, city |-> town,
     shortNotice |-> FALSE]
RequestOf == (x1 :> Request(3, 5, 2, team, FALSE)) @@ (x2 :> Request(3, 5, 1, None, TRUE)) @@
               (x3 :> Request(3, 6, 1, None, TRUE)) @@ (x4 :> Request(2, 6, 1, None, TRUE))
Retries == INSTANCE Matching WITH
    Providers <- {p1, p2},
    Profiles <- (p1 :> Profile(<<Slot(1, 3), Slot(2, 6)>>, {town})) @@ (p2 :> Profile(<<Slot(2, 10)>>, {})),
    Teams <- {team}, Members <- (team :> <<p2, p1>>), TimesOff <- {}, Bookings <- DOMAIN RequestOf,
    Requests <- {RequestOf[b] : b \in DOMAIN RequestOf}, Day <- 12, BUFFER <- 1, Take <- 1,
    MaxRetries <- 1, Chosen <- {}, Workers <- {h1}, req <- plans
RetriesNext ==
    \/ \E b \in DOMAIN RequestOf : Retries!CreatePlan(h1, b, RequestOf[b])
    \/ Retries!CreateStore(h1) \/ Retries!Job
    \/ Retries!SetTeamActive(team)

\* The constants are those of two processes whose clock stands still; here is one process.
Queue == INSTANCE EmailQueue WITH Processes <- {job}, MaxTime <- 1

ASSUME /\ Waiting!PROVIDER_ALLOWED_STATUSES \subseteq Waiting!BookingStatus
       /\ Checkout!PaymentsAssumption /\ Weekly!PayoutsAssumption
       /\ Retries!MatchingAssumption /\ EmailQueueAssumption /\ Queue!EmailQueueAssumption

-----------------------------------------------------------------------------
lifecycle == <<stage, profile, past, assigned, invitation, retry, serving, ended>>
locks == <<available, pending, slot, capacityBooked, lock, expired, locking, lost>>
payments == <<charge, offered, hooks, resent, granted, onWord, chosen, payment, invoice, audited,
              told, feePaid, points, mirror, earns, dispatched, paying, broken>>
transfers == <<customer, mandate, moved, record, payable, dist, captured, payouts, statements,
               batching, cuts>>
matching == <<booking, active, activeTeams, timeOff, queue, fresh, plans, todo, byHand>>
all == <<part, lifecycle, locks, payments, transfers, matching, vars>>

InitAll ==
    /\ part \in Parts
    /\ IF part = "waiting" THEN Waiting!Init ELSE Drafts!Init
    /\ Locks!Init /\ Checkout!Init /\ Weekly!Init /\ Retries!Init
    /\ IF part = "queues" THEN Init ELSE Queue!Init

BookingOnly == UNCHANGED <<part, locks, payments, transfers, matching, vars>>
LocksOnly == UNCHANGED <<part, lifecycle, payments, transfers, matching, vars>>
CheckoutOnly == UNCHANGED <<part, lifecycle, locks, transfers, matching, vars>>
WeeklyOnly == UNCHANGED <<part, lifecycle, locks, payments, matching, vars>>
MatchingOnly == UNCHANGED <<part, lifecycle, locks, payments, transfers, vars>>
MailsOnly == UNCHANGED <<part, lifecycle, locks, payments, transfers, matching>>

\* Batches alone run on profiles that operators set.
NextAll ==
    \/ part = "waiting" /\ Waiting!Next /\ BookingOnly
    \/ part = "drafts" /\ Drafts!Next /\ BookingOnly
    \/ part = "locks" /\ Locks!Next /\ LocksOnly
    \/ part = "checkout" /\ Checkout!Next /\ CheckoutOnly
    \/ part = "weekly" /\ Weekly!Next /\ WeeklyOnly
    \/ part = "retries" /\ RetriesNext /\ MatchingOnly
    \/ part = "queue" /\ Queue!Next /\ MailsOnly
    \/ part = "queues" /\ Next /\ MailsOnly

FairSpecAll ==
    /\ InitAll /\ [][NextAll]_all
    /\ WF_lifecycle(part = "waiting" /\ Waiting!Continue(h1))
    /\ WF_lifecycle(part = "waiting" /\ Waiting!Continue(job))
    /\ WF_lifecycle(part = "waiting" /\ Waiting!RetryJob(job))
    /\ WF_lifecycle(part = "drafts" /\ Drafts!Continue(h1))
    /\ WF_lifecycle(part = "drafts" /\ Drafts!Continue(job))
    /\ WF_locks(part = "locks" /\ Locks!ExpiredRead(job))
    /\ WF_locks(part = "locks" /\ Locks!ReleaseWrite(job))
    /\ WF_payments(part = "checkout" /\ Checkout!Continue(h1))
    /\ \A c \in {1, 2} : SF_payments(part = "checkout" /\ Checkout!Receive(c))
    /\ WF_transfers(part = "weekly" /\ Weekly!Batch(job))
    /\ WF_matching(part = "retries" /\ Retries!Job)
    /\ WF_vars(part = "queue" /\ Queue!Tick)
    /\ WF_vars(part = "queue" /\ Queue!Job(job))

-----------------------------------------------------------------------------
\* BookingLifecycle: a booking that waits for providers is matched or Ops hears of it.
WaitingIsNoticed == (part = "waiting") => Waiting!WaitingIsNoticed
\* BookingLifecycle: a paid draft leaves DRAFT.
PaidDraftIsActivated == (part = "drafts") => Drafts!PaidDraftIsActivated
\* TeamLocks: the job gets to every expired lock.
ExpiredIsReleased == (part = "locks") => Locks!ExpiredIsReleased
\* Payments: a booking whose charge was paid is handed to the dispatch.
PaidIsDispatched == (part = "checkout") => Checkout!PaidIsDispatched
\* Payouts: a pending distribution is paid out.
PendingIsPaidOut == (part = "weekly") => Weekly!PendingIsPaidOut
\* Matching: a waiting booking is retried, as long as one run reaches beyond those it leaves.
EventuallyRetried == (part = "retries") => Retries!EventuallyRetried
\* EmailQueue: every mail leaves the queue, and not before its time.
MailsLeaveInTime ==
    /\ (part = "queue") => Queue!QueueDrains
    /\ [][part = "queue" => Queue!NeverEarly]_all
    /\ [](part = "queue" => Queue!TypeOK)

=============================================================================
