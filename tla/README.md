# Verification of the Saubio backend

Saubio is a marketplace for cleaning: clients book a job, the system matches or
broadcasts it to providers, providers accept, clients pay, providers are paid
out. The backend is a NestJS application over Prisma and PostgreSQL (isolation
READ COMMITTED, the default; no transaction asks for another). It runs HTTP
handlers, payment webhooks and six cron jobs, possibly in several processes.
This directory holds TLA+ models of its services, the TLC configurations that
check them, and TLAPS proofs. Paths below are relative to the repository;
services live in `src/app`.

## 1. Inventory

| Component | State | Operations | Interacts with |
|---|---|---|---|
| bookings (`bookings/bookings.service.ts`) | `Booking`, `BookingAssignment`, `BookingInvitation`, fallback columns | create, guest draft, claim, read, list, update, cancel, fallback assignment, dispatch after payment; jobs: retry (5 min), promote locks (2 min), release locks (3 min) | matching, promo codes, payments, pricing, notifications, team planning |
| provider missions (`provider/provider.service.ts`) | the same rows, and the provider's profile | accept, decline, mark viewed, update mission, cancel mission | payments (`adjustShortNoticePayment`), notifications, e-mail queue |
| promo codes (`marketing/promo-code.service.ts`) | `PromoCode.usageCount`, `PromoCodeUsage`, `Booking.promoCodeId` | evaluate, apply, clear; limits and switch from the back office | bookings |
| locks and team plans (`bookings/booking-locks.service.ts`, `team-planning.service.ts`) | `BookingTeamLock`, `TeamPlanSlot.booked`, `TeamPlan.capacityBooked` | create, confirm, release; expiry and nightly planning jobs | bookings (promotion) |
| matching (`bookings/booking-matching.service.ts`) | configuration and its cache (60 s) | eligible providers, teams, plans, weights, scores | availability, locks, assignments |
| payments (`payments/*`) | `Payment`, invoices, mandates, `PaymentDistribution`, payout batches | checkout, webhooks (paid, failed, mandate, sign-up fee), payout batches (weekly job and manual) | Mollie, bookings (dispatch), pricing (loyalty) |
| pricing and loyalty (`pricing/pricing.service.ts`) | `LoyaltyBalance`, its transactions, `ClientProfile.loyaltyPoints` | estimates, redemption and earning | payments |
| authentication and users (`auth/*`, `users/*`, `security/*`) | `RefreshToken`, `User`, login attempts, role changes | register, login, refresh with rotation, logout, revoke; roles | every service |
| e-mail queue (`notifications/email-queue.service.ts`) | `EmailQueue` | enqueue, deliver (every 2 min), retry | every service |
| notifications (`notifications/*`, `bookings/booking-notifications.service.ts`) | `Notification`, open streams, caches of recipients and progress | emit, page, mark, stream; progress of a booking | every service |
| onboarding and identity (`provider/*`, `identity/*`, `provider-onboarding/*`) | the provider's onboarding columns, documents, checks, kinds of document, requests to become a provider | steps, phone codes, uploads, reviews, Onfido's webhook, approvals | payments (fee, payouts) |
| availability, directory, earnings (`provider/provider.service.ts`) | slots, time off, service areas | replace a week, plan time off, search, coverage, cities, earnings | bookings, payments |
| GDPR (`compliance/*`) | `GdprRequest`, bundles on disk, audit log | request, start, complete, reject, download | notifications |
| disputes, tickets, incidents, quality | rows of the same name | open, answer, settle, moderate, report | users, bookings |
| observability (`employee/system-observability.service.ts`, the webhook controller) | `WebhookEventLog` | log, handle, mark; health, flags | payments |
| reports of the back office (`employee/*`) | none of their own | analytics, dashboard, finance, matching, paged lists | all of the above |
| geocoding, profile, documents, follow-up, templates | a postal-code table, single rows | look-ups and single-row writes | |

What makes each correct, in short. Bookings: seats are taken once, by the
providers who were told so; a paid or waiting booking moves on or somebody
hears of it. Promo codes: the counter the limits are compared with is the number
of redemptions. Locks: booked capacity is the sum of the active locks. Payments:
what counts as paid was paid at Mollie, a booking earns its points once per paid
charge, a distribution is paid out once. Sessions: a refresh token is used once.
E-mail queue: a message is sent, or given up after its attempts. Logs: what they
say is what happened. Reports: figures that count the same thing agree.

What is hard. Nearly every handler reads a row, decides, and writes it in a
later statement, without a condition on what it read; only the acceptance of an
invitation takes a row lock. Transactions of three different shapes recreate the
assignments of a booking. Payment webhooks come twice, late, and are never
delivered again after an error, because the controller always answers 200. Jobs
overlap with themselves (several processes) and with users. `PROJECT.json` lists
these points with their lines under `hazards`.

## 2. The modules

Each module models one service, or one part of a large one. `Spec` lets calls
overlap at the statements of their handlers; where the code promises something
only to calls that come one after another, a module has the operator or constant
that bounds the calls under way, and the property says so ("one at a time").

| Module | Models |
|---|---|
| `BookingLifecycle` | one booking row: every handler and job that writes its status, assignments, invitations and fallback columns |
| `SeatOffer` | the abstract short-notice flow, each request one step; `BookingLifecycle` implements it |
| `BookingAccess` | who may read, list, claim and cancel a booking |
| `PromoUsage` | promo codes: limits, redemptions, counter, claims of guest bookings |
| `TeamLocks` | capacity locks of one team on one day: slots, plan, locks, expiry job |
| `Matching` | eligibility (hours, time off, area, other bookings), plans of requested, team and matched providers, the queue of the retry job |
| `MatchingScore` | configuration, its cache, weights, scores and ranks, in fractions of rounded components |
| `Payments` | checkouts, Mollie's charges and webhooks, invoice, notifications, loyalty points, dispatch, sign-up fee |
| `Payouts` | mandates, distributions, weekly and manual batches, the mandates' webhook |
| `ProviderEarnings` | missions, shares and earnings as a provider sees them |
| `Sessions` | register, login, OAuth, refresh with rotation, logout, revocation, the limit on sessions |
| `AdminUsers` | roles, their log, the lists and figures of accounts |
| `Onboarding` | the check list, phone codes, the fee, the stage kept in the profile |
| `Identity` | documents, reviews by staff and by Onfido, audit log, kinds of document |
| `ProviderRequests` | requests to become a provider and the accounts an approval makes |
| `Gdpr` | export and deletion requests, bundles, audit log, what accounts are told |
| `Tickets`, `Disputes`, `Incidents` | their rows, who writes them, their lists, figures and timelines |
| `Quality` | reviews and moderation, complaints, the reports of the quality desk |
| `Observability` | the log of webhooks, health, integrations, flags |
| `EmailQueue` | queue, job of each process, attempts, delivery |
| `Notifications`, `BookingNotices` | emits, rows, streams, pages; the progress of a booking, recipients and their caches |
| `Availability`, `Directory` | the week and time off; search, coverage, cities |
| `BookingHistory` | what reports read of a booking; extended by the modules of reports |
| `Analytics`, `Dashboard`, `FinanceReports`, `MatchingReports` | the figures of the back office |
| `Lists` | paged lists read page after page while rows change |
| `MCBookingLifecycle`, `MCRequests`, `MCAccounts`, `MCSupport`, `MCMatching`, `MCMoney`, `MCReports`, `MCFair` | instances for TLC; all but the first put several components side by side, one at work per behaviour |
| `BookingLifecycleProofs`, `TeamLocksProofs`, `PaymentsProofs`, `PayoutsProofs` | theorems about the modules they are named after |
| `PromoUsageProofs` | theorems about `PromoUsage`, and about `BookingAccess` and the run on requests (`MCRequests`), which it extends |
| `AccountsProofs` | theorems about `Sessions`, `AdminUsers`, `Onboarding`, `Identity`, `ProviderRequests`, `Gdpr`, `Observability` and the run on accounts (`MCAccounts`), which it extends |
| `EmailQueue`, `MCMoney` | hold their own theorems beside the model |

A definition marked *Slip* in a module is a wrong variant of the definition that
follows it (a dropped guard, a swapped order); `PROJECT.json` lists for each
property of a run a slip that breaks it, and the other slips break the component
properties that such a property is made of. No slip is part of a specification.
`PROJECT.json` maps definitions to source lines; steps of the environment (the
clock, Mollie, a process that dies) and idle values model no code and are mapped as
external or not at all.

PostgreSQL is modelled as far as order depends on it. A statement is one step;
a transaction is one step where nobody can tell its statements apart, several
where they are (`BookingLifecycle`, `TeamLocks`, `PromoUsage`, with row locks).
Mollie, Onfido, SMS, e-mail and disks are external: they may answer, fail,
answer late or twice, within the bounds named below.

### BookingLifecycle

The state is one row and its children: `status`, `assigned` (the providers with a
committed assignment), `invitation` (provider to status), `retry`
(`matchingRetryCount`, whether `fallbackRequestedAt` and `fallbackEscalatedAt`
are set, the candidate team), `profile` (short notice, smart match, preferred
team) and `past` (whether `startAt` has passed). A request in flight is a record
in `req`, with a phase and what it has read.

An action is what one SQL statement, or one transaction whose other statements
nobody can tell apart, does to that state:

* *create*: `CreatePlanned` (smart or manual), `CreateShortNotice` (waits in
  DRAFT for its payment), `CreateShortNoticeByOps` (offered at once).
* *dispatch after payment*: `DispatchRead` (the booking), `DispatchMatch` or
  `DispatchSkip` (the count of invitations), `DispatchInvite` (createMany with
  skipDuplicates), `DispatchActivate` (DRAFT as first read becomes
  PENDING_PROVIDER).
* *accept*: `AcceptRead`, `AcceptLock` (SELECT FOR UPDATE and the checks under
  it), `AcceptCommit` or `AcceptRefused`. *decline*: `Decline`.
* *cancel*: `ClientCancelRead`, `OpsCancelRead`, `MissionCancelRead`, then
  `CancelWrite`. *update mission*: `MissionRead`, `MissionWrite`.
* *update*: `UpdateRead` and `UpdateWrite` with `providerIds`; `UpdateStatus`,
  `UpdateMode`, `UpdateStart` for payloads in which nothing read decides.
* *reassign*, the transaction that retry, promotion and fallback share:
  `RetryMatched`, `PromoteRead` or `FallbackRead` plan it; `ReassignDelete`
  starts the DELETE (its snapshot fixes the rows), `ReassignInsert`,
  `ReassignCommit`.
* *retry without a match*: `RetryUnmatched`, `RetryCount`, `RetryEscalate`.
* `Crash` ends any request half way; `StartPasses` is the clock.

PostgreSQL is modelled as far as order depends on it: `RowFree` (a booking.update
waits for FOR UPDATE), `Uncommitted` (a FOR UPDATE waits for the foreign-key lock
of an uncommitted insert; an insert waits for an uncommitted row with the same
key), `doomed` and `Committed` (a DELETE removes the rows of its snapshot that are
still there). Abstracted: who matching proposes (any set of an allowed size),
whether five minutes have passed since the last update (the retry job may run at
any time), audit entries, notifications, prices. `requiredProviders` is constant
because no handler writes it after creation.

### PromoUsage

State: `owner` and `promoOf` of each booking, the redemption rows `usages`, and
`usageCount` and `active` of each code. `create` evaluates the code before its
transaction; `update` evaluates it inside, before the `booking.update` that takes
the row lock; both are separate steps, so concurrent requests pass the limit
together. `clearBookingPromo` is `ClearFind` (findMany) and the first half of
`UpdateCommit` (deleteMany, one decrement per row found). `ClaimRead` and
`ClaimWrite` change the client that later redemptions are charged to. The limits
of a code are constants: a limit that marketing lowers below what is already
redeemed is exceeded by definition.

### TeamLocks

State: the rows `slot` (window, capacity, booked), the plan's `capacityBooked`, the
rows `lock` (booking, slot or provider, count, status), the locks in `expired`, the
members who are `available` and the bookings `pending` a provider. Locking a team
is `SlotFind` (ensureSlot: count the members, look for the slot), `SlotResize` or
`SlotCreate`, `SlotCheck` (the transaction reads the slot again, without a lock)
and `LockCommit`. Locking providers is `ProvidersRead` and `ProvidersCommit`;
`confirmLocks`, `releaseLocks` and `releaseExpiredLocksJob` are a read
(`ConfirmRead`, `ReleaseRead`, `ExpiredRead`) and a write that does not look again
(`ConfirmWrite`, `ReleaseWrite`). `MembersChange` and `BookingMoves` stand for
availability, time off and `BookingLifecycle`. Abstracted: the windows are
constants (a booking that is moved gets another window in the code), an
overlapping assignment only refuses, and which expired locks the job takes
first is left open, so what holds here holds for oldest first.

This is what the code does not prevent, and what the properties therefore do not
say. Two releases of one lock decrement twice, and the confirmation of a
released lock revives it without its capacity: the counters become too small.
Two requests create two slots for one window, or pass `SlotCheck` together: more
is locked than the team has. These are hazards of concurrent requests; with one
request at a time the counters are exact (`BookedIsHeld`) and locks fit
(`TakesWhatFits`). Under every interleaving the error has one direction
(`NoCapacityLeak`): capacity is never booked by nobody.

### Whose a booking is, and who gets it

`BookingAccess`: `booking`, the claims under way and what claimants were `told`;
`create`, `createGuestDraft`, `update`, `cancel`, and the claim as `ClaimRead` and
`ClaimWrite`. Two claims at a time both win in the code, so `ClaimedForGood` is
stated for one at a time.

`Matching`: a calendar of hours, time off and assignments; a created plan is read
(`CreatePlan`) and stored later (`CreateStore`), the retry `Job` takes the oldest
pending bookings: it leaves one whose plan throws, counts a failure
(`RetryFindsNobody`, then `RetryFails`, which may find the fallback team) or assigns.
Every other writer of status, time or providers is an action as well: `update` by an
operator, who may set any status over any other and keeps the providers unless the
request names some, which alone are checked; `updateMission` by an assigned provider;
`cancel`; `assignFallbackTeam`; `promoteLocksForBooking`; the broadcast of a booking at
short notice and `acceptShortNoticeInvitation`, which looks at no calendar. `byHand` holds
the bookings whose time, status or providers were last set without a check: moved, brought
back from a status that holds nobody (`Revives`), given a fallback team or the providers
of locks, accepted at short notice, or assigned by a retry that planned them as they were
before a move. `DoubleBookedByHand` says that, one request at a time, two bookings which
overlap share a provider only if one of them is among these: matching itself books nobody
twice, and each way around it is named. `MatchingScore`: the configuration rows, the cache
as `LoadRead`/`LoadStore`, updates as `UpdateRead`, `UpdateWrite`, `invalidateCache`.
The code computes with floats: here components are hundredths and distances kilometres,
both rounded down, and scores are exact numerators over one denominator once they are.

`Availability` replaces a week as a read and one transaction (`readSlots`,
`replaceWeek`); `Directory` has the search, the coverage check and the list of
cities as operators over `profile` and `jobs`; a job takes its provider's time in the
four statuses of `BUSY_STATUSES`.

### Money

`Payments`: what Mollie knows of a charge (`charge`, external: open, authorized, paid or
failed), the webhooks on their way (`hooks`, `resent`), and what the code keeps:
`payment`, `invoice`, notifications, points, `dispatched`. `Receive` starts a webhook; its
statements are the `Hook…` actions in the order of the handler; `Abort` ends it half way,
after which it is not delivered again. `normalizeMollieStatus` takes an authorized charge
for paid, and goes by the type in the body of the event where the status of the charge
says nothing. `HookUnfetched` is an event that stays as its body is, because Mollie could
not be asked or because the body names no charge: its own status and booking are believed,
whatever they are. The code does not reject such events, so nothing can be promised about
them; `onWord` counts the events taken for paid that no charge bears out, `granted` the
authorizations and payments clients made. `NothingWithoutMoney` says that whatever counts
as paid has one or the other behind it, `EarnedPerWebhook` bounds the points of a booking
by both and by repeated webhooks. What they rule out is that the code's own doings
(several charges on one row, expiries, late, repeated and interrupted webhooks) make
something paid. Checkouts are `CheckoutCreate` (at Mollie),
`CheckoutFind` and `upsertPaymentRecord`. `Payouts`: `SetUp` and the mandate's
webhook, and `Batch`, whose steps are the queries and updates of a batch.
`ProviderEarnings` shows the rows of both to a provider.

### Accounts, onboarding, rights

`Sessions`: a call is its records in `req`; a refresh finds its token, rotates it
and issues another; the limit is a read and one write per session (`enforceLimit`,
`EnforceWrite`); `RowsSince` and `Newest` are the rows as `findMany` sorts them and the
first of them. `AdminUsers`: `RoleRead`, `RoleWrite`, `RoleLog`. `Onboarding`,
`Identity`, `ProviderRequests`, `Gdpr`: every handler is a read (`begin` or the
handler's name), one action per later statement, and `Fail`, `Abandon` or a call
that never goes on. `workflow` says whether a provider has a workflow run at Onfido, which
no call here starts. `late`, `behind`, `undone`, `wasComplete`, `approved` and `told`
record what happened, for the properties; no guard reads them.

### Help desks, messages, logs

`Tickets`, `Disputes`, `Incidents` and `Quality` have one action per handler, in two
steps where the handler reads first. `Observability` follows a webhook through the
controller: recorded, parsed, handled, marked, answered, each of which may fail.
`EmailQueue`: `runQueue` takes the oldest of the due mails, as many as a run takes, and
serves them in the order of their creation: `sendEmail`, then `markSent` or
`markFailed`; every process has a job and a flag. `Notifications`: an emit looks for its key,
stores its rows and tells the open streams; `BookingNotices` adds the progress of a
booking on top of it.

### Reports

`BookingHistory` has one step per handler that writes what reports read, and the
modules that extend it add what else they read and one operator per endpoint.
Properties compare these operators in every reachable state. The server is taken to run
in UTC: the code mixes local weekdays with days of UTC (`smart-matching.service.ts:672`,
`:1012`). `Lists` has one
endpoint per member of `AllLists`; a reader begins one, turns pages and may stop,
while rows are added and written.

## 3. The runs

`Offers`, `Serial` and `ClientCancel` are about one module and use its
constants directly. Nine put the components of an area side by side: `part` is
chosen at the start and says which component is at work, with its own instance; the
others stay at their initial states, so the state space is the sum of the parts.
Where a part or a constant is called `alone` or `serial`, calls come one after
another; a note of `PROJECT.json` says at each hazard what overlapping calls break. Most properties of these runs are conjunctions of named properties of the
components, per part; those about one component only stand for themselves.

| Run | Instance | Question |
|---|---|---|
| `Offers` | 3 providers, 2 seats, 2 handlers, 1 crash; no job, no reassigning writer | Do concurrent acceptances, duplicate webhooks and cancellations lose a seat, answer an offer twice or break what an acceptance checked (`AcceptedKeepsSeat`, `AnsweredOnce`, `AcceptTakesAFreeSeat`, `SeatStaysOpen`)? Does the flow implement `SeatOffer`? |
| `Serial` | 2 providers, 2 seats, 1 team, every request and job, one at a time, 1 crash | Does an escalation mean failed attempts (`EscalatedMeansExhausted`)? |
| `ClientCancel` | 2 providers, 2 handlers | Expected violation: see findings. |
| `Locks` | the part `leaking` of `MCRequests`: 1 booking, 1 slot, 2 locks, 2 members, 2 workers, each handler and job, 1 crash | Do races leave capacity booked that no lock holds (`NoCapacityLeak`)? |
| `Requests` | promo codes: 3 bookings, 2 codes, 2 requests, 1 crash, and again one at a time; 1 seat, 2 handlers and a promotion job; 1 seat and 2 overlapping acceptances; team locks one at a time; access: 2 companies, 4 users, a guest | Is the counter exact, the shown code the redeemed one, the overshoot bounded, a limit kept by calls one at a time? Does the row lock protect an acceptance from the writers that recreate assignments? Is the last seat sold once? Are locks exact? Is what is listed readable? |
| `Accounts` | per part 1 or 2 accounts, 2 calls at a time or one, 1 fault; sessions: 1 account, 3 tokens, 1 live at a time, a clock of 2; roles: 2 changes; check list: 6 calls, 2 codes, a provider that lacks two or three tasks; documents: 3, a limit of 1, 2 members of staff, 3 uploads or decisions; requests: 2 of one address, 4 reviews; webhooks: 2, with 2 failures | Is the limit on sessions kept, a token used once, a role logged? Does the log of webhooks say what happened? Is who is ready complete, a phone proven, a verdict its reviewer's? Does the log of a GDPR request tell its status, and does an account hear only what happened? |
| `Support` | per part 1 or 2 rows, 2 people, 2 moments, up to 2 faults; 3 rated providers on lists that take 2 or 1 | Do lists show what may be read, timelines and marks what happened, does a failed webhook show? |
| `Matching` | 2 overlapping bookings, 2 providers, 1 team, moves, changes of status and retries; a booking at short notice beside a planned one; 4 candidates scored; 2 weeks; 3 profiles; 2 emits and 2 streams | Is nobody booked twice but by hand, does the better one come first, is a week replaced as a whole, is every open stream told? |
| `Money` | 2 charges authorized or paid, 2 webhooks at a time; 1 charge of a booking or a fee with a repeated webhook and an event taken at its word; 2 bookings one request at a time, with a repeated webhook; 2 batches; 2 shares | Is what counts as paid paid, are points earned once per webhook, is what is marked as processing paid out, is every share shown? |
| `InvoicedTotal` | 1 booking, 2 charges | Expected violation: see findings. |
| `Reports` | 1 or 2 bookings, 2 files, 2 providers, up to 4 days, 2 rows in a list; 2 accounts in 3 weeks | Do figures add up and agree, do lists miss no row and the overview nobody who came lately? |
| `Fair` | one instance per part, fairness | The liveness properties; mails sent are delivered, and no more often than runs may repeat (`SentWasDelivered`, `DeliveriesBounded`). |

Bounds. Two calls are enough for every race between two requests; the third
provider in `Offers` lets an offer expire while two seats are taken, and two
seats keep a booking open after the first acceptance. `MaxCrashes`, `MaxFaults`
and `MaxResent` bound calls that die or fail and repeated webhooks; one of each
is enough to leave a half-done call behind and do it again. In `Money` the part with two
charges and two overlapping webhooks has neither, to stay within reach; the theorems hold
for any number of them. `Chosen` bounds the statuses that operators and providers set in
`Matching`: in progress, which takes time, beside cancellation and the status a booking has.
`TakeReviews`, `TakeOverview`, `TakeRisks` and `TakeProgram` are the lengths of the lists
in `Quality` (10, 8, 5 and 25 in the code), small enough in the run that lists are full. `MaxTime`, `MaxLog`,
`MaxAudits` and the like bound clocks and logs. `RetryCap` only stops the counter
of retries: beyond `MAX_MATCHING_RETRY_ATTEMPTS` the code does not tell counts
apart. Three bookings with one code limited to one redemption and one limited to
one per client let two requests pass the limit together and a third be refused.
Two locks show a double release and a confirmation of a released lock; a third,
with calls one at a time, is refused once two members are locked. Windows of
days and weeks are scaled down so that a state can lie inside, at the edge of
and outside each. In `Accounts`, requests of one account that overlap are served while
the clock stands still and with an id to spare (`SessionsNext`); one at a time, the clock
runs and all three ids are used. The parts `checklist`, `phones` and `stages` are one
instance of `Onboarding`, with what the provider has completed at the start
(`CompletedTasks`) and the kinds of call that part allows; `onfido` and `staff` are one of
`Identity`, with and without results of Onfido; `gdpr` and `exports`, and `webhooks` and
`pages`, share theirs in the same way. Symmetry permutes interchangeable members in safety runs only.

Deadlock is checked in `Offers`, `Serial`, `ClientCancel` and `Locks`. In
the other runs a part stops when its bounded clock, rows or calls are used up.

Fairness. `WF` of a started request: an awaited promise is resolved or rejected,
and the ways it ends early are separate, bounded actions. `WF` of the jobs that
cron starts (retry every five minutes, expiry every three, e-mails every two,
payouts weekly). For `PaidIsDispatched`, `SF` of the receipt of a webhook: Mollie
repeats it until it is answered. No fairness is assumed of users, Ops or clients,
and none of the clock but in the e-mail queue, whose mails wait for it.

What the liveness properties do not promise. `WaitingIsNoticed` has one booking: one
whose retry throws (a preferred team that is not eligible) is neither counted nor
moved back, so the property leaves out bookings with a preferred team;
`EventuallyRetried` has several and holds as long as fewer bookings are left where
they are than a run takes. `PaidDraftIsActivated` has no crashes: a request that dies
between its invitations and the activation strands the draft, since every later
dispatch skips. `PaidIsDispatched` has no
events that stay as their body is: one of a charge that was paid may say otherwise or name
no booking, and is answered all the same. `ExpiredIsReleased` has a bounded table of locks, so it says nothing
of an endless supply of older ones.

## 4. Findings

`ClientCancel`: the end-to-end test "prevents the client from cancelling once a
provider is assigned" (`bookings.e2e.spec.ts:276`) states a rule that `cancel`
checks on what it read before its unconditional `booking.update`
(`bookings.service.ts:1311`). An acceptance that commits in between is cancelled
by the client. The counterexample: a dispatched booking, `ClientCancelRead`,
`AcceptLock`, `AcceptCommit`, `CancelWrite`.

`InvoicedTotal`: an acceptance of a short-notice booking adjusts the payment and issues
the invoice whatever the payment's status (`payments.service.ts:871`); the invoice
prints the amount as "Total TTC encaissé", total collected
(`invoice.service.ts:118`). With a deposit below the price the invoice states an amount
that nobody has paid. The counterexample: a checkout and its capture of the deposit,
`Assign`, `Accept`, `adjustShortNoticePayment`.

## 5. The proofs

The constants are arbitrary, within the named assumption of each module
(`ConstantsAssumption`, `PromoAssumption`, `LocksAssumption`, `PaymentsAssumption`,
`SessionsAssumption` and so on): the sets a cardinality is taken of are finite, null
is no row and no document, a price is natural, overlapping is symmetric, somebody works. TLC evaluates these on its
instances, or a proof derives them from the values of the instance (`TeamLocks`); the
strengthened invariants below were checked there before they were proved.

`SpecAll` is the specification of a run that puts components side by side; its
theorems hold for every value of the constants the run leaves open and name the
properties the run checks. Each rests on theorems about the components themselves,
which hold for all values of theirs.

Three more hypotheses appear, where the code promises no more. `OffersOnly`: the
writers that recreate assignments (retry, promotion, fallback, Ops updates) are off,
because they do take confirmed providers away. *One at a time* (`OneAtATime`, `Alone`,
`Serial`, `alone`, or two workers are the same worker): the code reads, decides and
writes without looking again, and the property is false when calls overlap; the
hazards say where. In `AloneMandatesAreSynced` alone, `MaxFaults = 0`: a webhook that
the code drops after a warning leaves the row of the mandate behind until the next
one. No other theorem assumes anything about failures: a crash, an abort or an error
may come between any two steps.

**`BookingLifecycleProofs`**

* `TypeCorrect`: `Spec => []TypeOK`. Inductive as it stands, because `Request`
  ties a phase to what it needs (an acceptance has a provider, a mission update
  has a status).
* `SeatStaysOpenWhileLocked`: `Spec => []SeatStaysOpen`. Not inductive alone: that
  nobody changes the seats under the lock needs `RowLockExclusive` (a locked
  acceptance excludes every other one and every uncommitted insert).
* `AcceptanceIsSafe`: `Spec => AcceptTakesAFreeSeat`, from that invariant: the only
  step that turns an invitation to ACCEPTED is `AcceptCommit`, whose seat is open.
* `AnswersAreFinal`: `Spec => AnsweredOnce`, one case per writer of invitations.
* `OffersNeverOversell`, under `OffersOnly`: assignments change only at creation,
  within `AssignmentPlans`, and at an acceptance, under `SeatStaysOpen`.
* `AcceptedProvidersKeepTheirSeat`, under `OffersOnly`: `[]AcceptedKeepsSeat`. The
  invariant adds what is true before the booking exists (`NothingBefore`: no
  invitation, no request) and that a mission update only writes a status its
  provider may choose (`MissionAllowed`).
* `OffersImplementSeatOffer`, under `OffersOnly`: every step is a step of `SeatOffer`
  or leaves its variables alone. An acceptance is the abstract step at its commit,
  where `SeatStaysOpen` gives the abstract guard; reads, locks, matching and refused
  requests stutter.
* `EscalationIsEarned`, one at a time: `[]EscalatedMeansExhausted`. Not inductive
  alone: between the count and the escalation the retry has forgotten why, so
  `RetryKept` says what a request at each phase knows of the counter.

**`PromoUsageProofs`**

* `PromoTypeCorrect`, `UsageCountNeverDrifts`, `PromoShownIsRedeemed`. The last two
  need each other's strengthening: at most one request holds the row of a booking
  and what it has found is still what is there (`Locking`); a booking without a row
  has no redemption (`Order`). From these, decrementing once per row found and
  deleting all rows of the booking change the counter and the rows by the same
  number (`Counting`, lemmas on cardinality).
* `OvershootStaysBounded`: the bound on redemptions is not inductive, because a
  request that has passed the limit may still redeem. `WithinReach` adds the
  requests under way to the redemptions; `CodeMoves` splits the steps into those
  that add nothing, those that turn a request into a redemption, and those that
  found the code below its limit.
* `LimitsAreKept`: `AloneSpec => []LimitsRespected`, for any number of handlers of
  which one is at work. A total of requests under way is then at most one, and one that
  is about to redeem found the code below its limit (`AloneReach`). The limit per client
  needs that an evaluation still holds at the write (`RequestsBelow`): the booking an
  update leaves out of the count is the one whose redemptions it deletes, and it changes
  hands only by a claim, which is a request too. `LimitsAreKeptAlone` is the same of the
  run.
* `RequestsLeakNothing` and `SeatsAndLocksAreSound`, of the run on requests: from
  `CapacityNeverLeaks`, `SeatStaysOpenWhileLocked`, `AcceptanceIsSafe`,
  `OffersNeverOversell` and the theorems on locks below. In a part, the other components
  do not move, so that a step of the run is a step of the component at work or leaves
  its variables alone.
* `AccessIsSound`: `SpecAll => []AccessSound`. What is listed can be opened, and the
  other way round, by comparing the two conditions case by case for every set of roles
  and companies. One claim at a time, who was told of a claim keeps the booking:
  `ClaimPending` says that a claim under way has read a booking without a client, and
  that the booking is without one still.

**`TeamLocksProofs`**

* `LocksTypeCorrect`: `Spec => []TypeOK`.
* `CapacityNeverLeaks`: `Spec => []NoCapacityLeak`, inductive with `TypeOK`. Sums of
  `lockedCount` are cardinalities of sets of units: a new lock adds its units to a
  disjoint set (`CommitHolds`), a release subtracts at least the units that
  disappear (`ReleaseHolds`), everything else keeps the active locks (`HeldKept`).
* `CountersAreExact`, one at a time: `[]BookedIsHeld`. The other inequality,
  `AllIsCounted`, needs that what a release or a confirmation has read is still
  active (`ReadIsActive`; two releases of one lock break this) and that a slot which
  is not yet created is named by no lock (`NamedSlotsExist`), since creating it
  resets its counter.
* `NobodyIsLockedTwice`, one at a time: `[]ProviderLockedOnce`. What
  `ProvidersRead` looked for is still not there at the commit (`ClearOfConflicts`).
* `LocksFitTheMembers`, one at a time: `[][TakesWhatFits]_vars`. `SlotsAsSeen`: there
  is one slot per window (no key says so; two requests create two), and the slot that
  a request found keeps the capacity it counted and the room it saw. With
  `AllIsCounted` the new lock fits.

**`PaymentsProofs`**

* `PaymentsTypeCorrect`: `Spec => []TypeOK`, stated over the rows (`Types`).
* `NothingIsTakenUnpaid`: `Spec => []NothingWithoutMoney`. The invariant `Money`
  says of a request at each phase what it relies on: once its verdict is paid, that a
  client authorized or paid a charge of its target, or that the event was counted as taken
  at its word. Both are history, never taken back, so this survives every other request.
* `PointsAreEarnedPerWebhook`: `Spec => []EarnedPerWebhook`. Several charges write
  one payment row, so the row cannot tell which of them earned. `EarningsAccounted`
  counts per booking: points earned, webhooks announced and requests still on their
  way to the earning are together no more than authorizations, payments, repeated webhooks
  and events taken at their word; each step moves one unit from one term to the next.
* `ClientIsToldOnce` and `NoBalanceIsOverdrawn`, one at a time: `[]ToldOnce`,
  `[]BalanceSound`. Both need that what a request has read is still true when it
  writes (`ReadsHold`).

**`MCMoney`**

* `MoneyComesFirst`, `PaymentsAreSound`, `PayoutsAreSound`: `SpecAll => []P` of the
  run's properties of the same names, from the theorems of `PaymentsProofs` and
  `PayoutsProofs`, each with the constants of its part.

**`PayoutsProofs`**

* `PayoutsTypeCorrect`: `[]TypeOK`.
* `NothingIsLost`: `[]ProcessingIsPaidOut` for any number of overlapping batches. A
  distribution is marked and listed in one transaction (`CommitPays`), and none is
  unmarked.
* `AloneNothingIsPaidTwice`: `[]PaidOutOnce`, one request at a time, with any number
  of providers and batches, requests that die, and payments and profiles that change
  in between. Overlapping batches do pay twice: the commit asks for ids only. The
  invariant is `TakenArePending`: what a batch has read is pending until it commits.
* `AloneMandatesAreSynced`: `[]MandateSynced`, one request at a time and no webhook
  lost. `Announced` says that a mandate which differs from its row, or from what a
  request holds of it, has a webhook under way; `CustomersAreKnown`, that no webhook
  is passed over for a customer that no profile names.
* `PagesAgreeWithBatches`: `[]ShownAsUsed`: every writer of the payout columns goes
  through the same transition.

**`AccountsProofs`**

* `LogIsInStep`: `[]LogTellsStatus` of `Gdpr`, for any number of staff who decide at the
  same time: the row and its log entry are one nested write. `ToldIsRecorded`:
  `[]ToldWhatHappened`; it counts entries, notices and the calls between the two
  (`UntoldAreLogged`).
* `DecisionsAreSound`: `SpecAll => DecisionsSound`. Four things are added. `BundlesKept`:
  the row of an export names a bundle, and one on disk, if and only if the log has it
  started, and a call between the disk and the row holds one that is on disk. From it
  `OfferedIsServed`: the list offers what the download finds. `BundlesCounted`: bundles on
  disk and calls about to write one are together no more than workers and failures; as
  long as the request is pending they belong to calls that have not recorded theirs, or
  that failed. `InTime`, one call at a time: what a call has found acceptable still is,
  and the last notice is the status. That gives `ToldTheStatus` and the action property
  `KeepsSettled`; with calls that overlap both are false.
* `LogIsTruthful` and `MarksAreKept`, of `Observability`: `[]LogTellsTruth` with
  `HookInv`, which ties each step of the controller to what is already handled, and
  `[][KeepsMarks]`.
* `WebhooksAreSound`: `SpecAll => WebhooksSound`. `RowsAgree` adds, as long as no call to
  the database failed, the status a row must have at each step of the controller; then
  the answer is the mark. `FiguresFit` (failed payments are payments) lets a webhook that
  failed within the hour show as a warning whatever the other figures are, and health,
  integrations and flags agree by comparing their definitions.
* `AccountsAreSound`: `SpecAll => []AccountsSound`, for any number of accounts, tokens
  and workers, any limit and any clock.
  For `Sessions` the invariant is `SessionsInv`. `LimitComing`: a live session beyond the
  newest belongs to an account with a request at `limit`, which will see it, or at
  `revoke`, which has it on its list; an issue by another request pushes sessions out of
  the newest, and is itself such a request. `AttemptsKept` counts, per account: sessions
  of password logins and requests with a recorded attempt and no session yet are no more
  than the attempts; recorded logins at identity providers and requests with a session
  not yet recorded no more than the sessions. `RotatedInv`, one at a time: what is being
  exchanged is live, and once taken back has no child until its own is issued; from it
  `RotatedOnce`. Overlapping refreshes of one token both succeed in the code.
  For `AdminUsers` it is `UsersInv`. `RolesKept`: the roles of a user nobody edited
  otherwise are those of an entry or of a change about to be logged (overlapping changes
  may log in another order than they write, so it need not be the last). `ChainKept`, one
  change at a time: what a change has read is still there, and each entry starts from
  where the one before it ended. That the overview's figures of providers add up is a
  count of three disjoint sets.

* `ProvidersAreSound`: `SpecAll => ProvidersSound`, whatever of the check list is completed at
  the start, any number of calls, documents, members of staff, requests and addresses.
  For `Onboarding` the invariant is `ChecklistInv`. `ReadyKept`: a stage is ready, or about to
  be written as ready, only if the list was complete once (it may no longer be: a verdict is
  taken back). `CodesKept`: a code names one number, wherever it is held. `LateKept`: after the
  fee, checkouts made and calls that read the profile before are together no more than
  workers. `StageFresh`, one at a time: the call that writes the stage has read the profile
  as it is, unless it changed outside.
  For `Identity` it is `IdentityInv`, three counts of calls under way as above: `DocsKept`
  (documents, and uploads that have seen room), `LogKept` (decisions written, and calls about
  to log them or cut short), `VerdictsKept` (verdicts taken back, and uploads that began before
  anything was submitted). `AloneKept`: one at a time and without Onfido no verdict is taken
  back, and a date of verification means verified.
  For `ProviderRequests` it is `ReviewsInv`: `CarriedOut` says of an approved request that its
  address has role and profile, that a call is on the way to them, or that one failed.
  `RolesFresh`, one at a time: a review writes the roles it read as they still are.
  `KeepsWhatWasDone`, an action property, follows step by step from the same invariants.

**`EmailQueue`**

* `SentIsDelivered`: `[]SentWasDelivered` for any number of processes. `Delivering`
  says that a process which is about to mark a mail has delivered it.
* `DeliveriesStayBounded`: `[]DeliveriesBounded`. `Deliveries` counts per mail: while it is
  pending, deliveries are covered by the runs that have sent it and not yet marked it, and
  by failures; once it is settled, deliveries and the runs that may still send it are
  together no more than processes and failures. Each run holds a mail at most once, since
  the rest of a run loses the mail that is served.
* `NothingIsSentEarly`: `[][NeverEarly]_vars`. The condition a row was read under still
  holds when its mail is sent, because time passes and a row keeps its date (`Timely`).

Only model-checked, and why:

* liveness, everything under fairness and about `ENABLED`: beyond the prover;
* the figures and lists (`FiguresSound`, `ListsComplete`, `EarningsSound`, scores and
  plans in `AssignmentsSound`, timelines in `CasesSound` and `DesksSound`): sums over
  folds and sorted pages, whose value for data of any size needs induction over data;
* `CalendarsSound`, `NoticesSound` and the parts of `CasesSound`,
  `DesksSound` and `AssignmentsSound` that are about races: within reach, not yet
  proved. See the plan.

## 6. Not modelled, and the plan

`PROJECT.json` says for each component what is left out. In short: the arithmetic of
price estimates and discounts and their cache; the nightly refresh of plan
capacities; provider teams, services, operations and system settings of the back
office, profiles and documents (single-row reads and writes: no state that two steps
could disagree about); the text of messages, PDF layout and templates; the tables of
geocoding; what Mollie, Onfido, SMS, e-mail and disks do, beyond answering, failing,
answering late or twice.

What is left to prove, in this order:

1. `Availability` and `Notifications` (`CalendarsSound`, `NoticesSound`): a week is
   replaced as a whole, an open stream is told what is stored.
2. The races of `Disputes`, `Incidents` and `Matching`: who a case was settled by, nobody
   booked twice but by hand.
