------------------------------ MODULE EmailQueue ------------------------------
(***************************************************************************)
(* The e-mail queue (email-queue.service.ts): rows wait until a run of the *)
(* job takes them.  Every process has its own job and its own flag; rows   *)
(* are read, sent and marked in three separate calls, each of which may    *)
(* fail, and the process may die between two of them.                      *)
(***************************************************************************)
EXTENDS Integers, FiniteSets, FiniteSetTheorems, WellFoundedInduction, TLAPS

CONSTANTS
    Mails, Processes,
    Take,       \* bound: rows of one run (20 in the code)
    MaxTime,    \* bound: the clock
    MaxFaults,  \* bound: failed calls to the database and crashes
    None

EmailQueueAssumption ==
    /\ Take \in Nat \ {0} /\ MaxTime \in Nat /\ MaxFaults \in Nat /\ None \notin Mails
    /\ IsFiniteSet(Mails) /\ IsFiniteSet(Processes)

VARIABLES
    status,     \* mail |-> none, PENDING, SENT or FAILED
    scheduledAt,
    createdAt,  \* mail |-> how many rows were created before its own
    run,        \* process |-> the run of its job; Idle when isProcessing is false
    delivered,  \* mail |-> how often the dispatcher accepted it (external)
    faults, now

vars == <<status, scheduledAt, createdAt, run, delivered, faults, now>>

Idle == [email |-> None, pending |-> {}, step |-> "idle"]

Init ==
    /\ status = [m \in Mails |-> "none"] /\ createdAt = [m \in Mails |-> 0]
    /\ scheduledAt = [m \in Mails |-> None]
    /\ run = [p \in Processes |-> Idle]
    /\ delivered = [m \in Mails |-> 0] /\ faults = 0 /\ now = 0

enqueue(m, at) ==
    /\ status[m] = "none"
    /\ status' = [status EXCEPT ![m] = "PENDING"]
    /\ scheduledAt' = [scheduledAt EXCEPT ![m] = at]
    /\ createdAt' = [createdAt EXCEPT ![m] = Cardinality({n \in Mails : status[n] # "none"})]
    /\ UNCHANGED <<run, delivered, faults, now>>

\* Slip: the schedule is not looked at.
DueAtOnce(m) == status[m] = "PENDING"

Due(m) == status[m] = "PENDING" /\ (scheduledAt[m] = None \/ scheduledAt[m] <= now)

\* Slip: all that are due.
PendingRowsAll == {m \in Mails : Due(m)}

\* The rows one run takes: those that are due, the oldest of them.
PendingRows ==
    {m \in Mails : Due(m) /\ Cardinality({n \in Mails : Due(n) /\ createdAt[n] < createdAt[m]}) < Take}

Oldest(rows) == CHOOSE m \in rows : \A n \in rows : createdAt[m] <= createdAt[n]

\* The loop over the rows of a run, oldest first, and the finally block after the last.
Loop(rows) ==
    IF rows = {} THEN Idle
    ELSE [email |-> Oldest(rows), pending |-> rows \ {Oldest(rows)}, step |-> "send"]

\* processQueue (the cron of every two minutes) and triggerImmediateProcessing: a call
\* that finds the flag set returns at once.
runQueue(p) ==
    /\ run[p] = Idle /\ PendingRows # {}
    /\ run' = [run EXCEPT ![p] = Loop(PendingRows)]
    /\ UNCHANGED <<status, scheduledAt, createdAt, delivered, faults, now>>

email(p) == run[p].email

\* Slip: the flag is not cleared at the end of a run.
DoneButBusy(p) ==
    IF run[p].pending = {} THEN [Idle EXCEPT !.step = "busy"] ELSE Loop(run[p].pending)

Done(p) == Loop(run[p].pending)

\* The dispatcher accepts the mail, or there is none, no template or an answer that is
\* not ok.
sendEmail(p, accepted) ==
    /\ run[p].step = "send"
    /\ delivered' = [delivered EXCEPT ![email(p)] = IF accepted THEN @ + 1 ELSE @]
    /\ run' = [run EXCEPT ![p].step = IF accepted THEN "accepted" ELSE "caught"]
    /\ UNCHANGED <<status, scheduledAt, createdAt, faults, now>>

\* Slip: the row is left as it is.
markSentOnlyLogged(p) ==
    /\ run[p].step = "accepted"
    /\ run' = [run EXCEPT ![p] = Done(p)]
    /\ UNCHANGED <<status, scheduledAt, createdAt, delivered, faults, now>>

markSent(p) ==
    /\ run[p].step = "accepted"
    /\ status' = [status EXCEPT ![email(p)] = "SENT"]
    /\ run' = [run EXCEPT ![p] = Done(p)]
    /\ UNCHANGED <<scheduledAt, createdAt, delivered, faults, now>>

\* The try block holds the send and the update: when the update fails, a mail that went
\* out is marked as failed.
markSentFails(p) ==
    /\ run[p].step = "accepted" /\ faults < MaxFaults
    /\ run' = [run EXCEPT ![p].step = "caught"] /\ faults' = faults + 1
    /\ UNCHANGED <<status, scheduledAt, createdAt, delivered, now>>

\* Slip: a mail that could not be sent is marked as sent.
markFailedAsSent(p) ==
    /\ run[p].step = "caught"
    /\ status' = [status EXCEPT ![email(p)] = "SENT"]
    /\ run' = [run EXCEPT ![p] = Done(p)]
    /\ UNCHANGED <<scheduledAt, createdAt, delivered, faults, now>>

\* A failed mail is never taken again.
markFailed(p) ==
    /\ run[p].step = "caught"
    /\ status' = [status EXCEPT ![email(p)] = "FAILED"]
    /\ run' = [run EXCEPT ![p] = Done(p)]
    /\ UNCHANGED <<scheduledAt, createdAt, delivered, faults, now>>

\* The update of the catch block fails too, which ends the run and clears the flag; or
\* the process dies.  The rows that are left stay PENDING.
Abandon(p) ==
    /\ run[p] # Idle /\ faults < MaxFaults
    /\ run' = [run EXCEPT ![p] = Idle] /\ faults' = faults + 1
    /\ UNCHANGED <<status, scheduledAt, createdAt, delivered, now>>

Tick ==
    /\ now < MaxTime /\ now' = now + 1
    /\ UNCHANGED <<status, scheduledAt, createdAt, run, delivered, faults>>

Job(p) == runQueue(p) \/ sendEmail(p, TRUE) \/ sendEmail(p, FALSE) \/ markSent(p) \/ markFailed(p)

Next ==
    \/ \E m \in Mails, at \in {None} \cup 0..MaxTime : enqueue(m, at)
    \/ \E p \in Processes : Job(p) \/ markSentFails(p) \/ Abandon(p)
    \/ Tick

Spec == Init /\ [][Next]_vars

\* The cron calls the job every two minutes, a step of a run awaits a call that ends,
\* and time goes on.
FairSpec == Spec /\ WF_vars(Tick) /\ \A p \in Processes : WF_vars(Job(p))

-----------------------------------------------------------------------------
TypeOK ==
    /\ \A m \in Mails : status[m] \in {"none", "PENDING", "SENT", "FAILED"} /\ createdAt[m] \in Nat
    /\ \A p \in Processes :
         /\ run[p].step \in {"idle", "send", "accepted", "caught"}
         /\ run[p].email \in IF run[p].step = "idle" THEN {None} ELSE Mails
         /\ run[p].pending \subseteq Mails \ {run[p].email}
         /\ Cardinality(run[p].pending) < Take
    /\ faults <= MaxFaults

\* A row that says SENT belongs to a mail the dispatcher accepted, whoever marked it.
SentWasDelivered == \A m \in Mails : status[m] = "SENT" => delivered[m] > 0

\* A mail goes out at most once for every process, and once more for every run that is
\* cut short: the flag is what keeps one process from more.
DeliveriesBounded == \A m \in Mails : delivered[m] <= Cardinality(Processes) + faults

\* A mail is sent in the order of its creation among those a run took together, and
\* never before its time.
NeverEarly ==
    \A m \in Mails : delivered'[m] > delivered[m] =>
        scheduledAt[m] = None \/ scheduledAt[m] <= now

\* Every mail whose time comes leaves the queue, however many runs fail before.
QueueDrains ==
    \A m \in Mails : (status[m] = "PENDING") ~> (status[m] \in {"SENT", "FAILED"})

(***************************************************************************)
(* The proofs.  A row is taken only while it is PENDING and never becomes  *)
(* so again.  As long as it is, every delivery of its mail is that of a    *)
(* run that has yet to mark it, or of one that was cut short; once it is   *)
(* settled, only the runs that hold it still may deliver it.               *)
(***************************************************************************)
Statuses == {"none", "PENDING", "SENT", "FAILED"}
RunType(r) ==
    \/ r = Idle
    \/ /\ r \in [email : Mails, pending : SUBSET Mails, step : {"send", "accepted", "caught"}]
       /\ r.email \notin r.pending

Holds(r, m) == r.email = m \/ m \in r.pending

Typed ==
    /\ status \in [Mails -> Statuses] /\ createdAt \in [Mails -> Nat]
    /\ delivered \in [Mails -> Nat] /\ faults \in Nat
    /\ DOMAIN run = Processes
    /\ \A p \in Processes : RunType(run[p])
    /\ \A p \in Processes, m \in Mails : Holds(run[p], m) => status[m] # "none"

Delivering ==
    \A p \in Processes : run[p].step = "accepted" => delivered[run[p].email] > 0

\* The runs that have delivered the mail and not yet marked it, and those that may deliver it.
HasSent(r, m) == r.step = "accepted" /\ r.email = m
MaySend(r, m) == m \in r.pending \/ (r.email = m /\ r.step = "send")
Sent(m) == {p \in Processes : HasSent(run[p], m)}
Open(m) == {p \in Processes : MaySend(run[p], m)}

Counted(m) ==
    /\ status[m] = "none" => delivered[m] = 0
    /\ status[m] = "PENDING" => delivered[m] <= Cardinality(Sent(m)) + faults
    /\ status[m] \in {"SENT", "FAILED"} =>
         delivered[m] + Cardinality(Open(m)) <= Cardinality(Processes) + faults
Deliveries == \A m \in Mails : Counted(m)

\* Some row is the oldest.
LEMMA OldestIsARow ==
    ASSUME createdAt \in [Mails -> Nat], NEW rows \in SUBSET Mails, rows # {}
    PROVE  Oldest(rows) \in rows
<1> DEFINE Times == {createdAt[m] : m \in rows}
<1>1. Times \subseteq Nat /\ Times # {}
  OBVIOUS
<1> DEFINE R == OpToRel(<, Nat)
<1>r. \A u, v \in Nat : u < v => <<u, v>> \in R
  BY DEF OpToRel
<1>w. IsWellFoundedOn(R, Nat)
  BY NatLessThanWellFounded
<1> HIDE DEF R
<1>2. PICK t \in Times : \A u \in Times : <<u, t>> \notin R
  <2> HIDE DEF Times
  <2> QED
    BY <1>1, <1>w, WFMin
<1>3. ASSUME NEW u \in Times
      PROVE  t <= u
  <2> HIDE DEF Times
  <2>1. u \in Nat /\ t \in Nat
    BY <1>1, <1>3, <1>2
  <2>2. ~(u < t)
    BY <1>2, <1>3, <1>r, <2>1, Zenon
  <2> QED
    BY <2>1, <2>2
<1>4. PICK m \in rows : createdAt[m] = t
  BY <1>2
<1>5. \A n \in rows : createdAt[m] <= createdAt[n]
  BY <1>3, <1>4
<1> HIDE DEF Times
<1> QED
  BY <1>5 DEF Oldest

LEMMA LoopIsARun ==
    ASSUME createdAt \in [Mails -> Nat], NEW rows \in SUBSET Mails
    PROVE  /\ RunType(Loop(rows))
           /\ Loop(rows).step # "accepted"
           /\ \A m \in Mails : /\ Holds(Loop(rows), m) => m \in rows \/ m = None
                               /\ MaySend(Loop(rows), m) <=> m \in rows
<1>1. CASE rows = {}
  <2>1. Loop(rows) = [email |-> None, pending |-> {}, step |-> "idle"]
    BY <1>1 DEF Loop, Idle
  <2> QED
    BY <1>1, <2>1 DEF RunType, Idle, Holds, MaySend
<1>2. CASE rows # {}
  <2> DEFINE m0 == Oldest(rows)
  <2>1. m0 \in rows
    BY <1>2, OldestIsARow
  <2>2. Loop(rows) = [email |-> m0, pending |-> rows \ {m0}, step |-> "send"]
    BY <1>2 DEF Loop
  <2> HIDE DEF m0
  <2> QED
    BY <2>1, <2>2 DEF RunType, Holds, MaySend
<1> QED
  BY <1>1, <1>2

\* What is needed of a step in which the run of one process becomes r.
Runs(p, r) == /\ RunType(r)
              /\ DOMAIN run' = Processes /\ run'[p] = r
              /\ \A q \in Processes \ {p} : run'[q] = run[q]

LEMMA RunBecomes ==
    ASSUME Typed, NEW p \in Processes, NEW r, RunType(r), run' = [run EXCEPT ![p] = r]
    PROVE  Runs(p, r)
BY DEF Typed, Runs

LEMMA StepBecomes ==
    ASSUME Typed, NEW p \in Processes, run[p].step # "idle", NEW s \in {"send", "accepted", "caught"},
           run' = [run EXCEPT ![p].step = s]
    PROVE  Runs(p, [email |-> run[p].email, pending |-> run[p].pending, step |-> s])
<1>1. /\ run[p] \in [email : Mails, pending : SUBSET Mails, step : {"send", "accepted", "caught"}]
      /\ run[p].email \notin run[p].pending
  BY DEF Typed, RunType, Idle
<1>2. DOMAIN run = Processes
  BY DEF Typed
<1> QED
  BY <1>1, <1>2 DEF RunType, Runs

\* Each step is that of the environment or moves the run of one process.
LEMMA TypedStays == ASSUME EmailQueueAssumption, Typed, [Next]_vars PROVE Typed'
<1>c. createdAt \in [Mails -> Nat] /\ status \in [Mails -> Statuses]
  BY DEF Typed
<1>r. ASSUME NEW p \in Processes, NEW r, Runs(p, r), UNCHANGED createdAt,
             status' \in [Mails -> Statuses], delivered' \in [Mails -> Nat], faults' \in Nat,
             \A m \in Mails : status[m] # "none" => status'[m] # "none",
             \A m \in Mails : Holds(r, m) => status'[m] # "none"
      PROVE  Typed'
  <2>1. \A q \in Processes : RunType(run'[q])
    BY <1>r DEF Typed, Runs
  <2>2. \A q \in Processes, m \in Mails : Holds(run'[q], m) => status'[m] # "none"
    BY <1>r DEF Typed, Runs
  <2> QED
    BY <1>r, <2>1, <2>2 DEF Typed, Runs, RunType
<1>1. ASSUME NEW m \in Mails, NEW at, enqueue(m, at)
      PROVE  Typed'
  <2>1. IsFiniteSet({n \in Mails : status[n] # "none"})
    BY FS_Subset DEF EmailQueueAssumption
  <2>2. Cardinality({n \in Mails : status[n] # "none"}) \in Nat
    BY <2>1, FS_CardinalityType
  <2>3. createdAt' \in [Mails -> Nat]
    BY <1>1, <1>c, <2>2 DEF enqueue
  <2>4. status' \in [Mails -> Statuses] /\ \A n \in Mails : status[n] # "none" => status'[n] # "none"
    BY <1>1, <1>c DEF enqueue, Statuses
  <2> QED
    BY <1>1, <2>3, <2>4 DEF enqueue, Typed, RunType
<1>2. ASSUME NEW p \in Processes, runQueue(p)
      PROVE  Typed'
  <2>1. PendingRows \in SUBSET Mails /\ \A m \in PendingRows : status[m] = "PENDING"
    BY DEF PendingRows, Due
  <2> DEFINE r == Loop(PendingRows)
  <2>2. RunType(r) /\ \A m \in Mails : Holds(r, m) => m \in PendingRows \/ m = None
    BY <1>c, <2>1, LoopIsARun
  <2>3. run' = [run EXCEPT ![p] = r]
    BY <1>2 DEF runQueue
  <2>4. UNCHANGED <<status, createdAt, delivered, faults>>
    BY <1>2 DEF runQueue
  <2> HIDE DEF r
  <2>5. Runs(p, r)
    BY <2>2, <2>3, RunBecomes
  <2>6. \A m \in Mails : Holds(r, m) => status'[m] # "none"
    BY <2>1, <2>2, <2>4 DEF EmailQueueAssumption
  <2> QED
    BY <1>r, <2>4, <2>5, <2>6 DEF Typed
<1>3. ASSUME NEW p \in Processes, NEW accepted \in BOOLEAN, sendEmail(p, accepted)
      PROVE  Typed'
  <2> DEFINE s == IF accepted THEN "accepted" ELSE "caught"
             r == [email |-> run[p].email, pending |-> run[p].pending, step |-> s]
  <2>1. run' = [run EXCEPT ![p].step = s] /\ run[p].step # "idle"
        /\ s \in {"send", "accepted", "caught"}
    BY <1>3 DEF sendEmail
  <2>2. Runs(p, r)
    BY <2>1, StepBecomes
  <2>3. delivered' \in [Mails -> Nat]
    <3>1. CASE accepted
      <4>1. delivered' = [delivered EXCEPT ![email(p)] = @ + 1]
        BY <1>3, <3>1 DEF sendEmail
      <4>2. email(p) \in Mails
        BY <1>3 DEF sendEmail, email, Typed, RunType, Idle
      <4> QED
        BY <4>1, <4>2 DEF Typed
    <3>2. CASE ~accepted
      <4>1. delivered' = [delivered EXCEPT ![email(p)] = @]
        BY <1>3, <3>2 DEF sendEmail
      <4> QED
        BY <4>1 DEF Typed
    <3> QED
      BY <3>1, <3>2
  <2>4. \A m \in Mails : Holds(r, m) => status[m] # "none"
    BY DEF Typed, Holds
  <2>5. UNCHANGED <<status, createdAt, faults>>
    BY <1>3 DEF sendEmail
  <2> HIDE DEF r
  <2> QED
    BY <1>r, <2>2, <2>3, <2>4, <2>5 DEF Typed
<1>4. ASSUME NEW p \in Processes, markSent(p) \/ markFailed(p)
      PROVE  Typed'
  <2> DEFINE r == Done(p)
  <2>1. run[p].pending \in SUBSET Mails
    BY DEF Typed, RunType, Idle
  <2>2. RunType(r) /\ \A m \in Mails : Holds(r, m) => m \in run[p].pending \/ m = None
    BY <1>c, <2>1, LoopIsARun DEF Done
  <2>3. run' = [run EXCEPT ![p] = r] /\ UNCHANGED <<createdAt, delivered, faults>>
    BY <1>4 DEF markSent, markFailed
  <2> HIDE DEF r
  <2>4. Runs(p, r)
    BY <2>2, <2>3, RunBecomes
  <2>5. status' \in [Mails -> Statuses] /\ \A m \in Mails : status[m] # "none" => status'[m] # "none"
    BY <1>4, <1>c DEF markSent, markFailed, Statuses
  <2>6. \A m \in run[p].pending : status[m] # "none"
    BY <2>1 DEF Typed, Holds
  <2>7. \A m \in Mails : Holds(r, m) => status'[m] # "none"
    BY <2>1, <2>2, <2>5, <2>6 DEF EmailQueueAssumption
  <2> QED
    BY <1>r, <2>3, <2>4, <2>5, <2>7 DEF Typed
<1>5. ASSUME NEW p \in Processes, markSentFails(p)
      PROVE  Typed'
  <2> DEFINE r == [email |-> run[p].email, pending |-> run[p].pending, step |-> "caught"]
  <2>1. run' = [run EXCEPT ![p].step = "caught"] /\ run[p].step # "idle"
        /\ faults' = faults + 1 /\ UNCHANGED <<status, createdAt, delivered>>
    BY <1>5 DEF markSentFails
  <2>2. Runs(p, r)
    BY <2>1, StepBecomes
  <2>3. \A m \in Mails : Holds(r, m) => status[m] # "none"
    BY DEF Typed, Holds
  <2> HIDE DEF r
  <2> QED
    BY <1>r, <2>1, <2>2, <2>3 DEF Typed
<1>6. ASSUME NEW p \in Processes, Abandon(p)
      PROVE  Typed'
  <2>1. Runs(p, Idle)
    BY <1>6, RunBecomes DEF Abandon, RunType
  <2>2. \A m \in Mails : ~Holds(Idle, m)
    BY DEF Holds, Idle, EmailQueueAssumption
  <2>3. faults' = faults + 1 /\ UNCHANGED <<status, createdAt, delivered>>
    BY <1>6 DEF Abandon
  <2> QED
    BY <1>r, <2>1, <2>2, <2>3 DEF Typed
<1>7. CASE Tick \/ UNCHANGED vars
  <2>1. UNCHANGED <<status, createdAt, run, delivered, faults>>
    BY <1>7 DEF Tick, vars
  <2> QED
    BY <2>1 DEF Typed, RunType
<1> QED
  BY <1>1, <1>2, <1>3, <1>4, <1>5, <1>6, <1>7 DEF Next, Job

\* A run that is about to mark its mail as sent has handed it to the dispatcher.
LEMMA DeliveringStays ==
    ASSUME EmailQueueAssumption, Typed, Delivering, [Next]_vars
    PROVE  Delivering'
<1>d. ASSUME UNCHANGED <<run, delivered>>
      PROVE  Delivering'
  BY <1>d DEF Delivering
<1>r. ASSUME NEW p \in Processes, NEW r, Runs(p, r), r.step # "accepted",
             \A m \in Mails : delivered'[m] >= delivered[m] /\ delivered'[m] \in Nat
      PROVE  Delivering'
  <2> SUFFICES ASSUME NEW q \in Processes, run'[q].step = "accepted"
               PROVE  delivered'[run'[q].email] > 0
    BY DEF Delivering
  <2>1. q # p /\ run'[q] = run[q]
    BY <1>r DEF Runs
  <2>2. run[q].email \in Mails /\ delivered[run[q].email] > 0
    BY <2>1 DEF Delivering, Typed, RunType, Idle
  <2>3. delivered[run[q].email] \in Nat
    BY <2>2 DEF Typed
  <2> QED
    BY <1>r, <2>1, <2>2, <2>3
<1>n. ASSUME UNCHANGED delivered
      PROVE  \A m \in Mails : delivered'[m] >= delivered[m] /\ delivered'[m] \in Nat
  BY <1>n DEF Typed
<1>c. createdAt \in [Mails -> Nat]
  BY DEF Typed
<1>1. ASSUME NEW p \in Processes, runQueue(p)
      PROVE  Delivering'
  <2> DEFINE r == Loop(PendingRows)
  <2>1. RunType(r) /\ r.step # "accepted"
    BY <1>c, LoopIsARun DEF PendingRows
  <2>2. run' = [run EXCEPT ![p] = r] /\ UNCHANGED delivered
    BY <1>1 DEF runQueue
  <2> HIDE DEF r
  <2> QED
    BY <1>r, <1>n, <2>1, <2>2, RunBecomes
<1>2. ASSUME NEW p \in Processes, NEW accepted \in BOOLEAN, sendEmail(p, accepted)
      PROVE  Delivering'
  <2> DEFINE s == IF accepted THEN "accepted" ELSE "caught"
             r == [email |-> run[p].email, pending |-> run[p].pending, step |-> s]
  <2>1. run' = [run EXCEPT ![p].step = s] /\ run[p].step # "idle"
        /\ s \in {"send", "accepted", "caught"} /\ email(p) \in Mails
    BY <1>2 DEF sendEmail, email, Typed, RunType, Idle
  <2>2. Runs(p, r)
    BY <2>1, StepBecomes
  <2>3. CASE accepted
    <3>1. delivered' = [delivered EXCEPT ![email(p)] = @ + 1]
      BY <1>2, <2>3 DEF sendEmail
    <3>2. \A m \in Mails : delivered'[m] >= delivered[m] /\ delivered'[m] \in Nat
      BY <3>1 DEF Typed
    <3>3. delivered'[email(p)] > 0
      BY <3>1, <2>1 DEF Typed
    <3> SUFFICES ASSUME NEW q \in Processes, run'[q].step = "accepted"
                 PROVE  delivered'[run'[q].email] > 0
      BY DEF Delivering
    <3>4. CASE q = p
      BY <3>3, <3>4, <2>2 DEF Runs, email
    <3>5. CASE q # p
      <4>1. run'[q] = run[q]
        BY <3>5, <2>2 DEF Runs
      <4>2. run[q].email \in Mails /\ delivered[run[q].email] > 0
        BY <4>1 DEF Delivering, Typed, RunType, Idle
      <4>3. delivered[run[q].email] \in Nat
        BY <4>2 DEF Typed
      <4> QED
        BY <3>2, <4>1, <4>2, <4>3
    <3> QED
      BY <3>4, <3>5
  <2>4. CASE ~accepted
    <3>1. delivered' = delivered
      BY <1>2, <2>4 DEF sendEmail, Typed
    <3>2. r.step # "accepted"
      BY <2>4
    <3> HIDE DEF r
    <3> QED
      BY <1>r, <1>n, <2>2, <3>1, <3>2
  <2> QED
    BY <2>3, <2>4
<1>3. ASSUME NEW p \in Processes, markSent(p) \/ markFailed(p)
      PROVE  Delivering'
  <2> DEFINE r == Done(p)
  <2>1. run[p].pending \in SUBSET Mails
    BY DEF Typed, RunType, Idle
  <2>2. RunType(r) /\ r.step # "accepted"
    BY <1>c, <2>1, LoopIsARun DEF Done
  <2>3. run' = [run EXCEPT ![p] = r] /\ UNCHANGED delivered
    BY <1>3 DEF markSent, markFailed
  <2> HIDE DEF r
  <2> QED
    BY <1>r, <1>n, <2>2, <2>3, RunBecomes
<1>4. ASSUME NEW p \in Processes, markSentFails(p)
      PROVE  Delivering'
  <2> DEFINE r == [email |-> run[p].email, pending |-> run[p].pending, step |-> "caught"]
  <2>1. run' = [run EXCEPT ![p].step = "caught"] /\ run[p].step # "idle" /\ UNCHANGED delivered
    BY <1>4 DEF markSentFails
  <2>2. Runs(p, r) /\ r.step # "accepted"
    BY <2>1, StepBecomes
  <2> HIDE DEF r
  <2> QED
    BY <1>r, <1>n, <2>1, <2>2
<1>5. ASSUME NEW p \in Processes, Abandon(p)
      PROVE  Delivering'
  <2>1. Runs(p, Idle) /\ Idle.step # "accepted" /\ UNCHANGED delivered
    BY <1>5, RunBecomes DEF Abandon, RunType, Idle
  <2> QED
    BY <1>r, <1>n, <2>1
<1>6. ASSUME NEW m \in Mails, NEW at, enqueue(m, at)
      PROVE  Delivering'
  BY <1>6, <1>d DEF enqueue
<1>7. CASE Tick \/ UNCHANGED vars
  BY <1>7, <1>d DEF Tick, vars
<1> QED
  BY <1>1, <1>2, <1>3, <1>4, <1>5, <1>6, <1>7 DEF Next, Job

\* SENT is only written behind the call that the dispatcher accepted, whatever the other
\* processes and the failures do in between.
LEMMA SentStays ==
    ASSUME Typed, Delivering, SentWasDelivered, [Next]_vars
    PROVE  SentWasDelivered'
<1> SUFFICES ASSUME NEW m \in Mails, status'[m] = "SENT"
             PROVE  delivered'[m] > 0
  BY DEF SentWasDelivered
<1>1. status[m] = "SENT" => delivered[m] > 0
  BY DEF SentWasDelivered
<1>2. delivered'[m] \in Nat /\ delivered'[m] >= delivered[m]
  <2>1. ASSUME NEW p \in Processes, NEW accepted \in BOOLEAN, sendEmail(p, accepted)
        PROVE  delivered'[m] \in Nat /\ delivered'[m] >= delivered[m]
    BY <2>1 DEF sendEmail, Typed
  <2>2. ASSUME UNCHANGED delivered
        PROVE  delivered'[m] \in Nat /\ delivered'[m] >= delivered[m]
    BY <2>2 DEF Typed
  <2> QED
    BY <2>1, <2>2
       DEF Next, Job, enqueue, runQueue, markSent, markSentFails, markFailed, Abandon,
           Tick, vars
<1>3. ASSUME NEW p \in Processes, markSent(p), status[m] # "SENT"
      PROVE  delivered[m] > 0
  <2>1. email(p) = m
    BY <1>3 DEF markSent, Typed
  <2> QED
    BY <1>3, <2>1 DEF markSent, Delivering, email
<1>4. ASSUME NEW n \in Mails, NEW at, enqueue(n, at)
      PROVE  status[m] = "SENT"
  BY <1>4 DEF enqueue, Typed
<1>5. ASSUME NEW p \in Processes, markFailed(p)
      PROVE  status[m] = "SENT"
  BY <1>5 DEF markFailed, Typed
<1>6. ASSUME UNCHANGED status
      PROVE  status[m] = "SENT"
  BY <1>6
<1> QED
  BY <1>1, <1>2, <1>3, <1>4, <1>5, <1>6
     DEF Next, Job, runQueue, sendEmail, markSentFails, Abandon, Tick, vars, Typed

LEMMA StartsTyped == ASSUME EmailQueueAssumption, Init PROVE Typed /\ Delivering
<1>1. \A p \in Processes : run[p] = Idle
  BY DEF Init
<1>2. \A m \in Mails : ~Holds(Idle, m)
  BY DEF Holds, Idle, EmailQueueAssumption
<1>3. Idle.step # "accepted"
  BY DEF Idle
<1> QED
  BY <1>1, <1>2, <1>3 DEF Init, Typed, Delivering, Statuses, RunType

\* A row that says SENT belongs to a mail the dispatcher accepted, for any number of
\* processes, of mails and of failures.
THEOREM SentIsDelivered == ASSUME EmailQueueAssumption PROVE Spec => []SentWasDelivered
<1>1. Init => Typed /\ Delivering /\ SentWasDelivered
  BY StartsTyped DEF Init, SentWasDelivered
<1>2. Typed /\ [Next]_vars => Typed'
  BY TypedStays
<1>3. Typed /\ Delivering /\ [Next]_vars => Delivering'
  BY DeliveringStays
<1>4. Typed /\ Delivering /\ SentWasDelivered /\ [Next]_vars => SentWasDelivered'
  BY SentStays
<1> QED
  BY <1>1, <1>2, <1>3, <1>4, PTL DEF Spec

\* Two sets of processes that differ in one process at most.
LEMMA CountsMove ==
    ASSUME NEW P, IsFiniteSet(P), NEW p \in P, NEW S \in SUBSET P, NEW T \in SUBSET P,
           \A q \in P \ {p} : q \in S <=> q \in T
    PROVE  /\ Cardinality(S) \in Nat /\ Cardinality(T) \in Nat
           /\ p \in T /\ p \notin S => Cardinality(T) = Cardinality(S) + 1
           /\ p \in S /\ p \notin T => Cardinality(S) = Cardinality(T) + 1
           /\ (p \in S <=> p \in T) => Cardinality(S) = Cardinality(T)
<1>1. IsFiniteSet(S) /\ IsFiniteSet(T)
  BY FS_Subset
<1>2. Cardinality(S) \in Nat /\ Cardinality(T) \in Nat
  BY <1>1, FS_CardinalityType
<1>3. ASSUME p \in T, p \notin S
      PROVE  Cardinality(T) = Cardinality(S) + 1
  <2>1. T = S \cup {p}
    BY <1>3
  <2> QED
    BY <2>1, <1>1, <1>3, FS_AddElement
<1>4. ASSUME p \in S, p \notin T
      PROVE  Cardinality(S) = Cardinality(T) + 1
  <2>1. S = T \cup {p}
    BY <1>4
  <2> QED
    BY <2>1, <1>1, <1>4, FS_AddElement
<1>5. ASSUME p \in S <=> p \in T
      PROVE  Cardinality(S) = Cardinality(T)
  <2>1. S = T
    BY <1>5
  <2> QED
    BY <2>1
<1> QED
  BY <1>2, <1>3, <1>4, <1>5

LEMMA SentMoves ==
    ASSUME EmailQueueAssumption, NEW m \in Mails, NEW p \in Processes, NEW r, Runs(p, r)
    PROVE  /\ Cardinality(Sent(m)) \in Nat /\ Cardinality(Sent(m)') \in Nat
           /\ HasSent(r, m) /\ ~HasSent(run[p], m) => Cardinality(Sent(m)') = Cardinality(Sent(m)) + 1
           /\ HasSent(run[p], m) /\ ~HasSent(r, m) => Cardinality(Sent(m)) = Cardinality(Sent(m)') + 1
           /\ (HasSent(run[p], m) <=> HasSent(r, m)) => Cardinality(Sent(m)) = Cardinality(Sent(m)')
<1> DEFINE S == Sent(m)
           T == {q \in Processes : HasSent(run'[q], m)}
<1>0. Sent(m)' = T
  BY DEF Sent, HasSent
<1>1. S \in SUBSET Processes /\ T \in SUBSET Processes /\ IsFiniteSet(Processes)
  BY DEF Sent, EmailQueueAssumption
<1>2. \A q \in Processes \ {p} : q \in S <=> q \in T
  BY DEF Sent, Runs
<1>3. (p \in S <=> HasSent(run[p], m)) /\ (p \in T <=> HasSent(r, m))
  BY DEF Sent, Runs
<1> HIDE DEF S, T
<1>4. /\ Cardinality(S) \in Nat /\ Cardinality(T) \in Nat
      /\ p \in T /\ p \notin S => Cardinality(T) = Cardinality(S) + 1
      /\ p \in S /\ p \notin T => Cardinality(S) = Cardinality(T) + 1
      /\ (p \in S <=> p \in T) => Cardinality(S) = Cardinality(T)
  BY <1>1, <1>2, CountsMove
<1> QED
  BY <1>0, <1>3, <1>4 DEF S

LEMMA OpenMoves ==
    ASSUME EmailQueueAssumption, NEW m \in Mails, NEW p \in Processes, NEW r, Runs(p, r)
    PROVE  /\ Cardinality(Open(m)) \in Nat /\ Cardinality(Open(m)') \in Nat
           /\ MaySend(run[p], m) /\ ~MaySend(r, m) => Cardinality(Open(m)) = Cardinality(Open(m)') + 1
           /\ (MaySend(run[p], m) <=> MaySend(r, m)) => Cardinality(Open(m)) = Cardinality(Open(m)')
<1> DEFINE S == Open(m)
           T == {q \in Processes : MaySend(run'[q], m)}
<1>0. Open(m)' = T
  BY DEF Open, MaySend
<1>1. S \in SUBSET Processes /\ T \in SUBSET Processes /\ IsFiniteSet(Processes)
  BY DEF Open, EmailQueueAssumption
<1>2. \A q \in Processes \ {p} : q \in S <=> q \in T
  BY DEF Open, Runs
<1>3. (p \in S <=> MaySend(run[p], m)) /\ (p \in T <=> MaySend(r, m))
  BY DEF Open, Runs
<1> HIDE DEF S, T
<1>4. /\ Cardinality(S) \in Nat /\ Cardinality(T) \in Nat
      /\ p \in S /\ p \notin T => Cardinality(S) = Cardinality(T) + 1
      /\ (p \in S <=> p \in T) => Cardinality(S) = Cardinality(T)
  BY <1>1, <1>2, CountsMove
<1> QED
  BY <1>0, <1>3, <1>4 DEF S

\* No run has sent a mail it may still send.
LEMMA SentAndOpenApart ==
    ASSUME EmailQueueAssumption, Typed, NEW m \in Mails
    PROVE  /\ Cardinality(Sent(m)) \in Nat /\ Cardinality(Open(m)) \in Nat
           /\ Cardinality(Processes) \in Nat
           /\ Cardinality(Sent(m)) + Cardinality(Open(m)) <= Cardinality(Processes)
<1>1. IsFiniteSet(Processes) /\ Sent(m) \subseteq Processes /\ Open(m) \subseteq Processes
  BY DEF EmailQueueAssumption, Sent, Open
<1>2. Sent(m) \cap Open(m) = {}
  <2> SUFFICES ASSUME NEW p \in Processes, HasSent(run[p], m), MaySend(run[p], m)
               PROVE  FALSE
    BY DEF Sent, Open
  <2>1. run[p].step = "accepted" /\ run[p].email = m
    BY DEF HasSent
  <2>2. run[p].email \notin run[p].pending
    BY <2>1 DEF Typed, RunType, Idle
  <2> QED
    BY <2>1, <2>2 DEF MaySend
<1>3. IsFiniteSet(Sent(m)) /\ IsFiniteSet(Open(m)) /\ IsFiniteSet(Sent(m) \cup Open(m))
  BY <1>1, FS_Subset, FS_Union
<1>4. Cardinality(Sent(m) \cup Open(m)) = Cardinality(Sent(m)) + Cardinality(Open(m)) - Cardinality({})
  BY <1>2, <1>3, FS_Union
<1>5. Cardinality(Sent(m) \cup Open(m)) <= Cardinality(Processes)
  BY <1>1, FS_Subset
<1> QED
  BY <1>1, <1>3, <1>4, <1>5, FS_EmptySet, FS_CardinalityType

\* A step of one run: what it adds to the deliveries is in the runs that have yet to mark
\* the row, in the failures, or taken from those that may still send it.
LEMMA CountedMoves ==
    ASSUME EmailQueueAssumption, Typed, NEW m \in Mails, Counted(m), NEW p \in Processes, NEW r,
           Runs(p, r), UNCHANGED status, faults' \in Nat, delivered'[m] \in Nat,
           faults' >= faults, MaySend(r, m) => MaySend(run[p], m) \/ status[m] = "PENDING",
           \/ delivered'[m] = delivered[m]
           \/ /\ delivered'[m] = delivered[m] + 1 /\ HasSent(r, m) /\ ~HasSent(run[p], m)
              /\ MaySend(run[p], m) /\ ~MaySend(r, m) /\ status[m] # "none",
           HasSent(run[p], m) /\ ~HasSent(r, m) => faults' = faults + 1
    PROVE  Counted(m)'
<1> DEFINE s == Cardinality(Sent(m))
           t == Cardinality(Sent(m)')
           o == Cardinality(Open(m))
           u == Cardinality(Open(m)')
           n == Cardinality(Processes)
<1>1. /\ s \in Nat /\ t \in Nat
      /\ HasSent(r, m) /\ ~HasSent(run[p], m) => t = s + 1
      /\ HasSent(run[p], m) /\ ~HasSent(r, m) => s = t + 1
      /\ (HasSent(run[p], m) <=> HasSent(r, m)) => s = t
  BY SentMoves
<1>2. /\ o \in Nat /\ u \in Nat
      /\ MaySend(run[p], m) /\ ~MaySend(r, m) => o = u + 1
      /\ (MaySend(run[p], m) <=> MaySend(r, m)) => o = u
  BY OpenMoves
<1>3. n \in Nat
  BY FS_CardinalityType DEF EmailQueueAssumption
<1>4. delivered[m] \in Nat /\ faults \in Nat
  BY DEF Typed
<1> HIDE DEF s, t, o, u, n
<1>5. /\ status[m] = "none" => delivered[m] = 0
      /\ status[m] = "PENDING" => delivered[m] <= s + faults
      /\ status[m] \in {"SENT", "FAILED"} => delivered[m] + o <= n + faults
  BY DEF Counted, s, o, n
<1>6. /\ status'[m] = "none" => delivered'[m] = 0
      /\ status'[m] = "PENDING" => delivered'[m] <= t + faults'
      /\ status'[m] \in {"SENT", "FAILED"} => delivered'[m] + u <= n + faults'
  BY <1>1, <1>2, <1>3, <1>4, <1>5
<1> QED
  BY <1>6 DEF Counted, t, u, n

\* The step that settles a row: the runs that have sent its mail and those that may still
\* send it are different ones.
LEMMA CountedSettles ==
    ASSUME EmailQueueAssumption, Typed, NEW m \in Mails, Counted(m), NEW p \in Processes, NEW r,
           Runs(p, r), status[m] # "none", status'[m] \in {"SENT", "FAILED"},
           UNCHANGED <<delivered, faults>>,
           MaySend(r, m) <=> MaySend(run[p], m)
    PROVE  Counted(m)'
<1> DEFINE s == Cardinality(Sent(m))
           o == Cardinality(Open(m))
           u == Cardinality(Open(m)')
           n == Cardinality(Processes)
<1>1. s \in Nat /\ o \in Nat /\ n \in Nat /\ s + o <= n
  BY SentAndOpenApart
<1>2. o = u
  BY OpenMoves
<1>3. delivered[m] \in Nat /\ faults \in Nat /\ status[m] \in Statuses
  BY DEF Typed
<1> HIDE DEF s, o, u, n
<1>4. /\ status[m] = "PENDING" => delivered[m] <= s + faults
      /\ status[m] \in {"SENT", "FAILED"} => delivered[m] + o <= n + faults
  BY DEF Counted, s, o, n
<1>5. delivered'[m] + u <= n + faults'
  BY <1>1, <1>2, <1>3, <1>4 DEF Statuses
<1> QED
  BY <1>5 DEF Counted, u, n

LEMMA DeliveriesStay ==
    ASSUME EmailQueueAssumption, Typed, Deliveries, [Next]_vars
    PROVE  Deliveries'
<1> SUFFICES ASSUME NEW m \in Mails
             PROVE  Counted(m)'
  BY DEF Deliveries
<1>k. Counted(m) /\ delivered[m] \in Nat /\ faults \in Nat
  BY DEF Deliveries, Typed
<1>c. createdAt \in [Mails -> Nat]
  BY DEF Typed
<1>s. ASSUME UNCHANGED <<run, delivered, faults>>, status'[m] = status[m]
      PROVE  Counted(m)'
  BY <1>s, <1>k DEF Counted, Sent, Open
<1>1. ASSUME NEW n \in Mails, NEW at, enqueue(n, at)
      PROVE  Counted(m)'
  <2>1. CASE n # m
    BY <1>1, <2>1, <1>s DEF enqueue
  <2>2. CASE n = m
    <3>1. status'[m] = "PENDING" /\ delivered'[m] = 0 /\ faults' = faults
      BY <1>1, <1>k, <2>2 DEF enqueue, Typed, Counted
    <3>2. Sent(m)' = Sent(m)
      BY <1>1 DEF enqueue, Sent
    <3>3. Cardinality(Sent(m)) \in Nat
      BY SentAndOpenApart
    <3> QED
      BY <1>k, <3>1, <3>2, <3>3 DEF Counted
  <2> QED
    BY <2>1, <2>2
<1>2. ASSUME NEW p \in Processes, runQueue(p)
      PROVE  Counted(m)'
  <2> DEFINE r == Loop(PendingRows)
  <2>1. RunType(r) /\ r.step # "accepted" /\ (MaySend(r, m) <=> m \in PendingRows)
    BY <1>c, LoopIsARun DEF PendingRows
  <2>2. run' = [run EXCEPT ![p] = r] /\ UNCHANGED <<status, delivered, faults>>
        /\ run[p].step # "accepted"
    BY <1>2 DEF runQueue, Idle
  <2>3. m \in PendingRows => status[m] = "PENDING"
    BY DEF PendingRows, Due
  <2> HIDE DEF r
  <2>4. Runs(p, r)
    BY <2>1, <2>2, RunBecomes
  <2>5. ~HasSent(r, m) /\ ~HasSent(run[p], m)
    BY <2>1, <2>2 DEF HasSent
  <2> QED
    BY <1>k, <2>1, <2>2, <2>3, <2>4, <2>5, CountedMoves
<1>3. ASSUME NEW p \in Processes, NEW accepted \in BOOLEAN, sendEmail(p, accepted)
      PROVE  Counted(m)'
  <2> DEFINE s == IF accepted THEN "accepted" ELSE "caught"
             r == [email |-> run[p].email, pending |-> run[p].pending, step |-> s]
  <2>1. run' = [run EXCEPT ![p].step = s] /\ run[p].step = "send"
        /\ s \in {"send", "accepted", "caught"} /\ s # "send" /\ UNCHANGED <<status, faults>>
    BY <1>3 DEF sendEmail
  <2>2. Runs(p, r)
    BY <2>1, StepBecomes
  <2>3. run[p].email \in Mails /\ run[p].email \notin run[p].pending
    BY <2>1 DEF Typed, RunType, Idle
  <2>4. delivered'[m] = IF accepted /\ run[p].email = m THEN delivered[m] + 1 ELSE delivered[m]
    <3>1. CASE accepted
      <4>1. delivered' = [delivered EXCEPT ![email(p)] = @ + 1]
        BY <1>3, <3>1 DEF sendEmail
      <4> QED
        BY <4>1, <3>1 DEF Typed, email
    <3>2. CASE ~accepted
      BY <1>3, <3>2 DEF sendEmail, Typed
    <3> QED
      BY <3>1, <3>2
  <2>5. status[run[p].email] # "none"
    BY <2>3 DEF Typed, Holds
  <2>6. MaySend(r, m) <=> m \in run[p].pending
    BY <2>1 DEF MaySend
  <2>7. MaySend(run[p], m) <=> m \in run[p].pending \/ run[p].email = m
    BY <2>1 DEF MaySend
  <2>8. ~HasSent(run[p], m) /\ (HasSent(r, m) <=> accepted /\ run[p].email = m)
    BY <2>1 DEF HasSent
  <2> HIDE DEF r, s
  <2>9. delivered'[m] \in Nat /\ faults' \in Nat /\ faults' >= faults
    BY <1>k, <2>1, <2>4
  <2>a. MaySend(r, m) => MaySend(run[p], m)
    BY <2>6, <2>7
  <2>b. \/ delivered'[m] = delivered[m]
        \/ /\ delivered'[m] = delivered[m] + 1 /\ HasSent(r, m) /\ ~HasSent(run[p], m)
           /\ MaySend(run[p], m) /\ ~MaySend(r, m) /\ status[m] # "none"
    BY <2>3, <2>4, <2>5, <2>6, <2>7, <2>8
  <2> QED
    BY <1>k, <2>1, <2>2, <2>8, <2>9, <2>a, <2>b, CountedMoves
<1>4. ASSUME NEW p \in Processes, markSent(p) \/ markFailed(p)
      PROVE  Counted(m)'
  <2> DEFINE r == Done(p)
  <2>1. run[p].pending \in SUBSET Mails
    BY DEF Typed, RunType, Idle
  <2>2. RunType(r) /\ r.step # "accepted" /\ (MaySend(r, m) <=> m \in run[p].pending)
    BY <1>c, <2>1, LoopIsARun DEF Done
  <2>3. run' = [run EXCEPT ![p] = r] /\ UNCHANGED <<delivered, faults>>
        /\ run[p].step \in {"accepted", "caught"}
    BY <1>4 DEF markSent, markFailed
  <2> HIDE DEF r
  <2>4. Runs(p, r)
    BY <2>2, <2>3, RunBecomes
  <2>5. run[p].email \in Mails /\ run[p].email \notin run[p].pending
    BY <2>3 DEF Typed, RunType, Idle
  <2>6. MaySend(r, m) <=> MaySend(run[p], m)
    BY <2>2, <2>3 DEF MaySend
  <2>7. CASE run[p].email = m
    <3>1. status'[m] \in {"SENT", "FAILED"}
      BY <1>4, <2>7 DEF markSent, markFailed, email, Typed
    <3>2. status[m] # "none"
      BY <2>7 DEF Typed, Holds
    <3> QED
      BY <1>k, <2>3, <2>4, <2>6, <3>1, <3>2, CountedSettles
  <2>8. CASE run[p].email # m
    <3>1. status'[m] = status[m]
      BY <1>4, <2>8 DEF markSent, markFailed, email, Typed
    <3>2. ~HasSent(r, m) /\ ~HasSent(run[p], m)
      BY <2>2, <2>8 DEF HasSent
    <3>3. Cardinality(Sent(m)) = Cardinality(Sent(m)') /\ Cardinality(Open(m)) = Cardinality(Open(m)')
      BY <2>4, <2>6, <3>2, SentMoves, OpenMoves
    <3> QED
      BY <1>k, <2>3, <3>1, <3>3 DEF Counted
  <2> QED
    BY <2>7, <2>8
<1>5. ASSUME NEW p \in Processes, markSentFails(p)
      PROVE  Counted(m)'
  <2> DEFINE r == [email |-> run[p].email, pending |-> run[p].pending, step |-> "caught"]
  <2>1. run' = [run EXCEPT ![p].step = "caught"] /\ run[p].step = "accepted"
        /\ faults' = faults + 1 /\ UNCHANGED <<status, delivered>>
    BY <1>5 DEF markSentFails
  <2>2. Runs(p, r)
    BY <2>1, StepBecomes
  <2>3. (MaySend(r, m) <=> MaySend(run[p], m)) /\ ~HasSent(r, m)
    BY <2>1 DEF MaySend, HasSent
  <2> HIDE DEF r
  <2> QED
    BY <1>k, <2>1, <2>2, <2>3, CountedMoves
<1>6. ASSUME NEW p \in Processes, Abandon(p)
      PROVE  Counted(m)'
  <2>1. Runs(p, Idle) /\ faults' = faults + 1 /\ UNCHANGED <<status, delivered>>
    BY <1>6, RunBecomes DEF Abandon, RunType
  <2>2. ~MaySend(Idle, m) /\ ~HasSent(Idle, m)
    BY DEF MaySend, HasSent, Idle
  <2> QED
    BY <1>k, <2>1, <2>2, CountedMoves
<1>7. CASE Tick \/ UNCHANGED vars
  BY <1>7, <1>s DEF Tick, vars
<1> QED
  BY <1>1, <1>2, <1>3, <1>4, <1>5, <1>6, <1>7 DEF Next, Job

LEMMA StartsCounted == ASSUME EmailQueueAssumption, Init PROVE Deliveries
<1>1. \A m \in Mails : status[m] = "none" /\ delivered[m] = 0
  BY DEF Init
<1> QED
  BY <1>1 DEF Deliveries, Counted

\* A mail goes out once for every process at most, and once more for every run that was
\* cut short: for any number of mails, of processes and of failures, and whatever one run
\* takes at a time.
THEOREM DeliveriesStayBounded ==
    ASSUME EmailQueueAssumption PROVE Spec => []DeliveriesBounded
<1>1. Init => Typed /\ Deliveries
  BY StartsTyped, StartsCounted
<1>2. Typed /\ [Next]_vars => Typed'
  BY TypedStays
<1>3. Typed /\ Deliveries /\ [Next]_vars => Deliveries'
  BY DeliveriesStay
<1>4. Typed /\ Deliveries => DeliveriesBounded
  <2> SUFFICES ASSUME Typed, Deliveries, NEW m \in Mails
               PROVE  delivered[m] <= Cardinality(Processes) + faults
    BY DEF DeliveriesBounded
  <2>1. /\ Cardinality(Sent(m)) \in Nat /\ Cardinality(Open(m)) \in Nat
        /\ Cardinality(Processes) \in Nat
        /\ Cardinality(Sent(m)) + Cardinality(Open(m)) <= Cardinality(Processes)
    BY SentAndOpenApart
  <2>2. Counted(m) /\ delivered[m] \in Nat /\ faults \in Nat /\ status[m] \in Statuses
    BY DEF Typed, Deliveries
  <2> QED
    BY <2>1, <2>2 DEF Counted, Statuses
<1> QED
  BY <1>1, <1>2, <1>3, <1>4, PTL DEF Spec

\* What a run holds was due when the run took it, and its time does not move.
Timely ==
    /\ now \in Nat /\ scheduledAt \in [Mails -> Nat \cup {None}]
    /\ \A p \in Processes, m \in Mails :
         Holds(run[p], m) => scheduledAt[m] = None \/ scheduledAt[m] <= now

LEMMA TimelyStays == ASSUME EmailQueueAssumption, Typed, Timely, [Next]_vars PROVE Timely'
<1>t. now \in Nat /\ scheduledAt \in [Mails -> Nat \cup {None}]
  BY DEF Timely
<1>c. createdAt \in [Mails -> Nat]
  BY DEF Typed
<1>r. ASSUME NEW p \in Processes, NEW r, Runs(p, r), UNCHANGED <<scheduledAt, now>>,
             \A m \in Mails : Holds(r, m) =>
                 Holds(run[p], m) \/ scheduledAt[m] = None \/ scheduledAt[m] <= now
      PROVE  Timely'
  <2> SUFFICES ASSUME NEW q \in Processes, NEW m \in Mails, Holds(run'[q], m)
               PROVE  scheduledAt[m] = None \/ scheduledAt[m] <= now
    BY <1>r, <1>t DEF Timely, Holds
  <2> QED
    BY <1>r DEF Timely, Runs
<1>1. ASSUME NEW n \in Mails, NEW at \in {None} \cup 0..MaxTime, enqueue(n, at)
      PROVE  Timely'
  <2>1. scheduledAt' \in [Mails -> Nat \cup {None}] /\ UNCHANGED <<run, now>>
        /\ \A m \in Mails \ {n} : scheduledAt'[m] = scheduledAt[m]
    BY <1>1, <1>t DEF enqueue, EmailQueueAssumption
  <2>2. \A p \in Processes : ~Holds(run[p], n)
    BY <1>1 DEF enqueue, Typed
  <2> QED
    BY <1>t, <2>1, <2>2 DEF Timely, Holds
<1>2. ASSUME NEW p \in Processes, runQueue(p)
      PROVE  Timely'
  <2> DEFINE r == Loop(PendingRows)
  <2>1. RunType(r) /\ \A m \in Mails : Holds(r, m) => m \in PendingRows \/ m = None
    BY <1>c, LoopIsARun DEF PendingRows
  <2>2. run' = [run EXCEPT ![p] = r] /\ UNCHANGED <<scheduledAt, now>>
    BY <1>2 DEF runQueue
  <2>3. \A m \in PendingRows : scheduledAt[m] = None \/ scheduledAt[m] <= now
    BY DEF PendingRows, Due
  <2> HIDE DEF r
  <2> QED
    BY <1>r, <2>1, <2>2, <2>3, RunBecomes DEF EmailQueueAssumption
<1>3. ASSUME NEW p \in Processes, markSent(p) \/ markFailed(p)
      PROVE  Timely'
  <2> DEFINE r == Done(p)
  <2>1. run[p].pending \in SUBSET Mails
    BY DEF Typed, RunType, Idle
  <2>2. RunType(r) /\ \A m \in Mails : Holds(r, m) => m \in run[p].pending \/ m = None
    BY <1>c, <2>1, LoopIsARun DEF Done
  <2>3. run' = [run EXCEPT ![p] = r] /\ UNCHANGED <<scheduledAt, now>>
    BY <1>3 DEF markSent, markFailed
  <2> HIDE DEF r
  <2>4. \A m \in Mails : Holds(r, m) => Holds(run[p], m)
    BY <2>2 DEF Holds, EmailQueueAssumption
  <2> QED
    BY <1>r, <2>2, <2>3, <2>4, RunBecomes
<1>4. ASSUME NEW p \in Processes, NEW s \in {"send", "accepted", "caught"}, run[p].step # "idle",
             run' = [run EXCEPT ![p].step = s], UNCHANGED <<scheduledAt, now>>
      PROVE  Timely'
  <2> DEFINE r == [email |-> run[p].email, pending |-> run[p].pending, step |-> s]
  <2>1. \A m \in Mails : Holds(r, m) => Holds(run[p], m)
    BY DEF Holds
  <2>2. Runs(p, r)
    BY <1>4, StepBecomes
  <2> HIDE DEF r
  <2> QED
    BY <1>4, <1>r, <2>1, <2>2
<1>5. ASSUME NEW p \in Processes, NEW accepted \in BOOLEAN, sendEmail(p, accepted)
      PROVE  Timely'
  <2> DEFINE s == IF accepted THEN "accepted" ELSE "caught"
  <2>1. run' = [run EXCEPT ![p].step = s] /\ run[p].step # "idle"
        /\ s \in {"send", "accepted", "caught"} /\ UNCHANGED <<scheduledAt, now>>
    BY <1>5 DEF sendEmail
  <2> HIDE DEF s
  <2> QED
    BY <1>4, <2>1
<1>6. ASSUME NEW p \in Processes, markSentFails(p)
      PROVE  Timely'
  <2>1. run' = [run EXCEPT ![p].step = "caught"] /\ run[p].step # "idle"
        /\ UNCHANGED <<scheduledAt, now>>
    BY <1>6 DEF markSentFails
  <2> QED
    BY <1>4, <2>1
<1>7. ASSUME NEW p \in Processes, Abandon(p)
      PROVE  Timely'
  <2>1. Runs(p, Idle) /\ UNCHANGED <<scheduledAt, now>>
    BY <1>7, RunBecomes DEF Abandon, RunType
  <2>2. \A m \in Mails : ~Holds(Idle, m)
    BY DEF Holds, Idle, EmailQueueAssumption
  <2> QED
    BY <1>r, <2>1, <2>2
<1>8. CASE Tick
  BY <1>8, <1>t DEF Tick, Timely
<1>9. CASE UNCHANGED vars
  BY <1>9 DEF vars, Timely
<1> QED
  BY <1>1, <1>2, <1>3, <1>5, <1>6, <1>7, <1>8, <1>9 DEF Next, Job

\* No mail goes out before its time: the condition of the read holds still at the send,
\* however long the run took to get there.
THEOREM NothingIsSentEarly ==
    ASSUME EmailQueueAssumption PROVE Spec => [][NeverEarly]_vars
<1>1. Init => Typed /\ Timely
  <2> SUFFICES ASSUME Init
               PROVE  Timely
    BY StartsTyped
  <2>1. \A p \in Processes, m \in Mails : ~Holds(run[p], m)
    BY DEF Init, Holds, Idle, EmailQueueAssumption
  <2> QED
    BY <2>1 DEF Init, Timely
<1>2. Typed /\ [Next]_vars => Typed'
  BY TypedStays
<1>3. Typed /\ Timely /\ [Next]_vars => Timely'
  BY TimelyStays
<1>4. Typed /\ Timely /\ [Next]_vars => [NeverEarly]_vars
  <2> SUFFICES ASSUME Typed, Timely, Next, NEW m \in Mails, delivered'[m] > delivered[m]
               PROVE  scheduledAt[m] = None \/ scheduledAt[m] <= now
    BY DEF NeverEarly
  <2>1. delivered[m] \in Nat
    BY DEF Typed
  <2>2. delivered' # delivered
    BY <2>1
  <2>3. PICK p \in Processes : sendEmail(p, TRUE) \/ sendEmail(p, FALSE)
    BY <2>2 DEF Next, Job, enqueue, runQueue, markSent, markSentFails, markFailed, Abandon, Tick
  <2>4. run[p].email = m
    BY <2>1, <2>3 DEF sendEmail, email, Typed
  <2> QED
    BY <2>4 DEF Timely, Holds
<1> QED
  BY <1>1, <1>2, <1>3, <1>4, PTL DEF Spec
=============================================================================
