--------------------------------- MODULE Gdpr ---------------------------------
(***************************************************************************)
(* Requests to export or delete the data of an account                     *)
(* (compliance/gdpr.service.ts).  Every decision reads the request, checks *)
(* its status and updates it later; a start of an export writes a bundle   *)
(* in between.  Nothing is deleted here: a deletion is only recorded.      *)
(***************************************************************************)
EXTENDS Integers, FiniteSets, Sequences

CONSTANTS
    Requests, Exports,   \* ids, those of exports
    Workers,             \* calls at a time
    Week, MaxTime,       \* of a bundle; bound
    MaxFaults, MaxLog,   \* bounds
    None

GdprAssumption ==
    /\ Exports \subseteq Requests /\ Week \in Nat /\ MaxTime \in Nat
    /\ MaxFaults \in Nat /\ IsFiniteSet(Workers)

VARIABLES
    request,   \* id |-> the row
    bundles,   \* id |-> when its bundles were written; files are never removed
    work,      \* worker |-> its call
    log,       \* id |-> audit entries
    told,      \* id |-> the events its account was told
    now, faults

vars == <<request, bundles, work, log, told, now, faults>>

Statuses == {"PENDING", "PROCESSING", "COMPLETED", "REJECTED"}
NoBundle == [number |-> 0, readyAt |-> 0]
Idle == [op |-> "none", id |-> None, step |-> "none", bundle |-> NoBundle]

Init ==
    /\ request = [q \in Requests |-> [status |-> "none", bundle |-> NoBundle]]
    /\ bundles = [q \in Requests |-> <<>>]
    /\ work = [w \in Workers |-> Idle]
    /\ log = [q \in Requests |-> <<>>] /\ told = [q \in Requests |-> <<>>]
    /\ now = 0 /\ faults = 0

\* At most one call is under way.
Alone == \A v, w \in Workers : work[v] # Idle /\ work[w] # Idle => v = w

createRequest(q) ==
    /\ request[q].status = "none"
    /\ request' = [request EXCEPT ![q].status = "PENDING"]
    /\ log' = [log EXCEPT ![q] = <<"created">>]
    /\ UNCHANGED <<bundles, work, told, now, faults>>

\* Slip: a start is refused only once the request is settled.
AcceptsAnyStart(op, status) ==
    CASE op = "start" -> status \in {"PENDING", "PROCESSING"}
      [] op = "complete" -> status \in {"PENDING", "PROCESSING"}
      [] op = "reject" -> status \in {"PENDING", "PROCESSING", "REJECTED"}

\* Slip: what was completed can be rejected.
AcceptsAnyReject(op, status) ==
    CASE op = "start" -> status = "PENDING"
      [] op = "complete" -> status \in {"PENDING", "PROCESSING"}
      [] op = "reject" -> status # "none"

\* A deletion is confirmed, and an export completed, whether or not it was started; what
\* was rejected can be rejected again.
Accepts(op, status) ==
    CASE op = "start" -> status = "PENDING"
      [] op = "complete" -> status \in {"PENDING", "PROCESSING"}
      [] op = "reject" -> status \in {"PENDING", "PROCESSING", "REJECTED"}

begin(w, q, op) ==
    /\ work[w] = Idle /\ Accepts(op, request[q].status)
    /\ Len(log[q]) + Cardinality({x \in Workers : work[x].id = q}) < MaxLog
    /\ work' = [work EXCEPT ![w] =
                  [op |-> op, id |-> q, bundle |-> NoBundle,
                   step |-> IF op = "start" /\ q \in Exports THEN "generate" ELSE "update"]]
    /\ UNCHANGED <<request, bundles, log, told, now, faults>>

\* Each bundle is a file of its own.
generateExportBundle(w) ==
    /\ work[w].step = "generate"
    /\ LET q == work[w].id IN
         /\ bundles' = [bundles EXCEPT ![q] = Append(@, now)]
         /\ work' = [work EXCEPT ![w].step = "update",
                                 ![w].bundle = [number |-> Len(bundles[q]) + 1, readyAt |-> now]]
    /\ UNCHANGED <<request, log, told, now, faults>>

ActionOf(op) == CASE op = "start" -> "started" [] op = "complete" -> "completed"
                  [] op = "reject" -> "rejected"
StatusOf(op) == CASE op = "start" -> "PROCESSING" [] op = "complete" -> "COMPLETED"
                  [] op = "reject" -> "REJECTED"

\* Slip: a decision resets the columns of the bundle.
RowWithoutBundle(row, c) == [status |-> StatusOf(c.op), bundle |-> c.bundle]

\* Only the start of an export writes the columns of the bundle.
Row(row, c) == [status |-> StatusOf(c.op),
                bundle |-> IF c.bundle = NoBundle THEN row.bundle ELSE c.bundle]

\* Slip: what was settled in the meantime keeps its status; the entry is written.
updateUnsettled(w) ==
    /\ work[w].step = "update"
    /\ LET q == work[w].id IN
         /\ request' = IF request[q].status \in {"COMPLETED", "REJECTED"} THEN request
                       ELSE [request EXCEPT ![q] = Row(@, work[w])]
         /\ log' = [log EXCEPT ![q] = Append(@, ActionOf(work[w].op))]
    /\ work' = [work EXCEPT ![w] = IF @.op = "start" THEN Idle ELSE [@ EXCEPT !.step = "notify"]]
    /\ UNCHANGED <<bundles, told, now, faults>>

\* The status that was checked is not read again.
update(w) ==
    /\ work[w].step = "update"
    /\ LET q == work[w].id IN
         /\ request' = [request EXCEPT ![q] = Row(@, work[w])]
         /\ log' = [log EXCEPT ![q] = Append(@, ActionOf(work[w].op))]
    /\ work' = [work EXCEPT ![w] = IF @.op = "start" THEN Idle ELSE [@ EXCEPT !.step = "notify"]]
    /\ UNCHANGED <<bundles, told, now, faults>>

\* Slip: the account is told before the request is updated.
notifyUserEarly(w) ==
    /\ work[w].step \in {"update", "notify"} /\ work[w].op # "start"
    /\ told' = [told EXCEPT ![work[w].id] = Append(@, ActionOf(work[w].op))]
    /\ work' = [work EXCEPT ![w] = Idle]
    /\ UNCHANGED <<request, bundles, log, now, faults>>

notifyUser(w) ==
    /\ work[w].step = "notify"
    /\ told' = [told EXCEPT ![work[w].id] = Append(@, ActionOf(work[w].op))]
    /\ work' = [work EXCEPT ![w] = Idle]
    /\ UNCHANGED <<request, bundles, log, now, faults>>

\* The file, the database or the notification fails; what was written stays.
Fail(w) ==
    /\ work[w] # Idle /\ faults < MaxFaults
    /\ work' = [work EXCEPT ![w] = Idle] /\ faults' = faults + 1
    /\ UNCHANGED <<request, bundles, log, told, now>>

Tick ==
    /\ now < MaxTime /\ now' = now + 1
    /\ UNCHANGED <<request, bundles, work, log, told, faults>>

Next ==
    \/ \E q \in Requests : createRequest(q)
    \/ \E w \in Workers, q \in Requests, op \in {"start", "complete", "reject"} : begin(w, q, op)
    \/ \E w \in Workers : generateExportBundle(w) \/ update(w) \/ notifyUser(w) \/ Fail(w)
    \/ Tick

Spec == Init /\ [][Next]_vars

-----------------------------------------------------------------------------
Expires(q) == request[q].bundle.readyAt + Week

\* What the list says of the bundle.
exportAvailable(q) == request[q].bundle # NoBundle /\ now < Expires(q)

\* Slip: the bundle is held back until the request is completed.
getExportStreamOfCompleted(q) ==
    CASE q \notin Exports \/ request[q].status = "none" -> "GDPR_REQUEST_NOT_FOUND"
      [] request[q].status # "COMPLETED" -> "GDPR_EXPORT_NOT_READY"
      [] request[q].bundle = NoBundle -> "GDPR_EXPORT_MISSING"
      [] Expires(q) < now -> "GDPR_EXPORT_EXPIRED"
      [] OTHER -> "ok"

getExportStream(q) ==
    CASE q \notin Exports \/ request[q].status = "none" -> "GDPR_REQUEST_NOT_FOUND"
      [] request[q].status \notin {"PROCESSING", "COMPLETED"} -> "GDPR_EXPORT_NOT_READY"
      [] request[q].bundle = NoBundle -> "GDPR_EXPORT_MISSING"
      [] Expires(q) < now -> "GDPR_EXPORT_EXPIRED"
      [] OTHER -> "ok"

-----------------------------------------------------------------------------
Entries(q, action) == Cardinality({i \in DOMAIN log[q] : log[q][i] = action})
Notices(q, event) == Cardinality({i \in DOMAIN told[q] : told[q][i] = event})

TypeOK ==
    /\ \A q \in Requests :
         /\ request[q].status \in Statuses \cup {"none"}
         /\ request[q].bundle.number \in 0..Len(bundles[q])
         /\ request[q].bundle # NoBundle <=> q \in Exports /\ Entries(q, "started") > 0
         /\ request[q].bundle # NoBundle =>
              request[q].bundle.readyAt = bundles[q][request[q].bundle.number]
    /\ \A w \in Workers : work[w].step \in {"none", "generate", "update", "notify"}
    /\ now \in 0..MaxTime /\ faults \in 0..MaxFaults

\* Decisions that overtake one another and calls that fail leave the log in step with the
\* request: its last entry is the status (the entry is nested in the update).
LogTellsStatus ==
    \A q \in Requests : log[q] # <<>> =>
        request[q].status = CASE log[q][Len(log[q])] = "created" -> "PENDING"
                              [] log[q][Len(log[q])] = "started" -> "PROCESSING"
                              [] log[q][Len(log[q])] = "completed" -> "COMPLETED"
                              [] log[q][Len(log[q])] = "rejected" -> "REJECTED"

\* The bundles of a request, of which one is named, are bounded by the calls that can
\* read it as pending at a time and by the calls that failed.
BundlesBounded ==
    \A q \in Requests : Len(bundles[q]) <= Cardinality(Workers) + faults

\* An account is told of nothing that was not recorded, however calls overlap or fail.
ToldWhatHappened ==
    \A q \in Requests, e \in {"completed", "rejected"} : Notices(q, e) <= Entries(q, e)

\* What the list offers is served unless the request was rejected meanwhile, and what is
\* served was offered up to the moment at which it expires.
OfferedIsServed ==
    \A q \in Exports :
        /\ exportAvailable(q) /\ request[q].status # "REJECTED" => getExportStream(q) = "ok"
        /\ getExportStream(q) = "ok" => exportAvailable(q) \/ now = Expires(q)

\* One decision at a time, a request that was completed or rejected stays so.
KeepsSettled ==
    \A q \in Requests : request[q].status \in {"COMPLETED", "REJECTED"} =>
           request'[q].status = request[q].status

\* One decision at a time, the last an account was told is the status of its request.
ToldTheStatus ==
    \A q \in Requests : told[q] # <<>> =>
        request[q].status = IF told[q][Len(told[q])] = "completed" THEN "COMPLETED"
                            ELSE "REJECTED"

==============================================================================
