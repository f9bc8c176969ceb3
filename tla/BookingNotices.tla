----------------------------- MODULE BookingNotices -----------------------------
(***************************************************************************)
(* What a booking tells its people (booking-notifications.service.ts): the *)
(* progress of the matching goes to the client, to providers and to the    *)
(* staff, whose list is kept for a minute; a step of the progress that was *)
(* told in the last half minute is dropped.  Every message ends as an emit *)
(* of module Notifications.                                                *)
(***************************************************************************)
EXTENDS Notifications

CONSTANTS
    Client, Providers,      \* the people of the booking
    Steps,                  \* a stage with its status; with the booking its fingerprint
    ProgressTtl, OpsTtl,    \* how long a step and the list of the staff are kept
    QueryTime,              \* bound: how long the read of the staff takes
    MaxTime                 \* bound: the clock

BookingNoticesAssumption ==
    /\ Client \in Users /\ Providers \subseteq Users /\ Steps \subseteq Keys
    /\ ProgressTtl \in Nat \ {0} /\ OpsTtl \in Nat /\ QueryTime \in Nat /\ MaxTime \in Nat

VARIABLES
    asks,                   \* worker |-> its call of notifyMatchingProgress
    matchingProgressCache,  \* fingerprint |-> the time until which it is dropped, or None
    opsRecipientCache,      \* the staff as last read and the time until which it is used
    working,                \* the staff whose accounts are active
    lastActive,             \* staff |-> the last time at which the account was active
    passed,                 \* fingerprint |-> the times at which a message went on
    now

noticeVars == <<asks, matchingProgressCache, opsRecipientCache, working, lastActive, passed, now>>
allVars == <<vars, noticeVars>>

NoAsk == [step |-> "idle", fingerprint |-> None, targets |-> {}, team |-> {}, since |-> 0]

InitNotices ==
    /\ Init
    /\ asks = [w \in Workers |-> NoAsk]
    /\ matchingProgressCache = [k \in Steps |-> None]
    /\ opsRecipientCache = [ids |-> {}, expiresAt |-> 0]
    /\ working = Staff /\ lastActive = [u \in Staff |-> 0]
    /\ passed = [k \in Steps |-> {}] /\ now = 0

\* Slip: a step that was told is dropped for one instant more.
DroppedLonger(k) == matchingProgressCache[k] # None /\ matchingProgressCache[k] >= now

Dropped(k) == matchingProgressCache[k] # None /\ matchingProgressCache[k] > now

\* Slip: the list is used for as long as there is one.
opsCachedForGood == opsRecipientCache.expiresAt > 0

opsCached == opsRecipientCache.expiresAt > now

\* The staff are read first unless their list is still good; includeOps leaves them out.
notifyMatchingProgress(w, k, targets, includeOps) ==
    /\ asks[w] = NoAsk /\ calls[w] = Quiet /\ Len(rows) < MaxRows
    /\ asks' = [asks EXCEPT ![w] =
           [step |-> IF includeOps /\ ~opsCached THEN "read" ELSE "check",
            fingerprint |-> k, targets |-> targets,
            team |-> IF includeOps /\ opsCached THEN opsRecipientCache.ids ELSE {}, since |-> now]]
    /\ UNCHANGED <<vars, matchingProgressCache, opsRecipientCache, working, lastActive, passed, now>>

\* Slip: the roles are not asked for.
findOpsUsersAnybody(w) ==
    /\ asks[w].step = "read"
    /\ asks' = [asks EXCEPT ![w].team = working \cup {Client}, ![w].step = "answer"]
    /\ UNCHANGED <<vars, matchingProgressCache, opsRecipientCache, working, lastActive, passed, now>>

\* resolveOpsRecipients: the answer is what the database held when it was read.
findOpsUsers(w) ==
    /\ asks[w].step = "read"
    /\ asks' = [asks EXCEPT ![w].team = working, ![w].step = "answer"]
    /\ UNCHANGED <<vars, matchingProgressCache, opsRecipientCache, working, lastActive, passed, now>>

\* A slower read that is answered later takes the place of a newer one.
cacheOpsUsers(w) ==
    /\ asks[w].step = "answer"
    /\ opsRecipientCache' = [ids |-> asks[w].team, expiresAt |-> now + OpsTtl]
    /\ asks' = [asks EXCEPT ![w].step = "check"]
    /\ UNCHANGED <<vars, matchingProgressCache, working, lastActive, passed, now>>

\* Slip: a step is not noted when it was noted before.
NotedOnce(k) == IF matchingProgressCache[k] = None THEN now + ProgressTtl ELSE matchingProgressCache[k]

Noted(k) == now + ProgressTtl

\* The fingerprint does not hold the recipients: a step told to some is dropped for others.
dropProgress(w) ==
    /\ asks[w].step = "check" /\ Dropped(asks[w].fingerprint)
    /\ asks' = [asks EXCEPT ![w] = NoAsk]
    /\ UNCHANGED <<vars, matchingProgressCache, opsRecipientCache, working, lastActive, passed, now>>

\* The step is noted before anything is sent: when the emit fails, a retry is dropped.
\* notifyParticipants: the client, the providers' accounts and the staff, each once;
\* nobody at all is no emit.
notifyParticipants(w) ==
    /\ asks[w].step = "check" /\ ~Dropped(asks[w].fingerprint)
    /\ LET k == asks[w].fingerprint
       IN  /\ matchingProgressCache' = [matchingProgressCache EXCEPT ![k] = Noted(k)]
           /\ passed' = [passed EXCEPT ![k] = @ \cup {now}]
           /\ LET recipients == asks[w].targets \cup asks[w].team
              IN  IF recipients = {} THEN calls' = calls
                  ELSE \E kind \in Kinds : Dispatch(w, recipients, kind, k)
    /\ asks' = [asks EXCEPT ![w] = NoAsk]
    /\ UNCHANGED <<rows, streamVars, received, reader, faults,
                   opsRecipientCache, working, lastActive, now>>

deliver(w) == (dedupe(w) \/ createMany(w) \/ createManyFails(w) \/ broadcastBatch(w)) /\ UNCHANGED noticeVars

\* An administrator switches an account of the staff off or on.
toggleAccount(u) ==
    /\ u \in Staff
    /\ working' = IF u \in working THEN working \ {u} ELSE working \cup {u}
    /\ lastActive' = [lastActive EXCEPT ![u] = now]
    /\ UNCHANGED <<vars, asks, matchingProgressCache, opsRecipientCache, passed, now>>

\* A read of the staff takes at most QueryTime; nothing else waits before the check.
Tick ==
    /\ now < MaxTime /\ now' = now + 1
    /\ \A w \in Workers : asks[w].step # "check" /\ (asks[w] # NoAsk => now - asks[w].since < QueryTime)
    /\ lastActive' = [u \in Staff |-> IF u \in working THEN now + 1 ELSE lastActive[u]]
    /\ UNCHANGED <<vars, asks, matchingProgressCache, opsRecipientCache, working, passed>>

NextNotices ==
    \/ \E w \in Workers :
         \/ \E k \in Steps, targets \in SUBSET (Providers \cup {Client}), includeOps \in BOOLEAN :
                notifyMatchingProgress(w, k, targets, includeOps)
         \/ findOpsUsers(w) \/ cacheOpsUsers(w) \/ dropProgress(w) \/ notifyParticipants(w) \/ deliver(w)
    \/ \E u \in Staff : toggleAccount(u)
    \/ Tick

NoticesSpec == InitNotices /\ [][NextNotices]_allVars

-----------------------------------------------------------------------------
\* The shape of the state.
NoticesTypeOK ==
    /\ \A w \in Workers : /\ asks[w].step \in {"idle", "read", "answer", "check"}
                          /\ asks[w].targets \cup asks[w].team \subseteq Users
                          /\ asks[w] # NoAsk => calls[w] = Quiet
    /\ opsRecipientCache.ids \subseteq Staff /\ working \subseteq Staff /\ now \in 0..MaxTime
    /\ \A k \in Steps : passed[k] # {} <=> matchingProgressCache[k] # None

\* booking-notifications.service.ts:79-91: however the calls of several workers fall
\* together, one step of the progress is sent on at most once in a ProgressTtl.
ProgressOnce ==
    \A k \in Steps : \A s, t \in passed[k] : s < t => t - s >= ProgressTtl

\* The same check, from the other side: a message is dropped only when the same step was
\* sent on within the last ProgressTtl.
DropsForAReason ==
    \A w \in Workers : asks[w].step = "check" /\ asks'[w] = NoAsk /\ passed' = passed =>
        \E t \in passed[asks[w].fingerprint] : now - t < ProgressTtl

\* booking-notifications.service.ts:112-131: whom the list calls staff was active not more
\* than the life of the list and one read before, although reads overtake one another.
StaffFresh ==
    \A w \in Workers : asks[w].step = "check" =>
        \A u \in asks[w].team : now - lastActive[u] < OpsTtl + QueryTime + 1

\* notifications.service.ts:117-137 with the check above: a retry after the step is no
\* longer dropped stores no second row for who has one, and the retry of a failed emit
\* does store it; one row for a worker at most.
RetryAddsNone ==
    \A u \in Users, k \in Steps :
        Cardinality({i \in DOMAIN rows : rows[i].user = u /\ rows[i].key = k}) <= 1

=============================================================================
