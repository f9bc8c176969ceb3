----------------------------- MODULE Notifications -----------------------------
(***************************************************************************)
(* Notifications (notifications.service.ts, notification-events.service.ts *)
(* and their controller): an emit reads what was sent under its key, then  *)
(* stores the rows, then tells the open streams of the process; users page *)
(* through their rows while rows arrive and are marked as read.  No        *)
(* adapter is registered anywhere in the code, and nothing that sends      *)
(* reads the preferences.                                                  *)
(***************************************************************************)
EXTENDS Integers, Sequences, FiniteSets, SequencesExt, FiniteSetsExt

CONSTANTS
    Users, Staff,   \* Staff: the users whose role is employee or admin
    Kinds, Keys,    \* what a notification is about; its dedupeKey
    Workers,        \* the calls of emit that may be under way at once
    Sockets,        \* the streams that clients open
    Take,           \* rows of one page (query.limit)
    MaxRows,        \* bound: stored rows
    MaxStreams,     \* bound: sets of handlers ever made
    MaxFaults,      \* bound: failed calls to the database and restarts
    None

NotificationsAssumption ==
    /\ Staff \subseteq Users /\ Take \in Nat \ {0} /\ MaxRows \in Nat /\ MaxStreams \in Nat
    /\ MaxFaults \in Nat /\ None \notin Keys

VARIABLES
    rows,           \* the table, in the order of createdAt; the id of a row is its place
    calls,          \* worker |-> its call of emit
    handlerSets,    \* the sets of handlers ever made, by reference
    userStreams,    \* user |-> the set of handlers the process knows, or None
    sockets,        \* stream |-> its user, its set and the rows there were when it opened
    received,       \* stream |-> the events it was told
    reader,         \* a user who pages through the own rows
    faults

vars == <<rows, calls, handlerSets, userStreams, sockets, received, reader, faults>>
streamVars == <<handlerSets, userStreams, sockets>>

Quiet == [step |-> "idle", users |-> {}, kind |-> None, key |-> None]
Closed == [user |-> None, handlers |-> 0, since |-> 0]
NoReader == [user |-> None, unread |-> FALSE, todo |-> {}, seen |-> {}, shown |-> 0,
             cursor |-> 0, blind |-> 0, done |-> FALSE]

Init ==
    /\ rows = << >> /\ calls = [w \in Workers |-> Quiet]
    /\ handlerSets = << >> /\ userStreams = [u \in Users |-> None]
    /\ sockets = [s \in Sockets |-> Closed] /\ received = [s \in Sockets |-> {}]
    /\ reader = NoReader /\ faults = 0

-----------------------------------------------------------------------------
(* emit *)

Dispatch(w, users, kind, key) ==
    calls' = [calls EXCEPT ![w] = [step |-> IF key = None THEN "store" ELSE "dedupe",
                                   users |-> users, kind |-> kind, key |-> key]]

emit(w, users, kind, key) ==
    /\ calls[w] = Quiet /\ users # {} /\ Len(rows) < MaxRows
    /\ Dispatch(w, users, kind, key)
    /\ UNCHANGED <<rows, streamVars, received, reader, faults>>

Row(user, kind, key) == [user |-> user, kind |-> kind, key |-> key, read |-> FALSE]

\* Slip: one notified recipient is taken for all of them.
alreadyNotifiedAll(w) ==
    LET e == calls[w]
    IN  IF \E i \in DOMAIN rows : rows[i].user \in e.users /\ rows[i].kind = e.kind /\ rows[i].key = e.key
        THEN e.users ELSE {}

\* Slip: the key is not looked up.
alreadyNotifiedNone(w) == {}

alreadyNotified(w) ==
    {rows[i].user : i \in {j \in DOMAIN rows :
        rows[j].user \in calls[w].users /\ rows[j].kind = calls[w].kind /\ rows[j].key = calls[w].key}}

\* Slip: an emit that has nobody left to tell goes on.
dedupeGoesOn(w) ==
    /\ calls[w].step = "dedupe"
    /\ calls' = [calls EXCEPT ![w].users = @ \ alreadyNotified(w), ![w].step = "store"]
    /\ UNCHANGED <<rows, streamVars, received, reader, faults>>

dedupe(w) ==
    /\ calls[w].step = "dedupe"
    /\ LET left == calls[w].users \ alreadyNotified(w)
       IN  calls' = [calls EXCEPT ![w] = IF left = {} THEN Quiet
                                         ELSE [@ EXCEPT !.users = left, !.step = "store"]]
    /\ UNCHANGED <<rows, streamVars, received, reader, faults>>

subscribers(user) == IF userStreams[user] = None THEN {} ELSE handlerSets[userStreams[user]]

\* Slip: the streams are told before the rows are stored.
createManyAfterwards(w) ==
    /\ calls[w].step = "store"
    /\ received' = [s \in Sockets |->
           IF \E u \in calls[w].users : s \in subscribers(u)
           THEN received[s] \cup {[kind |-> calls[w].kind, key |-> calls[w].key]} ELSE received[s]]
    /\ calls' = [calls EXCEPT ![w].step = "broadcast"]
    /\ UNCHANGED <<rows, streamVars, reader, faults>>

\* createMany: one row for every user, or none when it fails, and then no stream is told.
createMany(w) ==
    /\ calls[w].step = "store"
    /\ rows' = rows \o SetToSeq({Row(u, calls[w].kind, calls[w].key) : u \in calls[w].users})
    /\ calls' = [calls EXCEPT ![w].step = "broadcast"]
    /\ UNCHANGED <<streamVars, received, reader, faults>>

createManyFails(w) ==
    /\ calls[w].step \in {"dedupe", "store"} /\ faults < MaxFaults
    /\ calls' = [calls EXCEPT ![w] = Quiet] /\ faults' = faults + 1
    /\ UNCHANGED <<rows, streamVars, received, reader>>

broadcastBatch(w) ==
    /\ calls[w].step = "broadcast"
    /\ received' = [s \in Sockets |->
           IF \E u \in calls[w].users : s \in subscribers(u)
           THEN received[s] \cup {[kind |-> calls[w].kind, key |-> calls[w].key]} ELSE received[s]]
    /\ calls' = [calls EXCEPT ![w] = Quiet]
    /\ UNCHANGED <<rows, streamVars, reader, faults>>

-----------------------------------------------------------------------------
(* createStream: the first stream of a user makes the set; the teardown takes *)
(* the set away when it is empty.                                             *)

createStream(s, user) ==
    /\ sockets[s] = Closed
    /\ LET known == userStreams[user]
           at == IF known = None THEN Len(handlerSets) + 1 ELSE known
       IN  /\ IF known = None
              THEN Len(handlerSets) < MaxStreams /\ handlerSets' = Append(handlerSets, {s})
              ELSE handlerSets' = [handlerSets EXCEPT ![known] = @ \cup {s}]
           /\ userStreams' = [userStreams EXCEPT ![user] = at]
           /\ sockets' = [sockets EXCEPT ![s] = [user |-> user, handlers |-> at, since |-> Len(rows)]]
    /\ received' = [received EXCEPT ![s] = {}]
    /\ UNCHANGED <<rows, calls, reader, faults>>

\* Slip: the first teardown of a user takes the whole set away.
LeftBehind(s) == None

\* What the process knows of the user once the stream is gone.
Remaining(s) ==
    IF handlerSets[sockets[s].handlers] = {s} THEN None ELSE userStreams[sockets[s].user]

closeStream(s) ==
    /\ sockets[s] # Closed
    /\ userStreams' = [userStreams EXCEPT ![sockets[s].user] = Remaining(s)]
    /\ handlerSets' = [handlerSets EXCEPT ![sockets[s].handlers] = @ \ {s}]
    /\ sockets' = [sockets EXCEPT ![s] = Closed] /\ received' = [received EXCEPT ![s] = {}]
    /\ UNCHANGED <<rows, calls, reader, faults>>

\* The process dies: its calls, its streams and what it knows of them are gone.
Restart ==
    /\ faults < MaxFaults /\ faults' = faults + 1
    /\ calls' = [w \in Workers |-> Quiet]
    /\ userStreams' = [u \in Users |-> None] /\ handlerSets' = << >>
    /\ sockets' = [s \in Sockets |-> Closed] /\ received' = [s \in Sockets |-> {}]
    /\ UNCHANGED <<rows, reader>>

-----------------------------------------------------------------------------
(* The controller and the handlers of one user *)

\* targetUserId: staff act for anybody, the others for themselves.
permitted(caller, target) == caller \in Staff \/ caller = target

markRead(id, caller, target) ==
    /\ permitted(caller, target) /\ id \in DOMAIN rows
    /\ caller \in Staff \/ rows[id].user = target
    /\ rows' = [rows EXCEPT ![id].read = TRUE]
    /\ UNCHANGED <<calls, streamVars, received, reader, faults>>

\* all, or the rows named, as far as they are the target's.
markMany(ids, caller, target) ==
    /\ permitted(caller, target) /\ ids # {}
    /\ rows' = [i \in DOMAIN rows |->
           IF i \in ids /\ rows[i].user = target THEN [rows[i] EXCEPT !.read = TRUE] ELSE rows[i]]
    /\ UNCHANGED <<calls, streamVars, received, reader, faults>>

\* The rows of one page of s.
Slice(s, skip) == [i \in 1..Min({Take, Len(s) - skip}) |-> s[skip + i]]

Matching(user, unread) == {i \in DOMAIN rows : rows[i].user = user /\ (unread => ~rows[i].read)}

\* Slip: the row of the cursor is on the next page too.
PageWithCursor ==
    LET left == {i \in Matching(reader.user, reader.unread) : reader.cursor = 0 \/ i <= reader.cursor}
    IN  Slice(Reverse(SetToSortSeq(left, <)), 0)

\* Slip: two rows are left out after the cursor.
PageSkipsTwo ==
    LET left == {i \in Matching(reader.user, reader.unread) : reader.cursor = 0 \/ i <= reader.cursor}
        skip == IF reader.cursor = 0 THEN 0 ELSE 2
    IN  Slice(Reverse(SetToSortSeq(left, <)), skip)

\* list: newest first, from the place of the cursor on, one row left out when there is a
\* cursor - whichever row that is.
ListedPage ==
    LET left == {i \in Matching(reader.user, reader.unread) : reader.cursor = 0 \/ i <= reader.cursor}
        skip == IF reader.cursor = 0 THEN 0 ELSE 1
    IN  Slice(Reverse(SetToSortSeq(left, <)), skip)

begin(user, unread) ==
    /\ reader = NoReader
    /\ reader' = [NoReader EXCEPT !.user = user, !.unread = unread, !.todo = Matching(user, unread)]
    /\ UNCHANGED <<rows, calls, streamVars, received, faults>>

\* One page; a page that is not full is the last.
list ==
    /\ reader.user # None /\ ~reader.done
    /\ LET page == ListedPage
           blind == reader.cursor # 0 /\ reader.cursor \notin Matching(reader.user, reader.unread)
       IN  reader' = [reader EXCEPT !.seen = @ \cup ToSet(page), !.shown = @ + Len(page),
                                    !.cursor = IF page = << >> THEN @ ELSE Last(page),
                                    !.blind = IF blind THEN @ + 1 ELSE @,
                                    !.done = Len(page) < Take]
    /\ UNCHANGED <<rows, calls, streamVars, received, faults>>

Emitting == \E w \in Workers :
    \/ \E users \in SUBSET Users, kind \in Kinds, key \in Keys \cup {None} : emit(w, users, kind, key)
    \/ dedupe(w) \/ createMany(w) \/ createManyFails(w) \/ broadcastBatch(w)

Streaming == \E s \in Sockets : closeStream(s) \/ \E u \in Users : createStream(s, u)

Reading ==
    \/ \E id \in DOMAIN rows, caller, target \in Users : markRead(id, caller, target)
    \/ \E ids \in SUBSET DOMAIN rows, caller, target \in Users : markMany(ids, caller, target)
    \/ \E user \in Users, unread \in BOOLEAN : begin(user, unread)
    \/ list

Next == Emitting \/ Streaming \/ Reading \/ Restart

Spec == Init /\ [][Next]_vars

-----------------------------------------------------------------------------
\* The shape of the state.
TypeOK ==
    /\ \A i \in DOMAIN rows : rows[i].user \in Users /\ rows[i].kind \in Kinds /\ rows[i].read \in BOOLEAN
    /\ \A w \in Workers : /\ calls[w].step \in {"idle", "dedupe", "store", "broadcast"}
                          /\ calls[w].users \subseteq Users
                          /\ calls[w].step = "idle" <=> calls[w].users = {}
    /\ \A u \in Users : userStreams[u] = None \/ userStreams[u] \in DOMAIN handlerSets
    /\ \A s \in Sockets : sockets[s].handlers \in 0..Len(handlerSets)
    /\ reader.seen \subseteq DOMAIN rows /\ faults \in 0..MaxFaults

\* notifications.service.ts:117-137: the look-up and the insert are two calls, so that
\* emits that overlap may each store a row under one key; no user ever has more of them
\* than there were emits at once, and one when emits do not overlap.
CopiesBounded ==
    \A u \in Users, kind \in Kinds, key \in Keys :
        Cardinality({i \in DOMAIN rows : rows[i].user = u /\ rows[i].kind = kind /\ rows[i].key = key})
            <= Cardinality(Workers)

\* notifications.service.ts:117-134: a recipient that was not told yet gets a row although
\* another recipient of the same key was told: an emit that has looked its key up and stops
\* leaves nobody without one.
ForgetsNobody ==
    \A w \in Workers : calls[w].step = "dedupe" /\ calls'[w] = Quiet /\ faults' = faults =>
        \A u \in calls[w].users : \E i \in DOMAIN rows :
            rows[i].user = u /\ rows[i].kind = calls[w].kind /\ rows[i].key = calls[w].key

\* notifications.service.ts:145-166: what a stream was told is in the table: a client that
\* reloads its list on an event finds the row.
StreamedIsStored ==
    \A s \in Sockets : \A e \in received[s] : \E i \in DOMAIN rows :
        rows[i].user = sockets[s].user /\ rows[i].kind = e.kind /\ rows[i].key = e.key

\* notification-events.service.ts:33-49: whatever other streams of the user opened and
\* closed, an open stream was told of every row stored since it opened, unless the call
\* that stored the row is still to tell it.
OpenStreamsAreTold ==
    \A s \in Sockets : sockets[s] # Closed =>
        \A i \in (sockets[s].since + 1)..Len(rows) : rows[i].user = sockets[s].user =>
            \/ \E e \in received[s] : e.kind = rows[i].kind /\ e.key = rows[i].key
            \/ \E w \in Workers : /\ calls[w].step = "broadcast" /\ rows[i].user \in calls[w].users
                                  /\ calls[w].kind = rows[i].kind /\ calls[w].key = rows[i].key

\* notifications.service.ts:37-56: no row is shown twice while rows arrive and are read.
ShownOnce == reader.shown = Cardinality(reader.seen)

\* notifications.service.ts:45-55: a user who paged to the end saw every row there was at
\* the start and that still matches; with the unread filter one row may be missed for each
\* page whose cursor was read in the meantime (the row that is skipped is then another).
PagesComplete ==
    reader.done =>
        Cardinality((reader.todo \cap Matching(reader.user, reader.unread)) \ reader.seen) <= reader.blind

=============================================================================
