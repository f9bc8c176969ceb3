------------------------------- MODULE Tickets -------------------------------
(***************************************************************************)
(* Support tickets: those who ask, answer and read (support.service.ts),   *)
(* and the support centre's lists, overview and service levels             *)
(* (employee/support-center.service.ts).                                   *)
(*                                                                         *)
(* Both services write the same rows.  A ticket's updatedAt moves with     *)
(* every write of its row, and a message is a row of its own.              *)
(***************************************************************************)
EXTENDS Integers, Sequences, FiniteSets, SequencesExt, FiniteSetsExt

CONSTANTS
    Users, Operators,   \* the latter have the role employee or admin
    Tickets,            \* bound: ids
    Day,                \* the length of a day
    Statuses, Priorities, \* those of the enumerations in use; bounds
    MaxTime, MaxMessages, \* bounds
    None

TicketsAssumption ==
    /\ Operators \subseteq Users /\ None \notin Users
    /\ Day \in Nat \ {0} 
    /\ MaxTime \in Nat /\ MaxMessages \in Nat


VARIABLES
    ticket,     \* id |-> the row
    message,    \* id |-> its messages, oldest first
    settledAt,  \* id |-> when it was last resolved or closed
    now

vars == <<ticket, message, settledAt, now>>

STATUSES == {"open", "in_progress", "waiting_customer", "resolved", "closed"}
PRIORITIES == {"low", "medium", "high", "urgent"}
NoTicket == [status |-> "none", priority |-> "medium", requester |-> None,
             assignee |-> None, createdAt |-> 0, updatedAt |-> 0]

Init ==
    /\ ticket = [t \in Tickets |-> NoTicket]
    /\ message = [t \in Tickets |-> << >>]
    /\ settledAt = [t \in Tickets |-> 0]
    /\ now = 0

Stored == {t \in Tickets : ticket[t].status # "none"}
Settled(t) == ticket[t].status \in {"resolved", "closed"}
isElevated(u) == u \in Operators
isParticipant(u, t) == u \in {ticket[t].requester, ticket[t].assignee}

-----------------------------------------------------------------------------
(***************************************************************************)
(* Operations.                                                             *)
(***************************************************************************)

\* Slip: the times of the row are left at their defaults.
createUndated(u, priority) ==
    /\ \E t \in Tickets \ Stored :
         ticket' = [ticket EXCEPT ![t] = [NoTicket EXCEPT !.status = "open",
                                            !.priority = priority, !.requester = u,
                                            !.createdAt = now]]
    /\ UNCHANGED <<message, settledAt, now>>

create(u, priority) ==
    /\ \E t \in Tickets \ Stored :
         ticket' = [ticket EXCEPT ![t] =
                      [NoTicket EXCEPT !.status = "open", !.priority = priority,
                         !.requester = u, !.createdAt = now, !.updatedAt = now]]
    /\ UNCHANGED <<message, settledAt, now>>

Said(u, t, internal) ==
    /\ Len(message[t]) < MaxMessages
    /\ message' = [message EXCEPT ![t] =
                     Append(@, [at |-> now, internal |-> internal, author |-> u])]
    /\ UNCHANGED <<ticket, settledAt, now>>

\* Participants may mark what they say as internal, too.
addMessage(u, t, internal) ==
    /\ t \in Stored /\ (isElevated(u) \/ isParticipant(u, t))
    /\ Said(u, t, internal)

\* Slip: the update leaves its time alone.
UpdateUntouched(t, status, priority, assignee) ==
    /\ t \in Stored
    /\ ticket' = [ticket EXCEPT ![t] = [@ EXCEPT !.status = status, !.priority = priority,
                                                 !.assignee = assignee]]
    /\ settledAt' = [settledAt EXCEPT ![t] =
                       IF status \in {"resolved", "closed"} /\ ~Settled(t) THEN now ELSE @]
    /\ UNCHANGED <<message, now>>

\* update and updateTicket: any status after any other, whatever is left out stays.
update(t, status, priority, assignee) ==
    /\ t \in Stored
    /\ ticket' = [ticket EXCEPT ![t] = [@ EXCEPT !.status = status, !.priority = priority,
                                                 !.assignee = assignee, !.updatedAt = now]]
    /\ settledAt' = [settledAt EXCEPT ![t] =
                       IF status \in {"resolved", "closed"} /\ ~Settled(t) THEN now ELSE @]
    /\ UNCHANGED <<message, now>>

Tick == now < MaxTime /\ now' = now + 1 /\ UNCHANGED <<ticket, message, settledAt>>

Next ==
    \/ \E u \in Users, p \in Priorities : create(u, p)
    \/ \E u \in Users, t \in Tickets, internal \in BOOLEAN : addMessage(u, t, internal)
    \/ \E t \in Tickets :
         \/ \E s \in Statuses : update(t, s, ticket[t].priority, ticket[t].assignee)
         \/ \E p \in Priorities : update(t, ticket[t].status, p, ticket[t].assignee)
         \/ \E u \in Users \cup {None} : update(t, ticket[t].status, ticket[t].priority, u)
    \/ Tick

Spec == Init /\ [][Next]_vars

-----------------------------------------------------------------------------
(***************************************************************************)
(* Who reads what.                                                         *)
(***************************************************************************)

findOne(u, t) == t \in Stored /\ (isElevated(u) \/ isParticipant(u, t))

\* Slip: assignees do not see their tickets.
findAllRequested(u, status, priority) ==
    {t \in Stored :
        /\ isElevated(u) \/ u = ticket[t].requester
        /\ status # None => ticket[t].status = status
        /\ priority # None => ticket[t].priority = priority}

findAll(u, status, priority) ==
    {t \in Stored :
        /\ isElevated(u) \/ isParticipant(u, t)
        /\ status # None => ticket[t].status = status
        /\ priority # None => ticket[t].priority = priority}

-----------------------------------------------------------------------------
(***************************************************************************)
(* The support centre's numbers.                                           *)
(***************************************************************************)

InRange(from, to) == {t \in Stored : ticket[t].createdAt \in from..to}

Within24h(t) == ticket[t].updatedAt - ticket[t].createdAt <= Day

\* A rate in per cent, rounded half up; the service levels have none (null) where the
\* overview has 0.
Percent(n, of) == (200 * n + of) \div (2 * of)
resolution24hRate(from, to) ==
    LET resolved == {t \in InRange(from, to) : Settled(t)}
    IN IF resolved = {} THEN 0
       ELSE Percent(Cardinality({t \in resolved : Within24h(t)}), Cardinality(resolved))

\* The days of the range, rounded, at least one.
DaysOf(from, to) == Max({1, (2 * (to - from) + Day) \div (2 * Day)})

\* Slip: one bucket per day of the range.
buildTimelineShort(from, to) ==
    [i \in 0..(DaysOf(from, to) - 1) |->
        Cardinality({t \in InRange(from, to) :
                       ticket[t].createdAt \div Day = (from + i * Day) \div Day})]

\* One bucket per day, the first and the last included.
buildTimeline(from, to) ==
    [i \in 0..DaysOf(from, to) |->
        Cardinality({t \in InRange(from, to) :
                       ticket[t].createdAt \div Day = (from + i * Day) \div Day})]

\* The first message that is internal or an operator's.
isAgentMessage(m) == m.internal \/ isElevated(m.author)

\* Slip: the last one.
firstResponseLast(t) ==
    LET said == {i \in DOMAIN message[t] : isAgentMessage(message[t][i])}
    IN IF said = {} THEN None ELSE message[t][Max(said)].at - ticket[t].createdAt

firstResponse(t) ==
    LET said == {i \in DOMAIN message[t] : isAgentMessage(message[t][i])}
    IN IF said = {} THEN None ELSE message[t][Min(said)].at - ticket[t].createdAt

-----------------------------------------------------------------------------
TypeOK ==
    /\ \A t \in Tickets :
         /\ ticket[t].priority \in PRIORITIES /\ ticket[t].status \in STATUSES \cup {"none"}
         /\ ticket[t].createdAt <= ticket[t].updatedAt /\ ticket[t].updatedAt <= now
         /\ ticket[t].requester \in Users \cup {None}
         /\ ticket[t].assignee \in Users \cup {None}
         /\ \A i \in DOMAIN message[t] : message[t][i].at \in ticket[t].createdAt..now
    /\ now \in 0..MaxTime

\* A user's list has exactly the tickets the user may open (without a search term; one
\* adds the tickets it occurs in to the list).
ListedAsReadable ==
    \A u \in Users :
        /\ findAll(u, None, None) = {t \in Tickets : findOne(u, t)}
        /\ \A s \in Statuses : findAll(u, s, None) \subseteq findAll(u, None, None)

\* The centre counts a ticket as resolved within a day only if it was: any later
\* write of the row can only take it out of the rate.
RateIsConservative ==
    \A from \in 0..now :
        LET resolved == {t \in InRange(from, now) : Settled(t)}
            inTime == {t \in resolved : settledAt[t] - ticket[t].createdAt <= Day}
        IN resolved # {} => resolution24hRate(from, now)
                              <= Percent(Cardinality(inTime), Cardinality(resolved))

\* The overview's days hold every ticket of its default range, each once; and so they
\* do for a range that ends later in its day than it begins.
Total(f) == MapThenSumSet(LAMBDA i : f[i], DOMAIN f)
TimelineComplete ==
    \A from \in 0..now :
        \/ from % Day > now % Day
        \/ Total(buildTimeline(from, now)) = Cardinality(InRange(from, now))

\* No ticket waits longer for its first response than any operator's message took.
FirstResponseIsFirst ==
    \A t \in Stored : \A i \in DOMAIN message[t] :
        isElevated(message[t][i].author) =>
            /\ firstResponse(t) # None
            /\ firstResponse(t) <= message[t][i].at - ticket[t].createdAt

=============================================================================
