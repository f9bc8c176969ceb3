------------------------------ MODULE Incidents ------------------------------
(***************************************************************************)
(* Security incidents and their timeline (security.service.ts): created,   *)
(* assigned, commented, given one status after another by operators who    *)
(* each read the incident before they write it.                            *)
(***************************************************************************)
EXTENDS Integers, Sequences, SequencesExt

CONSTANTS
    Operators,
    Statuses,   \* bound: those of the enumeration in use
    MaxEntries, \* bound: entries of a timeline
    MaxTime,    \* bound: the clock
    Workers, None

IncidentsAssumption ==
    /\ Statuses \subseteq {"open", "in_progress", "resolved", "closed"}
    /\ "open" \in Statuses /\ MaxEntries \in Nat /\ MaxTime \in Nat
    /\ None \notin Operators \cup Statuses

VARIABLES
    incident,   \* the row of one incident
    timeline,   \* its entries, oldest first
    req,        \* worker |-> the update it makes
    now

vars == <<incident, timeline, req, now>>

NoIncident == [status |-> "none", assignedTo |-> None, resolvedAt |-> None,
               resolvedBy |-> None]
Idle == [existing |-> None, status |-> None, message |-> FALSE, actor |-> None]

Init ==
    /\ incident = NoIncident /\ timeline = << >> /\ now = 0
    /\ req = [w \in Workers |-> Idle]

Settled(status) == status \in {"resolved", "closed"}

createIncident(actor, assignee) ==
    /\ incident = NoIncident
    /\ incident' = [NoIncident EXCEPT !.status = "open", !.assignedTo = assignee]
    /\ timeline' = <<[action |-> "created", actor |-> actor]>>
    /\ UNCHANGED <<req, now>>

UpdateRead(w, actor, status, message) ==
    /\ req[w] = Idle /\ incident # NoIncident /\ Len(timeline) < MaxEntries
    /\ status # None \/ message
    /\ req' = [req EXCEPT ![w] = [existing |-> incident.status, status |-> status,
                                  message |-> message, actor |-> actor]]
    /\ UNCHANGED <<incident, timeline, now>>

Entry(action, actor) == [action |-> action, actor |-> actor]

\* Slip: every status that is given gets an entry, the present one too, before the
\* comment.
TimelineEntriesAll(w) ==
    (IF req[w].status # None THEN <<Entry(req[w].existing, req[w].actor)>> ELSE << >>)
    \o (IF req[w].message THEN <<Entry("comment", req[w].actor)>> ELSE << >>)

\* A comment, and the new status if it is not the one that was read.
timelineEntries(w) ==
    (IF req[w].message THEN <<Entry("comment", req[w].actor)>> ELSE << >>)
    \o (IF req[w].status \notin {None, req[w].existing}
          THEN <<Entry(req[w].status, req[w].actor)>> ELSE << >>)

\* Slip: only "resolved" has a date.
UpdateWriteResolved(w) ==
    /\ req[w] # Idle
    /\ incident' = [incident EXCEPT
                      !.status = IF req[w].status = None THEN @ ELSE req[w].status,
                      !.resolvedAt = IF req[w].status = "resolved" THEN now ELSE @,
                      !.resolvedBy = IF req[w].status = "resolved" THEN req[w].actor ELSE @]
    /\ timeline' = timeline \o timelineEntries(w)
    /\ req' = [req EXCEPT ![w] = Idle]
    /\ UNCHANGED now

\* Row and entries are written together.  The date and the operator of a settlement are
\* those of the last one, and stay when the incident is opened again.
UpdateWrite(w) ==
    /\ req[w] # Idle
    /\ incident' = [incident EXCEPT
                      !.status = IF req[w].status = None THEN @ ELSE req[w].status,
                      !.resolvedAt = IF Settled(req[w].status) THEN now ELSE @,
                      !.resolvedBy = IF Settled(req[w].status) THEN req[w].actor ELSE @]
    /\ timeline' = timeline \o timelineEntries(w)
    /\ req' = [req EXCEPT ![w] = Idle]
    /\ UNCHANGED now

\* Slip: the assignment of an incident settles it.
assignSettles(assignee) ==
    /\ incident # NoIncident
    /\ incident' = [incident EXCEPT !.assignedTo = assignee, !.resolvedBy = assignee]
    /\ UNCHANGED <<timeline, req, now>>

assign(assignee) ==
    /\ incident # NoIncident
    /\ incident' = [incident EXCEPT !.assignedTo = assignee]
    /\ UNCHANGED <<timeline, req, now>>

Tick == now < MaxTime /\ now' = now + 1 /\ UNCHANGED <<incident, timeline, req>>

Next ==
    \/ \E u \in Operators, a \in Operators \cup {None} : createIncident(u, a)
    \/ \E w \in Workers, u \in Operators, s \in Statuses \cup {None}, m \in BOOLEAN :
         UpdateRead(w, u, s, m)
    \/ \E w \in Workers : UpdateWrite(w)
    \/ \E a \in Operators \cup {None} : assign(a)
    \/ Tick

Spec == Init /\ [][Next]_vars

-----------------------------------------------------------------------------
TypeOK ==
    /\ incident.status \in Statuses \cup {"none"}
    /\ incident.assignedTo \in Operators \cup {None}
    /\ incident.resolvedAt \in {None} \cup 0..now
    /\ (incident.resolvedBy = None) <=> (incident.resolvedAt = None)
    /\ \A i \in DOMAIN timeline : timeline[i].action \in Statuses \cup {"created", "comment"}

StatusEntries == SelectSeq(timeline, LAMBDA e : e.action \in Statuses)

\* A settled incident names who settled it and when, however requests interleave, and
\* the timeline tells of every status it has, though not always last.
SettledByNamed ==
    /\ Settled(incident.status) =>
         incident.resolvedAt # None /\ incident.resolvedBy \in Operators
    /\ incident.status \in Statuses \ {"open"} =>
         \E i \in DOMAIN timeline : timeline[i].action = incident.status

\* One update at a time, the last status the timeline tells is the incident's.
TimelineTellsStatus ==
    IF StatusEntries = << >> THEN incident.status \in {"none", "open"}
    ELSE Last(StatusEntries).action = incident.status

=============================================================================
