------------------------------- MODULE Identity -------------------------------
(***************************************************************************)
(* The identity of one provider: documents that are uploaded               *)
(* (provider.service.ts), reviewed by the staff (admin-identity.service.ts *)
(* with its audit log) or checked by Onfido (onfido.service.ts), and the   *)
(* kinds of document that are accepted (identity-document-types.service.ts).*)
(* Every call reads first, writes later and logs at the end.               *)
(***************************************************************************)
EXTENDS Integers, FiniteSets

CONSTANTS
    Docs, Reviewers, Workers,   \* documents; the staff; the calls under way at once
    Builtin, Customs,           \* the kinds of document: built in, and made by the staff
    Limit,                      \* documents of a provider (6 in the code)
    MaxCalls,                   \* bound: calls
    MaxFaults,                  \* bound: calls cut short
    None

Statuses == {"PENDING", "UNDER_REVIEW", "APPROVED", "REJECTED"}

IdentityAssumption ==
    /\ Limit \in Nat \ {0} /\ MaxCalls \in Nat /\ MaxFaults \in Nat
    /\ IsFiniteSet(Workers) /\ Workers # {}
    /\ Builtin \cap Customs = {} /\ None \notin Reviewers \cup Docs \cup {"Onfido"}
    /\ None \notin [status : Statuses, by : Reviewers \cup {None}]

VARIABLES
    docs,       \* document |-> its status and who has it under review, or None
    idStatus,   \* identityVerificationStatus, its reviewer and whether identityVerifiedAt is set
    types,      \* custom kind |-> isActive and archivedAt, or None
    work,       \* worker |-> the call it is in
    committed,  \* kind of call |-> how many wrote what they decided
    logged,     \* kind of call |-> the entries of the audit log
    undone,     \* verdicts that an upload took back
    workflow,   \* whether the provider has an Onfido workflow run (no call here starts one)
    used,       \* calls made
    faults

vars == <<docs, idStatus, types, work, committed, logged, undone, workflow, used, faults>>
counters == <<committed, logged, undone>>

Decisions == {"approve", "reject", "review", "reset"}
Ops == Decisions \cup {"upload"}
Free == [op |-> "none", step |-> "idle", doc |-> None, who |-> None, fresh |-> FALSE]

Init ==
    /\ docs = [d \in Docs |-> None]
    /\ idStatus = [status |-> "NOT_STARTED", reviewer |-> None, verifiedAt |-> FALSE]
    /\ types = [c \in Customs |-> None]
    /\ work = [w \in Workers |-> Free]
    /\ committed = [o \in Ops |-> 0] /\ logged = [o \in Ops |-> 0]
    /\ workflow \in BOOLEAN /\ undone = 0 /\ used = 0 /\ faults = 0

Present == {d \in Docs : docs[d] # None}

\* The next call of a worker.
Enter(w, op, step, doc, who, fresh) ==
    /\ work[w] = Free /\ used < MaxCalls /\ used' = used + 1
    /\ work' = [work EXCEPT ![w] = [op |-> op, step |-> step, doc |-> doc, who |-> who, fresh |-> fresh]]

Go(w, step) == work' = [work EXCEPT ![w].step = step]

-----------------------------------------------------------------------------
(* The kinds of document *)

\* ensureAllowed: built in, or active and not archived.
Allowed(c) == c \in Customs => types[c] # None /\ types[c].isActive /\ ~types[c].archived

\* A code is unique, that of an archived kind too.
createType(c) ==
    /\ types[c] = None
    /\ types' = [types EXCEPT ![c] = [isActive |-> TRUE, archived |-> FALSE]]
    /\ UNCHANGED <<docs, idStatus, work, counters, used, faults, workflow>>

\* Slip: a kind that is switched on is back.
updateTypeRevives(c, isActive) ==
    /\ types[c] # None
    /\ types' = [types EXCEPT ![c] = [isActive |-> isActive, archived |-> @.archived /\ ~isActive]]
    /\ UNCHANGED <<docs, idStatus, work, counters, used, faults, workflow>>

\* update does not look at archivedAt.
updateType(c, isActive) ==
    /\ types[c] # None
    /\ types' = [types EXCEPT ![c].isActive = isActive]
    /\ UNCHANGED <<docs, idStatus, work, counters, used, faults, workflow>>

softDelete(c) ==
    /\ types[c] # None
    /\ types' = [types EXCEPT ![c] = [isActive |-> FALSE, archived |-> TRUE]]
    /\ UNCHANGED <<docs, idStatus, work, counters, used, faults, workflow>>

-----------------------------------------------------------------------------
(* uploadIdentityDocument *)

\* The profile is read first: whether a verification was started is known from here on.
uploadIdentityDocument(w) ==
    /\ Enter(w, "upload", "count", None, None, idStatus.status = "NOT_STARTED")
    /\ UNCHANGED <<docs, idStatus, types, counters, faults, workflow>>

\* Slip: one document more.
hasRoomForOne == Cardinality(Present) <= Limit

hasRoom == Cardinality(Present) < Limit

\* A full list refuses the upload.
countDocuments(w) ==
    /\ work[w].op = "upload" /\ work[w].step = "count"
    /\ IF hasRoom THEN Go(w, "create") ELSE work' = [work EXCEPT ![w] = Free]
    /\ UNCHANGED <<docs, idStatus, types, counters, used, faults, workflow>>

createDocument(w, d, kind) ==
    /\ work[w].op = "upload" /\ work[w].step = "create" /\ docs[d] = None /\ Allowed(kind)
    /\ docs' = [docs EXCEPT ![d] = [status |-> "UNDER_REVIEW", by |-> None]]
    /\ work' = [work EXCEPT ![w].step = "submit", ![w].doc = d]
    /\ committed' = [committed EXCEPT !["upload"] = @ + 1]
    /\ UNCHANGED <<idStatus, types, logged, undone, used, faults, workflow>>

\* Slip: every upload submits.
submitsAlways(w) == TRUE

submits(w) == work[w].fresh

\* What was read at the start decides, whatever happened since.
submit(w) ==
    /\ work[w].op = "upload" /\ work[w].step = "submit"
    /\ idStatus' = IF submits(w) THEN [idStatus EXCEPT !.status = "SUBMITTED"] ELSE idStatus
    /\ undone' = IF submits(w) /\ idStatus.status \in {"VERIFIED", "REJECTED"} THEN undone + 1 ELSE undone
    /\ Go(w, "log")
    /\ UNCHANGED <<docs, types, committed, logged, used, faults, workflow>>

-----------------------------------------------------------------------------
(* The staff *)

\* resolveDocument; a reset may name no document.
decide(w, op, d, who) ==
    /\ op \in Decisions /\ (IF d = None THEN op = "reset" ELSE d \in Present)
    /\ Enter(w, op, "write", d, who, FALSE)
    /\ UNCHANGED <<docs, idStatus, types, counters, faults, workflow>>

\* Slip: a reset is a status of its own.
StatusWithReset(op) == CASE op = "approve" -> "APPROVED" [] op = "reject" -> "REJECTED"
                         [] op = "review" -> "UNDER_REVIEW" [] op = "reset" -> "RESET"

StatusOf(op) == CASE op = "approve" -> "APPROVED" [] op = "reject" -> "REJECTED"
                  [] op = "review" -> "UNDER_REVIEW" [] op = "reset" -> "PENDING"

\* Slip: an approval leaves the marks of the review.
ReviewedKeeping(op, who, doc) ==
    [status |-> StatusOf(op), by |-> IF op = "review" THEN who ELSE IF op = "approve" THEN doc.by ELSE None]

\* The document after the decision; the marks of a review go with it.
Reviewed(op, who, doc) == [status |-> StatusOf(op), by |-> IF op = "review" THEN who ELSE None]

\* Slip: a rejection leaves the date.
VerdictKeepsDate(op, who) ==
    CASE op = "approve" -> [status |-> "VERIFIED", reviewer |-> who, verifiedAt |-> TRUE]
      [] op = "reject"  -> [status |-> "REJECTED", reviewer |-> who, verifiedAt |-> idStatus.verifiedAt]
      [] op = "reset"   -> [status |-> "SUBMITTED", reviewer |-> who, verifiedAt |-> FALSE]
      [] op = "review"  -> idStatus

Verdict(op, who) ==
    CASE op = "approve" -> [status |-> "VERIFIED", reviewer |-> who, verifiedAt |-> TRUE]
      [] op = "reject"  -> [status |-> "REJECTED", reviewer |-> who, verifiedAt |-> FALSE]
      [] op = "reset"   -> [status |-> "SUBMITTED", reviewer |-> who, verifiedAt |-> FALSE]
      [] op = "review"  -> idStatus

\* The transaction of approve, reject and reset, the update of markUnderReview.  The status
\* that the document or the provider has by now is not looked at.
write(w) ==
    /\ work[w].step = "write"
    /\ LET op == work[w].op  d == work[w].doc
       IN  /\ docs' = IF d = None THEN docs ELSE [docs EXCEPT ![d] = Reviewed(op, work[w].who, docs[d])]
           /\ idStatus' = Verdict(op, work[w].who)
           /\ committed' = [committed EXCEPT ![op] = @ + 1]
    /\ Go(w, "log")
    /\ UNCHANGED <<types, logged, undone, used, faults, workflow>>

\* Slip: an entry is written before the decision is.
logFirst(w) ==
    /\ work[w].step \in {"log", "write"}
    /\ logged' = [logged EXCEPT ![work[w].op] = @ + 1]
    /\ work' = [work EXCEPT ![w] = Free]
    /\ UNCHANGED <<docs, idStatus, types, committed, undone, used, faults, workflow>>

\* audit.log, the last call that changes anything.
log(w) ==
    /\ work[w].step = "log"
    /\ logged' = [logged EXCEPT ![work[w].op] = @ + 1]
    /\ work' = [work EXCEPT ![w] = Free]
    /\ UNCHANGED <<docs, idStatus, types, committed, undone, used, faults, workflow>>

\* A call fails or its process dies; what it has written stays.
Abandon(w) ==
    /\ work[w] # Free /\ faults < MaxFaults /\ faults' = faults + 1
    /\ work' = [work EXCEPT ![w] = Free]
    /\ UNCHANGED <<docs, idStatus, types, counters, used, workflow>>

-----------------------------------------------------------------------------
(* handleWebhook: a result of Onfido may come at any time and more than once; *)
(* it changes the provider and no document, and a refusal leaves the date.    *)
updateProviderFromWorkflow(result) ==
    /\ workflow /\ used < MaxCalls /\ used' = used + 1
    /\ idStatus' = CASE result = "approved" -> [status |-> "VERIFIED", reviewer |-> "Onfido", verifiedAt |-> TRUE]
                     [] result = "declined" -> [idStatus EXCEPT !.status = "REJECTED", !.reviewer = "Onfido"]
                     [] OTHER -> idStatus
    /\ UNCHANGED <<docs, types, work, counters, faults, workflow>>

Next ==
    \/ \E w \in Workers :
         \/ uploadIdentityDocument(w) \/ countDocuments(w) \/ submit(w) \/ write(w) \/ log(w) \/ Abandon(w)
         \/ \E d \in Docs, kind \in Builtin \cup Customs : createDocument(w, d, kind)
         \/ \E op \in Decisions, d \in Docs \cup {None}, who \in Reviewers : decide(w, op, d, who)
    \/ \E result \in {"approved", "declined", "other"} : updateProviderFromWorkflow(result)
    \/ \E c \in Customs : createType(c) \/ softDelete(c) \/ \E on \in BOOLEAN : updateType(c, on)

Spec == Init /\ [][Next]_vars

-----------------------------------------------------------------------------
\* The shape of the state.
TypeOK ==
    /\ \A d \in Present : /\ docs[d].status \in Statuses
                          /\ docs[d].by \in Reviewers \cup {None}
    /\ idStatus.status \in {"NOT_STARTED", "SUBMITTED", "VERIFIED", "REJECTED"}
    /\ idStatus.reviewer \in Reviewers \cup {"Onfido", None} /\ idStatus.verifiedAt \in BOOLEAN
    /\ \A w \in Workers : /\ work[w].op = "none" <=> work[w].step = "idle"
                          /\ work[w].step \in {"write", "submit"} => work[w].doc \in Present \cup {None}
    /\ \A c \in Customs : types[c] # None => types[c].isActive \in BOOLEAN /\ types[c].archived \in BOOLEAN
    /\ used \in 0..MaxCalls /\ faults \in 0..MaxFaults

\* admin-identity.service.ts:117-300: whatever order decisions of several reviewers are
\* written in, a document that names somebody as reviewing it is still under review.
NamedMeansUnderReview == \A d \in Present : docs[d].by # None => docs[d].status = "UNDER_REVIEW"

\* provider.service.ts:1288-1293: the documents are counted before one is created, so that
\* uploads at the same time pass the limit - by one less than there are, never by more.
DocumentsBounded == Cardinality(Present) <= Limit + Cardinality(Workers) - 1

\* provider.service.ts:1312-1320: an upload that began before anything was submitted may
\* take a verdict back that was reached since; not more of them than calls that overlap,
\* and none when calls do not (Onfido is no call of ours: it may find all of them uploading).
VerdictsTakenBackBounded == undone <= Cardinality(Workers) - (IF workflow THEN 0 ELSE 1)

\* admin-identity.service.ts:120-250: the date of the verification says that the provider
\* is verified, as long as the staff decide alone.
DateMeansVerified == ~workflow => (idStatus.verifiedAt <=> idStatus.status = "VERIFIED")

\* identity-audit.service.ts: every entry of the audit log stands for something that was
\* written; a decision without its entry is in a call that is to log it or was cut short.
LogTellsTruth ==
    /\ \A o \in Ops : logged[o] <= committed[o]
    /\ LET waiting == {w \in Workers : work[w].step \in {"log", "submit"}}
           missing(o) == committed[o] - logged[o]
       IN  missing("approve") + missing("reject") + missing("review") + missing("reset") + missing("upload")
               <= Cardinality(waiting) + faults

\* identity-document-types.service.ts:117-127: a kind of document that was taken away is
\* never accepted again, whatever is updated afterwards.
KeepsArchived == \A c \in Customs : (types[c] # None /\ types[c].archived) => ~Allowed(c)'

=============================================================================
