---------------------------- MODULE AccountsProofs ----------------------------
(***************************************************************************)
(* What is proved about requests for data, webhooks, sessions, roles and   *)
(* the way of a provider to its first mission, for every set of accounts,  *)
(* tokens, documents, members of staff and calls at a time, and for every  *)
(* bound.                                                                  *)
(***************************************************************************)
EXTENDS MCAccounts, FiniteSetTheorems, TLAPS

-----------------------------------------------------------------------------
(***************************************************************************)
(* Decisions on requests.  A call between its update and its notice is an  *)
(* entry that the account has not been told of yet; counting those calls   *)
(* with the notices is what makes ToldWhatHappened inductive.              *)
(***************************************************************************)
Ops == {"start", "complete", "reject"}
Actions == {"created", "started", "completed", "rejected"}
Bundle == [number : Nat, readyAt : Nat]
Call == {c \in [op : Ops \cup {"none"}, id : Requests \cup {None},
                step : {"none", "generate", "update", "notify"}, bundle : Bundle] :
           c.step # "none" => c.op \in Ops /\ c.id \in Requests}

Types ==
    /\ request \in [Requests -> [status : Statuses \cup {"none"}, bundle : Bundle]]
    /\ bundles \in [Requests -> Seq(Nat)]
    /\ work \in [Workers -> Call]
    /\ log \in [Requests -> Seq(Actions)] /\ told \in [Requests -> Seq(Actions)]
    /\ now \in Nat

\* The calls that have recorded e of q and have not told it.
Untold(q, e) ==
    {w \in Workers : work[w].step = "notify" /\ work[w].id = q /\ ActionOf(work[w].op) = e}

UntoldAreLogged ==
    \A q \in Requests, e \in {"completed", "rejected"} :
        Notices(q, e) + Cardinality(Untold(q, e)) <= Entries(q, e)

\* What a call may do, whatever the bounds of the log and of the clock are.
Begins(w, q, op) ==
    /\ work[w] = Idle /\ Accepts(op, request[q].status)
    /\ work' = [work EXCEPT ![w] =
                  [op |-> op, id |-> q, bundle |-> NoBundle,
                   step |-> IF op = "start" /\ q \in Exports THEN "generate" ELSE "update"]]
    /\ UNCHANGED <<request, bundles, log, told, now, faults>>
Waits == now' = now + 1 /\ UNCHANGED <<request, bundles, work, log, told, faults>>
Moves ==
    \/ \E q \in Requests : createRequest(q)
    \/ \E w \in Workers, q \in Requests, op \in Ops : Begins(w, q, op)
    \/ \E w \in Workers : generateExportBundle(w) \/ update(w) \/ notifyUser(w) \/ Fail(w)
    \/ Waits

LEMMA NextMoves == [Next]_vars => [Moves]_vars
BY DEF Next, Moves, begin, Begins, Tick, Waits, Ops

LEMMA TypesAtFirst == Init => Types
BY DEF Init, Types, Idle, NoBundle, Call, Bundle

LEMMA CallOf ==
    ASSUME Types, NEW w \in Workers, work[w].step # "none"
    PROVE  /\ work[w] \in Call /\ work[w].id \in Requests /\ work[w].op \in Ops
           /\ ActionOf(work[w].op) \in Actions \ {"created"}
           /\ StatusOf(work[w].op) \in Statuses
<1>1. work[w] \in Call
  BY DEF Types
<1>2. work[w].id \in Requests /\ work[w].op \in Ops
  BY <1>1 DEF Call
<1> QED
  BY <1>1, <1>2 DEF Ops, Actions, ActionOf, StatusOf, Statuses

LEMMA IdleIsCall == Idle \in Call
BY DEF Idle, Call, NoBundle, Bundle

LEMMA TypesStay ==
    ASSUME Types, [Moves]_vars
    PROVE  Types'
<1>1. ASSUME NEW q \in Requests, createRequest(q)
      PROVE  Types'
  <2>1. <<"created">> \in Seq(Actions)
    BY DEF Actions
  <2> QED
    BY <1>1, <2>1 DEF createRequest, Types, Statuses
<1>2. ASSUME NEW w \in Workers, NEW q \in Requests, NEW op \in Ops, Begins(w, q, op)
      PROVE  Types'
  BY <1>2 DEF Begins, Types, Call, NoBundle, Bundle
<1>3. ASSUME NEW w \in Workers, generateExportBundle(w)
      PROVE  Types'
  <2>1. work[w] \in Call /\ work[w].id \in Requests /\ work[w].op \in Ops
    BY <1>3, CallOf DEF generateExportBundle
  <2> DEFINE b == [number |-> Len(bundles[work[w].id]) + 1, readyAt |-> now]
  <2>2. b \in Bundle
    BY <2>1 DEF Types, Bundle
  <2>3. [work[w] EXCEPT !.step = "update", !.bundle = b] \in Call
    BY <2>1, <2>2 DEF Call
  <2>4. work' = [work EXCEPT ![w] = [work[w] EXCEPT !.step = "update", !.bundle = b]]
    BY <1>3 DEF generateExportBundle, Types
  <2>5. bundles' \in [Requests -> Seq(Nat)]
    BY <1>3, <2>1 DEF generateExportBundle, Types
  <2> QED
    BY <1>3, <2>3, <2>4, <2>5 DEF generateExportBundle, Types
<1>4. ASSUME NEW w \in Workers, update(w)
      PROVE  Types'
  <2>1. /\ work[w] \in Call /\ work[w].id \in Requests
        /\ ActionOf(work[w].op) \in Actions /\ StatusOf(work[w].op) \in Statuses
    BY <1>4, CallOf DEF update
  <2>2. Row(request[work[w].id], work[w]) \in [status : Statuses \cup {"none"}, bundle : Bundle]
    BY <2>1 DEF Row, Types, Call
  <2>3. [work[w] EXCEPT !.step = "notify"] \in Call
    BY <1>4, <2>1 DEF update, Call
  <2>4. work' \in [Workers -> Call]
    BY <1>4, <2>3, IdleIsCall DEF update, Types
  <2>5. log' \in [Requests -> Seq(Actions)]
    BY <1>4, <2>1 DEF update, Types
  <2> QED
    BY <1>4, <2>2, <2>4, <2>5 DEF update, Types
<1>5. ASSUME NEW w \in Workers, notifyUser(w)
      PROVE  Types'
  <2>1. work[w].id \in Requests /\ ActionOf(work[w].op) \in Actions
    BY <1>5, CallOf DEF notifyUser
  <2> QED
    BY <1>5, <2>1, IdleIsCall DEF notifyUser, Types
<1>6. ASSUME NEW w \in Workers, Fail(w)
      PROVE  Types'
  BY <1>6, IdleIsCall DEF Fail, Types
<1>7. CASE Waits
  BY <1>7 DEF Waits, Types
<1>8. CASE UNCHANGED vars
  BY <1>8 DEF vars, Types
<1> QED
  BY <1>1, <1>2, <1>3, <1>4, <1>5, <1>6, <1>7, <1>8 DEF Moves

\* The status that an entry of the log stands for.
StatusAfter(action) ==
    CASE action = "created" -> "PENDING" [] action = "started" -> "PROCESSING"
      [] action = "completed" -> "COMPLETED" [] action = "rejected" -> "REJECTED"

\* The two cases of a decision agree on the status it leads to.
LEMMA EntryTellsStatus ==
    ASSUME NEW op \in Ops
    PROVE  StatusAfter(ActionOf(op)) = StatusOf(op)
BY DEF Ops, StatusAfter, ActionOf, StatusOf

LEMMA StatusStaysTold ==
    ASSUME Types, LogTellsStatus, [Moves]_vars
    PROVE  LogTellsStatus'
<1>0. LogTellsStatus <=> \A q \in Requests : log[q] # <<>> =>
                           request[q].status = StatusAfter(log[q][Len(log[q])])
  BY DEF LogTellsStatus, StatusAfter
<1>00. LogTellsStatus' <=> \A q \in Requests : log'[q] # <<>> =>
                           request'[q].status = StatusAfter(log'[q][Len(log'[q])])
  BY DEF LogTellsStatus, StatusAfter
<1>1. ASSUME NEW q \in Requests, createRequest(q)
      PROVE  LogTellsStatus'
  <2>1. log'[q] = <<"created">> /\ request'[q].status = "PENDING"
    BY <1>1 DEF createRequest, Types
  <2>2. \A r \in Requests \ {q} : log'[r] = log[r] /\ request'[r] = request[r]
    BY <1>1 DEF createRequest, Types
  <2>3. <<"created">>[Len(<<"created">>)] = "created" /\ StatusAfter("created") = "PENDING"
    BY DEF StatusAfter
  <2> QED
    BY <1>0, <1>00, <2>1, <2>2, <2>3
<1>2. ASSUME NEW w \in Workers, update(w)
      PROVE  LogTellsStatus'
  <2> DEFINE q == work[w].id
             a == ActionOf(work[w].op)
  <2>1. q \in Requests /\ work[w].op \in Ops /\ a \in Actions
    BY <1>2, CallOf DEF update
  <2>2. log'[q] = Append(log[q], a) /\ request'[q].status = StatusOf(work[w].op)
    BY <1>2, <2>1 DEF update, Row, Types
  <2>3. \A r \in Requests \ {q} : log'[r] = log[r] /\ request'[r] = request[r]
    BY <1>2, <2>1 DEF update, Types
  <2>4. log[q] \in Seq(Actions)
    BY <2>1 DEF Types
  <2>5. log'[q][Len(log'[q])] = a
    BY <2>1, <2>2, <2>4
  <2>6. request'[q].status = StatusAfter(a)
    BY <2>1, <2>2, EntryTellsStatus
  <2> QED
    BY <1>0, <1>00, <2>3, <2>5, <2>6
<1>3. CASE UNCHANGED <<log, request>>
  BY <1>3 DEF LogTellsStatus
<1> QED
  BY <1>1, <1>2, <1>3
     DEF Moves, Begins, generateExportBundle, notifyUser, Fail, Waits, vars

\* However the decisions of several members of staff overtake one another, and
\* whatever calls fail, the last entry of the audit log is the status of the request.
THEOREM LogIsInStep ==
    ASSUME GdprAssumption
    PROVE  Spec => []LogTellsStatus
<1>1. Init => Types /\ LogTellsStatus
  BY TypesAtFirst DEF Init, LogTellsStatus
<1>2. Types /\ LogTellsStatus /\ [Next]_vars => Types' /\ LogTellsStatus'
  BY NextMoves, TypesStay, StatusStaysTold
<1> QED
  BY <1>1, <1>2, PTL DEF Spec

(***************************************************************************)
(* Counting entries and notices.                                           *)
(***************************************************************************)
NothingYet == \A q \in Requests : request[q].status = "none" => log[q] = <<>>

Places(s, a) == {i \in DOMAIN s : s[i] = a}

LEMMA PlacesAreFinite ==
    ASSUME NEW s \in Seq(Actions), NEW a
    PROVE  IsFiniteSet(Places(s, a)) /\ Cardinality(Places(s, a)) \in Nat
<1>1. Places(s, a) \subseteq 1..Len(s) /\ Len(s) \in Nat
  BY DEF Places
<1>2. IsFiniteSet(1..Len(s))
  BY <1>1, FS_Interval
<1> QED
  BY <1>1, <1>2, FS_Subset, FS_CardinalityType

LEMMA AppendedOnce ==
    ASSUME NEW s \in Seq(Actions), NEW a \in Actions, NEW e
    PROVE  Cardinality(Places(Append(s, a), e))
             = Cardinality(Places(s, e)) + (IF a = e THEN 1 ELSE 0)
<1> DEFINE n == Len(s) + 1
<1>1. /\ Len(s) \in Nat /\ DOMAIN s = 1..Len(s) /\ DOMAIN Append(s, a) = 1..n
      /\ \A i \in 1..Len(s) : Append(s, a)[i] = s[i]
      /\ Append(s, a)[n] = a
  OBVIOUS
<1>2. n \notin Places(s, e)
  BY <1>1 DEF Places
<1>3. CASE a = e
  <2>1. Places(Append(s, a), e) = Places(s, e) \cup {n}
    BY <1>1, <1>3 DEF Places
  <2> QED
    BY <1>2, <1>3, <2>1, PlacesAreFinite, FS_AddElement
<1>4. CASE a # e
  <2>1. Places(Append(s, a), e) = Places(s, e)
    BY <1>1, <1>4 DEF Places
  <2> QED
    BY <1>4, <2>1, PlacesAreFinite
<1> QED
  BY <1>3, <1>4

\* Fewer calls that have not told are fewer still in number.
LEMMA FewerUntold ==
    ASSUME GdprAssumption, NEW A \in SUBSET Workers, NEW B \in SUBSET A
    PROVE  /\ IsFiniteSet(A) /\ Cardinality(A) \in Nat /\ Cardinality(B) \in Nat
           /\ Cardinality(B) <= Cardinality(A)
BY FS_Subset, FS_CardinalityType DEF GdprAssumption

LEMMA NothingYetStays ==
    ASSUME Types, NothingYet, [Moves]_vars
    PROVE  NothingYet'
<1>1. ASSUME NEW q \in Requests, createRequest(q)
      PROVE  NothingYet'
  BY <1>1 DEF createRequest, NothingYet, Types
<1>2. ASSUME NEW w \in Workers, update(w)
      PROVE  NothingYet'
  <2>1. work[w].id \in Requests /\ StatusOf(work[w].op) \in Statuses
    BY <1>2, CallOf DEF update
  <2>2. request'[work[w].id].status # "none"
    BY <1>2, <2>1 DEF update, Row, Types, Statuses
  <2> QED
    BY <1>2, <2>1, <2>2 DEF update, NothingYet, Types
<1>3. CASE UNCHANGED <<log, request>>
  BY <1>3 DEF NothingYet
<1> QED
  BY <1>1, <1>2, <1>3
     DEF Moves, Begins, generateExportBundle, notifyUser, Fail, Waits, vars

LEMMA CountsAreNaturals ==
    ASSUME GdprAssumption, Types, NEW q \in Requests, NEW e
    PROVE  /\ Notices(q, e) \in Nat /\ Entries(q, e) \in Nat
           /\ Cardinality(Untold(q, e)) \in Nat
           /\ Notices(q, e) = Cardinality(Places(told[q], e))
           /\ Entries(q, e) = Cardinality(Places(log[q], e))
<1>1. told[q] \in Seq(Actions) /\ log[q] \in Seq(Actions)
  BY DEF Types
<1>2. Notices(q, e) = Cardinality(Places(told[q], e))
      /\ Entries(q, e) = Cardinality(Places(log[q], e))
  BY DEF Notices, Entries, Places
<1>3. Cardinality(Untold(q, e)) \in Nat
  BY FewerUntold DEF Untold
<1> QED
  BY <1>1, <1>2, <1>3, PlacesAreFinite

LEMMA UntoldStayLogged ==
    ASSUME GdprAssumption, Types, NothingYet, UntoldAreLogged, [Moves]_vars
    PROVE  UntoldAreLogged'
<1> SUFFICES ASSUME NEW q \in Requests, NEW e \in {"completed", "rejected"}
             PROVE  Notices(q, e)' + Cardinality(Untold(q, e)') <= Entries(q, e)'
  BY DEF UntoldAreLogged
<1>t. Types'
  BY TypesStay
<1>n. /\ Notices(q, e) \in Nat /\ Entries(q, e) \in Nat /\ Cardinality(Untold(q, e)) \in Nat
      /\ Notices(q, e) + Cardinality(Untold(q, e)) <= Entries(q, e)
  BY CountsAreNaturals DEF UntoldAreLogged
<1>w. Untold(q, e) \in SUBSET Workers /\ Untold(q, e)' \in SUBSET Workers
  BY DEF Untold
<1>1. ASSUME Untold(q, e)' \subseteq Untold(q, e), UNCHANGED <<told, log>>
      PROVE  Notices(q, e)' + Cardinality(Untold(q, e)') <= Entries(q, e)'
  <2>1. Notices(q, e)' = Notices(q, e) /\ Entries(q, e)' = Entries(q, e)
    BY <1>1 DEF Notices, Entries
  <2>2. Cardinality(Untold(q, e)') <= Cardinality(Untold(q, e))
        /\ Cardinality(Untold(q, e)') \in Nat
    BY <1>1, <1>w, FewerUntold
  <2> QED
    BY <1>n, <2>1, <2>2
<1>2. ASSUME NEW r \in Requests, createRequest(r)
      PROVE  Notices(q, e)' + Cardinality(Untold(q, e)') <= Entries(q, e)'
  <2>1. Notices(q, e)' = Notices(q, e) /\ Untold(q, e)' = Untold(q, e)
    BY <1>2 DEF createRequest, Notices, Untold
  <2>2. CASE r # q
    <3>1. log'[q] = log[q]
      BY <1>2, <2>2 DEF createRequest, Types
    <3> QED
      BY <1>n, <2>1, <3>1 DEF Entries
  <2>3. CASE r = q
    <3>1. log[q] = <<>>
      BY <1>2, <2>3 DEF createRequest, NothingYet
    <3>2. Places(log[q], e) = {}
      BY <3>1 DEF Places
    <3>3. Entries(q, e) = 0
      BY <3>2, CountsAreNaturals, FS_EmptySet
    <3>4. Entries(q, e)' \in Nat
      <4>1. log'[q] \in Seq(Actions)
        BY <1>t DEF Types
      <4> QED
        BY <4>1, PlacesAreFinite DEF Entries, Places
    <3> QED
      BY <1>n, <2>1, <3>3, <3>4
  <2> QED
    BY <2>2, <2>3
<1>3. ASSUME NEW w \in Workers, update(w)
      PROVE  Notices(q, e)' + Cardinality(Untold(q, e)') <= Entries(q, e)'
  <2> DEFINE r == work[w].id
             a == ActionOf(work[w].op)
  <2>1. /\ r \in Requests /\ a \in Actions /\ work[w].op \in Ops /\ work[w] \in Call
        /\ log'[r] = Append(log[r], a) /\ \A x \in Requests \ {r} : log'[x] = log[x]
        /\ Notices(q, e)' = Notices(q, e)
    BY <1>3, CallOf DEF update, Types, Notices
  <2>2. \A v \in Workers \ {w} : work'[v] = work[v]
    BY <1>3 DEF update, Types
  <2>3. w \notin Untold(q, e)
    BY <1>3 DEF update, Untold
  <2>4. CASE r = q /\ a = e
    <3>1. Untold(q, e)' \subseteq Untold(q, e) \cup {w}
      BY <2>2 DEF Untold
    <3>2. Cardinality(Untold(q, e) \cup {w}) = Cardinality(Untold(q, e)) + 1
      BY <2>3, <1>w, FewerUntold, FS_AddElement
    <3>3. Cardinality(Untold(q, e)') <= Cardinality(Untold(q, e)) + 1
          /\ Cardinality(Untold(q, e)') \in Nat
      BY <3>1, <3>2, <1>w, FewerUntold
    <3>4. Entries(q, e)' = Entries(q, e) + 1
      <4>1. log[q] \in Seq(Actions)
        BY DEF Types
      <4>2. Entries(q, e)' = Cardinality(Places(Append(log[q], e), e))
        BY <2>1, <2>4 DEF Entries, Places
      <4> QED
        BY <2>1, <2>4, <4>1, <4>2, AppendedOnce, CountsAreNaturals
    <3> QED
      BY <1>n, <2>1, <3>3, <3>4
  <2>5. CASE ~(r = q /\ a = e)
    <3>1. (work'[w].op = work[w].op /\ work'[w].id = work[w].id) \/ work'[w] = Idle
      BY <1>3, <2>1 DEF update, Types, Call
    <3>2. w \notin Untold(q, e)'
      BY <2>5, <3>1 DEF Untold, Idle
    <3>3. Untold(q, e)' \subseteq Untold(q, e)
      BY <2>2, <3>2 DEF Untold
    <3>4. Cardinality(Untold(q, e)') <= Cardinality(Untold(q, e))
          /\ Cardinality(Untold(q, e)') \in Nat
      BY <3>3, <1>w, FewerUntold
    <3>5. Entries(q, e)' = Entries(q, e)
      <4>1. CASE r # q
        BY <2>1, <4>1 DEF Entries
      <4>2. CASE r = q
        <5>1. log[q] \in Seq(Actions)
          BY DEF Types
        <5>2. Entries(q, e)' = Cardinality(Places(Append(log[q], a), e))
          BY <2>1, <4>2 DEF Entries, Places
        <5>3. Cardinality(Places(Append(log[q], a), e)) = Cardinality(Places(log[q], e)) + 0
          BY <2>1, <2>5, <4>2, <5>1, AppendedOnce
        <5> QED
          BY <1>n, <5>2, <5>3, CountsAreNaturals
      <4> QED
        BY <4>1, <4>2
    <3> QED
      BY <1>n, <2>1, <3>4, <3>5
  <2> QED
    BY <2>4, <2>5
<1>4. ASSUME NEW w \in Workers, notifyUser(w)
      PROVE  Notices(q, e)' + Cardinality(Untold(q, e)') <= Entries(q, e)'
  <2> DEFINE r == work[w].id
             a == ActionOf(work[w].op)
  <2>1. /\ r \in Requests /\ a \in Actions
        /\ told'[r] = Append(told[r], a) /\ \A x \in Requests \ {r} : told'[x] = told[x]
        /\ Entries(q, e)' = Entries(q, e)
    BY <1>4, CallOf DEF notifyUser, Types, Entries
  <2>2. Untold(q, e)' = Untold(q, e) \ {w}
    BY <1>4 DEF notifyUser, Types, Untold, Idle
  <2>3. told[q] \in Seq(Actions)
    BY DEF Types
  <2>4. CASE r = q /\ a = e
    <3>1. w \in Untold(q, e)
      BY <1>4, <2>4 DEF notifyUser, Untold
    <3>2. Cardinality(Untold(q, e)') = Cardinality(Untold(q, e)) - 1
      BY <2>2, <3>1, <1>w, FewerUntold, FS_RemoveElement
    <3>3. Notices(q, e)' = Cardinality(Places(Append(told[q], e), e))
      BY <2>1, <2>4 DEF Notices, Places
    <3>4. Notices(q, e)' = Notices(q, e) + 1
      BY <2>1, <2>3, <2>4, <3>3, AppendedOnce, CountsAreNaturals
    <3> QED
      BY <1>n, <2>1, <3>2, <3>4
  <2>5. CASE ~(r = q /\ a = e)
    <3>1. Cardinality(Untold(q, e)') <= Cardinality(Untold(q, e))
          /\ Cardinality(Untold(q, e)') \in Nat
      BY <2>2, <1>w, FewerUntold
    <3>2. Notices(q, e)' = Notices(q, e)
      <4>1. CASE r # q
        BY <2>1, <4>1 DEF Notices
      <4>2. CASE r = q
        <5>1. Notices(q, e)' = Cardinality(Places(Append(told[q], a), e))
          BY <2>1, <4>2 DEF Notices, Places
        <5>2. Cardinality(Places(Append(told[q], a), e)) = Cardinality(Places(told[q], e)) + 0
          BY <2>1, <2>3, <2>5, <4>2, AppendedOnce
        <5> QED
          BY <1>n, <5>1, <5>2, CountsAreNaturals
      <4> QED
        BY <4>1, <4>2
    <3> QED
      BY <1>n, <2>1, <3>1, <3>2
  <2> QED
    BY <2>4, <2>5
<1>5. ASSUME NEW w \in Workers, NEW r \in Requests, NEW op, Begins(w, r, op)
      PROVE  Notices(q, e)' + Cardinality(Untold(q, e)') <= Entries(q, e)'
  <2>1. Untold(q, e)' \subseteq Untold(q, e)
    BY <1>5 DEF Begins, Types, Untold
  <2> QED
    BY <1>1, <1>5, <2>1 DEF Begins
<1>6. ASSUME NEW w \in Workers, generateExportBundle(w)
      PROVE  Notices(q, e)' + Cardinality(Untold(q, e)') <= Entries(q, e)'
  <2>1. work[w] \in Call /\ work'[w].step = "update"
        /\ \A v \in Workers \ {w} : work'[v] = work[v]
    BY <1>6 DEF generateExportBundle, Types, Call
  <2>2. Untold(q, e)' \subseteq Untold(q, e)
    BY <2>1 DEF Untold
  <2> QED
    BY <1>1, <1>6, <2>2 DEF generateExportBundle
<1>7. ASSUME NEW w \in Workers, Fail(w)
      PROVE  Notices(q, e)' + Cardinality(Untold(q, e)') <= Entries(q, e)'
  <2>1. Untold(q, e)' \subseteq Untold(q, e)
    BY <1>7 DEF Fail, Types, Untold, Idle
  <2> QED
    BY <1>1, <1>7, <2>1 DEF Fail
<1>8. CASE UNCHANGED <<work, log, told>>
  BY <1>1, <1>8 DEF Untold
<1> QED
  BY <1>2, <1>3, <1>4, <1>5, <1>6, <1>7, <1>8 DEF Moves, Waits, vars

LEMMA UntoldTells ==
    ASSUME GdprAssumption, Types, UntoldAreLogged
    PROVE  ToldWhatHappened
<1> SUFFICES ASSUME NEW q \in Requests, NEW e \in {"completed", "rejected"}
             PROVE  Notices(q, e) <= Entries(q, e)
  BY DEF ToldWhatHappened
<1> QED
  BY CountsAreNaturals DEF UntoldAreLogged

\* An account is never told of a completion or a refusal more often than the log
\* records one: the notice follows the update, and a call that fails between them
\* tells nothing.
THEOREM ToldIsRecorded ==
    ASSUME GdprAssumption
    PROVE  Spec => []ToldWhatHappened
<1>1. Init => Types /\ NothingYet /\ UntoldAreLogged
  <2> SUFFICES ASSUME Init
               PROVE  Types /\ NothingYet /\ UntoldAreLogged
    OBVIOUS
  <2>1. Types /\ NothingYet
    BY TypesAtFirst DEF Init, NothingYet
  <2>2. \A q \in Requests, e \in {"completed", "rejected"} :
           Untold(q, e) = {} /\ Places(told[q], e) = {} /\ Places(log[q], e) = {}
    BY DEF Init, Untold, Idle, Places
  <2>3. \A q \in Requests, e \in {"completed", "rejected"} :
           Cardinality(Untold(q, e)) = 0 /\ Notices(q, e) = 0 /\ Entries(q, e) = 0
    BY <2>1, <2>2, CountsAreNaturals, FS_EmptySet
  <2> QED
    BY <2>1, <2>3 DEF UntoldAreLogged
<1>2. Types /\ NothingYet /\ UntoldAreLogged /\ [Next]_vars
        => Types' /\ NothingYet' /\ UntoldAreLogged'
  BY NextMoves, TypesStay, NothingYetStays, UntoldStayLogged
<1>3. Types /\ UntoldAreLogged => ToldWhatHappened
  BY UntoldTells
<1> QED
  BY <1>1, <1>2, <1>3, PTL DEF Spec

(***************************************************************************)
(* Bundles.  A request names one of its bundles once a start of it was     *)
(* recorded, and a start that is ready to update names the one it wrote.   *)
(***************************************************************************)
Names(files, b) == b.number \in 1..Len(files) /\ b.readyAt = files[b.number]
Started(entries) == \E i \in DOMAIN entries : entries[i] = "started"

RowFits(q, row, files, entries) ==
    /\ row.bundle # NoBundle <=> q \in Exports /\ Started(entries)
    /\ row.bundle # NoBundle => Names(files, row.bundle) /\ row.status \notin {"none", "PENDING"}

CallFits(c, files) ==
    /\ c.step = "generate" => c.op = "start" /\ c.id \in Exports /\ c.bundle = NoBundle
    /\ c.step = "update" => IF c.op = "start" /\ c.id \in Exports THEN Names(files[c.id], c.bundle)
                                                                  ELSE c.bundle = NoBundle

BundlesKept ==
    /\ \A q \in Requests : RowFits(q, request[q], bundles[q], log[q])
    /\ \A w \in Workers : CallFits(work[w], bundles)
    /\ faults \in 0..MaxFaults

LEMMA IdleFits == \A files : CallFits(Idle, files)
BY DEF CallFits, Idle

LEMMA StartedByAppend ==
    ASSUME NEW s \in Seq(Actions), NEW a \in Actions
    PROVE  Started(Append(s, a)) <=> Started(s) \/ a = "started"
<1>1. /\ Len(s) \in Nat /\ DOMAIN s = 1..Len(s) /\ DOMAIN Append(s, a) = 1..(Len(s) + 1)
      /\ \A i \in 1..Len(s) : Append(s, a)[i] = s[i]
      /\ Append(s, a)[Len(s) + 1] = a
  OBVIOUS
<1>2. ASSUME Started(s) PROVE Started(Append(s, a))
  BY <1>1, <1>2 DEF Started
<1>3. ASSUME a = "started" PROVE Started(Append(s, a))
  BY <1>1, <1>3 DEF Started
<1>4. ASSUME Started(Append(s, a)), a # "started" PROVE Started(s)
  <2>1. PICK i \in 1..(Len(s) + 1) : Append(s, a)[i] = "started"
    BY <1>1, <1>4 DEF Started
  <2>2. i # Len(s) + 1
    BY <1>1, <1>4, <2>1
  <2>3. i \in 1..Len(s)
    BY <1>1, <2>2
  <2> QED
    BY <1>1, <2>1, <2>3 DEF Started
<1> QED
  BY <1>2, <1>3, <1>4

\* Files are never removed: what a row or a call names stays named.
LEMMA NamedStays ==
    ASSUME NEW s \in Seq(Nat), NEW t \in Nat
    PROVE  /\ \A b : Names(s, b) => Names(Append(s, t), b)
           /\ Names(Append(s, t), [number |-> Len(s) + 1, readyAt |-> t])
<1>1. /\ Len(s) \in Nat /\ Len(Append(s, t)) = Len(s) + 1
      /\ \A i \in 1..Len(s) : i \in 1..(Len(s) + 1) /\ Append(s, t)[i] = s[i]
      /\ Len(s) + 1 \in 1..(Len(s) + 1)
      /\ Append(s, t)[Len(s) + 1] = t
  OBVIOUS
<1> QED
  BY <1>1 DEF Names

LEMMA NothingIsNotNamed == \A files : ~Names(files, NoBundle)
BY DEF Names, NoBundle

LEMMA BundlesStayKept ==
    ASSUME GdprAssumption, Types, NothingYet, BundlesKept, [Moves]_vars
    PROVE  BundlesKept'
<1>f. MaxFaults \in Nat /\ faults \in 0..MaxFaults
  BY DEF GdprAssumption, BundlesKept
<1>1. ASSUME NEW q \in Requests, createRequest(q)
      PROVE  BundlesKept'
  <2>1. /\ request'[q].bundle = request[q].bundle /\ log'[q] = <<"created">>
        /\ \A x \in Requests \ {q} : request'[x] = request[x] /\ log'[x] = log[x]
        /\ UNCHANGED <<bundles, work, faults>>
    BY <1>1 DEF createRequest, Types
  <2>2. RowFits(q, request[q], bundles[q], log[q]) /\ request[q].status = "none"
    BY <1>1 DEF createRequest, BundlesKept
  <2>3. ~Started(<<"created">>)
    BY DEF Started
  <2>4. RowFits(q, request'[q], bundles[q], <<"created">>)
    BY <2>1, <2>2, <2>3 DEF RowFits
  <2> QED
    BY <1>f, <2>1, <2>4 DEF BundlesKept
<1>2. ASSUME NEW w \in Workers, NEW q \in Requests, NEW op \in Ops, Begins(w, q, op)
      PROVE  BundlesKept'
  <2>1. UNCHANGED <<request, bundles, log, faults>> /\ \A v \in Workers \ {w} : work'[v] = work[v]
    BY <1>2 DEF Begins, Types
  <2>2. /\ work'[w].op = op /\ work'[w].id = q /\ work'[w].bundle = NoBundle
        /\ work'[w].step = IF op = "start" /\ q \in Exports THEN "generate" ELSE "update"
    BY <1>2 DEF Begins, Types
  <2>3. CallFits(work'[w], bundles)
    BY <2>2 DEF CallFits
  <2> QED
    BY <1>f, <2>1, <2>3 DEF BundlesKept
<1>3. ASSUME NEW w \in Workers, generateExportBundle(w)
      PROVE  BundlesKept'
  <2>1. /\ work[w] \in Call /\ work[w].id \in Requests /\ CallFits(work[w], bundles)
        /\ work[w].step = "generate"
    BY <1>3, CallOf DEF generateExportBundle, BundlesKept
  <2>2. bundles[work[w].id] \in Seq(Nat) /\ now \in Nat
    BY <2>1 DEF Types
  <2>3. /\ bundles'[work[w].id] = Append(bundles[work[w].id], now)
        /\ \A x \in Requests \ {work[w].id} : bundles'[x] = bundles[x]
        /\ UNCHANGED <<request, log, faults>>
    BY <1>3, <2>1 DEF generateExportBundle, Types
  <2>4. /\ work'[w].id = work[w].id /\ work'[w].op = work[w].op /\ work'[w].step = "update"
        /\ work'[w].bundle = [number |-> Len(bundles[work[w].id]) + 1, readyAt |-> now]
        /\ \A v \in Workers \ {w} : work'[v] = work[v]
    BY <1>3, <2>1 DEF generateExportBundle, Types, Call
  <2>5. \A x \in Requests : \A b : Names(bundles[x], b) => Names(bundles'[x], b)
    <3> SUFFICES ASSUME NEW x \in Requests, NEW b, Names(bundles[x], b)
                 PROVE  Names(bundles'[x], b)
      OBVIOUS
    <3>1. CASE x = work[w].id
      <4>1. Names(Append(bundles[work[w].id], now), b)
        BY <2>2, <3>1, NamedStays
      <4> QED
        BY <2>3, <3>1, <4>1
    <3>2. CASE x # work[w].id
      BY <2>3, <3>2
    <3> QED
      BY <3>1, <3>2
  <2>6. ASSUME NEW x \in Requests
        PROVE  RowFits(x, request'[x], bundles'[x], log'[x])
    BY <2>3, <2>5 DEF BundlesKept, RowFits
  <2>7. CallFits(work'[w], bundles')
    <3>1. Names(bundles'[work[w].id], work'[w].bundle)
      BY <2>2, <2>3, <2>4, NamedStays
    <3> QED
      BY <2>1, <2>4, <3>1 DEF CallFits
  <2>8. ASSUME NEW v \in Workers \ {w}
        PROVE  CallFits(work'[v], bundles')
    <3>1. work'[v] = work[v] /\ CallFits(work[v], bundles)
      BY <2>4 DEF BundlesKept
    <3>2. work[v].step = "update" => work[v].id \in Requests
      BY CallOf
    <3> QED
      BY <2>5, <3>1, <3>2 DEF CallFits
  <2> QED
    BY <1>f, <2>3, <2>6, <2>7, <2>8 DEF BundlesKept
<1>4. ASSUME NEW w \in Workers, update(w)
      PROVE  BundlesKept'
  <2>1. PICK c \in Call, q \in Requests :
          c = work[w] /\ q = c.id /\ c.op \in Ops /\ c.step = "update" /\ CallFits(c, bundles)
          /\ ActionOf(c.op) \in Actions
    BY <1>4, CallOf DEF update, BundlesKept
  <2>2. /\ request'[q].status = StatusOf(c.op)
        /\ request'[q].bundle = IF c.bundle = NoBundle THEN request[q].bundle ELSE c.bundle
        /\ log'[q] = Append(log[q], ActionOf(c.op))
        /\ \A x \in Requests \ {q} : request'[x] = request[x] /\ log'[x] = log[x]
        /\ UNCHANGED <<bundles, faults>>
    BY <1>4, <2>1 DEF update, Row, Types
  <2>3. Started(log'[q]) <=> Started(log[q]) \/ c.op = "start"
    <3>1. log[q] \in Seq(Actions)
      BY DEF Types
    <3>2. ActionOf(c.op) = "started" <=> c.op = "start"
      BY <2>1 DEF Ops, ActionOf
    <3> QED
      BY <2>1, <2>2, <3>1, <3>2, StartedByAppend
  <2>4. StatusOf(c.op) \notin {"none", "PENDING"}
    BY <2>1 DEF Ops, StatusOf
  <2>5. RowFits(q, request[q], bundles[q], log[q])
    BY DEF BundlesKept
  <2>6. IF c.op = "start" /\ q \in Exports THEN Names(bundles[q], c.bundle) /\ c.bundle # NoBundle
                                           ELSE c.bundle = NoBundle
    BY <2>1, NothingIsNotNamed DEF CallFits
  <2>7. RowFits(q, request'[q], bundles[q], log'[q])
    BY <2>2, <2>3, <2>4, <2>5, <2>6 DEF RowFits
  <2>8. \A v \in Workers \ {w} : work'[v] = work[v]
    BY <1>4 DEF update, Types
  <2>9. CallFits(work'[w], bundles)
    <3>1. work'[w] = Idle \/ work'[w].step = "notify"
      BY <1>4, <2>1 DEF update, Types, Call
    <3> QED
      BY <3>1, IdleFits DEF CallFits
  <2> QED
    BY <1>f, <2>2, <2>7, <2>8, <2>9 DEF BundlesKept
<1>5. ASSUME NEW w \in Workers, notifyUser(w)
      PROVE  BundlesKept'
  BY <1>5, <1>f, IdleFits DEF notifyUser, Types, BundlesKept
<1>6. ASSUME NEW w \in Workers, Fail(w)
      PROVE  BundlesKept'
  <2>1. faults' \in 0..MaxFaults
    BY <1>6, <1>f DEF Fail
  <2> QED
    BY <1>6, <2>1, IdleFits DEF Fail, Types, BundlesKept
<1>7. CASE UNCHANGED <<request, bundles, work, log, faults>>
  BY <1>7 DEF BundlesKept
<1> QED
  BY <1>1, <1>2, <1>3, <1>4, <1>5, <1>6, <1>7 DEF Moves, Waits, vars

LEMMA BundlesAtFirst == GdprAssumption /\ Init => BundlesKept
BY DEF GdprAssumption, Init, BundlesKept, RowFits, CallFits, Idle, Started

LEMMA StartsAreCounted ==
    ASSUME Types, NEW q \in Requests
    PROVE  Entries(q, "started") > 0 <=> Started(log[q])
<1>1. log[q] \in Seq(Actions)
  BY DEF Types
<1>2. /\ IsFiniteSet(Places(log[q], "started")) /\ Cardinality(Places(log[q], "started")) \in Nat
      /\ Entries(q, "started") = Cardinality(Places(log[q], "started"))
  BY <1>1, PlacesAreFinite DEF Entries, Places
<1>3. Cardinality(Places(log[q], "started")) = 0 <=> Places(log[q], "started") = {}
  BY <1>2, FS_EmptySet
<1>4. Places(log[q], "started") = {} <=> ~Started(log[q])
  BY DEF Places, Started
<1> QED
  BY <1>2, <1>3, <1>4

LEMMA KeptIsTyped ==
    ASSUME Types, BundlesKept, now \in 0..MaxTime
    PROVE  TypeOK
<1>1. ASSUME NEW q \in Requests
      PROVE  /\ request[q].status \in Statuses \cup {"none"}
             /\ request[q].bundle.number \in 0..Len(bundles[q])
             /\ request[q].bundle # NoBundle <=> q \in Exports /\ Entries(q, "started") > 0
             /\ request[q].bundle # NoBundle =>
                  request[q].bundle.readyAt = bundles[q][request[q].bundle.number]
  <2>1. RowFits(q, request[q], bundles[q], log[q]) /\ bundles[q] \in Seq(Nat)
        /\ request[q].status \in Statuses \cup {"none"}
    BY DEF BundlesKept, Types
  <2>2. Len(bundles[q]) \in Nat
    BY <2>1
  <2>3. request[q].bundle = NoBundle => request[q].bundle.number = 0
    BY DEF NoBundle
  <2> QED
    BY <2>1, <2>2, <2>3, StartsAreCounted DEF RowFits, Names
<1>2. \A w \in Workers : work[w].step \in {"none", "generate", "update", "notify"}
  BY DEF Types, Call
<1> QED
  BY <1>1, <1>2 DEF TypeOK, BundlesKept

LEMMA KeptIsServed ==
    ASSUME GdprAssumption, Types, BundlesKept
    PROVE  OfferedIsServed
<1> SUFFICES ASSUME NEW q \in Exports
             PROVE  /\ exportAvailable(q) /\ request[q].status # "REJECTED"
                         => getExportStream(q) = "ok"
                    /\ getExportStream(q) = "ok" => exportAvailable(q) \/ now = Expires(q)
  BY DEF OfferedIsServed
<1>1. q \in Requests /\ RowFits(q, request[q], bundles[q], log[q])
  BY DEF GdprAssumption, BundlesKept
<1>2. request[q].bundle \in Bundle /\ request[q].status \in Statuses \cup {"none"} /\ now \in Nat
  BY <1>1 DEF Types
<1>3. Expires(q) \in Nat
  BY <1>2 DEF Expires, GdprAssumption, Bundle
<1>4. ASSUME exportAvailable(q), request[q].status # "REJECTED"
      PROVE  getExportStream(q) = "ok"
  <2>1. /\ request[q].bundle # NoBundle /\ ~(Expires(q) < now)
        /\ request[q].status \in {"PROCESSING", "COMPLETED"}
    BY <1>1, <1>2, <1>3, <1>4 DEF exportAvailable, RowFits, Statuses
  <2> QED
    BY <2>1 DEF getExportStream
<1>5. ASSUME getExportStream(q) = "ok"
      PROVE  exportAvailable(q) \/ now = Expires(q)
  <2>1. request[q].bundle # NoBundle /\ ~(Expires(q) < now)
    BY <1>5 DEF getExportStream
  <2> QED
    BY <1>2, <1>3, <2>1 DEF exportAvailable
<1> QED
  BY <1>4, <1>5

(***************************************************************************)
(* The bundles of a request are counted with the calls that will write or  *)
(* record one.  As long as the request is pending its bundles are of calls *)
(* that have not recorded theirs, or that failed; and every call that will *)
(* write one has found the request pending.                                *)
(***************************************************************************)
Writers(q) == {w \in Workers : work[w].id = q /\ work[w].step = "generate"}
Recorders(q) == {w \in Workers : work[w].id = q /\ work[w].step = "update" /\ work[w].op = "start"}

CountsFit(q) ==
    /\ request[q].status \in {"none", "PENDING"} =>
         Len(bundles[q]) <= Cardinality(Recorders(q)) + faults
    /\ Len(bundles[q]) + Cardinality(Writers(q)) <= Cardinality(Workers) + faults

BundlesCounted == \A q \in Requests : CountsFit(q)

LEMMA CallsAreCounted ==
    ASSUME GdprAssumption, NEW q
    PROVE  /\ IsFiniteSet(Writers(q)) /\ IsFiniteSet(Recorders(q))
           /\ Cardinality(Writers(q)) \in Nat /\ Cardinality(Recorders(q)) \in Nat
           /\ Cardinality(Writers(q)') \in Nat /\ Cardinality(Recorders(q)') \in Nat
           /\ Cardinality(Workers) \in Nat
           /\ Cardinality(Writers(q)) + Cardinality(Recorders(q)) <= Cardinality(Workers)
<1>1. /\ Writers(q) \in SUBSET Workers /\ Recorders(q) \in SUBSET Workers
      /\ Writers(q)' \in SUBSET Workers /\ Recorders(q)' \in SUBSET Workers
  BY DEF Writers, Recorders
<1>2. /\ IsFiniteSet(Writers(q)) /\ IsFiniteSet(Recorders(q))
      /\ Cardinality(Writers(q)) \in Nat /\ Cardinality(Recorders(q)) \in Nat
      /\ Cardinality(Writers(q)') \in Nat /\ Cardinality(Recorders(q)') \in Nat
      /\ Cardinality(Workers) \in Nat
  BY <1>1, FewerUntold
<1>3. Writers(q) \cap Recorders(q) = {}
  BY DEF Writers, Recorders
<1>4. Cardinality(Writers(q) \cup Recorders(q)) = Cardinality(Writers(q)) + Cardinality(Recorders(q))
  BY <1>2, <1>3, FS_Union, FS_EmptySet
<1>5. Writers(q) \cup Recorders(q) \in SUBSET Workers
  BY <1>1
<1>6. Cardinality(Writers(q) \cup Recorders(q)) <= Cardinality(Workers)
  BY <1>5, FewerUntold
<1> QED
  BY <1>2, <1>4, <1>6

\* A call that leaves the counted ones takes one of them at most; one that joins adds one.
LEMMA OneCallLess ==
    ASSUME GdprAssumption, NEW q, NEW w \in Workers,
           \A v \in Workers \ {w} : work'[v] = work[v]
    PROVE  /\ Cardinality(Writers(q)) <= Cardinality(Writers(q)') + 1
           /\ Cardinality(Writers(q)') <= Cardinality(Writers(q)) + 1
           /\ Cardinality(Recorders(q)) <= Cardinality(Recorders(q)') + 1
           /\ Cardinality(Recorders(q)') <= Cardinality(Recorders(q)) + 1
           /\ (w \in Writers(q)' => w \in Writers(q)) =>
                Cardinality(Writers(q)') <= Cardinality(Writers(q))
           /\ (w \in Recorders(q) => w \in Recorders(q)') =>
                Cardinality(Recorders(q)) <= Cardinality(Recorders(q)')
           /\ w \in Writers(q) /\ w \notin Writers(q)' =>
                Cardinality(Writers(q)') = Cardinality(Writers(q)) - 1
           /\ w \notin Recorders(q) /\ w \in Recorders(q)' =>
                Cardinality(Recorders(q)') = Cardinality(Recorders(q)) + 1
<1>1. ASSUME NEW A \in SUBSET Workers, NEW B \in SUBSET Workers, A \ {w} = B \ {w}
      PROVE  /\ Cardinality(A) <= Cardinality(B) + 1
             /\ (w \in A => w \in B) => Cardinality(A) <= Cardinality(B)
             /\ w \in A /\ w \notin B => Cardinality(B) = Cardinality(A) - 1
             /\ w \notin A /\ w \in B => Cardinality(B) = Cardinality(A) + 1
  <2>1. /\ IsFiniteSet(A) /\ IsFiniteSet(B) /\ Cardinality(A) \in Nat /\ Cardinality(B) \in Nat
    BY FewerUntold
  <2>2. CASE w \in A /\ w \notin B
    <3>1. B = A \ {w}
      BY <1>1, <2>2
    <3> QED
      BY <2>1, <2>2, <3>1, FS_RemoveElement
  <2>3. CASE w \notin A /\ w \in B
    <3>1. A = B \ {w}
      BY <1>1, <2>3
    <3> QED
      BY <2>1, <2>3, <3>1, FS_RemoveElement
  <2>4. CASE w \in A <=> w \in B
    <3>1. A = B
      BY <1>1, <2>4
    <3> QED
      BY <2>1, <2>4, <3>1
  <2> QED
    BY <2>2, <2>3, <2>4
<1>2. /\ Writers(q) \in SUBSET Workers /\ Recorders(q) \in SUBSET Workers
      /\ Writers(q)' \in SUBSET Workers /\ Recorders(q)' \in SUBSET Workers
      /\ Writers(q) \ {w} = Writers(q)' \ {w} /\ Recorders(q) \ {w} = Recorders(q)' \ {w}
  BY DEF Writers, Recorders
<1> HIDE DEF Writers, Recorders
<1>3. /\ Cardinality(Writers(q)) <= Cardinality(Writers(q)') + 1
      /\ Cardinality(Writers(q)') <= Cardinality(Writers(q)) + 1
      /\ (w \in Writers(q)' => w \in Writers(q)) =>
           Cardinality(Writers(q)') <= Cardinality(Writers(q))
      /\ w \in Writers(q) /\ w \notin Writers(q)' =>
           Cardinality(Writers(q)') = Cardinality(Writers(q)) - 1
  BY <1>1, <1>2
<1>4. /\ Cardinality(Recorders(q)) <= Cardinality(Recorders(q)') + 1
      /\ Cardinality(Recorders(q)') <= Cardinality(Recorders(q)) + 1
      /\ (w \in Recorders(q) => w \in Recorders(q)') =>
           Cardinality(Recorders(q)) <= Cardinality(Recorders(q)')
      /\ w \notin Recorders(q) /\ w \in Recorders(q)' =>
           Cardinality(Recorders(q)') = Cardinality(Recorders(q)) + 1
  BY <1>1, <1>2
<1> QED
  BY <1>3, <1>4

LEMMA BundlesStayCounted ==
    ASSUME GdprAssumption, Types, BundlesKept, BundlesCounted, [Moves]_vars
    PROVE  BundlesCounted'
<1> SUFFICES ASSUME NEW q \in Requests
             PROVE  CountsFit(q)'
  BY DEF BundlesCounted
<1>n. /\ bundles[q] \in Seq(Nat) /\ Len(bundles[q]) \in Nat /\ faults \in Nat /\ CountsFit(q)
  BY DEF Types, BundlesKept, BundlesCounted, GdprAssumption
<1>c. /\ Cardinality(Writers(q)) \in Nat /\ Cardinality(Recorders(q)) \in Nat
      /\ Cardinality(Writers(q)') \in Nat /\ Cardinality(Recorders(q)') \in Nat
      /\ Cardinality(Workers) \in Nat
      /\ Cardinality(Writers(q)) + Cardinality(Recorders(q)) <= Cardinality(Workers)
  BY CallsAreCounted
<1>e. CountsFit(q)' <=>
        /\ request'[q].status \in {"none", "PENDING"} =>
             Len(bundles'[q]) <= Cardinality(Recorders(q)') + faults'
        /\ Len(bundles'[q]) + Cardinality(Writers(q)') <= Cardinality(Workers) + faults'
  BY DEF CountsFit
<1>f. /\ request[q].status \in {"none", "PENDING"} =>
           Len(bundles[q]) <= Cardinality(Recorders(q)) + faults
      /\ Len(bundles[q]) + Cardinality(Writers(q)) <= Cardinality(Workers) + faults
  BY <1>n DEF CountsFit
<1>1. ASSUME NEW r \in Requests, createRequest(r)
      PROVE  CountsFit(q)'
  <2>1. Writers(q)' = Writers(q) /\ Recorders(q)' = Recorders(q)
    BY <1>1 DEF createRequest, Writers, Recorders
  <2>2. request'[q].status = request[q].status
        \/ (request'[q].status = "PENDING" /\ request[q].status = "none")
    BY <1>1 DEF createRequest, Types
  <2>3. UNCHANGED <<bundles, faults>>
    BY <1>1 DEF createRequest
  <2> QED
    BY <1>e, <1>f, <2>1, <2>2, <2>3
<1>2. ASSUME NEW w \in Workers, NEW r \in Requests, NEW op \in Ops, Begins(w, r, op)
      PROVE  CountsFit(q)'
  <2>1. UNCHANGED <<request, bundles, faults>> /\ work[w] = Idle
        /\ \A v \in Workers \ {w} : work'[v] = work[v]
    BY <1>2 DEF Begins, Types
  <2>2. w \notin Recorders(q) /\ w \notin Writers(q)
    BY <2>1 DEF Recorders, Writers, Idle
  <2>3. Cardinality(Recorders(q)) <= Cardinality(Recorders(q)')
        /\ Cardinality(Writers(q)') <= Cardinality(Writers(q)) + 1
    BY <2>1, <2>2, OneCallLess
  <2>4. CASE w \in Writers(q)'
    <3>1. r = q /\ op = "start"
      BY <1>2, <2>4 DEF Begins, Types, Writers
    <3>2. request[q].status = "PENDING"
      BY <1>2, <3>1 DEF Begins, Accepts
    <3>3. Cardinality(Writers(q)') + Cardinality(Recorders(q)') <= Cardinality(Workers)
      <4>1. (Writers(q) \cup {w}) \cap Recorders(q) = {}
        BY <2>2 DEF Writers, Recorders
      <4>2. /\ IsFiniteSet(Writers(q)) /\ IsFiniteSet(Recorders(q))
        BY CallsAreCounted
      <4>3. /\ IsFiniteSet(Writers(q) \cup {w})
            /\ Cardinality(Writers(q) \cup {w}) = Cardinality(Writers(q)) + 1
        BY <2>2, <4>2, FS_AddElement
      <4>4. Cardinality((Writers(q) \cup {w}) \cup Recorders(q))
              = Cardinality(Writers(q)) + 1 + Cardinality(Recorders(q))
        <5>1. Cardinality((Writers(q) \cup {w}) \cup Recorders(q))
                = Cardinality(Writers(q) \cup {w}) + Cardinality(Recorders(q))
                  - Cardinality((Writers(q) \cup {w}) \cap Recorders(q))
          BY <4>2, <4>3, FS_Union
        <5>2. Cardinality((Writers(q) \cup {w}) \cap Recorders(q)) = 0
          BY <4>1, FS_EmptySet
        <5> QED
          BY <1>c, <4>3, <5>1, <5>2
      <4>5. (Writers(q) \cup {w}) \cup Recorders(q) \in SUBSET Workers
        BY DEF Writers, Recorders
      <4>6. Cardinality(Writers(q)) + 1 + Cardinality(Recorders(q)) <= Cardinality(Workers)
        BY <4>4, <4>5, FewerUntold
      <4>7. Recorders(q)' = Recorders(q)
        BY <1>2, <2>1, <2>2, <2>4 DEF Recorders, Writers
      <4> QED
        BY <1>c, <2>3, <4>6, <4>7
    <3> QED
      BY <1>c, <1>e, <1>f, <1>n, <2>1, <2>3, <3>2, <3>3
  <2>5. CASE w \notin Writers(q)'
    <3>1. Cardinality(Writers(q)') <= Cardinality(Writers(q))
      BY <2>1, <2>5, OneCallLess
    <3> QED
      BY <1>c, <1>e, <1>f, <1>n, <2>1, <2>3, <3>1
  <2> QED
    BY <2>4, <2>5
<1>3. ASSUME NEW w \in Workers, generateExportBundle(w)
      PROVE  CountsFit(q)'
  <2>1. /\ work[w] \in Call /\ work[w].id \in Requests /\ work[w].op = "start"
        /\ work[w].step = "generate"
    BY <1>3, CallOf DEF generateExportBundle, BundlesKept, CallFits
  <2>2. /\ work'[w].step = "update" /\ work'[w].id = work[w].id /\ work'[w].op = "start"
        /\ \A v \in Workers \ {w} : work'[v] = work[v]
        /\ UNCHANGED <<request, faults>>
    BY <1>3, <2>1 DEF generateExportBundle, Types, Call
  <2>3. CASE work[w].id = q
    <3>1. /\ w \in Writers(q) /\ w \notin Writers(q)'
          /\ w \notin Recorders(q) /\ w \in Recorders(q)'
      BY <2>1, <2>2, <2>3 DEF Writers, Recorders
    <3>2. /\ Cardinality(Writers(q)') = Cardinality(Writers(q)) - 1
          /\ Cardinality(Recorders(q)') = Cardinality(Recorders(q)) + 1
      BY <2>2, <3>1, OneCallLess
    <3>3. Len(bundles'[q]) = Len(bundles[q]) + 1
      BY <1>3, <1>n, <2>3 DEF generateExportBundle, Types
    <3> QED
      BY <1>c, <1>e, <1>f, <1>n, <2>2, <3>2, <3>3
  <2>4. CASE work[w].id # q
    <3>1. Writers(q)' = Writers(q) /\ Recorders(q)' = Recorders(q)
      BY <2>2, <2>4 DEF Writers, Recorders
    <3>2. bundles'[q] = bundles[q]
      BY <1>3, <2>1, <2>4 DEF generateExportBundle, Types
    <3> QED
      BY <1>e, <1>f, <2>2, <3>1, <3>2
  <2> QED
    BY <2>3, <2>4
<1>4. ASSUME NEW w \in Workers, update(w)
      PROVE  CountsFit(q)'
  <2>1. /\ work[w].id \in Requests /\ work[w].op \in Ops /\ work[w].step = "update"
        /\ UNCHANGED <<bundles, faults>> /\ \A v \in Workers \ {w} : work'[v] = work[v]
        /\ work'[w] = Idle \/ work'[w].step = "notify"
    BY <1>4, CallOf DEF update, Types, Call
  <2>2. w \notin Writers(q)' /\ w \notin Writers(q)
    BY <2>1 DEF Writers, Idle
  <2>3. Cardinality(Writers(q)') <= Cardinality(Writers(q))
    BY <2>1, <2>2, OneCallLess
  <2>4. CASE work[w].id = q
    <3>1. request'[q].status \notin {"none", "PENDING"}
      BY <1>4, <2>1, <2>4 DEF update, Row, Types, Ops, StatusOf
    <3> QED
      BY <1>c, <1>e, <1>f, <1>n, <2>1, <2>3, <3>1
  <2>5. CASE work[w].id # q
    <3>1. Cardinality(Recorders(q)) <= Cardinality(Recorders(q)')
      <4>1. w \notin Recorders(q)
        BY <2>5 DEF Recorders
      <4> QED
        BY <2>1, <4>1, OneCallLess
    <3>2. request'[q] = request[q]
      BY <1>4, <2>1, <2>5 DEF update, Types
    <3> QED
      BY <1>c, <1>e, <1>f, <1>n, <2>1, <2>3, <3>1, <3>2
  <2> QED
    BY <2>4, <2>5
<1>5. ASSUME NEW w \in Workers, notifyUser(w)
      PROVE  CountsFit(q)'
  <2>1. /\ UNCHANGED <<request, bundles, faults>> /\ work[w].step = "notify"
        /\ \A v \in Workers \ {w} : work'[v] = work[v] /\ work'[w] = Idle
    BY <1>5 DEF notifyUser, Types
  <2>2. Writers(q)' = Writers(q) /\ Recorders(q)' = Recorders(q)
    BY <1>5 DEF notifyUser, Types, Writers, Recorders, Idle
  <2> QED
    BY <1>e, <1>f, <2>1, <2>2
<1>6. ASSUME NEW w \in Workers, Fail(w)
      PROVE  CountsFit(q)'
  <2>1. /\ UNCHANGED <<request, bundles>> /\ faults' = faults + 1
        /\ \A v \in Workers \ {w} : work'[v] = work[v]
    BY <1>6 DEF Fail, Types
  <2>2. w \notin Writers(q)'
    BY <1>6 DEF Fail, Types, Writers, Idle
  <2>3. /\ Cardinality(Writers(q)') <= Cardinality(Writers(q))
        /\ Cardinality(Recorders(q)) <= Cardinality(Recorders(q)') + 1
    BY <2>1, <2>2, OneCallLess
  <2>4. bundles'[q] = bundles[q] /\ request'[q] = request[q]
    BY <2>1
  <2>5. Len(bundles[q]) + Cardinality(Writers(q)') <= Cardinality(Workers) + faults + 1
    BY <1>c, <1>e, <1>f, <1>n, <2>3
  <2> QED
    BY <1>c, <1>e, <1>f, <1>n, <2>1, <2>3, <2>4, <2>5
<1>7. CASE UNCHANGED <<request, bundles, work, faults>>
  <2>1. Writers(q)' = Writers(q) /\ Recorders(q)' = Recorders(q)
    BY <1>7 DEF Writers, Recorders
  <2> QED
    BY <1>7, <1>e, <1>f, <2>1
<1> QED
  BY <1>1, <1>2, <1>3, <1>4, <1>5, <1>6, <1>7 DEF Moves, Waits, vars

LEMMA CountedIsBounded ==
    ASSUME GdprAssumption, Types, BundlesKept, BundlesCounted
    PROVE  BundlesBounded
<1> SUFFICES ASSUME NEW q \in Requests
             PROVE  Len(bundles[q]) <= Cardinality(Workers) + faults
  BY DEF BundlesBounded
<1>1. Len(bundles[q]) \in Nat /\ faults \in Nat
  BY DEF Types, BundlesKept, GdprAssumption
<1> QED
  BY <1>1, CallsAreCounted DEF BundlesCounted, CountsFit

(***************************************************************************)
(* One decision at a time, what a call has checked is still so when it     *)
(* updates, and what it has updated is still so when it tells the account. *)
(***************************************************************************)
CallHolds(c) ==
    /\ c.step \in {"generate", "update"} => Accepts(c.op, request[c.id].status)
    /\ c.step = "notify" => c.op \in {"complete", "reject"} /\ request[c.id].status = StatusOf(c.op)

ToldOf(q) == told[q] # <<>> =>
    request[q].status = IF told[q][Len(told[q])] = "completed" THEN "COMPLETED" ELSE "REJECTED"

InTime ==
    /\ Alone
    /\ \A w \in Workers : CallHolds(work[w])
    /\ \A q \in Requests : ToldOf(q)

LEMMA SettledIsKept ==
    ASSUME Types, InTime, NEW w \in Workers, update(w)
    PROVE  KeepsSettled
<1>1. PICK c \in Call, q \in Requests :
        c = work[w] /\ q = c.id /\ c.op \in Ops /\ Accepts(c.op, request[q].status)
  BY CallOf DEF update, InTime, CallHolds
<1>2. /\ request'[q].status = StatusOf(c.op)
      /\ \A x \in Requests \ {q} : request'[x] = request[x]
  BY <1>1 DEF update, Row, Types
<1>3. request[q].status \in {"COMPLETED", "REJECTED"} => StatusOf(c.op) = request[q].status
  BY <1>1 DEF Ops, Accepts, StatusOf
<1> QED
  BY <1>2, <1>3 DEF KeepsSettled

LEMMA SettledStays ==
    ASSUME Types, InTime, [Moves]_vars
    PROVE  KeepsSettled
<1>1. ASSUME NEW q \in Requests, createRequest(q)
      PROVE  KeepsSettled
  BY <1>1 DEF createRequest, Types, KeepsSettled
<1>2. CASE UNCHANGED request
  BY <1>2 DEF KeepsSettled
<1> QED
  BY <1>1, <1>2, SettledIsKept
     DEF Moves, Begins, generateExportBundle, notifyUser, Fail, Waits, vars

LEMMA InTimeStays ==
    ASSUME Types, InTime, [Moves]_vars, Alone'
    PROVE  InTime'
<1>k. KeepsSettled
  BY SettledStays
<1>0. InTime' <=> Alone' /\ (\A v \in Workers : CallHolds(work[v])') /\ (\A x \in Requests : ToldOf(x)')
  BY DEF InTime
<1>t. ASSUME UNCHANGED told
      PROVE  \A x \in Requests : ToldOf(x)'
  <2> SUFFICES ASSUME NEW x \in Requests PROVE ToldOf(x)'
    OBVIOUS
  <2>1. ToldOf(x) /\ told'[x] = told[x]
    BY <1>t DEF InTime
  <2>2. told[x] # <<>> => request[x].status \in {"COMPLETED", "REJECTED"}
    BY <2>1 DEF ToldOf
  <2>3. told[x] # <<>> => request'[x].status = request[x].status
    BY <1>k, <2>2 DEF KeepsSettled
  <2> QED
    BY <2>1, <2>3 DEF ToldOf
<1>s. ASSUME NEW v \in Workers, work'[v] = work[v] \/ work'[v] = Idle, UNCHANGED request
      PROVE  CallHolds(work[v])'
  BY <1>s DEF InTime, CallHolds, Idle
<1>1. ASSUME NEW q \in Requests, createRequest(q)
      PROVE  InTime'
  <2>1. /\ UNCHANGED <<work, told>> /\ request[q].status = "none"
        /\ \A x \in Requests \ {q} : request'[x] = request[x]
    BY <1>1 DEF createRequest, Types
  <2>2. ASSUME NEW v \in Workers, work[v].step # "none"
        PROVE  CallHolds(work[v])'
    <3>1. CallHolds(work[v]) /\ work[v].op \in Ops /\ work[v].id \in Requests
          /\ work[v] \in Call
      BY <2>2, CallOf DEF InTime
    <3>2. work[v].id # q
      BY <2>1, <2>2, <3>1 DEF CallHolds, Accepts, Ops, StatusOf, Call
    <3> QED
      BY <2>1, <3>1, <3>2 DEF CallHolds
  <2>3. \A v \in Workers : CallHolds(work[v])'
    BY <2>1, <2>2 DEF CallHolds
  <2> QED
    BY <1>0, <1>t, <2>1, <2>3
<1>2. ASSUME NEW w \in Workers, NEW q \in Requests, NEW op \in Ops, Begins(w, q, op)
      PROVE  InTime'
  <2>1. /\ UNCHANGED <<request, told>> /\ \A v \in Workers \ {w} : work'[v] = work[v]
        /\ work'[w].op = op /\ work'[w].id = q /\ work'[w].step \in {"generate", "update"}
        /\ Accepts(op, request[q].status)
    BY <1>2 DEF Begins, Types
  <2>2. CallHolds(work[w])'
    BY <2>1 DEF CallHolds
  <2> QED
    BY <1>0, <1>s, <1>t, <2>1, <2>2
<1>3. ASSUME NEW w \in Workers, generateExportBundle(w)
      PROVE  InTime'
  <2>1. /\ work[w].step = "generate" /\ work[w] \in Call
        /\ UNCHANGED <<request, told>> /\ \A v \in Workers \ {w} : work'[v] = work[v]
        /\ work'[w].op = work[w].op /\ work'[w].id = work[w].id /\ work'[w].step = "update"
    BY <1>3 DEF generateExportBundle, Types, Call
  <2>2. CallHolds(work[w])'
    BY <2>1 DEF InTime, CallHolds
  <2> QED
    BY <1>0, <1>s, <1>t, <2>1, <2>2
<1>4. ASSUME NEW w \in Workers, update(w)
      PROVE  InTime'
  <2>1. /\ work[w].step = "update" /\ work[w] \in Call /\ work[w].id \in Requests
        /\ work[w].op \in Ops /\ UNCHANGED told /\ \A v \in Workers \ {w} : work'[v] = work[v]
    BY <1>4, CallOf DEF update, Types
  <2>2. \A v \in Workers \ {w} : work[v] = Idle
    BY <2>1 DEF InTime, Alone, Idle
  <2>3. request'[work[w].id].status = StatusOf(work[w].op)
    BY <1>4, <2>1 DEF update, Row, Types
  <2>4. CASE work[w].op = "start"
    <3>1. work'[w] = Idle
      BY <1>4, <2>4 DEF update, Types
    <3>2. \A v \in Workers : CallHolds(work[v])'
      BY <2>1, <2>2, <3>1 DEF CallHolds, Idle
    <3> QED
      BY <1>0, <1>t, <2>1, <3>2
  <2>5. CASE work[w].op # "start"
    <3>1. work'[w].step = "notify" /\ work'[w].op = work[w].op /\ work'[w].id = work[w].id
      BY <1>4, <2>1, <2>5 DEF update, Types, Call
    <3>2. CallHolds(work[w])'
      BY <2>1, <2>3, <2>5, <3>1 DEF CallHolds, Ops
    <3>3. \A v \in Workers \ {w} : CallHolds(work[v])'
      BY <2>1, <2>2 DEF CallHolds, Idle
    <3> QED
      BY <1>0, <1>t, <2>1, <3>2, <3>3
  <2> QED
    BY <2>4, <2>5
<1>5. ASSUME NEW w \in Workers, notifyUser(w)
      PROVE  InTime'
  <2>1. PICK c \in Call, q \in Requests :
          c = work[w] /\ q = c.id /\ c.op \in {"complete", "reject"}
          /\ request[q].status = StatusOf(c.op)
    BY <1>5, CallOf DEF notifyUser, InTime, CallHolds
  <2>2. /\ UNCHANGED request /\ told'[q] = Append(told[q], ActionOf(c.op))
        /\ \A x \in Requests \ {q} : told'[x] = told[x]
        /\ \A v \in Workers : work'[v] = work[v] \/ work'[v] = Idle
    BY <1>5, <2>1 DEF notifyUser, Types
  <2>3. told'[q][Len(told'[q])] = ActionOf(c.op)
    <3>1. told[q] \in Seq(Actions)
      BY DEF Types
    <3> QED
      BY <2>2, <3>1
  <2>4. ToldOf(q)'
    BY <2>1, <2>2, <2>3 DEF ToldOf, ActionOf, StatusOf
  <2>5. \A x \in Requests \ {q} : ToldOf(x)'
    BY <2>2 DEF InTime, ToldOf
  <2> QED
    BY <1>0, <1>s, <2>2, <2>4, <2>5
<1>6. ASSUME NEW w \in Workers, Fail(w)
      PROVE  InTime'
  <2>1. UNCHANGED <<request, told>> /\ \A v \in Workers : work'[v] = work[v] \/ work'[v] = Idle
    BY <1>6 DEF Fail, Types
  <2> QED
    BY <1>0, <1>s, <1>t, <2>1
<1>7. CASE UNCHANGED <<request, work, told>>
  BY <1>7, <1>0, <1>s, <1>t
<1> QED
  BY <1>1, <1>2, <1>3, <1>4, <1>5, <1>6, <1>7 DEF Moves, Waits, vars

(***************************************************************************)
(* The parts of the run.                                                   *)
(***************************************************************************)
LEMMA PartsBegin ==
    InitAll => /\ Init /\ Webhooks!Init /\ Sessions!Init /\ AdminUsers!Init
               /\ Checklist!Init /\ Verification!Init /\ Approvals!Init
BY DEF InitAll

LEMMA PartStays ==
    /\ [NextAll]_all => UNCHANGED <<part, alone>>
    /\ [NextAll]_all => (part' = part) /\ (alone' = alone)
BY DEF NextAll, all, SessionsNext, UsersNext, OnboardingNext, IdentityNext, RequestsNext, GdprNext,
       SystemNext

LEMMA OnePartMoves ==
    ASSUME [NextAll]_all
    PROVE  /\ [Next]_vars
           /\ alone => Alone' \/ UNCHANGED vars
           /\ [Webhooks!Next]_(Webhooks!vars)
<1>1. CASE UNCHANGED all
  BY <1>1 DEF all, system, Webhooks!vars
<1>2. CASE SessionsNext \/ UsersNext \/ OnboardingNext \/ IdentityNext \/ RequestsNext
  <2>1. UNCHANGED vars /\ UNCHANGED system
    BY <1>2 DEF SessionsNext, UsersNext, OnboardingNext, IdentityNext, RequestsNext
  <2> QED
    BY <2>1 DEF system, Webhooks!vars
<1>3. CASE GdprNext
  <2>1. Next /\ UNCHANGED system /\ (alone => Alone')
    BY <1>3 DEF GdprNext
  <2> QED
    BY <2>1 DEF system, Webhooks!vars
<1>4. CASE SystemNext
  BY <1>4 DEF SystemNext
<1> QED
  BY <1>1, <1>2, <1>3, <1>4 DEF NextAll

DecisionsInv ==
    /\ Types /\ NothingYet /\ UntoldAreLogged /\ BundlesKept /\ BundlesCounted
    /\ now \in 0..MaxTime
    /\ alone => InTime

LEMMA DecisionsAtFirst == Init => DecisionsInv
<1> SUFFICES ASSUME Init PROVE DecisionsInv
  OBVIOUS
<1>1. GdprAssumption /\ MaxTime \in Nat
  BY AccountsAssumption DEF GdprAssumption
<1>2. Types /\ NothingYet /\ BundlesKept
  BY <1>1, TypesAtFirst, BundlesAtFirst DEF Init, NothingYet
<1>3. \A q \in Requests, e \in {"completed", "rejected"} :
         Untold(q, e) = {} /\ Places(told[q], e) = {} /\ Places(log[q], e) = {}
  BY DEF Init, Untold, Idle, Places
<1>4. \A q \in Requests, e \in {"completed", "rejected"} :
         Cardinality(Untold(q, e)) = 0 /\ Notices(q, e) = 0 /\ Entries(q, e) = 0
  BY <1>1, <1>2, <1>3, CountsAreNaturals, FS_EmptySet
<1>5. \A q \in Requests : CountsFit(q)
  <2> SUFFICES ASSUME NEW q \in Requests PROVE CountsFit(q)
    OBVIOUS
  <2>1. Writers(q) = {} /\ Len(bundles[q]) = 0 /\ faults = 0
    BY DEF Init, Writers, Idle
  <2>2. Cardinality(Writers(q)) = 0
    BY <2>1, FS_EmptySet
  <2> QED
    BY <1>1, <2>1, <2>2, CallsAreCounted DEF CountsFit
<1>6. InTime
  BY DEF Init, InTime, Alone, CallHolds, ToldOf, Idle
<1>7. now \in 0..MaxTime
  BY <1>1 DEF Init
<1> QED
  BY <1>2, <1>4, <1>5, <1>6, <1>7 DEF DecisionsInv, UntoldAreLogged, BundlesCounted

LEMMA DecisionsStay == DecisionsInv /\ [NextAll]_all => DecisionsInv'
<1> SUFFICES ASSUME DecisionsInv, [NextAll]_all PROVE DecisionsInv'
  OBVIOUS
<1>1. GdprAssumption /\ MaxTime \in Nat
  BY AccountsAssumption DEF GdprAssumption
<1>2. [Next]_vars /\ [Moves]_vars /\ alone' = alone
  BY OnePartMoves, NextMoves, PartStays
<1>3. Types' /\ NothingYet' /\ UntoldAreLogged' /\ BundlesKept' /\ BundlesCounted'
  BY <1>1, <1>2, TypesStay, NothingYetStays, UntoldStayLogged, BundlesStayKept, BundlesStayCounted
     DEF DecisionsInv
<1>4. now' \in 0..MaxTime
  <2>1. UNCHANGED now \/ (now < MaxTime /\ now' = now + 1)
    BY <1>2 DEF Next, vars, createRequest, begin, generateExportBundle, update, notifyUser, Fail, Tick
  <2> QED
    BY <1>1, <2>1 DEF DecisionsInv
<1>5. ASSUME alone
      PROVE  InTime'
  <2>1. InTime /\ Types
    BY <1>5 DEF DecisionsInv
  <2>2. CASE Alone'
    BY <1>2, <2>1, <2>2, InTimeStays
  <2>3. CASE UNCHANGED vars
    <3>1. Alone'
      BY <2>1, <2>3 DEF vars, InTime, Alone
    <3> QED
      BY <1>2, <2>1, <3>1, InTimeStays
  <2> QED
    BY <1>5, <2>2, <2>3, OnePartMoves
<1> QED
  BY <1>2, <1>3, <1>4, <1>5 DEF DecisionsInv

\* DecisionsSound, for all requests, members of staff and bounds: bundles are bounded by the
\* calls at a time and those that failed, an account is told of nothing that was not
\* recorded, the bundles that the list offers are those that are served; decisions one at a
\* time, a settled request stays settled and is as the account was last told.
THEOREM DecisionsAreSound == SpecAll => DecisionsSound
<1>1. GdprAssumption
  BY AccountsAssumption
<1>2. DecisionsInv =>
        TypeOK /\ ToldWhatHappened /\ OfferedIsServed /\ BundlesBounded /\ (alone => ToldTheStatus)
  <2> SUFFICES ASSUME DecisionsInv
               PROVE  TypeOK /\ ToldWhatHappened /\ OfferedIsServed /\ BundlesBounded
                      /\ (alone => ToldTheStatus)
    OBVIOUS
  <2>1. TypeOK
    BY KeptIsTyped DEF DecisionsInv
  <2>2. OfferedIsServed /\ BundlesBounded
    BY <1>1, KeptIsServed, CountedIsBounded DEF DecisionsInv
  <2>3. ToldWhatHappened
    BY <1>1, UntoldTells DEF DecisionsInv
  <2>4. alone => ToldTheStatus
    BY DEF DecisionsInv, InTime, ToldOf, ToldTheStatus
  <2> QED
    BY <2>1, <2>2, <2>3, <2>4
<1>3. DecisionsInv /\ [NextAll]_all => [alone => KeepsSettled]_all
  <2> SUFFICES ASSUME DecisionsInv, [NextAll]_all, alone
               PROVE  KeepsSettled
    OBVIOUS
  <2> QED
    BY SettledStays, OnePartMoves, NextMoves DEF DecisionsInv
<1>4. InitAll => DecisionsInv
  BY DecisionsAtFirst, PartsBegin
<1> QED
  BY <1>2, <1>3, <1>4, DecisionsStay, PTL DEF SpecAll, DecisionsSound

-----------------------------------------------------------------------------
(***************************************************************************)
(* Webhooks.  What the row may say is bounded by the step the controller   *)
(* has come to: a mark that failed leaves an earlier status, never a later.*)
(***************************************************************************)
RowStatus == {"none", "RECEIVED", "PROCESSING", "PROCESSED", "FAILED"}

StepBounds(h) ==
    /\ hookStep[h] = "new" => hookLog[h].status = "none"
    /\ hookStep[h] \in {"received", "handling", "handled", "dead"} =>
         hookLog[h].status \in {"RECEIVED", "PROCESSING"}
    /\ hookStep[h] \in {"new", "received", "handling"} => h \notin handled
    /\ hookStep[h] = "handled" => h \in handled
    /\ hookStep[h] # "answered" => answered[h] = None

HookInv ==
    /\ hookStep \in [Hooks -> {"new", "received", "handling", "handled", "answered", "dead"}]
    /\ hookLog \in [Hooks -> [status : RowStatus, receivedAt : Nat \cup {None}]]
    /\ answered \in [Hooks -> BOOLEAN \cup {None}]
    /\ hookNow \in Nat
    /\ \A h \in Hooks : StepBounds(h)
    /\ Webhooks!LogTellsTruth

LEMMA HookInvAtFirst ==
    ASSUME Webhooks!ObservabilityAssumption, Webhooks!Init
    PROVE  HookInv
BY DEF Webhooks!ObservabilityAssumption, Webhooks!Init, HookInv, StepBounds, RowStatus, Webhooks!NoRow,
       Webhooks!LogTellsTruth

\* A mark sets the status of its row, or leaves the log as it is.
LEMMA MarkSets ==
    ASSUME HookInv, NEW h \in Hooks, NEW s \in RowStatus, Webhooks!Mark(h, s)
    PROVE  /\ hookLog' \in [Hooks -> [status : RowStatus, receivedAt : Nat \cup {None}]]
           /\ hookLog'[h].status \in {s, hookLog[h].status}
           /\ \A g \in Hooks \ {h} : hookLog'[g] = hookLog[g]
BY DEF HookInv, Webhooks!Mark

\* A step about one webhook leaves what is known of the others.
LEMMA OthersStay ==
    ASSUME HookInv, NEW h \in Hooks, NEW g \in Hooks, g # h,
           hookStep'[g] = hookStep[g], hookLog'[g] = hookLog[g], answered'[g] = answered[g],
           (g \in handled') <=> (g \in handled)
    PROVE  /\ StepBounds(g)'
           /\ hookLog'[g].status = "PROCESSED" \/ answered'[g] = TRUE => g \in handled'
           /\ hookLog'[g].status = "FAILED" => g \notin handled'
BY DEF HookInv, StepBounds, Webhooks!LogTellsTruth

LEMMA HookStep ==
    ASSUME Webhooks!ObservabilityAssumption, HookInv, NEW h \in Hooks,
           \/ Webhooks!recordWebhookEvent(h) \/ Webhooks!RecordFails(h) \/ Webhooks!Disabled(h)
           \/ Webhooks!ParseFails(h) \/ Webhooks!Parsed(h) \/ Webhooks!handleMollieEvent(h)
           \/ Webhooks!HandlingFails(h) \/ Webhooks!Processed(h) \/ Webhooks!Crash(h)
    PROVE  HookInv'
<1> USE DEF Webhooks!ObservabilityAssumption
<1>1. /\ hookStep' \in [Hooks -> {"new", "received", "handling", "handled", "answered", "dead"}]
      /\ hookLog' \in [Hooks -> [status : RowStatus, receivedAt : Nat \cup {None}]]
      /\ answered' \in [Hooks -> BOOLEAN \cup {None}]
      /\ hookNow' \in Nat
      /\ \A g \in Hooks \ {h} :
           /\ hookStep'[g] = hookStep[g] /\ hookLog'[g] = hookLog[g] /\ answered'[g] = answered[g]
           /\ (g \in handled') <=> (g \in handled)
  <2>1. CASE Webhooks!recordWebhookEvent(h)
    BY <2>1 DEF Webhooks!recordWebhookEvent, HookInv, RowStatus
  <2>2. CASE Webhooks!RecordFails(h) \/ Webhooks!Disabled(h) \/ Webhooks!Crash(h)
    BY <2>2 DEF Webhooks!RecordFails, Webhooks!Disabled, Webhooks!Crash, HookInv
  <2>3. CASE Webhooks!ParseFails(h) \/ Webhooks!HandlingFails(h)
    BY <2>3, MarkSets DEF Webhooks!ParseFails, Webhooks!HandlingFails, HookInv, RowStatus
  <2>4. CASE Webhooks!Parsed(h) \/ Webhooks!Processed(h)
    BY <2>4, MarkSets DEF Webhooks!Parsed, Webhooks!Processed, HookInv, RowStatus
  <2>5. CASE Webhooks!handleMollieEvent(h)
    BY <2>5 DEF Webhooks!handleMollieEvent, HookInv
  <2> QED
    BY <2>1, <2>2, <2>3, <2>4, <2>5
<1> DEFINE Truth ==
      /\ StepBounds(h)'
      /\ hookLog'[h].status = "PROCESSED" \/ answered'[h] = TRUE => h \in handled'
      /\ hookLog'[h].status = "FAILED" => h \notin handled'
<1>2. Truth
  <2>t. StepBounds(h) /\ (hookLog[h].status = "FAILED" => h \notin handled)
    BY DEF HookInv, Webhooks!LogTellsTruth
  <2>1. CASE Webhooks!recordWebhookEvent(h)
    BY <2>1, <2>t DEF Webhooks!recordWebhookEvent, HookInv, StepBounds
  <2>2. CASE Webhooks!RecordFails(h) \/ Webhooks!Disabled(h)
    BY <2>2, <2>t DEF Webhooks!RecordFails, Webhooks!Disabled, HookInv, StepBounds
  <2>3. CASE Webhooks!Crash(h)
    BY <2>3, <2>t DEF Webhooks!Crash, HookInv, StepBounds
  <2>4. CASE Webhooks!ParseFails(h) \/ Webhooks!HandlingFails(h)
    <3>1. hookLog'[h].status \in {"FAILED", hookLog[h].status}
      BY <2>4, MarkSets DEF Webhooks!ParseFails, Webhooks!HandlingFails, RowStatus
    <3> QED
      BY <2>4, <2>t, <3>1 DEF Webhooks!ParseFails, Webhooks!HandlingFails, HookInv, StepBounds
  <2>5. CASE Webhooks!Parsed(h)
    <3>1. hookLog'[h].status \in {"PROCESSING", hookLog[h].status}
      BY <2>5, MarkSets DEF Webhooks!Parsed, RowStatus
    <3> QED
      BY <2>5, <2>t, <3>1 DEF Webhooks!Parsed, HookInv, StepBounds
  <2>6. CASE Webhooks!handleMollieEvent(h)
    BY <2>6, <2>t DEF Webhooks!handleMollieEvent, HookInv, StepBounds
  <2>7. CASE Webhooks!Processed(h)
    <3>1. hookLog'[h].status \in {"PROCESSED", hookLog[h].status}
      BY <2>7, MarkSets DEF Webhooks!Processed, RowStatus
    <3> QED
      BY <2>7, <2>t, <3>1 DEF Webhooks!Processed, HookInv, StepBounds
  <2> QED
    BY <2>1, <2>2, <2>3, <2>4, <2>5, <2>6, <2>7
<1>3. \A g \in Hooks :
        /\ StepBounds(g)'
        /\ hookLog'[g].status = "PROCESSED" \/ answered'[g] = TRUE => g \in handled'
        /\ hookLog'[g].status = "FAILED" => g \notin handled'
  BY <1>1, <1>2, OthersStay
<1> QED
  BY <1>1, <1>3 DEF HookInv, Webhooks!LogTellsTruth

LEMMA HookNext ==
    ASSUME Webhooks!ObservabilityAssumption, HookInv, [Webhooks!Next]_(Webhooks!vars)
    PROVE  HookInv'
<1>1. ASSUME UNCHANGED <<hookStep, hookLog, handled, answered>>, hookNow' \in {hookNow,
hookNow + 1}
      PROVE  HookInv'
  BY <1>1 DEF HookInv, StepBounds, Webhooks!LogTellsTruth
<1> QED
  BY <1>1, HookStep DEF Webhooks!Next, Webhooks!Loads, Webhooks!MailFails, Webhooks!Pays, Webhooks!Tick, Webhooks!vars

\* Whatever calls fail and wherever the process dies, a row or an answer that says
\* processed is of an event that was handled, one that says failed of one that was not.
THEOREM LogIsTruthful ==
    ASSUME Webhooks!ObservabilityAssumption
    PROVE  Webhooks!Spec => []Webhooks!LogTellsTruth
<1>1. Webhooks!Init => HookInv
  BY HookInvAtFirst
<1>2. HookInv /\ [Webhooks!Next]_(Webhooks!vars) => HookInv'
  BY HookNext
<1>3. HookInv => Webhooks!LogTellsTruth
  BY DEF HookInv
<1> QED
  BY <1>1, <1>2, <1>3, PTL DEF Webhooks!Spec

LEMMA MarksStay ==
    ASSUME HookInv, Webhooks!Next
    PROVE  Webhooks!KeepsMarks
<1> SUFFICES ASSUME NEW g \in Hooks, hookLog[g].status \in {"PROCESSED", "FAILED"}
             PROVE  hookLog'[g] = hookLog[g]
  BY DEF Webhooks!KeepsMarks
<1>1. hookStep[g] \in {"answered"}
  BY DEF HookInv, StepBounds
<1>2. ASSUME NEW h \in Hooks, h # g, NEW s, Webhooks!Mark(h, s)
      PROVE  hookLog'[g] = hookLog[g]
  BY <1>2 DEF Webhooks!Mark, HookInv
<1>3. CASE UNCHANGED hookLog
  BY <1>3
<1>4. ASSUME NEW h \in Hooks, Webhooks!recordWebhookEvent(h)
      PROVE  hookLog'[g] = hookLog[g]
  BY <1>1, <1>4 DEF Webhooks!recordWebhookEvent, HookInv
<1>5. ASSUME NEW h \in Hooks,
             Webhooks!ParseFails(h) \/ Webhooks!Parsed(h) \/ Webhooks!HandlingFails(h) \/ Webhooks!Processed(h)
      PROVE  hookLog'[g] = hookLog[g]
  BY <1>1, <1>2, <1>5 DEF Webhooks!ParseFails, Webhooks!Parsed, Webhooks!HandlingFails, Webhooks!Processed
<1> QED
  BY <1>3, <1>4, <1>5
     DEF Webhooks!Next, Webhooks!RecordFails, Webhooks!Disabled, Webhooks!handleMollieEvent, Webhooks!Crash,
         Webhooks!Loads, Webhooks!MailFails,
         Webhooks!Pays, Webhooks!Tick

\* No later call rewrites a row that was marked as processed or failed.
THEOREM MarksAreKept ==
    ASSUME Webhooks!ObservabilityAssumption
    PROVE  Webhooks!Spec => [][Webhooks!KeepsMarks]_(Webhooks!vars)
<1>1. HookInv /\ Webhooks!Next => Webhooks!KeepsMarks
  BY MarksStay
<1>2. HookInv /\ [Webhooks!Next]_(Webhooks!vars) => [Webhooks!KeepsMarks]_(Webhooks!vars)
  BY <1>1
<1>3. Webhooks!Init => HookInv
  BY HookInvAtFirst
<1>4. HookInv /\ [Webhooks!Next]_(Webhooks!vars) => HookInv'
  BY HookNext
<1> QED
  BY <1>2, <1>3, <1>4, PTL DEF Webhooks!Spec

(***************************************************************************)
(* What the pages show.  Unless a call failed, the row of a webhook is the *)
(* one of the step it has come to, and so is what it was answered.         *)
(***************************************************************************)
Figures == [pendingEmails : Nat, failedEmails : Nat, stuckBookings : Nat,
            payments : Nat, failedPayments : Nat]

FiguresFit == load \in Figures /\ load.failedPayments <= load.payments

RowOf(h) ==
    /\ (hookLog[h].receivedAt = None) <=> (hookLog[h].status = "none")
    /\ hookStep[h] \in {"handling", "handled"} => "mollieApiKey" \in config
    /\ hookMisses = 0 =>
         /\ hookStep[h] = "received" => hookLog[h].status = "RECEIVED"
         /\ hookStep[h] \in {"handling", "handled"} => hookLog[h].status = "PROCESSING"
         /\ hookStep[h] = "answered" =>
              \/ answered[h] = TRUE /\ hookLog[h].status = "PROCESSED"
              \/ answered[h] = FALSE /\ hookLog[h].status =
                   IF "mollieApiKey" \in config THEN "FAILED" ELSE "RECEIVED"

RowsAgree == hookMisses \in Nat /\ \A h \in Hooks : RowOf(h)

LEMMA RowsStay ==
    ASSUME Webhooks!ObservabilityAssumption, HookInv, RowsAgree, NEW h \in Hooks,
           \/ Webhooks!recordWebhookEvent(h) \/ Webhooks!RecordFails(h) \/ Webhooks!Disabled(h)
           \/ Webhooks!ParseFails(h) \/ Webhooks!Parsed(h) \/ Webhooks!handleMollieEvent(h)
           \/ Webhooks!HandlingFails(h) \/ Webhooks!Processed(h) \/ Webhooks!Crash(h)
    PROVE  RowsAgree'
<1>0. /\ hookNow \in Nat /\ None \notin Nat /\ hookMisses \in Nat /\ RowOf(h) /\ StepBounds(h)
      /\ \A g \in Hooks : RowOf(g)
      /\ DOMAIN hookStep = Hooks /\ DOMAIN hookLog = Hooks /\ DOMAIN answered = Hooks
      /\ hookLog[h] \in [status : RowStatus, receivedAt : Nat \cup {None}]
  BY DEF HookInv, RowsAgree, Webhooks!ObservabilityAssumption
<1>1. /\ hookMisses' \in Nat /\ (hookMisses' = 0 => hookMisses = 0) /\ UNCHANGED config
      /\ \A g \in Hooks \ {h} :
           hookStep'[g] = hookStep[g] /\ hookLog'[g] = hookLog[g] /\ answered'[g] = answered[g]
  BY <1>0 DEF Webhooks!recordWebhookEvent, Webhooks!RecordFails, Webhooks!Disabled, Webhooks!ParseFails,
              Webhooks!Parsed, Webhooks!handleMollieEvent, Webhooks!HandlingFails,
              Webhooks!Processed, Webhooks!Crash, Webhooks!Mark
<1>2. \A g \in Hooks \ {h} : RowOf(g)'
  BY <1>0, <1>1 DEF RowOf
\* A mark that fails is a miss.
<1>m. ASSUME NEW s \in RowStatus \ {"none"}, Webhooks!Mark(h, s), hookLog[h].status # "none"
      PROVE  /\ (hookLog'[h].receivedAt = None) <=> (hookLog'[h].status = "none")
             /\ hookMisses' = 0 => hookLog'[h].status = s
  BY <1>0, <1>m DEF Webhooks!Mark, RowOf
<1>3. RowOf(h)'
  <2>1. CASE Webhooks!recordWebhookEvent(h)
    BY <2>1, <1>0 DEF Webhooks!recordWebhookEvent, RowOf
  <2>2. CASE Webhooks!RecordFails(h) \/ Webhooks!Crash(h)
    <3>1. hookMisses' # 0 /\ UNCHANGED <<hookLog, config>> /\ hookStep'[h] \in {"answered", "dead"}
      BY <2>2, <1>0 DEF Webhooks!RecordFails, Webhooks!Crash
    <3> QED
      BY <3>1, <1>0 DEF RowOf
  <2>3. CASE Webhooks!Disabled(h)
    <3>1. /\ UNCHANGED <<hookLog, config, hookMisses>> /\ hookStep[h] = "received"
          /\ hookStep'[h] = "answered" /\ answered'[h] = FALSE /\ "mollieApiKey" \notin config
      BY <2>3, <1>0 DEF Webhooks!Disabled
    <3> QED
      BY <3>1, <1>0 DEF RowOf
  <2>4. CASE Webhooks!ParseFails(h) \/ Webhooks!HandlingFails(h)
    <3>1. /\ Webhooks!Mark(h, "FAILED") /\ hookLog[h].status # "none" /\ "mollieApiKey" \in config
          /\ hookStep'[h] = "answered" /\ answered'[h] = FALSE
      BY <2>4, <1>0 DEF Webhooks!ParseFails, Webhooks!HandlingFails, StepBounds, RowOf
    <3>2. /\ (hookLog'[h].receivedAt = None) <=> (hookLog'[h].status = "none")
          /\ hookMisses' = 0 => hookLog'[h].status = "FAILED"
      BY <3>1, <1>m DEF RowStatus
    <3> QED
      BY <1>1, <3>1, <3>2 DEF RowOf
  <2>5. CASE Webhooks!Parsed(h)
    <3>1. /\ Webhooks!Mark(h, "PROCESSING") /\ hookLog[h].status # "none" /\ "mollieApiKey" \in config
          /\ hookStep'[h] = "handling"
      BY <2>5, <1>0 DEF Webhooks!Parsed, StepBounds
    <3>2. /\ (hookLog'[h].receivedAt = None) <=> (hookLog'[h].status = "none")
          /\ hookMisses' = 0 => hookLog'[h].status = "PROCESSING"
      BY <3>1, <1>m DEF RowStatus
    <3> QED
      BY <1>1, <3>1, <3>2 DEF RowOf
  <2>6. CASE Webhooks!handleMollieEvent(h)
    <3>1. /\ UNCHANGED <<hookLog, config, hookMisses>> /\ hookStep[h] = "handling"
          /\ hookStep'[h] = "handled"
      BY <2>6, <1>0 DEF Webhooks!handleMollieEvent
    <3> QED
      BY <3>1, <1>0 DEF RowOf
  <2>7. CASE Webhooks!Processed(h)
    <3>1. /\ Webhooks!Mark(h, "PROCESSED") /\ hookLog[h].status # "none"
          /\ hookStep'[h] = "answered" /\ answered'[h] = TRUE
      BY <2>7, <1>0 DEF Webhooks!Processed, StepBounds
    <3>2. /\ (hookLog'[h].receivedAt = None) <=> (hookLog'[h].status = "none")
          /\ hookMisses' = 0 => hookLog'[h].status = "PROCESSED"
      BY <3>1, <1>m DEF RowStatus
    <3> QED
      BY <1>1, <3>1, <3>2 DEF RowOf
  <2> QED
    BY <2>1, <2>2, <2>3, <2>4, <2>5, <2>6, <2>7
<1> QED
  BY <1>1, <1>2, <1>3 DEF RowsAgree

LEMMA RowsNext ==
    ASSUME Webhooks!ObservabilityAssumption, HookInv, RowsAgree, [Webhooks!Next]_(Webhooks!vars)
    PROVE  RowsAgree'
<1>1. CASE UNCHANGED <<hookStep, hookLog, answered, config, hookMisses>>
  BY <1>1 DEF RowsAgree, RowOf
<1> QED
  BY <1>1, RowsStay DEF Webhooks!Next, Webhooks!Loads, Webhooks!MailFails, Webhooks!Pays, Webhooks!Tick,
                        Webhooks!vars

\* What the other tables count: in the log's own instance and in that of the pages.
LEMMA FiguresStay ==
    ASSUME FiguresFit, NEW m \in Nat, NEW b \in Nat
    PROVE  /\ UNCHANGED load => FiguresFit'
           /\ load' = [load EXCEPT !.pendingEmails = m, !.stuckBookings = b] => FiguresFit'
           /\ load' = [load EXCEPT !.failedEmails = 1] => FiguresFit'
           /\ load' = [load EXCEPT !.payments = @ + 1] =>
                FiguresFit' /\ load'.payments = load.payments + 1
           /\ load' = [load EXCEPT !.payments = @ + 1, !.failedPayments = @ + 1] =>
                FiguresFit' /\ load'.payments = load.payments + 1
<1>0. /\ load \in Figures /\ load.payments \in Nat /\ load.failedPayments \in Nat
      /\ load.failedPayments <= load.payments
  BY DEF FiguresFit, Figures
<1>1. CASE UNCHANGED load
  BY <1>1 DEF FiguresFit, Figures
<1>2. CASE load' = [load EXCEPT !.pendingEmails = m, !.stuckBookings = b]
  BY <1>0, <1>2 DEF FiguresFit, Figures
<1>3. CASE load' = [load EXCEPT !.failedEmails = 1]
  BY <1>0, <1>3 DEF FiguresFit, Figures
<1>4. CASE load' = [load EXCEPT !.payments = @ + 1]
  BY <1>0, <1>4 DEF FiguresFit, Figures
<1>5. CASE load' = [load EXCEPT !.payments = @ + 1, !.failedPayments = @ + 1]
  <2> DEFINE first == [load EXCEPT !.payments = load.payments + 1]
  <2>0. first \in Figures /\ first.failedPayments = load.failedPayments
    BY <1>0 DEF Figures
  <2>1. load' \in Figures
    <3>1. load' = [first EXCEPT !.failedPayments = load.failedPayments + 1]
      BY <1>0, <1>5 DEF Figures
    <3> HIDE DEF first
    <3> QED
      BY <1>0, <2>0, <3>1 DEF Figures
  <2>2. /\ load'.payments = load.payments + 1
        /\ load'.failedPayments = load.failedPayments + 1
    BY <1>0, <1>5 DEF Figures
  <2> QED
    BY <1>0, <2>1, <2>2 DEF FiguresFit
<1> HIDE DEF FiguresFit
<1> QED
  <2>1. UNCHANGED load => FiguresFit'
    BY <1>1
  <2>2. load' = [load EXCEPT !.pendingEmails = m, !.stuckBookings = b] => FiguresFit'
    BY <1>2
  <2>3. load' = [load EXCEPT !.failedEmails = 1] => FiguresFit'
    BY <1>3
  <2>4. load' = [load EXCEPT !.payments = @ + 1] =>
          FiguresFit' /\ load'.payments = load.payments + 1
    BY <1>0, <1>4 DEF Figures
  <2>5. load' = [load EXCEPT !.payments = @ + 1, !.failedPayments = @ + 1] =>
          FiguresFit' /\ load'.payments = load.payments + 1
    BY <1>0, <1>5 DEF Figures
  <2> QED
    BY <2>1, <2>2, <2>3, <2>4, <2>5

LEMMA WebhooksCount ==
    ASSUME Webhooks!ObservabilityAssumption, FiguresFit, [Webhooks!Next]_(Webhooks!vars)
    PROVE  FiguresFit' /\ (load.payments <= DayPayments => load'.payments <= DayPayments)
<1>0. load \in Figures /\ DayPayments \in Nat /\ Backlogs \subseteq Nat
  BY DEF FiguresFit, Webhooks!ObservabilityAssumption
<1>1. CASE UNCHANGED load
  BY <1>1, 0 \in Nat, FiguresStay
<1>2. ASSUME NEW m \in Backlogs, NEW b \in Backlogs, Webhooks!Loads(m, b)
      PROVE  FiguresFit' /\ (load.payments <= DayPayments => load'.payments <= DayPayments)
  <2>1. m \in Nat /\ b \in Nat
    BY <1>0
  <2>2. load' = [load EXCEPT !.pendingEmails = m, !.stuckBookings = b]
    BY <1>2 DEF Webhooks!Loads
  <2>3. load'.payments = load.payments
    BY <1>0, <2>2 DEF Figures
  <2> QED
    BY <2>1, <2>2, <2>3, FiguresStay
<1>3. CASE Webhooks!MailFails
  <2>1. load' = [load EXCEPT !.failedEmails = 1]
    BY <1>3 DEF Webhooks!MailFails
  <2>2. load'.payments = load.payments
    BY <1>0, <2>1 DEF Figures
  <2> QED
    BY <2>1, <2>2, 0 \in Nat, FiguresStay
<1>4. ASSUME NEW f \in BOOLEAN, Webhooks!Pays(f)
      PROVE  FiguresFit' /\ (load.payments <= DayPayments => load'.payments <= DayPayments)
  <2>0. f = TRUE \/ f = FALSE
    BY Zenon
  <2>1. \/ load' = [load EXCEPT !.payments = @ + 1, !.failedPayments = @ + 1]
        \/ load' = [load EXCEPT !.payments = @ + 1, !.failedPayments = @]
    BY <1>4, <2>0, Zenon DEF Webhooks!Pays
  <2>2. load' = [load EXCEPT !.payments = @ + 1, !.failedPayments = @ + 1]
        \/ load' = [load EXCEPT !.payments = @ + 1]
    BY <2>1, <1>0 DEF Figures
  <2>3. load.payments < DayPayments
    BY <1>4 DEF Webhooks!Pays
  <2>4. FiguresFit' /\ load'.payments = load.payments + 1
    BY <2>2, 0 \in Nat, FiguresStay
  <2>5. load.payments \in Nat
    BY <1>0 DEF Figures
  <2> QED
    BY <1>0, <2>3, <2>4, <2>5
<1> QED
  BY <1>1, <1>2, <1>3, <1>4
     DEF Webhooks!Next, Webhooks!vars, Webhooks!recordWebhookEvent, Webhooks!RecordFails,
         Webhooks!Disabled, Webhooks!ParseFails, Webhooks!Parsed, Webhooks!handleMollieEvent,
         Webhooks!HandlingFails, Webhooks!Processed, Webhooks!Crash, Webhooks!Tick

LEMMA WhatFailedShows ==
    ASSUME Webhooks!ObservabilityAssumption, HookInv, RowsAgree, FiguresFit
    PROVE  Webhooks!FailureShows
<1> DEFINE checks == Webhooks!getHealthOverview
           global == Webhooks!computeGlobalStatus(checks)
<1>1. /\ DOMAIN checks = {"queues", "matching", "payments", "webhooks"}
      /\ checks.queues = Webhooks!Above(load.pendingEmails, 120, 500)
      /\ checks.matching = Webhooks!Above(load.stuckBookings, 10, 50)
      /\ checks.webhooks = IF Webhooks!FailedWebhooks1h # {} THEN "degraded" ELSE "ok"
  BY DEF Webhooks!getHealthOverview
<1> HIDE DEF checks
<1>2. global = IF \E c \in DOMAIN checks : checks[c] = "down" THEN "down"
               ELSE IF \E c \in DOMAIN checks : checks[c] = "degraded" THEN "degraded" ELSE "ok"
  BY DEF Webhooks!computeGlobalStatus
<1> HIDE DEF global
<1>3. load.pendingEmails \in Nat /\ load.stuckBookings \in Nat
  BY DEF FiguresFit, Figures
<1>4. ASSUME NEW h \in Hooks, hookLog[h].status = "FAILED",
             hookNow - hookLog[h].receivedAt <= Window1h
      PROVE  checks.webhooks # "ok" /\ global # "ok"
  <2>1. hookLog[h].receivedAt \in Nat /\ hookNow \in Nat /\ Window1h \in Nat
    BY <1>4 DEF HookInv, RowsAgree, RowOf, Webhooks!ObservabilityAssumption
  <2>2. h \in Webhooks!FailedWebhooks1h
    BY <1>4, <2>1 DEF Webhooks!FailedWebhooks1h
  <2>3. checks.webhooks = "degraded"
    BY <1>1, <2>2
  <2> QED
    BY <1>1, <1>2, <2>3
<1>5. global = "ok" => load.pendingEmails <= 120 /\ load.stuckBookings <= 10
  BY <1>1, <1>2, <1>3 DEF Webhooks!Above
<1>6. \A c \in DOMAIN checks : checks[c] = "down" => global = "down"
  BY <1>2
<1> QED
  BY <1>4, <1>5, <1>6 DEF Webhooks!FailureShows, checks, global

LEMMA PagesAlwaysAgree ==
    ASSUME FiguresFit
    PROVE  Webhooks!PagesAgree
<1>1. load.payments \in Nat /\ load.failedPayments \in Nat
  BY DEF FiguresFit, Figures
<1>2. Webhooks!paymentStatus = "degraded" => load.failedPayments > 0
  BY <1>1 DEF Webhooks!paymentStatus
<1>3. Webhooks!CanSend => Webhooks!MailsConfigured
  BY DEF Webhooks!CanSend, Webhooks!MailsConfigured
<1> QED
  BY <1>2, <1>3 DEF Webhooks!PagesAgree, Webhooks!getIntegrationsOverview,
                    Webhooks!getSystemInfo, Webhooks!getHealthOverview

WebhooksInv == HookInv /\ RowsAgree /\ FiguresFit /\ load.payments <= DayPayments

\* WebhooksSound, for all webhooks, numbers and failures: the log of webhooks never claims
\* more than what happened, unless a call failed a webhook is marked as what it was answered,
\* one that failed within the hour shows in the health of the system, marks are kept, and
\* health, integrations and flags agree.
THEOREM WebhooksAreSound == SpecAll => WebhooksSound
<1>0. Webhooks!ObservabilityAssumption
  BY AccountsAssumption
<1>1. InitAll => WebhooksInv
  <2> SUFFICES ASSUME Webhooks!Init PROVE WebhooksInv
    BY PartsBegin
  <2>1. FiguresFit /\ RowsAgree /\ load.payments = 0
    BY DEF Webhooks!Init, Webhooks!NoRow, FiguresFit, Figures, RowsAgree, RowOf
  <2>2. load.payments <= DayPayments
    BY <1>0, <2>1 DEF Webhooks!ObservabilityAssumption
  <2> QED
    BY <1>0, <2>1, <2>2, HookInvAtFirst DEF WebhooksInv
<1>2. WebhooksInv /\ [NextAll]_all => WebhooksInv'
  BY <1>0, OnePartMoves, HookNext, RowsNext, WebhooksCount DEF WebhooksInv
<1>3. WebhooksInv => /\ Webhooks!TypeOK /\ Webhooks!LogTellsTruth /\ Webhooks!AnswerAgreesWithLog
                     /\ Webhooks!FailureShows /\ Webhooks!PagesAgree
  <2> SUFFICES ASSUME WebhooksInv
               PROVE  /\ Webhooks!TypeOK /\ Webhooks!LogTellsTruth /\ Webhooks!AnswerAgreesWithLog
                      /\ Webhooks!FailureShows /\ Webhooks!PagesAgree
    OBVIOUS
  <2>1. Webhooks!TypeOK
    BY DEF Webhooks!TypeOK, WebhooksInv, HookInv, RowsAgree, RowOf, RowStatus, FiguresFit
  <2>2. Webhooks!AnswerAgreesWithLog
    BY DEF Webhooks!AnswerAgreesWithLog, WebhooksInv, RowsAgree, RowOf
  <2> QED
    BY <1>0, <2>1, <2>2, WhatFailedShows, PagesAlwaysAgree DEF WebhooksInv, HookInv
<1>4. WebhooksInv /\ [NextAll]_all => [Webhooks!KeepsMarks]_all
  <2> SUFFICES ASSUME WebhooksInv, [NextAll]_all PROVE Webhooks!KeepsMarks
    BY Zenon
  <2>1. HookInv /\ [Webhooks!Next]_(Webhooks!vars)
    BY OnePartMoves DEF WebhooksInv
  <2>2. CASE UNCHANGED Webhooks!vars
    BY <2>2 DEF Webhooks!vars, Webhooks!KeepsMarks
  <2> QED
    BY <2>1, <2>2, MarksStay
<1> QED
  BY <1>1, <1>2, <1>3, <1>4, PTL DEF SpecAll, WebhooksSound

-----------------------------------------------------------------------------
(***************************************************************************)
(* Sessions.  A live session beyond the newest is one that a request is    *)
(* about to revoke: with the request that is, the limit is inductive.      *)
(***************************************************************************)
LoginOps == {"register", "password", "oauth", "refresh"}
Reasons == {"rotation", "limit", "logout", "operator"}
SessionRow == [user : Emails \cup {None}, parent : Tokens \cup {None}, op : LoginOps \cup {None},
               expiresAt : 0..(SessionTime + Lifetime), revokedBy : Reasons \cup {None}]
Login == {c \in [pc : {"idle", "create", "record", "issue", "limit", "revoke", "rotate"},
                 op : LoginOps \cup {None}, user : Emails \cup {None},
                 token : Tokens \cup {None}, old : SUBSET Tokens] :
            /\ c.pc # "idle" => c.user \in Emails /\ c.op \in LoginOps
            /\ c.pc = "create" => c.op \in {"register", "oauth"}
            /\ c.pc = "record" => c.op \in {"password", "oauth"}
            /\ c.pc = "rotate" => c.op = "refresh" /\ c.token \in Tokens}

LoginTypes ==
    /\ user \in [Emails -> [known : BOOLEAN, password : BOOLEAN, welcomed : 0..1]]
    /\ token \in [Tokens -> SessionRow]
    /\ audit \in [Emails -> [password : Nat, oauth : Nat, failed : Nat]]
    /\ login \in [Workers -> Login]
    /\ sessionNow \in 0..SessionTime /\ died \in SUBSET Emails

\* Finite is the same in every module.
LEMMA SessionsCount ==
    ASSUME NEW S
    PROVE  /\ Sessions!Cardinality(S) = Cardinality(S)
           /\ Sessions!IsFiniteSet(S) <=> IsFiniteSet(S)
<1>1. Sessions!Cardinality(S) = Cardinality(S)
  BY DEF Cardinality, Sessions!Cardinality
<1>2. Sessions!IsFiniteSet(S) <=> IsFiniteSet(S)
  BY Zenon DEF IsFiniteSet, Sessions!IsFiniteSet
<1> QED
  BY <1>1, <1>2

LEMMA SessionConstants ==
    ASSUME Sessions!SessionsAssumption
    PROVE  /\ None \notin Emails /\ None \notin Tokens /\ None \notin Reasons
           /\ Limit \in Nat /\ Lifetime \in Nat /\ SessionTime \in Nat /\ MaxAttempts \in Nat
           /\ IsFiniteSet(Tokens) /\ IsFiniteSet(Workers)
<1>1. None \notin (Emails \cup Tokens) \cup Reasons
  BY Zenon DEF Sessions!SessionsAssumption, Reasons
<1>2. /\ Limit \in Nat \ {0} /\ Lifetime \in Nat \ {0} /\ SessionTime \in Nat /\ MaxAttempts \in Nat
      /\ IsFiniteSet(Tokens) /\ IsFiniteSet(Workers)
  BY SessionsCount, Zenon DEF Sessions!SessionsAssumption
<1> QED
  BY <1>1, <1>2

LEMMA LoginTypesAtFirst == Sessions!SessionsAssumption /\ Sessions!Init => LoginTypes
BY SessionConstants DEF Sessions!Init, Sessions!NoUser, Sessions!NoToken, Sessions!NoAudit,
   Sessions!Idle, LoginTypes, SessionRow, Login

LEMMA IdleIsLogin == Sessions!Idle \in Login
BY DEF Sessions!Idle, Login

\* The request that w serves goes on to another stage.
LEMMA GoesOn ==
    ASSUME LoginTypes, NEW w \in Workers, NEW pc \in {"issue", "limit"},
           login[w].pc # "idle", Sessions!Goto(w, pc)
    PROVE  /\ login' \in [Workers -> Login] /\ \A v \in Workers \ {w} : login'[v] = login[v]
           /\ login'[w].pc = pc /\ login'[w].op = login[w].op /\ login'[w].user = login[w].user
           /\ login'[w].token = login[w].token
<1>1. login[w] \in Login
  BY DEF LoginTypes
<1>2. login' = [login EXCEPT ![w] = [login[w] EXCEPT !.pc = pc]]
  BY DEF LoginTypes, Sessions!Goto
<1>3. [login[w] EXCEPT !.pc = pc] \in Login
  BY <1>1 DEF Login
<1>4. /\ [login[w] EXCEPT !.pc = pc].pc = pc /\ [login[w] EXCEPT !.pc = pc].op = login[w].op
      /\ [login[w] EXCEPT !.pc = pc].user = login[w].user
      /\ [login[w] EXCEPT !.pc = pc].token = login[w].token
  BY <1>1 DEF Login
<1> HIDE DEF Login
<1> QED
  BY <1>2, <1>3, <1>4 DEF LoginTypes

\* What a request may be when it starts.
Begun(pc, op, t) ==
    /\ op \in LoginOps /\ t \in Tokens \cup {None} /\ pc \in {"create", "record", "issue", "rotate"}
    /\ pc = "create" => op \in {"register", "oauth"}
    /\ pc = "record" => op \in {"password", "oauth"}
    /\ pc = "rotate" => op = "refresh" /\ t \in Tokens

LEMMA Starts ==
    ASSUME LoginTypes, NEW w \in Workers, NEW e \in Emails, NEW op, NEW t, NEW pc, Begun(pc, op, t),
           Sessions!Start(w, op, e, t, pc)
    PROVE  /\ login' \in [Workers -> Login] /\ \A v \in Workers \ {w} : login'[v] = login[v]
           /\ login'[w] = [pc |-> pc, op |-> op, user |-> e, token |-> t, old |-> {}]
BY DEF LoginTypes, Login, Sessions!Start, Sessions!Idle, Begun

LEMMA RevokedRows ==
    ASSUME LoginTypes, NEW S, NEW by \in Reasons
    PROVE  Sessions!Revoked(S, by) \in [Tokens -> SessionRow]
BY DEF LoginTypes, Sessions!Revoked, SessionRow

LEMMA AuditStays ==
    ASSUME LoginTypes, NEW e \in Emails, NEW what \in {"password", "oauth", "failed"},
           Sessions!recordLoginAttempt(e, what)
    PROVE  audit' \in [Emails -> [password : Nat, oauth : Nat, failed : Nat]]
<1>1. audit[e][what] \in Nat
  BY DEF LoginTypes
<1>2. [audit[e] EXCEPT ![what] = IF @ < MaxAttempts THEN @ + 1 ELSE @]
        \in [password : Nat, oauth : Nat, failed : Nat]
  BY <1>1 DEF LoginTypes
<1> QED
  BY <1>2 DEF LoginTypes, Sessions!recordLoginAttempt

\* A request is answered, goes on to its record, or waits for its revocations.
LEMMA Ends ==
    ASSUME LoginTypes, NEW w \in Workers, Sessions!Done(w)
    PROVE  /\ login' \in [Workers -> Login] /\ \A v \in Workers \ {w} : login'[v] = login[v]
           /\ login'[w] = Sessions!Idle
BY IdleIsLogin DEF LoginTypes, Sessions!Done

LEMMA KeepsOn ==
    ASSUME LoginTypes, NEW w \in Workers, NEW pc \in {"record", "revoke"}, NEW old \in SUBSET Tokens,
           login[w].pc # "idle", pc = "record" => login[w].op = "oauth",
           login' = [login EXCEPT ![w].pc = pc, ![w].old = old]
    PROVE  /\ login' \in [Workers -> Login] /\ \A v \in Workers \ {w} : login'[v] = login[v]
           /\ login'[w].pc = pc /\ login'[w].old = old /\ login'[w].op = login[w].op
           /\ login'[w].user = login[w].user
<1> DEFINE c == [login[w] EXCEPT !.pc = pc]
           d == [c EXCEPT !.old = old]
<1>1. login[w] \in Login
  BY DEF LoginTypes
<1>2. login' = [login EXCEPT ![w] = d]
  BY DEF LoginTypes
<1>3. c \in Login
  BY <1>1 DEF Login
<1>4. d \in Login
  BY <1>3 DEF Login
<1>5. d.pc = pc /\ d.old = old /\ d.op = login[w].op /\ d.user = login[w].user
  BY <1>1 DEF Login
<1> HIDE DEF Login, c, d
<1> QED
  BY <1>2, <1>4, <1>5 DEF LoginTypes

LEMMA Answers ==
    ASSUME LoginTypes, NEW w \in Workers, login[w].pc # "idle", Sessions!Answer(w)
    PROVE  /\ login' \in [Workers -> Login] /\ \A v \in Workers \ {w} : login'[v] = login[v]
           /\ \/ login'[w] = Sessions!Idle /\ login[w].op # "oauth"
              \/ /\ login'[w].pc = "record" /\ login'[w].op = "oauth" /\ login[w].op = "oauth"
                 /\ login'[w].user = login[w].user
<1>1. CASE login[w].op = "oauth"
  <2>1. login' = [login EXCEPT ![w].pc = "record", ![w].old = {}]
    BY <1>1 DEF Sessions!Answer, Sessions!AfterIssue
  <2>2. /\ login' \in [Workers -> Login] /\ \A v \in Workers \ {w} : login'[v] = login[v]
        /\ login'[w].pc = "record" /\ login'[w].op = login[w].op /\ login'[w].user = login[w].user
    <3>1. "record" \in {"record", "revoke"} /\ {} \in SUBSET Tokens
      OBVIOUS
    <3> QED
      BY <1>1, <2>1, <3>1, KeepsOn, Zenon
  <2> QED
    BY <1>1, <2>2
<1>2. CASE login[w].op # "oauth"
  <2>1. Sessions!Done(w)
    BY <1>2 DEF Sessions!Answer, Sessions!AfterIssue
  <2> QED
    BY <1>2, <2>1, Ends
<1> QED
  BY <1>1, <1>2

LEMMA LoginTypesStay ==
    ASSUME Sessions!SessionsAssumption, LoginTypes, Sessions!Next
    PROVE  LoginTypes'
<1>1. ASSUME NEW w \in Workers, Sessions!create(w)
      PROVE  LoginTypes'
  <2>1. login[w].user \in Emails
    BY <1>1 DEF Sessions!create, LoginTypes, Login
  <2>2. login' \in [Workers -> Login]
    BY <1>1, Ends, GoesOn DEF Sessions!create
  <2>3. audit' \in [Emails -> [password : Nat, oauth : Nat, failed : Nat]]
    BY <1>1, <2>1, AuditStays DEF Sessions!create, LoginTypes
  <2>4. user' \in [Emails -> [known : BOOLEAN, password : BOOLEAN, welcomed : 0..1]]
    <3>1. CASE UNCHANGED user
      BY <3>1 DEF LoginTypes
    <3>2. ASSUME NEW client \in BOOLEAN,
                 user' = [user EXCEPT ![login[w].user] =
                   [known |-> TRUE, password |-> login[w].op = "register",
                    welcomed |-> IF client THEN 1 ELSE 0]]
          PROVE  user' \in [Emails -> [known : BOOLEAN, password : BOOLEAN, welcomed : 0..1]]
      <4>1. [known |-> TRUE, password |-> login[w].op = "register",
             welcomed |-> IF client THEN 1 ELSE 0] \in [known : BOOLEAN, password : BOOLEAN, welcomed : 0..1]
        OBVIOUS
      <4> QED
        BY <3>2, <4>1, Zenon DEF LoginTypes
    <3> QED
      BY <1>1, <3>1, <3>2 DEF Sessions!create
  <2> QED
    BY <1>1, <2>2, <2>3, <2>4 DEF Sessions!create, LoginTypes
<1>2. ASSUME NEW w \in Workers, Sessions!LoginRecord(w) \/ Sessions!OAuthRecord(w)
      PROVE  LoginTypes'
  <2>1. login[w].user \in Emails
    BY <1>2 DEF Sessions!LoginRecord, Sessions!OAuthRecord, LoginTypes, Login
  <2>2. login' \in [Workers -> Login]
    BY <1>2, Ends, GoesOn DEF Sessions!LoginRecord, Sessions!OAuthRecord
  <2>3. audit' \in [Emails -> [password : Nat, oauth : Nat, failed : Nat]]
    BY <1>2, <2>1, AuditStays DEF Sessions!LoginRecord, Sessions!OAuthRecord
  <2> QED
    BY <1>2, <2>2, <2>3 DEF Sessions!LoginRecord, Sessions!OAuthRecord, LoginTypes
<1>3. ASSUME NEW w \in Workers, Sessions!IssueToken(w)
      PROVE  LoginTypes'
  <2>1. login[w] \in Login /\ login[w].pc # "idle" /\ login[w].user \in Emails
    BY <1>3 DEF Sessions!IssueToken, LoginTypes, Login
  <2>2. login' \in [Workers -> Login]
    BY <1>3, <2>1, GoesOn DEF Sessions!IssueToken
  <2>3. sessionNow + Lifetime \in 0..(SessionTime + Lifetime)
    BY SessionConstants DEF LoginTypes
  <2>4. [user |-> login[w].user, parent |-> login[w].token, op |-> login[w].op,
         expiresAt |-> sessionNow + Lifetime, revokedBy |-> None] \in SessionRow
    BY <2>1, <2>3 DEF Login, SessionRow
  <2> HIDE DEF SessionRow
  <2> QED
    BY <1>3, <2>2, <2>4 DEF Sessions!IssueToken, LoginTypes
<1>4. ASSUME NEW w \in Workers, Sessions!enforceLimit(w)
      PROVE  LoginTypes'
  <2>1. login[w].user \in Emails /\ login[w].pc # "idle"
    BY <1>4 DEF Sessions!enforceLimit, LoginTypes, Login
  <2>2. Sessions!LiveOf(login[w].user) \ Sessions!Newest(login[w].user, Limit) \in SUBSET Tokens
    BY DEF Sessions!LiveOf
  <2>3. login' \in [Workers -> Login]
    BY <1>4, <2>1, <2>2, Answers, KeepsOn DEF Sessions!enforceLimit
  <2> QED
    BY <1>4, <2>3 DEF Sessions!enforceLimit, LoginTypes
<1>5. ASSUME NEW w \in Workers, Sessions!EnforceWrite(w)
      PROVE  LoginTypes'
  BY <1>5, Answers, RevokedRows DEF Sessions!EnforceWrite, LoginTypes, Reasons
<1>6. ASSUME NEW w \in Workers, Sessions!RefreshRotate(w)
      PROVE  LoginTypes'
  BY <1>6, GoesOn, RevokedRows DEF Sessions!RefreshRotate, LoginTypes, Reasons
<1>7. ASSUME NEW w \in Workers, NEW e \in Emails,
             Sessions!register(w, e) \/ Sessions!login(w, e) \/ Sessions!handleOAuthLogin(w, e)
      PROVE  LoginTypes'
  BY <1>7, Starts
     DEF Sessions!register, Sessions!login, Sessions!handleOAuthLogin, LoginTypes, LoginOps, Begun
<1>8. ASSUME NEW w \in Workers, NEW t \in Tokens, Sessions!refresh(w, t)
      PROVE  LoginTypes'
  <2>1. token[t].user \in Emails
    BY <1>8 DEF Sessions!refresh, Sessions!validate, Sessions!Live, Sessions!Known, LoginTypes, SessionRow
  <2> QED
    BY <1>8, <2>1, Starts DEF Sessions!refresh, LoginTypes, LoginOps, Begun
<1>9. ASSUME NEW e \in Emails, Sessions!LoginFails(e)
      PROVE  LoginTypes'
  BY <1>9, AuditStays DEF Sessions!LoginFails, LoginTypes
<1>10. ASSUME NEW t \in Tokens, Sessions!logout(t) \/ Sessions!revokeSession(t)
       PROVE  LoginTypes'
  BY <1>10, RevokedRows DEF Sessions!logout, Sessions!revokeSession, LoginTypes, Reasons
<1>11. CASE Sessions!Tick
  BY <1>11, SessionConstants DEF Sessions!Tick, LoginTypes
<1>12. ASSUME NEW w \in Workers, Sessions!Die(w)
       PROVE  LoginTypes'
  <2>1. login[w].pc \in {"limit", "revoke"} => login[w].user \in Emails
    BY DEF LoginTypes, Login
  <2> QED
    BY <1>12, <2>1, Ends DEF Sessions!Die, LoginTypes
<1> QED
  BY <1>1, <1>2, <1>3, <1>4, <1>5, <1>6, <1>7, <1>8, <1>9, <1>10, <1>11, <1>12
     DEF Sessions!Next, Sessions!Step, Sessions!Arrive, Sessions!Others

\* The rows are the sessions there are, and whoever a request logs in is known.
Issued == {t \in Tokens : Sessions!Known(t)}
SessionsKept ==
    /\ rows \in Seq(Issued)
    /\ \A i, j \in DOMAIN rows : rows[i] = rows[j] => i = j
    /\ Len(rows) = Cardinality(Issued)
    /\ \A t \in Issued : user[token[t].user].known
    /\ \A w \in Workers : login[w].pc \notin {"idle", "create"} => user[login[w].user].known

\* But for an issue, a step leaves the owners of the sessions and their order alone.
SameOwners ==
    /\ rows' = rows
    /\ \A t \in Tokens : /\ token'[t].user = token[t].user /\ token'[t].parent = token[t].parent
                         /\ token'[t].op = token[t].op
                         /\ token'[t].revokedBy = None => token[t].revokedBy = None
                         /\ token[t].revokedBy # None => token'[t].revokedBy = token[t].revokedBy

LEMMA RevokedKeepsOwners ==
    ASSUME Sessions!SessionsAssumption, LoginTypes, NEW S, NEW by \in Reasons,
           rows' = rows, token' = Sessions!Revoked(S, by)
    PROVE  /\ SameOwners
           /\ \A t \in Tokens : t \in S => token'[t].revokedBy # None
           /\ \A t \in Tokens : token[t].revokedBy = None /\ t \in S => token'[t].revokedBy = by
<1>1. by # None
  BY SessionConstants
<1>2. ASSUME NEW t \in Tokens
      PROVE  /\ token'[t].user = token[t].user /\ token'[t].parent = token[t].parent
             /\ token'[t].op = token[t].op
             /\ token'[t].revokedBy = IF t \in S /\ token[t].revokedBy = None THEN by
                                      ELSE token[t].revokedBy
  <2>1. token[t] \in SessionRow
    BY DEF LoginTypes
  <2>2. token'[t] = IF t \in S /\ token[t].revokedBy = None
                      THEN [token[t] EXCEPT !.revokedBy = by] ELSE token[t]
    BY DEF Sessions!Revoked
  <2> QED
    BY <2>1, <2>2 DEF SessionRow
<1> QED
  BY <1>1, <1>2 DEF SameOwners

LEMMA OwnersStay ==
    ASSUME Sessions!SessionsAssumption, LoginTypes, Sessions!Next,
           \A w \in Workers : ~Sessions!IssueToken(w)
    PROVE  SameOwners
<1>1. CASE UNCHANGED <<token, rows>>
  BY <1>1 DEF SameOwners
<1>2. ASSUME NEW S, NEW by \in Reasons, rows' = rows, token' = Sessions!Revoked(S, by)
      PROVE  SameOwners
  BY <1>2, RevokedKeepsOwners
<1>3. "limit" \in Reasons /\ "rotation" \in Reasons /\ "logout" \in Reasons /\ "operator" \in Reasons
  BY DEF Reasons
<1> QED
  BY <1>1, <1>2, <1>3
     DEF Sessions!Next, Sessions!Step, Sessions!Arrive, Sessions!Others, Sessions!create,
         Sessions!LoginRecord, Sessions!OAuthRecord, Sessions!enforceLimit, Sessions!EnforceWrite,
         Sessions!RefreshRotate, Sessions!register, Sessions!login, Sessions!handleOAuthLogin,
         Sessions!refresh, Sessions!LoginFails, Sessions!logout, Sessions!revokeSession,
         Sessions!Tick, Sessions!Die

LEMMA NewestStay ==
    ASSUME SameOwners, rows \in Seq(Tokens)
    PROVE  /\ Issued' = Issued
           /\ \A e : Sessions!Newest(e, Limit)' = Sessions!Newest(e, Limit)
<1>1. Issued' = Issued
  BY DEF SameOwners, Issued, Sessions!Known
<1>2. \A i \in DOMAIN rows : rows[i] \in Tokens /\ token'[rows[i]].user = token[rows[i]].user
  BY DEF SameOwners
<1>3. \A i \in DOMAIN rows : Sessions!RowsSince(i)' = Sessions!RowsSince(i)
  BY <1>2 DEF SameOwners, Sessions!RowsSince
<1>4. ASSUME NEW e
      PROVE  Sessions!Newest(e, Limit)' = Sessions!Newest(e, Limit)
  BY <1>2, <1>3 DEF SameOwners, Sessions!Newest
<1> QED
  BY <1>1, <1>4

\* An issue: a row of its own behind the others.
LEMMA IssueAppends ==
    ASSUME Sessions!SessionsAssumption, LoginTypes, SessionsKept, NEW w \in Workers, Sessions!IssueToken(w)
    PROVE  \E t \in Tokens \ Issued :
             /\ rows' = Append(rows, t) /\ Issued' = Issued \cup {t}
             /\ token' = [token EXCEPT ![t] =
                   [user |-> login[w].user, parent |-> login[w].token, op |-> login[w].op,
                    expiresAt |-> sessionNow + Lifetime, revokedBy |-> None]]
             /\ token'[t].user = login[w].user /\ token'[t].op = login[w].op
             /\ token'[t].parent = login[w].token /\ token'[t].revokedBy = None
             /\ \A u \in Tokens \ {t} : token'[u] = token[u]
             /\ login[w].user \in Emails
<1>1. PICK t \in Tokens :
        /\ ~Sessions!Known(t) /\ rows' = Append(rows, t)
        /\ token' = [token EXCEPT ![t] =
             [user |-> login[w].user, parent |-> login[w].token, op |-> login[w].op,
              expiresAt |-> sessionNow + Lifetime, revokedBy |-> None]]
  BY DEF Sessions!IssueToken
<1>2. login[w].user \in Emails /\ login[w].user # None
  BY SessionConstants DEF Sessions!IssueToken, LoginTypes, Login
<1>3. /\ token'[t].user = login[w].user /\ token'[t].op = login[w].op
      /\ token'[t].parent = login[w].token /\ token'[t].revokedBy = None
      /\ \A u \in Tokens \ {t} : token'[u] = token[u]
  BY <1>1 DEF LoginTypes
<1>4. Issued' = Issued \cup {t}
  BY <1>2, <1>3 DEF Issued, Sessions!Known
<1> QED
  BY <1>1, <1>2, <1>3, <1>4 DEF Issued

LEMMA SessionsStayKept ==
    ASSUME Sessions!SessionsAssumption, LoginTypes, SessionsKept, Sessions!Next
    PROVE  SessionsKept'
<1>1. \A e \in Emails : user[e].known => user'[e].known
  BY DEF Sessions!Next, Sessions!Step, Sessions!Arrive, Sessions!Others, Sessions!create,
         Sessions!LoginRecord, Sessions!OAuthRecord, Sessions!enforceLimit, Sessions!EnforceWrite,
         Sessions!RefreshRotate, Sessions!register, Sessions!login, Sessions!handleOAuthLogin,
         Sessions!refresh, Sessions!LoginFails, Sessions!logout, Sessions!revokeSession,
         Sessions!Tick, Sessions!Die, Sessions!IssueToken, LoginTypes
<1>2. rows \in Seq(Tokens)
  BY DEF SessionsKept, Issued
<1>3. \A w \in Workers : login'[w].pc \notin {"idle", "create"} => user'[login'[w].user].known
  <2> DEFINE Fine == \A w \in Workers : login'[w].pc \notin {"idle", "create"} => user'[login'[w].user].known
  <2>0. \A w \in Workers : login[w].pc # "idle" => login[w].user \in Emails
    BY DEF LoginTypes, Login
  <2>1. ASSUME NEW w \in Workers, \A v \in Workers \ {w} : login'[v] = login[v],
               login'[w].pc \notin {"idle", "create"} => user'[login'[w].user].known
        PROVE  Fine
    BY <1>1, <2>0, <2>1 DEF SessionsKept
  <2>2. Sessions!Idle.pc = "idle"
    BY DEF Sessions!Idle
  <2>3. ASSUME NEW w \in Workers, Sessions!create(w)
        PROVE  Fine
    <3>1. CASE Sessions!Done(w)
      BY <2>1, <2>2, <3>1, Ends
    <3>2. CASE Sessions!Goto(w, "issue") /\ user'[login[w].user].known
      <4>1. login[w].pc # "idle"
        BY <2>3 DEF Sessions!create
      <4>2. /\ \A v \in Workers \ {w} : login'[v] = login[v]
            /\ login'[w].user = login[w].user
        BY <3>2, <4>1, GoesOn
      <4> QED
        BY <2>1, <3>2, <4>2
    <3>3. login[w].user \in Emails
      BY <2>0, <2>3 DEF Sessions!create
    <3>4. ASSUME NEW p, NEW n,
                 user' = [user EXCEPT ![login[w].user] = [known |-> TRUE, password |-> p, welcomed |-> n]]
          PROVE  user'[login[w].user].known
      BY <3>3, <3>4 DEF LoginTypes
    <3>5. ASSUME NEW client \in BOOLEAN,
                 user' = [user EXCEPT ![login[w].user] =
                   [known |-> TRUE, password |-> login[w].op = "register",
                    welcomed |-> IF client THEN 1 ELSE 0]]
          PROVE  user'[login[w].user].known
      BY <3>4, <3>5, Zenon
    <3>6. Sessions!Done(w) \/ (Sessions!Goto(w, "issue") /\ user'[login[w].user].known)
      <4> HIDE DEF Fine
      <4> QED
        BY <2>3, <3>5 DEF Sessions!create
    <3> QED
      BY <3>1, <3>2, <3>6
  <2>4. ASSUME NEW w \in Workers, login[w].pc \notin {"idle", "create"},
               \/ Sessions!Goto(w, "issue") \/ Sessions!Goto(w, "limit")
               \/ Sessions!Done(w) \/ Sessions!Answer(w)
               \/ \E old \in SUBSET Tokens : login' = [login EXCEPT ![w].pc = "revoke", ![w].old = old]
        PROVE  Fine
    <3>1. /\ \A v \in Workers \ {w} : login'[v] = login[v]
          /\ login'[w].user = login[w].user \/ login'[w] = Sessions!Idle
      BY <2>4, GoesOn, Ends, Answers, KeepsOn
    <3> QED
      BY <1>1, <2>0, <2>1, <2>2, <2>4, <3>1 DEF SessionsKept
  <2>5. ASSUME NEW w \in Workers, NEW e \in Emails, NEW op, NEW t, NEW pc, Begun(pc, op, t),
               pc # "create" => user[e].known, Sessions!Start(w, op, e, t, pc)
        PROVE  Fine
    <3>1. /\ \A v \in Workers \ {w} : login'[v] = login[v]
          /\ login'[w] = [pc |-> pc, op |-> op, user |-> e, token |-> t, old |-> {}]
      BY <2>5, Starts
    <3> QED
      BY <1>1, <2>1, <2>5, <3>1
  <2>6. ASSUME UNCHANGED login
        PROVE  Fine
    BY <1>1, <2>0, <2>6 DEF SessionsKept
  <2>7. ASSUME NEW w \in Workers, Sessions!Die(w)
        PROVE  Fine
    BY <2>1, <2>2, <2>7, Ends DEF Sessions!Die
  <2>8. ASSUME NEW w \in Workers, Sessions!Step(w)
        PROVE  Fine
    <3>1. Sessions!LiveOf(login[w].user) \ Sessions!Newest(login[w].user, Limit) \in SUBSET Tokens
      BY DEF Sessions!LiveOf
    <3> QED
      BY <2>3, <2>4, <2>8, <3>1
         DEF Sessions!Step, Sessions!LoginRecord, Sessions!OAuthRecord, Sessions!IssueToken,
             Sessions!enforceLimit, Sessions!EnforceWrite, Sessions!RefreshRotate
  <2>9. ASSUME NEW w \in Workers, Sessions!Arrive(w)
        PROVE  Fine
    <3>1. ASSUME NEW e \in Emails,
                 Sessions!register(w, e) \/ Sessions!login(w, e) \/ Sessions!handleOAuthLogin(w, e)
          PROVE  Fine
      BY <2>5, <3>1
         DEF Sessions!register, Sessions!login, Sessions!handleOAuthLogin, Sessions!findByEmail,
             LoginOps, Begun
    <3>2. ASSUME NEW t \in Tokens, Sessions!refresh(w, t)
          PROVE  Fine
      <4>1. t \in Issued /\ token[t].user \in Emails
        BY <3>2 DEF Sessions!refresh, Sessions!validate, Sessions!Live, Sessions!Known, LoginTypes,
                    SessionRow, Issued
      <4> QED
        BY <2>5, <3>2, <4>1 DEF Sessions!refresh, LoginOps, SessionsKept, Begun
    <3> QED
      BY <2>9, <3>1, <3>2 DEF Sessions!Arrive
  <2> HIDE DEF Fine
  <2>10. Sessions!Others => UNCHANGED login
    BY DEF Sessions!Others, Sessions!LoginFails, Sessions!logout, Sessions!revokeSession, Sessions!Tick
  <2>11. Fine
    BY <2>6, <2>7, <2>8, <2>9, <2>10 DEF Sessions!Next
  <2> QED
    BY <2>11 DEF Fine
<1>4. CASE \A w \in Workers : ~Sessions!IssueToken(w)
  <2>1. SameOwners /\ Issued' = Issued
    BY <1>2, <1>4, OwnersStay, NewestStay
  <2>2. \A t \in Issued : token[t].user \in Emails
    BY DEF Issued, Sessions!Known, LoginTypes, SessionRow
  <2>3. \A t \in Issued' : user'[token'[t].user].known
    BY <1>1, <2>1, <2>2 DEF SessionsKept, SameOwners, Issued
  <2> QED
    BY <1>3, <2>1, <2>3 DEF SessionsKept, SameOwners
<1>5. ASSUME NEW w \in Workers, Sessions!IssueToken(w)
      PROVE  SessionsKept'
  <2>1. PICK t \in Tokens \ Issued :
          /\ rows' = Append(rows, t) /\ Issued' = Issued \cup {t}
          /\ token'[t].user = login[w].user
          /\ \A u \in Tokens \ {t} : token'[u] = token[u]
          /\ login[w].user \in Emails
    BY <1>5, IssueAppends
  <2>2. rows' \in Seq(Issued') /\ Len(rows') = Len(rows) + 1
    BY <2>1 DEF SessionsKept
  <2>3. \A i, j \in DOMAIN rows' : rows'[i] = rows'[j] => i = j
    BY <2>1 DEF SessionsKept
  <2>4. IsFiniteSet(Issued)
    BY SessionConstants, FS_Subset DEF Issued
  <2>5. Cardinality(Issued') = Cardinality(Issued) + 1
    BY <2>1, <2>4, FS_AddElement
  <2>6. user[login[w].user].known
    BY <1>5 DEF Sessions!IssueToken, SessionsKept
  <2>7. \A u \in Issued : token[u].user \in Emails
    BY DEF Issued, Sessions!Known, LoginTypes, SessionRow
  <2>8. \A u \in Issued' : user'[token'[u].user].known
    BY <1>1, <2>1, <2>6, <2>7 DEF SessionsKept, Issued
  <2> QED
    BY <1>3, <2>2, <2>3, <2>5, <2>8 DEF SessionsKept
<1> QED
  BY <1>4, <1>5

\* A request begins at an idle worker.
As(w, pc, op, e, t) ==
    /\ Begun(pc, op, t) /\ login'[w] = [pc |-> pc, op |-> op, user |-> e, token |-> t, old |-> {}]
    /\ (pc = "issue" => op = "oauth") /\ (pc = "record" => op = "password")
    /\ pc = "rotate" => Sessions!Live(t) /\ e = token[t].user
    /\ pc # "rotate" => t = None

LEMMA SessionArrives ==
    ASSUME LoginTypes, NEW w \in Workers, Sessions!Arrive(w)
    PROVE  /\ UNCHANGED <<user, token, rows, audit, sessionNow, died>>
           /\ login[w].pc = "idle" /\ \A v \in Workers \ {w} : login'[v] = login[v]
           /\ \E pc, op, e, t : As(w, pc, op, e, t)
<1>1. Sessions!Idle.pc = "idle"
  BY DEF Sessions!Idle
<1>2. ASSUME NEW e \in Emails, NEW op, NEW t, NEW pc, Begun(pc, op, t), login[w] = Sessions!Idle,
             pc = "issue" => op = "oauth", pc = "record" => op = "password",
             Sessions!Start(w, op, e, t, pc),
             pc = "rotate" => Sessions!Live(t) /\ e = token[t].user, pc # "rotate" => t = None
      PROVE  /\ login[w].pc = "idle" /\ \A v \in Workers \ {w} : login'[v] = login[v]
             /\ As(w, pc, op, e, t)
  <2>1. /\ \A v \in Workers \ {w} : login'[v] = login[v]
        /\ login'[w] = [pc |-> pc, op |-> op, user |-> e, token |-> t, old |-> {}]
    BY <1>2, Starts
  <2>2. As(w, pc, op, e, t)
    BY <1>2, <2>1 DEF As
  <2> QED
    BY <1>1, <1>2, <2>1, <2>2
<1>3. ASSUME NEW e \in Emails,
             Sessions!register(w, e) \/ Sessions!login(w, e) \/ Sessions!handleOAuthLogin(w, e)
      PROVE  \E op, pc : /\ Begun(pc, op, None) /\ login[w] = Sessions!Idle
                         /\ (pc = "issue" => op = "oauth") /\ (pc = "record" => op = "password")
                         /\ pc # "rotate" /\ Sessions!Start(w, op, e, None, pc)
                         /\ UNCHANGED <<user, token, rows, audit, sessionNow, died>>
  BY <1>3 DEF Sessions!register, Sessions!login, Sessions!handleOAuthLogin, Begun, LoginOps
<1>4. ASSUME NEW t \in Tokens, Sessions!refresh(w, t)
      PROVE  /\ Begun("rotate", "refresh", t) /\ login[w] = Sessions!Idle /\ Sessions!Live(t)
             /\ token[t].user \in Emails /\ Sessions!Start(w, "refresh", token[t].user, t, "rotate")
             /\ UNCHANGED <<user, token, rows, audit, sessionNow, died>>
  BY <1>4 DEF Sessions!refresh, Sessions!validate, Sessions!Live, Sessions!Known, LoginTypes,
              SessionRow, Begun, LoginOps
<1>5. CASE \E e \in Emails :
        Sessions!register(w, e) \/ Sessions!login(w, e) \/ Sessions!handleOAuthLogin(w, e)
  <2>1. PICK e \in Emails : \E op, pc :
          /\ Begun(pc, op, None) /\ login[w] = Sessions!Idle
          /\ (pc = "issue" => op = "oauth") /\ (pc = "record" => op = "password")
          /\ pc # "rotate" /\ Sessions!Start(w, op, e, None, pc)
          /\ UNCHANGED <<user, token, rows, audit, sessionNow, died>>
    BY <1>3, <1>5
  <2>2. PICK op, pc :
          /\ Begun(pc, op, None) /\ login[w] = Sessions!Idle
          /\ (pc = "issue" => op = "oauth") /\ (pc = "record" => op = "password")
          /\ pc # "rotate" /\ Sessions!Start(w, op, e, None, pc)
          /\ UNCHANGED <<user, token, rows, audit, sessionNow, died>>
    BY <2>1
  <2>3. /\ login[w].pc = "idle" /\ \A v \in Workers \ {w} : login'[v] = login[v]
        /\ As(w, pc, op, e, None)
    BY <1>2, <2>2
  <2> QED
    BY <2>2, <2>3
<1>6. CASE \E t \in Tokens : Sessions!refresh(w, t)
  <2>1. PICK t \in Tokens : Sessions!refresh(w, t)
    BY <1>6
  <2>2. /\ Begun("rotate", "refresh", t) /\ login[w] = Sessions!Idle /\ Sessions!Live(t)
        /\ token[t].user \in Emails /\ Sessions!Start(w, "refresh", token[t].user, t, "rotate")
        /\ UNCHANGED <<user, token, rows, audit, sessionNow, died>>
    BY <1>4, <2>1
  <2>3. /\ login[w].pc = "idle" /\ \A v \in Workers \ {w} : login'[v] = login[v]
        /\ As(w, "rotate", "refresh", token[t].user, t)
    BY <1>2, <2>2
  <2> QED
    BY <2>2, <2>3
<1> QED
  BY <1>5, <1>6 DEF Sessions!Arrive

\* What keeps the limit: a live session beyond the newest is about to be revoked.
Covers(w, e, t) ==
    /\ login[w].user = e
    /\ login[w].pc = "limit" \/ (login[w].pc = "revoke" /\ t \in login[w].old)
LimitComing ==
    \A e \in Emails \ died : \A t \in Sessions!LiveOf(e) \ Sessions!Newest(e, Limit) :
        \E w \in Workers : Covers(w, e, t)

LEMMA FewerLive ==
    ASSUME SameOwners, NEW e \in Emails
    PROVE  Sessions!LiveOf(e)' \subseteq Sessions!LiveOf(e)
BY DEF SameOwners, Sessions!LiveOf, Sessions!Live, Sessions!Known

LEMMA LimitComingStays ==
    ASSUME Sessions!SessionsAssumption, LoginTypes, SessionsKept, LimitComing, Sessions!Next
    PROVE  LimitComing'
<1>1. rows \in Seq(Tokens)
  BY DEF SessionsKept, Issued
<1>2. \A w \in Workers : login[w].pc # "idle" => login[w].user \in Emails
  BY DEF LoginTypes, Login
<1>3. ASSUME SameOwners, died \subseteq died',
             \A w \in Workers, e \in Emails \ died', t \in Tokens : Covers(w, e, t) => Covers(w, e, t)'
      PROVE  LimitComing'
  <2> SUFFICES ASSUME NEW e \in Emails \ died',
                      NEW t \in Sessions!LiveOf(e)' \ Sessions!Newest(e, Limit)'
               PROVE  \E w \in Workers : Covers(w, e, t)'
    BY DEF LimitComing
  <2>1. e \in Emails \ died /\ t \in Sessions!LiveOf(e) \ Sessions!Newest(e, Limit) /\ t \in Tokens
    BY <1>1, <1>3, FewerLive, NewestStay DEF Sessions!LiveOf
  <2> QED
    BY <1>3, <2>1 DEF LimitComing
<1>4. ASSUME NEW w \in Workers, SameOwners, died' = died, login[w].pc \notin {"limit", "revoke"},
             \A v \in Workers \ {w} : login'[v] = login[v]
      PROVE  LimitComing'
  <2>1. \A v \in Workers, e \in Emails \ died', t \in Tokens : Covers(v, e, t) => Covers(v, e, t)'
    BY <1>4 DEF Covers
  <2> QED
    BY <1>3, <1>4, <2>1
<1>5. ASSUME NEW w \in Workers, Sessions!IssueToken(w)
      PROVE  LimitComing'
  <2> DEFINE f == login[w].user
  <2>1. PICK t \in Tokens \ Issued :
          /\ rows' = Append(rows, t) /\ token'[t].user = f /\ f \in Emails
          /\ \A u \in Tokens \ {t} : token'[u] = token[u]
    BY <1>5, IssueAppends
  <2>2. /\ \A v \in Workers \ {w} : login'[v] = login[v]
        /\ login'[w].user = f /\ login'[w].pc = "limit" /\ login[w].pc = "issue"
    BY <1>5, GoesOn DEF Sessions!IssueToken
  <2>3. \A i \in DOMAIN rows : rows[i] \in Tokens \ {t}
    BY <1>1, <2>1 DEF SessionsKept
  <2>4. /\ DOMAIN rows' = DOMAIN rows \cup {Len(rows) + 1} /\ rows'[Len(rows) + 1] = t
        /\ \A i \in DOMAIN rows : rows'[i] = rows[i] /\ i # Len(rows) + 1
    BY <1>1, <2>1
  <2> HIDE DEF f
  <2>5. ASSUME NEW e \in Emails, e # f
        PROVE  /\ Sessions!LiveOf(e)' = Sessions!LiveOf(e)
               /\ Sessions!Newest(e, Limit)' = Sessions!Newest(e, Limit)
    <3>1. Sessions!LiveOf(e)' = Sessions!LiveOf(e)
      BY <2>1, <2>5, SessionConstants DEF Sessions!LiveOf, Sessions!Live, Sessions!Known, Issued
    <3>2. {k \in DOMAIN rows' : token'[rows'[k]].user = e} = {k \in DOMAIN rows : token[rows[k]].user = e}
      BY <2>1, <2>3, <2>4, <2>5
    <3>3. ASSUME NEW i \in DOMAIN rows, token[rows[i]].user = e
          PROVE  Sessions!RowsSince(i)' = Sessions!RowsSince(i)
      BY <2>1, <2>3, <2>4, <2>5, <3>3 DEF Sessions!RowsSince
    <3>4. Sessions!Newest(e, Limit)' = Sessions!Newest(e, Limit)
      BY <2>1, <2>3, <2>4, <2>5, <3>2, <3>3 DEF Sessions!Newest
    <3> QED
      BY <3>1, <3>4
  <2> SUFFICES ASSUME NEW e \in Emails \ died',
                      NEW u \in Sessions!LiveOf(e)' \ Sessions!Newest(e, Limit)'
               PROVE  \E v \in Workers : Covers(v, e, u)'
    BY DEF LimitComing
  <2>6. CASE e = f
    BY <2>2, <2>6 DEF Covers
  <2>7. CASE e # f
    <3>1. died' = died
      BY <1>5 DEF Sessions!IssueToken
    <3>2. PICK v \in Workers : Covers(v, e, u)
      BY <2>5, <2>7, <3>1 DEF LimitComing
    <3> QED
      BY <2>2, <2>7, <3>2 DEF Covers
  <2> QED
    BY <2>6, <2>7
<1>6. ASSUME NEW w \in Workers, Sessions!enforceLimit(w)
      PROVE  LimitComing'
  <2> DEFINE f == login[w].user
             old == Sessions!LiveOf(f) \ Sessions!Newest(f, Limit)
  <2>1. /\ login[w].pc = "limit" /\ died' = died \ {f} /\ UNCHANGED <<token, rows>>
        /\ \A e : Sessions!LiveOf(e)' = Sessions!LiveOf(e)
        /\ \A e : Sessions!Newest(e, Limit)' = Sessions!Newest(e, Limit)
    BY <1>6 DEF Sessions!enforceLimit, Sessions!LiveOf, Sessions!Newest, Sessions!Live,
                Sessions!Known, Sessions!RowsSince
  <2>2. /\ \A v \in Workers \ {w} : login'[v] = login[v]
        /\ old # {} => login'[w].pc = "revoke" /\ login'[w].old = old /\ login'[w].user = f
    <3>1. old \in SUBSET Tokens
      BY DEF Sessions!LiveOf
    <3> HIDE DEF old
    <3>2. CASE old = {}
      <4>1. Sessions!Answer(w)
        BY <1>6, <3>2 DEF Sessions!enforceLimit, old
      <4> QED
        BY <2>1, <3>2, <4>1, Answers
    <3>3. CASE old # {}
      <4>1. login' = [login EXCEPT ![w].pc = "revoke", ![w].old = old]
        BY <1>6, <3>3 DEF Sessions!enforceLimit, old
      <4>2. "revoke" \in {"record", "revoke"}
        OBVIOUS
      <4> QED
        BY <2>1, <3>1, <4>1, <4>2, KeepsOn
    <3> QED
      BY <3>2, <3>3
  <2> SUFFICES ASSUME NEW e \in Emails \ died', NEW t \in Sessions!LiveOf(e) \ Sessions!Newest(e, Limit)
               PROVE  \E v \in Workers : Covers(v, e, t)'
    BY <2>1 DEF LimitComing
  <2>3. CASE e = f
    BY <2>2, <2>3 DEF Covers
  <2>4. CASE e # f
    <3> HIDE DEF old
    <3>1. PICK v \in Workers : Covers(v, e, t)
      BY <2>1, <2>4 DEF LimitComing
    <3> QED
      BY <2>2, <2>4, <3>1 DEF Covers
  <2> QED
    BY <2>3, <2>4
<1>7. ASSUME NEW w \in Workers, Sessions!EnforceWrite(w)
      PROVE  LimitComing'
  <2>1. /\ token' = Sessions!Revoked(login[w].old, "limit") /\ rows' = rows /\ died' = died
        /\ login[w].pc = "revoke" /\ Sessions!Answer(w) /\ "limit" \in Reasons
    BY <1>7 DEF Sessions!EnforceWrite, Reasons
  <2>2. SameOwners /\ \A t \in Tokens : t \in login[w].old => token'[t].revokedBy # None
    BY <2>1, RevokedKeepsOwners
  <2>3. \A v \in Workers \ {w} : login'[v] = login[v]
    BY <2>1, Answers
  <2> SUFFICES ASSUME NEW e \in Emails \ died',
                      NEW t \in Sessions!LiveOf(e)' \ Sessions!Newest(e, Limit)'
               PROVE  \E v \in Workers : Covers(v, e, t)'
    BY DEF LimitComing
  <2>4. e \in Emails \ died /\ t \in Sessions!LiveOf(e) \ Sessions!Newest(e, Limit) /\ t \in Tokens
    BY <1>1, <2>1, <2>2, FewerLive, NewestStay DEF Sessions!LiveOf
  <2>5. t \notin login[w].old
    BY <2>2, <2>4 DEF Sessions!LiveOf, Sessions!Live
  <2>6. PICK v \in Workers : Covers(v, e, t)
    BY <2>4 DEF LimitComing
  <2> QED
    BY <2>1, <2>3, <2>5, <2>6 DEF Covers
<1>8. ASSUME NEW w \in Workers, Sessions!Die(w)
      PROVE  LimitComing'
  <2>1. SameOwners /\ \A v \in Workers \ {w} : login'[v] = login[v]
    BY <1>8, Ends DEF Sessions!Die, SameOwners
  <2>2. /\ died \subseteq died'
        /\ \A v \in Workers, e \in Emails \ died', t \in Tokens : Covers(v, e, t) => Covers(v, e, t)'
    BY <1>8, <2>1 DEF Sessions!Die, Covers
  <2> QED
    BY <1>3, <2>1, <2>2
<1>9. ASSUME UNCHANGED <<login, died>>, SameOwners
      PROVE  LimitComing'
  BY <1>3, <1>9 DEF Covers
<1>10. CASE \E w \in Workers : Sessions!IssueToken(w)
  BY <1>5, <1>10
<1>11. CASE \A w \in Workers : ~Sessions!IssueToken(w)
  <2>1. SameOwners
    BY <1>11, OwnersStay
  <2>2. ASSUME NEW w \in Workers, Sessions!Step(w)
        PROVE  LimitComing'
    <3>1. CASE Sessions!create(w)
      <4>1. login[w].pc = "create" /\ died' = died /\ (Sessions!Done(w) \/ Sessions!Goto(w, "issue"))
        BY <3>1 DEF Sessions!create
      <4> QED
        BY <1>4, <2>1, <4>1, Ends, GoesOn
    <3>2. CASE Sessions!LoginRecord(w) \/ Sessions!OAuthRecord(w) \/ Sessions!RefreshRotate(w)
      <4>1. /\ login[w].pc \in {"record", "rotate"} /\ died' = died
            /\ Sessions!Done(w) \/ Sessions!Goto(w, "issue")
        BY <3>2 DEF Sessions!LoginRecord, Sessions!OAuthRecord, Sessions!RefreshRotate
      <4> QED
        BY <1>4, <2>1, <4>1, Ends, GoesOn
    <3> QED
      BY <1>6, <1>7, <1>11, <2>2, <3>1, <3>2 DEF Sessions!Step
  <2>3. ASSUME NEW w \in Workers, Sessions!Arrive(w)
        PROVE  LimitComing'
    <3>1. login[w].pc = "idle" /\ died' = died /\ \A v \in Workers \ {w} : login'[v] = login[v]
      BY <2>3, SessionArrives
    <3> QED
      BY <1>4, <2>1, <3>1
  <2>4. CASE Sessions!Others
    BY <1>9, <2>1, <2>4 DEF Sessions!Others, Sessions!LoginFails, Sessions!logout, Sessions!revokeSession,
                            Sessions!Tick
  <2> QED
    BY <1>8, <2>2, <2>3, <2>4 DEF Sessions!Next
<1> QED
  BY <1>10, <1>11

\* An attempt that is recorded and a session not yet issued; a session whose attempt is
\* not recorded yet.
Recorded(e) == {w \in Workers : login[w].pc = "issue" /\ login[w].op = "password" /\ login[w].user = e}
Unrecorded(e) == {w \in Workers : login[w].pc \in {"limit", "revoke", "record"}
                                 /\ login[w].op = "oauth" /\ login[w].user = e}
By(e, op) == {t \in Tokens : token[t].user = e /\ token[t].op = op}
AttemptsKept ==
    \A e \in Emails :
        /\ audit[e].password < MaxAttempts =>
             Cardinality(By(e, "password")) + Cardinality(Recorded(e)) <= audit[e].password
        /\ audit[e].oauth + Cardinality(Unrecorded(e)) <= Cardinality(By(e, "oauth"))

LEMMA AttemptsAreFinite ==
    ASSUME Sessions!SessionsAssumption, NEW e, NEW op
    PROVE  /\ IsFiniteSet(By(e, op)) /\ Cardinality(By(e, op)) \in Nat
           /\ IsFiniteSet(Recorded(e)) /\ Cardinality(Recorded(e)) \in Nat
           /\ IsFiniteSet(Unrecorded(e)) /\ Cardinality(Unrecorded(e)) \in Nat
<1>1. By(e, op) \subseteq Tokens /\ Recorded(e) \subseteq Workers /\ Unrecorded(e) \subseteq Workers
  BY DEF By, Recorded, Unrecorded
<1>2. IsFiniteSet(By(e, op)) /\ IsFiniteSet(Recorded(e)) /\ IsFiniteSet(Unrecorded(e))
  BY <1>1, SessionConstants, FS_Subset
<1> QED
  BY <1>2, FS_CardinalityType

\* How many more, or fewer, a set has after a step.
LEMMA OneMoreAtMost ==
    ASSUME NEW A, NEW B, NEW x, IsFiniteSet(A), B \subseteq A \cup {x}
    PROVE  /\ Cardinality(B) <= Cardinality(A) + 1
           /\ x \notin B => Cardinality(B) <= Cardinality(A)
           /\ x \in A => Cardinality(B) <= Cardinality(A)
           /\ x \in A /\ x \notin B => Cardinality(B) <= Cardinality(A) - 1
           /\ A \subseteq B /\ x \in B /\ x \notin A => Cardinality(B) = Cardinality(A) + 1
<1>1. IsFiniteSet(B) /\ Cardinality(A) \in Nat /\ Cardinality(B) \in Nat
  <2>1. IsFiniteSet(A \cup {x})
    BY FS_AddElement
  <2>2. IsFiniteSet(B)
    BY <2>1, FS_Subset
  <2> QED
    BY <2>2, FS_CardinalityType
<1>2. CASE x \in A
  <2>1. Cardinality(B) <= Cardinality(A)
    BY <1>2, FS_Subset
  <2>2. ASSUME x \notin B
        PROVE  Cardinality(B) <= Cardinality(A) - 1
    <3>1. IsFiniteSet(A \ {x}) /\ Cardinality(A \ {x}) = Cardinality(A) - 1
      BY <1>2, FS_RemoveElement
    <3>2. B \subseteq A \ {x}
      BY <2>2
    <3> QED
      BY <3>1, <3>2, FS_Subset
  <2> QED
    BY <1>1, <1>2, <2>1, <2>2
<1>3. CASE x \notin A
  <2>1. IsFiniteSet(A \cup {x}) /\ Cardinality(A \cup {x}) = Cardinality(A) + 1
    BY <1>3, FS_AddElement
  <2>2. Cardinality(B) <= Cardinality(A) + 1
    BY <2>1, FS_Subset
  <2>3. ASSUME x \notin B
        PROVE  Cardinality(B) <= Cardinality(A)
    <3>1. B \subseteq A
      BY <2>3
    <3> QED
      BY <3>1, FS_Subset
  <2>4. ASSUME A \subseteq B, x \in B
        PROVE  Cardinality(B) = Cardinality(A) + 1
    <3>1. B = A \cup {x}
      BY <2>4
    <3> QED
      BY <2>1, <3>1
  <2> QED
    BY <1>1, <1>3, <2>2, <2>3, <2>4
<1> QED
  BY <1>2, <1>3

LEMMA AttemptsStayKept ==
    ASSUME Sessions!SessionsAssumption, LoginTypes, SessionsKept, AttemptsKept, Sessions!Next
    PROVE  AttemptsKept'
<1>a. \A e \in Emails : audit[e].password \in Nat /\ audit[e].oauth \in Nat
  BY DEF LoginTypes
<1>b. MaxAttempts \in Nat
  BY SessionConstants
<1>s. ASSUME SameOwners, NEW e
      PROVE  /\ Cardinality(By(e, "password")') = Cardinality(By(e, "password"))
             /\ Cardinality(By(e, "oauth")') = Cardinality(By(e, "oauth"))
  BY <1>s DEF SameOwners, By
<1>1. ASSUME SameOwners,
             \A e \in Emails : /\ audit'[e].password = audit[e].password
                               /\ audit'[e].oauth = audit[e].oauth,
             \A e \in Emails : Recorded(e)' \subseteq Recorded(e) /\ Unrecorded(e)' \subseteq Unrecorded(e)
      PROVE  AttemptsKept'
  <2> SUFFICES ASSUME NEW e \in Emails
               PROVE  /\ audit'[e].password < MaxAttempts =>
                           Cardinality(By(e, "password")') + Cardinality(Recorded(e)') <= audit'[e].password
                      /\ audit'[e].oauth + Cardinality(Unrecorded(e)') <= Cardinality(By(e, "oauth")')
    BY DEF AttemptsKept
  <2>1. /\ Cardinality(Recorded(e)') <= Cardinality(Recorded(e))
        /\ Cardinality(Unrecorded(e)') <= Cardinality(Unrecorded(e))
        /\ Cardinality(Recorded(e)') \in Nat /\ Cardinality(Unrecorded(e)') \in Nat
    BY <1>1, AttemptsAreFinite, FS_Subset, FS_CardinalityType
  <2>2. /\ Cardinality(By(e, "password")) \in Nat /\ Cardinality(By(e, "oauth")) \in Nat
        /\ Cardinality(Recorded(e)) \in Nat /\ Cardinality(Unrecorded(e)) \in Nat
    BY AttemptsAreFinite
  <2>3. /\ audit[e].password < MaxAttempts =>
             Cardinality(By(e, "password")) + Cardinality(Recorded(e)) <= audit[e].password
        /\ audit[e].oauth + Cardinality(Unrecorded(e)) <= Cardinality(By(e, "oauth"))
    BY DEF AttemptsKept
  <2>4. /\ Cardinality(By(e, "password")') = Cardinality(By(e, "password"))
        /\ Cardinality(By(e, "oauth")') = Cardinality(By(e, "oauth"))
    BY <1>1, <1>s
  <2> QED
    BY <1>1, <1>a, <1>b, <2>1, <2>2, <2>3, <2>4
<1>i. Sessions!Idle.pc = "idle"
  BY DEF Sessions!Idle
<1>2. ASSUME NEW w \in Workers, Sessions!LoginRecord(w)
      PROVE  AttemptsKept'
  <2> DEFINE f == login[w].user
  <2>1. /\ login[w].pc = "record" /\ login[w].op = "password" /\ UNCHANGED <<token, rows>>
        /\ Sessions!Goto(w, "issue") /\ Sessions!recordLoginAttempt(f, "password")
    BY <1>2 DEF Sessions!LoginRecord
  <2>2. /\ \A v \in Workers \ {w} : login'[v] = login[v]
        /\ login'[w].pc = "issue" /\ login'[w].op = "password" /\ login'[w].user = f
    BY <2>1, GoesOn
  <2>3. f \in Emails
    BY <2>1 DEF LoginTypes, Login
  <2> HIDE DEF f
  <2>4. /\ \A e \in Emails : audit'[e].oauth = audit[e].oauth
        /\ \A e \in Emails \ {f} : audit'[e].password = audit[e].password
        /\ audit[f].password < MaxAttempts => audit'[f].password = audit[f].password + 1
        /\ audit[f].password >= MaxAttempts => audit'[f].password = audit[f].password
    BY <1>a, <1>b, <2>1, <2>3 DEF Sessions!recordLoginAttempt, LoginTypes
  <2>5. SameOwners
    BY <2>1 DEF SameOwners
  <2> SUFFICES ASSUME NEW e \in Emails
               PROVE  /\ audit'[e].password < MaxAttempts =>
                           Cardinality(By(e, "password")') + Cardinality(Recorded(e)') <= audit'[e].password
                      /\ audit'[e].oauth + Cardinality(Unrecorded(e)') <= Cardinality(By(e, "oauth")')
    BY DEF AttemptsKept
  <2>6. /\ Recorded(e)' \subseteq Recorded(e) \cup {w}
        /\ e # f => Recorded(e)' \subseteq Recorded(e)
        /\ Unrecorded(e)' \subseteq Unrecorded(e)
    BY <2>2 DEF Recorded, Unrecorded
  <2>7. /\ Cardinality(Recorded(e)') <= Cardinality(Recorded(e)) + 1
        /\ e # f => Cardinality(Recorded(e)') <= Cardinality(Recorded(e))
        /\ Cardinality(Unrecorded(e)') <= Cardinality(Unrecorded(e))
        /\ Cardinality(Recorded(e)') \in Nat /\ Cardinality(Unrecorded(e)') \in Nat
    <3>1. IsFiniteSet(Recorded(e)) /\ IsFiniteSet(Unrecorded(e))
      BY AttemptsAreFinite
    <3>2. Cardinality(Recorded(e)') <= Cardinality(Recorded(e)) + 1
      BY <2>6, <3>1, OneMoreAtMost
    <3>3. IsFiniteSet(Recorded(e)') /\ IsFiniteSet(Unrecorded(e)')
      BY SessionConstants, FS_Subset DEF Recorded, Unrecorded
    <3> QED
      BY <2>6, <3>1, <3>2, <3>3, FS_Subset, FS_CardinalityType
  <2>8. /\ Cardinality(By(e, "password")) \in Nat /\ Cardinality(By(e, "oauth")) \in Nat
        /\ Cardinality(Recorded(e)) \in Nat /\ Cardinality(Unrecorded(e)) \in Nat
    BY AttemptsAreFinite
  <2>9. /\ audit[e].password < MaxAttempts =>
             Cardinality(By(e, "password")) + Cardinality(Recorded(e)) <= audit[e].password
        /\ audit[e].oauth + Cardinality(Unrecorded(e)) <= Cardinality(By(e, "oauth"))
    BY DEF AttemptsKept
  <2>10. /\ Cardinality(By(e, "password")') = Cardinality(By(e, "password"))
         /\ Cardinality(By(e, "oauth")') = Cardinality(By(e, "oauth"))
    BY <1>s, <2>5
  <2> QED
    BY <1>a, <1>b, <2>4, <2>7, <2>8, <2>9, <2>10
<1>3. ASSUME NEW w \in Workers, Sessions!OAuthRecord(w)
      PROVE  AttemptsKept'
  <2> DEFINE f == login[w].user
  <2>1. /\ login[w].pc = "record" /\ login[w].op = "oauth" /\ UNCHANGED <<token, rows>>
        /\ Sessions!Done(w)
        /\ Sessions!recordLoginAttempt(f, "oauth") \/ Sessions!recordLoginAttempt(f, "failed")
    BY <1>3 DEF Sessions!OAuthRecord
  <2>2. /\ \A v \in Workers \ {w} : login'[v] = login[v]
        /\ login'[w].pc = "idle"
    BY <1>i, <2>1, Ends
  <2>3. f \in Emails
    BY <2>1 DEF LoginTypes, Login
  <2>4. SameOwners /\ w \in Unrecorded(f)
    BY <2>1 DEF SameOwners, Unrecorded
  <2> HIDE DEF f
  <2>a. audit \in [Emails -> [password : Nat, oauth : Nat, failed : Nat]]
    BY DEF LoginTypes
  <2>5. /\ \A e \in Emails : audit'[e].password = audit[e].password
        /\ \A e \in Emails \ {f} : audit'[e].oauth = audit[e].oauth
        /\ audit'[f].oauth \in Nat /\ audit'[f].oauth <= audit[f].oauth + 1
    BY <1>a, <2>a, <2>1, <2>3 DEF Sessions!recordLoginAttempt
  <2> SUFFICES ASSUME NEW e \in Emails
               PROVE  /\ audit'[e].password < MaxAttempts =>
                           Cardinality(By(e, "password")') + Cardinality(Recorded(e)') <= audit'[e].password
                      /\ audit'[e].oauth + Cardinality(Unrecorded(e)') <= Cardinality(By(e, "oauth")')
    BY DEF AttemptsKept
  <2>6. /\ Recorded(e)' \subseteq Recorded(e) /\ Unrecorded(e)' \subseteq Unrecorded(e)
        /\ w \notin Unrecorded(e)'
    BY <2>2 DEF Recorded, Unrecorded
  <2>7. /\ Cardinality(Recorded(e)') <= Cardinality(Recorded(e))
        /\ Cardinality(Unrecorded(e)') <= Cardinality(Unrecorded(e))
        /\ e = f => Cardinality(Unrecorded(e)') <= Cardinality(Unrecorded(e)) - 1
        /\ Cardinality(Recorded(e)') \in Nat /\ Cardinality(Unrecorded(e)') \in Nat
    <3>1. IsFiniteSet(Recorded(e)) /\ IsFiniteSet(Unrecorded(e))
      BY AttemptsAreFinite
    <3>2. e = f => Cardinality(Unrecorded(e)') <= Cardinality(Unrecorded(e)) - 1
      BY <2>4, <2>6, <3>1, OneMoreAtMost
    <3>3. IsFiniteSet(Recorded(e)') /\ IsFiniteSet(Unrecorded(e)')
      BY SessionConstants, FS_Subset DEF Recorded, Unrecorded
    <3> QED
      BY <2>6, <3>1, <3>2, <3>3, FS_Subset, FS_CardinalityType
  <2>8. /\ Cardinality(By(e, "password")) \in Nat /\ Cardinality(By(e, "oauth")) \in Nat
        /\ Cardinality(Recorded(e)) \in Nat /\ Cardinality(Unrecorded(e)) \in Nat
    BY AttemptsAreFinite
  <2>9. /\ audit[e].password < MaxAttempts =>
             Cardinality(By(e, "password")) + Cardinality(Recorded(e)) <= audit[e].password
        /\ audit[e].oauth + Cardinality(Unrecorded(e)) <= Cardinality(By(e, "oauth"))
    BY DEF AttemptsKept
  <2>10. /\ Cardinality(By(e, "password")') = Cardinality(By(e, "password"))
         /\ Cardinality(By(e, "oauth")') = Cardinality(By(e, "oauth"))
    BY <1>s, <2>4
  <2> QED
    BY <1>a, <1>b, <2>5, <2>7, <2>8, <2>9, <2>10
<1>4. ASSUME NEW w \in Workers, Sessions!IssueToken(w)
      PROVE  AttemptsKept'
  <2> DEFINE f == login[w].user
             op == login[w].op
  <2>1. PICK t \in Tokens \ Issued :
          /\ token'[t].user = f /\ token'[t].op = op /\ f \in Emails
          /\ \A u \in Tokens \ {t} : token'[u] = token[u]
    BY <1>4, IssueAppends
  <2>2. /\ \A v \in Workers \ {w} : login'[v] = login[v]
        /\ login'[w].user = f /\ login'[w].pc = "limit" /\ login[w].pc = "issue" /\ login'[w].op = op
        /\ audit' = audit
    BY <1>4, GoesOn DEF Sessions!IssueToken
  <2>3. \A e \in Emails : token[t].user # e
    BY <2>1, SessionConstants DEF Issued, Sessions!Known
  <2> SUFFICES ASSUME NEW e \in Emails
               PROVE  /\ audit'[e].password < MaxAttempts =>
                           Cardinality(By(e, "password")') + Cardinality(Recorded(e)') <= audit'[e].password
                      /\ audit'[e].oauth + Cardinality(Unrecorded(e)') <= Cardinality(By(e, "oauth")')
    BY DEF AttemptsKept
  <2>4. /\ w \in Recorded(e) <=> (op = "password" /\ f = e)
        /\ w \in Unrecorded(e)' <=> (op = "oauth" /\ f = e)
        /\ w \notin Recorded(e)' /\ w \notin Unrecorded(e)
    BY <2>2 DEF Recorded, Unrecorded
  <2>5. \A o : /\ t \in By(e, o)' <=> (op = o /\ f = e)
               /\ t \notin By(e, o)
    BY <2>1, <2>3 DEF By
  <2> HIDE DEF f, op
  <2>6. /\ Recorded(e)' \subseteq Recorded(e) \cup {w} /\ Unrecorded(e)' \subseteq Unrecorded(e) \cup {w}
        /\ \A o : By(e, o)' \subseteq By(e, o) \cup {t} /\ By(e, o) \subseteq By(e, o)'
    BY <2>1, <2>2, <2>3 DEF Recorded, Unrecorded, By
  <2>7. /\ IsFiniteSet(Recorded(e)) /\ IsFiniteSet(Unrecorded(e))
        /\ IsFiniteSet(By(e, "password")) /\ IsFiniteSet(By(e, "oauth"))
    BY AttemptsAreFinite
  <2>8. /\ Cardinality(Recorded(e)') <= Cardinality(Recorded(e))
        /\ w \in Recorded(e) => Cardinality(Recorded(e)') <= Cardinality(Recorded(e)) - 1
    BY <2>4, <2>6, <2>7, OneMoreAtMost
  <2>9. /\ Cardinality(Unrecorded(e)') <= Cardinality(Unrecorded(e)) + 1
        /\ w \notin Unrecorded(e)' => Cardinality(Unrecorded(e)') <= Cardinality(Unrecorded(e))
    BY <2>6, <2>7, OneMoreAtMost
  <2>10. /\ Cardinality(By(e, "password")') <= Cardinality(By(e, "password")) + 1
         /\ t \notin By(e, "password")' => Cardinality(By(e, "password")') <= Cardinality(By(e, "password"))
    BY <2>6, <2>7, OneMoreAtMost
  <2>11. /\ Cardinality(By(e, "oauth")') >= Cardinality(By(e, "oauth"))
         /\ t \in By(e, "oauth")' => Cardinality(By(e, "oauth")') = Cardinality(By(e, "oauth")) + 1
    <3>1. IsFiniteSet(By(e, "oauth")')
      BY SessionConstants, FS_Subset DEF By
    <3>2. Cardinality(By(e, "oauth")) <= Cardinality(By(e, "oauth")')
      BY <2>6, <3>1, FS_Subset
    <3>3. t \in By(e, "oauth")' => Cardinality(By(e, "oauth")') = Cardinality(By(e, "oauth")) + 1
      BY <2>5, <2>6, <2>7, OneMoreAtMost
    <3> QED
      BY <3>2, <3>3, <2>7, <3>1, FS_CardinalityType
  <2>12. /\ Cardinality(Recorded(e)') \in Nat /\ Cardinality(Unrecorded(e)') \in Nat
         /\ Cardinality(By(e, "password")') \in Nat /\ Cardinality(By(e, "oauth")') \in Nat
    <3>1. /\ IsFiniteSet(Recorded(e)') /\ IsFiniteSet(Unrecorded(e)')
          /\ IsFiniteSet(By(e, "password")') /\ IsFiniteSet(By(e, "oauth")')
      BY SessionConstants, FS_Subset DEF Recorded, Unrecorded, By
    <3> QED
      BY <3>1, FS_CardinalityType
  <2>13. /\ Cardinality(By(e, "password")) \in Nat /\ Cardinality(By(e, "oauth")) \in Nat
         /\ Cardinality(Recorded(e)) \in Nat /\ Cardinality(Unrecorded(e)) \in Nat
    BY AttemptsAreFinite
  <2>14. /\ audit[e].password < MaxAttempts =>
              Cardinality(By(e, "password")) + Cardinality(Recorded(e)) <= audit[e].password
         /\ audit[e].oauth + Cardinality(Unrecorded(e)) <= Cardinality(By(e, "oauth"))
    BY DEF AttemptsKept
  <2>15. /\ audit[e].password < MaxAttempts =>
              Cardinality(By(e, "password")') + Cardinality(Recorded(e)') <= audit[e].password
    BY <1>a, <1>b, <2>4, <2>5, <2>8, <2>10, <2>12, <2>13, <2>14
  <2>16. audit[e].oauth + Cardinality(Unrecorded(e)') <= Cardinality(By(e, "oauth")')
    BY <1>a, <2>4, <2>5, <2>9, <2>11, <2>12, <2>13, <2>14
  <2> QED
    BY <2>2, <2>15, <2>16
<1>5. CASE \E w \in Workers : Sessions!IssueToken(w)
  BY <1>4, <1>5
<1>6. CASE \A w \in Workers : ~Sessions!IssueToken(w)
  <2>1. SameOwners
    BY <1>6, OwnersStay
  <2>2. ASSUME NEW w \in Workers, \A v \in Workers \ {w} : login'[v] = login[v],
               \A e \in Emails : /\ audit'[e].password = audit[e].password
                                 /\ audit'[e].oauth = audit[e].oauth,
               login'[w].pc = "issue" => login'[w].op # "password",
               login'[w].pc \in {"limit", "revoke", "record"} /\ login'[w].op = "oauth" =>
                 /\ login[w].pc \in {"limit", "revoke", "record"} /\ login[w].op = "oauth"
                 /\ login'[w].user = login[w].user
        PROVE  AttemptsKept'
    <3>1. \A e \in Emails : Recorded(e)' \subseteq Recorded(e) /\ Unrecorded(e)' \subseteq Unrecorded(e)
      BY <2>2 DEF Recorded, Unrecorded
    <3> QED
      BY <1>1, <2>1, <2>2, <3>1
  <2>3. ASSUME NEW w \in Workers, Sessions!Step(w)
        PROVE  AttemptsKept'
    <3>1. CASE Sessions!create(w)
      <4>1. /\ login[w].pc = "create" /\ login[w].user \in Emails /\ login[w].op # "password"
            /\ Sessions!Done(w) \/ Sessions!Goto(w, "issue")
        BY <3>1 DEF Sessions!create, LoginTypes, Login
      <4>2. \A e \in Emails : /\ audit'[e].password = audit[e].password
                              /\ audit'[e].oauth = audit[e].oauth
        <5>1. audit \in [Emails -> [password : Nat, oauth : Nat, failed : Nat]]
          BY DEF LoginTypes
        <5> QED
          BY <3>1, <4>1, <5>1 DEF Sessions!create, Sessions!recordLoginAttempt
      <4>3. /\ \A v \in Workers \ {w} : login'[v] = login[v]
            /\ login'[w].pc = "idle" \/ (login'[w].pc = "issue" /\ login'[w].op = login[w].op)
        BY <1>i, <4>1, Ends, GoesOn
      <4> QED
        BY <2>2, <4>1, <4>2, <4>3
    <3>2. CASE Sessions!RefreshRotate(w)
      <4>1. login[w].pc = "rotate" /\ login[w].op = "refresh" /\ Sessions!Goto(w, "issue") /\ audit' = audit
        BY <3>2 DEF Sessions!RefreshRotate, LoginTypes, Login
      <4>2. /\ \A v \in Workers \ {w} : login'[v] = login[v]
            /\ login'[w].pc = "issue" /\ login'[w].op = login[w].op
        BY <4>1, GoesOn
      <4> QED
        BY <2>2, <4>1, <4>2
    <3>3. CASE Sessions!enforceLimit(w) \/ Sessions!EnforceWrite(w)
      <4>1. /\ login[w].pc \in {"limit", "revoke"} /\ audit' = audit
            /\ \/ Sessions!Answer(w)
               \/ \E old \in SUBSET Tokens : login' = [login EXCEPT ![w].pc = "revoke", ![w].old = old]
        <5>1. Sessions!LiveOf(login[w].user) \ Sessions!Newest(login[w].user, Limit) \in SUBSET Tokens
          BY DEF Sessions!LiveOf
        <5> QED
          BY <3>3, <5>1 DEF Sessions!enforceLimit, Sessions!EnforceWrite
      <4>2. CASE Sessions!Answer(w)
        <5>1. /\ \A v \in Workers \ {w} : login'[v] = login[v]
              /\ \/ login'[w].pc = "idle"
                 \/ /\ login'[w].pc = "record" /\ login[w].op = "oauth"
                    /\ login'[w].user = login[w].user
          BY <1>i, <4>1, <4>2, Answers
        <5> QED
          BY <2>2, <4>1, <5>1
      <4>3. ASSUME NEW old \in SUBSET Tokens, login' = [login EXCEPT ![w].pc = "revoke", ![w].old = old]
            PROVE  AttemptsKept'
        <5>0. "revoke" \in {"record", "revoke"}
          OBVIOUS
        <5>1. /\ \A v \in Workers \ {w} : login'[v] = login[v]
              /\ login'[w].pc = "revoke" /\ login'[w].op = login[w].op
              /\ login'[w].user = login[w].user
          BY <4>1, <4>3, <5>0, KeepsOn
        <5> QED
          BY <2>2, <4>1, <5>1
      <4> QED
        BY <4>1, <4>2, <4>3
    <3> QED
      BY <1>2, <1>3, <1>6, <2>3, <3>1, <3>2, <3>3 DEF Sessions!Step
  <2>4. ASSUME NEW w \in Workers, Sessions!Arrive(w)
        PROVE  AttemptsKept'
    <3>1. PICK pc, op, e, t : As(w, pc, op, e, t)
      BY <2>4, SessionArrives
    <3>2. /\ \A v \in Workers \ {w} : login'[v] = login[v]
          /\ audit' = audit
      BY <2>4, SessionArrives
    <3>3. /\ login'[w].pc = "issue" => login'[w].op # "password"
          /\ ~(login'[w].pc \in {"limit", "revoke", "record"} /\ login'[w].op = "oauth")
      BY <3>1 DEF As, Begun
    <3> QED
      BY <2>2, <3>2, <3>3
  <2>5. ASSUME NEW w \in Workers, Sessions!Die(w)
        PROVE  AttemptsKept'
    <3>1. audit' = audit /\ login'[w].pc = "idle" /\ \A v \in Workers \ {w} : login'[v] = login[v]
      BY <1>i, <2>5, Ends DEF Sessions!Die
    <3> QED
      BY <2>2, <3>1
  <2>6. ASSUME NEW e \in Emails, Sessions!LoginFails(e)
        PROVE  AttemptsKept'
    <3>1. UNCHANGED login /\ \A f \in Emails : /\ audit'[f].password = audit[f].password
                                              /\ audit'[f].oauth = audit[f].oauth
      BY <2>6 DEF Sessions!LoginFails, Sessions!recordLoginAttempt, LoginTypes
    <3>2. \A f \in Emails : Recorded(f)' = Recorded(f) /\ Unrecorded(f)' = Unrecorded(f)
      BY <3>1 DEF Recorded, Unrecorded
    <3> QED
      BY <1>1, <2>1, <3>1, <3>2
  <2>7. ASSUME UNCHANGED <<login, audit>>
        PROVE  AttemptsKept'
    <3>1. \A f \in Emails : Recorded(f)' = Recorded(f) /\ Unrecorded(f)' = Unrecorded(f)
      BY <2>7 DEF Recorded, Unrecorded
    <3> QED
      BY <1>1, <2>1, <2>7, <3>1
  <2>8. CASE Sessions!Others
    BY <2>6, <2>7, <2>8 DEF Sessions!Others, Sessions!logout, Sessions!revokeSession, Sessions!Tick
  <2> QED
    BY <2>3, <2>4, <2>5, <2>8 DEF Sessions!Next
<1> QED
  BY <1>5, <1>6

\* One request at a time: what is being exchanged is still to be exchanged, and what has
\* been is taken back and has no child yet.
LoginAlone ==
    \A v, w \in Workers : login[v].pc # "idle" /\ login[w].pc # "idle" => v = w
Childless(t) == \A u \in Tokens : token[u].parent # t
Exchanging(w) ==
    /\ login[w].pc = "rotate" =>
         /\ login[w].token \in Issued /\ token[login[w].token].revokedBy = None
         /\ token[login[w].token].user = login[w].user
    /\ login[w].pc = "issue" /\ login[w].token # None =>
         /\ login[w].token \in Issued /\ token[login[w].token].revokedBy = "rotation"
         /\ token[login[w].token].user = login[w].user
         /\ Childless(login[w].token)
    /\ login[w].pc = "create" \/ (login[w].pc = "record" /\ login[w].op = "password") =>
         login[w].token = None
ParentsKept ==
    /\ \A t \in Tokens : token[t].parent # None =>
         /\ t \in Issued /\ token[t].parent \in Issued /\ token[token[t].parent].revokedBy = "rotation"
         /\ token[token[t].parent].user = token[t].user
    /\ \A t, u \in Tokens : token[t].parent # None /\ token[u].parent = token[t].parent => t = u
RotatedInv == LoginAlone /\ ParentsKept /\ \A w \in Workers : Exchanging(w)

LEMMA SerialIsNext == Sessions!Serial => Sessions!Next
BY DEF Sessions!Serial, Sessions!Next

LEMMA AloneStays ==
    ASSUME Sessions!SessionsAssumption, LoginTypes, LoginAlone, Sessions!Serial
    PROVE  LoginAlone'
<1>i. Sessions!Idle.pc = "idle"
  BY DEF Sessions!Idle
<1>1. ASSUME NEW w \in Workers, \A v \in Workers \ {w} : login'[v] = login[v] /\ login[v].pc = "idle"
      PROVE  LoginAlone'
  BY <1>1 DEF LoginAlone
<1>2. CASE \E w \in Workers : login[w] # Sessions!Idle
  <2>1. PICK w \in Workers : Sessions!Step(w)
    BY <1>2 DEF Sessions!Serial
  <2>2. login[w].pc # "idle"
    BY <2>1 DEF Sessions!Step, Sessions!create, Sessions!LoginRecord, Sessions!OAuthRecord,
                Sessions!IssueToken, Sessions!enforceLimit, Sessions!EnforceWrite, Sessions!RefreshRotate
  <2>3. \A v \in Workers \ {w} : login'[v] = login[v]
    <3>1. Sessions!LiveOf(login[w].user) \ Sessions!Newest(login[w].user, Limit) \in SUBSET Tokens
      BY DEF Sessions!LiveOf
    <3>2. \/ Sessions!Done(w) \/ Sessions!Goto(w, "issue") \/ Sessions!Goto(w, "limit")
          \/ Sessions!Answer(w)
          \/ \E old \in SUBSET Tokens : login' = [login EXCEPT ![w].pc = "revoke", ![w].old = old]
      BY <2>1, <3>1 DEF Sessions!Step, Sessions!create, Sessions!LoginRecord, Sessions!OAuthRecord,
                  Sessions!IssueToken, Sessions!enforceLimit, Sessions!EnforceWrite, Sessions!RefreshRotate
    <3>3. "revoke" \in {"record", "revoke"}
      OBVIOUS
    <3> QED
      BY <2>2, <3>2, <3>3, Ends, GoesOn, Answers, KeepsOn
  <2> QED
    BY <1>1, <2>2, <2>3 DEF LoginAlone
<1>3. CASE \A w \in Workers : login[w] = Sessions!Idle
  <2>1. Sessions!Next
    BY <1>3 DEF Sessions!Serial
  <2>2. \A w \in Workers : login[w].pc = "idle"
    BY <1>3, <1>i
  <2>3. ASSUME NEW w \in Workers, Sessions!Step(w)
        PROVE  FALSE
    BY <2>2, <2>3
       DEF Sessions!Step, Sessions!create, Sessions!LoginRecord, Sessions!OAuthRecord,
           Sessions!IssueToken, Sessions!enforceLimit, Sessions!EnforceWrite, Sessions!RefreshRotate
  <2>4. ASSUME NEW w \in Workers, Sessions!Arrive(w)
        PROVE  LoginAlone'
    BY <1>1, <2>2, <2>4, SessionArrives
  <2>5. ASSUME NEW w \in Workers, Sessions!Die(w)
        PROVE  FALSE
    BY <1>3, <2>5 DEF Sessions!Die
  <2>6. CASE Sessions!Others
    <3>1. UNCHANGED login
      BY <2>6 DEF Sessions!Others, Sessions!LoginFails, Sessions!logout, Sessions!revokeSession, Sessions!Tick
    <3> QED
      BY <3>1 DEF LoginAlone
  <2> QED
    BY <2>1, <2>3, <2>4, <2>5, <2>6 DEF Sessions!Next
<1> QED
  BY <1>2, <1>3

LEMMA RotatedStays ==
    ASSUME Sessions!SessionsAssumption, LoginTypes, SessionsKept, RotatedInv, Sessions!Serial
    PROVE  RotatedInv'
<1>a. LoginAlone' /\ Sessions!Next
  BY AloneStays, SerialIsNext DEF RotatedInv
<1>i. Sessions!Idle.pc = "idle"
  BY DEF Sessions!Idle
<1>n. None \notin Reasons /\ "rotation" \in Reasons /\ None \notin Tokens
  BY SessionConstants DEF Reasons
<1>s. ASSUME SameOwners
      PROVE  /\ ParentsKept' /\ Issued' = Issued
             /\ \A t \in Tokens : Childless(t)' <=> Childless(t)
  <2>1. Issued' = Issued
    BY <1>s DEF SameOwners, Issued, Sessions!Known
  <2>2. \A t \in Tokens : Childless(t)' <=> Childless(t)
    BY <1>s DEF SameOwners, Childless
  <2>3. \A t \in Tokens : token[t].parent \in Tokens \cup {None}
    BY DEF LoginTypes, SessionRow
  <2> QED
    BY <1>n, <1>s, <2>1, <2>2, <2>3 DEF SameOwners, ParentsKept, RotatedInv
<1>t. \A w \in Workers : login[w].token \in Tokens \cup {None}
  BY DEF LoginTypes, Login
<1>1. ASSUME NEW w \in Workers, SameOwners, \A v \in Workers \ {w} : login[v].pc = "idle" /\ login'[v] = login[v],
             Exchanging(w)'
      PROVE  RotatedInv'
  <2>1. \A v \in Workers : Exchanging(v)'
    BY <1>1 DEF Exchanging
  <2> QED
    BY <1>a, <1>1, <1>s, <2>1 DEF RotatedInv
<1>2. ASSUME NEW w \in Workers, Sessions!IssueToken(w), \A v \in Workers \ {w} : login[v].pc = "idle"
      PROVE  RotatedInv'
  <2> DEFINE p == login[w].token
  <2>1. PICK t \in Tokens \ Issued :
          /\ Issued' = Issued \cup {t}
          /\ token'[t].user = login[w].user /\ token'[t].parent = p
          /\ \A u \in Tokens \ {t} : token'[u] = token[u]
    BY <1>2, IssueAppends
  <2>2. /\ \A v \in Workers \ {w} : login'[v] = login[v]
        /\ login'[w].pc = "limit" /\ login[w].pc = "issue"
    BY <1>2, GoesOn DEF Sessions!IssueToken
  <2>3. p # None => /\ p \in Issued /\ token[p].revokedBy = "rotation"
                    /\ token[p].user = login[w].user /\ Childless(p)
    BY <2>2 DEF RotatedInv, Exchanging
  <2>4. \A v \in Workers : Exchanging(v)'
    BY <1>2, <2>2 DEF Exchanging
  <2>5. p \in Tokens \cup {None}
    BY <1>t
  <2>6. \A u \in Tokens \ {t} : token[u].parent # None =>
          /\ u \in Issued /\ token[u].parent \in Issued \ {t}
          /\ token[token[u].parent].revokedBy = "rotation"
          /\ token[token[u].parent].user = token[u].user
    BY <2>1 DEF RotatedInv, ParentsKept
  <2>7. Issued \subseteq Tokens
    BY DEF Issued
  <2> HIDE DEF p
  <2>8. \A u \in Tokens : token'[u].parent # None =>
          /\ u \in Issued' /\ token'[u].parent \in Issued'
          /\ token'[token'[u].parent].revokedBy = "rotation"
          /\ token'[token'[u].parent].user = token'[u].user
    <3>1. ASSUME NEW u \in Tokens \ {t}, token'[u].parent # None
          PROVE  /\ u \in Issued' /\ token'[u].parent \in Issued'
                 /\ token'[token'[u].parent].revokedBy = "rotation"
                 /\ token'[token'[u].parent].user = token'[u].user
      <4>1. token'[u] = token[u] /\ token[u].parent \in Tokens \ {t}
        BY <2>1, <2>6, <2>7, <3>1
      <4>2. token'[token[u].parent] = token[token[u].parent]
        BY <2>1, <4>1
      <4> QED
        BY <2>1, <2>6, <3>1, <4>1, <4>2
    <3>2. ASSUME p # None
          PROVE  /\ t \in Issued' /\ p \in Issued' /\ token'[p].revokedBy = "rotation"
                 /\ token'[p].user = token'[t].user
      BY <2>1, <2>3, <2>7, <3>2
    <3> QED
      BY <2>1, <3>1, <3>2
  <2>9. ASSUME NEW u \in Tokens, NEW v \in Tokens, token'[u].parent # None,
               token'[v].parent = token'[u].parent
        PROVE  u = v
    <3>1. CASE u = t /\ v # t
      <4>1. token[v].parent = p /\ p # None
        BY <2>1, <2>9, <3>1
      <4> QED
        BY <2>3, <4>1 DEF Childless
    <3>2. CASE v = t /\ u # t
      <4>1. token[u].parent = p /\ p # None
        BY <2>1, <2>9, <3>2
      <4> QED
        BY <2>3, <4>1 DEF Childless
    <3>3. CASE u # t /\ v # t
      BY <2>1, <2>9, <3>3 DEF RotatedInv, ParentsKept
    <3> QED
      BY <3>1, <3>2, <3>3
  <2>10. ParentsKept'
    BY <2>8, <2>9 DEF ParentsKept
  <2> QED
    BY <1>a, <2>4, <2>10 DEF RotatedInv
<1>3. ASSUME NEW w \in Workers, Sessions!RefreshRotate(w), \A v \in Workers \ {w} : login[v].pc = "idle"
      PROVE  RotatedInv'
  <2>1. PICK p \in Tokens :
          /\ p = login[w].token /\ p \in Issued /\ token[p].revokedBy = None
          /\ token[p].user = login[w].user
    BY <1>3 DEF RotatedInv, Exchanging, Issued, Sessions!RefreshRotate
  <2>2. /\ login[w].pc = "rotate" /\ token' = Sessions!Revoked({p}, "rotation") /\ rows' = rows
        /\ Sessions!Goto(w, "issue")
    BY <1>3, <2>1 DEF Sessions!RefreshRotate
  <2>3. /\ \A v \in Workers \ {w} : login'[v] = login[v]
        /\ login'[w].pc = "issue" /\ login'[w].token = p /\ login'[w].user = login[w].user
    BY <2>1, <2>2, GoesOn
  <2>4. SameOwners /\ token'[p].revokedBy = "rotation"
    <3>1. /\ SameOwners
          /\ \A t \in Tokens : token[t].revokedBy = None /\ t \in {p} => token'[t].revokedBy = "rotation"
      BY <1>n, <2>2, RevokedKeepsOwners
    <3> QED
      BY <2>1, <3>1
  <2>5. Childless(p)
    BY <1>n, <2>1 DEF RotatedInv, ParentsKept, Childless
  <2>6. p \in Issued' /\ token'[p].user = login[w].user /\ Childless(p)'
    BY <1>s, <2>1, <2>4, <2>5 DEF SameOwners
  <2>7. Exchanging(w)'
    BY <2>3, <2>4, <2>6 DEF Exchanging, Childless
  <2> QED
    BY <1>1, <1>3, <2>3, <2>4, <2>7
<1>4. ASSUME NEW w \in Workers, Sessions!Step(w)
      PROVE  RotatedInv'
  <2>1. login[w].pc # "idle"
    BY <1>4 DEF Sessions!Step, Sessions!create, Sessions!LoginRecord, Sessions!OAuthRecord,
                Sessions!IssueToken, Sessions!enforceLimit, Sessions!EnforceWrite, Sessions!RefreshRotate
  <2>2. \A v \in Workers \ {w} : login[v].pc = "idle"
    BY <2>1 DEF RotatedInv, LoginAlone
  <2>3. CASE Sessions!create(w) \/ Sessions!LoginRecord(w) \/ Sessions!OAuthRecord(w)
    <3>1. /\ Sessions!Done(w) \/ (Sessions!Goto(w, "issue") /\ login[w].token = None)
          /\ UNCHANGED <<token, rows>>
      BY <2>3 DEF Sessions!create, Sessions!LoginRecord, Sessions!OAuthRecord, RotatedInv, Exchanging
    <3>2. /\ \A v \in Workers \ {w} : login'[v] = login[v]
          /\ login'[w].pc = "idle" \/ (login'[w].pc = "issue" /\ login'[w].token = None)
      BY <1>i, <2>1, <3>1, Ends, GoesOn
    <3>3. Exchanging(w)'
      BY <3>2 DEF Exchanging
    <3>4. SameOwners
      BY <3>1 DEF SameOwners
    <3> QED
      BY <1>1, <2>2, <3>2, <3>3, <3>4
  <2>4. CASE Sessions!enforceLimit(w) \/ Sessions!EnforceWrite(w)
    <3>1. SameOwners
      <4>1. \A v \in Workers : ~Sessions!IssueToken(v)
        BY <2>1, <2>2, <2>4 DEF Sessions!enforceLimit, Sessions!EnforceWrite, Sessions!IssueToken
      <4> QED
        BY <1>a, <4>1, OwnersStay
    <3>2. /\ \A v \in Workers \ {w} : login'[v] = login[v]
          /\ login'[w].pc \in {"idle", "revoke"} \/ (login'[w].pc = "record" /\ login'[w].op = "oauth")
      <4>1. Sessions!LiveOf(login[w].user) \ Sessions!Newest(login[w].user, Limit) \in SUBSET Tokens
        BY DEF Sessions!LiveOf
      <4>2. \/ Sessions!Answer(w)
            \/ \E old \in SUBSET Tokens : login' = [login EXCEPT ![w].pc = "revoke", ![w].old = old]
        BY <2>4, <4>1 DEF Sessions!enforceLimit, Sessions!EnforceWrite
      <4>3. "revoke" \in {"record", "revoke"}
        OBVIOUS
      <4> QED
        BY <1>i, <2>1, <4>2, <4>3, Answers, KeepsOn
    <3>3. Exchanging(w)'
      BY <3>2 DEF Exchanging
    <3> QED
      BY <1>1, <2>2, <3>1, <3>2, <3>3
  <2> QED
    BY <1>2, <1>3, <1>4, <2>2, <2>3, <2>4 DEF Sessions!Step
<1>5. CASE \E w \in Workers : login[w] # Sessions!Idle
  BY <1>4, <1>5 DEF Sessions!Serial
<1>6. CASE \A w \in Workers : login[w] = Sessions!Idle
  <2>1. \A w \in Workers : login[w].pc = "idle"
    BY <1>6, <1>i
  <2>2. \A w \in Workers : ~Sessions!IssueToken(w)
    BY <2>1 DEF Sessions!IssueToken
  <2>3. SameOwners
    BY <1>a, <2>2, OwnersStay
  <2>4. ASSUME NEW w \in Workers, Sessions!Arrive(w)
        PROVE  RotatedInv'
    <3>1. PICK pc, op, e, t : As(w, pc, op, e, t)
      BY <2>4, SessionArrives
    <3>2. token' = token /\ \A v \in Workers \ {w} : login'[v] = login[v]
      BY <2>4, SessionArrives
    <3>3. pc = "rotate" => t \in Issued /\ token[t].revokedBy = None /\ e = token[t].user
      BY <3>1 DEF As, Begun, Sessions!Live, Issued, SessionRow
    <3>4. Exchanging(w)'
      <4>1. Issued' = Issued
        BY <1>s, <2>3
      <4> QED
        BY <3>1, <3>2, <3>3, <4>1 DEF As, Begun, Exchanging
    <3> QED
      BY <1>1, <2>1, <2>3, <3>2, <3>4
  <2>5. ASSUME NEW w \in Workers, Sessions!Die(w)
        PROVE  FALSE
    BY <1>6, <2>5 DEF Sessions!Die
  <2>6. CASE Sessions!Others
    <3>1. UNCHANGED login
      BY <2>6 DEF Sessions!Others, Sessions!LoginFails, Sessions!logout, Sessions!revokeSession, Sessions!Tick
    <3>2. \A w \in Workers : Exchanging(w)'
      BY <2>1, <3>1 DEF Exchanging
    <3> QED
      BY <1>a, <1>s, <2>3, <3>2 DEF RotatedInv
  <2> QED
    BY <1>4, <1>a, <2>4, <2>5, <2>6 DEF Sessions!Next
<1> QED
  BY <1>5, <1>6

SessionsInv ==
    /\ LoginTypes /\ SessionsKept /\ LimitComing /\ AttemptsKept
    /\ alone => RotatedInv

LEMMA SessionsAtFirst ==
    ASSUME Sessions!SessionsAssumption, Sessions!Init
    PROVE  SessionsInv
<1>1. LoginTypes
  BY LoginTypesAtFirst
<1>2. /\ \A t \in Tokens : token[t].user = None /\ token[t].parent = None
      /\ rows = << >> /\ died = {}
      /\ \A w \in Workers : login[w].pc = "idle"
      /\ \A e \in Emails : audit[e].password = 0 /\ audit[e].oauth = 0
  BY DEF Sessions!Init, Sessions!NoToken, Sessions!NoAudit, Sessions!Idle
<1>3. Issued = {} /\ \A e \in Emails : Sessions!LiveOf(e) = {}
  BY <1>2, SessionConstants DEF Issued, Sessions!Known, Sessions!LiveOf, Sessions!Live
<1>4. SessionsKept
  <2>1. Cardinality(Issued) = 0
    BY <1>3, FS_EmptySet
  <2> QED
    BY <1>2, <1>3, <2>1 DEF SessionsKept
<1>5. LimitComing
  BY <1>3 DEF LimitComing
<1>6. AttemptsKept
  <2> SUFFICES ASSUME NEW e \in Emails
               PROVE  /\ Cardinality(By(e, "password")) + Cardinality(Recorded(e)) <= audit[e].password
                      /\ audit[e].oauth + Cardinality(Unrecorded(e)) <= Cardinality(By(e, "oauth"))
    BY DEF AttemptsKept
  <2>1. Recorded(e) = {} /\ Unrecorded(e) = {} /\ By(e, "password") = {} /\ By(e, "oauth") = {}
    BY <1>2, SessionConstants DEF Recorded, Unrecorded, By
  <2>2. /\ Cardinality(Recorded(e)) = 0 /\ Cardinality(Unrecorded(e)) = 0
        /\ Cardinality(By(e, "password")) = 0 /\ Cardinality(By(e, "oauth")) = 0
    BY <2>1, FS_EmptySet
  <2> QED
    BY <1>2, <2>2
<1>7. RotatedInv
  BY <1>2 DEF RotatedInv, LoginAlone, ParentsKept, Exchanging
<1> QED
  BY <1>1, <1>4, <1>5, <1>6, <1>7 DEF SessionsInv

LEMMA SessionsRest ==
    ASSUME SessionsInv, UNCHANGED <<sessions, alone>>
    PROVE  SessionsInv'
<1>1. UNCHANGED <<user, token, rows, audit, sessionNow, login, died, alone>>
  BY DEF sessions
<1>2. LoginTypes'
  BY <1>1 DEF SessionsInv, LoginTypes
<1>3. Issued' = Issued
  BY <1>1 DEF Issued, Sessions!Known
<1>4. SessionsKept'
  BY <1>1, <1>3 DEF SessionsInv, SessionsKept
<1>5. LimitComing'
  BY <1>1 DEF SessionsInv, LimitComing, Covers, Sessions!LiveOf, Sessions!Live, Sessions!Known,
              Sessions!Newest, Sessions!RowsSince
<1>6. AttemptsKept'
  BY <1>1 DEF SessionsInv, AttemptsKept, Recorded, Unrecorded, By
<1>7. alone => RotatedInv'
  BY <1>1, <1>3 DEF SessionsInv, RotatedInv, LoginAlone, ParentsKept, Exchanging, Childless
<1> QED
  BY <1>1, <1>2, <1>4, <1>5, <1>6, <1>7 DEF SessionsInv

LEMMA SessionsStay == SessionsInv /\ [NextAll]_all => SessionsInv'
<1> SUFFICES ASSUME SessionsInv, [NextAll]_all PROVE SessionsInv'
  OBVIOUS
<1>0. Sessions!SessionsAssumption
  BY AccountsAssumption
<1>1. CASE SessionsNext
  <2>1. alone' = alone /\ (alone => Sessions!Serial) /\ (~alone => Sessions!Next)
    BY <1>1 DEF SessionsNext
  <2>2. Sessions!Next
    BY <2>1, SerialIsNext
  <2>3. LoginTypes' /\ SessionsKept' /\ LimitComing' /\ AttemptsKept'
    BY <1>0, <2>2, LoginTypesStay, SessionsStayKept, LimitComingStays, AttemptsStayKept DEF SessionsInv
  <2>4. alone => RotatedInv'
    BY <1>0, <2>1, RotatedStays DEF SessionsInv
  <2> QED
    BY <2>1, <2>3, <2>4 DEF SessionsInv
<1>2. CASE ~SessionsNext
  <2>1. UNCHANGED <<sessions, alone>>
    BY <1>2 DEF NextAll, all, UsersNext, OnboardingNext, IdentityNext, RequestsNext, GdprNext, SystemNext
  <2> QED
    BY <2>1, SessionsRest
<1> QED
  BY <1>1, <1>2

LEMMA SessionsSay ==
    ASSUME Sessions!SessionsAssumption, SessionsInv
    PROVE  /\ Sessions!TypeOK /\ Sessions!LimitKept /\ Sessions!AttemptsAndSessions
           /\ Sessions!ListedAsShown /\ Sessions!WelcomedOnce /\ (alone => Sessions!RotatedOnce)
<1>1. Sessions!TypeOK
  <2>1. {t \in Tokens : Sessions!Known(t)} = Issued
    BY DEF Issued
  <2>2. \A t \in Tokens : Sessions!Known(t) => user[token[t].user].known
    BY DEF SessionsInv, SessionsKept, Issued
  <2>3. rows \in Seq(Issued) /\ Len(rows) = Sessions!Cardinality(Issued)
    BY SessionsCount DEF SessionsInv, SessionsKept
  <2>4. token \in [Tokens -> [user : Emails \cup {None}, parent : Tokens \cup {None},
                              op : {None, "register", "password", "oauth", "refresh"},
                              expiresAt : 0..(SessionTime + Lifetime),
                              revokedBy : {None, "rotation", "limit", "logout", "operator"}]]
    BY DEF SessionsInv, LoginTypes, SessionRow, LoginOps, Reasons
  <2>5. user \in [Emails -> [known : BOOLEAN, password : BOOLEAN, welcomed : Nat]]
    BY DEF SessionsInv, LoginTypes
  <2> QED
    BY <2>1, <2>2, <2>3, <2>4, <2>5 DEF SessionsInv, LoginTypes, SessionsKept, Sessions!TypeOK
<1>2. Sessions!LimitKept
  BY DEF SessionsInv, LimitComing, Covers, Sessions!LimitKept, Sessions!Issues
<1>3. Sessions!AttemptsAndSessions
  <2> SUFFICES ASSUME NEW e \in Emails
               PROVE  /\ audit[e].password < MaxAttempts =>
                           Sessions!SessionsBy(e, "password") <= audit[e].password
                      /\ audit[e].oauth <= Sessions!SessionsBy(e, "oauth")
    BY DEF Sessions!AttemptsAndSessions
  <2>1. \A op : Sessions!SessionsBy(e, op) = Cardinality(By(e, op))
    BY SessionsCount DEF Sessions!SessionsBy, By
  <2>2. /\ Cardinality(By(e, "password")) \in Nat /\ Cardinality(By(e, "oauth")) \in Nat
        /\ Cardinality(Recorded(e)) \in Nat /\ Cardinality(Unrecorded(e)) \in Nat
    BY AttemptsAreFinite
  <2>3. audit[e].password \in Nat /\ audit[e].oauth \in Nat
    BY DEF SessionsInv, LoginTypes
  <2>4. /\ audit[e].password < MaxAttempts =>
             Cardinality(By(e, "password")) + Cardinality(Recorded(e)) <= audit[e].password
        /\ audit[e].oauth + Cardinality(Unrecorded(e)) <= Cardinality(By(e, "oauth"))
    BY DEF SessionsInv, AttemptsKept
  <2> QED
    BY <2>1, <2>2, <2>3, <2>4
<1>4. Sessions!ListedAsShown
  <2> SUFFICES ASSUME NEW t \in Tokens, NEW s \in {"active", "expired", "revoked"}, Sessions!Known(t)
               PROVE  /\ t \in Sessions!listSessions(s) => Sessions!mapSession(t) = s
                      /\ Sessions!mapSession(t) = s /\ token[t].expiresAt # sessionNow =>
                           t \in Sessions!listSessions(s)
    BY DEF Sessions!ListedAsShown
  <2>1. token[t].expiresAt \in Int /\ sessionNow \in Int
    BY SessionConstants DEF SessionsInv, LoginTypes, SessionRow
  <2> QED
    BY <2>1 DEF Sessions!listSessions, Sessions!mapSession, Sessions!Live
<1>5. alone => Sessions!RotatedOnce
  BY DEF SessionsInv, RotatedInv, ParentsKept, Sessions!RotatedOnce
<1>6. Sessions!WelcomedOnce
  BY DEF SessionsInv, LoginTypes, Sessions!WelcomedOnce
<1> QED
  BY <1>1, <1>2, <1>3, <1>4, <1>5, <1>6

-----------------------------------------------------------------------------
(***************************************************************************)
(* Roles.  A role that is written and not logged yet is that of a change   *)
(* under way; nothing else may set it without leaving the user edited.     *)
(***************************************************************************)
RoleSet == {<<r>> : r \in RoleNames} \cup {<< >>, <<"client">>, <<"employee">>}
Given == {"client", "employee"}
AccountRow == [roles : RoleSet, active : BOOLEAN, password : BOOLEAN,
               profile : {"none", "pending", "ready"}, created : Nat]
Change == {c \in [pc : {"idle", "update", "log"}, user : Users \cup {None}, role : Given \cup {None},
                  previous : RoleSet] :
             c.pc # "idle" => c.user \in Users /\ c.role \in Given}
Entry == [target : Users, previous : RoleSet, next : Given]

UsersTypes ==
    /\ account \in [Users -> AccountRow] /\ \A u \in Users : account[u].created <= week
    /\ roleLog \in Seq(Entry) /\ change \in [Workers -> Change]
    /\ edited \in SUBSET Users /\ week \in Nat

LEMMA UserConstants ==
    ASSUME AdminUsers!AdminUsersAssumption
    PROVE  /\ None \notin Users /\ IsFiniteSet(Users) /\ IsFiniteSet(Workers)
           /\ MaxWeeks \in Nat /\ MaxChanges \in Nat
<1>1. \A S : AdminUsers!IsFiniteSet(S) <=> IsFiniteSet(S)
  BY Zenon DEF IsFiniteSet, AdminUsers!IsFiniteSet
<1> QED
  BY <1>1, Zenon DEF AdminUsers!AdminUsersAssumption

LEMMA UsersCount ==
    ASSUME NEW S
    PROVE  AdminUsers!Cardinality(S) = Cardinality(S)
BY DEF Cardinality, AdminUsers!Cardinality

LEMMA UsersTypesAtFirst == AdminUsers!Init => UsersTypes
BY DEF AdminUsers!Init, AdminUsers!NoUser, AdminUsers!Idle, UsersTypes, AccountRow, RoleSet, Change

LEMMA IdleIsChange == AdminUsers!Idle \in Change
BY DEF AdminUsers!Idle, Change, RoleSet

\* What a change under way does.
LEMMA RoleIsRead ==
    ASSUME UsersTypes, NEW w \in Workers, NEW u \in Users, NEW role \in Given, AdminUsers!RoleRead(w, u, role)
    PROVE  /\ change' \in [Workers -> Change] /\ \A v \in Workers \ {w} : change'[v] = change[v]
           /\ change'[w] = [pc |-> "update", user |-> u, role |-> role, previous |-> account[u].roles]
           /\ change[w].pc = "idle" /\ u \in AdminUsers!Stored
           /\ UNCHANGED <<account, roleLog, edited, week>>
<1>1. [pc |-> "update", user |-> u, role |-> role, previous |-> account[u].roles] \in Change
  BY DEF UsersTypes, AccountRow, Change
<1>2. change[w].pc = "idle"
  BY DEF AdminUsers!RoleRead, AdminUsers!Idle
<1> QED
  BY <1>1, <1>2 DEF AdminUsers!RoleRead, UsersTypes

LEMMA RoleIsWritten ==
    ASSUME UsersTypes, NEW w \in Workers, AdminUsers!RoleWrite(w)
    PROVE  /\ change[w].pc = "update" /\ change[w].user \in Users /\ change[w].role \in Given
           /\ change' \in [Workers -> Change] /\ \A v \in Workers \ {w} : change'[v] = change[v]
           /\ change'[w].pc = "log" /\ change'[w].user = change[w].user
           /\ change'[w].role = change[w].role /\ change'[w].previous = change[w].previous
           /\ account' \in [Users -> AccountRow]
           /\ account'[change[w].user].roles = <<change[w].role>>
           /\ \A u \in Users : account'[u].created = account[u].created
           /\ \A u \in Users \ {change[w].user} : account'[u] = account[u]
           /\ UNCHANGED <<roleLog, edited, week>>
<1>1. change[w] \in Change /\ change[w].pc = "update" /\ change[w].user \in Users /\ change[w].role \in Given
  BY DEF AdminUsers!RoleWrite, UsersTypes, Change
<1> DEFINE c == [change[w] EXCEPT !.pc = "log"]
           u0 == change[w].user
           a == [account[u0] EXCEPT !.roles = <<change[w].role>>]
<1>2. c \in Change /\ c.pc = "log" /\ c.user = change[w].user /\ c.role = change[w].role
      /\ c.previous = change[w].previous
  BY <1>1 DEF Change
<1>3. a \in AccountRow /\ a.roles = <<change[w].role>> /\ a.created = account[u0].created
  <2>1. account[u0] \in AccountRow
    BY <1>1 DEF UsersTypes
  <2>2. <<change[w].role>> \in RoleSet
    BY <1>1 DEF RoleSet, Given
  <2> HIDE DEF RoleSet, u0
  <2> QED
    BY <2>1, <2>2 DEF AccountRow
<1>4. change' = [change EXCEPT ![w] = c] /\ account' = [account EXCEPT ![u0] = a]
  BY DEF AdminUsers!RoleWrite, UsersTypes
<1>5. UNCHANGED <<roleLog, edited, week>>
  BY DEF AdminUsers!RoleWrite
<1> HIDE DEF c, a, Change, AccountRow
<1> QED
  BY <1>1, <1>2, <1>3, <1>4, <1>5 DEF UsersTypes

LEMMA RoleIsLogged ==
    ASSUME UsersTypes, NEW w \in Workers, AdminUsers!RoleLog(w)
    PROVE  /\ change[w].pc = "log" /\ change[w].user \in Users /\ change[w].role \in Given
           /\ change' \in [Workers -> Change] /\ \A v \in Workers \ {w} : change'[v] = change[v]
           /\ change'[w] = AdminUsers!Idle
           /\ roleLog' \in Seq(Entry) /\ Len(roleLog') = Len(roleLog) + 1
           /\ \A i \in DOMAIN roleLog : roleLog'[i] = roleLog[i]
           /\ roleLog'[Len(roleLog) + 1] =
                [target |-> change[w].user, previous |-> change[w].previous, next |-> change[w].role]
           /\ UNCHANGED <<account, edited, week>>
<1>1. change[w] \in Change /\ change[w].pc = "log" /\ change[w].user \in Users /\ change[w].role \in Given
  BY DEF AdminUsers!RoleLog, UsersTypes, Change
<1> DEFINE x == [target |-> change[w].user, previous |-> change[w].previous, next |-> change[w].role]
<1>2. x \in Entry
  BY <1>1 DEF Change, Entry
<1>3. roleLog' = Append(roleLog, x) /\ change' = [change EXCEPT ![w] = AdminUsers!Idle]
      /\ UNCHANGED <<account, edited, week>>
  BY DEF AdminUsers!RoleLog
<1> HIDE DEF x, Entry, Change
<1>4. /\ roleLog' \in Seq(Entry) /\ Len(roleLog') = Len(roleLog) + 1
      /\ \A i \in DOMAIN roleLog : roleLog'[i] = roleLog[i]
      /\ roleLog'[Len(roleLog) + 1] = x
  BY <1>2, <1>3 DEF UsersTypes
<1>5. /\ change' \in [Workers -> Change] /\ \A v \in Workers \ {w} : change'[v] = change[v]
      /\ change'[w] = AdminUsers!Idle
  BY <1>3, IdleIsChange DEF UsersTypes
<1> QED
  BY <1>1, <1>3, <1>4, <1>5 DEF x

LEMMA ChangeDies ==
    ASSUME UsersTypes, NEW w \in Workers, AdminUsers!Die(w)
    PROVE  /\ change' \in [Workers -> Change] /\ \A v \in Workers \ {w} : change'[v] = change[v]
           /\ change'[w] = AdminUsers!Idle /\ change[w] # AdminUsers!Idle
           /\ edited' \in SUBSET Users /\ edited \subseteq edited'
           /\ change[w].pc = "log" => change[w].user \in edited'
           /\ UNCHANGED <<account, roleLog, week>>
<1>1. change[w].pc = "log" => change[w].user \in Users
  BY DEF UsersTypes, Change
<1> QED
  BY <1>1, IdleIsChange DEF AdminUsers!Die, UsersTypes

\* The steps of which the log knows nothing.
LEMMA UserWrites ==
    ASSUME AdminUsers!AdminUsersAssumption, UsersTypes, NEW u \in Users,
           \/ \E list \in {<<r>> : r \in RoleNames} :
                \/ \E password \in BOOLEAN : AdminUsers!create(u, list, password)
                \/ \E active \in BOOLEAN : AdminUsers!update(u, list, active)
           \/ \E mark \in {"pending", "ready"} : AdminUsers!SetProfile(u, mark)
    PROVE  /\ account' \in [Users -> AccountRow] /\ \A v \in Users \ {u} : account'[v] = account[v]
           /\ account'[u].created <= week /\ account'[u].roles # << >>
           /\ edited' \in SUBSET Users /\ edited \subseteq edited' /\ UNCHANGED <<roleLog, change, week>>
           /\ account'[u].roles = account[u].roles \/ u \notin AdminUsers!Stored \/ u \in edited'
<1>0. \A r : <<r>> # << >>
  OBVIOUS
<1>1. ASSUME NEW list \in {<<r>> : r \in RoleNames}, NEW password \in BOOLEAN,
             AdminUsers!create(u, list, password)
      PROVE  /\ account' \in [Users -> AccountRow] /\ \A v \in Users \ {u} : account'[v] = account[v]
             /\ account'[u].created <= week /\ account'[u].roles # << >>
             /\ edited' = edited /\ UNCHANGED <<roleLog, change, week>>
             /\ u \notin AdminUsers!Stored
  <2> DEFINE n == AdminUsers!NoUser
             b == [n EXCEPT !.roles = list]
             c == [b EXCEPT !.password = password]
             a == [c EXCEPT !.created = week]
  <2>1. /\ account' = [account EXCEPT ![u] = [n EXCEPT !.roles = list, !.password = password,
                                                       !.created = week]]
        /\ u \notin AdminUsers!Stored
        /\ edited' = edited /\ UNCHANGED <<roleLog, change, week>>
    BY <1>1 DEF AdminUsers!create
  <2>2. list \in RoleSet /\ list # << >>
    BY <1>0 DEF RoleSet
  <2>3. n \in AccountRow
    BY DEF AdminUsers!NoUser, AccountRow, RoleSet
  <2> HIDE DEF RoleSet, n
  <2>4. b \in AccountRow /\ b.roles = list
    BY <2>2, <2>3 DEF AccountRow
  <2> HIDE DEF b
  <2>5. c \in AccountRow /\ c.roles = list
    BY <2>4 DEF AccountRow
  <2> HIDE DEF c
  <2>6. a \in AccountRow /\ a.roles = list /\ a.created = week
    BY <2>5 DEF AccountRow, UsersTypes
  <2>7. a = [n EXCEPT !.roles = list, !.password = password, !.created = week]
    BY <2>3 DEF AccountRow, a, b, c
  <2> HIDE DEF a, AccountRow
  <2> QED
    BY <2>1, <2>2, <2>6, <2>7 DEF UsersTypes
<1>2. ASSUME NEW list \in {<<r>> : r \in RoleNames}, NEW active \in BOOLEAN,
             AdminUsers!update(u, list, active)
      PROVE  /\ account' \in [Users -> AccountRow] /\ \A v \in Users \ {u} : account'[v] = account[v]
             /\ account'[u].created <= week /\ account'[u].roles # << >>
             /\ edited' \in SUBSET Users /\ edited \subseteq edited' /\ UNCHANGED <<roleLog, change, week>>
             /\ account'[u].roles = account[u].roles \/ u \in edited'
  <2> DEFINE b == [account[u] EXCEPT !.roles = list]
             a == [b EXCEPT !.active = active]
  <2>1. /\ account' = [account EXCEPT ![u].roles = list, ![u].active = active]
        /\ edited' = IF list # account[u].roles THEN edited \cup {u} ELSE edited
        /\ UNCHANGED <<roleLog, change, week>>
    BY <1>2 DEF AdminUsers!update
  <2>2. account[u] \in AccountRow /\ account[u].created <= week
    BY DEF UsersTypes
  <2>3. list \in RoleSet /\ list # << >>
    BY <1>0 DEF RoleSet
  <2> HIDE DEF RoleSet
  <2>4. b \in AccountRow /\ b.roles = list /\ b.created = account[u].created
    BY <2>2, <2>3 DEF AccountRow
  <2> HIDE DEF b
  <2>5. a \in AccountRow /\ a.roles = list /\ a.created = account[u].created
    BY <2>4 DEF AccountRow
  <2>6. account' = [account EXCEPT ![u] = a]
    BY <2>1 DEF UsersTypes, b
  <2> HIDE DEF a, AccountRow
  <2> QED
    BY <2>1, <2>2, <2>3, <2>5, <2>6 DEF UsersTypes
<1>3. ASSUME NEW mark \in {"pending", "ready"}, AdminUsers!SetProfile(u, mark)
      PROVE  /\ account' \in [Users -> AccountRow] /\ \A v \in Users \ {u} : account'[v] = account[v]
             /\ account'[u].created <= week /\ account'[u].roles # << >>
             /\ edited' = edited /\ UNCHANGED <<roleLog, change, week>>
             /\ account'[u].roles = account[u].roles
  <2> DEFINE a == [account[u] EXCEPT !.profile = mark]
  <2>1. /\ account' = [account EXCEPT ![u] = a] /\ account[u].roles # << >>
        /\ edited' = edited /\ UNCHANGED <<roleLog, change, week>>
    BY <1>3 DEF AdminUsers!SetProfile, AdminUsers!Stored, UsersTypes
  <2>2. a \in AccountRow /\ a.roles = account[u].roles /\ a.created = account[u].created
    <3>1. account[u] \in AccountRow
      BY DEF UsersTypes
    <3> HIDE DEF RoleSet
    <3> QED
      BY <3>1 DEF AccountRow
  <2> HIDE DEF a, AccountRow
  <2> QED
    BY <2>1, <2>2 DEF UsersTypes
<1>4. edited \in SUBSET Users
  BY DEF UsersTypes
<1> QED
  BY <1>1, <1>2, <1>3, <1>4

\* Every step is one of these, or the week ends.
LEMMA UserStep ==
    ASSUME AdminUsers!AdminUsersAssumption, UsersTypes, AdminUsers!Next
    PROVE  \/ \E w \in Workers : \/ \E u \in Users, role \in Given : AdminUsers!RoleRead(w, u, role)
                                 \/ AdminUsers!RoleWrite(w) \/ AdminUsers!RoleLog(w) \/ AdminUsers!Die(w)
           \/ \E u \in Users :
                \/ \E list \in {<<r>> : r \in RoleNames} :
                     \/ \E password \in BOOLEAN : AdminUsers!create(u, list, password)
                     \/ \E active \in BOOLEAN : AdminUsers!update(u, list, active)
                \/ \E mark \in {"pending", "ready"} : AdminUsers!SetProfile(u, mark)
           \/ week' = week + 1 /\ UNCHANGED <<account, roleLog, change, edited>>
BY Zenon DEF AdminUsers!Next, AdminUsers!Tick, Given

LEMMA UsersTypesStay ==
    ASSUME AdminUsers!AdminUsersAssumption, UsersTypes, AdminUsers!Next
    PROVE  UsersTypes'
<1>1. ASSUME NEW w \in Workers, NEW u \in Users, NEW role \in Given, AdminUsers!RoleRead(w, u, role)
      PROVE  UsersTypes'
  BY <1>1, RoleIsRead DEF UsersTypes
<1>2. ASSUME NEW w \in Workers, AdminUsers!RoleWrite(w)
      PROVE  UsersTypes'
  BY <1>2, RoleIsWritten DEF UsersTypes
<1>3. ASSUME NEW w \in Workers, AdminUsers!RoleLog(w)
      PROVE  UsersTypes'
  BY <1>3, RoleIsLogged DEF UsersTypes
<1>4. ASSUME NEW w \in Workers, AdminUsers!Die(w)
      PROVE  UsersTypes'
  BY <1>4, ChangeDies DEF UsersTypes
<1>5. ASSUME NEW u \in Users,
             \/ \E list \in {<<r>> : r \in RoleNames} :
                  \/ \E password \in BOOLEAN : AdminUsers!create(u, list, password)
                  \/ \E active \in BOOLEAN : AdminUsers!update(u, list, active)
             \/ \E mark \in {"pending", "ready"} : AdminUsers!SetProfile(u, mark)
      PROVE  UsersTypes'
  <2>1. /\ account' \in [Users -> AccountRow] /\ \A v \in Users \ {u} : account'[v] = account[v]
        /\ account'[u].created <= week
        /\ edited' \in SUBSET Users /\ UNCHANGED <<roleLog, change, week>>
    BY <1>5, UserWrites
  <2> QED
    BY <2>1 DEF UsersTypes
<1>6. ASSUME week' = week + 1, UNCHANGED <<account, roleLog, change, edited>>
      PROVE  UsersTypes'
  <2>1. \A u \in Users : account[u].created \in Nat
    BY DEF UsersTypes, AccountRow
  <2> QED
    BY <1>6, <2>1 DEF UsersTypes
<1> QED
  BY <1>1, <1>2, <1>3, <1>4, <1>5, <1>6, UserStep

\* Whoever a change or an entry is about is there; the roles of a user nobody edited are
\* those of an entry, or of a change about to be logged, or nothing was ever changed.
Changing == {w \in Workers : change[w].pc # "idle"}
ToldRole(u) ==
    \/ \E i \in DOMAIN roleLog : roleLog[i].target = u /\ <<roleLog[i].next>> = account[u].roles
    \/ \E w \in Workers : /\ change[w].pc = "log" /\ change[w].user = u
                          /\ <<change[w].role>> = account[u].roles
    \/ /\ \A i \in DOMAIN roleLog : roleLog[i].target # u
       /\ \A w \in Workers : ~(change[w].pc = "log" /\ change[w].user = u)
RolesKept ==
    /\ Len(roleLog) + Cardinality(Changing) <= MaxChanges + Cardinality(Workers)
    /\ \A w \in Workers : change[w].pc # "idle" => change[w].user \in AdminUsers!Stored
    /\ \A i \in DOMAIN roleLog : roleLog[i].target \in AdminUsers!Stored
    /\ \A u \in AdminUsers!Stored \ edited : ToldRole(u)

LEMMA ChangesAreFinite ==
    ASSUME AdminUsers!AdminUsersAssumption
    PROVE  /\ IsFiniteSet(Changing) /\ Cardinality(Changing) \in Nat
           /\ IsFiniteSet(Changing') /\ Cardinality(Changing') \in Nat
           /\ Cardinality(Changing) <= Cardinality(Workers) /\ Cardinality(Workers) \in Nat
<1>1. Changing \subseteq Workers /\ Changing' \subseteq Workers /\ IsFiniteSet(Workers)
  BY UserConstants DEF Changing
<1>2. IsFiniteSet(Changing) /\ IsFiniteSet(Changing') /\ Cardinality(Changing) <= Cardinality(Workers)
  BY <1>1, FS_Subset
<1> QED
  BY <1>1, <1>2, FS_CardinalityType

LEMMA StoredGrows ==
    ASSUME AdminUsers!AdminUsersAssumption, UsersTypes, AdminUsers!Next
    PROVE  AdminUsers!Stored \subseteq AdminUsers!Stored'
<1>0. \A r : <<r>> # << >>
  OBVIOUS
<1>1. ASSUME NEW w \in Workers, AdminUsers!RoleWrite(w)
      PROVE  AdminUsers!Stored \subseteq AdminUsers!Stored'
  BY <1>0, <1>1, RoleIsWritten DEF AdminUsers!Stored
<1>2. ASSUME account' = account
      PROVE  AdminUsers!Stored \subseteq AdminUsers!Stored'
  BY <1>2 DEF AdminUsers!Stored
<1>3. ASSUME NEW u \in Users, account'[u].roles # << >>, \A v \in Users \ {u} : account'[v] = account[v]
      PROVE  AdminUsers!Stored \subseteq AdminUsers!Stored'
  BY <1>3 DEF AdminUsers!Stored
<1> QED
  BY <1>1, <1>2, <1>3, UserStep, UserWrites, RoleIsRead, RoleIsLogged, ChangeDies

LEMMA RolesStayKept ==
    ASSUME AdminUsers!AdminUsersAssumption, UsersTypes, RolesKept, AdminUsers!Next
    PROVE  RolesKept'
<1>a. AdminUsers!Stored \subseteq AdminUsers!Stored' /\ AdminUsers!Idle.pc = "idle"
  BY StoredGrows DEF AdminUsers!Idle
<1>b. Len(roleLog) \in Nat /\ MaxChanges \in Nat
  BY UserConstants DEF UsersTypes
<1>c. /\ IsFiniteSet(Changing) /\ Cardinality(Changing) \in Nat
      /\ IsFiniteSet(Changing') /\ Cardinality(Changing') \in Nat
      /\ Cardinality(Changing) <= Cardinality(Workers) /\ Cardinality(Workers) \in Nat
  BY ChangesAreFinite
<1>1. ASSUME NEW w \in Workers, NEW u \in Users, NEW role \in Given, AdminUsers!RoleRead(w, u, role)
      PROVE  RolesKept'
  <2>1. /\ \A v \in Workers \ {w} : change'[v] = change[v]
        /\ change'[w].pc = "update" /\ change'[w].user = u /\ change[w].pc = "idle" /\ u \in AdminUsers!Stored
        /\ UNCHANGED <<account, roleLog, edited, week>>
    <3>1. /\ \A v \in Workers \ {w} : change'[v] = change[v]
          /\ change'[w] = [pc |-> "update", user |-> u, role |-> role, previous |-> account[u].roles]
          /\ change[w].pc = "idle" /\ u \in AdminUsers!Stored
          /\ UNCHANGED <<account, roleLog, edited, week>>
      BY <1>1, RoleIsRead, Zenon
    <3> QED
      BY <3>1
  <2>2. Len(roleLog) < MaxChanges
    BY <1>1 DEF AdminUsers!RoleRead
  <2>3. Cardinality(Changing') <= Cardinality(Workers)
    BY UserConstants, FS_Subset DEF Changing
  <2>4. \A v \in Users : ToldRole(v) => ToldRole(v)'
    BY <2>1 DEF ToldRole
  <2>5. AdminUsers!Stored' = AdminUsers!Stored
    BY <2>1 DEF AdminUsers!Stored
  <2>6. Len(roleLog') + Cardinality(Changing') <= MaxChanges + Cardinality(Workers)
    BY <1>b, <1>c, <2>1, <2>2, <2>3
  <2> QED
    BY <2>1, <2>4, <2>5, <2>6 DEF RolesKept, AdminUsers!Stored
<1>2. ASSUME NEW w \in Workers, AdminUsers!RoleWrite(w)
      PROVE  RolesKept'
  <2>1. /\ change[w].pc = "update" /\ change[w].user \in Users /\ change[w].role \in Given
        /\ \A v \in Workers \ {w} : change'[v] = change[v]
        /\ change'[w].pc = "log" /\ change'[w].user = change[w].user
        /\ change'[w].role = change[w].role
        /\ account'[change[w].user].roles = <<change[w].role>>
        /\ \A u \in Users \ {change[w].user} : account'[u] = account[u]
        /\ UNCHANGED <<roleLog, edited, week>>
    BY <1>2, RoleIsWritten
  <2>2. Changing' = Changing
    BY <2>1 DEF Changing
  <2>3. change[w].user \in AdminUsers!Stored
    BY <2>1 DEF RolesKept
  <2>4. AdminUsers!Stored' = AdminUsers!Stored
    BY <1>a, <2>1, <2>3 DEF AdminUsers!Stored
  <2>5. ASSUME NEW u \in AdminUsers!Stored \ edited
        PROVE  ToldRole(u)'
    <3>1. CASE u = change[w].user
      BY <2>1, <3>1 DEF ToldRole
    <3>2. CASE u # change[w].user
      BY <2>1, <3>2 DEF ToldRole, RolesKept, AdminUsers!Stored
    <3> QED
      BY <3>1, <3>2
  <2>6. \A v \in Workers : change'[v].pc # "idle" => change'[v].user \in AdminUsers!Stored
    BY <2>1, <2>3 DEF RolesKept
  <2> QED
    BY <2>1, <2>2, <2>4, <2>5, <2>6 DEF RolesKept
<1>3. ASSUME NEW w \in Workers, AdminUsers!RoleLog(w)
      PROVE  RolesKept'
  <2>1. /\ change[w].pc = "log" /\ change[w].user \in Users
        /\ \A v \in Workers \ {w} : change'[v] = change[v]
        /\ change'[w] = AdminUsers!Idle
        /\ roleLog' \in Seq(Entry) /\ Len(roleLog') = Len(roleLog) + 1
        /\ \A i \in DOMAIN roleLog : roleLog'[i] = roleLog[i]
        /\ roleLog'[Len(roleLog) + 1] =
             [target |-> change[w].user, previous |-> change[w].previous, next |-> change[w].role]
        /\ UNCHANGED <<account, edited, week>>
    BY <1>3, RoleIsLogged
  <2>2. DOMAIN roleLog = 1..Len(roleLog) /\ DOMAIN roleLog' = 1..(Len(roleLog) + 1)
    BY <2>1 DEF UsersTypes
  <2>3. /\ DOMAIN roleLog' = DOMAIN roleLog \cup {Len(roleLog) + 1}
    BY <1>b, <2>2
  <2>4. Cardinality(Changing') <= Cardinality(Changing) - 1
    <3>1. w \in Changing /\ w \notin Changing' /\ Changing' \subseteq Changing \cup {w}
      BY <1>a, <2>1 DEF Changing
    <3> QED
      BY <1>c, <3>1, OneMoreAtMost
  <2>5. Len(roleLog') + Cardinality(Changing') <= MaxChanges + Cardinality(Workers)
    BY <1>b, <1>c, <2>1, <2>4 DEF RolesKept
  <2>6. AdminUsers!Stored' = AdminUsers!Stored
    BY <2>1 DEF AdminUsers!Stored
  <2>7. change[w].user \in AdminUsers!Stored
    BY <2>1 DEF RolesKept
  <2>8. ASSUME NEW u \in AdminUsers!Stored \ edited
        PROVE  ToldRole(u)'
    <3>0. ToldRole(u)
      BY DEF RolesKept
    <3>1. ASSUME NEW i \in DOMAIN roleLog, roleLog[i].target = u, <<roleLog[i].next>> = account[u].roles
          PROVE  ToldRole(u)'
      BY <2>1, <2>3, <3>1 DEF ToldRole
    <3>2. ASSUME change[w].user = u, <<change[w].role>> = account[u].roles
          PROVE  ToldRole(u)'
      BY <2>1, <2>3, <3>2 DEF ToldRole
    <3>3. ASSUME NEW v \in Workers \ {w}, change[v].pc = "log", change[v].user = u,
                 <<change[v].role>> = account[u].roles
          PROVE  ToldRole(u)'
      BY <2>1, <3>3 DEF ToldRole
    <3>4. ASSUME \A i \in DOMAIN roleLog : roleLog[i].target # u,
                 \A v \in Workers : ~(change[v].pc = "log" /\ change[v].user = u)
          PROVE  ToldRole(u)'
      <4>1. change[w].user # u
        BY <2>1, <3>4
      <4>2. \A i \in DOMAIN roleLog' : roleLog'[i].target # u
        BY <2>1, <2>3, <3>4, <4>1
      <4>3. \A v \in Workers : ~(change'[v].pc = "log" /\ change'[v].user = u)
        BY <1>a, <2>1, <3>4
      <4> QED
        BY <4>2, <4>3 DEF ToldRole
    <3> QED
      BY <3>0, <3>1, <3>2, <3>3, <3>4 DEF ToldRole
  <2>9. \A v \in Workers : change'[v].pc # "idle" => change'[v].user \in AdminUsers!Stored
    BY <1>a, <2>1 DEF RolesKept
  <2>10. \A i \in DOMAIN roleLog' : roleLog'[i].target \in AdminUsers!Stored
    BY <2>1, <2>3, <2>7 DEF RolesKept
  <2> QED
    BY <2>1, <2>5, <2>6, <2>8, <2>9, <2>10 DEF RolesKept
<1>4. ASSUME NEW w \in Workers, AdminUsers!Die(w)
      PROVE  RolesKept'
  <2>1. /\ \A v \in Workers \ {w} : change'[v] = change[v]
        /\ change'[w].pc = "idle" /\ edited \subseteq edited'
        /\ change[w].pc = "log" => change[w].user \in edited'
        /\ UNCHANGED <<account, roleLog, week>>
    BY <1>4, <1>a, ChangeDies
  <2>2. AdminUsers!Stored' = AdminUsers!Stored
    BY <2>1 DEF AdminUsers!Stored
  <2>3. Cardinality(Changing') <= Cardinality(Changing)
    <3>1. Changing' \subseteq Changing
      BY <2>1 DEF Changing
    <3> QED
      BY <1>c, <3>1, FS_Subset
  <2>4. ASSUME NEW u \in AdminUsers!Stored \ edited'
        PROVE  ToldRole(u)'
    <3>1. ToldRole(u)
      BY <2>1 DEF RolesKept
    <3>2. ~(change[w].pc = "log" /\ change[w].user = u)
      BY <2>1, <2>4
    <3> QED
      BY <2>1, <3>1, <3>2 DEF ToldRole
  <2>5. Len(roleLog') + Cardinality(Changing') <= MaxChanges + Cardinality(Workers)
    BY <1>b, <1>c, <2>1, <2>3 DEF RolesKept
  <2> QED
    BY <2>1, <2>2, <2>4, <2>5 DEF RolesKept
<1>5. ASSUME NEW u \in Users,
             /\ \A v \in Users \ {u} : account'[v] = account[v]
             /\ edited \subseteq edited' /\ UNCHANGED <<roleLog, change, week>>
             /\ account'[u].roles = account[u].roles \/ u \notin AdminUsers!Stored \/ u \in edited'
      PROVE  RolesKept'
  <2>1. Changing' = Changing
    BY <1>5 DEF Changing
  <2>2. ASSUME NEW v \in AdminUsers!Stored' \ edited'
        PROVE  ToldRole(v)'
    <3>1. CASE account'[v].roles = account[v].roles
      <4>1. v \in AdminUsers!Stored \ edited
        BY <1>5, <2>2, <3>1 DEF AdminUsers!Stored
      <4> QED
        BY <1>5, <3>1, <4>1 DEF ToldRole, RolesKept
    <3>2. CASE v \notin AdminUsers!Stored
      BY <1>5, <3>2 DEF ToldRole, RolesKept
    <3> QED
      BY <1>5, <2>2, <3>1, <3>2 DEF AdminUsers!Stored
  <2> QED
    BY <1>a, <1>5, <2>1, <2>2 DEF RolesKept
<1>6. ASSUME UNCHANGED <<account, roleLog, change, edited>>
      PROVE  RolesKept'
  BY <1>6 DEF RolesKept, Changing, ToldRole, AdminUsers!Stored
<1> QED
  BY <1>1, <1>2, <1>3, <1>4, <1>5, <1>6, UserStep, UserWrites

\* One change at a time: it has read the roles there are, and the entries are a chain.
Behind(u, i, j) ==
    /\ roleLog[i].target = u /\ roleLog[j].target = u /\ i < j
    /\ \A k \in DOMAIN roleLog : roleLog[k].target = u /\ k > i => k >= j
IsLast(u, i) ==
    roleLog[i].target = u /\ \A k \in DOMAIN roleLog : roleLog[k].target = u => k <= i
ChainKept ==
    /\ \A v, w \in Workers : change[v].pc # "idle" /\ change[w].pc # "idle" => v = w
    /\ \A w \in Workers :
         /\ change[w].pc = "update" => change[w].previous = account[change[w].user].roles
         /\ change[w].pc = "log" => account[change[w].user].roles = <<change[w].role>>
    /\ \A u \in AdminUsers!Stored \ edited, i, j \in DOMAIN roleLog :
         Behind(u, i, j) => roleLog[j].previous = <<roleLog[i].next>>
    /\ \A u \in AdminUsers!Stored \ edited, i \in DOMAIN roleLog : IsLast(u, i) =>
         /\ \A w \in Workers : change[w].pc = "log" /\ change[w].user = u =>
              change[w].previous = <<roleLog[i].next>>
         /\ (\A w \in Workers : ~(change[w].pc = "log" /\ change[w].user = u)) =>
              account[u].roles = <<roleLog[i].next>>

LEMMA SerialUsersIsNext == AdminUsers!Serial => AdminUsers!Next
BY DEF AdminUsers!Serial, AdminUsers!Next

LEMMA ChainStays ==
    ASSUME AdminUsers!AdminUsersAssumption, UsersTypes, RolesKept, ChainKept, AdminUsers!Serial
    PROVE  ChainKept'
<1>a. /\ AdminUsers!Idle.pc = "idle" /\ AdminUsers!Next
      /\ \A i \in DOMAIN roleLog : i \in Nat /\ i <= Len(roleLog)
      /\ Len(roleLog) \in Nat
  BY SerialUsersIsNext DEF AdminUsers!Idle, UsersTypes
<1>1. ASSUME NEW w \in Workers, AdminUsers!RoleWrite(w)
      PROVE  ChainKept'
  <2>1. /\ change[w].pc = "update" /\ change[w].user \in Users
        /\ \A v \in Workers \ {w} : change'[v] = change[v]
        /\ change'[w].pc = "log" /\ change'[w].user = change[w].user
        /\ change'[w].role = change[w].role /\ change'[w].previous = change[w].previous
        /\ account'[change[w].user].roles = <<change[w].role>>
        /\ \A u \in Users \ {change[w].user} : account'[u] = account[u]
        /\ UNCHANGED <<roleLog, edited, week>>
    BY <1>1, RoleIsWritten
  <2>2. \A v \in Workers \ {w} : change[v].pc = "idle" /\ change'[v].pc = "idle"
    BY <2>1 DEF ChainKept
  <2>3. change[w].user \in AdminUsers!Stored /\ change[w].previous = account[change[w].user].roles
    BY <2>1 DEF ChainKept, RolesKept
  <2>4. AdminUsers!Stored' = AdminUsers!Stored
    BY <1>a, <2>1, <2>3, StoredGrows DEF AdminUsers!Stored
  <2>5. \A v \in Workers :
          /\ change'[v].pc = "update" => change'[v].previous = account'[change'[v].user].roles
          /\ change'[v].pc = "log" => account'[change'[v].user].roles = <<change'[v].role>>
    BY <2>1, <2>2
  <2>6. /\ \A u, i, j : Behind(u, i, j)' <=> Behind(u, i, j)
        /\ \A u, i : IsLast(u, i)' <=> IsLast(u, i)
    BY <2>1 DEF Behind, IsLast
  <2>7. ASSUME NEW u \in AdminUsers!Stored \ edited, NEW i \in DOMAIN roleLog, IsLast(u, i)
        PROVE  /\ \A v \in Workers : change'[v].pc = "log" /\ change'[v].user = u =>
                    change'[v].previous = <<roleLog[i].next>>
               /\ (\A v \in Workers : ~(change'[v].pc = "log" /\ change'[v].user = u)) =>
                    account'[u].roles = <<roleLog[i].next>>
    <3>1. account[u].roles = <<roleLog[i].next>>
      BY <2>1, <2>2, <2>7 DEF ChainKept
    <3>2. CASE u = change[w].user
      BY <2>1, <2>2, <2>3, <3>1, <3>2
    <3>3. CASE u # change[w].user
      BY <2>1, <2>2, <3>1, <3>3 DEF AdminUsers!Stored
    <3> QED
      BY <3>2, <3>3
  <2>8. \A v, x \in Workers : change'[v].pc # "idle" /\ change'[x].pc # "idle" => v = x
    BY <2>2
  <2> QED
    BY <2>1, <2>4, <2>5, <2>6, <2>7, <2>8 DEF ChainKept
<1>2. ASSUME NEW w \in Workers, AdminUsers!RoleLog(w)
      PROVE  ChainKept'
  <2> DEFINE n == Len(roleLog) + 1
             f == change[w].user
  <2>1. /\ change[w].pc = "log" /\ f \in Users
        /\ \A v \in Workers \ {w} : change'[v] = change[v]
        /\ change'[w] = AdminUsers!Idle
        /\ roleLog' \in Seq(Entry) /\ Len(roleLog') = n
        /\ \A i \in DOMAIN roleLog : roleLog'[i] = roleLog[i]
        /\ roleLog'[n] = [target |-> f, previous |-> change[w].previous, next |-> change[w].role]
        /\ UNCHANGED <<account, edited, week>>
    BY <1>2, RoleIsLogged
  <2>2. /\ DOMAIN roleLog' = DOMAIN roleLog \cup {n} /\ \A i \in DOMAIN roleLog : i \in Nat /\ i < n
        /\ n \in Nat
    <3>1. DOMAIN roleLog = 1..Len(roleLog) /\ DOMAIN roleLog' = 1..n
      BY <2>1 DEF UsersTypes
    <3> QED
      BY <1>a, <3>1
  <2>3. \A v \in Workers : change'[v].pc = "idle"
    BY <1>a, <2>1 DEF ChainKept
  <2>4. AdminUsers!Stored' = AdminUsers!Stored
    BY <2>1 DEF AdminUsers!Stored
  <2>5. /\ roleLog'[n].target = f /\ roleLog'[n].previous = change[w].previous
        /\ roleLog'[n].next = change[w].role /\ account[f].roles = <<change[w].role>>
    BY <2>1 DEF ChainKept
  <2> HIDE DEF n, f
  <2>6. ASSUME NEW u \in AdminUsers!Stored \ edited, NEW i \in DOMAIN roleLog', NEW j \in DOMAIN roleLog',
               Behind(u, i, j)'
        PROVE  roleLog'[j].previous = <<roleLog'[i].next>>
    <3>1. i \in DOMAIN roleLog /\ i # n
      BY <2>2, <2>6 DEF Behind
    <3>2. CASE j = n
      <4>1. u = f /\ roleLog[i].target = u
        BY <2>1, <2>5, <2>6, <3>1, <3>2 DEF Behind
      <4>2. \A k \in DOMAIN roleLog : roleLog[k].target = u => k <= i
        BY <2>1, <2>2, <2>6, <3>1, <3>2 DEF Behind
      <4>3. change[w].previous = <<roleLog[i].next>>
        BY <2>1, <3>1, <4>1, <4>2 DEF ChainKept, IsLast, f
      <4> QED
        BY <2>1, <2>5, <3>1, <3>2, <4>3
    <3>3. CASE j # n
      <4>1. j \in DOMAIN roleLog
        BY <2>2, <3>3
      <4>2. Behind(u, i, j)
        BY <2>1, <2>2, <2>6, <3>1, <4>1 DEF Behind
      <4> QED
        BY <2>1, <3>1, <4>1, <4>2 DEF ChainKept
    <3> QED
      BY <3>2, <3>3
  <2>7. ASSUME NEW u \in AdminUsers!Stored \ edited, NEW i \in DOMAIN roleLog', IsLast(u, i)'
        PROVE  account'[u].roles = <<roleLog'[i].next>>
    <3>1. CASE i = n
      BY <2>1, <2>5, <2>7, <3>1 DEF IsLast
    <3>2. CASE i # n
      <4>1. i \in DOMAIN roleLog /\ IsLast(u, i)
        BY <2>1, <2>2, <2>7, <3>2 DEF IsLast
      <4>2. u # f
        BY <2>2, <2>5, <2>7, <4>1 DEF IsLast
      <4>3. \A v \in Workers : ~(change[v].pc = "log" /\ change[v].user = u)
        BY <2>1, <2>3, <4>2 DEF f
      <4> QED
        BY <2>1, <4>1, <4>3 DEF ChainKept
    <3> QED
      BY <3>1, <3>2
  <2> QED
    BY <2>1, <2>3, <2>4, <2>6, <2>7 DEF ChainKept
<1>3. CASE \A w \in Workers : change[w] = AdminUsers!Idle
  <2>1. \A w \in Workers : change[w].pc = "idle"
    BY <1>3, <1>a
  <2>2. ASSUME NEW w \in Workers, NEW u \in Users, NEW role \in Given, AdminUsers!RoleRead(w, u, role)
        PROVE  ChainKept'
    <3>1. /\ \A v \in Workers \ {w} : change'[v] = change[v]
          /\ change'[w] = [pc |-> "update", user |-> u, role |-> role, previous |-> account[u].roles]
          /\ UNCHANGED <<account, roleLog, edited, week>>
      BY <2>2, RoleIsRead, Zenon
    <3>2. /\ \A v \in Workers \ {w} : change'[v].pc = "idle"
          /\ change'[w].pc = "update" /\ change'[w].previous = account[change'[w].user].roles
      BY <2>1, <3>1
    <3>3. AdminUsers!Stored' = AdminUsers!Stored
      BY <3>1 DEF AdminUsers!Stored
    <3>4. /\ \A v, i, j : Behind(v, i, j)' <=> Behind(v, i, j)
          /\ \A v, i : IsLast(v, i)' <=> IsLast(v, i)
      BY <3>1 DEF Behind, IsLast
    <3>5. ASSUME NEW v \in AdminUsers!Stored \ edited, NEW i \in DOMAIN roleLog, IsLast(v, i)
          PROVE  account[v].roles = <<roleLog[i].next>>
      BY <2>1, <3>5 DEF ChainKept
    <3> QED
      BY <3>1, <3>2, <3>3, <3>4, <3>5 DEF ChainKept
  <2>3. ASSUME NEW w \in Workers, AdminUsers!RoleWrite(w) \/ AdminUsers!RoleLog(w)
        PROVE  FALSE
    BY <2>1, <2>3 DEF AdminUsers!RoleWrite, AdminUsers!RoleLog
  <2>4. ASSUME NEW w \in Workers, AdminUsers!Die(w)
        PROVE  FALSE
    BY <1>3, <2>4 DEF AdminUsers!Die
  <2>5. ASSUME UNCHANGED <<roleLog, change>>, edited \subseteq edited',
               \A u \in AdminUsers!Stored' \ edited' :
                  u \in AdminUsers!Stored => account'[u].roles = account[u].roles
        PROVE  ChainKept'
    <3>1. /\ \A v, i, j : Behind(v, i, j)' <=> Behind(v, i, j)
          /\ \A v, i : IsLast(v, i)' <=> IsLast(v, i)
      BY <2>5 DEF Behind, IsLast
    <3>2. ASSUME NEW u \in AdminUsers!Stored' \ edited', NEW i \in DOMAIN roleLog, roleLog[i].target = u
          PROVE  u \in AdminUsers!Stored \ edited /\ account'[u].roles = account[u].roles
      BY <2>5, <3>2 DEF RolesKept
    <3>3. ASSUME NEW u \in AdminUsers!Stored' \ edited', NEW i \in DOMAIN roleLog, IsLast(u, i)
          PROVE  account'[u].roles = <<roleLog[i].next>>
      BY <2>1, <3>2, <3>3 DEF ChainKept, IsLast
    <3>4. ASSUME NEW u \in AdminUsers!Stored' \ edited', NEW i \in DOMAIN roleLog, NEW j \in DOMAIN roleLog,
                 Behind(u, i, j)
          PROVE  roleLog[j].previous = <<roleLog[i].next>>
      BY <3>2, <3>4 DEF ChainKept, Behind
    <3> QED
      BY <2>1, <2>5, <3>1, <3>3, <3>4 DEF ChainKept
  <2>6. ASSUME NEW u \in Users,
               /\ \A v \in Users \ {u} : account'[v] = account[v]
               /\ edited \subseteq edited' /\ UNCHANGED <<roleLog, change, week>>
               /\ account'[u].roles = account[u].roles \/ u \notin AdminUsers!Stored \/ u \in edited'
        PROVE  ChainKept'
    <3>1. \A v \in AdminUsers!Stored' \ edited' :
            v \in AdminUsers!Stored => account'[v].roles = account[v].roles
      BY <2>6 DEF AdminUsers!Stored
    <3> QED
      BY <2>5, <2>6, <3>1
  <2>7. ASSUME UNCHANGED <<account, roleLog, change, edited>>
        PROVE  ChainKept'
    BY <2>5, <2>7
  <2> QED
    BY <1>a, <2>2, <2>3, <2>4, <2>6, <2>7, UserStep, UserWrites
<1> QED
  BY <1>1, <1>2, <1>3 DEF AdminUsers!Serial

\* Everybody with the role is pending, ready or suspended.
LEMMA MaxIsIt ==
    ASSUME NEW n \in Nat
    PROVE  AdminUsers!Max({n, 0}) = n
<1>1. \A x \in {n, 0} : n >= x
  OBVIOUS
<1>2. \A m \in {n, 0} : (\A x \in {n, 0} : m >= x) => m = n
  OBVIOUS
<1> QED
  BY <1>1, <1>2 DEF AdminUsers!Max

LEMMA ProvidersSum ==
    ASSUME AdminUsers!AdminUsersAssumption
    PROVE  AdminUsers!ProvidersAddUp
<1> DEFINE S == AdminUsers!Stored
           P == {u \in S : AdminUsers!Has(u, "provider")}
           R == {u \in AdminUsers!Profiled : account[u].profile = "ready" /\ account[u].active}
           D == {u \in AdminUsers!Profiled : ~account[u].active}
           W == {u \in S : AdminUsers!Has(u, "provider") /\ account[u].profile # "ready"
                           /\ (account[u].active \/ account[u].profile = "none")}
<1> SUFFICES ASSUME \A u \in AdminUsers!Profiled : AdminUsers!Has(u, "provider")
             PROVE  AdminUsers!providersPending = AdminUsers!Cardinality(W)
  BY DEF AdminUsers!ProvidersAddUp
<1>1. P = (R \cup D) \cup W /\ R \cap D = {} /\ (R \cup D) \cap W = {}
  BY DEF AdminUsers!Profiled
<1>2. IsFiniteSet(S)
  BY UserConstants, FS_Subset DEF AdminUsers!Stored
<1>3. R \subseteq S /\ D \subseteq S /\ W \subseteq S
  BY DEF AdminUsers!Profiled
<1>4. AdminUsers!Count("provider") = Cardinality(P)
  BY UsersCount DEF AdminUsers!Count
<1>5. AdminUsers!providersReady = Cardinality(R) /\ AdminUsers!providersSuspended = Cardinality(D)
  BY UsersCount DEF AdminUsers!providersReady, AdminUsers!providersSuspended
<1> HIDE DEF S, P, R, D, W
<1>6. IsFiniteSet(R) /\ IsFiniteSet(D) /\ IsFiniteSet(W) /\ IsFiniteSet(R \cup D)
  BY <1>2, <1>3, FS_Subset, FS_Union
<1>7. /\ Cardinality(R) \in Nat /\ Cardinality(D) \in Nat /\ Cardinality(W) \in Nat
      /\ Cardinality(R \cup D) \in Nat
  BY <1>6, FS_CardinalityType
<1>8. Cardinality(R \cup D) = Cardinality(R) + Cardinality(D)
  <2>1. Cardinality(R \cup D) = Cardinality(R) + Cardinality(D) - Cardinality(R \cap D)
    BY <1>6, FS_Union
  <2>2. Cardinality(R \cap D) = 0
    BY <1>1, FS_EmptySet
  <2> QED
    BY <1>7, <2>1, <2>2
<1>9. Cardinality(P) = Cardinality(R \cup D) + Cardinality(W)
  <2>1. Cardinality((R \cup D) \cup W) = Cardinality(R \cup D) + Cardinality(W) - Cardinality((R \cup D) \cap W)
    BY <1>6, FS_Union
  <2>2. Cardinality((R \cup D) \cap W) = 0
    BY <1>1, FS_EmptySet
  <2> QED
    BY <1>1, <1>7, <2>1, <2>2
<1>10. Cardinality(P) - Cardinality(R) - Cardinality(D) = Cardinality(W)
  BY <1>7, <1>8, <1>9
<1>11. AdminUsers!Max({Cardinality(W), 0}) = Cardinality(W)
  BY <1>7, MaxIsIt
<1> QED
  BY <1>4, <1>5, <1>10, <1>11, UsersCount DEF AdminUsers!providersPending

UsersInv ==
    /\ UsersTypes /\ RolesKept
    /\ alone => ChainKept

LEMMA UsersSay ==
    ASSUME AdminUsers!AdminUsersAssumption, UsersInv
    PROVE  /\ AdminUsers!TypeOK /\ AdminUsers!RolesAreLogged /\ (alone => AdminUsers!LogIsChain)
           /\ AdminUsers!StatusFilters /\ AdminUsers!ProvidersAddUp
<1>1. AdminUsers!TypeOK
  <2>1. Len(roleLog) <= MaxChanges + AdminUsers!Cardinality(Workers)
    <3>1. /\ Len(roleLog) + Cardinality(Changing) <= MaxChanges + Cardinality(Workers)
          /\ Len(roleLog) \in Nat
      BY DEF UsersInv, RolesKept, UsersTypes
    <3> QED
      BY <3>1, ChangesAreFinite, UserConstants, UsersCount
  <2>2. \A u \in Users : /\ account[u].roles \in {<<r>> : r \in RoleNames} \cup {<< >>, <<"client">>, <<"employee">>}
                         /\ account[u].active \in BOOLEAN /\ account[u].password \in BOOLEAN
                         /\ account[u].profile \in {"none", "pending", "ready"}
                         /\ account[u].created \in Nat /\ account[u].created <= week
    BY DEF UsersInv, UsersTypes, AccountRow, RoleSet
  <2>3. \A u \in Users : account[u].created \in 0..week
    BY <2>2 DEF UsersInv, UsersTypes
  <2> QED
    BY <2>1, <2>2, <2>3 DEF AdminUsers!TypeOK, UsersInv, UsersTypes
<1>2. AdminUsers!RolesAreLogged
  BY DEF UsersInv, RolesKept, ToldRole, AdminUsers!RolesAreLogged
<1>3. ASSUME alone
      PROVE  AdminUsers!LogIsChain
  <2> SUFFICES ASSUME NEW u \in AdminUsers!Stored \ edited, NEW i \in DOMAIN roleLog, roleLog[i].target = u
               PROVE  IF \E j \in AdminUsers!EntriesOf(u) : j > i
                        THEN \A j \in AdminUsers!EntriesOf(u) :
                               j > i /\ (\A k \in AdminUsers!EntriesOf(u) : k > i => k >= j) =>
                                 roleLog[j].previous = <<roleLog[i].next>>
                        ELSE (\A w \in Workers : change[w].user # u) => <<roleLog[i].next>> = account[u].roles
    BY DEF AdminUsers!LogIsChain
  <2>0. ChainKept /\ \A k \in DOMAIN roleLog : k \in Nat
    BY <1>3 DEF UsersInv, UsersTypes
  <2>1. ASSUME NEW j \in AdminUsers!EntriesOf(u), j > i,
               \A k \in AdminUsers!EntriesOf(u) : k > i => k >= j
        PROVE  roleLog[j].previous = <<roleLog[i].next>>
    <3>1. j \in DOMAIN roleLog /\ Behind(u, i, j)
      BY <2>0, <2>1 DEF AdminUsers!EntriesOf, Behind
    <3> QED
      BY <2>0, <3>1 DEF ChainKept
  <2>2. ASSUME ~\E j \in AdminUsers!EntriesOf(u) : j > i, \A w \in Workers : change[w].user # u
        PROVE  <<roleLog[i].next>> = account[u].roles
    <3>1. IsLast(u, i)
      BY <2>0, <2>2 DEF AdminUsers!EntriesOf, IsLast
    <3> QED
      BY <2>0, <2>2, <3>1 DEF ChainKept
  <2> QED
    BY <2>1, <2>2
<1>4. AdminUsers!StatusFilters
  <2> SUFFICES ASSUME NEW u \in AdminUsers!Stored, NEW s \in {"active", "invited", "suspended"}
               PROVE  /\ AdminUsers!deriveStatus(u) = s => u \in AdminUsers!applyUserStatusFilter(s)
                      /\ u \in AdminUsers!applyUserStatusFilter(s) =>
                           AdminUsers!deriveStatus(u) = s \/ (s = "invited" /\ ~account[u].active)
    BY DEF AdminUsers!StatusFilters
  <2> QED
    BY DEF AdminUsers!deriveStatus, AdminUsers!applyUserStatusFilter
<1> QED
  BY <1>1, <1>2, <1>3, <1>4, ProvidersSum

LEMMA UsersAtFirst ==
    ASSUME AdminUsers!AdminUsersAssumption, AdminUsers!Init
    PROVE  UsersInv
<1>1. UsersTypes
  BY UsersTypesAtFirst
<1>2. /\ roleLog = << >> /\ \A w \in Workers : change[w].pc = "idle"
      /\ AdminUsers!Stored = {}
  BY DEF AdminUsers!Init, AdminUsers!NoUser, AdminUsers!Idle, AdminUsers!Stored
<1>3. Changing = {} /\ Len(roleLog) = 0
  BY <1>2 DEF Changing
<1>4. Cardinality(Changing) = 0
  BY <1>3, FS_EmptySet
<1>5. RolesKept
  BY <1>2, <1>3, <1>4, ChangesAreFinite, UserConstants DEF RolesKept
<1>6. ChainKept
  BY <1>2 DEF ChainKept
<1> QED
  BY <1>1, <1>5, <1>6 DEF UsersInv

LEMMA UsersRest ==
    ASSUME UsersInv, UNCHANGED <<users, alone>>
    PROVE  UsersInv'
<1>1. UNCHANGED <<account, roleLog, change, edited, week, alone>>
  BY DEF users
<1>2. UsersTypes'
  BY <1>1 DEF UsersInv, UsersTypes
<1>3. RolesKept'
  BY <1>1 DEF UsersInv, RolesKept, Changing, ToldRole, AdminUsers!Stored
<1>4. alone => ChainKept'
  BY <1>1 DEF UsersInv, ChainKept, Behind, IsLast, AdminUsers!Stored
<1> QED
  BY <1>1, <1>2, <1>3, <1>4 DEF UsersInv

LEMMA UsersStay == UsersInv /\ [NextAll]_all => UsersInv'
<1> SUFFICES ASSUME UsersInv, [NextAll]_all PROVE UsersInv'
  OBVIOUS
<1>0. AdminUsers!AdminUsersAssumption
  BY AccountsAssumption
<1>1. CASE UsersNext
  <2>1. alone' = alone /\ (alone => AdminUsers!Serial) /\ (~alone => AdminUsers!Next)
    BY <1>1 DEF UsersNext
  <2>2. AdminUsers!Next
    BY <2>1, SerialUsersIsNext
  <2>3. UsersTypes' /\ RolesKept'
    BY <1>0, <2>2, UsersTypesStay, RolesStayKept DEF UsersInv
  <2>4. alone => ChainKept'
    BY <1>0, <2>1, ChainStays DEF UsersInv
  <2> QED
    BY <2>1, <2>3, <2>4 DEF UsersInv
<1>2. CASE ~UsersNext
  <2>1. UNCHANGED <<users, alone>>
    BY <1>2 DEF NextAll, all, SessionsNext, OnboardingNext, IdentityNext, RequestsNext, GdprNext, SystemNext
  <2> QED
    BY <2>1, UsersRest
<1> QED
  BY <1>1, <1>2

-----------------------------------------------------------------------------
\* AccountsSound, for all accounts, tokens, limits and overlapping requests: once the
\* requests of an account are answered only its newest sessions are live, attempts and
\* sessions tell the same, the role a user has is that of an entry of the log; requests one
\* at a time exchange a token once and leave a chain of entries; the lists and the figures
\* agree with the statuses shown.
THEOREM AccountsAreSound == SpecAll => []AccountsSound
<1>0. Sessions!SessionsAssumption /\ AdminUsers!AdminUsersAssumption
  BY AccountsAssumption
<1>1. InitAll => SessionsInv /\ UsersInv
  <2>1. InitAll => Sessions!Init /\ AdminUsers!Init
    BY DEF InitAll
  <2> QED
    BY <1>0, <2>1, SessionsAtFirst, UsersAtFirst
<1>2. SessionsInv /\ UsersInv => AccountsSound
  BY <1>0, SessionsSay, UsersSay DEF AccountsSound
<1> QED
  BY <1>1, <1>2, SessionsStay, UsersStay, PTL DEF SpecAll

-----------------------------------------------------------------------------
(***************************************************************************)
(* The check list.  A call that is about to write a stage has seen what    *)
(* that stage says, and the code a call was given is known by its number.  *)
(***************************************************************************)
Tasks == Checklist!Tasks
StagesOf == Tasks \cup {"ready", "account_created"}
Code == [number : Numbers, code : Nat, expired : BOOLEAN]
CheckOps == {"none", "step", "welcome", "profile", "phone", "fee", "refresh", "stage"}
CheckCall == {c \in [op : CheckOps, task : Tasks \cup {None}, done : SUBSET Tasks,
                     stage : StagesOf \cup {None}, pending : Code \cup {None}] :
                c.op \in {"step", "welcome", "profile"} => c.task \in Tasks}

CheckTypes ==
    /\ done \in SUBSET Tasks /\ stage \in StagesOf /\ phone \in Numbers \cup {None}
    /\ pending \in Code \cup {None} /\ delivered \in SUBSET [number : Numbers, code : Nat]
    /\ codes \in Nat /\ checkouts \in Nat /\ late \in Nat /\ used \in Nat
    /\ call \in [Workers -> CheckCall]
    /\ wasComplete \in BOOLEAN /\ behind \in BOOLEAN
    /\ phone # None => "phone" \in done

LEMMA TasksAre ==
    /\ DOMAIN Checklist!Checklist = 1..9
    /\ Tasks = {"identity", "address", "phone", "profile", "pricing", "payments", "id_check",
                "signup_fee", "welcome_session"}
    /\ "ready" \notin Tasks /\ "account_created" \notin Tasks
<1>1. DOMAIN Checklist!Checklist = 1..9
  BY DEF Checklist!Checklist
<1>2. Tasks = {Checklist!Checklist[i] : i \in 1..9}
  BY <1>1 DEF Tasks, Checklist!Tasks
<1>3. Tasks = {Checklist!Checklist[1], Checklist!Checklist[2], Checklist!Checklist[3],
               Checklist!Checklist[4], Checklist!Checklist[5], Checklist!Checklist[6],
               Checklist!Checklist[7], Checklist!Checklist[8], Checklist!Checklist[9]}
  BY <1>2
<1>4. Tasks = {"identity", "address", "phone", "profile", "pricing", "payments", "id_check",
               "signup_fee", "welcome_session"}
  BY <1>3 DEF Checklist!Checklist
<1> QED
  BY <1>1, <1>4

LEMMA LeastPosition ==
    ASSUME NEW S \in SUBSET (1..9), S # {}
    PROVE  \E i \in S : \A j \in S : i <= j
<1>1. CASE 1 \in S
  BY <1>1
<1>2. CASE 1 \notin S /\ 2 \in S
  BY <1>2
<1>3. CASE 1 \notin S /\ 2 \notin S /\ 3 \in S
  BY <1>3
<1>4. CASE 1 \notin S /\ 2 \notin S /\ 3 \notin S /\ 4 \in S
  BY <1>4
<1>5. CASE 1 \notin S /\ 2 \notin S /\ 3 \notin S /\ 4 \notin S /\ 5 \in S
  BY <1>5
<1>6. CASE 1 \notin S /\ 2 \notin S /\ 3 \notin S /\ 4 \notin S /\ 5 \notin S /\ 6 \in S
  BY <1>6
<1>7. CASE 1 \notin S /\ 2 \notin S /\ 3 \notin S /\ 4 \notin S /\ 5 \notin S /\ 6 \notin S /\ 7 \in S
  BY <1>7
<1>8. CASE 1 \notin S /\ 2 \notin S /\ 3 \notin S /\ 4 \notin S /\ 5 \notin S /\ 6 \notin S /\ 7 \notin S /\ 8 \in S
  BY <1>8
<1>9. CASE 1 \notin S /\ 2 \notin S /\ 3 \notin S /\ 4 \notin S /\ 5 \notin S /\ 6 \notin S /\ 7 \notin S
           /\ 8 \notin S /\ 9 \in S
  BY <1>9
<1>10. 1 \in S \/ 2 \in S \/ 3 \in S \/ 4 \in S \/ 5 \in S \/ 6 \in S \/ 7 \in S \/ 8 \in S \/ 9 \in S
  <2>1. PICK i \in S : i \in 1..9
    OBVIOUS
  <2>2. i = 1 \/ i = 2 \/ i = 3 \/ i = 4 \/ i = 5 \/ i = 6 \/ i = 7 \/ i = 8 \/ i = 9
    BY <2>1
  <2> QED
    BY <2>1, <2>2
<1> QED
  BY <1>1, <1>2, <1>3, <1>4, <1>5, <1>6, <1>7, <1>8, <1>9, <1>10, Zenon

\* The stage is the first task that is left, and ready means that none is.
LEMMA StageSays ==
    ASSUME NEW d
    PROVE  /\ Checklist!StageOf(d) \in Tasks \cup {"ready"}
           /\ Checklist!StageOf(d) = "ready" <=> Tasks \subseteq d
<1> DEFINE left == Checklist!Left(d)
<1>1. left = {i \in 1..9 : Checklist!Checklist[i] \notin d}
  BY TasksAre DEF Checklist!Left
<1>2. Tasks = {Checklist!Checklist[i] : i \in 1..9}
  BY TasksAre DEF Tasks, Checklist!Tasks
<1>3. left = {} <=> Tasks \subseteq d
  BY <1>1, <1>2
<1>4. ASSUME left # {} PROVE Checklist!First(left) \in Tasks
  <2> HIDE DEF left
  <2>1. \E i \in left : \A j \in left : i <= j
    BY <1>1, <1>4, LeastPosition
  <2> DEFINE least == CHOOSE i \in left : \A j \in left : i <= j
  <2>2. least \in left
    BY <2>1
  <2>3. Checklist!First(left) = Checklist!Checklist[least]
    BY DEF Checklist!First
  <2> HIDE DEF least
  <2> QED
    BY <1>1, <1>2, <2>2, <2>3
<1> QED
  BY <1>3, <1>4, TasksAre DEF Checklist!StageOf

LEMMA CheckTypesAtFirst == Checklist!OnboardingAssumption /\ Checklist!Init => CheckTypes
<1> SUFFICES ASSUME Checklist!OnboardingAssumption, Checklist!Init PROVE CheckTypes
  OBVIOUS
<1>1. done \in SUBSET Tasks
  BY DEF Checklist!Init, Checklist!OnboardingAssumption, Tasks
<1>2. Checklist!Free \in CheckCall
  BY DEF Checklist!Free, CheckCall, CheckOps
<1>3. call \in [Workers -> CheckCall]
  BY <1>2 DEF Checklist!Init
<1> QED
  BY <1>1, <1>3 DEF Checklist!Init, CheckTypes, StagesOf

\* A call that begins or reads has what the profile says now.
LEMMA CallBegins ==
    ASSUME CheckTypes, NEW w \in Workers, NEW op \in CheckOps, NEW task \in Tasks \cup {None},
           op \in {"step", "welcome", "profile"} => task \in Tasks,
           NEW p \in {pending, None},
           call' = [call EXCEPT ![w] = [op |-> op, task |-> task, done |-> done, stage |-> stage,
                                        pending |-> p]]
    PROVE  /\ call' \in [Workers -> CheckCall]
           /\ call'[w] = [op |-> op, task |-> task, done |-> done, stage |-> stage, pending |-> p]
           /\ \A v \in Workers \ {w} : call'[v] = call[v]
<1>1. [op |-> op, task |-> task, done |-> done, stage |-> stage, pending |-> p] \in CheckCall
  BY DEF CheckTypes, CheckCall
<1> QED
  BY <1>1 DEF CheckTypes

LEMMA CallGoesOn ==
    ASSUME CheckTypes, NEW w \in Workers,
           \/ call' = [call EXCEPT ![w] = Checklist!Free]
           \/ Checklist!Then(w, "refresh")
    PROVE  /\ call' \in [Workers -> CheckCall]
           /\ call'[w].op \in {"none", "refresh"}
           /\ call'[w].pending \in {call[w].pending, None}
           /\ \A v \in Workers \ {w} : call'[v] = call[v]
<1>1. call[w] \in CheckCall
  BY DEF CheckTypes
<1>2. Checklist!Free \in CheckCall /\ [call[w] EXCEPT !.op = "refresh"] \in CheckCall
  BY <1>1 DEF Checklist!Free, CheckCall, CheckOps
<1>3. PICK c \in CheckCall : /\ call' = [call EXCEPT ![w] = c] /\ c.op \in {"none", "refresh"}
                             /\ c.pending \in {call[w].pending, None}
  <2>1. CASE call' = [call EXCEPT ![w] = Checklist!Free]
    BY <1>2, <2>1 DEF Checklist!Free
  <2>2. CASE Checklist!Then(w, "refresh")
    <3>1. call' = [call EXCEPT ![w] = [call[w] EXCEPT !.op = "refresh"]]
      BY <1>1, <2>2, Zenon DEF Checklist!Then
    <3>2. [call[w] EXCEPT !.op = "refresh"].op = "refresh"
          /\ [call[w] EXCEPT !.op = "refresh"].pending = call[w].pending
      BY <1>1 DEF CheckCall
    <3> QED
      BY <1>2, <3>1, <3>2, Zenon
  <2> QED
    BY <2>1, <2>2
<1>4. call \in [Workers -> CheckCall]
  BY DEF CheckTypes
<1> HIDE DEF CheckCall
<1> QED
  BY <1>3, <1>4

LEMMA TasksStay ==
    ASSUME CheckTypes, NEW t \in SUBSET Tasks, Checklist!Complete(t),
           done \ {"payments", "id_check"} \subseteq t
    PROVE  /\ done' \in SUBSET Tasks /\ wasComplete' \in BOOLEAN /\ behind' \in BOOLEAN
           /\ phone # None => "phone" \in done'
BY DEF CheckTypes, Checklist!Complete

LEMMA CheckTypesStay ==
    ASSUME CheckTypes, [Checklist!Next]_(Checklist!vars)
    PROVE  CheckTypes'
<1>1. ASSUME NEW w \in Workers, NEW op \in CheckOps, NEW task \in Tasks \cup {None},
             op \in {"step", "welcome", "profile"} => task \in Tasks, Checklist!begin(w, op, task)
      PROVE  CheckTypes'
  <2>1. call' \in [Workers -> CheckCall]
    BY <1>1, CallBegins DEF Checklist!begin, Checklist!Enter
  <2> QED
    BY <1>1, <2>1 DEF Checklist!begin, Checklist!Enter, CheckTypes, Checklist!phoneVars, Checklist!feeVars
<1>2. ASSUME NEW w \in Workers,
             Checklist!completeStep(w) \/ Checklist!completeWelcomeSession(w) \/ Checklist!updateProfile(w)
      PROVE  CheckTypes'
  <2>1. /\ call[w] \in CheckCall /\ call[w].op \in {"step", "welcome", "profile"}
        /\ Checklist!Complete(Checklist!With(w))
        /\ call' = [call EXCEPT ![w] = Checklist!Free] \/ Checklist!Then(w, "refresh")
        /\ UNCHANGED <<stage, phone, pending, delivered, codes, checkouts, late, used>>
    BY <1>2 DEF Checklist!completeStep, Checklist!completeWelcomeSession, Checklist!updateProfile,
                CheckTypes, Checklist!phoneVars, Checklist!feeVars
  <2>2. call[w].task \in Tasks
    BY <2>1 DEF CheckCall
  <2>3. Checklist!With(w) \in SUBSET Tasks /\ done \ {"payments", "id_check"} \subseteq Checklist!With(w)
    BY <2>2 DEF Checklist!With, CheckTypes
  <2>4. call' \in [Workers -> CheckCall]
    BY <2>1, CallGoesOn
  <2>5. /\ done' \in SUBSET Tasks /\ wasComplete' \in BOOLEAN /\ behind' \in BOOLEAN
        /\ phone # None => "phone" \in done'
    BY <2>1, <2>3, TasksStay
  <2> QED
    BY <2>1, <2>4, <2>5 DEF CheckTypes
<1>3. ASSUME NEW w \in Workers, Checklist!readProfile(w)
      PROVE  CheckTypes'
  <2>1. call' \in [Workers -> CheckCall]
    BY <1>3, CallBegins DEF Checklist!readProfile, CheckOps
  <2> QED
    BY <1>3, <2>1 DEF Checklist!readProfile, CheckTypes, Checklist!phoneVars, Checklist!feeVars
<1>4. ASSUME NEW w \in Workers, Checklist!writeStage(w)
      PROVE  CheckTypes'
  <2>1. call' \in [Workers -> CheckCall]
    BY <1>4, CallGoesOn DEF Checklist!writeStage
  <2>2. stage' \in StagesOf
    BY <1>4, StageSays DEF Checklist!writeStage, Checklist!NextStage, StagesOf, CheckTypes
  <2> QED
    BY <1>4, <2>1, <2>2 DEF Checklist!writeStage, CheckTypes, Checklist!phoneVars, Checklist!feeVars
<1>5. ASSUME NEW w \in Workers, NEW number \in Numbers, NEW sent \in BOOLEAN,
             Checklist!requestPhoneVerification(w, number, sent)
      PROVE  CheckTypes'
  BY <1>5 DEF Checklist!requestPhoneVerification, CheckTypes, Checklist!feeVars, Code
<1>6. CASE Checklist!expireCode
  BY <1>6 DEF Checklist!expireCode, CheckTypes, Checklist!feeVars, Code
<1>7. ASSUME NEW w \in Workers, NEW code \in Nat, Checklist!completePhoneStep(w, code)
      PROVE  CheckTypes'
  <2>1. call' \in [Workers -> CheckCall]
    BY <1>7, CallGoesOn DEF Checklist!completePhoneStep
  <2>2. call[w].pending \in Code
    BY <1>7 DEF Checklist!completePhoneStep, CheckTypes, CheckCall
  <2>3. done \cup {"phone"} \in SUBSET Tasks
    BY TasksAre DEF CheckTypes
  <2>4. done' = done \cup {"phone"} /\ wasComplete' \in BOOLEAN /\ behind' \in BOOLEAN
    BY <1>7, <2>3, TasksStay DEF Checklist!completePhoneStep, Checklist!Complete
  <2> QED
    BY <1>7, <2>1, <2>2, <2>3, <2>4
       DEF Checklist!completePhoneStep, Checklist!ProvenNumber, CheckTypes, Code, Checklist!feeVars
<1>8. ASSUME NEW w \in Workers, Checklist!refusePhoneStep(w) \/ Checklist!handleSignupFee(w)
      PROVE  CheckTypes'
  <2>1. call' \in [Workers -> CheckCall]
    BY <1>8, CallGoesOn DEF Checklist!refusePhoneStep, Checklist!handleSignupFee
  <2> QED
    BY <1>8, <2>1 DEF Checklist!refusePhoneStep, Checklist!handleSignupFee, CheckTypes,
                      Checklist!phoneVars, Checklist!feeVars
<1>9. CASE Checklist!feePaid
  <2>1. done \cup {"signup_fee"} \in SUBSET Tasks
    BY TasksAre DEF CheckTypes
  <2>2. /\ done' \in SUBSET Tasks /\ wasComplete' \in BOOLEAN /\ behind' \in BOOLEAN
        /\ phone # None => "phone" \in done'
    BY <1>9, <2>1, TasksStay DEF Checklist!feePaid
  <2> QED
    BY <1>9, <2>2 DEF Checklist!feePaid, CheckTypes, Checklist!phoneVars
<1>10. ASSUME NEW task \in {"payments", "id_check"}, NEW completed \in BOOLEAN,
              Checklist!decideOutside(task, completed)
       PROVE  CheckTypes'
  <2> DEFINE t == IF completed THEN done \cup {task} ELSE done \ {task}
  <2>1. t \in SUBSET Tasks /\ done \ {"payments", "id_check"} \subseteq t
    BY TasksAre DEF CheckTypes
  <2>2. Checklist!Complete(t)
    BY <1>10 DEF Checklist!decideOutside
  <2> HIDE DEF t
  <2>3. /\ done' \in SUBSET Tasks /\ wasComplete' \in BOOLEAN /\ behind' \in BOOLEAN
        /\ phone # None => "phone" \in done'
    BY <2>1, <2>2, TasksStay
  <2> QED
    BY <1>10, <2>3 DEF Checklist!decideOutside, CheckTypes, Checklist!phoneVars, Checklist!feeVars
<1>11. CASE UNCHANGED Checklist!vars
  BY <1>11 DEF Checklist!vars, CheckTypes
<1> QED
  <2>1. \A sms \in delivered : sms.code \in Nat
    BY DEF CheckTypes
  <2> QED
    BY <2>1, <1>1, <1>2, <1>3, <1>4, <1>5, <1>6, <1>7, <1>8, <1>9, <1>10, <1>11, TasksAre
       DEF Checklist!Next, CheckOps

\* Only refreshes read the profile for the stage and write it; whatever else is done
\* completes tasks or leaves them.
Quiet ==
    /\ UNCHANGED stage /\ (behind' <=> behind \/ done' # done)
    /\ (wasComplete => wasComplete') /\ (done' = Tasks => wasComplete' \/ done' = done)
    /\ \A w \in Workers : call[w].op = "stage" \/ call'[w].op = "stage" => call'[w] = call[w]

LEMMA CheckEffects ==
    ASSUME CheckTypes, [Checklist!Next]_(Checklist!vars)
    PROVE  /\ \/ Quiet
              \/ \E w \in Workers : Checklist!readProfile(w) \/ Checklist!writeStage(w)
           /\ done \ {"payments", "id_check"} \subseteq done'
<1> DEFINE Effects == /\ \/ Quiet
                         \/ \E w \in Workers : Checklist!readProfile(w) \/ Checklist!writeStage(w)
                      /\ done \ {"payments", "id_check"} \subseteq done'
<1>a. ASSUME NEW t, Checklist!Complete(t)
      PROVE  /\ behind' <=> behind \/ done' # done
             /\ (wasComplete => wasComplete') /\ (done' = Tasks => wasComplete' \/ done' = done)
             /\ done' = t
  BY <1>a DEF Checklist!Complete, CheckTypes, Tasks
<1>b. ASSUME NEW w \in Workers, call[w].op # "stage",
             call' = [call EXCEPT ![w] = Checklist!Free] \/ Checklist!Then(w, "refresh")
      PROVE  \A v \in Workers : call[v].op = "stage" \/ call'[v].op = "stage" => call'[v] = call[v]
  BY <1>b, CallGoesOn
<1>1. ASSUME NEW w \in Workers, NEW op \in CheckOps, NEW task \in Tasks \cup {None}, op # "stage",
             op \in {"step", "welcome", "profile"} => task \in Tasks, Checklist!begin(w, op, task)
      PROVE  Effects
  <2>1. call'[w].op = op /\ \A v \in Workers \ {w} : call'[v] = call[v]
    BY <1>1, CallBegins DEF Checklist!begin, Checklist!Enter
  <2>2. call[w].op = "none"
    BY <1>1 DEF Checklist!begin, Checklist!Enter, Checklist!Free
  <2> QED
    BY <1>1, <2>1, <2>2 DEF Checklist!begin, Quiet
<1>2. ASSUME NEW w \in Workers,
             Checklist!completeStep(w) \/ Checklist!completeWelcomeSession(w) \/ Checklist!updateProfile(w)
      PROVE  Effects
  <2>1. /\ Checklist!Complete(Checklist!With(w)) /\ UNCHANGED stage /\ call[w].op # "stage"
        /\ call' = [call EXCEPT ![w] = Checklist!Free] \/ Checklist!Then(w, "refresh")
    BY <1>2 DEF Checklist!completeStep, Checklist!completeWelcomeSession, Checklist!updateProfile
  <2>2. done \subseteq Checklist!With(w)
    BY DEF Checklist!With
  <2> QED
    BY <1>a, <1>b, <2>1, <2>2 DEF Quiet
<1>3. ASSUME NEW w \in Workers, Checklist!readProfile(w) \/ Checklist!writeStage(w)
      PROVE  Effects
  BY <1>3 DEF Checklist!readProfile, Checklist!writeStage
<1>4. ASSUME \/ \E w \in Workers, number \in Numbers, sent \in BOOLEAN :
                  Checklist!requestPhoneVerification(w, number, sent)
             \/ Checklist!expireCode \/ UNCHANGED Checklist!vars
      PROVE  Effects
  BY <1>4 DEF Checklist!requestPhoneVerification, Checklist!expireCode, Checklist!vars, Quiet
<1>5. ASSUME NEW w \in Workers, NEW code, Checklist!completePhoneStep(w, code)
      PROVE  Effects
  <2>1. /\ Checklist!Complete(done \cup {"phone"}) /\ UNCHANGED stage /\ call[w].op # "stage"
        /\ Checklist!Then(w, "refresh")
    BY <1>5 DEF Checklist!completePhoneStep
  <2> QED
    BY <1>a, <1>b, <2>1 DEF Quiet
<1>6. ASSUME NEW w \in Workers, Checklist!refusePhoneStep(w) \/ Checklist!handleSignupFee(w)
      PROVE  Effects
  <2>1. /\ UNCHANGED <<done, stage, wasComplete, behind>> /\ call[w].op # "stage"
        /\ call' = [call EXCEPT ![w] = Checklist!Free]
    BY <1>6 DEF Checklist!refusePhoneStep, Checklist!handleSignupFee
  <2> QED
    BY <1>b, <2>1 DEF Quiet
<1>7. ASSUME NEW t, Checklist!Complete(t), UNCHANGED <<stage, call>>,
             done \ {"payments", "id_check"} \subseteq t
      PROVE  Effects
  BY <1>a, <1>7 DEF Quiet
<1>8. CASE Checklist!feePaid
  <2>1. Checklist!Complete(done \cup {"signup_fee"}) /\ UNCHANGED <<stage, call>>
    BY <1>8 DEF Checklist!feePaid
  <2> QED
    BY <1>7, <2>1
<1>9. ASSUME NEW task \in {"payments", "id_check"}, NEW completed \in BOOLEAN,
             Checklist!decideOutside(task, completed)
      PROVE  Effects
  <2> DEFINE t == IF completed THEN done \cup {task} ELSE done \ {task}
  <2>1. done \ {"payments", "id_check"} \subseteq t
    OBVIOUS
  <2>2. Checklist!Complete(t) /\ UNCHANGED <<stage, call>>
    BY <1>9 DEF Checklist!decideOutside
  <2> HIDE DEF t
  <2> QED
    BY <1>7, <2>1, <2>2
<1> QED
  BY <1>1, <1>2, <1>3, <1>4, <1>5, <1>6, <1>8, <1>9, TasksAre DEF Checklist!Next, CheckOps

\* Whoever is ready, or is about to be, had the whole list completed.
ReadyKept ==
    /\ stage = "ready" \/ done = Tasks => wasComplete
    /\ \A w \in Workers : call[w].op = "stage" /\ Tasks \subseteq call[w].done => wasComplete

LEMMA ReadyStaysKept ==
    ASSUME CheckTypes, ReadyKept, [Checklist!Next]_(Checklist!vars)
    PROVE  ReadyKept'
<1>1. CASE Quiet
  BY <1>1 DEF Quiet, ReadyKept
<1>2. ASSUME NEW w \in Workers, Checklist!readProfile(w)
      PROVE  ReadyKept'
  <2>1. call'[w].done = done /\ \A v \in Workers \ {w} : call'[v] = call[v]
    BY <1>2, CallBegins DEF Checklist!readProfile, CheckOps
  <2>2. done \subseteq Tasks
    BY DEF CheckTypes
  <2> QED
    BY <1>2, <2>1, <2>2 DEF Checklist!readProfile, ReadyKept
<1>3. ASSUME NEW w \in Workers, Checklist!writeStage(w)
      PROVE  ReadyKept'
  <2>1. call'[w].op # "stage" /\ \A v \in Workers \ {w} : call'[v] = call[v]
    BY <1>3, CallGoesOn DEF Checklist!writeStage
  <2>2. stage' = "ready" => wasComplete
    BY <1>3, StageSays DEF Checklist!writeStage, Checklist!NextStage, ReadyKept
  <2> QED
    BY <1>3, <2>1, <2>2 DEF Checklist!writeStage, ReadyKept
<1> QED
  BY <1>1, <1>2, <1>3, CheckEffects

\* Calls one at a time: the one that is about to write a stage has read the profile as it
\* is, unless it changed outside.
OneCheck == \A v, w \in Workers : call[v] # Checklist!Free /\ call[w] # Checklist!Free => v = w
StageFresh ==
    /\ OneCheck
    /\ \A w \in Workers : call[w].op = "stage" =>
         call[w].stage = stage /\ (~behind => call[w].done = done)
    /\ ~behind /\ (\A w \in Workers : call[w].op # "stage") => stage = Checklist!StageOf(done)

LEMMA StageStaysFresh ==
    ASSUME CheckTypes, StageFresh, [Checklist!Next]_(Checklist!vars), OneCheck'
    PROVE  StageFresh'
<1>1. CASE Quiet
  <2>1. behind \in BOOLEAN /\ behind' \in BOOLEAN
    BY CheckTypesStay DEF CheckTypes
  <2>2. ~behind' => ~behind /\ done' = done
    BY <1>1 DEF Quiet
  <2>3. \A w \in Workers : /\ call'[w].op = "stage" => call'[w] = call[w]
                           /\ call[w].op = "stage" => call'[w].op = "stage"
    BY <1>1 DEF Quiet
  <2> QED
    BY <1>1, <2>2, <2>3 DEF Quiet, StageFresh
<1>2. ASSUME NEW w \in Workers, Checklist!readProfile(w)
      PROVE  StageFresh'
  <2>1. /\ call'[w].op = "stage" /\ call'[w].done = done /\ call'[w].stage = stage
        /\ \A v \in Workers \ {w} : call'[v] = call[v]
    BY <1>2, CallBegins DEF Checklist!readProfile, CheckOps
  <2>2. \A v \in Workers \ {w} : call[v].op = "none"
    BY <1>2 DEF Checklist!readProfile, StageFresh, OneCheck, Checklist!Free
  <2> QED
    BY <1>2, <2>1, <2>2 DEF Checklist!readProfile, StageFresh
<1>3. ASSUME NEW w \in Workers, Checklist!writeStage(w)
      PROVE  StageFresh'
  <2>1. call'[w].op # "stage" /\ \A v \in Workers \ {w} : call'[v] = call[v]
    BY <1>3, CallGoesOn DEF Checklist!writeStage
  <2>2. \A v \in Workers \ {w} : call[v].op = "none"
    BY <1>3 DEF Checklist!writeStage, StageFresh, OneCheck, Checklist!Free
  <2>3. /\ call[w].stage = stage /\ (~behind => call[w].done = done)
        /\ stage' = Checklist!StageOf(call[w].done)
    BY <1>3 DEF Checklist!writeStage, Checklist!NextStage, StageFresh
  <2> QED
    BY <1>3, <2>1, <2>2, <2>3 DEF Checklist!writeStage, StageFresh
<1> QED
  BY <1>1, <1>2, <1>3, CheckEffects

\* Once the fee is paid, the calls that may still make a checkout are those that had read
\* the profile before; with the checkouts they made they are no more than there are.
Unpaid == {w \in Workers : call[w].op = "fee" /\ "signup_fee" \notin call[w].done}
LateKept ==
    IF "signup_fee" \in done THEN late + Cardinality(Unpaid) <= Cardinality(Workers) ELSE late = 0

LEMMA ChecklistCount ==
    ASSUME Checklist!OnboardingAssumption
    PROVE  /\ IsFiniteSet(Workers) /\ Checklist!Cardinality(Workers) = Cardinality(Workers)
           /\ Cardinality(Workers) \in Nat
<1>1. \A S : Checklist!Cardinality(S) = Cardinality(S)
  BY DEF Cardinality, Checklist!Cardinality
<1>2. IsFiniteSet(Workers)
  BY Zenon DEF IsFiniteSet, Checklist!IsFiniteSet, Checklist!OnboardingAssumption
<1> QED
  BY <1>1, <1>2, FS_CardinalityType

LEMMA FeeEffects ==
    ASSUME CheckTypes, [Checklist!Next]_(Checklist!vars)
    PROVE  \/ /\ late' = late
              /\ Unpaid' \subseteq IF "signup_fee" \in done THEN Unpaid ELSE Workers
           \/ \E w \in Unpaid :
                /\ late' = IF "signup_fee" \in done THEN late + 1 ELSE late
                /\ Unpaid' \subseteq Unpaid \ {w} /\ UNCHANGED done
<1> DEFINE Effects == \/ /\ late' = late
                         /\ Unpaid' \subseteq IF "signup_fee" \in done THEN Unpaid ELSE Workers
                      \/ \E w \in Unpaid :
                           /\ late' = IF "signup_fee" \in done THEN late + 1 ELSE late
                           /\ Unpaid' \subseteq Unpaid \ {w} /\ UNCHANGED done
<1>0. ASSUME NEW w \in Workers, call'[w].op # "fee" \/ call'[w].done = done,
             \A v \in Workers \ {w} : call'[v] = call[v]
      PROVE  Unpaid' \subseteq IF "signup_fee" \in done THEN Unpaid ELSE Workers
  BY <1>0 DEF Unpaid
<1>1. ASSUME NEW w \in Workers, NEW op \in CheckOps, NEW task \in Tasks \cup {None},
             op \in {"step", "welcome", "profile"} => task \in Tasks, Checklist!begin(w, op, task)
      PROVE  Effects
  <2>1. call'[w].done = done /\ \A v \in Workers \ {w} : call'[v] = call[v]
    BY <1>1, CallBegins DEF Checklist!begin, Checklist!Enter
  <2> QED
    BY <1>0, <1>1, <2>1 DEF Checklist!begin, Checklist!feeVars
<1>2. ASSUME NEW w \in Workers, late' = late,
             call' = [call EXCEPT ![w] = Checklist!Free] \/ Checklist!Then(w, "refresh")
      PROVE  Effects
  BY <1>0, <1>2, CallGoesOn
<1>3. ASSUME NEW w \in Workers, \/ Checklist!completeStep(w) \/ Checklist!completeWelcomeSession(w)
             \/ Checklist!updateProfile(w) \/ Checklist!writeStage(w) \/ Checklist!refusePhoneStep(w)
             \/ \E code \in Nat : Checklist!completePhoneStep(w, code)
      PROVE  Effects
  BY <1>2, <1>3 DEF Checklist!completeStep, Checklist!completeWelcomeSession, Checklist!updateProfile,
     Checklist!writeStage, Checklist!refusePhoneStep, Checklist!completePhoneStep, Checklist!feeVars
<1>4. ASSUME NEW w \in Workers, Checklist!readProfile(w)
      PROVE  Effects
  <2>1. call'[w].op = "stage" /\ \A v \in Workers \ {w} : call'[v] = call[v]
    BY <1>4, CallBegins DEF Checklist!readProfile, CheckOps
  <2> QED
    BY <1>0, <1>4, <2>1 DEF Checklist!readProfile, Checklist!feeVars
<1>5. ASSUME UNCHANGED <<late, call>>
      PROVE  Effects
  BY <1>5 DEF Unpaid
<1>6. ASSUME \/ \E w \in Workers, number \in Numbers, sent \in BOOLEAN :
                  Checklist!requestPhoneVerification(w, number, sent)
             \/ Checklist!expireCode \/ Checklist!feePaid \/ UNCHANGED Checklist!vars
             \/ \E task \in {"payments", "id_check"}, completed \in BOOLEAN :
                  Checklist!decideOutside(task, completed)
      PROVE  UNCHANGED <<late, call>>
  BY <1>6 DEF Checklist!requestPhoneVerification, Checklist!expireCode, Checklist!feePaid,
              Checklist!decideOutside, Checklist!vars, Checklist!feeVars
<1>7. ASSUME NEW w \in Workers, Checklist!handleSignupFee(w)
      PROVE  Effects
  <2>1. call' = [call EXCEPT ![w] = Checklist!Free]
    BY <1>7 DEF Checklist!handleSignupFee
  <2>2. CASE Checklist!FeeOpen(w)
    <3>1. w \in Unpaid /\ UNCHANGED done
      BY <1>7, <2>2 DEF Checklist!handleSignupFee, Checklist!FeeOpen, Unpaid
    <3>2. late' = IF "signup_fee" \in done THEN late + 1 ELSE late
      BY <1>7, <2>2 DEF Checklist!handleSignupFee, CheckTypes
    <3>3. call'[w].op \in {"none", "refresh"} /\ \A v \in Workers \ {w} : call'[v] = call[v]
      BY <2>1, CallGoesOn
    <3>4. Unpaid' \subseteq Unpaid \ {w}
      BY <3>3 DEF Unpaid
    <3> QED
      BY <3>1, <3>2, <3>4
  <2>3. CASE ~Checklist!FeeOpen(w)
    <3>1. late' = late
      BY <1>7, <2>3 DEF Checklist!handleSignupFee, Checklist!feeVars
    <3> QED
      BY <1>2, <2>1, <3>1
  <2> QED
    BY <2>2, <2>3
<1> QED
  <2>1. \A sms \in delivered : sms.code \in Nat
    BY DEF CheckTypes
  <2> HIDE DEF Effects
  <2>2. Effects
    BY <2>1, <1>1, <1>3, <1>4, <1>5, <1>6, <1>7, TasksAre DEF Checklist!Next, CheckOps
  <2> QED
    BY <2>2 DEF Effects

LEMMA LateStaysKept ==
    ASSUME Checklist!OnboardingAssumption, CheckTypes, LateKept, [Checklist!Next]_(Checklist!vars)
    PROVE  LateKept'
<1>1. IsFiniteSet(Workers) /\ Unpaid \subseteq Workers /\ Unpaid' \subseteq Workers
  BY ChecklistCount DEF Unpaid
<1>2. /\ IsFiniteSet(Unpaid) /\ IsFiniteSet(Unpaid') /\ Cardinality(Workers) \in Nat
      /\ Cardinality(Unpaid) \in Nat /\ Cardinality(Unpaid') \in Nat /\ late \in Nat
      /\ Cardinality(Unpaid') <= Cardinality(Workers)
  BY <1>1, FS_Subset, FS_CardinalityType DEF CheckTypes
<1>3. "signup_fee" \in done => "signup_fee" \in done'
  BY CheckEffects
<1>4. CASE late' = late /\ Unpaid' \subseteq (IF "signup_fee" \in done THEN Unpaid ELSE Workers)
  <2>1. "signup_fee" \in done => Cardinality(Unpaid') <= Cardinality(Unpaid)
    BY <1>2, <1>4, FS_Subset
  <2> QED
    BY <1>2, <1>3, <1>4, <2>1 DEF LateKept
<1>5. ASSUME NEW w \in Unpaid, late' = (IF "signup_fee" \in done THEN late + 1 ELSE late),
             Unpaid' \subseteq Unpaid \ {w}, UNCHANGED done
      PROVE  LateKept'
  <2>1. Cardinality(Unpaid \ {w}) = Cardinality(Unpaid) - 1 /\ IsFiniteSet(Unpaid \ {w})
    BY <1>2, FS_RemoveElement
  <2>2. Cardinality(Unpaid') <= Cardinality(Unpaid) - 1
    BY <1>5, <2>1, FS_Subset
  <2> QED
    BY <1>2, <1>5, <2>2 DEF LateKept
<1> QED
  BY <1>4, <1>5, FeeEffects

\* The number of the account: a code says which number it was sent to.
Matches(p) ==
    p # None => /\ p.code <= codes
                /\ \A sms \in delivered : sms.code = p.code => sms.number = p.number
CodesKept ==
    /\ \A sms \in delivered : sms.code <= codes
    /\ Matches(pending) /\ \A w \in Workers : Matches(call[w].pending)
    /\ phone # None => \E sms \in delivered : sms.number = phone

LEMMA CodesStayKept ==
    ASSUME CheckTypes, CodesKept, [Checklist!Next]_(Checklist!vars)
    PROVE  CodesKept'
<1>1. ASSUME UNCHANGED <<delivered, codes, phone, pending>>,
             \A w \in Workers : call'[w].pending \in {call[w].pending, pending, None}
      PROVE  CodesKept'
  BY <1>1 DEF CodesKept, Matches
<1>2. ASSUME NEW w \in Workers, NEW op \in CheckOps, NEW task \in Tasks \cup {None},
             op \in {"step", "welcome", "profile"} => task \in Tasks, Checklist!begin(w, op, task)
      PROVE  CodesKept'
  <2>1. call'[w].pending = pending /\ \A v \in Workers \ {w} : call'[v] = call[v]
    BY <1>2, CallBegins DEF Checklist!begin, Checklist!Enter
  <2> QED
    BY <1>1, <1>2, <2>1 DEF Checklist!begin, Checklist!phoneVars
<1>3. ASSUME NEW w \in Workers,
             call' = [call EXCEPT ![w] = Checklist!Free] \/ Checklist!Then(w, "refresh")
      PROVE  \A v \in Workers : call'[v].pending \in {call[v].pending, pending, None}
  BY <1>3, CallGoesOn
<1>4. ASSUME NEW w \in Workers, \/ Checklist!completeStep(w) \/ Checklist!completeWelcomeSession(w)
             \/ Checklist!updateProfile(w) \/ Checklist!writeStage(w) \/ Checklist!refusePhoneStep(w)
             \/ Checklist!handleSignupFee(w)
      PROVE  CodesKept'
  BY <1>1, <1>3, <1>4
     DEF Checklist!completeStep, Checklist!completeWelcomeSession, Checklist!updateProfile,
         Checklist!writeStage, Checklist!refusePhoneStep, Checklist!handleSignupFee, Checklist!phoneVars
<1>5. ASSUME NEW w \in Workers, Checklist!readProfile(w)
      PROVE  CodesKept'
  <2>1. call'[w].pending = None /\ \A v \in Workers \ {w} : call'[v] = call[v]
    BY <1>5, CallBegins DEF Checklist!readProfile, CheckOps
  <2> QED
    BY <1>1, <1>5, <2>1 DEF Checklist!readProfile, Checklist!phoneVars
<1>6. ASSUME NEW w \in Workers, NEW number \in Numbers, NEW sent \in BOOLEAN,
             Checklist!requestPhoneVerification(w, number, sent)
      PROVE  CodesKept'
  <2>1. /\ codes' = codes + 1 /\ codes \in Nat /\ UNCHANGED <<phone, call>>
        /\ pending' = [number |-> number, code |-> codes + 1, expired |-> FALSE]
        /\ delivered \subseteq delivered'
        /\ \A sms \in delivered' : sms \in delivered \/ (sms.code = codes + 1 /\ sms.number = number)
    BY <1>6 DEF Checklist!requestPhoneVerification, CheckTypes
  <2>2. \A sms \in delivered : sms.code <= codes /\ sms.code \in Nat
    BY DEF CodesKept, CheckTypes
  <2>3. \A p \in Code \cup {None} : Matches(p) => Matches(p)'
    BY <2>1, <2>2 DEF Matches, Code
  <2>4. \A v \in Workers : call[v].pending \in Code \cup {None}
    BY DEF CheckTypes, CheckCall
  <2>5. Matches(pending)'
    BY <2>1, <2>2 DEF Matches
  <2> QED
    BY <2>1, <2>2, <2>3, <2>4, <2>5 DEF CodesKept
<1>7. CASE Checklist!expireCode
  <2>1. pending \in Code /\ pending' = [pending EXCEPT !.expired = TRUE]
    BY <1>7 DEF Checklist!expireCode, CheckTypes
  <2>2. pending'.code = pending.code /\ pending'.number = pending.number /\ pending # None
    BY <1>7, <2>1 DEF Code, Checklist!expireCode
  <2> QED
    BY <1>7, <2>2 DEF Checklist!expireCode, CodesKept, Matches
<1>8. ASSUME NEW w \in Workers, NEW sms \in delivered, Checklist!completePhoneStep(w, sms.code)
      PROVE  CodesKept'
  <2>1. /\ call[w].pending # None /\ sms.code = call[w].pending.code
        /\ phone' = call[w].pending.number /\ pending' = None
        /\ UNCHANGED <<delivered, codes>>
    BY <1>8 DEF Checklist!completePhoneStep, Checklist!ProvenNumber
  <2>2. sms.number = phone'
    BY <2>1 DEF CodesKept, Matches
  <2>3. \A v \in Workers : call'[v].pending \in {call[v].pending, pending, None}
    BY <1>3, <1>8 DEF Checklist!completePhoneStep
  <2> QED
    BY <2>1, <2>2, <2>3 DEF CodesKept, Matches
<1>9. ASSUME \/ Checklist!feePaid \/ UNCHANGED Checklist!vars
             \/ \E task \in {"payments", "id_check"}, completed \in BOOLEAN :
                  Checklist!decideOutside(task, completed)
      PROVE  CodesKept'
  <2>1. UNCHANGED <<delivered, codes, phone, pending, call>>
    BY <1>9 DEF Checklist!feePaid, Checklist!decideOutside, Checklist!vars, Checklist!phoneVars
  <2> QED
    BY <1>1, <2>1
<1> QED
  BY <1>2, <1>4, <1>5, <1>6, <1>7, <1>8, <1>9, TasksAre DEF Checklist!Next, CheckOps

-----------------------------------------------------------------------------
(***************************************************************************)
(* The identity.                                                           *)
(***************************************************************************)
Judged == {"approve", "reject", "review", "reset"}
DocStatus == {"PENDING", "UNDER_REVIEW", "APPROVED", "REJECTED"}
Document == [status : DocStatus, by : Reviewers \cup {None}]
Identified == [status : {"NOT_STARTED", "SUBMITTED", "VERIFIED", "REJECTED"},
               reviewer : Reviewers \cup {"Onfido", None}, verifiedAt : BOOLEAN]
Kind == [isActive : BOOLEAN, archived : BOOLEAN]
Upload == {c \in [op : Judged \cup {"upload", "none"},
                  step : {"idle", "count", "create", "submit", "write", "log"},
                  doc : Docs \cup {None}, who : Reviewers \cup {None}, fresh : BOOLEAN] :
             /\ c.op = "none" <=> c.step = "idle"
             /\ c.step \in {"count", "create", "submit"} => c.op = "upload"
             /\ c.step = "write" => c.op \in Judged /\ c.who \in Reviewers}

IdentityTypes ==
    /\ docs \in [Docs -> Document \cup {None}] /\ idStatus \in Identified
    /\ types \in [Customs -> Kind \cup {None}]
    /\ upload \in [Workers -> Upload]
    /\ committed \in [Judged \cup {"upload"} -> Nat] /\ logged \in [Judged \cup {"upload"} -> Nat]
    /\ undone \in Nat /\ workflow \in BOOLEAN /\ calls \in 0..MaxUploads /\ mishaps \in 0..MaxFaults
    /\ \A w \in Workers :
         upload[w].step \in {"write", "submit"} => upload[w].doc \in Verification!Present \cup {None}

LEMMA VerificationCount ==
    ASSUME Verification!IdentityAssumption
    PROVE  /\ \A S : Verification!Cardinality(S) = Cardinality(S)
           /\ IsFiniteSet(Workers) /\ Cardinality(Workers) \in Nat \ {0}
           /\ DocLimit \in Nat \ {0} /\ MaxUploads \in Nat /\ MaxFaults \in Nat
           /\ None \notin Docs
<1>1. \A S : Verification!Cardinality(S) = Cardinality(S)
  BY DEF Cardinality, Verification!Cardinality
<1>2. IsFiniteSet(Workers)
  BY Zenon DEF IsFiniteSet, Verification!IsFiniteSet, Verification!IdentityAssumption
<1>3. Workers # {}
  BY DEF Verification!IdentityAssumption
<1>4. Cardinality(Workers) \in Nat \ {0}
  BY <1>2, <1>3, FS_EmptySet, FS_CardinalityType
<1> QED
  BY <1>1, <1>2, <1>4 DEF Verification!IdentityAssumption

LEMMA NobodyUploads == Verification!Free \in Upload /\ Verification!Free.step = "idle"
BY DEF Verification!Free, Upload

LEMMA IdentityTypesAtFirst == Verification!IdentityAssumption /\ Verification!Init => IdentityTypes
<1> SUFFICES ASSUME Verification!IdentityAssumption, Verification!Init PROVE IdentityTypes
  OBVIOUS
<1>1. idStatus \in Identified
  BY DEF Verification!Init, Identified
<1>2. upload \in [Workers -> Upload] /\ \A w \in Workers : upload[w].step = "idle"
  BY NobodyUploads DEF Verification!Init
<1>3. Verification!Ops = Judged \cup {"upload"}
  BY DEF Verification!Ops, Verification!Decisions, Judged
<1> QED
  BY <1>1, <1>2, <1>3, VerificationCount DEF Verification!Init, IdentityTypes

\* A call that begins.
LEMMA UploadBegins ==
    ASSUME Verification!IdentityAssumption, IdentityTypes, NEW w \in Workers, NEW fresh \in BOOLEAN,
           Verification!Enter(w, "upload", "count", None, None, fresh)
    PROVE  /\ upload' \in [Workers -> Upload] /\ upload[w].step = "idle"
           /\ upload'[w] = [op |-> "upload", step |-> "count", doc |-> None, who |-> None, fresh |-> fresh]
           /\ \A v \in Workers \ {w} : upload'[v] = upload[v]
           /\ calls' \in 0..MaxUploads
<1> DEFINE c == [op |-> "upload", step |-> "count", doc |-> None, who |-> None, fresh |-> fresh]
<1>0. c \in [op : Judged \cup {"upload", "none"},
             step : {"idle", "count", "create", "submit", "write", "log"},
             doc : Docs \cup {None}, who : Reviewers \cup {None}, fresh : BOOLEAN]
  OBVIOUS
<1>1. c \in Upload
  <2>1. c.op # "none" /\ c.step # "idle"
    BY DEF Judged
  <2>2. c.step \in {"count", "create", "submit"} => c.op = "upload"
    OBVIOUS
  <2>3. c.step = "write" => c.op \in Judged /\ c.who \in Reviewers
    OBVIOUS
  <2> QED
    BY <1>0, <2>1, <2>2, <2>3 DEF Upload
<1>2. upload' = [upload EXCEPT ![w] = c] /\ upload[w] = Verification!Free
  BY DEF Verification!Enter
<1>3. calls' \in 0..MaxUploads
  <2>1. MaxUploads \in Nat
    BY VerificationCount
  <2>2. calls \in 0..MaxUploads /\ calls < MaxUploads /\ calls' = calls + 1
    BY DEF Verification!Enter, IdentityTypes
  <2> QED
    BY <2>1, <2>2
<1> HIDE DEF c
<1>4. /\ upload' \in [Workers -> Upload] /\ upload'[w] = c
      /\ \A v \in Workers \ {w} : upload'[v] = upload[v]
  BY <1>1, <1>2 DEF IdentityTypes
<1> QED
  BY <1>2, <1>3, <1>4, NobodyUploads DEF c

LEMMA DecisionBegins ==
    ASSUME Verification!IdentityAssumption, IdentityTypes, NEW w \in Workers, NEW op \in Judged,
           NEW d \in Docs \cup {None}, NEW who \in Reviewers,
           Verification!Enter(w, op, "write", d, who, FALSE)
    PROVE  /\ upload' \in [Workers -> Upload] /\ upload[w].step = "idle"
           /\ upload'[w] = [op |-> op, step |-> "write", doc |-> d, who |-> who, fresh |-> FALSE]
           /\ \A v \in Workers \ {w} : upload'[v] = upload[v]
           /\ calls' \in 0..MaxUploads
<1> DEFINE c == [op |-> op, step |-> "write", doc |-> d, who |-> who, fresh |-> FALSE]
<1>0. c \in [op : Judged \cup {"upload", "none"},
             step : {"idle", "count", "create", "submit", "write", "log"},
             doc : Docs \cup {None}, who : Reviewers \cup {None}, fresh : BOOLEAN]
  OBVIOUS
<1>1. c \in Upload
  <2>1. c.op # "none" /\ c.step # "idle"
    BY DEF Judged
  <2>2. c.step \in {"count", "create", "submit"} => c.op = "upload"
    OBVIOUS
  <2>3. c.step = "write" => c.op \in Judged /\ c.who \in Reviewers
    OBVIOUS
  <2> QED
    BY <1>0, <2>1, <2>2, <2>3 DEF Upload
<1>2. upload' = [upload EXCEPT ![w] = c] /\ upload[w] = Verification!Free
  BY DEF Verification!Enter
<1>3. calls' \in 0..MaxUploads
  <2>1. MaxUploads \in Nat
    BY VerificationCount
  <2>2. calls \in 0..MaxUploads /\ calls < MaxUploads /\ calls' = calls + 1
    BY DEF Verification!Enter, IdentityTypes
  <2> QED
    BY <2>1, <2>2
<1> HIDE DEF c
<1>4. /\ upload' \in [Workers -> Upload] /\ upload'[w] = c
      /\ \A v \in Workers \ {w} : upload'[v] = upload[v]
  BY <1>1, <1>2 DEF IdentityTypes
<1> QED
  BY <1>2, <1>3, <1>4, NobodyUploads DEF c

\* One that goes on to another step.
LEMMA UploadGoesOn ==
    ASSUME IdentityTypes, NEW w \in Workers, upload[w].op \in Judged \cup {"upload"},
           NEW step \in {"create", "submit", "log"}, step # "log" => upload[w].op = "upload",
           Verification!Go(w, step)
    PROVE  /\ upload' \in [Workers -> Upload]
           /\ upload'[w] = [upload[w] EXCEPT !.step = step]
           /\ upload'[w].step = step /\ upload'[w].op = upload[w].op
           /\ upload'[w].doc = upload[w].doc /\ upload'[w].fresh = upload[w].fresh
           /\ \A v \in Workers \ {w} : upload'[v] = upload[v]
<1>1. upload[w] \in Upload /\ upload \in [Workers -> Upload]
  BY DEF IdentityTypes
<1> DEFINE c == [upload[w] EXCEPT !.step = step]
<1>0. upload[w] \in [op : Judged \cup {"upload", "none"},
             step : {"idle", "count", "create", "submit", "write", "log"},
             doc : Docs \cup {None}, who : Reviewers \cup {None}, fresh : BOOLEAN]
  BY <1>1 DEF Upload
<1>2. /\ c \in [op : Judged \cup {"upload", "none"},
             step : {"idle", "count", "create", "submit", "write", "log"},
             doc : Docs \cup {None}, who : Reviewers \cup {None}, fresh : BOOLEAN]
      /\ c.step = step /\ c.op = upload[w].op
      /\ c.doc = upload[w].doc /\ c.fresh = upload[w].fresh
  BY <1>0
<1>5. c \in Upload
  <2>1. c.op # "none" /\ c.step # "idle" /\ c.step # "write"
    BY <1>2 DEF Judged
  <2>2. c.step \in {"count", "create", "submit"} => c.op = "upload"
    BY <1>2
  <2> HIDE DEF c
  <2> QED
    BY <1>2, <2>1, <2>2 DEF Upload
<1>3. upload' = [upload EXCEPT ![w] = c]
  BY <1>1, Zenon DEF Verification!Go
<1> HIDE DEF c
<1>4. /\ upload' \in [Workers -> Upload] /\ upload'[w] = c
      /\ \A v \in Workers \ {w} : upload'[v] = upload[v]
  BY <1>1, <1>5, <1>3
<1> QED
  BY <1>2, <1>4 DEF c

LEMMA UploadEnds ==
    ASSUME IdentityTypes, NEW w \in Workers, upload' = [upload EXCEPT ![w] = Verification!Free]
    PROVE  /\ upload' \in [Workers -> Upload] /\ upload'[w].step = "idle"
           /\ \A v \in Workers \ {w} : upload'[v] = upload[v]
BY NobodyUploads DEF IdentityTypes

\* What is there stays there.
LEMMA CallsKeepDocs ==
    ASSUME IdentityTypes, NEW w \in Workers, \A v \in Workers \ {w} : upload'[v] = upload[v],
           upload'[w].step \in {"write", "submit"} =>
             upload'[w].doc \in {d \in Docs : docs'[d] # None} \cup {None},
           \A d \in Docs : docs[d] # None => docs'[d] # None
    PROVE  \A v \in Workers : upload'[v].step \in {"write", "submit"} =>
             upload'[v].doc \in Verification!Present' \cup {None}
BY DEF IdentityTypes, Verification!Present

LEMMA OpsAre == Verification!Ops = Judged \cup {"upload"} /\ Verification!Decisions = Judged
BY DEF Verification!Ops, Verification!Decisions, Judged

LEMMA SomeDocument ==
    ASSUME Verification!IdentityAssumption, NEW d \in Document
    PROVE  d # None
BY DEF Document, DocStatus, Verification!IdentityAssumption, Verification!Statuses

LEMMA DocumentIsMade ==
    ASSUME IdentityTypes, NEW w \in Workers, NEW d \in Docs, upload[w].op = "upload",
           upload' = [upload EXCEPT ![w].step = "submit", ![w].doc = d]
    PROVE  /\ upload' \in [Workers -> Upload]
           /\ upload'[w].step = "submit" /\ upload'[w].op = "upload"
           /\ upload'[w].doc = d /\ upload'[w].fresh = upload[w].fresh
           /\ \A v \in Workers \ {w} : upload'[v] = upload[v]
<1>1. upload[w] \in Upload /\ upload \in [Workers -> Upload]
  BY DEF IdentityTypes
<1> DEFINE c == [upload[w] EXCEPT !.step = "submit", !.doc = d]
<1>0. upload[w] \in [op : Judged \cup {"upload", "none"},
             step : {"idle", "count", "create", "submit", "write", "log"},
             doc : Docs \cup {None}, who : Reviewers \cup {None}, fresh : BOOLEAN]
  BY <1>1 DEF Upload
<1>2. /\ c \in [op : Judged \cup {"upload", "none"},
             step : {"idle", "count", "create", "submit", "write", "log"},
             doc : Docs \cup {None}, who : Reviewers \cup {None}, fresh : BOOLEAN]
      /\ c.step = "submit" /\ c.op = "upload" /\ c.doc = d /\ c.fresh = upload[w].fresh
  BY <1>0
<1>3. upload' = [upload EXCEPT ![w] = c]
  BY <1>1
<1> HIDE DEF c
<1>4. c \in Upload
  BY <1>2 DEF Upload
<1>5. /\ upload' \in [Workers -> Upload] /\ upload'[w] = c
      /\ \A v \in Workers \ {w} : upload'[v] = upload[v]
  BY <1>1, <1>3, <1>4
<1> QED
  BY <1>2, <1>5

LEMMA OneMore ==
    ASSUME NEW f \in [Judged \cup {"upload"} -> Nat], NEW o \in Judged \cup {"upload"},
           NEW g, g = [f EXCEPT ![o] = @ + 1]
    PROVE  g \in [Judged \cup {"upload"} -> Nat] /\ g[o] = f[o] + 1
           /\ \A p \in (Judged \cup {"upload"}) \ {o} : g[p] = f[p]
OBVIOUS

LEMMA VerdictIsIdentity ==
    ASSUME idStatus \in Identified, NEW op \in Judged, NEW who \in Reviewers
    PROVE  Verification!Verdict(op, who) \in Identified
<1>1. CASE op = "approve"
  BY <1>1 DEF Verification!Verdict, Identified
<1>2. CASE op = "reject"
  BY <1>2 DEF Verification!Verdict, Identified
<1>3. CASE op = "reset"
  BY <1>3 DEF Verification!Verdict, Identified
<1>4. CASE op = "review"
  BY <1>4 DEF Verification!Verdict
<1> QED
  BY <1>1, <1>2, <1>3, <1>4 DEF Judged

LEMMA DocumentIsReviewed ==
    ASSUME NEW op \in Judged, NEW who \in Reviewers, NEW doc
    PROVE  /\ Verification!Reviewed(op, who, doc) \in Document
           /\ Verification!Reviewed(op, who, doc).by # None =>
                Verification!Reviewed(op, who, doc).status = "UNDER_REVIEW"
<1>1. Verification!StatusOf(op) \in DocStatus /\ (op = "review" => Verification!StatusOf(op) = "UNDER_REVIEW")
  BY DEF Verification!StatusOf, Judged, DocStatus
<1> QED
  BY <1>1 DEF Verification!Reviewed, Document

LEMMA IdentityTypesStay ==
    ASSUME Verification!IdentityAssumption, IdentityTypes, Verification!Next
    PROVE  IdentityTypes'
<1> USE VerificationCount, OpsAre
<1>1. ASSUME NEW w \in Workers, Verification!uploadIdentityDocument(w) PROVE IdentityTypes'
  <2> DEFINE fresh == idStatus.status = "NOT_STARTED"
  <2>1. /\ Verification!Enter(w, "upload", "count", None, None, fresh)
        /\ UNCHANGED <<docs, idStatus, types, committed, logged, undone, workflow, mishaps>>
    BY <1>1 DEF Verification!uploadIdentityDocument, Verification!counters
  <2>2. fresh \in BOOLEAN
    OBVIOUS
  <2> HIDE DEF fresh
  <2>5. /\ upload' \in [Workers -> Upload]
        /\ upload'[w] = [op |-> "upload", step |-> "count", doc |-> None, who |-> None, fresh |-> fresh]
        /\ \A v \in Workers \ {w} : upload'[v] = upload[v]
        /\ calls' \in 0..MaxUploads
    BY Zenon, <2>1, <2>2, UploadBegins
  <2>3. upload'[w].step = "count"
    BY <2>5
  <2>4. \A v \in Workers : upload'[v].step \in {"write", "submit"} =>
          upload'[v].doc \in Verification!Present' \cup {None}
    BY <2>1, <2>3, <2>5, CallsKeepDocs
  <2> QED
    BY <2>1, <2>5, <2>4 DEF IdentityTypes
<1>2. ASSUME NEW w \in Workers, Verification!countDocuments(w) PROVE IdentityTypes'
  <2>1. UNCHANGED <<docs, idStatus, types, committed, logged, undone, calls, mishaps, workflow>>
    BY <1>2 DEF Verification!countDocuments, Verification!counters
  <2>2. /\ upload[w].op = "upload"
        /\ Verification!Go(w, "create") \/ upload' = [upload EXCEPT ![w] = Verification!Free]
    BY <1>2 DEF Verification!countDocuments
  <2>3. /\ upload' \in [Workers -> Upload] /\ upload'[w].step \in {"create", "idle"}
        /\ \A v \in Workers \ {w} : upload'[v] = upload[v]
    BY <2>2, UploadGoesOn, UploadEnds
  <2>4. \A v \in Workers : upload'[v].step \in {"write", "submit"} =>
          upload'[v].doc \in Verification!Present' \cup {None}
    BY <2>1, <2>3, CallsKeepDocs
  <2> QED
    BY <2>1, <2>3, <2>4 DEF IdentityTypes
<1>3. ASSUME NEW w \in Workers, NEW d \in Docs, NEW kind, Verification!createDocument(w, d, kind)
      PROVE  IdentityTypes'
  <2>1. /\ UNCHANGED <<idStatus, types, logged, undone, calls, mishaps, workflow>>
        /\ upload[w].op = "upload"
        /\ docs' = [docs EXCEPT ![d] = [status |-> "UNDER_REVIEW", by |-> None]]
        /\ committed' = [committed EXCEPT !["upload"] = @ + 1]
        /\ upload' = [upload EXCEPT ![w].step = "submit", ![w].doc = d]
    BY <1>3 DEF Verification!createDocument
  <2>2. [status |-> "UNDER_REVIEW", by |-> None] \in Document
    BY DEF Document, DocStatus
  <2>3. docs' \in [Docs -> Document \cup {None}] /\ docs'[d] # None
        /\ \A e \in Docs : docs[e] # None => docs'[e] # None
    <3>1. docs \in [Docs -> Document \cup {None}]
      BY DEF IdentityTypes
    <3>2. [status |-> "UNDER_REVIEW", by |-> None] # None
      BY <2>2, SomeDocument
    <3> QED
      BY <2>1, <2>2, <3>1, <3>2
  <2>4. committed' \in [Judged \cup {"upload"} -> Nat]
    BY <2>1, OneMore DEF IdentityTypes
  <2>5. /\ upload' \in [Workers -> Upload] /\ upload'[w].doc = d
        /\ \A v \in Workers \ {w} : upload'[v] = upload[v]
    BY <2>1, DocumentIsMade
  <2>6. \A v \in Workers : upload'[v].step \in {"write", "submit"} =>
          upload'[v].doc \in Verification!Present' \cup {None}
    BY <2>3, <2>5, CallsKeepDocs
  <2> QED
    BY <2>1, <2>3, <2>4, <2>5, <2>6 DEF IdentityTypes
<1>4. ASSUME NEW w \in Workers, Verification!submit(w) PROVE IdentityTypes'
  <2>1. /\ UNCHANGED <<docs, types, committed, logged, calls, mishaps, workflow>>
        /\ upload[w].op = "upload" /\ Verification!Go(w, "log")
        /\ idStatus' \in {idStatus, [idStatus EXCEPT !.status = "SUBMITTED"]}
        /\ undone' \in {undone, undone + 1}
    BY <1>4 DEF Verification!submit
  <2>2. idStatus' \in Identified /\ undone' \in Nat
    BY <2>1 DEF IdentityTypes, Identified
  <2>3. /\ upload' \in [Workers -> Upload] /\ upload'[w].step = "log"
        /\ \A v \in Workers \ {w} : upload'[v] = upload[v]
    BY <2>1, UploadGoesOn
  <2>4. \A v \in Workers : upload'[v].step \in {"write", "submit"} =>
          upload'[v].doc \in Verification!Present' \cup {None}
    BY <2>1, <2>3, CallsKeepDocs
  <2> QED
    BY <2>1, <2>2, <2>3, <2>4 DEF IdentityTypes
<1>5. ASSUME NEW w \in Workers, Verification!write(w) PROVE IdentityTypes'
  <2> DEFINE op == upload[w].op  d == upload[w].doc  who == upload[w].who
             r == Verification!Reviewed(op, who, docs[d])
  <2>1. /\ UNCHANGED <<types, logged, undone, calls, mishaps, workflow>>
        /\ upload[w].step = "write" /\ Verification!Go(w, "log")
        /\ docs' = IF d = None THEN docs ELSE [docs EXCEPT ![d] = r]
        /\ idStatus' = Verification!Verdict(op, who)
        /\ committed' = [committed EXCEPT ![op] = @ + 1]
    BY <1>5 DEF Verification!write
  <2>2. op \in Judged /\ who \in Reviewers /\ d \in Verification!Present \cup {None}
    BY <2>1 DEF IdentityTypes, Upload
  <2>3. r \in Document /\ r # None
    BY <2>2, DocumentIsReviewed, SomeDocument
  <2> HIDE DEF op, d, who, r
  <2>4. docs' \in [Docs -> Document \cup {None}] /\ \A e \in Docs : docs[e] # None => docs'[e] # None
    BY <2>1, <2>3 DEF IdentityTypes
  <2>5. idStatus' \in Identified
    BY <2>1, <2>2, VerdictIsIdentity DEF IdentityTypes
  <2>6. committed' \in [Judged \cup {"upload"} -> Nat]
    BY <2>1, <2>2, OneMore DEF IdentityTypes
  <2>7. /\ upload' \in [Workers -> Upload] /\ upload'[w].step = "log"
        /\ \A v \in Workers \ {w} : upload'[v] = upload[v]
    BY <2>1, <2>2, UploadGoesOn DEF op
  <2>8. \A v \in Workers : upload'[v].step \in {"write", "submit"} =>
          upload'[v].doc \in Verification!Present' \cup {None}
    BY <2>4, <2>7, CallsKeepDocs
  <2> QED
    BY <2>1, <2>4, <2>5, <2>6, <2>7, <2>8 DEF IdentityTypes
<1>6. ASSUME NEW w \in Workers, Verification!log(w) PROVE IdentityTypes'
  <2>1. /\ UNCHANGED <<docs, idStatus, types, committed, undone, calls, mishaps, workflow>>
        /\ upload[w].step = "log" /\ upload' = [upload EXCEPT ![w] = Verification!Free]
        /\ logged' = [logged EXCEPT ![upload[w].op] = @ + 1]
    BY <1>6 DEF Verification!log
  <2>2. upload[w].op \in Judged \cup {"upload"}
    BY <2>1 DEF IdentityTypes, Upload
  <2>3. logged' \in [Judged \cup {"upload"} -> Nat]
    BY <2>1, <2>2, OneMore DEF IdentityTypes
  <2>4. /\ upload' \in [Workers -> Upload] /\ upload'[w].step = "idle"
        /\ \A v \in Workers \ {w} : upload'[v] = upload[v]
    BY <2>1, UploadEnds
  <2>5. \A v \in Workers : upload'[v].step \in {"write", "submit"} =>
          upload'[v].doc \in Verification!Present' \cup {None}
    BY <2>1, <2>4, CallsKeepDocs
  <2> QED
    BY <2>1, <2>3, <2>4, <2>5 DEF IdentityTypes
<1>7. ASSUME NEW w \in Workers, Verification!Abandon(w) PROVE IdentityTypes'
  <2>1. /\ UNCHANGED <<docs, idStatus, types, committed, logged, undone, calls, workflow>>
        /\ upload' = [upload EXCEPT ![w] = Verification!Free]
        /\ mishaps < MaxFaults /\ mishaps' = mishaps + 1
    BY <1>7 DEF Verification!Abandon, Verification!counters
  <2>2. mishaps' \in 0..MaxFaults
    BY <2>1 DEF IdentityTypes
  <2>3. /\ upload' \in [Workers -> Upload] /\ upload'[w].step = "idle"
        /\ \A v \in Workers \ {w} : upload'[v] = upload[v]
    BY <2>1, UploadEnds
  <2>4. \A v \in Workers : upload'[v].step \in {"write", "submit"} =>
          upload'[v].doc \in Verification!Present' \cup {None}
    BY <2>1, <2>3, CallsKeepDocs
  <2> QED
    BY <2>1, <2>2, <2>3, <2>4 DEF IdentityTypes
<1>8. ASSUME NEW w \in Workers, NEW op \in Verification!Decisions, NEW d \in Docs \cup {None},
             NEW who \in Reviewers, Verification!decide(w, op, d, who)
      PROVE  IdentityTypes'
  <2>1. /\ Verification!Enter(w, op, "write", d, who, FALSE)
        /\ UNCHANGED <<docs, idStatus, types, committed, logged, undone, workflow, mishaps>>
        /\ d \in Verification!Present \cup {None}
    BY <1>8 DEF Verification!decide, Verification!counters
  <2>4. op \in Judged
    BY <1>8
  <2>5. /\ upload' \in [Workers -> Upload]
        /\ upload'[w] = [op |-> op, step |-> "write", doc |-> d, who |-> who, fresh |-> FALSE]
        /\ \A v \in Workers \ {w} : upload'[v] = upload[v]
        /\ calls' \in 0..MaxUploads
    BY Zenon, <2>1, <2>4, DecisionBegins
  <2>2. upload'[w].doc = d
    BY <2>5
  <2>3. \A v \in Workers : upload'[v].step \in {"write", "submit"} =>
          upload'[v].doc \in Verification!Present' \cup {None}
    BY <2>1, <2>2, <2>5, CallsKeepDocs DEF Verification!Present
  <2> QED
    BY <2>1, <2>5, <2>3 DEF IdentityTypes
<1>9. ASSUME NEW result \in {"approved", "declined", "other"},
             Verification!updateProviderFromWorkflow(result)
      PROVE  IdentityTypes'
  <2>1. /\ UNCHANGED <<docs, types, upload, committed, logged, undone, mishaps, workflow>>
        /\ calls < MaxUploads /\ calls' = calls + 1
    BY <1>9 DEF Verification!updateProviderFromWorkflow, Verification!counters
  <2>2. idStatus' \in {[status |-> "VERIFIED", reviewer |-> "Onfido", verifiedAt |-> TRUE],
                       [idStatus EXCEPT !.status = "REJECTED", !.reviewer = "Onfido"], idStatus}
    BY <1>9 DEF Verification!updateProviderFromWorkflow
  <2>3. idStatus' \in Identified
    <3>1. CASE idStatus' = [idStatus EXCEPT !.status = "REJECTED", !.reviewer = "Onfido"]
      BY <3>1 DEF IdentityTypes, Identified
    <3>2. CASE idStatus' = [status |-> "VERIFIED", reviewer |-> "Onfido", verifiedAt |-> TRUE]
      BY <3>2 DEF Identified
    <3> QED
      BY <2>2, <3>1, <3>2 DEF IdentityTypes
  <2>4. calls' \in 0..MaxUploads
    BY <2>1 DEF IdentityTypes
  <2> QED
    BY <2>1, <2>3, <2>4 DEF IdentityTypes, Verification!Present
<1>10. ASSUME NEW c \in Customs, NEW on \in BOOLEAN,
              Verification!createType(c) \/ Verification!softDelete(c) \/ Verification!updateType(c, on)
       PROVE  IdentityTypes'
  <2>1. UNCHANGED <<docs, idStatus, upload, committed, logged, undone, calls, mishaps, workflow>>
    BY <1>10 DEF Verification!createType, Verification!softDelete, Verification!updateType,
                 Verification!counters
  <2>2. types' \in [Customs -> Kind \cup {None}]
    <3>1. types \in [Customs -> Kind \cup {None}]
      BY DEF IdentityTypes
    <3>2. CASE Verification!createType(c) \/ Verification!softDelete(c)
      <4>1. /\ [isActive |-> TRUE, archived |-> FALSE] \in Kind
            /\ [isActive |-> FALSE, archived |-> TRUE] \in Kind
        BY DEF Kind
      <4>2. \/ types' = [types EXCEPT ![c] = [isActive |-> TRUE, archived |-> FALSE]]
            \/ types' = [types EXCEPT ![c] = [isActive |-> FALSE, archived |-> TRUE]]
        BY <3>2 DEF Verification!createType, Verification!softDelete
      <4> QED
        BY <3>1, <4>1, <4>2
    <3>3. CASE Verification!updateType(c, on)
      <4>1. types[c] \in Kind
        BY <3>1, <3>3 DEF Verification!updateType
      <4>2. [types[c] EXCEPT !.isActive = on] \in Kind
        BY <4>1 DEF Kind
      <4> QED
        BY <3>1, <3>3, <4>2 DEF Verification!updateType
    <3> QED
      BY <1>10, <3>2, <3>3
  <2> QED
    BY <2>1, <2>2 DEF IdentityTypes, Verification!Present
<1> QED
  BY <1>1, <1>2, <1>3, <1>4, <1>5, <1>6, <1>7, <1>8, <1>9, <1>10 DEF Verification!Next

\* What each step does to a call, to the counters and to the provider.
Passes(w, from, to) ==
    upload[w].step = from /\ upload'[w].step = to /\ \A v \in Workers \ {w} : upload'[v] = upload[v]
Keeps(w) == upload'[w].op = upload[w].op /\ upload'[w].fresh = upload[w].fresh

Counting(w) ==
    /\ Passes(w, "idle", "count") /\ (upload'[w].fresh => idStatus.status = "NOT_STARTED")
    /\ UNCHANGED <<docs, idStatus, committed, logged, undone, workflow, mishaps>>
Deciding(w) ==
    /\ Passes(w, "idle", "write") /\ ~upload'[w].fresh
    /\ UNCHANGED <<docs, idStatus, committed, logged, undone, workflow, mishaps>>
HasRoom(w) ==
    /\ Passes(w, "count", "create") /\ Keeps(w) /\ Cardinality(Verification!Present) < DocLimit
    /\ UNCHANGED <<docs, idStatus, committed, logged, undone, workflow, mishaps>>
IsRefused(w) ==
    /\ Passes(w, "count", "idle")
    /\ UNCHANGED <<docs, idStatus, committed, logged, undone, workflow, mishaps>>
Creating(w) ==
    /\ Passes(w, "create", "submit") /\ Keeps(w)
    /\ \E d \in Docs : docs' = [docs EXCEPT ![d] = [status |-> "UNDER_REVIEW", by |-> None]]
    /\ committed' = [committed EXCEPT !["upload"] = @ + 1]
    /\ UNCHANGED <<idStatus, logged, undone, workflow, mishaps>>
Submitting(w) ==
    /\ Passes(w, "submit", "log") /\ Keeps(w)
    /\ \/ upload[w].fresh /\ idStatus' = [idStatus EXCEPT !.status = "SUBMITTED"]
          /\ undone' = IF idStatus.status \in {"VERIFIED", "REJECTED"} THEN undone + 1 ELSE undone
       \/ ~upload[w].fresh /\ UNCHANGED <<idStatus, undone>>
    /\ UNCHANGED <<docs, committed, logged, workflow, mishaps>>
Writing(w) ==
    /\ Passes(w, "write", "log") /\ Keeps(w)
    /\ \/ docs' = docs
       \/ \E d \in Verification!Present : \E r \in Document :
            (r.by # None => r.status = "UNDER_REVIEW") /\ docs' = [docs EXCEPT ![d] = r]
    /\ \/ idStatus' = idStatus
       \/ idStatus'.status \in {"VERIFIED", "REJECTED", "SUBMITTED"}
          /\ (idStatus'.verifiedAt <=> idStatus'.status = "VERIFIED")
    /\ committed' = [committed EXCEPT ![upload[w].op] = @ + 1]
    /\ UNCHANGED <<logged, undone, workflow, mishaps>>
Logging(w) ==
    /\ Passes(w, "log", "idle")
    /\ logged' = [logged EXCEPT ![upload[w].op] = @ + 1]
    /\ UNCHANGED <<docs, idStatus, committed, undone, workflow, mishaps>>
CutShort(w) ==
    /\ upload'[w].step = "idle" /\ \A v \in Workers \ {w} : upload'[v] = upload[v]
    /\ mishaps' = mishaps + 1
    /\ UNCHANGED <<docs, idStatus, committed, logged, undone, workflow>>
FromOnfido ==
    /\ workflow
    /\ idStatus' = idStatus \/ idStatus'.status \in {"VERIFIED", "REJECTED"}
    /\ UNCHANGED <<docs, upload, committed, logged, undone, workflow, mishaps>>
AboutKinds == UNCHANGED <<docs, idStatus, upload, committed, logged, undone, workflow, mishaps>>

IdentityStep ==
    \/ \E w \in Workers :
         \/ Counting(w) \/ Deciding(w) \/ HasRoom(w) \/ IsRefused(w) \/ Creating(w)
         \/ Submitting(w) \/ Writing(w) \/ Logging(w) \/ CutShort(w)
    \/ FromOnfido \/ AboutKinds

LEMMA VerdictSays ==
    ASSUME NEW op \in Judged, NEW who, idStatus' = Verification!Verdict(op, who)
    PROVE  \/ idStatus' = idStatus
           \/ idStatus'.status \in {"VERIFIED", "REJECTED", "SUBMITTED"}
              /\ (idStatus'.verifiedAt <=> idStatus'.status = "VERIFIED")
<1>1. CASE op = "approve"
  BY <1>1 DEF Verification!Verdict
<1>2. CASE op = "reject"
  BY <1>2 DEF Verification!Verdict
<1>3. CASE op = "reset"
  BY <1>3 DEF Verification!Verdict
<1>4. CASE op = "review"
  BY <1>4 DEF Verification!Verdict
<1> QED
  BY <1>1, <1>2, <1>3, <1>4 DEF Judged

LEMMA IdentitySteps ==
    ASSUME Verification!IdentityAssumption, IdentityTypes, Verification!Next
    PROVE  IdentityStep
<1> USE VerificationCount, OpsAre
<1>1. ASSUME NEW w \in Workers, Verification!uploadIdentityDocument(w) PROVE Counting(w)
  <2> DEFINE fresh == idStatus.status = "NOT_STARTED"
  <2>1. /\ Verification!Enter(w, "upload", "count", None, None, fresh)
        /\ UNCHANGED <<docs, idStatus, committed, logged, undone, workflow, mishaps>>
    BY <1>1 DEF Verification!uploadIdentityDocument, Verification!counters
  <2>2. fresh \in BOOLEAN
    OBVIOUS
  <2>3. fresh => idStatus.status = "NOT_STARTED"
    OBVIOUS
  <2> HIDE DEF fresh
  <2>4. /\ upload[w].step = "idle"
        /\ upload'[w] = [op |-> "upload", step |-> "count", doc |-> None, who |-> None, fresh |-> fresh]
        /\ \A v \in Workers \ {w} : upload'[v] = upload[v]
    BY Zenon, <2>1, <2>2, UploadBegins
  <2>5. upload'[w].step = "count" /\ upload'[w].fresh = fresh
    BY <2>4
  <2> QED
    BY <2>1, <2>3, <2>4, <2>5 DEF Counting, Passes
<1>2. ASSUME NEW w \in Workers, Verification!countDocuments(w) PROVE HasRoom(w) \/ IsRefused(w)
  <2>1. /\ UNCHANGED <<docs, idStatus, committed, logged, undone, mishaps, workflow>>
        /\ upload[w].op = "upload" /\ upload[w].step = "count"
    BY <1>2 DEF Verification!countDocuments, Verification!counters
  <2>2. CASE Verification!hasRoom
    <3>1. Verification!Go(w, "create") /\ Cardinality(Verification!Present) < DocLimit
      BY <1>2, <2>2 DEF Verification!countDocuments, Verification!hasRoom
    <3>2. /\ upload'[w].step = "create" /\ upload'[w].op = upload[w].op
          /\ upload'[w].fresh = upload[w].fresh /\ \A v \in Workers \ {w} : upload'[v] = upload[v]
      BY <2>1, <3>1, UploadGoesOn
    <3> QED
      BY <2>1, <3>1, <3>2 DEF HasRoom, Passes, Keeps
  <2>3. CASE ~Verification!hasRoom
    <3>1. upload' = [upload EXCEPT ![w] = Verification!Free]
      BY <1>2, <2>3 DEF Verification!countDocuments
    <3>2. upload'[w].step = "idle" /\ \A v \in Workers \ {w} : upload'[v] = upload[v]
      BY <3>1, UploadEnds
    <3> QED
      BY <2>1, <3>2 DEF IsRefused, Passes
  <2> QED
    BY <2>2, <2>3
<1>3. ASSUME NEW w \in Workers, NEW d \in Docs, NEW kind, Verification!createDocument(w, d, kind)
      PROVE  Creating(w)
  <2>1. /\ UNCHANGED <<idStatus, logged, undone, mishaps, workflow>>
        /\ upload[w].op = "upload" /\ upload[w].step = "create"
        /\ docs' = [docs EXCEPT ![d] = [status |-> "UNDER_REVIEW", by |-> None]]
        /\ committed' = [committed EXCEPT !["upload"] = @ + 1]
        /\ upload' = [upload EXCEPT ![w].step = "submit", ![w].doc = d]
    BY <1>3 DEF Verification!createDocument
  <2>2. /\ upload'[w].step = "submit" /\ upload'[w].op = upload[w].op
        /\ upload'[w].fresh = upload[w].fresh /\ \A v \in Workers \ {w} : upload'[v] = upload[v]
    BY <2>1, DocumentIsMade
  <2> QED
    BY <2>1, <2>2 DEF Creating, Passes, Keeps
<1>4. ASSUME NEW w \in Workers, Verification!submit(w) PROVE Submitting(w)
  <2>1. /\ UNCHANGED <<docs, committed, logged, mishaps, workflow>>
        /\ upload[w].op = "upload" /\ upload[w].step = "submit" /\ Verification!Go(w, "log")
    BY <1>4 DEF Verification!submit
  <2>2. \/ upload[w].fresh /\ idStatus' = [idStatus EXCEPT !.status = "SUBMITTED"]
           /\ undone' = IF idStatus.status \in {"VERIFIED", "REJECTED"} THEN undone + 1 ELSE undone
        \/ ~upload[w].fresh /\ UNCHANGED <<idStatus, undone>>
    BY <1>4 DEF Verification!submit, Verification!submits
  <2>3. /\ upload'[w].step = "log" /\ upload'[w].op = upload[w].op
        /\ upload'[w].fresh = upload[w].fresh /\ \A v \in Workers \ {w} : upload'[v] = upload[v]
    BY <2>1, UploadGoesOn
  <2> QED
    BY <2>1, <2>2, <2>3 DEF Submitting, Passes, Keeps
<1>5. ASSUME NEW w \in Workers, Verification!write(w) PROVE Writing(w)
  <2> DEFINE op == upload[w].op  d == upload[w].doc  who == upload[w].who
             r == Verification!Reviewed(op, who, docs[d])
  <2>1. /\ UNCHANGED <<logged, undone, mishaps, workflow>>
        /\ upload[w].step = "write" /\ Verification!Go(w, "log")
        /\ docs' = IF d = None THEN docs ELSE [docs EXCEPT ![d] = r]
        /\ idStatus' = Verification!Verdict(op, who)
        /\ committed' = [committed EXCEPT ![op] = @ + 1]
    BY <1>5 DEF Verification!write
  <2>2. op \in Judged /\ who \in Reviewers /\ d \in Verification!Present \cup {None}
    BY <2>1 DEF IdentityTypes, Upload
  <2>3. r \in Document /\ (r.by # None => r.status = "UNDER_REVIEW")
    BY <2>2, DocumentIsReviewed
  <2>4. /\ upload'[w].step = "log" /\ upload'[w].op = upload[w].op
        /\ upload'[w].fresh = upload[w].fresh /\ \A v \in Workers \ {w} : upload'[v] = upload[v]
    BY <2>1, <2>2, UploadGoesOn
  <2>5. \/ idStatus' = idStatus
        \/ idStatus'.status \in {"VERIFIED", "REJECTED", "SUBMITTED"}
           /\ (idStatus'.verifiedAt <=> idStatus'.status = "VERIFIED")
    BY <2>1, <2>2, VerdictSays
  <2> HIDE DEF d, r
  <2>6. \/ docs' = docs
        \/ \E e \in Verification!Present : \E x \in Document :
             (x.by # None => x.status = "UNDER_REVIEW") /\ docs' = [docs EXCEPT ![e] = x]
    BY <2>1, <2>2, <2>3
  <2> QED
    BY <2>1, <2>4, <2>5, <2>6 DEF Writing, Passes, Keeps
<1>6. ASSUME NEW w \in Workers, Verification!log(w) PROVE Logging(w)
  <2>1. /\ UNCHANGED <<docs, idStatus, committed, undone, mishaps, workflow>>
        /\ upload[w].step = "log" /\ upload' = [upload EXCEPT ![w] = Verification!Free]
        /\ logged' = [logged EXCEPT ![upload[w].op] = @ + 1]
    BY <1>6 DEF Verification!log
  <2>2. upload'[w].step = "idle" /\ \A v \in Workers \ {w} : upload'[v] = upload[v]
    BY <2>1, UploadEnds
  <2> QED
    BY <2>1, <2>2 DEF Logging, Passes
<1>7. ASSUME NEW w \in Workers, Verification!Abandon(w) PROVE CutShort(w)
  <2>1. /\ UNCHANGED <<docs, idStatus, committed, logged, undone, workflow>>
        /\ upload' = [upload EXCEPT ![w] = Verification!Free] /\ mishaps' = mishaps + 1
    BY <1>7 DEF Verification!Abandon, Verification!counters
  <2>2. upload'[w].step = "idle" /\ \A v \in Workers \ {w} : upload'[v] = upload[v]
    BY <2>1, UploadEnds
  <2> QED
    BY <2>1, <2>2 DEF CutShort
<1>8. ASSUME NEW w \in Workers, NEW op \in Verification!Decisions, NEW d \in Docs \cup {None},
             NEW who \in Reviewers, Verification!decide(w, op, d, who)
      PROVE  Deciding(w)
  <2>1. /\ Verification!Enter(w, op, "write", d, who, FALSE)
        /\ UNCHANGED <<docs, idStatus, committed, logged, undone, workflow, mishaps>>
    BY <1>8 DEF Verification!decide, Verification!counters
  <2>2. op \in Judged
    BY <1>8
  <2>3. /\ upload[w].step = "idle"
        /\ upload'[w] = [op |-> op, step |-> "write", doc |-> d, who |-> who, fresh |-> FALSE]
        /\ \A v \in Workers \ {w} : upload'[v] = upload[v]
    BY Zenon, <2>1, <2>2, DecisionBegins
  <2>4. upload'[w].step = "write" /\ ~upload'[w].fresh
    BY <2>3
  <2> QED
    BY <2>1, <2>3, <2>4 DEF Deciding, Passes
<1>9. ASSUME NEW result \in {"approved", "declined", "other"},
             Verification!updateProviderFromWorkflow(result)
      PROVE  FromOnfido
  <2>1. /\ UNCHANGED <<docs, upload, committed, logged, undone, mishaps, workflow>> /\ workflow
    BY <1>9 DEF Verification!updateProviderFromWorkflow, Verification!counters
  <2>2. idStatus' \in {[status |-> "VERIFIED", reviewer |-> "Onfido", verifiedAt |-> TRUE],
                       [idStatus EXCEPT !.status = "REJECTED", !.reviewer = "Onfido"], idStatus}
    BY <1>9 DEF Verification!updateProviderFromWorkflow
  <2>3. [idStatus EXCEPT !.status = "REJECTED", !.reviewer = "Onfido"].status = "REJECTED"
    BY DEF IdentityTypes, Identified
  <2>4. idStatus' = idStatus \/ idStatus'.status \in {"VERIFIED", "REJECTED"}
    <3>1. CASE idStatus' = [idStatus EXCEPT !.status = "REJECTED", !.reviewer = "Onfido"]
      BY <2>3, <3>1
    <3>2. CASE idStatus' = [status |-> "VERIFIED", reviewer |-> "Onfido", verifiedAt |-> TRUE]
      BY <3>2
    <3> QED
      BY <2>2, <3>1, <3>2
  <2> QED
    BY <2>1, <2>4 DEF FromOnfido
<1>10. ASSUME NEW c \in Customs, NEW on \in BOOLEAN,
              Verification!createType(c) \/ Verification!softDelete(c) \/ Verification!updateType(c, on)
       PROVE  AboutKinds
  BY <1>10 DEF Verification!createType, Verification!softDelete, Verification!updateType,
               Verification!counters, AboutKinds
<1> QED
  BY <1>1, <1>2, <1>3, <1>4, <1>5, <1>6, <1>7, <1>8, <1>9, <1>10 DEF Verification!Next, IdentityStep

\* A document that names its reviewer is under review; uploads that are about to create one
\* have each seen room.
ToCreate == {w \in Workers : upload[w].step = "create"}
DocsKept ==
    /\ Verification!NamedMeansUnderReview
    /\ IsFiniteSet(Verification!Present)
    /\ Cardinality(Verification!Present) + Cardinality(ToCreate) <= DocLimit - 1 + Cardinality(Workers)

\* What is written and not logged is in a call under way, or was cut short.
ToLog == {w \in Workers : upload[w].step \in {"log", "submit"}}
ToLogOf(o) == {w \in ToLog : upload[w].op = o}
Missing(o) == committed[o] - logged[o]
LogKept ==
    /\ \A o \in Judged \cup {"upload"} : logged[o] + Cardinality(ToLogOf(o)) <= committed[o]
    /\ Missing("approve") + Missing("reject") + Missing("review") + Missing("reset") + Missing("upload")
         <= Cardinality(ToLog) + mishaps

\* Uploads that began before anything was submitted.
Fresh == {w \in Workers : upload[w].step \in {"count", "create", "submit"} /\ upload[w].fresh}
VerdictsKept ==
    /\ idStatus.status = "NOT_STARTED" => undone = 0
    /\ idStatus.status # "NOT_STARTED" =>
         undone + Cardinality(Fresh) <= Cardinality(Workers) - (IF workflow THEN 0 ELSE 1)

\* One call at a time, and no result from elsewhere.
AloneKept ==
    /\ \A v, w \in Workers : upload[v].step # "idle" /\ upload[w].step # "idle" => v = w
    /\ \A w \in Fresh : idStatus.status = "NOT_STARTED"
    /\ undone = 0 /\ (idStatus.verifiedAt <=> idStatus.status = "VERIFIED")

LEMMA WorkersCount ==
    ASSUME Verification!IdentityAssumption, NEW S \in SUBSET Workers, NEW T \in SUBSET Workers,
           NEW w \in Workers, S \ {w} = T \ {w}
    PROVE  /\ Cardinality(S) \in Nat /\ Cardinality(T) \in Nat
           /\ Cardinality(S) <= Cardinality(Workers)
           /\ w \notin S => Cardinality(S) <= Cardinality(Workers) - 1
           /\ w \in S /\ w \notin T => Cardinality(T) = Cardinality(S) - 1
           /\ w \notin S /\ w \in T => Cardinality(T) = Cardinality(S) + 1
           /\ (w \in S <=> w \in T) => Cardinality(T) = Cardinality(S)
<1>1. IsFiniteSet(Workers) /\ Cardinality(Workers) \in Nat
  BY VerificationCount
<1>2. /\ IsFiniteSet(S) /\ IsFiniteSet(T) /\ IsFiniteSet(Workers \ {w})
      /\ Cardinality(S) <= Cardinality(Workers)
      /\ Cardinality(Workers \ {w}) = Cardinality(Workers) - 1
  BY <1>1, FS_Subset, FS_RemoveElement
<1>3. Cardinality(S) \in Nat /\ Cardinality(T) \in Nat
  BY <1>2, FS_CardinalityType
<1>4. ASSUME w \notin S PROVE Cardinality(S) <= Cardinality(Workers) - 1
  <2>1. S \subseteq Workers \ {w}
    BY <1>4
  <2> QED
    BY <1>2, <2>1, FS_Subset
<1>5. ASSUME w \in S, w \notin T PROVE Cardinality(T) = Cardinality(S) - 1
  <2>1. T = S \ {w}
    BY <1>5
  <2> QED
    BY <1>2, <1>5, <2>1, FS_RemoveElement
<1>6. ASSUME w \notin S, w \in T PROVE Cardinality(T) = Cardinality(S) + 1
  <2>1. S = T \ {w}
    BY <1>6
  <2>2. Cardinality(S) = Cardinality(T) - 1
    BY <1>2, <1>6, <2>1, FS_RemoveElement
  <2> QED
    BY <1>3, <2>2
<1>7. ASSUME w \in S <=> w \in T PROVE Cardinality(T) = Cardinality(S)
  <2>1. S = T
    BY <1>7
  <2> QED
    BY <2>1
<1> QED
  BY <1>2, <1>3, <1>4, <1>5, <1>6, <1>7

LEMMA DocsStayKept ==
    ASSUME Verification!IdentityAssumption, IdentityTypes, DocsKept, IdentityStep
    PROVE  DocsKept'
<1> USE VerificationCount
<1>0. /\ docs \in [Docs -> Document \cup {None}] /\ IsFiniteSet(Verification!Present)
      /\ ToCreate \in SUBSET Workers /\ ToCreate' \in SUBSET Workers
      /\ Cardinality(Verification!Present) \in Nat
  BY FS_CardinalityType DEF IdentityTypes, DocsKept, ToCreate
<1>1. ASSUME docs' = docs, Cardinality(ToCreate') <= Cardinality(ToCreate),
             Cardinality(ToCreate) \in Nat, Cardinality(ToCreate') \in Nat
      PROVE  DocsKept'
  <2>1. Verification!Present' = Verification!Present
    BY <1>1 DEF Verification!Present
  <2>2. Verification!NamedMeansUnderReview'
    BY <1>1, <2>1 DEF DocsKept, Verification!NamedMeansUnderReview
  <2> QED
    BY <1>0, <1>1, <2>1, <2>2 DEF DocsKept
<1>2. ASSUME NEW w \in Workers, \A v \in Workers \ {w} : upload'[v] = upload[v]
      PROVE  /\ Cardinality(ToCreate) \in Nat /\ Cardinality(ToCreate') \in Nat
             /\ upload[w].step = "create" /\ upload'[w].step # "create" =>
                  Cardinality(ToCreate') = Cardinality(ToCreate) - 1
             /\ upload'[w].step # "create" => Cardinality(ToCreate') <= Cardinality(ToCreate)
             /\ Cardinality(ToCreate') <= Cardinality(Workers)
  <2>1. ToCreate \ {w} = ToCreate' \ {w}
    BY <1>2 DEF ToCreate
  <2>2. (w \in ToCreate <=> upload[w].step = "create") /\ (w \in ToCreate' <=> upload'[w].step = "create")
    BY <1>2 DEF ToCreate
  <2>3. ToCreate' \ {w} = ToCreate \ {w}
    BY <2>1
  <2> HIDE DEF ToCreate
  <2>4. Cardinality(ToCreate') <= Cardinality(Workers)
    BY <1>0, <2>3, WorkersCount
  <2> QED
    BY <1>0, <2>1, <2>2, <2>4, WorkersCount
<1>3. ASSUME NEW w \in Workers, Counting(w) \/ Deciding(w) \/ IsRefused(w) \/ Submitting(w)
                                \/ Logging(w) \/ CutShort(w)
      PROVE  DocsKept'
  <2>1. /\ docs' = docs /\ upload'[w].step # "create"
        /\ \A v \in Workers \ {w} : upload'[v] = upload[v]
    BY <1>3 DEF Counting, Deciding, IsRefused, Submitting, Logging, CutShort, Passes
  <2> QED
    BY <1>1, <1>2, <2>1
<1>4. ASSUME NEW w \in Workers, HasRoom(w) PROVE DocsKept'
  <2>1. /\ docs' = docs /\ Cardinality(Verification!Present) < DocLimit
        /\ \A v \in Workers \ {w} : upload'[v] = upload[v]
    BY <1>4 DEF HasRoom, Passes
  <2>2. Verification!Present' = Verification!Present
    BY <2>1 DEF Verification!Present
  <2>3. Verification!NamedMeansUnderReview'
    BY <2>1, <2>2 DEF DocsKept, Verification!NamedMeansUnderReview
  <2>4. Cardinality(ToCreate') \in Nat /\ Cardinality(ToCreate') <= Cardinality(Workers)
    BY <1>2, <2>1
  <2> QED
    BY <1>0, <2>1, <2>2, <2>3, <2>4 DEF DocsKept
<1>5. ASSUME NEW w \in Workers, Creating(w) PROVE DocsKept'
  <2>1. PICK d \in Docs : docs' = [docs EXCEPT ![d] = [status |-> "UNDER_REVIEW", by |-> None]]
    BY <1>5 DEF Creating
  <2>2. Cardinality(ToCreate') = Cardinality(ToCreate) - 1 /\ Cardinality(ToCreate) \in Nat
    BY <1>2, <1>5 DEF Creating, Passes
  <2>3. docs'[d] = [status |-> "UNDER_REVIEW", by |-> None] /\ \A e \in Docs \ {d} : docs'[e] = docs[e]
    BY <1>0, <2>1
  <2>4. Verification!NamedMeansUnderReview'
    BY <2>3 DEF DocsKept, Verification!NamedMeansUnderReview, Verification!Present
  <2>5. Verification!Present' \subseteq Verification!Present \cup {d}
    BY <2>3 DEF Verification!Present
  <2>6. /\ IsFiniteSet(Verification!Present \cup {d})
        /\ Cardinality(Verification!Present \cup {d}) <= Cardinality(Verification!Present) + 1
        /\ Cardinality(Verification!Present \cup {d}) \in Nat
    <3>1. /\ IsFiniteSet(Verification!Present \cup {d})
          /\ Cardinality(Verification!Present \cup {d}) =
               IF d \in Verification!Present THEN Cardinality(Verification!Present)
               ELSE Cardinality(Verification!Present) + 1
      BY <1>0, FS_AddElement
    <3> QED
      BY <1>0, <3>1, FS_CardinalityType
  <2>7. /\ IsFiniteSet(Verification!Present')
        /\ Cardinality(Verification!Present') <= Cardinality(Verification!Present \cup {d})
    BY <2>5, <2>6, FS_Subset
  <2>8. Cardinality(Verification!Present') \in Nat
    BY <2>7, FS_CardinalityType
  <2> QED
    BY <1>0, <2>2, <2>4, <2>6, <2>7, <2>8 DEF DocsKept
<1>6. ASSUME NEW w \in Workers, Writing(w) PROVE DocsKept'
  <2>1. Cardinality(ToCreate') <= Cardinality(ToCreate) /\ Cardinality(ToCreate') \in Nat
        /\ Cardinality(ToCreate) \in Nat
    BY <1>2, <1>6 DEF Writing, Passes
  <2>2. CASE docs' = docs
    BY <1>1, <2>1, <2>2
  <2>3. ASSUME NEW d \in Verification!Present, NEW r \in Document,
               r.by # None => r.status = "UNDER_REVIEW", docs' = [docs EXCEPT ![d] = r]
        PROVE  DocsKept'
    <3>1. d \in Docs /\ docs'[d] = r /\ \A e \in Docs \ {d} : docs'[e] = docs[e]
      BY <1>0, <2>3 DEF Verification!Present
    <3>2. Verification!NamedMeansUnderReview'
      BY <2>3, <3>1 DEF DocsKept, Verification!NamedMeansUnderReview, Verification!Present
    <3>3. Verification!Present' = Verification!Present
      BY <3>1, SomeDocument DEF Verification!Present
    <3> QED
      BY <1>0, <2>1, <3>2, <3>3 DEF DocsKept
  <2> QED
    BY <1>6, <2>2, <2>3 DEF Writing
<1>7. ASSUME FromOnfido \/ AboutKinds PROVE DocsKept'
  <2>1. docs' = docs /\ upload' = upload
    BY <1>7 DEF FromOnfido, AboutKinds
  <2> QED
    BY <2>1 DEF DocsKept, ToCreate, Verification!NamedMeansUnderReview, Verification!Present
<1> QED
  BY <1>3, <1>4, <1>5, <1>6, <1>7 DEF IdentityStep

LEMMA ToLogMoves ==
    ASSUME Verification!IdentityAssumption, IdentityTypes, NEW w \in Workers,
           \A v \in Workers \ {w} : upload'[v] = upload[v]
    PROVE  /\ Cardinality(ToLog) \in Nat /\ Cardinality(ToLog') \in Nat
           /\ w \notin ToLog /\ w \in ToLog' => Cardinality(ToLog') = Cardinality(ToLog) + 1
           /\ w \in ToLog /\ w \notin ToLog' => Cardinality(ToLog') = Cardinality(ToLog) - 1
           /\ (w \in ToLog <=> w \in ToLog') => Cardinality(ToLog') = Cardinality(ToLog)
           /\ \A o \in Judged \cup {"upload"} :
                /\ Cardinality(ToLogOf(o)) \in Nat /\ Cardinality(ToLogOf(o)') \in Nat
                /\ w \notin ToLogOf(o) /\ w \in ToLogOf(o)' =>
                     Cardinality(ToLogOf(o)') = Cardinality(ToLogOf(o)) + 1
                /\ w \in ToLogOf(o) /\ w \notin ToLogOf(o)' =>
                     Cardinality(ToLogOf(o)') = Cardinality(ToLogOf(o)) - 1
                /\ (w \in ToLogOf(o) <=> w \in ToLogOf(o)') =>
                     Cardinality(ToLogOf(o)') = Cardinality(ToLogOf(o))
<1>1. ToLog \in SUBSET Workers /\ ToLog' \in SUBSET Workers /\ ToLog \ {w} = ToLog' \ {w}
  BY DEF ToLog
<1>2. ASSUME NEW o \in Judged \cup {"upload"}
      PROVE  ToLogOf(o) \in SUBSET Workers /\ ToLogOf(o)' \in SUBSET Workers
             /\ ToLogOf(o) \ {w} = ToLogOf(o)' \ {w}
  BY DEF ToLogOf, ToLog
<1> HIDE DEF ToLog, ToLogOf
<1> QED
  BY <1>1, <1>2, WorkersCount

LEMMA OneMissingMore ==
    ASSUME IdentityTypes, NEW o \in Judged \cup {"upload"},
           \/ committed' = [committed EXCEPT ![o] = @ + 1] /\ logged' = logged
    PROVE  Missing("approve")' + Missing("reject")' + Missing("review")' + Missing("reset")'
             + Missing("upload")' =
           Missing("approve") + Missing("reject") + Missing("review") + Missing("reset")
             + Missing("upload") + 1
<1>1. /\ committed'[o] = committed[o] + 1
      /\ \A p \in (Judged \cup {"upload"}) \ {o} : committed'[p] = committed[p]
      /\ \A p \in Judged \cup {"upload"} : committed[p] \in Nat /\ logged[p] \in Nat
      /\ logged' = logged
  BY DEF IdentityTypes
<1>2. /\ Missing(o)' = Missing(o) + 1
      /\ \A p \in (Judged \cup {"upload"}) \ {o} : Missing(p)' = Missing(p)
      /\ \A p \in Judged \cup {"upload"} : Missing(p) \in Int
  BY <1>1 DEF Missing
<1> HIDE DEF Missing
<1> QED
  BY <1>2 DEF Judged

LEMMA OneMissingLess ==
    ASSUME IdentityTypes, NEW o \in Judged \cup {"upload"},
           logged' = [logged EXCEPT ![o] = @ + 1] /\ committed' = committed
    PROVE  Missing("approve")' + Missing("reject")' + Missing("review")' + Missing("reset")'
             + Missing("upload")' =
           (Missing("approve") + Missing("reject") + Missing("review") + Missing("reset")
             + Missing("upload")) - 1
<1>1. /\ logged'[o] = logged[o] + 1
      /\ \A p \in (Judged \cup {"upload"}) \ {o} : logged'[p] = logged[p]
      /\ \A p \in Judged \cup {"upload"} : committed[p] \in Nat /\ logged[p] \in Nat
      /\ committed' = committed
  BY DEF IdentityTypes
<1>2. /\ Missing(o)' = Missing(o) - 1
      /\ \A p \in (Judged \cup {"upload"}) \ {o} : Missing(p)' = Missing(p)
      /\ \A p \in Judged \cup {"upload"} : Missing(p) \in Int
  BY <1>1 DEF Missing
<1> HIDE DEF Missing
<1> QED
  BY <1>2 DEF Judged

LEMMA LogStaysKept ==
    ASSUME Verification!IdentityAssumption, IdentityTypes, LogKept, IdentityStep
    PROVE  LogKept'
<1> DEFINE Sum == Missing("approve") + Missing("reject") + Missing("review") + Missing("reset")
                    + Missing("upload")
<1>0. /\ \A o \in Judged \cup {"upload"} : committed[o] \in Nat /\ logged[o] \in Nat
      /\ Sum \in Int /\ mishaps \in Nat /\ Sum <= Cardinality(ToLog) + mishaps
  <2>1. \A o \in Judged \cup {"upload"} : committed[o] \in Nat /\ logged[o] \in Nat
    BY DEF IdentityTypes
  <2>2. \A o \in Judged \cup {"upload"} : Missing(o) \in Int
    BY <2>1 DEF Missing
  <2>3. Sum \in Int
    BY <2>2 DEF Judged
  <2>4. mishaps \in Nat
    BY VerificationCount DEF IdentityTypes
  <2> QED
    BY <2>1, <2>3, <2>4 DEF LogKept
<1>1. ASSUME NEW w \in Workers, \A v \in Workers \ {w} : upload'[v] = upload[v],
             upload[w].step \notin {"log", "submit"}, upload'[w].step \notin {"log", "submit"},
             UNCHANGED <<committed, logged>>, mishaps' \in {mishaps, mishaps + 1}
      PROVE  LogKept'
  <2>1. w \notin ToLog /\ w \notin ToLog'
        /\ \A o \in Judged \cup {"upload"} : w \notin ToLogOf(o) /\ w \notin ToLogOf(o)'
    BY <1>1 DEF ToLog, ToLogOf
  <2>2. /\ Cardinality(ToLog') = Cardinality(ToLog) /\ Cardinality(ToLog) \in Nat
        /\ \A o \in Judged \cup {"upload"} : Cardinality(ToLogOf(o)') = Cardinality(ToLogOf(o))
    BY <1>1, <2>1, ToLogMoves
  <2>3. Sum' = Sum
    BY <1>1 DEF Missing
  <2> HIDE DEF Sum
  <2>4. Sum' <= Cardinality(ToLog') + mishaps'
    BY <1>0, <1>1, <2>2, <2>3
  <2>5. \A o \in Judged \cup {"upload"} : logged'[o] + Cardinality(ToLogOf(o)') <= committed'[o]
    BY <1>1, <2>2 DEF LogKept
  <2> QED
    BY <2>4, <2>5 DEF LogKept, Sum
<1>2. ASSUME NEW w \in Workers, NEW o \in Judged \cup {"upload"},
             \A v \in Workers \ {w} : upload'[v] = upload[v],
             upload[w].step \notin {"log", "submit"}, upload'[w].step \in {"log", "submit"},
             upload'[w].op = o, committed' = [committed EXCEPT ![o] = @ + 1],
             UNCHANGED <<logged, mishaps>>
      PROVE  LogKept'
  <2>1. w \notin ToLog /\ w \in ToLog' /\ w \notin ToLogOf(o) /\ w \in ToLogOf(o)'
        /\ \A p \in (Judged \cup {"upload"}) \ {o} : w \notin ToLogOf(p) /\ w \notin ToLogOf(p)'
    BY <1>2 DEF ToLog, ToLogOf
  <2>2. /\ Cardinality(ToLog') = Cardinality(ToLog) + 1 /\ Cardinality(ToLog) \in Nat
        /\ Cardinality(ToLogOf(o)') = Cardinality(ToLogOf(o)) + 1 /\ Cardinality(ToLogOf(o)) \in Nat
        /\ \A p \in (Judged \cup {"upload"}) \ {o} : Cardinality(ToLogOf(p)') = Cardinality(ToLogOf(p))
    BY <1>2, <2>1, ToLogMoves
  <2>3. Sum' = Sum + 1
    BY <1>2, OneMissingMore
  <2> HIDE DEF Sum
  <2>4. Sum' <= Cardinality(ToLog') + mishaps'
    BY <1>0, <1>2, <2>2, <2>3
  <2>5. committed'[o] = committed[o] + 1 /\ \A p \in (Judged \cup {"upload"}) \ {o} : committed'[p] = committed[p]
    BY <1>2 DEF IdentityTypes
  <2>6. \A p \in Judged \cup {"upload"} : logged'[p] + Cardinality(ToLogOf(p)') <= committed'[p]
    BY <1>0, <1>2, <2>2, <2>5 DEF LogKept
  <2> QED
    BY <2>4, <2>6 DEF LogKept, Sum
<1>3. ASSUME NEW w \in Workers, Submitting(w) PROVE LogKept'
  <2>1. /\ w \in ToLog /\ w \in ToLog'
        /\ \A o \in Judged \cup {"upload"} : w \in ToLogOf(o) <=> w \in ToLogOf(o)'
        /\ UNCHANGED <<committed, logged, mishaps>> /\ \A v \in Workers \ {w} : upload'[v] = upload[v]
    BY <1>3 DEF Submitting, Passes, Keeps, ToLog, ToLogOf
  <2>2. /\ Cardinality(ToLog') = Cardinality(ToLog)
        /\ \A o \in Judged \cup {"upload"} : Cardinality(ToLogOf(o)') = Cardinality(ToLogOf(o))
    BY <2>1, ToLogMoves
  <2>3. Sum' = Sum
    BY <2>1 DEF Missing
  <2> HIDE DEF Sum
  <2>4. \A o \in Judged \cup {"upload"} : logged'[o] + Cardinality(ToLogOf(o)') <= committed'[o]
    BY <2>1, <2>2 DEF LogKept
  <2>5. Sum' <= Cardinality(ToLog') + mishaps'
    BY <1>0, <2>1, <2>2, <2>3
  <2> QED
    BY <2>4, <2>5 DEF LogKept, Sum
<1>4. ASSUME NEW w \in Workers, NEW o \in Judged \cup {"upload"}, upload[w].op = o, Logging(w)
      PROVE  LogKept'
  <2>1. /\ w \in ToLog /\ w \notin ToLog' /\ w \in ToLogOf(o)
        /\ \A p \in Judged \cup {"upload"} : w \notin ToLogOf(p)'
        /\ \A p \in (Judged \cup {"upload"}) \ {o} : w \notin ToLogOf(p)
        /\ logged' = [logged EXCEPT ![o] = @ + 1]
        /\ UNCHANGED <<committed, mishaps>> /\ \A v \in Workers \ {w} : upload'[v] = upload[v]
    BY <1>4 DEF Logging, Passes, ToLog, ToLogOf
  <2>2. /\ Cardinality(ToLog') = Cardinality(ToLog) - 1 /\ Cardinality(ToLog) \in Nat
        /\ \A p \in (Judged \cup {"upload"}) \ {o} : Cardinality(ToLogOf(p)') = Cardinality(ToLogOf(p))
        /\ \A p \in Judged \cup {"upload"} : Cardinality(ToLogOf(p)) \in Nat
    BY <2>1, ToLogMoves
  <2>9. logged' = [logged EXCEPT ![o] = @ + 1] /\ committed' = committed
    BY <2>1
  <2>3. Sum' = Sum - 1
    BY <2>9, OneMissingLess
  <2>7. logged'[o] = logged[o] + 1 /\ \A p \in (Judged \cup {"upload"}) \ {o} : logged'[p] = logged[p]
    BY <2>1 DEF IdentityTypes
  <2>8. Cardinality(ToLogOf(o)') = Cardinality(ToLogOf(o)) - 1
    BY <2>1, ToLogMoves
  <2> HIDE DEF Sum
  <2>4. \A p \in Judged \cup {"upload"} : logged'[p] + Cardinality(ToLogOf(p)') <= committed'[p]
    BY <1>0, <2>1, <2>2, <2>7, <2>8 DEF LogKept
  <2>5. Sum' <= Cardinality(ToLog') + mishaps'
    BY <1>0, <2>1, <2>2, <2>3
  <2> QED
    BY <2>4, <2>5 DEF LogKept, Sum
<1>5. ASSUME NEW w \in Workers, CutShort(w) PROVE LogKept'
  <2>1. /\ w \notin ToLog' /\ \A o \in Judged \cup {"upload"} : w \notin ToLogOf(o)'
        /\ UNCHANGED <<committed, logged>> /\ mishaps' = mishaps + 1
        /\ \A v \in Workers \ {w} : upload'[v] = upload[v]
    BY <1>5 DEF CutShort, ToLog, ToLogOf
  <2>2. /\ Cardinality(ToLog') >= Cardinality(ToLog) - 1
        /\ Cardinality(ToLog') \in Nat /\ Cardinality(ToLog) \in Nat
    BY <2>1, ToLogMoves
  <2>6. \A o \in Judged \cup {"upload"} :
          /\ Cardinality(ToLogOf(o)') <= Cardinality(ToLogOf(o))
          /\ Cardinality(ToLogOf(o)') \in Nat /\ Cardinality(ToLogOf(o)) \in Nat
    BY <2>1, ToLogMoves
  <2>3. Sum' = Sum
    BY <2>1 DEF Missing
  <2> HIDE DEF Sum
  <2>4. \A o \in Judged \cup {"upload"} : logged'[o] + Cardinality(ToLogOf(o)') <= committed'[o]
    BY <1>0, <2>1, <2>6 DEF LogKept
  <2>5. Sum' <= Cardinality(ToLog') + mishaps'
    BY <1>0, <2>1, <2>2, <2>3
  <2> QED
    BY <2>4, <2>5 DEF LogKept, Sum
<1>6. ASSUME NEW w \in Workers, Counting(w) \/ Deciding(w) \/ HasRoom(w) \/ IsRefused(w) PROVE LogKept'
  <2>1. /\ \A v \in Workers \ {w} : upload'[v] = upload[v]
        /\ upload[w].step \notin {"log", "submit"} /\ upload'[w].step \notin {"log", "submit"}
        /\ UNCHANGED <<committed, logged, mishaps>>
    BY <1>6 DEF Counting, Deciding, HasRoom, IsRefused, Passes
  <2> QED
    BY <1>1, <2>1
<1>7. ASSUME NEW w \in Workers, Creating(w) PROVE LogKept'
  <2>1. /\ \A v \in Workers \ {w} : upload'[v] = upload[v]
        /\ upload[w].step = "create" /\ upload'[w].step = "submit" /\ upload'[w].op = upload[w].op
        /\ committed' = [committed EXCEPT !["upload"] = @ + 1] /\ UNCHANGED <<logged, mishaps>>
    BY <1>7 DEF Creating, Passes, Keeps
  <2>2. upload'[w].op = "upload"
    BY <2>1 DEF IdentityTypes, Upload
  <2> QED
    BY <1>2, <2>1, <2>2
<1>8. ASSUME NEW w \in Workers, Writing(w) PROVE LogKept'
  <2>1. /\ \A v \in Workers \ {w} : upload'[v] = upload[v]
        /\ upload[w].step = "write" /\ upload'[w].step = "log" /\ upload'[w].op = upload[w].op
        /\ committed' = [committed EXCEPT ![upload[w].op] = @ + 1] /\ UNCHANGED <<logged, mishaps>>
    BY <1>8 DEF Writing, Passes, Keeps
  <2>2. upload[w].op \in Judged
    BY <2>1 DEF IdentityTypes, Upload
  <2> QED
    BY <1>2, <2>1, <2>2
<1>9. ASSUME FromOnfido \/ AboutKinds PROVE LogKept'
  <2>1. UNCHANGED <<upload, committed, logged, mishaps>>
    BY <1>9 DEF FromOnfido, AboutKinds
  <2> QED
    BY <2>1 DEF LogKept, ToLog, ToLogOf, Missing
<1>10. ASSUME NEW w \in Workers, Logging(w) PROVE LogKept'
  <2>1. upload[w].op \in Judged \cup {"upload"}
    BY <1>10 DEF Logging, Passes, IdentityTypes, Upload
  <2> QED
    BY <1>4, <1>10, <2>1
<1> QED
  BY <1>3, <1>5, <1>6, <1>7, <1>8, <1>9, <1>10 DEF IdentityStep

LEMMA FreshMoves ==
    ASSUME Verification!IdentityAssumption, NEW w \in Workers,
           \A v \in Workers \ {w} : upload'[v] = upload[v]
    PROVE  /\ Cardinality(Fresh) \in Nat /\ Cardinality(Fresh') \in Nat
           /\ Cardinality(Fresh) <= Cardinality(Workers)
           /\ w \notin Fresh => Cardinality(Fresh) <= Cardinality(Workers) - 1
           /\ w \in Fresh /\ w \notin Fresh' => Cardinality(Fresh') = Cardinality(Fresh) - 1
           /\ (w \in Fresh' => w \in Fresh) => Cardinality(Fresh') <= Cardinality(Fresh)
           /\ w \notin Fresh' => Cardinality(Fresh') <= Cardinality(Workers) - 1
<1>1. Fresh \in SUBSET Workers /\ Fresh' \in SUBSET Workers /\ Fresh \ {w} = Fresh' \ {w}
  BY DEF Fresh
<1>2. Fresh' \ {w} = Fresh \ {w}
  BY <1>1
<1> HIDE DEF Fresh
<1>3. w \notin Fresh' => Cardinality(Fresh') <= Cardinality(Workers) - 1
  BY <1>1, <1>2, WorkersCount
<1>4. Cardinality(Fresh) \in Nat
  BY <1>1, WorkersCount
<1> QED
  BY <1>1, <1>3, <1>4, WorkersCount

LEMMA VerdictsStayKept ==
    ASSUME Verification!IdentityAssumption, IdentityTypes, VerdictsKept, IdentityStep
    PROVE  VerdictsKept'
<1> DEFINE N == Cardinality(Workers) - (IF workflow THEN 0 ELSE 1)
<1>0. Cardinality(Workers) \in Nat \ {0} /\ N \in Nat /\ undone \in Nat
  BY VerificationCount DEF IdentityTypes
<1>1. ASSUME NEW w \in Workers,
             Deciding(w) \/ HasRoom(w) \/ IsRefused(w) \/ Creating(w) \/ Logging(w) \/ CutShort(w)
      PROVE  VerdictsKept'
  <2>1. /\ \A v \in Workers \ {w} : upload'[v] = upload[v]
        /\ UNCHANGED <<idStatus, undone, workflow>> /\ (w \in Fresh' => w \in Fresh)
    BY <1>1 DEF Deciding, HasRoom, IsRefused, Creating, Logging, CutShort, Passes, Keeps, Fresh
  <2>2. /\ Cardinality(Fresh') <= Cardinality(Fresh)
        /\ Cardinality(Fresh) \in Nat /\ Cardinality(Fresh') \in Nat
    BY <2>1, FreshMoves
  <2>3. CASE idStatus.status = "NOT_STARTED"
    BY <2>1, <2>3 DEF VerdictsKept
  <2>4. CASE idStatus.status # "NOT_STARTED"
    <3>1. undone + Cardinality(Fresh) <= N
      BY <2>4 DEF VerdictsKept
    <3>2. undone' = undone /\ N' = N
      BY <2>1
    <3> HIDE DEF N
    <3>3. undone' + Cardinality(Fresh') <= N'
      BY <1>0, <2>2, <3>1, <3>2
    <3> QED
      BY <2>1, <2>4, <3>3 DEF VerdictsKept, N
  <2> QED
    BY <2>3, <2>4
<1>2. ASSUME NEW w \in Workers, Counting(w) PROVE VerdictsKept'
  <2>1. /\ \A v \in Workers \ {w} : upload'[v] = upload[v]
        /\ UNCHANGED <<idStatus, undone, workflow>>
        /\ (idStatus.status # "NOT_STARTED" => w \notin Fresh')
    BY <1>2 DEF Counting, Passes, Fresh
  <2>3. CASE idStatus.status = "NOT_STARTED"
    BY <2>1, <2>3 DEF VerdictsKept
  <2>4. CASE idStatus.status # "NOT_STARTED"
    <3>0. /\ Cardinality(Fresh') <= Cardinality(Fresh)
          /\ Cardinality(Fresh) \in Nat /\ Cardinality(Fresh') \in Nat
      BY <2>1, <2>4, FreshMoves
    <3>1. undone + Cardinality(Fresh) <= N
      BY <2>4 DEF VerdictsKept
    <3>2. undone' = undone /\ N' = N
      BY <2>1
    <3> HIDE DEF N
    <3>3. undone' + Cardinality(Fresh') <= N'
      BY <1>0, <3>0, <3>1, <3>2
    <3> QED
      BY <2>1, <2>4, <3>3 DEF VerdictsKept, N
  <2> QED
    BY <2>3, <2>4
<1>3. ASSUME NEW w \in Workers, Submitting(w) PROVE VerdictsKept'
  <2>1. /\ \A v \in Workers \ {w} : upload'[v] = upload[v]
        /\ workflow' = workflow /\ w \notin Fresh'
        /\ (w \in Fresh <=> upload[w].fresh)
    BY <1>3 DEF Submitting, Passes, Fresh
  <2>2. /\ Cardinality(Fresh) \in Nat /\ Cardinality(Fresh') \in Nat
        /\ Cardinality(Fresh') <= Cardinality(Workers) - 1
        /\ w \in Fresh => Cardinality(Fresh') = Cardinality(Fresh) - 1
        /\ Cardinality(Fresh') <= Cardinality(Fresh)
    BY <2>1, FreshMoves
  <2>0. N' = N /\ Cardinality(Workers) - 1 <= N
    BY <1>0, <2>1
  <2>3. CASE upload[w].fresh
    <3>1. /\ idStatus' = [idStatus EXCEPT !.status = "SUBMITTED"]
          /\ undone' = IF idStatus.status \in {"VERIFIED", "REJECTED"} THEN undone + 1 ELSE undone
      BY <1>3, <2>3 DEF Submitting
    <3>2. idStatus'.status = "SUBMITTED"
      BY <3>1 DEF IdentityTypes, Identified
    <3>3. undone' + Cardinality(Fresh') <= N
      <4>1. CASE idStatus.status = "NOT_STARTED"
        <5>1. undone' = 0
          BY <3>1, <4>1 DEF VerdictsKept
        <5> HIDE DEF N
        <5> QED
          BY <1>0, <2>0, <2>2, <5>1
      <4>2. CASE idStatus.status # "NOT_STARTED"
        <5>1. undone + Cardinality(Fresh) <= N /\ undone' <= undone + 1 /\ undone' \in Nat
          BY <1>0, <3>1, <4>2 DEF VerdictsKept
        <5>2. Cardinality(Fresh') = Cardinality(Fresh) - 1
          BY <2>1, <2>2, <2>3
        <5> HIDE DEF N
        <5> QED
          BY <1>0, <2>2, <5>1, <5>2
      <4> QED
        BY <4>1, <4>2
    <3>4. undone' + Cardinality(Fresh') <= N'
      BY <2>0, <3>3
    <3> QED
      BY <3>2, <3>4 DEF VerdictsKept
  <2>4. CASE ~upload[w].fresh
    <3>1. UNCHANGED <<idStatus, undone>>
      BY <1>3, <2>4 DEF Submitting
    <3>2. CASE idStatus.status = "NOT_STARTED"
      BY <3>1, <3>2 DEF VerdictsKept
    <3>3. CASE idStatus.status # "NOT_STARTED"
      <4>1. undone + Cardinality(Fresh) <= N /\ undone' = undone
        BY <3>1, <3>3 DEF VerdictsKept
      <4> HIDE DEF N
      <4>2. undone' + Cardinality(Fresh') <= N'
        BY <1>0, <2>0, <2>2, <4>1
      <4> QED
        BY <3>1, <3>3, <4>2 DEF VerdictsKept, N
    <3> QED
      BY <3>2, <3>3
  <2> QED
    BY <2>3, <2>4
<1>4. ASSUME NEW w \in Workers, Writing(w) PROVE VerdictsKept'
  <2>1. /\ \A v \in Workers \ {w} : upload'[v] = upload[v]
        /\ UNCHANGED <<workflow, undone>> /\ w \notin Fresh /\ w \notin Fresh'
    BY <1>4 DEF Writing, Passes, Fresh
  <2>2. /\ Cardinality(Fresh) \in Nat /\ Cardinality(Fresh') \in Nat
        /\ Cardinality(Fresh') <= Cardinality(Workers) - 1
        /\ Cardinality(Fresh') <= Cardinality(Fresh)
    BY <2>1, FreshMoves
  <2>0. N' = N /\ Cardinality(Workers) - 1 <= N
    BY <1>0, <2>1
  <2>3. CASE idStatus.status = "NOT_STARTED"
    <3>1. undone' = 0
      BY <2>1, <2>3 DEF VerdictsKept
    <3> HIDE DEF N
    <3>2. undone' + Cardinality(Fresh') <= N'
      BY <1>0, <2>0, <2>2, <3>1
    <3> QED
      BY <3>1, <3>2 DEF VerdictsKept, N
  <2>4. CASE idStatus.status # "NOT_STARTED"
    <3>1. undone + Cardinality(Fresh) <= N /\ undone' = undone
      BY <2>1, <2>4 DEF VerdictsKept
    <3>3. idStatus'.status # "NOT_STARTED"
      BY <1>4, <2>4 DEF Writing
    <3> HIDE DEF N
    <3>2. undone' + Cardinality(Fresh') <= N'
      BY <1>0, <2>0, <2>2, <3>1
    <3> QED
      BY <3>2, <3>3 DEF VerdictsKept, N
  <2> QED
    BY <2>3, <2>4
<1>5. ASSUME FromOnfido PROVE VerdictsKept'
  <2>1. UNCHANGED <<upload, undone, workflow>> /\ workflow
    BY <1>5 DEF FromOnfido
  <2>2. Fresh' = Fresh /\ N' = N /\ N = Cardinality(Workers)
    BY <1>0, <2>1 DEF Fresh
  <2>3. Cardinality(Fresh) \in Nat /\ Cardinality(Fresh) <= Cardinality(Workers)
    <3>1. PICK w \in Workers : TRUE
      BY VerificationCount, FS_EmptySet
    <3>2. Fresh \in SUBSET Workers
      BY DEF Fresh
    <3> QED
      BY <3>1, <3>2, WorkersCount
  <2>4. CASE idStatus.status = "NOT_STARTED"
    <3>1. undone' = 0
      BY <2>1, <2>4 DEF VerdictsKept
    <3> HIDE DEF N
    <3>2. undone' + Cardinality(Fresh') <= N'
      BY <1>0, <2>2, <2>3, <3>1
    <3> QED
      BY <3>1, <3>2 DEF VerdictsKept, N
  <2>5. CASE idStatus.status # "NOT_STARTED"
    <3>1. undone + Cardinality(Fresh) <= N /\ undone' = undone
      BY <2>1, <2>5 DEF VerdictsKept
    <3>2. undone' + Cardinality(Fresh') <= N'
      BY <2>2, <3>1
    <3>3. idStatus'.status # "NOT_STARTED"
      BY <1>5, <2>5 DEF FromOnfido
    <3> QED
      BY <3>2, <3>3 DEF VerdictsKept
  <2> QED
    BY <2>4, <2>5
<1>6. ASSUME AboutKinds PROVE VerdictsKept'
  BY <1>6 DEF AboutKinds, VerdictsKept, Fresh
<1> QED
  BY <1>1, <1>2, <1>3, <1>4, <1>5, <1>6 DEF IdentityStep

LEMMA VerificationAloneStays ==
    ASSUME IdentityTypes, AloneKept, ~workflow, IdentityStep,
           \A v, w \in Workers : upload'[v].step # "idle" /\ upload'[w].step # "idle" => v = w
    PROVE  AloneKept'
<1>1. ASSUME NEW w \in Workers, UNCHANGED <<idStatus, undone>>, w \in Fresh' => idStatus.status = "NOT_STARTED",
             \A v \in Workers \ {w} : upload'[v] = upload[v]
      PROVE  AloneKept'
  BY <1>1 DEF AloneKept, Fresh
<1>2. ASSUME NEW w \in Workers,
             Deciding(w) \/ HasRoom(w) \/ IsRefused(w) \/ Creating(w) \/ Logging(w) \/ CutShort(w) \/ Counting(w)
      PROVE  AloneKept'
  <2>1. /\ \A v \in Workers \ {w} : upload'[v] = upload[v]
        /\ UNCHANGED <<idStatus, undone>>
        /\ (w \in Fresh' => w \in Fresh \/ idStatus.status = "NOT_STARTED")
    BY <1>2 DEF Deciding, HasRoom, IsRefused, Creating, Logging, CutShort, Counting, Passes, Keeps, Fresh
  <2> QED
    BY <1>1, <2>1 DEF AloneKept
<1>3. ASSUME NEW w \in Workers, Submitting(w) PROVE AloneKept'
  <2>1. /\ upload[w].step = "submit" /\ upload'[w].step = "log"
        /\ \A v \in Workers \ {w} : upload'[v] = upload[v]
    BY <1>3 DEF Submitting, Passes
  <2>2. Fresh' = {}
    BY <2>1 DEF Fresh, AloneKept
  <2>3. CASE ~upload[w].fresh
    BY <1>1, <1>3, <2>1, <2>2, <2>3 DEF Submitting
  <2>4. CASE upload[w].fresh
    <3>1. idStatus.status = "NOT_STARTED"
      BY <2>1, <2>4 DEF Fresh, AloneKept
    <3>2. undone' = 0 /\ idStatus' = [idStatus EXCEPT !.status = "SUBMITTED"]
      BY <1>3, <2>4, <3>1 DEF Submitting, AloneKept
    <3>3. idStatus'.status = "SUBMITTED" /\ idStatus'.verifiedAt = idStatus.verifiedAt
      BY <3>2 DEF IdentityTypes, Identified
    <3> QED
      BY <2>2, <3>1, <3>2, <3>3 DEF AloneKept
  <2> QED
    BY <2>3, <2>4
<1>4. ASSUME NEW w \in Workers, Writing(w) PROVE AloneKept'
  <2>1. /\ upload[w].step = "write" /\ upload'[w].step = "log" /\ undone' = undone
        /\ \A v \in Workers \ {w} : upload'[v] = upload[v]
    BY <1>4 DEF Writing, Passes
  <2>2. Fresh' = {}
    BY <2>1 DEF Fresh, AloneKept
  <2> QED
    BY <1>4, <2>1, <2>2 DEF AloneKept, Writing
<1>5. ASSUME AboutKinds PROVE AloneKept'
  BY <1>5 DEF AboutKinds, AloneKept, Fresh
<1> QED
  BY <1>2, <1>3, <1>4, <1>5 DEF IdentityStep, FromOnfido

-----------------------------------------------------------------------------
(***************************************************************************)
(* The requests to become a provider.  An approval is either carried out,  *)
(* or a review of its address is still at it, or one failed.               *)
(***************************************************************************)
AllRoles == {"CLIENT", "ADMIN", "PROVIDER"}
Outcomes == {"PENDING", "APPROVED", "REJECTED"}
AccountSteps == {"findUser", "createUser", "updateUser", "findProfile", "createProfile", "updateProfile"}
ReviewRow == [id : Filed \cup {None}, status : Outcomes \cup {"none"}, ensure : BOOLEAN,
              roles : SUBSET AllRoles, step : AccountSteps \cup {"none", "update"}]
ReviewCall == {c \in ReviewRow :
    /\ c.step = "none" => c = Approvals!Idle
    /\ c.step # "none" => c.id \in Filed /\ c.status \in Outcomes
    /\ c.step \in AccountSteps => c.ensure
    /\ c.ensure => c.status = "APPROVED"}

RequestTypes ==
    /\ status \in [Filed -> Outcomes \cup {"none"}] /\ approved \in SUBSET Filed
    /\ roles \in [Emails -> SUBSET AllRoles] /\ profile \in [Emails -> ProviderTypes \cup {None}]
    /\ failed \in SUBSET Emails /\ reviews \in 0..MaxReviews
    /\ review \in [Workers -> ReviewCall]

LEMMA NobodyReviews ==
    Approvals!Idle \in ReviewCall /\ Approvals!Idle.step = "none" /\ ~Approvals!Idle.ensure
<1>1. Approvals!Idle.step = "none" /\ ~Approvals!Idle.ensure
  BY DEF Approvals!Idle
<1>2. Approvals!Idle \in ReviewRow
  BY DEF Approvals!Idle, ReviewRow
<1>3. "none" \notin AccountSteps
  BY DEF AccountSteps
<1> QED
  BY <1>1, <1>2, <1>3 DEF ReviewCall

LEMMA RequestTypesAtFirst == Approvals!ProviderRequestsAssumption /\ Approvals!Init => RequestTypes
<1> SUFFICES ASSUME Approvals!ProviderRequestsAssumption, Approvals!Init PROVE RequestTypes
  OBVIOUS
<1>1. review \in [Workers -> ReviewCall]
  BY NobodyReviews DEF Approvals!Init
<1> QED
  BY <1>1 DEF Approvals!Init, Approvals!ProviderRequestsAssumption, RequestTypes

LEMMA ReviewEnds ==
    ASSUME RequestTypes, NEW w \in Workers, Approvals!Then(w, "end")
    PROVE  /\ review' \in [Workers -> ReviewCall] /\ review'[w] = Approvals!Idle
           /\ \A v \in Workers \ {w} : review'[v] = review[v]
BY NobodyReviews DEF RequestTypes, Approvals!Then

LEMMA ReviewGoesOn ==
    ASSUME RequestTypes, NEW w \in Workers, NEW next \in AccountSteps, NEW read \in SUBSET AllRoles,
           review[w].step # "none", review[w].ensure,
           review' = [review EXCEPT ![w] = [@ EXCEPT !.roles = read, !.step = next]]
    PROVE  /\ review' \in [Workers -> ReviewCall]
           /\ review'[w].step = next /\ review'[w].id = review[w].id /\ review'[w].roles = read
           /\ review'[w].ensure /\ review'[w] # Approvals!Idle
           /\ \A v \in Workers \ {w} : review'[v] = review[v]
<1> DEFINE c == [review[w] EXCEPT !.roles = read, !.step = next]
<1>1. review[w] \in ReviewCall /\ review \in [Workers -> ReviewCall]
  BY DEF RequestTypes
<1>2. review[w] \in ReviewRow
  BY <1>1 DEF ReviewCall
<1>3. /\ c \in ReviewRow /\ c.step = next /\ c.id = review[w].id /\ c.roles = read
      /\ c.ensure = review[w].ensure /\ c.status = review[w].status
  BY <1>2 DEF ReviewRow
<1>4. review' = [review EXCEPT ![w] = c]
  BY <1>1
<1> HIDE DEF c
<1>5. c \in ReviewCall /\ c # Approvals!Idle
  <2>1. next # "none"
    BY DEF AccountSteps
  <2>2. /\ review[w].id \in Filed /\ review[w].status \in Outcomes
        /\ review[w].ensure => review[w].status = "APPROVED"
    BY <1>1 DEF ReviewCall
  <2> QED
    BY <1>3, <2>1, <2>2, NobodyReviews DEF ReviewCall
<1>6. /\ review' \in [Workers -> ReviewCall] /\ review'[w] = c
      /\ \A v \in Workers \ {w} : review'[v] = review[v]
  BY <1>1, <1>4, <1>5
<1> QED
  BY <1>3, <1>5, <1>6

LEMMA ThenIsNext ==
    ASSUME RequestTypes, NEW w \in Workers, NEW next \in AccountSteps, Approvals!Then(w, next)
    PROVE  /\ review' = [review EXCEPT ![w] = [@ EXCEPT !.roles = review[w].roles, !.step = next]]
           /\ review[w].roles \in SUBSET AllRoles
<1>1. review[w] \in ReviewRow /\ review \in [Workers -> ReviewCall]
  BY DEF RequestTypes, ReviewCall
<1>2. [review[w] EXCEPT !.step = next] = [review[w] EXCEPT !.roles = review[w].roles, !.step = next]
  BY <1>1 DEF ReviewRow
<1>3. next # "end"
  BY DEF AccountSteps
<1>4. review' = [review EXCEPT ![w] = [review[w] EXCEPT !.step = next]]
  BY <1>1, <1>3 DEF Approvals!Then
<1>5. review[w].roles \in SUBSET AllRoles
  BY <1>1 DEF ReviewRow
<1> QED
  BY <1>2, <1>4, <1>5

\* What each step does.
Others(w) == \A v \in Workers \ {w} : review'[v] = review[v]
Mail(w) == EmailOf[review[w].id]
Advances(w, from, to) ==
    /\ Others(w) /\ review[w].step = from /\ review'[w].step = to
    /\ review'[w].id = review[w].id /\ review'[w] # Approvals!Idle
Finishes(w, from) == Others(w) /\ review[w].step = from /\ review'[w] = Approvals!Idle
Files ==
    /\ \E q \in Filed : status[q] = "none" /\ status' = [status EXCEPT ![q] = "PENDING"]
    /\ UNCHANGED <<approved, roles, profile, review, reviews, failed>>
AddsRole ==
    /\ \E e \in Emails, s \in SUBSET AllRoles : roles[e] \subseteq s /\ roles' = [roles EXCEPT ![e] = s]
    /\ UNCHANGED <<status, approved, profile, review, reviews, failed>>
BeginsReview(w) ==
    /\ Others(w) /\ review[w] = Approvals!Idle /\ review'[w].step = "update"
    /\ review'[w].id \in Filed
    /\ review'[w].status = "APPROVED" /\ ~review'[w].ensure => status[review'[w].id] = "APPROVED"
    /\ UNCHANGED <<status, approved, roles, profile, failed>>
Updates(w) ==
    /\ \/ review[w].ensure /\ Advances(w, "update", "findUser")
       \/ ~review[w].ensure /\ Finishes(w, "update")
    /\ status' = [status EXCEPT ![review[w].id] = review[w].status]
    /\ approved' = IF review[w].status = "APPROVED" THEN approved \cup {review[w].id} ELSE approved
    /\ UNCHANGED <<roles, profile, failed>>
FindsUser(w) ==
    /\ \/ roles[Mail(w)] = {} /\ Advances(w, "findUser", "createUser")
       \/ "PROVIDER" \in roles[Mail(w)] /\ Advances(w, "findUser", "findProfile")
       \/ Advances(w, "findUser", "updateUser") /\ review'[w].roles = roles[Mail(w)]
    /\ UNCHANGED <<status, approved, roles, profile, failed>>
CreatesUser(w) ==
    /\ \/ /\ roles[Mail(w)] = {} /\ roles' = [roles EXCEPT ![Mail(w)] = {"PROVIDER"}]
          /\ Advances(w, "createUser", "findProfile") /\ failed' = failed
       \/ failed' = failed \cup {Mail(w)} /\ Finishes(w, "createUser") /\ roles' = roles
    /\ UNCHANGED <<status, approved, profile>>
UpdatesUser(w) ==
    /\ Advances(w, "updateUser", "findProfile")
    /\ roles' = [roles EXCEPT ![Mail(w)] = review[w].roles \cup {"PROVIDER"}]
    /\ UNCHANGED <<status, approved, profile, failed>>
FindsProfile(w) ==
    /\ Advances(w, "findProfile", "createProfile") \/ Advances(w, "findProfile", "updateProfile")
    /\ UNCHANGED <<status, approved, roles, profile, failed>>
WritesProfile(w) ==
    /\ Finishes(w, "createProfile") \/ Finishes(w, "updateProfile")
    /\ \/ profile' = [profile EXCEPT ![Mail(w)] = TypeOf[review[w].id]] /\ failed' = failed
       \/ failed' = failed \cup {Mail(w)} /\ profile' = profile
    /\ UNCHANGED <<status, approved, roles>>
Fails(w) ==
    /\ Others(w) /\ review[w].step # "none" /\ review'[w] = Approvals!Idle
    /\ failed' = failed \cup {Mail(w)}
    /\ UNCHANGED <<status, approved, roles, profile>>
RequestStep ==
    \/ Files \/ AddsRole
    \/ \E w \in Workers :
         \/ BeginsReview(w) \/ Updates(w) \/ FindsUser(w) \/ CreatesUser(w) \/ UpdatesUser(w)
         \/ FindsProfile(w) \/ WritesProfile(w) \/ Fails(w)

LEMMA ReviewAdvances ==
    ASSUME RequestTypes, NEW w \in Workers, NEW next \in AccountSteps, NEW from,
           review[w].step = from, from # "none", review[w].ensure, Approvals!Then(w, next)
    PROVE  Advances(w, from, next) /\ review' \in [Workers -> ReviewCall]
<1> DEFINE read == review[w].roles
<1>1. review' = [review EXCEPT ![w] = [@ EXCEPT !.roles = read, !.step = next]] /\ read \in SUBSET AllRoles
  BY Zenon, ThenIsNext
<1> HIDE DEF read
<1>2. /\ review' \in [Workers -> ReviewCall]
      /\ review'[w].step = next /\ review'[w].id = review[w].id /\ review'[w] # Approvals!Idle
      /\ \A v \in Workers \ {w} : review'[v] = review[v]
  BY Zenon, <1>1, ReviewGoesOn
<1> QED
  BY <1>2 DEF Advances, Others

LEMMA RequestSteps ==
    ASSUME Approvals!ProviderRequestsAssumption, RequestTypes, Approvals!Next
    PROVE  /\ RequestStep /\ review' \in [Workers -> ReviewCall] /\ reviews' \in 0..MaxReviews
<1> DEFINE Typed == review' \in [Workers -> ReviewCall] /\ reviews' \in 0..MaxReviews
<1>0. /\ \A w \in Workers : review[w] \in ReviewCall
      /\ review \in [Workers -> ReviewCall] /\ reviews \in 0..MaxReviews
      /\ MaxReviews \in Nat
      /\ \A e \in Emails : roles[e] \in SUBSET AllRoles
      /\ \A q \in Filed : EmailOf[q] \in Emails
  BY DEF RequestTypes, Approvals!ProviderRequestsAssumption
<1>00. \A w \in Workers : review[w].step # "none" => review[w].id \in Filed
  BY <1>0 DEF ReviewCall
<1>1. ASSUME NEW q \in Filed, Approvals!create(q) PROVE Files /\ Typed
  BY <1>0, <1>1 DEF Approvals!create, Files
<1>2. ASSUME NEW e \in Emails, Approvals!register(e) \/ Approvals!addRole(e) PROVE AddsRole /\ Typed
  <2>1. CASE Approvals!register(e)
    <3>1. {"CLIENT"} \in SUBSET AllRoles
      BY DEF AllRoles
    <3> QED
      BY <1>0, <2>1, <3>1 DEF Approvals!register, AddsRole
  <2>2. CASE Approvals!addRole(e)
    <3>1. roles[e] \cup {"ADMIN"} \in SUBSET AllRoles
      BY <1>0 DEF AllRoles
    <3>2. roles' = [roles EXCEPT ![e] = roles[e] \cup {"ADMIN"}]
      BY <2>2 DEF Approvals!addRole
    <3> QED
      BY <1>0, <2>2, <3>1, <3>2 DEF Approvals!addRole, AddsRole
  <2> QED
    BY <1>2, <2>1, <2>2
<1>3. ASSUME NEW w \in Workers, NEW q \in Filed, NEW s \in Outcomes, Approvals!begin(w, q, s)
      PROVE  BeginsReview(w) /\ Typed
  <2> DEFINE ensure == s = "APPROVED" /\ status[q] # "APPROVED"
             c == [id |-> q, status |-> s, roles |-> {}, step |-> "update", ensure |-> ensure]
  <2>1. /\ review[w] = Approvals!Idle /\ review' = [review EXCEPT ![w] = c]
        /\ reviews < MaxReviews /\ reviews' = reviews + 1
        /\ UNCHANGED <<status, approved, roles, profile, failed>>
    BY <1>3 DEF Approvals!begin, Approvals!Free
  <2>2. ensure \in BOOLEAN /\ (ensure => s = "APPROVED")
        /\ (s = "APPROVED" /\ ~ensure => status[q] = "APPROVED")
    OBVIOUS
  <2> HIDE DEF ensure
  <2>3. /\ c \in ReviewRow /\ c.step = "update" /\ c.id = q /\ c.status = s
        /\ c.ensure = ensure
    BY <2>2 DEF ReviewRow
  <2> HIDE DEF c
  <2>4. c \in ReviewCall
    BY <2>2, <2>3 DEF ReviewCall, AccountSteps
  <2>5. review' \in [Workers -> ReviewCall] /\ review'[w] = c /\ Others(w)
    BY <1>0, <2>1, <2>4 DEF Others
  <2>6. reviews' \in 0..MaxReviews
    BY <1>0, <2>1
  <2> QED
    BY <2>1, <2>2, <2>3, <2>5, <2>6 DEF BeginsReview
<1>4. ASSUME NEW w \in Workers, Approvals!update(w) PROVE Updates(w) /\ Typed
  <2>1. CASE review[w].ensure
    <3>1. Approvals!Then(w, "findUser") /\ "findUser" \in AccountSteps /\ review[w].step = "update"
      BY <1>4, <2>1 DEF Approvals!update, AccountSteps
    <3>2. Advances(w, "update", "findUser") /\ review' \in [Workers -> ReviewCall]
      BY <2>1, <3>1, ReviewAdvances
    <3> QED
      BY <1>0, <1>4, <2>1, <3>2 DEF Approvals!update, Updates
  <2>2. CASE ~review[w].ensure
    <3>1. Approvals!Then(w, "end") /\ review[w].step = "update"
      BY <1>4, <2>2 DEF Approvals!update
    <3>2. Finishes(w, "update") /\ review' \in [Workers -> ReviewCall]
      BY <3>1, ReviewEnds DEF Finishes, Others
    <3> QED
      BY <1>0, <1>4, <2>2, <3>2 DEF Approvals!update, Updates
  <2> QED
    BY <2>1, <2>2
<1>5. ASSUME NEW w \in Workers, Approvals!findUser(w) PROVE FindsUser(w) /\ Typed
  <2>0. /\ review[w].step = "findUser" /\ review[w].ensure /\ Mail(w) \in Emails
        /\ roles[Mail(w)] \in SUBSET AllRoles
        /\ UNCHANGED <<status, approved, roles, profile, reviews, failed>>
    BY <1>0, <1>00, <1>5 DEF Approvals!findUser, ReviewCall, AccountSteps, Mail
  <2> DEFINE next == IF roles[Mail(w)] = {} THEN "createUser"
                     ELSE IF "PROVIDER" \in roles[Mail(w)] THEN "findProfile" ELSE "updateUser"
  <2>1. next \in AccountSteps
    BY DEF AccountSteps
  <2> DEFINE read == roles[Mail(w)]
  <2>2. review' = [review EXCEPT ![w] = [@ EXCEPT !.roles = read, !.step = next]]
        /\ read \in SUBSET AllRoles /\ read = roles[Mail(w)]
    BY <2>0, <1>0, <1>5 DEF Approvals!findUser, Mail, Approvals!email
  <2>3. \/ next = "createUser" /\ roles[Mail(w)] = {}
        \/ next = "findProfile" /\ "PROVIDER" \in roles[Mail(w)]
        \/ next = "updateUser"
    OBVIOUS
  <2>4. \E n \in AccountSteps, r \in SUBSET AllRoles :
          /\ review' = [review EXCEPT ![w] = [@ EXCEPT !.roles = r, !.step = n]]
          /\ r = roles[Mail(w)]
          /\ \/ n = "createUser" /\ roles[Mail(w)] = {}
             \/ n = "findProfile" /\ "PROVIDER" \in roles[Mail(w)]
             \/ n = "updateUser"
    BY <2>1, <2>2, <2>3
  <2> HIDE DEF next, read
  <2>5. PICK n \in AccountSteps, r \in SUBSET AllRoles :
          /\ review' = [review EXCEPT ![w] = [@ EXCEPT !.roles = r, !.step = n]]
          /\ r = roles[Mail(w)]
          /\ \/ n = "createUser" /\ roles[Mail(w)] = {}
             \/ n = "findProfile" /\ "PROVIDER" \in roles[Mail(w)]
             \/ n = "updateUser"
    BY <2>4
  <2>6. review[w].step # "none" /\ review[w].ensure
        /\ review' = [review EXCEPT ![w] = [@ EXCEPT !.roles = r, !.step = n]]
    BY <2>0, <2>5
  <2>7. /\ review' \in [Workers -> ReviewCall]
        /\ review'[w].step = n /\ review'[w].id = review[w].id /\ review'[w].roles = r
        /\ review'[w].ensure /\ review'[w] # Approvals!Idle
        /\ \A v \in Workers \ {w} : review'[v] = review[v]
    BY Zenon, <2>6, ReviewGoesOn
  <2>8. Advances(w, "findUser", n)
    BY <2>0, <2>7 DEF Advances, Others
  <2> QED
    BY <1>0, <2>0, <2>5, <2>7, <2>8 DEF FindsUser
<1>6. ASSUME NEW w \in Workers, Approvals!createUser(w) PROVE CreatesUser(w) /\ Typed
  <2>0. /\ review[w].step = "createUser" /\ review[w].ensure
        /\ UNCHANGED <<status, approved, profile, reviews>>
    BY <1>0, <1>6 DEF Approvals!createUser, ReviewCall, AccountSteps
  <2>1. CASE roles[Mail(w)] = {}
    <3>1. /\ roles' = [roles EXCEPT ![Mail(w)] = {"PROVIDER"}] /\ failed' = failed
          /\ Approvals!Then(w, "findProfile") /\ "findProfile" \in AccountSteps
      BY <1>6, <2>1 DEF Approvals!createUser, Mail, Approvals!email, AccountSteps
    <3>2. Advances(w, "createUser", "findProfile") /\ review' \in [Workers -> ReviewCall]
      BY <2>0, <3>1, ReviewAdvances
    <3> QED
      BY <1>0, <2>0, <2>1, <3>1, <3>2 DEF CreatesUser
  <2>2. CASE roles[Mail(w)] # {}
    <3>1. failed' = failed \cup {Mail(w)} /\ roles' = roles /\ Approvals!Then(w, "end")
      BY <1>6, <2>2 DEF Approvals!createUser, Mail, Approvals!email
    <3>2. Finishes(w, "createUser") /\ review' \in [Workers -> ReviewCall]
      BY <2>0, <3>1, ReviewEnds DEF Finishes, Others
    <3> QED
      BY <1>0, <2>0, <3>1, <3>2 DEF CreatesUser
  <2> QED
    BY <2>1, <2>2
<1>7. ASSUME NEW w \in Workers, Approvals!updateUser(w) PROVE UpdatesUser(w) /\ Typed
  <2>0. /\ review[w].step = "updateUser" /\ review[w].ensure
        /\ Approvals!Then(w, "findProfile") /\ "findProfile" \in AccountSteps
        /\ roles' = [roles EXCEPT ![Mail(w)] = review[w].roles \cup {"PROVIDER"}]
        /\ UNCHANGED <<status, approved, profile, reviews, failed>>
    BY <1>0, <1>7 DEF Approvals!updateUser, ReviewCall, AccountSteps, Mail, Approvals!email,
                      Approvals!WithProvider
  <2>1. Advances(w, "updateUser", "findProfile") /\ review' \in [Workers -> ReviewCall]
    BY <2>0, ReviewAdvances
  <2> QED
    BY <1>0, <2>0, <2>1 DEF UpdatesUser
<1>8. ASSUME NEW w \in Workers, Approvals!findProfile(w) PROVE FindsProfile(w) /\ Typed
  <2>0. /\ review[w].step = "findProfile" /\ review[w].ensure
        /\ UNCHANGED <<status, approved, roles, profile, reviews, failed>>
        /\ \E next \in {"createProfile", "updateProfile"} : next \in AccountSteps /\ Approvals!Then(w, next)
    BY <1>0, <1>8 DEF Approvals!findProfile, ReviewCall, AccountSteps
  <2>1. PICK next \in {"createProfile", "updateProfile"} : next \in AccountSteps /\ Approvals!Then(w, next)
    BY <2>0
  <2>2. Advances(w, "findProfile", next) /\ review' \in [Workers -> ReviewCall]
    BY <2>0, <2>1, ReviewAdvances
  <2> QED
    BY <1>0, <2>0, <2>2 DEF FindsProfile
<1>9. ASSUME NEW w \in Workers, Approvals!createProfile(w) \/ Approvals!updateProfile(w)
      PROVE  WritesProfile(w) /\ Typed
  <2>0. /\ review[w].step \in {"createProfile", "updateProfile"} /\ Approvals!Then(w, "end")
        /\ \/ profile' = [profile EXCEPT ![Mail(w)] = TypeOf[review[w].id]] /\ failed' = failed
           \/ failed' = failed \cup {Mail(w)} /\ profile' = profile
        /\ UNCHANGED <<status, approved, roles, reviews>>
    BY <1>9 DEF Approvals!createProfile, Approvals!updateProfile, Mail, Approvals!email,
                Approvals!TypeWritten
  <2>1. /\ Finishes(w, "createProfile") \/ Finishes(w, "updateProfile")
        /\ review' \in [Workers -> ReviewCall]
    BY <2>0, ReviewEnds DEF Finishes, Others
  <2> QED
    BY <1>0, <2>0, <2>1 DEF WritesProfile
<1>10. ASSUME NEW w \in Workers, Approvals!Fail(w) PROVE Fails(w) /\ Typed
  <2>0. /\ review[w] # Approvals!Idle /\ Approvals!Then(w, "end")
        /\ failed' = failed \cup {Mail(w)}
        /\ UNCHANGED <<status, approved, roles, profile, reviews>>
    BY <1>10 DEF Approvals!Fail, Approvals!Free, Mail, Approvals!email
  <2>1. review[w].step # "none"
    BY <1>0, <2>0 DEF ReviewCall
  <2>2. review'[w] = Approvals!Idle /\ Others(w) /\ review' \in [Workers -> ReviewCall]
    BY <2>0, ReviewEnds DEF Others
  <2> QED
    BY <1>0, <2>0, <2>1, <2>2 DEF Fails
<1> HIDE DEF Typed
<1>11. RequestStep /\ Typed
  <2>1. Approvals!Statuses = Outcomes
    BY DEF Approvals!Statuses, Outcomes
  <2> QED
    BY <1>1, <1>2, <1>3, <1>4, <1>5, <1>6, <1>7, <1>8, <1>9, <1>10, <2>1 DEF Approvals!Next, RequestStep
<1> QED
  BY <1>11 DEF Typed

\* Where a review has come to, and what an approval leaves behind.
ReviewsKept ==
    \A w \in Workers :
        /\ review[w].step \in AccountSteps => review[w].id \in approved
        /\ review[w].step \in {"findProfile", "createProfile", "updateProfile"} =>
             "PROVIDER" \in roles[Mail(w)]
        /\ review[w].step = "update" /\ review[w].status = "APPROVED" /\ ~review[w].ensure =>
             review[w].id \in approved
CarriedOut(q) ==
    \/ EmailOf[q] \in failed
    \/ "PROVIDER" \in roles[EmailOf[q]] /\ profile[EmailOf[q]] # None
    \/ \E w \in Workers : review[w].step \in AccountSteps /\ Mail(w) = EmailOf[q]
RequestsKept ==
    /\ ReviewsKept
    /\ \A e \in Emails : profile[e] # None =>
         "PROVIDER" \in roles[e] /\ \E q \in approved : EmailOf[q] = e /\ TypeOf[q] = profile[e]
    /\ \A q \in Filed : status[q] = "APPROVED" => q \in approved
    /\ \A q \in approved : CarriedOut(q)

\* What no step takes back.
LEMMA NothingIsTakenBack ==
    ASSUME Approvals!ProviderRequestsAssumption, RequestTypes, ReviewsKept, RequestStep
    PROVE  /\ RequestTypes' \/ ~(review' \in [Workers -> ReviewCall] /\ reviews' \in 0..MaxReviews)
           /\ approved \subseteq approved' /\ failed \subseteq failed'
           /\ \A e \in Emails : /\ "PROVIDER" \in roles[e] => "PROVIDER" \in roles'[e]
                                /\ profile[e] # None => profile'[e] # None
<1>0. /\ \A w \in Workers : review[w] \in ReviewCall
      /\ \A e \in Emails : roles[e] \in SUBSET AllRoles
      /\ \A q \in Filed : EmailOf[q] \in Emails /\ TypeOf[q] \in ProviderTypes /\ TypeOf[q] # None
      /\ status \in [Filed -> Outcomes \cup {"none"}] /\ approved \in SUBSET Filed
      /\ roles \in [Emails -> SUBSET AllRoles] /\ profile \in [Emails -> ProviderTypes \cup {None}]
      /\ failed \in SUBSET Emails
  BY DEF RequestTypes, Approvals!ProviderRequestsAssumption
<1>1. \A w \in Workers : review[w].step # "none" =>
        /\ review[w].id \in Filed /\ Mail(w) \in Emails /\ review[w].status \in Outcomes
        /\ review[w].roles \in SUBSET AllRoles /\ TypeOf[review[w].id] \in ProviderTypes \ {None}
  BY <1>0 DEF ReviewCall, ReviewRow, Mail
<1> DEFINE Rest == /\ status' \in [Filed -> Outcomes \cup {"none"}] /\ approved' \in SUBSET Filed
                   /\ roles' \in [Emails -> SUBSET AllRoles]
                   /\ profile' \in [Emails -> ProviderTypes \cup {None}]
                   /\ failed' \in SUBSET Emails
                   /\ approved \subseteq approved' /\ failed \subseteq failed'
                   /\ \A e \in Emails : /\ "PROVIDER" \in roles[e] => "PROVIDER" \in roles'[e]
                                        /\ profile[e] # None => profile'[e] # None
<1>2. ASSUME Files PROVE Rest
  <2>1. PICK q \in Filed : status' = [status EXCEPT ![q] = "PENDING"]
    BY <1>2 DEF Files
  <2>2. status' \in [Filed -> Outcomes \cup {"none"}]
    BY <1>0, <2>1 DEF Outcomes
  <2> QED
    BY <1>0, <1>2, <2>2 DEF Files
<1>3. ASSUME AddsRole PROVE Rest
  <2>1. PICK e \in Emails, s \in SUBSET AllRoles : roles[e] \subseteq s /\ roles' = [roles EXCEPT ![e] = s]
    BY <1>3 DEF AddsRole
  <2>2. /\ roles' \in [Emails -> SUBSET AllRoles]
        /\ \A f \in Emails : "PROVIDER" \in roles[f] => "PROVIDER" \in roles'[f]
    BY <1>0, <2>1
  <2> QED
    BY <1>0, <1>3, <2>2 DEF AddsRole
<1>4. ASSUME NEW w \in Workers, BeginsReview(w) \/ FindsUser(w) \/ FindsProfile(w) PROVE Rest
  <2>1. UNCHANGED <<status, approved, roles, profile, failed>>
    BY <1>4 DEF BeginsReview, FindsUser, FindsProfile
  <2> QED
    BY <1>0, <2>1
<1>5. ASSUME NEW w \in Workers, Updates(w) PROVE Rest
  <2>1. review[w].id \in Filed /\ review[w].status \in Outcomes
    BY <1>1, <1>5 DEF Updates, Advances, Finishes
  <2>2. status' \in [Filed -> Outcomes \cup {"none"}]
    BY <1>0, <1>5, <2>1 DEF Updates
  <2>3. approved' \in SUBSET Filed /\ approved \subseteq approved'
    BY <1>0, <1>5, <2>1 DEF Updates
  <2> QED
    BY <1>0, <1>5, <2>2, <2>3 DEF Updates
<1>6. ASSUME NEW w \in Workers, CreatesUser(w) \/ UpdatesUser(w) \/ WritesProfile(w) \/ Fails(w)
      PROVE  Rest
  <2>1. /\ Mail(w) \in Emails /\ review[w].roles \in SUBSET AllRoles
        /\ TypeOf[review[w].id] \in ProviderTypes \ {None}
    BY <1>1, <1>6 DEF CreatesUser, UpdatesUser, WritesProfile, Fails, Advances, Finishes
  <2>2. \/ roles' = roles
        \/ \E s \in SUBSET AllRoles : "PROVIDER" \in s /\ roles' = [roles EXCEPT ![Mail(w)] = s]
    <3>1. {"PROVIDER"} \in SUBSET AllRoles /\ review[w].roles \cup {"PROVIDER"} \in SUBSET AllRoles
      BY <2>1 DEF AllRoles
    <3> QED
      BY <1>6, <3>1 DEF CreatesUser, UpdatesUser, WritesProfile, Fails
  <2>3. /\ roles' \in [Emails -> SUBSET AllRoles]
        /\ \A f \in Emails : "PROVIDER" \in roles[f] => "PROVIDER" \in roles'[f]
    BY <1>0, <2>1, <2>2
  <2>4. profile' = profile \/ profile' = [profile EXCEPT ![Mail(w)] = TypeOf[review[w].id]]
    BY <1>6 DEF CreatesUser, UpdatesUser, WritesProfile, Fails
  <2>5. /\ profile' \in [Emails -> ProviderTypes \cup {None}]
        /\ \A e \in Emails : profile[e] # None => profile'[e] # None
    BY <1>0, <2>1, <2>4
  <2>6. UNCHANGED <<status, approved>> /\ (failed' = failed \/ failed' = failed \cup {Mail(w)})
    BY <1>6 DEF CreatesUser, UpdatesUser, WritesProfile, Fails
  <2> QED
    BY <1>0, <2>1, <2>3, <2>5, <2>6
<1> HIDE DEF Rest
<1>7. Rest
  BY <1>2, <1>3, <1>4, <1>5, <1>6 DEF RequestStep
<1> QED
  BY <1>7 DEF Rest, RequestTypes

\* Each review comes to its next step with what that step relies on.
LEMMA ReviewsStayKept ==
    ASSUME Approvals!ProviderRequestsAssumption, RequestTypes, RequestsKept, RequestStep
    PROVE  ReviewsKept'
<1>0. /\ \A w \in Workers : review[w] \in ReviewCall
      /\ \A q \in Filed : EmailOf[q] \in Emails
      /\ roles \in [Emails -> SUBSET AllRoles]
      /\ approved \subseteq approved'
      /\ \A e \in Emails : "PROVIDER" \in roles[e] => "PROVIDER" \in roles'[e]
  BY NothingIsTakenBack DEF RequestTypes, Approvals!ProviderRequestsAssumption, RequestsKept
<1>1. \A w \in Workers : review[w].step # "none" => review[w].id \in Filed /\ Mail(w) \in Emails
  BY <1>0 DEF ReviewCall, Mail
<1> DEFINE Good(w) ==
        /\ review[w].step \in AccountSteps => review[w].id \in approved
        /\ review[w].step \in {"findProfile", "createProfile", "updateProfile"} =>
             "PROVIDER" \in roles[Mail(w)]
        /\ review[w].step = "update" /\ review[w].status = "APPROVED" /\ ~review[w].ensure =>
             review[w].id \in approved
<1>2. ASSUME NEW w \in Workers, review'[w] = review[w] PROVE Good(w)'
  BY <1>0, <1>1, <1>2 DEF RequestsKept, ReviewsKept, Mail, AccountSteps
<1>3. ASSUME NEW w \in Workers, review'[w] = Approvals!Idle PROVE Good(w)'
  BY <1>3, NobodyReviews DEF AccountSteps
<1>4. ASSUME NEW w \in Workers, Others(w), Good(w)' PROVE ReviewsKept'
  <2>1. \A v \in Workers \ {w} : Good(v)'
    BY <1>2, <1>4 DEF Others
  <2> QED
    BY <1>4, <2>1 DEF ReviewsKept
<1>5. CASE Files \/ AddsRole
  <2>1. review' = review
    BY <1>5 DEF Files, AddsRole
  <2> QED
    BY <1>2, <2>1 DEF ReviewsKept
<1>6. ASSUME NEW w \in Workers, BeginsReview(w) PROVE ReviewsKept'
  <2>1. /\ review'[w].step = "update" /\ approved' = approved
        /\ review'[w].status = "APPROVED" /\ ~review'[w].ensure => status[review'[w].id] = "APPROVED"
    BY <1>6 DEF BeginsReview
  <2>2. review'[w].id \in Filed
    BY <1>6 DEF BeginsReview
  <2>3. Good(w)'
    BY <2>1, <2>2 DEF RequestsKept, AccountSteps
  <2> QED
    BY <1>4, <1>6, <2>3 DEF BeginsReview
<1>7. ASSUME NEW w \in Workers, Updates(w) PROVE ReviewsKept'
  <2>1. CASE review[w].ensure
    <3>1. review[w].status = "APPROVED"
      BY <1>0, <2>1 DEF ReviewCall
    <3>2. /\ review'[w].step = "findUser" /\ review'[w].id \in approved'
          /\ Others(w)
      BY <1>7, <2>1, <3>1 DEF Updates, Advances
    <3> QED
      BY <1>4, <3>2
  <2>2. CASE ~review[w].ensure
    BY <1>3, <1>4, <1>7, <2>2 DEF Updates, Finishes
  <2> QED
    BY <2>1, <2>2
<1>8. ASSUME NEW w \in Workers, NEW from \in AccountSteps, NEW to \in AccountSteps, Advances(w, from, to),
             to \in {"findProfile", "createProfile", "updateProfile"} => "PROVIDER" \in roles'[Mail(w)]
      PROVE  ReviewsKept'
  <2>1. review[w].id \in approved /\ review'[w].id = review[w].id /\ review'[w].step = to /\ Others(w)
    BY <1>8 DEF Advances, RequestsKept, ReviewsKept
  <2>2. Mail(w)' = Mail(w)
    BY <2>1 DEF Mail
  <2>3. Good(w)'
    BY <1>0, <1>8, <2>1, <2>2 DEF AccountSteps
  <2> QED
    BY <1>4, <2>1, <2>3
<1>9. ASSUME NEW w \in Workers, FindsUser(w) PROVE ReviewsKept'
  <2>1. roles' = roles
    BY <1>9 DEF FindsUser
  <2> QED
    BY <1>8, <1>9, <2>1 DEF FindsUser, AccountSteps
<1>10. ASSUME NEW w \in Workers, CreatesUser(w) PROVE ReviewsKept'
  <2>1. CASE Finishes(w, "createUser")
    BY <1>3, <1>4, <2>1 DEF Finishes
  <2>2. CASE Advances(w, "createUser", "findProfile") /\ roles' = [roles EXCEPT ![Mail(w)] = {"PROVIDER"}]
    <3>1. Mail(w) \in Emails
      BY <1>1, <2>2 DEF Advances
    <3>2. "PROVIDER" \in roles'[Mail(w)]
      BY <1>0, <2>2, <3>1
    <3> QED
      BY <1>8, <2>2, <3>2 DEF AccountSteps
  <2> QED
    BY <1>10, <2>1, <2>2 DEF CreatesUser
<1>11. ASSUME NEW w \in Workers, UpdatesUser(w) PROVE ReviewsKept'
  <2>1. /\ Advances(w, "updateUser", "findProfile")
        /\ roles' = [roles EXCEPT ![Mail(w)] = review[w].roles \cup {"PROVIDER"}]
    BY <1>11 DEF UpdatesUser
  <2>2. Mail(w) \in Emails
    BY <1>1, <2>1 DEF Advances
  <2>3. "PROVIDER" \in roles'[Mail(w)]
    BY <1>0, <2>1, <2>2
  <2> QED
    BY <1>8, <2>1, <2>3 DEF AccountSteps
<1>12. ASSUME NEW w \in Workers, FindsProfile(w) PROVE ReviewsKept'
  <2>1. PICK to \in {"createProfile", "updateProfile"} : Advances(w, "findProfile", to)
    BY <1>12 DEF FindsProfile
  <2>2. "PROVIDER" \in roles[Mail(w)] /\ roles' = roles
    BY <1>12, <2>1 DEF FindsProfile, Advances, RequestsKept, ReviewsKept
  <2> QED
    BY <1>8, <2>1, <2>2 DEF AccountSteps
<1>13. ASSUME NEW w \in Workers, WritesProfile(w) \/ Fails(w) PROVE ReviewsKept'
  BY <1>3, <1>4, <1>13 DEF WritesProfile, Fails, Finishes
<1> QED
  BY <1>5, <1>6, <1>7, <1>9, <1>10, <1>11, <1>12, <1>13 DEF RequestStep

LEMMA ProfilesStayApproved ==
    ASSUME Approvals!ProviderRequestsAssumption, RequestTypes, RequestsKept, RequestStep,
           NEW e \in Emails, profile'[e] # None
    PROVE  "PROVIDER" \in roles'[e] /\ \E q \in approved' : EmailOf[q] = e /\ TypeOf[q] = profile'[e]
<1>0. /\ approved \subseteq approved'
      /\ "PROVIDER" \in roles[e] => "PROVIDER" \in roles'[e]
      /\ profile \in [Emails -> ProviderTypes \cup {None}]
  BY NothingIsTakenBack DEF RequestsKept, RequestTypes
<1>1. CASE profile' = profile
  BY <1>0, <1>1 DEF RequestsKept
<1>2. ASSUME NEW w \in Workers, WritesProfile(w),
             profile' = [profile EXCEPT ![Mail(w)] = TypeOf[review[w].id]]
      PROVE  "PROVIDER" \in roles'[e] /\ \E q \in approved' : EmailOf[q] = e /\ TypeOf[q] = profile'[e]
  <2>1. CASE e = Mail(w)
    <3>1. review[w].step \in {"createProfile", "updateProfile"} /\ approved' = approved /\ roles' = roles
      BY <1>2 DEF WritesProfile, Finishes
    <3>2. review[w].id \in approved /\ "PROVIDER" \in roles[e]
      BY <2>1, <3>1 DEF RequestsKept, ReviewsKept, AccountSteps
    <3>3. profile'[e] = TypeOf[review[w].id] /\ EmailOf[review[w].id] = e
      BY <1>0, <1>2, <2>1 DEF Mail
    <3> QED
      BY <3>1, <3>2, <3>3
  <2>2. CASE e # Mail(w)
    <3>1. profile'[e] = profile[e]
      BY <1>0, <1>2, <2>2
    <3> QED
      BY <1>0, <3>1 DEF RequestsKept
  <2> QED
    BY <2>1, <2>2
<1>3. profile' = profile \/ \E w \in Workers :
        WritesProfile(w) /\ profile' = [profile EXCEPT ![Mail(w)] = TypeOf[review[w].id]]
  BY DEF RequestStep, Files, AddsRole, BeginsReview, Updates, FindsUser, CreatesUser, UpdatesUser, FindsProfile,
         WritesProfile, Fails
<1> QED
  BY <1>1, <1>2, <1>3

LEMMA ApprovalsStayKnown ==
    ASSUME RequestTypes, RequestsKept, RequestStep, NEW q \in Filed, status'[q] = "APPROVED"
    PROVE  q \in approved'
<1>0. status \in [Filed -> Outcomes \cup {"none"}] /\ \A w \in Workers : review[w] \in ReviewCall
  BY DEF RequestTypes
<1>1. CASE status' = status /\ approved' = approved
  BY <1>1 DEF RequestsKept
<1>2. CASE Files
  BY <1>0, <1>2 DEF Files, RequestsKept
<1>3. ASSUME NEW w \in Workers, Updates(w) PROVE q \in approved'
  <2>1. review[w].id \in Filed
    BY <1>0, <1>3 DEF ReviewCall, Updates, Advances, Finishes
  <2> QED
    BY <1>0, <1>3, <2>1 DEF Updates, RequestsKept
<1> QED
  BY <1>1, <1>2, <1>3 DEF RequestStep, AddsRole, BeginsReview, FindsUser, CreatesUser, UpdatesUser,
     FindsProfile, WritesProfile, Fails

LEMMA ApprovalsStayCarriedOut ==
    ASSUME Approvals!ProviderRequestsAssumption, RequestTypes, RequestsKept, RequestStep,
           NEW q \in approved'
    PROVE  CarriedOut(q)'
<1>0. /\ \A w \in Workers : review[w] \in ReviewCall
      /\ \A p \in Filed : EmailOf[p] \in Emails /\ TypeOf[p] # None
      /\ approved \in SUBSET Filed /\ failed \subseteq failed'
      /\ profile \in [Emails -> ProviderTypes \cup {None}]
      /\ \A e \in Emails : /\ "PROVIDER" \in roles[e] => "PROVIDER" \in roles'[e]
                           /\ profile[e] # None => profile'[e] # None
  BY NothingIsTakenBack DEF RequestTypes, Approvals!ProviderRequestsAssumption, RequestsKept
<1>1. \A w \in Workers : review[w].step # "none" => review[w].id \in Filed /\ Mail(w) \in Emails
  BY <1>0 DEF ReviewCall, Mail
\* A review that goes on, and one that ends with the profile there or a failure.
<1>2. ASSUME NEW w \in Workers, NEW to \in AccountSteps, Others(w),
             review'[w].step = to, review'[w].id = review[w].id,
             q \in approved \/ EmailOf[q] = Mail(w)
      PROVE  CarriedOut(q)'
  <2>1. Mail(w)' = Mail(w)
    BY <1>2 DEF Mail
  <2>2. CASE EmailOf[q] = Mail(w)
    <3>1. review'[w].step \in AccountSteps /\ Mail(w)' = EmailOf[q]
      BY <1>2, <2>1, <2>2
    <3> QED
      BY <3>1 DEF CarriedOut
  <2>3. CASE q \in approved /\ EmailOf[q] # Mail(w)
    <3>0. q \in Filed /\ EmailOf[q] \in Emails /\ CarriedOut(q)
      BY <1>0, <2>3 DEF RequestsKept
    <3>1. \A v \in Workers : Mail(v) = EmailOf[q] => review'[v] = review[v] /\ Mail(v)' = Mail(v)
      BY <1>2, <2>3 DEF Others, Mail
    <3> QED
      BY <1>0, <3>0, <3>1 DEF CarriedOut
  <2> QED
    BY <1>2, <2>2, <2>3
<1>3. ASSUME NEW w \in Workers, Others(w), q \in approved,
             \/ review[w].step \notin AccountSteps
             \/ Mail(w) \in failed'
             \/ "PROVIDER" \in roles'[Mail(w)] /\ profile'[Mail(w)] # None
      PROVE  CarriedOut(q)'
  <2>1. q \in Filed /\ EmailOf[q] \in Emails /\ CarriedOut(q)
    BY <1>0, <1>3 DEF RequestsKept
  <2>2. CASE EmailOf[q] = Mail(w) /\ review[w].step \in AccountSteps
    BY <1>3, <2>2 DEF CarriedOut
  <2>3. CASE ~(EmailOf[q] = Mail(w) /\ review[w].step \in AccountSteps)
    <3>1. \A v \in Workers : Mail(v) = EmailOf[q] /\ review[v].step \in AccountSteps =>
            review'[v] = review[v] /\ Mail(v)' = Mail(v)
      BY <1>3, <2>3 DEF Others, Mail
    <3> QED
      BY <1>0, <2>1, <3>1 DEF CarriedOut
  <2> QED
    BY <2>2, <2>3
<1>4. CASE Files \/ AddsRole
  <2>1. review' = review /\ approved' = approved
    BY <1>4 DEF Files, AddsRole
  <2>2. q \in Filed /\ EmailOf[q] \in Emails /\ CarriedOut(q)
    BY <1>0, <2>1 DEF RequestsKept
  <2>3. \A w \in Workers : Mail(w)' = Mail(w)
    BY <2>1 DEF Mail
  <2> QED
    BY <1>0, <2>1, <2>2, <2>3 DEF CarriedOut
<1>5. ASSUME NEW w \in Workers, BeginsReview(w) PROVE CarriedOut(q)'
  BY <1>3, <1>5, NobodyReviews DEF BeginsReview, AccountSteps
<1>6. ASSUME NEW w \in Workers, Updates(w) PROVE CarriedOut(q)'
  <2>1. CASE review[w].ensure
    <3>1. /\ Others(w) /\ review'[w].step = "findUser" /\ review'[w].id = review[w].id
          /\ q \in approved \/ q = review[w].id
      BY <1>6, <2>1 DEF Updates, Advances
    <3> QED
      BY <1>2, <3>1 DEF AccountSteps, Mail
  <2>2. CASE ~review[w].ensure
    <3>1. Others(w) /\ review[w].step = "update"
      BY <1>6, <2>2 DEF Updates, Finishes
    <3>2. q \in approved
      BY <1>6, <2>2, <3>1 DEF Updates, RequestsKept, ReviewsKept
    <3> QED
      BY <1>3, <3>1, <3>2 DEF AccountSteps
  <2> QED
    BY <2>1, <2>2
<1>7. ASSUME NEW w \in Workers, FindsUser(w) \/ UpdatesUser(w) \/ FindsProfile(w) PROVE CarriedOut(q)'
  <2>1. approved' = approved /\ \E from, to \in AccountSteps : Advances(w, from, to)
    BY <1>7 DEF FindsUser, UpdatesUser, FindsProfile, AccountSteps
  <2> QED
    BY <1>2, <2>1 DEF Advances
<1>8. ASSUME NEW w \in Workers, CreatesUser(w) PROVE CarriedOut(q)'
  <2>1. CASE Advances(w, "createUser", "findProfile")
    BY <1>2, <1>8, <2>1 DEF CreatesUser, Advances, AccountSteps
  <2>2. CASE Finishes(w, "createUser") /\ failed' = failed \cup {Mail(w)}
    BY <1>3, <1>8, <2>2 DEF CreatesUser, Finishes
  <2> QED
    BY <1>8, <2>1, <2>2 DEF CreatesUser
<1>9. ASSUME NEW w \in Workers, WritesProfile(w) PROVE CarriedOut(q)'
  <2>1. /\ review[w].step \in {"createProfile", "updateProfile"} /\ Others(w)
        /\ approved' = approved /\ roles' = roles
    BY <1>9 DEF WritesProfile, Finishes
  <2>2. "PROVIDER" \in roles'[Mail(w)] /\ Mail(w) \in Emails /\ TypeOf[review[w].id] # None
    BY <1>0, <1>1, <2>1 DEF RequestsKept, ReviewsKept
  <2>3. Mail(w) \in failed' \/ profile'[Mail(w)] # None
    BY <1>0, <1>9, <2>2 DEF WritesProfile
  <2> QED
    BY <1>3, <2>1, <2>2, <2>3
<1>10. ASSUME NEW w \in Workers, Fails(w) PROVE CarriedOut(q)'
  BY <1>3, <1>10 DEF Fails
<1> QED
  BY <1>4, <1>5, <1>6, <1>7, <1>8, <1>9, <1>10 DEF RequestStep

LEMMA RequestsStayKept ==
    ASSUME Approvals!ProviderRequestsAssumption, RequestTypes, RequestsKept, RequestStep
    PROVE  RequestsKept'
<1>1. ReviewsKept'
  BY ReviewsStayKept
<1>2. \A e \in Emails : profile'[e] # None =>
        "PROVIDER" \in roles'[e] /\ \E q \in approved' : EmailOf[q] = e /\ TypeOf[q] = profile'[e]
  BY ProfilesStayApproved
<1>3. \A q \in Filed : status'[q] = "APPROVED" => q \in approved'
  BY ApprovalsStayKnown
<1>4. \A q \in approved' : CarriedOut(q)'
  BY ApprovalsStayCarriedOut
<1> QED
  BY <1>1, <1>2, <1>3, <1>4 DEF RequestsKept

LEMMA RequestsSay ==
    ASSUME Approvals!ProviderRequestsAssumption, RequestTypes, RequestsKept
    PROVE  ApprovalsSound
<1>1. Approvals!TypeOK
  <2>1. Approvals!Statuses = Outcomes /\ Approvals!Roles = AllRoles
    BY DEF Approvals!Statuses, Outcomes, Approvals!Roles, AllRoles
  <2> QED
    BY <2>1 DEF RequestTypes, RequestsKept, Approvals!TypeOK
<1>2. Approvals!ProfileWasApproved
  BY DEF RequestsKept, Approvals!ProfileWasApproved
<1>3. Approvals!ApprovedHasAccount
  <2> SUFFICES ASSUME NEW q \in approved, EmailOf[q] \notin failed,
                      \A w \in Workers : Approvals!Free(w) \/ Approvals!email(w) # EmailOf[q]
               PROVE  "PROVIDER" \in roles[EmailOf[q]] /\ profile[EmailOf[q]] # None
    BY DEF Approvals!ApprovedHasAccount
  <2>1. \A w \in Workers : ~(review[w].step \in AccountSteps /\ Mail(w) = EmailOf[q])
    BY NobodyReviews DEF Approvals!Free, Approvals!email, Mail, AccountSteps
  <2> QED
    BY <2>1 DEF RequestsKept, CarriedOut
<1> QED
  BY <1>1, <1>2, <1>3 DEF ApprovalsSound

\* Calls one at a time: the review that is about to write the roles has read them as they are.
RolesFresh ==
    /\ \A v, w \in Workers : review[v] # Approvals!Idle /\ review[w] # Approvals!Idle => v = w
    /\ \A w \in Workers : review[w].step = "updateUser" => review[w].roles = roles[Mail(w)]

LEMMA RolesStayFresh ==
    ASSUME RequestTypes, RolesFresh, RequestStep,
           \A v, w \in Workers : review'[v] # Approvals!Idle /\ review'[w] # Approvals!Idle => v = w,
           (\E w \in Workers : review[w] # Approvals!Idle) => roles' = roles \/ review' # review
    PROVE  RolesFresh' /\ Approvals!KeepsRoles
<1>0. roles \in [Emails -> SUBSET AllRoles]
  BY DEF RequestTypes
<1>1. CASE Files \/ AddsRole
  <2>1. review' = review
    BY <1>1 DEF Files, AddsRole
  <2>2. \A e \in Emails : roles[e] \subseteq roles'[e]
    BY <1>0, <1>1 DEF Files, AddsRole
  <2>3. \A w \in Workers : review[w].step = "updateUser" => roles' = roles
    BY <2>1, NobodyReviews
  <2>4. \A w \in Workers : review'[w].step = "updateUser" => review'[w].roles = roles'[Mail(w)']
    BY <2>1, <2>3 DEF RolesFresh, Mail
  <2> QED
    BY <2>1, <2>2, <2>4 DEF RolesFresh, Approvals!KeepsRoles, Mail
<1>2. ASSUME NEW w \in Workers, Others(w),
             review[w] # Approvals!Idle \/ review'[w] # Approvals!Idle,
             review'[w].step = "updateUser" => review'[w].roles = roles'[Mail(w)']
      PROVE  RolesFresh'
  <2>1. \A v \in Workers \ {w} : review[v] = Approvals!Idle \/ review'[v] = Approvals!Idle
    BY <1>2 DEF RolesFresh
  <2>2. \A v \in Workers \ {w} : review'[v] = Approvals!Idle
    BY <1>2, <2>1 DEF Others
  <2>3. \A v \in Workers : review'[v].step = "updateUser" => v = w
    BY <2>2, NobodyReviews
  <2> QED
    BY <1>2, <2>3 DEF RolesFresh, Mail
<1>3. ASSUME NEW w \in Workers, BeginsReview(w) \/ Updates(w) \/ WritesProfile(w) \/ Fails(w) \/ FindsProfile(w)
      PROVE  RolesFresh' /\ Approvals!KeepsRoles
  <2>1. /\ Others(w) /\ roles' = roles /\ review'[w].step # "updateUser"
        /\ review[w] # Approvals!Idle \/ review'[w] # Approvals!Idle
    BY <1>3, NobodyReviews DEF BeginsReview, Updates, WritesProfile, Fails, FindsProfile, Advances, Finishes
  <2> QED
    BY <1>2, <2>1 DEF Approvals!KeepsRoles
<1>4. ASSUME NEW w \in Workers, FindsUser(w) PROVE RolesFresh' /\ Approvals!KeepsRoles
  <2>1. /\ Others(w) /\ roles' = roles /\ review'[w] # Approvals!Idle /\ Mail(w)' = Mail(w)
        /\ review'[w].step = "updateUser" => review'[w].roles = roles[Mail(w)]
    BY <1>4 DEF FindsUser, Advances, Mail
  <2> QED
    BY <1>2, <2>1 DEF Approvals!KeepsRoles
<1>5. ASSUME NEW w \in Workers, CreatesUser(w) \/ UpdatesUser(w)
      PROVE  RolesFresh' /\ Approvals!KeepsRoles
  <2>1. /\ Others(w) /\ review[w] # Approvals!Idle /\ review'[w].step # "updateUser"
    BY <1>5, NobodyReviews DEF CreatesUser, UpdatesUser, Advances, Finishes
  <2>2. \/ roles' = roles
        \/ roles[Mail(w)] = {} /\ roles' = [roles EXCEPT ![Mail(w)] = {"PROVIDER"}]
        \/ roles' = [roles EXCEPT ![Mail(w)] = roles[Mail(w)] \cup {"PROVIDER"}]
    BY <1>5 DEF CreatesUser, UpdatesUser, RolesFresh, Advances
  <2>3. \A e \in Emails : roles[e] \subseteq roles'[e]
    BY <1>0, <2>2
  <2> QED
    BY <1>2, <2>1, <2>3 DEF Approvals!KeepsRoles
<1> QED
  BY <1>1, <1>3, <1>4, <1>5 DEF RequestStep

\* Whatever step ends an approval has written the type of the request, or the call failed.
LEMMA TypesAreWritten ==
    ASSUME Approvals!ProviderRequestsAssumption, RequestTypes,
           RequestStep \/ UNCHANGED <<profile, review>>
    PROVE  Approvals!WritesLastType
<1> SUFFICES ASSUME NEW w \in Workers, review[w].ensure, review'[w] = Approvals!Idle, Mail(w) \notin failed'
             PROVE  profile'[Mail(w)] = TypeOf[review[w].id]
  BY DEF Approvals!WritesLastType, Approvals!email, Mail
<1>1. review[w] # Approvals!Idle /\ review'[w] # review[w] /\ review[w] \in ReviewCall
      /\ profile \in [Emails -> ProviderTypes \cup {None}]
  BY NobodyReviews DEF RequestTypes
<1>2. review[w].step # "none" /\ Mail(w) \in Emails
  <2>1. review[w].id \in Filed /\ review[w].step # "none"
    BY <1>1 DEF ReviewCall
  <2> QED
    BY <2>1 DEF Mail, Approvals!ProviderRequestsAssumption
<1>3. PICK v \in Workers :
        \/ BeginsReview(v) \/ Updates(v) \/ FindsUser(v) \/ CreatesUser(v) \/ UpdatesUser(v)
        \/ FindsProfile(v) \/ WritesProfile(v) \/ Fails(v)
  BY <1>1 DEF RequestStep, Files, AddsRole
<1>4. v = w
  BY <1>1, <1>3 DEF Others, BeginsReview, Updates, FindsUser, CreatesUser, UpdatesUser, FindsProfile,
     WritesProfile, Fails, Advances, Finishes
<1>5. WritesProfile(w)
  BY <1>1, <1>3, <1>4 DEF BeginsReview, Updates, FindsUser, CreatesUser, UpdatesUser, FindsProfile, Fails,
     Advances, Finishes
<1> QED
  BY <1>1, <1>2, <1>5 DEF WritesProfile

-----------------------------------------------------------------------------
(***************************************************************************)
(* The way of a provider to its first mission.                             *)
(***************************************************************************)
ChecklistInv ==
    /\ CheckTypes /\ ReadyKept /\ LateKept /\ CodesKept
    /\ alone => StageFresh
IdentityInv ==
    /\ IdentityTypes /\ DocsKept /\ LogKept /\ VerdictsKept
    /\ workflow = (part # "staff") /\ (alone => part # "onfido")
    /\ alone /\ ~workflow => AloneKept
ReviewsInv ==
    /\ RequestTypes /\ RequestsKept
    /\ alone => RolesFresh

LEMMA ChecklistAtFirst ==
    ASSUME Checklist!OnboardingAssumption, Checklist!Init PROVE ChecklistInv
<1>1. CheckTypes
  BY CheckTypesAtFirst
<1>2. /\ \A w \in Workers : call[w] = Checklist!Free
      /\ stage = "account_created" /\ phone = None /\ pending = None /\ delivered = {}
      /\ late = 0 /\ behind = TRUE /\ wasComplete = (done = Tasks)
  BY DEF Checklist!Init, Tasks
<1>3. Unpaid = {} /\ Cardinality(Unpaid) = 0
  <2>1. Unpaid = {}
    BY <1>2 DEF Unpaid, Checklist!Free
  <2> QED
    BY <2>1, FS_EmptySet
<1>4. LateKept
  BY <1>2, <1>3, ChecklistCount DEF LateKept
<1>5. ReadyKept
  <2>1. done = Tasks => wasComplete
    BY <1>2
  <2>2. stage # "ready" /\ \A w \in Workers : call[w].op # "stage"
    BY <1>2 DEF Checklist!Free
  <2> QED
    BY <2>1, <2>2 DEF ReadyKept
<1>6. CodesKept
  BY <1>2 DEF CodesKept, Matches, Checklist!Free
<1>7. StageFresh
  BY <1>2 DEF StageFresh, OneCheck, Checklist!Free
<1> QED
  BY <1>1, <1>4, <1>5, <1>6, <1>7 DEF ChecklistInv

LEMMA IdentityAtFirst ==
    ASSUME Verification!IdentityAssumption, Verification!Init, workflow = (part # "staff"),
           alone => part # "onfido"
    PROVE  IdentityInv
<1>1. IdentityTypes
  BY IdentityTypesAtFirst
<1>2. /\ \A w \in Workers : upload[w].step = "idle"
      /\ \A d \in Docs : docs[d] = None
      /\ \A o \in Judged \cup {"upload"} : committed[o] = 0 /\ logged[o] = 0
      /\ undone = 0 /\ mishaps = 0 /\ idStatus.status = "NOT_STARTED" /\ idStatus.verifiedAt = FALSE
  BY NobodyUploads, OpsAre DEF Verification!Init
<1>3. Cardinality({}) = 0 /\ IsFiniteSet({}) /\ Cardinality(Workers) \in Nat \ {0} /\ DocLimit \in Nat \ {0}
  BY FS_EmptySet, VerificationCount
<1>4. DocsKept
  <2>1. Verification!Present = {} /\ ToCreate = {}
    BY <1>2 DEF Verification!Present, ToCreate
  <2>2. Verification!NamedMeansUnderReview
    BY <2>1 DEF Verification!NamedMeansUnderReview
  <2> QED
    BY <1>3, <2>1, <2>2 DEF DocsKept
<1>5. LogKept
  <2>1. ToLog = {} /\ \A o \in Judged \cup {"upload"} : ToLogOf(o) = {}
    BY <1>2 DEF ToLog, ToLogOf
  <2>2. \A o \in Judged \cup {"upload"} : Missing(o) = 0
    BY <1>2 DEF Missing
  <2>3. ASSUME NEW o \in Judged \cup {"upload"}
        PROVE  logged[o] + Cardinality(ToLogOf(o)) <= committed[o]
    <3>1. ToLogOf(o) = {} /\ logged[o] = 0 /\ committed[o] = 0
      BY <1>2, <2>1
    <3>2. Cardinality(ToLogOf(o)) = 0
      BY <1>3, <3>1
    <3> QED
      BY <3>1, <3>2
  <2>4. Missing("approve") + Missing("reject") + Missing("review") + Missing("reset") + Missing("upload")
         <= Cardinality(ToLog) + mishaps
    BY <1>2, <1>3, <2>1, <2>2 DEF Judged
  <2> QED
    BY <2>3, <2>4 DEF LogKept
<1>6. VerdictsKept
  BY <1>2 DEF VerdictsKept
<1>7. AloneKept
  BY <1>2 DEF AloneKept, Fresh
<1> QED
  BY <1>1, <1>4, <1>5, <1>6, <1>7 DEF IdentityInv

LEMMA ReviewsAtFirst ==
    ASSUME Approvals!ProviderRequestsAssumption, Approvals!Init PROVE ReviewsInv
<1>1. RequestTypes
  BY RequestTypesAtFirst
<1>2. /\ \A w \in Workers : review[w] = Approvals!Idle
      /\ \A e \in Emails : profile[e] = None
      /\ \A q \in Filed : status[q] = "none"
      /\ approved = {}
  BY DEF Approvals!Init
<1>3. ReviewsKept
  BY <1>2, NobodyReviews DEF ReviewsKept, AccountSteps
<1>4. RequestsKept
  BY <1>2, <1>3 DEF RequestsKept
<1>5. RolesFresh
  BY <1>2, NobodyReviews DEF RolesFresh
<1> QED
  BY <1>1, <1>4, <1>5 DEF ReviewsInv

LEMMA ChecklistStays == ChecklistInv /\ [NextAll]_all => ChecklistInv'
<1> SUFFICES ASSUME ChecklistInv, [NextAll]_all PROVE ChecklistInv'
  OBVIOUS
<1>0. Checklist!OnboardingAssumption
  BY AccountsAssumption
<1>1. alone' = alone /\ [Checklist!Next]_(Checklist!vars)
      /\ (alone => OneCheck' \/ UNCHANGED call)
  <2>1. CASE OnboardingNext
    BY <2>1 DEF OnboardingNext, OneCheck
  <2>2. CASE ~OnboardingNext
    <3>1. UNCHANGED <<onboarding, alone>>
      BY <2>2 DEF NextAll, all, SessionsNext, UsersNext, IdentityNext, RequestsNext, GdprNext, SystemNext
    <3> QED
      BY <3>1 DEF onboarding, Checklist!vars
  <2> QED
    BY <2>1, <2>2
<1>2. CheckTypes' /\ ReadyKept' /\ LateKept' /\ CodesKept'
  BY <1>0, <1>1, CheckTypesStay, ReadyStaysKept, LateStaysKept, CodesStayKept DEF ChecklistInv
<1>3. ASSUME alone PROVE StageFresh'
  <2>1. StageFresh
    BY <1>3 DEF ChecklistInv
  <2>2. OneCheck'
    BY <1>1, <1>3, <2>1 DEF StageFresh, OneCheck
  <2> QED
    BY <1>1, <2>1, <2>2, StageStaysFresh DEF ChecklistInv
<1> QED
  BY <1>1, <1>2, <1>3 DEF ChecklistInv

LEMMA IdentityMoves ==
    ASSUME [NextAll]_all
    PROVE  /\ part' = part /\ alone' = alone
           /\ \/ UNCHANGED identity
              \/ Verification!Next /\ (alone => \A v, w \in Workers :
                   upload'[v] # Verification!Free /\ upload'[w] # Verification!Free => v = w)
<1>1. CASE IdentityNext
  BY <1>1 DEF IdentityNext
<1>2. CASE ~IdentityNext
  BY <1>2 DEF NextAll, all, SessionsNext, UsersNext, OnboardingNext, RequestsNext, GdprNext, SystemNext
<1> QED
  BY <1>1, <1>2

LEMMA IdentityRests ==
    ASSUME IdentityInv, UNCHANGED <<identity, part, alone>>
    PROVE  IdentityInv'
<1>1. UNCHANGED <<docs, idStatus, types, upload, committed, logged, undone, workflow, calls, mishaps, part, alone>>
  BY DEF identity
<1>2. IdentityTypes' /\ DocsKept'
  BY <1>1 DEF IdentityInv, IdentityTypes, DocsKept, Verification!Present, ToCreate,
     Verification!NamedMeansUnderReview
<1>3. LogKept' /\ VerdictsKept'
  BY <1>1 DEF IdentityInv, LogKept, ToLog, ToLogOf, Missing, VerdictsKept, Fresh
<1>4. alone /\ ~workflow => AloneKept'
  BY <1>1 DEF IdentityInv, AloneKept, Fresh
<1> QED
  BY <1>1, <1>2, <1>3, <1>4 DEF IdentityInv

LEMMA IdentityStays == IdentityInv /\ [NextAll]_all => IdentityInv'
<1> SUFFICES ASSUME IdentityInv, [NextAll]_all PROVE IdentityInv'
  OBVIOUS
<1>0. Verification!IdentityAssumption
  BY AccountsAssumption
<1>1. CASE UNCHANGED identity
  BY <1>1, IdentityMoves, IdentityRests
<1>2. CASE Verification!Next /\ (alone => \A v, w \in Workers :
                upload'[v] # Verification!Free /\ upload'[w] # Verification!Free => v = w)
  <2>1. IdentityTypes' /\ IdentityStep
    BY <1>0, <1>2, IdentityTypesStay, IdentitySteps DEF IdentityInv
  <2>2. DocsKept' /\ LogKept' /\ VerdictsKept'
    BY <1>0, <2>1, DocsStayKept, LogStaysKept, VerdictsStayKept DEF IdentityInv
  <2>3. workflow' = workflow /\ part' = part /\ alone' = alone
    BY <2>1, IdentityMoves DEF IdentityStep, Counting, Deciding, HasRoom, IsRefused, Creating, Submitting,
       Writing, Logging, CutShort, FromOnfido, AboutKinds
  <2>4. ASSUME alone, ~workflow PROVE AloneKept'
    <3>1. \A w \in Workers : upload'[w].step # "idle" => upload'[w] # Verification!Free
      BY NobodyUploads
    <3>2. \A v, w \in Workers : upload'[v].step # "idle" /\ upload'[w].step # "idle" => v = w
      BY <1>2, <2>4, <3>1
    <3> QED
      BY <2>1, <2>4, <3>2, VerificationAloneStays DEF IdentityInv
  <2> QED
    BY <2>1, <2>2, <2>3, <2>4 DEF IdentityInv
<1> QED
  BY <1>1, <1>2, IdentityMoves

LEMMA ReviewsMove ==
    ASSUME [NextAll]_all
    PROVE  /\ alone' = alone
           /\ \/ UNCHANGED requests
              \/ /\ Approvals!Next
                 /\ alone =>
                      /\ \A v, w \in Workers : review'[v] # Approvals!Idle /\ review'[w] # Approvals!Idle => v = w
                      /\ (\E w \in Workers : review[w] # Approvals!Idle) => roles' = roles \/ review' # review
<1>1. CASE RequestsNext
  BY <1>1 DEF RequestsNext, Approvals!Free
<1>2. CASE ~RequestsNext
  BY <1>2 DEF NextAll, all, SessionsNext, UsersNext, OnboardingNext, IdentityNext, GdprNext, SystemNext
<1> QED
  BY <1>1, <1>2

LEMMA ReviewsStay == ReviewsInv /\ [NextAll]_all => ReviewsInv'
<1> SUFFICES ASSUME ReviewsInv, [NextAll]_all PROVE ReviewsInv'
  OBVIOUS
<1>0. Approvals!ProviderRequestsAssumption
  BY AccountsAssumption
<1>1. CASE UNCHANGED requests
  <2>1. UNCHANGED <<status, approved, roles, profile, review, reviews, failed, alone>>
    BY <1>1, ReviewsMove DEF requests
  <2>2. RequestTypes'
    BY <2>1 DEF ReviewsInv, RequestTypes
  <2>3. RequestsKept' /\ (alone => RolesFresh')
    BY <2>1 DEF ReviewsInv, RequestsKept, ReviewsKept, CarriedOut, Mail, RolesFresh
  <2> QED
    BY <2>1, <2>2, <2>3 DEF ReviewsInv
<1>2. CASE Approvals!Next
  <2>1. RequestStep /\ review' \in [Workers -> ReviewCall] /\ reviews' \in 0..MaxReviews
    BY <1>0, <1>2, RequestSteps DEF ReviewsInv
  <2>2. RequestTypes'
    BY <1>0, <2>1, NothingIsTakenBack DEF ReviewsInv, RequestsKept
  <2>3. RequestsKept'
    BY <1>0, <2>1, RequestsStayKept DEF ReviewsInv
  <2>4. ASSUME alone PROVE RolesFresh'
    <3>1. CASE UNCHANGED requests
      BY <2>4, <3>1 DEF requests, ReviewsInv, RolesFresh, Mail
    <3>2. CASE ~UNCHANGED requests
      BY <2>1, <2>4, <3>2, ReviewsMove, RolesStayFresh DEF ReviewsInv
    <3> QED
      BY <3>1, <3>2
  <2> QED
    BY <2>2, <2>3, <2>4, ReviewsMove DEF ReviewsInv
<1> QED
  BY <1>1, <1>2, ReviewsMove

LEMMA ChecklistSays == ChecklistInv => ChecklistSound
<1> SUFFICES ASSUME ChecklistInv PROVE ChecklistSound
  OBVIOUS
<1>0. Checklist!OnboardingAssumption
  BY AccountsAssumption
<1>1. Checklist!TypeOK
  BY DEF ChecklistInv, CheckTypes, CheckCall, CheckOps, StagesOf, Tasks, Checklist!TypeOK
<1>2. Checklist!ReadyWasComplete
  BY DEF ChecklistInv, ReadyKept, Checklist!ReadyWasComplete
<1>3. Checklist!LateCheckoutsBounded
  <2>1. Unpaid \subseteq Workers /\ IsFiniteSet(Workers) /\ Cardinality(Workers) \in Nat
    BY <1>0, ChecklistCount DEF Unpaid
  <2>2. Cardinality(Unpaid) \in Nat /\ late \in Nat
    BY <2>1, FS_Subset, FS_CardinalityType DEF ChecklistInv, CheckTypes
  <2>3. late <= Cardinality(Workers)
    BY <2>1, <2>2 DEF ChecklistInv, LateKept
  <2> QED
    BY <1>0, <2>3, ChecklistCount DEF Checklist!LateCheckoutsBounded
<1>4. Checklist!PhoneProven
  BY DEF ChecklistInv, CodesKept, Checklist!PhoneProven
<1>5. alone => Checklist!StageCurrent
  BY DEF ChecklistInv, StageFresh, Checklist!StageCurrent, Checklist!Free
<1> QED
  BY <1>1, <1>2, <1>3, <1>4, <1>5 DEF ChecklistSound

LEMMA IdentitySays == IdentityInv /\ part \in {"onfido", "staff"} => IdentitySound
<1> SUFFICES ASSUME IdentityInv, part \in {"onfido", "staff"} PROVE IdentitySound
  OBVIOUS
<1>0. Verification!IdentityAssumption
  BY AccountsAssumption
<1>1. Verification!TypeOK
  <2>1. \A d \in Verification!Present : docs[d] \in Document
    BY DEF IdentityInv, IdentityTypes, Verification!Present
  <2>2. \A d \in Verification!Present :
          docs[d].status \in Verification!Statuses /\ docs[d].by \in Reviewers \cup {None}
    BY <2>1 DEF Document, DocStatus, Verification!Statuses
  <2>3. /\ idStatus.status \in {"NOT_STARTED", "SUBMITTED", "VERIFIED", "REJECTED"}
        /\ idStatus.reviewer \in Reviewers \cup {"Onfido", None} /\ idStatus.verifiedAt \in BOOLEAN
    BY DEF IdentityInv, IdentityTypes, Identified
  <2>4. \A w \in Workers : /\ upload[w].op = "none" <=> upload[w].step = "idle"
                           /\ upload[w].step \in {"write", "submit"} =>
                                upload[w].doc \in Verification!Present \cup {None}
    BY DEF IdentityInv, IdentityTypes, Upload
  <2>5. \A c \in Customs : types[c] # None => types[c].isActive \in BOOLEAN /\ types[c].archived \in BOOLEAN
    BY DEF IdentityInv, IdentityTypes, Kind
  <2>6. calls \in 0..MaxUploads /\ mishaps \in 0..MaxFaults
    BY DEF IdentityInv, IdentityTypes
  <2> QED
    BY <2>2, <2>3, <2>4, <2>5, <2>6 DEF Verification!TypeOK
<1>2. Verification!NamedMeansUnderReview
  BY DEF IdentityInv, DocsKept
<1>w. PICK w \in Workers : TRUE
  BY <1>0, VerificationCount, FS_EmptySet
<1>3. Verification!DocumentsBounded
  <2>1. ToCreate \in SUBSET Workers
    BY DEF ToCreate
  <2>2. /\ Cardinality(ToCreate) \in Nat /\ Cardinality(Verification!Present) \in Nat
        /\ Cardinality(Workers) \in Nat /\ DocLimit \in Nat
    BY <1>0, <1>w, <2>1, WorkersCount, VerificationCount, FS_CardinalityType DEF IdentityInv, DocsKept
  <2>3. Cardinality(Verification!Present) + Cardinality(ToCreate) <= DocLimit - 1 + Cardinality(Workers)
    BY DEF IdentityInv, DocsKept
  <2>4. Cardinality(Verification!Present) <= DocLimit + Cardinality(Workers) - 1
    BY <2>2, <2>3
  <2> QED
    BY <1>0, <2>4, VerificationCount DEF Verification!DocumentsBounded
<1>4. Verification!LogTellsTruth
  <2>1. Verification!Ops = Judged \cup {"upload"}
    BY OpsAre
  <2>2. \A o \in Judged \cup {"upload"} : ToLogOf(o) \in SUBSET Workers
    BY DEF ToLogOf, ToLog
  <2>3. \A o \in Judged \cup {"upload"} : Cardinality(ToLogOf(o)) \in Nat
    BY <1>0, <1>w, <2>2, WorkersCount
  <2>4. \A o \in Judged \cup {"upload"} : logged[o] <= committed[o]
    <3>1. \A o \in Judged \cup {"upload"} : logged[o] \in Nat /\ committed[o] \in Nat
      BY DEF IdentityInv, IdentityTypes
    <3> QED
      BY <2>3, <3>1 DEF IdentityInv, LogKept
  <2>5. /\ Missing("approve") + Missing("reject") + Missing("review") + Missing("reset") + Missing("upload")
             <= Verification!Cardinality(ToLog) + mishaps
        /\ ToLog = {v \in Workers : upload[v].step \in {"log", "submit"}}
    BY <1>0, VerificationCount DEF IdentityInv, LogKept, ToLog
  <2> QED
    BY <2>1, <2>4, <2>5 DEF Verification!LogTellsTruth, Missing
<1>5. Verification!VerdictsTakenBackBounded
  <2>1. Fresh \in SUBSET Workers
    BY DEF Fresh
  <2>2. Cardinality(Fresh) \in Nat /\ Cardinality(Workers) \in Nat \ {0} /\ undone \in Nat
    BY <1>0, <1>w, <2>1, WorkersCount, VerificationCount DEF IdentityInv, IdentityTypes
  <2>3. undone <= Cardinality(Workers) - (IF workflow THEN 0 ELSE 1)
    BY <2>2 DEF IdentityInv, VerdictsKept
  <2> QED
    BY <1>0, <2>3, VerificationCount DEF Verification!VerdictsTakenBackBounded
<1>6. ASSUME alone PROVE undone = 0 /\ Verification!DateMeansVerified
  <2>1. ~workflow
    BY <1>6 DEF IdentityInv
  <2> QED
    BY <1>6, <2>1 DEF IdentityInv, AloneKept, Verification!DateMeansVerified
<1> QED
  BY <1>1, <1>2, <1>3, <1>4, <1>5, <1>6 DEF IdentitySound

\* A kind that was taken away is never accepted.
LEMMA KindsStayArchived ==
    ASSUME types \in [Customs -> Kind \cup {None}], Verification!Next \/ UNCHANGED types
    PROVE  Verification!KeepsArchived
<1> SUFFICES ASSUME NEW c \in Customs, types[c] # None, types[c].archived
             PROVE  types'[c].archived
  BY DEF Verification!KeepsArchived, Verification!Allowed
<1>1. CASE UNCHANGED types
  BY <1>1
<1>2. ASSUME NEW d \in Customs, Verification!createType(d) \/ Verification!softDelete(d)
      PROVE  types'[c].archived
  BY <1>2 DEF Verification!createType, Verification!softDelete
<1>3. ASSUME NEW d \in Customs, NEW on \in BOOLEAN, Verification!updateType(d, on)
      PROVE  types'[c].archived
  <2>1. types[d] # None /\ types' = [types EXCEPT ![d] = [types[d] EXCEPT !.isActive = on]]
    BY <1>3 DEF Verification!updateType
  <2>2. types[d] \in Kind
    BY <2>1
  <2>3. [types[d] EXCEPT !.isActive = on].archived = types[d].archived
    BY <2>2 DEF Kind
  <2> QED
    BY <2>1, <2>3
<1> QED
  BY <1>1, <1>2, <1>3 DEF Verification!Next, Verification!uploadIdentityDocument,
     Verification!countDocuments, Verification!submit, Verification!write, Verification!log,
     Verification!Abandon, Verification!createDocument, Verification!decide,
     Verification!updateProviderFromWorkflow

LEMMA KeptSays ==
    ChecklistInv /\ IdentityInv /\ ReviewsInv /\ [NextAll]_all => [KeepsWhatWasDone]_all
<1> SUFFICES ASSUME ChecklistInv, IdentityInv, ReviewsInv, [NextAll]_all
             PROVE  KeepsWhatWasDone
  OBVIOUS
<1>0. Approvals!ProviderRequestsAssumption
  BY AccountsAssumption
<1>1. Checklist!KeepsSteps
  <2>1. [Checklist!Next]_(Checklist!vars)
    <3>1. CASE OnboardingNext
      BY <3>1 DEF OnboardingNext
    <3>2. CASE ~OnboardingNext
      BY <3>2 DEF NextAll, all, SessionsNext, UsersNext, IdentityNext, RequestsNext, GdprNext, SystemNext,
         onboarding, Checklist!vars
    <3> QED
      BY <3>1, <3>2
  <2> QED
    BY <2>1, CheckEffects DEF ChecklistInv, Checklist!KeepsSteps
<1>2. Verification!KeepsArchived
  <2>1. Verification!Next \/ UNCHANGED types
    BY IdentityMoves DEF identity
  <2> QED
    BY <2>1, KindsStayArchived DEF IdentityInv, IdentityTypes
<1>3. ASSUME alone PROVE Approvals!WritesLastType /\ Approvals!KeepsRoles
  <2>1. CASE UNCHANGED requests
    <3>1. UNCHANGED <<roles, profile, review>>
      BY <2>1 DEF requests
    <3> QED
      BY <1>0, <3>1, TypesAreWritten DEF ReviewsInv, Approvals!KeepsRoles
  <2>2. CASE ~UNCHANGED requests
    <3>1. /\ Approvals!Next
          /\ \A v, w \in Workers : review'[v] # Approvals!Idle /\ review'[w] # Approvals!Idle => v = w
          /\ (\E w \in Workers : review[w] # Approvals!Idle) => roles' = roles \/ review' # review
      BY <1>3, <2>2, ReviewsMove
    <3>2. RequestStep
      BY <1>0, <3>1, RequestSteps DEF ReviewsInv
    <3> QED
      BY <1>0, <1>3, <3>1, <3>2, TypesAreWritten, RolesStayFresh DEF ReviewsInv
  <2> QED
    BY <2>1, <2>2
<1> QED
  BY <1>1, <1>2, <1>3 DEF KeepsWhatWasDone

\* ProvidersSound, for all providers, documents, members of staff, requests and calls at a
\* time: whoever is ready had the whole check list completed, the number of an account
\* received the code that was entered, checkouts, documents and verdicts pass their limits
\* by no more than there are calls, the audit log tells what was decided, a profile has the
\* type of an approved request; no step that was completed is lost, and calls one at a time
\* the stage, the date of the verification and the roles are those of the last call.
THEOREM ProvidersAreSound == SpecAll => ProvidersSound
<1>1. InitAll => ChecklistInv /\ IdentityInv /\ ReviewsInv
  <2>1. /\ Checklist!OnboardingAssumption /\ Verification!IdentityAssumption
        /\ Approvals!ProviderRequestsAssumption
    BY AccountsAssumption
  <2>2. InitAll => /\ Checklist!Init /\ Verification!Init /\ Approvals!Init
                   /\ workflow = (part # "staff") /\ (alone => part # "onfido")
    BY DEF InitAll
  <2> QED
    BY <2>1, <2>2, ChecklistAtFirst, IdentityAtFirst, ReviewsAtFirst
<1>2. ChecklistInv /\ IdentityInv /\ ReviewsInv =>
        /\ part \in {"checklist", "phones", "stages"} => ChecklistSound
        /\ part \in {"onfido", "staff"} => IdentitySound
        /\ part = "requests" => ApprovalsSound
  <2>1. Approvals!ProviderRequestsAssumption
    BY AccountsAssumption
  <2>2. ReviewsInv => ApprovalsSound
    BY <2>1, RequestsSay DEF ReviewsInv
  <2> QED
    BY <2>2, ChecklistSays, IdentitySays
<1> QED
  BY <1>1, <1>2, ChecklistStays, IdentityStays, ReviewsStay, KeptSays, PTL DEF SpecAll, ProvidersSound

===============================================================================
