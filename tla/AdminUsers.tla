------------------------------ MODULE AdminUsers ------------------------------
(***************************************************************************)
(* Accounts as the back office sees them: roles and who changes them       *)
(* (security.service.ts, users.service.ts), the lists by status and the    *)
(* overview (employee/users.service.ts).                                   *)
(*                                                                         *)
(* Sessions has how accounts log in; profiles of providers become ready in *)
(* Onboarding.  Time is counted in weeks, all the overview knows of it.    *)
(***************************************************************************)
EXTENDS Integers, Sequences, FiniteSets, SequencesExt, FiniteSetsExt

CONSTANTS
    Users,
    RoleLists,  \* the lists of roles accounts have, the first role first
    WEEKS,      \* OVERVIEW_WEEKS, 6
    MaxTime, MaxLog, \* bounds
    Workers, None

AdminUsersAssumption ==
    /\ RoleLists \subseteq Seq({"client", "company", "provider", "employee", "admin"})
    /\ << >> \notin RoleLists /\ WEEKS \in Nat \ {0} /\ MaxTime \in Nat /\ MaxLog \in Nat
    /\ IsFiniteSet(Users) /\ IsFiniteSet(Workers) /\ None \notin Users

VARIABLES
    user,       \* id |-> the account and its provider profile
    log,        \* the security log's changes of roles, oldest first
    req,        \* worker |-> the change of a role it makes
    edited,     \* users whose roles were changed without a log, or half way
    now

vars == <<user, log, req, edited, now>>

NoUser == [roles |-> << >>, active |-> TRUE, password |-> FALSE,
           profile |-> "none", created |-> 0]
Idle == [pc |-> "idle", user |-> None, role |-> None, previous |-> << >>]

Init ==
    /\ user = [u \in Users |-> NoUser]
    /\ log = << >> /\ edited = {} /\ now = 0
    /\ req = [w \in Workers |-> Idle]

Stored == {u \in Users : user[u].roles # << >>}
Has(u, role) == role \in ToSet(user[u].roles)

-----------------------------------------------------------------------------
\* register gives a password; a login at an identity provider and users.create do not.
create(u, roles, password) ==
    /\ u \notin Stored
    /\ user' = [user EXCEPT ![u] = [NoUser EXCEPT !.roles = roles, !.password = password,
                                                  !.created = now]]
    /\ UNCHANGED <<log, req, edited, now>>

update(u, roles, active) ==
    /\ u \in Stored
    /\ user' = [user EXCEPT ![u].roles = roles, ![u].active = active]
    /\ edited' = IF roles # user[u].roles THEN edited \cup {u} ELSE edited
    /\ UNCHANGED <<log, req, now>>

\* A provider's profile is created by onboarding and becomes ready there.
SetProfile(u, status) ==
    /\ u \in Stored /\ Has(u, "provider") /\ user[u].profile # status
    /\ user' = [user EXCEPT ![u].profile = status]
    /\ UNCHANGED <<log, req, edited, now>>

\* updateEmployeeRole: read, update, log.
RoleRead(w, u, role) ==
    /\ req[w] = Idle /\ u \in Stored /\ Len(log) < MaxLog
    /\ req' = [req EXCEPT ![w] = [pc |-> "update", user |-> u, role |-> role,
                                  previous |-> user[u].roles]]
    /\ UNCHANGED <<user, log, edited, now>>

\* Slip: the role is added to those there are.
RoleAdd(w) ==
    /\ req[w].pc = "update"
    /\ user' = [user EXCEPT ![req[w].user].roles =
                  IF req[w].role \in ToSet(@) THEN @ ELSE Append(@, req[w].role)]
    /\ req' = [req EXCEPT ![w].pc = "log"]
    /\ UNCHANGED <<log, edited, now>>

RoleWrite(w) ==
    /\ req[w].pc = "update"
    /\ user' = [user EXCEPT ![req[w].user].roles = <<req[w].role>>]
    /\ req' = [req EXCEPT ![w].pc = "log"]
    /\ UNCHANGED <<log, edited, now>>

\* Slip: the roles are read again for the log.
RoleLogAfterwards(w) ==
    /\ req[w].pc = "log"
    /\ log' = Append(log, [target |-> req[w].user, previous |-> user[req[w].user].roles,
                           next |-> req[w].role])
    /\ req' = [req EXCEPT ![w] = Idle]
    /\ UNCHANGED <<user, edited, now>>

RoleLog(w) ==
    /\ req[w].pc = "log"
    /\ log' = Append(log, [target |-> req[w].user, previous |-> req[w].previous,
                           next |-> req[w].role])
    /\ req' = [req EXCEPT ![w] = Idle]
    /\ UNCHANGED <<user, edited, now>>

Die(w) ==
    /\ req[w] # Idle /\ req' = [req EXCEPT ![w] = Idle]
    /\ edited' = IF req[w].pc = "log" THEN edited \cup {req[w].user} ELSE edited
    /\ UNCHANGED <<user, log, now>>

Tick == now < MaxTime /\ now' = now + 1 /\ UNCHANGED <<user, log, req, edited>>

Next ==
    \/ \E u \in Users, roles \in RoleLists :
         \/ \E password \in BOOLEAN : create(u, roles, password)
         \/ \E active \in BOOLEAN : update(u, roles, active)
    \/ \E u \in Users, status \in {"pending", "ready"} : SetProfile(u, status)
    \/ \E w \in Workers :
         \/ \E u \in Users, role \in {"client", "employee"} : RoleRead(w, u, role)
         \/ RoleWrite(w) \/ RoleLog(w) \/ Die(w)
    \/ Tick

Spec == Init /\ [][Next]_vars

\* One change of a role at a time, from its reading to its entry.
Serial ==
    IF \E w \in Workers : req[w] # Idle THEN \E w \in Workers : RoleWrite(w) \/ RoleLog(w) ELSE Next

-----------------------------------------------------------------------------
(***************************************************************************)
(* Lists.                                                                  *)
(***************************************************************************)

deriveStatus(u) ==
    CASE ~user[u].active -> "suspended"
      [] user[u].active /\ ~user[u].password -> "invited"
      [] OTHER -> "active"

\* Slip: an account without a password counts as active.
applyUserStatusFilterLoose(status) ==
    {u \in Stored : CASE status = "active" -> user[u].active
                      [] status = "invited" -> ~user[u].password
                      [] status = "suspended" -> ~user[u].active
                      [] OTHER -> TRUE}

applyUserStatusFilter(status) ==
    {u \in Stored : CASE status = "active" -> user[u].active /\ user[u].password
                      [] status = "invited" -> ~user[u].password
                      [] status = "suspended" -> ~user[u].active
                      [] OTHER -> TRUE}

listClients(status) == {u \in applyUserStatusFilter(status) : Has(u, "client")}
listEmployees(status) == {u \in applyUserStatusFilter(status) : Has(u, "employee")}
listEmployeeUsers(status) ==
    {u \in applyUserStatusFilter(status) : Has(u, "employee") \/ Has(u, "admin")}

Profiled == {u \in Stored : user[u].profile # "none"}
listProviders(status) ==
    {u \in Profiled : CASE status = "active" -> user[u].profile = "ready" /\ user[u].active
                        [] status = "pending" -> user[u].profile # "ready"
                        [] status = "suspended" -> ~user[u].active
                        [] OTHER -> TRUE}

(***************************************************************************)
(* The overview.                                                           *)
(***************************************************************************)

Count(role) == Cardinality({u \in Stored : Has(u, role)})
providersReady == Cardinality({u \in Profiled : user[u].profile = "ready" /\ user[u].active})
providersSuspended == Cardinality({u \in Profiled : ~user[u].active})

\* Slip: the suspended providers are not taken off.
providersPendingTotal == Count("provider") - providersReady

providersPending ==
    Max({Count("provider") - providersReady - providersSuspended, 0})

\* A bucket per week, counting from six weeks ago, and one for every later week in
\* which somebody came, the present one.
Since == now - WEEKS
Recent == {u \in Stored : user[u].created >= Since}

\* Slip: whoever came this week has no bucket.
timelinePast ==
    [week \in Since..(now - 1) |->
        [clients |-> Cardinality({u \in Recent : user[u].created = week /\ Has(u, "client")}),
         providers |-> Cardinality({u \in Recent : user[u].created = week /\ Has(u, "provider")})]]

timeline ==
    [week \in (Since..(now - 1)) \cup {user[u].created : u \in Recent} |->
        [clients |-> Cardinality({u \in Recent : user[u].created = week /\ Has(u, "client")}),
         providers |-> Cardinality({u \in Recent : user[u].created = week /\ Has(u, "provider")})]]

-----------------------------------------------------------------------------
TypeOK ==
    /\ \A u \in Users :
         /\ user[u].roles \in RoleLists \cup {<< >>, <<"client">>, <<"employee">>}
         /\ user[u].active \in BOOLEAN /\ user[u].password \in BOOLEAN
         /\ user[u].profile \in {"none", "pending", "ready"}
         /\ user[u].created \in 0..now
    /\ Len(log) <= MaxLog + Cardinality(Workers) /\ edited \subseteq Users

\* The list of a status has everybody who shows it; and only those, but that somebody
\* suspended without a password is also in the list of the invited.
StatusFilters ==
    \A u \in Stored, s \in {"active", "invited", "suspended"} :
        /\ deriveStatus(u) = s => u \in applyUserStatusFilter(s)
        /\ u \in applyUserStatusFilter(s) =>
             deriveStatus(u) = s \/ (s = "invited" /\ ~user[u].active)

\* Once a change of role is answered, the role a user has is that of a log entry, unless
\* it is the one the account was made with, or was changed by users.update.
RolesAreLogged ==
    \A u \in Stored \ edited :
        (\A w \in Workers : req[w].user # u) =>
            \/ \A i \in DOMAIN log : log[i].target # u
            \/ \E i \in DOMAIN log : log[i].target = u /\ <<log[i].next>> = user[u].roles

EntriesOf(u) == {i \in DOMAIN log : log[i].target = u}

\* One request at a time, the entries of a user are a chain that ends in the roles the
\* user has, unless somebody changed them otherwise.
LogIsChain ==
    \A u \in Stored \ edited, i \in DOMAIN log :
        log[i].target = u =>
            IF \E j \in EntriesOf(u) : j > i
              THEN \A j \in EntriesOf(u) :
                     j > i /\ (\A k \in EntriesOf(u) : k > i => k >= j) =>
                         log[j].previous = <<log[i].next>>
              ELSE (\A w \in Workers : req[w].user # u) => <<log[i].next>> = user[u].roles

\* The overview's providers are all of them, as long as everybody with a profile still
\* has the role: the pending ones are those whose profile is not ready.
ProvidersAddUp ==
    (\A u \in Profiled : Has(u, "provider")) =>
        providersPending = Cardinality({u \in Stored :
                               Has(u, "provider") /\ user[u].profile # "ready"
                               /\ (user[u].active \/ user[u].profile = "none")})

\* Nobody who came since then is missing in the timeline, this week's included.
TimelineComplete ==
    MapThenSumSet(LAMBDA week : timeline[week].clients, DOMAIN timeline)
        = Cardinality({u \in Recent : Has(u, "client")})

=============================================================================
