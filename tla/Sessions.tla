------------------------------- MODULE Sessions -------------------------------
(***************************************************************************)
(* Accounts and their sessions (auth.service.ts, refresh-tokens.service.ts,*)
(* users.service.ts, the sessions of security.service.ts): registration,   *)
(* login with a password or at an identity provider, rotation of refresh   *)
(* tokens, logout, revocation by operators, and the limit on how many      *)
(* sessions an account keeps.                                              *)
(*                                                                         *)
(* A session is a row of RefreshToken.  Whether an account is active is    *)
(* looked at by none of these operations and is not part of the model.     *)
(***************************************************************************)
EXTENDS Integers, Sequences, FiniteSets

CONSTANTS
    Emails,     \* accounts are told apart by their address, in lower case
    Tokens,     \* bound: ids of refresh tokens
    Limit,      \* maxRefreshTokens, 5 unless configured
    Lifetime,   \* jwtRefreshExpiresIn
    MaxTime, MaxAttempts,   \* bounds: the clock, the logins counted
    Workers, None

SessionsAssumption ==
    /\ Limit \in Nat \ {0} /\ Lifetime \in Nat \ {0}
    /\ MaxTime \in Nat /\ MaxAttempts \in Nat
    /\ None \notin Emails \cup Tokens \cup {"rotation", "limit", "logout", "operator"}
    /\ IsFiniteSet(Tokens) /\ IsFiniteSet(Workers)

VARIABLES
    user,       \* email |-> the account
    token,      \* id |-> the session's row
    rows,       \* the ids in the order of createdAt
    audit,      \* email |-> login attempts recorded
    now,
    req,        \* worker |-> the request it handles
    died        \* accounts of which a request died between issue and limit

vars == <<user, token, rows, audit, now, req, died>>

NoUser == [known |-> FALSE, password |-> FALSE, welcomed |-> 0]
NoToken == [user |-> None, parent |-> None, op |-> None, expiresAt |-> 0,
            revokedBy |-> None]
NoAudit == [password |-> 0, oauth |-> 0, failed |-> 0]
Idle == [pc |-> "idle", op |-> None, user |-> None, token |-> None, old |-> {}]

Init ==
    /\ user = [e \in Emails |-> NoUser]
    /\ token = [t \in Tokens |-> NoToken]
    /\ rows = << >>
    /\ audit = [e \in Emails |-> NoAudit]
    /\ now = 0 /\ died = {}
    /\ req = [w \in Workers |-> Idle]

Known(t) == token[t].user # None
Live(t) == Known(t) /\ token[t].revokedBy = None

\* Bound: a request starts while there is an id left for it.
Start(w, op, e, t, pc) ==
    /\ Cardinality({v \in Workers : req[v].pc \in {"create", "record", "issue", "rotate"}})
         < Cardinality({u \in Tokens : ~Known(u)})
    /\ req' = [req EXCEPT ![w] = [Idle EXCEPT !.pc = pc, !.op = op, !.user = e, !.token = t]]
Goto(w, pc) == req' = [req EXCEPT ![w].pc = pc]
Done(w) == req' = [req EXCEPT ![w] = Idle]

recordLoginAttempt(e, what) ==
    audit' = [audit EXCEPT ![e][what] = IF @ < MaxAttempts THEN @ + 1 ELSE @]

-----------------------------------------------------------------------------
(***************************************************************************)
(* Accounts.                                                               *)
(***************************************************************************)

findByEmail(e) == user[e].known

\* The address is unique: the second of two creations throws, and a login at an
\* identity provider then counts as failed.  Clients and companies are welcomed.
\* Slip: an account that exists by now is written over.
CreateOrUpdate(w) ==
    LET e == req[w].user IN
    /\ req[w].pc = "create"
    /\ \E client \in BOOLEAN :
         /\ req[w].op = "oauth" => client
         /\ user' = [user EXCEPT ![e] =
                      [known |-> TRUE, password |-> req[w].op = "register",
                       welcomed |-> @.welcomed + IF client THEN 1 ELSE 0]]
    /\ Goto(w, "issue")
    /\ UNCHANGED <<audit, token, rows, now, died>>

create(w) ==
    LET e == req[w].user IN
    /\ req[w].pc = "create"
    /\ \/ /\ user[e].known /\ Done(w)
          /\ IF req[w].op = "oauth" THEN recordLoginAttempt(e, "failed") ELSE UNCHANGED audit
          /\ UNCHANGED user
       \/ /\ ~user[e].known
          /\ \E client \in BOOLEAN :
               /\ req[w].op = "oauth" => client
               /\ user' = [user EXCEPT ![e] =
                            [known |-> TRUE, password |-> req[w].op = "register",
                             welcomed |-> IF client THEN 1 ELSE 0]]
          /\ Goto(w, "issue") /\ UNCHANGED audit
    /\ UNCHANGED <<token, rows, now, died>>

register(w, e) ==
    /\ req[w] = Idle /\ ~findByEmail(e)
    /\ Start(w, "register", e, None, "create")
    /\ UNCHANGED <<user, token, rows, audit, now, died>>

\* Nobody of that address, one without a password, or the wrong password.
LoginFails(e) ==
    /\ recordLoginAttempt(e, "failed")
    /\ UNCHANGED <<user, token, rows, now, req, died>>

\* Slip: the attempt is recorded after the tokens are issued.
LoginUnrecorded(w, e) ==
    /\ req[w] = Idle /\ findByEmail(e) /\ user[e].password
    /\ Start(w, "password", e, None, "issue")
    /\ UNCHANGED <<user, token, rows, audit, now, died>>

login(w, e) ==
    /\ req[w] = Idle /\ findByEmail(e) /\ user[e].password
    /\ Start(w, "password", e, None, "record")
    /\ UNCHANGED <<user, token, rows, audit, now, died>>

LoginRecord(w) ==
    /\ req[w].pc = "record" /\ req[w].op = "password"
    /\ recordLoginAttempt(req[w].user, "password")
    /\ Goto(w, "issue")
    /\ UNCHANGED <<user, token, rows, now, died>>

\* Slip: the account is taken to exist.
OAuthLoginOnly(w, e) ==
    /\ req[w] = Idle
    /\ Start(w, "oauth", e, None, "issue")
    /\ UNCHANGED <<user, token, rows, audit, now, died>>

\* loginWithGoogle, loginWithApple: handleOAuthLogin first, the attempt afterwards;
\* what the identity provider does not confirm fails as a login does.
handleOAuthLogin(w, e) ==
    /\ req[w] = Idle
    /\ Start(w, "oauth", e, None, IF findByEmail(e) THEN "issue" ELSE "create")
    /\ UNCHANGED <<user, token, rows, audit, now, died>>

\* A record that cannot be written turns the login into a failed one; its session stays.
OAuthRecord(w) ==
    /\ req[w].pc = "record" /\ req[w].op = "oauth"
    /\ \E what \in {"oauth", "failed"} : recordLoginAttempt(req[w].user, what)
    /\ Done(w)
    /\ UNCHANGED <<user, token, rows, now, died>>

-----------------------------------------------------------------------------
(***************************************************************************)
(* Tokens.                                                                 *)
(***************************************************************************)

\* issueTokens, part 1.
IssueToken(w) ==
    /\ req[w].pc = "issue"
    /\ \E t \in Tokens :
         /\ ~Known(t)
         /\ token' = [token EXCEPT ![t] =
                        [user |-> req[w].user, parent |-> req[w].token, op |-> req[w].op,
                         expiresAt |-> now + Lifetime, revokedBy |-> None]]
         /\ rows' = Append(rows, t)
    /\ Goto(w, "limit")
    /\ UNCHANGED <<user, audit, now, died>>

\* issueTokens, part 2: the rows of the account beyond the newest are revoked, the
\* revoked and expired ones counted along.
RowsSince(i) == {j \in DOMAIN rows : j >= i /\ token[rows[j]].user = token[rows[i]].user}
Newest(e, limit) ==
    {rows[i] : i \in {k \in DOMAIN rows : token[rows[k]].user = e
                                        /\ Cardinality(RowsSince(k)) <= limit}}
LiveOf(e) == {t \in Tokens : token[t].user = e /\ Live(t)}

AfterIssue(op) == IF op = "oauth" THEN "record" ELSE "idle"

Answer(w) ==
    IF AfterIssue(req[w].op) = "idle" THEN Done(w)
    ELSE req' = [req EXCEPT ![w].pc = AfterIssue(req[w].op), ![w].old = {}]

\* Slip: one session more than the limit is kept.
enforceOneMore(w) ==
    LET e == req[w].user
        toRevoke == LiveOf(e) \ Newest(e, Limit + 1) IN
    /\ req[w].pc = "limit"
    /\ IF toRevoke = {} THEN Answer(w)
       ELSE req' = [req EXCEPT ![w].pc = "revoke", ![w].old = toRevoke]
    /\ died' = died \ {e}
    /\ UNCHANGED <<user, token, rows, audit, now>>

enforceLimit(w) ==
    LET e == req[w].user
        toRevoke == LiveOf(e) \ Newest(e, Limit) IN
    /\ req[w].pc = "limit"
    /\ IF toRevoke = {} THEN Answer(w)
       ELSE req' = [req EXCEPT ![w].pc = "revoke", ![w].old = toRevoke]
    /\ died' = died \ {e}
    /\ UNCHANGED <<user, token, rows, audit, now>>

Revoked(S, by) ==
    [t \in Tokens |-> IF t \in S /\ token[t].revokedBy = None
                        THEN [token[t] EXCEPT !.revokedBy = by] ELSE token[t]]

EnforceWrite(w) ==
    /\ req[w].pc = "revoke"
    /\ token' = Revoked(req[w].old, "limit")
    /\ Answer(w)
    /\ UNCHANGED <<user, rows, audit, now, died>>

\* Slip: a revoked token passes.
validateUnexpired(t) == Known(t) /\ token[t].expiresAt > now

validate(t) == Live(t) /\ token[t].expiresAt > now

refresh(w, t) ==
    /\ req[w] = Idle /\ validate(t)
    /\ Start(w, "refresh", token[t].user, t, "rotate")
    /\ UNCHANGED <<user, token, rows, audit, now, died>>

RefreshRotate(w) ==
    /\ req[w].pc = "rotate"
    /\ token' = Revoked({req[w].token}, "rotation")
    /\ Goto(w, "issue")
    /\ UNCHANGED <<user, rows, audit, now, died>>

\* A token that does not verify any more is ignored.
logout(t) ==
    /\ Known(t) /\ token[t].expiresAt > now
    /\ token' = Revoked({t}, "logout")
    /\ UNCHANGED <<user, rows, audit, now, req, died>>

revokeSession(t) ==
    /\ Known(t)
    /\ token' = Revoked({t}, "operator")
    /\ UNCHANGED <<user, rows, audit, now, req, died>>

\* What operators see, and the list of a status.
mapSession(t) ==
    CASE token[t].revokedBy # None -> "revoked"
      [] token[t].revokedBy = None /\ token[t].expiresAt <= now -> "expired"
      [] OTHER -> "active"

\* Slip: the revoked ones are in the list of the expired.
listSessionsLoose(status) ==
    {t \in Tokens :
        /\ Known(t)
        /\ status = "revoked" => ~Live(t)
        /\ status = "expired" => token[t].expiresAt < now
        /\ status = "active" => Live(t) /\ token[t].expiresAt > now}

listSessions(status) ==
    {t \in Tokens :
        /\ Known(t)
        /\ status = "revoked" => ~Live(t)
        /\ status = "expired" => Live(t) /\ token[t].expiresAt < now
        /\ status = "active" => Live(t) /\ token[t].expiresAt > now}

Tick ==
    /\ now < MaxTime /\ now' = now + 1
    /\ UNCHANGED <<user, token, rows, audit, req, died>>

\* The process or its database goes away in the middle of a request.
Die(w) ==
    /\ req[w] # Idle /\ Done(w)
    /\ died' = IF req[w].pc \in {"limit", "revoke"} THEN died \cup {req[w].user} ELSE died
    /\ UNCHANGED <<user, token, rows, audit, now>>

Step(w) ==
    \/ create(w) \/ LoginRecord(w) \/ OAuthRecord(w)
    \/ IssueToken(w) \/ enforceLimit(w) \/ EnforceWrite(w) \/ RefreshRotate(w)

Arrive(w) ==
    \/ \E e \in Emails : register(w, e) \/ login(w, e) \/ handleOAuthLogin(w, e)
    \/ \E t \in Tokens : refresh(w, t)

Others ==
    \/ \E e \in Emails : LoginFails(e)
    \/ \E t \in Tokens : logout(t) \/ revokeSession(t)
    \/ Tick

Next == (\E w \in Workers : Step(w) \/ Arrive(w) \/ Die(w)) \/ Others

Spec == Init /\ [][Next]_vars

\* One request at a time, from its first step to its answer.
Serial == IF \E w \in Workers : req[w] # Idle THEN \E w \in Workers : Step(w) ELSE Next

-----------------------------------------------------------------------------
TypeOK ==
    /\ user \in [Emails -> [known : BOOLEAN, password : BOOLEAN, welcomed : Nat]]
    /\ token \in [Tokens -> [user : Emails \cup {None}, parent : Tokens \cup {None},
                             op : {None, "register", "password", "oauth", "refresh"},
                             expiresAt : 0..(MaxTime + Lifetime),
                             revokedBy : {None, "rotation", "limit", "logout", "operator"}]]
    /\ rows \in Seq({t \in Tokens : Known(t)})
    /\ \A i, j \in DOMAIN rows : rows[i] = rows[j] => i = j
    /\ Len(rows) = Cardinality({t \in Tokens : Known(t)})
    /\ \A t \in Tokens : Known(t) => user[token[t].user].known
    /\ now \in 0..MaxTime /\ died \subseteq Emails

\* However requests of one account interleave, once they are answered only its newest
\* sessions are live; if one died after issueTokens stored its token, the next
\* enforceLimit makes up for it.
Issues(e) == \E w \in Workers : req[w].user = e /\ req[w].pc \in {"limit", "revoke"}
LimitKept ==
    \A e \in Emails \ died :
        ~Issues(e) => LiveOf(e) \subseteq Newest(e, Limit)

\* Two first logins of the same address make one account and one welcome.
WelcomedOnce == \A e \in Emails : user[e].welcomed <= 1

\* No session of a password login without a recorded attempt, and no recorded attempt
\* of a login at an identity provider without its session.
SessionsBy(e, op) == Cardinality({t \in Tokens : token[t].user = e /\ token[t].op = op})
AttemptsAndSessions ==
    \A e \in Emails :
        /\ audit[e].password < MaxAttempts => SessionsBy(e, "password") <= audit[e].password
        /\ audit[e].oauth <= SessionsBy(e, "oauth")

\* One request at a time, a refresh token is exchanged once, and only if nothing but
\* that exchange revoked it.
RotatedOnce ==
    \A t, u \in Tokens :
        token[t].parent # None =>
            /\ token[token[t].parent].revokedBy = "rotation"
            /\ token[token[t].parent].user = token[t].user
            /\ token[u].parent = token[t].parent => t = u

\* The list of a status has the sessions that show it, but at the very moment of
\* expiry, when a session is in neither.
ListedAsShown ==
    \A t \in Tokens, s \in {"active", "expired", "revoked"} :
        Known(t) =>
            /\ t \in listSessions(s) => mapSession(t) = s
            /\ mapSession(t) = s /\ token[t].expiresAt # now => t \in listSessions(s)

=============================================================================
