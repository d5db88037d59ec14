---------------------------- MODULE WebSessions ----------------------------
(***************************************************************************)
(* Sign-in, sessions and roles of one user: credentials are checked behind *)
(* the rate limit, a user of several organizations selects one with a      *)
(* pending-login token, a session is a row and a signed token that names   *)
(* it, and every request looks up its row and the current membership.      *)
(*                                                                         *)
(* Time runs in half seconds: tokens hold whole seconds, rows do not.  An  *)
(* action is one database call of a request with the computation before it *)
(* that needs no other; a request may stop anywhere.                       *)
(***************************************************************************)
EXTENDS RateLimiter, TLC

CONSTANTS Org,         \* the organizations the user may be a member of
          Role,        \* the roles used, of ROLE_RANK
          Request,     \* concurrent requests of the user
          Session,     \* session ids; bounds the sessions created
          SessionTtl,  \* DEFAULT_SESSION_TTL_SECONDS
          PendingTtl,  \* DEFAULT_PENDING_LOGIN_TTL_SECONDS
          MaxGuesses,  \* bound: how many sign-ins are tried with a wrong password
          MaxSignIns,  \* bound: how many with the right one
          MaxTime,     \* bound: where the clock stops
          MaxChanges   \* bound: how often memberships change

ASSUME SessionAssumption ==
    /\ Role \subseteq {"VIEWER", "ANALYST", "ADMIN", "OWNER"}
    /\ {SessionTtl, PendingTtl, MaxGuesses, MaxSignIns, MaxTime, MaxChanges} \subseteq Nat

VARIABLES
    password,   \* whether the requests present the password of the user
    membership, \* the role of the user in each organization, "NONE" without a Membership row
    rows,       \* AuthSession
    pending,    \* exp of the pending-login tokens issued
    closed,     \* sessions whose logout was answered
    requests,   \* the requests being served
    changes     \* number of changes of memberships so far

vars == <<clock, limiterVars, password, membership, rows, pending, closed, requests, changes>>

RoleRank == [VIEWER |-> 1, ANALYST |-> 2, ADMIN |-> 3, OWNER |-> 4]
Second(time) == time \div 2

\* A row and the token created from it: exp is the second that expiresAt lies in.
Row == [id : Session, org : Org, role : Role, expiresAt : Nat, revoked : BOOLEAN]
Exp(row) == Second(row.expiresAt)

\* A request: what it wants, where it stands (the database call that comes next),
\* the clock it read, and what it found.  The last two are history: ended, that its
\* session was over when it began, and the memberships held since then.
Steps == {"limit", "user", "create", "revoke", "session", "membership", "served"}
RequestState ==
    [by : Request, step : Steps, now : Nat, id : Session \cup {"none"},
     org : Org \cup {"none"}, role : Role \cup {"NONE"}, ended : BOOLEAN,
     held : SUBSET (Org \X Role)]

Held == {<<g, membership[g]>> : g \in {h \in Org : membership[h] # "NONE"}}

\* Without the password nothing but the rate limit is reached; with it, the storage
\* of the rate limit does not matter.
Init ==
    /\ LimiterInit
    /\ password \in BOOLEAN
    /\ password => storage = "database"
    /\ membership \in [Org -> Role \cup {"NONE"}]
    /\ ~password => membership = [g \in Org |-> "NONE"]
    /\ rows = {} /\ pending = {} /\ closed = {} /\ requests = {} /\ changes = 0

Begin(r, step, id, org, role, ended) ==
    /\ \A q \in requests : q.by # r
    /\ requests' = requests \cup
           {[by |-> r, step |-> step, now |-> clock, id |-> id, org |-> org,
             role |-> role, ended |-> ended, held |-> Held]}

GoTo(q, step, org, role) ==
    requests' = (requests \ {q}) \cup {[q EXCEPT !.step = step, !.org = org, !.role = role]}

End(q) == requests' = requests \ {q}

-----------------------------------------------------------------------------
(* Signing in.                                                             *)

\* POST with credentials: the clock of the rate limit check is read first.
Login(r) ==
    /\ Len(checks) < IF password THEN MaxSignIns ELSE MaxGuesses
    /\ Begin(r, "limit", "none", "none", "NONE", FALSE)
    /\ UNCHANGED <<clock, limiterVars, password, membership, rows, pending, closed, changes>>

CheckLoginRateLimit(q) ==
    /\ q.step = "limit"
    /\ Check(q.now)
    /\ IF checks'[Len(checks')].allowed THEN GoTo(q, "user", "none", "NONE") ELSE End(q)
    /\ UNCHANGED <<clock, password, membership, rows, pending, closed, changes>>

\* selectEligibleMembership of the user just loaded.  Without the password or a
\* membership the request is refused; several memberships yield a pending token.
SelectMembership(q) ==
    LET orgs == {h[1] : h \in Held} IN
    /\ q.step = "user" /\ q.org = "none"
    /\ \/ /\ ~password \/ orgs = {}
          /\ End(q) /\ UNCHANGED pending
       \/ /\ password /\ Cardinality(orgs) = 1
          /\ \E g \in orgs : GoTo(q, "create", g, membership[g])
          /\ UNCHANGED pending
       \/ /\ password /\ Cardinality(orgs) > 1
          /\ pending' = pending \cup {Second(clock) + PendingTtl}
          /\ End(q)
    /\ UNCHANGED <<clock, limiterVars, password, membership, rows, closed, changes>>

\* POST of a selected organization, with a pending token that is verified at once.
SelectOrganization(r, g) ==
    /\ \E exp \in pending : exp > Second(clock)
    /\ Begin(r, "user", "none", g, "NONE", FALSE)
    /\ UNCHANGED <<clock, limiterVars, password, membership, rows, pending, closed, changes>>

\* finalizeSelectedOrganizationSession: the memberships are loaded again.
FinalizeSelection(q) ==
    /\ q.step = "user" /\ q.org # "none"
    /\ IF membership[q.org] = "NONE" THEN End(q)
       ELSE GoTo(q, "create", q.org, membership[q.org])
    /\ UNCHANGED <<clock, limiterVars, password, membership, rows, pending, closed, changes>>

\* buildAuthenticatedLoginResponse: the row, then the token of the row.
CreateSession(q) ==
    /\ q.step = "create"
    /\ \E id \in Session \ {row.id : row \in rows} :
           rows' = rows \cup {[id |-> id, org |-> q.org, role |-> q.role,
                               expiresAt |-> clock + 2 * SessionTtl, revoked |-> FALSE]}
    /\ End(q)
    /\ UNCHANGED <<clock, limiterVars, password, membership, pending, closed, changes>>

-----------------------------------------------------------------------------
(* Requests with a session token, and signing out.                         *)

Verified(row) == Exp(row) > Second(clock)

\* A page, action or route that needs a role: the token is verified at once.
Visit(r, row, required) ==
    /\ Verified(row)
    /\ Begin(r, "session", row.id, row.org, required, row.id \in closed \/ clock >= row.expiresAt)
    /\ UNCHANGED <<clock, limiterVars, password, membership, rows, pending, closed, changes>>

\* Mutant: a revoked session is found as well.
LiveUntilExpiry(row, now) == row.expiresAt > now

Live(row, now) == ~row.revoked /\ row.expiresAt > now

\* resolveAuthContext, the lookup of the session.
FindSession(q) ==
    /\ q.step = "session"
    /\ IF \E row \in rows : row.id = q.id /\ Live(row, q.now)
       THEN GoTo(q, "membership", q.org, q.role) ELSE End(q)
    /\ UNCHANGED <<clock, limiterVars, password, membership, rows, pending, closed, changes>>

\* Mutant: the role that the session was created with.
RoleOfSession(q) == (CHOOSE row \in rows : row.id = q.id).role

\* The role of the Membership row.
RoleOf(q) == membership[q.org]

\* resolveAuthContext, the lookup of the membership, and hasMinimumRole.
FindMembership(q) ==
    /\ q.step = "membership"
    /\ IF RoleOf(q) # "NONE" /\ RoleRank[RoleOf(q)] >= RoleRank[q.role]
       THEN GoTo(q, "served", q.org, RoleOf(q)) ELSE End(q)
    /\ UNCHANGED <<clock, limiterVars, password, membership, rows, pending, closed, changes>>

Answer(q) ==
    /\ q.step = "served"
    /\ End(q)
    /\ UNCHANGED <<clock, limiterVars, password, membership, rows, pending, closed, changes>>

\* Logout with a token that is no longer valid revokes nothing.
LogoutUnverified(row) ==
    /\ ~Verified(row)
    /\ closed' = closed \cup {row.id}
    /\ UNCHANGED <<clock, limiterVars, password, membership, rows, pending, requests, changes>>

Logout(r, row) ==
    /\ Verified(row)
    /\ Begin(r, "revoke", row.id, row.org, row.role, FALSE)
    /\ UNCHANGED <<clock, limiterVars, password, membership, rows, pending, closed, changes>>

\* revokeAuthSessionToken, and the answer.
RevokeSession(q) ==
    /\ q.step = "revoke"
    /\ rows' = {IF row.id = q.id THEN [row EXCEPT !.revoked = TRUE] ELSE row : row \in rows}
    /\ closed' = closed \cup {q.id}
    /\ End(q)
    /\ UNCHANGED <<clock, limiterVars, password, membership, pending, changes>>

-----------------------------------------------------------------------------
\* Memberships are not administered by this program.
ChangeMembership(g) ==
    /\ password
    /\ changes < MaxChanges
    /\ changes' = changes + 1
    /\ \E role \in (Role \cup {"NONE"}) \ {membership[g]} :
           membership' = [membership EXCEPT ![g] = role]
    /\ requests' = {[q EXCEPT !.held = @ \cup Held'] : q \in requests}
    /\ UNCHANGED <<clock, limiterVars, password, rows, pending, closed>>

Tick ==
    /\ clock < MaxTime
    /\ clock' = clock + 1
    /\ UNCHANGED <<limiterVars, password, membership, rows, pending, closed, requests, changes>>

Serve(q) ==
    \/ CheckLoginRateLimit(q) \/ SelectMembership(q) \/ FinalizeSelection(q) \/ CreateSession(q)
    \/ FindSession(q) \/ FindMembership(q) \/ Answer(q) \/ RevokeSession(q)

Next ==
    \/ \E r \in Request : Login(r)
    \/ \E r \in Request, g \in Org : SelectOrganization(r, g)
    \/ \E r \in Request, row \in rows, required \in Role : Visit(r, row, required)
    \/ \E r \in Request, row \in rows : Logout(r, row)
    \/ \E row \in rows : LogoutUnverified(row)
    \/ \E q \in requests : Serve(q)
    \/ \E g \in Org : ChangeMembership(g)
    \/ Tick

Spec == Init /\ [][Next]_vars

Symmetry == Permutations(Org) \cup Permutations(Request) \cup Permutations(Session)

-----------------------------------------------------------------------------
AccessTypeOK ==
    /\ LimiterTypeOK
    /\ password \in BOOLEAN
    /\ membership \in [Org -> Role \cup {"NONE"}]
    /\ rows \subseteq Row /\ pending \subseteq Nat /\ closed \subseteq Session
    /\ requests \subseteq RequestState

\* A session that is over stays over: a request that begins after the answer to a
\* logout, or after the session expired, is not served, whatever rows and tokens
\* are left of it (session-store.ts, updateMany; server.ts, findFirst).
EndedNotServed == \A q \in requests : q.step = "served" => ~q.ended

\* Whoever is served, or gets a session, acts in a role that the user held in that
\* organization at some time since the request began: never in one remembered from
\* a pending token, a session row or a session token (server.ts, findUnique).
RolesAreHeld ==
    \A q \in requests : q.step \in {"create", "served"} => <<q.org, q.role>> \in q.held
=============================================================================
