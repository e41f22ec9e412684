------------------------------- MODULE Sessions -------------------------------
(***************************************************************************)
(* Sessions of the panel: SessionService and SQLSessionStore of            *)
(* internal/auth, the handlers of login and logout, and RequirePermission  *)
(* of internal/server in front of every protected page.                    *)
(*                                                                         *)
(* Requests run concurrently; each database statement, each wait for a     *)
(* password slot and each commit is a step, and users are deactivated and  *)
(* roles assigned (outside of the panel) in between.  The panel may crash: *)
(* its requests end and PostgreSQL rolls their transactions back.          *)
(*                                                                         *)
(* A session's identifier also stands for its random token and the hash    *)
(* the table is searched by.                                               *)
(***************************************************************************)
EXTENDS Integers, FiniteSets, Functions

CONSTANTS
    Requests,     \* requests in flight
    Users,        \* rows of users
    Nobody,       \* an e-mail address without a user
    Tokens,       \* bound of the sessions ever created
    Roles,
    Permissions,
    Grants,       \* role_permissions: per role, its permissions
    MaxChecks,    \* maxConcurrentPasswordChecks
    Duration,     \* DefaultSessionDuration
    MaxNow        \* bound of the clock

ASSUME SessionAssumptions ==
    /\ Nobody \notin Users
    /\ Grants \in [Roles -> SUBSET Permissions]
    /\ MaxChecks \in Nat \ {0}
    /\ Duration \in Nat \ {0}
    /\ MaxNow \in Nat
    /\ IsFiniteSet(Requests)

VARIABLES
    now,        \* the clock
    active,     \* per user, users.is_active
    assigned,   \* per user, the roles of user_roles
    sessions,   \* the committed rows of sessions
    audits,     \* per session, its login and logout events in audit_events
    slots,      \* how many tokens passwordSlots holds
    request,    \* per request, its handler's position and what it has read
    issued,     \* the tokens browsers were given, with the user who logged in
    loggedOut,  \* history: tokens whose logout was answered with success
    grounds     \* history: per panel request, what has held since it arrived

tables == <<sessions, audits>>
people == <<active, assigned>>
browsers == <<issued, loggedOut>>
vars == <<now, people, tables, slots, request, browsers, grounds>>

Idle == [stage |-> "idle"]

\* What a handler knows at each of its stages.
Request ==
    {Idle}
    \cup [stage : {"waiting", "checking"}, user : Users, active : BOOLEAN]
    \cup [stage : {"waiting", "checking"}, user : {Nobody}, active : {FALSE}]
    \cup [stage : {"creating"}, user : Users, expires : Nat]
    \cup [stage : {"logout", "deleting"}, token : DOMAIN issued]
    \cup [stage : {"arrived"}, token : DOMAIN issued, permission : Permissions, at : 0..now]
    \cup [stage : {"validated", "serving"}, token : DOMAIN issued,
          permission : Permissions, user : Users]

Init ==
    /\ now = 0
    /\ active = [u \in Users |-> TRUE]
    /\ assigned \in [Users -> SUBSET Roles]
    /\ sessions = [t \in {} |-> 0]
    /\ audits = [t \in Tokens |-> [login |-> 0, logout |-> 0]]
    /\ slots = 0
    /\ request = [q \in Requests |-> Idle]
    /\ issued = [t \in {} |-> 0]
    /\ loggedOut = {}
    /\ grounds = [q \in Requests |-> {}]

Goto(q, r) == request' = [request EXCEPT ![q] = r]

-----------------------------------------------------------------------------
(* SessionService.Login *)

Fresh == {t \in Tokens : audits[t].login = 0}

\* Bound: a login begins only while there is a token for every login at work.
LoginsLeft ==
    Cardinality({q \in Requests : request[q].stage \in {"waiting", "checking", "creating"}})
        < Cardinality(Fresh)

\* FindUserByEmail: the password check comes later and uses what was read here.
FindUser(q) ==
    /\ request[q] = Idle
    /\ LoginsLeft
    /\ \E u \in Users \cup {Nobody} :
           Goto(q, [stage |-> "waiting", user |-> u, active |-> u # Nobody /\ active[u]])
    /\ UNCHANGED <<now, people, tables, slots, browsers>>

\* Mutant: the check does not wait for a slot.
AcquireSlotAnyway(q) ==
    /\ request[q].stage = "waiting"
    /\ slots' = slots + 1
    /\ Goto(q, [request[q] EXCEPT !.stage = "checking"])
    /\ UNCHANGED <<now, people, tables, browsers>>

\* runPasswordCheck: unknown users take a slot too, for the dummy check.
AcquireSlot(q) ==
    /\ request[q].stage = "waiting"
    /\ slots < MaxChecks
    /\ slots' = slots + 1
    /\ Goto(q, [request[q] EXCEPT !.stage = "checking"])
    /\ UNCHANGED <<now, people, tables, browsers>>

\* Mutant: a failed login keeps its slot.
CheckPasswordLeaks(q) ==
    /\ request[q].stage = "checking"
    /\ \/ Goto(q, Idle) /\ UNCHANGED slots
       \/ /\ request[q].active
          /\ slots' = slots - 1
          /\ Goto(q, [stage |-> "creating", user |-> request[q].user,
                      expires |-> now + Duration])
    /\ UNCHANGED <<now, people, tables, browsers>>

\* Whether the password is right or not, the slot is given back.  A failed login
\* (or one without randomness) ends here, an active user's goes on.
CheckPassword(q) ==
    /\ request[q].stage = "checking"
    /\ slots' = slots - 1
    /\ \/ Goto(q, Idle)
       \/ /\ request[q].active
          /\ Goto(q, [stage |-> "creating", user |-> request[q].user,
                      expires |-> now + Duration])
    /\ UNCHANGED <<now, people, tables, browsers>>

\* CreateSession: the row and its event are one transaction, with a fresh token
\* that the browser gets unless the commit's answer is lost.
CreateSession(q) ==
    /\ request[q].stage = "creating"
    /\ \E t \in Fresh :
           /\ sessions' = [s \in DOMAIN sessions \cup {t} |->
                              IF s = t THEN [user |-> request[q].user,
                                             expires |-> request[q].expires]
                                       ELSE sessions[s]]
           /\ audits' = [audits EXCEPT ![t].login = @ + 1]
           /\ \/ UNCHANGED issued
              \/ issued' = [s \in DOMAIN issued \cup {t} |->
                               IF s = t THEN request[q].user ELSE issued[s]]
    /\ Goto(q, Idle)
    /\ UNCHANGED <<now, people, slots, loggedOut>>

-----------------------------------------------------------------------------
(* SessionService.Logout: DeleteSessionByTokenHash *)

Logout(q) ==
    /\ request[q] = Idle
    /\ \E t \in DOMAIN issued : Goto(q, [stage |-> "logout", token |-> t])
    /\ UNCHANGED <<now, people, tables, slots, browsers>>

\* Another transaction has deleted the row and not ended yet.
Locked(t) == \E q \in Requests : request[q] = [stage |-> "deleting", token |-> t]

\* Mutant: the DELETE does not wait for the row.
DeleteSessionAnyway(q) ==
    /\ request[q].stage = "logout"
    /\ request[q].token \in DOMAIN sessions
    /\ Goto(q, [request[q] EXCEPT !.stage = "deleting"])
    /\ UNCHANGED <<now, people, tables, slots, browsers>>

DeleteSession(q) ==
    /\ request[q].stage = "logout"
    /\ request[q].token \in DOMAIN sessions
    /\ ~Locked(request[q].token)
    /\ Goto(q, [request[q] EXCEPT !.stage = "deleting"])
    /\ UNCHANGED <<now, people, tables, slots, browsers>>

\* Mutant: a row that is being deleted counts as gone (SKIP LOCKED).
NothingUnlockedToDelete(q) ==
    /\ request[q].stage = "logout"
    /\ request[q].token \notin DOMAIN sessions \/ Locked(request[q].token)
    /\ loggedOut' = loggedOut \cup {request[q].token}
    /\ Goto(q, Idle)
    /\ UNCHANGED <<now, people, tables, slots, issued>>

\* sql.ErrNoRows is success.
NothingToDelete(q) ==
    /\ request[q].stage = "logout"
    /\ request[q].token \notin DOMAIN sessions
    /\ loggedOut' = loggedOut \cup {request[q].token}
    /\ Goto(q, Idle)
    /\ UNCHANGED <<now, people, tables, slots, issued>>

\* The event is recorded and the transaction commits; its answer may be lost.
CommitLogout(q) ==
    /\ request[q].stage = "deleting"
    /\ LET t == request[q].token IN
           /\ sessions' = Restrict(sessions, DOMAIN sessions \ {t})
           /\ audits' = [audits EXCEPT ![t].logout = @ + 1]
           /\ loggedOut' = loggedOut \/ loggedOut' = loggedOut \cup {t}
    /\ Goto(q, Idle)
    /\ UNCHANGED <<now, people, slots, issued>>

-----------------------------------------------------------------------------
(* RequirePermission *)

\* Validate reads the clock before it asks the database.
Arrive(q) ==
    /\ request[q] = Idle
    /\ \E t \in DOMAIN issued, p \in Permissions :
           Goto(q, [stage |-> "arrived", token |-> t, permission |-> p, at |-> now])
    /\ UNCHANGED <<now, people, tables, slots, browsers>>

\* Mutant: the query does not look at the user.
FoundUnjoined(t, at) ==
    /\ t \in DOMAIN sessions
    /\ sessions[t].expires > at

\* FindActiveSession's row.
Found(t, at) ==
    /\ t \in DOMAIN sessions
    /\ sessions[t].expires > at
    /\ active[sessions[t].user]

Validate(q) ==
    /\ request[q].stage = "arrived"
    /\ LET t == request[q].token IN
           IF Found(t, request[q].at)
           THEN Goto(q, [stage |-> "validated", token |-> t,
                         permission |-> request[q].permission, user |-> sessions[t].user])
           ELSE Goto(q, Idle)
    /\ UNCHANGED <<now, people, tables, slots, browsers>>

\* SQLPermissionChecker.HasPermission
HasPermission(u, p) == active[u] /\ \E r \in assigned[u] : p \in Grants[r]

Authorize(q) ==
    /\ request[q].stage = "validated"
    /\ IF HasPermission(request[q].user, request[q].permission)
       THEN Goto(q, [request[q] EXCEPT !.stage = "serving"])
       ELSE Goto(q, Idle)
    /\ UNCHANGED <<now, people, tables, slots, browsers>>

\* The protected handler ends.
Serve(q) ==
    /\ request[q].stage = "serving"
    /\ Goto(q, Idle)
    /\ UNCHANGED <<now, people, tables, slots, browsers>>

-----------------------------------------------------------------------------
(* Failures and the surroundings *)

\* Mutant: a wait for a slot that was given up gives one back.
FailsReleasing(q) ==
    /\ request[q].stage \in {"waiting", "creating", "logout", "deleting",
                             "arrived", "validated"}
    /\ Goto(q, Idle)
    /\ slots' = IF request[q].stage = "waiting" /\ slots > 0 THEN slots - 1 ELSE slots
    /\ UNCHANGED <<now, people, tables, browsers>>

\* The browser goes away or a statement fails: the error path of every stage that
\* has one; a transaction is rolled back.  A password check cannot be interrupted.
Fails(q) ==
    /\ request[q].stage \in {"waiting", "creating", "logout", "deleting",
                             "arrived", "validated"}
    /\ Goto(q, Idle)
    /\ UNCHANGED <<now, people, tables, slots, browsers>>

Crash ==
    /\ \E q \in Requests : request[q] # Idle
    /\ request' = [q \in Requests |-> Idle]
    /\ slots' = 0
    /\ UNCHANGED <<now, people, tables, browsers>>

Administrate ==
    /\ \E u \in Users :
           \/ /\ active' = [active EXCEPT ![u] = ~@]
              /\ UNCHANGED assigned
           \/ /\ \E R \in SUBSET Roles : assigned' = [assigned EXCEPT ![u] = R]
              /\ UNCHANGED active
    /\ UNCHANGED <<now, tables, slots, request, browsers>>

Tick ==
    /\ now < MaxNow
    /\ now' = now + 1
    /\ UNCHANGED <<people, tables, slots, request, browsers>>

-----------------------------------------------------------------------------

\* Steps of a handler that is at work.
Step(q) ==
    \/ AcquireSlot(q) \/ CheckPassword(q) \/ CreateSession(q)
    \/ DeleteSession(q) \/ NothingToDelete(q) \/ CommitLogout(q)
    \/ Validate(q) \/ Authorize(q) \/ Serve(q)

Handle ==
    \/ \E q \in Requests :
           Step(q) \/ FindUser(q) \/ Logout(q) \/ Arrive(q) \/ Fails(q)
    \/ Crash
    \/ Administrate
    \/ Tick

\* What speaks for a panel request in this state: that its browser's session exists,
\* had not expired when it arrived and is an active user's, and that this user has
\* the permission.
SessionHolds(r) ==
    /\ r.stage = "arrived"
    /\ r.token \in DOMAIN sessions
    /\ sessions[r.token].expires > r.at
    /\ active[issued[r.token]]

PermissionHolds(r) ==
    /\ r.stage \in {"arrived", "validated", "serving"}
    /\ HasPermission(issued[r.token], r.permission)

Grounds(r) ==
    {g \in {"session"} : SessionHolds(r)} \cup {g \in {"permission"} : PermissionHolds(r)}

\* History: the grounds there have been since the request arrived.
Remember ==
    grounds' = [q \in Requests |->
                   IF request'[q] = Idle THEN {} ELSE grounds[q] \cup Grounds(request[q])']

Next == Handle /\ Remember

\* A handler at work gets on: Go serves the waiters of a channel, and PostgreSQL those
\* of a row lock, in their order, and password checks and commits end.
Fairness == \A q \in Requests : SF_vars(Step(q) /\ Remember)

Spec == Init /\ [][Next]_vars /\ Fairness

-----------------------------------------------------------------------------
(* Properties *)

SessionRow == [user : Users, expires : Nat]

\* Every variable keeps its type; no more password checks run than there are slots
\* (maxConcurrentPasswordChecks); each takes 64 MB of memory.
TypeOK ==
    /\ now \in Nat
    /\ active \in [Users -> BOOLEAN]
    /\ assigned \in [Users -> SUBSET Roles]
    /\ DOMAIN sessions \subseteq Tokens
    /\ \A t \in DOMAIN sessions : sessions[t] \in SessionRow
    /\ audits \in [Tokens -> [login : Nat, logout : Nat]]
    /\ slots \in 0..MaxChecks
    /\ request \in [Requests -> Request]
    /\ DOMAIN issued \subseteq Tokens
    /\ \A t \in DOMAIN issued : issued[t] \in Users
    /\ loggedOut \subseteq DOMAIN issued
    /\ grounds \in [Requests -> SUBSET {"session", "permission"}]

\* passwordSlots holds a token for each check that runs: slots neither leak on an
\* error path nor are given back twice.
SlotsHonest == slots = Cardinality({q \in Requests : request[q].stage = "checking"})

\* Once a logout was answered with success its session is gone for good, though that
\* answer may have found the row already deleted by another logout.
LogoutIsFinal == loggedOut \cap DOMAIN sessions = {}

\* A protected handler runs only if, since its request arrived, the browser's session
\* was there and its active user had the permission; a request that arrives after a
\* logout, a deactivation or the loss of a role never gets that far.
ServedOnGrounds ==
    \A q \in Requests :
        request[q].stage = "serving" => grounds[q] = {"session", "permission"}

\* Every request is answered: none waits forever for a password slot or a row lock.
AllAnswered == \A q \in Requests : request[q] # Idle ~> request[q] = Idle

-----------------------------------------------------------------------------
(* What a session is to its user: Sessions implements SessionLife *)

SessionOf(t) ==
    LET open == t \in DOMAIN sessions IN
    [stage |-> IF open THEN "open" ELSE IF audits[t].login = 0 THEN "absent" ELSE "closed",
     user |-> IF open THEN sessions[t].user ELSE Nobody,
     expires |-> IF open THEN sessions[t].expires ELSE 0,
     holder |-> IF t \in DOMAIN issued THEN issued[t] ELSE Nobody,
     answer |-> IF t \in loggedOut THEN "success" ELSE "none",
     logins |-> audits[t].login,
     logouts |-> audits[t].logout]

Life == INSTANCE SessionLife WITH session <- [t \in Tokens |-> SessionOf(t)]

\* However many logouts race, statements fail half way and answers are lost: a
\* session is opened once and closed once, each with its one event in the same
\* transaction (CreateSession, DeleteSessionByTokenHash), keeps its user and its
\* expiry in between, and is closed by its own browser only, which hears of success
\* when it is.
FollowsLife == Life!Spec

=============================================================================
