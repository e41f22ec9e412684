---------------------------- MODULE SessionsProofs ----------------------------
(* What holds of sessions for any number of requests, users, roles and tokens. *)
EXTENDS Sessions, FiniteSetTheorems, TLAPS

-----------------------------------------------------------------------------
(* The inductive invariant *)

\* A token a browser was given belongs to a session that was created for its user.
IssuedRows ==
    \A t \in DOMAIN issued :
        /\ audits[t].login = 1
        /\ t \in DOMAIN sessions => sessions[t].user = issued[t]

\* A transaction that has deleted a row is alone with it, and the row is committed.
Deleters ==
    \A q \in Requests : request[q].stage = "deleting" =>
        /\ request[q].token \in DOMAIN sessions
        /\ \A p \in Requests :
               /\ request[p].stage = "deleting"
               /\ request[p].token = request[q].token
               => p = q

\* Each session has one login event, and one logout event when it is gone: the
\* transactions of CreateSession and DeleteSessionByTokenHash write both or neither.
AuditedOnce ==
    \A t \in Tokens :
        IF t \in DOMAIN sessions
        THEN audits[t] = [login |-> 1, logout |-> 0]
        ELSE audits[t] \in {[login |-> 0, logout |-> 0], [login |-> 1, logout |-> 1]}

RowInv ==
    /\ IssuedRows
    /\ Deleters
    /\ AuditedOnce
    /\ LogoutIsFinal

\* What a panel request has passed was there to be passed.
GroundInv ==
    \A q \in Requests :
        /\ Grounds(request[q]) \subseteq grounds[q]
        /\ request[q].stage \in {"validated", "serving"} =>
               /\ request[q].user = issued[request[q].token]
               /\ "session" \in grounds[q]
        /\ request[q].stage = "serving" => "permission" \in grounds[q]

SessionInv ==
    /\ TypeOK
    /\ SlotsHonest
    /\ RowInv
    /\ GroundInv

LEMMA SessionInit == Init => SessionInv
<1> SUFFICES ASSUME Init PROVE SessionInv
  OBVIOUS
<1>1. /\ \A q \in Requests : request[q] = Idle /\ request[q].stage = "idle"
      /\ DOMAIN sessions = {} /\ DOMAIN issued = {}
  BY DEF Init, Idle
<1>2. TypeOK
  <2>1. Idle \in Request
    BY DEF Request
  <2> QED BY <1>1, <2>1, SessionAssumptions DEF Init, TypeOK
<1>3. SlotsHonest
  <2>1. {q \in Requests : request[q].stage = "checking"} = {}
    BY <1>1
  <2> QED BY <2>1, FS_EmptySet DEF SlotsHonest, Init
<1>4. RowInv
  BY <1>1 DEF Init, RowInv, IssuedRows, Deleters, AuditedOnce, LogoutIsFinal
<1>5. GroundInv
  BY <1>1 DEF GroundInv, Grounds, SessionHolds, PermissionHolds
<1> QED BY <1>2, <1>3, <1>4, <1>5 DEF SessionInv

-----------------------------------------------------------------------------
(* Types and slots *)

\* What a handler knows at a stage, and where it may go on from there.
LEMMA Positions ==
    ASSUME NEW r \in Request
    PROVE  /\ r.stage \in {"waiting", "checking"} =>
                  /\ [r EXCEPT !.stage = "checking"] \in Request
                  /\ r.active => r.user \in Users
           /\ r.stage = "creating" => r.user \in Users /\ r.expires \in Nat
           /\ r.stage \in {"logout", "deleting"} =>
                  /\ [r EXCEPT !.stage = "deleting"] \in Request
                  /\ r.token \in DOMAIN issued
                  /\ r = [stage |-> r.stage, token |-> r.token]
           /\ r.stage = "arrived" =>
                  /\ r.token \in DOMAIN issued
                  /\ r.permission \in Permissions
           /\ r.stage \in {"validated", "serving"} =>
                  /\ [r EXCEPT !.stage = "serving"] \in Request
                  /\ r.token \in DOMAIN issued
                  /\ r.user \in Users
<1>1. CASE r = Idle
  BY <1>1 DEF Idle
<1>2. CASE r \in [stage : {"waiting", "checking"}, user : Users, active : BOOLEAN]
  <2>1. [r EXCEPT !.stage = "checking"]
            \in [stage : {"waiting", "checking"}, user : Users, active : BOOLEAN]
    BY <1>2
  <2> QED BY <1>2, <2>1 DEF Request
<1>3. CASE r \in [stage : {"waiting", "checking"}, user : {Nobody}, active : {FALSE}]
  <2>1. [r EXCEPT !.stage = "checking"]
            \in [stage : {"waiting", "checking"}, user : {Nobody}, active : {FALSE}]
    BY <1>3
  <2> QED BY <1>3, <2>1 DEF Request
<1>4. CASE r \in [stage : {"creating"}, user : Users, expires : Nat]
  BY <1>4
<1>5. CASE r \in [stage : {"logout", "deleting"}, token : DOMAIN issued]
  <2>1. [r EXCEPT !.stage = "deleting"]
            \in [stage : {"logout", "deleting"}, token : DOMAIN issued]
    BY <1>5
  <2> QED BY <1>5, <2>1 DEF Request
<1>6. CASE r \in [stage : {"arrived"}, token : DOMAIN issued,
                  permission : Permissions, at : 0..now]
  BY <1>6
<1>7. CASE r \in [stage : {"validated", "serving"}, token : DOMAIN issued,
                  permission : Permissions, user : Users]
  <2>1. [r EXCEPT !.stage = "serving"]
            \in [stage : {"validated", "serving"}, token : DOMAIN issued,
                 permission : Permissions, user : Users]
    BY <1>7
  <2> QED BY <1>7, <2>1 DEF Request
<1> QED BY <1>1, <1>2, <1>3, <1>4, <1>5, <1>6, <1>7 DEF Request

\* A new stage leaves what a handler knows alone.
LEMMA StageExcept ==
    ASSUME NEW r \in Request, NEW stage
    PROVE  LET n == [r EXCEPT !.stage = stage]
           IN  /\ n.stage = stage
               /\ r.stage = "logout" => n.token = r.token
               /\ r.stage = "validated" =>
                      /\ n.token = r.token
                      /\ n.permission = r.permission
                      /\ n.user = r.user
<1>1. CASE r = Idle
  BY <1>1 DEF Idle
<1>2. CASE r \in [stage : {"waiting", "checking"}, user : Users, active : BOOLEAN]
  BY <1>2
<1>3. CASE r \in [stage : {"waiting", "checking"}, user : {Nobody}, active : {FALSE}]
  BY <1>3
<1>4. CASE r \in [stage : {"creating"}, user : Users, expires : Nat]
  BY <1>4
<1>5. CASE r \in [stage : {"logout", "deleting"}, token : DOMAIN issued]
  BY <1>5
<1>6. CASE r \in [stage : {"arrived"}, token : DOMAIN issued,
                  permission : Permissions, at : 0..now]
  BY <1>6
<1>7. CASE r \in [stage : {"validated", "serving"}, token : DOMAIN issued,
                  permission : Permissions, user : Users]
  BY <1>7
<1> QED BY <1>1, <1>2, <1>3, <1>4, <1>5, <1>6, <1>7 DEF Request

\* What was a position stays one: tokens are only added and the clock only advances.
LEMMA RequestGrows ==
    ASSUME TypeOK, DOMAIN issued \subseteq DOMAIN issued', now' \in Nat, now <= now'
    PROVE  Request \subseteq Request'
<1>1. 0..now \subseteq 0..now'
  BY DEF TypeOK
<1> QED BY <1>1 DEF Request

\* Going to a position keeps the type of all.
LEMMA GotoType ==
    ASSUME TypeOK, NEW q \in Requests, NEW r \in Request', Goto(q, r),
           Request \subseteq Request'
    PROVE  request' \in [Requests -> Request']
  BY DEF TypeOK, Goto

\* A change of position that neither starts nor ends a password check keeps the number
\* of checks.
LEMMA GotoChecks ==
    ASSUME TypeOK, SlotsHonest, NEW q \in Requests, NEW r, Goto(q, r),
           request[q].stage # "checking", r.stage # "checking", UNCHANGED slots
    PROVE  SlotsHonest'
<1>1. {p \in Requests : request'[p].stage = "checking"}
          = {p \in Requests : request[p].stage = "checking"}
  BY DEF Goto, TypeOK
<1> QED BY <1>1 DEF SlotsHonest

\* The set of running checks is finite and the slots count it.
LEMMA ChecksFinite ==
    ASSUME NEW f
    PROVE  LET S == {p \in Requests : f[p].stage = "checking"}
           IN  IsFiniteSet(S) /\ Cardinality(S) \in Nat
<1> DEFINE S == {p \in Requests : f[p].stage = "checking"}
<1>1. IsFiniteSet(S)
  BY FS_Subset, SessionAssumptions
<1> QED BY <1>1, FS_CardinalityType

\* The slot of a check that runs has been taken.
LEMMA CheckHoldsSlot ==
    ASSUME SlotsHonest, NEW q \in Requests, request[q].stage = "checking"
    PROVE  slots \in Nat /\ slots > 0
<1> DEFINE S == {p \in Requests : request[p].stage = "checking"}
<1>1. IsFiniteSet(S) /\ Cardinality(S) \in Nat
  BY ChecksFinite
<1>2. IsFiniteSet(S \ {q}) /\ Cardinality(S \ {q}) = Cardinality(S) - 1
  BY <1>1, FS_RemoveElement
<1>3. Cardinality(S \ {q}) \in Nat
  BY <1>2, FS_CardinalityType
<1> QED BY <1>1, <1>2, <1>3 DEF SlotsHonest

\* The history has its type whatever happens.
LEMMA GroundsType ==
    ASSUME TypeOK, Remember
    PROVE  grounds' \in [Requests -> SUBSET {"session", "permission"}]
<1>1. \A q \in Requests : Grounds(request[q])' \subseteq {"session", "permission"}
  BY DEF Grounds
<1> QED BY <1>1 DEF Remember, TypeOK

\* Every handler's step, every failure and every change around it keeps the types.
LEMMA TypeNext == TypeOK /\ SlotsHonest /\ Next => TypeOK'
<1> SUFFICES ASSUME TypeOK, SlotsHonest, Handle, Remember PROVE TypeOK'
  BY DEF Next
<1>0. grounds' \in [Requests -> SUBSET {"session", "permission"}]
  BY GroundsType
<1>a. ASSUME UNCHANGED <<now, people, tables, browsers>>, slots' \in 0..MaxChecks,
             NEW q \in Requests, NEW r \in Request, Goto(q, r)
      PROVE  TypeOK'
  <2>1. Request \subseteq Request'
    BY <1>a, RequestGrows DEF browsers, TypeOK
  <2>2. request' \in [Requests -> Request']
    BY <1>a, <2>1, GotoType
  <2> QED BY <1>0, <1>a, <2>2 DEF TypeOK, people, tables, browsers
<1>b. Idle \in Request /\ slots \in 0..MaxChecks
  BY DEF Request, TypeOK
<1>1. ASSUME NEW q \in Requests, FindUser(q) PROVE TypeOK'
  <2>1. PICK u \in Users \cup {Nobody} :
            Goto(q, [stage |-> "waiting", user |-> u, active |-> u # Nobody /\ active[u]])
    BY <1>1 DEF FindUser
  <2>2. [stage |-> "waiting", user |-> u, active |-> u # Nobody /\ active[u]] \in Request
    <3>1. CASE u \in Users
      <4>1. u # Nobody
        BY <3>1, SessionAssumptions
      <4>2. active[u] \in BOOLEAN
        BY <3>1 DEF TypeOK
      <4>3. (u # Nobody /\ active[u]) \in BOOLEAN
        OBVIOUS
      <4> QED BY <3>1, <4>3 DEF Request
    <3>2. CASE u = Nobody
      <4>1. (u # Nobody /\ active[u]) = FALSE
        BY <3>2
      <4> QED BY <3>2, <4>1 DEF Request
    <3> QED BY <3>1, <3>2
  <2> QED BY <1>1, <1>a, <1>b, <2>1, <2>2 DEF FindUser
<1>2. ASSUME NEW q \in Requests, AcquireSlot(q) PROVE TypeOK'
  <2>1. [request[q] EXCEPT !.stage = "checking"] \in Request
    <3>1. request[q] \in Request /\ request[q].stage = "waiting"
      BY <1>2 DEF AcquireSlot, TypeOK
    <3> QED BY <3>1, Positions
  <2>2. slots' \in 0..MaxChecks
    BY <1>2, <1>b, SessionAssumptions DEF AcquireSlot
  <2> QED BY <1>2, <1>a, <2>1, <2>2 DEF AcquireSlot
<1>3. ASSUME NEW q \in Requests, CheckPassword(q) PROVE TypeOK'
  <2>1. slots' \in 0..MaxChecks
    BY <1>3, <1>b, CheckHoldsSlot, SessionAssumptions DEF CheckPassword
  <2>2. CASE Goto(q, Idle)
    BY <1>3, <1>a, <1>b, <2>1, <2>2 DEF CheckPassword
  <2>3. CASE /\ request[q].active
             /\ Goto(q, [stage |-> "creating", user |-> request[q].user,
                         expires |-> now + Duration])
    <3>1. request[q].user \in Users
      <4>1. request[q] \in Request /\ request[q].stage = "checking"
        BY <1>3 DEF CheckPassword, TypeOK
      <4> QED BY <2>3, <4>1, Positions
    <3>2. now + Duration \in Nat
      BY SessionAssumptions DEF TypeOK
    <3>3. [stage |-> "creating", user |-> request[q].user, expires |-> now + Duration]
              \in Request
      BY <3>1, <3>2 DEF Request
    <3> QED BY <1>3, <1>a, <2>1, <2>3, <3>3 DEF CheckPassword
  <2> QED BY <1>3, <2>2, <2>3 DEF CheckPassword
<1>4. ASSUME NEW q \in Requests, CreateSession(q) PROVE TypeOK'
  <2>1. PICK t \in Fresh :
            /\ sessions' = [s \in DOMAIN sessions \cup {t} |->
                               IF s = t THEN [user |-> request[q].user,
                                              expires |-> request[q].expires]
                                        ELSE sessions[s]]
            /\ audits' = [audits EXCEPT ![t].login = @ + 1]
            /\ \/ UNCHANGED issued
               \/ issued' = [s \in DOMAIN issued \cup {t} |->
                                IF s = t THEN request[q].user ELSE issued[s]]
    BY <1>4 DEF CreateSession
  <2>2. t \in Tokens
    BY DEF Fresh
  <2>3. request[q].user \in Users /\ request[q].expires \in Nat
    <3>1. request[q] \in Request /\ request[q].stage = "creating"
      BY <1>4 DEF CreateSession, TypeOK
    <3> QED BY <3>1, Positions
  <2>4. /\ DOMAIN sessions' \subseteq Tokens
        /\ \A s \in DOMAIN sessions' : sessions'[s] \in SessionRow
    BY <2>1, <2>2, <2>3 DEF TypeOK, SessionRow
  <2>5. audits' \in [Tokens -> [login : Nat, logout : Nat]]
    BY <2>1, <2>2 DEF TypeOK
  <2>6. /\ DOMAIN issued \subseteq DOMAIN issued'
        /\ DOMAIN issued' \subseteq Tokens
        /\ \A s \in DOMAIN issued' : issued'[s] \in Users
    BY <2>1, <2>2, <2>3 DEF TypeOK
  <2>7. Request \subseteq Request'
    BY <1>4, <2>6, RequestGrows DEF CreateSession, TypeOK
  <2>8. request' \in [Requests -> Request']
    BY <1>4, <1>b, <2>7, GotoType DEF CreateSession
  <2> QED BY <1>0, <1>4, <2>4, <2>5, <2>6, <2>8 DEF CreateSession, TypeOK, people
<1>5. ASSUME NEW q \in Requests, Logout(q) PROVE TypeOK'
  <2>1. PICK t \in DOMAIN issued : Goto(q, [stage |-> "logout", token |-> t])
    BY <1>5 DEF Logout
  <2>2. [stage |-> "logout", token |-> t] \in Request
    BY DEF Request
  <2> QED BY <1>5, <1>a, <1>b, <2>1, <2>2 DEF Logout
<1>6. ASSUME NEW q \in Requests, DeleteSession(q) PROVE TypeOK'
  <2>1. [request[q] EXCEPT !.stage = "deleting"] \in Request
    <3>1. request[q] \in Request /\ request[q].stage = "logout"
      BY <1>6 DEF DeleteSession, TypeOK
    <3> QED BY <3>1, Positions
  <2> QED BY <1>6, <1>a, <1>b, <2>1 DEF DeleteSession
<1>7. ASSUME NEW q \in Requests,
             NothingToDelete(q) \/ CommitLogout(q)
      PROVE  TypeOK'
  <2>1. request[q].token \in DOMAIN issued
    <3>1. request[q] \in Request /\ request[q].stage \in {"logout", "deleting"}
      BY <1>7 DEF NothingToDelete, CommitLogout, TypeOK
    <3> QED BY <3>1, Positions
  <2>2. /\ Goto(q, Idle)
        /\ UNCHANGED <<now, people, slots, issued>>
        /\ loggedOut' = loggedOut \/ loggedOut' = loggedOut \cup {request[q].token}
    BY <1>7 DEF NothingToDelete, CommitLogout
  <2>3. /\ DOMAIN sessions' \subseteq Tokens
        /\ \A s \in DOMAIN sessions' : sessions'[s] \in SessionRow
    <3>1. CASE NothingToDelete(q)
      BY <3>1 DEF NothingToDelete, TypeOK, tables
    <3>2. CASE CommitLogout(q)
      BY <3>2 DEF CommitLogout, TypeOK, Restrict
    <3> QED BY <1>7, <3>1, <3>2
  <2>4. audits' \in [Tokens -> [login : Nat, logout : Nat]]
    <3>1. CASE NothingToDelete(q)
      BY <3>1 DEF NothingToDelete, TypeOK, tables
    <3>2. CASE CommitLogout(q)
      BY <2>1, <3>2 DEF CommitLogout, TypeOK
    <3> QED BY <1>7, <3>1, <3>2
  <2>5. Request \subseteq Request'
    BY <2>2, RequestGrows DEF TypeOK
  <2>6. request' \in [Requests -> Request']
    BY <1>b, <2>2, <2>5, GotoType
  <2> QED BY <1>0, <2>1, <2>2, <2>3, <2>4, <2>6 DEF TypeOK, people
<1>8. ASSUME NEW q \in Requests, Arrive(q) PROVE TypeOK'
  <2>1. PICK t \in DOMAIN issued, p \in Permissions :
            Goto(q, [stage |-> "arrived", token |-> t, permission |-> p, at |-> now])
    BY <1>8 DEF Arrive
  <2>2. now \in 0..now
    BY DEF TypeOK
  <2>3. [stage |-> "arrived", token |-> t, permission |-> p, at |-> now] \in Request
    BY <2>2 DEF Request
  <2> QED BY <1>8, <1>a, <1>b, <2>1, <2>3 DEF Arrive
<1>9. ASSUME NEW q \in Requests, Validate(q) PROVE TypeOK'
  <2> DEFINE t == request[q].token
             r == [stage |-> "validated", token |-> t,
                   permission |-> request[q].permission, user |-> sessions[t].user]
  <2>1. /\ t \in DOMAIN issued
        /\ request[q].permission \in Permissions
    <3>1. request[q] \in Request /\ request[q].stage = "arrived"
      BY <1>9 DEF Validate, TypeOK
    <3> QED BY <3>1, Positions
  <2>2. CASE Found(t, request[q].at)
    <3>1. sessions[t].user \in Users
      BY <2>2 DEF Found, TypeOK, SessionRow
    <3>2. r \in Request
      BY <2>1, <3>1 DEF Request
    <3>3. Goto(q, r)
      BY <1>9, <2>2 DEF Validate
    <3> QED BY <1>9, <1>a, <1>b, <3>2, <3>3 DEF Validate
  <2>3. CASE ~Found(t, request[q].at)
    BY <1>9, <1>a, <1>b, <2>3 DEF Validate
  <2> QED BY <2>2, <2>3
<1>10. ASSUME NEW q \in Requests, Authorize(q) PROVE TypeOK'
  <2>1. [request[q] EXCEPT !.stage = "serving"] \in Request
    <3>1. request[q] \in Request /\ request[q].stage = "validated"
      BY <1>10 DEF Authorize, TypeOK
    <3> QED BY <3>1, Positions
  <2> QED BY <1>10, <1>a, <1>b, <2>1 DEF Authorize
<1>11. ASSUME NEW q \in Requests, Serve(q) \/ Fails(q) PROVE TypeOK'
  BY <1>11, <1>a, <1>b DEF Serve, Fails
<1>12. ASSUME Crash PROVE TypeOK'
  <2>1. Request \subseteq Request'
    BY <1>12, RequestGrows DEF Crash, browsers, TypeOK
  <2>2. request' \in [Requests -> Request']
    BY <1>12, <1>b, <2>1 DEF Crash
  <2>3. slots' \in 0..MaxChecks
    BY <1>12, SessionAssumptions DEF Crash
  <2> QED BY <1>0, <1>12, <2>2, <2>3 DEF Crash, TypeOK, people, tables, browsers
<1>13. ASSUME Administrate PROVE TypeOK'
  <2>1. Request = Request'
    BY <1>13 DEF Administrate, browsers, Request
  <2>2. /\ active' \in [Users -> BOOLEAN]
        /\ assigned' \in [Users -> SUBSET Roles]
    BY <1>13 DEF Administrate, TypeOK
  <2> QED BY <1>0, <1>13, <2>1, <2>2 DEF Administrate, TypeOK, tables, browsers
<1>14. ASSUME Tick PROVE TypeOK'
  <2>1. now' \in Nat /\ now <= now'
    BY <1>14 DEF Tick, TypeOK
  <2>2. Request \subseteq Request'
    BY <1>14, <2>1, RequestGrows DEF Tick, browsers, TypeOK
  <2>3. request' \in [Requests -> Request']
    BY <1>14, <2>2 DEF Tick, TypeOK
  <2> QED BY <1>0, <1>14, <2>1, <2>3 DEF Tick, TypeOK, people, tables, browsers
<1> QED
  BY <1>1, <1>2, <1>3, <1>4, <1>5, <1>6, <1>7, <1>8, <1>9, <1>10, <1>11, <1>12,
     <1>13, <1>14 DEF Handle, Step

\* Slots are taken and given back with the checks that hold them.
LEMMA SlotsNext == TypeOK /\ SlotsHonest /\ Next => SlotsHonest'
<1> SUFFICES ASSUME TypeOK, SlotsHonest, Handle PROVE SlotsHonest'
  BY DEF Next
<1> DEFINE S == {p \in Requests : request[p].stage = "checking"}
<1>0. /\ IsFiniteSet(S)
      /\ Idle.stage = "idle"
      /\ request \in [Requests -> Request]
  BY ChecksFinite DEF Idle, TypeOK
<1>1. ASSUME NEW q \in Requests, AcquireSlot(q) PROVE SlotsHonest'
  <2>1. /\ request[q].stage = "waiting"
        /\ request'[q].stage = "checking"
        /\ \A p \in Requests \ {q} : request'[p] = request[p]
    <3>1. request[q] \in Request /\ request[q].stage = "waiting"
      BY <1>0, <1>1 DEF AcquireSlot
    <3>2. [request[q] EXCEPT !.stage = "checking"].stage = "checking"
      BY <3>1, StageExcept
    <3> QED BY <1>0, <1>1, <3>1, <3>2 DEF AcquireSlot, Goto
  <2>2. {p \in Requests : request'[p].stage = "checking"} = S \cup {q} /\ q \notin S
    BY <2>1
  <2>3. Cardinality(S \cup {q}) = Cardinality(S) + 1
    BY <1>0, <2>2, FS_AddElement
  <2> QED BY <1>1, <2>2, <2>3 DEF AcquireSlot, SlotsHonest
<1>2. ASSUME NEW q \in Requests, CheckPassword(q) PROVE SlotsHonest'
  <2>1. /\ request[q].stage = "checking"
        /\ request'[q].stage # "checking"
        /\ \A p \in Requests \ {q} : request'[p] = request[p]
    BY <1>0, <1>2 DEF CheckPassword, Goto
  <2>2. {p \in Requests : request'[p].stage = "checking"} = S \ {q} /\ q \in S
    BY <2>1
  <2>3. Cardinality(S \ {q}) = Cardinality(S) - 1
    BY <1>0, <2>2, FS_RemoveElement
  <2> QED BY <1>2, <2>2, <2>3 DEF CheckPassword, SlotsHonest
<1>3. ASSUME NEW q \in Requests,
             FindUser(q) \/ CreateSession(q) \/ Logout(q) \/ DeleteSession(q)
             \/ NothingToDelete(q) \/ CommitLogout(q) \/ Arrive(q)
             \/ Validate(q) \/ Authorize(q) \/ Serve(q) \/ Fails(q)
      PROVE  SlotsHonest'
  <2>1. request[q].stage # "checking" /\ UNCHANGED slots
    BY <1>0, <1>3 DEF FindUser, CreateSession, Logout, DeleteSession, NothingToDelete,
       CommitLogout, Arrive, Validate, Authorize, Serve, Fails
  <2>2. \E r : Goto(q, r) /\ r.stage # "checking"
    <3>1. CASE DeleteSession(q)
      <4>1. request[q] \in Request /\ request[q].stage = "logout"
        BY <1>0, <3>1 DEF DeleteSession
      <4>2. [request[q] EXCEPT !.stage = "deleting"].stage # "checking"
        BY <4>1, StageExcept
      <4> QED BY <3>1, <4>2 DEF DeleteSession
    <3>2. CASE Authorize(q)
      <4>1. request[q] \in Request /\ request[q].stage = "validated"
        BY <1>0, <3>2 DEF Authorize
      <4>2. [request[q] EXCEPT !.stage = "serving"].stage # "checking"
        BY <4>1, StageExcept
      <4> QED BY <1>0, <3>2, <4>2 DEF Authorize
    <3>3. CASE Validate(q)
      <4>1. CASE Found(request[q].token, request[q].at)
        BY <3>3, <4>1 DEF Validate
      <4>2. CASE ~Found(request[q].token, request[q].at)
        BY <1>0, <3>3, <4>2 DEF Validate
      <4> QED BY <4>1, <4>2
    <3>4. CASE FindUser(q)
      <4>1. PICK u \in Users \cup {Nobody} :
              \E b : Goto(q, [stage |-> "waiting", user |-> u, active |-> b])
        BY <3>4, Zenon DEF FindUser
      <4> QED BY <4>1
    <3>5. CASE Logout(q)
      BY <3>5 DEF Logout
    <3>6. CASE Arrive(q)
      <4>1. PICK t \in DOMAIN issued, p \in Permissions :
                Goto(q, [stage |-> "arrived", token |-> t, permission |-> p, at |-> now])
        BY <3>6 DEF Arrive
      <4> QED BY <4>1
    <3>7. CASE CreateSession(q) \/ NothingToDelete(q) \/ CommitLogout(q) \/ Serve(q)
               \/ Fails(q)
      BY <1>0, <3>7 DEF CreateSession, NothingToDelete, CommitLogout, Serve, Fails
    <3> QED BY <1>3, <3>1, <3>2, <3>3, <3>4, <3>5, <3>6, <3>7
  <2> QED BY <2>1, <2>2, GotoChecks
<1>4. ASSUME Crash PROVE SlotsHonest'
  <2>1. {p \in Requests : request'[p].stage = "checking"} = {}
    BY <1>0, <1>4 DEF Crash
  <2> QED BY <1>4, <2>1, FS_EmptySet DEF Crash, SlotsHonest
<1>5. ASSUME Administrate \/ Tick PROVE SlotsHonest'
  BY <1>5 DEF Administrate, Tick, SlotsHonest
<1> QED BY <1>1, <1>2, <1>3, <1>4, <1>5 DEF Handle, Step

-----------------------------------------------------------------------------
(* Rows, events and logouts *)

\* A handler that touches no table and is not about to delete keeps the rows' invariant.
LEMMA MoveRows ==
    ASSUME TypeOK, RowInv, NEW q \in Requests, NEW r, Goto(q, r), r.stage # "deleting",
           UNCHANGED <<tables, browsers>>
    PROVE  RowInv'
<1>1. UNCHANGED <<sessions, audits, issued, loggedOut>>
  BY DEF tables, browsers
<1>2. /\ request'[q].stage # "deleting"
      /\ \A p \in Requests \ {q} : request'[p] = request[p]
  BY DEF Goto, TypeOK
<1>3. Deleters'
  BY <1>1, <1>2 DEF RowInv, Deleters
<1> QED BY <1>1, <1>3 DEF RowInv, IssuedRows, AuditedOnce, LogoutIsFinal

\* A fresh token's row and event keep it.
LEMMA CreateSessionRows ==
    ASSUME TypeOK, RowInv, NEW q \in Requests, CreateSession(q)
    PROVE  RowInv'
<1>1. PICK t \in Fresh :
          /\ sessions' = [s \in DOMAIN sessions \cup {t} |->
                             IF s = t THEN [user |-> request[q].user,
                                            expires |-> request[q].expires]
                                      ELSE sessions[s]]
          /\ audits' = [audits EXCEPT ![t].login = @ + 1]
          /\ \/ UNCHANGED issued
             \/ issued' = [s \in DOMAIN issued \cup {t} |->
                              IF s = t THEN request[q].user ELSE issued[s]]
  BY DEF CreateSession
<1>2. t \in Tokens /\ audits[t].login = 0
  BY DEF Fresh
<1>3. t \notin DOMAIN sessions /\ audits[t] = [login |-> 0, logout |-> 0]
  BY <1>2 DEF RowInv, AuditedOnce
<1>4. t \notin DOMAIN issued /\ t \notin loggedOut
  BY <1>2 DEF RowInv, IssuedRows, TypeOK
<1>5. /\ audits'[t] = [login |-> 1, logout |-> 0]
      /\ \A s \in Tokens \ {t} : audits'[s] = audits[s]
  BY <1>1, <1>2, <1>3 DEF TypeOK
<1>6. /\ DOMAIN sessions' = DOMAIN sessions \cup {t}
      /\ sessions'[t].user = request[q].user
      /\ \A s \in DOMAIN sessions : sessions'[s] = sessions[s]
  BY <1>1, <1>3
<1>7. /\ request'[q].stage # "deleting"
      /\ \A p \in Requests \ {q} : request'[p] = request[p]
      /\ UNCHANGED loggedOut
  BY DEF CreateSession, Goto, TypeOK, Idle
<1>8. IssuedRows'
  <2>1. ASSUME NEW s \in DOMAIN issued, issued'[s] = issued[s]
        PROVE  /\ audits'[s].login = 1
               /\ s \in DOMAIN sessions' => sessions'[s].user = issued'[s]
    BY <1>4, <1>5, <1>6, <2>1 DEF RowInv, IssuedRows, TypeOK
  <2>2. CASE UNCHANGED issued
    BY <2>1, <2>2 DEF IssuedRows
  <2>3. CASE issued' = [s \in DOMAIN issued \cup {t} |->
                           IF s = t THEN request[q].user ELSE issued[s]]
    BY <1>4, <1>5, <1>6, <2>1, <2>3 DEF IssuedRows
  <2> QED BY <1>1, <2>2, <2>3
<1>9. Deleters'
  BY <1>6, <1>7 DEF RowInv, Deleters
<1>10. AuditedOnce'
  BY <1>5, <1>6 DEF RowInv, AuditedOnce
<1>11. LogoutIsFinal'
  BY <1>4, <1>6, <1>7 DEF RowInv, LogoutIsFinal
<1> QED BY <1>8, <1>9, <1>10, <1>11 DEF RowInv

\* Only one transaction gets to delete a row.
LEMMA DeleteSessionRows ==
    ASSUME TypeOK, RowInv, NEW q \in Requests, DeleteSession(q)
    PROVE  RowInv'
<1> DEFINE t == request[q].token
<1>1. request[q] \in Request /\ request[q].stage = "logout"
  BY DEF DeleteSession, TypeOK
<1>2. /\ request'[q].stage = "deleting"
      /\ request'[q].token = t
      /\ \A p \in Requests \ {q} : request'[p] = request[p]
  BY <1>1, StageExcept DEF DeleteSession, Goto, TypeOK
<1>3. /\ t \in DOMAIN sessions
      /\ UNCHANGED <<sessions, audits, issued, loggedOut>>
  BY DEF DeleteSession, tables, browsers
<1>4. ASSUME NEW p \in Requests, request[p].stage = "deleting"
      PROVE  request[p].token # t
  <2>1. request[p] = [stage |-> "deleting", token |-> request[p].token]
    <3>1. request[p] \in Request
      BY DEF TypeOK
    <3> QED BY <1>4, <3>1, Positions
  <2>2. request[p] # [stage |-> "deleting", token |-> t]
    BY DEF DeleteSession, Locked
  <2> QED BY <2>1, <2>2
<1>5. Deleters'
  BY <1>2, <1>3, <1>4 DEF RowInv, Deleters
<1> QED BY <1>3, <1>5 DEF RowInv, IssuedRows, AuditedOnce, LogoutIsFinal

\* A logout that finds nothing may say so: nothing comes back.
LEMMA NothingToDeleteRows ==
    ASSUME TypeOK, RowInv, NEW q \in Requests, NothingToDelete(q)
    PROVE  RowInv'
<1>1. /\ request'[q].stage # "deleting"
      /\ \A p \in Requests \ {q} : request'[p] = request[p]
      /\ request[q].token \notin DOMAIN sessions
      /\ loggedOut' = loggedOut \cup {request[q].token}
      /\ UNCHANGED <<sessions, audits, issued>>
  BY DEF NothingToDelete, Goto, TypeOK, Idle, tables
<1>2. Deleters'
  BY <1>1 DEF RowInv, Deleters
<1>3. LogoutIsFinal'
  BY <1>1 DEF RowInv, LogoutIsFinal
<1> QED BY <1>1, <1>2, <1>3 DEF RowInv, IssuedRows, AuditedOnce

\* The row goes with its event, and no other transaction had deleted it.
LEMMA CommitLogoutRows ==
    ASSUME TypeOK, RowInv, NEW q \in Requests, CommitLogout(q)
    PROVE  RowInv'
<1> DEFINE t == request[q].token
<1>1. /\ request[q].stage = "deleting"
      /\ request'[q].stage # "deleting"
      /\ \A p \in Requests \ {q} : request'[p] = request[p]
      /\ loggedOut' = loggedOut \/ loggedOut' = loggedOut \cup {t}
      /\ audits' = [audits EXCEPT ![t].logout = @ + 1]
      /\ UNCHANGED issued
  BY DEF CommitLogout, Goto, TypeOK, Idle
<1>2. /\ t \in DOMAIN sessions
      /\ t \in Tokens
      /\ \A p \in Requests \ {q} :
             request[p].stage = "deleting" => request[p].token # t
  BY <1>1 DEF RowInv, Deleters, TypeOK
<1>3. /\ DOMAIN sessions' = DOMAIN sessions \ {t}
      /\ \A s \in DOMAIN sessions' : sessions'[s] = sessions[s]
  BY DEF CommitLogout, Restrict
<1>4. audits[t] = [login |-> 1, logout |-> 0]
  BY <1>2 DEF RowInv, AuditedOnce
<1>5. /\ audits'[t] = [login |-> 1, logout |-> 1]
      /\ \A s \in Tokens \ {t} : audits'[s] = audits[s]
  BY <1>1, <1>2, <1>4 DEF TypeOK
<1>6. IssuedRows'
  BY <1>1, <1>3, <1>5 DEF RowInv, IssuedRows, TypeOK
<1>7. Deleters'
  BY <1>1, <1>2, <1>3 DEF RowInv, Deleters
<1>8. AuditedOnce'
  BY <1>3, <1>5 DEF RowInv, AuditedOnce
<1>9. LogoutIsFinal'
  BY <1>1, <1>3 DEF RowInv, LogoutIsFinal
<1> QED BY <1>6, <1>7, <1>8, <1>9 DEF RowInv

\* Every step keeps the rows' invariant.
LEMMA RowNext == TypeOK /\ RowInv /\ Next => RowInv'
<1> SUFFICES ASSUME TypeOK, RowInv, Handle PROVE RowInv'
  BY DEF Next
<1>0. Idle.stage = "idle" /\ request \in [Requests -> Request]
  BY DEF Idle, TypeOK
<1>1. ASSUME NEW q \in Requests,
             CreateSession(q) \/ DeleteSession(q) \/ NothingToDelete(q) \/ CommitLogout(q)
      PROVE  RowInv'
  BY <1>1, CreateSessionRows, DeleteSessionRows, NothingToDeleteRows, CommitLogoutRows
<1>2. ASSUME NEW q \in Requests,
             FindUser(q) \/ AcquireSlot(q) \/ CheckPassword(q) \/ Logout(q)
             \/ Arrive(q) \/ Validate(q) \/ Authorize(q) \/ Serve(q) \/ Fails(q)
      PROVE  RowInv'
  <2>1. UNCHANGED <<tables, browsers>>
    BY <1>2 DEF FindUser, AcquireSlot, CheckPassword, Logout, Arrive, Validate, Authorize,
       Serve, Fails
  <2>2. \E r : Goto(q, r) /\ r.stage # "deleting"
    <3>1. CASE FindUser(q)
      <4>1. PICK u \in Users \cup {Nobody} :
              \E b : Goto(q, [stage |-> "waiting", user |-> u, active |-> b])
        BY <3>1, Zenon DEF FindUser
      <4> QED BY <4>1
    <3>2. CASE AcquireSlot(q)
      <4>1. [request[q] EXCEPT !.stage = "checking"].stage # "deleting"
        BY <1>0, StageExcept
      <4> QED BY <3>2, <4>1 DEF AcquireSlot
    <3>3. CASE CheckPassword(q)
      BY <1>0, <3>3 DEF CheckPassword
    <3>4. CASE Logout(q)
      BY <3>4 DEF Logout
    <3>5. CASE Arrive(q)
      <4>1. PICK t \in DOMAIN issued, p \in Permissions :
                Goto(q, [stage |-> "arrived", token |-> t, permission |-> p, at |-> now])
        BY <3>5 DEF Arrive
      <4> QED BY <4>1
    <3>6. CASE Validate(q)
      <4>1. CASE Found(request[q].token, request[q].at)
        BY <3>6, <4>1 DEF Validate
      <4>2. CASE ~Found(request[q].token, request[q].at)
        BY <1>0, <3>6, <4>2 DEF Validate
      <4> QED BY <4>1, <4>2
    <3>7. CASE Authorize(q)
      <4>1. [request[q] EXCEPT !.stage = "serving"].stage # "deleting"
        BY <1>0, StageExcept
      <4> QED BY <1>0, <3>7, <4>1 DEF Authorize
    <3>8. CASE Serve(q) \/ Fails(q)
      BY <1>0, <3>8 DEF Serve, Fails
    <3> QED BY <1>2, <3>1, <3>2, <3>3, <3>4, <3>5, <3>6, <3>7, <3>8
  <2> QED BY <2>1, <2>2, MoveRows
<1>3. ASSUME Crash PROVE RowInv'
  BY <1>0, <1>3 DEF Crash, RowInv, IssuedRows, Deleters, AuditedOnce, LogoutIsFinal,
     tables, browsers
<1>4. ASSUME Administrate \/ Tick PROVE RowInv'
  BY <1>4 DEF Administrate, Tick, RowInv, IssuedRows, Deleters, AuditedOnce,
     LogoutIsFinal, tables, browsers
<1> QED BY <1>1, <1>2, <1>3, <1>4 DEF Handle, Step

-----------------------------------------------------------------------------
(* Each step moves a session along its life *)

\* The fields of a session do not depend on the representation of its tables.
LEMMA SessionKept ==
    ASSUME NEW t,
           t \in DOMAIN sessions' <=> t \in DOMAIN sessions,
           t \in DOMAIN sessions => sessions'[t] = sessions[t],
           t \in DOMAIN issued' <=> t \in DOMAIN issued,
           t \in DOMAIN issued => issued'[t] = issued[t],
           t \in loggedOut' <=> t \in loggedOut,
           audits'[t] = audits[t]
    PROVE  SessionOf(t)' = SessionOf(t)
BY DEF SessionOf

\* CreateSession opens the session of a fresh token and no other.
LEMMA CreateSessionOpens ==
    ASSUME TypeOK, RowInv, NEW q \in Requests, CreateSession(q), NEW s \in Tokens
    PROVE  SessionOf(s)' = SessionOf(s) \/ Life!Open(SessionOf(s), SessionOf(s)')
<1>1. PICK t \in Fresh :
          /\ sessions' = [k \in DOMAIN sessions \cup {t} |->
                             IF k = t THEN [user |-> request[q].user,
                                            expires |-> request[q].expires]
                                      ELSE sessions[k]]
          /\ audits' = [audits EXCEPT ![t].login = @ + 1]
          /\ \/ UNCHANGED issued
             \/ issued' = [k \in DOMAIN issued \cup {t} |->
                              IF k = t THEN request[q].user ELSE issued[k]]
  BY DEF CreateSession
<1>2. t \in Tokens /\ audits[t].login = 0 /\ UNCHANGED loggedOut
  BY DEF Fresh, CreateSession
<1>3. t \notin DOMAIN sessions /\ audits[t] = [login |-> 0, logout |-> 0]
  BY <1>2 DEF RowInv, AuditedOnce
<1>4. t \notin DOMAIN issued /\ t \notin loggedOut
  BY <1>2 DEF RowInv, IssuedRows, TypeOK
<1>5. CASE s # t
  <2>1. audits'[s] = audits[s]
    BY <1>1, <1>2, <1>5 DEF TypeOK
  <2>2. SessionOf(s)' = SessionOf(s)
    BY <1>1, <1>2, <1>5, <2>1, SessionKept
  <2> QED BY <2>2
<1>6. CASE s = t
  <2>1. audits'[t] = [login |-> 1, logout |-> 0]
    BY <1>1, <1>2, <1>3 DEF TypeOK
  <2>2. request[q].user \in Users /\ request[q].expires \in Nat
    <3>1. request[q] \in Request /\ request[q].stage = "creating"
      BY DEF CreateSession, TypeOK
    <3> QED BY <3>1, Positions
  <2>3. /\ t \in DOMAIN sessions'
        /\ sessions'[t].user = request[q].user
        /\ sessions'[t].expires = request[q].expires
    BY <1>1
  <2>4. t \in DOMAIN issued' => issued'[t] = request[q].user
    BY <1>1, <1>4
  <2>5. SessionOf(t) = Life!Absent
    BY <1>3, <1>4 DEF SessionOf, Life!Absent
  <2>6. PICK h \in {Nobody, request[q].user} :
            h = IF t \in DOMAIN issued' THEN issued'[t] ELSE Nobody
    BY <2>4
  <2>7. SessionOf(t)' = [stage |-> "open", user |-> request[q].user,
                         expires |-> request[q].expires, holder |-> h, answer |-> "none",
                         logins |-> 1, logouts |-> 0]
    BY <1>2, <1>4, <2>1, <2>3, <2>6 DEF SessionOf
  <2>8. Life!Open(Life!Absent, SessionOf(t)')
    BY <2>2, <2>7 DEF Life!Open, Life!Absent
  <2> QED BY <1>6, <2>5, <2>8
<1> QED BY <1>5, <1>6

\* CommitLogout closes the session of its request's token and no other.
LEMMA CommitLogoutCloses ==
    ASSUME TypeOK, RowInv, NEW q \in Requests, CommitLogout(q), NEW s \in Tokens
    PROVE  SessionOf(s)' = SessionOf(s) \/ Life!Close(SessionOf(s), SessionOf(s)')
<1> DEFINE t == request[q].token
<1>1. /\ request[q].stage = "deleting"
      /\ loggedOut' = loggedOut \/ loggedOut' = loggedOut \cup {t}
      /\ audits' = [audits EXCEPT ![t].logout = @ + 1]
      /\ UNCHANGED issued
  BY DEF CommitLogout
<1>2. t \in DOMAIN sessions /\ t \in Tokens
  BY <1>1 DEF RowInv, Deleters, TypeOK
<1>3. /\ DOMAIN sessions' = DOMAIN sessions \ {t}
      /\ \A k \in DOMAIN sessions' : sessions'[k] = sessions[k]
  BY DEF CommitLogout, Restrict
<1>4. CASE s # t
  <2>1. audits'[s] = audits[s]
    BY <1>1, <1>2, <1>4 DEF TypeOK
  <2> QED BY <1>1, <1>3, <1>4, <2>1, SessionKept
<1>5. CASE s = t
  <2>1. audits[t] = [login |-> 1, logout |-> 0]
    BY <1>2 DEF RowInv, AuditedOnce
  <2>2. audits'[t] = [login |-> 1, logout |-> 1]
    BY <1>1, <1>2, <2>1 DEF TypeOK
  <2>3. t \in DOMAIN issued /\ issued[t] # Nobody
    <3>1. request[q] \in Request
      BY DEF TypeOK
    <3>2. t \in DOMAIN issued
      BY <1>1, <3>1, Positions
    <3> QED BY <3>2, SessionAssumptions DEF TypeOK
  <2>4. t \notin loggedOut
    BY <1>2 DEF RowInv, LogoutIsFinal
  <2>5. SessionOf(s) = [stage |-> "open", user |-> sessions[s].user,
                        expires |-> sessions[s].expires, holder |-> issued[s],
                        answer |-> "none", logins |-> 1, logouts |-> 0]
    BY <1>2, <1>5, <2>1, <2>3, <2>4 DEF SessionOf
  <2>6. PICK a \in {"none", "success"} :
            a = IF s \in loggedOut' THEN "success" ELSE "none"
    OBVIOUS
  <2>7. SessionOf(s)' = [stage |-> "closed", user |-> Nobody, expires |-> 0,
                         holder |-> issued[s], answer |-> a, logins |-> 1,
                         logouts |-> 1]
    BY <1>1, <1>3, <1>5, <2>2, <2>3, <2>6 DEF SessionOf
  <2>8. Life!Close(SessionOf(s), SessionOf(s)')
    BY <1>5, <2>3, <2>5, <2>7 DEF Life!Close
  <2> QED BY <2>8
<1> QED BY <1>4, <1>5

\* A logout that finds no row confirms what another one did.
LEMMA NothingToDeleteConfirms ==
    ASSUME TypeOK, RowInv, NEW q \in Requests, NothingToDelete(q), NEW s \in Tokens
    PROVE  SessionOf(s)' = SessionOf(s) \/ Life!Confirm(SessionOf(s), SessionOf(s)')
<1> DEFINE t == request[q].token
<1>1. /\ t \notin DOMAIN sessions
      /\ loggedOut' = loggedOut \cup {t}
      /\ UNCHANGED <<sessions, audits, issued>>
  BY DEF NothingToDelete, tables
<1>2. t \in DOMAIN issued
  <2>1. request[q] \in Request /\ request[q].stage = "logout"
    BY DEF NothingToDelete, TypeOK
  <2> QED BY <2>1, Positions
<1>3. CASE s # t
  BY <1>1, <1>3, SessionKept
<1>4. CASE s = t
  <2>1. audits[t].login # 0
    BY <1>2 DEF RowInv, IssuedRows
  <2>2. PICK a : SessionOf(s) = [stage |-> "closed", user |-> Nobody, expires |-> 0,
                                 holder |-> issued[s], answer |-> a,
                                 logins |-> audits[s].login,
                                 logouts |-> audits[s].logout]
    BY <1>1, <1>2, <1>4, <2>1 DEF SessionOf
  <2>3. SessionOf(s)' = [stage |-> "closed", user |-> Nobody, expires |-> 0,
                         holder |-> issued[s], answer |-> "success",
                         logins |-> audits[s].login, logouts |-> audits[s].logout]
    BY <1>1, <1>2, <1>4, <2>1 DEF SessionOf
  <2>4. Life!Confirm(SessionOf(s), SessionOf(s)')
    BY <2>2, <2>3 DEF Life!Confirm
  <2> QED BY <2>4
<1> QED BY <1>3, <1>4

\* Every step leaves a session as it is or takes it along one move.
LEMMA NextLives ==
    ASSUME SessionInv, [Next]_vars, NEW t \in Tokens
    PROVE  SessionOf(t)' = SessionOf(t) \/ Life!Move(SessionOf(t), SessionOf(t)')
<1>0. TypeOK /\ RowInv
  BY DEF SessionInv
<1>1. CASE UNCHANGED <<tables, browsers>>
  BY <1>1, SessionKept DEF tables, browsers
<1>2. ASSUME NEW q \in Requests,
             CreateSession(q) \/ CommitLogout(q) \/ NothingToDelete(q)
      PROVE  SessionOf(t)' = SessionOf(t) \/ Life!Move(SessionOf(t), SessionOf(t)')
  BY <1>0, <1>2, CreateSessionOpens, CommitLogoutCloses, NothingToDeleteConfirms
     DEF Life!Move
<1>3. CASE UNCHANGED vars
  BY <1>1, <1>3 DEF vars
<1>4. CASE Handle
  <2>1. \/ UNCHANGED <<tables, browsers>>
        \/ \E q \in Requests : CreateSession(q) \/ CommitLogout(q) \/ NothingToDelete(q)
    BY <1>4 DEF Handle, Step, FindUser, AcquireSlot, CheckPassword, Logout, DeleteSession,
       Arrive, Validate, Authorize, Serve, Fails, Crash, Administrate, Tick
  <2> QED BY <1>1, <1>2, <2>1
<1> QED BY <1>3, <1>4 DEF Next

\* Before the first login no session has begun its life.
LEMMA InitLife == Init => Life!Init
<1> SUFFICES ASSUME Init, NEW t \in Tokens PROVE SessionOf(t) = Life!Absent
  BY Zenon DEF Life!Init
<1> QED BY DEF Init, SessionOf, Life!Absent

-----------------------------------------------------------------------------
(* Grounds *)

\* A browser's token stays its user's.
LEMMA IssuedKept ==
    ASSUME TypeOK, RowInv, Handle
    PROVE  \A t \in DOMAIN issued : t \in DOMAIN issued' /\ issued'[t] = issued[t]
<1>1. ASSUME NEW q \in Requests, CreateSession(q)
      PROVE  \A t \in DOMAIN issued : t \in DOMAIN issued' /\ issued'[t] = issued[t]
  <2>1. PICK t \in Fresh :
            \/ UNCHANGED issued
            \/ issued' = [s \in DOMAIN issued \cup {t} |->
                             IF s = t THEN request[q].user ELSE issued[s]]
    BY <1>1 DEF CreateSession
  <2>2. t \notin DOMAIN issued
    BY DEF Fresh, RowInv, IssuedRows
  <2> QED BY <2>1, <2>2
<1>2. CASE UNCHANGED issued
  BY <1>2
<1>3. (\E q \in Requests : CreateSession(q)) \/ UNCHANGED issued
  BY DEF Handle, Step, FindUser, AcquireSlot, CheckPassword, Logout, DeleteSession,
     NothingToDelete, CommitLogout, Arrive, Validate, Authorize, Serve, Fails, Crash,
     Administrate, Tick, browsers
<1> QED BY <1>1, <1>2, <1>3

\* A request gets to "validated" and "serving" through Validate and Authorize only.
LEMMA Passes ==
    ASSUME TypeOK, Handle, NEW q \in Requests
    PROVE  \/ request'[q] = request[q]
           \/ request'[q].stage \notin {"validated", "serving"}
           \/ Validate(q)
           \/ Authorize(q)
<1>0. Idle.stage = "idle" /\ request \in [Requests -> Request]
  BY DEF Idle, TypeOK
<1> DEFINE Done == \/ request'[q] = request[q]
                   \/ request'[q].stage \notin {"validated", "serving"}
<1>1. ASSUME NEW p \in Requests, NEW r, Goto(p, r), r.stage \notin {"validated", "serving"}
      PROVE  Done
  BY <1>0, <1>1 DEF Goto
<1>2. ASSUME NEW p \in Requests, FindUser(p) PROVE Done
  <2>1. PICK u \in Users \cup {Nobody} :
          \E b : Goto(p, [stage |-> "waiting", user |-> u, active |-> b])
    BY <1>2, Zenon DEF FindUser
  <2> QED BY <1>1, <2>1
<1>3. ASSUME NEW p \in Requests, AcquireSlot(p) PROVE Done
  <2>1. [request[p] EXCEPT !.stage = "checking"].stage = "checking"
    BY <1>0, StageExcept
  <2> QED BY <1>1, <1>3, <2>1 DEF AcquireSlot
<1>4. ASSUME NEW p \in Requests, DeleteSession(p) PROVE Done
  <2>1. [request[p] EXCEPT !.stage = "deleting"].stage = "deleting"
    BY <1>0, StageExcept
  <2> QED BY <1>1, <1>4, <2>1 DEF DeleteSession
<1>5. ASSUME NEW p \in Requests, CheckPassword(p) PROVE Done
  BY <1>0, <1>1, <1>5 DEF CheckPassword
<1>6. ASSUME NEW p \in Requests, Logout(p) PROVE Done
  BY <1>1, <1>6 DEF Logout
<1>7. ASSUME NEW p \in Requests, Arrive(p) PROVE Done
  <2>1. PICK t \in DOMAIN issued, a \in Permissions :
            Goto(p, [stage |-> "arrived", token |-> t, permission |-> a, at |-> now])
    BY <1>7 DEF Arrive
  <2> QED BY <1>1, <2>1
<1>8. ASSUME NEW p \in Requests,
             CreateSession(p) \/ NothingToDelete(p) \/ CommitLogout(p) \/ Serve(p)
             \/ Fails(p)
      PROVE  Done
  <2>1. Goto(p, Idle)
    BY <1>8 DEF CreateSession, NothingToDelete, CommitLogout, Serve, Fails
  <2> QED BY <1>0, <1>1, <2>1
<1>9. ASSUME NEW p \in Requests, Validate(p) \/ Authorize(p) PROVE p = q \/ Done
  BY <1>0, <1>9 DEF Validate, Authorize, Goto
<1>10. ASSUME Crash \/ Administrate \/ Tick PROVE Done
  BY <1>0, <1>10 DEF Crash, Administrate, Tick
<1> HIDE DEF Done
<1>11. Done \/ Validate(q) \/ Authorize(q)
  BY <1>2, <1>3, <1>4, <1>5, <1>6, <1>7, <1>8, <1>9, <1>10 DEF Handle, Step
<1> QED BY <1>11 DEF Done

\* What a request passed in a step, the state before the step had grounds for.
LEMMA GroundNext == TypeOK /\ RowInv /\ GroundInv /\ Next => GroundInv'
<1> SUFFICES ASSUME TypeOK, RowInv, GroundInv, Handle, Remember, NEW q \in Requests
             PROVE  /\ Grounds(request[q])' \subseteq grounds'[q]
                    /\ request'[q].stage \in {"validated", "serving"} =>
                           /\ request'[q].user = issued'[request'[q].token]
                           /\ "session" \in grounds'[q]
                    /\ request'[q].stage = "serving" => "permission" \in grounds'[q]
  BY DEF Next, GroundInv
<1>0. Idle.stage = "idle" /\ request \in [Requests -> Request]
  BY DEF Idle, TypeOK
<1>1. Grounds(request[q])' \subseteq grounds'[q]
  BY <1>0 DEF Remember, Grounds, SessionHolds, PermissionHolds
<1>2. request'[q].stage \in {"validated", "serving"} => grounds[q] \subseteq grounds'[q]
  BY <1>0 DEF Remember
<1>3. CASE request'[q] = request[q]
  <2>1. request[q].stage \in {"validated", "serving"} =>
            /\ request[q].token \in DOMAIN issued
            /\ issued'[request[q].token] = issued[request[q].token]
    BY <1>0, IssuedKept, Positions
  <2> QED BY <1>1, <1>2, <1>3, <2>1 DEF GroundInv
<1>4. CASE request'[q].stage \notin {"validated", "serving"}
  BY <1>1, <1>4
<1>5. CASE Validate(q)
  <2> DEFINE t == request[q].token
  <2>1. CASE Found(t, request[q].at)
    <3>1. /\ request[q].stage = "arrived"
          /\ request'[q] = [stage |-> "validated", token |-> t,
                            permission |-> request[q].permission,
                            user |-> sessions[t].user]
      BY <1>0, <1>5, <2>1 DEF Validate, Goto
    <3>2. t \in DOMAIN issued /\ issued'[t] = issued[t]
      BY <1>0, <3>1, Positions, IssuedKept
    <3>3. t \in DOMAIN sessions /\ sessions[t].user = issued[t]
      BY <2>1, <3>2 DEF Found, RowInv, IssuedRows
    <3>4. "session" \in grounds[q]
      <4>1. SessionHolds(request[q])
        BY <2>1, <3>1, <3>3 DEF Found, SessionHolds
      <4> QED BY <4>1 DEF GroundInv, Grounds
    <3> QED BY <1>1, <1>2, <3>1, <3>2, <3>3, <3>4
  <2>2. CASE ~Found(t, request[q].at)
    <3>1. request'[q] = Idle
      BY <1>0, <1>5, <2>2 DEF Validate, Goto
    <3> QED BY <1>0, <1>1, <3>1
  <2> QED BY <2>1, <2>2
<1>6. CASE Authorize(q)
  <2>1. request[q].stage = "validated"
    BY <1>6 DEF Authorize
  <2>2. CASE HasPermission(request[q].user, request[q].permission)
    <3>1. /\ request'[q].stage = "serving"
          /\ request'[q].token = request[q].token
          /\ request'[q].user = request[q].user
      <4> DEFINE n == [request[q] EXCEPT !.stage = "serving"]
      <4>1. request'[q] = n
        BY <1>0, <1>6, <2>2 DEF Authorize, Goto
      <4>2. request[q] \in Request
        BY <1>0
      <4>3. n.stage = "serving" /\ n.token = request[q].token /\ n.user = request[q].user
        BY <2>1, <4>2, StageExcept
      <4> QED BY <4>1, <4>3
    <3>2. /\ request[q].token \in DOMAIN issued
          /\ issued'[request[q].token] = issued[request[q].token]
      BY <1>0, <2>1, Positions, IssuedKept
    <3>3. request[q].user = issued[request[q].token] /\ "session" \in grounds[q]
      BY <2>1 DEF GroundInv
    <3>4. "permission" \in grounds[q]
      <4>1. PermissionHolds(request[q])
        BY <2>1, <2>2, <3>3 DEF PermissionHolds
      <4> QED BY <4>1 DEF GroundInv, Grounds
    <3> QED BY <1>1, <1>2, <3>1, <3>2, <3>3, <3>4
  <2>3. CASE ~HasPermission(request[q].user, request[q].permission)
    <3>1. request'[q] = Idle
      BY <1>0, <1>6, <2>3 DEF Authorize, Goto
    <3> QED BY <1>0, <1>1, <3>1
  <2> QED BY <2>2, <2>3
<1> QED BY <1>3, <1>4, <1>5, <1>6, Passes

-----------------------------------------------------------------------------
(* Theorems *)

LEMMA SessionNext == SessionInv /\ [Next]_vars => SessionInv'
<1>1. ASSUME SessionInv, Next PROVE SessionInv'
  BY <1>1, TypeNext, SlotsNext, RowNext, GroundNext DEF SessionInv
<1>2. ASSUME SessionInv, UNCHANGED vars PROVE SessionInv'
  BY <1>2 DEF vars, people, tables, browsers, SessionInv, TypeOK, Request, SlotsHonest,
     RowInv, IssuedRows, Deleters, AuditedOnce, LogoutIsFinal, GroundInv, Grounds,
     SessionHolds, PermissionHolds, HasPermission
<1> QED BY <1>1, <1>2

\* Whatever requests, failures and administrators do, SessionInv holds.
THEOREM SessionInvariant == Spec => []SessionInv
BY SessionInit, SessionNext, PTL DEF Spec

\* Every variable of Sessions keeps its type, and no more checks run than slots.
THEOREM SessionTypes == Spec => []TypeOK
<1>1. SessionInv => TypeOK
  BY DEF SessionInv
<1> QED BY <1>1, SessionInvariant, PTL

\* passwordSlots counts the password checks that run.
THEOREM SlotsHonestTheorem == Spec => []SlotsHonest
<1>1. SessionInv => SlotsHonest
  BY DEF SessionInv
<1> QED BY <1>1, SessionInvariant, PTL

\* A session whose logout was answered with success is gone for good.
THEOREM LogoutIsFinalTheorem == Spec => []LogoutIsFinal
<1>1. SessionInv => LogoutIsFinal
  BY DEF SessionInv, RowInv
<1> QED BY <1>1, SessionInvariant, PTL

\* Every session has its login event and every deleted one its logout event, once.
THEOREM AuditedOnceTheorem == Spec => []AuditedOnce
<1>1. SessionInv => AuditedOnce
  BY DEF SessionInv, RowInv
<1> QED BY <1>1, SessionInvariant, PTL

\* Sessions implements SessionLife: whatever races, fails or is lost, every session
\* is opened once, closed once by its own browser, and audited accordingly.
THEOREM SessionLifeTheorem == Spec => FollowsLife
<1>1. SessionInv /\ [Next]_vars => [Life!Next]_([t \in Tokens |-> SessionOf(t)])
  BY NextLives, Zenon DEF Life!Next
<1> QED
  BY <1>1, InitLife, SessionInvariant, PTL DEF Spec, FollowsLife, Life!Spec

\* A protected handler runs only for a session and a permission that were there since
\* its request arrived.
THEOREM ServedOnGroundsTheorem == Spec => []ServedOnGrounds
<1>1. SessionInv => ServedOnGrounds
  <2> SUFFICES ASSUME SessionInv, NEW q \in Requests, request[q].stage = "serving"
               PROVE  grounds[q] = {"session", "permission"}
    BY DEF ServedOnGrounds
  <2>1. grounds[q] \subseteq {"session", "permission"}
    BY DEF SessionInv, TypeOK
  <2>2. "session" \in grounds[q] /\ "permission" \in grounds[q]
    BY DEF SessionInv, GroundInv
  <2> QED BY <2>1, <2>2
<1> QED BY <1>1, SessionInvariant, PTL

\* FindActiveSession lets a request pass for nobody but the active user whose browser
\* sent it, and never once a logout of its session was answered with success.
EnteredAsStep ==
    \A q \in Requests :
        request[q].stage = "arrived" /\ request'[q].stage = "validated" =>
            /\ request[q].token \notin loggedOut
            /\ request'[q].user = issued[request[q].token]
            /\ active[issued[request[q].token]]

EnteredAs == [][EnteredAsStep]_vars

\* Whatever the request raced with, it enters as its browser's user or not at all.
THEOREM EnteredAsTheorem == Spec => EnteredAs
<1>1. SessionInv /\ [Next]_vars => EnteredAsStep
  <2> SUFFICES ASSUME SessionInv, [Next]_vars, NEW q \in Requests,
                      request[q].stage = "arrived", request'[q].stage = "validated"
               PROVE  /\ request[q].token \notin loggedOut
                      /\ request'[q].user = issued[request[q].token]
                      /\ active[issued[request[q].token]]
    BY DEF EnteredAsStep
  <2> DEFINE t == request[q].token
  <2>1. TypeOK /\ RowInv /\ request \in [Requests -> Request]
    BY DEF SessionInv, TypeOK
  <2>2. Handle
    BY DEF Next, vars
  <2>3. Validate(q)
    BY <2>1, <2>2, Passes DEF Authorize
  <2>4. /\ Found(t, request[q].at)
        /\ request'[q].user = sessions[t].user
    BY <2>1, <2>3 DEF Validate, Goto, Idle
  <2>5. t \in DOMAIN issued
    BY <2>1, Positions
  <2>6. t \in DOMAIN sessions /\ sessions[t].user = issued[t] /\ t \notin loggedOut
    BY <2>1, <2>4, <2>5 DEF Found, RowInv, IssuedRows, LogoutIsFinal
  <2> QED BY <2>4, <2>6 DEF Found
<1> QED BY <1>1, SessionInvariant, PTL DEF Spec, EnteredAs

=============================================================================
