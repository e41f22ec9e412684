----------------------------- MODULE LoginLimiter -----------------------------
(***************************************************************************)
(* The login limiters: loginLimiter of internal/server/auth.go and the     *)
(* order in which handleLogin consults them.  A request first spends an    *)
(* attempt of its source, then one of its source and account together;     *)
(* a successful login forgets the attempts of the latter.  Requests run    *)
(* concurrently and each call of a limiter holds that limiter's mutex.     *)
(*                                                                         *)
(* A limiter is a function from the keys it remembers to entries.  The     *)
(* histories `sourceChecks` and `loginChecks` tell, per key and for each   *)
(* age within a window, what happened no longer ago than that: how many    *)
(* attempts the limiter let through (`passed`), how often it forgot an     *)
(* entry that was live (`forgotten`), and how many it let through since it *)
(* last did (`since`).  The first two are never reset.                     *)
(***************************************************************************)
EXTENDS Integers, FiniteSets, Functions

CONSTANTS
    Requests,     \* login requests in flight
    Sources,      \* addresses
    Accounts,     \* submitted e-mail addresses
    Window,       \* loginAttemptWindow
    SourceLimit,  \* loginSourceAttemptLimit
    LoginLimit,   \* loginAttemptLimit
    MaxEntries,   \* maxLoginLimiterEntries
    MaxForgotten, \* bound: how many steps of a limiter may forget live entries within a window
    MaxNow        \* bound of the clock

ASSUME LimiterAssumptions ==
    /\ Window \in Nat \ {0}
    /\ SourceLimit \in Nat \ {0}
    /\ LoginLimit \in Nat \ {0}
    /\ MaxEntries \in Nat \ {0}
    /\ MaxForgotten \in Nat
    /\ MaxNow \in Nat

VARIABLES
    now,           \* the clock of both limiters
    request,       \* per request, how far handleLogin has come and for which key
    source,        \* the source limiter's attempts
    login,         \* the login limiter's attempts
    sourceChecks,  \* history of the source limiter
    loginChecks    \* history of the login limiter

vars == <<now, request, source, login, sourceChecks, loginChecks>>

Keys == Sources \X Accounts

Idle == [stage |-> "idle"]

Ages == 0..(Window - 1)

None == [a \in Ages |-> 0]

Never == [passed |-> None, forgotten |-> None, since |-> None]

Init ==
    /\ now = 0
    /\ request = [q \in Requests |-> Idle]
    /\ source = [s \in {} |-> 0]
    /\ login = [k \in {} |-> 0]
    /\ sourceChecks = [s \in Sources |-> Never]
    /\ loginChecks = [k \in Keys |-> Never]

-----------------------------------------------------------------------------
(* loginLimiter.Allow *)

Live(entry, t) == t - entry.start < Window

LiveKeys(m, t) == {k \in DOMAIN m : Live(m[k], t)}

Oldest(m, t) ==
    {k \in LiveKeys(m, t) : \A l \in LiveKeys(m, t) : m[k].start <= m[l].start}

\* Mutant: the room that is made is all there is.
EvictAll(m, k, t) ==
    IF k \in DOMAIN m \/ Cardinality(DOMAIN m) < MaxEntries
    THEN {m}
    ELSE IF Cardinality(LiveKeys(m, t)) < MaxEntries
    THEN {Restrict(m, LiveKeys(m, t))}
    ELSE {Restrict(m, {})}

\* Mutant: only expired entries are deleted.
EvictExpired(m, k, t) ==
    IF k \in DOMAIN m \/ Cardinality(DOMAIN m) < MaxEntries
    THEN {m}
    ELSE {Restrict(m, LiveKeys(m, t))}

\* A new key makes room for itself: expired entries go first, and if that is not
\* enough one of the oldest, whichever the iteration meets first.
Evict(m, k, t) ==
    IF k \in DOMAIN m \/ Cardinality(DOMAIN m) < MaxEntries
    THEN {m}
    ELSE IF Cardinality(LiveKeys(m, t)) < MaxEntries
    THEN {Restrict(m, LiveKeys(m, t))}
    ELSE {Restrict(m, LiveKeys(m, t) \ {old}) : old \in Oldest(m, t)}

\* The entry an attempt is counted in: a new window starts with the attempt.
Attempt(m, k, t) ==
    IF k \in DOMAIN m /\ Live(m[k], t) THEN m[k] ELSE [count |-> 0, start |-> t]

Put(m, k, entry) == [l \in DOMAIN m \cup {k} |-> IF l = k THEN entry ELSE m[l]]

\* Mutant: every attempt starts the window anew.
CountedFromNow(m, k, t) ==
    Put(m, k, [count |-> Attempt(m, k, t).count + 1, start |-> t])

Counted(m, k, t) ==
    Put(m, k, [Attempt(m, k, t) EXCEPT !.count = @ + 1])

\* Mutant: one attempt more than the limit.
AllowedOnceMore(m, k, t, limit) == Attempt(m, k, t).count <= limit

Allowed(m, k, t, limit) == Attempt(m, k, t).count < limit

\* What Allow may answer, and the limiter it leaves; a refusal is not counted.
Allow(m, k, t, limit) ==
    {IF Allowed(e, k, t, limit) THEN [ok |-> TRUE,  limiter |-> Counted(e, k, t)]
                                ELSE [ok |-> FALSE, limiter |-> e]
        : e \in Evict(m, k, t)}

OneMore(counts) == [a \in Ages |-> counts[a] + 1]

Pass(history) ==
    [history EXCEPT !.passed = OneMore(@), !.since = OneMore(@)]

Forget(history) ==
    [history EXCEPT !.forgotten = OneMore(@), !.since = None]

\* The history of a limiter that is `m` at t and becomes `next`, when it lets an
\* attempt for each of `passing` through.
Note(checks, m, next, passing, t) ==
    [l \in DOMAIN checks |->
        IF l \in LiveKeys(m, t) \ DOMAIN next THEN Forget(checks[l])
        ELSE IF l \in passing THEN Pass(checks[l])
        ELSE checks[l]]

\* The bound: a step that forgets comes while fewer are forgotten.
WithinBound(checks, m, next, t) ==
    \/ LiveKeys(m, t) \subseteq DOMAIN next
    \/ FoldFunction(LAMBDA history, n : history.forgotten[Window - 1] + n, 0, checks)
           < MaxForgotten

Passing(answer, k) == IF answer.ok THEN {k} ELSE {}

-----------------------------------------------------------------------------
(* handleLogin *)

\* The limiter's answer decides whether the request goes on or is refused.
Answered(q, answer, next, k) ==
    request' = [request EXCEPT ![q] = IF answer.ok THEN [stage |-> next, key |-> k] ELSE Idle]

AllowSource(q) ==
    /\ request[q] = Idle
    /\ \E k \in Keys : \E answer \in Allow(source, k[1], now, SourceLimit) :
           /\ source' = answer.limiter
           /\ sourceChecks' = Note(sourceChecks, source, source', Passing(answer, k[1]), now)
           /\ WithinBound(sourceChecks, source, source', now)
           /\ Answered(q, answer, "admitted", k)
    /\ UNCHANGED <<now, login, loginChecks>>

AllowLogin(q) ==
    /\ request[q].stage = "admitted"
    /\ \E answer \in Allow(login, request[q].key, now, LoginLimit) :
           /\ login' = answer.limiter
           /\ loginChecks' =
                  Note(loginChecks, login, login', Passing(answer, request[q].key), now)
           /\ WithinBound(loginChecks, login, login', now)
           /\ Answered(q, answer, "checking", request[q].key)
    /\ UNCHANGED <<now, source, sourceChecks>>

\* sessions.Login returns an error.
LoginFails(q) ==
    /\ request[q].stage = "checking"
    /\ request' = [request EXCEPT ![q] = Idle]
    /\ UNCHANGED <<now, source, login, sourceChecks, loginChecks>>

\* sessions.Login succeeds: the attempts of the key are forgotten, those of
\* requests still in flight included.
Reset(q) ==
    /\ request[q].stage = "checking"
    /\ request' = [request EXCEPT ![q] = Idle]
    /\ login' = Restrict(login, DOMAIN login \ {request[q].key})
    /\ loginChecks' = Note(loginChecks, login, login', {}, now)
    /\ WithinBound(loginChecks, login, login', now)
    /\ UNCHANGED <<now, source, sourceChecks>>

Aged(counts) == [a \in Ages |-> IF a = 0 THEN 0 ELSE counts[a - 1]]

Age(history) ==
    [passed |-> Aged(history.passed), forgotten |-> Aged(history.forgotten),
     since |-> Aged(history.since)]

Older(checks) == [k \in DOMAIN checks |-> Age(checks[k])]

Tick ==
    /\ now < MaxNow
    /\ now' = now + 1
    /\ sourceChecks' = Older(sourceChecks)
    /\ loginChecks' = Older(loginChecks)
    /\ UNCHANGED <<request, source, login>>

Next ==
    \/ \E q \in Requests : AllowSource(q) \/ AllowLogin(q) \/ LoginFails(q) \/ Reset(q)
    \/ Tick

Spec == Init /\ [][Next]_vars

-----------------------------------------------------------------------------
(* Properties *)

Entries(m, keys, limit) ==
    /\ DOMAIN m \subseteq keys
    /\ \A k \in DOMAIN m : m[k] \in [count : 1..limit, start : 0..now]

Counts == [Ages -> Nat]

History == [passed : Counts, forgotten : Counts, since : Counts]

\* Every variable keeps its type; an entry holds one attempt at least and no more
\* than the limit's, and its window has begun.
TypeOK ==
    /\ now \in Nat
    /\ request \in
           [Requests -> {Idle} \cup [stage : {"admitted", "checking"}, key : Keys]]
    /\ Entries(source, Sources, SourceLimit)
    /\ Entries(login, Keys, LoginLimit)
    /\ sourceChecks \in [Sources -> History]
    /\ loginChecks \in [Keys -> History]

\* However many addresses and accounts are tried, neither limiter outgrows its bound.
MemoryBounded ==
    /\ Cardinality(DOMAIN source) <= MaxEntries
    /\ Cardinality(DOMAIN login) <= MaxEntries

Slides(history, limit) ==
    history.passed[Window - 1] < (2 + history.forgotten[Window - 1]) * limit

\* The attempts let through for a key within any interval as long as the window are
\* fewer than twice the limit, and the limit more for each time that a live entry of
\* the key was forgotten in it, be it by a successful login or to make room.  Wherever
\* the fixed windows fall, a new one starts no earlier than the old one's end, so an
\* interval that meets both misses an attempt of the first.
SlidingBound ==
    /\ \A s \in Sources : Slides(sourceChecks[s], SourceLimit)
    /\ \A k \in Keys : Slides(loginChecks[k], LoginLimit)

\* A live entry counts exactly the attempts let through since its window began,
\* whatever was evicted, expired or reset in between.
CountHonest ==
    /\ \A s \in LiveKeys(source, now) :
           source[s].count = sourceChecks[s].since[now - source[s].start]
    /\ \A k \in LiveKeys(login, now) :
           login[k].count = loginChecks[k].since[now - login[k].start]

\* From the live entries of a limiter a step drops one at most: that of a successful
\* login, or one to make room, where the limiter is full of live entries and none of
\* them is older.
DropsOne(m, next, succeeded) ==
    LET dropped == LiveKeys(m, now) \ DOMAIN next
    IN  \A k \in dropped :
            /\ dropped = {k}
            /\ \/ k \in succeeded
               \/ Cardinality(LiveKeys(m, now)) = MaxEntries /\ k \in Oldest(m, now)

\* Keys of the logins that end in this step.
Ended == {request[q].key : q \in {q \in Requests : /\ request[q].stage = "checking"
                                                  /\ request'[q] = Idle}}

\* Attempts that still count are forgotten for nothing else, and no others with them.
EvictsOldest ==
    [][DropsOne(source, source', {}) /\ DropsOne(login, login', Ended)]_vars

=============================================================================
