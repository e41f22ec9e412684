# TLA+ development for motekar-panel

Motekar Panel is a server control panel in Go: a web panel that keeps its state
in PostgreSQL, a privileged agent that performs the panel's actions behind a
Unix socket, and an installer. This directory models the parts whose
correctness depends on the order in which things happen, or on the agreement of
several checks, verifies them with TLC and proves the safety of the job store, its
workers, the agent's socket and its calls, the provisioning of the database, the
installer, the login limiters and the sessions with TLAPS.

    tlc -workers 2 -config JobStoreContended.cfg MCJobStore.tla
    tlapm JobStoreProofs.tla

## Inventory

| Component | State | Operations | What is hard about it | What makes it correct | Module |
|---|---|---|---|---|---|
| Job queue store (`internal/jobs/jobs.go`, `sqlstore.go`) | rows of `jobs`, `job_logs`, audit events | Enqueue, ClaimOne, Succeed, Fail, Retry, Cancel | concurrent claims under READ COMMITTED, leases, lost commits, stale workers | attempts within budget, one holder per claim, live leases honoured, settled jobs stay settled, one job per resource | `JobStore`, `JobLifecycle` |
| Job worker and panel process (`worker.go`, `cmd/motekar-panel/main.go`) | the loop's position, the claim in hand, two shutdown contexts | poll, execute, finalize with retries, shutdown in two stages | timeouts against leases, uncertain outcomes, crashes between effect and record | no overlapping executions, nothing recorded that is not known, every job settles, every shutdown ends | `JobWorker` |
| Agent process and socket (`internal/agent/transport.go`, `cmd/motekar-agent/main.go`) | the lock file, the socket path, the listener | listen, clean up a stale socket, close, drain | two agents starting at once, crashes that leave a socket behind | one listener, its path is never taken away, a stale socket never blocks a start | `AgentSocket` |
| Agent transport and handler (`transport.go`, `server.go`) | a kept connection, in-flight requests | ExecuteJob, handleAction | lost or late answers, requests net/http sends again, agents that drain or die | an error that says "not performed" is true, a result belongs to its call | `ActionTransport`, `ActionCall`, `AgentActions` |
| Agent action registry (`internal/agent/actions.go`) | a registry, constant once the agent serves | define, validate, decode | JSON's laxness at every depth, bounds on both sides | only the declared fields of the declared types get to an action | `ActionHandler` |
| Sessions (`internal/auth/session*.go`) | sessions, users, password slots | Login, Logout, Validate | deactivation between login and request, revocation, slots in use | a validated session is unexpired, unrevoked and of an active user; each is opened, closed and audited once | `Sessions`, `SessionLife` |
| Login limiter (`internal/server/auth.go`) | attempts per address and window | Allow, Reset | capacity, window boundaries, reset racing attempts | bounded memory and bounded attempts per window | `LoginLimiter` |
| First administrator (`internal/auth/bootstrap.go`, `sqlstore.go`) | users and roles | CreateAdmin | two bootstraps at once | at most one first administrator, complete with its role | `Bootstrap` |
| RBAC (`internal/rbac`) | roles, permissions, assignments | Authorize | roles that change under a request | a page is served only to a permission held since the request arrived | `Sessions` (partly) |
| Audit log (`internal/audit`) | audit events | Record, List | an event without its change, or the reverse | the event of a job mutation commits with it | part of `JobStore` |
| Web server setting (`internal/settings`) | one setting | Select | reading, saving and auditing are separate statements | chosen once, and the audit log names the choice made | `WebServerSetting` |
| Migrations (`internal/database/migration.go`) | schema_migrations, the schema | Up | two processes at once, failure half way | each migration applied once and in order | `Migrations` |
| Installer (`internal/installer`, `cmd/motekarctl`) | the host | plan, apply | a step that fails after others changed the host, a second run beside or after the first | an installed panel is complete and is never disturbed by another run | `Installer` |
| Preflight, OS detection (`internal/preflight`, `internal/osdetect`) | none | collect, evaluate | units, rounding and boundaries | exactly the hosts that fit are let through | `Preflight` |
| Panel HTTP handlers (`internal/server`) | none of their own | requests | permission before mutation | every mutation is behind its permission | `RequirePermission` in `Sessions` |
| Configuration, logging, build info, adapters | none | | | | not modelled |

How they interact: HTTP handlers and the worker share the database only; the
worker calls the agent over the Unix socket with the job's idempotency key; the
installer migrates the database, records the web server, creates the first
administrator and installs systemd units that restart the panel and the agent on
failure.

| Module | Extends | Proofs | Instances |
|---|---|---|---|
| `JobStore` | (`JobLifecycle` by refinement) | `JobStoreProofs` | `MCJobStore` |
| `JobWorker` | `JobStore` | `JobWorkerProofs` | `MCJobWorker` |
| `AgentSocket` | | in `ActionTransportProofs` | |
| `ActionTransport` | `AgentSocket` (`ActionCall` by refinement) | `ActionTransportProofs` | |
| `AgentActions` | `ActionTransport`, `ActionHandler` | | `MCAgentActions` |
| `Migrations` | | `MigrationsProofs` | |
| `Bootstrap` | `Migrations` | `BootstrapProofs` | `MCBootstrap` |
| `WebServerSetting`, `Preflight` | | in `InstallerProofs` | |
| `Installer` | `Bootstrap`, `WebServerSetting`, `Preflight` | `InstallerProofs` | `MCInstaller` |
| `LoginLimiter` | | `LoginLimiterProofs` | `MCLoginLimiter` |
| `Sessions` | (`SessionLife` by refinement) | `SessionsProofs` | `MCSessions` |

## JobStore: the durable queue

One row record per job, the number of error lines and audit events each job
has, and, per worker, how far its claim statement has come.

* **A claim is not atomic.** `ClaimOne` is one SQL statement, but PostgreSQL
  answers it from a snapshot, then visits and locks rows (rechecking the newest
  version of a row that was updated since the snapshot, but not the subquery),
  then commits. The model has a step for each: `ClaimCall` (Go reads the clock,
  the `$1` of the statement), `ClaimSnapshot`, `ClaimLock` and `ClaimCommit`,
  or `ClaimCommitLost` when the row does not reach the process, or `ClaimAbort`.
  Everything else may happen in between. `expired_candidates`, `next_candidate`
  and `next` lock in one step; their order within the statement decides nothing.
* **Succeed, Fail, Retry, Cancel and Enqueue** are transactions on one row under
  its row lock and are one step each: `MarkSucceeded` and `MarkFailed` with an
  answer that arrives or is lost, `FinalizeRejected` for `ErrInvalidTransition`,
  `Abandon` when the worker lets go of a claim without asking. A success also commits the log
  entries of the agent's result, up to `MaxResultLogs`, some of level error: `MarkSucceeded` takes
  their number. They wait for a
  row a claim statement holds (`~Locked`). A refused Retry, Cancel or Enqueue
  changes nothing and is not an action.
* **Data.** A job identifier also stands for its idempotency key (a unique
  index). The claim token, a random UUID, is the number of the claim, 0 for
  NULL; the model checks with it exactly what the code checks with the UUID,
  equality. Payloads, results and reporting timestamps are left out. Time is a
  number both Go and SQL read, as in the code, where every timestamp is a
  parameter.

`JobLifecycle` is the abstract specification: per job a stage (absent, queued, running,
succeeded, failed and retryable, dead, cancelled), its attempts and the number of
claims, error lines and audit events it has left, and the moves between them; no worker,
lease, token, snapshot or lock. `FollowsLifecycle` is its specification under the
refinement mapping of `JobStore`: every row operation, by whatever interleaving it was
reached, is a move of that job or nothing, and `expired_candidates` moves several jobs at
once, each at most once.

Properties (the theorems are for all constants): `StoreInv` with `RowsSound` (the table's
CHECK constraints, and no queued row without attempts left) and `HolderUnique`,
`AttemptBudget`, `FailureLedger`, `ResourceExclusive`, `LeaseHonoured`, `FollowsLifecycle`.
`FailureLedger` says that every failure is in the log: an error line for each audited retry and for
the failure a job is in; and that a claim that failed left one, while the one that succeeded left the
entries of its result, once. How many of those are of level error is up to the agent, so a job
that succeeded may have `MaxResultLogs` error lines more.

## JobWorker: worker loops, panel processes and the agent

Extends `JobStore`: every action that touches the queue is the conjunction of an
action of the store and a step of the loop of `worker.go`. `phase` is the
loop's position, `outcome` what `Execute` returned, `stopping` how far the
shutdown of `main.go` has come (claim context, then action context cancelled).

A worker of the model is a session of PostgreSQL with the loop that runs on it, and there are more
of them than the `Panels` that may run at once. A statement is not over because its client
is gone: when a process dies, a context is cancelled or a connection breaks during a claim
statement or a finalization, the session is left behind (`LeaveBehind`) and goes on at the server
(`ServerClaims`, `ServerFinalizes`), where it commits, unread, or is rolled back; meanwhile the loop
goes on with another connection of its pool (`MoveOn`), or the process is started again
(`Restart`) on a free session. So even one panel process can have two claim statements under way.

* `AgentPerforms` is the agent's side of the call. `Orphaned` says that a
  request whose caller gave up may still be performed later (`OrphanPerforms`):
  the agent does not observe the cancellation before it performs the action.
* `Resend` is net/http repeating a request with an idempotency key when the connection
  it was sent on breaks. `JobWorker` assumes no limit on it: the worker shares its client with the
  inventory pages (`main.go`), so there may be several kept connections to repeat a request on.
* `Unknown` is the condition of `runOnce` under which the claim is left leased:
  an error, and a context that is done or an error after the request was
  written. A result (not an error) is finalized even after the deadline.
* `Finalize*` is `retryFinalization`: up to three tries, each of which may
  commit without an answer; `ErrInvalidTransition` ends them; the finalization
  timeout may end them earlier (`GiveUp`). A result the column's size check
  refuses (`unstorable`) is never acknowledged.
* `Crash` at any point, `Restart`, `StopClaims`, `StopActions`. `ClaimFails`: a claim statement
  that fails, or whose context is cancelled, has committed, is rolled back, or is left behind.

Properties: `SuccessWasPerformed` (a recorded success was performed, and a claim sends its
action once, repeats by net/http apart), `NoOverlap`, `UnknownStaysLeased`, and the
liveness properties `JobsSettle` and `ShutdownEnds`.

`NoOverlap` rests on an assumption about the environment. `Execute` and the finalizations have
timeouts, but `ClaimOne` runs under the claim context, which has none: nothing in the code
bounds the time from Go's reading of the clock to the arrival of the claimed row. `MaxStall` is that
time, and `LeaseOutlivesExecution` says that with the execution timeout it stays below the lease. With
the defaults a claim that stalls for five minutes may be executed while its lease runs out.

Three further properties are proved (`JobWorkerProofs`) and set no run aside; TLC found no
violation of them on the instance of `worker_safety`, with and without administrative retries:
`PerformedWithinBudget` (what attempts, leases and claims come to for the agent: an action is
performed at most as often as attempts were granted), `RecordedAsReturned` (a row stops running
by the expiry of its last lease or as its executor said) and `UncertainIsReclaimed` (what
becomes of an unknown outcome while attempts are left).

**Fairness.** Weak fairness of `Loop(w)`: the goroutine runs while its process
lives; executions and finalizations come to an end, which their timeouts see to, and so do claim
statements, which have no timeout: PostgreSQL answers them or the connection breaks.
Weak fairness of `ServerClaims(w) \/ ServerFinalizes(w)`: PostgreSQL ends what it was given. Weak
fairness of some `Restart(w)`: systemd restarts the panel on failure;
after a deliberate stop somebody starts it again. Weak fairness of
`Clock`: time passes. The clock only stops when no timer is pending and waits
at a deadline until the step that was due is taken (`Punctual`), so timeouts are
neither early nor ignored. No fairness is assumed of the agent, of clients, of
statements succeeding or of faults not happening; the number of faults is bounded.

## AgentSocket: one agent per path

`ListenUnix` and `lockedListener`, one action per system call: `AcquireSocketLock`,
`Inspect`, `Dial`, `RemoveStale`, `Listen`, `Chmod`, then `Stop`, `Unlink`,
`CloseListener`, `ReleaseSocketLock` and `Exit`. After a failed chmod (`ChmodFails`) the way back has
the same `Unlink` and `CloseListener`, then the code's own removal of the path (`RemoveBound`) and
the deferred release of the lock (`Leave`). What matters is what may
happen between two of them: the file that was dialled is not looked at again
before it is removed, and Go's listener unlinks its path by name when it closes,
whoever owns the path by then. `path` is what the path names, `holder` who has
the `flock`. An agent may `Crash` anywhere: the kernel closes its descriptors,
so the lock goes, and the socket file stays (`Stale`).

A program that ignores the lock (`Foreign`, external) may bind the path as well. The
code tells it from a stale socket by dialling. Assumed of it: it binds only a
free path and removes only its own socket. Not modelled: the ownership and mode
checks of the directory and its ancestors, assumed to pass, and accept queues
so full that a dial to a live socket fails.

Properties: `OneServer` (at most one listener, and its path leads to it) and, under
fairness, `ServedAgain`. The
fairness is that of the unit systemd runs (`Restart=on-failure`): an agent that is
off is started, after a deliberate stop by somebody, and runs on; and the foreign
program ends some time. Nothing is promised while a file that is not a
socket is at the path: `ListenUnix` refuses to remove it.

## ActionTransport, ActionHandler and AgentActions: calls of actions

`ActionTransport` extends `AgentSocket` with callers. A caller is a `UnixClient`: it has one
connection, which net/http keeps between calls (`conn`, `reused`), and per call the
`wroteRequest` of its `httptrace` (`wrote`). `ExecuteJob` validates, `Connect` dials where there
is no connection, `Send` writes the request, and then the call ends in one of the ways it has:
`AnswerWith` a refusal, an error or a result, `Lost` when the connection breaks, `TimeOut`.
`SendAgain` is what net/http does where the kept connection of a request with an
Idempotency-Key turns out to be broken.

A request at the agent is an item of `work`, apart from its caller: it stays when the
caller stops waiting (`heard` is false then), is performed (`Perform`) or refused
(`Refuse`; or `RefuseUnread`, whatever it asks for, when its body cannot be read or not within
`ReadTimeout`), may be performed while the agent drains, and goes when its agent dies
(`Break`). `ReplyTooLate` is the agent's `WriteTimeout`: the action was performed and
cannot be answered.

`ActionHandler` is what the agent accepts: `Explicit` is `DefineAction`'s check of a payload type,
embedded fields, maps and byte slices included, `Validates` the definition's own validator (which
fields it requires), `Valid` the client's checks, `HandleAction` the handler's envelope, name, size and payload checks
with the code's decoding of JSON (the last of two equal keys, names without regard to case,
fields that are unknown refused) and its own checks of `UniqueKeys` and `FieldNamesMatch` at
every depth. A JSON value is a tree of kinds, not text. `AgentActions` puts both together:
the verdict and the client's checks of the transport are those of the handler, for the requests
that `Content` gives.

* `UndoneUnlessSent`: an answer of which the worker concludes that nothing has happened
  (invalid, not sent, refused) is true, for ever: the action was not performed and no request
  of the call is still on its way. This is what allows the worker to settle such a job at once. The
  property names the one exception the code has: net/http repeats a keyed request that was performed,
  the body of the repetition cannot be read, and the agent's refusal of it is the answer.
* `FollowsContract`: the calls implement `ActionCall`, the abstract specification of a call: its
  request, its answer, whether it was ever sent, whether an agent may still act on it (`pending`)
  and how often it was performed. There is no socket, connection, server or crash in it. Its moves
  say what each answer promises: an error after sending is `Uncertain`, and only then can the
  action still be performed; a result, an error or an unreadable answer is `Reply`, to a call that was
  performed and has nothing pending (so never the answer of an earlier call on the connection);
  `Send` happens again only with a key, after an earlier call, with nothing pending. `sent` is mapped to
  `wrote` while the call is under way, and to what the answer says afterwards. `ResultMeansDone` is
  the part of it about results; it is proved, and sets no run aside.
* `AtMostTwice`: what net/http repeats is performed twice at most, and only with a key and
  on a connection kept from an earlier call. This is for a client whose calls come one after the
  other and which therefore keeps one connection (the model's caller). When a page's call to the
  agent overlaps the worker's, http.Transport keeps a connection for each, a broken one leads to
  the next, and a request may be repeated on each of them; `JobWorker`, and what is proved of
  it, does not rely on `AtMostTwice`.
* `AcceptedExactly`: a call that was performed had a payload that belongs to its action; and whatever
  else had been asked for, the payloads that get to an action are exactly those that belong to it, and
  no bound of the server is below what the client lets through. The reference (`Proper`) shares no
  definition with the agent's checks and does not follow their recursion: a type and a document are
  taken apart into their places (`PlacesOf`, `PlacesWritten`), and a document belongs to a type when it
  writes each of its places once, every one of them is a place of the type that takes its kind, and
  what the validator requires is there. Which types may be defined at all is said of their places,
  too (`PlainlyDeclared`), and asked of every definition somebody may write, not of those the
  registry let through.

Assumed: all agents that share the path have the same actions, and the foreign program never
answers a request. Not modelled: what the three actions read of the host, and the methods of the
client that only read.

## Migrations and Bootstrap: a fresh database

`Migrations` is `Runner.Up` as run by `motekar-panel migrate` and by the installer.
No lock orders two runs: each reads `schema_migrations` once (`AppliedVersions`) and
applies what was missing then, a transaction per migration (`ExecuteSQL`,
`InsertVersion`, `Commit`). What keeps a migration from taking effect twice is
the primary key of the version row in the same transaction: the second run
waits for the first one's insert and fails. A migration's SQL may itself be
repeatable (`Rerunnable`, like `000001`, which creates what is not there) or not
(`000005`, which adds constraints). `effects` counts what the SQL has done.
Runners may be of different releases; nothing is assumed of the releases.

`Bootstrap` extends it with `CreateAdmin`, statement by statement, so that a bootstrap may
run before, between and after the migrations it depends on: `CountUsers` fails where
the tables are missing, `GrantOwner` where the role is not seeded. The advisory lock
is requested first; the count is a statement of its own, whose snapshot is taken
once the lock has been granted. `End` is the end of the transaction, which
releases the lock. Validation and password hashing happen before the transaction
and are left out.

Properties: `MigrationInv` (with `AppliedOnce`), `InOrder`, `OneFirstAdmin`,
`AdminComplete` (`SuccessMeansMigrated` and `AnswerTrue` are proved), and under fairness `RerunCompletes` and
`BootstrapEnds`. Fairness: runs and transactions come to an end (their contexts
expire, at the latest); a failed command is run again, by its operator; and
PostgreSQL grants a lock in the order of its requests, which is why `Lock` is
strongly fair.

## Installer, Preflight and WebServerSetting: an installation

`Installer` composes everything `motekarctl install apply` does to a host. `RunInstallApply`
collects the facts and evaluates them; then each action of `FullInstaller.Execute` that changes
the host is a step: the PostgreSQL role and the database (or the external one), the web
server, the migrations (`Runner.Up`, all of `Migrations`' steps), the selection of the web
server (`Select`, all of `WebServerSetting`'s), the environment file with the unit files, the
services, the first administrator (`CreateAdmin`, all of `Bootstrap`'s). `Interrupted` is a command
that fails, the 30 minutes that are over, or the death of the process, between any two of them;
the components have failures of their own (`Disturbed`). What a run has done to the host
stays, several installations may run at once, and any of them may be started again; so the state
after a failed run is where the next one begins. `ServerStopped` is the operator who frees the
web ports, which is what lets a later run past the preflight.

A database URL stands for the password in it, and a password for the number of the run that
generated it: the model tells apart what each run's credentials are without keeping them. All
installations of a host use the same database.

`Preflight` has what the collector computes of a host (its conversions of kB and MB, the last
`ID=` line of os-release, systemd by its directory or by `/proc/1/comm`), every check of `Run`, and
the facts of `--sample`; `Fits` is the reference, in the host's own units. `WebServerSetting` is
`Select` statement by statement: read, save with the upsert's WHERE, record the event, the events
of a refused change, each of which may fail or be cut off.

* `CredentialsAgree`: the password in `panel.env` is the one the role has, however many runs
  failed or raced: no run replaces the role of another, or writes a URL of a database it has not
  created.
* `PanelHasDatabase`, `InstalledMeansComplete`: the panel is only started on a migrated database with
  a web server recorded, and an installation that reports success has everything it says.
* `InstalledStays`: once a panel has been started no run, with whatever options, changes its password,
  its environment, its setting or its service.
* `OneRunServes`: of the runs that race one at most is past the setting, and none gets there beside
  a run that has installed the panel. A run that failed past the setting is not counted any more.
* `SettingTruthful`: the audit log tells one selection at most, the true one, and a refusal only
  where there was something to protect, although the statements are separate.
* `PreflightSound`: apart from `--sample` a run gets past the preflight exactly on the hosts that fit.

The unit files, packages other than the web server's, the agent's service (see `AgentSocket`) and
what `install plan` prints are left out. There is nothing to be live: an installation that fails
ends, and in many states no later run can succeed (see Findings).

## LoginLimiter: attempts per address and account

Two limiters and, per request, how far `handleLogin` has come: it spends an attempt of
its address (`AllowSource`), then one of address and account together (`AllowLogin`);
`LoginFails` and `Reset` stand for `sessions.Login` returning. A limiter is a function
from keys to count and window start. Each `Allow` holds the mutex, so it is one step;
between the steps of one request come those of others and the clock. Go's iteration
over the map meets the entries in any order, so which of several oldest entries goes is
a choice. Requests refused before the limiters change nothing; the limiter of audit
records, which has the same code, is left out.

* `MemoryBounded`: at most `MaxEntries` keys, whatever is tried.
* `SlidingBound`: windows are fixed, so more attempts than the limit fit in some
  intervals as long as the window. A successful login, and an eviction at capacity, make the limiter
  forget what it has counted for a key, and it lets the limit through anew. The
  bound is what is left: for a key fewer pass than twice the limit, and the limit more for each time
  that a live entry of the key was forgotten within the interval. Nothing limits how many successful
  logins there are, so neither is there a bound without that condition. The
  histories keep, per age, the attempts let through (`passed`) and the times forgotten
  (`forgotten`) that are no older; nothing resets them.
* `CountHonest`: an entry within its window counts exactly the attempts since it began (`since`, which
  is what was let through since the limiter last forgot the key).
* `EvictsOldest`: a step forgets one live entry at most, that of a login that succeeds or, where
  the limiter is full of live entries, one of the oldest.

There is nothing to be live: a request that is not answered changes nothing here.

## Sessions: from login to a protected page

A request is a handler's position and what it has read so far; the tables are
`sessions` and the login and logout events of `audit_events`, per session.

* **Login** reads the user (`FindUser`), waits for one of `MaxChecks` slots
  (`AcquireSlot`), checks the password with what was read (`CheckPassword`) and writes
  session and event in one transaction (`CreateSession`), whose answer may be lost. An
  address without a user waits for a slot as well. Whether the password is right is a
  choice; the event of a failed login is left out. `Tokens` bounds the sessions
  ever created: `LoginsLeft` lets a login begin only while one is left for it.
* **Logout** is a transaction that deletes the row, keeping it locked
  (`DeleteSession`), records the event and commits (`CommitLogout`). Another logout of
  the same session waits for the lock; what it then finds depends on how the first ended.
* **RequirePermission** validates the session against the clock it read on arrival
  (`Arrive`, `Validate`), asks for the permission (`Authorize`) and runs the handler
  (`Serve`).
* **Around it**, users are deactivated, reactivated and given other roles
  (`Administrate`; no code of the repository does this yet), statements fail and browsers
  go away (`Fails`, which includes rollback), and the panel crashes.

The history `grounds` collects, for a page request, what has been true since it arrived:
that its session was there, unexpired and of an active user, and that this user had the
permission. `ServedOnGrounds` says that a handler runs on both only. It is as strong
as the code allows: the two queries are separate, so both need not be true at one moment
and neither while the handler runs. It implies that after a logout, a deactivation or the
loss of a role no request that arrives later is served while that lasts.

`LogoutIsFinal` needs the second logout to wait for the first: if it reported success
on seeing a locked row, the first could still roll back.

`SessionLife` is the abstract specification: per session a stage (absent, open, closed), its user,
expiry and browser, whether a logout was answered with success, and its login and logout events;
no requests, transactions, locks or slots. A session moves by `Open`, `Close` and `Confirm` only.
`FollowsLife` is that specification under `SessionOf`: however many logouts race for it, fail half
way or lose their answer, a session is opened once and closed once, with one event each, is the
same user's all along, and is closed by nobody but the browser that was given its token. The lock
is needed for two logouts, the transactions for failures and lost answers.

*Fairness.* Strong fairness of the steps of a handler at work: a waiter for a slot or a
row lock is served in its turn (Go's channels and PostgreSQL's locks queue), and checks,
statements and commits end. No request needs to arrive, no browser to go away.

## Runs

| Run | Instance | Shows |
|---|---|---|
| `store_contended` | 2 workers, 1 job, attempts 0, 2 and 3 (0 is raised to 1, 3 is refused), 1 audit | the inductive invariant, budgets and ledgers, honoured leases, and the refinement of `JobLifecycle` |
| `store_race` | 2 workers, 2 jobs on 1 resource | violation: two live leases on one resource |
| `worker_safety` | 2 panels, 1 job, 2 faults, statements that stall | the worker's safety |
| `worker_live` | 1 panel on 2 sessions, 1 job, 1 fault | jobs settle, shutdowns end |
| `worker_queue` | 1 worker, 2 jobs, 1 resource | one job per resource as deployed, and a queue of jobs settles |
| `worker_uncertain` | 1 worker, 1 job, 1 attempt | violation: an uncertain last attempt is failed, not retried |
| `agent` | 2 agents, 1 caller with 2 calls of 4 requests, 11 definitions, 2 faults | one server, true answers, the refinement of `ActionCall`, payloads checked exactly, an agent serves again |
| `provisioning` | 2 migration runs of releases {1} and {1, 2}, 2 bootstraps, 2 faults | migrations once and in order, one complete first administrator, repeated commands end |
| `installer` | 3 installations, 2 at a time, 7 command lines, 7 kinds of host with either plan for PostgreSQL, 1 fault | runs never disturb each other, success is complete, the preflight is exact |
| `install_spelling` | the same with `--web-server Apache` | violation: nginx installed, apache recorded |
| `login_limiter` | 2 requests, 3 addresses, 1 account, 2 entries, window 2, limits 2 and 2, 2 ticks | bounded memory, attempts per interval, exact counts, what is forgotten |
| `sessions` | 2 requests, 1 user, 2 roles, 1 permission, 2 sessions, 1 slot, 1 tick | honest slots, final logouts, the refinement of `SessionLife`, pages on grounds only, every request answered |

**Bounds.** `MaxNow` bounds the clock in the safety runs (in `store_contended` 3 with leases of length
1: a job can be claimed, expire, be reclaimed and expire again); in the liveness
runs it is never reached, or a job would be seen not to settle. `MaxAudits` bounds
retries and cancellations per job, `MaxFaults` crashes, lost answers, failed
statements and stops together, `MaxStall` how long a claim statement may take after
Go read the clock (1 in `worker_safety`, with leases of 3 and executions of 1, the tightest that
`LeaseOutlivesExecution` allows). `MaxForgotten` bounds how many steps of a limiter
forget a live entry within a window. `DelayInputs` has a `run_after` in the past. Two attempts show the first, the last and the one in between
(first of two) because the code only compares `attempts` with `max_attempts`.
`ExpireLimit` stands for the LIMIT of 100. `LeaseOutlivesExecution` is the relation
of the defaults (ten and five minutes, and five left for the stall); without it
`NoOverlap` fails, which its mutant shows. In `agent` two agents let one start while the other
closes or drains, two calls are the least for a kept connection and for the answer of a
call that was given up, two faults allow a crash before and one after a stop; the payloads are all
of two members and one array item at most, over a type with every kind of field and a required one,
so that a key comes twice, in another case, or one level down. The other definitions each have one thing
that must not be registered (an embedded or unexported field, a map, bytes, a name twice, a raw
command, no struct, no name), or nothing at all. The hosts of `installer` fit a profile exactly or
miss it by one unit or one line; three runs let one race another and a third follow both.
In `provisioning` migration 1 creates the tables and
can run again, migration 2 seeds the roles and cannot; two runs and two bootstraps are the
races the code has, and two faults let one of each fail, or one fail twice. In `sessions` two
requests are every pair that can race: two logins for the one slot, two logouts of one
session, a logout or a change of the user under a page request; one tick is a
session's lifetime. In `login_limiter` three keys compete for two entries, and after
two ticks a window of two has ended and the next begins, with an interval that meets both. Deadlock checking is off for the queue, for the limiter, whose requests wait
for nothing but whose clock stops, and for the installer: a system whose jobs are settled
and whose clock has reached its bound may stop, and so may an operator whose runs are used up.

## What is proved

The inductive invariants and their parts are defined in the `...Proofs` modules, next to the lemmas
that need them, except where a run checks them as well (`StoreInv`, `MigrationInv`); type
invariants are with their components.

`JobStoreProofs`, for any number of jobs, workers and resources, any lease and
any inputs, from `StoreAssumptions` alone: type correctness (`TypeCorrect`),
`StoreInv`, from which the properties follow, and `LifecycleTheorem`, the refinement.

`RowsSound`, `AttemptBudget` and `FailureLedger` are not inductive. `RowInv`
relates a row to its job's claims *n*, error lines *e* and audits *a*: the token
of a running row is *n*; *n* is at most max times *a* plus the attempts of the
current budget; a running row has a claim that has left no error line yet, and one that succeeded has
had `MaxResultLogs` for its last claim at most; every retry, and the failure a row is in, has
left one. It is
preserved by every row operation (one lemma each) **provided** a claim
statement writes the row it locked: `LocksSound` says that a locked row satisfies
its condition until the statement ends and no row is locked twice, which is why
every other transaction waits for the lock. `ClaimsSound` keeps the worker's copy
of a claim accurate while the claim is current, so that the `final` computed by
`Queue.Fail` from the copy agrees with the row. `NextStoreInv` has one step per
action; writes to one unlocked row share `RowWritePreserves`. The refinement needs the same
invariant: only with it is a claim's copy of attempts and maximum the row's, so that
what `MarkFailed` makes of the row is what the life cycle says.

`LeaseHonoured` and `SettledStays` follow from the invariant step by step: a
locked row was expired at the statement's clock reading, which is not ahead of
the clock. `ResourceExclusiveTheorem` assumes `OneStatement` throughout (no two claim statements are
under way at PostgreSQL at once, not even one whose client is gone) and strengthens exclusion
with what the snapshot of the one statement still says of the running rows (`ViewSound`).
With two statements the property is false (`store_race`). The deployed single panel process has one
loop, but that alone does not give `OneStatement`: a claim statement that outlives its client may
commit beside the next one.

`JobWorkerProofs`, for any number of processes and jobs and any faults, from `WorkerAssumptions`,
`BackoffsCovered` (the set of backoffs has what `exponentialBackoff` computes) and
`LeaseOutlivesExecution`: `WorkersUseStore` says that the loops implement `JobStore!Spec`, so
all of the above holds under them; for this the store's steps the loops take must be
possible in it. `NoOverlap`, `SuccessWasPerformed` and `UnknownStaysLeased` follow from
`WorkerInv`, of which each part is needed: a claim statement's clock reading is not older than a
stall (`StatementsPunctual`), hence a claim that comes back is leased beyond the execution it starts
(`ExecutionsLeased`), hence nobody else claims the job while it executes; every request at
the agent has a claim or a sending of its own (`RequestsCounted`); and a claim that was left leased
is held by nobody (`LostUnheld`), so that no finalization can settle it. What a session left behind may still do is part
of the invariant: it holds its claim to no other end than the finalization it was asked for. The
refinement carries the store's theorems over: `WorkersFollowLifecycle` and, under `OneStatement`,
`WorkersExclusive`.
`RunningStep` says what may become of a row that runs, in any step of any process: its expiry, a
claim once its lease is over, or the finalization of its holder; `RecordedTheorem` and
`ReclaimedTheorem` are read off it. `PerformedTheorem` puts the two invariants together: the requests
at the agent are counted by the claims (`RequestsCounted`), and the claims by the attempts
(`RowInv`).

`ActionTransportProofs`, for any number of agents, callers, calls and faults, whatever the requests
and the verdict on them: `SocketInv` says that the lock is held from its acquisition until after
the listener is closed, and that the path names an agent exactly from its bind to its
unlinking. Two listeners would both hold the lock; that `Unlink` only removes the
agent's own socket follows from its holding the lock. Calls do not touch any of this
(`TransportStep`). `CallInv` is about the calls: `UndoneUnlessSent` alone is not inductive, since
what makes a call that is not answered yet safe to call undone is `wrote`. So `CallerSound` says that a
call of which nothing was written has no request and no effect, and that a call is only sent again
from a connection that an earlier call had used, once; `RequestSound` that whoever waits for
a request has the connection it came on, so that an answer can reach no other call. `Tries`
counts what was and what may yet be performed. For the refinement (`ContractTheorem`) `AskedInv` adds
which calls are without an answer (the current one of a busy caller, and no other), so that a new
call finds the one before it answered, and that what is sent once more has a key. There is one lemma
for each step that touches a call; `OtherCalls` says that it leaves the others alone,
`LoseMoves` that what loses requests only drops them, and `ReturnMoves` which answers fit a call.

`MigrationsProofs`, for any releases (any sets of versions) and any number of
runs: `MigrationInv` adds to `AppliedOnce` that what a run no longer has pending of its
release is applied, and that a version row waiting for its commit is neither
committed nor in another transaction. `CurrentIsLeast` (every nonempty set of naturals has a least
element, from the library's well-foundedness of `<`) gives the order: whoever takes a migration off
its list by applying it comes with all earlier ones of its release applied (`OrderedStep`).

`BootstrapProofs`, beside any migration runs: `BootstrapInv` makes the holder of the lock
the only transaction at work and says that from its count to its commit there is no
administrator. `SchemaRead` adds what the transaction has read of the schema (its count found the
tables, its grant the role), which the migrations beside it cannot take back (`AppliedGrows`).
From both, `FirstAdminTheorem`, an action property: all rows of the first administrator appear in one
step, when nobody has any, on a schema that has tables and roles, and no later step changes them.

`InstallerProofs`, for any number of installations at once and in a row, any hosts, command lines,
releases and faults: `InstallerInv` has the invariants of the three components, `HostSound` (the
URL in the environment is that of the one database, and the panel was started with it), and for
each run what its steps so far have brought about. The two halves of the argument are that
a run gets past its step only by having done it itself (`RunSound`: the URL of a run is the
database's because `CREATE ROLE` and `CREATE DATABASE` fail for everybody else), and that nothing
is ever undone (`HostGrows`, an action: database, URL, panel, setting, schema, packages and
administrator stay once they are there), so that what one run relies on no other can take away
(`UntouchedKept`). `SettingInv` adds to `SettingTruthful` that at most one process is past a
successful save. `CredentialsAgree`, `SettingTruthful`, `OneRunServes` and `InstalledStays` follow without further
assumptions; `PanelHasDatabase` for installations of one release (`OneRelease`), and
`InstalledMeansComplete` where the web server is spelled as the code compares it
(`ExactSpelling`), which is what `install_spelling` shows to be needed. `PreflightTheorem` is for every
host: `ReadyMeansFits` compares the checks with the reference, with what rounding down does to
a minimum (`RoundedDown`) and the last line of a key (`ReleaseValueIsLast`).

The components are composed by conjoining their actions with the installer's, so it has to be shown
that they still are what their own modules specify. `ComponentsTheorem` does: apart from the
count of faults, which the host's faults add to, every step is one of `Next` of `Bootstrap` (which has
the migrations) or leaves the database alone, and likewise for `Select` and the setting. So
the promises proved of the components hold under the installer, with the same invariants:
`DatabaseTheorem`, `FirstAdminOfInstallations`, and `MigratesInOrderTheorem` from `OrderedStep`, which
both proofs of `InOrder` use.

`LoginLimiterProofs`, for any number of requests, addresses and accounts and any limits:
`LimiterInv` is `TypeOK` with both limiters' key sets finite and bounded (`Bounded`), and what
they know of each key (`Known`). `EvictMakesRoom` shows that a new key always finds room.
`SlidingBound` is not inductive, nor is it with `CountHonest`: that a live window has counted
at most the limit says nothing of the attempts before it that the interval still meets. `Accounted`
says, of the attempts since the key was last forgotten, that those before the live window are fewer than
the limit, and that the live window began with an attempt. So when the window ends, its first
attempt has just left the interval (`TickAccounted`), and what remains of it leaves room for the
next window's limit (`AttemptAccounted`). `Settled` is about the attempts before the key was last
forgotten, at every age: twice the limit is never reached the first time, and each time after adds the
limit at most, since all that came in between is in the window that is forgotten (`KnownForget`,
`KnownAged`); together they give the bound (`SettledSlides`). `LimiterEvictsOldest` is an action property:
`AllowDropsOne` looks at the room `Evict` makes, `KeepsAll` at all steps that drop nothing.

`SessionsProofs`, for any number of requests, users, roles, slots and sessions:
`SessionInv` adds to the checked invariants that a transaction that has deleted a row is
alone with it and the row still committed (`Deleters`; hence one event per logout and no row
behind a reported success), that a browser's token belongs to its user's session
(`IssuedRows`), and that a request past a check has the grounds of that check
(`GroundInv`): `Validate` and `Authorize` look at the state in which the grounds are noted.
With `AuditedOnce` (what the events of a session say of its row) it is what `SessionLifeTheorem`, the
refinement, needs: `CreateSessionOpens`, `CommitLogoutCloses` and `NothingToDeleteConfirms` are the
three steps that move a session, `SessionKept` is for all others. `EnteredAsTheorem` is an action
property no run checks: `FindActiveSession` lets a request pass as nobody but the active
user whose browser sent it, and never once a logout of its session was answered with success.

Only model-checked: `AcceptedExactly` (a recursive definition over trees, which the prover cannot do
induction over), and liveness under fairness, which is out of the prover's reach.

## Findings

* `store_race`: two panel processes on one database may run two jobs on the same
  resource at once, although the resource key is documented as a lock.
* `worker_uncertain`: the comment in `worker.go` promises that recovery retries a
  claim left leased; on the last attempt (by default the only one) it fails it. With attempts left
  the promise holds (`ReclaimedTheorem`).
* `install_spelling`: `installWebServer` compares the option as it was typed, everything else
  parses it. `--web-server Apache` installs nginx, records apache, for good, and reports success.

Met while modelling, and not findings of a run:

* A second `install apply` cannot complete a first one that failed late: the preflight refuses
  while the web server that the first run started has ports 80 and 443, and with the ports freed
  the run fails at `CREATE ROLE`, or, with an external database, at the immutable setting.
  A runbook in `docs/runbooks` (`manual-vps-test-2`) has the operator run it again.
* The agent's `WriteTimeout` is 30 seconds, while client and worker wait five minutes and
  `running-local-api.md` says that "action execution is limited to five minutes": an action that takes
  longer than the former is performed but never answered (`ReplyTooLate`).
* A keyed request that was performed and that net/http repeats may be refused for a body the agent
  cannot read (`RefuseUnread`); `ExecuteJob` then reports a permanent error for an action that was
  performed (`RefusedLater`).
* The administrator's input is validated by the last step, after everything else was installed.
* Nothing deletes expired sessions.

## Not modelled

* Configuration, logging, build information: environment lookups and formatting, without state.
  `internal/adapters` is an empty package.
* The HTML pages and the CSRF and security headers: each page ends in a call of the modelled queue
  behind `RequirePermission`.
* RBAC's account-scoped check, which no handler calls, and the seeded tables of roles, which are data.
* The limiter of audit records, which is the code of the modelled limiters a third time; listing,
  and the normalisation of audit events.
* The ownership and mode checks of the agent's directory, assumed to pass; what the three
  actions read of the host (`internal/agent/inventory.go`): they change nothing.
* Reading of files line by line (`/proc/meminfo`, os-release): the model has their keys and values.

What further work could take: the administrator's input and `normalizeResult` as operators against
references.
