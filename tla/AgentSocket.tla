----------------------------- MODULE AgentSocket -----------------------------
(***************************************************************************)
(* The life cycle of the agent's Unix socket: ListenUnix and               *)
(* lockedListener of internal/agent/transport.go, called by serve in       *)
(* cmd/motekar-agent/main.go.  Several agents may be started over the same *)
(* path; each may be stopped or die at any step, leaving its socket file   *)
(* behind, and is started again.                                           *)
(*                                                                         *)
(* A program that ignores the lock (Foreign) may own the path too.  It     *)
(* binds only where no file is, even between an agent's dial and its       *)
(* removal of the path, and at its end removes nothing but its own socket. *)
(* A dial to a live socket succeeds.                                       *)
(***************************************************************************)
EXTENDS Integers, FiniteSets

CONSTANTS
    Agents,      \* agent processes over one socket path
    NoAgent,     \* nobody holds the lock
    Absent,      \* no file at the path
    Stale,       \* a socket file nobody listens on
    File,        \* a file that is not a socket
    Foreign,     \* the socket of a program that ignores the lock
    MaxFaults    \* bound: crashes, failed chmods, stops and foreign sockets

ASSUME SocketAssumptions ==
    /\ NoAgent \notin Agents
    /\ {Absent, Stale, File, Foreign} \cap Agents = {}
    /\ Absent \notin {Stale, File, Foreign}
    /\ Stale \notin {File, Foreign}
    /\ File # Foreign
    /\ MaxFaults \in Nat

VARIABLES
    pc,       \* per agent, how far ListenUnix, Serve or Close has come
    path,     \* what the socket path names: a listener's socket or another file
    holder,   \* the process whose descriptor holds the flock
    foreign,  \* whether the foreign program listens
    faults    \* faults so far

vars == <<pc, path, holder, foreign, faults>>

Phases == {"off", "starting", "locked", "found", "dead", "cleared", "bound",
           "serving", "closing", "unlinked", "closed", "draining",
           "failing", "failed", "abandoned", "leaving"}

Init ==
    /\ pc = [a \in Agents |-> "off"]
    /\ path \in {Absent, Stale, File}
    /\ holder = NoAgent
    /\ foreign = FALSE
    /\ faults = 0

\* A listening descriptor is open between net.Listen and its Close.
Listening(a) ==
    pc[a] \in {"bound", "serving", "closing", "unlinked", "failing", "failed"}

Goto(a, next) == pc' = [pc EXCEPT ![a] = next]

Fault == faults < MaxFaults /\ faults' = faults + 1

-----------------------------------------------------------------------------
(* ListenUnix *)

\* The socket's directory passes its checks.
Start(a) ==
    /\ pc[a] = "off"
    /\ Goto(a, "starting")
    /\ UNCHANGED <<path, holder, foreign, faults>>

\* Mutant: the lock is taken without asking.
AcquireSocketLockAnyway(a) ==
    /\ pc[a] = "starting"
    /\ Goto(a, "locked")
    /\ holder' = a
    /\ UNCHANGED <<path, foreign, faults>>

\* flock(LOCK_EX | LOCK_NB) on the lock file, which is never removed.
AcquireSocketLock(a) ==
    /\ pc[a] = "starting"
    /\ IF holder = NoAgent THEN Goto(a, "locked") /\ holder' = a
                           ELSE Goto(a, "off") /\ UNCHANGED holder
    /\ UNCHANGED <<path, foreign, faults>>

\* An error return runs the deferred releaseSocketLock, and the process exits.
GiveUp(a) == Goto(a, "off") /\ holder' = NoAgent

Inspect(a) ==
    /\ pc[a] = "locked"
    /\ \/ path = Absent /\ Goto(a, "cleared") /\ UNCHANGED holder
       \/ path = File /\ GiveUp(a)
       \/ path \notin {Absent, File} /\ Goto(a, "found") /\ UNCHANGED holder
    /\ UNCHANGED <<path, foreign, faults>>

\* Somebody accepts connections on the socket the path names.
Answers(p) == (p = Foreign /\ foreign) \/ (p \in Agents /\ Listening(p))

\* Mutant: a socket file is never stale.
DialNeverFails(a) ==
    /\ pc[a] = "found"
    /\ GiveUp(a)
    /\ UNCHANGED <<path, foreign, faults>>

Dial(a) ==
    /\ pc[a] = "found"
    /\ IF Answers(path) THEN GiveUp(a) ELSE Goto(a, "dead") /\ UNCHANGED holder
    /\ UNCHANGED <<path, foreign, faults>>

\* os.Remove takes whatever is at the path by now; an error ends the start.
RemoveStale(a) ==
    /\ pc[a] = "dead"
    /\ IF path = Absent THEN GiveUp(a) ELSE Goto(a, "cleared") /\ UNCHANGED holder
    /\ path' = Absent
    /\ UNCHANGED <<foreign, faults>>

\* bind fails where a file is.
Listen(a) ==
    /\ pc[a] = "cleared"
    /\ IF path = Absent THEN Goto(a, "bound") /\ path' = a /\ UNCHANGED holder
                        ELSE GiveUp(a) /\ UNCHANGED path
    /\ UNCHANGED <<foreign, faults>>

Chmod(a) ==
    /\ pc[a] = "bound"
    /\ Goto(a, "serving")
    /\ UNCHANGED <<path, holder, foreign, faults>>

\* The listener is closed as at a stop, and its path removed once more, before the
\* lock is released.
ChmodFails(a) ==
    /\ pc[a] = "bound"
    /\ Fault
    /\ Goto(a, "failing")
    /\ UNCHANGED <<path, holder, foreign>>

RemoveBound(a) ==
    /\ pc[a] = "abandoned"
    /\ Goto(a, "leaving")
    /\ path' = Absent
    /\ UNCHANGED <<holder, foreign, faults>>

Leave(a) ==
    /\ pc[a] = "leaving"
    /\ GiveUp(a)
    /\ UNCHANGED <<path, foreign, faults>>

-----------------------------------------------------------------------------
(* serve, and lockedListener.Close *)

\* Mutant: the lock is released while the path is still to be unlinked.
StopUnlocked(a) ==
    /\ pc[a] = "serving"
    /\ Fault
    /\ Goto(a, "closing")
    /\ holder' = NoAgent
    /\ UNCHANGED <<path, foreign>>

\* A signal, or an error of the HTTP server: the listener is closed.
Stop(a) ==
    /\ pc[a] = "serving"
    /\ Fault
    /\ Goto(a, "closing")
    /\ UNCHANGED <<path, holder, foreign>>

\* net.UnixListener unlinks its path by name, whoever owns it, and then closes.
Unlink(a) ==
    /\ \/ pc[a] = "closing" /\ Goto(a, "unlinked")
       \/ pc[a] = "failing" /\ Goto(a, "failed")
    /\ path' = Absent
    /\ UNCHANGED <<holder, foreign, faults>>

CloseListener(a) ==
    /\ \/ pc[a] = "unlinked" /\ Goto(a, "closed")
       \/ pc[a] = "failed" /\ Goto(a, "abandoned")
    /\ UNCHANGED <<path, holder, foreign, faults>>

\* Requests accepted earlier are still served, without lock or path.
ReleaseSocketLock(a) ==
    /\ pc[a] = "closed"
    /\ Goto(a, "draining")
    /\ holder' = NoAgent
    /\ UNCHANGED <<path, foreign, faults>>

Exit(a) ==
    /\ pc[a] = "draining"
    /\ Goto(a, "off")
    /\ UNCHANGED <<path, holder, foreign, faults>>

\* The kernel closes the descriptors, and with them the lock, not the path.
Crash(a) ==
    /\ pc[a] # "off"
    /\ Fault
    /\ Goto(a, "off")
    /\ holder' = IF holder = a THEN NoAgent ELSE holder
    /\ path' = IF path = a THEN Stale ELSE path
    /\ UNCHANGED foreign

-----------------------------------------------------------------------------

ForeignStarts ==
    /\ ~foreign
    /\ path = Absent
    /\ Fault
    /\ foreign' = TRUE
    /\ path' = Foreign
    /\ UNCHANGED <<pc, holder>>

ForeignEnds ==
    /\ foreign
    /\ foreign' = FALSE
    /\ IF path = Foreign THEN path' \in {Absent, Stale} ELSE UNCHANGED path
    /\ UNCHANGED <<pc, holder, faults>>

\* What an agent does by itself.
Step(a) ==
    \/ Start(a)
    \/ AcquireSocketLock(a)
    \/ Inspect(a)
    \/ Dial(a)
    \/ RemoveStale(a)
    \/ Listen(a)
    \/ Chmod(a)
    \/ RemoveBound(a)
    \/ Leave(a)
    \/ Unlink(a)
    \/ CloseListener(a)
    \/ ReleaseSocketLock(a)
    \/ Exit(a)

Next ==
    \/ \E a \in Agents : Step(a) \/ ChmodFails(a) \/ Stop(a) \/ Crash(a)
    \/ ForeignStarts
    \/ ForeignEnds

Spec == Init /\ [][Next]_vars

\* An agent runs until it exits and is started again; the foreign program ends.
FairSpec == Spec /\ (\A a \in Agents : WF_vars(Step(a))) /\ WF_vars(ForeignEnds)

-----------------------------------------------------------------------------
(* Properties *)

\* Every variable keeps its type.
TypeOK ==
    /\ pc \in [Agents -> Phases]
    /\ path \in Agents \cup {Absent, Stale, File, Foreign}
    /\ holder \in Agents \cup {NoAgent}
    /\ foreign \in BOOLEAN
    /\ faults \in Nat

\* At most one agent listens, however starts, crashes and shutdowns interleave.
OneListener ==
    \A a, b \in Agents : Listening(a) /\ Listening(b) => a = b

\* From bind until its own shutdown the path leads to an agent: no other agent
\* that starts, shuts down late or cleans up after a crash removes or replaces
\* its socket.
PathServed == \A a \in Agents : pc[a] \in {"bound", "serving"} => path = a

\* The two together: callers reach one agent, the one that serves.
OneServer == OneListener /\ PathServed

\* Whatever a crash left at the path, an agent comes to serve again; only a file
\* that is no socket keeps it from that.
ServedAgain == [](path # File) => []<>(\E a \in Agents : pc[a] = "serving")

=============================================================================
