--------------------------- MODULE ActionTransport ---------------------------
(***************************************************************************)
(* Calls of actions over the agent's socket: UnixClient.ExecuteJob of      *)
(* internal/agent/transport.go with the connection that net/http keeps     *)
(* between calls, and the http.Server of cmd/motekar-agent/main.go, while  *)
(* agents start, stop, drain and die (AgentSocket).                        *)
(*                                                                         *)
(* A caller is a client whose calls come one after the other, as those of  *)
(* the panel's worker do, so that net/http keeps one connection for it.    *)
(* The panel's pages use the worker's client as well: while they do there  *)
(* may be more kept connections, and more to repeat a request on.          *)
(* Its request stays with the agent after the caller has stopped waiting.  *)
(* An agent that dies takes its requests and connections with it.  All     *)
(* agents have the same actions.  The foreign program may accept a         *)
(* connection, and never answers.                                          *)
(***************************************************************************)
EXTENDS AgentSocket

CONSTANTS
    Callers,        \* processes that call actions
    Requests,       \* what they may ask for
    Sendable(_),    \* whether ExecuteJob sends a request
    Keyed(_),       \* whether it has an idempotency key
    Verdict(_),     \* what handleAction decides of it
    NoRequest,      \* no call was made
    NoConn,         \* no connection
    Broken,         \* a connection whose other end is closed
    MaxCalls        \* bound: calls of a caller

ASSUME TransportAssumptions ==
    /\ {NoConn, Broken} \cap (Agents \cup {Foreign}) = {}
    /\ NoConn # Broken
    /\ NoRequest \notin Requests
    /\ MaxCalls \in Nat

VARIABLES
    made,       \* per caller, calls made
    state,      \* per caller: idle, dialing or waiting
    request,    \* per call, what it asks for
    answer,     \* per call, what ExecuteJob returned
    wrote,      \* per caller, wroteRequest of the current call
    conn,       \* per caller, the other end of its connection
    reused,     \* per caller, whether that has carried an earlier call
    work,       \* requests the agents have, in progress
    performed   \* per call, times its action was performed

transportVars == <<made, state, request, answer, wrote, conn, reused, work, performed>>
tvars == <<vars, transportVars>>

Calls == Callers \X (1..MaxCalls)
Peers == Agents \cup {Foreign}

Outcomes == {"none", "invalid", "unsent", "uncertain", "refused", "error", "unreadable",
             "result"}

TInit ==
    /\ Init
    /\ made = [c \in Callers |-> 0]
    /\ state = [c \in Callers |-> "idle"]
    /\ request = [k \in Calls |-> NoRequest]
    /\ answer = [k \in Calls |-> "none"]
    /\ wrote = [c \in Callers |-> FALSE]
    /\ conn = [c \in Callers |-> NoConn]
    /\ reused = [c \in Callers |-> FALSE]
    /\ work = {}
    /\ performed = [k \in Calls |-> 0]

\* The current call.
This(c) == <<c, made[c]>>

Item(c, stage) ==
    [call |-> This(c), peer |-> conn[c], stage |-> stage, heard |-> TRUE]

\* ExecuteJob returns.
Return(c, outcome) ==
    /\ state' = [state EXCEPT ![c] = "idle"]
    /\ answer' = [answer EXCEPT ![This(c)] = outcome]

-----------------------------------------------------------------------------
(* ExecuteJob *)

ExecuteJob(c, r) ==
    /\ state[c] = "idle"
    /\ made[c] < MaxCalls
    /\ made' = [made EXCEPT ![c] = @ + 1]
    /\ request' = [request EXCEPT ![<<c, made[c] + 1>>] = r]
    /\ wrote' = [wrote EXCEPT ![c] = FALSE]
    /\ IF Sendable(r)
       THEN state' = [state EXCEPT ![c] = "dialing"] /\ UNCHANGED answer
       ELSE /\ answer' = [answer EXCEPT ![<<c, made[c] + 1>>] = "invalid"]
            /\ UNCHANGED state
    /\ UNCHANGED <<vars, conn, reused, work, performed>>

\* Mutant: only the last attempt counts.
ConnectForgetting(c) ==
    /\ state[c] = "dialing"
    /\ conn[c] \notin Peers
    /\ IF Answers(path)
       THEN /\ conn' = [conn EXCEPT ![c] = path]
            /\ reused' = [reused EXCEPT ![c] = FALSE]
            /\ UNCHANGED <<state, answer>>
       ELSE /\ Return(c, "unsent")
            /\ UNCHANGED <<conn, reused>>
    /\ UNCHANGED <<vars, made, request, wrote, work, performed>>

\* A connection known to be closed is not used again.  That the agent is not there is
\* an error, and an uncertain one if the request went out before.
Connect(c) ==
    /\ state[c] = "dialing"
    /\ conn[c] \notin Peers
    /\ IF Answers(path)
       THEN /\ conn' = [conn EXCEPT ![c] = path]
            /\ reused' = [reused EXCEPT ![c] = FALSE]
            /\ UNCHANGED <<state, answer>>
       ELSE /\ Return(c, IF wrote[c] THEN "uncertain" ELSE "unsent")
            /\ UNCHANGED <<conn, reused>>
    /\ UNCHANGED <<vars, made, request, wrote, work, performed>>

Send(c) ==
    /\ state[c] = "dialing"
    /\ conn[c] \in Peers
    /\ state' = [state EXCEPT ![c] = "waiting"]
    /\ wrote' = [wrote EXCEPT ![c] = TRUE]
    /\ work' = work \cup {Item(c, "sent")}
    /\ UNCHANGED <<vars, made, request, answer, conn, reused, performed>>

\* Mutant: net/http may send a request again on whatever connection it was lost.
SendAgainAlways(c) ==
    /\ state[c] = "waiting"
    /\ conn[c] = Broken
    /\ Keyed(request[This(c)])
    /\ state' = [state EXCEPT ![c] = "dialing"]
    /\ UNCHANGED <<vars, made, request, answer, wrote, conn, reused, work, performed>>

\* A request with an Idempotency-Key is one that net/http sends again by itself when
\* the connection it was sent on had been used before, and breaks without an answer.
SendAgain(c) ==
    /\ state[c] = "waiting"
    /\ conn[c] = Broken
    /\ reused[c]
    /\ Keyed(request[This(c)])
    /\ state' = [state EXCEPT ![c] = "dialing"]
    /\ UNCHANGED <<vars, made, request, answer, wrote, conn, reused, work, performed>>

\* Otherwise, or in the middle of an answer, that is the end of the call.
Lost(c) ==
    /\ state[c] = "waiting"
    /\ conn[c] = Broken
    /\ Return(c, "uncertain")
    /\ UNCHANGED <<vars, made, request, wrote, conn, reused, work, performed>>

\* Mutant: the connection is kept for the next call.
TimeOutKeepingConnection(c) ==
    /\ state[c] # "idle"
    /\ Return(c, IF wrote[c] THEN "uncertain" ELSE "unsent")
    /\ reused' = [reused EXCEPT ![c] = TRUE]
    /\ UNCHANGED <<vars, made, request, wrote, conn, work, performed>>

\* The client's timeout, or the context of the call, is over: the connection is closed.
TimeOut(c) ==
    /\ state[c] # "idle"
    /\ Return(c, IF wrote[c] THEN "uncertain" ELSE "unsent")
    /\ conn' = [conn EXCEPT ![c] = NoConn]
    /\ work' = {[i EXCEPT !.heard = @ /\ i.call[1] # c] : i \in work}
    /\ UNCHANGED <<vars, made, request, wrote, reused, performed>>

-----------------------------------------------------------------------------
(* The agent's http.Server *)

\* Connections are served from Serve until the process ends.
Works(a) == pc[a] \in {"serving", "closing", "unlinked", "closed", "draining"}

\* An answer is for the call that waits at the other end of the connection, which may
\* be kept unless the agent is shutting down.
AnswerWith(i, outcome, keeps) ==
    LET c == i.call[1] IN
    /\ work' = work \ {i}
    /\ IF i.heard /\ state[c] = "waiting"
       THEN /\ Return(c, outcome)
            /\ conn' = [conn EXCEPT ![c] =
                          IF keeps /\ pc[i.peer] = "serving" THEN @ ELSE NoConn]
            /\ reused' = [reused EXCEPT ![c] = TRUE]
       ELSE UNCHANGED <<state, answer, conn, reused>>

\* handleAction refuses, before the action begins.
Refuse(i) ==
    /\ i.stage = "sent"
    /\ i.peer \in Agents
    /\ Works(i.peer)
    /\ Verdict(request[i.call]) = "refuse"
    /\ AnswerWith(i, "refused", TRUE)
    /\ UNCHANGED <<vars, made, request, wrote, performed>>

\* The body of a request cannot be read, or not within ReadTimeout: whatever is asked
\* for is refused, and the connection closed.
RefuseUnread(i) ==
    /\ i.stage = "sent"
    /\ i.peer \in Agents
    /\ Works(i.peer)
    /\ AnswerWith(i, "refused", FALSE)
    /\ UNCHANGED <<vars, made, request, wrote, performed>>

Perform(i) ==
    /\ i.stage = "sent"
    /\ i.peer \in Agents
    /\ Works(i.peer)
    /\ Verdict(request[i.call]) = "perform"
    /\ performed' = [performed EXCEPT ![i.call] = @ + 1]
    /\ work' = (work \ {i}) \cup {[i EXCEPT !.stage = "performed"]}
    /\ UNCHANGED <<vars, made, state, request, answer, wrote, conn, reused>>

\* The handler may have failed, or its result may be one that the agent cannot encode
\* or the client does not read.
Reply(i, outcome) ==
    /\ i.stage = "performed"
    /\ outcome \in {"result", "error", "unreadable"}
    /\ AnswerWith(i, outcome, TRUE)
    /\ UNCHANGED <<vars, made, request, wrote, performed>>

\* An action that ends after WriteTimeout, half a minute, cannot be answered any more.
ReplyTooLate(i) ==
    /\ i.stage = "performed"
    /\ work' = work \ {i}
    /\ conn' = [conn EXCEPT ![i.call[1]] = IF i.heard THEN Broken ELSE @]
    /\ UNCHANGED <<vars, made, state, request, answer, wrote, reused, performed>>

\* The agent closes a connection on which it has read nothing new: after IdleTimeout,
\* or when it shuts down.  A request may just have been sent on it.
CloseConnection(c) ==
    /\ conn[c] \in Agents
    /\ reused[c] \/ pc[conn[c]] \notin {"bound", "failing", "failed", "serving"}
    /\ \A i \in work : i.call[1] = c /\ i.heard => i.stage = "sent"
    /\ conn' = [conn EXCEPT ![c] = Broken]
    /\ work' = {i \in work : ~(i.call[1] = c /\ i.heard)}
    /\ UNCHANGED <<vars, made, state, request, answer, wrote, reused, performed>>

\* A process ends: what it had is gone, and its connections with it.
Break(p) ==
    /\ conn' = [c \in Callers |-> IF conn[c] = p THEN Broken ELSE conn[c]]
    /\ work' = {i \in work : i.peer # p}
    /\ UNCHANGED <<made, state, request, answer, wrote, reused, performed>>

Ending(a) == IF pc'[a] = "off" THEN Break(a) ELSE UNCHANGED transportVars

-----------------------------------------------------------------------------

Calling(c) ==
    \/ \E r \in Requests : ExecuteJob(c, r)
    \/ Connect(c)
    \/ Send(c)
    \/ SendAgain(c)
    \/ Lost(c)
    \/ TimeOut(c)
    \/ CloseConnection(c)

Working(i) ==
    \/ Refuse(i)
    \/ RefuseUnread(i)
    \/ Perform(i)
    \/ \E outcome \in Outcomes : Reply(i, outcome)
    \/ ReplyTooLate(i)

\* What an agent does by itself, and what happens to it.
AgentSteps(a) == Step(a) /\ Ending(a)
AgentDisturbed(a) == (ChmodFails(a) \/ Stop(a) \/ Crash(a)) /\ Ending(a)

TForeignEnds == ForeignEnds /\ Break(Foreign)

TNext ==
    \/ \E c \in Callers : Calling(c)
    \/ \E i \in work : Working(i)
    \/ \E a \in Agents : AgentSteps(a) \/ AgentDisturbed(a)
    \/ ForeignStarts /\ UNCHANGED transportVars
    \/ TForeignEnds

TSpec == TInit /\ [][TNext]_tvars

\* An agent runs until it exits and is started again; the foreign program ends.
TFairSpec == TSpec /\ (\A a \in Agents : WF_tvars(AgentSteps(a))) /\ WF_tvars(TForeignEnds)

-----------------------------------------------------------------------------
(* Properties *)

\* Every variable keeps its type.
TransportTypeOK ==
    /\ made \in [Callers -> 0..MaxCalls]
    /\ state \in [Callers -> {"idle", "dialing", "waiting"}]
    /\ request \in [Calls -> Requests \cup {NoRequest}]
    /\ answer \in [Calls -> Outcomes]
    /\ wrote \in [Callers -> BOOLEAN]
    /\ conn \in [Callers -> Peers \cup {NoConn, Broken}]
    /\ reused \in [Callers -> BOOLEAN]
    /\ work \subseteq [call : Calls, peer : Peers, stage : {"sent", "performed"},
                       heard : BOOLEAN]
    /\ performed \in [Calls -> Nat]

\* The call is under way with no agent.
Ended(k) == \A i \in work : i.call # k

\* Only a request with a key is performed before it is refused: it was sent before, on
\* a connection kept from an earlier call.
RefusedLater(k) == performed[k] = 1 /\ k[2] > 1 /\ Keyed(request[k])

\* An error that the worker takes for "nothing has happened" is one: a call that was
\* invalid, not sent or refused is performed by no request still on its way, whatever
\* was sent again or left behind, and was not performed before, unless it is the
\* repetition of its request that was refused, for a body that could not be read.
UndoneUnlessSent ==
    \A k \in Calls :
        /\ answer[k] \in {"invalid", "unsent"} => Ended(k) /\ performed[k] = 0
        /\ answer[k] = "refused" => Ended(k) /\ (performed[k] = 0 \/ RefusedLater(k))

\* A result is of the call that returns it, and not of an earlier one that was given
\* up on the same connection.
ResultMeansDone == \A k \in Calls : answer[k] = "result" => performed[k] >= 1

\* The agent performs a call at most twice, and only one with a key whose first
\* request went out on the one connection kept from an earlier call: while the
\* calls of a client do not overlap, net/http has no other to repeat the request from.
AtMostTwice ==
    \A k \in Calls :
        performed[k] > 1 => performed[k] = 2 /\ k[2] > 1 /\ Keyed(request[k])

-----------------------------------------------------------------------------
(* What callers are promised: ActionTransport implements ActionCall *)

\* An agent has a request of the call, and has not yet decided on it.
Sent(k) == \E i \in work : i.call = k /\ i.stage = "sent"

\* The request of the call was sent: wroteRequest while the call is under way, and
\* what its answer says of it afterwards.
Written(k) ==
    IF k = This(k[1]) /\ state[k[1]] # "idle"
    THEN wrote[k[1]]
    ELSE answer[k] \notin {"none", "invalid", "unsent"}

CallOf(k) ==
    [request |-> request[k], answer |-> answer[k], sent |-> Written(k),
     pending |-> Sent(k), done |-> performed[k]]

Contract == INSTANCE ActionCall WITH call <- [k \in Calls |-> CallOf(k)]

\* Whatever connections break or are kept, and agents drain, die and start meanwhile,
\* every call takes the course ExecuteJob lets its caller expect: its answer is one
\* that fits what was sent and performed so far, its request is sent again only with
\* a key and when nothing of it is pending, and nothing but a request given up as
\* uncertain is performed after the answer.
FollowsContract == Contract!Spec

=============================================================================
