----------------------------- MODULE ActionCall -----------------------------
(***************************************************************************)
(* What UnixClient.ExecuteJob and the agent promise a caller about every   *)
(* single call, whatever sockets, connections, servers and crashes are     *)
(* behind it: how often the action of a call may be performed, and what    *)
(* each answer says of it.  ActionTransport implements it.                 *)
(***************************************************************************)
EXTENDS Integers

CONSTANTS
    Callers,        \* processes that call actions
    Requests,       \* what they may ask for
    Sendable(_),    \* whether a request is sent at all
    Keyed(_),       \* whether it may be sent again
    Verdict(_),     \* what the agent decides of it
    NoRequest,      \* the call was not made
    MaxCalls        \* bound: calls of a caller

VARIABLE
    call            \* per call, its request and what became of it

Calls == Callers \X (1..MaxCalls)

Answers == {"none", "invalid", "unsent", "uncertain", "refused", "error", "unreadable",
            "result"}

\* A request is pending while an agent has it and may still act on it.
Call == [request : Requests \cup {NoRequest}, answer : Answers,
         sent : BOOLEAN, pending : BOOLEAN, done : Nat]

Init ==
    call = [k \in Calls |-> [request |-> NoRequest, answer |-> "none",
                             sent |-> FALSE, pending |-> FALSE, done |-> 0]]

-----------------------------------------------------------------------------
(* The moves of a call from what it is (x) to what it becomes (y) *)

UnderWay(x) == x.request # NoRequest /\ x.answer = "none"

\* What becomes of a call that was made.
After(x, answer, sent, pending, done) ==
    [request |-> x.request, answer |-> answer, sent |-> sent, pending |-> pending,
     done |-> done]

\* A caller makes one call after the other; what cannot be sent is answered at once.
Make(k, x, y) ==
    /\ x.request = NoRequest
    /\ k[2] > 1 => call[<<k[1], k[2] - 1>>].answer # "none"
    /\ \E r \in Requests :
          y = [request |-> r, answer |-> IF Sendable(r) THEN "none" ELSE "invalid",
               sent |-> FALSE, pending |-> FALSE, done |-> 0]

\* Only a keyed request is sent again, when an earlier call has left a connection, and
\* nothing of it is pending any more.
Send(k, x, y) ==
    /\ UnderWay(x)
    /\ ~x.pending
    /\ x.done <= 1
    /\ x.sent => Keyed(x.request) /\ k[2] > 1
    /\ y = After(x, x.answer, TRUE, TRUE, x.done)

\* The agent may act long after the caller has given up.
Perform(x, y) ==
    /\ x.pending
    /\ Verdict(x.request) = "perform"
    /\ y = After(x, x.answer, x.sent, FALSE, x.done + 1)

\* A request is lost with its connection or its agent.
Drop(x, y) ==
    /\ x.pending
    /\ y = After(x, x.answer, x.sent, FALSE, x.done)

Unsent(x, y) ==
    /\ UnderWay(x)
    /\ ~x.sent
    /\ y = After(x, "unsent", x.sent, x.pending, x.done)

\* Nothing is known: the action was performed, is not performed, or still will be.
Uncertain(x, y) ==
    /\ UnderWay(x)
    /\ x.sent
    /\ y = After(x, "uncertain", x.sent, x.pending, x.done)

\* A request that is not performed: it may be one that could not be read.
Refuse(x, y) ==
    /\ UnderWay(x)
    /\ x.pending
    /\ y = After(x, "refused", x.sent, FALSE, x.done)

\* The agent answers for what it has performed.
Reply(x, y) ==
    /\ UnderWay(x)
    /\ ~x.pending
    /\ x.done >= 1
    /\ \E outcome \in {"result", "error", "unreadable"} :
          y = After(x, outcome, x.sent, x.pending, x.done)

Move(k, x, y) ==
    \/ Make(k, x, y)
    \/ Send(k, x, y)
    \/ Perform(x, y)
    \/ Drop(x, y)
    \/ Unsent(x, y)
    \/ Uncertain(x, y)
    \/ Refuse(x, y)
    \/ Reply(x, y)

\* An agent that dies drops the requests of several calls at once.
Next == \A k \in Calls : call'[k] = call[k] \/ Move(k, call[k], call'[k])

Spec == Init /\ [][Next]_call

=============================================================================
