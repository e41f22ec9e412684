----------------------------- MODULE AgentActions -----------------------------
(***************************************************************************)
(* The agent as a whole: calls of actions over its socket (ActionTransport)*)
(* with the requests, the checks and the handler of ActionHandler.         *)
(***************************************************************************)
EXTENDS ActionTransport, ActionHandler

CONSTANT Content(_)   \* what each of Requests is

\* What ActionTransport asks of a request.
Sends(r) ==
    LET c == Content(r)
    IN  Valid(c.name, c.body.members[1][2], c.payloadBytes, c.keyBytes)

HasKey(r) == Content(r).keyBytes > 0

Handled(r) == HandleAction(Content(r))

-----------------------------------------------------------------------------
(* Properties *)

\* The requests whose payload belongs to the action they name.
ProperRequests ==
    {r \in Requests :
        LET c == Content(r)
        IN  c.name \in DOMAIN Definitions /\ c.body.members[1][2] \in Proper[c.name]}

\* For every definition and every payload, also those no call is made with.
AcceptsProper == \A name \in DOMAIN Definitions : Accepted[name] = {Proper[name]}

\* A call that was performed had a payload that belongs to its action by its places
\* (Proper, which shares no definition with the agent's checks), and whatever else had
\* been asked for, the payloads the agent would have performed it with are those: none
\* for a type that does not declare every place, no key twice or in another spelling at
\* any depth, no raw command, nothing its validator refuses, and no bound of the server
\* below what the client lets through.
AcceptedExactly ==
    \A k \in Calls :
        /\ performed[k] >= 1 => request[k] \in ProperRequests
        /\ request[k] # NoRequest => AcceptsProper

=============================================================================
