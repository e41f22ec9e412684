----------------------------- MODULE SessionLife -----------------------------
(***************************************************************************)
(* What internal/auth promises of every single session, whatever requests  *)
(* race for it, fail half way or lose an answer: a row that never changes  *)
(* between its creation and its deletion, a token that only the browser    *)
(* that logged in can use, and an audit log that tells neither more nor    *)
(* less.  Sessions implements it.                                          *)
(***************************************************************************)
EXTENDS Integers

CONSTANTS
    Tokens,
    Users,
    Nobody     \* no user

VARIABLE
    session    \* per token, its row, its browser and its events

Absent ==
    [stage |-> "absent", user |-> Nobody, expires |-> 0, holder |-> Nobody,
     answer |-> "none", logins |-> 0, logouts |-> 0]

Init == session = [t \in Tokens |-> Absent]

-----------------------------------------------------------------------------
(* The moves of a session from what it is (x) to what it becomes (y) *)

\* A login.  The browser has the token unless the answer was lost, and then nobody
\* ever has it.
Open(x, y) ==
    /\ x = Absent
    /\ y.user \in Users
    /\ y.expires \in Nat
    /\ y.holder \in {Nobody, y.user}
    /\ y = [stage |-> "open", user |-> y.user, expires |-> y.expires,
            holder |-> y.holder, answer |-> "none", logins |-> 1, logouts |-> 0]

\* A logout, by the browser that has the token.
Close(x, y) ==
    /\ x.stage = "open"
    /\ x.holder # Nobody
    /\ y.answer \in {"none", "success"}
    /\ y = [stage |-> "closed", user |-> Nobody, expires |-> 0,
            holder |-> x.holder, answer |-> y.answer, logins |-> 1, logouts |-> 1]

\* The logout is answered with success: the first one, or one that came too late.
Confirm(x, y) ==
    /\ x.stage = "closed"
    /\ y = [x EXCEPT !.answer = "success"]

Move(x, y) == Open(x, y) \/ Close(x, y) \/ Confirm(x, y)

Next == \A t \in Tokens : session'[t] = session[t] \/ Move(session[t], session'[t])

Spec == Init /\ [][Next]_session

=============================================================================
