------------------------ MODULE ActionTransportProofs ------------------------
(***************************************************************************)
(* Proofs about ActionTransport, for any number of agents, callers, calls  *)
(* and faults: callers reach one agent, the socket's, and what ExecuteJob  *)
(* returns tells the truth about what was performed.                       *)
(***************************************************************************)
EXTENDS ActionTransport, TLAPS

-----------------------------------------------------------------------------
(* The inductive invariant of the socket, behind OneListener and PathServed *)

Holding == {"locked", "found", "dead", "cleared", "bound", "serving", "closing",
            "unlinked", "closed", "failing", "failed", "abandoned", "leaving"}

\* The lock is held from its acquisition until after the listener is closed, the
\* path leads to whoever has bound it.
SocketInv ==
    /\ TypeOK
    /\ \A a \in Agents : (holder = a) <=> (pc[a] \in Holding)
    /\ \A a \in Agents : (path = a) <=> (pc[a] \in {"bound", "serving", "closing", "failing"})

-----------------------------------------------------------------------------
(* The inductive invariant behind the properties of calls *)

\* Nothing of a call has reached an action, or will.
Untouched(k) == performed[k] = 0 /\ Ended(k)

\* The times a call was performed or may yet be by a request under way.
Tries(k) == IF Sent(k) THEN performed[k] + 1 ELSE performed[k]

\* The caller of a request that an agent has waits for it at the other end of the
\* connection, or has given the call up.
RequestSound(i) ==
    LET c == i.call[1] IN
    /\ i.heard => i.call = This(c) /\ state[c] = "waiting" /\ conn[c] = i.peer
    /\ ~i.heard => answer[i.call] = "uncertain"
    /\ i.stage = "performed" => performed[i.call] >= 1

\* What is known of a call, from the answer given so far.
CallSound(k) ==
    /\ k[2] > made[k[1]] => answer[k] = "none" /\ Untouched(k)
    /\ answer[k] \in {"invalid", "unsent"} => Untouched(k)
    /\ answer[k] = "refused" => Ended(k) /\ (performed[k] = 0 \/ RefusedLater(k))
    /\ answer[k] = "result" => performed[k] >= 1
    /\ performed[k] >= 1 => Verdict(request[k]) = "perform"
    /\ Tries(k) <= 2
    /\ Tries(k) = 2 => k[2] > 1 /\ Keyed(request[k])

\* A call under way has no answer yet; it may be sent again once, when its connection
\* was kept from an earlier call and has broken.
CallerSound(c) ==
    /\ reused[c] => made[c] >= 1
    /\ state[c] # "idle" =>
          /\ made[c] >= 1
          /\ answer[This(c)] = "none"
          /\ reused[c] => made[c] >= 2
          /\ ~wrote[c] => Untouched(This(c))
    /\ state[c] = "waiting" => wrote[c] /\ (reused[c] => Tries(This(c)) <= 1)
    /\ state[c] = "dialing" =>
          /\ Tries(This(c)) <= 1
          /\ Tries(This(c)) = 1 =>
                /\ made[c] >= 2 /\ Keyed(request[This(c)])
                /\ conn[c] \in Peers => ~reused[c]

\* Everything a step needs of the calls before it; an agent has one request of a call
\* at most.
CallInv ==
    /\ TransportTypeOK
    /\ \A i, j \in work : i.call = j.call => i = j
    /\ \A i \in work : RequestSound(i)
    /\ \A k \in Calls : CallSound(k)
    /\ \A c \in Callers : CallerSound(c)

\* What the refinement needs beside it: a call without an answer is the current one of
\* a caller that is not idle, and a request that goes out once more has a key.
AskedInv ==
    /\ \A k \in Calls :
          /\ request[k] # NoRequest <=> k[2] <= made[k[1]]
          /\ k[2] <= made[k[1]] /\ answer[k] = "none" =>
                k = This(k[1]) /\ state[k[1]] # "idle"
    /\ \A c \in Callers :
          state[c] = "dialing" /\ wrote[c] => made[c] >= 2 /\ Keyed(request[This(c)])

-----------------------------------------------------------------------------
(* The socket *)

\* Before any agent is started nobody holds the lock or the path.
LEMMA InitSocketInv == Init => SocketInv
<1> SUFFICES ASSUME Init PROVE SocketInv
  OBVIOUS
<1> USE SocketAssumptions DEF Init
<1>1. TypeOK
  <2>1. foreign \in BOOLEAN
    BY Zenon
  <2> QED
    BY <2>1 DEF TypeOK, Phases
<1>2. ASSUME NEW a \in Agents
      PROVE  /\ pc[a] = "off"
             /\ holder # a
             /\ path # a
  BY <1>2
<1> QED
  BY <1>1, <1>2 DEF SocketInv, Holding

\* An agent on its way to the lock, or giving up, keeps the lock and the path
\* paired with the phase of their owner.
LEMMA StartPreserves ==
    ASSUME SocketInv, NEW a \in Agents,
           \/ Start(a) \/ AcquireSocketLock(a) \/ Inspect(a) \/ Dial(a)
    PROVE  SocketInv'
<1> USE SocketAssumptions DEF SocketInv, TypeOK, Phases, Holding, Goto
<1>1. CASE Start(a)
  BY <1>1 DEF Start
<1>2. CASE AcquireSocketLock(a)
  BY <1>2 DEF AcquireSocketLock
<1>3. CASE Inspect(a)
  BY <1>3 DEF Inspect, GiveUp
<1>4. CASE Dial(a)
  BY <1>4 DEF Dial, GiveUp
<1> QED
  BY <1>1, <1>2, <1>3, <1>4

\* The holder of the lock replaces the path, but never an agent's: whoever has
\* bound it holds the lock.
LEMMA BindPreserves ==
    ASSUME SocketInv, NEW a \in Agents,
           \/ RemoveStale(a) \/ Listen(a) \/ Chmod(a) \/ ChmodFails(a)
           \/ RemoveBound(a) \/ Leave(a)
    PROVE  SocketInv'
<1> USE SocketAssumptions DEF SocketInv, TypeOK, Phases, Holding, Goto
<1>1. CASE RemoveStale(a)
  BY <1>1 DEF RemoveStale, GiveUp
<1>2. CASE Listen(a)
  BY <1>2 DEF Listen, GiveUp
<1>3. CASE Chmod(a)
  BY <1>3 DEF Chmod
<1>4. CASE ChmodFails(a)
  BY <1>4 DEF ChmodFails, Fault
<1>5. CASE RemoveBound(a)
  BY <1>5 DEF RemoveBound
<1>6. CASE Leave(a)
  BY <1>6 DEF Leave, GiveUp
<1> QED
  BY <1>1, <1>2, <1>3, <1>4, <1>5, <1>6

\* Close unlinks the path by name while the lock is still held, so the name is
\* its own; a crash leaves the path stale and frees the lock.
LEMMA ClosePreserves ==
    ASSUME SocketInv, NEW a \in Agents,
           \/ Stop(a) \/ Unlink(a) \/ CloseListener(a) \/ ReleaseSocketLock(a)
           \/ Exit(a) \/ Crash(a)
    PROVE  SocketInv'
<1> USE SocketAssumptions DEF SocketInv, TypeOK, Phases, Holding, Goto
<1>1. CASE Stop(a)
  BY <1>1 DEF Stop, Fault
<1>2. CASE Unlink(a)
  BY <1>2 DEF Unlink
<1>3. CASE CloseListener(a)
  BY <1>3 DEF CloseListener
<1>4. CASE ReleaseSocketLock(a)
  BY <1>4 DEF ReleaseSocketLock
<1>5. CASE Exit(a)
  BY <1>5 DEF Exit
<1>6. CASE Crash(a)
  BY <1>6 DEF Crash, Fault
<1> QED
  BY <1>1, <1>2, <1>3, <1>4, <1>5, <1>6

\* The foreign program binds only a free path and removes only its own socket.
LEMMA ForeignPreserves ==
    ASSUME SocketInv, ForeignStarts \/ ForeignEnds
    PROVE  SocketInv'
<1> USE SocketAssumptions DEF SocketInv, TypeOK
<1>1. CASE ForeignStarts
  BY <1>1 DEF ForeignStarts, Fault
<1>2. CASE ForeignEnds
  BY <1>2 DEF ForeignEnds
<1> QED
  BY <1>1, <1>2

\* The invariant is inductive.
LEMMA NextSocketInv == SocketInv /\ [Next]_vars => SocketInv'
<1> SUFFICES ASSUME SocketInv, [Next]_vars PROVE SocketInv'
  OBVIOUS
<1>1. CASE UNCHANGED vars
  BY <1>1 DEF vars, SocketInv, TypeOK
<1>2. CASE Next
  BY <1>2, StartPreserves, BindPreserves, ClosePreserves, ForeignPreserves
     DEF Next, Step
<1> QED
  BY <1>1, <1>2

\* Whatever callers do is a step of the agents or none of theirs.
LEMMA TransportStep == [TNext]_tvars => [Next]_vars
<1> SUFFICES ASSUME TNext PROVE [Next]_vars
  BY DEF tvars
<1>1. ASSUME NEW c \in Callers, Calling(c)
      PROVE  UNCHANGED vars
  BY <1>1 DEF Calling, ExecuteJob, Connect, Send, SendAgain, Lost, TimeOut, CloseConnection
<1>2. ASSUME NEW i \in work, Working(i)
      PROVE  UNCHANGED vars
  BY <1>2 DEF Working, Refuse, RefuseUnread, Perform, Reply, ReplyTooLate
<1>3. ASSUME NEW a \in Agents, AgentSteps(a) \/ AgentDisturbed(a)
      PROVE  Next
  BY <1>3 DEF AgentSteps, AgentDisturbed, Next
<1>4. CASE ForeignStarts
  BY <1>4 DEF Next
<1>5. CASE TForeignEnds
  BY <1>5 DEF TForeignEnds, Next
<1> QED
  BY <1>1, <1>2, <1>3, <1>4, <1>5 DEF TNext

\* The lock, the path and the phases of the agents stay consistent.
THEOREM SocketInvariant == TSpec => []SocketInv
<1>1. TInit => SocketInv
  BY InitSocketInv DEF TInit
<1>2. SocketInv /\ [TNext]_tvars => SocketInv'
  BY NextSocketInv, TransportStep
<1> QED
  BY <1>1, <1>2, PTL DEF TSpec

\* At most one agent listens, for a listener holds the lock, and the path leads to
\* the agent that serves until that agent shuts down itself.
THEOREM OneServerTheorem == TSpec => []OneServer
<1>1. SocketInv => OneListener
  BY DEF SocketInv, OneListener, Listening, Holding
<1>2. SocketInv => PathServed
  BY DEF SocketInv, PathServed
<1> QED
  BY <1>1, <1>2, SocketInvariant, PTL DEF OneServer

-----------------------------------------------------------------------------
(* Calls *)

\* A call is a caller with a number.
LEMMA CallPair ==
    ASSUME NEW k \in Calls
    PROVE  /\ k = <<k[1], k[2]>>
           /\ k[1] \in Callers
           /\ k[2] \in Nat /\ k[2] >= 1 /\ k[2] <= MaxCalls
BY TransportAssumptions DEF Calls

\* The current call of a caller that has made one is a call.
LEMMA ThisCall ==
    ASSUME TransportTypeOK, NEW c \in Callers, made[c] >= 1
    PROVE  /\ This(c) \in Calls
           /\ This(c)[1] = c
           /\ This(c)[2] = made[c]
BY TransportAssumptions DEF TransportTypeOK, This, Calls

\* Initially no call was made.
LEMMA InitCallInv == TInit => CallInv
<1> SUFFICES ASSUME TInit PROVE CallInv
  OBVIOUS
<1>1. TransportTypeOK
  BY TransportAssumptions DEF TInit, TransportTypeOK, Outcomes
<1>2. ASSUME NEW k \in Calls PROVE CallSound(k)
  <2>1. performed[k] = 0 /\ answer[k] = "none" /\ work = {}
    BY DEF TInit
  <2> QED
    BY <2>1 DEF CallSound, Untouched, Ended, Tries, Sent, RefusedLater
<1> QED
  BY <1>1, <1>2 DEF TInit, CallInv, CallerSound

\* When requests are lost or connections break, no call has more to come.
LEMMA LosePreserves ==
    ASSUME CallInv, work' \in SUBSET work,
           UNCHANGED <<made, state, request, answer, wrote, reused, performed>>,
           conn' \in [Callers -> Peers \cup {NoConn, Broken}],
           \A c \in Callers : conn'[c] = conn[c] \/ conn'[c] \in {NoConn, Broken},
           \A i \in work' : i.heard => conn'[i.call[1]] = conn[i.call[1]]
    PROVE  CallInv'
<1>1. TransportTypeOK'
  BY DEF CallInv, TransportTypeOK
<1>2. /\ \A i, j \in work' : i.call = j.call => i = j
      /\ \A i \in work' : RequestSound(i)'
  BY DEF CallInv, RequestSound, This
<1>3. ASSUME NEW k \in Calls
      PROVE  /\ Untouched(k) => Untouched(k)'
             /\ Tries(k)' <= Tries(k)
             /\ Tries(k)' \in Nat /\ Tries(k) \in Nat
  <2>1. performed[k] \in Nat /\ performed'[k] = performed[k]
    BY DEF CallInv, TransportTypeOK
  <2>2. (Untouched(k) => Untouched(k)') /\ (Sent(k)' => Sent(k))
    BY <2>1 DEF Untouched, Ended, Sent
  <2> QED
    BY <2>1, <2>2 DEF Tries
<1>4. ASSUME NEW k \in Calls PROVE CallSound(k)'
  <2>1. CallSound(k)
    BY DEF CallInv
  <2> QED
    BY <1>3, <2>1 DEF CallSound, Ended, RefusedLater
<1>5. ASSUME NEW c \in Callers PROVE CallerSound(c)'
  <2>1. CallerSound(c) /\ This(c)' = This(c)
    BY DEF CallInv, This
  <2>2. conn'[c] \in Peers => conn[c] \in Peers
    BY TransportAssumptions DEF Peers
  <2>3. CASE state[c] # "idle"
    <3>1. PICK k \in Calls : k = This(c)
      BY <2>1, <2>3, ThisCall DEF CallInv, CallerSound
    <3>2. /\ Untouched(k) => Untouched(k)'
          /\ Tries(k)' <= Tries(k) /\ Tries(k)' \in Nat /\ Tries(k) \in Nat
      BY <1>3
    <3>3. Untouched(This(c))' = Untouched(k)' /\ Tries(This(c))' = Tries(k)'
      BY <2>1, <3>1 DEF Untouched, Ended, Tries, Sent
    <3> QED
      BY <2>1, <2>2, <2>3, <3>1, <3>2, <3>3 DEF CallerSound
  <2> QED
    BY <2>1, <2>3 DEF CallerSound
<1> QED
  BY <1>1, <1>2, <1>4, <1>5 DEF CallInv

\* A step about one call of one caller leaves the others as they are.
LEMMA LocalPreserves ==
    ASSUME CallInv, TransportTypeOK', NEW c \in Callers, NEW k \in Calls, k[1] = c,
           \A d \in Callers \ {c} : /\ made'[d] = made[d]
                                    /\ state'[d] = state[d]
                                    /\ wrote'[d] = wrote[d]
                                    /\ conn'[d] = conn[d]
                                    /\ reused'[d] = reused[d],
           made'[c] >= made[c],
           \A m \in Calls \ {k} : /\ request'[m] = request[m]
                                  /\ answer'[m] = answer[m]
                                  /\ performed'[m] = performed[m],
           \A i \in work : i.call # k => i \in work',
           \A i \in work' : i.call # k => i \in work,
           \A i \in work : i.call # k /\ i.call[1] = c /\ i.heard =>
                              /\ made'[c] = made[c]
                              /\ state'[c] = state[c]
                              /\ conn'[c] = conn[c],
           \A i, j \in work' : i.call = k /\ j.call = k => i = j,
           \A i \in work' : i.call = k => RequestSound(i)',
           CallSound(k)', CallerSound(c)'
    PROVE  CallInv'
<1>1. \A i \in work : i.call \in Calls /\ i.call[1] \in Callers
  <2>1. \A i \in work : i.call \in Calls
    BY DEF CallInv, TransportTypeOK
  <2> QED
    BY <2>1, CallPair
<1>2. ASSUME NEW i \in work' PROVE RequestSound(i)'
  <2>1. CASE i.call # k
    <3>1. i \in work /\ RequestSound(i) /\ i.call \in Calls /\ i.call[1] \in Callers
      BY <1>1, <2>1 DEF CallInv
    <3>2. answer'[i.call] = answer[i.call] /\ performed'[i.call] = performed[i.call]
      BY <2>1, <3>1
    <3>3. i.heard => /\ made'[i.call[1]] = made[i.call[1]]
                     /\ state'[i.call[1]] = state[i.call[1]]
                     /\ conn'[i.call[1]] = conn[i.call[1]]
      BY <2>1, <3>1
    <3> QED
      BY <3>1, <3>2, <3>3 DEF RequestSound, This
  <2> QED
    BY <2>1
<1>3. ASSUME NEW m \in Calls, m # k
      PROVE  /\ Untouched(m)' = Untouched(m)
             /\ Tries(m)' = Tries(m)
  <2>1. performed'[m] = performed[m]
    BY <1>3
  <2>2. /\ \A i \in work : i.call = m => i \in work'
        /\ \A i \in work' : i.call = m => i \in work
    BY <1>3
  <2> QED
    BY <2>1, <2>2 DEF Untouched, Ended, Tries, Sent
<1>4. ASSUME NEW m \in Calls, m # k PROVE CallSound(m)'
  <2>1. CallSound(m) /\ m[1] \in Callers /\ m[2] \in Nat
    BY CallPair DEF CallInv
  <2>2. made'[m[1]] >= made[m[1]] /\ made'[m[1]] \in Nat /\ made[m[1]] \in Nat
    <3>1. made[m[1]] \in Nat /\ made'[m[1]] \in Nat
      BY <2>1, TransportAssumptions DEF CallInv, TransportTypeOK
    <3> QED
      BY <2>1, <3>1
  <2>3. /\ request'[m] = request[m]
        /\ answer'[m] = answer[m]
        /\ performed'[m] = performed[m]
    BY <1>4
  <2> QED
    BY <1>3, <1>4, <2>1, <2>2, <2>3 DEF CallSound, Ended, RefusedLater
<1>5. ASSUME NEW d \in Callers, d # c PROVE CallerSound(d)'
  <2>1. CallerSound(d) /\ This(d)' = This(d)
    BY <1>5 DEF CallInv, This
  <2>2. /\ made'[d] = made[d] /\ state'[d] = state[d] /\ wrote'[d] = wrote[d]
        /\ conn'[d] = conn[d] /\ reused'[d] = reused[d]
    BY <1>5
  <2>3. CASE state[d] # "idle"
    <3>1. PICK m \in Calls : m = This(d) /\ m[1] = d
      BY <2>1, <2>3, ThisCall DEF CallInv, CallerSound
    <3>2. m # k
      BY <1>5, <3>1
    <3>3. /\ Untouched(m)' = Untouched(m) /\ Tries(m)' = Tries(m)
          /\ answer'[m] = answer[m] /\ request'[m] = request[m]
      BY <1>3, <3>2
    <3>4. Untouched(This(d))' = Untouched(m)' /\ Tries(This(d))' = Tries(m)'
          /\ answer'[This(d)'] = answer'[m] /\ request'[This(d)'] = request'[m]
      BY <2>1, <3>1 DEF Untouched, Ended, Tries, Sent
    <3> QED
      BY <2>1, <2>2, <2>3, <3>1, <3>3, <3>4 DEF CallerSound
  <2> QED
    BY <2>1, <2>2, <2>3 DEF CallerSound
<1>6. ASSUME NEW i \in work', NEW j \in work', i.call = j.call PROVE i = j
  <2>1. CASE i.call = k
    BY <1>6, <2>1
  <2>2. CASE i.call # k
    BY <1>6, <2>2 DEF CallInv
  <2> QED
    BY <2>1, <2>2
<1>7. /\ \A m \in Calls : CallSound(m)'
      /\ \A d \in Callers : CallerSound(d)'
  BY <1>4, <1>5
<1> QED
  BY <1>2, <1>6, <1>7 DEF CallInv

\* The current call of a caller that is not idle, and the request of it.
LEMMA CurrentCall ==
    ASSUME CallInv, NEW c \in Callers, state[c] # "idle"
    PROVE  \E k \in Calls :
              /\ k = This(c) /\ k[1] = c /\ k[2] = made[c]
              /\ answer[k] = "none"
              /\ CallSound(k) /\ CallerSound(c)
              /\ \A i \in work : i.call[1] = c /\ i.heard => i.call = k
              /\ \A i \in work : i.call = k => i.heard /\ state[c] = "waiting"
              /\ made[c] \in Nat /\ made[c] >= 1
<1>1. CallerSound(c) /\ TransportTypeOK
  BY DEF CallInv
<1>2. made[c] >= 1 /\ made[c] \in Nat
  BY <1>1, TransportAssumptions DEF CallerSound, TransportTypeOK
<1>3. PICK k \in Calls : k = This(c) /\ k[1] = c /\ k[2] = made[c]
  BY <1>1, <1>2, ThisCall
<1>4. answer[k] = "none" /\ CallSound(k)
  BY <1>1, <1>3 DEF CallerSound, CallInv
<1>5. ASSUME NEW i \in work
      PROVE  /\ i.call[1] = c /\ i.heard => i.call = k
             /\ i.call = k => i.heard /\ state[c] = "waiting"
  <2>1. RequestSound(i) /\ i.heard \in BOOLEAN
    BY DEF CallInv, TransportTypeOK
  <2> QED
    BY <1>3, <1>4, <2>1 DEF RequestSound
<1> QED
  BY <1>1, <1>2, <1>3, <1>4, <1>5

\* A new call is one nothing is known of.
LEMMA ExecutePreserves ==
    ASSUME CallInv, NEW c \in Callers, NEW r \in Requests, ExecuteJob(c, r)
    PROVE  CallInv'
<1>1. /\ TransportTypeOK /\ CallerSound(c)
      /\ made[c] \in Nat /\ MaxCalls \in Nat /\ made[c] < MaxCalls
      /\ state[c] = "idle"
  BY TransportAssumptions DEF CallInv, TransportTypeOK, ExecuteJob
<1>2. PICK k \in Calls : k = <<c, made[c] + 1>> /\ k[1] = c /\ k[2] = made[c] + 1
  <2>1. made[c] + 1 \in 1..MaxCalls
    BY <1>1
  <2>2. <<c, made[c] + 1>> \in Calls
    BY <2>1 DEF Calls
  <2> QED
    BY <2>2
<1>3. /\ made' = [made EXCEPT ![c] = made[c] + 1]
      /\ request' = [request EXCEPT ![k] = r]
      /\ wrote' = [wrote EXCEPT ![c] = FALSE]
      /\ \/ /\ state' = [state EXCEPT ![c] = "dialing"]
            /\ answer' = answer
         \/ /\ answer' = [answer EXCEPT ![k] = "invalid"]
            /\ state' = state
      /\ UNCHANGED <<conn, reused, work, performed>>
  BY <1>2 DEF ExecuteJob
<1>4. TransportTypeOK'
  <2>1. made' \in [Callers -> 0..MaxCalls]
    BY <1>1, <1>3 DEF TransportTypeOK
  <2> QED
    BY <1>1, <1>3, <2>1 DEF TransportTypeOK, Outcomes
<1>5. answer[k] = "none" /\ performed[k] = 0 /\ \A i \in work : i.call # k
  <2>1. CallSound(k) /\ k[2] > made[k[1]]
    BY <1>1, <1>2 DEF CallInv
  <2> QED
    BY <2>1 DEF CallSound, Untouched, Ended, RefusedLater
<1>6. Untouched(k)' /\ ~Sent(k)' /\ Tries(k)' = 0
  BY <1>3, <1>5 DEF Untouched, Ended, Sent, Tries
<1>7. /\ made'[c] = made[c] + 1
      /\ answer'[k] \in {"none", "invalid"}
      /\ state'[c] # "idle" => answer'[k] = "none" /\ state'[c] = "dialing"
  BY <1>1, <1>3, <1>5 DEF TransportTypeOK
<1>8. CallSound(k)'
  BY <1>1, <1>2, <1>3, <1>5, <1>6, <1>7 DEF CallSound
<1>9. CallerSound(c)'
  <2>1. This(c)' = k
    BY <1>2, <1>7 DEF This
  <2>2. Untouched(This(c))' = Untouched(k)' /\ Tries(This(c))' = Tries(k)'
        /\ answer'[This(c)'] = answer'[k]
    BY <2>1 DEF Untouched, Ended, Tries, Sent
  <2>3. reused'[c] => made[c] >= 1
    BY <1>1, <1>3 DEF CallerSound
  <2> QED
    BY <1>1, <1>6, <1>7, <2>2, <2>3 DEF CallerSound
<1>10. \A i \in work : i.call[1] = c => ~i.heard
  BY <1>1 DEF CallInv, RequestSound
<1> QED
  <2>1. \A d \in Callers \ {c} : /\ made'[d] = made[d]
                                 /\ state'[d] = state[d]
                                 /\ wrote'[d] = wrote[d]
                                 /\ conn'[d] = conn[d]
                                 /\ reused'[d] = reused[d]
    BY <1>1, <1>3 DEF TransportTypeOK
  <2>2. \A m \in Calls \ {k} : /\ request'[m] = request[m]
                               /\ answer'[m] = answer[m]
                               /\ performed'[m] = performed[m]
    BY <1>1, <1>3 DEF TransportTypeOK
  <2>3. made'[c] >= made[c]
    BY <1>1, <1>7
  <2>4. \A i \in work' : i \in work /\ i.call # k
    BY <1>3, <1>5
  <2> QED
    BY <1>2, <1>3, <1>4, <1>8, <1>9, <1>10, <2>1, <2>2, <2>3, <2>4, LocalPreserves

\* An answer to the current call ends it; it is one of a call that was not performed,
\* or was, as it says.
LEMMA ReturnPreserves ==
    ASSUME CallInv, NEW c \in Callers, state[c] # "idle", NEW o \in Outcomes,
           Return(c, o), UNCHANGED <<made, request, wrote, performed>>,
           conn' \in [Callers -> Peers \cup {NoConn, Broken}],
           reused' \in [Callers -> BOOLEAN],
           \A d \in Callers \ {c} : conn'[d] = conn[d] /\ reused'[d] = reused[d],
           work' \subseteq [call : Calls, peer : Peers, stage : {"sent", "performed"},
                            heard : BOOLEAN],
           \A i \in work : i.call # This(c) => i \in work',
           \A i \in work' : i.call # This(c) => i \in work,
           \A i \in work' : i.call = This(c) =>
                /\ ~i.heard /\ o = "uncertain"
                /\ \E h \in work : h.call = i.call /\ h.stage = i.stage,
           \A i, j \in work' : i.call = This(c) /\ j.call = This(c) => i = j,
           o \in {"invalid", "unsent", "refused"} => \A i \in work' : i.call # This(c),
           o \in {"invalid", "unsent"} => performed[This(c)] = 0,
           o = "refused" => performed[This(c)] = 0 \/ RefusedLater(This(c)),
           o = "result" => performed[This(c)] >= 1
    PROVE  CallInv'
<1>1. PICK k \in Calls :
              /\ k = This(c) /\ k[1] = c /\ k[2] = made[c]
              /\ answer[k] = "none"
              /\ CallSound(k) /\ CallerSound(c)
              /\ \A i \in work : i.call[1] = c /\ i.heard => i.call = k
              /\ made[c] \in Nat /\ made[c] >= 1
  BY CurrentCall
<1>2. TransportTypeOK
  BY DEF CallInv
<1>3. /\ state' = [state EXCEPT ![c] = "idle"]
      /\ answer' = [answer EXCEPT ![k] = o]
  BY <1>1 DEF Return
<1>4. state'[c] = "idle" /\ answer'[k] = o
  BY <1>2, <1>3 DEF TransportTypeOK
<1>5. TransportTypeOK'
  BY <1>2, <1>3 DEF TransportTypeOK
<1>6. ASSUME NEW i \in work', i.call = k PROVE RequestSound(i)'
  <2>1. PICK h \in work : h.call = k /\ h.stage = i.stage /\ ~i.heard /\ o = "uncertain"
    BY <1>1, <1>6
  <2>2. i.stage = "performed" => performed[k] >= 1
    BY <2>1 DEF CallInv, RequestSound
  <2> QED
    BY <1>4, <1>6, <2>1, <2>2 DEF RequestSound
<1>7. CallSound(k)'
  <2>1. Sent(k)' => Sent(k)
    BY <1>1 DEF Sent
  <2>2. performed[k] \in Nat
    BY <1>2 DEF TransportTypeOK
  <2>3. Tries(k)' <= Tries(k) /\ Tries(k) \in Nat /\ Tries(k)' \in Nat
    BY <2>1, <2>2 DEF Tries
  <2>4. /\ o \in {"invalid", "unsent"} => Untouched(k)'
        /\ o = "refused" => Ended(k)' /\ (performed'[k] = 0 \/ RefusedLater(k)')
    BY <1>1 DEF Untouched, Ended, RefusedLater
  <2> QED
    BY <1>1, <1>4, <2>3, <2>4 DEF CallSound
<1>8. CallerSound(c)'
  BY <1>1, <1>4 DEF CallerSound
<1> QED
  <2>1. \A d \in Callers \ {c} : state'[d] = state[d]
    BY <1>2, <1>3 DEF TransportTypeOK
  <2>2. \A m \in Calls \ {k} : answer'[m] = answer[m]
    BY <1>2, <1>3 DEF TransportTypeOK
  <2> QED
    BY <1>1, <1>5, <1>6, <1>7, <1>8, <2>1, <2>2, LocalPreserves

\* The socket is answered by an agent or by the foreign program.
LEMMA AnsweredByPeer ==
    ASSUME TypeOK, Answers(path)
    PROVE  path \in Peers
BY SocketAssumptions DEF TypeOK, Answers, Peers

\* A caller whose connection changes while nothing of its call is under way, or whose
\* call goes back to the connection it sends on.
LEMMA DialPreserves ==
    ASSUME CallInv, NEW c \in Callers, state[c] # "idle",
           TransportTypeOK',
           UNCHANGED <<made, request, answer, wrote, work, performed>>,
           \A d \in Callers \ {c} : /\ state'[d] = state[d]
                                    /\ conn'[d] = conn[d]
                                    /\ reused'[d] = reused[d],
           \A i \in work : i.call # This(c),
           state'[c] = "dialing",
           reused'[c] => reused[c],
           Tries(This(c)) <= 1,
           Tries(This(c)) = 1 => /\ made[c] >= 2 /\ Keyed(request[This(c)])
                                 /\ conn'[c] \in Peers => ~reused'[c]
    PROVE  CallInv'
<1>1. PICK k \in Calls :
              /\ k = This(c) /\ k[1] = c /\ k[2] = made[c]
              /\ answer[k] = "none"
              /\ CallSound(k) /\ CallerSound(c)
              /\ \A i \in work : i.call[1] = c /\ i.heard => i.call = k
              /\ made[c] \in Nat /\ made[c] >= 1
  BY CurrentCall
<1>2. Untouched(k)' = Untouched(k) /\ Tries(k)' = Tries(k)
  BY DEF Untouched, Ended, Tries, Sent
<1>3. CallSound(k)'
  BY <1>1, <1>2 DEF CallSound
<1>4. CallerSound(c)'
  <2>1. This(c)' = k
    BY <1>1 DEF This
  <2>2. Untouched(This(c))' = Untouched(k)' /\ Tries(This(c))' = Tries(k)'
    BY <2>1 DEF Untouched, Ended, Tries, Sent
  <2> QED
    BY <1>1, <1>2, <2>1, <2>2 DEF CallerSound
<1>5. \A i \in work : i.call # k
  BY <1>1
<1> QED
  BY <1>1, <1>3, <1>4, <1>5, LocalPreserves DEF CallInv

\* A connection is made, or there is nobody to connect to.
LEMMA ConnectPreserves ==
    ASSUME CallInv, TypeOK, NEW c \in Callers, Connect(c)
    PROVE  CallInv'
<1>1. state[c] = "dialing"
  BY DEF Connect
<1>2. PICK k \in Calls :
              /\ k = This(c)
              /\ CallerSound(c)
              /\ \A i \in work : i.call = k => i.heard /\ state[c] = "waiting"
  BY <1>1, CurrentCall
<1>3. TransportTypeOK /\ \A i \in work : i.call # This(c)
  BY <1>1, <1>2 DEF CallInv
<1>4. CASE Answers(path)
  <2>1. /\ conn' = [conn EXCEPT ![c] = path]
        /\ reused' = [reused EXCEPT ![c] = FALSE]
        /\ UNCHANGED <<made, state, request, answer, wrote, work, performed>>
    BY <1>4 DEF Connect
  <2>2. TransportTypeOK'
    BY <1>3, <1>4, <2>1, AnsweredByPeer DEF TransportTypeOK
  <2>3. ~reused'[c] /\ \A d \in Callers \ {c} : /\ conn'[d] = conn[d]
                                                /\ reused'[d] = reused[d]
    BY <1>3, <2>1 DEF TransportTypeOK
  <2>4. /\ Tries(This(c)) <= 1
        /\ Tries(This(c)) = 1 => made[c] >= 2 /\ Keyed(request[This(c)])
    BY <1>1, <1>2 DEF CallerSound
  <2> QED
    BY <1>1, <1>3, <2>1, <2>2, <2>3, <2>4, DialPreserves
<1>5. CASE ~Answers(path)
  <2> DEFINE o == IF wrote[c] THEN "uncertain" ELSE "unsent"
  <2>1. /\ Return(c, o) /\ o \in Outcomes
        /\ UNCHANGED <<made, request, wrote, conn, reused, work, performed>>
    BY <1>5 DEF Connect, Outcomes
  <2>2. o = "unsent" => performed[This(c)] = 0
    BY <1>1, <1>2 DEF CallerSound, Untouched, Ended
  <2>3. /\ o # "result" /\ o \notin {"invalid", "refused"}
    OBVIOUS
  <2> HIDE DEF o
  <2> QED
    BY <1>1, <1>3, <2>1, <2>2, <2>3, ReturnPreserves DEF TransportTypeOK
<1> QED
  BY <1>4, <1>5

\* A request is sent: the first of its call, or the second.
LEMMA SendPreserves ==
    ASSUME CallInv, NEW c \in Callers, Send(c)
    PROVE  CallInv'
<1>1. state[c] = "dialing" /\ conn[c] \in Peers
  BY DEF Send
<1>2. PICK k \in Calls :
              /\ k = This(c) /\ k[1] = c /\ k[2] = made[c]
              /\ answer[k] = "none"
              /\ CallSound(k) /\ CallerSound(c)
              /\ \A i \in work : i.call = k => i.heard /\ state[c] = "waiting"
              /\ \A i \in work : i.call[1] = c /\ i.heard => i.call = k
              /\ made[c] \in Nat /\ made[c] >= 1
  BY <1>1, CurrentCall
<1>3. TransportTypeOK /\ \A i \in work : i.call # k
  BY <1>1, <1>2 DEF CallInv
<1>4. /\ state' = [state EXCEPT ![c] = "waiting"]
      /\ wrote' = [wrote EXCEPT ![c] = TRUE]
      /\ UNCHANGED <<made, request, answer, conn, reused, performed>>
  BY DEF Send
<1>5. PICK new \in [call : Calls, peer : Peers, stage : {"sent", "performed"},
                    heard : BOOLEAN] :
         /\ new.call = k /\ new.peer = conn[c] /\ new.stage = "sent" /\ new.heard = TRUE
         /\ work' = work \cup {new}
  <2>1. work' = work \cup {[call |-> k, peer |-> conn[c], stage |-> "sent",
                            heard |-> TRUE]}
    BY <1>2 DEF Send, Item
  <2> QED
    BY <1>1, <2>1
<1>6. TransportTypeOK'
  BY <1>3, <1>4, <1>5 DEF TransportTypeOK
<1>7. state'[c] = "waiting" /\ wrote'[c]
  BY <1>3, <1>4 DEF TransportTypeOK
<1>8. \A i \in work' : i.call = k => i = new
  BY <1>3, <1>5
<1>9. RequestSound(new)'
  <2>1. This(c)' = k
    BY <1>2, <1>4 DEF This
  <2> QED
    BY <1>2, <1>4, <1>5, <1>7, <2>1 DEF RequestSound
<1>10. /\ performed[k] \in Nat
       /\ Tries(k) = performed[k]
       /\ Tries(k)' = performed[k] + 1
  <2>1. performed[k] \in Nat /\ ~Sent(k)
    BY <1>3 DEF Sent, TransportTypeOK
  <2>2. Sent(k)'
    BY <1>5 DEF Sent
  <2> QED
    BY <1>4, <2>1, <2>2 DEF Tries
<1>11. /\ performed[k] <= 1
       /\ performed[k] = 1 => made[c] >= 2 /\ Keyed(request[k]) /\ ~reused[c]
  BY <1>1, <1>2, <1>10 DEF CallerSound
<1>12. CallSound(k)'
  BY <1>2, <1>4, <1>10, <1>11 DEF CallSound
<1>13. CallerSound(c)'
  <2>1. This(c)' = k
    BY <1>2, <1>4 DEF This
  <2>2. Tries(This(c))' = Tries(k)'
    BY <2>1 DEF Tries, Sent
  <2> QED
    BY <1>1, <1>2, <1>4, <1>7, <1>10, <1>11, <2>1, <2>2 DEF CallerSound
<1> QED
  <2>1. \A d \in Callers \ {c} : state'[d] = state[d] /\ wrote'[d] = wrote[d]
    BY <1>3, <1>4 DEF TransportTypeOK
  <2>2. \A i \in work' : i.call # k => i \in work
    BY <1>5
  <2>3. \A i \in work : i \in work'
    BY <1>5
  <2>4. \A i \in work' : i.call = k => RequestSound(i)'
    BY <1>8, <1>9
  <2>5. \A i, j \in work' : i.call = k /\ j.call = k => i = j
    BY <1>8
  <2>6. made'[c] >= made[c]
    BY <1>2, <1>4
  <2>7. \A i \in work : ~(i.call # k /\ i.call[1] = c /\ i.heard)
    BY <1>2
  <2> QED
    BY <1>2, <1>4, <1>6, <1>12, <1>13, <2>1, <2>2, <2>3, <2>4, <2>5, <2>6, <2>7,
       LocalPreserves

\* A request on a broken connection is with nobody any more.
LEMMA BrokenAlone ==
    ASSUME CallInv, NEW c \in Callers, conn[c] \notin Peers,
           NEW i \in work, i.call[1] = c
    PROVE  ~i.heard
<1>1. i.peer \in Peers /\ RequestSound(i)
  BY DEF CallInv, TransportTypeOK
<1> QED
  BY <1>1 DEF RequestSound

\* A request is sent again on no connection but one kept from an earlier call.
LEMMA SendAgainPreserves ==
    ASSUME CallInv, NEW c \in Callers, SendAgain(c)
    PROVE  CallInv'
<1>1. /\ state[c] = "waiting" /\ conn[c] = Broken /\ reused[c]
      /\ Keyed(request[This(c)])
      /\ state' = [state EXCEPT ![c] = "dialing"]
      /\ UNCHANGED <<made, request, answer, wrote, conn, reused, work, performed>>
  BY DEF SendAgain
<1>2. PICK k \in Calls :
              /\ k = This(c) /\ k[1] = c
              /\ CallerSound(c)
              /\ \A i \in work : i.call = k => i.heard /\ state[c] = "waiting"
  BY <1>1, CurrentCall
<1>3. Broken \notin Peers
  BY TransportAssumptions DEF Peers
<1>4. \A i \in work : i.call # This(c)
  BY <1>1, <1>2, <1>3, BrokenAlone
<1>5. TransportTypeOK /\ TransportTypeOK'
  BY <1>1 DEF CallInv, TransportTypeOK
<1>6. state'[c] = "dialing" /\ \A d \in Callers \ {c} : state'[d] = state[d]
  BY <1>1, <1>5 DEF TransportTypeOK
<1>7. Tries(This(c)) <= 1 /\ made[c] >= 2
  BY <1>1, <1>2 DEF CallerSound
<1> QED
  BY <1>1, <1>3, <1>4, <1>5, <1>6, <1>7, DialPreserves

\* A call whose connection broke ends without an answer.
LEMMA LostPreserves ==
    ASSUME CallInv, NEW c \in Callers, Lost(c)
    PROVE  CallInv'
<1>1. /\ state[c] = "waiting" /\ conn[c] = Broken
      /\ Return(c, "uncertain")
      /\ UNCHANGED <<made, request, wrote, conn, reused, work, performed>>
  BY DEF Lost
<1>2. PICK k \in Calls :
              /\ k = This(c) /\ k[1] = c
              /\ \A i \in work : i.call = k => i.heard /\ state[c] = "waiting"
  BY <1>1, CurrentCall
<1>3. Broken \notin Peers
  BY TransportAssumptions DEF Peers
<1>4. \A i \in work : i.call # This(c)
  BY <1>1, <1>2, <1>3, BrokenAlone
<1>5. TransportTypeOK /\ "uncertain" \in Outcomes
  BY DEF CallInv, Outcomes
<1> QED
  BY <1>1, <1>4, <1>5, ReturnPreserves DEF TransportTypeOK

\* A call that times out leaves its request behind, if it was sent.
LEMMA TimeOutPreserves ==
    ASSUME CallInv, NEW c \in Callers, TimeOut(c)
    PROVE  CallInv'
<1> DEFINE o == IF wrote[c] THEN "uncertain" ELSE "unsent"
           Deaf(i) == [i EXCEPT !.heard = i.heard /\ i.call[1] # c]
           Items == [call : Calls, peer : Peers, stage : {"sent", "performed"},
                     heard : BOOLEAN]
<1>1. /\ state[c] # "idle"
      /\ Return(c, o)
      /\ conn' = [conn EXCEPT ![c] = NoConn]
      /\ work' = {Deaf(i) : i \in work}
      /\ UNCHANGED <<made, request, wrote, reused, performed>>
  BY DEF TimeOut
<1>2. PICK k \in Calls :
              /\ k = This(c) /\ k[1] = c
              /\ CallerSound(c)
              /\ \A i \in work : i.call[1] = c /\ i.heard => i.call = k
              /\ \A i \in work : i.call = k => i.heard /\ state[c] = "waiting"
  BY <1>1, CurrentCall
<1>3. TransportTypeOK /\ work \subseteq Items /\ o \in Outcomes
  BY DEF CallInv, TransportTypeOK, Outcomes
<1>4. ASSUME NEW i \in work
      PROVE  /\ Deaf(i) \in Items
             /\ Deaf(i).call = i.call /\ Deaf(i).stage = i.stage
             /\ i.call = k => ~Deaf(i).heard
             /\ i.call # k => Deaf(i) = i
  <2>1. i \in Items
    BY <1>3
  <2>2. /\ Deaf(i).call = i.call /\ Deaf(i).stage = i.stage /\ Deaf(i).peer = i.peer
        /\ Deaf(i).heard = (i.heard /\ i.call[1] # c)
        /\ Deaf(i) \in Items
    BY <2>1
  <2>3. i.call # k => (i.heard /\ i.call[1] # c) = i.heard
    BY <1>2, <2>1
  <2>4. i.call # k => Deaf(i) = i
    BY <2>1, <2>3
  <2> QED
    BY <1>2, <2>2, <2>4
<1> HIDE DEF Deaf
<1>5. /\ work' \subseteq Items
      /\ \A i \in work : i.call # k => i \in work'
      /\ \A i \in work' : i.call # k => i \in work
      /\ \A i \in work' : i.call = k =>
            ~i.heard /\ \E h \in work : h.call = i.call /\ h.stage = i.stage
  BY <1>1, <1>4
<1>6. \A i, j \in work' : i.call = k /\ j.call = k => i = j
  <2>1. \A i, j \in work : i.call = j.call => i = j
    BY DEF CallInv
  <2> QED
    BY <1>1, <1>4, <2>1
<1>7. \A i \in work' : i.call = k => o = "uncertain"
  <2>1. (\E i \in work : i.call = k) => wrote[c]
    BY <1>2 DEF CallerSound
  <2> QED
    BY <1>5, <2>1
<1>8. o \in {"invalid", "unsent", "refused"} =>
         performed[k] = 0 /\ \A i \in work' : i.call # k
  <2>1. o = "unsent" => Untouched(k)
    BY <1>1, <1>2 DEF CallerSound
  <2> QED
    BY <1>5, <2>1 DEF Untouched, Ended
<1>9. o # "refused" /\ o # "result"
  OBVIOUS
<1>10. /\ conn' \in [Callers -> Peers \cup {NoConn, Broken}]
       /\ reused' \in [Callers -> BOOLEAN]
       /\ \A d \in Callers \ {c} : conn'[d] = conn[d] /\ reused'[d] = reused[d]
  BY <1>1, <1>3 DEF TransportTypeOK
<1> HIDE DEF o
<1> QED
  BY <1>1, <1>2, <1>3, <1>5, <1>6, <1>7, <1>8, <1>9, <1>10, ReturnPreserves

\* An agent's answer reaches the call that waits for it, or nobody.
LEMMA AnswerPreserves ==
    ASSUME CallInv, NEW i \in work, NEW o \in Outcomes,
           NEW keeps \in BOOLEAN,
           AnswerWith(i, o, keeps), UNCHANGED <<made, request, wrote, performed>>,
           o \in {"result", "error", "unreadable"} => performed[i.call] >= 1,
           o \notin {"invalid", "unsent"},
           o = "refused" => performed[i.call] = 0 \/ RefusedLater(i.call)
    PROVE  CallInv'
<1> DEFINE c == i.call[1]
           Items == [call : Calls, peer : Peers, stage : {"sent", "performed"},
                     heard : BOOLEAN]
<1>1. /\ TransportTypeOK /\ RequestSound(i) /\ i.call \in Calls /\ c \in Callers
      /\ work \subseteq Items /\ work' = work \ {i}
  <2>1. i.call \in Calls
    BY DEF CallInv, TransportTypeOK
  <2> QED
    BY <2>1, CallPair DEF CallInv, TransportTypeOK, AnswerWith
<1>2. CASE i.heard /\ state[c] = "waiting"
  <2>1. /\ Return(c, o)
        /\ conn' = [conn EXCEPT ![c] =
                      IF keeps /\ pc[i.peer] = "serving" THEN @ ELSE NoConn]
        /\ reused' = [reused EXCEPT ![c] = TRUE]
    BY <1>2 DEF AnswerWith
  <2>2. i.call = This(c)
    BY <1>1, <1>2 DEF RequestSound
  <2>3. \A j \in work' : j \in work /\ j.call # This(c)
    BY <1>1, <2>2 DEF CallInv
  <2>4. \A j \in work : j.call # This(c) => j \in work'
    BY <1>1, <2>2
  <2>5. /\ conn' \in [Callers -> Peers \cup {NoConn, Broken}]
        /\ reused' \in [Callers -> BOOLEAN]
        /\ \A d \in Callers \ {c} : conn'[d] = conn[d] /\ reused'[d] = reused[d]
    BY <1>1, <2>1 DEF TransportTypeOK
  <2>6. work' \subseteq Items
    BY <1>1
  <2>7. /\ o = "refused" => performed[This(c)] = 0 \/ RefusedLater(This(c))
        /\ o = "result" => performed[This(c)] >= 1
    BY <2>2
  <2>8. state[c] # "idle"
    BY <1>2
  <2>9. PICK d \in Callers : d = c
    BY <1>1
  <2> HIDE DEF c
  <2> QED
    BY <2>1, <2>3, <2>4, <2>5, <2>6, <2>7, <2>8, <2>9, ReturnPreserves
<1>3. CASE ~(i.heard /\ state[c] = "waiting")
  <2>1. UNCHANGED <<state, answer, conn, reused>>
    BY <1>3 DEF AnswerWith
  <2> QED
    BY <1>1, <2>1, LosePreserves DEF TransportTypeOK
<1> QED
  BY <1>2, <1>3

\* What handleAction refuses has not begun.
LEMMA RefusePreserves ==
    ASSUME CallInv, NEW i \in work, Refuse(i)
    PROVE  CallInv'
<1>1. i.call \in Calls /\ Verdict(request[i.call]) = "refuse"
  BY DEF CallInv, TransportTypeOK, Refuse
<1>2. performed[i.call] = 0
  <2>1. CallSound(i.call) /\ performed[i.call] \in Nat
    BY <1>1 DEF CallInv, TransportTypeOK
  <2> QED
    BY <1>1, <2>1 DEF CallSound
<1>3. "refused" \in Outcomes
  BY DEF Outcomes
<1> QED
  BY <1>2, <1>3, AnswerPreserves DEF Refuse

\* What cannot be read is not performed; an earlier request of the call may have been.
LEMMA RefuseUnreadPreserves ==
    ASSUME CallInv, NEW i \in work, RefuseUnread(i)
    PROVE  CallInv'
<1>1. i.call \in Calls /\ performed[i.call] \in Nat /\ CallSound(i.call)
  BY DEF CallInv, TransportTypeOK
<1>2. Sent(i.call)
  BY DEF RefuseUnread, Sent
<1>3. performed[i.call] = 0 \/ RefusedLater(i.call)
  BY <1>1, <1>2 DEF CallSound, Tries, RefusedLater
<1>4. "refused" \in Outcomes
  BY DEF Outcomes
<1> QED
  BY <1>3, <1>4, AnswerPreserves DEF RefuseUnread

\* What is replied is replied of an action that ended.
LEMMA ReplyPreserves ==
    ASSUME CallInv, NEW i \in work, NEW o \in Outcomes, Reply(i, o)
    PROVE  CallInv'
<1>1. performed[i.call] >= 1
  BY DEF Reply, CallInv, RequestSound
<1> QED
  BY <1>1, AnswerPreserves DEF Reply

\* An action is performed once for each request that was sent.
LEMMA PerformPreserves ==
    ASSUME CallInv, NEW i \in work, Perform(i)
    PROVE  CallInv'
<1> DEFINE Items == [call : Calls, peer : Peers, stage : {"sent", "performed"},
                     heard : BOOLEAN]
<1>1. /\ TransportTypeOK /\ RequestSound(i) /\ i \in Items /\ work \subseteq Items
      /\ \A h, j \in work : h.call = j.call => h = j
  BY DEF CallInv, TransportTypeOK
<1>2. PICK k \in Calls : k = i.call /\ k[1] \in Callers
  BY <1>1, CallPair
<1>3. PICK c \in Callers : c = k[1]
  BY <1>2
<1>4. /\ i.stage = "sent" /\ Verdict(request[k]) = "perform"
      /\ performed' = [performed EXCEPT ![k] = performed[k] + 1]
      /\ UNCHANGED <<made, state, request, answer, wrote, conn, reused>>
  BY <1>2 DEF Perform
<1>5. PICK new \in Items :
         /\ new.call = k /\ new.peer = i.peer /\ new.stage = "performed"
         /\ new.heard = i.heard
         /\ work' = (work \ {i}) \cup {new}
  <2>1. work' = (work \ {i}) \cup {[i EXCEPT !.stage = "performed"]}
    BY DEF Perform
  <2> QED
    BY <1>1, <1>2, <2>1
<1>6. performed[k] \in Nat /\ performed'[k] = performed[k] + 1
  BY <1>1, <1>4 DEF TransportTypeOK
<1>7. TransportTypeOK'
  BY <1>1, <1>4, <1>5 DEF TransportTypeOK
<1>8. \A j \in work' : j.call = k => j = new
  BY <1>1, <1>2, <1>5
<1>9. RequestSound(new)'
  <2>1. This(c)' = This(c)
    BY <1>4 DEF This
  <2> QED
    BY <1>1, <1>2, <1>3, <1>4, <1>5, <1>6, <2>1 DEF RequestSound
<1>10. Tries(k)' = Tries(k) /\ Tries(k) = performed[k] + 1
  <2>1. Sent(k)
    BY <1>2, <1>4 DEF Sent
  <2>2. ~Sent(k)'
    BY <1>5, <1>8 DEF Sent
  <2> QED
    BY <1>6, <2>1, <2>2 DEF Tries
<1>11. CallSound(k) /\ CallerSound(c)
  BY DEF CallInv
<1>12. ~Untouched(k) /\ ~Ended(k)
  BY <1>2 DEF Untouched, Ended
<1>13. CallSound(k)'
  <2>1. answer'[k] = answer[k] /\ made'[k[1]] = made[k[1]] /\ request'[k] = request[k]
    BY <1>4
  <2> QED
    BY <1>4, <1>6, <1>10, <1>11, <1>12, <2>1 DEF CallSound
<1>14. CallerSound(c)'
  <2>1. This(c)' = This(c)
    BY <1>4 DEF This
  <2>2. CASE state[c] # "idle"
    <3>1. PICK m \in Calls : m = This(c)
      BY <2>2, CurrentCall
    <3>2. (m = k => ~Untouched(m)) /\ Tries(m)' = Tries(m)
          /\ (m # k => Untouched(m)' = Untouched(m))
      <4>1. CASE m = k
        BY <1>10, <1>12, <4>1
      <4>2. CASE m # k
        <5>1. performed'[m] = performed[m]
          BY <1>1, <1>4, <4>2 DEF TransportTypeOK
        <5>2. /\ \A h \in work : h.call = m => h \in work'
              /\ \A h \in work' : h.call = m => h \in work
          BY <1>2, <1>5, <4>2
        <5> QED
          BY <4>2, <5>1, <5>2 DEF Untouched, Ended, Tries, Sent, RefusedLater
      <4> QED
        BY <4>1, <4>2
    <3>3. Untouched(This(c))' = Untouched(m)' /\ Tries(This(c))' = Tries(m)'
      BY <2>1, <3>1 DEF Untouched, Ended, Tries, Sent
    <3> QED
      BY <1>4, <1>11, <2>1, <2>2, <3>1, <3>2, <3>3 DEF CallerSound
  <2>3. CASE state[c] = "idle"
    BY <1>4, <1>11, <2>3 DEF CallerSound
  <2> QED
    BY <2>2, <2>3
<1> QED
  <2>1. \A m \in Calls \ {k} : performed'[m] = performed[m]
    BY <1>1, <1>4 DEF TransportTypeOK
  <2>2. /\ \A j \in work : j.call # k => j \in work'
        /\ \A j \in work' : j.call # k => j \in work
        /\ \A h, j \in work' : h.call = k /\ j.call = k => h = j
        /\ \A j \in work' : j.call = k => RequestSound(j)'
    BY <1>2, <1>5, <1>8, <1>9
  <2>3. made'[c] >= made[c]
    <3>1. made[c] \in Nat
      BY <1>1, TransportAssumptions DEF TransportTypeOK
    <3> QED
      BY <1>4, <3>1
  <2> QED
    BY <1>3, <1>4, <1>7, <1>13, <1>14, <2>1, <2>2, <2>3, LocalPreserves

\* What ends without an answer to its caller.
LEMMA BreakPreserves ==
    ASSUME CallInv
    PROVE  /\ \A i \in work : ReplyTooLate(i) => CallInv'
           /\ \A c \in Callers : CloseConnection(c) => CallInv'
           /\ \A p \in Peers : Break(p) => CallInv'
<1>1. TransportTypeOK /\ \A i \in work : RequestSound(i) /\ i.call[1] \in Callers
  <2>1. \A i \in work : i.call \in Calls
    BY DEF CallInv, TransportTypeOK
  <2> QED
    BY <2>1, CallPair DEF CallInv
<1>2. \A i, j \in work : i.heard /\ j.heard /\ i.call[1] = j.call[1] => i = j
  BY <1>1 DEF CallInv, RequestSound
<1>3. ASSUME NEW i \in work, ReplyTooLate(i) PROVE CallInv'
  <2>1. /\ work' = work \ {i}
        /\ conn' = [conn EXCEPT ![i.call[1]] = IF i.heard THEN Broken ELSE @]
        /\ UNCHANGED <<made, state, request, answer, wrote, reused, performed>>
    BY <1>3 DEF ReplyTooLate
  <2>2. /\ conn' \in [Callers -> Peers \cup {NoConn, Broken}]
        /\ \A c \in Callers : conn'[c] = conn[c] \/ conn'[c] \in {NoConn, Broken}
    BY <1>1, <2>1 DEF TransportTypeOK
  <2>3. \A j \in work' : j.heard => conn'[j.call[1]] = conn[j.call[1]]
    BY <1>1, <1>2, <2>1 DEF TransportTypeOK
  <2> QED
    BY <2>1, <2>2, <2>3, LosePreserves
<1>4. ASSUME NEW c \in Callers, CloseConnection(c) PROVE CallInv'
  <2>1. /\ conn' = [conn EXCEPT ![c] = Broken]
        /\ work' = {i \in work : ~(i.call[1] = c /\ i.heard)}
        /\ UNCHANGED <<made, state, request, answer, wrote, reused, performed>>
    BY <1>4 DEF CloseConnection
  <2>2. /\ conn' \in [Callers -> Peers \cup {NoConn, Broken}]
        /\ \A d \in Callers : conn'[d] = conn[d] \/ conn'[d] \in {NoConn, Broken}
    BY <1>1, <2>1 DEF TransportTypeOK
  <2>3. \A j \in work' : j.heard => conn'[j.call[1]] = conn[j.call[1]]
    BY <1>1, <2>1 DEF TransportTypeOK
  <2> QED
    BY <2>1, <2>2, <2>3, LosePreserves
<1>5. ASSUME NEW p \in Peers, Break(p) PROVE CallInv'
  <2>1. /\ conn' = [c \in Callers |-> IF conn[c] = p THEN Broken ELSE conn[c]]
        /\ work' = {i \in work : i.peer # p}
        /\ UNCHANGED <<made, state, request, answer, wrote, reused, performed>>
    BY <1>5 DEF Break
  <2>2. /\ conn' \in [Callers -> Peers \cup {NoConn, Broken}]
        /\ \A d \in Callers : conn'[d] = conn[d] \/ conn'[d] \in {NoConn, Broken}
    BY <1>1, <2>1 DEF TransportTypeOK
  <2>3. \A j \in work' : j.heard => conn'[j.call[1]] = conn[j.call[1]]
    BY <1>1, <2>1 DEF RequestSound
  <2> QED
    BY <2>1, <2>2, <2>3, LosePreserves
<1> QED
  BY <1>3, <1>4, <1>5

\* The invariant of the calls is inductive.
LEMMA NextCallInv == SocketInv /\ CallInv /\ [TNext]_tvars => CallInv'
<1> SUFFICES ASSUME SocketInv, CallInv, [TNext]_tvars PROVE CallInv'
  OBVIOUS
<1>1. ASSUME UNCHANGED transportVars PROVE CallInv'
  BY <1>1, LosePreserves DEF transportVars, CallInv, TransportTypeOK
<1>2. ASSUME NEW c \in Callers, Calling(c) PROVE CallInv'
  <2>1. TypeOK
    BY DEF SocketInv
  <2> QED
    BY <1>2, <2>1, ExecutePreserves, ConnectPreserves, SendPreserves, SendAgainPreserves,
       LostPreserves, TimeOutPreserves, BreakPreserves DEF Calling
<1>3. ASSUME NEW i \in work, Working(i) PROVE CallInv'
  BY <1>3, RefusePreserves, RefuseUnreadPreserves, PerformPreserves, ReplyPreserves,
     BreakPreserves DEF Working
<1>4. ASSUME NEW a \in Agents, Ending(a) PROVE CallInv'
  BY <1>1, <1>4, BreakPreserves DEF Ending, Peers
<1>5. CASE TForeignEnds
  BY <1>5, BreakPreserves DEF TForeignEnds, Peers
<1>6. CASE UNCHANGED tvars
  BY <1>1, <1>6 DEF tvars
<1> QED
  BY <1>1, <1>2, <1>3, <1>4, <1>5, <1>6 DEF TNext, AgentSteps, AgentDisturbed

\* Requests, connections and answers stay consistent with what was performed.
THEOREM CallInvariant == TSpec => []CallInv
BY InitCallInv, NextCallInv, SocketInvariant, PTL DEF TSpec

\* What ExecuteJob reports as not performed was not, and will not be.
THEOREM UndoneTheorem == TSpec => []UndoneUnlessSent
<1>1. CallInv => UndoneUnlessSent
  BY DEF CallInv, CallSound, Untouched, Ended, UndoneUnlessSent
<1> QED
  BY <1>1, CallInvariant, PTL

\* A result that ExecuteJob returns is of the call that returns it.
THEOREM ResultTheorem == TSpec => []ResultMeansDone
<1>1. CallInv => ResultMeansDone
  BY DEF CallInv, CallSound, ResultMeansDone
<1> QED
  BY <1>1, CallInvariant, PTL

\* The key a request carries lets net/http repeat it, but no more than once, and only
\* after an earlier call.
THEOREM AtMostTwiceTheorem == TSpec => []AtMostTwice
<1>1. CallInv => AtMostTwice
  <2> SUFFICES ASSUME CallInv, NEW k \in Calls, performed[k] > 1
               PROVE  performed[k] = 2 /\ k[2] > 1 /\ Keyed(request[k])
    BY DEF AtMostTwice
  <2>1. CallSound(k) /\ performed[k] \in Nat
    BY DEF CallInv, TransportTypeOK
  <2>2. performed[k] <= Tries(k) /\ Tries(k) \in Nat /\ Tries(k) <= 2
    BY <2>1 DEF CallSound, Tries
  <2> QED
    BY <2>1, <2>2 DEF CallSound
<1> QED
  BY <1>1, CallInvariant, PTL

-----------------------------------------------------------------------------
(* Which calls are under way *)

\* Initially none was made.
LEMMA InitAskedInv == TInit => AskedInv
<1> SUFFICES ASSUME TInit PROVE AskedInv
  OBVIOUS
<1>1. ASSUME NEW k \in Calls
      PROVE  request[k] = NoRequest /\ ~(k[2] <= made[k[1]])
  BY <1>1, CallPair DEF TInit
<1> QED
  BY <1>1 DEF TInit, AskedInv

\* What neither makes nor answers a call leaves it under way.
LEMMA QuietAsked ==
    ASSUME AskedInv, UNCHANGED <<made, state, request, answer, wrote>>
    PROVE  AskedInv'
BY DEF AskedInv, This

\* A new call is under way or answered at once; the call before it has its answer.
LEMMA ExecuteAsked ==
    ASSUME CallInv, AskedInv, NEW c \in Callers, NEW r \in Requests, ExecuteJob(c, r)
    PROVE  AskedInv'
<1>1. TransportTypeOK /\ made[c] \in Nat /\ made[c] < MaxCalls /\ state[c] = "idle"
  BY TransportAssumptions DEF CallInv, TransportTypeOK, ExecuteJob
<1>2. PICK k \in Calls : k = <<c, made[c] + 1>>
  <2>1. made[c] + 1 \in 1..MaxCalls
    BY <1>1, TransportAssumptions
  <2> QED
    BY <2>1 DEF Calls
<1>3. /\ made' = [made EXCEPT ![c] = made[c] + 1]
      /\ request' = [request EXCEPT ![k] = r]
      /\ wrote' = [wrote EXCEPT ![c] = FALSE]
      /\ \/ /\ state' = [state EXCEPT ![c] = "dialing"]
            /\ answer' = answer
         \/ /\ answer' = [answer EXCEPT ![k] = "invalid"]
            /\ state' = state
  BY <1>2 DEF ExecuteJob
<1>4. r # NoRequest
  BY TransportAssumptions
<1>5. ASSUME NEW m \in Calls
      PROVE  /\ request'[m] # NoRequest <=> m[2] <= made'[m[1]]
             /\ m[2] <= made'[m[1]] /\ answer'[m] = "none" =>
                   m = This(m[1])' /\ state'[m[1]] # "idle"
  <2>1. m = <<m[1], m[2]>> /\ m[1] \in Callers /\ m[2] \in Nat
    BY CallPair
  <2>2. CASE m = k
    <3>1. m[1] = c /\ m[2] = made'[c]
      BY <1>1, <1>2, <1>3, <2>2 DEF TransportTypeOK
    <3>2. request'[m] = r
      BY <1>1, <1>3, <2>2 DEF TransportTypeOK
    <3>3. answer'[m] = "none" => state'[c] = "dialing"
      BY <1>1, <1>3, <2>2 DEF TransportTypeOK
    <3> QED
      BY <1>1, <1>2, <1>3, <1>4, <2>1, <2>2, <3>1, <3>2, <3>3 DEF TransportTypeOK, This
  <2>3. CASE m # k
    <3>1. request'[m] = request[m] /\ answer'[m] = answer[m]
      BY <1>1, <1>3, <2>3 DEF TransportTypeOK
    <3>2. CASE m[1] = c
      <4>1. m[2] # made[c] + 1 /\ made'[c] = made[c] + 1
        BY <1>1, <1>2, <1>3, <2>1, <2>3, <3>2 DEF TransportTypeOK
      <4>2. m[2] <= made'[c] <=> m[2] <= made[c]
        BY <1>1, <2>1, <4>1
      <4> QED
        BY <1>1, <3>1, <3>2, <4>2 DEF AskedInv
    <3>3. CASE m[1] # c
      <4>1. made'[m[1]] = made[m[1]] /\ state'[m[1]] = state[m[1]]
        BY <1>1, <1>3, <2>1, <3>3 DEF TransportTypeOK
      <4> QED
        BY <3>1, <4>1 DEF AskedInv, This
    <3> QED
      BY <3>2, <3>3
  <2> QED
    BY <2>2, <2>3
<1>6. ASSUME NEW d \in Callers, state'[d] = "dialing", wrote'[d]
      PROVE  made'[d] >= 2 /\ Keyed(request'[This(d)'])
  <2>1. d # c
    BY <1>1, <1>3, <1>6 DEF TransportTypeOK
  <2>2. /\ state'[d] = state[d] /\ wrote'[d] = wrote[d] /\ made'[d] = made[d]
        /\ This(d)' = This(d) /\ This(d) # k
    BY <1>1, <1>2, <1>3, <2>1 DEF TransportTypeOK, This
  <2>3. This(d) \in Calls
    BY <1>1, <1>6, <2>2, ThisCall DEF CallInv, CallerSound
  <2>4. request'[This(d)] = request[This(d)]
    BY <1>1, <1>3, <2>2, <2>3 DEF TransportTypeOK
  <2> QED
    BY <1>6, <2>2, <2>4 DEF AskedInv
<1> QED
  BY <1>5, <1>6 DEF AskedInv

\* An answer ends the call under way.
LEMMA ReturnAsked ==
    ASSUME CallInv, AskedInv, NEW c \in Callers, state[c] # "idle", NEW o \in Outcomes,
           o # "none", Return(c, o), UNCHANGED <<made, request, wrote>>
    PROVE  AskedInv'
<1>1. TransportTypeOK
  BY DEF CallInv
<1>2. PICK k \in Calls : k = This(c) /\ k[1] = c
  BY CurrentCall
<1>3. /\ state' = [state EXCEPT ![c] = "idle"]
      /\ answer' = [answer EXCEPT ![k] = o]
  BY <1>2 DEF Return
<1>4. ASSUME NEW m \in Calls, m[2] <= made[m[1]], answer'[m] = "none"
      PROVE  m = This(m[1]) /\ state'[m[1]] # "idle"
  <2>1. m # k /\ answer[m] = "none" /\ m[1] \in Callers
    BY <1>1, <1>3, <1>4, CallPair DEF TransportTypeOK
  <2>2. m = This(m[1]) /\ state[m[1]] # "idle"
    BY <1>4, <2>1 DEF AskedInv
  <2>3. m[1] # c
    BY <1>2, <2>1, <2>2
  <2> QED
    BY <1>1, <1>3, <2>1, <2>2, <2>3 DEF TransportTypeOK
<1>5. ASSUME NEW d \in Callers, state'[d] = "dialing"
      PROVE  state[d] = "dialing"
  BY <1>1, <1>3, <1>5 DEF TransportTypeOK
<1> QED
  BY <1>4, <1>5 DEF AskedInv, This

\* A request goes out with its caller waiting; it goes out again only with a key, from a
\* connection of an earlier call.
LEMMA SendAsked ==
    ASSUME CallInv, AskedInv, NEW c \in Callers, Send(c) \/ SendAgain(c)
    PROVE  AskedInv'
<1>1. TransportTypeOK /\ CallerSound(c)
  BY DEF CallInv
<1>2. UNCHANGED <<made, request, answer>>
  BY DEF Send, SendAgain
<1>3. ASSUME NEW d \in Callers
      PROVE  /\ state[d] # "idle" => state'[d] # "idle"
             /\ d # c => state'[d] = state[d] /\ wrote'[d] = wrote[d]
  BY <1>1 DEF Send, SendAgain, TransportTypeOK
<1>4. state'[c] = "dialing" => made[c] >= 2 /\ Keyed(request[This(c)])
  <2>1. CASE Send(c)
    BY <1>1, <2>1 DEF Send, TransportTypeOK
  <2>2. CASE SendAgain(c)
    BY <1>1, <2>2 DEF SendAgain, CallerSound
  <2> QED
    BY <2>1, <2>2
<1>5. \A m \in Calls : m[1] \in Callers
  BY CallPair
<1>6. ASSUME NEW d \in Callers, state'[d] = "dialing", wrote'[d]
      PROVE  made[d] >= 2 /\ Keyed(request[This(d)])
  <2>1. CASE d = c
    BY <1>4, <1>6, <2>1
  <2>2. CASE d # c
    BY <1>3, <1>6, <2>2 DEF AskedInv
  <2> QED
    BY <2>1, <2>2
<1> QED
  BY <1>2, <1>3, <1>5, <1>6 DEF AskedInv, This

\* An agent's step about a request leaves calls under way, or answers the current one.
LEMMA WorkingAsked ==
    ASSUME CallInv, AskedInv, NEW i \in work, Working(i)
    PROVE  AskedInv'
<1>1. ASSUME NEW o \in Outcomes \ {"none"}, NEW keeps, AnswerWith(i, o, keeps),
             UNCHANGED <<made, request, wrote>>
      PROVE  AskedInv'
  <2>1. i.call \in Calls /\ i.call[1] \in Callers
    BY CallPair DEF CallInv, TransportTypeOK
  <2>2. CASE i.heard /\ state[i.call[1]] = "waiting"
    <3>1. Return(i.call[1], o) /\ state[i.call[1]] # "idle"
      BY <1>1, <2>2 DEF AnswerWith
    <3> QED
      BY <1>1, <2>1, <3>1, ReturnAsked
  <2>3. CASE ~(i.heard /\ state[i.call[1]] = "waiting")
    <3>1. UNCHANGED <<state, answer>>
      BY <1>1, <2>3 DEF AnswerWith
    <3> QED
      BY <1>1, <3>1, QuietAsked
  <2> QED
    BY <2>2, <2>3
<1>2. ASSUME NEW o \in Outcomes, Reply(i, o)
      PROVE  o # "none" /\ AnswerWith(i, o, TRUE) /\ UNCHANGED <<made, request, wrote>>
  BY <1>2 DEF Reply
<1>3. CASE Refuse(i) \/ RefuseUnread(i)
  <2>1. "refused" \in Outcomes \ {"none"}
    BY DEF Outcomes
  <2> QED
    BY <1>1, <1>3, <2>1 DEF Refuse, RefuseUnread
<1>4. CASE Perform(i) \/ ReplyTooLate(i)
  BY <1>4, QuietAsked DEF Perform, ReplyTooLate
<1> QED
  BY <1>1, <1>2, <1>3, <1>4 DEF Working

\* No step loses track of the calls under way.
LEMMA NextAskedInv == CallInv /\ AskedInv /\ [TNext]_tvars => AskedInv'
<1> SUFFICES ASSUME CallInv, AskedInv, [TNext]_tvars PROVE AskedInv'
  OBVIOUS
<1>1. ASSUME NEW c \in Callers, Connect(c) \/ Lost(c) \/ TimeOut(c) \/ CloseConnection(c)
      PROVE  AskedInv'
  <2>1. CASE UNCHANGED <<made, state, request, answer, wrote>>
    BY <2>1, QuietAsked
  <2>2. CASE \E o \in {"unsent", "uncertain"} : Return(c, o)
    <3>1. PICK o \in {"unsent", "uncertain"} : Return(c, o)
      BY <2>2
    <3>2. o \in Outcomes /\ o # "none"
      BY DEF Outcomes
    <3>3. CASE CloseConnection(c)
      BY <3>3, QuietAsked DEF CloseConnection
    <3>4. CASE Connect(c) \/ Lost(c) \/ TimeOut(c)
      <4>1. state[c] # "idle" /\ UNCHANGED <<made, request, wrote>>
        BY <3>4 DEF Connect, Lost, TimeOut
      <4> QED
        BY <3>1, <3>2, <4>1, ReturnAsked
    <3> QED
      BY <1>1, <3>3, <3>4
  <2> QED
    BY <1>1, <2>1, <2>2 DEF Connect, Lost, TimeOut, CloseConnection
<1>2. ASSUME NEW p, Break(p) PROVE AskedInv'
  BY <1>2, QuietAsked DEF Break
<1>3. CASE UNCHANGED transportVars
  BY <1>3, QuietAsked DEF transportVars
<1> QED
  BY <1>1, <1>2, <1>3, ExecuteAsked, SendAsked, WorkingAsked
     DEF TNext, Calling, AgentSteps, AgentDisturbed, Ending, TForeignEnds, tvars

\* Only the current call of a busy caller is without an answer.
THEOREM AskedInvariant == TSpec => []AskedInv
BY InitAskedInv, NextAskedInv, CallInvariant, PTL DEF TSpec

-----------------------------------------------------------------------------
(* ActionTransport implements ActionCall *)

\* A step about one call of one caller leaves what callers see of another as it is.
LEMMA OtherCalls ==
    ASSUME NEW c \in Callers, NEW k \in Calls, k = This(c)',
           k = This(c) \/ state[c] = "idle",
           \A d \in Callers \ {c} : /\ made'[d] = made[d]
                                    /\ state'[d] = state[d]
                                    /\ wrote'[d] = wrote[d],
           NEW m \in Calls, m # k,
           request'[m] = request[m], answer'[m] = answer[m], performed'[m] = performed[m],
           Sent(m)' = Sent(m)
    PROVE  CallOf(m)' = CallOf(m)
<1>1. m[1] \in Callers
  BY CallPair
<1>2. Written(m)' = Written(m)
  <2>1. CASE m[1] = c
    <3>1. Written(m)' = (answer[m] \notin {"none", "invalid", "unsent"})
      BY <2>1 DEF Written
    <3>2. Written(m) = (answer[m] \notin {"none", "invalid", "unsent"})
      BY <2>1 DEF Written
    <3> QED
      BY <3>1, <3>2
  <2>2. CASE m[1] # c
    BY <1>1, <2>2 DEF Written, This
  <2> QED
    BY <2>1, <2>2
<1> QED
  BY <1>2 DEF CallOf

\* When requests are lost, those of the calls they belong to are dropped.
LEMMA LoseMoves ==
    ASSUME work' \in SUBSET work,
           UNCHANGED <<made, state, request, answer, wrote, performed>>,
           NEW k \in Calls
    PROVE  CallOf(k)' = CallOf(k) \/ Contract!Move(k, CallOf(k), CallOf(k)')
<1>1. Written(k)' = Written(k) /\ (Sent(k)' => Sent(k))
  BY DEF Written, This, Sent
<1>2. CASE Sent(k)' = Sent(k)
  BY <1>1, <1>2 DEF CallOf
<1>3. CASE Sent(k) /\ ~Sent(k)'
  <2>1. Sent(k)' = FALSE
    BY <1>3 DEF Sent
  <2>2. CallOf(k)' = Contract!After(CallOf(k), answer[k], Written(k), FALSE, performed[k])
    BY <1>1, <2>1 DEF CallOf, Contract!After
  <2> QED
    BY <1>3, <2>2 DEF CallOf, Contract!Move, Contract!Drop
<1> QED
  BY <1>1, <1>2, <1>3 DEF Sent

\* A new call is made when the one before it has its answer.
LEMMA ExecuteMoves ==
    ASSUME CallInv, AskedInv, NEW c \in Callers, NEW r \in Requests, ExecuteJob(c, r),
           NEW m \in Calls
    PROVE  CallOf(m)' = CallOf(m) \/ Contract!Move(m, CallOf(m), CallOf(m)')
<1>1. TransportTypeOK /\ made[c] \in Nat /\ made[c] < MaxCalls /\ state[c] = "idle"
  BY TransportAssumptions DEF CallInv, TransportTypeOK, ExecuteJob
<1>2. PICK k \in Calls : k = <<c, made[c] + 1>>
  <2>1. made[c] + 1 \in 1..MaxCalls
    BY <1>1, TransportAssumptions
  <2> QED
    BY <2>1 DEF Calls
<1>3. /\ made' = [made EXCEPT ![c] = made[c] + 1]
      /\ request' = [request EXCEPT ![k] = r]
      /\ wrote' = [wrote EXCEPT ![c] = FALSE]
      /\ IF Sendable(r)
         THEN state' = [state EXCEPT ![c] = "dialing"] /\ answer' = answer
         ELSE answer' = [answer EXCEPT ![k] = "invalid"] /\ state' = state
      /\ UNCHANGED <<work, performed>>
  BY <1>2 DEF ExecuteJob
<1>4. k = This(c)' /\ k[1] = c /\ k[2] = made[c] + 1
  BY <1>1, <1>2, <1>3 DEF This, TransportTypeOK
<1>5. Sent(m)' = Sent(m)
  BY <1>3 DEF Sent
<1>6. CASE m # k
  <2>1. \A d \in Callers \ {c} : /\ made'[d] = made[d]
                                 /\ state'[d] = state[d]
                                 /\ wrote'[d] = wrote[d]
    BY <1>1, <1>3 DEF TransportTypeOK
  <2>2. request'[m] = request[m] /\ answer'[m] = answer[m] /\ performed'[m] = performed[m]
    BY <1>1, <1>3, <1>6 DEF TransportTypeOK
  <2> QED
    BY <1>1, <1>4, <1>5, <1>6, <2>1, <2>2, OtherCalls
<1>7. CASE m = k
  <2>1. request[k] = NoRequest /\ answer[k] = "none"
    BY <1>1, <1>4 DEF AskedInv, CallInv, CallSound
  <2>2. k[2] > 1 => CallOf(<<c, made[c]>>).answer # "none" /\ <<c, made[c]>> \in Calls
    <3> SUFFICES ASSUME k[2] > 1 PROVE answer[This(c)] # "none" /\ This(c) \in Calls
      BY DEF CallOf, This
    <3>1. made[c] >= 1
      BY <1>1, <1>4
    <3>2. This(c) \in Calls /\ This(c)[1] = c /\ This(c)[2] = made[c]
      BY <1>1, <3>1, ThisCall
    <3> QED
      BY <1>1, <3>2 DEF AskedInv
  <2>3. <<k[1], k[2] - 1>> = <<c, made[c]>>
    BY <1>1, <1>4
  <2>4. /\ request'[k] = r
        /\ answer'[k] = IF Sendable(r) THEN "none" ELSE "invalid"
        /\ performed'[k] = performed[k]
    BY <1>1, <1>3, <2>1 DEF TransportTypeOK
  <2>5. Written(k) = FALSE
    BY <1>1, <1>4, <2>1 DEF Written
  <2>6. Written(k)' = FALSE
    <3>1. wrote'[c] = FALSE
      BY <1>1, <1>3 DEF TransportTypeOK
    <3> QED
      BY <1>4, <2>4, <3>1 DEF Written
  <2>7. Sent(k)' = FALSE /\ performed[k] = 0
    <3>1. k[2] > made[k[1]]
      BY <1>1, <1>4
    <3>2. performed[k] = 0 /\ \A i \in work : i.call # k
      BY <3>1 DEF CallInv, CallSound, Untouched, Ended, RefusedLater
    <3> QED
      BY <1>3, <3>2 DEF Sent
  <2>8. CallOf(k)' = [request |-> r, answer |-> IF Sendable(r) THEN "none" ELSE "invalid",
                      sent |-> FALSE, pending |-> FALSE, done |-> 0]
    BY <2>4, <2>6, <2>7 DEF CallOf
  <2>9. Contract!Make(k, CallOf(k), CallOf(k)')
    BY <2>1, <2>2, <2>3, <2>8 DEF CallOf, Contract!Make
  <2> QED
    BY <1>7, <2>9 DEF Contract!Move
<1> QED
  BY <1>6, <1>7

\* What is known of a call under way.
LEMMA BusyCall ==
    ASSUME CallInv, AskedInv, NEW c \in Callers, state[c] # "idle"
    PROVE  \E k \in Calls :
              /\ k = This(c) /\ k[1] = c /\ k[2] = made[c]
              /\ answer[k] = "none" /\ request[k] # NoRequest
              /\ Contract!UnderWay(CallOf(k))
              /\ Written(k) = wrote[c]
              /\ performed[k] \in Nat
              /\ CallSound(k) /\ CallerSound(c)
<1>1. PICK k \in Calls :
              /\ k = This(c) /\ k[1] = c /\ k[2] = made[c]
              /\ answer[k] = "none"
              /\ CallSound(k) /\ CallerSound(c)
              /\ made[c] \in Nat
  BY CurrentCall
<1>2. request[k] # NoRequest
  BY <1>1 DEF AskedInv
<1>3. Written(k) = wrote[c]
  BY <1>1 DEF Written
<1>4. Contract!UnderWay(CallOf(k))
  BY <1>1, <1>2 DEF Contract!UnderWay, CallOf
<1>5. performed[k] \in Nat
  BY DEF CallInv, TransportTypeOK
<1> QED
  BY <1>1, <1>2, <1>3, <1>4, <1>5

\* A request goes out for the first time, or with a key after an earlier call.
LEMMA SendMoves ==
    ASSUME CallInv, AskedInv, NEW c \in Callers, Send(c), NEW m \in Calls
    PROVE  CallOf(m)' = CallOf(m) \/ Contract!Move(m, CallOf(m), CallOf(m)')
<1>1. state[c] = "dialing"
  BY DEF Send
<1>2. PICK k \in Calls :
              /\ k = This(c) /\ k[1] = c /\ k[2] = made[c]
              /\ Contract!UnderWay(CallOf(k))
              /\ Written(k) = wrote[c]
              /\ performed[k] \in Nat
              /\ CallerSound(c)
  BY <1>1, BusyCall
<1>3. \A i \in work : i.call # k
  BY <1>1, <1>2, CurrentCall
<1>4. TransportTypeOK
  BY DEF CallInv
<1>5. /\ state' = [state EXCEPT ![c] = "waiting"]
      /\ wrote' = [wrote EXCEPT ![c] = TRUE]
      /\ work' = work \cup {Item(c, "sent")}
      /\ UNCHANGED <<made, request, answer, performed>>
  BY DEF Send
<1>6. Item(c, "sent").call = k /\ Item(c, "sent").stage = "sent"
  BY <1>2 DEF Item
<1>7. k = This(c)'
  BY <1>2, <1>5 DEF This
<1>8. CASE m # k
  <2>1. Sent(m)' = Sent(m)
    BY <1>5, <1>6, <1>8 DEF Sent
  <2>2. \A d \in Callers \ {c} : state'[d] = state[d] /\ wrote'[d] = wrote[d]
    BY <1>4, <1>5 DEF TransportTypeOK
  <2> QED
    BY <1>2, <1>5, <1>7, <1>8, <2>1, <2>2, OtherCalls
<1>9. CASE m = k
  <2>1. ~Sent(k)
    BY <1>3 DEF Sent
  <2>2. Sent(k)'
    BY <1>5, <1>6 DEF Sent
  <2>3. Written(k)'
    BY <1>2, <1>4, <1>5, <1>7 DEF Written, TransportTypeOK
  <2>4. performed[k] <= 1
    BY <1>1, <1>2, <2>1 DEF CallerSound, Tries
  <2>5. Written(k) => Keyed(request[k]) /\ k[2] > 1
    <3>1. wrote[c] => Keyed(request[k]) /\ k[2] >= 2
      BY <1>1, <1>2 DEF AskedInv
    <3>2. k[2] \in Nat
      BY CallPair
    <3> QED
      BY <1>2, <3>1, <3>2
  <2>6. CallOf(k)' = Contract!After(CallOf(k), answer[k], TRUE, TRUE, performed[k])
    BY <1>5, <2>2, <2>3 DEF CallOf, Contract!After
  <2>7. Contract!Send(k, CallOf(k), CallOf(k)')
    BY <1>2, <2>1, <2>4, <2>5, <2>6 DEF CallOf, Contract!Send
  <2> QED
    BY <1>9, <2>7 DEF Contract!Move
<1> QED
  BY <1>8, <1>9

\* What changes neither calls nor requests moves no call; sending again comes later.
LEMMA QuietMoves ==
    ASSUME CallInv, UNCHANGED <<made, request, answer, wrote, work, performed>>,
           \A c \in Callers : state'[c] = "idle" <=> state[c] = "idle",
           NEW m \in Calls
    PROVE  CallOf(m)' = CallOf(m)
<1>1. m[1] \in Callers
  BY CallPair
<1> QED
  BY <1>1 DEF CallOf, Written, Sent, This

\* An answer to the current call is a move of it that fits what was sent and performed.
LEMMA ReturnMoves ==
    ASSUME CallInv, AskedInv, NEW c \in Callers, state[c] # "idle", NEW o \in Outcomes,
           Return(c, o), UNCHANGED <<made, request, wrote, performed>>,
           \A m \in Calls \ {This(c)} : Sent(m)' = Sent(m),
           \/ o = "unsent" /\ ~wrote[c] /\ Sent(This(c))' = Sent(This(c))
           \/ o = "uncertain" /\ wrote[c] /\ Sent(This(c))' = Sent(This(c))
           \/ /\ o = "refused" /\ wrote[c]
              /\ Sent(This(c)) /\ ~Sent(This(c))'
           \/ /\ o \in {"result", "error", "unreadable"} /\ wrote[c]
              /\ performed[This(c)] >= 1
              /\ ~Sent(This(c)) /\ ~Sent(This(c))',
           NEW m \in Calls
    PROVE  CallOf(m)' = CallOf(m) \/ Contract!Move(m, CallOf(m), CallOf(m)')
<1>1. PICK k \in Calls :
              /\ k = This(c) /\ k[1] = c
              /\ Contract!UnderWay(CallOf(k))
              /\ Written(k) = wrote[c]
  BY BusyCall
<1>2. TransportTypeOK
  BY DEF CallInv
<1>3. /\ state' = [state EXCEPT ![c] = "idle"]
      /\ answer' = [answer EXCEPT ![k] = o]
  BY <1>1 DEF Return
<1>4. k = This(c)' /\ Sent(This(c))' = Sent(k)'
  BY <1>1 DEF This, Sent
<1>5. CASE m # k
  <2>1. /\ answer'[m] = answer[m]
        /\ \A d \in Callers \ {c} : state'[d] = state[d]
    BY <1>2, <1>3, <1>5 DEF TransportTypeOK
  <2>2. Sent(m)' = Sent(m)
    BY <1>1, <1>5
  <2> QED
    BY <1>1, <1>4, <1>5, <2>1, <2>2, OtherCalls
<1>6. CASE m = k
  <2>1. answer'[k] = o /\ state'[c] = "idle"
    BY <1>2, <1>3 DEF TransportTypeOK
  <2>2. Written(k)' = (o \notin {"none", "invalid", "unsent"})
    BY <1>1, <2>1 DEF Written
  <2>3. wrote[c] \in BOOLEAN
    BY <1>2 DEF TransportTypeOK
  <2>4. /\ o # "unsent" => Written(k)' = TRUE /\ Written(k) = TRUE
        /\ o = "unsent" => Written(k)' = FALSE /\ Written(k) = FALSE
    BY <1>1, <2>2, <2>3
  <2>5. CallOf(k)' = Contract!After(CallOf(k), o, Written(k), Sent(k)', performed[k])
    BY <2>1, <2>4 DEF CallOf, Contract!After
  <2>6. CASE o = "unsent" /\ ~wrote[c] /\ Sent(k)' = Sent(k)
    BY <1>1, <1>6, <2>5, <2>6 DEF CallOf, Contract!Move, Contract!Unsent
  <2>7. CASE o = "uncertain" /\ wrote[c] /\ Sent(k)' = Sent(k)
    BY <1>1, <1>6, <2>5, <2>7 DEF CallOf, Contract!Move, Contract!Uncertain
  <2>8. CASE /\ o = "refused"
             /\ Sent(k) /\ ~Sent(k)'
    <3>1. Sent(k)' = FALSE
      BY <2>8 DEF Sent
    <3>2. CallOf(k)' = Contract!After(CallOf(k), "refused", Written(k), FALSE, performed[k])
      BY <2>5, <2>8, <3>1
    <3> QED
      BY <1>1, <1>6, <2>8, <3>2 DEF CallOf, Contract!Move, Contract!Refuse
  <2>9. CASE /\ o \in {"result", "error", "unreadable"}
             /\ performed[k] >= 1 /\ ~Sent(k) /\ ~Sent(k)'
    <3>1. Sent(k)' = Sent(k)
      BY <2>9 DEF Sent
    <3>2. CallOf(k)' = Contract!After(CallOf(k), o, Written(k), Sent(k), performed[k])
      BY <2>5, <3>1
    <3> QED
      BY <1>1, <1>6, <2>9, <3>2 DEF CallOf, Contract!Move, Contract!Reply
  <2> QED
    BY <1>1, <1>4, <2>6, <2>7, <2>8, <2>9
<1> QED
  BY <1>5, <1>6

\* What callers do by themselves.
LEMMA CallingMoves ==
    ASSUME CallInv, AskedInv, NEW c \in Callers, Calling(c), NEW m \in Calls
    PROVE  CallOf(m)' = CallOf(m) \/ Contract!Move(m, CallOf(m), CallOf(m)')
<1>1. TransportTypeOK
  BY DEF CallInv
<1>2. "unsent" \in Outcomes /\ "uncertain" \in Outcomes
  BY DEF Outcomes
<1>3. ASSUME state[c] # "idle",
             Return(c, IF wrote[c] THEN "uncertain" ELSE "unsent"),
             UNCHANGED <<made, request, wrote, performed>>,
             \A k \in Calls : Sent(k)' = Sent(k)
      PROVE  CallOf(m)' = CallOf(m) \/ Contract!Move(m, CallOf(m), CallOf(m)')
  <2>1. Sent(This(c))' = Sent(This(c))
    <3>1. This(c) \in Calls /\ This(c)' = This(c)
      BY <1>3, CurrentCall DEF This
    <3>2. PICK k \in Calls : k = This(c) /\ k = This(c)'
      BY <3>1
    <3> QED
      BY <1>3, <3>2 DEF Sent
  <2> QED
    BY <1>2, <1>3, <2>1, ReturnMoves
<1>4. CASE Connect(c)
  <2>1. state[c] # "idle" /\ UNCHANGED <<made, request, wrote, work, performed>>
    BY <1>4 DEF Connect
  <2>2. \A k \in Calls : Sent(k)' = Sent(k)
    BY <2>1 DEF Sent
  <2>3. CASE UNCHANGED <<state, answer>>
    BY <2>1, <2>3, QuietMoves
  <2>4. CASE Return(c, IF wrote[c] THEN "uncertain" ELSE "unsent")
    BY <1>3, <2>1, <2>2, <2>4
  <2> QED
    BY <1>4, <2>3, <2>4 DEF Connect
<1>5. CASE SendAgain(c)
  <2>1. /\ state[c] = "waiting" /\ state' = [state EXCEPT ![c] = "dialing"]
        /\ UNCHANGED <<made, request, answer, wrote, work, performed>>
    BY <1>5 DEF SendAgain
  <2>2. \A d \in Callers : state'[d] = "idle" <=> state[d] = "idle"
    BY <1>1, <2>1 DEF TransportTypeOK
  <2> QED
    BY <2>1, <2>2, QuietMoves
<1>6. CASE Lost(c)
  <2>1. /\ state[c] = "waiting" /\ Return(c, "uncertain")
        /\ UNCHANGED <<made, request, wrote, work, performed>>
    BY <1>6 DEF Lost
  <2>2. wrote[c]
    BY <2>1 DEF CallInv, CallerSound
  <2>3. \A k \in Calls : Sent(k)' = Sent(k)
    BY <2>1 DEF Sent
  <2> QED
    BY <1>3, <2>1, <2>2, <2>3
<1>7. CASE TimeOut(c)
  <2>1. /\ state[c] # "idle" /\ Return(c, IF wrote[c] THEN "uncertain" ELSE "unsent")
        /\ work' = {[i EXCEPT !.heard = @ /\ i.call[1] # c] : i \in work}
        /\ UNCHANGED <<made, request, wrote, performed>>
    BY <1>7 DEF TimeOut
  <2> DEFINE Deaf(i) == [i EXCEPT !.heard = @ /\ i.call[1] # c]
  <2>2. \A i \in work : Deaf(i).call = i.call /\ Deaf(i).stage = i.stage
    <3>1. work \subseteq [call : Calls, peer : Peers, stage : {"sent", "performed"},
                          heard : BOOLEAN]
      BY <1>1 DEF TransportTypeOK
    <3> QED
      BY <3>1
  <2>3. work' = {Deaf(i) : i \in work}
    BY <2>1
  <2> HIDE DEF Deaf
  <2>4. \A k \in Calls : Sent(k)' = Sent(k)
    BY <2>2, <2>3 DEF Sent
  <2> QED
    BY <1>3, <2>1, <2>4
<1>8. CASE CloseConnection(c)
  <2>1. work' \in SUBSET work /\ UNCHANGED <<made, state, request, answer, wrote, performed>>
    BY <1>8 DEF CloseConnection
  <2> QED
    BY <2>1, LoseMoves
<1> QED
  BY <1>4, <1>5, <1>6, <1>7, <1>8, ExecuteMoves, SendMoves DEF Calling

\* A request an agent has performed is not one it may still act on.
LEMMA PerformedUnsent ==
    ASSUME CallInv, NEW i \in work, i.stage = "performed"
    PROVE  ~Sent(i.call)
BY DEF CallInv, Sent

\* An agent's answer is of the call that waits for it, or heard by nobody.
LEMMA AnswerMoves ==
    ASSUME CallInv, AskedInv, NEW i \in work, NEW o \in Outcomes,
           NEW keeps, AnswerWith(i, o, keeps),
           UNCHANGED <<made, request, wrote, performed>>,
           \/ o = "refused" /\ i.stage = "sent"
           \/ o \in {"result", "error", "unreadable"} /\ i.stage = "performed",
           NEW m \in Calls
    PROVE  CallOf(m)' = CallOf(m) \/ Contract!Move(m, CallOf(m), CallOf(m)')
<1>1. /\ TransportTypeOK /\ RequestSound(i) /\ i.call \in Calls /\ i.call[1] \in Callers
      /\ work' = work \ {i}
      /\ \A h, j \in work : h.call = j.call => h = j
  <2>1. i.call \in Calls
    BY DEF CallInv, TransportTypeOK
  <2> QED
    BY <2>1, CallPair DEF CallInv, AnswerWith
<1>2. CASE i.heard /\ state[i.call[1]] = "waiting"
  <2>1. PICK c \in Callers : c = i.call[1]
    BY <1>1
  <2>2. /\ Return(c, o) /\ i.call = This(c) /\ state[c] # "idle" /\ wrote[c]
    BY <1>1, <1>2, <2>1 DEF AnswerWith, RequestSound, CallInv, CallerSound
  <2>3. \A k \in Calls \ {This(c)} : Sent(k)' = Sent(k)
    BY <1>1, <2>2 DEF Sent
  <2>4. ~Sent(This(c))'
    <3>1. \A j \in work' : j.call # i.call
      BY <1>1
    <3>2. This(c)' = i.call
      BY <2>2 DEF This
    <3> QED
      BY <3>1, <3>2 DEF Sent
  <2>5. i.stage = "sent" => Sent(This(c))
    BY <2>2 DEF Sent
  <2>6. i.stage = "performed" => ~Sent(This(c)) /\ performed[This(c)] >= 1
    BY <1>1, <2>2, PerformedUnsent DEF RequestSound
  <2> QED
    BY <2>2, <2>3, <2>4, <2>5, <2>6, ReturnMoves
<1>3. CASE ~(i.heard /\ state[i.call[1]] = "waiting")
  <2>1. UNCHANGED <<state, answer>>
    BY <1>3 DEF AnswerWith
  <2> QED
    BY <1>1, <2>1, LoseMoves
<1> QED
  BY <1>2, <1>3

\* An action is performed for a request that was pending.
LEMMA PerformMoves ==
    ASSUME CallInv, NEW i \in work, Perform(i), NEW m \in Calls
    PROVE  CallOf(m)' = CallOf(m) \/ Contract!Move(m, CallOf(m), CallOf(m)')
<1>1. /\ TransportTypeOK
      /\ i \in [call : Calls, peer : Peers, stage : {"sent", "performed"}, heard : BOOLEAN]
      /\ \A h, j \in work : h.call = j.call => h = j
  BY DEF CallInv, TransportTypeOK
<1>2. PICK k \in Calls : k = i.call
  BY <1>1
<1>3. /\ i.stage = "sent" /\ Verdict(request[k]) = "perform"
      /\ performed' = [performed EXCEPT ![k] = performed[k] + 1]
      /\ work' = (work \ {i}) \cup {[i EXCEPT !.stage = "performed"]}
      /\ UNCHANGED <<made, state, request, answer, wrote>>
  BY <1>2 DEF Perform
<1>4. [i EXCEPT !.stage = "performed"].call = k
      /\ [i EXCEPT !.stage = "performed"].stage = "performed"
  BY <1>1, <1>2
<1>5. Written(m)' = Written(m)
  BY <1>3 DEF Written, This
<1>6. CASE m # k
  <2>1. performed'[m] = performed[m]
    BY <1>1, <1>3, <1>6 DEF TransportTypeOK
  <2>2. Sent(m)' = Sent(m)
    BY <1>2, <1>3, <1>4, <1>6 DEF Sent
  <2> QED
    BY <1>3, <1>5, <2>1, <2>2 DEF CallOf
<1>7. CASE m = k
  <2>1. performed'[k] = performed[k] + 1
    BY <1>1, <1>3 DEF TransportTypeOK
  <2>2. Sent(k)
    BY <1>2, <1>3 DEF Sent
  <2>3. Sent(k)' = FALSE
    BY <1>1, <1>2, <1>3, <1>4 DEF Sent
  <2>4. CallOf(k)' = Contract!After(CallOf(k), answer[k], Written(k), FALSE,
                                    performed[k] + 1)
    BY <1>3, <1>5, <1>7, <2>1, <2>3 DEF CallOf, Contract!After
  <2> QED
    BY <1>3, <1>7, <2>2, <2>4 DEF CallOf, Contract!Move, Contract!Perform
<1> QED
  BY <1>6, <1>7

\* What agents do about requests.
LEMMA WorkingMoves ==
    ASSUME CallInv, AskedInv, NEW i \in work, Working(i), NEW m \in Calls
    PROVE  CallOf(m)' = CallOf(m) \/ Contract!Move(m, CallOf(m), CallOf(m)')
<1>1. CASE Refuse(i) \/ RefuseUnread(i)
  <2>1. "refused" \in Outcomes
    BY DEF Outcomes
  <2> QED
    BY <1>1, <2>1, AnswerMoves DEF Refuse, RefuseUnread
<1>2. CASE Perform(i)
  BY <1>2, PerformMoves
<1>3. CASE \E o \in Outcomes : Reply(i, o)
  BY <1>3, AnswerMoves DEF Reply
<1>4. CASE ReplyTooLate(i)
  <2>1. work' \in SUBSET work /\ UNCHANGED <<made, state, request, answer, wrote, performed>>
    BY <1>4 DEF ReplyTooLate
  <2> QED
    BY <2>1, LoseMoves
<1> QED
  BY <1>1, <1>2, <1>3, <1>4 DEF Working

\* Every step takes every call along one of its moves, or leaves it alone.
LEMMA TransportMoves ==
    ASSUME CallInv, AskedInv, [TNext]_tvars, NEW m \in Calls
    PROVE  CallOf(m)' = CallOf(m) \/ Contract!Move(m, CallOf(m), CallOf(m)')
<1>1. ASSUME NEW p, Break(p)
      PROVE  CallOf(m)' = CallOf(m) \/ Contract!Move(m, CallOf(m), CallOf(m)')
  <2>1. work' \in SUBSET work /\ UNCHANGED <<made, state, request, answer, wrote, performed>>
    BY <1>1 DEF Break
  <2> QED
    BY <2>1, LoseMoves
<1>2. CASE UNCHANGED transportVars
  BY <1>2, LoseMoves DEF transportVars
<1> QED
  BY <1>1, <1>2, CallingMoves, WorkingMoves
     DEF TNext, AgentSteps, AgentDisturbed, Ending, TForeignEnds, tvars

\* Calls that were not made are the initial state of what callers are promised.
LEMMA InitContract == TInit => Contract!Init
<1> SUFFICES ASSUME TInit PROVE Contract!Init
  OBVIOUS
<1>1. ASSUME NEW k \in Calls
      PROVE  CallOf(k) = [request |-> NoRequest, answer |-> "none",
                          sent |-> FALSE, pending |-> FALSE, done |-> 0]
  <2>1. k[1] \in Callers
    BY CallPair
  <2>2. Sent(k) = FALSE /\ Written(k) = FALSE
    BY <2>1 DEF TInit, Sent, Written
  <2> QED
    BY <2>2 DEF TInit, CallOf
<1> QED
  BY <1>1 DEF Contract!Init, Contract!Calls, Calls

\* Calls over the agent's socket, with connections that are kept and broken and agents
\* that drain and die, implement the contract ExecuteJob gives its callers.
THEOREM ContractTheorem == TSpec => FollowsContract
<1>1. CallInv /\ AskedInv /\ [TNext]_tvars
         => [Contract!Next]_([k \in Calls |-> CallOf(k)])
  <2> SUFFICES ASSUME CallInv, AskedInv, [TNext]_tvars PROVE Contract!Next
    OBVIOUS
  <2>1. \A k \in Calls : CallOf(k)' = CallOf(k) \/ Contract!Move(k, CallOf(k), CallOf(k)')
    BY TransportMoves
  <2> QED
    BY <2>1, Zenon DEF Contract!Next, Contract!Calls, Calls
<1> QED
  BY <1>1, InitContract, CallInvariant, AskedInvariant, PTL
     DEF TSpec, FollowsContract, Contract!Spec

=============================================================================
