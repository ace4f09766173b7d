------------------------ MODULE AgentConnectorProofs ------------------------
(***************************************************************************)
(* Theorems about AgentConnector, for every startup window, timeout, delay *)
(* and lag, and for any number of agents that come and go meanwhile.       *)
(***************************************************************************)
EXTENDS AgentConnector, TLAPS

\* Who listens is the agent that was started last; and readyAt is set exactly
\* while the redirect file and the listening agent agree.
AgentInv ==
  /\ alive => started \in Agents
  /\ agent # NoAgent => alive /\ agent = started
  /\ readyAt # NotReady <=> agent # NoAgent /\ file = agent
  /\ readyAt # NotReady => readyAt <= elapsed

\* How late each await can expire: a sleep begins inside the window, and each
\* later stage of the attempt after it inherits the bound from the one before,
\* and how far past its timer the clock can be.
TimerInv ==
  /\ pc = "sleeping" => due < Window + RetryDelay
  /\ pc \in {"inspecting", "dialling"} => due < Window + RetryDelay + Lag
  /\ pc = "reading" => due < Window + RetryDelay + 2 * Lag
  /\ pc = "connecting" =>
       due < Window + RetryDelay + ConnectTimeout + 3 * Lag /\ due <= elapsed + ConnectTimeout
  /\ pc = "writing" => due < Window + RetryDelay + ConnectTimeout + 4 * Lag
  /\ pc \in Done => due < Window + RetryDelay + ConnectTimeout + 5 * Lag /\ elapsed <= due
  /\ elapsed <= due + Lag

\* What has been read can be relied upon: of an agent that was ready before
\* the call it is the truth, and the port is right if the agent has been ready
\* since before the read, which was ConnectTimeout before the timer expires.
HeldInv ==
  /\ readyAt = Before => held.nonce = held.port
  /\ pc = "connecting" /\ readyAt # NotReady /\ readyAt < due - ConnectTimeout =>
       held.port = agent

IInv == TypeOK /\ AgentInv /\ TimerInv /\ HeldInv /\ NoMissedAgent

-----------------------------------------------------------------------------
\* The initial states satisfy the inductive invariant.
LEMMA InitIInv == Init => IInv
<1> SUFFICES ASSUME Init PROVE IInv
  OBVIOUS
<1> USE AgentAssumption DEF Init, Agents, NoAgent, NoFile, Torn, Before, NotReady,
        Unread, Metadata, Working, Done
<1>1. TypeOK
  <2>1. alive \in BOOLEAN
    OBVIOUS
  <2>2. agent \in Agents \cup {NoAgent} /\ file \in Agents \cup {NoFile, Torn}
    BY <2>1
  <2> QED BY <2>1, <2>2 DEF TypeOK, Shifted, Nobody
<1>2. AgentInv
  <2>1. CASE started = 0
    BY <1>1, <2>1 DEF TypeOK, AgentInv
  <2>2. CASE started \in Agents /\ ~alive
    BY <1>1, <2>2 DEF TypeOK, AgentInv
  <2>3. CASE started \in Agents /\ alive
    BY <1>1, <2>3 DEF TypeOK, AgentInv
  <2> QED BY <1>1, <2>1, <2>2, <2>3 DEF TypeOK
<1>3. TimerInv /\ HeldInv /\ NoMissedAgent
  BY DEF TimerInv, HeldInv, NoMissedAgent
<1> QED BY <1>1, <1>2, <1>3 DEF IInv

\* The agent and its file change while the connector waits: an agent that
\* becomes ready is ready from now on, and one that was ready stays the same.
LEMMA SurroundingsIInv ==
  ASSUME IInv, pc \in Working,
         NEW f \in Agents \cup {NoFile, Torn}, NEW a \in Agents \cup {NoAgent},
         Surroundings(f, a),
         started' \in 0..MaxAgents, alive' \in BOOLEAN,
         alive' => started' \in Agents,
         a # NoAgent => alive' /\ a = started',
         readyAt # NotReady /\ a # NoAgent /\ f = a => a = agent
  PROVE  IInv'
<1> USE AgentAssumption DEF IInv, Surroundings, Agents, NoAgent, NoFile, Torn, Before, NotReady
<1>1. TypeOK'
  BY DEF TypeOK
<1>2. AgentInv'
  BY DEF TypeOK, AgentInv
<1>3. TimerInv'
  BY DEF TimerInv
<1>4. HeldInv'
  BY DEF TypeOK, AgentInv, TimerInv, HeldInv
<1>5. NoMissedAgent'
  BY DEF NoMissedAgent, Working
<1> QED BY <1>1, <1>2, <1>3, <1>4, <1>5

\* An attempt that fails within the window is followed by a sleep; one that
\* fails after it was no use to anybody.
LEMMA FailAttemptIInv ==
  ASSUME IInv, FailAttempt, pc \in {"inspecting", "reading", "connecting"},
         elapsed >= Window => readyAt = NotReady \/ readyAt + ConnectTimeout + Lag >= Window
  PROVE  IInv'
<1> USE AgentAssumption DEF IInv, FailAttempt, Goto
<1>1. TypeOK'
  BY DEF TypeOK, Working, Done
<1>2. AgentInv'
  BY DEF AgentInv
<1>3. TimerInv'
  BY DEF TypeOK, TimerInv, Done
<1>4. HeldInv'
  BY DEF HeldInv
<1>5. NoMissedAgent'
  BY DEF NoMissedAgent
<1> QED BY <1>1, <1>2, <1>3, <1>4, <1>5

\* Every step keeps the inductive invariant.
LEMMA NextIInv == IInv /\ [Next]_vars => IInv'
<1> SUFFICES ASSUME IInv, [Next]_vars PROVE IInv'
  OBVIOUS
<1> USE AgentAssumption DEF IInv
<1>1. CASE AgentStarts
  <2>1. started' = started + 1 /\ started' \in Agents /\ alive' = TRUE
    BY <1>1 DEF AgentStarts, TypeOK, Agents
  <2>2. Surroundings(Torn, NoAgent) /\ pc \in Working
    BY <1>1 DEF AgentStarts
  <2>3. started' \in 0..MaxAgents /\ alive' \in BOOLEAN
    BY <2>1 DEF Agents
  <2> QED BY <2>1, <2>2, <2>3, SurroundingsIInv
<1>2. CASE FileWritten
  <2>1. started \in Agents /\ started' = started /\ alive' = alive
    BY <1>2 DEF FileWritten, AgentInv
  <2>2. Surroundings(started, agent) /\ pc \in Working
    BY <1>2 DEF FileWritten
  <2>3. agent # NoAgent => alive' /\ agent = started'
    BY <2>1 DEF AgentInv
  <2>4. started' \in 0..MaxAgents /\ alive' \in BOOLEAN /\ agent \in Agents \cup {NoAgent}
    BY <2>1 DEF TypeOK
  <2> QED BY <2>1, <2>2, <2>3, <2>4, SurroundingsIInv
<1>3. CASE AgentListens
  BY <1>3, SurroundingsIInv DEF AgentListens, TypeOK, AgentInv
<1>4. CASE AgentDies
  BY <1>4, SurroundingsIInv DEF AgentDies, TypeOK, Agents, NoAgent
<1>5. CASE Tick
  BY <1>5 DEF Tick, TypeOK, AgentInv, TimerInv, HeldInv, NoMissedAgent, Working, Done,
              NotReady, Before
<1>6. CASE Inspect
  <2>1. CASE file = NoFile
    <3>1. readyAt = NotReady
      BY <2>1 DEF TypeOK, AgentInv, NoFile, NoAgent
    <3> QED BY <1>6, <2>1, <3>1, FailAttemptIInv DEF Inspect
  <2>2. CASE file # NoFile
    BY <1>6, <2>2 DEF Inspect, Goto, TypeOK, AgentInv, TimerInv, HeldInv, NoMissedAgent,
                      Working, Done
  <2> QED BY <2>1, <2>2
<1>7. CASE Read
  <2>1. CASE Malformed(file) /\ FailAttempt
    <3>1. readyAt = NotReady
      BY <2>1 DEF TypeOK, AgentInv, Malformed
    <3> QED BY <1>7, <2>1, <3>1, FailAttemptIInv DEF Read
  <2>2. CASE held' \in ReadsAs(file) /\ Goto("connecting", ConnectTimeout)
    <3>1. TypeOK'
      BY <2>2 DEF TypeOK, Goto, ReadsAs, Metadata, Agents, Nobody, Shifted, Torn, Working, Done
    <3>2. AgentInv' /\ TimerInv' /\ NoMissedAgent'
      BY <1>7, <2>2 DEF Read, TypeOK, AgentInv, TimerInv, NoMissedAgent, Goto, Done
    <3>3. HeldInv'
      <4>1. CASE readyAt = NotReady
        BY <2>2, <4>1 DEF HeldInv, Goto, NotReady, Before
      <4>2. CASE readyAt # NotReady
        <5>1. held' = Metadata(file, file) /\ file = agent
          BY <2>2, <4>2 DEF ReadsAs, AgentInv, TypeOK
        <5> QED BY <2>2, <5>1 DEF HeldInv, Goto, Metadata
      <4> QED BY <4>1, <4>2
    <3> QED BY <3>1, <3>2, <3>3
  <2> QED BY <1>7, <2>1, <2>2 DEF Read
<1>8. CASE ConnectOk
  BY <1>8 DEF ConnectOk, Goto, TypeOK, AgentInv, TimerInv, HeldInv, NoMissedAgent,
              Working, Done
<1>9. CASE ConnectFails
  <2>1. ASSUME elapsed >= Window, readyAt # NotReady
        PROVE  readyAt + ConnectTimeout + Lag >= Window
    <3>1. elapsed <= due + Lag
      BY DEF TimerInv
    <3>2. CASE readyAt >= due - ConnectTimeout
      BY <2>1, <3>1, <3>2 DEF TypeOK, Before, NotReady
    <3>3. CASE readyAt < due - ConnectTimeout
      <4>1. held.port = agent /\ agent # NoAgent
        BY <1>9, <2>1, <3>3 DEF ConnectFails, HeldInv, AgentInv
      <4>2. Accepting
        BY <2>1, <3>3, <4>1 DEF Accepting, Listening, TypeOK, Before, NotReady
      <4> QED BY <1>9, <4>2 DEF ConnectFails
    <3> QED BY <3>2, <3>3 DEF TypeOK, Before, NotReady
  <2> QED BY <1>9, <2>1, FailAttemptIInv DEF ConnectFails
<1>10. CASE WriteOk
  BY <1>10 DEF WriteOk, Goto, TypeOK, AgentInv, TimerInv, HeldInv, NoMissedAgent,
               Working, Done
<1>11. CASE WriteFails
  BY <1>11 DEF WriteFails, Goto, TypeOK, AgentInv, TimerInv, HeldInv, NoMissedAgent,
               Working, Done
<1>12. CASE Wake
  BY <1>12 DEF Wake, Goto, TypeOK, AgentInv, TimerInv, HeldInv, NoMissedAgent,
               Working, Done
<1>13. CASE Dial
  BY <1>13 DEF Dial, Goto, TypeOK, AgentInv, TimerInv, HeldInv, NoMissedAgent,
               Working, Done
<1>14. CASE Finished \/ UNCHANGED vars
  BY <1>14 DEF Finished, vars, TypeOK, AgentInv, TimerInv, HeldInv, NoMissedAgent
<1> QED
  BY <1>1, <1>2, <1>3, <1>4, <1>5, <1>6, <1>7, <1>8, <1>9, <1>10, <1>11, <1>12, <1>13,
     <1>14 DEF Next

\* The inductive invariant holds in every reachable state.
THEOREM SpecIInv == Spec => []IInv
<1> QED BY InitIInv, NextIInv, PTL DEF Spec

-----------------------------------------------------------------------------
\* The types of the connector, the redirect file and the agents are right
\* whatever the agents do (agent.rs:53-212).
THEOREM AgentTypeOK == Spec => []TypeOK
<1>1. IInv => TypeOK
  BY DEF IInv
<1> QED BY <1>1, SpecIInv, PTL

\* A session that waits for the agent holds its permit no longer than the
\* window, one more delay and one more attempt, for any values of the timers
\* (agent.rs:177-207).
THEOREM AgentConnectBounded == Spec => []ConnectBounded
<1>1. IInv => ConnectBounded
  BY AgentAssumption DEF IInv, TypeOK, TimerInv, ConnectBounded, Working, Done
<1> QED BY <1>1, SpecIInv, PTL

\* An agent that is ready one attempt before the window ends, and stays, is
\* not missed, and one that was ready before the call is given its own nonce
\* (agent.rs:61-83, 145, 180-206).
THEOREM AgentNotMissed == Spec => []NoMissedAgent
<1>1. IInv => NoMissedAgent
  BY DEF IInv
<1> QED BY <1>1, SpecIInv, PTL
=============================================================================
