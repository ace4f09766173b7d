--------------------------- MODULE AgentConnector ---------------------------
(***************************************************************************)
(* How a server session reaches the agent.  Gpg4win's, connect_gpg4win:    *)
(* read the redirect file, connect to the loopback port it names, write    *)
(* its nonce; after a failure, while the startup window lasts, wait and    *)
(* read again.  One on a Unix socket: connect, once.                       *)
(*                                                                         *)
(* The agent is another program.  It starts, writes the redirect file and  *)
(* listens, or dies and leaves the file behind, at any moment of this.     *)
(* What is read of a file that is being written may be malformed, or parse *)
(* with the wrong port, or with the right one and a nonce that is shifted. *)
(* Time advances by Tick; what is due is served at most Lag units late,    *)
(* and a look at the file takes no longer than that.                       *)
(***************************************************************************)
EXTENDS Integers

CONSTANTS
  Window,          \* AGENT_STARTUP_WINDOW
  ConnectTimeout,  \* AGENT_CONNECT_TIMEOUT
  RetryDelay,      \* AGENT_RETRY_DELAY
  Lag,             \* how late a step may be served
  MaxAgents        \* bound on how often the agent starts

ASSUME AgentAssumption ==
  /\ Window \in Nat \ {0}
  /\ ConnectTimeout \in Nat
  /\ RetryDelay \in Nat
  /\ Lag \in Nat
  /\ MaxAgents \in Nat

VARIABLES
  pc,        \* where connect_gpg4win is
  elapsed,   \* time since it was called
  due,       \* when the current await expires
  held,      \* the metadata it has read, or Unread
  file,      \* whose metadata the redirect file holds: NoFile, Torn or an agent
  agent,     \* the agent that listens, or NoAgent
  started,   \* how many agents there have been
  alive,     \* the last of them still runs
  readyAt    \* since when file and agent agree, or NotReady

vars == <<pc, elapsed, due, held, file, agent, started, alive, readyAt>>

\* Agents are numbered in the order they start; each has its own port and nonce.
Agents == 1..MaxAgents
NoAgent == 0
NoFile == 0
Torn == -1       \* half written, too large or malformed
Before == -1     \* ready since before the call
NotReady == -2

Metadata(port, nonce) == [port |-> port, nonce |-> nonce]
Unread == Metadata(NoAgent, NoAgent)
Shifted == Torn  \* a nonce no agent has
Nobody == Torn   \* a port no agent listens on

\* parse_metadata: what the file may be taken for, nothing if it is malformed.
ReadsAs(f) ==
  IF f \in Agents THEN {Metadata(f, f)}
  ELSE {Metadata(port, Shifted) : port \in {Nobody} \cup (Agents \cap {started})}

Malformed(f) == f \notin Agents

Working == {"inspecting", "reading", "connecting", "writing", "sleeping", "dialling"}
Done == {"connected", "broken", "expired", "refused"}

Init ==
  /\ pc \in {"inspecting", "dialling"}   \* Gpg4winRedirect, UnixSocket
  /\ elapsed = 0
  /\ due = 0
  /\ held = Unread
  /\ started \in 0..MaxAgents
  /\ alive \in IF started > 0 THEN BOOLEAN ELSE {FALSE}
  /\ agent \in IF alive THEN {NoAgent, started} ELSE {NoAgent}
  /\ file \in {NoFile, Torn, started}
  /\ readyAt = IF agent # NoAgent /\ file = agent THEN Before ELSE NotReady

Goto(label, limit) ==
  /\ pc' = label
  /\ due' = elapsed + limit
  /\ UNCHANGED <<elapsed, file, agent, started, alive, readyAt>>

-----------------------------------------------------------------------------
(***************************************************************************)
(* The agent and the clock.                                                *)
(***************************************************************************)

Surroundings(f, a) ==
  /\ file' = f
  /\ agent' = a
  /\ readyAt' = IF a = NoAgent \/ f # a THEN NotReady
                ELSE IF readyAt = NotReady THEN elapsed ELSE readyAt
  /\ UNCHANGED <<pc, elapsed, due, held>>

\* A new agent begins to write the redirect file over what was there.
AgentStarts ==
  /\ pc \in Working
  /\ ~alive
  /\ started < MaxAgents
  /\ started' = started + 1
  /\ alive' = TRUE
  /\ Surroundings(Torn, NoAgent)

FileWritten ==
  /\ pc \in Working
  /\ alive
  /\ file # started
  /\ Surroundings(started, agent)
  /\ UNCHANGED <<started, alive>>

AgentListens ==
  /\ pc \in Working
  /\ alive
  /\ agent = NoAgent
  /\ Surroundings(file, started)
  /\ UNCHANGED <<started, alive>>

\* The redirect file outlives the agent, or is cleaned up.
AgentDies ==
  /\ pc \in Working
  /\ alive
  /\ alive' = FALSE
  /\ \E f \in {file, NoFile} : Surroundings(f, NoAgent)
  /\ UNCHANGED started

Tick ==
  /\ pc \in Working
  /\ elapsed < due + Lag
  /\ elapsed' = elapsed + 1
  /\ UNCHANGED <<pc, due, held, file, agent, started, alive, readyAt>>

-----------------------------------------------------------------------------
(***************************************************************************)
(* connect_gpg4win_with_window.                                            *)
(***************************************************************************)

\* Mutant: an attempt that never ends the loop.
FailAttemptForever == Goto("sleeping", RetryDelay) /\ UNCHANGED held

\* The end of a failed attempt: the deadline is looked at here only, so that
\* the attempt after the last sleep may begin, and end, past it.
FailAttempt ==
  /\ IF elapsed >= Window THEN Goto("expired", 0) ELSE Goto("sleeping", RetryDelay)
  /\ UNCHANGED held

\* load_metadata, in two looks at the file: its size, then its contents.
Inspect ==
  /\ pc = "inspecting"
  /\ \/ file = NoFile /\ FailAttempt
     \/ file # NoFile /\ Goto("reading", 0) /\ UNCHANGED held

Read ==
  /\ pc = "reading"
  /\ \/ Malformed(file) /\ FailAttempt
     \/ /\ file # NoFile
        /\ held' \in ReadsAs(file)
        /\ Goto("connecting", ConnectTimeout)

Listening(port) == agent # NoAgent /\ port = agent

ConnectOk ==
  /\ pc = "connecting"
  /\ Listening(held.port)
  /\ Goto("writing", 0)
  /\ UNCHANGED held

\* An agent that has listened since before the attempt accepts it in time.
Accepting ==
  /\ Listening(held.port)
  /\ readyAt # NotReady
  /\ readyAt <= due - ConnectTimeout

\* Mutant: no AGENT_CONNECT_TIMEOUT.
ConnectFailsRefusedOnly ==
  /\ pc = "connecting"
  /\ ~Accepting
  /\ elapsed < due
  /\ FailAttempt

\* Refused, or AGENT_CONNECT_TIMEOUT passed.
ConnectFails ==
  /\ pc = "connecting"
  /\ ~Accepting
  /\ FailAttempt

WriteOk ==
  /\ pc = "writing"
  /\ Goto("connected", 0)
  /\ UNCHANGED held

\* The agent left between accepting and the nonce: not retried.
WriteFails ==
  /\ pc = "writing"
  /\ ~Listening(held.port)
  /\ Goto("broken", 0)
  /\ UNCHANGED held

\* Mutant: a retry with the metadata it already has.
WakeKeepsMetadata ==
  /\ pc = "sleeping"
  /\ elapsed >= due
  /\ IF held = Unread THEN Goto("inspecting", 0) ELSE Goto("connecting", ConnectTimeout)
  /\ UNCHANGED held

Wake ==
  /\ pc = "sleeping"
  /\ elapsed >= due
  /\ Goto("inspecting", 0)
  /\ UNCHANGED held

\* The other backend: one connect, whose failure is the session's.
Dial ==
  /\ pc = "dialling"
  /\ \/ agent # NoAgent /\ Goto("connected", 0)
     \/ agent = NoAgent /\ Goto("refused", 0)
  /\ UNCHANGED held

Finished == pc \in Done /\ UNCHANGED vars

Attempt == Inspect \/ Read \/ ConnectOk \/ ConnectFails \/ WriteOk \/ WriteFails \/ Wake \/ Dial

Next ==
  \/ AgentStarts \/ FileWritten \/ AgentListens \/ AgentDies
  \/ Tick
  \/ Inspect \/ Read \/ ConnectOk \/ ConnectFails \/ WriteOk \/ WriteFails \/ Wake
  \/ Dial
  \/ Finished

Spec == Init /\ [][Next]_vars

\* Time passes and what is due is polled; the agent owes nothing.
FairSpec == Spec /\ WF_vars(Tick) /\ WF_vars(Attempt)

-----------------------------------------------------------------------------
(***************************************************************************)
(* Properties.                                                             *)
(***************************************************************************)

\* Every variable stays in its type.
TypeOK ==
  /\ pc \in Working \cup Done
  /\ elapsed \in Nat
  /\ due \in Nat
  /\ held \in [port : Agents \cup {NoAgent, Nobody}, nonce : Agents \cup {NoAgent, Shifted}]
  /\ file \in Agents \cup {NoFile, Torn}
  /\ agent \in Agents \cup {NoAgent}
  /\ started \in 0..MaxAgents
  /\ alive \in BOOLEAN
  /\ readyAt \in Nat \cup {Before, NotReady}

\* A session that waits for the agent holds its permit no longer than the
\* window, one more delay and one more attempt (agent.rs:177-207).
ConnectBounded ==
  elapsed < Window + RetryDelay + ConnectTimeout + 5 * Lag

\* An agent that is ready early enough for one more attempt, and stays, is
\* reached: no stale redirect file, torn read or connection to a dead port
\* makes the session miss it.  One that was ready before is given its own
\* nonce; a torn file may cost a session its agent only while the agent comes
\* up (agent.rs:61-83, 145, 180-206).
NoMissedAgent ==
  /\ pc = "expired" => readyAt = NotReady \/ readyAt + ConnectTimeout + Lag >= Window
  /\ pc = "connected" /\ held.nonce # held.port => readyAt # Before

\* connect returns, whatever the agent does.
Returns == <>(pc \in Done)
=============================================================================
