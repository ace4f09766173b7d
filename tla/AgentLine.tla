----------------------------- MODULE AgentLine -----------------------------
(***************************************************************************)
(* What the two bridges together promise a local GnuPG program: one line   *)
(* to the agent.  The agent is called at most once for it.  What one side  *)
(* says may or may not reach the other, but nothing arrives that was not   *)
(* said, and the line is reported completed only when everything the agent *)
(* said has arrived.  A line that failed may have delivered any prefix.    *)
(***************************************************************************)
EXTENDS Naturals

CONSTANT Limit   \* Limit[d]: how much each side says at most

VARIABLES
  called,    \* how often the agent was called
  said,      \* said["up"] by the local program, said["down"] by the agent
  arrived,   \* how much of it has arrived
  verdict    \* "none", "completed" or "failed"

vars == <<called, said, arrived, verdict>>

Ways == {"up", "down"}

Init ==
  /\ called = 0
  /\ said = [d \in Ways |-> 0]
  /\ arrived = [d \in Ways |-> 0]
  /\ verdict = "none"

Call ==
  /\ called = 0
  /\ called' = 1
  /\ UNCHANGED <<said, arrived, verdict>>

\* The agent speaks when it was called, and no more on a completed line.
Say(d) ==
  /\ said[d] < Limit[d]
  /\ d = "down" => called = 1 /\ verdict # "completed"
  /\ said' = [said EXCEPT ![d] = @ + 1]
  /\ UNCHANGED <<called, arrived, verdict>>

Arrive(d) ==
  /\ called = 1
  /\ arrived[d] < said[d]
  /\ d = "down" => verdict = "none"
  /\ arrived' = [arrived EXCEPT ![d] = @ + 1]
  /\ UNCHANGED <<called, said, verdict>>

Complete ==
  /\ verdict = "none"
  /\ called = 1
  /\ arrived["down"] = said["down"]
  /\ verdict' = "completed"
  /\ UNCHANGED <<called, said, arrived>>

Fail ==
  /\ verdict = "none"
  /\ verdict' = "failed"
  /\ UNCHANGED <<called, said, arrived>>

Next ==
  \/ Call \/ Complete \/ Fail
  \/ \E d \in Ways : Say(d) \/ Arrive(d)

Spec == Init /\ [][Next]_vars
=============================================================================
