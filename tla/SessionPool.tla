---------------------------- MODULE SessionPool ----------------------------
(***************************************************************************)
(* What an accept loop of the bridge promises the peers that connect to    *)
(* it, whichever side it runs on: at most Limit connections are served at  *)
(* a time, a connection is served at most once, it is turned away only     *)
(* when the pool is full, nothing is admitted once closing has begun, and  *)
(* when the pool is closed nobody is left waiting or half served.          *)
(*                                                                         *)
(* ClientBridge and ServerBridge are each shown to implement it.           *)
(***************************************************************************)
EXTENDS Naturals, FiniteSets

CONSTANTS
  Conns,        \* the connections peers may open
  Limit,        \* how many may be served at the same time
  Rebinds       \* TRUE when the listener may be replaced under its backlog

VARIABLES
  phase,        \* "open", "closing" or "closed"
  status        \* status[c]: "idle", "waiting", "served" or "done"

poolVars == <<phase, status>>

Served == {c \in Conns : status[c] = "served"}

PoolTypeOK ==
  /\ phase \in {"open", "closing", "closed"}
  /\ status \in [Conns -> {"idle", "waiting", "served", "done"}]

PoolInit ==
  /\ phase = "open"
  /\ status = [c \in Conns |-> "idle"]

Arrive(c) ==
  /\ phase # "closed"
  /\ status[c] = "idle"
  /\ status' = [status EXCEPT ![c] = "waiting"]
  /\ UNCHANGED phase

Admit(c) ==
  /\ phase = "open"
  /\ status[c] = "waiting"
  /\ Cardinality(Served) < Limit
  /\ status' = [status EXCEPT ![c] = "served"]
  /\ UNCHANGED phase

TurnAway(c) ==
  /\ phase = "open"
  /\ status[c] = "waiting"
  /\ Cardinality(Served) = Limit
  /\ status' = [status EXCEPT ![c] = "done"]
  /\ UNCHANGED phase

\* A replaced listener takes its whole backlog with it, and nobody else.
ResetBacklog ==
  /\ Rebinds
  /\ phase = "open"
  /\ status' = [c \in Conns |-> IF status[c] = "waiting" THEN "done" ELSE status[c]]
  /\ UNCHANGED phase

Leave(c) ==
  /\ phase # "closed"
  /\ status[c] = "served"
  /\ status' = [status EXCEPT ![c] = "done"]
  /\ UNCHANGED phase

BeginClosing ==
  /\ phase = "open"
  /\ phase' = "closing"
  /\ UNCHANGED status

Close ==
  /\ phase # "closed"
  /\ phase' = "closed"
  /\ status' = [c \in Conns |->
                  IF status[c] \in {"waiting", "served"} THEN "done" ELSE status[c]]

PoolNext ==
  \/ \E c \in Conns : Arrive(c) \/ Admit(c) \/ TurnAway(c) \/ Leave(c)
  \/ ResetBacklog
  \/ BeginClosing
  \/ Close

PoolSpec == PoolInit /\ [][PoolNext]_poolVars
=============================================================================
