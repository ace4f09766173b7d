---------------------------- MODULE ClientBridge ----------------------------
(***************************************************************************)
(* The Unix client process, `run_client_until`: an accept loop on an owned *)
(* Unix socket, a semaphore of max_connections permits, one task per local *)
(* GnuPG connection, a periodic check that the socket path is still ours,  *)
(* and a bounded drain at shutdown.                                        *)
(*                                                                         *)
(* A session is seen here through the stages at which it can be            *)
(* interrupted; ClientSession models its timers and its retry window.  The *)
(* socket path is seen through who owns it; UnixSocket models how.         *)
(* One step of a `select!` loop or of a task between two awaits is one     *)
(* action.  A connection identity is used once: Conns bounds how many      *)
(* peers connect.                                                          *)
(***************************************************************************)
EXTENDS Naturals, FiniteSets

CONSTANTS
  Conns,            \* local GnuPG connections
  MaxConnections,   \* options.max_connections
  Loop              \* the accept loop, as a receiver of the shutdown watch

ASSUME ClientAssumption ==
  /\ MaxConnections \in Nat \ {0}
  /\ Loop \notin Conns

VARIABLES
  main,     \* "starting", "running", "draining" or "exited"
  result,   \* what run_client_until returned: "none" until it has
  path,     \* the socket path: "absent", "stale", "owned" or "foreign"
  conn,     \* stage of each connection
  tasks,    \* connections whose task is still in the JoinSet
  permits,  \* free permits of the semaphore
  sent, closed, seen    \* the shutdown watch

Watch == INSTANCE ShutdownWatch WITH Receivers <- Conns \cup {Loop}

watchVars == <<sent, closed, seen>>
vars == <<main, result, path, conn, tasks, permits, sent, closed, seen>>

\* A connection waits in the listener's backlog ("pending"), is then served
\* by a task, and ends "closed"; a rejected one goes there directly.
LiveStages == {"establishing", "backoff", "relaying"}
Stages == {"idle", "pending", "closed"} \cup LiveStages

Live == {c \in Conns : conn[c] \in LiveStages}

Init ==
  /\ main = "starting"
  /\ result = "none"
  /\ path \in {"absent", "stale", "foreign"}
  /\ conn = [c \in Conns |-> "idle"]
  /\ tasks = {}
  /\ permits = MaxConnections
  /\ Watch!WatchInit

-----------------------------------------------------------------------------
(***************************************************************************)
(* The process as a whole.                                                 *)
(***************************************************************************)

\* Leaving run_client_until drops its locals: the JoinSet aborts every task
\* left in it and the listener resets its backlog.  The path is left as given.
Exit(outcome, left) ==
  /\ main' = "exited"
  /\ result' = outcome
  /\ conn' = [c \in Conns |-> IF conn[c] = "idle" THEN "idle" ELSE "closed"]
  /\ tasks' = {}
  /\ permits' = MaxConnections
  /\ path' = left

\* The listener unlinks the path if it is still the socket it bound.
PathDropped == IF path = "owned" THEN "absent" ELSE path

\* The TLS material, the server name or the bind can be refused; a path that
\* somebody else owns always is.  A bind that fails half way may have removed
\* a stale socket, or leave one of its own.
StartFails ==
  /\ main = "starting"
  /\ \E left \in IF path = "foreign" THEN {path} ELSE {path, "absent", "stale"} :
       Exit("error", left)
  /\ UNCHANGED watchVars

\* A stale socket is replaced, a free path is bound.
Start ==
  /\ main = "starting"
  /\ path \in {"absent", "stale"}
  /\ main' = "running"
  /\ path' = "owned"
  /\ UNCHANGED <<result, conn, tasks, permits>>
  /\ UNCHANGED watchVars

-----------------------------------------------------------------------------
(***************************************************************************)
(* The environment: peers connect through the path while it leads to our   *)
(* listener; other processes unlink or take the path; the shutdown sender. *)
(***************************************************************************)

Connect(c) ==
  /\ main \in {"running", "draining"}
  /\ path = "owned"
  /\ conn[c] = "idle"
  /\ conn' = [conn EXCEPT ![c] = "pending"]
  /\ UNCHANGED <<main, result, path, tasks, permits>>
  /\ UNCHANGED watchVars

PathUnlinked ==
  /\ main \in {"running", "draining"}
  /\ path # "absent"
  /\ path' = "absent"
  /\ UNCHANGED <<main, result, conn, tasks, permits>>
  /\ UNCHANGED watchVars

PathTaken ==
  /\ main \in {"running", "draining"}
  /\ path # "foreign"
  /\ path' = "foreign"
  /\ UNCHANGED <<main, result, conn, tasks, permits>>
  /\ UNCHANGED watchVars

Signal ==
  /\ main # "exited"
  /\ Watch!SendShutdown \/ Watch!DropSender
  /\ UNCHANGED <<main, result, path, conn, tasks, permits>>

-----------------------------------------------------------------------------
(***************************************************************************)
(* The select! loop.                                                       *)
(***************************************************************************)

LoopNotice ==
  /\ main = "running"
  /\ Watch!TakeNotice(Loop)
  /\ main' = "draining"
  /\ UNCHANGED <<result, path, conn, tasks, permits>>

\* The monitor tick, verify_or_rebind.  A path that is still ours changes
\* nothing.  A missing one is bound again: the new listener replaces the old
\* one, whose backlog is reset.
MonitorRebinds ==
  /\ main = "running"
  /\ path = "absent"
  /\ path' = "owned"
  /\ conn' = [c \in Conns |-> IF conn[c] = "pending" THEN "closed" ELSE conn[c]]
  /\ UNCHANGED <<main, result, tasks, permits>>
  /\ UNCHANGED watchVars

\* The path belongs to somebody else, or binding it again failed: `?` leaves
\* the loop, and the function, without a drain.
MonitorFails ==
  /\ main = "running"
  /\ path # "owned"
  /\ \E left \in IF path = "absent" THEN {"absent", "stale"} ELSE {path} :
       Exit("error", left)
  /\ UNCHANGED watchVars

\* Mutant: the limit compared with the sessions already joined.
PermitFreeOfTasks == Cardinality(tasks) <= MaxConnections
PermitFree == permits > 0

\* Mutant: a session subscribes anew instead of taking a clone.
HandFreshReceiver(c) == Watch!SubscribeFrom(c)

\* `shutdown.clone()`: a session inherits what its accept loop has seen.
HandReceiver(c) == Watch!CloneFrom(c, Loop)

AcceptAdmit(c) ==
  /\ main = "running"
  /\ conn[c] = "pending"
  /\ PermitFree
  /\ permits' = permits - 1
  /\ conn' = [conn EXCEPT ![c] = "establishing"]
  /\ tasks' = tasks \cup {c}
  /\ HandReceiver(c)
  /\ UNCHANGED <<main, result, path>>

\* Mutant: an accept loop that waits for a permit instead of turning away.
AcceptRejectWaits(c) ==
  /\ main = "running"
  /\ conn[c] = "pending"
  /\ ~PermitFree
  /\ UNCHANGED vars

AcceptReject(c) ==
  /\ main = "running"
  /\ conn[c] = "pending"
  /\ ~PermitFree
  /\ conn' = [conn EXCEPT ![c] = "closed"]
  /\ UNCHANGED <<main, result, path, tasks, permits>>
  /\ UNCHANGED watchVars

\* Mutant: a task is forgotten before it has ended.
ReapEarly(c) ==
  /\ main \in {"running", "draining"}
  /\ c \in tasks
  /\ tasks' = tasks \ {c}
  /\ UNCHANGED <<main, result, path, conn, permits>>
  /\ UNCHANGED watchVars

\* join_next, in the loop and in the drain: only a finished task joins.
Reap(c) ==
  /\ main \in {"running", "draining"}
  /\ c \in tasks \ Live
  /\ tasks' = tasks \ {c}
  /\ UNCHANGED <<main, result, path, conn, permits>>
  /\ UNCHANGED watchVars

DrainDone ==
  /\ main = "draining"
  /\ tasks = {}
  /\ Exit("ok", PathDropped)
  /\ UNCHANGED watchVars

\* Mutant: a drain without its timeout.
DrainTimeoutMissing ==
  /\ main = "draining"
  /\ tasks = {}
  /\ Exit("ok", PathDropped)
  /\ UNCHANGED watchVars

\* TASK_DRAIN_TIMEOUT passed.  A relay whose receiver is ready is woken at
\* once and ends in its next poll, so none is left when the timer fires.
DrainTimeout ==
  /\ main = "draining"
  /\ tasks # {}
  /\ \A c \in Conns : conn[c] = "relaying" => ~Watch!ChangedReady(c)
  /\ Exit("ok", PathDropped)
  /\ UNCHANGED watchVars

-----------------------------------------------------------------------------
(***************************************************************************)
(* relay_session: establish (TCP, TLS, ALPN), a jittered backoff after a   *)
(* transient failure, and the relay, entered at most once.                 *)
(***************************************************************************)

\* Mutant: a permit that is never given back.
ReleasePermitNever(c) == UNCHANGED permits

\* The task of c drops its permit when it ends.
ReleasePermit(c) == permits' = permits + 1

EndSession(c) ==
  /\ conn' = [conn EXCEPT ![c] = "closed"]
  /\ ReleasePermit(c)
  /\ UNCHANGED <<main, result, path, tasks>>

MoveSession(c, stage) ==
  /\ conn' = [conn EXCEPT ![c] = stage]
  /\ UNCHANGED <<main, result, path, tasks, permits>>
  /\ UNCHANGED watchVars

EstablishOk(c) ==
  /\ conn[c] = "establishing"
  /\ MoveSession(c, "relaying")

EstablishTransient(c) ==
  /\ conn[c] = "establishing"
  /\ MoveSession(c, "backoff")

\* The server's identity or ALPN is wrong, or a transient failure came when
\* the reconnect window could not hold another delay.
EstablishGivesUp(c) ==
  /\ conn[c] = "establishing"
  /\ EndSession(c)
  /\ UNCHANGED watchVars

BackoffElapsed(c) ==
  /\ conn[c] = "backoff"
  /\ MoveSession(c, "establishing")

\* The timer ran out late enough for the window to be exhausted.
BackoffExhausted(c) ==
  /\ conn[c] = "backoff"
  /\ EndSession(c)
  /\ UNCHANGED watchVars

\* Of the awaits of a session only the backoff and the relay also wait for
\* the shutdown; an establish under way runs to its own outcome.
SessionCancelled(c) ==
  /\ conn[c] \in {"backoff", "relaying"}
  /\ Watch!TakeNotice(c)
  /\ EndSession(c)

\* Both directions reached EOF, or one of the streams failed.
RelayEnd(c) ==
  /\ conn[c] = "relaying"
  /\ EndSession(c)
  /\ UNCHANGED watchVars

EstablishOutcome(c) == EstablishOk(c) \/ EstablishTransient(c) \/ EstablishGivesUp(c)

BackoffOutcome(c) == BackoffElapsed(c) \/ BackoffExhausted(c)

-----------------------------------------------------------------------------
Terminated == main = "exited" /\ UNCHANGED vars

LoopStep ==
  \/ LoopNotice
  \/ MonitorRebinds
  \/ MonitorFails
  \/ \E c \in Conns : AcceptAdmit(c) \/ AcceptReject(c) \/ Reap(c)
  \/ DrainDone
  \/ DrainTimeout

SessionStep(c) ==
  \/ EstablishOutcome(c)
  \/ BackoffOutcome(c)
  \/ SessionCancelled(c)
  \/ RelayEnd(c)

Next ==
  \/ StartFails
  \/ Start
  \/ \E c \in Conns : Connect(c) \/ SessionStep(c)
  \/ PathUnlinked
  \/ PathTaken
  \/ Signal
  \/ LoopStep
  \/ Terminated

Spec == Init /\ [][Next]_vars

\* What the runtime owes the program: `select!` polls its ready branches in
\* random order, so none starves; every await of establish has a timeout and
\* the drain has one too.  Nobody owes that a peer ever ends its relay.
Fairness ==
  /\ WF_vars(LoopNotice)
  /\ WF_vars(DrainDone)
  /\ WF_vars(DrainTimeout)
  /\ \A c \in Conns :
       /\ WF_vars(AcceptAdmit(c) \/ AcceptReject(c))
       /\ WF_vars(Reap(c))
       /\ WF_vars(EstablishOutcome(c))
       /\ WF_vars(BackoffOutcome(c))
       /\ WF_vars(SessionCancelled(c))

FairSpec == Spec /\ Fairness

-----------------------------------------------------------------------------
(***************************************************************************)
(* Properties.                                                             *)
(***************************************************************************)

\* Every variable stays in its type; the semaphore never holds more permits
\* than it was created with (client.rs:133).
TypeOK ==
  /\ main \in {"starting", "running", "draining", "exited"}
  /\ result \in {"none", "ok", "error"}
  /\ path \in {"absent", "stale", "owned", "foreign"}
  /\ conn \in [Conns -> Stages]
  /\ tasks \subseteq Conns
  /\ permits \in 0..MaxConnections
  /\ Watch!WatchTypeOK

\* Whatever ends a session, its permit comes back, exactly once, so the
\* limit neither leaks away over time nor lets one session too many in
\* (client.rs:144-151).
PermitAccounting == permits + Cardinality(Live) = MaxConnections

\* Every served connection has its task in the JoinSet, so the drain and the
\* final abort reach it (client.rs:149, 158-162).
LiveHaveTasks == Live \subseteq tasks

\* Both, as one invariant of the accept loop and its sessions: what is served
\* is counted by the semaphore and known to the JoinSet (client.rs:144-163).
ServedAccounted == PermitAccounting /\ LiveHaveTasks

\* A shutdown is never lost between the accept loop and a session it has
\* just spawned: a served session still has the notification ahead of it
\* (client.rs:141, 148).
NoLostShutdown == \A c \in Live : sent => Watch!ChangedReady(c)

\* When the drain is over every relay has been cancelled and has said so;
\* the abort that follows hits only sessions that have carried no byte
\* (client.rs:158-162, relay.rs:36-44).
RelaysCancelledNotAborted ==
  [][main = "draining" /\ main' = "exited" =>
       \A c \in Conns : conn[c] # "relaying"]_vars

\* Once bytes may have crossed, a session is never established again: no
\* agent command is ever sent twice (client.rs:84-93, 110).
NoReplay ==
  [][\A c \in Conns : conn[c] = "relaying" => conn'[c] \in {"relaying", "closed"}]_vars

\* What SessionPool sees of the process and of its connections.
Phase == CASE main = "draining" -> "closing"
           [] main = "exited"   -> "closed"
           [] OTHER             -> "open"

Status == [c \in Conns |-> CASE conn[c] = "pending" -> "waiting"
                             [] conn[c] = "closed"  -> "done"
                             [] conn[c] = "idle"    -> "idle"
                             [] OTHER               -> "served"]

\* The client keeps the promises of SessionPool: a limit, one service per
\* connection, no admission once it is closing, nobody left at the end.
Pool == INSTANCE SessionPool WITH
  Limit <- MaxConnections,
  Rebinds <- TRUE,
  phase <- Phase,
  status <- Status

PoolSpec == Pool!PoolSpec

\* A running client that is told to stop, or loses the sender of the
\* notification, stops, whatever its peers and its server do
\* (client.rs:141, 158-163).
ShutdownTerminates ==
  (sent \/ closed) /\ main \in {"running", "draining"} ~> main = "exited"

\* A peer in the backlog is served, turned away or reset; it never waits
\* for another peer's session to end (client.rs:143-154).
PendingResolved == \A c \in Conns : conn[c] = "pending" ~> conn[c] # "pending"
=============================================================================
