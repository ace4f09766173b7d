---------------------------- MODULE ServerBridge ----------------------------
(***************************************************************************)
(* The server process, `run_server_until`: an accept loop on a TCP         *)
(* listener, a semaphore of max_connections permits, one task per TCP      *)
(* connection and a bounded drain at shutdown.  A session authenticates    *)
(* its peer (TLS 1.3 with a client certificate), looks at the protocol the *)
(* handshake has negotiated, opens one connection to the GnuPG agent and   *)
(* relays.                                                                 *)
(*                                                                         *)
(* A permit is taken before the peer is authenticated, so what a peer that *)
(* never proves itself can hold, and for how long, is part of the model.   *)
(* AgentConnect stands for the whole of AgentConnector::connect: it        *)
(* succeeds or fails within its own time limits.                           *)
(***************************************************************************)
EXTENDS Naturals, FiniteSets

CONSTANTS
  Conns,            \* TCP connections
  MaxConnections,   \* options.max_connections
  Peers,            \* the kinds of peer that may connect
  Loop              \* the accept loop, as a receiver of the shutdown watch

\* ALPN_PROTOCOL, and what a TLS client may offer besides.
Alpn == "gpg-bridge/1"
Protocols == {Alpn, "h2"}

\* What alpn_protocol() returns when nothing was negotiated, or nothing yet.
NoProtocol == "none"

\* A peer holds a certificate of the client CA or not, offers a set of
\* protocols, and takes part in the handshake or says nothing at all.
ASSUME ServerAssumption ==
  /\ MaxConnections \in Nat \ {0}
  /\ Loop \notin Conns
  /\ Peers \subseteq [certified : BOOLEAN, offers : SUBSET Protocols, talks : BOOLEAN]

VARIABLES
  main,     \* "starting", "running", "draining" or "exited"
  peer,     \* who is at the other end of each connection
  conn,     \* stage of each connection
  alpn,     \* the protocol each finished handshake has negotiated
  tasks,    \* connections whose task is still in the JoinSet
  permits,  \* free permits of the semaphore
  sent, closed, seen    \* the shutdown watch

Watch == INSTANCE ShutdownWatch WITH Receivers <- Conns \cup {Loop}

watchVars == <<sent, closed, seen>>
vars == <<main, peer, conn, alpn, tasks, permits, sent, closed, seen>>

LiveStages == {"handshaking", "negotiated", "connecting", "relaying"}
Stages == {"idle", "pending", "closed"} \cup LiveStages

Live == {c \in Conns : conn[c] \in LiveStages}

Init ==
  /\ main = "starting"
  /\ peer \in [Conns -> Peers]
  /\ conn = [c \in Conns |-> "idle"]
  /\ alpn = [c \in Conns |-> NoProtocol]
  /\ tasks = {}
  /\ permits = MaxConnections
  /\ Watch!WatchInit

-----------------------------------------------------------------------------
(***************************************************************************)
(* The process as a whole, and its environment.                            *)
(***************************************************************************)

\* Leaving run_server_until drops its locals: the JoinSet aborts every task
\* left in it and the listener resets its backlog.
Exit ==
  /\ main' = "exited"
  /\ conn' = [c \in Conns |-> IF conn[c] = "idle" THEN "idle" ELSE "closed"]
  /\ tasks' = {}
  /\ permits' = MaxConnections
  /\ UNCHANGED <<peer, alpn>>

\* The TLS material or the listen address was refused.
StartFails ==
  /\ main = "starting"
  /\ Exit
  /\ UNCHANGED watchVars

Start ==
  /\ main = "starting"
  /\ main' = "running"
  /\ UNCHANGED <<peer, conn, alpn, tasks, permits>>
  /\ UNCHANGED watchVars

\* The listener is kept until the function returns, so that the kernel
\* completes connections into its backlog during the drain as well.
Connect(c) ==
  /\ main \in {"running", "draining"}
  /\ conn[c] = "idle"
  /\ conn' = [conn EXCEPT ![c] = "pending"]
  /\ UNCHANGED <<main, peer, alpn, tasks, permits>>
  /\ UNCHANGED watchVars

Signal ==
  /\ main # "exited"
  /\ Watch!SendShutdown \/ Watch!DropSender
  /\ UNCHANGED <<main, peer, conn, alpn, tasks, permits>>

-----------------------------------------------------------------------------
(***************************************************************************)
(* The select! loop and the drain.                                         *)
(***************************************************************************)

\* Mutant: the loop ends on a write, not when its sender is gone.
LoopNoticeWriteOnly ==
  /\ main = "running"
  /\ sent
  /\ Watch!TakeNotice(Loop)
  /\ main' = "draining"
  /\ UNCHANGED <<peer, conn, alpn, tasks, permits>>

LoopNotice ==
  /\ main = "running"
  /\ Watch!TakeNotice(Loop)
  /\ main' = "draining"
  /\ UNCHANGED <<peer, conn, alpn, tasks, permits>>

\* Mutant: a session subscribes anew instead of taking a clone.
HandFreshReceiver(c) == Watch!SubscribeFrom(c)

\* `shutdown.clone()`: a session inherits what its accept loop has seen.
HandReceiver(c) == Watch!CloneFrom(c, Loop)

AcceptAdmit(c) ==
  /\ main = "running"
  /\ conn[c] = "pending"
  /\ permits > 0
  /\ permits' = permits - 1
  /\ conn' = [conn EXCEPT ![c] = "handshaking"]
  /\ tasks' = tasks \cup {c}
  /\ HandReceiver(c)
  /\ UNCHANGED <<main, peer, alpn>>

\* Mutant: the limit counts tasks that have ended but are not joined yet.
AcceptRejectByTasks(c) ==
  /\ main = "running"
  /\ conn[c] = "pending"
  /\ Cardinality(tasks) >= MaxConnections
  /\ conn' = [conn EXCEPT ![c] = "closed"]
  /\ UNCHANGED <<main, peer, alpn, tasks, permits>>
  /\ UNCHANGED watchVars

AcceptReject(c) ==
  /\ main = "running"
  /\ conn[c] = "pending"
  /\ permits = 0
  /\ conn' = [conn EXCEPT ![c] = "closed"]
  /\ UNCHANGED <<main, peer, alpn, tasks, permits>>
  /\ UNCHANGED watchVars

\* Mutant: a task is detached from the JoinSet before it has ended.
ReapEarly(c) ==
  /\ main \in {"running", "draining"}
  /\ c \in tasks
  /\ tasks' = tasks \ {c}
  /\ UNCHANGED <<main, peer, conn, alpn, permits>>
  /\ UNCHANGED watchVars

Reap(c) ==
  /\ main \in {"running", "draining"}
  /\ c \in tasks \ Live
  /\ tasks' = tasks \ {c}
  /\ UNCHANGED <<main, peer, conn, alpn, permits>>
  /\ UNCHANGED watchVars

DrainDone ==
  /\ main = "draining"
  /\ tasks = {}
  /\ Exit
  /\ UNCHANGED watchVars

\* TASK_DRAIN_TIMEOUT passed.  A relay whose receiver is ready is woken at
\* once and ends in its next poll, so none is left when the timer fires.
DrainTimeout ==
  /\ main = "draining"
  /\ tasks # {}
  /\ \A c \in Conns : conn[c] = "relaying" => ~Watch!ChangedReady(c)
  /\ Exit
  /\ UNCHANGED watchVars

-----------------------------------------------------------------------------
(***************************************************************************)
(* session: TLS and ALPN, the agent, the relay.                            *)
(***************************************************************************)

EndSession(c) ==
  /\ conn' = [conn EXCEPT ![c] = "closed"]
  /\ permits' = permits + 1
  /\ UNCHANGED <<main, peer, alpn, tasks>>

MoveSession(c, stage) ==
  /\ conn' = [conn EXCEPT ![c] = stage]
  /\ UNCHANGED <<main, peer, alpn, tasks, permits>>
  /\ UNCHANGED watchVars

\* What rustls makes of the peer's offer: with no offer there is nothing to
\* negotiate and it goes on without, with an offer it insists on its own.
Negotiates(offers, protocol) ==
  \/ offers = {} /\ protocol = NoProtocol
  \/ Alpn \in offers /\ protocol = Alpn

\* acceptor.accept returned a stream.
TlsAccepted(c) ==
  /\ conn[c] = "handshaking"
  /\ peer[c].talks
  /\ peer[c].certified
  /\ \E protocol \in {NoProtocol, Alpn} :
       /\ Negotiates(peer[c].offers, protocol)
       /\ alpn' = [alpn EXCEPT ![c] = protocol]
  /\ conn' = [conn EXCEPT ![c] = "negotiated"]
  /\ UNCHANGED <<main, peer, tasks, permits>>
  /\ UNCHANGED watchVars

\* Mutant: a protocol that was negotiated must be the bridge's, but none
\* need be.
AlpnUnlessOther(protocol) == protocol \in {Alpn, NoProtocol}

\* validate_alpn.
ValidateAlpn(protocol) == protocol = Alpn

AlpnValidated(c) ==
  /\ conn[c] = "negotiated"
  /\ ValidateAlpn(alpn[c])
  /\ MoveSession(c, "connecting")

AlpnRefused(c) ==
  /\ conn[c] = "negotiated"
  /\ ~ValidateAlpn(alpn[c])
  /\ EndSession(c)
  /\ UNCHANGED watchVars

\* rustls refused the peer, or it left before the handshake was over.
HandshakeFails(c) ==
  /\ conn[c] = "handshaking"
  /\ peer[c].talks
  /\ EndSession(c)
  /\ UNCHANGED watchVars

\* Mutant: no time limit on the handshake.
HandshakeTimeoutMissing(c) == FALSE /\ EndSession(c) /\ UNCHANGED watchVars

\* TLS_HANDSHAKE_TIMEOUT passed.
HandshakeTimeout(c) ==
  /\ conn[c] = "handshaking"
  /\ EndSession(c)
  /\ UNCHANGED watchVars

AgentConnected(c) ==
  /\ conn[c] = "connecting"
  /\ MoveSession(c, "relaying")

AgentFails(c) ==
  /\ conn[c] = "connecting"
  /\ EndSession(c)
  /\ UNCHANGED watchVars

\* Only the relay waits for the shutdown; a handshake or an agent connection
\* under way runs to its own outcome.
RelayCancelled(c) ==
  /\ conn[c] = "relaying"
  /\ Watch!TakeNotice(c)
  /\ EndSession(c)

RelayEnd(c) ==
  /\ conn[c] = "relaying"
  /\ EndSession(c)
  /\ UNCHANGED watchVars

HandshakeOutcome(c) == TlsAccepted(c) \/ HandshakeFails(c) \/ HandshakeTimeout(c)

AlpnOutcome(c) == AlpnValidated(c) \/ AlpnRefused(c)

AgentOutcome(c) == AgentConnected(c) \/ AgentFails(c)

-----------------------------------------------------------------------------
Terminated == main = "exited" /\ UNCHANGED vars

LoopStep ==
  \/ LoopNotice
  \/ \E c \in Conns : AcceptAdmit(c) \/ AcceptReject(c) \/ Reap(c)
  \/ DrainDone
  \/ DrainTimeout

SessionStep(c) ==
  \/ HandshakeOutcome(c)
  \/ AlpnOutcome(c)
  \/ AgentOutcome(c)
  \/ RelayCancelled(c)
  \/ RelayEnd(c)

Next ==
  \/ StartFails
  \/ Start
  \/ \E c \in Conns : Connect(c) \/ SessionStep(c)
  \/ Signal
  \/ LoopStep
  \/ Terminated

Spec == Init /\ [][Next]_vars

\* `select!` polls its ready branches in random order; the handshake, the
\* agent connection and the drain have time limits.  Nobody owes that a peer
\* ever ends its relay, or that a handshake gets anywhere but its limit.
Fairness ==
  /\ WF_vars(LoopNotice)
  /\ WF_vars(DrainDone)
  /\ WF_vars(DrainTimeout)
  /\ \A c \in Conns :
       /\ WF_vars(AcceptAdmit(c) \/ AcceptReject(c))
       /\ WF_vars(Reap(c))
       /\ WF_vars(HandshakeOutcome(c))
       /\ WF_vars(AlpnOutcome(c))
       /\ WF_vars(AgentOutcome(c))
       /\ WF_vars(RelayCancelled(c))

FairSpec == Spec /\ Fairness

-----------------------------------------------------------------------------
(***************************************************************************)
(* Properties.                                                             *)
(***************************************************************************)

\* Every variable stays in its type.
TypeOK ==
  /\ main \in {"starting", "running", "draining", "exited"}
  /\ peer \in [Conns -> Peers]
  /\ conn \in [Conns -> Stages]
  /\ alpn \in [Conns -> {NoProtocol, Alpn}]
  /\ tasks \subseteq Conns
  /\ permits \in 0..MaxConnections
  /\ Watch!WatchTypeOK

\* Permits and served sessions balance, and every served session has its
\* task in the JoinSet, so the drain waits for it (server.rs:126-131, 140-144).
ServedAccounted ==
  /\ permits + Cardinality(Live) = MaxConnections
  /\ Live \subseteq tasks

\* The agent is reached only on behalf of a peer that holds a certificate of
\* the client CA and has itself asked for the bridge's protocol.  TLS alone
\* does not see to the second: it lets a certified peer in that offers no
\* protocol (server.rs:47-62).
OnlyTrustedReachAgent ==
  \A c \in Conns : conn[c] \in {"connecting", "relaying"} =>
    peer[c].certified /\ Alpn \in peer[c].offers

\* When the drain ends, by its timeout too, no relay is running: each was
\* cancelled and closed its streams itself (server.rs:83-90, 140-144).
RelaysCancelledNotAborted ==
  [][main = "draining" /\ main' = "exited" =>
       \A c \in Conns : conn[c] # "relaying"]_vars

\* What SessionPool sees of the process and of its connections.
Phase == CASE main = "draining" -> "closing"
           [] main = "exited"   -> "closed"
           [] OTHER             -> "open"

Status == [c \in Conns |-> CASE conn[c] = "pending" -> "waiting"
                             [] conn[c] = "closed"  -> "done"
                             [] conn[c] = "idle"    -> "idle"
                             [] OTHER               -> "served"]

\* The server keeps the promises of SessionPool.
Pool == INSTANCE SessionPool WITH
  Limit <- MaxConnections,
  Rebinds <- FALSE,
  phase <- Phase,
  status <- Status

PoolSpec == Pool!PoolSpec

\* A peer that never authenticates gives its permit back in the end
\* (server.rs:47-56); only the relay of a peer let through may hold one for good.
UnprovenPeersReleasePermits ==
  \A c \in Conns : conn[c] = "handshaking" ~> conn[c] \in {"relaying", "closed"}

\* A running server told to stop, or left without its notifier, stops
\* (server.rs:124, 140-145).
ShutdownTerminates ==
  (sent \/ closed) /\ main \in {"running", "draining"} ~> main = "exited"
=============================================================================
