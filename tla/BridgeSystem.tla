---------------------------- MODULE BridgeSystem ----------------------------
(***************************************************************************)
(* One local GnuPG session from end to end: the local program, the client's *)
(* session with its attempts to reach the server, the sessions the server  *)
(* makes of these attempts, and the agent.  Both relays are instances of   *)
(* Relay over six streams:                                                 *)
(*                                                                         *)
(*   local program --localUp--> client --wireUp--> server --agentUp--> agent *)
(*   local program <-localDown- client <-wireDown- server <-agentDown- agent *)
(*                                                                         *)
(* Time is left out: a timeout may strike whenever its stage lasts.  Until *)
(* the TLS handshake is over the two sides see each other only through the *)
(* flights of the handshake, and a side that gave up is noticed late.      *)
(***************************************************************************)
EXTENDS Naturals, FiniteSets

CONSTANTS
  MaxAttempts,   \* bound on the attempts within the reconnect window
  MaxSessions,   \* the server's max_connections
  MaxUp,         \* bytes the local program writes at most
  MaxDown,       \* bytes the agent writes at most
  MaxFaults,     \* bound on cut connections and shutdowns
  BufferSize, StreamSize

ASSUME SystemAssumption ==
  /\ MaxAttempts \in Nat \ {0}
  /\ MaxSessions \in Nat \ {0}
  /\ MaxUp \in Nat /\ MaxDown \in Nat /\ MaxFaults \in Nat
  /\ BufferSize \in Nat \ {0}
  /\ StreamSize \in Nat \ {0}

VARIABLES
  client,    \* "connecting", "handshaking", "backoff", "relaying" or "over"
  attempt,   \* the number of the client's attempt
  flight,    \* the last flight of this attempt's TLS handshake
  session,   \* the server's session for each attempt
  reached,   \* the attempts whose session has connected to the agent
  stopping,  \* which of "client" and "server" was told to stop
  faults,
  stream,
  clientCopy, clientBuffer, clientResult,
  serverCopy, serverBuffer, serverResult

Attempts == 1..MaxAttempts
Flights == {"none", "reply", "finished"}
Sessions == {"none", "backlog", "handshaking", "agent", "relaying", "over"}
Streams == {"localUp", "wireUp", "agentUp", "localDown", "wireDown", "agentDown"}
Wire == {"wireUp", "wireDown"}

Client == INSTANCE Relay WITH
  Source <- [up |-> "localUp", down |-> "wireDown"],
  Sink <- [up |-> "wireUp", down |-> "localDown"],
  Tls <- Wire, copy <- clientCopy, buffer <- clientBuffer, result <- clientResult

Server == INSTANCE Relay WITH
  Source <- [up |-> "wireUp", down |-> "agentDown"],
  Sink <- [up |-> "agentUp", down |-> "wireDown"],
  Tls <- Wire, copy <- serverCopy, buffer <- serverBuffer, result <- serverResult

clientRelay == <<clientCopy, clientBuffer, clientResult>>
serverRelay == <<serverCopy, serverBuffer, serverResult>>
control == <<client, attempt, flight, session, reached, stopping, faults>>
vars == <<control, stream, clientRelay, serverRelay>>

Init ==
  /\ client = "connecting"
  /\ attempt = 1
  /\ flight = "none"
  /\ session = [a \in Attempts |-> "none"]
  /\ reached = {}
  /\ stopping = {}
  /\ faults = 0
  /\ stream = [n \in Streams |-> Client!NewStream]
  /\ Client!RelayInit
  /\ Server!RelayInit

InFlight(n) == stream[n].put - stream[n].taken

-----------------------------------------------------------------------------
(***************************************************************************)
(* The client's session: relay_session and establish.                      *)
(***************************************************************************)

\* The session returns before any relay: the local stream is dropped.
GivesUp ==
  /\ client' = "over"
  /\ \E end \in Client!DroppedEnd("localDown") :
       stream' = [stream EXCEPT !["localUp"] = Client!DroppedSource("localUp"),
                                !["localDown"].end = end]

TcpConnected ==
  /\ client = "connecting"
  /\ client' = "handshaking"
  /\ session' = [session EXCEPT ![attempt] = "backlog"]
  /\ UNCHANGED <<attempt, flight, reached, stopping, faults, stream, clientRelay, serverRelay>>

\* Refused, reset, or TCP_CONNECT_TIMEOUT or TLS_HANDSHAKE_TIMEOUT passed.
AttemptFails ==
  /\ client \in {"connecting", "handshaking"}
  /\ client' = "backoff"
  /\ flight' = "none"
  /\ UNCHANGED <<attempt, session, reached, stopping, faults>>
  /\ UNCHANGED <<stream, clientRelay, serverRelay>>

\* The server's identity or its ALPN is refused: no further attempt.
Rejected ==
  /\ client = "handshaking"
  /\ flight = "reply"
  /\ GivesUp
  /\ UNCHANGED <<attempt, flight, session, reached, stopping, faults>>
  /\ UNCHANGED <<clientRelay, serverRelay>>

\* In TLS 1.3 the client is through when it has sent its certificate, before
\* the server has seen it; the server may even have hung up already.
HandshakeDone ==
  /\ client = "handshaking"
  /\ flight = "reply"
  /\ flight' = "finished"
  /\ client' = "relaying"
  /\ clientResult' = "running"
  /\ stream' = [n \in Streams |->
                  IF n \in Wire /\ session[attempt] = "over"
                  THEN [stream[n] EXCEPT !.end = "cut"] ELSE stream[n]]
  /\ UNCHANGED <<attempt, session, reached, stopping, faults>>
  /\ UNCHANGED <<clientCopy, clientBuffer, serverRelay>>

Retry ==
  /\ client = "backoff"
  /\ attempt < MaxAttempts
  /\ client' = "connecting"
  /\ attempt' = attempt + 1
  /\ UNCHANGED <<flight, session, reached, stopping, faults>>
  /\ UNCHANGED <<stream, clientRelay, serverRelay>>

\* The reconnect window is over, or the shutdown is noticed in the sleep.
BackoffEnds ==
  /\ client = "backoff"
  /\ attempt = MaxAttempts \/ "client" \in stopping
  /\ GivesUp
  /\ UNCHANGED <<attempt, flight, session, reached, stopping, faults>>
  /\ UNCHANGED <<clientRelay, serverRelay>>

\* Mutant: a relay that failed goes back to the reconnect loop.
ClientEndRetries ==
  client' = IF clientResult' = "running" THEN client
            ELSE IF clientResult' = "failed" THEN "backoff" ELSE "over"

\* Whatever the relay returned, the session is over.
ClientEnd == client' = IF clientResult' = "running" THEN client ELSE "over"

ClientRelays(d) ==
  /\ Client!Transfer(d)
  /\ ClientEnd
  /\ UNCHANGED <<attempt, flight, session, reached, stopping, faults, serverRelay>>

ClientFinishes ==
  /\ Client!Finish \/ ("client" \in stopping /\ Client!Cancel)
  /\ ClientEnd
  /\ UNCHANGED <<attempt, flight, session, reached, stopping, faults, serverRelay>>

-----------------------------------------------------------------------------
(***************************************************************************)
(* The server's sessions: run_server_until, session and relay_agent.       *)
(***************************************************************************)

Holding == {a \in Attempts : session[a] \in {"handshaking", "agent", "relaying"}}

\* A session that ends before its relay drops the TLS connection; the client
\* sees that at its next look.
Hangup(a) ==
  /\ session' = [session EXCEPT ![a] = "over"]
  /\ stream' = IF a = attempt /\ flight = "finished"
               THEN [n \in Streams |-> IF n \in Wire THEN [stream[n] EXCEPT !.end = "cut"]
                                       ELSE stream[n]]
               ELSE stream

ServerStep ==
  UNCHANGED <<client, attempt, stopping, faults, clientRelay>>

\* The server answers the client's first flight as soon as it has accepted.
Accept(a) ==
  /\ session[a] = "backlog"
  /\ Cardinality(Holding) < MaxSessions
  /\ session' = [session EXCEPT ![a] = "handshaking"]
  /\ flight' = IF a = attempt /\ client = "handshaking" THEN "reply" ELSE flight
  /\ ServerStep /\ UNCHANGED <<reached, stream, serverRelay>>

\* No permit, or the listener is closed: the connection is reset.
Refuse(a) ==
  /\ session[a] = "backlog"
  /\ Cardinality(Holding) >= MaxSessions \/ "server" \in stopping
  /\ Hangup(a)
  /\ ServerStep /\ UNCHANGED <<flight, reached, serverRelay>>

HandshakeOk(a) ==
  /\ session[a] = "handshaking"
  /\ a = attempt
  /\ flight = "finished"
  /\ session' = [session EXCEPT ![a] = "agent"]
  /\ ServerStep /\ UNCHANGED <<flight, reached, stream, serverRelay>>

\* The client is gone, is refused, or has let TLS_HANDSHAKE_TIMEOUT pass; at
\* a shutdown the drain may end the session wherever it is.
HandshakeFails(a) ==
  /\ session[a] = "handshaking"
  /\ Hangup(a)
  /\ ServerStep /\ UNCHANGED <<flight, reached, serverRelay>>

\* While it connects to the agent the session does not look at its client.
AgentConnected(a) ==
  /\ session[a] = "agent"
  /\ session' = [session EXCEPT ![a] = "relaying"]
  /\ reached' = reached \cup {a}
  /\ serverResult' = "running"
  /\ ServerStep /\ UNCHANGED <<flight, stream, serverCopy, serverBuffer>>

AgentFails(a) ==
  /\ session[a] = "agent"
  /\ Hangup(a)
  /\ ServerStep /\ UNCHANGED <<flight, reached, serverRelay>>

ServerEnd ==
  /\ session' = [a \in Attempts |->
                   IF session[a] = "relaying" /\ serverResult' # "running"
                   THEN "over" ELSE session[a]]
  /\ UNCHANGED <<flight, reached>>

ServerRelays(d) == Server!Transfer(d) /\ ServerEnd /\ ServerStep

ServerFinishes ==
  /\ Server!Finish \/ ("server" \in stopping /\ Server!Cancel)
  /\ ServerEnd
  /\ ServerStep

-----------------------------------------------------------------------------
(***************************************************************************)
(* The two programs at the ends, and what may go wrong between them.       *)
(***************************************************************************)

Program(s) == stream' = s /\ UNCHANGED <<control, clientRelay, serverRelay>>

Says(n, limit) ==
  /\ stream[n].end = "open"
  /\ stream[n].put < limit
  /\ InFlight(n) < StreamSize
  /\ Program([stream EXCEPT ![n].put = @ + 1])

Hears(n) ==
  /\ InFlight(n) > 0
  /\ Program([stream EXCEPT ![n].taken = @ + 1])

StopsSaying(n) ==
  /\ stream[n].end = "open"
  /\ Program([stream EXCEPT ![n].end = "fin"])

\* A program that closes its connection: with unread input that is a reset.
Leaves(in, out) ==
  /\ stream[in].end # "cut" \/ stream[out].end = "open"
  /\ Program([stream EXCEPT
       ![in] = [@ EXCEPT !.taken = stream[in].put, !.end = "cut"],
       ![out].end = IF InFlight(in) > 0 THEN "cut" ELSE IF @ = "open" THEN "fin" ELSE @])

LocalProgram ==
  \/ Says("localUp", MaxUp) \/ StopsSaying("localUp")
  \/ Hears("localDown")
  \/ Leaves("localDown", "localUp")

Agent ==
  /\ reached # {}
  /\ \/ Says("agentDown", MaxDown) \/ StopsSaying("agentDown")
     \/ Hears("agentUp")
     \/ Leaves("agentUp", "agentDown")

\* The network loses the connection; TCP, with keepalive, tells both ends.
Cut ==
  /\ faults < MaxFaults
  /\ faults' = faults + 1
  /\ flight = "finished"
  /\ \E n \in Wire : stream[n].end # "cut"
  /\ stream' = [n \in Streams |-> IF n \in Wire THEN [stream[n] EXCEPT !.end = "cut"]
                                  ELSE stream[n]]
  /\ UNCHANGED <<client, attempt, flight, session, reached, stopping>>
  /\ UNCHANGED <<clientRelay, serverRelay>>

Stop ==
  /\ faults < MaxFaults
  /\ faults' = faults + 1
  /\ \E who \in {"client", "server"} \ stopping : stopping' = stopping \cup {who}
  /\ UNCHANGED <<client, attempt, flight, session, reached>>
  /\ UNCHANGED <<stream, clientRelay, serverRelay>>

Ended ==
  /\ client = "over"
  /\ Holding = {}
  /\ UNCHANGED vars

-----------------------------------------------------------------------------

ClientStep ==
  \/ TcpConnected \/ AttemptFails \/ Rejected \/ HandshakeDone
  \/ Retry \/ BackoffEnds
  \/ ClientFinishes

ServerSessionStep(a) ==
  \/ Accept(a) \/ Refuse(a) \/ HandshakeOk(a) \/ HandshakeFails(a)
  \/ AgentConnected(a) \/ AgentFails(a)

Ways == {"up", "down"}

Next ==
  \/ TcpConnected \/ AttemptFails \/ Rejected \/ HandshakeDone
  \/ Retry \/ BackoffEnds \/ ClientFinishes
  \/ \E d \in Ways : ClientRelays(d) \/ ServerRelays(d)
  \/ \E a \in Attempts :
       \/ Accept(a) \/ Refuse(a) \/ HandshakeOk(a) \/ HandshakeFails(a)
       \/ AgentConnected(a) \/ AgentFails(a)
  \/ ServerFinishes
  \/ LocalProgram \/ Agent
  \/ Cut \/ Stop
  \/ Ended

Spec == Init /\ [][Next]_vars

\* Both processes poll what they wait for, each direction of a relay for
\* itself.  The agent reads what it is sent and leaves when that has ended;
\* of the local program nothing is expected.
FairSpec ==
  /\ Spec
  /\ WF_vars(ClientStep)
  /\ WF_vars(ServerFinishes)
  /\ \A a \in Attempts : WF_vars(ServerSessionStep(a))
  /\ \A d \in Ways : WF_vars(ClientRelays(d)) /\ WF_vars(ServerRelays(d))
  /\ WF_vars(reached # {} /\ Hears("agentUp"))
  /\ WF_vars(/\ reached # {}
             /\ InFlight("agentUp") = 0
             /\ stream["agentUp"].end # "open"
             /\ Leaves("agentUp", "agentDown"))

-----------------------------------------------------------------------------
(***************************************************************************)
(* Properties.                                                             *)
(***************************************************************************)

\* Every variable stays in its type, and no stream and no relay holds more
\* than it may.
TypeOK ==
  /\ client \in {"connecting", "handshaking", "backoff", "relaying", "over"}
  /\ attempt \in Attempts
  /\ flight \in Flights
  /\ session \in [Attempts -> Sessions]
  /\ reached \subseteq Attempts
  /\ stopping \subseteq {"client", "server"}
  /\ faults \in 0..MaxFaults
  /\ DOMAIN stream = Streams
  /\ \A n \in Streams : InFlight(n) \in 0..StreamSize
  /\ Client!RelayTypeOK
  /\ Server!RelayTypeOK

\* The bridges keep the promise of AgentLine: the agent is called at most
\* once for a local session, however many attempts there were and wherever
\* they failed, so that nothing is replayed (README.md:29, client.rs:84-110);
\* and the client reports a session completed (client.rs:85) only when all
\* the agent said has arrived, whatever was cut in between.
Verdict ==
  IF client # "over" THEN "none" ELSE IF clientResult = "ok" THEN "completed" ELSE "failed"

Line == INSTANCE AgentLine WITH
  Limit <- [up |-> MaxUp, down |-> MaxDown],
  called <- Cardinality(reached),
  said <- [up |-> stream["localUp"].put, down |-> stream["agentDown"].put],
  arrived <- [up |-> stream["agentUp"].put, down |-> stream["localDown"].put],
  verdict <- Verdict

LineSpec == Line!Spec

\* A session the server reports completed (server.rs:84) has given the agent
\* all the local program said: a disconnect in the middle of a request is
\* never taken for its end.
ServerCompletionTrue ==
  serverResult = "ok" => stream["agentUp"].put = stream["localUp"].put

\* Once a local session is over, every session the server has made of its
\* attempts ends and returns its permit, also those of attempts the client
\* gave up long ago (server.rs:47-91, relay.rs:26-35).
ServerReleases == client = "over" ~> \A a \in Attempts : session[a] \in {"none", "over"}

\* What the local program has said reaches a connected agent, or the session
\* breaks: no byte waits for traffic in the other direction, and a reply
\* nobody reads does not hold the request back (relay.rs:27).
Broken == {clientResult, serverResult} \cap {"failed", "cancelled"} # {}

RequestsArrive ==
  \A n \in 1..MaxUp :
    (reached # {} /\ stream["localUp"].put >= n) ~>
      (stream["agentUp"].put >= n \/ Broken)
=============================================================================
