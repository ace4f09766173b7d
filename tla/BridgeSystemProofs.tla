-------------------------- MODULE BridgeSystemProofs --------------------------
(***************************************************************************)
(* Theorems about BridgeSystem, for any number of attempts and permits and *)
(* any sizes of what is said and of what lies between.  The invariant      *)
(* follows the bytes: a direction of a relay has written what it has read, *)
(* and an orderly end on the wire says that the wire was given everything. *)
(***************************************************************************)
EXTENDS BridgeSystem, FiniteSetTheorems, TLAPS

Ends == {"open", "fin", "cut"}
Trying == {"connecting", "handshaking", "backoff"}
Whole == {"running", "ok"}

\* No stream gives more than was put into it.
StreamInv ==
  /\ stream \in [Streams -> [put : Nat, taken : Nat, end : Ends]]
  /\ \A n \in Streams : stream[n].taken <= stream[n].put /\ InFlight(n) <= StreamSize

\* Only the client's last attempt gets through its handshake, and only its
\* session reaches the agent.
ControlInv ==
  /\ client \in {"connecting", "backoff"} => flight = "none"
  /\ flight = "finished" <=> clientResult # "idle"
  /\ client = "relaying" <=> clientResult = "running"
  /\ clientResult # "idle" => client \in {"relaying", "over"}
  /\ \A a \in Attempts :
       session[a] \in {"agent", "relaying"} => a = attempt /\ flight = "finished"
  /\ reached \subseteq {attempt}
  /\ reached = {} <=> serverResult = "idle"
  /\ reached # {} => flight = "finished" /\ session[attempt] \in {"relaying", "over"}
  /\ session[attempt] = "relaying" <=> serverResult = "running"

\* One direction of a relay, from stream s to stream t: it has written what it
\* has read, all of it unless it was let go, and ends only what has ended.
Hop(s, t, result, copy, buffer) ==
  /\ buffer + stream[t].put <= stream[s].taken
  /\ result = "idle" => copy = "copying"
  /\ result \in Whole =>
       /\ buffer + stream[t].put = stream[s].taken
       /\ copy # "copying" => stream[s].end # "open" /\ stream[s].taken = stream[s].put
       /\ copy = "done" => buffer = 0
  /\ result = "ok" => copy = "done"

HopInv ==
  /\ Hop("localUp", "wireUp", clientResult, clientCopy["up"], clientBuffer["up"])
  /\ Hop("wireUp", "agentUp", serverResult, serverCopy["up"], serverBuffer["up"])
  /\ Hop("agentDown", "wireDown", serverResult, serverCopy["down"], serverBuffer["down"])
  /\ Hop("wireDown", "localDown", clientResult, clientCopy["down"], clientBuffer["down"])

\* Nothing is read before there is a relay to read it.
IdleInv ==
  /\ client \in Trying => stream["localUp"].taken = 0 /\ stream["wireDown"].taken = 0
  /\ serverResult = "idle" => stream["wireUp"].taken = 0 /\ stream["agentDown"].taken = 0

\* Everything that will ever be put into s is in the wire w.
Sealed(s, w) ==
  /\ stream[s].end # "open" /\ stream[w].end # "open"
  /\ stream[w].put = stream[s].put

\* An orderly end on the wire, or one that was taken for orderly, says that
\* the wire was given everything.
SealInv ==
  /\ (stream["wireUp"].end = "fin" \/ (serverResult \in Whole /\ serverCopy["up"] # "copying"))
       => Sealed("localUp", "wireUp")
  /\ (stream["wireDown"].end = "fin" \/ (clientResult \in Whole /\ clientCopy["down"] # "copying"))
       => Sealed("agentDown", "wireDown") /\ reached # {}

BytesInv == HopInv /\ IdleInv /\ SealInv

IInv == TypeOK /\ StreamInv /\ ControlInv /\ BytesInv

relays == <<clientRelay, serverRelay>>

-----------------------------------------------------------------------------
(***************************************************************************)
(* The two relays' streams, and what the steps do to a stream.             *)
(***************************************************************************)

LEMMA ClientStreams ==
  /\ Client!Directions = Ways
  /\ Client!Sources = {"localUp", "wireDown"} /\ Client!Sinks = {"wireUp", "localDown"}
BY DEF Client!Directions, Client!Sources, Client!Sinks, Ways

LEMMA ServerStreams ==
  /\ Server!Directions = Ways
  /\ Server!Sources = {"wireUp", "agentDown"} /\ Server!Sinks = {"agentUp", "wireDown"}
BY DEF Server!Directions, Server!Sources, Server!Sinks, Ways

\* What the relays do not notice: only the programs say something, nothing is
\* taken out of a stream a relay reads, no end is undone and the wire gets no
\* orderly end.
Inert ==
  /\ \A n \in Streams \ {"localUp", "agentDown"} : stream'[n].put = stream[n].put
  /\ \A n \in {"localUp", "agentDown"} :
       stream[n].end # "open" => stream'[n].put = stream[n].put
  /\ \A n \in Streams : stream[n].end # "open" => stream'[n].end # "open"
  /\ \A n \in Wire : stream'[n].end = "fin" => stream[n].end = "fin"
  /\ \A n \in Wire \cup {"localUp", "agentDown"} : stream'[n].taken = stream[n].taken

\* What nobody outside notices.
Silent == \A n \in Streams : stream'[n].put = stream[n].put

LEMMA StreamsStay ==
  ASSUME StreamInv, UNCHANGED stream
  PROVE  StreamInv' /\ Inert /\ Silent
BY DEF StreamInv, InFlight, Inert, Silent, Streams, Wire

LEMMA StreamTaken ==
  ASSUME StreamInv, NEW n \in Streams, InFlight(n) > 0,
         stream' = [stream EXCEPT ![n].taken = @ + 1]
  PROVE  /\ StreamInv'
         /\ \A m \in Streams : stream'[m].put = stream[m].put /\ stream'[m].end = stream[m].end
         /\ \A m \in Streams : m # n => stream'[m] = stream[m]
         /\ stream'[n].taken = stream[n].taken + 1
BY SystemAssumption DEF StreamInv, InFlight

LEMMA StreamPut ==
  ASSUME StreamInv, NEW n \in Streams, InFlight(n) < StreamSize,
         stream' = [stream EXCEPT ![n].put = @ + 1]
  PROVE  /\ StreamInv'
         /\ \A m \in Streams : stream'[m].taken = stream[m].taken /\ stream'[m].end = stream[m].end
         /\ \A m \in Streams : m # n => stream'[m] = stream[m]
         /\ stream'[n].put = stream[n].put + 1
BY SystemAssumption DEF StreamInv, InFlight

LEMMA StreamEnds ==
  ASSUME StreamInv, NEW n \in Streams, NEW end \in Ends,
         stream' = [stream EXCEPT ![n].end = end]
  PROVE  /\ StreamInv'
         /\ \A m \in Streams : stream'[m].put = stream[m].put /\ stream'[m].taken = stream[m].taken
         /\ \A m \in Streams : m # n => stream'[m] = stream[m]
         /\ stream'[n].end = end
<1>1. \A m \in Streams : stream'[m] = IF m = n THEN [stream[n] EXCEPT !.end = end] ELSE stream[m]
  BY DEF StreamInv
<1>2. \A m \in Streams : /\ stream'[m] \in [put : Nat, taken : Nat, end : Ends]
                         /\ stream'[m].put = stream[m].put /\ stream'[m].taken = stream[m].taken
  BY <1>1 DEF StreamInv
<1>3. stream'[n].end = end
  BY <1>1 DEF StreamInv
<1>4. stream' \in [Streams -> [put : Nat, taken : Nat, end : Ends]]
  BY DEF StreamInv
<1>5. StreamInv'
  BY <1>2, <1>4 DEF StreamInv, InFlight
<1>6. \A m \in Streams : m # n => stream'[m] = stream[m]
  BY <1>1
<1> QED BY <1>2, <1>3, <1>5, <1>6

LEMMA WireIsCut ==
  ASSUME StreamInv,
         stream' = [n \in Streams |-> IF n \in Wire THEN [stream[n] EXCEPT !.end = "cut"]
                                      ELSE stream[n]]
  PROVE  StreamInv' /\ Inert /\ Silent
BY DEF StreamInv, InFlight, Inert, Silent, Ends, Wire, Streams

\* A relay that is let go: it has put nothing more into a stream, and what it
\* leaves behind on the wire is no orderly end that was not there.
LEMMA ClientLetsGo ==
  ASSUME StreamInv, NEW verdict, Client!EndsWith(verdict)
  PROVE  /\ StreamInv'
         /\ clientResult' = verdict
         /\ clientCopy' = [d \in Ways |-> "done"] /\ clientBuffer' = [d \in Ways |-> 0]
         /\ \A n \in Streams : /\ stream'[n].put = stream[n].put
                               /\ stream[n].taken <= stream'[n].taken
                               /\ stream[n].end # "open" => stream'[n].end # "open"
         /\ \A n \in Wire : stream'[n].end = "fin" => stream[n].end = "fin"
         /\ \A n \in {"agentUp", "agentDown"} : stream'[n] = stream[n]
         /\ stream'["wireUp"].taken = stream["wireUp"].taken
<1>1. PICK end \in [Client!Sinks -> {"fin", "cut"}] :
        /\ \A n \in Client!Sinks : end[n] \in Client!DroppedEnd(n)
        /\ stream' = [n \in DOMAIN stream |->
                        IF n \in Client!Sources THEN Client!DroppedSource(n)
                        ELSE IF n \in Client!Sinks THEN [stream[n] EXCEPT !.end = end[n]]
                        ELSE stream[n]]
  BY Zenon DEF Client!EndsWith, Client!Dropped
<1>2. /\ DOMAIN stream' = Streams /\ stream' = [n \in Streams |-> stream'[n]]
      /\ \A n \in Streams :
           stream'[n] = IF n \in {"localUp", "wireDown"} THEN Client!DroppedSource(n)
                        ELSE IF n \in {"wireUp", "localDown"} THEN [stream[n] EXCEPT !.end = end[n]]
                        ELSE stream[n]
  BY <1>1, ClientStreams DEF StreamInv
<1>3. end["wireUp"] = "fin" => stream["wireUp"].end = "fin"
  BY <1>1, ClientStreams DEF Client!DroppedEnd, Wire, StreamInv, Streams, Ends
<1> QED
  <2>1. \A n \in Streams :
          /\ stream[n] \in [put : Nat, taken : Nat, end : Ends]
          /\ stream[n].taken <= stream[n].put
    BY DEF StreamInv
  <2>2. \A n \in {"localUp", "wireDown"} :
          /\ stream'[n] \in [put : Nat, taken : Nat, end : Ends]
          /\ stream'[n].put = stream[n].put
          /\ stream'[n].taken \in {stream[n].taken, stream[n].put}
          /\ stream'[n].end \in {stream[n].end, "cut"}
    <3> SUFFICES ASSUME NEW n \in {"localUp", "wireDown"}
                 PROVE  /\ stream'[n] \in [put : Nat, taken : Nat, end : Ends]
                        /\ stream'[n].put = stream[n].put
                        /\ stream'[n].taken \in {stream[n].taken, stream[n].put}
                        /\ stream'[n].end \in {stream[n].end, "cut"}
      OBVIOUS
    <3>1. n \in Streams /\ stream'[n] = Client!DroppedSource(n)
      BY <1>2 DEF Streams
    <3>2. CASE Client!DroppedSource(n) = stream[n]
      BY <2>1, <3>1, <3>2
    <3>3. CASE Client!DroppedSource(n) = [stream[n] EXCEPT !.taken = stream[n].put, !.end = "cut"]
      BY <2>1, <3>1, <3>3 DEF Ends
    <3> QED BY <3>2, <3>3 DEF Client!DroppedSource
  <2>3. \A n \in {"wireUp", "localDown"} :
          /\ stream'[n] \in [put : Nat, taken : Nat, end : Ends]
          /\ stream'[n].put = stream[n].put
          /\ stream'[n].taken = stream[n].taken
          /\ stream'[n].end = end[n] /\ end[n] \in {"fin", "cut"}
    BY <1>1, <1>2, <2>1, ClientStreams DEF Streams, Ends
  <2>4. \A n \in {"agentUp", "agentDown"} : stream'[n] = stream[n]
    BY <1>2 DEF Streams
  <2>5. StreamInv'
    BY <1>2, <2>1, <2>2, <2>3, <2>4, SystemAssumption DEF StreamInv, Streams, InFlight
  <2>6. /\ clientResult' = verdict
        /\ clientCopy' = [d \in Ways |-> "done"] /\ clientBuffer' = [d \in Ways |-> 0]
    BY ClientStreams DEF Client!EndsWith
  <2> QED BY <1>3, <2>1, <2>2, <2>3, <2>4, <2>5, <2>6 DEF Streams, Wire
LEMMA ServerLetsGo ==
  ASSUME StreamInv, NEW verdict, Server!EndsWith(verdict)
  PROVE  /\ StreamInv'
         /\ serverResult' = verdict
         /\ serverCopy' = [d \in Ways |-> "done"] /\ serverBuffer' = [d \in Ways |-> 0]
         /\ \A n \in Streams : /\ stream'[n].put = stream[n].put
                               /\ stream[n].taken <= stream'[n].taken
                               /\ stream[n].end # "open" => stream'[n].end # "open"
         /\ \A n \in Wire : stream'[n].end = "fin" => stream[n].end = "fin"
         /\ \A n \in {"localUp", "localDown"} : stream'[n] = stream[n]
         /\ stream'["wireDown"].taken = stream["wireDown"].taken
<1>1. PICK end \in [Server!Sinks -> {"fin", "cut"}] :
        /\ \A n \in Server!Sinks : end[n] \in Server!DroppedEnd(n)
        /\ stream' = [n \in DOMAIN stream |->
                        IF n \in Server!Sources THEN Server!DroppedSource(n)
                        ELSE IF n \in Server!Sinks THEN [stream[n] EXCEPT !.end = end[n]]
                        ELSE stream[n]]
  BY Zenon DEF Server!EndsWith, Server!Dropped
<1>2. /\ DOMAIN stream' = Streams /\ stream' = [n \in Streams |-> stream'[n]]
      /\ \A n \in Streams :
           stream'[n] = IF n \in {"wireUp", "agentDown"} THEN Server!DroppedSource(n)
                        ELSE IF n \in {"agentUp", "wireDown"} THEN [stream[n] EXCEPT !.end = end[n]]
                        ELSE stream[n]
  BY <1>1, ServerStreams DEF StreamInv
<1>3. end["wireDown"] = "fin" => stream["wireDown"].end = "fin"
  BY <1>1, ServerStreams DEF Server!DroppedEnd, Wire, StreamInv, Streams, Ends
<1> QED
  <2>1. \A n \in Streams :
          /\ stream[n] \in [put : Nat, taken : Nat, end : Ends]
          /\ stream[n].taken <= stream[n].put
    BY DEF StreamInv
  <2>2. \A n \in {"wireUp", "agentDown"} :
          /\ stream'[n] \in [put : Nat, taken : Nat, end : Ends]
          /\ stream'[n].put = stream[n].put
          /\ stream'[n].taken \in {stream[n].taken, stream[n].put}
          /\ stream'[n].end \in {stream[n].end, "cut"}
    <3> SUFFICES ASSUME NEW n \in {"wireUp", "agentDown"}
                 PROVE  /\ stream'[n] \in [put : Nat, taken : Nat, end : Ends]
                        /\ stream'[n].put = stream[n].put
                        /\ stream'[n].taken \in {stream[n].taken, stream[n].put}
                        /\ stream'[n].end \in {stream[n].end, "cut"}
      OBVIOUS
    <3>1. n \in Streams /\ stream'[n] = Server!DroppedSource(n)
      BY <1>2 DEF Streams
    <3>2. CASE Server!DroppedSource(n) = stream[n]
      BY <2>1, <3>1, <3>2
    <3>3. CASE Server!DroppedSource(n) = [stream[n] EXCEPT !.taken = stream[n].put, !.end = "cut"]
      BY <2>1, <3>1, <3>3 DEF Ends
    <3> QED BY <3>2, <3>3 DEF Server!DroppedSource
  <2>3. \A n \in {"agentUp", "wireDown"} :
          /\ stream'[n] \in [put : Nat, taken : Nat, end : Ends]
          /\ stream'[n].put = stream[n].put
          /\ stream'[n].taken = stream[n].taken
          /\ stream'[n].end = end[n] /\ end[n] \in {"fin", "cut"}
    BY <1>1, <1>2, <2>1, ServerStreams DEF Streams, Ends
  <2>4. \A n \in {"localUp", "localDown"} : stream'[n] = stream[n]
    BY <1>2 DEF Streams
  <2>5. StreamInv'
    BY <1>2, <2>1, <2>2, <2>3, <2>4, SystemAssumption DEF StreamInv, Streams, InFlight
  <2>6. /\ serverResult' = verdict
        /\ serverCopy' = [d \in Ways |-> "done"] /\ serverBuffer' = [d \in Ways |-> 0]
    BY ServerStreams DEF Server!EndsWith
  <2> QED BY <1>3, <2>1, <2>2, <2>3, <2>4, <2>5, <2>6 DEF Streams, Wire

-----------------------------------------------------------------------------
(***************************************************************************)
(* The inductive invariant.                                                *)
(***************************************************************************)

LEMMA InitIInv == Init => IInv
<1> SUFFICES ASSUME Init PROVE IInv
  OBVIOUS
<1>1. \A n \in Streams : stream[n] = [put |-> 0, taken |-> 0, end |-> "open"]
  BY DEF Init, Client!NewStream
<1>2. stream = [n \in Streams |-> [put |-> 0, taken |-> 0, end |-> "open"]]
  BY DEF Init, Client!NewStream
<1>3. StreamInv
  BY <1>1, <1>2, SystemAssumption DEF StreamInv, InFlight, Ends
<1>4. /\ clientCopy = [d \in Ways |-> "copying"] /\ clientBuffer = [d \in Ways |-> 0]
      /\ serverCopy = [d \in Ways |-> "copying"] /\ serverBuffer = [d \in Ways |-> 0]
      /\ clientResult = "idle" /\ serverResult = "idle"
  BY ClientStreams, ServerStreams DEF Init, Client!RelayInit, Server!RelayInit
<1>5. Client!RelayTypeOK /\ Server!RelayTypeOK
  BY <1>4, ClientStreams, ServerStreams, SystemAssumption
     DEF Client!RelayTypeOK, Server!RelayTypeOK
<1>6. TypeOK
  BY <1>1, <1>2, <1>5, SystemAssumption
     DEF Init, TypeOK, Attempts, Flights, Sessions, InFlight
<1>7. ControlInv
  BY <1>4, SystemAssumption DEF Init, ControlInv, Attempts
<1>8. BytesInv
  BY <1>1, <1>4 DEF BytesInv, HopInv, Hop, IdleInv, SealInv, Sealed, Streams, Ways, Whole
<1> QED BY <1>3, <1>6, <1>7, <1>8 DEF IInv

\* The bytes' invariant holds through every step the relays do not notice,
\* also when it is the step that starts one.
LEMMA InertBytes ==
  ASSUME IInv, StreamInv', Inert,
         UNCHANGED <<clientCopy, clientBuffer, serverCopy, serverBuffer>>,
         \/ clientResult' = clientResult
         \/ clientResult = "idle" /\ clientResult' = "running" /\ client \in Trying,
         \/ serverResult' = serverResult
         \/ serverResult = "idle" /\ serverResult' = "running",
         client' \in Trying => client \in Trying,
         reached # {} => reached' # {}
  PROVE  BytesInv'
<1>1. /\ clientBuffer \in [Ways -> Nat] /\ serverBuffer \in [Ways -> Nat]
  BY SystemAssumption, ClientStreams, ServerStreams
     DEF IInv, TypeOK, Client!RelayTypeOK, Server!RelayTypeOK
<1>2. \A n \in Streams : /\ stream[n].put \in Nat /\ stream[n].taken \in Nat
                         /\ stream'[n].put \in Nat /\ stream'[n].taken \in Nat
                         /\ stream'[n].taken <= stream'[n].put
                         /\ stream[n].taken <= stream[n].put
  BY DEF IInv, StreamInv
<1>3. HopInv /\ IdleInv /\ SealInv
  BY DEF IInv, BytesInv
<1>4. HopInv'
  <2>1. Hop("localUp", "wireUp", clientResult, clientCopy["up"], clientBuffer["up"])'
    <3>1. /\ stream'["localUp"].taken = stream["localUp"].taken
          /\ stream'["wireUp"].put = stream["wireUp"].put
          /\ stream["localUp"].end # "open" =>
               stream'["localUp"].end # "open" /\ stream'["localUp"].put = stream["localUp"].put
          /\ clientBuffer["up"] \in Nat
      BY <1>1 DEF Inert, Streams, Wire, Ways
    <3> QED BY <1>2, <1>3, <3>1 DEF HopInv, Hop, IdleInv, Streams, Whole
  <2>2. Hop("wireUp", "agentUp", serverResult, serverCopy["up"], serverBuffer["up"])'
    <3>1. /\ stream'["wireUp"].taken = stream["wireUp"].taken
          /\ stream'["agentUp"].put = stream["agentUp"].put
          /\ stream["wireUp"].end # "open" =>
               stream'["wireUp"].end # "open" /\ stream'["wireUp"].put = stream["wireUp"].put
          /\ serverBuffer["up"] \in Nat
      BY <1>1 DEF Inert, Streams, Wire, Ways
    <3> QED BY <1>2, <1>3, <3>1 DEF HopInv, Hop, IdleInv, Streams, Whole
  <2>3. Hop("agentDown", "wireDown", serverResult, serverCopy["down"], serverBuffer["down"])'
    <3>1. /\ stream'["agentDown"].taken = stream["agentDown"].taken
          /\ stream'["wireDown"].put = stream["wireDown"].put
          /\ stream["agentDown"].end # "open" =>
               stream'["agentDown"].end # "open" /\ stream'["agentDown"].put = stream["agentDown"].put
          /\ serverBuffer["down"] \in Nat
      BY <1>1 DEF Inert, Streams, Wire, Ways
    <3> QED BY <1>2, <1>3, <3>1 DEF HopInv, Hop, IdleInv, Streams, Whole
  <2>4. Hop("wireDown", "localDown", clientResult, clientCopy["down"], clientBuffer["down"])'
    <3>1. /\ stream'["wireDown"].taken = stream["wireDown"].taken
          /\ stream'["localDown"].put = stream["localDown"].put
          /\ stream["wireDown"].end # "open" =>
               stream'["wireDown"].end # "open" /\ stream'["wireDown"].put = stream["wireDown"].put
          /\ clientBuffer["down"] \in Nat
      BY <1>1 DEF Inert, Streams, Wire, Ways
    <3> QED BY <1>2, <1>3, <3>1 DEF HopInv, Hop, IdleInv, Streams, Whole
  <2> QED BY <2>1, <2>2, <2>3, <2>4 DEF HopInv
<1>5. IdleInv'
  BY <1>3 DEF IdleInv, Inert, Wire
<1>6. SealInv'
  BY <1>3 DEF SealInv, HopInv, Hop, Sealed, Inert, Streams, Wire, Whole
<1> QED BY <1>4, <1>5, <1>6 DEF BytesInv

\* The types of what the streams' invariant does not speak of.
Types ==
  /\ client \in {"connecting", "handshaking", "backoff", "relaying", "over"}
  /\ attempt \in Attempts /\ flight \in Flights /\ session \in [Attempts -> Sessions]
  /\ reached \subseteq Attempts /\ stopping \subseteq {"client", "server"}
  /\ faults \in 0..MaxFaults
  /\ Client!RelayTypeOK /\ Server!RelayTypeOK

LEMMA TypesOK == StreamInv /\ Types <=> StreamInv /\ TypeOK
BY SystemAssumption DEF StreamInv, Types, TypeOK, InFlight

LEMMA TypesNext ==
  ASSUME StreamInv', Types'
  PROVE  TypeOK'
BY SystemAssumption DEF StreamInv, Types, TypeOK, InFlight

\* The client's attempts, as long as it makes them, and what the network and
\* an administrator may do.
LEMMA AttemptIInv ==
  ASSUME IInv, TcpConnected \/ AttemptFails \/ Retry \/ HandshakeDone \/ Stop \/ Cut
  PROVE  IInv'
<1> USE DEF IInv, clientRelay, serverRelay
<1>1. StreamInv' /\ Inert
  <2>1. CASE UNCHANGED stream
    BY <2>1, StreamsStay
  <2>2. CASE stream' = [n \in Streams |-> IF n \in Wire THEN [stream[n] EXCEPT !.end = "cut"]
                                          ELSE stream[n]]
    BY <2>2, WireIsCut
  <2>3. HandshakeDone => \/ stream' = [n \in Streams |-> stream[n]]
                         \/ stream' = [n \in Streams |->
                                         IF n \in Wire THEN [stream[n] EXCEPT !.end = "cut"]
                                         ELSE stream[n]]
    BY DEF HandshakeDone
  <2>4. [n \in Streams |-> stream[n]] = stream
    BY DEF StreamInv
  <2>5. ~HandshakeDone => \/ UNCHANGED stream
                          \/ stream' = [n \in Streams |->
                                         IF n \in Wire THEN [stream[n] EXCEPT !.end = "cut"]
                                         ELSE stream[n]]
    BY DEF TcpConnected, AttemptFails, Retry, Stop, Cut
  <2> QED BY <2>1, <2>2, <2>3, <2>4, <2>5
<1>2. /\ UNCHANGED <<clientCopy, clientBuffer, serverCopy, serverBuffer, serverResult, reached>>
      /\ \/ clientResult' = clientResult
         \/ clientResult = "idle" /\ clientResult' = "running" /\ client \in Trying
      /\ client' \in Trying => client \in Trying
  BY DEF TcpConnected, AttemptFails, Retry, HandshakeDone, Stop, Cut, ControlInv, Trying
<1>3. BytesInv'
  BY <1>1, <1>2, InertBytes
<1>4. Types
  BY TypesOK
<1>5. CASE TcpConnected
  <2>1. Types'
    BY <1>4, <1>5 DEF TcpConnected, Types, Sessions, Client!RelayTypeOK, Server!RelayTypeOK
  <2>2. ControlInv'
    BY <1>4, <1>5 DEF TcpConnected, Types, ControlInv
  <2> QED BY <1>1, <1>3, <2>1, <2>2, TypesNext
<1>6. CASE AttemptFails
  <2>1. Types'
    BY <1>4, <1>6 DEF AttemptFails, Types, Flights, Client!RelayTypeOK, Server!RelayTypeOK
  <2>2. ControlInv'
    BY <1>4, <1>6 DEF AttemptFails, Types, ControlInv
  <2> QED BY <1>1, <1>3, <2>1, <2>2, TypesNext
<1>7. CASE Retry
  <2>1. Types'
    BY <1>4, <1>7, SystemAssumption
       DEF Retry, Types, Attempts, Client!RelayTypeOK, Server!RelayTypeOK
  <2>2. ControlInv'
    BY <1>4, <1>7, SystemAssumption DEF Retry, Types, Attempts, ControlInv
  <2> QED BY <1>1, <1>3, <2>1, <2>2, TypesNext
<1>8. CASE HandshakeDone
  <2>1. Types'
    BY <1>4, <1>8 DEF HandshakeDone, Types, Flights, Client!RelayTypeOK, Server!RelayTypeOK
  <2>2. ControlInv'
    BY <1>4, <1>8 DEF HandshakeDone, Types, ControlInv
  <2> QED BY <1>1, <1>3, <2>1, <2>2, TypesNext
<1>9. CASE Stop \/ Cut
  <2>1. /\ faults' = faults + 1 /\ faults < MaxFaults
        /\ UNCHANGED <<client, attempt, flight, session, reached, clientRelay, serverRelay>>
        /\ stopping' = stopping \/ \E who \in {"client", "server"} : stopping' = stopping \cup {who}
    BY <1>9 DEF Stop, Cut
  <2>2. Types'
    <3>1. faults' \in 0..MaxFaults
      BY <1>4, <2>1, SystemAssumption DEF Types
    <3>2. stopping' \subseteq {"client", "server"}
      BY <1>4, <2>1 DEF Types
    <3>3. Client!RelayTypeOK' /\ Server!RelayTypeOK'
      BY <1>4, <2>1 DEF Types, Client!RelayTypeOK, Server!RelayTypeOK
    <3> QED BY <1>4, <2>1, <3>1, <3>2, <3>3 DEF Types
  <2>3. ControlInv'
    BY <2>1 DEF ControlInv
  <2> QED BY <1>1, <1>3, <2>2, <2>3, TypesNext
<1> QED BY <1>5, <1>6, <1>7, <1>8, <1>9

\* A client that gives up drops the local stream, and touches no other.
LEMMA ClientGivesUp ==
  ASSUME StreamInv, GivesUp
  PROVE  /\ StreamInv'
         /\ \A n \in Streams : /\ stream'[n].put = stream[n].put
                               /\ stream[n].taken <= stream'[n].taken
                               /\ n # "localUp" => stream'[n].taken = stream[n].taken
                               /\ stream[n].end # "open" => stream'[n].end # "open"
         /\ \A n \in Wire : stream'[n].end = stream[n].end
<1>1. PICK end \in Client!DroppedEnd("localDown") :
        stream' = [stream EXCEPT !["localUp"] = Client!DroppedSource("localUp"),
                                 !["localDown"].end = end]
  BY DEF GivesUp
<1>2. end \in {"fin", "cut"}
  BY DEF Client!DroppedEnd
<1>3. \A n \in Streams :
        /\ stream[n] \in [put : Nat, taken : Nat, end : Ends]
        /\ stream[n].taken <= stream[n].put
  BY DEF StreamInv
<1>4. \A n \in Streams :
        stream'[n] = IF n = "localUp" THEN Client!DroppedSource("localUp")
                     ELSE IF n = "localDown" THEN [stream[n] EXCEPT !.end = end]
                     ELSE stream[n]
  BY <1>1 DEF StreamInv, Streams
<1>5. /\ Client!DroppedSource("localUp") \in [put : Nat, taken : Nat, end : Ends]
      /\ Client!DroppedSource("localUp").put = stream["localUp"].put
      /\ Client!DroppedSource("localUp").taken \in {stream["localUp"].taken, stream["localUp"].put}
      /\ Client!DroppedSource("localUp").end \in {stream["localUp"].end, "cut"}
  <2>1. CASE Client!DroppedSource("localUp") = stream["localUp"]
    BY <1>3, <2>1 DEF Streams
  <2>2. CASE Client!DroppedSource("localUp")
               = [stream["localUp"] EXCEPT !.taken = stream["localUp"].put, !.end = "cut"]
    BY <1>3, <2>2 DEF Ends, Streams
  <2> QED BY <2>1, <2>2 DEF Client!DroppedSource
<1>6. \A n \in Streams : /\ stream'[n] \in [put : Nat, taken : Nat, end : Ends]
                         /\ stream'[n].put = stream[n].put
                         /\ stream'[n].taken \in {stream[n].taken, stream[n].put}
                         /\ n # "localUp" => stream'[n].taken = stream[n].taken
                         /\ stream[n].end # "open" => stream'[n].end # "open"
                         /\ n \notin {"localUp", "localDown"} => stream'[n].end = stream[n].end
  <2> DEFINE Left(n) ==
        /\ stream'[n] \in [put : Nat, taken : Nat, end : Ends]
        /\ stream'[n].put = stream[n].put
        /\ stream'[n].taken \in {stream[n].taken, stream[n].put}
        /\ n # "localUp" => stream'[n].taken = stream[n].taken
        /\ stream[n].end # "open" => stream'[n].end # "open"
        /\ n \notin {"localUp", "localDown"} => stream'[n].end = stream[n].end
  <2>1. stream'["localUp"] = Client!DroppedSource("localUp")
    BY <1>4 DEF Streams
  <2>2. stream'["localDown"] = [stream["localDown"] EXCEPT !.end = end]
    BY <1>4 DEF Streams
  <2>3. \A n \in Streams : n \notin {"localUp", "localDown"} => stream'[n] = stream[n]
    BY <1>4
  <2>4. Left("localUp")
    BY <1>5, <2>1 DEF Ends
  <2>5. Left("localDown")
    <3>1. stream["localDown"] \in [put : Nat, taken : Nat, end : Ends]
      BY <1>3 DEF Streams
    <3> QED BY <1>2, <2>2, <3>1 DEF Ends
  <2>6. \A n \in Streams : n \notin {"localUp", "localDown"} => Left(n)
    BY <1>3, <2>3
  <2> HIDE DEF Left
  <2>7. \A n \in Streams : Left(n)
    BY <2>4, <2>5, <2>6
  <2> QED BY <2>7 DEF Left
<1>7. stream' = [n \in Streams |-> stream'[n]]
  BY <1>1 DEF StreamInv
<1>8. StreamInv'
  BY <1>3, <1>6, <1>7, SystemAssumption DEF StreamInv, InFlight
<1> QED BY <1>3, <1>6, <1>8 DEF Streams, Wire

\* A client that gives up has read nothing, and will not.
LEMMA GivesUpIInv ==
  ASSUME IInv, Rejected \/ BackoffEnds
  PROVE  IInv'
<1> USE DEF IInv, clientRelay, serverRelay
<1>1. /\ GivesUp
      /\ client \in {"handshaking", "backoff"} /\ client' = "over"
      /\ UNCHANGED <<attempt, flight, session, reached, stopping, faults, clientRelay, serverRelay>>
  BY DEF Rejected, BackoffEnds, GivesUp
<1>2. /\ StreamInv'
      /\ \A n \in Streams : /\ stream'[n].put = stream[n].put
                            /\ stream[n].taken <= stream'[n].taken
                            /\ n # "localUp" => stream'[n].taken = stream[n].taken
                            /\ stream[n].end # "open" => stream'[n].end # "open"
      /\ \A n \in Wire : stream'[n].end = stream[n].end
  BY <1>1, ClientGivesUp
<1>3. Types'
  BY <1>1, TypesOK DEF Types, Client!RelayTypeOK, Server!RelayTypeOK
<1>4. clientResult = "idle" /\ ControlInv'
  BY <1>1 DEF ControlInv
<1>5. /\ clientBuffer \in [Ways -> Nat] /\ serverBuffer \in [Ways -> Nat]
  BY SystemAssumption, ClientStreams, ServerStreams
     DEF TypeOK, Client!RelayTypeOK, Server!RelayTypeOK
<1>6. \A n \in Streams : /\ stream[n].put \in Nat /\ stream[n].taken \in Nat
                         /\ stream'[n].put \in Nat /\ stream'[n].taken \in Nat
  BY <1>2 DEF StreamInv
<1>7. HopInv'
  BY <1>1, <1>2, <1>4, <1>5, <1>6
     DEF BytesInv, HopInv, Hop, Streams, Wire, Ways, Whole
<1>8. IdleInv' /\ SealInv'
  BY <1>1, <1>2, <1>4
     DEF BytesInv, IdleInv, SealInv, Sealed, Streams, Wire, Trying, Whole
<1> QED BY <1>2, <1>3, <1>4, <1>7, <1>8, TypesNext DEF BytesInv

\* The server's side of an attempt, until its relay.
LEMMA SessionIInv ==
  ASSUME IInv, NEW a \in Attempts,
         \/ Accept(a) \/ Refuse(a) \/ HandshakeOk(a) \/ HandshakeFails(a)
         \/ AgentConnected(a) \/ AgentFails(a)
  PROVE  IInv'
<1> USE DEF IInv, ServerStep, clientRelay, serverRelay
<1>1. StreamInv' /\ Inert
  <2>1. \/ UNCHANGED stream
        \/ stream' = [n \in Streams |-> IF n \in Wire THEN [stream[n] EXCEPT !.end = "cut"]
                                       ELSE stream[n]]
    BY DEF Accept, Refuse, HandshakeOk, HandshakeFails, AgentConnected, AgentFails, Hangup
  <2> QED BY <2>1, StreamsStay, WireIsCut
<1>2. Types
  BY TypesOK
<1>3. /\ UNCHANGED <<client, attempt, stopping, faults, clientCopy, clientBuffer, clientResult>>
      /\ UNCHANGED <<serverCopy, serverBuffer>>
  BY DEF Accept, Refuse, HandshakeOk, HandshakeFails, AgentConnected, AgentFails
<1>4. CASE AgentConnected(a)
  <2>1. /\ session[a] = "agent" /\ session' = [session EXCEPT ![a] = "relaying"]
        /\ flight' = flight /\ reached' = reached \cup {a} /\ serverResult' = "running"
    BY <1>4 DEF AgentConnected
  <2>2. a = attempt /\ reached = {} /\ serverResult = "idle"
    BY <2>1 DEF ControlInv
  <2>3. BytesInv'
    BY <1>1, <1>3, <2>1, <2>2, InertBytes
  <2>4. Types'
    BY <1>2, <1>3, <2>1 DEF Types, Sessions, Client!RelayTypeOK, Server!RelayTypeOK
  <2>5. ControlInv'
    BY <1>2, <1>3, <2>1, <2>2 DEF Types, ControlInv
  <2> QED BY <1>1, <2>3, <2>4, <2>5, TypesNext
<1>5. CASE ~AgentConnected(a)
  <2>1. /\ session[a] \in {"backlog", "handshaking", "agent"}
        /\ \E s \in {"handshaking", "agent", "over"} :
             /\ session' = [session EXCEPT ![a] = s]
             /\ s = "agent" => a = attempt /\ flight = "finished"
        /\ \/ flight' = flight
           \/ flight' = "reply" /\ client = "handshaking"
        /\ UNCHANGED <<reached, serverResult>>
    BY <1>5 DEF Accept, Refuse, HandshakeOk, HandshakeFails, AgentFails, Hangup
  <2>2. BytesInv'
    BY <1>1, <1>3, <2>1, InertBytes
  <2>3. Types'
    BY <1>2, <1>3, <2>1
       DEF Types, Sessions, Flights, Client!RelayTypeOK, Server!RelayTypeOK
  <2>4. ControlInv'
    <3>1. PICK s \in {"handshaking", "agent", "over"} :
            /\ session' = [session EXCEPT ![a] = s]
            /\ s = "agent" => a = attempt /\ flight = "finished"
      BY <2>1
    <3>2. \A b \in Attempts : session'[b] = IF b = a THEN s ELSE session[b]
      BY <1>2, <3>1 DEF Types
    <3>3. attempt \in Attempts
      BY <1>2 DEF Types
    <3>4. flight' = "finished" <=> flight = "finished"
      BY <2>1 DEF ControlInv
    <3> QED BY <1>3, <2>1, <3>1, <3>2, <3>3, <3>4 DEF ControlInv
  <2> QED BY <1>1, <2>2, <2>3, <2>4, TypesNext
<1> QED BY <1>4, <1>5

\* What the programs at the ends do to their streams.
LEMMA ProgramIInv ==
  ASSUME IInv, LocalProgram \/ Agent
  PROVE  IInv'
<1> USE DEF IInv
<1>1. /\ UNCHANGED <<client, attempt, flight, session, reached, stopping, faults>>
      /\ UNCHANGED <<clientCopy, clientBuffer, clientResult, serverCopy, serverBuffer, serverResult>>
  BY DEF LocalProgram, Agent, Says, StopsSaying, Hears, Leaves, Program,
         control, clientRelay, serverRelay
<1>2. StreamInv' /\ Inert
  <2>1. ASSUME NEW n \in {"localUp", "agentDown"}, NEW limit, Says(n, limit)
        PROVE  StreamInv' /\ Inert
    <3>1. n \in Streams /\ stream[n].end = "open" /\ InFlight(n) < StreamSize
          /\ stream' = [stream EXCEPT ![n].put = @ + 1]
      BY <2>1 DEF Says, Program, Streams
    <3> QED BY <3>1, StreamPut DEF Inert, Streams, Wire
  <2>2. ASSUME NEW n \in {"localUp", "agentDown"}, StopsSaying(n)
        PROVE  StreamInv' /\ Inert
    <3>1. n \in Streams /\ stream' = [stream EXCEPT ![n].end = "fin"] /\ "fin" \in Ends
      BY <2>2 DEF StopsSaying, Program, Streams, Ends
    <3>2. /\ StreamInv'
          /\ \A m \in Streams : stream'[m].put = stream[m].put /\ stream'[m].taken = stream[m].taken
          /\ \A m \in Streams : m # n => stream'[m] = stream[m]
          /\ stream'[n].end = "fin"
      BY <3>1, StreamEnds
    <3> QED BY <3>2 DEF Inert, Streams, Wire
  <2>3. ASSUME NEW n \in {"localDown", "agentUp"}, Hears(n)
        PROVE  StreamInv' /\ Inert
    <3>1. n \in Streams /\ InFlight(n) > 0 /\ stream' = [stream EXCEPT ![n].taken = @ + 1]
      BY <2>3 DEF Hears, Program, Streams
    <3> QED BY <3>1, StreamTaken DEF Inert, Streams, Wire
  <2>4. ASSUME NEW in \in {"localDown", "agentUp"}, NEW out \in {"localUp", "agentDown"},
               Leaves(in, out)
        PROVE  StreamInv' /\ Inert
    <3>1. in \in Streams /\ out \in Streams /\ in # out
      BY DEF Streams
    <3> DEFINE end == IF InFlight(in) > 0 THEN "cut"
                      ELSE IF stream[out].end = "open" THEN "fin" ELSE stream[out].end
    <3>2. stream' = [stream EXCEPT ![in] = [@ EXCEPT !.taken = stream[in].put, !.end = "cut"],
                                   ![out].end = end]
      BY <2>4, <3>1 DEF Leaves, Program, StreamInv
    <3>3. end \in Ends /\ end # "open"
      BY <3>1 DEF StreamInv, Ends
    <3> HIDE DEF end
    <3>4. \A n \in Streams :
            stream'[n] = IF n = in THEN [stream[n] EXCEPT !.taken = stream[n].put, !.end = "cut"]
                         ELSE IF n = out THEN [stream[n] EXCEPT !.end = end] ELSE stream[n]
      BY <3>1, <3>2 DEF StreamInv
    <3>5. \A n \in Streams : /\ stream[n] \in [put : Nat, taken : Nat, end : Ends]
                             /\ stream[n].taken <= stream[n].put
      BY DEF StreamInv
    <3>6. \A n \in Streams : /\ stream'[n] \in [put : Nat, taken : Nat, end : Ends]
                             /\ stream'[n].put = stream[n].put
                             /\ stream'[n].taken \in {stream[n].taken, stream[n].put}
                             /\ n # in => stream'[n].taken = stream[n].taken
                             /\ stream[n].end # "open" => stream'[n].end # "open"
                             /\ n \notin {in, out} => stream'[n].end = stream[n].end
      <4>1. stream'[in] = [put |-> stream[in].put, taken |-> stream[in].put, end |-> "cut"]
        BY <3>1, <3>4, <3>5
      <4>2. stream'[out] = [put |-> stream[out].put, taken |-> stream[out].taken, end |-> end]
        BY <3>1, <3>4, <3>5
      <4>3. \A n \in Streams : n \notin {in, out} => stream'[n] = stream[n]
        BY <3>4
      <4> DEFINE Left(n) ==
            /\ stream'[n] \in [put : Nat, taken : Nat, end : Ends]
            /\ stream'[n].put = stream[n].put
            /\ stream'[n].taken \in {stream[n].taken, stream[n].put}
            /\ n # in => stream'[n].taken = stream[n].taken
            /\ stream[n].end # "open" => stream'[n].end # "open"
            /\ n \notin {in, out} => stream'[n].end = stream[n].end
      <4>4. Left(in)
        BY <3>1, <3>5, <4>1 DEF Ends
      <4>5. Left(out)
        BY <3>1, <3>3, <3>5, <4>2
      <4>6. \A n \in Streams : n \notin {in, out} => Left(n)
        BY <3>5, <4>3
      <4> HIDE DEF Left
      <4>7. \A n \in Streams : Left(n)
        BY <4>4, <4>5, <4>6
      <4> QED BY <4>7 DEF Left
    <3>7. stream' = [n \in Streams |-> stream'[n]]
      BY <3>2 DEF StreamInv
    <3>8. StreamInv'
      BY <3>5, <3>6, <3>7, SystemAssumption DEF StreamInv, InFlight
    <3> QED BY <3>6, <3>8 DEF Inert, Streams, Wire
  <2> QED BY <2>1, <2>2, <2>3, <2>4 DEF LocalProgram, Agent
<1>3. BytesInv'
  BY <1>1, <1>2, InertBytes
<1>4. Types'
  BY <1>1, TypesOK DEF Types, Client!RelayTypeOK, Server!RelayTypeOK
<1>5. ControlInv'
  BY <1>1 DEF ControlInv
<1> QED BY <1>2, <1>3, <1>4, <1>5, TypesNext

LEMMA RelayTypes ==
  ASSUME IInv
  PROVE  /\ clientBuffer \in [Ways -> Nat] /\ serverBuffer \in [Ways -> Nat]
         /\ DOMAIN clientCopy = Ways /\ DOMAIN serverCopy = Ways
         /\ \A n \in Streams : stream[n].put \in Nat /\ stream[n].taken \in Nat
         /\ HopInv /\ IdleInv /\ SealInv
BY SystemAssumption, ClientStreams, ServerStreams
   DEF IInv, BytesInv, StreamInv, TypeOK, Client!RelayTypeOK, Server!RelayTypeOK

\* The client's relay: its end, and its directions.
LEMMA ClientEndIInv ==
  ASSUME IInv, ClientEnd,
         UNCHANGED <<attempt, flight, session, reached, stopping, faults, serverRelay>>,
         clientResult = "running",
         \/ Client!EndsWith("failed") \/ Client!EndsWith("cancelled") \/ Client!Finish
  PROVE  IInv'
<1> USE DEF IInv, serverRelay
<1>1. CASE Client!EndsWith("failed") \/ Client!EndsWith("cancelled")
  <2>1. PICK verdict \in {"failed", "cancelled"} : Client!EndsWith(verdict)
    BY <1>1
  <2>2. client' = "over" /\ clientResult' = verdict /\ StreamInv'
    BY <2>1, ClientLetsGo DEF ClientEnd
  <2>3. ControlInv'
    BY <2>2 DEF ControlInv
  <2>4. Types'
    <3>1. Client!RelayTypeOK'
      BY <2>1, <2>2, ClientLetsGo, ClientStreams, SystemAssumption DEF Client!RelayTypeOK
    <3> QED BY <2>2, <3>1, TypesOK DEF Types, Server!RelayTypeOK
  <2>5. \A n \in Streams : stream'[n].put \in Nat /\ stream'[n].taken \in Nat
    BY <2>2 DEF StreamInv
  <2>6. HopInv'
    BY <2>1, <2>2, <2>5, ClientLetsGo, RelayTypes
       DEF HopInv, Hop, Streams, Wire, Ways, Whole
  <2>7. IdleInv' /\ SealInv'
    BY <2>1, <2>2, ClientLetsGo, RelayTypes
       DEF IdleInv, SealInv, Sealed, HopInv, Hop, Streams, Wire, Ways, Whole, Trying
  <2> QED BY <2>2, <2>3, <2>4, <2>6, <2>7, TypesNext DEF BytesInv
<1>2. CASE Client!Finish
  <2>1. /\ clientResult' = "ok" /\ client' = "over"
        /\ clientCopy["up"] = "done" /\ clientCopy["down"] = "done"
        /\ UNCHANGED <<stream, clientCopy, clientBuffer>>
    BY <1>2, ClientStreams DEF Client!Finish, ClientEnd, Ways
  <2>2. StreamInv'
    BY <2>1, StreamsStay
  <2>3. ControlInv'
    BY <2>1 DEF ControlInv
  <2>4. Types'
    BY <2>1, TypesOK DEF Types, Client!RelayTypeOK, Server!RelayTypeOK
  <2>5. BytesInv'
    BY <2>1, RelayTypes
       DEF BytesInv, HopInv, Hop, IdleInv, SealInv, Sealed, Whole, Trying
  <2> QED BY <2>2, <2>3, <2>4, <2>5, TypesNext
<1> QED BY <1>1, <1>2

LEMMA ClientRelayIInv ==
  ASSUME IInv, NEW d \in Ways, ClientRelays(d)
  PROVE  IInv'
<1> USE DEF IInv, serverRelay
<1>1. /\ UNCHANGED <<attempt, flight, session, reached, stopping, faults, serverRelay>>
      /\ ClientEnd /\ clientResult = "running"
  BY DEF ClientRelays, Client!Transfer, Client!Read, Client!Write, Client!SourceEnds,
         Client!Shut, Client!ReadFails, Client!WriteFails
<1> DEFINE s == [up |-> "localUp", down |-> "wireDown"][d]
           t == [up |-> "wireUp", down |-> "localDown"][d]
<1>2. /\ d = "up" => s = "localUp" /\ t = "wireUp"
      /\ d = "down" => s = "wireDown" /\ t = "localDown"
      /\ (d = "up" \/ d = "down") /\ s \in Streams /\ t \in Streams
  BY DEF Ways, Streams
<1> HIDE DEF s, t
<1>3. CASE Client!ReadFails(d) \/ Client!WriteFails(d)
  BY <1>1, <1>3, ClientEndIInv DEF Client!ReadFails, Client!WriteFails
<1>4. ASSUME clientResult' = "running", StreamInv', Client!RelayTypeOK'
      PROVE  ControlInv' /\ TypeOK' /\ client' = client
  <2>1. client' = client
    BY <1>1, <1>4 DEF ClientEnd
  <2>2. Types'
    BY <1>1, <1>4, <2>1, TypesOK DEF Types, Server!RelayTypeOK
  <2> QED BY <1>1, <1>4, <2>1, <2>2, TypesNext DEF ControlInv
<1>5. \A e \in Ways : clientBuffer[e] \in 0..BufferSize
      /\ clientCopy[e] \in {"copying", "shutting", "done"}
  BY ClientStreams DEF TypeOK, Client!RelayTypeOK
<1>6. CASE Client!Read(d)
  <2>1. /\ clientCopy[d] = "copying" /\ clientBuffer[d] < BufferSize
        /\ stream' = [stream EXCEPT ![s].taken = @ + 1] /\ InFlight(s) > 0
        /\ clientBuffer' = [clientBuffer EXCEPT ![d] = @ + 1]
        /\ UNCHANGED <<clientCopy, clientResult>>
    BY <1>6 DEF Client!Read, Client!InFlight, InFlight, s
  <2>2. StreamInv'
    BY <1>2, <2>1, StreamTaken
  <2>3. Client!RelayTypeOK'
    BY <1>5, <2>1, ClientStreams, SystemAssumption DEF TypeOK, Client!RelayTypeOK
  <2>4. HopInv'
    <3>1. \A n \in Streams :
            /\ stream'[n].put = stream[n].put /\ stream'[n].end = stream[n].end
            /\ stream'[n].taken = IF n = s THEN stream[n].taken + 1 ELSE stream[n].taken
      <4>1. /\ \A n \in Streams : stream'[n].put = stream[n].put /\ stream'[n].end = stream[n].end
            /\ \A n \in Streams : n # s => stream'[n] = stream[n]
            /\ stream'[s].taken = stream[s].taken + 1
        BY <1>2, <2>1, StreamTaken
      <4> QED BY <4>1
    <3>2. \A e \in Ways :
            clientBuffer'[e] = IF e = d THEN clientBuffer[e] + 1 ELSE clientBuffer[e]
      BY <2>1, RelayTypes
    <3>3. CASE d = "up"
      BY <1>1, <1>2, <2>1, <3>1, <3>2, <3>3, RelayTypes
         DEF HopInv, Hop, Streams, Ways, Whole
    <3>4. CASE d = "down"
      BY <1>1, <1>2, <2>1, <3>1, <3>2, <3>4, RelayTypes
         DEF HopInv, Hop, Streams, Ways, Whole
    <3> QED BY <1>2, <3>3, <3>4
  <2>5. IdleInv' /\ SealInv'
    BY <1>1, <1>2, <1>4, <2>1, <2>2, <2>3, StreamTaken, RelayTypes
       DEF ControlInv, IdleInv, SealInv, Sealed, Streams, Ways, Whole, Trying
  <2> QED BY <1>1, <1>4, <2>1, <2>2, <2>3, <2>4, <2>5 DEF BytesInv
<1>7. CASE Client!Write(d)
  <2>1. /\ clientBuffer[d] > 0 /\ stream[t].end = "open" /\ InFlight(t) < StreamSize
        /\ stream' = [stream EXCEPT ![t].put = @ + 1]
        /\ clientBuffer' = [clientBuffer EXCEPT ![d] = @ - 1]
        /\ UNCHANGED <<clientCopy, clientResult>>
    BY <1>7 DEF Client!Write, Client!InFlight, InFlight, t
  <2>2. StreamInv'
    BY <1>2, <2>1, StreamPut
  <2>3. Client!RelayTypeOK'
    BY <1>5, <2>1, ClientStreams, SystemAssumption DEF TypeOK, Client!RelayTypeOK
  <2>4. HopInv'
    <3>1. \A n \in Streams :
            /\ stream'[n].taken = stream[n].taken /\ stream'[n].end = stream[n].end
            /\ stream'[n].put = IF n = t THEN stream[n].put + 1 ELSE stream[n].put
      <4>1. /\ \A n \in Streams : stream'[n].taken = stream[n].taken /\ stream'[n].end = stream[n].end
            /\ \A n \in Streams : n # t => stream'[n] = stream[n]
            /\ stream'[t].put = stream[t].put + 1
        BY <1>2, <2>1, StreamPut
      <4> QED BY <4>1
    <3>2. \A e \in Ways :
            clientBuffer'[e] = IF e = d THEN clientBuffer[e] - 1 ELSE clientBuffer[e]
      BY <2>1, RelayTypes
    <3>3. CASE d = "up"
      BY <1>1, <1>2, <2>1, <3>1, <3>2, <3>3, RelayTypes
         DEF HopInv, Hop, Streams, Ways, Whole
    <3>4. CASE d = "down"
      BY <1>1, <1>2, <2>1, <3>1, <3>2, <3>4, RelayTypes
         DEF HopInv, Hop, Streams, Ways, Whole
    <3> QED BY <1>2, <3>3, <3>4
  <2>5. IdleInv' /\ SealInv'
    BY <1>1, <1>2, <1>4, <2>1, <2>2, <2>3, StreamPut, RelayTypes
       DEF ControlInv, IdleInv, SealInv, Sealed, Streams, Ways, Whole, Trying
  <2> QED BY <1>1, <1>4, <2>1, <2>2, <2>3, <2>4, <2>5 DEF BytesInv
<1>8. CASE Client!SourceEnds(d)
  <2>1. /\ clientCopy[d] = "copying" /\ InFlight(s) = 0 /\ stream[s].end = "fin"
        /\ clientCopy' = [clientCopy EXCEPT ![d] = "shutting"]
        /\ UNCHANGED <<stream, clientBuffer, clientResult>>
    BY <1>8 DEF Client!SourceEnds, Client!InFlight, InFlight, s
  <2>2. StreamInv'
    BY <2>1, StreamsStay
  <2>3. Client!RelayTypeOK'
    BY <2>1, ClientStreams DEF TypeOK, Client!RelayTypeOK
  <2>4. HopInv'
    BY <1>1, <1>2, <2>1, RelayTypes DEF HopInv, Hop, InFlight, Streams, Ways, Whole
  <2>5. IdleInv' /\ SealInv'
    BY <1>1, <1>2, <1>4, <2>1, <2>2, <2>3, RelayTypes
       DEF IdleInv, SealInv, Sealed, Streams, Ways, Whole, Trying
  <2> QED BY <1>1, <1>4, <2>1, <2>2, <2>3, <2>4, <2>5 DEF BytesInv
<1>9. CASE Client!Shut(d)
  <2> DEFINE end == IF stream[t].end = "open" THEN "fin" ELSE stream[t].end
  <2>1. /\ clientCopy[d] = "shutting" /\ clientBuffer[d] = 0
        /\ clientCopy' = [clientCopy EXCEPT ![d] = "done"]
        /\ stream' = [stream EXCEPT ![t].end = end]
        /\ UNCHANGED <<clientBuffer, clientResult>>
    BY <1>9 DEF Client!Shut, t
  <2>2. end \in Ends /\ end # "open" /\ (stream[t].end # "open" => end = stream[t].end)
    BY <1>2 DEF StreamInv, Ends
  <2> HIDE DEF end
  <2>3. StreamInv'
    BY <1>2, <2>1, <2>2, StreamEnds
  <2>4. Client!RelayTypeOK'
    BY <2>1, ClientStreams DEF TypeOK, Client!RelayTypeOK
  <2>5. HopInv'
    BY <1>1, <1>2, <2>1, <2>2, StreamEnds, RelayTypes
       DEF HopInv, Hop, Streams, Ways, Whole
  <2>6. IdleInv' /\ SealInv'
    <3>1. /\ \A m \in Streams : stream'[m].put = stream[m].put /\ stream'[m].taken = stream[m].taken
          /\ \A m \in Streams : m # t => stream'[m] = stream[m]
          /\ stream'[t].end = end
      BY <1>2, <2>1, <2>2, StreamEnds
    <3>2. clientResult' = "running" /\ client' = client
      BY <1>1, <1>4, <2>1, <2>3, <2>4
    <3>3. IdleInv'
      BY <1>1, <3>1, <3>2 DEF BytesInv, IdleInv, Streams, Trying
    <3>4. SealInv'
      <4>1. CASE d = "up"
        BY <1>1, <1>2, <2>1, <2>2, <3>1, <4>1, RelayTypes
           DEF BytesInv, SealInv, Sealed, HopInv, Hop, Streams, Ways, Whole
      <4>2. CASE d = "down"
        BY <1>1, <1>2, <2>1, <2>2, <3>1, <4>2, RelayTypes
           DEF BytesInv, SealInv, Sealed, HopInv, Hop, Streams, Ways, Whole
      <4> QED BY <1>2, <4>1, <4>2
    <3> QED BY <3>3, <3>4
  <2> QED BY <1>1, <1>4, <2>1, <2>3, <2>4, <2>5, <2>6 DEF BytesInv
<1> QED BY <1>3, <1>6, <1>7, <1>8, <1>9 DEF ClientRelays, Client!Transfer

\* The server's relay.
LEMMA ServerEndIInv ==
  ASSUME IInv, ServerEnd, ServerStep,
         UNCHANGED <<client, attempt, flight, reached, stopping, faults, clientRelay>>,
         serverResult = "running",
         \/ Server!EndsWith("failed") \/ Server!EndsWith("cancelled") \/ Server!Finish
  PROVE  IInv'
<1> USE DEF IInv, clientRelay
<1>1. session' = [session EXCEPT ![attempt] = "over"] /\ session[attempt] = "relaying"
  <2>1. serverResult' # "running"
    BY ServerLetsGo DEF Server!Finish
  <2>2. \A a \in Attempts : session[a] = "relaying" <=> a = attempt
    BY DEF ControlInv, TypeOK
  <2>3. session' = [a \in Attempts |-> IF session[a] = "relaying" THEN "over" ELSE session[a]]
    BY <2>1 DEF ServerEnd
  <2> QED BY <2>2, <2>3 DEF TypeOK
<1>2. attempt \in Attempts /\ session \in [Attempts -> Sessions]
  BY DEF TypeOK
<1>3. session' \in [Attempts -> Sessions]
  BY <1>1, <1>2 DEF Sessions
<1>4. CASE Server!EndsWith("failed") \/ Server!EndsWith("cancelled")
  <2>1. PICK verdict \in {"failed", "cancelled"} : Server!EndsWith(verdict)
    BY <1>4
  <2>2. serverResult' = verdict /\ StreamInv'
    BY <2>1, ServerLetsGo DEF ServerEnd
  <2>3. ControlInv'
    BY <1>1, <1>2, <2>2 DEF ControlInv
  <2>4. Types'
    <3>1. Server!RelayTypeOK'
      BY <2>1, <2>2, ServerLetsGo, ServerStreams, SystemAssumption DEF Server!RelayTypeOK
    <3> QED BY <1>3, <2>2, <3>1, TypesOK DEF Types, Client!RelayTypeOK
  <2>5. \A n \in Streams : stream'[n].put \in Nat /\ stream'[n].taken \in Nat
    BY <2>2 DEF StreamInv
  <2>6. HopInv'
    BY <2>1, <2>2, <2>5, ServerLetsGo, RelayTypes
       DEF HopInv, Hop, Streams, Wire, Ways, Whole
  <2>7. IdleInv' /\ SealInv'
    BY <2>1, <2>2, ServerLetsGo, RelayTypes
       DEF IdleInv, SealInv, Sealed, HopInv, Hop, Streams, Wire, Ways, Whole, Trying
  <2> QED BY <2>2, <2>3, <2>4, <2>6, <2>7, TypesNext DEF BytesInv
<1>5. CASE Server!Finish
  <2>1. /\ serverResult' = "ok"
        /\ serverCopy["up"] = "done" /\ serverCopy["down"] = "done"
        /\ UNCHANGED <<stream, serverCopy, serverBuffer>>
    BY <1>5, ServerStreams DEF Server!Finish, ServerEnd, Ways
  <2>2. StreamInv'
    BY <2>1, StreamsStay
  <2>3. ControlInv'
    BY <1>1, <1>2, <2>1 DEF ControlInv
  <2>4. Types'
    BY <1>3, <2>1, TypesOK DEF Types, Client!RelayTypeOK, Server!RelayTypeOK
  <2>5. BytesInv'
    BY <2>1, RelayTypes
       DEF BytesInv, HopInv, Hop, IdleInv, SealInv, Sealed, Whole, Trying
  <2> QED BY <2>2, <2>3, <2>4, <2>5, TypesNext
<1> QED BY <1>4, <1>5

LEMMA ServerRelayIInv ==
  ASSUME IInv, NEW d \in Ways, ServerRelays(d)
  PROVE  IInv'
<1> USE DEF IInv, clientRelay
<1>1. /\ UNCHANGED <<client, attempt, flight, reached, stopping, faults, clientRelay>>
      /\ ServerEnd /\ ServerStep /\ serverResult = "running"
  BY DEF ServerRelays, Server!Transfer, Server!Read, Server!Write, Server!SourceEnds,
         Server!Shut, Server!ReadFails, Server!WriteFails, ServerEnd, ServerStep
<1> DEFINE s == [up |-> "wireUp", down |-> "agentDown"][d]
           t == [up |-> "agentUp", down |-> "wireDown"][d]
<1>2. /\ d = "up" => s = "wireUp" /\ t = "agentUp"
      /\ d = "down" => s = "agentDown" /\ t = "wireDown"
      /\ (d = "up" \/ d = "down") /\ s \in Streams /\ t \in Streams
  BY DEF Ways, Streams
<1> HIDE DEF s, t
<1>3. CASE Server!ReadFails(d) \/ Server!WriteFails(d)
  BY <1>1, <1>3, ServerEndIInv DEF Server!ReadFails, Server!WriteFails
<1>4. ASSUME serverResult' = "running", StreamInv', Server!RelayTypeOK'
      PROVE  ControlInv' /\ TypeOK' /\ session' = session
  <2>1. session' = session
    BY <1>1, <1>4 DEF ServerEnd, TypeOK
  <2>2. Types'
    BY <1>1, <1>4, <2>1, TypesOK DEF Types, Client!RelayTypeOK
  <2> QED BY <1>1, <1>4, <2>1, <2>2, TypesNext DEF ControlInv
<1>5. \A e \in Ways : serverBuffer[e] \in 0..BufferSize
      /\ serverCopy[e] \in {"copying", "shutting", "done"}
  BY ServerStreams DEF TypeOK, Server!RelayTypeOK
<1>6. CASE Server!Read(d)
  <2>1. /\ serverCopy[d] = "copying" /\ serverBuffer[d] < BufferSize
        /\ stream' = [stream EXCEPT ![s].taken = @ + 1] /\ InFlight(s) > 0
        /\ serverBuffer' = [serverBuffer EXCEPT ![d] = @ + 1]
        /\ UNCHANGED <<serverCopy, serverResult>>
    BY <1>6 DEF Server!Read, Server!InFlight, InFlight, s
  <2>2. StreamInv'
    BY <1>2, <2>1, StreamTaken
  <2>3. Server!RelayTypeOK'
    BY <1>5, <2>1, ServerStreams, SystemAssumption DEF TypeOK, Server!RelayTypeOK
  <2>4. HopInv'
    <3>1. \A n \in Streams :
            /\ stream'[n].put = stream[n].put /\ stream'[n].end = stream[n].end
            /\ stream'[n].taken = IF n = s THEN stream[n].taken + 1 ELSE stream[n].taken
      <4>1. /\ \A n \in Streams : stream'[n].put = stream[n].put /\ stream'[n].end = stream[n].end
            /\ \A n \in Streams : n # s => stream'[n] = stream[n]
            /\ stream'[s].taken = stream[s].taken + 1
        BY <1>2, <2>1, StreamTaken
      <4> QED BY <4>1
    <3>2. \A e \in Ways :
            serverBuffer'[e] = IF e = d THEN serverBuffer[e] + 1 ELSE serverBuffer[e]
      BY <2>1, RelayTypes
    <3>3. CASE d = "up"
      BY <1>1, <1>2, <2>1, <3>1, <3>2, <3>3, RelayTypes
         DEF HopInv, Hop, Streams, Ways, Whole
    <3>4. CASE d = "down"
      BY <1>1, <1>2, <2>1, <3>1, <3>2, <3>4, RelayTypes
         DEF HopInv, Hop, Streams, Ways, Whole
    <3> QED BY <1>2, <3>3, <3>4
  <2>5. IdleInv' /\ SealInv'
    BY <1>1, <1>2, <1>4, <2>1, <2>2, <2>3, StreamTaken, RelayTypes
       DEF ControlInv, IdleInv, SealInv, Sealed, Streams, Ways, Whole, Trying
  <2> QED BY <1>1, <1>4, <2>1, <2>2, <2>3, <2>4, <2>5 DEF BytesInv
<1>7. CASE Server!Write(d)
  <2>1. /\ serverBuffer[d] > 0 /\ stream[t].end = "open" /\ InFlight(t) < StreamSize
        /\ stream' = [stream EXCEPT ![t].put = @ + 1]
        /\ serverBuffer' = [serverBuffer EXCEPT ![d] = @ - 1]
        /\ UNCHANGED <<serverCopy, serverResult>>
    BY <1>7 DEF Server!Write, Server!InFlight, InFlight, t
  <2>2. StreamInv'
    BY <1>2, <2>1, StreamPut
  <2>3. Server!RelayTypeOK'
    BY <1>5, <2>1, ServerStreams, SystemAssumption DEF TypeOK, Server!RelayTypeOK
  <2>4. HopInv'
    <3>1. \A n \in Streams :
            /\ stream'[n].taken = stream[n].taken /\ stream'[n].end = stream[n].end
            /\ stream'[n].put = IF n = t THEN stream[n].put + 1 ELSE stream[n].put
      <4>1. /\ \A n \in Streams : stream'[n].taken = stream[n].taken /\ stream'[n].end = stream[n].end
            /\ \A n \in Streams : n # t => stream'[n] = stream[n]
            /\ stream'[t].put = stream[t].put + 1
        BY <1>2, <2>1, StreamPut
      <4> QED BY <4>1
    <3>2. \A e \in Ways :
            serverBuffer'[e] = IF e = d THEN serverBuffer[e] - 1 ELSE serverBuffer[e]
      BY <2>1, RelayTypes
    <3>3. CASE d = "up"
      BY <1>1, <1>2, <2>1, <3>1, <3>2, <3>3, RelayTypes
         DEF HopInv, Hop, Streams, Ways, Whole
    <3>4. CASE d = "down"
      BY <1>1, <1>2, <2>1, <3>1, <3>2, <3>4, RelayTypes
         DEF HopInv, Hop, Streams, Ways, Whole
    <3> QED BY <1>2, <3>3, <3>4
  <2>5. IdleInv' /\ SealInv'
    BY <1>1, <1>2, <1>4, <2>1, <2>2, <2>3, StreamPut, RelayTypes
       DEF ControlInv, IdleInv, SealInv, Sealed, Streams, Ways, Whole, Trying
  <2> QED BY <1>1, <1>4, <2>1, <2>2, <2>3, <2>4, <2>5 DEF BytesInv
<1>8. CASE Server!SourceEnds(d)
  <2>1. /\ serverCopy[d] = "copying" /\ InFlight(s) = 0 /\ stream[s].end = "fin"
        /\ serverCopy' = [serverCopy EXCEPT ![d] = "shutting"]
        /\ UNCHANGED <<stream, serverBuffer, serverResult>>
    BY <1>8 DEF Server!SourceEnds, Server!InFlight, InFlight, s
  <2>2. StreamInv'
    BY <2>1, StreamsStay
  <2>3. Server!RelayTypeOK'
    BY <2>1, ServerStreams DEF TypeOK, Server!RelayTypeOK
  <2>4. HopInv'
    BY <1>1, <1>2, <2>1, RelayTypes DEF HopInv, Hop, InFlight, Streams, Ways, Whole
  <2>5. IdleInv' /\ SealInv'
    BY <1>1, <1>2, <1>4, <2>1, <2>2, <2>3, RelayTypes
       DEF IdleInv, SealInv, Sealed, Streams, Ways, Whole, Trying
  <2> QED BY <1>1, <1>4, <2>1, <2>2, <2>3, <2>4, <2>5 DEF BytesInv
<1>9. CASE Server!Shut(d)
  <2> DEFINE end == IF stream[t].end = "open" THEN "fin" ELSE stream[t].end
  <2>1. /\ serverCopy[d] = "shutting" /\ serverBuffer[d] = 0
        /\ serverCopy' = [serverCopy EXCEPT ![d] = "done"]
        /\ stream' = [stream EXCEPT ![t].end = end]
        /\ UNCHANGED <<serverBuffer, serverResult>>
    BY <1>9 DEF Server!Shut, t
  <2>2. end \in Ends /\ end # "open" /\ (stream[t].end # "open" => end = stream[t].end)
    BY <1>2 DEF StreamInv, Ends
  <2> HIDE DEF end
  <2>3. StreamInv'
    BY <1>2, <2>1, <2>2, StreamEnds
  <2>4. Server!RelayTypeOK'
    BY <2>1, ServerStreams DEF TypeOK, Server!RelayTypeOK
  <2>5. HopInv'
    BY <1>1, <1>2, <2>1, <2>2, StreamEnds, RelayTypes
       DEF HopInv, Hop, Streams, Ways, Whole
  <2>6. IdleInv' /\ SealInv'
    <3>1. /\ \A m \in Streams : stream'[m].put = stream[m].put /\ stream'[m].taken = stream[m].taken
          /\ \A m \in Streams : m # t => stream'[m] = stream[m]
          /\ stream'[t].end = end
      BY <1>2, <2>1, <2>2, StreamEnds
    <3>2. IdleInv'
      BY <1>1, <2>1, <3>1 DEF BytesInv, IdleInv, Streams, Trying
    <3>3. SealInv'
      <4>1. CASE d = "up"
        BY <1>1, <1>2, <2>1, <2>2, <3>1, <4>1, RelayTypes
           DEF BytesInv, SealInv, Sealed, HopInv, Hop, Streams, Ways, Whole
      <4>2. CASE d = "down"
        BY <1>1, <1>2, <2>1, <2>2, <3>1, <4>2, RelayTypes
           DEF BytesInv, ControlInv, SealInv, Sealed, HopInv, Hop, Streams, Ways, Whole
      <4> QED BY <1>2, <4>1, <4>2
    <3> QED BY <3>2, <3>3
  <2> QED BY <1>1, <1>4, <2>1, <2>3, <2>4, <2>5, <2>6 DEF BytesInv
<1> QED BY <1>3, <1>6, <1>7, <1>8, <1>9 DEF ServerRelays, Server!Transfer

LEMMA NextIInv ==
  ASSUME IInv, [Next]_vars
  PROVE  IInv'
<1>1. CASE UNCHANGED vars
  <2>1. /\ UNCHANGED <<client, attempt, flight, session, reached, stopping, faults, stream>>
        /\ UNCHANGED <<clientCopy, clientBuffer, clientResult>>
        /\ UNCHANGED <<serverCopy, serverBuffer, serverResult>>
    BY <1>1 DEF vars, control, clientRelay, serverRelay
  <2>2. StreamInv' /\ BytesInv'
    BY <2>1, StreamsStay, InertBytes DEF IInv
  <2>3. Types'
    BY <2>1, TypesOK DEF IInv, Types, Client!RelayTypeOK, Server!RelayTypeOK
  <2>4. ControlInv'
    BY <2>1 DEF IInv, ControlInv
  <2> QED BY <2>2, <2>3, <2>4, TypesNext DEF IInv
<1>2. CASE TcpConnected \/ AttemptFails \/ Retry \/ HandshakeDone \/ Stop \/ Cut
  BY <1>2, AttemptIInv
<1>3. CASE Rejected \/ BackoffEnds
  BY <1>3, GivesUpIInv
<1>4. CASE ClientFinishes
  BY <1>4, ClientEndIInv DEF ClientFinishes, Client!Finish, Client!Cancel
<1>5. CASE ServerFinishes
  <2>1. UNCHANGED <<client, attempt, flight, reached, stopping, faults, clientRelay>>
    BY <1>5 DEF ServerFinishes, ServerEnd, ServerStep
  <2>2. /\ ServerEnd /\ ServerStep /\ serverResult = "running"
        /\ Server!EndsWith("cancelled") \/ Server!Finish
    BY <1>5 DEF ServerFinishes, Server!Finish, Server!Cancel
  <2> QED BY <2>1, <2>2, ServerEndIInv
<1>6. CASE \E a \in Attempts : \/ Accept(a) \/ Refuse(a) \/ HandshakeOk(a) \/ HandshakeFails(a)
                               \/ AgentConnected(a) \/ AgentFails(a)
  BY <1>6, SessionIInv
<1>7. CASE \E d \in Ways : ClientRelays(d) \/ ServerRelays(d)
  BY <1>7, ClientRelayIInv, ServerRelayIInv
<1>8. CASE LocalProgram \/ Agent
  BY <1>8, ProgramIInv
<1> QED BY <1>1, <1>2, <1>3, <1>4, <1>5, <1>6, <1>7, <1>8 DEF Next, Ended

LEMMA SpecIInv == Spec => []IInv
BY InitIInv, NextIInv, PTL DEF Spec

\* Every variable stays in its type, and no stream and no buffer holds more
\* than it may (relay.rs:18-35).
THEOREM SystemTypeOK == Spec => []TypeOK
BY SpecIInv, PTL DEF IInv

\* A session the server reports completed has given the agent all the local
\* program said (server.rs:84, relay.rs:27).
THEOREM SystemServerCompletion == Spec => []ServerCompletionTrue
<1>1. IInv => ServerCompletionTrue
  <2> SUFFICES ASSUME IInv, serverResult = "ok"
               PROVE  stream["agentUp"].put = stream["localUp"].put
    BY DEF ServerCompletionTrue
  <2>1. stream["wireUp"].put = stream["localUp"].put
    BY DEF IInv, BytesInv, HopInv, Hop, SealInv, Sealed, Whole
  <2>2. /\ serverBuffer["up"] + stream["agentUp"].put = stream["wireUp"].taken
        /\ serverBuffer["up"] = 0 /\ stream["wireUp"].taken = stream["wireUp"].put
    BY DEF IInv, BytesInv, HopInv, Hop, Whole
  <2>3. stream["agentUp"].put \in Nat
    BY RelayTypes DEF Streams
  <2> QED BY <2>1, <2>2, <2>3
<1> QED BY <1>1, SpecIInv, PTL

-----------------------------------------------------------------------------
(***************************************************************************)
(* The line to the agent: every step of the bridges is a step of AgentLine *)
(* or hidden from the programs at its ends.                                *)
(***************************************************************************)

\* There is one session at most that has reached the agent.
LEMMA CalledOnce ==
  ASSUME IInv
  PROVE  Cardinality(reached) = IF reached = {} THEN 0 ELSE 1
<1>1. reached = {} \/ reached = {attempt}
  BY DEF IInv, ControlInv
<1> QED BY <1>1, FS_EmptySet, FS_Singleton

\* What was written at the far end was said at the near one, and to a called
\* agent or by it.
LEMMA NothingInvented ==
  ASSUME IInv
  PROVE  /\ serverResult = "running" /\ serverBuffer["up"] > 0 =>
              stream["agentUp"].put < stream["localUp"].put
         /\ clientResult = "running" /\ clientBuffer["down"] > 0 =>
              stream["localDown"].put < stream["agentDown"].put /\ reached # {}
<1>1. /\ clientBuffer["up"] \in Nat /\ clientBuffer["down"] \in Nat
      /\ serverBuffer["up"] \in Nat /\ serverBuffer["down"] \in Nat
  BY RelayTypes DEF Ways
<1>2. \A n \in Streams : /\ stream[n].put \in Nat /\ stream[n].taken \in Nat
                         /\ stream[n].taken <= stream[n].put
  BY RelayTypes DEF IInv, StreamInv
<1>3. /\ serverBuffer["up"] + stream["agentUp"].put <= stream["wireUp"].taken
      /\ clientBuffer["up"] + stream["wireUp"].put <= stream["localUp"].taken
      /\ clientBuffer["down"] + stream["localDown"].put <= stream["wireDown"].taken
      /\ serverBuffer["down"] + stream["wireDown"].put <= stream["agentDown"].taken
  BY RelayTypes DEF HopInv, Hop
<1>4. reached = {} => stream["agentDown"].taken = 0
  BY RelayTypes DEF IInv, ControlInv, IdleInv
<1> QED BY <1>1, <1>2, <1>3, <1>4 DEF Streams

\* A session the client has completed has given the local program all the
\* agent said, and will ever say.
LEMMA AllArrived ==
  ASSUME IInv, clientResult \in Whole, clientCopy["down"] = "done"
  PROVE  /\ stream["localDown"].put = stream["agentDown"].put
         /\ stream["agentDown"].end # "open" /\ reached # {}
<1>1. Sealed("agentDown", "wireDown") /\ reached # {}
  BY RelayTypes DEF SealInv
<1>2. /\ clientBuffer["down"] + stream["localDown"].put = stream["wireDown"].taken
      /\ clientBuffer["down"] = 0 /\ stream["wireDown"].taken = stream["wireDown"].put
  BY RelayTypes DEF HopInv, Hop
<1>3. stream["localDown"].put \in Nat
  BY RelayTypes DEF Streams
<1> QED BY <1>1, <1>2, <1>3 DEF Sealed

\* The line in one place: what it is made of.
Said == [up |-> stream["localUp"].put, down |-> stream["agentDown"].put]
Arrived == [up |-> stream["agentUp"].put, down |-> stream["localDown"].put]

LEMMA HiddenStep ==
  ASSUME UNCHANGED <<reached, Said, Arrived, Verdict>>
  PROVE  UNCHANGED Line!vars
BY DEF Line!vars, Said, Arrived

LEMMA LineInit == Init => Line!Init
<1> SUFFICES ASSUME Init PROVE Line!Init
  OBVIOUS
<1>1. \A n \in Streams : stream[n].put = 0
  BY DEF Init, Client!NewStream
<1>2. Said = [d \in Line!Ways |-> 0] /\ Arrived = [d \in Line!Ways |-> 0]
  BY <1>1 DEF Said, Arrived, Line!Ways, Streams
<1>3. Cardinality(reached) = 0
  BY FS_EmptySet DEF Init
<1>4. Verdict = "none"
  BY DEF Init, Verdict
<1> QED BY <1>2, <1>3, <1>4 DEF Line!Init, Said, Arrived

\* The client's side fails or completes the line.
LEMMA FailStep ==
  ASSUME IInv, client # "over", client' = "over", clientResult' # "ok", Silent, UNCHANGED reached
  PROVE  Line!Next
<1>1. UNCHANGED <<Said, Arrived>>
  BY DEF Silent, Streams, Said, Arrived
<1>2. Verdict = "none" /\ Verdict' = "failed"
  BY DEF Verdict
<1> QED BY <1>1, <1>2 DEF Line!Next, Line!Fail, Said, Arrived

LEMMA CompleteStep ==
  ASSUME IInv, client # "over", client' = "over", Client!Finish, UNCHANGED reached
  PROVE  Line!Next
<1>1. UNCHANGED <<Said, Arrived>> /\ clientResult = "running" /\ clientResult' = "ok"
  BY DEF Client!Finish, Said, Arrived
<1>2. Verdict = "none" /\ Verdict' = "completed"
  BY <1>1 DEF Verdict
<1>3. clientCopy["down"] = "done"
  BY ClientStreams DEF Client!Finish, Ways
<1>4. Cardinality(reached) = 1 /\ Arrived.down = Said.down
  BY <1>1, <1>3, AllArrived, CalledOnce DEF Arrived, Said, Whole
<1> QED BY <1>1, <1>2, <1>4 DEF Line!Next, Line!Complete, Said, Arrived

\* The programs speak; a completed agent does not.
LEMMA SayStep ==
  ASSUME IInv, NEW d \in Ways,
         Says(IF d = "up" THEN "localUp" ELSE "agentDown", IF d = "up" THEN MaxUp ELSE MaxDown),
         d = "down" => reached # {}
  PROVE  Line!Next
<1> DEFINE n == IF d = "up" THEN "localUp" ELSE "agentDown"
<1>1. /\ n \in Streams /\ stream[n].end = "open" /\ InFlight(n) < StreamSize
      /\ stream' = [stream EXCEPT ![n].put = @ + 1]
      /\ UNCHANGED <<client, reached, clientResult>>
      /\ stream[n].put < IF d = "up" THEN MaxUp ELSE MaxDown
  BY DEF Says, Program, Streams, control, clientRelay
<1>2. /\ \A m \in Streams : m # n => stream'[m] = stream[m]
      /\ stream'[n].put = stream[n].put + 1
  BY <1>1, StreamPut DEF IInv
<1>3. Said' = [Said EXCEPT ![d] = @ + 1] /\ UNCHANGED <<Arrived, Verdict>>
  BY <1>1, <1>2 DEF Said, Arrived, Verdict, Streams, Ways
<1>4. Said[d] < [up |-> MaxUp, down |-> MaxDown][d]
  BY <1>1 DEF Said, Ways
<1>5. d = "down" => Cardinality(reached) = 1 /\ Verdict # "completed"
  <2>1. d = "down" => clientResult # "ok"
    <3>1. clientResult = "ok" => clientCopy["down"] = "done"
      BY RelayTypes DEF HopInv, Hop
    <3> QED BY <1>1, <3>1, AllArrived DEF Whole
  <2> QED BY <2>1, CalledOnce DEF Verdict
<1>6. Line!Say(d)
  BY <1>1, <1>3, <1>4, <1>5 DEF Line!Say, Said, Arrived
<1> QED BY <1>6 DEF Line!Next, Line!Ways, Ways

\* What arrives at the far end of the line.
LEMMA ArriveStep ==
  ASSUME IInv, NEW d \in Ways, reached # {}, d = "down" => Verdict = "none", Said[d] > Arrived[d],
         Arrived' = [Arrived EXCEPT ![d] = @ + 1], UNCHANGED <<reached, Said, Verdict>>
  PROVE  Line!Next
<1>1. Line!Arrive(d)
  BY CalledOnce DEF Line!Arrive, Said, Arrived
<1> QED BY <1>1 DEF Line!Next, Line!Ways, Ways

LEMMA AttemptLine ==
  ASSUME IInv, TcpConnected \/ AttemptFails \/ Retry \/ HandshakeDone \/ Stop \/ Cut
  PROVE  UNCHANGED Line!vars
<1>1. \A n \in Streams : stream'[n].put = stream[n].put
  BY DEF TcpConnected, AttemptFails, Retry, HandshakeDone, Stop, Cut, IInv, StreamInv
<1>2. UNCHANGED <<reached, Verdict>>
  BY DEF TcpConnected, AttemptFails, Retry, HandshakeDone, Stop, Cut, Verdict, clientRelay
<1> QED BY <1>1, <1>2, HiddenStep DEF Said, Arrived, Streams

LEMMA SessionLine ==
  ASSUME IInv, NEW a \in Attempts,
         \/ Accept(a) \/ Refuse(a) \/ HandshakeOk(a) \/ HandshakeFails(a)
         \/ AgentConnected(a) \/ AgentFails(a)
  PROVE  [Line!Next]_(Line!vars)
<1>1. \A n \in Streams : stream'[n].put = stream[n].put
  <2>1. \/ UNCHANGED stream
        \/ stream' = [n \in Streams |-> IF n \in Wire THEN [stream[n] EXCEPT !.end = "cut"]
                                       ELSE stream[n]]
    BY DEF Accept, Refuse, HandshakeOk, HandshakeFails, AgentConnected, AgentFails, Hangup
  <2> QED BY <2>1, StreamsStay, WireIsCut DEF IInv, Silent
<1>2. UNCHANGED <<client, clientResult>>
  BY DEF Accept, Refuse, HandshakeOk, HandshakeFails, AgentConnected, AgentFails,
         ServerStep, clientRelay
<1>3. UNCHANGED <<Said, Arrived, Verdict>>
  BY <1>1, <1>2 DEF Said, Arrived, Streams, Verdict
<1>4. CASE AgentConnected(a)
  <2>1. session[a] = "agent" /\ reached' = reached \cup {a}
    BY <1>4 DEF AgentConnected
  <2>2. reached = {} /\ reached' = {a}
    BY <2>1 DEF IInv, ControlInv
  <2>3. Cardinality(reached) = 0 /\ Cardinality(reached') = 1
    BY <2>2, FS_EmptySet, FS_Singleton
  <2> QED BY <1>3, <2>3 DEF Line!Next, Line!Call, Said, Arrived
<1>5. CASE ~AgentConnected(a)
  <2>1. UNCHANGED reached
    BY <1>5 DEF Accept, Refuse, HandshakeOk, HandshakeFails, AgentFails
  <2> QED BY <1>3, <2>1, HiddenStep
<1> QED BY <1>4, <1>5

LEMMA ProgramLine ==
  ASSUME IInv, LocalProgram \/ Agent
  PROVE  [Line!Next]_(Line!vars)
<1>1. CASE Says("localUp", MaxUp)
  <2>1. "up" \in Ways
    BY DEF Ways
  <2> QED BY <1>1, <2>1, SayStep
<1>2. CASE reached # {} /\ Says("agentDown", MaxDown)
  <2>1. "down" \in Ways
    BY DEF Ways
  <2> QED BY <1>2, <2>1, SayStep
<1>3. ASSUME NEW n \in {"localUp", "agentDown", "localDown", "agentUp"},
             StopsSaying(n) \/ Hears(n)
      PROVE  UNCHANGED Line!vars
  <2>1. \A m \in Streams : stream'[m].put = stream[m].put
    BY <1>3 DEF StopsSaying, Hears, Program, IInv, StreamInv
  <2>2. UNCHANGED <<client, reached, clientResult>>
    BY <1>3 DEF StopsSaying, Hears, Program, control, clientRelay
  <2> QED BY <2>1, <2>2, HiddenStep DEF Said, Arrived, Verdict, Streams
<1>4. ASSUME NEW in \in {"localDown", "agentUp"}, NEW out \in {"localUp", "agentDown"},
             Leaves(in, out)
      PROVE  UNCHANGED Line!vars
  <2>1. \A m \in Streams : stream'[m].put = stream[m].put
    BY <1>4 DEF Leaves, Program, IInv, StreamInv, Streams
  <2>2. UNCHANGED <<client, reached, clientResult>>
    BY <1>4 DEF Leaves, Program, control, clientRelay
  <2> QED BY <2>1, <2>2, HiddenStep DEF Said, Arrived, Verdict, Streams
<1> QED BY <1>1, <1>2, <1>3, <1>4 DEF LocalProgram, Agent

\* The client's relay gives the local program what the agent said.
LEMMA ClientLine ==
  ASSUME IInv, NEW d \in Ways, ClientRelays(d)
  PROVE  [Line!Next]_(Line!vars)
<1>1. /\ UNCHANGED reached /\ ClientEnd /\ clientResult = "running" /\ client = "relaying"
  BY DEF ClientRelays, Client!Transfer, Client!Read, Client!Write, Client!SourceEnds,
         Client!Shut, Client!ReadFails, Client!WriteFails, IInv, ControlInv
<1>2. CASE Client!ReadFails(d) \/ Client!WriteFails(d)
  <2>1. Client!EndsWith("failed")
    BY <1>2 DEF Client!ReadFails, Client!WriteFails
  <2>2. clientResult' = "failed" /\ Silent
    BY <2>1, ClientLetsGo DEF IInv, Silent
  <2> QED BY <1>1, <2>2, FailStep DEF ClientEnd
<1>3. CASE Client!Read(d) \/ Client!SourceEnds(d) \/ Client!Shut(d)
  <2>1. \A n \in Streams : stream'[n].put = stream[n].put
    BY <1>3 DEF Client!Read, Client!SourceEnds, Client!Shut, IInv, StreamInv
  <2>2. clientResult' = "running"
    BY <1>1, <1>3 DEF Client!Read, Client!SourceEnds, Client!Shut
  <2> QED BY <1>1, <2>1, <2>2, HiddenStep DEF ClientEnd, Said, Arrived, Verdict, Streams
<1>4. CASE Client!Write(d)
  <2> DEFINE n == [up |-> "wireUp", down |-> "localDown"][d]
  <2>1. /\ n \in Streams /\ InFlight(n) < StreamSize /\ clientBuffer[d] > 0
        /\ stream' = [stream EXCEPT ![n].put = @ + 1]
        /\ clientResult' = "running"
    BY <1>1, <1>4 DEF Client!Write, Client!InFlight, InFlight, Ways, Streams
  <2>2. /\ \A m \in Streams : m # n => stream'[m] = stream[m]
        /\ stream'[n].put = stream[n].put + 1
    BY <2>1, StreamPut DEF IInv
  <2>3. UNCHANGED <<Said, Verdict>> /\ Verdict = "none"
    BY <1>1, <2>1, <2>2 DEF ClientEnd, Said, Verdict, Streams, Ways
  <2>4. CASE d = "up"
    BY <1>1, <2>2, <2>3, <2>4, HiddenStep DEF Arrived, Streams
  <2>5. CASE d = "down"
    <3>1. Arrived' = [Arrived EXCEPT ![d] = @ + 1]
      BY <2>2, <2>5 DEF Arrived, Streams
    <3>2. reached # {} /\ Said[d] > Arrived[d]
      BY <1>1, <2>1, <2>5, NothingInvented, RelayTypes DEF Said, Arrived, Streams
    <3> QED BY <1>1, <2>3, <3>1, <3>2, ArriveStep
  <2> QED BY <2>4, <2>5 DEF Ways
<1> QED BY <1>2, <1>3, <1>4 DEF ClientRelays, Client!Transfer

\* The server's relay gives the agent what the local program said; of its own
\* end the line knows nothing.
LEMMA ServerLine ==
  ASSUME IInv, ServerFinishes \/ \E d \in Ways : ServerRelays(d)
  PROVE  [Line!Next]_(Line!vars)
<1>1. UNCHANGED <<client, reached, clientResult>> /\ serverResult = "running"
  BY DEF ServerFinishes, ServerRelays, ServerStep, ServerEnd, Server!Transfer, Server!Read,
         Server!Write, Server!SourceEnds, Server!Shut, Server!ReadFails, Server!WriteFails,
         Server!Finish, Server!Cancel, clientRelay
<1>2. ASSUME Silent PROVE UNCHANGED Line!vars
  BY <1>1, <1>2, HiddenStep DEF Silent, Said, Arrived, Verdict, Streams
<1>3. CASE Server!EndsWith("failed") \/ Server!EndsWith("cancelled") \/ Server!Finish
  <2>1. Silent
    BY <1>3, ServerLetsGo DEF IInv, Silent, Server!Finish
  <2> QED BY <1>2, <2>1
<1>4. ASSUME NEW d \in Ways, Server!Read(d) \/ Server!SourceEnds(d) \/ Server!Shut(d)
      PROVE  UNCHANGED Line!vars
  <2>1. Silent
    BY <1>4 DEF Silent, Server!Read, Server!SourceEnds, Server!Shut, IInv, StreamInv
  <2> QED BY <1>2, <2>1
<1>5. ASSUME NEW d \in Ways, Server!Write(d)
      PROVE  [Line!Next]_(Line!vars)
  <2> DEFINE n == [up |-> "agentUp", down |-> "wireDown"][d]
  <2>1. /\ n \in Streams /\ InFlight(n) < StreamSize /\ serverBuffer[d] > 0
        /\ stream' = [stream EXCEPT ![n].put = @ + 1]
    BY <1>5 DEF Server!Write, Server!InFlight, InFlight, Ways, Streams
  <2>2. /\ \A m \in Streams : m # n => stream'[m] = stream[m]
        /\ stream'[n].put = stream[n].put + 1
    BY <2>1, StreamPut DEF IInv
  <2>3. UNCHANGED <<Said, Verdict>>
    BY <1>1, <2>2 DEF Said, Verdict, Streams, Ways
  <2>4. CASE d = "down"
    BY <1>1, <2>2, <2>3, <2>4, HiddenStep DEF Arrived, Streams
  <2>5. CASE d = "up"
    <3>1. Arrived' = [Arrived EXCEPT ![d] = @ + 1]
      BY <2>2, <2>5 DEF Arrived, Streams
    <3>2. reached # {} /\ Said[d] > Arrived[d]
      BY <1>1, <2>1, <2>5, NothingInvented, RelayTypes
         DEF Said, Arrived, Streams, IInv, ControlInv
    <3> QED BY <1>1, <2>3, <2>5, <3>1, <3>2, ArriveStep
  <2> QED BY <2>4, <2>5 DEF Ways
<1> QED BY <1>3, <1>4, <1>5 DEF ServerFinishes, ServerRelays, Server!Transfer, Server!Cancel,
           Server!ReadFails, Server!WriteFails

\* The bridges keep the promise of AgentLine: the agent is called at most once,
\* nothing arrives that was not said, and a session is completed only when all
\* the agent said has arrived (client.rs:84-110, relay.rs:26-35).
THEOREM SystemLineSpec == Spec => LineSpec
<1>1. ASSUME IInv, [Next]_vars
      PROVE  [Line!Next]_(Line!vars)
  <2>1. CASE UNCHANGED vars
    BY <2>1, HiddenStep DEF vars, control, clientRelay, Said, Arrived, Verdict
  <2>2. CASE Rejected \/ BackoffEnds
    <3>1. /\ GivesUp /\ client # "over" /\ client' = "over" /\ UNCHANGED reached
          /\ clientResult' = clientResult
      BY <2>2 DEF Rejected, BackoffEnds, GivesUp, clientRelay
    <3>2. clientResult' # "ok"
      BY <1>1, <2>2, <3>1 DEF Rejected, BackoffEnds, IInv, ControlInv
    <3>3. Silent
      BY <1>1, <3>1, ClientGivesUp DEF IInv, Silent
    <3> QED BY <1>1, <3>1, <3>2, <3>3, FailStep
  <2>3. CASE ClientFinishes
    <3>1. UNCHANGED reached /\ ClientEnd /\ clientResult = "running" /\ client # "over"
      BY <1>1, <2>3 DEF ClientFinishes, Client!Finish, Client!Cancel, IInv, ControlInv
    <3>2. CASE Client!Finish
      BY <1>1, <3>1, <3>2, CompleteStep DEF Client!Finish, ClientEnd
    <3>3. CASE Client!EndsWith("cancelled")
      <4>1. clientResult' = "cancelled" /\ Silent
        BY <1>1, <3>3, ClientLetsGo DEF IInv, Silent
      <4> QED BY <1>1, <3>1, <4>1, FailStep DEF ClientEnd
    <3> QED BY <2>3, <3>2, <3>3 DEF ClientFinishes, Client!Cancel
  <2> QED BY <1>1, <2>1, <2>2, <2>3, AttemptLine, SessionLine, ProgramLine, ClientLine,
             ServerLine DEF Next, Ended
<1> QED BY <1>1, LineInit, SpecIInv, PTL DEF Spec, LineSpec, Line!Spec
=============================================================================
