------------------------- MODULE ServerBridgeProofs -------------------------
(***************************************************************************)
(* Theorems about ServerBridge, for every set of connections and peers and *)
(* every limit.  The inductive invariant has the shape of the client's,    *)
(* with the authentication of the peer in place of the socket path.        *)
(***************************************************************************)
EXTENDS ServerBridge, FiniteSetTheorems, TLAPS

\* The accept loop has not been notified while it runs, and neither has a
\* session that is still served; a drain has a cause.  An exited process
\* serves nobody.
Unnoticed ==
  /\ main \in {"starting", "running"} => ~seen[Loop]
  /\ \A c \in Live : ~seen[c]
  /\ main = "draining" => sent \/ closed
  /\ main = "exited" => Live = {}

\* What a session knows of its peer: past the handshake, that it holds a
\* certificate; past validate_alpn, which protocol was negotiated.  A protocol
\* is negotiated only if the peer offered it.
Proven ==
  \A c \in Conns :
    /\ alpn[c] = Alpn => Alpn \in peer[c].offers
    /\ conn[c] \in {"negotiated", "connecting", "relaying"} => peer[c].certified
    /\ conn[c] \in {"connecting", "relaying"} => alpn[c] = Alpn

IInv ==
  /\ TypeOK
  /\ IsFiniteSet(Live)
  /\ ServedAccounted
  /\ Proven
  /\ Unnoticed

-----------------------------------------------------------------------------
(***************************************************************************)
(* How the set of served connections changes with one connection's stage.  *)
(***************************************************************************)

\* A connection that enters a served stage is added to Live.
LEMMA LiveGrows ==
  ASSUME TypeOK, NEW c \in Conns, c \notin Live,
         NEW stage \in LiveStages, conn' = [conn EXCEPT ![c] = stage]
  PROVE  Live' = Live \cup {c}
BY DEF Live, TypeOK

\* A connection that is closed is removed from Live.
LEMMA LiveShrinks ==
  ASSUME TypeOK, NEW c \in Conns, conn' = [conn EXCEPT ![c] = "closed"]
  PROVE  Live' = Live \ {c}
BY DEF Live, TypeOK, LiveStages

\* Moves within the served stages, and outside them, leave Live as it is.
LEMMA LiveStays ==
  ASSUME TypeOK, NEW c \in Conns, NEW stage,
         conn[c] \in LiveStages <=> stage \in LiveStages,
         conn' = [conn EXCEPT ![c] = stage]
  PROVE  Live' = Live
BY DEF Live, TypeOK

-----------------------------------------------------------------------------
\* The initial states satisfy the inductive invariant.
LEMMA InitIInv == Init => IInv
<1> SUFFICES ASSUME Init PROVE IInv
  OBVIOUS
<1>1. Live = {}
  BY DEF Init, Live, LiveStages
<1>2. TypeOK
  <2>1. permits \in 0..MaxConnections
    BY ServerAssumption DEF Init
  <2>2. Watch!WatchTypeOK
    BY DEF Init, Watch!WatchInit, Watch!WatchTypeOK
  <2>3. conn \in [Conns -> Stages]
    BY DEF Init, Stages
  <2> QED
    BY <2>1, <2>2, <2>3 DEF Init, TypeOK
<1>3. IsFiniteSet(Live) /\ ServedAccounted
  BY <1>1, FS_EmptySet, ServerAssumption DEF Init, ServedAccounted
<1>4. Proven /\ Unnoticed
  BY <1>1 DEF Init, Proven, Unnoticed, Watch!WatchInit, NoProtocol, Alpn
<1> QED
  BY <1>2, <1>3, <1>4 DEF IInv

\* Leaving the function keeps the inductive invariant.
LEMMA ExitIInv ==
  ASSUME IInv, Exit, UNCHANGED watchVars
  PROVE  IInv'
<1>1. Live' = {}
  BY DEF Live, Exit, LiveStages
<1>2. TypeOK'
  BY ServerAssumption DEF IInv, TypeOK, Exit, watchVars, Stages, Watch!WatchTypeOK
<1>3. IsFiniteSet(Live)' /\ ServedAccounted'
  BY <1>1, FS_EmptySet, ServerAssumption DEF Exit, ServedAccounted
<1>4. Proven' /\ Unnoticed'
  BY <1>1 DEF Exit, IInv, Proven, Unnoticed
<1> QED
  BY <1>2, <1>3, <1>4 DEF IInv

\* Admitting a connection takes the permit its session will give back, and
\* hands it a receiver that has seen no more than the loop has.
LEMMA AdmitIInv ==
  ASSUME IInv, NEW c \in Conns, AcceptAdmit(c)
  PROVE  IInv'
<1> USE DEF IInv
<1>1. c \notin Live
  BY DEF AcceptAdmit, Live, LiveStages
<1>2. Live' = Live \cup {c}
  BY <1>1, LiveGrows DEF AcceptAdmit, LiveStages
<1>3. permits \in Nat /\ permits > 0 /\ permits' = permits - 1
  BY ServerAssumption DEF AcceptAdmit, TypeOK
<1>4. TypeOK'
  <2>1. seen' \in [Conns \cup {Loop} -> BOOLEAN]
    BY DEF AcceptAdmit, HandReceiver, TypeOK, Watch!CloneFrom, Watch!WatchTypeOK
  <2>2. permits' \in 0..MaxConnections
    BY <1>3, ServerAssumption DEF TypeOK
  <2> QED
    BY <2>1, <2>2 DEF AcceptAdmit, HandReceiver, TypeOK, Watch!CloneFrom,
                      Watch!WatchTypeOK, Stages, LiveStages
<1>5. IsFiniteSet(Live') /\ Cardinality(Live') = Cardinality(Live) + 1
  BY <1>1, <1>2, FS_AddElement
<1>6. ServedAccounted'
  BY <1>2, <1>3, <1>5, FS_CardinalityType, ServerAssumption
  DEF AcceptAdmit, ServedAccounted
<1>7. Proven'
  BY DEF AcceptAdmit, Proven, TypeOK
<1>8. Unnoticed'
  BY <1>2, ServerAssumption
  DEF AcceptAdmit, HandReceiver, Unnoticed, TypeOK, Watch!CloneFrom,
      Watch!WatchTypeOK, Live
<1> QED
  BY <1>4, <1>5, <1>6, <1>7, <1>8

\* A session that ends, in whatever way, gives one permit back.
LEMMA EndIInv ==
  ASSUME IInv, NEW c \in Live, EndSession(c),
         UNCHANGED watchVars \/ Watch!TakeNotice(c)
  PROVE  IInv'
<1> USE DEF IInv
<1>1. c \in Conns
  BY DEF Live
<1>2. Live' = Live \ {c}
  BY <1>1, LiveShrinks DEF EndSession
<1>3. IsFiniteSet(Live') /\ Cardinality(Live') = Cardinality(Live) - 1
  BY <1>2, FS_RemoveElement
<1>4. Cardinality(Live') \in Nat /\ Cardinality(Live) \in Nat
  BY <1>3, FS_CardinalityType
<1>5. permits \in Nat /\ permits' = permits + 1
  BY ServerAssumption DEF EndSession, TypeOK
<1>6. ServedAccounted'
  BY <1>2, <1>3, <1>4, <1>5, ServerAssumption DEF EndSession, ServedAccounted
<1>7. TypeOK'
  <2>1. permits' \in 0..MaxConnections
    BY <1>4, <1>5, <1>6, ServerAssumption DEF ServedAccounted
  <2>2. Watch!WatchTypeOK'
    BY DEF TypeOK, watchVars, Watch!TakeNotice, Watch!WatchTypeOK
  <2> QED
    BY <2>1, <2>2 DEF EndSession, TypeOK, Stages
<1>8. Proven'
  BY DEF EndSession, Proven, TypeOK
<1>9. \A r \in (Conns \cup {Loop}) \ {c} : seen'[r] = seen[r]
  BY DEF watchVars, Watch!TakeNotice, TypeOK, Watch!WatchTypeOK
<1>10. Unnoticed'
  BY <1>1, <1>2, <1>9, ServerAssumption
  DEF EndSession, Unnoticed, Live, watchVars, Watch!TakeNotice
<1> QED
  BY <1>3, <1>6, <1>7, <1>8, <1>10

\* A step that leaves tasks, permits, the phase and the watch alone, and
\* neither serves nor ends a connection, keeps the inductive invariant.
LEMMA StageIInv ==
  ASSUME IInv, TypeOK', Live' = Live, Proven',
         UNCHANGED <<main, tasks, permits, sent, closed, seen>>
  PROVE  IInv'
BY DEF IInv, ServedAccounted, Unnoticed

\* The end of a TLS handshake: the certificate was checked, and what was
\* negotiated was offered.
LEMMA AcceptedIInv ==
  ASSUME IInv, NEW c \in Conns, TlsAccepted(c)
  PROVE  IInv'
<1>1. Live' = Live
  BY LiveStays DEF IInv, TlsAccepted, LiveStages
<1>2. PICK protocol \in {NoProtocol, Alpn} :
        Negotiates(peer[c].offers, protocol) /\ alpn' = [alpn EXCEPT ![c] = protocol]
  BY DEF TlsAccepted
<1>3. TypeOK'
  BY <1>2 DEF IInv, TlsAccepted, TypeOK, Stages, LiveStages, watchVars, Watch!WatchTypeOK
<1>4. \A d \in Conns : d # c => alpn'[d] = alpn[d] /\ conn'[d] = conn[d]
  BY <1>2 DEF TlsAccepted, IInv, TypeOK
<1>5. alpn'[c] = protocol /\ conn'[c] = "negotiated" /\ peer' = peer /\ peer[c].certified
  BY <1>2 DEF TlsAccepted, IInv, TypeOK
<1>6. protocol = Alpn => Alpn \in peer[c].offers
  BY <1>2 DEF Negotiates, NoProtocol, Alpn
<1>7. Proven'
  BY <1>4, <1>5, <1>6 DEF IInv, Proven
<1> QED
  BY <1>1, <1>3, <1>7, StageIInv DEF TlsAccepted, watchVars

\* A session that moves on after validate_alpn: only one that has negotiated
\* the bridge's protocol does.
LEMMA MoveIInv ==
  ASSUME IInv, NEW c \in Live, NEW stage \in LiveStages, MoveSession(c, stage),
         conn[c] # "handshaking", alpn[c] = Alpn
  PROVE  IInv'
<1>1. c \in Conns /\ conn[c] \in LiveStages
  BY DEF Live
<1>2. Live' = Live
  BY <1>1, LiveStays DEF IInv, MoveSession
<1>3. TypeOK'
  BY <1>1 DEF IInv, MoveSession, TypeOK, Stages, watchVars, Watch!WatchTypeOK
<1>4. Proven'
  BY <1>1 DEF IInv, MoveSession, Proven, TypeOK, LiveStages
<1> QED
  BY <1>2, <1>3, <1>4, StageIInv DEF MoveSession, watchVars

\* A step that only moves unserved connections.
LEMMA UnservedIInv ==
  ASSUME IInv, UNCHANGED <<main, peer, alpn, tasks, permits, sent, closed, seen>>,
         conn' \in [Conns -> Stages],
         \A d \in Conns : conn'[d] # conn[d] =>
           conn[d] \notin LiveStages /\ conn'[d] \notin LiveStages
  PROVE  IInv'
<1>1. Live' = Live
  BY DEF Live
<1>2. TypeOK'
  BY DEF IInv, TypeOK, Watch!WatchTypeOK
<1>3. Proven'
  BY DEF IInv, Proven, LiveStages
<1> QED
  BY <1>1, <1>2, <1>3, StageIInv

-----------------------------------------------------------------------------
\* A step of a session keeps the inductive invariant.
LEMMA SessionIInv ==
  ASSUME IInv, NEW c \in Conns, SessionStep(c)
  PROVE  IInv'
<1>1. CASE AlpnValidated(c) \/ AgentConnected(c)
  <2>1. c \in Live /\ conn[c] # "handshaking"
    BY <1>1 DEF AlpnValidated, AgentConnected, Live, LiveStages
  <2>2. alpn[c] = Alpn
    BY <1>1 DEF AlpnValidated, ValidateAlpn, AgentConnected, IInv, Proven
  <2>3. PICK stage \in LiveStages : MoveSession(c, stage)
    BY <1>1 DEF AlpnValidated, AgentConnected, LiveStages
  <2> QED
    BY <2>1, <2>2, <2>3, MoveIInv
<1>2. CASE \/ HandshakeFails(c) \/ HandshakeTimeout(c) \/ AlpnRefused(c)
           \/ AgentFails(c) \/ RelayEnd(c)
  <2>1. c \in Live /\ EndSession(c) /\ UNCHANGED watchVars
    BY <1>2 DEF HandshakeFails, HandshakeTimeout, AlpnRefused, AgentFails, RelayEnd,
                Live, LiveStages
  <2> QED
    BY <2>1, EndIInv
<1>3. CASE RelayCancelled(c)
  <2>1. c \in Live /\ EndSession(c) /\ Watch!TakeNotice(c)
    BY <1>3 DEF RelayCancelled, Live, LiveStages
  <2> QED
    BY <2>1, EndIInv
<1> QED
  BY <1>1, <1>2, <1>3, AcceptedIInv
  DEF SessionStep, HandshakeOutcome, AlpnOutcome, AgentOutcome

\* Every step keeps the inductive invariant.
LEMMA NextIInv == IInv /\ [Next]_vars => IInv'
<1> SUFFICES ASSUME IInv, [Next]_vars PROVE IInv'
  OBVIOUS
<1>t. TypeOK /\ conn \in [Conns -> Stages]
  BY DEF IInv, TypeOK
<1>1. CASE StartFails \/ DrainDone \/ DrainTimeout
  BY <1>1, ExitIInv DEF StartFails, DrainDone, DrainTimeout
<1>2. CASE Start
  <2>1. Live' = Live
    BY <1>2 DEF Start, Live
  <2>2. TypeOK'
    BY <1>2 DEF Start, IInv, TypeOK, watchVars, Watch!WatchTypeOK
  <2> QED
    BY <1>2, <2>1, <2>2
    DEF Start, IInv, ServedAccounted, Proven, Unnoticed, watchVars
<1>3. ASSUME NEW c \in Conns, Connect(c) \/ AcceptReject(c) PROVE IInv'
  BY <1>3, <1>t, UnservedIInv
  DEF Connect, AcceptReject, watchVars, Stages, LiveStages
<1>4. CASE Signal
  <2>1. Live' = Live
    BY <1>4 DEF Signal, Live
  <2>2. TypeOK'
    BY <1>4 DEF Signal, IInv, TypeOK, Watch!SendShutdown, Watch!DropSender,
                Watch!WatchTypeOK
  <2> QED
    BY <1>4, <2>1, <2>2
    DEF Signal, IInv, ServedAccounted, Proven, Unnoticed,
        Watch!SendShutdown, Watch!DropSender
<1>5. CASE LoopNotice
  <2>1. Live' = Live
    BY <1>5 DEF LoopNotice, Live
  <2>2. TypeOK'
    BY <1>5 DEF LoopNotice, IInv, TypeOK, Watch!TakeNotice, Watch!WatchTypeOK
  <2>3. \A d \in Conns : seen'[d] = seen[d]
    BY <1>5, ServerAssumption
    DEF LoopNotice, IInv, TypeOK, Watch!TakeNotice, Watch!WatchTypeOK
  <2>4. sent' \/ closed'
    BY <1>5 DEF LoopNotice, Watch!TakeNotice, Watch!ChangedReady
  <2>5. Unnoticed'
    BY <1>5, <2>1, <2>3, <2>4 DEF LoopNotice, IInv, Unnoticed, Live
  <2> QED
    BY <1>5, <2>1, <2>2, <2>5
    DEF LoopNotice, IInv, ServedAccounted, Proven
<1>6. ASSUME NEW c \in Conns, AcceptAdmit(c) PROVE IInv'
  BY <1>6, AdmitIInv
<1>7. ASSUME NEW c \in Conns, Reap(c) PROVE IInv'
  <2>1. Live' = Live
    BY <1>7 DEF Reap, Live
  <2>2. TypeOK'
    BY <1>7 DEF Reap, IInv, TypeOK, watchVars, Watch!WatchTypeOK
  <2> QED
    BY <1>7, <2>1, <2>2
    DEF Reap, IInv, ServedAccounted, Proven, Unnoticed, watchVars
<1>8. ASSUME NEW c \in Conns, SessionStep(c) PROVE IInv'
  BY <1>8, SessionIInv
<1>9. CASE Terminated \/ UNCHANGED vars
  BY <1>9, <1>t, UnservedIInv DEF Terminated, vars
<1> QED
  BY <1>1, <1>2, <1>3, <1>4, <1>5, <1>6, <1>7, <1>8, <1>9 DEF Next, LoopStep

\* The inductive invariant holds in every reachable state.
THEOREM SpecIInv == Spec => []IInv
<1> QED
  BY InitIInv, NextIInv, PTL DEF Spec

-----------------------------------------------------------------------------
(***************************************************************************)
(* The properties.                                                         *)
(***************************************************************************)

\* Every variable of the server stays in its type, and the semaphore never
\* holds more permits than it was created with.
THEOREM ServerTypeOK == Spec => []TypeOK
<1>1. IInv => TypeOK
  BY DEF IInv
<1> QED
  BY <1>1, SpecIInv, PTL

\* Permits and served sessions balance for every limit, authenticated or
\* not, and every served session has its task in the JoinSet.
THEOREM ServerServedAccounted == Spec => []ServedAccounted
<1>1. IInv => ServedAccounted
  BY DEF IInv
<1> QED
  BY <1>1, SpecIInv, PTL

\* Whatever peers connect, in whatever numbers: the agent is reached only for
\* those that hold a certificate and asked for the bridge's protocol.
THEOREM ServerOnlyTrusted == Spec => []OnlyTrustedReachAgent
<1>1. IInv => OnlyTrustedReachAgent
  BY DEF IInv, Proven, OnlyTrustedReachAgent
<1> QED
  BY <1>1, SpecIInv, PTL

\* The drain never ends on a running relay, however many sessions of
\* however many peers are under way: the timeout finds every relay gone.
THEOREM ServerRelaysCancelled == Spec => RelaysCancelledNotAborted
<1>1. IInv /\ [Next]_vars =>
        [main = "draining" /\ main' = "exited" =>
           \A c \in Conns : conn[c] # "relaying"]_vars
  <2> SUFFICES ASSUME IInv, Next, main = "draining", main' = "exited",
                      NEW c \in Conns, conn[c] = "relaying"
               PROVE  FALSE
    BY DEF vars
  <2>1. c \in Live
    BY DEF Live, LiveStages
  <2>2. c \in tasks /\ Watch!ChangedReady(c)
    BY <2>1 DEF IInv, ServedAccounted, Unnoticed, Watch!ChangedReady
  <2>3. DrainDone \/ DrainTimeout
    BY DEF Next, StartFails, Start, Connect, SessionStep, Signal, LoopStep, LoopNotice,
           AcceptAdmit, AcceptReject, Reap, Terminated, HandshakeOutcome, TlsAccepted,
           HandshakeFails, HandshakeTimeout, AlpnOutcome, AlpnValidated, AlpnRefused,
           AgentOutcome, AgentConnected, AgentFails, RelayCancelled, RelayEnd,
           EndSession, MoveSession
  <2> QED
    BY <2>2, <2>3 DEF DrainDone, DrainTimeout
<1> QED
  BY <1>1, SpecIInv, PTL DEF Spec, RelaysCancelledNotAborted

-----------------------------------------------------------------------------
(***************************************************************************)
(* The server implements SessionPool.                                      *)
(***************************************************************************)

\* What the pool sees of one connection.
LEMMA StatusOf ==
  ASSUME TypeOK, NEW c \in Conns
  PROVE  /\ Status[c] = "waiting" <=> conn[c] = "pending"
         /\ Status[c] = "done" <=> conn[c] = "closed"
         /\ Status[c] = "idle" <=> conn[c] = "idle"
         /\ Status[c] = "served" <=> conn[c] \in LiveStages
         /\ Status[c] \in {"idle", "waiting", "served", "done"}
BY DEF Status, TypeOK, Stages, LiveStages

\* The server is full for the pool exactly when its semaphore is empty.
LEMMA PoolLoad ==
  ASSUME IInv
  PROVE  Pool!Cardinality(Pool!Served) = MaxConnections - permits
<1>1. Pool!Served = Live
  BY StatusOf DEF IInv, Pool!Served, Live
<1>2. Pool!Cardinality(Live) = Cardinality(Live)
  BY DEF Pool!Cardinality, Cardinality
<1>3. Cardinality(Live) \in Nat /\ permits \in Nat
  BY FS_CardinalityType, ServerAssumption DEF IInv, TypeOK
<1> QED
  BY <1>1, <1>2, <1>3, ServerAssumption DEF IInv, ServedAccounted

\* A step that moves one connection between stages moves its status.
LEMMA StatusMoves ==
  ASSUME TypeOK, TypeOK', NEW c \in Conns, NEW stage \in Stages,
         conn' = [conn EXCEPT ![c] = stage]
  PROVE  Status' = [Status EXCEPT ![c] = Status'[c]]
<1>1. \A d \in Conns : d # c => Status'[d] = Status[d]
  BY DEF Status, TypeOK
<1> QED
  BY <1>1 DEF Status

\* The initial states of the server are initial states of the pool.
LEMMA InitPool == Init => Pool!PoolInit
BY DEF Init, Pool!PoolInit, Phase, Status

\* A connection that waits is served or turned away as the pool would.
LEMMA AcceptPool ==
  ASSUME IInv, IInv', NEW c \in Conns, AcceptAdmit(c) \/ AcceptReject(c)
  PROVE  Pool!PoolNext
<1> USE DEF IInv
<1>1. Status[c] = "waiting" /\ Phase = "open" /\ Phase' = Phase
  BY StatusOf DEF AcceptAdmit, AcceptReject, Phase
<1>2. CASE AcceptAdmit(c)
  <2>1. Status'[c] = "served"
    BY <1>2, StatusOf DEF AcceptAdmit, Status, TypeOK
  <2>2. Status' = [Status EXCEPT ![c] = Status'[c]]
    BY <1>2, StatusMoves DEF AcceptAdmit, Stages, LiveStages
  <2>3. Pool!Cardinality(Pool!Served) < MaxConnections
    BY <1>2, PoolLoad, ServerAssumption DEF AcceptAdmit, TypeOK
  <2>4. Pool!Admit(c)
    BY <1>1, <2>1, <2>2, <2>3 DEF Pool!Admit
  <2> QED
    BY <2>4 DEF Pool!PoolNext
<1>3. CASE AcceptReject(c)
  <2>1. Status'[c] = "done"
    BY <1>3, StatusOf DEF AcceptReject, Status, TypeOK
  <2>2. Status' = [Status EXCEPT ![c] = Status'[c]]
    BY <1>3, StatusMoves DEF AcceptReject, Stages
  <2>3. Pool!Cardinality(Pool!Served) = MaxConnections
    BY <1>3, PoolLoad, ServerAssumption DEF AcceptReject, TypeOK
  <2>4. Pool!TurnAway(c)
    BY <1>1, <2>1, <2>2, <2>3 DEF Pool!TurnAway
  <2> QED
    BY <2>4 DEF Pool!PoolNext
<1> QED
  BY <1>2, <1>3

\* A session that moves on is still served, one that ends leaves the pool.
LEMMA SessionStepPool ==
  ASSUME IInv, IInv', NEW c \in Conns, SessionStep(c)
  PROVE  Pool!PoolNext \/ UNCHANGED <<Phase, Status>>
<1> USE DEF IInv
<1>1. conn[c] \in LiveStages
  BY DEF SessionStep, HandshakeOutcome, TlsAccepted, HandshakeFails, HandshakeTimeout,
         AlpnOutcome, AlpnValidated, AlpnRefused, AgentOutcome, AgentConnected,
         AgentFails, RelayCancelled, RelayEnd, LiveStages
<1>2. Status[c] = "served"
  BY <1>1, StatusOf
<1>3. ASSUME NEW stage \in LiveStages, conn' = [conn EXCEPT ![c] = stage],
             main' = main
      PROVE  UNCHANGED <<Phase, Status>>
  <2>1. Status'[c] = "served"
    BY <1>3, StatusOf DEF Status, TypeOK, LiveStages
  <2>2. Status' = [Status EXCEPT ![c] = Status'[c]]
    BY <1>3, StatusMoves DEF Stages
  <2> QED
    BY <1>2, <1>3, <2>1, <2>2 DEF Phase, Status
<1>4. CASE EndSession(c)
  <2>1. Status'[c] = "done"
    BY <1>4, StatusOf DEF EndSession, Status, TypeOK
  <2>2. main # "exited"
    BY <1>1 DEF Live, Unnoticed
  <2>3. Phase # "closed" /\ Phase' = Phase
    BY <1>4, <2>2 DEF EndSession, Phase, TypeOK
  <2>4. Status' = [Status EXCEPT ![c] = Status'[c]]
    BY <1>4, StatusMoves DEF EndSession, Stages
  <2>5. Pool!Leave(c)
    BY <1>2, <2>1, <2>3, <2>4 DEF Pool!Leave
  <2> QED
    BY <2>5 DEF Pool!PoolNext
<1> QED
  BY <1>3, <1>4 DEF SessionStep, HandshakeOutcome, TlsAccepted, HandshakeFails,
     HandshakeTimeout, AlpnOutcome, AlpnValidated, AlpnRefused, AgentOutcome,
     AgentConnected, AgentFails, RelayCancelled, RelayEnd, LiveStages, MoveSession

\* Every step of the server is a step of the pool or leaves it as it is.
LEMMA NextPool == IInv /\ IInv' /\ [Next]_vars => [Pool!PoolNext]_(Pool!poolVars)
<1> SUFFICES ASSUME IInv, IInv', [Next]_vars
             PROVE  Pool!PoolNext \/ UNCHANGED <<Phase, Status>>
  BY DEF Pool!poolVars
<1> USE DEF IInv
<1>1. CASE StartFails \/ DrainDone \/ DrainTimeout
  <2>1. Exit /\ main \notin {"exited"}
    BY <1>1 DEF StartFails, DrainDone, DrainTimeout
  <2>2. Phase # "closed" /\ Phase' = "closed"
    BY <2>1 DEF Exit, Phase, TypeOK
  <2>3. \A c \in Conns : Status'[c] = IF Status[c] \in {"waiting", "served"}
                                      THEN "done" ELSE Status[c]
    BY <2>1, StatusOf DEF Exit, Status, TypeOK, Stages, LiveStages
  <2>4. Pool!Close
    BY <2>2, <2>3 DEF Pool!Close, Status
  <2> QED
    BY <2>4 DEF Pool!PoolNext
<1>2. CASE Start \/ Signal \/ Terminated \/ UNCHANGED vars
  BY <1>2 DEF Start, Signal, Terminated, vars, Phase, Status
<1>3. CASE LoopNotice
  <2>1. Pool!BeginClosing
    BY <1>3 DEF LoopNotice, Pool!BeginClosing, Phase, Status
  <2> QED
    BY <2>1 DEF Pool!PoolNext
<1>4. ASSUME NEW c \in Conns, Connect(c) PROVE Pool!PoolNext
  <2>1. Status[c] = "idle" /\ Status'[c] = "waiting"
    BY <1>4, StatusOf DEF Connect, Status, TypeOK
  <2>2. Phase # "closed" /\ Phase' = Phase
    BY <1>4 DEF Connect, Phase
  <2>3. Status' = [Status EXCEPT ![c] = Status'[c]]
    BY <1>4, StatusMoves DEF Connect, Stages
  <2>4. Pool!Arrive(c)
    BY <2>1, <2>2, <2>3 DEF Pool!Arrive
  <2> QED
    BY <2>4 DEF Pool!PoolNext
<1>5. ASSUME NEW c \in Conns, Reap(c) PROVE UNCHANGED <<Phase, Status>>
  BY <1>5 DEF Reap, Phase, Status
<1> QED
  BY <1>1, <1>2, <1>3, <1>4, <1>5, AcceptPool, SessionStepPool DEF Next, LoopStep

\* The server implements the pool: a limit, one service per connection, no
\* admission while closing, and nobody left when it is closed.
THEOREM ServerImplementsPool == Spec => PoolSpec
<1> QED
  BY InitPool, NextPool, SpecIInv, PTL DEF Spec, PoolSpec, Pool!PoolSpec
=============================================================================
