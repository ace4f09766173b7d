------------------------- MODULE ClientBridgeProofs -------------------------
(***************************************************************************)
(* Theorems about ClientBridge, for every set of connections and every     *)
(* limit.  IInv is the inductive invariant: beside the properties it says  *)
(* that no receiver that still matters has used up its notification, and   *)
(* that the loop drains only when there was one.                           *)
(***************************************************************************)
EXTENDS ClientBridge, FiniteSetTheorems, TLAPS

\* The accept loop has not been notified while it runs, and neither has a
\* session that is still served; a drain has a cause.  An exited process
\* serves nobody.
Unnoticed ==
  /\ main \in {"starting", "running"} => ~seen[Loop]
  /\ \A c \in Live : ~seen[c]
  /\ main = "draining" => sent \/ closed
  /\ main = "exited" => Live = {}

IInv ==
  /\ TypeOK
  /\ IsFiniteSet(Live)
  /\ PermitAccounting
  /\ LiveHaveTasks
  /\ Unnoticed

-----------------------------------------------------------------------------
(***************************************************************************)
(* How the set of served connections changes with one connection's stage.  *)
(***************************************************************************)

\* A connection that enters a served stage is added to Live.
LEMMA LiveGrows ==
  ASSUME TypeOK, NEW c \in Conns, c \notin Live,
         NEW stage \in LiveStages, conn' = [conn EXCEPT ![c] = stage]
  PROVE  Live' = Live \cup {c}
BY DEF Live, TypeOK

\* A connection that is closed is removed from Live.
LEMMA LiveShrinks ==
  ASSUME TypeOK, NEW c \in Conns, conn' = [conn EXCEPT ![c] = "closed"]
  PROVE  Live' = Live \ {c}
BY DEF Live, TypeOK, LiveStages

\* Moves within the served stages, and outside them, leave Live as it is.
LEMMA LiveStays ==
  ASSUME TypeOK, NEW c \in Conns, NEW stage,
         conn[c] \in LiveStages <=> stage \in LiveStages,
         conn' = [conn EXCEPT ![c] = stage]
  PROVE  Live' = Live
BY DEF Live, TypeOK

\* The process that exits leaves nobody served.
LEMMA LiveEmpties ==
  ASSUME NEW outcome, NEW left, Exit(outcome, left)
  PROVE  Live' = {}
BY DEF Live, Exit, LiveStages

-----------------------------------------------------------------------------
\* The initial states satisfy the inductive invariant.
LEMMA InitIInv == Init => IInv
<1> SUFFICES ASSUME Init PROVE IInv
  OBVIOUS
<1>1. Live = {}
  BY DEF Init, Live, LiveStages
<1>2. TypeOK
  <2>1. permits \in 0..MaxConnections
    BY ClientAssumption DEF Init
  <2>2. Watch!WatchTypeOK
    BY DEF Init, Watch!WatchInit, Watch!WatchTypeOK
  <2>3. conn \in [Conns -> Stages]
    BY DEF Init, Stages
  <2> QED
    BY <2>1, <2>2, <2>3 DEF Init, TypeOK
<1>3. IsFiniteSet(Live) /\ PermitAccounting
  BY <1>1, FS_EmptySet, ClientAssumption DEF Init, PermitAccounting
<1>4. LiveHaveTasks /\ Unnoticed
  BY <1>1 DEF Init, LiveHaveTasks, Unnoticed, Watch!WatchInit
<1> QED
  BY <1>2, <1>3, <1>4 DEF IInv

\* Leaving the function keeps the inductive invariant.
LEMMA ExitIInv ==
  ASSUME IInv, NEW outcome \in {"ok", "error"},
         NEW left \in {"absent", "stale", "owned", "foreign"},
         Exit(outcome, left), UNCHANGED watchVars
  PROVE  IInv'
<1>1. Live' = {}
  BY LiveEmpties
<1>2. TypeOK'
  BY ClientAssumption DEF IInv, TypeOK, Exit, watchVars, Stages, Watch!WatchTypeOK
<1>3. IsFiniteSet(Live)' /\ PermitAccounting'
  BY <1>1, FS_EmptySet, ClientAssumption DEF Exit, PermitAccounting
<1>4. LiveHaveTasks' /\ Unnoticed'
  BY <1>1 DEF Exit, LiveHaveTasks, Unnoticed
<1> QED
  BY <1>2, <1>3, <1>4 DEF IInv

\* Admitting a connection takes the permit its session will give back, and
\* hands it a receiver that has seen no more than the loop has.
LEMMA AdmitIInv ==
  ASSUME IInv, NEW c \in Conns, AcceptAdmit(c)
  PROVE  IInv'
<1> USE DEF IInv
<1>1. c \notin Live
  BY DEF AcceptAdmit, Live, LiveStages
<1>2. Live' = Live \cup {c}
  BY <1>1, LiveGrows DEF AcceptAdmit, LiveStages
<1>3. permits \in Nat /\ permits > 0 /\ permits' = permits - 1
  BY ClientAssumption DEF AcceptAdmit, PermitFree, TypeOK
<1>4. TypeOK'
  <2>1. seen' \in [Conns \cup {Loop} -> BOOLEAN]
    BY DEF AcceptAdmit, HandReceiver, TypeOK, Watch!CloneFrom, Watch!WatchTypeOK
  <2>2. permits' \in 0..MaxConnections
    BY <1>3, ClientAssumption DEF TypeOK
  <2> QED
    BY <2>1, <2>2 DEF AcceptAdmit, HandReceiver, TypeOK, Watch!CloneFrom, Watch!WatchTypeOK,
                      Stages, LiveStages
<1>5. IsFiniteSet(Live') /\ Cardinality(Live') = Cardinality(Live) + 1
  BY <1>1, <1>2, FS_AddElement
<1>6. PermitAccounting'
  BY <1>3, <1>5, FS_CardinalityType, ClientAssumption DEF PermitAccounting
<1>7. LiveHaveTasks'
  BY <1>2 DEF AcceptAdmit, LiveHaveTasks
<1>8. Unnoticed'
  BY <1>2, ClientAssumption
  DEF AcceptAdmit, HandReceiver, Unnoticed, TypeOK, Watch!CloneFrom,
      Watch!WatchTypeOK, Live
<1> QED
  BY <1>4, <1>5, <1>6, <1>7, <1>8

\* A session that ends, in whatever way, gives one permit back.
LEMMA EndIInv ==
  ASSUME IInv, NEW c \in Live, EndSession(c),
         UNCHANGED watchVars \/ Watch!TakeNotice(c)
  PROVE  IInv'
<1> USE DEF IInv
<1>1. c \in Conns
  BY DEF Live
<1>2. Live' = Live \ {c}
  BY <1>1, LiveShrinks DEF EndSession
<1>3. IsFiniteSet(Live') /\ Cardinality(Live') = Cardinality(Live) - 1
  BY <1>2, FS_RemoveElement
<1>4. Cardinality(Live') \in Nat /\ Cardinality(Live) \in Nat
  BY <1>3, FS_CardinalityType
<1>5. permits \in Nat /\ permits' = permits + 1
  BY ClientAssumption DEF EndSession, ReleasePermit, TypeOK
<1>6. PermitAccounting'
  BY <1>3, <1>4, <1>5, ClientAssumption DEF PermitAccounting
<1>7. TypeOK'
  <2>1. permits' \in 0..MaxConnections
    BY <1>4, <1>5, <1>6, ClientAssumption DEF PermitAccounting
  <2>2. Watch!WatchTypeOK'
    BY DEF TypeOK, watchVars, Watch!TakeNotice, Watch!WatchTypeOK
  <2> QED
    BY <2>1, <2>2 DEF EndSession, TypeOK, Stages
<1>8. LiveHaveTasks'
  BY <1>2 DEF EndSession, LiveHaveTasks
<1>9. \A r \in (Conns \cup {Loop}) \ {c} : seen'[r] = seen[r]
  BY DEF watchVars, Watch!TakeNotice, TypeOK, Watch!WatchTypeOK
<1>10. Unnoticed'
  BY <1>1, <1>2, <1>9, ClientAssumption
  DEF EndSession, Unnoticed, Live, watchVars, Watch!TakeNotice
<1> QED
  BY <1>3, <1>6, <1>7, <1>8, <1>10

\* A step that leaves tasks, permits, the phase and the watch alone, and
\* neither serves nor ends a connection, keeps the inductive invariant.
LEMMA StageIInv ==
  ASSUME IInv, TypeOK', Live' = Live,
         UNCHANGED <<main, tasks, permits, sent, closed, seen>>
  PROVE  IInv'
BY DEF IInv, PermitAccounting, LiveHaveTasks, Unnoticed

\* A session that moves from one served stage to another.
LEMMA MoveIInv ==
  ASSUME IInv, NEW c \in Live, NEW stage \in LiveStages, MoveSession(c, stage)
  PROVE  IInv'
<1>1. c \in Conns /\ conn[c] \in LiveStages
  BY DEF Live
<1>2. Live' = Live
  BY <1>1, LiveStays DEF IInv, MoveSession
<1>3. TypeOK'
  BY <1>1 DEF IInv, MoveSession, TypeOK, Stages, watchVars, Watch!WatchTypeOK
<1> QED
  BY <1>2, <1>3, StageIInv DEF MoveSession, watchVars

\* A step that only moves unserved connections, or the path.
LEMMA UnservedIInv ==
  ASSUME IInv, UNCHANGED <<main, result, tasks, permits, sent, closed, seen>>,
         path' \in {"absent", "stale", "owned", "foreign"},
         conn' \in [Conns -> Stages],
         \A d \in Conns : conn'[d] # conn[d] =>
           conn[d] \notin LiveStages /\ conn'[d] \notin LiveStages
  PROVE  IInv'
<1>1. Live' = Live
  BY DEF Live
<1>2. TypeOK'
  BY DEF IInv, TypeOK, Watch!WatchTypeOK
<1> QED
  BY <1>1, <1>2, StageIInv

-----------------------------------------------------------------------------
\* Every step keeps the inductive invariant.
LEMMA NextIInv == IInv /\ [Next]_vars => IInv'
<1> SUFFICES ASSUME IInv, [Next]_vars PROVE IInv'
  OBVIOUS
<1>t. TypeOK /\ path \in {"absent", "stale", "owned", "foreign"} /\ conn \in [Conns -> Stages]
  BY DEF IInv, TypeOK
<1>1. CASE StartFails
  <2>1. PICK left \in {"absent", "stale", "owned", "foreign"} : Exit("error", left)
    BY <1>1, <1>t DEF StartFails
  <2> QED
    BY <1>1, <2>1, ExitIInv DEF StartFails
<1>2. CASE Start
  <2>1. Live' = Live
    BY <1>2 DEF Start, Live
  <2>2. TypeOK'
    BY <1>2 DEF Start, IInv, TypeOK, watchVars, Watch!WatchTypeOK
  <2> QED
    BY <1>2, <2>1, <2>2
    DEF Start, IInv, PermitAccounting, LiveHaveTasks, Unnoticed, watchVars
<1>3. ASSUME NEW c \in Conns, Connect(c) PROVE IInv'
  BY <1>3, <1>t, UnservedIInv DEF Connect, watchVars, Stages, LiveStages
<1>4. ASSUME NEW c \in Conns, SessionStep(c) PROVE IInv'
  <2>1. CASE EstablishOk(c) \/ EstablishTransient(c) \/ BackoffElapsed(c)
    <3>1. c \in Live
      BY <2>1 DEF EstablishOk, EstablishTransient, BackoffElapsed, Live, LiveStages
    <3>2. PICK stage \in LiveStages : MoveSession(c, stage)
      BY <2>1 DEF EstablishOk, EstablishTransient, BackoffElapsed, LiveStages
    <3> QED
      BY <3>1, <3>2, MoveIInv
  <2>2. CASE EstablishGivesUp(c) \/ BackoffExhausted(c) \/ RelayEnd(c)
    <3>1. c \in Live /\ EndSession(c) /\ UNCHANGED watchVars
      BY <2>2 DEF EstablishGivesUp, BackoffExhausted, RelayEnd, Live, LiveStages
    <3> QED
      BY <3>1, EndIInv
  <2>3. CASE SessionCancelled(c)
    <3>1. c \in Live /\ EndSession(c) /\ Watch!TakeNotice(c)
      BY <2>3 DEF SessionCancelled, Live, LiveStages
    <3> QED
      BY <3>1, EndIInv
  <2> QED
    BY <1>4, <2>1, <2>2, <2>3 DEF SessionStep, EstablishOutcome, BackoffOutcome
<1>5. CASE PathUnlinked \/ PathTaken
  BY <1>5, <1>t, UnservedIInv DEF PathUnlinked, PathTaken, watchVars
<1>6. CASE Signal
  <2>1. Live' = Live
    BY <1>6 DEF Signal, Live
  <2>2. TypeOK'
    BY <1>6 DEF Signal, IInv, TypeOK, Watch!SendShutdown, Watch!DropSender,
                Watch!WatchTypeOK
  <2> QED
    BY <1>6, <2>1, <2>2
    DEF Signal, IInv, PermitAccounting, LiveHaveTasks, Unnoticed,
        Watch!SendShutdown, Watch!DropSender
<1>7. CASE LoopStep
  <2>1. CASE LoopNotice
    <3>1. Live' = Live
      BY <2>1 DEF LoopNotice, Live
    <3>2. TypeOK'
      BY <2>1 DEF LoopNotice, IInv, TypeOK, Watch!TakeNotice, Watch!WatchTypeOK
    <3>3. Unnoticed'
      <4>1. \A d \in Conns : seen'[d] = seen[d]
        BY <2>1, ClientAssumption
        DEF LoopNotice, IInv, TypeOK, Watch!TakeNotice, Watch!WatchTypeOK
      <4>2. sent' \/ closed'
        BY <2>1 DEF LoopNotice, Watch!TakeNotice, Watch!ChangedReady
      <4> QED
        BY <2>1, <3>1, <4>1, <4>2 DEF LoopNotice, IInv, Unnoticed, Live
    <3> QED
      BY <2>1, <3>1, <3>2, <3>3 DEF LoopNotice, IInv, PermitAccounting, LiveHaveTasks
  <2>2. CASE MonitorRebinds
    BY <2>2, <1>t, UnservedIInv DEF MonitorRebinds, watchVars, Stages, LiveStages
  <2>3. CASE MonitorFails
    <3>1. PICK left \in {"absent", "stale", "owned", "foreign"} : Exit("error", left)
      BY <2>3, <1>t DEF MonitorFails
    <3> QED
      BY <2>3, <3>1, ExitIInv DEF MonitorFails
  <2>4. ASSUME NEW c \in Conns, AcceptAdmit(c) PROVE IInv'
    BY <2>4, AdmitIInv
  <2>5. ASSUME NEW c \in Conns, AcceptReject(c) PROVE IInv'
    BY <2>5, <1>t, UnservedIInv DEF AcceptReject, watchVars, Stages, LiveStages
  <2>6. ASSUME NEW c \in Conns, Reap(c) PROVE IInv'
    <3>1. Live' = Live
      BY <2>6 DEF Reap, Live
    <3>2. TypeOK'
      BY <2>6 DEF Reap, IInv, TypeOK, watchVars, Watch!WatchTypeOK
    <3> QED
      BY <2>6, <3>1, <3>2
      DEF Reap, IInv, PermitAccounting, LiveHaveTasks, Unnoticed, watchVars
  <2>7. CASE DrainDone \/ DrainTimeout
    <3>1. PathDropped \in {"absent", "stale", "owned", "foreign"}
      BY <1>t DEF PathDropped
    <3>2. Exit("ok", PathDropped) /\ UNCHANGED watchVars
      BY <2>7 DEF DrainDone, DrainTimeout
    <3> QED
      BY <3>1, <3>2, ExitIInv
  <2> QED
    BY <1>7, <2>1, <2>2, <2>3, <2>4, <2>5, <2>6, <2>7 DEF LoopStep
<1>8. CASE Terminated \/ UNCHANGED vars
  BY <1>8, <1>t, UnservedIInv DEF Terminated, vars
<1> QED
  BY <1>1, <1>2, <1>3, <1>4, <1>5, <1>6, <1>7, <1>8 DEF Next

\* The inductive invariant holds in every reachable state.
THEOREM SpecIInv == Spec => []IInv
<1> QED
  BY InitIInv, NextIInv, PTL DEF Spec

-----------------------------------------------------------------------------
(***************************************************************************)
(* The properties.                                                         *)
(***************************************************************************)

\* Every variable of the client stays in its type, and the semaphore never
\* holds more permits than it was created with.
THEOREM ClientTypeOK == Spec => []TypeOK
<1>1. IInv => TypeOK
  BY DEF IInv
<1> QED
  BY <1>1, SpecIInv, PTL

\* Permits and served connections balance for every limit: no way for a
\* session to end loses its permit or returns it twice; and every served
\* connection has its task in the JoinSet.
THEOREM ClientServedAccounted == Spec => []ServedAccounted
<1>1. IInv => ServedAccounted
  BY DEF IInv, ServedAccounted
<1> QED
  BY <1>1, SpecIInv, PTL

\* A session spawned while the shutdown is on its way still gets it.
THEOREM ClientNoLostShutdown == Spec => []NoLostShutdown
<1>1. IInv => NoLostShutdown
  BY DEF IInv, Unnoticed, NoLostShutdown, Watch!ChangedReady
<1> QED
  BY <1>1, SpecIInv, PTL

\* Once a relay has begun, its connection is never established again.
THEOREM ClientNoReplay == Spec => NoReplay
<1>1. TypeOK /\ [Next]_vars =>
        [\A c \in Conns : conn[c] = "relaying" => conn'[c] \in {"relaying", "closed"}]_vars
  <2> SUFFICES ASSUME TypeOK, Next, NEW c \in Conns, conn[c] = "relaying"
               PROVE  conn'[c] \in {"relaying", "closed"}
    BY DEF vars
  <2>1. CASE StartFails \/ MonitorFails \/ DrainDone \/ DrainTimeout
    BY <2>1 DEF StartFails, MonitorFails, DrainDone, DrainTimeout, Exit
  <2>2. CASE Start \/ PathUnlinked \/ PathTaken \/ Signal \/ LoopNotice \/ Terminated
    BY <2>2 DEF Start, PathUnlinked, PathTaken, Signal, LoopNotice, Terminated, vars
  <2>3. CASE MonitorRebinds
    BY <2>3 DEF MonitorRebinds
  <2>4. ASSUME NEW d \in Conns,
               Connect(d) \/ AcceptAdmit(d) \/ AcceptReject(d) \/ Reap(d)
        PROVE  conn'[c] \in {"relaying", "closed"}
    BY <2>4 DEF Connect, AcceptAdmit, AcceptReject, Reap, TypeOK
  <2>5. ASSUME NEW d \in Conns, SessionStep(d)
        PROVE  conn'[c] \in {"relaying", "closed"}
    BY <2>5 DEF SessionStep, EstablishOutcome, EstablishOk, EstablishTransient,
                EstablishGivesUp, BackoffOutcome, BackoffElapsed, BackoffExhausted,
                SessionCancelled, RelayEnd, EndSession, MoveSession, TypeOK
  <2> QED
    BY <2>1, <2>2, <2>3, <2>4, <2>5 DEF Next, LoopStep
<1> QED
  BY <1>1, ClientTypeOK, PTL DEF Spec, NoReplay

\* The drain never ends on a running relay: every relay still running has
\* its notification ahead of it, and the timeout finds it gone.
THEOREM ClientRelaysCancelled == Spec => RelaysCancelledNotAborted
<1>1. IInv /\ [Next]_vars =>
        [main = "draining" /\ main' = "exited" =>
           \A c \in Conns : conn[c] # "relaying"]_vars
  <2> SUFFICES ASSUME IInv, Next, main = "draining", main' = "exited",
                      NEW c \in Conns, conn[c] = "relaying"
               PROVE  FALSE
    BY DEF vars
  <2>1. c \in Live
    BY DEF Live, LiveStages
  <2>2. c \in tasks /\ Watch!ChangedReady(c)
    BY <2>1 DEF IInv, LiveHaveTasks, Unnoticed, Watch!ChangedReady
  <2>3. DrainDone \/ DrainTimeout
    BY DEF Next, StartFails, Start, Connect, SessionStep, PathUnlinked, PathTaken,
           Signal, LoopStep, LoopNotice, MonitorRebinds, MonitorFails, AcceptAdmit,
           AcceptReject, Reap, Terminated, EstablishOutcome, EstablishOk,
           EstablishTransient, EstablishGivesUp, BackoffOutcome, BackoffElapsed,
           BackoffExhausted, SessionCancelled, RelayEnd, EndSession, MoveSession
  <2> QED
    BY <2>2, <2>3 DEF DrainDone, DrainTimeout
<1> QED
  BY <1>1, SpecIInv, PTL DEF Spec, RelaysCancelledNotAborted

-----------------------------------------------------------------------------
(***************************************************************************)
(* The client implements SessionPool.                                      *)
(***************************************************************************)

\* What the pool sees of one connection.
LEMMA StatusOf ==
  ASSUME TypeOK, NEW c \in Conns
  PROVE  /\ Status[c] = "waiting" <=> conn[c] = "pending"
         /\ Status[c] = "done" <=> conn[c] = "closed"
         /\ Status[c] = "idle" <=> conn[c] = "idle"
         /\ Status[c] = "served" <=> conn[c] \in LiveStages
         /\ Status[c] \in {"idle", "waiting", "served", "done"}
BY DEF Status, TypeOK, Stages, LiveStages

\* The connections the pool serves are the live ones.
LEMMA ServedIsLive == TypeOK => Pool!Served = Live
BY StatusOf DEF Pool!Served, Live

\* Through INSTANCE the pool has its own name for the same operator.
LEMMA PoolCardinality == \A S : Pool!Cardinality(S) = Cardinality(S)
BY DEF Pool!Cardinality, Cardinality

\* A step that moves one connection between stages moves its status.
LEMMA StatusMoves ==
  ASSUME TypeOK, TypeOK', NEW c \in Conns, NEW stage \in Stages,
         conn' = [conn EXCEPT ![c] = stage]
  PROVE  Status' = [Status EXCEPT ![c] = Status'[c]]
<1>1. \A d \in Conns : d # c => Status'[d] = Status[d]
  BY DEF Status, TypeOK
<1> QED
  BY <1>1 DEF Status

\* The initial states of the client are initial states of the pool.
LEMMA InitPool == Init => Pool!PoolInit
BY DEF Init, Pool!PoolInit, Phase, Status

\* Leaving the function closes the pool.
LEMMA ExitPool ==
  ASSUME IInv, IInv', main # "exited", NEW outcome, NEW left, Exit(outcome, left)
  PROVE  Pool!Close
<1>1. Phase # "closed" /\ Phase' = "closed"
  BY DEF Exit, Phase, IInv, TypeOK
<1>2. \A c \in Conns : Status'[c] = IF Status[c] \in {"waiting", "served"}
                                    THEN "done" ELSE Status[c]
  BY StatusOf DEF Exit, Status, IInv, TypeOK, Stages, LiveStages
<1> QED
  BY <1>1, <1>2 DEF Pool!Close, Status

\* Every step of the client is a step of the pool or leaves it as it is.
LEMMA NextPool == IInv /\ IInv' /\ [Next]_vars => [Pool!PoolNext]_(Pool!poolVars)
<1> SUFFICES ASSUME IInv, IInv', [Next]_vars
             PROVE  Pool!PoolNext \/ UNCHANGED <<Phase, Status>>
  BY DEF Pool!poolVars
<1> USE DEF IInv
<1>1. CASE StartFails \/ MonitorFails \/ DrainDone \/ DrainTimeout
  <2>1. Pool!Close
    BY <1>1, ExitPool DEF StartFails, MonitorFails, DrainDone, DrainTimeout
  <2> QED
    BY <2>1 DEF Pool!PoolNext
<1>2. CASE Start \/ PathUnlinked \/ PathTaken \/ Signal \/ Terminated \/ UNCHANGED vars
  BY <1>2 DEF Start, PathUnlinked, PathTaken, Signal, Terminated, vars, Phase, Status
<1>3. CASE LoopNotice
  <2>1. Pool!BeginClosing
    BY <1>3 DEF LoopNotice, Pool!BeginClosing, Phase, Status
  <2> QED
    BY <2>1 DEF Pool!PoolNext
<1>4. CASE MonitorRebinds
  <2>1. \A c \in Conns : Status'[c] = IF Status[c] = "waiting" THEN "done" ELSE Status[c]
    BY <1>4, StatusOf DEF MonitorRebinds, Status, TypeOK, Stages, LiveStages
  <2>2. Pool!ResetBacklog
    BY <1>4, <2>1 DEF MonitorRebinds, Pool!ResetBacklog, Phase, Status
  <2> QED
    BY <2>2 DEF Pool!PoolNext
<1>5. ASSUME NEW c \in Conns, Connect(c) PROVE Pool!PoolNext
  <2>1. Status[c] = "idle" /\ Status'[c] = "waiting"
    BY <1>5, StatusOf DEF Connect, Status, TypeOK
  <2>2. Phase # "closed" /\ Phase' = Phase
    BY <1>5 DEF Connect, Phase
  <2>3. Status' = [Status EXCEPT ![c] = Status'[c]]
    BY <1>5, StatusMoves DEF Connect, Stages
  <2>4. Pool!Arrive(c)
    BY <2>1, <2>2, <2>3 DEF Pool!Arrive
  <2> QED
    BY <2>4 DEF Pool!PoolNext
<1>6. ASSUME NEW c \in Conns, AcceptAdmit(c) PROVE Pool!PoolNext
  <2>1. Status[c] = "waiting" /\ Status'[c] = "served"
    BY <1>6, StatusOf DEF AcceptAdmit, Status, TypeOK
  <2>2. Phase = "open" /\ Phase' = Phase
    BY <1>6 DEF AcceptAdmit, Phase
  <2>3. Status' = [Status EXCEPT ![c] = Status'[c]]
    BY <1>6, StatusMoves DEF AcceptAdmit, Stages, LiveStages
  <2>4. Pool!Cardinality(Pool!Served) < MaxConnections
    BY <1>6, ServedIsLive, PoolCardinality, FS_CardinalityType, ClientAssumption
    DEF AcceptAdmit, PermitFree, PermitAccounting, TypeOK
  <2>5. Pool!Admit(c)
    BY <2>1, <2>2, <2>3, <2>4 DEF Pool!Admit
  <2> QED
    BY <2>5 DEF Pool!PoolNext
<1>7. ASSUME NEW c \in Conns, AcceptReject(c) PROVE Pool!PoolNext
  <2>1. Status[c] = "waiting" /\ Status'[c] = "done"
    BY <1>7, StatusOf DEF AcceptReject, Status, TypeOK
  <2>2. Phase = "open" /\ Phase' = Phase
    BY <1>7 DEF AcceptReject, Phase
  <2>3. Status' = [Status EXCEPT ![c] = Status'[c]]
    BY <1>7, StatusMoves DEF AcceptReject, Stages
  <2>4. Pool!Cardinality(Pool!Served) = MaxConnections
    BY <1>7, ServedIsLive, PoolCardinality, FS_CardinalityType, ClientAssumption
    DEF AcceptReject, PermitFree, PermitAccounting, TypeOK
  <2>5. Pool!TurnAway(c)
    BY <2>1, <2>2, <2>3, <2>4 DEF Pool!TurnAway
  <2> QED
    BY <2>5 DEF Pool!PoolNext
<1>8. ASSUME NEW c \in Conns, Reap(c) PROVE UNCHANGED <<Phase, Status>>
  BY <1>8 DEF Reap, Phase, Status
<1>9. ASSUME NEW c \in Conns, NEW stage \in LiveStages, conn[c] \in LiveStages,
             MoveSession(c, stage)
      PROVE  UNCHANGED <<Phase, Status>>
  <2>1. Status'[c] = "served" /\ Status[c] = "served"
    BY <1>9, StatusOf DEF MoveSession, Status, LiveStages, TypeOK
  <2>2. Status' = [Status EXCEPT ![c] = Status'[c]]
    BY <1>9, StatusMoves DEF MoveSession, Stages
  <2> QED
    BY <1>9, <2>1, <2>2 DEF MoveSession, Phase, Status
<1>10. ASSUME NEW c \in Conns, conn[c] \in LiveStages, EndSession(c)
       PROVE  Pool!PoolNext
  <2>1. Status[c] = "served" /\ Status'[c] = "done"
    BY <1>10, StatusOf DEF EndSession, Status, TypeOK
  <2>2. main # "exited"
    BY <1>10 DEF Live, Unnoticed
  <2>3. Phase # "closed" /\ Phase' = Phase
    BY <1>10, <2>2 DEF EndSession, Phase, TypeOK
  <2>4. Status' = [Status EXCEPT ![c] = Status'[c]]
    BY <1>10, StatusMoves DEF EndSession, Stages
  <2>5. Pool!Leave(c)
    BY <2>1, <2>3, <2>4 DEF Pool!Leave
  <2> QED
    BY <2>5 DEF Pool!PoolNext
<1>11. ASSUME NEW c \in Conns, SessionStep(c)
       PROVE  Pool!PoolNext \/ UNCHANGED <<Phase, Status>>
  BY <1>9, <1>10, <1>11
  DEF SessionStep, EstablishOutcome, EstablishOk, EstablishTransient, EstablishGivesUp,
      BackoffOutcome, BackoffElapsed, BackoffExhausted, SessionCancelled, RelayEnd,
      LiveStages
<1> QED
  BY <1>1, <1>2, <1>3, <1>4, <1>5, <1>6, <1>7, <1>8, <1>11 DEF Next, LoopStep

\* The client implements the pool: a limit, one service per connection, no
\* admission while closing, and nobody left when it is closed.
THEOREM ClientImplementsPool == Spec => PoolSpec
<1> QED
  BY InitPool, NextPool, SpecIInv, PTL DEF Spec, PoolSpec, Pool!PoolSpec
=============================================================================
