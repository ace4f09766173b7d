-------------------------- MODULE UnixSocketProofs --------------------------
(***************************************************************************)
(* What holds of the socket path however many clients share it.  The types *)
(* and what is known of inode numbers put no condition on Overlap: system  *)
(* calls, crashes and outsiders interleave in whatever order.  The rest is *)
(* about clients that take turns, Overlap = FALSE, and calls that may      *)
(* break off anywhere.                                                     *)
(*                                                                         *)
(* The argument for the drop that ends a rebind: the path led nowhere when *)
(* the rebind began, the old listener keeps its inode number from being    *)
(* given out again, so nothing bound since can be taken for it.  Turns are *)
(* needed for what the old listener remembered to be its own inode.        *)
(***************************************************************************)
EXTENDS UnixSocket, TLAPS

\* Nothing at the path has the inode of a listener that is being replaced.
OldNotAtPath == \A p \in Procs : old[p] # None => entry # old[p]

\* Between bind(2) and listen(2) there is a socket.
SockBound == \A p \in Procs : pc[p] = "bound" => sock[p] # None

IInv == TypeOK /\ OldNotAtPath /\ SockBound

LEMMA InitIInv == Init => IInv
<1> USE SocketAssumption
<1> QED BY DEF Init, IInv, TypeOK, OldNotAtPath, SockBound, Starting, Binding, Dropping,
               Resting

\* The part of a failed bind_new that every caller shares.
LEMMA BindFailsIInv ==
  ASSUME IInv, NEW p \in Procs, BindFails(p), UNCHANGED env
  PROVE  IInv'
<1> USE SocketAssumption
<1>1. TypeOK'
  BY DEF IInv, TypeOK, BindFails, Goto, env, Starting, Binding, Dropping, Resting
<1>2. OldNotAtPath'
  BY DEF IInv, TypeOK, OldNotAtPath, BindFails
<1>3. SockBound'
  BY DEF IInv, TypeOK, SockBound, BindFails, Goto
<1> QED BY <1>1, <1>2, <1>3 DEF IInv

LEMMA CloseAllIInv ==
  ASSUME IInv, NEW p \in Procs, CloseAll(p), meddles' = meddles, crashes' \in 0..MaxCrashes
  PROVE  IInv'
<1> USE SocketAssumption
<1>1. TypeOK'
  BY DEF IInv, TypeOK, CloseAll, Goto, Starting, Binding, Dropping, Resting
<1>2. OldNotAtPath'
  BY DEF IInv, TypeOK, OldNotAtPath, CloseAll
<1>3. SockBound'
  BY DEF IInv, TypeOK, SockBound, CloseAll, Goto
<1> QED BY <1>1, <1>2, <1>3 DEF IInv

\* A step that moves one process on, and leaves its listeners alone.
LEMMA GotoIInv ==
  ASSUME IInv, NEW p \in Procs,
         NEW label \in (Starting \cup Binding \cup Dropping \cup Resting) \ {"bound"},
         Goto(p, label),
         entry' \in {None, entry},
         listening' \subseteq Inodes, sock' = sock, old' = old,
         looked' \in [Procs -> Inodes \cup {None}],
         own' \in [Procs -> Inodes \cup {None, Other}],
         was' \in [Procs -> Inodes \cup {None, Other}],
         UNCHANGED env
  PROVE  IInv'
<1> USE SocketAssumption
<1>1. TypeOK'
  BY DEF IInv, TypeOK, Goto, env
<1>2. OldNotAtPath'
  BY DEF IInv, TypeOK, OldNotAtPath
<1>3. SockBound'
  BY DEF IInv, TypeOK, SockBound, Goto
<1> QED BY <1>1, <1>2, <1>3 DEF IInv

LEMMA StartIInv ==
  ASSUME IInv, NEW p \in Procs, StartStep(p)
  PROVE  IInv'
<1> USE SocketAssumption
<1> USE DEF Starting, Binding, Dropping, Resting
<1>1. CASE Look(p)
  <2>1. CASE entry = None
    BY <1>1, <2>1, GotoIInv DEF Look, IInv, TypeOK, fds
  <2>2. CASE entry = Other
    BY <1>1, <2>2, GotoIInv DEF Look, IInv, TypeOK, fds
  <2>3. CASE entry \in Inodes
    BY <1>1, <2>3, GotoIInv DEF Look, IInv, TypeOK, fds
  <2> QED BY <2>1, <2>2, <2>3 DEF IInv, TypeOK
<1>2. CASE Probe(p)
  BY <1>2, GotoIInv DEF Probe, IInv, TypeOK, fds
<1>3. CASE Recheck(p)
  BY <1>3, GotoIInv DEF Recheck, IInv, TypeOK, fds
<1>4. CASE Remove(p)
  BY <1>4, GotoIInv DEF Remove, IInv, TypeOK, fds
<1>5. CASE Bind(p)
  <2>1. CASE BindFails(p)
    BY <1>5, <2>1, BindFailsIInv DEF Bind
  <2>2. ASSUME NEW i \in FreeInodes, ~BindFails(p),
               entry' = i, sock' = [sock EXCEPT ![p] = i],
               Goto(p, "bound"), UNCHANGED <<listening, looked, own, old, was>>,
               UNCHANGED env
        PROVE  IInv'
    <3>1. i \in Inodes /\ \A q \in Procs : i # old[q]
      BY DEF FreeInodes, Held
    <3>2. TypeOK'
      BY <2>2, <3>1 DEF IInv, TypeOK, Goto, env
    <3>3. OldNotAtPath'
      BY <2>2, <3>1 DEF IInv, OldNotAtPath
    <3>4. SockBound'
      BY <2>2, <3>1 DEF IInv, TypeOK, SockBound, Goto
    <3> QED BY <3>2, <3>3, <3>4 DEF IInv
  <2> QED BY <1>5, <2>1, <2>2 DEF Bind
<1>6. CASE Listen(p)
  <2>1. sock[p] \in Inodes
    BY <1>6 DEF Listen, IInv, TypeOK, SockBound
  <2> QED BY <1>6, <2>1, GotoIInv DEF Listen, IInv, TypeOK
<1>7. CASE Restrict(p)
  <2>1. CASE BindFails(p)
    BY <1>7, <2>1, BindFailsIInv DEF Restrict
  <2>2. CASE ~BindFails(p)
    BY <1>7, <2>2, GotoIInv DEF Restrict, IInv, TypeOK, fds
  <2> QED BY <2>1, <2>2
<1>8. CASE Check(p)
  <2>1. CASE BindFails(p)
    BY <1>8, <2>1, BindFailsIInv DEF Check
  <2>2. CASE ~BindFails(p)
    BY <1>8, <2>2, GotoIInv DEF Check, IInv, TypeOK, fds
  <2> QED BY <2>1, <2>2
<1> QED BY <1>1, <1>2, <1>3, <1>4, <1>5, <1>6, <1>7, <1>8 DEF StartStep

LEMMA NextIInv == IInv /\ [Next]_vars => IInv'
<1> USE SocketAssumption
<1> SUFFICES ASSUME IInv, [Next]_vars PROVE IInv'
  OBVIOUS
<1>1. ASSUME NEW p \in Procs, StartStep(p) PROVE IInv'
  BY <1>1, StartIInv
<1>2. ASSUME NEW p \in Procs, CloseOld(p), UNCHANGED env PROVE IInv'
  <2>1. TypeOK'
    BY <1>2 DEF CloseOld, Goto, IInv, TypeOK, env, Starting, Binding, Dropping, Resting
  <2>2. OldNotAtPath'
    BY <1>2 DEF CloseOld, IInv, TypeOK, OldNotAtPath
  <2>3. SockBound'
    BY <1>2 DEF CloseOld, Goto, IInv, TypeOK, SockBound
  <2> QED BY <2>1, <2>2, <2>3 DEF IInv
<1>3. ASSUME NEW p \in Procs, Rebind(p) PROVE IInv'
  <2>1. TypeOK'
    BY <1>3 DEF Rebind, Goto, IInv, TypeOK, env, Starting, Binding, Dropping, Resting
  <2>2. OldNotAtPath'
    BY <1>3 DEF Rebind, IInv, TypeOK, OldNotAtPath
  <2>3. SockBound'
    BY <1>3 DEF Rebind, Goto, IInv, TypeOK, SockBound
  <2> QED BY <2>1, <2>2, <2>3 DEF IInv
<1>4. ASSUME NEW p \in Procs, Replaced(p) PROVE IInv'
  BY <1>4, GotoIInv DEF Replaced, IInv, TypeOK, fds, Starting, Binding, Dropping, Resting
<1>5. ASSUME NEW p \in Procs, Stop(p) PROVE IInv'
  BY <1>5, GotoIInv DEF Stop, IInv, TypeOK, fds, Starting, Binding, Dropping, Resting
<1>6. ASSUME NEW p \in Procs, DropLook(p) PROVE IInv'
  BY <1>6, GotoIInv DEF DropLook, IInv, TypeOK, fds, Starting, Binding, Dropping, Resting
<1>7. ASSUME NEW p \in Procs, DropUnlink(p) PROVE IInv'
  BY <1>7, GotoIInv DEF DropUnlink, IInv, TypeOK, fds, Starting, Binding, Dropping, Resting
<1>8. ASSUME NEW p \in Procs, DropClose(p) \/ Retry(p) PROVE IInv'
  BY <1>2, <1>8, CloseAllIInv DEF DropClose, Retry, env, IInv, TypeOK
<1>9. ASSUME NEW p \in Procs, Crash(p) PROVE IInv'
  <2>1. crashes' \in 0..MaxCrashes
    BY <1>9 DEF Crash, IInv, TypeOK
  <2> QED BY <1>9, <2>1, CloseAllIInv DEF Crash
<1>10. CASE Meddle
  <2>1. TypeOK'
    BY <1>10 DEF Meddle, IInv, TypeOK
  <2>2. OldNotAtPath'
    BY <1>10 DEF Meddle, IInv, TypeOK, OldNotAtPath
  <2>3. SockBound'
    BY <1>10 DEF Meddle, IInv, SockBound
  <2> QED BY <2>1, <2>2, <2>3 DEF IInv
<1>11. CASE UNCHANGED vars
  BY <1>11 DEF vars, IInv, TypeOK, OldNotAtPath, SockBound
<1> QED
  BY <1>1, <1>2, <1>3, <1>4, <1>5, <1>6, <1>7, <1>8, <1>9, <1>10, <1>11
     DEF Next, DropStep

THEOREM SpecIInv == Spec => []IInv
<1>1. Init => IInv
  BY InitIInv
<1>2. IInv /\ [Next]_vars => IInv'
  BY NextIInv
<1> QED BY <1>1, <1>2, PTL DEF Spec

\* The types are right for any number of clients, inodes and crashes
\* (unix_socket.rs:24-148).
THEOREM SocketTypeOK == Spec => []TypeOK
<1>1. IInv => TypeOK
  BY DEF IInv
<1> QED BY <1>1, SpecIInv, PTL

-----------------------------------------------------------------------------
(***************************************************************************)
(* While clients take turns.                                               *)
(*                                                                         *)
(* Overlap = FALSE keeps starts, rebinds, stops and outsiders apart.  It   *)
(* does not make one client act alone: a running client finds at any time  *)
(* that its entry was replaced and begins to drop its listener, and any    *)
(* client crashes at any time.  What makes this harmless is that a client  *)
(* which drops a listener that is no longer at the path does nothing to    *)
(* the path: of those that may, Acting, there is one at a time.            *)
(***************************************************************************)

Acting(p) ==
  \/ pc[p] \in Starting \cup Binding \cup {"unlinking"}
  \/ pc[p] = "dropping" /\ entry = own[p]

Turn == \A p, q \in Procs : Acting(p) /\ Acting(q) => p = q

\* No two listeners, and none and the one it replaces, have the same inode.
Apart ==
  \A p, q \in Procs :
    /\ sock[p] # None => sock[p] # old[q] /\ (p # q => sock[p] # sock[q])
    /\ old[p] # None /\ p # q => old[p] # old[q]

\* What a client relies on in each place: about the path, its listener, and
\* the one it replaces.
Place(p) ==
  /\ pc[p] \in Starting =>
       /\ entry = looked[p] /\ entry \in Inodes
       /\ pc[p] # "probing" => entry \notin listening
  /\ pc[p] \in Starting \cup {"idle", "failed", "binding"} => sock[p] = None
  /\ pc[p] = "binding" => entry = None
  /\ pc[p] \in Binding \ {"binding"} => sock[p] \in Inodes /\ entry = sock[p]
  /\ pc[p] \in (Binding \ {"binding", "bound"}) \cup Dropping \cup {"running"} =>
       sock[p] \in listening
  /\ pc[p] \in {"running"} \cup Dropping => own[p] = sock[p]
  /\ pc[p] = "unlinking" => entry = own[p]
  /\ old[p] # None =>
       /\ old[p] \in listening
       /\ \/ pc[p] \in Binding /\ own[p] = old[p]
          \/ pc[p] \in {"dropping", "closing"} /\ was[p] = old[p]

Orderly == Turn /\ Apart /\ \A p \in Procs : Place(p)

LEMMA InitOrderly == Init => Orderly
BY SocketAssumption
   DEF Init, Orderly, Turn, Apart, Place, Acting, Starting, Binding, Dropping

\* Only p has moved.
OnlyMoves(p) ==
  \A q \in Procs \ {p} :
    /\ pc'[q] = pc[q] /\ looked'[q] = looked[q]
    /\ sock'[q] = sock[q] /\ own'[q] = own[q]
    /\ old'[q] = old[q] /\ was'[q] = was[q]

\* What a step of one client leaves to the others: it closes only its own
\* listeners, and touches the path only when it is its turn.
LEMMA OthersKept ==
  ASSUME TypeOK, Orderly, NEW p \in Procs, OnlyMoves(p),
         listening \ {sock[p], old[p]} \subseteq listening',
         listening' \subseteq listening \/ Acting(p),
         entry' # entry => Acting(p),
         NEW q \in Procs \ {p}
  PROVE  Place(q)'
<1> USE SocketAssumption DEF OnlyMoves
<1>1. /\ pc'[q] = pc[q] /\ looked'[q] = looked[q]
      /\ sock'[q] = sock[q] /\ own'[q] = own[q]
      /\ old'[q] = old[q] /\ was'[q] = was[q]
  OBVIOUS
<1>2. Place(q) /\ sock[q] \in Inodes \cup {None} /\ old[q] \in Inodes \cup {None}
  BY DEF Orderly, TypeOK
<1>3. sock[q] \in listening => sock[q] \in listening'
  BY <1>2 DEF Orderly, Apart, TypeOK
<1>4. old[q] # None /\ old[q] \in listening => old[q] \in listening'
  BY <1>2 DEF Orderly, Apart
<1>5. Acting(q) => entry' = entry /\ listening' \subseteq listening
  BY DEF Orderly, Turn
<1> QED BY <1>1, <1>2, <1>3, <1>4, <1>5
        DEF Place, Acting, Starting, Binding, Dropping

\* A step of one client keeps the order if it does so for that client.
LEMMA OneActs ==
  ASSUME TypeOK, Orderly, NEW p \in Procs, OnlyMoves(p),
         listening \ {sock[p], old[p]} \subseteq listening',
         listening' \subseteq listening \/ Acting(p),
         entry' # entry => Acting(p) /\ (entry' = None \/ \A q \in Procs : entry' # sock[q]),
         Acting(p)' => Acting(p) \/ \A q \in Procs \ {p} : ~Acting(q),
         Place(p)', Apart'
  PROVE  Orderly'
<1> USE SocketAssumption
<1>1. ASSUME NEW q \in Procs PROVE Place(q)'
  BY <1>1, OthersKept
<1>2. ASSUME NEW q \in Procs \ {p}, Acting(q)' PROVE Acting(q)
  <2>1. pc'[q] = pc[q] /\ own'[q] = own[q]
    BY DEF OnlyMoves
  <2>2. pc[q] = "dropping" => own[q] = sock[q] /\ sock[q] \in Inodes
    BY DEF Orderly, Place, TypeOK, Dropping
  <2> QED BY <1>2, <2>1, <2>2 DEF Acting
<1>3. Turn'
  BY <1>2 DEF Orderly, Turn
<1> QED BY <1>1, <1>3 DEF Orderly

\* A start or a rebind, call by call.  Nobody else is at the path, so neither
\* does any of bind_new's errors occur.
LEMMA StartOrderly ==
  ASSUME Overlap = FALSE, TypeOK, Orderly, NEW p \in Procs, StartStep(p)
  PROVE  Orderly'
<1> USE SocketAssumption DEF TypeOK, Goto, fds, env, OnlyMoves
<1> USE DEF Starting, Binding, Dropping, Resting
<1>1. Place(p) /\ sock[p] \in Inodes \cup {None} /\ old[p] \in Inodes \cup {None}
  BY DEF Orderly
<1>2. Apart /\ (UNCHANGED <<sock, old>> => Apart')
  BY DEF Orderly, Apart
<1>3. CASE Look(p)
  <2>1. \A q \in Procs \ {p} : ~Acting(q)
    BY <1>3 DEF Look, MayBegin, Acting
  <2>2. Place(p)'
    BY <1>1, <1>3 DEF Look, Place
  <2>3. OnlyMoves(p)
    BY <1>3 DEF Look
  <2> QED BY <1>2, <1>3, <2>1, <2>2, <2>3, OneActs DEF Look
<1>4. CASE Probe(p) \/ Recheck(p)
  <2>1. Acting(p)
    BY <1>4 DEF Probe, Recheck, Acting
  <2>2. Place(p)'
    BY <1>1, <1>4 DEF Probe, Recheck, Place
  <2>3. OnlyMoves(p)
    BY <1>4 DEF Probe, Recheck
  <2> QED BY <1>2, <1>4, <2>1, <2>2, <2>3, OneActs DEF Probe, Recheck
<1>5. CASE Remove(p)
  <2>1. Acting(p)
    BY <1>5 DEF Remove, Acting
  <2>2. Place(p)'
    BY <1>1, <1>5 DEF Remove, Place
  <2>3. OnlyMoves(p)
    BY <1>5 DEF Remove
  <2> QED BY <1>2, <1>5, <2>1, <2>2, <2>3, OneActs DEF Remove
<1>6. CASE Bind(p)
  <2>1. Acting(p)
    BY <1>6 DEF Bind, Acting
  <2>2. PICK i \in FreeInodes :
          /\ entry' = i /\ sock' = [sock EXCEPT ![p] = i]
          /\ pc[p] = "binding" /\ pc' = [pc EXCEPT ![p] = "bound"]
          /\ UNCHANGED <<listening, looked, own, old, was>>
    BY <1>1, <1>6 DEF Bind, Place
  <2>3. i \in Inodes /\ \A q \in Procs : i # sock[q] /\ i # old[q]
    BY DEF FreeInodes, Held
  <2>4. Place(p)'
    BY <1>1, <2>2, <2>3 DEF Place
  <2>5. Apart'
    BY <1>2, <2>2, <2>3 DEF Apart
  <2>6. OnlyMoves(p)
    BY <2>2
  <2> QED BY <2>1, <2>2, <2>3, <2>4, <2>5, <2>6, OneActs
<1>7. CASE Listen(p)
  <2>1. Acting(p)
    BY <1>7 DEF Listen, Acting
  <2>2. Place(p)'
    BY <1>1, <1>7 DEF Listen, Place
  <2>3. OnlyMoves(p)
    BY <1>7 DEF Listen
  <2> QED BY <1>2, <1>7, <2>1, <2>2, <2>3, OneActs DEF Listen
<1>8. CASE Restrict(p) \/ Check(p)
  <2>1. Acting(p) /\ entry = sock[p] /\ sock[p] \in Inodes
    BY <1>1, <1>8 DEF Restrict, Check, Acting, Place
  <2>2. Place(p)'
    BY <1>1, <1>8, <2>1 DEF Restrict, Check, Place
  <2>3. OnlyMoves(p)
    BY <1>8, <2>1 DEF Restrict, Check
  <2> QED BY <1>2, <1>8, <2>1, <2>2, <2>3, OneActs DEF Restrict, Check
<1> QED BY <1>3, <1>4, <1>5, <1>6, <1>7, <1>8 DEF StartStep

\* The monitor and the drop.  A client that was replaced may begin its drop
\* while another one acts: it will not act itself.
LEMMA RunOrderly ==
  ASSUME Overlap = FALSE, TypeOK, OldNotAtPath, Orderly, NEW p \in Procs,
         \/ Rebind(p) \/ Replaced(p) \/ Stop(p) \/ DropStep(p)
         \/ Retry(p) \/ Crash(p)
  PROVE  Orderly'
<1> USE SocketAssumption DEF TypeOK, Goto, fds, env, OnlyMoves
<1> USE DEF Starting, Binding, Dropping, Resting
<1>1. Place(p) /\ sock[p] \in Inodes \cup {None} /\ old[p] \in Inodes \cup {None}
  BY DEF Orderly
<1>2. Apart /\ (UNCHANGED <<sock, old>> => Apart')
  BY DEF Orderly, Apart
<1>3. CASE pc[p] = "closing" /\ CloseOld(p)
  <2>1. ~Acting(p)'
    BY <1>3 DEF CloseOld, Acting
  <2>2. Place(p)'
    BY <1>1, <1>2, <1>3 DEF CloseOld, Place, Apart
  <2>3. OnlyMoves(p)
    BY <1>3 DEF CloseOld
  <2>4. Apart'
    BY <1>2, <1>3 DEF CloseOld, Apart
  <2> QED BY <1>3, <2>1, <2>2, <2>3, <2>4, OneActs DEF CloseOld
<1>4. CASE Rebind(p)
  <2>1. \A q \in Procs \ {p} : ~Acting(q)
    BY <1>4 DEF Rebind, MayBegin, Acting
  <2>2. Place(p)'
    BY <1>1, <1>4 DEF Rebind, Place, TypeOK
  <2>3. OnlyMoves(p)
    BY <1>4 DEF Rebind
  <2>4. Apart'
    BY <1>2, <1>4 DEF Rebind, Apart
  <2> QED BY <1>4, <2>1, <2>2, <2>3, <2>4, OneActs DEF Rebind
<1>5. CASE Replaced(p)
  <2>1. ~Acting(p)'
    BY <1>1, <1>5 DEF Replaced, Acting, Place
  <2>2. Place(p)'
    BY <1>1, <1>5 DEF Replaced, Place
  <2>3. OnlyMoves(p)
    BY <1>5 DEF Replaced
  <2> QED BY <1>2, <1>5, <2>1, <2>2, <2>3, OneActs DEF Replaced
<1>6. CASE Stop(p)
  <2>1. \A q \in Procs \ {p} : ~Acting(q)
    BY <1>6 DEF Stop, MayBegin, Acting
  <2>2. Place(p)'
    BY <1>1, <1>6 DEF Stop, Place
  <2>3. OnlyMoves(p)
    BY <1>6 DEF Stop
  <2> QED BY <1>2, <1>6, <2>1, <2>2, <2>3, OneActs DEF Stop
<1>7. CASE DropLook(p)
  <2>1. Acting(p)' => Acting(p)
    BY <1>1, <1>7 DEF DropLook, Acting, Remembered, OldNotAtPath, Place
  <2>2. Place(p)'
    BY <1>1, <1>7 DEF DropLook, Remembered, OldNotAtPath, Place
  <2>3. OnlyMoves(p)
    BY <1>7 DEF DropLook
  <2> QED BY <1>2, <1>7, <2>1, <2>2, <2>3, OneActs DEF DropLook
<1>8. CASE DropUnlink(p)
  <2>1. Acting(p)
    BY <1>8 DEF DropUnlink, Acting
  <2>2. Place(p)'
    BY <1>1, <1>8 DEF DropUnlink, Place
  <2>3. OnlyMoves(p)
    BY <1>8 DEF DropUnlink
  <2> QED BY <1>2, <1>8, <2>1, <2>2, <2>3, OneActs DEF DropUnlink
<1>9. CASE CloseAll(p)
  <2>1. CloseAll(p)
    BY <1>9
  <2>2. ~Acting(p)'
    BY <2>1 DEF CloseAll, Acting
  <2>3. Place(p)'
    BY <2>1 DEF CloseAll, Place
  <2>4. OnlyMoves(p)
    BY <2>1 DEF CloseAll
  <2>5. Apart'
    BY <1>2, <2>1 DEF CloseAll, Apart
  <2> QED BY <2>1, <2>2, <2>3, <2>4, <2>5, OneActs DEF CloseAll
<1> QED BY <1>3, <1>4, <1>5, <1>6, <1>7, <1>8, <1>9
        DEF DropStep, DropClose, Retry, Crash

\* An outsider touches the path only when no client acts.
LEMMA MeddleOrderly ==
  ASSUME Overlap = FALSE, TypeOK, Orderly, Meddle
  PROVE  Orderly'
<1>1. /\ \A p \in Procs : pc[p] \in Resting
      /\ UNCHANGED <<listening, pc, looked, sock, own, old, was>>
  BY DEF Meddle
<1>2. \A p \in Procs : Place(p)'
  BY <1>1 DEF Orderly, Place, Starting, Binding, Dropping, Resting
<1>3. Apart'
  BY <1>1 DEF Orderly, Apart
<1>4. Turn'
  BY <1>1 DEF Turn, Acting, Starting, Binding, Resting
<1> QED BY <1>2, <1>3, <1>4 DEF Orderly

LEMMA NextOrderly ==
  ASSUME Overlap = FALSE, IInv, Orderly, [Next]_vars
  PROVE  Orderly'
<1>1. TypeOK /\ OldNotAtPath
  BY DEF IInv
<1>2. CASE UNCHANGED vars
  BY <1>2 DEF vars, Orderly, Turn, Apart, Place, Acting
<1>3. CASE Meddle
  BY <1>1, <1>3, MeddleOrderly
<1>4. ASSUME NEW p \in Procs, StartStep(p) PROVE Orderly'
  BY <1>1, <1>4, StartOrderly
<1>5. ASSUME NEW p \in Procs,
             \/ Rebind(p) \/ Replaced(p) \/ Stop(p) \/ DropStep(p)
             \/ Retry(p) \/ Crash(p)
      PROVE  Orderly'
  BY <1>1, <1>5, RunOrderly
<1> QED BY <1>2, <1>3, <1>4, <1>5 DEF Next

THEOREM SpecOrderly ==
  ASSUME Overlap = FALSE
  PROVE  Spec => [](IInv /\ Orderly)
<1>1. Init => IInv /\ Orderly
  BY InitIInv, InitOrderly
<1>2. IInv /\ Orderly /\ [Next]_vars => (IInv /\ Orderly)'
  BY NextIInv, NextOrderly
<1> QED BY <1>1, <1>2, PTL DEF Spec

\* A client that finds its own inode at the path listens there, as long as
\* clients take turns (unix_socket.rs:99-107).
THEOREM SocketOwnershipTrue ==
  ASSUME Overlap = FALSE
  PROVE  Spec => []OwnershipTrue
<1>1. Orderly => OwnershipTrue
  BY DEF Orderly, Place, OwnershipTrue
<1> QED BY <1>1, SpecOrderly, PTL

\* The path is changed only by the three calls that are made to change it, and
\* by outsiders.
LEMMA WhoChangesPath ==
  ASSUME [Next]_vars, entry' # entry
  PROVE  \/ Meddle
         \/ \E p \in Procs : Remove(p) \/ Bind(p) \/ DropUnlink(p)
BY DEF Next, vars, StartStep, DropStep, Look, Probe, Recheck, Listen, Restrict, Check,
       BindFails,
       Rebind, Replaced, Stop, DropLook, DropClose, Retry, Crash, CloseAll, CloseOld

\* No call of the Drop that ends a rebind changes the path, as long as clients
\* take turns: it does not lead to the inode the old listener remembered
\* (unix_socket.rs:108-111, 138-148).
THEOREM SocketRebindKeepsReplacement ==
  ASSUME Overlap = FALSE
  PROVE  Spec => RebindKeepsReplacement
<1>1. IInv /\ Orderly /\ [Next]_vars =>
        [\A p \in Procs :
           pc[p] \in Dropping /\ old[p] # None /\ pc'[p] # pc[p] => entry' = entry]_vars
  <2> SUFFICES ASSUME IInv, Orderly, [Next]_vars, NEW p \in Procs,
                      pc[p] \in Dropping, old[p] # None, pc'[p] # pc[p], entry' # entry
               PROVE  FALSE
    OBVIOUS
  <2> USE DEF IInv, TypeOK, Goto
  <2>1. pc[p] \in {"dropping", "closing"}
    BY DEF Orderly, Place, Binding, Dropping
  <2>2. PICK q \in Procs : Remove(q) \/ Bind(q) \/ DropUnlink(q)
    BY WhoChangesPath DEF Meddle
  <2>3. q = p
    BY <2>2 DEF Remove, Bind, BindFails, DropUnlink
  <2> QED BY <2>1, <2>2, <2>3 DEF Remove, Bind, DropUnlink
<1> QED BY <1>1, SpecOrderly, PTL DEF Spec, RebindKeepsReplacement

\* A socket that answers leaves the path only by the hand of the client that
\* listens on it, as long as clients take turns (unix_socket.rs:59-92).
THEOREM SocketLiveNeverRemoved ==
  ASSUME Overlap = FALSE
  PROVE  Spec => LiveNeverRemoved
<1>1. IInv /\ Orderly /\ [Next]_vars =>
        [entry' # entry /\ entry \in listening /\ meddles' = meddles =>
           \E p \in Procs :
             /\ pc[p] = "unlinking" /\ pc'[p] = "closing"
             /\ sock[p] = entry /\ old[p] = None]_vars
  <2> SUFFICES ASSUME IInv, Orderly, [Next]_vars, entry' # entry, entry \in listening,
                      meddles' = meddles
               PROVE  \E p \in Procs :
                        /\ pc[p] = "unlinking" /\ pc'[p] = "closing"
                        /\ sock[p] = entry /\ old[p] = None
    OBVIOUS
  <2> USE SocketAssumption DEF IInv, TypeOK
  <2>1. ~Meddle
    BY DEF Meddle
  <2>2. ASSUME NEW p \in Procs, Remove(p) PROVE FALSE
    BY <2>2 DEF Orderly, Place, Remove, Starting
  <2>3. ASSUME NEW p \in Procs, Bind(p) PROVE FALSE
    BY <2>3 DEF Orderly, Place, Bind
  <2>4. PICK p \in Procs : DropUnlink(p)
    BY <2>1, <2>2, <2>3, WhoChangesPath
  <2>5. pc[p] = "unlinking" /\ sock[p] = entry /\ old[p] = None
    BY <2>4 DEF Orderly, Place, DropUnlink, Binding, Dropping
  <2>6. pc'[p] = "closing"
    BY <2>4 DEF DropUnlink, Goto
  <2> QED BY <2>5, <2>6
<1> QED BY <1>1, SpecOrderly, PTL DEF Spec, LiveNeverRemoved

\* No client removes what is not a socket, as long as clients take turns
\* (unix_socket.rs:69, 85-88).
THEOREM SocketOtherNeverRemoved ==
  ASSUME Overlap = FALSE
  PROVE  Spec => OtherNeverRemoved
<1>1. IInv /\ Orderly /\ [Next]_vars =>
        [entry = Other /\ entry' # entry => meddles' = meddles + 1]_vars
  <2> SUFFICES ASSUME IInv, Orderly, [Next]_vars, entry = Other, entry' # entry
               PROVE  meddles' = meddles + 1
    OBVIOUS
  <2> USE SocketAssumption DEF IInv, TypeOK
  <2>1. ASSUME NEW p \in Procs, Remove(p) PROVE FALSE
    BY <2>1 DEF Orderly, Place, Remove, Starting
  <2>2. ASSUME NEW p \in Procs, Bind(p) PROVE FALSE
    BY <2>2 DEF Orderly, Place, Bind
  <2>3. ASSUME NEW p \in Procs, DropUnlink(p) PROVE FALSE
    BY <2>3 DEF Orderly, Place, DropUnlink, Dropping
  <2>4. Meddle
    BY <2>1, <2>2, <2>3, WhoChangesPath
  <2> QED BY <2>4 DEF Meddle
<1> QED BY <1>1, SpecOrderly, PTL DEF Spec, OtherNeverRemoved

\* A start is refused only because the path is in use, whatever starts that
\* were broken off have left there (unix_socket.rs:37-92).
THEOREM SocketRefusedOnlyIfTaken ==
  ASSUME Overlap = FALSE
  PROVE  Spec => RefusedOnlyIfTaken
<1>1. IInv /\ Orderly /\ [Next]_vars =>
        [\A p \in Procs :
           pc[p] # "failed" /\ pc'[p] = "failed" => entry = Other \/ entry \in listening]_vars
  <2> SUFFICES ASSUME IInv, Orderly, Next, NEW p \in Procs,
                      pc[p] # "failed", pc'[p] = "failed"
               PROVE  entry = Other \/ entry \in listening
    BY DEF vars
  <2> USE SocketAssumption DEF IInv, TypeOK, Goto
  <2>1. ASSUME NEW q \in Procs, DropStep(q) \/ Rebind(q) \/ Replaced(q) \/ Stop(q)
                                  \/ Retry(q) \/ Crash(q)
        PROVE  FALSE
    BY <2>1 DEF DropStep, DropLook, DropUnlink, DropClose, Rebind, Replaced, Stop,
                Retry, Crash, CloseAll, CloseOld
  <2>2. ~Meddle
    BY DEF Meddle
  <2>3. PICK q \in Procs : StartStep(q)
    BY <2>1, <2>2 DEF Next
  <2>4. q = p /\ Place(p)
    BY <2>3 DEF StartStep, Look, Probe, Recheck, Remove, Bind, Listen, Restrict, Check,
                BindFails, Orderly
  <2>5. ~Recheck(p) /\ ~Remove(p) /\ ~Bind(p) /\ ~Listen(p) /\ ~Restrict(p) /\ ~Check(p)
    BY <2>4 DEF Place, Recheck, Remove, Bind, Listen, Restrict, Check, BindFails, Starting,
                Binding
  <2> QED BY <2>3, <2>4, <2>5 DEF StartStep, Look, Probe
<1> QED BY <1>1, SpecOrderly, PTL DEF Spec, RefusedOnlyIfTaken
=============================================================================
