----------------------------- MODULE UnixSocket -----------------------------
(***************************************************************************)
(* OwnedUnixListener: how client processes share one path of the file      *)
(* system.  A process replaces a stale socket, binds, restricts and        *)
(* remembers its own, watches that the path still leads to it, binds again *)
(* when it was unlinked, and unlinks it when it stops.                     *)
(*                                                                         *)
(* Each system call on the path is one action, because no lock joins two   *)
(* of them: what was looked up may be gone when it is acted upon.  Inode   *)
(* numbers are reused, except while a socket holds the inode open.         *)
(***************************************************************************)
EXTENDS Naturals

CONSTANTS
  Procs,        \* client processes configured with the same path
  Inodes,       \* inode numbers sockets may get
  None,         \* no inode, or no entry at the path
  Other,        \* an entry that is not a socket: a file, directory or symlink
  Overlap,      \* may two processes change the path at the same time?
  MaxMeddles,   \* bound on what outsiders do to the path
  MaxCrashes    \* bound on crashes

ASSUME SocketAssumption ==
  /\ None \notin Inodes
  /\ Other \notin Inodes \cup {None}
  /\ Overlap \in BOOLEAN
  /\ MaxMeddles \in Nat
  /\ MaxCrashes \in Nat

VARIABLES
  entry,      \* what the path leads to: None, Other or a socket's inode
  listening,  \* inodes on which connect succeeds
  pc,         \* where each process is
  looked,     \* the inode its first symlink_metadata found
  sock,       \* the inode its listener is bound to
  own,        \* the inode it believes to be its own
  old,        \* while binding again: the inode of the listener it still has
  was,        \* and, while that is dropped, the inode remembered with it
  meddles, crashes

fds == <<listening, sock, old>>
env == <<meddles, crashes>>
vars == <<entry, listening, pc, looked, sock, own, old, was, meddles, crashes>>

Starting == {"probing", "rechecking", "removing"}
Binding == {"binding", "bound", "restricting", "checking"}
Dropping == {"dropping", "unlinking", "closing"}
Resting == {"idle", "failed", "running"}

Held == {sock[p] : p \in Procs} \cup {old[p] : p \in Procs}

\* A free inode number: no entry and no open socket has it.
FreeInodes == Inodes \ (Held \cup {entry})

\* A previous owner may have left its socket behind, on any inode.
Init ==
  /\ entry \in Inodes \cup {None, Other}
  /\ listening = {}
  /\ pc = [p \in Procs |-> "idle"]
  /\ looked = [p \in Procs |-> None]
  /\ sock = [p \in Procs |-> None]
  /\ own = [p \in Procs |-> None]
  /\ old = [p \in Procs |-> None]
  /\ was = [p \in Procs |-> None]
  /\ meddles = 0
  /\ crashes = 0

Goto(p, label) == pc' = [pc EXCEPT ![p] = label]

\* Unless changes overlap, a process or an outsider begins one while the
\* others rest.
MayBegin(p) == Overlap \/ \A q \in Procs \ {p} : pc[q] \in Resting

-----------------------------------------------------------------------------
(***************************************************************************)
(* bind: remove_stale_socket.                                              *)
(***************************************************************************)

Look(p) ==
  /\ pc[p] = "idle"
  /\ MayBegin(p)
  /\ \/ entry = None /\ Goto(p, "binding") /\ UNCHANGED looked
     \/ entry = Other /\ Goto(p, "failed") /\ UNCHANGED looked
     \/ /\ entry \in Inodes
        /\ looked' = [looked EXCEPT ![p] = entry]
        /\ Goto(p, "probing")
  /\ UNCHANGED <<entry, own, was>> /\ UNCHANGED fds /\ UNCHANGED env

\* Mutants: any socket is taken for stale; a refusal is taken for an error.
ProbeAlwaysStale(p) ==
  /\ pc[p] = "probing"
  /\ Goto(p, "rechecking")
  /\ UNCHANGED <<entry, looked, own, was>> /\ UNCHANGED fds /\ UNCHANGED env

ProbeNeverStale(p) ==
  /\ pc[p] = "probing"
  /\ Goto(p, IF entry # None THEN "failed" ELSE "rechecking")
  /\ UNCHANGED <<entry, looked, own, was>> /\ UNCHANGED fds /\ UNCHANGED env

\* UnixStream::connect: it succeeds on a live socket, is refused by anything
\* else at the path and does not find an entry that is gone.
Probe(p) ==
  /\ pc[p] = "probing"
  /\ Goto(p, IF entry \in listening THEN "failed" ELSE "rechecking")
  /\ UNCHANGED <<entry, looked, own, was>> /\ UNCHANGED fds /\ UNCHANGED env

Recheck(p) ==
  /\ pc[p] = "rechecking"
  /\ Goto(p, IF entry = looked[p] THEN "removing" ELSE "failed")
  /\ UNCHANGED <<entry, looked, own, was>> /\ UNCHANGED fds /\ UNCHANGED env

\* remove_file acts on the path, whatever it leads to by now.
Remove(p) ==
  /\ pc[p] = "removing"
  /\ Goto(p, IF entry = None THEN "failed" ELSE "binding")
  /\ entry' = None
  /\ UNCHANGED <<looked, own, was>> /\ UNCHANGED fds /\ UNCHANGED env

-----------------------------------------------------------------------------
(***************************************************************************)
(* bind_new, called by bind and by verify_or_rebind.                       *)
(***************************************************************************)

\* Where an error of bind_new leads: a start fails, a monitor tick ends the
\* process through the Drop of the listener it still has.  Either way the
\* new listener is closed, and its socket stays at the path.
BindFails(p) ==
  /\ listening' = listening \ {sock[p]}
  /\ sock' = [sock EXCEPT ![p] = old[p]]
  /\ old' = [old EXCEPT ![p] = None]
  /\ Goto(p, IF old[p] = None THEN "failed" ELSE "dropping")
  /\ UNCHANGED <<entry, looked, own, was>>

\* bind(2) creates the entry, or finds one.
Bind(p) ==
  /\ pc[p] = "binding"
  /\ \/ entry # None /\ BindFails(p)
     \/ /\ entry = None
        /\ \E i \in FreeInodes :
             /\ entry' = i
             /\ sock' = [sock EXCEPT ![p] = i]
        /\ Goto(p, "bound")
        /\ UNCHANGED <<listening, looked, own, old, was>>
  /\ UNCHANGED env

\* listen(2): from here on the socket accepts connections.
Listen(p) ==
  /\ pc[p] = "bound"
  /\ listening' = listening \cup {sock[p]}
  /\ Goto(p, "restricting")
  /\ UNCHANGED <<entry, looked, sock, own, old, was>> /\ UNCHANGED env

\* set_permissions, again on whatever the path leads to.
Restrict(p) ==
  /\ pc[p] = "restricting"
  /\ \/ entry = None /\ BindFails(p)
     \/ /\ entry # None
        /\ Goto(p, "checking")
        /\ UNCHANGED <<entry, looked, own, was>> /\ UNCHANGED fds
  /\ UNCHANGED env

\* The last symlink_metadata: the inode found is taken for the one that was
\* bound.  An entry that has changed since may have any mode.  After a rebind
\* `*self = replacement` then drops the old listener and what it remembered.
Check(p) ==
  /\ pc[p] = "checking"
  /\ \/ entry # sock[p] /\ BindFails(p)
     \/ /\ entry # None
        /\ own' = [own EXCEPT ![p] = entry]
        /\ was' = [was EXCEPT ![p] = own[p]]
        /\ Goto(p, IF old[p] = None THEN "running" ELSE "dropping")
        /\ UNCHANGED <<entry, looked>> /\ UNCHANGED fds
  /\ UNCHANGED env

-----------------------------------------------------------------------------
(***************************************************************************)
(* verify_or_rebind and Drop.                                              *)
(***************************************************************************)

\* Mutant: a missing entry is taken for an unchanged one.
RebindIgnored(p) ==
  /\ pc[p] = "running"
  /\ entry = None
  /\ MayBegin(p)
  /\ UNCHANGED vars

\* A missing entry is bound again, with the old listener still open.
Rebind(p) ==
  /\ pc[p] = "running"
  /\ entry = None
  /\ MayBegin(p)
  /\ old' = [old EXCEPT ![p] = sock[p]]
  /\ sock' = [sock EXCEPT ![p] = None]
  /\ Goto(p, "binding")
  /\ UNCHANGED <<entry, listening, looked, own, was>> /\ UNCHANGED env

\* Somebody else's entry, or one that is no socket, ends the process.
Replaced(p) ==
  /\ pc[p] = "running"
  /\ entry # None
  /\ entry # own[p] \/ entry = Other
  /\ Goto(p, "dropping")
  /\ UNCHANGED <<entry, looked, own, was>> /\ UNCHANGED fds /\ UNCHANGED env

\* The client shuts down.
Stop(p) ==
  /\ pc[p] = "running"
  /\ MayBegin(p)
  /\ Goto(p, "dropping")
  /\ UNCHANGED <<entry, looked, own, was>> /\ UNCHANGED fds /\ UNCHANGED env

\* Drop, of the listener a process ends with or of the one it has replaced:
\* it unlinks the path only if the path leads to the inode that was remembered
\* with that listener, and closes it.
Remembered(p) == IF old[p] = None THEN own[p] ELSE was[p]

\* Mutants: a Drop that unlinks the path it was given; one that compares with
\* the identity the process has by now.
DropLookUnchecked(p) ==
  /\ pc[p] = "dropping"
  /\ Goto(p, "unlinking")
  /\ UNCHANGED <<entry, looked, own, was>> /\ UNCHANGED fds /\ UNCHANGED env

DropLookNewIdentity(p) ==
  /\ pc[p] = "dropping"
  /\ Goto(p, IF entry = own[p] /\ entry # Other THEN "unlinking" ELSE "closing")
  /\ UNCHANGED <<entry, looked, own, was>> /\ UNCHANGED fds /\ UNCHANGED env

DropLook(p) ==
  /\ pc[p] = "dropping"
  /\ Goto(p, IF entry = Remembered(p) /\ entry # Other THEN "unlinking" ELSE "closing")
  /\ UNCHANGED <<entry, looked, own, was>> /\ UNCHANGED fds /\ UNCHANGED env

DropUnlink(p) ==
  /\ pc[p] = "unlinking"
  /\ entry' = None
  /\ Goto(p, "closing")
  /\ UNCHANGED <<looked, own, was>> /\ UNCHANGED fds /\ UNCHANGED env

\* The process lets go of its sockets and of what it knew.
CloseAll(p) ==
  /\ listening' = listening \ {sock[p], old[p]}
  /\ sock' = [sock EXCEPT ![p] = None]
  /\ old' = [old EXCEPT ![p] = None]
  /\ own' = [own EXCEPT ![p] = None]
  /\ was' = [was EXCEPT ![p] = None]
  /\ looked' = [looked EXCEPT ![p] = None]
  /\ Goto(p, "idle")
  /\ UNCHANGED entry

\* Mutant: the new identity is kept with the old listener.
CloseNew(p) ==
  /\ listening' = listening \ {sock[p]}
  /\ sock' = [sock EXCEPT ![p] = old[p]]
  /\ old' = [old EXCEPT ![p] = None]
  /\ was' = [was EXCEPT ![p] = None]
  /\ Goto(p, "running")
  /\ UNCHANGED <<entry, looked, own>>

\* The end of a rebind: the listener that was replaced is closed.
CloseOld(p) ==
  /\ listening' = listening \ {old[p]}
  /\ old' = [old EXCEPT ![p] = None]
  /\ was' = [was EXCEPT ![p] = None]
  /\ Goto(p, "running")
  /\ UNCHANGED <<entry, looked, sock, own>>

DropClose(p) ==
  /\ pc[p] = "closing"
  /\ \/ old[p] # None /\ CloseOld(p)
     \/ old[p] = None /\ CloseAll(p)
  /\ UNCHANGED env

-----------------------------------------------------------------------------
(***************************************************************************)
(* What surrounds the processes.                                           *)
(***************************************************************************)

\* A start that failed is tried again.
Retry(p) ==
  /\ pc[p] = "failed"
  /\ CloseAll(p)
  /\ UNCHANGED env

\* Killed at any point: the kernel closes its sockets, the entry stays.
Crash(p) ==
  /\ crashes < MaxCrashes
  /\ crashes' = crashes + 1
  /\ pc[p] \notin {"idle", "failed"}
  /\ CloseAll(p)
  /\ UNCHANGED meddles

\* An outsider unlinks the entry or puts something that is no socket there.
Meddle ==
  /\ meddles < MaxMeddles
  /\ meddles' = meddles + 1
  /\ Overlap \/ \A p \in Procs : pc[p] \in Resting
  /\ \/ entry # None /\ entry' = None
     \/ entry # Other /\ entry' = Other
  /\ UNCHANGED <<listening, pc, looked, sock, own, old, was, crashes>>

StartStep(p) ==
  \/ Look(p) \/ Probe(p) \/ Recheck(p) \/ Remove(p)
  \/ Bind(p) \/ Listen(p) \/ Restrict(p) \/ Check(p)

DropStep(p) == DropLook(p) \/ DropUnlink(p) \/ DropClose(p)

Next ==
  \/ \E p \in Procs :
       \/ StartStep(p)
       \/ Rebind(p) \/ Replaced(p) \/ Stop(p)
       \/ DropStep(p)
       \/ Retry(p) \/ Crash(p)
  \/ Meddle

Spec == Init /\ [][Next]_vars

\* A process takes its next system call, and its monitor ticks.
FairSpec ==
  /\ Spec
  /\ \A p \in Procs :
       WF_vars(StartStep(p) \/ Rebind(p) \/ Replaced(p) \/ DropStep(p))

-----------------------------------------------------------------------------
(***************************************************************************)
(* Properties.                                                             *)
(***************************************************************************)

\* Every variable stays in its type; no file, directory or symlink is ever
\* probed as a stale socket (unix_socket.rs:69).
TypeOK ==
  /\ entry \in Inodes \cup {None, Other}
  /\ listening \subseteq Inodes
  /\ pc \in [Procs -> Starting \cup Binding \cup Dropping \cup Resting]
  /\ looked \in [Procs -> Inodes \cup {None}]
  /\ sock \in [Procs -> Inodes \cup {None}]
  /\ own \in [Procs -> Inodes \cup {None, Other}]
  /\ old \in [Procs -> Inodes \cup {None}]
  /\ was \in [Procs -> Inodes \cup {None, Other}]
  /\ meddles \in 0..MaxMeddles
  /\ crashes \in 0..MaxCrashes

\* A socket that answers connections leaves the path only by the hand of the
\* process that listens on it and stops, or of an outsider; no client ever
\* replaces it (unix_socket.rs:59-92, 138-148; README.md:71).
LiveNeverRemoved ==
  [][entry' # entry /\ entry \in listening /\ meddles' = meddles =>
       \E p \in Procs :
         /\ pc[p] = "unlinking" /\ pc'[p] = "closing"
         /\ sock[p] = entry /\ old[p] = None]_vars

\* No client removes what is not a socket (unix_socket.rs:69, 85-88; README.md:71).
OtherNeverRemoved ==
  [][entry = Other /\ entry' # entry => meddles' = meddles + 1]_vars

\* The monitor's verdict can be trusted: as long as it finds its own inode at
\* the path, the path leads to this process's listener (unix_socket.rs:99-107).
OwnershipTrue ==
  \A p \in Procs :
    pc[p] = "running" /\ entry = own[p] /\ entry # Other =>
      sock[p] = entry /\ entry \in listening

\* No call of the Drop that ends a rebind changes the path: it looks at the
\* path, finds that it does not lead to what the old listener remembered, and
\* closes (unix_socket.rs:108-111, 138-148).
RebindKeepsReplacement ==
  [][\A p \in Procs :
       pc[p] \in Dropping /\ old[p] # None /\ pc'[p] # pc[p] => entry' = entry]_vars

\* While clients take turns, a start is refused only because the path is in
\* use: a process killed or a start broken off between any two system calls
\* leaves nothing that would keep the next one out (unix_socket.rs:37-92).
RefusedOnlyIfTaken ==
  [][\A p \in Procs :
       pc[p] # "failed" /\ pc'[p] = "failed" =>
         entry = Other \/ entry \in listening]_vars

\* An unlinked path does not stay unlinked: a running client binds it again,
\* or finds that somebody else has taken it and ends (unix_socket.rs:99-119).
PathRestored ==
  \A p \in Procs :
    pc[p] = "running" /\ entry = None ~> entry # None \/ pc[p] \in {"dropping", "idle"}
=============================================================================
