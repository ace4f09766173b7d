--------------------------- MODULE ShutdownWatch ---------------------------
(***************************************************************************)
(* The shutdown notification every part of the bridge listens to: a        *)
(* tokio `watch` channel of one Boolean.  The sender writes `true` at most *)
(* once (`notify_shutdown`); each receiver remembers whether it has already *)
(* observed that write.  `Receiver::changed` completes when there is a      *)
(* write the receiver has not observed, or when the sender is gone.         *)
(*                                                                         *)
(* The library itself is external; what is modelled is the part of its     *)
(* contract the bridge relies on: a clone starts with its original's view. *)
(***************************************************************************)
CONSTANT Receivers

VARIABLES
  sent,     \* TRUE once the sender has written `true`
  closed,   \* TRUE once the sender has been dropped
  seen      \* seen[r]: receiver r has observed the write

WatchTypeOK ==
  /\ sent \in BOOLEAN
  /\ closed \in BOOLEAN
  /\ seen \in [Receivers -> BOOLEAN]

WatchInit ==
  /\ sent = FALSE
  /\ closed = FALSE
  /\ seen = [r \in Receivers |-> FALSE]

\* `changed()` on receiver r would complete now.
ChangedReady(r) == closed \/ (sent /\ ~seen[r])

\* A signal arrived: `sender.send(true)`.  The sender may live on (the tests
\* keep it) or be dropped next, as it is when notify_shutdown returns.
SendShutdown ==
  /\ ~sent
  /\ ~closed
  /\ sent' = TRUE
  /\ UNCHANGED <<closed, seen>>

\* The sender goes away: notify_shutdown returned, after a send or because
\* waiting for a signal failed and `?` left the function without sending.
DropSender ==
  /\ ~closed
  /\ closed' = TRUE
  /\ UNCHANGED <<sent, seen>>

\* Receiver r takes the notification; completing on an unobserved write
\* marks it observed, completing on a dropped sender does not.
TakeNotice(r) ==
  /\ ChangedReady(r)
  /\ seen' = [seen EXCEPT ![r] = @ \/ sent]
  /\ UNCHANGED <<sent, closed>>

\* Receiver r is one that `sender.subscribe()` makes, blind to an earlier
\* write; the bridge never uses it, its mutants do.
SubscribeFrom(r) ==
  /\ seen' = [seen EXCEPT ![r] = sent]
  /\ UNCHANGED <<sent, closed>>

\* Receiver r is a fresh clone of receiver q and inherits its view.
CloneFrom(r, q) ==
  /\ seen' = [seen EXCEPT ![r] = seen[q]]
  /\ UNCHANGED <<sent, closed>>
=============================================================================
