---------------------------- MODULE BridgeService ----------------------------
(***************************************************************************)
(* What the bridge service shows the service control manager and whoever   *)
(* waits for it.  It may hang while it starts; it reports Running before   *)
(* it has read its certificate; it takes a stop only while it is reported  *)
(* Running, and then ends.                                                 *)
(***************************************************************************)

CONSTANT NoCert

VARIABLES
  state,    \* see States
  loaded,   \* the certificate it has read last, or NoCert
  disk      \* the certificate in its file; not the service's to change

vars == <<state, loaded>>

\* "running" is reported Running with nothing read, "binding" with the
\* certificate read and no listener yet, "stuck" is StartPending for good.
States == {"stopped", "starting", "stuck", "running", "binding", "serving", "stopping"}
ReportedRunning == {"running", "binding", "serving", "stopping"}

Init ==
  /\ state = "stopped"
  /\ loaded = NoCert

Move(from, to) ==
  /\ state \in from
  /\ state' = to
  /\ UNCHANGED loaded

Start == Move({"stopped"}, "starting")
StartFails == Move({"starting"}, "stopped")
StartHangs == Move({"starting"}, "stuck")
ReportRunning == Move({"starting"}, "running")

\* A stop that came early does not keep it from reading.
ReadCertificate ==
  /\ state \in {"running", "stopping"}
  /\ state' = IF state = "running" THEN "binding" ELSE state
  /\ loaded' = disk

Serve == Move({"binding"}, "serving")
Fails == Move({"running", "binding"}, "stopped")
StopControl == Move({"running", "binding", "serving"}, "stopping")
Stopped == Move({"stopping"}, "stopped")

Next ==
  \/ Start \/ StartFails \/ StartHangs \/ ReportRunning
  \/ ReadCertificate \/ Serve \/ Fails
  \/ StopControl \/ Stopped

Spec == Init /\ [][Next]_vars
=============================================================================
