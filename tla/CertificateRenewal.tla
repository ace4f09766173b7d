------------------------- MODULE CertificateRenewal -------------------------
(***************************************************************************)
(* Certificate renewal on Windows: the renewal service, a thread that runs *)
(* the renewal script at intervals and kills it when the service control   *)
(* manager asks it to stop; the script, which obtains, verifies and moves  *)
(* a certificate into place and restarts the bridge; and the bridge        *)
(* service, an instance of BridgeService, of which BridgeProcess is shown  *)
(* to be an implementation.                                                *)
(*                                                                         *)
(* Certificates are numbered in the order they are issued.  A step of the  *)
(* script is one command of it; the kill may fall between any two.         *)
(***************************************************************************)
EXTENDS Naturals

CONSTANTS
  MaxCerts,     \* bound on the certificates the CA issues
  MaxRestarts   \* bound on how often an operator starts the services again

ASSUME RenewalAssumption == MaxCerts \in Nat \ {0} /\ MaxRestarts \in Nat

VARIABLES
  service,   \* the state of the renewal service, see ServiceStates
  stop,      \* a stop control is queued for the renewal service
  script,    \* next command of the script, or "none"
  outcome,   \* exit of the last script: "none", "ok", "failed" or "killed"
  issued,    \* certificates issued so far, the installed first one included
  sound,     \* those of them that verify and have the EKU and the SAN
  temp,      \* the certificate in the script's temporary file, or None
  disk,      \* the certificate at ServerCert
  bridge,    \* the state of the bridge service
  loaded,    \* the certificate the bridge has read last
  atStart,   \* what disk and bridge were when the script was started
  restarts

vars == <<service, stop, script, outcome, issued, sound, temp, disk, bridge,
          loaded, atStart, restarts>>

files == <<issued, sound, temp, disk>>
bridgeVars == <<bridge, loaded>>

None == 0
Certs == 1..MaxCerts
Commands == {"renew", "verify", "move", "restart", "await stop", "start", "await running"}

\* "polling" is with a script, "waiting" between two; "stuck" is StartPending
\* for good.  Only a service that has reported Running takes a stop.
TakesStop == {"running", "polling", "waiting"}
ServiceStates == {"stopped", "starting", "stuck"} \cup TakesStop

Bridge == INSTANCE BridgeService WITH NoCert <- None, state <- bridge

\* The installer leaves a sound certificate and both services running.
Init ==
  /\ service = "running"
  /\ stop = FALSE
  /\ script = "none"
  /\ outcome = "none"
  /\ issued = 1
  /\ sound = {1}
  /\ temp = None
  /\ disk = 1
  /\ bridge = "serving"
  /\ loaded = 1
  /\ atStart = [disk |-> 1, bridge |-> "serving"]
  /\ restarts = 0

-----------------------------------------------------------------------------
(***************************************************************************)
(* The renewal service: run_service and wait_for_child.                    *)
(***************************************************************************)

\* The process may end before it has reached the dispatcher.  An error of
\* register or of a first report leaves run_service by `?`, is only logged, and
\* StartPending stays the last the control manager has heard.
ServiceStarts ==
  /\ service = "starting"
  /\ service' \in {"running", "stuck", "stopped"}
  /\ UNCHANGED <<stop, script, outcome, atStart, restarts>>
  /\ UNCHANGED files /\ UNCHANGED bridgeVars

\* The handler only queues; the service thread looks when it waits.
StopControl ==
  /\ service \in TakesStop
  /\ ~stop
  /\ stop' = TRUE
  /\ UNCHANGED <<service, script, outcome, atStart, restarts>>
  /\ UNCHANGED files /\ UNCHANGED bridgeVars

Spawn ==
  /\ service = "running"
  /\ service' = "polling"
  /\ script' = "renew"
  /\ temp' = None
  /\ atStart' = [disk |-> disk, bridge |-> bridge]
  /\ UNCHANGED <<stop, outcome, issued, sound, disk, restarts>>
  /\ UNCHANGED bridgeVars

\* powershell.exe could not be started: logged, like any failed renewal.
SpawnFails ==
  /\ service = "running"
  /\ service' = "waiting"
  /\ UNCHANGED <<stop, script, outcome, atStart, restarts>>
  /\ UNCHANGED files /\ UNCHANGED bridgeVars

\* try_wait finds that the script has ended.
ChildEnded ==
  /\ service = "polling"
  /\ script = "none"
  /\ service' = "waiting"
  /\ UNCHANGED <<stop, script, outcome, atStart, restarts>>
  /\ UNCHANGED files /\ UNCHANGED bridgeVars

\* Mutants: a stop that leaves the script running, and one that is only
\* looked at between two renewals.
KillForgotten ==
  /\ service = "polling"
  /\ stop
  /\ service' = "stopped"
  /\ stop' = FALSE
  /\ UNCHANGED <<script, outcome, atStart, restarts>>
  /\ UNCHANGED files /\ UNCHANGED bridgeVars

KillNever == FALSE /\ UNCHANGED vars

\* recv_timeout finds the stop: the script is killed where it is, without
\* its finally block, and the service reports Stopped.  Killing a script
\* that has just ended by itself changes nothing.
KillChild ==
  /\ service = "polling"
  /\ stop
  /\ service' = "stopped"
  /\ stop' = FALSE
  /\ script' = "none"
  /\ outcome' = IF script = "none" THEN outcome ELSE "killed"
  /\ UNCHANGED <<atStart, restarts>>
  /\ UNCHANGED files /\ UNCHANGED bridgeVars

\* recv_timeout hands over a queued stop before it looks at the time.
IntervalElapsed ==
  /\ service = "waiting"
  /\ ~stop
  /\ service' = "running"
  /\ UNCHANGED <<stop, script, outcome, atStart, restarts>>
  /\ UNCHANGED files /\ UNCHANGED bridgeVars

StopWhileWaiting ==
  /\ service = "waiting"
  /\ stop
  /\ service' = "stopped"
  /\ stop' = FALSE
  /\ UNCHANGED <<script, outcome, atStart, restarts>>
  /\ UNCHANGED files /\ UNCHANGED bridgeVars

-----------------------------------------------------------------------------
(***************************************************************************)
(* The renewal script.                                                     *)
(***************************************************************************)

Continue(command) ==
  /\ script' = command
  /\ UNCHANGED <<service, stop, outcome, atStart, restarts>>

\* Mutant: a catch that restarts the bridge, to be on the safe side.
ScriptFailsRestarts ==
  /\ script \in Commands
  /\ script' = "none"
  /\ outcome' = "failed"
  /\ temp' = None
  /\ Bridge!StopControl
  /\ UNCHANGED <<service, stop, issued, sound, disk, atStart, restarts>>

\* Any command may throw.  The wait for Running does once the bridge has
\* stopped instead; after it, the last line of the log may still fail.  The
\* catch sets the exit code, the finally removes the temporary file if it is
\* still there.
ScriptFails ==
  /\ script \in Commands
  /\ script = "await running" => bridge \in {"stopped"} \cup Bridge!ReportedRunning
  /\ script' = "none"
  /\ outcome' = "failed"
  /\ temp' = None
  /\ UNCHANGED <<service, stop, issued, sound, disk, atStart, restarts>>
  /\ UNCHANGED bridgeVars

\* step ca renew: the CA may issue something the bridge could not use.
Renew ==
  /\ script = "renew"
  /\ issued < MaxCerts
  /\ issued' = issued + 1
  /\ temp' = issued'
  /\ \E good \in BOOLEAN : sound' = IF good THEN sound \cup {issued'} ELSE sound
  /\ Continue("verify")
  /\ UNCHANGED disk /\ UNCHANGED bridgeVars

\* Mutant: the outcome of the verification is not looked at.
VerifyIgnored ==
  /\ script = "verify"
  /\ Continue("move")
  /\ UNCHANGED files /\ UNCHANGED bridgeVars

\* The chain, the EKU and the expected DNS name; otherwise it throws.
Verify ==
  /\ script = "verify"
  /\ temp \in sound
  /\ Continue("move")
  /\ UNCHANGED files /\ UNCHANGED bridgeVars

Move ==
  /\ script = "move"
  /\ disk' = temp
  /\ temp' = None
  /\ Continue("restart")
  /\ UNCHANGED <<issued, sound>> /\ UNCHANGED bridgeVars

\* Mutant: Start-Service where Restart-Service is, a no-op on a running one.
RestartSkipped ==
  /\ script = "restart"
  /\ Continue("start")
  /\ UNCHANGED files /\ UNCHANGED bridgeVars

\* Restart-Service asks the service to stop, waits, starts it and waits
\* again.  A bridge that is starting takes no control: it throws.
RestartStops ==
  /\ script = "restart"
  /\ \/ Bridge!StopControl
     \/ bridge \in {"stopping", "stopped"} /\ UNCHANGED bridgeVars
  /\ Continue("await stop")
  /\ UNCHANGED files

RestartAwaits ==
  /\ script = "await stop"
  /\ bridge = "stopped"
  /\ Continue("start")
  /\ UNCHANGED files /\ UNCHANGED bridgeVars

\* Starting a service that is started already changes nothing.
RestartStarts ==
  /\ script = "start"
  /\ Bridge!Start \/ (bridge # "stopped" /\ UNCHANGED bridgeVars)
  /\ Continue("await running")
  /\ UNCHANGED files

\* The bridge reports Running before it has read its certificate; while it
\* is pending the script waits, for ever if need be.
RestartDone ==
  /\ script = "await running"
  /\ bridge \in Bridge!ReportedRunning
  /\ script' = "none"
  /\ outcome' = "ok"
  /\ UNCHANGED <<service, stop, atStart, restarts>>
  /\ UNCHANGED files /\ UNCHANGED bridgeVars

-----------------------------------------------------------------------------
(***************************************************************************)
(* The bridge service, and the operator.                                   *)
(***************************************************************************)

BridgeStep ==
  /\ \/ Bridge!StartFails \/ Bridge!StartHangs \/ Bridge!ReportRunning
     \/ Bridge!ReadCertificate \/ Bridge!Serve \/ Bridge!Fails
     \/ Bridge!Stopped
  /\ UNCHANGED <<service, stop, script, outcome, atStart, restarts>>
  /\ UNCHANGED files

OperatorStarts ==
  /\ restarts < MaxRestarts
  /\ restarts' = restarts + 1
  /\ \/ /\ service = "stopped"
        /\ service' = "starting"
        /\ UNCHANGED bridgeVars
     \/ Bridge!Start /\ UNCHANGED service
  /\ UNCHANGED <<stop, script, outcome, atStart>>
  /\ UNCHANGED files

Rest == service \in {"stopped", "stuck"} /\ UNCHANGED vars

ScriptStep ==
  \/ Renew \/ Verify \/ Move
  \/ RestartStops \/ RestartAwaits \/ RestartStarts \/ RestartDone

Next ==
  \/ ServiceStarts \/ StopControl \/ Spawn \/ SpawnFails \/ ChildEnded \/ KillChild
  \/ IntervalElapsed \/ StopWhileWaiting
  \/ ScriptStep \/ ScriptFails
  \/ BridgeStep \/ OperatorStarts
  \/ Rest

Spec == Init /\ [][Next]_vars

-----------------------------------------------------------------------------
(***************************************************************************)
(* Properties.                                                             *)
(***************************************************************************)

\* Every variable stays in its type; a certificate is only ever moved that
\* the CA has issued.
TypeOK ==
  /\ service \in ServiceStates
  /\ stop \in BOOLEAN
  /\ script \in Commands \cup {"none"}
  /\ outcome \in {"none", "ok", "failed", "killed"}
  /\ issued \in 0..MaxCerts
  /\ sound \subseteq 1..issued
  /\ temp \in 0..issued
  /\ disk \in 0..issued
  /\ bridge \in Bridge!States
  /\ loaded \in 0..issued
  /\ atStart \in [disk : 0..issued, bridge : Bridge!States]
  /\ restarts \in 0..MaxRestarts

\* A renewal only ever replaces the certificate by one that has passed its
\* checks, however it and the renewals before it ended
\* (renew-step-ca-server-certificate.ps1:58-74).
OnlySoundInstalled == [][disk' # disk /\ script \in Commands => disk' \in sound]_vars

\* After a renewal that reported success (line 77 of the script) a bridge that
\* serves has the certificate it installed, though it is read only after
\* Restart-Service has returned, and whoever started the bridge since.
SuccessIsServed ==
  outcome = "ok" /\ script = "none" /\ bridge \in {"binding", "serving"} => loaded = disk

\* A script takes the bridge down only for the certificate it has installed:
\* one that failed its checks costs no running session
\* (docs/certificates.md:64-66).
DownOnlyForNews ==
  [][script # "none" /\ bridge # "stopping" /\ bridge' = "stopping" => disk # atStart.disk]_vars

\* A stopped renewal service leaves no script behind that could still
\* restart the bridge (windows_renewal_service.rs:147-151;
\* install-server.ps1:196 relies on it).
NoOrphanScript == service = "stopped" => script = "none"

\* A queued stop ends the service, though the script may hang
\* (windows_renewal_service.rs:84-96, 138-154).
StopHonoured == stop ~> service = "stopped"

\* A renewal that failed leaves the certificate and the bridge as they were
\* when it began (docs/certificates.md:85-86).  It does not hold: the
\* certificate is moved into place before the bridge is restarted.
FailedRenewalChangesNothing ==
  [][outcome' = "failed" /\ script # "none" /\ script' = "none" =>
       disk' = atStart.disk /\ bridge' = atStart.bridge]_vars
=============================================================================
