----------------------------- MODULE WindowsHost -----------------------------
(***************************************************************************)
(* A Windows server from its first installation through its upgrades:      *)
(* CertificateRenewal and the installer, install-server.ps1 with           *)
(* install-service.ps1, install-certificate-renewal-service.ps1 and        *)
(* request-step-ca-server-certificate.ps1, whose commands run while the    *)
(* services do.  Every command may throw, or the script be interrupted.    *)
(*                                                                         *)
(* Bundles are numbered in the order they are staged.  An administrator    *)
(* who starts services by hand does so when the installer does not run.    *)
(***************************************************************************)
EXTENDS CertificateRenewal

CONSTANT MaxInstalls   \* bound on how often the installer runs

ASSUME HostAssumption == MaxInstalls \in Nat

VARIABLES
  installer,    \* the installer's next command, or "idle"
  installs,     \* how often it has run
  bundle,       \* the version in the bundle directory, NoBundle or Torn
  previous,     \* the version in bundle.previous, or NoBundle
  replaced,     \* $bundleReplaced
  registered,   \* the services the control manager knows
  atBegin       \* the bundle when the installer began

installerVars == <<installer, installs, bundle, previous, replaced, registered, atBegin>>
hostVars == <<vars, installerVars>>
renewal == <<service, stop, script, outcome, atStart, restarts>>

NoBundle == 0
Torn == MaxInstalls + 2   \* half removed, with the older bundle moved into it
Version == installs + 1   \* the bundle the current run has staged
Versions == 1..(MaxInstalls + 1)

InstallerCommands ==
  {"stage", "stop renewal", "await renewal", "delete renewal",
   "stop bridge", "await bridge", "delete bridge", "clear", "set aside", "move in",
   "certificate", "verify certificate", "register bridge", "start bridge",
   "await running", "register renewal", "start renewal", "await renewal start",
   "check", "finish"}

BundleInUse == bridge # "stopped" \/ service # "stopped"

\* Nothing is installed, or an earlier run has succeeded.
HostInit ==
  /\ installer = "idle"
  /\ installs = 0
  /\ previous = NoBundle
  /\ replaced = FALSE
  /\ \/ /\ Init
        /\ bundle = 1
        /\ registered = {"bridge", "renewal"}
     \/ /\ service = "stopped" /\ stop = FALSE
        /\ script = "none" /\ outcome = "none"
        /\ issued = 0 /\ sound = {}
        /\ temp = None /\ disk = None
        /\ bridge = "stopped" /\ loaded = None
        /\ atStart = [disk |-> None, bridge |-> "stopped"]
        /\ restarts = 0
        /\ bundle = NoBundle
        /\ registered = {}
  /\ atBegin = bundle

Goto(command) ==
  /\ installer' = command
  /\ UNCHANGED <<installs, replaced, atBegin>>

Step(from, to) == installer = from /\ Goto(to)

-----------------------------------------------------------------------------
(***************************************************************************)
(* The installer: the services go, the renewal first.                      *)
(***************************************************************************)

Begin ==
  /\ installer = "idle"
  /\ installs < MaxInstalls
  /\ installs' = installs + 1
  /\ installer' = "stage"
  /\ replaced' = FALSE
  /\ atBegin' = bundle
  /\ UNCHANGED <<bundle, previous, registered>>
  /\ UNCHANGED vars

\* Mutant: the bridge is removed first.
BridgeFirst ==
  [stage |-> "stop bridge", bridge |-> "stop renewal", renewal |-> "clear"]

\* What follows the staging, and the removal of each service.
Removal ==
  [stage |-> "stop renewal", renewal |-> "stop bridge", bridge |-> "clear"]

\* scp, the checks of the ZIP, Expand-Archive, Get-Credential.
Stage ==
  /\ Step("stage", Removal.stage)
  /\ UNCHANGED <<bundle, previous, registered>>
  /\ UNCHANGED vars

\* Remove-ServiceForUpgrade: Stop-Service unless there is none or it is
\* stopped.  The control is refused while a service is starting.
StopRenewal ==
  /\ \/ /\ service = "stopped"
        /\ Step("stop renewal", "delete renewal")
        /\ UNCHANGED stop
     \/ /\ service \in TakesStop
        /\ Step("stop renewal", "await renewal")
        /\ stop' = TRUE
  /\ UNCHANGED <<service, script, outcome, atStart, restarts, files, bridgeVars>>
  /\ UNCHANGED <<bundle, previous, registered>>

StopBridge ==
  /\ \/ /\ bridge = "stopped"
        /\ Step("stop bridge", "delete bridge")
        /\ UNCHANGED bridgeVars
     \/ /\ Step("stop bridge", "await bridge")
        /\ Bridge!StopControl \/ (bridge = "stopping" /\ UNCHANGED bridgeVars)
  /\ UNCHANGED <<renewal, files, bundle, previous, registered>>

\* WaitForStatus, at most 30 s.
AwaitStopped ==
  /\ \/ service = "stopped" /\ Step("await renewal", "delete renewal")
     \/ bridge = "stopped" /\ Step("await bridge", "delete bridge")
  /\ UNCHANGED <<bundle, previous, registered>>
  /\ UNCHANGED vars

\* sc.exe delete and Wait-ServiceRemoved: a service that somebody has started
\* again is not removed in time, and the script throws.
DeleteService ==
  /\ \/ /\ service = "stopped"
        /\ Step("delete renewal", Removal.renewal)
        /\ registered' = registered \ {"renewal"}
     \/ /\ bridge = "stopped"
        /\ Step("delete bridge", Removal.bridge)
        /\ registered' = registered \ {"bridge"}
  /\ UNCHANGED <<bundle, previous>>
  /\ UNCHANGED vars

-----------------------------------------------------------------------------
(***************************************************************************)
(* The installer: the bundle and the certificate.                          *)
(***************************************************************************)

ClearPrevious ==
  /\ Step("clear", "set aside")
  /\ previous' = NoBundle
  /\ UNCHANGED <<bundle, registered>>
  /\ UNCHANGED vars

\* Mutant: the old bundle is removed instead of being set aside.
SetAsideRemoves ==
  /\ ~BundleInUse
  /\ Step("set aside", "move in")
  /\ bundle' = NoBundle
  /\ UNCHANGED <<previous, registered>>
  /\ UNCHANGED vars

SetAside ==
  /\ ~BundleInUse
  /\ Step("set aside", "move in")
  /\ previous' = bundle
  /\ bundle' = NoBundle
  /\ UNCHANGED registered
  /\ UNCHANGED vars

MoveIn ==
  /\ installer = "move in"
  /\ installer' = "certificate"
  /\ bundle' = Version
  /\ replaced' = TRUE
  /\ UNCHANGED <<installs, previous, registered, atBegin>>
  /\ UNCHANGED vars

KeepCertificate ==
  /\ disk # None
  /\ Step("certificate", "register bridge")
  /\ UNCHANGED <<bundle, previous, registered>>
  /\ UNCHANGED vars

\* The certificate is issued in place, and verified there: on the first
\* installation, or with -ReplaceCertificate.
IssueCertificate ==
  /\ issued < MaxCerts
  /\ issued' = issued + 1
  /\ disk' = issued'
  /\ \E good \in BOOLEAN : sound' = IF good THEN sound \cup {issued'} ELSE sound
  /\ Step("certificate", "verify certificate")
  /\ UNCHANGED <<bundle, previous, registered>>
  /\ UNCHANGED <<renewal, temp, bridgeVars>>

VerifyIssued ==
  /\ disk \in sound
  /\ Step("verify certificate", "register bridge")
  /\ UNCHANGED <<bundle, previous, registered>>
  /\ UNCHANGED vars

-----------------------------------------------------------------------------
(***************************************************************************)
(* The installer: the services come back.  Start-Service waits for Running *)
(* and throws when the service has stopped instead.                        *)
(***************************************************************************)

RegisterBridge ==
  /\ "bridge" \notin registered
  /\ Step("register bridge", "start bridge")
  /\ registered' = registered \cup {"bridge"}
  /\ UNCHANGED <<bundle, previous>>
  /\ UNCHANGED vars

StartBridge ==
  /\ Step("start bridge", "await running")
  /\ Bridge!Start
  /\ UNCHANGED <<renewal, files, bundle, previous, registered>>

BridgeIsRunning ==
  /\ bridge \in Bridge!ReportedRunning
  /\ Step("await running", "register renewal")
  /\ UNCHANGED <<bundle, previous, registered>>
  /\ UNCHANGED vars

RegisterRenewal ==
  /\ "renewal" \notin registered
  /\ Step("register renewal", "start renewal")
  /\ registered' = registered \cup {"renewal"}
  /\ UNCHANGED <<bundle, previous>>
  /\ UNCHANGED vars

StartRenewal ==
  /\ Step("start renewal", "await renewal start")
  /\ service' = "starting"
  /\ UNCHANGED <<stop, script, outcome, atStart, restarts, files, bridgeVars>>
  /\ UNCHANGED <<bundle, previous, registered>>

RenewalIsRunning ==
  /\ service \in TakesStop
  /\ Step("await renewal start", "check")
  /\ UNCHANGED <<bundle, previous, registered>>
  /\ UNCHANGED vars

CheckServices ==
  /\ bridge \in Bridge!ReportedRunning
  /\ service \in TakesStop
  /\ Step("check", "finish")
  /\ UNCHANGED <<bundle, previous, registered>>
  /\ UNCHANGED vars

\* The configuration is written and the previous bundle removed.
Finish ==
  /\ Step("finish", "idle")
  /\ previous' = NoBundle
  /\ UNCHANGED <<bundle, registered>>
  /\ UNCHANGED vars

-----------------------------------------------------------------------------
(***************************************************************************)
(* Failure.                                                                *)
(***************************************************************************)

RollsBack == replaced /\ previous # NoBundle

\* Any command may throw, as in the script: the catch restores the previous
\* bundle if the new one was moved in.  A directory with a running executable
\* is not removed, and says nothing; the previous bundle then lands inside it.
Throw ==
  /\ installer # "idle"
  /\ installer = "await running" => bridge = "stopped"
  /\ installer = "await renewal start" => service = "stopped"
  /\ Goto("idle")
  /\ \/ /\ RollsBack
        /\ bundle' = IF BundleInUse THEN Torn ELSE previous
        /\ previous' = NoBundle
     \/ /\ ~RollsBack
        /\ UNCHANGED <<bundle, previous>>
  /\ UNCHANGED registered
  /\ UNCHANGED vars

\* Ctrl-C, a closed window, a killed process: no catch.  The host goes on.
Interrupt ==
  /\ installer # "idle"
  /\ Goto("idle")
  /\ UNCHANGED <<bundle, previous, registered>>
  /\ UNCHANGED vars

-----------------------------------------------------------------------------

Renewal == UNCHANGED installerVars

\* A service that is not registered can be neither stopped nor started.
ScriptActs ==
  /\ ScriptStep
  /\ script \in {"restart", "start"} => "bridge" \in registered

OperatorActs ==
  /\ installer = "idle"
  /\ OperatorStarts
  /\ bundle # NoBundle
  /\ service' # service => "renewal" \in registered
  /\ bridge' # bridge => "bridge" \in registered

HostNext ==
  \/ Begin \/ Stage
  \/ StopRenewal \/ StopBridge \/ AwaitStopped \/ DeleteService
  \/ ClearPrevious \/ SetAside \/ MoveIn
  \/ KeepCertificate \/ IssueCertificate \/ VerifyIssued
  \/ RegisterBridge \/ StartBridge \/ BridgeIsRunning
  \/ RegisterRenewal \/ StartRenewal \/ RenewalIsRunning
  \/ CheckServices \/ Finish
  \/ Throw \/ Interrupt
  \/ Renewal /\ (ServiceStarts \/ StopControl \/ Spawn \/ SpawnFails \/ ChildEnded \/ KillChild)
  \/ Renewal /\ (IntervalElapsed \/ StopWhileWaiting)
  \/ Renewal /\ ScriptActs
  \/ Renewal /\ ScriptFails
  \/ Renewal /\ BridgeStep
  \/ Renewal /\ OperatorActs
  \/ Renewal /\ Rest

HostSpec == HostInit /\ [][HostNext]_hostVars

\* The renewal service's thread runs: it spawns, looks at its child every
\* 250 ms and at its channel whenever it waits.  The script may hang in any
\* command, and the installer owes nothing.
HostFairSpec ==
  /\ HostSpec
  /\ WF_hostVars(Renewal /\ (Spawn \/ SpawnFails))
  /\ WF_hostVars(Renewal /\ ChildEnded)
  /\ WF_hostVars(Renewal /\ KillChild)
  /\ WF_hostVars(Renewal /\ StopWhileWaiting)
  /\ WF_hostVars(Renewal /\ IntervalElapsed)

-----------------------------------------------------------------------------
(***************************************************************************)
(* Properties.                                                             *)
(***************************************************************************)

\* Every variable stays in its type.
HostTypeOK ==
  /\ TypeOK
  /\ installer \in InstallerCommands \cup {"idle"}
  /\ installs \in 0..MaxInstalls
  /\ bundle \in Versions \cup {NoBundle, Torn}
  /\ previous \in Versions \cup {NoBundle, Torn}
  /\ replaced \in BOOLEAN
  /\ registered \subseteq {"bridge", "renewal"}
  /\ atBegin \in Versions \cup {NoBundle, Torn}

\* Once the installer has stopped the bridge nobody but the installer starts
\* it: the renewal, which may, is gone by then (install-server.ps1:195-197).
Replacing ==
  {"delete bridge", "clear", "set aside", "move in", "certificate",
   "verify certificate", "register bridge", "start bridge"}

OnlyInstallerStarts ==
  [][bridge = "stopped" /\ bridge' # "stopped" /\ installer \in Replacing =>
       installer = "start bridge" /\ installer' = "await running"]_hostVars

\* No step of the installer but its last loses the bundle it has found: it is
\* in place, set aside, or inside the one that could not be removed
\* (install-server.ps1:200-207, 312-320).
OldBundleKept ==
  [][installer \notin {"idle", "finish"} /\ atBegin # NoBundle /\ atBegin \in {bundle, previous} =>
       atBegin \in {bundle', previous'} \/ bundle' = Torn]_hostVars

\* `Installation failed; restored the previous bundle. Services remain
\* stopped.' (install-server.ps1:320)  It does not hold when the installation
\* fails after it has started the bridge.
RollbackRestores ==
  [][installer' = "idle" /\ bundle' # bundle =>
       bundle' = previous /\ bridge' = "stopped" /\ service' = "stopped"]_hostVars
=============================================================================
