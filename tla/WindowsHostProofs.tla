-------------------------- MODULE WindowsHostProofs --------------------------
(***************************************************************************)
(* Theorems about WindowsHost, for any number of certificates, starts and  *)
(* installations.  The argument has three parts: which services can still  *)
(* act at each command of the installer, what a script in each of its      *)
(* commands knows of the certificates, and where the bundle is that the    *)
(* installer has found.                                                    *)
(***************************************************************************)
EXTENDS WindowsHost, TLAPS

\* The commands from which on the renewal service is stopped, and cannot be
\* started until the last of them.
RenewalGone ==
  {"delete renewal", "stop bridge", "await bridge", "delete bridge", "clear",
   "set aside", "move in", "certificate", "verify certificate", "register bridge",
   "start bridge", "await running", "register renewal", "start renewal"}

\* A script runs only while its service looks after it.
ServiceInv ==
  /\ script # "none" => service = "polling"
  /\ installer \in RenewalGone => service = "stopped"
  /\ installer \in Replacing => bridge = "stopped"

\* A new certificate is newer than the one the script has started with, sound
\* when it is moved, and in place when the bridge is restarted; whoever started
\* the bridge after that, it reads the new certificate.
CertificateInv ==
  /\ script \in {"verify", "move"} => temp > atStart.disk
  /\ script = "move" => temp \in sound
  /\ script \in {"restart", "await stop", "start", "await running"} => disk > atStart.disk
  /\ (script \in {"start", "await running"} \/ (script = "none" /\ outcome = "ok"))
       /\ bridge \in {"binding", "serving"} => loaded = disk

\* The bundle that was found is in place until it is set aside, and the new one
\* can be told from it.
BeforeMove ==
  {"stage", "stop renewal", "await renewal", "delete renewal", "stop bridge",
   "await bridge", "delete bridge", "clear", "set aside"}

BundleInv ==
  /\ installer \in BeforeMove => bundle = atBegin
  /\ installer \in BeforeMove \cup {"move in"} => ~replaced
  /\ installer = "move in" => bundle = NoBundle
  /\ installer # "idle" /\ replaced => bundle = Version
  /\ bundle = Torn \/ bundle <= Version
  /\ previous = Torn \/ previous <= Version
  /\ installer # "idle" => atBegin = Torn \/ atBegin < Version

IInv == HostTypeOK /\ ServiceInv /\ CertificateInv /\ BundleInv

-----------------------------------------------------------------------------
\* The initial states satisfy the inductive invariant: a host without anything
\* installed, and one that an earlier run has left.
LEMMA InitIInv == HostInit => IInv
<1> SUFFICES ASSUME HostInit PROVE IInv
  OBVIOUS
<1> USE RenewalAssumption, HostAssumption DEF HostInit, Init
<1>1. issued \in 0..MaxCerts /\ restarts \in 0..MaxRestarts
  OBVIOUS
<1>2. TypeOK
  <2>1. /\ sound \subseteq 1..issued
        /\ temp \in 0..issued /\ disk \in 0..issued /\ loaded \in 0..issued
    BY DEF None
  <2>2. atStart \in [disk : 0..issued, bridge : Bridge!States]
    BY DEF None, Bridge!States
  <2>3. /\ service \in ServiceStates
        /\ script \in Commands \cup {"none"}
        /\ outcome \in {"none", "ok", "failed", "killed"}
        /\ bridge \in Bridge!States
    BY DEF Bridge!States, ServiceStates, TakesStop
  <2>4. stop \in BOOLEAN
    OBVIOUS
  <2> QED BY <1>1, <2>1, <2>2, <2>3, <2>4 DEF TypeOK
<1>3. HostTypeOK
  <2>1. bundle \in Versions \cup {NoBundle, Torn} /\ atBegin = bundle
    BY DEF Versions, NoBundle
  <2>2. installs \in 0..MaxInstalls
    OBVIOUS
  <2>3. registered \subseteq {"bridge", "renewal"}
    OBVIOUS
  <2> QED BY <1>2, <2>1, <2>2, <2>3 DEF HostTypeOK
<1>4. ServiceInv /\ CertificateInv
  BY DEF ServiceInv, CertificateInv, RenewalGone, Replacing
<1>5. BundleInv
  BY DEF BundleInv, BeforeMove, NoBundle, Version
<1> QED BY <1>3, <1>4, <1>5 DEF IInv

\* The absence of a certificate is not an issued one.
LEMMA NoneInRange == HostTypeOK => None \in 0..issued
BY RenewalAssumption DEF HostTypeOK, TypeOK, None

-----------------------------------------------------------------------------
(***************************************************************************)
(* The renewal service, its script, the bridge and the operator.           *)
(***************************************************************************)

\* What they do leaves the installer's own state alone.
LEMMA BundleKept ==
  ASSUME IInv, Renewal
  PROVE  BundleInv'
BY DEF IInv, BundleInv, Renewal, installerVars, Version

\* The renewal service's thread, and the control handler, keep the invariant.
LEMMA ServiceStepIInv ==
  ASSUME IInv, Renewal,
         \/ ServiceStarts \/ StopControl \/ Spawn \/ SpawnFails \/ ChildEnded
         \/ KillChild \/ IntervalElapsed \/ StopWhileWaiting
  PROVE  IInv'
<1> USE DEF IInv, HostTypeOK, TypeOK, files, bridgeVars, Renewal, installerVars,
            ServiceStates, TakesStop
<1>1. CASE ServiceStarts \/ StopControl \/ SpawnFails \/ IntervalElapsed \/ StopWhileWaiting
  <2>1. TypeOK'
    <3>1. CASE StopControl
      BY <3>1 DEF StopControl
    <3>2. CASE SpawnFails
      BY <3>2 DEF SpawnFails
    <3>3. CASE IntervalElapsed
      BY <3>3 DEF IntervalElapsed
    <3>4. CASE StopWhileWaiting
      BY <3>4 DEF StopWhileWaiting
    <3>5. CASE ServiceStarts
      BY <3>5 DEF ServiceStarts
    <3> QED BY <1>1, <3>1, <3>2, <3>3, <3>4, <3>5
  <2>2. ServiceInv' /\ CertificateInv'
    BY <1>1 DEF ServiceStarts, StopControl, SpawnFails, IntervalElapsed,
                StopWhileWaiting, ServiceInv,
                CertificateInv
  <2> QED BY <2>1, <2>2, BundleKept
<1>2. CASE Spawn
  <2>1. HostTypeOK'
    <3>1. atStart' \in [disk : 0..issued, bridge : Bridge!States]
      BY <1>2 DEF Spawn
    <3>2. UNCHANGED issued
      BY <1>2 DEF Spawn
    <3>3. temp' \in 0..issued /\ script' \in Commands /\ service' = "polling"
      BY <1>2, NoneInRange DEF Spawn, Commands
    <3> QED BY <1>2, <3>1, <3>2, <3>3 DEF Spawn
  <2>2. ServiceInv' /\ CertificateInv'
    BY <1>2 DEF Spawn, ServiceInv, CertificateInv
  <2> QED BY <2>1, <2>2, BundleKept
<1>3. CASE ChildEnded
  <2>1. HostTypeOK'
    BY <1>3 DEF ChildEnded
  <2>2. ServiceInv' /\ CertificateInv'
    BY <1>3 DEF ChildEnded, ServiceInv, CertificateInv
  <2> QED BY <2>1, <2>2, BundleKept
<1>4. CASE KillChild
  <2>1. HostTypeOK'
    BY <1>4 DEF KillChild
  <2>2. ServiceInv' /\ CertificateInv'
    BY <1>4 DEF KillChild, ServiceInv, CertificateInv
  <2> QED BY <2>1, <2>2, BundleKept
<1> QED BY <1>1, <1>2, <1>3, <1>4

\* Each command of the script hands the next one what that relies on.
LEMMA ScriptStepIInv ==
  ASSUME IInv, Renewal, ScriptStep \/ ScriptFails
  PROVE  IInv'
<1> USE DEF IInv, HostTypeOK, TypeOK, files, bridgeVars, Renewal, installerVars, Continue,
            Commands, Bridge!States
<1>1. script # "none" /\ service = "polling" /\ installer \notin RenewalGone
  BY DEF ServiceInv, ScriptStep, ScriptFails, Renew, Verify, Move, RestartStops,
         RestartAwaits, RestartStarts, RestartDone
<1>2. installer \notin Replacing
  BY <1>1 DEF Replacing, RenewalGone
<1>3. CASE ScriptFails
  <2>1. TypeOK'
    BY <1>3, NoneInRange DEF ScriptFails
  <2>2. ServiceInv'
    BY <1>1, <1>2, <1>3 DEF ScriptFails, None, ServiceInv
  <2>3. CertificateInv'
    BY <1>1, <1>3 DEF ScriptFails, None, CertificateInv
  <2> QED BY <2>1, <2>2, <2>3, BundleKept
<1>4. CASE Renew
  <2>1. TypeOK'
    BY <1>4, RenewalAssumption DEF Renew
  <2>2. ServiceInv'
    BY <1>1, <1>2, <1>4 DEF Renew, ServiceInv
  <2>3. CertificateInv'
    BY <1>1, <1>4 DEF Renew, CertificateInv
  <2> QED BY <2>1, <2>2, <2>3, BundleKept DEF HostTypeOK
<1>5. CASE Verify
  <2>1. HostTypeOK'
    BY <1>5 DEF Verify
  <2>2. ServiceInv'
    BY <1>1, <1>2, <1>5 DEF Verify, ServiceInv
  <2>3. CertificateInv'
    BY <1>1, <1>5 DEF Verify, CertificateInv
  <2> QED BY <2>1, <2>2, <2>3, BundleKept
<1>6. CASE Move
  <2>1. HostTypeOK'
    BY <1>6, NoneInRange DEF Move
  <2>2. ServiceInv'
    BY <1>1, <1>2, <1>6 DEF Move, None, ServiceInv
  <2>3. CertificateInv'
    BY <1>1, <1>6 DEF Move, None, CertificateInv
  <2> QED BY <2>1, <2>2, <2>3, BundleKept
<1>7. CASE RestartStops
  <2>1. TypeOK'
    <3>1. bridge' \in Bridge!States /\ UNCHANGED loaded
      BY <1>7 DEF RestartStops, Bridge!StopControl, Bridge!Move, Bridge!States
    <3> QED BY <1>7, <3>1 DEF RestartStops
  <2>2. ServiceInv'
    BY <1>1, <1>2, <1>7 DEF RestartStops, Bridge!StopControl, Bridge!Move, ServiceInv
  <2>3. CertificateInv'
    BY <1>1, <1>7 DEF RestartStops, Bridge!StopControl, Bridge!Move, CertificateInv
  <2> QED BY <2>1, <2>2, <2>3, BundleKept
<1>8. CASE RestartAwaits
  <2>1. TypeOK'
    BY <1>8 DEF RestartAwaits
  <2>2. ServiceInv'
    BY <1>1, <1>2, <1>8 DEF RestartAwaits, ServiceInv
  <2>3. CertificateInv'
    BY <1>1, <1>8 DEF RestartAwaits, CertificateInv
  <2> QED BY <2>1, <2>2, <2>3, BundleKept
<1>9. CASE RestartStarts
  <2>1. TypeOK'
    <3>1. bridge' \in Bridge!States /\ UNCHANGED loaded
      BY <1>9 DEF RestartStarts, Bridge!Start, Bridge!Move, Bridge!States
    <3> QED BY <1>9, <3>1 DEF RestartStarts
  <2>2. ServiceInv'
    BY <1>1, <1>2, <1>9 DEF RestartStarts, Bridge!Start, Bridge!Move, ServiceInv
  <2>3. CertificateInv'
    BY <1>1, <1>9 DEF RestartStarts, Bridge!Start, Bridge!Move, CertificateInv
  <2> QED BY <2>1, <2>2, <2>3, BundleKept
<1>10. CASE RestartDone
  <2>1. TypeOK'
    BY <1>10 DEF RestartDone
  <2>2. ServiceInv'
    BY <1>1, <1>2, <1>10 DEF RestartDone, ServiceInv
  <2>3. CertificateInv'
    BY <1>1, <1>10 DEF RestartDone, CertificateInv
  <2> QED BY <2>1, <2>2, <2>3, BundleKept
<1> QED BY <1>3, <1>4, <1>5, <1>6, <1>7, <1>8, <1>9, <1>10 DEF ScriptStep

\* A bridge that is stopped stays so; one that reads, reads what is in place.
LEMMA BridgeStepIInv ==
  ASSUME IInv, Renewal, BridgeStep
  PROVE  IInv'
<1> USE DEF IInv, HostTypeOK, TypeOK, files, Renewal, installerVars, BridgeStep,
            Bridge!Move,
            Bridge!States
<1>1. CASE Bridge!StartFails \/ Bridge!StartHangs \/ Bridge!ReportRunning
             \/ Bridge!Serve \/ Bridge!Fails \/ Bridge!Stopped
  <2>1. HostTypeOK'
    BY <1>1 DEF Bridge!StartFails, Bridge!StartHangs, Bridge!ReportRunning, Bridge!Serve,
                Bridge!Fails, Bridge!Stopped
  <2>2. ServiceInv' /\ CertificateInv'
    BY <1>1 DEF Bridge!StartFails, Bridge!StartHangs, Bridge!ReportRunning, Bridge!Serve,
                Bridge!Fails, Bridge!Stopped, ServiceInv, CertificateInv
  <2> QED BY <2>1, <2>2, BundleKept
<1>2. CASE Bridge!ReadCertificate
  <2>1. HostTypeOK'
    BY <1>2 DEF Bridge!ReadCertificate
  <2>2. ServiceInv' /\ CertificateInv'
    BY <1>2 DEF Bridge!ReadCertificate, ServiceInv, CertificateInv
  <2> QED BY <2>1, <2>2, BundleKept
<1> QED BY <1>1, <1>2

\* The operator acts only while the installer does not.
LEMMA OperatorActsIInv ==
  ASSUME IInv, Renewal, OperatorActs
  PROVE  IInv'
<1> USE DEF IInv, HostTypeOK, TypeOK, files, bridgeVars, Renewal, installerVars,
            OperatorActs,
            OperatorStarts, Bridge!Start, Bridge!Move, Bridge!States, ServiceStates,
            TakesStop
<1>1. HostTypeOK'
  BY RenewalAssumption
<1>2. ServiceInv' /\ CertificateInv'
  BY DEF ServiceInv, CertificateInv, RenewalGone, Replacing
<1> QED BY <1>1, <1>2, BundleKept

-----------------------------------------------------------------------------
(***************************************************************************)
(* The installer.                                                          *)
(***************************************************************************)

\* Most of its commands touch neither a service nor a certificate.
LEMMA CertificateKept ==
  ASSUME HostTypeOK, CertificateInv, UNCHANGED vars
  PROVE  TypeOK' /\ CertificateInv'
<1>1. TypeOK'
  BY DEF HostTypeOK, TypeOK, vars
<1>2. CertificateInv'
  BY DEF CertificateInv, vars
<1> QED BY <1>1, <1>2

\* A step that moves the installer on and leaves both bundles as they are.
LEMMA OnwardBundle ==
  ASSUME HostTypeOK, BundleInv, UNCHANGED <<bundle, previous, installs, replaced, atBegin>>,
         installer' \in BeforeMove => installer \in BeforeMove,
         installer' # "move in", installer # "idle"
  PROVE  BundleInv'
BY DEF BundleInv, Version

\* The beginning, and the commands that only wait or look.
LEMMA QuietIInv ==
  ASSUME IInv, Begin \/ Stage \/ AwaitStopped \/ KeepCertificate \/ VerifyIssued
                 \/ BridgeIsRunning \/ RenewalIsRunning \/ CheckServices \/ Interrupt
  PROVE  IInv'
<1> USE DEF IInv, Step, Goto, Removal, InstallerCommands
<1>1. TypeOK' /\ CertificateInv'
  BY CertificateKept DEF Begin, Stage, AwaitStopped, KeepCertificate, VerifyIssued,
                         BridgeIsRunning, RenewalIsRunning, CheckServices, Interrupt
<1>2. CASE Begin
  <2>1. installs' \in 0..MaxInstalls
    BY <1>2, HostAssumption DEF Begin, HostTypeOK
  <2>2. HostTypeOK'
    BY <1>1, <1>2, <2>1 DEF Begin, HostTypeOK, Versions, NoBundle, Torn
  <2>3. ServiceInv'
    BY <1>2 DEF Begin, ServiceInv, RenewalGone, Replacing, vars
  <2>4. BundleInv'
    <3>1. installs \in Nat /\ installs' = installs + 1
      BY <1>2, HostAssumption DEF Begin, HostTypeOK
    <3> QED BY <1>2, <3>1 DEF Begin, HostTypeOK, BundleInv, BeforeMove, Version,
                              Versions, NoBundle
  <2> QED BY <1>1, <2>2, <2>3, <2>4
<1>3. CASE Stage
  <2>1. HostTypeOK'
    BY <1>1, <1>3 DEF Stage, HostTypeOK
  <2>2. ServiceInv'
    BY <1>3 DEF Stage, ServiceInv, RenewalGone, Replacing, vars
  <2>3. BundleInv'
    BY <1>3, OnwardBundle DEF Stage, BeforeMove
  <2> QED BY <1>1, <2>1, <2>2, <2>3
<1>4. CASE AwaitStopped
  <2>1. HostTypeOK'
    BY <1>1, <1>4 DEF AwaitStopped, HostTypeOK
  <2>2. ServiceInv'
    BY <1>4 DEF AwaitStopped, ServiceInv, RenewalGone, Replacing, vars
  <2>3. BundleInv'
    BY <1>4, OnwardBundle DEF AwaitStopped, BeforeMove
  <2> QED BY <1>1, <2>1, <2>2, <2>3
<1>5. CASE KeepCertificate \/ VerifyIssued \/ BridgeIsRunning \/ RenewalIsRunning
           \/ CheckServices
  <2>1. HostTypeOK'
    BY <1>1, <1>5 DEF KeepCertificate, VerifyIssued, BridgeIsRunning, RenewalIsRunning,
                      CheckServices, HostTypeOK
  <2>2. ServiceInv'
    BY <1>5 DEF KeepCertificate, VerifyIssued, BridgeIsRunning, RenewalIsRunning,
                CheckServices, ServiceInv,
                RenewalGone, Replacing, vars
  <2>3. BundleInv'
    BY <1>5, OnwardBundle DEF KeepCertificate, VerifyIssued, BridgeIsRunning,
                              RenewalIsRunning, CheckServices,
                              BeforeMove
  <2> QED BY <1>1, <2>1, <2>2, <2>3
<1>6. CASE Interrupt
  <2>1. HostTypeOK'
    BY <1>1, <1>6 DEF Interrupt, HostTypeOK
  <2>2. ServiceInv'
    BY <1>6 DEF Interrupt, ServiceInv, RenewalGone, Replacing, vars
  <2>3. BundleInv'
    BY <1>6, OnwardBundle DEF Interrupt, BeforeMove
  <2> QED BY <1>1, <2>1, <2>2, <2>3
<1> QED BY <1>2, <1>3, <1>4, <1>5, <1>6

\* The commands that stop, remove, register and start the services: the renewal
\* goes first and comes back last, so that nobody can start the bridge between.
LEMMA ServicesIInv ==
  ASSUME IInv, StopRenewal \/ StopBridge \/ DeleteService \/ RegisterBridge \/ StartBridge
                 \/ RegisterRenewal \/ StartRenewal
  PROVE  IInv'
<1> USE DEF IInv, Step, Goto, Removal, InstallerCommands, renewal, files, bridgeVars
<1>1. CASE StopRenewal
  <2>1. TypeOK'
    <3>1. stop' \in BOOLEAN
      BY <1>1 DEF StopRenewal, HostTypeOK, TypeOK
    <3> QED BY <1>1, <3>1 DEF StopRenewal, HostTypeOK, TypeOK
  <2>2. HostTypeOK'
    BY <1>1, <2>1 DEF StopRenewal, HostTypeOK
  <2>3. ServiceInv' /\ CertificateInv'
    BY <1>1 DEF StopRenewal, ServiceInv, CertificateInv, RenewalGone, Replacing
  <2>4. BundleInv'
    BY <1>1, OnwardBundle DEF StopRenewal, BeforeMove
  <2> QED BY <2>2, <2>3, <2>4
<1>2. CASE StopBridge
  <2>1. TypeOK'
    <3>1. bridge' \in Bridge!States /\ loaded' = loaded
      BY <1>2 DEF StopBridge, HostTypeOK, TypeOK, Bridge!StopControl, Bridge!Move,
                  Bridge!States
    <3>2. UNCHANGED <<renewal, issued, sound, temp, disk>>
      BY <1>2 DEF StopBridge
    <3> QED BY <3>1, <3>2 DEF HostTypeOK, TypeOK
  <2>2. HostTypeOK'
    BY <1>2, <2>1 DEF StopBridge, HostTypeOK
  <2>3. ServiceInv'
    BY <1>2 DEF StopBridge, ServiceInv, RenewalGone, Replacing
  <2>4. CertificateInv'
    BY <1>2 DEF StopBridge, CertificateInv, Bridge!StopControl, Bridge!Move
  <2>5. BundleInv'
    BY <1>2, OnwardBundle DEF StopBridge, BeforeMove
  <2> QED BY <2>2, <2>3, <2>4, <2>5
<1>3. CASE DeleteService \/ RegisterBridge \/ RegisterRenewal
  <2>1. TypeOK' /\ CertificateInv'
    BY <1>3, CertificateKept DEF DeleteService, RegisterBridge, RegisterRenewal
  <2>2. HostTypeOK'
    BY <1>3, <2>1 DEF DeleteService, RegisterBridge, RegisterRenewal, HostTypeOK
  <2>3. ServiceInv'
    BY <1>3 DEF DeleteService, RegisterBridge, RegisterRenewal, ServiceInv, RenewalGone,
                Replacing, vars
  <2>4. BundleInv'
    BY <1>3, OnwardBundle DEF DeleteService, RegisterBridge, RegisterRenewal, BeforeMove
  <2> QED BY <2>1, <2>2, <2>3, <2>4
<1>4. CASE StartBridge
  <2>1. TypeOK'
    BY <1>4 DEF StartBridge, HostTypeOK, TypeOK, Bridge!Start, Bridge!Move, Bridge!States
  <2>2. HostTypeOK'
    BY <1>4, <2>1 DEF StartBridge, HostTypeOK
  <2>3. ServiceInv' /\ CertificateInv'
    BY <1>4 DEF StartBridge, ServiceInv, CertificateInv, RenewalGone, Replacing,
                Bridge!Start, Bridge!Move
  <2>4. BundleInv'
    BY <1>4, OnwardBundle DEF StartBridge, BeforeMove
  <2> QED BY <2>2, <2>3, <2>4
<1>5. CASE StartRenewal
  <2>1. TypeOK'
    BY <1>5 DEF StartRenewal, HostTypeOK, TypeOK, ServiceStates
  <2>2. HostTypeOK'
    BY <1>5, <2>1 DEF StartRenewal, HostTypeOK
  <2>3. ServiceInv' /\ CertificateInv'
    BY <1>5 DEF StartRenewal, ServiceInv, CertificateInv, RenewalGone, Replacing
  <2>4. BundleInv'
    BY <1>5, OnwardBundle DEF StartRenewal, BeforeMove
  <2> QED BY <2>2, <2>3, <2>4
<1> QED BY <1>1, <1>2, <1>3, <1>4, <1>5

\* The commands that move bundles, a certificate that is issued in place, and
\* the catch.
LEMMA BundlesIInv ==
  ASSUME IInv, ClearPrevious \/ SetAside \/ MoveIn \/ IssueCertificate \/ Finish \/ Throw
  PROVE  IInv'
<1> USE DEF IInv, Step, Goto, InstallerCommands
<1>1. Version \in Versions /\ NoBundle <= Version /\ Version <= Version
  <2>1. installs \in 0..MaxInstalls
    BY DEF HostTypeOK
  <2> QED BY <2>1, HostAssumption DEF Version, Versions, NoBundle
<1>2. CASE ClearPrevious \/ Finish
  <2>1. TypeOK' /\ CertificateInv'
    BY <1>2, CertificateKept DEF ClearPrevious, Finish
  <2>2. HostTypeOK'
    BY <1>2, <2>1 DEF ClearPrevious, Finish, HostTypeOK
  <2>3. ServiceInv'
    BY <1>2 DEF ClearPrevious, Finish, ServiceInv, RenewalGone, Replacing, vars
  <2>4. BundleInv'
    <3>1. Version' = Version
      BY <1>2 DEF ClearPrevious, Finish, Version
    <3>2. CASE ClearPrevious
      BY <1>1, <3>1, <3>2 DEF ClearPrevious, BundleInv, BeforeMove
    <3>3. CASE Finish
      BY <1>1, <3>1, <3>3 DEF Finish, BundleInv, BeforeMove
    <3> QED BY <1>2, <3>2, <3>3
  <2> QED BY <2>1, <2>2, <2>3, <2>4
<1>3. CASE SetAside \/ MoveIn
  <2>1. TypeOK' /\ CertificateInv'
    BY <1>3, CertificateKept DEF SetAside, MoveIn
  <2>2. HostTypeOK'
    BY <1>1, <1>3, <2>1 DEF SetAside, MoveIn, HostTypeOK
  <2>3. ServiceInv'
    BY <1>3 DEF SetAside, MoveIn, ServiceInv, RenewalGone, Replacing, vars
  <2>4. BundleInv'
    <3>1. Version' = Version
      BY <1>3 DEF SetAside, MoveIn, Version
    <3>2. CASE SetAside
      BY <1>1, <3>1, <3>2 DEF SetAside, BundleInv, BeforeMove
    <3>3. CASE MoveIn
      BY <1>1, <3>1, <3>3 DEF MoveIn, BundleInv, BeforeMove
    <3> QED BY <1>3, <3>2, <3>3
  <2> QED BY <2>1, <2>2, <2>3, <2>4
<1>4. CASE IssueCertificate
  <2>1. script = "none" /\ bridge = "stopped"
    BY <1>4 DEF IssueCertificate, ServiceInv, RenewalGone, Replacing
  <2>2. TypeOK'
    <3>1. /\ issued < MaxCerts /\ issued' = issued + 1 /\ disk' = issued'
          /\ sound' \subseteq sound \cup {issued'}
          /\ UNCHANGED <<temp, loaded, atStart>>
      BY <1>4 DEF IssueCertificate, renewal, bridgeVars
    <3>2. /\ issued \in 0..MaxCerts /\ sound \subseteq 1..issued
          /\ temp \in 0..issued /\ loaded \in 0..issued
          /\ atStart \in [disk : 0..issued, bridge : Bridge!States]
      BY DEF HostTypeOK, TypeOK
    <3>3. /\ issued' \in 0..MaxCerts
          /\ sound' \subseteq 1..issued'
          /\ temp' \in 0..issued' /\ disk' \in 0..issued' /\ loaded' \in 0..issued'
          /\ atStart' \in [disk : 0..issued', bridge : Bridge!States]
      BY <3>1, <3>2, RenewalAssumption
    <3> QED BY <1>4, <3>3 DEF IssueCertificate, HostTypeOK, TypeOK, renewal, bridgeVars
  <2>3. HostTypeOK'
    BY <1>4, <2>2 DEF IssueCertificate, HostTypeOK
  <2>4. ServiceInv' /\ CertificateInv'
    BY <1>4, <2>1 DEF IssueCertificate, ServiceInv, CertificateInv, RenewalGone, Replacing,
                      renewal, bridgeVars
  <2>5. BundleInv'
    BY <1>4, OnwardBundle DEF IssueCertificate, BeforeMove
  <2> QED BY <2>3, <2>4, <2>5
<1>5. CASE Throw
  <2>1. TypeOK' /\ CertificateInv'
    BY <1>5, CertificateKept DEF Throw
  <2>2. HostTypeOK'
    BY <1>5, <2>1 DEF Throw, HostTypeOK
  <2>3. ServiceInv'
    BY <1>5 DEF Throw, ServiceInv, RenewalGone, Replacing, vars
  <2>4. BundleInv'
    <3>1. Version' = Version
      BY <1>5 DEF Throw, Version
    <3> QED BY <1>1, <1>5, <3>1 DEF Throw, BundleInv, BeforeMove
  <2> QED BY <2>1, <2>2, <2>3, <2>4
<1> QED BY <1>2, <1>3, <1>4, <1>5

-----------------------------------------------------------------------------
\* Every step keeps the inductive invariant, a stuttering one included.
LEMMA NextIInv ==
  ASSUME IInv, [HostNext]_hostVars
  PROVE  IInv'
<1>1. CASE Renewal /\ Rest
  BY <1>1, CertificateKept, BundleKept
     DEF Rest, Renewal, IInv, HostTypeOK, ServiceInv, installerVars, vars
<1>2. CASE UNCHANGED hostVars
  <2>1. UNCHANGED vars /\ Renewal
    BY <1>2 DEF hostVars, Renewal
  <2> QED BY <2>1, CertificateKept, BundleKept
          DEF Renewal, IInv, HostTypeOK, ServiceInv, installerVars, vars
<1> QED BY <1>1, <1>2, ServiceStepIInv, ScriptStepIInv, BridgeStepIInv, OperatorActsIInv,
           QuietIInv, ServicesIInv, BundlesIInv DEF HostNext, ScriptActs

\* The inductive invariant holds in every reachable state.
LEMMA SpecIInv == HostSpec => []IInv
BY InitIInv, NextIInv, PTL DEF HostSpec

-----------------------------------------------------------------------------
(***************************************************************************)
(* What a step may not do.                                                 *)
(***************************************************************************)

\* While a script runs only its own move changes the certificate in place.
LEMMA StepOnlySound ==
  ASSUME IInv, [HostNext]_hostVars, script \in Commands, disk' # disk
  PROVE  disk' \in sound
<1>1. script # "none"
  BY DEF Commands
<1>2. ~IssueCertificate
  BY <1>1 DEF IInv, IssueCertificate, Step, ServiceInv, RenewalGone
<1>3. Move
  BY <1>2 DEF HostNext, hostVars, vars, files, Begin, Stage, StopRenewal, StopBridge,
     AwaitStopped, DeleteService, ClearPrevious, SetAside, MoveIn, KeepCertificate,
     VerifyIssued, RegisterBridge, StartBridge, BridgeIsRunning, RegisterRenewal,
     StartRenewal, RenewalIsRunning, CheckServices, Finish, Throw, Interrupt,
     ServiceStarts, StopControl, Spawn, SpawnFails,
     ChildEnded, KillChild, IntervalElapsed, StopWhileWaiting, ScriptActs, ScriptStep, Renew,
     Verify, RestartStops, RestartAwaits, RestartStarts, RestartDone, ScriptFails,
     BridgeStep,
     OperatorActs, OperatorStarts, Rest
<1> QED BY <1>3 DEF IInv, CertificateInv, Move

\* While a script runs only its restart stops the bridge: the installer has
\* stopped the renewal, and so the script, before it does.
LEMMA StepDownOnlyForNews ==
  ASSUME IInv, [HostNext]_hostVars, script # "none", bridge # "stopping", bridge' = "stopping"
  PROVE  disk # atStart.disk
<1>1. ~StopBridge
  BY DEF IInv, StopBridge, Step, ServiceInv, RenewalGone
<1>2. ~StartBridge /\ ~OperatorActs /\ ~BridgeStep /\ ~RestartStarts
  BY DEF StartBridge, OperatorActs, OperatorStarts, BridgeStep, RestartStarts, bridgeVars,
         Bridge!Move, Bridge!Start, Bridge!StartFails, Bridge!StartHangs,
         Bridge!ReportRunning, Bridge!ReadCertificate, Bridge!Serve, Bridge!Fails,
         Bridge!Stopped
<1>3. RestartStops
  BY <1>1, <1>2 DEF HostNext, hostVars, vars, bridgeVars, Begin, Stage, StopRenewal,
     AwaitStopped, DeleteService, ClearPrevious, SetAside, MoveIn, KeepCertificate,
     IssueCertificate, VerifyIssued, RegisterBridge, BridgeIsRunning, RegisterRenewal,
     StartRenewal, RenewalIsRunning, CheckServices, Finish, Throw, Interrupt,
     ServiceStarts, StopControl, Spawn, SpawnFails,
     ChildEnded, KillChild, IntervalElapsed, StopWhileWaiting, ScriptActs, ScriptStep, Renew,
     Verify, Move, RestartAwaits, RestartDone, ScriptFails, Rest
<1>4. disk > atStart.disk
  BY <1>3 DEF IInv, CertificateInv, RestartStops
<1>5. disk \in Nat /\ atStart.disk \in Nat
  <2>1. issued \in 0..MaxCerts /\ disk \in 0..issued
          /\ atStart \in [disk : 0..issued, bridge : Bridge!States]
    BY DEF IInv, HostTypeOK, TypeOK
  <2> QED BY <2>1, RenewalAssumption
<1> QED BY <1>4, <1>5

\* Between its stop and its start the bridge is started by the installer alone.
LEMMA StepOnlyInstallerStarts ==
  ASSUME IInv, [HostNext]_hostVars, bridge = "stopped", bridge' # "stopped",
         installer \in Replacing
  PROVE  installer = "start bridge" /\ installer' = "await running"
<1>1. service = "stopped" /\ script = "none"
  BY DEF IInv, ServiceInv, Replacing, RenewalGone
<1>2. ~OperatorActs /\ ~StopBridge
  BY DEF OperatorActs, StopBridge, Replacing, Step
<1>3. ~ScriptActs
  BY <1>1 DEF ScriptActs, ScriptStep, Renew, Verify, Move, RestartStops, RestartAwaits,
         RestartStarts, RestartDone
<1>4. ~BridgeStep
  BY DEF BridgeStep, Bridge!Move, Bridge!StartFails, Bridge!StartHangs,
         Bridge!ReportRunning, Bridge!ReadCertificate, Bridge!Serve, Bridge!Fails,
         Bridge!Stopped
<1>5. StartBridge
  BY <1>2, <1>3, <1>4 DEF HostNext, hostVars, vars, bridgeVars, Begin, Stage, StopRenewal,
     AwaitStopped, DeleteService, ClearPrevious, SetAside, MoveIn, KeepCertificate,
     IssueCertificate, VerifyIssued, RegisterBridge, BridgeIsRunning, RegisterRenewal,
     StartRenewal, RenewalIsRunning, CheckServices, Finish, Throw, Interrupt,
     ServiceStarts, StopControl, Spawn, SpawnFails,
     ChildEnded, KillChild, IntervalElapsed, StopWhileWaiting, ScriptFails, Rest
<1> QED BY <1>5 DEF StartBridge, Step, Goto

\* The bundle that was found is the one in place when it is set aside, is set
\* aside when the new one is moved in, and is not the new one.
LEMMA StepOldBundleKept ==
  ASSUME IInv, [HostNext]_hostVars, installer \notin {"idle", "finish"},
         atBegin # NoBundle, atBegin \in {bundle, previous}
  PROVE  atBegin \in {bundle', previous'} \/ bundle' = Torn
<1>1. CASE ClearPrevious \/ SetAside \/ MoveIn \/ Throw
  <2>1. CASE ClearPrevious
    BY <2>1 DEF IInv, BundleInv, ClearPrevious, Step, Goto, BeforeMove
  <2>2. CASE SetAside
    BY <2>2 DEF IInv, BundleInv, SetAside, Step, Goto, BeforeMove
  <2>3. CASE MoveIn
    BY <2>3 DEF IInv, BundleInv, MoveIn
  <2>4. CASE Throw /\ RollsBack
    <3>1. atBegin # bundle
      <4>1. replaced /\ bundle = Version /\ (atBegin = Torn \/ atBegin < Version)
        BY <2>4 DEF IInv, BundleInv, RollsBack
      <4>2. installs \in 0..MaxInstalls
        BY DEF IInv, HostTypeOK
      <4>3. Version # Torn /\ ~(Version < Version)
        BY <4>2, HostAssumption DEF Version, Torn
      <4> QED BY <4>1, <4>3
    <3>2. bundle' \in {Torn, previous}
      BY <2>4 DEF Throw
    <3> QED BY <3>1, <3>2
  <2>5. CASE Throw /\ ~RollsBack
    BY <2>5 DEF Throw
  <2> QED BY <1>1, <2>1, <2>2, <2>3, <2>4, <2>5
<1>2. CASE ~(ClearPrevious \/ SetAside \/ MoveIn \/ Throw)
  <2>1. ~Begin /\ ~Finish
    BY DEF Begin, Finish, Step
  <2>2. UNCHANGED <<bundle, previous>>
    BY <1>2, <2>1 DEF HostNext, hostVars, installerVars, Renewal, Stage, StopRenewal,
       StopBridge, AwaitStopped, DeleteService, KeepCertificate, IssueCertificate,
       VerifyIssued, RegisterBridge, StartBridge, BridgeIsRunning, RegisterRenewal,
       StartRenewal, RenewalIsRunning, CheckServices, Interrupt
  <2> QED BY <2>2
<1> QED BY <1>1, <1>2

-----------------------------------------------------------------------------
\* Every variable keeps its type, the renewal's and the installer's
\* (windows_renewal_service.rs:96-156, install-server.ps1:195-320).
THEOREM HostTypes == HostSpec => []HostTypeOK
<1>1. IInv => HostTypeOK
  BY DEF IInv
<1> QED BY <1>1, SpecIInv, PTL

\* A stopped renewal service leaves no script behind that could restart the
\* bridge (windows_renewal_service.rs:147-151), the installer's stops included.
THEOREM HostNoOrphan == HostSpec => []NoOrphanScript
<1>1. IInv => NoOrphanScript
  BY DEF IInv, ServiceInv, NoOrphanScript
<1> QED BY <1>1, SpecIInv, PTL

\* After a renewal that reported success a bridge that serves has the
\* certificate it installed (renew-step-ca-server-certificate.ps1:70-76).
THEOREM HostSuccessServed == HostSpec => []SuccessIsServed
<1>1. IInv => SuccessIsServed
  BY DEF IInv, CertificateInv, SuccessIsServed
<1> QED BY <1>1, SpecIInv, PTL

\* A renewal only ever replaces the certificate by one that passed its checks,
\* though the installer issues certificates into the same file
\* (renew-step-ca-server-certificate.ps1:48-74).
THEOREM HostOnlySound == HostSpec => OnlySoundInstalled
<1>1. IInv /\ [HostNext]_hostVars => [disk' # disk /\ script \in Commands => disk' \in sound]_vars
  BY StepOnlySound
<1> QED BY <1>1, SpecIInv, PTL DEF HostSpec, OnlySoundInstalled

\* A script takes the bridge down only for the certificate it has installed
\* (renew-step-ca-server-certificate.ps1:74-76).
THEOREM HostDownForNews == HostSpec => DownOnlyForNews
<1>1. IInv /\ [HostNext]_hostVars =>
        [script # "none" /\ bridge # "stopping" /\ bridge' = "stopping"
           => disk # atStart.disk]_vars
  BY StepDownOnlyForNews
<1> QED BY <1>1, SpecIInv, PTL DEF HostSpec, DownOnlyForNews

\* Once the installer has stopped the bridge nobody but the installer starts it
\* (install-server.ps1:195-197).
THEOREM HostInstallerStarts == HostSpec => OnlyInstallerStarts
<1>1. IInv /\ [HostNext]_hostVars =>
        [bridge = "stopped" /\ bridge' # "stopped" /\ installer \in Replacing
           => installer = "start bridge" /\ installer' = "await running"]_hostVars
  BY StepOnlyInstallerStarts
<1> QED BY <1>1, SpecIInv, PTL DEF HostSpec, OnlyInstallerStarts

\* No step of the installer but its last loses the bundle it has found
\* (install-server.ps1:200-207, 312-320).
THEOREM HostOldBundle == HostSpec => OldBundleKept
<1>1. IInv /\ [HostNext]_hostVars =>
        [installer \notin {"idle", "finish"} /\ atBegin # NoBundle /\ atBegin \in {bundle, previous}
           => atBegin \in {bundle', previous'} \/ bundle' = Torn]_hostVars
  BY StepOldBundleKept
<1> QED BY <1>1, SpecIInv, PTL DEF HostSpec, OldBundleKept
=============================================================================
