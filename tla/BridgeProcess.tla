---------------------------- MODULE BridgeProcess ----------------------------
(***************************************************************************)
(* One gpg-bridge process from its command line to its end: `client`,      *)
(* `server`, or `windows-service` under the service control manager.  It   *)
(* checks its options, finds its address, reads its TLS material and       *)
(* listens; what it then does with connections is left to ClientBridge and *)
(* ServerBridge.  Every early return is here, and what it leaves behind.   *)
(***************************************************************************)
EXTENDS TlsMaterial

CONSTANTS
  Launches,    \* command lines, see LaunchTypes
  Materials,   \* files a process may find: [ca, chain, key]
  Answers      \* what `tailscale ip -4` may print: sequences of lines

\* A command line.  Clap has seen to it that there is one listener and one
\* agent: tailscale and agentSocket say which.
LaunchTypes == [command : {"client", "server", "service"}, unix : BOOLEAN,
                tailscale : BOOLEAN, agentSocket : BOOLEAN,
                address : {"given", "empty"}, name : {"given", "empty", "invalid"},
                paths : {"given", "empty"}, limit : {0, 1}]

ASSUME ProcessAssumption ==
  /\ Launches \subseteq LaunchTypes
  /\ \A l \in Launches :
       /\ l.command = "client" => l.unix
       /\ l.command = "service" => ~l.unix
       /\ l.tailscale => ~l.unix
       /\ l.agentSocket => l.unix /\ l.command = "server"
  /\ Materials \subseteq [ca : Files, chain : Files, key : Files]
  /\ Answers \subseteq Seq(STRING)

VARIABLES
  launch,     \* the command line
  files,      \* the files at the paths it names
  stage,      \* where the process is
  options,    \* [listen, agent] once they are built
  answer,     \* what the Tailscale CLI has printed, or NoAnswer
  got,        \* [ca, chain, key] read so far
  why,        \* the error it ended with, or "none"
  reported,   \* the service's state for the control manager
  stop        \* a stop or signal: "none", "queued", or "passed" to the loop

vars == <<launch, files, stage, options, answer, got, why, reported, stop>>

environment == <<launch, files>>
outside == <<reported, stop>>

IsService == launch.command = "service"
IsClient == launch.command = "client"

NoOptions == [listen |-> "nowhere", agent |-> "none"]
NoAnswer == <<"unasked">>
Nothing == [ca |-> Unread, chain |-> Unread, key |-> "none"]

\* Where it may be: before its options are built, before it has an address,
\* while it reads its material, afterwards.
Opening == {"launched", "options"}
Hosting == {"dispatch", "register", "runtime", "discover", "discover on PATH", "report"}
Reading == {"roots", "chain", "permissions", "key", "pair", "name", "bind"}
Over == {"refused", "left", "ended"}

Init ==
  /\ launch \in Launches
  /\ files \in Materials
  /\ stage = "launched"
  /\ options = NoOptions
  /\ answer = NoAnswer
  /\ got = Nothing
  /\ why = "none"
  /\ reported = IF IsService THEN "starting" ELSE "stopped"
  /\ stop = "none"

-----------------------------------------------------------------------------
(***************************************************************************)
(* Steps, and early returns.  run_service leaves by `?`: once the control  *)
(* manager runs service_main, which only logs the error, nobody reports    *)
(* Stopped, and the dispatcher keeps the process alive.  What happens      *)
(* after Running is caught, and Stopped is reported with exit code 0.      *)
(***************************************************************************)

Advance(to) ==
  /\ stage' = to
  /\ UNCHANGED <<launch, why>>

Hangs == IsService /\ stage \in Hosting \ {"dispatch"}

Refuse(reason) ==
  /\ why' = reason
  /\ stage' = IF Hangs THEN "left" ELSE "refused"
  /\ reported' = IF Hangs THEN reported ELSE "stopped"
  /\ UNCHANGED <<launch, files, options, answer, got, stop>>

\* Only a service opens a log file.
StartLog ==
  /\ stage = "launched"
  /\ \/ Advance("options") /\ UNCHANGED <<files, options, answer, got, outside>>
     \/ IsService /\ Refuse("Log")

\* ServerOptions::new_with_agent and ClientOptions::new, in their order.
OptionsError ==
  IF IsClient /\ launch.address = "empty" THEN "EmptyServerAddress"
  ELSE IF IsClient /\ launch.name = "empty" THEN "EmptyServerName"
  ELSE IF launch.paths = "empty" THEN "EmptyPath"
  ELSE IF launch.limit = 0 THEN "ZeroMaxConnections"
  ELSE "none"

\* server_options: with Tailscale the address is a placeholder, every address
\* of the host, until the discovery has replaced it.
ServerOptions ==
  [listen |-> IF launch.tailscale THEN "any" ELSE "fixed",
   agent |-> IF launch.agentSocket THEN "UnixSocket" ELSE "Gpg4winRedirect"]

AfterOptions ==
  IF IsService THEN "dispatch" ELSE IF launch.tailscale THEN "discover" ELSE "roots"

BuildOptions ==
  /\ stage = "options"
  /\ \/ /\ OptionsError # "none"
        /\ Refuse(OptionsError)
     \/ /\ OptionsError = "none"
        /\ options' = IF IsClient THEN [listen |-> "socket", agent |-> "none"] ELSE ServerOptions
        /\ Advance(AfterOptions)
        /\ UNCHANGED <<files, answer, got, outside>>

-----------------------------------------------------------------------------
(***************************************************************************)
(* The service wrapper, windows_service.rs, and the Tailscale discovery.   *)
(***************************************************************************)

Host(from, to, reason) ==
  /\ stage = from
  /\ \/ Advance(to) /\ UNCHANGED <<files, options, answer, got, outside>>
     \/ Refuse(reason)

\* service_dispatcher::start
Dispatch == Host("dispatch", "register", "Dispatch")

\* The control handler, and StartPending, which is reported already.
Register == Host("register", "runtime", "Register")

BuildRuntime ==
  Host("runtime", IF launch.tailscale THEN "discover" ELSE "report", "Runtime")

Discovering == stage \in {"discover", "discover on PATH"}

\* run_tailscale: the CLI cannot be run or exits with an error, or it is
\* killed after COMMAND_TIMEOUT.
CliFails == Discovering /\ Refuse("Tailscale")
CliTimesOut == Discovering /\ Refuse("Timeout")

\* The usual place holds no CLI: only then is it looked for on PATH.
DefaultCliMissing ==
  /\ stage = "discover"
  /\ Advance("discover on PATH")
  /\ UNCHANGED <<files, options, answer, got, outside>>

\* parse_ipv4
AddressError(lines) ==
  IF \E i \in DOMAIN lines : lines[i] = "junk" THEN "InvalidAddress"
  ELSE IF lines = <<>> THEN "MissingAddress"
  ELSE IF Len(lines) > 1 THEN "MultipleAddresses"
  ELSE "none"

\* listen_address
CliAnswers ==
  /\ Discovering
  /\ \E lines \in Answers :
       \/ /\ AddressError(lines) # "none"
          /\ Refuse(AddressError(lines))
       \/ /\ AddressError(lines) = "none"
          /\ answer' = lines
          /\ options' = [options EXCEPT !.listen = lines[1]]
          /\ Advance(IF IsService THEN "report" ELSE "roots")
          /\ UNCHANGED <<files, got, outside>>

\* Running is reported, and stops are accepted, before anything is read.
ReportRunning ==
  /\ stage = "report"
  /\ \/ /\ reported' = "running"
        /\ Advance("roots")
        /\ UNCHANGED <<files, options, answer, got, stop>>
     \/ Refuse("Report")

-----------------------------------------------------------------------------
(***************************************************************************)
(* Reading the material and listening: tls::server_config and              *)
(* client_config, and the first lines of run_server_until and              *)
(* run_client_until.                                                       *)
(***************************************************************************)

Load(at, to, error, material) ==
  /\ stage = at
  /\ \/ error # "none" /\ Refuse(error)
     \/ /\ error = "none"
        /\ got' = material
        /\ Advance(to)
        /\ UNCHANGED <<files, options, answer, outside>>

LoadRoots ==
  Load("roots", "chain", RootError(files.ca), [got EXCEPT !.ca = Only(files.ca, Parsable)])

LoadCertificates ==
  Load("chain", "permissions", CertificateError(files.chain),
       [got EXCEPT !.chain = CertificatesOf(files.chain)])

\* check_private_key_permissions, on Unix
PermissionsError ==
  IF ~launch.unix THEN "none"
  ELSE IF ~files.key.readable THEN "Read"
  ELSE IF ~files.key.private THEN "InsecurePrivateKeyPermissions"
  ELSE "none"

CheckPermissions == Load("permissions", "key", PermissionsError, got)

LoadPrivateKey ==
  Load("key", "pair", KeyError(files.key), [got EXCEPT !.key = FirstKey(files.key)])

\* Mutant: certificate and key are taken as they come.
PairUnchecked == Load("pair", IF IsClient THEN "name" ELSE "bind", "none", got)

Pair ==
  Load("pair", IF IsClient THEN "name" ELSE "bind",
       IF Paired(got.chain, got.key) THEN "none" ELSE "Configuration", got)

\* ServerName::try_from
ParseName ==
  Load("name", "bind", IF launch.name = "invalid" THEN "InvalidServerName" ELSE "none", got)

\* The address or the socket path may be taken.
Bind ==
  /\ stage = "bind"
  /\ \/ Advance("serving") /\ UNCHANGED <<files, options, answer, got, outside>>
     \/ Refuse("Bind")

-----------------------------------------------------------------------------
(***************************************************************************)
(* Serving, stopping, and the files meanwhile.                             *)
(***************************************************************************)

\* Mutant: a service that takes a stop while it starts.
StopAnyTime ==
  /\ reported # "stopped"
  /\ stop' = IF stop = "none" THEN "queued" ELSE stop
  /\ UNCHANGED <<environment, stage, options, answer, got, why, reported>>

\* The control handler queues; further stops change nothing.
StopControl ==
  /\ reported = "running"
  /\ stop' = IF stop = "none" THEN "queued" ELSE stop
  /\ UNCHANGED <<environment, stage, options, answer, got, why, reported>>

\* Mutant: a stop is passed on to whoever listens at that moment.
PassOnNow ==
  /\ stop = "queued"
  /\ stop' = IF stage = "serving" THEN "passed" ELSE "lost"
  /\ UNCHANGED <<environment, stage, options, answer, got, why, reported>>

\* The watcher thread, started right after Running is reported.
PassOn ==
  /\ stop = "queued"
  /\ stage \in Reading \cup {"serving"}
  /\ stop' = "passed"
  /\ UNCHANGED <<environment, stage, options, answer, got, why, reported>>

\* Ctrl-C or SIGTERM; earlier ones end the process as the system does.
Signal ==
  /\ ~IsService
  /\ stage = "serving"
  /\ stop' = "passed"
  /\ UNCHANGED <<environment, stage, options, answer, got, why, reported>>

\* run_server_until and run_client_until return: Ok, or the client's monitor
\* has found its socket replaced.
Drained ==
  /\ stage = "serving"
  /\ stop = "passed"
  /\ Advance("ended")
  /\ reported' = "stopped"
  /\ UNCHANGED <<files, options, answer, got, stop>>

MonitorFails ==
  /\ IsClient
  /\ stage = "serving"
  /\ Refuse("Replaced")

\* An administrator installs the next certificate and key, one after the other.
Rollover ==
  /\ \/ /\ files.chain = Pem(<<"cert1">>)
        /\ files' = [files EXCEPT !.chain = Pem(<<"cert2">>)]
     \/ /\ files.chain = Pem(<<"cert2">>) /\ files.key = Pem(<<"key1">>)
        /\ files' = [files EXCEPT !.key = Pem(<<"key2">>)]
  /\ UNCHANGED <<launch, stage, options, answer, got, why, outside>>

Rest == stage \in Over /\ UNCHANGED vars

Start ==
  \/ StartLog \/ BuildOptions
  \/ Dispatch \/ Register \/ BuildRuntime
  \/ CliFails \/ CliTimesOut \/ DefaultCliMissing \/ CliAnswers \/ ReportRunning
  \/ LoadRoots \/ LoadCertificates \/ CheckPermissions \/ LoadPrivateKey
  \/ Pair \/ ParseName \/ Bind

Next ==
  \/ StartLog \/ BuildOptions
  \/ Dispatch \/ Register \/ BuildRuntime
  \/ CliFails \/ CliTimesOut \/ DefaultCliMissing \/ CliAnswers \/ ReportRunning
  \/ LoadRoots \/ LoadCertificates \/ CheckPermissions \/ LoadPrivateKey
  \/ Pair \/ ParseName \/ Bind
  \/ StopControl \/ PassOn \/ Signal \/ Drained \/ MonitorFails
  \/ Rollover
  \/ Rest

Spec == Init /\ [][Next]_vars

\* The process runs; the CLI is given up after COMMAND_TIMEOUT, and a drain
\* ends after TASK_DRAIN_TIMEOUT (ServerBridge!ShutdownTerminates).
FairSpec == Spec /\ WF_vars(Start) /\ WF_vars(PassOn) /\ WF_vars(Drained)

-----------------------------------------------------------------------------
(***************************************************************************)
(* Properties.                                                             *)
(***************************************************************************)

\* Every variable stays in its type.
TypeOK ==
  /\ launch \in Launches
  /\ files \in [ca : Files, chain : Files, key : Files]
  /\ stage \in Opening \cup Hosting \cup Reading \cup {"serving"} \cup Over
  /\ answer \in Answers \cup {NoAnswer}
  /\ got.key \in Keys \cup {"none"}
  /\ reported \in {"stopped", "starting", "running"}
  /\ stop \in {"none", "queued", "passed"}

\* Who serves has a positive limit, roots to check its peers with, a key that
\* belongs to its certificate though the files were exchanged meanwhile, that
\* no other user could read and that was no arbitrary choice among several;
\* and it listens where it was told to: at the one address Tailscale has
\* (tls.rs:113-145, tailscale.rs:43-47), never at the placeholder
\* (main.rs:174-176).
ServingIsSound ==
  stage = "serving" =>
    /\ launch.limit > 0 /\ launch.paths = "given"
    /\ got.ca # Unread
    /\ \E n \in 1..2 : Leaf(got.chain) = <<"cert1", "cert2">>[n] /\ got.key = <<"key1", "key2">>[n]
    /\ launch.unix => files.key.private
    /\ \A i, j \in Occurs(files.key, Keys) : i = j
    /\ IF IsClient THEN options.listen = "socket"
       ELSE IF launch.tailscale THEN answer = <<options.listen>>
       ELSE options.listen = "fixed"

\* A process that ends with an error about its options or its files names
\* something that is true of them (tls.rs:173-192 and the tests at
\* tls.rs:388-427 rely on the error alone).
RefusalTrue ==
  /\ why = "EmptyServerAddress" => IsClient /\ launch.address = "empty"
  /\ why = "EmptyServerName" => IsClient /\ launch.name = "empty"
  /\ why = "InvalidServerName" => IsClient /\ launch.name = "invalid"
  /\ why = "EmptyPath" => launch.paths = "empty"
  /\ why = "ZeroMaxConnections" => launch.limit = 0
  /\ why = "Read" => \E f \in {"ca", "chain", "key"} : ~files[f].readable
  /\ why = "CertificateParse" => \E f \in {"ca", "chain"} : Occurs(files[f], {Broken}) # {}
  /\ why = "EmptyCertificateChain" =>
       \E f \in {"ca", "chain"} : Occurs(files[f], Certificates) = {}
  /\ why = "EmptyRootStore" => Occurs(files.ca, Parsable) = {}
  /\ why = "InsecurePrivateKeyPermissions" => launch.unix /\ ~files.key.private
  /\ why = "MissingPrivateKey" => Occurs(files.key, Keys) = {}
  /\ why = "PrivateKeyParse" => Occurs(files.key, {Broken}) # {}
  /\ why = "MultiplePrivateKeys" => \E i, j \in Occurs(files.key, Keys) : i # j
  /\ why = "Configuration" => ~Paired(got.chain, got.key)

\* A stop that was accepted ends the process, also one that came before the
\* service listened; the control manager is told (windows_service.rs:97-106).
StopEnds == stop # "none" ~> (stage \in Over /\ reported = "stopped")

\* For the control manager and for those who wait for the service the process
\* is a BridgeService: it takes a stop only while it is reported Running, and
\* hangs only before that.
ServiceState ==
  IF ~IsService \/ reported = "stopped" THEN "stopped"
  ELSE IF reported = "starting" THEN IF stage = "left" THEN "stuck" ELSE "starting"
  ELSE IF stop # "none" THEN "stopping"
  ELSE IF stage = "serving" THEN "serving"
  ELSE IF got.chain = Unread THEN "running" ELSE "binding"

Service == INSTANCE BridgeService WITH
  NoCert <- Unread, state <- ServiceState, loaded <- got.chain,
  disk <- CertificatesOf(files.chain)

ServiceSpec == [][IsService => [Service!Next]_(Service!vars)]_vars

\* A discovery that timed out does not leave the service pending, as
\* docs/deployment.md:32-34 says.  It does not hold: the error leaves
\* run_service without a report (windows_service.rs:89-94).
DiscoverySettles == (IsService /\ why = "Timeout") ~> reported # "starting"
=============================================================================
