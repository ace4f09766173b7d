# gpg-bridge: TLA+ models, checks and proofs

gpg-bridge carries GnuPG agent connections between machines. A *client* on a
Unix host owns a socket where GnuPG expects its agent; every local connection
becomes one mutually authenticated TLS 1.3 connection to a *server* beside the
real agent, which opens one agent connection for it and relays bytes. On
Windows the server runs as a service, and a second service renews its
certificate.

This directory holds the verification development that goes with that code:
TLA+ modules, TLC configurations, and proofs for TLAPS. All line numbers refer
to the files of this repository.

## 1. The system

| Part | State it keeps | Operations | Talks to |
|---|---|---|---|
| Client accept loop, `client.rs:119-164` | semaphore of `max_connections`, `JoinSet`, listener, shutdown receiver | accept, reject at the limit, reap, monitor tick, drain, abort | sessions (spawn, join), `OwnedUnixListener`, the shutdown watch |
| Client session, `client.rs:50-112`, `retry.rs` | start time, backoff attempt, shutdown receiver | establish (TCP, TLS, ALPN), back off, relay | server, local program |
| Owned Unix socket, `unix_socket.rs` | listener, path, device and inode | bind (remove a stale socket first), verify or rebind, drop | the file system, other processes |
| Server accept loop, `server.rs:98-146` | semaphore, `JoinSet`, listener, shutdown receiver | accept, reject, reap, drain, abort | sessions |
| Server session, `server.rs:40-91` | TLS stream, agent stream | handshake under a timeout, ALPN, agent connect, relay | client, `AgentConnector` |
| Agent connector, `agent.rs` | none between calls; deadline within one | load redirect file, connect, write nonce, retry | redirect file, Gpg4win agent |
| Relay, `relay.rs` | two streams | copy both ways, cancel | the shutdown watch |
| Shutdown, `shutdown.rs` | one `watch` channel | signal, drop of the sender | every loop and session |
| Renewal service, `windows_renewal_service.rs` | stop channel, child process | run the script, wait, kill, sleep | control manager, script |
| Renewal script, `renew-step-ca-server-certificate.ps1` | temporary certificate | renew, verify, move, restart the bridge | CA, file system, bridge service |
| Bridge service, `windows_service.rs` | reported status, stop channel | register, find the address, run the server, report | control manager |
| TLS material, `tls.rs` | none | read PEM, build configurations, check ALPN | file system |
| Options, command line, `lib.rs`, `main.rs`, `error.rs` | none | validate | all of the above |
| Tailscale discovery, `tailscale.rs` | none | run one command, parse | bridge service |
| Logging, `windows_logging.rs` | log file | write lines | file system |
| Installers, `contrib/windows/install-*.ps1` | bundle, services, configuration | replace, restore, install | control manager |

What is hard in it: sessions, accept loop and shutdown interleave, and only
some awaits listen to the shutdown; permits must survive every way a session
can end; timers, timeouts and a retry window are layered; the socket path is
shared with processes that hold no lock; the agent and its redirect file come
and go on their own; and the renewal script can be killed or fail between any
two commands that change the disk or a service.

What makes each part correct:

- *Accept loops*: never more than `max_connections` sessions, no permit lost or
  returned twice; nobody waits in vain; told to stop, the process stops, and no
  relay is cut off without having been cancelled.
- *Client session*: no attempt outside the reconnect window, a bounded time
  before the local program is told, a relay entered at most once.
- *Owned socket*: a live socket or a file is never removed; the path is ours as
  long as we say so; an unlinked path comes back; a crash at any point does not
  lock the next start out.
- *Server session*: only a peer with a trusted certificate and the bridge's ALPN
  causes an agent connection; a peer that says nothing gives its permit back.
- *Agent connector*: an agent ready in time is reached despite stale or torn
  redirect files; the wait is bounded.
- *Renewal*: a renewal installs only verified certificates; the bridge is stopped
  only for a new one; a success is served; a stop ends service and script.
- *Relay and the whole line*: the agent is called once, nothing truncated counts
  as complete, a request does not wait for traffic in the other direction, and
  the server's sessions come back once the client's has ended.
- *Process start*: who serves has consistent material and the address it was told
  to use; an error names something true; an accepted stop ends the process.
- *Installers*: the renewal cannot restart the bridge while it is exchanged, and
  the bundle that worked is not lost.

## 2. Modules

| Module | Models | Composed with |
|---|---|---|
| `ShutdownWatch` | the `watch` channel: one write, a dropped sender, clones that inherit their original's view | instantiated by both bridges |
| `SessionPool` | abstract: what an accept loop promises its peers | refined by both bridges |
| `ClientBridge` | `run_client_until` and the stages of its sessions | `ShutdownWatch`, `SessionPool` |
| `ServerBridge` | `run_server_until`, `session`, `relay_agent` | `ShutdownWatch`, `SessionPool` |
| `SessionLife` | abstract: what one client session promises | refined by `ClientSession` |
| `ClientSession` | `relay_session`, `establish`, `ReconnectBackoff`, with a clock | `SessionLife` |
| `UnixSocket` | `OwnedUnixListener` in several processes, one action per system call | |
| `AgentConnector` | `AgentConnector::connect` with both backends, `load_metadata`, and the agent, with a clock | |
| `Relay` | `relay`: both directions of `copy_bidirectional`, byte by byte, raced against the shutdown | instantiated twice by `BridgeSystem` |
| `AgentLine` | abstract: what both bridges together promise a local program | refined by `BridgeSystem` |
| `BridgeSystem` | one local session end to end: client session, its attempts, the server's sessions for them, both relays, local program, agent | `Relay`, `AgentLine` |
| `BridgeService` | abstract: the bridge service as the control manager and the scripts see it | refined by `BridgeProcess`, used by `CertificateRenewal` |
| `TlsMaterial` | operators: `load_certificates`, `root_store`, `load_private_key`, pairing | extended by `BridgeProcess` |
| `BridgeProcess` | `main`, options, Tailscale discovery, `run_service`, the start of the bridge, with every early return | `TlsMaterial`, `BridgeService` |
| `CertificateRenewal` | renewal service and renewal script | `BridgeService` |
| `WindowsHost` | the installer beside the services | extends `CertificateRenewal` |
| `MC*` | values of the constants for TLC | |
| `*Proofs` | theorems checked by TLAPS | |

**How they compose.** `BridgeProcess` ends where `ClientBridge` and
`ServerBridge` begin (`run_*_until` has its listener) and takes up again where
they return. `ClientBridge` and `ServerBridge` treat a session as stages without
data; `ClientSession` and `AgentConnector` give two of these stages their clocks,
and `BridgeSystem` gives all of them their bytes. `CertificateRenewal` and
`WindowsHost` know the bridge service only as `BridgeService`; that the process
behaves like that is the property `ServiceSpec` of the run `service`, so that what
is shown about the host holds for the process, its unfinished starts included.

**State and actions against the code.** In `ClientBridge` and `ServerBridge`,
`main` is the place of `run_*_until`, `permits` the semaphore, `tasks` the
`JoinSet`, `conn` the place of each session or of a connection in the backlog,
`seen` what each `watch::Receiver` has observed. Each branch of the `select!` is
an action (`LoopNotice`, `MonitorRebinds`/`MonitorFails`,
`AcceptAdmit`/`AcceptReject`, `Reap`), and so is each await of a session
(`Establish...`, `Backoff...`, `SessionCancelled`, `RelayEnd`; `TlsAccepted`,
`Handshake...`, `Agent...`, `RelayCancelled`). `TlsAccepted` records in `alpn`
what the handshake has negotiated; rustls does so with no protocol at all when
the client offers none, and `validate_alpn` then looks at it (`AlpnValidated`,
`AlpnRefused`) in a step of its own, so that certificate and protocol are two
checks and what reaches the agent depends on both. Leaving the function drops the
semaphore, the `JoinSet` (which aborts its tasks) and the listener (which resets
its backlog): `Exit` does all of that in one step. A task between two awaits is
one step because the runtime is single threaded (`main.rs`, `current_thread`) and
because nothing it touches there is shared otherwise.

In `ClientSession` and `AgentConnector` time is a counter: `Tick` may not pass
the moment `due` at which the current await expires by more than `Lag`, and an
action that a timer causes is enabled from `due` on. An operation that completes
in the lag still counts, as it does in `tokio::time::timeout`. What
`load_metadata` makes of a file that is being written is `ReadsAs`: nothing, a
port nobody listens on, or the right port with a nonce that is shifted.

In `UnixSocket`, `entry` is what the path leads to, `listening` the sockets that
answer, and `pc`, `looked`, `sock`, `own`, `old` the place, the inode probed, the
bound socket, the inode remembered and the listener being replaced of each
process; `was` is the inode the replaced listener remembers. The Drop of a
replaced listener makes the same calls as the Drop at the end: it looks at the
path, unlinks it if the inode is the one remembered, and closes the socket.
`Overlap = FALSE` says that processes and outsiders take turns. Inode numbers are
reused unless a socket still holds them.

In `Relay` a direction is `Read`, `Write`, `SourceEnds` and `Shut` in turn
(tokio's `transfer_one_direction`), `buffer` is its copy buffer, and any error or
the shutdown ends both and drops both connections (`Dropped`). The streams are
outside it: `BridgeSystem` has six, two to each of local connection, TLS
connection and agent connection, each with the bytes put into it and taken out of
it and an end that is `open`, `fin` or `cut`. A TLS stream that is dropped without
close_notify is `cut`, for rustls reports an unexpected end; a plain socket looks
finished, or reset when input was unread. `flight` is how far the TLS handshake of
the current attempt has come: TLS 1.3 lets the client finish before the server has
seen its certificate, so the client may relay to a session that is refused.

In `BridgeProcess` `stage` is the statement the process is at, in the order of
`main`, `run_service`, `listen_address`, `tls::server_config`/`client_config` and
`run_*_until`; each may refuse with its error (`why`). An error of `run_service`
before `Running` is reported leaves the service as it was reported (`left`).
`files` may change while they are read (`Rollover`).

In `CertificateRenewal` the commands of the script are the values of `script`;
`ScriptFails` may happen at each of them, and so may the kill. The service itself
begins as `starting`, which is StartPending; an error before it has reported
Running leaves it `stuck` there. In `WindowsHost`
`installer` is the next command of the installer; `Throw` (with its catch) and
`Interrupt` (without) may happen at each. `Torn` is what is left in the bundle
directory when `Remove-Item` cannot remove a running executable and `Move-Item`
then puts the previous bundle inside; what is left in it is not distinguished
further.

**Outside the code** (marked external in `PROJECT.json`): peers, other
processes, the agent program, the kernel's sockets and inodes, the clock, the
administrator, and the contract of `tokio::sync::watch`.

## 3. Runs

All runs explore their whole state space.

| Run | Configuration | States | Shows |
|---|---|---|---|
| `client_bridge` | `MCClientBridge.cfg` | 11 614 | permits, tasks and notifications of the client in step; drains cancel relays; refinement of `SessionPool`; shutdown ends; nobody waits in the backlog |
| `server_bridge` | `MCServerBridge.cfg` | 233 680 | the same for the server, and what unproven peers can reach and hold |
| `client_session` | `MCClientSession.cfg` | 473 263 | time bounds of a session; refinement of `SessionLife` with its liveness |
| `socket_orderly` | `UnixSocket_orderly.cfg` | 45 392 | the ownership rules when changes take turns, with crashes anywhere |
| `agent_connector` | `MCAgentConnector.cfg` | 32 245 | the agent is not missed, a ready one gets its own nonce, the wait is bounded |
| `bridge_system` | `MCBridgeSystem.cfg` | 307 814 | the whole line: refinement of `AgentLine`, no truncation taken for completion, requests arrive, the server's sessions come back |
| `service` | `MCBridgeProcess.cfg` | 64 412 | what a process serves with, its errors, its stops; refinement of `BridgeService` |
| `windows_host` | `MCWindowsHost.cfg` | 1 843 540 | renewal, script, bridge and installer on one host, each failing, killed or interrupted in any command |
| `socket_overlap` | `UnixSocket_overlap.cfg` | violation | two simultaneous starts: a live socket is removed |
| `renewal_failure` | `CertificateRenewal_failure.cfg` | violation | a failed renewal that has changed the certificate |
| `service_pending` | `BridgeProcess_pending.cfg` | violation | a discovery that times out leaves the service pending |
| `install_rollback` | `WindowsHost_rollback.cfg` | violation | an installation that fails late is not rolled back |

**Bounds.** *Bridges*: three connections and two permits are the least with which
the pool is full while a third peer waits, a rejected peer and a freed permit
meet, and a task is reaped while another is admitted; a connection identity is
used once. Peers of the server are of five kinds: the client of this bridge, one
with a certificate of another authority, one that is certified but offers no
protocol, one that is certified and offers only another protocol, and one that
never says anything. *Session*: the constants of the code in units of 200 ms
(`Window` 300, `TcpTimeout` 25, `TlsTimeout` 50, `InitialDelay` 1, `MaxDelay` 25)
and one unit of lag; the attempt counter stops at the last value that changes a
delay. *Socket*: two processes, three inodes (the most that can be in use at once
when processes take turns, four when they do not), two acts of outsiders, two
crashes; more of either repeats situations that have been seen, for each leaves
the path in one of the same few conditions. *Agent*: seconds, `Window` 15,
`ConnectTimeout` 5, the retry delay of 200 ms rounded up to one unit, two agents
after one another, so that metadata of a dead one meets a live one. *Line*: two
attempts and one permit, so that a session of an abandoned attempt holds the
permit the next one needs; one byte up and two down through buffers and streams
of one, so that a buffer is full while its stream is full as well, and the
longest chain (program, client, wire, server, agent) can be cut at each place;
one fault, a cut or a shutdown of either side, at any moment. *Process*: every
command, every combination of gaps in a command line, every file of at most two
sections in the place of one file that is in order (a reader distinguishes one
section from several and what comes first, no more), answers of at most two
lines, one rollover of certificate and key. *Host*: two runs of the installer, so
that the second meets whatever the first has left; three certificates; one start
by an operator, while the installer is idle.

**Fairness.** Bridges: weak fairness of each branch of the `select!` loop, whose
random polling order starves none; of each await that a timeout bounds
(`establish`, backoff, handshake, agent connection, drain); and of a session
whose receiver is ready. There is none for the end of a relay and none for a
peer: the shutdown has to work against peers that never close. Session and
agent: time passes, and what is due is polled; the agent and the server owe
nothing. Socket: a process makes its next system call, and its monitor ticks.
Line: both processes are polled, each direction of a relay for itself, as
`copy_bidirectional` polls both; every stage before the relay has a timeout; the
agent reads what it is sent and leaves once its input has ended; nothing is
expected of the local program, of `Cut` or of `Stop`. Process: it runs, the
Tailscale CLI is given up after `COMMAND_TIMEOUT`, the watcher thread passes a
stop on, and a drain ends (`ShutdownTerminates`). Host: the renewal service's
thread runs, looks at its child every 250 ms and at its channel whenever it
waits; the script may hang forever, the installer owes nothing, and
`TerminateProcess` on one's own child is taken to succeed.

`DrainTimeout` is guarded by one timing assumption: a relay that has been
notified is polled within the ten seconds of the drain. What remains to be shown
is that every relay *has* been notified, which depends on the receivers.

**What the runs about the new parts say.** `LineSpec` is strongest about the
end of a session: the client counts it as completed only when the agent's last
byte has arrived, however the connection was lost, because a TLS stream without
close_notify is an error and an error of one direction is the error of both.
`ServerCompletionTrue` is the same for requests. Neither would hold for a plain
TCP connection between the bridges. `RequestsArrive` does not hold for a relay
that reads only when nothing waits to be written: a reply nobody reads would then
hold a request back. `OnlyInstallerStarts` rests on the order in which the
installer removes the services: with the bridge removed first, a renewal script
that is between its stop and its start brings the bridge back.

## 4. Findings

1. *A live socket can be replaced* (`socket_overlap`). `README.md:71` says the
   client refuses to. The recheck of the inode (`unix_socket.rs:68-76`) and the
   removal of the path (77) are two calls; also, a socket that is bound but not
   yet listening (42) looks stale. By the same interleaving `bind_new` can learn
   a foreign inode from its second look at the path (44), and `verify_or_rebind`
   then reports no error (98). An inode that was learned so can be given out
   again once that other client is gone: the Drop of the replaced listener then
   finds it at the path and unlinks the socket its own process has just bound.
   `RebindKeepsReplacement`, too, holds only when clients take turns.
2. *A failed renewal can change the certificate* (`renewal_failure`).
   `docs/certificates.md:85-86` says it does not; the move (script line 74) comes
   before `Restart-Service` (76).
3. *A discovery that times out leaves the service pending* (`service_pending`).
   `docs/deployment.md:32-34` says the timeout is there to prevent that. The error
   leaves `run_service` by `?` (`windows_service.rs:90`) with `StartPending` as the
   last report, and the process stays.
4. *A late failure of the installation is not rolled back* (`install_rollback`).
   The catch (`install-server.ps1:318-320`) says the previous bundle is restored
   and the services remain stopped. When the bridge has been started, it does
   neither: the executable in use cannot be removed, and nobody stops it.

Finding 1 needs two clients that start within the same instants; with turns
taken, `socket_orderly` shows the documented rules to hold.

## 5. Theorems

TLAPS proves, for all values of the constants:

- `ClientBridgeProofs`: `ClientTypeOK`, `ClientServedAccounted`,
  `ClientNoLostShutdown`, `ClientNoReplay`, `ClientRelaysCancelled`, and
  `ClientImplementsPool`, the refinement of `SessionPool`. From
  `ClientAssumption` (at least one permit, the loop is not a connection); the
  set of connections may be infinite. The invariant `IInv` adds to the checked
  properties that the set of served connections is finite and `Unnoticed`: the
  loop has not used up its notification while it runs, nor has any session that
  is still served. Without the first half a clone could be born blind; without
  the second a relay could wait for a notification it has had.
- `ServerBridgeProofs`: `ServerTypeOK`, `ServerServedAccounted`,
  `ServerOnlyTrusted`, `ServerRelaysCancelled`, and `ServerImplementsPool`. From
  `ServerAssumption`, for any peers whatever they offer; the argument is the
  client's, with one part more (`Proven`): the bridge's protocol is negotiated
  only with a peer that offers it, a connection past the handshake has a
  certified peer, and one past `validate_alpn` has negotiated the bridge's
  protocol. Only the three together say that an agent is called for none but a
  client of this bridge.
- `ClientSessionProofs`: `SessionTypeOK`, `SessionPreRelayBounded`,
  `SessionNoPointlessSleep`, `SessionAttemptsInWindow`, `SessionLifeSafety`. From
  `SessionAssumption` only: the bounds hold for every window, timeout, delay and
  lag. The invariant relates `due` to the window in each state: an attempt under
  way began inside it, and a sleep ends inside it.
- `UnixSocketProofs`, for any number of processes: `SocketTypeOK`, with no
  condition on `Overlap`. The invariant `OldNotAtPath`: nothing at the path has
  the inode of a listener that is being replaced, because the path was empty when
  the replacement began and the inode is not given out while that listener holds
  it. Under the hypothesis `Overlap = FALSE`: `SocketOwnershipTrue`,
  `SocketRebindKeepsReplacement`, `SocketLiveNeverRemoved`,
  `SocketOtherNeverRemoved`, `SocketRefusedOnlyIfTaken`. What a replaced listener
  remembers is its own inode only with turns (finding 1), and with `OldNotAtPath`
  its Drop then leaves the new socket alone. The invariant `Orderly`: at most one
  client acts on the path (`Turn`), no two listeners share an inode (`Apart`),
  and what each client has looked up is still so in each place of its calls
  (`Place`). A crash may come between any two calls. What makes it inductive is
  that a client which drops a listener that is no longer at the path does nothing
  to the path. The hypothesis is needed: `socket_overlap` breaks
  `LiveNeverRemoved` without it.
- `AgentConnectorProofs`: `AgentTypeOK`, `AgentConnectBounded`,
  `AgentNotMissed`. From `AgentAssumption` (a positive window): for every window,
  timeout, delay and lag, and whatever agents and redirect file do. The invariant
  bounds `due` by the window in each state, and follows a steady agent from the
  moment it is ready: an attempt that begins later succeeds, and one begins in
  time.
- `WindowsHostProofs`, about `HostSpec`, in which renewal service, script, bridge,
  control manager and installer interleave: `HostTypes`, `HostNoOrphan`,
  `HostSuccessServed`, `HostOnlySound`, `HostDownForNews`,
  `HostInstallerStarts`, `HostOldBundle`. From `RenewalAssumption` (at least one
  certificate), for any number of certificates, installations and interruptions.
  The invariant has three parts: which services the installer has removed by the
  command it is at, and that no script is left once the renewal service is gone
  (`ServiceInv`); which certificates have been verified, and whose a script's
  success is (`CertificateInv`); in which directory there is a bundle
  (`BundleInv`). The first is what `OnlyInstallerStarts` rests on: the installer
  stops the renewal before the bridge.
- `BridgeProcessProofs`: `ProcessTypeOK`, `ProcessServingIsSound`,
  `ProcessRefusalTrue`, and `ProcessServiceSpec`, the refinement of
  `BridgeService`. From `ProcessAssumption`, which says what command lines clap
  lets through and that files are sequences of sections: for files of any length
  and any answers of the CLI. The invariant says what has been checked by the time
  the process is at a stage, and that a rollover of the files takes none of it
  back; a rollover exchanges whole files that are in order for such files. A
  service's stop is `none` until Running is reported, which is what keeps a start
  from being stopped. That `load_private_key` finds the one key of a file is a
  lemma (`KeyErrorTrue`): the readers of `TlsMaterial` are sets of places and
  their first element, so that no recursion over the file is needed, and that a
  set of places has a first element is the library's theorem on well-founded
  orders.
- `BridgeSystemProofs`: `SystemTypeOK`, `SystemServerCompletion`, and
  `SystemLineSpec`, the refinement of `AgentLine`. From `SystemAssumption`: for any
  number of attempts and permits, any number of bytes, any sizes of buffers and
  streams and any number of cuts. The invariant has a part for control: only the
  client's last attempt gets through its handshake, and only its session reaches
  the agent (`ControlInv`). The rest follows the bytes. `Hop`: a direction of a
  relay has written, or holds, exactly what it has read as long as the relay was
  not let go, and ends only what has ended. `SealInv`: an orderly end on the wire
  says that the wire was given everything, since a TLS stream that is dropped or
  cut never looks orderly. The types alone would not be inductive, nor would
  `ServerCompletionTrue` without the hop before the wire.

Some invariants are proved and no longer in a run, since the theorem says more:
`NoReplay`, `NoPointlessSleep`, `AttemptsBeginInWindow`, `HostTypeOK`, and the
`TypeOK` of `ClientBridge`, `ServerBridge`, `UnixSocket`, `AgentConnector` and
`BridgeProcess`. TLC has checked every inductive invariant on the runs' instances
before its proof.

With that every safety property of the passing runs is a theorem, the three
refinements without fairness (`PoolSpec` of both bridges, `ServiceSpec`,
`LineSpec`) included. Only model-checked are the liveness properties
(`ShutdownTerminates`, `PendingResolved`, `UnprovenPeersReleasePermits`,
`LifeSpec` beyond its safety, `PathRestored`, `Returns`, `StopHonoured`,
`StopEnds`, `ServerReleases`, `RequestsArrive`): fairness and `ENABLED` are
outside the prover's reach. The renewal without an installer,
`CertificateRenewal!Spec`, has no theorems of its own; its actions are those of
`HostSpec` while the installer is idle. No module declares a `RECURSIVE` operator
and nothing is proved by induction over data.

## 6. Not modelled

*Left out.* TLS and certificate validation themselves (rustls); the logger, whose
only effect on the rest is that its `init` can fail (`StartLog`); the smoke
script, unit and build files. Accept errors change no state. A task that panics
is not distinguished from one that ends. File modes and user ids at the socket
path are left out: `bind_new` compares the mode, and a path whose mode differs is
one more way for it to fail; so are a parent directory that is missing or cannot
be read and errors of `symlink_metadata` other than not found, by which the start
fails or the process ends as it does for the errors that are modelled. A failure
of the last report, `set_service_status(Stopped)`, of either service is left out,
and so are power failures and restarts of the host.

*Simplified.* A process that is killed looks to its peers like one that cancels
its relays: the kernel closes its connections. On a plain socket a close and a
finished output look alike to the reader, as they do in the code; only the TLS
connection tells them apart. Errors of `try_wait` and `kill` in the renewal
service are left out: the properties about stops hold if `TerminateProcess` and
the wait on one's own child succeed. `Move-Item -Force` over an existing
certificate is one step. In `BridgeProcess` a service is started once, and the
`windows-renewal-service` command of `main` is in `CertificateRenewal` instead.
In `WindowsHost` the configuration, the download, the ZIP checks and the Step
bootstrap are one command that may fail; certificate and key are issued together
(`install-server.ps1:211-213` demands both); the operator acts while the
installer is idle; `Start-Service` waits as long as the service is pending.

## 7. Plan

Done: every component whose behaviour the language can express, with its runs:
`ShutdownWatch`, `SessionPool`, `ClientBridge`, `ServerBridge`, `ClientSession`,
`UnixSocket`, `AgentConnector`, `Relay`, `AgentLine`, `BridgeSystem`,
`TlsMaterial`, `BridgeService`, `BridgeProcess`, `CertificateRenewal`,
`WindowsHost`. Proofs for the client, the server, the session, the socket
(types in general, ownership and rebind with turns taken), the agent
connector, the process, the Windows host and the whole bridge.

What could still be added is proof again: the safety half of each liveness
property (what is enabled when nothing has happened yet, as a state predicate),
and the ownership rules under weaker hypotheses than turns, for instance that only
starts overlap.
