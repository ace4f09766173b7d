--------------------------- MODULE ClientSession ---------------------------
(***************************************************************************)
(* One client session, `relay_session`, with its clock: TCP connect and    *)
(* TLS handshake under their timeouts, the jittered ReconnectBackoff, and  *)
(* the reconnect window that bounds them before the relay is entered.      *)
(*                                                                         *)
(* Time advances by Tick, in units of the caller's choice.  A timer that   *)
(* has expired is served at most Lag units late: the runtime gives no      *)
(* better promise, and a result that arrives in that delay still counts,   *)
(* because `timeout` polls what it wraps before its own timer.             *)
(***************************************************************************)
EXTENDS Naturals

CONSTANTS
  Window,         \* PRE_RELAY_RECONNECT_WINDOW
  TcpTimeout,     \* TCP_CONNECT_TIMEOUT
  TlsTimeout,     \* TLS_HANDSHAKE_TIMEOUT
  InitialDelay,   \* INITIAL_RECONNECT_DELAY
  MaxDelay,       \* MAX_RECONNECT_DELAY
  Lag             \* how late the runtime may serve a timer

ASSUME SessionAssumption ==
  /\ Window \in Nat \ {0}
  /\ TcpTimeout \in Nat
  /\ TlsTimeout \in Nat
  /\ InitialDelay \in Nat
  /\ MaxDelay \in Nat
  /\ Lag \in Nat

VARIABLES
  pc,         \* "tcp", "tls", "sleeping", "relaying" or "over"
  elapsed,    \* started.elapsed(), followed until the relay begins
  due,        \* when the timer of the current await expires
  attempt,    \* ReconnectBackoff.attempt, as far as it is ever looked at
  told        \* the session's receiver has a shutdown notification ready

vars == <<pc, elapsed, due, attempt, told>>

PreRelay == {"tcp", "tls", "sleeping"}

-----------------------------------------------------------------------------
(***************************************************************************)
(* ReconnectBackoff.  Every attempt from LastStep on is treated alike, so  *)
(* the counter, which saturates at 2^32 - 1 in the code, stops there.      *)
(***************************************************************************)

LastStep == 5
Shift == [a \in 0..LastStep |-> <<1, 2, 4, 8, 16, 32>>[a + 1]]

Least(x, y) == IF x <= y THEN x ELSE y

\* The longest delay next_delay_with may return; the jitter picks any delay
\* up to it.
Cap(a) == Least(InitialDelay * Shift[a], MaxDelay)

\* Mutant: an exponent that is not capped.
NextAttemptUncapped(a) == a + 1

NextAttempt(a) == Least(a + 1, LastStep)

-----------------------------------------------------------------------------
Init ==
  /\ pc = "tcp"
  /\ elapsed = 0
  /\ due = TcpTimeout
  /\ attempt = 0
  /\ told = FALSE

Tick ==
  /\ pc \in PreRelay
  /\ elapsed < due + Lag
  /\ elapsed' = elapsed + 1
  /\ UNCHANGED <<pc, due, attempt, told>>

Notify ==
  /\ ~told
  /\ told' = TRUE
  /\ UNCHANGED <<pc, elapsed, due, attempt>>

TcpConnected ==
  /\ pc = "tcp"
  /\ pc' = "tls"
  /\ due' = elapsed + TlsTimeout
  /\ UNCHANGED <<elapsed, attempt, told>>

\* The handshake completed with the bridge's ALPN.
TlsConnected ==
  /\ pc = "tls"
  /\ pc' = "relaying"
  /\ UNCHANGED <<elapsed, due, attempt, told>>

\* The server's certificate or ALPN is wrong: not worth a retry.
TlsRejected ==
  /\ pc = "tls"
  /\ pc' = "over"
  /\ UNCHANGED <<elapsed, due, attempt, told>>

\* The check before the sleep: after it there is still window left.
Fits(d) == elapsed + d < Window

\* A refused, reset, timed out or cut connect or handshake: draw a delay,
\* then sleep it or, if the window cannot hold it, end.
TransientFailure ==
  /\ pc \in {"tcp", "tls"}
  /\ attempt' = NextAttempt(attempt)
  /\ \E d \in 0..Cap(attempt) :
       \/ Fits(d) /\ pc' = "sleeping" /\ due' = elapsed + d
       \/ ~Fits(d) /\ pc' = "over" /\ UNCHANGED due
  /\ UNCHANGED <<elapsed, told>>

\* Mutant: the top of the loop does not look at the window again.
WakeUnchecked ==
  /\ pc = "sleeping"
  /\ elapsed >= due
  /\ pc' = "tcp"
  /\ due' = elapsed + TcpTimeout
  /\ UNCHANGED <<elapsed, attempt, told>>

\* The sleep is over.  The top of the loop looks at the window once more,
\* for the runtime may have served the timer late.
Wake ==
  /\ pc = "sleeping"
  /\ elapsed >= due
  /\ IF elapsed < Window
     THEN pc' = "tcp" /\ due' = elapsed + TcpTimeout
     ELSE pc' = "over" /\ UNCHANGED due
  /\ UNCHANGED <<elapsed, attempt, told>>

\* Mutant: only the backoff listens to the shutdown.
CancelledAsleepOnly ==
  /\ pc = "sleeping"
  /\ told
  /\ pc' = "over"
  /\ UNCHANGED <<elapsed, due, attempt, told>>

\* The sleep and the relay listen to the shutdown; establish does not.
Cancelled ==
  /\ pc \in {"sleeping", "relaying"}
  /\ told
  /\ pc' = "over"
  /\ UNCHANGED <<elapsed, due, attempt, told>>

RelayEnds ==
  /\ pc = "relaying"
  /\ pc' = "over"
  /\ UNCHANGED <<elapsed, due, attempt, told>>

Over == pc = "over" /\ UNCHANGED vars

Outcome == TcpConnected \/ TlsConnected \/ TlsRejected \/ TransientFailure

Next ==
  \/ Tick \/ Notify
  \/ Outcome \/ Wake \/ Cancelled
  \/ RelayEnds
  \/ Over

Spec == Init /\ [][Next]_vars

\* Time passes; what awaits under a timeout, a sleep or a notification is
\* polled when it is due.  A peer need never end a relay.
FairSpec ==
  /\ Spec
  /\ WF_vars(Tick)
  /\ WF_vars(Outcome)
  /\ WF_vars(Wake)
  /\ WF_vars(Cancelled)

-----------------------------------------------------------------------------
(***************************************************************************)
(* Properties.                                                             *)
(***************************************************************************)

\* Every variable stays in its type; the backoff never leaves the steps it
\* distinguishes (retry.rs:19-27).
TypeOK ==
  /\ pc \in PreRelay \cup {"relaying", "over"}
  /\ elapsed \in Nat
  /\ due \in Nat
  /\ attempt \in 0..LastStep
  /\ told \in BOOLEAN

\* The window bounds when an attempt may begin, not when it ends: a session
\* can still be unconnected one whole attempt after the window, and no later
\* (client.rs:23-24, 50-66, 79-98; retry.rs:5).
PreRelayBounded ==
  pc \in PreRelay => elapsed < Window + TcpTimeout + TlsTimeout + 2 * Lag

\* No attempt begins outside the window, however late a timer is served or
\* whatever delay was drawn (client.rs:79-82).
AttemptsBeginInWindow ==
  [][pc # "tcp" /\ pc' = "tcp" => elapsed < Window]_vars

\* A session never goes to sleep past the window: it gives up at once, and
\* the local program is told, when the next attempt could not begin in time
\* (client.rs:95-99).
NoPointlessSleep == pc = "sleeping" => due < Window

\* The session keeps the promises of SessionLife, its liveness included.
Life == INSTANCE SessionLife WITH
  stage <- IF pc \in PreRelay THEN "trying" ELSE pc

LifeSpec == Life!LifeSpec
=============================================================================
