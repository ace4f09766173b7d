------------------------ MODULE ClientSessionProofs ------------------------
(***************************************************************************)
(* Theorems about ClientSession for every window, timeout, delay and lag.  *)
(***************************************************************************)
EXTENDS ClientSession, TLAPS

\* Where the timer of each await can stand, and how far past it the clock
\* can be: each stage inherits the latest start from the one before it.
TimerInv ==
  /\ pc = "tcp" => due < Window + TcpTimeout
  /\ pc = "tls" => due < Window + TcpTimeout + TlsTimeout + Lag
  /\ pc = "sleeping" => due < Window
  /\ pc \in PreRelay => elapsed <= due + Lag

IInv == TypeOK /\ TimerInv

-----------------------------------------------------------------------------
\* A backoff delay is a natural number, and no longer than MaxDelay.
LEMMA CapBounded ==
  ASSUME NEW a \in 0..LastStep
  PROVE  Cap(a) \in Nat /\ Cap(a) <= MaxDelay
<1>1. Shift[a] \in Nat
  <2>1. a + 1 \in 1..6
    BY DEF LastStep
  <2>2. <<1, 2, 4, 8, 16, 32>>[a + 1] \in Nat
    BY <2>1
  <2> QED
    BY <2>2 DEF Shift
<1>2. InitialDelay * Shift[a] \in Nat
  BY <1>1, SessionAssumption
<1> QED
  BY <1>2, SessionAssumption DEF Cap, Least

\* The attempt counter stays within the steps of the backoff.
LEMMA NextAttemptType ==
  ASSUME NEW a \in 0..LastStep
  PROVE  NextAttempt(a) \in 0..LastStep
BY DEF NextAttempt, Least, LastStep

\* The initial state satisfies the inductive invariant.
LEMMA InitIInv == Init => IInv
<1> SUFFICES ASSUME Init PROVE IInv
  OBVIOUS
<1>1. elapsed = 0 /\ due = TcpTimeout /\ TcpTimeout \in Nat /\ Lag \in Nat
  BY SessionAssumption DEF Init
<1>2. attempt \in 0..LastStep
  BY DEF Init, LastStep
<1>3. TypeOK
  <2>1. pc \in PreRelay /\ told \in BOOLEAN
    BY DEF Init, PreRelay
  <2> QED
    BY <1>1, <1>2, <2>1 DEF TypeOK
<1>4. TimerInv
  BY <1>1, SessionAssumption DEF Init, TimerInv
<1> QED
  BY <1>3, <1>4 DEF IInv

\* Every step keeps the inductive invariant.
LEMMA NextIInv == IInv /\ [Next]_vars => IInv'
<1> SUFFICES ASSUME IInv, [Next]_vars PROVE IInv'
  OBVIOUS
<1> USE SessionAssumption DEF IInv, TypeOK, TimerInv, PreRelay
<1>1. CASE Tick
  BY <1>1 DEF Tick
<1>2. CASE Notify
  BY <1>2 DEF Notify
<1>3. CASE TcpConnected
  BY <1>3 DEF TcpConnected
<1>4. CASE TlsConnected \/ TlsRejected \/ Cancelled \/ RelayEnds
  BY <1>4 DEF TlsConnected, TlsRejected, Cancelled, RelayEnds
<1>5. CASE TransientFailure
  <2>1. attempt' \in 0..LastStep
    BY <1>5, NextAttemptType DEF TransientFailure
  <2>2. PICK d \in 0..Cap(attempt) :
          \/ Fits(d) /\ pc' = "sleeping" /\ due' = elapsed + d
          \/ ~Fits(d) /\ pc' = "over" /\ UNCHANGED due
    BY <1>5 DEF TransientFailure
  <2>3. d \in Nat
    BY <2>2, CapBounded
  <2> QED
    BY <1>5, <2>1, <2>2, <2>3 DEF TransientFailure, Fits
<1>6. CASE Wake
  BY <1>6 DEF Wake
<1>7. CASE Over \/ UNCHANGED vars
  BY <1>7 DEF Over, vars
<1> QED
  BY <1>1, <1>2, <1>3, <1>4, <1>5, <1>6, <1>7 DEF Next, Outcome

\* The inductive invariant holds in every reachable state.
THEOREM SpecIInv == Spec => []IInv
<1> QED
  BY InitIInv, NextIInv, PTL DEF Spec

-----------------------------------------------------------------------------
\* Every variable of the session stays in its type.
THEOREM SessionTypeOK == Spec => []TypeOK
<1>1. IInv => TypeOK
  BY DEF IInv
<1> QED
  BY <1>1, SpecIInv, PTL

\* A session relays or gives up within the window plus one whole attempt and
\* the lateness of its two timers, whatever delays were drawn.
THEOREM SessionPreRelayBounded == Spec => []PreRelayBounded
<1>1. IInv => PreRelayBounded
  BY SessionAssumption DEF IInv, TypeOK, TimerInv, PreRelayBounded, PreRelay
<1> QED
  BY <1>1, SpecIInv, PTL

\* A session never sleeps past its window.
THEOREM SessionNoPointlessSleep == Spec => []NoPointlessSleep
<1>1. IInv => NoPointlessSleep
  BY DEF IInv, TimerInv, NoPointlessSleep
<1> QED
  BY <1>1, SpecIInv, PTL

\* No attempt begins outside the window.
THEOREM SessionAttemptsInWindow == Spec => AttemptsBeginInWindow
<1>1. [Next]_vars => [pc # "tcp" /\ pc' = "tcp" => elapsed < Window]_vars
  BY DEF Next, Tick, Notify, Outcome, TcpConnected, TlsConnected, TlsRejected,
         TransientFailure, Wake, Cancelled, RelayEnds, Over, vars
<1> QED
  BY <1>1, PTL DEF Spec, AttemptsBeginInWindow

\* The steps of a session are steps of SessionLife: one relay at most, never
\* taken up again (its liveness is left to the model checker).
THEOREM SessionLifeSafety == Spec => Life!LifeInit /\ [][Life!LifeNext]_(Life!lifeVars)
<1>1. Init => Life!LifeInit
  BY DEF Init, Life!LifeInit, PreRelay
<1>2. TypeOK /\ [Next]_vars => [Life!LifeNext]_(Life!lifeVars)
  BY DEF TypeOK, Next, Tick, Notify, Outcome, TcpConnected, TlsConnected, TlsRejected,
         TransientFailure, Wake, Cancelled, RelayEnds, Over, vars, PreRelay,
         Life!LifeNext, Life!lifeVars, Life!Told, Life!Relay, Life!GiveUp, Life!Finish
<1> QED
  BY <1>1, <1>2, SessionTypeOK, PTL DEF Spec
=============================================================================
