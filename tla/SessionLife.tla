---------------------------- MODULE SessionLife ----------------------------
(***************************************************************************)
(* What one client session promises the local GnuPG program it serves: it  *)
(* tries to reach the server and, in a bounded time, either relays, once,  *)
(* or gives up; a relay that has ended is never taken up again; and a      *)
(* shutdown ends the relay.                                                *)
(***************************************************************************)
VARIABLES
  stage,    \* "trying", "relaying" or "over"
  told      \* a shutdown notification waits for the session

lifeVars == <<stage, told>>

LifeInit == stage = "trying" /\ told = FALSE

Told == ~told /\ told' = TRUE /\ UNCHANGED stage

Relay == stage = "trying" /\ stage' = "relaying" /\ UNCHANGED told

GiveUp == stage = "trying" /\ stage' = "over" /\ UNCHANGED told

Finish == stage = "relaying" /\ stage' = "over" /\ UNCHANGED told

LifeNext == Told \/ Relay \/ GiveUp \/ Finish

LifeSpec ==
  /\ LifeInit
  /\ [][LifeNext]_lifeVars
  /\ WF_lifeVars(Relay \/ GiveUp)
  /\ WF_lifeVars(told /\ Finish)
=============================================================================
