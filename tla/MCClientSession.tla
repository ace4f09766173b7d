-------------------------- MODULE MCClientSession --------------------------
(* The constants of ClientSession for TLC; one unit is 200 ms.             *)
EXTENDS ClientSession
=============================================================================
