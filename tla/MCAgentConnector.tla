-------------------------- MODULE MCAgentConnector --------------------------
(* The constants of AgentConnector for TLC; one unit is 200 ms or more.    *)
EXTENDS AgentConnector
=============================================================================
