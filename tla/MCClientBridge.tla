-------------------------- MODULE MCClientBridge --------------------------
(* Small instances of ClientBridge for TLC. *)
EXTENDS ClientBridge

CONSTANTS c1, c2, c3

ThreeConns == {c1, c2, c3}
=============================================================================
