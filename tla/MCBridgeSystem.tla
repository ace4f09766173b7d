--------------------------- MODULE MCBridgeSystem ---------------------------
(* The constants of BridgeSystem for TLC.                                  *)
EXTENDS BridgeSystem
=============================================================================
