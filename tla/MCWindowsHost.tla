---------------------------- MODULE MCWindowsHost ----------------------------
(* Bounds of WindowsHost for TLC.                                          *)
EXTENDS WindowsHost
=============================================================================
