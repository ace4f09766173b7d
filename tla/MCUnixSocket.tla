---------------------------- MODULE MCUnixSocket ----------------------------
(* Small instances of UnixSocket for TLC.                                  *)
EXTENDS UnixSocket

CONSTANTS p1, p2, i1, i2, i3, i4

TwoProcs == {p1, p2}
ThreeInodes == {i1, i2, i3}
FourInodes == {i1, i2, i3, i4}
=============================================================================
