------------------------ MODULE MCCertificateRenewal ------------------------
(* Bounds of CertificateRenewal for TLC.                                   *)
EXTENDS CertificateRenewal
=============================================================================
