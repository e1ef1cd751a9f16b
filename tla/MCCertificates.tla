--------------------------- MODULE MCCertificates ---------------------------
(* Small instances of CertificateQueue for TLC. *)
EXTENDS CertificateQueue

CONSTANTS d1, d2, j1, j2, k1, k2
=============================================================================
