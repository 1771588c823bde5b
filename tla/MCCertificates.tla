--------------------------- MODULE MCCertificates ---------------------------
(***************************************************************************)
(* Certificates for TLC: lives of six units, so that a certificate is due  *)
(* at four, falls through at five and ends at six.                         *)
(***************************************************************************)
EXTENDS Certificates
=============================================================================
