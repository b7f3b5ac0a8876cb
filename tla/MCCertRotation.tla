--------------------------- MODULE MCCertRotation ---------------------------
(***************************************************************************)
(* CertRotation on small lifetimes that keep the proportions of the        *)
(* operator's defaults: a refresh at 80% of the validity.                  *)
(***************************************************************************)
EXTENDS CertRotation

CONSTANTS distributor, ingester, ca1, ca2, ca3, ca4, ca5, ca6, ca7
============================================================================
