------------------------- MODULE MCTempoMonolithic -------------------------
(***************************************************************************)
(* Lifetimes in units of the interval between two checks: a certificate is *)
(* renewed after one and expires after two.                                *)
(***************************************************************************)
EXTENDS TempoMonolithic
=============================================================================
