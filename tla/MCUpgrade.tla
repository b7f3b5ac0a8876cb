----------------------------- MODULE MCUpgrade -----------------------------
(***************************************************************************)
(* Upgrade with one step of a kind, on CRs that are new, made by an        *)
(* earlier version, or carry a version that does not parse.                *)
(***************************************************************************)
EXTENDS Upgrade

MCRecorded == {Unparseable, 1}
MCNumbered == {Empty, 1, 2}
MCMade  == {1, 2}
MCFirst == {1}
MCNew   == {Empty}
============================================================================
