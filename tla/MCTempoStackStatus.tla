------------------------- MODULE MCTempoStackStatus -------------------------
(***************************************************************************)
(* TempoStackStatus with a counted component, the metrics generator and    *)
(* the gateway, one pod each.                                              *)
(***************************************************************************)
EXTENDS TempoStackStatus

CONSTANTS ingester, generator, gateway, i0, m0, g0, badSecret, apiError

MCComponent == [p \in Pods |-> CASE p = i0 -> ingester [] p = m0 -> generator
                                 [] p = g0 -> gateway]
MCListOrder == SelectSeq(<<ingester, gateway, generator>>, LAMBDA c : c \in Components)
============================================================================
