--------------------------- MODULE StackLifecycle ---------------------------
(***************************************************************************)
(* What the operator promises about the life of a TempoStack or a          *)
(* TempoMonolithic: the CR is held by the finalizer before anything is     *)
(* created for it, leaves only when what it has outside its namespace is   *)
(* gone, unless it is unmanaged, and does leave when it is deleted, with   *)
(* everything inside its namespace; nothing is created for a CR that has   *)
(* left.                                                                   *)
(*                                                                         *)
(* TempoStackController and TempoMonolithic implement it (Lifecycle there):*)
(* caches, passes, failures and restarts are hidden.                       *)
(***************************************************************************)
CONSTANTS
  Objects,    \* names of the objects of a CR
  External    \* those that are cluster-scoped

VARIABLES
  phase,      \* "new", "held", "going", "gone"
  managed,    \* whether the operator manages the CR
  existing    \* the objects that exist

vars == <<phase, managed, existing>>

Init == phase = "new" /\ managed = TRUE /\ existing = {}

Hold   == phase = "new" /\ phase' = "held" /\ UNCHANGED <<managed, existing>>
Manage == phase # "gone" /\ managed' = ~managed /\ UNCHANGED <<phase, existing>>
Delete == phase = "held" /\ phase' = "going" /\ UNCHANGED <<managed, existing>>

\* A pass that is under way may go on while the CR is being deleted.
Work == /\ phase \in {"held", "going"} /\ existing' \in SUBSET Objects
        /\ UNCHANGED <<phase, managed>>

\* Others delete objects at any time, the garbage collector in the end.
Lose == existing' \in SUBSET existing /\ UNCHANGED <<phase, managed>>

Leave == /\ phase = "new" \/ (phase = "going" /\ (managed => existing' \cap External = {}))
         /\ phase' = "gone" /\ managed' = FALSE /\ existing' \in SUBSET existing

Next == Hold \/ Manage \/ Delete \/ Work \/ Lose \/ Leave

Departs == phase = "going" ~> [](phase = "gone" /\ existing \subseteq External)

Steps == Init /\ [][Next]_vars
Spec  == Steps /\ Departs
=============================================================================
