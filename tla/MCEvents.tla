------------------------------ MODULE MCEvents ------------------------------
(***************************************************************************)
(* Model checking of Events.  Processes of the same kind and group names   *)
(* are model values that may be exchanged; runs of liveness properties do  *)
(* not use the symmetry.                                                   *)
(***************************************************************************)
EXTENDS Events, TLC

Symmetry ==
    Permutations(Accessors \ Ignored) \cup Permutations(Readers \ Pollers)
      \cup Permutations(Pollers) \cup Permutations(Ctrls) \cup Permutations(Names)
=============================================================================
