------------------------------ MODULE MCIgnDev ------------------------------
(***************************************************************************)
(* Model checking of IgnDev: processes, files and addresses are alike.     *)
(***************************************************************************)
EXTENDS IgnDev

IgnSymmetry == Permutations(Procs) \cup Permutations(Files) \cup Permutations(Slots)
=============================================================================
