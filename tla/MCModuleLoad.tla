---------------------------- MODULE MCModuleLoad ----------------------------
(***************************************************************************)
(* Model checking of ModuleLoad: the processes may be exchanged.           *)
(***************************************************************************)
EXTENDS ModuleLoad, TLC

LoadSymmetry == Permutations(Procs)
=============================================================================
