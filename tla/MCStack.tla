------------------------------ MODULE MCStack -------------------------------
(***************************************************************************)
(* Model checking of Stack: names, objects, files and processes of a kind  *)
(* are alike.                                                              *)
(***************************************************************************)
EXTENDS Stack, TLC

Symmetry == UNION {Permutations(S) :
                S \in {Procs, Names, Files, UDentries, LDentries, LInodes, Modes}}
=============================================================================
