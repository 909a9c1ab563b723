------------------------------ MODULE MCFileIO ------------------------------
(***************************************************************************)
(* Model checking of FileIO.                                               *)
(***************************************************************************)
EXTENDS FileIO
=============================================================================
