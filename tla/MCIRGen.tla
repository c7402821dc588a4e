------------------------------ MODULE MCIRGen ------------------------------
(***************************************************************************)
(* IRGen and IRGenSim on small instances.                                  *)
(***************************************************************************)
EXTENDS IRGenSim

\* Nothing depends on which name is which.
NameSymmetry == Permutations(Names)
=============================================================================
