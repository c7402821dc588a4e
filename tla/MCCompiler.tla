----------------------------- MODULE MCCompiler -----------------------------
(***************************************************************************)
(* Compiler on small instances.                                            *)
(***************************************************************************)
EXTENDS Compiler

NameSymmetry == Permutations(Names)
=============================================================================
