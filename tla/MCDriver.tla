------------------------------ MODULE MCDriver ------------------------------
(***************************************************************************)
(* Driver on a small instance: one text of each kind.                      *)
(***************************************************************************)
EXTENDS Driver
=============================================================================
