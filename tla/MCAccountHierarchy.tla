-------------------------- MODULE MCAccountHierarchy --------------------------
(****************************************************************************)
(* Every chart of four accounts: chains of three parents, cycles of every   *)
(* length with and without a tail, and missing ancestors at every height.   *)
(****************************************************************************)
EXTENDS AccountHierarchy
================================================================================
