------------------------------ MODULE MCRuntime ------------------------------
(***************************************************************************)
(* Runtime for TLC: clients create the second namespace.                   *)
(***************************************************************************)
EXTENDS Runtime, TLC

MCConfigs == [allow_import : BOOLEAN]
NoNamespaces == <<>>

Symmetry == Permutations(Threads)
=============================================================================
