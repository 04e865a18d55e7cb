------------------------------ MODULE MCBaseline ------------------------------
(***************************************************************************)
(* Instances of BaselineExecution for TLC.                                 *)
(***************************************************************************)
EXTENDS BaselineExecution, TLC

Symmetry == Permutations(Handles) \cup Permutations(Executions)
=============================================================================
