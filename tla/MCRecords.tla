------------------------------ MODULE MCRecords ------------------------------
(***************************************************************************)
(* Records for TLC: requests are alike, and so are gateways and the names  *)
(* of the built-in workflows.                                              *)
(***************************************************************************)
EXTENDS Records, TLC

Symmetry == Permutations(Reqs) \cup Permutations(Gateways) \cup Permutations(Names)
=============================================================================
