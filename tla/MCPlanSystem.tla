---------------------------- MODULE MCPlanSystem -----------------------------
(***************************************************************************)
(* PlanSystem for TLC: the ids of a pool are interchangeable.              *)
(***************************************************************************)
EXTENDS PlanSystem, TLC

Symmetry == Permutations(Plans) \cup Permutations(Approvals) \cup Permutations(Execs)
              \cup Permutations(Issues) \cup Permutations(Reqs)
=============================================================================
