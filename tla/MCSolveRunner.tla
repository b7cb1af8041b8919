--------------------------- MODULE MCSolveRunner ---------------------------
(* Plan p1 asks for solves i and j, plan p2 for solve k. *)
EXTENDS SolveRunner, TLC

CONSTANTS p1, p2, i, j, k

\* Solves of one plan have no identity of their own.
MCSymmetry == Permutations(Jobs)

MCPlanOf == [o \in Jobs |-> IF o = k THEN p2 ELSE p1]
=============================================================================
