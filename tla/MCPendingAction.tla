-------------------------- MODULE MCPendingAction --------------------------
(* Instances of PendingAction for TLC.                                     *)
EXTENDS PendingAction, TLC

CONSTANTS p1, p2, c1, c2, v1, v2

(* Processes, and cards, are told apart by nothing.                        *)
Symmetry == Permutations(Proc) \cup Permutations(Card)
=============================================================================
