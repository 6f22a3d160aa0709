---------------------------- MODULE MCPurchase ----------------------------
(* Model checking Purchase: coins and tasks are interchangeable. *)
EXTENDS Purchase, TLC

Symmetry == Permutations(Coins) \cup Permutations(Tasks)
=============================================================================
