--------------------------- MODULE MCRefreshGroup ---------------------------
(* Instances of RefreshGroup for TLC: coins, slots and seeds are symmetric. *)
EXTENDS RefreshGroup, TLC

Symmetry == Permutations(Coins) \cup Permutations(Runs) \cup Permutations(Seeds)
=============================================================================
