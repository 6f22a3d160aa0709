----------------------------- MODULE MCWithdraw -----------------------------
(* Two groups, and credits of up to two coins' worth.                      *)
EXTENDS Withdraw

MCGroups == {1, 2}
=============================================================================
