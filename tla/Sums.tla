--------------------------------- MODULE Sums ---------------------------------
(***************************************************************************)
(* Amounts.sum (taler-util/amounts.ts): amounts, by whatever they are the  *)
(* amounts of, are a function f.                                           *)
(***************************************************************************)
EXTENDS FiniteSetsExt

SumOver(f, S) == MapThenSumSet(LAMBDA x : f[x], S)
===============================================================================
