-------------------------------- MODULE Sums --------------------------------
(* Sums of the values of a function over a set of its arguments. *)
EXTENDS FiniteSetsExt

SumOver(f, S) == MapThenSumSet(LAMBDA x : f[x], S)
=============================================================================
