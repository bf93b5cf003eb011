---------------------------- MODULE MCDelegation ---------------------------
(* The delegation graph on small instances.  No property distinguishes the
   holders, so they are interchangeable. *)
EXTENDS Delegation

CONSTANTS h1, h2, h3, h4, h5

HolderSymmetry == Permutations(Holders)
=============================================================================
