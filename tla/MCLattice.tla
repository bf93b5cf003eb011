----------------------------- MODULE MCLattice ------------------------------
(* The block lattice, and reconciling two of its ledgers, on small instances. *)
EXTENDS Partitions

CONSTANTS a1, a2, l1, l2

(* a1, which forks, signs enough to receive a Send on two branches, on one of
   them after another block; a2 may ask for more than the supply has left. *)
UnevenTicks == (a1 :> 4) @@ (a2 :> 2)
UnevenGrants == (a1 :> {1}) @@ (a2 :> {1, 2})

EvenTicks == [a \in Accounts |-> MaxBlocks]
EvenGrants == [a \in Accounts |-> 0 .. MaxPerAccount]

(* An order of hashes in which a later block of an account comes now before,
   now after an earlier one. *)
Shuffled(h) == (h[2] * 3) % 7
=============================================================================
