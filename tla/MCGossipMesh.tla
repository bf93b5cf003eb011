--------------------------- MODULE MCGossipMesh ----------------------------
(* The gossip mesh on small instances. *)
EXTENDS GossipMesh

CONSTANTS n1, n2, v1, v2, v3, stranger

B(a, i, x) == [account |-> a, nonce |-> i, variant |-> x]

(* Account 1 signs two blocks at nonce 1; account 2 signs one. *)
DoubleSpend == {B(1, 1, 0), B(1, 1, 1)}
OneFork == DoubleSpend \cup {B(2, 1, 0)}

(* One account signs two blocks at nonce 1, two more sign one each. *)
ForkAmongThree == OneFork \cup {B(3, 1, 0)}

Says(k, b, s) == [key |-> k, block |-> b, signer |-> s]

(* A vote in the name of v1 that it never signed, and the vote of a stranger. *)
Forgeries == {Says(v1, B(1, 1, 0), stranger), Says(stranger, B(1, 1, 1), stranger)}

(* v1 confirms one branch of the fork. *)
OneConfirmation == {Says(v1, B(1, 1, 0), v1)}

NoStake == [v \in Validators |-> 0]

(* v3 holds just less than what tolerating it allows. *)
ThirdStake == (v1 :> 34) @@ (v2 :> 33) @@ (v3 :> 33)
=============================================================================
