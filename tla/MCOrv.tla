-------------------------------- MODULE MCOrv --------------------------------
(* Two blocks and a credential revocation that claim one slot. *)
EXTENDS Orv, TLC

CONSTANTS n1, n2, r1, r2

B(h, k) == [hash |-> h, slot |-> 1, kind |-> k]
a == B(1, "Send")
b == B(2, "Send")
revoke == B(0, "Revoke")

Rivals == {a, b, revoke}

(* Each node holds its own branch of the double spend and the revocation. *)
OwnBranch == (n1 :> {a, revoke}) @@ (n2 :> {b, revoke})

(* Stakes within 5 % of each other, just beyond that, and below the threshold. *)
Delegated == (r1 :> {20}) @@ (r2 :> {21, 18, 1})

HowOften == (r1 :> 2) @@ (r2 :> 1)

ForgedVote == {[block |-> b, voter |-> r1, stake |-> 50, nonce |-> 1, signer |-> r2]}
=============================================================================
