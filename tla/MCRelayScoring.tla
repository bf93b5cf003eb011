--------------------------- MODULE MCRelayScoring ---------------------------
(* A small instance; messages and targets are interchangeable. *)
EXTENDS RelayScoring, TLC

CONSTANTS m1, m2, a, b, relay, other

Half == <<1, 2>>
LowestScore == -8
AllPenalties == {-3, 2, 7}

Receipt(m, id, hops, key) == [relay |-> id, message |-> m, hops |-> hops, signer |-> key]

(* For each message: two receipts that differ in the hops, one with too many hops, one
   of another relay, and one signed with a key that is not the relay's. *)
SomeReceipts ==
    UNION {{Receipt(m, relay, 0, relay), Receipt(m, relay, 1, relay),
            Receipt(m, relay, 2, relay), Receipt(m, other, 0, other),
            Receipt(m, relay, 0, other)} : m \in {m1, m2}}

(* A proof against this relay, one against another, and one with the wrong key. *)
SomeProofs ==
    {[target |-> relay, observer |-> other, signer |-> other],
     [target |-> other, observer |-> relay, signer |-> relay],
     [target |-> relay, observer |-> other, signer |-> relay]}

Interchangeable == Permutations({m1, m2}) \cup Permutations(Targets)
=============================================================================
