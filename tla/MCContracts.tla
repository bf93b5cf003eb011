---------------------------- MODULE MCContracts -----------------------------
(* The contracts on a small instance. *)
EXTENDS Contracts

CONSTANTS a, b, nobody

Deal(i, s, r, t) == [id |-> i, sender |-> s, recipient |-> r, amount |-> 1, timeout |-> t]

(* Two escrows with the same terms, one that differs in the timeout, and one
   with a recipient that is not a key. *)
SomeEscrows == {Deal(1, a, b, 2), Deal(2, a, b, 2), Deal(3, a, b, 3), Deal(4, a, nobody, 2)}

SomeLocks == {[amount |-> 1, unlock_at |-> 2]}

Schedule(s, c, e) == [total |-> 7, start |-> s, cliff |-> c, end |-> e]

(* A consistent schedule that rounds, and one whose start is after its end,
   which vests at once. *)
SomeSchedules == {Schedule(0, 1, 3), Schedule(3, 0, 2)}
=============================================================================
