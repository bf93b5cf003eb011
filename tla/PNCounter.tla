----------------------------- MODULE PNCounter ------------------------------
(***************************************************************************)
(* PNCounter of arxia-crdt/src/pn_counter.rs: credits and debits per node, *)
(* each of which only grows.  Sums stop at u64::MAX, the value at the      *)
(* limits of i64.                                                          *)
(***************************************************************************)
EXTENDS Integers, Sums

CONSTANT MaxU64     \* u64::MAX

MaxI64 == MaxU64 \div 2

(* Mutant of Saturated64: the sum wraps. *)
Wrapped64(x) == x % (MaxU64 + 1)

(* saturating_add *)
Saturated64(x) == IF x > MaxU64 THEN MaxU64 ELSE x

(* PNCounter::value of a counter whose credits and debits add up to P and N *)
Value(P, N) ==
    LET d == Saturated64(P) - Saturated64(N)
    IN IF d > MaxI64 THEN MaxI64 ELSE IF d < -MaxI64 - 1 THEN -MaxI64 - 1 ELSE d

(* increment or decrement of node i's own entry *)
Bump(f, i, amount) == [f EXCEPT ![i] = Saturated64(@ + amount)]

TotalOf(f) == SumOver(f, DOMAIN f)

(* The element-wise maximum, which merges counters and clocks alike. *)
JoinMax(f, g) == [i \in DOMAIN f |-> IF f[i] > g[i] THEN f[i] ELSE g[i]]
=============================================================================
