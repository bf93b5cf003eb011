------------------------------- MODULE Crdts --------------------------------
(***************************************************************************)
(* The other replicated types of arxia-crdt: ORSet (or_set.rs), a set      *)
(* whose elements carry the tags of their additions and which keeps no     *)
(* tombstones; CrdtVectorClock (vector_clock.rs); and the pruning of       *)
(* clocks (pruning.rs).  An entry that is absent from a map is zero or     *)
(* empty.                                                                  *)
(***************************************************************************)
EXTENDS Integers, FiniteSetsExt, PNCounter

CONSTANTS
    Replicas,   \* numbers, which order the node ids
    Elements,
    Cap,        \* MAX_VECTOR_CLOCK_ENTRIES
    Expiry      \* EXPIRY_DAYS

ASSUME CrdtAssumption ==
    /\ Replicas \subseteq Nat
    /\ MaxU64 \in Nat /\ Cap \in Nat /\ Expiry \in Nat

-----------------------------------------------------------------------------
(* ORSet *)

NoElements == [e \in Elements |-> {}]

Contains(set, e) == set[e] # {}

WithTag(set, e, tag) == [set EXCEPT ![e] = @ \cup {tag}]

Without(set, e) == [set EXCEPT ![e] = {}]

(* Mutant of Union: an element both sides have keeps the tags of one of them. *)
UnionOfAbsent(set, other) ==
    [e \in Elements |-> IF set[e] = {} THEN other[e] ELSE set[e]]

(* ORSet::merge *)
Union(set, other) == [e \in Elements |-> set[e] \cup other[e]]

-----------------------------------------------------------------------------
(* CrdtVectorClock *)

NoTicks == [r \in Replicas |-> 0]

Ticked(clock, r) == [clock EXCEPT ![r] = @ + 1]

(* Mutant of HappenedBefore: entries only the other clock has are not looked at. *)
HappenedBeforeByOwn(c, d) ==
    /\ \A r \in Replicas : c[r] <= d[r]
    /\ \E r \in Replicas : c[r] > 0 /\ c[r] < d[r]

HappenedBefore(c, d) ==
    /\ \A r \in Replicas : c[r] <= d[r]
    /\ \E r \in Replicas : c[r] < d[r]

IsConcurrent(c, d) == ~HappenedBefore(c, d) /\ ~HappenedBefore(d, c) /\ c # d

-----------------------------------------------------------------------------
(* Pruning.  Entries are what is not zero. *)

Entries(clock) == {r \in Replicas : clock[r] > 0}

Kept(clock, kept) == [r \in Replicas |-> IF r \in kept THEN clock[r] ELSE 0]

(* prune_expired *)
Unexpired(clock, lastSeen, now) ==
    {r \in Entries(clock) : now - lastSeen[r] < Expiry}

(* Lower counters go first, then lower node ids. *)
Before(clock, r, q) == clock[r] < clock[q] \/ (clock[r] = clock[q] /\ r < q)

(* prune_to_cap *)
WithinCap(clock, entries) ==
    {r \in entries : Cardinality({q \in entries : Before(clock, r, q)}) < Cap}

(* prune_all *)
Pruned(clock, lastSeen, now) ==
    Kept(clock, WithinCap(clock, Unexpired(clock, lastSeen, now)))

(* The PruningResult of prune_all, the more severe of the two. *)
PruningResult(clock, lastSeen, now) ==
    LET live == Unexpired(clock, lastSeen, now)
    IN IF WithinCap(clock, live) # live THEN "ForcedPruning"
       ELSE IF live # Entries(clock) THEN "ExpiredRemoved"
       ELSE "Clean"
=============================================================================
