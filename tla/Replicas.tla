------------------------------ MODULE Replicas ------------------------------
(***************************************************************************)
(* Replicas that each keep an OR-Set, a PN-Counter and a vector clock,     *)
(* tick it with each of their updates and merge the snapshots others       *)
(* have published, all three types at once, as docs/architecture/CRDT.md   *)
(* lays down.  A snapshot may be old, and may be merged again and again.   *)
(***************************************************************************)
EXTENDS Crdts, Sequences

CONSTANTS
    Amounts,    \* what a counter is moved by
    MaxUpdates, \* bound: updates made by all replicas together
    MaxTime     \* bound: days that pass

ASSUME ReplicasAssumption ==
    /\ IsFiniteSet(Replicas)
    /\ Amounts \subseteq Nat
    /\ MaxUpdates \in Nat /\ MaxTime \in Nat

VARIABLES
    elements, tag_counter,      \* ORSet
    p, n,                       \* PNCounter
    clocks,                     \* CrdtVectorClock.clocks
    last_seen,                  \* VectorClockEntry.last_seen_unix, in days
    now,                        \* the day it is
    mail,                       \* the snapshot each replica has published last
    updates,                    \* history: the updates each replica has made
    seen,                       \* history: those that have had an effect on a replica
    cleanly                     \* history: pruning has removed nothing from any clock

stateVars == <<elements, p, n, clocks, seen>>
vars == <<stateVars, tag_counter, last_seen, now, mail, updates, cleanly>>

Tags == Replicas \X Nat

Snapshot(r) == [elements |-> elements[r], p |-> p[r], n |-> n[r],
                clocks |-> clocks[r], seen |-> seen[r]]

TypeOK ==
    /\ \A r \in Replicas : \A e \in Elements : elements[r][e] \subseteq Tags
    /\ tag_counter \in [Replicas -> 0 .. MaxU64]
    /\ p \in [Replicas -> [Replicas -> 0 .. MaxU64]]
    /\ n \in [Replicas -> [Replicas -> 0 .. MaxU64]]
    /\ clocks \in [Replicas -> [Replicas -> 0 .. MaxUpdates]]
    /\ last_seen \in [Replicas -> [Replicas -> 0 .. MaxTime]]
    /\ now \in 0 .. MaxTime
    /\ \A r \in Replicas : seen[r] \subseteq Replicas \X (1 .. MaxUpdates)
    /\ cleanly \in BOOLEAN

Init ==
    /\ elements = [r \in Replicas |-> NoElements]
    /\ tag_counter = [r \in Replicas |-> 0]
    /\ p = [r \in Replicas |-> NoTicks]
    /\ n = [r \in Replicas |-> NoTicks]
    /\ clocks = [r \in Replicas |-> NoTicks]
    /\ last_seen = [r \in Replicas |-> NoTicks]
    /\ now = 0
    /\ updates = [r \in Replicas |-> <<>>]
    /\ seen = [r \in Replicas |-> {}]
    /\ mail = [r \in Replicas |-> Snapshot(r)]
    /\ cleanly = TRUE

(* An update of r's: its clock ticks, and history is written. *)
Updating(r, update) ==
    /\ SumOver([q \in Replicas |-> Len(updates[q])], Replicas) < MaxUpdates
    /\ clocks' = [clocks EXCEPT ![r] = Ticked(@, r)]
    /\ last_seen' = [last_seen EXCEPT ![r][r] = now]
    /\ updates' = [updates EXCEPT ![r] = Append(@, update)]
    /\ seen' = [seen EXCEPT ![r] = @ \cup {<<r, Len(updates[r]) + 1>>}]
    /\ UNCHANGED <<now, mail, cleanly>>

(* ORSet::add *)
Add(r, e) ==
    LET tag == <<r, Saturated64(tag_counter[r] + 1)>> IN
    /\ Updating(r, [kind |-> "add", element |-> e, tag |-> tag])
    /\ tag_counter' = [tag_counter EXCEPT ![r] = tag[2]]
    /\ elements' = [elements EXCEPT ![r] = WithTag(@, e, tag)]
    /\ UNCHANGED <<p, n>>

(* ORSet::remove, when it returns true *)
Remove(r, e) ==
    /\ Contains(elements[r], e)
    /\ Updating(r, [kind |-> "remove", element |-> e, observed |-> elements[r][e]])
    /\ elements' = [elements EXCEPT ![r] = Without(@, e)]
    /\ UNCHANGED <<tag_counter, p, n>>

(* PNCounter::increment *)
Increment(r, x) ==
    /\ Updating(r, [kind |-> "credit", amount |-> x])
    /\ p' = [p EXCEPT ![r] = Bump(@, r, x)]
    /\ UNCHANGED <<elements, tag_counter, n>>

(* PNCounter::decrement *)
Decrement(r, x) ==
    /\ Updating(r, [kind |-> "debit", amount |-> x])
    /\ n' = [n EXCEPT ![r] = Bump(@, r, x)]
    /\ UNCHANGED <<elements, tag_counter, p>>

Publish(r) ==
    /\ mail' = [mail EXCEPT ![r] = Snapshot(r)]
    /\ UNCHANGED <<stateVars, tag_counter, last_seen, now, updates, cleanly>>

(* The three merges.  What a clock learns of a node was seen today. *)
Merge(r, s) ==
    /\ elements' = [elements EXCEPT ![r] = Union(@, s.elements)]
    /\ p' = [p EXCEPT ![r] = JoinMax(@, s.p)]
    /\ n' = [n EXCEPT ![r] = JoinMax(@, s.n)]
    /\ clocks' = [clocks EXCEPT ![r] = JoinMax(@, s.clocks)]
    /\ last_seen' = [last_seen EXCEPT ![r] =
          [q \in Replicas |-> IF s.clocks[q] > clocks[r][q] THEN now ELSE @[q]]]
    /\ seen' = [seen EXCEPT ![r] = @ \cup s.seen]
    /\ UNCHANGED <<tag_counter, now, mail, updates, cleanly>>

(* Periodic maintenance of a clock, as CRDT.md has it: the functions of pruning.rs
   take a BTreeMap of entries that nothing in the code fills, and vector_clock.rs
   gives CrdtVectorClock no cap.  Bound: none is looked at after the first that
   removed something. *)
Prune(r) ==
    /\ cleanly
    /\ clocks' = [clocks EXCEPT ![r] = Pruned(@, last_seen[r], now)]
    /\ cleanly' = (cleanly /\ PruningResult(clocks[r], last_seen[r], now) = "Clean")
    /\ UNCHANGED <<elements, p, n, seen, tag_counter, last_seen, now, mail, updates>>

NextDay ==
    /\ now < MaxTime
    /\ now' = now + 1
    /\ UNCHANGED <<stateVars, tag_counter, last_seen, mail, updates, cleanly>>

Next ==
    \/ \E r \in Replicas :
          \/ \E e \in Elements : Add(r, e) \/ Remove(r, e)
          \/ \E x \in Amounts : Increment(r, x) \/ Decrement(r, x)
          \/ Publish(r)
          \/ \E q \in Replicas \ {r} : Merge(r, mail[q])
          \/ Prune(r)
    \/ NextDay

Spec == Init /\ [][Next]_vars

(* Replicas go on publishing, and merging what was published. *)
Fairness ==
    \A r, q \in Replicas : r # q => WF_vars(Publish(q)) /\ WF_vars(Merge(r, mail[q]))

FairSpec == Spec /\ Fairness

-----------------------------------------------------------------------------
(* The clocks tell exactly which replica knows of more updates, as long as every
   pruning has reported Clean. *)
CausalityIsExact ==
    cleanly =>
      \A r, q \in Replicas :
        /\ HappenedBefore(clocks[r], clocks[q]) <=> (seen[r] \subseteq seen[q] /\ seen[r] # seen[q])
        /\ IsConcurrent(clocks[r], clocks[q]) <=>
             ~(seen[r] \subseteq seen[q]) /\ ~(seen[q] \subseteq seen[r])

(* What the updates of one kind that r has seen add up to. *)
SumSeen(r, kind) ==
    LET those == {u \in seen[r] : updates[u[1]][u[2]].kind = kind}
    IN SumOver([u \in those |-> updates[u[1]][u[2]].amount], those)

(* A counter counts each update its replica has seen once, however often and by
   whatever way it came, and is off only at the limits of its range. *)
CounterIsExact ==
    \A r \in Replicas :
        Value(TotalOf(p[r]), TotalOf(n[r])) = Value(SumSeen(r, "credit"), SumSeen(r, "debit"))

(* "Concurrent add + remove results in the element being present": an addition a
   replica has seen is in force there unless it has also seen a removal which
   had observed the addition. *)
AddsSurvive ==
    \A r \in Replicas : \A u \in seen[r] :
        LET a == updates[u[1]][u[2]] IN
        a.kind = "add" /\ a.tag \notin elements[r][a.element] =>
          \E v \in seen[r] : LET d == updates[v[1]][v[2]] IN
            d.kind = "remove" /\ d.element = a.element /\ a.tag \in d.observed

(* Once nobody updates any more, snapshots bring all replicas to the same set and
   the same counter for good, and to the same clock if nothing was pruned. *)
ReplicasConverge ==
    <>[](\A r, q \in Replicas :
           /\ elements[r] = elements[q]
           /\ p[r] = p[q] /\ n[r] = n[q]
           /\ cleanly => clocks[r] = clocks[q])
=============================================================================
