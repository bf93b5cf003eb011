----------------------------- MODULE GossipNode -----------------------------
(***************************************************************************)
(* The gossip nodes (arxia-gossip/src/node.rs and nonce_registry.rs): each *)
(* keeps the blocks it knows and a registry of which block claims which    *)
(* (account, nonce).  Both are bounded and drop their oldest entries.      *)
(*                                                                         *)
(* A block stands for its hash: two blocks of the same account and nonce   *)
(* are told apart by `variant`.  Accounts are numbers because the registry *)
(* is a BTreeMap, which lists its keys in order.  Only verify_block's      *)
(* survivors, the blocks of Signed, occur.                                 *)
(***************************************************************************)
EXTENDS Integers, Sequences, SequencesExt

CONSTANTS
    Nodes,              \* gossip nodes
    Signed,             \* the blocks the accounts have signed
    BlocksCapacity,     \* known_blocks_capacity
    RegistryCapacity,   \* nonce_registry_capacity
    MaxU64              \* u64::MAX, where the drop counters saturate

Key(b) == <<b.account, b.nonce>>
Keys == {Key(b) : b \in Signed}

ASSUME GossipAssumption ==
    /\ Signed \subseteq [account : Nat, nonce : Nat, variant : Nat]
    /\ IsFiniteSet(Signed)
    /\ BlocksCapacity \in Nat \ {0}
    /\ RegistryCapacity \in Nat \ {0}
    /\ MaxU64 \in Nat \ {0}

(* A NonceRegistry holds one block per key, a block that claims this key. *)
Registries ==
    {r \in UNION {[K -> Signed] : K \in SUBSET Keys} :
        \A k \in DOMAIN r : Key(r[k]) = k}
EmptyRegistry == [k \in {} |-> k]

(* A NonceConflict: the hash held locally and the one the remote offers. *)
Conflict == [local : Signed, remote : Signed]

VARIABLES
    known_blocks,           \* GossipNode.known_blocks
    nonce_registry,         \* GossipNode.nonce_registry
    nonce_registry_order,   \* GossipNode.nonce_registry_order
    pending_conflicts,      \* GossipNode.pending_conflicts, without repetitions
    known_blocks_dropped,   \* GossipNode.known_blocks_dropped
    nonce_registry_dropped  \* GossipNode.nonce_registry_dropped

nodeVars == <<known_blocks, nonce_registry, nonce_registry_order,
              pending_conflicts, known_blocks_dropped, nonce_registry_dropped>>

NodeTypeOK ==
    /\ known_blocks \in [Nodes -> Seq(Signed)]
    /\ nonce_registry \in [Nodes -> Registries]
    /\ nonce_registry_order \in [Nodes -> Seq(Keys)]
    /\ pending_conflicts \in [Nodes -> SUBSET Conflict]
    /\ known_blocks_dropped \in [Nodes -> 0 .. MaxU64]
    /\ nonce_registry_dropped \in [Nodes -> 0 .. MaxU64]

(* GossipNode::with_capacity *)
NodeInit ==
    /\ known_blocks = [n \in Nodes |-> <<>>]
    /\ nonce_registry = [n \in Nodes |-> EmptyRegistry]
    /\ nonce_registry_order = [n \in Nodes |-> <<>>]
    /\ pending_conflicts = [n \in Nodes |-> {}]
    /\ known_blocks_dropped = [n \in Nodes |-> 0]
    /\ nonce_registry_dropped = [n \in Nodes |-> 0]

(* Counters, sums and products stop at u64::MAX. *)
Saturating(x) == IF x > MaxU64 THEN MaxU64 ELSE x

KeyLess(k, m) == k[1] < m[1] \/ (k[1] = m[1] /\ k[2] < m[2])

-----------------------------------------------------------------------------
(* add_block.  A key that is held by a different block is a DoubleSpend error
   and changes nothing. *)

(* The (account, nonce) is held by this very block: Ok, and nothing is stored. *)
AlreadyKnown(n, b) ==
    /\ Key(b) \in DOMAIN nonce_registry[n]
    /\ nonce_registry[n][Key(b)] = b

(* Mutant of Claimable: a held (account, nonce) is overwritten. *)
ClaimableAgain(n, b) == ~AlreadyKnown(n, b)

Claimable(n, b) == Key(b) \notin DOMAIN nonce_registry[n]

(* How many of the oldest registry entries make room for the new one. *)
RegistryExcess(n) ==
    IF Cardinality(DOMAIN nonce_registry[n]) >= RegistryCapacity THEN 1 ELSE 0

(* Evict what is too much, then insert the new entry and the new block.  Every
   key of the order tracker is in the registry (OrderTracksRegistry), so the
   eviction never has a stale key to skip. *)
InsertBlock(n, b) ==
    LET order == nonce_registry_order[n]
        gone  == {order[i] : i \in 1 .. RegistryExcess(n)}
        kept  == DOMAIN nonce_registry[n] \ gone
        full  == Len(known_blocks[n]) >= BlocksCapacity
    IN /\ Claimable(n, b)
       /\ nonce_registry' = [nonce_registry EXCEPT ![n] =
             [k \in kept \cup {Key(b)} |-> IF k = Key(b) THEN b ELSE @[k]]]
       /\ nonce_registry_order' = [nonce_registry_order EXCEPT ![n] =
             Append(SubSeq(order, RegistryExcess(n) + 1, Len(order)), Key(b))]
       /\ nonce_registry_dropped' = [nonce_registry_dropped EXCEPT ![n] =
             Saturating(@ + RegistryExcess(n))]
       /\ known_blocks' = [known_blocks EXCEPT ![n] =
             Append(IF full THEN Tail(@) ELSE @, b)]
       /\ known_blocks_dropped' = [known_blocks_dropped EXCEPT ![n] =
             Saturating(@ + IF full THEN 1 ELSE 0)]
       /\ UNCHANGED pending_conflicts

-----------------------------------------------------------------------------
(* merge_registry *)

(* Mutant of Conflicts: only the holder of the larger hash reports it. *)
ConflictsOnOneSide(local, remote) ==
    {[local |-> local[k], remote |-> remote[k]] :
        k \in {j \in DOMAIN local \cap DOMAIN remote :
                  local[j].variant > remote[j].variant}}

(* The keys on which the two registries disagree. *)
Conflicts(local, remote) ==
    {[local |-> local[k], remote |-> remote[k]] :
        k \in {j \in DOMAIN local \cap DOMAIN remote : local[j] # remote[j]}}

(* Mutant of Merged: the remote's entry wins. *)
MergedOverwriting(local, remote) ==
    [k \in DOMAIN local \cup DOMAIN remote |->
        IF k \in DOMAIN remote THEN remote[k] ELSE local[k]]

(* merge_nonce_registries: local entries stay, unknown keys are taken over. *)
Merged(local, remote) ==
    [k \in DOMAIN local \cup DOMAIN remote |->
        IF k \in DOMAIN local THEN local[k] ELSE remote[k]]

(* The keys of K as a BTreeMap lists them. *)
InKeyOrder(K) ==
    CHOOSE s \in [1 .. Cardinality(K) -> K] :
        /\ ToSet(s) = K
        /\ \A i, j \in DOMAIN s : i < j => KeyLess(s[i], s[j])

(* Mutant of OrderAfterMerge: the keys of the remote are not tracked. *)
OrderWithoutRemote(n, remote) == nonce_registry_order[n]

(* The new keys enter the order tracker in the registry's key order. *)
OrderAfterMerge(n, remote) ==
    nonce_registry_order[n]
    \o InKeyOrder(DOMAIN remote \ DOMAIN nonce_registry[n])

(* merge_registry: after the merge the oldest entries are evicted until the
   registry fits. *)
MergeRegistry(n, remote) ==
    LET local  == nonce_registry[n]
        merged == Merged(local, remote)
        order  == OrderAfterMerge(n, remote)
        excess == IF Cardinality(DOMAIN merged) > RegistryCapacity
                  THEN Cardinality(DOMAIN merged) - RegistryCapacity ELSE 0
        gone   == {order[i] : i \in 1 .. excess}
    IN /\ nonce_registry' = [nonce_registry EXCEPT ![n] =
             [k \in DOMAIN merged \ gone |-> merged[k]]]
       /\ nonce_registry_order' = [nonce_registry_order EXCEPT ![n] =
             SubSeq(order, excess + 1, Len(order))]
       /\ nonce_registry_dropped' = [nonce_registry_dropped EXCEPT ![n] =
             Saturating(@ + excess)]
       /\ pending_conflicts' = [pending_conflicts EXCEPT ![n] =
             @ \cup Conflicts(local, remote)]
       /\ UNCHANGED <<known_blocks, known_blocks_dropped>>

(* drain_pending_conflicts *)
DrainConflicts(n) ==
    /\ pending_conflicts[n] # {}
    /\ pending_conflicts' = [pending_conflicts EXCEPT ![n] = {}]
    /\ UNCHANGED <<known_blocks, nonce_registry, nonce_registry_order,
                   known_blocks_dropped, nonce_registry_dropped>>

(* check_sync.  A remote registry that is empty counts as no neighbour. *)
CheckSync(local, remote) ==
    IF DOMAIN remote = {} THEN "NoNeighbors"
    ELSE IF local = remote THEN "Success" ELSE "Mismatch"
=============================================================================
