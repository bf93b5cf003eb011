----------------------------- MODULE GossipMesh -----------------------------
(***************************************************************************)
(* A mesh of gossip nodes that exchange blocks and nonce registries and    *)
(* assess how final the blocks are.                                        *)
(*                                                                         *)
(* Any signed block may reach any node at any time, again and again.  What *)
(* a node merges or compares with is a snapshot of the registry of some    *)
(* node, of Nodes or further away, and it may be long out of date: any     *)
(* registry of signed blocks.  Voters vote for blocks, those in Faulty for *)
(* conflicting ones too; a node assesses a block from any of the votes and *)
(* confirmations on the air, forged ones included.                         *)
(***************************************************************************)
EXTENDS Finality

CONSTANTS
    Voters,         \* the validators that vote
    Faulty,         \* those of them that may vote for two conflicting blocks
    Confirmations,  \* confirmations on the air
    Stray           \* votes on the air that are not the key holder's or a validator's

ASSUME MeshAssumption ==
    /\ Faulty \subseteq Voters /\ Voters \subseteq Validators
    /\ Confirmations \subseteq Evidence
    /\ Stray \subseteq {e \in Evidence : e.key \in Strangers \/ e.signer # e.key}

VARIABLES
    votes,      \* what the voters have signed
    heard,      \* history: blocks each node was handed or saw in a registry
    accepted,   \* history: blocks for which the node's add_block returned Ok
    drained     \* history: conflicts each node has handed to its consensus layer

meshVars == <<votes, heard, accepted, drained>>
vars == <<nodeVars, seen, meshVars>>

TypeOK ==
    /\ NodeTypeOK
    /\ LatchTypeOK
    /\ votes \subseteq Evidence
    /\ heard \in [Nodes -> SUBSET Signed]
    /\ accepted \in [Nodes -> SUBSET Signed]
    /\ drained \in [Nodes -> SUBSET Conflict]

Init ==
    /\ NodeInit
    /\ LatchInit
    /\ votes = {}
    /\ heard = [n \in Nodes |-> {}]
    /\ accepted = [n \in Nodes |-> {}]
    /\ drained = [n \in Nodes |-> {}]

(* Two blocks that claim the same (account, nonce). *)
Conflicting(b, c) == b # c /\ Key(b) = Key(c)

(* add_block stores the block. *)
Learn(n, b) ==
    /\ InsertBlock(n, b)
    /\ heard' = [heard EXCEPT ![n] = @ \cup {b}]
    /\ accepted' = [accepted EXCEPT ![n] = @ \cup {b}]
    /\ UNCHANGED <<seen, votes, drained>>

(* add_block returns Ok for a block whose (account, nonce) it already holds. *)
LearnAgain(n, b) ==
    /\ AlreadyKnown(n, b)
    /\ heard' = [heard EXCEPT ![n] = @ \cup {b}]
    /\ accepted' = [accepted EXCEPT ![n] = @ \cup {b}]
    /\ UNCHANGED <<nodeVars, seen, votes, drained>>

Merge(n, remote) ==
    /\ MergeRegistry(n, remote)
    /\ heard' = [heard EXCEPT ![n] = @ \cup {remote[k] : k \in DOMAIN remote}]
    /\ UNCHANGED <<seen, votes, accepted, drained>>

Drain(n) ==
    /\ DrainConflicts(n)
    /\ drained' = [drained EXCEPT ![n] = @ \cup pending_conflicts[n]]
    /\ UNCHANGED <<seen, votes, heard, accepted>>

Vote(v, b) == [key |-> v, block |-> b, signer |-> v]
VotersFor(b) == {v \in Voters : Vote(v, b) \in votes}

(* A voter outside Faulty votes for one block per (account, nonce). *)
CastVote(v, b) ==
    /\ v \in Faulty \/ \A c \in Signed : Conflicting(b, c) => v \notin VotersFor(c)
    /\ votes' = votes \cup {Vote(v, b)}
    /\ UNCHANGED <<nodeVars, seen, heard, accepted, drained>>

(* A node that has accepted b assesses it from the votes and confirmations that
   reached it and one peer's snapshot. *)
Assess(n, b, confirmations, received, remote) ==
    /\ b \in accepted[n]
    /\ AssessMonotonic(n, b, confirmations, CheckSync(nonce_registry[n], remote), received)
    /\ UNCHANGED <<nodeVars, meshVars>>

Next ==
    \/ \E n \in Nodes, b \in Signed : Learn(n, b) \/ LearnAgain(n, b)
    \/ \E n \in Nodes, remote \in Registries : Merge(n, remote)
    \/ \E n \in Nodes : Drain(n)
    \/ \E v \in Voters, b \in Signed : CastVote(v, b)
    \/ \E n \in Nodes, b \in Signed, remote \in Registries :
          \E confirmations \in SUBSET Confirmations, received \in SUBSET (votes \cup Stray) :
             Assess(n, b, confirmations, received, remote)

Spec == Init /\ [][Next]_vars

(* Every node in the end merges the registry any other node has. *)
Fairness == \A n, m \in Nodes : WF_vars(Merge(n, nonce_registry[m]))

FairSpec == Spec /\ Fairness

-----------------------------------------------------------------------------
(* Double spends at the gossip layer. *)

(* The order tracker lists the keys of the registry, each once, and neither
   collection outgrows its capacity: the eviction loop never meets a stale key
   and never gives up. *)
OrderTracksRegistry ==
    \A n \in Nodes :
        /\ ToSet(nonce_registry_order[n]) = DOMAIN nonce_registry[n]
        /\ Len(nonce_registry_order[n]) = Cardinality(DOMAIN nonce_registry[n])
        /\ Len(nonce_registry_order[n]) <= RegistryCapacity
        /\ Len(known_blocks[n]) <= BlocksCapacity

(* As long as a node has evicted nothing from its registry, it has accepted at
   most one block per (account, nonce), the one its registry holds. *)
OneBlockPerNonce ==
    \A n \in Nodes : nonce_registry_dropped[n] = 0 =>
        \A b \in accepted[n] : /\ Key(b) \in DOMAIN nonce_registry[n]
                               /\ nonce_registry[n][Key(b)] = b

(* What a node has read in other registries is in its own registry or was
   surfaced as a conflict, drained or not, as long as nothing was evicted. *)
Reported(n) == pending_conflicts[n] \cup drained[n]

NoConflictLost ==
    \A n \in Nodes : nonce_registry_dropped[n] = 0 =>
        \A b \in heard[n] :
            /\ Key(b) \in DOMAIN nonce_registry[n]
            /\ LET held == nonce_registry[n][Key(b)]
               IN held # b => [local |-> held, remote |-> b] \in Reported(n)

-----------------------------------------------------------------------------
(* Finality. *)

(* Two conflicting blocks are never both final at L2, at whichever nodes and
   whenever they were assessed. *)
L2Agreement ==
    \A n, m \in Nodes, b, c \in Signed :
        Conflicting(b, c) => ~(seen[n][b] = L2 /\ seen[m][c] = L2)

(* An L2 block has the votes of two thirds of the stake. *)
L2HasQuorum ==
    \A n \in Nodes, b \in Signed : seen[n][b] = L2 =>
        100 * SumOver(Stake, VotersFor(b)) >= 67 * SumOver(Stake, Validators)

(* Nodes with room for every key in the end know the same keys for good, and
   where they hold different blocks each has reported the other's: they are
   equal, and L1 within reach, unless a double spend keeps them apart that both
   know of. *)
Synchronised ==
    \A n, m \in Nodes :
        /\ DOMAIN nonce_registry[n] = DOMAIN nonce_registry[m]
        /\ Conflicts(nonce_registry[n], nonce_registry[m]) \subseteq Reported(n)
        /\ DOMAIN nonce_registry[m] # {} =>
             \/ CheckSync(nonce_registry[n], nonce_registry[m]) = "Success"
             \/ Conflicts(nonce_registry[n], nonce_registry[m]) # {}

MeshSynchronises == Cardinality(Keys) <= RegistryCapacity => <>[]Synchronised
=============================================================================
