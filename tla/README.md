# Arxia: a TLA+ model of the block lattice, its mesh and what is built on it

Arxia (the Rust workspace in `src/`) is an offline-first payment ledger. Every
account keeps its own chain of signed blocks, devices exchange blocks over a
radio mesh that loses, repeats and reorders them, every node admits blocks into
its own ledger, and partitions that meet again reconcile. There is no event loop
in the repository: the crates are state machines with synchronous handlers, and
an embedding calls those handlers in whatever order the radio delivers. What can
go wrong is therefore a matter of *orders of calls*, which is what these modules
explore.

## 1. Inventory

| Component | State | Operations | What is hard about it | What makes it correct |
|---|---|---|---|---|
| `AccountChain` (`arxia-lattice/chain.rs`) | own chain, balance, nonce, `consumed_sources`, vector clock | `open`, `send`, `receive` | state lives on the device and can be rolled back; `receive` does not ask whether the account is open | the chain built passes `verify_chain_integrity`; a Send is received once |
| `Ledger` (`arxia-lattice/ledger.rs`, `validation.rs`) | `chains`, `send_index`, `consumed_sends`, `total_supply` | `add_block` | blocks arrive in any order, twice or never; a refused block is not kept; several ledgers see different branches of a fork | admitted chains are whole and linked; money is conserved; a Send is credited once; ledgers converge |
| Gossip node (`arxia-gossip/node.rs`, `nonce_registry.rs`) | `known_blocks`, `nonce_registry` and its order tracker, `pending_conflicts`, drop counters | `add_block`, `merge_registry`, `drain_pending_conflicts`, `check_sync` | two bounded collections with separate evictions; stale snapshots | no double spend goes unnoticed or is invented; the order tracker stays in step |
| Finality (`arxia-finality/lib.rs`) | `FinalityLatch` | `assess_finality`, `assess_monotonic` | evidence differs by node and by moment; saturating quorum arithmetic | conflicting blocks are never both L2; an L2 block has its quorum |
| Reconciliation (`arxia-crdt/reconciliation.rs`, `pn_counter.rs`) | none (pure), over `PNCounter`s | `reconcile_partitions` | winners of different nonces need not form a chain; HashMap order; no memory of consumed Sends | the merged balances add up, and only a forked account can be credited twice |
| Delegation graph (`arxia-consensus/delegation.rs`) | edges, adjacency lists | `delegate`, `revoke` | two copies of the graph; a search in arbitrary order, bounded in depth; replayed revocations | no cycle; no edge refused for a false reason |
| Consensus (`conflict.rs`, `orv.rs`, `vote.rs`, `quorum.rs`) | none (pure); the caller's votes and block store | `cast_vote`, `verify_vote_known`, `collect_votes`, `detect_double_spend`, `resolve_conflict_orv` | votes overtake their blocks; a 5 % rule on two candidates; sums that wrap | all nodes come to the same winner, and only votes for it turn a dispute |
| Replicated data types (`or_set.rs`, `vector_clock.rs`, `pn_counter.rs`, `pruning.rs`) | tags, counters, clocks and when their entries were seen | `add`, `remove`, `increment`, `decrement`, `tick`, `merge`, `prune_vector_clock` | snapshots merged late, again and in any order; removal without tombstones; clocks that forget; saturation | each update counts once; an addition is undone only by a removal that saw it; clocks tell causality; replicas converge |
| Fragment reassembly (`arxia-transport/reassembly.rs`) | pending messages per peer | `feed`, with eviction | interleaved, repeated and contradicting fragments; a full table; late duplicates | only whole signed messages come out; no peer loses anything to another; what is repeated gets through |
| Gossip messages (`message.rs`, `signed_message.rs`, `serialization.rs`) | none | `validate`, `decrement_hops_for_relay`, `SignedGossipMessage`, `to_compact_bytes`, `from_compact_bytes`, `verify_block` | a relay changes what was signed; texts that do not survive hex; repeated and garbled copies | a node acts only on what another has said, and on the block its account signed |
| Simulated transport (`sim/simulated.rs`, `traits.rs`) | inbox, scheduled inbox, outbox, counters | `send`, `inject_message`, `inject_message_at`, `try_recv`, `try_recv_at` | full queues, latency, loss | the inbox holds the newest; what `send` took arrives |
| Relay (`arxia-relay`) | scores, receipts, rolling window | `record`, `slash`, `prune_rolling` | receipts and proofs delivered again | a message counts once; trust is earned by relaying only; a censored target stays flagged |
| Storage (`arxia-storage`) | store, staged operations; the map behind a `Mutex` | `get`, `put`, `delete`, `atomic_put_batch`, `begin_transaction`, `commit`, `rollback`; the same calls from several threads, with checksums | a commit applied one operation at a time in HashMap order; a poisoned lock; damaged bytes | a transaction reads its own writes and lands as a whole; answers are those of a sequential store |
| Contracts (`contracts/escrow`, `contracts/token-lock`) | escrow states, what was claimed of a schedule | `new`, `release`, `refund`, `claim` of a lock, `claim` of a schedule | release races the timeout; signatures presented again; clocks that go back; rounding; dates nobody checked | money moves on a party's signature for these terms only; portions add up; nothing stays locked |
| DID, protocol buffers, core, crypto, wasm, esp32, node binary | none | conversions, constants, stubs | none | not modelled |

How they interact. `AccountChain` signs blocks; `Ledger::add_block` admits
them; `GossipNode::add_block` remembers them and their `(account, nonce)`
entries, which `merge_registry` compares with other nodes'; a recorded conflict
goes to the consensus crate; `assess_finality` reads the result of comparing two
registries together with the validators' votes; `reconcile_partitions` takes the
blocks of two ledgers. A block travels in its compact form inside a signed gossip
message inside a signed transport message, which the reassembler puts together
from fragments. Storage, the contracts and the replicated data types are called by
the embedding and call nothing of the rest.

## 2. Modules

    Sums            sums over finite sets
    SumsProofs      lemmas about them                (EXTENDS Sums, TLAPS)
    Blocks          blocks, their hashes, verify_chain_integrity
    AccountChain    the accounts' devices            (EXTENDS Blocks)
    Ledger          Ledger::add_block                (EXTENDS Blocks)
    TokenLedger     abstract: what a ledger promises (EXTENDS Sums)
    Lattice         accounts + mesh + ledgers        (EXTENDS AccountChain, Ledger; INSTANCE TokenLedger)
    Partitions      reconcile_partitions, on two ledgers  (EXTENDS Lattice; INSTANCE PNCounter)
    LatticeProofs   theorems about the three above   (EXTENDS Partitions, SumsProofs)
    GossipNode      known blocks, nonce registry, conflicts
    Finality        assess_finality, FinalityLatch   (EXTENDS GossipNode, Sums)
    GossipMesh      nodes + validators               (EXTENDS Finality)
    GossipMeshProofs  theorems about GossipMesh      (EXTENDS GossipMesh, SumsProofs)
    Delegation      the delegation graph and its search
    Orv             votes of representatives and the resolution of conflicts (EXTENDS Sums)
    ConsensusProofs theorems about both              (EXTENDS Delegation, Orv, SumsProofs)
    RelayScoring    one node's score of one relay    (EXTENDS Sums)
    RelayScoringProofs  theorems about it            (EXTENDS RelayScoring, SumsProofs)
    Reassembly      abstract: what putting fragments together promises
    Reassembler     Reassembler::feed                (INSTANCE Reassembly)
    CompactBlocks   Block, its compact form, verify_block
    GossipMessages  messages, their envelope, relaying  (EXTENDS CompactBlocks)
    SimulatedTransport  one end of a link
    Radio           nodes that announce and relay blocks
                                       (EXTENDS GossipMessages, SimulatedTransport)
    TransportProofs theorems about both              (EXTENDS Reassembler, Radio, TLAPS)
    Escrow, TokenLock  the contracts
    Contracts       both, called by anybody          (EXTENDS Escrow, TokenLock)
    KeyValueStore   abstract: transactions on a private copy
    MemoryStorage   MemoryStorage and its transactions
    ConcurrentStorage  ConcurrentMemoryStorage, threads, checksums
    Stores          both stores                      (EXTENDS the two; INSTANCE KeyValueStore)
    DeviceProofs    theorems about stores and contracts  (EXTENDS Stores, Contracts, TLAPS)
    PNCounter       the counter, here and in Partitions  (EXTENDS Sums)
    Crdts           OR-Set, vector clock, pruning    (EXTENDS PNCounter)
    Replicas        replicas exchanging snapshots    (EXTENDS Crdts)
    ReplicasProofs  theorems about them              (EXTENDS Replicas, SumsProofs)
    MCLattice, MCGossipMesh, MCDelegation, MCReassembler, MCOrv, MCRelayScoring,
    MCContracts, MCStores, MCRadio
                    small instances for TLC (Replicas needs none)

A specification is called `Spec`, except where a proof module extends two of them:
`OrvSpec`, `RadioSpec` (and `RadioFairSpec`) and `ContractsSpec` are those of `Orv`,
`Radio` and `Contracts`.

### How state and actions correspond to the code

*Blocks.* A block is a record with the fields of `Block` that some code reads;
the timestamp, the signature and the encoded clock are left out. A hash is the
pair `<<account, tick>>`, the tick being that account's count of signatures: the
hash of a block is distinct from that of any other signed block (Blake3 is taken
as collision free, Ed25519 as unforgeable). Signing twice the very same content
in one millisecond, which would give two blocks one hash, is not modelled. The
`Revoke` kind is in `BlockType` but nothing in the repository signs one.

*AccountChain.* `Open`, `Send` and `Receive` are the three methods with their
guards in the order the code tests them; a refused call changes nothing and is
no step. `Rewind` restores a device to an earlier state, which the public fields of
`AccountChain` allow and the repository's own tests do to produce a double spend
(`ledger.rs:514`): the chain loses any number of its last blocks, Opens and Receives
included, balance and nonce go back with it, and of the Sends that the rest of the
chain has received the device remembers any part. All of it is a copy put back as a
whole, none of it is what the tests do (`consumed_sources.clear()`), and a part of it is a
crash between writing the block and writing the set (`arxia-storage/src/lib.rs:51`).
What the device signs from then on carries another timestamp and so another hash. Only
the accounts in `Forkers` are restored; the others are honest. `Ticks` bounds how
many blocks each account signs, `Grants` what it may be opened with.

*Ledger.* `AcceptBlock` is `add_block` returning Ok, with the supply, source and
continuity checks and all five writes; `RefuseBlock` is every path that returns
an error *after* `entry().or_default()`, which leaves an empty chain behind for an
account the ledger has not seen. The ledger does not check that the balance of a
block follows from its amount: that is the signer's code, and the money
properties rest on blocks being signed by `AccountChain`, as the composition does.

*Lattice.* The mesh is the set of all blocks signed so far. Any of them may be
handed to any ledger at any time, again and again or never.

*Partitions.* `reconcile_partitions` as an operator on two sets of blocks. Its
result is a *set* of reports: the code iterates over a `HashMap`, so the order of
the conflicts is any order. `HashRank` is an arbitrary order of hashes (the code's
tie break, "lowest hash wins", is meaningless beyond being one order).

*GossipNode.* One action per method. `InsertBlock` is `add_block` storing a block,
with both evictions, the saturating counters and the order tracker;
`AlreadyKnown` its early return; `MergeRegistry` the merge, with the conflicts it
records and the order in which new keys enter the tracker. Pending conflicts are a
set, which hides that the code's vector repeats them.

*Finality.* `AssessFinality` is `assess_finality` over any set of votes and
confirmations. `Relevant` are the two silent filters (other blocks, keys not
registered); a relevant vote that does not verify makes the call fail (`Misvoted`),
which leaves the latch alone and is no step. Each piece of evidence says whose key
signed it. Stakes do not change.

*GossipMesh.* A node merges or compares with any registry of signed blocks: the
snapshot of some node, near or far, old or new. `heard`, `accepted` and `drained`
are history variables the properties need; the code does not read them.

*Delegation.* `Delegate` is the start of `delegate`, up to the search; the search
`check_no_path_within_depth` is one action per entry taken from its work list
(`RefuseCycle`, `RefuseDepth`, `Skip`, `Expand`), because the order in which a
`HashSet` yields neighbours is arbitrary and decides what is visited at which
depth; `Insert` is the successful end. The call holds the graph for its whole
length, so no other call starts while a search runs. `Revoke` removes an edge
that exists; its nonce plays no role, as in the code, and neither do amounts.

*Orv.* `CastVote` is `cast_vote`, `Receive` a vote that passes `verify_vote_known`,
`Learn` a block entering the node's block store. `Resolve(n, b, c)` is
`resolve_conflict_orv` with `b` as the first argument, on the votes `collect_votes`
leaves; `Disputes` are the pairs to be resolved in the groups of
`detect_double_spend`, a `Revoke` left out because the call refuses it. Nothing in
the repository calls these functions outside their tests: that a node keeps each
vote once, and that it numbers its own votes, is what the documents ask of the
caller. Sums wrap and products saturate at `MaxU64`.

*RelayScoring.* One action per method of `RelayScore` that changes state. `Credit`
holds the three gates of `record_success`; the timestamped and per-target methods
share it, as in the code. Every call that takes a time takes any time: callers
have their own clocks. `+=` and `-=` wrap, because the release profile has no
overflow checks, and `saturating_sub` saturates. `journal` and `newest` are history
variables. `MinI64 .. MaxI64` is a range of 16 values, so that both ends
are reached.

*Reassembler.* `Store` and `Complete` are the two ways `feed` takes a fragment.
`Fragments` is everything the peers ever signed, contradictions included, and
any of it may be fed at any time, again or never. A call that refuses its
fragment, or has it already, changes nothing and is no step. `Reassembly` says the same without queues: a set of
fragments, from which a message disappears when it is handed over or when its
own peer opens one more than allowed; `Held` maps the queues to that set.

*Escrow, TokenLock, Contracts.* One action per method that changes state; a call
that returns an error is no step. An escrow's signatures cover its `Terms`, which is
what `identity_bytes` encodes: two escrows with the same terms share them. Every
call takes any time, because the caller passes the clock in. `VestedAt` is the
integer arithmetic of `vested_at`, with the intermediate product in 128 bits as
in the code. Both constructors of a schedule are there, the one that checks the dates
and the one that does not. `asked` is a history variable, the latest time a claim
was made for.

*MemoryStorage.* The staged operations are a map from keys to a value, to
`Nothing` (a delete) or to `Unstaged`. `Commit` begins applying them,
`ApplyStaged` applies any one of them, because `commit` iterates over a HashMap, and
`EndCommit` ends the call. `KeyValueStore` is the same store with a private copy
instead: a transaction begins by copying and ends by replacing. The refinement
maps the store in the middle of a commit to what it will be at its end. Nobody can
observe that middle, since the transaction holds the store by `&mut`.

*ConcurrentStorage.* A call starts, takes the lock, changes the map and returns, in
separate steps; a thread may panic inside, which poisons the lock for all.
Stored bytes are a checksum and a value, or too few bytes for a checksum, and may
be damaged at any time nobody holds the lock. `ideal` and `expected` are history: what
an undamaged map with indivisible calls would have held and answered. The
checksum is put on and taken off by the callers of this store in the code
(`wrap_with_checksum`, `unwrap_with_checksum`); the model has callers that do so.

*Replicas.* A replica updates its set, counter and clock, publishes snapshots, and
merges the snapshot another has published last, which may be old and may be merged
again. `Prune` is `prune_all`, with the cap and the expiry of the functions it calls. They
take a `BTreeMap` of `VectorClockEntry` that nothing in the repository fills:
`vector_clock.rs:8` says the CRDT clock has no cap, and CRDT.md alone prunes it. The
model follows CRDT.md there, with the clock's counters and the day each entry last
changed. A bound: nothing is pruned any more after the first pruning that
removed something. The two properties that speak of clocks (`CausalityIsExact`,
`ReplicasConverge`) promise nothing of the clocks from there on, so they stand with
or without this reading. `updates` and `seen` are history.

*Radio.* There is no dispatcher in the repository; the order of the steps is the one
`message.rs` lays down for a relayer. `CompactBlocks` tells texts from bytes, because
`destination` is text in `Block` and bytes on the wire. `Garbled` changes one field
of a message in any way the checks are meant to notice. Signatures are unforgeable, so
a garbled signature is just not one.

## 3. Runs

| Run | Instance | Shows |
|---|---|---|
| `lattice_forks` | 2 accounts (one restored to earlier states and signing 4 blocks, the other 2), 2 ledgers, Opens that together may exceed the supply, fair redelivery | `LedgerIntegrity`, `HonestPrefix`, `SingleCredit`, `Conservation`, `Convergence`, `UnopenedStaysOut`, `MergedBalances`, `MergedConservation`, the refinement of `TokenLedger`, `LedgersCatchUp` |
| `lattice_solvent` | one account forks, 3 blocks per account | violated: `HonestSolvent` |
| `mesh_evict` | 1 node, 3 accounts (one double spends), room for 1 block and 2 entries | `OrderTracksRegistry`, `OneBlockPerNonce`, `NoConflictLost` |
| `mesh_votes` | 2 nodes, a double spend, 3 validators, one of which votes twice, a forged vote and a stranger's, fair merging | `L2Agreement`, `L2HasQuorum`, `MeshSynchronises` |
| `orv_votes` | 2 nodes on either branch of a double spend, a revocation beside it, 2 representatives, 3 votes, dust, a forged vote | `OrderIrrelevant`, `TurnedByVotesOnly`, `ResolutionsAgree` |
| `delegation_graph` | 5 interchangeable holders, depth 3 | `NoDelegationCycle`, `DepthIsReal` |
| `reassembler_fragments` | 2 peers, one contradicting itself, 3 message ids, room for 2 messages a peer, fair repetition | `WholeMessages`, the refinement of `Reassembly`, `EveryMessageArrives` |
| `relay_scores` | 2 messages with 5 receipts each, 2 targets, clocks 0 to 3, 3 failures, slashings of -3, 2 and 7 | `NothingCountsTwice`, `RollingIsExact`, `TrustIsEarned`, `FlaggedUntilServed` |
| `finance_contracts` | 4 escrows (twins, a later timeout, a malformed name), a lock, 2 schedules of 7 units, clocks 0 to 3 | `SettledByConsent`, `ClaimsAddUp`, `NothingStaysLocked` |
| `kv_storage` | 2 keys, 2 values, 2 threads | the refinement of `KeyValueStore`, `AnswersAreSequential` |
| `replicas_crdts` | 2 replicas, 3 updates, a clock with room for 1 entry, expiry after a day | `CausalityIsExact`, `CounterIsExact`, `AddsSurvive`, `ReplicasConverge` |
| `wire_radio` | 2 nodes, 1 message begun (of six sorts), 1 fault, inbox 1, outbox 2, latency 1 | `HeardAsSaid`, `InboxIsNewest`, `SentIsHeard` |

No run checks that variables keep their types: where that takes an argument it is
proved (section 4), and elsewhere it says nothing about the code.

### Bounds, and why they are enough

* `MaxBlocks` and `Ticks` bound how often an account signs, forgotten signatures
  included. With three an account opens, sends, is restored and sends again; with
  four it opens, receives, forgets that, signs another block in the same place and
  receives the same Send on top of it, which is the shortest history whose branches
  a merge credits twice. The account that does not fork opens and pays or receives,
  with two. Two ledgers are the most any property relates. A payment is of one unit
  (`Payments`): with grants of one and two this tells a full balance from an empty
  one and from one that still covers a payment. Within these bounds the run has
  some 262 000 states.
* `MaxPerAccount` and `TotalSupply` stand for `MAX_BALANCE_PER_ACCOUNT` and
  `TOTAL_SUPPLY_MICRO_ARX`. In `lattice_forks` the supply is less than both
  accounts may open with, so the ceiling is reached; the properties that are
  false beyond it (`Convergence`, `LedgersCatchUp`, see section 5) say so in their
  statement (`SupplySuffices`), and histories with one Open and any number of
  forked payments satisfy that. In `lattice_solvent` it suffices for both.
  `MaxU64` lies above the supply and stands for the width of the checked sums.
* Capacities of one block and two registry entries, with three keys, make every
  eviction path run; the counters saturate at `MaxU64` = 1 in the same run.
* Three validators with 34, 33 and 33 % of the stake are the tightest split at which
  one faulty validator must be tolerated: with the faulty one any two others are
  a quorum, and no two quorums miss an honest validator.

* Five holders and a depth of three (`MAX_DELEGATION_DEPTH` is 8) are the smallest
  instance in which a search is refused for depth behind an edge, a node is met
  twice, and a cycle of more than two holders closes. The holders are symmetric.
* Room for two messages stands for `MAX_INFLIGHT_MESSAGES_PER_PEER` = 16. One peer
  has exactly two messages, the other opens three, so both the bound and the
  eviction behind it are reached; messages have one, two and three fragments;
  `evicted` saturates at `MaxU64` = 1. The contradicting peer sends two lengths
  for one message, two contents for one place, an empty message and a place out
  of range.

* One representative votes twice with a stake of 20, the other once with 21, 18 or 1:
  20 and 21 are within 5 % of each other and 20 and 18 are not, all three votes
  together exceed `MaxU64` = 50 and wrap, and 1 is dust (the threshold is 2).
* In `relay_scores` the window is one tick of a clock of four values, so events
  are inside, on the boundary and outside of it; the failures and slashings reach
  the bottom of the score's range and go beyond it. Each message has two genuine
  receipts, one with too many hops, one of another relay and one signed with
  another key.
* The schedules of `finance_contracts` pay 7 over 3 ticks, so that every portion is
  rounded, and one of them starts after its end; clocks reach the deadline and
  one tick beyond it, and stay behind it. Two escrows agree in all terms, a third
  differs in the timeout only.
* Two keys are what a commit in two steps needs, two threads what a race needs, two
  values what a wrong answer needs; nothing in the stores compares three of any.
* Three updates on two replicas are the shortest history in which one replica adds,
  the other removes what it has merged and the first adds again. Amounts of 2
  under a `MaxU64` of 3 saturate at the second update of a replica.
* One message in `wire_radio` is relayed back and forth until its hops are used up or the
  outbox is full, so that each bound of the link is met; there is a message that is
  too large for the receiver, one too large for the link and one with too many hops.

### Fairness

`Lattice`: a ledger that could accept some block of the mesh is eventually given
one (`WF` on accepting *some* block, per ledger). The code drops a block that is
out of order, so this is the redelivery an embedding must provide; without it
nothing catches up. `GossipMesh`: every node keeps merging every other node's
registry. `Reassembler`: a peer that sends complete, consistent messages, at most
`MaxInflight` of them, repeats every fragment until it is taken (`WF` per
fragment): the mesh loses fragments and nothing acknowledges them, so this too is
what an embedding must provide. `Orv`: blocks and votes that were sent are repeated
until a node takes them, for the same reason; representatives need not vote.
`Contracts`: whoever has money coming goes on signing and asking for it, with a clock
past the deadline; the other party need do nothing. `Replicas`: every replica goes on
publishing, and merging what the others have published. `Radio`: some step of the
link, a receiver or the clock is always taken in the end (`WF` on all of them together:
each uses up something, so none starves the rest); senders need not send and the
faulty carrier need do nothing. No fairness is assumed of accounts, devices,
validators, threads, or peers that contradict themselves.

## 4. Proofs

Every safety property and every action property that a passing run checks is proved
here for all values of the constants that satisfy the assumptions of the modules, and so
is each of the three refinements. What remains with TLC is liveness.

The assumptions on constants are named in the modules that declare them. They say that
sets the code keeps in maps and sets are finite (`FiniteAccounts`, `FiniteValidators`,
`FiniteTargets`, the replicas in `ReplicasAssumption`), that bounds are numbers and
capacities not zero, that the supply fits into the integers that hold it
(`BlocksAssumption`), that `HashRank` ranks the hashes (`HashRankAssumption`), that
hashes of blocks are distinct (`OrvAssumption`), and that the nodes of the radio are
those that have keys (`RadioAssumption`). Four theorems need more; each states it as a
hypothesis, and none of the runs' instances contradicts it:

* `NoSaturation`: a hundred times the registered stake fits into `u64`. The stakes are
  shares of a supply of 10^15. Where it fails, the two sides of the quorum comparison
  stick at the same number and the level says nothing (section 5).
* less than 34 % of the stake votes for both branches of a conflict: this is what a
  quorum of 67 % tolerates. It is a hypothesis about validators, not code.
* `HistoriesFit`: what an account's signed blocks can add up to fits into `i64`,
  where `PNCounter::value` saturates (an account would have to turn over the whole supply
  some nine thousand times to get there).

*Sums.* `SumOver` is the fold of the community modules: a table over the subsets of a
set, defined by CHOOSE. Induction over data is beyond the provers, but the library's fact
that the strict subsets of a finite set are well founded can be cited, and with it each
lemma of `SumsProofs` is proved by minimal counterexample: take a smallest set for which
it fails, remove an element, and the lemma holds of what is left. So the partial sums of
a table exist and are unique, sums can be split, extended, updated at a point,
compared and bounded, and do not depend on the order of summation.

### `LatticeProofs`: accounts, ledgers and their reconciliation

* `Invariance`: `Spec => []IndInv`
* `TypeCorrect`: `Spec => []TypeOK`; with it, no supply above the ceiling and no
  balance above the cap
* `LedgersKeepIntegrity`: what `add_block` checks block by block amounts to
  `verify_chain_integrity` of whole chains
* `SendsCreditedOnce`: `Spec => []SingleCredit`
* `HonestChainsPrefix`: `Spec => []HonestPrefix`
* `HistoriesShared`: `Spec => []SharedHistory`
* `LedgersImplementTokenLedger`: `Spec => LedgersAreTokenLedgers`
* `BooksBalance`, `MoneyIsConserved`: `Spec => []BooksInv`, `Spec => []Conservation`
* `LedgersConverge`: `Spec => []Convergence`
* `UnopenedAccountsStayOut`: `Spec => []UnopenedStaysOut`
* `MergesConserveValue`, `MergesAgreeWithChains`: `HistoriesFit` implies
  `Spec => []MergedConservation` and `Spec => []MergedBalances`

None of these is inductive by itself. `IndInv` adds what ties the parts together: every
hash on the mesh was signed with a tick already used, so a new block's hash is fresh; a
hash determines its block; the accounts' and the ledgers' chains consist of mesh blocks
placed at their nonce; each block on a chain names the hash of the one before it;
`send_index` is exactly the accepted Sends; `consumed_sends` is exactly the sources of
accepted Receives, each accepted once. `HonestPrefix` then follows because an account
that never rolls back has at most one signed block per nonce, and `SharedHistory`
because equal blocks name equal predecessors. Each action of `Next` has its lemma, and
under it each conjunct it can disturb its step.

Money needs a second invariant. `add_block` does not check that a balance follows from
its predecessor; the accounts see to that, so `BlockInv` carries it from the signer to
the ledger. Accepting an Open, a Send or a Receive maps to `Mint`, `Transfer` or `Settle`
of `TokenLedger`, and these preserve the sum, so `Conservation` is proved once, of the
abstract ledger, and holds of all that implement it.

`Convergence` is an argument by a minimal missing block. If two ledgers that are both
stuck differ, one of them holds a block the other lacks. Of all such blocks take one that
refers to no other of them (`Grounded`: a block refers only to blocks signed before it).
Its predecessor and the Send it receives are then at both ledgers, the supply
suffices, its place is free because they agree on forks and histories are shared, and the
ledger that lacks it could accept it.

Reconciliation does not see chains but two sets of blocks, and picks a winner per place.
The counters add up when each winning Receive has one winning Send behind it, and no Send
two Receives. Inside one ledger the latter is `SingleCredit`. Across two it is false of an
account that forks: restored to a state before a Receive it may receive the same Send
later on another branch, each ledger holds one of the two, and `reconcile_partitions` keeps
no set of consumed sources. `MergedConservation` therefore counts these credits
(`RepeatedReceives`) beside the Opens, and says that nothing else appears or vanishes and
that only Forkers have any. The proof charges every Send to the first of its winning
Receives, every further one to that sum, and closes it for the others by `RememberInv`: a
device that is never restored remembers the Send of every Receive on its chain and has
received none twice, and every ledger holds a prefix of that chain. Where no
places are contested, `MergedBalances` follows by adding up each account's longer
chain (`ChainAddsUp`), whose balances follow from its amounts.

### `GossipMeshProofs`: gossip and finality

* `Invariance`: `Spec => []MeshInv`
* `OneBlockForever`: `Spec => []OneBlockPerNonce`
* `ConflictsKept`: `Spec => []NoConflictLost`
* `VoteInvariance`: `Spec => []VoteInv`
* `L2IsBacked`: `NoSaturation` implies `Spec => []L2HasQuorum`
* `L2Agrees`: `NoSaturation` and the bound on faulty stake imply `Spec => []L2Agreement`
* `OrderInvariance`, `TrackerIsExact`, `MeshTypeCorrect`:
  `Spec => []OrderInv`, `Spec => []OrderTracksRegistry`, `Spec => []TypeOK`

Both registry properties speak of a node whose drop counter is zero. The counter
saturates, so the argument rests on its not coming back to zero
(`CounterStaysZero`): if it is zero after a step, nothing was evicted in it, and
the registry has grown by exactly the new block (`InsertFacts`) or is the merge
(`MergeFacts`). For this to hold the saturation bound must not be zero, which is an
assumption of `GossipNode`.

The order tracker is a list that both methods extend and trim at the front. `OrderInv`
says that it lists the registry's keys once each; for a merge this needs that the new keys
can be put into key order (`InKeyOrder`, a finite set sorted by a total order,
proved to exist by minimal counterexample again) and that trimming list and map by the
same number removes the same keys. Together with the capacities this is what lets the
eviction loops run without checking what they pop.

Agreement is the intersection of quorums. `VoteInv` keeps, for every block latched at
L2, that the votes signed so far are a quorum, forged and foreign ones not counted.
Two such quorums add up to 134 % of the stake, so 34 % voted for both branches,
more than `Faulty` holds: someone outside has too, which `VoteInv` excludes.

### `RelayScoringProofs`: the score of a relay

* `ScoreInvariance`, `ScoreTypeCorrect`: `Spec => []ScoreInv`, `Spec => []TypeOK`
* `NothingTwice`: `Spec => []NothingCountsTwice`
* `RollingExact`: `Spec => []RollingIsExact`
* `TrustEarned`: `Spec => TrustIsEarned`
* `FlaggedStays`: `Spec => FlaggedUntilServed`

`CountInv` bounds what the journal and the counts of all targets note by the two totals,
the successes by the size of the set of credited messages. `WindowInv` says that the
buffer is the end of the journal and that what was dropped had left the window by the
latest time any caller has named; so the sum over the buffer and the sum over the
journal agree on the window, however clocks disagree. `TrustEarned` splits on the
methods: a penalty that saturates only lowers the score, and the one call that raises it
without relaying anything is a failure that wraps at the bottom of its range (section 5).

### `ConsensusProofs`: delegation and votes

* `Invariance`: `Spec => []IndInv`
* `AdjacencyExact`: `Spec => []AdjacencyMatchesEdges`
* `NeverACycle`: `Spec => []NoDelegationCycle`, whatever the order of the searches
* `RefusedCyclesAreReal`, `RefusedDepthsAreReal`: an edge is refused as a cycle only
  when it would close one, and as too deep only when a chain that long exists
* `VotesInvariance`: `OrvSpec => []VotesInv`
* `OrderDoesNotMatter`: `OrvSpec => []OrderIrrelevant`
* `OnlyVotesTurn`: `OrvSpec => TurnedByVotesOnly`

The invariant of the graph follows the search: the representative and every neighbour of
a visited node are visited or on the work list, the delegator is not visited, and
what is on the work list is reached by a walk of as many hops as is noted beside
it. When the work list is empty the visited nodes are closed under edges, so the
delegator cannot be reached and the new edge closes no cycle.

A node's votes are a finite set that only grows, so its sums are defined and grow.
`resolve_conflict_orv` asks whether the difference of two stakes exceeds 5 % of their sum,
which is 19x > 21y for the larger x. `OrderDoesNotMatter` holds even where sums wrap:
the comparison is symmetric and the tie break is a strict order of hashes.
`OnlyVotesTurn` is monotonicity: a larger x keeps the inequality, so a lead that is
lost was lost to new votes for the other side. It is false where a sum wraps or a
product saturates, which is why the property asks for `InRange` before and after.

### `TransportProofs`: fragments and messages

* `Invariance`: `Spec => []IndInv`: queues within the bound, one entry per
  message, `filled` equal to the number of full slots, every slot signed
* `OnlyWholeMessages`: `Spec => []WholeMessages`
* `Refinement`: `Spec => MeetsReassembly`
* `RadioInvariance`: `RadioSpec => []RadioInv`
* `OnlyTheSaidIsHeard`: `RadioSpec => []HeardAsSaid`
* `InboxKeepsTheNewest`: `RadioSpec => []InboxIsNewest`

`WholeMessages` needs the counter: the code decides by `filled == total` and then
flattens the slots, skipping empty ones. The refinement adds what an entry holds
(`Parts`): opening an entry takes away exactly the parts of the one evicted, if
any, an accepted fragment adds itself to the parts of its entry, and the counter
reaches the length exactly when the parts cover it.

`RadioInv` says of everything on the air, in every outbox and in every inbox that each
signature in it (of the transport message, of the gossip message, of the block) that
verifies was made by the node it names. Garbling changes a field or removes a
signature and therefore keeps this. The proof shows what the envelope is for: the hop
count is among the signed bytes, so an envelope passed on with one hop less under its
old signature verifies nowhere, and what a node acts on was said by its sender with these
very hops. The inbox is tied to what was injected: it is the last of it, and what is
missing in front is what was received plus what was dropped.

### `DeviceProofs`: storage and contracts

* `Refinement`: `Spec => MeetsKeyValueStore`
* `SequentialAnswers`: `Spec => []AnswersAreSequential`
* `ContractsTypeCorrect`: `ContractsSpec => []ContractsTypeOK`; with it, no schedule pays
  more than its total
* `EscrowsSettledByConsent`: `ContractsSpec => []SettledByConsent`
* `PortionsAddUp`: `ContractsSpec => []ClaimsAddUp`

The refinement needs that staged operations exist only in a transaction or a
commit, and that a view is unchanged by applying one of the operations it contains. The
second needs that at most one thread is inside, that what it has found is still there,
and that stored bytes are absent exactly when the ideal map has nothing and carry a
matching checksum only with the right value.

`PortionsAddUp` rests on `VestedMonotonic`: what has vested grows with time, through
the rounded division and for schedules with inconsistent dates too. A claim behind an
earlier one then finds nothing to pay, and one ahead of it pays the difference.

### `ReplicasProofs`: replicated data types

* `ReplicaInvariance`, `ReplicasTypeCorrect`: `Spec => []ReplicaInv`, `Spec => []TypeOK`
* `CausalityExact`: `Spec => []CausalityIsExact`
* `AdditionsSurvive`: `Spec => []AddsSurvive`
* `CountersExact`: `Spec => []CounterIsExact`

One predicate, `View`, says what a set, a counter and a clock must be for the set of
updates behind them: of each replica its first so many; in each half of the counter the
saturated sum; in the clock their number, until something was pruned; of each element the
tags added and not removed since. It holds of replicas and of snapshots in the mail, and
merging two views gives the view of the union (`ViewsJoin` and its parts): the first so
many of two replicas' updates are again the first so many, and a maximum of saturated
sums of nested histories is the larger one.

### Model-checked only

The liveness properties `LedgersCatchUp`, `MeshSynchronises`, `EveryMessageArrives`,
`ResolutionsAgree`, `NothingStaysLocked`, `ReplicasConverge` and `SentIsHeard` rest on
fairness and ENABLED, which are out of the prover's reach. `HonestSolvent` is false
(section 5). What fairness is for is checked by the same runs.

## 5. Where the code and its documents disagree

One disagreement has a run:

* `reconciliation.rs:249`: an honest account that spent what it received from a
  double spender is found negative, and the reconciliation of everybody fails,
  while BLOCK_LATTICE.md:61 says double spends affect only the offender
  (`lattice_solvent`).

Others met while modelling have none.

*Lattice.* The tests of the reconciliation speak of "value conservation across the
partition merge" and of "no phantom value" (`reconciliation.rs:1011` and 1018), and an
account that forks makes some: it receives a Send, is restored to before that, signs
another block in that place and receives the Send again on top of it. Each ledger takes
one branch, and the merge, which picks a winner per nonce and asks nobody what has been
consumed (`reconciliation.rs:189`), may credit both Receives. `MergedConservation` says how
much. A device that receives before it is opened builds a chain that starts with
a Receive, which no ledger takes, and can no longer be opened (`chain.rs:332`,
against `ledger.rs:127`; `examples/offline_payment` does it; `UnopenedStaysOut` says
what follows). `send` takes any text as a
destination: a key in upper case passes the check against paying oneself and has
another hash after the round trip through the compact form, and a text that is not
hex cannot be serialised. A ledger with one branch of a double spend refuses for ever
the Receive of the other branch and all later blocks of its honest recipient
(`ledger.rs:180`, BLOCK_LATTICE.md:61). When the Opens together exceed the supply, which
of them a ledger admits depends on the order blocks of different accounts arrive
in (`ledger.rs:162`, BLOCK_LATTICE.md:58), and two ledgers that admitted different
ones reconcile to more than the supply (`reconciliation.rs:178`, TOKENOMICS.md:53). The
conflicts of a report come in HashMap order (`reconciliation.rs:123`,
FINALITY_MODEL.md:432, which promises identical lists).

*Gossip and finality.* If a merge brings a block's registry entry before the block
itself, `add_block` answers Ok and does not store it (`node.rs:138`, against
`node.rs:107`). A recorded conflict does not keep a block from L1, because
`assess_finality` reads one comparison only (`lib.rs:405`, FINALITY_MODEL.md:247); L1
compares whole registries and not the block's account (`nonce_registry.rs:89`,
FINALITY_MODEL.md:239); the quorum products saturate, and from there on do not compare
(`lib.rs:398`, FINALITY_MODEL.md:268). An announcement holds up to 64 blocks, but
`from_compact_bytes` reads the first only; the relayer's steps in `message.rs` do not
mention that the hop count is signed, so that what is relayed must be signed anew.

*Consensus.* The nonce of a revocation is called monotonic per pair of holders, and
nothing compares it with an earlier one, so a revocation replayed after the edge was
delegated anew removes it again (`delegation.rs:317`, against `delegation.rs:147`). The
revocation's key is said to match its delegator (`delegation.rs:139`), and nothing compares
the two. The cap on the depth of a chain is looked for onwards from the
representative only: a chain that grows at its far end gets longer than
`MAX_DELEGATION_DEPTH` (`delegation.rs:264`, against `delegation.rs:76`). Of
three blocks at one nonce each can beat the next (stakes of 100, 105 and 111, hashes
in this order: the first two pairs are within 5 % and go to the smaller hash, the last
does not), so the winner depends on the order of the comparisons (`conflict.rs:127`,
FINALITY_MODEL.md:366, which calls the cascade deterministic).

*Transport.* The outbox is to be drained with `sent_messages`, which lends a slice and
drains nothing, so from its capacity on every `send` returns BackPressure
(`simulated.rs:20`). `try_recv_at` looks at the head of the queue only: a message that is due
waits behind one that is not.

*Relay.* A failure recorded after slashing has brought a score to `i64::MIN` wraps it
to the top (`scoring.rs:288`, against `scoring.rs:304`); a slashing proof may be applied
any number of times, and `rolling_score` does not see slashings at all.

*Replicated data types.* An element removed at one replica comes back with the next
merge of a replica that still has it. CRDT.md says a clock over its cap loses its
oldest entries, and the code removes those with the lowest counters; the promise
that pruning expired entries keeps the causal order holds between clocks that were
both pruned, not against one that was not.

*Storage and contracts.* The documentation of `commit` says a panic never leaves a
mixture behind, but the staged operations are applied one by one
(`arxia-storage/src/lib.rs:68`). `refund` needs a well-formed recipient, which its
documented errors do not mention, so the money of an escrow with a malformed
recipient can never leave it; escrows with equal terms share their signatures.

## 6. Plan

Done: the lattice and its reconciliation, gossip and finality, the delegation graph,
voting, fragment reassembly, relay scores, the contracts, both stores, the
replicated data types, and the way of a block over the radio; every safety
property and action property of the passing runs, and every refinement, is a theorem.

Next, in this order:

1. Delegation: the amounts of the edges and the totals made of them (`RefusedDepthsAreReal`
   and the rest do not change; the totals become sums, for which `SumsProofs` is there).
2. A refinement for the store that threads share, in place of the history variables
   `ideal` and `expected`; the votes of `Orv` as an abstract set that only grows.
3. Lemmas about single operators that now stand inside larger proofs: that
   `from_compact_bytes` undoes `to_compact_bytes` where a destination is hex, and that
   merging counters, clocks and sets is commutative, associative and idempotent.

## 7. Not modelled

* `check_quorum` (`arxia-consensus/src/quorum.rs`): a comparison, in integers, of
  numbers its caller has counted; nothing calls it.
* The amounts of delegations, the totals and snapshots made of them: sums nothing
  else in the repository reads. The graph and its search are modelled.
* DID identifiers, the validation of protocol buffer fields, and generated code:
  conversions and checks of single strings, without state.
* The wrappers of Blake3, Ed25519, ChaCha20 and SLIP-39: hashes are taken as
  collision free and signatures as unforgeable.
* The pseudo-random generator of the simulated transport: a loss is a choice.
* The node binary, which has no event loop; the wasm and esp32 crates, which are
  stubs and stack budgets; benchmarks.
* More than half of the lines of the crates are unit tests at the end of the source
  files, and half of the rest are comments; the definitions stand for about seven tenths
  of the lines of code that remain. The tests were read for what callers do (devices
  rolled back, clocks passed in, receipts repeated) and are not modelled.
