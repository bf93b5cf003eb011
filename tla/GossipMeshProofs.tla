-------------------------- MODULE GossipMeshProofs --------------------------
(***************************************************************************)
(* Proofs about the gossip mesh, for any nodes, any finite set of signed   *)
(* blocks and any capacities: what a node's registry promises as long as   *)
(* it has not had to evict anything, that finality never goes back, that   *)
(* L2 means a quorum of the stake and two quorums agree, and that the      *)
(* order tracker lists exactly what the registry holds.                    *)
(*                                                                         *)
(* The drop counter saturates, so that it is zero is the only way a node   *)
(* can tell that nothing was evicted: the argument rests on the counter    *)
(* never returning to zero.                                                *)
(***************************************************************************)
EXTENDS GossipMesh, SumsProofs, SequenceTheorems

(* What the two registry properties need of the types. *)
MeshTypes ==
    /\ nonce_registry \in [Nodes -> Registries]
    /\ nonce_registry_dropped \in [Nodes -> 0 .. MaxU64]
    /\ pending_conflicts \in [Nodes -> SUBSET Conflict]
    /\ heard \in [Nodes -> SUBSET Signed]
    /\ accepted \in [Nodes -> SUBSET Signed]
    /\ drained \in [Nodes -> SUBSET Conflict]
    /\ LatchTypeOK

MeshInv == MeshTypes /\ OneBlockPerNonce /\ NoConflictLost

-----------------------------------------------------------------------------
(* Registries. *)

LEMMA RegistryFacts ==
    ASSUME NEW r \in Registries
    PROVE  /\ DOMAIN r \subseteq Keys
           /\ IsFiniteSet(DOMAIN r)
           /\ \A k \in DOMAIN r : r[k] \in Signed /\ Key(r[k]) = k
<1>1. DOMAIN r \subseteq Keys /\ \A k \in DOMAIN r : r[k] \in Signed /\ Key(r[k]) = k
  BY DEF Registries
<1>2. IsFiniteSet(Keys)
  <2> DEFINE f == [b \in Signed |-> Key(b)]
  <2>1. f \in Surjection(Signed, Keys)
    BY DEF Keys, Surjection
  <2> HIDE DEF f
  <2> QED
    BY <2>1, GossipAssumption, FS_Surjection
<1> QED
  BY <1>1, <1>2, FS_Subset

(* Any function from keys to blocks that claim them is a registry. *)
LEMMA RegistryMade ==
    ASSUME NEW K \in SUBSET Keys, NEW r \in [K -> Signed],
           \A k \in K : Key(r[k]) = k
    PROVE  r \in Registries
BY DEF Registries

LEMMA MergedIsRegistry ==
    ASSUME NEW local \in Registries, NEW remote \in Registries
    PROVE  /\ Merged(local, remote) \in Registries
           /\ DOMAIN Merged(local, remote) = DOMAIN local \cup DOMAIN remote
           /\ Cardinality(DOMAIN Merged(local, remote)) \in Nat
<1>1. DOMAIN Merged(local, remote) = DOMAIN local \cup DOMAIN remote
  BY DEF Merged
<1>2. Merged(local, remote) \in [DOMAIN local \cup DOMAIN remote -> Signed]
      /\ \A k \in DOMAIN local \cup DOMAIN remote : Key(Merged(local, remote)[k]) = k
  BY RegistryFacts DEF Merged
<1>3. Merged(local, remote) \in Registries
  BY <1>2, RegistryFacts, RegistryMade
<1> QED
  BY <1>1, <1>3, RegistryFacts, FS_CardinalityType

LEMMA ConflictsTyped ==
    ASSUME NEW local \in Registries, NEW remote \in Registries
    PROVE  Conflicts(local, remote) \in SUBSET Conflict
BY RegistryFacts DEF Conflicts, Conflict

(* A counter that is zero after some were added was zero, and none were. *)
LEMMA CounterStaysZero ==
    ASSUME NEW d \in 0 .. MaxU64, NEW e \in Nat
    PROVE  /\ Saturating(d + e) \in 0 .. MaxU64
           /\ Saturating(d + e) = 0 => d = 0 /\ e = 0
BY GossipAssumption DEF Saturating

-----------------------------------------------------------------------------
(* Blocks and registries that arrive. *)

(* add_block stores a block: if nothing was ever evicted, the registry has grown
   by this one entry. *)
LEMMA InsertFacts ==
    ASSUME MeshTypes, NEW n \in Nodes, NEW b \in Signed, InsertBlock(n, b)
    PROVE  /\ nonce_registry' \in [Nodes -> Registries]
           /\ nonce_registry_dropped' \in [Nodes -> 0 .. MaxU64]
           /\ pending_conflicts' = pending_conflicts
           /\ \A m \in Nodes \ {n} : /\ nonce_registry'[m] = nonce_registry[m]
                                     /\ nonce_registry_dropped'[m] = nonce_registry_dropped[m]
           /\ nonce_registry_dropped'[n] = 0 =>
                /\ nonce_registry_dropped[n] = 0
                /\ DOMAIN nonce_registry'[n] = DOMAIN nonce_registry[n] \cup {Key(b)}
                /\ \A k \in DOMAIN nonce_registry[n] :
                      nonce_registry'[n][k] = nonce_registry[n][k]
                /\ nonce_registry'[n][Key(b)] = b
<1> DEFINE local == nonce_registry[n]
           gone  == {nonce_registry_order[n][i] : i \in 1 .. RegistryExcess(n)}
           kept  == DOMAIN local \ gone
           after == [k \in kept \cup {Key(b)} |-> IF k = Key(b) THEN b ELSE local[k]]
<1>1. RegistryExcess(n) \in Nat
  BY DEF RegistryExcess
<1>2. local \in Registries /\ Key(b) \in Keys /\ Key(b) \notin DOMAIN local
  BY DEF MeshTypes, Keys, InsertBlock, Claimable
<1>3. after \in Registries
  <2>1. kept \cup {Key(b)} \subseteq Keys
    BY <1>2, RegistryFacts
  <2>2. after \in [kept \cup {Key(b)} -> Signed]
        /\ \A k \in kept \cup {Key(b)} : Key(after[k]) = k
    BY <1>2, RegistryFacts
  <2> HIDE DEF after, kept
  <2> QED
    BY <2>1, <2>2, RegistryMade
<1>4. nonce_registry' = [nonce_registry EXCEPT ![n] = after]
      /\ nonce_registry_dropped' = [nonce_registry_dropped EXCEPT ![n] =
            Saturating(@ + RegistryExcess(n))]
      /\ pending_conflicts' = pending_conflicts
  BY DEF InsertBlock
<1>5. RegistryExcess(n) = 0 => gone = {}
  OBVIOUS
<1>6. RegistryExcess(n) = 0 =>
         /\ DOMAIN after = DOMAIN local \cup {Key(b)}
         /\ \A k \in DOMAIN local : after[k] = local[k]
         /\ after[Key(b)] = b
  BY <1>2, <1>5
<1> HIDE DEF after
<1> QED
  BY <1>1, <1>3, <1>4, <1>6, CounterStaysZero DEF MeshTypes

(* merge_registry: if nothing was ever evicted, the registry is the merge. *)
LEMMA MergeFacts ==
    ASSUME MeshTypes, NEW n \in Nodes, NEW remote \in Registries, MergeRegistry(n, remote)
    PROVE  /\ nonce_registry' \in [Nodes -> Registries]
           /\ nonce_registry_dropped' \in [Nodes -> 0 .. MaxU64]
           /\ pending_conflicts' = [pending_conflicts EXCEPT ![n] =
                 @ \cup Conflicts(nonce_registry[n], remote)]
           /\ \A m \in Nodes \ {n} : /\ nonce_registry'[m] = nonce_registry[m]
                                     /\ nonce_registry_dropped'[m] = nonce_registry_dropped[m]
           /\ nonce_registry_dropped'[n] = 0 =>
                /\ nonce_registry_dropped[n] = 0
                /\ nonce_registry'[n] = Merged(nonce_registry[n], remote)
<1> DEFINE local  == nonce_registry[n]
           merged == Merged(local, remote)
           order  == OrderAfterMerge(n, remote)
           excess == IF Cardinality(DOMAIN merged) > RegistryCapacity
                     THEN Cardinality(DOMAIN merged) - RegistryCapacity ELSE 0
           gone   == {order[i] : i \in 1 .. excess}
           after  == [k \in DOMAIN merged \ gone |-> merged[k]]
<1>1. local \in Registries
  BY DEF MeshTypes
<1>2. merged \in Registries /\ Cardinality(DOMAIN merged) \in Nat
  BY <1>1, MergedIsRegistry
<1>3. excess \in Nat
  BY <1>2, GossipAssumption
<1>4. nonce_registry' = [nonce_registry EXCEPT ![n] = after]
      /\ nonce_registry_dropped' = [nonce_registry_dropped EXCEPT ![n] = Saturating(@ + excess)]
      /\ pending_conflicts' = [pending_conflicts EXCEPT ![n] = @ \cup Conflicts(local, remote)]
  BY DEF MergeRegistry
<1> HIDE DEF merged, order, excess
<1>5. after \in Registries
  <2>1. DOMAIN merged \ gone \subseteq Keys
    BY <1>2, RegistryFacts
  <2>2. after \in [DOMAIN merged \ gone -> Signed]
        /\ \A k \in DOMAIN merged \ gone : Key(after[k]) = k
    BY <1>2, RegistryFacts
  <2> HIDE DEF after, gone
  <2> QED
    BY <2>1, <2>2, RegistryMade
<1>6. excess = 0 => after = merged
  <2> SUFFICES ASSUME excess = 0 PROVE after = merged
    OBVIOUS
  <2>1. gone = {}
    OBVIOUS
  <2> QED
    BY <1>2, <2>1 DEF Registries
<1> HIDE DEF after
<1>7. nonce_registry' \in [Nodes -> Registries]
      /\ nonce_registry_dropped' \in [Nodes -> 0 .. MaxU64]
      /\ (nonce_registry_dropped'[n] = 0 => nonce_registry_dropped[n] = 0 /\ excess = 0)
  BY <1>3, <1>4, <1>5, CounterStaysZero DEF MeshTypes
<1> QED
  BY <1>4, <1>6, <1>7 DEF merged, MeshTypes

-----------------------------------------------------------------------------
(* The invariant. *)

LEMMA InitInv == Init => MeshInv
<1>1. EmptyRegistry \in Registries
  BY RegistryMade DEF EmptyRegistry, Registries
<1> QED
  BY <1>1, GossipAssumption
     DEF Init, NodeInit, LatchInit, MeshInv, MeshTypes, LatchTypeOK, Levels, Pending, L2,
         OneBlockPerNonce, NoConflictLost

(* The latch only climbs. *)
LEMMA LatchClimbs ==
    ASSUME LatchTypeOK, NEW n \in Nodes, NEW b \in Signed,
           NEW confirmations, NEW sync, NEW received,
           AssessMonotonic(n, b, confirmations, sync, received)
    PROVE  /\ LatchTypeOK'
           /\ \A m \in Nodes, c \in Signed : seen'[m][c] >= seen[m][c]
<1>1. AssessFinality(b, confirmations, sync, received) \in Levels
  BY DEF AssessFinality, Levels, Pending, L0, L1, L2
<1>2. PICK s \in Levels : seen' = [seen EXCEPT ![n][b] = IF s > @ THEN s ELSE @]
  BY <1>1 DEF AssessMonotonic
<1> QED
  BY <1>2 DEF LatchTypeOK, Levels, Pending, L2

LEMMA StepInv ==
    ASSUME MeshInv, [Next]_vars
    PROVE  MeshInv'
<1> USE DEF MeshInv
<1>1. ASSUME NEW n \in Nodes, NEW b \in Signed, Learn(n, b)
      PROVE  MeshInv'
  <2>1. InsertBlock(n, b)
        /\ heard' = [heard EXCEPT ![n] = @ \cup {b}]
        /\ accepted' = [accepted EXCEPT ![n] = @ \cup {b}]
        /\ seen' = seen /\ drained' = drained
    BY <1>1 DEF Learn
  <2>2. MeshTypes'
    BY <2>1, InsertFacts DEF MeshTypes, LatchTypeOK
  <2>3. OneBlockPerNonce'
    BY <2>1, InsertFacts DEF OneBlockPerNonce, MeshTypes
  <2>4. ASSUME NEW m \in Nodes, nonce_registry_dropped'[m] = 0, NEW c \in heard'[m]
        PROVE  /\ Key(c) \in DOMAIN nonce_registry'[m]
               /\ nonce_registry'[m][Key(c)] # c =>
                     [local |-> nonce_registry'[m][Key(c)], remote |-> c] \in Reported(m)'
    <3>1. Reported(m)' = Reported(m)
      BY <2>1, InsertFacts DEF Reported
    <3>2. CASE c \in heard[m]
      <4>1. nonce_registry_dropped[m] = 0
            /\ DOMAIN nonce_registry[m] \subseteq DOMAIN nonce_registry'[m]
            /\ \A k \in DOMAIN nonce_registry[m] :
                  nonce_registry'[m][k] = nonce_registry[m][k]
        <5>1. CASE m = n
          BY <2>1, <2>4, <5>1, InsertFacts
        <5>2. CASE m # n
          BY <2>1, <2>4, <5>2, InsertFacts
        <5> QED
          BY <5>1, <5>2
      <4> QED
        BY <3>1, <3>2, <4>1 DEF NoConflictLost
    <3>3. CASE c \notin heard[m]
      <4>1. m = n /\ c = b
        BY <2>1, <2>4, <3>3 DEF MeshTypes
      <4> QED
        BY <2>1, <2>4, <4>1, InsertFacts
    <3> QED
      BY <3>2, <3>3
  <2>5. NoConflictLost'
    BY <2>4 DEF NoConflictLost
  <2> QED
    BY <2>2, <2>3, <2>5
<1>2. ASSUME NEW n \in Nodes, NEW b \in Signed, LearnAgain(n, b)
      PROVE  MeshInv'
  BY <1>2 DEF LearnAgain, AlreadyKnown, nodeVars, MeshTypes, LatchTypeOK, OneBlockPerNonce,
              NoConflictLost, Reported
<1>3. ASSUME NEW n \in Nodes, NEW remote \in Registries, Merge(n, remote)
      PROVE  MeshInv'
  <2>1. MergeRegistry(n, remote)
        /\ heard' = [heard EXCEPT ![n] = @ \cup {remote[k] : k \in DOMAIN remote}]
        /\ accepted' = accepted /\ seen' = seen /\ drained' = drained
    BY <1>3 DEF Merge
  <2>2. nonce_registry[n] \in Registries
    BY DEF MeshTypes
  <2>3. MeshTypes'
    <3>1. Conflicts(nonce_registry[n], remote) \subseteq Conflict
          /\ {remote[k] : k \in DOMAIN remote} \subseteq Signed
      BY <2>2, ConflictsTyped, RegistryFacts
    <3>2. pending_conflicts' \in [Nodes -> SUBSET Conflict]
          /\ heard' \in [Nodes -> SUBSET Signed]
      <4>1. pending_conflicts' = [pending_conflicts EXCEPT ![n] =
               @ \cup Conflicts(nonce_registry[n], remote)]
        BY <2>1, MergeFacts
      <4> QED
        BY <2>1, <3>1, <4>1 DEF MeshTypes
    <3>3. nonce_registry' \in [Nodes -> Registries]
          /\ nonce_registry_dropped' \in [Nodes -> 0 .. MaxU64]
      BY <2>1, MergeFacts
    <3> QED
      BY <2>1, <3>2, <3>3 DEF MeshTypes, LatchTypeOK
  <2>4. ASSUME nonce_registry_dropped'[n] = 0
        PROVE  /\ nonce_registry_dropped[n] = 0
               /\ DOMAIN nonce_registry'[n] = DOMAIN nonce_registry[n] \cup DOMAIN remote
               /\ \A k \in DOMAIN nonce_registry[n] :
                     nonce_registry'[n][k] = nonce_registry[n][k]
               /\ \A k \in DOMAIN remote \ DOMAIN nonce_registry[n] :
                     nonce_registry'[n][k] = remote[k]
    <3>1. nonce_registry_dropped[n] = 0
          /\ nonce_registry'[n] = Merged(nonce_registry[n], remote)
      BY <2>1, <2>4, MergeFacts
    <3> QED
      BY <3>1 DEF Merged
  <2>5. OneBlockPerNonce'
    BY <2>1, <2>4, MergeFacts DEF OneBlockPerNonce, MeshTypes
  <2>6. ASSUME NEW m \in Nodes, nonce_registry_dropped'[m] = 0, NEW b \in heard'[m]
        PROVE  /\ Key(b) \in DOMAIN nonce_registry'[m]
               /\ nonce_registry'[m][Key(b)] # b =>
                     [local |-> nonce_registry'[m][Key(b)], remote |-> b] \in Reported(m)'
    <3>1. Reported(m) \subseteq Reported(m)'
          /\ (m = n => Conflicts(nonce_registry[n], remote) \subseteq Reported(m)')
      BY <2>1, MergeFacts DEF Reported, MeshTypes
    <3>2. CASE b \in heard[m]
      <4>1. nonce_registry_dropped[m] = 0
            /\ DOMAIN nonce_registry[m] \subseteq DOMAIN nonce_registry'[m]
            /\ \A k \in DOMAIN nonce_registry[m] :
                  nonce_registry'[m][k] = nonce_registry[m][k]
        <5>1. CASE m = n
          BY <2>4, <2>6, <5>1
        <5>2. CASE m # n
          BY <2>1, <2>6, <5>2, MergeFacts
        <5> QED
          BY <5>1, <5>2
      <4> QED
        BY <3>1, <3>2, <4>1 DEF NoConflictLost
    <3>3. CASE b \notin heard[m]
      <4>1. m = n /\ \E k \in DOMAIN remote : b = remote[k]
        BY <2>1, <2>6, <3>3 DEF MeshTypes
      <4>2. Key(b) \in DOMAIN remote /\ b = remote[Key(b)]
        BY <4>1, RegistryFacts
      <4>3. CASE Key(b) \in DOMAIN nonce_registry[n]
        <5>1. nonce_registry[n][Key(b)] # b =>
                [local |-> nonce_registry[n][Key(b)], remote |-> b]
                   \in Conflicts(nonce_registry[n], remote)
          BY <4>2, <4>3 DEF Conflicts
        <5> QED
          BY <2>4, <2>6, <3>1, <4>1, <4>3, <5>1
      <4>4. CASE Key(b) \notin DOMAIN nonce_registry[n]
        BY <2>4, <2>6, <4>1, <4>2, <4>4
      <4> QED
        BY <4>3, <4>4
    <3> QED
      BY <3>2, <3>3
  <2>7. NoConflictLost'
    BY <2>6 DEF NoConflictLost
  <2> QED
    BY <2>3, <2>5, <2>7
<1>4. ASSUME NEW n \in Nodes, Drain(n)
      PROVE  MeshInv'
  <2>1. pending_conflicts' = [pending_conflicts EXCEPT ![n] = {}]
        /\ drained' = [drained EXCEPT ![n] = @ \cup pending_conflicts[n]]
        /\ UNCHANGED <<nonce_registry, nonce_registry_dropped, seen, heard, accepted>>
    BY <1>4 DEF Drain, DrainConflicts
  <2>2. MeshTypes' /\ OneBlockPerNonce'
    BY <2>1 DEF MeshTypes, LatchTypeOK, OneBlockPerNonce
  <2>3. \A m \in Nodes : Reported(m) \subseteq Reported(m)'
    BY <2>1 DEF Reported, MeshTypes
  <2>4. NoConflictLost'
    BY <2>1, <2>3 DEF NoConflictLost
  <2> QED
    BY <2>2, <2>4
<1>5. ASSUME NEW v \in Voters, NEW b \in Signed, CastVote(v, b)
      PROVE  MeshInv'
  BY <1>5 DEF CastVote, nodeVars, MeshTypes, LatchTypeOK, OneBlockPerNonce, NoConflictLost,
              Reported
<1>6. ASSUME NEW n \in Nodes, NEW b \in Signed, NEW remote \in Registries,
             NEW confirmations, NEW received, Assess(n, b, confirmations, received, remote)
      PROVE  MeshInv'
  <2>1. LatchTypeOK'
    BY <1>6, LatchClimbs DEF Assess, MeshTypes
  <2> QED
    BY <1>6, <2>1 DEF Assess, nodeVars, meshVars, MeshTypes, OneBlockPerNonce, NoConflictLost,
                      Reported
<1>7. CASE UNCHANGED vars
  BY <1>7 DEF vars, nodeVars, meshVars, MeshTypes, LatchTypeOK, OneBlockPerNonce,
              NoConflictLost, Reported
<1> QED
  BY <1>1, <1>2, <1>3, <1>4, <1>5, <1>6, <1>7 DEF Next

(* The inductive invariant of the mesh: types, and both registry properties. *)
THEOREM Invariance == Spec => []MeshInv
BY InitInv, StepInv, PTL DEF Spec

(* A node that has evicted nothing from its registry has accepted at most one block
   per (account, nonce), the one its registry holds (add_block, merge_registry). *)
THEOREM OneBlockForever == Spec => []OneBlockPerNonce
BY Invariance, PTL DEF MeshInv

(* A node that has evicted nothing holds whatever it has read in other registries,
   or has surfaced it as a conflict (merge_registry, drain_pending_conflicts). *)
THEOREM ConflictsKept == Spec => []NoConflictLost
BY Invariance, PTL DEF MeshInv

-----------------------------------------------------------------------------
(* Finality. *)

(* The stakes are shares of the supply, which is far below u64::MAX / 100. *)
NoSaturation == 100 * SumOver(Stake, Validators) <= MaxU64

(* Every vote on the air that is not stray is a voter's own, a voter outside
   Faulty has voted for one branch of a conflict, and a block was found L2 only
   when the votes cast by then were a quorum. *)
VoteInv ==
    /\ LatchTypeOK
    /\ \A e \in votes : e.key \in Voters /\ e.block \in Signed /\ e = Vote(e.key, e.block)
    /\ \A v \in Voters \ Faulty, b, c \in Signed :
          Conflicting(b, c) => ~(v \in VotersFor(b) /\ v \in VotersFor(c))
    /\ \A n \in Nodes, b \in Signed : seen[n][b] = L2 => Quorum(VotersFor(b))

(* Stakes of sets of validators. *)
LEMMA StakeSum ==
    ASSUME NEW V \in SUBSET Validators
    PROVE  /\ IsFiniteSet(V)
           /\ SumOver(Stake, V) \in Nat
           /\ \A W \in SUBSET V : /\ SumOver(Stake, W) <= SumOver(Stake, V)
                                  /\ SumOver(Stake, W) \in Nat
<1>1. IsFiniteSet(V)
  BY FiniteValidators, FS_Subset
<1>2. \A v \in V : Stake[v] \in Nat /\ Stake[v] <= Stake[v]
  BY FinalityAssumption
<1> QED
  BY <1>1, <1>2, SumNat, SumMonotonic

LEMMA QuorumGrows ==
    ASSUME NEW V \in SUBSET Validators, NEW W \in SUBSET V, Quorum(W)
    PROVE  Quorum(V)
<1>1. PICK x, y : x = SumOver(Stake, W) /\ y = SumOver(Stake, V)
  OBVIOUS
<1>2. x \in Nat /\ y \in Nat /\ x <= y /\ MaxU64 \in Nat
  BY <1>1, StakeSum, GossipAssumption
<1>3. StakeOf(W) \in Nat /\ StakeOf(V) \in Nat /\ StakeOf(W) <= StakeOf(V)
  BY <1>1, <1>2 DEF StakeOf, Saturating
<1>4. /\ Saturating(StakeOf(W) * 100) <= Saturating(StakeOf(V) * 100)
      /\ Saturating(StakeOf(W) * 100) \in Nat /\ Saturating(StakeOf(V) * 100) \in Nat
  BY <1>2, <1>3 DEF Saturating
<1>5. TotalStake \in Nat
  <2>1. SumOver(Stake, Validators) \in Nat
    BY StakeSum
  <2> QED
    BY <1>2, <2>1 DEF TotalStake, StakeOf, Saturating
<1>6. Saturating(TotalStake * 67) \in Nat
  BY <1>2, <1>5 DEF Saturating
<1> QED
  BY <1>4, <1>6 DEF Quorum

(* Without saturation a quorum is what it says. *)
LEMMA QuorumStake ==
    ASSUME NoSaturation, NEW V \in SUBSET Validators, Quorum(V)
    PROVE  /\ 100 * SumOver(Stake, V) >= 67 * SumOver(Stake, Validators)
           /\ SumOver(Stake, Validators) > 0
<1>1. PICK x, y : x = SumOver(Stake, V) /\ y = SumOver(Stake, Validators)
  OBVIOUS
<1>2. x \in Nat /\ y \in Nat /\ x <= y /\ MaxU64 \in Nat
  BY <1>1, StakeSum, GossipAssumption
<1>3. 100 * y <= MaxU64 /\ 100 * x <= MaxU64 /\ 67 * y <= MaxU64 /\ x <= MaxU64 /\ y <= MaxU64
  BY <1>1, <1>2 DEF NoSaturation
<1>4. StakeOf(V) = x /\ TotalStake = y
  BY <1>1, <1>2, <1>3 DEF StakeOf, TotalStake, Saturating
<1>5. Saturating(x * 100) = 100 * x /\ Saturating(y * 67) = 67 * y
  BY <1>2, <1>3 DEF Saturating
<1>6. y > 0 /\ 100 * x >= 67 * y
  BY <1>4, <1>5 DEF Quorum
<1> QED
  BY <1>1, <1>6

(* Two quorums have more than a third of the stake in common. *)
LEMMA QuorumsMeet ==
    ASSUME NoSaturation, NEW V \in SUBSET Validators, NEW W \in SUBSET Validators,
           Quorum(V), Quorum(W)
    PROVE  100 * SumOver(Stake, V \cap W) >= 34 * SumOver(Stake, Validators)
<1>1. PICK x, y, z, u, t : /\ x = SumOver(Stake, V) /\ y = SumOver(Stake, W)
                           /\ z = SumOver(Stake, V \cap W)
                           /\ u = SumOver(Stake, V \ W)
                           /\ t = SumOver(Stake, Validators)
  OBVIOUS
<1>2. x \in Nat /\ y \in Nat /\ z \in Nat /\ u \in Nat /\ t \in Nat
  BY <1>1, StakeSum
<1>3. 100 * x >= 67 * t /\ 100 * y >= 67 * t
  BY <1>1, QuorumStake
<1>4. \A v \in Validators : Stake[v] \in Int
  BY FinalityAssumption
<1>5. x = u + z
  <2>1. V = (V \ W) \cup (V \cap W) /\ (V \ W) \cap (V \cap W) = {}
    OBVIOUS
  <2>2. IsFiniteSet(V \ W) /\ IsFiniteSet(V \cap W)
    BY StakeSum
  <2>3. SumOver(Stake, (V \ W) \cup (V \cap W)) = u + z
    <3>1. \A v \in (V \ W) \cup (V \cap W) : Stake[v] \in Int
      BY <1>4
    <3> QED
      BY <1>1, <2>1, <2>2, <3>1, SumUnion
  <2> QED
    BY <1>1, <2>1, <2>3
<1>6. u + y <= t
  <2>1. (V \ W) \cap W = {} /\ (V \ W) \cup W \in SUBSET Validators
    OBVIOUS
  <2>2. IsFiniteSet(V \ W) /\ IsFiniteSet(W)
    BY StakeSum
  <2>3. SumOver(Stake, (V \ W) \cup W) = u + y
    <3>1. \A v \in (V \ W) \cup W : Stake[v] \in Int
      BY <1>4
    <3> QED
      BY <1>1, <2>1, <2>2, <3>1, SumUnion
  <2>4. SumOver(Stake, (V \ W) \cup W) <= t
    BY <1>1, <2>1, StakeSum
  <2> QED
    BY <2>3, <2>4
<1>7. 100 * z >= 34 * t
  BY <1>2, <1>3, <1>5, <1>6
<1> QED
  BY <1>1, <1>7

LEMMA VoteInit == Init => VoteInv
BY DEF Init, LatchInit, VoteInv, LatchTypeOK, Levels, Pending, L2, VotersFor

(* assess_finality finds L2 only on votes that were cast: a stray vote of a
   registered key makes it fail. *)
LEMMA AssessedQuorum ==
    ASSUME VoteInv, NEW b \in Signed, NEW confirmations, NEW sync,
           NEW received \in SUBSET (votes \cup Stray), ~Misvoted(b, received),
           AssessFinality(b, confirmations, sync, received) = L2
    PROVE  Quorum(VotersFor(b))
<1>1. Quorum({e.key : e \in Relevant(received, b)})
  BY DEF AssessFinality, Pending, L0, L1, L2
<1>2. ASSUME NEW e \in Relevant(received, b) PROVE e.key \in VotersFor(b)
  <2>1. Verifies(e)
    BY <1>1 DEF Misvoted, Quorum
  <2>2. e \notin Stray
    <3>1. e.key \in Validators
      BY DEF Relevant
    <3> QED
      BY <2>1, <3>1, MeshAssumption, FinalityAssumption DEF Verifies
  <2>3. e \in votes /\ e.block = b
    BY <2>2 DEF Relevant
  <2> QED
    BY <2>3 DEF VoteInv, VotersFor
<1>3. {e.key : e \in Relevant(received, b)} \subseteq VotersFor(b)
  BY <1>2
<1>4. VotersFor(b) \subseteq Validators
  BY MeshAssumption DEF VotersFor
<1> QED
  BY <1>1, <1>3, <1>4, QuorumGrows

LEMMA VoteStep ==
    ASSUME VoteInv, [Next]_vars
    PROVE  VoteInv'
<1>1. ASSUME NEW v \in Voters, NEW b \in Signed, CastVote(v, b)
      PROVE  VoteInv'
  <2>1. votes' = votes \cup {Vote(v, b)} /\ seen' = seen
    BY <1>1 DEF CastVote
  <2>2. \A c \in Signed : /\ VotersFor(c) \subseteq VotersFor(c)'
                          /\ c # b => VotersFor(c)' = VotersFor(c)
                          /\ VotersFor(c)' \subseteq VotersFor(c) \cup {v}
                          /\ VotersFor(c)' \subseteq Validators
    BY <2>1, MeshAssumption DEF VotersFor, Vote
  <2>3. \A e \in votes' : e.key \in Voters /\ e.block \in Signed /\ e = Vote(e.key, e.block)
    BY <2>1 DEF VoteInv, Vote
  <2>4. ASSUME NEW w \in Voters \ Faulty, NEW c \in Signed, NEW d \in Signed,
               Conflicting(c, d), w \in VotersFor(c)', w \in VotersFor(d)'
        PROVE  FALSE
    <3>1. CASE c = b
      <4>1. w \in VotersFor(d)
        BY <2>2, <2>4, <3>1 DEF Conflicting
      <4>2. w # v
        BY <1>1, <2>4, <3>1, <4>1 DEF CastVote
      <4>3. w \in VotersFor(c)
        BY <2>2, <2>4, <4>2
      <4> QED
        BY <2>4, <4>1, <4>3 DEF VoteInv
    <3>2. CASE d = b
      <4>1. w \in VotersFor(c)
        BY <2>2, <2>4, <3>2 DEF Conflicting
      <4>2. w # v
        BY <1>1, <2>4, <3>2, <4>1 DEF CastVote, Conflicting
      <4>3. w \in VotersFor(d)
        BY <2>2, <2>4, <4>2
      <4> QED
        BY <2>4, <4>1, <4>3 DEF VoteInv
    <3>3. CASE c # b /\ d # b
      BY <2>2, <2>4, <3>3 DEF VoteInv
    <3> QED
      BY <3>1, <3>2, <3>3
  <2>5. \A n \in Nodes, c \in Signed : seen'[n][c] = L2 => Quorum(VotersFor(c)')
    BY <2>1, <2>2, QuorumGrows DEF VoteInv
  <2>6. \A c \in Signed : Quorum(VotersFor(c))' = Quorum(VotersFor(c)')
    BY DEF Quorum, TotalStake, StakeOf, Saturating
  <2> QED
    BY <2>1, <2>3, <2>4, <2>5, <2>6 DEF VoteInv, LatchTypeOK, Conflicting
<1>2. ASSUME NEW n \in Nodes, NEW b \in Signed, NEW remote \in Registries,
             NEW confirmations \in SUBSET Confirmations,
             NEW received \in SUBSET (votes \cup Stray),
             Assess(n, b, confirmations, received, remote)
      PROVE  VoteInv'
  <2>1. PICK sync : AssessMonotonic(n, b, confirmations, sync, received)
    BY <1>2 DEF Assess
  <2>2. votes' = votes
    BY <1>2 DEF Assess, meshVars
  <2>3. PICK s : /\ s = AssessFinality(b, confirmations, sync, received)
                 /\ seen' = [seen EXCEPT ![n][b] = IF s > @ THEN s ELSE @]
                 /\ ~Misvoted(b, received)
    BY <2>1 DEF AssessMonotonic
  <2>4. s = L2 => Quorum(VotersFor(b))
    BY <2>3, AssessedQuorum
  <2>5. LatchTypeOK'
    BY <2>1, LatchClimbs DEF VoteInv
  <2>6. ASSUME NEW m \in Nodes, NEW c \in Signed, seen'[m][c] = L2
        PROVE  Quorum(VotersFor(c))
    <3>1. CASE seen[m][c] = L2
      BY <3>1 DEF VoteInv
    <3>2. CASE seen[m][c] # L2
      <4>1. m = n /\ c = b /\ s = L2
        BY <2>3, <2>6, <3>2 DEF VoteInv, LatchTypeOK
      <4> QED
        BY <2>4, <4>1
    <3> QED
      BY <3>1, <3>2
  <2>7. \A c \in Signed : VotersFor(c)' = VotersFor(c)
    BY <2>2 DEF VotersFor
  <2> QED
    BY <2>2, <2>5, <2>6, <2>7 DEF VoteInv, Conflicting
<1>3. CASE seen' = seen /\ votes' = votes
  <2>1. \A c \in Signed : VotersFor(c)' = VotersFor(c)
    BY <1>3 DEF VotersFor
  <2> QED
    BY <1>3, <2>1 DEF VoteInv, LatchTypeOK, Conflicting
<1> QED
  BY <1>1, <1>2, <1>3 DEF Next, Learn, LearnAgain, Merge, Drain, vars, meshVars

(* Where FinalityLatch holds L2, the votes signed so far are a quorum, and nobody
   outside Faulty has voted for both branches of a conflict. *)
THEOREM VoteInvariance == Spec => []VoteInv
BY VoteInit, VoteStep, PTL DEF Spec

(* A block that assess_finality finds L2 has the votes of 67 % of the registered
   stake, forged votes and votes of strangers notwithstanding: for stakes whose
   hundredfold sum does not saturate. *)
THEOREM L2IsBacked ==
    ASSUME NoSaturation
    PROVE  Spec => []L2HasQuorum
<1>1. VoteInv => L2HasQuorum
  <2>1. \A b \in Signed : VotersFor(b) \subseteq Validators
    BY MeshAssumption DEF VotersFor
  <2> QED
    BY <2>1, QuorumStake DEF VoteInv, L2HasQuorum
<1> QED
  BY <1>1, VoteInvariance, PTL

(* Two conflicting blocks are never both L2, at any nodes, as long as those who
   vote for both branches hold less than 34 % of the registered stake: that is
   what the 67 % of assess_finality tolerates. *)
THEOREM L2Agrees ==
    ASSUME NoSaturation, 100 * SumOver(Stake, Faulty) < 34 * SumOver(Stake, Validators)
    PROVE  Spec => []L2Agreement
<1>1. ASSUME VoteInv, NEW n \in Nodes, NEW m \in Nodes, NEW b \in Signed, NEW c \in Signed,
             Conflicting(b, c), seen[n][b] = L2, seen[m][c] = L2
      PROVE  FALSE
  <2>1. Quorum(VotersFor(b)) /\ Quorum(VotersFor(c))
    BY <1>1 DEF VoteInv
  <2>2. VotersFor(b) \subseteq Validators /\ VotersFor(c) \subseteq Validators
        /\ Faulty \subseteq Validators
    BY MeshAssumption DEF VotersFor
  <2>3. VotersFor(b) \cap VotersFor(c) \subseteq Faulty
    BY <1>1 DEF VoteInv, VotersFor
  <2>4. 100 * SumOver(Stake, VotersFor(b) \cap VotersFor(c)) >= 34 * SumOver(Stake, Validators)
    BY <2>1, <2>2, QuorumsMeet
  <2>5. PICK x, y, t : /\ x = SumOver(Stake, VotersFor(b) \cap VotersFor(c))
                       /\ y = SumOver(Stake, Faulty)
                       /\ t = SumOver(Stake, Validators)
    OBVIOUS
  <2>6. x <= y /\ x \in Nat /\ y \in Nat /\ t \in Nat
    BY <2>2, <2>3, <2>5, StakeSum
  <2>7. 100 * x >= 34 * t /\ 100 * y < 34 * t
    BY <2>4, <2>5
  <2> QED
    BY <2>6, <2>7
<1>2. VoteInv => L2Agreement
  BY <1>1 DEF L2Agreement
<1> QED
  BY <1>2, VoteInvariance, PTL

-----------------------------------------------------------------------------
(* The order tracker. *)

(* s lists the elements of K, each once. *)
Lists(s, K) ==
    /\ s \in Seq(K)
    /\ \A k \in K : \E i \in 1 .. Len(s) : s[i] = k
    /\ \A i, j \in 1 .. Len(s) : s[i] = s[j] => i = j

LEMMA ListFacts ==
    ASSUME NEW s, NEW K, Lists(s, K)
    PROVE  /\ ToSet(s) = K
           /\ IsFiniteSet(K)
           /\ Cardinality(K) = Len(s)
           /\ Len(s) \in Nat
<1>1. s \in Seq(K) /\ Len(s) \in Nat /\ DOMAIN s = 1 .. Len(s) /\ s \in [1 .. Len(s) -> K]
  BY DEF Lists
<1>2. ToSet(s) = K
  BY <1>1 DEF ToSet, Lists
<1>3. s \in Bijection(1 .. Len(s), K)
  BY <1>1 DEF Lists, Bijection, Injection, Surjection, IsInjective
<1>4. ExistsBijection(1 .. Len(s), K)
  BY <1>3 DEF ExistsBijection
<1> QED
  BY <1>1, <1>2, <1>4, FS_CountingElements, FS_NatBijection

LEMMA NothingListed == Lists(<<>>, {})
BY DEF Lists

(* Evicting from the front. *)
LEMMA DropOldest ==
    ASSUME NEW s, NEW K, Lists(s, K), NEW e \in 0 .. Len(s)
    PROVE  Lists(SubSeq(s, e + 1, Len(s)), K \ {s[i] : i \in 1 .. e})
<1> DEFINE L == K \ {s[i] : i \in 1 .. e}
           t == SubSeq(s, e + 1, Len(s))
<1>1. s \in Seq(K) /\ Len(s) \in Nat /\ \A i \in 1 .. Len(s) : s[i] \in K
  BY DEF Lists
<1>2. ASSUME NEW i \in e + 1 .. Len(s) PROVE s[i] \in L
  <2>1. i \in 1 .. Len(s) /\ i \notin 1 .. e
    BY <1>1
  <2>2. \A j \in 1 .. e : j \in 1 .. Len(s)
    BY <1>1
  <2>3. \A j \in 1 .. e : s[j] # s[i]
    BY <2>1, <2>2 DEF Lists
  <2> QED
    BY <1>1, <2>1, <2>3
<1>3. t \in Seq(L) /\ Len(t) = Len(s) - e /\ \A i \in 1 .. Len(s) - e : t[i] = s[e + i]
  <2>1. e + 1 \in Int /\ Len(s) \in Int
    BY <1>1
  <2> HIDE DEF L
  <2>2. /\ t \in Seq(L)
        /\ Len(t) = IF e + 1 <= Len(s) THEN Len(s) - (e + 1) + 1 ELSE 0
        /\ \A i \in 1 .. Len(s) - (e + 1) + 1 : t[i] = s[e + 1 + i - 1]
    BY <1>2, <2>1, SubSeqProperties
  <2> HIDE DEF t
  <2> QED
    BY <1>1, <2>2
<1>4. \A k \in L : \E i \in 1 .. Len(t) : t[i] = k
  <2> TAKE k \in L
  <2>1. PICK i \in 1 .. Len(s) : s[i] = k
    BY DEF Lists
  <2>2. i > e
    BY <1>1, <2>1
  <2>3. i - e \in 1 .. Len(t) /\ t[i - e] = k
    <3> HIDE DEF t
    <3> QED
      BY <1>1, <1>3, <2>1, <2>2
  <2> QED
    BY <2>3
<1>5. \A i, j \in 1 .. Len(t) : t[i] = t[j] => i = j
  <2> HIDE DEF t
  <2> TAKE i, j \in 1 .. Len(t)
  <2>1. e + i \in 1 .. Len(s) /\ e + j \in 1 .. Len(s) /\ t[i] = s[e + i] /\ t[j] = s[e + j]
    BY <1>1, <1>3
  <2>2. s[e + i] = s[e + j] => e + i = e + j
    BY <2>1 DEF Lists
  <2> QED
    BY <2>1, <2>2, <1>3, <1>1
<1> QED
  BY <1>3, <1>4, <1>5 DEF Lists

(* New keys enter at the back. *)
LEMMA Joined ==
    ASSUME NEW s, NEW K, Lists(s, K), NEW t, NEW L, Lists(t, L), K \cap L = {}
    PROVE  Lists(s \o t, K \cup L)
<1>1. s \in Seq(K) /\ t \in Seq(L) /\ s \in Seq(K \cup L) /\ t \in Seq(K \cup L)
      /\ Len(s) \in Nat /\ Len(t) \in Nat
      /\ (\A i \in 1 .. Len(s) : s[i] \in K) /\ (\A i \in 1 .. Len(t) : t[i] \in L)
  BY DEF Lists
<1>2. /\ s \o t \in Seq(K \cup L)
      /\ Len(s \o t) = Len(s) + Len(t)
      /\ \A i \in 1 .. Len(s) + Len(t) :
            (s \o t)[i] = IF i <= Len(s) THEN s[i] ELSE t[i - Len(s)]
  BY <1>1, ConcatProperties
<1> DEFINE u == s \o t
<1> HIDE DEF u
<1>3. \A k \in K \cup L : \E i \in 1 .. Len(u) : u[i] = k
  <2> TAKE k \in K \cup L
  <2>1. CASE k \in K
    <3>1. PICK i \in 1 .. Len(s) : s[i] = k
      BY <2>1 DEF Lists
    <3> QED
      BY <3>1, <1>1, <1>2 DEF u
  <2>2. CASE k \in L
    <3>1. PICK i \in 1 .. Len(t) : t[i] = k
      BY <2>2 DEF Lists
    <3>2. Len(s) + i \in 1 .. Len(u) /\ u[Len(s) + i] = k
      BY <3>1, <1>1, <1>2 DEF u
    <3> QED
      BY <3>2
  <2> QED
    BY <2>1, <2>2
<1>4. ASSUME NEW i \in 1 .. Len(u), NEW j \in 1 .. Len(u), u[i] = u[j]
      PROVE  i = j
  <2>1. CASE i <= Len(s) /\ j <= Len(s)
    <3>1. i \in 1 .. Len(s) /\ j \in 1 .. Len(s) /\ s[i] = s[j]
      BY <2>1, <1>1, <1>2, <1>4 DEF u
    <3> QED
      BY <3>1 DEF Lists
  <2>2. CASE i > Len(s) /\ j > Len(s)
    <3>1. i - Len(s) \in 1 .. Len(t) /\ j - Len(s) \in 1 .. Len(t)
          /\ t[i - Len(s)] = t[j - Len(s)]
      BY <2>2, <1>1, <1>2, <1>4 DEF u
    <3>2. i - Len(s) = j - Len(s)
      BY <3>1 DEF Lists
    <3> QED
      BY <3>2, <1>1, <1>2 DEF u
  <2>3. CASE i <= Len(s) /\ j > Len(s)
    BY <2>3, <1>1, <1>2, <1>4 DEF u
  <2>4. CASE i > Len(s) /\ j <= Len(s)
    BY <2>4, <1>1, <1>2, <1>4 DEF u
  <2> QED
    BY <2>1, <2>2, <2>3, <2>4, <1>1, <1>2 DEF u
<1> QED
  BY <1>2, <1>3, <1>4 DEF Lists, u

LEMMA OneMore ==
    ASSUME NEW s, NEW K, Lists(s, K), NEW k, k \notin K
    PROVE  Lists(Append(s, k), K \cup {k})
<1>1. Lists(<<k>>, {k})
  BY DEF Lists
<1>2. Lists(s \o <<k>>, K \cup {k})
  BY <1>1, Joined
<1>3. s \in Seq(K \cup {k})
  BY DEF Lists
<1>4. Append(s, k) = s \o <<k>>
  BY <1>3, AppendIsConcat
<1> QED
  BY <1>2, <1>4

-----------------------------------------------------------------------------
(* Every set of keys can be listed in order. *)

LEMMA LeastKey ==
    ASSUME NEW K \in SUBSET (Nat \X Nat), K # {}
    PROVE  \E k \in K : \A m \in K : m # k => KeyLess(k, m)
<1>1. \A k \in K : k[1] \in Nat /\ k[2] \in Nat /\ k = <<k[1], k[2]>>
  OBVIOUS
<1> DEFINE A == {k[1] : k \in K}
<1>2. PICK a \in A : \A b \in A : a <= b
  <2>1. A \in SUBSET Nat /\ A # {}
    BY <1>1
  <2> HIDE DEF A
  <2> QED
    BY <2>1, LeastNatural
<1> DEFINE M == {k \in K : k[1] = a}
           C == {k[2] : k \in M}
<1>3. PICK c \in C : \A b \in C : c <= b
  <2>1. C \in SUBSET Nat /\ C # {}
    BY <1>1
  <2> HIDE DEF C
  <2> QED
    BY <2>1, LeastNatural
<1>4. PICK k \in K : k[1] = a /\ k[2] = c
  OBVIOUS
<1>5. ASSUME NEW m \in K, m # k PROVE KeyLess(k, m)
  <2>1. a <= m[1]
    BY <1>2
  <2>2. m[1] = a => c <= m[2]
    BY <1>3
  <2>3. m[1] # a \/ m[2] # c
    BY <1>1, <1>4, <1>5
  <2> QED
    BY <1>1, <1>4, <2>1, <2>2, <2>3 DEF KeyLess
<1> QED
  BY <1>5

InOrder(s, K) == Lists(s, K) /\ \A i, j \in 1 .. Len(s) : i < j => KeyLess(s[i], s[j])

LEMMA SomeOrder ==
    ASSUME NEW S \in SUBSET (Nat \X Nat), IsFiniteSet(S)
    PROVE  \E s : InOrder(s, S)
<1> DEFINE B == {K \in SUBSET S : ~ \E s : InOrder(s, K)}
<1> SUFFICES ASSUME S \in B PROVE FALSE
  OBVIOUS
<1>1. PICK K \in B : \A L \in SUBSET K : L # K => L \notin B
  <2>1. B \in SUBSET SUBSET S /\ B # {}
    OBVIOUS
  <2> HIDE DEF B
  <2> QED
    BY <2>1, SmallestSubset
<1>2. K # {}
  <2>1. InOrder(<<>>, {})
    BY NothingListed DEF InOrder
  <2> QED
    BY <2>1
<1>3. PICK k \in K : \A m \in K : m # k => KeyLess(k, m)
  BY <1>2, LeastKey
<1>4. PICK s : InOrder(s, K \ {k})
  <2>1. K \ {k} \in SUBSET K /\ K \ {k} # K
    OBVIOUS
  <2>2. K \ {k} \notin B
    BY <1>1, <2>1
  <2> QED
    BY <2>2
<1>5. Lists(<<k>>, {k})
  BY DEF Lists
<1> DEFINE t == <<k>> \o s
<1>6. Lists(t, K)
  <2>1. Lists(s, K \ {k}) /\ {k} \cap (K \ {k}) = {} /\ {k} \cup (K \ {k}) = K
    BY <1>4 DEF InOrder
  <2> QED
    BY <1>5, <2>1, Joined
<1>7. <<k>> \in Seq(K) /\ s \in Seq(K) /\ Len(<<k>>) = 1 /\ Len(s) \in Nat
      /\ \A i \in 1 .. Len(s) : s[i] \in K /\ s[i] # k
  BY <1>4 DEF InOrder, Lists
<1>8. Len(t) = 1 + Len(s)
      /\ \A i \in 1 .. 1 + Len(s) : t[i] = IF i <= 1 THEN <<k>>[i] ELSE s[i - 1]
  BY <1>7, ConcatProperties
<1> HIDE DEF t
<1>9. ASSUME NEW i \in 1 .. Len(t), NEW j \in 1 .. Len(t), i < j
      PROVE  KeyLess(t[i], t[j])
  <2>1. j - 1 \in 1 .. Len(s) /\ t[j] = s[j - 1]
    BY <1>7, <1>8, <1>9
  <2>2. CASE i = 1
    BY <2>1, <2>2, <1>3, <1>7, <1>8
  <2>3. CASE i # 1
    <3>1. i \in 1 .. 1 + Len(s) /\ i \in Int /\ j \in Int /\ i > 1
      BY <1>7, <1>8, <2>3
    <3>2. i - 1 \in 1 .. Len(s) /\ i - 1 < j - 1
      BY <1>7, <1>9, <3>1
    <3>3. t[i] = s[i - 1]
      BY <1>8, <3>1
    <3> QED
      BY <2>1, <3>2, <3>3, <1>4 DEF InOrder
  <2> QED
    BY <2>2, <2>3
<1> QED
  BY <1>6, <1>9 DEF InOrder

LEMMA KeyOrderLists ==
    ASSUME NEW K \in SUBSET (Nat \X Nat), IsFiniteSet(K)
    PROVE  Lists(InKeyOrder(K), K)
<1> DEFINE P(s) == /\ ToSet(s) = K
                   /\ \A i, j \in DOMAIN s : i < j => KeyLess(s[i], s[j])
<1>1. PICK s : InOrder(s, K)
  BY SomeOrder
<1>2. s \in [1 .. Cardinality(K) -> K] /\ ToSet(s) = K /\ DOMAIN s = 1 .. Len(s)
  <2>1. Lists(s, K)
    BY <1>1 DEF InOrder
  <2>2. s \in Seq(K) /\ ToSet(s) = K /\ Cardinality(K) = Len(s)
    BY <2>1, ListFacts DEF Lists
  <2> QED
    BY <2>2
<1>3. P(s)
  BY <1>1, <1>2 DEF InOrder
<1> DEFINE o == InKeyOrder(K)
<1>4. o \in [1 .. Cardinality(K) -> K] /\ P(o)
  BY <1>2, <1>3 DEF InKeyOrder
<1> HIDE DEF o
<1>5. Cardinality(K) \in Nat
  BY FS_CardinalityType
<1>6. o \in Seq(K) /\ Len(o) = Cardinality(K)
  BY <1>4, <1>5
<1>7. \A k \in K : \E i \in 1 .. Len(o) : o[i] = k
  BY <1>4, <1>6 DEF ToSet
<1>8. \A i, j \in 1 .. Len(o) : o[i] = o[j] => i = j
  <2>1. \A i \in 1 .. Len(o) : o[i][1] \in Nat /\ o[i][2] \in Nat
    BY <1>4, <1>6
  <2>2. ASSUME NEW i \in 1 .. Len(o), NEW j \in 1 .. Len(o), i < j PROVE o[i] # o[j]
    <3>1. KeyLess(o[i], o[j])
      BY <1>4, <1>5, <1>6, <2>2
    <3> QED
      BY <2>1, <3>1 DEF KeyLess
  <2> QED
    BY <2>2, <1>5, <1>6
<1> QED
  BY <1>6, <1>7, <1>8 DEF Lists, o
-----------------------------------------------------------------------------
(* The tracker lists what the registry holds, and both collections fit. *)
OrderInv ==
    /\ nonce_registry_order \in [Nodes -> Seq(Keys)]
    /\ known_blocks \in [Nodes -> Seq(Signed)]
    /\ known_blocks_dropped \in [Nodes -> 0 .. MaxU64]
    /\ \A n \in Nodes :
          /\ Lists(nonce_registry_order[n], DOMAIN nonce_registry[n])
          /\ Len(nonce_registry_order[n]) <= RegistryCapacity
          /\ Len(known_blocks[n]) <= BlocksCapacity

LEMMA KeysArePairs == Keys \subseteq Nat \X Nat
BY GossipAssumption DEF Keys, Key

LEMMA ListOfKeys ==
    ASSUME NEW K \in SUBSET Keys, NEW s, Lists(s, K)
    PROVE  s \in Seq(Keys)
BY DEF Lists

(* add_block evicts the oldest block when there are too many. *)
LEMMA BlockStored ==
    ASSUME NEW s \in Seq(Signed), NEW b \in Signed, Len(s) <= BlocksCapacity
    PROVE  LET t == Append(IF Len(s) >= BlocksCapacity THEN Tail(s) ELSE s, b)
           IN t \in Seq(Signed) /\ Len(t) <= BlocksCapacity
<1> DEFINE r == IF Len(s) >= BlocksCapacity THEN Tail(s) ELSE s
<1>1. BlocksCapacity \in Nat /\ BlocksCapacity > 0
  BY GossipAssumption
<1>2. r \in Seq(Signed) /\ Len(r) + 1 <= BlocksCapacity
  <2>1. CASE Len(s) >= BlocksCapacity
    <3>1. s # <<>>
      BY <1>1, <2>1
    <3>2. Tail(s) \in Seq(Signed) /\ Len(Tail(s)) = Len(s) - 1
      BY <3>1, HeadTailProperties
    <3> QED
      BY <1>1, <2>1, <3>2
  <2>2. CASE ~(Len(s) >= BlocksCapacity)
    BY <1>1, <2>2
  <2> QED
    BY <2>1, <2>2
<1> HIDE DEF r
<1>3. Append(r, b) \in Seq(Signed) /\ Len(Append(r, b)) = Len(r) + 1
  BY <1>2, AppendProperties
<1> QED
  BY <1>2, <1>3 DEF r

LEMMA OrderInsert ==
    ASSUME MeshTypes, OrderInv, NEW n \in Nodes, NEW b \in Signed, InsertBlock(n, b)
    PROVE  OrderInv'
<1> DEFINE local == nonce_registry[n]
           order == nonce_registry_order[n]
           e     == RegistryExcess(n)
           gone  == {order[i] : i \in 1 .. e}
           kept  == DOMAIN local \ gone
           after == Append(SubSeq(order, e + 1, Len(order)), Key(b))
           full  == Len(known_blocks[n]) >= BlocksCapacity
           blocks == Append(IF full THEN Tail(known_blocks[n]) ELSE known_blocks[n], b)
<1>1. /\ Key(b) \notin DOMAIN local /\ Key(b) \in Keys
      /\ nonce_registry' = [nonce_registry EXCEPT ![n] =
            [k \in kept \cup {Key(b)} |-> IF k = Key(b) THEN b ELSE local[k]]]
      /\ nonce_registry_order' = [nonce_registry_order EXCEPT ![n] = after]
      /\ known_blocks' = [known_blocks EXCEPT ![n] = blocks]
      /\ known_blocks_dropped' = [known_blocks_dropped EXCEPT ![n] =
            Saturating(@ + IF full THEN 1 ELSE 0)]
  BY DEF InsertBlock, Claimable, Keys
<1>2. local \in Registries /\ DOMAIN local \subseteq Keys
  BY RegistryFacts DEF MeshTypes
<1>3. Lists(order, DOMAIN local) /\ Len(order) <= RegistryCapacity
  BY DEF OrderInv
<1>4. Len(order) \in Nat /\ Cardinality(DOMAIN local) = Len(order)
  BY <1>3, ListFacts
<1>5. e \in 0 .. Len(order) /\ Len(order) - e + 1 <= RegistryCapacity
  BY <1>3, <1>4, GossipAssumption DEF RegistryExcess
<1>6. Lists(after, kept \cup {Key(b)})
  <2>1. Lists(SubSeq(order, e + 1, Len(order)), kept)
    <3> HIDE DEF e, order, local
    <3> QED
      BY <1>3, <1>5, DropOldest
  <2>2. Key(b) \notin kept
    BY <1>1
  <2> HIDE DEF kept
  <2> QED
    BY <2>1, <2>2, OneMore
<1>7. Len(after) <= RegistryCapacity
  <2>1. \A i \in e + 1 .. Len(order) : order[i] \in Keys
    BY <1>4, <1>5 DEF OrderInv
  <2>2. SubSeq(order, e + 1, Len(order)) \in Seq(Keys)
        /\ Len(SubSeq(order, e + 1, Len(order))) = Len(order) - e
    <3>1. e + 1 \in Int /\ Len(order) \in Int
      BY <1>4, <1>5
    <3> HIDE DEF e, order
    <3>2. SubSeq(order, e + 1, Len(order)) \in Seq(Keys)
          /\ Len(SubSeq(order, e + 1, Len(order))) =
                IF e + 1 <= Len(order) THEN Len(order) - (e + 1) + 1 ELSE 0
      BY <2>1, <3>1, SubSeqProperties
    <3> QED
      BY <1>4, <1>5, <3>2
  <2>3. Len(after) = Len(order) - e + 1
    <3> DEFINE s == SubSeq(order, e + 1, Len(order))
    <3>1. s \in Seq(Keys) /\ Len(s) = Len(order) - e
      BY <2>2
    <3> HIDE DEF s
    <3>2. Len(Append(s, Key(b))) = Len(s) + 1
      BY <3>1, <1>1, AppendProperties
    <3> QED
      BY <3>1, <3>2 DEF s
  <2> QED
    BY <1>5, <2>3
<1>8. after \in Seq(Keys)
  <2>1. kept \cup {Key(b)} \subseteq Keys
    BY <1>1, <1>2
  <2> HIDE DEF kept, after
  <2> QED
    BY <1>6, <2>1, ListOfKeys
<1>9. blocks \in Seq(Signed) /\ Len(blocks) <= BlocksCapacity
  BY BlockStored DEF OrderInv
<1>10. DOMAIN nonce_registry'[n] = kept \cup {Key(b)}
  BY <1>1 DEF MeshTypes
<1>11. known_blocks_dropped' \in [Nodes -> 0 .. MaxU64]
  BY <1>1, GossipAssumption DEF OrderInv, Saturating
<1> HIDE DEF kept, after, blocks
<1>12. ASSUME NEW m \in Nodes
       PROVE  /\ Lists(nonce_registry_order'[m], DOMAIN nonce_registry'[m])
              /\ Len(nonce_registry_order'[m]) <= RegistryCapacity
              /\ Len(known_blocks'[m]) <= BlocksCapacity
  <2>1. CASE m = n
    BY <2>1, <1>1, <1>6, <1>7, <1>9, <1>10 DEF OrderInv
  <2>2. CASE m # n
    <3>1. nonce_registry_order'[m] = nonce_registry_order[m]
          /\ nonce_registry'[m] = nonce_registry[m] /\ known_blocks'[m] = known_blocks[m]
      BY <2>2, <1>1 DEF OrderInv, MeshTypes
    <3> QED
      BY <3>1 DEF OrderInv
  <2> QED
    BY <2>1, <2>2
<1> QED
  BY <1>1, <1>8, <1>9, <1>11, <1>12 DEF OrderInv

LEMMA OrderMerge ==
    ASSUME MeshTypes, OrderInv, NEW n \in Nodes, NEW remote \in Registries,
           MergeRegistry(n, remote)
    PROVE  OrderInv'
<1> DEFINE local  == nonce_registry[n]
           merged == Merged(local, remote)
           order  == OrderAfterMerge(n, remote)
           e == IF Cardinality(DOMAIN merged) > RegistryCapacity
                THEN Cardinality(DOMAIN merged) - RegistryCapacity ELSE 0
           gone  == {order[i] : i \in 1 .. e}
           kept  == DOMAIN merged \ gone
           after == SubSeq(order, e + 1, Len(order))
           fresh == DOMAIN remote \ DOMAIN local
<1>1. /\ nonce_registry' = [nonce_registry EXCEPT ![n] = [k \in kept |-> merged[k]]]
      /\ nonce_registry_order' = [nonce_registry_order EXCEPT ![n] = after]
      /\ known_blocks' = known_blocks /\ known_blocks_dropped' = known_blocks_dropped
  BY DEF MergeRegistry
<1>2. local \in Registries /\ DOMAIN local \subseteq Keys /\ DOMAIN remote \subseteq Keys
      /\ IsFiniteSet(DOMAIN remote)
  BY RegistryFacts DEF MeshTypes
<1>3. DOMAIN merged = DOMAIN local \cup DOMAIN remote
  BY <1>2, MergedIsRegistry
<1>4. Lists(order, DOMAIN merged)
  <2>1. Lists(InKeyOrder(fresh), fresh)
    <3>1. fresh \subseteq Nat \X Nat /\ IsFiniteSet(fresh)
      BY <1>2, KeysArePairs, FS_Subset
    <3> HIDE DEF fresh
    <3> QED
      BY <3>1, KeyOrderLists
  <2>2. Lists(nonce_registry_order[n], DOMAIN local)
    BY DEF OrderInv
  <2>3. DOMAIN local \cap fresh = {} /\ DOMAIN local \cup fresh = DOMAIN merged
    BY <1>3
  <2>4. order = nonce_registry_order[n] \o InKeyOrder(fresh)
    BY DEF OrderAfterMerge
  <2> HIDE DEF fresh, order, merged, local
  <2> QED
    BY <2>1, <2>2, <2>3, <2>4, Joined
<1>5. Len(order) \in Nat /\ Cardinality(DOMAIN merged) = Len(order)
  <2> HIDE DEF order, merged
  <2> QED
    BY <1>4, ListFacts
<1>6. e \in 0 .. Len(order) /\ Len(order) - e <= RegistryCapacity
  <2> HIDE DEF order, merged
  <2> QED
    BY <1>5, GossipAssumption
<1>7. Lists(after, kept)
  <2> HIDE DEF order, merged, e
  <2> QED
    BY <1>4, <1>6, DropOldest
<1>8. kept \subseteq Keys
  BY <1>2, <1>3
<1>9. Len(after) <= RegistryCapacity
  <2>1. order \in Seq(DOMAIN merged)
    BY <1>4 DEF Lists
  <2> HIDE DEF order, merged, e
  <2>2. \A i \in e + 1 .. Len(order) : order[i] \in DOMAIN merged
    BY <1>5, <1>6, <2>1
  <2>3. e + 1 \in Int /\ Len(order) \in Int
    BY <1>5, <1>6
  <2>4. Len(after) = IF e + 1 <= Len(order) THEN Len(order) - (e + 1) + 1 ELSE 0
    BY <2>2, <2>3, SubSeqProperties
  <2> QED
    BY <1>5, <1>6, <2>4, GossipAssumption
<1>10. DOMAIN nonce_registry'[n] = kept
  BY <1>1 DEF MeshTypes
<1> HIDE DEF kept, after
<1>11. after \in Seq(Keys)
  BY <1>7, <1>8, ListOfKeys
<1>12. ASSUME NEW m \in Nodes
       PROVE  /\ Lists(nonce_registry_order'[m], DOMAIN nonce_registry'[m])
              /\ Len(nonce_registry_order'[m]) <= RegistryCapacity
  <2>1. CASE m = n
    BY <2>1, <1>1, <1>7, <1>9, <1>10 DEF OrderInv
  <2>2. CASE m # n
    <3>1. nonce_registry_order'[m] = nonce_registry_order[m]
          /\ nonce_registry'[m] = nonce_registry[m]
      BY <2>2, <1>1 DEF OrderInv, MeshTypes
    <3> QED
      BY <3>1 DEF OrderInv
  <2> QED
    BY <2>1, <2>2
<1> QED
  BY <1>1, <1>11, <1>12 DEF OrderInv

LEMMA OrderInit == Init => OrderInv
<1> SUFFICES ASSUME Init PROVE OrderInv
  OBVIOUS
<1>1. <<>> \in Seq(Keys) /\ <<>> \in Seq(Signed) /\ Len(<<>>) = 0 /\ DOMAIN EmptyRegistry = {}
  BY DEF EmptyRegistry
<1>2. nonce_registry = [n \in Nodes |-> EmptyRegistry]
      /\ nonce_registry_order = [n \in Nodes |-> <<>>]
      /\ known_blocks = [n \in Nodes |-> <<>>]
      /\ known_blocks_dropped = [n \in Nodes |-> 0]
  BY DEF Init, NodeInit
<1> QED
  BY <1>1, <1>2, NothingListed, GossipAssumption DEF OrderInv

LEMMA OrderStep ==
    ASSUME MeshTypes, OrderInv, [Next]_vars
    PROVE  OrderInv'
<1>1. ASSUME NEW n \in Nodes, NEW b \in Signed, Learn(n, b) PROVE OrderInv'
  BY <1>1, OrderInsert DEF Learn
<1>2. ASSUME NEW n \in Nodes, NEW remote \in Registries, Merge(n, remote) PROVE OrderInv'
  BY <1>2, OrderMerge DEF Merge
<1>3. CASE UNCHANGED <<nonce_registry_order, known_blocks, known_blocks_dropped, nonce_registry>>
  BY <1>3 DEF OrderInv
<1> QED
  BY <1>1, <1>2, <1>3 DEF Next, LearnAgain, Drain, DrainConflicts, CastVote, Assess, vars, nodeVars

(* The tracker is a list of the registry's keys without repetition, and the node's
   collections have their types. *)
THEOREM OrderInvariance == Spec => []OrderInv
<1>1. Init => OrderInv
  BY OrderInit
<1>2. MeshInv /\ OrderInv /\ [Next]_vars => OrderInv'
  BY OrderStep DEF MeshInv
<1> QED
  BY <1>1, <1>2, Invariance, PTL DEF Spec

(* nonce_registry_order lists the keys of nonce_registry, each once, after any
   sequence of add_block and merge_registry, and neither the registry nor
   known_blocks outgrows its capacity: the eviction loops never meet a stale key. *)
THEOREM TrackerIsExact == Spec => []OrderTracksRegistry
<1>1. OrderInv => OrderTracksRegistry
  BY ListFacts DEF OrderInv, OrderTracksRegistry
<1> QED
  BY <1>1, OrderInvariance, PTL

(* Every variable of the mesh has its type in every reachable state. *)
THEOREM MeshTypeCorrect == Spec => []TypeOK
<1>1. MeshInv /\ OrderInv /\ VoteInv => TypeOK
  <2>1. VoteInv => votes \subseteq Evidence
    BY MeshAssumption, FinalityAssumption DEF VoteInv, Vote, Evidence
  <2> QED
    BY <2>1 DEF MeshInv, MeshTypes, OrderInv, TypeOK, NodeTypeOK
<1> QED
  BY <1>1, Invariance, OrderInvariance, VoteInvariance, PTL
=============================================================================
