------------------------------ MODULE Finality ------------------------------
(***************************************************************************)
(* Finality levels of blocks (arxia-finality/src/lib.rs): assess_finality, *)
(* a pure function of the evidence a node holds, and FinalityLatch, which  *)
(* remembers the highest level a block has reached at a node.              *)
(*                                                                         *)
(* The evidence is a set of votes and a set of confirmations, in which     *)
(* other blocks, keys that are not registered and signatures of another's  *)
(* key may occur.  The two types differ only in the domain that is signed. *)
(***************************************************************************)
EXTENDS GossipNode, Sums

CONSTANTS
    Strangers,      \* keys that are not registered
    LowValue,       \* the blocks worth at most L0_CAP_MICRO_ARX
    Validators,     \* the keys of the ValidatorRegistry
    Stake           \* ValidatorRegistry.validators

ASSUME FinalityAssumption ==
    /\ Validators \cap Strangers = {}
    /\ LowValue \subseteq Signed
    /\ Stake \in [Validators -> 0 .. MaxU64]

(* ValidatorRegistry is a HashMap. *)
ASSUME FiniteValidators == IsFiniteSet(Validators)

(* FinalityLevel, in its derived order. *)
Pending == 0
L0 == 1
L1 == 2
L2 == 3
Levels == Pending .. L2

VARIABLE seen   \* FinalityLatch.seen; a block that is absent is Pending

LatchTypeOK == seen \in [Nodes -> [Signed -> Levels]]

(* FinalityLatch::new *)
LatchInit == seen = [n \in Nodes |-> [b \in Signed |-> Pending]]

(* SignedValidatorVote, SignedConfirmation; signer is whose key really signed. *)
Evidence == LET keys == Validators \cup Strangers
            IN [key : keys, block : Signed, signer : keys]

(* Mutant of Verifies: the signature is not checked. *)
TakenOnTrust(e) == TRUE

(* verify_signature *)
Verifies(e) == e.signer = e.key

(* What is for another block or of a key not registered is silently ignored. *)
Relevant(evidence, b) == {e \in evidence : e.block = b /\ e.key \in Validators}

(* The stake of a set of validators, each counted once. *)
StakeOf(voters) == Saturating(SumOver(Stake, voters))

(* ValidatorRegistry::total_stake *)
TotalStake == StakeOf(Validators)

(* Mutant of Quorum: a simple majority of the stake. *)
Majority(voters) ==
    /\ TotalStake > 0
    /\ Saturating(StakeOf(voters) * 100) >= Saturating(TotalStake * 50)

(* At least 67 % of the registered stake, in integer arithmetic. *)
Quorum(voters) ==
    /\ TotalStake > 0
    /\ Saturating(StakeOf(voters) * 100) >= Saturating(TotalStake * 67)

(* A vote of a registered key that does not verify fails the whole call. *)
Misvoted(b, votes) ==
    TotalStake > 0 /\ \E e \in Relevant(votes, b) : ~Verifies(e)

(* assess_finality, when no vote makes it fail.  A confirmation that does not verify
   fails the call only if it is met before one that does; then it keeps the latch
   as Pending does. *)
AssessFinality(b, confirmations, sync_result, votes) ==
    IF Quorum({e.key : e \in Relevant(votes, b)}) THEN L2
    ELSE IF sync_result = "Success" THEN L1
    ELSE IF b \in LowValue /\ \E e \in Relevant(confirmations, b) : Verifies(e) THEN L0
    ELSE Pending

(* FinalityLatch::assess_monotonic *)
AssessMonotonic(n, b, confirmations, sync_result, votes) ==
    LET snapshot == AssessFinality(b, confirmations, sync_result, votes) IN
    /\ ~Misvoted(b, votes)
    /\ seen' = [seen EXCEPT ![n][b] = IF snapshot > @ THEN snapshot ELSE @]
=============================================================================
