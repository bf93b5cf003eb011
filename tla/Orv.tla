--------------------------------- MODULE Orv ---------------------------------
(***************************************************************************)
(* Open representative voting on conflicting blocks (arxia-consensus:      *)
(* vote.rs, orv.rs, conflict.rs).                                          *)
(*                                                                         *)
(* Representatives sign votes with the stake delegated to them at that     *)
(* moment.  Votes and blocks reach the nodes in any order.  A vote for a   *)
(* block the node has not seen is refused and may come again.  A node      *)
(* keeps each vote once and resolves a conflict from those it has kept.    *)
(***************************************************************************)
EXTENDS Integers, FiniteSets, Sums

CONSTANTS
    Nodes,
    Blocks,             \* [hash, slot, kind]; a slot is an (account, nonce)
    FirstKnown,         \* the blocks a node starts with
    Representatives,
    StakesOf,           \* the stakes a representative may have delegated to it
    Forged,             \* votes that are not signed by the voter they name
    MaxNonce,           \* bounds on how often the representatives vote
    TotalSupply,        \* total_supply of collect_votes
    MinStakeDenom,      \* MIN_REPRESENTATIVE_STAKE_DENOM
    MaxU64              \* u64::MAX

Vote == [block : Blocks, voter : Representatives,
         stake : 0 .. MaxU64, nonce : Nat, signer : Representatives]

ASSUME OrvAssumption ==
    /\ \A b \in Blocks : b.hash \in Nat
    /\ \A b, c \in Blocks : b.hash = c.hash => b = c
    /\ FirstKnown \in [Nodes -> SUBSET Blocks]
    /\ StakesOf \in [Representatives -> SUBSET (0 .. MaxU64)]
    /\ Forged \subseteq Vote /\ \A v \in Forged : v.signer # v.voter
    /\ MaxNonce \in [Representatives -> Nat] /\ TotalSupply \in Nat
    /\ MinStakeDenom \in Nat \ {0} /\ MaxU64 \in Nat

VARIABLES
    cast,       \* the votes signed so far
    known,      \* the blocks in each node's block store
    kept        \* the votes each node has taken

orvVars == <<cast, known, kept>>

OrvTypeOK ==
    /\ cast \subseteq Vote
    /\ known \in [Nodes -> SUBSET Blocks]
    /\ kept \in [Nodes -> SUBSET Vote]

OrvInit ==
    /\ cast = {}
    /\ known = FirstKnown
    /\ kept = [n \in Nodes |-> {}]

-----------------------------------------------------------------------------
(* Votes *)

(* The nonce of a vote is the voter's own counter; nothing compares it. *)
NextNonce(r) == 1 + Cardinality({v \in cast : v.voter = r})

(* cast_vote *)
CastVote(r, b, stake) ==
    /\ NextNonce(r) <= MaxNonce[r]
    /\ cast' = cast \cup {[block |-> b, voter |-> r, stake |-> stake,
                           nonce |-> NextNonce(r), signer |-> r]}
    /\ UNCHANGED <<known, kept>>

Learn(n, b) ==
    /\ known' = [known EXCEPT ![n] = @ \cup {b}]
    /\ UNCHANGED <<cast, kept>>

(* verify_vote: the signature is over all that the vote says *)
Verifies(v) == v.signer = v.voter

(* verify_vote_known *)
VerifiesKnown(n, v) == Verifies(v) /\ v.block \in known[n]

Receive(n, v) ==
    /\ VerifiesKnown(n, v)
    /\ kept' = [kept EXCEPT ![n] = @ \cup {v}]
    /\ UNCHANGED <<cast, known>>

(* collect_votes: what is left of a node's votes without dust. *)
Collected(n) == {v \in kept[n] : v.stake >= TotalSupply \div MinStakeDenom}

-----------------------------------------------------------------------------
(* resolve_conflict_orv *)

(* The sum of an iterator of u64, which wraps in the release build. *)
SumOfStakes(votes) == SumOver([v \in votes |-> v.stake], votes)
TrueStake(n, b) == SumOfStakes({v \in Collected(n) : v.block = b})
StakeFor(n, b) == TrueStake(n, b) % (MaxU64 + 1)

Saturating(x) == IF x > MaxU64 THEN MaxU64 ELSE x
AbsDiff(x, y) == IF x > y THEN x - y ELSE y - x

EligibleForOrv(b) == b.kind \in {"Open", "Send", "Receive"}

(* Mutant of Decisive: the gap is compared with the stake of all the votes. *)
DecisiveAmongAll(n, b, c) ==
    Saturating(20 * AbsDiff(StakeFor(n, b), StakeFor(n, c))) >
        Saturating(SumOfStakes(Collected(n)))

(* The stakes differ by more than 5 % of their sum. *)
Decisive(n, b, c) ==
    LET total == Saturating(StakeFor(n, b) + StakeFor(n, c)) IN
    /\ total > 0
    /\ Saturating(20 * AbsDiff(StakeFor(n, b), StakeFor(n, c))) > total

(* Mutant of TieBreak: the node's own block wins. *)
LocalFirst(n, b, c) == b

(* The smaller hash. *)
TieBreak(n, b, c) == IF b.hash <= c.hash THEN b ELSE c

(* The winner between the local block b and the remote block c, if both may be
   voted on. *)
Resolve(n, b, c) ==
    IF Decisive(n, b, c)
    THEN IF StakeFor(n, b) > StakeFor(n, c) THEN b ELSE c
    ELSE TieBreak(n, b, c)

(* detect_double_spend: the groups of blocks at one slot. *)
DoubleSpends(n) ==
    {group \in {{b \in known[n] : b.slot = c.slot} : c \in known[n]} :
        Cardinality(group) > 1}

(* What a node has to resolve, as <<local, remote>>. *)
Disputes(n) ==
    UNION {{p \in group \X group : p[1] # p[2] /\ \A i \in 1 .. 2 : EligibleForOrv(p[i])} :
        group \in DoubleSpends(n)}

-----------------------------------------------------------------------------
OrvNext ==
    \/ \E r \in Representatives, b \in Blocks : \E s \in StakesOf[r] : CastVote(r, b, s)
    \/ \E n \in Nodes :
          \/ \E b \in Blocks : Learn(n, b)
          \/ \E v \in cast \cup Forged : Receive(n, v)

(* Blocks and votes that were sent are repeated until they are taken. *)
Fairness ==
    \A n \in Nodes : /\ WF_orvVars(\E b \in Blocks : Learn(n, b))
                    /\ WF_orvVars(\E v \in cast : Receive(n, v))

OrvSpec == OrvInit /\ [][OrvNext]_orvVars /\ Fairness

-----------------------------------------------------------------------------
(* At node n no sum of votes has wrapped and no total has been cut off. *)
InRange(n) ==
    \A b, c \in Blocks : b # c => TrueStake(n, b) + TrueStake(n, c) < MaxU64

(* Which of two disputed blocks wins does not depend on which of them the node
   considers its own, even where sums wrap and products saturate. *)
OrderIrrelevant ==
    \A n \in Nodes : \A p \in Disputes(n) :
        Resolve(n, p[1], p[2]) = Resolve(n, p[2], p[1])

(* A dispute turns only by a vote for the block that now wins: not by votes for a
   third block, dust, forgeries, or a block becoming known, and never by one more
   vote for the block that was winning.  (Sums that wrap or saturate excepted.) *)
TurnedByVotesOnly ==
    [][\A n \in Nodes : \A p \in Disputes(n) :
        LET now == Resolve(n, p[1], p[2])' IN
        now # Resolve(n, p[1], p[2]) /\ InRange(n) /\ InRange(n)' =>
            \E v \in Collected(n)' \ Collected(n) : v.block = now]_orvVars

(* In the end all nodes resolve every dispute alike, whatever came first to whom. *)
ResolutionsAgree ==
    <>[](\A n, m \in Nodes : \A p \in Disputes(n) \cup Disputes(m) :
            Resolve(n, p[1], p[2]) = Resolve(m, p[2], p[1]))
=============================================================================
