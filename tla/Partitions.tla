----------------------------- MODULE Partitions -----------------------------
(***************************************************************************)
(* Partitions of the mesh that meet again.  reconcile_partitions of        *)
(* arxia-crdt/src/reconciliation.rs is a pure function of the blocks of    *)
(* two partitions, which keeps a PNCounter per account.  A partition is    *)
(* the set of its blocks: the first thing the function does is to drop     *)
(* repetitions by hash.                                                    *)
(***************************************************************************)
EXTENDS Lattice, Integers

CONSTANT HashRank(_)    \* the position of a hash in lexicographic order

(* The hashes of the blocks are in a total order, which numbers them. *)
ASSUME HashRankAssumption ==
    \A a \in Accounts : \A n, k \in 1 .. MaxBlocks :
        /\ HashRank(<<a, n>>) \in Nat
        /\ HashRank(<<a, n>>) = HashRank(<<a, k>>) => n = k

PN == INSTANCE PNCounter

(* Everything that claims the place of block b. *)
Rivals(all, b) == {c \in all : c.account = b.account /\ c.nonce = b.nonce}

(* The block with the smallest hash wins its (account, nonce). *)
Winners(all) ==
    {b \in all : \A c \in Rivals(all, b) : HashRank(b.hash) <= HashRank(c.hash)}

(* ResolvedConflict, for each (account, nonce) with more than one block. *)
ResolvedConflicts(all) ==
    {[account |-> b.account, nonce |-> b.nonce, winner |-> b.hash,
      losers |-> {c.hash : c \in Rivals(all, b) \ {b}}] :
        b \in {w \in Winners(all) : Rivals(all, w) # {w}}}

(* Mutant of AppliedSends: a Send that lost its conflict is a valid source. *)
AnySends(all) == {b \in all : b.kind = "Send"}

(* The Sends that won. *)
AppliedSends(all) == {b \in Winners(all) : b.kind = "Send"}

(* The Sends that a winning Receive may credit: at most one, by its hash. *)
Sources(all, b) ==
    {s \in all : /\ s.hash = b.source_hash
                 /\ s.destination = b.account
                 /\ s \in AppliedSends(all)}

(* rejected_receives and rejected_genesis *)
RejectedReceives(all) ==
    {b \in all : b.kind = "Receive" /\ b \in Winners(all) /\ Sources(all, b) = {}}
RejectedGenesis(all) ==
    {b \in all : b.kind = "Open" /\ b.nonce # 1 /\ b \in Winners(all)}

(* The winning blocks that move a counter. *)
Applied(all) == Winners(all) \ (RejectedReceives(all) \cup RejectedGenesis(all))

(* Mutant of Credit: the Receive's own amount field, which is zero. *)
OwnAmount(all, b) == IF b.kind = "Send" THEN 0 ELSE b.amount

(* What an applied block adds to the credits and the debits. *)
Credit(all, b) ==
    CASE b.kind = "Open"    -> b.amount
      [] b.kind = "Send"    -> 0
      [] b.kind = "Receive" -> (CHOOSE s \in Sources(all, b) : TRUE).amount

Debit(b) == IF b.kind = "Send" THEN b.amount ELSE 0

(* The accounts that have a counter, and what it says. *)
Counted(all) == {b.account : b \in Applied(all)}
CounterOf(all, a) ==
    LET mine == {b \in Applied(all) : b.account = a}
    IN PN!Value(SumOver([b \in mine |-> Credit(all, b)], mine),
                SumOver([b \in mine |-> Debit(b)], mine))

(* What reconcile_partitions may return.  The conflicts and the accounts are
   listed by iterating over a HashMap: in any order.  The first account found
   negative is the error. *)
Reconcile(A, B) ==
    LET all      == A \cup B
        counters == [a \in Counted(all) |-> CounterOf(all, a)]
        negative == {a \in Counted(all) : counters[a] < 0}
    IN IF negative # {}
       THEN {[ok |-> FALSE, account |-> a] : a \in negative}
       ELSE {[ok |-> TRUE,
              balances |-> counters,
              conflicts |-> order,
              rejected_receives |-> RejectedReceives(all),
              rejected_genesis |-> RejectedGenesis(all)] :
                order \in SetToSeqs(ResolvedConflicts(all))}

-----------------------------------------------------------------------------
(* The blocks a ledger has accepted. *)
Partition(l) ==
    UNION {ToSet(chains[l][a]) : a \in Accounts}

Union(l, m) == Partition(l) \cup Partition(m)

(* What two ledgers hold of an account's chain when one extends the other. *)
Longer(s, t) == IF Len(s) >= Len(t) THEN s ELSE t

(* Two partitions between which no (account, nonce) is in dispute merge to the
   balances which the chains declare, and there is nothing to resolve or reject. *)
MergedBalances ==
    \A l, m \in Ledgers :
      LET all == Union(l, m)
      IN (\A b \in all : Rivals(all, b) = {b}) =>
           Reconcile(Partition(l), Partition(m)) =
             {[ok |-> TRUE,
               balances |-> [a \in {b.account : b \in all} |->
                                TipBalance(Longer(chains[l][a], chains[m][a]))],
               conflicts |-> <<>>,
               rejected_receives |-> {},
               rejected_genesis |-> {}]}

(* The winning Sends that no applied Receive has credited. *)
Unclaimed(all) ==
    {s \in AppliedSends(all) :
        ~ \E b \in Applied(all) : b.kind = "Receive" /\ s \in Sources(all, b)}

(* The applied Receives of a Send that an earlier applied Receive of the account
   credits already: nothing in the merge asks. *)
RepeatedReceives(all) ==
    LET receives == {b \in Applied(all) : b.kind = "Receive"}
    IN {b \in receives : \E c \in receives : /\ c.account = b.account
                                              /\ c.source_hash = b.source_hash
                                              /\ c.nonce < b.nonce}

(* What two ledgers may bring together. *)
Merges == {Union(l, m) : l, m \in Ledgers}

(* "value conservation across the partition merge", as far as it goes: whoever
   has forked, the counters and the winning Sends nobody has received add up to
   what the winning Opens minted and to what an account has credited to itself
   again.  Only an account that forks can do that: it receives a Send on one
   branch, forgets it, and receives it later on the other. *)
MergedConservation ==
    \A all \in Merges :
      LET opens == {b \in Applied(all) : b.kind = "Open"}
          again == RepeatedReceives(all)
          amount == [b \in all |-> b.amount]
      IN /\ SumOver(amount, opens) + SumOver([b \in again |-> Credit(all, b)], again)
            = SumOver([a \in Counted(all) |-> CounterOf(all, a)], Counted(all))
              + SumOver(amount, Unclaimed(all))
         /\ \A b \in again : b.account \in Forkers

(* "Double-spends only affect the offending account": a balance that an account
   without a fork has earned and spent by the rules is not found negative. *)
HonestSolvent ==
    \A l, m \in Ledgers :
      \A r \in Reconcile(Partition(l), Partition(m)) : ~r.ok => r.account \in Forkers
=============================================================================
