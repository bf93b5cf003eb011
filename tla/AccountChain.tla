---------------------------- MODULE AccountChain ----------------------------
(***************************************************************************)
(* The account side of the lattice (arxia-lattice/src/chain.rs): every     *)
(* account's device holds its own chain of blocks, with the cached balance *)
(* and nonce and the set of Sends it has already received.  A refused call *)
(* returns an error and changes nothing, so it is not a step.              *)
(***************************************************************************)
EXTENDS Blocks

CONSTANTS
    Forkers,    \* accounts whose device is restored and signs other histories
    MaxBlocks,  \* bound: blocks one account signs
    Ticks,      \* bound: those that each account signs
    Grants      \* the balances each account may ask to be opened with

ASSUME AccountChainAssumption ==
    /\ Forkers \subseteq Accounts
    /\ MaxBlocks \in Nat
    /\ Ticks \in [Accounts -> 0 .. MaxBlocks]
    /\ Grants \in [Accounts -> SUBSET Nat]

VARIABLES
    chain,              \* AccountChain.chain
    balance,            \* AccountChain.balance
    nonce,              \* AccountChain.nonce
    consumed_sources,   \* AccountChain.consumed_sources
    vclock              \* the account's entry of its device's VectorClock

accountVars == <<chain, balance, nonce, consumed_sources, vclock>>

AccountTypeOK ==
    /\ chain \in [Accounts -> Seq(Block)]
    /\ balance \in [Accounts -> 0 .. MaxPerAccount]
    /\ nonce \in [Accounts -> Nat]
    /\ consumed_sources \in [Accounts -> SUBSET Hashes]
    /\ vclock \in [Accounts -> 0 .. MaxBlocks]

(* AccountChain::new *)
AccountInit ==
    /\ chain = [a \in Accounts |-> <<>>]
    /\ balance = [a \in Accounts |-> 0]
    /\ nonce = [a \in Accounts |-> 0]
    /\ consumed_sources = [a \in Accounts |-> {}]
    /\ vclock = [a \in Accounts |-> 0]

(* The block an account signs next: on top of its last block, with the next
   tick of its clock.  Each block ticks the clock once, so the tick numbers the
   account's signatures. *)
NewBlock(a, kind, amount, destination, source_hash, newBalance, newNonce) ==
    [account |-> a, previous |-> TipHash(chain[a]), kind |-> kind,
     amount |-> amount, destination |-> destination,
     source_hash |-> source_hash, balance |-> newBalance,
     nonce |-> newNonce, hash |-> <<a, vclock[a] + 1>>]

(* The tail that open, send and receive share: tick the clock, set balance and
   nonce, sign the block, push it. *)
SignBlock(a, kind, amount, destination, source_hash, newBalance, newNonce) ==
    /\ vclock[a] < Ticks[a]
    /\ vclock' = [vclock EXCEPT ![a] = @ + 1]
    /\ balance' = [balance EXCEPT ![a] = newBalance]
    /\ nonce' = [nonce EXCEPT ![a] = newNonce]
    /\ chain' = [chain EXCEPT ![a] =
          Append(@, NewBlock(a, kind, amount, destination, source_hash,
                             newBalance, newNonce))]

(* AccountChain::open *)
Open(a, initial_balance) ==
    /\ chain[a] = <<>>
    /\ initial_balance <= MaxPerAccount
    /\ SignBlock(a, "Open", initial_balance, NoAccount, NoHash, initial_balance, 1)
    /\ UNCHANGED consumed_sources

(* AccountChain::send *)
Send(a, destination, amount) ==
    /\ amount > 0
    /\ destination # a
    /\ balance[a] >= amount
    /\ SignBlock(a, "Send", amount, destination, NoHash,
                 balance[a] - amount, nonce[a] + 1)
    /\ UNCHANGED consumed_sources

(* AccountChain::receive.  It takes the Send block from wherever the caller got
   it, and asks neither whether the account is open nor what any ledger says. *)
Receive(a, send_block) ==
    /\ send_block.kind = "Send"
    /\ send_block.destination = a
    /\ send_block.hash \notin consumed_sources[a]
    /\ balance[a] + send_block.amount <= MaxU64
    /\ balance[a] + send_block.amount <= MaxPerAccount
    /\ SignBlock(a, "Receive", 0, NoAccount, send_block.hash,
                 balance[a] + send_block.amount, nonce[a] + 1)
    /\ consumed_sources' = [consumed_sources EXCEPT ![a] = @ \cup {send_block.hash}]

(* The Sends that a chain has received. *)
Received(s) == {b.source_hash : b \in {c \in ToSet(s) : c.kind = "Receive"}}

(* A device that is restored to an earlier state.  The fields of AccountChain
   are public: the chain loses any number of its last blocks, and balance and
   nonce go back with it.  Of the Sends that the rest of the chain has received
   the device still knows some: all of them after a whole copy is put back, none
   where a test clears the set, not the last one after a crash between writing
   the block and writing the set.  What it signs from then on has another
   timestamp and so another hash: the serial number goes on. *)
Rewind(a) ==
    /\ a \in Forkers
    /\ \E k \in 0 .. Len(chain[a]) :
          LET kept == SubSeq(chain[a], 1, k)
          IN /\ chain' = [chain EXCEPT ![a] = kept]
             /\ balance' = [balance EXCEPT ![a] = TipBalance(kept)]
             /\ nonce' = [nonce EXCEPT ![a] = k]
             /\ \E known \in SUBSET Received(kept) :
                   consumed_sources' = [consumed_sources EXCEPT ![a] = known]
    /\ UNCHANGED vclock
=============================================================================
