------------------------------- MODULE Blocks -------------------------------
(***************************************************************************)
(* Blocks of the lattice: `Block`, `BlockType` and `compute_hash` of       *)
(* arxia-lattice/src/block.rs.                                             *)
(*                                                                         *)
(* The variants of BlockType are one record shape: `amount` is the Open's  *)
(* initial_balance or the Send's amount, `destination` is the Send's,      *)
(* `source_hash` the Receive's.  The fourth variant, Revoke, is left out:  *)
(* no AccountChain signs one.                                              *)
(*                                                                         *)
(* A hash is the pair of the signing account and the serial number of the  *)
(* signature.  Blake3 over (account, previous, type, balance, nonce,       *)
(* timestamp) is collision free, so a hash identifies one signed block;    *)
(* Ed25519 is unforgeable, so only the account itself makes such a pair.   *)
(* verify_block succeeds for exactly the blocks an account has signed, and *)
(* those are the only blocks of the model.                                 *)
(***************************************************************************)
EXTENDS Naturals, Sequences, SequencesExt

CONSTANTS
    Accounts,       \* account public keys
    NoAccount,      \* the absent destination of an Open or a Receive
    NoHash,         \* "", the previous of a genesis block
    MaxPerAccount,  \* MAX_INITIAL_BALANCE_PER_ACCOUNT
    TotalSupply,    \* TOTAL_SUPPLY_MICRO_ARX
    MaxU64          \* u64::MAX, the limit of checked_add

Hashes == Accounts \X (Nat \ {0})

ASSUME BlocksAssumption ==
    /\ MaxPerAccount \in Nat
    /\ TotalSupply \in Nat
    /\ MaxU64 \in Nat
    /\ MaxPerAccount <= TotalSupply
    /\ TotalSupply <= MaxU64
    /\ NoAccount \notin Accounts
    /\ NoHash \notin Hashes

(* A ledger's HashMap of chains has finitely many keys. *)
ASSUME FiniteAccounts == IsFiniteSet(Accounts)

BlockKinds == {"Open", "Send", "Receive"}

Block ==
    [account     : Accounts,
     previous    : Hashes \cup {NoHash},
     kind        : BlockKinds,
     amount      : Nat,
     destination : Accounts \cup {NoAccount},
     source_hash : Hashes \cup {NoHash},
     balance     : Nat,
     nonce       : Nat,
     hash        : Hashes]

(* chain.last().map(|b| b.hash).unwrap_or_default() *)
TipHash(s) == IF s = <<>> THEN NoHash ELSE Last(s).hash

(* The balance an account's chain declares: that of its last block. *)
TipBalance(s) == IF s = <<>> THEN 0 ELSE Last(s).balance

(* verify_chain_integrity: a chain starts with an Open at nonce 1 without a
   predecessor, and every later block has the next nonce and names the hash of
   the block before it. *)
ChainIntegrity(s) ==
    /\ s # <<>> => /\ s[1].nonce = 1
                   /\ s[1].kind = "Open"
                   /\ s[1].previous = NoHash
    /\ \A i \in 2 .. Len(s) : /\ s[i].nonce = s[i-1].nonce + 1
                              /\ s[i].previous = s[i-1].hash
=============================================================================
