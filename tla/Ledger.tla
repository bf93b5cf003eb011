------------------------------- MODULE Ledger -------------------------------
(***************************************************************************)
(* The ledgers of the nodes (arxia-lattice/src/ledger.rs).  A ledger       *)
(* indexes the chains of all accounts and admits a block by `add_block`.   *)
(* It keeps no block it refuses: an out-of-order block has to be offered   *)
(* again.                                                                  *)
(***************************************************************************)
EXTENDS Blocks

CONSTANT Ledgers    \* the nodes, each with one Ledger

VARIABLES
    entries,        \* the keys of Ledger.chains: accounts with a chain, maybe empty
    chains,         \* Ledger.chains
    send_index,     \* Ledger.send_index, as a set of [hash, destination, amount]
    consumed_sends, \* Ledger.consumed_sends
    total_supply    \* Ledger.total_supply

ledgerVars == <<entries, chains, send_index, consumed_sends, total_supply>>

SendInfo == [hash : Hashes, destination : Accounts, amount : Nat]

LedgerTypeOK ==
    /\ entries \in [Ledgers -> SUBSET Accounts]
    /\ chains \in [Ledgers -> [Accounts -> Seq(Block)]]
    /\ send_index \in [Ledgers -> SUBSET SendInfo]
    /\ consumed_sends \in [Ledgers -> SUBSET Hashes]
    /\ total_supply \in [Ledgers -> 0 .. TotalSupply]

(* Ledger::new *)
LedgerInit ==
    /\ entries = [l \in Ledgers |-> {}]
    /\ chains = [l \in Ledgers |-> [a \in Accounts |-> <<>>]]
    /\ send_index = [l \in Ledgers |-> {}]
    /\ consumed_sends = [l \in Ledgers |-> {}]
    /\ total_supply = [l \in Ledgers |-> 0]

(* Mutant of SupplyOK: only the overflow is checked, not the ceiling. *)
SupplyWithoutCeiling(l, b) ==
    b.kind = "Open" => total_supply[l] + b.amount <= MaxU64

(* An Open may not push the supply past the ceiling. *)
SupplyOK(l, b) ==
    b.kind = "Open" => /\ total_supply[l] + b.amount <= MaxU64
                       /\ total_supply[l] + b.amount <= TotalSupply

(* Mutant of SourceOK: the Send itself is not looked up. *)
SourceUnseen(l, b) ==
    b.kind = "Receive" => b.source_hash \notin consumed_sends[l]

(* A Receive names an accepted Send to this account that no accepted Receive
   has named before. *)
SourceOK(l, b) ==
    b.kind = "Receive" =>
        /\ \E s \in send_index[l] : /\ s.hash = b.source_hash
                                    /\ s.destination = b.account
        /\ b.source_hash \notin consumed_sends[l]

(* Mutant of ContinuityOK: the previous hash is not compared. *)
ContinuityByNonce(l, b) ==
    LET s == chains[l][b.account]
    IN IF s = <<>>
       THEN b.nonce = 1 /\ b.kind = "Open" /\ b.previous = NoHash
       ELSE b.nonce = Last(s).nonce + 1

(* Mutant of ContinuityOK: the first block of a chain is taken unchecked. *)
ContinuityWithoutGenesis(l, b) ==
    LET s == chains[l][b.account]
    IN s # <<>> => b.nonce = Last(s).nonce + 1 /\ b.previous = Last(s).hash

(* The block extends the account's chain: an Open at nonce 1 without a
   predecessor, or the next nonce on top of the last hash. *)
ContinuityOK(l, b) ==
    LET s == chains[l][b.account]
    IN IF s = <<>>
       THEN b.nonce = 1 /\ b.kind = "Open" /\ b.previous = NoHash
       ELSE b.nonce = Last(s).nonce + 1 /\ b.previous = Last(s).hash

Acceptable(l, b) == SupplyOK(l, b) /\ SourceOK(l, b) /\ ContinuityOK(l, b)

(* chains.entry(account).or_default(), which outlives a later refusal *)
TouchEntry(l, b) == entries' = [entries EXCEPT ![l] = @ \cup {b.account}]

(* Mutant of AcceptBlock: an accepted Receive does not mark its Send as consumed. *)
AcceptWithoutConsuming(l, b) ==
    /\ Acceptable(l, b)
    /\ TouchEntry(l, b)
    /\ chains' = [chains EXCEPT ![l][b.account] = Append(@, b)]
    /\ send_index' = [send_index EXCEPT ![l] =
          IF b.kind = "Send"
          THEN @ \cup {[hash |-> b.hash, destination |-> b.destination,
                        amount |-> b.amount]}
          ELSE @]
    /\ total_supply' = [total_supply EXCEPT ![l] =
          IF b.kind = "Open" THEN @ + b.amount ELSE @]
    /\ UNCHANGED consumed_sends

(* Mutant of AcceptBlock: the Send's hash leaves send_index when the next block
   of any kind is accepted. *)
AcceptForgetsSends(l, b) ==
    /\ Acceptable(l, b)
    /\ TouchEntry(l, b)
    /\ chains' = [chains EXCEPT ![l][b.account] = Append(@, b)]
    /\ send_index' = [send_index EXCEPT ![l] =
          IF b.kind = "Send"
          THEN {[hash |-> b.hash, destination |-> b.destination, amount |-> b.amount]}
          ELSE {}]
    /\ consumed_sends' = [consumed_sends EXCEPT ![l] =
          IF b.kind = "Receive" THEN @ \cup {b.source_hash} ELSE @]
    /\ total_supply' = [total_supply EXCEPT ![l] =
          IF b.kind = "Open" THEN @ + b.amount ELSE @]

(* Ledger::add_block returning Ok *)
AcceptBlock(l, b) ==
    /\ Acceptable(l, b)
    /\ TouchEntry(l, b)
    /\ chains' = [chains EXCEPT ![l][b.account] = Append(@, b)]
    /\ send_index' = [send_index EXCEPT ![l] =
          IF b.kind = "Send"
          THEN @ \cup {[hash |-> b.hash, destination |-> b.destination,
                        amount |-> b.amount]}
          ELSE @]
    /\ consumed_sends' = [consumed_sends EXCEPT ![l] =
          IF b.kind = "Receive" THEN @ \cup {b.source_hash} ELSE @]
    /\ total_supply' = [total_supply EXCEPT ![l] =
          IF b.kind = "Open" THEN @ + b.amount ELSE @]

(* Ledger::add_block returning Err.  The supply and source checks refuse before
   the chain's entry is made, the continuity checks after. *)
RefuseBlock(l, b) ==
    /\ ~Acceptable(l, b)
    /\ IF SupplyOK(l, b) /\ SourceOK(l, b) THEN TouchEntry(l, b)
                                           ELSE UNCHANGED entries
    /\ UNCHANGED <<chains, send_index, consumed_sends, total_supply>>
=============================================================================
