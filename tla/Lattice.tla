------------------------------ MODULE Lattice -------------------------------
(***************************************************************************)
(* The block lattice: accounts sign blocks on their own devices, the mesh  *)
(* carries the blocks, and every node's ledger admits or refuses them.     *)
(* The mesh keeps every block ever signed and may hand any of them to any  *)
(* ledger or recipient at any time, again and again or never: delivery is  *)
(* lossy, duplicating and unordered.                                       *)
(***************************************************************************)
EXTENDS AccountChain, Ledger, Sums

CONSTANT Payments   \* the amounts that may be sent

ASSUME PaymentsAssumption == Payments \subseteq Nat

VARIABLE net        \* every block signed so far

vars == <<accountVars, ledgerVars, net>>

TypeOK ==
    /\ AccountTypeOK
    /\ LedgerTypeOK
    /\ net \subseteq Block

Init ==
    /\ AccountInit
    /\ LedgerInit
    /\ net = {}

Publish(a) == net' = net \cup {Last(chain'[a])}

OpenAccount(a, n) ==
    Open(a, n) /\ Publish(a) /\ UNCHANGED ledgerVars

SendFunds(a, d, n) ==
    Send(a, d, n) /\ Publish(a) /\ UNCHANGED ledgerVars

ReceiveFunds(a, b) ==
    Receive(a, b) /\ Publish(a) /\ UNCHANGED ledgerVars

RollBack(a) ==
    Rewind(a) /\ UNCHANGED <<ledgerVars, net>>

Accept(l, b) ==
    AcceptBlock(l, b) /\ UNCHANGED <<accountVars, net>>

Refuse(l, b) ==
    RefuseBlock(l, b) /\ UNCHANGED <<accountVars, net>>

Next ==
    \/ \E a \in Accounts :
          \/ \E n \in Grants[a] : OpenAccount(a, n)
          \/ \E d \in Accounts, n \in Payments : SendFunds(a, d, n)
          \/ \E b \in net : ReceiveFunds(a, b)
          \/ RollBack(a)
    \/ \E l \in Ledgers, b \in net : Accept(l, b) \/ Refuse(l, b)

Spec == Init /\ [][Next]_vars

(* The mesh does not lose a block for good: a ledger that could accept some
   block is in the end offered one. *)
Fairness == \A l \in Ledgers : WF_vars(\E b \in net : Accept(l, b))

FairSpec == Spec /\ Fairness

-----------------------------------------------------------------------------
(* Safety of the ledgers. *)

(* Ledger::add_block, block by block, admits only chains that
   verify_chain_integrity accepts as a whole. *)
LedgerIntegrity ==
    \A l \in Ledgers, a \in Accounts : ChainIntegrity(chains[l][a])

(* A Send funds at most one Receive in the whole ledger, and an accepted
   Receive names a Send accepted before it that was meant for its account. *)
SingleCredit ==
    \A l \in Ledgers, a, c \in Accounts :
      \A i \in 1 .. Len(chains[l][a]), j \in 1 .. Len(chains[l][c]) :
        LET r == chains[l][a][i]
            q == chains[l][c][j]
        IN r.kind = "Receive" =>
             /\ q.kind = "Receive" /\ q.source_hash = r.source_hash
                  => a = c /\ i = j
             /\ \E d \in Accounts : \E k \in 1 .. Len(chains[l][d]) :
                  /\ chains[l][d][k].kind = "Send"
                  /\ chains[l][d][k].hash = r.source_hash
                  /\ chains[l][d][k].destination = a

(* For an account that never rolls back, every ledger holds a beginning of the
   account's own chain, whatever was delivered in whatever order. *)
HonestPrefix ==
    \A l \in Ledgers, a \in Accounts \ Forkers :
        IsPrefix(chains[l][a], chain[a])

(* Where two chains hold the same block they have the same history. *)
SharePast(s, t) ==
    \A i \in 1 .. Len(s) :
        i <= Len(t) /\ s[i].hash = t[i].hash => \A k \in 1 .. i : s[k] = t[k]

(* Even for an account that forks, two ledgers that hold the same block of it
   hold the same history up to that block. *)
SharedHistory ==
    \A l, m \in Ledgers, a \in Accounts : SharePast(chains[l][a], chains[m][a])

(* Sends accepted by l that no accepted Receive has credited yet. *)
PendingSends(l) == {s \in send_index[l] : s.hash \notin consumed_sends[l]}

(* Every ledger is a TokenLedger: only an Open creates money, up to the supply
   ceiling, and no Send is overdrawn, lost or credited twice. *)
Token(l) == INSTANCE TokenLedger WITH
    Hashes  <- Accounts \X (1 .. MaxBlocks),
    opened  <- {a \in Accounts : chains[l][a] # <<>>},
    funds   <- [a \in Accounts |-> TipBalance(chains[l][a])],
    pending <- PendingSends(l),
    spent   <- consumed_sends[l],
    minted  <- total_supply[l]

LedgersAreTokenLedgers ==
    /\ \A l \in Ledgers : Token(l)!TokenInit
    /\ [][\A l \in Ledgers :
            UNCHANGED Token(l)!tokenVars \/ Token(l)!TokenNext]_vars

(* The money a ledger has admitted is what its chains' last balances and its
   open Sends add up to. *)
Conservation == \A l \in Ledgers : Token(l)!MoneyConserved

(* A ledger that no block on the mesh could extend. *)
Saturated(l) == \A b \in net : ~Acceptable(l, b)

(* The Opens signed so far fit under the supply ceiling. *)
SupplySuffices ==
    SumOver([b \in net |-> b.amount], {b \in net : b.kind = "Open"}) <= TotalSupply

(* "Blocks from different accounts are independent": two ledgers that can accept
   no further block agree on every account once they agree on those that fork,
   in whatever order the blocks came. *)
Convergence ==
    SupplySuffices =>
      \A l, m \in Ledgers :
        Saturated(l) /\ Saturated(m) /\ (\A a \in Forkers : chains[l][a] = chains[m][a])
          => chains[l] = chains[m]

-----------------------------------------------------------------------------
(* What the accounts and the ledgers owe each other. *)

(* receive does not ask whether the account is open, and open refuses a chain
   that is not empty.  An account that never rolls back and received before it
   was open is thereby kept out of every ledger for good, and all that was ever
   sent to it stays pending there. *)
UnopenedStaysOut ==
    \A a \in Accounts \ Forkers :
      chain[a] # <<>> /\ chain[a][1].kind = "Receive" =>
        \A l \in Ledgers :
          /\ chains[l][a] = <<>>
          /\ \A s \in send_index[l] : s.destination = a => s \in PendingSends(l)

(* No block that was signed has been dropped from its account's chain, and no
   Send that was received from the account's memory. *)
NothingDropped ==
    /\ \A b \in net : b \in ToSet(chain[b.account])
    /\ \A a \in Accounts : Received(chain[a]) \subseteq consumed_sources[a]

(* As long as no device forgets anything, every chain starts with an Open and the
   supply suffices for all of them, every ledger ends up with every account's
   whole chain. *)
LedgersCatchUp ==
    [](/\ NothingDropped
       /\ SupplySuffices
       /\ \A a \in Accounts : chain[a] # <<>> => chain[a][1].kind = "Open")
      => <>[](\A l \in Ledgers, a \in Accounts : chains[l][a] = chain[a])
=============================================================================
