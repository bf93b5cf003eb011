---------------------------- MODULE TokenLedger -----------------------------
(***************************************************************************)
(* What one ledger promises, without chains, hashes or delivery: money is  *)
(* created only by opening an account, up to a ceiling; a transfer leaves  *)
(* the sender at once and waits until the recipient settles it, once.      *)
(***************************************************************************)
EXTENDS Naturals, Sums

CONSTANTS Accounts, TotalSupply, Hashes

VARIABLES
    opened,     \* accounts with an accepted Open
    funds,      \* their balances
    pending,    \* accepted transfers nobody has settled, [hash, destination, amount]
    spent,      \* hashes of the transfers that were settled
    minted      \* money created so far

tokenVars == <<opened, funds, pending, spent, minted>>

TokenInit ==
    /\ opened = {}
    /\ funds = [a \in Accounts |-> 0]
    /\ pending = {}
    /\ spent = {}
    /\ minted = 0

Mint(a, n) ==
    /\ a \notin opened
    /\ minted + n <= TotalSupply
    /\ opened' = opened \cup {a}
    /\ funds' = [funds EXCEPT ![a] = n]
    /\ minted' = minted + n
    /\ UNCHANGED <<pending, spent>>

(* A transfer is new: its hash is neither pending nor spent. *)
Transfer(a, p) ==
    /\ a \in opened
    /\ p.destination # a
    /\ p.amount > 0
    /\ p.amount <= funds[a]
    /\ \A q \in pending : q.hash # p.hash
    /\ p.hash \notin spent
    /\ funds' = [funds EXCEPT ![a] = @ - p.amount]
    /\ pending' = pending \cup {p}
    /\ UNCHANGED <<opened, spent, minted>>

Settle(p) ==
    /\ p \in pending
    /\ p.destination \in opened
    /\ funds' = [funds EXCEPT ![p.destination] = @ + p.amount]
    /\ pending' = pending \ {p}
    /\ spent' = spent \cup {p.hash}
    /\ UNCHANGED <<opened, minted>>

TokenNext ==
    \/ \E a \in Accounts, n \in 0 .. TotalSupply : Mint(a, n)
    \/ \E a \in Accounts,
          p \in [hash : Hashes, destination : Accounts, amount : 1 .. TotalSupply] :
          Transfer(a, p)
    \/ \E p \in pending : Settle(p)

TokenSpec == TokenInit /\ [][TokenNext]_tokenVars

(* No money appears or vanishes: what was minted is held by an account or on
   its way to one, and never exceeds the ceiling. *)
MoneyConserved ==
    /\ minted = SumOver(funds, Accounts)
                + SumOver([p \in pending |-> p.amount], pending)
    /\ minted <= TotalSupply
=============================================================================
