----------------------------- MODULE Contracts ------------------------------
(***************************************************************************)
(* The contracts side by side, called by anybody at any time the caller    *)
(* believes it to be.                                                      *)
(***************************************************************************)
EXTENDS Escrow, TokenLock

contractVars == <<escrowVars, lockVars>>

ContractsTypeOK == EscrowTypeOK /\ LockTypeOK

ContractsInit == EscrowInit /\ LockInit

CreateEscrow(e) == NewEscrow(e) /\ UNCHANGED lockVars
Sign(k, e) == Authorize(k, e) /\ UNCHANGED lockVars
ReleaseFunds(e, sig) == Release(e, sig) /\ UNCHANGED lockVars
RefundFunds(e, sig, now) == Refund(e, sig, now) /\ UNCHANGED lockVars
Unlock(k, now) == ClaimLock(k, now) /\ UNCHANGED escrowVars
Grant(s, checked) == NewSchedule(s, checked) /\ UNCHANGED escrowVars
Claim(s, now) == ClaimVested(s, now) /\ UNCHANGED escrowVars

ContractsNext ==
    \/ \E e \in Escrows :
          \/ CreateEscrow(e)
          \/ \E k \in Parties : Sign(k, e)
          \/ \E sig \in authorized : ReleaseFunds(e, sig)
          \/ \E sig \in authorized, now \in Times : RefundFunds(e, sig, now)
    \/ \E k \in Locks, now \in Times : Unlock(k, now)
    \/ \E s \in Schedules :
          \/ \E checked \in BOOLEAN : Grant(s, checked)
          \/ \E now \in Times : Claim(s, now)

ContractsSpec == ContractsInit /\ [][ContractsNext]_contractVars

(* Whoever has money coming goes on asking for it: the sender signs for a refund
   and calls for it when its clock is past every deadline, the owner of a lock or
   a schedule likewise. *)
Fairness ==
    /\ \A e \in Escrows, k \in Parties : WF_contractVars(k = e.sender /\ Sign(k, e))
    /\ \A e \in Escrows : WF_contractVars(\E sig \in authorized : RefundFunds(e, sig, MaxTime))
    /\ \A k \in Locks : WF_contractVars(Unlock(k, MaxTime))
    /\ \A s \in Schedules : WF_contractVars(Claim(s, MaxTime))

FairSpec == ContractsSpec /\ Fairness

-----------------------------------------------------------------------------
(* An escrow is settled only by a party to it, who signed this outcome for its
   very terms, whatever signatures for other escrows are about. *)
SettledByConsent ==
    \A e \in Escrows :
        /\ state[e] = "Released" =>
             [key |-> e.recipient, message |-> ReleaseMessage(e)] \in authorized
        /\ state[e] = "Refunded" =>
             [key |-> e.sender, message |-> RefundMessage(e)] \in authorized

(* What an owner has claimed, in however many portions, rounded each time, and
   with clocks that go back, is what one claim at the latest of those times
   would have paid. *)
ClaimsAddUp == \A s \in Schedules : claimed[s] = VestedAt(s, asked[s])

(* No money is locked for good: a schedule pays out its total, a lock its amount,
   and an escrow is released or refunded, unless one of its names is no key. *)
NothingStaysLocked ==
    /\ \A e \in Escrows :
          HasIdentity(e) => (state[e] = "Locked" ~> state[e] \in {"Released", "Refunded"})
    /\ \A k \in Locks : <>(k \in unlocked)
    /\ \A s \in Schedules : s \in vesting ~> claimed[s] = s.total
=============================================================================
