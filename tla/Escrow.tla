------------------------------- MODULE Escrow -------------------------------
(***************************************************************************)
(* Escrows (contracts/escrow/src/lib.rs): money that goes to the recipient *)
(* on the recipient's signature, or back to the sender, on the sender's,   *)
(* from a timeout on.  A call that returns an error changes nothing and is *)
(* not a step.  Signatures are taken as unforgeable; once made, anybody    *)
(* may present one, again and again.                                       *)
(***************************************************************************)
EXTENDS Integers

CONSTANTS
    Escrows,    \* the escrows somebody may set up, [id, sender, recipient, amount, timeout]
    Parties,    \* account names that are 32-byte keys in hexadecimal
    Malformed,  \* account names that are not
    MaxTime     \* bound: the latest time a caller may claim it is

Times == 0 .. MaxTime

ASSUME EscrowAssumption ==
    /\ MaxTime \in Nat
    /\ Escrows \subseteq [id : Nat, sender : Parties \cup Malformed,
                          recipient : Parties \cup Malformed,
                          amount : Nat, timeout : Nat]

(* What identity_bytes is about; it has no name or number of the escrow. *)
Terms(e) == [sender |-> e.sender, recipient |-> e.recipient,
             amount |-> e.amount, timeout |-> e.timeout]

(* release_message and refund_message, which differ in their domain *)
ReleaseMessage(e) == [domain |-> "release", terms |-> Terms(e)]
RefundMessage(e) == [domain |-> "refund", terms |-> Terms(e)]
Messages == {ReleaseMessage(e) : e \in Escrows} \cup {RefundMessage(e) : e \in Escrows}

VARIABLES
    state,      \* Escrow.state, or "None" before Escrow::new
    authorized  \* the signatures made, [key, message]

escrowVars == <<state, authorized>>

EscrowStates == {"None", "Locked", "Released", "Refunded"}

EscrowTypeOK ==
    /\ state \in [Escrows -> EscrowStates]
    /\ authorized \subseteq [key : Parties, message : Messages]

EscrowInit ==
    /\ state = [e \in Escrows |-> "None"]
    /\ authorized = {}

(* Escrow::new takes whatever names it is given. *)
NewEscrow(e) ==
    /\ state[e] = "None"
    /\ state' = [state EXCEPT ![e] = "Locked"]
    /\ UNCHANGED authorized

(* A party signs for an escrow it has a part in. *)
Authorize(k, e) ==
    /\ state[e] # "None"
    /\ \E m \in {x \in {ReleaseMessage(e)} : k = e.recipient}
                \cup {x \in {RefundMessage(e)} : k = e.sender} :
          /\ [key |-> k, message |-> m] \notin authorized
          /\ authorized' = authorized \cup {[key |-> k, message |-> m]}
    /\ UNCHANGED state

(* Mutant of Covers: the message leaves the timeout out. *)
CoversAnyTimeout(m, n) ==
    m.domain = n.domain /\ [m.terms EXCEPT !.timeout = 0] = [n.terms EXCEPT !.timeout = 0]

(* A signature on m verifies for the message n. *)
Covers(m, n) == m = n

(* identity_bytes fails unless both names are keys. *)
HasIdentity(e) == e.sender \in Parties /\ e.recipient \in Parties

(* Escrow::release: at any time, also once a refund is possible *)
Release(e, sig) ==
    /\ state[e] = "Locked"
    /\ HasIdentity(e)
    /\ sig.key = e.recipient
    /\ Covers(sig.message, ReleaseMessage(e))
    /\ state' = [state EXCEPT ![e] = "Released"]
    /\ UNCHANGED authorized

(* Mutant of RefundOpen: the refund opens one moment after the timeout. *)
RefundOpenLate(e, now) == now > e.timeout

RefundOpen(e, now) == now >= e.timeout

(* Escrow::refund *)
Refund(e, sig, now) ==
    /\ state[e] = "Locked"
    /\ RefundOpen(e, now)
    /\ HasIdentity(e)
    /\ sig.key = e.sender
    /\ Covers(sig.message, RefundMessage(e))
    /\ state' = [state EXCEPT ![e] = "Refunded"]
    /\ UNCHANGED authorized
=============================================================================
