----------------------------- MODULE TokenLock ------------------------------
(***************************************************************************)
(* Token locks and vesting schedules (contracts/token-lock/src/lib.rs).    *)
(* Every call says what time it is: the clocks of the callers need not     *)
(* agree, and a later call may come with an earlier time.                  *)
(***************************************************************************)
EXTENDS Integers

CONSTANTS
    Locks,      \* token locks, [amount, unlock_at]
    Schedules,  \* parameters of schedules, [total, start, cliff, end]
    MaxU64      \* u64::MAX

ASSUME LockAssumption ==
    /\ MaxU64 \in Nat
    /\ Locks \subseteq [amount : 0 .. MaxU64, unlock_at : Nat]
    /\ Schedules \subseteq [total : 0 .. MaxU64, start : Nat, cliff : Nat, end : Nat]

VARIABLES
    unlocked,   \* the locks that were claimed
    vesting,    \* the schedules that were set up
    claimed,    \* VestingSchedule.claimed
    asked       \* history: the latest time at which the owner has called claim, or -1

lockVars == <<unlocked, vesting, claimed, asked>>

LockTypeOK ==
    /\ unlocked \subseteq Locks
    /\ vesting \subseteq Schedules
    /\ claimed \in [Schedules -> 0 .. MaxU64]
    /\ asked \in [Schedules -> Nat \cup {-1}]

LockInit ==
    /\ unlocked = {}
    /\ vesting = {}
    /\ claimed = [s \in Schedules |-> 0]
    /\ asked = [s \in Schedules |-> -1]

(* TokenLock::claim *)
ClaimLock(k, now) ==
    /\ k \notin unlocked
    /\ now >= k.unlock_at
    /\ unlocked' = unlocked \cup {k}
    /\ UNCHANGED <<vesting, claimed, asked>>

(* What new_checked asks for, and new does not. *)
Consistent(s) == s.start <= s.cliff /\ s.cliff <= s.end /\ s.start < s.end

(* VestingSchedule::new, and new_checked, which refuses some *)
NewSchedule(s, checked) ==
    /\ checked => Consistent(s)
    /\ s \notin vesting
    /\ vesting' = vesting \cup {s}
    /\ UNCHANGED <<unlocked, claimed, asked>>

(* saturating_sub *)
Minus(x, y) == IF x > y THEN x - y ELSE 0

(* vested_at.  The product is taken in u128 and does not overflow. *)
VestedAt(s, now) ==
    IF now < s.cliff THEN 0
    ELSE IF now >= s.end \/ s.end <= s.start THEN s.total
    ELSE (s.total * Minus(now, s.start)) \div (s.end - s.start)

(* Mutant of ClaimableAt: what was claimed before is not subtracted. *)
ClaimableAgain(s, now) == VestedAt(s, now)

(* claimable_at *)
ClaimableAt(s, now) == Minus(VestedAt(s, now), claimed[s])

(* VestingSchedule::claim.  With nothing to claim it is an error, and only history
   notes that it was called. *)
ClaimVested(s, now) ==
    /\ s \in vesting
    /\ claimed' = [claimed EXCEPT ![s] =
          IF @ + ClaimableAt(s, now) > MaxU64 THEN MaxU64 ELSE @ + ClaimableAt(s, now)]
    /\ asked' = [asked EXCEPT ![s] = IF now > @ THEN now ELSE @]
    /\ UNCHANGED <<unlocked, vesting>>
=============================================================================
