---------------------------- MODULE RelayScoring ----------------------------
(***************************************************************************)
(* The reputation one node keeps of one relay (arxia-relay/src/scoring.rs, *)
(* receipt.rs, slashing.rs).  Callers use any mixture of the plain, the    *)
(* timestamped and the per-target methods, each with the time of its own   *)
(* clock, and present any receipt and any slashing proof any number of     *)
(* times.  Signatures are unforgeable: a receipt and a proof say whose key *)
(* signed them.  A call that is refused changes nothing and is no step.    *)
(***************************************************************************)
EXTENDS Integers, Sequences, FiniteSets, Sums

CONSTANTS
    Relay,          \* relay_id
    Receipts,       \* [relay, message, hops, signer]
    Proofs,         \* [target, observer, signer]
    MaxHops,        \* MAX_HOPS_PER_RECEIPT
    Targets,        \* senders or destinations, as the callers name them
    Penalties,      \* what slashings may ask for, negative ones included
    Window,         \* ROLLING_WINDOW_MS
    Baseline,       \* the initial score, ROLLING_BASELINE
    MinI64, MaxI64, \* the range of an i64
    MaxU64,         \* u64::MAX, for the counts of a target
    MinSample,      \* min_sample of flag_per_target_anomalies
    Threshold,      \* its threshold, as <<numerator, denominator>>
    MaxTime,        \* bound on the clocks
    MaxFailures     \* bound on the failures recorded

ASSUME RelayAssumption ==
    /\ MinI64 \in Int /\ MaxI64 \in Int /\ Penalties \subseteq MinI64 .. MaxI64
    /\ Window \in Nat /\ MaxTime \in Nat /\ MaxFailures \in Nat /\ MaxU64 \in Nat
    /\ Baseline \in MinI64 .. MaxI64
    /\ MinSample \in Nat \ {0}
    /\ Threshold \in Nat \X (Nat \ {0})

(* Targets are 32 bytes long. *)
ASSUME FiniteTargets == IsFiniteSet(Targets)

VARIABLES
    score, relayed, failed,
    credited,       \* credited_messages
    events,         \* rolling_events: [at, delta], oldest call first
    counts,         \* per_target_counts: [ok, bad], both 0 without an entry
    journal,        \* every event that was ever put into events
    newest          \* the latest time any caller has named

scoreVars == <<score, relayed, failed, credited>>
windowVars == <<events, journal, newest>>
vars == <<scoreVars, windowVars, counts>>

Times == 0 .. MaxTime
Messages == {r.message : r \in Receipts}

SuccessDelta == 1
FailureDelta == -5
TrustThreshold == 1

Init ==
    /\ score = Baseline /\ relayed = 0 /\ failed = 0
    /\ credited = {}
    /\ events = <<>>
    /\ counts = [x \in Targets |-> [ok |-> 0, bad |-> 0]]
    /\ journal = <<>> /\ newest = 0

-----------------------------------------------------------------------------
(* The cumulative score *)

(* += and -= on an i64, which wrap in the release build. *)
Wrapped(n) == ((n - MinI64) % (MaxI64 - MinI64 + 1)) + MinI64

(* RelayReceipt::verify *)
Verifies(r) == r.hops <= MaxHops /\ r.signer = r.relay

(* Mutant of Credit: without the dedup gate. *)
CreditAgain(r) ==
    /\ r.relay = Relay /\ Verifies(r)
    /\ credited' = credited \cup {r.message}
    /\ relayed' = relayed + 1
    /\ score' = Wrapped(score + SuccessDelta)
    /\ UNCHANGED failed

(* record_success.  What counts once is the message: another receipt for it, with
   other hops or another time, is a duplicate. *)
Credit(r) ==
    /\ r.relay = Relay /\ Verifies(r)
    /\ r.message \notin credited
    /\ credited' = credited \cup {r.message}
    /\ relayed' = relayed + 1
    /\ score' = Wrapped(score + SuccessDelta)
    /\ UNCHANGED failed

(* record_failure *)
Fault ==
    /\ failed < MaxFailures
    /\ failed' = failed + 1
    /\ score' = Wrapped(score + FailureDelta)
    /\ UNCHANGED <<relayed, credited>>

(* Mutant of Floored: a plain subtraction. *)
WrappedInstead(n) == Wrapped(n)

(* saturating_sub, below *)
Floored(n) == Max({n, MinI64})

(* SlashingProof::verify: any observer will do *)
Proves(p) == p.signer = p.observer

(* slash: nothing remembers which proofs were applied *)
Slash(penalty, p) ==
    /\ penalty >= 0
    /\ p.target = Relay /\ Proves(p)
    /\ score' = Floored(score - penalty)
    /\ UNCHANGED <<relayed, failed, credited, windowVars, counts>>

IsTrusted == score >= TrustThreshold

-----------------------------------------------------------------------------
(* The rolling window *)

Cutoff(t) == Max({0, t - Window})

InWindow(e, t) == e.at >= Cutoff(t)

(* prune_rolling drops the oldest entries up to the first one in the window. *)
Pruned(s, t) ==
    LET stale == {n \in 0 .. Len(s) : \A i \in 1 .. n : ~InWindow(s[i], t)}
    IN SubSeq(s, Max(stale) + 1, Len(s))

(* A caller says what time it is. *)
At(t) == newest' = Max({t, newest})

Note(t, delta) ==
    LET e == [at |-> t, delta |-> delta] IN
    /\ events' = Pruned(Append(events, e), t)
    /\ journal' = Append(journal, e)
    /\ At(t)

PruneRolling(t) ==
    /\ events' = Pruned(events, t)
    /\ At(t)
    /\ UNCHANGED <<scoreVars, journal, counts>>

(* The deltas of the events of s that are in the window, added up. *)
WindowSum(s, t) ==
    SumOver([i \in DOMAIN s |-> s[i].delta], {i \in DOMAIN s : InWindow(s[i], t)})

(* saturating_add *)
Clamped(n) == Max({MinI64, Min({n, MaxI64})})

RollingOf(s, t) == Clamped(Baseline + Wrapped(WindowSum(s, t)))

(* Mutant of RollingScore: trusts the buffer to be pruned. *)
RollingOfBuffer(t) ==
    Clamped(Baseline + Wrapped(SumOver([i \in DOMAIN events |-> events[i].delta], DOMAIN events)))

RollingScore(t) == RollingOf(events, t)

-----------------------------------------------------------------------------
(* Per target *)

(* Mutant of Saturated: the sum wraps. *)
Overflowing(n) == n % (MaxU64 + 1)

Saturated(n) == IF n > MaxU64 THEN MaxU64 ELSE n

CountSuccess(x) == counts' = [counts EXCEPT ![x].ok = Saturated(@ + 1)]
CountFailure(x) == counts' = [counts EXCEPT ![x].bad = Saturated(@ + 1)]

(* flag_per_target_anomalies *)
Flagged ==
    {x \in Targets :
        LET total == Saturated(counts[x].ok + counts[x].bad) IN
        /\ total >= MinSample
        /\ counts[x].ok * Threshold[2] <= Threshold[1] * total}

-----------------------------------------------------------------------------
RecordSuccess(r) == Credit(r) /\ UNCHANGED <<windowVars, counts>>
RecordSuccessAt(r, t) == Credit(r) /\ Note(t, SuccessDelta) /\ UNCHANGED counts
RecordSuccessForTarget(r, x) == Credit(r) /\ CountSuccess(x) /\ UNCHANGED windowVars

RecordFailure == Fault /\ UNCHANGED <<windowVars, counts>>
RecordFailureAt(t) == Fault /\ Note(t, FailureDelta) /\ UNCHANGED counts
RecordFailureForTarget(x) == Fault /\ CountFailure(x) /\ UNCHANGED windowVars

Next ==
    \/ \E r \in Receipts :
          \/ RecordSuccess(r)
          \/ \E t \in Times : RecordSuccessAt(r, t)
          \/ \E x \in Targets : RecordSuccessForTarget(r, x)
    \/ RecordFailure
    \/ \E t \in Times : RecordFailureAt(t) \/ PruneRolling(t)
    \/ \E x \in Targets : RecordFailureForTarget(x)
    \/ \E penalty \in Penalties, p \in Proofs : Slash(penalty, p)

Spec == Init /\ [][Next]_vars

-----------------------------------------------------------------------------
Events == [at : Times, delta : {SuccessDelta, FailureDelta}]

TypeOK ==
    /\ score \in MinI64 .. MaxI64
    /\ relayed \in Nat /\ failed \in 0 .. MaxFailures
    /\ credited \subseteq Messages
    /\ events \in Seq(Events) /\ journal \in Seq(Events)
    /\ counts \in [Targets -> [ok : 0 .. MaxU64, bad : 0 .. MaxU64]]
    /\ newest \in Times

(* A message counts once, whichever methods and receipts report it: the events and
   the per-target counts together never show more successes than there are
   credited messages, nor more failures than were recorded. *)
NothingCountsTwice ==
    LET noted(delta) == Cardinality({i \in DOMAIN journal : journal[i].delta = delta}) IN
    /\ relayed = Cardinality(credited)
    /\ noted(SuccessDelta) + SumOver([x \in Targets |-> counts[x].ok], Targets) <= relayed
    /\ noted(FailureDelta) + SumOver([x \in Targets |-> counts[x].bad], Targets) <= failed

(* From the latest time named on, rolling_score counts every event of the window and
   no other, although events come with clocks that disagree and pruning, which
   looks at the front only, throws some away and keeps others too long. *)
RollingIsExact ==
    \A t \in newest .. MaxTime : RollingScore(t) = RollingOf(journal, t)

(* A relay that is not trusted becomes trusted only by relaying a message, never by
   a slashing, with one exception: a failure recorded when slashing has brought
   the score to the bottom of its range wraps. *)
TrustIsEarned ==
    [][~IsTrusted /\ IsTrusted' =>
         \/ credited' # credited
         \/ failed' # failed /\ score + FailureDelta < MinI64]_vars

(* A target whose messages the relay drops stays flagged until a message gets through
   to it, whatever the relay does for others and however long it goes on. *)
FlaggedUntilServed ==
    [][\A x \in Flagged : x \in Flagged' \/ counts'[x].ok # counts[x].ok]_vars
=============================================================================
