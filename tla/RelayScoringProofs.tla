------------------------- MODULE RelayScoringProofs -------------------------
(***************************************************************************)
(* Proofs about the reputation a node keeps of a relay, for any receipts,  *)
(* proofs, targets, penalties, clocks and widths of the integers: nothing  *)
(* is counted twice, the rolling score is exact, and what may and may not  *)
(* make a relay trusted or take a target off the list of anomalies.        *)
(***************************************************************************)
EXTENDS RelayScoring, SumsProofs, SequenceTheorems

Noted(delta) == {i \in DOMAIN journal : journal[i].delta = delta}
Successes == SumOver([x \in Targets |-> counts[x].ok], Targets)
Failures == SumOver([x \in Targets |-> counts[x].bad], Targets)

(* What an event of the journal or a count of a target stands for. *)
CountInv ==
    /\ IsFiniteSet(credited) /\ relayed = Cardinality(credited)
    /\ Cardinality(Noted(SuccessDelta)) + Successes <= relayed
    /\ Cardinality(Noted(FailureDelta)) + Failures <= failed

(* How many events prune_rolling has dropped so far. *)
Dropped == Len(journal) - Len(events)

(* The buffer is the end of the journal, and what was dropped had left the window
   by the latest time named. *)
WindowInv ==
    /\ Dropped \in Nat
    /\ \A i \in 1 .. Len(events) : events[i] = journal[Dropped + i]
    /\ \A i \in 1 .. Dropped : ~InWindow(journal[i], newest)

ScoreInv == TypeOK /\ CountInv /\ WindowInv

-----------------------------------------------------------------------------
(* Arithmetic. *)

LEMMA WrappedTyped ==
    ASSUME NEW n \in Int
    PROVE  /\ Wrapped(n) \in MinI64 .. MaxI64
           /\ n \in MinI64 .. MaxI64 => Wrapped(n) = n
<1> DEFINE m == MaxI64 - MinI64 + 1
<1>1. MinI64 \in Int /\ MaxI64 \in Int /\ m \in Int /\ m > 0
  BY RelayAssumption
<1>2. \A k \in Int : k % m \in 0 .. m - 1 /\ (k \in 0 .. m - 1 => k % m = k)
  <2> HIDE DEF m
  <2> QED
    BY <1>1
<1>3. n - MinI64 \in Int
  BY <1>1
<1>4. (n - MinI64) % m \in 0 .. m - 1
  BY <1>2, <1>3
<1>5. n \in MinI64 .. MaxI64 => (n - MinI64) % m = n - MinI64
  BY <1>1, <1>2, <1>3
<1> QED
  BY <1>1, <1>4, <1>5 DEF Wrapped

LEMMA FlooredTyped ==
    ASSUME NEW s \in MinI64 .. MaxI64, NEW p \in Int, p >= 0
    PROVE  Floored(s - p) \in MinI64 .. MaxI64 /\ Floored(s - p) <= s
<1>1. MinI64 \in Int /\ MaxI64 \in Int
  BY RelayAssumption
<1> QED
  BY <1>1, MaxOfTwo DEF Floored

LEMMA Later ==
    ASSUME NEW t \in Times, NEW u \in Times
    PROVE  Max({t, u}) \in Times /\ Max({t, u}) >= t /\ Max({t, u}) >= u
BY MaxOfTwo, RelayAssumption DEF Times

(* What has left the window stays out of it. *)
LEMMA WindowMoves ==
    ASSUME NEW e \in Events, NEW t \in Nat, NEW u \in Nat, t <= u, ~InWindow(e, t)
    PROVE  ~InWindow(e, u)
<1>1. e.at \in Int /\ Window \in Nat
  BY RelayAssumption DEF Events, Times
<1>2. Cutoff(t) = (IF 0 >= t - Window THEN 0 ELSE t - Window)
      /\ Cutoff(u) = (IF 0 >= u - Window THEN 0 ELSE u - Window)
  BY <1>1, MaxOfTwo DEF Cutoff
<1> QED
  BY <1>1, <1>2 DEF InWindow

LEMMA Pruning ==
    ASSUME NEW s \in Seq(Events), NEW t
    PROVE  \E m \in 0 .. Len(s) :
             /\ Pruned(s, t) \in Seq(Events)
             /\ Len(Pruned(s, t)) = Len(s) - m
             /\ \A i \in 1 .. Len(s) - m : Pruned(s, t)[i] = s[m + i]
             /\ \A i \in 1 .. m : ~InWindow(s[i], t)
<1> DEFINE stale == {n \in 0 .. Len(s) : \A i \in 1 .. n : ~InWindow(s[i], t)}
           m == Max(stale)
<1>1. Len(s) \in Nat /\ stale \in SUBSET (0 .. Len(s)) /\ 0 \in stale
  OBVIOUS
<1>2. m \in stale
  <2> HIDE DEF stale
  <2> QED
    BY <1>1, MaxIn
<1>3. m \in 0 .. Len(s) /\ \A i \in 1 .. m : ~InWindow(s[i], t)
  BY <1>2
<1>4. Pruned(s, t) = SubSeq(s, m + 1, Len(s))
  BY DEF Pruned
<1> HIDE DEF m
<1>5. \A i \in m + 1 .. Len(s) : s[i] \in Events
  BY <1>1, <1>3
<1>6. m + 1 \in Int /\ Len(s) \in Int
  BY <1>1, <1>3
<1>7. /\ SubSeq(s, m + 1, Len(s)) \in Seq(Events)
      /\ Len(SubSeq(s, m + 1, Len(s))) = IF m + 1 <= Len(s) THEN Len(s) - (m + 1) + 1 ELSE 0
      /\ \A i \in 1 .. Len(s) - (m + 1) + 1 : SubSeq(s, m + 1, Len(s))[i] = s[m + 1 + i - 1]
  BY <1>5, <1>6, SubSeqProperties
<1>8. /\ Pruned(s, t) \in Seq(Events)
      /\ Len(Pruned(s, t)) = Len(s) - m
      /\ \A i \in 1 .. Len(s) - m : Pruned(s, t)[i] = s[m + i]
  BY <1>1, <1>3, <1>4, <1>7
<1> QED
  BY <1>3, <1>8

-----------------------------------------------------------------------------
(* Types. *)

LEMMA CreditTyped ==
    ASSUME TypeOK, NEW r \in Receipts, Credit(r)
    PROVE  /\ score' \in MinI64 .. MaxI64 /\ relayed' \in Nat /\ failed' \in 0 .. MaxFailures
           /\ credited' \subseteq Messages
<1>1. score + SuccessDelta \in Int
  BY RelayAssumption DEF TypeOK, SuccessDelta
<1> QED
  BY <1>1, WrappedTyped DEF TypeOK, Credit, Messages

LEMMA FaultTyped ==
    ASSUME TypeOK, Fault
    PROVE  /\ score' \in MinI64 .. MaxI64 /\ relayed' \in Nat /\ failed' \in 0 .. MaxFailures
           /\ credited' \subseteq Messages
<1>1. score + FailureDelta \in Int
  BY RelayAssumption DEF TypeOK, FailureDelta
<1> QED
  BY <1>1, WrappedTyped, RelayAssumption DEF TypeOK, Fault

LEMMA NoteTyped ==
    ASSUME TypeOK, NEW t \in Times, NEW delta \in {SuccessDelta, FailureDelta}, Note(t, delta)
    PROVE  events' \in Seq(Events) /\ journal' \in Seq(Events) /\ newest' \in Times
<1> DEFINE e == [at |-> t, delta |-> delta]
<1>1. e \in Events
  BY DEF Events
<1> HIDE DEF e
<1>2. Append(events, e) \in Seq(Events) /\ Append(journal, e) \in Seq(Events)
  BY <1>1 DEF TypeOK
<1>3. Pruned(Append(events, e), t) \in Seq(Events)
  BY <1>2, Pruning
<1> QED
  BY <1>2, <1>3, Later DEF Note, At, TypeOK, e

LEMMA CountTyped ==
    ASSUME TypeOK, NEW x \in Targets, CountSuccess(x) \/ CountFailure(x)
    PROVE  counts' \in [Targets -> [ok : 0 .. MaxU64, bad : 0 .. MaxU64]]
<1>1. counts[x] \in [ok : 0 .. MaxU64, bad : 0 .. MaxU64]
      /\ counts \in [Targets -> [ok : 0 .. MaxU64, bad : 0 .. MaxU64]]
  BY DEF TypeOK
<1>2. Saturated(counts[x].ok + 1) \in 0 .. MaxU64 /\ Saturated(counts[x].bad + 1) \in 0 .. MaxU64
  BY <1>1, RelayAssumption DEF Saturated
<1> HIDE DEF Saturated
<1> QED
  BY <1>1, <1>2 DEF CountSuccess, CountFailure

LEMMA TypeStep ==
    ASSUME TypeOK, [Next]_vars
    PROVE  TypeOK'
<1>1. ASSUME NEW r \in Receipts, RecordSuccess(r) PROVE TypeOK'
  BY <1>1, CreditTyped DEF RecordSuccess, TypeOK, windowVars
<1>2. ASSUME NEW r \in Receipts, NEW t \in Times, RecordSuccessAt(r, t) PROVE TypeOK'
  BY <1>2, CreditTyped, NoteTyped DEF RecordSuccessAt, TypeOK
<1>3. ASSUME NEW r \in Receipts, NEW x \in Targets, RecordSuccessForTarget(r, x) PROVE TypeOK'
  BY <1>3, CreditTyped, CountTyped DEF RecordSuccessForTarget, TypeOK, windowVars
<1>4. ASSUME RecordFailure PROVE TypeOK'
  BY <1>4, FaultTyped DEF RecordFailure, TypeOK, windowVars
<1>5. ASSUME NEW t \in Times, RecordFailureAt(t) PROVE TypeOK'
  BY <1>5, FaultTyped, NoteTyped DEF RecordFailureAt, TypeOK
<1>6. ASSUME NEW t \in Times, PruneRolling(t) PROVE TypeOK'
  <2>1. Pruned(events, t) \in Seq(Events)
    BY Pruning DEF TypeOK
  <2> QED
    BY <1>6, <2>1, Later DEF PruneRolling, At, TypeOK, scoreVars
<1>7. ASSUME NEW x \in Targets, RecordFailureForTarget(x) PROVE TypeOK'
  BY <1>7, FaultTyped, CountTyped DEF RecordFailureForTarget, TypeOK, windowVars
<1>8. ASSUME NEW penalty \in Penalties, NEW p \in Proofs, Slash(penalty, p) PROVE TypeOK'
  <2>1. penalty \in Int /\ penalty >= 0
    BY <1>8, RelayAssumption DEF Slash
  <2>2. score' \in MinI64 .. MaxI64
    BY <1>8, <2>1, FlooredTyped DEF Slash, TypeOK
  <2> QED
    BY <1>8, <2>2 DEF Slash, TypeOK, windowVars
<1>9. CASE UNCHANGED vars
  BY <1>9 DEF vars, scoreVars, windowVars, TypeOK
<1> QED
  BY <1>1, <1>2, <1>3, <1>4, <1>5, <1>6, <1>7, <1>8, <1>9 DEF Next

-----------------------------------------------------------------------------
(* Nothing counts twice. *)

(* An event more in the journal is one more of its kind. *)
LEMMA NotedGrows ==
    ASSUME TypeOK, NEW e \in Events, journal' = Append(journal, e), NEW delta
    PROVE  /\ IsFiniteSet(Noted(delta)) /\ Cardinality(Noted(delta)) \in Nat
           /\ Cardinality(Noted(delta)') =
                Cardinality(Noted(delta)) + IF e.delta = delta THEN 1 ELSE 0
<1> DEFINE n == Len(journal)
<1>1. /\ n \in Nat /\ DOMAIN journal = 1 .. n /\ DOMAIN journal' = 1 .. n + 1
      /\ journal'[n + 1] = e /\ \A i \in 1 .. n : journal'[i] = journal[i]
  BY DEF TypeOK
<1> HIDE DEF n
<1>2. IsFiniteSet(Noted(delta))
  <2>1. Noted(delta) \subseteq 1 .. n
    BY <1>1 DEF Noted
  <2>2. IsFiniteSet(1 .. n)
    BY <1>1, FS_Interval
  <2> QED
    BY <2>1, <2>2, FS_Subset
<1>3. n + 1 \notin Noted(delta)
  BY <1>1 DEF Noted
<1>4. Noted(delta)' = IF e.delta = delta THEN Noted(delta) \cup {n + 1} ELSE Noted(delta)
  BY <1>1 DEF Noted
<1>5. Cardinality(Noted(delta)) \in Nat
      /\ Cardinality(Noted(delta) \cup {n + 1}) = Cardinality(Noted(delta)) + 1
  BY <1>2, <1>3, FS_CardinalityType, FS_AddElement
<1> QED
  BY <1>2, <1>4, <1>5

LEMMA CountsNat ==
    ASSUME TypeOK
    PROVE  /\ Successes \in Nat /\ Failures \in Nat
           /\ \A d : Cardinality(Noted(d)) \in Nat
<1>1. \A x \in Targets : counts[x].ok \in Nat /\ counts[x].bad \in Nat
  BY DEF TypeOK
<1> DEFINE f == [x \in Targets |-> counts[x].ok]
           g == [x \in Targets |-> counts[x].bad]
<1>2. \A x \in Targets : f[x] \in Nat /\ g[x] \in Nat
  BY <1>1
<1>3. Successes = SumOver(f, Targets) /\ Failures = SumOver(g, Targets)
  BY DEF Successes, Failures
<1> HIDE DEF f, g
<1>4. ASSUME NEW d PROVE Cardinality(Noted(d)) \in Nat
  <2>1. Noted(d) \subseteq 1 .. Len(journal) /\ Len(journal) \in Nat
    BY DEF Noted, TypeOK
  <2>2. IsFiniteSet(1 .. Len(journal))
    BY <2>1, FS_Interval
  <2>3. IsFiniteSet(Noted(d))
    BY <2>1, <2>2, FS_Subset
  <2> QED
    BY <2>3, FS_CardinalityType
<1> QED
  BY <1>2, <1>3, <1>4, SumNat, FiniteTargets

(* Counting for a target adds at most one to the sum of its kind. *)
LEMMA SumGrows ==
    ASSUME TypeOK, NEW x \in Targets
    PROVE  /\ CountSuccess(x) =>
                Successes' \in Int /\ Successes' <= Successes + 1 /\ Failures' = Failures
           /\ CountFailure(x) =>
                Failures' \in Int /\ Failures' <= Failures + 1 /\ Successes' = Successes
<1> DEFINE f == [y \in Targets |-> counts[y].ok]
           g == [y \in Targets |-> counts[y].bad]
           h == [y \in Targets |-> counts'[y].ok]
           k == [y \in Targets |-> counts'[y].bad]
<1>1. \A y \in Targets : counts[y].ok \in 0 .. MaxU64 /\ counts[y].bad \in 0 .. MaxU64
  BY DEF TypeOK
<1>2. Successes = SumOver(f, Targets) /\ Failures = SumOver(g, Targets)
      /\ Successes' = SumOver(h, Targets) /\ Failures' = SumOver(k, Targets)
  BY DEF Successes, Failures
<1>3. Saturated(counts[x].ok + 1) \in Int /\ Saturated(counts[x].ok + 1) <= counts[x].ok + 1
      /\ Saturated(counts[x].bad + 1) \in Int /\ Saturated(counts[x].bad + 1) <= counts[x].bad + 1
  BY <1>1, RelayAssumption DEF Saturated
<1>4. \A y \in Targets : f[y] \in Int /\ g[y] \in Int
  BY <1>1
<1>5. SumOver(f, Targets) \in Int /\ SumOver(g, Targets) \in Int
  <2> HIDE DEF f, g
  <2> QED
    BY <1>4, SumInt, FiniteTargets
<1>6. ASSUME CountSuccess(x)
      PROVE  Successes' \in Int /\ Successes' <= Successes + 1 /\ Failures' = Failures
  <2>1. /\ counts'[x].ok = Saturated(counts[x].ok + 1) /\ counts'[x].bad = counts[x].bad
        /\ \A y \in Targets \ {x} : counts'[y] = counts[y]
    BY <1>6 DEF CountSuccess, TypeOK
  <2>2. \A y \in Targets \ {x} : h[y] = f[y]
    BY <2>1
  <2>3. h[x] \in Int /\ h[x] <= f[x] + 1
    BY <2>1, <1>3
  <2>4. k = g
    BY <2>1
  <2> HIDE DEF f, g, h, k
  <2>5. SumOver(h, Targets) = SumOver(f, Targets) - f[x] + h[x]
    BY <1>4, <2>2, <2>3, SumChange, FiniteTargets
  <2>6. SumOver(h, Targets) \in Int /\ SumOver(h, Targets) <= SumOver(f, Targets) + 1
    BY <1>4, <1>5, <2>3, <2>5
  <2> QED
    BY <1>2, <2>4, <2>6
<1>7. ASSUME CountFailure(x)
      PROVE  Failures' \in Int /\ Failures' <= Failures + 1 /\ Successes' = Successes
  <2>1. /\ counts'[x].bad = Saturated(counts[x].bad + 1) /\ counts'[x].ok = counts[x].ok
        /\ \A y \in Targets \ {x} : counts'[y] = counts[y]
    BY <1>7 DEF CountFailure, TypeOK
  <2>2. \A y \in Targets \ {x} : k[y] = g[y]
    BY <2>1
  <2>3. k[x] \in Int /\ k[x] <= g[x] + 1
    BY <2>1, <1>3
  <2>4. h = f
    BY <2>1
  <2> HIDE DEF f, g, h, k
  <2>5. SumOver(k, Targets) = SumOver(g, Targets) - g[x] + k[x]
    BY <1>4, <2>2, <2>3, SumChange, FiniteTargets
  <2>6. SumOver(k, Targets) \in Int /\ SumOver(k, Targets) <= SumOver(g, Targets) + 1
    BY <1>4, <1>5, <2>3, <2>5
  <2> QED
    BY <1>2, <2>4, <2>6
<1> QED
  BY <1>6, <1>7

LEMMA CountStep ==
    ASSUME TypeOK, CountInv, [Next]_vars
    PROVE  CountInv'
<1> DEFINE ok == Cardinality(Noted(SuccessDelta))
           bad == Cardinality(Noted(FailureDelta))
<1>1. /\ ok \in Nat /\ bad \in Nat /\ Successes \in Nat /\ Failures \in Nat
      /\ relayed \in Nat /\ failed \in Nat
  BY CountsNat DEF TypeOK
<1>4. ASSUME NEW r \in Receipts, Credit(r)
      PROVE  /\ IsFiniteSet(credited') /\ relayed' = Cardinality(credited')
             /\ relayed' = relayed + 1 /\ failed' = failed
  BY <1>4, FS_AddElement DEF Credit, CountInv
<1>5. ASSUME Fault
      PROVE  credited' = credited /\ relayed' = relayed /\ failed' = failed + 1
  BY <1>5 DEF Fault
<1>6. ASSUME NEW t \in Times, Note(t, SuccessDelta) PROVE ok' = ok + 1 /\ bad' = bad
  <2> DEFINE e == [at |-> t, delta |-> SuccessDelta]
  <2>1. e \in Events /\ e.delta = SuccessDelta /\ e.delta # FailureDelta
    BY DEF Events, SuccessDelta, FailureDelta
  <2>2. journal' = Append(journal, e)
    BY <1>6 DEF Note
  <2> HIDE DEF e
  <2> QED
    BY <1>1, <2>1, <2>2, NotedGrows
<1>7. ASSUME NEW t \in Times, Note(t, FailureDelta) PROVE ok' = ok /\ bad' = bad + 1
  <2> DEFINE e == [at |-> t, delta |-> FailureDelta]
  <2>1. e \in Events /\ e.delta = FailureDelta /\ e.delta # SuccessDelta
    BY DEF Events, SuccessDelta, FailureDelta
  <2>2. journal' = Append(journal, e)
    BY <1>7 DEF Note
  <2> HIDE DEF e
  <2> QED
    BY <1>1, <2>1, <2>2, NotedGrows
<1>8. ASSUME journal' = journal PROVE ok' = ok /\ bad' = bad
  BY <1>8 DEF Noted, SuccessDelta, FailureDelta
<1>9. ASSUME counts' = counts PROVE Successes' = Successes /\ Failures' = Failures
  BY <1>9 DEF Successes, Failures
<1> HIDE DEF ok, bad
<1>10. CountInv <=> /\ IsFiniteSet(credited) /\ relayed = Cardinality(credited)
                    /\ ok + Successes <= relayed /\ bad + Failures <= failed
  BY DEF CountInv, ok, bad
<1>11. CountInv' <=> /\ IsFiniteSet(credited') /\ relayed' = Cardinality(credited')
                     /\ ok' + Successes' <= relayed' /\ bad' + Failures' <= failed'
  BY DEF CountInv, ok, bad
<1>12. ASSUME NEW r \in Receipts, RecordSuccess(r) PROVE CountInv'
  BY <1>1, <1>4, <1>8, <1>9, <1>10, <1>11, <1>12 DEF RecordSuccess, windowVars
<1>13. ASSUME NEW r \in Receipts, NEW t \in Times, RecordSuccessAt(r, t) PROVE CountInv'
  BY <1>1, <1>4, <1>6, <1>9, <1>10, <1>11, <1>13 DEF RecordSuccessAt
<1>14. ASSUME NEW r \in Receipts, NEW x \in Targets, RecordSuccessForTarget(r, x) PROVE CountInv'
  BY <1>1, <1>4, <1>8, <1>10, <1>11, <1>14, SumGrows DEF RecordSuccessForTarget, windowVars
<1>15. ASSUME RecordFailure PROVE CountInv'
  BY <1>1, <1>5, <1>8, <1>9, <1>10, <1>11, <1>15 DEF RecordFailure, windowVars
<1>16. ASSUME NEW t \in Times, RecordFailureAt(t) PROVE CountInv'
  BY <1>1, <1>5, <1>7, <1>9, <1>10, <1>11, <1>16 DEF RecordFailureAt
<1>17. ASSUME NEW x \in Targets, RecordFailureForTarget(x) PROVE CountInv'
  BY <1>1, <1>5, <1>8, <1>10, <1>11, <1>17, SumGrows DEF RecordFailureForTarget, windowVars
<1>18. ASSUME UNCHANGED <<journal, counts, relayed, failed, credited>> PROVE CountInv'
  BY <1>8, <1>9, <1>10, <1>11, <1>18
<1>19. ASSUME NEW t \in Times, PruneRolling(t) PROVE CountInv'
  BY <1>18, <1>19 DEF PruneRolling, scoreVars
<1>20. ASSUME NEW penalty \in Penalties, NEW p \in Proofs, Slash(penalty, p) PROVE CountInv'
  BY <1>18, <1>20 DEF Slash, windowVars
<1>21. CASE UNCHANGED vars
  BY <1>18, <1>21 DEF vars, scoreVars, windowVars
<1> QED
  BY <1>12, <1>13, <1>14, <1>15, <1>16, <1>17, <1>19, <1>20, <1>21 DEF Next

-----------------------------------------------------------------------------
(* The rolling window. *)

(* The buffer s, the end of the journal j, is pruned at t. *)
LEMMA PrunedEnd ==
    ASSUME NEW s \in Seq(Events), NEW j \in Seq(Events), NEW u \in Times, NEW t \in Times,
           Len(j) - Len(s) \in Nat,
           \A i \in 1 .. Len(s) : s[i] = j[Len(j) - Len(s) + i],
           \A i \in 1 .. Len(j) - Len(s) : ~InWindow(j[i], u)
    PROVE  LET p == Pruned(s, t)
               d == Len(j) - Len(p)
           IN /\ d \in Nat
              /\ \A i \in 1 .. Len(p) : p[i] = j[d + i]
              /\ \A i \in 1 .. d : ~InWindow(j[i], Max({t, u}))
<1> DEFINE p == Pruned(s, t)
           d == Len(j) - Len(p)
           c == Len(j) - Len(s)
           now == Max({t, u})
<1> SUFFICES /\ d \in Nat
             /\ \A i \in 1 .. Len(p) : p[i] = j[d + i]
             /\ \A i \in 1 .. d : ~InWindow(j[i], now)
  OBVIOUS
<1>1. PICK m \in 0 .. Len(s) :
         /\ p \in Seq(Events)
         /\ Len(p) = Len(s) - m
         /\ \A i \in 1 .. Len(s) - m : p[i] = s[m + i]
         /\ \A i \in 1 .. m : ~InWindow(s[i], t)
  BY Pruning
<1>2. now \in Nat /\ t <= now /\ u <= now /\ t \in Nat /\ u \in Nat
  BY Later, RelayAssumption DEF Times
<1> HIDE DEF p, now
<1>3. Len(s) \in Nat /\ Len(j) \in Nat /\ c \in Nat /\ d = c + m /\ m \in Nat
  BY <1>1
<1>4. ASSUME NEW i \in 1 .. Len(p) PROVE p[i] = j[d + i]
  <2>1. m + i \in 1 .. Len(s) /\ i \in 1 .. Len(s) - m
    BY <1>1, <1>3
  <2>2. p[i] = s[m + i] /\ s[m + i] = j[c + (m + i)]
    BY <1>1, <2>1
  <2>3. c + (m + i) = d + i
    BY <1>1, <1>3
  <2> QED
    BY <2>2, <2>3
<1>5. ASSUME NEW i \in 1 .. d PROVE ~InWindow(j[i], now)
  <2>1. i \in 1 .. Len(j) /\ j[i] \in Events
    BY <1>1, <1>3
  <2>2. CASE i <= c
    <3>1. ~InWindow(j[i], u)
      BY <1>3, <2>2
    <3> QED
      BY <1>2, <2>1, <3>1, WindowMoves
  <2>3. CASE i > c
    <3>1. i - c \in 1 .. m /\ i - c \in 1 .. Len(s) /\ c + (i - c) = i
      BY <1>1, <1>3, <2>3
    <3>2. ~InWindow(j[i], t)
      BY <1>1, <3>1
    <3> QED
      BY <1>2, <2>1, <3>2, WindowMoves
  <2> QED
    BY <1>3, <2>2, <2>3
<1> QED
  BY <1>3, <1>4, <1>5

LEMMA NoteKeepsWindow ==
    ASSUME TypeOK, WindowInv, NEW t \in Times, NEW delta \in {SuccessDelta, FailureDelta},
           Note(t, delta)
    PROVE  WindowInv'
<1> DEFINE e == [at |-> t, delta |-> delta]
           s == Append(events, e)
           j == Append(journal, e)
<1>1. e \in Events
  BY DEF Events
<1>2. events' = Pruned(s, t) /\ journal' = j /\ newest' = Max({t, newest})
  BY DEF Note, At
<1> HIDE DEF e
<1>3. /\ events \in Seq(Events) /\ journal \in Seq(Events) /\ newest \in Times
      /\ Len(events) \in Nat /\ Len(journal) \in Nat /\ Len(journal) - Len(events) \in Nat
      /\ \A i \in 1 .. Len(events) : events[i] = journal[Len(journal) - Len(events) + i]
      /\ \A i \in 1 .. Len(journal) - Len(events) : ~InWindow(journal[i], newest)
  BY DEF TypeOK, WindowInv, Dropped
<1>4. /\ s \in Seq(Events) /\ Len(s) = Len(events) + 1
      /\ s[Len(events) + 1] = e /\ \A i \in 1 .. Len(events) : s[i] = events[i]
  BY <1>1, <1>3, AppendProperties
<1>5. /\ j \in Seq(Events) /\ Len(j) = Len(journal) + 1
      /\ j[Len(journal) + 1] = e /\ \A i \in 1 .. Len(journal) : j[i] = journal[i]
  BY <1>1, <1>3, AppendProperties
<1> HIDE DEF s, j
<1>6. Len(j) - Len(s) = Len(journal) - Len(events) /\ Len(j) - Len(s) \in Nat
  BY <1>3, <1>4, <1>5
<1>7. ASSUME NEW i \in 1 .. Len(s) PROVE s[i] = j[Len(j) - Len(s) + i]
  <2>1. CASE i = Len(events) + 1
    <3>1. Len(j) - Len(s) + i = Len(journal) + 1
      <4>1. Len(journal) - Len(events) + (Len(events) + 1) = Len(journal) + 1
        BY <1>3
      <4> QED
        BY <1>6, <2>1, <4>1
    <3> QED
      BY <1>4, <1>5, <2>1, <3>1
  <2>2. CASE i # Len(events) + 1
    <3>1. i \in 1 .. Len(events)
      BY <1>3, <1>4, <2>2
    <3>2. Len(journal) - Len(events) + i \in 1 .. Len(journal)
      BY <1>3, <3>1
    <3> QED
      BY <1>3, <1>4, <1>5, <1>6, <3>1, <3>2
  <2> QED
    BY <2>1, <2>2
<1>8. ASSUME NEW i \in 1 .. Len(j) - Len(s) PROVE ~InWindow(j[i], newest)
  <2>1. i \in 1 .. Len(journal) /\ i \in 1 .. Len(journal) - Len(events)
    BY <1>3, <1>6
  <2> QED
    BY <1>3, <1>5, <2>1
<1> DEFINE p == Pruned(s, t)
           d == Len(j) - Len(p)
<1>9. /\ d \in Nat
      /\ \A i \in 1 .. Len(p) : p[i] = j[d + i]
      /\ \A i \in 1 .. d : ~InWindow(j[i], Max({t, newest}))
  BY <1>3, <1>4, <1>5, <1>6, <1>7, <1>8, PrunedEnd
<1> QED
  BY <1>2, <1>9 DEF WindowInv, Dropped, InWindow, Cutoff

LEMMA WindowStep ==
    ASSUME TypeOK, WindowInv, [Next]_vars
    PROVE  WindowInv'
<1>1. ASSUME NEW r \in Receipts, NEW t \in Times, RecordSuccessAt(r, t) PROVE WindowInv'
  BY <1>1, NoteKeepsWindow DEF RecordSuccessAt
<1>2. ASSUME NEW t \in Times, RecordFailureAt(t) PROVE WindowInv'
  BY <1>2, NoteKeepsWindow DEF RecordFailureAt
<1>3. ASSUME NEW t \in Times, PruneRolling(t) PROVE WindowInv'
  <2>1. events' = Pruned(events, t) /\ journal' = journal /\ newest' = Max({t, newest})
    BY <1>3 DEF PruneRolling, At
  <2> DEFINE p == Pruned(events, t)
             d == Len(journal) - Len(p)
  <2>2. /\ d \in Nat
        /\ \A i \in 1 .. Len(p) : p[i] = journal[d + i]
        /\ \A i \in 1 .. d : ~InWindow(journal[i], Max({t, newest}))
    BY PrunedEnd DEF TypeOK, WindowInv, Dropped
  <2> QED
    BY <2>1, <2>2 DEF WindowInv, Dropped, InWindow, Cutoff
<1>4. ASSUME UNCHANGED windowVars PROVE WindowInv'
  BY <1>4 DEF WindowInv, Dropped, windowVars, InWindow, Cutoff
<1> QED
  BY <1>1, <1>2, <1>3, <1>4
     DEF Next, RecordSuccess, RecordSuccessForTarget, RecordFailure, RecordFailureForTarget,
         Slash, vars

(* The events of the journal that are in the window are those of the buffer. *)
LEMMA SameWindow ==
    ASSUME TypeOK, WindowInv, NEW t \in Nat, t >= newest
    PROVE  WindowSum(events, t) = WindowSum(journal, t)
<1> DEFINE f == [i \in DOMAIN events |-> events[i].delta]
           g == [i \in DOMAIN journal |-> journal[i].delta]
           S == {i \in DOMAIN events : InWindow(events[i], t)}
           T == {i \in DOMAIN journal : InWindow(journal[i], t)}
           d == Dropped
<1>1. /\ Len(events) \in Nat /\ Len(journal) \in Nat /\ newest \in Nat
      /\ DOMAIN events = 1 .. Len(events) /\ DOMAIN journal = 1 .. Len(journal)
      /\ \A i \in 1 .. Len(journal) : journal[i] \in Events
      /\ \A i \in 1 .. Len(events) : events[i] \in Events
  BY RelayAssumption DEF TypeOK, Times
<1>2. /\ d \in Nat /\ d = Len(journal) - Len(events)
      /\ \A i \in 1 .. Len(events) : events[i] = journal[d + i]
      /\ \A i \in 1 .. d : ~InWindow(journal[i], newest)
  BY DEF WindowInv, Dropped
<1> HIDE DEF d
<1>3. \A i \in 1 .. d : i \in 1 .. Len(journal) /\ ~InWindow(journal[i], t)
  <2> TAKE i \in 1 .. d
  <2>1. i \in 1 .. Len(journal) /\ journal[i] \in Events /\ ~InWindow(journal[i], newest)
    BY <1>1, <1>2
  <2> QED
    BY <1>1, <2>1, WindowMoves
<1>4. T = {i + d : i \in S}
  <2>1. ASSUME NEW k \in T PROVE k \in {i + d : i \in S}
    <3>1. k \in 1 .. Len(journal) /\ InWindow(journal[k], t)
      BY <1>1
    <3>2. k > d
      BY <1>2, <1>3, <3>1
    <3>3. k - d \in 1 .. Len(events) /\ d + (k - d) = k /\ k = (k - d) + d
      BY <1>1, <1>2, <3>1, <3>2
    <3>4. k - d \in S
      BY <1>1, <1>2, <3>1, <3>3
    <3> QED
      BY <3>3, <3>4
  <2>2. ASSUME NEW i \in S PROVE i + d \in T
    <3>1. i \in 1 .. Len(events) /\ InWindow(events[i], t)
      BY <1>1
    <3>2. i + d \in 1 .. Len(journal) /\ i + d = d + i
      BY <1>1, <1>2, <3>1
    <3> QED
      BY <1>1, <1>2, <3>1, <3>2
  <2> QED
    BY <2>1, <2>2
<1>5. S \in SUBSET Int /\ IsFiniteSet(S)
  <2>1. S \subseteq 1 .. Len(events)
    BY <1>1
  <2>2. IsFiniteSet(1 .. Len(events))
    BY <1>1, FS_Interval
  <2> QED
    BY <1>1, <2>1, <2>2, FS_Subset
<1>6. \A i \in S : f[i] \in Int /\ g[i + d] = f[i]
  <2> TAKE i \in S
  <2>1. i \in 1 .. Len(events) /\ events[i] \in Events /\ i + d \in 1 .. Len(journal)
        /\ journal[i + d] = events[i]
    <3>1. i \in 1 .. Len(events)
      BY <1>1
    <3>2. i + d = d + i
      BY <1>2, <3>1
    <3> QED
      BY <1>1, <1>2, <3>1, <3>2
  <2> QED
    BY <1>1, <2>1 DEF Events, SuccessDelta, FailureDelta
<1>7. WindowSum(events, t) = SumOver(f, S) /\ WindowSum(journal, t) = SumOver(g, T)
  BY DEF WindowSum
<1> HIDE DEF f, g, S, T
<1>8. SumOver(g, {i + d : i \in S}) = SumOver(f, S)
  <2>1. d \in Int
    BY <1>2
  <2> QED
    BY <2>1, <1>5, <1>6, SumShift
<1> QED
  BY <1>4, <1>7, <1>8

-----------------------------------------------------------------------------
(* The theorems. *)

LEMMA ScoreInit == Init => ScoreInv
<1> SUFFICES ASSUME Init PROVE ScoreInv
  OBVIOUS
<1>1. TypeOK
  BY RelayAssumption DEF Init, TypeOK, Times
<1>2. WindowInv
  BY DEF Init, WindowInv, Dropped
<1>3. \A d : Noted(d) = {}
  BY DEF Init, Noted
<1>4. Successes = 0 /\ Failures = 0
  <2> DEFINE f == [x \in Targets |-> counts[x].ok]
             g == [x \in Targets |-> counts[x].bad]
  <2>1. \A x \in Targets : f[x] = 0 /\ g[x] = 0
    BY DEF Init
  <2>2. Successes = SumOver(f, Targets) /\ Failures = SumOver(g, Targets)
    BY DEF Successes, Failures
  <2> HIDE DEF f, g
  <2> QED
    BY <2>1, <2>2, SumZero, FiniteTargets
<1>5. CountInv
  <2>1. IsFiniteSet({}) /\ Cardinality({}) = 0
    BY FS_EmptySet
  <2>2. credited = {} /\ relayed = 0 /\ failed = 0
    BY DEF Init
  <2>3. Noted(SuccessDelta) = {} /\ Noted(FailureDelta) = {}
    BY <1>3
  <2> QED
    BY <1>4, <2>1, <2>2, <2>3 DEF CountInv
<1> QED
  BY <1>1, <1>2, <1>5 DEF ScoreInv

(* The inductive invariant of the reputation. *)
THEOREM ScoreInvariance == Spec => []ScoreInv
<1>1. ScoreInv /\ [Next]_vars => ScoreInv'
  BY TypeStep, CountStep, WindowStep DEF ScoreInv
<1> QED
  BY <1>1, ScoreInit, PTL DEF Spec

(* Every variable has its type in every reachable state: in particular the score
   stays an i64 under every mixture of record_success, record_failure and slash. *)
THEOREM ScoreTypeCorrect == Spec => []TypeOK
BY ScoreInvariance, PTL DEF ScoreInv

(* A message is credited once, whichever of record_success, record_success_at and
   record_success_for_target report it, and so is a failure. *)
THEOREM NothingTwice == Spec => []NothingCountsTwice
<1>1. ScoreInv => NothingCountsTwice
  BY DEF ScoreInv, CountInv, NothingCountsTwice, Noted, Successes, Failures
<1> QED
  BY <1>1, ScoreInvariance, PTL

(* rolling_score is exact from the latest time any caller has named on, although
   prune_rolling looks at the front of the buffer only and clocks disagree. *)
THEOREM RollingExact == Spec => []RollingIsExact
<1>1. ScoreInv => RollingIsExact
  <2> SUFFICES ASSUME ScoreInv, NEW t \in newest .. MaxTime
               PROVE  RollingScore(t) = RollingOf(journal, t)
    BY DEF RollingIsExact
  <2>1. t \in Nat /\ t >= newest
    BY RelayAssumption DEF ScoreInv, TypeOK, Times
  <2>2. WindowSum(events, t) = WindowSum(journal, t)
    BY <2>1, SameWindow DEF ScoreInv
  <2> QED
    BY <2>2 DEF RollingScore, RollingOf
<1> QED
  BY <1>1, ScoreInvariance, PTL

(* Only relaying a message makes a relay trusted that was not: slash never does, and
   record_failure only by wrapping at the bottom of the range. *)
THEOREM TrustEarned == Spec => TrustIsEarned
<1> DEFINE A == ~IsTrusted /\ IsTrusted' =>
                   \/ credited' # credited
                   \/ failed' # failed /\ score + FailureDelta < MinI64
<1>1. ScoreInv /\ [Next]_vars => [A]_vars
  <2> SUFFICES ASSUME TypeOK, Next, ~IsTrusted, IsTrusted', credited' = credited
               PROVE  failed' # failed /\ score + FailureDelta < MinI64
    BY DEF ScoreInv
  <2>1. score \in MinI64 .. MaxI64 /\ failed \in Nat /\ MinI64 \in Int /\ MaxI64 \in Int
    BY RelayAssumption DEF TypeOK
  <2>2. ~(score' <= score)
    <3>1. score' \in MinI64 .. MaxI64
      BY TypeStep DEF TypeOK
    <3> QED
      BY <2>1, <3>1 DEF IsTrusted, TrustThreshold
  <2>3. ASSUME Fault PROVE failed' # failed /\ score + FailureDelta < MinI64
    <3>1. failed' = failed + 1 /\ score' = Wrapped(score + FailureDelta)
      BY <2>3 DEF Fault
    <3>2. score + FailureDelta \in Int /\ score + FailureDelta <= MaxI64
          /\ score + FailureDelta <= score
      BY <2>1 DEF FailureDelta
    <3>3. score + FailureDelta < MinI64
      BY <2>1, <2>2, <3>1, <3>2, WrappedTyped
    <3> QED
      BY <2>1, <3>1, <3>3
  <2>4. ASSUME NEW r \in Receipts PROVE ~Credit(r)
    BY DEF Credit
  <2>5. ASSUME NEW penalty \in Penalties, NEW p \in Proofs PROVE ~Slash(penalty, p)
    <3> SUFFICES ASSUME Slash(penalty, p) PROVE FALSE
      OBVIOUS
    <3>1. penalty \in Int /\ penalty >= 0 /\ score' = Floored(score - penalty)
      BY RelayAssumption DEF Slash
    <3> QED
      BY <2>1, <2>2, <3>1, FlooredTyped
  <2>6. ASSUME NEW t \in Times PROVE ~PruneRolling(t)
    BY <2>1, <2>2 DEF PruneRolling, scoreVars
  <2> QED
    BY <2>3, <2>4, <2>5, <2>6
       DEF Next, RecordSuccess, RecordSuccessAt, RecordSuccessForTarget, RecordFailure,
           RecordFailureAt, RecordFailureForTarget
<1> QED
  BY <1>1, ScoreInvariance, PTL DEF Spec, TrustIsEarned

(* flag_per_target_anomalies goes on reporting a target until a message gets through
   to it: the counts of others and more failures, up to saturation, do not help. *)
THEOREM FlaggedStays == Spec => FlaggedUntilServed
<1> DEFINE A == \A x \in Flagged : x \in Flagged' \/ counts'[x].ok # counts[x].ok
<1>1. ScoreInv /\ [Next]_vars => [A]_vars
  <2> SUFFICES ASSUME TypeOK, Next, NEW x \in Flagged, counts'[x].ok = counts[x].ok
               PROVE  x \in Flagged'
    BY DEF ScoreInv
  <2> DEFINE ok == counts[x].ok
             total == Saturated(ok + counts[x].bad)
             total2 == Saturated(ok + counts'[x].bad)
  <2>1. /\ x \in Targets /\ ok \in 0 .. MaxU64 /\ counts[x].bad \in 0 .. MaxU64
        /\ MaxU64 \in Nat /\ MinSample \in Nat /\ Threshold[1] \in Nat /\ Threshold[2] \in Nat
    BY RelayAssumption DEF TypeOK, Flagged
  <2>2. counts'[x].bad \in Int /\ counts'[x].bad >= counts[x].bad
    <3>1. ASSUME NEW y \in Targets, CountSuccess(y) PROVE counts'[x].bad = counts[x].bad
      BY <2>1, <3>1 DEF CountSuccess, TypeOK
    <3>2. ASSUME NEW y \in Targets, CountFailure(y)
          PROVE  counts'[x].bad \in {counts[x].bad, Saturated(counts[x].bad + 1)}
      BY <2>1, <3>2 DEF CountFailure, TypeOK
    <3>3. counts' = counts \/ \E y \in Targets : CountSuccess(y) \/ CountFailure(y)
      BY DEF Next, RecordSuccess, RecordSuccessAt, RecordSuccessForTarget, RecordFailure,
             RecordFailureAt, RecordFailureForTarget, PruneRolling, Slash
    <3>4. Saturated(counts[x].bad + 1) \in Int /\ Saturated(counts[x].bad + 1) >= counts[x].bad
      BY <2>1 DEF Saturated
    <3> QED
      BY <2>1, <3>1, <3>2, <3>3, <3>4
  <2>3. total \in Nat /\ total2 \in Nat /\ total <= total2
    BY <2>1, <2>2 DEF Saturated
  <2>4. total >= MinSample /\ ok * Threshold[2] <= Threshold[1] * total
    BY DEF Flagged
  <2>5. Flagged' = {y \in Targets :
            LET t == Saturated(counts'[y].ok + counts'[y].bad) IN
            /\ t >= MinSample
            /\ counts'[y].ok * Threshold[2] <= Threshold[1] * t}
    BY DEF Flagged, Saturated
  <2> HIDE DEF total, total2
  <2>6. Threshold[1] * total <= Threshold[1] * total2
    <3>1. \A a, b, c \in Nat : b <= c => a * b <= a * c
      OBVIOUS
    <3> QED
      BY <2>1, <2>3, <3>1
  <2>7. ok * Threshold[2] \in Int /\ Threshold[1] * total \in Int /\ Threshold[1] * total2 \in Int
    BY <2>1, <2>3
  <2>8. total2 >= MinSample /\ ok * Threshold[2] <= Threshold[1] * total2
    BY <2>1, <2>3, <2>4, <2>6, <2>7
  <2> QED
    BY <2>1, <2>5, <2>8 DEF total2
<1> QED
  BY <1>1, ScoreInvariance, PTL DEF Spec, FlaggedUntilServed
=============================================================================
