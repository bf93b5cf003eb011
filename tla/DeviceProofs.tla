---------------------------- MODULE DeviceProofs ----------------------------
(***************************************************************************)
(* Proofs about the components that work on what one device keeps and talk *)
(* to no other: the stores and the contracts.                              *)
(*                                                                         *)
(* Stores, for any keys, values and threads: MemoryStorage implements      *)
(* KeyValueStore, and the answers of ConcurrentMemoryStorage are those of  *)
(* a sequential map.  Contracts, for any escrows, locks and schedules: an  *)
(* escrow is settled by consent only, and the claims of a schedule add up. *)
(***************************************************************************)
EXTENDS Stores, Contracts, TLAPS

-----------------------------------------------------------------------------
(* The store with transactions.  Nothing is staged unless a transaction is open or
   being committed. *)
MemoryInv == MemoryTypeOK /\ (phase = "idle" => staged = NoOps)

LEMMA MemoryInitInv == MemoryInit => MemoryInv
BY StorageAssumption DEF MemoryInit, MemoryInv, MemoryTypeOK, NoOps

LEMMA MemoryStepInv ==
    ASSUME MemoryInv, MemoryNext \/ UNCHANGED memoryVars
    PROVE  MemoryInv'
<1> USE DEF MemoryInv, MemoryTypeOK
<1>1. ASSUME NEW k \in Keys, NEW v \in Values, Put(k, v) \/ TxnPut(k, v)
      PROVE  MemoryInv'
  BY <1>1 DEF Put, TxnPut, View, NoOps
<1>2. ASSUME NEW k \in Keys, Get(k) \/ Delete(k) \/ TxnGet(k) \/ TxnDelete(k)
      PROVE  MemoryInv'
  BY <1>2 DEF Get, Delete, TxnGet, TxnDelete, View, NoOps
<1>3. ASSUME NEW k \in Keys, ApplyStaged(k)
      PROVE  MemoryInv'
  BY <1>3 DEF ApplyStaged
<1>4. ASSUME NEW batch \in Batches, AtomicPutBatch(batch)
      PROVE  MemoryInv'
  <2>1. \A k \in DOMAIN batch : batch[k] \in Values
    BY DEF Batches
  <2> QED
    BY <1>4, <2>1 DEF AtomicPutBatch
<1>5. CASE BeginTransaction \/ Commit \/ EndCommit \/ Rollback \/ UNCHANGED memoryVars
  BY <1>5 DEF BeginTransaction, Commit, EndCommit, Rollback, NoOps, memoryVars
<1> QED
  BY <1>1, <1>2, <1>3, <1>4, <1>5 DEF MemoryNext

-----------------------------------------------------------------------------
(* Each step is one of the abstract store, or none. *)

LEMMA ViewTyped ==
    ASSUME MemoryInv
    PROVE  [k \in Keys |-> View(k)] \in [Keys -> Values \cup {Nothing}]
BY DEF MemoryInv, MemoryTypeOK, View

LEMMA InitMapped == MemoryInit => Abstract!StoreInit
BY DEF MemoryInit, Abstract!StoreInit

LEMMA StepMapped ==
    ASSUME MemoryInv, MemoryNext \/ UNCHANGED memoryVars
    PROVE  Abstract!StoreNext \/ UNCHANGED Abstract!storeVars
<1> USE DEF Abstract!Current
<1>0. MemoryTypeOK /\ (phase = "idle" => staged = NoOps)
  BY DEF MemoryInv
<1>1. ASSUME NEW k \in Keys, NEW v \in Values, Put(k, v)
      PROVE  Abstract!Write(k, v)
  BY <1>1 DEF Put, Abstract!Write
<1>2. ASSUME NEW k \in Keys, Get(k)
      PROVE  Abstract!Read(k)
  BY <1>2 DEF Get, Abstract!Read
<1>3. ASSUME NEW k \in Keys, Delete(k)
      PROVE  Abstract!Write(k, Nothing)
  BY <1>3 DEF Delete, Abstract!Write
<1>4. ASSUME NEW k \in Keys, TxnGet(k)
      PROVE  Abstract!Read(k)
  BY <1>4, ViewTyped, NoCopyAssumption DEF TxnGet, Abstract!Read, View
<1>5. ASSUME NEW k \in Keys, NEW v \in Values \cup {Nothing},
             \/ v \in Values /\ TxnPut(k, v)
             \/ v = Nothing /\ TxnDelete(k)
      PROVE  Abstract!Write(k, v)
  <2>1. /\ phase = "open" /\ phase' = "open" /\ data' = data
        /\ staged' = [staged EXCEPT ![k] = v]
        /\ answer' = (View(k) # Nothing)
    BY <1>5 DEF TxnPut, TxnDelete
  <2>2. [j \in Keys |-> View(j)]' = [[j \in Keys |-> View(j)] EXCEPT ![k] = v]
    BY <1>0, <2>1, StorageAssumption DEF View, MemoryTypeOK
  <2> QED
    BY <2>1, <2>2, ViewTyped, NoCopyAssumption DEF Abstract!Write
<1>6. ASSUME NEW k \in Keys, ApplyStaged(k)
      PROVE  UNCHANGED Abstract!storeVars
  <2>1. [j \in Keys |-> View(j)]' = [j \in Keys |-> View(j)]
    BY <1>0, <1>6, StorageAssumption DEF ApplyStaged, View, MemoryTypeOK
  <2> QED
    BY <1>6, <2>1 DEF ApplyStaged, Abstract!storeVars
<1>7. ASSUME NEW batch \in Batches, AtomicPutBatch(batch)
      PROVE  Abstract!WriteAll(batch) /\ batch \in Abstract!Batches
  <2>1. \A k \in DOMAIN batch : batch[k] \in Values
    BY DEF Batches
  <2>2. [k \in Keys |-> View(k)]' = [k \in Keys |-> IF k \in DOMAIN batch THEN batch[k] ELSE data[k]]
    BY <1>7, <2>1, StorageAssumption DEF AtomicPutBatch, View
  <2> QED
    BY <1>7, <2>2 DEF AtomicPutBatch, Abstract!WriteAll, Batches, Abstract!Batches
<1>8. ASSUME BeginTransaction
      PROVE  Abstract!Begin
  <2>1. [k \in Keys |-> View(k)]' = data
    BY <1>0, <1>8 DEF BeginTransaction, View, NoOps, MemoryTypeOK
  <2> QED
    BY <1>8, <2>1 DEF BeginTransaction, Abstract!Begin
<1>9. ASSUME Commit
      PROVE  Abstract!Install
  <2>1. [k \in Keys |-> View(k)]' = [k \in Keys |-> View(k)]
    BY <1>9 DEF Commit, View
  <2> QED
    BY <1>9, <2>1, ViewTyped, NoCopyAssumption DEF Commit, Abstract!Install
<1>10. ASSUME EndCommit
       PROVE  UNCHANGED Abstract!storeVars
  <2>1. [k \in Keys |-> View(k)] = data
    BY <1>0, <1>10 DEF EndCommit, View, NoOps, MemoryTypeOK
  <2> QED
    BY <1>10, <2>1 DEF EndCommit, Abstract!storeVars
<1>11. ASSUME Rollback
       PROVE  Abstract!Discard
  BY <1>11, ViewTyped, NoCopyAssumption DEF Rollback, Abstract!Discard
<1>12. ASSUME UNCHANGED memoryVars
       PROVE  UNCHANGED Abstract!storeVars
  BY <1>12 DEF memoryVars, Abstract!storeVars, View
<1> QED
  BY <1>1, <1>2, <1>3, <1>4, <1>5, <1>6, <1>7, <1>8, <1>9, <1>10, <1>11, <1>12
     DEF MemoryNext, Abstract!StoreNext

-----------------------------------------------------------------------------
(* The store that threads share.  At most one thread holds the lock, and what it has
   found is still there. *)
LockInv ==
    /\ \A t, u \in inside : t = u
    /\ \A t \in inside : call[t] # NoCall /\ found[t] = shared[call[t].slot]

(* What is stored is there whenever it should be, and unless its checksum tells
   otherwise it is the right value. *)
BytesInv ==
    \A s \in Slots :
        /\ shared[s] = Absent <=> ideal[s] = Absent
        /\ shared[s] \in [sum : Payloads, value : Payloads] /\ shared[s].sum = shared[s].value
             => shared[s].value = ideal[s]

ConcurrentInv == ConcurrentTypeOK /\ LockInv /\ BytesInv /\ AnswersAreSequential

LEMMA ConcurrentInitInv == ConcurrentInit => ConcurrentInv
BY ConcurrentAssumption
   DEF ConcurrentInit, ConcurrentInv, ConcurrentTypeOK, LockInv, BytesInv, AnswersAreSequential,
       Answers

(* A call of a thread that holds the lock answers as the ideal map would. *)
LEMMA RightAnswer ==
    ASSUME ConcurrentInv, NEW t \in inside
    PROVE  /\ call[t] \in Calls
           /\ AnswerTo(call[t], found[t]) \in Answers
           /\ IdealAnswer(call[t]) \in Answers
           /\ AnswerTo(call[t], found[t]) # Error =>
                AnswerTo(call[t], found[t]) = IdealAnswer(call[t])
<1> DEFINE c == call[t]
           bytes == found[t]
<1>1. t \in Threads /\ c \in Calls /\ c.slot \in Slots
      /\ c.op \in {"put", "get", "contains", "delete"}
  BY DEF ConcurrentInv, ConcurrentTypeOK, LockInv, Calls
<1>2. bytes = shared[c.slot] /\ bytes \in Bytes \cup {Absent}
      /\ ideal[c.slot] \in Payloads \cup {Absent}
  BY <1>1 DEF ConcurrentInv, ConcurrentTypeOK, LockInv
<1>3. bytes = Absent <=> ideal[c.slot] = Absent
  BY <1>1, <1>2 DEF ConcurrentInv, BytesInv
<1>4. bytes \in [sum : Payloads, value : Payloads] /\ bytes.sum = bytes.value
        => bytes.value = ideal[c.slot]
  BY <1>1, <1>2 DEF ConcurrentInv, BytesInv
<1> HIDE DEF c, bytes
<1>5. CASE c.op = "put"
  BY <1>1, <1>5 DEF AnswerTo, IdealAnswer, Answers, c, bytes
<1>6. CASE c.op \in {"contains", "delete"}
  <2>1. AnswerTo(c, bytes) = (bytes # Absent) /\ IdealAnswer(c) = (ideal[c.slot] # Absent)
    BY <1>6 DEF AnswerTo, IdealAnswer
  <2> QED
    BY <1>1, <1>3, <2>1 DEF Answers, c, bytes
<1>7. CASE c.op = "get"
  <2>1. AnswerTo(c, bytes) = (IF bytes = Absent THEN Absent ELSE Unwrap(bytes))
        /\ IdealAnswer(c) = ideal[c.slot]
    BY <1>7 DEF AnswerTo, IdealAnswer
  <2>2. CASE bytes = Absent
    BY <1>1, <1>2, <1>3, <2>1, <2>2 DEF Answers, c, bytes
  <2>3. CASE bytes # Absent
    <3>1. \/ Unwrap(bytes) = Error
          \/ /\ bytes \in [sum : Payloads, value : Payloads]
             /\ bytes.sum = bytes.value
             /\ Unwrap(bytes) = bytes.value
      BY <1>2, <2>3 DEF Unwrap, Bytes
    <3> QED
      BY <1>1, <1>2, <1>4, <2>1, <2>3, <3>1 DEF Answers, c, bytes
  <2> QED
    BY <2>2, <2>3
<1> QED
  BY <1>1, <1>5, <1>6, <1>7 DEF c

LEMMA ConcurrentStepInv ==
    ASSUME ConcurrentInv, ConcurrentNext \/ UNCHANGED concurrentVars
    PROVE  ConcurrentInv'
<1> USE DEF ConcurrentInv
<1>1. ASSUME NEW t \in Threads, NEW c \in Calls, StartCall(t, c)
      PROVE  ConcurrentInv'
  <2>1. t \notin inside
    BY <1>1 DEF StartCall, LockInv
  <2> QED
    BY <1>1, <2>1
       DEF StartCall, ConcurrentTypeOK, LockInv, BytesInv, AnswersAreSequential, Answers
<1>2. ASSUME NEW t \in Threads, Enter(t)
      PROVE  ConcurrentInv'
  <2>1. call[t] \in Calls /\ call[t].slot \in Slots
    BY <1>2 DEF Enter, ConcurrentTypeOK, Calls
  <2> QED
    BY <1>2, <2>1
       DEF Enter, LockFree, ConcurrentTypeOK, LockInv, BytesInv, AnswersAreSequential
<1>3. ASSUME NEW t \in Threads, EnterPoisoned(t) \/ PanicInside(t)
      PROVE  ConcurrentInv'
  <2>1. ConcurrentTypeOK' /\ BytesInv'
    BY <1>3 DEF EnterPoisoned, PanicInside, Return, ConcurrentTypeOK, BytesInv, Answers
  <2>2. LockInv'
    BY <1>3 DEF EnterPoisoned, PanicInside, Return, LockFree, LockInv, ConcurrentTypeOK
  <2>3. AnswersAreSequential'
    BY <1>3 DEF EnterPoisoned, PanicInside, Return, AnswersAreSequential, ConcurrentTypeOK
  <2> QED
    BY <2>1, <2>2, <2>3
<1>4. ASSUME NEW t \in Threads, Leave(t)
      PROVE  ConcurrentInv'
  <2> DEFINE c == call[t]
  <2>1. t \in inside /\ c \in Calls /\ c.slot \in Slots
        /\ c.op \in {"put", "get", "contains", "delete"}
    BY <1>4, RightAnswer DEF Leave, Calls
  <2>2. \/ /\ c.op = "put" /\ c.value \in Payloads
           /\ shared' = [shared EXCEPT ![c.slot] = Wrap(c.value)]
           /\ ideal' = [ideal EXCEPT ![c.slot] = c.value]
        \/ /\ shared' = [shared EXCEPT ![c.slot] = Absent]
           /\ ideal' = [ideal EXCEPT ![c.slot] = Absent]
        \/ UNCHANGED <<shared, ideal>>
    BY <1>4, <2>1 DEF Leave, Calls
  <2>3. BytesInv' /\ shared' \in [Slots -> Bytes \cup {Absent}]
        /\ ideal' \in [Slots -> Payloads \cup {Absent}]
    BY <2>1, <2>2, ConcurrentAssumption DEF BytesInv, ConcurrentTypeOK, Wrap, Bytes
  <2>4. inside' = {} /\ LockInv'
    BY <1>4, <2>1 DEF Leave, Return, LockInv
  <2>5. AnswersAreSequential'
    BY <1>4, <2>1, RightAnswer DEF Leave, Return, AnswersAreSequential, ConcurrentTypeOK
  <2>6. ConcurrentTypeOK'
    BY <1>4, <2>1, <2>3, <2>4, RightAnswer DEF Leave, Return, ConcurrentTypeOK
  <2> QED
    BY <2>3, <2>4, <2>5, <2>6
<1>5. ASSUME NEW s \in Slots, Damage(s)
      PROVE  ConcurrentInv'
  <2>1. PICK b \in {Short} \cup {x \in Bytes \ {Short} : x.sum # x.value} :
           shared' = [shared EXCEPT ![s] = b]
    BY <1>5 DEF Damage
  <2>2. b \in Bytes /\ b # Absent
        /\ (b \in [sum : Payloads, value : Payloads] => b.sum # b.value)
    BY ConcurrentAssumption DEF Bytes
  <2>3. BytesInv' /\ ConcurrentTypeOK'
    BY <1>5, <2>1, <2>2 DEF Damage, BytesInv, ConcurrentTypeOK
  <2> QED
    BY <1>5, <2>3 DEF Damage, LockFree, LockInv, AnswersAreSequential
<1>6. CASE UNCHANGED concurrentVars
  BY <1>6 DEF concurrentVars, ConcurrentTypeOK, LockInv, BytesInv, AnswersAreSequential
<1> QED
  BY <1>1, <1>2, <1>3, <1>4, <1>5, <1>6 DEF ConcurrentNext

-----------------------------------------------------------------------------
IndInv == MemoryInv /\ ConcurrentInv

LEMMA InitInv == Init => IndInv
BY MemoryInitInv, ConcurrentInitInv DEF Init, IndInv

LEMMA StepInv == IndInv /\ [Next]_vars => IndInv'
BY MemoryStepInv, ConcurrentStepInv DEF IndInv, Next, vars

(* Whatever order commit applies the staged operations in, MemoryStorage implements
   the abstract store, in which a transaction lands in one step. *)
THEOREM Refinement == Spec => MeetsKeyValueStore
<1>1. Init => Abstract!StoreInit
  BY InitMapped DEF Init
<1>2. IndInv /\ [Next]_vars => [Abstract!StoreNext]_(Abstract!storeVars)
  BY StepMapped DEF IndInv, Next, vars
<1> QED
  BY InitInv, StepInv, <1>1, <1>2, PTL DEF Spec, MeetsKeyValueStore, Abstract!StoreSpec

(* A call to ConcurrentMemoryStorage that does not fail answers as if calls were
   indivisible and bytes never damaged. *)
THEOREM SequentialAnswers == Spec => []AnswersAreSequential
<1>1. IndInv => AnswersAreSequential
  BY DEF IndInv, ConcurrentInv
<1> QED
  BY InitInv, StepInv, <1>1, PTL DEF Spec

-----------------------------------------------------------------------------
(* Every variable keeps its type. *)

LEMMA EscrowInitTyped == EscrowInit => EscrowTypeOK
BY DEF EscrowInit, EscrowTypeOK, EscrowStates

LEMMA EscrowStepTyped ==
    ASSUME EscrowTypeOK,
           \/ \E e \in Escrows :
                 \/ NewEscrow(e)
                 \/ \E k \in Parties : Authorize(k, e)
                 \/ \E sig \in authorized : Release(e, sig)
                 \/ \E sig \in authorized, now \in Times : Refund(e, sig, now)
           \/ UNCHANGED escrowVars
    PROVE  EscrowTypeOK'
<1>1. ASSUME NEW e \in Escrows, NewEscrow(e)
      PROVE  EscrowTypeOK'
  BY <1>1 DEF EscrowTypeOK, EscrowStates, NewEscrow
<1>2. ASSUME NEW e \in Escrows, NEW k \in Parties, Authorize(k, e)
      PROVE  EscrowTypeOK'
  <2>1. PICK m \in {ReleaseMessage(e), RefundMessage(e)} :
           /\ authorized' = authorized \cup {[key |-> k, message |-> m]}
           /\ UNCHANGED state
    BY <1>2 DEF Authorize
  <2>2. m \in Messages
    BY <2>1 DEF Messages
  <2> QED
    BY <2>1, <2>2 DEF EscrowTypeOK
<1>3. ASSUME NEW e \in Escrows, NEW sig \in authorized, Release(e, sig)
      PROVE  EscrowTypeOK'
  BY <1>3 DEF EscrowTypeOK, EscrowStates, Release
<1>4. ASSUME NEW e \in Escrows, NEW sig \in authorized, NEW now \in Times,
             Refund(e, sig, now)
      PROVE  EscrowTypeOK'
  BY <1>4 DEF EscrowTypeOK, EscrowStates, Refund
<1>5. CASE UNCHANGED escrowVars
  BY <1>5 DEF EscrowTypeOK, escrowVars
<1> QED
  BY <1>1, <1>2, <1>3, <1>4, <1>5

-----------------------------------------------------------------------------
(* What vests is at most the total, and does not fall as time passes, whatever the
   dates of the schedule. *)

LEMMA DivMonotonic ==
    ASSUME NEW a \in Nat, NEW b \in Nat, NEW d \in Nat \ {0}, a <= b
    PROVE  a \div d \in Nat /\ a \div d <= b \div d
<1> DEFINE p == a \div d
           q == b \div d
<1>1. p \in Int /\ q \in Int /\ d * p <= a /\ a < d * (p + 1) /\ d * q <= b /\ b < d * (q + 1)
  BY SMT
<1> HIDE DEF p, q
<1>2. d * p < d * (q + 1)
  BY <1>1, SMT
<1>3. p < q + 1
  BY <1>1, <1>2, SMT
<1>4. p >= 0
  BY <1>1, SMT
<1> QED
  BY <1>1, <1>3, <1>4 DEF p, q

LEMMA MinusTyped ==
    ASSUME NEW x \in Nat, NEW y \in Nat
    PROVE  Minus(x, y) \in Nat /\ Minus(x, y) <= x
BY DEF Minus

LEMMA VestedBounded ==
    ASSUME NEW s \in Schedules, NEW now \in Nat \cup {-1}
    PROVE  VestedAt(s, now) \in 0 .. s.total
<1>0. s.total \in 0 .. MaxU64 /\ s.start \in Nat /\ s.cliff \in Nat /\ s.end \in Nat
      /\ MaxU64 \in Nat
  BY LockAssumption
<1>1. CASE now < s.cliff \/ now >= s.end \/ s.end <= s.start
  BY <1>0, <1>1 DEF VestedAt
<1>2. CASE ~(now < s.cliff \/ now >= s.end \/ s.end <= s.start)
  <2> DEFINE x == Minus(now, s.start)
             d == s.end - s.start
  <2>1. d \in Nat \ {0} /\ x \in Nat /\ x <= d
    BY <1>0, <1>2 DEF Minus
  <2>2. VestedAt(s, now) = (s.total * x) \div d
    BY <1>2 DEF VestedAt
  <2> HIDE DEF x, d
  <2>3. s.total * x \in Nat /\ s.total * d \in Nat /\ s.total * x <= s.total * d
    BY <1>0, <2>1, SMT
  <2>4. (s.total * d) \div d = s.total
    BY <1>0, <2>1, SMT
  <2>5. (s.total * x) \div d \in Nat /\ (s.total * x) \div d <= (s.total * d) \div d
    BY <2>1, <2>3, DivMonotonic
  <2> QED
    BY <1>0, <2>2, <2>4, <2>5
<1> QED
  BY <1>1, <1>2

LEMMA VestedMonotonic ==
    ASSUME NEW s \in Schedules, NEW t \in Nat \cup {-1}, NEW u \in Nat \cup {-1}, t <= u
    PROVE  VestedAt(s, t) <= VestedAt(s, u)
<1>0. s.total \in 0 .. MaxU64 /\ s.start \in Nat /\ s.cliff \in Nat /\ s.end \in Nat
      /\ MaxU64 \in Nat
  BY LockAssumption
<1>a. VestedAt(s, t) \in 0 .. s.total /\ VestedAt(s, u) \in 0 .. s.total
  BY VestedBounded
<1>1. CASE t < s.cliff
  BY <1>0, <1>a, <1>1 DEF VestedAt
<1>2. CASE t >= s.cliff /\ (u >= s.end \/ s.end <= s.start)
  BY <1>0, <1>a, <1>2 DEF VestedAt
<1>3. CASE t >= s.cliff /\ u < s.end /\ s.start < s.end
  <2> DEFINE x == Minus(t, s.start)
             y == Minus(u, s.start)
             d == s.end - s.start
  <2>1. d \in Nat \ {0} /\ x \in Nat /\ y \in Nat /\ x <= y
    BY <1>0, <1>3 DEF Minus
  <2>2. /\ VestedAt(s, t) = (s.total * x) \div d
        /\ VestedAt(s, u) = (s.total * y) \div d
    BY <1>0, <1>3 DEF VestedAt
  <2> HIDE DEF x, y, d
  <2>3. s.total * x \in Nat /\ s.total * y \in Nat /\ s.total * x <= s.total * y
    BY <1>0, <2>1, SMT
  <2> QED
    BY <2>1, <2>2, <2>3, DivMonotonic
<1> QED
  BY <1>0, <1>1, <1>2, <1>3

-----------------------------------------------------------------------------
(* The invariant: types, what was claimed, and who consented. *)

ContractsInv == ContractsTypeOK /\ ClaimsAddUp /\ SettledByConsent

LEMMA ContractsInitInv == ContractsInit => ContractsInv
<1> SUFFICES ASSUME ContractsInit PROVE ContractsInv
  OBVIOUS
<1> USE DEF ContractsInit, LockInit
<1>1. ContractsTypeOK
  BY EscrowInitTyped, LockAssumption DEF ContractsTypeOK, LockTypeOK
<1>2. ClaimsAddUp
  BY LockAssumption DEF ClaimsAddUp, VestedAt
<1>3. SettledByConsent
  BY DEF SettledByConsent, EscrowInit
<1> QED
  BY <1>1, <1>2, <1>3 DEF ContractsInv

(* Steps of the escrows leave the locks alone, and steps of the locks the escrows. *)
LEMMA EscrowStepInv ==
    ASSUME ContractsInv, UNCHANGED lockVars,
           \/ \E e \in Escrows :
                 \/ NewEscrow(e)
                 \/ \E k \in Parties : Authorize(k, e)
                 \/ \E sig \in authorized : Release(e, sig)
                 \/ \E sig \in authorized, now \in Times : Refund(e, sig, now)
           \/ UNCHANGED escrowVars
    PROVE  ContractsInv'
<1>1. ContractsTypeOK'
  BY EscrowStepTyped DEF ContractsInv, ContractsTypeOK, LockTypeOK, lockVars
<1>2. ClaimsAddUp'
  BY DEF ContractsInv, ClaimsAddUp, lockVars, VestedAt, Minus
<1>3. SettledByConsent'
  <2> USE DEF ContractsInv, SettledByConsent, ContractsTypeOK, EscrowTypeOK
  <2>1. ASSUME NEW e \in Escrows, NewEscrow(e)
        PROVE  SettledByConsent'
    BY <2>1 DEF NewEscrow
  <2>2. ASSUME NEW e \in Escrows, NEW k \in Parties, Authorize(k, e)
        PROVE  SettledByConsent'
    BY <2>2 DEF Authorize
  <2>3. ASSUME NEW e \in Escrows, NEW sig \in authorized, Release(e, sig)
        PROVE  SettledByConsent'
    <3>1. sig = [key |-> e.recipient, message |-> ReleaseMessage(e)]
      BY <2>3 DEF Release, Covers
    <3> QED
      BY <2>3, <3>1 DEF Release
  <2>4. ASSUME NEW e \in Escrows, NEW sig \in authorized, NEW now \in Times,
               Refund(e, sig, now)
        PROVE  SettledByConsent'
    <3>1. sig = [key |-> e.sender, message |-> RefundMessage(e)]
      BY <2>4 DEF Refund, Covers
    <3> QED
      BY <2>4, <3>1 DEF Refund
  <2>5. CASE UNCHANGED escrowVars
    BY <2>5 DEF escrowVars
  <2> QED
    BY <2>1, <2>2, <2>3, <2>4, <2>5
<1> QED
  BY <1>1, <1>2, <1>3 DEF ContractsInv

(* A claim brings what was claimed to what has vested by now, unless an earlier call
   with a later time has brought it further. *)
LEMMA ClaimedAfterClaim ==
    ASSUME ContractsInv, NEW s \in Schedules, NEW now \in Times, ClaimVested(s, now)
    PROVE  /\ claimed' = [claimed EXCEPT ![s] = VestedAt(s, asked'[s])]
           /\ asked' \in [Schedules -> Nat \cup {-1}]
           /\ \A r \in Schedules \ {s} : asked'[r] = asked[r]
<1>0. /\ MaxU64 \in Nat /\ now \in Nat /\ s.total \in 0 .. MaxU64
      /\ asked \in [Schedules -> Nat \cup {-1}] /\ claimed \in [Schedules -> 0 .. MaxU64]
  BY LockAssumption, EscrowAssumption DEF Times, ContractsInv, ContractsTypeOK, LockTypeOK
<1>1. claimed[s] = VestedAt(s, asked[s])
  BY DEF ClaimVested, ContractsInv, ClaimsAddUp
<1>2. VestedAt(s, now) \in 0 .. s.total /\ VestedAt(s, asked[s]) \in 0 .. s.total
  BY <1>0, VestedBounded
<1>3. claimed' = [claimed EXCEPT ![s] =
           IF VestedAt(s, now) > claimed[s] THEN VestedAt(s, now) ELSE claimed[s]]
  <2>1. ClaimableAt(s, now) =
          IF VestedAt(s, now) > claimed[s] THEN VestedAt(s, now) - claimed[s] ELSE 0
    BY DEF ClaimableAt, Minus
  <2>2. (IF claimed[s] + ClaimableAt(s, now) > MaxU64 THEN MaxU64
         ELSE claimed[s] + ClaimableAt(s, now))
        = IF VestedAt(s, now) > claimed[s] THEN VestedAt(s, now) ELSE claimed[s]
    BY <1>0, <1>1, <1>2, <2>1
  <2> QED
    BY <1>0, <2>2 DEF ClaimVested
<1>4. asked' = [asked EXCEPT ![s] = IF now > asked[s] THEN now ELSE asked[s]]
  BY DEF ClaimVested
<1>5. asked'[s] = IF now > asked[s] THEN now ELSE asked[s]
  BY <1>0, <1>4
<1>6. (IF VestedAt(s, now) > claimed[s] THEN VestedAt(s, now) ELSE claimed[s])
      = VestedAt(s, asked'[s])
  <2>1. CASE now > asked[s]
    <3>1. VestedAt(s, asked[s]) <= VestedAt(s, now)
      BY <1>0, <2>1, VestedMonotonic
    <3> QED
      BY <1>1, <1>2, <1>5, <2>1, <3>1
  <2>2. CASE ~(now > asked[s])
    <3>1. VestedAt(s, now) <= VestedAt(s, asked[s])
      BY <1>0, <2>2, VestedMonotonic
    <3> QED
      BY <1>1, <1>2, <1>5, <2>2, <3>1
  <2> QED
    BY <2>1, <2>2
<1> QED
  BY <1>0, <1>3, <1>4, <1>6

LEMMA LockStepInv ==
    ASSUME ContractsInv, UNCHANGED escrowVars,
           \/ \E k \in Locks, now \in Times : ClaimLock(k, now)
           \/ \E s \in Schedules :
                 \/ \E checked \in BOOLEAN : NewSchedule(s, checked)
                 \/ \E now \in Times : ClaimVested(s, now)
    PROVE  ContractsInv'
<1>1. SettledByConsent' /\ EscrowTypeOK'
  BY EscrowStepTyped DEF ContractsInv, ContractsTypeOK, SettledByConsent, escrowVars
<1>2. LockTypeOK' /\ ClaimsAddUp'
  <2>1. ASSUME NEW k \in Locks, NEW now \in Times, ClaimLock(k, now)
        PROVE  LockTypeOK' /\ ClaimsAddUp'
    BY <2>1 DEF ClaimLock, ContractsInv, ContractsTypeOK, LockTypeOK, ClaimsAddUp
  <2>2. ASSUME NEW s \in Schedules, NEW checked \in BOOLEAN, NewSchedule(s, checked)
        PROVE  LockTypeOK' /\ ClaimsAddUp'
    BY <2>2 DEF NewSchedule, ContractsInv, ContractsTypeOK, LockTypeOK, ClaimsAddUp
  <2>3. ASSUME NEW s \in Schedules, NEW now \in Times, ClaimVested(s, now)
        PROVE  LockTypeOK' /\ ClaimsAddUp'
    <3>1. /\ claimed' = [claimed EXCEPT ![s] = VestedAt(s, asked'[s])]
          /\ asked' \in [Schedules -> Nat \cup {-1}]
          /\ \A r \in Schedules \ {s} : asked'[r] = asked[r]
      BY <2>3, ClaimedAfterClaim
    <3>2. VestedAt(s, asked'[s]) \in 0 .. MaxU64
      <4>1. VestedAt(s, asked'[s]) \in 0 .. s.total /\ s.total \in 0 .. MaxU64 /\ MaxU64 \in Nat
        BY <3>1, VestedBounded, LockAssumption
      <4> QED
        BY <4>1
    <3>3. LockTypeOK'
      BY <2>3, <3>1, <3>2 DEF ClaimVested, ContractsInv, ContractsTypeOK, LockTypeOK
    <3>4. ClaimsAddUp'
      BY <2>3, <3>1 DEF ClaimVested, ContractsInv, ContractsTypeOK, LockTypeOK, ClaimsAddUp
    <3> QED
      BY <3>3, <3>4
  <2> QED
    BY <2>1, <2>2, <2>3
<1> QED
  BY <1>1, <1>2 DEF ContractsInv, ContractsTypeOK

LEMMA ContractsStepInv == ContractsInv /\ [ContractsNext]_contractVars => ContractsInv'
<1> SUFFICES ASSUME ContractsInv, [ContractsNext]_contractVars PROVE ContractsInv'
  OBVIOUS
<1>1. CASE UNCHANGED contractVars
  BY <1>1, EscrowStepInv DEF contractVars
<1>2. CASE ContractsNext
  BY <1>2, EscrowStepInv, LockStepInv
     DEF ContractsNext, CreateEscrow, Sign, ReleaseFunds, RefundFunds, Unlock, Grant, Claim
<1> QED
  BY <1>1, <1>2

(* Every variable keeps its type; the claims of no schedule overflow. *)
THEOREM ContractsTypeCorrect == ContractsSpec => []ContractsTypeOK
<1>1. ContractsInv => ContractsTypeOK
  BY DEF ContractsInv
<1> QED
  BY ContractsInitInv, ContractsStepInv, <1>1, PTL DEF ContractsSpec

(* No escrow is released or refunded (Escrow::release, Escrow::refund) but by a
   signature of the recipient or the sender for this outcome and these terms. *)
THEOREM EscrowsSettledByConsent == ContractsSpec => []SettledByConsent
<1>1. ContractsInv => SettledByConsent
  BY DEF ContractsInv
<1> QED
  BY ContractsInitInv, ContractsStepInv, <1>1, PTL DEF ContractsSpec

(* However VestingSchedule::claim is called, what it has paid is what has vested by
   the latest time it was called with. *)
THEOREM PortionsAddUp == ContractsSpec => []ClaimsAddUp
<1>1. ContractsInv => ClaimsAddUp
  BY DEF ContractsInv
<1> QED
  BY ContractsInitInv, ContractsStepInv, <1>1, PTL DEF ContractsSpec
=============================================================================
