-------------------------- MODULE TransportProofs --------------------------
(***************************************************************************)
(* Theorems about the transport layer.                                     *)
(*                                                                         *)
(* The reassembler: its inductive invariant, that only what was signed is  *)
(* handed over, and that it implements the abstract Reassembly.            *)
(*                                                                         *)
(* The radio: whatever the carrier repeats, delays or garbles, a node acts *)
(* only on what was said, as it was said; and a full inbox loses its       *)
(* oldest messages, and counts them.                                       *)
(***************************************************************************)
EXTENDS Reassembler, Radio, FiniteSetTheorems, SequenceTheorems, TLAPS

USE ReassemblerAssumption

(* Entries as they are inside a call of feed: a new one has no slot filled yet. *)
Draft ==
    UNION {[id : Ids, total : {n}, slots : [0 .. n - 1 -> Payloads \cup {Vacant}],
            filled : 0 .. n - 1] : n \in Totals}

(* What an entry of the queue of p has to satisfy. *)
Sound(p, m) ==
    /\ m \in Draft
    /\ m.filled = Cardinality(FullSlots(m))
    /\ \A s \in FullSlots(m) :
          \E f \in Fragments :
             /\ f.peer = p /\ f.id = m.id /\ f.total = m.total
             /\ f.seq = s /\ f.payload = m.slots[s]

(* Every piece of the body of a message was signed for its place. *)
SignedBody(f, body) ==
    \A s \in 0 .. f.total - 1 :
        \E g \in Fragments :
            /\ g.peer = f.peer /\ g.id = f.id /\ g.total = f.total
            /\ g.seq = s /\ g.payload = body[s]

DistinctIds(q) == \A i, j \in 1 .. Len(q) : q[i].id = q[j].id => i = j

(* A queue of p between calls. *)
Good(p, q) ==
    /\ q \in Seq(Pending)
    /\ Len(q) <= MaxInflight
    /\ DistinctIds(q)
    /\ \A i \in 1 .. Len(q) : Sound(p, q[i])

-----------------------------------------------------------------------------
(* Entries. *)

LEMMA FragmentFacts ==
  ASSUME NEW f \in Fragments
  PROVE  /\ f.peer \in Peers /\ f.id \in Ids /\ f.seq \in Nat /\ f.total \in Nat
         /\ f.payload \in Payloads /\ f.total \in Totals
  BY DEF Totals

LEMMA DraftFacts ==
  ASSUME NEW m \in Draft
  PROVE  /\ m.id \in Ids /\ m.total \in Totals /\ m.total \in Nat
         /\ m.slots \in [0 .. m.total - 1 -> Payloads \cup {Vacant}]
         /\ m.filled \in 0 .. m.total - 1
         /\ m = [id |-> m.id, total |-> m.total, slots |-> m.slots, filled |-> m.filled]
<1>1. PICK n \in Totals :
        m \in [id : Ids, total : {n}, slots : [0 .. n - 1 -> Payloads \cup {Vacant}],
               filled : 0 .. n - 1]
  BY DEF Draft
<1>2. m.total = n /\ n \in Nat
  BY <1>1 DEF Totals
<1>3. QED
  BY <1>1, <1>2

LEMMA MakeDraft ==
  ASSUME NEW id \in Ids, NEW n \in Totals,
         NEW slots \in [0 .. n - 1 -> Payloads \cup {Vacant}], NEW filled \in 0 .. n - 1
  PROVE  LET m == [id |-> id, total |-> n, slots |-> slots, filled |-> filled]
         IN m \in Draft /\ (filled # 0 => m \in Pending)
<1> DEFINE m == [id |-> id, total |-> n, slots |-> slots, filled |-> filled]
<1>1. m \in [id : Ids, total : {n}, slots : [0 .. n - 1 -> Payloads \cup {Vacant}],
             filled : 0 .. n - 1]
  OBVIOUS
<1>2. m \in Draft
  BY <1>1 DEF Draft
<1>3. ASSUME filled # 0
      PROVE  m \in Pending
  <2>1. filled \in 1 .. n - 1
    BY <1>3 DEF Totals
  <2>2. m \in [id : Ids, total : {n}, slots : [0 .. n - 1 -> Payloads \cup {Vacant}],
               filled : 1 .. n - 1]
    BY <2>1
  <2>3. QED
    BY <2>2 DEF Pending
<1>4. QED
  BY <1>2, <1>3

LEMMA PendingFacts ==
  ASSUME NEW m
  PROVE  m \in Pending <=> m \in Draft /\ m.filled # 0
<1>1. ASSUME m \in Pending
      PROVE  m \in Draft /\ m.filled # 0
  <2>1. PICK n \in Totals :
          m \in [id : Ids, total : {n}, slots : [0 .. n - 1 -> Payloads \cup {Vacant}],
                 filled : 1 .. n - 1]
    BY <1>1 DEF Pending
  <2>2. n \in Nat
    BY DEF Totals
  <2>3. m \in [id : Ids, total : {n}, slots : [0 .. n - 1 -> Payloads \cup {Vacant}],
               filled : 0 .. n - 1] /\ m.filled # 0
    BY <2>1, <2>2
  <2>4. QED
    BY <2>3 DEF Draft
<1>2. ASSUME m \in Draft, m.filled # 0
      PROVE  m \in Pending
  <2>1. PICK n \in Totals :
          m \in [id : Ids, total : {n}, slots : [0 .. n - 1 -> Payloads \cup {Vacant}],
                 filled : 0 .. n - 1]
    BY <1>2 DEF Draft
  <2>2. n \in Nat
    BY DEF Totals
  <2>3. m \in [id : Ids, total : {n}, slots : [0 .. n - 1 -> Payloads \cup {Vacant}],
               filled : 1 .. n - 1]
    BY <1>2, <2>1, <2>2
  <2>4. QED
    BY <2>3 DEF Pending
<1>3. QED
  BY <1>1, <1>2

(* The slots of an entry that are filled, and the counter, after one more. *)
LEMMA FilledFacts ==
  ASSUME NEW m \in Draft, NEW f \in Fragments, WellFormed(f), Accepts(m, f),
         m.filled = Cardinality(FullSlots(m))
  PROVE  /\ Filled(m, f).id = m.id /\ Filled(m, f).total = m.total
         /\ Filled(m, f).slots \in [0 .. m.total - 1 -> Payloads \cup {Vacant}]
         /\ Filled(m, f).slots[f.seq] = f.payload
         /\ \A s \in 0 .. m.total - 1 :
              s # f.seq => Filled(m, f).slots[s] = m.slots[s]
         /\ f.seq \in 0 .. m.total - 1 /\ f.seq \notin FullSlots(m)
         /\ FullSlots(Filled(m, f)) = FullSlots(m) \cup {f.seq}
         /\ Filled(m, f).filled = m.filled + 1
         /\ Filled(m, f).filled = Cardinality(FullSlots(Filled(m, f)))
         /\ m.filled + 1 # m.total => Filled(m, f) \in Pending
<1>1. /\ m.id \in Ids /\ m.total \in Totals /\ m.total \in Nat
      /\ m.slots \in [0 .. m.total - 1 -> Payloads \cup {Vacant}]
      /\ m.filled \in 0 .. m.total - 1
      /\ m = [id |-> m.id, total |-> m.total, slots |-> m.slots, filled |-> m.filled]
  BY DraftFacts
<1>2. f.payload \in Payloads /\ f.payload # Vacant /\ f.seq \in Nat /\ f.total \in Nat
  BY FragmentFacts
<1>3. m.id = f.id /\ m.total = f.total /\ m.slots[f.seq] = Vacant
  BY DEF Accepts
<1>4. f.seq \in 0 .. m.total - 1 /\ f.seq \notin FullSlots(m)
  BY <1>1, <1>2, <1>3 DEF WellFormed, FullSlots
<1> DEFINE w == Filled(m, f)
           slots == [m.slots EXCEPT ![f.seq] = f.payload]
<1>5. w = [id |-> m.id, total |-> m.total, slots |-> slots, filled |-> m.filled + 1]
  BY <1>1 DEF Filled
<1>6. /\ slots \in [0 .. m.total - 1 -> Payloads \cup {Vacant}]
      /\ slots[f.seq] = f.payload
      /\ \A s \in 0 .. m.total - 1 : s # f.seq => slots[s] = m.slots[s]
  BY <1>1, <1>2, <1>4
<1> HIDE DEF w, slots
<1>7. /\ w.id = m.id /\ w.total = m.total /\ w.slots = slots /\ w.filled = m.filled + 1
  BY <1>5
<1>8. FullSlots(w) = FullSlots(m) \cup {f.seq}
  BY <1>2, <1>4, <1>6, <1>7 DEF FullSlots
<1>9. w.filled = Cardinality(FullSlots(w))
  <2>1. IsFiniteSet(0 .. m.total - 1)
    <3>1. 0 \in Int /\ m.total - 1 \in Int
      BY <1>1
    <3>2. QED
      BY <3>1, FS_Interval
  <2>2. IsFiniteSet(FullSlots(m))
    BY <2>1, FS_Subset DEF FullSlots
  <2>3. Cardinality(FullSlots(m) \cup {f.seq}) = Cardinality(FullSlots(m)) + 1
    BY <2>2, <1>4, FS_AddElement
  <2>4. QED
    BY <2>3, <1>7, <1>8
<1>10. ASSUME m.filled + 1 # m.total
       PROVE  w \in Pending
  <2>1. m.filled + 1 \in 0 .. m.total - 1 /\ m.filled + 1 # 0
    BY <1>1, <1>10
  <2>2. QED
    BY <2>1, <1>1, <1>5, <1>6, MakeDraft
<1>11. QED
  BY <1>4, <1>6, <1>7, <1>8, <1>9, <1>10 DEF w

LEMMA BlankFacts ==
  ASSUME NEW f \in Fragments, WellFormed(f), NEW p
  PROVE  /\ Blank(f) \in Draft /\ Sound(p, Blank(f))
         /\ Blank(f).id = f.id /\ Blank(f).total = f.total /\ Blank(f).filled = 0
         /\ \A s \in 0 .. f.total - 1 : Blank(f).slots[s] = Vacant
         /\ FullSlots(Blank(f)) = {}
<1> DEFINE slots == [s \in 0 .. f.total - 1 |-> Vacant]
<1>1. f.id \in Ids /\ f.total \in Totals /\ f.total \in Nat /\ f.seq \in Nat
  BY FragmentFacts
<1>2. slots \in [0 .. f.total - 1 -> Payloads \cup {Vacant}] /\ 0 \in 0 .. f.total - 1
  BY <1>1 DEF WellFormed
<1>3. \A s \in 0 .. f.total - 1 : slots[s] = Vacant
  OBVIOUS
<1> HIDE DEF slots
<1>4. Blank(f) = [id |-> f.id, total |-> f.total, slots |-> slots, filled |-> 0]
  BY DEF Blank, slots
<1>5. Blank(f) \in Draft
  BY <1>1, <1>2, <1>4, MakeDraft
<1>6. FullSlots(Blank(f)) = {}
  BY <1>3, <1>4 DEF FullSlots
<1>7. Cardinality({}) = 0
  BY FS_EmptySet
<1>8. Sound(p, Blank(f))
  <2>1. Blank(f).filled = Cardinality(FullSlots(Blank(f)))
    <3>1. Blank(f).filled = 0
      BY <1>4
    <3>2. QED
      BY <3>1, <1>6, <1>7
  <2>2. \A s \in FullSlots(Blank(f)) : FALSE
    BY <1>6
  <2>3. QED
    BY <1>5, <2>1, <2>2 DEF Sound
<1>9. QED
  BY <1>3, <1>4, <1>5, <1>6, <1>8

-----------------------------------------------------------------------------
(* Queues. *)

LEMMA SeqRetyped ==
  ASSUME NEW S, NEW T, NEW r \in Seq(S), \A i \in 1 .. Len(r) : r[i] \in T
  PROVE  r \in Seq(T)
<1>1. PICK n \in Nat : r \in [1 .. n -> S] /\ Len(r) = n
  OBVIOUS
<1>2. r \in [1 .. n -> T]
  BY <1>1
<1>3. QED
  BY <1>2

(* Making room: nothing, or the oldest entry. *)
LEMMA RoomFacts ==
  ASSUME NEW p, NEW q, Good(p, q), NEW r, r = Room(q)
  PROVE  /\ r \in Seq(Pending) /\ Len(r) + 1 <= MaxInflight /\ Len(r) \in Nat
         /\ IF IsFull(q)
            THEN /\ Len(q) = Len(r) + 1
                 /\ \A i \in 1 .. Len(r) : r[i] = q[i+1]
            ELSE r = q
<1>1. q \in Seq(Pending) /\ Len(q) \in Nat /\ Len(q) <= MaxInflight
  BY DEF Good
<1>2. CASE IsFull(q)
  <2>1. Len(q) > 0 /\ q # <<>>
    BY <1>1, <1>2 DEF IsFull
  <2>2. r = Tail(q)
    BY <1>2 DEF Room
  <2>3. /\ r \in Seq(Pending) /\ Len(r) = Len(q) - 1
        /\ \A i \in 1 .. Len(r) : r[i] = q[i+1]
    BY <1>1, <2>1, <2>2, HeadTailProperties
  <2>4. QED
    BY <1>1, <1>2, <2>1, <2>3
<1>3. CASE ~IsFull(q)
  <2>1. r = q /\ ~(Len(q) >= MaxInflight)
    BY <1>3 DEF Room, IsFull
  <2>2. QED
    BY <1>1, <1>3, <2>1
<1>4. QED
  BY <1>2, <1>3

(* The queue once the entry of f is there. *)
LEMMA OpenedFacts ==
  ASSUME NEW p, NEW q, Good(p, q), NEW f \in Fragments, WellFormed(f),
         NEW o, o = Opened(q, f)
  PROVE  /\ o \in Seq(Draft) /\ Len(o) \in Nat /\ Len(o) <= MaxInflight
         /\ DistinctIds(o)
         /\ \A i \in 1 .. Len(o) :
              /\ Sound(p, o[i])
              /\ o[i].id # f.id => o[i] \in Pending
<1>1. q \in Seq(Pending) /\ Len(q) \in Nat /\ Len(q) <= MaxInflight /\ DistinctIds(q)
      /\ \A i \in 1 .. Len(q) : q[i] \in Pending /\ Sound(p, q[i])
  BY DEF Good
<1>2. \A m \in Pending : m \in Draft
  BY PendingFacts
<1>3. CASE IsOpen(q, f)
  <2>1. o = q
    BY <1>3 DEF Opened
  <2>2. q \in Seq(Draft)
    BY <1>1, <1>2
  <2>3. QED
    BY <1>1, <2>1, <2>2
<1>4. CASE ~IsOpen(q, f)
  <2> DEFINE r == Room(q)
             b == Blank(f)
  <2>1. o = Append(r, b)
    BY <1>4 DEF Opened
  <2>2. /\ r \in Seq(Pending) /\ Len(r) + 1 <= MaxInflight /\ Len(r) \in Nat
        /\ IF IsFull(q)
           THEN /\ Len(q) = Len(r) + 1
                /\ \A i \in 1 .. Len(r) : r[i] = q[i+1]
           ELSE r = q
    BY RoomFacts
  <2>3. b \in Draft /\ Sound(p, b) /\ b.id = f.id
    BY BlankFacts
  <2>4. \A i \in 1 .. Len(q) : q[i].id # f.id
    BY <1>1, <1>4 DEF IsOpen
  <2> HIDE DEF r, b
  <2>5. \E k \in {0, 1} : \A i \in 1 .. Len(r) : i + k \in 1 .. Len(q) /\ r[i] = q[i+k]
    <3>1. CASE IsFull(q)
      <4>1. \A i \in 1 .. Len(r) : i + 1 \in 1 .. Len(q) /\ r[i] = q[i+1]
        BY <2>2, <3>1
      <4>2. QED
        BY <4>1
    <3>2. CASE ~IsFull(q)
      <4>1. \A i \in 1 .. Len(r) : i + 0 \in 1 .. Len(q) /\ r[i] = q[i+0]
        BY <2>2, <3>2
      <4>2. QED
        BY <4>1
    <3>3. QED
      BY <3>1, <3>2
  <2>6. r \in Seq(Draft)
    BY <1>2, <2>2
  <2>7. /\ o \in Seq(Draft) /\ Len(o) = Len(r) + 1 /\ o[Len(r) + 1] = b
        /\ \A i \in 1 .. Len(r) : o[i] = r[i]
    BY <2>1, <2>2, <2>3, <2>6, AppendProperties
  <2>8. PICK k \in {0, 1} :
          \A i \in 1 .. Len(r) : i + k \in 1 .. Len(q) /\ r[i] = q[i+k]
    BY <2>5
  <2>9. \A i \in 1 .. Len(r) :
          /\ o[i] = q[i+k] /\ i + k \in 1 .. Len(q)
          /\ o[i] \in Pending /\ Sound(p, o[i]) /\ o[i].id # f.id
    BY <1>1, <2>4, <2>7, <2>8
  <2>10. ASSUME NEW i \in 1 .. Len(o), NEW j \in 1 .. Len(o), o[i].id = o[j].id
         PROVE  i = j
    <3>1. CASE i \in 1 .. Len(r) /\ j \in 1 .. Len(r)
      <4>1. q[i+k].id = q[j+k].id /\ i + k \in 1 .. Len(q) /\ j + k \in 1 .. Len(q)
        BY <2>9, <2>10, <3>1
      <4>2. i + k = j + k
        BY <1>1, <4>1 DEF DistinctIds
      <4>3. QED
        BY <4>2
    <3>2. CASE i \in 1 .. Len(r) /\ j = Len(r) + 1
      BY <2>3, <2>7, <2>9, <2>10, <3>2
    <3>3. CASE i = Len(r) + 1 /\ j \in 1 .. Len(r)
      BY <2>3, <2>7, <2>9, <2>10, <3>3
    <3>4. QED
      BY <2>2, <2>7, <3>1, <3>2, <3>3
  <2>11. ASSUME NEW i \in 1 .. Len(o)
         PROVE  Sound(p, o[i]) /\ (o[i].id # f.id => o[i] \in Pending)
    <3>1. CASE i \in 1 .. Len(r)
      BY <2>9, <3>1
    <3>2. CASE i = Len(r) + 1
      BY <2>3, <2>7, <3>2
    <3>3. QED
      BY <2>2, <2>7, <3>1, <3>2
  <2>12. QED
    BY <2>2, <2>7, <2>10, <2>11 DEF DistinctIds
<1>5. QED
  BY <1>3, <1>4

(* r has the entries of q but for the one at k. *)
AllBut(r, q, k) ==
    /\ \A i \in 1 .. Len(r) : \E j \in 1 .. Len(q) : j # k /\ r[i] = q[j]
    /\ \A j \in 1 .. Len(q) : j # k => \E i \in 1 .. Len(r) : r[i] = q[j]

(* Removing an entry. *)
LEMMA RemoveFacts ==
  ASSUME NEW p, NEW q \in Seq(Draft), Len(q) <= MaxInflight, DistinctIds(q),
         NEW k \in 1 .. Len(q), NEW r, r = RemoveAt(q, k),
         \A i \in 1 .. Len(q) : Sound(p, q[i]) /\ (i # k => q[i] \in Pending)
  PROVE  Good(p, r) /\ AllBut(r, q, k)
<1>1. Len(q) \in Nat /\ k \in Int /\ k - 1 \in 0 .. Len(q) /\ k + 1 \in Int
  OBVIOUS
<1> DEFINE a == SubSeq(q, 1, k - 1)
           b == SubSeq(q, k + 1, Len(q))
           at(i) == IF i < k THEN i ELSE i + 1
<1>2. /\ a \in Seq(Draft) /\ Len(a) = k - 1
      /\ \A i \in 1 .. k - 1 : a[i] = q[i]
  BY <1>1, SubSeqProperties
<1>3. /\ b \in Seq(Draft) /\ Len(b) = Len(q) - k
      /\ \A i \in 1 .. Len(q) - k : b[i] = q[k + i]
  BY <1>1, SubSeqProperties
<1>4. r = a \o b
  BY DEF RemoveAt
<1> HIDE DEF a, b
<1>5. /\ r \in Seq(Draft) /\ Len(r) = Len(a) + Len(b)
      /\ \A i \in 1 .. Len(a) + Len(b) :
            r[i] = IF i <= Len(a) THEN a[i] ELSE b[i - Len(a)]
  <2>1. /\ a \o b \in Seq(Draft) /\ Len(a \o b) = Len(a) + Len(b)
        /\ \A i \in 1 .. Len(a) + Len(b) :
              (a \o b)[i] = IF i <= Len(a) THEN a[i] ELSE b[i - Len(a)]
    <3>1. a \in Seq(Draft) /\ b \in Seq(Draft)
      BY <1>2, <1>3
    <3>2. QED
      BY <3>1, ConcatProperties
  <2>2. QED
    BY <1>4, <2>1
<1>6. Len(r) = Len(q) - 1
  BY <1>1, <1>2, <1>3, <1>5
<1>7. ASSUME NEW i \in 1 .. Len(q) - 1
      PROVE  at(i) \in 1 .. Len(q) /\ at(i) # k /\ r[i] = q[at(i)]
  <2>1. i \in 1 .. Len(a) + Len(b)
    BY <1>1, <1>2, <1>3
  <2>2. CASE i < k
    <3>1. i <= Len(a) /\ i \in 1 .. k - 1 /\ at(i) = i
      BY <1>1, <1>2, <2>2
    <3>2. QED
      BY <1>1, <1>2, <1>5, <2>1, <3>1
  <2>3. CASE ~(i < k)
    <3>1. ~(i <= Len(a)) /\ i - Len(a) \in 1 .. Len(q) - k /\ k + (i - Len(a)) = i + 1
      BY <1>1, <1>2, <2>3
    <3>2. r[i] = q[i + 1]
      BY <1>3, <1>5, <2>1, <3>1
    <3>3. QED
      BY <1>1, <2>3, <3>2
  <2>4. QED
    BY <2>2, <2>3
<1>8. \A i, j \in 1 .. Len(q) - 1 : at(i) = at(j) => i = j
  BY <1>1
<1>9. \A i \in 1 .. Len(r) : \E j \in 1 .. Len(q) : j # k /\ r[i] = q[j]
  BY <1>6, <1>7
<1>10. ASSUME NEW j \in 1 .. Len(q), j # k
       PROVE  \E i \in 1 .. Len(r) : r[i] = q[j]
  <2>1. CASE j < k
    <3>1. j \in 1 .. Len(q) - 1 /\ at(j) = j
      BY <1>1, <2>1
    <3>2. QED
      BY <1>6, <1>7, <3>1
  <2>2. CASE ~(j < k)
    <3>1. j - 1 \in 1 .. Len(q) - 1 /\ at(j - 1) = j
      BY <1>1, <1>10, <2>2
    <3>2. QED
      BY <1>6, <1>7, <3>1
  <2>3. QED
    BY <2>1, <2>2
<1> HIDE DEF at
<1>11. Good(p, r)
  <2>1. \A i \in 1 .. Len(r) : r[i] \in Pending /\ Sound(p, r[i])
    BY <1>9
  <2>2. r \in Seq(Pending)
    BY <1>5, <2>1, SeqRetyped
  <2>3. Len(r) <= MaxInflight
    BY <1>1, <1>6
  <2>4. DistinctIds(r)
    BY <1>6, <1>7, <1>8 DEF DistinctIds
  <2>5. QED
    BY <2>1, <2>2, <2>3, <2>4 DEF Good
<1>12. QED
  BY <1>9, <1>10, <1>11 DEF AllBut

(* Replacing an entry by one of the same message. *)
LEMMA ReplaceFacts ==
  ASSUME NEW p, NEW q \in Seq(Draft), Len(q) <= MaxInflight, DistinctIds(q),
         NEW k \in 1 .. Len(q), NEW m, m \in Pending, Sound(p, m), m.id = q[k].id,
         \A i \in 1 .. Len(q) : Sound(p, q[i]) /\ (i # k => q[i] \in Pending),
         NEW r, r = [q EXCEPT ![k] = m]
  PROVE  /\ Good(p, r) /\ Len(r) = Len(q) /\ r[k] = m
         /\ \A i \in 1 .. Len(q) : i # k => r[i] = q[i]
<1>1. m \in Draft
  BY PendingFacts
<1>2. /\ r \in Seq(Draft) /\ Len(r) = Len(q) /\ r[k] = m
      /\ \A i \in 1 .. Len(q) : i # k => r[i] = q[i]
  BY <1>1, ExceptSeq
<1>3. \A i \in 1 .. Len(r) : r[i] \in Pending /\ Sound(p, r[i]) /\ r[i].id = q[i].id
  BY <1>2
<1>4. r \in Seq(Pending)
  BY <1>2, <1>3, SeqRetyped
<1>5. DistinctIds(r)
  BY <1>2, <1>3 DEF DistinctIds
<1>6. QED
  BY <1>2, <1>3, <1>4, <1>5 DEF Good

-----------------------------------------------------------------------------
(* The invariant. *)

LEMMA GoodQueues ==
  ASSUME IndInv, NEW p \in Peers
  PROVE  Good(p, queues[p])
<1>1. /\ queues[p] \in Seq(Pending) /\ Len(queues[p]) <= MaxInflight
      /\ DOMAIN queues[p] = 1 .. Len(queues[p])
  BY DEF IndInv, TypeOK, QueuesBounded
<1>2. DistinctIds(queues[p])
  BY <1>1 DEF IndInv, OneEntryPerId, DistinctIds
<1>3. ASSUME NEW i \in 1 .. Len(queues[p])
      PROVE  Sound(p, queues[p][i])
  <2>1. queues[p][i] \in Draft
    BY <1>1, PendingFacts
  <2>2. i \in DOMAIN queues[p]
    BY <1>1
  <2>3. queues[p][i].filled = Cardinality(FullSlots(queues[p][i]))
    BY <2>2 DEF IndInv, FilledCounts
  <2>4. \A s \in FullSlots(queues[p][i]) :
          \E f \in Fragments :
             /\ f.peer = p /\ f.id = queues[p][i].id /\ f.total = queues[p][i].total
             /\ f.seq = s /\ f.payload = queues[p][i].slots[s]
    BY <2>2 DEF IndInv, SlotsSigned
  <2>5. QED
    BY <2>1, <2>3, <2>4 DEF Sound
<1>4. QED
  BY <1>1, <1>2, <1>3 DEF Good

(* The slots of an entry after one more of them was filled were all signed. *)
LEMMA FilledSigned ==
  ASSUME NEW p, NEW m, Sound(p, m), NEW f \in Fragments, f.peer = p, WellFormed(f),
         Accepts(m, f)
  PROVE  \A s \in FullSlots(Filled(m, f)) :
            \E g \in Fragments :
               /\ g.peer = p /\ g.id = m.id /\ g.total = m.total
               /\ g.seq = s /\ g.payload = Filled(m, f).slots[s]
<1>1. m \in Draft /\ m.filled = Cardinality(FullSlots(m))
  BY DEF Sound
<1>2. /\ Filled(m, f).slots[f.seq] = f.payload
      /\ \A s \in 0 .. m.total - 1 :
              s # f.seq => Filled(m, f).slots[s] = m.slots[s]
      /\ FullSlots(Filled(m, f)) = FullSlots(m) \cup {f.seq}
  BY <1>1, FilledFacts
<1>3. m.id = f.id /\ m.total = f.total
  BY DEF Accepts
<1>4. ASSUME NEW s \in FullSlots(m), s # f.seq
      PROVE  Filled(m, f).slots[s] = m.slots[s]
  BY <1>2, <1>4 DEF FullSlots
<1>5. QED
  BY <1>2, <1>3, <1>4 DEF Sound

(* An accepted fragment: what the entry becomes, and with it the queue. *)
LEMMA TakenFacts ==
  ASSUME IndInv, NEW f \in Fragments, WellFormed(f),
         NEW q, q = Opened(queues[f.peer], f),
         NEW i \in DOMAIN q, Accepts(q[i], f)
  PROVE  /\ i \in 1 .. Len(q)
         /\ q[i].filled + 1 # q[i].total =>
              Good(f.peer, [q EXCEPT ![i] = Filled(q[i], f)])
         /\ q[i].filled + 1 = q[i].total =>
              /\ Good(f.peer, RemoveAt(q, i))
              /\ FullSlots(Filled(q[i], f)) = 0 .. f.total - 1
              /\ Filled(q[i], f).slots \in [0 .. f.total - 1 -> Payloads]
              /\ SignedBody(f, Filled(q[i], f).slots)
<1> DEFINE p == f.peer
           m == q[i]
           w == Filled(m, f)
<1>1. Good(p, queues[p])
  BY GoodQueues, FragmentFacts
<1>2. /\ q \in Seq(Draft) /\ Len(q) \in Nat /\ Len(q) <= MaxInflight
      /\ DistinctIds(q)
      /\ \A k \in 1 .. Len(q) :
              /\ Sound(p, q[k])
              /\ q[k].id # f.id => q[k] \in Pending
  BY <1>1, OpenedFacts
<1>3. i \in 1 .. Len(q)
  BY <1>2
<1>4. m.id = f.id /\ m.total = f.total
  BY DEF Accepts
<1>5. \A k \in 1 .. Len(q) : Sound(p, q[k]) /\ (k # i => q[k] \in Pending)
  BY <1>2, <1>3, <1>4 DEF DistinctIds
<1>6. Sound(p, m) /\ m \in Draft /\ m.filled = Cardinality(FullSlots(m))
  BY <1>2, <1>3 DEF Sound
<1>7. /\ w.id = m.id /\ w.total = m.total
      /\ w.slots \in [0 .. m.total - 1 -> Payloads \cup {Vacant}]
      /\ FullSlots(w) = FullSlots(m) \cup {f.seq}
      /\ f.seq \in 0 .. m.total - 1
      /\ w.filled = m.filled + 1
      /\ w.filled = Cardinality(FullSlots(w))
      /\ m.filled + 1 # m.total => w \in Pending
  BY <1>6, FilledFacts
<1>8. \A s \in FullSlots(w) :
            \E g \in Fragments :
               /\ g.peer = p /\ g.id = m.id /\ g.total = m.total
               /\ g.seq = s /\ g.payload = w.slots[s]
  BY <1>6, FilledSigned
<1> HIDE DEF p, m, w
<1>9. ASSUME m.filled + 1 # m.total
      PROVE  Good(p, [q EXCEPT ![i] = w])
  <2>1. w \in Pending /\ w \in Draft
    BY <1>7, <1>9, PendingFacts
  <2>2. Sound(p, w)
    BY <1>7, <1>8, <2>1 DEF Sound
  <2>3. w.id = q[i].id
    BY <1>7 DEF m
  <2>4. QED
    BY <1>2, <1>3, <1>5, <2>1, <2>2, <2>3, ReplaceFacts
<1>10. ASSUME m.filled + 1 = m.total
       PROVE  /\ Good(p, RemoveAt(q, i))
              /\ FullSlots(w) = 0 .. m.total - 1
              /\ w.slots \in [0 .. m.total - 1 -> Payloads]
  <2>1. Good(p, RemoveAt(q, i))
    BY <1>2, <1>3, <1>5, RemoveFacts
  <2>2. FullSlots(w) = 0 .. m.total - 1
    <3>1. m.total \in Nat /\ 0 \in Int /\ m.total - 1 \in Int /\ m.total # 0
      BY <1>4, FragmentFacts DEF WellFormed
    <3>2. IsFiniteSet(0 .. m.total - 1) /\ Cardinality(0 .. m.total - 1) = m.total
      <4>1. /\ IsFiniteSet(0 .. m.total - 1)
            /\ Cardinality(0 .. m.total - 1) =
                 IF 0 > m.total - 1 THEN 0 ELSE (m.total - 1) - 0 + 1
        BY <3>1, FS_Interval
      <4>2. QED
        BY <3>1, <4>1
    <3>3. FullSlots(w) \subseteq 0 .. m.total - 1
      BY <1>7 DEF FullSlots
    <3>4. Cardinality(FullSlots(w)) = Cardinality(0 .. m.total - 1)
      BY <1>7, <1>10, <3>2
    <3>5. QED
      BY <3>2, <3>3, <3>4, FS_Subset
  <2>3. \A s \in 0 .. m.total - 1 : w.slots[s] # Vacant
    BY <2>2, <1>7 DEF FullSlots
  <2>4. QED
    BY <1>7, <2>1, <2>2, <2>3
<1>11. ASSUME m.filled + 1 = m.total
       PROVE  SignedBody(f, w.slots)
  BY <1>4, <1>8, <1>10, <1>11 DEF SignedBody, p
<1>12. QED
  BY <1>3, <1>4, <1>9, <1>10, <1>11 DEF p, m, w

(* Good queues and a typed, whole last message are all the invariant asks. *)
LEMMA InvFromQueues ==
  ASSUME IndInv,
         NEW p \in Peers, NEW r, Good(p, r), queues' = [queues EXCEPT ![p] = r],
         evicted' \in 0 .. MaxU64,
         \/ last' = NoMessage
         \/ \E n \in Totals : last' \in [peer : Peers, id : Ids, body : [0 .. n - 1 -> Payloads]],
         WholeMessages'
  PROVE  IndInv'
<1>1. queues \in [Peers -> Seq(Pending)]
  BY DEF IndInv, TypeOK
<1>2. queues' \in [Peers -> Seq(Pending)]
  BY <1>1 DEF Good
<1>3. \A o \in Peers : Good(o, queues'[o])
  <2>1. \A o \in Peers : Good(o, queues[o])
    BY GoodQueues
  <2>2. \A o \in Peers : queues'[o] = IF o = p THEN r ELSE queues[o]
    BY <1>1
  <2>3. QED
    BY <2>1, <2>2
<1>4. \A o \in Peers : DOMAIN queues'[o] = 1 .. Len(queues'[o])
  BY <1>2
<1>5. TypeOK'
  BY <1>2 DEF TypeOK
<1>6. QueuesBounded'
  BY <1>3 DEF QueuesBounded, Good
<1>7. OneEntryPerId'
  <2>1. ASSUME NEW o \in Peers,
               NEW i \in DOMAIN queues'[o], NEW j \in DOMAIN queues'[o],
               queues'[o][i].id = queues'[o][j].id
        PROVE  i = j
    <3>1. DistinctIds(queues'[o])
      BY <1>3 DEF Good
    <3>2. i \in 1 .. Len(queues'[o]) /\ j \in 1 .. Len(queues'[o])
      BY <1>4
    <3>3. QED
      BY <2>1, <3>1, <3>2 DEF DistinctIds
  <2>2. QED
    BY <2>1 DEF OneEntryPerId
<1>8. FilledCounts'
  <2>1. \A o \in Peers : \A i \in DOMAIN queues'[o] : Sound(o, queues'[o][i])
    BY <1>3, <1>4 DEF Good
  <2>2. QED
    BY <2>1 DEF FilledCounts, Sound
<1>9. SlotsSigned'
  <2>1. \A o \in Peers : \A i \in DOMAIN queues'[o] : Sound(o, queues'[o][i])
    BY <1>3, <1>4 DEF Good
  <2>2. QED
    BY <2>1 DEF SlotsSigned, Sound
<1>10. QED
  BY <1>5, <1>6, <1>7, <1>8, <1>9 DEF IndInv

LEMMA EvictedTyped ==
  ASSUME IndInv, NEW f, CountEviction(f)
  PROVE  evicted' \in 0 .. MaxU64
  BY DEF IndInv, TypeOK, CountEviction

LEMMA StoreKeepsInv ==
  ASSUME IndInv, NEW f \in Fragments, Store(f)
  PROVE  IndInv'
<1> DEFINE q == Opened(queues[f.peer], f)
<1>1. WellFormed(f) /\ CountEviction(f) /\ last' = NoMessage
  BY DEF Store
<1>2. PICK i \in DOMAIN q :
        /\ Accepts(q[i], f) /\ q[i].filled + 1 # q[i].total
        /\ queues' = [queues EXCEPT ![f.peer] = [q EXCEPT ![i] = Filled(q[i], f)]]
  BY DEF Store
<1> HIDE DEF q
<1>3. Good(f.peer, [q EXCEPT ![i] = Filled(q[i], f)])
  BY <1>1, <1>2, TakenFacts DEF q
<1>4. f.peer \in Peers
  BY FragmentFacts
<1>5. WholeMessages'
  BY <1>1 DEF WholeMessages
<1>6. evicted' \in 0 .. MaxU64
  BY <1>1, EvictedTyped
<1>7. QED
  BY <1>1, <1>2, <1>3, <1>4, <1>5, <1>6, InvFromQueues

LEMMA CompleteKeepsInv ==
  ASSUME IndInv, NEW f \in Fragments, Complete(f)
  PROVE  IndInv'
<1> DEFINE q == Opened(queues[f.peer], f)
<1>1. WellFormed(f) /\ CountEviction(f)
  BY DEF Complete
<1>2. PICK i \in DOMAIN q :
        /\ Accepts(q[i], f) /\ q[i].filled + 1 = q[i].total
        /\ queues' = [queues EXCEPT ![f.peer] = RemoveAt(q, i)]
        /\ last' = [peer |-> f.peer, id |-> f.id, body |-> Filled(q[i], f).slots]
  BY DEF Complete
<1> DEFINE body == Filled(q[i], f).slots
<1> HIDE DEF q, body
<1>3. /\ Good(f.peer, RemoveAt(q, i))
      /\ body \in [0 .. f.total - 1 -> Payloads]
      /\ SignedBody(f, body)
  BY <1>1, <1>2, TakenFacts DEF q, body
<1>4. f.peer \in Peers /\ f.id \in Ids /\ f.total \in Totals
  BY FragmentFacts
<1>5. last' = [peer |-> f.peer, id |-> f.id, body |-> body]
  BY <1>2 DEF body
<1>6. last'.peer = f.peer /\ last'.id = f.id /\ last'.body = body
      /\ DOMAIN body = 0 .. f.total - 1
  BY <1>3, <1>5
<1>7. WholeMessages'
  BY <1>3, <1>6 DEF WholeMessages, SignedBody
<1>8. last' \in [peer : Peers, id : Ids, body : [0 .. f.total - 1 -> Payloads]]
  BY <1>3, <1>4, <1>5
<1>9. evicted' \in 0 .. MaxU64
  BY <1>1, EvictedTyped
<1>10. QED
  BY <1>2, <1>3, <1>4, <1>7, <1>8, <1>9, InvFromQueues

LEMMA Initially == Init => IndInv
<1> SUFFICES ASSUME Init PROVE IndInv
  OBVIOUS
<1>1. queues = [p \in Peers |-> <<>>] /\ evicted = 0 /\ last = NoMessage
  BY DEF Init
<1>2. \A p \in Peers : queues[p] = <<>> /\ Len(queues[p]) = 0 /\ DOMAIN queues[p] = {}
  BY <1>1
<1>3. TypeOK
  BY <1>1 DEF TypeOK
<1>4. QueuesBounded /\ OneEntryPerId /\ FilledCounts /\ SlotsSigned
  BY <1>2 DEF QueuesBounded, OneEntryPerId, FilledCounts, SlotsSigned
<1>5. WholeMessages
  BY <1>1 DEF WholeMessages
<1>6. QED
  BY <1>3, <1>4, <1>5 DEF IndInv

LEMMA NextKeepsInv == IndInv /\ [Next]_vars => IndInv'
<1> SUFFICES ASSUME IndInv, [Next]_vars PROVE IndInv'
  OBVIOUS
<1>1. ASSUME NEW f \in Fragments, Feed(f)
      PROVE  IndInv'
  BY <1>1, StoreKeepsInv, CompleteKeepsInv DEF Feed
<1>2. CASE UNCHANGED vars
  BY <1>2 DEF vars, IndInv, TypeOK, QueuesBounded, OneEntryPerId, FilledCounts,
     SlotsSigned, WholeMessages
<1>3. QED
  BY <1>1, <1>2 DEF Next

(* The bookkeeping of the reassembler is right whatever is fed to it. *)
THEOREM Invariance == Spec => []IndInv
<1>1. QED
  BY Initially, NextKeepsInv, PTL DEF Spec

(* No message is handed over unless its peer signed every piece of it. *)
THEOREM OnlyWholeMessages == Spec => []WholeMessages
<1>1. IndInv => WholeMessages
  BY DEF IndInv
<1>2. QED
  BY <1>1, Invariance, PTL

-----------------------------------------------------------------------------
(* The reassembler implements Reassembly. *)

(* The fragments of p that the slots of an entry hold. *)
Parts(p, m) ==
    {g \in Fragments :
        /\ g.peer = p /\ WellFormed(g)
        /\ m.id = g.id /\ m.total = g.total /\ m.slots[g.seq] = g.payload}

LEMMA PartsFacts ==
  ASSUME NEW p, NEW m, Sound(p, m)
  PROVE  /\ {g.seq : g \in Parts(p, m)} = FullSlots(m)
         /\ m.filled # 0 => Parts(p, m) # {}
         /\ \A g \in Parts(p, m) : g.peer = p /\ g.id = m.id /\ g.total = m.total
         /\ m.filled = 0 => Parts(p, m) = {}
<1>1. /\ m \in Draft /\ m.filled = Cardinality(FullSlots(m))
      /\ \A s \in FullSlots(m) :
            \E f \in Fragments :
               /\ f.peer = p /\ f.id = m.id /\ f.total = m.total
               /\ f.seq = s /\ f.payload = m.slots[s]
  BY DEF Sound
<1>2. m.total \in Nat
  BY <1>1, DraftFacts
<1>3. ASSUME NEW g \in Parts(p, m)
      PROVE  g.seq \in FullSlots(m)
  <2>1. g \in Fragments /\ m.total = g.total /\ m.slots[g.seq] = g.payload /\ WellFormed(g)
    BY DEF Parts
  <2>2. g.payload # Vacant /\ g.seq \in Nat
    BY <2>1, FragmentFacts
  <2>3. QED
    BY <1>2, <2>1, <2>2 DEF FullSlots, WellFormed
<1>4. ASSUME NEW s \in FullSlots(m)
      PROVE  \E g \in Parts(p, m) : g.seq = s
  <2>1. PICK g \in Fragments :
               /\ g.peer = p /\ g.id = m.id /\ g.total = m.total
               /\ g.seq = s /\ g.payload = m.slots[s]
    BY <1>1
  <2>2. s \in 0 .. m.total - 1
    BY DEF FullSlots
  <2>3. WellFormed(g)
    BY <1>2, <2>1, <2>2 DEF WellFormed
  <2>4. QED
    BY <2>1, <2>3 DEF Parts
<1>5. {g.seq : g \in Parts(p, m)} = FullSlots(m)
  BY <1>3, <1>4
<1>6. Cardinality({}) = 0
  BY FS_EmptySet
<1>7. m.filled # 0 => Parts(p, m) # {}
  BY <1>1, <1>4, <1>6
<1>8. ASSUME m.filled = 0
      PROVE  Parts(p, m) = {}
  <2>1. IsFiniteSet(FullSlots(m))
    <3>1. 0 \in Int /\ m.total - 1 \in Int
      BY <1>2
    <3>2. IsFiniteSet(0 .. m.total - 1)
      BY <3>1, FS_Interval
    <3>3. QED
      BY <3>2, FS_Subset DEF FullSlots
  <2>2. FullSlots(m) = {}
    BY <1>1, <1>8, <2>1, FS_EmptySet
  <2>3. QED
    BY <1>3, <2>2
<1>9. QED
  BY <1>5, <1>7, <1>8 DEF Parts

(* What is held of a peer is what the entries of its queue hold. *)
LEMMA HeldFacts ==
  ASSUME IndInv, NEW p \in Peers, NEW g
  PROVE  g \in Held /\ g.peer = p <=>
           \E i \in 1 .. Len(queues[p]) : g \in Parts(p, queues[p][i])
<1>1. DOMAIN queues[p] = 1 .. Len(queues[p])
  BY DEF IndInv, TypeOK
<1>2. QED
  BY <1>1 DEF Held, Parts

(* The instance has its own name for the cardinality of a set. *)
LEMMA SameCardinality ==
  ASSUME NEW S
  PROVE  R!Cardinality(S) = Cardinality(S)
  BY DEF R!Cardinality, Cardinality

(* As many messages of a peer are open as its queue has entries. *)
LEMMA OpenCount ==
  ASSUME IndInv, NEW p \in Peers
  PROVE  /\ R!OpenIds(p) = {queues[p][i].id : i \in 1 .. Len(queues[p])}
         /\ Cardinality(R!OpenIds(p)) = Len(queues[p])
<1> DEFINE q == queues[p]
           n == Len(q)
           S == {q[i].id : i \in 1 .. n}
<1>1. Good(p, q)
  BY GoodQueues
<1>2. n \in Nat /\ \A i \in 1 .. n : Sound(p, q[i]) /\ q[i].filled # 0
  BY <1>1, PendingFacts DEF Good
<1>3. R!OpenIds(p) = S
  <2>1. ASSUME NEW id \in R!OpenIds(p)
        PROVE  id \in S
    <3>1. PICK g \in Held : g.peer = p /\ g.id = id
      BY DEF R!OpenIds
    <3>2. PICK i \in 1 .. n : g \in Parts(p, q[i])
      BY <3>1, HeldFacts
    <3>3. q[i].id = id
      BY <3>1, <3>2 DEF Parts
    <3>4. QED
      BY <3>3
  <2>2. ASSUME NEW i \in 1 .. n
        PROVE  q[i].id \in R!OpenIds(p)
    <3>1. PICK g : g \in Parts(p, q[i])
      BY <1>2, PartsFacts
    <3>2. g.id = q[i].id /\ g.peer = p
      BY <3>1 DEF Parts
    <3>3. g \in Held
      BY <3>1, HeldFacts
    <3>4. QED
      BY <3>2, <3>3 DEF R!OpenIds
  <2>3. QED
    BY <2>1, <2>2
<1>4. Cardinality(S) = n
  <2> DEFINE b == [i \in 1 .. n |-> q[i].id]
  <2>1. b \in [1 .. n -> S]
    OBVIOUS
  <2>2. \A i, j \in 1 .. n : b[i] = b[j] => i = j
    BY <1>1 DEF Good, DistinctIds
  <2>3. \A t \in S : \E i \in 1 .. n : b[i] = t
    OBVIOUS
  <2> HIDE DEF b, S
  <2>4. b \in Injection(1 .. n, S)
    BY <2>1, <2>2 DEF Injection, IsInjective
  <2>5. b \in Surjection(1 .. n, S)
    BY <2>1, <2>3 DEF Surjection
  <2>6. ExistsBijection(1 .. n, S)
    BY <2>4, <2>5 DEF ExistsBijection, Bijection
  <2>7. QED
    BY <1>2, <2>6, FS_CountingElements
<1>5. QED
  BY <1>3, <1>4

(* The queue once an entry was made. *)
LEMMA OpenedShape ==
  ASSUME NEW p, NEW q, Good(p, q), NEW f \in Fragments, WellFormed(f), ~IsOpen(q, f),
         NEW o, o = Opened(q, f)
  PROVE  /\ Len(o) \in Nat \ {0} /\ Len(q) \in Nat
         /\ o[Len(o)] = Blank(f)
         /\ IF IsFull(q)
            THEN /\ Len(o) = Len(q)
                 /\ \A i \in 1 .. Len(o) - 1 : o[i] = q[i+1]
            ELSE /\ Len(o) = Len(q) + 1
                 /\ \A i \in 1 .. Len(o) - 1 : o[i] = q[i]
<1> DEFINE r == Room(q)
           b == Blank(f)
<1>1. o = Append(r, b)
  BY DEF Opened
<1>2. /\ r \in Seq(Pending) /\ Len(r) \in Nat
      /\ IF IsFull(q)
         THEN /\ Len(q) = Len(r) + 1
              /\ \A i \in 1 .. Len(r) : r[i] = q[i+1]
         ELSE r = q
  BY RoomFacts
<1>3. Len(q) \in Nat
  BY DEF Good
<1> HIDE DEF r, b
<1>4. Len(o) = Len(r) + 1 /\ o[Len(r) + 1] = b /\ \A i \in 1 .. Len(r) : o[i] = r[i]
  BY <1>1, <1>2
<1>5. Len(o) - 1 = Len(r)
  BY <1>2, <1>4
<1>6. CASE IsFull(q)
  BY <1>2, <1>3, <1>4, <1>5, <1>6 DEF b
<1>7. CASE ~IsFull(q)
  BY <1>2, <1>3, <1>4, <1>5, <1>7 DEF b
<1>8. QED
  BY <1>6, <1>7

(* What the eviction that opening an entry for f costs takes away. *)
Lost(f) ==
    IF ~IsOpen(queues[f.peer], f) /\ IsFull(queues[f.peer])
    THEN Parts(f.peer, queues[f.peer][1])
    ELSE {}

(* The entries hold what they held before, but for what was evicted. *)
LEMMA OpenedParts ==
  ASSUME IndInv, NEW f \in Fragments, WellFormed(f), NEW p, p = f.peer,
         NEW o, o = Opened(queues[p], f), NEW g
  PROVE  (\E j \in 1 .. Len(o) : g \in Parts(p, o[j]))
           <=> (g \in Held /\ g.peer = p /\ g \notin Lost(f))
<1>1. p \in Peers
  BY FragmentFacts
<1> DEFINE q == queues[p]
<1>2. Good(p, q)
  BY <1>1, GoodQueues
<1>3. g \in Held /\ g.peer = p <=> \E i \in 1 .. Len(q) : g \in Parts(p, q[i])
  BY <1>1, HeldFacts
<1>4. \A i, j \in 1 .. Len(q) : g \in Parts(p, q[i]) /\ g \in Parts(p, q[j]) => i = j
  BY <1>2 DEF Parts, Good, DistinctIds
<1>5. Lost(f) = IF ~IsOpen(q, f) /\ IsFull(q) THEN Parts(p, q[1]) ELSE {}
  BY DEF Lost
<1> HIDE DEF q
<1>6. CASE IsOpen(q, f)
  <2>1. o = q /\ Lost(f) = {}
    BY <1>5, <1>6 DEF Opened, q
  <2>2. QED
    BY <1>3, <2>1
<1>7. CASE ~IsOpen(q, f)
  <2> DEFINE b == Blank(f)
  <2>1. o = Opened(q, f)
    BY DEF q
  <2>2. /\ Len(o) \in Nat \ {0} /\ Len(q) \in Nat
        /\ o[Len(o)] = b
        /\ IF IsFull(q)
           THEN /\ Len(o) = Len(q)
                /\ \A i \in 1 .. Len(o) - 1 : o[i] = q[i+1]
           ELSE /\ Len(o) = Len(q) + 1
                /\ \A i \in 1 .. Len(o) - 1 : o[i] = q[i]
    BY <1>2, <1>7, <2>1, OpenedShape
  <2>3. Parts(p, b) = {}
    BY BlankFacts, PartsFacts
  <2> HIDE DEF b
  <2>4. \A j \in 1 .. Len(o) : g \in Parts(p, o[j]) => j \in 1 .. Len(o) - 1
    BY <2>2, <2>3
  <2>5. CASE IsFull(q)
    <3>1. Lost(f) = Parts(p, q[1])
      BY <1>5, <1>7, <2>5
    <3>2. ASSUME NEW j \in 1 .. Len(o), g \in Parts(p, o[j])
          PROVE  \E i \in 1 .. Len(q) : g \in Parts(p, q[i]) /\ g \notin Parts(p, q[1])
      <4>1. j \in 1 .. Len(o) - 1
        BY <2>4, <3>2
      <4>2. j + 1 \in 1 .. Len(q) /\ 1 \in 1 .. Len(q) /\ g \in Parts(p, q[j+1]) /\ j + 1 # 1
        BY <2>2, <2>5, <3>2, <4>1
      <4>3. QED
        BY <1>4, <4>2
    <3>3. ASSUME NEW i \in 1 .. Len(q), g \in Parts(p, q[i]), g \notin Parts(p, q[1])
          PROVE  \E j \in 1 .. Len(o) : g \in Parts(p, o[j])
      <4>1. i # 1
        BY <3>3
      <4>2. i - 1 \in 1 .. Len(o) - 1 /\ i - 1 \in 1 .. Len(o) /\ (i - 1) + 1 = i
        BY <2>2, <2>5, <4>1
      <4>3. o[i - 1] = q[i]
        BY <2>2, <2>5, <4>2
      <4>4. QED
        BY <3>3, <4>2, <4>3
    <3>4. QED
      BY <1>3, <3>1, <3>2, <3>3
  <2>6. CASE ~IsFull(q)
    <3>1. Lost(f) = {}
      BY <1>5, <2>6
    <3>2. ASSUME NEW j \in 1 .. Len(o), g \in Parts(p, o[j])
          PROVE  \E i \in 1 .. Len(q) : g \in Parts(p, q[i])
      BY <2>2, <2>4, <2>6, <3>2
    <3>3. ASSUME NEW i \in 1 .. Len(q), g \in Parts(p, q[i])
          PROVE  \E j \in 1 .. Len(o) : g \in Parts(p, o[j])
      <4>1. i \in 1 .. Len(o) - 1 /\ i \in 1 .. Len(o)
        BY <2>2, <2>6
      <4>2. o[i] = q[i]
        BY <2>2, <2>6, <4>1
      <4>3. QED
        BY <3>3, <4>1, <4>2
    <3>4. QED
      BY <1>3, <3>1, <3>2, <3>3
  <2>7. QED
    BY <2>5, <2>6
<1>8. QED
  BY <1>6, <1>7

(* What is held of the message of f is what its entry holds; there is something when
   the entry is not new. *)
LEMMA OfFacts ==
  ASSUME IndInv, NEW f \in Fragments, WellFormed(f), NEW p, p = f.peer,
         NEW o, o = Opened(queues[p], f)
  PROVE  /\ R!Of(f) = {} <=> ~IsOpen(queues[p], f)
         /\ \A i \in 1 .. Len(o) : o[i].id = f.id => R!Of(f) = Parts(p, o[i])
<1>1. p \in Peers
  BY FragmentFacts
<1> DEFINE q == queues[p]
<1>2. Good(p, q) /\ DOMAIN q = 1 .. Len(q)
  BY <1>1, GoodQueues DEF Good
<1>3. \A g : g \in Held /\ g.peer = p <=> \E i \in 1 .. Len(q) : g \in Parts(p, q[i])
  BY <1>1, HeldFacts
<1>4. \A g : g \in R!Of(f) <=>
                \E i \in 1 .. Len(q) : g \in Parts(p, q[i]) /\ q[i].id = f.id
  BY <1>3 DEF R!Of, Parts
<1>5. \A i \in 1 .. Len(q) : Sound(p, q[i]) /\ q[i].filled # 0
  BY <1>2, PendingFacts DEF Good
<1> HIDE DEF q
<1>6. CASE IsOpen(q, f)
  <2>1. PICK i \in 1 .. Len(q) : q[i].id = f.id
    BY <1>2, <1>6 DEF IsOpen
  <2>2. Parts(p, q[i]) # {}
    BY <1>5, PartsFacts
  <2>3. R!Of(f) # {}
    BY <1>4, <2>1, <2>2
  <2>4. \A j \in 1 .. Len(q) : q[j].id = f.id => j = i
    BY <1>2, <2>1 DEF Good, DistinctIds
  <2>5. R!Of(f) = Parts(p, q[i])
    BY <1>4, <2>1, <2>4
  <2>6. o = q
    BY <1>6 DEF Opened, q
  <2>7. QED
    BY <1>6, <2>3, <2>4, <2>5, <2>6 DEF q
<1>7. CASE ~IsOpen(q, f)
  <2>1. R!Of(f) = {}
    BY <1>2, <1>4, <1>7 DEF IsOpen
  <2>2. ASSUME NEW i \in 1 .. Len(o), o[i].id = f.id
        PROVE  Parts(p, o[i]) = {}
    <3>1. ASSUME NEW g \in Parts(p, o[i])
          PROVE  FALSE
      <4>1. g \in Held /\ g.peer = p
        BY <3>1, OpenedParts
      <4>2. g.id = f.id
        BY <2>2, <3>1 DEF Parts
      <4>3. QED
        BY <2>1, <4>1, <4>2 DEF R!Of
    <3>2. QED
      BY <3>1
  <2>3. QED
    BY <1>7, <2>1, <2>2 DEF q
<1>8. QED
  BY <1>6, <1>7

(* The abstract specification may forget what the eviction takes. *)
LEMMA LostAllowed ==
  ASSUME IndInv, NEW f \in Fragments, WellFormed(f)
  PROVE  Lost(f) \in R!Sacrifices(f)
<1> DEFINE p == f.peer
           q == queues[p]
<1>1. p \in Peers /\ MaxInflight \in Nat \ {0}
  BY FragmentFacts
<1>2. Good(p, q) /\ Len(q) \in Nat
  BY <1>1, GoodQueues DEF Good
<1>3. /\ R!OpenIds(p) = {q[i].id : i \in 1 .. Len(q)}
      /\ Cardinality(R!OpenIds(p)) = Len(q)
  BY <1>1, OpenCount
<1>4. R!Of(f) = {} <=> ~IsOpen(q, f)
  BY OfFacts
<1>5. CASE ~IsOpen(q, f) /\ IsFull(q)
  <2>1. Lost(f) = Parts(p, q[1])
    BY <1>5 DEF Lost
  <2>2. 1 \in 1 .. Len(q)
    BY <1>1, <1>2, <1>5 DEF IsFull
  <2>3. q[1].id \in R!OpenIds(p)
    BY <1>3, <2>2
  <2>4. ASSUME NEW g
        PROVE  g \in Parts(p, q[1]) <=> g \in Held /\ g.peer = p /\ g.id = q[1].id
    <3>1. g \in Held /\ g.peer = p <=> \E i \in 1 .. Len(q) : g \in Parts(p, q[i])
      BY <1>1, HeldFacts
    <3>2. \A i \in 1 .. Len(q) : g \in Parts(p, q[i]) /\ g.id = q[1].id => i = 1
      BY <1>2, <2>2 DEF Parts, Good, DistinctIds
    <3>3. g \in Parts(p, q[1]) => g.id = q[1].id
      BY DEF Parts
    <3>4. QED
      BY <2>2, <3>1, <3>2, <3>3
  <2>5. Parts(p, q[1]) = {g \in Held : g.peer = p /\ g.id = q[1].id}
    BY <2>4
  <2>6. Cardinality(R!OpenIds(p)) >= MaxInflight
    BY <1>3, <1>5 DEF IsFull
  <2>7. R!Sacrifices(f) =
          {{g \in Held : g.peer = f.peer /\ g.id = id} : id \in R!OpenIds(f.peer)}
    BY <1>4, <1>5, <2>6, SameCardinality DEF R!Sacrifices
  <2>8. QED
    BY <2>1, <2>3, <2>5, <2>7
<1>6. CASE ~(~IsOpen(q, f) /\ IsFull(q))
  <2>1. Lost(f) = {}
    BY <1>6 DEF Lost
  <2>2. R!Sacrifices(f) = {{}}
    BY <1>3, <1>4, <1>6, SameCardinality DEF R!Sacrifices, IsFull
  <2>3. QED
    BY <2>1, <2>2
<1>7. QED
  BY <1>5, <1>6

(* A fragment that is taken fits what is held, completes the message exactly when
   the counter says so, and is then the only new thing the entry holds. *)
LEMMA TakenParts ==
  ASSUME NEW p, NEW m, Sound(p, m), NEW f \in Fragments, f.peer = p, WellFormed(f),
         Accepts(m, f)
  PROVE  /\ \A g \in Parts(p, m) : g.total = f.total /\ g.seq # f.seq
         /\ {g.seq : g \in Parts(p, m) \cup {f}} = 0 .. f.total - 1
              <=> m.filled + 1 = m.total
         /\ Parts(p, Filled(m, f)) = Parts(p, m) \cup {f}
<1> DEFINE w == Filled(m, f)
<1>1. m \in Draft /\ m.filled = Cardinality(FullSlots(m))
  BY DEF Sound
<1>2. /\ w.id = m.id /\ w.total = m.total
      /\ w.slots[f.seq] = f.payload
      /\ \A s \in 0 .. m.total - 1 : s # f.seq => w.slots[s] = m.slots[s]
      /\ f.seq \in 0 .. m.total - 1 /\ f.seq \notin FullSlots(m)
      /\ FullSlots(w) = FullSlots(m) \cup {f.seq}
      /\ w.filled = m.filled + 1 /\ w.filled = Cardinality(FullSlots(w))
  BY <1>1, FilledFacts
<1>3. m.id = f.id /\ m.total = f.total /\ m.total \in Nat /\ m.filled \in Nat /\ m.total # 0
  BY <1>1, DraftFacts DEF Accepts, WellFormed
<1>4. {g.seq : g \in Parts(p, m)} = FullSlots(m)
  BY PartsFacts
<1>5. \A g \in Parts(p, m) : g.total = f.total /\ g.seq # f.seq
  BY <1>2, <1>3, <1>4 DEF Parts
<1>6. {g.seq : g \in Parts(p, m) \cup {f}} = FullSlots(w)
  BY <1>2, <1>4
<1> HIDE DEF w
<1>7. Cardinality(0 .. m.total - 1) = m.total /\ IsFiniteSet(0 .. m.total - 1)
  <2>1. 0 \in Int /\ m.total - 1 \in Int
    BY <1>3
  <2>2. /\ IsFiniteSet(0 .. m.total - 1)
        /\ Cardinality(0 .. m.total - 1) =
             IF 0 > m.total - 1 THEN 0 ELSE (m.total - 1) - 0 + 1
    BY <2>1, FS_Interval
  <2>3. QED
    BY <1>3, <2>2
<1>8. FullSlots(w) \subseteq 0 .. m.total - 1
  BY <1>2 DEF FullSlots
<1>9. FullSlots(w) = 0 .. m.total - 1 <=> m.filled + 1 = m.total
  <2>1. ASSUME FullSlots(w) = 0 .. m.total - 1
        PROVE  m.filled + 1 = m.total
    BY <1>2, <1>7, <2>1
  <2>2. ASSUME m.filled + 1 = m.total
        PROVE  FullSlots(w) = 0 .. m.total - 1
    BY <1>2, <1>7, <1>8, <2>2, FS_Subset
  <2>3. QED
    BY <2>1, <2>2
<1>10. Parts(p, w) = Parts(p, m) \cup {f}
  <2>1. ASSUME NEW g \in Parts(p, w)
        PROVE  g \in Parts(p, m) \cup {f}
    <3>1. /\ g \in Fragments /\ g.peer = p /\ WellFormed(g)
          /\ g.id = m.id /\ g.total = m.total /\ w.slots[g.seq] = g.payload
      BY <1>2 DEF Parts
    <3>2. g.seq \in 0 .. m.total - 1
      BY <3>1, <1>3, FragmentFacts DEF WellFormed
    <3>3. CASE g.seq = f.seq
      <4>1. /\ g.peer = f.peer /\ g.id = f.id /\ g.seq = f.seq /\ g.total = f.total
            /\ g.payload = f.payload
        BY <1>2, <1>3, <3>1, <3>3
      <4>2. /\ g \in [peer : Peers, id : Ids, seq : Nat, total : Nat, payload : Payloads]
            /\ f \in [peer : Peers, id : Ids, seq : Nat, total : Nat, payload : Payloads]
        BY <3>1
      <4>3. g = f
        BY <4>1, <4>2
      <4>4. QED
        BY <4>3
    <3>4. CASE g.seq # f.seq
      <4>1. m.slots[g.seq] = g.payload
        BY <1>2, <3>1, <3>2, <3>4
      <4>2. QED
        BY <3>1, <4>1 DEF Parts
    <3>5. QED
      BY <3>3, <3>4
  <2>2. ASSUME NEW g \in Parts(p, m)
        PROVE  g \in Parts(p, w)
    <3>1. /\ g \in Fragments /\ g.peer = p /\ WellFormed(g)
          /\ g.id = m.id /\ g.total = m.total /\ m.slots[g.seq] = g.payload
      BY DEF Parts
    <3>2. g.seq \in 0 .. m.total - 1 /\ g.seq # f.seq
      BY <3>1, <1>3, <1>5, FragmentFacts DEF WellFormed
    <3>3. w.slots[g.seq] = g.payload
      BY <1>2, <3>1, <3>2
    <3>4. QED
      BY <1>2, <3>1, <3>3 DEF Parts
  <2>3. f \in Parts(p, w)
    BY <1>2, <1>3 DEF Parts
  <2>4. QED
    BY <2>1, <2>2, <2>3
<1>11. QED
  BY <1>3, <1>5, <1>6, <1>9, <1>10 DEF w

(* What is held after the queue of one peer changed. *)
LEMMA HeldAfter ==
  ASSUME IndInv, IndInv', NEW p \in Peers, NEW r, Good(p, r),
         queues' = [queues EXCEPT ![p] = r], NEW g
  PROVE  g \in Held' <=> \/ g \in Held /\ g.peer # p
                         \/ \E i \in 1 .. Len(r) : g \in Parts(p, r[i])
<1>1. /\ queues \in [Peers -> Seq(Pending)] /\ queues'[p] = r
      /\ \A o \in Peers : o # p => queues'[o] = queues[o]
  BY DEF IndInv, TypeOK
<1>2. DOMAIN r = 1 .. Len(r)
  BY DEF Good
<1>3. CASE g.peer = p
  BY <1>1, <1>2, <1>3 DEF Held, Parts
<1>4. CASE g.peer # p
  <2>1. g \in Fragments => g.peer \in Peers
    BY FragmentFacts
  <2>2. QED
    BY <1>1, <1>4, <2>1 DEF Held, Parts
<1>5. QED
  BY <1>3, <1>4

(* What both outcomes of an accepted fragment share. *)
LEMMA AcceptFacts ==
  ASSUME IndInv, NEW f \in Fragments, WellFormed(f),
         NEW q, q = Opened(queues[f.peer], f),
         NEW i \in DOMAIN q, Accepts(q[i], f)
  PROVE  /\ q \in Seq(Draft) /\ i \in 1 .. Len(q) /\ Len(q) \in Nat /\ Len(q) <= MaxInflight
         /\ DistinctIds(q)
         /\ \A k \in 1 .. Len(q) : Sound(f.peer, q[k]) /\ (k # i => q[k] \in Pending)
         /\ R!Of(f) = Parts(f.peer, q[i])
         /\ R!Fits(f)
         /\ R!Completes(f) <=> q[i].filled + 1 = q[i].total
         /\ Parts(f.peer, Filled(q[i], f)) = R!Of(f) \cup {f}
<1>1. Good(f.peer, queues[f.peer])
  BY GoodQueues, FragmentFacts
<1>2. /\ q \in Seq(Draft) /\ Len(q) \in Nat /\ Len(q) <= MaxInflight
      /\ DistinctIds(q)
      /\ \A k \in 1 .. Len(q) :
              /\ Sound(f.peer, q[k])
              /\ q[k].id # f.id => q[k] \in Pending
  BY <1>1, OpenedFacts
<1>3. i \in 1 .. Len(q)
  BY <1>2
<1>4. q[i].id = f.id
  BY DEF Accepts
<1>5. \A k \in 1 .. Len(q) : k # i => q[k] \in Pending
  BY <1>2, <1>3, <1>4 DEF DistinctIds
<1>6. R!Of(f) = Parts(f.peer, q[i])
  BY <1>3, <1>4, OfFacts
<1>7. /\ \A g \in Parts(f.peer, q[i]) : g.total = f.total /\ g.seq # f.seq
      /\ {g.seq : g \in Parts(f.peer, q[i]) \cup {f}} = 0 .. f.total - 1
           <=> q[i].filled + 1 = q[i].total
      /\ Parts(f.peer, Filled(q[i], f)) = Parts(f.peer, q[i]) \cup {f}
  BY <1>2, <1>3, TakenParts
<1>8. R!Fits(f)
  BY <1>6, <1>7 DEF R!Fits, WellFormed
<1>9. R!Completes(f) <=> q[i].filled + 1 = q[i].total
  BY <1>6, <1>7 DEF R!Completes
<1>10. QED
  BY <1>2, <1>3, <1>5, <1>6, <1>7, <1>8, <1>9

LEMMA StoreHolds ==
  ASSUME IndInv, IndInv', NEW f \in Fragments, Store(f)
  PROVE  R!Hold(f)
<1> DEFINE p == f.peer
           q == Opened(queues[p], f)
<1>1. WellFormed(f) /\ last' = NoMessage /\ p \in Peers
  BY FragmentFacts DEF Store
<1>2. PICK i \in DOMAIN q :
        /\ Accepts(q[i], f) /\ q[i].filled + 1 # q[i].total
        /\ queues' = [queues EXCEPT ![p] = [q EXCEPT ![i] = Filled(q[i], f)]]
  BY DEF Store
<1> DEFINE w == Filled(q[i], f)
           r == [q EXCEPT ![i] = w]
<1>3. /\ q \in Seq(Draft) /\ i \in 1 .. Len(q) /\ Len(q) \in Nat /\ Len(q) <= MaxInflight
      /\ DistinctIds(q)
      /\ \A k \in 1 .. Len(q) : Sound(p, q[k]) /\ (k # i => q[k] \in Pending)
      /\ R!Of(f) = Parts(p, q[i])
      /\ R!Fits(f)
      /\ R!Completes(f) <=> q[i].filled + 1 = q[i].total
      /\ Parts(p, w) = R!Of(f) \cup {f}
  BY <1>1, <1>2, AcceptFacts
<1>4. Good(p, r)
  BY <1>1, <1>2, TakenFacts
<1>5. \A g : (\E j \in 1 .. Len(q) : g \in Parts(p, q[j]))
               <=> (g \in Held /\ g.peer = p /\ g \notin Lost(f))
  BY <1>1, OpenedParts
<1> HIDE DEF q, w
<1>6. Len(r) = Len(q) /\ \A j \in 1 .. Len(q) : r[j] = IF j = i THEN w ELSE q[j]
  BY <1>3
<1>7. \A g : g \in Held' <=> \/ g \in Held /\ g.peer # p
                             \/ \E j \in 1 .. Len(r) : g \in Parts(p, r[j])
  <2>1. queues' = [queues EXCEPT ![p] = r]
    BY <1>2 DEF w
  <2> HIDE DEF r
  <2>2. QED
    BY <2>1, <1>1, <1>4, HeldAfter
<1> HIDE DEF r, p
<1>8. \A g : (\E j \in 1 .. Len(r) : g \in Parts(p, r[j]))
               <=> \/ \E j \in 1 .. Len(q) : g \in Parts(p, q[j])
                   \/ g = f
  BY <1>3, <1>6
<1>9. \A g : g \in Lost(f) => g.peer = p
  BY DEF Lost, Parts, p
<1>10. f.peer = p
  BY DEF p
<1>11. Held' = (Held \ Lost(f)) \cup {f}
  BY <1>5, <1>7, <1>8, <1>9
<1>12. Lost(f) \in R!Sacrifices(f)
  BY <1>1, LostAllowed
<1>13. QED
  BY <1>1, <1>2, <1>3, <1>11, <1>12 DEF R!Hold

LEMMA CompleteHandsOver ==
  ASSUME IndInv, IndInv', NEW f \in Fragments, Complete(f)
  PROVE  R!HandOver(f)
<1> DEFINE p == f.peer
           q == Opened(queues[p], f)
<1>1. WellFormed(f) /\ p \in Peers
  BY FragmentFacts DEF Complete
<1>2. PICK i \in DOMAIN q :
        /\ Accepts(q[i], f) /\ q[i].filled + 1 = q[i].total
        /\ queues' = [queues EXCEPT ![p] = RemoveAt(q, i)]
        /\ last' = [peer |-> f.peer, id |-> f.id, body |-> Filled(q[i], f).slots]
  BY DEF Complete
<1> DEFINE w == Filled(q[i], f)
           r == RemoveAt(q, i)
           all == R!Of(f) \cup {f}
<1>3. /\ q \in Seq(Draft) /\ i \in 1 .. Len(q) /\ Len(q) \in Nat /\ Len(q) <= MaxInflight
      /\ DistinctIds(q)
      /\ \A k \in 1 .. Len(q) : Sound(p, q[k]) /\ (k # i => q[k] \in Pending)
      /\ R!Of(f) = Parts(p, q[i])
      /\ R!Fits(f)
      /\ R!Completes(f) <=> q[i].filled + 1 = q[i].total
      /\ Parts(p, w) = all
  BY <1>1, <1>2, AcceptFacts
<1>4. Good(p, r) /\ FullSlots(w) = 0 .. f.total - 1 /\ w.slots \in [0 .. f.total - 1 -> Payloads]
  BY <1>1, <1>2, TakenFacts
<1>5. \A g : (\E j \in 1 .. Len(q) : g \in Parts(p, q[j]))
               <=> (g \in Held /\ g.peer = p /\ g \notin Lost(f))
  BY <1>1, OpenedParts
<1>6. R!Completes(f) /\ Lost(f) \in R!Sacrifices(f)
  BY <1>1, <1>2, <1>3, LostAllowed
<1>7. w.total = f.total /\ w.slots[f.seq] = f.payload
  <2>1. q[i] \in Draft /\ q[i].filled = Cardinality(FullSlots(q[i]))
    BY <1>3 DEF Sound
  <2>2. Filled(q[i], f).total = q[i].total /\ Filled(q[i], f).slots[f.seq] = f.payload
    BY <1>1, <1>2, <2>1, FilledFacts
  <2>3. QED
    BY <1>2, <2>2 DEF Accepts
<1> HIDE DEF q, w, r
<1>8. Good(p, r) /\ AllBut(r, q, i)
  <2>1. /\ q \in Seq(Draft) /\ Len(q) <= MaxInflight /\ DistinctIds(q) /\ i \in 1 .. Len(q)
        /\ \A k \in 1 .. Len(q) : Sound(p, q[k]) /\ (k # i => q[k] \in Pending)
    BY <1>3
  <2>2. r = RemoveAt(q, i)
    BY DEF r
  <2> HIDE DEF p
  <2>3. QED
    BY <2>1, <2>2, RemoveFacts
<1>9. \A g : g \in Held' <=> \/ g \in Held /\ g.peer # p
                             \/ \E j \in 1 .. Len(r) : g \in Parts(p, r[j])
  <2>1. queues' = [queues EXCEPT ![p] = r]
    BY <1>2 DEF r
  <2>2. QED
    BY <2>1, <1>1, <1>4, HeldAfter
<1> HIDE DEF p, all
<1>10. \A g : (\E k \in 1 .. Len(r) : g \in Parts(p, r[k]))
               <=> (\E j \in 1 .. Len(q) : g \in Parts(p, q[j])) /\ g \notin R!Of(f)
  <2>1. \A g : \A j \in 1 .. Len(q) : g \in Parts(p, q[j]) =>
                   (g \in R!Of(f) <=> j = i)
    BY <1>3 DEF Parts, DistinctIds
  <2>2. QED
    BY <1>3, <1>8, <2>1 DEF AllBut
<1>11. /\ \A g : g \in Lost(f) => g.peer = p
       /\ \A g : g \in R!Of(f) => g.peer = p
  BY DEF Lost, Parts, p, R!Of
<1>12. Held' = Held \ (Lost(f) \cup R!Of(f))
  BY <1>5, <1>9, <1>10, <1>11
<1>13. \A g \in all : w.slots[g.seq] = g.payload
  BY <1>3 DEF Parts
<1>14. w.slots \in [0 .. f.total - 1 -> {g.payload : g \in all}]
  <2>1. {g.seq : g \in all} = 0 .. f.total - 1
    BY <1>6 DEF R!Completes, all
  <2>2. \A s \in 0 .. f.total - 1 : w.slots[s] \in {g.payload : g \in all}
    BY <1>13, <2>1
  <2>3. QED
    BY <1>4, <2>2
<1>15. last' = [peer |-> f.peer, id |-> f.id, body |-> w.slots]
  BY <1>2 DEF w
<1>16. \E body \in [0 .. f.total - 1 -> {g.payload : g \in R!Of(f) \cup {f}}] :
          /\ \A g \in R!Of(f) \cup {f} : body[g.seq] = g.payload
          /\ last' = [peer |-> f.peer, id |-> f.id, body |-> body]
  BY <1>13, <1>14, <1>15 DEF all
<1>17. QED
  BY <1>3, <1>6, <1>12, <1>16 DEF R!HandOver

(* However fragments are repeated, contradicted, interleaved or evicted, the
   reassembler behaves as the set of fragments that Reassembly is: what is fed for
   one peer changes nothing that is held of another. *)
THEOREM Refinement == Spec => MeetsReassembly
<1>1. Init => R!Init
  <2>1. ASSUME Init
        PROVE  R!Init
    <3>1. /\ last = NoMessage
          /\ \A p \in Peers : DOMAIN queues[p] = {}
      BY <2>1 DEF Init
    <3>2. Held = {}
      BY <3>1, FragmentFacts DEF Held
    <3>3. QED
      BY <3>1, <3>2 DEF R!Init
  <2>2. QED
    BY <2>1
<1>2. IndInv /\ IndInv' /\ [Next]_vars => [R!Next]_<<Held, last>>
  <2> SUFFICES ASSUME IndInv, IndInv', [Next]_vars
               PROVE  [R!Next]_<<Held, last>>
    OBVIOUS
  <2>1. ASSUME NEW f \in Fragments, Feed(f)
        PROVE  R!Next
    BY <2>1, StoreHolds, CompleteHandsOver DEF Feed, R!Next
  <2>2. CASE UNCHANGED vars
    BY <2>2 DEF vars, Held
  <2>3. QED
    BY <2>1, <2>2 DEF Next
<1>3. QED
  BY <1>1, <1>2, Invariance, PTL DEF Spec, MeetsReassembly, R!Spec

-----------------------------------------------------------------------------
(* The radio.  What may be on the air: the blocks that nodes sign, the bytes they are
   written as, messages, envelopes and transport messages, garbled ones included. *)

Signable == {Opening(n) : n \in Nodes} \cup {Payment(n, q) : n \in Nodes, q \in Parties}

Written == {ToCompact(b) : b \in Signable} \ {Fail}

Compact ==
    [tag : Tags, account : {w.account : w \in Written}, previous : {w.previous : w \in Written},
     figures : Nat, party : {w.party : w \in Written}, signature : {b.signature : b \in Signable}]

Msgs == [kind : {o.kind : o \in Originals}, size : {o.size : o \in Originals}, hops : Nat,
         block : Compact \cup {Zeros}]

GossipSignatures == {Signed(k, GossipBytes(m, k)) : k \in Keys, m \in Msgs}

Envelopes == [message : Msgs, sender_pubkey : Keys, signature : GossipSignatures \cup {Zeros}]

TransportSignature(k, e) == Signed(k, <<"transport", Unhex(Hex(k)), Empty, e>>)

TransportSignatures == {TransportSignature(k, e) : k \in Keys, e \in Envelopes}

Wires == [from : {Hex(k) : k \in Keys}, to : {Empty}, payload : Envelopes,
          signature : TransportSignatures \cup {Zeros}]

LEMMA SignableShape ==
    ASSUME NEW b \in Signable
    PROVE  /\ b = [account |-> b.account, previous |-> b.previous, kind |-> b.kind,
                   figures |-> b.figures, party |-> b.party, hash |-> b.hash, signature |-> b.signature]
           /\ b.kind \in Tags /\ b.figures \in Nat
           /\ b.hash = Fail \/ b.hash = <<b.account, b.previous, b.kind, b.figures, b.party>>
           /\ b.signature = Signed(b.signature.key, b.hash)
<1>0. PICK n \in Nodes : \E previous, party : \E kind \in {"Open", "Send"} :
        b = NewBlock(n, previous, kind, 1, party)
  BY DEF Signable, Opening, Payment
<1>1. PICK previous, party : \E kind \in {"Open", "Send"} : b = NewBlock(n, previous, kind, 1, party)
  BY <1>0
<1>a. PICK kind \in {"Open", "Send"} : b = NewBlock(n, previous, kind, 1, party)
  BY <1>1
<1>2. kind \in Tags
  BY DEF Tags
<1> DEFINE body == [account |-> Hex(n), previous |-> previous, kind |-> kind,
                    figures |-> 1, party |-> party]
           hash == ComputeHash(body)
<1>3. b = [account |-> Hex(n), previous |-> previous, kind |-> kind, figures |-> 1,
           party |-> party, hash |-> hash, signature |-> Signed(n, hash)]
  BY <1>a DEF NewBlock
<1>4. hash = Fail \/ hash = <<Hex(n), previous, kind, 1, party>>
  BY DEF ComputeHash
<1>5. Signed(n, hash).key = n
  BY DEF Signed
<1> HIDE DEF hash
<1> QED
  BY <1>2, <1>3, <1>4, <1>5

LEMMA WrittenBytes ==
    ASSUME NEW b \in Signable, ToCompact(b) # Fail
    PROVE  /\ ToCompact(b) \in Compact
           /\ ToCompact(b).signature = b.signature
<1> DEFINE w == ToCompact(b)
<1>1. w = [tag |-> b.kind, account |-> Unhex(b.account),
           previous |-> IF b.previous = Empty THEN Zeros ELSE Unhex(b.previous),
           figures |-> b.figures, party |-> IF b.kind = "Open" THEN Zeros ELSE Unhex(b.party),
           signature |-> b.signature]
  BY DEF ToCompact
<1>2. w \in Written
  BY DEF Written
<1>3. b.kind \in Tags /\ b.figures \in Nat
  BY SignableShape
<1>4. w.tag \in Tags /\ w.figures \in Nat /\ w.signature = b.signature
  BY <1>1, <1>3
<1>5. w \in Compact
  <2> DEFINE a == Unhex(b.account)
             pr == IF b.previous = Empty THEN Zeros ELSE Unhex(b.previous)
             pa == IF b.kind = "Open" THEN Zeros ELSE Unhex(b.party)
  <2>1. w.account = a /\ w.previous = pr /\ w.party = pa
    BY <1>1
  <2>2. /\ a \in {x.account : x \in Written} /\ pr \in {x.previous : x \in Written}
        /\ pa \in {x.party : x \in Written}
    BY <1>2, <2>1
  <2>3. w = [tag |-> b.kind, account |-> a, previous |-> pr, figures |-> b.figures, party |-> pa,
             signature |-> b.signature]
    BY <1>1
  <2> HIDE DEF w, a, pr, pa
  <2> QED
    BY <1>3, <2>2, <2>3 DEF Compact
<1> QED
  BY <1>4, <1>5

LEMMA EnvelopeTyped ==
    ASSUME NEW k \in Keys, NEW m \in Msgs
    PROVE  Envelope(k, m) \in Envelopes
BY DEF Envelope, Envelopes, GossipSignatures

LEMMA BroadcastTyped ==
    ASSUME NEW k \in Keys, NEW e \in Envelopes
    PROVE  /\ Broadcast(k, e) \in Wires
           /\ Broadcast(k, e).payload = e
           /\ Broadcast(k, e).signature = TransportSignature(k, e)
<1>1. Broadcast(k, e) = [from |-> Hex(k), to |-> Empty, payload |-> e, signature |-> TransportSignature(k, e)]
  BY DEF Broadcast, TransportBytes, TransportSignature
<1> QED
  BY <1>1 DEF Wires, TransportSignatures

LEMMA DecrementedTyped ==
    ASSUME NEW m \in Msgs
    PROVE  /\ Decremented(m) \in Msgs /\ Decremented(m).block = m.block
           /\ MayRelay(m) => Decremented(m).hops # m.hops
BY DEF Decremented, MayRelay, Msgs

-----------------------------------------------------------------------------
(* A garbled copy keeps its signatures, or loses them. *)
LEMMA GarbledTyped ==
    ASSUME NEW t \in Wires, NEW g \in Garbled(t)
    PROVE  /\ g \in Wires
           /\ g.payload.signature \in {t.payload.signature, Zeros}
           /\ g.signature \in {t.signature, Zeros}
           /\ \/ g.payload.message.block = Zeros
              \/ g.payload.message.block = t.payload.message.block
              \/ /\ t.payload.message.block # Zeros
                 /\ g.payload.message.block.signature = t.payload.message.block.signature
<1> DEFINE e == t.payload
           m == e.message
           w == m.block
<1>1. /\ t.from \in {Hex(k) : k \in Keys} /\ t.to = Empty /\ e \in Envelopes
      /\ t.signature \in TransportSignatures \cup {Zeros}
      /\ t = [from |-> t.from, to |-> t.to, payload |-> e, signature |-> t.signature]
  BY DEF Wires
<1>2. /\ m \in Msgs /\ e.sender_pubkey \in Keys /\ e.signature \in GossipSignatures \cup {Zeros}
      /\ e = [message |-> m, sender_pubkey |-> e.sender_pubkey, signature |-> e.signature]
  BY <1>1 DEF Envelopes
<1>3. /\ m.kind \in {o.kind : o \in Originals} /\ m.size \in {o.size : o \in Originals}
      /\ m.hops \in Nat /\ w \in Compact \cup {Zeros}
      /\ m = [kind |-> m.kind, size |-> m.size, hops |-> m.hops, block |-> w]
  BY <1>2 DEF Msgs
<1> DEFINE Wire(f, x, s) == [from |-> f, to |-> Empty, payload |-> x, signature |-> s]
           Env(x, k, s) == [message |-> x, sender_pubkey |-> k, signature |-> s]
           Msg(h, b) == [kind |-> m.kind, size |-> m.size, hops |-> h, block |-> b]
<1>4. ASSUME NEW f \in {Hex(k) : k \in Keys}, NEW x \in Envelopes,
             NEW s \in TransportSignatures \cup {Zeros}
      PROVE  Wire(f, x, s) \in Wires
  BY DEF Wires
<1>5. ASSUME NEW x \in Msgs, NEW k \in Keys, NEW s \in GossipSignatures \cup {Zeros}
      PROVE  Env(x, k, s) \in Envelopes
  BY DEF Envelopes
<1>6. ASSUME NEW h \in Nat, NEW b \in Compact \cup {Zeros}
      PROVE  Msg(h, b) \in Msgs
  BY <1>3 DEF Msgs
<1>7. CASE g = [t EXCEPT !.payload.message.hops = @ + 1]
  <2>1. g = Wire(t.from, Env(Msg(m.hops + 1, w), e.sender_pubkey, e.signature), t.signature)
    BY <1>1, <1>2, <1>3, <1>7
  <2>2. Msg(m.hops + 1, w) \in Msgs
    <3> DEFINE h == m.hops + 1
    <3>1. h \in Nat
      BY <1>3
    <3> HIDE DEF h
    <3>2. Msg(h, w) \in Msgs
      BY <1>3, <1>6, <3>1
    <3> QED
      BY <3>2 DEF h
  <2>3. Env(Msg(m.hops + 1, w), e.sender_pubkey, e.signature) \in Envelopes
    BY <1>2, <1>5, <2>2
  <2>4. g \in Wires
    BY <1>1, <1>4, <2>1, <2>3
  <2>5. g.payload.signature = e.signature /\ g.signature = t.signature /\ g.payload.message.block = w
    BY <2>1
  <2> QED
    BY <2>4, <2>5
<1>8. CASE g = [t EXCEPT !.payload.message.block = Zeros]
  <2>1. g = Wire(t.from, Env(Msg(m.hops, Zeros), e.sender_pubkey, e.signature), t.signature)
    BY <1>1, <1>2, <1>3, <1>8
  <2> QED
    BY <1>1, <1>2, <1>3, <1>4, <1>5, <1>6, <2>1
<1>9. CASE g = [t EXCEPT !.payload.signature = Zeros]
  <2>1. g = Wire(t.from, Env(m, e.sender_pubkey, Zeros), t.signature)
    BY <1>1, <1>2, <1>9
  <2> QED
    BY <1>1, <1>2, <1>4, <1>5, <2>1
<1>10. CASE g = [t EXCEPT !.signature = Zeros]
  <2>1. g = Wire(t.from, e, Zeros)
    BY <1>1, <1>10
  <2> QED
    BY <1>1, <1>4, <2>1
<1>11. ASSUME NEW k \in Keys, g = [t EXCEPT !.from = Hex(k)]
       PROVE  g = Wire(Hex(k), e, t.signature) /\ g \in Wires
  <2>1. g = Wire(Hex(k), e, t.signature)
    BY <1>1, <1>11
  <2> QED
    BY <1>1, <1>4, <2>1
<1>12. ASSUME NEW k \in Keys, g = [t EXCEPT !.payload.sender_pubkey = k]
       PROVE  g = Wire(t.from, Env(m, k, e.signature), t.signature) /\ g \in Wires
  <2>1. g = Wire(t.from, Env(m, k, e.signature), t.signature)
    BY <1>1, <1>2, <1>12
  <2> QED
    BY <1>1, <1>2, <1>4, <1>5, <2>1
<1>13. ASSUME w # Zeros, NEW b, b \in Compact, b.signature = w.signature,
              g = Wire(t.from, Env(Msg(m.hops, b), e.sender_pubkey, e.signature), t.signature)
       PROVE  /\ g \in Wires /\ g.payload.signature = e.signature /\ g.signature = t.signature
              /\ g.payload.message.block.signature = w.signature
  BY <1>1, <1>2, <1>3, <1>4, <1>5, <1>6, <1>13
<1>14. ASSUME w # Zeros, NEW tag \in Tags, g = [t EXCEPT !.payload.message.block.tag = tag]
       PROVE  g = Wire(t.from, Env(Msg(m.hops, [w EXCEPT !.tag = tag]), e.sender_pubkey, e.signature), t.signature)
              /\ [w EXCEPT !.tag = tag] \in Compact /\ [w EXCEPT !.tag = tag].signature = w.signature
  <2>1. w \in Compact
    BY <1>3, <1>14
  <2> QED
    BY <1>1, <1>2, <1>3, <1>14, <2>1 DEF Compact
<1>15. ASSUME w # Zeros, g = [t EXCEPT !.payload.message.block.figures = @ + 1]
       PROVE  g = Wire(t.from, Env(Msg(m.hops, [w EXCEPT !.figures = @ + 1]), e.sender_pubkey, e.signature), t.signature)
              /\ [w EXCEPT !.figures = @ + 1] \in Compact
              /\ [w EXCEPT !.figures = @ + 1].signature = w.signature
  <2>1. w \in Compact
    BY <1>3, <1>15
  <2> QED
    BY <1>1, <1>2, <1>3, <1>15, <2>1 DEF Compact
<1>16. \/ g = [t EXCEPT !.payload.message.hops = @ + 1]
       \/ g = [t EXCEPT !.payload.message.block = Zeros]
       \/ g = [t EXCEPT !.payload.signature = Zeros]
       \/ g = [t EXCEPT !.signature = Zeros]
       \/ \E k \in Keys : g = [t EXCEPT !.from = Hex(k)]
       \/ \E k \in Keys : g = [t EXCEPT !.payload.sender_pubkey = k]
       \/ w # Zeros /\ \E tag \in Tags : g = [t EXCEPT !.payload.message.block.tag = tag]
       \/ w # Zeros /\ g = [t EXCEPT !.payload.message.block.figures = @ + 1]
  BY Zenon DEF Garbled, NoBlock
<1>17. CASE \E k \in Keys : g = [t EXCEPT !.from = Hex(k)]
  BY <1>11, <1>17
<1>18. CASE \E k \in Keys : g = [t EXCEPT !.payload.sender_pubkey = k]
  <2>1. PICK k \in Keys : g = [t EXCEPT !.payload.sender_pubkey = k]
    BY <1>18
  <2>2. g = Wire(t.from, Env(m, k, e.signature), t.signature) /\ g \in Wires
    BY <1>12, <2>1
  <2>3. g.payload.message = m /\ g.payload.signature = e.signature /\ g.signature = t.signature
    BY <2>2
  <2> QED
    BY <2>2, <2>3
<1>19. CASE w # Zeros /\ \E tag \in Tags : g = [t EXCEPT !.payload.message.block.tag = tag]
  <2>1. PICK tag \in Tags : g = [t EXCEPT !.payload.message.block.tag = tag]
    BY <1>19
  <2> DEFINE b == [w EXCEPT !.tag = tag]
  <2>2. /\ g = Wire(t.from, Env(Msg(m.hops, b), e.sender_pubkey, e.signature), t.signature)
        /\ b \in Compact /\ b.signature = w.signature
    BY <1>14, <1>19, <2>1
  <2> HIDE DEF b, Wire, Env, Msg
  <2> QED
    BY <1>13, <1>19, <2>2
<1>20. CASE w # Zeros /\ g = [t EXCEPT !.payload.message.block.figures = @ + 1]
  <2> DEFINE b == [w EXCEPT !.figures = @ + 1]
  <2>1. /\ g = Wire(t.from, Env(Msg(m.hops, b), e.sender_pubkey, e.signature), t.signature)
        /\ b \in Compact /\ b.signature = w.signature
    BY <1>15, <1>20
  <2> HIDE DEF b, Wire, Env, Msg
  <2> QED
    BY <1>13, <1>20, <2>1
<1> QED
  BY <1>7, <1>8, <1>9, <1>10, <1>16, <1>17, <1>18, <1>19, <1>20

-----------------------------------------------------------------------------
(* Every message on the air, in a queue or on its way, bears signatures that a node
   has made, or none.  S is what each node has said, B the blocks that were signed. *)

SaidBefore(signature, S) ==
    signature = Zeros
      \/ \E k \in Keys : \E m \in S[k] : signature = Signed(k, GossipBytes(m, k))

SentBefore(signature) ==
    signature = Zeros
      \/ \E k \in Keys, e \in Envelopes :
            /\ signature = TransportSignature(k, e)
            /\ EnvelopeVerifies(e) => e.sender_pubkey = k

SignedBefore(w, B) == w = Zeros \/ \E b \in B : w.signature = b.signature

Carried(t, S, B) ==
    /\ t \in Wires
    /\ SaidBefore(t.payload.signature, S)
    /\ SentBefore(t.signature)
    /\ SignedBefore(t.payload.message.block, B)

History(S, B) ==
    /\ S \in [Nodes -> SUBSET Msgs]
    /\ B \in SUBSET Signable

(* What a node accepts was said by the node it comes from, and announces a block that
   its account signed. *)
LEMMA AcceptedWasSaid ==
    ASSUME NEW S, NEW B, History(S, B), NEW t, Carried(t, S, B), Acceptable(t)
    PROVE  /\ t.payload.message \in S[t.payload.sender_pubkey]
           /\ t.payload.sender_pubkey \in Keys
           /\ Unhex(t.from) = t.payload.sender_pubkey
           /\ t.payload.message.kind = "BlockAnnounce" => BlockOf(t.payload.message) \in B
<1> DEFINE e == t.payload
           m == e.message
           k == e.sender_pubkey
<1>0. t \in Wires /\ e \in Envelopes /\ m \in Msgs /\ k \in Keys /\ t.to = Empty
  BY DEF Carried, Wires, Envelopes
<1>1. e.signature # Zeros /\ e.signature = Signed(k, GossipBytes(m, k))
  BY DEF Acceptable, EnvelopeVerifies, Verifies
<1>2. PICK j \in Keys : \E o \in S[j] : e.signature = Signed(j, GossipBytes(o, j))
  BY <1>1 DEF Carried, SaidBefore
<1>3. PICK o \in S[j] : e.signature = Signed(j, GossipBytes(o, j))
  BY <1>2
<1>4. j = k /\ GossipBytes(o, j) = GossipBytes(m, k)
  BY <1>1, <1>3 DEF Signed
<1>5. o \in Msgs
  BY RadioAssumption DEF History
<1>6. o.kind = m.kind /\ o.hops = m.hops /\ o.size = m.size /\ o.block = m.block
  BY <1>4 DEF GossipBytes
<1>7. o = m
  BY <1>0, <1>5, <1>6 DEF Msgs
<1>8. Unhex(t.from) = k
  <2>1. t.signature # Zeros /\ t.signature = Signed(Unhex(t.from), TransportBytes(t))
    BY DEF Acceptable, TransportVerifies, Verifies
  <2>2. PICK i \in Keys, x \in Envelopes : /\ t.signature = TransportSignature(i, x)
                                           /\ EnvelopeVerifies(x) => x.sender_pubkey = i
    BY <2>1 DEF Carried, SentBefore
  <2>3. i = Unhex(t.from) /\ x = e
    BY <2>1, <2>2 DEF TransportSignature, TransportBytes, Signed
  <2>4. EnvelopeVerifies(e)
    BY DEF Acceptable
  <2> QED
    BY <2>2, <2>3, <2>4
<1>9. ASSUME m.kind = "BlockAnnounce" PROVE BlockOf(m) \in B
  <2> DEFINE w == m.block
             b == FromCompact(w)
  <2>1. BlockOf(m) = b /\ b # Fail /\ VerifyBlock(b)
    BY <1>9 DEF Acceptable, BlockOf
  <2>2. w # Zeros
    BY <2>1 DEF FromCompact
  <2>3. PICK c \in B : w.signature = c.signature
    BY <2>2 DEF Carried, SignedBefore
  <2> DEFINE account == Hex(w.account)
             previous == IF w.previous = Zeros THEN Empty ELSE Hex(w.previous)
             party == IF w.tag = "Open" THEN Empty ELSE Hex(w.party)
             body == [account |-> account, previous |-> previous, kind |-> w.tag,
                      figures |-> w.figures, party |-> party]
             hash == ComputeHash(body)
  <2>4. b = [account |-> account, previous |-> previous, kind |-> w.tag, figures |-> w.figures,
             party |-> party, hash |-> hash, signature |-> w.signature]
    BY <2>1, <2>2 DEF FromCompact
  <2> HIDE DEF account, previous, party, hash
  <2>5. ComputeHash(b) = <<account, previous, w.tag, w.figures, party>>
    BY <2>1, <2>4 DEF VerifyBlock, ComputeHash
  <2>6. /\ b.hash = ComputeHash(b) /\ ComputeHash(b) # Fail
        /\ w.signature = Signed(Unhex(b.account), b.hash)
    BY <2>1, <2>4 DEF VerifyBlock, Verifies
  <2>7. /\ c = [account |-> c.account, previous |-> c.previous, kind |-> c.kind,
                figures |-> c.figures, party |-> c.party, hash |-> c.hash, signature |-> c.signature]
        /\ c.hash = Fail \/ c.hash = <<c.account, c.previous, c.kind, c.figures, c.party>>
        /\ c.signature = Signed(c.signature.key, c.hash)
    BY SignableShape DEF History
  <2>8. c.hash = b.hash
    BY <2>3, <2>6, <2>7 DEF Signed
  <2>9. <<c.account, c.previous, c.kind, c.figures, c.party>> = <<account, previous, w.tag, w.figures, party>>
        /\ hash = c.hash
    BY <2>4, <2>5, <2>6, <2>7, <2>8
  <2>10. /\ c.account = account /\ c.previous = previous /\ c.kind = w.tag
         /\ c.figures = w.figures /\ c.party = party
    BY <2>9
  <2>11. c = b
    BY <2>3, <2>4, <2>7, <2>9, <2>10
  <2> QED
    BY <2>1, <2>11
<1> QED
  BY <1>0, <1>3, <1>4, <1>7, <1>8, <1>9

-----------------------------------------------------------------------------
(* The transports: their queues hold only such messages, and the inbox of a transport
   x is what is left of the sequence a of its arrivals, k of which were returned. *)

Parcels == [deliver_at : Nat, message : Wires]

Boxes == [inbox : Seq(Wires), scheduled_inbox : Seq(Parcels), outbox : Seq(Wires),
          inbox_dropped : Nat]

BoxOK(x, S, B) ==
    /\ x \in Boxes
    /\ \A i \in 1 .. Len(x.inbox) : Carried(x.inbox[i], S, B)
    /\ \A i \in 1 .. Len(x.scheduled_inbox) : Carried(x.scheduled_inbox[i].message, S, B)
    /\ \A i \in 1 .. Len(x.outbox) : Carried(x.outbox[i], S, B)

Newest(x, a, k) ==
    /\ Len(x.inbox) + k <= Len(a)
    /\ \A i \in 1 .. Len(x.inbox) : x.inbox[i] = a[Len(a) - Len(x.inbox) + i]
    /\ x.inbox_dropped = Saturated(Len(a) - Len(x.inbox) - k)

Box(i, s, o, d) == [inbox |-> i, scheduled_inbox |-> s, outbox |-> o, inbox_dropped |-> d]

LEMMA BoxShape ==
    ASSUME NEW x \in Boxes
    PROVE  /\ x = Box(x.inbox, x.scheduled_inbox, x.outbox, x.inbox_dropped)
           /\ x.inbox \in Seq(Wires) /\ x.scheduled_inbox \in Seq(Parcels) /\ x.outbox \in Seq(Wires)
           /\ x.inbox_dropped \in Nat
           /\ Len(x.inbox) \in Nat /\ Len(x.scheduled_inbox) \in Nat /\ Len(x.outbox) \in Nat
BY DEF Boxes, Box

LEMMA BoxTyped ==
    ASSUME NEW i \in Seq(Wires), NEW s \in Seq(Parcels), NEW o \in Seq(Wires), NEW d \in Nat
    PROVE  /\ Box(i, s, o, d) \in Boxes
           /\ Box(i, s, o, d).inbox = i /\ Box(i, s, o, d).scheduled_inbox = s
           /\ Box(i, s, o, d).outbox = o /\ Box(i, s, o, d).inbox_dropped = d
BY DEF Boxes, Box

LEMMA SaturatedTyped ==
    ASSUME NEW d \in Nat
    PROVE  Saturated(d) \in Nat /\ Saturated(Saturated(d) + 1) = Saturated(d + 1)
BY TransportAssumption DEF Saturated

(* More said and more signed: everything on the air stays as it should be. *)
LEMMA CarriedGrows ==
    ASSUME NEW S, NEW B, NEW S1, NEW B1, \A k \in Keys : S[k] \subseteq S1[k], B \subseteq B1,
           NEW t, Carried(t, S, B)
    PROVE  Carried(t, S1, B1)
<1>1. SaidBefore(t.payload.signature, S1)
  BY DEF Carried, SaidBefore
<1>2. SignedBefore(t.payload.message.block, B1)
  BY DEF Carried, SignedBefore
<1> QED
  BY <1>1, <1>2 DEF Carried

LEMMA BoxGrows ==
    ASSUME NEW S, NEW B, NEW S1, NEW B1, \A k \in Keys : S[k] \subseteq S1[k], B \subseteq B1,
           NEW x, BoxOK(x, S, B)
    PROVE  BoxOK(x, S1, B1)
<1>1. \A t : Carried(t, S, B) => Carried(t, S1, B1)
  BY CarriedGrows
<1> QED
  BY <1>1 DEF BoxOK

(* The last l elements of the sequence a, of length m, are those of q. *)
Ends(a, m, q, l) == \A i \in 1 .. l : q[i] = a[m - l + i]

LEMMA NewestIs ==
    ASSUME NEW x, NEW a, NEW k \in Nat, NEW l \in Nat, NEW m \in Nat, NEW q, x.inbox = q, Len(q) = l,
           Len(a) = m, l + k <= m, Ends(a, m, q, l), x.inbox_dropped = Saturated(m - l - k)
    PROVE  Newest(x, a, k)
BY DEF Newest, Ends

LEMMA BoxInjected ==
    ASSUME NEW S, NEW B, NEW x, BoxOK(x, S, B), NEW t, Carried(t, S, B),
           NEW a \in Seq(Wires), NEW k \in Nat, Newest(x, a, k)
    PROVE  /\ BoxOK(Injected(x, t), S, B)
           /\ Newest(Injected(x, t), Append(a, t), k)
<1> DEFINE in == x.inbox
           l == Len(in)
           L == Len(a)
           y == Injected(x, t)
           c == Append(a, t)
<1>0. /\ x \in Boxes /\ in \in Seq(Wires) /\ l \in Nat /\ L \in Nat /\ t \in Wires
      /\ x = Box(in, x.scheduled_inbox, x.outbox, x.inbox_dropped)
      /\ x.scheduled_inbox \in Seq(Parcels) /\ x.outbox \in Seq(Wires) /\ x.inbox_dropped \in Nat
  BY BoxShape DEF BoxOK, Carried
<1>1. c \in Seq(Wires) /\ Len(c) = L + 1 /\ c[L + 1] = t /\ \A i \in 1 .. L : c[i] = a[i]
  BY <1>0
<1> HIDE DEF c
<1>2. CASE l >= InboxCapacity
  <2> DEFINE q == Append(Tail(in), t)
  <2>1. l >= 1
    BY <1>0, <1>2, TransportAssumption
  <2>2. /\ q \in Seq(Wires) /\ Len(q) = l /\ q[l] = t
        /\ \A i \in 1 .. l - 1 : q[i] = in[i + 1]
    BY <1>0, <2>1
  <2>3. y = Box(q, x.scheduled_inbox, x.outbox, Saturated(x.inbox_dropped + 1))
    BY <1>0, <1>2 DEF Injected, Box
  <2>4. Saturated(x.inbox_dropped + 1) \in Nat
    <3>1. x.inbox_dropped + 1 \in Nat
      BY <1>0
    <3> QED
      BY <3>1, SaturatedTyped
  <2> HIDE DEF q, in, y
  <2>5. /\ y \in Boxes /\ y.inbox = q /\ y.scheduled_inbox = x.scheduled_inbox /\ y.outbox = x.outbox
        /\ y.inbox_dropped = Saturated(x.inbox_dropped + 1)
    BY <1>0, <2>2, <2>3, <2>4, BoxTyped
  <2>6. \A i \in 1 .. Len(q) : Carried(q[i], S, B)
    <3> TAKE i \in 1 .. Len(q)
    <3>1. CASE i = l
      BY <2>2, <3>1
    <3>2. CASE i # l
      <4>1. i \in 1 .. l - 1 /\ i + 1 \in 1 .. l
        BY <1>0, <2>2, <3>2
      <4>2. Carried(in[i + 1], S, B)
        BY <4>1 DEF BoxOK, in
      <4> QED
        BY <2>2, <4>1, <4>2
    <3> QED
      BY <3>1, <3>2
  <2>7. BoxOK(y, S, B)
    BY <2>5, <2>6 DEF BoxOK
  <2>8. l + k <= L /\ \A i \in 1 .. l : in[i] = a[L - l + i]
    BY DEF Newest, in
  <2>9. \A i \in 1 .. l : q[i] = c[L + 1 - l + i]
    <3> TAKE i \in 1 .. l
    <3>1. CASE i = l
      BY <1>0, <1>1, <2>2, <3>1
    <3>2. CASE i # l
      <4>1. i \in 1 .. l - 1 /\ i + 1 \in 1 .. l /\ L - l + (i + 1) \in 1 .. L
            /\ L - l + (i + 1) = L + 1 - l + i
        BY <1>0, <2>8, <3>2
      <4> QED
        BY <1>1, <2>2, <2>8, <4>1
    <3> QED
      BY <3>1, <3>2
  <2>10. Saturated(x.inbox_dropped + 1) = Saturated(L + 1 - l - k)
    <3>1. x.inbox_dropped = Saturated(L - l - k) /\ L - l - k \in Nat /\ L + 1 - l - k = (L - l - k) + 1
      BY <1>0, <2>8 DEF Newest, in
    <3> QED
      BY <3>1, SaturatedTyped
  <2>11. Newest(y, c, k)
    <3>1. l + k <= L + 1
      BY <1>0, <2>8
    <3> DEFINE m == L + 1
    <3>2. Ends(c, m, q, l)
      BY <2>9 DEF Ends
    <3>3. l \in Nat /\ m \in Nat /\ Len(c) = m
      BY <1>0, <1>1
    <3>4. y.inbox_dropped = Saturated(m - l - k) /\ y.inbox = q /\ Len(q) = l
      BY <2>2, <2>5, <2>10
    <3> HIDE DEF l, L, m
    <3>5. Newest(y, c, k)
      BY <3>1, <3>2, <3>3, <3>4, NewestIs DEF m
    <3> QED
      BY <3>5
  <2> QED
    BY <2>7, <2>11 DEF y, c
<1>3. CASE ~(l >= InboxCapacity)
  <2> DEFINE q == Append(in, t)
  <2>2. /\ q \in Seq(Wires) /\ Len(q) = l + 1 /\ q[l + 1] = t
        /\ \A i \in 1 .. l : q[i] = in[i]
    BY <1>0
  <2>3. y = Box(q, x.scheduled_inbox, x.outbox, x.inbox_dropped)
    BY <1>0, <1>3 DEF Injected, Box
  <2> HIDE DEF q, in, y
  <2>5. /\ y \in Boxes /\ y.inbox = q /\ y.scheduled_inbox = x.scheduled_inbox /\ y.outbox = x.outbox
        /\ y.inbox_dropped = x.inbox_dropped
    BY <1>0, <2>2, <2>3, BoxTyped
  <2>6. \A i \in 1 .. Len(q) : Carried(q[i], S, B)
    <3> TAKE i \in 1 .. Len(q)
    <3>1. CASE i = l + 1
      BY <2>2, <3>1
    <3>2. CASE i # l + 1
      <4>1. i \in 1 .. l
        BY <1>0, <2>2, <3>2
      <4>2. Carried(in[i], S, B)
        BY <4>1 DEF BoxOK, in
      <4> QED
        BY <2>2, <4>1, <4>2
    <3> QED
      BY <3>1, <3>2
  <2>7. BoxOK(y, S, B)
    BY <2>5, <2>6 DEF BoxOK
  <2>8. l + k <= L /\ \A i \in 1 .. l : in[i] = a[L - l + i]
    BY DEF Newest, in
  <2>9. \A i \in 1 .. l + 1 : q[i] = c[L + 1 - (l + 1) + i]
    <3> TAKE i \in 1 .. l + 1
    <3>1. CASE i = l + 1
      BY <1>0, <1>1, <2>2, <3>1
    <3>2. CASE i # l + 1
      <4>1. i \in 1 .. l /\ L - l + i \in 1 .. L /\ L - l + i = L + 1 - (l + 1) + i
        BY <1>0, <2>8, <3>2
      <4> QED
        BY <1>1, <2>2, <2>8, <4>1
    <3> QED
      BY <3>1, <3>2
  <2>10. x.inbox_dropped = Saturated(L + 1 - (l + 1) - k)
    <3>1. x.inbox_dropped = Saturated(L - l - k) /\ L + 1 - (l + 1) - k = L - l - k
      BY <1>0 DEF Newest, in
    <3> QED
      BY <3>1
  <2>11. Newest(y, c, k)
    <3>1. (l + 1) + k <= L + 1
      BY <1>0, <2>8
    <3> DEFINE m == L + 1
               j == l + 1
    <3>2. Ends(c, m, q, j)
      BY <2>9 DEF Ends
    <3>3. j \in Nat /\ m \in Nat /\ Len(c) = m
      BY <1>0, <1>1
    <3>4. y.inbox_dropped = Saturated(m - j - k) /\ y.inbox = q /\ Len(q) = j
      BY <2>2, <2>5, <2>10
    <3>6. j + k <= m
      BY <3>1
    <3> HIDE DEF l, L, m, j
    <3>5. Newest(y, c, k)
      BY <3>2, <3>3, <3>4, <3>6, NewestIs
    <3> QED
      BY <3>5
  <2> QED
    BY <2>7, <2>11 DEF y, c
<1> QED
  BY <1>2, <1>3

-----------------------------------------------------------------------------
LEMMA BoxUpdated ==
    ASSUME NEW x \in Boxes, NEW v
    PROVE  /\ [x EXCEPT !.inbox = v] = Box(v, x.scheduled_inbox, x.outbox, x.inbox_dropped)
           /\ [x EXCEPT !.scheduled_inbox = v] = Box(x.inbox, v, x.outbox, x.inbox_dropped)
           /\ [x EXCEPT !.outbox = v] = Box(x.inbox, x.scheduled_inbox, v, x.inbox_dropped)
BY DEF Boxes, Box

LEMMA BoxScheduled ==
    ASSUME NEW S, NEW B, NEW x, BoxOK(x, S, B), NEW t, Carried(t, S, B), NEW at \in Nat,
           NEW a, NEW k, Newest(x, a, k)
    PROVE  /\ BoxOK(Scheduled(x, t, at), S, B)
           /\ Newest(Scheduled(x, t, at), a, k)
<1> DEFINE p == [deliver_at |-> Saturated(at + Latency), message |-> t]
           sc == x.scheduled_inbox
           q == Append(sc, p)
           y == Scheduled(x, t, at)
<1>0. /\ x.inbox \in Seq(Wires) /\ sc \in Seq(Parcels) /\ x.outbox \in Seq(Wires) /\ x.inbox_dropped \in Nat
      /\ x = Box(x.inbox, sc, x.outbox, x.inbox_dropped) /\ Len(sc) \in Nat
  BY BoxShape DEF BoxOK
<1>1. at + Latency \in Nat
  BY TransportAssumption
<1>2. p \in Parcels /\ p.message = t
  BY <1>1, SaturatedTyped DEF Parcels, Carried
<1>3. y = Box(x.inbox, q, x.outbox, x.inbox_dropped)
  <2> HIDE DEF q
  <2>1. y = [x EXCEPT !.scheduled_inbox = q]
    BY DEF Scheduled, q
  <2> QED
    BY <2>1, BoxUpdated DEF BoxOK
<1> HIDE DEF p, y, sc
<1>4. /\ q \in Seq(Parcels) /\ Len(q) = Len(sc) + 1 /\ q[Len(sc) + 1] = p
      /\ \A i \in 1 .. Len(sc) : q[i] = sc[i]
  BY <1>0, <1>2
<1> HIDE DEF q
<1>5. y \in Boxes /\ y.inbox = x.inbox /\ y.scheduled_inbox = q /\ y.outbox = x.outbox
      /\ y.inbox_dropped = x.inbox_dropped
  BY <1>0, <1>3, <1>4, BoxTyped
<1>6. \A i \in 1 .. Len(q) : Carried(q[i].message, S, B)
  <2> TAKE i \in 1 .. Len(q)
  <2>1. CASE i = Len(sc) + 1
    BY <1>2, <1>4, <2>1
  <2>2. CASE i # Len(sc) + 1
    <3>1. i \in 1 .. Len(sc)
      BY <1>0, <1>4, <2>2
    <3>2. Carried(sc[i].message, S, B)
      BY <3>1 DEF BoxOK, sc
    <3> QED
      BY <1>4, <3>1, <3>2
  <2> QED
    BY <2>1, <2>2
<1>7. BoxOK(y, S, B)
  BY <1>5, <1>6 DEF BoxOK
<1>8. Newest(y, a, k)
  BY <1>5 DEF Newest
<1> QED
  BY <1>7, <1>8 DEF y

LEMMA TailOf ==
    ASSUME NEW T, NEW q \in Seq(T), q # <<>>
    PROVE  /\ Tail(q) \in Seq(T) /\ Len(q) \in Nat \ {0} /\ Len(Tail(q)) = Len(q) - 1
           /\ Head(q) = q[1] /\ 1 \in 1 .. Len(q)
           /\ \A i \in 1 .. Len(q) - 1 : Tail(q)[i] = q[i + 1] /\ i + 1 \in 1 .. Len(q)
<1>1. Len(q) \in Nat /\ Len(q) # 0
  BY EmptySeq
<1> QED
  BY <1>1

LEMMA BoxReceived ==
    ASSUME NEW S, NEW B, NEW x, BoxOK(x, S, B), x.inbox # <<>>,
           NEW a \in Seq(Wires), NEW k \in Nat, Newest(x, a, k)
    PROVE  /\ BoxOK(Received(x), S, B)
           /\ Newest(Received(x), a, k + 1)
           /\ Carried(Head(x.inbox), S, B)
<1> DEFINE in == x.inbox
           q == Tail(in)
           y == Received(x)
           l == Len(in)
           L == Len(a)
<1>0. /\ in \in Seq(Wires) /\ x.scheduled_inbox \in Seq(Parcels) /\ x.outbox \in Seq(Wires)
      /\ x.inbox_dropped \in Nat /\ L \in Nat
      /\ x = Box(in, x.scheduled_inbox, x.outbox, x.inbox_dropped)
  BY BoxShape DEF BoxOK
<1>1. /\ q \in Seq(Wires) /\ l \in Nat \ {0} /\ Len(q) = l - 1
      /\ Head(in) = in[1] /\ 1 \in 1 .. l
      /\ \A i \in 1 .. l - 1 : q[i] = in[i + 1] /\ i + 1 \in 1 .. l
  BY <1>0, TailOf
<1>2. y = Box(q, x.scheduled_inbox, x.outbox, x.inbox_dropped)
  <2> HIDE DEF q
  <2>1. y = [x EXCEPT !.inbox = q]
    BY DEF Received, q
  <2> QED
    BY <2>1, BoxUpdated DEF BoxOK
<1> HIDE DEF q, y, in
<1>3. /\ y \in Boxes /\ y.inbox = q /\ y.scheduled_inbox = x.scheduled_inbox /\ y.outbox = x.outbox
      /\ y.inbox_dropped = x.inbox_dropped
  BY <1>0, <1>1, <1>2, BoxTyped
<1>4. \A i \in 1 .. l : Carried(in[i], S, B)
  BY DEF BoxOK, in
<1>5. \A i \in 1 .. Len(q) : Carried(q[i], S, B)
  BY <1>1, <1>4
<1>6. BoxOK(y, S, B)
  BY <1>3, <1>5 DEF BoxOK
<1>7. l + k <= L /\ x.inbox_dropped = Saturated(L - l - k) /\ \A i \in 1 .. l : in[i] = a[L - l + i]
  BY DEF Newest, in
<1> DEFINE j == l - 1
           n == k + 1
<1>8. j \in Nat /\ n \in Nat /\ j + n <= L /\ L - j - n = L - l - k /\ Len(q) = j
  BY <1>0, <1>1, <1>7
<1>9. Ends(a, L, q, j)
  <2>1. ASSUME NEW i \in 1 .. j PROVE q[i] = a[L - j + i]
    <3>1. i + 1 \in 1 .. l /\ q[i] = in[i + 1] /\ L - l + (i + 1) = L - j + i
      BY <1>0, <1>1, <2>1
    <3> QED
      BY <1>7, <3>1
  <2> QED
    BY <2>1 DEF Ends
<1>10. y.inbox_dropped = Saturated(L - j - n)
  BY <1>3, <1>7, <1>8
<1>11. Newest(y, a, n)
  <2> HIDE DEF L, j, n
  <2>1. Len(a) = L
    BY DEF L
  <2> QED
    BY <1>0, <1>3, <1>8, <1>9, <1>10, <2>1, NewestIs
<1>12. Carried(Head(in), S, B)
  BY <1>1, <1>4
<1> QED
  BY <1>6, <1>11, <1>12 DEF y, in

LEMMA BoxReceivedAt ==
    ASSUME NEW S, NEW B, NEW x, BoxOK(x, S, B), x.scheduled_inbox # <<>>, NEW a, NEW k, Newest(x, a, k)
    PROVE  /\ BoxOK(ReceivedAt(x), S, B)
           /\ Newest(ReceivedAt(x), a, k)
           /\ Carried(Head(x.scheduled_inbox).message, S, B)
<1> DEFINE sc == x.scheduled_inbox
           q == Tail(sc)
           y == ReceivedAt(x)
<1>0. /\ x.inbox \in Seq(Wires) /\ sc \in Seq(Parcels) /\ x.outbox \in Seq(Wires)
      /\ x.inbox_dropped \in Nat
      /\ x = Box(x.inbox, sc, x.outbox, x.inbox_dropped)
  BY BoxShape DEF BoxOK
<1>1. /\ q \in Seq(Parcels) /\ Len(q) = Len(sc) - 1
      /\ Head(sc) = sc[1] /\ 1 \in 1 .. Len(sc)
      /\ \A i \in 1 .. Len(sc) - 1 : q[i] = sc[i + 1] /\ i + 1 \in 1 .. Len(sc)
  BY <1>0, TailOf
<1>2. y = Box(x.inbox, q, x.outbox, x.inbox_dropped)
  <2> HIDE DEF q
  <2>1. y = [x EXCEPT !.scheduled_inbox = q]
    BY DEF ReceivedAt, q
  <2> QED
    BY <2>1, BoxUpdated DEF BoxOK
<1> HIDE DEF q, y, sc
<1>3. /\ y \in Boxes /\ y.inbox = x.inbox /\ y.scheduled_inbox = q /\ y.outbox = x.outbox
      /\ y.inbox_dropped = x.inbox_dropped
  BY <1>0, <1>1, <1>2, BoxTyped
<1>4. \A i \in 1 .. Len(sc) : Carried(sc[i].message, S, B)
  BY DEF BoxOK, sc
<1>5. \A i \in 1 .. Len(q) : Carried(q[i].message, S, B)
  BY <1>1, <1>4
<1>6. BoxOK(y, S, B)
  BY <1>3, <1>5 DEF BoxOK
<1>7. Newest(y, a, k)
  BY <1>3 DEF Newest
<1>8. Carried(Head(sc).message, S, B)
  BY <1>1, <1>4
<1> QED
  BY <1>6, <1>7, <1>8 DEF y, sc

LEMMA BoxSent ==
    ASSUME NEW S, NEW B, NEW x, BoxOK(x, S, B), NEW t, Carried(t, S, B), NEW result,
           NEW a, NEW k, Newest(x, a, k)
    PROVE  /\ BoxOK(AfterSend(x, t, result), S, B)
           /\ Newest(AfterSend(x, t, result), a, k)
<1>1. CASE result # "Ok"
  BY <1>1 DEF AfterSend
<1>2. CASE result = "Ok"
  <2> DEFINE out == x.outbox
             q == Append(out, t)
             y == AfterSend(x, t, result)
  <2>0. /\ x.inbox \in Seq(Wires) /\ x.scheduled_inbox \in Seq(Parcels) /\ out \in Seq(Wires)
        /\ x.inbox_dropped \in Nat /\ Len(out) \in Nat /\ t \in Wires
        /\ x = Box(x.inbox, x.scheduled_inbox, out, x.inbox_dropped)
    BY BoxShape DEF BoxOK, Carried
  <2>1. /\ q \in Seq(Wires) /\ Len(q) = Len(out) + 1 /\ q[Len(out) + 1] = t
        /\ \A i \in 1 .. Len(out) : q[i] = out[i]
    BY <2>0
  <2>2. y = Box(x.inbox, x.scheduled_inbox, q, x.inbox_dropped)
    BY <1>2, <2>0 DEF AfterSend, Box
  <2> HIDE DEF q, y, out
  <2>3. /\ y \in Boxes /\ y.inbox = x.inbox /\ y.scheduled_inbox = x.scheduled_inbox /\ y.outbox = q
        /\ y.inbox_dropped = x.inbox_dropped
    BY <2>0, <2>1, <2>2, BoxTyped
  <2>4. \A i \in 1 .. Len(q) : Carried(q[i], S, B)
    <3> TAKE i \in 1 .. Len(q)
    <3>1. CASE i = Len(out) + 1
      BY <2>1, <3>1
    <3>2. CASE i # Len(out) + 1
      <4>1. i \in 1 .. Len(out)
        BY <2>0, <2>1, <3>2
      <4>2. Carried(out[i], S, B)
        BY <4>1 DEF BoxOK, out
      <4> QED
        BY <2>1, <4>1, <4>2
    <3> QED
      BY <3>1, <3>2
  <2>5. BoxOK(y, S, B)
    BY <2>3, <2>4 DEF BoxOK
  <2>6. Newest(y, a, k)
    BY <2>3 DEF Newest
  <2> QED
    BY <2>5, <2>6 DEF y
<1> QED
  BY <1>1, <1>2

-----------------------------------------------------------------------------
(* The inductive invariant: of the transports T with their arrivals A and the messages
   K that try_recv returned, and of what has been heard, H. *)

NodesOK(T, A, K, S, B) ==
    /\ T \in [Nodes -> Boxes] /\ A \in [Nodes -> Seq(Wires)] /\ K \in [Nodes -> Nat]
    /\ \A n \in Nodes : BoxOK(T[n], S, B) /\ Newest(T[n], A[n], K[n])

Reports == [from : Keys, message : Msgs, sender : Keys, block : Signable \cup {NoBlock}]

TrueReport(h, S, B) ==
    /\ h \in Reports
    /\ h.message \in S[h.sender]
    /\ h.message.kind = "BlockAnnounce" => h.block \in B
    /\ h.from = h.sender

HeardOK(H, S, B) ==
    /\ H \in [Nodes -> SUBSET Reports]
    /\ \A n \in Nodes : \A h \in H[n] : TrueReport(h, S, B)

RadioInv ==
    /\ History(said, blocks)
    /\ NodesOK(transport, arrived, taken, said, blocks)
    /\ HeardOK(heard, said, blocks)
    /\ now \in Nat
    /\ delivered \in [Nodes -> [Nodes -> Nat]]

Grows(S, B, S1, B1) == (\A k \in Keys : S[k] \subseteq S1[k]) /\ B \subseteq B1

LEMMA NodesGrow ==
    ASSUME NEW T, NEW A, NEW K, NEW S, NEW B, NEW S1, NEW B1,
           Grows(S, B, S1, B1), NodesOK(T, A, K, S, B)
    PROVE  NodesOK(T, A, K, S1, B1)
<1>1. \A x : BoxOK(x, S, B) => BoxOK(x, S1, B1)
  BY BoxGrows DEF Grows
<1> QED
  BY <1>1 DEF NodesOK

LEMMA NodesUpdated ==
    ASSUME NEW T, NEW A, NEW K, NEW S, NEW B, NodesOK(T, A, K, S, B), NEW n \in Nodes,
           NEW y, BoxOK(y, S, B), NEW a \in Seq(Wires), NEW k \in Nat, Newest(y, a, k)
    PROVE  NodesOK([T EXCEPT ![n] = y], [A EXCEPT ![n] = a], [K EXCEPT ![n] = k], S, B)
<1> DEFINE T1 == [T EXCEPT ![n] = y]
           A1 == [A EXCEPT ![n] = a]
           K1 == [K EXCEPT ![n] = k]
<1>1. y \in Boxes
  BY DEF BoxOK
<1>2. T1 \in [Nodes -> Boxes] /\ A1 \in [Nodes -> Seq(Wires)] /\ K1 \in [Nodes -> Nat]
  BY <1>1 DEF NodesOK
<1>3. ASSUME NEW m \in Nodes PROVE BoxOK(T1[m], S, B) /\ Newest(T1[m], A1[m], K1[m])
  <2>1. CASE m = n
    <3>1. T1[m] = y /\ A1[m] = a /\ K1[m] = k
      BY <2>1 DEF NodesOK
    <3> QED
      BY <3>1
  <2>2. CASE m # n
    <3>1. T1[m] = T[m] /\ A1[m] = A[m] /\ K1[m] = K[m]
      BY <2>2 DEF NodesOK
    <3> QED
      BY <3>1 DEF NodesOK
  <2> QED
    BY <2>1, <2>2
<1> HIDE DEF T1, A1, K1
<1>4. NodesOK(T1, A1, K1, S, B)
  BY <1>2, <1>3 DEF NodesOK
<1> QED
  BY <1>4 DEF T1, A1, K1

(* The same, when a queue other than the inbox has changed. *)
LEMMA NodesChanged ==
    ASSUME NEW T, NEW A, NEW K, NEW S, NEW B, NodesOK(T, A, K, S, B), NEW n \in Nodes,
           NEW y, BoxOK(y, S, B), Newest(y, A[n], K[n])
    PROVE  NodesOK([T EXCEPT ![n] = y], A, K, S, B)
<1>1. A[n] \in Seq(Wires) /\ K[n] \in Nat /\ A = [A EXCEPT ![n] = A[n]] /\ K = [K EXCEPT ![n] = K[n]]
  BY DEF NodesOK
<1> DEFINE a == A[n]
           k == K[n]
<1> HIDE DEF a, k
<1>2. NodesOK([T EXCEPT ![n] = y], [A EXCEPT ![n] = a], [K EXCEPT ![n] = k], S, B)
  BY <1>1, NodesUpdated DEF a, k
<1> QED
  BY <1>1, <1>2 DEF a, k

LEMMA HeardGrows ==
    ASSUME NEW H, NEW S, NEW B, NEW S1, NEW B1, Grows(S, B, S1, B1), HeardOK(H, S, B)
    PROVE  HeardOK(H, S1, B1)
BY DEF Grows, HeardOK, TrueReport, Reports

-----------------------------------------------------------------------------
(* What a node sends.  An envelope of its own says what the node says from then on. *)
LEMMA SentIsCarried ==
    ASSUME NEW S, NEW B, History(S, B), NEW n \in Nodes, NEW m \in Msgs, m \in S[n],
           SignedBefore(m.block, B)
    PROVE  Carried(Broadcast(n, Envelope(n, m)), S, B)
<1> DEFINE e == Envelope(n, m)
           t == Broadcast(n, e)
<1>0. n \in Keys
  BY RadioAssumption
<1>1. e \in Envelopes
  BY <1>0, EnvelopeTyped
<1>2. t \in Wires /\ t.payload = e /\ t.signature = TransportSignature(n, e)
  BY <1>0, <1>1, BroadcastTyped
<1>3. e.message = m /\ e.sender_pubkey = n /\ e.signature = Signed(n, GossipBytes(m, n))
  BY DEF Envelope
<1> HIDE DEF e, t
<1>4. SaidBefore(t.payload.signature, S)
  BY <1>0, <1>2, <1>3 DEF SaidBefore
<1>5. SentBefore(t.signature)
  BY <1>0, <1>1, <1>2, <1>3 DEF SentBefore
<1>6. SignedBefore(t.payload.message.block, B)
  BY <1>2, <1>3
<1>7. Carried(t, S, B)
  BY <1>2, <1>4, <1>5, <1>6 DEF Carried
<1> QED
  BY <1>7 DEF e, t

(* One passed on with the signature it came with verifies nowhere: the hops left are
   among the bytes that were signed. *)
LEMMA PassedOnIsCarried ==
    ASSUME NEW S, NEW B, NEW t, Carried(t, S, B), Acceptable(t), NEW n \in Nodes,
           MayRelay(t.payload.message)
    PROVE  Carried(Broadcast(n, [t.payload EXCEPT !.message = Decremented(t.payload.message)]), S, B)
<1> DEFINE e == t.payload
           m == e.message
           next == Decremented(m)
           f == [e EXCEPT !.message = next]
           w == Broadcast(n, f)
<1>0. n \in Keys
  BY RadioAssumption
<1>1. e \in Envelopes /\ m \in Msgs /\ e.sender_pubkey \in Keys
  BY DEF Carried, Wires, Envelopes
<1>2. next \in Msgs /\ next.block = m.block /\ next.hops # m.hops
  <2>1. MayRelay(m)
    OBVIOUS
  <2> HIDE DEF m
  <2> QED
    BY <1>1, <2>1, DecrementedTyped
<1> HIDE DEF next
<1>3. f \in Envelopes /\ f.message = next /\ f.sender_pubkey = e.sender_pubkey /\ f.signature = e.signature
  BY <1>1, <1>2 DEF Envelopes
<1> HIDE DEF f
<1>4. w \in Wires /\ w.payload = f /\ w.signature = TransportSignature(n, f)
  BY <1>0, <1>3, BroadcastTyped
<1> HIDE DEF w
<1>5. SaidBefore(w.payload.signature, S) /\ SignedBefore(w.payload.message.block, B)
  BY <1>2, <1>3, <1>4 DEF Carried
<1>6. ~EnvelopeVerifies(f)
  <2>1. e.signature = Signed(e.sender_pubkey, GossipBytes(m, e.sender_pubkey))
    BY DEF Acceptable, EnvelopeVerifies, Verifies
  <2>2. ASSUME EnvelopeVerifies(f) PROVE FALSE
    <3>1. e.signature = Signed(e.sender_pubkey, GossipBytes(next, e.sender_pubkey))
      BY <1>3, <2>2 DEF EnvelopeVerifies, Verifies
    <3>2. GossipBytes(next, e.sender_pubkey) = GossipBytes(m, e.sender_pubkey)
      BY <2>1, <3>1 DEF Signed
    <3> QED
      BY <1>2, <3>2 DEF GossipBytes
  <2> QED
    BY <2>2
<1>7. SentBefore(w.signature)
  BY <1>0, <1>3, <1>4, <1>6 DEF SentBefore
<1>8. Carried(w, S, B)
  BY <1>4, <1>5, <1>7 DEF Carried
<1> QED
  BY <1>8 DEF w, f, next

(* A garbled copy is carried like what it is a copy of. *)
LEMMA GarbledIsCarried ==
    ASSUME NEW S, NEW B, NEW t, Carried(t, S, B), NEW g \in Garbled(t)
    PROVE  Carried(g, S, B)
<1>0. t \in Wires
  BY DEF Carried
<1>1. /\ g \in Wires
      /\ g.payload.signature \in {t.payload.signature, Zeros}
      /\ g.signature \in {t.signature, Zeros}
      /\ \/ g.payload.message.block = Zeros
         \/ g.payload.message.block = t.payload.message.block
         \/ /\ t.payload.message.block # Zeros
            /\ g.payload.message.block.signature = t.payload.message.block.signature
  BY <1>0, GarbledTyped
<1>2. SaidBefore(g.payload.signature, S)
  BY <1>1 DEF Carried, SaidBefore
<1>3. SentBefore(g.signature)
  BY <1>1 DEF Carried, SentBefore
<1>4. SignedBefore(g.payload.message.block, B)
  BY <1>1 DEF Carried, SignedBefore
<1> QED
  BY <1>1, <1>2, <1>3, <1>4 DEF Carried

-----------------------------------------------------------------------------
(* The steps.  What a node says from now on is in said'. *)
LEMMA SaysMore ==
    ASSUME NEW S, NEW B, History(S, B), NEW n \in Nodes, NEW m \in Msgs
    PROVE  /\ History([S EXCEPT ![n] = @ \cup {m}], B)
           /\ Grows(S, B, [S EXCEPT ![n] = @ \cup {m}], B)
           /\ m \in [S EXCEPT ![n] = @ \cup {m}][n]
BY RadioAssumption DEF History, Grows

LEMMA Handling ==
    ASSUME History(said, blocks), HeardOK(heard, said, blocks), NEW n \in Nodes,
           NEW t, Carried(t, said, blocks), NEW rest, BoxOK(rest, said, blocks),
           NEW a, NEW k, Newest(rest, a, k), NEW anew \in BOOLEAN, NEW result,
           Handle(n, t, rest, anew, result), blocks' = blocks
    PROVE  /\ History(said', blocks') /\ Grows(said, blocks, said', blocks')
           /\ HeardOK(heard', said', blocks')
           /\ \E y : transport' = [transport EXCEPT ![n] = y] /\ BoxOK(y, said', blocks') /\ Newest(y, a, k)
<1>1. CASE ~Acceptable(t)
  <2>1. said' = said /\ heard' = heard /\ transport' = [transport EXCEPT ![n] = rest]
    BY <1>1 DEF Handle
  <2>2. Grows(said, blocks, said', blocks')
    BY <2>1 DEF Grows
  <2> QED
    BY <2>1, <2>2
<1>2. CASE Acceptable(t)
  <2> DEFINE m == t.payload.message
             next == Decremented(m)
             h == [from |-> Unhex(t.from), message |-> m, sender |-> t.payload.sender_pubkey,
                   block |-> BlockOf(m)]
  <2>0. m \in Msgs /\ SignedBefore(m.block, blocks)
    BY DEF Carried, Wires, Envelopes
  <2>1. heard' = [heard EXCEPT ![n] = @ \cup {h}]
    BY <1>2 DEF Handle
  <2>2. TrueReport(h, said, blocks)
    <3>1. /\ m \in said[t.payload.sender_pubkey] /\ t.payload.sender_pubkey \in Keys
          /\ Unhex(t.from) = t.payload.sender_pubkey
          /\ m.kind = "BlockAnnounce" => BlockOf(m) \in blocks
      BY <1>2, AcceptedWasSaid
    <3>2. BlockOf(m) \in Signable \cup {NoBlock}
      BY <3>1 DEF BlockOf, History
    <3> DEFINE b == BlockOf(m)
               s == t.payload.sender_pubkey
    <3>3. h = [from |-> s, message |-> m, sender |-> s, block |-> b]
      BY <3>1
    <3> HIDE DEF b, h, s, m
    <3>4. h \in Reports
      BY <2>0, <3>1, <3>2, <3>3 DEF Reports, b, s
    <3> QED
      BY <3>1, <3>3, <3>4 DEF TrueReport, b, s
  <2> HIDE DEF h
  <2>3. HeardOK(heard', said, blocks)
    BY <2>1, <2>2 DEF HeardOK, TrueReport
  <2>4. next \in Msgs /\ next.block = m.block
    BY <2>0, DecrementedTyped
  <2>5. CASE ~MayRelay(m)
    <3>1. said' = said /\ transport' = [transport EXCEPT ![n] = rest]
      BY <1>2, <2>5 DEF Handle
    <3>2. Grows(said, blocks, said', blocks')
      BY <3>1 DEF Grows
    <3> QED
      BY <2>3, <3>1, <3>2
  <2>6. CASE MayRelay(m) /\ anew
    <3> DEFINE w == Broadcast(n, Envelope(n, next))
               y == AfterSend(rest, w, result)
    <3>1. said' = [said EXCEPT ![n] = @ \cup {next}] /\ transport' = [transport EXCEPT ![n] = y]
      BY <1>2, <2>6 DEF Handle, Send
    <3>2. History(said', blocks) /\ Grows(said, blocks, said', blocks) /\ next \in said'[n]
      <4> HIDE DEF next
      <4> QED
        BY <2>4, <3>1, SaysMore
    <3> HIDE DEF next
    <3>3. SignedBefore(next.block, blocks)
      BY <2>0, <2>4
    <3>4. Carried(w, said', blocks)
      BY <2>4, <3>2, <3>3, SentIsCarried
    <3> HIDE DEF w
    <3>5. BoxOK(rest, said', blocks)
      BY <3>2, BoxGrows DEF Grows
    <3>6. BoxOK(y, said', blocks) /\ Newest(y, a, k)
      BY <3>4, <3>5, BoxSent
    <3>7. HeardOK(heard', said', blocks)
      BY <2>3, <3>2, HeardGrows
    <3> HIDE DEF y
    <3> QED
      BY <3>1, <3>2, <3>6, <3>7
  <2>7. CASE MayRelay(m) /\ ~anew
    <3> DEFINE w == Broadcast(n, [t.payload EXCEPT !.message = next])
               y == AfterSend(rest, w, result)
    <3>1. said' = said /\ transport' = [transport EXCEPT ![n] = y]
      BY <1>2, <2>7 DEF Handle, Send
    <3>2. Grows(said, blocks, said', blocks')
      BY <3>1 DEF Grows
    <3>4. Carried(w, said, blocks)
      BY <1>2, <2>7, PassedOnIsCarried
    <3> HIDE DEF w
    <3>6. BoxOK(y, said, blocks) /\ Newest(y, a, k)
      BY <3>4, BoxSent
    <3> HIDE DEF y
    <3> QED
      BY <2>3, <3>1, <3>2, <3>6
  <2> QED
    BY <2>5, <2>6, <2>7
<1> QED
  BY <1>1, <1>2

LEMMA RecvKeeps ==
    ASSUME RadioInv, NEW n \in Nodes, NEW anew \in BOOLEAN, NEW result, Recv(n, anew, result)
    PROVE  RadioInv'
<1> DEFINE x == transport[n]
           a == arrived[n]
           k == taken[n]
           t == Head(x.inbox)
           rest == Received(x)
<1>0. /\ History(said, blocks) /\ HeardOK(heard, said, blocks)
      /\ NodesOK(transport, arrived, taken, said, blocks)
  BY DEF RadioInv
<1>1. /\ x.inbox # <<>> /\ Handle(n, t, rest, anew, result)
      /\ taken' = [taken EXCEPT ![n] = k + 1]
      /\ now' = now /\ delivered' = delivered /\ blocks' = blocks /\ arrived' = arrived
  BY DEF Recv, CanRecv
<1>2. BoxOK(x, said, blocks) /\ Newest(x, a, k) /\ a \in Seq(Wires) /\ k \in Nat /\ k + 1 \in Nat
      /\ arrived = [arrived EXCEPT ![n] = a]
  BY <1>0 DEF NodesOK
<1> HIDE DEF x, a, k
<1>3. BoxOK(rest, said, blocks) /\ Newest(rest, a, k + 1) /\ Carried(t, said, blocks)
  BY <1>1, <1>2, BoxReceived
<1> HIDE DEF rest, t
<1>4. /\ History(said', blocks') /\ Grows(said, blocks, said', blocks') /\ HeardOK(heard', said', blocks')
      /\ \E y : /\ transport' = [transport EXCEPT ![n] = y] /\ BoxOK(y, said', blocks')
                /\ Newest(y, a, k + 1)
  <2> DEFINE j == k + 1
  <2> HIDE DEF j
  <2>1. Newest(rest, a, j)
    BY <1>3 DEF j
  <2>2. \E y : transport' = [transport EXCEPT ![n] = y] /\ BoxOK(y, said', blocks') /\ Newest(y, a, j)
    BY <1>0, <1>1, <1>3, <2>1, Handling
  <2>3. History(said', blocks') /\ Grows(said, blocks, said', blocks') /\ HeardOK(heard', said', blocks')
    BY <1>0, <1>1, <1>3, <2>1, Handling
  <2> QED
    BY <2>2, <2>3 DEF j
<1>5. PICK y : transport' = [transport EXCEPT ![n] = y] /\ BoxOK(y, said', blocks') /\ Newest(y, a, k + 1)
  BY <1>4
<1>6. NodesOK(transport, arrived, taken, said', blocks')
  BY <1>0, <1>4, NodesGrow
<1>7. NodesOK(transport', arrived', taken', said', blocks')
  <2> DEFINE j == k + 1
  <2> HIDE DEF j
  <2>1. Newest(y, a, j) /\ j \in Nat /\ taken' = [taken EXCEPT ![n] = j]
    BY <1>1, <1>2, <1>5 DEF j
  <2>2. NodesOK([transport EXCEPT ![n] = y], [arrived EXCEPT ![n] = a], [taken EXCEPT ![n] = j], said', blocks')
    BY <1>2, <1>5, <1>6, <2>1, NodesUpdated
  <2> QED
    BY <1>1, <1>2, <1>5, <2>1, <2>2
<1> QED
  BY <1>1, <1>4, <1>7 DEF RadioInv

LEMMA RecvAtKeeps ==
    ASSUME RadioInv, NEW n \in Nodes, NEW anew \in BOOLEAN, NEW result, RecvAt(n, anew, result)
    PROVE  RadioInv'
<1> DEFINE x == transport[n]
           a == arrived[n]
           k == taken[n]
           t == Head(x.scheduled_inbox).message
           rest == ReceivedAt(x)
<1>0. /\ History(said, blocks) /\ HeardOK(heard, said, blocks)
      /\ NodesOK(transport, arrived, taken, said, blocks)
  BY DEF RadioInv
<1>1. /\ x.scheduled_inbox # <<>> /\ Handle(n, t, rest, anew, result)
      /\ taken' = taken /\ now' = now /\ delivered' = delivered /\ blocks' = blocks /\ arrived' = arrived
  BY DEF RecvAt, CanRecvAt
<1>2. BoxOK(x, said, blocks) /\ Newest(x, a, k)
  BY <1>0 DEF NodesOK
<1> HIDE DEF x, a, k
<1>3. BoxOK(rest, said, blocks) /\ Newest(rest, a, k) /\ Carried(t, said, blocks)
  BY <1>1, <1>2, BoxReceivedAt
<1> HIDE DEF rest, t
<1>4. /\ History(said', blocks') /\ Grows(said, blocks, said', blocks') /\ HeardOK(heard', said', blocks')
      /\ \E y : transport' = [transport EXCEPT ![n] = y] /\ BoxOK(y, said', blocks') /\ Newest(y, a, k)
  BY <1>0, <1>1, <1>3, Handling
<1>5. PICK y : transport' = [transport EXCEPT ![n] = y] /\ BoxOK(y, said', blocks') /\ Newest(y, a, k)
  BY <1>4
<1>6. NodesOK(transport, arrived, taken, said', blocks')
  BY <1>0, <1>4, NodesGrow
<1>7. NodesOK(transport', arrived', taken', said', blocks')
  <2>1. NodesOK([transport EXCEPT ![n] = y], arrived, taken, said', blocks')
    BY <1>5, <1>6, NodesChanged DEF a, k
  <2> QED
    BY <1>1, <1>5, <2>1
<1> QED
  BY <1>1, <1>4, <1>7 DEF RadioInv

LEMMA HandKeeps ==
    ASSUME RadioInv, NEW n \in Nodes, NEW t, Carried(t, said, blocks), NEW at_once \in BOOLEAN,
           Hand(n, t, at_once), taken' = taken
    PROVE  NodesOK(transport', arrived', taken', said, blocks)
<1> DEFINE x == transport[n]
           a == arrived[n]
           k == taken[n]
<1>0. NodesOK(transport, arrived, taken, said, blocks) /\ now \in Nat
  BY DEF RadioInv
<1>1. /\ BoxOK(x, said, blocks) /\ Newest(x, a, k) /\ a \in Seq(Wires) /\ k \in Nat
      /\ taken = [taken EXCEPT ![n] = k]
  BY <1>0 DEF NodesOK
<1>2. CASE at_once
  <2> DEFINE y == Injected(x, t)
             c == Append(a, t)
  <2>1. transport' = [transport EXCEPT ![n] = y] /\ arrived' = [arrived EXCEPT ![n] = c]
    BY <1>2 DEF Hand
  <2> HIDE DEF x, a, k
  <2>2. BoxOK(y, said, blocks) /\ Newest(y, c, k)
    BY <1>1, BoxInjected
  <2>3. c \in Seq(Wires)
    BY <1>1 DEF Carried
  <2> HIDE DEF y, c
  <2>4. NodesOK([transport EXCEPT ![n] = y], [arrived EXCEPT ![n] = c], [taken EXCEPT ![n] = k], said, blocks)
    BY <1>0, <1>1, <2>2, <2>3, NodesUpdated
  <2> QED
    BY <1>1, <2>1, <2>4
<1>3. CASE ~at_once
  <2> DEFINE y == Scheduled(x, t, now)
  <2>1. transport' = [transport EXCEPT ![n] = y] /\ arrived' = arrived
    BY <1>3 DEF Hand
  <2> HIDE DEF x, a, k
  <2>2. BoxOK(y, said, blocks) /\ Newest(y, a, k)
    BY <1>0, <1>1, BoxScheduled
  <2> HIDE DEF y
  <2>4. NodesOK([transport EXCEPT ![n] = y], arrived, taken, said, blocks)
    BY <1>0, <2>2, NodesChanged DEF a, k
  <2> QED
    BY <2>1, <2>4
<1> QED
  BY <1>2, <1>3

-----------------------------------------------------------------------------
LEMMA HandedOver ==
    ASSUME RadioInv, NEW n \in Nodes, NEW t, Carried(t, said, blocks), NEW at_once \in BOOLEAN,
           Hand(n, t, at_once), taken' = taken, UNCHANGED <<now, blocks, said, heard>>,
           delivered' \in [Nodes -> [Nodes -> Nat]]
    PROVE  RadioInv'
<1>1. NodesOK(transport', arrived', taken', said, blocks)
  BY HandKeeps
<1>2. now' = now /\ blocks' = blocks /\ said' = said /\ heard' = heard
  OBVIOUS
<1> QED
  BY <1>1, <1>2 DEF RadioInv

LEMMA DeliverKeeps ==
    ASSUME RadioInv, NEW n \in Nodes, NEW m \in Nodes, NEW at_once \in BOOLEAN, Deliver(n, m, at_once)
    PROVE  RadioInv'
<1> DEFINE d == delivered[n][m]
           t == transport[n].outbox[d + 1]
<1>1. /\ d < Len(transport[n].outbox) /\ Hand(m, t, at_once)
      /\ delivered' = [delivered EXCEPT ![n][m] = @ + 1]
      /\ UNCHANGED <<now, blocks, said, heard>> /\ taken' = taken
  BY DEF Deliver
<1>2. delivered \in [Nodes -> [Nodes -> Nat]] /\ d \in Nat
  BY DEF RadioInv
<1>3. delivered' \in [Nodes -> [Nodes -> Nat]]
  <2>1. [delivered[n] EXCEPT ![m] = @ + 1] \in [Nodes -> Nat]
    BY <1>2
  <2>2. delivered' = [delivered EXCEPT ![n] = [delivered[n] EXCEPT ![m] = @ + 1]]
    BY <1>1, <1>2
  <2> QED
    BY <1>2, <2>1, <2>2
<1>4. BoxOK(transport[n], said, blocks)
  BY DEF RadioInv, NodesOK
<1> DEFINE l == Len(transport[n].outbox)
<1>5. l \in Nat
  BY <1>4, BoxShape DEF BoxOK
<1> HIDE DEF l
<1>6. d + 1 \in 1 .. l
  BY <1>1, <1>2, <1>5 DEF l
<1>7. Carried(t, said, blocks)
  BY <1>4, <1>6 DEF BoxOK, l
<1> HIDE DEF t
<1> QED
  BY <1>1, <1>3, <1>7, HandedOver

LEMMA FaultKeeps ==
    ASSUME RadioInv, NEW n \in Nodes, NEW m \in Nodes, NEW at_once \in BOOLEAN, Fault(n, m, at_once)
    PROVE  RadioInv'
<1>1. PICK i \in 1 .. Len(transport[n].outbox) :
        \E t \in Garbled(transport[n].outbox[i]) \cup {transport[n].outbox[i]} : Hand(m, t, at_once)
  BY DEF Fault
<1> DEFINE s == transport[n].outbox[i]
<1>2. PICK t \in Garbled(s) \cup {s} : Hand(m, t, at_once)
  BY <1>1
<1>3. Carried(s, said, blocks)
  BY DEF RadioInv, NodesOK, BoxOK
<1>4. Carried(t, said, blocks)
  BY <1>2, <1>3, GarbledIsCarried
<1>5. /\ UNCHANGED <<now, blocks, said, heard>> /\ taken' = taken
      /\ delivered' \in [Nodes -> [Nodes -> Nat]]
  BY DEF Fault, RadioInv
<1> QED
  BY <1>2, <1>4, <1>5, HandedOver

(* What a node sends of its own. *)
LEMMA SaidAndSent ==
    ASSUME RadioInv, NEW n \in Nodes, NEW m \in Msgs, NEW result,
           Send(n, transport[n], Envelope(n, m), result),
           said' = [said EXCEPT ![n] = @ \cup {m}],
           NEW B \in SUBSET Signable, blocks \subseteq B, blocks' = B, SignedBefore(m.block, B),
           UNCHANGED <<now, delivered, heard, arrived, taken>>
    PROVE  RadioInv'
<1> DEFINE x == transport[n]
           w == Broadcast(n, Envelope(n, m))
           y == AfterSend(x, w, result)
<1>0. /\ History(said, blocks) /\ HeardOK(heard, said, blocks)
      /\ NodesOK(transport, arrived, taken, said, blocks)
  BY DEF RadioInv
<1>1. transport' = [transport EXCEPT ![n] = y]
  BY DEF Send
<1>2. /\ History(said', blocks') /\ Grows(said, blocks, said', blocks') /\ m \in said'[n]
  BY <1>0, SaysMore DEF History, Grows
<1>3. Carried(w, said', blocks')
  BY <1>2, SentIsCarried
<1>4. NodesOK(transport, arrived, taken, said', blocks') /\ HeardOK(heard, said', blocks')
  BY <1>0, <1>2, NodesGrow, HeardGrows
<1>5. BoxOK(x, said', blocks') /\ Newest(x, arrived[n], taken[n])
  BY <1>4 DEF NodesOK
<1> HIDE DEF w
<1>6. BoxOK(y, said', blocks') /\ Newest(y, arrived[n], taken[n])
  <2> DEFINE a == arrived[n]
             k == taken[n]
  <2> HIDE DEF x, a, k
  <2>1. Newest(x, a, k)
    BY <1>5 DEF a, k
  <2>2. BoxOK(y, said', blocks') /\ Newest(y, a, k)
    BY <1>3, <1>5, <2>1, BoxSent
  <2> QED
    BY <2>2 DEF a, k
<1> HIDE DEF y
<1>7. NodesOK([transport EXCEPT ![n] = y], arrived, taken, said', blocks')
  BY <1>4, <1>6, NodesChanged
<1> QED
  BY <1>1, <1>2, <1>4, <1>7 DEF RadioInv

LEMMA TellKeeps ==
    ASSUME RadioInv, NEW n \in Nodes, NEW o \in Originals, NEW result, Tell(n, o, result)
    PROVE  RadioInv'
<1> DEFINE m == [kind |-> o.kind, size |-> o.size, hops |-> 0, block |-> NoBlock]
<1>1. /\ Send(n, transport[n], Envelope(n, m), result) /\ said' = [said EXCEPT ![n] = @ \cup {m}]
      /\ blocks' = blocks /\ UNCHANGED <<now, delivered, heard, arrived, taken>>
  BY DEF Tell
<1>2. m \in Msgs /\ SignedBefore(m.block, blocks)
  BY DEF Msgs, NoBlock, SignedBefore
<1> HIDE DEF m
<1>3. blocks \in SUBSET Signable /\ blocks \subseteq blocks
  BY DEF RadioInv, History
<1> QED
  BY <1>1, <1>2, <1>3, SaidAndSent

LEMMA AnnounceKeeps ==
    ASSUME RadioInv, NEW n \in Nodes, NEW o \in Originals, NEW b \in Signable, NEW result,
           Announce(n, b, o, result)
    PROVE  RadioInv'
<1> DEFINE m == [kind |-> o.kind, size |-> o.size, hops |-> o.hops, block |-> ToCompact(b)]
           B == blocks \cup {b}
<1>0. B \in SUBSET Signable /\ blocks \subseteq B /\ b \in B
  BY DEF RadioInv, History
<1>1. /\ blocks' = B /\ UNCHANGED <<now, delivered, heard, arrived, taken>>
      /\ \/ ToCompact(b) = Fail /\ UNCHANGED <<transport, said>>
         \/ /\ ToCompact(b) # Fail
            /\ Send(n, transport[n], Envelope(n, m), result) /\ said' = [said EXCEPT ![n] = @ \cup {m}]
  BY DEF Announce
<1>2. CASE ToCompact(b) = Fail /\ UNCHANGED <<transport, said>>
  <2>1. History(said', blocks') /\ Grows(said, blocks, said', blocks')
    BY <1>0, <1>1, <1>2 DEF RadioInv, History, Grows
  <2>2. NodesOK(transport, arrived, taken, said', blocks') /\ HeardOK(heard, said', blocks')
    BY <2>1, NodesGrow, HeardGrows DEF RadioInv
  <2> QED
    BY <1>1, <1>2, <2>1, <2>2 DEF RadioInv
<1>3. CASE /\ ToCompact(b) # Fail
           /\ Send(n, transport[n], Envelope(n, m), result) /\ said' = [said EXCEPT ![n] = @ \cup {m}]
  <2>1. ToCompact(b) \in Compact /\ ToCompact(b).signature = b.signature
    BY <1>3, WrittenBytes
  <2>2. SignedBefore(ToCompact(b), B)
    BY <1>0, <2>1 DEF SignedBefore
  <2>3. m \in Msgs /\ SignedBefore(m.block, B)
    BY <2>1, <2>2, RadioAssumption DEF Msgs
  <2> HIDE DEF m, B
  <2> QED
    BY <1>0, <1>1, <1>3, <2>3, SaidAndSent
<1> QED
  BY <1>1, <1>2, <1>3

LEMMA RadioStarts ==
    ASSUME RadioInit
    PROVE  RadioInv
<1>1. History(said, blocks)
  BY DEF RadioInit, History
<1>2. HeardOK(heard, said, blocks)
  BY DEF RadioInit, HeardOK
<1>3. New = Box(<<>>, <<>>, <<>>, 0)
  BY DEF New, Box
<1>4. New \in Boxes /\ New.inbox = <<>> /\ New.scheduled_inbox = <<>> /\ New.outbox = <<>>
      /\ New.inbox_dropped = 0
  <2>1. <<>> \in Seq(Wires) /\ <<>> \in Seq(Parcels) /\ 0 \in Nat
    OBVIOUS
  <2> DEFINE e == <<>>
  <2> HIDE DEF e
  <2>2. e \in Seq(Wires) /\ e \in Seq(Parcels) /\ New = Box(e, e, e, 0)
    BY <1>3, <2>1 DEF e
  <2>3. New \in Boxes /\ New.inbox = e /\ New.scheduled_inbox = e /\ New.outbox = e /\ New.inbox_dropped = 0
    BY <2>1, <2>2, BoxTyped
  <2> QED
    BY <2>3 DEF e
<1>5. BoxOK(New, said, blocks)
  BY <1>4 DEF BoxOK
<1>6. Newest(New, <<>>, 0)
  BY <1>4, TransportAssumption DEF Newest, Saturated
<1>7. NodesOK(transport, arrived, taken, said, blocks)
  <2>1. transport \in [Nodes -> Boxes] /\ arrived \in [Nodes -> Seq(Wires)] /\ taken \in [Nodes -> Nat]
    BY <1>4 DEF RadioInit
  <2>2. \A n \in Nodes : transport[n] = New /\ arrived[n] = <<>> /\ taken[n] = 0
    BY DEF RadioInit
  <2> QED
    BY <1>5, <1>6, <2>1, <2>2 DEF NodesOK
<1>8. now \in Nat /\ delivered \in [Nodes -> [Nodes -> Nat]]
  BY DEF RadioInit
<1> QED
  BY <1>1, <1>2, <1>7, <1>8 DEF RadioInv

LEMMA RadioStep ==
    ASSUME RadioInv, [RadioNext]_radioVars
    PROVE  RadioInv'
<1>1. CASE UNCHANGED radioVars
  BY <1>1 DEF RadioInv, radioVars
<1>2. ASSUME NEW n \in Nodes, NEW anew \in BOOLEAN, NEW result \in Results,
             Recv(n, anew, result) \/ RecvAt(n, anew, result)
      PROVE  RadioInv'
  BY <1>2, RecvKeeps, RecvAtKeeps
<1>3. ASSUME NEW n \in Nodes, NEW m \in Nodes, NEW at_once \in BOOLEAN,
             Deliver(n, m, at_once) \/ Fault(n, m, at_once)
      PROVE  RadioInv'
  BY <1>3, DeliverKeeps, FaultKeeps
<1>4. CASE Tick
  <2>1. now' \in Nat
    BY <1>4 DEF Tick, RadioInv
  <2> QED
    BY <1>4, <2>1 DEF Tick, RadioInv
<1>5. ASSUME NEW n \in Beginners, NEW o \in Originals, NEW result \in Results,
             NEW b \in {Opening(n)} \cup {Payment(n, p) : p \in Parties \ {Hex(n)}},
             Announce(n, b, o, result)
      PROVE  RadioInv'
  <2>1. n \in Nodes
    BY RadioAssumption
  <2>2. b \in Signable
    BY <2>1 DEF Signable
  <2> QED
    BY <1>5, <2>1, <2>2, AnnounceKeeps
<1>6. ASSUME NEW n \in Beginners, NEW o \in Originals, NEW result \in Results, Tell(n, o, result)
      PROVE  RadioInv'
  BY <1>6, RadioAssumption, TellKeeps
<1> QED
  BY <1>1, <1>2, <1>3, <1>4, <1>5, <1>6 DEF RadioNext, Work

(* Signatures cannot be made by others: RadioInv says so of everything on the air and in
   every queue, and ties each inbox to what was injected. *)
THEOREM RadioInvariance == RadioSpec => []RadioInv
BY RadioStarts, RadioStep, PTL DEF RadioSpec

(* A node acts only on what was said, as it was said: for any carrier that can repeat,
   delay and garble, but not sign. *)
THEOREM OnlyTheSaidIsHeard == RadioSpec => []HeardAsSaid
<1>1. RadioInv => HeardAsSaid
  BY DEF RadioInv, HeardOK, TrueReport, HeardAsSaid
<1> QED
  BY <1>1, RadioInvariance, PTL

(* try_recv returns the newest messages injected, in order, and the counters tell
   exactly how many are gone. *)
THEOREM InboxKeepsTheNewest == RadioSpec => []InboxIsNewest
<1>1. ASSUME RadioInv PROVE InboxIsNewest
  <2> SUFFICES ASSUME NEW n \in Nodes
               PROVE  LET in == transport[n].inbox IN
                      /\ in = SubSeq(arrived[n], Len(arrived[n]) - Len(in) + 1, Len(arrived[n]))
                      /\ transport[n].inbox_dropped =
                            LET gone == Len(arrived[n]) - Len(in) - taken[n]
                            IN IF gone > MaxTime THEN MaxTime ELSE gone
    BY DEF InboxIsNewest
  <2> DEFINE x == transport[n]
             in == x.inbox
             a == arrived[n]
             k == taken[n]
             l == Len(in)
             L == Len(a)
             z == SubSeq(a, L - l + 1, L)
  <2>1. BoxOK(x, said, blocks) /\ Newest(x, a, k) /\ a \in Seq(Wires) /\ k \in Nat
    BY <1>1 DEF RadioInv, NodesOK
  <2>2. in \in Seq(Wires) /\ l \in Nat
    BY <2>1, BoxShape DEF BoxOK
  <2>3. L \in Nat
    BY <2>1
  <2>4. /\ l + k <= L /\ x.inbox_dropped = Saturated(L - l - k)
        /\ \A i \in 1 .. l : in[i] = a[L - l + i]
    BY <2>1 DEF Newest
  <2> HIDE DEF x, in, a, k, l, L
  <2>5. L - l + 1 \in 1 .. L + 1 /\ L - (L - l + 1) + 1 = l /\ l <= L
    BY <2>1, <2>2, <2>3, <2>4
  <2>6. z \in Seq(Wires) /\ Len(z) = l /\ \A i \in 1 .. l : z[i] = a[L - l + i]
    <3>1. \A i \in L - l + 1 .. L : a[i] \in Wires
      BY <2>1, <2>2, <2>3, <2>5 DEF L
    <3> QED
      BY <2>1, <2>2, <2>3, <2>5 DEF L
  <2> HIDE DEF z
  <2>7. in = z
    <3>1. Len(in) = Len(z) /\ \A i \in 1 .. Len(in) : in[i] = z[i]
      BY <2>4, <2>6 DEF l
    <3> QED
      BY <2>2, <2>6, <3>1, SeqEqual
  <2>8. x.inbox_dropped = LET gone == L - l - k IN IF gone > MaxTime THEN MaxTime ELSE gone
    BY <2>4 DEF Saturated
  <2> QED
    BY <2>7, <2>8 DEF x, in, a, k, l, L, z
<1> QED
  BY <1>1, RadioInvariance, PTL
=============================================================================
