--------------------------- MODULE ReplicasProofs ---------------------------
(***************************************************************************)
(* What Replicas promises, for any finite set of replicas and any number   *)
(* of updates.  The inductive invariant says of everything a replica may   *)
(* hold or have published, its views, what the history of updates makes    *)
(* of it.                                                                  *)
(***************************************************************************)
EXTENDS Replicas, SumsProofs, SequenceTheorems

Update ==
    [kind : {"add"}, element : Elements, tag : Tags]
      \cup [kind : {"remove"}, element : Elements, observed : SUBSET Tags]
      \cup [kind : {"credit", "debit"}, amount : Amounts]

Histories == [Replicas -> Seq(Update)]

(* The numbers of the updates of replica q in S. *)
Of(S, q) == {i \in Nat : <<q, i>> \in S}

Weight(ups, q, kind) ==
    [i \in 1 .. Len(ups[q]) |-> IF ups[q][i].kind = kind THEN ups[q][i].amount ELSE 0]

(* What the updates of q in S add up to, of one kind. *)
Count(ups, S, q, kind) == SumOver(Weight(ups, q, kind), Of(S, q))

(* The parts of a view: S is what it has seen, of each replica the first so many
   updates; f a half of its counter; c its clock; el its set. *)
SeenOK(ups, S) ==
    /\ S \in SUBSET (Replicas \X Nat)
    /\ \A q \in Replicas : \E k \in 0 .. Len(ups[q]) : Of(S, q) = 1 .. k
CountOK(ups, S, f, kind) ==
    /\ f \in [Replicas -> Nat]
    /\ \A q \in Replicas : f[q] = Saturated64(Count(ups, S, q, kind))
ClockOK(ups, clean, S, c) ==
    /\ c \in [Replicas -> Nat]
    /\ \A q \in Replicas : c[q] <= Len(ups[q])
    /\ clean => \A q \in Replicas : Of(S, q) = 1 .. c[q]
AddsOK(ups, S, el) ==
    /\ el \in [Elements -> SUBSET Tags]
    /\ \A u \in S :
         LET a == ups[u[1]][u[2]] IN
         a.kind = "add" /\ a.tag \notin el[a.element] =>
           \E v \in S : LET d == ups[v[1]][v[2]] IN
             d.kind = "remove" /\ d.element = a.element /\ a.tag \in d.observed

View(ups, clean, S, P, N, c, el) ==
    /\ SeenOK(ups, S)
    /\ CountOK(ups, S, P, "credit")
    /\ CountOK(ups, S, N, "debit")
    /\ ClockOK(ups, clean, S, c)
    /\ AddsOK(ups, S, el)

-----------------------------------------------------------------------------
(* A view stays right when a replica makes one more update. *)

Extended(ups, r, x) == [ups EXCEPT ![r] = Append(@, x)]

LEMMA ExtendedHistory ==
    ASSUME NEW ups \in Histories, NEW r \in Replicas, NEW x \in Update
    PROVE  /\ Extended(ups, r, x) \in Histories
           /\ \A q \in Replicas : /\ Len(ups[q]) \in Nat
                                  /\ Len(Extended(ups, r, x)[q]) = IF q = r THEN Len(ups[q]) + 1 ELSE Len(ups[q])
                                  /\ \A i \in 1 .. Len(ups[q]) : Extended(ups, r, x)[q][i] = ups[q][i]
           /\ Extended(ups, r, x)[r][Len(ups[r]) + 1] = x
BY DEF Histories, Extended

LEMMA WeightIsNatural ==
    ASSUME NEW ups \in Histories, NEW q \in Replicas, NEW kind \in {"credit", "debit"},
           NEW i \in 1 .. Len(ups[q])
    PROVE  Weight(ups, q, kind)[i] \in Nat
<1>1. ups[q][i] \in Update
  BY DEF Histories
<1>2. ups[q][i].kind = kind => ups[q][i].amount \in Nat
  BY <1>1, ReplicasAssumption DEF Update
<1> QED
  BY <1>2 DEF Weight

LEMMA CountStays ==
    ASSUME NEW ups \in Histories, NEW r \in Replicas, NEW x \in Update, NEW S, SeenOK(ups, S),
           NEW q \in Replicas, NEW kind
    PROVE  Count(Extended(ups, r, x), S, q, kind) = Count(ups, S, q, kind)
<1> DEFINE f == Weight(ups, q, kind)
           g == Weight(Extended(ups, r, x), q, kind)
           A == Of(S, q)
<1>1. PICK k \in 0 .. Len(ups[q]) : A = 1 .. k
  BY DEF SeenOK
<1>2. IsFiniteSet(A) /\ Len(ups[q]) \in Nat
  BY <1>1, FS_Interval, ExtendedHistory
<1>3. \A i \in A : f[i] = g[i]
  BY <1>1, <1>2, ExtendedHistory DEF Weight
<1> HIDE DEF f, g, A
<1>4. SumOver(f, A) = SumOver(g, A)
  BY <1>2, <1>3, SumAgree
<1> QED
  BY <1>4 DEF Count, f, g, A

LEMMA ViewStays ==
    ASSUME NEW ups \in Histories, NEW r \in Replicas, NEW x \in Update,
           NEW clean, NEW S, NEW P, NEW N, NEW c, NEW el, View(ups, clean, S, P, N, c, el)
    PROVE  View(Extended(ups, r, x), clean, S, P, N, c, el)
<1> DEFINE e == Extended(ups, r, x)
<1>1. \A q \in Replicas : /\ Len(ups[q]) \in Nat
                          /\ Len(e[q]) \in Nat
                          /\ Len(ups[q]) <= Len(e[q])
                          /\ \A i \in 1 .. Len(ups[q]) : e[q][i] = ups[q][i]
  BY ExtendedHistory
<1>2. SeenOK(ups, S)
  BY DEF View
<1>3. SeenOK(e, S)
  <2> HIDE DEF e
  <2> QED
    BY <1>1, <1>2 DEF SeenOK
<1>4. \A q \in Replicas, kind \in {"credit", "debit"} : Count(e, S, q, kind) = Count(ups, S, q, kind)
  BY <1>2, CountStays
<1>5. CountOK(e, S, P, "credit") /\ CountOK(e, S, N, "debit")
  <2> HIDE DEF e
  <2> QED
    BY <1>4 DEF View, CountOK
<1>6. ClockOK(e, clean, S, c)
  <2> HIDE DEF e
  <2> QED
    BY <1>1 DEF View, ClockOK
<1>7. \A u \in S : e[u[1]][u[2]] = ups[u[1]][u[2]]
  <2> HIDE DEF e
  <2> TAKE u \in S
  <2>1. PICK q \in Replicas, i \in Nat : u = <<q, i>>
    BY <1>2 DEF SeenOK
  <2>2. PICK k \in 0 .. Len(ups[q]) : Of(S, q) = 1 .. k
    BY <1>2 DEF SeenOK
  <2>3. i \in 1 .. k
    BY <2>1, <2>2 DEF Of
  <2> QED
    BY <1>1, <2>1, <2>2, <2>3
<1>8. AddsOK(e, S, el)
  <2> HIDE DEF e
  <2> QED
    BY <1>7 DEF View, AddsOK
<1> QED
  BY <1>3, <1>5, <1>6, <1>8 DEF View

-----------------------------------------------------------------------------
(* The join of two views is a view. *)

LEMMA CountGrows ==
    ASSUME NEW ups \in Histories, NEW q \in Replicas, NEW kind \in {"credit", "debit"},
           NEW k \in 0 .. Len(ups[q]), NEW m \in 0 .. Len(ups[q]), k <= m
    PROVE  /\ SumOver(Weight(ups, q, kind), 1 .. k) \in Nat
           /\ SumOver(Weight(ups, q, kind), 1 .. m) \in Nat
           /\ SumOver(Weight(ups, q, kind), 1 .. k) <= SumOver(Weight(ups, q, kind), 1 .. m)
<1> DEFINE A == 1 .. k
           B == 1 .. m
           w == Weight(ups, q, kind)
<1>0. Len(ups[q]) \in Nat
  BY DEF Histories
<1>1. IsFiniteSet(B) /\ A \in SUBSET B
  BY <1>0, FS_Interval
<1>2. \A i \in B : w[i] \in Nat
  BY <1>0, WeightIsNatural
<1> HIDE DEF A, B, w
<1>3. SumOver(w, A) <= SumOver(w, B) /\ SumOver(w, A) \in Nat /\ SumOver(w, B) \in Nat
  <2>1. \A i \in A : w[i] \in Nat /\ w[i] <= w[i]
    BY <1>1, <1>2
  <2> QED
    BY <1>1, <1>2, <2>1, SumMonotonic
<1> QED
  BY <1>3 DEF A, B, w

LEMMA SaturatedGrows ==
    ASSUME NEW a \in Nat, NEW b \in Nat, a <= b
    PROVE  /\ Saturated64(a) \in 0 .. MaxU64 /\ Saturated64(b) \in 0 .. MaxU64
           /\ Saturated64(a) <= Saturated64(b)
BY CrdtAssumption DEF Saturated64

LEMMA SeenJoined ==
    ASSUME NEW ups \in Histories, NEW S, SeenOK(ups, S), NEW T, SeenOK(ups, T)
    PROVE  /\ SeenOK(ups, S \cup T)
           /\ \A q \in Replicas : Of(S \cup T, q) = Of(S, q) \cup Of(T, q)
<1>1. \A q \in Replicas : Of(S \cup T, q) = Of(S, q) \cup Of(T, q)
  BY DEF Of
<1>2. ASSUME NEW q \in Replicas
      PROVE  \E k \in 0 .. Len(ups[q]) : Of(S \cup T, q) = 1 .. k
  <2>1. PICK k \in 0 .. Len(ups[q]) : Of(S, q) = 1 .. k
    BY DEF SeenOK
  <2>2. PICK m \in 0 .. Len(ups[q]) : Of(T, q) = 1 .. m
    BY DEF SeenOK
  <2>3. Len(ups[q]) \in Nat
    BY DEF Histories
  <2>4. (1 .. k) \cup (1 .. m) = 1 .. (IF k <= m THEN m ELSE k)
    BY <2>3
  <2> QED
    BY <1>1, <2>1, <2>2, <2>4
<1> QED
  BY <1>1, <1>2 DEF SeenOK

LEMMA CountJoined ==
    ASSUME NEW ups \in Histories, NEW S, SeenOK(ups, S), NEW T, SeenOK(ups, T),
           NEW kind \in {"credit", "debit"},
           NEW f, CountOK(ups, S, f, kind), NEW g, CountOK(ups, T, g, kind)
    PROVE  CountOK(ups, S \cup T, JoinMax(f, g), kind)
<1>1. ASSUME NEW q \in Replicas
      PROVE  JoinMax(f, g)[q] = Saturated64(Count(ups, S \cup T, q, kind))
  <2>1. PICK k \in 0 .. Len(ups[q]) : Of(S, q) = 1 .. k
    BY DEF SeenOK
  <2>2. PICK m \in 0 .. Len(ups[q]) : Of(T, q) = 1 .. m
    BY DEF SeenOK
  <2>a. Of(S \cup T, q) = Of(S, q) \cup Of(T, q)
    BY SeenJoined
  <2>3. Len(ups[q]) \in Nat /\ Of(S \cup T, q) = (1 .. k) \cup (1 .. m)
    <3>1. Len(ups[q]) \in Nat
      BY DEF Histories
    <3> QED
      BY <2>a, <2>1, <2>2, <3>1
  <2>4. JoinMax(f, g)[q] = IF f[q] > g[q] THEN f[q] ELSE g[q]
    BY DEF JoinMax, CountOK
  <2> DEFINE w == Weight(ups, q, kind)
             x == SumOver(w, 1 .. k)
             y == SumOver(w, 1 .. m)
  <2>5. f[q] = Saturated64(x) /\ g[q] = Saturated64(y)
    BY <2>1, <2>2 DEF CountOK, Count
  <2>6. CASE k <= m
    <3>1. Of(S \cup T, q) = 1 .. m
      <4>1. (1 .. k) \cup (1 .. m) = 1 .. m
        BY <2>3, <2>6
      <4> QED
        BY <4>1, <2>3
    <3>2. x \in Nat /\ y \in Nat /\ x <= y
      BY <2>6, CountGrows
    <3>3. Count(ups, S \cup T, q, kind) = y
      BY <3>1 DEF Count
    <3> HIDE DEF x, y
    <3>4. f[q] \in Int /\ g[q] \in Int /\ f[q] <= g[q]
      BY <2>5, <3>2, SaturatedGrows
    <3> QED
      BY <2>4, <2>5, <3>3, <3>4
  <2>7. CASE m <= k
    <3>1. Of(S \cup T, q) = 1 .. k
      <4>1. (1 .. k) \cup (1 .. m) = 1 .. k
        BY <2>3, <2>7
      <4> QED
        BY <4>1, <2>3
    <3>2. x \in Nat /\ y \in Nat /\ y <= x
      BY <2>7, CountGrows
    <3>3. Count(ups, S \cup T, q, kind) = x
      BY <3>1 DEF Count
    <3> HIDE DEF x, y
    <3>4. f[q] \in Int /\ g[q] \in Int /\ g[q] <= f[q]
      BY <2>5, <3>2, SaturatedGrows
    <3> QED
      BY <2>4, <2>5, <3>3, <3>4
  <2> QED
    BY <2>3, <2>6, <2>7
<1>2. JoinMax(f, g) \in [Replicas -> Nat]
  BY DEF JoinMax, CountOK
<1> QED
  BY <1>1, <1>2 DEF CountOK

LEMMA ClockJoined ==
    ASSUME NEW ups \in Histories, NEW clean, NEW S, SeenOK(ups, S), NEW T, SeenOK(ups, T),
           NEW c, ClockOK(ups, clean, S, c), NEW d, ClockOK(ups, clean, T, d)
    PROVE  ClockOK(ups, clean, S \cup T, JoinMax(c, d))
<1>1. JoinMax(c, d) \in [Replicas -> Nat]
      /\ \A q \in Replicas : JoinMax(c, d)[q] = IF c[q] > d[q] THEN c[q] ELSE d[q]
  BY DEF JoinMax, ClockOK
<1>2. \A q \in Replicas : JoinMax(c, d)[q] <= Len(ups[q])
  BY <1>1 DEF ClockOK
<1>3. ASSUME clean, NEW q \in Replicas
      PROVE  Of(S \cup T, q) = 1 .. JoinMax(c, d)[q]
  <2>1. Of(S \cup T, q) = (1 .. c[q]) \cup (1 .. d[q])
    <3>1. Of(S \cup T, q) = Of(S, q) \cup Of(T, q)
      BY SeenJoined
    <3> QED
      BY <1>3, <3>1 DEF ClockOK
  <2>2. c[q] \in Nat /\ d[q] \in Nat
    BY DEF ClockOK
  <2>3. (1 .. c[q]) \cup (1 .. d[q]) = 1 .. (IF c[q] > d[q] THEN c[q] ELSE d[q])
    BY <2>2
  <2> QED
    BY <1>1, <2>1, <2>3
<1> QED
  BY <1>1, <1>2, <1>3 DEF ClockOK

LEMMA MadeIsUpdate ==
    ASSUME NEW ups \in Histories, NEW S, SeenOK(ups, S), NEW u \in S
    PROVE  /\ u[1] \in Replicas /\ u[2] \in 1 .. Len(ups[u[1]]) /\ u = <<u[1], u[2]>>
           /\ ups[u[1]][u[2]] \in Update
<1>1. PICK q \in Replicas, i \in Nat : u = <<q, i>>
  BY DEF SeenOK
<1>2. PICK k \in 0 .. Len(ups[q]) : Of(S, q) = 1 .. k
  BY DEF SeenOK
<1>3. i \in 1 .. k /\ Len(ups[q]) \in Nat
  BY <1>1, <1>2 DEF Of, Histories
<1> QED
  BY <1>1, <1>2, <1>3 DEF Histories

LEMMA AddsJoined ==
    ASSUME NEW ups \in Histories, NEW S, SeenOK(ups, S), NEW T, SeenOK(ups, T),
           NEW a, AddsOK(ups, S, a), NEW b, AddsOK(ups, T, b)
    PROVE  AddsOK(ups, S \cup T, Union(a, b))
<1>1. Union(a, b) \in [Elements -> SUBSET Tags] /\ \A e \in Elements : Union(a, b)[e] = a[e] \cup b[e]
  BY DEF Union, AddsOK
<1>2. \A u \in S \cup T : ups[u[1]][u[2]].kind = "add" => ups[u[1]][u[2]].element \in Elements
  <2> TAKE u \in S \cup T
  <2>1. ups[u[1]][u[2]] \in Update
    BY MadeIsUpdate
  <2> QED
    BY <2>1 DEF Update
<1> QED
  BY <1>1, <1>2 DEF AddsOK

LEMMA ViewsJoin ==
    ASSUME NEW ups \in Histories, NEW clean,
           NEW S, NEW P, NEW N, NEW c, NEW el, View(ups, clean, S, P, N, c, el),
           NEW T, NEW Q, NEW M, NEW d, NEW al, View(ups, clean, T, Q, M, d, al)
    PROVE  View(ups, clean, S \cup T, JoinMax(P, Q), JoinMax(N, M), JoinMax(c, d), Union(el, al))
<1>1. SeenOK(ups, S) /\ SeenOK(ups, T)
  BY DEF View
<1>2. SeenOK(ups, S \cup T)
  BY <1>1, SeenJoined
<1>3. CountOK(ups, S \cup T, JoinMax(P, Q), "credit")
  BY <1>1, CountJoined DEF View
<1>4. CountOK(ups, S \cup T, JoinMax(N, M), "debit")
  BY <1>1, CountJoined DEF View
<1>5. ClockOK(ups, clean, S \cup T, JoinMax(c, d))
  BY <1>1, ClockJoined DEF View
<1>6. AddsOK(ups, S \cup T, Union(el, al))
  BY <1>1, AddsJoined DEF View
<1> QED
  BY <1>2, <1>3, <1>4, <1>5, <1>6 DEF View

-----------------------------------------------------------------------------
(* A replica's own view stays right when the replica makes an update. *)

WithOwn(ups, S, r) == S \cup {<<r, Len(ups[r]) + 1>>}

LEMMA SeenOwn ==
    ASSUME NEW ups \in Histories, NEW r \in Replicas, NEW x \in Update,
           NEW S, SeenOK(ups, S), Of(S, r) = 1 .. Len(ups[r])
    PROVE  /\ SeenOK(Extended(ups, r, x), WithOwn(ups, S, r))
           /\ Of(WithOwn(ups, S, r), r) = 1 .. Len(ups[r]) + 1
           /\ \A q \in Replicas : q # r => Of(WithOwn(ups, S, r), q) = Of(S, q)
<1> DEFINE e == Extended(ups, r, x)
           W == WithOwn(ups, S, r)
           L == Len(ups[r])
<1>1. L \in Nat /\ Len(e[r]) = L + 1 /\ \A q \in Replicas : q # r => Len(e[q]) = Len(ups[q])
  BY ExtendedHistory
<1>2. Of(W, r) = 1 .. L + 1
  <2>1. Of(W, r) = Of(S, r) \cup {L + 1}
    BY <1>1 DEF Of, WithOwn
  <2>2. (1 .. L) \cup {L + 1} = 1 .. L + 1
    BY <1>1
  <2> HIDE DEF W
  <2> QED
    BY <2>1, <2>2
<1>3. \A q \in Replicas : q # r => Of(W, q) = Of(S, q)
  BY DEF Of, WithOwn
<1>4. W \in SUBSET (Replicas \X Nat)
  BY <1>1 DEF WithOwn, SeenOK
<1>5. \A q \in Replicas : \E k \in 0 .. Len(e[q]) : Of(W, q) = 1 .. k
  <2> HIDE DEF e, W
  <2> TAKE q \in Replicas
  <2>1. CASE q = r
    <3>1. L + 1 \in 0 .. Len(e[q])
      BY <1>1, <2>1
    <3> HIDE DEF L
    <3> QED
      BY <1>2, <2>1, <3>1
  <2>2. CASE q # r
    BY <1>1, <1>3, <2>2 DEF SeenOK
  <2> QED
    BY <2>1, <2>2
<1> QED
  BY <1>2, <1>3, <1>4, <1>5 DEF SeenOK

LEMMA CountOwn ==
    ASSUME NEW ups \in Histories, NEW r \in Replicas, NEW x \in Update,
           NEW S, SeenOK(ups, S), Of(S, r) = 1 .. Len(ups[r]),
           NEW kind \in {"credit", "debit"}
    PROVE  /\ Count(ups, S, r, kind) \in Nat
           /\ Count(Extended(ups, r, x), WithOwn(ups, S, r), r, kind) =
                Count(ups, S, r, kind) + IF x.kind = kind THEN x.amount ELSE 0
           /\ \A q \in Replicas \ {r} :
                Count(Extended(ups, r, x), WithOwn(ups, S, r), q, kind) = Count(ups, S, q, kind)
<1> DEFINE e == Extended(ups, r, x)
           W == WithOwn(ups, S, r)
           L == Len(ups[r])
           g == Weight(e, r, kind)
           A == 1 .. L
<1>1. L \in Nat /\ Len(e[r]) = L + 1 /\ e[r][L + 1] = x /\ e \in Histories
  BY ExtendedHistory
<1>2. Of(W, r) = A \cup {L + 1} /\ L + 1 \notin A
  <2>1. (1 .. L) \cup {L + 1} = 1 .. L + 1
    BY <1>1
  <2>2. Of(W, r) = 1 .. L + 1
    BY SeenOwn
  <2>3. L + 1 \notin A
    BY <1>1
  <2> QED
    BY <2>1, <2>2, <2>3
<1>3. \A i \in A \cup {L + 1} : g[i] \in Nat
  <2>1. \A i \in 1 .. Len(e[r]) : g[i] \in Nat
    BY <1>1, WeightIsNatural
  <2>2. A \cup {L + 1} \subseteq 1 .. Len(e[r])
    BY <1>1
  <2> QED
    BY <2>1, <2>2
<1>4. IsFiniteSet(A)
  BY <1>1, FS_Interval
<1>5. g[L + 1] = IF x.kind = kind THEN x.amount ELSE 0
  BY <1>1 DEF Weight
<1>6. Count(e, S, r, kind) = Count(ups, S, r, kind)
  BY CountStays
<1>7. Count(e, S, r, kind) = SumOver(g, A) /\ Count(e, W, r, kind) = SumOver(g, A \cup {L + 1})
  <2> HIDE DEF W, e
  <2> QED
    BY <1>2 DEF Count
<1>8. SumOver(g, A \cup {L + 1}) = g[L + 1] + SumOver(g, A) /\ SumOver(g, A) \in Nat
  <2> HIDE DEF A, g, L
  <2>1. \A i \in A \cup {L + 1} : g[i] \in Int
    BY <1>3
  <2> QED
    BY <1>2, <1>3, <1>4, <2>1, SumAdd, SumNat
<1>9. \A q \in Replicas \ {r} : Count(e, W, q, kind) = Count(ups, S, q, kind)
  <2> TAKE q \in Replicas \ {r}
  <2>1. Of(W, q) = Of(S, q)
    BY SeenOwn
  <2>2. Count(e, S, q, kind) = Count(ups, S, q, kind)
    BY CountStays
  <2> QED
    BY <2>1, <2>2 DEF Count
<1>10. g[L + 1] \in Nat
  BY <1>3
<1> HIDE DEF e, W, L, g, A
<1>11. /\ Count(ups, S, r, kind) \in Nat
       /\ Count(e, W, r, kind) = Count(ups, S, r, kind) + g[L + 1]
  BY <1>6, <1>7, <1>8, <1>10
<1> QED
  BY <1>5, <1>9, <1>11 DEF e, W

LEMMA CountOwnOK ==
    ASSUME NEW ups \in Histories, NEW r \in Replicas, NEW x \in Update,
           NEW S, SeenOK(ups, S), Of(S, r) = 1 .. Len(ups[r]),
           NEW kind \in {"credit", "debit"}, NEW f, CountOK(ups, S, f, kind)
    PROVE  CountOK(Extended(ups, r, x), WithOwn(ups, S, r),
                   IF x.kind = kind THEN Bump(f, r, x.amount) ELSE f, kind)
<1> DEFINE e == Extended(ups, r, x)
           W == WithOwn(ups, S, r)
<1>0. f \in [Replicas -> Nat] /\ \A q \in Replicas : f[q] = Saturated64(Count(ups, S, q, kind))
  BY DEF CountOK
<1>a. \A q \in Replicas \ {r} : Count(e, W, q, kind) = Count(ups, S, q, kind)
  BY CountOwn
<1>b. /\ Count(ups, S, r, kind) \in Nat
      /\ Count(e, W, r, kind) = Count(ups, S, r, kind) + IF x.kind = kind THEN x.amount ELSE 0
  BY CountOwn
<1> HIDE DEF e, W
<1>1. CASE x.kind # kind
  <2>1. Count(e, W, r, kind) = Count(ups, S, r, kind)
    BY <1>b, <1>1
  <2> QED
    BY <1>0, <1>a, <1>1, <2>1 DEF CountOK, e, W
<1>2. CASE x.kind = kind
  <2> DEFINE t == Count(ups, S, r, kind)
             h == Bump(f, r, x.amount)
  <2>1. x.amount \in Nat
    BY <1>2, ReplicasAssumption DEF Update
  <2>2. h[r] = Saturated64(Saturated64(t) + x.amount) /\ \A q \in Replicas \ {r} : h[q] = f[q]
    BY <1>0 DEF Bump
  <2>3. Count(e, W, r, kind) = t + x.amount
    BY <1>b, <1>2
  <2>4. Saturated64(Saturated64(t) + x.amount) = Saturated64(t + x.amount)
        /\ Saturated64(t + x.amount) \in Nat
    <3> HIDE DEF t
    <3>1. t \in Nat
      BY <1>b DEF t
    <3> QED
      BY <2>1, <3>1, CrdtAssumption DEF Saturated64
  <2>5. h \in [Replicas -> Nat]
    BY <1>0, <2>2, <2>4 DEF Bump
  <2> HIDE DEF h, t
  <2>6. \A q \in Replicas : h[q] = Saturated64(Count(e, W, q, kind))
    BY <1>0, <1>a, <2>2, <2>3, <2>4
  <2>7. CountOK(e, W, h, kind)
    BY <2>5, <2>6 DEF CountOK
  <2> QED
    BY <1>2, <2>7 DEF h, e, W
<1> QED
  BY <1>1, <1>2

LEMMA ClockOwn ==
    ASSUME NEW ups \in Histories, NEW r \in Replicas, NEW x \in Update,
           NEW S, SeenOK(ups, S), Of(S, r) = 1 .. Len(ups[r]),
           NEW clean, NEW c, ClockOK(ups, clean, S, c)
    PROVE  ClockOK(Extended(ups, r, x), clean, WithOwn(ups, S, r), Ticked(c, r))
<1> DEFINE e == Extended(ups, r, x)
           W == WithOwn(ups, S, r)
           d == Ticked(c, r)
<1>1. \A q \in Replicas : /\ Len(ups[q]) \in Nat
                          /\ Len(e[q]) = IF q = r THEN Len(ups[q]) + 1 ELSE Len(ups[q])
  BY ExtendedHistory
<1>2. d \in [Replicas -> Nat] /\ \A q \in Replicas : d[q] = IF q = r THEN c[q] + 1 ELSE c[q]
  BY DEF Ticked, ClockOK
<1>3. Of(W, r) = 1 .. Len(ups[r]) + 1 /\ \A q \in Replicas : q # r => Of(W, q) = Of(S, q)
  BY SeenOwn
<1> HIDE DEF e, W, d
<1>4. \A q \in Replicas : d[q] <= Len(e[q])
  BY <1>1, <1>2 DEF ClockOK
<1>5. ASSUME clean, NEW q \in Replicas
      PROVE  Of(W, q) = 1 .. d[q]
  <2>1. CASE q = r
    <3>1. 1 .. c[r] = 1 .. Len(ups[r])
      BY <1>5 DEF ClockOK
    <3>2. c[r] = Len(ups[r])
      BY <1>1, <3>1 DEF ClockOK
    <3> QED
      BY <1>2, <1>3, <2>1, <3>2
  <2>2. CASE q # r
    BY <1>2, <1>3, <1>5, <2>2 DEF ClockOK
  <2> QED
    BY <2>1, <2>2
<1>6. ClockOK(e, clean, W, d)
  BY <1>2, <1>4, <1>5 DEF ClockOK
<1> QED
  BY <1>6 DEF e, W, d

(* What an update makes of the set of its replica. *)
Affected(el, x) ==
    CASE x.kind = "add"    -> WithTag(el, x.element, x.tag)
      [] x.kind = "remove" -> Without(el, x.element)
      [] OTHER             -> el

LEMMA AddsOwn ==
    ASSUME NEW ups \in Histories, NEW r \in Replicas, NEW x \in Update,
           NEW S, SeenOK(ups, S), NEW el, AddsOK(ups, S, el),
           x.kind = "remove" => x.observed = el[x.element]
    PROVE  AddsOK(Extended(ups, r, x), WithOwn(ups, S, r), Affected(el, x))
<1> DEFINE e == Extended(ups, r, x)
           W == WithOwn(ups, S, r)
           o == <<r, Len(ups[r]) + 1>>
           al == Affected(el, x)
<1>1. W = S \cup {o} /\ e[o[1]][o[2]] = x
  BY ExtendedHistory DEF WithOwn
<1>2. ASSUME NEW u \in S
      PROVE  e[u[1]][u[2]] = ups[u[1]][u[2]] /\ ups[u[1]][u[2]] \in Update
  BY <1>2, MadeIsUpdate, ExtendedHistory
<1>3. el \in [Elements -> SUBSET Tags]
  BY DEF AddsOK
<1>4. CASE x.kind = "add"
  <2>1. x.element \in Elements /\ x.tag \in Tags /\ al = WithTag(el, x.element, x.tag)
    BY <1>4 DEF Update, Affected
  <2>2. al \in [Elements -> SUBSET Tags] /\ x.tag \in al[x.element] /\ \A f \in Elements : el[f] \subseteq al[f]
    BY <1>3, <2>1 DEF WithTag
  <2>3. \A u \in S : ups[u[1]][u[2]].kind = "add" => ups[u[1]][u[2]].element \in Elements
    BY <1>2 DEF Update
  <2> HIDE DEF e, W, o, al
  <2>a. ASSUME NEW u \in W, e[u[1]][u[2]].kind = "add", e[u[1]][u[2]].tag \notin al[e[u[1]][u[2]].element]
        PROVE  \E v \in W : /\ e[v[1]][v[2]].kind = "remove"
                            /\ e[v[1]][v[2]].element = e[u[1]][u[2]].element
                            /\ e[u[1]][u[2]].tag \in e[v[1]][v[2]].observed
    <3>1. u \in S /\ e[u[1]][u[2]] = ups[u[1]][u[2]]
      BY <1>1, <1>2, <2>2, <2>a
    <3>2. ups[u[1]][u[2]].tag \notin el[ups[u[1]][u[2]].element]
      BY <2>2, <2>3, <2>a, <3>1
    <3>3. PICK v \in S : /\ ups[v[1]][v[2]].kind = "remove"
                         /\ ups[v[1]][v[2]].element = ups[u[1]][u[2]].element
                         /\ ups[u[1]][u[2]].tag \in ups[v[1]][v[2]].observed
      BY <2>a, <3>1, <3>2 DEF AddsOK
    <3> QED
      BY <1>1, <1>2, <3>1, <3>3
  <2>4. AddsOK(e, W, al)
    BY <2>2, <2>a DEF AddsOK
  <2> QED
    BY <2>4 DEF e, W, al
<1>5. CASE x.kind = "remove"
  <2>1. x.element \in Elements /\ al = Without(el, x.element)
    BY <1>5 DEF Update, Affected
  <2>2. al \in [Elements -> SUBSET Tags] /\ \A f \in Elements : f # x.element => el[f] = al[f]
    BY <1>3, <2>1 DEF Without
  <2>3. \A u \in S : ups[u[1]][u[2]].kind = "add" => ups[u[1]][u[2]].element \in Elements
    BY <1>2 DEF Update
  <2> HIDE DEF e, W, o, al
  <2>4. ASSUME NEW u \in W, e[u[1]][u[2]].kind = "add", e[u[1]][u[2]].tag \notin al[e[u[1]][u[2]].element]
        PROVE  \E v \in W : /\ e[v[1]][v[2]].kind = "remove"
                            /\ e[v[1]][v[2]].element = e[u[1]][u[2]].element
                            /\ e[u[1]][u[2]].tag \in e[v[1]][v[2]].observed
    <3>1. u \in S /\ e[u[1]][u[2]] = ups[u[1]][u[2]]
      BY <1>1, <1>2, <1>5, <2>4
    <3>2. CASE e[u[1]][u[2]].element = x.element /\ e[u[1]][u[2]].tag \in el[x.element]
      BY <1>1, <1>5, <3>2
    <3>3. CASE ~(e[u[1]][u[2]].element = x.element /\ e[u[1]][u[2]].tag \in el[x.element])
      <4>1. ups[u[1]][u[2]].tag \notin el[ups[u[1]][u[2]].element]
        BY <2>2, <2>3, <2>4, <3>1, <3>3
      <4>2. PICK v \in S : /\ ups[v[1]][v[2]].kind = "remove"
                           /\ ups[v[1]][v[2]].element = ups[u[1]][u[2]].element
                           /\ ups[u[1]][u[2]].tag \in ups[v[1]][v[2]].observed
        BY <2>4, <3>1, <4>1 DEF AddsOK
      <4> QED
        BY <1>1, <1>2, <3>1, <4>2
    <3> QED
      BY <3>2, <3>3
  <2>5. AddsOK(e, W, al)
    BY <2>2, <2>4 DEF AddsOK
  <2> QED
    BY <2>5 DEF e, W, al
<1>6. CASE x.kind \notin {"add", "remove"}
  <2>1. al = el
    BY <1>6 DEF Affected
  <2> HIDE DEF e, W, o, al
  <2>2. AddsOK(e, W, al)
    BY <1>1, <1>2, <1>3, <1>6, <2>1 DEF AddsOK
  <2> QED
    BY <2>2 DEF e, W, al
<1> QED
  BY <1>4, <1>5, <1>6

-----------------------------------------------------------------------------
(* The inductive invariant. *)

Snapshots == [elements : [Elements -> SUBSET Tags], p : [Replicas -> Nat], n : [Replicas -> Nat],
              clocks : [Replicas -> Nat], seen : SUBSET (Replicas \X Nat)]

Types ==
    /\ updates \in Histories
    /\ elements \in [Replicas -> [Elements -> SUBSET Tags]]
    /\ tag_counter \in [Replicas -> 0 .. MaxU64]
    /\ p \in [Replicas -> [Replicas -> Nat]]
    /\ n \in [Replicas -> [Replicas -> Nat]]
    /\ clocks \in [Replicas -> [Replicas -> Nat]]
    /\ seen \in [Replicas -> SUBSET (Replicas \X Nat)]
    /\ last_seen \in [Replicas -> [Replicas -> 0 .. MaxTime]]
    /\ now \in 0 .. MaxTime
    /\ mail \in [Replicas -> Snapshots]
    /\ cleanly \in BOOLEAN

Lengths(ups) == [q \in Replicas |-> Len(ups[q])]

ViewOf(r) == View(updates, cleanly, seen[r], p[r], n[r], clocks[r], elements[r])
MailOf(r) == View(updates, cleanly, mail[r].seen, mail[r].p, mail[r].n, mail[r].clocks, mail[r].elements)

Own(r) == Of(seen[r], r) = 1 .. Len(updates[r])

ReplicaInv ==
    /\ Types
    /\ \A r \in Replicas : ViewOf(r) /\ MailOf(r) /\ Own(r)
    /\ SumOver(Lengths(updates), Replicas) <= MaxUpdates

LEMMA EmptyView ==
    ASSUME NEW ups, ups = [r \in Replicas |-> <<>>]
    PROVE  View(ups, TRUE, {}, NoTicks, NoTicks, NoTicks, NoElements)
<1>1. ups \in Histories /\ \A q \in Replicas : Len(ups[q]) = 0
  BY DEF Histories
<1>2. \A q \in Replicas : Of({}, q) = {}
  BY DEF Of
<1>3. 1 .. 0 = {}
  OBVIOUS
<1>4. SeenOK(ups, {})
  BY <1>1, <1>2, <1>3 DEF SeenOK
<1>5. \A q \in Replicas, kind \in {"credit", "debit"} : Count(ups, {}, q, kind) = 0
  BY <1>2, SumEmpty DEF Count
<1>6. Saturated64(0) = 0
  BY CrdtAssumption DEF Saturated64
<1>7. \A kind \in {"credit", "debit"} : CountOK(ups, {}, NoTicks, kind)
  BY <1>5, <1>6 DEF CountOK, NoTicks
<1>8. ClockOK(ups, TRUE, {}, NoTicks)
  BY <1>1, <1>2, <1>3 DEF ClockOK, NoTicks
<1>9. AddsOK(ups, {}, NoElements)
  BY DEF AddsOK, NoElements
<1> QED
  BY <1>4, <1>7, <1>8, <1>9 DEF View

LEMMA InitReplicaInv == Init => ReplicaInv
<1> SUFFICES ASSUME Init PROVE ReplicaInv
  OBVIOUS
<1>1. Types
  BY CrdtAssumption, ReplicasAssumption
     DEF Init, Types, Histories, NoTicks, NoElements, Snapshot, Snapshots
<1>2. View(updates, TRUE, {}, NoTicks, NoTicks, NoTicks, NoElements)
  BY EmptyView DEF Init
<1>3. ASSUME NEW r \in Replicas PROVE ViewOf(r) /\ MailOf(r) /\ Own(r)
  <2>1. ViewOf(r)
    BY <1>2 DEF ViewOf, Init
  <2>2. MailOf(r)
    BY <1>2 DEF MailOf, Init, Snapshot
  <2>3. Own(r)
    BY DEF Own, Init, Of
  <2> QED
    BY <2>1, <2>2, <2>3
<1>4. SumOver(Lengths(updates), Replicas) = 0
  <2> DEFINE f == Lengths(updates)
  <2>1. \A q \in Replicas : f[q] = 0
    BY DEF Init, Lengths
  <2> HIDE DEF f
  <2> QED
    BY <2>1, ReplicasAssumption, SumZero DEF f
<1> QED
  BY <1>1, <1>3, <1>4, ReplicasAssumption DEF ReplicaInv

(* An update.  The new parts of the replica's view are what the history makes of
   them, and nobody else's view depends on the new update. *)
LEMMA UpdatingKeepsInv ==
    ASSUME ReplicaInv, NEW r \in Replicas, NEW x \in Update, Updating(r, x),
           x.kind = "remove" => x.observed = elements[r][x.element],
           p' = [p EXCEPT ![r] = IF x.kind = "credit" THEN Bump(p[r], r, x.amount) ELSE p[r]],
           n' = [n EXCEPT ![r] = IF x.kind = "debit" THEN Bump(n[r], r, x.amount) ELSE n[r]],
           elements' = [elements EXCEPT ![r] = Affected(elements[r], x)],
           tag_counter' \in [Replicas -> 0 .. MaxU64]
    PROVE  ReplicaInv'
<1> DEFINE S == seen[r]
           e == Extended(updates, r, x)
           W == WithOwn(updates, S, r)
           P == IF x.kind = "credit" THEN Bump(p[r], r, x.amount) ELSE p[r]
           N == IF x.kind = "debit" THEN Bump(n[r], r, x.amount) ELSE n[r]
           c == Ticked(clocks[r], r)
           el == Affected(elements[r], x)
<1>0. Types
  BY DEF ReplicaInv
<1>1. /\ SeenOK(updates, S) /\ Of(S, r) = 1 .. Len(updates[r])
      /\ CountOK(updates, S, p[r], "credit") /\ CountOK(updates, S, n[r], "debit")
      /\ ClockOK(updates, cleanly, S, clocks[r]) /\ AddsOK(updates, S, elements[r])
      /\ updates \in Histories
  BY <1>0 DEF ReplicaInv, ViewOf, View, Own, Types
<1>2. View(e, cleanly, W, P, N, c, el)
  <2>1. SeenOK(e, W)
    BY <1>1, SeenOwn
  <2>2. CountOK(e, W, P, "credit")
    BY <1>1, CountOwnOK
  <2>3. CountOK(e, W, N, "debit")
    BY <1>1, CountOwnOK
  <2>4. ClockOK(e, cleanly, W, c)
    BY <1>1, ClockOwn
  <2>5. AddsOK(e, W, el)
    BY <1>1, AddsOwn
  <2> HIDE DEF e, W, P, N, c, el
  <2> QED
    BY <2>1, <2>2, <2>3, <2>4, <2>5 DEF View
<1>3. /\ updates' = e
      /\ seen'[r] = W /\ p'[r] = P /\ n'[r] = N /\ clocks'[r] = c /\ elements'[r] = el
      /\ \A q \in Replicas \ {r} : /\ seen'[q] = seen[q] /\ p'[q] = p[q] /\ n'[q] = n[q]
                                   /\ clocks'[q] = clocks[q] /\ elements'[q] = elements[q]
      /\ mail' = mail /\ cleanly' = cleanly /\ now' = now
  BY <1>0 DEF Updating, Types, Extended, WithOwn
<1>4. ASSUME NEW q \in Replicas
      PROVE  (ViewOf(q) /\ MailOf(q) /\ Own(q))'
  <2>1. MailOf(q)'
    <3>1. View(updates, cleanly, mail[q].seen, mail[q].p, mail[q].n, mail[q].clocks, mail[q].elements)
      BY DEF ReplicaInv, MailOf
    <3>2. View(e, cleanly, mail[q].seen, mail[q].p, mail[q].n, mail[q].clocks, mail[q].elements)
      BY <1>1, <3>1, ViewStays
    <3> HIDE DEF e
    <3> QED
      BY <1>3, <3>2 DEF MailOf
  <2>2. CASE q = r
    <3>1. Of(W, r) = 1 .. Len(e[r])
      BY <1>1, SeenOwn, ExtendedHistory
    <3> HIDE DEF e, W, P, N, c, el
    <3> QED
      BY <1>2, <1>3, <2>1, <2>2, <3>1 DEF ViewOf, Own
  <2>3. CASE q # r
    <3>1. View(updates, cleanly, seen[q], p[q], n[q], clocks[q], elements[q]) /\ Own(q)
      BY DEF ReplicaInv, ViewOf
    <3>2. View(e, cleanly, seen[q], p[q], n[q], clocks[q], elements[q])
      BY <1>1, <3>1, ViewStays
    <3>3. Len(e[q]) = Len(updates[q])
      BY <1>1, <2>3, ExtendedHistory
    <3> HIDE DEF e, W, P, N, c, el
    <3> QED
      BY <1>3, <2>1, <2>3, <3>1, <3>2, <3>3 DEF ViewOf, Own
  <2> QED
    BY <2>2, <2>3
<1>5. Types'
  <2>1. /\ W \in SUBSET (Replicas \X Nat) /\ P \in [Replicas -> Nat] /\ N \in [Replicas -> Nat]
        /\ c \in [Replicas -> Nat] /\ el \in [Elements -> SUBSET Tags]
    <3> HIDE DEF e, W, P, N, c, el
    <3> QED
      BY <1>2 DEF View, SeenOK, CountOK, ClockOK, AddsOK
  <2>2. e \in Histories
    BY <1>1, ExtendedHistory
  <2>3. /\ elements' = [elements EXCEPT ![r] = el] /\ p' = [p EXCEPT ![r] = P]
        /\ n' = [n EXCEPT ![r] = N] /\ clocks' = [clocks EXCEPT ![r] = c]
        /\ seen' = [seen EXCEPT ![r] = W] /\ last_seen' = [last_seen EXCEPT ![r][r] = now]
    BY <1>0 DEF Updating, WithOwn, Types
  <2> HIDE DEF e, W, P, N, c, el
  <2> QED
    BY <1>0, <1>3, <2>1, <2>2, <2>3 DEF Types
<1>6. SumOver(Lengths(e), Replicas) <= MaxUpdates
  <2> DEFINE f == Lengths(updates)
             g == Lengths(e)
  <2>1. \A q \in Replicas : f[q] \in Int /\ g[q] = IF q = r THEN f[q] + 1 ELSE f[q]
    BY <1>1, ExtendedHistory DEF Lengths
  <2>2. SumOver(f, Replicas) < MaxUpdates
    BY DEF Updating, Lengths
  <2> HIDE DEF f, g
  <2>a. (\A q \in Replicas : f[q] \in Int) /\ g[r] \in Int /\ \A q \in Replicas \ {r} : g[q] = f[q]
    BY <2>1
  <2>b. IsFiniteSet(Replicas)
    BY ReplicasAssumption
  <2>3. SumOver(g, Replicas) = SumOver(f, Replicas) - f[r] + g[r] /\ SumOver(f, Replicas) \in Int
    BY <2>a, <2>b, SumChange, SumInt
  <2>4. SumOver(g, Replicas) <= MaxUpdates
    BY <2>1, <2>2, <2>3, ReplicasAssumption
  <2> QED
    BY <2>4 DEF g
<1> HIDE DEF e
<1> QED
  BY <1>3, <1>4, <1>5, <1>6 DEF ReplicaInv

-----------------------------------------------------------------------------
(* The operations. *)

LEMMA AddKeepsInv ==
    ASSUME ReplicaInv, NEW r \in Replicas, NEW el \in Elements, Add(r, el)
    PROVE  ReplicaInv'
<1> DEFINE tag == <<r, Saturated64(tag_counter[r] + 1)>>
           x == [kind |-> "add", element |-> el, tag |-> tag]
<1>1. Saturated64(tag_counter[r] + 1) \in 0 .. MaxU64
  BY CrdtAssumption DEF ReplicaInv, Types, Saturated64
<1>2. x \in Update
  BY <1>1, CrdtAssumption DEF Update, Tags
<1>3. /\ x.kind = "add" /\ p' = p /\ n' = n
      /\ elements' = [elements EXCEPT ![r] = Affected(elements[r], x)]
      /\ Updating(r, x)
  BY DEF Add, Affected
<1>4. tag_counter' \in [Replicas -> 0 .. MaxU64]
  BY <1>1 DEF Add, ReplicaInv, Types
<1>5. p = [p EXCEPT ![r] = p[r]] /\ n = [n EXCEPT ![r] = n[r]]
  BY DEF ReplicaInv, Types
<1> HIDE DEF x
<1> QED
  BY <1>2, <1>3, <1>4, <1>5, UpdatingKeepsInv

LEMMA RemoveKeepsInv ==
    ASSUME ReplicaInv, NEW r \in Replicas, NEW el \in Elements, Remove(r, el)
    PROVE  ReplicaInv'
<1> DEFINE x == [kind |-> "remove", element |-> el, observed |-> elements[r][el]]
<1>2. x \in Update
  BY DEF Update, ReplicaInv, Types
<1>3. /\ x.kind = "remove" /\ p' = p /\ n' = n /\ x.observed = elements[r][x.element]
      /\ elements' = [elements EXCEPT ![r] = Affected(elements[r], x)]
      /\ Updating(r, x)
  BY DEF Remove, Affected
<1>4. tag_counter' \in [Replicas -> 0 .. MaxU64]
  BY DEF Remove, ReplicaInv, Types
<1>5. p = [p EXCEPT ![r] = p[r]] /\ n = [n EXCEPT ![r] = n[r]]
  BY DEF ReplicaInv, Types
<1> HIDE DEF x
<1> QED
  BY <1>2, <1>3, <1>4, <1>5, UpdatingKeepsInv

LEMMA CountersKeepInv ==
    ASSUME ReplicaInv, NEW r \in Replicas, NEW a \in Amounts, Increment(r, a) \/ Decrement(r, a)
    PROVE  ReplicaInv'
<1>0. /\ p = [p EXCEPT ![r] = p[r]] /\ n = [n EXCEPT ![r] = n[r]]
      /\ elements = [elements EXCEPT ![r] = elements[r]]
  BY DEF ReplicaInv, Types
<1>1. CASE Increment(r, a)
  <2> DEFINE x == [kind |-> "credit", amount |-> a]
  <2>1. x \in Update
    BY DEF Update
  <2>2. /\ x.kind = "credit" /\ n' = n /\ elements' = elements /\ Updating(r, x)
        /\ p' = [p EXCEPT ![r] = Bump(p[r], r, x.amount)] /\ Affected(elements[r], x) = elements[r]
    BY <1>1 DEF Increment, Affected
  <2>3. tag_counter' \in [Replicas -> 0 .. MaxU64]
    BY <1>1 DEF Increment, ReplicaInv, Types
  <2> HIDE DEF x
  <2> QED
    BY <1>0, <2>1, <2>2, <2>3, UpdatingKeepsInv
<1>2. CASE Decrement(r, a)
  <2> DEFINE x == [kind |-> "debit", amount |-> a]
  <2>1. x \in Update
    BY DEF Update
  <2>2. /\ x.kind = "debit" /\ p' = p /\ elements' = elements /\ Updating(r, x)
        /\ n' = [n EXCEPT ![r] = Bump(n[r], r, x.amount)] /\ Affected(elements[r], x) = elements[r]
    BY <1>2 DEF Decrement, Affected
  <2>3. tag_counter' \in [Replicas -> 0 .. MaxU64]
    BY <1>2 DEF Decrement, ReplicaInv, Types
  <2> HIDE DEF x
  <2> QED
    BY <1>0, <2>1, <2>2, <2>3, UpdatingKeepsInv
<1> QED
  BY <1>1, <1>2

LEMMA PublishKeepsInv ==
    ASSUME ReplicaInv, NEW r \in Replicas, Publish(r)
    PROVE  ReplicaInv'
<1>1. /\ mail' = [mail EXCEPT ![r] = Snapshot(r)]
      /\ elements' = elements /\ p' = p /\ n' = n /\ clocks' = clocks /\ seen' = seen
      /\ tag_counter' = tag_counter /\ last_seen' = last_seen /\ now' = now
      /\ updates' = updates /\ cleanly' = cleanly
  BY DEF Publish, stateVars
<1>2. Types'
  BY <1>1 DEF ReplicaInv, Types, Snapshot, Snapshots
<1>3. ASSUME NEW q \in Replicas PROVE (ViewOf(q) /\ MailOf(q) /\ Own(q))'
  <2>0. ViewOf(q) /\ MailOf(q) /\ Own(q)
    BY DEF ReplicaInv
  <2>1. ViewOf(q)' /\ Own(q)'
    BY <1>1, <2>0 DEF ViewOf, Own
  <2>2. CASE q = r
    <3>1. mail'[q] = Snapshot(r)
      BY <1>1, <2>2 DEF ReplicaInv, Types
    <3>2. MailOf(q)'
      BY <1>1, <2>0, <2>2, <3>1 DEF MailOf, ViewOf, Snapshot
    <3> QED
      BY <2>1, <3>2
  <2>3. CASE q # r
    <3>1. mail'[q] = mail[q]
      BY <1>1, <2>3 DEF ReplicaInv, Types
    <3> QED
      BY <1>1, <2>0, <2>1, <3>1 DEF MailOf
  <2> QED
    BY <2>2, <2>3
<1> QED
  BY <1>1, <1>2, <1>3 DEF ReplicaInv

LEMMA MergeKeepsInv ==
    ASSUME ReplicaInv, NEW r \in Replicas, NEW s \in Replicas, Merge(r, mail[s])
    PROVE  ReplicaInv'
<1> DEFINE m == mail[s]
           S == seen[r] \cup m.seen
           P == JoinMax(p[r], m.p)
           N == JoinMax(n[r], m.n)
           c == JoinMax(clocks[r], m.clocks)
           el == Union(elements[r], m.elements)
<1>0. Types /\ ViewOf(r) /\ MailOf(s)
  BY DEF ReplicaInv
<1>1. View(updates, cleanly, S, P, N, c, el)
  BY <1>0, ViewsJoin DEF ViewOf, MailOf, Types
<1> HIDE DEF S, P, N, c, el
<1>2. /\ elements' = [elements EXCEPT ![r] = el] /\ p' = [p EXCEPT ![r] = P]
      /\ n' = [n EXCEPT ![r] = N] /\ clocks' = [clocks EXCEPT ![r] = c]
      /\ seen' = [seen EXCEPT ![r] = S]
      /\ tag_counter' = tag_counter /\ now' = now /\ mail' = mail /\ updates' = updates
      /\ cleanly' = cleanly
  BY <1>0 DEF Merge, Types, S, P, N, c, el
<1>3. last_seen' \in [Replicas -> [Replicas -> 0 .. MaxTime]]
  <2> DEFINE f == [q \in Replicas |-> IF m.clocks[q] > clocks[r][q] THEN now ELSE last_seen[r][q]]
  <2>1. f \in [Replicas -> 0 .. MaxTime]
    BY <1>0 DEF Types
  <2>2. last_seen' = [last_seen EXCEPT ![r] = f]
    BY <1>0 DEF Types, Merge
  <2> HIDE DEF f
  <2> QED
    BY <1>0, <2>1, <2>2 DEF Types
<1>4. Types'
  <2>1. /\ S \in SUBSET (Replicas \X Nat) /\ P \in [Replicas -> Nat] /\ N \in [Replicas -> Nat]
        /\ c \in [Replicas -> Nat] /\ el \in [Elements -> SUBSET Tags]
    BY <1>1 DEF View, SeenOK, CountOK, ClockOK, AddsOK
  <2> QED
    BY <1>0, <1>2, <1>3, <2>1 DEF Types
<1>5. ASSUME NEW q \in Replicas PROVE (ViewOf(q) /\ MailOf(q) /\ Own(q))'
  <2>0. ViewOf(q) /\ MailOf(q) /\ Own(q)
    BY DEF ReplicaInv
  <2>1. MailOf(q)'
    BY <1>2, <2>0 DEF MailOf
  <2>2. CASE q = r
    <3>1. /\ elements'[q] = el /\ p'[q] = P /\ n'[q] = N /\ clocks'[q] = c /\ seen'[q] = S
      BY <1>0, <1>2, <2>2 DEF Types
    <3>2. ViewOf(q)'
      BY <1>1, <1>2, <3>1 DEF ViewOf
    <3>3. Of(S, r) = 1 .. Len(updates[r])
      <4>1. SeenOK(updates, S)
        BY <1>1 DEF View
      <4>2. PICK k \in 0 .. Len(updates[r]) : Of(S, r) = 1 .. k
        BY <4>1 DEF SeenOK
      <4>3. Of(seen[r], r) \subseteq Of(S, r)
        BY DEF Of, S
      <4>4. 1 .. Len(updates[r]) \subseteq 1 .. k
        BY <2>0, <2>2, <4>2, <4>3 DEF Own
      <4>a. Len(updates[r]) \in Nat
        BY <1>0 DEF Types, Histories
      <4>b. Len(updates[r]) > 0 => Len(updates[r]) \in 1 .. k
        BY <4>4, <4>a
      <4>5. k = Len(updates[r])
        BY <4>a, <4>b
      <4> QED
        BY <4>2, <4>5
    <3>4. Own(q)'
      BY <1>2, <2>2, <3>1, <3>3 DEF Own
    <3> QED
      BY <2>1, <3>2, <3>4
  <2>3. CASE q # r
    <3>1. /\ elements'[q] = elements[q] /\ p'[q] = p[q] /\ n'[q] = n[q] /\ clocks'[q] = clocks[q]
          /\ seen'[q] = seen[q]
      BY <1>0, <1>2, <2>3 DEF Types
    <3> QED
      BY <1>2, <2>0, <2>1, <3>1 DEF ViewOf, Own
  <2> QED
    BY <2>2, <2>3
<1> QED
  BY <1>2, <1>4, <1>5 DEF ReplicaInv

(* A clean pruning leaves the clock as it is. *)
LEMMA CleanPruning ==
    ASSUME NEW c \in [Replicas -> Nat], NEW l, NEW t, PruningResult(c, l, t) = "Clean"
    PROVE  Pruned(c, l, t) = c
<1> DEFINE live == Unexpired(c, l, t)
<1>1. WithinCap(c, live) = live /\ live = Entries(c)
  BY DEF PruningResult
<1>2. Pruned(c, l, t) = Kept(c, Entries(c))
  BY <1>1 DEF Pruned
<1>3. Kept(c, Entries(c)) = c
  BY DEF Kept, Entries
<1> QED
  BY <1>2, <1>3

LEMMA PruneKeepsInv ==
    ASSUME ReplicaInv, NEW r \in Replicas, Prune(r)
    PROVE  ReplicaInv'
<1> DEFINE c == Pruned(clocks[r], last_seen[r], now)
<1>0. Types
  BY DEF ReplicaInv
<1>1. c \in [Replicas -> Nat] /\ \A q \in Replicas : c[q] <= clocks[r][q]
  BY <1>0 DEF Types, Pruned, Kept
<1>2. cleanly' => c = clocks[r]
  BY <1>0, CleanPruning DEF Prune, Types
<1> HIDE DEF c
<1>3. /\ clocks' = [clocks EXCEPT ![r] = c] /\ cleanly' \in BOOLEAN /\ (cleanly' => cleanly)
      /\ elements' = elements /\ p' = p /\ n' = n /\ seen' = seen
      /\ tag_counter' = tag_counter /\ last_seen' = last_seen /\ now' = now
      /\ updates' = updates /\ mail' = mail
  BY <1>0 DEF Prune, Types, c
<1>4. Types'
  BY <1>0, <1>1, <1>3 DEF Types
<1>5. ASSUME NEW S, NEW d, ClockOK(updates, cleanly, S, d)
      PROVE  ClockOK(updates, cleanly', S, d)
  BY <1>3, <1>5 DEF ClockOK
<1>6. ASSUME NEW q \in Replicas PROVE (ViewOf(q) /\ MailOf(q) /\ Own(q))'
  <2>0. ViewOf(q) /\ MailOf(q) /\ Own(q)
    BY DEF ReplicaInv
  <2>1. MailOf(q)'
    BY <1>3, <1>5, <2>0 DEF MailOf, View
  <2>2. ClockOK(updates, cleanly', seen[q], clocks'[q])
    <3>1. ClockOK(updates, cleanly', seen[q], clocks[q])
      BY <1>5, <2>0 DEF ViewOf, View
    <3>2. CASE q # r
      BY <1>0, <1>3, <3>1, <3>2 DEF Types
    <3>3. CASE q = r
      <4>1. clocks'[q] = c
        BY <1>0, <1>3, <3>3 DEF Types
      <4>2. \A s \in Replicas : Len(updates[s]) \in Nat /\ clocks[r][s] \in Nat /\ c[s] \in Nat
        BY <1>0, <1>1 DEF Types, Histories
      <4>3. \A s \in Replicas : c[s] <= Len(updates[s])
        BY <1>1, <3>1, <3>3, <4>2 DEF ClockOK
      <4> QED
        BY <1>1, <1>2, <3>1, <3>3, <4>1, <4>3 DEF ClockOK
    <3> QED
      BY <3>2, <3>3
  <2>3. ViewOf(q)'
    BY <1>3, <2>0, <2>2 DEF ViewOf, View
  <2>4. Own(q)'
    BY <1>3, <2>0 DEF Own
  <2> QED
    BY <2>1, <2>3, <2>4
<1> QED
  BY <1>3, <1>4, <1>6 DEF ReplicaInv

LEMMA IdleKeepsInv ==
    ASSUME ReplicaInv, NextDay \/ UNCHANGED vars
    PROVE  ReplicaInv'
<1>1. /\ elements' = elements /\ p' = p /\ n' = n /\ clocks' = clocks /\ seen' = seen
      /\ tag_counter' = tag_counter /\ last_seen' = last_seen /\ mail' = mail
      /\ updates' = updates /\ cleanly' = cleanly
  BY DEF NextDay, vars, stateVars
<1>2. now' \in 0 .. MaxTime
  BY ReplicasAssumption DEF NextDay, vars, ReplicaInv, Types
<1>3. Types'
  BY <1>1, <1>2 DEF ReplicaInv, Types
<1>4. \A q \in Replicas : (ViewOf(q) /\ MailOf(q) /\ Own(q))'
  BY <1>1 DEF ReplicaInv, ViewOf, MailOf, Own
<1> QED
  BY <1>1, <1>3, <1>4 DEF ReplicaInv

LEMMA StepReplicaInv == ReplicaInv /\ [Next]_vars => ReplicaInv'
<1> SUFFICES ASSUME ReplicaInv, [Next]_vars PROVE ReplicaInv'
  OBVIOUS
<1>1. CASE NextDay \/ UNCHANGED vars
  BY <1>1, IdleKeepsInv
<1>2. ASSUME NEW r \in Replicas, NEW el \in Elements, Add(r, el) \/ Remove(r, el)
      PROVE  ReplicaInv'
  BY <1>2, AddKeepsInv, RemoveKeepsInv
<1>3. ASSUME NEW r \in Replicas, NEW a \in Amounts, Increment(r, a) \/ Decrement(r, a)
      PROVE  ReplicaInv'
  BY <1>3, CountersKeepInv
<1>4. ASSUME NEW r \in Replicas, Publish(r) \/ Prune(r)
      PROVE  ReplicaInv'
  BY <1>4, PublishKeepsInv, PruneKeepsInv
<1>5. ASSUME NEW r \in Replicas, NEW q \in Replicas, Merge(r, mail[q])
      PROVE  ReplicaInv'
  BY <1>5, MergeKeepsInv
<1> QED
  BY <1>1, <1>2, <1>3, <1>4, <1>5 DEF Next

-----------------------------------------------------------------------------
(* Every view that a replica of pn_counter.rs, or_set.rs and vector_clock.rs holds or
   has published is what the updates it has seen make of it. *)
THEOREM ReplicaInvariance == Spec => []ReplicaInv
<1> QED
  BY InitReplicaInv, StepReplicaInv, PTL DEF Spec

(* Type correctness: the counters of pn_counter.rs stay within u64, and a clock of
   vector_clock.rs never counts more updates than there are. *)
THEOREM ReplicasTypeCorrect == Spec => []TypeOK
<1>1. ReplicaInv => TypeOK
  <2> SUFFICES ASSUME ReplicaInv PROVE TypeOK
    OBVIOUS
  <2>0. Types /\ \A r \in Replicas : ViewOf(r)
    BY DEF ReplicaInv
  <2>1. \A q \in Replicas : Len(updates[q]) \in 0 .. MaxUpdates
    <3> TAKE q \in Replicas
    <3> DEFINE f == Lengths(updates)
    <3>1. \A s \in Replicas : f[s] \in Nat
      BY <2>0 DEF Types, Histories, Lengths
    <3>2. f[q] = Len(updates[q])
      BY DEF Lengths
    <3>3. SumOver(f, Replicas) <= MaxUpdates
      BY DEF ReplicaInv
    <3> HIDE DEF f
    <3>4. SumOver(f, Replicas) = f[q] + SumOver(f, Replicas \ {q})
      BY <3>1, ReplicasAssumption, SumRemove
    <3>5. SumOver(f, Replicas \ {q}) \in Nat
      <4> DEFINE R == Replicas \ {q}
      <4>1. IsFiniteSet(R) /\ \A s \in R : f[s] \in Nat
        BY <3>1, ReplicasAssumption, FS_Subset
      <4> HIDE DEF R
      <4>2. SumOver(f, R) \in Nat
        BY <4>1, SumNat
      <4> QED
        BY <4>2 DEF R
    <3>6. f[q] \in 0 .. MaxUpdates
      BY <3>1, <3>3, <3>4, <3>5, ReplicasAssumption
    <3> QED
      BY <3>2, <3>6
  <2>2. \A r, q \in Replicas : clocks[r][q] \in 0 .. MaxUpdates
    <3> TAKE r, q \in Replicas
    <3>1. clocks[r][q] \in Nat /\ clocks[r][q] <= Len(updates[q])
      BY <2>0 DEF ViewOf, View, ClockOK
    <3> QED
      BY <2>1, <3>1, ReplicasAssumption
  <2>3. ASSUME NEW r \in Replicas PROVE seen[r] \subseteq Replicas \X (1 .. MaxUpdates)
    <3>1. SeenOK(updates, seen[r]) /\ updates \in Histories
      BY <2>0 DEF ViewOf, View, Types
    <3>2. ASSUME NEW u \in seen[r] PROVE u \in Replicas \X (1 .. MaxUpdates)
      <4>1. u[1] \in Replicas /\ u[2] \in 1 .. Len(updates[u[1]]) /\ u = <<u[1], u[2]>>
        BY <3>1, MadeIsUpdate
      <4>2. Len(updates[u[1]]) \in 0 .. MaxUpdates
        BY <2>1, <4>1
      <4>3. u[2] \in 1 .. MaxUpdates
        BY <4>1, <4>2, ReplicasAssumption
      <4> QED
        BY <4>1, <4>3
    <3> QED
      BY <3>2
  <2>4. ASSUME NEW ups \in Histories, NEW S, SeenOK(ups, S), NEW kind \in {"credit", "debit"},
               NEW q \in Replicas
        PROVE  Count(ups, S, q, kind) \in Nat
    <3>1. PICK k \in 0 .. Len(ups[q]) : Of(S, q) = 1 .. k
      BY <2>4 DEF SeenOK
    <3>2. SumOver(Weight(ups, q, kind), 1 .. k) \in Nat
      BY <3>1, CountGrows
    <3> QED
      BY <3>1, <3>2 DEF Count
  <2>5. \A r, q \in Replicas : p[r][q] \in 0 .. MaxU64 /\ n[r][q] \in 0 .. MaxU64
    <3> TAKE r, q \in Replicas
    <3>1. /\ SeenOK(updates, seen[r]) /\ updates \in Histories
          /\ p[r][q] = Saturated64(Count(updates, seen[r], q, "credit"))
          /\ n[r][q] = Saturated64(Count(updates, seen[r], q, "debit"))
      BY <2>0 DEF ViewOf, View, CountOK, Types
    <3>2. Count(updates, seen[r], q, "credit") \in Nat /\ Count(updates, seen[r], q, "debit") \in Nat
      BY <2>4, <3>1
    <3> QED
      BY <3>1, <3>2, SaturatedGrows
  <2> QED
    BY <2>0, <2>2, <2>3, <2>5 DEF TypeOK, Types
<1> QED
  BY <1>1, ReplicaInvariance, PTL

(* The clocks tell exactly which replica knows of more updates, as long as every
   pruning has reported Clean (vector_clock.rs happened_before and is_concurrent). *)
THEOREM CausalityExact == Spec => []CausalityIsExact
<1>1. ReplicaInv => CausalityIsExact
  <2> SUFFICES ASSUME ReplicaInv, cleanly, NEW r \in Replicas, NEW q \in Replicas
      PROVE  /\ HappenedBefore(clocks[r], clocks[q]) <=> (seen[r] \subseteq seen[q] /\ seen[r] # seen[q])
             /\ IsConcurrent(clocks[r], clocks[q]) <=>
                  ~(seen[r] \subseteq seen[q]) /\ ~(seen[q] \subseteq seen[r])
    BY DEF CausalityIsExact
  <2>0. Types
    BY DEF ReplicaInv
  <2>1. ASSUME NEW a \in Replicas, NEW b \in Replicas
        PROVE  (seen[a] \subseteq seen[b]) <=> \A s \in Replicas : clocks[a][s] <= clocks[b][s]
    <3>1. /\ seen[a] \in SUBSET (Replicas \X Nat) /\ seen[b] \in SUBSET (Replicas \X Nat)
          /\ \A s \in Replicas : clocks[a][s] \in Nat /\ clocks[b][s] \in Nat
      BY <2>0 DEF Types
    <3>2. \A s \in Replicas : Of(seen[a], s) = 1 .. clocks[a][s] /\ Of(seen[b], s) = 1 .. clocks[b][s]
      BY DEF ReplicaInv, ViewOf, View, ClockOK
    <3>3. (seen[a] \subseteq seen[b]) <=> \A s \in Replicas : Of(seen[a], s) \subseteq Of(seen[b], s)
      <4>1. ASSUME \A s \in Replicas : Of(seen[a], s) \subseteq Of(seen[b], s), NEW u \in seen[a]
            PROVE  u \in seen[b]
        <5>1. PICK s \in Replicas, i \in Nat : u = <<s, i>>
          BY <3>1
        <5>2. i \in Of(seen[b], s)
          BY <4>1, <5>1 DEF Of
        <5> QED
          BY <5>1, <5>2 DEF Of
      <4> QED
        BY <4>1 DEF Of
    <3>4. ASSUME NEW i \in Nat, NEW j \in Nat PROVE (1 .. i \subseteq 1 .. j) <=> i <= j
      <4>1. i > 0 => i \in 1 .. i
        OBVIOUS
      <4> QED
        BY <4>1
    <3>5. ASSUME NEW s \in Replicas
          PROVE  (Of(seen[a], s) \subseteq Of(seen[b], s)) <=> clocks[a][s] <= clocks[b][s]
      <4>1. (1 .. clocks[a][s] \subseteq 1 .. clocks[b][s]) <=> clocks[a][s] <= clocks[b][s]
        BY <3>1, <3>4
      <4> QED
        BY <3>2, <4>1
    <3> QED
      BY <3>3, <3>5
  <2>2. /\ clocks[r] \in [Replicas -> Nat] /\ clocks[q] \in [Replicas -> Nat]
    BY <2>0 DEF Types
  <2>3. /\ (seen[r] \subseteq seen[q]) <=> \A s \in Replicas : clocks[r][s] <= clocks[q][s]
        /\ (seen[q] \subseteq seen[r]) <=> \A s \in Replicas : clocks[q][s] <= clocks[r][s]
    BY <2>1
  <2>4. HappenedBefore(clocks[r], clocks[q]) <=>
          (\A s \in Replicas : clocks[r][s] <= clocks[q][s]) /\ ~\A s \in Replicas : clocks[q][s] <= clocks[r][s]
    BY <2>2 DEF HappenedBefore
  <2>5. HappenedBefore(clocks[q], clocks[r]) <=>
          (\A s \in Replicas : clocks[q][s] <= clocks[r][s]) /\ ~\A s \in Replicas : clocks[r][s] <= clocks[q][s]
    BY <2>2 DEF HappenedBefore
  <2>6. clocks[r] = clocks[q] <=>
          (\A s \in Replicas : clocks[q][s] <= clocks[r][s]) /\ (\A s \in Replicas : clocks[r][s] <= clocks[q][s])
    BY <2>2
  <2> QED
    BY <2>3, <2>4, <2>5, <2>6 DEF IsConcurrent
<1> QED
  BY <1>1, ReplicaInvariance, PTL

(* "Concurrent add + remove results in the element being present": an addition a
   replica has seen is in force there unless it has also seen a removal which had
   observed it (or_set.rs add, remove and merge). *)
THEOREM AdditionsSurvive == Spec => []AddsSurvive
<1>1. ReplicaInv => AddsSurvive
  BY DEF ReplicaInv, ViewOf, View, AddsOK, AddsSurvive
<1> QED
  BY <1>1, ReplicaInvariance, PTL

-----------------------------------------------------------------------------
(* The counter.  Saturating each node's entry and then the total says no less than
   saturating the total. *)

LEMMA SaturatedTotal ==
    ASSUME NEW R, IsFiniteSet(R), NEW f, NEW h, \A q \in R : h[q] \in Nat /\ f[q] = Saturated64(h[q])
    PROVE  Saturated64(SumOver(f, R)) = Saturated64(SumOver(h, R))
<1>1. \A q \in R : f[q] \in Nat /\ f[q] = IF h[q] > MaxU64 THEN MaxU64 ELSE h[q]
  BY CrdtAssumption DEF Saturated64
<1>2. CASE \A q \in R : h[q] <= MaxU64
  <2>1. \A q \in R : f[q] = h[q]
    BY <1>1, <1>2, CrdtAssumption
  <2> QED
    BY <2>1, SumAgree
<1>3. ASSUME NEW q \in R, ~(h[q] <= MaxU64)
      PROVE  Saturated64(SumOver(f, R)) = Saturated64(SumOver(h, R))
  <2> DEFINE T == R \ {q}
  <2>1. IsFiniteSet(T)
    BY FS_Subset
  <2>2. SumOver(f, R) = f[q] + SumOver(f, T) /\ SumOver(h, R) = h[q] + SumOver(h, T)
    BY <1>1, SumRemove
  <2>3. SumOver(f, T) \in Nat /\ SumOver(h, T) \in Nat
    BY <1>1, <2>1, SumNat
  <2> HIDE DEF T
  <2>4. f[q] = MaxU64 /\ h[q] \in Nat /\ h[q] > MaxU64
    BY <1>1, <1>3, CrdtAssumption
  <2>5. SumOver(f, R) >= MaxU64 /\ SumOver(h, R) >= MaxU64 /\ SumOver(f, R) \in Nat /\ SumOver(h, R) \in Nat
    BY <2>2, <2>3, <2>4, CrdtAssumption
  <2> HIDE <2>2
  <2> QED
    BY <2>5, CrdtAssumption DEF Saturated64
<1> QED
  BY <1>2, <1>3

LEMMA SeenFinite ==
    ASSUME NEW ups \in Histories, NEW S, SeenOK(ups, S)
    PROVE  IsFiniteSet(S)
<1>1. PICK m \in Nat : \A q \in Replicas : Len(ups[q]) <= m
  <2> DEFINE f == Lengths(ups)
  <2>1. IsFiniteSet(Replicas) /\ \A q \in Replicas : f[q] \in Nat
    BY ReplicasAssumption DEF Histories, Lengths
  <2>2. \A q \in Replicas : f[q] = Len(ups[q])
    BY DEF Lengths
  <2> HIDE DEF f
  <2>3. ASSUME NEW q \in Replicas PROVE f[q] <= SumOver(f, Replicas) /\ SumOver(f, Replicas) \in Nat
    <3> DEFINE T == Replicas \ {q}
    <3>1. IsFiniteSet(T)
      BY <2>1, FS_Subset
    <3>2. SumOver(f, Replicas) = f[q] + SumOver(f, T)
      BY <2>1, SumRemove
    <3>3. SumOver(f, T) \in Nat
      BY <2>1, <3>1, SumNat
    <3> HIDE DEF T
    <3> QED
      BY <2>1, <3>2, <3>3
  <2>4. SumOver(f, Replicas) \in Nat
    BY <2>1, SumNat
  <2> QED
    BY <2>2, <2>3, <2>4
<1>2. IsFiniteSet(Replicas \X (1 .. m))
  <2>1. IsFiniteSet(1 .. m)
    BY <1>1, FS_Interval
  <2> QED
    BY <2>1, ReplicasAssumption, FS_Product
<1>3. S \subseteq Replicas \X (1 .. m)
  <2>1. ASSUME NEW u \in S PROVE u \in Replicas \X (1 .. m)
    <3>1. u[1] \in Replicas /\ u[2] \in 1 .. Len(ups[u[1]]) /\ u = <<u[1], u[2]>>
      BY MadeIsUpdate
    <3>2. Len(ups[u[1]]) <= m /\ Len(ups[u[1]]) \in Nat
      BY <1>1, <3>1 DEF Histories
    <3>3. u[2] \in 1 .. m
      BY <3>1, <3>2
    <3> QED
      BY <3>1, <3>3
  <2> QED
    BY <2>1
<1> QED
  BY <1>2, <1>3, FS_Subset

-----------------------------------------------------------------------------
(* The updates of one kind in S and their amounts; the part of S that is replica
   q's; what each update in S adds to a counter, and what each replica does. *)
Those(ups, S, kind) == {u \in S : ups[u[1]][u[2]].kind = kind}
AmountOf(ups, S, kind) == [u \in Those(ups, S, kind) |-> ups[u[1]][u[2]].amount]
ByOne(S, q) == {u \in S : u[1] = q}
Share(ups, S, kind) ==
    [u \in S |-> IF ups[u[1]][u[2]].kind = kind THEN ups[u[1]][u[2]].amount ELSE 0]
Counts(ups, S, kind) == [q \in Replicas |-> Count(ups, S, q, kind)]

LEMMA CountOfOne ==
    ASSUME NEW ups \in Histories, NEW S, SeenOK(ups, S), NEW kind \in {"credit", "debit"},
           NEW q \in Replicas
    PROVE  /\ SumOver(Share(ups, S, kind), ByOne(S, q)) = Count(ups, S, q, kind)
           /\ Count(ups, S, q, kind) \in Nat
<1> DEFINE A == Of(S, q)
           B == ByOne(S, q)
           g == Share(ups, S, kind)
           w == Weight(ups, q, kind)
           k == [i \in A |-> <<q, i>>]
<1>1. PICK j \in 0 .. Len(ups[q]) : A = 1 .. j
  BY DEF SeenOK
<1>2. IsFiniteSet(A) /\ Len(ups[q]) \in Nat
  BY <1>1, FS_Interval DEF Histories
<1>3. \A i \in A : w[i] \in Nat /\ <<q, i>> \in S
  BY <1>1, <1>2, WeightIsNatural DEF Of
<1>4. k \in Bijection(A, B)
  <2>1. \A i \in A : k[i] = <<q, i>> /\ k[i] \in B
    BY <1>3 DEF ByOne
  <2>2. k \in [A -> B]
    BY <2>1
  <2>3. \A x, y \in A : k[x] = k[y] => x = y
    BY <2>1
  <2>4. \A u \in B : \E i \in A : k[i] = u
    <3> TAKE u \in B
    <3>1. PICK s \in Replicas, i \in Nat : u = <<s, i>>
      BY DEF SeenOK, ByOne
    <3>2. i \in A /\ u = <<q, i>>
      BY <3>1 DEF Of, ByOne
    <3> QED
      BY <2>1, <3>2
  <2> HIDE DEF A, B, k
  <2> QED
    BY <2>2, <2>3, <2>4 DEF Bijection, Injection, Surjection, IsInjective
<1>5. \A i \in A : g[k[i]] = w[i]
  <2> TAKE i \in A
  <2>1. k[i] = <<q, i>> /\ <<q, i>> \in S /\ i \in 1 .. Len(ups[q])
    BY <1>1, <1>2, <1>3
  <2>2. g[<<q, i>>] = IF ups[q][i].kind = kind THEN ups[q][i].amount ELSE 0
    BY <2>1 DEF Share
  <2>3. w[i] = IF ups[q][i].kind = kind THEN ups[q][i].amount ELSE 0
    BY <2>1 DEF Weight
  <2> QED
    BY <2>1, <2>2, <2>3
<1> HIDE DEF A, B, g, w, k
<1>6. SumOver(g, B) = SumOver(w, A)
  <2>1. \A i \in A : w[i] \in Int /\ g[k[i]] = w[i]
    <3>1. \A m \in Nat : m \in Int
      OBVIOUS
    <3> QED
      BY <1>3, <1>5, <3>1
  <2> QED
    BY <1>2, <1>4, <2>1, SumRenamed
<1>7. SumOver(w, A) \in Nat
  BY <1>2, <1>3, SumNat
<1> QED
  BY <1>6, <1>7 DEF A, B, g, w, Count

LEMMA SeenByReplica ==
    ASSUME NEW ups \in Histories, NEW S, SeenOK(ups, S), NEW kind \in {"credit", "debit"}
    PROVE  /\ SumOver(AmountOf(ups, S, kind), Those(ups, S, kind)) = SumOver(Counts(ups, S, kind), Replicas)
           /\ \A q \in Replicas : Counts(ups, S, kind)[q] \in Nat
<1> DEFINE g == Share(ups, S, kind)
           T == Those(ups, S, kind)
           f == AmountOf(ups, S, kind)
           h == Counts(ups, S, kind)
           F == [q \in Replicas |-> ByOne(S, q)]
<1>1. IsFiniteSet(S) /\ T \in SUBSET S
  BY SeenFinite DEF Those
<1>2. \A u \in S : ups[u[1]][u[2]].kind = kind => ups[u[1]][u[2]].amount \in Int
  <2> TAKE u \in S
  <2>1. ups[u[1]][u[2]] \in Update
    BY MadeIsUpdate
  <2>2. \A a \in Amounts : a \in Int
    BY ReplicasAssumption
  <2> QED
    BY <2>1, <2>2 DEF Update
<1>3. (\A u \in T : f[u] \in Int /\ g[u] = f[u]) /\ \A u \in S \ T : g[u] = 0
  BY <1>2 DEF Share, AmountOf, Those
<1>4. SumOver(f, T) = SumOver(g, S)
  <2> HIDE DEF g, f, T
  <2> QED
    BY <1>1, <1>3, SumFiltered
<1>5. /\ \A u \in S : g[u] \in Int
      /\ \A q \in Replicas : F[q] \subseteq S
      /\ \A u \in S : \E q \in Replicas : u \in F[q]
      /\ \A q, s \in Replicas : q # s => F[q] \cap F[s] = {}
  BY <1>2, MadeIsUpdate DEF Share, ByOne
<1>6. ASSUME NEW q \in Replicas
      PROVE  h[q] = SumOver(g, F[q]) /\ h[q] \in Nat
  BY CountOfOne DEF Counts
<1> HIDE DEF g, F, h, f, T
<1>7. SumOver(g, S) = SumOver(h, Replicas)
  <2>1. \A q \in Replicas : h[q] = SumOver(g, F[q])
    BY <1>6
  <2> QED
    BY <1>1, <1>5, <2>1, ReplicasAssumption, SumParts
<1> QED
  BY <1>4, <1>6, <1>7 DEF f, T, h

(* A counter of pn_counter.rs counts each update its replica has seen once, however
   often and by whatever way it came, and is off only at the limits of its range. *)
THEOREM CountersExact == Spec => []CounterIsExact
<1>1. ReplicaInv => CounterIsExact
  <2> SUFFICES ASSUME ReplicaInv, NEW r \in Replicas
      PROVE  Value(TotalOf(p[r]), TotalOf(n[r])) = Value(SumSeen(r, "credit"), SumSeen(r, "debit"))
    BY DEF CounterIsExact
  <2>0. /\ updates \in Histories /\ SeenOK(updates, seen[r])
        /\ CountOK(updates, seen[r], p[r], "credit") /\ CountOK(updates, seen[r], n[r], "debit")
    BY DEF ReplicaInv, Types, ViewOf, View
  <2>1. ASSUME NEW kind \in {"credit", "debit"}, NEW f, CountOK(updates, seen[r], f, kind)
        PROVE  Saturated64(TotalOf(f)) = Saturated64(SumSeen(r, kind))
    <3> DEFINE T == Those(updates, seen[r], kind)
               a == AmountOf(updates, seen[r], kind)
               h == Counts(updates, seen[r], kind)
    <3>1. SumOver(a, T) = SumOver(h, Replicas) /\ \A q \in Replicas : h[q] \in Nat
      BY <2>0, SeenByReplica
    <3>2. SumSeen(r, kind) = SumOver(a, T)
      BY DEF SumSeen, AmountOf, Those
    <3>3. TotalOf(f) = SumOver(f, Replicas)
      BY <2>1 DEF TotalOf, CountOK
    <3>4. \A q \in Replicas : f[q] = Saturated64(h[q])
      BY <2>1 DEF CountOK, Counts
    <3> HIDE DEF h, a, T
    <3>5. Saturated64(SumOver(f, Replicas)) = Saturated64(SumOver(h, Replicas))
      BY <3>1, <3>4, ReplicasAssumption, SaturatedTotal
    <3> QED
      BY <3>1, <3>2, <3>3, <3>5
  <2>2. /\ Saturated64(TotalOf(p[r])) = Saturated64(SumSeen(r, "credit"))
        /\ Saturated64(TotalOf(n[r])) = Saturated64(SumSeen(r, "debit"))
    BY <2>0, <2>1
  <2> QED
    BY <2>2 DEF Value
<1> QED
  BY <1>1, ReplicaInvariance, PTL
=============================================================================
