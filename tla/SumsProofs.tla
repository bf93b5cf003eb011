----------------------------- MODULE SumsProofs -----------------------------
(***************************************************************************)
(* Lemmas about SumOver, for any finite set of arguments.  A sum is the    *)
(* fold of the community modules, a table over the subsets of its set      *)
(* that CHOOSE defines.  The lemmas are by minimal counterexample: a set   *)
(* of subsets of a finite set that is not empty has a smallest member      *)
(* (SmallestSubset), and from that one an element can be taken away.       *)
(***************************************************************************)
EXTENDS Sums, FiniteSetTheorems, TLAPS

Pick(s) == CHOOSE x \in s : TRUE

(* g is the table of partial sums that SumOver computes for the subsets of S. *)
IsTable(g, f, S) ==
    g = [s \in SUBSET S |-> IF s = {} THEN 0 ELSE f[Pick(s)] + g[s \ {Pick(s)}]]

Table(f, S) == CHOOSE g : IsTable(g, f, S)

(* MapThenSumSet reads the sum of S off the table of the sums of its subsets. *)
LEMMA SumIsTable ==
    ASSUME NEW f, NEW S
    PROVE  SumOver(f, S) = Table(f, S)[S]
BY DEF SumOver, MapThenSumSet, MapThenFoldSet, Table, IsTable, Pick

(* The element that MapThenFoldSet takes out of a set is one of its elements. *)
LEMMA PickIn ==
    ASSUME NEW s, s # {}
    PROVE  Pick(s) \in s
BY DEF Pick

(* A set of subsets of a finite set that is not empty has a smallest member *)
LEMMA SmallestSubset ==
    ASSUME NEW S, IsFiniteSet(S), NEW B \in SUBSET SUBSET S, B # {}
    PROVE  \E T \in B : \A U \in SUBSET T : U # T => U \notin B
<1>1. FiniteSubsetsOf(S) = SUBSET S
  BY FS_FiniteSubsetsOfFinite
<1>2. IsWellFoundedOn(StrictSubsetOrdering(S), SUBSET S)
  BY <1>1, FS_StrictSubsetOrderingWellFounded
<1>3. PICK T \in B : \A U \in B : ~(<<U, T>> \in StrictSubsetOrdering(S))
  BY <1>2, WFMin
<1> QED
  BY <1>3 DEF StrictSubsetOrdering

(* The equation of a table at its largest set. *)
LEMMA TableAt ==
    ASSUME NEW f, NEW S, NEW g, IsTable(g, f, S)
    PROVE  g[S] = (IF S = {} THEN 0 ELSE f[Pick(S)] + g[S \ {Pick(S)}])
<1>1. S \in SUBSET S
  OBVIOUS
<1> QED
  BY <1>1 DEF IsTable

(* The tables of a finite set and of a subset of it agree where both are defined. *)
LEMMA TablesAgree ==
    ASSUME NEW f, NEW S, IsFiniteSet(S), NEW T \in SUBSET S,
           NEW g, IsTable(g, f, S), NEW h, IsTable(h, f, T)
    PROVE  \A s \in SUBSET T : g[s] = h[s]
<1> DEFINE B == {s \in SUBSET T : g[s] # h[s]}
<1> SUFFICES ASSUME B # {} PROVE FALSE
  OBVIOUS
<1>1. IsFiniteSet(T)
  BY FS_Subset
<1>2. PICK s \in B : \A U \in SUBSET s : U # s => U \notin B
  <2>1. B \in SUBSET SUBSET T
    OBVIOUS
  <2> HIDE DEF B
  <2> QED
    BY <1>1, <2>1, SmallestSubset
<1>3. s \in SUBSET T /\ s \in SUBSET S
  OBVIOUS
<1>4. g[s] = (IF s = {} THEN 0 ELSE f[Pick(s)] + g[s \ {Pick(s)}])
      /\ h[s] = (IF s = {} THEN 0 ELSE f[Pick(s)] + h[s \ {Pick(s)}])
  BY <1>3 DEF IsTable
<1>5. s # {}
  BY <1>4
<1>6. s \ {Pick(s)} \in SUBSET s /\ s \ {Pick(s)} # s
  BY <1>5, PickIn
<1>7. g[s \ {Pick(s)}] = h[s \ {Pick(s)}]
  BY <1>2, <1>6
<1> QED
  BY <1>4, <1>5, <1>7

(* The function that the definition chooses exists, for every finite set. *)
LEMMA TableExists ==
    ASSUME NEW f, NEW S, IsFiniteSet(S)
    PROVE  IsTable(Table(f, S), f, S)
<1> DEFINE B == {T \in SUBSET S : ~IsTable(Table(f, T), f, T)}
<1> SUFFICES ASSUME B # {} PROVE FALSE
  OBVIOUS
<1>1. PICK T \in B : \A U \in SUBSET T : U # T => U \notin B
  <2>1. B \in SUBSET SUBSET S
    OBVIOUS
  <2> HIDE DEF B
  <2> QED
    BY <2>1, SmallestSubset
<1>2. \A U \in SUBSET T : IsFiniteSet(U)
  BY FS_Subset
<1>3. ASSUME NEW U \in SUBSET T, U # T
      PROVE  IsTable(Table(f, U), f, U)
  BY <1>1, <1>3
<1> DEFINE Rest(s) == s \ {Pick(s)}
           g == [s \in SUBSET T |-> IF s = {} THEN 0
                                    ELSE f[Pick(s)] + Table(f, Rest(s))[Rest(s)]]
<1>4. ASSUME NEW U \in SUBSET T, U # T
      PROVE  g[U] = Table(f, U)[U]
  <2>1. Table(f, U)[U] = (IF U = {} THEN 0 ELSE f[Pick(U)] + Table(f, U)[Rest(U)])
    BY <1>3, <1>4, TableAt
  <2>2. CASE U = {}
    BY <2>1, <2>2
  <2>3. CASE U # {}
    <3>1. Rest(U) \in SUBSET U /\ Rest(U) # T
      BY <1>4
    <3>2. IsTable(Table(f, U), f, U) /\ IsTable(Table(f, Rest(U)), f, Rest(U))
      BY <1>3, <1>4, <3>1
    <3>3. Table(f, U)[Rest(U)] = Table(f, Rest(U))[Rest(U)]
      BY <1>2, <3>1, <3>2, TablesAgree
    <3> QED
      BY <2>1, <2>3, <3>3
  <2> QED
    BY <2>2, <2>3
<1>5. IsTable(g, f, T)
  <2>1. ASSUME NEW s \in SUBSET T, s # {}
        PROVE  g[Rest(s)] = Table(f, Rest(s))[Rest(s)]
    <3>1. Rest(s) \in SUBSET T /\ Rest(s) # T
      BY <2>1, PickIn
    <3> HIDE DEF g
    <3> QED
      BY <1>4, <3>1
  <2>2. g = [s \in SUBSET T |-> IF s = {} THEN 0 ELSE f[Pick(s)] + g[Rest(s)]]
    BY <2>1
  <2> QED
    BY <2>2 DEF IsTable
<1>6. IsTable(Table(f, T), f, T)
  <2> HIDE DEF g
  <2> QED
    BY <1>5 DEF Table
<1> QED
  BY <1>1, <1>6

(* The recursion that the definition writes down holds of finite sets. *)
LEMMA SumEquation ==
    ASSUME NEW f, NEW S, IsFiniteSet(S)
    PROVE  SumOver(f, S) =
             IF S = {} THEN 0 ELSE f[Pick(S)] + SumOver(f, S \ {Pick(S)})
<1> DEFINE R == S \ {Pick(S)}
<1>0. R \in SUBSET S /\ IsFiniteSet(R)
  BY FS_Subset
<1>1. IsTable(Table(f, S), f, S) /\ IsTable(Table(f, R), f, R)
  BY <1>0, TableExists
<1>2. Table(f, S)[R] = Table(f, R)[R]
  <2> HIDE DEF R
  <2>1. R \in SUBSET R
    OBVIOUS
  <2> QED
    BY <1>0, <1>1, <2>1, TablesAgree
<1>3. Table(f, S)[S] = (IF S = {} THEN 0 ELSE f[Pick(S)] + Table(f, S)[R])
  BY <1>1, TableAt
<1> QED
  BY <1>2, <1>3, SumIsTable

(* The empty sum. *)
LEMMA SumEmpty ==
    ASSUME NEW f
    PROVE  SumOver(f, {}) = 0
BY FS_EmptySet, SumEquation

(* A sum of integers is an integer. *)
LEMMA SumInt ==
    ASSUME NEW S, IsFiniteSet(S), NEW f, \A x \in S : f[x] \in Int
    PROVE  SumOver(f, S) \in Int
<1> DEFINE B == {T \in SUBSET S : SumOver(f, T) \notin Int}
<1> SUFFICES ASSUME B # {} PROVE FALSE
  OBVIOUS
<1>1. B \in SUBSET SUBSET S
  OBVIOUS
<1>2. PICK T \in B : \A U \in SUBSET T : U # T => U \notin B
  <2> HIDE DEF B
  <2> QED
    BY <1>1, SmallestSubset
<1>3. SumOver(f, T) = IF T = {} THEN 0 ELSE f[Pick(T)] + SumOver(f, T \ {Pick(T)})
  BY FS_Subset, SumEquation
<1>4. T # {}
  BY <1>3
<1>5. Pick(T) \in T
  BY <1>4, PickIn
<1>6. SumOver(f, T \ {Pick(T)}) \in Int
  BY <1>2, <1>5
<1> QED
  BY <1>3, <1>4, <1>5, <1>6

(* Which member is taken out first does not matter. *)
LEMMA SumRemove ==
    ASSUME NEW S, IsFiniteSet(S), NEW f, \A x \in S : f[x] \in Int, NEW y \in S
    PROVE  SumOver(f, S) = f[y] + SumOver(f, S \ {y})
<1> DEFINE Good(T, x) == SumOver(f, T) = f[x] + SumOver(f, T \ {x})
           B == {T \in SUBSET S : \E x \in T : ~Good(T, x)}
<1> SUFFICES ASSUME B # {} PROVE FALSE
  OBVIOUS
<1>1. B \in SUBSET SUBSET S
  OBVIOUS
<1>2. PICK T \in B : \A U \in SUBSET T : U # T => U \notin B
  <2> HIDE DEF B
  <2> QED
    BY <1>1, SmallestSubset
<1>3. PICK x \in T : ~Good(T, x)
  OBVIOUS
<1> DEFINE p == Pick(T)
<1>4. p \in T
  BY PickIn
<1> HIDE DEF p
<1>5. IsFiniteSet(T) /\ IsFiniteSet(T \ {p}) /\ IsFiniteSet(T \ {x})
      /\ IsFiniteSet((T \ {p}) \ {x})
  BY FS_Subset
<1>6. SumOver(f, T) = f[p] + SumOver(f, T \ {p})
  BY <1>5, SumEquation DEF p
<1>7. x # p
  BY <1>3, <1>6
<1>8. SumOver(f, T \ {p}) = f[x] + SumOver(f, (T \ {p}) \ {x})
  <2>1. T \ {p} \in SUBSET T /\ T \ {p} # T /\ x \in T \ {p}
    BY <1>4, <1>7
  <2> QED
    BY <1>2, <2>1
<1>9. SumOver(f, T \ {x}) = f[p] + SumOver(f, (T \ {x}) \ {p})
  <2>1. T \ {x} \in SUBSET T /\ T \ {x} # T /\ p \in T \ {x}
    BY <1>4, <1>7
  <2> QED
    BY <1>2, <2>1
<1>10. (T \ {x}) \ {p} = (T \ {p}) \ {x}
  OBVIOUS
<1>11. SumOver(f, (T \ {p}) \ {x}) \in Int
  <2>1. \A z \in (T \ {p}) \ {x} : f[z] \in Int
    OBVIOUS
  <2> QED
    BY <1>5, <2>1, SumInt
<1>12. f[x] \in Int /\ f[p] \in Int
  BY <1>4
<1>13. Good(T, x)
  <2>1. SumOver(f, T \ {x}) = f[p] + SumOver(f, (T \ {p}) \ {x})
    BY <1>9, <1>10
  <2>2. SumOver(f, T) = f[p] + (f[x] + SumOver(f, (T \ {p}) \ {x}))
    BY <1>6, <1>8
  <2>3. \A i, j, k \in Int : i + (j + k) = j + (i + k)
    OBVIOUS
  <2>4. SumOver(f, T) = f[x] + (f[p] + SumOver(f, (T \ {p}) \ {x}))
    BY <1>11, <1>12, <2>2, <2>3
  <2> QED
    BY <2>1, <2>4
<1> QED
  BY <1>3, <1>13

(* One more element. *)
LEMMA SumAdd ==
    ASSUME NEW S, IsFiniteSet(S), NEW f, NEW y, y \notin S,
           \A x \in S \cup {y} : f[x] \in Int
    PROVE  SumOver(f, S \cup {y}) = f[y] + SumOver(f, S)
<1>1. (S \cup {y}) \ {y} = S
  OBVIOUS
<1>2. IsFiniteSet(S \cup {y})
  BY FS_AddElement
<1>3. y \in S \cup {y}
  OBVIOUS
<1>4. SumOver(f, S \cup {y}) = f[y] + SumOver(f, (S \cup {y}) \ {y})
  BY <1>2, <1>3, SumRemove
<1> QED
  BY <1>1, <1>4

(* A sum depends on the values of its elements only. *)
LEMMA SumAgree ==
    ASSUME NEW S, IsFiniteSet(S), NEW f, NEW g, \A x \in S : f[x] = g[x]
    PROVE  SumOver(f, S) = SumOver(g, S)
<1> DEFINE B == {T \in SUBSET S : SumOver(f, T) # SumOver(g, T)}
<1> SUFFICES ASSUME B # {} PROVE FALSE
  OBVIOUS
<1>1. B \in SUBSET SUBSET S
  OBVIOUS
<1>2. PICK T \in B : \A U \in SUBSET T : U # T => U \notin B
  <2> HIDE DEF B
  <2> QED
    BY <1>1, SmallestSubset
<1>3. /\ SumOver(f, T) = IF T = {} THEN 0 ELSE f[Pick(T)] + SumOver(f, T \ {Pick(T)})
      /\ SumOver(g, T) = IF T = {} THEN 0 ELSE g[Pick(T)] + SumOver(g, T \ {Pick(T)})
  BY FS_Subset, SumEquation
<1>4. T # {}
  BY <1>3
<1>5. Pick(T) \in T
  BY <1>4, PickIn
<1>6. SumOver(f, T \ {Pick(T)}) = SumOver(g, T \ {Pick(T)})
  BY <1>2, <1>5
<1> QED
  BY <1>3, <1>4, <1>5, <1>6

(* Changing one term changes the sum by the difference. *)
LEMMA SumChange ==
    ASSUME NEW S, IsFiniteSet(S), NEW f, NEW g, NEW y \in S,
           \A x \in S : f[x] \in Int, g[y] \in Int, \A x \in S \ {y} : g[x] = f[x]
    PROVE  SumOver(g, S) = SumOver(f, S) - f[y] + g[y]
<1>1. \A x \in S : g[x] \in Int
  OBVIOUS
<1>2. SumOver(f, S) = f[y] + SumOver(f, S \ {y})
  BY SumRemove
<1>3. SumOver(g, S) = g[y] + SumOver(g, S \ {y})
  BY <1>1, SumRemove
<1>4. IsFiniteSet(S \ {y})
  BY FS_Subset
<1>5. SumOver(g, S \ {y}) = SumOver(f, S \ {y})
  BY <1>4, SumAgree
<1>6. SumOver(f, S \ {y}) \in Int
  BY <1>4, SumInt
<1> QED
  BY <1>2, <1>3, <1>5, <1>6

(* A sum of naturals over a smaller set, with smaller terms, is not larger. *)
LEMMA SumMonotonic ==
    ASSUME NEW S, IsFiniteSet(S), NEW T \in SUBSET S, NEW f, NEW g,
           \A x \in S : g[x] \in Nat, \A x \in T : f[x] \in Nat /\ f[x] <= g[x]
    PROVE  SumOver(f, T) <= SumOver(g, S) /\ SumOver(f, T) \in Nat /\ SumOver(g, S) \in Nat
<1> DEFINE Good(U) == /\ SumOver(g, U) \in Nat
                      /\ SumOver(f, U \cap T) \in Nat
                      /\ SumOver(f, U \cap T) <= SumOver(g, U)
           B == {U \in SUBSET S : ~Good(U)}
<1>0. SUFFICES ASSUME B # {} PROVE FALSE
  <2>1. Good(S)
    BY <1>0
  <2>2. S \cap T = T
    OBVIOUS
  <2> QED
    BY <2>1, <2>2
<1>1. B \in SUBSET SUBSET S
  OBVIOUS
<1>2. PICK U \in B : \A V \in SUBSET U : V # U => V \notin B
  <2> HIDE DEF B
  <2> QED
    BY <1>0, <1>1, SmallestSubset
<1>3. IsFiniteSet(U) /\ IsFiniteSet(U \cap T)
  BY FS_Subset
<1>4. U # {}
  <2> SUFFICES ASSUME U = {} PROVE FALSE
    OBVIOUS
  <2>1. {} \cap T = {}
    OBVIOUS
  <2> QED
    BY <2>1, SumEmpty
<1>5. PICK y \in U : TRUE
  BY <1>4
<1> DEFINE V == U \ {y}
<1>6. Good(V)
  <2>1. V \in SUBSET U /\ V # U
    OBVIOUS
  <2> QED
    BY <1>2, <2>1
<1>7. SumOver(g, U) = g[y] + SumOver(g, V)
  BY <1>3, SumRemove
<1>8. CASE y \in T
  <2>1. (U \cap T) \ {y} = V \cap T
    OBVIOUS
  <2>2. SumOver(f, U \cap T) = f[y] + SumOver(f, (U \cap T) \ {y})
    <3>1. y \in U \cap T /\ \A x \in U \cap T : f[x] \in Int
      BY <1>8
    <3> QED
      BY <1>3, <3>1, SumRemove
  <2> HIDE DEF V
  <2> QED
    BY <1>6, <1>7, <1>8, <2>1, <2>2
<1>9. CASE y \notin T
  <2>1. U \cap T = V \cap T
    BY <1>9
  <2> HIDE DEF V
  <2> QED
    BY <1>6, <1>7, <1>9, <2>1
<1> QED
  BY <1>8, <1>9

(* A sum of naturals is a natural. *)
LEMMA SumNat ==
    ASSUME NEW S, IsFiniteSet(S), NEW f, \A x \in S : f[x] \in Nat
    PROVE  SumOver(f, S) \in Nat
<1>1. S \in SUBSET S /\ \A x \in S : f[x] <= f[x]
  OBVIOUS
<1> QED
  BY <1>1, SumMonotonic

(* The sum of two disjoint sets. *)
LEMMA SumUnion ==
    ASSUME NEW S, IsFiniteSet(S), NEW T, IsFiniteSet(T), S \cap T = {},
           NEW f, \A x \in S \cup T : f[x] \in Int
    PROVE  SumOver(f, S \cup T) = SumOver(f, S) + SumOver(f, T)
<1> DEFINE Good(U) == SumOver(f, S \cup U) = SumOver(f, S) + SumOver(f, U)
           B == {U \in SUBSET T : ~Good(U)}
<1>0. SUFFICES ASSUME B # {} PROVE FALSE
  OBVIOUS
<1>1. B \in SUBSET SUBSET T
  OBVIOUS
<1>2. PICK U \in B : \A V \in SUBSET U : V # U => V \notin B
  <2> HIDE DEF B
  <2> QED
    BY <1>0, <1>1, SmallestSubset
<1>3. SumOver(f, S) \in Int
  BY SumInt
<1>4. U # {}
  <2> SUFFICES ASSUME U = {} PROVE FALSE
    OBVIOUS
  <2>1. S \cup {} = S
    OBVIOUS
  <2> QED
    BY <1>3, <2>1, SumEmpty
<1>5. PICK y \in U : TRUE
  BY <1>4
<1> DEFINE V == U \ {y}
<1>6. Good(V)
  <2>1. V \in SUBSET U /\ V # U
    OBVIOUS
  <2> QED
    BY <1>2, <2>1
<1>7. IsFiniteSet(U) /\ IsFiniteSet(V) /\ IsFiniteSet(S \cup U)
  BY FS_Subset, FS_Union
<1>8. SumOver(f, U) = f[y] + SumOver(f, V)
  BY <1>7, SumRemove
<1>9. SumOver(f, S \cup U) = f[y] + SumOver(f, S \cup V)
  <2>1. (S \cup U) \ {y} = S \cup V
    OBVIOUS
  <2>2. y \in S \cup U /\ \A x \in S \cup U : f[x] \in Int
    OBVIOUS
  <2>3. SumOver(f, S \cup U) = f[y] + SumOver(f, (S \cup U) \ {y})
    BY <1>7, <2>2, SumRemove
  <2> QED
    BY <2>1, <2>3
<1>10. SumOver(f, V) \in Int /\ f[y] \in Int
  <2>1. \A x \in V : f[x] \in Int
    OBVIOUS
  <2> QED
    BY <1>7, <2>1, SumInt
<1> QED
  BY <1>3, <1>6, <1>8, <1>9, <1>10

(* A sum of zeros. *)
LEMMA SumZero ==
    ASSUME NEW S, IsFiniteSet(S), NEW f, \A x \in S : f[x] = 0
    PROVE  SumOver(f, S) = 0
<1> DEFINE B == {T \in SUBSET S : SumOver(f, T) # 0}
<1> SUFFICES ASSUME B # {} PROVE FALSE
  OBVIOUS
<1>1. B \in SUBSET SUBSET S
  OBVIOUS
<1>2. PICK T \in B : \A U \in SUBSET T : U # T => U \notin B
  <2> HIDE DEF B
  <2> QED
    BY <1>1, SmallestSubset
<1>3. SumOver(f, T) = IF T = {} THEN 0 ELSE f[Pick(T)] + SumOver(f, T \ {Pick(T)})
  BY FS_Subset, SumEquation
<1>4. T # {}
  BY <1>3
<1>5. Pick(T) \in T
  BY <1>4, PickIn
<1>6. SumOver(f, T \ {Pick(T)}) = 0
  BY <1>2, <1>5
<1> QED
  BY <1>3, <1>4, <1>5, <1>6

(* Renaming the members of S one to one leaves the sum as it is. *)
LEMMA SumRenamed ==
    ASSUME NEW S, IsFiniteSet(S), NEW N, NEW k \in Bijection(S, N), NEW f, NEW g,
           \A x \in S : f[x] \in Int /\ g[k[x]] = f[x]
    PROVE  SumOver(g, N) = SumOver(f, S)
<1>a. N = {k[x] : x \in S} /\ \A x, y \in S : k[x] = k[y] => x = y
  BY DEF Bijection, Injection, Surjection, IsInjective
<1> DEFINE Named(T) == {k[x] : x \in T}
           B == {T \in SUBSET S : SumOver(g, Named(T)) # SumOver(f, T)}
<1> SUFFICES ASSUME B # {} PROVE FALSE
  BY <1>a
<1>1. PICK T \in B : \A U \in SUBSET T : U # T => U \notin B
  <2>1. B \in SUBSET SUBSET S
    OBVIOUS
  <2> HIDE DEF B
  <2> QED
    BY <2>1, SmallestSubset
<1>2. T \in SUBSET S /\ IsFiniteSet(T)
  BY FS_Subset
<1>3. T # {}
  <2>1. Named({}) = {}
    OBVIOUS
  <2> HIDE DEF Named
  <2> QED
    BY <2>1, SumEmpty
<1>4. PICK y \in T : TRUE
  BY <1>3
<1> DEFINE R == T \ {y}
<1>5. SumOver(g, Named(R)) = SumOver(f, R)
  <2>1. R \in SUBSET T /\ R # T /\ R \in SUBSET S
    BY <1>2
  <2> QED
    BY <1>1, <2>1
<1>6. Named(T) = Named(R) \cup {k[y]} /\ k[y] \notin Named(R)
  <2>1. Named(T) = Named(R) \cup {k[y]}
    BY <1>4
  <2>2. y \in S /\ \A i \in R : i \in S /\ i # y
    BY <1>2
  <2>3. \A i \in R : k[i] # k[y]
    BY <1>a, <2>2
  <2> QED
    BY <2>1, <2>3
<1>7. SumOver(f, T) = f[y] + SumOver(f, R)
  BY <1>2, SumRemove
<1>8. IsFiniteSet(Named(R))
  <2>1. IsFiniteSet(R)
    BY <1>2, FS_Subset
  <2> DEFINE h == [i \in R |-> k[i]]
  <2>2. h \in Surjection(R, Named(R))
    BY DEF Surjection
  <2> HIDE DEF R, Named, h
  <2> QED
    BY <2>1, <2>2, FS_Surjection
<1>9. SumOver(g, Named(R) \cup {k[y]}) = g[k[y]] + SumOver(g, Named(R))
  <2>1. \A x \in Named(R) \cup {k[y]} : g[x] \in Int
    BY <1>2
  <2> HIDE DEF Named, R
  <2> QED
    BY <1>6, <1>8, <2>1, SumAdd
<1> QED
  BY <1>2, <1>5, <1>6, <1>7, <1>9

(* The sum over i + d, i in S, of what f is at i. *)
LEMMA SumShift ==
    ASSUME NEW S, S \subseteq Int, IsFiniteSet(S), NEW d \in Int, NEW f, NEW g,
           \A i \in S : f[i] \in Int /\ g[i + d] = f[i]
    PROVE  SumOver(g, {i + d : i \in S}) = SumOver(f, S)
<1> DEFINE N == {i + d : i \in S}
           k == [i \in S |-> i + d]
<1>1. \A i, j \in S : i + d = j + d => i = j
  OBVIOUS
<1>2. k \in Bijection(S, N)
  BY <1>1 DEF Bijection, Injection, Surjection, IsInjective
<1>3. \A i \in S : f[i] \in Int /\ g[k[i]] = f[i]
  OBVIOUS
<1> HIDE DEF k, N
<1>4. SumOver(g, N) = SumOver(f, S)
  BY ONLY IsFiniteSet(S), <1>2, <1>3, SumRenamed
<1> QED
  BY <1>4 DEF N

(* The sum over those members of S that satisfy a condition, as a sum over all. *)
LEMMA SumFiltered ==
    ASSUME NEW S, IsFiniteSet(S), NEW T \in SUBSET S, NEW f, NEW g,
           \A x \in T : f[x] \in Int /\ g[x] = f[x], \A x \in S \ T : g[x] = 0
    PROVE  SumOver(f, T) = SumOver(g, S)
<1> DEFINE R == S \ T
<1>1. IsFiniteSet(T) /\ IsFiniteSet(R)
  BY FS_Subset
<1>2. S = T \cup R /\ T \cap R = {} /\ \A x \in T \cup R : g[x] \in Int
  OBVIOUS
<1>3. SumOver(g, S) = SumOver(g, T) + SumOver(g, R)
  <2> HIDE DEF R
  <2> QED
    BY <1>1, <1>2, SumUnion
<1>4. SumOver(g, R) = 0
  BY <1>1, SumZero
<1>5. SumOver(f, T) = SumOver(g, T) /\ SumOver(g, T) \in Int
  BY <1>1, <1>2, SumAgree, SumInt
<1> QED
  BY <1>3, <1>4, <1>5

(* A sum, taken part by part: the sets F[q], q in K, partition S. *)
LEMMA SumParts ==
    ASSUME NEW S, IsFiniteSet(S), NEW K, IsFiniteSet(K), NEW F,
           \A q \in K : F[q] \subseteq S, \A x \in S : \E q \in K : x \in F[q],
           \A q, s \in K : q # s => F[q] \cap F[s] = {},
           NEW f, \A x \in S : f[x] \in Int,
           NEW h, \A q \in K : h[q] = SumOver(f, F[q])
    PROVE  SumOver(f, S) = SumOver(h, K)
<1> DEFINE In(T) == UNION {F[q] : q \in T}
           B == {T \in SUBSET K : SumOver(f, In(T)) # SumOver(h, T)}
<1>0. SUFFICES ASSUME B # {} PROVE FALSE
  <2>1. In(K) = S /\ K \in SUBSET K
    OBVIOUS
  <2> HIDE DEF In
  <2> QED
    BY <2>1
<1>1. PICK T \in B : \A U \in SUBSET T : U # T => U \notin B
  <2>1. B \in SUBSET SUBSET K
    OBVIOUS
  <2> HIDE DEF B
  <2> QED
    BY <1>0, <2>1, SmallestSubset
<1>2. T \in SUBSET K /\ IsFiniteSet(T)
  BY FS_Subset
<1>3. T # {}
  <2>1. In({}) = {}
    OBVIOUS
  <2> HIDE DEF In
  <2> QED
    BY <2>1, SumEmpty
<1>4. PICK q \in T : TRUE
  BY <1>3
<1> DEFINE R == T \ {q}
<1>5. SumOver(f, In(R)) = SumOver(h, R)
  <2>1. R \in SUBSET T /\ R # T /\ R \in SUBSET K
    BY <1>2
  <2> QED
    BY <1>1, <2>1
<1>6. In(T) = In(R) \cup F[q] /\ In(R) \cap F[q] = {} /\ In(R) \subseteq S /\ F[q] \subseteq S
  BY <1>2, <1>4
<1>7. IsFiniteSet(F[q]) /\ IsFiniteSet(In(R)) /\ \A x \in In(R) \cup F[q] : f[x] \in Int
  BY <1>6, FS_Subset
<1>8. SumOver(f, In(T)) = SumOver(f, In(R)) + SumOver(f, F[q])
  <2> HIDE DEF In, R
  <2> QED
    BY <1>6, <1>7, SumUnion
<1>9. h[q] = SumOver(f, F[q])
  BY <1>2
<1>10. \A s \in T : h[s] \in Int
  <2> SUFFICES ASSUME NEW s \in T PROVE h[s] \in Int
    OBVIOUS
  <2> DEFINE C == F[s]
  <2>1. IsFiniteSet(C) /\ \A x \in C : f[x] \in Int
    BY <1>2, FS_Subset
  <2>2. h[s] = SumOver(f, C)
    BY <1>2
  <2> HIDE DEF C
  <2> QED
    BY <2>1, <2>2, SumInt
<1>11. SumOver(h, T) = h[q] + SumOver(h, R)
  BY <1>2, <1>10, SumRemove
<1>12. SumOver(h, R) \in Int /\ h[q] \in Int
  <2>1. IsFiniteSet(R) /\ \A s \in R : h[s] \in Int
    BY <1>2, <1>10, FS_Subset
  <2> HIDE DEF R
  <2> QED
    BY <2>1, <1>10, SumInt
<1>13. SumOver(f, In(T)) = SumOver(h, T)
  <2> HIDE DEF In, R
  <2> QED
    BY <1>5, <1>8, <1>9, <1>11, <1>12
<1> QED
  BY <1>1, <1>13

(* The sum of the differences is the difference of the sums. *)
LEMMA SumDifference ==
    ASSUME NEW S, IsFiniteSet(S), NEW f, NEW g, NEW h,
           \A x \in S : f[x] \in Int /\ g[x] \in Int /\ h[x] = f[x] - g[x]
    PROVE  SumOver(h, S) = SumOver(f, S) - SumOver(g, S)
<1> DEFINE B == {T \in SUBSET S : SumOver(h, T) # SumOver(f, T) - SumOver(g, T)}
<1> SUFFICES ASSUME B # {} PROVE FALSE
  OBVIOUS
<1>1. B \in SUBSET SUBSET S
  OBVIOUS
<1>2. PICK T \in B : \A U \in SUBSET T : U # T => U \notin B
  <2> HIDE DEF B
  <2> QED
    BY <1>1, SmallestSubset
<1>3. T # {}
  <2>1. SumOver(h, {}) = 0 /\ SumOver(f, {}) = 0 /\ SumOver(g, {}) = 0 /\ 0 = 0 - 0
    BY SumEmpty
  <2> QED
    BY <2>1
<1>4. PICK y \in T : TRUE
  BY <1>3
<1> DEFINE V == T \ {y}
<1>5. SumOver(h, V) = SumOver(f, V) - SumOver(g, V)
  <2>1. V \in SUBSET T /\ V # T
    OBVIOUS
  <2> QED
    BY <1>2, <2>1
<1>6. IsFiniteSet(T) /\ IsFiniteSet(V) /\ \A x \in T : f[x] \in Int /\ g[x] \in Int /\ h[x] \in Int
  BY FS_Subset
<1>7. /\ SumOver(h, T) = h[y] + SumOver(h, V)
      /\ SumOver(f, T) = f[y] + SumOver(f, V)
      /\ SumOver(g, T) = g[y] + SumOver(g, V)
  BY <1>6, SumRemove
<1>8. SumOver(f, V) \in Int /\ SumOver(g, V) \in Int
  <2>1. \A x \in V : f[x] \in Int /\ g[x] \in Int
    BY <1>6
  <2> HIDE DEF V
  <2> QED
    BY <1>6, <2>1, SumInt
<1>9. h[y] = f[y] - g[y] /\ f[y] \in Int /\ g[y] \in Int
  OBVIOUS
<1>10. SumOver(h, T) = SumOver(f, T) - SumOver(g, T)
  <2> HIDE DEF V
  <2> QED
    BY <1>5, <1>7, <1>8, <1>9
<1> QED
  BY <1>10

(* A sum of naturals up to m is at most m times the number of terms. *)
LEMMA SumAtMost ==
    ASSUME NEW S, IsFiniteSet(S), NEW m \in Nat, NEW f, \A x \in S : f[x] \in 0 .. m
    PROVE  SumOver(f, S) <= Cardinality(S) * m
<1> DEFINE Good(T) == SumOver(f, T) <= Cardinality(T) * m
           B == {T \in SUBSET S : ~Good(T)}
<1> SUFFICES ASSUME B # {} PROVE FALSE
  OBVIOUS
<1>1. B \in SUBSET SUBSET S
  OBVIOUS
<1>2. PICK T \in B : \A U \in SUBSET T : U # T => U \notin B
  <2> HIDE DEF B
  <2> QED
    BY <1>1, SmallestSubset
<1>3. T # {}
  <2>1. SumOver(f, {}) = 0 /\ Cardinality({}) = 0 /\ 0 <= 0 * m
    BY SumEmpty, FS_EmptySet
  <2> QED
    BY <2>1
<1>4. PICK y \in T : TRUE
  BY <1>3
<1> DEFINE V == T \ {y}
<1>5. Good(V)
  <2>1. V \in SUBSET T /\ V # T
    OBVIOUS
  <2> QED
    BY <1>2, <2>1
<1>6. IsFiniteSet(T) /\ IsFiniteSet(V) /\ \A x \in T : f[x] \in Int
  BY FS_Subset
<1>7. SumOver(f, T) = f[y] + SumOver(f, V)
  BY <1>6, SumRemove
<1>8. Cardinality(V) \in Nat /\ Cardinality(T) = Cardinality(V) + 1
  <2>1. Cardinality(V) = Cardinality(T) - 1 /\ Cardinality(T) \in Nat /\ Cardinality(V) \in Nat
    BY <1>6, FS_RemoveElement, FS_CardinalityType
  <2> QED
    BY <2>1
<1>9. SumOver(f, V) \in Int
  <2>1. \A x \in V : f[x] \in Int
    BY <1>6
  <2> HIDE DEF V
  <2> QED
    BY <1>6, <2>1, SumInt
<1>10. Good(T)
  <2> DEFINE c == Cardinality(V)
             s == SumOver(f, V)
  <2>1. c \in Nat /\ s \in Int /\ s <= c * m /\ f[y] \in 0 .. m
    BY <1>5, <1>8, <1>9
  <2> HIDE DEF c, s
  <2>2. f[y] + s <= (c + 1) * m
    BY <2>1
  <2> QED
    BY <1>7, <1>8, <2>2 DEF c, s
<1> QED
  BY <1>10

-----------------------------------------------------------------------------
(* Smallest and largest numbers. *)

(* A set of naturals that is not empty has a least member. *)
LEMMA LeastNatural ==
    ASSUME NEW A \in SUBSET Nat, A # {}
    PROVE  \E a \in A : \A b \in A : a <= b
<1>1. PICK a \in A : \A b \in A : <<b, a>> \notin OpToRel(<, Nat)
  BY WFMin, NatLessThanWellFounded, Zenon
<1>2. ASSUME NEW b \in A PROVE ~(b < a)
  <2>1. <<b, a>> \notin OpToRel(<, Nat)
    BY <1>1
  <2> QED
    BY <2>1, Zenon DEF OpToRel
<1>3. ASSUME NEW b \in A PROVE a <= b
  BY <1>2
<1> QED
  BY <1>3

(* Max of a bounded set of naturals that is not empty is its greatest member. *)
LEMMA MaxIn ==
    ASSUME NEW n \in Nat, NEW A \in SUBSET (0 .. n), A # {}
    PROVE  Max(A) \in A /\ \A a \in A : a <= Max(A)
<1> DEFINE C == {n - a : a \in A}
<1>1. C \in SUBSET Nat /\ C # {}
  <2>1. \A a \in A : a \in 0 .. n
    OBVIOUS
  <2>2. \A a \in A : n - a \in Nat
    BY <2>1
  <2> QED
    BY <2>2
<1>2. PICK c \in C : \A b \in C : c <= b
  <2> HIDE DEF C
  <2> QED
    BY <1>1, LeastNatural
<1>3. PICK a \in A : c = n - a
  OBVIOUS
<1>4. \A b \in A : a >= b
  <2> TAKE b \in A
  <2>1. n - b \in C /\ a \in 0 .. n /\ b \in 0 .. n
    OBVIOUS
  <2>2. n - a <= n - b
    BY <1>2, <1>3, <2>1
  <2> QED
    BY <2>1, <2>2
<1>5. Max(A) \in A /\ \A b \in A : Max(A) >= b
  BY <1>4 DEF Max
<1> QED
  BY <1>5

(* Max of two integers. *)
LEMMA MaxOfTwo ==
    ASSUME NEW a \in Int, NEW b \in Int
    PROVE  Max({a, b}) = IF a >= b THEN a ELSE b
<1>1. \E x \in {a, b} : \A y \in {a, b} : x >= y
  OBVIOUS
<1>2. Max({a, b}) \in {a, b} /\ \A y \in {a, b} : Max({a, b}) >= y
  BY <1>1 DEF Max
<1> QED
  BY <1>2
=============================================================================
