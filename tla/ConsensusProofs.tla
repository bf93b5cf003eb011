-------------------------- MODULE ConsensusProofs ---------------------------
(***************************************************************************)
(* Proofs about arxia-consensus: the delegation graph, for every finite    *)
(* set of holders, every depth limit and every order in which a search     *)
(* meets neighbours; and open representative voting, for any stakes,       *)
(* votes and nodes.                                                        *)
(***************************************************************************)
EXTENDS Delegation, Orv, SumsProofs, SequenceTheorems

USE DelegationAssumption

-----------------------------------------------------------------------------
(* Reachability along edges, without recursion. *)

(* What is reached may be continued by an edge, at either end. *)
LEMMA ReachStep ==
  ASSUME NEW E, NEW x \in Holders, NEW y \in Holders, NEW z \in Holders
  PROVE  /\ Reach(x, x, E)
         /\ Reach(x, y, E) /\ <<y, z>> \in E => Reach(x, z, E)
         /\ <<x, y>> \in E /\ Reach(y, z, E) => Reach(x, z, E)
BY DEF Reach, Closed

(* A walk may be continued by an edge. *)
LEMMA WalkStep ==
  ASSUME NEW E, NEW x \in Holders, NEW y \in Holders, NEW z \in Holders,
         NEW n \in Nat, Walk(x, y, n, E), <<y, z>> \in E
  PROVE  Walk(x, z, n + 1, E)
<1>1. PICK path \in [0 .. n -> Holders] :
        /\ path[0] = x
        /\ path[n] = y
        /\ \A i \in 1 .. n : <<path[i-1], path[i]>> \in E
  BY DEF Walk
<1> DEFINE longer == [i \in 0 .. n + 1 |-> IF i = n + 1 THEN z ELSE path[i]]
<1>2. longer \in [0 .. n + 1 -> Holders]
  OBVIOUS
<1>3. longer[0] = x /\ longer[n + 1] = z
  BY <1>1
<1>4. ASSUME NEW i \in 1 .. n + 1
      PROVE  <<longer[i-1], longer[i]>> \in E
  <2>1. CASE i = n + 1
    <3>1. longer[i] = z /\ longer[i-1] = path[n]
      BY <2>1
    <3>2. QED
      BY <3>1, <1>1
  <2>2. CASE i # n + 1
    <3>1. i \in 1 .. n /\ longer[i] = path[i] /\ longer[i-1] = path[i-1]
      BY <2>2
    <3>2. QED
      BY <3>1, <1>1
  <2>3. QED
    BY <2>1, <2>2
<1>5. QED
  BY <1>2, <1>3, <1>4 DEF Walk

(* A walk of no hops. *)
LEMMA WalkStart ==
  ASSUME NEW E, NEW x \in Holders
  PROVE  Walk(x, x, 0, E)
<1> DEFINE path == [i \in 0 .. 0 |-> x]
<1>1. /\ path \in [0 .. 0 -> Holders]
      /\ path[0] = x
      /\ \A i \in 1 .. 0 : <<path[i-1], path[i]>> \in E
  OBVIOUS
<1>2. QED
  BY <1>1 DEF Walk

(* An edge into a closed set from outside of it closes no cycle. *)
LEMMA EdgeIntoClosedSet ==
  ASSUME NEW E, Acyclic(E), NEW V \in SUBSET Holders, Closed(V, E),
         NEW d \in Holders, NEW r \in Holders, d \notin V, r \in V
  PROVE  Acyclic(E \cup {<<d, r>>})
<1> SUFFICES ASSUME NEW S \in SUBSET Holders, S # {}
             PROVE  \E x \in S : \A y \in S : <<x, y>> \notin E \cup {<<d, r>>}
  BY DEF Acyclic
<1>1. CASE S \cap V # {}
  <2>1. PICK x \in S \cap V : \A y \in S \cap V : <<x, y>> \notin E
    BY <1>1 DEF Acyclic
  <2>2. \A y \in S : <<x, y>> \notin E
    BY <2>1 DEF Closed
  <2>3. \A y \in S : <<x, y>> # <<d, r>>
    BY <2>1
  <2>4. QED
    BY <2>1, <2>2, <2>3
<1>2. CASE S \cap V = {}
  <2>1. PICK x \in S : \A y \in S : <<x, y>> \notin E
    BY DEF Acyclic
  <2>2. \A y \in S : <<x, y>> # <<d, r>>
    BY <1>2
  <2>3. QED
    BY <2>1, <2>2
<1>3. QED
  BY <1>1, <1>2

(* An edge from what its target reaches closes a cycle. *)
LEMMA EdgeClosesCycle ==
  ASSUME NEW E, NEW d \in Holders, NEW r \in Holders, Reach(r, d, E)
  PROVE  ~Acyclic(E \cup {<<d, r>>})
<1> DEFINE S == {y \in Holders : Reach(r, y, E) /\ Reach(y, d, E)}
<1>1. r \in S
  BY ReachStep
<1>2. ASSUME NEW x \in S, \A y \in S : <<x, y>> \notin E \cup {<<d, r>>}
      PROVE  FALSE
  <2>1. x # d
    BY <1>1, <1>2
  <2> DEFINE V == {x} \cup {u \in Holders : ~Reach(u, d, E)}
  <2>2. ASSUME NEW u \in V, NEW v \in Holders, <<u, v>> \in E
        PROVE  v \in V
    <3>1. CASE u = x
      <4>1. v \notin S /\ Reach(r, v, E)
        BY <1>2, <2>2, <3>1, ReachStep
      <4>2. QED
        BY <4>1
    <3>2. CASE ~Reach(u, d, E)
      <4>1. ~Reach(v, d, E)
        BY <2>2, <3>2, ReachStep
      <4>2. QED
        BY <4>1
    <3>3. QED
      BY <3>1, <3>2
  <2>3. V \in SUBSET Holders /\ Closed(V, E) /\ x \in V
    BY <2>2 DEF Closed
  <2>4. d \in V
    BY <2>3 DEF Reach
  <2>5. QED
    BY <2>1, <2>4, ReachStep
<1>3. QED
  BY <1>1, <1>2 DEF Acyclic

-----------------------------------------------------------------------------
(* The search's stack. *)

Entries == Holders \X (0 .. MaxDepth)

(* The last entry and the rest of a stack. *)
LEMMA PopFacts ==
  ASSUME NEW s \in Seq(Entries), s # <<>>
  PROVE  /\ Len(s) \in Nat /\ Len(s) > 0
         /\ Last(s) = s[Len(s)] /\ Last(s) \in Entries
         /\ Front(s) \in Seq(Entries)
         /\ Len(Front(s)) = Len(s) - 1
         /\ \A i \in 1 .. Len(s) - 1 : Front(s)[i] = s[i]
         /\ Stacked(s) = Stacked(Front(s)) \cup {Last(s)[1]}
<1>1. /\ Len(s) \in Nat /\ Len(s) > 0
      /\ Last(s) = s[Len(s)] /\ Last(s) \in Entries
  BY DEF Last
<1>2. Front(s) = [i \in 1 .. Len(s) - 1 |-> s[i]]
  BY <1>1 DEF Front
<1>3. /\ Front(s) \in Seq(Entries)
      /\ Len(Front(s)) = Len(s) - 1
      /\ \A i \in 1 .. Len(s) - 1 : Front(s)[i] = s[i]
  BY <1>1, <1>2
<1>4. ASSUME NEW y
      PROVE  y \in Stacked(s) <=> y \in Stacked(Front(s)) \cup {Last(s)[1]}
  <2>1. ASSUME y \in Stacked(s)
        PROVE  y \in Stacked(Front(s)) \cup {Last(s)[1]}
    <3>1. PICK i \in 1 .. Len(s) : y = s[i][1]
      BY <2>1 DEF Stacked
    <3>2. CASE i = Len(s)
      BY <3>1, <3>2, <1>1
    <3>3. CASE i # Len(s)
      <4>1. i \in 1 .. Len(s) - 1
        BY <1>1, <3>3
      <4>2. QED
        BY <4>1, <3>1, <1>3 DEF Stacked
    <3>4. QED
      BY <3>2, <3>3
  <2>2. ASSUME y \in Stacked(Front(s))
        PROVE  y \in Stacked(s)
    <3>1. PICK i \in 1 .. Len(s) - 1 : y = s[i][1]
      BY <2>2, <1>3 DEF Stacked
    <3>2. i \in 1 .. Len(s)
      BY <1>1
    <3>3. QED
      BY <3>1, <3>2 DEF Stacked
  <2>3. Last(s)[1] \in Stacked(s)
    <3>1. Len(s) \in 1 .. Len(s)
      BY <1>1
    <3>2. QED
      BY <3>1, <1>1 DEF Stacked
  <2>4. QED
    BY <2>1, <2>2, <2>3
<1>5. QED
  BY <1>1, <1>3, <1>4

(* An order of a set of holders lists each of them. *)
LEMMA OrderFacts ==
  ASSUME NEW S \in SUBSET Holders, NEW order \in SetToSeqs(S)
  PROVE  /\ order \in Seq(S)
         /\ \A y \in S : \E i \in 1 .. Len(order) : order[i] = y
<1>1. IsFiniteSet(S) /\ Cardinality(S) \in Nat
  BY FS_Subset, FS_CardinalityType
<1> DEFINE D == 1 .. Cardinality(S)
<1>2. IsFiniteSet(D) /\ Cardinality(D) = Cardinality(S)
  BY <1>1, FS_Interval
<1>3. order \in [D -> S] /\ \A i, j \in D : i # j => order[i] # order[j]
  BY DEF SetToSeqs
<1>4. order \in Seq(S) /\ Len(order) = Cardinality(S)
  BY <1>1, <1>3
<1>5. ASSUME NEW y \in S, \A i \in D : order[i] # y
      PROVE  FALSE
  <2> DEFINE T == S \ {y}
  <2>1. IsFiniteSet(T) /\ Cardinality(T) = Cardinality(S) - 1
    BY <1>1, FS_RemoveElement
  <2>2. Cardinality(T) < Cardinality(D)
    BY <2>1, <1>1, <1>2
  <2>3. order \in [D -> T]
    BY <1>3, <1>5
  <2> HIDE DEF D, T
  <2>4. \E i, j \in D : i # j /\ order[i] = order[j]
    BY <2>1, <2>2, <2>3, <1>2, FS_PigeonHole
  <2>5. QED
    BY <2>4, <1>3
<1>6. QED
  BY <1>4, <1>5

(* The entries for the nodes of an order. *)
LEMMA EntriesOf ==
  ASSUME NEW S \in SUBSET Holders, NEW order \in SetToSeqs(S), NEW depth,
         NEW top \in Seq(Entries), Len(top) = Len(order),
         \A i \in 1 .. Len(order) : top[i][1] = order[i] /\ top[i][2] = depth
  PROVE  /\ \A i \in 1 .. Len(top) : top[i][1] \in S /\ top[i][2] = depth
         /\ S \subseteq Stacked(top)
<1>1. order \in Seq(S) /\ \A y \in S : \E i \in 1 .. Len(order) : order[i] = y
  BY OrderFacts
<1>2. \A i \in 1 .. Len(order) : order[i] \in S
  BY <1>1
<1>3. S \subseteq Stacked(top)
  BY <1>1 DEF Stacked
<1>4. QED
  BY <1>2, <1>3

(* Entries on top of a stack. *)
LEMMA PushFacts ==
  ASSUME NEW s \in Seq(Entries), NEW top \in Seq(Entries)
  PROVE  /\ s \o top \in Seq(Entries)
         /\ Stacked(s \o top) = Stacked(s) \cup Stacked(top)
         /\ \A i \in 1 .. Len(s \o top) :
              \/ i \in 1 .. Len(s) /\ (s \o top)[i] = s[i]
              \/ \E j \in 1 .. Len(top) : (s \o top)[i] = top[j]
<1> DEFINE t == s \o top
<1>1. /\ t \in Seq(Entries) /\ Len(t) = Len(s) + Len(top)
      /\ Len(s) \in Nat /\ Len(top) \in Nat
      /\ \A i \in 1 .. Len(s) + Len(top) :
            t[i] = IF i <= Len(s) THEN s[i] ELSE top[i - Len(s)]
  <2>1. Len(s) \in Nat /\ Len(top) \in Nat
    OBVIOUS
  <2>2. QED
    BY <2>1, ConcatProperties
<1> HIDE DEF t
<1>2. ASSUME NEW i \in 1 .. Len(t)
      PROVE  \/ i \in 1 .. Len(s) /\ t[i] = s[i]
             \/ \E j \in 1 .. Len(top) : t[i] = top[j]
  <2>1. CASE i <= Len(s)
    BY <2>1, <1>1
  <2>2. CASE ~(i <= Len(s))
    <3>1. i - Len(s) \in 1 .. Len(top)
      BY <2>2, <1>1
    <3>2. t[i] = top[i - Len(s)]
      BY <2>2, <1>1
    <3>3. QED
      BY <3>1, <3>2
  <2>3. QED
    BY <2>1, <2>2
<1>3. \A i \in 1 .. Len(s) : i \in 1 .. Len(t) /\ t[i] = s[i]
  BY <1>1
<1>4. ASSUME NEW j \in 1 .. Len(top)
      PROVE  Len(s) + j \in 1 .. Len(t) /\ t[Len(s) + j] = top[j]
  <2>1. /\ Len(s) + j \in 1 .. Len(s) + Len(top)
        /\ ~(Len(s) + j <= Len(s)) /\ (Len(s) + j) - Len(s) = j
    BY <1>1
  <2>2. QED
    BY <2>1, <1>1
<1>5. ASSUME NEW y
      PROVE  y \in Stacked(t) <=> y \in Stacked(s) \cup Stacked(top)
  <2>1. ASSUME y \in Stacked(t)
        PROVE  y \in Stacked(s) \cup Stacked(top)
    <3>1. PICK i \in 1 .. Len(t) : y = t[i][1]
      BY <2>1 DEF Stacked
    <3>2. CASE i \in 1 .. Len(s) /\ t[i] = s[i]
      BY <3>1, <3>2 DEF Stacked
    <3>3. CASE \E j \in 1 .. Len(top) : t[i] = top[j]
      BY <3>1, <3>3 DEF Stacked
    <3>4. QED
      BY <3>2, <3>3, <1>2
  <2>2. ASSUME y \in Stacked(s)
        PROVE  y \in Stacked(t)
    <3>1. PICK i \in 1 .. Len(s) : y = s[i][1]
      BY <2>2 DEF Stacked
    <3>2. QED
      BY <3>1, <1>3 DEF Stacked
  <2>3. ASSUME y \in Stacked(top)
        PROVE  y \in Stacked(t)
    <3>1. PICK j \in 1 .. Len(top) : y = top[j][1]
      BY <2>3 DEF Stacked
    <3>2. QED
      BY <3>1, <1>4 DEF Stacked
  <2>4. QED
    BY <2>1, <2>2, <2>3
<1>6. QED
  BY <1>1, <1>2, <1>5 DEF t

-----------------------------------------------------------------------------
(* The invariant. *)

LEMMA Initially == Init => IndInv
<1> SUFFICES ASSUME Init PROVE IndInv
  OBVIOUS
<1>1. TypeOK
  BY DEF Init, TypeOK, Pairs
<1>2. AdjacencyMatchesEdges
  BY DEF Init, AdjacencyMatchesEdges
<1>3. NoDelegationCycle
  BY DEF Init, NoDelegationCycle, Acyclic
<1>4. SearchInv
  BY DEF Init, SearchInv
<1>5. QED
  BY <1>1, <1>2, <1>3, <1>4 DEF IndInv

(* A step that ends the search and leaves the graph alone. *)
LEMMA GiveUp ==
  ASSUME IndInv, EndCheck, UNCHANGED graphVars
  PROVE  IndInv'
<1>1. TypeOK'
  BY DEF IndInv, TypeOK, EndCheck, graphVars
<1>2. AdjacencyMatchesEdges' /\ NoDelegationCycle'
  BY DEF IndInv, AdjacencyMatchesEdges, NoDelegationCycle, graphVars
<1>3. SearchInv'
  BY DEF EndCheck, SearchInv
<1>4. QED
  BY <1>1, <1>2, <1>3 DEF IndInv

LEMMA DelegateKeepsInv ==
  ASSUME IndInv, NEW d \in Holders, NEW r \in Holders, Delegate(d, r)
  PROVE  IndInv'
<1>1. /\ checking' = {<<d, r>>} /\ visited' = {}
      /\ stack' = << <<r, 0>> >>
      /\ edges' = edges /\ adjacency' = adjacency
  BY DEF Delegate, graphVars
<1>2. <<r, 0>> \in Holders \X (0 .. MaxDepth)
  OBVIOUS
<1>3. TypeOK'
  BY <1>1, <1>2 DEF IndInv, TypeOK, Pairs
<1>4. AdjacencyMatchesEdges' /\ NoDelegationCycle'
  BY <1>1 DEF IndInv, AdjacencyMatchesEdges, NoDelegationCycle
<1>5. Len(stack') = 1 /\ stack'[1] = <<r, 0>>
  BY <1>1
<1>6. r \in Stacked(stack')
  BY <1>5 DEF Stacked
<1>7. ASSUME NEW i \in 1 .. Len(stack')
      PROVE  /\ Reach(r, stack'[i][1], edges')
             /\ Walk(r, stack'[i][1], stack'[i][2], edges')
  <2>1. stack'[i][1] = r /\ stack'[i][2] = 0
    BY <1>5
  <2>2. Reach(r, r, edges') /\ Walk(r, r, 0, edges')
    BY ReachStep, WalkStart
  <2>3. QED
    BY <2>1, <2>2
<1>8. SearchInv'
  BY <1>1, <1>6, <1>7 DEF SearchInv
<1>9. QED
  BY <1>3, <1>4, <1>8 DEF IndInv

LEMMA RevokeKeepsInv ==
  ASSUME IndInv, NEW d \in Holders, NEW r \in Holders, Revoke(d, r)
  PROVE  IndInv'
<1>1. /\ checking = {} /\ checking' = {} /\ stack' = stack /\ visited' = visited
      /\ edges' = edges \ {<<d, r>>}
      /\ adjacency' = [adjacency EXCEPT ![d] = @ \ {r}]
  BY DEF Revoke, searchVars
<1>2. TypeOK'
  BY <1>1 DEF IndInv, TypeOK
<1>3. AdjacencyMatchesEdges'
  BY <1>1 DEF IndInv, TypeOK, AdjacencyMatchesEdges
<1>4. NoDelegationCycle'
  BY <1>1 DEF IndInv, NoDelegationCycle, Acyclic
<1>5. SearchInv'
  BY <1>1 DEF SearchInv
<1>6. QED
  BY <1>2, <1>3, <1>4, <1>5 DEF IndInv

LEMMA SkipKeepsInv ==
  ASSUME IndInv, NEW p \in checking, Skip(p)
  PROVE  IndInv'
<1>1. /\ stack # <<>> /\ Last(stack)[1] \in visited /\ stack' = Front(stack)
      /\ edges' = edges /\ adjacency' = adjacency
      /\ checking' = checking /\ visited' = visited
  BY DEF Skip, Node, graphVars
<1>2. stack \in Seq(Entries)
  BY DEF IndInv, TypeOK, Entries
<1>3. /\ stack' \in Seq(Entries)
      /\ Len(stack) \in Nat /\ Len(stack') = Len(stack) - 1
      /\ \A i \in 1 .. Len(stack) - 1 : stack'[i] = stack[i]
      /\ Stacked(stack) = Stacked(stack') \cup {Last(stack)[1]}
  BY <1>1, <1>2, PopFacts
<1>4. TypeOK'
  BY <1>1, <1>3 DEF IndInv, TypeOK, Entries
<1>5. AdjacencyMatchesEdges' /\ NoDelegationCycle'
  BY <1>1 DEF IndInv, AdjacencyMatchesEdges, NoDelegationCycle
<1>6. visited \cup Stacked(stack) = visited \cup Stacked(stack')
  BY <1>1, <1>3
<1>7. \A q \in checking : \A i \in 1 .. Len(stack') :
        /\ Reach(q[2], stack'[i][1], edges)
        /\ Walk(q[2], stack'[i][1], stack'[i][2], edges)
  <2>1. \A i \in 1 .. Len(stack') : i \in 1 .. Len(stack) /\ stack'[i] = stack[i]
    BY <1>3
  <2>2. QED
    BY <2>1 DEF IndInv, SearchInv
<1>8. SearchInv'
  BY <1>1, <1>6, <1>7 DEF IndInv, SearchInv
<1>9. QED
  BY <1>4, <1>5, <1>8 DEF IndInv

LEMMA ExpandKeepsInv ==
  ASSUME IndInv, NEW p \in checking, Expand(p)
  PROVE  IndInv'
<1> DEFINE x == Last(stack)[1]
           d == Last(stack)[2]
<1>1. /\ stack # <<>> /\ x # p[1] /\ ~(d >= MaxDepth)
      /\ edges' = edges /\ adjacency' = adjacency
      /\ checking' = checking /\ visited' = visited \cup {x}
  BY DEF Expand, Node, Depth, MeetsDelegator, TooDeep, graphVars
<1>2. PICK order \in SetToSeqs(adjacency[x]) :
        stack' = Front(stack) \o [i \in 1 .. Len(order) |-> <<order[i], d + 1>>]
  BY DEF Expand, Node, Depth
<1>3. stack \in Seq(Entries)
  BY DEF IndInv, TypeOK, Entries
<1>4. /\ Front(stack) \in Seq(Entries)
      /\ Len(stack) \in Nat /\ Len(stack) > 0 /\ Last(stack) = stack[Len(stack)]
      /\ Len(Front(stack)) = Len(stack) - 1
      /\ \A i \in 1 .. Len(stack) - 1 : Front(stack)[i] = stack[i]
      /\ Stacked(stack) = Stacked(Front(stack)) \cup {x}
      /\ Last(stack) \in Entries
  BY <1>1, <1>3, PopFacts
<1>5. x \in Holders /\ d \in 0 .. MaxDepth /\ d + 1 \in 0 .. MaxDepth
  BY <1>1, <1>4 DEF Entries
<1>6. adjacency[x] \in SUBSET Holders
  BY <1>5 DEF IndInv, TypeOK
<1>7. /\ stack' \in Seq(Entries)
      /\ Stacked(Front(stack)) \subseteq Stacked(stack')
      /\ adjacency[x] \subseteq Stacked(stack')
      /\ \A i \in 1 .. Len(stack') :
           \/ i \in 1 .. Len(Front(stack)) /\ stack'[i] = Front(stack)[i]
           \/ stack'[i][1] \in adjacency[x] /\ stack'[i][2] = d + 1
  <2> DEFINE top == [i \in 1 .. Len(order) |-> <<order[i], d + 1>>]
             S == adjacency[x]
             k == d + 1
             bottom == Front(stack)
  <2>1. S \in SUBSET Holders /\ k \in 0 .. MaxDepth /\ order \in SetToSeqs(S)
    BY <1>5, <1>6
  <2>2. stack' = bottom \o top /\ bottom \in Seq(Entries)
    BY <1>2, <1>4
  <2> HIDE DEF S, k, bottom
  <2>3. /\ top \in Seq(Entries) /\ Len(top) = Len(order)
        /\ \A i \in 1 .. Len(order) : top[i][1] = order[i] /\ top[i][2] = k
    <3>1. order \in Seq(S)
      BY <2>1, OrderFacts
    <3>2. PICK n \in Nat : n = Len(order)
      BY <3>1
    <3>3. top = [i \in 1 .. n |-> <<order[i], k>>]
      BY <3>2 DEF k
    <3> HIDE DEF top
    <3>4. ASSUME NEW i \in 1 .. n
          PROVE  <<order[i], k>> \in Entries
      BY <3>1, <3>2, <2>1 DEF Entries
    <3>5. top \in [1 .. n -> Entries]
      BY <3>3, <3>4
    <3>6. top \in Seq(Entries) /\ Len(top) = n
      BY <3>5
    <3>7. ASSUME NEW i \in 1 .. n
          PROVE  top[i][1] = order[i] /\ top[i][2] = k
      <4>1. top[i] = <<order[i], k>>
        BY <3>3
      <4>2. QED
        BY <4>1
    <3>8. QED
      BY <3>2, <3>6, <3>7
  <2> HIDE DEF top
  <2>4. /\ \A i \in 1 .. Len(top) : top[i][1] \in S /\ top[i][2] = k
        /\ S \subseteq Stacked(top)
    BY <2>1, <2>3, EntriesOf
  <2>5. /\ stack' \in Seq(Entries)
        /\ Stacked(stack') = Stacked(bottom) \cup Stacked(top)
        /\ \A i \in 1 .. Len(stack') :
             \/ i \in 1 .. Len(bottom) /\ stack'[i] = bottom[i]
             \/ \E j \in 1 .. Len(top) : stack'[i] = top[j]
    BY <2>2, <2>3, PushFacts
  <2>6. Stacked(bottom) \subseteq Stacked(stack') /\ S \subseteq Stacked(stack')
    BY <2>4, <2>5
  <2>7. \A i \in 1 .. Len(stack') :
          \/ i \in 1 .. Len(bottom) /\ stack'[i] = bottom[i]
          \/ stack'[i][1] \in S /\ stack'[i][2] = k
    BY <2>4, <2>5
  <2>8. QED
    BY <2>5, <2>6, <2>7 DEF S, k, bottom
<1> HIDE DEF x, d
<1>8. TypeOK'
  BY <1>1, <1>5, <1>7 DEF IndInv, TypeOK, Entries
<1>9. AdjacencyMatchesEdges' /\ NoDelegationCycle'
  BY <1>1 DEF IndInv, AdjacencyMatchesEdges, NoDelegationCycle
<1>10. visited \cup Stacked(stack) \subseteq visited' \cup Stacked(stack')
  BY <1>1, <1>4, <1>7
<1>11. ASSUME NEW q \in checking
       PROVE  /\ q[1] \notin visited'
              /\ q[2] \in visited' \cup Stacked(stack')
              /\ \A u \in visited' : \A y \in Holders :
                    <<u, y>> \in edges => y \in visited' \cup Stacked(stack')
              /\ \A i \in 1 .. Len(stack') :
                    /\ Reach(q[2], stack'[i][1], edges)
                    /\ Walk(q[2], stack'[i][1], stack'[i][2], edges)
  <2>1. q = p
    BY DEF IndInv, SearchInv
  <2>2. q[1] \notin visited'
    BY <1>1, <2>1 DEF IndInv, SearchInv
  <2>3. q[2] \in visited' \cup Stacked(stack')
    BY <1>10 DEF IndInv, SearchInv
  <2>4. ASSUME NEW u \in visited', NEW y \in Holders, <<u, y>> \in edges
        PROVE  y \in visited' \cup Stacked(stack')
    <3>1. CASE u \in visited
      BY <2>4, <3>1, <1>10 DEF IndInv, SearchInv
    <3>2. CASE u = x
      BY <2>4, <3>2, <1>5, <1>7 DEF IndInv, AdjacencyMatchesEdges
    <3>3. QED
      BY <3>1, <3>2, <1>1
  <2>5. ASSUME NEW i \in 1 .. Len(stack')
        PROVE  /\ Reach(q[2], stack'[i][1], edges)
               /\ Walk(q[2], stack'[i][1], stack'[i][2], edges)
    <3>1. CASE i \in 1 .. Len(Front(stack)) /\ stack'[i] = Front(stack)[i]
      <4>1. i \in 1 .. Len(stack) /\ stack'[i] = stack[i]
        BY <3>1, <1>4
      <4>2. QED
        BY <4>1 DEF IndInv, SearchInv
    <3>2. CASE stack'[i][1] \in adjacency[x] /\ stack'[i][2] = d + 1
      <4>1. stack'[i][1] \in Holders /\ <<x, stack'[i][1]>> \in edges
        BY <3>2, <1>5, <1>6 DEF IndInv, AdjacencyMatchesEdges
      <4>2. q[2] \in Holders
        BY DEF IndInv, TypeOK, Pairs
      <4>3. Len(stack) \in 1 .. Len(stack)
        BY <1>4
      <4>4. Reach(q[2], x, edges) /\ Walk(q[2], x, d, edges)
        BY <4>3, <1>4 DEF IndInv, SearchInv, x, d
      <4>5. Reach(q[2], stack'[i][1], edges)
        BY <4>1, <4>2, <4>4, <1>5, ReachStep
      <4>6. d \in Nat
        BY <1>5
      <4>7. Walk(q[2], stack'[i][1], d + 1, edges)
        BY <4>1, <4>2, <4>4, <4>6, <1>5, WalkStep
      <4>8. QED
        BY <4>5, <4>7, <3>2
    <3>3. QED
      BY <3>1, <3>2, <1>7
  <2>6. QED
    BY <2>2, <2>3, <2>4, <2>5
<1>12. SearchInv'
  BY <1>1, <1>11 DEF IndInv, SearchInv
<1>13. QED
  BY <1>8, <1>9, <1>12 DEF IndInv

LEMMA InsertKeepsInv ==
  ASSUME IndInv, NEW p \in checking, Insert(p)
  PROVE  IndInv'
<1>1. /\ stack = <<>> /\ checking' = {} /\ stack' = <<>> /\ visited' = {}
      /\ edges' = edges \cup {p}
      /\ adjacency' = [adjacency EXCEPT ![p[1]] = @ \cup {p[2]}]
  BY DEF Insert, EndCheck
<1>2. p \in Pairs /\ p[1] \in Holders /\ p[2] \in Holders /\ p = <<p[1], p[2]>>
  BY DEF IndInv, TypeOK, Pairs
<1>3. TypeOK'
  BY <1>1, <1>2 DEF IndInv, TypeOK
<1>4. ASSUME NEW d \in Holders, NEW r \in Holders
      PROVE  r \in adjacency'[d] <=> <<d, r>> \in edges'
  <2>1. r \in adjacency[d] <=> <<d, r>> \in edges
    BY DEF IndInv, AdjacencyMatchesEdges
  <2>2. r \in adjacency'[d] <=> r \in adjacency[d] \/ (d = p[1] /\ r = p[2])
    BY <1>1, <1>2 DEF IndInv, TypeOK
  <2>3. <<d, r>> = p <=> d = p[1] /\ r = p[2]
    BY <1>2
  <2>4. QED
    BY <1>1, <2>1, <2>2, <2>3
<1>5. Stacked(stack) = {}
  BY <1>1 DEF Stacked
<1>6. /\ visited \in SUBSET Holders /\ Closed(visited, edges)
      /\ p[1] \notin visited /\ p[2] \in visited
  BY <1>5 DEF IndInv, TypeOK, SearchInv, Closed
<1>7. NoDelegationCycle'
  BY <1>1, <1>2, <1>6, EdgeIntoClosedSet DEF IndInv, NoDelegationCycle
<1>8. SearchInv'
  BY <1>1 DEF SearchInv
<1>9. QED
  BY <1>3, <1>4, <1>7, <1>8 DEF IndInv, AdjacencyMatchesEdges

(* The inductive invariant holds in every reachable state. *)
THEOREM Invariance == Spec => []IndInv
<1>1. ASSUME IndInv, [Next]_vars
      PROVE  IndInv'
  <2>1. CASE \E d, r \in Holders : Delegate(d, r) \/ Revoke(d, r)
    BY <1>1, <2>1, DelegateKeepsInv, RevokeKeepsInv
  <2>2. ASSUME NEW p \in checking, RefuseCycle(p) \/ RefuseDepth(p)
        PROVE  IndInv'
    BY <1>1, <2>2, GiveUp DEF RefuseCycle, RefuseDepth
  <2>3. ASSUME NEW p \in checking, Skip(p) \/ Expand(p) \/ Insert(p)
        PROVE  IndInv'
    BY <1>1, <2>3, SkipKeepsInv, ExpandKeepsInv, InsertKeepsInv
  <2>4. CASE UNCHANGED vars
    BY <1>1, <2>4 DEF vars, graphVars, searchVars, IndInv, TypeOK,
       AdjacencyMatchesEdges, NoDelegationCycle, SearchInv
  <2>5. QED
    BY <1>1, <2>1, <2>2, <2>3, <2>4 DEF Next
<1>2. QED
  BY Initially, <1>1, PTL DEF Spec

-----------------------------------------------------------------------------
(* What it implies. *)

(* Whatever is delegated and revoked in whatever order, and however the searches
   walk the graph, no voting power comes back to its delegator. *)
THEOREM NeverACycle == Spec => []NoDelegationCycle
<1>1. IndInv => NoDelegationCycle
  BY DEF IndInv
<1>2. QED
  BY <1>1, Invariance, PTL

(* Delegations and revocations always change both maps of the graph alike. *)
THEOREM AdjacencyExact == Spec => []AdjacencyMatchesEdges
<1>1. IndInv => AdjacencyMatchesEdges
  BY DEF IndInv
<1>2. QED
  BY <1>1, Invariance, PTL

(* CycleDetected is answered only for an edge that would close a cycle. *)
THEOREM RefusedCyclesAreReal == Spec => []CyclesAreReal
<1>1. ASSUME IndInv, NEW p \in checking, stack # <<>>, MeetsDelegator(p)
      PROVE  ~Acyclic(edges \cup {p})
  <2>1. stack \in Seq(Entries) /\ p[1] \in Holders /\ p[2] \in Holders
        /\ p = <<p[1], p[2]>>
    BY <1>1 DEF IndInv, TypeOK, Entries, Pairs
  <2>2. Len(stack) \in 1 .. Len(stack) /\ stack[Len(stack)][1] = p[1]
    BY <1>1, <2>1, PopFacts DEF MeetsDelegator, Node
  <2>3. Reach(p[2], p[1], edges)
    BY <1>1, <2>2 DEF IndInv, SearchInv
  <2>4. QED
    BY <2>1, <2>3, EdgeClosesCycle
<1>2. IndInv => CyclesAreReal
  BY <1>1 DEF CyclesAreReal
<1>3. QED
  BY <1>2, Invariance, PTL

(* DepthExceeded is answered only when MaxDepth hops lead on from the
   representative. *)
THEOREM RefusedDepthsAreReal == Spec => []DepthIsReal
<1>1. ASSUME IndInv, NEW p \in checking, stack # <<>>, TooDeep
      PROVE  \E y \in Holders : Walk(p[2], y, MaxDepth, edges)
  <2>1. stack \in Seq(Entries)
    BY <1>1 DEF IndInv, TypeOK, Entries
  <2>2. /\ Len(stack) \in 1 .. Len(stack) /\ stack[Len(stack)] = Last(stack)
        /\ Last(stack)[1] \in Holders /\ Last(stack)[2] \in 0 .. MaxDepth
    BY <1>1, <2>1, PopFacts DEF Entries
  <2>3. Last(stack)[2] = MaxDepth
    BY <1>1, <2>2 DEF TooDeep, Depth
  <2>4. Walk(p[2], Last(stack)[1], MaxDepth, edges)
    BY <1>1, <2>2, <2>3 DEF IndInv, SearchInv
  <2>5. QED
    BY <2>2, <2>4
<1>2. IndInv => DepthIsReal
  BY <1>1 DEF DepthIsReal
<1>3. QED
  BY <1>2, Invariance, PTL

-----------------------------------------------------------------------------
(* Open representative voting.  The invariant: what a node has kept is a finite set
   of votes. *)

VotesInv ==
    /\ OrvTypeOK
    /\ IsFiniteSet(cast)
    /\ \A n \in Nodes : IsFiniteSet(kept[n])

LEMMA OrvInitInv == OrvInit => VotesInv
BY OrvAssumption, FS_EmptySet DEF OrvInit, VotesInv, OrvTypeOK

LEMMA OrvStepInv == VotesInv /\ [OrvNext]_orvVars => VotesInv'
<1> SUFFICES ASSUME VotesInv, [OrvNext]_orvVars PROVE VotesInv'
  OBVIOUS
<1>1. ASSUME NEW r \in Representatives, NEW b \in Blocks, NEW s \in StakesOf[r], CastVote(r, b, s)
      PROVE  VotesInv'
  <2>1. NextNonce(r) \in Nat
    <3>1. IsFiniteSet({v \in cast : v.voter = r})
      BY FS_Subset DEF VotesInv
    <3> QED
      BY <3>1, FS_CardinalityType DEF NextNonce
  <2>2. s \in 0 .. MaxU64
    BY OrvAssumption
  <2>3. [block |-> b, voter |-> r, stake |-> s, nonce |-> NextNonce(r), signer |-> r] \in Vote
    BY <2>1, <2>2 DEF Vote
  <2>4. IsFiniteSet(cast')
    BY <1>1, FS_AddElement DEF CastVote, VotesInv
  <2> QED
    BY <1>1, <2>3, <2>4 DEF CastVote, VotesInv, OrvTypeOK
<1>2. ASSUME NEW n \in Nodes, NEW b \in Blocks, Learn(n, b)
      PROVE  VotesInv'
  BY <1>2 DEF Learn, VotesInv, OrvTypeOK
<1>3. ASSUME NEW n \in Nodes, NEW v \in cast \cup Forged, Receive(n, v)
      PROVE  VotesInv'
  <2>1. v \in Vote
    BY OrvAssumption DEF VotesInv, OrvTypeOK
  <2>2. kept' = [kept EXCEPT ![n] = @ \cup {v}] /\ cast' = cast /\ known' = known
    BY <1>3 DEF Receive
  <2>3. OrvTypeOK'
    BY <2>1, <2>2 DEF VotesInv, OrvTypeOK
  <2>4. IsFiniteSet(kept[n] \cup {v})
    BY FS_AddElement DEF VotesInv
  <2>5. \A m \in Nodes : kept'[m] = IF m = n THEN kept[n] \cup {v} ELSE kept[m]
    BY <2>2 DEF VotesInv, OrvTypeOK
  <2>6. \A m \in Nodes : IsFiniteSet(kept'[m])
    BY <2>4, <2>5 DEF VotesInv
  <2> QED
    BY <2>2, <2>3, <2>6 DEF VotesInv
<1>4. CASE UNCHANGED orvVars
  BY <1>4 DEF orvVars, VotesInv, OrvTypeOK
<1> QED
  BY <1>1, <1>2, <1>3, <1>4 DEF OrvNext

(* Whatever votes are cast and in whatever order they arrive, what a node has kept of
   them is a finite set of votes that were cast (cast_vote, resolve_conflict). *)
THEOREM VotesInvariance == OrvSpec => []VotesInv
BY OrvInitInv, OrvStepInv, PTL DEF OrvSpec

(* What a node counts for a block. *)
LEMMA StakeIsNatural ==
    ASSUME VotesInv, NEW n \in Nodes, NEW b
    PROVE  TrueStake(n, b) \in Nat /\ StakeFor(n, b) \in 0 .. MaxU64
<1> DEFINE T == {v \in Collected(n) : v.block = b}
           f == [v \in T |-> v.stake]
<1>1. T \subseteq kept[n] /\ kept[n] \subseteq Vote
  BY DEF Collected, VotesInv, OrvTypeOK
<1>2. IsFiniteSet(T)
  BY <1>1, FS_Subset DEF VotesInv
<1>3. \A v \in T : f[v] \in Nat
  BY <1>1, OrvAssumption DEF Vote
<1>4. SumOver(f, T) \in Nat
  <2> HIDE DEF T, f
  <2> QED
    BY <1>2, <1>3, SumNat
<1>5. TrueStake(n, b) \in Nat
  BY <1>4 DEF TrueStake, SumOfStakes
<1>6. StakeFor(n, b) \in 0 .. MaxU64
  BY <1>5, OrvAssumption DEF StakeFor
<1> QED
  BY <1>5, <1>6

LEMMA DisputedBlocks ==
    ASSUME VotesInv, NEW n \in Nodes, NEW d \in Disputes(n)
    PROVE  d[1] \in Blocks /\ d[2] \in Blocks /\ d[1] # d[2] /\ d[1].hash # d[2].hash
           /\ d[1].hash \in Nat /\ d[2].hash \in Nat
<1>1. PICK group \in DoubleSpends(n) : d \in group \X group /\ d[1] # d[2]
  BY DEF Disputes
<1>2. group \subseteq known[n]
  BY DEF DoubleSpends
<1>3. d[1] \in Blocks /\ d[2] \in Blocks
  BY <1>1, <1>2 DEF VotesInv, OrvTypeOK
<1> QED
  BY <1>1, <1>3, OrvAssumption

(* Which of two disputed blocks wins does not depend on which of them the node
   considers its own (conflict.rs resolve_conflict_orv). *)
THEOREM OrderDoesNotMatter == OrvSpec => []OrderIrrelevant
<1>1. VotesInv => OrderIrrelevant
  <2> SUFFICES ASSUME VotesInv, NEW n \in Nodes, NEW d \in Disputes(n)
      PROVE  Resolve(n, d[1], d[2]) = Resolve(n, d[2], d[1])
    BY DEF OrderIrrelevant
  <2> DEFINE x == StakeFor(n, d[1])
             y == StakeFor(n, d[2])
  <2>1. x \in Nat /\ y \in Nat
    BY StakeIsNatural, OrvAssumption
  <2>2. Decisive(n, d[1], d[2]) <=> Decisive(n, d[2], d[1])
    <3>1. AbsDiff(x, y) = AbsDiff(y, x) /\ x + y = y + x
      BY <2>1 DEF AbsDiff
    <3> HIDE DEF x, y
    <3> QED
      BY <3>1 DEF Decisive, x, y
  <2>3. Decisive(n, d[1], d[2]) => x # y
    <3>1. ASSUME x = y PROVE Saturating(20 * AbsDiff(x, y)) = 0
      BY <2>1, <3>1, OrvAssumption DEF AbsDiff, Saturating
    <3>2. Saturating(x + y) > 0 => ~(0 > Saturating(x + y))
      BY <2>1, OrvAssumption DEF Saturating
    <3> HIDE DEF x, y
    <3> QED
      BY <3>1, <3>2 DEF Decisive, x, y
  <2>4. TieBreak(n, d[1], d[2]) = TieBreak(n, d[2], d[1])
    BY DisputedBlocks DEF TieBreak
  <2> HIDE DEF x, y
  <2> QED
    BY <2>1, <2>2, <2>3, <2>4 DEF Resolve, x, y
<1> QED
  BY <1>1, VotesInvariance, PTL

(* One more vote at a node: what becomes of the sums. *)
LEMMA OneMoreVote ==
    ASSUME VotesInv, NEW n \in Nodes, NEW v \in Vote, NEW b,
           Collected(n)' = Collected(n) \cup {v}, v \notin Collected(n)
    PROVE  TrueStake(n, b)' = TrueStake(n, b) + IF v.block = b THEN v.stake ELSE 0
<1> DEFINE T == {u \in Collected(n) : u.block = b}
           U == {u \in Collected(n)' : u.block = b}
           f == [u \in T |-> u.stake]
           g == [u \in U |-> u.stake]
<1>1. T \subseteq kept[n] /\ kept[n] \subseteq Vote
  BY DEF Collected, VotesInv, OrvTypeOK
<1>2. IsFiniteSet(T)
  BY <1>1, FS_Subset DEF VotesInv
<1>3. TrueStake(n, b) = SumOver(f, T) /\ TrueStake(n, b)' = SumOver(g, U)
  BY DEF TrueStake, SumOfStakes
<1>4. TrueStake(n, b) \in Nat
  BY StakeIsNatural
<1>5. CASE v.block # b
  <2>1. U = T
    BY <1>5
  <2>2. SumOver(g, U) = SumOver(f, T)
    BY <2>1
  <2> QED
    BY <1>3, <1>4, <1>5, <2>2
<1>6. CASE v.block = b
  <2>1. U = T \cup {v} /\ v \notin T
    BY <1>6
  <2>2. \A u \in T \cup {v} : g[u] \in Int
    BY <1>1, <2>1 DEF Vote
  <2>3. SumOver(g, T \cup {v}) = g[v] + SumOver(g, T)
    <3> HIDE DEF T, g
    <3> QED
      BY <1>2, <2>1, <2>2, SumAdd
  <2>4. SumOver(g, T) = SumOver(f, T)
    <3>1. \A u \in T : f[u] = g[u]
      BY <2>1
    <3> HIDE DEF T, f, g
    <3> QED
      BY <1>2, <3>1, SumAgree
  <2>5. g[v] = v.stake /\ v.stake \in Nat
    BY <2>1, OrvAssumption DEF Vote
  <2> HIDE DEF T, U, f, g
  <2> QED
    BY <1>3, <1>4, <1>6, <2>1, <2>3, <2>4, <2>5
<1> QED
  BY <1>5, <1>6

(* As long as sums stay in range, a block wins by more than 5 % or by its hash. *)
Wins(x, y, first) == 19 * x > 21 * y \/ (first /\ ~(19 * y > 21 * x))

LEMMA ResolvedInRange ==
    ASSUME NEW S \in Nat, NEW T \in Nat, S + T < MaxU64
    PROVE  /\ S % (MaxU64 + 1) = S /\ T % (MaxU64 + 1) = T
           /\ (Saturating(S + T) > 0 /\ Saturating(20 * AbsDiff(S, T)) > Saturating(S + T))
                <=> (19 * S > 21 * T \/ 19 * T > 21 * S)
           /\ 19 * S > 21 * T => S > T
           /\ 19 * T > 21 * S => ~(S > T)
<1>1. S % (MaxU64 + 1) = S /\ T % (MaxU64 + 1) = T
  BY OrvAssumption
<1>2. Saturating(S + T) = S + T
  BY OrvAssumption DEF Saturating
<1>3. CASE S > T
  BY <1>1, <1>2, <1>3, OrvAssumption DEF AbsDiff, Saturating
<1>4. CASE ~(S > T)
  BY <1>1, <1>2, <1>4, OrvAssumption DEF AbsDiff, Saturating
<1> QED
  BY <1>3, <1>4

(* The winner for given sums of stakes. *)
Outcome(x, y, b, c) ==
    IF Saturating(x + y) > 0 /\ Saturating(20 * AbsDiff(x, y)) > Saturating(x + y)
    THEN IF x > y THEN b ELSE c
    ELSE IF b.hash <= c.hash THEN b ELSE c

LEMMA OutcomeInRange ==
    ASSUME NEW S \in Nat, NEW T \in Nat, S + T < MaxU64, NEW b, NEW c
    PROVE  Outcome(S % (MaxU64 + 1), T % (MaxU64 + 1), b, c) =
             IF Wins(S, T, b.hash <= c.hash) THEN b ELSE c
<1>1. /\ S % (MaxU64 + 1) = S /\ T % (MaxU64 + 1) = T
      /\ (Saturating(S + T) > 0 /\ Saturating(20 * AbsDiff(S, T)) > Saturating(S + T))
           <=> (19 * S > 21 * T \/ 19 * T > 21 * S)
      /\ 19 * S > 21 * T => S > T
      /\ 19 * T > 21 * S => ~(S > T)
  BY ResolvedInRange
<1>2. Outcome(S % (MaxU64 + 1), T % (MaxU64 + 1), b, c) = Outcome(S, T, b, c)
  BY <1>1
<1>3. Outcome(S, T, b, c) =
        IF 19 * S > 21 * T \/ 19 * T > 21 * S
        THEN IF S > T THEN b ELSE c
        ELSE IF b.hash <= c.hash THEN b ELSE c
  BY <1>1 DEF Outcome
<1> QED
  BY <1>1, <1>2, <1>3 DEF Wins

LEMMA ResolveIsOutcome ==
    ASSUME NEW n, NEW b, NEW c
    PROVE  /\ Resolve(n, b, c) =
                Outcome(TrueStake(n, b) % (MaxU64 + 1), TrueStake(n, c) % (MaxU64 + 1), b, c)
           /\ Resolve(n, b, c)' =
                Outcome(TrueStake(n, b)' % (MaxU64 + 1), TrueStake(n, c)' % (MaxU64 + 1), b, c)
BY DEF Resolve, Decisive, TieBreak, StakeFor, Outcome

LEMMA MoreForOne ==
    ASSUME NEW S \in Nat, NEW T \in Nat, NEW k \in Nat, NEW b, NEW c
    PROVE  /\ Wins(S, T, b.hash <= c.hash) => Wins(S + k, T, b.hash <= c.hash)
           /\ ~Wins(S, T, b.hash <= c.hash) => ~Wins(S, T + k, b.hash <= c.hash)
<1>1. 19 * (S + k) = 19 * S + 19 * k /\ 21 * (S + k) = 21 * S + 21 * k
      /\ 19 * (T + k) = 19 * T + 19 * k /\ 21 * (T + k) = 21 * T + 21 * k
  OBVIOUS
<1> QED
  BY <1>1 DEF Wins

(* A dispute turns only by a vote for the block that now wins, unless a sum wraps or
   saturates (conflict.rs resolve_conflict_orv, vote.rs verify_vote_known). *)
THEOREM OnlyVotesTurn == OrvSpec => TurnedByVotesOnly
<1> DEFINE Turned(n, d) ==
             Resolve(n, d[1], d[2])' # Resolve(n, d[1], d[2]) /\ InRange(n) /\ InRange(n)' =>
               \E v \in Collected(n)' \ Collected(n) : v.block = Resolve(n, d[1], d[2])'
<1>1. ASSUME VotesInv, VotesInv', [OrvNext]_orvVars, NEW n \in Nodes, NEW d \in Disputes(n)
      PROVE  Turned(n, d)
  <2>1. SUFFICES ASSUME Resolve(n, d[1], d[2])' # Resolve(n, d[1], d[2]), InRange(n), InRange(n)'
                 PROVE  \E v \in Collected(n)' \ Collected(n) : v.block = Resolve(n, d[1], d[2])'
    OBVIOUS
  <2> DEFINE b == d[1]
             c == d[2]
             S == TrueStake(n, b)
             T == TrueStake(n, c)
             S1 == TrueStake(n, b)'
             T1 == TrueStake(n, c)'
             first == b.hash <= c.hash
  <2>2. b \in Blocks /\ c \in Blocks /\ b # c /\ b.hash \in Nat /\ c.hash \in Nat
    BY <1>1, DisputedBlocks
  <2>3. S \in Nat /\ T \in Nat /\ S + T < MaxU64 /\ S1 + T1 < MaxU64 /\ first \in BOOLEAN
    BY <1>1, <2>1, <2>2, StakeIsNatural DEF InRange
  <2>4. Collected(n)' # Collected(n)
    <3>1. ASSUME Collected(n)' = Collected(n) PROVE S1 = S /\ T1 = T
      BY <3>1 DEF TrueStake
    <3> QED
      BY <2>1, <3>1, ResolveIsOutcome
  <2>5. PICK v \in cast \cup Forged : Receive(n, v)
    <3>1. kept'[n] # kept[n]
      BY <2>4 DEF Collected
    <3>2. ASSUME NEW m \in Nodes, NEW v \in cast \cup Forged, Receive(m, v) PROVE m = n
      BY <1>1, <3>1, <3>2 DEF Receive, VotesInv, OrvTypeOK
    <3> QED
      BY <1>1, <3>1, <3>2 DEF OrvNext, orvVars, CastVote, Learn
  <2>6. v \in Vote
    BY <1>1, OrvAssumption DEF VotesInv, OrvTypeOK
  <2>7. kept'[n] = kept[n] \cup {v}
    BY <1>1, <2>5 DEF Receive, VotesInv, OrvTypeOK
  <2>8. Collected(n)' = Collected(n) \cup {v} /\ v \notin Collected(n)
    BY <2>4, <2>7 DEF Collected
  <2>9. /\ S1 = S + IF v.block = b THEN v.stake ELSE 0
        /\ T1 = T + IF v.block = c THEN v.stake ELSE 0
        /\ v.stake \in Nat
    BY <1>1, <2>6, <2>8, OneMoreVote, OrvAssumption DEF Vote
  <2> HIDE DEF S, T, S1, T1, b, c, first
  <2>10. S1 \in Nat /\ T1 \in Nat
    BY <2>3, <2>9
  <2>11. /\ Resolve(n, b, c) = IF Wins(S, T, first) THEN b ELSE c
         /\ Resolve(n, b, c)' = IF Wins(S1, T1, first) THEN b ELSE c
    <3>1. Outcome(S % (MaxU64 + 1), T % (MaxU64 + 1), b, c) = IF Wins(S, T, first) THEN b ELSE c
      BY <2>3, OutcomeInRange DEF first
    <3>2. Outcome(S1 % (MaxU64 + 1), T1 % (MaxU64 + 1), b, c) = IF Wins(S1, T1, first) THEN b ELSE c
      BY <2>3, <2>10, OutcomeInRange DEF first
    <3> QED
      BY <3>1, <3>2, ResolveIsOutcome DEF S, T, S1, T1, b, c
  <2>12. ~(Wins(S, T, first) <=> Wins(S1, T1, first))
    BY <2>1, <2>11 DEF b, c
  <2>13. v.block = Resolve(n, b, c)'
    <3>1. CASE v.block = b
      <4>1. S1 = S + v.stake /\ T1 = T
        BY <2>2, <2>3, <2>9, <3>1 DEF b, c
      <4>2. Wins(S, T, first) => Wins(S + v.stake, T, first)
        BY <2>3, <2>9, MoreForOne DEF first
      <4> QED
        BY <2>11, <2>12, <3>1, <4>1, <4>2
    <3>2. CASE v.block = c
      <4>1. T1 = T + v.stake /\ S1 = S
        BY <2>2, <2>3, <2>9, <3>2 DEF b, c
      <4>2. ~Wins(S, T, first) => ~Wins(S, T + v.stake, first)
        BY <2>3, <2>9, MoreForOne DEF first
      <4> QED
        BY <2>11, <2>12, <3>2, <4>1, <4>2
    <3>3. CASE v.block # b /\ v.block # c
      BY <2>3, <2>9, <2>12, <3>3
    <3> QED
      BY <3>1, <3>2, <3>3
  <2> QED
    BY <2>8, <2>13 DEF b, c
<1>2. VotesInv /\ VotesInv' /\ [OrvNext]_orvVars =>
        [\A n \in Nodes : \A d \in Disputes(n) : Turned(n, d)]_orvVars
  BY <1>1
<1>3. [\A n \in Nodes : \A d \in Disputes(n) : Turned(n, d)]_orvVars =>
        [\A n \in Nodes : \A p \in Disputes(n) :
          LET now == Resolve(n, p[1], p[2])' IN
          now # Resolve(n, p[1], p[2]) /\ InRange(n) /\ InRange(n)' =>
            \E v \in Collected(n)' \ Collected(n) : v.block = now]_orvVars
  OBVIOUS
<1> HIDE DEF Turned
<1> QED
  BY <1>2, <1>3, VotesInvariance, PTL DEF OrvSpec, TurnedByVotesOnly
=============================================================================
