----------------------------- MODULE Delegation -----------------------------
(***************************************************************************)
(* The delegation graph (arxia-consensus/src/delegation.rs): who has lent  *)
(* the voting power of their stake to whom.  A new edge is admitted after  *)
(* a depth-first search from the representative has not met the delegator. *)
(*                                                                         *)
(* The search pushes the neighbours of a node in the iteration order of a  *)
(* HashSet, which differs between processes and runs, so it is modelled    *)
(* step by step, one iteration of its loop at a time.  `delegate` borrows  *)
(* the graph exclusively: no other call happens while a search is running. *)
(* Amounts and creation times do not influence the shape of the graph and  *)
(* are left out, and with them the delegation of an edge that exists.      *)
(***************************************************************************)
EXTENDS Integers, Sequences, SequencesExt, FiniteSets

CONSTANTS
    Holders,    \* accounts, as delegators and as representatives
    MaxDepth    \* MAX_DELEGATION_DEPTH

ASSUME DelegationAssumption == IsFiniteSet(Holders) /\ MaxDepth \in Nat

Pairs == Holders \X Holders

VARIABLES
    edges,      \* the keys of DelegationGraph.edges, <<delegator, representative>>
    adjacency,  \* DelegationGraph.adjacency, {} for a delegator it does not hold
    checking,   \* the pair `delegate` is working on: a set of at most one pair
    stack,      \* the search's stack of <<node, depth>>
    visited     \* the nodes the search has expanded

graphVars == <<edges, adjacency>>
searchVars == <<checking, stack, visited>>
vars == <<graphVars, searchVars>>

TypeOK ==
    /\ edges \subseteq Pairs
    /\ adjacency \in [Holders -> SUBSET Holders]
    /\ checking \subseteq Pairs
    /\ stack \in Seq(Holders \X (0 .. MaxDepth))
    /\ visited \subseteq Holders

(* DelegationGraph::new *)
Init ==
    /\ edges = {}
    /\ adjacency = [d \in Holders |-> {}]
    /\ checking = {}
    /\ stack = <<>>
    /\ visited = {}

-----------------------------------------------------------------------------
(* delegate *)

(* delegate of a new edge: the search begins at the representative, since a path
   from there to the delegator is what the edge would close. *)
Delegate(d, r) ==
    /\ checking = {}
    /\ d # r
    /\ <<d, r>> \notin edges
    /\ checking' = {<<d, r>>}
    /\ stack' = << <<r, 0>> >>
    /\ visited' = {}
    /\ UNCHANGED graphVars

(* The entry the loop takes from the stack next. *)
Node == Last(stack)[1]
Depth == Last(stack)[2]

(* Mutant of MeetsDelegator: only two delegations that face each other. *)
MeetsDelegatorDirectly(p) == Node = p[1] /\ Depth <= 1

MeetsDelegator(p) == Node = p[1]

(* Mutant of TooDeep: one hop too strict. *)
TooDeepByOne == Depth + 1 >= MaxDepth

TooDeep == Depth >= MaxDepth

EndCheck ==
    /\ checking' = {}
    /\ stack' = <<>>
    /\ visited' = {}

(* CycleDetected: the search has met the delegator. *)
RefuseCycle(p) ==
    /\ stack # <<>>
    /\ MeetsDelegator(p)
    /\ EndCheck
    /\ UNCHANGED graphVars

(* DepthExceeded *)
RefuseDepth(p) ==
    /\ stack # <<>>
    /\ ~MeetsDelegator(p)
    /\ TooDeep
    /\ EndCheck
    /\ UNCHANGED graphVars

(* A node that was expanded before is dropped. *)
Skip(p) ==
    /\ stack # <<>>
    /\ ~MeetsDelegator(p)
    /\ ~TooDeep
    /\ Node \in visited
    /\ stack' = Front(stack)
    /\ UNCHANGED <<graphVars, checking, visited>>

(* Another node is expanded: its neighbours go on the stack in any order. *)
Expand(p) ==
    /\ stack # <<>>
    /\ ~MeetsDelegator(p)
    /\ ~TooDeep
    /\ Node \notin visited
    /\ visited' = visited \cup {Node}
    /\ \E order \in SetToSeqs(adjacency[Node]) :
          stack' = Front(stack) \o [i \in 1 .. Len(order) |-> <<order[i], Depth + 1>>]
    /\ UNCHANGED <<graphVars, checking>>

(* The search has ended without meeting the delegator. *)
Insert(p) ==
    /\ stack = <<>>
    /\ edges' = edges \cup {p}
    /\ adjacency' = [adjacency EXCEPT ![p[1]] = @ \cup {p[2]}]
    /\ EndCheck

-----------------------------------------------------------------------------
(* revoke *)

(* revoke with a signed revocation of the pair.  Its nonce is signed but not
   compared with anything: an old revocation serves as well as a new one. *)
Revoke(d, r) ==
    /\ checking = {}
    /\ <<d, r>> \in edges
    /\ edges' = edges \ {<<d, r>>}
    /\ adjacency' = [adjacency EXCEPT ![d] = @ \ {r}]
    /\ UNCHANGED searchVars

Next ==
    \/ \E d, r \in Holders : Delegate(d, r) \/ Revoke(d, r)
    \/ \E p \in checking :
          RefuseCycle(p) \/ RefuseDepth(p) \/ Skip(p) \/ Expand(p) \/ Insert(p)

Spec == Init /\ [][Next]_vars

-----------------------------------------------------------------------------
(* The two maps of the graph describe the same edges: a revocation followed by
   a new delegation never searches a stale list. *)
AdjacencyMatchesEdges ==
    \A d, r \in Holders : r \in adjacency[d] <=> <<d, r>> \in edges

(* No cycle among the nodes: every set of them has one without an edge into
   the set. *)
Acyclic(E) ==
    \A S \in SUBSET Holders :
        S # {} => \E x \in S : \A y \in S : <<x, y>> \notin E

(* "No cycles": delegated voting power never comes back to its delegator,
   in whatever order the searches walked the graph. *)
NoDelegationCycle == Acyclic(edges)

(* A delegation is refused as a cycle only when its edge would close one. *)
CyclesAreReal ==
    \A p \in checking :
        stack # <<>> /\ MeetsDelegator(p) => ~Acyclic(edges \cup {p})

(* A walk of n hops from x to y. *)
Walk(x, y, n, E) ==
    \E path \in [0 .. n -> Holders] :
        /\ path[0] = x
        /\ path[n] = y
        /\ \A i \in 1 .. n : <<path[i-1], path[i]>> \in E

(* A delegation is refused as too deep only when a chain of MaxDepth hops leads
   on from its representative. *)
DepthIsReal ==
    \A p \in checking :
        stack # <<>> /\ ~MeetsDelegator(p) /\ TooDeep =>
          \E y \in Holders : Walk(p[2], y, MaxDepth, edges)

-----------------------------------------------------------------------------
(* The inductive invariant of the proofs. *)

(* No edge leads out of V. *)
Closed(V, E) == \A x \in V : \A y \in Holders : <<x, y>> \in E => y \in V

(* y is in every closed set that x is in: some chain of edges leads there. *)
Reach(x, y, E) == \A V \in SUBSET Holders : x \in V /\ Closed(V, E) => y \in V

Stacked(s) == {s[i][1] : i \in 1 .. Len(s)}

(* What a search has established: the delegator has not been expanded; what
   the expanded nodes lead to is expanded or on the stack; and whatever is on the
   stack was reached by as many hops as its depth says. *)
SearchInv ==
    /\ \A p, q \in checking : p = q
    /\ \A p \in checking :
         /\ p[1] \notin visited
         /\ p[2] \in visited \cup Stacked(stack)
         /\ \A x \in visited : \A y \in Holders :
               <<x, y>> \in edges => y \in visited \cup Stacked(stack)
         /\ \A i \in 1 .. Len(stack) :
               /\ Reach(p[2], stack[i][1], edges)
               /\ Walk(p[2], stack[i][1], stack[i][2], edges)

IndInv ==
    /\ TypeOK
    /\ AdjacencyMatchesEdges
    /\ NoDelegationCycle
    /\ SearchInv
=============================================================================
