---------------------------- MODULE Reassembler -----------------------------
(***************************************************************************)
(* The fragment reassembler (arxia-transport/src/reassembly.rs).  The mesh *)
(* delivers every signed fragment any number of times, in any order and    *)
(* interleaved with the fragments of any other message and peer, or never. *)
(*                                                                         *)
(* A fragment whose signature does not verify changes nothing, and neither *)
(* does one that is malformed, contradicts what is there or is there       *)
(* already: those calls are no steps.                                      *)
(***************************************************************************)
EXTENDS Integers, Sequences, SequencesExt, FiniteSets

CONSTANTS
    Peers, Ids, Payloads,
    Fragments,      \* everything the peers have signed
    MaxInflight,    \* MAX_INFLIGHT_MESSAGES_PER_PEER
    MaxU64,         \* u64::MAX
    Vacant,         \* the None of a slot
    NoMessage       \* the Ok(None) of feed

ASSUME ReassemblerAssumption ==
    /\ Fragments \subseteq [peer : Peers, id : Ids, seq : Nat, total : Nat,
                            payload : Payloads]
    /\ MaxInflight \in Nat \ {0}
    /\ MaxU64 \in Nat
    /\ Vacant \notin Payloads
    /\ \A n \in {f.total : f \in Fragments} :
          NoMessage \notin [peer : Peers, id : Ids, body : [0 .. n - 1 -> Payloads]]

VARIABLES
    queues,     \* Reassembler.peers: per peer its PendingMessages, oldest first
    evicted,    \* Reassembler.evicted
    last        \* what the last call of feed that took its fragment returned

vars == <<queues, evicted, last>>

Totals == {f.total : f \in Fragments}

(* PendingMessage, with the message_id it is queued under. *)
Pending ==
    UNION {[id : Ids, total : {n}, slots : [0 .. n - 1 -> Payloads \cup {Vacant}],
            filled : 1 .. n - 1] : n \in Totals}

Init ==
    /\ queues = [p \in Peers |-> <<>>]
    /\ evicted = 0
    /\ last = NoMessage

-----------------------------------------------------------------------------
(* feed *)

WellFormed(f) == f.total # 0 /\ f.seq < f.total

IsOpen(q, f) == \E i \in DOMAIN q : q[i].id = f.id

IsFull(q) == Len(q) >= MaxInflight

(* Mutant of Room: evicts one message too early. *)
RoomEarly(q) == IF Len(q) + 1 >= MaxInflight /\ q # <<>> THEN Tail(q) ELSE q

Room(q) == IF IsFull(q) THEN Tail(q) ELSE q

Blank(f) ==
    [id |-> f.id, total |-> f.total,
     slots |-> [s \in 0 .. f.total - 1 |-> Vacant], filled |-> 0]

(* The queue with an entry for the message of f, found or made. *)
Opened(q, f) == IF IsOpen(q, f) THEN q ELSE Append(Room(q), Blank(f))

(* Mutant of Accepts: a fragment that is there already is counted again. *)
AcceptsAgain(m, f) ==
    m.id = f.id /\ m.total = f.total /\ m.slots[f.seq] \in {Vacant, f.payload}

(* No TotalMismatch, no PayloadMismatch, no duplicate. *)
Accepts(m, f) == m.id = f.id /\ m.total = f.total /\ m.slots[f.seq] = Vacant

Filled(m, f) ==
    [id |-> m.id, total |-> m.total,
     slots |-> [m.slots EXCEPT ![f.seq] = f.payload], filled |-> m.filled + 1]

(* The eviction that opening an entry for f costs. *)
CountEviction(f) ==
    evicted' = IF ~IsOpen(queues[f.peer], f) /\ IsFull(queues[f.peer]) /\ evicted < MaxU64
               THEN evicted + 1 ELSE evicted

(* feed returns Ok(None): the message is still partial. *)
Store(f) ==
    /\ WellFormed(f)
    /\ LET q == Opened(queues[f.peer], f) IN
       \E i \in DOMAIN q :
          /\ Accepts(q[i], f)
          /\ q[i].filled + 1 # q[i].total
          /\ queues' = [queues EXCEPT ![f.peer] = [q EXCEPT ![i] = Filled(q[i], f)]]
    /\ CountEviction(f)
    /\ last' = NoMessage

(* feed returns the message, and no entry for it remains.  A message of a single
   fragment has its entry made, at the cost of another if the queue is full, and
   removed in the same call. *)
Complete(f) ==
    /\ WellFormed(f)
    /\ LET q == Opened(queues[f.peer], f) IN
       \E i \in DOMAIN q :
          /\ Accepts(q[i], f)
          /\ q[i].filled + 1 = q[i].total
          /\ queues' = [queues EXCEPT ![f.peer] = RemoveAt(q, i)]
          /\ last' = [peer |-> f.peer, id |-> f.id, body |-> Filled(q[i], f).slots]
    /\ CountEviction(f)

Feed(f) == Store(f) \/ Complete(f)

Next == \E f \in Fragments : Feed(f)

Spec == Init /\ [][Next]_vars

-----------------------------------------------------------------------------
(* A message is handed over only as a whole, and every piece of it was signed by its
   peer for that place of that message: nothing is mixed in from another peer,
   another message or a message of another length. *)
WholeMessages ==
    last # NoMessage =>
      \A s \in DOMAIN last.body :
        \E f \in Fragments :
          /\ f.peer = last.peer /\ f.id = last.id /\ f.seq = s
          /\ DOMAIN last.body = 0 .. f.total - 1
          /\ f.payload = last.body[s]

(* The refinement mapping: the fragments that are in some slot. *)
Held ==
    {f \in Fragments :
        /\ WellFormed(f)
        /\ \E i \in DOMAIN queues[f.peer] :
              LET m == queues[f.peer][i] IN
              m.id = f.id /\ m.total = f.total /\ m.slots[f.seq] = f.payload}

R == INSTANCE Reassembly WITH held <- Held

(* However many messages are open, whatever is repeated, contradicted or evicted,
   the reassembler behaves as a set of fragments: in particular no peer can make it
   forget a fragment of another, nor hand a message over twice on one set of
   fragments. *)
MeetsReassembly == R!Spec

(* A peer that gives each message one length and each place one payload, sends
   every piece and has no more than MaxInflight messages. *)
Steady ==
    {p \in Peers :
        LET F == {f \in Fragments : f.peer = p} IN
        /\ Cardinality({f.id : f \in F}) <= MaxInflight
        /\ \A f, g \in F : f.id = g.id =>
              f.total = g.total /\ (f.seq = g.seq => f = g)
        /\ \A f \in F : WellFormed(f) /\
              \A s \in 0 .. f.total - 1 : \E g \in F : g.id = f.id /\ g.seq = s}

(* Such a peer repeats its fragments until they arrive; nothing is asked of the
   others. *)
Fairness == \A f \in Fragments : f.peer \in Steady => WF_vars(Feed(f))

FairSpec == Spec /\ Fairness

(* Whatever other peers do, every message of a steady peer gets through. *)
EveryMessageArrives ==
    \A f \in Fragments : f.peer \in Steady =>
        []<>(last # NoMessage /\ last.peer = f.peer /\ last.id = f.id)

-----------------------------------------------------------------------------
(* The inductive invariant. *)

TypeOK ==
    /\ queues \in [Peers -> Seq(Pending)]
    /\ evicted \in 0 .. MaxU64
    /\ \/ last = NoMessage
       \/ \E n \in Totals : last \in [peer : Peers, id : Ids, body : [0 .. n - 1 -> Payloads]]

QueuesBounded == \A p \in Peers : Len(queues[p]) <= MaxInflight

OneEntryPerId ==
    \A p \in Peers : \A i, j \in DOMAIN queues[p] :
        queues[p][i].id = queues[p][j].id => i = j

FullSlots(m) == {s \in 0 .. m.total - 1 : m.slots[s] # Vacant}

(* The counter that decides when a message is complete tells the truth. *)
FilledCounts ==
    \A p \in Peers : \A i \in DOMAIN queues[p] :
        queues[p][i].filled = Cardinality(FullSlots(queues[p][i]))

SlotsSigned ==
    \A p \in Peers : \A i \in DOMAIN queues[p] :
        \A s \in FullSlots(queues[p][i]) :
            \E f \in Fragments :
                /\ f.peer = p /\ f.id = queues[p][i].id /\ f.total = queues[p][i].total
                /\ f.seq = s /\ f.payload = queues[p][i].slots[s]

IndInv ==
    /\ TypeOK
    /\ QueuesBounded
    /\ OneEntryPerId
    /\ FilledCounts
    /\ SlotsSigned
    /\ WholeMessages
=============================================================================
