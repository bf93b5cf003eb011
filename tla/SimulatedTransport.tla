------------------------- MODULE SimulatedTransport -------------------------
(***************************************************************************)
(* SimulatedTransport of arxia-transport/src/sim/simulated.rs, one for     *)
(* each node, as operators on the record of its queues.  The packet loss   *)
(* of the pseudo-random generator is a choice.                             *)
(***************************************************************************)
EXTENDS Naturals, Sequences

CONSTANTS
    InboxCapacity, OutboxCapacity,
    Mtu,
    Latency,    \* latency_ms
    MaxTime     \* u64::MAX: of the clock, and of the count of messages dropped

(* with_capacity_and_seed clamps both capacities to at least 1. *)
ASSUME TransportAssumption ==
    /\ InboxCapacity \in Nat \ {0} /\ OutboxCapacity \in Nat \ {0}
    /\ Mtu \in Nat /\ Latency \in Nat /\ MaxTime \in Nat

(* saturating_add *)
Saturated(x) == IF x > MaxTime THEN MaxTime ELSE x

New == [inbox |-> <<>>, scheduled_inbox |-> <<>>, outbox |-> <<>>, inbox_dropped |-> 0]

(* Mutant of Injected: when the inbox is full, the new message is dropped. *)
InjectedUnlessFull(t, m) ==
    IF Len(t.inbox) >= InboxCapacity
    THEN [t EXCEPT !.inbox_dropped = Saturated(@ + 1)]
    ELSE [t EXCEPT !.inbox = Append(@, m)]

(* inject_message *)
Injected(t, m) ==
    IF Len(t.inbox) >= InboxCapacity
    THEN [t EXCEPT !.inbox = Append(Tail(@), m), !.inbox_dropped = Saturated(@ + 1)]
    ELSE [t EXCEPT !.inbox = Append(@, m)]

(* inject_message_with_arrival *)
Scheduled(t, m, sentAt) ==
    [t EXCEPT !.scheduled_inbox =
        Append(@, [deliver_at |-> Saturated(sentAt + Latency), message |-> m])]

(* try_recv *)
CanRecv(t) == t.inbox # <<>>
Received(t) == [t EXCEPT !.inbox = Tail(@)]

(* Mutant of CanRecvAt: a message is held until after the moment it is due. *)
CanRecvAfter(t, now) ==
    t.scheduled_inbox # <<>> /\ Head(t.scheduled_inbox).deliver_at < now

(* try_recv_at *)
CanRecvAt(t, now) ==
    t.scheduled_inbox # <<>> /\ Head(t.scheduled_inbox).deliver_at <= now

ReceivedAt(t) == [t EXCEPT !.scheduled_inbox = Tail(@)]

(* send: what it answers, and the transport after it *)
SendResults(t, size) ==
    IF size > Mtu THEN {"PayloadTooLarge"}
    ELSE IF Len(t.outbox) >= OutboxCapacity THEN {"BackPressure"}
    ELSE {"Ok", "MessageLost"}

AfterSend(t, m, result) == IF result = "Ok" THEN [t EXCEPT !.outbox = Append(@, m)] ELSE t
=============================================================================
