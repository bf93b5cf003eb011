------------------------------- MODULE Radio --------------------------------
(***************************************************************************)
(* Nodes that announce blocks to each other: a block is signed, written in *)
(* its compact form, announced in a signed gossip message, wrapped in a    *)
(* signed transport message and sent; what arrives goes the way back, and  *)
(* is relayed with one hop less.                                           *)
(*                                                                         *)
(* The code has no loop that ties these parts together; the order is the   *)
(* one message.rs gives for a relayer.  It does not say who signs what is  *)
(* relayed, so a node may sign the announcement anew or pass it on with    *)
(* the signature it came with.  What is sent reaches the other nodes in    *)
(* order; a faulty carrier may also hand over copies that are late,        *)
(* repeated or garbled.                                                    *)
(***************************************************************************)
EXTENDS GossipMessages, Sequences, FiniteSets, SimulatedTransport

CONSTANTS
    Nodes,          \* which are the Keys they sign with
    Beginners,      \* the nodes that begin messages of their own
    Parties,        \* texts the destination of a Send may be given as
    Originals,      \* the kind, size and hops of the messages nodes begin with
    MaxOriginals,   \* bound: how many of them are made
    MaxFaults       \* bound: copies handed over by the faulty carrier

ASSUME RadioAssumption ==
    /\ Nodes = Keys /\ Beginners \subseteq Nodes
    /\ \A o \in Originals : o.hops \in Nat

VARIABLES
    transport,  \* the SimulatedTransport of each node
    now,        \* the clock, in milliseconds
    delivered,  \* how many messages of each outbox each other node was handed
    originals, faults,      \* counts, for the bounds
    blocks,     \* history: the blocks signed
    said,       \* history: the messages each node has announced or relayed, signed by it
    heard,      \* history: the envelopes each node has acted on, with the block in them
    arrived, taken  \* history: what was injected, how many try_recv has returned

radioVars == <<transport, now, delivered, originals, faults, blocks, said, heard, arrived, taken>>

NoBlock == Zeros

RadioInit ==
    /\ transport = [n \in Nodes |-> New]
    /\ now = 0
    /\ delivered = [n \in Nodes |-> [m \in Nodes |-> 0]]
    /\ originals = 0 /\ faults = 0
    /\ blocks = {}
    /\ said = [n \in Nodes |-> {}]
    /\ heard = [n \in Nodes |-> {}]
    /\ arrived = [n \in Nodes |-> <<>>]
    /\ taken = [n \in Nodes |-> 0]

-----------------------------------------------------------------------------
(* A first block of the account, and a payment after it. *)
Opening(n) == NewBlock(n, Empty, "Open", 1, Empty)
Payment(n, party) == NewBlock(n, Hex(Opening(n).hash), "Send", 1, party)

(* Node n sends the envelope e on a transport that is t by now. *)
Send(n, t, e, result) ==
    /\ result \in SendResults(t, e.message.size)
    /\ transport' = [transport EXCEPT ![n] = AfterSend(t, Broadcast(n, e), result)]

(* A node signs a block and announces it, if it can be written. *)
Announce(n, b, original, result) ==
    LET m == [kind |-> original.kind, size |-> original.size, hops |-> original.hops,
              block |-> ToCompact(b)] IN
    /\ originals < MaxOriginals
    /\ originals' = originals + 1
    /\ blocks' = blocks \cup {b}
    /\ IF m.block = Fail
       THEN result = "Ok" /\ UNCHANGED <<transport, said>>
       ELSE Send(n, transport[n], Envelope(n, m), result)
            /\ said' = [said EXCEPT ![n] = @ \cup {m}]
    /\ UNCHANGED <<now, delivered, faults, heard, arrived, taken>>

(* The messages without a block: Ping, NonceSyncRequest, NonceSyncResponse. *)
Tell(n, original, result) ==
    LET m == [kind |-> original.kind, size |-> original.size, hops |-> 0, block |-> NoBlock] IN
    /\ originals < MaxOriginals
    /\ originals' = originals + 1
    /\ Send(n, transport[n], Envelope(n, m), result)
    /\ said' = [said EXCEPT ![n] = @ \cup {m}]
    /\ UNCHANGED <<now, delivered, faults, blocks, heard, arrived, taken>>

-----------------------------------------------------------------------------
(* The carrier *)

(* t is handed to n at once, or with the latency of the link. *)
Hand(n, t, at_once) ==
    IF at_once
    THEN /\ transport' = [transport EXCEPT ![n] = Injected(@, t)]
         /\ arrived' = [arrived EXCEPT ![n] = Append(@, t)]
    ELSE /\ transport' = [transport EXCEPT ![n] = Scheduled(@, t, now)]
         /\ UNCHANGED arrived

Deliver(n, m, at_once) ==
    /\ n # m
    /\ delivered[n][m] < Len(transport[n].outbox)
    /\ delivered' = [delivered EXCEPT ![n][m] = @ + 1]
    /\ Hand(m, transport[n].outbox[delivered[n][m] + 1], at_once)
    /\ UNCHANGED <<now, originals, faults, blocks, said, heard, taken>>

(* A message with one of its fields changed. *)
Garbled(t) ==
    {[t EXCEPT !.payload.message.hops = @ + 1],
     [t EXCEPT !.payload.message.block = Zeros],
     [t EXCEPT !.payload.signature = Zeros],
     [t EXCEPT !.signature = Zeros]}
    \cup {[t EXCEPT !.from = Hex(k)] : k \in Keys}
    \cup {[t EXCEPT !.payload.sender_pubkey = k] : k \in Keys}
    \cup IF t.payload.message.block = NoBlock THEN {}
         ELSE {[t EXCEPT !.payload.message.block.tag = g] : g \in Tags}
              \cup {[t EXCEPT !.payload.message.block.figures = @ + 1]}

(* A copy of what n has sent comes to m once more, or garbled. *)
Fault(n, m, at_once) ==
    /\ faults < MaxFaults
    /\ faults' = faults + 1
    /\ \E i \in 1 .. Len(transport[n].outbox) :
          \E t \in Garbled(transport[n].outbox[i]) \cup {transport[n].outbox[i]} :
              Hand(m, t, at_once)
    /\ UNCHANGED <<now, delivered, originals, blocks, said, heard, taken>>

-----------------------------------------------------------------------------
(* The receiver *)

(* The block of a message, if it carries one. *)
BlockOf(m) == IF m.kind = "BlockAnnounce" THEN FromCompact(m.block) ELSE NoBlock

Acceptable(t) ==
    /\ TransportVerifies(t)
    /\ EnvelopeVerifies(t.payload)
    /\ t.payload.message.kind = "BlockAnnounce" =>
         BlockOf(t.payload.message) # Fail /\ VerifyBlock(BlockOf(t.payload.message))

(* Node n acts on t, having taken it off a queue of its transport, which is now
   `rest`, and relays it if it may. *)
Handle(n, t, rest, anew, result) ==
    IF ~Acceptable(t)
    THEN /\ result = "Ok" /\ anew
         /\ transport' = [transport EXCEPT ![n] = rest]
         /\ UNCHANGED <<said, heard>>
    ELSE LET m == t.payload.message
             next == Decremented(m)
         IN /\ heard' = [heard EXCEPT ![n] =
                  @ \cup {[from |-> Unhex(t.from), message |-> m,
                           sender |-> t.payload.sender_pubkey, block |-> BlockOf(m)]}]
            /\ IF MayRelay(m)
               THEN /\ Send(n, rest, IF anew THEN Envelope(n, next)
                                     ELSE [t.payload EXCEPT !.message = next], result)
                    /\ said' = IF anew THEN [said EXCEPT ![n] = @ \cup {next}] ELSE said
               ELSE /\ result = "Ok" /\ anew
                    /\ transport' = [transport EXCEPT ![n] = rest]
                    /\ UNCHANGED said

Recv(n, anew, result) ==
    /\ CanRecv(transport[n])
    /\ Handle(n, Head(transport[n].inbox), Received(transport[n]), anew, result)
    /\ taken' = [taken EXCEPT ![n] = @ + 1]
    /\ UNCHANGED <<now, delivered, originals, faults, blocks, arrived>>

RecvAt(n, anew, result) ==
    /\ CanRecvAt(transport[n], now)
    /\ Handle(n, Head(transport[n].scheduled_inbox).message, ReceivedAt(transport[n]), anew, result)
    /\ UNCHANGED <<now, delivered, originals, faults, blocks, arrived, taken>>

Tick ==
    /\ now < MaxTime
    /\ now' = now + 1
    /\ UNCHANGED <<transport, delivered, originals, faults, blocks, said, heard, arrived, taken>>

-----------------------------------------------------------------------------
Results == {"Ok", "MessageLost", "BackPressure", "PayloadTooLarge"}

(* What goes on without anybody beginning anything. *)
Work ==
    \/ \E n \in Nodes, anew \in BOOLEAN, result \in Results :
          Recv(n, anew, result) \/ RecvAt(n, anew, result)
    \/ \E n, m \in Nodes, at_once \in BOOLEAN : Deliver(n, m, at_once)
    \/ Tick

RadioNext ==
    \/ \E n \in Beginners, o \in Originals, result \in Results :
          \/ /\ o.kind = "BlockAnnounce"
             /\ \E b \in {Opening(n)} \cup {Payment(n, p) : p \in Parties \ {Hex(n)}} :
                   Announce(n, b, o, result)
          \/ /\ o.kind # "BlockAnnounce"
             /\ Tell(n, o, result)
    \/ \E n, m \in Nodes, at_once \in BOOLEAN : Fault(n, m, at_once)
    \/ Work

RadioSpec == RadioInit /\ [][RadioNext]_radioVars

(* The link carries what was sent, receivers poll, and the clock goes on.  Each such
   step uses up something, so none can keep the others from happening. *)
RadioFairSpec == RadioSpec /\ WF_radioVars(Work)

-----------------------------------------------------------------------------
(* Whatever the carrier does, a node acts only on a message exactly as the node
   it comes from has said it, hop count included, so that each relay has taken one
   hop off; and the block in it is, field by field, one its account signed. *)
HeardAsSaid ==
    \A n \in Nodes : \A h \in heard[n] :
        /\ h.message \in said[h.sender]
        /\ h.message.kind = "BlockAnnounce" => h.block \in blocks
        /\ h.from = h.sender

(* The inbox always holds the newest messages that were injected, and the counters
   tell how many are gone: returned by try_recv, or dropped to make room. *)
InboxIsNewest ==
    \A n \in Nodes :
        LET in == transport[n].inbox IN
        /\ in = SubSeq(arrived[n], Len(arrived[n]) - Len(in) + 1, Len(arrived[n]))
        /\ transport[n].inbox_dropped =
              LET gone == Len(arrived[n]) - Len(in) - taken[n]
              IN IF gone > MaxTime THEN MaxTime ELSE gone

(* A message that send answered Ok for, and that its receivers can accept, is acted
   on by every other node in the end, unless that node's inbox has overflowed. *)
SentIsHeard ==
    <>[](\A n \in Nodes : \A i \in 1 .. Len(transport[n].outbox) :
            LET t == transport[n].outbox[i] IN
            Acceptable(t) =>
              \A m \in Nodes \ {n} :
                 \/ transport[m].inbox_dropped > 0
                 \/ \E h \in heard[m] : h.from = n /\ h.message = t.payload.message)
=============================================================================
