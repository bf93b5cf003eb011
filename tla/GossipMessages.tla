--------------------------- MODULE GossipMessages ---------------------------
(***************************************************************************)
(* Gossip messages and their signed envelopes (arxia-gossip/src/message.rs *)
(* and signed_message.rs), and the signed messages of the transport        *)
(* (arxia-transport/src/traits.rs).                                        *)
(*                                                                         *)
(* The variants of GossipMessage are one record: `block` and `hops` are    *)
(* those of a BlockAnnounce, `size` is the length of its block_data or the *)
(* number of entries of a NonceSyncResponse.                               *)
(***************************************************************************)
EXTENDS CompactBlocks

CONSTANTS
    MaxAnnounceBytes,   \* MAX_BLOCK_ANNOUNCE_BYTES
    MaxHops,            \* MAX_BLOCK_ANNOUNCE_HOPS
    MaxEntries          \* MAX_NONCE_SYNC_RESPONSE_ENTRIES

(* GossipMessage::validate *)
Validates(m) ==
    /\ m.kind = "BlockAnnounce" => m.hops <= MaxHops /\ m.size <= MaxAnnounceBytes
    /\ m.kind = "NonceSyncResponse" => m.size <= MaxEntries

(* decrement_hops_for_relay: the message after it, and whether it may go on. *)
Decremented(m) ==
    IF m.kind = "BlockAnnounce" /\ m.hops > 0 THEN [m EXCEPT !.hops = @ - 1] ELSE m
MayRelay(m) == m.kind = "BlockAnnounce" /\ m.hops > 1

-----------------------------------------------------------------------------
(* SignedGossipMessage *)

(* Mutant of GossipBytes: the hop count is not signed. *)
GossipBytesWithoutHops(m, key) == <<"gossip", key, m.kind, m.size, m.block>>

(* canonical_bytes *)
GossipBytes(m, key) == <<"gossip", key, m.kind, m.hops, m.size, m.block>>

Envelope(key, m) ==
    [message |-> m, sender_pubkey |-> key, signature |-> Signed(key, GossipBytes(m, key))]

(* SignedGossipMessage::verify *)
EnvelopeVerifies(e) ==
    /\ Validates(e.message)
    /\ Verifies(e.sender_pubkey, GossipBytes(e.message, e.sender_pubkey), e.signature)

-----------------------------------------------------------------------------
(* SignedTransportMessage *)

(* canonical_bytes; `from` counts as the key it is the hex of *)
TransportBytes(t) == <<"transport", Unhex(t.from), t.to, t.payload>>

(* SignedTransportMessage::sign; `to` is empty in a broadcast *)
Broadcast(key, e) ==
    LET t == [from |-> Hex(key), to |-> Empty, payload |-> e]
    IN [from |-> t.from, to |-> t.to, payload |-> t.payload,
        signature |-> Signed(key, TransportBytes(t))]

(* SignedTransportMessage::verify *)
TransportVerifies(t) ==
    Unhex(t.from) # Fail /\ Verifies(Unhex(t.from), TransportBytes(t), t.signature)
=============================================================================
