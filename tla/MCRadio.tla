------------------------------ MODULE MCRadio -------------------------------
(* Two nodes on one link. *)
EXTENDS Radio

CONSTANTS n1, n2

(* A destination as the code writes it, in upper case, and no key at all. *)
Destinations == {Hex(n1), Hex(n2), [bytes |-> n2, case |-> "upper"], NotHex}

O(kind, size, hops) == [kind |-> kind, size |-> size, hops |-> hops]

(* Messages that are fine, too large for the receiver or the link, or too far. *)
Beginnings == {O("BlockAnnounce", 1, 3), O("BlockAnnounce", 1, 4), O("BlockAnnounce", 2, 0),
               O("NonceSyncResponse", 2, 0), O("Ping", 1, 0), O("NonceSyncResponse", 3, 0)}
=============================================================================
