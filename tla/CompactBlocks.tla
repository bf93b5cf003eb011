--------------------------- MODULE CompactBlocks ----------------------------
(***************************************************************************)
(* Blocks as texts and as bytes: Block (arxia-lattice/src/block.rs), its   *)
(* compact form (serialization.rs), verify_block (validation.rs) and the   *)
(* Ed25519 signatures they rest on (arxia-crypto/src/ed25519.rs).          *)
(*                                                                         *)
(* Keys and hashes are texts in a Block and bytes on the wire.  A text is  *)
(* the hex of some bytes, in lower or in upper case, or is not hex at all; *)
(* the code writes lower case and reads both.  A hash is of the TEXTS of a *)
(* block and stands for itself, Blake3 being free of collisions.  The      *)
(* figures of a block (balance, nonce, timestamp, amount) are one number.  *)
(***************************************************************************)
EXTENDS Naturals

CONSTANTS
    Keys,       \* 32 bytes that are an Ed25519 public key which is not weak
    NotHex,     \* a text that is not 64 hex digits
    Empty,      \* the empty text: previous of a genesis block
    Zeros,      \* 32 or 64 bytes of zero
    Fail        \* an Err

ASSUME CompactAssumption ==
    /\ {NotHex, Empty, Zeros, Fail} \cap Keys = {}
    /\ NotHex # Empty /\ Zeros # Fail

(* hex::encode and hex::decode *)
Hex(bytes) == [bytes |-> bytes, case |-> "lower"]
Unhex(text) == IF text \in {NotHex, Empty} THEN Fail ELSE text.bytes

-----------------------------------------------------------------------------
(* Ed25519: a signature tells who made it over what. *)

Signed(key, data) == [key |-> key, data |-> data]

(* verify; a point of low order (Zeros is one) verifies nothing. *)
Verifies(key, data, signature) ==
    key \in Keys /\ signature # Zeros /\ signature = Signed(key, data)

-----------------------------------------------------------------------------
(* Blocks *)

Tags == {"Open", "Send", "Receive", "Revoke"}

(* Block::compute_hash, over the texts *)
ComputeHash(b) ==
    IF Unhex(b.account) \notin Keys THEN Fail
    ELSE <<b.account, b.previous, b.kind, b.figures, b.party>>

(* verify_block *)
VerifyBlock(b) ==
    /\ ComputeHash(b) # Fail
    /\ b.hash = ComputeHash(b)
    /\ Verifies(Unhex(b.account), b.hash, b.signature)

(* The block an account signs. *)
NewBlock(key, previous, kind, figures, party) ==
    LET body == [account |-> Hex(key), previous |-> previous, kind |-> kind,
                 figures |-> figures, party |-> party]
        hash == ComputeHash(body)
    IN [account |-> Hex(key), previous |-> previous, kind |-> kind, figures |-> figures,
        party |-> party, hash |-> hash, signature |-> Signed(key, hash)]

(* to_compact_bytes *)
ToCompact(b) ==
    IF \/ Unhex(b.account) = Fail
       \/ b.previous = NotHex
       \/ b.kind # "Open" /\ Unhex(b.party) = Fail
    THEN Fail
    ELSE [tag       |-> b.kind,
          account   |-> Unhex(b.account),
          previous  |-> IF b.previous = Empty THEN Zeros ELSE Unhex(b.previous),
          figures   |-> b.figures,
          party     |-> IF b.kind = "Open" THEN Zeros ELSE Unhex(b.party),
          signature |-> b.signature]

(* from_compact_bytes; Zeros stands for data that is too short. *)
FromCompact(w) ==
    IF w = Zeros \/ w.tag \notin Tags \/ w.account \notin Keys THEN Fail
    ELSE LET body == [account  |-> Hex(w.account),
                      previous |-> IF w.previous = Zeros THEN Empty ELSE Hex(w.previous),
                      kind     |-> w.tag,
                      figures  |-> w.figures,
                      party    |-> IF w.tag = "Open" THEN Empty ELSE Hex(w.party)]
         IN [account |-> body.account, previous |-> body.previous, kind |-> body.kind,
             figures |-> body.figures, party |-> body.party,
             hash |-> ComputeHash(body), signature |-> w.signature]
=============================================================================
