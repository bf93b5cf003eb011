----------------------------- MODULE Reassembly -----------------------------
(***************************************************************************)
(* Abstract: what putting messages together from fragments promises.       *)
(*                                                                         *)
(* The receiver holds a set of fragments.  It never holds two that         *)
(* contradict each other; it hands over a message when the last of its     *)
(* fragments arrives, and then holds none of them; and it forgets unasked  *)
(* only to make room, and then only a message of the very peer that opens  *)
(* another one while MaxInflight are open.  Which one it forgets, and how  *)
(* it keeps count, is left to the implementation.                          *)
(***************************************************************************)
EXTENDS Integers, FiniteSets

CONSTANTS
    Fragments,      \* [peer, id, seq, total, payload], as signed by their peers
    MaxInflight,    \* how many unfinished messages of one peer are held
    NoMessage

VARIABLES
    held,           \* fragments of unfinished messages
    last            \* what the last fragment taken completed, or NoMessage

(* What is held of the message of a fragment. *)
Of(f) == {g \in held : g.peer = f.peer /\ g.id = f.id}

(* The unfinished messages of a peer. *)
OpenIds(p) == {g.id : g \in {h \in held : h.peer = p}}

Fits(f) ==
    /\ f.total # 0
    /\ f.seq < f.total
    /\ \A g \in Of(f) : g.total = f.total /\ g.seq # f.seq

Completes(f) == {g.seq : g \in Of(f) \cup {f}} = 0 .. f.total - 1

(* What may be forgotten to make room for a fragment. *)
Sacrifices(f) ==
    IF Of(f) = {} /\ Cardinality(OpenIds(f.peer)) >= MaxInflight
    THEN {{g \in held : g.peer = f.peer /\ g.id = id} : id \in OpenIds(f.peer)}
    ELSE {{}}

Init == held = {} /\ last = NoMessage

Hold(f) ==
    /\ Fits(f)
    /\ ~Completes(f)
    /\ \E lost \in Sacrifices(f) : held' = (held \ lost) \cup {f}
    /\ last' = NoMessage

HandOver(f) ==
    /\ Fits(f)
    /\ Completes(f)
    /\ \E lost \in Sacrifices(f) : held' = held \ (lost \cup Of(f))
    /\ \E body \in [0 .. f.total - 1 -> {g.payload : g \in Of(f) \cup {f}}] :
          /\ \A g \in Of(f) \cup {f} : body[g.seq] = g.payload
          /\ last' = [peer |-> f.peer, id |-> f.id, body |-> body]

Next == \E f \in Fragments : Hold(f) \/ HandOver(f)

Spec == Init /\ [][Next]_<<held, last>>
=============================================================================
