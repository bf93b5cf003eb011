--------------------------- MODULE MCReassembler ----------------------------
(***************************************************************************)
(* A small instance: one peer that sends two messages of two and three     *)
(* fragments and repeats them, and one that opens three messages, one of   *)
(* them under an id of the first peer, and contradicts itself about the    *)
(* length of one and the content of another.                               *)
(***************************************************************************)
EXTENDS Reassembler

CONSTANTS h, g, m1, m2, m3, x, y

Frag(p, id, s, n, c) == [peer |-> p, id |-> id, seq |-> s, total |-> n, payload |-> c]

PlainAndContrary ==
    {Frag(h, m1, 0, 2, x), Frag(h, m1, 1, 2, y),
     Frag(h, m2, 0, 3, y), Frag(h, m2, 1, 3, x), Frag(h, m2, 2, 3, x)}
    \cup
    {Frag(g, m1, 0, 2, x), Frag(g, m1, 0, 2, y), Frag(g, m1, 1, 2, x),
     Frag(g, m2, 0, 3, x), Frag(g, m2, 1, 2, x), Frag(g, m2, 1, 3, y),
     Frag(g, m3, 0, 1, x),
     Frag(g, m3, 0, 0, x), Frag(g, m3, 2, 2, x)}
=============================================================================
