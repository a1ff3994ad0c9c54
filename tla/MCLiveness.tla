----------------------------- MODULE MCLiveness -----------------------------
(* Finite functions for Liveness: every way one register is written and     *)
(* read in three short blocks under a dozen control flow graphs, and two    *)
(* registers that pass values to each other in two blocks.                  *)
EXTENDS Liveness

Nop     == [args |-> <<>>, def |-> {}, dev |-> {}, call |-> FALSE]
Wr(v)   == [args |-> <<>>, def |-> {v}, dev |-> {}, call |-> FALSE]
Rd(v)   == [args |-> <<v>>, def |-> {}, dev |-> {v}, call |-> FALSE]
Up(v)   == [args |-> <<v, v>>, def |-> {v}, dev |-> {}, call |-> FALSE]
Mv(v, w) == [args |-> <<w>>, def |-> {v}, dev |-> {}, call |-> FALSE]

Bodies == {<<>>, <<Nop>>, <<Wr(1)>>, <<Rd(1)>>, <<Up(1)>>, <<Wr(1), Rd(1)>>,
           <<Rd(1), Wr(1)>>, <<Wr(1), Wr(1)>>}

(* Straight line, diamond, early exit, self loops, back edges from each     *)
(* block, a loop of two blocks entered in the middle, an unreachable block. *)
Shapes == {<<{2}, {3}, {}>>, <<{2, 3}, {3}, {}>>, <<{2, 3}, {}, {}>>, <<{2}, {2, 3}, {}>>,
           <<{2}, {3}, {1}>>, <<{2}, {3}, {2}>>, <<{3}, {2, 3}, {2}>>, <<{1, 2}, {3}, {}>>,
           <<{2, 3}, {1}, {}>>, <<{3}, {1}, {2, 3}>>, <<{}, {1}, {2}>>, <<{3}, {}, {2}>>}

Single == {[code |-> <<a, b, c>>, succs |-> s] : a \in Bodies, b \in Bodies, c \in Bodies,
                                                 s \in Shapes}

Steps == {Wr(1), Wr(2), Rd(1), Mv(2, 1), Up(2)}
Long  == {<<x, y>> : x \in Steps, y \in Steps} \cup {<<x>> : x \in Steps}

Pairs == {[code |-> <<a, b>>, succs |-> s] : a \in Long, b \in Long,
                                            s \in {<<{2}, {}>>, <<{2}, {1, 2}>>, <<{}, {1}>>}}

Holed == {[code |-> <<a \o b \o c, d>>, succs |-> <<{2}, {}>>] :
            a \in Long, b \in {<<Wr(2), Rd(1)>>, <<Rd(2), Wr(1)>>}, c \in Long,
            d \in {<<Rd(1)>>, <<Rd(2)>>}}

MCFuncs == Single \cup Pairs \cup Holed
=============================================================================
