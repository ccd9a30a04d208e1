--------------------------------- MODULE Life ---------------------------------
(***************************************************************************)
(* Conway's Game of Life on a square board with nothing around it.         *)
(***************************************************************************)
EXTENDS Integers, FiniteSets

CONSTANT Width

VARIABLE alive      \* the cells that are, of 0 .. Width^2 - 1, row by row

Cells == 0 .. Width * Width - 1

Near(a, b) == a - b \in -1 .. 1
Neighbours(c) ==
    {d \in Cells \ {c} : Near(d \div Width, c \div Width) /\ Near(d % Width, c % Width)}

Evolve ==
    alive' = {c \in Cells : LET n == Cardinality(Neighbours(c) \cap alive)
                            IN  n = 3 \/ (n = 2 /\ c \in alive)}

Spec == alive \in SUBSET Cells /\ [][Evolve]_alive
=============================================================================
