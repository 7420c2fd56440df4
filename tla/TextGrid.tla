------------------------------ MODULE TextGrid ------------------------------
(***************************************************************************)
(* What core/display.c offers the screens: a grid of character cells.  A   *)
(* glyph drawn in a cell stays until the cell is drawn again or the whole  *)
(* grid is filled; a glyph drawn outside the grid is not drawn.            *)
(***************************************************************************)
EXTENDS Integers

CONSTANTS Columns, TextRows, GlyphLines, Picture

VARIABLE cell

Cells == (0 .. Columns - 1) \X (0 .. TextRows - 1)
Lines == 0 .. GlyphLines - 1

Filled(p) == [c \in Cells |-> [i \in Lines |-> p]]

Init == \E p \in Picture : cell = Filled(p)

Fill == \E p \in Picture : cell' = Filled(p)

Draw(c) == \E glyph \in [Lines -> Picture] : cell' = [cell EXCEPT ![c] = glyph]

Next == Fill \/ \E c \in Cells : Draw(c)

Spec == Init /\ [][Next]_cell

=============================================================================
