------------------------------ MODULE Display ------------------------------
(***************************************************************************)
(* The frame buffer of pico-phone/core/display.c.  It holds a transmission *)
(* to the display as it goes over the wire: a command byte, then for each  *)
(* line of pixels its address, the pixels, and a byte of trailer, and at   *)
(* the end one more.  Glyphs are written into it in place, a byte a line.  *)
(*                                                                         *)
(* The sizes, 50 by 30 cells of 8 lines in the code, are parameters.  The  *)
(* pixels of a byte are a member of Picture; a line's address is its number *)
(* with the bits reversed.                                                 *)
(***************************************************************************)
EXTENDS Integers, FiniteSetsExt

CONSTANTS
  Columns, TextRows,  \* the grid of cells
  GlyphLines,         \* lines of a glyph
  AddressBits,        \* bits of a line's address
  Picture,            \* values of a byte of pixels
  Glyph,              \* glyphs: their bytes, line by line
  Bound               \* bound: how far outside the grid callers draw

Inverted(p) == 255 - p

ASSUME DisplayAssumption ==
  /\ Columns \in Nat \ {0} /\ TextRows \in Nat \ {0} /\ GlyphLines \in Nat \ {0}
  /\ AddressBits \in Nat /\ TextRows * GlyphLines < 2 ^ AddressBits
  /\ Picture \subseteq 0 .. 255 /\ 0 \in Picture
  /\ \A p \in Picture : Inverted(p) \in Picture
  /\ Glyph \subseteq [0 .. GlyphLines - 1 -> Picture]
  /\ Bound \in Nat

VARIABLE display_fb

-----------------------------------------------------------------------------
(* The layout *)

LineLen == Columns + 2
FB_LEN == LineLen * (TextRows * GlyphLines) + 2

(* Lines are numbered from 1 on the wire, from 0 here. *)
LineNumbers == 0 .. TextRows * GlyphLines - 1
GlyphLine == 0 .. GlyphLines - 1

AddressAt(l) == LineLen * l + 1

(* The bytes of pixels, and where the drawing functions take them to be.   *)
PixelArea == {AddressAt(l) + 1 + x : l \in LineNumbers, x \in 0 .. Columns - 1}

Bug_on_the_address(l) == LineLen * l + 1
PixelsAt(l) == LineLen * l + 2

reverse_uint8_bits(n) ==
  MapThenSumSet(LAMBDA k : ((n \div 2 ^ k) % 2) * 2 ^ (AddressBits - 1 - k), 0 .. AddressBits - 1)

(* The byte of line i of the glyph in cell (x, y). *)
Bug_row_of_lines(y) == y
FirstLine(y) == y * GlyphLines

ByteAt(x, y, i) == PixelsAt(FirstLine(y) + i) + x

-----------------------------------------------------------------------------
(* A glyph off the grid is not drawn: display_draw_glyph returns early.    *)
(* Writing past the end would show as a larger domain. *)
Store(fb, bytes) ==
  [p \in DOMAIN fb \cup DOMAIN bytes |-> IF p \in DOMAIN bytes THEN bytes[p] ELSE fb[p]]

display_init ==
  [p \in 0 .. FB_LEN - 1 |->
     IF \E l \in LineNumbers : p = AddressAt(l)
     THEN reverse_uint8_bits((p \div LineLen) + 1) ELSE 0]

display_fill(val) ==
  display_fb' = Store(display_fb,
    [p \in {PixelsAt(l) + x : l \in LineNumbers, x \in 0 .. Columns - 1} |-> val])

Bug_row_unchecked(x, y) == 0 <= x /\ x < Columns /\ 0 <= y
OnGrid(x, y) == 0 <= x /\ x < Columns /\ 0 <= y /\ y < TextRows

Drawn(glyph, invert, i) == IF invert THEN Inverted(glyph[i]) ELSE glyph[i]

display_draw_glyph(glyph, x, y, invert) ==
  /\ OnGrid(x, y)
  /\ display_fb' = Store(display_fb,
       [p \in {ByteAt(x, y, i) : i \in GlyphLine} |->
          Drawn(glyph, invert, (p \div LineLen) - FirstLine(y))])

Init == display_fb = display_init

Next ==
  \/ \E val \in Picture : display_fill(val)
  \/ \E glyph \in Glyph, x \in -Bound .. Columns + Bound, y \in -Bound .. TextRows + Bound,
        invert \in BOOLEAN : display_draw_glyph(glyph, x, y, invert)

Spec == Init /\ [][Next]_display_fb

-----------------------------------------------------------------------------
(* Properties *)

(* The buffer is FB_LEN bytes: nothing is written outside it.              *)
TypeOK == display_fb \in [0 .. FB_LEN - 1 -> 0 .. 255]

(* Drawing leaves the command, the line addresses and the trailers alone,  *)
(* wherever it draws: the display would show the lines in wrong places, or *)
(* none.  (display_draw_glyph and display_fill address the same buffer.)   *)
FramingIntact ==
  \A p \in 0 .. FB_LEN - 1 : p \notin PixelArea => display_fb[p] = display_init[p]

Grid == INSTANCE TextGrid WITH
  cell <- [c \in (0 .. Columns - 1) \X (0 .. TextRows - 1) |->
             [i \in GlyphLine |-> display_fb[ByteAt(c[1], c[2], i)]]]

(* The buffer is a grid of cells: what is drawn in one cell changes no     *)
(* other.                                                                  *)
ImplementsTextGrid == Grid!Spec

=============================================================================
