---------------------------- MODULE TextsLayout ----------------------------
(***************************************************************************)
(* draw_actual of screen_texts.c: two lines of the screen for each         *)
(* conversation, with the name (or number), the unread count and the time  *)
(* in the first and the start of the last message in the second.  A cell   *)
(* is the set of what was drawn there; that the selected entry is drawn in *)
(* reverse is left out.                                                    *)
(***************************************************************************)
EXTENDS Integers, Sequences, FiniteSets

CONSTANTS
  Columns,    \* 50
  Rows,       \* 30
  Lists       \* lists of conversations: [name: length, unreads, preview: length]

ASSUME LayoutAssumption ==
  /\ Columns \in Nat /\ Columns >= 29     \* a letter and the dots of a name have room
  /\ Rows \in Nat /\ Rows >= 30           \* and so have 15 entries
  /\ \A l \in Lists : l \in Seq([name : Nat, unreads : 0 .. 255, preview : Nat])

VARIABLES
  text_index,      \* the conversations in the order of db_get_convo_from_index
  i,               \* the loop of draw_actual: entries drawn so far
  screen           \* the two lines of the entry drawn last: what was drawn in each cell

layoutVars == <<text_index, i, screen>>

StampLen == 14

Min2(a, b) == IF a < b THEN a ELSE b
Bug_limit_unset == Len(text_index)
limit == IF Len(text_index) > 15 THEN 15 ELSE Len(text_index)

unreads_width(e) == IF e.unreads > 99 THEN 3 ELSE IF e.unreads > 9 THEN 2 ELSE 1
Bug_count_forgotten(e) == Columns - StampLen - 6 - 1 - 1
name_text_room(e) == (Columns - StampLen - 6 - 1 - 1) - unreads_width(e)
Fits(e) == name_text_room(e) >= e.name

\* A text drawn from column x: which characters lie where.
Text(what, from, n, x) == [c \in x .. x + n - 1 |-> <<what, from + c - x>>]
Nowhere == [c \in {} |-> <<>>]

Name(e) == IF Fits(e) THEN Text("name", 0, e.name, 0)
                      ELSE Text("name", 0, name_text_room(e) - 3, 0)
Dots(e) == IF Fits(e) THEN Nowhere ELSE Text("dot", 0, 3, name_text_room(e) - 3)
Bug_at_full_length(e) == e.name + 1
unreads_cursor(e) == Min2(e.name, name_text_room(e)) + 1
Unreads(e) == IF e.unreads = 0 THEN Nowhere
              ELSE Text("unreads", 0, unreads_width(e), unreads_cursor(e))

\* Seven pairs of digits with a delimiter after each but the last.
timestamp_column == Columns - StampLen - 6
StampPair(k) == Text("stamp", 2 * k, 2, timestamp_column + 3 * k)
Delimiter(k) == Text("delimiter", k, 1, timestamp_column + 3 * k + 2)

\* What is drawn in the first line, one text after the other, and in the second.
FirstLine(e) == {Name(e), Dots(e), Unreads(e)} \cup {StampPair(k) : k \in 0 .. 6}
                                               \cup {Delimiter(k) : k \in 0 .. 5}
SecondLine(e) == {Text("preview", 0, e.preview, 0)}

\* display_draw_glyph drops what is off the grid.
OnGrid(row, c) == c \in 0 .. Columns - 1 /\ row \in 0 .. Rows - 1

Drawn(row, texts) ==
  [c \in {d \in UNION {DOMAIN t : t \in texts} : OnGrid(row, d)} |->
     {t[c] : t \in {u \in texts : c \in DOMAIN u}}]

LayoutInit ==
  /\ text_index \in Lists
  /\ i = 0
  /\ screen = << >>

DrawsEntry ==
  /\ i < limit
  /\ i' = i + 1
  /\ screen' = <<Drawn(2 * i, FirstLine(text_index[i + 1])),
                 Drawn(2 * i + 1, SecondLine(text_index[i + 1]))>>
  /\ UNCHANGED text_index

LayoutSpec == LayoutInit /\ [][DrawsEntry]_layoutVars
-----------------------------------------------------------------------------
(* The loop stays within the list and the screen, two lines at a time.     *)
LayoutTypeOK ==
  /\ text_index \in Lists
  /\ i \in 0 .. 15
  /\ Len(screen) = IF i = 0 THEN 0 ELSE 2

(* No cell is drawn by two of the texts of a line: the name, its dots, the *)
(* count, the digits and the delimiters keep clear of each other for every *)
(* length of the name and every count (screen_texts.c:57-99).              *)
NoOverlap ==
  \A l \in DOMAIN screen : \A c \in DOMAIN screen[l] : Cardinality(screen[l][c]) = 1

(* Nothing the user must see is dropped or hidden: the whole time is at    *)
(* the right edge, the whole count is there when it is not zero, a blank   *)
(* is left between it and both neighbours, the name is there from its      *)
(* start and is either whole or ends in dots, and both lines of the entry  *)
(* are on the screen (screen_texts.c:51, 65-99).                           *)
Shows(what, from, n) == \A k \in from .. from + n - 1 :
                          \E c \in DOMAIN screen[1] : <<what, k>> \in screen[1][c]
Blank(c) == c \in 0 .. Columns - 1 /\ c \notin DOMAIN screen[1]
AllShown ==
  i > 0 => LET entry == text_index[i] IN
    /\ Shows("stamp", 0, 14) /\ Shows("delimiter", 0, 6) /\ ~ Blank(Columns - 1)
    /\ entry.unreads # 0 => Shows("unreads", 0, unreads_width(entry))
    /\ Shows("name", 0, IF Fits(entry) THEN entry.name ELSE 1)
    /\ ~ Fits(entry) => Shows("dot", 0, 3)
    /\ Blank(unreads_cursor(entry) - 1)
    /\ Blank(Columns - StampLen - 6 - 1)
    /\ \A c \in 0 .. Min2(entry.preview, Columns) - 1 : c \in DOMAIN screen[2]

(* All that holds of an entry when it has been drawn.                      *)
LayoutRight == LayoutTypeOK /\ NoOverlap /\ AllShown
=============================================================================
