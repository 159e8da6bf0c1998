-------------------------- MODULE FrameBuffer_proofs --------------------------
(***************************************************************************)
(* FrameBuffer writes no pixel outside the frame buffer and implements the *)
(* screen of characters of Terminal, whatever the size of the screen and   *)
(* of the font and whatever the glyphs look like.                          *)
(***************************************************************************)
EXTENDS FrameBuffer, TLAPS

(* Multiplication by a natural number keeps the order.                     *)
LEMMA TimesOrder == ASSUME NEW a \in Nat, NEW b \in Nat, NEW c \in Nat, a <= b
                    PROVE  /\ a * c \in Nat /\ b * c \in Nat
                           /\ a * c <= b * c
BY SMT

(* So many whole cells of size d fit in n.                                 *)
LEMMA CellsFit == ASSUME NEW n \in Nat, NEW d \in Nat \ {0}, n >= d
                  PROVE  /\ n \div d \in Nat \ {0}
                         /\ (n \div d) * d <= n
BY SMT

(* Point k of cell c lies in the n points, if the cell is one of m and m   *)
(* cells of size d fit.                                                    *)
LEMMA PointInCells == ASSUME NEW n \in Nat, NEW m \in Nat, NEW d \in Nat, m * d <= n,
                             NEW c \in Nat, c < m, NEW k \in 0 .. d - 1
                      PROVE  c * d + k \in 0 .. n - 1
<1>1. c + 1 <= m
  OBVIOUS
<1>2. (c + 1) * d <= m * d /\ (c + 1) * d \in Nat /\ m * d \in Nat
  BY <1>1, TimesOrder
<1>3. (c + 1) * d = c * d + d /\ c * d \in Nat
  BY SMT
<1> QED
  BY <1>2, <1>3

(* The grid of cells lies on the screen.                                   *)
LEMMA Grid ==
  /\ font_width \in Nat \ {0} /\ font_height \in Nat \ {0}
  /\ boot_fb_width \in Nat \ {0} /\ boot_fb_height \in Nat \ {0}
  /\ max_ch_nr_x \in Nat \ {0} /\ max_ch_nr_x * font_width <= boot_fb_width
  /\ max_ch_nr_y \in Nat \ {0} /\ max_ch_nr_y * font_height <= boot_fb_height
<1>1. /\ font_width \in Nat /\ font_width # 0
      /\ font_height \in Nat /\ font_height # 0
      /\ boot_fb_width \in Nat /\ boot_fb_width >= font_width
      /\ boot_fb_height \in Nat /\ boot_fb_height >= font_height
  BY ScreenAssumption, SMT DEF font_width
<1>2. /\ max_ch_nr_x \in Nat \ {0} /\ max_ch_nr_x * font_width <= boot_fb_width
  BY <1>1, CellsFit DEF max_ch_nr_x
<1>3. /\ max_ch_nr_y \in Nat \ {0} /\ max_ch_nr_y * font_height <= boot_fb_height
  BY <1>1, CellsFit DEF max_ch_nr_y
<1> QED
  BY <1>1, <1>2, <1>3

(* The columns and lines of a cell, counted from those of the screen.      *)
LEMMA LocForm ==
  ASSUME NEW cx \in 0 .. max_ch_nr_x - 1, NEW cy \in 0 .. max_ch_nr_y - 1,
         NEW ch_x \in Columns, NEW ch_y \in Lines
  PROVE  /\ cx * font_width + ch_x \in 0 .. boot_fb_width - 1
         /\ cy * font_height + ch_y \in 0 .. boot_fb_height - 1
         /\ Loc(cx, cy, ch_x, ch_y) = (cy * font_height + ch_y) * boot_fb_width + (cx * font_width + ch_x)
<1>1. cx * font_width + ch_x \in 0 .. boot_fb_width - 1
  BY Grid, PointInCells DEF Columns
<1>2. cy * font_height + ch_y \in 0 .. boot_fb_height - 1
  BY Grid, PointInCells DEF Lines
<1>3. ch_x \in Nat /\ ch_y \in Nat /\ cx \in Nat /\ cy \in Nat
  BY Grid DEF Columns, Lines
<1>4. cy * font_height \in Nat /\ cx * font_width \in Nat /\ ch_y * boot_fb_width \in Nat
  BY <1>3, Grid, SMT
<1>5. (cy * font_height + ch_y) * boot_fb_width = cy * font_height * boot_fb_width + ch_y * boot_fb_width
  BY <1>3, <1>4, Grid, SMT
<1>6. cy * font_height * boot_fb_width \in Nat
  BY <1>4, Grid, SMT
<1> QED
  BY <1>1, <1>2, <1>3, <1>4, <1>5, <1>6 DEF Loc

(* What boot_putchar_fb computes for a point of a cell is an index of the  *)
(* frame buffer.                                                           *)
LEMMA LocOnScreen ==
  ASSUME NEW cx \in 0 .. max_ch_nr_x - 1, NEW cy \in 0 .. max_ch_nr_y - 1,
         NEW ch_x \in Columns, NEW ch_y \in Lines
  PROVE  Loc(cx, cy, ch_x, ch_y) \in Pixels
<1> DEFINE column == cx * font_width + ch_x
           line == cy * font_height + ch_y
<1>1. /\ column \in 0 .. boot_fb_width - 1 /\ line \in 0 .. boot_fb_height - 1
      /\ Loc(cx, cy, ch_x, ch_y) = line * boot_fb_width + column
  BY LocForm
<1>2. boot_fb_height * boot_fb_width \in Nat /\ boot_fb_height * boot_fb_width = boot_fb_width * boot_fb_height
  BY Grid, SMT
<1>3. line * boot_fb_width + column \in 0 .. boot_fb_height * boot_fb_width - 1
  <2> HIDE DEF column, line
  <2> QED
    BY <1>1, <1>2, Grid, PointInCells
<1> QED
  BY <1>1, <1>2, <1>3 DEF Pixels

(* The inductive invariant: a tab is only begun on a cleared screen.       *)
IInv == InBounds /\ (cleared \/ space_nr = 0)

(* A glyph in the cursor's cell leaves the frame buffer as long as it was. *)
LEMMA PaintedInBounds == ASSUME IInv, NEW ch PROVE DOMAIN Painted(fb, ch) = Pixels
<1>1. \A ch_x \in Columns, ch_y \in Lines : Loc(fb_cursor_x, fb_cursor_y, ch_x, ch_y) \in Pixels
  BY LocOnScreen, Grid DEF IInv, InBounds
<1> QED
  BY <1>1 DEF Painted, IInv, InBounds

LEMMA NewLineInBounds ==
  ASSUME IInv, NEW buf, DOMAIN buf = Pixels, NewLine(buf)
  PROVE  /\ DOMAIN fb' = Pixels
         /\ fb_cursor_x' = 0
         /\ fb_cursor_y' \in 0 .. max_ch_nr_y - 1
BY Grid DEF IInv, InBounds, NewLine, Scrolled

(* Drawing stays in the frame buffer; while the cursor is not in the last  *)
(* column it goes one to the right.                                        *)
LEMMA DrawInBounds ==
  ASSUME IInv, NEW ch, Draw(ch)
  PROVE  /\ DOMAIN fb' = Pixels
         /\ fb_cursor_x' \in 0 .. max_ch_nr_x - 1
         /\ fb_cursor_y' \in 0 .. max_ch_nr_y - 1
         /\ fb_cursor_x + 1 < max_ch_nr_x => fb_cursor_x' = fb_cursor_x + 1
<1>1. DOMAIN Painted(fb, ch) = Pixels
  BY PaintedInBounds
<1>2. CASE fb_cursor_x + 1 >= max_ch_nr_x
  <2>1. NewLine(Painted(fb, ch))
    BY <1>2 DEF Draw
  <2> QED
    BY <1>1, <1>2, <2>1, NewLineInBounds, Grid DEF IInv, InBounds
<1>3. CASE ~(fb_cursor_x + 1 >= max_ch_nr_x)
  BY <1>1, <1>3, Grid DEF Draw, IInv, InBounds
<1> QED
  BY <1>2, <1>3

LEMMA InitInBounds == Init => IInv
BY Grid DEF Init, IInv, InBounds

LEMMA NextInBounds == IInv /\ [Next]_vars => IInv'
<1> SUFFICES ASSUME IInv, [Next]_vars PROVE IInv'
  OBVIOUS
<1> USE DEF IInv, InBounds
<1>1. CASE boot_clear_screen_internal_fb
  BY <1>1, Grid DEF boot_clear_screen_internal_fb
<1>2. CASE \E ch \in Characters : boot_putchar_fb(ch)
  <2>1. PICK ch \in Characters : boot_putchar_fb(ch)
    BY <1>2
  <2>2. Draw(ch) /\ space_nr = 0 /\ space_nr' = 0
    BY <2>1 DEF boot_putchar_fb, Ready
  <2> QED
    BY <2>2, DrawInBounds, Grid
<1>3. CASE boot_putchar_fb_new_line
  <2>1. NewLine(fb) /\ space_nr = 0 /\ space_nr' = 0
    BY <1>3 DEF boot_putchar_fb_new_line, Ready
  <2> QED
    BY <2>1, NewLineInBounds, Grid
<1>4. CASE boot_cursor_back_fb
  BY <1>4, Grid DEF boot_cursor_back_fb, Ready
<1>5. CASE boot_back_space_fb
  BY <1>5, Grid DEF boot_back_space_fb, Ready
<1>6. CASE boot_putchar_tab_fb
  BY <1>6, Grid, ScreenAssumption DEF boot_putchar_tab_fb, TabWidth, Ready
<1>7. CASE TabSpace
  <2>1. Draw(SPACE) /\ space_nr > 0 /\ space_nr' = space_nr - 1 /\ cleared' = cleared
    BY <1>7 DEF TabSpace
  <2>2. fb_cursor_x + 1 < max_ch_nr_x
    BY <2>1, Grid
  <2> QED
    BY <2>1, <2>2, DrawInBounds, Grid
<1>8. CASE UNCHANGED vars
  BY <1>8, Grid DEF vars
<1> QED
  BY <1>1, <1>2, <1>3, <1>4, <1>5, <1>6, <1>7, <1>8 DEF Next

(* For every size of the screen and of the font, no pixel is written       *)
(* outside the frame buffer, the cursor stays in the grid and a tab on its *)
(* line.                                                                   *)
THEOREM DrawsInside == Spec => []InBounds
<1>1. IInv => InBounds
  BY DEF IInv
<1> QED
  BY <1>1, InitInBounds, NextInBounds, PTL DEF Spec
-----------------------------------------------------------------------------
(* The cells of the screen.                                                *)

(* A number of the form a * d + k, k < d, has one such form.               *)
LEMMA OneForm == ASSUME NEW d \in Nat \ {0}, NEW a \in Nat, NEW b \in Nat,
                        NEW k \in 0 .. d - 1, NEW l \in 0 .. d - 1, a * d + k = b * d + l
                 PROVE  a = b /\ k = l
<1>1. a * d \in Nat /\ b * d \in Nat /\ (a + 1) * d = a * d + d /\ (b + 1) * d = b * d + d
  BY SMT
<1>2. ASSUME a < b PROVE FALSE
  <2>1. (a + 1) * d <= b * d
    BY <1>2, TimesOrder
  <2> QED
    BY <1>1, <2>1
<1>3. ASSUME b < a PROVE FALSE
  <2>1. (b + 1) * d <= a * d
    BY <1>3, TimesOrder
  <2> QED
    BY <1>1, <2>1
<1>4. a = b
  BY <1>2, <1>3
<1> QED
  BY <1>1, <1>4

LEMMA DivMod == ASSUME NEW d \in Nat \ {0}, NEW a \in Nat, NEW k \in 0 .. d - 1
                PROVE  (a * d + k) \div d = a /\ (a * d + k) % d = k
<1> DEFINE n == a * d + k
<1>1. n \in Nat
  BY SMT
<1>2. n \div d \in Nat /\ n % d \in 0 .. d - 1 /\ n = (n \div d) * d + (n % d)
  <2> HIDE DEF n
  <2> QED
    BY <1>1, SMT
<1> QED
  BY <1>2, OneForm

(* No two points of cells are at the same pixel.                           *)
LEMMA LocUnique ==
  ASSUME NEW cx \in 0 .. max_ch_nr_x - 1, NEW cy \in 0 .. max_ch_nr_y - 1,
         NEW dx \in 0 .. max_ch_nr_x - 1, NEW dy \in 0 .. max_ch_nr_y - 1,
         NEW ch_x \in Columns, NEW ch_y \in Lines, NEW d_x \in Columns, NEW d_y \in Lines,
         Loc(cx, cy, ch_x, ch_y) = Loc(dx, dy, d_x, d_y)
  PROVE  cx = dx /\ cy = dy /\ ch_x = d_x /\ ch_y = d_y
<1> DEFINE column == cx * font_width + ch_x
           line == cy * font_height + ch_y
           dcolumn == dx * font_width + d_x
           dline == dy * font_height + d_y
<1>1. line = dline /\ column = dcolumn
  <2>1. /\ column \in 0 .. boot_fb_width - 1 /\ dcolumn \in 0 .. boot_fb_width - 1
        /\ line \in Nat /\ dline \in Nat
        /\ line * boot_fb_width + column = dline * boot_fb_width + dcolumn
    BY LocForm, Grid
  <2> HIDE DEF line, dline, column, dcolumn
  <2> QED
    BY <2>1, OneForm, Grid
<1>2. cx \in Nat /\ cy \in Nat /\ dx \in Nat /\ dy \in Nat
  BY Grid
<1> QED
  BY <1>1, <1>2, OneForm, Grid DEF Columns, Lines

(* Point by point, the glyph that is drawn at the cursor is the image of   *)
(* the character.                                                          *)
LEMMA PaintedPoint ==
  ASSUME IInv, NEW ch, NEW ch_x \in Columns, NEW ch_y \in Lines
  PROVE  Painted(fb, ch)[Loc(fb_cursor_x, fb_cursor_y, ch_x, ch_y)] = Pixel(ch, ch_x, ch_y)
<1> DEFINE loc == Loc(fb_cursor_x, fb_cursor_y, 0, 0)
           i == Loc(fb_cursor_x, fb_cursor_y, ch_x, ch_y)
           Glyph == {Loc(fb_cursor_x, fb_cursor_y, px, py) : px \in Columns, py \in Lines}
<1>1. /\ fb_cursor_x \in 0 .. max_ch_nr_x - 1 /\ fb_cursor_y \in 0 .. max_ch_nr_y - 1
      /\ 0 \in Columns /\ 0 \in Lines
  BY Grid DEF IInv, InBounds, Columns, Lines
<1>2. i - loc = ch_y * boot_fb_width + ch_x
  <2>1. /\ fb_cursor_y * font_height * boot_fb_width \in Nat
        /\ fb_cursor_x * font_width \in Nat
        /\ ch_x \in Nat /\ ch_y \in Nat /\ ch_y * boot_fb_width \in Nat
        /\ 0 * boot_fb_width = 0
    <3>1. fb_cursor_y \in Nat /\ fb_cursor_x \in Nat /\ ch_x \in Nat /\ ch_y \in Nat
      BY <1>1, Grid DEF Columns, Lines
    <3>2. fb_cursor_y * font_height \in Nat
      BY <3>1, Grid, SMT
    <3> QED
      BY <3>1, <3>2, Grid, SMT
  <2> QED
    BY <2>1 DEF Loc
<1>3. ch_x \in 0 .. boot_fb_width - 1 /\ ch_y \in Nat
  BY ScreenAssumption, Grid DEF Columns, Lines, font_width
<1>4. (i - loc) % boot_fb_width = ch_x /\ (i - loc) \div boot_fb_width = ch_y
  BY <1>2, <1>3, DivMod, Grid
<1>5. i \in Glyph
  OBVIOUS
<1>6. Painted(fb, ch)[i] = Pixel(ch, (i - loc) % boot_fb_width, (i - loc) \div boot_fb_width)
  BY <1>5 DEF Painted
<1> QED
  BY <1>4, <1>6

(* A glyph fills the cursor's cell and leaves the others as they are.      *)
LEMMA PaintedCell ==
  ASSUME IInv, NEW ch, NEW cx \in 0 .. max_ch_nr_x - 1, NEW cy \in 0 .. max_ch_nr_y - 1
  PROVE  Cell(Painted(fb, ch), cx, cy) =
           IF cx = fb_cursor_x /\ cy = fb_cursor_y THEN Image(ch) ELSE Cell(fb, cx, cy)
<1>1. CASE cx = fb_cursor_x /\ cy = fb_cursor_y
  BY <1>1, PaintedPoint DEF Cell, Image
<1>2. CASE ~(cx = fb_cursor_x /\ cy = fb_cursor_y)
  <2>1. ASSUME NEW ch_x \in Columns, NEW ch_y \in Lines
        PROVE  Painted(fb, ch)[Loc(cx, cy, ch_x, ch_y)] = fb[Loc(cx, cy, ch_x, ch_y)]
    <3> DEFINE Glyph == {Loc(fb_cursor_x, fb_cursor_y, px, py) : px \in Columns, py \in Lines}
    <3>1. Loc(cx, cy, ch_x, ch_y) \notin Glyph
      BY <1>2, LocUnique DEF IInv, InBounds
    <3>2. Loc(cx, cy, ch_x, ch_y) \in DOMAIN fb
      BY LocOnScreen, Grid DEF IInv, InBounds
    <3> QED
      BY <3>1, <3>2 DEF Painted
  <2> QED
    BY <1>2, <2>1 DEF Cell
<1> QED
  BY <1>1, <1>2

(* Scrolling shows each line of text one line up, and a blank line below.  *)
LEMMA ScrolledCell ==
  ASSUME NEW buf, DOMAIN buf = Pixels,
         NEW cx \in 0 .. max_ch_nr_x - 1, NEW cy \in 0 .. max_ch_nr_y - 1
  PROVE  Cell(Scrolled(buf), cx, cy) = IF cy + 1 < max_ch_nr_y THEN Cell(buf, cx, cy + 1) ELSE Blank
<1>1. ASSUME NEW ch_x \in Columns, NEW ch_y \in Lines
      PROVE  Scrolled(buf)[Loc(cx, cy, ch_x, ch_y)] =
               IF cy + 1 < max_ch_nr_y THEN buf[Loc(cx, cy + 1, ch_x, ch_y)] ELSE 0
  <2> DEFINE line == cy * font_height + ch_y
             column == cx * font_width + ch_x
             i == Loc(cx, cy, ch_x, ch_y)
  <2>1. /\ i \in DOMAIN buf /\ i = line * boot_fb_width + column
        /\ column \in 0 .. boot_fb_width - 1 /\ line \in Nat
        /\ cy \in Nat /\ max_ch_nr_y \in Nat /\ cx \in Nat
        /\ boot_fb_width \in Nat /\ font_height \in Nat /\ ch_y \in 0 .. font_height - 1
    BY LocForm, LocOnScreen, Grid DEF Lines
  <2>2. CASE cy + 1 < max_ch_nr_y
    <3>1. line \in 0 .. (max_ch_nr_y - 1) * font_height - 1
      <4>1. (max_ch_nr_y - 1) * font_height \in Nat
        BY <2>1, <2>2, SMT
      <4> QED
        BY <2>1, <2>2, <4>1, PointInCells
    <3>2. i < (max_ch_nr_y - 1) * font_height * boot_fb_width
      <4> HIDE DEF line, column, i
      <4>1. (max_ch_nr_y - 1) * font_height \in Nat
        BY <2>1, <2>2, SMT
      <4>2. (max_ch_nr_y - 1) * font_height * boot_fb_width \in Nat
        BY <2>1, <4>1, SMT
      <4> QED
        BY <2>1, <3>1, <4>1, <4>2, PointInCells
    <3>3. i + font_height * boot_fb_width = Loc(cx, cy + 1, ch_x, ch_y)
      <4>1. cy * font_height \in Nat /\ (cy + 1) * font_height = cy * font_height + font_height
        BY <2>1, SMT
      <4>2. /\ cy * font_height * boot_fb_width \in Nat /\ font_height * boot_fb_width \in Nat
            /\ (cy + 1) * font_height * boot_fb_width = cy * font_height * boot_fb_width + font_height * boot_fb_width
        BY <2>1, <4>1, SMT
      <4>3. cx * font_width \in Nat /\ ch_y * boot_fb_width \in Nat /\ ch_x \in Nat
        <5>1. ch_x \in Nat /\ ch_y \in Nat
          BY <2>1, Grid DEF Columns
        <5> QED
          BY <2>1, <5>1, Grid, SMT
      <4> QED
        BY <4>2, <4>3 DEF Loc
    <3> QED
      BY <2>1, <2>2, <3>2, <3>3 DEF Scrolled
  <2>3. CASE ~(cy + 1 < max_ch_nr_y)
    <3>1. cy = max_ch_nr_y - 1
      BY <2>1, <2>3
    <3>2. i >= (max_ch_nr_y - 1) * font_height * boot_fb_width
      <4>1. /\ cx * font_width \in Nat /\ ch_y * boot_fb_width \in Nat /\ ch_x \in Nat
            /\ cy * font_height \in Nat
        <5>1. ch_x \in Nat /\ ch_y \in Nat
          BY <2>1, Grid DEF Columns
        <5> QED
          BY <2>1, <5>1, Grid, SMT
      <4>2. cy * font_height * boot_fb_width \in Nat
        BY <2>1, <4>1, SMT
      <4> QED
        BY <3>1, <4>1, <4>2 DEF Loc
    <3>3. i < max_ch_nr_y * font_height * boot_fb_width
      <4>1. max_ch_nr_y * font_height \in Nat
        BY <2>1, SMT
      <4>2. max_ch_nr_y * font_height * boot_fb_width \in Nat
        BY <2>1, <4>1, SMT
      <4>3. line \in 0 .. max_ch_nr_y * font_height - 1
        BY <2>1, <4>1, PointInCells, Grid
      <4> HIDE DEF line, column, i
      <4> QED
        BY <2>1, <4>1, <4>2, <4>3, PointInCells
    <3>4. (max_ch_nr_y - 1) * font_height * boot_fb_width \in Nat /\ i \in Nat
      <4>1. max_ch_nr_y - 1 \in Nat /\ line * boot_fb_width \in Nat
        BY <2>1, <3>1, SMT
      <4>2. (max_ch_nr_y - 1) * font_height \in Nat
        BY <2>1, <4>1, SMT
      <4> QED
        BY <2>1, <4>1, <4>2, SMT
    <3> QED
      BY <2>1, <2>3, <3>2, <3>3, <3>4 DEF Scrolled
  <2> QED
    BY <2>2, <2>3
<1> QED
  BY <1>1 DEF Cell, Blank

-----------------------------------------------------------------------------
(* Every step is one of the screen of characters, or changes nothing of it.*)

LEMMA CellsArePairs ==
  /\ \A c \in Cells : /\ c[1] \in 0 .. max_ch_nr_x - 1 /\ c[2] \in 0 .. max_ch_nr_y - 1
                     /\ c = <<c[1], c[2]>>
  /\ Abstract!Cells = Cells
BY DEF Cells, Abstract!Cells

(* The screen of characters while no tab is under way.                     *)
Text(buf) == [c \in Cells |-> Cell(buf, c[1], c[2])]

LEMMA NoTab ==
  ASSUME IInv
  PROVE  /\ space_nr = 0 => Screen = Text(fb)
         /\ IInv' /\ space_nr' = 0 => Screen' = Text(fb')
<1>1. fb_cursor_x \in Int /\ (IInv' => fb_cursor_x' \in Int)
  BY DEF IInv, InBounds
<1>2. ASSUME space_nr = 0 PROVE Screen = Text(fb)
  <2>1. \A c \in Cells : ~ToDraw(c[1], c[2])
    BY <1>1, <1>2 DEF ToDraw
  <2> QED
    BY <2>1 DEF Screen, Text
<1>3. ASSUME IInv', space_nr' = 0 PROVE Screen' = Text(fb')
  <2>1. \A c \in Cells : ~ToDraw(c[1], c[2])'
    BY <1>1, <1>3 DEF ToDraw
  <2> QED
    BY <2>1 DEF Screen, Text
<1> QED
  BY <1>2, <1>3

LEMMA TextPainted ==
  ASSUME IInv, NEW ch
  PROVE  Text(Painted(fb, ch)) = [Text(fb) EXCEPT ![<<fb_cursor_x, fb_cursor_y>>] = Image(ch)]
<1>1. ASSUME NEW c \in Cells
      PROVE  /\ Cell(Painted(fb, ch), c[1], c[2]) =
                  IF c[1] = fb_cursor_x /\ c[2] = fb_cursor_y THEN Image(ch) ELSE Cell(fb, c[1], c[2])
             /\ c = <<fb_cursor_x, fb_cursor_y>> <=> c[1] = fb_cursor_x /\ c[2] = fb_cursor_y
  BY CellsArePairs, PaintedCell
<1> QED
  BY <1>1 DEF Text

LEMMA TextScrolled ==
  ASSUME NEW buf, DOMAIN buf = Pixels
  PROVE  Text(Scrolled(buf)) =
           [c \in Abstract!Cells |-> IF c[2] + 1 < max_ch_nr_y THEN Text(buf)[<<c[1], c[2] + 1>>] ELSE Blank]
<1>1. ASSUME NEW c \in Cells
      PROVE  Cell(Scrolled(buf), c[1], c[2]) =
               IF c[2] + 1 < max_ch_nr_y THEN Text(buf)[<<c[1], c[2] + 1>>] ELSE Blank
  <2>1. c[1] \in 0 .. max_ch_nr_x - 1 /\ c[2] \in 0 .. max_ch_nr_y - 1
    BY CellsArePairs
  <2>2. CASE c[2] + 1 < max_ch_nr_y
    <3>1. <<c[1], c[2] + 1>> \in Cells
      BY <2>1, <2>2, Grid DEF Cells
    <3>2. Text(buf)[<<c[1], c[2] + 1>>] = Cell(buf, c[1], c[2] + 1)
      BY <3>1 DEF Text
    <3> QED
      BY <2>1, <2>2, <3>2, ScrolledCell
  <2>3. CASE ~(c[2] + 1 < max_ch_nr_y)
    BY <2>1, <2>3, ScrolledCell
  <2> QED
    BY <2>2, <2>3
<1> QED
  BY <1>1, CellsArePairs DEF Text

(* boot_putchar_fb_new_line is the line feed of the screen.                *)
LEMMA NewLineFeeds ==
  ASSUME IInv, IInv', space_nr' = 0, NEW buf, DOMAIN buf = Pixels, NewLine(buf)
  PROVE  Abstract!LineFeed(Text(buf))
<1>1. Screen' = Text(fb') /\ fb_cursor_y \in 0 .. max_ch_nr_y - 1 /\ fb_cursor_x' + space_nr' = 0
  BY NoTab DEF IInv, InBounds, NewLine
<1>2. CASE fb_cursor_y + 1 < max_ch_nr_y
  <2>1. fb' = buf /\ fb_cursor_y' = fb_cursor_y + 1
    BY <1>1, <1>2, Grid DEF NewLine
  <2> QED
    BY <1>1, <1>2, <2>1 DEF Abstract!LineFeed
<1>3. CASE ~(fb_cursor_y + 1 < max_ch_nr_y)
  <2>1. fb' = Scrolled(buf) /\ fb_cursor_y' = fb_cursor_y
    BY <1>1, <1>3, Grid DEF NewLine
  <2> QED
    BY <1>1, <1>3, <2>1, TextScrolled DEF Abstract!LineFeed
<1> QED
  BY <1>2, <1>3

(* boot_putchar_fb puts the image of the character on the screen.          *)
LEMMA DrawPuts ==
  ASSUME IInv, IInv', space_nr = 0, space_nr' = 0, NEW ch, Draw(ch)
  PROVE  Abstract!Put(Image(ch))
<1> DEFINE scr == [Screen EXCEPT ![<<fb_cursor_x + space_nr, fb_cursor_y>>] = Image(ch)]
<1>1. fb_cursor_x \in 0 .. max_ch_nr_x - 1 /\ fb_cursor_x + space_nr = fb_cursor_x
  BY DEF IInv, InBounds
<1>2. scr = Text(Painted(fb, ch))
  BY <1>1, NoTab, TextPainted
<1>3. CASE fb_cursor_x + 1 < max_ch_nr_x
  <2>1. fb' = Painted(fb, ch) /\ fb_cursor_x' = fb_cursor_x + 1 /\ fb_cursor_y' = fb_cursor_y
    BY <1>1, <1>3, Grid DEF Draw
  <2>2. Screen' = scr
    BY <1>2, <2>1, NoTab
  <2>3. fb_cursor_x' + space_nr' = fb_cursor_x + space_nr + 1
    BY <1>1, <2>1
  <2> QED
    BY <1>1, <1>3, <2>1, <2>2, <2>3 DEF Abstract!Put
<1>4. CASE ~(fb_cursor_x + 1 < max_ch_nr_x)
  <2>1. NewLine(Painted(fb, ch))
    BY <1>1, <1>4, Grid DEF Draw
  <2>2. Abstract!LineFeed(scr)
    BY <1>2, <2>1, NewLineFeeds, PaintedInBounds
  <2> QED
    BY <1>1, <1>4, <2>2 DEF Abstract!Put
<1> QED
  BY <1>3, <1>4

(* Clearing the pixels clears every cell.                                  *)
LEMMA ClearClears ==
  ASSUME IInv, IInv', boot_clear_screen_internal_fb
  PROVE  Abstract!Clear
<1>1. space_nr = 0 /\ UNCHANGED <<fb_cursor_x, fb_cursor_y, space_nr>>
  BY DEF IInv, boot_clear_screen_internal_fb
<1>2. boot_fb_height * boot_fb_width = boot_fb_width * boot_fb_height /\ boot_fb_width * boot_fb_height \in Nat
  BY Grid, SMT
<1>3. \A i \in Pixels : fb'[i] = 0
  BY <1>2 DEF IInv, InBounds, Pixels, boot_clear_screen_internal_fb
<1>4. ASSUME NEW c \in Cells PROVE Cell(fb', c[1], c[2]) = Blank
  <2>1. c[1] \in 0 .. max_ch_nr_x - 1 /\ c[2] \in 0 .. max_ch_nr_y - 1
    BY CellsArePairs
  <2>2. \A ch_x \in Columns, ch_y \in Lines : Loc(c[1], c[2], ch_x, ch_y) \in Pixels
    BY <2>1, LocOnScreen, Grid
  <2> QED
    BY <1>3, <2>2 DEF Cell, Blank
<1>5. Screen' = Text(fb')
  BY <1>1, NoTab
<1>6. Screen' = [c \in Abstract!Cells |-> Blank]
  BY <1>4, <1>5, CellsArePairs DEF Text
<1> QED
  BY <1>1, <1>6 DEF Abstract!Clear

(* A step that leaves the pixels alone, no tab being under way, leaves the *)
(* screen alone.                                                           *)
LEMMA SameScreen ==
  ASSUME IInv, IInv', space_nr = 0, space_nr' = 0, fb' = fb
  PROVE  Screen' = Screen
BY NoTab DEF Text

(* A tab shows its spaces when it begins ...                               *)
LEMMA TabTabs ==
  ASSUME IInv, IInv', boot_putchar_tab_fb
  PROVE  Abstract!Tab
<1> DEFINE left == max_ch_nr_x - 1 - (fb_cursor_x + space_nr)
           n == IF left > DEFAULT_TAB_SIZE THEN DEFAULT_TAB_SIZE ELSE left
<1>1. /\ space_nr = 0 /\ fb' = fb /\ fb_cursor_x' = fb_cursor_x /\ fb_cursor_y' = fb_cursor_y
      /\ fb_cursor_x \in 0 .. max_ch_nr_x - 1 /\ max_ch_nr_x \in Nat
  BY Grid DEF IInv, InBounds, boot_putchar_tab_fb, Ready
<1>2. fb_cursor_x + space_nr = fb_cursor_x /\ space_nr' = n
  BY <1>1, ScreenAssumption DEF boot_putchar_tab_fb, TabWidth
<1>3. \A c \in Cells : ToDraw(c[1], c[2])' <=>
        c[2] = fb_cursor_y /\ c[1] \in (fb_cursor_x + space_nr) .. (fb_cursor_x + space_nr) + n - 1
  <2> HIDE DEF n
  <2> QED
    BY <1>1, <1>2 DEF ToDraw
<1>4. \A c \in Cells : Screen[c] = Cell(fb, c[1], c[2])
  BY <1>1, NoTab DEF Text
<1>5. Screen' = [c \in Abstract!Cells |->
                   IF c[2] = fb_cursor_y /\ c[1] \in (fb_cursor_x + space_nr) .. (fb_cursor_x + space_nr) + n - 1
                   THEN Image(SPACE) ELSE Screen[c]]
  <2>1. \A c \in Cells : (Cell(fb, c[1], c[2]))' = Cell(fb, c[1], c[2])
    BY <1>1
  <2>2. Screen' = [c \in Cells |-> IF ToDraw(c[1], c[2])' THEN Image(SPACE) ELSE (Cell(fb, c[1], c[2]))']
    BY DEF Screen
  <2> HIDE DEF n
  <2> QED
    BY <1>3, <1>4, <2>1, <2>2, CellsArePairs
<1> QED
  BY <1>1, <1>2, <1>5 DEF Abstract!Tab

(* ... and drawing them changes nothing any more.                          *)
LEMMA TabSpaceStutters ==
  ASSUME IInv, TabSpace
  PROVE  UNCHANGED <<Screen, fb_cursor_x + space_nr, fb_cursor_y>>
<1>1. /\ fb_cursor_x \in Nat /\ space_nr \in Nat /\ space_nr > 0 /\ space_nr' = space_nr - 1
      /\ fb_cursor_x + 1 < max_ch_nr_x
  BY Grid DEF IInv, InBounds, TabSpace
<1>2. fb' = Painted(fb, SPACE) /\ fb_cursor_x' = fb_cursor_x + 1 /\ fb_cursor_y' = fb_cursor_y
  BY <1>1, Grid DEF TabSpace, Draw
<1>3. ASSUME NEW c \in Cells
      PROVE  (IF ToDraw(c[1], c[2]) THEN Image(SPACE) ELSE Cell(fb, c[1], c[2]))' =
             IF ToDraw(c[1], c[2]) THEN Image(SPACE) ELSE Cell(fb, c[1], c[2])
  <2>1. c[1] \in 0 .. max_ch_nr_x - 1 /\ c[2] \in 0 .. max_ch_nr_y - 1
    BY CellsArePairs
  <2>2. Cell(fb', c[1], c[2]) =
          IF c[1] = fb_cursor_x /\ c[2] = fb_cursor_y THEN Image(SPACE) ELSE Cell(fb, c[1], c[2])
    BY <1>2, <2>1, PaintedCell
  <2>3. ToDraw(c[1], c[2]) <=> ToDraw(c[1], c[2])' \/ (c[1] = fb_cursor_x /\ c[2] = fb_cursor_y)
    BY <1>1, <1>2, <2>1, Grid DEF ToDraw
  <2>4. (Image(SPACE))' = Image(SPACE) /\ (Cell(fb, c[1], c[2]))' = Cell(fb', c[1], c[2])
    OBVIOUS
  <2> QED
    BY <2>2, <2>3, <2>4
<1>4. Screen' = Screen
  BY <1>3 DEF Screen
<1> QED
  BY <1>1, <1>2, <1>4

LEMMA InitShown == Init => Abstract!Init
<1> SUFFICES ASSUME Init PROVE Abstract!Init
  OBVIOUS
<1>1. IInv /\ space_nr = 0 /\ fb_cursor_x + space_nr = 0 /\ fb_cursor_y = 0
  BY InitInBounds DEF Init
<1>2. PICK left \in {0, 1} : fb = [i \in Pixels |-> left]
  BY DEF Init
<1>3. ASSUME NEW c \in Cells PROVE Cell(fb, c[1], c[2]) \in [Columns \X Lines -> {0, 1}]
  <2>1. \A ch_x \in Columns, ch_y \in Lines : Loc(c[1], c[2], ch_x, ch_y) \in Pixels
    BY CellsArePairs, LocOnScreen, Grid
  <2> QED
    BY <1>2, <2>1 DEF Cell
<1>4. Screen \in [Abstract!Cells -> [Columns \X Lines -> {0, 1}]]
  <2>1. Text(fb) \in [Cells -> [Columns \X Lines -> {0, 1}]]
    BY <1>3 DEF Text
  <2>2. Screen = Text(fb)
    BY <1>1, NoTab
  <2> QED
    BY <2>1, <2>2, CellsArePairs
<1> QED
  BY <1>1, <1>4 DEF Abstract!Init

LEMMA StepShown ==
  ASSUME IInv, IInv', [Next]_vars
  PROVE  [Abstract!Next]_<<Screen, fb_cursor_x + space_nr, fb_cursor_y>>
<1>1. CASE boot_clear_screen_internal_fb
  BY <1>1, ClearClears DEF Abstract!Next
<1>2. CASE \E ch \in Characters : boot_putchar_fb(ch)
  <2>1. PICK ch \in Characters : boot_putchar_fb(ch)
    BY <1>2
  <2>2. Abstract!Put(Image(ch))
    BY <2>1, DrawPuts DEF boot_putchar_fb, Ready
  <2> QED
    BY <2>2 DEF Abstract!Next
<1>3. CASE boot_putchar_fb_new_line
  <2>1. NewLine(fb) /\ space_nr = 0 /\ space_nr' = 0 /\ DOMAIN fb = Pixels
    BY <1>3 DEF boot_putchar_fb_new_line, Ready, IInv, InBounds
  <2>2. Abstract!LineFeed(Screen)
    BY <2>1, NewLineFeeds, NoTab
  <2> QED
    BY <2>2 DEF Abstract!NewLine, Abstract!Next
<1>4. CASE boot_cursor_back_fb
  <2>1. /\ space_nr = 0 /\ space_nr' = 0 /\ fb' = fb
        /\ fb_cursor_x' = 0 /\ fb_cursor_y' = fb_cursor_y
    BY <1>4 DEF boot_cursor_back_fb, Ready
  <2>2. Screen' = Screen /\ fb_cursor_x' + space_nr' = 0
    BY <2>1, SameScreen
  <2> QED
    BY <2>1, <2>2 DEF Abstract!CarriageReturn, Abstract!Next
<1>5. CASE boot_back_space_fb
  <2>1. /\ space_nr = 0 /\ space_nr' = 0 /\ fb' = fb /\ fb_cursor_x \in Int /\ fb_cursor_x > 0
        /\ fb_cursor_x' = fb_cursor_x - 1 /\ fb_cursor_y' = fb_cursor_y
    BY <1>5 DEF boot_back_space_fb, Ready, IInv, InBounds
  <2>2. /\ Screen' = Screen /\ fb_cursor_x + space_nr > 0
        /\ fb_cursor_x' + space_nr' = (fb_cursor_x + space_nr) - 1
    BY <2>1, SameScreen
  <2> QED
    BY <2>1, <2>2 DEF Abstract!BackSpace, Abstract!Next
<1>6. CASE boot_putchar_tab_fb
  BY <1>6, TabTabs DEF Abstract!Next
<1>7. CASE TabSpace
  BY <1>7, TabSpaceStutters
<1>8. CASE UNCHANGED vars
  <2>1. Screen' = Screen
    BY <1>8 DEF Screen, ToDraw, vars
  <2> QED
    BY <1>8, <2>1 DEF vars
<1> QED
  BY <1>1, <1>2, <1>3, <1>4, <1>5, <1>6, <1>7, <1>8 DEF Next

(* The pixels implement the screen of characters: for every size of the    *)
(* screen and of the font, and whatever the glyphs look like, a character  *)
(* is drawn in its cell and no other, the text scrolls by whole lines, and *)
(* a tab and a backspace stay on their line.                               *)
THEOREM DrawsCharacters == Spec => ImplementsTerminal
<1> QED
  BY InitInBounds, NextInBounds, InitShown, StepShown, PTL DEF Spec, ImplementsTerminal, Abstract!Spec

-----------------------------------------------------------------------------
(* The pixels that belong to no cell.                                      *)

LEMMA Split ==
  ASSUME NEW i \in Pixels
  PROVE  /\ i \div boot_fb_width \in Nat /\ i % boot_fb_width \in 0 .. boot_fb_width - 1
         /\ i = (i \div boot_fb_width) * boot_fb_width + (i % boot_fb_width)
<1>1. i \in Nat
  BY Grid DEF Pixels
<1> QED
  BY <1>1, Grid, SMT

(* No point of a cell is in the margin.                                    *)
LEMMA CellsOffMargin ==
  ASSUME NEW cx \in 0 .. max_ch_nr_x - 1, NEW cy \in 0 .. max_ch_nr_y - 1,
         NEW ch_x \in Columns, NEW ch_y \in Lines
  PROVE  Loc(cx, cy, ch_x, ch_y) \notin Margin
<1> DEFINE column == cx * font_width + ch_x
           line == cy * font_height + ch_y
<1>1. /\ column \in 0 .. boot_fb_width - 1 /\ line \in 0 .. boot_fb_height - 1
      /\ Loc(cx, cy, ch_x, ch_y) = line * boot_fb_width + column
  BY LocForm
<1>2. max_ch_nr_x * font_width \in Nat /\ max_ch_nr_y * font_height \in Nat
  BY Grid, SMT
<1>3. column < max_ch_nr_x * font_width
  <2>1. column \in 0 .. max_ch_nr_x * font_width - 1
    BY <1>2, PointInCells, Grid DEF Columns
  <2> QED
    BY <1>2, <2>1
<1>4. line < max_ch_nr_y * font_height
  <2>1. line \in 0 .. max_ch_nr_y * font_height - 1
    BY <1>2, PointInCells, Grid DEF Lines
  <2> QED
    BY <1>2, <2>1
<1>5. Loc(cx, cy, ch_x, ch_y) % boot_fb_width = column /\ Loc(cx, cy, ch_x, ch_y) \div boot_fb_width = line
  <2> HIDE DEF column, line
  <2>1. line \in Nat /\ boot_fb_width \in Nat \ {0}
    BY <1>1, Grid
  <2>2. (line * boot_fb_width + column) % boot_fb_width = column /\ (line * boot_fb_width + column) \div boot_fb_width = line
    BY <1>1, <2>1, DivMod, ZenonT(30)
  <2> QED
    BY <1>1, <2>2
<1> QED
  <2> HIDE DEF column, line
  <2> QED
    BY <1>1, <1>2, <1>3, <1>4, <1>5, Grid DEF Margin

BlankMargin(buf) == \A i \in Margin : buf[i] = 0

LEMMA PaintedMargin ==
  ASSUME IInv, NEW ch, BlankMargin(fb)
  PROVE  BlankMargin(Painted(fb, ch))
<1>1. ASSUME NEW i \in Margin PROVE Painted(fb, ch)[i] = fb[i]
  <2>1. \A ch_x \in Columns, ch_y \in Lines : i # Loc(fb_cursor_x, fb_cursor_y, ch_x, ch_y)
    BY CellsOffMargin DEF IInv, InBounds
  <2>2. i \in DOMAIN fb
    BY DEF IInv, InBounds, Margin
  <2> QED
    BY <2>1, <2>2 DEF Painted
<1> QED
  BY <1>1 DEF BlankMargin

(* Scrolling moves the margin beside the text within itself.               *)
LEMMA ScrolledMargin ==
  ASSUME NEW buf, DOMAIN buf = Pixels, BlankMargin(buf)
  PROVE  BlankMargin(Scrolled(buf))
<1> SUFFICES ASSUME NEW i \in Margin PROVE Scrolled(buf)[i] = 0
  BY DEF BlankMargin
<1> DEFINE q == i \div boot_fb_width
           r == i % boot_fb_width
           last == (max_ch_nr_y - 1) * font_height
<1>1. /\ i \in Pixels /\ q \in Nat /\ r \in 0 .. boot_fb_width - 1 /\ i = q * boot_fb_width + r
      /\ r >= max_ch_nr_x * font_width \/ q >= max_ch_nr_y * font_height
  BY Split DEF Margin
<1>2. CASE i < last * boot_fb_width
  <2>1. /\ last \in Nat /\ max_ch_nr_y * font_height = last + font_height
        /\ font_height \in Nat /\ boot_fb_width \in Nat \ {0}
    <3>1. max_ch_nr_y - 1 \in Nat /\ font_height \in Nat /\ boot_fb_width \in Nat \ {0} /\ max_ch_nr_y \in Nat
      BY Grid
    <3> QED
      BY <3>1, SMT
  <2> HIDE DEF last, q, r
  <2>2. q < last
    <3>1. ASSUME last <= q PROVE FALSE
      <4>1. last * boot_fb_width <= q * boot_fb_width /\ q * boot_fb_width \in Nat /\ last * boot_fb_width \in Nat
        BY <1>1, <2>1, <3>1, TimesOrder
      <4> QED
        BY <1>1, <1>2, <4>1
    <3> QED
      BY <1>1, <2>1, <3>1
  <2>3. r >= max_ch_nr_x * font_width
    BY <1>1, <2>1, <2>2
  <2>4. (q + font_height) * boot_fb_width + r = i + font_height * boot_fb_width
    <3>1. (q + font_height) * boot_fb_width = q * boot_fb_width + font_height * boot_fb_width
      BY <1>1, <2>1, SMT
    <3>2. q * boot_fb_width \in Nat /\ font_height * boot_fb_width \in Nat
      BY <1>1, <2>1, SMT
    <3> QED
      BY <1>1, <3>1, <3>2
  <2>5. i + font_height * boot_fb_width \in Pixels
    <3>1. q + font_height \in Nat /\ q + font_height < boot_fb_height /\ boot_fb_height \in Nat
      BY <1>1, <2>1, <2>2, Grid
    <3>2. boot_fb_height * boot_fb_width \in Nat /\ boot_fb_height * boot_fb_width = boot_fb_width * boot_fb_height
      BY Grid, SMT
    <3>3. (q + font_height) * boot_fb_width + r \in 0 .. boot_fb_height * boot_fb_width - 1
      BY <1>1, <2>1, <3>1, <3>2, PointInCells
    <3> QED
      BY <2>4, <3>2, <3>3 DEF Pixels
  <2>6. (i + font_height * boot_fb_width) % boot_fb_width = r
    <3>1. q + font_height \in Nat
      BY <1>1, <2>1
    <3>2. ((q + font_height) * boot_fb_width + r) % boot_fb_width = r
      BY <1>1, <2>1, <3>1, DivMod
    <3> QED
      BY <2>4, <3>2
  <2>7. i + font_height * boot_fb_width \in Margin
    BY <2>3, <2>5, <2>6 DEF Margin
  <2> QED
    BY <1>1, <1>2, <2>7 DEF Scrolled, BlankMargin, last
<1>3. CASE ~(i < last * boot_fb_width)
  BY <1>1, <1>3 DEF Scrolled, BlankMargin
<1> QED
  BY <1>2, <1>3

MInv == cleared => BlankMargin(fb)

LEMMA MarginStays == IInv /\ MInv /\ [Next]_vars => MInv'
<1> SUFFICES ASSUME IInv, MInv, [Next]_vars, cleared' PROVE BlankMargin(fb)'
  BY DEF MInv
<1>1. ASSUME NEW ch, cleared, Draw(ch) PROVE BlankMargin(fb')
  <2>1. BlankMargin(Painted(fb, ch)) /\ DOMAIN Painted(fb, ch) = Pixels
    BY <1>1, PaintedMargin, PaintedInBounds DEF MInv
  <2> QED
    BY <1>1, <2>1, ScrolledMargin DEF Draw, NewLine
<1>2. CASE boot_clear_screen_internal_fb
  <2>1. \A i \in Margin : i \in DOMAIN fb /\ i < boot_fb_height * boot_fb_width
    <3>1. boot_fb_height * boot_fb_width = boot_fb_width * boot_fb_height /\ boot_fb_width * boot_fb_height \in Nat
      BY Grid, SMT
    <3> QED
      BY <3>1 DEF IInv, InBounds, Margin, Pixels
  <2> QED
    BY <1>2, <2>1 DEF boot_clear_screen_internal_fb, BlankMargin
<1>3. CASE \E ch \in Characters : boot_putchar_fb(ch)
  BY <1>1, <1>3 DEF boot_putchar_fb, Ready, BlankMargin
<1>4. CASE boot_putchar_fb_new_line
  <2>1. cleared /\ NewLine(fb) /\ DOMAIN fb = Pixels
    BY <1>4 DEF boot_putchar_fb_new_line, Ready, IInv, InBounds
  <2>2. BlankMargin(fb')
    BY <2>1, ScrolledMargin DEF NewLine, MInv
  <2> QED
    BY <2>2 DEF BlankMargin
<1>5. CASE TabSpace
  <2>1. cleared /\ Draw(SPACE)
    BY <1>5 DEF TabSpace
  <2> QED
    BY <1>1, <2>1 DEF BlankMargin
<1>6. CASE fb' = fb /\ cleared' = cleared
  BY <1>6 DEF MInv, BlankMargin
<1>7. CASE boot_cursor_back_fb \/ boot_back_space_fb \/ boot_putchar_tab_fb \/ UNCHANGED vars
  BY <1>6, <1>7 DEF boot_cursor_back_fb, boot_back_space_fb, boot_putchar_tab_fb, vars
<1> QED
  BY <1>2, <1>3, <1>4, <1>5, <1>7 DEF Next

(* Whatever is left of the screen beside and below the cells stays blank   *)
(* once the screen was cleared.                                            *)
THEOREM MarginStaysBlank == Spec => []MarginBlank
<1>1. Init => MInv
  BY DEF Init, MInv
<1>2. MInv => MarginBlank
  BY DEF MInv, BlankMargin, MarginBlank
<1> QED
  BY <1>1, <1>2, InitInBounds, NextInBounds, MarginStays, PTL DEF Spec
=============================================================================
