----------------------------- MODULE FrameBuffer -----------------------------
(***************************************************************************)
(* Characters on the frame buffer, src/arch/x86/boot/boot_tty.c: an array  *)
(* of pixels, addressed by x + y * boot_fb_width, in which glyphs of a PSF *)
(* font are drawn and which scrolls by copying.                            *)
(*                                                                         *)
(* A write with an index outside the array makes the domain of fb grow.    *)
(* The foreground 0xffffff is 1, the background is 0.                      *)
(***************************************************************************)
EXTENDS Integers

CONSTANTS
  boot_fb_width, boot_fb_height,   \* in pixels, from the boot information
  CHAR_BIT,                        \* bits in a byte: 8
  font_width_bytes, font_height,   \* from the font's header
  glyph_nr, glyph_table,           \* the number of glyphs, and their bytes
  DEFAULT_TAB_SIZE,                \* 8
  Characters                       \* bound: the codes that are printed

font_width == font_width_bytes * CHAR_BIT
max_ch_nr_x == boot_fb_width \div font_width
max_ch_nr_y == boot_fb_height \div font_height
bytes_per_glyph == font_width_bytes * font_height

(* The screen has room for a character: boot_init_font does not check it.  *)
ASSUME ScreenAssumption ==
  /\ CHAR_BIT \in Nat \ {0}
  /\ font_width_bytes \in Nat \ {0}
  /\ font_height \in Nat \ {0}
  /\ boot_fb_width \in Nat /\ boot_fb_width >= font_width
  /\ boot_fb_height \in Nat /\ boot_fb_height >= font_height
  /\ DEFAULT_TAB_SIZE \in Nat

ASSUME FontAssumption ==
  /\ glyph_nr \in Nat \ {0}
  /\ Characters \subseteq Nat
  /\ glyph_table \in [0 .. glyph_nr * bytes_per_glyph - 1 -> Nat]

VARIABLES
  fb,            \* the pixels, from boot_fb_base on
  fb_cursor_x,   \* the cursor, in characters
  fb_cursor_y,
  space_nr,      \* the spaces that the loop of boot_putchar_tab_fb has to go
  cleared        \* the screen has been cleared, as boot_tty_init does first

vars == <<fb, fb_cursor_x, fb_cursor_y, space_nr, cleared>>

Pixels == 0 .. boot_fb_width * boot_fb_height - 1
SPACE == 32

Columns == 0 .. font_width - 1
Lines == 0 .. font_height - 1

(* The bit under mask at column ch_x: the mask goes back to the highest    *)
(* bit after column 0 of each byte, not before it.                         *)
MaskBit(ch_x) ==
  IF ch_x = 0 THEN CHAR_BIT - 1
  ELSE IF ch_x % CHAR_BIT = 0 THEN 0 ELSE CHAR_BIT - (ch_x % CHAR_BIT)

(* Pixel of a character's glyph; the null glyph if it has none.            *)
Pixel(ch, ch_x, ch_y) ==
  LET glyph == IF ch < glyph_nr THEN ch * bytes_per_glyph ELSE 0
      at == glyph + ch_y * font_width_bytes + ch_x \div CHAR_BIT
  IN  (glyph_table[at] \div 2 ^ MaskBit(ch_x)) % 2

(* Where column ch_x of line ch_y of the cell at column cx, row cy is.     *)
Loc(cx, cy, ch_x, ch_y) ==
  cy * font_height * boot_fb_width + cx * font_width + ch_y * boot_fb_width + ch_x

(* The frame buffer with a glyph drawn in the cursor's cell.               *)
Painted(buf, ch) ==
  LET loc == Loc(fb_cursor_x, fb_cursor_y, 0, 0)
      Glyph == {Loc(fb_cursor_x, fb_cursor_y, ch_x, ch_y) : ch_x \in Columns, ch_y \in Lines}
  IN  [i \in DOMAIN buf \union Glyph |->
         IF i \in Glyph
         THEN Pixel(ch, (i - loc) % boot_fb_width, (i - loc) \div boot_fb_width)
         ELSE buf[i]]

(* Mutant of Scrolled: the text moves by a pixel less than a line. *)
ScrolledLess(buf) ==
  [i \in DOMAIN buf |->
     IF i < (max_ch_nr_y - 1) * font_height * boot_fb_width
     THEN buf[i + (font_height - 1) * boot_fb_width]
     ELSE IF i < max_ch_nr_y * font_height * boot_fb_width THEN 0 ELSE buf[i]]

(* Mutant of Scrolled: all pixels move up, those below the last line too. *)
ScrolledAll(buf) ==
  [i \in DOMAIN buf |->
     IF i + font_height * boot_fb_width \in DOMAIN buf
     THEN buf[i + font_height * boot_fb_width] ELSE 1]

(* The text one line up, and the last line erased.                         *)
Scrolled(buf) ==
  [i \in DOMAIN buf |->
     IF i < (max_ch_nr_y - 1) * font_height * boot_fb_width
     THEN buf[i + font_height * boot_fb_width]
     ELSE IF i < max_ch_nr_y * font_height * boot_fb_width THEN 0 ELSE buf[i]]

(* boot_init_font has run; the boot loader may have left anything.         *)
Init ==
  /\ \E left \in {0, 1} : fb = [i \in Pixels |-> left]
  /\ fb_cursor_x = 0
  /\ fb_cursor_y = 0
  /\ space_nr = 0
  /\ cleared = FALSE

(* Mutant of NewLine: it scrolls one line too late. *)
NewLineLate(buf) ==
  /\ fb_cursor_x' = 0
  /\ IF fb_cursor_y + 1 > max_ch_nr_y
     THEN fb' = Scrolled(buf) /\ UNCHANGED fb_cursor_y
     ELSE fb' = buf /\ fb_cursor_y' = fb_cursor_y + 1

(* boot_putchar_fb_new_line, on the pixels as they are by then.            *)
NewLine(buf) ==
  /\ fb_cursor_x' = 0
  /\ IF fb_cursor_y + 1 >= max_ch_nr_y
     THEN fb' = Scrolled(buf) /\ UNCHANGED fb_cursor_y
     ELSE fb' = buf /\ fb_cursor_y' = fb_cursor_y + 1

Draw(ch) ==
  LET buf == Painted(fb, ch)
  IN  IF fb_cursor_x + 1 >= max_ch_nr_x
      THEN NewLine(buf)
      ELSE fb' = buf /\ fb_cursor_x' = fb_cursor_x + 1 /\ UNCHANGED fb_cursor_y

(* No call is under way and the screen is set up.                          *)
Ready == cleared /\ space_nr = 0

boot_clear_screen_internal_fb ==
  /\ ~cleared
  /\ cleared' = TRUE
  /\ fb' = [i \in DOMAIN fb |-> IF i < boot_fb_height * boot_fb_width THEN 0 ELSE fb[i]]
  /\ UNCHANGED <<fb_cursor_x, fb_cursor_y, space_nr>>

boot_putchar_fb(ch) ==
  /\ Ready
  /\ Draw(ch)
  /\ UNCHANGED <<space_nr, cleared>>

boot_putchar_fb_new_line ==
  /\ Ready
  /\ NewLine(fb)
  /\ UNCHANGED <<space_nr, cleared>>

boot_cursor_back_fb ==
  /\ Ready
  /\ fb_cursor_x' = 0
  /\ UNCHANGED <<fb, fb_cursor_y, space_nr, cleared>>

boot_back_space_fb ==
  /\ Ready
  /\ fb_cursor_x > 0
  /\ fb_cursor_x' = fb_cursor_x - 1
  /\ UNCHANGED <<fb, fb_cursor_y, space_nr, cleared>>

TabWidth ==
  LET left_ch_nr == max_ch_nr_x - fb_cursor_x - 1
  IN  IF left_ch_nr > DEFAULT_TAB_SIZE THEN DEFAULT_TAB_SIZE ELSE left_ch_nr

boot_putchar_tab_fb ==
  /\ Ready
  /\ space_nr' = TabWidth
  /\ UNCHANGED <<fb, fb_cursor_x, fb_cursor_y, cleared>>

(* A turn of its loop.                                                     *)
TabSpace ==
  /\ space_nr > 0
  /\ space_nr' = space_nr - 1
  /\ Draw(SPACE)
  /\ UNCHANGED cleared

Next ==
  \/ boot_clear_screen_internal_fb
  \/ \E ch \in Characters : boot_putchar_fb(ch)
  \/ boot_putchar_fb_new_line
  \/ boot_cursor_back_fb
  \/ boot_back_space_fb
  \/ boot_putchar_tab_fb
  \/ TabSpace

Spec == Init /\ [][Next]_vars
-----------------------------------------------------------------------------
(* No pixel is written outside the frame buffer: it does not grow, and the *)
(* cursor is in a cell that lies on the screen as a whole, now and after   *)
(* the spaces of a tab, whose number does not wrap around below zero.      *)
(* This is about the index that boot_putchar_fb computes.                  *)
InBounds ==
  /\ DOMAIN fb = Pixels
  /\ fb_cursor_x \in 0 .. max_ch_nr_x - 1
  /\ fb_cursor_y \in 0 .. max_ch_nr_y - 1
  /\ space_nr \in 0 .. max_ch_nr_x - 1 - fb_cursor_x

(* The pixels right of the last cell and below the last line belong to no  *)
(* cell: after the screen was cleared nothing is drawn or scrolled there.  *)
Margin ==
  {i \in Pixels : \/ i % boot_fb_width >= max_ch_nr_x * font_width
                  \/ i \div boot_fb_width >= max_ch_nr_y * font_height}

MarginBlank == cleared => \A i \in Margin : fb[i] = 0

-----------------------------------------------------------------------------
(* The screen of characters that the pixels show.  A tab is a step of it   *)
(* when it begins: the spaces still to be drawn are shown already.         *)
Image(ch) == [p \in Columns \X Lines |-> Pixel(ch, p[1], p[2])]
Blank == [p \in Columns \X Lines |-> 0]

Cells == (0 .. max_ch_nr_x - 1) \X (0 .. max_ch_nr_y - 1)
Cell(buf, cx, cy) == [p \in Columns \X Lines |-> buf[Loc(cx, cy, p[1], p[2])]]

ToDraw(cx, cy) == cy = fb_cursor_y /\ cx \in fb_cursor_x .. fb_cursor_x + space_nr - 1

Screen ==
  [c \in Cells |-> IF ToDraw(c[1], c[2]) THEN Image(SPACE) ELSE Cell(fb, c[1], c[2])]

Abstract == INSTANCE Terminal WITH
  Columns <- max_ch_nr_x,
  Rows <- max_ch_nr_y,
  TAB_SIZE <- DEFAULT_TAB_SIZE,
  Look <- [Columns \X Lines -> {0, 1}],
  Printable <- {Image(ch) : ch \in Characters},
  Space <- Image(SPACE),
  Empty <- Blank,
  screen <- Screen,
  x <- fb_cursor_x + space_nr,
  y <- fb_cursor_y

(* The frame buffer implements the screen of characters: a character is    *)
(* drawn in its cell and no other, the text scrolls by whole lines, a tab  *)
(* and a backspace stay on their line.                                     *)
ImplementsTerminal == Abstract!Spec
=============================================================================
