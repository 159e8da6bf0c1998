---------------------------- MODULE MCFrameBuffer ----------------------------
(* An instance of FrameBuffer for TLC: a byte has two bits, a glyph is two *)
(* lines high and one byte wide.  The font ends after "!" (33), so that    *)
(* code 34 has no glyph and the null glyph is drawn for it.               *)
EXTENDS FrameBuffer

NarrowFont == [b \in 0 .. 34 * 2 - 1 |-> IF b = 66 THEN 2 ELSE IF b = 67 THEN 1 ELSE 0]
Printed == {33, 34}
=============================================================================
