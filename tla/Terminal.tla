------------------------------ MODULE Terminal ------------------------------
(***************************************************************************)
(* What a screen of characters promises to those who print on it: a grid   *)
(* of cells, a cursor in the grid, and for each character code the cells   *)
(* that change.  FrameBuffer does it with pixels.                          *)
(***************************************************************************)
EXTENDS Integers

CONSTANTS
  Columns, Rows,   \* the grid
  TAB_SIZE,        \* the most cells that a tab passes
  Look,            \* what a cell can look like
  Printable,       \* the looks of the characters
  Space, Empty     \* the look of a space, and of a cell that was erased

VARIABLES
  screen,          \* the look of each cell <<column, row>>
  x, y             \* the cursor

Cells == (0 .. Columns - 1) \X (0 .. Rows - 1)

Init ==
  /\ screen \in [Cells -> Look]
  /\ x = 0
  /\ y = 0

(* To the beginning of the next line; on the last line the text moves up.  *)
LineFeed(scr) ==
  /\ x' = 0
  /\ IF y + 1 < Rows
     THEN y' = y + 1 /\ screen' = scr
     ELSE y' = y /\ screen' = [c \in Cells |->
                                 IF c[2] + 1 < Rows THEN scr[<<c[1], c[2] + 1>>] ELSE Empty]

(* A character fills the cell at the cursor and no other.                  *)
Put(look) ==
  LET scr == [screen EXCEPT ![<<x, y>>] = look]
  IN  IF x + 1 < Columns
      THEN screen' = scr /\ x' = x + 1 /\ y' = y
      ELSE LineFeed(scr)

NewLine == LineFeed(screen)

CarriageReturn == x' = 0 /\ UNCHANGED <<screen, y>>

BackSpace ==
  /\ x > 0
  /\ x' = x - 1
  /\ UNCHANGED <<screen, y>>

(* A tab stays on its line, however long it is.                            *)
Tab ==
  LET left == Columns - 1 - x
      n == IF left > TAB_SIZE THEN TAB_SIZE ELSE left
  IN  /\ screen' = [c \in Cells |-> IF c[2] = y /\ c[1] \in x .. x + n - 1 THEN Space ELSE screen[c]]
      /\ x' = x + n
      /\ y' = y

Clear ==
  /\ screen' = [c \in Cells |-> Empty]
  /\ UNCHANGED <<x, y>>

Next ==
  \/ \E look \in Printable : Put(look)
  \/ NewLine
  \/ CarriageReturn
  \/ BackSpace
  \/ Tab
  \/ Clear

Spec == Init /\ [][Next]_<<screen, x, y>>
=============================================================================
