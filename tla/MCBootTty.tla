------------------------------ MODULE MCBootTty ------------------------------
(* Instances of BootTty for TLC.  The strings: a character and a carriage  *)
(* return, and a byte above 127, which is a negative char.                 *)
EXTENDS BootTty

Strings == {<<120, CR, LF>>, <<-23>>}
Codes == {0, 7, -10, -205}
Bases == {0, 171, 4096}
=============================================================================
