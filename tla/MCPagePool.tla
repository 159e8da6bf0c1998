----------------------------- MODULE MCPagePool -----------------------------
(* Instances of PagePool for TLC. *)
EXTENDS PagePool, TLC

CONSTANTS c1, c2

TwoCpus == {c1, c2}
OneCpu == {c1}

FourPages == 0..3

(* Thirteen frames: two blocks of the largest order, buddies of each other;*)
(* a frame in use at boot (8) with a usable buddy; a hole (10, 11); and a  *)
(* last frame whose buddy is past the end of the database.                 *)
HoledNormal == 0..9 \cup {12}
HoledUsable == 0..7 \cup {9, 12}
=============================================================================
