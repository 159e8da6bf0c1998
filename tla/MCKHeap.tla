------------------------------ MODULE MCKHeap ------------------------------
(* Instances of KHeap for TLC. *)
EXTENDS KHeap

CONSTANTS c1, c2

OneCpu == {c1}
TwoCpus == {c1, c2}

(* For the leak: objects of which two are a page.  For both CPUs: objects  *)
(* that leave a rest in the page, and objects of more than a page, for     *)
(* which the cache takes four pages at a time, that leave one as well.     *)
SmallSizes == <<1>>
TwoSizes == <<3, 10>>
ThreePages == 0..2
FourPages == 0..3
=============================================================================
