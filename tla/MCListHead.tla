----------------------------- MODULE MCListHead -----------------------------
(* An instance of ListHead for TLC. *)
EXTENDS ListHead

CONSTANTS h1, h2, n1, n2, n3, n4

TwoHeads == {h1, h2}
FourNodes == {n1, n2, n3, n4}
Symmetry == Permutations({n1, n2, n3, n4}) \cup Permutations({h1, h2})
=============================================================================
