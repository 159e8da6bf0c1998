-------------------------------- MODULE Heap --------------------------------
(***************************************************************************)
(* What Malloc and Free promise their callers, with nothing of caches and  *)
(* pages: a call of Malloc is answered once, with nullptr or with words of *)
(* memory of which nobody holds one, as many as were asked for; memory is  *)
(* a caller's until that caller gives it to Free, whatever others do.      *)
(*                                                                         *)
(* KHeap is shown to implement this.                                       *)
(***************************************************************************)
EXTENDS Integers

CONSTANTS
  Cpus,
  Memory,    \* the words there are, by address
  Requests   \* the sizes that Malloc is called with

VARIABLES
  live,      \* what callers hold: [addr, need], need words from addr on
  asked      \* of each CPU: the size Malloc is to answer, if it is in Malloc

hvars == <<live, asked>>

Words(a) == a.addr .. a.addr + a.need - 1

(* Nobody holds a word of a, nor its address. *)
Unheld(a) == \A b \in live : b.addr # a.addr /\ Words(b) \cap Words(a) = {}

Init ==
  /\ live = {}
  /\ asked = [c \in Cpus |-> {}]

Ask(c, need) ==
  /\ asked[c] = {}
  /\ asked' = [asked EXCEPT ![c] = {need}]
  /\ UNCHANGED live

Answered(c) == asked' = [asked EXCEPT ![c] = {}]

(* Malloc returns the address x. *)
Get(c, need, x) ==
  LET a == [addr |-> x, need |-> need]
  IN  /\ need \in asked[c]
      /\ live' = live \cup {a}
      /\ Unheld(a)
      /\ Words(a) \subseteq Memory
      /\ Answered(c)

(* Malloc returns nullptr. *)
Refuse(c) == asked[c] # {} /\ Answered(c) /\ UNCHANGED live

GiveBack(c, a) ==
  /\ asked[c] = {}
  /\ live' = live \ {a}
  /\ UNCHANGED asked

Next ==
  \E c \in Cpus :
    \/ \E need \in Requests : Ask(c, need)
    \/ \E need \in asked[c], x \in Memory : Get(c, need, x)
    \/ Refuse(c)
    \/ \E a \in live : GiveBack(c, a)

Spec == Init /\ [][Next]_hvars
=============================================================================
