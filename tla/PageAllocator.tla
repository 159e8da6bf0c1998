--------------------------- MODULE PageAllocator ---------------------------
(***************************************************************************)
(* What a page pool promises its callers, with nothing of how it keeps it: *)
(* memory is granted as blocks of 1, 2, 4, ... page frames, aligned to     *)
(* their size, made of frames the pool was given and of no frame that      *)
(* somebody else holds; a block stays granted until its last reference is  *)
(* given back.                                                             *)
(*                                                                         *)
(* PagePool is shown to implement this, KHeap is built on it.              *)
(***************************************************************************)
EXTENDS Integers

CONSTANTS
  MAX_PAGE_ORDER,  \* blocks have an order in 0 .. MAX_PAGE_ORDER - 1
  Usable           \* the page frames (by number) the pool is given at boot

ASSUME OrderAssumption == MAX_PAGE_ORDER \in 1..11
ASSUME UsableAssumption == Usable \subseteq Nat

VARIABLES
  held,  \* the blocks <<first frame, order>> that callers hold
  refs   \* refs[p]: the references callers hold to the block that starts at p

avars == <<held, refs>>

Orders == 0 .. MAX_PAGE_ORDER - 1

(* 1 << order, for the orders a pool can have. *)
Pow2(o) == <<1, 2, 4, 8, 16, 32, 64, 128, 256, 512, 1024>>[o + 1]

(* The page frames of the block of order o that starts at frame p. *)
Block(p, o) == p .. p + Pow2(o) - 1

Aligned(p, o) == p % Pow2(o) = 0

(* A block the pool may grant: aligned, and no frame of it is held. *)
Grantable(p, o) ==
  /\ Aligned(p, o)
  /\ Block(p, o) \subseteq Usable
  /\ \A b \in held : Block(p, o) \cap Block(b[1], b[2]) = {}

(* Before boot adds the frames to the pool each is a block of its own, held *)
(* by the boot code.                                                        *)
AInit ==
  /\ held = {<<i, 0>> : i \in Usable}
  /\ refs = [i \in Usable |-> 1]

Grant(p, o) ==
  /\ Grantable(p, o)
  /\ held' = held \cup {<<p, o>>}
  /\ refs' = [refs EXCEPT ![p] = 1]

Reference(b) ==
  /\ refs' = [refs EXCEPT ![b[1]] = @ + 1]
  /\ UNCHANGED held

(* A reference is given back; with the last one the block is. *)
Release(b) ==
  /\ refs' = [refs EXCEPT ![b[1]] = @ - 1]
  /\ held' = IF refs[b[1]] = 1 THEN held \ {b} ELSE held

ANext ==
  \/ \E p \in Usable, o \in Orders : Grant(p, o)
  \/ \E b \in held : Reference(b) \/ Release(b)

ASpec == AInit /\ [][ANext]_avars
=============================================================================
