-------------------------- MODULE PagePool_proofs --------------------------
(***************************************************************************)
(* Proofs about PagePool, for any number of CPUs and pages.                *)
(***************************************************************************)
EXTENDS PagePool, TLAPS

-----------------------------------------------------------------------------
(* The arithmetic of buddies. *)

(* The table of powers of two. *)
LEMMA PowersOfTwo ==
  /\ \A k \in 0..10 : Pow2(k) \in Nat /\ Pow2(k) >= 1
  /\ \A k \in 0..9 : Pow2(k + 1) = 2 * Pow2(k)
  BY DEF Pow2

(* A positive number divides p when p leaves no rest, and then p is so     *)
(* many times that number.                                                 *)
LEMMA Multiple ==
  ASSUME NEW p \in Nat, NEW n \in Nat, n >= 1, p % n = 0
  PROVE  \E m \in Nat : p = m * n
<1>1. p = (p \div n) * n + (p % n)
  OBVIOUS
<1>2. p \div n \in Nat
  OBVIOUS
<1> QED
  BY <1>1, <1>2

LEMMA Rest ==
  ASSUME NEW m \in Nat, NEW n \in Nat, NEW r \in 0 .. n - 1, n >= 1
  PROVE  (m * n + r) % n = r
  OBVIOUS

LEMMA Rest2 ==
  ASSUME NEW m \in Nat, NEW n \in Nat, n >= 1
  PROVE  m * n % n = 0
  BY Rest

(* The block of order k + 1 is made of its two halves, which are aligned   *)
(* and are each other's buddies.                                           *)
LEMMA Halves ==
  ASSUME NEW p \in Nat, NEW k \in 0..9, Aligned(p, k + 1)
  PROVE  /\ Aligned(p, k)
         /\ Aligned(p + Pow2(k), k)
         /\ buddy_page_pfn(p, k) = p + Pow2(k)
         /\ buddy_page_pfn(p + Pow2(k), k) = p
         /\ Block(p, k + 1) = Block(p, k) \cup Block(p + Pow2(k), k)
         /\ Block(p, k) \cap Block(p + Pow2(k), k) = {}
<1> DEFINE n == Pow2(k)
           w == Pow2(k + 1)
<1>1. /\ n \in Nat /\ n >= 1
      /\ w \in Nat /\ w >= 1
      /\ w = 2 * n
  BY PowersOfTwo
<1>2. p % w = 0
  BY DEF Aligned
<1>3. Block(p, k + 1) = p .. p + w - 1
  BY DEF Block
<1>4. Block(p, k) = p .. p + n - 1 /\ Block(p + n, k) = p + n .. p + n + n - 1
  BY DEF Block
<1>5. \A x : buddy_page_pfn(x, k) = IF x % w < n THEN x + n ELSE x - n
  BY DEF buddy_page_pfn
<1>6. (Aligned(p, k) <=> p % n = 0) /\ (Aligned(p + n, k) <=> (p + n) % n = 0)
  BY DEF Aligned
<1> HIDE DEF n, w
<1>7. PICK m \in Nat : p = m * w
  BY <1>1, <1>2, Multiple
<1>8. p = (2 * m) * n /\ p + n = (2 * m + 1) * n
  BY <1>1, <1>7
<1>9. p % n = 0 /\ (p + n) % n = 0
  BY <1>1, <1>8, Rest2
<1>10. (p + n) % w = n
  <2>1. n \in 0 .. w - 1 /\ p + n = m * w + n
    BY <1>1, <1>7
  <2> QED
    BY <1>1, <2>1, Rest
<1>11. buddy_page_pfn(p, k) = p + n /\ buddy_page_pfn(p + n, k) = p
  <2>1. p % w < n /\ ~((p + n) % w < n)
    BY <1>1, <1>2, <1>10
  <2>2. (p + n) - n = p
    BY <1>1
  <2> QED
    BY <1>5, <2>1, <2>2
<1>12. Block(p, k + 1) = Block(p, k) \cup Block(p + n, k)
  BY <1>1, <1>3, <1>4
<1>13. Block(p, k) \cap Block(p + n, k) = {}
  BY <1>1, <1>4
<1> QED
  BY <1>6, <1>9, <1>11, <1>12, <1>13 DEF n

(* An aligned block and the block of its buddy are the halves of one of    *)
(* the next order.                                                         *)
LEMMA Buddies ==
  ASSUME NEW p \in Nat, NEW k \in 0..9, Aligned(p, k)
  PROVE  \/ Aligned(p, k + 1) /\ buddy_page_pfn(p, k) = p + Pow2(k)
         \/ \E b \in Nat : /\ Aligned(b, k + 1) /\ p = b + Pow2(k)
                           /\ buddy_page_pfn(p, k) = b
<1> DEFINE n == Pow2(k)
           w == Pow2(k + 1)
<1>1. /\ n \in Nat /\ n >= 1
      /\ w \in Nat /\ w >= 1
      /\ w = 2 * n
  BY PowersOfTwo
<1>2. p % n = 0
  BY DEF Aligned
<1>3. buddy_page_pfn(p, k) = IF p % w < n THEN p + n ELSE p - n
  BY DEF buddy_page_pfn
<1>4. \A b : Aligned(b, k + 1) <=> b % w = 0
  BY DEF Aligned
<1> HIDE DEF n, w
<1>5. PICK m \in Nat : p = m * n
  BY <1>1, <1>2, Multiple
<1>6. PICK h \in Nat : m = 2 * h \/ m = 2 * h + 1
  <2>1. m \div 2 \in Nat /\ (m = 2 * (m \div 2) \/ m = 2 * (m \div 2) + 1)
    OBVIOUS
  <2> QED
    BY <2>1
<1> DEFINE b == h * w
<1>7. b \in Nat /\ b % w = 0
  <2>1. h * w \in Nat
    BY <1>1
  <2>2. h * w % w = 0
    BY <1>1, Rest2
  <2> QED
    BY <2>1, <2>2
<1>8. CASE m = 2 * h
  <2>1. p = b
    BY <1>1, <1>5, <1>8
  <2> HIDE DEF b
  <2>2. p % w = 0
    BY <2>1, <1>7
  <2>3. buddy_page_pfn(p, k) = p + n
    BY <2>2, <1>1, <1>3
  <2> QED
    BY <2>2, <2>3, <1>4 DEF n
<1>9. CASE m = 2 * h + 1
  <2>1. p = b + n
    BY <1>1, <1>5, <1>9
  <2>2. p % w = n
    <3>1. n \in 0 .. w - 1
      BY <1>1
    <3> QED
      BY <3>1, <2>1, <1>1, Rest
  <2> HIDE DEF b
  <2>3. buddy_page_pfn(p, k) = b
    BY <2>1, <2>2, <1>1, <1>3, <1>7
  <2> QED
    BY <2>1, <2>3, <1>4, <1>7 DEF n
<1> QED
  BY <1>6, <1>8, <1>9

(* The first page of an aligned block, from any page of it. *)
LEMMA FirstPage ==
  ASSUME NEW p \in Nat, NEW o \in 0..10, Aligned(p, o), NEW q \in Block(p, o)
  PROVE  q - (q % Pow2(o)) = p
<1> DEFINE n == Pow2(o)
<1>1. n \in Nat /\ n >= 1
  BY PowersOfTwo
<1>2. q \in p .. p + n - 1
  BY DEF Block
<1>3. PICK m \in Nat : p = m * n
  BY <1>1, Multiple DEF Aligned
<1> HIDE DEF n
<1>4. q - p \in 0 .. n - 1 /\ q = m * n + (q - p)
  BY <1>1, <1>2, <1>3
<1>5. q % n = q - p
  BY <1>1, <1>4, Rest
<1> QED
  BY <1>2, <1>5 DEF n

-----------------------------------------------------------------------------
(***************************************************************************)
(* The inductive invariant.  The promises of PagePool are not inductive as *)
(* they stand: that two blocks do not overlap is kept by the descriptors   *)
(* that FreePages reads before it merges, so the invariant says what the   *)
(* descriptors of each kind of block are.                                  *)
(***************************************************************************)

(* The descriptors of a block that is free (f = 1), or that a caller has   *)
(* or is giving back (f = 0): all of them name its order and f, and none   *)
(* but the first is a head.                                                *)
Good(p, o, f) ==
  /\ o \in Orders
  /\ Aligned(p, o)
  /\ Block(p, o) \subseteq Usable
  /\ \A q \in Block(p, o) : /\ order[q] = o
                            /\ is_free[q] = f
                            /\ is_head[q] = 1 => q = p

Disjoint(p, o, q, u) == \A r \in Block(p, o) : r \notin Block(q, u)

Waiting(c) == pc[c] = "free_lock"
InHand(c) == pc[c] \in {"split", "merge"}

FreeGood == \A o \in Orders : \A p \in freelist[o] : Good(p, o, 1)

HeldGood == \A b \in held : /\ Good(b[1], b[2], 0)
                           /\ refs[b[1]] >= 1
                           /\ ref_count[b[1]] = refs[b[1]] - 2

WaitingGood ==
  \A c \in Cpus : Waiting(c) =>
    /\ Good(page[c], cur[c], 0)
    /\ <<page[c], cur[c]>> \notin held
    /\ \A d \in Cpus : Waiting(d) /\ page[d] = page[c] => c = d

(* Of a block in hand inside the critical section no descriptor says       *)
(* anything reliable; what counts is that it is nobody else's.             *)
HandGood ==
  \A c \in Cpus : InHand(c) =>
    /\ Aligned(page[c], cur[c])
    /\ Block(page[c], cur[c]) \subseteq Usable
    /\ \A o \in Orders : \A p \in freelist[o] : Disjoint(p, o, page[c], cur[c])
    /\ \A b \in held : Disjoint(b[1], b[2], page[c], cur[c])
    /\ \A d \in Cpus : Waiting(d) => Disjoint(page[d], cur[d], page[c], cur[c])

(* What FreePages relies on when it merges: a descriptor that says it      *)
(* heads a free block is on the free list of its order, or in hand.        *)
HeadsListed ==
  \A q \in Pages : is_head[q] = 1 /\ is_free[q] = 1 =>
    \/ q \in freelist[order[q]]
    \/ \E c \in Cpus : InHand(c) /\ q \in Block(page[c], cur[c])

SplitsDown == \A c \in Cpus : pc[c] = "split" => req[c] <= cur[c]

(* Until boot is done, only the boot CPU is in the pool, and the frames    *)
(* that it has not come to yet are still its own.                          *)
Booting ==
  next_pfn < pgdb_page_nr =>
    /\ \A c \in Cpus : pc[c] # "idle" => c = BootCpu
    /\ pc[BootCpu] \in {"idle", "free_lock", "merge"}
    /\ \A i \in Usable : i >= next_pfn =>
         \/ <<i, 0>> \in held /\ ref_count[i] < 0
         \/ i = next_pfn /\ pc[BootCpu] # "idle"
    /\ \A i \in NormalMem \ Usable : i >= next_pfn => ref_count[i] >= 0

Described ==
  /\ FreeGood /\ HeldGood /\ WaitingGood /\ HandGood
  /\ HeadsListed /\ SplitsDown /\ Booting

(* What still holds after a merge across orders. *)
InPlace ==
  /\ \A c \in Cpus : Working(c) => page[c] \in Pages
  /\ crossed => \A c \in Cpus : pc[c] \notin {"alloc", "split"}

IInv == TypeOK /\ MutualExclusion /\ InPlace /\ (crossed \/ Described)

-----------------------------------------------------------------------------
(* The spin lock.                                                          *)

Places == {"idle", "alloc_lock", "alloc", "split", "free_lock", "merge"}
LockTyped == pc \in [Cpus -> Places] /\ lock \in {SPINLOCK_FREE, SPINLOCK_LOCKED}

(* Where everybody is after one CPU has moved. *)
LEMMA Moves ==
  ASSUME NEW c \in Cpus, NEW from, NEW to \in Places,
         pc \in [Cpus -> Places], Goto(c, from, to)
  PROVE  /\ pc[c] = from
         /\ pc' \in [Cpus -> Places]
         /\ \A d \in Cpus : pc'[d] = IF d = c THEN to ELSE pc[d]
  BY DEF Goto

(* A step that enters or leaves no critical section. *)
LEMMA StaysOut ==
  ASSUME LockTyped, MutualExclusion, lock' = lock, pc' \in [Cpus -> Places],
         \A d \in Cpus : Critical(d)' <=> Critical(d)
  PROVE  LockTyped' /\ MutualExclusion'
  BY DEF LockTyped, MutualExclusion

LEMMA Locks ==
  ASSUME LockTyped, MutualExclusion,
         NEW c \in Cpus, NEW from, NEW to \in {"alloc", "merge"}, Lock(c, from, to)
  PROVE  LockTyped' /\ MutualExclusion'
<1>1. to \in Places
  BY DEF Places
<1>2. /\ pc' \in [Cpus -> Places]
      /\ \A d \in Cpus : pc'[d] = IF d = c THEN to ELSE pc[d]
  BY <1>1, Moves DEF Lock, LockTyped
<1>3. lock = SPINLOCK_FREE /\ lock' = SPINLOCK_LOCKED
  BY DEF Lock
<1>4. \A d \in Cpus : ~Critical(d)
  BY <1>3 DEF MutualExclusion, SPINLOCK_FREE, SPINLOCK_LOCKED
<1>5. \A d \in Cpus : Critical(d)' <=> d = c
  BY <1>2, <1>4 DEF Critical
<1> QED
  BY <1>2, <1>3, <1>5 DEF LockTyped, MutualExclusion

LEMMA Unlocks ==
  ASSUME LockTyped, MutualExclusion,
         NEW c \in Cpus, NEW from \in {"alloc", "split", "merge"}, UnLock(c, from)
  PROVE  LockTyped' /\ MutualExclusion'
<1>1. /\ pc[c] = from
      /\ pc' \in [Cpus -> Places]
      /\ \A d \in Cpus : pc'[d] = IF d = c THEN "idle" ELSE pc[d]
  <2>1. "idle" \in Places /\ Goto(c, from, "idle")
    BY DEF Places, UnLock
  <2> QED
    BY <2>1, Moves DEF LockTyped
<1>2. lock' = SPINLOCK_FREE
  BY DEF UnLock
<1>3. \A d \in Cpus : Critical(d) => d = c
  BY <1>1 DEF MutualExclusion, Critical
<1>4. \A d \in Cpus : ~Critical(d)'
  BY <1>1, <1>3 DEF Critical
<1> QED
  BY <1>1, <1>2, <1>4 DEF LockTyped, MutualExclusion, SPINLOCK_FREE, SPINLOCK_LOCKED

(* A step from one place to another on the same side of the lock. *)
LEMMA MovesAlong ==
  ASSUME LockTyped, MutualExclusion, NEW c \in Cpus, NEW from, NEW to \in Places,
         Goto(c, from, to), lock' = lock,
         from \in {"alloc", "split", "merge"} <=> to \in {"alloc", "split", "merge"}
  PROVE  LockTyped' /\ MutualExclusion'
<1>1. /\ pc[c] = from
      /\ pc' \in [Cpus -> Places]
      /\ \A d \in Cpus : pc'[d] = IF d = c THEN to ELSE pc[d]
  BY Moves DEF LockTyped
<1>2. \A d \in Cpus : Critical(d)' <=> Critical(d)
  BY <1>1 DEF Critical
<1> QED
  BY <1>1, <1>2, StaysOut

(* MutualExclusion needs nothing but the SpinLock's own counter. *)
LEMMA LockStep ==
  ASSUME LockTyped, MutualExclusion, [Next]_vars
  PROVE  LockTyped' /\ MutualExclusion'
<1> USE DEF Places
<1>1. CASE UNCHANGED <<pc, lock>>
  BY <1>1 DEF LockTyped, MutualExclusion, Critical
<1>2. CASE AddPages
  BY <1>2, CpuAssumption, MovesAlong DEF AddPages, EnterFree
<1>3. CASE SkipPage
  BY <1>3, <1>1 DEF SkipPage
<1>4. ASSUME NEW c \in Cpus, Call(c)
      PROVE  LockTyped' /\ MutualExclusion'
  <2>1. CASE \E o \in Orders : AllocPages(c, o)
    BY <2>1, MovesAlong DEF AllocPages
  <2>2. ASSUME NEW b \in held, NEW q \in Block(b[1], b[2]), put_page(c, b, q)
        PROVE  LockTyped' /\ MutualExclusion'
    <3>1. lock' = lock /\ (Goto(c, "idle", "free_lock") \/ pc' = pc)
      BY <2>2 DEF put_page, EnterFree
    <3> QED
      BY <3>1, <1>1, MovesAlong
  <2>3. ASSUME NEW b \in held, NEW q \in Block(b[1], b[2]), PageFree(c, b, q)
        PROVE  LockTyped' /\ MutualExclusion'
    BY <2>3, MovesAlong DEF PageFree, EnterFree
  <2> QED
    BY <1>4, <2>1, <2>2, <2>3 DEF Call
<1>5. ASSUME NEW c \in Cpus, Inside(c)
      PROVE  LockTyped' /\ MutualExclusion'
  <2>1. CASE LockAlloc(c)
    BY <2>1, Locks DEF LockAlloc
  <2>2. CASE TakeBlock(c)
    BY <2>2, MovesAlong DEF TakeBlock
  <2>3. CASE AllocFails(c)
    BY <2>3, Unlocks DEF AllocFails
  <2>4. CASE Split(c)
    BY <2>4, <1>1 DEF Split
  <2>5. CASE AllocDone(c)
    BY <2>5, Unlocks DEF AllocDone
  <2>6. CASE LockFree(c)
    BY <2>6, Locks DEF LockFree
  <2>7. CASE Merge(c)
    BY <2>7, <1>1 DEF Merge
  <2>8. CASE FreeDone(c)
    BY <2>8, Unlocks DEF FreeDone
  <2> QED
    BY <1>5, <2>1, <2>2, <2>3, <2>4, <2>5, <2>6, <2>7, <2>8 DEF Inside
<1>6. ASSUME NEW b \in held, NEW q \in Block(b[1], b[2]), get_page(b, q)
      PROVE  LockTyped' /\ MutualExclusion'
  BY <1>6, <1>1 DEF get_page
<1>7. CASE Damaged \/ UNCHANGED vars
  BY <1>7, <1>1 DEF Damaged, vars
<1> QED
  BY <1>2, <1>3, <1>4, <1>5, <1>6, <1>7 DEF Next

(* For any number of CPUs, at most one is between Lock and UnLock, and the *)
(* SpinLock's counter is set exactly while one is.                         *)
THEOREM Exclusion == Spec => []MutualExclusion
<1>1. Init => LockTyped /\ MutualExclusion
  BY DEF Init, LockTyped, Places, MutualExclusion, Critical, SPINLOCK_FREE, SPINLOCK_LOCKED
<1>2. LockTyped /\ MutualExclusion /\ [Next]_vars => (LockTyped /\ MutualExclusion)'
  BY LockStep
<1> QED
  BY <1>1, <1>2, PTL DEF Spec
-----------------------------------------------------------------------------
(* Blocks and their descriptors.                                           *)

(* The constants, in the form the proofs use them. *)
LEMMA Frames ==
  /\ \A q \in Pages : q \in Nat
  /\ Usable \subseteq Pages /\ \A q \in Usable : q \in Pages /\ q \in Nat
  /\ NormalMem \subseteq Pages /\ \A q \in NormalMem : q \in Pages
  /\ 0 \in Orders /\ 0 \in Nat
  /\ Orders \subseteq 0..10
  /\ \A o \in Orders : o \in Nat
  BY PgdbAssumption, UsableAssumption, OrderAssumption DEF Pages, Orders

LEMMA InBlock ==
  ASSUME NEW p \in Nat, NEW o \in Orders
  PROVE  p \in Block(p, o)
<1> DEFINE n == Pow2(o)
<1>1. n \in Nat /\ n >= 1
  BY PowersOfTwo, Frames
<1>2. Block(p, o) = p .. p + n - 1
  BY DEF Block
<1> HIDE DEF n
<1> QED
  BY <1>1, <1>2

(* A block of order 0 is one frame. *)
LEMMA SingleFrame ==
  ASSUME NEW p \in Nat
  PROVE  Block(p, 0) = {p}
  BY DEF Block, Pow2

(* Two well described blocks that share a frame are the same block. *)
LEMMA Shared ==
  ASSUME NEW p \in Nat, NEW o, NEW f, Good(p, o, f),
         NEW q \in Nat, NEW u, NEW g, Good(q, u, g),
         NEW r \in Block(p, o), r \in Block(q, u)
  PROVE  p = q /\ o = u /\ f = g
<1>1. /\ o \in Orders /\ Aligned(p, o) /\ order[r] = o /\ is_free[r] = f
      /\ u \in Orders /\ Aligned(q, u) /\ order[r] = u /\ is_free[r] = g
  BY DEF Good
<1>2. r - (r % Pow2(o)) = p /\ r - (r % Pow2(u)) = q
  BY <1>1, FirstPage, Frames
<1> QED
  BY <1>1, <1>2

LEMMA Apart ==
  ASSUME NEW p \in Nat, NEW o, NEW f, Good(p, o, f),
         NEW q \in Nat, NEW u, NEW g, Good(q, u, g),
         p # q \/ f # g
  PROVE  Disjoint(p, o, q, u)
  BY Shared DEF Disjoint

(* From any page of a well described block get_head_page finds its first. *)
LEMMA HeadFound ==
  ASSUME NEW p \in Nat, NEW o, NEW f, Good(p, o, f), NEW q \in Block(p, o)
  PROVE  /\ get_head_page(q) = p
         /\ order[p] = o
         /\ p \in Usable
<1>1. o \in Orders /\ Aligned(p, o) /\ order[q] = o /\ (is_head[q] = 1 => q = p)
  BY DEF Good
<1>2. q - (q % Pow2(order[q])) = p
  BY <1>1, FirstPage, Frames
<1>3. p \in Block(p, o)
  BY <1>1, InBlock
<1> QED
  BY <1>1, <1>2, <1>3 DEF get_head_page, Good

(* Rewriting the descriptors of a block inside a block in hand describes   *)
(* it, and leaves every well described block outside as it was.            *)
LEMMA Rewrites ==
  ASSUME TypeOK, NEW p \in Nat, NEW o \in Orders, NEW f \in {0, 1},
         Block(p, o) \subseteq Usable, Aligned(p, o), __reinit_page(p, o, f)
  PROVE  /\ Good(p, o, f)'
         /\ \A x \in Nat : \A u, g :
              Good(x, u, g) /\ Disjoint(x, u, p, o) => Good(x, u, g)'
         /\ \A q \in Block(p, o) :
              is_head'[q] = (IF q = p THEN 1 ELSE 0) /\ is_free'[q] = f
         /\ order'[p] = o
         /\ \A q \in Pages \ Block(p, o) :
              is_head'[q] = is_head[q] /\ is_free'[q] = is_free[q] /\ order'[q] = order[q]
         /\ ref_count'[p] = -1
         /\ \A q \in Pages \ {p} : ref_count'[q] = ref_count[q]
<1>1. p \in Block(p, o) /\ Block(p, o) \subseteq Pages
  BY InBlock, Frames
<1>2. /\ \A q \in Block(p, o) :
           /\ is_head'[q] = (IF q = p THEN 1 ELSE 0)
           /\ is_free'[q] = f
           /\ order'[q] = o
      /\ \A q \in Pages \ Block(p, o) :
           is_head'[q] = is_head[q] /\ is_free'[q] = is_free[q] /\ order'[q] = order[q]
  BY <1>1 DEF __reinit_page
<1>3. ref_count'[p] = -1 /\ \A q \in Pages \ {p} : ref_count'[q] = ref_count[q]
  BY <1>1 DEF __reinit_page, TypeOK
<1>4. Good(p, o, f)'
  BY <1>2 DEF Good
<1>5. ASSUME NEW x \in Nat, NEW u, NEW g, Good(x, u, g), Disjoint(x, u, p, o)
      PROVE  Good(x, u, g)'
  <2>1. \A q \in Block(x, u) : q \in Pages \ Block(p, o)
    BY <1>5, Frames DEF Good, Disjoint
  <2> QED
    BY <1>2, <1>5, <2>1 DEF Good
<1> QED
  BY <1>1, <1>2, <1>3, <1>4, <1>5

LEMMA Updates ==
  ASSUME NEW S, NEW T, NEW r \in [S -> T], NEW p, NEW v \in T
  PROVE  [r EXCEPT ![p] = v] \in [S -> T]
  OBVIOUS

(* It keeps the types of the descriptors, whatever the block. *)
LEMMA RewritesTyped ==
  ASSUME TypeOK, NEW p, NEW o \in Orders, NEW f \in {0, 1}, __reinit_page(p, o, f)
  PROVE  /\ is_free' \in [Pages -> {0, 1}]
         /\ is_head' \in [Pages -> {0, 1}]
         /\ order' \in [Pages -> Orders]
         /\ ref_count' \in [Pages -> Int]
<1>1. ref_count' = [ref_count EXCEPT ![p] = -1] /\ ref_count \in [Pages -> Int]
  BY DEF __reinit_page, TypeOK
<1>2. ref_count' \in [Pages -> Int]
  BY <1>1, Updates, -1 \in Int
<1> QED
  BY <1>2 DEF __reinit_page, TypeOK

(* Where blocks begin. *)
LEMMA Starts ==
  ASSUME TypeOK, InPlace
  PROVE  /\ \A o \in Orders : \A p \in freelist[o] : p \in Pages /\ p \in Nat
         /\ \A b \in held : /\ b[1] \in Usable /\ b[1] \in Nat
                            /\ b[2] \in Orders /\ b = <<b[1], b[2]>>
         /\ \A c \in Cpus : page[c] \in Nat /\ cur[c] \in Orders
         /\ \A c \in Cpus : Working(c) => page[c] \in Pages
<1>1. /\ freelist \in [Orders -> SUBSET Pages]
      /\ held \subseteq Usable \X Orders
      /\ page \in [Cpus -> Pages \cup {0}]
      /\ cur \in [Cpus -> Orders]
  BY DEF TypeOK
<1>2. \A c \in Cpus : Working(c) => page[c] \in Pages
  BY DEF InPlace
<1>3. (\A q \in Pages \cup {0} : q \in Nat) /\ \A q \in Usable : q \in Nat
  BY Frames
<1>4. \A o \in Orders : \A p \in freelist[o] : p \in Pages /\ p \in Nat
  BY <1>1, <1>3
<1>5. ASSUME NEW b \in held
      PROVE  /\ b[1] \in Usable /\ b[1] \in Nat
             /\ b[2] \in Orders /\ b = <<b[1], b[2]>>
  <2>1. b \in Usable \X Orders
    BY <1>1
  <2> QED
    BY <1>3, <2>1
<1>6. ASSUME NEW c \in Cpus
      PROVE  page[c] \in Nat /\ cur[c] \in Orders
  <2>1. page[c] \in Pages \cup {0} /\ cur[c] \in Orders
    BY <1>1
  <2> QED
    BY <1>3, <2>1
<1> QED
  BY <1>2, <1>4, <1>5, <1>6

(* Once a CPU has entered AllocPages, boot is over. *)
LEMMA Booted ==
  ASSUME TypeOK, Booting, NEW c \in Cpus, pc[c] \in {"alloc_lock", "alloc", "split"}
  PROVE  next_pfn = pgdb_page_nr
  BY PgdbAssumption, CpuAssumption DEF TypeOK, Booting

(* Only the CPU in the critical section has a block in hand there. *)
LEMMA OneHand ==
  ASSUME MutualExclusion, NEW c \in Cpus, Critical(c), NEW d \in Cpus, InHand(d)
  PROVE  c = d
  BY DEF MutualExclusion, Critical, InHand
-----------------------------------------------------------------------------
(* Calls on blocks that callers hold.                                      *)

(* Two held blocks do not begin at the same page. *)
LEMMA HeldApart ==
  ASSUME TypeOK, InPlace, HeldGood, NEW b \in held, NEW e \in held, e # b
  PROVE  e[1] # b[1]
<1>1. /\ b[1] \in Nat /\ b[2] \in Orders /\ b = <<b[1], b[2]>>
      /\ e[1] \in Nat /\ e[2] \in Orders /\ e = <<e[1], e[2]>>
  BY Starts
<1>2. Good(b[1], b[2], 0) /\ Good(e[1], e[2], 0)
  BY DEF HeldGood
<1>3. SUFFICES ASSUME e[1] = b[1] PROVE FALSE
  OBVIOUS
<1>4. b[1] \in Block(b[1], b[2]) /\ b[1] \in Block(e[1], e[2])
  BY <1>1, <1>3, InBlock
<1>5. b[2] = e[2]
  BY <1>1, <1>2, <1>4, Shared
<1> QED
  BY <1>1, <1>3, <1>5

(* A caller gives a block up and goes for the lock: AddPages, PageFree and *)
(* the last put_page.                                                      *)
LEMMA GivesBack ==
  ASSUME IInv, ~crossed, NEW c \in Cpus, NEW b \in held,
         EnterFree(c, b[1], b[2]), held' = held \ {b},
         refs' \in [Usable -> 0 .. MaxRefs],
         \A p \in Usable \ {b[1]} : refs'[p] = refs[p],
         ref_count' \in [Pages -> Int],
         \A q \in Pages \ {b[1]} : ref_count'[q] = ref_count[q],
         UNCHANGED <<freelist, is_free, is_head, order, lock, next_pfn, req, crossed>>
  PROVE  /\ TypeOK' /\ InPlace' /\ ~crossed'
         /\ FreeGood' /\ HeldGood' /\ WaitingGood' /\ HandGood'
         /\ HeadsListed' /\ SplitsDown'
<1>1. /\ TypeOK /\ MutualExclusion /\ InPlace /\ FreeGood /\ HeldGood
      /\ WaitingGood /\ HandGood /\ HeadsListed /\ SplitsDown
  BY DEF IInv, Described
<1>2. /\ b[1] \in Usable /\ b[1] \in Pages /\ b[1] \in Nat
      /\ b[2] \in Orders /\ b = <<b[1], b[2]>>
  BY <1>1, Starts, Frames
<1>3. Good(b[1], b[2], 0) /\ b[1] \in Block(b[1], b[2])
  BY <1>1, <1>2, InBlock DEF HeldGood
<1>4. /\ pc[c] = "idle"
      /\ \A d \in Cpus : /\ pc'[d] = IF d = c THEN "free_lock" ELSE pc[d]
                         /\ page'[d] = IF d = c THEN b[1] ELSE page[d]
                         /\ cur'[d] = IF d = c THEN b[2] ELSE cur[d]
  BY <1>1 DEF EnterFree, Goto, TypeOK
<1>5. \A x, o, f : Good(x, o, f) => Good(x, o, f)'
  BY DEF Good
<1>6. TypeOK'
  <2>1. held' \subseteq Usable \X Orders
    BY <1>1 DEF TypeOK
  <2>2. /\ pc' \in [Cpus -> Places]
        /\ page' \in [Cpus -> Pages \cup {0}]
        /\ cur' \in [Cpus -> Orders]
    BY <1>1, <1>2 DEF EnterFree, Goto, TypeOK, Places
  <2> QED
    BY <1>1, <2>1, <2>2 DEF TypeOK, Places
<1>7. InPlace' /\ ~crossed'
  BY <1>1, <1>2, <1>4 DEF InPlace, Working
<1>8. FreeGood'
  BY <1>1, <1>5 DEF FreeGood
<1>9. HeldGood'
  <2> SUFFICES ASSUME NEW e \in held'
               PROVE  /\ Good(e[1], e[2], 0)'
                      /\ refs'[e[1]] >= 1
                      /\ ref_count'[e[1]] = refs'[e[1]] - 2
    BY DEF HeldGood
  <2>1. e \in held /\ e # b
    OBVIOUS
  <2>2. e[1] # b[1] /\ e[1] \in Usable /\ e[1] \in Pages
    BY <1>1, <2>1, HeldApart, Starts, Frames
  <2> QED
    BY <1>1, <1>5, <2>1, <2>2 DEF HeldGood
<1>10. \A d \in Cpus : Waiting(d) => page[d] # b[1]
  <2> SUFFICES ASSUME NEW d \in Cpus, Waiting(d), page[d] = b[1] PROVE FALSE
    OBVIOUS
  <2>1. Good(page[d], cur[d], 0) /\ <<page[d], cur[d]>> \notin held /\ cur[d] \in Orders
    BY <1>1, Starts DEF WaitingGood
  <2>2. cur[d] = b[2]
    BY <1>2, <1>3, <2>1, InBlock, Shared
  <2> QED
    BY <1>2, <2>1, <2>2
<1>11. WaitingGood'
  <2> SUFFICES ASSUME NEW d \in Cpus, Waiting(d)'
               PROVE  /\ Good(page[d], cur[d], 0)'
                      /\ <<page'[d], cur'[d]>> \notin held'
                      /\ \A e \in Cpus : Waiting(e)' /\ page'[e] = page'[d] => d = e
    BY DEF WaitingGood
  <2>1. CASE d = c
    BY <1>2, <1>3, <1>4, <1>5, <1>10, <2>1 DEF Waiting
  <2>2. CASE d # c
    <3>1. Waiting(d) /\ page'[d] = page[d] /\ cur'[d] = cur[d]
      BY <1>4, <2>2 DEF Waiting
    <3>2. /\ Good(page[d], cur[d], 0)
          /\ <<page[d], cur[d]>> \notin held
          /\ \A e \in Cpus : Waiting(e) /\ page[e] = page[d] => d = e
      BY <1>1, <3>1 DEF WaitingGood
    <3>3. \A e \in Cpus : Waiting(e)' /\ page'[e] = page'[d] => d = e
      BY <1>4, <1>10, <3>1, <3>2 DEF Waiting
    <3>4. Good(page[d], cur[d], 0)'
      BY <1>5, <3>1, <3>2
    <3> QED
      BY <3>1, <3>2, <3>3, <3>4
  <2> QED
    BY <2>1, <2>2
<1>12. \A d \in Cpus : InHand(d)' =>
         InHand(d) /\ d # c /\ page'[d] = page[d] /\ cur'[d] = cur[d]
  BY <1>4 DEF InHand
<1>13. HandGood'
  <2> SUFFICES ASSUME NEW d \in Cpus, InHand(d)'
               PROVE  /\ Aligned(page[d], cur[d])
                      /\ Block(page[d], cur[d]) \subseteq Usable
                      /\ \A o \in Orders : \A p \in freelist[o] :
                           Disjoint(p, o, page[d], cur[d])
                      /\ \A e \in held' : Disjoint(e[1], e[2], page[d], cur[d])
                      /\ \A e \in Cpus : Waiting(e)' =>
                           Disjoint(page'[e], cur'[e], page[d], cur[d])
    BY <1>12 DEF HandGood
  <2>1. /\ Aligned(page[d], cur[d])
        /\ Block(page[d], cur[d]) \subseteq Usable
        /\ \A o \in Orders : \A p \in freelist[o] : Disjoint(p, o, page[d], cur[d])
        /\ \A e \in held : Disjoint(e[1], e[2], page[d], cur[d])
        /\ \A e \in Cpus : Waiting(e) => Disjoint(page[e], cur[e], page[d], cur[d])
    BY <1>1, <1>12 DEF HandGood
  <2>2. \A e \in Cpus : Waiting(e)' =>
          Disjoint(page'[e], cur'[e], page[d], cur[d])
    BY <1>4, <2>1 DEF Waiting
  <2> QED
    BY <2>1, <2>2
<1>14. HeadsListed'
  <2>1. \A d \in Cpus : InHand(d) =>
          InHand(d)' /\ page'[d] = page[d] /\ cur'[d] = cur[d]
    BY <1>4 DEF InHand
  <2> QED
    BY <1>1, <2>1 DEF HeadsListed
<1>15. SplitsDown'
  BY <1>1, <1>4 DEF SplitsDown
<1> QED
  BY <1>6, <1>7, <1>8, <1>9, <1>11, <1>13, <1>14, <1>15

(* What each action has to keep beside the lock. *)
Kept == TypeOK /\ InPlace /\ (crossed \/ Described)

LEMMA AddPagesKeeps == IInv /\ AddPages => Kept'
<1> SUFFICES ASSUME IInv, AddPages PROVE Kept'
  OBVIOUS
<1> DEFINE n == next_pfn
           b == <<n, 0>>
<1>1. TypeOK /\ InPlace /\ ~crossed /\ HeldGood /\ Booting
  BY DEF IInv, Described, AddPages
<1>2. /\ n < pgdb_page_nr /\ n \in NormalMem /\ ref_count[n] < 0 /\ n \in Int
      /\ pc[BootCpu] = "idle"
  BY <1>1 DEF AddPages, EnterFree, Goto, TypeOK
<1>3. n \in Usable /\ n \in Pages
  <2>1. \A i \in NormalMem \ Usable : i >= n => ref_count[i] >= 0
    BY <1>1, <1>2 DEF Booting
  <2>2. n \in Pages /\ ref_count[n] \in Int /\ n >= n
    BY <1>1, <1>2, Frames DEF TypeOK
  <2> QED
    BY <1>2, <2>1, <2>2
<1>4. b \in held
  BY <1>1, <1>2, <1>3 DEF Booting
<1>5. /\ EnterFree(BootCpu, b[1], b[2])
      /\ held' = held \ {b}
      /\ refs' = [refs EXCEPT ![n] = 0]
      /\ UNCHANGED <<freelist, is_free, is_head, order, ref_count,
                     lock, next_pfn, req, crossed>>
  BY DEF AddPages, descriptors
<1>6. /\ refs' \in [Usable -> 0 .. MaxRefs]
      /\ \A p \in Usable \ {b[1]} : refs'[p] = refs[p]
  <2>1. 0 \in 0 .. MaxRefs
    BY PgdbAssumption
  <2> QED
    BY <1>1, <1>5, <2>1, Updates DEF TypeOK
<1>7. ref_count' \in [Pages -> Int] /\ \A q \in Pages \ {b[1]} : ref_count'[q] = ref_count[q]
  BY <1>1, <1>5 DEF TypeOK
<1>8. /\ TypeOK' /\ InPlace' /\ ~crossed'
      /\ FreeGood' /\ HeldGood' /\ WaitingGood' /\ HandGood'
      /\ HeadsListed' /\ SplitsDown'
  <2> HIDE DEF b
  <2> QED
    BY <1>1, <1>4, <1>5, <1>6, <1>7, CpuAssumption, GivesBack
<1>9. Booting'
  <2>1. \A d \in Cpus : pc'[d] = IF d = BootCpu THEN "free_lock" ELSE pc[d]
    BY <1>1, <1>5 DEF EnterFree, Goto, TypeOK
  <2>2. /\ \A c \in Cpus : pc[c] # "idle" => c = BootCpu
        /\ \A i \in Usable : i >= n => <<i, 0>> \in held /\ ref_count[i] < 0
        /\ \A i \in NormalMem \ Usable : i >= n => ref_count[i] >= 0
    BY <1>1, <1>2 DEF Booting
  <2> QED
    BY <1>5, <2>1, <2>2, CpuAssumption DEF Booting
<1> QED
  BY <1>8, <1>9 DEF Kept, Described

(* A step that moves no block. *)
LEMMA SameBlocks ==
  ASSUME Described, UNCHANGED <<held, freelist, is_free, is_head, order,
                                pc, page, req, cur>>
  PROVE  /\ FreeGood' /\ WaitingGood' /\ HandGood' /\ HeadsListed' /\ SplitsDown'
         /\ \A x, o, f : Good(x, o, f) => Good(x, o, f)'
<1>1. \A x, o, f : Good(x, o, f) => Good(x, o, f)'
  BY DEF Good
<1>2. FreeGood'
  BY <1>1 DEF Described, FreeGood
<1>3. WaitingGood'
  BY <1>1 DEF Described, WaitingGood, Waiting
<1>4. HandGood'
  BY DEF Described, HandGood, InHand, Waiting
<1>5. HeadsListed' /\ SplitsDown'
  BY DEF Described, HeadsListed, SplitsDown, InHand
<1> QED
  BY <1>1, <1>2, <1>3, <1>4, <1>5

LEMMA SkipPageKeeps == IInv /\ SkipPage => Kept'
<1> SUFFICES ASSUME IInv, SkipPage PROVE Kept'
  OBVIOUS
<1>1. TypeOK /\ InPlace /\ ~crossed /\ Described
  BY DEF IInv, SkipPage
<1>2. UNCHANGED <<held, refs, freelist, is_free, is_head, order, ref_count,
                  lock, pc, page, req, cur, crossed>>
  BY DEF SkipPage, descriptors, locals
<1>3. next_pfn < pgdb_page_nr /\ next_pfn' = next_pfn + 1 /\ next_pfn \in Nat
      /\ next_pfn' \in 0 .. pgdb_page_nr
  BY <1>1, PgdbAssumption DEF SkipPage, TypeOK
<1>4. TypeOK' /\ InPlace' /\ ~crossed'
  BY <1>1, <1>2, <1>3 DEF TypeOK, InPlace, Working
<1>5. FreeGood' /\ HeldGood' /\ WaitingGood' /\ HandGood' /\ HeadsListed' /\ SplitsDown'
  <2>1. /\ FreeGood' /\ WaitingGood' /\ HandGood' /\ HeadsListed' /\ SplitsDown'
        /\ \A x, o, f : Good(x, o, f) => Good(x, o, f)'
    BY <1>1, <1>2, SameBlocks
  <2> QED
    BY <1>1, <1>2, <2>1 DEF Described, HeldGood
<1>6. Booting'
  <2>1. \A i \in Usable : i \in Nat /\ (i >= next_pfn' => i >= next_pfn /\ i # next_pfn)
    BY <1>3, Frames
  <2>2. \A i \in NormalMem : i \in Nat /\ (i >= next_pfn' => i >= next_pfn)
    BY <1>3, Frames
  <2> QED
    BY <1>1, <1>2, <1>3, <2>1, <2>2 DEF Described, Booting
<1> QED
  BY <1>1, <1>4, <1>5, <1>6 DEF Kept, Described

(* A reference more or less, and the block stays held. *)
LEMMA Recounts ==
  ASSUME IInv, Running, NEW b \in held, NEW n \in 1 .. MaxRefs,
         refs' = [refs EXCEPT ![b[1]] = n],
         ref_count' = [ref_count EXCEPT ![b[1]] = n - 2],
         UNCHANGED <<held, freelist, is_free, is_head, order, lock, next_pfn,
                     pc, page, req, cur, crossed>>
  PROVE  Kept'
<1>1. TypeOK /\ InPlace /\ ~crossed /\ Described /\ HeldGood
  BY DEF IInv, Running, Described
<1>2. b[1] \in Usable /\ b[1] \in Pages
  BY <1>1, Starts, Frames
<1>3. n \in 0 .. MaxRefs /\ n - 2 \in Int
  BY PgdbAssumption
<1>4. TypeOK'
  <2>1. refs' \in [Usable -> 0 .. MaxRefs] /\ ref_count' \in [Pages -> Int]
    BY <1>1, <1>3, Updates DEF TypeOK
  <2> QED
    BY <1>1, <2>1 DEF TypeOK
<1>5. InPlace' /\ ~crossed'
  BY <1>1 DEF InPlace, Working
<1>6. FreeGood' /\ WaitingGood' /\ HandGood' /\ HeadsListed' /\ SplitsDown'
  BY <1>1, SameBlocks
<1>7. HeldGood'
  <2> SUFFICES ASSUME NEW e \in held
               PROVE  /\ Good(e[1], e[2], 0)'
                      /\ refs'[e[1]] >= 1
                      /\ ref_count'[e[1]] = refs'[e[1]] - 2
    BY DEF HeldGood
  <2>1. /\ Good(e[1], e[2], 0)' /\ refs[e[1]] >= 1
        /\ ref_count[e[1]] = refs[e[1]] - 2
    BY <1>1 DEF HeldGood, Good
  <2>2. CASE e = b
    BY <1>1, <1>2, <2>1, <2>2 DEF TypeOK
  <2>3. CASE e # b
    <3>1. e[1] # b[1] /\ e[1] \in Usable /\ e[1] \in Pages
      BY <1>1, <2>3, HeldApart, Starts, Frames
    <3> QED
      BY <1>1, <2>1, <3>1 DEF TypeOK
  <2> QED
    BY <2>2, <2>3
<1>8. Booting'
  BY PgdbAssumption DEF Booting, Running
<1> QED
  BY <1>4, <1>5, <1>6, <1>7, <1>8 DEF Kept, Described

(* What a caller finds from a page of its block. *)
LEMMA FindsHead ==
  ASSUME IInv, ~crossed, NEW b \in held, NEW q \in Block(b[1], b[2])
  PROVE  /\ get_head_page(q) = b[1] /\ order[b[1]] = b[2]
         /\ b[1] \in Usable /\ b[1] \in Pages
         /\ refs[b[1]] \in 1 .. MaxRefs
         /\ ref_count[b[1]] = refs[b[1]] - 2
         /\ ref_count \in [Pages -> Int] /\ refs \in [Usable -> 0 .. MaxRefs]
<1>1. TypeOK /\ InPlace /\ HeldGood
  BY DEF IInv, Described
<1>2. b[1] \in Nat /\ b[1] \in Usable /\ b[1] \in Pages
  BY <1>1, Starts, Frames
<1>3. Good(b[1], b[2], 0) /\ refs[b[1]] >= 1 /\ ref_count[b[1]] = refs[b[1]] - 2
  BY <1>1 DEF HeldGood
<1>4. refs[b[1]] \in 0 .. MaxRefs
  BY <1>1, <1>2 DEF TypeOK
<1> QED
  BY <1>1, <1>2, <1>3, <1>4, HeadFound, PgdbAssumption DEF TypeOK

LEMMA GetPageKeeps ==
  ASSUME IInv, NEW b \in held, NEW q \in Block(b[1], b[2]), get_page(b, q)
  PROVE  Kept'
<1>1. Running /\ ~crossed
  BY DEF get_page, Running
<1>2. /\ get_head_page(q) = b[1] /\ b[1] \in Usable /\ b[1] \in Pages
      /\ refs[b[1]] \in 1 .. MaxRefs
      /\ ref_count[b[1]] = refs[b[1]] - 2
  BY <1>1, FindsHead
<1> DEFINE n == refs[b[1]] + 1
<1>3. n \in 1 .. MaxRefs /\ ref_count[b[1]] + 1 = n - 2
  BY <1>2, PgdbAssumption DEF get_page
<1>4. /\ refs' = [refs EXCEPT ![b[1]] = n]
      /\ ref_count' = [ref_count EXCEPT ![b[1]] = n - 2]
      /\ UNCHANGED <<held, freelist, is_free, is_head, order, lock, next_pfn,
                     pc, page, req, cur, crossed>>
  BY <1>2, <1>3 DEF get_page, locals
<1> HIDE DEF n
<1> QED
  BY <1>1, <1>3, <1>4, Recounts

LEMMA PutPageKeeps ==
  ASSUME IInv, NEW c \in Cpus, NEW b \in held, NEW q \in Block(b[1], b[2]),
         put_page(c, b, q)
  PROVE  Kept'
<1>1. Running /\ ~crossed
  BY DEF put_page, Running
<1>2. /\ get_head_page(q) = b[1] /\ order[b[1]] = b[2]
      /\ b[1] \in Usable /\ b[1] \in Pages
      /\ refs[b[1]] \in 1 .. MaxRefs
      /\ ref_count[b[1]] = refs[b[1]] - 2
      /\ ref_count \in [Pages -> Int] /\ refs \in [Usable -> 0 .. MaxRefs]
  BY <1>1, FindsHead
<1> DEFINE n == refs[b[1]] - 1
<1>3. /\ refs' = [refs EXCEPT ![b[1]] = n]
      /\ ref_count' = [ref_count EXCEPT ![b[1]] = n - 2]
  <2>1. ref_count[b[1]] - 1 = n - 2
    BY <1>2, PgdbAssumption
  <2> QED
    BY <1>2, <2>1 DEF put_page
<1>4. UNCHANGED <<freelist, is_free, is_head, order, lock, next_pfn, req, crossed>>
  BY DEF put_page
<1>5. CASE refs[b[1]] = 1
  <2>1. EnterFree(c, b[1], b[2]) /\ held' = held \ {b}
    BY <1>2, <1>5 DEF put_page
  <2>2. n \in 0 .. MaxRefs /\ n - 2 \in Int
    BY <1>5, PgdbAssumption
  <2>3. /\ refs' \in [Usable -> 0 .. MaxRefs]
        /\ \A p \in Usable \ {b[1]} : refs'[p] = refs[p]
        /\ ref_count' \in [Pages -> Int]
        /\ \A p \in Pages \ {b[1]} : ref_count'[p] = ref_count[p]
    <3> HIDE DEF n
    <3> QED
      BY <1>2, <1>3, <2>2, Updates
  <2>4. /\ TypeOK' /\ InPlace' /\ ~crossed'
        /\ FreeGood' /\ HeldGood' /\ WaitingGood' /\ HandGood'
        /\ HeadsListed' /\ SplitsDown'
    BY <1>1, <1>4, <2>1, <2>3, GivesBack
  <2>5. Booting'
    BY <1>1, <1>4, PgdbAssumption DEF Booting, Running
  <2> QED
    BY <2>4, <2>5 DEF Kept, Described
<1>6. CASE refs[b[1]] # 1
  <2>1. n \in 1 .. MaxRefs
    BY <1>2, <1>6, PgdbAssumption
  <2>2. UNCHANGED <<held, pc, page, cur>>
    BY <1>2, <1>6, PgdbAssumption DEF put_page
  <2> HIDE DEF n
  <2> QED
    BY <1>1, <1>3, <1>4, <2>1, <2>2, Recounts
<1> QED
  BY <1>5, <1>6

LEMMA PageFreeKeeps ==
  ASSUME IInv, NEW c \in Cpus, NEW b \in held, NEW q \in Block(b[1], b[2]),
         PageFree(c, b, q)
  PROVE  Kept'
<1>1. Running /\ ~crossed
  BY DEF PageFree, Running
<1>2. /\ get_head_page(q) = b[1] /\ order[b[1]] = b[2]
      /\ ref_count \in [Pages -> Int] /\ refs \in [Usable -> 0 .. MaxRefs]
  BY <1>1, FindsHead
<1>3. /\ EnterFree(c, b[1], b[2]) /\ held' = held \ {b}
      /\ refs' = [refs EXCEPT ![b[1]] = 0]
      /\ UNCHANGED <<freelist, is_free, is_head, order, ref_count,
                     lock, next_pfn, req, crossed>>
  BY <1>2 DEF PageFree, descriptors
<1>4. /\ refs' \in [Usable -> 0 .. MaxRefs]
      /\ \A p \in Usable \ {b[1]} : refs'[p] = refs[p]
  <2>1. 0 \in 0 .. MaxRefs
    BY PgdbAssumption
  <2> QED
    BY <1>2, <1>3, <2>1, Updates
<1>5. /\ TypeOK' /\ InPlace' /\ ~crossed'
      /\ FreeGood' /\ HeldGood' /\ WaitingGood' /\ HandGood'
      /\ HeadsListed' /\ SplitsDown'
  BY <1>1, <1>2, <1>3, <1>4, GivesBack
<1>6. Booting'
  BY <1>1, <1>3, PgdbAssumption DEF Booting, Running
<1> QED
  BY <1>5, <1>6 DEF Kept, Described

-----------------------------------------------------------------------------
(* AllocPages.                                                             *)

(* A CPU on its way through AllocPages, with no block in its hands. *)
LEMMA PassesBy ==
  ASSUME IInv, ~crossed, next_pfn = pgdb_page_nr, NEW c \in Cpus,
         NEW to \in {"idle", "alloc_lock", "alloc"},
         pc[c] \in {"idle", "alloc_lock", "alloc"}, pc' = [pc EXCEPT ![c] = to],
         page' \in [Cpus -> Pages \cup {0}], req' \in [Cpus -> Orders],
         cur' \in [Cpus -> Orders], lock' \in {SPINLOCK_FREE, SPINLOCK_LOCKED},
         \A d \in Cpus \ {c} : page'[d] = page[d] /\ req'[d] = req[d] /\ cur'[d] = cur[d],
         UNCHANGED <<held, refs, freelist, descriptors, next_pfn, crossed>>
  PROVE  Kept'
<1>1. TypeOK /\ InPlace /\ Described
  BY DEF IInv
<1>2. UNCHANGED <<is_free, is_head, order, ref_count>>
  BY DEF descriptors
<1>3. \A d \in Cpus : pc'[d] = IF d = c THEN to ELSE pc[d]
  BY <1>1 DEF TypeOK
<1>4. TypeOK'
  BY <1>1, <1>2 DEF TypeOK
<1>5. \A d \in Cpus : Waiting(d)' \/ InHand(d)' \/ Waiting(d) \/ InHand(d) =>
        /\ d # c /\ (Waiting(d)' <=> Waiting(d)) /\ (InHand(d)' <=> InHand(d))
        /\ pc'[d] = pc[d] /\ page'[d] = page[d] /\ req'[d] = req[d] /\ cur'[d] = cur[d]
  BY <1>3 DEF Waiting, InHand
<1>6. InPlace' /\ ~crossed'
  BY <1>1, <1>3 DEF InPlace, Working
<1>7. \A x, o, f : Good(x, o, f) => Good(x, o, f)'
  BY <1>2 DEF Good
<1>8. FreeGood' /\ HeldGood'
  BY <1>1, <1>2, <1>7 DEF Described, FreeGood, HeldGood
<1>9. WaitingGood'
  BY <1>1, <1>5, <1>7 DEF Described, WaitingGood
<1>10. HandGood'
  BY <1>1, <1>5 DEF Described, HandGood
<1>11. HeadsListed'
  BY <1>1, <1>2, <1>5 DEF Described, HeadsListed
<1>12. SplitsDown' /\ Booting'
  BY <1>1, <1>3, <1>5, PgdbAssumption DEF Described, SplitsDown, Booting, InHand
<1> QED
  BY <1>4, <1>6, <1>8, <1>9, <1>10, <1>11, <1>12 DEF Kept, Described

LEMMA AllocPagesKeeps ==
  ASSUME IInv, NEW c \in Cpus, NEW o \in Orders, AllocPages(c, o)
  PROVE  Kept'
<1>1. TypeOK /\ Running
  BY DEF IInv, AllocPages
<1>2. pc[c] = "idle" /\ pc' = [pc EXCEPT ![c] = "alloc_lock"]
  BY DEF AllocPages, Goto
<1>3. req' \in [Cpus -> Orders] /\ \A d \in Cpus \ {c} : req'[d] = req[d]
  BY <1>1 DEF AllocPages, TypeOK
<1>4. UNCHANGED <<held, refs, freelist, descriptors, lock, next_pfn, page, cur, crossed>>
  BY DEF AllocPages
<1> QED
  BY <1>1, <1>2, <1>3, <1>4, PassesBy DEF Running, TypeOK

LEMMA LockAllocKeeps ==
  ASSUME IInv, NEW c \in Cpus, LockAlloc(c)
  PROVE  Kept'
<1>1. TypeOK /\ ~crossed /\ Booting
  BY DEF IInv, Described, LockAlloc
<1>2. /\ pc[c] = "alloc_lock" /\ pc' = [pc EXCEPT ![c] = "alloc"]
      /\ lock' \in {SPINLOCK_FREE, SPINLOCK_LOCKED}
  BY DEF LockAlloc, Lock, Goto
<1>3. next_pfn = pgdb_page_nr
  BY <1>1, <1>2, Booted
<1>4. UNCHANGED <<held, refs, freelist, descriptors, next_pfn, page, req, cur, crossed>>
  BY DEF LockAlloc, locals
<1> QED
  BY <1>1, <1>2, <1>3, <1>4, PassesBy DEF TypeOK

LEMMA AllocFailsKeeps ==
  ASSUME IInv, NEW c \in Cpus, AllocFails(c)
  PROVE  Kept'
<1>1. /\ pc[c] = "alloc" /\ pc' = [pc EXCEPT ![c] = "idle"]
      /\ lock' \in {SPINLOCK_FREE, SPINLOCK_LOCKED}
      /\ page' = [page EXCEPT ![c] = 0]
      /\ req' = [req EXCEPT ![c] = 0]
      /\ cur' = [cur EXCEPT ![c] = 0]
  BY DEF AllocFails, UnLock, Goto
<1>2. TypeOK /\ ~crossed /\ Booting
  BY <1>1 DEF IInv, Described, InPlace
<1>3. next_pfn = pgdb_page_nr
  BY <1>1, <1>2, Booted
<1>4. /\ page' \in [Cpus -> Pages \cup {0}]
      /\ req' \in [Cpus -> Orders]
      /\ cur' \in [Cpus -> Orders]
      /\ \A d \in Cpus \ {c} : page'[d] = page[d] /\ req'[d] = req[d] /\ cur'[d] = cur[d]
  BY <1>1, <1>2, Frames DEF TypeOK
<1>5. UNCHANGED <<held, refs, freelist, descriptors, next_pfn, crossed>>
  BY DEF AllocFails
<1> QED
  BY <1>1, <1>2, <1>3, <1>4, <1>5, PassesBy

(* The block taken off its free list is in hand now, and nobody else's. *)
LEMMA TakeBlockKeeps ==
  ASSUME IInv, NEW c \in Cpus, TakeBlock(c)
  PROVE  Kept'
<1>1. pc[c] = "alloc" /\ pc' = [pc EXCEPT ![c] = "split"]
  BY DEF TakeBlock, Goto
<1>2. TypeOK /\ MutualExclusion /\ InPlace /\ ~crossed /\ Described
  BY <1>1 DEF IInv, InPlace
<1>3. PICK a \in Available(req[c]) : \E p \in freelist[a] :
        /\ freelist' = [freelist EXCEPT ![a] = @ \ {p}]
        /\ page' = [page EXCEPT ![c] = p]
        /\ cur' = [cur EXCEPT ![c] = a]
  BY DEF TakeBlock
<1>4. PICK p \in freelist[a] :
        /\ freelist' = [freelist EXCEPT ![a] = @ \ {p}]
        /\ page' = [page EXCEPT ![c] = p]
        /\ cur' = [cur EXCEPT ![c] = a]
  BY <1>3
<1>5. UNCHANGED <<held, refs, is_free, is_head, order, ref_count, lock, next_pfn, req, crossed>>
  BY DEF TakeBlock, descriptors
<1>6. a \in Orders /\ req[c] <= a /\ req[c] \in Orders
  <2>1. req[c] \in Orders
    BY <1>2 DEF TypeOK
  <2>2. a \in req[c] .. MAX_PAGE_ORDER - 1
    BY DEF Available
  <2> QED
    BY <2>1, <2>2, OrderAssumption DEF Orders
<1>7. p \in Pages /\ p \in Nat /\ Good(p, a, 1)
  BY <1>2, <1>6, Starts DEF Described, FreeGood
<1>8. /\ pc' \in [Cpus -> Places]
      /\ \A d \in Cpus : /\ pc'[d] = IF d = c THEN "split" ELSE pc[d]
                         /\ page'[d] = IF d = c THEN p ELSE page[d]
                         /\ cur'[d] = IF d = c THEN a ELSE cur[d]
  BY <1>1, <1>2, <1>4 DEF TypeOK, Places
<1>9. \A o \in Orders : \A x \in freelist'[o] :
        x \in freelist[o] /\ x \in Nat /\ (x # p \/ o # a)
  BY <1>2, <1>4, <1>6, Starts DEF TypeOK
<1>10. \A o \in Orders : \A x \in freelist[o] : x \in freelist'[o] \/ (x = p /\ o = a)
  BY <1>2, <1>4, <1>6 DEF TypeOK
<1>11. TypeOK'
  <2>1. freelist' \in [Orders -> SUBSET Pages]
    BY <1>2, <1>4 DEF TypeOK
  <2>2. page' \in [Cpus -> Pages \cup {0}] /\ cur' \in [Cpus -> Orders]
    BY <1>2, <1>4, <1>6, <1>7 DEF TypeOK
  <2> QED
    BY <1>2, <1>5, <1>8, <2>1, <2>2 DEF TypeOK, Places
<1>12. InPlace' /\ ~crossed'
  BY <1>2, <1>5, <1>7, <1>8 DEF InPlace, Working
<1>13. \A x, o, f : Good(x, o, f) => Good(x, o, f)'
  BY <1>5 DEF Good
<1>14. FreeGood'
  BY <1>2, <1>9, <1>13 DEF Described, FreeGood
<1>15. HeldGood'
  BY <1>2, <1>5, <1>13 DEF Described, HeldGood
<1>16. \A d \in Cpus : Waiting(d)' => d # c /\ Waiting(d)
                                      /\ page'[d] = page[d] /\ cur'[d] = cur[d]
  BY <1>8 DEF Waiting
<1>17. WaitingGood'
  BY <1>2, <1>5, <1>13, <1>16 DEF Described, WaitingGood
<1>18. \A d \in Cpus : ~InHand(d)
  BY <1>1, <1>2, OneHand DEF Critical, InHand
<1>19. \A d \in Cpus : InHand(d)' => d = c
  BY <1>8, <1>18 DEF InHand
<1>20. HandGood'
  <2> SUFFICES /\ Aligned(p, a)
               /\ Block(p, a) \subseteq Usable
               /\ \A o \in Orders : \A x \in freelist'[o] : Disjoint(x, o, p, a)
               /\ \A b \in held : Disjoint(b[1], b[2], p, a)
               /\ \A d \in Cpus : Waiting(d)' => Disjoint(page'[d], cur'[d], p, a)
    BY <1>5, <1>8, <1>19 DEF HandGood
  <2>1. Aligned(p, a) /\ Block(p, a) \subseteq Usable
    BY <1>7 DEF Good
  <2>2. ASSUME NEW o \in Orders, NEW x \in freelist'[o]
        PROVE  Disjoint(x, o, p, a)
    <3>1. x \in Nat /\ Good(x, o, 1) /\ (x # p \/ o # a)
      BY <1>2, <1>9 DEF Described, FreeGood
    <3>2. x = p => o = a
      BY <1>6, <1>7, <3>1, InBlock, Shared
    <3> QED
      BY <1>7, <3>1, <3>2, Apart
  <2>3. ASSUME NEW b \in held
        PROVE  Disjoint(b[1], b[2], p, a)
    <3>1. b[1] \in Nat /\ Good(b[1], b[2], 0)
      BY <1>2, Starts DEF Described, HeldGood
    <3> QED
      BY <1>7, <3>1, Apart
  <2>4. ASSUME NEW d \in Cpus, Waiting(d)'
        PROVE  Disjoint(page'[d], cur'[d], p, a)
    <3>1. /\ page[d] \in Nat /\ Good(page[d], cur[d], 0)
          /\ page'[d] = page[d] /\ cur'[d] = cur[d]
      BY <1>2, <1>16, <2>4, Starts DEF Described, WaitingGood
    <3> QED
      BY <1>7, <3>1, Apart
  <2> QED
    BY <2>1, <2>2, <2>3, <2>4
<1>21. HeadsListed'
  <2> SUFFICES ASSUME NEW q \in Pages, is_head[q] = 1, is_free[q] = 1
               PROVE  \/ q \in freelist'[order[q]]
                      \/ \E d \in Cpus : InHand(d)' /\ q \in Block(page'[d], cur'[d])
    BY <1>5 DEF HeadsListed
  <2>1. q \in freelist[order[q]] /\ order[q] \in Orders
    BY <1>2, <1>18 DEF Described, HeadsListed, TypeOK
  <2>2. q \in freelist'[order[q]] \/ q = p
    BY <1>10, <2>1
  <2>3. InHand(c)' /\ p \in Block(page'[c], cur'[c])
    BY <1>6, <1>7, <1>8, InBlock DEF InHand
  <2> QED
    BY <2>2, <2>3
<1>22. SplitsDown'
  BY <1>2, <1>5, <1>6, <1>8 DEF Described, SplitsDown
<1>23. Booting'
  <2>1. next_pfn = pgdb_page_nr
    BY <1>1, <1>2, Booted DEF Described
  <2> QED
    BY <1>5, <2>1, PgdbAssumption DEF Booting
<1> QED
  BY <1>11, <1>12, <1>14, <1>15, <1>17, <1>20, <1>21, <1>22, <1>23 DEF Kept, Described

(* Rewriting descriptors inside the block in hand disturbs no other block, *)
(* and makes no head of a free block but the first page of what it rewrote.*)
LEMMA HandRewrites ==
  ASSUME IInv, ~crossed, NEW c \in Cpus, InHand(c),
         NEW p \in Nat, NEW o \in Orders, NEW f \in {0, 1}, Aligned(p, o),
         Block(p, o) \subseteq Block(page[c], cur[c]), __reinit_page(p, o, f)
  PROVE  /\ Good(p, o, f)' /\ ref_count'[p] = -1
         /\ \A q \in Pages \ {p} : ref_count'[q] = ref_count[q]
         /\ \A u \in Orders : \A x \in freelist[u] : Good(x, u, 1)'
         /\ \A b \in held : /\ b[1] # p /\ Good(b[1], b[2], 0)'
                            /\ ref_count'[b[1]] = ref_count[b[1]]
         /\ \A d \in Cpus : Waiting(d) =>
              page[d] # p /\ \A x, u : x = page[d] /\ u = cur[d] => Good(x, u, 0)'
         /\ \A q \in Pages : is_head'[q] = 1 /\ is_free'[q] = 1 =>
              \/ q = p /\ f = 1 /\ order'[q] = o
              \/ q \notin Block(p, o) /\ q \in freelist[order'[q]]
              \/ q \notin Block(p, o) /\ q \in Block(page[c], cur[c])
<1>1. /\ TypeOK /\ MutualExclusion /\ InPlace /\ FreeGood /\ HeldGood
      /\ WaitingGood /\ HandGood /\ HeadsListed
  BY DEF IInv, Described
<1>2. /\ Block(p, o) \subseteq Usable
      /\ \A u \in Orders : \A x \in freelist[u] : Disjoint(x, u, p, o)
      /\ \A b \in held : Disjoint(b[1], b[2], p, o)
      /\ \A d \in Cpus : Waiting(d) => Disjoint(page[d], cur[d], p, o)
  BY <1>1 DEF HandGood, Disjoint
<1>3. /\ Good(p, o, f)'
      /\ \A x \in Nat : \A u, g : Good(x, u, g) /\ Disjoint(x, u, p, o) => Good(x, u, g)'
      /\ \A q \in Block(p, o) : is_head'[q] = (IF q = p THEN 1 ELSE 0) /\ is_free'[q] = f
      /\ order'[p] = o
      /\ \A q \in Pages \ Block(p, o) :
           is_head'[q] = is_head[q] /\ is_free'[q] = is_free[q] /\ order'[q] = order[q]
      /\ ref_count'[p] = -1
      /\ \A q \in Pages \ {p} : ref_count'[q] = ref_count[q]
  BY <1>1, <1>2, Rewrites
<1>4. p \in Block(p, o)
  BY InBlock
<1>5. \A u \in Orders : \A x \in freelist[u] : Good(x, u, 1)'
  BY <1>1, <1>2, <1>3, Starts DEF FreeGood
<1>6. ASSUME NEW b \in held
      PROVE  /\ b[1] # p /\ Good(b[1], b[2], 0)'
             /\ ref_count'[b[1]] = ref_count[b[1]]
  <2>1. /\ b[1] \in Nat /\ b[1] \in Pages /\ b[2] \in Orders
        /\ Good(b[1], b[2], 0) /\ Disjoint(b[1], b[2], p, o)
    BY <1>1, <1>2, Starts, Frames DEF HeldGood
  <2>2. b[1] # p
    BY <1>4, <2>1, InBlock DEF Disjoint
  <2> QED
    BY <1>3, <2>1, <2>2
<1>7. ASSUME NEW d \in Cpus, Waiting(d)
      PROVE  page[d] # p /\ \A x, u : x = page[d] /\ u = cur[d] => Good(x, u, 0)'
  <2>1. /\ page[d] \in Nat /\ cur[d] \in Orders
        /\ Good(page[d], cur[d], 0) /\ Disjoint(page[d], cur[d], p, o)
    BY <1>1, <1>2, <1>7, Starts DEF WaitingGood
  <2>2. page[d] # p
    BY <1>4, <2>1, InBlock DEF Disjoint
  <2> QED
    BY <1>3, <2>1, <2>2
<1>8. ASSUME NEW q \in Pages, is_head'[q] = 1, is_free'[q] = 1
      PROVE  \/ q = p /\ f = 1 /\ order'[q] = o
             \/ q \notin Block(p, o) /\ q \in freelist[order'[q]]
             \/ q \notin Block(p, o) /\ q \in Block(page[c], cur[c])
  <2>1. CASE q \in Block(p, o)
    BY <1>3, <1>8, <2>1
  <2>2. CASE q \notin Block(p, o)
    <3>1. is_head[q] = 1 /\ is_free[q] = 1 /\ order'[q] = order[q]
      BY <1>3, <1>8, <2>2
    <3>2. \A d \in Cpus : InHand(d) => d = c
      BY <1>1, OneHand DEF InHand, Critical
    <3>3. q \in freelist[order[q]] \/ q \in Block(page[c], cur[c])
      BY <1>1, <3>1, <3>2 DEF HeadsListed
    <3> QED
      BY <2>2, <3>1, <3>3
  <2> QED
    BY <2>1, <2>2
<1> QED
  BY <1>3, <1>5, <1>6, <1>7, <1>8

LEMMA SplitKeeps ==
  ASSUME IInv, NEW c \in Cpus, Split(c)
  PROVE  Kept'
<1>0. PICK o, p, b : o = cur[c] - 1 /\ p = page[c] /\ b = buddy_page_pfn(p, o)
  OBVIOUS
<1>1. /\ pc[c] = "split" /\ cur[c] > req[c]
      /\ cur' = [cur EXCEPT ![c] = o]
      /\ __reinit_page(b, o, 1)
      /\ freelist' = [freelist EXCEPT ![o] = @ \cup {b}]
      /\ UNCHANGED <<held, refs, lock, next_pfn, pc, page, req, crossed>>
  BY <1>0 DEF Split, list_add_next
<1>2. TypeOK /\ MutualExclusion /\ InPlace /\ ~crossed /\ Described
  BY <1>1 DEF IInv, InPlace
<1>3. InHand(c)
  BY <1>1 DEF InHand
<1>4. o \in Orders /\ o \in 0..9 /\ cur[c] = o + 1 /\ o >= req[c] /\ p \in Nat
  <2>1. cur[c] \in Orders /\ req[c] \in Orders
    BY <1>2 DEF TypeOK
  <2>2. cur[c] \in 0 .. MAX_PAGE_ORDER - 1 /\ req[c] \in 0 .. MAX_PAGE_ORDER - 1
    BY <2>1 DEF Orders
  <2> QED
    BY <1>0, <1>1, <1>2, <2>2, OrderAssumption, Starts DEF Orders
<1>5. /\ Aligned(p, o + 1) /\ Block(p, o + 1) \subseteq Usable
      /\ \A u \in Orders : \A x \in freelist[u] : Disjoint(x, u, p, o + 1)
      /\ \A e \in held : Disjoint(e[1], e[2], p, o + 1)
      /\ \A d \in Cpus : Waiting(d) => Disjoint(page[d], cur[d], p, o + 1)
  BY <1>0, <1>2, <1>3, <1>4 DEF Described, HandGood
<1>6. /\ Aligned(p, o) /\ Aligned(b, o) /\ b = p + Pow2(o)
      /\ Block(p, o + 1) = Block(p, o) \cup Block(b, o)
      /\ Block(p, o) \cap Block(b, o) = {}
  BY <1>0, <1>4, <1>5, Halves
<1>7. b \in Nat /\ b \in Block(b, o) /\ b \in Usable /\ b \in Pages
  <2>1. b \in Nat
    BY <1>4, <1>6, PowersOfTwo
  <2> QED
    BY <1>4, <1>5, <1>6, <2>1, InBlock, Frames
<1>8. /\ Good(b, o, 1)'
      /\ \A q \in Pages \ {b} : ref_count'[q] = ref_count[q]
      /\ \A u \in Orders : \A x \in freelist[u] : Good(x, u, 1)'
      /\ \A e \in held : Good(e[1], e[2], 0)' /\ ref_count'[e[1]] = ref_count[e[1]]
      /\ \A d \in Cpus : Waiting(d) =>
           \A x, u : x = page[d] /\ u = cur[d] => Good(x, u, 0)'
      /\ \A q \in Pages : is_head'[q] = 1 /\ is_free'[q] = 1 =>
           \/ q = b /\ order'[q] = o
           \/ q \notin Block(b, o) /\ q \in freelist[order'[q]]
           \/ q \notin Block(b, o) /\ q \in Block(p, o + 1)
  <2>1. Block(b, o) \subseteq Block(page[c], cur[c])
    BY <1>0, <1>4, <1>6
  <2>2. page[c] = p /\ cur[c] = o + 1
    BY <1>0, <1>4
  <2> QED
    BY <1>1, <1>2, <1>3, <1>4, <1>6, <1>7, <2>1, <2>2, HandRewrites
<1>9. /\ is_free' \in [Pages -> {0, 1}] /\ is_head' \in [Pages -> {0, 1}]
      /\ order' \in [Pages -> Orders] /\ ref_count' \in [Pages -> Int]
  BY <1>1, <1>2, <1>4, RewritesTyped
<1>10. /\ \A u \in Orders : \A x \in freelist'[u] : x \in freelist[u] \/ (x = b /\ u = o)
       /\ \A u \in Orders : \A x \in freelist[u] : x \in freelist'[u]
       /\ b \in freelist'[o]
       /\ \A d \in Cpus : cur'[d] = IF d = c THEN o ELSE cur[d]
  BY <1>1, <1>2, <1>4 DEF TypeOK
<1>11. TypeOK'
  <2>1. freelist' \in [Orders -> SUBSET Pages] /\ cur' \in [Cpus -> Orders]
    BY <1>1, <1>2, <1>4, <1>7 DEF TypeOK
  <2> QED
    BY <1>1, <1>2, <1>9, <2>1 DEF TypeOK
<1>12. InPlace' /\ ~crossed'
  BY <1>1, <1>2 DEF InPlace, Working
<1>13. FreeGood'
  BY <1>8, <1>10 DEF FreeGood
<1>14. HeldGood'
  BY <1>1, <1>2, <1>8 DEF Described, HeldGood
<1>15. \A d \in Cpus : Waiting(d)' => Waiting(d) /\ page'[d] = page[d] /\ cur'[d] = cur[d]
  BY <1>1, <1>10 DEF Waiting
<1>16. WaitingGood'
  BY <1>1, <1>2, <1>8, <1>15 DEF Described, WaitingGood
<1>17. \A d \in Cpus : InHand(d)' => d = c
  <2>1. \A d \in Cpus : InHand(d)' => InHand(d)
    BY <1>1 DEF InHand
  <2> QED
    BY <1>1, <1>2, <2>1, OneHand DEF Critical
<1>18. HandGood'
  <2> SUFFICES /\ Aligned(p, o)
               /\ Block(p, o) \subseteq Usable
               /\ \A u \in Orders : \A x \in freelist'[u] : Disjoint(x, u, p, o)
               /\ \A e \in held : Disjoint(e[1], e[2], p, o)
               /\ \A d \in Cpus : Waiting(d)' => Disjoint(page'[d], cur'[d], p, o)
    BY <1>0, <1>1, <1>10, <1>17 DEF HandGood
  <2>1. Aligned(p, o) /\ Block(p, o) \subseteq Usable
    BY <1>5, <1>6
  <2>2. \A u \in Orders : \A x \in freelist[u] : Disjoint(x, u, p, o)
    BY <1>5, <1>6 DEF Disjoint
  <2>3. Disjoint(b, o, p, o)
    BY <1>6 DEF Disjoint
  <2>4. \A e \in held : Disjoint(e[1], e[2], p, o)
    BY <1>5, <1>6 DEF Disjoint
  <2>5. \A d \in Cpus : Waiting(d)' => Disjoint(page'[d], cur'[d], p, o)
    BY <1>5, <1>6, <1>15 DEF Disjoint
  <2> QED
    BY <1>10, <2>1, <2>2, <2>3, <2>4, <2>5
<1>19. HeadsListed'
  <2> SUFFICES ASSUME NEW q \in Pages, is_head'[q] = 1, is_free'[q] = 1
               PROVE  \/ q \in freelist'[order'[q]]
                      \/ \E d \in Cpus : InHand(d)' /\ q \in Block(page'[d], cur'[d])
    BY DEF HeadsListed
  <2>1. order'[q] \in Orders
    BY <1>9
  <2>2. InHand(c)' /\ page'[c] = p /\ cur'[c] = o
    BY <1>0, <1>1, <1>3, <1>10 DEF InHand
  <2>3. q \in freelist'[order'[q]] \/ q \in Block(p, o)
    BY <1>6, <1>8, <1>10, <2>1
  <2> QED
    BY <2>2, <2>3
<1>20. SplitsDown'
  BY <1>1, <1>2, <1>4, <1>10 DEF Described, SplitsDown
<1>21. Booting'
  <2>1. next_pfn = pgdb_page_nr
    BY <1>1, <1>2, Booted DEF Described
  <2> QED
    BY <1>1, <2>1, PgdbAssumption DEF Booting
<1> QED
  BY <1>11, <1>12, <1>13, <1>14, <1>16, <1>18, <1>19, <1>20, <1>21 DEF Kept, Described

LEMMA AllocDoneKeeps ==
  ASSUME IInv, NEW c \in Cpus, AllocDone(c)
  PROVE  Kept'
<1>0. PICK p, o : p = page[c] /\ o = cur[c]
  OBVIOUS
<1>1. /\ pc[c] = "split"
      /\ pc' = [pc EXCEPT ![c] = "idle"]
      /\ lock' = SPINLOCK_FREE
      /\ page' = [page EXCEPT ![c] = 0]
      /\ req' = [req EXCEPT ![c] = 0]
      /\ cur' = [cur EXCEPT ![c] = 0]
      /\ __reinit_page(p, o, 0)
      /\ held' = held \cup {<<p, o>>}
      /\ refs' = [refs EXCEPT ![p] = 1]
      /\ UNCHANGED <<freelist, next_pfn, crossed>>
  BY <1>0 DEF AllocDone, UnLock, Goto
<1>2. TypeOK /\ MutualExclusion /\ InPlace /\ ~crossed /\ Described
  BY <1>1 DEF IInv, InPlace
<1>3. InHand(c)
  BY <1>1 DEF InHand
<1>4. /\ p \in Nat /\ o \in Orders /\ Aligned(p, o) /\ Block(p, o) \subseteq Usable
      /\ \A d \in Cpus : Waiting(d) => Disjoint(page[d], cur[d], p, o)
  BY <1>0, <1>2, <1>3, Starts DEF Described, HandGood
<1>5. p \in Block(p, o) /\ p \in Usable /\ p \in Pages
  BY <1>4, InBlock, Frames
<1>6. /\ Good(p, o, 0)' /\ ref_count'[p] = -1
      /\ \A u \in Orders : \A x \in freelist[u] : Good(x, u, 1)'
      /\ \A e \in held : e[1] # p /\ Good(e[1], e[2], 0)' /\ ref_count'[e[1]] = ref_count[e[1]]
      /\ \A d \in Cpus : Waiting(d) =>
           page[d] # p /\ \A x, u : x = page[d] /\ u = cur[d] => Good(x, u, 0)'
      /\ \A q \in Pages : is_head'[q] = 1 /\ is_free'[q] = 1 => q \in freelist[order'[q]]
  <2>1. /\ Good(p, o, 0)' /\ ref_count'[p] = -1
        /\ \A u \in Orders : \A x \in freelist[u] : Good(x, u, 1)'
        /\ \A e \in held : e[1] # p /\ Good(e[1], e[2], 0)' /\ ref_count'[e[1]] = ref_count[e[1]]
        /\ \A d \in Cpus : Waiting(d) =>
             page[d] # p /\ \A x, u : x = page[d] /\ u = cur[d] => Good(x, u, 0)'
        /\ \A q \in Pages : is_head'[q] = 1 /\ is_free'[q] = 1 =>
             \/ q = p /\ 0 = 1 /\ order'[q] = o
             \/ q \notin Block(p, o) /\ q \in freelist[order'[q]]
             \/ q \notin Block(p, o) /\ q \in Block(page[c], cur[c])
    BY <1>0, <1>1, <1>2, <1>3, <1>4, HandRewrites
  <2> QED
    BY <1>0, <2>1
<1>7. \A d \in Cpus : /\ pc'[d] = IF d = c THEN "idle" ELSE pc[d]
                      /\ page'[d] = IF d = c THEN 0 ELSE page[d]
                      /\ cur'[d] = IF d = c THEN 0 ELSE cur[d]
                      /\ req'[d] = IF d = c THEN 0 ELSE req[d]
  BY <1>1, <1>2 DEF TypeOK
<1>8. TypeOK'
  <2>1. /\ is_free' \in [Pages -> {0, 1}] /\ is_head' \in [Pages -> {0, 1}]
        /\ order' \in [Pages -> Orders] /\ ref_count' \in [Pages -> Int]
    BY <1>1, <1>2, <1>4, RewritesTyped
  <2>2. held' \subseteq Usable \X Orders
    BY <1>1, <1>2, <1>4, <1>5 DEF TypeOK
  <2>3. refs' \in [Usable -> 0 .. MaxRefs]
    <3>1. 1 \in 0 .. MaxRefs
      BY PgdbAssumption
    <3> QED
      BY <1>1, <1>2, <3>1, Updates DEF TypeOK
  <2>4. /\ pc' \in [Cpus -> Places] /\ page' \in [Cpus -> Pages \cup {0}]
        /\ req' \in [Cpus -> Orders] /\ cur' \in [Cpus -> Orders]
    BY <1>1, <1>2, Frames DEF TypeOK, Places
  <2> QED
    BY <1>1, <1>2, <2>1, <2>2, <2>3, <2>4 DEF TypeOK, Places
<1>9. InPlace' /\ ~crossed'
  BY <1>1, <1>2, <1>7 DEF InPlace, Working
<1>10. FreeGood'
  BY <1>1, <1>6 DEF FreeGood
<1>11. HeldGood'
  <2> SUFFICES ASSUME NEW e \in held'
               PROVE  /\ Good(e[1], e[2], 0)'
                      /\ refs'[e[1]] >= 1
                      /\ ref_count'[e[1]] = refs'[e[1]] - 2
    BY DEF HeldGood
  <2>1. CASE e = <<p, o>>
    BY <1>1, <1>2, <1>5, <1>6, <2>1 DEF TypeOK
  <2>2. CASE e \in held
    <3>1. e[1] # p /\ e[1] \in Usable
      BY <1>2, <1>6, <2>2, Starts
    <3>2. refs'[e[1]] = refs[e[1]]
      BY <1>1, <1>2, <3>1 DEF TypeOK
    <3> QED
      BY <1>2, <1>6, <2>2, <3>2 DEF Described, HeldGood
  <2> QED
    BY <1>1, <2>1, <2>2
<1>12. \A d \in Cpus : Waiting(d)' => Waiting(d) /\ page'[d] = page[d] /\ cur'[d] = cur[d]
  BY <1>7 DEF Waiting
<1>13. WaitingGood'
  BY <1>1, <1>2, <1>6, <1>12 DEF Described, WaitingGood
<1>14. \A d \in Cpus : ~InHand(d)'
  <2>1. \A d \in Cpus : InHand(d)' => InHand(d) /\ d # c
    BY <1>7 DEF InHand
  <2> QED
    BY <1>1, <1>2, <2>1, OneHand DEF Critical
<1>15. HandGood'
  BY <1>14 DEF HandGood
<1>16. HeadsListed'
  BY <1>1, <1>6 DEF HeadsListed
<1>17. SplitsDown'
  BY <1>2, <1>7 DEF Described, SplitsDown
<1>18. Booting'
  <2>1. next_pfn = pgdb_page_nr
    BY <1>1, <1>2, Booted DEF Described
  <2> QED
    BY <1>1, <2>1, PgdbAssumption DEF Booting
<1> QED
  BY <1>8, <1>9, <1>10, <1>11, <1>13, <1>15, <1>16, <1>17, <1>18 DEF Kept, Described

-----------------------------------------------------------------------------
(* FreePages.                                                              *)

LEMMA LockFreeKeeps ==
  ASSUME IInv, NEW c \in Cpus, LockFree(c)
  PROVE  Kept'
<1>1. /\ ~crossed /\ pc[c] = "free_lock" /\ pc' = [pc EXCEPT ![c] = "merge"]
      /\ lock = SPINLOCK_FREE /\ lock' = SPINLOCK_LOCKED
      /\ UNCHANGED <<held, refs, freelist, is_free, is_head, order, ref_count,
                     next_pfn, page, req, cur, crossed>>
  BY DEF LockFree, Lock, Goto, descriptors, locals
<1>2. TypeOK /\ MutualExclusion /\ InPlace /\ Described
  BY <1>1 DEF IInv
<1>3. /\ pc' \in [Cpus -> Places]
      /\ \A d \in Cpus : pc'[d] = IF d = c THEN "merge" ELSE pc[d]
  BY <1>1, <1>2 DEF TypeOK, Places
<1>4. \A d \in Cpus : ~InHand(d)
  BY <1>1, <1>2 DEF MutualExclusion, Critical, InHand, SPINLOCK_FREE, SPINLOCK_LOCKED
<1>5. /\ \A d \in Cpus : InHand(d)' => d = c
      /\ \A d \in Cpus : Waiting(d)' => Waiting(d) /\ d # c
  BY <1>3, <1>4 DEF InHand, Waiting
<1>6. TypeOK'
  BY <1>1, <1>2, <1>3 DEF TypeOK, Places
<1>7. InPlace' /\ ~crossed'
  BY <1>1, <1>2, <1>3 DEF InPlace, Working
<1>8. \A x, u, f : Good(x, u, f) => Good(x, u, f)'
  BY <1>1 DEF Good
<1>9. FreeGood' /\ HeldGood'
  BY <1>1, <1>2, <1>8 DEF Described, FreeGood, HeldGood
<1>10. WaitingGood'
  BY <1>1, <1>2, <1>5, <1>8 DEF Described, WaitingGood
<1>11. /\ page[c] \in Nat /\ Good(page[c], cur[c], 0)
       /\ <<page[c], cur[c]>> \notin held
       /\ \A d \in Cpus : Waiting(d) /\ page[d] = page[c] => c = d
  BY <1>1, <1>2, Starts DEF Described, WaitingGood, Waiting
<1>12. HandGood'
  <2> SUFFICES /\ Aligned(page[c], cur[c])
               /\ Block(page[c], cur[c]) \subseteq Usable
               /\ \A o \in Orders : \A p \in freelist[o] : Disjoint(p, o, page[c], cur[c])
               /\ \A b \in held : Disjoint(b[1], b[2], page[c], cur[c])
               /\ \A d \in Cpus : Waiting(d)' => Disjoint(page[d], cur[d], page[c], cur[c])
    BY <1>1, <1>5 DEF HandGood
  <2>1. Aligned(page[c], cur[c]) /\ Block(page[c], cur[c]) \subseteq Usable
    BY <1>11 DEF Good
  <2>2. ASSUME NEW o \in Orders, NEW p \in freelist[o]
        PROVE  Disjoint(p, o, page[c], cur[c])
    <3>1. p \in Nat /\ Good(p, o, 1)
      BY <1>2, Starts DEF Described, FreeGood
    <3> QED
      BY <1>11, <3>1, Apart
  <2>3. ASSUME NEW b \in held
        PROVE  Disjoint(b[1], b[2], page[c], cur[c])
    <3>1. b[1] \in Nat /\ b = <<b[1], b[2]>> /\ Good(b[1], b[2], 0)
      BY <1>2, Starts DEF Described, HeldGood
    <3>2. ~\E r \in Block(b[1], b[2]) : r \in Block(page[c], cur[c])
      BY <1>11, <3>1, Shared
    <3> QED
      BY <3>2 DEF Disjoint
  <2>4. ASSUME NEW d \in Cpus, Waiting(d)'
        PROVE  Disjoint(page[d], cur[d], page[c], cur[c])
    <3>1. page[d] \in Nat /\ Good(page[d], cur[d], 0) /\ page[d] # page[c]
      BY <1>2, <1>5, <1>11, <2>4, Starts DEF Described, WaitingGood
    <3> QED
      BY <1>11, <3>1, Apart
  <2> QED
    BY <2>1, <2>2, <2>3, <2>4
<1>13. HeadsListed'
  BY <1>1, <1>2, <1>4 DEF Described, HeadsListed
<1>14. SplitsDown'
  BY <1>1, <1>2, <1>3 DEF Described, SplitsDown
<1>15. Booting'
  <2> SUFFICES ASSUME next_pfn < pgdb_page_nr
               PROVE  /\ \A d \in Cpus : pc'[d] # "idle" => d = BootCpu
                      /\ pc'[BootCpu] \in {"idle", "free_lock", "merge"}
                      /\ \A i \in Usable : i >= next_pfn =>
                           \/ <<i, 0>> \in held /\ ref_count[i] < 0
                           \/ i = next_pfn /\ pc'[BootCpu] # "idle"
                      /\ \A i \in NormalMem \ Usable : i >= next_pfn => ref_count[i] >= 0
    BY <1>1 DEF Booting
  <2>1. /\ \A d \in Cpus : pc[d] # "idle" => d = BootCpu
        /\ \A i \in Usable : i >= next_pfn =>
             \/ <<i, 0>> \in held /\ ref_count[i] < 0
             \/ i = next_pfn /\ pc[BootCpu] # "idle"
        /\ \A i \in NormalMem \ Usable : i >= next_pfn => ref_count[i] >= 0
    BY <1>2 DEF Described, Booting
  <2>2. c = BootCpu
    BY <1>1, <2>1
  <2> QED
    BY <1>3, <2>1, <2>2
<1> QED
  BY <1>6, <1>7, <1>9, <1>10, <1>12, <1>13, <1>14, <1>15 DEF Kept, Described

LEMMA MergeKeeps ==
  ASSUME IInv, NEW c \in Cpus, Merge(c)
  PROVE  Kept'
<1>0. PICK p, o, b : p = page[c] /\ o = cur[c] /\ b = buddy_page_pfn(p, o)
  OBVIOUS
<1>1. /\ pc[c] = "merge" /\ o < MAX_PAGE_ORDER - 1
      /\ b \in NormalMem /\ is_head[b] = 1 /\ is_free[b] = 1
      /\ freelist' = [u \in Orders |-> freelist[u] \ {b}]
      /\ \/ is_head' = [is_head EXCEPT ![p] = 0] /\ page' = [page EXCEPT ![c] = b] /\ b < p
         \/ UNCHANGED <<is_head, page>> /\ ~(b < p)
      /\ crossed' = (crossed \/ order[b] # o)
      /\ cur' = [cur EXCEPT ![c] = o + 1]
      /\ UNCHANGED <<held, refs, is_free, order, ref_count, lock, next_pfn, pc, req>>
  BY <1>0 DEF Merge, CanMerge, Mergeable, list_del
<1>2. TypeOK /\ MutualExclusion /\ InPlace
  BY DEF IInv
<1>3. InHand(c) /\ Critical(c)
  BY <1>1 DEF InHand, Critical
<1>4. /\ p \in Nat /\ p \in Pages /\ b \in Pages /\ b \in Nat
      /\ o \in Orders /\ o + 1 \in Orders /\ o \in 0..9
  <2>1. p \in Pages
    BY <1>0, <1>1, <1>2 DEF InPlace, Working
  <2>2. o \in Orders
    BY <1>0, <1>2 DEF TypeOK
  <2>3. o + 1 \in Orders /\ o \in 0..9
    BY <1>1, <2>2, OrderAssumption DEF Orders
  <2> QED
    BY <1>1, <2>1, <2>2, <2>3, Frames
<1>5. /\ \A d \in Cpus : /\ cur'[d] = IF d = c THEN o + 1 ELSE cur[d]
                         /\ d # c => page'[d] = page[d]
      /\ page'[c] \in Pages
      /\ page'[c] = IF b < p THEN b ELSE p
  BY <1>0, <1>1, <1>2, <1>4 DEF TypeOK
<1>6. TypeOK'
  <2>1. freelist' \in [Orders -> SUBSET Pages]
    BY <1>1, <1>2 DEF TypeOK
  <2>2. is_head' \in [Pages -> {0, 1}] /\ page' \in [Cpus -> Pages \cup {0}]
    BY <1>1, <1>2, <1>4 DEF TypeOK
  <2>3. cur' \in [Cpus -> Orders] /\ crossed' \in BOOLEAN
    BY <1>1, <1>2, <1>4 DEF TypeOK
  <2> QED
    BY <1>1, <1>2, <2>1, <2>2, <2>3 DEF TypeOK
<1>7. InPlace'
  <2>1. \A d \in Cpus : pc[d] \notin {"alloc", "split"}
    BY <1>1, <1>2, <1>3 DEF MutualExclusion, Critical
  <2> QED
    BY <1>1, <1>2, <1>5, <2>1 DEF InPlace, Working
<1>8. SUFFICES ASSUME ~crossed' PROVE Described'
  BY <1>6, <1>7 DEF Kept
<1>9. ~crossed /\ order[b] = o /\ Described
  BY <1>1, <1>2, <1>8 DEF IInv, TypeOK
<1>10. /\ Aligned(p, o) /\ Block(p, o) \subseteq Usable
       /\ \A u \in Orders : \A x \in freelist[u] : Disjoint(x, u, p, o)
       /\ \A e \in held : Disjoint(e[1], e[2], p, o)
       /\ \A d \in Cpus : Waiting(d) => Disjoint(page[d], cur[d], p, o)
  BY <1>0, <1>3, <1>9 DEF Described, HandGood
<1>11. PICK n \in Nat :
         /\ n = page'[c] /\ Aligned(n, o + 1)
         /\ Block(n, o + 1) = Block(p, o) \cup Block(b, o)
         /\ Block(p, o) \cap Block(b, o) = {}
  <2>1. Pow2(o) \in Nat /\ Pow2(o) >= 1
    BY <1>4, PowersOfTwo
  <2>2. CASE Aligned(p, o + 1) /\ b = p + Pow2(o)
    <3>1. page'[c] = p
      BY <1>4, <1>5, <2>1, <2>2
    <3>2. /\ Block(p, o + 1) = Block(p, o) \cup Block(b, o)
          /\ Block(p, o) \cap Block(b, o) = {}
      BY <1>4, <2>2, Halves
    <3> QED
      BY <1>4, <2>2, <3>1, <3>2
  <2>3. CASE \E h \in Nat : Aligned(h, o + 1) /\ p = h + Pow2(o) /\ b = h
    <3>1. Aligned(b, o + 1) /\ p = b + Pow2(o)
      BY <2>3
    <3>2. page'[c] = b
      BY <1>4, <1>5, <2>1, <3>1
    <3>3. /\ Block(b, o + 1) = Block(b, o) \cup Block(p, o)
          /\ Block(b, o) \cap Block(p, o) = {}
      BY <1>4, <3>1, Halves
    <3> QED
      BY <1>4, <3>1, <3>2, <3>3
  <2> QED
    BY <1>0, <1>4, <1>10, <2>2, <2>3, Buddies
(* The buddy is a free block of the order in hand: the one on the list. *)
<1>12. \A d \in Cpus : InHand(d) => d = c
  BY <1>2, <1>3, OneHand
<1>13. b \in freelist[o] /\ Good(b, o, 1)
  <2>1. b \in freelist[order[b]] \/ \E d \in Cpus : InHand(d) /\ b \in Block(page[d], cur[d])
    BY <1>1, <1>4, <1>9 DEF Described, HeadsListed
  <2>2. b \in Block(b, o) /\ b \notin Block(p, o)
    BY <1>4, <1>11, InBlock
  <2>3. b \in freelist[o]
    BY <1>0, <1>9, <1>12, <2>1, <2>2
  <2> QED
    BY <1>4, <1>9, <2>3 DEF Described, FreeGood
<1>14. \A x, u, f : Good(x, u, f) => Good(x, u, f)'
  <2>1. \A q \in Pages : is_head'[q] = 1 => is_head[q] = 1
    BY <1>1, <1>2, <1>4 DEF TypeOK
  <2> QED
    BY <1>1, <2>1, Frames DEF Good
<1>15. \A u \in Orders : \A x \in freelist'[u] : x \in freelist[u] /\ x # b /\ x \in Nat
  BY <1>1, <1>2, Starts
<1>16. FreeGood'
  BY <1>9, <1>14, <1>15 DEF Described, FreeGood
<1>17. HeldGood'
  BY <1>1, <1>9, <1>14 DEF Described, HeldGood
<1>18. \A d \in Cpus : Waiting(d)' => Waiting(d) /\ page'[d] = page[d] /\ cur'[d] = cur[d]
  BY <1>1, <1>5 DEF Waiting
<1>19. WaitingGood'
  BY <1>1, <1>9, <1>14, <1>18 DEF Described, WaitingGood
<1>20. \A d \in Cpus : InHand(d)' => d = c
  BY <1>1, <1>12 DEF InHand
<1>21. HandGood'
  <2> SUFFICES /\ Aligned(n, o + 1)
               /\ Block(n, o + 1) \subseteq Usable
               /\ \A u \in Orders : \A x \in freelist'[u] : Disjoint(x, u, n, o + 1)
               /\ \A e \in held : Disjoint(e[1], e[2], n, o + 1)
               /\ \A d \in Cpus : Waiting(d)' => Disjoint(page'[d], cur'[d], n, o + 1)
    BY <1>1, <1>5, <1>11, <1>20 DEF HandGood
  <2>1. Block(n, o + 1) \subseteq Usable
    BY <1>10, <1>11, <1>13 DEF Good
  <2>2. ASSUME NEW u \in Orders, NEW x \in freelist'[u]
        PROVE  Disjoint(x, u, n, o + 1)
    <3>1. x \in Nat /\ Good(x, u, 1) /\ x # b /\ Disjoint(x, u, p, o)
      BY <1>9, <1>10, <1>15 DEF Described, FreeGood
    <3>2. Disjoint(x, u, b, o)
      BY <1>4, <1>13, <3>1, Apart
    <3> QED
      BY <1>11, <3>1, <3>2 DEF Disjoint
  <2>3. ASSUME NEW e \in held
        PROVE  Disjoint(e[1], e[2], n, o + 1)
    <3>1. e[1] \in Nat /\ Good(e[1], e[2], 0) /\ Disjoint(e[1], e[2], p, o)
      BY <1>2, <1>9, <1>10, Starts DEF Described, HeldGood
    <3>2. Disjoint(e[1], e[2], b, o)
      <4>1. b \in Nat /\ Good(b, o, 1) /\ 0 # 1
        BY <1>4, <1>13
      <4> QED
        BY <3>1, <4>1, Apart
    <3> QED
      BY <1>11, <3>1, <3>2 DEF Disjoint
  <2>4. ASSUME NEW d \in Cpus, Waiting(d)'
        PROVE  Disjoint(page'[d], cur'[d], n, o + 1)
    <3>1. /\ Waiting(d) /\ page'[d] = page[d] /\ cur'[d] = cur[d]
          /\ page[d] \in Nat /\ Good(page[d], cur[d], 0)
          /\ Disjoint(page[d], cur[d], p, o)
      BY <1>2, <1>9, <1>10, <1>18, <2>4, Starts DEF Described, WaitingGood
    <3>2. Disjoint(page[d], cur[d], b, o)
      <4>1. b \in Nat /\ Good(b, o, 1) /\ 0 # 1
        BY <1>4, <1>13
      <4> QED
        BY <3>1, <4>1, Apart
    <3> QED
      BY <1>11, <3>1, <3>2 DEF Disjoint
  <2> QED
    BY <1>11, <2>1, <2>2, <2>3, <2>4
<1>22. HeadsListed'
  <2> SUFFICES ASSUME NEW q \in Pages, is_head'[q] = 1, is_free[q] = 1
               PROVE  \/ q \in freelist'[order[q]]
                      \/ \E d \in Cpus : InHand(d)' /\ q \in Block(page'[d], cur'[d])
    BY <1>1 DEF HeadsListed
  <2>1. InHand(c)' /\ Block(page'[c], cur'[c]) = Block(p, o) \cup Block(b, o)
    BY <1>1, <1>3, <1>5, <1>11 DEF InHand
  <2>2. is_head[q] = 1 /\ order[q] \in Orders
    BY <1>1, <1>2, <1>4 DEF TypeOK
  <2>3. q \in freelist[order[q]] \/ q \in Block(p, o)
    BY <1>0, <1>9, <1>12, <2>2 DEF Described, HeadsListed
  <2>4. q \in freelist[order[q]] => q \in freelist'[order[q]] \/ q = b
    BY <1>1, <2>2
  <2>5. b \in Block(b, o)
    BY <1>4, InBlock
  <2> QED
    BY <2>1, <2>3, <2>4, <2>5
<1>23. SplitsDown' /\ Booting'
  <2>1. \A d \in Cpus : pc[d] # "split"
    BY <1>1, <1>12 DEF InHand
  <2> QED
    BY <1>1, <1>9, <2>1 DEF Described, SplitsDown, Booting
<1> QED
  BY <1>16, <1>17, <1>19, <1>21, <1>22, <1>23 DEF Described

LEMMA FreeDoneKeeps ==
  ASSUME IInv, NEW c \in Cpus, FreeDone(c)
  PROVE  Kept'
<1>0. PICK p, o : p = page[c] /\ o = cur[c]
  OBVIOUS
<1>1. /\ pc[c] = "merge"
      /\ pc' = [pc EXCEPT ![c] = "idle"]
      /\ lock' = SPINLOCK_FREE
      /\ page' = [page EXCEPT ![c] = 0]
      /\ req' = [req EXCEPT ![c] = 0]
      /\ cur' = [cur EXCEPT ![c] = 0]
      /\ __reinit_page(p, o, 1)
      /\ freelist' = [freelist EXCEPT ![o] = @ \cup {p}]
      /\ next_pfn' = IF next_pfn < pgdb_page_nr THEN next_pfn + 1 ELSE next_pfn
      /\ UNCHANGED <<held, refs, crossed>>
  BY <1>0 DEF FreeDone, UnLock, Goto, list_add_next
<1>2. TypeOK /\ MutualExclusion /\ InPlace
  BY DEF IInv
<1>3. InHand(c) /\ Critical(c)
  BY <1>1 DEF InHand, Critical
<1>4. p \in Nat /\ p \in Pages /\ o \in Orders
  BY <1>0, <1>1, <1>2, Starts DEF Working
<1>5. \A d \in Cpus : /\ pc'[d] = IF d = c THEN "idle" ELSE pc[d]
                      /\ page'[d] = IF d = c THEN 0 ELSE page[d]
                      /\ cur'[d] = IF d = c THEN 0 ELSE cur[d]
                      /\ req'[d] = IF d = c THEN 0 ELSE req[d]
  BY <1>1, <1>2 DEF TypeOK
<1>6. next_pfn \in Nat /\ next_pfn' \in 0 .. pgdb_page_nr
  BY <1>1, <1>2, PgdbAssumption DEF TypeOK
<1>7. TypeOK'
  <2>1. /\ is_free' \in [Pages -> {0, 1}] /\ is_head' \in [Pages -> {0, 1}]
        /\ order' \in [Pages -> Orders] /\ ref_count' \in [Pages -> Int]
    BY <1>1, <1>2, <1>4, RewritesTyped
  <2>2. freelist' \in [Orders -> SUBSET Pages]
    BY <1>1, <1>2, <1>4 DEF TypeOK
  <2>3. /\ pc' \in [Cpus -> Places] /\ page' \in [Cpus -> Pages \cup {0}]
        /\ req' \in [Cpus -> Orders] /\ cur' \in [Cpus -> Orders]
    BY <1>1, <1>2, Frames DEF TypeOK, Places
  <2> QED
    BY <1>1, <1>2, <1>6, <2>1, <2>2, <2>3 DEF TypeOK, Places
<1>8. InPlace'
  BY <1>1, <1>2, <1>5 DEF InPlace, Working
<1>9. SUFFICES ASSUME ~crossed' PROVE Described'
  BY <1>7, <1>8 DEF Kept
<1>10. ~crossed /\ Described
  BY <1>1, <1>9 DEF IInv
<1>11. Aligned(p, o) /\ Block(p, o) \subseteq Usable
  BY <1>0, <1>3, <1>10 DEF Described, HandGood
<1>12. /\ Good(p, o, 1)' /\ ref_count'[p] = -1
       /\ \A q \in Pages \ {p} : ref_count'[q] = ref_count[q]
       /\ \A u \in Orders : \A x \in freelist[u] : Good(x, u, 1)'
       /\ \A e \in held : Good(e[1], e[2], 0)' /\ ref_count'[e[1]] = ref_count[e[1]]
       /\ \A d \in Cpus : Waiting(d) =>
            \A x, u : x = page[d] /\ u = cur[d] => Good(x, u, 0)'
       /\ \A q \in Pages : is_head'[q] = 1 /\ is_free'[q] = 1 =>
            (q = p /\ order'[q] = o) \/ q \in freelist[order'[q]]
  <2>1. /\ Good(p, o, 1)' /\ ref_count'[p] = -1
        /\ \A q \in Pages \ {p} : ref_count'[q] = ref_count[q]
        /\ \A u \in Orders : \A x \in freelist[u] : Good(x, u, 1)'
        /\ \A e \in held : e[1] # p /\ Good(e[1], e[2], 0)' /\ ref_count'[e[1]] = ref_count[e[1]]
        /\ \A d \in Cpus : Waiting(d) =>
             page[d] # p /\ \A x, u : x = page[d] /\ u = cur[d] => Good(x, u, 0)'
        /\ \A q \in Pages : is_head'[q] = 1 /\ is_free'[q] = 1 =>
             \/ q = p /\ 1 = 1 /\ order'[q] = o
             \/ q \notin Block(p, o) /\ q \in freelist[order'[q]]
             \/ q \notin Block(p, o) /\ q \in Block(page[c], cur[c])
    BY <1>0, <1>1, <1>3, <1>4, <1>10, <1>11, HandRewrites
  <2> QED
    BY <1>0, <2>1
<1>13. /\ \A u \in Orders : \A x \in freelist'[u] : x \in freelist[u] \/ (x = p /\ u = o)
       /\ \A u \in Orders : \A x \in freelist[u] : x \in freelist'[u]
       /\ p \in freelist'[o]
  BY <1>1, <1>2, <1>4 DEF TypeOK
<1>14. FreeGood'
  BY <1>12, <1>13 DEF FreeGood
<1>15. HeldGood'
  BY <1>1, <1>10, <1>12 DEF Described, HeldGood
<1>16. \A d \in Cpus : Waiting(d)' => Waiting(d) /\ page'[d] = page[d] /\ cur'[d] = cur[d]
  BY <1>5 DEF Waiting
<1>17. WaitingGood'
  BY <1>1, <1>10, <1>12, <1>16 DEF Described, WaitingGood
<1>18. \A d \in Cpus : ~InHand(d)'
  <2>1. \A d \in Cpus : InHand(d)' => InHand(d) /\ d # c
    BY <1>5 DEF InHand
  <2> QED
    BY <1>2, <1>3, <2>1, OneHand
<1>19. HandGood'
  BY <1>18 DEF HandGood
<1>20. HeadsListed'
  <2> SUFFICES ASSUME NEW q \in Pages, is_head'[q] = 1, is_free'[q] = 1
               PROVE  q \in freelist'[order'[q]]
    BY DEF HeadsListed
  <2>1. order'[q] \in Orders
    BY <1>7 DEF TypeOK
  <2> QED
    BY <1>12, <1>13, <2>1
<1>21. SplitsDown'
  BY <1>5, <1>10 DEF Described, SplitsDown
<1>22. Booting'
  <2> SUFFICES ASSUME next_pfn' < pgdb_page_nr
               PROVE  /\ \A d \in Cpus : pc'[d] # "idle" => d = BootCpu
                      /\ pc'[BootCpu] \in {"idle", "free_lock", "merge"}
                      /\ \A i \in Usable : i >= next_pfn' => <<i, 0>> \in held /\ ref_count'[i] < 0
                      /\ \A i \in NormalMem \ Usable : i >= next_pfn' => ref_count'[i] >= 0
    BY <1>1 DEF Booting
  <2>1. next_pfn < pgdb_page_nr /\ next_pfn' = next_pfn + 1
    BY <1>1, <1>6, PgdbAssumption
  <2>2. /\ \A d \in Cpus : pc[d] # "idle" => d = BootCpu
        /\ pc[BootCpu] \in {"idle", "free_lock", "merge"}
        /\ \A i \in Usable : i >= next_pfn =>
             \/ <<i, 0>> \in held /\ ref_count[i] < 0
             \/ i = next_pfn /\ pc[BootCpu] # "idle"
        /\ \A i \in NormalMem \ Usable : i >= next_pfn => ref_count[i] >= 0
    BY <1>10, <2>1 DEF Described, Booting
  <2>3. p \in Usable
    BY <1>4, <1>11, InBlock
  <2>4. \A i \in Usable : i >= next_pfn' => <<i, 0>> \in held /\ ref_count'[i] < 0
    <3> SUFFICES ASSUME NEW i \in Usable, i >= next_pfn'
                 PROVE  <<i, 0>> \in held /\ ref_count'[i] < 0
      OBVIOUS
    <3>1. i \in Nat /\ i \in Pages /\ i >= next_pfn /\ i # next_pfn
      BY <1>6, <2>1, Frames
    <3> QED
      BY <1>12, <2>2, <3>1
  <2>5. \A i \in NormalMem \ Usable : i >= next_pfn' => ref_count'[i] >= 0
    <3> SUFFICES ASSUME NEW i \in NormalMem \ Usable, i >= next_pfn'
                 PROVE  ref_count'[i] >= 0
      OBVIOUS
    <3>1. i \in Nat /\ i \in Pages /\ i >= next_pfn /\ i # p
      BY <1>6, <2>1, <2>3, Frames
    <3> QED
      BY <1>12, <2>2, <3>1
  <2> QED
    BY <1>5, <2>2, <2>4, <2>5, CpuAssumption
<1> QED
  BY <1>14, <1>15, <1>17, <1>19, <1>20, <1>21, <1>22 DEF Described

-----------------------------------------------------------------------------
(* The invariant and what follows from it.                                 *)

LEMMA Begins == Init => IInv
<1> SUFFICES ASSUME Init PROVE IInv
  OBVIOUS
<1>1. /\ held = {<<i, 0>> : i \in Usable}
      /\ refs = [i \in Usable |-> 1]
      /\ freelist = [o \in Orders |-> {}]
      /\ is_free = [q \in Pages |-> 0] /\ is_head = [q \in Pages |-> 0]
      /\ order = [q \in Pages |-> 0]
      /\ ref_count = [q \in Pages |-> IF q \in Usable THEN -1 ELSE 0]
      /\ lock = SPINLOCK_FREE /\ next_pfn = 0 /\ crossed = FALSE
      /\ pc = [c \in Cpus |-> "idle"] /\ page = [c \in Cpus |-> 0]
      /\ req = [c \in Cpus |-> 0] /\ cur = [c \in Cpus |-> 0]
  BY DEF Init, AInit
<1>2. TypeOK
  <2>1. held \subseteq Usable \X Orders
    BY <1>1, Frames
  <2>2. refs \in [Usable -> 0 .. MaxRefs]
    BY <1>1, PgdbAssumption
  <2>3. ref_count \in [Pages -> Int]
    BY <1>1
  <2>4. next_pfn \in 0 .. pgdb_page_nr
    BY <1>1, PgdbAssumption
  <2> QED
    BY <1>1, <2>1, <2>2, <2>3, <2>4, Frames DEF TypeOK
<1>3. MutualExclusion
  BY <1>1 DEF MutualExclusion, Critical, SPINLOCK_FREE, SPINLOCK_LOCKED
<1>4. InPlace
  BY <1>1 DEF InPlace, Working
<1>5. HeldGood
  <2> SUFFICES ASSUME NEW i \in Usable
               PROVE  Good(i, 0, 0) /\ refs[i] >= 1 /\ ref_count[i] = refs[i] - 2
    BY <1>1, SMTT(30) DEF HeldGood
  <2>1. i \in Nat /\ i \in Pages /\ Block(i, 0) = {i}
    BY Frames, SingleFrame
  <2>2. Aligned(i, 0)
    BY <2>1 DEF Aligned, Pow2
  <2>3. Good(i, 0, 0)
    BY <1>1, <2>1, <2>2, Frames DEF Good
  <2> QED
    BY <1>1, <2>1, <2>3
<1>6. FreeGood /\ WaitingGood /\ HandGood /\ HeadsListed /\ SplitsDown
  BY <1>1 DEF FreeGood, WaitingGood, HandGood, HeadsListed, SplitsDown, Waiting, InHand
<1>7. Booting
  BY <1>1, CpuAssumption, Frames DEF Booting
<1> QED
  BY <1>2, <1>3, <1>4, <1>5, <1>6, <1>7 DEF IInv, Described

LEMMA Steps == IInv /\ [Next]_vars => IInv'
<1> SUFFICES ASSUME IInv, [Next]_vars PROVE IInv'
  OBVIOUS
<1>1. MutualExclusion'
  <2>1. LockTyped /\ MutualExclusion
    BY DEF IInv, TypeOK, LockTyped, Places
  <2> QED
    BY <2>1, LockStep
<1> SUFFICES Kept'
  BY <1>1 DEF Kept, IInv
<1>2. CASE AddPages \/ SkipPage
  BY <1>2, AddPagesKeeps, SkipPageKeeps
<1>3. ASSUME NEW c \in Cpus, Call(c)
      PROVE  Kept'
  BY <1>3, AllocPagesKeeps, PutPageKeeps, PageFreeKeeps DEF Call
<1>4. ASSUME NEW c \in Cpus, Inside(c)
      PROVE  Kept'
  BY <1>4, LockAllocKeeps, TakeBlockKeeps, AllocFailsKeeps, SplitKeeps, AllocDoneKeeps,
     LockFreeKeeps, MergeKeeps, FreeDoneKeeps DEF Inside
<1>5. ASSUME NEW b \in held, NEW q \in Block(b[1], b[2]), get_page(b, q)
      PROVE  Kept'
  BY <1>5, GetPageKeeps
<1>6. CASE Damaged \/ UNCHANGED vars
  <2>1. UNCHANGED <<held, refs, freelist, is_free, is_head, order, ref_count,
                    lock, next_pfn, pc, page, req, cur, crossed>>
    BY <1>6 DEF Damaged, vars, descriptors, locals
  <2>2. TypeOK' /\ InPlace'
    BY <2>1 DEF IInv, TypeOK, InPlace, Working
  <2>3. ASSUME ~crossed'
        PROVE  Described'
    <3>1. Described
      BY <2>1, <2>3 DEF IInv
    <3>2. /\ FreeGood' /\ WaitingGood' /\ HandGood' /\ HeadsListed' /\ SplitsDown'
          /\ \A x, o, f : Good(x, o, f) => Good(x, o, f)'
      BY <2>1, <3>1, SameBlocks
    <3>3. HeldGood' /\ Booting'
      BY <2>1, <3>1, <3>2 DEF Described, HeldGood, Booting
    <3> QED
      BY <3>2, <3>3 DEF Described
  <2> QED
    BY <2>2, <2>3 DEF Kept
<1> QED
  BY <1>2, <1>3, <1>4, <1>5, <1>6 DEF Next

(* The invariant holds in every state, whatever the database, the memory   *)
(* map and the number of CPUs.                                             *)
THEOREM Invariance == Spec => []IInv
  BY Begins, Steps, PTL DEF Spec

(* No operation of the pool stores anything of another type, and no page   *)
(* number leaves the database, not even after a merge across orders.       *)
THEOREM TypeCorrect == Spec => []TypeOK
<1>1. IInv => TypeOK
  BY DEF IInv
<1> QED
  BY <1>1, Invariance, PTL

(* Free, held and in-hand blocks share no page frame: AllocPages grants no *)
(* frame twice, for any number of CPUs, until a merge crosses orders.      *)
THEOREM BlocksApart == Spec => []NoOverlap
<1>1. IInv => NoOverlap
  <2> SUFFICES ASSUME IInv, ~crossed PROVE NoOverlap
    BY DEF NoOverlap
  <2>1. /\ TypeOK /\ MutualExclusion /\ InPlace /\ FreeGood /\ HeldGood
        /\ WaitingGood /\ HandGood
    BY DEF IInv, Described
  <2>2. ASSUME NEW b \in FreeBlocks
        PROVE  /\ b[1] \in Nat /\ b[2] \in Orders /\ b = <<b[1], b[2]>>
               /\ b[1] \in freelist[b[2]] /\ Good(b[1], b[2], 1)
    <3>1. b \in Pages \X Orders /\ b[1] \in freelist[b[2]]
      BY DEF FreeBlocks
    <3>2. b[1] \in Pages /\ b[2] \in Orders /\ b = <<b[1], b[2]>>
      BY <3>1
    <3>3. b[1] \in Nat /\ Good(b[1], b[2], 1)
      BY <2>1, <3>1, <3>2, Frames DEF FreeGood
    <3> QED
      BY <3>1, <3>2, <3>3
  <2>3. ASSUME NEW b \in held
        PROVE  /\ b[1] \in Nat /\ b[2] \in Orders /\ b = <<b[1], b[2]>>
               /\ Good(b[1], b[2], 0)
    BY <2>1, Starts DEF HeldGood
  <2>4. \A c \in Cpus : Working(c) => Waiting(c) \/ InHand(c)
    BY DEF Working, Waiting, InHand
  <2>5. ASSUME NEW c \in Cpus, Waiting(c)
        PROVE  /\ page[c] \in Nat /\ cur[c] \in Orders /\ Good(page[c], cur[c], 0)
               /\ <<page[c], cur[c]>> \notin held
               /\ \A d \in Cpus : Waiting(d) /\ page[d] = page[c] => c = d
    BY <2>1, <2>5, Starts DEF WaitingGood
  <2>6. ASSUME NEW c \in Cpus, InHand(c)
        PROVE  /\ page[c] \in Nat /\ cur[c] \in Orders
               /\ page[c] \in Block(page[c], cur[c])
               /\ \A d \in Cpus : InHand(d) => d = c
               /\ \A o \in Orders : \A p \in freelist[o] : Disjoint(p, o, page[c], cur[c])
               /\ \A b \in held : Disjoint(b[1], b[2], page[c], cur[c])
               /\ \A d \in Cpus : Waiting(d) => Disjoint(page[d], cur[d], page[c], cur[c])
    BY <2>1, <2>6, Starts, InBlock, OneHand DEF HandGood, InHand, Critical
  (* Free and held blocks. *)
  <2>7. FreeBlocks \cap held = {}
    <3> SUFFICES ASSUME NEW b \in FreeBlocks, b \in held PROVE FALSE
      OBVIOUS
    <3>1. Good(b[1], b[2], 1) /\ Good(b[1], b[2], 0) /\ b[1] \in Block(b[1], b[2])
      BY <2>2, <2>3, InBlock
    <3> QED
      BY <3>1 DEF Good
  <2>8. \A b, d \in FreeBlocks \cup held :
          b # d => Block(b[1], b[2]) \cap Block(d[1], d[2]) = {}
    <3> SUFFICES ASSUME NEW b \in FreeBlocks \cup held, NEW d \in FreeBlocks \cup held,
                        NEW r \in Block(b[1], b[2]), r \in Block(d[1], d[2])
                 PROVE  b = d
      OBVIOUS
    <3>1. PICK f, g : /\ b[1] \in Nat /\ b = <<b[1], b[2]>> /\ Good(b[1], b[2], f)
                      /\ d[1] \in Nat /\ d = <<d[1], d[2]>> /\ Good(d[1], d[2], g)
      BY <2>2, <2>3
    <3>2. b[1] = d[1] /\ b[2] = d[2]
      BY <3>1, Shared
    <3> QED
      BY <3>1, <3>2
  (* A block in hand and a free or held one. *)
  <2>9. ASSUME NEW c \in Cpus, Working(c), NEW b \in FreeBlocks \cup held
        PROVE  /\ Block(b[1], b[2]) \cap Block(page[c], cur[c]) = {}
               /\ b # <<page[c], cur[c]>>
    <3>1. /\ b[1] \in Nat /\ b[2] \in Orders /\ b = <<b[1], b[2]>>
          /\ b[1] \in Block(b[1], b[2])
      BY <2>2, <2>3, InBlock
    <3>2. Disjoint(b[1], b[2], page[c], cur[c])
      <4>1. CASE InHand(c)
        BY <2>2, <2>6, <4>1
      <4>2. CASE Waiting(c) /\ b \in FreeBlocks
        <5>1. b[1] \in Nat /\ Good(b[1], b[2], 1) /\ 1 # 0
          BY <2>2, <4>2
        <5>2. page[c] \in Nat /\ Good(page[c], cur[c], 0)
          BY <2>5, <4>2
        <5> QED
          BY <5>1, <5>2, Apart
      <4>3. CASE Waiting(c) /\ b \in held
        <5>1. b[1] \in Nat /\ b = <<b[1], b[2]>> /\ Good(b[1], b[2], 0)
          BY <2>3, <4>3
        <5>2. /\ page[c] \in Nat /\ Good(page[c], cur[c], 0)
              /\ <<page[c], cur[c]>> # b
          BY <2>5, <4>3
        <5>3. b[1] # page[c] \/ b[2] # cur[c]
          BY <5>1, <5>2
        <5>4. ASSUME NEW r \in Block(b[1], b[2]), r \in Block(page[c], cur[c])
              PROVE  FALSE
          <6>1. b[1] = page[c] /\ b[2] = cur[c]
            BY <5>1, <5>2, <5>4, Shared
          <6> QED
            BY <5>3, <6>1
        <5> QED
          BY <5>4 DEF Disjoint
      <4> QED
        BY <2>4, <2>9, <4>1, <4>2, <4>3
    <3> QED
      BY <3>1, <3>2 DEF Disjoint
  (* Two blocks in hand. *)
  <2>10. ASSUME NEW c \in Cpus, Working(c), NEW d \in Cpus, Working(d), c # d
         PROVE  /\ Block(page[c], cur[c]) \cap Block(page[d], cur[d]) = {}
                /\ page[c] # page[d]
    <3>1. CASE Waiting(c) /\ Waiting(d)
      <4>1. page[c] # page[d]
        BY <2>5, <2>10, <3>1
      <4> QED
        BY <2>5, <3>1, <4>1, Apart DEF Disjoint
    <3>2. CASE InHand(c) /\ Waiting(d)
      <4>1. page[d] \in Block(page[d], cur[d])
        BY <2>5, <3>2, InBlock
      <4>2. page[c] \in Block(page[c], cur[c]) /\ Disjoint(page[d], cur[d], page[c], cur[c])
        BY <2>6, <3>2
      <4> QED
        BY <4>1, <4>2 DEF Disjoint
    <3>3. CASE Waiting(c) /\ InHand(d)
      <4>1. page[c] \in Block(page[c], cur[c])
        BY <2>5, <3>3, InBlock
      <4>2. page[d] \in Block(page[d], cur[d]) /\ Disjoint(page[c], cur[c], page[d], cur[d])
        BY <2>6, <3>3
      <4> QED
        BY <4>1, <4>2 DEF Disjoint
    <3> QED
      BY <2>4, <2>6, <2>10, <3>1, <3>2, <3>3
  <2>11. \A b \in HandBlocks : \E c \in Cpus : Working(c) /\ b = <<page[c], cur[c]>>
    BY DEF HandBlocks
  <2>12. \A b, d \in FreeBlocks \cup held \cup HandBlocks :
           b # d => Block(b[1], b[2]) \cap Block(d[1], d[2]) = {}
    <3> SUFFICES ASSUME NEW b \in FreeBlocks \cup held \cup HandBlocks,
                        NEW d \in FreeBlocks \cup held \cup HandBlocks, b # d
                 PROVE  Block(b[1], b[2]) \cap Block(d[1], d[2]) = {}
      OBVIOUS
    <3>1. CASE b \in FreeBlocks \cup held /\ d \in FreeBlocks \cup held
      BY <2>8, <3>1
    <3>2. CASE b \in HandBlocks /\ d \in FreeBlocks \cup held
      BY <2>9, <2>11, <3>2
    <3>3. CASE b \in FreeBlocks \cup held /\ d \in HandBlocks
      BY <2>9, <2>11, <3>3
    <3>4. CASE b \in HandBlocks /\ d \in HandBlocks
      BY <2>10, <2>11, <3>4
    <3> QED
      BY <3>1, <3>2, <3>3, <3>4
  <2>13. (FreeBlocks \cup held) \cap HandBlocks = {}
    BY <2>9, <2>11
  <2> QED
    BY <2>7, <2>10, <2>12, <2>13 DEF NoOverlap
<1> QED
  BY <1>1, Invariance, PTL

(* From any page of a held block its head and its order are found, and it  *)
(* is not marked free, whatever the other CPUs split and merge.            *)
THEOREM HeldDescribed == Spec => []HeldDescriptors
<1>1. IInv => HeldDescriptors
  <2> SUFFICES ASSUME IInv, ~crossed, NEW b \in held, NEW q \in Block(b[1], b[2])
               PROVE  get_head_page(q) = b[1] /\ order[q] = b[2] /\ is_free[q] = 0
    BY DEF HeldDescriptors
  <2> QED
    BY FindsHead DEF IInv, Described, HeldGood, Good
<1> QED
  BY <1>1, Invariance, PTL

(* The last reference that is given back finds ref_count negative, and no  *)
(* other one does, for any number of references.                           *)
THEOREM ReferencesCounted == Spec => []CountsReferences
<1>1. IInv => CountsReferences
  BY DEF IInv, Described, HeldGood, CountsReferences
<1> QED
  BY <1>1, Invariance, PTL

-----------------------------------------------------------------------------
(* The pool implements PageAllocator.                                      *)

LEMMA StepImplements ==
  ASSUME IInv, [Next]_vars
  PROVE  [crossed \/ ANext]_avars
<1> SUFFICES ASSUME ~crossed PROVE ANext \/ UNCHANGED avars
  OBVIOUS
<1>1. TypeOK /\ InPlace /\ Described /\ HeldGood
  BY DEF IInv, Described
<1>2. CASE AddPages
  <2>1. ref_count[next_pfn] < 0 /\ next_pfn < pgdb_page_nr /\ next_pfn \in NormalMem
        /\ pc[BootCpu] = "idle" /\ next_pfn \in Int
    BY <1>1, <1>2 DEF AddPages, EnterFree, Goto, TypeOK
  <2>2. next_pfn \in Usable
    <3>1. \A i \in NormalMem \ Usable : i >= next_pfn => ref_count[i] >= 0
      BY <1>1, <2>1 DEF Described, Booting
    <3>2. next_pfn \in Pages /\ ref_count[next_pfn] \in Int /\ next_pfn >= next_pfn
      BY <1>1, <2>1, Frames DEF TypeOK
    <3> QED
      BY <2>1, <3>1, <3>2
  <2>3. <<next_pfn, 0>> \in held
    BY <1>1, <2>1, <2>2 DEF Described, Booting
  <2>4. ref_count[next_pfn] = refs[next_pfn] - 2 /\ refs[next_pfn] >= 1
    BY <1>1, <2>3 DEF HeldGood
  <2>5. refs[next_pfn] = 1
    BY <1>1, <2>1, <2>2, <2>4, PgdbAssumption DEF TypeOK
  <2>6. Release(<<next_pfn, 0>>)
    <3>1. /\ held' = held \ {<<next_pfn, 0>>}
          /\ refs' = [refs EXCEPT ![next_pfn] = refs[next_pfn] - 1]
      BY <1>2, <2>5 DEF AddPages
    <3>2. <<next_pfn, 0>>[1] = next_pfn
      OBVIOUS
    <3> QED
      BY <2>5, <3>1, <3>2 DEF Release
  <2> QED
    BY <2>3, <2>6 DEF ANext
<1>3. ASSUME NEW b \in held, NEW q \in Block(b[1], b[2]), get_page(b, q)
      PROVE  ANext
  BY <1>3 DEF get_page, Reference, ANext
<1>4. ASSUME NEW c \in Cpus, Call(c)
      PROVE  ANext \/ UNCHANGED avars
  <2>1. CASE \E o \in Orders : AllocPages(c, o)
    BY <2>1 DEF AllocPages, avars
  <2>2. ASSUME NEW b \in held, NEW q \in Block(b[1], b[2]), put_page(c, b, q)
        PROVE  ANext
    BY <2>2 DEF put_page, Release, ANext
  <2>3. ASSUME NEW b \in held, NEW q \in Block(b[1], b[2]), PageFree(c, b, q)
        PROVE  ANext
    <3>1. Release(b)
      BY <2>3 DEF PageFree, Release
    <3> QED
      BY <3>1 DEF ANext
  <2> QED
    BY <1>4, <2>1, <2>2, <2>3 DEF Call
<1>5. ASSUME NEW c \in Cpus, Inside(c)
      PROVE  ANext \/ UNCHANGED avars
  <2>1. CASE AllocDone(c)
    <3>1. /\ pc[c] = "split"
          /\ held' = held \cup {<<page[c], cur[c]>>}
          /\ refs' = [refs EXCEPT ![page[c]] = 1]
      BY <2>1 DEF AllocDone, UnLock, Goto
    <3>2. /\ Aligned(page[c], cur[c]) /\ Block(page[c], cur[c]) \subseteq Usable
          /\ \A b \in held : Disjoint(b[1], b[2], page[c], cur[c])
      BY <1>1, <3>1 DEF Described, HandGood, InHand
    <3>3. page[c] \in Usable /\ cur[c] \in Orders
      BY <1>1, <3>2, Starts, InBlock
    <3>4. \A b \in held : Block(page[c], cur[c]) \cap Block(b[1], b[2]) = {}
      BY <3>2 DEF Disjoint
    <3> QED
      BY <3>1, <3>2, <3>3, <3>4 DEF Grant, Grantable, ANext
  <2>2. CASE ~AllocDone(c)
    BY <1>5, <2>2 DEF Inside, LockAlloc, TakeBlock, AllocFails, Split, LockFree,
                      Merge, FreeDone, avars
  <2> QED
    BY <2>1, <2>2
<1>6. CASE SkipPage \/ Damaged \/ UNCHANGED vars
  BY <1>6 DEF SkipPage, Damaged, vars, avars
<1> QED
  BY <1>2, <1>3, <1>4, <1>5, <1>6 DEF Next

(* The pool keeps what PageAllocator promises, for any number of CPUs and  *)
(* any memory map: until a merge crosses orders, AllocPages grants only    *)
(* aligned blocks of usable frames that nobody holds, and a block stays    *)
(* granted until its last reference is given back.                         *)
THEOREM Implementation == Spec => ImplementsPageAllocator
<1>1. Init => AInit
  BY DEF Init
<1>2. IInv /\ [Next]_vars => [crossed \/ ANext]_avars
  BY StepImplements
<1> QED
  BY <1>1, <1>2, Invariance, PTL DEF Spec, ImplementsPageAllocator

-----------------------------------------------------------------------------
(* Where the frames of the pool are: none is lost, and free buddies are    *)
(* merged, for any number of CPUs and pages.  It rests on IInv.            *)

(* A frame is in a free block, in a held one, or in one that a CPU has.    *)
OnList(f) == \E o \in Orders : \E p \in freelist[o] : f \in Block(p, o)
IsHeld(f) == \E b \in held : f \in Block(b[1], b[2])
Carried(f) == \E c \in Cpus : Working(c) /\ f \in Block(page[c], cur[c])

NoneLost == \A f \in Usable : OnList(f) \/ IsHeld(f) \/ Carried(f)

(* A CPU other than the one that moves goes on carrying what it carries.   *)
LEMMA OthersCarry ==
  ASSUME NEW c \in Cpus,
         \A d \in Cpus : d # c => pc'[d] = pc[d] /\ page'[d] = page[d] /\ cur'[d] = cur[d],
         NEW f, Carried(f), ~Carried(f)'
  PROVE  Working(c) /\ f \in Block(page[c], cur[c])
<1>1. PICK d \in Cpus : Working(d) /\ f \in Block(page[d], cur[d])
  BY DEF Carried
<1>2. CASE d # c
  <2>1. Working(d)' /\ f \in Block(page'[d], cur'[d])
    BY <1>1, <1>2 DEF Working
  <2> QED
    BY <2>1 DEF Carried
<1> QED
  BY <1>1, <1>2

(* A step that moves no block out of a list, a caller or a CPU's hands.    *)
LEMMA NothingMoves ==
  ASSUME NoneLost, UNCHANGED <<freelist, held>>,
         \A d \in Cpus : Working(d) =>
           Working(d)' /\ page'[d] = page[d] /\ cur'[d] = cur[d]
  PROVE  NoneLost'
<1>1. ASSUME NEW f \in Usable PROVE OnList(f)' \/ IsHeld(f)' \/ Carried(f)'
  <2>1. OnList(f) => OnList(f)'
    BY DEF OnList
  <2>2. IsHeld(f) => IsHeld(f)'
    BY DEF IsHeld
  <2>3. Carried(f) => Carried(f)'
    BY DEF Carried
  <2> QED
    BY <2>1, <2>2, <2>3 DEF NoneLost
<1> QED
  BY <1>1 DEF NoneLost

(* What a caller gives up, a CPU carries.                                  *)
LEMMA GivesUp ==
  ASSUME NoneLost, TypeOK, NEW c \in Cpus, NEW b \in held,
         EnterFree(c, b[1], b[2]), held' = held \ {b}, freelist' = freelist
  PROVE  NoneLost'
<1>1. /\ pc[c] = "idle" /\ pc'[c] = "free_lock" /\ page'[c] = b[1] /\ cur'[c] = b[2]
      /\ \A d \in Cpus : d # c => pc'[d] = pc[d] /\ page'[d] = page[d] /\ cur'[d] = cur[d]
  BY DEF EnterFree, Goto, TypeOK
<1>2. ASSUME NEW f \in Usable PROVE OnList(f)' \/ IsHeld(f)' \/ Carried(f)'
  <2>1. OnList(f) => OnList(f)'
    BY DEF OnList
  <2>2. IsHeld(f) => IsHeld(f)' \/ f \in Block(b[1], b[2])
    BY DEF IsHeld
  <2>3. f \in Block(b[1], b[2]) => Carried(f)'
    BY <1>1 DEF Carried, Working
  <2>4. Carried(f) => Carried(f)'
    BY <1>1, OthersCarry DEF Working
  <2> QED
    BY <2>1, <2>2, <2>3, <2>4 DEF NoneLost
<1> QED
  BY <1>2 DEF NoneLost

(* A CPU takes a block off its list.                                       *)
LEMMA TakeBlockLosesNone ==
  ASSUME IInv, NoneLost, NEW c \in Cpus, TakeBlock(c)
  PROVE  NoneLost'
<1>1. TypeOK
  BY DEF IInv
<1>2. PICK a \in Available(req[c]) : \E p \in freelist[a] :
        /\ freelist' = [freelist EXCEPT ![a] = @ \ {p}]
        /\ page' = [page EXCEPT ![c] = p]
        /\ cur' = [cur EXCEPT ![c] = a]
  BY DEF TakeBlock
<1>3. PICK p \in freelist[a] :
        /\ freelist' = [freelist EXCEPT ![a] = @ \ {p}]
        /\ page' = [page EXCEPT ![c] = p]
        /\ cur' = [cur EXCEPT ![c] = a]
  BY <1>2
<1>4. /\ pc[c] = "alloc" /\ pc'[c] = "split" /\ page'[c] = p /\ cur'[c] = a
      /\ \A d \in Cpus : d # c => pc'[d] = pc[d] /\ page'[d] = page[d] /\ cur'[d] = cur[d]
      /\ held' = held
  BY <1>1, <1>3 DEF TakeBlock, Goto, TypeOK
<1>5. \A o \in Orders : \A x \in freelist[o] : x \in freelist'[o] \/ (x = p /\ o = a)
  BY <1>1, <1>3 DEF TypeOK
<1>6. ASSUME NEW f \in Usable PROVE OnList(f)' \/ IsHeld(f)' \/ Carried(f)'
  <2>1. f \in Block(p, a) => Carried(f)'
    BY <1>4 DEF Carried, Working
  <2>2. OnList(f) => OnList(f)' \/ f \in Block(p, a)
    BY <1>5 DEF OnList
  <2>3. IsHeld(f) => IsHeld(f)'
    BY <1>4 DEF IsHeld
  <2>4. Carried(f) => Carried(f)'
    BY <1>4, OthersCarry DEF Working
  <2> QED
    BY <2>1, <2>2, <2>3, <2>4 DEF NoneLost
<1> QED
  BY <1>6 DEF NoneLost

(* What Split(c) does: b, the second half of the block at p, is listed.     *)
SplitInto(c, o, p, b) ==
  /\ o \in 0..9 /\ o + 1 \in Orders /\ cur[c] = o + 1 /\ page[c] = p
  /\ cur' = [cur EXCEPT ![c] = o]
  /\ Aligned(p, o) /\ Aligned(b, o) /\ Block(b, o) \subseteq Usable
  /\ buddy_page_pfn(p, o) = b /\ buddy_page_pfn(b, o) = p /\ b \in Usable
  /\ Block(p, o + 1) = Block(p, o) \cup Block(b, o)
  /\ __reinit_page(b, o, 1)
  /\ freelist' = [freelist EXCEPT ![o] = @ \cup {b}]
  /\ UNCHANGED <<held, pc, page, req, crossed>>
  /\ ~crossed
  /\ \A u \in Orders : \A x \in freelist[u] : Disjoint(x, u, p, o + 1)

(* Of the block in hand the upper half goes on a list; the lower half      *)
(* stays in hand.                                                          *)
LEMMA Splits ==
  ASSUME IInv, NEW c \in Cpus, Split(c)
  PROVE  \E o \in Orders, p \in Nat, b \in Nat : SplitInto(c, o, p, b)
<1>0. PICK o, p, b : o = cur[c] - 1 /\ p = page[c] /\ b = buddy_page_pfn(p, o)
  OBVIOUS
<1>1. /\ pc[c] = "split" /\ cur[c] > req[c]
      /\ cur' = [cur EXCEPT ![c] = o]
      /\ __reinit_page(b, o, 1)
      /\ freelist' = [freelist EXCEPT ![o] = @ \cup {b}]
      /\ UNCHANGED <<held, pc, page, req, crossed>>
  BY <1>0 DEF Split, list_add_next
<1>2. TypeOK /\ InPlace /\ ~crossed /\ HandGood /\ InHand(c)
  BY <1>1 DEF IInv, InPlace, Described, InHand
<1>3. o \in Orders /\ o \in 0..9 /\ cur[c] = o + 1 /\ o + 1 \in Orders /\ p \in Nat
  <2>1. cur[c] \in Orders /\ req[c] \in Orders
    BY <1>2 DEF TypeOK
  <2>2. cur[c] \in 0 .. MAX_PAGE_ORDER - 1 /\ req[c] \in 0 .. MAX_PAGE_ORDER - 1
    BY <2>1 DEF Orders
  <2> QED
    BY <1>0, <1>1, <1>2, <2>1, <2>2, OrderAssumption, Starts DEF Orders
<1>4. /\ Aligned(p, o + 1) /\ Block(p, o + 1) \subseteq Usable
      /\ \A u \in Orders : \A x \in freelist[u] : Disjoint(x, u, p, o + 1)
  BY <1>0, <1>2, <1>3 DEF HandGood
<1>5. /\ Aligned(p, o) /\ Aligned(b, o) /\ b = p + Pow2(o)
      /\ buddy_page_pfn(p, o) = b /\ buddy_page_pfn(b, o) = p
      /\ Block(p, o + 1) = Block(p, o) \cup Block(b, o)
  BY <1>0, <1>3, <1>4, Halves
<1>6. b \in Nat
  BY <1>3, <1>5, PowersOfTwo
<1>7. Block(b, o) \subseteq Usable /\ b \in Usable
  BY <1>3, <1>4, <1>5, <1>6, InBlock
<1>8. SplitInto(c, o, p, b)
  BY <1>0, <1>1, <1>2, <1>3, <1>4, <1>5, <1>6, <1>7 DEF SplitInto
<1> QED
  BY <1>3, <1>6, <1>8

LEMMA SplitLosesNone ==
  ASSUME IInv, NoneLost, NEW c \in Cpus, Split(c)
  PROVE  NoneLost'
<1>0. PICK o \in Orders, p \in Nat, b \in Nat : SplitInto(c, o, p, b)
  BY Splits
<1>1. TypeOK /\ pc[c] = "split"
  BY DEF IInv, Split
<1>2. /\ cur[c] = o + 1 /\ page[c] = p
      /\ cur' = [cur EXCEPT ![c] = o]
      /\ Block(p, o + 1) = Block(p, o) \cup Block(b, o)
      /\ freelist' = [freelist EXCEPT ![o] = @ \cup {b}]
      /\ UNCHANGED <<held, pc, page>>
  BY <1>0 DEF SplitInto
<1>3. /\ page'[c] = p /\ cur'[c] = o /\ pc'[c] = "split"
      /\ \A d \in Cpus : d # c => pc'[d] = pc[d] /\ page'[d] = page[d] /\ cur'[d] = cur[d]
  BY <1>1, <1>2 DEF TypeOK
<1>4. /\ \A u \in Orders : \A x \in freelist[u] : x \in freelist'[u]
      /\ b \in freelist'[o]
  BY <1>1, <1>2 DEF TypeOK
<1>5. ASSUME NEW f \in Usable PROVE OnList(f)' \/ IsHeld(f)' \/ Carried(f)'
  <2>1. f \in Block(b, o) => OnList(f)'
    BY <1>4 DEF OnList
  <2>2. f \in Block(p, o) => Carried(f)'
    BY <1>3 DEF Carried, Working
  <2>3. OnList(f) => OnList(f)'
    BY <1>4 DEF OnList
  <2>4. IsHeld(f) => IsHeld(f)'
    BY <1>2 DEF IsHeld
  <2>5. Carried(f) => Carried(f)' \/ OnList(f)'
    BY <1>2, <1>3, <2>1, <2>2, OthersCarry
  <2> QED
    BY <2>3, <2>4, <2>5 DEF NoneLost
<1> QED
  BY <1>5 DEF NoneLost

(* The block in hand becomes the caller's.                                 *)
LEMMA AllocDoneLosesNone ==
  ASSUME IInv, NoneLost, NEW c \in Cpus, AllocDone(c)
  PROVE  NoneLost'
<1>1. TypeOK
  BY DEF IInv
<1>2. /\ held' = held \cup {<<page[c], cur[c]>>} /\ freelist' = freelist
      /\ \A d \in Cpus : d # c => pc'[d] = pc[d] /\ page'[d] = page[d] /\ cur'[d] = cur[d]
  BY <1>1 DEF AllocDone, UnLock, Goto, TypeOK
<1>3. ASSUME NEW f \in Usable PROVE OnList(f)' \/ IsHeld(f)' \/ Carried(f)'
  <2>1. OnList(f) => OnList(f)'
    BY <1>2 DEF OnList
  <2>2. IsHeld(f) => IsHeld(f)'
    BY <1>2 DEF IsHeld
  <2>3. f \in Block(page[c], cur[c]) => IsHeld(f)'
    <3> DEFINE b == <<page[c], cur[c]>>
    <3>1. b \in held' /\ b[1] = page[c] /\ b[2] = cur[c]
      BY <1>2
    <3> QED
      BY <3>1 DEF IsHeld
  <2>4. Carried(f) => Carried(f)' \/ IsHeld(f)'
    BY <1>2, <2>3, OthersCarry
  <2> QED
    BY <2>1, <2>2, <2>4 DEF NoneLost
<1> QED
  BY <1>3 DEF NoneLost

(* What Merge does to the block in hand: it becomes it and its buddy, and  *)
(* of the lists only the buddy of that order is gone.                      *)
LEMMA Merges ==
  ASSUME IInv, ~crossed', NEW c \in Cpus, Merge(c)
  PROVE  \E o \in Orders : \E p, b \in Pages :
           /\ pc[c] = "merge" /\ page[c] = p /\ cur[c] = o /\ cur'[c] = o + 1
           /\ Block(page'[c], o + 1) = Block(p, o) \cup Block(b, o)
           /\ \A d \in Cpus : d # c => page'[d] = page[d] /\ cur'[d] = cur[d]
           /\ \A u \in Orders : \A x \in freelist[u] : x \in freelist'[u] \/ (x = b /\ u = o)
           /\ \A u \in Orders : freelist'[u] \subseteq freelist[u]
           /\ \A q \in Pages : q # p => is_head'[q] = is_head[q]
           /\ \A u \in Orders : \A x \in freelist[u] : Disjoint(x, u, p, o)
           /\ UNCHANGED <<held, pc>> /\ ~crossed
<1>0. PICK p, o, b : p = page[c] /\ o = cur[c] /\ b = buddy_page_pfn(p, o)
  OBVIOUS
<1>1. /\ pc[c] = "merge" /\ o < MAX_PAGE_ORDER - 1
      /\ b \in NormalMem /\ is_head[b] = 1 /\ is_free[b] = 1
      /\ freelist' = [u \in Orders |-> freelist[u] \ {b}]
      /\ \/ is_head' = [is_head EXCEPT ![p] = 0] /\ page' = [page EXCEPT ![c] = b] /\ b < p
         \/ UNCHANGED <<is_head, page>> /\ ~(b < p)
      /\ crossed' = (crossed \/ order[b] # o)
      /\ cur' = [cur EXCEPT ![c] = o + 1]
      /\ UNCHANGED <<held, pc>>
  BY <1>0 DEF Merge, CanMerge, Mergeable, list_del
<1>2. TypeOK /\ InPlace /\ ~crossed /\ order[b] = o /\ FreeGood /\ HandGood /\ InHand(c)
  BY <1>1 DEF IInv, TypeOK, Described, InHand
<1>3. p \in Nat /\ p \in Pages /\ b \in Pages /\ b \in Nat /\ o \in Orders /\ o \in 0..9
  <2>1. p \in Pages
    BY <1>0, <1>1, <1>2 DEF InPlace, Working
  <2>2. o \in Orders
    BY <1>0, <1>2 DEF TypeOK
  <2>3. o \in 0..9
    BY <1>1, <2>2, OrderAssumption DEF Orders
  <2> QED
    BY <1>1, <2>1, <2>2, <2>3, Frames
<1>4. /\ cur'[c] = o + 1 /\ page'[c] = IF b < p THEN b ELSE p
      /\ \A d \in Cpus : d # c => page'[d] = page[d] /\ cur'[d] = cur[d]
      /\ \A q \in Pages : q # p => is_head'[q] = is_head[q]
  BY <1>0, <1>1, <1>2, <1>3 DEF TypeOK
<1>5. /\ Aligned(p, o)
      /\ \A u \in Orders : \A x \in freelist[u] : Disjoint(x, u, p, o)
  BY <1>0, <1>2 DEF HandGood
<1>6. Block(page'[c], o + 1) = Block(p, o) \cup Block(b, o)
  <2>1. Pow2(o) \in Nat /\ Pow2(o) >= 1
    BY <1>3, PowersOfTwo
  <2>2. CASE Aligned(p, o + 1) /\ b = p + Pow2(o)
    <3>1. page'[c] = p
      BY <1>3, <1>4, <2>1, <2>2
    <3> QED
      BY <1>3, <2>2, <3>1, Halves
  <2>3. CASE \E h \in Nat : Aligned(h, o + 1) /\ p = h + Pow2(o) /\ b = h
    <3>1. Aligned(b, o + 1) /\ p = b + Pow2(o)
      BY <2>3
    <3>2. page'[c] = b
      BY <1>3, <1>4, <2>1, <3>1
    <3> QED
      BY <1>3, <3>1, <3>2, Halves
  <2> QED
    BY <1>0, <1>3, <1>5, <2>2, <2>3, Buddies
<1>7. ASSUME NEW u \in Orders, NEW x \in freelist[u]
      PROVE  x \in freelist'[u] \/ (x = b /\ u = o)
  <2>1. CASE x # b
    BY <1>1, <2>1
  <2>2. CASE x = b
    <3>1. Good(b, u, 1) /\ b \in Block(b, u)
      BY <1>2, <1>3, <2>2, InBlock DEF FreeGood
    <3> QED
      BY <1>2, <2>2, <3>1 DEF Good
  <2> QED
    BY <2>1, <2>2
<1>8. \A u \in Orders : freelist'[u] \subseteq freelist[u]
  BY <1>1
<1> QED
  BY <1>0, <1>1, <1>2, <1>3, <1>4, <1>5, <1>6, <1>7, <1>8

LEMMA MergeLosesNone ==
  ASSUME IInv, NoneLost, ~crossed', NEW c \in Cpus, Merge(c)
  PROVE  NoneLost'
<1>1. PICK o \in Orders, p \in Pages, b \in Pages :
        /\ pc[c] = "merge" /\ page[c] = p /\ cur[c] = o /\ cur'[c] = o + 1
        /\ Block(page'[c], o + 1) = Block(p, o) \cup Block(b, o)
        /\ \A d \in Cpus : d # c => page'[d] = page[d] /\ cur'[d] = cur[d]
        /\ \A u \in Orders : \A x \in freelist[u] : x \in freelist'[u] \/ (x = b /\ u = o)
        /\ UNCHANGED <<held, pc>>
  BY Merges
<1>2. ASSUME NEW f \in Usable PROVE OnList(f)' \/ IsHeld(f)' \/ Carried(f)'
  <2>1. f \in Block(p, o) \cup Block(b, o) => Carried(f)'
    BY <1>1 DEF Carried, Working
  <2>2. OnList(f) => OnList(f)' \/ f \in Block(b, o)
    BY <1>1 DEF OnList
  <2>3. IsHeld(f) => IsHeld(f)'
    BY <1>1 DEF IsHeld
  <2>4. Carried(f) => Carried(f)'
    BY <1>1, <2>1, OthersCarry
  <2> QED
    BY <2>1, <2>2, <2>3, <2>4 DEF NoneLost
<1> QED
  BY <1>2 DEF NoneLost

(* The block in hand goes on its list.                                     *)
LEMMA FreeDoneLosesNone ==
  ASSUME IInv, NoneLost, NEW c \in Cpus, FreeDone(c)
  PROVE  NoneLost'
<1>0. PICK p, o : p = page[c] /\ o = cur[c]
  OBVIOUS
<1>1. TypeOK /\ o \in Orders
  BY <1>0 DEF IInv, TypeOK
<1>2. /\ held' = held /\ freelist' = [freelist EXCEPT ![o] = @ \cup {p}]
      /\ \A d \in Cpus : d # c => pc'[d] = pc[d] /\ page'[d] = page[d] /\ cur'[d] = cur[d]
  BY <1>0, <1>1 DEF FreeDone, UnLock, Goto, list_add_next, TypeOK
<1>3. /\ \A u \in Orders : \A x \in freelist[u] : x \in freelist'[u]
      /\ p \in freelist'[o]
  BY <1>1, <1>2 DEF TypeOK
<1>4. ASSUME NEW f \in Usable PROVE OnList(f)' \/ IsHeld(f)' \/ Carried(f)'
  <2>1. f \in Block(p, o) => OnList(f)'
    BY <1>1, <1>3 DEF OnList
  <2>2. OnList(f) => OnList(f)'
    BY <1>3 DEF OnList
  <2>3. IsHeld(f) => IsHeld(f)'
    BY <1>2 DEF IsHeld
  <2>4. Carried(f) => Carried(f)' \/ OnList(f)'
    BY <1>0, <1>2, <2>1, OthersCarry
  <2> QED
    BY <2>2, <2>3, <2>4 DEF NoneLost
<1> QED
  BY <1>4 DEF NoneLost

(* Calls on a held block: the block is given up with its last reference.   *)
LEMMA CallLosesNone ==
  ASSUME IInv, NoneLost, NEW c \in Cpus, Call(c)
  PROVE  NoneLost'
<1>1. TypeOK
  BY DEF IInv
<1>2. ASSUME NEW o \in Orders, AllocPages(c, o)
      PROVE  NoneLost'
  <2>1. /\ UNCHANGED <<held, freelist, page, cur>>
        /\ pc[c] = "idle" /\ \A d \in Cpus : d # c => pc'[d] = pc[d]
    BY <1>1, <1>2 DEF AllocPages, Goto, TypeOK
  <2>2. \A d \in Cpus : Working(d) => Working(d)' /\ page'[d] = page[d] /\ cur'[d] = cur[d]
    BY <2>1 DEF Working
  <2> QED
    BY <2>1, <2>2, NothingMoves
<1>3. ASSUME NEW b \in held, NEW q \in Block(b[1], b[2]), put_page(c, b, q)
      PROVE  NoneLost'
  <2>1. /\ get_head_page(q) = b[1] /\ order[b[1]] = b[2]
        /\ refs[b[1]] \in 1 .. MaxRefs /\ ref_count[b[1]] = refs[b[1]] - 2
    BY <1>3, FindsHead DEF put_page, Running
  <2>2. freelist' = freelist
    BY <1>3 DEF put_page
  <2>3. CASE refs[b[1]] = 1
    <3>1. EnterFree(c, b[1], b[2]) /\ held' = held \ {b}
      BY <1>3, <2>1, <2>3 DEF put_page
    <3> QED
      BY <1>1, <2>2, <3>1, GivesUp
  <2>4. CASE refs[b[1]] # 1
    <3>1. UNCHANGED <<held, pc, page, cur>>
      BY <1>3, <2>1, <2>4, PgdbAssumption DEF put_page
    <3>2. \A d \in Cpus : Working(d) => Working(d)' /\ page'[d] = page[d] /\ cur'[d] = cur[d]
      BY <3>1 DEF Working
    <3> QED
      BY <2>2, <3>1, <3>2, NothingMoves
  <2> QED
    BY <2>3, <2>4
<1>4. ASSUME NEW b \in held, NEW q \in Block(b[1], b[2]), PageFree(c, b, q)
      PROVE  NoneLost'
  <2>1. get_head_page(q) = b[1] /\ order[b[1]] = b[2]
    BY <1>4, FindsHead DEF PageFree, Running
  <2>2. EnterFree(c, b[1], b[2]) /\ held' = held \ {b} /\ freelist' = freelist
    BY <1>4, <2>1 DEF PageFree
  <2> QED
    BY <1>1, <2>2, GivesUp
<1> QED
  BY <1>2, <1>3, <1>4 DEF Call

(* The boot CPU gives the pool a frame that it held.                       *)
LEMMA AddPagesLosesNone ==
  ASSUME IInv, NoneLost, AddPages
  PROVE  NoneLost'
<1> DEFINE n == next_pfn
           b == <<n, 0>>
<1>1. TypeOK /\ Booting
  BY DEF IInv, Described, AddPages
<1>2. /\ n < pgdb_page_nr /\ n \in NormalMem /\ ref_count[n] < 0 /\ n \in Int
      /\ pc[BootCpu] = "idle"
  BY <1>1 DEF AddPages, EnterFree, Goto, TypeOK
<1>3. n \in Usable
  <2>1. \A i \in NormalMem \ Usable : i >= n => ref_count[i] >= 0
    BY <1>1, <1>2 DEF Booting
  <2>2. ref_count[n] \in Int /\ n >= n
    BY <1>1, <1>2, Frames DEF TypeOK
  <2> QED
    BY <1>2, <2>1, <2>2
<1>4. b \in held
  BY <1>1, <1>2, <1>3 DEF Booting
<1>5. EnterFree(BootCpu, b[1], b[2]) /\ held' = held \ {b} /\ freelist' = freelist
  BY DEF AddPages
<1> HIDE DEF b
<1> QED
  BY <1>1, <1>4, <1>5, CpuAssumption, GivesUp

(* Steps inside a call.                                                    *)
LEMMA InsideLosesNone ==
  ASSUME IInv, NoneLost, ~crossed', NEW c \in Cpus, Inside(c)
  PROVE  NoneLost'
<1>1. TypeOK
  BY DEF IInv
<1>2. CASE LockAlloc(c) \/ LockFree(c) \/ AllocFails(c)
  <2>1. /\ UNCHANGED <<held, freelist>>
        /\ \A d \in Cpus : d # c => pc'[d] = pc[d] /\ page'[d] = page[d] /\ cur'[d] = cur[d]
    BY <1>1, <1>2 DEF LockAlloc, LockFree, AllocFails, Lock, UnLock, Goto, locals, TypeOK
  <2>2. Working(c) => Working(c)' /\ page'[c] = page[c] /\ cur'[c] = cur[c]
    BY <1>1, <1>2
    DEF LockAlloc, LockFree, AllocFails, Lock, UnLock, Goto, locals, TypeOK, Working
  <2>3. \A d \in Cpus : Working(d) => Working(d)' /\ page'[d] = page[d] /\ cur'[d] = cur[d]
    BY <2>1, <2>2 DEF Working
  <2> QED
    BY <2>1, <2>3, NothingMoves
<1> QED
  BY <1>2, TakeBlockLosesNone, SplitLosesNone, AllocDoneLosesNone, MergeLosesNone,
     FreeDoneLosesNone DEF Inside

LEMMA LosesNone == IInv /\ NoneLost /\ ~crossed' /\ [Next]_vars => NoneLost'
<1> SUFFICES ASSUME IInv, NoneLost, ~crossed', [Next]_vars PROVE NoneLost'
  OBVIOUS
<1>1. CASE SkipPage \/ Damaged \/ UNCHANGED vars
  <2>1. UNCHANGED <<held, freelist, pc, page, cur>>
    BY <1>1 DEF SkipPage, Damaged, vars, locals
  <2>2. \A d \in Cpus : Working(d) => Working(d)' /\ page'[d] = page[d] /\ cur'[d] = cur[d]
    BY <2>1 DEF Working
  <2> QED
    BY <2>1, <2>2, NothingMoves
<1>2. ASSUME NEW b \in held, NEW q \in Block(b[1], b[2]), get_page(b, q)
      PROVE  NoneLost'
  <2>1. UNCHANGED <<held, freelist, pc, page, cur>>
    BY <1>2 DEF get_page, locals
  <2>2. \A d \in Cpus : Working(d) => Working(d)' /\ page'[d] = page[d] /\ cur'[d] = cur[d]
    BY <2>1 DEF Working
  <2> QED
    BY <2>1, <2>2, NothingMoves
<1> QED
  BY <1>1, <1>2, AddPagesLosesNone, CallLosesNone, InsideLosesNone DEF Next

(* A merge across orders is never taken back.                              *)
LEMMA StaysCrossed == crossed /\ [Next]_vars => crossed'
<1> SUFFICES ASSUME crossed, [Next]_vars PROVE crossed'
  OBVIOUS
<1>1. CASE AddPages \/ SkipPage \/ Damaged \/ UNCHANGED vars
  BY <1>1 DEF AddPages, SkipPage, Damaged, vars
<1>2. ASSUME NEW c \in Cpus, Call(c) PROVE crossed'
  BY <1>2 DEF Call, AllocPages, put_page, PageFree
<1>3. ASSUME NEW c \in Cpus, Inside(c) PROVE crossed'
  BY <1>3 DEF Inside, LockAlloc, TakeBlock, AllocFails, Split, AllocDone, LockFree, Merge, FreeDone
<1>4. ASSUME NEW b \in held, NEW q \in Block(b[1], b[2]), get_page(b, q) PROVE crossed'
  BY <1>4 DEF get_page
<1> QED
  BY <1>1, <1>2, <1>3, <1>4 DEF Next

(* Every block is made of frames that the pool was given.                  *)
LEMMA BlocksAreUsable ==
  ASSUME IInv, ~crossed
  PROVE  /\ \A o \in Orders : \A p \in freelist[o] : Block(p, o) \subseteq Usable
         /\ \A b \in held : Block(b[1], b[2]) \subseteq Usable
         /\ \A c \in Cpus : Working(c) => Block(page[c], cur[c]) \subseteq Usable
<1>1. FreeGood /\ HeldGood /\ WaitingGood /\ HandGood
  BY DEF IInv, Described
<1>2. \A o \in Orders : \A p \in freelist[o] : Block(p, o) \subseteq Usable
  BY <1>1 DEF FreeGood, Good
<1>3. \A b \in held : Block(b[1], b[2]) \subseteq Usable
  BY <1>1 DEF HeldGood, Good
<1>4. \A c \in Cpus : Waiting(c) => Block(page[c], cur[c]) \subseteq Usable
  BY <1>1 DEF WaitingGood, Good
<1>5. \A c \in Cpus : InHand(c) => Block(page[c], cur[c]) \subseteq Usable
  BY <1>1 DEF HandGood
<1> QED
  BY <1>2, <1>3, <1>4, <1>5 DEF Working, Waiting, InHand

LEMMA FramesAreBlocks ==
  ASSUME IInv, crossed \/ NoneLost
  PROVE  NoPageLost
<1> SUFFICES ASSUME ~crossed PROVE BlockPages(FreeBlocks \cup held \cup HandBlocks) = Usable
  BY DEF NoPageLost
<1>1. NoneLost /\ TypeOK
  BY DEF IInv
<1>2. ASSUME NEW b \in FreeBlocks \cup held \cup HandBlocks
      PROVE  Block(b[1], b[2]) \subseteq Usable
  <2>1. CASE b \in FreeBlocks
    <3>1. b[2] \in Orders /\ b[1] \in freelist[b[2]]
      BY <2>1 DEF FreeBlocks
    <3> QED
      BY <3>1, BlocksAreUsable
  <2>2. CASE b \in held
    BY <2>2, BlocksAreUsable
  <2>3. CASE b \in HandBlocks
    <3>1. PICK c \in Cpus : Working(c) /\ b = <<page[c], cur[c]>>
      BY <2>3 DEF HandBlocks
    <3>2. Block(page[c], cur[c]) \subseteq Usable
      BY <3>1, BlocksAreUsable
    <3> QED
      BY <3>1, <3>2
  <2> QED
    BY <2>1, <2>2, <2>3
<1>3. ASSUME NEW f \in Usable
      PROVE  \E b \in FreeBlocks \cup held \cup HandBlocks : f \in Block(b[1], b[2])
  <2>1. CASE OnList(f)
    <3>1. PICK o \in Orders : \E x \in freelist[o] : f \in Block(x, o)
      BY <2>1 DEF OnList
    <3>2. PICK p \in freelist[o] : f \in Block(p, o)
      BY <3>1
    <3>3. p \in Pages
      BY <1>1, <3>2 DEF TypeOK
    <3> DEFINE b == <<p, o>>
    <3>4. b \in FreeBlocks /\ b[1] = p /\ b[2] = o
      BY <3>2, <3>3 DEF FreeBlocks
    <3> QED
      BY <3>2, <3>4
  <2>2. CASE IsHeld(f)
    BY <2>2 DEF IsHeld
  <2>3. CASE Carried(f)
    <3>1. PICK c \in Cpus : Working(c) /\ f \in Block(page[c], cur[c])
      BY <2>3 DEF Carried
    <3> DEFINE b == <<page[c], cur[c]>>
    <3>2. b \in HandBlocks /\ b[1] = page[c] /\ b[2] = cur[c]
      BY <3>1 DEF HandBlocks
    <3> QED
      BY <3>1, <3>2
  <2> QED
    BY <1>1, <2>1, <2>2, <2>3 DEF NoneLost
<1> QED
  BY <1>2, <1>3 DEF BlockPages

(* No frame that boot gave the pool is ever lost, and the pool hands out   *)
(* and merges no others: this is about every path through AllocPages and   *)
(* FreePages, with any number of CPUs and any memory map.                  *)
THEOREM FramesKept == Spec => []NoPageLost
<1>1. Init => crossed \/ NoneLost
  <2> SUFFICES ASSUME Init, NEW f \in Usable PROVE IsHeld(f)
    BY DEF NoneLost
  <2>1. held = {<<i, 0>> : i \in Usable}
    BY DEF Init, AInit
  <2> DEFINE b == <<f, 0>>
  <2>2. b \in held /\ b[1] = f /\ b[2] = 0
    BY <2>1
  <2>3. f \in Block(f, 0)
    BY SingleFrame, Frames
  <2> QED
    BY <2>2, <2>3 DEF IsHeld
<1>2. IInv /\ (crossed \/ NoneLost) /\ [Next]_vars => (crossed \/ NoneLost)'
  BY LosesNone, StaysCrossed
<1>3. IInv /\ (crossed \/ NoneLost) => NoPageLost
  BY FramesAreBlocks
<1> QED
  BY <1>1, <1>2, <1>3, Invariance, PTL DEF Spec

-----------------------------------------------------------------------------
(***************************************************************************)
(* Coalescing.  The buddies of one order are never both on their list, not *)
(* even inside the critical section.  FreePages sees to it if it can rely  *)
(* on the head bits of the free blocks, which IInv says nothing of.        *)
(***************************************************************************)
FreeHeads == \A o \in Orders : \A p \in freelist[o] : is_head[p] = 1

BuddiesApart ==
  \A o \in 0 .. MAX_PAGE_ORDER - 2 : \A p \in freelist[o] :
    buddy_page_pfn(p, o) \notin freelist[o]

Merged == FreeHeads /\ BuddiesApart

(* Buddies are different, and each is the other's.                         *)
LEMMA BuddyOfBuddy ==
  ASSUME NEW p \in Nat, NEW o \in 0..9, Aligned(p, o)
  PROVE  buddy_page_pfn(buddy_page_pfn(p, o), o) = p /\ buddy_page_pfn(p, o) # p
<1>1. Pow2(o) \in Nat /\ Pow2(o) >= 1
  BY PowersOfTwo
<1>2. CASE Aligned(p, o + 1) /\ buddy_page_pfn(p, o) = p + Pow2(o)
  <2>1. buddy_page_pfn(p + Pow2(o), o) = p
    BY <1>2, Halves
  <2>2. p + Pow2(o) # p
    BY <1>1
  <2> QED
    BY <1>2, <2>1, <2>2
<1>3. CASE \E b \in Nat : /\ Aligned(b, o + 1) /\ p = b + Pow2(o)
                          /\ buddy_page_pfn(p, o) = b
  <2>1. PICK b \in Nat : /\ Aligned(b, o + 1) /\ p = b + Pow2(o)
                         /\ buddy_page_pfn(p, o) = b
    BY <1>3
  <2>2. buddy_page_pfn(b, o) = p
    BY <2>1, Halves
  <2>3. b + Pow2(o) # b
    BY <1>1, <2>1
  <2> QED
    BY <2>1, <2>2, <2>3
<1> QED
  BY <1>2, <1>3, Buddies

(* A block goes on its list whose buddy is not there.                      *)
LEMMA AddsApart ==
  ASSUME TypeOK, FreeGood, BuddiesApart, NEW p \in Nat, NEW o \in Orders, Aligned(p, o),
         freelist' = [freelist EXCEPT ![o] = @ \cup {p}],
         o \in 0 .. MAX_PAGE_ORDER - 2 => buddy_page_pfn(p, o) \notin freelist[o]
  PROVE  BuddiesApart'
<1> SUFFICES ASSUME NEW u \in 0 .. MAX_PAGE_ORDER - 2, NEW x \in freelist'[u],
                    buddy_page_pfn(x, u) \in freelist'[u]
             PROVE  FALSE
  BY DEF BuddiesApart
<1>1. u \in Orders /\ u \in 0..9
  BY OrderAssumption DEF Orders
<1>2. CASE u # o
  <2>1. freelist'[u] = freelist[u]
    BY <1>1, <1>2 DEF TypeOK
  <2> QED
    BY <2>1 DEF BuddiesApart
<1>3. CASE u = o
  <2>1. freelist'[u] = freelist[u] \cup {p}
    BY <1>1, <1>3 DEF TypeOK
  <2>2. buddy_page_pfn(buddy_page_pfn(p, u), u) = p /\ buddy_page_pfn(p, u) # p
    BY <1>1, <1>3, BuddyOfBuddy
  <2>3. CASE x = p
    BY <1>3, <2>1, <2>2, <2>3
  <2>4. CASE x # p
    <3>1. x \in freelist[u] /\ buddy_page_pfn(x, u) \notin freelist[u]
      BY <2>1, <2>4 DEF BuddiesApart
    <3>2. buddy_page_pfn(x, u) = p
      BY <2>1, <3>1
    <3>3. x \in Nat /\ Aligned(x, u)
      BY <1>1, <3>1, Frames DEF FreeGood, Good, TypeOK
    <3>4. buddy_page_pfn(p, u) = x
      BY <1>1, <3>2, <3>3, BuddyOfBuddy
    <3> QED
      BY <1>3, <3>1, <3>4
  <2> QED
    BY <2>3, <2>4
<1> QED
  BY <1>2, <1>3

(* Taking blocks off the lists keeps them apart.                           *)
LEMMA RemovesApart ==
  ASSUME BuddiesApart, \A u \in Orders : freelist'[u] \subseteq freelist[u]
  PROVE  BuddiesApart'
<1>1. \A u \in 0 .. MAX_PAGE_ORDER - 2 : u \in Orders
  BY OrderAssumption DEF Orders
<1> QED
  BY <1>1 DEF BuddiesApart

LEMMA SplitMerges ==
  ASSUME IInv, Merged, NEW c \in Cpus, Split(c)
  PROVE  Merged'
<1>0. PICK o \in Orders, p \in Nat, b \in Nat : SplitInto(c, o, p, b)
  BY Splits
<1>1. /\ o \in 0..9
      /\ Aligned(b, o) /\ Block(b, o) \subseteq Usable
      /\ buddy_page_pfn(b, o) = p /\ Block(p, o + 1) = Block(p, o) \cup Block(b, o)
      /\ __reinit_page(b, o, 1)
      /\ freelist' = [freelist EXCEPT ![o] = @ \cup {b}]
      /\ ~crossed
      /\ \A u \in Orders : \A x \in freelist[u] : Disjoint(x, u, p, o + 1)
  BY <1>0 DEF SplitInto
<1>2. TypeOK /\ FreeGood /\ FreeHeads /\ BuddiesApart
  BY <1>1 DEF IInv, Described, Merged
<1>3. p \in Block(p, o) /\ b \in Block(b, o)
  BY <1>1, InBlock
<1>4. \A u \in Orders : \A x \in freelist[u] : x \in Nat /\ x \in Pages /\ x \in Block(x, u)
  BY <1>2, Frames, InBlock DEF TypeOK
<1>5. p \notin freelist[o]
  BY <1>1, <1>3, <1>4 DEF Disjoint
<1>6. BuddiesApart'
  BY <1>1, <1>2, <1>5, AddsApart
<1>7. \A u \in Orders : \A x \in freelist[u] : x \in Pages \ Block(b, o)
  BY <1>1, <1>4 DEF Disjoint
<1>8. /\ \A q \in Block(b, o) : is_head'[q] = (IF q = b THEN 1 ELSE 0)
      /\ \A q \in Pages \ Block(b, o) : is_head'[q] = is_head[q]
  BY <1>1, <1>2, Rewrites
<1>9. FreeHeads'
  <2>1. \A u \in Orders : \A x \in freelist'[u] : x \in freelist[u] \/ x = b
    BY <1>1, <1>2 DEF TypeOK
  <2> QED
    BY <1>2, <1>3, <1>7, <1>8, <2>1 DEF FreeHeads
<1> QED
  BY <1>6, <1>9 DEF Merged

(* FreePages links the block when the buddy can not be merged: it is of    *)
(* the largest order, or the buddy is on no list.                          *)
LEMMA FreeDoneMerges ==
  ASSUME IInv, ~crossed, Merged, NEW c \in Cpus, FreeDone(c)
  PROVE  Merged'
<1>0. PICK p, o : p = page[c] /\ o = cur[c]
  OBVIOUS
<1>1. /\ ~CanMerge(c) /\ pc[c] = "merge"
      /\ __reinit_page(p, o, 1)
      /\ freelist' = [freelist EXCEPT ![o] = @ \cup {p}]
  BY <1>0 DEF FreeDone, UnLock, Goto, list_add_next
<1>2. /\ TypeOK /\ InPlace /\ FreeGood /\ HandGood /\ FreeHeads /\ BuddiesApart
      /\ InHand(c)
  BY <1>1 DEF IInv, Described, Merged, InHand
<1>3. p \in Nat /\ o \in Orders
  BY <1>0, <1>2, Starts
<1>4. /\ Aligned(p, o) /\ Block(p, o) \subseteq Usable /\ p \in Block(p, o)
      /\ \A u \in Orders : \A x \in freelist[u] : Disjoint(x, u, p, o)
  BY <1>0, <1>2, <1>3, InBlock DEF HandGood
<1>5. o \in 0 .. MAX_PAGE_ORDER - 2 => buddy_page_pfn(p, o) \notin freelist[o]
  <2> SUFFICES ASSUME o \in 0 .. MAX_PAGE_ORDER - 2, buddy_page_pfn(p, o) \in freelist[o]
               PROVE  FALSE
    OBVIOUS
  <2> DEFINE b == buddy_page_pfn(p, o)
  <2>1. b \in Pages /\ b \in Nat
    BY <1>2, <1>3, Starts
  <2>2. Good(b, o, 1) /\ b \in Block(b, o) /\ is_head[b] = 1
    BY <1>2, <1>3, <2>1, InBlock DEF FreeGood, FreeHeads
  <2>3. b \in Usable /\ is_free[b] = 1
    BY <2>2 DEF Good
  <2>4. Mergeable(b)
    <3> HIDE DEF b
    <3> QED
      BY <2>2, <2>3, PgdbAssumption DEF Mergeable
  <2>5. o < MAX_PAGE_ORDER - 1
    BY OrderAssumption
  <2> QED
    BY <1>0, <1>1, <2>4, <2>5 DEF CanMerge
<1>6. BuddiesApart'
  BY <1>1, <1>2, <1>3, <1>4, <1>5, AddsApart
<1>7. \A u \in Orders : \A x \in freelist[u] : x \in Pages \ Block(p, o)
  <2> SUFFICES ASSUME NEW u \in Orders, NEW x \in freelist[u] PROVE x \in Pages \ Block(p, o)
    OBVIOUS
  <2>1. x \in Pages /\ x \in Nat /\ x \in Block(x, u)
    BY <1>2, Starts, InBlock
  <2> QED
    BY <1>4, <2>1 DEF Disjoint
<1>8. /\ \A q \in Block(p, o) : is_head'[q] = (IF q = p THEN 1 ELSE 0)
      /\ \A q \in Pages \ Block(p, o) : is_head'[q] = is_head[q]
  BY <1>1, <1>2, <1>3, <1>4, Rewrites
<1>9. FreeHeads'
  <2>1. \A u \in Orders : \A x \in freelist'[u] : x \in freelist[u] \/ x = p
    BY <1>1, <1>2 DEF TypeOK
  <2> QED
    BY <1>2, <1>4, <1>7, <1>8, <2>1 DEF FreeHeads
<1> QED
  BY <1>6, <1>9 DEF Merged

LEMMA InsideMerges ==
  ASSUME IInv, ~crossed', Merged, NEW c \in Cpus, Inside(c)
  PROVE  Merged'
<1>1. CASE LockAlloc(c) \/ LockFree(c) \/ AllocFails(c)
  BY <1>1 DEF LockAlloc, LockFree, AllocFails, descriptors, Merged, FreeHeads, BuddiesApart
<1>2. CASE TakeBlock(c)
  <2>1. is_head' = is_head /\ \A u \in Orders : freelist'[u] \subseteq freelist[u]
    BY <1>2 DEF TakeBlock, descriptors, IInv, TypeOK
  <2> QED
    BY <2>1, RemovesApart DEF Merged, FreeHeads
<1>3. CASE Split(c)
  BY <1>3, SplitMerges
<1>4. CASE AllocDone(c)
  <2> DEFINE p == page[c]
             o == cur[c]
  <2>1. freelist' = freelist /\ __reinit_page(p, o, 0) /\ pc[c] = "split" /\ ~crossed
    BY <1>4 DEF AllocDone, UnLock, Goto
  <2>2. TypeOK /\ InPlace /\ HandGood /\ InHand(c)
    BY <2>1 DEF IInv, Described, InHand
  <2>3. p \in Nat /\ o \in Orders
    BY <2>2, Starts
  <2>4. /\ Aligned(p, o) /\ Block(p, o) \subseteq Usable
        /\ \A u \in Orders : \A x \in freelist[u] : Disjoint(x, u, p, o)
    BY <2>2 DEF HandGood
  <2> HIDE DEF p, o
  <2>5. \A q \in Pages \ Block(p, o) : is_head'[q] = is_head[q]
    BY <2>1, <2>2, <2>3, <2>4, Rewrites
  <2>6. \A u \in Orders : \A x \in freelist[u] : x \in Pages /\ x \in Block(x, u)
    BY <2>2, Starts, InBlock
  <2>7. FreeHeads'
    BY <2>1, <2>4, <2>5, <2>6 DEF Merged, FreeHeads, Disjoint
  <2> QED
    BY <2>1, <2>7 DEF Merged, BuddiesApart
<1>5. CASE Merge(c)
  <2>1. PICK o \in Orders, p \in Pages, b \in Pages :
          /\ \A u \in Orders : freelist'[u] \subseteq freelist[u]
          /\ \A q \in Pages : q # p => is_head'[q] = is_head[q]
          /\ \A u \in Orders : \A x \in freelist[u] : Disjoint(x, u, p, o)
    BY <1>5, Merges
  <2>2. \A u \in Orders : \A x \in freelist[u] : x \in Pages /\ x \in Block(x, u)
    BY Starts, InBlock DEF IInv
  <2>3. p \in Block(p, o)
    BY Frames, InBlock
  <2>4. FreeHeads'
    BY <2>1, <2>2, <2>3 DEF Merged, FreeHeads, Disjoint
  <2> QED
    BY <2>1, <2>4, RemovesApart DEF Merged
<1>6. CASE FreeDone(c)
  BY <1>6, FreeDoneMerges DEF FreeDone
<1> QED
  BY <1>1, <1>2, <1>3, <1>4, <1>5, <1>6 DEF Inside

LEMMA StaysMerged == IInv /\ Merged /\ ~crossed' /\ [Next]_vars => Merged'
<1> SUFFICES ASSUME IInv, Merged, ~crossed', [Next]_vars PROVE Merged'
  OBVIOUS
<1>1. CASE UNCHANGED <<freelist, is_head>>
  BY <1>1 DEF Merged, FreeHeads, BuddiesApart
<1>2. CASE AddPages \/ SkipPage \/ Damaged \/ UNCHANGED vars
  BY <1>1, <1>2 DEF AddPages, SkipPage, Damaged, vars, descriptors
<1>3. ASSUME NEW c \in Cpus, Call(c) PROVE Merged'
  BY <1>1, <1>3 DEF Call, AllocPages, put_page, PageFree, descriptors
<1>4. ASSUME NEW b \in held, NEW q \in Block(b[1], b[2]), get_page(b, q) PROVE Merged'
  BY <1>1, <1>4 DEF get_page
<1> QED
  BY <1>2, <1>3, <1>4, InsideMerges DEF Next

(* Two free buddies of one order are always merged: AllocPages does not    *)
(* fail for want of a block that lies there in two halves.  This is about  *)
(* the loop of FreePages, which stops at the first buddy it may not take.  *)
THEOREM FullyMerged == Spec => []Coalesced
<1>1. Init => crossed \/ Merged
  <2>1. Init => \A o \in Orders : freelist[o] = {}
    BY DEF Init
  <2>2. \A o \in 0 .. MAX_PAGE_ORDER - 2 : o \in Orders
    BY OrderAssumption DEF Orders
  <2> QED
    BY <2>1, <2>2 DEF Merged, FreeHeads, BuddiesApart
<1>2. IInv /\ (crossed \/ Merged) /\ [Next]_vars => (crossed \/ Merged)'
  BY StaysMerged, StaysCrossed
<1>3. crossed \/ Merged => Coalesced
  BY DEF Merged, BuddiesApart, Coalesced
<1> QED
  BY <1>1, <1>2, <1>3, Invariance, PTL DEF Spec
=============================================================================
