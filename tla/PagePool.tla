------------------------------ MODULE PagePool ------------------------------
(***************************************************************************)
(* The buddy allocator of ClosureOS, class PagePool of                     *)
(* src/kernel/mm/page_mm.cppm, with get_head_page, get_page and put_page,  *)
(* the two entry points of KHeapPool that only pass on to it (PageAlloc,   *)
(* PageFree) and the boot loop that fills it (pages_pool_init).            *)
(*                                                                         *)
(* A CPU takes one step of Next at a time: it enters a call, spins for the *)
(* pool's SpinLock, runs one iteration of a loop inside the lock, leaves.  *)
(* The reads of page descriptors that the code does outside the lock are   *)
(* outside the lock here too.                                              *)
(*                                                                         *)
(* A free list is the SET of the pages linked on it: which of several free *)
(* blocks of one order AllocPages takes (the code takes the last one added)*)
(* matters to no property, and any choice is allowed.  Module ListHead has *)
(* the lists with their pointers.                                          *)
(***************************************************************************)
EXTENDS PageAllocator, FiniteSets

CONSTANTS
  Cpus,          \* the callers that can be inside the pool at the same time
  BootCpu,       \* the one that runs pages_pool_init
  pgdb_page_nr,  \* descriptors in the page database
  NormalMem,     \* the pages whose type is PAGE_NORMAL_MEM
  MaxRefs        \* bound: references that callers take on one block

ASSUME CpuAssumption == BootCpu \in Cpus
ASSUME PgdbAssumption ==
  /\ pgdb_page_nr \in Nat
  /\ NormalMem \subseteq 0 .. pgdb_page_nr - 1
  /\ Usable \subseteq NormalMem
  /\ MaxRefs \in Nat \ {0}

VARIABLES
  freelist,            \* freelist[o]: the heads of the free blocks of order o
  is_free, is_head,    \* the bits of each page descriptor (0 or 1)
  order,               \* the order field of each page descriptor
  ref_count,           \* the reference count of each page descriptor
  lock,                \* the SpinLock's counter
  next_pfn,            \* i of the loop of pages_pool_init
  pc,                  \* where each CPU is
  page,                \* its local: the Page* that it works on
  req,                 \* its local: the order that AllocPages was asked for
  cur,                 \* its local: allocated (AllocPages), order (FreePages)
  crossed              \* history: a buddy of another order has been merged

descriptors == <<is_free, is_head, order, ref_count>>
locals == <<page, req, cur>>
vars == <<held, refs, freelist, descriptors, lock, next_pfn, pc, locals, crossed>>

Pages == 0 .. pgdb_page_nr - 1

SPINLOCK_FREE == 0
SPINLOCK_LOCKED == 1

(* pfn ^ (1 << order): bit `order` of the page frame number flipped. *)
buddy_page_pfn(pfn, o) ==
  IF pfn % Pow2(o + 1) < Pow2(o) THEN pfn + Pow2(o) ELSE pfn - Pow2(o)

(* The head of the block that page q is in, from q's own descriptor. *)
get_head_page(q) == IF is_head[q] = 1 THEN q ELSE q - (q % Pow2(order[q]))

(* Mutant of Mergeable: the buddy's is_free is not looked at. *)
MergeableUnfree(b) == b \in NormalMem /\ is_head[b] = 1

(* The three conditions of __free_pages on the buddy; none is on its order. *)
(* A descriptor past the end of the database lies in the zeroed rest of    *)
(* the database's last page, so its type is not normal memory.  (When that *)
(* page is full the code reads beyond it; the model leaves that out.)      *)
Mergeable(b) == b \in NormalMem /\ is_head[b] = 1 /\ is_free[b] = 1

(* Mutants of __reinit_page: one descriptor too many; the count is kept. *)
__reinit_page_long(p, o, free) ==
  LET B == (p .. p + Pow2(o)) \cap Pages
  IN  /\ is_free' = [q \in Pages |-> IF q \in B THEN free ELSE is_free[q]]
      /\ order' = [q \in Pages |-> IF q \in B THEN o ELSE order[q]]
      /\ is_head' = [q \in Pages |-> IF q = p THEN 1
                                     ELSE IF q \in B THEN 0 ELSE is_head[q]]
      /\ ref_count' = [ref_count EXCEPT ![p] = -1]

__reinit_page_keep_count(p, o, free) ==
  /\ is_free' = [q \in Pages |-> IF q \in Block(p, o) THEN free ELSE is_free[q]]
  /\ order' = [q \in Pages |-> IF q \in Block(p, o) THEN o ELSE order[q]]
  /\ is_head' = [q \in Pages |-> IF q = p THEN 1
                                 ELSE IF q \in Block(p, o) THEN 0 ELSE is_head[q]]
  /\ UNCHANGED ref_count

(* __reinit_page(p, o, free): every descriptor of the block is rewritten,  *)
(* the counters of its first page only.                                    *)
__reinit_page(p, o, free) ==
  /\ is_free' = [q \in Pages |-> IF q \in Block(p, o) THEN free ELSE is_free[q]]
  /\ order' = [q \in Pages |-> IF q \in Block(p, o) THEN o ELSE order[q]]
  /\ is_head' = [q \in Pages |-> IF q = p THEN 1
                                 ELSE IF q \in Block(p, o) THEN 0 ELSE is_head[q]]
  /\ ref_count' = [ref_count EXCEPT ![p] = -1]

list_add_next(o, p) == freelist' = [freelist EXCEPT ![o] = @ \cup {p}]

(* list_del unlinks a node from whatever list it is on. *)
list_del(p) == freelist' = [o \in Orders |-> freelist[o] \ {p}]

Goto(c, from, to) == pc[c] = from /\ pc' = [pc EXCEPT ![c] = to]

(* Mutant of Lock: the value the compare-and-swap found is not looked at. *)
LockUntested(c, from, to) ==
  /\ lock' = SPINLOCK_LOCKED
  /\ Goto(c, from, to)

(* SpinLock::Lock: the loop around compare-and-swap ends when it succeeds. *)
Lock(c, from, to) ==
  /\ lock = SPINLOCK_FREE
  /\ lock' = SPINLOCK_LOCKED
  /\ Goto(c, from, to)

(* SpinLock::UnLock, and the return that follows it: the locals are gone. *)
UnLock(c, from) ==
  /\ lock' = SPINLOCK_FREE
  /\ Goto(c, from, "idle")
  /\ page' = [page EXCEPT ![c] = 0]
  /\ req' = [req EXCEPT ![c] = 0]
  /\ cur' = [cur EXCEPT ![c] = 0]

(***************************************************************************)
(* PagePool::Init has emptied the free lists; boot_mm_page_database_init   *)
(* has left ref_count at -1 for the pages nobody uses.                     *)
(***************************************************************************)
Init ==
  /\ AInit
  /\ freelist = [o \in Orders |-> {}]
  /\ is_free = [q \in Pages |-> 0]
  /\ is_head = [q \in Pages |-> 0]
  /\ order = [q \in Pages |-> 0]
  /\ ref_count = [q \in Pages |-> IF q \in Usable THEN -1 ELSE 0]
  /\ lock = SPINLOCK_FREE
  /\ next_pfn = 0
  /\ pc = [c \in Cpus |-> "idle"]
  /\ page = [c \in Cpus |-> 0]
  /\ req = [c \in Cpus |-> 0]
  /\ cur = [c \in Cpus |-> 0]
  /\ crossed = FALSE

Running == next_pfn = pgdb_page_nr /\ ~crossed

(***************************************************************************)
(* The boot loop: AddPages(&pgdb_base[i], 0) for each page of normal       *)
(* memory that has no reference; the others are passed over.               *)
(***************************************************************************)
EnterFree(c, p, o) ==
  /\ Goto(c, "idle", "free_lock")
  /\ page' = [page EXCEPT ![c] = p]
  /\ cur' = [cur EXCEPT ![c] = o]

AddPages ==
  /\ next_pfn < pgdb_page_nr /\ ~crossed
  /\ next_pfn \in NormalMem /\ ref_count[next_pfn] < 0
  /\ EnterFree(BootCpu, next_pfn, 0)
  /\ held' = held \ {<<next_pfn, 0>>}
  /\ refs' = [refs EXCEPT ![next_pfn] = 0]
  /\ UNCHANGED <<freelist, descriptors, lock, next_pfn, req, crossed>>

SkipPage ==
  /\ next_pfn < pgdb_page_nr /\ ~crossed
  /\ pc[BootCpu] = "idle"
  /\ ~(next_pfn \in NormalMem /\ ref_count[next_pfn] < 0)
  /\ next_pfn' = next_pfn + 1
  /\ UNCHANGED <<held, refs, freelist, descriptors, lock, pc, locals, crossed>>

(***************************************************************************)
(* AllocPages(o).  An order of MAX_PAGE_ORDER or more is refused before    *)
(* anything is touched.                                                    *)
(***************************************************************************)
AllocPages(c, o) ==
  /\ Running
  /\ Goto(c, "idle", "alloc_lock")
  /\ req' = [req EXCEPT ![c] = o]
  /\ UNCHANGED <<held, refs, freelist, descriptors, lock, next_pfn, page, cur, crossed>>

LockAlloc(c) ==
  /\ ~crossed
  /\ Lock(c, "alloc_lock", "alloc")
  /\ UNCHANGED <<held, refs, freelist, descriptors, next_pfn, locals, crossed>>

(* The orders at which __alloc_page_direct(o) could take a block. *)
Available(o) == {a \in o .. MAX_PAGE_ORDER - 1 : freelist[a] # {}}

(* The while loop: the smallest order that has a free block, one of its    *)
(* blocks taken off the list.                                              *)
TakeBlock(c) ==
  /\ Goto(c, "alloc", "split")
  /\ \E a \in Available(req[c]) :
       /\ \A d \in Available(req[c]) : a <= d
       /\ \E p \in freelist[a] :
            /\ freelist' = [freelist EXCEPT ![a] = @ \ {p}]
            /\ page' = [page EXCEPT ![c] = p]
       /\ cur' = [cur EXCEPT ![c] = a]
  /\ UNCHANGED <<held, refs, descriptors, lock, next_pfn, req, crossed>>

(* Mutant of AllocFails: nullptr is returned before UnLock. *)
AllocFailsLocked(c) ==
  /\ Available(req[c]) = {}
  /\ Goto(c, "alloc", "idle")
  /\ UNCHANGED <<held, refs, freelist, descriptors, lock, next_pfn, locals, crossed>>

(* __reclaim_memory does nothing yet and the lock is kept, so the second   *)
(* attempt fails like the first: nullptr is returned.                      *)
AllocFails(c) ==
  /\ Available(req[c]) = {}
  /\ UnLock(c, "alloc")
  /\ UNCHANGED <<held, refs, freelist, descriptors, next_pfn, crossed>>

(* Mutant of Split: the upper half is marked free and not linked. *)
SplitUnlinked(c) ==
  LET o == cur[c] - 1
      b == buddy_page_pfn(page[c], o)
  IN  /\ pc[c] = "split" /\ cur[c] > req[c]
      /\ cur' = [cur EXCEPT ![c] = o]
      /\ __reinit_page(b, o, 1)
      /\ UNCHANGED <<held, refs, freelist, lock, next_pfn, pc, page, req, crossed>>

(* One turn of the do loop: the upper half goes back one order lower. *)
Split(c) ==
  LET o == cur[c] - 1
      b == buddy_page_pfn(page[c], o)
  IN  /\ pc[c] = "split" /\ cur[c] > req[c]
      /\ cur' = [cur EXCEPT ![c] = o]
      /\ __reinit_page(b, o, 1)
      /\ list_add_next(o, b)
      /\ UNCHANGED <<held, refs, lock, next_pfn, pc, page, req, crossed>>

AllocDone(c) ==
  /\ cur[c] = req[c]
  /\ UnLock(c, "split")
  /\ __reinit_page(page[c], cur[c], 0)
  /\ held' = held \cup {<<page[c], cur[c]>>}
  /\ refs' = [refs EXCEPT ![page[c]] = 1]
  /\ UNCHANGED <<freelist, next_pfn, crossed>>

(***************************************************************************)
(* get_page, put_page and PageFree on any page q of a block b that the     *)
(* caller holds.  They find the head without the lock.                     *)
(***************************************************************************)
get_page(b, q) ==
  /\ Running
  /\ refs[b[1]] < MaxRefs
  /\ ref_count' = [ref_count EXCEPT ![get_head_page(q)] = @ + 1]
  /\ refs' = [refs EXCEPT ![b[1]] = @ + 1]
  /\ UNCHANGED <<held, freelist, is_free, is_head, order, lock, next_pfn, pc, locals, crossed>>

(* Mutant of put_page: a count of zero frees the block too. *)
put_page_early(c, b, q) ==
  LET h == get_head_page(q)
  IN  /\ Running /\ pc[c] = "idle"
      /\ ref_count' = [ref_count EXCEPT ![h] = @ - 1]
      /\ refs' = [refs EXCEPT ![b[1]] = @ - 1]
      /\ held' = IF refs[b[1]] = 1 THEN held \ {b} ELSE held
      /\ IF ref_count[h] <= 0
         THEN EnterFree(c, h, order[h])
         ELSE UNCHANGED <<pc, page, cur>>
      /\ UNCHANGED <<freelist, is_free, is_head, order, lock, next_pfn, req, crossed>>

(* atomic_dec returns the value from before: the block is freed by the     *)
(* caller that finds it negative.                                          *)
put_page(c, b, q) ==
  LET h == get_head_page(q)
  IN  /\ Running /\ pc[c] = "idle"
      /\ ref_count' = [ref_count EXCEPT ![h] = @ - 1]
      /\ refs' = [refs EXCEPT ![b[1]] = @ - 1]
      /\ held' = IF refs[b[1]] = 1 THEN held \ {b} ELSE held
      /\ IF ref_count[h] < 0
         THEN EnterFree(c, h, order[h])
         ELSE UNCHANGED <<pc, page, cur>>
      /\ UNCHANGED <<freelist, is_free, is_head, order, lock, next_pfn, req, crossed>>

(* PageFree does not look at the count: its caller is the only owner. *)
PageFree(c, b, q) ==
  LET h == get_head_page(q)
  IN  /\ Running
      /\ refs[b[1]] = 1
      /\ EnterFree(c, h, order[h])
      /\ held' = held \ {b}
      /\ refs' = [refs EXCEPT ![b[1]] = 0]
      /\ UNCHANGED <<freelist, descriptors, lock, next_pfn, req, crossed>>

(***************************************************************************)
(* FreePages: spin for the lock, merge while there is a buddy, link.       *)
(***************************************************************************)
LockFree(c) ==
  /\ ~crossed
  /\ Lock(c, "free_lock", "merge")
  /\ UNCHANGED <<held, refs, freelist, descriptors, next_pfn, locals, crossed>>

(* Mutants of CanMerge: the last order is merged too; the last but one is  *)
(* not merged any more.                                                    *)
CanMergeAbove(c) ==
  /\ cur[c] < MAX_PAGE_ORDER
  /\ Mergeable(buddy_page_pfn(page[c], cur[c]))

CanMergeBelow(c) ==
  /\ cur[c] < MAX_PAGE_ORDER - 2
  /\ Mergeable(buddy_page_pfn(page[c], cur[c]))

CanMerge(c) ==
  /\ cur[c] < MAX_PAGE_ORDER - 1
  /\ Mergeable(buddy_page_pfn(page[c], cur[c]))

Merge(c) ==
  LET b == buddy_page_pfn(page[c], cur[c])
  IN  /\ pc[c] = "merge" /\ CanMerge(c)
      /\ list_del(b)
      /\ IF b < page[c]
         THEN /\ is_head' = [is_head EXCEPT ![page[c]] = 0]
              /\ page' = [page EXCEPT ![c] = b]
         ELSE UNCHANGED <<is_head, page>>
      /\ crossed' = (crossed \/ order[b] # cur[c])
      /\ cur' = [cur EXCEPT ![c] = @ + 1]
      /\ UNCHANGED <<held, refs, is_free, order, ref_count, lock, next_pfn, pc, req>>

(* During boot the return of FreePages ends a turn of pages_pool_init. *)
FreeDone(c) ==
  /\ ~CanMerge(c)
  /\ __reinit_page(page[c], cur[c], 1)
  /\ list_add_next(cur[c], page[c])
  /\ UnLock(c, "merge")
  /\ next_pfn' = IF next_pfn < pgdb_page_nr THEN next_pfn + 1 ELSE next_pfn
  /\ UNCHANGED <<held, refs, crossed>>

(* After a merge across orders the free lists no longer describe memory;   *)
(* the model lets the call that did it return and stops there.             *)
Damaged == crossed /\ lock = SPINLOCK_FREE /\ UNCHANGED vars

Inside(c) ==
  \/ LockAlloc(c) \/ TakeBlock(c) \/ AllocFails(c) \/ Split(c) \/ AllocDone(c)
  \/ LockFree(c) \/ Merge(c) \/ FreeDone(c)

Call(c) ==
  \/ \E o \in Orders : AllocPages(c, o)
  \/ \E b \in held : \E q \in Block(b[1], b[2]) :
       put_page(c, b, q) \/ PageFree(c, b, q)

Next ==
  \/ AddPages \/ SkipPage
  \/ \E c \in Cpus : Call(c) \/ Inside(c)
  \/ \E b \in held : \E q \in Block(b[1], b[2]) : get_page(b, q)
  \/ Damaged

Spec == Init /\ [][Next]_vars

(* A CPU inside a call keeps executing: interrupts are off and nothing     *)
(* preempts it.  Callers promise nothing.                                  *)
FairSpec == Spec /\ \A c \in Cpus : WF_vars(Inside(c)) /\ WF_vars(AddPages \/ SkipPage)

-----------------------------------------------------------------------------
(* The blocks that CPUs have in hand: taken from a caller, from boot or    *)
(* from a free list, and not yet put where they go.                        *)
Working(c) == pc[c] \in {"free_lock", "merge", "split"}
Critical(c) == pc[c] \in {"alloc", "split", "merge"}

FreeBlocks == {b \in Pages \X Orders : b[1] \in freelist[b[2]]}
HandBlocks == {<<page[c], cur[c]>> : c \in {d \in Cpus : Working(d)}}

BlockPages(S) == UNION {Block(b[1], b[2]) : b \in S}

(* Every variable holds a value of its type. *)
TypeOK ==
  /\ held \subseteq Usable \X Orders
  /\ refs \in [Usable -> 0 .. MaxRefs]
  /\ freelist \in [Orders -> SUBSET Pages]
  /\ is_free \in [Pages -> {0, 1}]
  /\ is_head \in [Pages -> {0, 1}]
  /\ order \in [Pages -> Orders]
  /\ ref_count \in [Pages -> Int]
  /\ lock \in {SPINLOCK_FREE, SPINLOCK_LOCKED}
  /\ next_pfn \in 0 .. pgdb_page_nr
  /\ pc \in [Cpus -> {"idle", "alloc_lock", "alloc", "split", "free_lock", "merge"}]
  /\ page \in [Cpus -> Pages \cup {0}]
  /\ req \in [Cpus -> Orders]
  /\ cur \in [Cpus -> Orders]
  /\ crossed \in BOOLEAN

(* The SpinLock keeps the loops of AllocPages and FreePages apart: at most *)
(* one CPU is between Lock and UnLock, and the counter says so.            *)
MutualExclusion ==
  /\ \A c, d \in Cpus : Critical(c) /\ Critical(d) => c = d
  /\ (lock = SPINLOCK_LOCKED) <=> \E c \in Cpus : Critical(c)

(* Two blocks never share a page frame, be they free, held by a caller or  *)
(* in the hands of a CPU: AllocPages grants no frame twice, and put_page   *)
(* and PageFree give nothing back that somebody still holds.  It holds     *)
(* until FreePages merges a buddy of another order.                        *)
NoOverlap ==
  \/ crossed
  \/ /\ \A b, d \in FreeBlocks \cup held \cup HandBlocks :
          b # d => Block(b[1], b[2]) \cap Block(d[1], d[2]) = {}
     /\ FreeBlocks \cap held = {}
     /\ (FreeBlocks \cup held) \cap HandBlocks = {}
     /\ \A c, d \in Cpus : Working(c) /\ Working(d) /\ page[c] = page[d] => c = d

(* No frame is lost and none is invented: the frames boot found usable are *)
(* exactly the frames of the free, the held and the in-hand blocks.        *)
NoPageLost ==
  crossed \/ BlockPages(FreeBlocks \cup held \cup HandBlocks) = Usable

(* While a block is held, no other CPU's split or merge disturbs the       *)
(* descriptors of its pages: from each of them get_head_page finds its     *)
(* head, its order is the one granted and it is not marked free.           *)
HeldDescriptors ==
  crossed \/ \A b \in held : \A q \in Block(b[1], b[2]) :
    get_head_page(q) = b[1] /\ order[q] = b[2] /\ is_free[q] = 0

(* ref_count is the number of references less two for a held block, so the *)
(* put_page that gives back the last one finds it negative, and no other.  *)
CountsReferences ==
  crossed \/ \A b \in held : ref_count[b[1]] = refs[b[1]] - 2

(* No two buddies of one order are ever both free, not even while a block  *)
(* is split: FreePages merges as far as it can, so AllocPages does not     *)
(* fail for want of a block that lies there in two halves.                 *)
Coalesced ==
  crossed \/
  \A o \in 0 .. MAX_PAGE_ORDER - 2 : \A p \in freelist[o] :
    buddy_page_pfn(p, o) \notin freelist[o]

(* No CPU keeps the lock for ever, whatever path it leaves the call by. *)
LockReleased == []<>(lock = SPINLOCK_FREE)

(* Until a merge across orders, every step of the pool is a step of        *)
(* PageAllocator or leaves what callers hold unchanged.                    *)
ImplementsPageAllocator == AInit /\ [][crossed \/ ANext]_avars

(* page_mm.cppm:52 says of is_free "already in freelist": no page that a   *)
(* caller holds is marked free.                                            *)
FreeBitMeansInFreelist ==
  \A b \in held : \A q \in Block(b[1], b[2]) : is_free[q] = 0
=============================================================================
