# A specification of ClosureOS

ClosureOS is a small x86-64 kernel: a booting stage that brings up a tty and builds the
kernel's page table, and a kernel core that consists of memory management (a page
database, a buddy allocator, a heap of size classes), a small library (atomics,
a spin lock, intrusive lists) and a C++ runtime. This directory holds TLA+
modules of it, TLC configurations that check them on small instances, and proofs,
checked by TLAPS, about its buddy allocator, its heap, its lists, its boot memory, its frame buffer, its
serial ports and its C++ runtime for every value of the constants.

Paths below are relative to the repository's `src/`.

## 1. The system

| Component | State | Operations | Used by |
|---|---|---|---|
| Boot entry: `arch/x86/boot/boot.S`, `boot_main.cpp` | - | mode switch, tty, `boot_mm_init`, `main` | the boot loader |
| Boot memory: `arch/x86/boot/boot_mm.cpp` | current region and next page of the linear allocator, the page table, the page database, `physmem_end` | `boot_mm_page_alloc`, `boot_mm_pgtable_map`, `boot_mm_pgtable_init`, `boot_mm_page_database_init`, `boot_mm_init` | boot entry |
| Page database and buddy allocator: `kernel/mm/page_mm.cppm` | per page: type, `is_free`, `is_head`, `order`, `ref_count`; the table of free lists; a spin lock | `AllocPages`, `FreePages`, `AddPages`, `get_page`, `put_page`, `get_head_page` | the heap; `pages_pool_init` at boot |
| Heap: `kernel/mm/heap_mm.cppm` | per cache: current page, its free objects, full and partial lists, lock; per page: `kc`, `obj_nr` | `Malloc`, `Free`, `AddPool`, `RemovePool` | `operator new`/`delete` |
| Lists: `kernel/lib/list/list_main.cppm` | `prev` and `next` of each cell | init, add, delete, empty, iterate | free lists, page lists |
| Spin lock, atomics: `kernel/lib/atomic/` | a counter | `Lock`, `UnLock`, `TryLock`, atomic add, exchange, compare-and-swap | pool, caches, runtime |
| C++ runtime: `kernel/cxx_base_abi.cpp`, `kernel/main.cpp` | list of destructors, a lock; `main`'s place in the constructor table | `__cxa_atexit`, `__cxa_finalize`, `operator new`/`delete`, global constructors | `main`, global objects |
| Boot tty: `arch/x86/boot/boot_tty.c` | pixels and cursor; the port in use and the functions chosen; the registers of two serial ports | `boot_tty_init`, `boot_putchar` and what is behind it, `boot_printstr`, `boot_printnum`, `boot_printhex` | everything that prints |

**How they interact.** Boot runs alone: it maps memory, takes pages for tables
from a linear allocator, marks every descriptor of the page database with a type
and a reference count, and jumps to `main`. `mm_core_init` then gives each page
of normal memory that has no reference to the buddy allocator
(`pages_pool_init`) and sets up the caches (`kheap_pool_init`). From there on
callers on any CPU call `Malloc` and `Free`, which take the lock of one cache and,
inside it, call `AllocPages`/`put_page`, which take the lock of the pool.
`get_page`, `put_page` and the search for the head page of an address read and
write page descriptors outside the pool's lock. Before all that `boot_main` starts the tty: it
looks for a frame buffer in the boot information and tests the serial ports one after the
other by sending a byte in loopback mode, and everything printed later goes to what was
found. `main` calls the global constructors, which register destructors with the
runtime; destructors are called with the runtime's lock held. Nothing is persisted and no
messages are sent; there are no timeouts. The callers are CPUs; the code has no
scheduler and turns interrupts off at boot.

**What is hard.** Two CPUs inside the pool or the heap at once; descriptors read
without the lock while another CPU rewrites its neighbours' descriptors; reference counts that
start at -1 with a decrement that returns the old value; order arithmetic at the
largest order and at the end of the database; pages moving between the lists of
a cache; running out of memory in the middle of an allocation or of boot; memory
maps whose regions begin or end inside a frame; pages for tables taken from the
memory that is being mapped; a processor that polls a serial port which answers later, or never,
or does not exist; a screen that is not a whole number of characters wide; the list of
destructors, which is written without the lock that protects it and by the destructors that
are called from it.

**What makes each correct.**

- *Pool*: no frame is in two blocks; no frame is lost; a caller's block keeps its
  descriptors; the count frees a block with the last reference and not before;
  free buddies are merged; the lock is released on every path.
- *Heap*: what callers hold does not overlap; a cache's free list is made of the
  free objects of its current page; a freed object leads back to the right cache
  and list; a page goes back to the pool when its objects are all free.
- *Lists*: the pointers, followed either way, visit exactly the items.
- *Tty*: nothing is drawn outside the frame buffer, and what is on it is the text; a serial port
  is used only if it works and is set up as its far end expects; each character gets to
  each device once and in order; a number printed reads back; printing ends.
- *Runtime*: each destructor registered is called once, the newest first; finalization
  ends and runs on one CPU at a time.
- *Boot*: the allocator hands out fresh pages of available memory outside the
  image; every address mapped is translated as it was mapped; the pool is given
  exactly the rest of memory; failure aborts the boot.

## 2. The modules

| Module | Models | Rests on |
|---|---|---|
| `PageAllocator` | what a page pool promises: the abstract specification | - |
| `PagePool` | `PagePool`, page references, `pages_pool_init`, spin lock | `PageAllocator` (extended: same `held`, `refs`) |
| `PagePool_proofs` | theorems about `PagePool` | `PagePool`, `TLAPS` |
| `Heap` | what `Malloc` and `Free` promise: the abstract specification | - |
| `KHeap` | `KMemCache`, `KHeapPool` | `PageAllocator` as its pool; implements `Heap` |
| `KHeap_proofs` | theorems about `KHeap` | `KHeap`, `FiniteSetTheorems`, `SequenceTheorems`, `TLAPS` |
| `ListHead` | the lists, pointer by pointer | - |
| `ListHead_proofs` | theorems about `ListHead` | `ListHead`, `Induction`, `SequenceTheorems` |
| `Induction` | lemmas: induction over numbers, and what recursive functions are | `FiniteSetTheorems`, `TLAPS` |
| `BootMM` | `boot_mm.cpp`, and `boot_main`'s use of its result | - |
| `BootMM_proofs` | theorems about `BootMM` | `BootMM`, `SequenceTheorems`, `TLAPS` |
| `Terminal` | what a screen of characters promises: the abstract specification | - |
| `FrameBuffer` | glyphs, cursor and scrolling of `boot_tty.c`, pixel by pixel | implements `Terminal` |
| `FrameBuffer_proofs` | theorems about `FrameBuffer` | `FrameBuffer`, `TLAPS` |
| `Uart` | a serial port: the registers of `asm/com.h` and what the chip does | - |
| `BootTty` | `boot_tty_init`, and the way of a character to each device | `Uart` |
| `BootTty_proofs` | theorems about `BootTty` | `BootTty`, `Induction`, `SequenceTheorems` |
| `CxxAbi` | `cxx_base_abi.cpp` and the constructor table of `main.cpp` | - |
| `CxxAbi_proofs` | theorems about `CxxAbi` | `CxxAbi`, `Induction` |
| `MC*` | instances for TLC | the module named |

### PageAllocator and PagePool

`PageAllocator` has two variables, `held` (the blocks callers hold) and `refs`
(how many references to each). A block can be granted when it is aligned to its
size, made of frames the pool was given, and disjoint from what is held.
`PagePool` keeps these two variables as history of what callers were promised,
beside the state of the code, so refinement is an identity mapping and the
property `ImplementsPageAllocator` says that each step of the code is a step of
the abstract pool or changes nothing of it. `KHeap` takes its pages from the
abstract pool's `Grantable` and `Release`.

A call of `AllocPages` is the steps `AllocPages` (entry), `LockAlloc`,
`TakeBlock` or `AllocFails`, `Split` (one turn of the do loop each), `AllocDone`;
a call of `FreePages` is `LockFree`, `Merge` (a turn each), `FreeDone`. `put_page`
and `PageFree` find the head and read its order in one step *before* the lock is
taken, and leave them in the local variables `page` and `cur`, as the code does.
`AddPages` and `SkipPage` are the turns of `pages_pool_init`. The free lists are sets:
which block of several of one order is taken is left open.

`crossed` is a history variable: it becomes true when `Merge` takes a buddy of
another order, which the code's condition allows (finding `pool_crossed`).
From then on descriptors no longer describe memory. The call that did it is let
run to its end and the model stops there (`Damaged`). The invariants that are
about descriptors are stated up to that moment; `TypeOK` and `MutualExclusion`
hold after it too.

### Heap and KHeap

`Heap` knows what callers hold (`live`) and what each CPU has asked for: an answer is nullptr or as many
words as were asked for, of which nobody holds one, and only `Free` takes anything from `live`. It says nothing of
when `Malloc` may fail.

In `KHeap` each cache of `GloblKMemCacheGroup` has its object size, the order of its pages
and the number of objects in one, computed as `KMemCache::Init` does. `Malloc`
tries the caches in order (`EnterCache` takes the lock; `PopObject`; `Retire`,
the current page goes on the full list; `Refill`, from the partial list or from
the pool; `CacheFails`), then the pool itself (`PoolMalloc`, `MallocFails`).
`Free` reads `page->kc` without a lock, then either gives the block back or takes
the cache's lock (`LockFree`) and puts the object back (`FreeDone`). `AllocPages`
may fail although a block is grantable, as it may when another CPU is about to
give it back; `AddPool` and `SetKMemCaches` are in `Init`. Memory is counted in words, of which a page has
`PAGE_SIZE` (4096 bytes in the code, any number in the proofs). `pool_order` is the relation between a size and
the order `__malloc_pools` asks for: the shifts are said by what is left after them, so that no recursion is
needed; a size that takes more shifts than there are orders has no order, and `Malloc` fails.
`Asked` is the refinement mapping: a CPU on its way through `Malloc` still has its size to be given.

### ListHead

`prev` and `next` are functions from cells to cells; each operation is its
assignments, with the values they have when they are read (a cell can be its own
neighbour). `items` is history: the list as a sequence.

### BootMM

One CPU, started on any of the machines of `MCBootMM`: memory map, section
headers, frame buffer, boot information, tags. One step is one turn of a loop:
the linear allocator with its skipping of used pages, four-level walks that
allocate tables, the mapping of each section, of `.bss`, the frame buffer,
physical memory and the page database, the loading of the table, the marking of
each descriptor, and what is returned. `Fault` is where the processor touches what is not mapped and boot is at
its end, since there is no interrupt table: `boot.S` maps low memory only, so without the new table neither `mm::pgdb_base` nor
`main` can be reached; and with it the descriptor behind the last one may be in a page that no one mapped. Tables have eight entries, frames two words,
so that a region can end inside a frame. `Translated` is what the processor makes of an address with these
tables; `handed_out` and `mapped` (what each address was last mapped to) are history.

### Terminal and FrameBuffer

`Terminal` is a grid of looks and a cursor; a character fills the cell at the cursor and no other,
a full last line moves the text up, a tab and a backspace stay on their line.
`FrameBuffer` has the array of pixels, addressed as the code does by one index, the cursor
in characters, and the loop counter of a tab. Each operation is one step, but a tab, whose
spaces are a step each. `Screen` is the refinement mapping: a cell looks as its pixels
do, and the spaces a tab has still to draw are shown from its beginning, so that a
tab is one step of `Terminal` and the drawing of its spaces are stutters.
A write outside the array makes the domain of `fb` grow, so that `InBounds` notices it.
The glyphs are drawn as the code's mask goes, which
is not as the font means it (see below); `Terminal` says nothing of what a glyph looks like.

### Uart and BootTty

`Uart` is the chip, as far as the code uses it: registers behind DLAB, FIFO clearing, loopback, one character in
the transmitter. It is not part of the repository. A port is working, faulty (what
is looped back does not arrive) or absent (reads are all ones). `BootTty` is the processor,
one port access a step, beside the two chips (`Transmit`), which may be slow: each step
of `boot_tty_init`, the polling of the line status
register before each byte, which devices a character goes to, and the digits of numbers.
`asked`, `shown` and `number` are history.

### CxxAbi

The list of destructors as pointers, and each read and write of it by any number of
CPUs: `Atexit`, `FillInfo` (reads the head), `LinkInfo` (writes it) without a lock; `Finalize`, `Lock`,
the turns `FindInfo` or `KeepInfo`, `Unlink`, `CallDtor`, `DtorReturns`, `UnLock`. While a destructor
runs its CPU may call `__cxa_atexit`, or `__cxa_finalize`, which then waits for itself (`stuck`).
`main` walks the constructor table beside that; a constructor's
return value is anything. A write that rests on a stale read sets `raced`, and the
model stops there (`Damaged`): the properties of the list are stated up to it.

## 3. The runs

| Run | Instance | Shows |
|---|---|---|
| `pool_two` | 2 CPUs, 4 pages, orders 0..2, at most 2 references | all interleavings of entry, lock, loop turns and exit of two calls: exclusion, no overlap, descriptors of held blocks, exact counts, lock always released, refinement |
| `pool_holed` | 1 CPU, 13 descriptors with two buddies of the largest order, a hole, a frame used at boot, and a last frame with its buddy past the end | no frame lost or invented; free buddies merged, up to the largest order; types |
| `pool_crossed` | 1 CPU, 4 pages | finding: merge with a buddy of smaller order |
| `list_walks` | 2 lists, 4 nodes | walks in both directions are the items, and `list_empty` is right |
| `heap_two` | 2 CPUs, 2 caches over one pool of 4 pages: objects of 3 words in pages of 7, objects of 10 in four pages; requests of 3 and of 12 | exclusion, disjoint allocations, free lists, counts, findability of what is in use, falling through to the next cache and to the pool, locks released but by a CPU in `AllocPages`, refinement of the abstract heap |
| `heap_leak` | 1 CPU, 1 cache | finding: a page all of whose objects are free stays allocated |
| `boot` | 52 machines | fresh pages, translation, image kept, the pool's share, reachability, end of boot |
| `boot_abort` | machines of whole frames | finding: boot goes on after a failure, and faults |
| `tty_screen` | a screen of 9 by 7 pixels, glyphs of 2 by 2 | nothing written outside the screen, the margin stays blank, the pixels implement the screen of characters |
| `tty_devices` | with and without a frame buffer, each of two ports absent, faulty or working, interrupts on or off, a stale byte received or not | a port in use works and is set up, no character is lost, doubled or sent elsewhere, the text is on every device, numbers read back, printing ends |
| `tty_home` | the same | finding: the cursor is not sent back home |
| `abi_atexit` | 2 CPUs, 3 entries, 2 handles, a table of constructors with a null entry | exclusion, a sound list, each destructor called once and in reverse order, finalization ends |

**Bounds.** `MAX_PAGE_ORDER` (11 in the code) is 3: a block can be split and merged over two
levels, so a loop takes zero, one and two turns; two buddies of the largest order are in
`pool_holed`. Four pages and two CPUs hold every relation between two blocks: same,
buddies, one inside the other's buddy. `MaxRefs` (2) is one reference
beyond the first; the theorems have no such smallness. `MaxLive` bounds what
callers of the heap hold when they ask for more: with 2, and two CPUs asking at once, up to three things are
held, one more than a page has objects, so that pages of a cache are current, retired and emptied while others are in
use. Either the small objects have pages or the large ones, but a cache may be refused a page at any time, so that
`Malloc` falls through both. That a retired page gets an object back which is neither its first nor
its last takes more objects a page; that case changes `obj_nr` only, and is in the proofs. `Requests` has one size per
case of `Malloc`: fits a cache, and fits none. In `boot`, `PT_ENTRIES`
of eight makes every level of a walk branch, and the machines `LittleMaps` stop
memory at each frame in turn so that every allocation of the boot is the one that
fails. One machine has a region of half a frame behind a database that fills its last page. `Frames` is the highest frame a map reaches, and a few more.

The screen of `tty_screen` has 4 by 3 cells, a column and a line of pixels too many; a byte has two
bits (`CHAR_BIT`), so that a glyph has columns on both sides of the mask's turning point; a tab is of
two cells, so that it is cut short by the end of the line and is not; and code 34 lies past the end
of the font. The proofs have none of these bounds. In `tty_devices` the strings have a carriage
return, a new line and a byte above 127, the numbers are zero, of one, two and three digits, and negative;
`MaxText` (6) leaves room for a call on every machine and for several where the banner is short. Three entries in `abi_atexit` are one kept,
one called and one registered meanwhile; `MaxInfo` (3) is how many are registered in a
behaviour, and two CPUs give every pair of roles: two that register, two that finalize, one of each.

Deadlock is checked in every run. The modules that can stop say so by an
action of their own: `Damaged` in `PagePool` and `CxxAbi`, `Stopped` in `BootMM`, `Rest` in
`BootTty` and `CxxAbi`, where nobody has to call anything any more. `ListHead` is used up to renaming of
cells (symmetry; no liveness property is checked there).

**Fairness.** `FairSpec` of `PagePool` and `KHeap` assumes weak fairness for each CPU
*inside* a call: interrupts are off, there is no scheduler to take the CPU away, and
each turn of a loop is finite code. Nothing is assumed of callers: nobody has to
call, and a block need not be given back. A CPU that spins for a lock has a step
enabled only while the lock is free; the lock is unfair (a compare-and-swap in a
loop), and weak fairness does not promise that the CPU ever gets it. So
`LockReleased` of the pool says that its lock is free again and again, and no property says that a
waiter gets in. In the heap that matters to others: a cache whose objects are used up calls `AllocPages`, and so waits for
the pool's lock, with its own lock held (`heap_mm.cppm:203`). `FairSpec` of `KHeap` therefore leaves out a CPU that is
in `AllocPages` (`CallsAllocPages`), and its `LockReleased` says that each cache is, again and again, unlocked
or held by such a CPU: no other path keeps the lock. `BootMM` runs alone and assumes `WF_vars(Next)`. In `BootTty` there is one processor with interrupts off
that goes on (`WF_vars(Driver)`), and a chip sends what it holds (`WF_vars(Transmit(p))`): the polling ends
because of the second. It does not end on a machine where no port was found, `boot_clear_screen` sends to I/O port 0 nevertheless
and I/O port 5 reads without bit 0x20; `PrintingEnds` excepts that state (`boot` at "banner", no `com_base`) and no other. In `CxxAbi` a CPU goes on with code it
began, `WF_vars(~raced /\ Step(c))`, up to the stale write; it need not ever get the lock, and
`FinalizeEnds` is about a CPU that has it.

**Mutants.** Beside the definitions that model the code stand variants of them
(commented "Mutant of ..."), a plausible slip each: a condition not tested, a
reset left out, an order of one too many. With the variant in its place the
property named beside it in `PROJECT.json` is violated, so each property depends on
what the code does.

## 4. What is proved

| Module | Theorem | Property |
|---|---|---|
| `PagePool_proofs` | `Exclusion` | `MutualExclusion` |
| | `Invariance` | `IInv`, the inductive invariant |
| | `TypeCorrect` | `TypeOK` |
| | `BlocksApart` | `NoOverlap` |
| | `HeldDescribed` | `HeldDescriptors` |
| | `ReferencesCounted` | `CountsReferences` |
| | `Implementation` | `ImplementsPageAllocator` |
| | `FramesKept` | `NoPageLost` |
| | `FullyMerged` | `Coalesced` |
| `KHeap_proofs` | `Invariance` | `IInv`, the inductive invariant |
| | `TypeCorrect` | `TypeOK` |
| | `MemoryApart` | `LiveDisjoint` |
| | `FreelistsRight` | `FreelistIsCurrent` |
| | `ObjectsCounted` | `CountsObjects` |
| | `FreeFinds` | `InUseIsFindable` |
| | `CachesExclusive` | `CacheExclusion` |
| | `KeepsPromise` | `ImplementsHeap` |
| `ListHead_proofs` | `Invariance` | `IInv`, the inductive invariant |
| | `VisitsItems` | `WalksAreItems` |
| `BootMM_proofs` | `Invariance` | `IInv`, the inductive invariant |
| | `BootTypes` | `TypeOK` |
| | `PagesFresh` | `FreshPages` |
| | `AddressesTranslated` | `Translates` |
| | `ImageUntouched` | `ImageKept` |
| | `PoolComplete` | `PoolGetsTheRest` |
| | `KernelReaches` | `KernelCanReach` |
| | `PoolIsReady` | `PoolBegins`: boot leaves what `PagePool` begins with |
| `FrameBuffer_proofs` | `DrawsInside` | `InBounds` |
| | `MarginStaysBlank` | `MarginBlank` |
| | `DrawsCharacters` | `ImplementsTerminal` |
| `BootTty_proofs` | `PreparedAlways` | `LinePrepared` |
| | `TextArrives` | `WireGetsText` |
| | `TtyTypes` | `TypeOK` |
| | `ScreenShowsText` | `TextIsSeen` |
| | `NumbersReadBack` | `NumberReadsBack` |
| `CxxAbi_proofs` | `FinalizesAlone` | `Exclusion` |
| | `RuntimeTypes` | `TypeOK` |
| | `ListStaysSound` | `ListSound` |
| | `CallsEachOnce` | `EachCalledOnce` |
| | `CallsInReverse` | `CalledInReverse` |

### The page pool

For every set of CPUs, every database size, every set of usable frames and every bound on
references. Assumptions: `MAX_PAGE_ORDER` is in 1..11 (the code has 11), the pages of the
database are numbered from 0, the usable frames are normal memory in it, the boot
CPU is a CPU, and callers take at most `MaxRefs` references (any number).

None of these properties is inductive alone. That a merge or a split keeps
blocks apart depends on what the descriptors say of the buddy; that the
descriptors of a block stay as they are depends on no other block sharing its
pages. The inductive invariant is

    IInv == TypeOK /\ MutualExclusion /\ InPlace /\ (crossed \/ Described)

`InPlace` says that a page in the hand of a CPU is a page of the database, and that after
a merge across orders nobody is inside `AllocPages`. `Described` says of each block, free, held, waiting for
the lock or in the hand of the CPU inside it, that it is `Good`: aligned, its first
page is a head, the others are not, each has its order and its free bit; that every
page which looks like a free head to `Mergeable` is on a free list
(`HeadsListed`); how far a split has come (`SplitsDown`); and which single pages boot
has not yet added (`Booting`). From `Good` it follows that two blocks that share a
page are the same block (`Shared`, `Apart`): the head and order found from
the shared page are one and the same. This is what proves `NoOverlap`, and it is how the
lock-free reads of `put_page` are justified: nothing that another CPU does under the lock
touches a descriptor of a held block. There is one lemma per action (`...Keeps`);
`Steps` puts them together; `Invariance` is the temporal step.

`crossed \/ ...` is not decoration: after a merge across orders the properties fail,
and `pool_crossed` shows a held page marked free. The theorems say that this
missing comparison is the *only* way the pool can go wrong in these respects.

Two theorems are about the blocks that are there rather than about what their descriptors say,
and have inductive invariants of their own on top of `IInv`. `FramesKept` rests on
`NoneLost`: every usable frame is in a listed block, in a held one, or carried by a CPU that
works on it; there is one lemma per action for the block that changes hands. That no frame is
invented is already in `IInv`. `FullyMerged` rests on `Merged`: `IInv` says of a page that *looks* like a
free head that it is listed, and not that a listed page looks like one; with
`FreeHeads`, which says that, `FreePages` merges whenever the buddy is listed. `BuddiesApart` then holds even in the
middle of a split, because the half that is listed has its buddy in the CPU's hand.

### The kernel heap

For every set of CPUs and of pages, every size of a page, every list of object sizes above zero and
every set of requests. `HeapAssumption` says just that. `CacheAssumption` says that the order of each
cache's pages is an order of the pool; of the code's sizes, two pages and less, it is 3 at most and `MAX_PAGE_ORDER` is 11.
The pool is the abstract one, which `PagePool` implements until a merge across orders.

    IInv == TypeOK /\ MemInv /\ ListInv /\ LockInv

No one of the properties is inductive alone, and each needs most of the others. `MemInv` says what memory is
whose: granted blocks are apart (`HeldApart`); a page names a cache only while it is the
first page of a block sliced for that cache (`SlabsHeld`); what a caller holds is an object of a slab that is large
enough or a block from the pool with both its references (`LiveFound`); a CPU that has read `page->kc` and waits for the
lock has an object of that cache (`FreeingFound`), and each address has one owner, a caller or
such a CPU (`OneOwner`). That a slab page keeps both references while it is linked
(`ListsOfSlabs`) is why it is never given up under an object in use. `ListInv` relates the lists to what is in use:
a slab page that is linked nowhere has no object in use (`Linked`), `obj_nr` is the number of
objects not in use (`Counts`), and the free list is that set (`FreelistIsCurrent`), which makes
the address `PopObject` hands out one that nobody holds. `LockInv` ties the counters to the program counters.

Two facts of arithmetic carry `MemoryApart`: an address in a slab page is an object of that page
and no other, and two different objects differ by an object size at least, with any
size, also those that do not divide a page (`page_obj_nr` rounds down). `CountsObjects` and
`FreelistIsCurrent` rest on the cardinality of a slab's objects and of the set of a sequence without
repetition, from the library's theorems. `KeepsPromise` then needs of each step only what `live` and
the program counter become: `PopObject` and `PoolMalloc` are `Get`, and it is `LiveDisjoint` in the
*next* state that makes them so (`NewIsUnheld`).

The finding `heap_leak` shows here too: with `refs` at 2 the one `put_page` of `__internal_obj_free` never
gives the page back. After a repair of the leak `held` would shrink, and `SlabsHeld` and `FreeingFound` would
rest on `Counts`: the page goes with its last object, when nobody has one of it in hand.

### Induction and recursive functions

A walk along pointers, the text without its carriage returns, the digits of a number and the number that
digits stand for are recursive functions, and what such a function yields is shown by induction. The
library's induction theorems take an operator, which the installed provers cannot instantiate. `Induction`
states them for a *set* of numbers, which they can: `NatSetInduction` is proved from the
cardinality of finite sets (the numbers up to `n` that are missing would be as many as those without `n`), and
`UpToInduction` follows. `IterationExists` and `RecursionExists` say that a function with the recursive
definition exists, which a recursive definition in TLA+ (a CHOOSE) does not promise by itself.

### The lists

For every set of nodes and of heads; the assumption is that no head is a node.

    IInv == TypeOK /\ Apart /\ Chained

`Chained` says of neighbours on a list, the sentinel standing before the first and after the last, that they
point at each other; `Apart` that no node is twice on a list or on two. The second
is needed for the first: a link or an unlink writes to cells of one list, and nothing else may be at those
cells. What an operation does to the sequence (`InsertedAt`, `RemovedAt`) is compared with its four
assignments place by place, once for all the operations that link (`LinkKeeps`) and all that unlink
(`UnlinkKeeps`). A walk is then at the `i`-th cell after `i` steps (`WalkFollows`), in either direction, and
back at the sentinel after the last.

### Boot memory

For every set of machines, any number of frames, and any sizes of a frame, of a table and of a page of the
database, whatever the map, the sections, the screen and the boot information are, as far as four assumptions go.
`SizesAssumption`: sizes are above zero and the kernel is loaded at a page.
`LayoutAssumption`: the page database lies above the direct mapping area and has virtual memory for every
frame, as `virt_layout.cppm` has it. `MachineAssumption` is about the boot loader, whose word the code takes: no two
available regions overlap, and what it asks to be mapped is within what page tables can address. Reserved
regions may overlap anything, regions may come in any order and begin and end anywhere. `ImageAssumption` is about
the linker: of the allocated sections, those whose type has the bit of `SHT_PROGBITS` are of that type, and begin at pages of
the file, the first behind the ELF header's page, every other where one ends. `linker.lds` aligns them all and
`CMakeLists.txt` links with pages of 4096 bytes. TLC evaluates the four on the machines of `MCBootMM`.

    IInv == Types /\ Ranges /\ Region /\ Handed /\ Tree /\ Mapping /\ Database /\ Marks

*The allocator.* `Region` says that it stands at a page boundary inside an available region, with the region given up
exactly when it is used up; `Handed` that the pages handed out are the frames it has passed, in
all regions before and in part of the current one, except those in use. A page is then fresh because
each step passes one frame it had not passed (`Takes`), and available regions do not overlap (`Apart`).

*The tables.* `Tree` is what makes one mapping leave the others alone. `At(v, l)` is the entry on
the way of address `v` at level `l`, and `Block(v, l)` the part of memory a table there maps. `Owned`: every table on a
way is a page that was handed out, so a new one is none of them; `OnePlace`: two ways share a table only
at one level and in one block; `OnPath`: the walk at hand stands at the table its address is mapped by.
From `OnePlace` it follows that an entry written is seen by the addresses of its block and by no other
(`OneEntry`), and that a table linked in while it is still empty changes no translation (`NewTableKeeps`), for which
it must have been cleared.

*What is mapped.* `Mapping` follows the loop over the memory map, `Database` the loop over the page database: what the
turns so far have mapped is mapped, and the page in the call at hand is the one still missing. The two last areas do
not overlap (`LayoutAssumption`), and `KernelReaches` needs that: sections and the screen are mapped before, and may be
overwritten. `Marks` says what descriptors the loops of `boot_mm_page_database_init` have marked so far and
that nothing of the image counts as free.

*The image.* `addr_is_in_used_range` looks for each section from its offset in the file, which is one page above
where it lies. `ImageUntouched` holds all the same: the first page of a section lies in what is looked at
for the section before it, which reaches a page too far (`ImageUsed`). The first page of all is in nobody's range: it has the
multiboot header only (`boot.S:13`, the code begins at a page of its own), which nobody reads again, and `ImageFrames` leaves
it out. Were there a gap between two sections, the first page of the second would be handed out.

*The descriptors written.* `physmem_end` is at least the end of every region as the direct mapping reckons it, and the frame
of a descriptor written begins before such an end (`Fits`). From there to the rounded
`pgdb_page_nr` one descriptor at most is lost, and none when regions are a number of frames long. All the others
have a page that is mapped, so that only this one can make `Fault` possible once the table is loaded, and
only when it would be the first of its page (`OnePastEnd`, `FaultFits`). `PoolIsReady`
then says that boot leaves what `PagePool` assumes of its input in `PgdbAssumption` and `Init`, with `PoolFrames` as its `Usable`;
the fields that `BootMM` does not have (`is_free`, `is_head`, `order`) are zero because the pages of the database are cleared.

`PoolComplete` is about maps of whole frames in ascending order only, because `boot_mm_page_database_init` takes everything
below the allocator's place for used (`PassedBelow` says that this is right on such maps). `PoolIsReady` asks for whole lengths; the other theorems have
no such condition.

### The frame buffer

For every size of the screen, of the font and of a byte, every glyph table and every set of characters.
The assumption is that the screen has room for one character, which `boot_init_font` does not check.

`InBounds` is inductive together with the fact that a tab is only drawn on a screen that was
cleared. What it needs is that the pixel of a cell's column and line is inside
the screen (`PointInCells`), from the two divisions that give the number of columns and rows. `MarginBlank` follows
because a drawn pixel is not in the margin and the margin is scrolled to the margin only.

`DrawsCharacters` needs more: that the index
`x + y * boot_fb_width` determines cell, column and line (`LocUnique`, a division with remainder twice,
`OneForm`), so that a glyph drawn changes one cell (`PaintedCell`) and scrolling by pixels moves whole
cells (`ScrolledCell`). Each operation is then a step of `Terminal`; the beginning of a tab is
`Tab`, and the drawing of its spaces leaves `Screen` as it is.

### The serial ports

For every text, number, address and bound on the calls, and every combination of ports. `Lines` says
what both chips are while `boot_init_com` looks for one: `After(u, n)` is a port
after the first `n` writes of `Setup` (the test byte stays inside, because
loopback is on by then), `Used` the port that was chosen, `Quiet` a port from which nothing leaves. It is inductive,
and `LinePrepared` follows: only a working chip returns the test byte, and none of the
later writes touches a register but the transmitter's, because DLAB is off.

`TextArrives` says nothing of which bytes clear a screen (see finding 4): the text is what comes behind them. It adds `Text`: what was sent, what the chip holds and what is
still to be sent are together what was printed (`OnItsWay`), and the chip is only given a
byte when it holds none.

`ScreenShowsText` adds `Devices` (which of the functions `putchar` points to on which machine), `Chars`
(bytes and 16-bit codes, which is most of `TtyTypes`) and `Seen`, the property
without its first half. It is inductive because the port is chosen before anything is printed, and because
`WithoutCR` of a text and one more character is what `ToFrameBuffer` makes of it (`WithoutCRGrows`).

`NumbersReadBack` has two halves. `DigitsStand` says what `Digits` yields for every number and both bases: it
reads back as the number, and begins with a zero only if it is one digit, by induction over all smaller
numbers, since a number has the digits of its quotient and one more. `Printing` says that
a number being printed is partly printed and partly in `todo` (`Partly`), and that `Code` changes none
of its characters, all of them bytes. When `todo` is empty the two halves meet.

### The C++ runtime

For every number of CPUs and handles and every finite set of entries; `IInv` is `TypeOK /\ Exclusion`.
`RuntimeTypes` says in particular that no CPU follows
`next` from anything but an entry: `At`, `Unlink` and `DtorReturns` are applied to locals that
are entries wherever the program counter says they are used. `FinalizesAlone` needs
no more than the counter's meaning: one step enters the loop, when the lock is 0, one leaves it, and a
destructor, whatever it calls, stays inside.

The list has an invariant of its own on top:

    LInv == raced \/ Sound
    Sound == Numbers /\ Fresh /\ Chain /\ Position /\ Passed /\ InReverse /\ Once

Registrations are numbered. `Chain` says that the head is the linked entry with the largest number and
that `next` leads from each to the one with the next smaller: the list is in the order of the numbers, so that
nothing need be said of sequences. `Fresh` and `Numbers` say whose number is whose; `Position` where the
CPU that finalizes is, `Passed` that it kept only entries that are not for it, `InReverse` and `Once` what it has called.
The hard steps are the three that write the list: `LinkInfo` puts the largest number in front, also
while a finalization stands further on; `Unlink` takes one out of the middle, and `pdtor` must still be the
place that leads to it; `DtorReturns` goes on from an entry whose neighbours a destructor may have changed.
A write that rests on a stale read breaks `Chain`, and the model says so (`raced`): the theorems say that this
race is the *only* way the list can go wrong.

`ListStaysSound` needs that the list ends. `Walk` goes from number to smaller number, so it does not come
back, and would otherwise pass more entries than there are; what it passes are
all the linked entries, since between a number and the next smaller on the list there is no other (`ListedLinked`).

### Model-checked only

Every invariant and every action property that the runs check is proved. What is left is liveness:
`LockReleased` of the pool and of the heap, `Ends`, `PrintingEnds` and `FinalizeEnds` rest on fairness and so on
ENABLED, which is outside what TLAPS proves.

## 5. Findings

Each is a run whose property TLC finds violated.

1. `__free_pages` does not compare the buddy's order with its own
   (`page_mm.cppm:303`): the merged block can cover pages that are held.
2. `AllocPages` and `get_page` take two references, `Free` gives one back
   (`heap_mm.cppm:289`): no page of a cache returns to the pool, and no block that came
   from the pool itself.
3. `boot_mm_init` prints the error of `boot_mm_pgtable_init` and goes on (`boot_mm.cpp:511`), to a page database that
   was never mapped: it faults at the first descriptor (`boot_mm.cpp:416`), and `boot_main` does not get to abort.
4. The clear-screen sequence for a serial terminal says "cursor back home" of its second half
   (`boot_tty.c:241`) and sends the first half again.

Seen while modelling, with no run of their own:

*Memory.* `__internal_obj_free` puts a page with free objects back on the *full* list
(`heap_mm.cppm:286`) and nothing is ever put on `partial`: the objects are lost until the whole
page is free. The page database marks partial pages of available memory as free
(`boot_mm.cpp:428`), though `boot_mm.cpp:54` says they are given up. The number of descriptors is rounded down
(`boot_mm.cpp:364`) while a last frame covered in part still gets one, past the end of
the array (`KernelCanReach` says that it is one at most); when the database fills its last page boot faults
there. On a memory map that is not in ascending order everything below the allocator's
position counts as used, and whole regions are withheld from the pool (which is why
`PoolGetsTheRest` is stated for ascending maps). The buddy of a block at the end of the
database is read past its last descriptor, which is harmless while the rest of
that page is zero and not when the database fills its last page (not modelled).
`page_mm.cppm:56` says of `ref_count` "-1 for free", and a block held with one reference is at -1 as well: `is_free` tells them apart.
`pool_nr` is compared with its limit in `AddPool` and never counted. `Free(nullptr)`, which `operator delete`
passes on, reads the descriptor of an address outside the direct map.

*Lists.* The loop condition of `list_head_for_each_entry` is inverted (`list_main.cppm:87`): it visits no
item, and the sentinel of an empty list. It has no caller.

*Tty.* All in `boot_tty.c`. `boot_clear_screen` is never switched to the device that was found (502, 545): with a frame
buffer alone it polls I/O port 5 and writes to port 0. The mask of a glyph returns to the highest
bit a column too late (92-95), so that a glyph wider than a byte repeats a bit there. The type, depth and pitch of the frame buffer are taken for granted (143),
and so is that a character fits on it (191). A carriage return is not given to the frame buffer when
there is a serial port too (321). The test byte is read back without waiting for it: a working
port that is slow counts as faulty and stays in loopback mode. The smallest `int64_t` has no negative
for `boot_printnum` to print.

*Runtime.* `__cxa_atexit` writes the list without the lock (`cxx_base_abi.cpp:21`); a stale write loses or
repeats entries. `__cxa_finalize` calls destructors with its lock held (44), so that one that calls it waits for
ever. `main.cpp:21` takes the result of constructors, which are compiled as functions that return nothing: garbage above
zero skips the remaining constructors without a word, garbage below it halts the kernel.

## 6. Not modelled

- **`boot.S`**: straight-line set-up; nothing interleaves and nothing is decided.
- **`boot_str.c`**: copying, filling and comparing bytes in single loops, with no state.
- **`TryLock`, `list_head_for_each_entry`**: no caller. **`RemovePool`**: no caller; `AddPool` runs
  only before the heap is used.
- **Wrap-around of 64-bit addresses** in `boot_mm.cpp`: those checks print and halt.
- **x86 memory ordering**: the atomics use locked instructions, taken as sequentially
  consistent; the plain reads of descriptors outside the lock concern pages that
  nobody writes (that is the theorem `HeldDescribed`). The unlocked accesses of the list of destructors are
  single reads and writes of a pointer in `CxxAbi`.
- **Constants, structures, build files, scripts**: no behaviour.

## 7. Plan

Done: 1. `PageAllocator`, `PagePool` and its runs; 2. `ListHead`; 3. `KHeap`; 4. `BootMM`;
5. `PagePool_proofs`; 6. `CxxAbi` and its proofs; 7. `Terminal`, `FrameBuffer`, the refinement and its
proof; 8. `Uart`, `BootTty` and its proofs; 9. the frames of `PagePool_proofs`; 10. `Heap`, the refinement, and `KHeap_proofs`;
11. `Induction`, `ListHead_proofs`, the list of `CxxAbi`, and what is printed by `BootTty`; 12. `BootMM_proofs`.

Next, in order:

1. `KHeap`: `AddPool` and `RemovePool` as actions, with pools that go away.
2. Composition: `BootMM` and `PagePool` in one module (`PoolIsReady` says what one hands to the other);
   the heap over the detailed pool instead of the abstract one.

## 8. Running it

    tlc -config MCPagePool_two.cfg MCPagePool     # a run: <module>_<run>.cfg
    tlapm PagePool_proofs.tla                     # the proofs: *_proofs.tla

`PROJECT.json` lists the runs, the lines of the repository each definition models, the
hazards and the findings.
