-------------------------------- MODULE KHeap --------------------------------
(***************************************************************************)
(* The kernel heap of src/kernel/mm/heap_mm.cppm: KHeapPool::Malloc and    *)
(* Free over the size classes (KMemCache) and over whole blocks of pages.  *)
(*                                                                         *)
(* The page pool below is what PageAllocator promises: AllocPages grants a *)
(* grantable block or fails (it may fail although one is grantable, when   *)
(* another CPU is about to give it back), get_page and put_page add and    *)
(* give back a reference.  PagePool shows that the pool keeps that promise *)
(* and that get_head_page finds the block of any address in it.            *)
(*                                                                         *)
(* Memory is counted in words, PAGE_SIZE of them in a page (in the code    *)
(* 4096, a word being a byte).  The list of free objects, chained through  *)
(* the objects themselves in the code, is the sequence of their addresses; *)
(* the page lists full and partial are the sets of their pages.            *)
(***************************************************************************)
EXTENDS PageAllocator, FiniteSets, SequencesExt

CONSTANTS
  Cpus,
  PAGE_SIZE,          \* the words in a page
  kobj_default_size,  \* the object size of each cache, ascending
  Requests,           \* bound: the sizes that Malloc is called with
  MaxLive             \* bound: what callers hold at the same time

Caches == DOMAIN kobj_default_size

ASSUME HeapAssumption ==
  /\ PAGE_SIZE \in Nat \ {0}
  /\ kobj_default_size \in Seq(Nat \ {0})
  /\ Requests \subseteq Nat
  /\ MaxLive \in Nat

VARIABLES
  kc,        \* page->kc of each page: its cache, 0 for nullptr
  obj_nr,    \* page->obj_nr of each page
  current,   \* of each cache: the page it allocates from, or NoPage
  freelist,  \* of each cache: the free objects of current
  partial, full,
  lock,      \* of each cache: its SpinLock's counter
  live,      \* what callers hold: [addr, need], need words from addr on
  pc,        \* where each CPU is
  size,      \* its local: the size asked for
  i,         \* its local: the cache it is at
  obj        \* its local: the object it frees

slabs == <<kc, obj_nr>>
caches == <<current, freelist, partial, full>>
locals == <<size, i, obj>>
vars == <<held, refs, slabs, caches, lock, live, pc, locals>>

NoPage == -1

(* KMemCache::Init: the order of a cache's pages, and the objects in one. *)
order(k) ==
  kobj_default_size[k] \div PAGE_SIZE + (IF kobj_default_size[k] >= PAGE_SIZE THEN 1 ELSE 0)

(* Of the sizes of the code, of which the largest is two pages, the order  *)
(* is 3 at most.                                                           *)
ASSUME CacheAssumption == \A k \in Caches : order(k) \in Orders

page_obj_nr(k) == (PAGE_SIZE * Pow2(order(k))) \div kobj_default_size[k]

page_to_virt(p) == p * PAGE_SIZE

(* get_head_page(virt_to_page(a)): the first page of the block that a is in. *)
HeadPage(a) == (CHOOSE b \in held : a \div PAGE_SIZE \in Block(b[1], b[2]))[1]

Object(p, k, j) == page_to_virt(p) + (j - 1) * kobj_default_size[k]
Objects(p, k) == {Object(p, k, j) : j \in 1 .. page_obj_nr(k)}

(* The chain that __page_obj_slicing builds: it starts at the last object. *)
Sliced(p, k) == [j \in 1 .. page_obj_nr(k) |-> Object(p, k, page_obj_nr(k) + 1 - j)]

(* The order of __malloc_pools: as often as n can be shifted before it is 0. *)
Shifts(n, s) == n \div Pow2(s) = 0 /\ (s > 0 => n \div Pow2(s - 1) # 0)

(* Mutant of pool_order: the second rounding is left out. *)
pool_order_low(need, o) == Shifts(need \div (2 * PAGE_SIZE), o)

(* The order o that __malloc_pools asks for: the shifts of size, then one  *)
(* more if that is too small.  A size that takes more shifts than there    *)
(* are orders asks for an order that no pool has.                          *)
pool_order(need, o) ==
  \E s \in Orders :
    /\ Shifts(need \div (2 * PAGE_SIZE), s)
    /\ o = IF Pow2(s) * PAGE_SIZE < need THEN s + 1 ELSE s

Goto(c, from, to) == pc[c] = from /\ pc' = [pc EXCEPT ![c] = to]

(* The return of a call: its locals are gone. *)
Return(c, from) ==
  /\ Goto(c, from, "idle")
  /\ size' = [size EXCEPT ![c] = 0]
  /\ i' = [i EXCEPT ![c] = 0]
  /\ obj' = [obj EXCEPT ![c] = 0]

(* After mm_core_init: the pool is filled, the caches are empty. *)
Init ==
  /\ held = {}
  /\ refs = [p \in Usable |-> 0]
  /\ kc = [p \in Usable |-> 0]
  /\ obj_nr = [p \in Usable |-> 0]
  /\ current = [k \in Caches |-> NoPage]
  /\ freelist = [k \in Caches |-> <<>>]
  /\ partial = [k \in Caches |-> {}]
  /\ full = [k \in Caches |-> {}]
  /\ lock = [k \in Caches |-> 0]
  /\ live = {}
  /\ pc = [c \in Cpus |-> "idle"]
  /\ size = [c \in Cpus |-> 0]
  /\ i = [c \in Cpus |-> 0]
  /\ obj = [c \in Cpus |-> 0]

(***************************************************************************)
(* KHeapPool::Malloc: the caches whose objects are large enough, smallest  *)
(* first, and a block of the pool when none of them has an object.         *)
(***************************************************************************)
Malloc(c, need) ==
  /\ Cardinality(live) < MaxLive
  /\ Goto(c, "idle", "caches")
  /\ size' = [size EXCEPT ![c] = need]
  /\ UNCHANGED <<held, refs, slabs, caches, lock, live, i, obj>>

(* Mutant of Fitting: the size asked for is not compared. *)
FittingAny(c) == {k \in Caches : k > i[c]}

(* The caches that the loop of __malloc_caches has yet to try. *)
Fitting(c) == {k \in Caches : k > i[c] /\ size[c] <= kobj_default_size[k]}

(* Mutant of EnterCache: the lock is taken although it is held. *)
EnterCacheUntested(c, k) ==
  /\ k \in Fitting(c) /\ \A m \in Fitting(c) : k <= m
  /\ lock' = [lock EXCEPT ![k] = 1]
  /\ Goto(c, "caches", "obj_alloc")
  /\ i' = [i EXCEPT ![c] = k]
  /\ UNCHANGED <<held, refs, slabs, caches, live, size, obj>>

EnterCache(c, k) ==
  /\ k \in Fitting(c) /\ \A m \in Fitting(c) : k <= m
  /\ lock[k] = 0
  /\ lock' = [lock EXCEPT ![k] = 1]
  /\ Goto(c, "caches", "obj_alloc")
  /\ i' = [i EXCEPT ![c] = k]
  /\ UNCHANGED <<held, refs, slabs, caches, live, size, obj>>

(* Mutant of PopObject: current->obj_nr is not counted down. *)
PopObjectUncounted(c) ==
  LET k == i[c]
  IN  /\ Return(c, "obj_alloc")
      /\ freelist[k] # <<>>
      /\ live' = live \cup {[addr |-> Head(freelist[k]), need |-> size[c]]}
      /\ freelist' = [freelist EXCEPT ![k] = Tail(@)]
      /\ lock' = [lock EXCEPT ![k] = 0]
      /\ UNCHANGED <<held, refs, slabs, current, partial, full>>

(* __internal_obj_alloc, first case: the head of the free list. *)
PopObject(c) ==
  LET k == i[c]
  IN  /\ Return(c, "obj_alloc")
      /\ freelist[k] # <<>>
      /\ live' = live \cup {[addr |-> Head(freelist[k]), need |-> size[c]]}
      /\ freelist' = [freelist EXCEPT ![k] = Tail(@)]
      /\ obj_nr' = [obj_nr EXCEPT ![current[k]] = @ - 1]
      /\ lock' = [lock EXCEPT ![k] = 0]
      /\ UNCHANGED <<held, refs, kc, current, partial, full>>

(* Mutant of Retire: the current page is not put on the full list. *)
RetireUnlinked(c) ==
  LET k == i[c]
  IN  /\ pc[c] = "obj_alloc" /\ freelist[k] = <<>>
      /\ current[k] # NoPage
      /\ current' = [current EXCEPT ![k] = NoPage]
      /\ UNCHANGED <<held, refs, slabs, freelist, partial, full, lock, live, pc, locals>>

(* The current page has no object left and goes on the full list. *)
Retire(c) ==
  LET k == i[c]
  IN  /\ pc[c] = "obj_alloc" /\ freelist[k] = <<>>
      /\ current[k] # NoPage
      /\ full' = [full EXCEPT ![k] = @ \cup {current[k]}]
      /\ current' = [current EXCEPT ![k] = NoPage]
      /\ UNCHANGED <<held, refs, slabs, freelist, partial, lock, live, pc, locals>>

(* A page of the partial list becomes current; page->freelist is what      *)
(* slicing left there.  No line of the code links a page on that list.     *)
UsePartial(k) ==
  /\ \E p \in partial[k] :
       /\ current' = [current EXCEPT ![k] = p]
       /\ freelist' = [freelist EXCEPT ![k] = Sliced(p, k)]
       /\ partial' = [partial EXCEPT ![k] = @ \ {p}]
  /\ UNCHANGED <<held, refs, slabs>>

(* Mutant of UseNewPage: slicing does not set obj_nr. *)
UseNewPageUncounted(k) ==
  \E p \in Usable :
    /\ Grantable(p, order(k))
    /\ held' = held \cup {<<p, order(k)>>}
    /\ refs' = [refs EXCEPT ![p] = 2]
    /\ kc' = [q \in Usable |-> IF q = p THEN k
                               ELSE IF q \in Block(p, order(k)) THEN 0 ELSE kc[q]]
    /\ current' = [current EXCEPT ![k] = p]
    /\ freelist' = [freelist EXCEPT ![k] = Sliced(p, k)]
    /\ UNCHANGED <<obj_nr, partial>>

(* AllocPages(order), then __page_obj_slicing: the pool's __reinit_page    *)
(* has cleared kc of every page of the block; get_page adds a reference to *)
(* the one that AllocPages returned.                                       *)
UseNewPage(k) ==
  \E p \in Usable :
    /\ Grantable(p, order(k))
    /\ held' = held \cup {<<p, order(k)>>}
    /\ refs' = [refs EXCEPT ![p] = 2]
    /\ kc' = [q \in Usable |-> IF q = p THEN k
                               ELSE IF q \in Block(p, order(k)) THEN 0 ELSE kc[q]]
    /\ obj_nr' = [obj_nr EXCEPT ![p] = page_obj_nr(k)]
    /\ current' = [current EXCEPT ![k] = p]
    /\ freelist' = [freelist EXCEPT ![k] = Sliced(p, k)]
    /\ UNCHANGED partial

Refill(c) ==
  LET k == i[c]
  IN  /\ pc[c] = "obj_alloc" /\ freelist[k] = <<>> /\ current[k] = NoPage
      /\ IF partial[k] # {} THEN UsePartial(k) ELSE UseNewPage(k)
      /\ UNCHANGED <<full, lock, live, pc, locals>>

(* Mutant of CacheFails: the lock is kept. *)
CacheFailsLocked(c) ==
  LET k == i[c]
  IN  /\ Goto(c, "obj_alloc", "caches")
      /\ freelist[k] = <<>> /\ current[k] = NoPage /\ partial[k] = {}
      /\ UNCHANGED <<held, refs, slabs, caches, lock, live, locals>>

(* AllocPages fails: the cache returns nullptr and the next one is tried. *)
CacheFails(c) ==
  LET k == i[c]
  IN  /\ Goto(c, "obj_alloc", "caches")
      /\ freelist[k] = <<>> /\ current[k] = NoPage /\ partial[k] = {}
      /\ lock' = [lock EXCEPT ![k] = 0]
      /\ UNCHANGED <<held, refs, slabs, caches, live, locals>>

(* __malloc_pools, when no cache is left to try. *)
PoolMalloc(c) ==
  /\ Fitting(c) = {}
  /\ Return(c, "caches")
  /\ \E o \in Orders : \E p \in Usable :
       /\ pool_order(size[c], o)
       /\ Grantable(p, o)
       /\ held' = held \cup {<<p, o>>}
       /\ refs' = [refs EXCEPT ![p] = 2]
       /\ kc' = [q \in Usable |-> IF q \in Block(p, o) THEN 0 ELSE kc[q]]
       /\ live' = live \cup {[addr |-> page_to_virt(p), need |-> size[c]]}
  /\ UNCHANGED <<obj_nr, caches, lock>>

MallocFails(c) ==
  /\ Fitting(c) = {}
  /\ Return(c, "caches")
  /\ UNCHANGED <<held, refs, slabs, caches, lock, live>>

(***************************************************************************)
(* KHeapPool::Free of something a caller holds.                            *)
(***************************************************************************)
(* The caller gives a up; a block that came from the pool goes to put_page,*)
(* which releases one reference.                                           *)
Free(c, a) ==
  LET p == HeadPage(a.addr)
  IN  /\ pc[c] = "idle"
      /\ live' = live \ {a}
      /\ IF kc[p] = 0
         THEN /\ Release(CHOOSE b \in held : b[1] = p)
              /\ UNCHANGED <<pc, i, obj>>
         ELSE /\ pc' = [pc EXCEPT ![c] = "free_lock"]
              /\ i' = [i EXCEPT ![c] = kc[p]]
              /\ obj' = [obj EXCEPT ![c] = a.addr]
              /\ UNCHANGED <<held, refs>>
      /\ UNCHANGED <<slabs, caches, lock, size>>

LockFree(c) ==
  /\ Goto(c, "free_lock", "obj_free")
  /\ lock[i[c]] = 0
  /\ lock' = [lock EXCEPT ![i[c]] = 1]
  /\ UNCHANGED <<held, refs, slabs, caches, live, locals>>

(* Mutant of FreeDone: whether the page is current is not looked at. *)
FreeDoneAnyPage(c) ==
  LET k == i[c]
      p == HeadPage(obj[c])
  IN  /\ Return(c, "obj_free")
      /\ obj_nr' = [obj_nr EXCEPT ![p] = @ + 1]
      /\ freelist' = [freelist EXCEPT ![k] = <<obj[c]>> \o @]
      /\ lock' = [lock EXCEPT ![k] = 0]
      /\ UNCHANGED <<held, refs, full, kc, current, partial, live>>

(* __internal_obj_free and UnLock.  An object of the current page goes     *)
(* back on the free list.  An object of another page is only counted; with *)
(* the first one the page is taken off the full list and put back on it,   *)
(* with the last one it is taken off and one reference is released.        *)
FreeDone(c) ==
  LET k == i[c]
      p == HeadPage(obj[c])
  IN  /\ Return(c, "obj_free")
      /\ obj_nr' = [obj_nr EXCEPT ![p] = @ + 1]
      /\ IF p = current[k]
         THEN /\ freelist' = [freelist EXCEPT ![k] = <<obj[c]>> \o @]
              /\ UNCHANGED <<held, refs, full>>
         ELSE /\ IF obj_nr'[p] = 1
                 THEN /\ full' = [full EXCEPT ![k] = (@ \ {p}) \cup {p}]
                      /\ UNCHANGED <<held, refs>>
                 ELSE IF obj_nr'[p] = page_obj_nr(k)
                 THEN /\ full' = [full EXCEPT ![k] = @ \ {p}]
                      /\ Release(<<p, order(k)>>)
                 ELSE UNCHANGED <<held, refs, full>>
              /\ UNCHANGED freelist
      /\ lock' = [lock EXCEPT ![k] = 0]
      /\ UNCHANGED <<kc, current, partial, live>>

Inside(c) ==
  \/ \E k \in Caches : EnterCache(c, k)
  \/ PopObject(c) \/ Retire(c) \/ Refill(c) \/ CacheFails(c)
  \/ PoolMalloc(c) \/ MallocFails(c)
  \/ LockFree(c) \/ FreeDone(c)

Next ==
  \E c \in Cpus :
    \/ \E need \in Requests : Malloc(c, need)
    \/ \E a \in live : Free(c, a)
    \/ Inside(c)

Spec == Init /\ [][Next]_vars

(* CPU c is in AllocPages with the lock of a cache, which has nothing left.  *)
RefillsFromPool(c) ==
  /\ pc[c] = "obj_alloc"
  /\ freelist[i[c]] = <<>> /\ current[i[c]] = NoPage /\ partial[i[c]] = {}

CallsAllocPages(c) == RefillsFromPool(c) \/ (pc[c] = "caches" /\ Fitting(c) = {})

(* A CPU inside a call keeps executing.  AllocPages waits for the lock of  *)
(* the pool, which promises nobody a turn: that it returns is not assumed. *)
FairSpec == Spec /\ \A c \in Cpus : WF_vars(Inside(c) /\ ~CallsAllocPages(c))

-----------------------------------------------------------------------------
Critical(c) == pc[c] \in {"obj_alloc", "obj_free"}

(* The objects that callers hold or are giving back, by address. *)
InUse == {a.addr : a \in live} \cup {obj[c] : c \in {d \in Cpus : pc[d] \in {"free_lock", "obj_free"}}}

SlabsOf(k) == {p \in Usable : kc[p] = k}
Words(a) == a.addr .. a.addr + a.need - 1

TypeOK ==
  /\ held \subseteq Usable \X Orders
  /\ refs \in [Usable -> 0..2]
  /\ kc \in [Usable -> Caches \cup {0}]
  /\ obj_nr \in [Usable -> Nat]
  /\ current \in [Caches -> Usable \cup {NoPage}]
  /\ freelist \in [Caches -> Seq(Nat)]
  /\ partial \in [Caches -> SUBSET Usable]
  /\ full \in [Caches -> SUBSET Usable]
  /\ lock \in [Caches -> {0, 1}]
  /\ live \subseteq [addr : Nat, need : Nat]
  /\ pc \in [Cpus -> {"idle", "caches", "obj_alloc", "free_lock", "obj_free"}]
  /\ size \in [Cpus -> Nat]
  /\ i \in [Cpus -> Caches \cup {0}]
  /\ obj \in [Cpus -> Nat]

(* What Malloc returned to different callers does not overlap, and is      *)
(* memory that the heap holds: neither slicing, nor freeing to a cache,    *)
(* nor a page going back to the pool hands out words that are in use.      *)
LiveDisjoint ==
  /\ \A a, b \in live : a # b => a.addr # b.addr /\ Words(a) \cap Words(b) = {}
  /\ \A a \in live : \E b \in held :
       Words(a) \subseteq page_to_virt(b[1]) .. page_to_virt(b[1] + Pow2(b[2])) - 1

(* The free list of a cache is made of objects of its current page, none   *)
(* twice and none that a caller still has, and obj_nr counts them.         *)
FreelistIsCurrent ==
  \A k \in Caches :
    /\ IsInjective(freelist[k])
    /\ ToSet(freelist[k]) \cap InUse = {}
    /\ IF current[k] = NoPage
       THEN freelist[k] = <<>>
       ELSE /\ kc[current[k]] = k
            /\ ToSet(freelist[k]) = Objects(current[k], k) \ InUse
            /\ obj_nr[current[k]] = Len(freelist[k])

(* obj_nr of a slab page is the number of its objects that nobody has, so  *)
(* the page is given up with its last object and not before.               *)
CountsObjects ==
  \A k \in Caches : \A p \in SlabsOf(k) :
    <<p, order(k)>> \in held => obj_nr[p] = Cardinality(Objects(p, k) \ InUse)

(* Free follows page->kc: an object in use is in a page that is current or *)
(* on the full list of the cache that the page names, so that              *)
(* __internal_obj_free unlinks only pages that are linked there.           *)
InUseIsFindable ==
  \A x \in InUse : \A k \in Caches :
    kc[HeadPage(x)] = k =>
      /\ x \in Objects(HeadPage(x), k)
      /\ HeadPage(x) = current[k] \/ HeadPage(x) \in full[k]

(* The SpinLock of a cache keeps the callers of Malloc and Free apart. *)
CacheExclusion ==
  \A c, d \in Cpus : Critical(c) /\ Critical(d) /\ i[c] = i[d] => c = d

(* No path through Malloc or Free leaves a cache locked; only a CPU that    *)
(* is in AllocPages for a cache can keep its lock for ever.                *)
LockReleased ==
  \A k \in Caches :
    []<>(lock[k] = 0 \/ \E c \in Cpus : RefillsFromPool(c) /\ i[c] = k)

(* heap_mm.cppm:287 says of a page that is unlinked and put "all freed":   *)
(* a page of a cache whose objects have all been freed goes back to the    *)
(* pool, unless it is still the current page or on the full list.          *)
FreedGoesBack ==
  \A b \in held : \A k \in Caches :
    kc[b[1]] = k =>
      \/ \E a \in InUse : HeadPage(a) = b[1]
      \/ b[1] = current[k] \/ b[1] \in full[k]

(* The words of the pages that the pool has. *)
HeapWords == {page_to_virt(p) + w : p \in Usable, w \in 0 .. PAGE_SIZE - 1}

(* The size that a CPU in Malloc has still to be given. *)
Asked == [c \in Cpus |-> IF pc[c] \in {"caches", "obj_alloc"} THEN {size[c]} ELSE {}]

Promise == INSTANCE Heap WITH Memory <- HeapWords, asked <- Asked

(* KHeapPool keeps what Heap promises: Malloc answers with memory of which *)
(* nobody holds a word, as much as was asked for, or with nullptr, and     *)
(* nobody's memory goes away but by his own Free.                          *)
ImplementsHeap == Promise!Spec
=============================================================================
