---------------------------- MODULE KHeap_proofs ----------------------------
(***************************************************************************)
(* Proofs about KHeap: every invariant that its runs check holds for any   *)
(* number of CPUs, any pages, any sizes of objects and of requests.        *)
(***************************************************************************)
EXTENDS KHeap, FiniteSetTheorems, SequenceTheorems, TLAPS

(* Page frames of a granted block, as a block is a pair. *)
Pages(b) == Block(b[1], b[2])

(* The blocks that the pool granted are apart. *)
HeldApart ==
  /\ \A b \in held : Pages(b) \subseteq Usable
  /\ \A b, e \in held : b # e => Pages(b) \cap Pages(e) = {}

(* A page names a cache only while it is the first page of a block that    *)
(* was sliced for that cache.                                              *)
SlabsHeld == \A p \in Usable : kc[p] # 0 => <<p, order(kc[p])>> \in held

InSlab(x, k) == \E p \in Usable : kc[p] = k /\ x \in Objects(p, k)

(* What a caller holds is an object of a slab that is large enough, or a   *)
(* block of its own with both references.                                  *)
FromCache(a) == \E k \in Caches : InSlab(a.addr, k) /\ a.need <= kobj_default_size[k]

FromPool(a, b) ==
  /\ kc[b[1]] = 0
  /\ refs[b[1]] = 2
  /\ a.addr = page_to_virt(b[1])
  /\ a.need <= PAGE_SIZE * Pow2(b[2])

LiveFound == \A a \in live : FromCache(a) \/ \E b \in held : FromPool(a, b)

(* What a CPU gives back is an object of the cache that it read in         *)
(* page->kc, until it has done so.                                         *)
Freeing(c) == pc[c] \in {"free_lock", "obj_free"}
FreeingFound == \A c \in Cpus : Freeing(c) => i[c] \in Caches /\ InSlab(obj[c], i[c])

(* Every address has one owner: a caller, or a CPU that gives it back. *)
OneOwner ==
  /\ \A a, b \in live : a # b => a.addr # b.addr
  /\ \A c \in Cpus : Freeing(c) => \A a \in live : a.addr # obj[c]
  /\ \A c, d \in Cpus : Freeing(c) /\ Freeing(d) /\ c # d => obj[c] # obj[d]

(* The pages that are linked: both references are there. *)
ListsOfSlabs ==
  \A k \in Caches :
    /\ partial[k] = {}
    /\ \A p \in full[k] : kc[p] = k /\ refs[p] = 2
    /\ current[k] # NoPage => kc[current[k]] = k /\ refs[current[k]] = 2

(* A slab page that is linked nowhere has no object in use. *)
Linked ==
  \A k \in Caches : \A p \in Usable :
    kc[p] = k /\ Objects(p, k) \cap InUse # {} => p = current[k] \/ p \in full[k]

Counts ==
  \A p \in Usable : kc[p] # 0 =>
    obj_nr[p] = Cardinality(Objects(p, kc[p]) \ InUse)

(* Inside a critical section the lock of the cache is taken. *)
Locked ==
  /\ \A c \in Cpus : Critical(c) => i[c] \in Caches /\ lock[i[c]] = 1
  /\ \A c \in Cpus : pc[c] = "obj_alloc" => size[c] <= kobj_default_size[i[c]]

MemInv ==
  /\ HeldApart
  /\ SlabsHeld
  /\ LiveFound
  /\ FreeingFound
  /\ OneOwner
  /\ ListsOfSlabs

ListInv ==
  /\ Linked
  /\ Counts
  /\ FreelistIsCurrent

LockInv ==
  /\ Locked
  /\ CacheExclusion

IInv == TypeOK /\ MemInv /\ ListInv /\ LockInv

-----------------------------------------------------------------------------
(* The constants, in the form the proofs use them. *)
LEMMA Sizes ==
  /\ PAGE_SIZE \in Nat /\ PAGE_SIZE >= 1
  /\ \A o \in Orders : o \in Nat /\ Pow2(o) \in Nat /\ Pow2(o) >= 1
  /\ \A k \in Caches : /\ k \in Nat /\ k # 0
                       /\ order(k) \in Orders
                       /\ kobj_default_size[k] \in Nat
                       /\ kobj_default_size[k] >= 1
                       /\ page_obj_nr(k) \in Nat
  /\ \A p \in Usable : p \in Nat
<1>1. PAGE_SIZE \in Nat /\ PAGE_SIZE >= 1
  BY HeapAssumption
<1>2. \A o \in Orders : o \in Nat /\ Pow2(o) \in Nat /\ Pow2(o) >= 1
  BY OrderAssumption DEF Orders, Pow2
<1>3. \A k \in Caches : /\ k \in Nat /\ k # 0
                       /\ order(k) \in Orders
                       /\ kobj_default_size[k] \in Nat
                       /\ kobj_default_size[k] >= 1
  BY HeapAssumption, CacheAssumption DEF Caches
<1>4. ASSUME NEW k \in Caches
      PROVE  page_obj_nr(k) \in Nat
  <2> DEFINE m == Pow2(order(k))
  <2>1. m \in Nat
    BY <1>2, <1>3
  <2>2. page_obj_nr(k) = (PAGE_SIZE * m) \div kobj_default_size[k]
    BY DEF page_obj_nr
  <2> HIDE DEF m
  <2> QED
    BY <1>1, <1>3, <2>1, <2>2
<1> QED
  BY <1>1, <1>2, <1>3, <1>4, UsableAssumption

LEMMA Grows ==
  ASSUME NEW a \in Nat, NEW b \in Nat, NEW m \in Nat, a <= b
  PROVE  a * m <= b * m
<1>1. b * m = a * m + (b - a) * m
  OBVIOUS
<1>2. (b - a) * m \in Nat
  OBVIOUS
<1> QED
  BY <1>1, <1>2

(* The address x is in page x \div n. *)
LEMMA PageOf ==
  ASSUME NEW x \in Nat, NEW n \in Nat, n >= 1
  PROVE  /\ x \div n \in Nat
         /\ (x \div n) * n <= x
         /\ x < (x \div n + 1) * n
  OBVIOUS

LEMMA InPages ==
  ASSUME NEW p \in Nat, NEW m \in Nat, NEW n \in Nat, n >= 1,
         NEW x \in Nat, p * n <= x, x < (p + m) * n
  PROVE  x \div n \in p .. p + m - 1
<1> DEFINE q == x \div n
<1>1. q \in Nat /\ q * n <= x /\ x < (q + 1) * n
  BY PageOf
<1> HIDE DEF q
<1>2. ~ q + 1 <= p
  BY <1>1, Grows
<1>3. ~ p + m <= q
  BY <1>1, Grows
<1> QED
  BY <1>1, <1>2, <1>3 DEF q

(* An object and all its words are in the pages of its slab. *)
LEMMA ObjectWithin ==
  ASSUME NEW p \in Nat, NEW k \in Caches, NEW x \in Objects(p, k)
  PROVE  /\ x \in Nat
         /\ page_to_virt(p) <= x
         /\ x + kobj_default_size[k] <= page_to_virt(p + Pow2(order(k)))
<1> DEFINE s == kobj_default_size[k]
           n == page_obj_nr(k)
           m == Pow2(order(k))
<1>1. /\ s \in Nat /\ s >= 1 /\ n \in Nat /\ m \in Nat
      /\ PAGE_SIZE \in Nat
  BY Sizes
<1>2. PICK j \in 1 .. n : x = p * PAGE_SIZE + (j - 1) * s
  BY DEF Objects, Object, page_to_virt
<1>3. n * s <= PAGE_SIZE * m
  <2>1. n = (PAGE_SIZE * m) \div s
    BY DEF page_obj_nr
  <2>2. PAGE_SIZE * m \in Nat
    BY <1>1
  <2> HIDE DEF n, s, m
  <2> QED
    BY <1>1, <2>1, <2>2, PageOf
<1>4. page_to_virt(p) = p * PAGE_SIZE /\ page_to_virt(p + m) = (p + m) * PAGE_SIZE
  BY DEF page_to_virt
<1> HIDE DEF n, s, m
<1>5. j \in Nat /\ j - 1 \in Nat /\ (j - 1) * s \in Nat /\ p * PAGE_SIZE \in Nat
  BY <1>1
<1>6. (j - 1) * s + s = j * s /\ j * s <= n * s
  BY <1>1, <1>5, Grows
<1>7. (p + m) * PAGE_SIZE = p * PAGE_SIZE + PAGE_SIZE * m
  BY <1>1
<1>8. x \in Nat /\ p * PAGE_SIZE <= x
  BY <1>2, <1>5
<1>9. x + s <= (p + m) * PAGE_SIZE
  BY <1>1, <1>2, <1>3, <1>5, <1>6, <1>7
<1> QED
  BY <1>4, <1>8, <1>9 DEF s, m

(* Different objects of a slab do not overlap. *)
LEMMA ObjectsApart ==
  ASSUME NEW p \in Nat, NEW k \in Caches,
         NEW x \in Objects(p, k), NEW y \in Objects(p, k), x # y
  PROVE  x + kobj_default_size[k] <= y \/ y + kobj_default_size[k] <= x
<1> DEFINE s == kobj_default_size[k]
           n == page_obj_nr(k)
           w == p * PAGE_SIZE
<1>1. s \in Nat /\ s >= 1 /\ n \in Nat /\ w \in Nat
  BY Sizes
<1>2. PICK j \in 1 .. n : x = w + (j - 1) * s
  BY DEF Objects, Object, page_to_virt
<1>3. PICK l \in 1 .. n : y = w + (l - 1) * s
  BY DEF Objects, Object, page_to_virt
<1> HIDE DEF s, n, w
<1>4. /\ (j - 1) * s \in Nat /\ (j - 1) * s + s = j * s
      /\ (l - 1) * s \in Nat /\ (l - 1) * s + s = l * s
  BY <1>1
<1>5. CASE j < l
  <2>1. j * s <= (l - 1) * s
    BY <1>1, <1>5, Grows
  <2> QED
    BY <1>1, <1>2, <1>3, <1>4, <2>1 DEF s
<1>6. CASE l < j
  <2>1. l * s <= (j - 1) * s
    BY <1>1, <1>6, Grows
  <2> QED
    BY <1>1, <1>2, <1>3, <1>4, <2>1 DEF s
<1> QED
  BY <1>1, <1>2, <1>3, <1>5, <1>6

-----------------------------------------------------------------------------
(* Free lists and what is left of a page.                                  *)

LEMMA HeadGone ==
  ASSUME NEW s \in Seq(Nat), s # <<>>, IsInjective(s)
  PROVE  /\ Head(s) \in ToSet(s) /\ Head(s) \in Nat
         /\ Tail(s) \in Seq(Nat)
         /\ Len(s) \in Nat /\ Len(s) >= 1 /\ Len(Tail(s)) = Len(s) - 1
         /\ IsInjective(Tail(s))
         /\ ToSet(Tail(s)) = ToSet(s) \ {Head(s)}
<1> DEFINE t == Tail(s)
           n == Len(s)
<1>1. /\ n \in Nat /\ n >= 1
      /\ DOMAIN s = 1 .. n
      /\ Head(s) = s[1] /\ s[1] \in Nat
  BY HeadTailProperties, EmptySeq, LenProperties
<1>2. /\ t \in Seq(Nat) /\ Len(t) = n - 1
      /\ \A j \in 1 .. n - 1 : t[j] = s[j + 1]
  BY HeadTailProperties
<1>3. DOMAIN t = 1 .. n - 1
  BY <1>2, LenProperties
<1> HIDE DEF t, n
<1>4. \A a, b \in 1 .. n : s[a] = s[b] => a = b
  BY <1>1 DEF IsInjective
<1>5. IsInjective(t)
  BY <1>1, <1>2, <1>3, <1>4 DEF IsInjective
<1>6. ASSUME NEW x \in ToSet(t)
      PROVE  x \in ToSet(s) \ {s[1]}
  <2>1. PICK j \in 1 .. n - 1 : x = t[j]
    BY <1>3 DEF ToSet
  <2>2. j + 1 \in 1 .. n /\ j + 1 # 1 /\ 1 \in 1 .. n /\ x = s[j + 1]
    BY <1>1, <1>2, <2>1
  <2> QED
    BY <1>1, <1>4, <2>2 DEF ToSet
<1>7. ASSUME NEW x \in ToSet(s) \ {s[1]}
      PROVE  x \in ToSet(t)
  <2>1. PICK j \in 1 .. n : x = s[j]
    BY <1>1 DEF ToSet
  <2>2. j - 1 \in 1 .. n - 1 /\ (j - 1) + 1 = j
    BY <1>1, <2>1, <1>7
  <2>3. x = t[j - 1]
    BY <1>2, <2>1, <2>2
  <2> QED
    BY <1>3, <2>2, <2>3 DEF ToSet
<1>8. s[1] \in ToSet(s)
  BY <1>1 DEF ToSet
<1>9. ToSet(t) = ToSet(s) \ {Head(s)}
  BY <1>1, <1>6, <1>7
<1> QED
  BY <1>1, <1>2, <1>5, <1>8, <1>9 DEF t, n

LEMMA HeadPut ==
  ASSUME NEW s \in Seq(Nat), IsInjective(s), NEW x \in Nat, x \notin ToSet(s)
  PROVE  /\ <<x>> \o s \in Seq(Nat)
         /\ Len(s) \in Nat /\ Len(<<x>> \o s) = Len(s) + 1
         /\ IsInjective(<<x>> \o s)
         /\ ToSet(<<x>> \o s) = ToSet(s) \cup {x}
<1> DEFINE t == <<x>> \o s
           n == Len(s)
<1>0. <<x>> \in Seq(Nat) /\ Len(<<x>>) = 1 /\ <<x>>[1] = x
  OBVIOUS
<1>1. n \in Nat /\ DOMAIN s = 1 .. n
  BY LenProperties
<1>2. /\ t \in Seq(Nat) /\ Len(t) = n + 1
      /\ \A j \in 1 .. n + 1 : t[j] = IF j <= 1 THEN <<x>>[j] ELSE s[j - 1]
  <2>1. /\ t \in Seq(Nat) /\ Len(t) = 1 + n
        /\ \A j \in 1 .. 1 + n : t[j] = IF j <= 1 THEN <<x>>[j] ELSE s[j - 1]
    BY <1>0, ConcatProperties
  <2> HIDE DEF t, n
  <2> QED
    BY <1>1, <2>1
<1>3. DOMAIN t = 1 .. n + 1
  BY <1>2, LenProperties
<1> HIDE DEF t, n
<1>4. t[1] = x /\ \A j \in 1 .. n : j + 1 \in 1 .. n + 1 /\ t[j + 1] = s[j]
  BY <1>0, <1>1, <1>2
<1>5. \A a, b \in 1 .. n : s[a] = s[b] => a = b
  BY <1>1 DEF IsInjective
<1>6. \A j \in 1 .. n : s[j] # x
  BY <1>1 DEF ToSet
<1>7. \A j \in 1 .. n + 1 : j = 1 \/ (j - 1 \in 1 .. n /\ t[j] = s[j - 1])
  BY <1>1, <1>2
<1>8. IsInjective(t)
  <2>1. SUFFICES ASSUME NEW a \in 1 .. n + 1, NEW b \in 1 .. n + 1, t[a] = t[b]
                 PROVE  a = b
    BY <1>3 DEF IsInjective
  <2>2. CASE a = 1 /\ b # 1
    BY <1>4, <1>6, <1>7, <2>1, <2>2
  <2>3. CASE a # 1 /\ b = 1
    BY <1>4, <1>6, <1>7, <2>1, <2>3
  <2>4. CASE a # 1 /\ b # 1
    <3>1. a - 1 = b - 1
      BY <1>5, <1>7, <2>1, <2>4
    <3> QED
      BY <1>1, <3>1
  <2> QED
    BY <2>2, <2>3, <2>4
<1>9. ASSUME NEW y \in ToSet(t)
      PROVE  y \in ToSet(s) \cup {x}
  <2>1. PICK j \in 1 .. n + 1 : y = t[j]
    BY <1>3 DEF ToSet
  <2>2. CASE j = 1
    BY <1>4, <2>1, <2>2
  <2>3. CASE j - 1 \in 1 .. n /\ t[j] = s[j - 1]
    BY <1>1, <2>1, <2>3 DEF ToSet
  <2> QED
    BY <1>7, <2>2, <2>3
<1>10. ASSUME NEW y \in ToSet(s) \cup {x}
       PROVE  y \in ToSet(t)
  <2>1. CASE y = x
    <3>1. 1 \in 1 .. n + 1
      BY <1>1
    <3> QED
      BY <1>3, <1>4, <2>1, <3>1 DEF ToSet
  <2>2. CASE y \in ToSet(s)
    <3>1. PICK j \in 1 .. n : y = s[j]
      BY <1>1, <2>2 DEF ToSet
    <3>2. j + 1 \in 1 .. n + 1 /\ y = t[j + 1]
      BY <1>4, <3>1
    <3> QED
      BY <1>3, <3>2 DEF ToSet
  <2> QED
    BY <2>1, <2>2
<1> QED
  BY <1>1, <1>2, <1>8, <1>9, <1>10 DEF t, n

(* Slicing makes a list of all the objects of a page. *)
LEMMA Slices ==
  ASSUME NEW p \in Nat, NEW k \in Caches
  PROVE  /\ Sliced(p, k) \in Seq(Nat)
         /\ Len(Sliced(p, k)) = page_obj_nr(k)
         /\ IsInjective(Sliced(p, k))
         /\ ToSet(Sliced(p, k)) = Objects(p, k)
<1> DEFINE n == page_obj_nr(k)
           s == kobj_default_size[k]
           w == page_to_virt(p)
           f == Sliced(p, k)
<1>1. n \in Nat /\ s \in Nat /\ s >= 1 /\ w \in Nat
  BY Sizes DEF page_to_virt
<1>2. f = [j \in 1 .. n |-> w + ((n + 1 - j) - 1) * s]
  BY DEF Sliced, Object
<1>3. Objects(p, k) = {w + (j - 1) * s : j \in 1 .. n}
  BY DEF Objects, Object
<1>4. \A x \in Objects(p, k) : x \in Nat
  BY ObjectWithin
<1> HIDE DEF n, s, w, f
<1>5. \A j \in 1 .. n : n + 1 - j \in 1 .. n /\ n + 1 - (n + 1 - j) = j
  BY <1>1
<1>6. \A j \in 1 .. n : f[j] \in Objects(p, k)
  BY <1>2, <1>3, <1>5
<1>7. \A x \in Objects(p, k) : \E j \in 1 .. n : f[j] = x
  <2>1. SUFFICES ASSUME NEW j \in 1 .. n
                 PROVE  f[n + 1 - j] = w + (j - 1) * s
    BY <1>3, <1>5
  <2> QED
    BY <1>2, <1>5
<1>8. f \in [1 .. n -> Nat] /\ DOMAIN f = 1 .. n
  BY <1>2, <1>4, <1>6
<1>9. f \in Seq(Nat) /\ Len(f) = n
  BY <1>1, <1>8
<1>10. IsInjective(f)
  <2>1. SUFFICES ASSUME NEW a \in 1 .. n, NEW b \in 1 .. n, f[a] = f[b]
                 PROVE  a = b
    BY <1>8 DEF IsInjective
  <2> DEFINE u == n - a
             v == n - b
  <2>2. u \in Nat /\ v \in Nat /\ (n + 1 - a) - 1 = u /\ (n + 1 - b) - 1 = v
    BY <1>1
  <2>3. u * s = v * s
    BY <1>1, <1>2, <2>1, <2>2
  <2> HIDE DEF u, v
  <2>4. u = v
    <3>1. ASSUME NEW y \in Nat, NEW z \in Nat, y < z
          PROVE  y * s # z * s
      <4>1. (y + 1) * s <= z * s
        BY <1>1, <3>1, Grows
      <4> QED
        BY <1>1, <4>1
    <3> QED
      BY <2>2, <2>3, <3>1
  <2> QED
    BY <1>1, <2>4 DEF u, v
<1>11. ToSet(f) = Objects(p, k)
  BY <1>6, <1>7, <1>8 DEF ToSet
<1> QED
  BY <1>9, <1>10, <1>11 DEF f, n

LEMMA NumberOfObjects ==
  ASSUME NEW p \in Nat, NEW k \in Caches
  PROVE  /\ IsFiniteSet(Objects(p, k))
         /\ Cardinality(Objects(p, k)) = page_obj_nr(k)
<1> DEFINE n == page_obj_nr(k)
           f == Sliced(p, k)
           T == Objects(p, k)
<1>1. /\ n \in Nat
      /\ f \in Seq(Nat) /\ Len(f) = n /\ IsInjective(f) /\ ToSet(f) = T
  BY Slices, Sizes
<1>2. DOMAIN f = 1 .. n
  BY <1>1, LenProperties
<1>3. f \in [1 .. n -> T] /\ \A t \in T : \E j \in 1 .. n : f[j] = t
  <2>1. f = [j \in 1 .. n |-> f[j]]
    BY <1>2 DEF Sliced
  <2> HIDE DEF f, T, n
  <2> QED
    BY <1>1, <1>2, <2>1 DEF ToSet
<1> HIDE DEF f, T, n
<1>4. f \in Bijection(1 .. n, T)
  BY <1>1, <1>3 DEF Bijection, Injection, Surjection
<1>5. ExistsBijection(1 .. n, T)
  BY <1>4 DEF ExistsBijection
<1>6. Cardinality(T) = n
  BY <1>1, <1>5, FS_CountingElements
<1>7. IsFiniteSet(T)
  BY <1>1, <1>5, FS_NatBijection
<1> QED
  BY <1>6, <1>7 DEF T, n

LEMMA OneTaken ==
  ASSUME NEW T, IsFiniteSet(T), NEW U, NEW x \in T, x \notin U
  PROVE  Cardinality(T \ U) = Cardinality(T \ (U \cup {x})) + 1
<1> DEFINE D == T \ U
<1>1. IsFiniteSet(D)
  BY FS_Subset
<1>2. D \ {x} = T \ (U \cup {x}) /\ x \in D
  OBVIOUS
<1> HIDE DEF D
<1>3. Cardinality(D) \in Nat /\ Cardinality(D \ {x}) = Cardinality(D) - 1
  BY <1>1, <1>2, FS_CardinalityType, FS_RemoveElement
<1>4. Cardinality(D) = Cardinality(T \ (U \cup {x})) + 1
  BY <1>2, <1>3
<1> QED
  BY <1>3, <1>4 DEF D

(* When as many objects are left as a page has, none is in use. *)
LEMMA AllFreed ==
  ASSUME NEW T, IsFiniteSet(T), NEW U, Cardinality(T \ U) = Cardinality(T)
  PROVE  T \cap U = {}
<1>1. T \ U \in SUBSET T
  OBVIOUS
<1>2. T \ U = T
  BY <1>1, FS_Subset
<1> QED
  BY <1>2

-----------------------------------------------------------------------------
(* Where an address is.                                                    *)

LEMMA FirstOfBlock ==
  ASSUME NEW p \in Nat, NEW o \in Orders
  PROVE  p \in Block(p, o)
<1> DEFINE n == Pow2(o)
<1>1. n \in Nat /\ n >= 1
  BY Sizes
<1>2. Block(p, o) = p .. p + n - 1
  BY DEF Block
<1> HIDE DEF n
<1> QED
  BY <1>1, <1>2

(* A granted block is known by its first page, and holds it. *)
LEMMA OneBlock ==
  ASSUME TypeOK, HeldApart
  PROVE  /\ \A b \in held : /\ b = <<b[1], b[2]>>
                            /\ b[1] \in Usable /\ b[1] \in Nat /\ b[2] \in Orders
                            /\ b[1] \in Pages(b)
         /\ \A b, e \in held : b[1] = e[1] => b = e
<1>1. ASSUME NEW b \in held
      PROVE  /\ b = <<b[1], b[2]>>
             /\ b[1] \in Usable /\ b[1] \in Nat /\ b[2] \in Orders
             /\ b[1] \in Pages(b)
  <2>1. b = <<b[1], b[2]>> /\ b[1] \in Usable /\ b[2] \in Orders
    BY DEF TypeOK
  <2> QED
    BY <2>1, Sizes, FirstOfBlock DEF Pages
<1> QED
  BY <1>1 DEF HeldApart

LEMMA HeadOf ==
  ASSUME TypeOK, HeldApart, NEW x, NEW b \in held, x \div PAGE_SIZE \in Pages(b)
  PROVE  HeadPage(x) = b[1]
<1> DEFINE y == x \div PAGE_SIZE
           e == CHOOSE e \in held : y \in Block(e[1], e[2])
<1>1. y \in Block(b[1], b[2])
  BY DEF Pages
<1>2. e \in held /\ y \in Block(e[1], e[2])
  <2> HIDE DEF y
  <2> QED
    BY <1>1
<1>3. HeadPage(x) = e[1]
  BY DEF HeadPage
<1> HIDE DEF e
<1>4. e = b
  BY <1>1, <1>2 DEF HeldApart, Pages
<1> QED
  BY <1>3, <1>4

(* The block that starts at p, as Free looks it up. *)
LEMMA ChosenBlock ==
  ASSUME TypeOK, HeldApart, NEW b \in held
  PROVE  (CHOOSE e \in held : e[1] = b[1]) = b
<1> DEFINE e == CHOOSE e \in held : e[1] = b[1]
<1>1. e \in held /\ e[1] = b[1]
  OBVIOUS
<1> HIDE DEF e
<1>2. e = b
  BY <1>1, OneBlock
<1> QED
  BY <1>2 DEF e

(* An object of a slab is in the slab's block and in no other slab. *)
LEMMA ObjectHead ==
  ASSUME TypeOK, HeldApart, SlabsHeld,
         NEW p \in Usable, NEW k \in Caches, kc[p] = k, NEW x \in Objects(p, k)
  PROVE  /\ <<p, order(k)>> \in held
         /\ x \in Nat
         /\ x \div PAGE_SIZE \in Pages(<<p, order(k)>>)
         /\ HeadPage(x) = p
<1> DEFINE m == Pow2(order(k))
           s == kobj_default_size[k]
           y == x \div PAGE_SIZE
<1>1. <<p, order(k)>> \in held
  BY Sizes DEF SlabsHeld
<1>2. /\ p \in Nat /\ m \in Nat /\ PAGE_SIZE \in Nat /\ PAGE_SIZE >= 1
      /\ s \in Nat /\ s >= 1
  BY Sizes
<1>3. x \in Nat /\ p * PAGE_SIZE <= x /\ x + s <= (p + m) * PAGE_SIZE
  BY <1>2, ObjectWithin DEF page_to_virt
<1>4. Pages(<<p, order(k)>>) = p .. p + m - 1
  BY DEF Pages, Block
<1>5. x < (p + m) * PAGE_SIZE
  <2> HIDE DEF m, s
  <2> QED
    BY <1>2, <1>3
<1>6. y \in p .. p + m - 1
  <2> HIDE DEF m
  <2> QED
    BY <1>2, <1>3, <1>5, InPages
<1>7. y \in Pages(<<p, order(k)>>)
  BY <1>4, <1>6
<1>8. HeadPage(x) = <<p, order(k)>>[1]
  BY <1>1, <1>7, HeadOf
<1> QED
  BY <1>1, <1>3, <1>7, <1>8

LEMMA OneSlab ==
  ASSUME TypeOK, HeldApart, SlabsHeld,
         NEW p \in Usable, NEW k \in Caches, kc[p] = k, NEW x \in Objects(p, k),
         NEW q \in Usable, NEW m \in Caches, kc[q] = m, x \in Objects(q, m)
  PROVE  p = q /\ k = m
  BY ObjectHead

LEMMA FirstWord ==
  ASSUME NEW p \in Nat
  PROVE  page_to_virt(p) \in Nat /\ page_to_virt(p) \div PAGE_SIZE = p
<1> DEFINE x == page_to_virt(p)
<1>1. PAGE_SIZE \in Nat /\ PAGE_SIZE >= 1
  BY Sizes
<1>2. x = p * PAGE_SIZE
  BY DEF page_to_virt
<1> HIDE DEF x
<1>3. x \in Nat /\ x < (p + 1) * PAGE_SIZE
  BY <1>1, <1>2
<1>4. x \div PAGE_SIZE \in p .. p + 1 - 1
  BY <1>1, <1>2, <1>3, InPages
<1>5. x \div PAGE_SIZE = p
  BY <1>4
<1> QED
  BY <1>3, <1>5 DEF x

(* The first word of a block is in it. *)
LEMMA BlockHead ==
  ASSUME TypeOK, HeldApart, NEW b \in held
  PROVE  /\ page_to_virt(b[1]) \in Nat
         /\ page_to_virt(b[1]) \div PAGE_SIZE \in Pages(b)
         /\ HeadPage(page_to_virt(b[1])) = b[1]
<1>1. b[1] \in Nat /\ b[1] \in Pages(b)
  BY OneBlock
<1>2. page_to_virt(b[1]) \in Nat /\ page_to_virt(b[1]) \div PAGE_SIZE = b[1]
  BY <1>1, FirstWord
<1> QED
  BY <1>1, <1>2, HeadOf

LEMMA Users ==
  ASSUME NEW x
  PROVE  x \in InUse <=> \/ \E a \in live : x = a.addr
                         \/ \E c \in Cpus : Freeing(c) /\ x = obj[c]
  BY DEF InUse, Freeing

(* Whatever is in use is in a granted block: an object of it when it is a  *)
(* slab, its first word when it is not.                                    *)
LEMMA Owned ==
  ASSUME TypeOK, MemInv, NEW x \in InUse
  PROVE  /\ x \in Nat
         /\ \E b \in held :
              /\ HeadPage(x) = b[1]
              /\ x \div PAGE_SIZE \in Pages(b)
              /\ \/ kc[b[1]] = 0 /\ x = page_to_virt(b[1])
                 \/ kc[b[1]] \in Caches /\ x \in Objects(b[1], kc[b[1]])
<1> DEFINE G == \E b \in held :
                  /\ HeadPage(x) = b[1]
                  /\ x \div PAGE_SIZE \in Pages(b)
                  /\ \/ kc[b[1]] = 0 /\ x = page_to_virt(b[1])
                     \/ kc[b[1]] \in Caches /\ x \in Objects(b[1], kc[b[1]])
<1>0. HeldApart /\ SlabsHeld
  BY DEF MemInv
<1>1. ASSUME NEW k \in Caches, InSlab(x, k)
      PROVE  x \in Nat /\ G
  <2>1. PICK p \in Usable : kc[p] = k /\ x \in Objects(p, k)
    BY <1>1 DEF InSlab
  <2>2. /\ <<p, order(k)>> \in held /\ x \in Nat /\ HeadPage(x) = p
        /\ x \div PAGE_SIZE \in Pages(<<p, order(k)>>)
    BY <1>0, <2>1, ObjectHead
  <2> QED
    BY <2>1, <2>2
<1>2. ASSUME NEW a \in live, x = a.addr
      PROVE  x \in Nat /\ G
  <2>1. FromCache(a) \/ \E b \in held : FromPool(a, b)
    BY DEF MemInv, LiveFound
  <2>2. CASE FromCache(a)
    BY <1>1, <1>2, <2>2 DEF FromCache
  <2>3. ASSUME NEW b \in held, FromPool(a, b)
        PROVE  x \in Nat /\ G
    <3>1. kc[b[1]] = 0 /\ x = page_to_virt(b[1])
      BY <1>2, <2>3 DEF FromPool
    <3> QED
      BY <1>0, <3>1, BlockHead
  <2> QED
    BY <2>1, <2>2, <2>3
<1>3. ASSUME NEW c \in Cpus, Freeing(c), x = obj[c]
      PROVE  x \in Nat /\ G
  BY <1>1, <1>3 DEF MemInv, FreeingFound
<1> QED
  BY <1>2, <1>3, Users

-----------------------------------------------------------------------------
(* What the inductive invariant says of callers.                           *)

LEMMA BlocksApart ==
  ASSUME TypeOK, HeldApart, NEW b \in held, NEW e \in held, b # e
  PROVE  \/ page_to_virt(b[1] + Pow2(b[2])) <= page_to_virt(e[1])
         \/ page_to_virt(e[1] + Pow2(e[2])) <= page_to_virt(b[1])
<1> DEFINE p == b[1]
           q == e[1]
           m == Pow2(b[2])
           n == Pow2(e[2])
<1>1. /\ p \in Nat /\ q \in Nat /\ p \in Pages(b) /\ q \in Pages(e)
      /\ b[2] \in Orders /\ e[2] \in Orders
  BY OneBlock
<1>2. m \in Nat /\ n \in Nat /\ m >= 1 /\ n >= 1 /\ PAGE_SIZE \in Nat
  BY <1>1, Sizes
<1>3. Pages(b) = p .. p + m - 1 /\ Pages(e) = q .. q + n - 1
  BY DEF Pages, Block
<1>4. Pages(b) \cap Pages(e) = {}
  BY DEF HeldApart
<1> SUFFICES (p + m) * PAGE_SIZE <= q * PAGE_SIZE \/ (q + n) * PAGE_SIZE <= p * PAGE_SIZE
  BY DEF page_to_virt
<1> HIDE DEF p, q, m, n
<1>5. p + m <= q \/ q + n <= p
  <2>1. p \notin q .. q + n - 1 /\ q \notin p .. p + m - 1
    BY <1>1, <1>3, <1>4
  <2> QED
    BY <1>1, <1>2, <2>1
<1> QED
  BY <1>1, <1>2, <1>5, Grows

(* The words a caller holds are in one granted block. *)
LEMMA LiveWithin ==
  ASSUME TypeOK, MemInv, NEW a \in live
  PROVE  /\ a.addr \in Nat /\ a.need \in Nat
         /\ \E b \in held :
              /\ HeadPage(a.addr) = b[1]
              /\ page_to_virt(b[1]) \in Nat
              /\ page_to_virt(b[1] + Pow2(b[2])) \in Nat
              /\ page_to_virt(b[1]) <= a.addr
              /\ a.addr + a.need <= page_to_virt(b[1] + Pow2(b[2]))
              /\ \/ a.addr = page_to_virt(b[1])
                 \/ \E k \in Caches : /\ kc[b[1]] = k
                                      /\ a.addr \in Objects(b[1], k)
                                      /\ a.need <= kobj_default_size[k]
<1>0. /\ HeldApart /\ SlabsHeld
      /\ a.addr \in Nat /\ a.need \in Nat
      /\ PAGE_SIZE \in Nat /\ PAGE_SIZE >= 1
  BY Sizes DEF MemInv, TypeOK
<1>1. FromCache(a) \/ \E b \in held : FromPool(a, b)
  BY DEF MemInv, LiveFound
<1>2. ASSUME NEW b \in held
      PROVE  /\ page_to_virt(b[1]) \in Nat
             /\ page_to_virt(b[1] + Pow2(b[2])) \in Nat
             /\ page_to_virt(b[1] + Pow2(b[2])) = page_to_virt(b[1]) + PAGE_SIZE * Pow2(b[2])
  <2> DEFINE p == b[1]
             m == Pow2(b[2])
  <2>1. p \in Nat /\ m \in Nat
    BY <1>0, OneBlock, Sizes
  <2> SUFFICES /\ p * PAGE_SIZE \in Nat
               /\ (p + m) * PAGE_SIZE \in Nat
               /\ (p + m) * PAGE_SIZE = p * PAGE_SIZE + PAGE_SIZE * m
    BY DEF page_to_virt
  <2> HIDE DEF p, m
  <2> QED
    BY <1>0, <2>1
<1>3. CASE FromCache(a)
  <2>1. PICK k \in Caches, p \in Usable :
          kc[p] = k /\ a.addr \in Objects(p, k) /\ a.need <= kobj_default_size[k]
    BY <1>3 DEF FromCache, InSlab
  <2> DEFINE b == <<p, order(k)>>
  <2>2. b \in held /\ HeadPage(a.addr) = b[1]
    BY <1>0, <2>1, ObjectHead
  <2>3. /\ page_to_virt(p) <= a.addr
        /\ a.addr + kobj_default_size[k] <= page_to_virt(p + Pow2(order(k)))
    BY <2>1, Sizes, ObjectWithin
  <2>4. page_to_virt(p + Pow2(order(k))) \in Nat /\ kobj_default_size[k] \in Nat
    BY <1>2, <2>2, Sizes
  <2>5. a.addr + a.need <= page_to_virt(p + Pow2(order(k)))
    BY <1>0, <2>1, <2>3, <2>4
  <2> QED
    BY <1>0, <1>2, <2>1, <2>2, <2>3, <2>5
<1>4. ASSUME NEW b \in held, FromPool(a, b)
      PROVE  /\ HeadPage(a.addr) = b[1]
             /\ page_to_virt(b[1]) <= a.addr
             /\ a.addr + a.need <= page_to_virt(b[1] + Pow2(b[2]))
             /\ a.addr = page_to_virt(b[1])
  <2>1. a.addr = page_to_virt(b[1]) /\ a.need <= PAGE_SIZE * Pow2(b[2])
    BY <1>4 DEF FromPool
  <2>2. HeadPage(a.addr) = b[1]
    BY <1>0, <2>1, BlockHead
  <2>3. PAGE_SIZE * Pow2(b[2]) \in Nat
    BY <1>0, OneBlock, Sizes
  <2> QED
    BY <1>0, <1>2, <2>1, <2>2, <2>3
<1> QED
  BY <1>0, <1>1, <1>2, <1>3, <1>4

LEMMA LiveApart == TypeOK /\ MemInv => LiveDisjoint
<1> SUFFICES ASSUME TypeOK, MemInv
             PROVE  LiveDisjoint
  OBVIOUS
<1>0. HeldApart
  BY DEF MemInv
<1>1. ASSUME NEW a \in live, NEW d \in live, a # d
      PROVE  a.addr # d.addr /\ Words(a) \cap Words(d) = {}
  <2>1. a.addr # d.addr
    BY <1>1 DEF MemInv, OneOwner
  <2>2. PICK b \in held :
          /\ HeadPage(a.addr) = b[1]
          /\ page_to_virt(b[1]) \in Nat
          /\ page_to_virt(b[1] + Pow2(b[2])) \in Nat
          /\ page_to_virt(b[1]) <= a.addr
          /\ a.addr + a.need <= page_to_virt(b[1] + Pow2(b[2]))
          /\ \/ a.addr = page_to_virt(b[1])
             \/ \E k \in Caches : /\ kc[b[1]] = k
                                  /\ a.addr \in Objects(b[1], k)
                                  /\ a.need <= kobj_default_size[k]
    BY LiveWithin
  <2>3. PICK e \in held :
          /\ HeadPage(d.addr) = e[1]
          /\ page_to_virt(e[1]) \in Nat
          /\ page_to_virt(e[1] + Pow2(e[2])) \in Nat
          /\ page_to_virt(e[1]) <= d.addr
          /\ d.addr + d.need <= page_to_virt(e[1] + Pow2(e[2]))
          /\ \/ d.addr = page_to_virt(e[1])
             \/ \E k \in Caches : /\ kc[e[1]] = k
                                  /\ d.addr \in Objects(e[1], k)
                                  /\ d.need <= kobj_default_size[k]
    BY LiveWithin
  <2>4. a.addr \in Nat /\ a.need \in Nat /\ d.addr \in Nat /\ d.need \in Nat
    BY LiveWithin
  <2>5. a.addr + a.need <= d.addr \/ d.addr + d.need <= a.addr
    <3>1. CASE b # e
      <4>1. \/ page_to_virt(b[1] + Pow2(b[2])) <= page_to_virt(e[1])
            \/ page_to_virt(e[1] + Pow2(e[2])) <= page_to_virt(b[1])
        BY <1>0, <3>1, BlocksApart
      <4> QED
        BY <2>2, <2>3, <2>4, <4>1
    <3>2. CASE b = e
      <4>1. ASSUME NEW x \in live, NEW p \in Usable, NEW k \in Caches, kc[p] = k,
                   x.addr = page_to_virt(p)
            PROVE  x.addr \in Objects(p, k) /\ x.need <= kobj_default_size[k]
        <5>1. HeldApart /\ SlabsHeld
          BY DEF MemInv
        <5>2. <<p, order(k)>> \in held
          BY <4>1, <5>1, Sizes DEF SlabsHeld
        <5>3. HeadPage(x.addr) = p
          BY <4>1, <5>1, <5>2, BlockHead
        <5>4. ASSUME NEW h \in held, FromPool(x, h)
              PROVE  FALSE
          <6>1. x.addr = page_to_virt(h[1]) /\ kc[h[1]] = 0
            BY <5>4 DEF FromPool
          <6>2. h[1] = p
            BY <5>1, <5>3, <6>1, BlockHead
          <6> QED
            BY <4>1, <6>1, <6>2, Sizes
        <5>5. PICK m \in Caches, q \in Usable :
                kc[q] = m /\ x.addr \in Objects(q, m) /\ x.need <= kobj_default_size[m]
          BY <5>4 DEF MemInv, LiveFound, FromCache, InSlab
        <5>6. HeadPage(x.addr) = q
          BY <5>1, <5>5, ObjectHead
        <5> QED
          BY <4>1, <5>3, <5>5, <5>6
      <4>2. b[1] \in Usable
        BY <1>0, OneBlock
      <4>3. PICK k \in Caches :
              /\ a.addr \in Objects(b[1], k) /\ a.need <= kobj_default_size[k]
              /\ d.addr \in Objects(b[1], k) /\ d.need <= kobj_default_size[k]
        BY <2>1, <2>2, <2>3, <3>2, <4>1, <4>2
      <4>4. \/ a.addr + kobj_default_size[k] <= d.addr
            \/ d.addr + kobj_default_size[k] <= a.addr
        BY <2>1, <4>2, <4>3, Sizes, ObjectsApart
      <4>5. kobj_default_size[k] \in Nat
        BY Sizes
      <4> QED
        BY <2>4, <4>3, <4>4, <4>5
    <3> QED
      BY <3>1, <3>2
  <2>6. Words(a) \cap Words(d) = {}
    BY <2>4, <2>5 DEF Words
  <2> QED
    BY <2>1, <2>6
<1>2. ASSUME NEW a \in live
      PROVE  \E b \in held :
               Words(a) \subseteq page_to_virt(b[1]) .. page_to_virt(b[1] + Pow2(b[2])) - 1
  <2>1. PICK b \in held :
          /\ page_to_virt(b[1]) \in Nat
          /\ page_to_virt(b[1] + Pow2(b[2])) \in Nat
          /\ page_to_virt(b[1]) <= a.addr
          /\ a.addr + a.need <= page_to_virt(b[1] + Pow2(b[2]))
    BY LiveWithin
  <2>2. a.addr \in Nat /\ a.need \in Nat
    BY LiveWithin
  <2> QED
    BY <2>1, <2>2 DEF Words
<1> QED
  BY <1>1, <1>2 DEF LiveDisjoint

LEMMA UseFound == TypeOK /\ MemInv /\ Linked => InUseIsFindable
<1> SUFFICES ASSUME TypeOK, MemInv, Linked,
                    NEW x \in InUse, NEW k \in Caches, kc[HeadPage(x)] = k
             PROVE  /\ x \in Objects(HeadPage(x), k)
                    /\ HeadPage(x) = current[k] \/ HeadPage(x) \in full[k]
  BY DEF InUseIsFindable
<1>1. PICK b \in held :
        /\ HeadPage(x) = b[1]
        /\ \/ kc[b[1]] = 0 /\ x = page_to_virt(b[1])
           \/ kc[b[1]] \in Caches /\ x \in Objects(b[1], kc[b[1]])
  BY Owned
<1>2. x \in Objects(b[1], k) /\ b[1] \in Usable
  BY <1>1, Sizes, OneBlock DEF MemInv
<1> QED
  BY <1>1, <1>2 DEF Linked

LEMMA Counted == Counts => CountsObjects
  BY Sizes DEF Counts, CountsObjects, SlabsOf

-----------------------------------------------------------------------------
(* The locks of the caches.                                                *)

(* A CPU that finds the lock open takes it. *)
LEMMA Enters ==
  ASSUME TypeOK, LockInv, NEW c \in Cpus, NEW k \in Caches, lock[k] = 0,
         lock' = [lock EXCEPT ![k] = 1],
         NEW s \in {"obj_alloc", "obj_free"}, pc' = [pc EXCEPT ![c] = s],
         s = "obj_alloc" => size[c] <= kobj_default_size[k],
         i'[c] = k, \A d \in Cpus : d # c => i'[d] = i[d], size' = size
  PROVE  LockInv'
<1>1. /\ Critical(c)' /\ pc'[c] = s
      /\ \A d \in Cpus : d # c => pc'[d] = pc[d] /\ (Critical(d)' <=> Critical(d))
  BY DEF TypeOK, Critical
<1>2. lock'[k] = 1 /\ \A m \in Caches : m # k => lock'[m] = lock[m]
  BY DEF TypeOK
<1>3. \A d \in Cpus : d # c /\ Critical(d)' => i'[d] \in Caches /\ lock'[i'[d]] = 1 /\ i'[d] # k
  BY <1>1, <1>2 DEF LockInv, Locked
<1>4. (\A d \in Cpus : Critical(d) => i[d] \in Caches /\ lock[i[d]] = 1)'
  BY <1>1, <1>2, <1>3
<1>5. (\A d \in Cpus : pc[d] = "obj_alloc" => size[d] <= kobj_default_size[i[d]])'
  BY <1>1 DEF LockInv, Locked
<1>6. CacheExclusion'
  BY <1>1, <1>3 DEF LockInv, CacheExclusion
<1> QED
  BY <1>4, <1>5, <1>6 DEF LockInv, Locked

(* The CPU inside opens it again. *)
LEMMA Leaves ==
  ASSUME TypeOK, LockInv, NEW c \in Cpus, Critical(c),
         lock' = [lock EXCEPT ![i[c]] = 0],
         NEW s \in {"idle", "caches"}, pc' = [pc EXCEPT ![c] = s],
         \A d \in Cpus : d # c => i'[d] = i[d] /\ size'[d] = size[d]
  PROVE  LockInv'
<1>1. /\ ~ Critical(c)' /\ pc'[c] # "obj_alloc"
      /\ \A d \in Cpus : d # c => pc'[d] = pc[d] /\ (Critical(d)' <=> Critical(d))
  BY DEF TypeOK, Critical
<1>2. i[c] \in Caches /\ \A m \in Caches : m # i[c] => lock'[m] = lock[m]
  BY DEF TypeOK, LockInv, Locked
<1>3. \A d \in Cpus : d # c /\ Critical(d) => i[d] \in Caches /\ lock[i[d]] = 1 /\ i[d] # i[c]
  BY DEF LockInv, Locked, CacheExclusion
<1>4. (\A d \in Cpus : Critical(d) => i[d] \in Caches /\ lock[i[d]] = 1)'
  BY <1>1, <1>2, <1>3
<1>5. (\A d \in Cpus : pc[d] = "obj_alloc" => size[d] <= kobj_default_size[i[d]])'
  BY <1>1 DEF LockInv, Locked
<1>6. CacheExclusion'
  BY <1>1 DEF LockInv, CacheExclusion
<1> QED
  BY <1>4, <1>5, <1>6 DEF LockInv, Locked

(* What happens outside of the critical sections does not matter. *)
LEMMA StaysOutside ==
  ASSUME TypeOK, LockInv, NEW c \in Cpus, ~ Critical(c), lock' = lock,
         NEW s \in {"idle", "caches", "free_lock"}, pc' = [pc EXCEPT ![c] = s],
         \A d \in Cpus : d # c => i'[d] = i[d] /\ size'[d] = size[d]
  PROVE  LockInv'
<1>1. /\ ~ Critical(c)' /\ pc'[c] # "obj_alloc"
      /\ \A d \in Cpus : d # c => pc'[d] = pc[d] /\ (Critical(d)' <=> Critical(d))
  BY DEF TypeOK, Critical
<1>4. (\A d \in Cpus : Critical(d) => i[d] \in Caches /\ lock[i[d]] = 1)'
  BY <1>1 DEF LockInv, Locked
<1>5. (\A d \in Cpus : pc[d] = "obj_alloc" => size[d] <= kobj_default_size[i[d]])'
  BY <1>1 DEF LockInv, Locked
<1>6. CacheExclusion'
  BY <1>1 DEF LockInv, CacheExclusion
<1> QED
  BY <1>4, <1>5, <1>6 DEF LockInv, Locked

LEMMA Stutters ==
  ASSUME LockInv, UNCHANGED <<lock, pc, i, size>>
  PROVE  LockInv'
  BY DEF LockInv, Locked, CacheExclusion, Critical

-----------------------------------------------------------------------------
(* Steps that touch no object: the same callers hold the same objects.     *)

LEMMA ListsKept ==
  ASSUME TypeOK, ListInv, UNCHANGED <<kc, obj_nr, current, freelist, full>>,
         \A p \in Usable : kc[p] \in Caches =>
           \A x \in Objects(p, kc[p]) : x \in InUse' <=> x \in InUse
  PROVE  ListInv'
<1>1. \A p \in Usable : \A k \in Caches : kc[p] = k =>
        /\ Objects(p, k) \cap InUse' = Objects(p, k) \cap InUse
        /\ Objects(p, k) \ InUse' = Objects(p, k) \ InUse
  OBVIOUS
<1>2. Linked'
  BY <1>1 DEF ListInv, Linked
<1>3. Counts'
  <2>1. \A p \in Usable : kc[p] # 0 => kc[p] \in Caches
    BY DEF TypeOK
  <2> QED
    BY <1>1, <2>1 DEF ListInv, Counts
<1>4. FreelistIsCurrent'
  <2> SUFFICES ASSUME NEW k \in Caches
               PROVE  /\ IsInjective(freelist[k])
                      /\ ToSet(freelist[k]) \cap InUse' = {}
                      /\ IF current[k] = NoPage
                         THEN freelist[k] = <<>>
                         ELSE /\ kc[current[k]] = k
                              /\ ToSet(freelist[k]) = Objects(current[k], k) \ InUse'
                              /\ obj_nr[current[k]] = Len(freelist[k])
    BY DEF FreelistIsCurrent
  <2>1. /\ IsInjective(freelist[k])
        /\ ToSet(freelist[k]) \cap InUse = {}
        /\ IF current[k] = NoPage
           THEN freelist[k] = <<>>
           ELSE /\ kc[current[k]] = k
                /\ ToSet(freelist[k]) = Objects(current[k], k) \ InUse
                /\ obj_nr[current[k]] = Len(freelist[k])
    BY DEF ListInv, FreelistIsCurrent
  <2>2. CASE current[k] = NoPage
    <3>1. ToSet(freelist[k]) = {}
      BY <2>1, <2>2 DEF ToSet
    <3> QED
      BY <2>1, <2>2, <3>1
  <2>3. CASE current[k] # NoPage
    <3>1. current[k] \in Usable
      BY <2>3 DEF TypeOK
    <3> QED
      BY <1>1, <2>1, <2>3, <3>1
  <2> QED
    BY <2>2, <2>3
<1> QED
  BY <1>2, <1>3, <1>4 DEF ListInv

LEMMA Quiet ==
  ASSUME TypeOK, MemInv, ListInv, UNCHANGED <<held, refs, slabs, caches, live>>,
         \A d \in Cpus : /\ Freeing(d)' <=> Freeing(d)
                         /\ Freeing(d) => i'[d] = i[d] /\ obj'[d] = obj[d]
  PROVE  MemInv' /\ ListInv'
<1>1. \A x : (x \in InUse)' <=> x \in InUse
  BY DEF InUse, Freeing
<1>2. ListInv'
  BY <1>1, ListsKept DEF slabs, caches
<1>3. UNCHANGED <<held, refs, kc, current, partial, full, live>>
  BY DEF slabs, caches
<1>4. HeldApart' /\ SlabsHeld' /\ LiveFound' /\ ListsOfSlabs'
  BY <1>3 DEF MemInv, HeldApart, SlabsHeld, LiveFound, FromCache, FromPool, InSlab, ListsOfSlabs
<1>5. FreeingFound'
  BY <1>3 DEF MemInv, FreeingFound, InSlab
<1>6. OneOwner'
  BY <1>3 DEF MemInv, OneOwner
<1> QED
  BY <1>2, <1>4, <1>5, <1>6 DEF MemInv

LEMMA MallocKeeps ==
  ASSUME IInv, NEW c \in Cpus, NEW need \in Requests, Malloc(c, need)
  PROVE  MemInv' /\ ListInv' /\ LockInv'
<1>1. /\ pc[c] = "idle" /\ pc' = [pc EXCEPT ![c] = "caches"]
      /\ size' = [size EXCEPT ![c] = need]
      /\ UNCHANGED <<held, refs, slabs, caches, lock, live, i, obj>>
  BY DEF Malloc, Goto
<1>2. TypeOK /\ MemInv /\ ListInv /\ LockInv
  BY DEF IInv
<1>3. \A d \in Cpus : Freeing(d)' <=> Freeing(d)
  BY <1>1, <1>2 DEF Freeing, TypeOK
<1>4. ~ Critical(c) /\ \A d \in Cpus : d # c => size'[d] = size[d]
  BY <1>1, <1>2 DEF Critical, TypeOK
<1>5. MemInv' /\ ListInv'
  BY <1>1, <1>2, <1>3, Quiet
<1>6. LockInv'
  BY <1>1, <1>2, <1>4, StaysOutside
<1> QED
  BY <1>5, <1>6

LEMMA EnterCacheKeeps ==
  ASSUME IInv, NEW c \in Cpus, NEW k \in Caches, EnterCache(c, k)
  PROVE  MemInv' /\ ListInv' /\ LockInv'
<1>1. /\ pc[c] = "caches" /\ pc' = [pc EXCEPT ![c] = "obj_alloc"]
      /\ lock[k] = 0 /\ lock' = [lock EXCEPT ![k] = 1]
      /\ i' = [i EXCEPT ![c] = k]
      /\ size[c] <= kobj_default_size[k]
      /\ size' = size
      /\ UNCHANGED <<held, refs, slabs, caches, live, obj>>
  BY DEF EnterCache, Goto, Fitting
<1>2. TypeOK /\ MemInv /\ ListInv /\ LockInv
  BY DEF IInv
<1>3. \A d \in Cpus : /\ Freeing(d)' <=> Freeing(d)
                      /\ Freeing(d) => i'[d] = i[d] /\ obj'[d] = obj[d]
  BY <1>1, <1>2 DEF Freeing, TypeOK
<1>4. i'[c] = k /\ \A d \in Cpus : d # c => i'[d] = i[d]
  BY <1>1, <1>2 DEF TypeOK
<1>5. MemInv' /\ ListInv'
  BY <1>1, <1>2, <1>3, Quiet
<1>6. LockInv'
  BY <1>1, <1>2, <1>4, Enters
<1> QED
  BY <1>5, <1>6

LEMMA CacheFailsKeeps ==
  ASSUME IInv, NEW c \in Cpus, CacheFails(c)
  PROVE  MemInv' /\ ListInv' /\ LockInv'
<1>1. /\ pc[c] = "obj_alloc" /\ pc' = [pc EXCEPT ![c] = "caches"]
      /\ lock' = [lock EXCEPT ![i[c]] = 0]
      /\ UNCHANGED <<held, refs, slabs, caches, live, size, i, obj>>
  BY DEF CacheFails, Goto, locals
<1>2. TypeOK /\ MemInv /\ ListInv /\ LockInv
  BY DEF IInv
<1>3. \A d \in Cpus : Freeing(d)' <=> Freeing(d)
  BY <1>1, <1>2 DEF Freeing, TypeOK
<1>4. Critical(c)
  BY <1>1 DEF Critical
<1>5. MemInv' /\ ListInv'
  BY <1>1, <1>2, <1>3, Quiet
<1>6. LockInv'
  BY <1>1, <1>2, <1>4, Leaves
<1> QED
  BY <1>5, <1>6

LEMMA MallocFailsKeeps ==
  ASSUME IInv, NEW c \in Cpus, MallocFails(c)
  PROVE  MemInv' /\ ListInv' /\ LockInv'
<1>1. /\ pc[c] = "caches" /\ pc' = [pc EXCEPT ![c] = "idle"]
      /\ size' = [size EXCEPT ![c] = 0]
      /\ i' = [i EXCEPT ![c] = 0]
      /\ obj' = [obj EXCEPT ![c] = 0]
      /\ lock' = lock
      /\ UNCHANGED <<held, refs, slabs, caches, live>>
  BY DEF MallocFails, Return, Goto
<1>2. TypeOK /\ MemInv /\ ListInv /\ LockInv
  BY DEF IInv
<1>3. \A d \in Cpus : /\ Freeing(d)' <=> Freeing(d)
                      /\ Freeing(d) => i'[d] = i[d] /\ obj'[d] = obj[d]
  BY <1>1, <1>2 DEF Freeing, TypeOK
<1>4. ~ Critical(c) /\ \A d \in Cpus : d # c => i'[d] = i[d] /\ size'[d] = size[d]
  BY <1>1, <1>2 DEF Critical, TypeOK
<1>5. MemInv' /\ ListInv'
  BY <1>1, <1>2, <1>3, Quiet
<1>6. LockInv'
  BY <1>1, <1>2, <1>4, StaysOutside
<1> QED
  BY <1>5, <1>6

LEMMA LockFreeKeeps ==
  ASSUME IInv, NEW c \in Cpus, LockFree(c)
  PROVE  MemInv' /\ ListInv' /\ LockInv'
<1>1. /\ pc[c] = "free_lock" /\ pc' = [pc EXCEPT ![c] = "obj_free"]
      /\ lock[i[c]] = 0 /\ lock' = [lock EXCEPT ![i[c]] = 1]
      /\ UNCHANGED <<held, refs, slabs, caches, live, size, i, obj>>
  BY DEF LockFree, Goto, locals
<1>2. TypeOK /\ MemInv /\ ListInv /\ LockInv
  BY DEF IInv
<1>3. \A d \in Cpus : Freeing(d)' <=> Freeing(d)
  BY <1>1, <1>2 DEF Freeing, TypeOK
<1>4. i[c] \in Caches
  BY <1>1, <1>2 DEF MemInv, FreeingFound, Freeing
<1>5. MemInv' /\ ListInv'
  BY <1>1, <1>2, <1>3, Quiet
<1>6. LockInv'
  BY <1>1, <1>2, <1>4, Enters
<1> QED
  BY <1>5, <1>6

-----------------------------------------------------------------------------
(* Allocating from a cache.                                                *)

(* The free list of a cache that is at a page: its objects. *)
LEMMA CurrentPage ==
  ASSUME TypeOK, MemInv, ListInv, NEW k \in Caches, freelist[k] # <<>>
  PROVE  /\ current[k] \in Usable /\ kc[current[k]] = k
         /\ IsInjective(freelist[k])
         /\ ToSet(freelist[k]) = Objects(current[k], k) \ InUse
         /\ obj_nr[current[k]] = Len(freelist[k])
<1>1. current[k] # NoPage
  BY DEF ListInv, FreelistIsCurrent
<1> QED
  BY <1>1 DEF ListInv, FreelistIsCurrent, TypeOK

LEMMA PopObjectKeeps ==
  ASSUME IInv, NEW c \in Cpus, PopObject(c)
  PROVE  MemInv' /\ ListInv' /\ LockInv'
<1> DEFINE k == i[c]
           p == current[k]
           x == Head(freelist[k])
           new == [addr |-> x, need |-> size[c]]
<1>0. TypeOK /\ MemInv /\ ListInv /\ LockInv
  BY DEF IInv
<1>1. /\ pc[c] = "obj_alloc" /\ pc' = [pc EXCEPT ![c] = "idle"]
      /\ size' = [size EXCEPT ![c] = 0]
      /\ i' = [i EXCEPT ![c] = 0]
      /\ obj' = [obj EXCEPT ![c] = 0]
      /\ freelist[k] # <<>>
      /\ live' = live \cup {new}
      /\ freelist' = [freelist EXCEPT ![k] = Tail(@)]
      /\ obj_nr' = [obj_nr EXCEPT ![p] = @ - 1]
      /\ lock' = [lock EXCEPT ![k] = 0]
      /\ UNCHANGED <<held, refs, kc, current, partial, full>>
  BY DEF PopObject, Return, Goto
<1>2. Critical(c) /\ k \in Caches /\ size[c] <= kobj_default_size[k]
  BY <1>0, <1>1 DEF Critical, LockInv, Locked
<1>3. /\ p \in Usable /\ kc[p] = k
      /\ IsInjective(freelist[k])
      /\ ToSet(freelist[k]) = Objects(p, k) \ InUse
      /\ obj_nr[p] = Len(freelist[k])
  BY <1>0, <1>1, <1>2, CurrentPage
<1>4. freelist[k] \in Seq(Nat)
  BY <1>0, <1>2 DEF TypeOK
<1>5. /\ x \in ToSet(freelist[k]) /\ x \in Nat
      /\ Len(freelist[k]) \in Nat
      /\ Len(Tail(freelist[k])) = Len(freelist[k]) - 1
      /\ IsInjective(Tail(freelist[k]))
      /\ ToSet(Tail(freelist[k])) = ToSet(freelist[k]) \ {x}
  BY <1>1, <1>3, <1>4, HeadGone
<1>6. x \in Objects(p, k) /\ x \notin InUse
  BY <1>3, <1>5
<1>7. \A d \in Cpus : /\ Freeing(d)' <=> Freeing(d)
                      /\ Freeing(d) => i'[d] = i[d] /\ obj'[d] = obj[d]
  BY <1>0, <1>1 DEF Freeing, TypeOK
<1>8. LockInv'
  <2>1. \A d \in Cpus : d # c => i'[d] = i[d] /\ size'[d] = size[d]
    BY <1>0, <1>1 DEF TypeOK
  <2> QED
    BY <1>0, <1>1, <1>2, <2>1, Leaves
<1>9. new.addr = x /\ new.need = size[c]
  OBVIOUS
<1> HIDE DEF x, new, p, k
<1>10. InUse' = InUse \cup {x}
  <2>1. \A y : (y \in InUse)' <=> \/ \E a \in live' : y = a.addr
                                  \/ \E d \in Cpus : Freeing(d)' /\ y = obj'[d]
    BY DEF InUse, Freeing
  <2>2. \A y : y \in InUse' <=> y \in InUse \/ y = x
    BY <1>1, <1>7, <1>9, <2>1, Users
  <2> QED
    BY <2>2
<1>11. MemInv'
  <2>1. HeldApart' /\ SlabsHeld' /\ ListsOfSlabs'
    BY <1>0, <1>1 DEF MemInv, HeldApart, SlabsHeld, ListsOfSlabs
  <2>2. LiveFound'
    <3>1. InSlab(x, k)
      BY <1>3, <1>6 DEF InSlab
    <3>2. FromCache(new)
      BY <1>2, <1>9, <3>1 DEF FromCache
    <3> QED
      BY <1>0, <1>1, <3>2 DEF MemInv, LiveFound, FromCache, FromPool, InSlab
  <2>3. FreeingFound'
    BY <1>0, <1>1, <1>7 DEF MemInv, FreeingFound, InSlab
  <2>4. OneOwner'
    <3>1. \A a \in live : a.addr # x
      BY <1>6 DEF InUse
    <3>2. \A d \in Cpus : Freeing(d) => obj[d] # x
      BY <1>6, Users
    <3> QED
      BY <1>0, <1>1, <1>7, <1>9, <3>1, <3>2 DEF MemInv, OneOwner
  <2> QED
    BY <2>1, <2>2, <2>3, <2>4 DEF MemInv
<1>12. \A q \in Usable : \A m \in Caches : kc[q] = m /\ q # p =>
         /\ x \notin Objects(q, m)
         /\ Objects(q, m) \ InUse' = Objects(q, m) \ InUse
         /\ Objects(q, m) \cap InUse' = Objects(q, m) \cap InUse
  <2>1. HeldApart /\ SlabsHeld
    BY <1>0 DEF MemInv
  <2>2. \A q \in Usable : \A m \in Caches : kc[q] = m /\ q # p => x \notin Objects(q, m)
    BY <1>0, <1>2, <1>3, <1>6, <2>1, OneSlab
  <2> QED
    BY <1>10, <2>2
<1>13. obj_nr'[p] = obj_nr[p] - 1 /\ \A q \in Usable : q # p => obj_nr'[q] = obj_nr[q]
  BY <1>0, <1>1, <1>3 DEF TypeOK
<1>14. Linked'
  <2> SUFFICES ASSUME NEW m \in Caches, NEW q \in Usable, kc[q] = m, Objects(q, m) \cap InUse' # {}
               PROVE  q = current[m] \/ q \in full[m]
    BY <1>1 DEF Linked
  <2>1. CASE q = p
    BY <1>3, <2>1 DEF p
  <2>2. CASE q # p
    BY <1>0, <1>12, <2>2 DEF ListInv, Linked
  <2> QED
    BY <2>1, <2>2
<1>15. Counts'
  <2> SUFFICES ASSUME NEW q \in Usable, kc[q] # 0
               PROVE  obj_nr'[q] = Cardinality(Objects(q, kc[q]) \ InUse')
    BY <1>1 DEF Counts
  <2>0. kc[q] \in Caches
    BY <1>0 DEF TypeOK
  <2>1. CASE q = p
    <3>1. IsFiniteSet(Objects(p, k))
      BY <1>2, <1>3, NumberOfObjects, Sizes
    <3>2. Cardinality(Objects(p, k) \ InUse) = Cardinality(Objects(p, k) \ InUse') + 1
      <4>1. Cardinality(Objects(p, k) \ InUse) = Cardinality(Objects(p, k) \ (InUse \cup {x})) + 1
        BY <1>6, <3>1, OneTaken
      <4> QED
        BY <1>10, <4>1
    <3>3. obj_nr[p] = Cardinality(Objects(p, k) \ InUse)
      BY <1>0, <1>2, <1>3, Sizes DEF ListInv, Counts
    <3>4. Cardinality(Objects(p, k) \ InUse') \in Nat
      BY <1>2, <1>3, <3>1, FS_Difference, FS_CardinalityType
    <3>5. obj_nr[p] - 1 = Cardinality(Objects(p, k) \ InUse')
      BY <3>2, <3>3, <3>4
    <3> QED
      BY <1>3, <1>13, <2>1, <3>5
  <2>2. CASE q # p
    BY <1>0, <1>12, <1>13, <2>0, <2>2 DEF ListInv, Counts
  <2> QED
    BY <2>1, <2>2
<1>16. FreelistIsCurrent'
  <2> SUFFICES ASSUME NEW m \in Caches
               PROVE  /\ IsInjective(freelist'[m])
                      /\ ToSet(freelist'[m]) \cap InUse' = {}
                      /\ IF current[m] = NoPage
                         THEN freelist'[m] = <<>>
                         ELSE /\ kc[current[m]] = m
                              /\ ToSet(freelist'[m]) = Objects(current[m], m) \ InUse'
                              /\ obj_nr'[current[m]] = Len(freelist'[m])
    BY <1>1 DEF FreelistIsCurrent
  <2>1. CASE m = k
    <3>1. freelist'[k] = Tail(freelist[k])
      BY <1>0, <1>1, <1>2 DEF TypeOK
    <3>2. current[m] = p /\ p # NoPage
      BY <1>3, <2>1, Sizes DEF NoPage, p
    <3>3. ToSet(freelist'[m]) = Objects(p, k) \ InUse'
      BY <1>3, <1>5, <1>10, <2>1, <3>1
    <3> QED
      BY <1>3, <1>5, <1>13, <2>1, <3>1, <3>2, <3>3
  <2>2. CASE m # k
    <3>1. freelist'[m] = freelist[m]
      BY <1>0, <1>1, <2>2 DEF TypeOK
    <3>2. /\ IsInjective(freelist[m])
          /\ ToSet(freelist[m]) \cap InUse = {}
          /\ IF current[m] = NoPage
             THEN freelist[m] = <<>>
             ELSE /\ kc[current[m]] = m
                  /\ ToSet(freelist[m]) = Objects(current[m], m) \ InUse
                  /\ obj_nr[current[m]] = Len(freelist[m])
      BY <1>0 DEF ListInv, FreelistIsCurrent
    <3>3. CASE current[m] = NoPage
      <4>1. ToSet(freelist[m]) = {}
        BY <3>2, <3>3 DEF ToSet
      <4> QED
        BY <3>1, <3>2, <3>3, <4>1
    <3>4. CASE current[m] # NoPage
      <4>1. current[m] \in Usable /\ current[m] # p
        BY <1>0, <1>3, <2>2, <3>2, <3>4 DEF TypeOK
      <4> QED
        BY <1>12, <1>13, <3>1, <3>2, <3>4, <4>1
    <3> QED
      BY <3>3, <3>4
  <2> QED
    BY <2>1, <2>2
<1> QED
  BY <1>8, <1>11, <1>14, <1>15, <1>16 DEF ListInv

LEMMA RetireKeeps ==
  ASSUME IInv, NEW c \in Cpus, Retire(c)
  PROVE  MemInv' /\ ListInv' /\ LockInv'
<1> DEFINE k == i[c]
           p == current[k]
<1>0. TypeOK /\ MemInv /\ ListInv /\ LockInv
  BY DEF IInv
<1>1. /\ pc[c] = "obj_alloc" /\ freelist[k] = <<>>
      /\ p # NoPage
      /\ full' = [full EXCEPT ![k] = @ \cup {p}]
      /\ current' = [current EXCEPT ![k] = NoPage]
      /\ UNCHANGED <<held, refs, kc, obj_nr, freelist, partial, lock, live, pc, size, i, obj>>
  BY DEF Retire, slabs, locals
<1>2. k \in Caches
  BY <1>0, <1>1 DEF Critical, LockInv, Locked
<1>3. p \in Usable /\ kc[p] = k /\ refs[p] = 2
  BY <1>0, <1>1, <1>2 DEF TypeOK, MemInv, ListsOfSlabs
<1> HIDE DEF p, k
<1>4. /\ current'[k] = NoPage /\ full'[k] = full[k] \cup {p}
      /\ \A m \in Caches : m # k => current'[m] = current[m] /\ full'[m] = full[m]
  BY <1>0, <1>1, <1>2 DEF TypeOK
<1>5. InUse' = InUse
  BY <1>1 DEF InUse
<1>6. LockInv'
  BY <1>0, <1>1, Stutters
<1>7. MemInv'
  <2>1. HeldApart' /\ SlabsHeld' /\ LiveFound' /\ FreeingFound' /\ OneOwner'
    BY <1>0, <1>1 DEF MemInv, HeldApart, SlabsHeld, LiveFound, FreeingFound, OneOwner,
                      FromCache, FromPool, InSlab, Freeing
  <2>2. ListsOfSlabs'
    BY <1>0, <1>1, <1>3, <1>4 DEF MemInv, ListsOfSlabs
  <2> QED
    BY <2>1, <2>2 DEF MemInv
<1>8. Linked'
  <2> SUFFICES ASSUME NEW m \in Caches, NEW q \in Usable, kc[q] = m, Objects(q, m) \cap InUse # {}
               PROVE  q = current'[m] \/ q \in full'[m]
    BY <1>1, <1>5 DEF Linked
  <2>1. q = current[m] \/ q \in full[m]
    BY <1>0 DEF ListInv, Linked
  <2> QED
    BY <1>4, <2>1 DEF p
<1>9. Counts'
  BY <1>0, <1>1, <1>5 DEF ListInv, Counts
<1>10. FreelistIsCurrent'
  BY <1>0, <1>1, <1>4, <1>5 DEF ListInv, FreelistIsCurrent, k
<1> QED
  BY <1>6, <1>7, <1>8, <1>9, <1>10 DEF ListInv

(* A block that the pool grants has nothing in it that is in use, and none *)
(* of its pages names a cache.                                             *)
LEMMA Fresh ==
  ASSUME TypeOK, MemInv, NEW p \in Usable, NEW o \in Orders, Grantable(p, o)
  PROVE  /\ \A q \in Block(p, o) : q \in Usable /\ kc[q] = 0
         /\ p \in Block(p, o)
         /\ \A x \in InUse : x \div PAGE_SIZE \notin Block(p, o)
         /\ \A b \in held : b[1] # p
         /\ <<p, o>> \notin held
<1>0. HeldApart
  BY DEF MemInv
<1>1. p \in Nat /\ p \in Block(p, o)
  BY Sizes, FirstOfBlock
<1>2. \A b \in held : Block(p, o) \cap Pages(b) = {}
  BY DEF Grantable, Pages
<1>3. \A b \in held : b[1] # p
  BY <1>0, <1>1, <1>2, OneBlock
<1>4. ASSUME NEW q \in Block(p, o)
      PROVE  q \in Usable /\ kc[q] = 0
  <2>1. q \in Usable
    BY DEF Grantable
  <2>2. ASSUME kc[q] # 0
        PROVE  FALSE
    <3>1. <<q, order(kc[q])>> \in held
      BY <2>1, <2>2 DEF MemInv, SlabsHeld
    <3>2. q \in Pages(<<q, order(kc[q])>>)
      BY <1>0, <3>1, OneBlock
    <3> QED
      BY <1>2, <3>1, <3>2
  <2> QED
    BY <2>1, <2>2
<1>5. ASSUME NEW x \in InUse
      PROVE  x \div PAGE_SIZE \notin Block(p, o)
  <2>1. PICK b \in held : x \div PAGE_SIZE \in Pages(b)
    BY Owned
  <2> QED
    BY <1>2, <2>1
<1> QED
  BY <1>1, <1>3, <1>4, <1>5

(* With a granted block the blocks are still apart. *)
LEMMA GrantsApart ==
  ASSUME TypeOK, HeldApart, NEW p \in Usable, NEW o \in Orders, Grantable(p, o),
         held' = held \cup {<<p, o>>}
  PROVE  HeldApart'
<1>1. \A b \in held : Block(p, o) \cap Pages(b) = {}
  BY DEF Grantable, Pages
<1>2. Pages(<<p, o>>) = Block(p, o) /\ Block(p, o) \subseteq Usable
  BY DEF Pages, Grantable
<1> QED
  BY <1>1, <1>2 DEF HeldApart, Pages

LEMMA RefillKeeps ==
  ASSUME IInv, NEW c \in Cpus, Refill(c)
  PROVE  MemInv' /\ ListInv' /\ LockInv'
<1> DEFINE k == i[c]
<1>0. TypeOK /\ MemInv /\ ListInv /\ LockInv
  BY DEF IInv
<1>1. /\ pc[c] = "obj_alloc" /\ freelist[k] = <<>> /\ current[k] = NoPage
      /\ IF partial[k] # {} THEN UsePartial(k) ELSE UseNewPage(k)
      /\ UNCHANGED <<full, lock, live, pc, size, i, obj>>
  BY DEF Refill, locals
<1>2. k \in Caches
  BY <1>0, <1>1 DEF Critical, LockInv, Locked
<1>3. UseNewPage(k)
  BY <1>0, <1>1, <1>2 DEF MemInv, ListsOfSlabs
<1>4. PICK p \in Usable :
        /\ Grantable(p, order(k))
        /\ held' = held \cup {<<p, order(k)>>}
        /\ refs' = [refs EXCEPT ![p] = 2]
        /\ kc' = [q \in Usable |-> IF q = p THEN k
                                   ELSE IF q \in Block(p, order(k)) THEN 0 ELSE kc[q]]
        /\ obj_nr' = [obj_nr EXCEPT ![p] = page_obj_nr(k)]
        /\ current' = [current EXCEPT ![k] = p]
        /\ freelist' = [freelist EXCEPT ![k] = Sliced(p, k)]
        /\ UNCHANGED partial
  BY <1>3 DEF UseNewPage
<1> HIDE DEF k
<1>5. order(k) \in Orders /\ k # 0 /\ p \in Nat /\ p # NoPage
  BY <1>2, Sizes DEF NoPage
<1>6. /\ \A q \in Block(p, order(k)) : q \in Usable /\ kc[q] = 0
      /\ p \in Block(p, order(k))
      /\ \A x \in InUse : x \div PAGE_SIZE \notin Block(p, order(k))
      /\ \A b \in held : b[1] # p
  BY <1>0, <1>4, <1>5, Fresh
<1>7. /\ kc[p] = 0 /\ kc'[p] = k
      /\ \A q \in Usable : q # p => kc'[q] = kc[q]
  BY <1>4, <1>6
<1>8. /\ refs'[p] = 2 /\ obj_nr'[p] = page_obj_nr(k)
      /\ \A q \in Usable : q # p => refs'[q] = refs[q] /\ obj_nr'[q] = obj_nr[q]
      /\ current'[k] = p /\ freelist'[k] = Sliced(p, k)
      /\ \A m \in Caches : m # k => current'[m] = current[m] /\ freelist'[m] = freelist[m]
  BY <1>0, <1>2, <1>4 DEF TypeOK
<1>9. InUse' = InUse
  BY <1>1 DEF InUse
<1>10. LockInv'
  BY <1>0, <1>1, Stutters
<1>11. HeldApart' /\ <<p, order(k)>> \in held'
  BY <1>0, <1>4, <1>5, GrantsApart DEF MemInv
<1>12. \A x \in Objects(p, k) : x \notin InUse
  <2> SUFFICES ASSUME NEW x \in Objects(p, k)
               PROVE  x \div PAGE_SIZE \in Block(p, order(k))
    BY <1>6
  <2> DEFINE m == Pow2(order(k))
             s == kobj_default_size[k]
  <2>1. m \in Nat /\ PAGE_SIZE \in Nat /\ PAGE_SIZE >= 1 /\ s \in Nat /\ s >= 1
    BY <1>2, Sizes
  <2>2. x \in Nat /\ p * PAGE_SIZE <= x /\ x + s <= (p + m) * PAGE_SIZE
    BY <1>2, <1>5, ObjectWithin DEF page_to_virt
  <2>3. Block(p, order(k)) = p .. p + m - 1
    BY DEF Block
  <2> HIDE DEF m, s
  <2>4. x < (p + m) * PAGE_SIZE
    BY <1>5, <2>1, <2>2
  <2> QED
    BY <1>5, <2>1, <2>2, <2>3, <2>4, InPages
<1>13. MemInv'
  <2>1. SlabsHeld'
    BY <1>0, <1>4, <1>7 DEF MemInv, SlabsHeld
  <2>2. \A x : \A m \in Caches : InSlab(x, m) => InSlab(x, m)'
    <3> SUFFICES ASSUME NEW x, NEW m \in Caches, NEW q \in Usable, kc[q] = m, x \in Objects(q, m)
                 PROVE  kc'[q] = m
      BY DEF InSlab
    <3> QED
      BY <1>7, Sizes
  <2>3. LiveFound'
    <3> SUFFICES ASSUME NEW a \in live
                 PROVE  FromCache(a)' \/ \E b \in held' : FromPool(a, b)'
      BY <1>1 DEF LiveFound
    <3>1. CASE FromCache(a)
      BY <2>2, <3>1 DEF FromCache
    <3>2. ASSUME NEW b \in held, FromPool(a, b)
          PROVE  b \in held' /\ FromPool(a, b)'
      <4>1. b[1] \in Usable /\ b[1] # p
        BY <1>0, <1>6, OneBlock DEF MemInv
      <4> QED
        BY <1>4, <1>7, <1>8, <3>2, <4>1 DEF FromPool
    <3> QED
      BY <1>0, <3>1, <3>2 DEF MemInv, LiveFound
  <2>4. FreeingFound'
    BY <1>0, <1>1, <2>2 DEF MemInv, FreeingFound, Freeing
  <2>5. OneOwner'
    BY <1>0, <1>1 DEF MemInv, OneOwner, Freeing
  <2>6. ListsOfSlabs'
    <3> SUFFICES ASSUME NEW m \in Caches
                 PROVE  /\ partial'[m] = {}
                        /\ \A q \in full'[m] : kc'[q] = m /\ refs'[q] = 2
                        /\ current'[m] # NoPage => kc'[current'[m]] = m /\ refs'[current'[m]] = 2
      BY DEF ListsOfSlabs
    <3>1. /\ partial[m] = {}
          /\ \A q \in full[m] : kc[q] = m /\ refs[q] = 2 /\ q \in Usable
          /\ current[m] # NoPage =>
               kc[current[m]] = m /\ refs[current[m]] = 2 /\ current[m] \in Usable
      BY <1>0 DEF MemInv, ListsOfSlabs, TypeOK
    <3>2. m # 0
      BY Sizes
    <3>3. \A q \in full[m] : kc'[q] = m /\ refs'[q] = 2
      BY <1>7, <1>8, <3>1, <3>2
    <3>4. current'[m] # NoPage => kc'[current'[m]] = m /\ refs'[current'[m]] = 2
      BY <1>7, <1>8, <3>1, <3>2
    <3> QED
      BY <1>1, <1>4, <3>1, <3>3, <3>4
  <2> QED
    BY <1>11, <2>1, <2>3, <2>4, <2>5, <2>6 DEF MemInv
<1>14. Linked'
  <2> SUFFICES ASSUME NEW m \in Caches, NEW q \in Usable, kc'[q] = m, Objects(q, m) \cap InUse # {}
               PROVE  q = current'[m] \/ q \in full[m]
    BY <1>1, <1>9 DEF Linked
  <2>1. CASE q = p
    BY <1>7, <1>8, <2>1
  <2>2. CASE q # p
    <3>1. q = current[m] \/ q \in full[m]
      BY <1>0, <1>7, <2>2 DEF ListInv, Linked
    <3>2. q # NoPage
      BY Sizes DEF NoPage
    <3> QED
      BY <1>1, <1>8, <3>1, <3>2 DEF k
  <2> QED
    BY <2>1, <2>2
<1>15. /\ Objects(p, k) \ InUse = Objects(p, k)
       /\ Sliced(p, k) \in Seq(Nat)
       /\ Len(Sliced(p, k)) = page_obj_nr(k)
       /\ IsInjective(Sliced(p, k))
       /\ ToSet(Sliced(p, k)) = Objects(p, k)
       /\ Cardinality(Objects(p, k)) = page_obj_nr(k)
  BY <1>2, <1>5, <1>12, Slices, NumberOfObjects
<1>16. Counts'
  <2> SUFFICES ASSUME NEW q \in Usable, kc'[q] # 0
               PROVE  obj_nr'[q] = Cardinality(Objects(q, kc'[q]) \ InUse)
    BY <1>9 DEF Counts
  <2>1. CASE q = p
    BY <1>7, <1>8, <1>15, <2>1
  <2>2. CASE q # p
    BY <1>0, <1>7, <1>8, <2>2 DEF ListInv, Counts
  <2> QED
    BY <2>1, <2>2
<1>17. FreelistIsCurrent'
  <2> SUFFICES ASSUME NEW m \in Caches
               PROVE  /\ IsInjective(freelist'[m])
                      /\ ToSet(freelist'[m]) \cap InUse = {}
                      /\ IF current'[m] = NoPage
                         THEN freelist'[m] = <<>>
                         ELSE /\ kc'[current'[m]] = m
                              /\ ToSet(freelist'[m]) = Objects(current'[m], m) \ InUse
                              /\ obj_nr'[current'[m]] = Len(freelist'[m])
    BY <1>9 DEF FreelistIsCurrent
  <2>1. CASE m = k
    <3>1. ToSet(freelist'[m]) = Objects(current'[m], m) \ InUse
      BY <1>8, <1>15, <2>1
    <3> QED
      BY <1>5, <1>7, <1>8, <1>15, <2>1, <3>1
  <2>2. CASE m # k
    <3>1. /\ IsInjective(freelist[m])
          /\ ToSet(freelist[m]) \cap InUse = {}
          /\ IF current[m] = NoPage
             THEN freelist[m] = <<>>
             ELSE /\ kc[current[m]] = m
                  /\ ToSet(freelist[m]) = Objects(current[m], m) \ InUse
                  /\ obj_nr[current[m]] = Len(freelist[m])
      BY <1>0 DEF ListInv, FreelistIsCurrent
    <3>2. current[m] # NoPage => current[m] \in Usable /\ current[m] # p
      BY <1>0, <1>7, <3>1, Sizes DEF TypeOK
    <3> QED
      BY <1>7, <1>8, <2>2, <3>1, <3>2
  <2> QED
    BY <2>1, <2>2
<1> QED
  BY <1>10, <1>13, <1>14, <1>16, <1>17 DEF ListInv

-----------------------------------------------------------------------------
(* Allocating from the pool.                                               *)

LEMMA SmallQuotient ==
  ASSUME NEW y \in Nat, NEW n \in Nat, n >= 1, y \div n = 0
  PROVE  y < n
  BY PageOf

(* __malloc_pools asks for a block that is large enough. *)
LEMMA PoolOrder ==
  ASSUME NEW need \in Nat, NEW o \in Orders, pool_order(need, o)
  PROVE  need <= PAGE_SIZE * Pow2(o)
<1>1. PICK s \in Orders :
        /\ (need \div (2 * PAGE_SIZE)) \div Pow2(s) = 0
        /\ o = IF Pow2(s) * PAGE_SIZE < need THEN s + 1 ELSE s
  BY DEF pool_order, Shifts
<1> DEFINE n == PAGE_SIZE
           m == Pow2(s)
           w == Pow2(o)
           y == need \div (2 * n)
<1>2. n \in Nat /\ n >= 1 /\ m \in Nat /\ m >= 1 /\ w \in Nat
  BY Sizes
<1>3. \/ o = s /\ w = m /\ ~ m * n < need
      \/ w = 2 * m
  <2>1. o = s + 1 => w = 2 * m
    BY OrderAssumption DEF Pow2, Orders
  <2> QED
    BY <1>1, <2>1
<1>4. y \div m = 0
  BY <1>1
<1> HIDE DEF n, m, w
<1>5. 2 * n \in Nat /\ 2 * n >= 1
  BY <1>2
<1>6. y \in Nat /\ need < (y + 1) * (2 * n)
  <2> DEFINE d == 2 * n
  <2> HIDE DEF d
  <2> SUFFICES d \in Nat /\ d >= 1 => (need \div d) \in Nat /\ need < (need \div d + 1) * d
    BY <1>5 DEF d
  <2> QED
    BY PageOf
<1> HIDE DEF y
<1>7. y + 1 <= m /\ y + 1 \in Nat
  BY <1>2, <1>4, <1>6, SmallQuotient
<1>8. (y + 1) * (2 * n) <= m * (2 * n)
  BY <1>2, <1>5, <1>7, Grows
<1>9. m * (2 * n) = n * (2 * m) /\ m * n = n * m
  BY <1>2
<1>10. (y + 1) * (2 * n) \in Nat /\ n * (2 * m) \in Nat /\ n * m \in Nat
  BY <1>2, <1>7
<1>11. need <= n * w
  BY <1>3, <1>6, <1>8, <1>9, <1>10
<1> QED
  BY <1>11 DEF n, w

LEMMA PoolMallocKeeps ==
  ASSUME IInv, NEW c \in Cpus, PoolMalloc(c)
  PROVE  MemInv' /\ ListInv' /\ LockInv'
<1>0. TypeOK /\ MemInv /\ ListInv /\ LockInv
  BY DEF IInv
<1>1. /\ pc[c] = "caches" /\ pc' = [pc EXCEPT ![c] = "idle"]
      /\ size' = [size EXCEPT ![c] = 0]
      /\ i' = [i EXCEPT ![c] = 0]
      /\ obj' = [obj EXCEPT ![c] = 0]
      /\ UNCHANGED <<obj_nr, current, freelist, partial, full, lock>>
  BY DEF PoolMalloc, Return, Goto, caches
<1>2. PICK o \in Orders, p \in Usable :
        /\ pool_order(size[c], o)
        /\ Grantable(p, o)
        /\ held' = held \cup {<<p, o>>}
        /\ refs' = [refs EXCEPT ![p] = 2]
        /\ kc' = [q \in Usable |-> IF q \in Block(p, o) THEN 0 ELSE kc[q]]
        /\ live' = live \cup {[addr |-> page_to_virt(p), need |-> size[c]]}
  BY DEF PoolMalloc
<1> DEFINE x == page_to_virt(p)
           new == [addr |-> x, need |-> size[c]]
           b == <<p, o>>
<1>3. p \in Nat /\ size[c] \in Nat /\ size[c] <= PAGE_SIZE * Pow2(o)
  BY <1>0, <1>2, Sizes, PoolOrder DEF TypeOK
<1>4. /\ \A q \in Block(p, o) : q \in Usable /\ kc[q] = 0
      /\ p \in Block(p, o)
      /\ \A y \in InUse : y \div PAGE_SIZE \notin Block(p, o)
      /\ \A e \in held : e[1] # p
  BY <1>0, <1>2, Fresh
<1>5. kc' = kc
  BY <1>0, <1>2, <1>4 DEF TypeOK
<1>6. x \in Nat /\ x \div PAGE_SIZE = p
  BY <1>3, FirstWord
<1>7. x \notin InUse
  BY <1>4, <1>6
<1>8. /\ new.addr = x /\ new.need = size[c]
      /\ b[1] = p /\ b[2] = o
      /\ live' = live \cup {new}
      /\ held' = held \cup {b}
  BY <1>2
<1>9. /\ refs'[p] = 2
      /\ \A q \in Usable : q # p => refs'[q] = refs[q]
  BY <1>0, <1>2 DEF TypeOK
<1>10. \A d \in Cpus : /\ Freeing(d)' <=> Freeing(d)
                       /\ Freeing(d) => i'[d] = i[d] /\ obj'[d] = obj[d]
  BY <1>0, <1>1 DEF Freeing, TypeOK
<1>11. LockInv'
  <2>1. ~ Critical(c) /\ \A d \in Cpus : d # c => i'[d] = i[d] /\ size'[d] = size[d]
    BY <1>0, <1>1 DEF Critical, TypeOK
  <2> QED
    BY <1>0, <1>1, <2>1, StaysOutside
<1>12. HeldApart'
  BY <1>0, <1>2, GrantsApart DEF MemInv
<1> HIDE DEF x, new, b
<1>13. \A y : y \in InUse' <=> y \in InUse \/ y = x
  <2>1. \A y : (y \in InUse)' <=> \/ \E a \in live' : y = a.addr
                                  \/ \E d \in Cpus : Freeing(d)' /\ y = obj'[d]
    BY DEF InUse, Freeing
  <2> QED
    BY <1>8, <1>10, <2>1, Users
<1>14. MemInv'
  <2>1. SlabsHeld'
    BY <1>0, <1>5, <1>8 DEF MemInv, SlabsHeld
  <2>2. LiveFound'
    <3>1. \A a : FromCache(a)' <=> FromCache(a)
      BY <1>5 DEF FromCache, InSlab
    <3>2. ASSUME NEW a \in live, NEW e \in held, FromPool(a, e)
          PROVE  e \in held' /\ FromPool(a, e)'
      <4>1. e[1] \in Usable /\ e[1] # p
        BY <1>0, <1>4, OneBlock DEF MemInv
      <4> QED
        BY <1>5, <1>8, <1>9, <3>2, <4>1 DEF FromPool
    <3> SUFFICES ASSUME NEW a \in live'
                 PROVE  FromCache(a)' \/ \E e \in held' : FromPool(a, e)'
      BY DEF LiveFound
    <3>3. CASE a \in live
      BY <1>0, <3>1, <3>2, <3>3 DEF MemInv, LiveFound
    <3>4. CASE a = new
      <4>1. b \in held' /\ b[1] = p /\ b[2] = o
        BY <1>8
      <4>2. kc'[p] = 0
        BY <1>4, <1>5
      <4>3. FromPool(a, b)'
        BY <1>3, <1>8, <1>9, <3>4, <4>1, <4>2 DEF FromPool, x, b
      <4> QED
        BY <4>1, <4>3
    <3> QED
      BY <1>8, <3>3, <3>4
  <2>3. FreeingFound'
    BY <1>0, <1>5, <1>10 DEF MemInv, FreeingFound, InSlab
  <2>4. OneOwner'
    <3>1. \A a \in live : a.addr # x
      BY <1>7 DEF InUse
    <3>2. \A d \in Cpus : Freeing(d) => obj[d] # x
      BY <1>7, Users
    <3> QED
      BY <1>0, <1>8, <1>10, <3>1, <3>2 DEF MemInv, OneOwner
  <2>5. ListsOfSlabs'
    <3> SUFFICES ASSUME NEW m \in Caches
                 PROVE  /\ partial[m] = {}
                        /\ \A q \in full[m] : kc[q] = m /\ refs'[q] = 2
                        /\ current[m] # NoPage => kc[current[m]] = m /\ refs'[current[m]] = 2
      BY <1>1, <1>5 DEF ListsOfSlabs
    <3>1. /\ partial[m] = {}
          /\ \A q \in full[m] : kc[q] = m /\ refs[q] = 2 /\ q \in Usable
          /\ current[m] # NoPage =>
               kc[current[m]] = m /\ refs[current[m]] = 2 /\ current[m] \in Usable
      BY <1>0 DEF MemInv, ListsOfSlabs, TypeOK
    <3>2. m # 0 /\ kc[p] = 0
      BY <1>4, Sizes
    <3> QED
      BY <1>9, <3>1, <3>2
  <2> QED
    BY <1>12, <2>1, <2>2, <2>3, <2>4, <2>5 DEF MemInv
<1>15. ListInv'
  <2>1. ASSUME NEW q \in Usable, kc[q] \in Caches, NEW y \in Objects(q, kc[q])
        PROVE  y # x
    <3>1. /\ <<q, order(kc[q])>> \in held
          /\ y \div PAGE_SIZE \in Pages(<<q, order(kc[q])>>)
      BY <1>0, <2>1, ObjectHead DEF MemInv
    <3>2. Block(p, o) \cap Pages(<<q, order(kc[q])>>) = {}
      BY <1>2, <3>1 DEF Grantable, Pages
    <3> QED
      BY <1>4, <1>6, <3>1, <3>2
  <2>2. \A q \in Usable : kc[q] \in Caches =>
          \A y \in Objects(q, kc[q]) : y \in InUse' <=> y \in InUse
    BY <1>13, <2>1
  <2> QED
    BY <1>0, <1>1, <1>5, <2>2, ListsKept
<1> QED
  BY <1>11, <1>14, <1>15

-----------------------------------------------------------------------------
(* Freeing.                                                                *)

LEMMA FreeKeeps ==
  ASSUME IInv, NEW c \in Cpus, NEW a \in live, Free(c, a)
  PROVE  MemInv' /\ ListInv' /\ LockInv'
<1> DEFINE p == HeadPage(a.addr)
<1>0. TypeOK /\ MemInv /\ ListInv /\ LockInv
  BY DEF IInv
<1>1. /\ pc[c] = "idle" /\ live' = live \ {a}
      /\ IF kc[p] = 0
         THEN /\ Release(CHOOSE b \in held : b[1] = p)
              /\ UNCHANGED <<pc, i, obj>>
         ELSE /\ pc' = [pc EXCEPT ![c] = "free_lock"]
              /\ i' = [i EXCEPT ![c] = kc[p]]
              /\ obj' = [obj EXCEPT ![c] = a.addr]
              /\ UNCHANGED <<held, refs>>
      /\ UNCHANGED <<kc, obj_nr, current, freelist, partial, full, lock, size>>
  BY DEF Free, slabs, caches
<1>2. a.addr \in InUse
  BY DEF InUse
<1>3. PICK b \in held :
        /\ p = b[1]
        /\ a.addr \div PAGE_SIZE \in Pages(b)
        /\ \/ kc[p] = 0 /\ a.addr = page_to_virt(p)
           \/ kc[p] \in Caches /\ a.addr \in Objects(p, kc[p])
  BY <1>0, <1>2, Owned
<1>4. p \in Usable /\ HeldApart /\ SlabsHeld
  BY <1>0, <1>3, OneBlock DEF MemInv
<1>5. \A d \in live : d # a => d.addr # a.addr
  BY <1>0 DEF MemInv, OneOwner
<1> HIDE DEF p
<1>6. ~ Freeing(c) /\ ~ Critical(c)
  BY <1>1 DEF Freeing, Critical
<1>7. CASE kc[p] = 0
  <2>1. (CHOOSE e \in held : e[1] = p) = b
    BY <1>0, <1>3, <1>4, ChosenBlock
  <2>2. Release(b) /\ UNCHANGED <<pc, i, obj>>
    BY <1>1, <1>7, <2>1
  <2>3. FromPool(a, b)
    <3>1. ASSUME FromCache(a)
          PROVE  FALSE
      <4>1. PICK k \in Caches, q \in Usable : kc[q] = k /\ a.addr \in Objects(q, k)
        BY <3>1 DEF FromCache, InSlab
      <4>2. HeadPage(a.addr) = q
        BY <1>0, <1>4, <4>1, ObjectHead
      <4> QED
        BY <1>7, <4>1, <4>2, Sizes DEF p
    <3>2. PICK e \in held : FromPool(a, e)
      BY <1>0, <3>1 DEF MemInv, LiveFound
    <3>3. e[1] = p
      BY <1>0, <1>4, <3>2, BlockHead DEF FromPool, p
    <3>4. e = b
      BY <1>0, <1>3, <1>4, <3>3, OneBlock
    <3> QED
      BY <3>2, <3>4
  <2>4. refs[p] = 2
    BY <1>3, <2>3 DEF FromPool
  <2>5. held' = held /\ refs' = [refs EXCEPT ![p] = @ - 1]
    BY <1>3, <2>2, <2>4 DEF Release
  <2>6. \A q \in Usable : q # p => refs'[q] = refs[q]
    BY <1>0, <2>5 DEF TypeOK
  <2>7. \A x : x \in InUse' => x \in InUse
    BY <1>1, <2>2 DEF InUse
  <2>8. \A x \in InUse : x # a.addr => x \in InUse'
    BY <1>1, <2>2 DEF InUse
  <2>9. MemInv'
    <3>1. HeldApart' /\ SlabsHeld'
      BY <1>0, <1>1, <2>5 DEF MemInv, HeldApart, SlabsHeld
    <3>2. LiveFound'
      <4> SUFFICES ASSUME NEW d \in live, d # a
                   PROVE  FromCache(d)' \/ \E e \in held : FromPool(d, e)'
        BY <1>1, <2>5 DEF LiveFound
      <4>1. CASE FromCache(d)
        BY <1>1, <4>1 DEF FromCache, InSlab
      <4>2. ASSUME NEW e \in held, FromPool(d, e)
            PROVE  FromPool(d, e)'
        <5>1. e[1] # p
          BY <1>3, <1>5, <2>3, <4>2 DEF FromPool
        <5>2. e[1] \in Usable
          BY <1>0, <1>4, OneBlock
        <5> QED
          BY <1>1, <2>6, <4>2, <5>1, <5>2 DEF FromPool
      <4> QED
        BY <1>0, <4>1, <4>2 DEF MemInv, LiveFound
    <3>3. FreeingFound' /\ OneOwner'
      BY <1>0, <1>1, <2>2 DEF MemInv, FreeingFound, OneOwner, InSlab, Freeing
    <3>4. ListsOfSlabs'
      <4> SUFFICES ASSUME NEW m \in Caches
                   PROVE  /\ partial[m] = {}
                          /\ \A q \in full[m] : kc[q] = m /\ refs'[q] = 2
                          /\ current[m] # NoPage => kc[current[m]] = m /\ refs'[current[m]] = 2
        BY <1>1 DEF ListsOfSlabs
      <4>1. /\ partial[m] = {}
            /\ \A q \in full[m] : kc[q] = m /\ refs[q] = 2 /\ q \in Usable
            /\ current[m] # NoPage =>
                 kc[current[m]] = m /\ refs[current[m]] = 2 /\ current[m] \in Usable
        BY <1>0 DEF MemInv, ListsOfSlabs, TypeOK
      <4>2. m # 0
        BY Sizes
      <4> QED
        BY <1>7, <2>6, <4>1, <4>2
    <3> QED
      BY <3>1, <3>2, <3>3, <3>4 DEF MemInv
  <2>10. ListInv'
    <3>1. ASSUME NEW q \in Usable, kc[q] \in Caches, NEW x \in Objects(q, kc[q])
          PROVE  x # a.addr
      <4>1. HeadPage(x) = q
        BY <1>0, <1>4, <3>1, ObjectHead
      <4> QED
        BY <1>7, <3>1, <4>1, Sizes DEF p
    <3>2. \A q \in Usable : kc[q] \in Caches =>
            \A x \in Objects(q, kc[q]) : x \in InUse' <=> x \in InUse
      BY <2>7, <2>8, <3>1
    <3> QED
      BY <1>0, <1>1, <3>2, ListsKept
  <2>11. LockInv'
    BY <1>0, <1>1, <2>2, Stutters
  <2> QED
    BY <2>9, <2>10, <2>11
<1>8. CASE kc[p] # 0
  <2>1. /\ pc' = [pc EXCEPT ![c] = "free_lock"]
        /\ i' = [i EXCEPT ![c] = kc[p]]
        /\ obj' = [obj EXCEPT ![c] = a.addr]
        /\ UNCHANGED <<held, refs>>
    BY <1>1, <1>8
  <2>2. kc[p] \in Caches /\ a.addr \in Objects(p, kc[p])
    BY <1>3, <1>8
  <2>3. /\ Freeing(c)' /\ i'[c] = kc[p] /\ obj'[c] = a.addr
        /\ \A d \in Cpus : d # c => /\ Freeing(d)' <=> Freeing(d)
                                    /\ i'[d] = i[d] /\ obj'[d] = obj[d]
    BY <1>0, <2>1 DEF TypeOK, Freeing
  <2>4. \A x : (x \in InUse)' <=> x \in InUse
    <3>1. \A x : (x \in InUse)' <=> \/ \E d \in live' : x = d.addr
                                    \/ \E d \in Cpus : Freeing(d)' /\ x = obj'[d]
      BY DEF InUse, Freeing
    <3>2. ASSUME NEW x \in InUse'
          PROVE  x \in InUse
      <4>1. CASE \E d \in live' : x = d.addr
        BY <1>1, <4>1, Users
      <4>2. CASE \E d \in Cpus : Freeing(d)' /\ x = obj'[d]
        BY <1>2, <2>3, <4>2, Users
      <4> QED
        BY <3>1, <3>2, <4>1, <4>2
    <3>3. ASSUME NEW x \in InUse
          PROVE  x \in InUse'
      <4>1. CASE \E d \in live : x = d.addr
        BY <1>1, <2>3, <3>1, <4>1
      <4>2. CASE \E d \in Cpus : Freeing(d) /\ x = obj[d]
        BY <1>6, <2>3, <3>1, <4>2
      <4> QED
        BY <3>3, <4>1, <4>2, Users
    <3> QED
      BY <3>2, <3>3
  <2>5. MemInv'
    <3>1. HeldApart' /\ SlabsHeld' /\ LiveFound' /\ ListsOfSlabs'
      BY <1>0, <1>1, <2>1 DEF MemInv, HeldApart, SlabsHeld, LiveFound, ListsOfSlabs,
                              FromCache, FromPool, InSlab
    <3>2. FreeingFound'
      BY <1>0, <1>1, <1>4, <2>2, <2>3 DEF MemInv, FreeingFound, InSlab
    <3>3. OneOwner'
      BY <1>0, <1>1, <1>5, <2>3 DEF MemInv, OneOwner
    <3> QED
      BY <3>1, <3>2, <3>3 DEF MemInv
  <2>6. ListInv'
    BY <1>0, <1>1, <2>4, ListsKept
  <2>7. LockInv'
    <3>1. \A d \in Cpus : d # c => i'[d] = i[d] /\ size'[d] = size[d]
      BY <1>1, <2>3
    <3> QED
      BY <1>0, <1>1, <1>6, <2>1, <3>1, StaysOutside
  <2> QED
    BY <2>5, <2>6, <2>7
<1> QED
  BY <1>7, <1>8

(* What FreeDone does to the pages: the page is current, or it stays where *)
(* it is, or it has no object in use any more and is taken off its list.   *)
LEMMA FreeDoneCases ==
  ASSUME IInv, NEW c \in Cpus, FreeDone(c)
  PROVE  LET k == i[c]
             p == HeadPage(obj[c])
         IN  /\ k \in Caches /\ p \in Usable /\ kc[p] = k
             /\ obj[c] \in Objects(p, k) /\ obj[c] \in InUse /\ obj[c] \in Nat
             /\ held' = held
             /\ obj_nr' = [obj_nr EXCEPT ![p] = @ + 1]
             /\ \/ /\ p = current[k]
                   /\ freelist' = [freelist EXCEPT ![k] = <<obj[c]>> \o @]
                   /\ UNCHANGED <<refs, full>>
                \/ /\ p # current[k]
                   /\ UNCHANGED <<freelist, refs, full>>
                \/ /\ p # current[k]
                   /\ obj_nr'[p] = page_obj_nr(k)
                   /\ full' = [full EXCEPT ![k] = @ \ {p}]
                   /\ refs' = [refs EXCEPT ![p] = @ - 1]
                   /\ UNCHANGED freelist
<1> DEFINE k == i[c]
           x == obj[c]
           p == HeadPage(x)
<1>0. TypeOK /\ MemInv /\ ListInv /\ LockInv
  BY DEF IInv
<1>1. /\ pc[c] = "obj_free"
      /\ obj_nr' = [obj_nr EXCEPT ![p] = @ + 1]
      /\ IF p = current[k]
         THEN /\ freelist' = [freelist EXCEPT ![k] = <<x>> \o @]
              /\ UNCHANGED <<held, refs, full>>
         ELSE /\ IF obj_nr'[p] = 1
                 THEN /\ full' = [full EXCEPT ![k] = (@ \ {p}) \cup {p}]
                      /\ UNCHANGED <<held, refs>>
                 ELSE IF obj_nr'[p] = page_obj_nr(k)
                 THEN /\ full' = [full EXCEPT ![k] = @ \ {p}]
                      /\ Release(<<p, order(k)>>)
                 ELSE UNCHANGED <<held, refs, full>>
              /\ UNCHANGED freelist
  BY DEF FreeDone, Return, Goto
<1>2. Freeing(c) /\ k \in Caches /\ InSlab(x, k)
  BY <1>0, <1>1 DEF Freeing, MemInv, FreeingFound
<1>3. x \in InUse
  BY <1>2, Users
<1>4. p \in Usable /\ kc[p] = k /\ x \in Objects(p, k) /\ x \in Nat
  BY <1>0, <1>2, ObjectHead DEF InSlab, MemInv
<1> HIDE DEF k, x, p
<1>5. p # current[k] => p \in full[k] /\ refs[p] = 2
  BY <1>0, <1>2, <1>3, <1>4 DEF ListInv, Linked, MemInv, ListsOfSlabs
<1>6. \/ /\ p = current[k]
         /\ freelist' = [freelist EXCEPT ![k] = <<x>> \o @]
         /\ UNCHANGED <<held, refs, full>>
      \/ /\ p # current[k]
         /\ UNCHANGED <<held, freelist, refs, full>>
      \/ /\ p # current[k]
         /\ obj_nr'[p] = page_obj_nr(k)
         /\ full' = [full EXCEPT ![k] = @ \ {p}]
         /\ refs' = [refs EXCEPT ![p] = @ - 1]
         /\ UNCHANGED <<held, freelist>>
  <2>1. CASE p = current[k]
    BY <1>1, <2>1
  <2>2. CASE p # current[k] /\ obj_nr'[p] = 1
    <3>1. full' = [full EXCEPT ![k] = (@ \ {p}) \cup {p}] /\ UNCHANGED <<held, refs, freelist>>
      BY <1>1, <2>2
    <3>2. full' = full
      BY <1>0, <1>2, <1>5, <2>2, <3>1 DEF TypeOK
    <3> QED
      BY <2>2, <3>1, <3>2
  <2>3. CASE p # current[k] /\ obj_nr'[p] # 1 /\ obj_nr'[p] = page_obj_nr(k)
    <3>1. /\ full' = [full EXCEPT ![k] = @ \ {p}] /\ Release(<<p, order(k)>>)
          /\ UNCHANGED freelist
      BY <1>1, <2>3
    <3>2. held' = held /\ refs' = [refs EXCEPT ![p] = @ - 1]
      BY <1>5, <2>3, <3>1 DEF Release
    <3> QED
      BY <2>3, <3>1, <3>2
  <2>4. CASE p # current[k] /\ obj_nr'[p] # 1 /\ obj_nr'[p] # page_obj_nr(k)
    BY <1>1, <2>4
  <2> QED
    BY <2>1, <2>2, <2>3, <2>4
<1> QED
  BY <1>1, <1>2, <1>3, <1>4, <1>6 DEF k, x, p

LEMMA FreeDoneKeeps ==
  ASSUME IInv, NEW c \in Cpus, FreeDone(c)
  PROVE  MemInv' /\ ListInv' /\ LockInv'
<1> DEFINE k == i[c]
           x == obj[c]
           p == HeadPage(x)
           Gone == /\ p # current[k]
                   /\ obj_nr'[p] = page_obj_nr(k)
                   /\ full' = [full EXCEPT ![k] = @ \ {p}]
                   /\ refs' = [refs EXCEPT ![p] = @ - 1]
                   /\ UNCHANGED freelist
<1>0. TypeOK /\ MemInv /\ ListInv /\ LockInv
  BY DEF IInv
<1>1. /\ pc[c] = "obj_free" /\ pc' = [pc EXCEPT ![c] = "idle"]
      /\ size' = [size EXCEPT ![c] = 0]
      /\ i' = [i EXCEPT ![c] = 0]
      /\ obj' = [obj EXCEPT ![c] = 0]
      /\ lock' = [lock EXCEPT ![k] = 0]
      /\ UNCHANGED <<kc, current, partial, live>>
  BY DEF FreeDone, Return, Goto
<1>2. /\ k \in Caches /\ p \in Usable /\ kc[p] = k
      /\ x \in Objects(p, k) /\ x \in InUse /\ x \in Nat
      /\ held' = held
      /\ obj_nr' = [obj_nr EXCEPT ![p] = @ + 1]
      /\ \/ /\ p = current[k]
            /\ freelist' = [freelist EXCEPT ![k] = <<x>> \o @]
            /\ UNCHANGED <<refs, full>>
         \/ /\ p # current[k]
            /\ UNCHANGED <<freelist, refs, full>>
         \/ Gone
  BY FreeDoneCases
<1>3. HeldApart /\ SlabsHeld /\ OneOwner
  BY <1>0 DEF MemInv
<1>4. Critical(c) /\ Freeing(c)
  BY <1>1 DEF Critical, Freeing
<1>5. \A d \in Cpus : /\ Freeing(d)' <=> Freeing(d) /\ d # c
                      /\ d # c => i'[d] = i[d] /\ obj'[d] = obj[d] /\ size'[d] = size[d]
  BY <1>0, <1>1 DEF Freeing, TypeOK
<1>6. LockInv'
  BY <1>0, <1>1, <1>4, <1>5, Leaves
<1> HIDE DEF k, p
<1>7. \A d \in Cpus : Freeing(d) /\ d # c => obj[d] # x
  BY <1>3, <1>4 DEF OneOwner
<1>8. \A a \in live : a.addr # x
  BY <1>3, <1>4 DEF OneOwner
<1>9. InUse' = InUse \ {x}
  <2>1. \A y : (y \in InUse)' <=> \/ \E a \in live' : y = a.addr
                                  \/ \E d \in Cpus : Freeing(d)' /\ y = obj'[d]
    BY DEF InUse, Freeing
  <2>2. \A y : y \in InUse <=> \/ \E a \in live : y = a.addr
                               \/ \E d \in Cpus : Freeing(d) /\ y = obj[d]
    BY Users
  <2> HIDE DEF x
  <2>3. \A y : y \in InUse' => y \in InUse /\ y # x
    BY <1>1, <1>5, <1>7, <1>8, <2>1, <2>2
  <2>4. \A y : y \in InUse /\ y # x => y \in InUse'
    BY <1>1, <1>5, <2>1, <2>2 DEF x
  <2> QED
    BY <2>3, <2>4
<1> HIDE DEF x
<1>10. obj_nr'[p] = obj_nr[p] + 1 /\ \A q \in Usable : q # p => obj_nr'[q] = obj_nr[q]
  BY <1>0, <1>2 DEF TypeOK
<1>11. /\ \A q \in Usable : q # p => refs'[q] = refs[q]
       /\ \A m \in Caches : /\ full'[m] \subseteq full[m]
                            /\ \A q : q # p /\ q \in full[m] => q \in full'[m]
  <2>1. CASE refs' = refs /\ full' = full
    BY <2>1
  <2>2. CASE Gone
    <3>1. refs' = [refs EXCEPT ![p] = @ - 1] /\ full' = [full EXCEPT ![k] = @ \ {p}]
      BY <2>2
    <3>2. \A q \in Usable : q # p => refs'[q] = refs[q]
      BY <1>0, <3>1 DEF TypeOK
    <3>3. \A m \in Caches : full'[m] = full[m] \/ full'[m] = full[m] \ {p}
      BY <1>0, <3>1 DEF TypeOK
    <3> QED
      BY <3>2, <3>3
  <2> QED
    BY <1>2, <2>1, <2>2
<1>12. \A q \in Usable : \A m \in Caches : kc[q] = m /\ q # p =>
         /\ x \notin Objects(q, m)
         /\ Objects(q, m) \ InUse' = Objects(q, m) \ InUse
  <2>1. \A q \in Usable : \A m \in Caches : kc[q] = m /\ q # p => x \notin Objects(q, m)
    BY <1>0, <1>2, <1>3, OneSlab
  <2> QED
    BY <1>9, <2>1
<1>13. /\ IsFiniteSet(Objects(p, k))
       /\ Cardinality(Objects(p, k)) = page_obj_nr(k)
  BY <1>2, NumberOfObjects, Sizes
<1>14. Counts'
  <2> SUFFICES ASSUME NEW q \in Usable, kc[q] # 0
               PROVE  obj_nr'[q] = Cardinality(Objects(q, kc[q]) \ InUse')
    BY <1>1 DEF Counts
  <2>0. kc[q] \in Caches
    BY <1>0 DEF TypeOK
  <2>1. CASE q = p
    <3>1. x \notin InUse' /\ InUse = InUse' \cup {x}
      BY <1>2, <1>9
    <3>2. Cardinality(Objects(p, k) \ InUse') = Cardinality(Objects(p, k) \ (InUse' \cup {x})) + 1
      BY <1>2, <1>13, <3>1, OneTaken
    <3>3. obj_nr[p] = Cardinality(Objects(p, k) \ InUse)
      BY <1>0, <1>2, Sizes DEF ListInv, Counts
    <3>4. obj_nr[p] + 1 = Cardinality(Objects(p, k) \ InUse')
      BY <3>1, <3>2, <3>3
    <3> QED
      BY <1>2, <1>10, <2>1, <3>4
  <2>2. CASE q # p
    BY <1>0, <1>10, <1>12, <2>0, <2>2 DEF ListInv, Counts
  <2> QED
    BY <2>1, <2>2
<1>15. Gone => Objects(p, k) \cap InUse' = {}
  <2> SUFFICES ASSUME Gone
               PROVE  Objects(p, k) \cap InUse' = {}
    OBVIOUS
  <2>1. obj_nr'[p] = Cardinality(Objects(p, k) \ InUse')
    BY <1>1, <1>2, <1>14, Sizes DEF Counts
  <2>2. Cardinality(Objects(p, k) \ InUse') = Cardinality(Objects(p, k))
    BY <1>13, <2>1
  <2> QED
    BY <1>13, <2>2, AllFreed
<1>16. MemInv'
  <2>1. HeldApart' /\ SlabsHeld'
    BY <1>1, <1>2, <1>3 DEF HeldApart, SlabsHeld
  <2>2. LiveFound'
    <3> SUFFICES ASSUME NEW a \in live
                 PROVE  FromCache(a)' \/ \E e \in held : FromPool(a, e)'
      BY <1>1, <1>2 DEF LiveFound
    <3>1. CASE FromCache(a)
      BY <1>1, <3>1 DEF FromCache, InSlab
    <3>2. ASSUME NEW e \in held, FromPool(a, e)
          PROVE  FromPool(a, e)'
      <4>1. e[1] # p /\ e[1] \in Usable
        BY <1>0, <1>2, <1>3, <3>2, OneBlock, Sizes DEF FromPool
      <4> QED
        BY <1>1, <1>11, <3>2, <4>1 DEF FromPool
    <3> QED
      BY <1>0, <3>1, <3>2 DEF MemInv, LiveFound
  <2>3. FreeingFound'
    BY <1>0, <1>1, <1>5 DEF MemInv, FreeingFound, InSlab
  <2>4. OneOwner'
    BY <1>1, <1>3, <1>5 DEF OneOwner
  <2>5. ListsOfSlabs'
    <3> SUFFICES ASSUME NEW m \in Caches
                 PROVE  /\ partial[m] = {}
                        /\ \A q \in full'[m] : kc[q] = m /\ refs'[q] = 2
                        /\ current[m] # NoPage => kc[current[m]] = m /\ refs'[current[m]] = 2
      BY <1>1 DEF ListsOfSlabs
    <3>1. /\ partial[m] = {}
          /\ \A q \in full[m] : kc[q] = m /\ refs[q] = 2 /\ q \in Usable
          /\ current[m] # NoPage =>
               kc[current[m]] = m /\ refs[current[m]] = 2 /\ current[m] \in Usable
      BY <1>0 DEF MemInv, ListsOfSlabs, TypeOK
    <3>2. CASE refs' = refs
      BY <1>11, <3>1, <3>2
    <3>3. CASE Gone
      <4>1. p \notin full'[m]
        BY <1>0, <1>2, <3>1, <3>3 DEF TypeOK
      <4>2. current[m] # NoPage => current[m] # p
        BY <1>2, <3>1, <3>3
      <4> QED
        BY <1>11, <3>1, <4>1, <4>2
    <3> QED
      BY <1>2, <3>2, <3>3
  <2> QED
    BY <2>1, <2>2, <2>3, <2>4, <2>5 DEF MemInv
<1>17. Linked'
  <2> SUFFICES ASSUME NEW m \in Caches, NEW q \in Usable, kc[q] = m, Objects(q, m) \cap InUse' # {}
               PROVE  q = current[m] \/ q \in full'[m]
    BY <1>1 DEF Linked
  <2>1. Objects(q, m) \cap InUse # {}
    BY <1>9
  <2>2. q = current[m] \/ q \in full[m]
    BY <1>0, <2>1 DEF ListInv, Linked
  <2>3. CASE q # p
    BY <1>11, <2>2, <2>3
  <2>4. CASE q = p
    BY <1>2, <1>15, <2>2, <2>4
  <2> QED
    BY <2>3, <2>4
<1>18. FreelistIsCurrent'
  <2> SUFFICES ASSUME NEW m \in Caches
               PROVE  /\ IsInjective(freelist'[m])
                      /\ ToSet(freelist'[m]) \cap InUse' = {}
                      /\ IF current[m] = NoPage
                         THEN freelist'[m] = <<>>
                         ELSE /\ kc[current[m]] = m
                              /\ ToSet(freelist'[m]) = Objects(current[m], m) \ InUse'
                              /\ obj_nr'[current[m]] = Len(freelist'[m])
    BY <1>1 DEF FreelistIsCurrent
  <2>1. /\ IsInjective(freelist[m])
        /\ ToSet(freelist[m]) \cap InUse = {}
        /\ IF current[m] = NoPage
           THEN freelist[m] = <<>>
           ELSE /\ kc[current[m]] = m
                /\ ToSet(freelist[m]) = Objects(current[m], m) \ InUse
                /\ obj_nr[current[m]] = Len(freelist[m])
    BY <1>0 DEF ListInv, FreelistIsCurrent
  <2>2. CASE current[m] = p
    <3>1. m = k /\ p # NoPage
      BY <1>2, <2>1, <2>2, Sizes DEF NoPage
    <3>2. freelist'[m] = <<x>> \o freelist[m]
      BY <1>0, <1>2, <2>2, <3>1 DEF TypeOK
    <3>3. freelist[m] \in Seq(Nat) /\ x \notin ToSet(freelist[m])
      BY <1>0, <1>2, <2>1 DEF TypeOK
    <3>4. /\ Len(freelist'[m]) = Len(freelist[m]) + 1
          /\ IsInjective(freelist'[m])
          /\ ToSet(freelist'[m]) = ToSet(freelist[m]) \cup {x}
      BY <1>2, <2>1, <3>2, <3>3, HeadPut
    <3>5. ToSet(freelist'[m]) = Objects(p, k) \ InUse'
      BY <1>2, <1>9, <2>1, <2>2, <3>1, <3>4
    <3> QED
      BY <1>2, <1>10, <2>1, <2>2, <3>1, <3>4, <3>5
  <2>3. CASE current[m] # p
    <3>1. freelist'[m] = freelist[m]
      BY <1>0, <1>2, <2>3 DEF TypeOK
    <3>2. CASE current[m] = NoPage
      <4>1. ToSet(freelist[m]) = {}
        BY <2>1, <3>2 DEF ToSet
      <4> QED
        BY <2>1, <3>1, <3>2, <4>1
    <3>3. CASE current[m] # NoPage
      <4>1. current[m] \in Usable
        BY <1>0, <3>3 DEF TypeOK
      <4> QED
        BY <1>10, <1>12, <2>1, <2>3, <3>1, <3>3, <4>1
    <3> QED
      BY <3>2, <3>3
  <2> QED
    BY <2>2, <2>3
<1> QED
  BY <1>6, <1>14, <1>16, <1>17, <1>18 DEF ListInv

-----------------------------------------------------------------------------
(* The types.                                                              *)

LEMMA OneDown ==
  ASSUME NEW f \in [Usable -> 0..2], NEW p \in Usable, f[p] = 2
  PROVE  [f EXCEPT ![p] = @ - 1] \in [Usable -> 0..2]
  OBVIOUS

LEMMA Typed == IInv /\ [Next]_vars => TypeOK'
<1> SUFFICES ASSUME IInv, [Next]_vars
             PROVE  TypeOK'
  OBVIOUS
<1>0. TypeOK /\ MemInv /\ ListInv /\ LockInv
  BY DEF IInv
<1> DEFINE Labels == {"idle", "caches", "obj_alloc", "free_lock", "obj_free"}
           PoolT == /\ held' \subseteq Usable \X Orders
                    /\ refs' \in [Usable -> 0..2]
                    /\ kc' \in [Usable -> Caches \cup {0}]
                    /\ obj_nr' \in [Usable -> Nat]
           ListT == /\ current' \in [Caches -> Usable \cup {NoPage}]
                    /\ freelist' \in [Caches -> Seq(Nat)]
                    /\ partial' \in [Caches -> SUBSET Usable]
                    /\ full' \in [Caches -> SUBSET Usable]
                    /\ lock' \in [Caches -> {0, 1}]
           CallT == /\ live' \subseteq [addr : Nat, need : Nat]
                    /\ pc' \in [Cpus -> Labels]
                    /\ size' \in [Cpus -> Nat]
                    /\ i' \in [Cpus -> Caches \cup {0}]
                    /\ obj' \in [Cpus -> Nat]
<1> SUFFICES PoolT /\ ListT /\ CallT
  BY DEF TypeOK
<1>1. CASE UNCHANGED vars
  BY <1>0, <1>1 DEF TypeOK, vars, slabs, caches, locals
<1>2. ASSUME NEW c \in Cpus, NEW need \in Requests, Malloc(c, need)
      PROVE  PoolT /\ ListT /\ CallT
  <2>1. need \in Nat
    BY HeapAssumption
  <2>2. /\ pc' = [pc EXCEPT ![c] = "caches"] /\ size' = [size EXCEPT ![c] = need]
        /\ UNCHANGED <<held, refs, kc, obj_nr, current, freelist, partial, full, lock, live, i, obj>>
    BY <1>2 DEF Malloc, Goto, slabs, caches
  <2> QED
    BY <1>0, <2>1, <2>2 DEF TypeOK
<1>3. ASSUME NEW c \in Cpus, NEW k \in Caches, EnterCache(c, k)
      PROVE  PoolT /\ ListT /\ CallT
  <2>1. /\ pc' = [pc EXCEPT ![c] = "obj_alloc"] /\ i' = [i EXCEPT ![c] = k]
        /\ lock' = [lock EXCEPT ![k] = 1]
        /\ UNCHANGED <<held, refs, kc, obj_nr, current, freelist, partial, full, live, size, obj>>
    BY <1>3 DEF EnterCache, Goto, slabs, caches
  <2> QED
    BY <1>0, <2>1 DEF TypeOK
<1>4. ASSUME NEW c \in Cpus, PopObject(c)
      PROVE  PoolT /\ ListT /\ CallT
  <2> DEFINE k == i[c]
             x == Head(freelist[k])
  <2>1. /\ pc[c] = "obj_alloc" /\ freelist[k] # <<>>
        /\ pc' = [pc EXCEPT ![c] = "idle"] /\ size' = [size EXCEPT ![c] = 0]
        /\ i' = [i EXCEPT ![c] = 0] /\ obj' = [obj EXCEPT ![c] = 0]
        /\ live' = live \cup {[addr |-> x, need |-> size[c]]}
        /\ freelist' = [freelist EXCEPT ![k] = Tail(@)]
        /\ obj_nr' = [obj_nr EXCEPT ![current[k]] = @ - 1]
        /\ lock' = [lock EXCEPT ![k] = 0]
        /\ UNCHANGED <<held, refs, kc, current, partial, full>>
    BY <1>4 DEF PopObject, Return, Goto
  <2>2. k \in Caches
    BY <1>0, <2>1 DEF Critical, LockInv, Locked
  <2>3. /\ current[k] \in Usable /\ IsInjective(freelist[k])
        /\ obj_nr[current[k]] = Len(freelist[k])
    BY <1>0, <2>1, <2>2, CurrentPage
  <2>4. freelist[k] \in Seq(Nat)
    BY <1>0, <2>2 DEF TypeOK
  <2>5. x \in Nat /\ Tail(freelist[k]) \in Seq(Nat) /\ Len(freelist[k]) \in Nat /\ Len(freelist[k]) >= 1
    BY <2>1, <2>3, <2>4, HeadGone
  <2>6. obj_nr[current[k]] - 1 \in Nat /\ size[c] \in Nat
    BY <1>0, <2>3, <2>5 DEF TypeOK
  <2> HIDE DEF x, k
  <2>7. PoolT
    BY <1>0, <2>1, <2>6 DEF TypeOK
  <2>8. ListT
    BY <1>0, <2>1, <2>5 DEF TypeOK
  <2>9. CallT
    BY <1>0, <2>1, <2>5, <2>6 DEF TypeOK
  <2> QED
    BY <2>7, <2>8, <2>9
<1>5. ASSUME NEW c \in Cpus, Retire(c)
      PROVE  PoolT /\ ListT /\ CallT
  <2> DEFINE k == i[c]
  <2>1. /\ pc[c] = "obj_alloc" /\ current[k] # NoPage
        /\ full' = [full EXCEPT ![k] = @ \cup {current[k]}]
        /\ current' = [current EXCEPT ![k] = NoPage]
        /\ UNCHANGED <<held, refs, kc, obj_nr, freelist, partial, lock, live, pc, size, i, obj>>
    BY <1>5 DEF Retire, slabs, locals
  <2>2. k \in Caches
    BY <1>0, <2>1 DEF Critical, LockInv, Locked
  <2>3. current[k] \in Usable
    BY <1>0, <2>1, <2>2 DEF TypeOK
  <2> QED
    BY <1>0, <2>1, <2>2, <2>3 DEF TypeOK
<1>6. ASSUME NEW c \in Cpus, Refill(c)
      PROVE  PoolT /\ ListT /\ CallT
  <2> DEFINE k == i[c]
  <2>1. /\ pc[c] = "obj_alloc"
        /\ IF partial[k] # {} THEN UsePartial(k) ELSE UseNewPage(k)
        /\ UNCHANGED <<full, lock, live, pc, size, i, obj>>
    BY <1>6 DEF Refill, locals
  <2>2. k \in Caches /\ partial[k] = {}
    BY <1>0, <2>1 DEF Critical, LockInv, Locked, MemInv, ListsOfSlabs
  <2> HIDE DEF k
  <2>3. PICK p \in Usable :
          /\ held' = held \cup {<<p, order(k)>>}
          /\ refs' = [refs EXCEPT ![p] = 2]
          /\ kc' = [q \in Usable |-> IF q = p THEN k
                                     ELSE IF q \in Block(p, order(k)) THEN 0 ELSE kc[q]]
          /\ obj_nr' = [obj_nr EXCEPT ![p] = page_obj_nr(k)]
          /\ current' = [current EXCEPT ![k] = p]
          /\ freelist' = [freelist EXCEPT ![k] = Sliced(p, k)]
          /\ UNCHANGED partial
    BY <2>1, <2>2 DEF UseNewPage
  <2>4. order(k) \in Orders /\ page_obj_nr(k) \in Nat /\ Sliced(p, k) \in Seq(Nat)
    BY <2>2, Sizes, Slices
  <2>5. PoolT
    BY <1>0, <2>2, <2>3, <2>4 DEF TypeOK
  <2>6. ListT
    BY <1>0, <2>1, <2>3, <2>4 DEF TypeOK
  <2>7. CallT
    BY <1>0, <2>1 DEF TypeOK
  <2> QED
    BY <2>5, <2>6, <2>7
<1>7. ASSUME NEW c \in Cpus, CacheFails(c)
      PROVE  PoolT /\ ListT /\ CallT
  <2>1. /\ pc' = [pc EXCEPT ![c] = "caches"]
        /\ lock' = [lock EXCEPT ![i[c]] = 0]
        /\ UNCHANGED <<held, refs, kc, obj_nr, current, freelist, partial, full, live, size, i, obj>>
    BY <1>7 DEF CacheFails, Goto, locals, slabs, caches
  <2> QED
    BY <1>0, <2>1 DEF TypeOK
<1>8. ASSUME NEW c \in Cpus, PoolMalloc(c)
      PROVE  PoolT /\ ListT /\ CallT
  <2>1. /\ pc' = [pc EXCEPT ![c] = "idle"] /\ size' = [size EXCEPT ![c] = 0]
        /\ i' = [i EXCEPT ![c] = 0] /\ obj' = [obj EXCEPT ![c] = 0]
        /\ UNCHANGED <<obj_nr, current, freelist, partial, full, lock>>
    BY <1>8 DEF PoolMalloc, Return, Goto, caches
  <2>2. PICK o \in Orders, p \in Usable :
          /\ held' = held \cup {<<p, o>>}
          /\ refs' = [refs EXCEPT ![p] = 2]
          /\ kc' = [q \in Usable |-> IF q \in Block(p, o) THEN 0 ELSE kc[q]]
          /\ live' = live \cup {[addr |-> page_to_virt(p), need |-> size[c]]}
    BY <1>8 DEF PoolMalloc
  <2>3. page_to_virt(p) \in Nat /\ size[c] \in Nat
    BY <1>0, Sizes, FirstWord DEF TypeOK
  <2>4. PoolT
    BY <1>0, <2>1, <2>2 DEF TypeOK
  <2>5. ListT /\ CallT
    BY <1>0, <2>1, <2>2, <2>3 DEF TypeOK
  <2> QED
    BY <2>4, <2>5
<1>9. ASSUME NEW c \in Cpus, MallocFails(c)
      PROVE  PoolT /\ ListT /\ CallT
  <2>1. /\ pc' = [pc EXCEPT ![c] = "idle"] /\ size' = [size EXCEPT ![c] = 0]
        /\ i' = [i EXCEPT ![c] = 0] /\ obj' = [obj EXCEPT ![c] = 0]
        /\ UNCHANGED <<held, refs, kc, obj_nr, current, freelist, partial, full, lock, live>>
    BY <1>9 DEF MallocFails, Return, Goto, slabs, caches
  <2> QED
    BY <1>0, <2>1 DEF TypeOK
<1>10. ASSUME NEW c \in Cpus, NEW a \in live, Free(c, a)
       PROVE  PoolT /\ ListT /\ CallT
  <2> DEFINE p == HeadPage(a.addr)
  <2>1. /\ live' = live \ {a}
        /\ IF kc[p] = 0
           THEN /\ Release(CHOOSE b \in held : b[1] = p)
                /\ UNCHANGED <<pc, i, obj>>
           ELSE /\ pc' = [pc EXCEPT ![c] = "free_lock"]
                /\ i' = [i EXCEPT ![c] = kc[p]]
                /\ obj' = [obj EXCEPT ![c] = a.addr]
                /\ UNCHANGED <<held, refs>>
        /\ UNCHANGED <<kc, obj_nr, current, freelist, partial, full, lock, size>>
    BY <1>10 DEF Free, slabs, caches
  <2>2. a.addr \in Nat /\ a.addr \in InUse
    BY <1>0 DEF TypeOK, InUse
  <2>3. PICK b \in held :
          /\ p = b[1]
          /\ \/ kc[b[1]] = 0 /\ a.addr = page_to_virt(b[1])
             \/ kc[b[1]] \in Caches /\ a.addr \in Objects(b[1], kc[b[1]])
    BY <1>0, <2>2, Owned
  <2>4. (CHOOSE e \in held : e[1] = p) = b /\ p \in Usable
    BY <1>0, <2>3, ChosenBlock, OneBlock DEF MemInv
  <2> HIDE DEF p
  <2>5. ListT
    BY <1>0, <2>1 DEF TypeOK
  <2>6. CASE kc[p] = 0
    <3>1. Release(b) /\ UNCHANGED <<pc, i, obj>>
      BY <2>1, <2>4, <2>6
    <3>2. refs' = [refs EXCEPT ![p] = @ - 1] /\ held' \subseteq held
      BY <2>3, <3>1 DEF Release
    <3>3. refs[p] = 2
      <4>1. ~ FromCache(a)
        <5> SUFFICES ASSUME NEW k \in Caches, NEW q \in Usable, kc[q] = k, a.addr \in Objects(q, k)
                     PROVE  FALSE
          BY DEF FromCache, InSlab
        <5>1. HeadPage(a.addr) = q
          BY <1>0, ObjectHead DEF MemInv
        <5> QED
          BY <2>6, <5>1, Sizes DEF p
      <4>2. PICK e \in held : FromPool(a, e)
        BY <1>0, <4>1 DEF MemInv, LiveFound
      <4>3. e[1] = p /\ refs[e[1]] = 2
        BY <1>0, <4>2, BlockHead DEF FromPool, MemInv, p
      <4> QED
        BY <4>3
    <3>4. PoolT
      <4>1. refs' \in [Usable -> 0..2]
        BY <1>0, <3>2, <3>3, OneDown DEF TypeOK
      <4> QED
        BY <1>0, <2>1, <3>2, <4>1 DEF TypeOK
    <3>5. CallT
      BY <1>0, <2>1, <3>1 DEF TypeOK
    <3> QED
      BY <2>5, <3>4, <3>5
  <2>7. CASE kc[p] # 0
    BY <1>0, <2>1, <2>2, <2>3, <2>4, <2>5, <2>7 DEF TypeOK
  <2> QED
    BY <2>6, <2>7
<1>11. ASSUME NEW c \in Cpus, LockFree(c)
       PROVE  PoolT /\ ListT /\ CallT
  <2>1. /\ pc' = [pc EXCEPT ![c] = "obj_free"]
        /\ lock' = [lock EXCEPT ![i[c]] = 1]
        /\ UNCHANGED <<held, refs, kc, obj_nr, current, freelist, partial, full, live, size, i, obj>>
    BY <1>11 DEF LockFree, Goto, locals, slabs, caches
  <2> QED
    BY <1>0, <2>1 DEF TypeOK
<1>12. ASSUME NEW c \in Cpus, FreeDone(c)
       PROVE  PoolT /\ ListT /\ CallT
  <2> DEFINE k == i[c]
             x == obj[c]
             p == HeadPage(x)
  <2>1. /\ pc' = [pc EXCEPT ![c] = "idle"] /\ size' = [size EXCEPT ![c] = 0]
        /\ i' = [i EXCEPT ![c] = 0] /\ obj' = [obj EXCEPT ![c] = 0]
        /\ lock' = [lock EXCEPT ![k] = 0]
        /\ UNCHANGED <<kc, current, partial, live>>
    BY <1>12 DEF FreeDone, Return, Goto
  <2>2. /\ k \in Caches /\ p \in Usable /\ kc[p] = k
        /\ x \in Objects(p, k) /\ x \in InUse /\ x \in Nat
        /\ held' = held
        /\ obj_nr' = [obj_nr EXCEPT ![p] = @ + 1]
        /\ \/ /\ p = current[k]
              /\ freelist' = [freelist EXCEPT ![k] = <<x>> \o @]
              /\ UNCHANGED <<refs, full>>
           \/ /\ p # current[k]
              /\ UNCHANGED <<freelist, refs, full>>
           \/ /\ p # current[k]
              /\ full' = [full EXCEPT ![k] = @ \ {p}]
              /\ refs' = [refs EXCEPT ![p] = @ - 1]
              /\ UNCHANGED freelist
    BY <1>12, FreeDoneCases
  <2> HIDE DEF k, x, p
  <2>3. <<x>> \o freelist[k] \in Seq(Nat)
    <3>1. freelist[k] \in Seq(Nat) /\ <<x>> \in Seq(Nat)
      BY <1>0, <2>2 DEF TypeOK
    <3> QED
      BY <3>1, ConcatProperties
  <2>4. p # current[k] => refs[p] = 2
    BY <1>0, <2>2 DEF ListInv, Linked, MemInv, ListsOfSlabs
  <2>5. PoolT
    <3>1. refs' \in [Usable -> 0..2]
      <4>1. CASE refs' = refs
        BY <1>0, <4>1 DEF TypeOK
      <4>2. CASE p # current[k] /\ refs' = [refs EXCEPT ![p] = @ - 1]
        BY <1>0, <2>2, <2>4, <4>2, OneDown DEF TypeOK
      <4> QED
        BY <2>2, <4>1, <4>2
    <3>2. obj_nr' \in [Usable -> Nat]
      BY <1>0, <2>2 DEF TypeOK
    <3> QED
      BY <1>0, <2>1, <2>2, <3>1, <3>2 DEF TypeOK
  <2>6. ListT
    <3>1. freelist' \in [Caches -> Seq(Nat)]
      <4>1. CASE freelist' = freelist
        BY <1>0, <4>1 DEF TypeOK
      <4>2. CASE freelist' = [freelist EXCEPT ![k] = <<x>> \o @]
        BY <1>0, <2>3, <4>2 DEF TypeOK
      <4> QED
        BY <2>2, <4>1, <4>2
    <3>2. full' \in [Caches -> SUBSET Usable]
      <4>1. CASE full' = full
        BY <1>0, <4>1 DEF TypeOK
      <4>2. CASE full' = [full EXCEPT ![k] = @ \ {p}]
        BY <1>0, <2>2, <4>2 DEF TypeOK
      <4> QED
        BY <2>2, <4>1, <4>2
    <3>3. lock' \in [Caches -> {0, 1}] /\ UNCHANGED <<current, partial>>
      BY <1>0, <2>1 DEF TypeOK
    <3> QED
      BY <1>0, <3>1, <3>2, <3>3 DEF TypeOK
  <2>7. CallT
    BY <1>0, <2>1 DEF TypeOK
  <2> QED
    BY <2>5, <2>6, <2>7
<1> QED
  BY <1>1, <1>2, <1>3, <1>4, <1>5, <1>6, <1>7, <1>8, <1>9, <1>10, <1>11, <1>12 DEF Next, Inside

-----------------------------------------------------------------------------
LEMMA Begins == Init => IInv
<1> SUFFICES ASSUME Init
             PROVE  IInv
  OBVIOUS
<1>1. /\ held = {} /\ live = {}
      /\ \A p \in Usable : kc[p] = 0
      /\ \A k \in Caches : /\ current[k] = NoPage /\ freelist[k] = <<>>
                           /\ partial[k] = {} /\ full[k] = {}
      /\ \A c \in Cpus : pc[c] = "idle"
  BY DEF Init
<1>2. TypeOK
  <2>1. <<>> \in Seq(Nat)
    OBVIOUS
  <2> QED
    BY <2>1 DEF Init, TypeOK
<1>3. InUse = {}
  BY <1>1 DEF InUse
<1>4. MemInv
  BY <1>1 DEF MemInv, HeldApart, SlabsHeld, LiveFound, FreeingFound, OneOwner, ListsOfSlabs, Freeing
<1>5. ListInv
  <2>1. IsInjective(<<>>) /\ ToSet(<<>>) = {}
    BY DEF IsInjective, ToSet
  <2> QED
    BY <1>1, <1>3, <2>1, Sizes DEF ListInv, Linked, Counts, FreelistIsCurrent
<1>6. LockInv
  BY <1>1 DEF LockInv, Locked, CacheExclusion, Critical
<1> QED
  BY <1>2, <1>4, <1>5, <1>6 DEF IInv

LEMMA Steps == IInv /\ [Next]_vars => IInv'
<1> SUFFICES ASSUME IInv, [Next]_vars
             PROVE  IInv'
  OBVIOUS
<1>1. TypeOK'
  BY Typed
<1>2. MemInv' /\ ListInv' /\ LockInv'
  <2>1. CASE UNCHANGED vars
    <3>1. /\ UNCHANGED <<held, refs, slabs, caches, live>>
          /\ UNCHANGED <<lock, pc, i, size>>
          /\ UNCHANGED obj
      BY <2>1 DEF vars, locals
    <3>2. TypeOK /\ MemInv /\ ListInv /\ LockInv
      BY DEF IInv
    <3>3. MemInv' /\ ListInv'
      BY <3>1, <3>2, Quiet DEF Freeing
    <3> QED
      BY <3>1, <3>2, <3>3, Stutters
  <2>2. CASE Next
    <3> SUFFICES ASSUME NEW c \in Cpus,
                        \/ \E need \in Requests : Malloc(c, need)
                        \/ \E a \in live : Free(c, a)
                        \/ Inside(c)
                 PROVE  MemInv' /\ ListInv' /\ LockInv'
      BY <2>2 DEF Next
    <3>1. CASE \E need \in Requests : Malloc(c, need)
      BY <3>1, MallocKeeps
    <3>2. CASE \E a \in live : Free(c, a)
      BY <3>2, FreeKeeps
    <3>3. CASE Inside(c)
      BY <3>3, EnterCacheKeeps, PopObjectKeeps, RetireKeeps, RefillKeeps, CacheFailsKeeps,
         PoolMallocKeeps, MallocFailsKeeps, LockFreeKeeps, FreeDoneKeeps DEF Inside
    <3> QED
      BY <3>1, <3>2, <3>3
  <2> QED
    BY <2>1, <2>2
<1> QED
  BY <1>1, <1>2 DEF IInv

-----------------------------------------------------------------------------
(* The heap keeps its types, its memory, its lists and its locks in order. *)
THEOREM Invariance == Spec => []IInv
<1> QED
  BY Begins, Steps, PTL DEF Spec

(* The state is well typed: references are 0, 1 or 2, counters of objects  *)
(* never go below zero, and current, partial and full name pages.          *)
THEOREM TypeCorrect == Spec => []TypeOK
<1>1. IInv => TypeOK
  BY DEF IInv
<1> QED
  BY <1>1, Invariance, PTL

(* Malloc's memory: what different callers hold does not overlap and is    *)
(* memory that the heap has from the page pool.                            *)
THEOREM MemoryApart == Spec => []LiveDisjoint
<1>1. IInv => LiveDisjoint
  BY LiveApart DEF IInv
<1> QED
  BY <1>1, Invariance, PTL

(* The free list of a cache is made of the objects of its current page     *)
(* that nobody has, each once, and obj_nr counts them.                     *)
THEOREM FreelistsRight == Spec => []FreelistIsCurrent
<1>1. IInv => FreelistIsCurrent
  BY DEF IInv, ListInv
<1> QED
  BY <1>1, Invariance, PTL

(* obj_nr of a slab page is the number of its objects that nobody has.     *)
THEOREM ObjectsCounted == Spec => []CountsObjects
<1>1. IInv => CountsObjects
  BY Counted DEF IInv, ListInv
<1> QED
  BY <1>1, Invariance, PTL

(* Free finds an object in use where __internal_obj_free expects it: in    *)
(* the page that get_head_page gives, current or on the full list.         *)
THEOREM FreeFinds == Spec => []InUseIsFindable
<1>1. IInv => InUseIsFindable
  BY UseFound DEF IInv, ListInv
<1> QED
  BY <1>1, Invariance, PTL

(* The SpinLock of a cache keeps its callers apart. *)
THEOREM CachesExclusive == Spec => []CacheExclusion
<1>1. IInv => CacheExclusion
  BY DEF IInv, LockInv
<1> QED
  BY <1>1, Invariance, PTL

-----------------------------------------------------------------------------
(* The heap implements Heap.                                               *)

InMemory == \A a \in live : a.addr \in HeapWords /\ Words(a) \subseteq HeapWords

LEMMA WordOfPage ==
  ASSUME NEW w \in Nat, w \div PAGE_SIZE \in Usable
  PROVE  w \in HeapWords
<1> DEFINE n == PAGE_SIZE
           p == w \div n
<1>1. n \in Nat /\ n >= 1
  BY Sizes
<1> HIDE DEF n
<1>2. w = p * n + (w % n) /\ (w % n) \in 0 .. n - 1
  BY <1>1
<1>3. p \in Usable
  BY DEF n
<1> HIDE DEF p
<1> QED
  BY <1>2, <1>3 DEF HeapWords, page_to_virt, n

LEMMA LiveInMemory == TypeOK /\ MemInv => InMemory
<1> SUFFICES ASSUME TypeOK, MemInv, NEW a \in live
             PROVE  a.addr \in HeapWords /\ Words(a) \subseteq HeapWords
  BY DEF InMemory
<1>0. HeldApart
  BY DEF MemInv
<1>1. a.addr \in HeapWords
  <2>1. a.addr \in InUse
    BY DEF InUse
  <2>2. a.addr \in Nat /\ a.addr \div PAGE_SIZE \in Usable
    BY <1>0, <2>1, Owned DEF HeldApart
  <2> QED
    BY <2>2, WordOfPage
<1>2. ASSUME NEW w \in Words(a)
      PROVE  w \in HeapWords
  <2>1. PICK b \in held :
          /\ page_to_virt(b[1] + Pow2(b[2])) \in Nat
          /\ page_to_virt(b[1]) <= a.addr
          /\ a.addr + a.need <= page_to_virt(b[1] + Pow2(b[2]))
    BY LiveWithin
  <2> DEFINE p == b[1]
             m == Pow2(b[2])
  <2>2. /\ p \in Nat /\ m \in Nat
        /\ PAGE_SIZE \in Nat /\ PAGE_SIZE >= 1
        /\ Pages(b) = p .. p + m - 1 /\ Pages(b) \subseteq Usable
    BY <1>0, OneBlock, Sizes DEF HeldApart, Pages, Block
  <2>3. p * PAGE_SIZE <= a.addr /\ a.addr + a.need <= (p + m) * PAGE_SIZE
    BY <2>1 DEF page_to_virt
  <2>4. a.addr \in Nat /\ a.need \in Nat
    BY LiveWithin
  <2> HIDE DEF p, m
  <2>5. w \in Nat /\ a.addr <= w /\ w < a.addr + a.need
    BY <2>4 DEF Words
  <2>6. p * PAGE_SIZE \in Nat /\ (p + m) * PAGE_SIZE \in Nat
    BY <2>2
  <2>7. p * PAGE_SIZE <= w /\ w < (p + m) * PAGE_SIZE
    BY <2>3, <2>4, <2>5, <2>6
  <2>8. w \div PAGE_SIZE \in p .. p + m - 1
    BY <2>2, <2>5, <2>7, InPages
  <2> QED
    BY <2>2, <2>5, <2>8, WordOfPage
<1> QED
  BY <1>1, <1>2

Sound == IInv /\ LiveDisjoint /\ InMemory

LEMMA Sounds == IInv => Sound
  BY LiveApart, LiveInMemory DEF IInv, Sound

(* What Malloc returns was nobody's. *)
LEMMA NewIsUnheld ==
  ASSUME Sound', NEW a, live' = live \cup {a}, \A b \in live : b.addr # a.addr
  PROVE  /\ Promise!Unheld(a)
         /\ Promise!Words(a) \subseteq HeapWords
         /\ a.addr \in HeapWords
<1>1. a \in live' /\ \A b \in live : b \in live' /\ b # a
  OBVIOUS
<1>2. \A b \in live : Words(b) \cap Words(a) = {}
  BY <1>1 DEF Sound, LiveDisjoint
<1>3. a.addr \in HeapWords /\ Words(a) \subseteq HeapWords
  BY <1>1 DEF Sound, InMemory
<1> QED
  BY <1>2, <1>3 DEF Promise!Unheld, Promise!Words, Words

LEMMA Gets ==
  ASSUME Sound', NEW c \in Cpus, NEW need \in Asked[c], NEW x,
         live' = live \cup {[addr |-> x, need |-> need]},
         \A b \in live : b.addr # x,
         Asked' = [Asked EXCEPT ![c] = {}]
  PROVE  Promise!Next
<1> DEFINE a == [addr |-> x, need |-> need]
<1>1. a.addr = x
  OBVIOUS
<1>2. live' = live \cup {a}
  OBVIOUS
<1> HIDE DEF a
<1>3. Promise!Unheld(a) /\ Promise!Words(a) \subseteq HeapWords /\ x \in HeapWords
  BY <1>1, <1>2, NewIsUnheld
<1>4. Promise!Get(c, need, x)
  BY <1>3 DEF Promise!Get, Promise!Answered, a
<1> QED
  BY <1>3, <1>4 DEF Promise!Next

LEMMA StepKeepsPromise ==
  ASSUME IInv, Sound', [Next]_vars
  PROVE  [Promise!Next]_Promise!hvars
<1> DEFINE In(c) == pc[c] \in {"caches", "obj_alloc"}
<1>0. TypeOK /\ MemInv /\ ListInv /\ LockInv
  BY DEF IInv
<1>1. \A d \in Cpus : Asked[d] = IF In(d) THEN {size[d]} ELSE {}
  BY DEF Asked
<1>2. Asked' = [d \in Cpus |-> IF In(d)' THEN {size'[d]} ELSE {}]
  BY DEF Asked
<1>3. Asked = [d \in Cpus |-> IF In(d) THEN {size[d]} ELSE {}]
  BY DEF Asked
<1>4. ASSUME live' = live,
             \A d \in Cpus : (In(d)' <=> In(d)) /\ (In(d) => size'[d] = size[d])
      PROVE  UNCHANGED Promise!hvars
  <2>1. Asked' = Asked
    BY <1>2, <1>3, <1>4
  <2> QED
    BY <1>4, <2>1 DEF Promise!hvars
<1>5. ASSUME NEW c \in Cpus, ~ In(c)',
             \A d \in Cpus : d # c => (In(d)' <=> In(d)) /\ size'[d] = size[d]
      PROVE  Asked' = [Asked EXCEPT ![c] = {}]
  BY <1>2, <1>3, <1>5
<1>6. CASE UNCHANGED vars
  BY <1>4, <1>6 DEF vars, locals
<1>7. ASSUME NEW c \in Cpus, NEW need \in Requests, Malloc(c, need)
      PROVE  Promise!Next
  <2>1. /\ live' = live
        /\ pc[c] = "idle" /\ pc' = [pc EXCEPT ![c] = "caches"]
        /\ size' = [size EXCEPT ![c] = need]
    BY <1>7 DEF Malloc, Goto
  <2>2. ~ In(c) /\ In(c)' /\ size'[c] = need
    BY <1>0, <2>1 DEF TypeOK
  <2>3. \A d \in Cpus : d # c => (In(d)' <=> In(d)) /\ size'[d] = size[d]
    BY <1>0, <2>1 DEF TypeOK
  <2>4. Asked[c] = {} /\ Asked' = [Asked EXCEPT ![c] = {need}]
    BY <1>1, <1>2, <1>3, <2>2, <2>3
  <2>5. Promise!Ask(c, need)
    BY <2>1, <2>4 DEF Promise!Ask
  <2> QED
    BY <2>5 DEF Promise!Next
<1>8. ASSUME NEW c \in Cpus, PopObject(c)
      PROVE  Promise!Next
  <2> DEFINE k == i[c]
             x == Head(freelist[k])
  <2>1. /\ pc[c] = "obj_alloc" /\ freelist[k] # <<>>
        /\ pc' = [pc EXCEPT ![c] = "idle"] /\ size' = [size EXCEPT ![c] = 0]
        /\ live' = live \cup {[addr |-> x, need |-> size[c]]}
    BY <1>8 DEF PopObject, Return, Goto
  <2>2. k \in Caches
    BY <1>0, <2>1 DEF Critical, LockInv, Locked
  <2>3. IsInjective(freelist[k]) /\ ToSet(freelist[k]) = Objects(current[k], k) \ InUse
    BY <1>0, <2>1, <2>2, CurrentPage
  <2>4. freelist[k] \in Seq(Nat)
    BY <1>0, <2>2 DEF TypeOK
  <2>5. x \notin InUse
    BY <2>1, <2>3, <2>4, HeadGone
  <2>6. \A b \in live : b.addr # x
    BY <2>5 DEF InUse
  <2> HIDE DEF x, k
  <2>7. Asked' = [Asked EXCEPT ![c] = {}] /\ size[c] \in Asked[c]
    BY <1>0, <1>1, <1>5, <2>1 DEF TypeOK
  <2> QED
    BY <2>1, <2>6, <2>7, Gets
<1>9. ASSUME NEW c \in Cpus, PoolMalloc(c)
      PROVE  Promise!Next
  <2>1. /\ pc[c] = "caches" /\ pc' = [pc EXCEPT ![c] = "idle"]
        /\ size' = [size EXCEPT ![c] = 0]
    BY <1>9 DEF PoolMalloc, Return, Goto
  <2>2. PICK o \in Orders, p \in Usable :
          /\ Grantable(p, o)
          /\ live' = live \cup {[addr |-> page_to_virt(p), need |-> size[c]]}
    BY <1>9 DEF PoolMalloc
  <2> DEFINE x == page_to_virt(p)
  <2>3. x \notin InUse
    <3>1. x \div PAGE_SIZE = p
      BY Sizes, FirstWord
    <3>2. p \in Block(p, o) /\ \A y \in InUse : y \div PAGE_SIZE \notin Block(p, o)
      BY <1>0, <2>2, Fresh
    <3> QED
      BY <3>1, <3>2
  <2>4. \A b \in live : b.addr # x
    BY <2>3 DEF InUse
  <2> HIDE DEF x
  <2>5. Asked' = [Asked EXCEPT ![c] = {}] /\ size[c] \in Asked[c]
    BY <1>0, <1>1, <1>5, <2>1 DEF TypeOK
  <2>6. live' = live \cup {[addr |-> x, need |-> size[c]]}
    BY <2>2 DEF x
  <2> QED
    BY <2>4, <2>5, <2>6, Gets
<1>10. ASSUME NEW c \in Cpus, MallocFails(c)
       PROVE  Promise!Next
  <2>1. /\ pc[c] = "caches" /\ pc' = [pc EXCEPT ![c] = "idle"]
        /\ size' = [size EXCEPT ![c] = 0] /\ live' = live
    BY <1>10 DEF MallocFails, Return, Goto
  <2>2. Asked' = [Asked EXCEPT ![c] = {}] /\ Asked[c] # {}
    BY <1>0, <1>1, <1>5, <2>1 DEF TypeOK
  <2> QED
    BY <2>1, <2>2 DEF Promise!Next, Promise!Refuse, Promise!Answered
<1>11. ASSUME NEW c \in Cpus, NEW a \in live, Free(c, a)
       PROVE  Promise!Next
  <2>1. /\ pc[c] = "idle" /\ live' = live \ {a} /\ size' = size
        /\ pc' = pc \/ pc' = [pc EXCEPT ![c] = "free_lock"]
    BY <1>11 DEF Free
  <2>2. \A d \in Cpus : In(d)' <=> In(d)
    BY <1>0, <2>1 DEF TypeOK
  <2>3. Asked' = Asked /\ Asked[c] = {}
    BY <1>1, <1>2, <1>3, <2>1, <2>2
  <2> QED
    BY <2>1, <2>3 DEF Promise!Next, Promise!GiveBack
<1>12. ASSUME NEW c \in Cpus, NEW k \in Caches, EnterCache(c, k)
       PROVE  UNCHANGED Promise!hvars
  <2>1. /\ pc[c] = "caches" /\ pc' = [pc EXCEPT ![c] = "obj_alloc"]
        /\ UNCHANGED <<live, size>>
    BY <1>12 DEF EnterCache, Goto
  <2>2. \A d \in Cpus : In(d)' <=> In(d)
    BY <1>0, <2>1 DEF TypeOK
  <2> QED
    BY <1>4, <2>1, <2>2
<1>13. ASSUME NEW c \in Cpus, Retire(c) \/ Refill(c)
       PROVE  UNCHANGED Promise!hvars
  <2>1. UNCHANGED <<live, pc, size>>
    BY <1>13 DEF Retire, Refill, locals
  <2> QED
    BY <1>4, <2>1
<1>14. ASSUME NEW c \in Cpus, CacheFails(c)
       PROVE  UNCHANGED Promise!hvars
  <2>1. /\ pc[c] = "obj_alloc" /\ pc' = [pc EXCEPT ![c] = "caches"]
        /\ UNCHANGED <<live, size>>
    BY <1>14 DEF CacheFails, Goto, locals
  <2>2. \A d \in Cpus : In(d)' <=> In(d)
    BY <1>0, <2>1 DEF TypeOK
  <2> QED
    BY <1>4, <2>1, <2>2
<1>15. ASSUME NEW c \in Cpus, LockFree(c)
       PROVE  UNCHANGED Promise!hvars
  <2>1. /\ pc[c] = "free_lock" /\ pc' = [pc EXCEPT ![c] = "obj_free"]
        /\ UNCHANGED <<live, size>>
    BY <1>15 DEF LockFree, Goto, locals
  <2>2. \A d \in Cpus : In(d)' <=> In(d)
    BY <1>0, <2>1 DEF TypeOK
  <2> QED
    BY <1>4, <2>1, <2>2
<1>16. ASSUME NEW c \in Cpus, FreeDone(c)
       PROVE  UNCHANGED Promise!hvars
  <2>1. /\ pc[c] = "obj_free" /\ pc' = [pc EXCEPT ![c] = "idle"]
        /\ size' = [size EXCEPT ![c] = 0] /\ live' = live
    BY <1>16 DEF FreeDone, Return, Goto
  <2>2. \A d \in Cpus : (In(d)' <=> In(d)) /\ (In(d) => size'[d] = size[d])
    BY <1>0, <2>1 DEF TypeOK
  <2> QED
    BY <1>4, <2>1, <2>2
<1> QED
  BY <1>6, <1>7, <1>8, <1>9, <1>10, <1>11, <1>12, <1>13, <1>14, <1>15, <1>16 DEF Next, Inside

(* KHeapPool implements Heap, for any number of CPUs, any pages and sizes: *)
(* each call of Malloc is answered once, with nullptr or with as much      *)
(* memory as it asked for, of which nobody holds a word; and what a caller *)
(* holds is his until he gives it to Free.                                 *)
THEOREM KeepsPromise == Spec => ImplementsHeap
<1>1. Init => Promise!Init
  BY DEF Init, Promise!Init, Asked
<1>2. IInv /\ Sound' /\ [Next]_vars => [Promise!Next]_Promise!hvars
  BY StepKeepsPromise
<1>3. Spec => []Sound
  BY Sounds, Invariance, PTL
<1> QED
  BY <1>1, <1>2, <1>3, Invariance, PTL DEF Spec, ImplementsHeap, Promise!Spec
=============================================================================
