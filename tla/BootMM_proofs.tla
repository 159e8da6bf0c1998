--------------------------- MODULE BootMM_proofs ---------------------------
(***************************************************************************)
(* Theorems about BootMM, for every machine and all sizes: what the linear *)
(* allocator hands out, what the tables it is used for translate, and what *)
(* is left for the page pool.                                              *)
(***************************************************************************)
EXTENDS BootMM, SequenceTheorems, TLAPS

-----------------------------------------------------------------------------
(* Types, with those of the records that TypeOK does not look into. *)
Index == 0 .. PT_ENTRIES - 1
Entries == [frame : Frames, rw : BOOLEAN]

PageTypes == MemoryTypes \cup {"non_existed"}

RestTypes ==
  /\ machine \in Machines
  /\ pc \in {"init", "root", "elf", "bss", "physmem", "pgdb", "region", "map",
             "database", "marks", "main", "halt", "fault"}
  /\ pgdb \in [Frames -> [type : PageTypes, ref_count : {-1, 0}]]
  /\ loaded \in BOOLEAN /\ ret \in {0, ENOMEM, EFAULT}

LoopTypes ==
  /\ i \in Nat /\ physmem_end \in Nat /\ pgdb_page_nr \in Nat
  /\ loop \in [phys : Int, end : Int, virt : Int, rw : BOOLEAN, next : {"init", "elf", "physmem"}]

TableTypes ==
  /\ table \in [Frames -> [Index -> Entries \cup {None}]]
  /\ boot_kern_pgtable \in Frames
  /\ DOMAIN mapped \subseteq VirtPages
  /\ \A v \in DOMAIN mapped : mapped[v] \in Entries

WalkTypes ==
  /\ walk \in [va : VirtPages, frame : Frames, rw : BOOLEAN, level : 1 .. 4, table : Frames,
               back : {"init", "region", "bss", "pgdb"}, index : [1 .. 4 -> Index]]
  /\ \A l \in 1 .. 4 : walk.index[l] = PT_ENTRY(walk.va, l)

Types == RestTypes /\ LoopTypes /\ TableTypes /\ WalkTypes

(* A loop over a region, with the calls it makes. *)
Looping == pc = "region" \/ (pc = "map" /\ walk.back = "region")

(* What the loops have still to map is in Frames and VirtPages. *)
Ranges ==
  /\ Looping =>
       /\ loop.next \in {"elf", "physmem"}
       /\ loop.phys \in Nat /\ loop.phys % PAGE_SIZE = 0
       /\ \A k \in Nat : loop.phys + k * PAGE_SIZE < loop.end =>
            loop.virt + k \in VirtPages /\ loop.phys \div PAGE_SIZE + k \in Frames
  /\ pc = "bss" \/ (pc = "map" /\ walk.back = "bss") =>
       /\ loop.next = "elf"
       /\ \A v \in loop.virt .. loop.end - 1 : v \in VirtPages
  /\ pc \in {"elf", "bss", "physmem", "region"} \/ (pc = "map" /\ walk.back # "pgdb") => i >= 1
  /\ pc = "map" => walk.back # "init"
  /\ 0 .. physmem_end \div PAGE_SIZE \subseteq Frames
  /\ 0 .. pgdb_page_nr \subseteq Frames

-----------------------------------------------------------------------------
(* The frames of map entry e that lie wholly in it: Low .. High - 1. *)
Low(e) == (mmap[e].addr + PAGE_SIZE - 1) \div PAGE_SIZE
High(e) == (mmap[e].addr + mmap[e].len) \div PAGE_SIZE

(* The frame the allocator hands out next, if its region has one left. *)
Turn == curr_avail \div PAGE_SIZE

(* The frames the allocator has been at. *)
Passed ==
  {f \in Frames : \E e \in 1 .. curr_entry_idx :
     /\ mmap[e].type = "available"
     /\ Low(e) <= f /\ f < High(e)
     /\ e = curr_entry_idx => f < Turn}

Region ==
  /\ curr_entry_idx \in 0 .. Len(mmap) /\ curr_entry \in {0, curr_entry_idx}
  /\ curr_avail \in Nat /\ curr_end \in Nat /\ curr_avail = Turn * PAGE_SIZE
  /\ curr_entry_idx = 0 => curr_avail = 0
  /\ curr_entry_idx # 0 =>
       /\ mmap[curr_entry_idx].type = "available"
       /\ curr_end = High(curr_entry_idx) * PAGE_SIZE
       /\ Low(curr_entry_idx) < Turn /\ Turn <= High(curr_entry_idx)
       /\ curr_entry = 0 <=> Turn = High(curr_entry_idx)

(* The pages handed out are those passed and not in use, each once. *)
Handed ==
  /\ handed_out \in Seq(Frames)
  /\ IsInjective(handed_out)
  /\ ToSet(handed_out) = Passed \ UsedFrames

-----------------------------------------------------------------------------
(* The entry on the way of v that leads to its table at level l; at 0, the *)
(* translation.                                                            *)
At(v, l) ==
  CASE l = 4 -> Entry(boot_kern_pgtable, TRUE)
    [] l = 3 -> Lookup(Entry(boot_kern_pgtable, TRUE), v, 4)
    [] l = 2 -> Lookup(Lookup(Entry(boot_kern_pgtable, TRUE), v, 4), v, 3)
    [] l = 1 -> Lookup(Lookup(Lookup(Entry(boot_kern_pgtable, TRUE), v, 4), v, 3), v, 2)
    [] l = 0 -> Translated(v)

(* The part of virtual memory around v that a table at level l maps. *)
Block(v, l) == IF l = 4 THEN 0 ELSE v \div Power(l + 1)

(* Every table on a way was handed out. *)
Owned ==
  \A v \in VirtPages, l \in 1 .. 4 :
    At(v, l) # None => At(v, l).frame \in ToSet(handed_out)

(* A frame is a table for one block only: no two ways share a frame where  *)
(* they should not.                                                        *)
OnePlace ==
  \A u, v \in VirtPages, l, m \in 1 .. 4 :
    At(u, l) # None /\ At(v, m) # None /\ At(u, l).frame = At(v, m).frame =>
      l = m /\ Block(u, l) = Block(v, l)

(* The walk under way is at the table its address is mapped by. *)
OnPath ==
  pc = "map" => \A v \in VirtPages, l \in 1 .. 4 :
                  v = walk.va /\ l = walk.level => At(v, l) # None /\ At(v, l).frame = walk.table

Unrooted ==
  /\ DOMAIN mapped = {} /\ ~loaded
  /\ pc \in {"init", "root", "halt", "database", "fault"}

Rooted ==
  /\ pc \notin {"init", "root", "halt"}
  /\ Owned /\ OnePlace /\ OnPath /\ Translates

Tree == Unrooted \/ Rooted

-----------------------------------------------------------------------------
(* Frame f is in the direct mapping area. *)
Direct(f) ==
  /\ DIRECT_MAP_BASE + f \in DOMAIN mapped
  /\ mapped[DIRECT_MAP_BASE + f] = Entry(f, TRUE)

(* The frames of map entry e that are to be mapped there. *)
ToMap(e) ==
  {f \in Frames :
     /\ mmap[e].addr \div PAGE_SIZE <= f
     /\ f * PAGE_SIZE < PAGE_MASKED(mmap[e].addr) + mmap[e].len
     /\ DIRECT_MAP_BASE + f <= DIRECT_MAP_END}

(* The loop at hand maps map entry i - 1.  After the frame buffer i is 1.  *)
InEntry == Looping /\ loop.next = "physmem" /\ i > 1

Mapping ==
  /\ InEntry =>
       /\ i - 1 <= Len(mmap)
       /\ loop.rw = TRUE /\ loop.virt = DIRECT_MAP_BASE + loop.phys \div PAGE_SIZE
       /\ \A f \in ToMap(i - 1) : f * PAGE_SIZE < loop.end
       /\ pc = "map" => walk.va = DIRECT_MAP_BASE + walk.frame /\ walk.rw = TRUE
  /\ pc = "physmem" \/ InEntry =>
       \A e \in DOMAIN mmap : e < i =>
         \A f \in ToMap(e) :
           \/ Direct(f)
           \/ /\ InEntry /\ e = i - 1
              /\ loop.phys <= f * PAGE_SIZE \/ (pc = "map" /\ walk.va = DIRECT_MAP_BASE + f)

(* A call on behalf of the page database. *)
Filling == pc = "pgdb" \/ (pc = "map" /\ walk.back = "pgdb")

(* Page q of the database is mapped to a page of its own. *)
Backed(q) ==
  /\ PAGE_DATABASE_BASE + q \in DOMAIN mapped
  /\ mapped[PAGE_DATABASE_BASE + q].frame \in ToSet(handed_out)

Database ==
  /\ Filling \/ loaded => \A e \in DOMAIN mmap : \A f \in ToMap(e) : Direct(f)
  /\ Filling =>
       /\ i % PGDB_PG_PAGE_NR = 0
       /\ \A q \in Nat : q * PGDB_PG_PAGE_NR < i =>
            Backed(q) \/ (pc = "map" /\ walk.va = PAGE_DATABASE_BASE + q)
  /\ pc = "map" /\ walk.back = "pgdb" =>
       walk.frame \in ToSet(handed_out) /\ PAGE_DATABASE_BASE <= walk.va
  /\ loaded =>
       /\ pc \in {"database", "marks", "main", "fault"}
       /\ \A q \in Nat : q * PGDB_PG_PAGE_NR < pgdb_page_nr => Backed(q)

-----------------------------------------------------------------------------
(* The descriptors marked so far: entries before i, and the part of i.     *)
Marked(e, f) ==
  /\ Low(e) <= f /\ f < High(e)
  /\ e < i \/ (e = i /\ pc = "marks" /\ f * PAGE_SIZE < loop.phys)

Marks ==
  /\ \A f \in ImageFrames : pgdb[f].ref_count = 0
  /\ ~loaded => \A f \in Frames : pgdb[f].ref_count = 0
  /\ pc = "marks" => loaded /\ i \in 1 .. Len(mmap) /\ loop.phys \in Nat
  /\ pc \in {"database", "marks"} => i >= 1
  /\ pc = "marks" /\ UsualMap =>
       /\ loop.phys % PAGE_SIZE = 0 /\ mmap[i].addr <= loop.phys
       /\ loop.end = mmap[i].addr + mmap[i].len
  /\ pc = "main" /\ loaded => i > Len(mmap)
  /\ loaded /\ pc # "fault" /\ UsualMap =>
       PoolFrames = {f \in Frames \ UsedFrames :
                       /\ Turn <= f
                       /\ \E e \in DOMAIN mmap : mmap[e].type = "available" /\ Marked(e, f)}

IInv == Types /\ Ranges /\ Region /\ Handed /\ Tree /\ Mapping /\ Database /\ Marks

-----------------------------------------------------------------------------
(* Arithmetic. *)
LEMMA Positive ==
  /\ PAGE_SIZE \in Nat \ {0} /\ PT_ENTRIES \in Nat \ {0} /\ PGDB_PG_PAGE_NR \in Nat \ {0}
  /\ KERNEL_LOAD \in Nat
BY SizesAssumption

LEMMA Quotient == ASSUME NEW n \in Nat, NEW d \in Nat \ {0}
                  PROVE  /\ n \div d \in Nat /\ n % d \in 0 .. d - 1
                         /\ n = (n \div d) * d + (n % d)
BY SMT

LEMMA TimesLess == ASSUME NEW a \in Nat, NEW b \in Nat, NEW d \in Nat \ {0}
                   PROVE  /\ a * d \in Nat /\ (a + 1) * d = a * d + d
                          /\ a <= b => a * d <= b * d
                          /\ a < b => a * d + d <= b * d
                          /\ a * d < b * d => a < b
<1>1. a * d \in Nat /\ (a + 1) * d = a * d + d
  BY SMT
<1>2. ASSUME NEW x \in Nat, NEW y \in Nat, x <= y PROVE x * d <= y * d
  <2> DEFINE z == y - x
  <2>1. z \in Nat /\ y = x + z
    BY <1>2
  <2>2. z * d \in Nat /\ y * d = x * d + z * d
    <3> HIDE DEF z
    <3> QED
      BY <2>1, SMT
  <2> QED
    BY <2>2, SMT
<1>3. a < b => (a + 1) * d <= b * d
  BY <1>2
<1>4. a <= b => a * d <= b * d
  BY <1>2
<1>5. b <= a => b * d <= a * d
  BY <1>2
<1>6. b * d \in Nat
  BY SMT
<1> QED
  BY <1>1, <1>3, <1>4, <1>5, <1>6, SMT

(* Rounded down, and rounded up. *)
LEMMA Down == ASSUME NEW n \in Nat, NEW q \in Nat, NEW d \in Nat \ {0}
              PROVE  /\ q * d <= n <=> q <= n \div d
                     /\ n < q * d <=> n \div d < q
<1> DEFINE k == n \div d
<1>1. k \in Nat /\ k * d \in Nat /\ q * d \in Nat /\ k * d <= n /\ n < (k + 1) * d
  BY Quotient, TimesLess, SMT
<1> HIDE DEF k
<1>2. q <= k => q * d <= k * d
  BY <1>1, TimesLess
<1>3. k < q => (k + 1) * d <= q * d
  BY <1>1, TimesLess
<1>4. q * d <= n <=> q <= k
  BY <1>1, <1>2, <1>3, TimesLess, SMT
<1> QED
  BY <1>4, <1>1, SMT DEF k

LEMMA Up == ASSUME NEW n \in Nat, NEW q \in Nat, NEW d \in Nat \ {0}
            PROVE  n <= q * d <=> (n + d - 1) \div d <= q
<1>1. n + d - 1 \in Nat
  BY SMT
<1>2. n + d - 1 < (q + 1) * d <=> (n + d - 1) \div d < q + 1
  BY <1>1, Down
<1>3. (n + d - 1) \div d \in Nat
  BY <1>1, Quotient
<1>4. (q + 1) * d = q * d + d /\ q * d \in Nat
  BY TimesLess
<1> QED
  BY <1>2, <1>3, <1>4, SMT

LEMMA Aligned == ASSUME NEW q \in Nat, NEW d \in Nat \ {0}, NEW k \in 0 .. d - 1
                 PROVE  /\ (q * d + k) \div d = q /\ (q * d + k) % d = k
                        /\ (q * d) \div d = q /\ (q * d) % d = 0
<1>1. ASSUME NEW j \in 0 .. d - 1 PROVE (q * d + j) \div d = q /\ (q * d + j) % d = j
  <2> DEFINE n == q * d + j
  <2>1. n \in Nat /\ q * d \in Nat /\ q * d <= n /\ n < (q + 1) * d
    BY TimesLess, SMT
  <2> HIDE DEF n
  <2>2. q <= n \div d /\ n \div d < q + 1
    BY <2>1, Down
  <2>3. n \div d = q
    BY <2>1, <2>2, Quotient, SMT
  <2>4. n = q * d + (n % d) /\ n % d \in Nat
    <3>1. n = (n \div d) * d + (n % d) /\ n % d \in Nat
      BY <2>1, Quotient
    <3> QED
      BY <3>1, <2>3, Zenon
  <2>5. n % d = j
    BY <2>4, <2>1, SMT DEF n
  <2> QED
    BY <2>3, <2>5 DEF n
<1>2. 0 \in 0 .. d - 1 /\ q * d + 0 = q * d
  BY TimesLess, SMT
<1> QED
  BY <1>1, <1>2

-----------------------------------------------------------------------------
(* What the assumptions say of the machine boot runs on. *)
LEMMA Memory ==
  ASSUME machine \in Machines
  PROVE  /\ mmap \in Seq([addr : Nat, len : Nat, type : MemoryTypes])
         /\ Len(mmap) \in Nat /\ DOMAIN mmap = 1 .. Len(mmap)
         /\ \A e \in DOMAIN mmap :
              /\ mmap[e].addr \in Nat /\ mmap[e].len \in Nat /\ mmap[e].type \in MemoryTypes
              /\ mmap[e].addr + mmap[e].len \in Nat
              /\ 0 .. (mmap[e].addr + mmap[e].len) \div PAGE_SIZE \subseteq Frames
         /\ \A d, e \in DOMAIN mmap :
              d # e /\ mmap[d].type = "available" /\ mmap[e].type = "available" =>
                \/ mmap[d].addr + mmap[d].len <= mmap[e].addr
                \/ mmap[e].addr + mmap[e].len <= mmap[d].addr
<1>1. mmap \in Seq([addr : Nat, len : Nat, type : MemoryTypes])
  BY MachineAssumption DEF mmap
<1>2. Len(mmap) \in Nat /\ DOMAIN mmap = 1 .. Len(mmap)
  BY <1>1
<1>3. \A e \in DOMAIN mmap : mmap[e] \in [addr : Nat, len : Nat, type : MemoryTypes]
  BY <1>1, <1>2, ElementOfSeq
<1>4. \A e \in DOMAIN mmap :
        /\ mmap[e].addr \in Nat /\ mmap[e].len \in Nat /\ mmap[e].type \in MemoryTypes
        /\ mmap[e].addr + mmap[e].len \in Nat
  BY <1>3
<1>5. /\ \A e \in DOMAIN mmap :
           0 .. (mmap[e].addr + mmap[e].len) \div PAGE_SIZE \subseteq Frames
      /\ \A d, e \in DOMAIN mmap :
           d # e /\ mmap[d].type = "available" /\ mmap[e].type = "available" =>
             \/ mmap[d].addr + mmap[d].len <= mmap[e].addr
             \/ mmap[e].addr + mmap[e].len <= mmap[d].addr
  BY MachineAssumption DEF mmap
<1> QED
  BY <1>1, <1>2, <1>4, <1>5

LEMMA Image ==
  ASSUME machine \in Machines
  PROVE  /\ Len(sections) \in Nat /\ DOMAIN sections = 1 .. Len(sections)
         /\ ToSet(sections) = {sections[n] : n \in DOMAIN sections}
         /\ \A s \in ToSet(sections) :
              /\ s.type \in Nat /\ s.alloc \in BOOLEAN /\ s.addr \in Nat
              /\ s.offset \in Nat /\ s.size \in Nat /\ s.write \in BOOLEAN
              /\ s.alloc => s.addr .. s.addr + s.size \div PAGE_SIZE \subseteq VirtPages
              /\ s.alloc /\ HasBit(s.type, 1) =>
                   SegStart(s) \div PAGE_SIZE .. (SegStart(s) + s.size) \div PAGE_SIZE
                     \subseteq Frames
<1>1. sections \in Seq([type : Nat, alloc : BOOLEAN, addr : Nat, offset : Nat, size : Nat,
                        write : BOOLEAN])
  BY MachineAssumption DEF sections
<1>2. Len(sections) \in Nat /\ DOMAIN sections = 1 .. Len(sections)
  BY <1>1
<1>3. ToSet(sections) = {sections[n] : n \in DOMAIN sections}
  BY DEF ToSet
<1>4. \A n \in DOMAIN sections :
        sections[n] \in [type : Nat, alloc : BOOLEAN, addr : Nat, offset : Nat, size : Nat,
                         write : BOOLEAN]
  BY <1>1, <1>2, ElementOfSeq
<1>5. \A s \in ToSet(sections) :
        /\ s.type \in Nat /\ s.alloc \in BOOLEAN /\ s.addr \in Nat
        /\ s.offset \in Nat /\ s.size \in Nat /\ s.write \in BOOLEAN
  BY <1>3, <1>4
<1>6. \A s \in ToSet(sections) :
        s.alloc => s.addr .. s.addr + s.size \div PAGE_SIZE \subseteq VirtPages
  BY MachineAssumption DEF sections
<1>7. \A s \in ToSet(sections) :
        s.alloc /\ HasBit(s.type, 1) =>
          SegStart(s) \div PAGE_SIZE .. (SegStart(s) + s.size) \div PAGE_SIZE \subseteq Frames
  BY ImageAssumption DEF sections
<1> QED
  BY <1>2, <1>3, <1>5, <1>6, <1>7

(* The whole frames of a map entry, counted. *)
LEMMA Whole ==
  ASSUME machine \in Machines, NEW e \in DOMAIN mmap
  PROVE  /\ Low(e) \in Nat /\ High(e) \in Nat /\ 0 .. High(e) \subseteq Frames
         /\ RegionBase(e) = Low(e) * PAGE_SIZE /\ RegionEnd(e) = High(e) * PAGE_SIZE
         /\ mmap[e].addr <= Low(e) * PAGE_SIZE
         /\ High(e) * PAGE_SIZE <= mmap[e].addr + mmap[e].len
         /\ \A f \in Nat : Low(e) <= f <=> mmap[e].addr <= f * PAGE_SIZE
         /\ \A f \in Nat : f < High(e) <=> (f + 1) * PAGE_SIZE <= mmap[e].addr + mmap[e].len
         /\ WholeFramesOf(mmap[e].addr, mmap[e].addr + mmap[e].len) =
              {f \in Frames : Low(e) <= f /\ f < High(e)}
<1> DEFINE a == mmap[e].addr
           z == mmap[e].addr + mmap[e].len
<1>1. a \in Nat /\ z \in Nat /\ 0 .. z \div PAGE_SIZE \subseteq Frames
  BY Memory
<1>2. Low(e) = (a + PAGE_SIZE - 1) \div PAGE_SIZE /\ High(e) = z \div PAGE_SIZE
  BY DEF Low, High
<1> HIDE DEF a, z
<1>3. a + PAGE_SIZE - 1 \in Nat
  BY <1>1, Positive
<1>4. Low(e) \in Nat /\ High(e) \in Nat
  BY <1>1, <1>2, <1>3, Quotient, Positive
<1>5. \A f \in Nat : Low(e) <= f <=> a <= f * PAGE_SIZE
  BY <1>1, <1>2, Up, Positive
<1>6. \A f \in Nat : f * PAGE_SIZE <= z <=> f <= High(e)
  BY <1>1, <1>2, Down, Positive
<1>7. \A f \in Nat : f + 1 \in Nat /\ (f < High(e) <=> f + 1 <= High(e))
  BY <1>4
<1>8. \A f \in Nat : f < High(e) <=> (f + 1) * PAGE_SIZE <= z
  BY <1>6, <1>7
<1>9. WholeFramesOf(a, z) = {f \in Frames : Low(e) <= f /\ f < High(e)}
  BY <1>5, <1>8, LayoutAssumption DEF WholeFramesOf
<1>10. RegionBase(e) = Low(e) * PAGE_SIZE /\ RegionEnd(e) = High(e) * PAGE_SIZE
  BY DEF RegionBase, RegionEnd, PAGE_ALIGN, PAGE_MASKED, Low, High
<1>11. a <= Low(e) * PAGE_SIZE /\ High(e) * PAGE_SIZE <= z
  BY <1>4, <1>5, <1>6
<1> QED
  BY <1>1, <1>2, <1>4, <1>5, <1>8, <1>9, <1>10, <1>11 DEF a, z

(* Available regions share no frame. *)
LEMMA Apart ==
  ASSUME machine \in Machines, NEW d \in DOMAIN mmap, NEW e \in DOMAIN mmap, d # e,
         mmap[d].type = "available", mmap[e].type = "available",
         NEW f \in Nat, Low(d) <= f, f < High(d), Low(e) <= f, f < High(e)
  PROVE  FALSE
<1>1. /\ mmap[d].addr <= f * PAGE_SIZE /\ (f + 1) * PAGE_SIZE <= mmap[d].addr + mmap[d].len
      /\ mmap[e].addr <= f * PAGE_SIZE /\ (f + 1) * PAGE_SIZE <= mmap[e].addr + mmap[e].len
  BY Whole
<1>2. (f + 1) * PAGE_SIZE = f * PAGE_SIZE + PAGE_SIZE /\ f * PAGE_SIZE \in Nat /\ PAGE_SIZE > 0
  BY Positive, TimesLess
<1>3. /\ mmap[d].addr \in Nat /\ mmap[d].len \in Nat
      /\ mmap[e].addr \in Nat /\ mmap[e].len \in Nat
      /\ \/ mmap[d].addr + mmap[d].len <= mmap[e].addr
         \/ mmap[e].addr + mmap[e].len <= mmap[d].addr
  BY Memory
<1> QED
  BY <1>1, <1>2, <1>3, Positive

(* Which entries the allocator can turn to. *)
LEMMA RegionsAre ==
  ASSUME machine \in Machines, NEW e \in DOMAIN mmap
  PROVE  RegionEnd(e) - RegionBase(e) >= PAGE_SIZE <=> Low(e) < High(e)
<1>1. Low(e) \in Nat /\ High(e) \in Nat /\ PAGE_SIZE \in Nat \ {0}
  BY Whole, Positive
<1>2. /\ Low(e) * PAGE_SIZE \in Nat /\ High(e) * PAGE_SIZE \in Nat
      /\ Low(e) < High(e) => Low(e) * PAGE_SIZE + PAGE_SIZE <= High(e) * PAGE_SIZE
      /\ High(e) <= Low(e) => High(e) * PAGE_SIZE <= Low(e) * PAGE_SIZE
  BY <1>1, TimesLess
<1>3. RegionBase(e) = Low(e) * PAGE_SIZE /\ RegionEnd(e) = High(e) * PAGE_SIZE
  BY Whole
<1> HIDE DEF Low, High
<1> QED
  BY <1>1, <1>2, <1>3

-----------------------------------------------------------------------------
(* The allocator's loop passes one more frame, which it had not passed.    *)
LEMMA Takes ==
  ASSUME machine \in Machines, machine' = machine, Region, NEW f \in Frames,
         boot_mm_page_alloc_internal(f * PAGE_SIZE)
  PROVE  Region' /\ f \notin Passed /\ Passed' = Passed \cup {f}
<1>1. /\ mmap' = mmap
      /\ \A e : Low(e)' = Low(e) /\ High(e)' = High(e)
  BY DEF mmap, Low, High
<1>2. f \in Nat /\ PAGE_SIZE \in Nat \ {0}
  BY LayoutAssumption, Positive
<1>3. /\ Len(mmap) \in Nat /\ DOMAIN mmap = 1 .. Len(mmap)
      /\ curr_entry_idx \in 0 .. Len(mmap) /\ curr_avail \in Nat
      /\ Turn \in Nat /\ curr_avail = Turn * PAGE_SIZE
  BY <1>2, Memory, Quotient DEF Region, Turn
<1>4. \A e \in DOMAIN mmap :
        Low(e) \in Nat /\ High(e) \in Nat /\ RegionBase(e) = Low(e) * PAGE_SIZE
        /\ RegionEnd(e) = High(e) * PAGE_SIZE
  BY Whole
<1>5. \A a, b \in Nat : a * PAGE_SIZE = b * PAGE_SIZE => a = b
  <2>1. \A a \in Nat : (a * PAGE_SIZE) \div PAGE_SIZE = a
    <3>1. 0 \in 0 .. PAGE_SIZE - 1
      BY <1>2
    <3> QED
      BY <1>2, <3>1, Aligned
  <2> QED
    BY <2>1, Zenon
<1>6. \A a \in Nat : /\ a + 1 \in Nat /\ (a + 1) * PAGE_SIZE = a * PAGE_SIZE + PAGE_SIZE
                     /\ ((a + 1) * PAGE_SIZE) \div PAGE_SIZE = a + 1
                     /\ a * PAGE_SIZE \in Nat
  <2>1. ASSUME NEW a \in Nat
        PROVE  /\ a + 1 \in Nat /\ (a + 1) * PAGE_SIZE = a * PAGE_SIZE + PAGE_SIZE
               /\ ((a + 1) * PAGE_SIZE) \div PAGE_SIZE = a + 1 /\ a * PAGE_SIZE \in Nat
    <3>1. a + 1 \in Nat /\ 0 \in 0 .. PAGE_SIZE - 1
      BY <1>2
    <3>2. ((a + 1) * PAGE_SIZE) \div PAGE_SIZE = a + 1
      BY <1>2, <3>1, Aligned
    <3> QED
      BY <1>2, <3>1, <3>2, TimesLess
  <2> QED
    BY <2>1
<1> HIDE DEF Low, High
<1>7. CASE /\ curr_entry # 0
           /\ f * PAGE_SIZE = curr_avail
           /\ curr_avail' = curr_avail + PAGE_SIZE
           /\ curr_entry' = IF curr_avail' = curr_end THEN 0 ELSE curr_entry
           /\ UNCHANGED <<curr_entry_idx, curr_end>>
  <2> DEFINE e == curr_entry_idx
  <2>1. /\ e \in DOMAIN mmap /\ e # 0 /\ mmap[e].type = "available" /\ curr_entry = e
        /\ curr_end = High(e) * PAGE_SIZE /\ Low(e) < Turn /\ Turn < High(e)
    BY <1>3, <1>4, <1>7 DEF Region
  <2>2. f = Turn
    BY <1>2, <1>3, <1>5, <1>7
  <2>3. curr_avail' = (Turn + 1) * PAGE_SIZE /\ Turn' = Turn + 1 /\ curr_avail' \in Nat
    <3>1. curr_avail' = (Turn + 1) * PAGE_SIZE /\ curr_avail' \in Nat
      BY <1>3, <1>6, <1>7
    <3>2. Turn' = curr_avail' \div PAGE_SIZE
      BY DEF Turn
    <3> QED
      BY <1>3, <1>6, <3>1, <3>2
  <2>4. curr_avail' = curr_end <=> Turn + 1 = High(e)
    BY <1>3, <1>4, <1>5, <1>6, <2>1, <2>3
  <2> HIDE DEF Turn
  <2>5. Region'
    <3>1. /\ (curr_entry_idx \in 0 .. Len(mmap))' /\ (curr_entry \in {0, curr_entry_idx})'
          /\ (curr_end \in Nat)'
      BY <1>1, <1>3, <1>7, <2>1 DEF Region
    <3>2. (curr_entry = 0)' <=> (Turn = High(curr_entry_idx))'
      BY <1>1, <1>3, <1>7, <2>1, <2>3, <2>4
    <3>3. /\ (curr_end = High(curr_entry_idx) * PAGE_SIZE)'
          /\ (Low(curr_entry_idx) < Turn)' /\ (Turn <= High(curr_entry_idx))'
      BY <1>1, <1>3, <1>4, <1>7, <2>1, <2>3
    <3>4. (mmap[curr_entry_idx].type = "available")' /\ (curr_entry_idx # 0)'
      BY <1>1, <1>7, <2>1
    <3> QED
      BY <2>3, <3>1, <3>2, <3>3, <3>4 DEF Region
  <2>6. f \notin Passed
    <3> SUFFICES ASSUME NEW d \in 1 .. e, mmap[d].type = "available", Low(d) <= f, f < High(d),
                        d = e => f < Turn
                 PROVE  FALSE
      BY DEF Passed
    <3>1. d # e /\ d \in DOMAIN mmap
      BY <1>2, <1>3, <2>2
    <3>2. Low(e) <= f /\ f < High(e)
      BY <1>2, <1>4, <2>1, <2>2
    <3> QED
      BY <1>2, <2>1, <3>1, <3>2, Apart
  <2>7. Passed' = Passed \cup {f}
    <3>1. Passed' = {g \in Frames : \E d \in 1 .. e :
                       /\ mmap[d].type = "available"
                       /\ Low(d) <= g /\ g < High(d)
                       /\ d = e => g < Turn + 1}
      BY <1>1, <1>7, <2>3 DEF Passed
    <3>2. \A g \in Frames : g < Turn + 1 <=> g < Turn \/ g = Turn
      BY <1>3, LayoutAssumption
    <3>3. e \in 1 .. e /\ Low(e) <= f /\ f < High(e)
      BY <1>2, <1>3, <1>4, <2>1, <2>2
    <3>4. Passed = {g \in Frames : \E d \in 1 .. e :
                       /\ mmap[d].type = "available"
                       /\ Low(d) <= g /\ g < High(d)
                       /\ d = e => g < Turn}
      BY DEF Passed
    <3> HIDE DEF e
    <3> QED
      BY <2>1, <2>2, <3>1, <3>2, <3>3, <3>4
  <2> QED
    BY <2>5, <2>6, <2>7
<1>8. CASE /\ curr_entry = 0
           /\ \E e \in Regions :
                /\ \A d \in Regions : e <= d
                /\ f * PAGE_SIZE = RegionBase(e)
                /\ curr_avail' = RegionBase(e) + PAGE_SIZE
                /\ curr_end' = RegionEnd(e)
                /\ curr_entry' = IF curr_avail' = curr_end' THEN 0 ELSE e
                /\ curr_entry_idx' = e
  <2>1. PICK e \in Regions :
                /\ \A d \in Regions : e <= d
                /\ f * PAGE_SIZE = RegionBase(e)
                /\ curr_avail' = RegionBase(e) + PAGE_SIZE
                /\ curr_end' = RegionEnd(e)
                /\ curr_entry' = IF curr_avail' = curr_end' THEN 0 ELSE e
                /\ curr_entry_idx' = e
    BY <1>8
  <2>2. \A d \in DOMAIN mmap : RegionEnd(d) - RegionBase(d) >= PAGE_SIZE <=> Low(d) < High(d)
    BY RegionsAre
  <2>3. \A d : d \in Regions <=> /\ d \in curr_entry_idx + 1 .. Len(mmap)
                                 /\ mmap[d].type = "available" /\ Low(d) < High(d)
    BY <1>3, <2>2 DEF Regions
  <2>4. /\ e \in DOMAIN mmap /\ curr_entry_idx < e /\ e # 0 /\ e \in Nat
        /\ mmap[e].type = "available" /\ Low(e) < High(e)
    BY <1>3, <2>1, <2>3
  <2>5. f = Low(e)
    BY <1>2, <1>4, <1>5, <2>1, <2>4
  <2>6. curr_avail' = (Low(e) + 1) * PAGE_SIZE /\ Turn' = Low(e) + 1 /\ curr_avail' \in Nat
    <3>1. /\ Low(e) + 1 \in Nat /\ Low(e) * PAGE_SIZE + PAGE_SIZE = (Low(e) + 1) * PAGE_SIZE
          /\ (Low(e) + 1) * PAGE_SIZE \in Nat
          /\ ((Low(e) + 1) * PAGE_SIZE) \div PAGE_SIZE = Low(e) + 1
      BY <1>4, <1>6, <2>4, Zenon
    <3>2. RegionBase(e) = Low(e) * PAGE_SIZE
      BY <1>4, <2>4
    <3>3. curr_avail' = (Low(e) + 1) * PAGE_SIZE
      BY <2>1, <3>1, <3>2, Zenon
    <3> QED
      BY <3>1, <3>3, Zenon DEF Turn
  <2>7. curr_avail' = curr_end' <=> Low(e) + 1 = High(e)
    <3>1. curr_end' = High(e) * PAGE_SIZE /\ High(e) \in Nat /\ Low(e) + 1 \in Nat
      <4>1. RegionEnd(e) = High(e) * PAGE_SIZE /\ High(e) \in Nat /\ Low(e) \in Nat
        BY <1>4, <2>4
      <4> QED
        BY <1>6, <2>1, <4>1, Zenon
    <3>2. (Low(e) + 1) * PAGE_SIZE = High(e) * PAGE_SIZE <=> Low(e) + 1 = High(e)
      BY <1>5, <3>1, Zenon
    <3> QED
      BY <2>6, <3>1, <3>2, Zenon
  <2> HIDE DEF Turn
  <2>8. Region'
    <3>1. /\ (curr_entry_idx \in 0 .. Len(mmap))' /\ (curr_entry \in {0, curr_entry_idx})'
          /\ (curr_end \in Nat)' /\ (curr_end = High(curr_entry_idx) * PAGE_SIZE)'
      <4>1. /\ (curr_entry_idx \in 0 .. Len(mmap))' /\ (curr_entry \in {0, curr_entry_idx})'
        BY <1>1, <1>3, <2>1, <2>4
      <4>2. RegionEnd(e) = High(e) * PAGE_SIZE /\ High(e) * PAGE_SIZE \in Nat
        BY <1>4, <1>6, <2>4
      <4>3. curr_end' = High(e) * PAGE_SIZE
        BY <2>1, <4>2, Zenon
      <4>4. (High(curr_entry_idx))' = High(e)
        BY <1>1, <2>1
      <4> QED
        BY <4>1, <4>2, <4>3, <4>4, Zenon
    <3>2. (curr_entry = 0)' <=> (Turn = High(curr_entry_idx))'
      BY <1>1, <2>1, <2>4, <2>6, <2>7
    <3>3. (Low(curr_entry_idx) < Turn)' /\ (Turn <= High(curr_entry_idx))'
      BY <1>1, <1>4, <2>1, <2>4, <2>6
    <3>4. (mmap[curr_entry_idx].type = "available")' /\ (curr_entry_idx # 0)'
      BY <1>1, <2>1, <2>4
    <3> QED
      BY <2>6, <3>1, <3>2, <3>3, <3>4 DEF Region
  <2>9. f \notin Passed
    <3> SUFFICES ASSUME NEW d \in 1 .. curr_entry_idx, mmap[d].type = "available",
                        Low(d) <= f, f < High(d)
                 PROVE  FALSE
      BY DEF Passed
    <3>1. d # e /\ d \in DOMAIN mmap
      BY <1>3, <2>4
    <3> QED
      BY <1>2, <1>4, <2>4, <2>5, <3>1, Apart
  <2>10. Passed' = Passed \cup {f}
    <3>1. Passed' = {g \in Frames : \E d \in 1 .. e :
                       /\ mmap[d].type = "available"
                       /\ Low(d) <= g /\ g < High(d)
                       /\ d = e => g < Low(e) + 1}
      BY <1>1, <2>1, <2>6 DEF Passed
    <3>2. curr_entry_idx # 0 => Turn = High(curr_entry_idx)
      BY <1>8 DEF Region
    <3>3. Passed = {g \in Frames : \E d \in 1 .. curr_entry_idx :
                       /\ mmap[d].type = "available" /\ Low(d) <= g /\ g < High(d)}
      BY <3>2 DEF Passed
    <3>4. ASSUME NEW g \in Frames, NEW d \in 1 .. e, mmap[d].type = "available",
                 Low(d) <= g, g < High(d), d = e => g < Low(e) + 1
          PROVE  g \in Passed \cup {f}
      <4>1. CASE d <= curr_entry_idx
        <5>1. d \in 1 .. curr_entry_idx
          BY <1>3, <4>1
        <5> QED
          BY <3>3, <3>4, <5>1
      <4>2. CASE d = e
        BY <1>4, <2>4, <2>5, <3>4, <4>2, LayoutAssumption
      <4>3. CASE curr_entry_idx < d /\ d < e
        <5>1. d \in curr_entry_idx + 1 .. Len(mmap) /\ d \in DOMAIN mmap /\ ~(e <= d)
          BY <1>3, <2>4, <4>3
        <5>2. Low(d) < High(d)
          BY <1>4, <3>4, <5>1, LayoutAssumption
        <5> QED
          BY <2>1, <2>3, <3>4, <5>1, <5>2
      <4> QED
        BY <1>3, <2>4, <4>1, <4>2, <4>3
    <3>5. ASSUME NEW g \in Passed PROVE g \in Passed'
      <4>1. PICK d \in 1 .. curr_entry_idx :
              mmap[d].type = "available" /\ Low(d) <= g /\ g < High(d)
        BY <3>3
      <4>2. d \in 1 .. e /\ d # e /\ g \in Frames
        BY <1>3, <2>4, <3>3
      <4> QED
        BY <3>1, <4>1, <4>2
    <3>6. f \in Passed'
      <4>1. e \in 1 .. e /\ Low(e) <= f /\ f < High(e) /\ f < Low(e) + 1
        BY <1>4, <2>4, <2>5
      <4> QED
        BY <2>4, <3>1, <4>1
    <3> QED
      BY <3>1, <3>4, <3>5, <3>6
  <2> QED
    BY <2>8, <2>9, <2>10
<1> QED
  BY <1>7, <1>8 DEF boot_mm_page_alloc_internal

(* A page handed out was not handed out before and is not in use.          *)
LEMMA Allocates ==
  ASSUME machine \in Machines, machine' = machine, Region, Handed,
         NEW f \in Frames, boot_mm_page_alloc(f)
  PROVE  /\ Region' /\ Handed'
         /\ f \notin ToSet(handed_out)
         /\ ToSet(handed_out)' = ToSet(handed_out) \cup {f}
<1>1. /\ boot_mm_page_alloc_internal(f * PAGE_SIZE)
      /\ ~addr_is_in_used_range(f * PAGE_SIZE)
      /\ handed_out' = Append(handed_out, f)
  BY DEF boot_mm_page_alloc
<1>2. Region' /\ f \notin Passed /\ Passed' = Passed \cup {f}
  BY <1>1, Takes
<1>3. UsedFrames' = UsedFrames /\ f \notin UsedFrames
  BY <1>1 DEF UsedFrames, addr_is_in_used_range, sections
<1>4. /\ handed_out' \in Seq(Frames) /\ Len(handed_out') = Len(handed_out) + 1
      /\ Len(handed_out) \in Nat /\ DOMAIN handed_out = 1 .. Len(handed_out)
      /\ DOMAIN handed_out' = 1 .. Len(handed_out) + 1
      /\ \A n \in DOMAIN handed_out : handed_out'[n] = handed_out[n]
      /\ handed_out'[Len(handed_out) + 1] = f
  BY <1>1 DEF Handed
<1>5. ToSet(handed_out)' = ToSet(handed_out) \cup {f}
  <2>1. \A n : n \in DOMAIN handed_out' <=> n \in DOMAIN handed_out \/ n = Len(handed_out) + 1
    BY <1>4
  <2> QED
    BY <1>4, <2>1 DEF ToSet
<1>6. f \notin ToSet(handed_out)
  BY <1>2 DEF Handed
<1>7. IsInjective(handed_out)'
  <2> SUFFICES ASSUME NEW m \in DOMAIN handed_out', NEW n \in DOMAIN handed_out',
                      handed_out'[m] = handed_out'[n]
               PROVE  m = n
    BY DEF IsInjective
  <2>1. \A x, y \in DOMAIN handed_out : handed_out[x] = handed_out[y] => x = y
    BY DEF Handed, IsInjective
  <2>2. \A x \in DOMAIN handed_out : handed_out[x] # f
    BY <1>6 DEF ToSet
  <2>3. /\ m \in DOMAIN handed_out \/ m = Len(handed_out) + 1
        /\ n \in DOMAIN handed_out \/ n = Len(handed_out) + 1
    BY <1>4
  <2> QED
    BY <1>4, <2>1, <2>2, <2>3
<1>8. Handed'
  BY <1>2, <1>3, <1>4, <1>5, <1>7 DEF Handed
<1> QED
  BY <1>2, <1>4, <1>5, <1>6, <1>8

LEMMA Skips ==
  ASSUME machine \in Machines, Region, Handed, SkipUsed
  PROVE  Region' /\ Handed'
<1>1. PICK a \in PageAddrs : boot_mm_page_alloc_internal(a) /\ addr_is_in_used_range(a)
  BY DEF SkipUsed
<1>2. PICK f \in Frames : a = f * PAGE_SIZE
  BY DEF PageAddrs
<1>3. machine' = machine /\ handed_out' = handed_out
  BY DEF SkipUsed
<1>4. Region' /\ Passed' = Passed \cup {f}
  BY <1>1, <1>2, <1>3, Takes
<1>5. UsedFrames' = UsedFrames /\ f \in UsedFrames
  BY <1>1, <1>2, <1>3 DEF UsedFrames, addr_is_in_used_range, sections
<1> QED
  BY <1>3, <1>4, <1>5 DEF Handed, ToSet, IsInjective

LEMMA AllocatorStays ==
  ASSUME Region, Handed, UNCHANGED <<machine, alloc, handed_out>>
  PROVE  Region' /\ Handed'
<1>1. UNCHANGED <<machine, curr_entry, curr_entry_idx, curr_avail, curr_end, handed_out>>
  BY DEF alloc
<1>2. UNCHANGED <<mmap, Turn>> /\ \A e : Low(e)' = Low(e) /\ High(e)' = High(e)
  BY <1>1 DEF mmap, Turn, Low, High
<1>3. Region'
  BY <1>1, <1>2 DEF Region
<1>4. UNCHANGED <<Passed, UsedFrames>>
  BY <1>1, <1>2 DEF Passed, UsedFrames, addr_is_in_used_range, sections
<1> QED
  BY <1>1, <1>3, <1>4 DEF Handed, ToSet, IsInjective

(* What is passed is available memory. *)
LEMMA PassedAvailable ==
  ASSUME machine \in Machines, Region
  PROVE  Passed \subseteq Available
<1> SUFFICES ASSUME NEW f \in Passed PROVE f \in Available
  OBVIOUS
<1>1. PICK e \in 1 .. curr_entry_idx :
        mmap[e].type = "available" /\ Low(e) <= f /\ f < High(e) /\ f \in Frames
  BY DEF Passed
<1>2. e \in DOMAIN mmap
  BY Memory DEF Region
<1>3. f \in WholeFramesOf(mmap[e].addr, mmap[e].addr + mmap[e].len)
  BY <1>1, <1>2, Whole
<1> QED
  BY <1>1, <1>2, <1>3 DEF Available

LEMMA HandedFresh ==
  ASSUME machine \in Machines, Region, Handed
  PROVE  FreshPages
BY PassedAvailable DEF Handed, FreshPages

-----------------------------------------------------------------------------
(* Blocks: each level divides by the number of entries of a table.         *)
LEMMA Divides == ASSUME NEW n \in Nat, NEW a \in Nat \ {0}, NEW b \in Nat \ {0}
                 PROVE  a * b \in Nat \ {0} /\ n \div (a * b) = (n \div a) \div b
<1> DEFINE q == (n \div a) \div b
           d == a * b
<1>1. d \in Nat \ {0}
  BY SMT
<1>2. /\ n \div a \in Nat /\ q \in Nat /\ q * b \in Nat
      /\ q * b <= n \div a /\ n \div a < (q + 1) * b /\ (q + 1) * b \in Nat
  <2>1. n \div a \in Nat /\ q \in Nat
    BY Quotient
  <2>2. q * b <= n \div a /\ n \div a < (q + 1) * b
    <3>1. q <= (n \div a) \div b /\ q + 1 \in Nat /\ (n \div a) \div b < q + 1
      BY <2>1
    <3> HIDE DEF q
    <3> QED
      BY <2>1, <3>1, Down
  <2>3. q + 1 \in Nat
    BY <2>1
  <2> HIDE DEF q
  <2> QED
    BY <2>1, <2>2, <2>3, TimesLess
<1> HIDE DEF q
<1>3. (q * b) * a <= n /\ n < ((q + 1) * b) * a
  BY <1>2, Down
<1>4. (q * b) * a = q * d /\ ((q + 1) * b) * a = (q + 1) * d
  BY <1>2, SMT DEF d
<1>5. q + 1 \in Nat
  BY <1>2
<1> HIDE DEF d
<1>6. q <= n \div d /\ n \div d < q + 1
  BY <1>1, <1>2, <1>3, <1>4, <1>5, Down
<1>7. n \div d \in Nat
  BY <1>1, Quotient
<1>8. n \div d = q
  BY <1>2, <1>6, <1>7
<1> QED
  BY <1>1, <1>8 DEF d, q

LEMMA Powers ==
  /\ Power(1) = 1 /\ Power(2) = PT_ENTRIES /\ Power(3) = PT_ENTRIES * PT_ENTRIES
  /\ Power(4) = PT_ENTRIES * PT_ENTRIES * PT_ENTRIES
  /\ \A l \in 1 .. 4 : Power(l) \in Nat \ {0}
<1>1. /\ Power(1) = 1 /\ Power(2) = PT_ENTRIES /\ Power(3) = PT_ENTRIES * PT_ENTRIES
      /\ Power(4) = PT_ENTRIES * PT_ENTRIES * PT_ENTRIES
  BY DEF Power
<1>2. PT_ENTRIES * PT_ENTRIES \in Nat \ {0}
      /\ PT_ENTRIES * PT_ENTRIES * PT_ENTRIES \in Nat \ {0}
  <2>1. PT_ENTRIES * PT_ENTRIES \in Nat \ {0}
    BY Positive, Divides
  <2> QED
    BY <2>1, Positive, Divides
<1>3. \A l \in 1 .. 4 : l = 1 \/ l = 2 \/ l = 3 \/ l = 4
  OBVIOUS
<1> QED
  BY <1>1, <1>2, <1>3, Positive

(* Dividing twice is dividing by the product. *)
LEMMA DividesTwice ==
  \A n \in Nat : \A a, b \in Nat \ {0} : n \div (a * b) = (n \div a) \div b
BY Divides

LEMMA Blocks ==
  ASSUME NEW v \in VirtPages
  PROVE  /\ v \in Nat /\ Block(v, 0) = v /\ Block(v, 4) = 0
         /\ \A l \in 0 .. 4 : Block(v, l) \in Nat
         /\ \A l \in 1 .. 4 : /\ Block(v, l) = Block(v, l - 1) \div PT_ENTRIES
                              /\ PT_ENTRY(v, l) = Block(v, l - 1) % PT_ENTRIES
                              /\ PT_ENTRY(v, l) \in Index
<1> DEFINE P == PT_ENTRIES
<1>1. v \in Nat /\ P \in Nat \ {0} /\ v < P * P * P * P
  BY Positive DEF VirtPages
<1>2. Block(v, 0) = v
  <2>1. Block(v, 0) = v \div 1
    BY Powers DEF Block
  <2>2. 0 \in 0 .. 1 - 1 /\ v * 1 = v
    BY <1>1
  <2>3. (v * 1) \div 1 = v
    BY <1>1, <2>2, Aligned
  <2> QED
    BY <2>1, <2>2, <2>3
<1>3. /\ Block(v, 1) = v \div P /\ Block(v, 2) = v \div (P * P)
      /\ Block(v, 3) = v \div (P * P * P) /\ Block(v, 4) = 0
  BY Powers DEF Block
<1>4. P * P \in Nat \ {0} /\ P * P * P \in Nat \ {0}
  BY Powers
<1>5. \A l \in 0 .. 4 : Block(v, l) \in Nat
  <2>1. v \div P \in Nat /\ v \div (P * P) \in Nat /\ v \div (P * P * P) \in Nat
    BY <1>1, <1>4, Quotient
  <2>2. \A l \in 0 .. 4 : l = 0 \/ l = 1 \/ l = 2 \/ l = 3 \/ l = 4
    OBVIOUS
  <2> QED
    BY <1>1, <1>2, <1>3, <2>1, <2>2
<1>6. \A l \in 1 .. 4 : Block(v, l) = Block(v, l - 1) \div P
  <2>1. v \div (P * P) = (v \div P) \div P
    <3>1. P \in Nat \ {0} /\ v \in Nat
      BY <1>1
    <3> HIDE DEF P
    <3> QED
      BY <3>1, DividesTwice, Zenon
  <2>2. v \div ((P * P) * P) = (v \div (P * P)) \div P
    <3>1. \A q \in Nat \ {0} : v \div (q * P) = (v \div q) \div P
      <4>1. P \in Nat \ {0} /\ v \in Nat
        BY <1>1
      <4> HIDE DEF P
      <4> QED
        BY <4>1, DividesTwice, Zenon
    <3> QED
      BY <1>4, <3>1, Zenon
  <2>3. (v \div (P * P * P)) \div P = 0
    <3>1. v < (P * P * P) * P /\ v \div (P * P * P) \in Nat
      BY <1>1, <1>4, Quotient
    <3>2. v \div (P * P * P) < P
      <4>1. \A q \in Nat \ {0} : v < P * q <=> v \div q < P
        BY <1>1, Down
      <4>2. (P * P * P) * P = P * (P * P * P)
        BY <1>1, <1>4, SMT
      <4> HIDE DEF P
      <4> QED
        BY <1>4, <3>1, <4>1, <4>2, Zenon
    <3>3. 0 \in Nat /\ 0 + 1 = 1 /\ 1 * P = P /\ 1 \in Nat
      BY <1>1
    <3>4. (v \div (P * P * P)) \div P < 1
      BY <1>1, <3>1, <3>2, <3>3, Down, Zenon
    <3>5. (v \div (P * P * P)) \div P \in Nat
      BY <1>1, <3>1, Quotient
    <3> QED
      BY <3>4, <3>5
  <2>4. \A l \in 1 .. 4 : l = 1 \/ l = 2 \/ l = 3 \/ l = 4
    OBVIOUS
  <2>5. 1 - 1 = 0 /\ 2 - 1 = 1 /\ 3 - 1 = 2 /\ 4 - 1 = 3
    OBVIOUS
  <2> QED
    BY <1>2, <1>3, <2>1, <2>2, <2>3, <2>4, <2>5
<1>7. \A l \in 1 .. 4 : PT_ENTRY(v, l) = Block(v, l - 1) % P
  <2>1. ASSUME NEW l \in 1 .. 4 PROVE Block(v, l - 1) = v \div Power(l)
    <3>1. l - 1 # 4 /\ (l - 1) + 1 = l
      OBVIOUS
    <3> QED
      BY <3>1 DEF Block
  <2> QED
    BY <2>1 DEF PT_ENTRY
<1>8. ASSUME NEW l \in 1 .. 4 PROVE Block(v, l - 1) % P \in Index
  <2>1. Block(v, l - 1) \in Nat
    BY <1>5
  <2> QED
    BY <1>1, <2>1, Quotient DEF Index
<1> QED
  BY <1>1, <1>2, <1>3, <1>5, <1>6, <1>7, <1>8

(* Two pages are in one block of a level if they are in one block of the   *)
(* level above and have the same entry of its table.                       *)
LEMMA BlockBelow ==
  ASSUME NEW u \in VirtPages, NEW v \in VirtPages, NEW l \in 1 .. 4
  PROVE  Block(u, l - 1) = Block(v, l - 1) <=>
           Block(u, l) = Block(v, l) /\ PT_ENTRY(u, l) = PT_ENTRY(v, l)
<1> DEFINE x == Block(u, l - 1)
           y == Block(v, l - 1)
<1>1. /\ x \in Nat /\ y \in Nat
      /\ Block(u, l) = x \div PT_ENTRIES /\ PT_ENTRY(u, l) = x % PT_ENTRIES
      /\ Block(v, l) = y \div PT_ENTRIES /\ PT_ENTRY(v, l) = y % PT_ENTRIES
  <2>1. l - 1 \in 0 .. 4
    OBVIOUS
  <2> QED
    BY <2>1, Blocks
<1> HIDE DEF x, y
<1>2. x = (x \div PT_ENTRIES) * PT_ENTRIES + (x % PT_ENTRIES)
      /\ y = (y \div PT_ENTRIES) * PT_ENTRIES + (y % PT_ENTRIES)
  BY <1>1, Positive, Quotient
<1>3. x = y <=> Block(u, l) = Block(v, l) /\ PT_ENTRY(u, l) = PT_ENTRY(v, l)
  BY <1>1, <1>2, Zenon
<1> QED
  BY <1>3 DEF x, y

-----------------------------------------------------------------------------
(* The way of an address, one table further. *)
LEMMA AtBelow ==
  ASSUME NEW v, NEW l \in 1 .. 4
  PROVE  /\ At(v, l - 1) = IF At(v, l) = None THEN None
                           ELSE table[At(v, l).frame][PT_ENTRY(v, l)]
         /\ At(v, l - 1)' = IF At(v, l)' = None THEN None
                            ELSE table'[At(v, l)'.frame][PT_ENTRY(v, l)]
<1>1. /\ At(v, l - 1) = Lookup(At(v, l), v, l)
      /\ At(v, l - 1)' = Lookup(At(v, l), v, l)'
  <2>1. l = 1 \/ l = 2 \/ l = 3 \/ l = 4
    OBVIOUS
  <2>2. 4 - 1 = 3 /\ 3 - 1 = 2 /\ 2 - 1 = 1 /\ 1 - 1 = 0
    OBVIOUS
  <2>3. CASE l = 1
    BY <2>2, <2>3 DEF At, Translated
  <2>4. CASE l = 2
    BY <2>2, <2>4 DEF At
  <2>5. CASE l = 3
    BY <2>2, <2>5 DEF At
  <2>6. CASE l = 4
    BY <2>2, <2>6 DEF At
  <2> QED
    BY <2>1, <2>3, <2>4, <2>5, <2>6
<1>2. None' = None /\ PT_ENTRY(v, l)' = PT_ENTRY(v, l)
  BY DEF None, Entry, PT_ENTRY, Power
<1> QED
  BY <1>1, <1>2 DEF Lookup

LEMMA AtEnds ==
  ASSUME NEW v
  PROVE  /\ At(v, 4) = Entry(boot_kern_pgtable, TRUE)
         /\ At(v, 4)' = Entry(boot_kern_pgtable', TRUE)
         /\ At(v, 0) = Translated(v) /\ At(v, 0)' = Translated(v)'
BY DEF At, Entry

LEMMA EntryIs ==
  ASSUME NEW f, NEW rw
  PROVE  /\ Entry(f, rw).frame = f /\ Entry(f, rw).rw = rw
         /\ f \in Frames => Entry(f, rw) # None
BY LayoutAssumption DEF Entry, None

(* Addresses in one block of a level have the same table there. *)
LEMMA SameBlock ==
  ASSUME NEW u \in VirtPages, NEW v \in VirtPages, NEW l \in 0 .. 4, Block(u, l) = Block(v, l)
  PROVE  At(u, l) = At(v, l)
<1> DEFINE Same(m) == Block(u, m) = Block(v, m) => At(u, m) = At(v, m)
<1>1. Same(4)
  BY AtEnds
<1>2. ASSUME NEW m \in 1 .. 4, Same(m) PROVE Same(m - 1)
  <2> SUFFICES ASSUME Block(u, m - 1) = Block(v, m - 1) PROVE At(u, m - 1) = At(v, m - 1)
    OBVIOUS
  <2>1. Block(u, m) = Block(v, m) /\ PT_ENTRY(u, m) = PT_ENTRY(v, m)
    BY BlockBelow
  <2> QED
    BY <1>2, <2>1, AtBelow
<1>3. Same(3) /\ Same(2) /\ Same(1) /\ Same(0)
  <2> HIDE DEF Same
  <2>1. 4 - 1 = 3 /\ 3 - 1 = 2 /\ 2 - 1 = 1 /\ 1 - 1 = 0
    OBVIOUS
  <2> QED
    BY <1>1, <1>2, <2>1
<1>4. l = 0 \/ l = 1 \/ l = 2 \/ l = 3 \/ l = 4
  OBVIOUS
<1> QED
  BY <1>1, <1>3, <1>4

(* One entry of one table is written: the one at level L on the way of va, *)
(* which above level 1 was free and leads to a table g of its own, cleared.*)
Writes(va, L, t, g, x) ==
  /\ OnePlace /\ boot_kern_pgtable' = boot_kern_pgtable
  /\ At(va, L) # None /\ At(va, L).frame = t
  /\ \A u \in VirtPages, m \in 1 .. 4 : At(u, m) # None => At(u, m).frame \in Frames \ {g}
  /\ table'[t] = [table[t] EXCEPT ![PT_ENTRY(va, L)] = x]
  /\ \A h \in Frames \ {t, g} : table'[h] = table[h]
  /\ L > 1 => /\ table[t][PT_ENTRY(va, L)] = None
              /\ x # None /\ x.frame = g /\ table'[g] = Cleared

(* It is the only entry on anybody's way that changes.                     *)
LEMMA OneEntry ==
  ASSUME table \in [Frames -> [Index -> Entries \cup {None}]],
         NEW va \in VirtPages, NEW L \in 1 .. 4, NEW t \in Frames, NEW g, NEW x,
         Writes(va, L, t, g, x), NEW v \in VirtPages, NEW l \in 0 .. 4
  PROVE  At(v, l)' = IF l = L - 1 /\ Block(v, l) = Block(va, l) THEN x ELSE At(v, l)
<1> USE DEF Writes
<1> DEFINE Right(m) ==
      At(v, m)' = IF m = L - 1 /\ Block(v, m) = Block(va, m) THEN x ELSE At(v, m)
<1>1. Right(4)
  <2>1. 4 # L - 1
    OBVIOUS
  <2>2. At(v, 4)' = At(v, 4)
    BY AtEnds, Zenon
  <2> QED
    BY <2>1, <2>2
<1>2. ASSUME NEW m \in 1 .. 4, Right(m) PROVE Right(m - 1)
  <2> DEFINE a == At(v, m)
             ix == PT_ENTRY(v, m)
  <2>1. /\ At(v, m - 1) = IF a = None THEN None ELSE table[a.frame][ix]
        /\ At(v, m - 1)' = IF a' = None THEN None ELSE table'[a'.frame][ix]
    BY AtBelow
  <2>2. Block(v, m - 1) = Block(va, m - 1) <=>
          Block(v, m) = Block(va, m) /\ ix = PT_ENTRY(va, m)
    BY BlockBelow
  <2>3. ix \in Index /\ PT_ENTRY(va, L) \in Index
    BY Blocks
  <2>4. At(va, L - 1) = table[t][PT_ENTRY(va, L)]
    BY AtBelow
  <2>5. CASE m = L - 1 /\ Block(v, m) = Block(va, m)
    <3>1. L > 1 /\ m - 1 # L - 1
      BY <2>5
    <3>2. a' = x /\ x # None /\ x.frame = g /\ table'[g] = Cleared
      BY <1>2, <2>5, <3>1
    <3>3. At(v, m - 1)' = None
      BY <2>1, <2>3, <3>2 DEF Cleared, Index
    <3>4. a = None
      <4>1. m \in 0 .. 4
        OBVIOUS
      <4>2. a = At(va, m)
        BY <2>5, <4>1, SameBlock
      <4> QED
        BY <2>4, <2>5, <3>1, <4>2
    <3> QED
      BY <2>1, <3>1, <3>3, <3>4
  <2>6. CASE ~(m = L - 1 /\ Block(v, m) = Block(va, m))
    <3>1. a' = a
      BY <1>2, <2>6
    <3>2. CASE a = None
      <4>1. ~(m - 1 = L - 1 /\ Block(v, m - 1) = Block(va, m - 1))
        <5> SUFFICES ASSUME m - 1 = L - 1, Block(v, m - 1) = Block(va, m - 1) PROVE FALSE
          OBVIOUS
        <5>1. m = L /\ m \in 0 .. 4 /\ Block(v, m) = Block(va, m)
          BY <2>2
        <5>2. a = At(va, L)
          BY <5>1, SameBlock
        <5> QED
          BY <3>2, <5>2
      <4> QED
        BY <2>1, <3>1, <3>2, <4>1
    <3>3. CASE a # None /\ a.frame = t
      <4>1. m = L /\ Block(v, m) = Block(va, m)
        BY <3>3 DEF OnePlace
      <4>2. table'[t][ix] = IF ix = PT_ENTRY(va, L) THEN x ELSE table[t][ix]
        BY <2>3
      <4> QED
        BY <2>1, <2>2, <3>1, <3>3, <4>1, <4>2
    <3>4. CASE a # None /\ a.frame # t
      <4>1. a.frame \in Frames \ {t, g}
        BY <3>4
      <4>2. At(v, m - 1)' = At(v, m - 1)
        BY <2>1, <3>1, <3>4, <4>1
      <4>3. ~(m - 1 = L - 1 /\ Block(v, m - 1) = Block(va, m - 1))
        <5> SUFFICES ASSUME m - 1 = L - 1, Block(v, m - 1) = Block(va, m - 1) PROVE FALSE
          OBVIOUS
        <5>1. m = L /\ m \in 0 .. 4 /\ Block(v, m) = Block(va, m)
          BY <2>2
        <5>2. a = At(va, L)
          BY <5>1, SameBlock
        <5> QED
          BY <3>4, <5>2
      <4> QED
        BY <4>2, <4>3
    <3> QED
      BY <3>2, <3>3, <3>4
  <2> QED
    BY <2>5, <2>6
<1>3. Right(3) /\ Right(2) /\ Right(1) /\ Right(0)
  <2> HIDE DEF Right
  <2>1. 4 - 1 = 3 /\ 3 - 1 = 2 /\ 2 - 1 = 1 /\ 1 - 1 = 0
    OBVIOUS
  <2> QED
    BY <1>1, <1>2, <2>1
<1>4. l = 0 \/ l = 1 \/ l = 2 \/ l = 3 \/ l = 4
  OBVIOUS
<1> QED
  BY <1>1, <1>3, <1>4

-----------------------------------------------------------------------------
(* The tables while boot goes on. *)
LEMMA HandedFrames == ASSUME Handed PROVE ToSet(handed_out) \subseteq Frames
BY DEF Handed, UsedFrames, Passed

LEMMA RootedNow ==
  ASSUME Tree
  PROVE  /\ pc \in {"elf", "bss", "physmem", "pgdb", "region", "map", "marks"} => Rooted
         /\ pc \in {"init", "root"} => Unrooted
         /\ loaded => Rooted
BY DEF Tree, Unrooted, Rooted

LEMMA WaysStay ==
  ASSUME UNCHANGED <<table, boot_kern_pgtable>>, NEW v, NEW l \in 0 .. 4
  PROVE  At(v, l)' = At(v, l)
<1>1. \A e, k : Lookup(e, v, k)' = Lookup(e, v, k)
  BY DEF Lookup, None, Entry, PT_ENTRY, Power
<1>2. Translated(v)' = Translated(v)
  BY DEF Translated, Lookup, None, Entry, PT_ENTRY, Power
<1>3. l = 0 \/ l = 1 \/ l = 2 \/ l = 3 \/ l = 4
  OBVIOUS
<1>4. CASE l = 0
  BY <1>2, <1>4 DEF At
<1>5. CASE l = 1
  BY <1>5 DEF At, Lookup, None, Entry, PT_ENTRY, Power
<1>6. CASE l = 2
  BY <1>6 DEF At, Lookup, None, Entry, PT_ENTRY, Power
<1>7. CASE l = 3
  BY <1>7 DEF At, Lookup, None, Entry, PT_ENTRY, Power
<1>8. CASE l = 4
  BY <1>8 DEF At, Lookup, None, Entry, PT_ENTRY, Power
<1> QED
  BY <1>3, <1>4, <1>5, <1>6, <1>7, <1>8

(* No table is written; a walk goes on where it was, or begins at the root.*)
LEMMA RootedStays ==
  ASSUME Rooted, boot_kern_pgtable \in Frames, UNCHANGED <<table, boot_kern_pgtable, mapped>>,
         ToSet(handed_out) \subseteq ToSet(handed_out)', pc' \notin {"init", "root", "halt"},
         pc' = "map" => \/ pc = "map" /\ walk' = walk
                        \/ walk'.level = 4 /\ walk'.table = boot_kern_pgtable
  PROVE  Rooted'
<1>1. \A v : \A l \in 0 .. 4 : At(v, l)' = At(v, l)
  BY WaysStay
<1>2. \A v, l : Block(v, l)' = Block(v, l)
  BY DEF Block, Power
<1>3. 1 .. 4 \subseteq 0 .. 4 /\ 0 \in 0 .. 4 /\ 4 \in 0 .. 4 /\ None' = None
  BY DEF None, Entry
<1>4. Owned'
  BY <1>1, <1>3 DEF Rooted, Owned
<1>5. OnePlace'
  BY <1>1, <1>2, <1>3 DEF Rooted, OnePlace
<1>6. OnPath'
  <2> SUFFICES ASSUME pc' = "map", NEW v \in VirtPages, NEW l \in 1 .. 4,
                      v = walk'.va, l = walk'.level
               PROVE  At(v, l)' # None /\ At(v, l)'.frame = walk'.table
    BY <1>3 DEF OnPath
  <2>1. CASE pc = "map" /\ walk' = walk
    BY <1>1, <1>3, <2>1 DEF Rooted, OnPath
  <2>2. CASE walk'.level = 4 /\ walk'.table = boot_kern_pgtable
    <3>1. At(v, l)' = Entry(boot_kern_pgtable, TRUE)
      BY <2>2 DEF At, Entry
    <3> QED
      BY <2>2, <3>1, LayoutAssumption DEF Entry, None
  <2> QED
    BY <2>1, <2>2
<1>7. Translates'
  <2>1. \A v : Translated(v)' = Translated(v)
    BY <1>1, <1>3, AtEnds
  <2> QED
    BY <2>1 DEF Rooted, Translates
<1> QED
  BY <1>4, <1>5, <1>6, <1>7 DEF Rooted

(* Where the new root table begins: it is empty, and nothing is mapped.    *)
LEMMA RootBegins ==
  ASSUME TableTypes, Unrooted, NEW f \in Frames, boot_kern_pgtable' = f,
         table' = [table EXCEPT ![f] = Cleared], mapped' = mapped, pc' = "elf",
         ToSet(handed_out)' = ToSet(handed_out) \cup {f}
  PROVE  Rooted'
<1>1. table'[f] = Cleared
  BY DEF TableTypes
<1>2. ASSUME NEW v \in VirtPages
      PROVE  /\ At(v, 4)' = Entry(f, TRUE)
             /\ At(v, 3)' = None /\ At(v, 2)' = None /\ At(v, 1)' = None
  <2>1. At(v, 4)' = Entry(f, TRUE)
    BY AtEnds
  <2>2. Entry(f, TRUE).frame = f /\ PT_ENTRY(v, 4) \in Index
    <3>1. 4 \in 1 .. 4
      OBVIOUS
    <3> QED
      BY <3>1, Blocks DEF Entry
  <2>3. At(v, 3)' = None
    <3>1. 4 - 1 = 3 /\ 4 \in 1 .. 4
      OBVIOUS
    <3>2. At(v, 3)' = IF At(v, 4)' = None THEN None ELSE table'[At(v, 4)'.frame][PT_ENTRY(v, 4)]
      BY <3>1, AtBelow
    <3> QED
      BY <1>1, <2>1, <2>2, <3>2 DEF Cleared, Index
  <2>4. At(v, 2)' = None
    <3>1. 3 - 1 = 2 /\ 3 \in 1 .. 4
      OBVIOUS
    <3> QED
      BY <2>3, <3>1, AtBelow
  <2>5. At(v, 1)' = None
    <3>1. 2 - 1 = 1 /\ 2 \in 1 .. 4
      OBVIOUS
    <3> QED
      BY <2>4, <3>1, AtBelow
  <2> QED
    BY <2>1, <2>3, <2>4, <2>5
<1>3. ASSUME NEW v \in VirtPages, NEW l \in 1 .. 4, At(v, l)' # None
      PROVE  l = 4 /\ At(v, l)'.frame = f
  <2>1. l = 1 \/ l = 2 \/ l = 3 \/ l = 4
    OBVIOUS
  <2>2. l = 4
    BY <1>2, <1>3, <2>1
  <2>3. At(v, 4)'.frame = f
    BY <1>2, EntryIs
  <2> QED
    BY <2>2, <2>3
<1>4. None' = None
  BY DEF None, Entry
<1>5. Owned'
  BY <1>3, <1>4 DEF Owned
<1>6. OnePlace'
  BY <1>3, <1>4 DEF OnePlace, Block
<1>7. OnPath'
  BY DEF OnPath
<1>8. Translates'
  BY DEF Unrooted, Translates
<1> QED
  BY <1>5, <1>6, <1>7, <1>8 DEF Rooted

(* The walk takes the table it found. *)
LEMMA WalkDownKeeps ==
  ASSUME Types, Rooted, WalkDown
  PROVE  Rooted' /\ WalkTypes'
<1>1. /\ pc = "map" /\ pc' = "map" /\ walk.level > 1
      /\ table[walk.table][walk.index[walk.level]] # None
      /\ walk' = [walk EXCEPT !.level = @ - 1,
                              !.table = table[walk.table][walk.index[walk.level]].frame]
      /\ UNCHANGED <<table, boot_kern_pgtable, mapped, handed_out>>
  BY DEF WalkDown
<1> DEFINE va == walk.va
           L == walk.level
           e == table[walk.table][walk.index[walk.level]]
<1>2. /\ va \in VirtPages /\ L \in 1 .. 4 /\ L - 1 \in 1 .. 4 /\ walk.table \in Frames
      /\ walk.index[L] = PT_ENTRY(va, L) /\ walk.index[L] \in Index
  BY <1>1 DEF Types, WalkTypes
<1>3. At(va, L) # None /\ At(va, L).frame = walk.table
  BY <1>1, <1>2 DEF Rooted, OnPath
<1>4. At(va, L - 1) = e
  BY <1>2, <1>3, AtBelow
<1>5. e \in Entries /\ e.frame \in Frames
  BY <1>1, <1>2 DEF Types, TableTypes, Entries
<1>6. WalkTypes'
  <2>1. /\ walk' \in [va : VirtPages, frame : Frames, rw : BOOLEAN, level : 1 .. 4, table : Frames,
                      back : {"init", "region", "bss", "pgdb"}, index : [1 .. 4 -> Index]]
        /\ walk'.va = walk.va /\ walk'.index = walk.index
    BY <1>1, <1>2, <1>5 DEF Types, WalkTypes
  <2> QED
    BY <2>1 DEF Types, WalkTypes, PT_ENTRY, Power, Index, VirtPages
<1>7. \A v : \A l \in 0 .. 4 : At(v, l)' = At(v, l)
  BY <1>1, WaysStay
<1>8. 1 .. 4 \subseteq 0 .. 4 /\ None' = None /\ \A v, l : Block(v, l)' = Block(v, l)
  BY DEF None, Entry, Block, Power
<1>9. Owned' /\ OnePlace'
  BY <1>1, <1>7, <1>8 DEF Rooted, Owned, OnePlace
<1>10. OnPath'
  <2> SUFFICES ASSUME NEW v \in VirtPages, NEW l \in 1 .. 4, v = walk'.va, l = walk'.level
               PROVE  At(v, l)' # None /\ At(v, l)'.frame = walk'.table
    BY <1>8 DEF OnPath
  <2>1. v = va /\ l = L - 1 /\ walk'.table = e.frame
    BY <1>1, <1>2, <1>5 DEF Types, WalkTypes
  <2>2. At(v, l)' = At(v, l)
    BY <1>7, <1>8
  <2> QED
    BY <1>1, <1>4, <2>1, <2>2
<1>11. Translates'
  <2>1. \A v : Translated(v)' = Translated(v)
    BY <1>1 DEF Translated, Lookup, None, Entry, PT_ENTRY, Power
  <2> QED
    BY <1>1, <2>1 DEF Rooted, Translates
<1> QED
  BY <1>1, <1>6, <1>9, <1>10, <1>11 DEF Rooted

(* A table that is missing is allocated, cleared and entered. *)
LEMMA NewTableKeeps ==
  ASSUME Types, Region, Handed, Rooted, NewTable
  PROVE  Rooted' /\ TableTypes' /\ WalkTypes' /\ Region' /\ Handed'
<1> DEFINE va == walk.va
           L == walk.level
           t == walk.table
           ix == PT_ENTRY(va, L)
<1>1. PICK f \in Frames :
        /\ Allocating /\ boot_mm_page_alloc(f)
        /\ table' = [table EXCEPT ![f] = Cleared,
                                  ![walk.table][walk.index[walk.level]] = Entry(f, TRUE)]
        /\ walk' = [walk EXCEPT !.level = @ - 1, !.table = f]
  BY DEF NewTable, boot_mm_page_alloc
<1>2. /\ pc = "map" /\ pc' = "map" /\ L > 1
      /\ UNCHANGED <<machine, boot_kern_pgtable, mapped>>
  BY DEF NewTable
<1>3. Region' /\ Handed' /\ f \notin ToSet(handed_out)
      /\ ToSet(handed_out)' = ToSet(handed_out) \cup {f}
  <2>1. machine \in Machines /\ machine' = machine
    BY <1>2 DEF Types, RestTypes
  <2> QED
    BY <1>1, <2>1, Allocates
<1>4. /\ va \in VirtPages /\ L \in 1 .. 4 /\ L - 1 \in 1 .. 4 /\ t \in Frames
      /\ walk.index[L] = ix /\ ix \in Index
  BY <1>2 DEF Types, WalkTypes
<1>5. table[t][ix] = None
  BY <1>1, <1>2, <1>4 DEF Allocating
<1>6. At(va, L) # None /\ At(va, L).frame = t
  BY <1>2, <1>4 DEF Rooted, OnPath
<1>7. t \in ToSet(handed_out) /\ t # f
  BY <1>3, <1>4, <1>6 DEF Rooted, Owned
<1>8. table \in [Frames -> [Index -> Entries \cup {None}]]
  BY DEF Types, TableTypes
<1>9. table'[t] = [table[t] EXCEPT ![ix] = Entry(f, TRUE)]
  BY <1>1, <1>4, <1>7, <1>8
<1>10. table'[f] = Cleared /\ \A h \in Frames \ {t, f} : table'[h] = table[h]
  BY <1>1, <1>7, <1>8
<1>11. \A u \in VirtPages, m \in 1 .. 4 : At(u, m) # None => At(u, m).frame \in Frames \ {f}
  BY <1>3, HandedFrames DEF Rooted, Owned
<1>12. Entry(f, TRUE).frame = f /\ Entry(f, TRUE) # None /\ Entry(f, TRUE) \in Entries
  BY LayoutAssumption DEF Entry, None, Entries
<1>13. \A v \in VirtPages : \A l \in 0 .. 4 :
         At(v, l)' = IF l = L - 1 /\ Block(v, l) = Block(va, l) THEN Entry(f, TRUE) ELSE At(v, l)
  <2>1. OnePlace
    BY DEF Rooted
  <2> DEFINE x == Entry(f, TRUE)
  <2>2. Writes(va, L, t, f, x)
    <3> HIDE DEF va, L, t
    <3> QED
      BY <1>2, <1>5, <1>6, <1>9, <1>10, <1>11, <1>12, <2>1 DEF Writes
  <2>3. \A u \in VirtPages, k \in 1 .. 4, s \in Frames : \A g, y : Writes(u, k, s, g, y) =>
          \A v \in VirtPages : \A l \in 0 .. 4 :
            At(v, l)' = IF l = k - 1 /\ Block(v, l) = Block(u, l) THEN y ELSE At(v, l)
    BY <1>8, OneEntry
  <2>4. va \in VirtPages /\ L \in 1 .. 4 /\ t \in Frames
    BY <1>4
  <2> HIDE DEF va, L, t, ix, x
  <2>5. \A v \in VirtPages : \A l \in 0 .. 4 :
          At(v, l)' = IF l = L - 1 /\ Block(v, l) = Block(va, l) THEN x ELSE At(v, l)
    BY <2>2, <2>3, <2>4
  <2> QED
    BY <2>5 DEF x
<1>14. 1 .. 4 \subseteq 0 .. 4 /\ None' = None /\ \A v, l : Block(v, l)' = Block(v, l)
  BY DEF None, Entry, Block, Power
<1>15. Owned'
  <2> SUFFICES ASSUME NEW v \in VirtPages, NEW l \in 1 .. 4, At(v, l)' # None
               PROVE  At(v, l)'.frame \in ToSet(handed_out)'
    BY <1>14 DEF Owned
  <2> HIDE DEF va, L
  <2>1. CASE l = L - 1 /\ Block(v, l) = Block(va, l)
    BY <1>3, <1>12, <1>13, <1>14, <2>1
  <2>2. CASE ~(l = L - 1 /\ Block(v, l) = Block(va, l))
    BY <1>3, <1>13, <1>14, <2>2 DEF Rooted, Owned
  <2> QED
    BY <2>1, <2>2
<1>16. OnePlace'
  <2> SUFFICES ASSUME NEW u \in VirtPages, NEW v \in VirtPages, NEW l \in 1 .. 4, NEW m \in 1 .. 4,
                      At(u, l)' # None, At(v, m)' # None, At(u, l)'.frame = At(v, m)'.frame
               PROVE  l = m /\ Block(u, l) = Block(v, l)
    BY <1>14 DEF OnePlace
  <2> HIDE DEF va, L
  <2> DEFINE New(w, k) == k = L - 1 /\ Block(w, k) = Block(va, k)
  <2>1. \A w \in VirtPages, k \in 1 .. 4 :
          IF New(w, k) THEN At(w, k)'.frame = f
          ELSE At(w, k)' = At(w, k) /\ (At(w, k) # None => At(w, k).frame # f)
    BY <1>11, <1>12, <1>13, <1>14
  <2>2. CASE New(u, l) /\ New(v, m)
    BY <2>2
  <2>3. CASE ~New(u, l) /\ ~New(v, m)
    <3>1. At(u, l)' = At(u, l) /\ At(v, m)' = At(v, m)
      BY <2>1, <2>3
    <3> QED
      BY <3>1 DEF Rooted, OnePlace
  <2>4. CASE ~(New(u, l) <=> New(v, m))
    <3> HIDE DEF New
    <3> QED
      BY <2>1, <2>4
  <2> QED
    BY <2>2, <2>3, <2>4
<1>17. OnPath'
  <2> SUFFICES ASSUME NEW v \in VirtPages, NEW l \in 1 .. 4, v = walk'.va, l = walk'.level
               PROVE  At(v, l)' # None /\ At(v, l)'.frame = walk'.table
    BY <1>14 DEF OnPath
  <2>1. v = va /\ l = L - 1 /\ walk'.table = f
    BY <1>1, <1>4 DEF Types, WalkTypes
  <2>2. At(v, l)' = Entry(f, TRUE)
    BY <1>13, <1>14, <2>1
  <2> QED
    BY <1>12, <2>1, <2>2
<1>18. Translates'
  <2>1. \A v \in VirtPages : At(v, 0)' = At(v, 0)
    <3>1. 0 \in 0 .. 4 /\ 0 # L - 1
      BY <1>4
    <3> QED
      BY <1>13, <3>1
  <2>2. \A v \in VirtPages : Translated(v)' = Translated(v)
    BY <2>1, AtEnds
  <2> QED
    BY <1>2, <2>2 DEF Rooted, Translates, Types, TableTypes
<1>19. TableTypes'
  <2>1. Cleared \in [Index -> Entries \cup {None}]
    BY DEF Cleared, Index
  <2>2. [table[t] EXCEPT ![ix] = Entry(f, TRUE)] \in [Index -> Entries \cup {None}]
    BY <1>4, <1>8, <1>12
  <2>3. table' \in [Frames -> [Index -> Entries \cup {None}]]
    <3>1. DOMAIN table' = Frames /\ table' = [h \in Frames |-> table'[h]]
      BY <1>1, <1>8
    <3>2. \A h \in Frames : table'[h] \in [Index -> Entries \cup {None}]
      BY <1>8, <1>9, <1>10, <2>1, <2>2
    <3> QED
      BY <3>1, <3>2
  <2> QED
    BY <1>2, <2>3 DEF Types, TableTypes, Index, Entries, None, Entry, VirtPages
<1>20. WalkTypes'
  <2>1. /\ walk' \in [va : VirtPages, frame : Frames, rw : BOOLEAN, level : 1 .. 4, table : Frames,
                      back : {"init", "region", "bss", "pgdb"}, index : [1 .. 4 -> Index]]
        /\ walk'.va = walk.va /\ walk'.index = walk.index
    BY <1>1, <1>4 DEF Types, WalkTypes
  <2> QED
    BY <2>1 DEF Types, WalkTypes, PT_ENTRY, Power, Index, VirtPages
<1> QED
  BY <1>2, <1>3, <1>15, <1>16, <1>17, <1>18, <1>19, <1>20 DEF Rooted

(* The entry at the last level is written. *)
LEMMA WriteEntryTree ==
  ASSUME Types, Ranges, Handed, Rooted, WriteEntry
  PROVE  Rooted' /\ TableTypes'
<1> DEFINE va == walk.va
           t == walk.table
           ix == PT_ENTRY(va, 1)
           x == Entry(walk.frame, walk.rw)
<1>1. /\ pc = "map" /\ walk.level = 1 /\ pc' = walk.back
      /\ table' = [table EXCEPT ![t][walk.index[1]] = x]
      /\ mapped' = [v \in DOMAIN mapped \cup {va} |-> IF v = va THEN x ELSE mapped[v]]
      /\ UNCHANGED <<boot_kern_pgtable, handed_out, walk>>
  BY DEF WriteEntry
<1>2. /\ va \in VirtPages /\ t \in Frames /\ walk.index[1] = ix /\ ix \in Index /\ 1 \in 1 .. 4
      /\ walk.frame \in Frames /\ walk.rw \in BOOLEAN /\ walk.back \in {"region", "bss", "pgdb"}
  <2>1. 1 \in 1 .. 4
    OBVIOUS
  <2> QED
    BY <1>1, <2>1 DEF Types, WalkTypes, Ranges
<1>3. x \in Entries /\ x # None
  BY <1>2, LayoutAssumption DEF Entries, Entry, None
<1>4. At(va, 1) # None /\ At(va, 1).frame = t
  BY <1>1, <1>2 DEF Rooted, OnPath
<1>5. table \in [Frames -> [Index -> Entries \cup {None}]]
  BY DEF Types, TableTypes
<1>6. /\ table'[t] = [table[t] EXCEPT ![ix] = x]
      /\ \A h \in Frames \ {t, -1} : table'[h] = table[h]
  BY <1>1, <1>2, <1>5
<1>7. \A v \in VirtPages : \A l \in 0 .. 4 :
        At(v, l)' = IF l = 1 - 1 /\ Block(v, l) = Block(va, l) THEN x ELSE At(v, l)
  <2>1. \A u \in VirtPages, m \in 1 .. 4 : At(u, m) # None => At(u, m).frame \in Frames \ {-1}
    BY HandedFrames, LayoutAssumption DEF Rooted, Owned
  <2>2. OnePlace
    BY DEF Rooted
  <2>3. ~(1 > 1)
    OBVIOUS
  <2>4. Writes(va, 1, t, -1, x)
    <3> HIDE DEF va, t, x
    <3> QED
      BY <1>1, <1>4, <1>6, <2>1, <2>2, <2>3 DEF Writes
  <2>5. \A u \in VirtPages, k \in 1 .. 4, s \in Frames : \A g, y : Writes(u, k, s, g, y) =>
          \A v \in VirtPages : \A l \in 0 .. 4 :
            At(v, l)' = IF l = k - 1 /\ Block(v, l) = Block(u, l) THEN y ELSE At(v, l)
    BY <1>5, OneEntry
  <2> HIDE DEF va, t, ix, x
  <2> QED
    BY <1>2, <2>4, <2>5
<1>8. \A v \in VirtPages : \A l \in 1 .. 4 : At(v, l)' = At(v, l)
  <2>1. \A l \in 1 .. 4 : l \in 0 .. 4 /\ l # 1 - 1
    OBVIOUS
  <2> HIDE DEF va, x
  <2> QED
    BY <1>7, <2>1
<1>9. \A v \in VirtPages : Translated(v)' = IF v = va THEN x ELSE Translated(v)
  <2>1. 0 \in 0 .. 4 /\ 0 = 1 - 1
    OBVIOUS
  <2>2. \A v \in VirtPages : At(v, 0)' = IF Block(v, 0) = Block(va, 0) THEN x ELSE At(v, 0)
    BY <1>7, <2>1
  <2>3. \A v \in VirtPages : Block(v, 0) = v
    BY Blocks
  <2>4. \A v : At(v, 0) = Translated(v) /\ At(v, 0)' = Translated(v)'
    BY AtEnds
  <2> HIDE DEF va, x
  <2> QED
    BY <1>2, <2>2, <2>3, <2>4
<1>10. None' = None /\ \A v, l : Block(v, l)' = Block(v, l)
  BY DEF None, Entry, Block, Power
<1>11. Owned' /\ OnePlace'
  BY <1>1, <1>8, <1>10 DEF Rooted, Owned, OnePlace
<1>12. OnPath'
  BY <1>1, <1>2 DEF OnPath
<1>13. Translates'
  <2>1. /\ DOMAIN mapped \subseteq VirtPages /\ \A v \in DOMAIN mapped : Translated(v) = mapped[v]
        /\ DOMAIN mapped' = DOMAIN mapped \cup {va}
        /\ \A v \in DOMAIN mapped' : mapped'[v] = IF v = va THEN x ELSE mapped[v]
    BY <1>1 DEF Rooted, Translates, Types, TableTypes
  <2> HIDE DEF va, x
  <2> QED
    BY <1>2, <1>9, <2>1 DEF Translates
<1>14. TableTypes'
  <2>1. [table[t] EXCEPT ![ix] = x] \in [Index -> Entries \cup {None}]
    <3> HIDE DEF x
    <3> QED
      BY <1>2, <1>3, <1>5
  <2>2. table' \in [Frames -> [Index -> Entries \cup {None}]]
    <3>1. DOMAIN table' = Frames /\ table' = [h \in Frames |-> table'[h]]
      BY <1>1, <1>5
    <3>2. ASSUME NEW h \in Frames PROVE table'[h] \in [Index -> Entries \cup {None}]
      <4>1. h # t => table'[h] = table[h]
        BY <1>6, LayoutAssumption
      <4> QED
        BY <1>5, <1>6, <2>1, <4>1
    <3> QED
      BY <3>1, <3>2
  <2>3. /\ DOMAIN mapped' \subseteq VirtPages
        /\ \A v \in DOMAIN mapped' : mapped'[v] \in Entries
    <3> HIDE DEF x, va
    <3> QED
      BY <1>1, <1>2, <1>3 DEF Types, TableTypes
  <2> QED
    BY <1>1, <2>2, <2>3 DEF Types, TableTypes, Index, Entries, None, Entry, VirtPages
<1>15. pc' \notin {"init", "root", "halt"}
  BY <1>1, <1>2
<1> QED
  BY <1>11, <1>12, <1>13, <1>14, <1>15 DEF Rooted

-----------------------------------------------------------------------------
(* What a step leaves alone. *)
LEMMA Same ==
  ASSUME machine' = machine
  PROVE  /\ mmap' = mmap /\ sections' = sections
         /\ \A e : Low(e)' = Low(e) /\ High(e)' = High(e) /\ ToMap(e)' = ToMap(e)
         /\ \A a : addr_is_in_used_range(a)' = addr_is_in_used_range(a)
         /\ ImageFrames' = ImageFrames /\ UsedFrames' = UsedFrames
         /\ UsualMap' = UsualMap
<1>1. mmap' = mmap /\ sections' = sections
  BY DEF mmap, sections
<1>2. \A e : Low(e)' = Low(e) /\ High(e)' = High(e) /\ ToMap(e)' = ToMap(e)
  BY <1>1 DEF Low, High, ToMap, PAGE_MASKED
<1>3. \A a : addr_is_in_used_range(a)' = addr_is_in_used_range(a)
  BY <1>1 DEF addr_is_in_used_range
<1>4. UsedFrames' = UsedFrames
  BY <1>3 DEF UsedFrames
<1>5. ImageFrames' = ImageFrames
  BY <1>1 DEF ImageFrames, FramesOf, SegStart
<1>6. UsualMap' = UsualMap
  BY <1>1 DEF UsualMap
<1> QED
  BY <1>1, <1>2, <1>3, <1>4, <1>5, <1>6

LEMMA TablesTyped ==
  ASSUME TableTypes, UNCHANGED <<table, boot_kern_pgtable, mapped>>
  PROVE  TableTypes'
BY DEF TableTypes, Index, Entries, None, Entry, VirtPages

LEMMA WalkTyped ==
  ASSUME WalkTypes, walk' = walk
  PROVE  WalkTypes'
BY DEF WalkTypes, PT_ENTRY, Power, Index, VirtPages

(* A call of boot_mm_pgtable_map. *)
LEMMA StartsWalk ==
  ASSUME boot_kern_pgtable \in Frames,
         NEW va \in VirtPages, NEW f \in Frames, NEW rw \in BOOLEAN,
         NEW back \in {"region", "bss", "pgdb"}, boot_mm_pgtable_map(va, f, rw, back)
  PROVE  /\ WalkTypes' /\ pc' = "map"
         /\ walk'.level = 4 /\ walk'.table = boot_kern_pgtable
         /\ walk'.va = va /\ walk'.frame = f /\ walk'.rw = rw /\ walk'.back = back
<1>1. /\ walk' = [va |-> va, frame |-> f, rw |-> rw, back |-> back, level |-> 4,
                  table |-> boot_kern_pgtable, index |-> [l \in 1..4 |-> PT_ENTRY(va, l)]]
      /\ pc' = "map"
  BY DEF boot_mm_pgtable_map
<1>2. \A l \in 1 .. 4 : PT_ENTRY(va, l) \in Index
  BY Blocks
<1>3. WalkTypes'
  <2>1. walk' \in [va : VirtPages, frame : Frames, rw : BOOLEAN, level : 1 .. 4, table : Frames,
                   back : {"init", "region", "bss", "pgdb"}, index : [1 .. 4 -> Index]]
    BY <1>1, <1>2
  <2>2. walk'.va = va /\ \A l \in 1 .. 4 : walk'.index[l] = PT_ENTRY(va, l)
    BY <1>1
  <2>3. \A l : PT_ENTRY(walk.va, l)' = PT_ENTRY(va, l)
    BY <2>2 DEF PT_ENTRY, Power
  <2> QED
    BY <2>1, <2>2, <2>3 DEF WalkTypes, Index, VirtPages
<1> QED
  BY <1>1, <1>3

LEMMA Unloaded ==
  ASSUME Database, pc \notin {"database", "marks", "main", "fault"}
  PROVE  ~loaded
BY DEF Database

(* Before the page database is filled. *)
LEMMA Unfilled ==
  ASSUME Marks, machine' = machine, ~loaded, UNCHANGED <<pgdb, loaded>>,
         pc' # "marks", ~Filling', pc' = "database" => i' >= 1
  PROVE  Database' /\ Marks'
<1>1. Database'
  BY DEF Database, Filling
<1>2. Marks'
  BY Same DEF Marks
<1> QED
  BY <1>1, <1>2

(* Outside of the loops that Mapping, Database and Marks are about. *)
LEMMA Quiet ==
  ASSUME Marks, machine' = machine, ~loaded, UNCHANGED <<pgdb, loaded>>,
         pc' \notin {"physmem", "marks"}, ~InEntry', ~Filling', pc' = "database" => i' >= 1
  PROVE  Mapping' /\ Database' /\ Marks'
BY Unfilled DEF Mapping

(* A multiple of the size of a page lies below the end of a region if it   *)
(* does when the end is rounded up.                                        *)
LEMMA BelowAligned ==
  ASSUME NEW n \in Nat, NEW q \in Nat
  PROVE  /\ PAGE_ALIGN(n) \in Nat
         /\ q * PAGE_SIZE < PAGE_ALIGN(n) <=> q * PAGE_SIZE < n
<1> DEFINE u == (n + PAGE_SIZE - 1) \div PAGE_SIZE
<1>1. u \in Nat /\ PAGE_SIZE \in Nat \ {0} /\ PAGE_ALIGN(n) = u * PAGE_SIZE
  <2>1. n + PAGE_SIZE - 1 \in Nat /\ PAGE_SIZE \in Nat \ {0}
    BY Positive
  <2> QED
    BY <2>1, Quotient DEF PAGE_ALIGN
<1>2. n <= q * PAGE_SIZE <=> u <= q
  BY <1>1, Up
<1> HIDE DEF u
<1>3. /\ q * PAGE_SIZE \in Nat /\ u * PAGE_SIZE \in Nat
      /\ q < u => q * PAGE_SIZE + PAGE_SIZE <= u * PAGE_SIZE
      /\ u <= q => u * PAGE_SIZE <= q * PAGE_SIZE
  BY <1>1, TimesLess
<1> QED
  BY <1>1, <1>2, <1>3

LEMMA Multiple == ASSUME NEW n \in Nat, NEW d \in Nat \ {0}, n % d = 0
                  PROVE  n = (n \div d) * d
<1> DEFINE q == (n \div d) * d
           r == n % d
<1>1. n = q + r /\ q \in Nat
  <2>1. n = q + r /\ n \div d \in Nat
    BY Quotient
  <2> QED
    BY <2>1, TimesLess
<1> HIDE DEF q
<1> QED
  BY <1>1 DEF q

(* Page k of a region that begins at page p. *)
LEMMA PageOf ==
  ASSUME NEW p \in Nat, NEW k \in Nat
  PROVE  /\ p * PAGE_SIZE \in Nat /\ k * PAGE_SIZE \in Nat /\ p + k \in Nat
         /\ p * PAGE_SIZE + k * PAGE_SIZE = (p + k) * PAGE_SIZE
         /\ (p * PAGE_SIZE) \div PAGE_SIZE = p /\ (p * PAGE_SIZE) % PAGE_SIZE = 0
<1>1. PAGE_SIZE \in Nat \ {0} /\ 0 \in 0 .. PAGE_SIZE - 1
  BY Positive
<1>2. (p * PAGE_SIZE) \div PAGE_SIZE = p /\ (p * PAGE_SIZE) % PAGE_SIZE = 0
  BY <1>1, Aligned
<1>3. p * PAGE_SIZE + k * PAGE_SIZE = (p + k) * PAGE_SIZE
  BY <1>1, SMT
<1> QED
  BY <1>1, <1>2, <1>3, TimesLess

-----------------------------------------------------------------------------
(* Each action keeps the invariant. *)
LEMMA FindTagsKeeps == ASSUME IInv, FindTags PROVE IInv'
<1>1. /\ pc = "init" /\ pc' \in {"root", "halt"}
      /\ UNCHANGED <<machine, alloc, table, boot_kern_pgtable, i, loop, walk, physmem_end,
                     pgdb_page_nr, pgdb, loaded, ret, handed_out, mapped>>
  BY DEF FindTags
<1>2. ~loaded
  BY <1>1, Unloaded DEF IInv
<1>3. Types'
  BY <1>1, TablesTyped, WalkTyped DEF IInv, Types, RestTypes, LoopTypes
<1>4. Ranges'
  BY <1>1 DEF IInv, Ranges, Looping
<1>5. Region' /\ Handed'
  BY <1>1, AllocatorStays DEF IInv
<1>6. Tree'
  BY <1>1, RootedNow DEF IInv, Tree, Unrooted
<1>7. Mapping' /\ Database' /\ Marks'
  BY <1>1, <1>2, Quiet DEF IInv, InEntry, Looping, Filling
<1> QED
  BY <1>3, <1>4, <1>5, <1>6, <1>7 DEF IInv

LEMMA RootTableKeeps == ASSUME IInv, RootTable PROVE IInv'
<1>1. /\ pc = "root" /\ pc' = "elf" /\ i' = 1
      /\ UNCHANGED <<machine, loop, walk, physmem_end, pgdb_page_nr, pgdb, loaded, ret, mapped>>
  BY DEF RootTable
<1>2. PICK f \in Frames :
        boot_mm_page_alloc(f) /\ boot_kern_pgtable' = f /\ table' = [table EXCEPT ![f] = Cleared]
  BY DEF RootTable
<1>3. ~loaded
  BY <1>1, Unloaded DEF IInv
<1>4. Region' /\ Handed' /\ ToSet(handed_out)' = ToSet(handed_out) \cup {f}
  BY <1>1, <1>2, Allocates DEF IInv, Types, RestTypes
<1>5. Types'
  <2>1. TableTypes'
    <3>1. table \in [Frames -> [Index -> Entries \cup {None}]]
          /\ Cleared \in [Index -> Entries \cup {None}]
      BY DEF IInv, Types, TableTypes, Cleared, Index
    <3>2. table' \in [Frames -> [Index -> Entries \cup {None}]]
      BY <1>2, <3>1
    <3> QED
      BY <1>1, <1>2, <3>2 DEF IInv, Types, TableTypes, Index, Entries, None, Entry, VirtPages
  <2> QED
    BY <1>1, <2>1, WalkTyped DEF IInv, Types, RestTypes, LoopTypes
<1>6. Ranges'
  BY <1>1 DEF IInv, Ranges, Looping
<1>7. Tree'
  BY <1>1, <1>2, <1>4, RootBegins, RootedNow DEF IInv, Types, Tree
<1>8. Mapping' /\ Database' /\ Marks'
  BY <1>1, <1>3, Quiet DEF IInv, InEntry, Looping, Filling
<1> QED
  BY <1>4, <1>5, <1>6, <1>7, <1>8 DEF IInv

LEMMA UnknownSectionKeeps == ASSUME IInv, UnknownSection PROVE IInv'
<1>1. /\ pc = "elf" /\ pc' = "database" /\ i' = 1 /\ ret' = EFAULT
      /\ UNCHANGED <<machine, alloc, table, boot_kern_pgtable, loop, walk, physmem_end,
                     pgdb_page_nr, pgdb, loaded, handed_out, mapped>>
  BY DEF UnknownSection
<1>2. ~loaded
  BY <1>1, Unloaded DEF IInv
<1>3. Types'
  BY <1>1, TablesTyped, WalkTyped DEF IInv, Types, RestTypes, LoopTypes, ENOMEM, EFAULT
<1>4. Ranges'
  BY <1>1 DEF IInv, Ranges, Looping
<1>5. Region' /\ Handed'
  BY <1>1, AllocatorStays DEF IInv
<1>6. Rooted'
  BY <1>1, RootedNow, RootedStays DEF IInv, Types, TableTypes, ToSet
<1>7. Mapping' /\ Database' /\ Marks'
  BY <1>1, <1>2, Quiet DEF IInv, InEntry, Looping, Filling
<1> QED
  BY <1>3, <1>4, <1>5, <1>6, <1>7 DEF IInv, Tree

LEMMA OutOfMemoryKeeps == ASSUME IInv, OutOfMemory PROVE IInv'
<1>1. /\ pc \in {"root", "map", "bss", "pgdb"} /\ pc' = "database" /\ i' = 1 /\ ret' = ENOMEM
      /\ UNCHANGED <<machine, alloc, table, boot_kern_pgtable, loop, walk, physmem_end,
                     pgdb_page_nr, pgdb, loaded, handed_out, mapped>>
  BY DEF OutOfMemory, Allocating
<1>2. ~loaded
  BY <1>1, Unloaded DEF IInv
<1>3. Types'
  BY <1>1, TablesTyped, WalkTyped DEF IInv, Types, RestTypes, LoopTypes, ENOMEM, EFAULT
<1>4. Ranges'
  BY <1>1 DEF IInv, Ranges, Looping
<1>5. Region' /\ Handed'
  BY <1>1, AllocatorStays DEF IInv
<1>6. Tree'
  <2>1. CASE pc = "root"
    BY <1>1, <2>1, RootedNow DEF IInv, Tree, Unrooted
  <2>2. CASE pc # "root"
    <3>1. Rooted'
      BY <1>1, <2>2, RootedNow, RootedStays DEF IInv, Types, TableTypes, ToSet
    <3> QED
      BY <3>1 DEF Tree
  <2> QED
    BY <2>1, <2>2
<1>7. Mapping' /\ Database' /\ Marks'
  BY <1>1, <1>2, Quiet DEF IInv, InEntry, Looping, Filling
<1> QED
  BY <1>3, <1>4, <1>5, <1>6, <1>7 DEF IInv

LEMMA BssEndsKeeps == ASSUME IInv, BssEnds PROVE IInv'
<1>1. /\ pc = "bss" /\ pc' = "elf"
      /\ UNCHANGED <<machine, alloc, table, boot_kern_pgtable, i, loop, walk, physmem_end,
                     pgdb_page_nr, pgdb, loaded, ret, handed_out, mapped>>
  BY DEF BssEnds, IInv, Ranges
<1>2. ~loaded
  BY <1>1, Unloaded DEF IInv
<1>3. Types'
  BY <1>1, TablesTyped, WalkTyped DEF IInv, Types, RestTypes, LoopTypes
<1>4. Ranges'
  BY <1>1 DEF IInv, Ranges, Looping
<1>5. Region' /\ Handed'
  BY <1>1, AllocatorStays DEF IInv
<1>6. Rooted'
  BY <1>1, RootedNow, RootedStays DEF IInv, Types, TableTypes, ToSet
<1>7. Mapping' /\ Database' /\ Marks'
  BY <1>1, <1>2, Quiet DEF IInv, InEntry, Looping, Filling
<1> QED
  BY <1>3, <1>4, <1>5, <1>6, <1>7 DEF IInv, Tree

LEMMA BssPageKeeps == ASSUME IInv, BssPage PROVE IInv'
<1>1. /\ pc = "bss" /\ loop.virt < loop.end
      /\ loop' = [loop EXCEPT !.virt = @ + 1]
      /\ UNCHANGED <<machine, table, boot_kern_pgtable, i, physmem_end, pgdb_page_nr, pgdb,
                     loaded, ret, mapped>>
  BY DEF BssPage
<1>2. PICK f \in Frames :
        boot_mm_page_alloc(f) /\ boot_mm_pgtable_map(loop.virt, f, loop.rw, "bss")
  BY DEF BssPage
<1>3. ~loaded
  BY <1>1, Unloaded DEF IInv
<1>4. Region' /\ Handed' /\ ToSet(handed_out)' = ToSet(handed_out) \cup {f}
  BY <1>1, <1>2, Allocates DEF IInv, Types, RestTypes
<1>5. loop.virt \in VirtPages /\ loop.rw \in BOOLEAN /\ boot_kern_pgtable \in Frames
  BY <1>1 DEF IInv, Types, LoopTypes, TableTypes, Ranges
<1>6. /\ WalkTypes' /\ pc' = "map" /\ walk'.back = "bss"
      /\ walk'.level = 4 /\ walk'.table = boot_kern_pgtable
  BY <1>2, <1>5, StartsWalk
<1>7. Types'
  BY <1>1, <1>6, TablesTyped DEF IInv, Types, RestTypes, LoopTypes
<1>8. Ranges'
  <2>1. loop'.virt = loop.virt + 1 /\ loop'.end = loop.end /\ loop'.next = loop.next
        /\ loop.virt \in Int /\ loop.end \in Int
    BY <1>1 DEF IInv, Types, LoopTypes
  <2>2. \A v \in loop'.virt .. loop'.end - 1 : v \in VirtPages
    BY <1>1, <2>1 DEF IInv, Ranges
  <2>3. (\A v \in loop.virt .. loop.end - 1 : v \in VirtPages)'
    BY <2>2 DEF VirtPages
  <2> QED
    BY <1>1, <1>6, <2>1, <2>3 DEF IInv, Ranges, Looping
<1>9. Rooted'
  BY <1>1, <1>4, <1>5, <1>6, RootedNow, RootedStays DEF IInv
<1>10. Mapping' /\ Database' /\ Marks'
  BY <1>1, <1>3, <1>6, Quiet DEF IInv, InEntry, Looping, Filling
<1> QED
  BY <1>4, <1>7, <1>8, <1>9, <1>10 DEF IInv, Tree

LEMMA SectionKeeps == ASSUME IInv, Section PROVE IInv'
<1> DEFINE s == sections[i]
<1>1. /\ pc = "elf" /\ i <= Len(sections) /\ i' = i + 1
      /\ UNCHANGED <<machine, alloc, table, boot_kern_pgtable, walk, physmem_end, pgdb_page_nr,
                     pgdb, loaded, ret, handed_out, mapped>>
      /\ \/ UNCHANGED <<pc, loop>>
         \/ /\ s.alloc /\ HasBit(s.type, 1)
            /\ MapRegion(SegStart(s), PAGE_ALIGN(SegStart(s) + s.size), s.addr, s.write, "elf")
         \/ /\ s.alloc
            /\ loop' = [phys |-> 0, end |-> s.addr + PAGE_ALIGN(s.size) \div PAGE_SIZE,
                        virt |-> s.addr, rw |-> s.write, next |-> "elf"]
            /\ pc' = "bss"
  BY DEF Section
<1>2. ~loaded /\ machine \in Machines /\ i \in Nat /\ i >= 1
  BY <1>1, Unloaded DEF IInv, Types, RestTypes, LoopTypes, Ranges
<1>3. s \in ToSet(sections)
  BY <1>1, <1>2, Image
<1>4. /\ s.type \in Nat /\ s.alloc \in BOOLEAN /\ s.addr \in Nat
      /\ s.offset \in Nat /\ s.size \in Nat /\ s.write \in BOOLEAN
      /\ s.alloc => s.addr .. s.addr + s.size \div PAGE_SIZE \subseteq VirtPages
      /\ s.alloc /\ HasBit(s.type, 1) =>
           SegStart(s) \div PAGE_SIZE .. (SegStart(s) + s.size) \div PAGE_SIZE \subseteq Frames
  BY <1>2, <1>3, Image
<1> HIDE DEF s
<1>5. PAGE_SIZE \in Nat \ {0}
  BY Positive
<1> DEFINE Enters == /\ Types' /\ Ranges' /\ pc' \in {"elf", "region", "bss"}
                     /\ pc' = "region" => loop'.next = "elf"
<1>6. ASSUME UNCHANGED <<pc, loop>> PROVE Enters
  BY <1>1, <1>2, <1>6, TablesTyped, WalkTyped
     DEF IInv, Types, RestTypes, LoopTypes, Ranges, Looping
<1>7. ASSUME s.alloc, HasBit(s.type, 1),
             MapRegion(SegStart(s), PAGE_ALIGN(SegStart(s) + s.size), s.addr, s.write, "elf")
      PROVE  Enters
  <2> DEFINE b == SegStart(s)
             p == b \div PAGE_SIZE
  <2>1. b \in Nat /\ b % PAGE_SIZE = 0 /\ p \in Nat /\ b = p * PAGE_SIZE
    <3>1. s.offset >= PAGE_SIZE /\ s.offset % PAGE_SIZE = 0
      BY <1>2, <1>3, <1>7, ImageAssumption DEF sections
    <3>2. b = KERNEL_LOAD + s.offset - PAGE_SIZE /\ KERNEL_LOAD \in Nat /\ KERNEL_LOAD % PAGE_SIZE = 0
      BY SizesAssumption DEF SegStart
    <3>3. b \in Nat
      BY <1>4, <1>5, <3>1, <3>2
    <3> DEFINE x == KERNEL_LOAD \div PAGE_SIZE
               y == s.offset \div PAGE_SIZE
    <3>4. x \in Nat /\ y \in Nat
      BY <1>4, <1>5, <3>2, Quotient
    <3> HIDE DEF x, y
    <3>5. KERNEL_LOAD = x * PAGE_SIZE /\ s.offset = y * PAGE_SIZE
      BY <1>4, <1>5, <3>1, <3>2, Multiple DEF x, y
    <3>6. y # 0
      <4> SUFFICES ASSUME y = 0 PROVE FALSE
        OBVIOUS
      <4>1. s.offset = 0 * PAGE_SIZE
        BY <3>5, Zenon
      <4> QED
        BY <1>5, <3>1, <4>1
    <3>7. y - 1 \in Nat /\ y * PAGE_SIZE = (y - 1) * PAGE_SIZE + PAGE_SIZE
      <4>1. y - 1 \in Nat /\ (y - 1) + 1 = y
        BY <3>4, <3>6
      <4>2. ((y - 1) + 1) * PAGE_SIZE = (y - 1) * PAGE_SIZE + PAGE_SIZE
        BY <1>5, <4>1, TimesLess
      <4> QED
        BY <4>1, <4>2
    <3> DEFINE z == y - 1
    <3>8. z \in Nat /\ b = x * PAGE_SIZE + z * PAGE_SIZE
      <4>1. z * PAGE_SIZE \in Nat
        BY <1>5, <3>7, TimesLess
      <4> HIDE DEF b
      <4> QED
        BY <1>4, <1>5, <3>2, <3>5, <3>7, <4>1
    <3> HIDE DEF z, b
    <3>9. b = (x + z) * PAGE_SIZE /\ x + z \in Nat
      BY <3>4, <3>8, PageOf
    <3>10. b \div PAGE_SIZE = x + z /\ b % PAGE_SIZE = 0
      BY <3>4, <3>9, PageOf
    <3> QED
      BY <3>3, <3>9, <3>10
  <2>2. loop' = [phys |-> b, end |-> PAGE_ALIGN(b + s.size), virt |-> s.addr, rw |-> s.write,
                 next |-> "elf"] /\ pc' = "region"
    BY <1>7 DEF MapRegion
  <2>3. b + s.size \in Nat /\ PAGE_ALIGN(b + s.size) \in Nat
    <3> HIDE DEF b
    <3>1. b + s.size \in Nat
      BY <1>4, <2>1
    <3> QED
      BY <3>1, BelowAligned
  <2>4. ASSUME NEW k \in Nat, b + k * PAGE_SIZE < PAGE_ALIGN(b + s.size)
        PROVE  s.addr + k \in VirtPages /\ p + k \in Frames
    <3> HIDE DEF b, p
    <3>1. p * PAGE_SIZE + k * PAGE_SIZE = (p + k) * PAGE_SIZE /\ p + k \in Nat
          /\ k * PAGE_SIZE \in Nat
      BY <2>1, PageOf
    <3>2. (p + k) * PAGE_SIZE < b + s.size
      <4>1. (p + k) * PAGE_SIZE < PAGE_ALIGN(b + s.size)
        BY <2>1, <2>4, <3>1, Zenon
      <4> QED
        BY <2>3, <3>1, <4>1, BelowAligned
    <3>3. p + k <= (b + s.size) \div PAGE_SIZE
      <4>1. (p + k) * PAGE_SIZE \in Nat
        BY <1>5, <3>1, TimesLess
      <4>2. (p + k) * PAGE_SIZE <= b + s.size
        BY <2>3, <3>2, <4>1
      <4> QED
        BY <1>5, <2>3, <3>1, <4>2, Down
    <3>4. p + k \in Frames
      <4>1. p <= p + k /\ (b + s.size) \div PAGE_SIZE \in Nat
        BY <1>5, <2>1, <2>3, Quotient
      <4>2. p + k \in p .. (b + s.size) \div PAGE_SIZE
        BY <2>1, <3>1, <3>3, <4>1
      <4>3. p .. (b + s.size) \div PAGE_SIZE \subseteq Frames
        BY <1>4, <1>7 DEF p, b
      <4> QED
        BY <4>2, <4>3
    <3>5. k <= s.size \div PAGE_SIZE
      <4>1. b + k * PAGE_SIZE < b + s.size
        BY <2>1, <3>1, <3>2, Zenon
      <4>2. k * PAGE_SIZE <= s.size
        BY <1>4, <2>1, <3>1, <4>1
      <4> QED
        BY <1>4, <1>5, <4>2, Down
    <3>6. s.addr + k \in s.addr .. s.addr + s.size \div PAGE_SIZE
      <4>1. s.size \div PAGE_SIZE \in Nat
        BY <1>4, <1>5, Quotient
      <4> QED
        BY <1>4, <3>5, <4>1
    <3> QED
      BY <1>4, <1>7, <3>4, <3>6
  <2>5. loop'.phys = b /\ loop'.end = PAGE_ALIGN(b + s.size) /\ loop'.virt = s.addr
        /\ loop'.next = "elf" /\ loop'.rw = s.write
    BY <2>2
  <2>6. loop' \in [phys : Int, end : Int, virt : Int, rw : BOOLEAN,
                   next : {"init", "elf", "physmem"}]
    <3> HIDE DEF b
    <3> QED
      BY <1>4, <2>1, <2>2, <2>3
  <2> HIDE DEF b
  <2>7. Types'
    BY <1>1, <1>2, <2>2, <2>6, TablesTyped, WalkTyped DEF IInv, Types, RestTypes, LoopTypes
  <2>8. Ranges'
    <3>1. \A k \in Nat : loop'.phys + k * PAGE_SIZE < loop'.end =>
            loop'.virt + k \in VirtPages /\ loop'.phys \div PAGE_SIZE + k \in Frames
      BY <2>4, <2>5
    <3>2. (\A k \in Nat : loop.phys + k * PAGE_SIZE < loop.end =>
            loop.virt + k \in VirtPages /\ loop.phys \div PAGE_SIZE + k \in Frames)'
      BY <3>1 DEF VirtPages
    <3> QED
      BY <1>1, <1>2, <2>1, <2>2, <2>5, <3>2 DEF IInv, Ranges, Looping
  <2> QED
    BY <2>2, <2>5, <2>7, <2>8
<1>8. ASSUME s.alloc,
             loop' = [phys |-> 0, end |-> s.addr + PAGE_ALIGN(s.size) \div PAGE_SIZE,
                      virt |-> s.addr, rw |-> s.write, next |-> "elf"],
             pc' = "bss"
      PROVE  Enters
  <2> DEFINE n == PAGE_ALIGN(s.size) \div PAGE_SIZE
             u == (s.size + PAGE_SIZE - 1) \div PAGE_SIZE
  <2>1. u \in Nat /\ n = u
    <3>1. s.size + PAGE_SIZE - 1 \in Nat
      BY <1>4, <1>5
    <3>2. u \in Nat
      BY <1>5, <3>1, Quotient
    <3>3. n = (u * PAGE_SIZE) \div PAGE_SIZE
      BY DEF PAGE_ALIGN
    <3> HIDE DEF n, u
    <3> QED
      BY <3>2, <3>3, PageOf
  <2>2. loop'.virt = s.addr /\ loop'.end = s.addr + n /\ loop'.next = "elf"
    BY <1>8
  <2>3. loop' \in [phys : Int, end : Int, virt : Int, rw : BOOLEAN,
                   next : {"init", "elf", "physmem"}]
    <3>1. s.addr + n \in Int
      <4> HIDE DEF n, u
      <4> QED
        BY <1>4, <2>1
    <3> HIDE DEF n
    <3> QED
      BY <1>4, <1>8, <3>1 DEF n
  <2>4. \A v \in s.addr .. s.addr + n - 1 : v \in VirtPages
    <3> SUFFICES ASSUME NEW v \in s.addr .. s.addr + n - 1 PROVE v \in VirtPages
      OBVIOUS
    <3> DEFINE k == v - s.addr
    <3>1. k \in Nat /\ k < u /\ v = s.addr + k
      <4> HIDE DEF n, u
      <4> QED
        BY <1>4, <2>1
    <3>2. s.size <= k * PAGE_SIZE <=> u <= k
      <4> HIDE DEF k
      <4> QED
        BY <1>4, <1>5, <3>1, Up
    <3> HIDE DEF k, n, u
    <3>3. k * PAGE_SIZE <= s.size
      <4>1. k * PAGE_SIZE \in Nat
        BY <1>5, <3>1, TimesLess
      <4> QED
        BY <1>4, <2>1, <3>1, <3>2, <4>1
    <3>4. k <= s.size \div PAGE_SIZE
      BY <1>4, <1>5, <3>1, <3>3, Down
    <3>5. v \in s.addr .. s.addr + s.size \div PAGE_SIZE
      <4>1. s.size \div PAGE_SIZE \in Nat
        BY <1>4, <1>5, Quotient
      <4> QED
        BY <1>4, <3>1, <3>4, <4>1
    <3> QED
      BY <1>4, <1>8, <3>5
  <2> HIDE DEF n
  <2>5. Types'
    BY <1>1, <1>2, <1>8, <2>3, TablesTyped, WalkTyped DEF IInv, Types, RestTypes, LoopTypes
  <2>6. (\A v \in loop.virt .. loop.end - 1 : v \in VirtPages)'
    <3>1. loop'.virt .. loop'.end - 1 = s.addr .. s.addr + n - 1
      <4>1. n \in Nat /\ (s.addr + n) - 1 = s.addr + n - 1
        BY <1>4, <2>1
      <4> QED
        BY <2>2, <4>1, Zenon
    <3>2. \A v \in loop'.virt .. loop'.end - 1 : v \in VirtPages
      BY <2>4, <3>1, Zenon
    <3> QED
      BY <3>2 DEF VirtPages
  <2>7. Ranges'
    BY <1>1, <1>2, <1>8, <2>2, <2>6 DEF IInv, Ranges, Looping
  <2> QED
    BY <1>8, <2>2, <2>5, <2>7
<1>9. Enters
  <2> HIDE DEF Enters
  <2> QED
    BY <1>1, <1>6, <1>7, <1>8
<1>10. Region' /\ Handed'
  BY <1>1, AllocatorStays DEF IInv
<1>11. Rooted'
  BY <1>1, <1>9, RootedNow, RootedStays DEF IInv, Types, TableTypes, ToSet
<1>12. Mapping' /\ Database' /\ Marks'
  BY <1>1, <1>2, <1>9, Quiet DEF IInv, InEntry, Looping, Filling
<1> QED
  BY <1>9, <1>10, <1>11, <1>12 DEF IInv, Tree

LEMMA FrameBufferKeeps == ASSUME IInv, FrameBuffer PROVE IInv'
<1>1. /\ pc = "elf" /\ i' = 1
      /\ UNCHANGED <<machine, alloc, table, boot_kern_pgtable, walk, physmem_end, pgdb_page_nr,
                     pgdb, loaded, ret, handed_out, mapped>>
      /\ \/ pc' = "physmem" /\ UNCHANGED loop
         \/ \E b \in machine.fb :
              MapRegion(PAGE_MASKED(b.base), PAGE_ALIGN(PAGE_MASKED(b.base) + b.end - b.base),
                        b.base \div PAGE_SIZE, TRUE, "physmem")
  BY DEF FrameBuffer
<1>2. ~loaded /\ machine \in Machines
  BY <1>1, Unloaded DEF IInv, Types, RestTypes
<1>3. PAGE_SIZE \in Nat \ {0}
  BY Positive
<1> DEFINE Enters == /\ Types' /\ Ranges'
                     /\ pc' = "physmem" \/ (pc' = "region" /\ loop'.next = "physmem")
<1>4. ASSUME pc' = "physmem", UNCHANGED loop PROVE Enters
  BY <1>1, <1>4, TablesTyped, WalkTyped DEF IInv, Types, RestTypes, LoopTypes, Ranges, Looping
<1>5. ASSUME NEW b \in machine.fb,
             MapRegion(PAGE_MASKED(b.base), PAGE_ALIGN(PAGE_MASKED(b.base) + b.end - b.base),
                       b.base \div PAGE_SIZE, TRUE, "physmem")
      PROVE  Enters
  <2> DEFINE p == b.base \div PAGE_SIZE
             n == PAGE_MASKED(b.base) + b.end - b.base
  <2>1. /\ b.base \in Nat /\ b.end \in Nat /\ b.base <= b.end
        /\ b.base \div PAGE_SIZE .. b.end \div PAGE_SIZE \subseteq Frames \cap VirtPages
    BY <1>2, MachineAssumption
  <2>2. p \in Nat /\ PAGE_MASKED(b.base) = p * PAGE_SIZE /\ p * PAGE_SIZE \in Nat
        /\ p * PAGE_SIZE <= b.base
    <3>1. p \in Nat
      BY <1>3, <2>1, Quotient
    <3>2. p * PAGE_SIZE \in Nat
      BY <1>3, <3>1, TimesLess
    <3>3. p * PAGE_SIZE <= b.base <=> p <= p
      BY <1>3, <2>1, <3>1, Down
    <3> QED
      BY <3>1, <3>2, <3>3 DEF PAGE_MASKED
  <2>3. n \in Nat /\ n <= b.end
    <3> HIDE DEF p
    <3> QED
      BY <2>1, <2>2
  <2>4. loop' = [phys |-> p * PAGE_SIZE, end |-> PAGE_ALIGN(n), virt |-> p, rw |-> TRUE,
                 next |-> "physmem"] /\ pc' = "region"
    BY <1>5, <2>2 DEF MapRegion
  <2> HIDE DEF n, p
  <2>5. PAGE_ALIGN(n) \in Nat
    BY <2>3, BelowAligned
  <2>6. ASSUME NEW k \in Nat, p * PAGE_SIZE + k * PAGE_SIZE < PAGE_ALIGN(n)
        PROVE  p + k \in VirtPages /\ p + k \in Frames
    <3>1. p * PAGE_SIZE + k * PAGE_SIZE = (p + k) * PAGE_SIZE /\ p + k \in Nat
      BY <2>2, PageOf
    <3>2. (p + k) * PAGE_SIZE < PAGE_ALIGN(n)
      BY <2>6, <3>1, Zenon
    <3>3. (p + k) * PAGE_SIZE < n
      BY <2>3, <3>1, <3>2, BelowAligned
    <3>4. (p + k) * PAGE_SIZE <= b.end
      <4>1. (p + k) * PAGE_SIZE \in Nat
        BY <1>3, <3>1, TimesLess
      <4> QED
        BY <2>1, <2>3, <3>3, <4>1
    <3>5. p + k <= b.end \div PAGE_SIZE
      BY <1>3, <2>1, <3>1, <3>4, Down
    <3>6. p + k \in p .. b.end \div PAGE_SIZE
      <4>1. b.end \div PAGE_SIZE \in Nat
        BY <1>3, <2>1, Quotient
      <4> QED
        BY <2>2, <3>1, <3>5, <4>1
    <3> QED
      BY <2>1, <3>6 DEF p
  <2>7. loop' \in [phys : Int, end : Int, virt : Int, rw : BOOLEAN,
                   next : {"init", "elf", "physmem"}]
    BY <2>2, <2>4, <2>5
  <2>8. Types'
    BY <1>1, <1>2, <2>4, <2>7, TablesTyped, WalkTyped DEF IInv, Types, RestTypes, LoopTypes
  <2>9. (p * PAGE_SIZE) \div PAGE_SIZE = p /\ (p * PAGE_SIZE) % PAGE_SIZE = 0
    BY <2>2, PageOf
  <2>10. loop'.phys = p * PAGE_SIZE /\ loop'.end = PAGE_ALIGN(n) /\ loop'.virt = p
         /\ loop'.next = "physmem"
    BY <2>4
  <2>11. \A k \in Nat : loop'.phys + k * PAGE_SIZE < loop'.end =>
           loop'.virt + k \in VirtPages /\ loop'.phys \div PAGE_SIZE + k \in Frames
    BY <2>6, <2>9, <2>10, Zenon
  <2>12. (\A k \in Nat : loop.phys + k * PAGE_SIZE < loop.end =>
           loop.virt + k \in VirtPages /\ loop.phys \div PAGE_SIZE + k \in Frames)'
    BY <2>11 DEF VirtPages
  <2>13. loop'.phys \in Nat /\ loop'.phys % PAGE_SIZE = 0
    BY <2>2, <2>9, <2>10, Zenon
  <2>14. Ranges'
    BY <1>1, <2>4, <2>10, <2>12, <2>13 DEF IInv, Ranges, Looping
  <2> QED
    BY <2>4, <2>8, <2>10, <2>14
<1>6. Enters
  <2> HIDE DEF Enters
  <2> QED
    BY <1>1, <1>4, <1>5
<1>7. Region' /\ Handed'
  BY <1>1, AllocatorStays DEF IInv
<1>8. Rooted'
  BY <1>1, <1>6, RootedNow, RootedStays DEF IInv, Types, TableTypes, ToSet
<1>9. Mapping'
  <2>1. ~InEntry'
    BY <1>1 DEF InEntry
  <2>2. DOMAIN mmap' = 1 .. Len(mmap) /\ Len(mmap) \in Nat
    BY <1>1, <1>2, Memory, Same
  <2>3. \A e \in DOMAIN mmap' : ~(e < i')
    BY <1>1, <2>2
  <2> QED
    BY <2>1, <2>3 DEF Mapping
<1>10. Database' /\ Marks'
  BY <1>1, <1>2, <1>6, Unfilled DEF IInv, Filling
<1> QED
  BY <1>6, <1>7, <1>8, <1>9, <1>10 DEF IInv, Tree

LEMMA RegionPageKeeps == ASSUME IInv, RegionPage PROVE IInv'
<1> DEFINE p == loop.phys \div PAGE_SIZE
<1>1. /\ pc = "region" /\ loop.phys < loop.end
      /\ boot_mm_pgtable_map(loop.virt, p, loop.rw, "region")
      /\ loop' = [loop EXCEPT !.phys = @ + PAGE_SIZE, !.virt = @ + 1]
      /\ UNCHANGED <<machine, alloc, table, boot_kern_pgtable, i, physmem_end, pgdb_page_nr,
                     pgdb, loaded, ret, handed_out, mapped>>
  BY DEF RegionPage
<1>2. ~loaded /\ machine \in Machines
  BY <1>1, Unloaded DEF IInv, Types, RestTypes
<1>3. PAGE_SIZE \in Nat \ {0}
  BY Positive
<1>4. /\ loop \in [phys : Int, end : Int, virt : Int, rw : BOOLEAN,
                   next : {"init", "elf", "physmem"}]
      /\ loop.phys \in Nat /\ loop.phys % PAGE_SIZE = 0 /\ loop.next \in {"elf", "physmem"}
      /\ \A k \in Nat : loop.phys + k * PAGE_SIZE < loop.end =>
           loop.virt + k \in VirtPages /\ p + k \in Frames
  BY <1>1 DEF IInv, Types, LoopTypes, Ranges, Looping
<1>5. p \in Nat /\ loop.phys = p * PAGE_SIZE
  BY <1>3, <1>4, Quotient, Multiple
<1> HIDE DEF p
<1>6. loop.virt \in VirtPages /\ p \in Frames /\ loop.rw \in BOOLEAN
  <2>1. 0 \in Nat /\ 0 * PAGE_SIZE = 0 /\ loop.phys + 0 = loop.phys /\ loop.virt + 0 = loop.virt
        /\ p + 0 = p
    BY <1>3, <1>4, <1>5
  <2>2. loop.phys + 0 * PAGE_SIZE < loop.end
    BY <1>1, <2>1, Zenon
  <2>3. loop.virt + 0 \in VirtPages /\ p + 0 \in Frames
    BY <1>4, <2>1, <2>2, Zenon
  <2> QED
    BY <1>4, <2>1, <2>3
<1>7. boot_kern_pgtable \in Frames
  BY DEF IInv, Types, TableTypes
<1>8. /\ WalkTypes' /\ pc' = "map" /\ walk'.back = "region"
      /\ walk'.level = 4 /\ walk'.table = boot_kern_pgtable
      /\ walk'.va = loop.virt /\ walk'.frame = p /\ walk'.rw = loop.rw
  BY <1>1, <1>6, <1>7, StartsWalk
<1>9. /\ loop'.phys = loop.phys + PAGE_SIZE /\ loop'.virt = loop.virt + 1
      /\ loop'.end = loop.end /\ loop'.next = loop.next /\ loop'.rw = loop.rw
      /\ loop' \in [phys : Int, end : Int, virt : Int, rw : BOOLEAN,
                    next : {"init", "elf", "physmem"}]
  <2>1. loop' = [loop EXCEPT !.phys = @ + PAGE_SIZE, !.virt = @ + 1]
    BY <1>1
  <2>2. loop \in [phys : Int, end : Int, virt : Int, rw : BOOLEAN,
                  next : {"init", "elf", "physmem"}]
    BY <1>4
  <2>3. loop.phys + PAGE_SIZE \in Int /\ loop.virt + 1 \in Int
    BY <1>3, <2>2
  <2>4. /\ loop'.phys = loop.phys + PAGE_SIZE /\ loop'.virt = loop.virt + 1
        /\ loop'.end = loop.end /\ loop'.next = loop.next /\ loop'.rw = loop.rw
    BY <2>1, <2>2
  <2>5. loop' \in [phys : Int, end : Int, virt : Int, rw : BOOLEAN,
                   next : {"init", "elf", "physmem"}]
    BY <2>1, <2>2, <2>3
  <2> QED
    BY <2>4, <2>5
<1>10. /\ p + 1 \in Nat /\ loop'.phys = (p + 1) * PAGE_SIZE
       /\ loop'.phys \div PAGE_SIZE = p + 1 /\ loop'.phys % PAGE_SIZE = 0
  <2>1. p + 1 \in Nat
    BY <1>5
  <2>2. (p + 1) * PAGE_SIZE = p * PAGE_SIZE + PAGE_SIZE
    BY <1>3, <1>5, TimesLess
  <2>3. loop'.phys = (p + 1) * PAGE_SIZE
    BY <1>5, <1>9, <2>2, Zenon
  <2>4. ((p + 1) * PAGE_SIZE) \div PAGE_SIZE = p + 1 /\ ((p + 1) * PAGE_SIZE) % PAGE_SIZE = 0
    BY <2>1, PageOf
  <2> QED
    BY <2>1, <2>3, <2>4, Zenon
<1>11. Types'
  BY <1>1, <1>8, <1>9, TablesTyped DEF IInv, Types, RestTypes, LoopTypes
<1>12. Ranges'
  <2>1. ASSUME NEW k \in Nat, loop'.phys + k * PAGE_SIZE < loop'.end
        PROVE  loop'.virt + k \in VirtPages /\ loop'.phys \div PAGE_SIZE + k \in Frames
    <3>1. k + 1 \in Nat /\ (k + 1) * PAGE_SIZE = k * PAGE_SIZE + PAGE_SIZE
          /\ k * PAGE_SIZE \in Nat
      BY <1>3, TimesLess
    <3>2. loop.phys + (k + 1) * PAGE_SIZE < loop.end
      <4>1. loop'.phys + k * PAGE_SIZE = loop.phys + ((k + 1) * PAGE_SIZE)
        BY <1>3, <1>4, <1>9, <3>1
      <4> QED
        BY <1>9, <2>1, <4>1, Zenon
    <3>3. loop.virt + (k + 1) \in VirtPages /\ p + (k + 1) \in Frames
      BY <1>4, <3>1, <3>2, Zenon
    <3>4. loop'.virt + k = loop.virt + (k + 1) /\ (p + 1) + k = p + (k + 1)
      BY <1>4, <1>5, <1>9
    <3> QED
      BY <1>10, <3>3, <3>4, Zenon
  <2>2. (\A k \in Nat : loop.phys + k * PAGE_SIZE < loop.end =>
           loop.virt + k \in VirtPages /\ loop.phys \div PAGE_SIZE + k \in Frames)'
    BY <2>1 DEF VirtPages
  <2>3. loop'.phys \in Nat
    BY <1>3, <1>4, <1>9
  <2> QED
    BY <1>1, <1>4, <1>8, <1>9, <1>10, <2>2, <2>3 DEF IInv, Ranges, Looping
<1>13. Region' /\ Handed'
  BY <1>1, AllocatorStays DEF IInv
<1>14. Rooted'
  BY <1>1, <1>7, <1>8, RootedNow, RootedStays DEF IInv, ToSet
<1>15. Mapping'
  <2>1. InEntry' <=> InEntry
    BY <1>1, <1>8, <1>9 DEF InEntry, Looping
  <2>2. mmap' = mmap /\ (\A e : ToMap(e)' = ToMap(e)) /\ \A f : Direct(f)' = Direct(f)
    BY <1>1, Same DEF Direct, Entry
  <2> SUFFICES ASSUME InEntry PROVE Mapping'
    BY <1>8, <2>1 DEF Mapping
  <2>3. /\ i - 1 <= Len(mmap) /\ loop.rw = TRUE /\ loop.virt = DIRECT_MAP_BASE + p
        /\ \A f \in ToMap(i - 1) : f * PAGE_SIZE < loop.end
        /\ \A e \in DOMAIN mmap : e < i =>
             \A f \in ToMap(e) : Direct(f) \/ (e = i - 1 /\ loop.phys <= f * PAGE_SIZE)
    BY <1>1 DEF IInv, Mapping, p
  <2>4. \A f \in Frames : loop.phys <= f * PAGE_SIZE =>
          loop'.phys <= f * PAGE_SIZE \/ walk'.va = DIRECT_MAP_BASE + f
    <3> SUFFICES ASSUME NEW f \in Frames, loop.phys <= f * PAGE_SIZE
                 PROVE  loop'.phys <= f * PAGE_SIZE \/ f = p
      BY <1>8, <2>3
    <3>1. f \in Nat
      BY LayoutAssumption
    <3>2. f < p => f * PAGE_SIZE + PAGE_SIZE <= p * PAGE_SIZE
      BY <1>3, <1>5, <3>1, TimesLess
    <3>3. p + 1 <= f => (p + 1) * PAGE_SIZE <= f * PAGE_SIZE
      BY <1>3, <1>10, <3>1, TimesLess
    <3>4. f * PAGE_SIZE \in Nat /\ p * PAGE_SIZE \in Nat /\ p * PAGE_SIZE <= f * PAGE_SIZE
      BY <1>3, <1>5, <3>1, TimesLess
    <3>5. f = p \/ f < p \/ p + 1 <= f
      BY <1>5, <3>1
    <3>6. ~(f < p)
      BY <1>3, <3>2, <3>4
    <3> QED
      BY <1>10, <3>3, <3>5, <3>6, Zenon
  <2>5. loop'.virt = DIRECT_MAP_BASE + loop'.phys \div PAGE_SIZE
    <3>1. loop'.virt = DIRECT_MAP_BASE + (p + 1)
      BY <1>5, <1>9, <2>3, LayoutAssumption
    <3> QED
      BY <1>10, <3>1, Zenon
  <2>6. \A e : \A f \in ToMap(e) : f \in Frames
    BY DEF ToMap
  <2>7. \A e \in DOMAIN mmap : e < i =>
          \A f \in ToMap(e) :
            \/ Direct(f)
            \/ e = i - 1 /\ (loop'.phys <= f * PAGE_SIZE \/ walk'.va = DIRECT_MAP_BASE + f)
    BY <2>3, <2>4, <2>6
  <2>8. walk'.va = DIRECT_MAP_BASE + walk'.frame /\ walk'.rw = TRUE /\ i' = i
    BY <1>1, <1>8, <2>3
  <2>9. (/\ i - 1 <= Len(mmap)
         /\ loop.rw = TRUE /\ loop.virt = DIRECT_MAP_BASE + loop.phys \div PAGE_SIZE
         /\ \A f \in ToMap(i - 1) : f * PAGE_SIZE < loop.end
         /\ pc = "map" => walk.va = DIRECT_MAP_BASE + walk.frame /\ walk.rw = TRUE)'
    BY <1>9, <2>2, <2>3, <2>5, <2>8
  <2>10. (\A e \in DOMAIN mmap : e < i =>
           \A f \in ToMap(e) :
             \/ Direct(f)
             \/ /\ InEntry /\ e = i - 1
                /\ loop.phys <= f * PAGE_SIZE \/ (pc = "map" /\ walk.va = DIRECT_MAP_BASE + f))'
    BY <1>8, <2>1, <2>2, <2>7, <2>8
  <2> QED
    BY <2>9, <2>10 DEF Mapping
<1>16. Database' /\ Marks'
  BY <1>1, <1>2, <1>8, Unfilled DEF IInv, Filling
<1> QED
  BY <1>11, <1>12, <1>13, <1>14, <1>15, <1>16 DEF IInv, Tree

LEMMA RegionEndsKeeps == ASSUME IInv, RegionEnds PROVE IInv'
<1>1. /\ pc = "region" /\ loop.phys >= loop.end /\ pc' = loop.next
      /\ pc' \in {"elf", "physmem"}
      /\ UNCHANGED <<machine, alloc, table, boot_kern_pgtable, i, loop, walk, physmem_end,
                     pgdb_page_nr, pgdb, loaded, ret, handed_out, mapped>>
  BY DEF RegionEnds, IInv, Ranges, Looping
<1>2. ~loaded /\ machine \in Machines
  BY <1>1, Unloaded DEF IInv, Types, RestTypes
<1>3. Types'
  BY <1>1, TablesTyped, WalkTyped DEF IInv, Types, RestTypes, LoopTypes
<1>4. Ranges'
  BY <1>1 DEF IInv, Ranges, Looping
<1>5. Region' /\ Handed'
  BY <1>1, AllocatorStays DEF IInv
<1>6. Rooted'
  BY <1>1, RootedNow, RootedStays DEF IInv, Types, TableTypes, ToSet
<1>7. Mapping'
  <2>1. ~InEntry'
    BY <1>1 DEF InEntry, Looping
  <2>2. mmap' = mmap /\ (\A e : ToMap(e)' = ToMap(e)) /\ \A f : Direct(f)' = Direct(f)
    BY <1>1, Same DEF Direct, Entry
  <2> SUFFICES ASSUME pc' = "physmem", NEW e \in DOMAIN mmap, e < i, NEW f \in ToMap(e)
               PROVE  Direct(f)
    BY <1>1, <2>1, <2>2 DEF Mapping
  <2>3. InEntry
    BY <1>1, <1>2, Memory DEF InEntry, Looping, IInv, Types, LoopTypes
  <2>4. Direct(f) \/ (e = i - 1 /\ loop.phys <= f * PAGE_SIZE)
    BY <1>1, <2>3 DEF IInv, Mapping
  <2>5. e = i - 1 => f * PAGE_SIZE < loop.end
    BY <2>3 DEF IInv, Mapping
  <2>6. f * PAGE_SIZE \in Int /\ loop.phys \in Int /\ loop.end \in Int
    <3>1. f \in Nat /\ PAGE_SIZE \in Nat \ {0}
      BY Positive, LayoutAssumption DEF ToMap
    <3> QED
      BY <3>1, TimesLess DEF IInv, Types, LoopTypes
  <2> QED
    BY <1>1, <2>4, <2>5, <2>6
<1>8. Database' /\ Marks'
  BY <1>1, <1>2, Unfilled DEF IInv, Filling
<1> QED
  BY <1>3, <1>4, <1>5, <1>6, <1>7, <1>8 DEF IInv, Tree

LEMMA DirectMapKeeps == ASSUME IInv, DirectMap PROVE IInv'
<1> DEFINE base == PAGE_MASKED(mmap[i].addr)
           p == mmap[i].addr \div PAGE_SIZE
           end == base + mmap[i].len
           N == DIRECT_MAP_END + 1 - DIRECT_MAP_BASE
           room == N * PAGE_SIZE
           last == IF end > room THEN room ELSE end
<1>1. /\ pc = "physmem" /\ i <= Len(mmap) /\ i' = i + 1
      /\ UNCHANGED <<machine, alloc, table, boot_kern_pgtable, walk, pgdb_page_nr, pgdb, loaded,
                     ret, handed_out, mapped>>
      /\ physmem_end' = IF end > physmem_end THEN end ELSE physmem_end
      /\ loop' = [phys |-> base, end |-> last, virt |-> DIRECT_MAP_BASE + base \div PAGE_SIZE,
                  rw |-> TRUE, next |-> "physmem"]
      /\ pc' = "region"
  BY DEF DirectMap, MapRegion
<1>2. ~loaded /\ machine \in Machines /\ i \in Nat /\ i >= 1 /\ physmem_end \in Nat
      /\ 0 .. physmem_end \div PAGE_SIZE \subseteq Frames
  BY <1>1, Unloaded DEF IInv, Types, RestTypes, LoopTypes, Ranges
<1>3. PAGE_SIZE \in Nat \ {0} /\ DIRECT_MAP_BASE \in Nat /\ DIRECT_MAP_END \in Nat
      /\ DIRECT_MAP_END \in VirtPages
  BY Positive, LayoutAssumption DEF VirtPages
<1>4. i \in DOMAIN mmap
  BY <1>1, <1>2, Memory
<1>5. /\ mmap[i].addr \in Nat /\ mmap[i].len \in Nat
      /\ mmap[i].addr + mmap[i].len \in Nat
      /\ 0 .. (mmap[i].addr + mmap[i].len) \div PAGE_SIZE \subseteq Frames
  BY <1>2, <1>4, Memory
<1>6. /\ p \in Nat /\ base = p * PAGE_SIZE /\ p * PAGE_SIZE \in Nat
      /\ p * PAGE_SIZE <= mmap[i].addr
  <2>1. p \in Nat
    BY <1>3, <1>5, Quotient
  <2>2. p * PAGE_SIZE \in Nat
    BY <1>3, <2>1, TimesLess
  <2>3. p * PAGE_SIZE <= mmap[i].addr <=> p <= p
    BY <1>3, <1>5, <2>1, Down
  <2> QED
    BY <2>1, <2>2, <2>3 DEF PAGE_MASKED
<1>7. end \in Nat /\ end <= mmap[i].addr + mmap[i].len
  <2> HIDE DEF base, p
  <2> QED
    BY <1>5, <1>6
<1>8. N \in Int /\ room \in Int /\ last \in Int
      /\ \A f \in Nat : DIRECT_MAP_BASE + f <= DIRECT_MAP_END <=> f * PAGE_SIZE < room
  <2>1. N \in Int
    BY <1>3
  <2> HIDE DEF N
  <2>2. room \in Int
    BY <1>3, <2>1, SMT
  <2> HIDE DEF end
  <2>3. last \in Int
    <3> HIDE DEF room
    <3> QED
      BY <1>7, <2>2
  <2>4. ASSUME NEW f \in Nat PROVE DIRECT_MAP_BASE + f <= DIRECT_MAP_END <=> f * PAGE_SIZE < room
    <3>1. DIRECT_MAP_BASE + f <= DIRECT_MAP_END <=> f < N
      BY <1>3 DEF N
    <3>2. CASE N \in Nat
      <4>1. f < N => f * PAGE_SIZE + PAGE_SIZE <= N * PAGE_SIZE
        BY <1>3, <3>2, TimesLess
      <4>2. f * PAGE_SIZE < N * PAGE_SIZE => f < N
        BY <1>3, <3>2, TimesLess
      <4>3. f * PAGE_SIZE \in Nat /\ N * PAGE_SIZE \in Nat
        BY <1>3, <3>2, TimesLess
      <4> QED
        BY <1>3, <3>1, <4>1, <4>2, <4>3
    <3>3. CASE N \notin Nat
      <4> DEFINE M == 0 - N
      <4>1. M \in Nat /\ N = 0 - M
        BY <2>1, <3>3
      <4> HIDE DEF M
      <4>2. M * PAGE_SIZE \in Nat /\ N * PAGE_SIZE = 0 - M * PAGE_SIZE
        <5>1. M * PAGE_SIZE \in Nat
          BY <1>3, <4>1, TimesLess
        <5>2. (0 - M) * PAGE_SIZE = 0 - M * PAGE_SIZE
          BY <1>3, <4>1, SMT
        <5> QED
          BY <4>1, <5>1, <5>2, Zenon
      <4>3. f * PAGE_SIZE \in Nat
        BY <1>3, TimesLess
      <4> QED
        BY <2>1, <3>1, <3>3, <4>2, <4>3
    <3> QED
      BY <3>2, <3>3
  <2> QED
    BY <2>1, <2>2, <2>3, <2>4
<1> HIDE DEF base, p, end, N, room
<1>9. last <= end /\ \A n \in Int : n < last <=> n < end /\ n < room
  BY <1>7, <1>8
<1> HIDE DEF last
<1>10. (p * PAGE_SIZE) \div PAGE_SIZE = p /\ (p * PAGE_SIZE) % PAGE_SIZE = 0
  BY <1>6, PageOf
<1>11. /\ loop'.phys = base /\ loop'.end = last /\ loop'.virt = DIRECT_MAP_BASE + p
       /\ loop'.next = "physmem" /\ loop'.rw = TRUE
       /\ base \div PAGE_SIZE = p /\ base % PAGE_SIZE = 0
  <2>1. base \div PAGE_SIZE = p /\ base % PAGE_SIZE = 0
    BY <1>6, <1>10, Zenon
  <2> QED
    BY <1>1, <2>1
<1>12. loop' \in [phys : Int, end : Int, virt : Int, rw : BOOLEAN,
                  next : {"init", "elf", "physmem"}]
  <2>1. base \in Int /\ DIRECT_MAP_BASE + base \div PAGE_SIZE \in Int
    BY <1>3, <1>6, <1>11
  <2> QED
    BY <1>1, <1>8, <2>1
<1>13. physmem_end' \in Nat /\ 0 .. physmem_end' \div PAGE_SIZE \subseteq Frames
  <2>1. CASE physmem_end' = physmem_end
    BY <1>2, <2>1
  <2>2. CASE physmem_end' = end
    <3> DEFINE x == end \div PAGE_SIZE
               y == (mmap[i].addr + mmap[i].len) \div PAGE_SIZE
    <3>1. x \in Nat /\ y \in Nat
      BY <1>3, <1>5, <1>7, Quotient
    <3>2. x * PAGE_SIZE <= end
      <4>1. x * PAGE_SIZE <= end <=> x <= x
        BY <1>3, <1>7, <3>1, Down
      <4> QED
        BY <3>1, <4>1
    <3>3. x <= y
      <4>1. x * PAGE_SIZE \in Nat
        BY <1>3, <3>1, TimesLess
      <4>2. x * PAGE_SIZE <= mmap[i].addr + mmap[i].len
        <5> HIDE DEF x
        <5> QED
          BY <1>5, <1>7, <3>2, <4>1
      <4> HIDE DEF x
      <4> QED
        BY <1>3, <1>5, <3>1, <4>2, Down
    <3>4. 0 .. y \subseteq Frames
      BY <1>5
    <3>5. 0 .. x \subseteq Frames
      <4> HIDE DEF x, y
      <4> QED
        BY <3>1, <3>3, <3>4
    <3> QED
      BY <1>7, <2>2, <3>5
  <2> QED
    BY <1>1, <2>1, <2>2
<1>14. Types'
  <2>1. i' \in Nat
    BY <1>1, <1>2
  <2> QED
    BY <1>1, <1>12, <1>13, <2>1, TablesTyped, WalkTyped DEF IInv, Types, RestTypes, LoopTypes
<1>15. Ranges'
  <2>1. ASSUME NEW k \in Nat, base + k * PAGE_SIZE < last
        PROVE  (DIRECT_MAP_BASE + p) + k \in VirtPages /\ p + k \in Frames
    <3>1. p * PAGE_SIZE + k * PAGE_SIZE = (p + k) * PAGE_SIZE /\ p + k \in Nat
          /\ (p + k) * PAGE_SIZE \in Nat
      <4>1. p * PAGE_SIZE + k * PAGE_SIZE = (p + k) * PAGE_SIZE /\ p + k \in Nat
        BY <1>6, PageOf
      <4> QED
        BY <1>3, <4>1, TimesLess
    <3>2. (p + k) * PAGE_SIZE < last
      BY <1>6, <2>1, <3>1, Zenon
    <3>3. (p + k) * PAGE_SIZE < end /\ (p + k) * PAGE_SIZE < room
      BY <1>9, <3>1, <3>2
    <3>4. DIRECT_MAP_BASE + (p + k) <= DIRECT_MAP_END
      BY <1>8, <3>1, <3>3
    <3>5. (p + k) * PAGE_SIZE <= mmap[i].addr + mmap[i].len
      BY <1>5, <1>7, <3>1, <3>3
    <3>6. p + k <= (mmap[i].addr + mmap[i].len) \div PAGE_SIZE
      BY <1>3, <1>5, <3>1, <3>5, Down
    <3>7. p + k \in 0 .. (mmap[i].addr + mmap[i].len) \div PAGE_SIZE
      <4>1. (mmap[i].addr + mmap[i].len) \div PAGE_SIZE \in Nat
        BY <1>3, <1>5, Quotient
      <4> QED
        BY <3>1, <3>6, <4>1
    <3>8. p + k \in Frames
      BY <1>5, <3>7
    <3>9. (DIRECT_MAP_BASE + p) + k \in VirtPages
      <4> DEFINE T == PT_ENTRIES * PT_ENTRIES * PT_ENTRIES * PT_ENTRIES - 1
      <4>1. VirtPages = 0 .. T /\ T \in Int
        <5>1. PT_ENTRIES \in Nat
          BY Positive
        <5> QED
          BY <5>1, SMT DEF VirtPages
      <4> HIDE DEF T
      <4> QED
        BY <1>3, <1>6, <3>4, <4>1
    <3> QED
      BY <3>8, <3>9
  <2>2. \A k \in Nat : loop'.phys + k * PAGE_SIZE < loop'.end =>
          loop'.virt + k \in VirtPages /\ loop'.phys \div PAGE_SIZE + k \in Frames
    BY <1>11, <2>1, Zenon
  <2>3. (\A k \in Nat : loop.phys + k * PAGE_SIZE < loop.end =>
          loop.virt + k \in VirtPages /\ loop.phys \div PAGE_SIZE + k \in Frames)'
    BY <2>2 DEF VirtPages
  <2>4. loop'.phys \in Nat /\ loop'.phys % PAGE_SIZE = 0 /\ i' >= 1
    <3>1. loop'.phys \in Nat /\ loop'.phys % PAGE_SIZE = 0
      BY <1>6, <1>11, Zenon
    <3> QED
      BY <1>1, <1>2, <3>1
  <2> QED
    BY <1>1, <1>11, <1>13, <2>3, <2>4 DEF IInv, Ranges, Looping
<1>16. Region' /\ Handed'
  BY <1>1, AllocatorStays DEF IInv
<1>17. Rooted'
  BY <1>1, RootedNow, RootedStays DEF IInv, Types, TableTypes, ToSet
<1>18. Mapping'
  <2>1. InEntry' /\ i' = i + 1 /\ i' - 1 = i
    BY <1>1, <1>2, <1>11 DEF InEntry, Looping
  <2>2. mmap' = mmap /\ (\A e : ToMap(e)' = ToMap(e)) /\ \A f : Direct(f)' = Direct(f)
    BY <1>1, Same DEF Direct, Entry
  <2>3. ASSUME NEW f \in ToMap(i) PROVE f * PAGE_SIZE < last /\ base <= f * PAGE_SIZE
    <3>1. /\ f \in Nat /\ p <= f /\ f * PAGE_SIZE < end /\ DIRECT_MAP_BASE + f <= DIRECT_MAP_END
      BY LayoutAssumption DEF ToMap, p, end, base
    <3>2. f * PAGE_SIZE \in Nat /\ p * PAGE_SIZE <= f * PAGE_SIZE
      BY <1>3, <1>6, <3>1, TimesLess
    <3> QED
      BY <1>6, <1>8, <1>9, <3>1, <3>2
  <2>4. \A e \in DOMAIN mmap : e < i => \A f \in ToMap(e) : Direct(f)
    BY <1>1 DEF IInv, Mapping, InEntry, Looping
  <2>5. \A e \in DOMAIN mmap : e < i + 1 =>
          \A f \in ToMap(e) : Direct(f) \/ (e = i /\ base <= f * PAGE_SIZE)
    <3>1. \A e \in DOMAIN mmap : e < i + 1 => e < i \/ e = i
      BY <1>2, Memory
    <3> QED
      BY <2>3, <2>4, <3>1
  <2>6. loop'.virt = DIRECT_MAP_BASE + loop'.phys \div PAGE_SIZE
    BY <1>11, Zenon
  <2>7. (/\ i - 1 <= Len(mmap)
         /\ loop.rw = TRUE /\ loop.virt = DIRECT_MAP_BASE + loop.phys \div PAGE_SIZE
         /\ \A f \in ToMap(i - 1) : f * PAGE_SIZE < loop.end
         /\ pc = "map" => walk.va = DIRECT_MAP_BASE + walk.frame /\ walk.rw = TRUE)'
    BY <1>1, <1>11, <2>1, <2>2, <2>3, <2>6
  <2>8. (\A e \in DOMAIN mmap : e < i =>
           \A f \in ToMap(e) :
             \/ Direct(f)
             \/ /\ InEntry /\ e = i - 1
                /\ loop.phys <= f * PAGE_SIZE \/ (pc = "map" /\ walk.va = DIRECT_MAP_BASE + f))'
    BY <1>11, <2>1, <2>2, <2>5
  <2> QED
    BY <2>7, <2>8 DEF Mapping
<1>19. Database' /\ Marks'
  BY <1>1, <1>2, Unfilled DEF IInv, Filling
<1> QED
  BY <1>14, <1>15, <1>16, <1>17, <1>18, <1>19 DEF IInv, Tree

LEMMA PhysmemEndsKeeps == ASSUME IInv, PhysmemEnds PROVE IInv'
<1>1. /\ pc = "physmem" /\ i > Len(mmap) /\ pc' = "pgdb" /\ i' = 0
      /\ pgdb_page_nr' = physmem_end \div PAGE_SIZE
      /\ UNCHANGED <<machine, alloc, table, boot_kern_pgtable, loop, walk, physmem_end, pgdb,
                     loaded, ret, handed_out, mapped>>
  BY DEF PhysmemEnds
<1>2. ~loaded /\ machine \in Machines /\ i \in Nat /\ physmem_end \in Nat
  BY <1>1, Unloaded DEF IInv, Types, RestTypes, LoopTypes
<1>3. Types'
  <2>1. pgdb_page_nr' \in Nat
    BY <1>1, <1>2, Positive, Quotient
  <2> QED
    BY <1>1, <2>1, TablesTyped, WalkTyped DEF IInv, Types, RestTypes, LoopTypes
<1>4. Ranges'
  BY <1>1 DEF IInv, Ranges, Looping
<1>5. Region' /\ Handed'
  BY <1>1, AllocatorStays DEF IInv
<1>6. Rooted'
  BY <1>1, RootedNow, RootedStays DEF IInv, Types, TableTypes, ToSet
<1>7. Mapping' /\ Marks'
  BY <1>1, <1>2, Same DEF IInv, Mapping, InEntry, Looping, Marks
<1>8. Database'
  <2>1. mmap' = mmap /\ (\A e : ToMap(e)' = ToMap(e)) /\ \A f : Direct(f)' = Direct(f)
    BY <1>1, Same DEF Direct, Entry
  <2>2. \A e \in DOMAIN mmap : \A f \in ToMap(e) : Direct(f)
    <3>1. \A e \in DOMAIN mmap : e < i
      BY <1>1, <1>2, Memory
    <3> QED
      BY <1>1, <3>1 DEF IInv, Mapping, InEntry, Looping
  <2>3. 0 % PGDB_PG_PAGE_NR = 0
    BY Positive
  <2>4. \A q \in Nat : ~(q * PGDB_PG_PAGE_NR < 0)
    <3>1. \A q \in Nat : q * PGDB_PG_PAGE_NR \in Nat
      BY Positive, TimesLess
    <3> QED
      BY <3>1
  <2> QED
    BY <1>1, <1>2, <2>1, <2>2, <2>3, <2>4 DEF Database, Filling
<1> QED
  BY <1>3, <1>4, <1>5, <1>6, <1>7, <1>8 DEF IInv, Tree

LEMMA DatabasePageKeeps == ASSUME IInv, DatabasePage PROVE IInv'
<1> DEFINE n == i \div PGDB_PG_PAGE_NR
<1>1. /\ pc = "pgdb" /\ i < pgdb_page_nr /\ i' = i + PGDB_PG_PAGE_NR
      /\ UNCHANGED <<machine, table, boot_kern_pgtable, loop, physmem_end, pgdb_page_nr, pgdb,
                     loaded, ret, mapped>>
  BY DEF DatabasePage
<1>2. PICK f \in Frames :
        /\ boot_mm_page_alloc(f)
        /\ boot_mm_pgtable_map(PAGE_DATABASE_BASE + n, f, TRUE, "pgdb")
  BY DEF DatabasePage
<1>3. /\ ~loaded /\ machine \in Machines /\ i \in Nat /\ pgdb_page_nr \in Nat
      /\ 0 .. pgdb_page_nr \subseteq Frames /\ boot_kern_pgtable \in Frames
  BY <1>1, Unloaded DEF IInv, Types, RestTypes, LoopTypes, TableTypes, Ranges
<1>4. /\ PGDB_PG_PAGE_NR \in Nat \ {0} /\ PAGE_DATABASE_BASE \in Nat
      /\ \A g \in Frames : PAGE_DATABASE_BASE + g \in VirtPages
  BY Positive, LayoutAssumption
<1>5. Region' /\ Handed' /\ ToSet(handed_out)' = ToSet(handed_out) \cup {f}
  BY <1>1, <1>2, <1>3, Allocates DEF IInv
<1>6. i = n * PGDB_PG_PAGE_NR /\ n \in Nat
  <2>1. i % PGDB_PG_PAGE_NR = 0
    BY <1>1 DEF IInv, Database, Filling
  <2> QED
    BY <1>3, <1>4, <2>1, Quotient, Multiple
<1> HIDE DEF n
<1>7. PAGE_DATABASE_BASE + n \in VirtPages
  <2>1. n <= i
    <3>1. n * 1 <= n * PGDB_PG_PAGE_NR
      <4>1. n * PGDB_PG_PAGE_NR = PGDB_PG_PAGE_NR * n /\ n * 1 = 1 * n
        BY <1>4, <1>6, SMT
      <4>2. n = 0 \/ n \in Nat \ {0}
        BY <1>6
      <4>3. CASE n = 0
        BY <1>4, <4>3
      <4>4. CASE n \in Nat \ {0}
        <5>1. 1 * n <= PGDB_PG_PAGE_NR * n
          BY <1>4, <4>4, TimesLess
        <5> QED
          BY <4>1, <5>1, Zenon
      <4> QED
        BY <4>2, <4>3, <4>4
    <3>2. n * 1 = n
      BY <1>6
    <3> QED
      BY <1>6, <3>1, <3>2, Zenon
  <2>2. n \in 0 .. pgdb_page_nr
    BY <1>1, <1>3, <1>6, <2>1
  <2> QED
    BY <1>3, <1>4, <2>2
<1>8. /\ WalkTypes' /\ pc' = "map" /\ walk'.back = "pgdb"
      /\ walk'.level = 4 /\ walk'.table = boot_kern_pgtable
      /\ walk'.va = PAGE_DATABASE_BASE + n /\ walk'.frame = f
  BY <1>2, <1>3, <1>7, StartsWalk
<1>9. Types'
  BY <1>1, <1>3, <1>4, <1>8, TablesTyped DEF IInv, Types, RestTypes, LoopTypes
<1>10. Ranges'
  BY <1>1, <1>8 DEF IInv, Ranges, Looping
<1>11. Rooted'
  BY <1>1, <1>3, <1>5, <1>8, RootedNow, RootedStays DEF IInv
<1>12. Mapping' /\ Marks'
  BY <1>1, <1>3, <1>8, Same DEF IInv, Mapping, InEntry, Looping, Marks
<1>13. Database'
  <2>1. mmap' = mmap /\ (\A e : ToMap(e)' = ToMap(e)) /\ \A g : Direct(g)' = Direct(g)
    BY <1>1, Same DEF Direct, Entry
  <2>2. \A e \in DOMAIN mmap : \A g \in ToMap(e) : Direct(g)
    BY <1>1 DEF IInv, Database, Filling
  <2>3. n + 1 \in Nat /\ i' = (n + 1) * PGDB_PG_PAGE_NR
    <3>1. (n + 1) * PGDB_PG_PAGE_NR = n * PGDB_PG_PAGE_NR + PGDB_PG_PAGE_NR /\ n + 1 \in Nat
      BY <1>4, <1>6, TimesLess
    <3> QED
      BY <1>1, <1>6, <3>1, Zenon
  <2>4. i' % PGDB_PG_PAGE_NR = 0
    <3>1. ((n + 1) * PGDB_PG_PAGE_NR) % PGDB_PG_PAGE_NR = 0
      <4>1. 0 \in 0 .. PGDB_PG_PAGE_NR - 1
        BY <1>4
      <4> QED
        BY <1>4, <2>3, <4>1, Aligned
    <3> QED
      BY <2>3, <3>1, Zenon
  <2>5. ASSUME NEW q \in Nat, q * PGDB_PG_PAGE_NR < i'
        PROVE  Backed(q) \/ walk'.va = PAGE_DATABASE_BASE + q
    <3>1. q < n + 1
      <4>1. q * PGDB_PG_PAGE_NR < (n + 1) * PGDB_PG_PAGE_NR
        BY <2>3, <2>5, Zenon
      <4> QED
        BY <1>4, <2>3, <4>1, TimesLess
    <3>2. q = n \/ q < n
      BY <1>6, <3>1
    <3>3. CASE q < n
      <4>1. q * PGDB_PG_PAGE_NR + PGDB_PG_PAGE_NR <= n * PGDB_PG_PAGE_NR
            /\ q * PGDB_PG_PAGE_NR \in Nat
        BY <1>4, <1>6, <3>3, TimesLess
      <4>2. q * PGDB_PG_PAGE_NR < i
        BY <1>3, <1>4, <1>6, <4>1
      <4> QED
        BY <1>1, <4>2 DEF IInv, Database, Filling
    <3> QED
      BY <1>8, <3>2, <3>3
  <2>6. \A q : Backed(q) => Backed(q)'
    BY <1>1, <1>5 DEF Backed
  <2>7. walk'.frame \in ToSet(handed_out)' /\ PAGE_DATABASE_BASE <= walk'.va
    BY <1>4, <1>5, <1>6, <1>8
  <2>8. (\A q \in Nat : q * PGDB_PG_PAGE_NR < i =>
           Backed(q) \/ (pc = "map" /\ walk.va = PAGE_DATABASE_BASE + q))'
    BY <1>8, <2>5, <2>6
  <2> QED
    BY <1>1, <1>3, <2>1, <2>2, <2>4, <2>7, <2>8 DEF Database, Filling
<1> QED
  BY <1>5, <1>9, <1>10, <1>11, <1>12, <1>13 DEF IInv, Tree

LEMMA LoadTableKeeps == ASSUME IInv, LoadTable PROVE IInv'
<1>1. /\ pc = "pgdb" /\ i >= pgdb_page_nr /\ loaded' = TRUE /\ pc' = "database" /\ i' = 1
      /\ UNCHANGED <<machine, alloc, table, boot_kern_pgtable, loop, walk, physmem_end,
                     pgdb_page_nr, pgdb, ret, handed_out, mapped>>
  BY DEF LoadTable
<1>2. ~loaded /\ machine \in Machines /\ i \in Nat /\ pgdb_page_nr \in Nat
  BY <1>1, Unloaded DEF IInv, Types, RestTypes, LoopTypes
<1>3. Types'
  BY <1>1, TablesTyped, WalkTyped DEF IInv, Types, RestTypes, LoopTypes
<1>4. Ranges'
  BY <1>1 DEF IInv, Ranges, Looping
<1>5. Region' /\ Handed'
  BY <1>1, AllocatorStays DEF IInv
<1>6. Rooted'
  BY <1>1, RootedNow, RootedStays DEF IInv, Types, TableTypes, ToSet
<1>7. Mapping'
  BY <1>1 DEF Mapping, InEntry, Looping
<1>8. Database'
  <2>1. mmap' = mmap /\ (\A e : ToMap(e)' = ToMap(e)) /\ \A g : Direct(g)' = Direct(g)
    BY <1>1, Same DEF Direct, Entry
  <2>2. \A q : Backed(q)' = Backed(q)
    BY <1>1 DEF Backed, ToSet
  <2>3. ASSUME NEW q \in Nat, q * PGDB_PG_PAGE_NR < pgdb_page_nr PROVE Backed(q)
    <3>1. q * PGDB_PG_PAGE_NR \in Nat
      BY Positive, TimesLess
    <3>2. q * PGDB_PG_PAGE_NR < i
      BY <1>1, <1>2, <2>3, <3>1
    <3> QED
      BY <1>1, <3>2 DEF IInv, Database, Filling
  <2>4. \A e \in DOMAIN mmap : \A g \in ToMap(e) : Direct(g)
    BY <1>1 DEF IInv, Database, Filling
  <2> QED
    BY <1>1, <2>1, <2>2, <2>3, <2>4 DEF Database, Filling
<1>9. Marks'
  <2>1. PoolFrames' = {}
    <3>1. \A f \in Frames : pgdb[f].ref_count = 0
      BY <1>2 DEF IInv, Marks
    <3> QED
      BY <1>1, <3>1 DEF PoolFrames
  <2>2. \A e \in DOMAIN mmap' : \A f : ~Marked(e, f)'
    <3>1. \A e \in DOMAIN mmap' : ~(e < 1)
      BY <1>1, <1>2, Same, Memory
    <3> QED
      BY <1>1, <3>1 DEF Marked
  <2>3. ImageFrames' = ImageFrames
    BY <1>1, Same
  <2> QED
    BY <1>1, <2>1, <2>2, <2>3 DEF IInv, Marks
<1> QED
  BY <1>3, <1>4, <1>5, <1>6, <1>7, <1>8, <1>9 DEF IInv, Tree

-----------------------------------------------------------------------------
(* The steps of a walk, and a page in use passed by, change nothing of what*)
(* the loops above them have done.                                         *)
LEMMA WalkStays ==
  ASSUME Ranges, Mapping, Database, Marks, pc \in {"root", "map", "bss", "pgdb"},
         UNCHANGED <<machine, pc, i, loop, mapped, loaded, pgdb, physmem_end, pgdb_page_nr>>,
         walk'.va = walk.va, walk'.frame = walk.frame, walk'.rw = walk.rw, walk'.back = walk.back,
         ToSet(handed_out) \subseteq ToSet(handed_out)'
  PROVE  Ranges' /\ Mapping' /\ Database' /\ Marks'
<1>1. /\ mmap' = mmap /\ \A e : ToMap(e)' = ToMap(e)
      /\ \A f : Direct(f)' = Direct(f)
      /\ \A q : Backed(q) => Backed(q)'
      /\ Looping' = Looping /\ InEntry' = InEntry /\ Filling' = Filling
  BY Same DEF Direct, Entry, Backed, Looping, InEntry, Filling
<1>2. ~loaded
  BY Unloaded
<1>3. Ranges'
  BY <1>1 DEF Ranges, VirtPages
<1>4. Mapping'
  BY <1>1 DEF Mapping
<1>5. Database'
  BY <1>1, <1>2 DEF Database
<1>6. Marks'
  BY <1>2, Same DEF Marks
<1> QED
  BY <1>3, <1>4, <1>5, <1>6

LEMMA SkipUsedKeeps == ASSUME IInv, SkipUsed PROVE IInv'
<1>1. /\ pc \in {"root", "map", "bss", "pgdb"}
      /\ UNCHANGED <<machine, table, boot_kern_pgtable, pc, i, loop, walk, physmem_end,
                     pgdb_page_nr, pgdb, loaded, ret, handed_out, mapped>>
  BY DEF SkipUsed, Allocating
<1>2. Types'
  BY <1>1, TablesTyped, WalkTyped DEF IInv, Types, RestTypes, LoopTypes
<1>3. Region' /\ Handed'
  BY Skips DEF IInv, Types, RestTypes
<1>4. Tree'
  <2>1. CASE pc = "root"
    BY <1>1, <2>1, RootedNow DEF IInv, Tree, Unrooted
  <2>2. CASE pc # "root"
    <3>1. Rooted'
      BY <1>1, <2>2, RootedNow, RootedStays DEF IInv, Types, TableTypes, ToSet
    <3> QED
      BY <3>1 DEF Tree
  <2> QED
    BY <2>1, <2>2
<1>5. Ranges' /\ Mapping' /\ Database' /\ Marks'
  BY <1>1, WalkStays DEF IInv, ToSet
<1> QED
  BY <1>2, <1>3, <1>4, <1>5 DEF IInv

LEMMA WalkDownInv == ASSUME IInv, WalkDown PROVE IInv'
<1>1. /\ pc = "map" /\ walk' = [walk EXCEPT !.level = @ - 1,
                                   !.table = table[walk.table][walk.index[walk.level]].frame]
      /\ UNCHANGED <<machine, alloc, table, boot_kern_pgtable, pc, i, loop, physmem_end,
                     pgdb_page_nr, pgdb, loaded, ret, handed_out, mapped>>
  BY DEF WalkDown
<1>2. Rooted' /\ WalkTypes'
  BY <1>1, RootedNow, WalkDownKeeps DEF IInv
<1>3. Types'
  BY <1>1, <1>2, TablesTyped DEF IInv, Types, RestTypes, LoopTypes
<1>4. Region' /\ Handed'
  BY <1>1, AllocatorStays DEF IInv
<1>5. /\ walk'.va = walk.va /\ walk'.frame = walk.frame /\ walk'.rw = walk.rw
      /\ walk'.back = walk.back
  BY <1>1 DEF IInv, Types, WalkTypes
<1>6. Ranges' /\ Mapping' /\ Database' /\ Marks'
  BY <1>1, <1>5, WalkStays DEF IInv, ToSet
<1> QED
  BY <1>2, <1>3, <1>4, <1>6 DEF IInv, Tree

LEMMA NewTableInv == ASSUME IInv, NewTable PROVE IInv'
<1>1. /\ pc = "map"
      /\ UNCHANGED <<machine, boot_kern_pgtable, pc, i, loop, physmem_end, pgdb_page_nr,
                     pgdb, loaded, ret, mapped>>
  BY DEF NewTable
<1>2. PICK f \in Frames :
        /\ boot_mm_page_alloc(f)
        /\ walk' = [walk EXCEPT !.level = @ - 1, !.table = f]
  BY DEF NewTable
<1>3. Rooted' /\ TableTypes' /\ WalkTypes' /\ Region' /\ Handed'
  BY <1>1, RootedNow, NewTableKeeps DEF IInv
<1>4. Types'
  BY <1>1, <1>3 DEF IInv, Types, RestTypes, LoopTypes
<1>5. /\ walk'.va = walk.va /\ walk'.frame = walk.frame /\ walk'.rw = walk.rw
      /\ walk'.back = walk.back
  BY <1>2 DEF IInv, Types, WalkTypes
<1>6. ToSet(handed_out) \subseteq ToSet(handed_out)'
  BY <1>1, <1>2, Allocates DEF IInv, Types, RestTypes
<1>7. Ranges' /\ Mapping' /\ Database' /\ Marks'
  BY <1>1, <1>5, <1>6, WalkStays DEF IInv
<1> QED
  BY <1>3, <1>4, <1>7 DEF IInv, Tree

LEMMA WriteEntryKeeps == ASSUME IInv, WriteEntry PROVE IInv'
<1> DEFINE x == Entry(walk.frame, walk.rw)
           va == walk.va
<1>1. /\ pc = "map" /\ pc' = walk.back
      /\ mapped' = [v \in DOMAIN mapped \cup {va} |-> IF v = va THEN x ELSE mapped[v]]
      /\ UNCHANGED <<machine, alloc, boot_kern_pgtable, i, loop, walk, physmem_end,
                     pgdb_page_nr, pgdb, loaded, ret, handed_out>>
  BY DEF WriteEntry
<1>2. ~loaded /\ walk.back \in {"region", "bss", "pgdb"} /\ va \in VirtPages
      /\ walk.frame \in Frames
  BY <1>1, Unloaded DEF IInv, Types, WalkTypes, Ranges
<1>3. Rooted' /\ TableTypes'
  BY <1>1, RootedNow, WriteEntryTree DEF IInv
<1>4. Types'
  BY <1>1, <1>2, <1>3, WalkTyped DEF IInv, Types, RestTypes, LoopTypes
<1>5. Region' /\ Handed'
  BY <1>1, AllocatorStays DEF IInv
<1>6. Ranges'
  BY <1>1, <1>2 DEF IInv, Ranges, Looping, VirtPages
<1>7. /\ mmap' = mmap /\ \A e : ToMap(e)' = ToMap(e)
      /\ DOMAIN mapped' = DOMAIN mapped \cup {va} /\ mapped'[va] = x
      /\ \A v \in DOMAIN mapped : v # va => mapped'[v] = mapped[v]
      /\ x.frame = walk.frame
  BY <1>1, Same, EntryIs
<1> HIDE DEF va
<1>8. Mapping'
  <2>1. pc' # "physmem" /\ InEntry' = InEntry
    BY <1>1, <1>2 DEF InEntry, Looping
  <2> SUFFICES ASSUME InEntry PROVE Mapping'
    BY <2>1 DEF Mapping
  <2>2. /\ i - 1 <= Len(mmap)
        /\ loop.rw = TRUE /\ loop.virt = DIRECT_MAP_BASE + loop.phys \div PAGE_SIZE
        /\ \A f \in ToMap(i - 1) : f * PAGE_SIZE < loop.end
        /\ va = DIRECT_MAP_BASE + walk.frame /\ walk.rw = TRUE
        /\ \A e \in DOMAIN mmap : e < i =>
             \A f \in ToMap(e) :
               Direct(f) \/ (e = i - 1 /\ (loop.phys <= f * PAGE_SIZE \/ va = DIRECT_MAP_BASE + f))
    BY <1>1 DEF IInv, Mapping, va
  <2>3. \A f \in Frames : (Direct(f) \/ va = DIRECT_MAP_BASE + f) => Direct(f)'
    <3> SUFFICES ASSUME NEW f \in Frames, Direct(f) \/ va = DIRECT_MAP_BASE + f PROVE Direct(f)'
      OBVIOUS
    <3>1. CASE va = DIRECT_MAP_BASE + f
      <4>1. f = walk.frame
        <5>1. DIRECT_MAP_BASE + walk.frame = DIRECT_MAP_BASE + f
          BY <2>2, <3>1
        <5>2. DIRECT_MAP_BASE \in Nat /\ walk.frame \in Nat /\ f \in Nat
          BY <1>2, LayoutAssumption
        <5> QED
          BY <5>1, <5>2
      <4>2. x = Entry(f, TRUE)
        BY <2>2, <4>1
      <4> HIDE DEF x
      <4>3. DIRECT_MAP_BASE + f \in DOMAIN mapped' /\ mapped'[DIRECT_MAP_BASE + f] = Entry(f, TRUE)
        BY <1>7, <3>1, <4>2
      <4> QED
        BY <4>3 DEF Direct, Entry
    <3>2. CASE va # DIRECT_MAP_BASE + f
      <4>1. DIRECT_MAP_BASE + f \in DOMAIN mapped /\ mapped[DIRECT_MAP_BASE + f] = Entry(f, TRUE)
        BY <3>2 DEF Direct
      <4>2. DIRECT_MAP_BASE + f \in DOMAIN mapped' /\ mapped'[DIRECT_MAP_BASE + f] = Entry(f, TRUE)
        BY <1>7, <3>2, <4>1
      <4> QED
        BY <4>2 DEF Direct, Entry
    <3> QED
      BY <3>1, <3>2
  <2>4. \A e : \A f \in ToMap(e) : f \in Frames
    BY DEF ToMap
  <2>5. \A e \in DOMAIN mmap : e < i =>
          \A f \in ToMap(e) : Direct(f)' \/ (e = i - 1 /\ loop.phys <= f * PAGE_SIZE)
    BY <2>2, <2>3, <2>4
  <2>6. (/\ i - 1 <= Len(mmap)
         /\ loop.rw = TRUE /\ loop.virt = DIRECT_MAP_BASE + loop.phys \div PAGE_SIZE
         /\ \A f \in ToMap(i - 1) : f * PAGE_SIZE < loop.end
         /\ pc = "map" => walk.va = DIRECT_MAP_BASE + walk.frame /\ walk.rw = TRUE)'
    BY <1>1, <1>2, <1>7, <2>2
  <2>7. (\A e \in DOMAIN mmap : e < i =>
           \A f \in ToMap(e) :
             \/ Direct(f)
             \/ /\ InEntry /\ e = i - 1
                /\ loop.phys <= f * PAGE_SIZE \/ (pc = "map" /\ walk.va = DIRECT_MAP_BASE + f))'
    BY <1>1, <1>7, <2>1, <2>5
  <2> QED
    BY <2>6, <2>7 DEF Mapping
<1>9. Database'
  <2>1. Filling' = Filling /\ ~loaded' /\ pc' # "map"
    BY <1>1, <1>2 DEF Filling
  <2> SUFFICES ASSUME Filling PROVE Database'
    BY <2>1 DEF Database
  <2>2. /\ \A e \in DOMAIN mmap : \A f \in ToMap(e) : Direct(f)
        /\ i % PGDB_PG_PAGE_NR = 0
        /\ \A q \in Nat : q * PGDB_PG_PAGE_NR < i => Backed(q) \/ va = PAGE_DATABASE_BASE + q
        /\ walk.frame \in ToSet(handed_out) /\ PAGE_DATABASE_BASE <= va
    BY <1>1 DEF IInv, Database, Filling, va
  <2>3. \A e \in DOMAIN mmap : \A f \in ToMap(e) : Direct(f)'
    <3> SUFFICES ASSUME NEW e \in DOMAIN mmap, NEW f \in ToMap(e) PROVE Direct(f)'
      OBVIOUS
    <3>1. DIRECT_MAP_BASE + f \in DOMAIN mapped /\ mapped[DIRECT_MAP_BASE + f] = Entry(f, TRUE)
      BY <2>2 DEF Direct
    <3>2. DIRECT_MAP_BASE + f # va
      <4>1. DIRECT_MAP_BASE + f <= DIRECT_MAP_END /\ f \in Nat
        BY LayoutAssumption DEF ToMap
      <4>2. /\ DIRECT_MAP_BASE \in Nat /\ DIRECT_MAP_END \in Int /\ PAGE_DATABASE_BASE \in Nat
            /\ DIRECT_MAP_END < PAGE_DATABASE_BASE
        BY LayoutAssumption DEF VirtPages
      <4>3. va \in Int
        BY <1>2, Blocks
      <4> QED
        BY <2>2, <4>1, <4>2, <4>3
    <3>3. DIRECT_MAP_BASE + f \in DOMAIN mapped' /\ mapped'[DIRECT_MAP_BASE + f] = Entry(f, TRUE)
      BY <1>7, <3>1, <3>2
    <3> QED
      BY <3>3 DEF Direct, Entry
  <2>4. ToSet(handed_out)' = ToSet(handed_out)
    BY <1>1 DEF ToSet
  <2> HIDE DEF x
  <2>5. \A q \in Nat : Backed(q) \/ va = PAGE_DATABASE_BASE + q => Backed(q)'
    BY <1>7, <2>2, <2>4 DEF Backed
  <2>6. (\A q \in Nat : q * PGDB_PG_PAGE_NR < i =>
            Backed(q) \/ (pc = "map" /\ walk.va = PAGE_DATABASE_BASE + q))'
    BY <1>1, <2>2, <2>5
  <2>7. (\A e \in DOMAIN mmap : \A f \in ToMap(e) : Direct(f))'
    BY <1>7, <2>3
  <2> QED
    BY <1>1, <2>1, <2>2, <2>6, <2>7 DEF Database
<1>10. Marks'
  BY <1>1, <1>2, Same DEF IInv, Marks
<1> QED
  BY <1>3, <1>4, <1>5, <1>6, <1>8, <1>9, <1>10 DEF IInv, Tree

-----------------------------------------------------------------------------
(* The sections cover for one another: of each page of the image but the   *)
(* first, addr_is_in_used_range keeps every address.                       *)
LEMMA AlignedAbove ==
  ASSUME NEW a \in Nat, NEW n \in Nat, (a \div PAGE_SIZE) * PAGE_SIZE < n
  PROVE  a < PAGE_ALIGN(n)
<1> DEFINE f == a \div PAGE_SIZE
           u == (n + PAGE_SIZE - 1) \div PAGE_SIZE
<1>1. PAGE_SIZE \in Nat \ {0} /\ f \in Nat /\ f + 1 \in Nat
  BY Positive, Quotient
<1>2. u \in Nat /\ PAGE_ALIGN(n) = u * PAGE_SIZE
  <2>1. n + PAGE_SIZE - 1 \in Nat
    BY <1>1
  <2> QED
    BY <1>1, <2>1, Quotient DEF PAGE_ALIGN
<1>3. a < (f + 1) * PAGE_SIZE
  <2>1. a < (f + 1) * PAGE_SIZE <=> f < f + 1
    BY <1>1, Down
  <2> HIDE DEF f
  <2> QED
    BY <1>1, <2>1
<1>4. f * PAGE_SIZE < u * PAGE_SIZE
  <2>1. f * PAGE_SIZE < PAGE_ALIGN(n)
    BY <1>1, BelowAligned
  <2> HIDE DEF f, u
  <2> QED
    BY <1>2, <2>1, Zenon
<1> HIDE DEF f, u
<1>5. f * PAGE_SIZE + PAGE_SIZE <= u * PAGE_SIZE /\ u * PAGE_SIZE \in Nat
  <2>1. f < u
    BY <1>1, <1>2, <1>4, TimesLess
  <2> QED
    BY <1>1, <1>2, <2>1, TimesLess
<1>6. (f + 1) * PAGE_SIZE = f * PAGE_SIZE + PAGE_SIZE /\ f * PAGE_SIZE \in Nat
  BY <1>1, TimesLess
<1> QED
  BY <1>1, <1>2, <1>3, <1>5, <1>6

LEMMA ImageUsed ==
  ASSUME machine \in Machines, NEW a \in Nat, a \div PAGE_SIZE \in ImageFrames
  PROVE  addr_is_in_used_range(a)
<1> DEFINE f == a \div PAGE_SIZE
           c == KERNEL_LOAD \div PAGE_SIZE
<1>1. PAGE_SIZE \in Nat \ {0} /\ f \in Nat /\ KERNEL_LOAD \in Nat /\ KERNEL_LOAD % PAGE_SIZE = 0
  BY Positive, Quotient, SizesAssumption
<1>2. c \in Nat /\ KERNEL_LOAD = c * PAGE_SIZE
  BY <1>1, Quotient, Multiple
<1>3. PICK s \in ToSet(sections) :
        /\ s.alloc /\ HasBit(s.type, 1)
        /\ f \in FramesOf(SegStart(s), SegStart(s) + s.size)
        /\ f # c
  <2>1. f \in ImageFrames
    OBVIOUS
  <2> DEFINE Mapped == {t \in ToSet(sections) : t.alloc /\ HasBit(t.type, 1)}
  <2>2. ImageFrames =
          (UNION {FramesOf(SegStart(s), SegStart(s) + s.size) : s \in Mapped}) \ {c}
    BY DEF ImageFrames
  <2>3. \A s \in Mapped : s \in ToSet(sections) /\ s.alloc /\ HasBit(s.type, 1)
    OBVIOUS
  <2> HIDE DEF f, c, Mapped
  <2>4. f # c /\ f \in UNION {FramesOf(SegStart(s), SegStart(s) + s.size) : s \in Mapped}
    BY <2>1, <2>2
  <2>5. PICK s \in Mapped : f \in FramesOf(SegStart(s), SegStart(s) + s.size)
    BY <2>4
  <2> QED
    BY <2>3, <2>4, <2>5
<1>4. f * PAGE_SIZE <= a
  <2>1. f * PAGE_SIZE <= a <=> f <= f
    BY <1>1, Down
  <2> QED
    BY <1>1, <2>1
<1> DEFINE y == s.offset \div PAGE_SIZE
<1>5. /\ s.offset \in Nat /\ s.size \in Nat /\ s.type = 1
      /\ s.offset >= PAGE_SIZE /\ s.offset % PAGE_SIZE = 0
      /\ \/ s.offset = PAGE_SIZE
         \/ \E t \in ToSet(sections) :
              /\ t.alloc /\ t.type = 1
              /\ t.offset < s.offset /\ s.offset = PAGE_ALIGN(t.offset + t.size)
  BY <1>3, Image, ImageAssumption DEF sections
<1>6. y \in Nat /\ s.offset = y * PAGE_SIZE
  BY <1>1, <1>5, Quotient, Multiple
<1>7. /\ SegStart(s) = KERNEL_LOAD + s.offset - PAGE_SIZE
      /\ SegStart(s) < (f + 1) * PAGE_SIZE /\ f * PAGE_SIZE < SegStart(s) + s.size
  BY <1>3 DEF SegStart, FramesOf
<1> HIDE DEF f, c, y
<1>8. y # 0 /\ y - 1 \in Nat
  <2>1. y # 0
    <3> SUFFICES ASSUME y = 0 PROVE FALSE
      OBVIOUS
    <3>1. s.offset = 0 * PAGE_SIZE
      BY <1>6, Zenon
    <3> QED
      BY <1>1, <1>5, <3>1
  <2> QED
    BY <1>6, <2>1
<1>9. PICK w \in Nat : y = w + 1
  <2>1. y = (y - 1) + 1
    BY <1>6
  <2> QED
    BY <1>8, <2>1
<1>10. /\ s.offset = w * PAGE_SIZE + PAGE_SIZE /\ w * PAGE_SIZE \in Nat
       /\ c * PAGE_SIZE \in Nat /\ c + w \in Nat
       /\ c * PAGE_SIZE + w * PAGE_SIZE = (c + w) * PAGE_SIZE
       /\ SegStart(s) = (c + w) * PAGE_SIZE
  <2>1. (w + 1) * PAGE_SIZE = w * PAGE_SIZE + PAGE_SIZE /\ w * PAGE_SIZE \in Nat
        /\ c * PAGE_SIZE \in Nat
    BY <1>1, <1>2, TimesLess
  <2>2. s.offset = w * PAGE_SIZE + PAGE_SIZE
    BY <1>6, <1>9, <2>1, Zenon
  <2>3. c * PAGE_SIZE + w * PAGE_SIZE = (c + w) * PAGE_SIZE /\ c + w \in Nat
    BY <1>2, PageOf
  <2>4. SegStart(s) = c * PAGE_SIZE + w * PAGE_SIZE
    BY <1>1, <1>2, <1>7, <2>1, <2>2
  <2> QED
    BY <2>1, <2>2, <2>3, <2>4, Zenon
<1>11. c + w <= f
  <2>1. (c + w) * PAGE_SIZE < (f + 1) * PAGE_SIZE
    BY <1>7, <1>10, Zenon
  <2>2. c + w < f + 1
    <3>1. f + 1 \in Nat
      BY <1>1
    <3> QED
      BY <1>1, <1>10, <2>1, <3>1, TimesLess
  <2> QED
    BY <1>1, <1>10, <2>2
<1>12. f * PAGE_SIZE \in Nat /\ (c + w) * PAGE_SIZE \in Nat
  BY <1>1, <1>10, TimesLess
<1>13. CASE c + w < f
  <2>1. (c + w) * PAGE_SIZE + PAGE_SIZE <= f * PAGE_SIZE
    BY <1>1, <1>10, <1>13, TimesLess
  <2>2. KERNEL_LOAD + s.offset = (c + w) * PAGE_SIZE + PAGE_SIZE
    BY <1>1, <1>2, <1>10
  <2>3. KERNEL_LOAD + s.offset <= a
    BY <1>1, <1>4, <1>12, <2>1, <2>2
  <2>4. f * PAGE_SIZE < KERNEL_LOAD + s.offset + s.size
    BY <1>1, <1>5, <1>7, <1>12
  <2>5. KERNEL_LOAD + s.offset + s.size \in Nat
    BY <1>1, <1>5
  <2>6. a < PAGE_ALIGN(KERNEL_LOAD + s.offset + s.size)
    BY <2>4, <2>5, AlignedAbove DEF f
  <2> QED
    BY <1>3, <1>5, <2>3, <2>6 DEF addr_is_in_used_range
<1>14. CASE c + w = f
  <2>1. w # 0
    <3> SUFFICES ASSUME w = 0 PROVE FALSE
      OBVIOUS
    <3> QED
      BY <1>2, <1>3, <1>14 DEF c, f
  <2>2. s.offset # PAGE_SIZE
    <3> SUFFICES ASSUME s.offset = PAGE_SIZE PROVE FALSE
      OBVIOUS
    <3>1. w * PAGE_SIZE = 0
      <4> DEFINE n == w * PAGE_SIZE
      <4>1. s.offset = n + PAGE_SIZE /\ n \in Nat
        BY <1>10
      <4> HIDE DEF n
      <4>2. n = 0
        BY <1>1, <4>1
      <4> QED
        BY <4>2 DEF n
    <3>2. 0 * PAGE_SIZE + PAGE_SIZE <= w * PAGE_SIZE
      <4>1. 0 < w /\ 0 \in Nat
        BY <2>1
      <4> QED
        BY <1>1, <4>1, TimesLess
    <3> QED
      BY <1>1, <3>1, <3>2
  <2>3. PICK t \in ToSet(sections) :
          /\ t.alloc /\ t.type = 1
          /\ t.offset < s.offset /\ s.offset = PAGE_ALIGN(t.offset + t.size)
    BY <1>5, <2>2
  <2>4. /\ t.offset \in Nat /\ t.size \in Nat
        /\ t.offset % PAGE_SIZE = 0
    <3>1. HasBit(t.type, 1)
      BY <2>3 DEF HasBit
    <3> QED
      BY <2>3, <3>1, Image, ImageAssumption DEF sections
  <2> DEFINE z == t.offset \div PAGE_SIZE
  <2>5. z \in Nat /\ t.offset = z * PAGE_SIZE
    BY <1>1, <2>4, Quotient, Multiple
  <2> HIDE DEF z
  <2>6. t.offset <= w * PAGE_SIZE
    <3>1. z < w + 1
      <4>1. z * PAGE_SIZE < (w + 1) * PAGE_SIZE
        BY <1>6, <1>9, <2>3, <2>5, Zenon
      <4>2. w + 1 \in Nat
        BY <1>9
      <4> QED
        BY <1>1, <2>5, <4>1, <4>2, TimesLess
    <3>2. z <= w
      BY <2>5, <3>1
    <3>3. z * PAGE_SIZE <= w * PAGE_SIZE
      BY <1>1, <2>5, <3>2, TimesLess
    <3> QED
      BY <2>5, <3>3, Zenon
  <2>7. f * PAGE_SIZE = KERNEL_LOAD + w * PAGE_SIZE
    BY <1>2, <1>10, <1>14, Zenon
  <2>8. KERNEL_LOAD + t.offset <= a
    BY <1>1, <1>4, <1>10, <1>12, <2>4, <2>6, <2>7
  <2>9. w * PAGE_SIZE < t.offset + t.size
    <3>1. t.offset + t.size \in Nat
      BY <2>4
    <3>2. w * PAGE_SIZE < PAGE_ALIGN(t.offset + t.size)
      BY <1>1, <1>10, <2>3
    <3> QED
      BY <3>1, <3>2, BelowAligned
  <2>10. KERNEL_LOAD + t.offset + t.size \in Nat
         /\ f * PAGE_SIZE < KERNEL_LOAD + t.offset + t.size
    BY <1>1, <1>10, <2>4, <2>7, <2>9
  <2>11. a < PAGE_ALIGN(KERNEL_LOAD + t.offset + t.size)
    BY <2>10, AlignedAbove DEF f
  <2> QED
    BY <2>3, <2>8, <2>11 DEF addr_is_in_used_range
<1> QED
  BY <1>1, <1>10, <1>11, <1>13, <1>14

-----------------------------------------------------------------------------
(* The page database is marked: nothing else changes any more. *)
LEMMA MarkingStays ==
  ASSUME IInv, pc \in {"database", "marks"}, pc' \in {"database", "marks", "main", "fault"},
         UNCHANGED <<machine, alloc, table, boot_kern_pgtable, walk, physmem_end, pgdb_page_nr,
                     loaded, ret, handed_out, mapped>>
  PROVE  /\ TableTypes' /\ WalkTypes' /\ Ranges' /\ Region' /\ Handed' /\ Mapping' /\ Database'
         /\ Turn' = Turn
<1>1. TableTypes' /\ WalkTypes'
  BY TablesTyped, WalkTyped DEF IInv, Types
<1>2. Ranges'
  BY DEF IInv, Ranges, Looping
<1>3. Region' /\ Handed'
  BY AllocatorStays DEF IInv
<1>4. Mapping'
  BY DEF Mapping, InEntry, Looping
<1>5. Database'
  <2>1. mmap' = mmap /\ (\A e : ToMap(e)' = ToMap(e)) /\ \A g : Direct(g)' = Direct(g)
    BY Same DEF Direct, Entry
  <2>2. \A q : Backed(q)' = Backed(q)
    BY DEF Backed, ToSet
  <2> QED
    BY <2>1, <2>2 DEF IInv, Database, Filling
<1>6. Turn' = Turn
  BY DEF alloc, Turn
<1> QED
  BY <1>1, <1>2, <1>3, <1>4, <1>5, <1>6

LEMMA MarkEntryKeeps == ASSUME IInv, MarkEntry PROVE IInv'
<1>1. /\ pc = "database" /\ loaded /\ i <= Len(mmap) /\ pc' = "marks"
      /\ loop' = [loop EXCEPT !.phys = mmap[i].addr, !.end = mmap[i].addr + mmap[i].len]
      /\ UNCHANGED <<machine, alloc, table, boot_kern_pgtable, i, walk, physmem_end, pgdb_page_nr,
                     pgdb, loaded, ret, handed_out, mapped>>
  BY DEF MarkEntry
<1>2. machine \in Machines /\ i \in 1 .. Len(mmap) /\ Len(mmap) \in Nat /\ i \in DOMAIN mmap
  <2>1. machine \in Machines /\ i \in Nat /\ i >= 1
    BY <1>1 DEF IInv, Types, RestTypes, LoopTypes, Marks
  <2> QED
    BY <1>1, <2>1, Memory
<1>3. mmap[i].addr \in Nat /\ mmap[i].addr + mmap[i].len \in Nat
  BY <1>2, Memory
<1>4. /\ TableTypes' /\ WalkTypes' /\ Ranges' /\ Region' /\ Handed' /\ Mapping' /\ Database'
      /\ Turn' = Turn
  BY <1>1, MarkingStays
<1>5. Tree'
  <2>1. Rooted'
    BY <1>1, RootedNow, RootedStays DEF IInv, Types, TableTypes, ToSet
  <2> QED
    BY <2>1 DEF Tree
<1>6. /\ loop'.phys = mmap[i].addr /\ loop'.end = mmap[i].addr + mmap[i].len
      /\ loop' \in [phys : Int, end : Int, virt : Int, rw : BOOLEAN,
                    next : {"init", "elf", "physmem"}]
  <2>1. loop \in [phys : Int, end : Int, virt : Int, rw : BOOLEAN,
                  next : {"init", "elf", "physmem"}]
    BY DEF IInv, Types, LoopTypes
  <2>2. mmap[i].addr \in Int /\ mmap[i].addr + mmap[i].len \in Int
    BY <1>3
  <2>3. /\ loop'.phys = mmap[i].addr /\ loop'.end = mmap[i].addr + mmap[i].len
    BY <1>1, <2>1
  <2>4. loop' \in [phys : Int, end : Int, virt : Int, rw : BOOLEAN,
                   next : {"init", "elf", "physmem"}]
    BY <1>1, <2>1, <2>2
  <2> QED
    BY <2>3, <2>4
<1>7. Types'
  BY <1>1, <1>4, <1>6 DEF IInv, Types, RestTypes, LoopTypes
<1>8. Marks'
  <2>1. /\ mmap' = mmap /\ ImageFrames' = ImageFrames /\ UsedFrames' = UsedFrames
        /\ UsualMap' = UsualMap /\ PoolFrames' = PoolFrames
        /\ \A e : Low(e)' = Low(e) /\ High(e)' = High(e)
    BY <1>1, Same DEF PoolFrames
  <2>2. ASSUME NEW e \in DOMAIN mmap, NEW f \in Frames PROVE Marked(e, f)' <=> Marked(e, f)
    <3>1. e = i /\ Low(e) <= f => ~(f * PAGE_SIZE < mmap[i].addr)
      <4>1. f \in Nat /\ PAGE_SIZE \in Nat \ {0}
        BY LayoutAssumption, Positive
      <4>2. Low(e) <= f <=> mmap[e].addr <= f * PAGE_SIZE
        BY <1>2, <4>1, Whole
      <4>3. f * PAGE_SIZE \in Nat
        BY <4>1, TimesLess
      <4> QED
        BY <1>3, <4>2, <4>3
    <3>2. Marked(e, f)' <=> /\ Low(e) <= f /\ f < High(e)
                            /\ e < i \/ (e = i /\ f * PAGE_SIZE < mmap[i].addr)
      BY <1>1, <1>6, <2>1 DEF Marked
    <3>3. Marked(e, f) <=> Low(e) <= f /\ f < High(e) /\ e < i
      BY <1>1 DEF Marked
    <3> QED
      BY <3>1, <3>2, <3>3
  <2>3. UsualMap => mmap[i].addr % PAGE_SIZE = 0
    BY <1>2 DEF UsualMap
  <2>4. UsualMap => PoolFrames = {f \in Frames \ UsedFrames :
                       /\ Turn <= f
                       /\ \E e \in DOMAIN mmap : mmap[e].type = "available" /\ Marked(e, f)}
    BY <1>1 DEF IInv, Marks
  <2>5. UsualMap' => PoolFrames' = {f \in Frames \ UsedFrames' :
                       /\ Turn' <= f
                       /\ \E e \in DOMAIN mmap' : mmap'[e].type = "available" /\ Marked(e, f)'}
    BY <1>4, <2>1, <2>2, <2>4
  <2>6. pgdb' = pgdb /\ i' = i /\ i >= 1 /\ mmap[i].addr <= loop'.phys /\ loop'.phys \in Nat
    BY <1>1, <1>2, <1>3, <1>6
  <2> QED
    BY <1>1, <1>2, <1>6, <2>1, <2>3, <2>5, <2>6 DEF IInv, Marks
<1> QED
  BY <1>4, <1>5, <1>7, <1>8 DEF IInv

LEMMA MarksEndKeeps == ASSUME IInv, MarksEnd PROVE IInv'
<1>1. /\ pc = "marks" /\ loop.phys >= loop.end /\ pc' = "database" /\ i' = i + 1
      /\ UNCHANGED <<machine, alloc, table, boot_kern_pgtable, loop, walk, physmem_end,
                     pgdb_page_nr, pgdb, loaded, ret, handed_out, mapped>>
  BY DEF MarksEnd
<1>2. /\ machine \in Machines /\ i \in 1 .. Len(mmap) /\ i \in Nat /\ Len(mmap) \in Nat
      /\ i \in DOMAIN mmap /\ loaded /\ loop.phys \in Nat
  <2>1. machine \in Machines /\ i \in 1 .. Len(mmap) /\ i \in Nat /\ loaded /\ loop.phys \in Nat
    BY <1>1 DEF IInv, Types, RestTypes, LoopTypes, Marks
  <2> QED
    BY <2>1, Memory
<1>3. /\ TableTypes' /\ WalkTypes' /\ Ranges' /\ Region' /\ Handed' /\ Mapping' /\ Database'
      /\ Turn' = Turn
  BY <1>1, MarkingStays
<1>4. Tree'
  <2>1. Rooted'
    BY <1>1, RootedNow, RootedStays DEF IInv, Types, TableTypes, ToSet
  <2> QED
    BY <2>1 DEF Tree
<1>5. Types'
  <2>1. i' \in Nat
    BY <1>1, <1>2
  <2> QED
    BY <1>1, <1>3, <2>1 DEF IInv, Types, RestTypes, LoopTypes
<1>6. Marks'
  <2>1. /\ mmap' = mmap /\ ImageFrames' = ImageFrames /\ UsedFrames' = UsedFrames
        /\ UsualMap' = UsualMap /\ PoolFrames' = PoolFrames
        /\ \A e : Low(e)' = Low(e) /\ High(e)' = High(e)
    BY <1>1, Same DEF PoolFrames
  <2>2. ASSUME UsualMap, NEW e \in DOMAIN mmap, NEW f \in Frames
        PROVE  Marked(e, f)' <=> Marked(e, f)
    <3>1. e = i /\ f < High(e) => f * PAGE_SIZE < loop.phys
      <4>1. f \in Nat /\ PAGE_SIZE \in Nat \ {0}
        BY LayoutAssumption, Positive
      <4>2. f < High(e) <=> (f + 1) * PAGE_SIZE <= mmap[e].addr + mmap[e].len
        BY <1>2, <4>1, Whole
      <4>3. f * PAGE_SIZE \in Nat /\ (f + 1) * PAGE_SIZE = f * PAGE_SIZE + PAGE_SIZE
        BY <4>1, TimesLess
      <4>4. loop.end = mmap[i].addr + mmap[i].len /\ mmap[i].addr + mmap[i].len \in Nat
        BY <1>1, <1>2, <2>2, Memory DEF IInv, Marks
      <4>5. mmap[i].addr + mmap[i].len <= loop.phys
        BY <1>1, <1>2, <4>4
      <4>6. ASSUME e = i, f < High(e) PROVE f * PAGE_SIZE < loop.phys
        <5>1. (f + 1) * PAGE_SIZE <= mmap[i].addr + mmap[i].len
          BY <4>2, <4>6
        <5>2. f * PAGE_SIZE < mmap[i].addr + mmap[i].len
          BY <4>1, <4>3, <4>4, <5>1
        <5> QED
          BY <1>2, <4>3, <4>4, <4>5, <5>2
      <4> QED
        BY <4>6
    <3>2. e \in Nat
      BY <1>2, Memory
    <3>3. Marked(e, f)' <=> Low(e) <= f /\ f < High(e) /\ e < i + 1
      BY <1>1, <2>1 DEF Marked
    <3>4. Marked(e, f) <=> /\ Low(e) <= f /\ f < High(e)
                           /\ e < i \/ (e = i /\ f * PAGE_SIZE < loop.phys)
      BY <1>1 DEF Marked
    <3>5. e < i + 1 <=> e < i \/ e = i
      BY <1>2, <3>2
    <3> QED
      BY <3>1, <3>3, <3>4, <3>5
  <2>3. UsualMap => PoolFrames = {f \in Frames \ UsedFrames :
                       /\ Turn <= f
                       /\ \E e \in DOMAIN mmap : mmap[e].type = "available" /\ Marked(e, f)}
    BY <1>1, <1>2 DEF IInv, Marks
  <2>4. UsualMap' => PoolFrames' = {f \in Frames \ UsedFrames' :
                       /\ Turn' <= f
                       /\ \E e \in DOMAIN mmap' : mmap'[e].type = "available" /\ Marked(e, f)'}
    BY <1>3, <2>1, <2>2, <2>3
  <2>5. i' >= 1
    BY <1>1, <1>2
  <2> QED
    BY <1>1, <1>2, <2>1, <2>4, <2>5 DEF IInv, Marks
<1> QED
  BY <1>3, <1>4, <1>5, <1>6 DEF IInv

LEMMA FaultKeeps == ASSUME IInv, Fault PROVE IInv'
<1>1. /\ pc \in {"database", "marks"} /\ (pc = "database" => ~loaded) /\ pc' = "fault"
      /\ UNCHANGED <<machine, alloc, table, boot_kern_pgtable, i, loop, walk, physmem_end,
                     pgdb_page_nr, pgdb, loaded, ret, handed_out, mapped>>
  BY DEF Fault
<1>2. /\ TableTypes' /\ WalkTypes' /\ Ranges' /\ Region' /\ Handed' /\ Mapping' /\ Database'
      /\ Turn' = Turn
  BY <1>1, MarkingStays
<1>3. Tree'
  <2>1. Rooted => Rooted'
    BY <1>1, RootedStays DEF IInv, Types, TableTypes, ToSet
  <2>2. Unrooted => Unrooted'
    BY <1>1 DEF Unrooted
  <2> QED
    BY <2>1, <2>2 DEF IInv, Tree
<1>4. Types'
  BY <1>1, <1>2 DEF IInv, Types, RestTypes, LoopTypes
<1>5. Marks'
  <2>1. /\ mmap' = mmap /\ ImageFrames' = ImageFrames /\ UsedFrames' = UsedFrames
        /\ UsualMap' = UsualMap /\ PoolFrames' = PoolFrames
        /\ \A e : Low(e)' = Low(e) /\ High(e)' = High(e)
    BY <1>1, Same DEF PoolFrames
  <2> QED
    BY <1>1, <2>1 DEF IInv, Marks
<1> QED
  BY <1>2, <1>3, <1>4, <1>5 DEF IInv

LEMMA EnterMainKeeps == ASSUME IInv, EnterMain PROVE IInv'
<1>1. /\ pc = "database" /\ loaded /\ i > Len(mmap) /\ pc' = "main"
      /\ UNCHANGED <<machine, alloc, table, boot_kern_pgtable, i, loop, walk, physmem_end,
                     pgdb_page_nr, pgdb, loaded, ret, handed_out, mapped>>
  BY DEF EnterMain
<1>2. /\ TableTypes' /\ WalkTypes' /\ Ranges' /\ Region' /\ Handed' /\ Mapping' /\ Database'
      /\ Turn' = Turn
  BY <1>1, MarkingStays
<1>3. Tree'
  <2>1. Rooted => Rooted'
    BY <1>1, RootedStays DEF IInv, Types, TableTypes, ToSet
  <2>2. Unrooted => Unrooted'
    BY <1>1 DEF Unrooted
  <2> QED
    BY <2>1, <2>2 DEF IInv, Tree
<1>4. Types'
  BY <1>1, <1>2 DEF IInv, Types, RestTypes, LoopTypes
<1>5. Marks'
  <2>1. /\ mmap' = mmap /\ ImageFrames' = ImageFrames /\ UsedFrames' = UsedFrames
        /\ UsualMap' = UsualMap /\ PoolFrames' = PoolFrames
        /\ \A e : Low(e)' = Low(e) /\ High(e)' = High(e)
    BY <1>1, Same DEF PoolFrames
  <2>2. \A e, f : Marked(e, f)' <=> Marked(e, f)
    BY <1>1, <2>1 DEF Marked
  <2>3. loaded /\ UsualMap => PoolFrames = {f \in Frames \ UsedFrames :
                       /\ Turn <= f
                       /\ \E e \in DOMAIN mmap : mmap[e].type = "available" /\ Marked(e, f)}
    BY <1>1 DEF IInv, Marks
  <2>4. (loaded /\ UsualMap => PoolFrames = {f \in Frames \ UsedFrames :
                       /\ Turn <= f
                       /\ \E e \in DOMAIN mmap : mmap[e].type = "available" /\ Marked(e, f)})'
    BY <1>1, <1>2, <2>1, <2>2, <2>3
  <2> QED
    BY <1>1, <2>1, <2>4 DEF IInv, Marks
<1> QED
  BY <1>2, <1>3, <1>4, <1>5 DEF IInv

LEMMA StoppedKeeps == ASSUME IInv, UNCHANGED vars PROVE IInv'
<1>1. UNCHANGED <<machine, alloc, table, boot_kern_pgtable, pc, i, loop, walk, physmem_end,
                  pgdb_page_nr, pgdb, loaded, ret, handed_out, mapped>>
  BY DEF vars
<1>2. Types'
  BY <1>1, TablesTyped, WalkTyped DEF IInv, Types, RestTypes, LoopTypes
<1>3. Region' /\ Handed'
  BY <1>1, AllocatorStays DEF IInv
<1>4. Tree'
  <2>1. Rooted => Rooted'
    BY <1>1, RootedStays DEF Rooted, IInv, Types, TableTypes, ToSet
  <2>2. Unrooted => Unrooted'
    BY <1>1 DEF Unrooted
  <2> QED
    BY <2>1, <2>2 DEF IInv, Tree
<1>5. /\ mmap' = mmap /\ ImageFrames' = ImageFrames /\ UsedFrames' = UsedFrames
      /\ UsualMap' = UsualMap /\ PoolFrames' = PoolFrames
      /\ \A e : Low(e)' = Low(e) /\ High(e)' = High(e) /\ ToMap(e)' = ToMap(e)
      /\ \A f : Direct(f)' = Direct(f)
      /\ \A q : Backed(q)' = Backed(q)
      /\ Looping' = Looping /\ InEntry' = InEntry /\ Filling' = Filling
  BY <1>1, Same DEF PoolFrames, Direct, Entry, Backed, ToSet, Looping, InEntry, Filling
<1>6. Ranges' /\ Mapping'
  BY <1>1, <1>5 DEF IInv, Ranges, VirtPages, Mapping
<1>7. Database'
  BY <1>1, <1>5 DEF IInv, Database, ToSet
<1>8. Marks'
  <2>1. \A e, f : Marked(e, f)' = Marked(e, f)
    BY <1>1, <1>5 DEF Marked
  <2>2. Turn' = Turn
    BY <1>1 DEF alloc, Turn
  <2> QED
    BY <1>1, <1>5, <2>1, <2>2 DEF IInv, Marks
<1> QED
  BY <1>2, <1>3, <1>4, <1>6, <1>7, <1>8 DEF IInv

LEMMA MarkPageKeeps == ASSUME IInv, MarkPage PROVE IInv'
<1> SUFFICES ASSUME NEW g, g = loop.phys \div PAGE_SIZE PROVE IInv'
  OBVIOUS
<1> DEFINE ref == IF mmap[i].type = "available" /\ ~InUse(loop.phys) THEN -1 ELSE 0
<1>1. /\ pc = "marks" /\ loop.phys < loop.end /\ pc' = "marks"
      /\ pgdb' = [pgdb EXCEPT ![g] = [type |-> mmap[i].type, ref_count |-> ref]]
      /\ loop' = [loop EXCEPT !.phys = @ + PAGE_SIZE]
      /\ UNCHANGED <<machine, alloc, table, boot_kern_pgtable, i, walk, physmem_end,
                     pgdb_page_nr, loaded, ret, handed_out, mapped>>
  BY DEF MarkPage
<1>2. /\ machine \in Machines /\ i \in 1 .. Len(mmap) /\ i \in Nat /\ Len(mmap) \in Nat
      /\ i \in DOMAIN mmap /\ loaded /\ loop.phys \in Nat
  <2>1. machine \in Machines /\ i \in 1 .. Len(mmap) /\ i \in Nat /\ loaded /\ loop.phys \in Nat
    BY <1>1 DEF IInv, Types, RestTypes, LoopTypes, Marks
  <2> QED
    BY <2>1, Memory
<1>3. PAGE_SIZE \in Nat \ {0} /\ g \in Nat
  BY <1>2, Positive, Quotient
<1>4. /\ TableTypes' /\ WalkTypes' /\ Ranges' /\ Region' /\ Handed' /\ Mapping' /\ Database'
      /\ Turn' = Turn
  BY <1>1, MarkingStays
<1>5. Tree'
  <2>1. Rooted'
    BY <1>1, RootedNow, RootedStays DEF IInv, Types, TableTypes, ToSet
  <2> QED
    BY <2>1 DEF Tree
<1>6. /\ pgdb \in [Frames -> [type : PageTypes, ref_count : {-1, 0}]]
      /\ mmap[i].type \in MemoryTypes /\ ref \in {-1, 0}
  BY <1>2, Memory DEF IInv, Types, RestTypes
<1>7. loop \in [phys : Int, end : Int, virt : Int, rw : BOOLEAN, next : {"init", "elf", "physmem"}]
  BY DEF IInv, Types, LoopTypes
<1> HIDE DEF ref
<1>8. /\ loop'.phys = loop.phys + PAGE_SIZE /\ loop'.end = loop.end
      /\ loop' \in [phys : Int, end : Int, virt : Int, rw : BOOLEAN,
                    next : {"init", "elf", "physmem"}]
  <2>1. loop.phys + PAGE_SIZE \in Int
    BY <1>2, <1>3
  <2> QED
    BY <1>1, <1>7, <2>1
<1>9. pgdb' \in [Frames -> [type : PageTypes, ref_count : {-1, 0}]]
  <2> DEFINE r == [type |-> mmap[i].type, ref_count |-> ref]
  <2>1. r \in [type : PageTypes, ref_count : {-1, 0}]
    <3>1. mmap[i].type \in PageTypes
      BY <1>6, Zenon DEF PageTypes
    <3> QED
      BY <1>6, <3>1
  <2> HIDE DEF r
  <2> QED
    BY <1>1, <1>6, <2>1 DEF r
<1>10. Types'
  BY <1>1, <1>4, <1>8, <1>9 DEF IInv, Types, RestTypes, LoopTypes
<1>11. /\ \A f \in Frames : f # g => pgdb'[f] = pgdb[f]
       /\ g \in Frames => pgdb'[g].type = mmap[i].type /\ pgdb'[g].ref_count = ref
  BY <1>1, <1>6
<1>12. Marks'
  <2>1. /\ mmap' = mmap /\ ImageFrames' = ImageFrames /\ UsedFrames' = UsedFrames
        /\ UsualMap' = UsualMap
        /\ \A e : Low(e)' = Low(e) /\ High(e)' = High(e)
    BY <1>1, Same
  <2>2. \A f \in ImageFrames : pgdb'[f].ref_count = 0
    <3> SUFFICES ASSUME NEW f \in ImageFrames PROVE pgdb'[f].ref_count = 0
      OBVIOUS
    <3>1. f \in Frames
      BY DEF ImageFrames, FramesOf
    <3>2. pgdb[f].ref_count = 0
      BY DEF IInv, Marks
    <3>3. f = g => ref = 0
      <4>1. f = g => addr_is_in_used_range(loop.phys)
        BY <1>2, ImageUsed
      <4> QED
        BY <4>1 DEF ref, InUse
    <3> QED
      BY <1>11, <3>1, <3>2, <3>3
  <2>3. ASSUME UsualMap
        PROVE  /\ loop.phys = g * PAGE_SIZE /\ loop'.phys % PAGE_SIZE = 0
               /\ Low(i) <= g /\ g < High(i) /\ g \in Frames
               /\ loop.end = mmap[i].addr + mmap[i].len /\ mmap[i].addr <= loop.phys
    <3>1. /\ loop.phys % PAGE_SIZE = 0 /\ mmap[i].addr <= loop.phys
          /\ loop.end = mmap[i].addr + mmap[i].len
      BY <1>1, <2>3 DEF IInv, Marks
    <3>2. loop.phys = g * PAGE_SIZE
      BY <1>2, <1>3, <3>1, Multiple
    <3>3. (g + 1) * PAGE_SIZE = g * PAGE_SIZE + PAGE_SIZE /\ g + 1 \in Nat
      BY <1>3, TimesLess
    <3>4. loop'.phys % PAGE_SIZE = 0
      <4>1. loop'.phys = (g + 1) * PAGE_SIZE
        BY <1>8, <3>2, <3>3, Zenon
      <4>2. ((g + 1) * PAGE_SIZE) % PAGE_SIZE = 0
        BY <3>3, PageOf
      <4> QED
        BY <4>1, <4>2, Zenon
    <3>5. Low(i) <= g
      <4>1. mmap[i].addr <= g * PAGE_SIZE
        BY <3>1, <3>2, Zenon
      <4> QED
        BY <1>2, <1>3, <4>1, Whole
    <3>6. g < High(i)
      <4> DEFINE a == mmap[i].addr \div PAGE_SIZE
                 l == mmap[i].len \div PAGE_SIZE
      <4>1. /\ mmap[i].addr \in Nat /\ mmap[i].len \in Nat
            /\ mmap[i].addr % PAGE_SIZE = 0 /\ mmap[i].len % PAGE_SIZE = 0
        BY <1>2, <2>3, Memory DEF UsualMap
      <4>2. /\ a \in Nat /\ l \in Nat
            /\ mmap[i].addr = a * PAGE_SIZE /\ mmap[i].len = l * PAGE_SIZE
        BY <1>3, <4>1, Quotient, Multiple
      <4> HIDE DEF a, l
      <4>3. a * PAGE_SIZE + l * PAGE_SIZE = (a + l) * PAGE_SIZE /\ a + l \in Nat
        BY <4>2, PageOf
      <4>4. mmap[i].addr + mmap[i].len = (a + l) * PAGE_SIZE
        BY <4>2, <4>3, Zenon
      <4>5. g < a + l
        <5>1. g * PAGE_SIZE < (a + l) * PAGE_SIZE
          BY <1>1, <3>1, <3>2, <4>4, Zenon
        <5> QED
          BY <1>3, <4>3, <5>1, TimesLess
      <4>6. (g + 1) * PAGE_SIZE <= (a + l) * PAGE_SIZE
        <5>1. g + 1 <= a + l
          BY <1>3, <4>3, <4>5
        <5> QED
          BY <1>3, <3>3, <4>3, <5>1, TimesLess
      <4>7. (g + 1) * PAGE_SIZE <= mmap[i].addr + mmap[i].len
        BY <4>4, <4>6, Zenon
      <4> QED
        BY <1>2, <1>3, <4>7, Whole
    <3>7. g \in Frames
      <4>1. High(i) \in Nat /\ 0 .. High(i) \subseteq Frames
        BY <1>2, Whole
      <4> QED
        BY <1>3, <3>6, <4>1
    <3> QED
      BY <3>1, <3>2, <3>4, <3>5, <3>6, <3>7
  <2>4. ASSUME UsualMap, NEW e \in DOMAIN mmap, NEW f \in Frames
        PROVE  Marked(e, f)' <=> Marked(e, f) \/ (e = i /\ f = g)
    <3>1. f \in Nat
      BY LayoutAssumption
    <3>2. f * PAGE_SIZE < loop'.phys <=> f * PAGE_SIZE < loop.phys \/ f = g
      <4>1. loop.phys = g * PAGE_SIZE
        BY <2>3, <2>4
      <4>2. /\ f < g => f * PAGE_SIZE + PAGE_SIZE <= g * PAGE_SIZE
            /\ g < f => g * PAGE_SIZE + PAGE_SIZE <= f * PAGE_SIZE
            /\ f * PAGE_SIZE \in Nat /\ g * PAGE_SIZE \in Nat
        BY <1>3, <3>1, TimesLess
      <4>3. f < g \/ f = g \/ g < f
        BY <1>3, <3>1
      <4> DEFINE x == f * PAGE_SIZE
                 y == g * PAGE_SIZE
      <4>4. f = g => x = y
        OBVIOUS
      <4>5. /\ f < g => x + PAGE_SIZE <= y
            /\ g < f => y + PAGE_SIZE <= x
            /\ x \in Nat /\ y \in Nat /\ loop.phys = y /\ loop'.phys = y + PAGE_SIZE
        BY <1>8, <4>1, <4>2, Zenon
      <4> HIDE DEF x, y
      <4>6. x < loop'.phys <=> x < loop.phys \/ f = g
        BY <1>3, <4>3, <4>4, <4>5
      <4> QED
        BY <4>6 DEF x
    <3>3. Marked(e, f)' <=> /\ Low(e) <= f /\ f < High(e)
                            /\ e < i \/ (e = i /\ f * PAGE_SIZE < loop'.phys)
      BY <1>1, <2>1 DEF Marked
    <3>4. Marked(e, f) <=> /\ Low(e) <= f /\ f < High(e)
                           /\ e < i \/ (e = i /\ f * PAGE_SIZE < loop.phys)
      BY <1>1 DEF Marked
    <3>5. e = i /\ f = g => Low(e) <= f /\ f < High(e)
      BY <2>3, <2>4
    <3> QED
      BY <3>2, <3>3, <3>4, <3>5
  <2>5. ASSUME UsualMap, NEW e \in DOMAIN mmap PROVE ~Marked(e, g)
    <3>1. /\ loop.phys = g * PAGE_SIZE /\ Low(i) <= g /\ g < High(i)
      BY <2>3, <2>5
    <3>2. e < i /\ Low(e) <= g => ~(g < High(e))
      <4> SUFFICES ASSUME e < i, Low(e) <= g, g < High(e) PROVE FALSE
        OBVIOUS
      <4>1. mmap[e].addr + mmap[e].len <= mmap[i].addr
        BY <1>2, <2>5 DEF UsualMap
      <4>2. (g + 1) * PAGE_SIZE <= mmap[e].addr + mmap[e].len /\ mmap[i].addr <= g * PAGE_SIZE
        BY <1>2, <1>3, <3>1, Whole
      <4>3. (g + 1) * PAGE_SIZE = g * PAGE_SIZE + PAGE_SIZE /\ g * PAGE_SIZE \in Nat
        BY <1>3, TimesLess
      <4>4. mmap[e].addr + mmap[e].len \in Nat /\ mmap[i].addr \in Nat
        BY <1>2, Memory
      <4> QED
        BY <1>3, <4>1, <4>2, <4>3, <4>4
    <3>3. ~(g * PAGE_SIZE < loop.phys)
      BY <1>2, <3>1
    <3> QED
      BY <1>1, <3>2, <3>3 DEF Marked
  <2>6. UsualMap => PoolFrames = {f \in Frames \ UsedFrames :
                       /\ Turn <= f
                       /\ \E e \in DOMAIN mmap : mmap[e].type = "available" /\ Marked(e, f)}
    BY <1>1, <1>2 DEF IInv, Marks
  <2>7. ASSUME UsualMap
        PROVE  PoolFrames' = {f \in Frames \ UsedFrames :
                       /\ Turn <= f
                       /\ \E e \in DOMAIN mmap : mmap[e].type = "available" /\ Marked(e, f)'}
    <3>1. ASSUME NEW f \in Frames, f # g
          PROVE  f \in PoolFrames' <=>
                   /\ f \notin UsedFrames /\ Turn <= f
                   /\ \E e \in DOMAIN mmap : mmap[e].type = "available" /\ Marked(e, f)'
      <4>1. f \in PoolFrames' <=> f \in PoolFrames
        BY <1>11, <3>1 DEF PoolFrames
      <4>2. \A e \in DOMAIN mmap : Marked(e, f)' <=> Marked(e, f)
        BY <2>4, <2>7, <3>1
      <4> QED
        BY <2>6, <2>7, <4>1, <4>2
    <3>2. g \in PoolFrames' <=>
            /\ g \notin UsedFrames /\ Turn <= g
            /\ \E e \in DOMAIN mmap : mmap[e].type = "available" /\ Marked(e, g)'
      <4>1. g \in Frames /\ loop.phys = g * PAGE_SIZE
        BY <2>3, <2>7
      <4>2. g \in PoolFrames' <=> mmap[i].type = "available" /\ ~InUse(loop.phys)
        <5>1. g \in PoolFrames' <=> pgdb'[g].type = "available" /\ pgdb'[g].ref_count < 0
          BY <4>1 DEF PoolFrames
        <5>2. ref < 0 <=> mmap[i].type = "available" /\ ~InUse(loop.phys)
          BY DEF ref
        <5> QED
          BY <1>11, <4>1, <5>1, <5>2
      <4>3. InUse(loop.phys) <=> g < Turn \/ g \in UsedFrames
        <5>1. loop.phys < curr_avail <=> g < Turn
          <6>1. Turn \in Nat /\ curr_avail = Turn * PAGE_SIZE
            BY <1>3, Quotient DEF IInv, Region, Turn
          <6>2. /\ g < Turn => g * PAGE_SIZE + PAGE_SIZE <= Turn * PAGE_SIZE
                /\ g * PAGE_SIZE < Turn * PAGE_SIZE => g < Turn
                /\ g * PAGE_SIZE \in Nat /\ Turn * PAGE_SIZE \in Nat
            BY <1>3, <6>1, TimesLess
          <6>3. g < Turn => g * PAGE_SIZE < Turn * PAGE_SIZE
            BY <1>3, <6>2
          <6> QED
            BY <4>1, <6>1, <6>2, <6>3, Zenon
        <5>2. addr_is_in_used_range(loop.phys) <=> g \in UsedFrames
          BY <4>1 DEF UsedFrames
        <5> QED
          BY <5>1, <5>2 DEF InUse
      <4>4. ASSUME NEW e \in DOMAIN mmap PROVE Marked(e, g)' <=> e = i
        <5>1. Marked(e, g)' <=> Marked(e, g) \/ (e = i /\ g = g)
          <6>1. \A f \in Frames : Marked(e, f)' <=> Marked(e, f) \/ (e = i /\ f = g)
            BY <2>4, <2>7
          <6> QED
            BY <4>1, <6>1, Zenon
        <5>2. ~Marked(e, g)
          BY <2>5, <2>7
        <5> QED
          BY <5>1, <5>2
      <4>5. ~(g < Turn) <=> Turn <= g
        <5>1. Turn \in Nat
          BY <1>3, Quotient DEF IInv, Region, Turn
        <5> QED
          BY <1>3, <5>1
      <4> QED
        BY <1>2, <4>2, <4>3, <4>4, <4>5
    <3>3. PoolFrames' \subseteq Frames
      BY DEF PoolFrames
    <3> DEFINE Free(f) == /\ f \notin UsedFrames /\ Turn <= f
                          /\ \E e \in DOMAIN mmap : mmap[e].type = "available" /\ Marked(e, f)'
    <3>4. \A f \in Frames : f \in PoolFrames' <=> Free(f)
      <4>1. ASSUME NEW f \in Frames PROVE f \in PoolFrames' <=> Free(f)
        <5>1. CASE f = g
          BY <3>2, <5>1, Zenon
        <5>2. CASE f # g
          BY <3>1, <5>2, Zenon
        <5> QED
          BY <5>1, <5>2
      <4> QED
        BY <4>1
    <3>5. PoolFrames' = {f \in Frames : Free(f)}
      <4> HIDE DEF Free
      <4> QED
        BY <3>3, <3>4
    <3> QED
      BY <3>5
  <2>8. UsualMap' => PoolFrames' = {f \in Frames \ UsedFrames' :
                       /\ Turn' <= f
                       /\ \E e \in DOMAIN mmap' : mmap'[e].type = "available" /\ Marked(e, f)'}
    BY <1>4, <2>1, <2>7
  <2>9. loop'.phys \in Nat /\ loop'.phys >= loop.phys
    BY <1>2, <1>3, <1>8
  <2>10. UsualMap' => /\ loop'.phys % PAGE_SIZE = 0 /\ mmap'[i'].addr <= loop'.phys
                      /\ loop'.end = mmap'[i'].addr + mmap'[i'].len
    <3>1. mmap[i].addr \in Nat
      BY <1>2, Memory
    <3> QED
      BY <1>1, <1>2, <1>8, <2>1, <2>3, <2>9, <3>1
  <2> QED
    BY <1>1, <1>2, <2>1, <2>2, <2>8, <2>9, <2>10 DEF IInv, Marks
<1> QED
  BY <1>4, <1>5, <1>10, <1>12 DEF IInv

-----------------------------------------------------------------------------
(* Where boot begins, and every step. *)
LEMMA InitIInv == ASSUME Init PROVE IInv
<1>1. /\ machine \in Machines
      /\ curr_entry = 0 /\ curr_entry_idx = 0 /\ curr_avail = 0 /\ curr_end = 0
      /\ table = [f \in Frames |-> Junk] /\ boot_kern_pgtable = 0
      /\ pc = "init" /\ i = 1
      /\ loop = [phys |-> 0, end |-> 0, virt |-> 0, rw |-> FALSE, next |-> "init"]
      /\ walk = [va |-> 0, frame |-> 0, rw |-> FALSE, back |-> "init", level |-> 1,
                 table |-> 0, index |-> [l \in 1..4 |-> 0]]
      /\ physmem_end = 0 /\ pgdb_page_nr = 0
      /\ pgdb = [f \in Frames |-> [type |-> "non_existed", ref_count |-> 0]]
      /\ loaded = FALSE /\ ret = 0 /\ handed_out = <<>>
      /\ mapped = [v \in {} |-> None]
  BY DEF Init
<1>2. 0 \in Frames /\ PAGE_SIZE \in Nat \ {0} /\ PT_ENTRIES \in Nat \ {0} /\ 0 \in VirtPages
  <2>1. DIRECT_MAP_END \in VirtPages
    BY LayoutAssumption
  <2> DEFINE T == PT_ENTRIES * PT_ENTRIES * PT_ENTRIES * PT_ENTRIES - 1
  <2>2. VirtPages = 0 .. T /\ T \in Int
    <3>1. PT_ENTRIES \in Nat
      BY Positive
    <3> QED
      BY <3>1, SMT DEF VirtPages
  <2> HIDE DEF T
  <2>3. 0 \in VirtPages
    BY <2>1, <2>2
  <2> QED
    BY <2>3, Positive, LayoutAssumption
<1>3. \A d \in Nat \ {0} : 0 \div d = 0 /\ 0 % d = 0
  <2>1. ASSUME NEW d \in Nat \ {0} PROVE 0 \div d = 0 /\ 0 % d = 0
    <3>1. 0 \in 0 .. d - 1 /\ 0 * d = 0
      OBVIOUS
    <3>2. (0 * d) \div d = 0 /\ (0 * d) % d = 0
      BY <3>1, Aligned
    <3> QED
      BY <3>1, <3>2, Zenon
  <2> QED
    BY <2>1
<1>4. mapped = [v \in {} |-> None] /\ DOMAIN mapped = {}
  BY <1>1
<1>5. RestTypes
  <2> DEFINE d == [type |-> "non_existed", ref_count |-> 0]
  <2>1. "non_existed" \in PageTypes
    BY DEF PageTypes
  <2>2. d \in [type : PageTypes, ref_count : {-1, 0}]
    BY <2>1
  <2>3. pgdb = [f \in Frames |-> d]
    BY <1>1
  <2> HIDE DEF d
  <2>4. pgdb \in [Frames -> [type : PageTypes, ref_count : {-1, 0}]]
    BY <2>2, <2>3
  <2> QED
    BY <1>1, <2>4 DEF RestTypes
<1>6. LoopTypes
  BY <1>1 DEF LoopTypes
<1>7. TableTypes
  <2>1. Junk \in [Index -> Entries \cup {None}]
    BY <1>2 DEF Junk, Index, Entries, Entry
  <2>2. table \in [Frames -> [Index -> Entries \cup {None}]]
    BY <1>1, <2>1
  <2> QED
    BY <1>1, <1>2, <1>4, <2>2 DEF TableTypes
<1>8. WalkTypes
  <2>1. ASSUME NEW l \in 1 .. 4 PROVE PT_ENTRY(0, l) = 0
    <3>1. Power(l) \in Nat \ {0}
      BY Powers
    <3>2. 0 \div Power(l) = 0 /\ 0 % PT_ENTRIES = 0
      BY <1>2, <1>3, <3>1
    <3> QED
      BY <3>2, Zenon DEF PT_ENTRY
  <2>2. 0 \in Index
    BY <1>2 DEF Index
  <2>3. walk \in [va : VirtPages, frame : Frames, rw : BOOLEAN, level : 1 .. 4, table : Frames,
                  back : {"init", "region", "bss", "pgdb"}, index : [1 .. 4 -> Index]]
    BY <1>1, <1>2, <2>2
  <2>4. walk.va = 0 /\ \A l \in 1 .. 4 : walk.index[l] = 0
    BY <1>1
  <2> QED
    BY <2>1, <2>3, <2>4 DEF WalkTypes
<1>9. Ranges
  <2>1. 0 \div PAGE_SIZE = 0
    BY <1>2, <1>3
  <2>2. 0 .. 0 \subseteq Frames
    BY <1>2
  <2> QED
    BY <1>1, <2>1, <2>2, Zenon DEF Ranges, Looping
<1>10. Region
  <2>1. Turn = 0 /\ 0 * PAGE_SIZE = 0
    BY <1>1, <1>2, <1>3 DEF Turn
  <2>2. 0 \in 0 .. Len(mmap)
    BY <1>1, Memory
  <2> QED
    BY <1>1, <2>1, <2>2 DEF Region
<1>11. Handed
  <2>1. Passed = {}
    BY <1>1 DEF Passed
  <2> QED
    BY <1>1, <2>1 DEF Handed, IsInjective, ToSet
<1>12. Tree
  BY <1>1, <1>4 DEF Tree, Unrooted
<1>13. Mapping /\ Database
  BY <1>1 DEF Mapping, InEntry, Looping, Database, Filling
<1>14. Marks
  <2>1. ImageFrames \subseteq Frames
    BY DEF ImageFrames, FramesOf
  <2> QED
    BY <1>1, <2>1 DEF Marks
<1> QED
  BY <1>5, <1>6, <1>7, <1>8, <1>9, <1>10, <1>11, <1>12, <1>13, <1>14 DEF IInv, Types

LEMMA NextIInv == ASSUME IInv, [Next]_vars PROVE IInv'
<1>1. CASE UNCHANGED vars
  BY <1>1, StoppedKeeps
<1>2. CASE Stopped
  BY <1>2, StoppedKeeps DEF Stopped
<1>3. CASE FindTags
  BY <1>3, FindTagsKeeps
<1>4. CASE RootTable
  BY <1>4, RootTableKeeps
<1>5. CASE Section
  BY <1>5, SectionKeeps
<1>6. CASE UnknownSection
  BY <1>6, UnknownSectionKeeps
<1>7. CASE BssPage
  BY <1>7, BssPageKeeps
<1>8. CASE BssEnds
  BY <1>8, BssEndsKeeps
<1>9. CASE FrameBuffer
  BY <1>9, FrameBufferKeeps
<1>10. CASE DirectMap
  BY <1>10, DirectMapKeeps
<1>11. CASE PhysmemEnds
  BY <1>11, PhysmemEndsKeeps
<1>12. CASE DatabasePage
  BY <1>12, DatabasePageKeeps
<1>13. CASE LoadTable
  BY <1>13, LoadTableKeeps
<1>14. CASE RegionPage
  BY <1>14, RegionPageKeeps
<1>15. CASE RegionEnds
  BY <1>15, RegionEndsKeeps
<1>16. CASE WalkDown
  BY <1>16, WalkDownInv
<1>17. CASE NewTable
  BY <1>17, NewTableInv
<1>18. CASE WriteEntry
  BY <1>18, WriteEntryKeeps
<1>19. CASE SkipUsed
  BY <1>19, SkipUsedKeeps
<1>20. CASE OutOfMemory
  BY <1>20, OutOfMemoryKeeps
<1>21. CASE MarkEntry
  BY <1>21, MarkEntryKeeps
<1>22. CASE MarkPage
  BY <1>22, MarkPageKeeps
<1>23. CASE MarksEnd
  BY <1>23, MarksEndKeeps
<1>24. CASE EnterMain
  BY <1>24, EnterMainKeeps
<1>25. CASE Fault
  BY <1>25, FaultKeeps
<1> QED
  BY <1>1, <1>2, <1>3, <1>4, <1>5, <1>6, <1>7, <1>8, <1>9, <1>10, <1>11, <1>12, <1>13, <1>14,
     <1>15, <1>16, <1>17, <1>18, <1>19, <1>20, <1>21, <1>22, <1>23, <1>24, <1>25 DEF Next

(* The invariant the theorems below follow from. *)
THEOREM Invariance == Spec => []IInv
<1> QED
  BY InitIInv, NextIInv, PTL DEF Spec

(* Every variable keeps its type: the entries of the tables are empty or   *)
(* lead to a frame, the allocator stays within the memory map, and         *)
(* boot_mm_pgtable_init returns one of the errors it can return.           *)
THEOREM BootTypes == Spec => []TypeOK
<1>1. IInv => TypeOK
  <2> SUFFICES ASSUME IInv PROVE TypeOK
    OBVIOUS
  <2>1. machine \in Machines /\ ret \in {0, ENOMEM, EFAULT}
    BY DEF IInv, Types, RestTypes
  <2>2. /\ curr_entry \in 0 .. Len(mmap) /\ curr_entry_idx \in 0 .. Len(mmap)
        /\ {curr_avail, curr_end} \subseteq Nat
    <3>1. Len(mmap) \in Nat
      BY <2>1, Memory
    <3> QED
      BY <3>1 DEF IInv, Region
  <2>3. /\ \A f \in Frames : \A x \in 0 .. PT_ENTRIES - 1 :
             table[f][x] = None \/ table[f][x] \in [frame : Frames, rw : BOOLEAN]
        /\ boot_kern_pgtable \in Frames
    <3>1. table \in [Frames -> [Index -> Entries \cup {None}]] /\ boot_kern_pgtable \in Frames
      BY DEF IInv, Types, TableTypes
    <3>2. \A f \in Frames : \A x \in Index : table[f][x] \in Entries \cup {None}
      BY <3>1
    <3> QED
      BY <3>1, <3>2 DEF Index, Entries
  <2>4. walk.level \in 1..4
    BY DEF IInv, Types, WalkTypes
  <2>5. ToSet(handed_out) \subseteq Frames
    BY HandedFrames DEF IInv
  <2> QED
    BY <2>1, <2>2, <2>3, <2>4, <2>5 DEF TypeOK
<1> QED
  BY <1>1, Invariance, PTL

(* On every memory map: boot_mm_page_alloc returns no page twice, and only *)
(* pages that lie wholly in available memory and that nobody else uses.    *)
THEOREM PagesFresh == Spec => []FreshPages
<1>1. IInv => FreshPages
  BY HandedFresh DEF IInv, Types, RestTypes
<1> QED
  BY <1>1, Invariance, PTL

(* For tables of every size: each address is translated to what it was     *)
(* last mapped to, whatever boot_mm_pgtable_map did for others.            *)
THEOREM AddressesTranslated == Spec => []Translates
<1>1. IInv => Translates
  BY DEF IInv, Tree, Unrooted, Rooted, Translates
<1> QED
  BY <1>1, Invariance, PTL

(* However the sections of the kernel are laid out one after the other: no *)
(* frame of the image but that of the multiboot header is handed out or    *)
(* given to the page pool, though addr_is_in_used_range looks for each     *)
(* section one page too high.                                              *)
THEOREM ImageUntouched == Spec => []ImageKept
<1>1. IInv => ImageKept
  <2> SUFFICES ASSUME IInv, NEW f \in ImageFrames
               PROVE  f \notin ToSet(handed_out) /\ f \notin PoolFrames
    BY DEF ImageKept
  <2>1. f \in Frames /\ f \in Nat
    BY LayoutAssumption DEF ImageFrames, FramesOf
  <2>2. f * PAGE_SIZE \in Nat /\ (f * PAGE_SIZE) \div PAGE_SIZE = f
    BY <2>1, PageOf
  <2>3. addr_is_in_used_range(f * PAGE_SIZE)
    BY <2>2, ImageUsed DEF IInv, Types, RestTypes
  <2>4. f \in UsedFrames
    BY <2>1, <2>3 DEF UsedFrames
  <2>5. pgdb[f].ref_count = 0
    BY DEF IInv, Marks
  <2> QED
    BY <2>4, <2>5 DEF IInv, Handed, PoolFrames
<1> QED
  BY <1>1, Invariance, PTL

(* Entries in ascending order: what the allocator has not passed is what   *)
(* lies from its turn on.                                                  *)
LEMMA PassedBelow ==
  ASSUME machine \in Machines, Region, UsualMap,
         NEW e \in DOMAIN mmap, mmap[e].type = "available",
         NEW f \in Frames, Low(e) <= f, f < High(e)
  PROVE  f \in Passed <=> f < Turn
<1>1. PAGE_SIZE \in Nat \ {0} /\ f \in Nat
  BY Positive, LayoutAssumption
<1>2. /\ Len(mmap) \in Nat /\ DOMAIN mmap = 1 .. Len(mmap)
      /\ curr_entry_idx \in 0 .. Len(mmap) /\ curr_avail \in Nat /\ Turn \in Nat
  BY <1>1, Memory, Quotient DEF Region, Turn
<1>3. /\ f * PAGE_SIZE \in Nat /\ (f + 1) * PAGE_SIZE = f * PAGE_SIZE + PAGE_SIZE
  BY <1>1, TimesLess
<1>4. curr_entry_idx # 0 =>
        /\ curr_entry_idx \in DOMAIN mmap /\ mmap[curr_entry_idx].type = "available"
        /\ Low(curr_entry_idx) < Turn /\ Turn <= High(curr_entry_idx)
  BY <1>2 DEF Region
<1>5. ASSUME NEW d \in DOMAIN mmap, NEW c \in DOMAIN mmap, c < d,
             NEW x \in Nat, NEW y \in Nat, x < High(c), Low(d) <= y
      PROVE  x < y
  <2>1. mmap[c].addr + mmap[c].len <= mmap[d].addr
    BY <1>5 DEF UsualMap
  <2>2. (x + 1) * PAGE_SIZE <= mmap[c].addr + mmap[c].len /\ mmap[d].addr <= y * PAGE_SIZE
    BY <1>5, Whole
  <2>3. /\ (x + 1) * PAGE_SIZE = x * PAGE_SIZE + PAGE_SIZE
        /\ x * PAGE_SIZE \in Nat /\ y * PAGE_SIZE \in Nat
    BY <1>1, TimesLess
  <2>4. mmap[c].addr + mmap[c].len \in Nat /\ mmap[d].addr \in Nat
    BY Memory
  <2>5. x * PAGE_SIZE < y * PAGE_SIZE
    BY <1>1, <2>1, <2>2, <2>3, <2>4
  <2> QED
    BY <1>1, <2>5, TimesLess
<1>6. \A d \in DOMAIN mmap : Low(d) \in Nat /\ High(d) \in Nat
  BY Whole
<1> HIDE DEF Low, High, Turn
<1>7. ASSUME f \in Passed PROVE f < Turn
  <2>1. PICK d \in 1 .. curr_entry_idx :
          /\ mmap[d].type = "available" /\ Low(d) <= f /\ f < High(d)
          /\ d = curr_entry_idx => f < Turn
    BY <1>7 DEF Passed
  <2>2. d \in DOMAIN mmap /\ curr_entry_idx # 0 /\ (d = curr_entry_idx \/ d < curr_entry_idx)
    BY <1>2
  <2>3. CASE d < curr_entry_idx
    <3>1. f < Low(curr_entry_idx)
      <4>1. Low(curr_entry_idx) \in Nat /\ Low(curr_entry_idx) <= Low(curr_entry_idx)
        BY <1>4, <1>6, <2>2
      <4> QED
        BY <1>1, <1>4, <1>5, <2>1, <2>2, <2>3, <4>1
    <3> QED
      BY <1>1, <1>2, <1>4, <1>6, <2>2, <3>1
  <2> QED
    BY <2>1, <2>2, <2>3
<1>8. ASSUME f < Turn PROVE f \in Passed
  <2>1. curr_entry_idx # 0
    <3> SUFFICES ASSUME curr_entry_idx = 0 PROVE FALSE
      OBVIOUS
    <3>1. Turn = 0
      <4>1. curr_avail = 0 /\ 0 * PAGE_SIZE = 0 /\ curr_avail = Turn * PAGE_SIZE
        BY <1>1 DEF Region
      <4>2. Turn # 0 => 0 * PAGE_SIZE + PAGE_SIZE <= Turn * PAGE_SIZE
        <5>1. Turn # 0 => 0 < Turn /\ 0 \in Nat
          BY <1>2
        <5> QED
          BY <1>1, <1>2, <5>1, TimesLess
      <4> QED
        BY <1>1, <4>1, <4>2
    <3> QED
      BY <1>1, <1>8, <3>1
  <2>2. ~(curr_entry_idx < e)
    <3> SUFFICES ASSUME curr_entry_idx < e PROVE FALSE
      OBVIOUS
    <3>1. Turn - 1 \in Nat /\ Turn - 1 < High(curr_entry_idx)
      BY <1>1, <1>2, <1>4, <1>6, <1>8, <2>1
    <3>2. Turn - 1 < f
      BY <1>1, <1>4, <1>5, <2>1, <3>1
    <3> QED
      BY <1>1, <1>2, <1>8, <3>2
  <2>3. e \in 1 .. curr_entry_idx
    BY <1>2, <2>2
  <2> QED
    BY <1>8, <2>3 DEF Passed
<1> QED
  BY <1>7, <1>8

(* On every memory map of whole frames in ascending order: when boot       *)
(* succeeds, the page pool is given exactly the frames of available memory *)
(* that boot does not use.                                                 *)
THEOREM PoolComplete == Spec => []PoolGetsTheRest
<1>1. IInv => PoolGetsTheRest
  <2> SUFFICES ASSUME IInv, pc = "main", loaded, UsualMap
               PROVE  PoolFrames = Available \ (ToSet(handed_out) \cup UsedFrames)
    BY DEF PoolGetsTheRest
  <2>1. machine \in Machines /\ Region /\ ToSet(handed_out) = Passed \ UsedFrames /\ i \in Nat
    BY DEF IInv, Types, RestTypes, LoopTypes, Handed
  <2>2. i > Len(mmap) /\ Len(mmap) \in Nat /\ DOMAIN mmap = 1 .. Len(mmap)
    BY <2>1, Memory DEF IInv, Marks
  <2>3. \A e \in DOMAIN mmap, f \in Frames : Marked(e, f) <=> Low(e) <= f /\ f < High(e)
    BY <2>1, <2>2 DEF Marked
  <2>4. PoolFrames = {f \in Frames \ UsedFrames :
                       /\ Turn <= f
                       /\ \E e \in DOMAIN mmap : mmap[e].type = "available" /\ Marked(e, f)}
    BY DEF IInv, Marks
  <2>5. \A f : f \in Available <=>
          f \in Frames /\ \E e \in DOMAIN mmap : /\ mmap[e].type = "available"
                                                 /\ Low(e) <= f /\ f < High(e)
    <3>1. \A e \in DOMAIN mmap : WholeFramesOf(mmap[e].addr, mmap[e].addr + mmap[e].len) =
                                   {f \in Frames : Low(e) <= f /\ f < High(e)}
      BY <2>1, Whole
    <3>2. \A f : f \in Available <=>
            \E e \in DOMAIN mmap : /\ mmap[e].type = "available"
                                   /\ f \in WholeFramesOf(mmap[e].addr, mmap[e].addr + mmap[e].len)
      BY DEF Available
    <3> QED
      BY <3>1, <3>2
  <2>6. Turn \in Nat
    BY Positive, Quotient DEF IInv, Region, Turn
  <2>7. \A f \in Available : f \in Passed <=> ~(Turn <= f)
    <3> SUFFICES ASSUME NEW f \in Available PROVE f \in Passed <=> ~(Turn <= f)
      OBVIOUS
    <3>1. f \in Passed <=> f < Turn
      BY <2>1, <2>5, PassedBelow
    <3>2. f \in Nat
      BY <2>5, LayoutAssumption
    <3> QED
      BY <2>6, <3>1, <3>2
  <2> QED
    BY <2>1, <2>3, <2>4, <2>5, <2>7
<1> QED
  BY <1>1, Invariance, PTL

-----------------------------------------------------------------------------
(* The descriptors that boot_mm_page_database_init writes.  The end of map *)
(* entry e, as boot_mm_pgtable_init reckons it.                            *)
EndOf(e) == PAGE_MASKED(mmap[e].addr) + mmap[e].len

InPhysmem == pc = "physmem" \/ (Looping /\ loop.next = "physmem")

FreeAvailable == \A f \in Frames : pgdb[f].ref_count < 0 => pgdb[f].type = "available"

Fits ==
  /\ InPhysmem => \A e \in DOMAIN mmap : e < i => EndOf(e) <= physmem_end
  /\ Filling \/ loaded =>
       /\ \A e \in DOMAIN mmap : EndOf(e) <= physmem_end
       /\ pgdb_page_nr = physmem_end \div PAGE_SIZE
  /\ pc = "marks" =>
       /\ loop.end = mmap[i].addr + mmap[i].len
       /\ loop.phys % PAGE_SIZE = mmap[i].addr % PAGE_SIZE
  /\ \A f \in Frames : pgdb[f].type # "non_existed" =>
       \E e \in DOMAIN mmap : f * PAGE_SIZE < EndOf(e)
  /\ FreeAvailable
  /\ pc = "fault" /\ loaded => pgdb_page_nr % PGDB_PG_PAGE_NR = 0 /\ PartialRegion

LEMMA Parts ==
  ASSUME NEW n \in Nat
  PROVE  /\ n = (n \div PAGE_SIZE) * PAGE_SIZE + (n % PAGE_SIZE)
         /\ n \div PAGE_SIZE \in Nat /\ (n \div PAGE_SIZE) * PAGE_SIZE \in Nat
         /\ n % PAGE_SIZE \in 0 .. PAGE_SIZE - 1
<1> DEFINE q == n \div PAGE_SIZE
<1>1. PAGE_SIZE \in Nat \ {0}
  BY Positive
<1>2. q \in Nat /\ n % PAGE_SIZE \in 0 .. PAGE_SIZE - 1 /\ n = q * PAGE_SIZE + (n % PAGE_SIZE)
  BY <1>1, Quotient
<1> HIDE DEF q
<1>3. q * PAGE_SIZE \in Nat
  BY <1>1, <1>2, TimesLess
<1> QED
  BY <1>2, <1>3 DEF q

LEMMA NextPage ==
  ASSUME NEW n \in Nat
  PROVE  (n + PAGE_SIZE) % PAGE_SIZE = n % PAGE_SIZE
<1> DEFINE q == n \div PAGE_SIZE
           r == n % PAGE_SIZE
<1>1. /\ PAGE_SIZE \in Nat \ {0} /\ q \in Nat /\ r \in 0 .. PAGE_SIZE - 1
      /\ n = q * PAGE_SIZE + r /\ q * PAGE_SIZE \in Nat
  BY Positive, Parts
<1> HIDE DEF q, r
<1>2. q + 1 \in Nat /\ (q + 1) * PAGE_SIZE = q * PAGE_SIZE + PAGE_SIZE
  BY <1>1, TimesLess
<1>3. n + PAGE_SIZE = (q + 1) * PAGE_SIZE + r
  BY <1>1, <1>2
<1>4. ((q + 1) * PAGE_SIZE + r) % PAGE_SIZE = r
  BY <1>1, <1>2, Aligned
<1> QED
  BY <1>3, <1>4 DEF r

LEMMA EndsLater ==
  ASSUME machine \in Machines
  PROVE  \A e \in DOMAIN mmap : EndOf(e) \in Nat
<1> SUFFICES ASSUME NEW e \in DOMAIN mmap PROVE EndOf(e) \in Nat
  OBVIOUS
<1>1. mmap[e].addr \in Nat /\ mmap[e].len \in Nat
  BY Memory
<1>2. PAGE_MASKED(mmap[e].addr) \in Nat
  BY <1>1, Parts DEF PAGE_MASKED
<1> QED
  BY <1>1, <1>2 DEF EndOf

(* A step that only goes on with the loop it is in, or leaves it.          *)
LEMMA FitsStays ==
  ASSUME machine \in Machines, Fits,
         UNCHANGED <<machine, physmem_end, pgdb_page_nr, pgdb, loaded>>,
         InPhysmem' => i' = 1 \/ (InPhysmem /\ i' = i),
         Filling' => Filling,
         pc' \notin {"marks", "fault"}
  PROVE  Fits'
<1>1. mmap' = mmap /\ \A e : EndOf(e)' = EndOf(e)
  BY DEF mmap, EndOf, PAGE_MASKED
<1>2. \A e \in DOMAIN mmap : ~(e < 1)
  BY Memory
<1>3. (InPhysmem => \A e \in DOMAIN mmap : e < i => EndOf(e) <= physmem_end)'
  BY <1>1, <1>2 DEF Fits
<1>4. (Filling \/ loaded =>
         /\ \A e \in DOMAIN mmap : EndOf(e) <= physmem_end
         /\ pgdb_page_nr = physmem_end \div PAGE_SIZE)'
  BY <1>1 DEF Fits
<1>5. (\A f \in Frames : pgdb[f].type # "non_existed" =>
         \E e \in DOMAIN mmap : f * PAGE_SIZE < EndOf(e))'
  BY <1>1 DEF Fits
<1>6. FreeAvailable'
  BY DEF Fits, FreeAvailable
<1> QED
  BY <1>3, <1>4, <1>5, <1>6 DEF Fits

(* What a step may do to where boot is, when it does not count memory, end *)
(* the counting, load the table or mark a page.                            *)
LEMMA GoesOn ==
  ASSUME IInv,
         \/ FindTags \/ RootTable \/ Section \/ UnknownSection \/ BssPage \/ BssEnds
         \/ FrameBuffer \/ DatabasePage \/ RegionPage \/ RegionEnds \/ WalkDown \/ NewTable
         \/ WriteEntry \/ SkipUsed \/ OutOfMemory \/ MarksEnd \/ EnterMain
  PROVE  /\ UNCHANGED <<machine, physmem_end, pgdb_page_nr, pgdb, loaded>>
         /\ InPhysmem' => i' = 1 \/ (InPhysmem /\ i' = i)
         /\ Filling' => Filling
         /\ pc' \notin {"marks", "fault"}
<1> USE DEF InPhysmem, Looping, Filling
<1>1. CASE FindTags \/ RootTable \/ UnknownSection
  BY <1>1 DEF FindTags, RootTable, UnknownSection
<1>2. CASE Section
  BY <1>2 DEF Section, MapRegion
<1>3. CASE BssPage
  BY <1>3 DEF BssPage, boot_mm_pgtable_map
<1>4. CASE BssEnds
  BY <1>4 DEF BssEnds, IInv, Ranges
<1>5. CASE FrameBuffer
  BY <1>5 DEF FrameBuffer, MapRegion
<1>6. CASE DatabasePage
  BY <1>6 DEF DatabasePage, boot_mm_pgtable_map
<1>7. CASE RegionPage
  <2>1. loop' = [loop EXCEPT !.phys = @ + PAGE_SIZE, !.virt = @ + 1]
    BY <1>7 DEF RegionPage
  <2>2. loop \in [phys : Int, end : Int, virt : Int, rw : BOOLEAN, next : {"init", "elf", "physmem"}]
    BY DEF IInv, Types, LoopTypes
  <2>3. loop'.next = loop.next
    BY <2>1, <2>2
  <2> QED
    BY <1>7, <2>3 DEF RegionPage, boot_mm_pgtable_map
<1>8. CASE RegionEnds
  BY <1>8 DEF RegionEnds, IInv, Ranges
<1>9. CASE WalkDown \/ NewTable
  <2>1. pc = "map" /\ pc' = pc /\ i' = i /\ loop' = loop
        /\ UNCHANGED <<machine, physmem_end, pgdb_page_nr, pgdb, loaded>>
    BY <1>9 DEF WalkDown, NewTable
  <2>2. walk'.back = walk.back
    <3>1. walk \in [va : VirtPages, frame : Frames, rw : BOOLEAN, level : 1 .. 4, table : Frames,
                    back : {"init", "region", "bss", "pgdb"}, index : [1 .. 4 -> Index]]
      BY DEF IInv, Types, WalkTypes
    <3>2. \E g : walk' = [walk EXCEPT !.level = @ - 1, !.table = g]
      BY <1>9 DEF WalkDown, NewTable
    <3> QED
      BY <3>1, <3>2
  <2> QED
    BY <2>1, <2>2
<1>10. CASE WriteEntry
  <2>1. walk.back \in {"init", "region", "bss", "pgdb"}
    BY DEF IInv, Types, WalkTypes
  <2>2. walk.back # "init"
    BY <1>10 DEF WriteEntry, IInv, Ranges
  <2> QED
    BY <1>10, <2>1, <2>2 DEF WriteEntry
<1>11. CASE SkipUsed
  BY <1>11 DEF SkipUsed, Allocating
<1>12. CASE OutOfMemory
  BY <1>12 DEF OutOfMemory
<1>13. CASE MarksEnd
  BY <1>13 DEF MarksEnd
<1>14. CASE EnterMain
  BY <1>14 DEF EnterMain
<1> QED
  BY <1>1, <1>2, <1>3, <1>4, <1>5, <1>6, <1>7, <1>8, <1>9, <1>10, <1>11, <1>12, <1>13, <1>14

(* physmem_end is raised to the end of each map entry.                     *)
LEMMA DirectMapFits == ASSUME IInv, Fits, DirectMap PROVE Fits'
<1>1. /\ pc = "physmem" /\ i <= Len(mmap) /\ i' = i + 1 /\ pc' = "region"
      /\ physmem_end' = IF EndOf(i) > physmem_end THEN EndOf(i) ELSE physmem_end
      /\ UNCHANGED <<machine, pgdb_page_nr, pgdb, loaded>>
  BY DEF DirectMap, MapRegion, EndOf
<1>2. mmap' = mmap /\ \A e : EndOf(e)' = EndOf(e)
  BY <1>1 DEF mmap, EndOf, PAGE_MASKED
<1>3. /\ i \in DOMAIN mmap /\ DOMAIN mmap \subseteq Nat /\ physmem_end \in Nat
      /\ machine \in Machines
  BY <1>1, Memory DEF IInv, Ranges, Types, RestTypes, LoopTypes
<1>4. \A e \in DOMAIN mmap : EndOf(e) \in Nat
  BY <1>3, EndsLater
<1>5. (InPhysmem => \A e \in DOMAIN mmap : e < i => EndOf(e) <= physmem_end)'
  <2> SUFFICES ASSUME NEW e \in DOMAIN mmap, e < i + 1 PROVE EndOf(e) <= physmem_end'
    BY <1>1, <1>2
  <2>1. CASE e = i
    BY <1>1, <1>3, <1>4, <2>1
  <2>2. CASE e < i
    <3>1. EndOf(e) <= physmem_end
      BY <1>1, <2>2 DEF Fits, InPhysmem
    <3> QED
      BY <1>1, <1>3, <1>4, <3>1
  <2> QED
    BY <1>3, <2>1, <2>2
<1>6. ~Filling' /\ ~loaded' /\ pc' # "marks"
  BY <1>1, Unloaded DEF Filling, IInv
<1>7. (\A f \in Frames : pgdb[f].type # "non_existed" =>
         \E e \in DOMAIN mmap : f * PAGE_SIZE < EndOf(e))'
  BY <1>1, <1>2 DEF Fits
<1>8. FreeAvailable'
  BY <1>1 DEF Fits, FreeAvailable
<1> QED
  BY <1>5, <1>6, <1>7, <1>8 DEF Fits

LEMMA PhysmemEndsFits == ASSUME IInv, Fits, PhysmemEnds PROVE Fits'
<1>1. /\ pc = "physmem" /\ i > Len(mmap) /\ pc' = "pgdb"
      /\ pgdb_page_nr' = physmem_end \div PAGE_SIZE
      /\ UNCHANGED <<machine, physmem_end, pgdb, loaded>>
  BY DEF PhysmemEnds
<1>2. mmap' = mmap /\ \A e : EndOf(e)' = EndOf(e)
  BY <1>1 DEF mmap, EndOf, PAGE_MASKED
<1>3. ~InPhysmem' /\ pc' # "marks"
  BY <1>1 DEF InPhysmem, Looping
<1>4. \A e \in DOMAIN mmap : e < i
  BY <1>1, Memory DEF IInv, Types, RestTypes, LoopTypes
<1>5. \A e \in DOMAIN mmap : EndOf(e) <= physmem_end
  BY <1>1, <1>4 DEF Fits, InPhysmem
<1>6. (\A f \in Frames : pgdb[f].type # "non_existed" =>
         \E e \in DOMAIN mmap : f * PAGE_SIZE < EndOf(e))'
  BY <1>1, <1>2 DEF Fits
<1>7. FreeAvailable'
  BY <1>1 DEF Fits, FreeAvailable
<1> QED
  BY <1>1, <1>2, <1>3, <1>5, <1>6, <1>7 DEF Fits

LEMMA LoadTableFits == ASSUME IInv, Fits, LoadTable PROVE Fits'
<1>1. /\ pc = "pgdb" /\ pc' = "database"
      /\ UNCHANGED <<machine, physmem_end, pgdb_page_nr, pgdb>>
  BY DEF LoadTable
<1>2. mmap' = mmap /\ \A e : EndOf(e)' = EndOf(e)
  BY <1>1 DEF mmap, EndOf, PAGE_MASKED
<1>3. ~InPhysmem' /\ pc' # "marks"
  BY <1>1 DEF InPhysmem, Looping
<1>4. Filling
  BY <1>1 DEF Filling
<1>5. FreeAvailable'
  BY <1>1 DEF Fits, FreeAvailable
<1> QED
  BY <1>1, <1>2, <1>3, <1>4, <1>5 DEF Fits

LEMMA MarkEntryFits == ASSUME IInv, Fits, MarkEntry PROVE Fits'
<1>1. /\ pc' = "marks" /\ loaded /\ i <= Len(mmap)
      /\ loop' = [loop EXCEPT !.phys = mmap[i].addr, !.end = mmap[i].addr + mmap[i].len]
      /\ UNCHANGED <<machine, i, physmem_end, pgdb_page_nr, pgdb, loaded>>
  BY DEF MarkEntry
<1>2. mmap' = mmap /\ \A e : EndOf(e)' = EndOf(e)
  BY <1>1 DEF mmap, EndOf, PAGE_MASKED
<1>3. ~InPhysmem'
  BY <1>1 DEF InPhysmem, Looping
<1>4. loop \in [phys : Int, end : Int, virt : Int, rw : BOOLEAN, next : {"init", "elf", "physmem"}]
  BY DEF IInv, Types, LoopTypes
<1>5. loop'.phys = mmap[i].addr /\ loop'.end = mmap[i].addr + mmap[i].len
  BY <1>1, <1>4
<1>6. FreeAvailable'
  BY <1>1 DEF Fits, FreeAvailable
<1> QED
  BY <1>1, <1>2, <1>3, <1>5, <1>6 DEF Fits

(* Every descriptor of the database is in a page that was handed out.      *)
LEMMA DescriptorsHave ==
  ASSUME IInv, loaded, NEW p \in 0 .. pgdb_page_nr - 1
  PROVE  /\ Translated(PAGE_DATABASE_BASE + p \div PGDB_PG_PAGE_NR) # None
         /\ Translated(PAGE_DATABASE_BASE + p \div PGDB_PG_PAGE_NR).frame \in ToSet(handed_out)
<1>1. /\ \A v \in DOMAIN mapped : Translated(v) = mapped[v] /\ mapped[v] \in Entries
      /\ pgdb_page_nr \in Nat
  BY RootedNow DEF IInv, Rooted, Translates, Types, LoopTypes, TableTypes
<1> DEFINE q == p \div PGDB_PG_PAGE_NR
<1>2. /\ PGDB_PG_PAGE_NR \in Nat \ {0} /\ p \in Nat /\ p < pgdb_page_nr /\ q \in Nat
  <2>1. PGDB_PG_PAGE_NR \in Nat \ {0} /\ p \in Nat /\ p < pgdb_page_nr
    BY <1>1, Positive
  <2> QED
    BY <2>1, Quotient
<1>3. q * PGDB_PG_PAGE_NR <= p
  <2>1. q * PGDB_PG_PAGE_NR <= p <=> q <= q
    BY <1>2, Down
  <2> HIDE DEF q
  <2> QED
    BY <1>2, <2>1
<1> HIDE DEF q
<1>4. q * PGDB_PG_PAGE_NR < pgdb_page_nr
  <2>1. q * PGDB_PG_PAGE_NR \in Nat
    BY <1>2, TimesLess
  <2> QED
    BY <1>1, <1>2, <1>3, <2>1
<1>5. Backed(q)
  BY <1>2, <1>4 DEF IInv, Database
<1>6. \A e \in Entries : e # None
  BY LayoutAssumption DEF Entries, None, Entry
<1> QED
  BY <1>1, <1>5, <1>6 DEF Backed, q

(* A frame that begins before the end of a region is in the database, or   *)
(* the one behind it.                                                      *)
LEMMA OnePastEnd ==
  ASSUME IInv, Fits, loaded, NEW f \in Nat, NEW e \in DOMAIN mmap,
         f * PAGE_SIZE < EndOf(e), ~(f < pgdb_page_nr)
  PROVE  f = pgdb_page_nr /\ mmap[e].len % PAGE_SIZE # 0
<1>1. machine \in Machines /\ pgdb_page_nr \in Nat
  BY DEF IInv, Types, RestTypes, LoopTypes
<1>2. /\ EndOf(e) <= physmem_end /\ pgdb_page_nr = physmem_end \div PAGE_SIZE
      /\ EndOf(e) \in Nat /\ physmem_end \in Nat /\ f \in Nat /\ PAGE_SIZE \in Nat \ {0}
      /\ mmap[e].addr \in Nat /\ mmap[e].len \in Nat
  BY <1>1, EndsLater, Memory, Positive, LayoutAssumption DEF Fits, IInv, Types, LoopTypes
<1>3. f * PAGE_SIZE \in Nat
  BY <1>2, TimesLess
<1>4. f <= pgdb_page_nr
  <2>1. f * PAGE_SIZE <= physmem_end
    BY <1>2, <1>3
  <2> QED
    BY <1>2, <2>1, Down
<1>5. ASSUME mmap[e].len % PAGE_SIZE = 0 PROVE FALSE
  <2> DEFINE p == mmap[e].addr \div PAGE_SIZE
             k == mmap[e].len \div PAGE_SIZE
  <2>1. /\ p \in Nat /\ k \in Nat /\ mmap[e].len = k * PAGE_SIZE
        /\ EndOf(e) = p * PAGE_SIZE + mmap[e].len
    BY <1>2, <1>5, Parts, Multiple DEF EndOf, PAGE_MASKED
  <2> HIDE DEF p, k
  <2>2. p + k \in Nat /\ EndOf(e) = (p + k) * PAGE_SIZE
    BY <2>1, PageOf
  <2>3. f < p + k
    BY <1>2, <2>2, TimesLess
  <2>4. p + k <= pgdb_page_nr
    <3>1. (p + k) * PAGE_SIZE <= physmem_end
      BY <1>2, <2>2
    <3> QED
      BY <1>2, <2>2, <3>1, Down
  <2> QED
    BY <1>1, <1>2, <2>2, <2>3, <2>4
<1> QED
  BY <1>1, <1>2, <1>4, <1>5

(* The frame to be marked begins before the end of its map entry.          *)
LEMMA MarksWithin ==
  ASSUME IInv, Fits, pc = "marks", loop.phys < loop.end
  PROVE  /\ loop.phys \div PAGE_SIZE \in Nat /\ i \in DOMAIN mmap
         /\ (loop.phys \div PAGE_SIZE) * PAGE_SIZE < EndOf(i)
<1> DEFINE g == loop.phys \div PAGE_SIZE
<1>1. /\ loop.phys \in Nat /\ i \in DOMAIN mmap /\ machine \in Machines
      /\ mmap[i].addr \in Nat /\ mmap[i].len \in Nat
  BY Memory DEF IInv, Types, RestTypes, LoopTypes, Marks
<1>2. /\ loop.end = mmap[i].addr + mmap[i].len
      /\ loop.phys % PAGE_SIZE = mmap[i].addr % PAGE_SIZE
  BY DEF Fits
<1>3. /\ loop.phys = g * PAGE_SIZE + (loop.phys % PAGE_SIZE)
      /\ g \in Nat /\ g * PAGE_SIZE \in Nat /\ (loop.phys % PAGE_SIZE) \in Nat
  <2> SUFFICES ASSUME NEW x \in Nat
               PROVE  /\ x = (x \div PAGE_SIZE) * PAGE_SIZE + (x % PAGE_SIZE)
                      /\ x \div PAGE_SIZE \in Nat /\ (x \div PAGE_SIZE) * PAGE_SIZE \in Nat
                      /\ (x % PAGE_SIZE) \in Nat
    BY <1>1
  <2> QED
    BY Parts
<1>4. /\ mmap[i].addr = PAGE_MASKED(mmap[i].addr) + (mmap[i].addr % PAGE_SIZE)
      /\ PAGE_MASKED(mmap[i].addr) \in Nat
  BY <1>1, Parts DEF PAGE_MASKED
<1> DEFINE r == loop.phys % PAGE_SIZE
<1> HIDE DEF g
<1>5. mmap[i].addr = PAGE_MASKED(mmap[i].addr) + r /\ loop.phys = g * PAGE_SIZE + r /\ r \in Nat
  BY <1>2, <1>3, <1>4
<1> HIDE DEF r
<1>6. g * PAGE_SIZE < EndOf(i)
  BY <1>1, <1>2, <1>3, <1>4, <1>5 DEF EndOf
<1> QED
  BY <1>1, <1>3, <1>6 DEF g

LEMMA MarkPageFits == ASSUME IInv, Fits, MarkPage PROVE Fits'
<1> DEFINE g == loop.phys \div PAGE_SIZE
<1>1. /\ pc = "marks" /\ loop.phys < loop.end
      /\ \A f \in Frames : f # g => pgdb'[f] = pgdb[f]
      /\ g \in Frames /\ pgdb'[g].ref_count < 0 => pgdb'[g].type = "available"
      /\ loop' = [loop EXCEPT !.phys = @ + PAGE_SIZE]
      /\ UNCHANGED <<machine, pc, i, physmem_end, pgdb_page_nr, loaded>>
  BY DEF MarkPage, IInv, Types, RestTypes
<1>2. mmap' = mmap /\ \A e : EndOf(e)' = EndOf(e)
  BY <1>1 DEF mmap, EndOf, PAGE_MASKED
<1>3. ~InPhysmem' /\ ~Filling'
  BY <1>1 DEF InPhysmem, Looping, Filling
<1>4. /\ loop \in [phys : Int, end : Int, virt : Int, rw : BOOLEAN,
                   next : {"init", "elf", "physmem"}]
      /\ loop.phys \in Nat /\ i \in DOMAIN mmap /\ machine \in Machines
      /\ mmap[i].addr \in Nat /\ mmap[i].len \in Nat
  BY <1>1, Memory DEF IInv, Types, RestTypes, LoopTypes, Marks
<1>5. loop'.phys = loop.phys + PAGE_SIZE /\ loop'.end = loop.end
  BY <1>1, <1>4
<1>6. /\ loop.end = mmap[i].addr + mmap[i].len
      /\ loop.phys % PAGE_SIZE = mmap[i].addr % PAGE_SIZE
  BY <1>1 DEF Fits
<1>7. (loop.phys + PAGE_SIZE) % PAGE_SIZE = loop.phys % PAGE_SIZE
  BY <1>4, NextPage
<1>8. g * PAGE_SIZE < EndOf(i)
  BY <1>1, MarksWithin
<1> HIDE DEF g
<1>9. (\A f \in Frames : pgdb[f].type # "non_existed" =>
         \E e \in DOMAIN mmap : f * PAGE_SIZE < EndOf(e))'
  <2> SUFFICES ASSUME NEW f \in Frames, pgdb'[f].type # "non_existed"
               PROVE  \E e \in DOMAIN mmap : f * PAGE_SIZE < EndOf(e)
    BY <1>2
  <2>1. CASE f = g
    BY <1>4, <1>8, <2>1
  <2>2. CASE f # g
    BY <1>1, <2>2 DEF Fits
  <2> QED
    BY <2>1, <2>2
<1>10. (pc = "marks" =>
          /\ loop.end = mmap[i].addr + mmap[i].len
          /\ loop.phys % PAGE_SIZE = mmap[i].addr % PAGE_SIZE)'
  BY <1>1, <1>2, <1>5, <1>6, <1>7
<1>11. (Filling \/ loaded =>
          /\ \A e \in DOMAIN mmap : EndOf(e) <= physmem_end
          /\ pgdb_page_nr = physmem_end \div PAGE_SIZE)'
  BY <1>1, <1>2, <1>3 DEF Fits
<1>12. FreeAvailable'
  BY <1>1 DEF Fits, FreeAvailable
<1>13. pc' = "marks"
  BY <1>1
<1> QED
  BY <1>3, <1>9, <1>10, <1>11, <1>12, <1>13 DEF Fits

(* Boot faults at the descriptor behind the last one, when that would be   *)
(* the first of its page.                                                  *)
LEMMA FaultFits == ASSUME IInv, Fits, Fault PROVE Fits'
<1> DEFINE g == loop.phys \div PAGE_SIZE
           n == PGDB_PG_PAGE_NR
<1>1. /\ pc' = "fault"
      /\ UNCHANGED <<machine, physmem_end, pgdb_page_nr, pgdb, loaded>>
      /\ loaded => pc = "marks" /\ loop.phys < loop.end /\ ~HasDescriptor(g)
  BY DEF Fault
<1>2. ASSUME loaded PROVE pgdb_page_nr % n = 0 /\ PartialRegion
  <2>1. /\ g \in Nat /\ i \in DOMAIN mmap /\ g * PAGE_SIZE < EndOf(i)
        /\ Translated(PAGE_DATABASE_BASE + g \div n) = None
        /\ pgdb_page_nr \in Nat /\ n \in Nat \ {0}
    BY <1>1, <1>2, MarksWithin, Positive DEF HasDescriptor, IInv, Types, LoopTypes
  <2> HIDE DEF g
  <2>2. ~(g < pgdb_page_nr)
    BY <1>2, <2>1, DescriptorsHave
  <2>3. g = pgdb_page_nr /\ PartialRegion
    BY <1>2, <2>1, <2>2, OnePastEnd DEF PartialRegion
  <2>4. ASSUME pgdb_page_nr % n # 0 PROVE FALSE
    <3> DEFINE q == pgdb_page_nr \div n
               r == pgdb_page_nr % n
    <3>1. q \in Nat /\ r \in 0 .. n - 1 /\ pgdb_page_nr = q * n + r
      BY <2>1, Quotient
    <3> HIDE DEF n, q, r
    <3>2. r # 0 /\ r - 1 \in 0 .. n - 1 /\ q * n \in Nat
      BY <2>1, <2>4, <3>1, TimesLess DEF r
    <3>3. pgdb_page_nr - 1 = q * n + (r - 1) /\ pgdb_page_nr - 1 \in 0 .. pgdb_page_nr - 1
      BY <2>1, <3>1, <3>2
    <3>4. (q * n + (r - 1)) \div n = q
      BY <2>1, <3>1, <3>2, Aligned
    <3>5. (pgdb_page_nr - 1) \div n = q
      BY <3>3, <3>4
    <3>6. Translated(PAGE_DATABASE_BASE + (pgdb_page_nr - 1) \div n) # None
      BY <1>2, <3>3, DescriptorsHave DEF n
    <3> QED
      BY <2>1, <2>3, <3>5, <3>6 DEF q
  <2> QED
    BY <2>3, <2>4
<1>3. mmap' = mmap /\ \A e : EndOf(e)' = EndOf(e)
  BY <1>1 DEF mmap, EndOf, PAGE_MASKED
<1>4. ~InPhysmem' /\ ~Filling' /\ pc' # "marks"
  BY <1>1 DEF InPhysmem, Looping, Filling
<1>5. PartialRegion' = PartialRegion
  BY <1>1 DEF PartialRegion, mmap
<1>6. (loaded =>
         /\ \A e \in DOMAIN mmap : EndOf(e) <= physmem_end
         /\ pgdb_page_nr = physmem_end \div PAGE_SIZE)'
  BY <1>1, <1>3 DEF Fits
<1>7. (\A f \in Frames : pgdb[f].type # "non_existed" =>
         \E e \in DOMAIN mmap : f * PAGE_SIZE < EndOf(e))'
  BY <1>1, <1>3 DEF Fits
<1>8. FreeAvailable'
  BY <1>1 DEF Fits, FreeAvailable
<1>9. (pc = "fault" /\ loaded => pgdb_page_nr % PGDB_PG_PAGE_NR = 0 /\ PartialRegion)'
  BY <1>1, <1>2, <1>5
<1> QED
  BY <1>4, <1>6, <1>7, <1>8, <1>9 DEF Fits

(* What is written of the page database lies where memory was counted.     *)
THEOREM DescriptorsFit == Spec => []Fits
<1>1. ASSUME Init PROVE Fits
  BY <1>1 DEF Init, Fits, InPhysmem, Looping, Filling, FreeAvailable
<1>2. ASSUME IInv, Fits, [Next]_vars PROVE Fits'
  <2>1. CASE DirectMap
    BY <1>2, <2>1, DirectMapFits
  <2>2. CASE PhysmemEnds
    BY <1>2, <2>2, PhysmemEndsFits
  <2>3. CASE LoadTable
    BY <1>2, <2>3, LoadTableFits
  <2>4. CASE MarkEntry
    BY <1>2, <2>4, MarkEntryFits
  <2>5. CASE MarkPage
    BY <1>2, <2>5, MarkPageFits
  <2>6. CASE Fault
    BY <1>2, <2>6, FaultFits
  <2>7. ASSUME \/ FindTags \/ RootTable \/ Section \/ UnknownSection \/ BssPage \/ BssEnds
               \/ FrameBuffer \/ DatabasePage \/ RegionPage \/ RegionEnds \/ WalkDown \/ NewTable
               \/ WriteEntry \/ SkipUsed \/ OutOfMemory \/ MarksEnd \/ EnterMain
        PROVE  Fits'
    <3>1. machine \in Machines
      BY <1>2 DEF IInv, Types, RestTypes
    <3> QED
      BY <1>2, <2>7, <3>1, GoesOn, FitsStays
  <2>8. CASE Stopped \/ UNCHANGED vars
    <3>1. UNCHANGED <<machine, pc, i, loop, walk, physmem_end, pgdb_page_nr, pgdb, loaded>>
      BY <2>8 DEF Stopped, vars
    <3>2. mmap' = mmap /\ \A e : EndOf(e)' = EndOf(e)
      BY <3>1 DEF mmap, EndOf, PAGE_MASKED
    <3>3. InPhysmem' = InPhysmem /\ Filling' = Filling
      BY <3>1 DEF InPhysmem, Looping, Filling
    <3> QED
      BY <1>2, <3>1, <3>2, <3>3 DEF Fits, FreeAvailable, PartialRegion
  <2> QED
    BY <1>2, <2>1, <2>2, <2>3, <2>4, <2>5, <2>6, <2>7, <2>8 DEF Next
<1> QED
  BY <1>1, <1>2, Invariance, PTL DEF Spec

(* On every machine: once the table is loaded, every whole frame of the    *)
(* memory map that has room in the direct mapping area is translated       *)
(* there, and every page descriptor has a page handed out for it; boot can *)
(* only fault at one descriptor past the end of the database.              *)
THEOREM KernelReaches == Spec => []KernelCanReach
<1>1. IInv /\ Fits => KernelCanReach
  <2> SUFFICES ASSUME IInv, Fits, loaded
               PROVE  /\ \A e \in DOMAIN mmap :
                           \A f \in WholeFramesOf(mmap[e].addr, mmap[e].addr + mmap[e].len) :
                             DIRECT_MAP_BASE + f <= DIRECT_MAP_END =>
                               Translated(DIRECT_MAP_BASE + f) = Entry(f, TRUE)
                      /\ \A p \in 0 .. pgdb_page_nr - 1 :
                           LET e == Translated(PAGE_DATABASE_BASE + p \div PGDB_PG_PAGE_NR)
                           IN  e # None /\ e.frame \in ToSet(handed_out)
                      /\ \A f \in Frames : pgdb[f].type # "non_existed" =>
                           \/ f < pgdb_page_nr
                           \/ f = pgdb_page_nr /\ PartialRegion
                      /\ pc = "fault" => pgdb_page_nr % PGDB_PG_PAGE_NR = 0 /\ PartialRegion
    BY DEF KernelCanReach
  <2>1. /\ \A v \in DOMAIN mapped : Translated(v) = mapped[v] /\ mapped[v] \in Entries
        /\ machine \in Machines /\ pgdb_page_nr \in Nat
    BY RootedNow DEF IInv, Rooted, Translates, Types, RestTypes, LoopTypes, TableTypes
  <2>2. ASSUME NEW e \in DOMAIN mmap,
               NEW f \in WholeFramesOf(mmap[e].addr, mmap[e].addr + mmap[e].len),
               DIRECT_MAP_BASE + f <= DIRECT_MAP_END
        PROVE  Translated(DIRECT_MAP_BASE + f) = Entry(f, TRUE)
    <3> DEFINE a == mmap[e].addr
               p == a \div PAGE_SIZE
    <3>1. /\ f \in Frames /\ f \in Nat /\ a <= f * PAGE_SIZE
          /\ (f + 1) * PAGE_SIZE <= a + mmap[e].len
      BY LayoutAssumption DEF WholeFramesOf
    <3>2. /\ PAGE_SIZE \in Nat \ {0} /\ a \in Nat /\ mmap[e].len \in Nat /\ p \in Nat
          /\ f + 1 \in Nat
      <4>1. PAGE_SIZE \in Nat \ {0} /\ a \in Nat /\ mmap[e].len \in Nat
        BY <2>1, Positive, Memory
      <4>2. f + 1 \in Nat
        BY <3>1
      <4> HIDE DEF a
      <4>3. p \in Nat
        BY <4>1, Quotient
      <4> QED
        BY <4>1, <4>2, <4>3
    <3> HIDE DEF a
    <3>3. /\ (f + 1) * PAGE_SIZE = f * PAGE_SIZE + PAGE_SIZE /\ f * PAGE_SIZE \in Nat
          /\ (p + 1) * PAGE_SIZE = p * PAGE_SIZE + PAGE_SIZE /\ p * PAGE_SIZE \in Nat
          /\ p + 1 \in Nat
      BY <3>1, <3>2, TimesLess
    <3>4. p <= f
      <4>1. a < (f + 1) * PAGE_SIZE <=> p < f + 1
        BY <3>2, Down
      <4>2. a < (f + 1) * PAGE_SIZE
        BY <3>1, <3>2, <3>3
      <4> HIDE DEF p
      <4> QED
        BY <3>1, <3>2, <4>1, <4>2
    <3>5. a < p * PAGE_SIZE + PAGE_SIZE
      <4>1. a < (p + 1) * PAGE_SIZE <=> p < p + 1
        BY <3>2, <3>3, Down
      <4> HIDE DEF p
      <4>2. p < p + 1
        BY <3>2
      <4> QED
        BY <3>3, <4>1, <4>2, Zenon
    <3>6. f * PAGE_SIZE < p * PAGE_SIZE + mmap[e].len
      <4> HIDE DEF p
      <4> QED
        BY <3>1, <3>2, <3>3, <3>5
    <3>7. f \in ToMap(e)
      BY <2>2, <3>1, <3>4, <3>6 DEF ToMap, PAGE_MASKED, a, p
    <3> QED
      BY <2>1, <3>7 DEF IInv, Database, Direct
  <2>3. \A p \in 0 .. pgdb_page_nr - 1 :
          /\ Translated(PAGE_DATABASE_BASE + p \div PGDB_PG_PAGE_NR) # None
          /\ Translated(PAGE_DATABASE_BASE + p \div PGDB_PG_PAGE_NR).frame \in ToSet(handed_out)
    BY DescriptorsHave
  <2>4. ASSUME NEW f \in Frames, pgdb[f].type # "non_existed", ~(f < pgdb_page_nr)
        PROVE  f = pgdb_page_nr /\ PartialRegion
    <3>1. PICK e \in DOMAIN mmap : f * PAGE_SIZE < EndOf(e)
      BY <2>4 DEF Fits
    <3>2. f \in Nat
      BY LayoutAssumption
    <3> QED
      BY <2>4, <3>1, <3>2, OnePastEnd DEF PartialRegion
  <2>5. pc = "fault" => pgdb_page_nr % PGDB_PG_PAGE_NR = 0 /\ PartialRegion
    BY DEF Fits
  <2> QED
    BY <2>2, <2>3, <2>4, <2>5
<1> QED
  BY <1>1, Invariance, DescriptorsFit, PTL

-----------------------------------------------------------------------------
(* The frames that pages_pool_init finds to be of type PAGE_NORMAL_MEM.    *)
NormalMem == {f \in Frames : pgdb[f].type = "available"}

(* When regions are a number of whole frames long, pages_pool_init finds   *)
(* what PagePool assumes (PgdbAssumption) and begins with (Init): normal   *)
(* memory lies in the database, the usable frames are normal memory with   *)
(* -1 as their count, and every other count is 0.                          *)
PoolBegins ==
  pc = "main" /\ loaded /\ (\A e \in DOMAIN mmap : mmap[e].len % PAGE_SIZE = 0) =>
    /\ NormalMem \subseteq 0 .. pgdb_page_nr - 1
    /\ PoolFrames \subseteq NormalMem
    /\ \A f \in Frames : pgdb[f].ref_count = IF f \in PoolFrames THEN -1 ELSE 0

(* On every machine: the page pool begins with what boot leaves.           *)
THEOREM PoolIsReady == Spec => []PoolBegins
<1>1. IInv /\ Fits /\ KernelCanReach => PoolBegins
  <2> SUFFICES ASSUME IInv, Fits, KernelCanReach, loaded,
                      \A e \in DOMAIN mmap : mmap[e].len % PAGE_SIZE = 0
               PROVE  /\ NormalMem \subseteq 0 .. pgdb_page_nr - 1
                      /\ PoolFrames \subseteq NormalMem
                      /\ \A f \in Frames : pgdb[f].ref_count = IF f \in PoolFrames THEN -1 ELSE 0
    BY DEF PoolBegins
  <2>1. Frames \subseteq Nat /\ pgdb_page_nr \in Nat
    BY LayoutAssumption DEF IInv, Types, LoopTypes
  <2>2. ASSUME NEW f \in NormalMem PROVE f \in 0 .. pgdb_page_nr - 1
    <3>1. f \in Frames /\ pgdb[f].type # "non_existed"
      BY DEF NormalMem
    <3>2. f < pgdb_page_nr
      BY <3>1 DEF KernelCanReach, PartialRegion
    <3> QED
      BY <2>1, <3>1, <3>2
  <2>3. ASSUME NEW f \in Frames
        PROVE  pgdb[f].ref_count = IF f \in PoolFrames THEN -1 ELSE 0
    <3>1. pgdb[f].ref_count \in {-1, 0}
      <4>1. pgdb \in [Frames -> [type : PageTypes, ref_count : {-1, 0}]]
        BY DEF IInv, Types, RestTypes
      <4> QED
        BY <4>1
    <3>2. f \in PoolFrames <=> pgdb[f].ref_count < 0
      BY DEF PoolFrames, Fits, FreeAvailable
    <3> QED
      BY <3>1, <3>2
  <2> QED
    BY <2>2, <2>3 DEF PoolFrames, NormalMem
<1> QED
  BY <1>1, Invariance, DescriptorsFit, KernelReaches, PTL
=============================================================================
