-------------------------------- MODULE BootMM --------------------------------
(***************************************************************************)
(* The memory initialisation of the booting stage,                         *)
(* src/arch/x86/boot/boot_mm.cpp, and what boot_main does with its result: *)
(* the linear page allocator over the memory map of the boot loader, the   *)
(* building of the kernel's page table, the page database.                 *)
(*                                                                         *)
(* It runs alone, once, on whatever machine it finds: the memory map, the  *)
(* section headers of the kernel, the frame buffer and the tags present    *)
(* are inputs, chosen in Init.  Physical memory is counted in words,       *)
(* PAGE_SIZE of them in a frame, so that a region can begin and end inside *)
(* one; virtual memory in pages.  A page table is a frame whose entries    *)
(* are kept in `table`; until it is cleared a frame holds junk.  Sections  *)
(* begin on page boundaries, as linker.lds has them.                       *)
(*                                                                         *)
(* The checks for regions that wrap around 2^64 only print and halt; they  *)
(* are left out, addresses here do not wrap.                               *)
(***************************************************************************)
EXTENDS Integers, FiniteSets, SequencesExt

CONSTANTS
  Machines,         \* [mmap, sections, fb, mbi, tags]: what boot can find
  PAGE_SIZE,
  PT_ENTRIES,       \* entries of a page table (512)
  PGDB_PG_PAGE_NR,  \* page descriptors in a page
  KERNEL_LOAD,      \* where the image is loaded (0x100000)
  DIRECT_MAP_BASE, DIRECT_MAP_END, PAGE_DATABASE_BASE,  \* virt_layout.cppm
  Frames            \* bound: the frames that memory maps reach, and one more

ASSUME SizesAssumption ==
  /\ {PAGE_SIZE, PT_ENTRIES, PGDB_PG_PAGE_NR} \subseteq Nat \ {0}
  /\ KERNEL_LOAD \in Nat /\ KERNEL_LOAD % PAGE_SIZE = 0

PAGE_ALIGN(a) == ((a + PAGE_SIZE - 1) \div PAGE_SIZE) * PAGE_SIZE
PAGE_MASKED(a) == (a \div PAGE_SIZE) * PAGE_SIZE

(* sh_type is tested by its bits where sections are mapped: SHT_PROGBITS   *)
(* is 1, SHT_NOBITS is 8.                                                  *)
HasBit(n, b) == (n \div b) % 2 = 1

(* Where the image of a section lies: it was loaded one page lower than    *)
(* its offset in the file says, without the page of the ELF header.        *)
SegStart(s) == KERNEL_LOAD + s.offset - PAGE_SIZE

(* The virtual pages that four levels of tables can map. *)
VirtPages == 0 .. PT_ENTRIES * PT_ENTRIES * PT_ENTRIES * PT_ENTRIES - 1

(* The regions of virt_layout.cppm: the page database is above the direct  *)
(* mapping area, and has room for every frame.                             *)
ASSUME LayoutAssumption ==
  /\ Frames \subseteq Nat /\ 0 \in Frames
  /\ DIRECT_MAP_BASE \in Nat /\ DIRECT_MAP_END \in VirtPages
  /\ PAGE_DATABASE_BASE \in Nat /\ DIRECT_MAP_END < PAGE_DATABASE_BASE
  /\ \A f \in Frames : PAGE_DATABASE_BASE + f \in VirtPages

(* The kinds of memory that the page database tells apart. *)
MemoryTypes == {"available", "reserved", "acpi_reclaimable", "nvs", "badram", "unknown"}

(* What a boot loader reports: regions of memory of which no two that are  *)
(* available overlap; what is to be mapped is in Frames and VirtPages.     *)
ASSUME MachineAssumption ==
  \A m \in Machines :
    /\ m.mmap \in Seq([addr : Nat, len : Nat, type : MemoryTypes])
    /\ m.sections \in Seq([type : Nat, alloc : BOOLEAN, addr : Nat, offset : Nat, size : Nat,
                           write : BOOLEAN])
    /\ m.fb \subseteq [base : Nat, end : Nat]
    /\ m.mbi \in [start : Nat, end : Nat]
    /\ \A e \in DOMAIN m.mmap :
         0 .. (m.mmap[e].addr + m.mmap[e].len) \div PAGE_SIZE \subseteq Frames
    /\ \A d, e \in DOMAIN m.mmap :
         d # e /\ m.mmap[d].type = "available" /\ m.mmap[e].type = "available" =>
           \/ m.mmap[d].addr + m.mmap[d].len <= m.mmap[e].addr
           \/ m.mmap[e].addr + m.mmap[e].len <= m.mmap[d].addr
    /\ \A s \in ToSet(m.sections) :
         s.alloc => s.addr .. s.addr + s.size \div PAGE_SIZE \subseteq VirtPages
    /\ \A b \in m.fb :
         /\ b.base <= b.end
         /\ b.base \div PAGE_SIZE .. b.end \div PAGE_SIZE \subseteq Frames \cap VirtPages

(* The image, as linker.lds lays it out: its sections begin at pages, the  *)
(* first one after the page of the ELF header, each other where one ends.  *)
ASSUME ImageAssumption ==
  \A m \in Machines : \A s \in ToSet(m.sections) :
    s.alloc /\ HasBit(s.type, 1) =>
      /\ s.type = 1
      /\ s.offset >= PAGE_SIZE /\ s.offset % PAGE_SIZE = 0
      /\ \/ s.offset = PAGE_SIZE
         \/ \E t \in ToSet(m.sections) :
              /\ t.alloc /\ t.type = 1
              /\ t.offset < s.offset /\ s.offset = PAGE_ALIGN(t.offset + t.size)
      /\ SegStart(s) \div PAGE_SIZE .. (SegStart(s) + s.size) \div PAGE_SIZE \subseteq Frames

VARIABLES
  machine,
  curr_entry, curr_entry_idx,  \* the region being handed out (0: none); the last one
  curr_avail, curr_end,        \* the next page of it, and its end
  table,                       \* the entries of each frame, as a page table
  boot_kern_pgtable,
  pc,
  i,                           \* the section or map entry at hand, or descriptor
  loop,                        \* the region being mapped, or marked
  walk,                        \* the call of boot_mm_pgtable_map under way
  physmem_end, pgdb_page_nr,
  pgdb,                        \* type and ref_count of each page descriptor
  loaded,                      \* cr3 is the new table, mm::pgdb_base is set
  ret,                         \* what boot_mm_pgtable_init returned
  handed_out,                  \* history: the pages boot_mm_page_alloc returned
  mapped                       \* history: the mappings made, by virtual page

alloc == <<curr_entry, curr_entry_idx, curr_avail, curr_end>>
vars == <<machine, alloc, table, boot_kern_pgtable, pc, i, loop, walk, physmem_end,
          pgdb_page_nr, pgdb, loaded, ret, handed_out, mapped>>

mmap == machine.mmap
sections == machine.sections

ENOMEM == -12
EFAULT == -14

Entry(f, rw) == [frame |-> f, rw |-> rw]
None == Entry(-1, FALSE)
Junk == [x \in 0 .. PT_ENTRIES - 1 |-> Entry(0, FALSE)]
Cleared == [x \in 0 .. PT_ENTRIES - 1 |-> None]

(***************************************************************************)
(* The allocator.                                                          *)
(***************************************************************************)
(* Mutant of addr_is_in_used_range: the load address is forgotten. *)
addr_is_in_used_file_range(a) ==
  \/ \E s \in ToSet(sections) :
       /\ s.type = 1 /\ s.alloc
       /\ s.offset <= a /\ a < PAGE_ALIGN(s.offset + s.size)
  \/ \E b \in machine.fb : b.base <= a /\ a <= b.end
  \/ machine.mbi.start <= a /\ a <= machine.mbi.end

addr_is_in_used_range(a) ==
  \/ \E s \in ToSet(sections) :
       /\ s.type = 1 /\ s.alloc
       /\ KERNEL_LOAD + s.offset <= a
       /\ a < PAGE_ALIGN(KERNEL_LOAD + s.offset + s.size)
  \/ \E b \in machine.fb : b.base <= a /\ a <= b.end
  \/ machine.mbi.start <= a /\ a <= machine.mbi.end

(* Mutant of RegionBase: the first partial page is not given up. *)
RegionBaseRaw(e) == PAGE_MASKED(mmap[e].addr)

(* What is left of map entry e without its first and last partial page. *)
RegionBase(e) == PAGE_ALIGN(mmap[e].addr)
RegionEnd(e) == PAGE_MASKED(mmap[e].addr + mmap[e].len)

(* The entries the allocator can still turn to. *)
Regions == {e \in curr_entry_idx + 1 .. Len(mmap) :
              /\ mmap[e].type = "available"
              /\ RegionEnd(e) - RegionBase(e) >= PAGE_SIZE}

(* A page off the current region; of the next one when there is none.      *)
boot_mm_page_alloc_internal(res) ==
  \/ /\ curr_entry # 0
     /\ res = curr_avail
     /\ curr_avail' = curr_avail + PAGE_SIZE
     /\ curr_entry' = IF curr_avail' = curr_end THEN 0 ELSE curr_entry
     /\ UNCHANGED <<curr_entry_idx, curr_end>>
  \/ /\ curr_entry = 0
     /\ \E e \in Regions :
          /\ \A d \in Regions : e <= d
          /\ res = RegionBase(e)
          /\ curr_avail' = RegionBase(e) + PAGE_SIZE
          /\ curr_end' = RegionEnd(e)
          /\ curr_entry' = IF curr_avail' = curr_end' THEN 0 ELSE e
          /\ curr_entry_idx' = e

NoMemory == curr_entry = 0 /\ Regions = {}

(* The addresses that the allocator can look at. *)
PageAddrs == {f * PAGE_SIZE : f \in Frames}

(* boot_mm_page_alloc is running: of its loop one turn is one step. *)
Allocating ==
  \/ pc = "root"
  \/ pc = "map" /\ walk.level > 1 /\ table[walk.table][walk.index[walk.level]] = None
  \/ pc = "bss" /\ loop.virt < loop.end
  \/ pc = "pgdb" /\ i < pgdb_page_nr

(* The page found is in use: the loop goes on. *)
SkipUsed ==
  /\ Allocating
  /\ \E a \in PageAddrs : boot_mm_page_alloc_internal(a) /\ addr_is_in_used_range(a)
  /\ UNCHANGED <<machine, table, boot_kern_pgtable, pc, i, loop, walk, physmem_end,
                 pgdb_page_nr, pgdb, loaded, ret, handed_out, mapped>>

(* The loop ends with frame f. *)
boot_mm_page_alloc(f) ==
  /\ Allocating
  /\ boot_mm_page_alloc_internal(f * PAGE_SIZE)
  /\ ~addr_is_in_used_range(f * PAGE_SIZE)
  /\ handed_out' = Append(handed_out, f)

(* Mutant of OutOfMemory: the entry that was to hold the page is not reset.*)
OutOfMemoryKept ==
  /\ Allocating /\ NoMemory
  /\ ret' = ENOMEM
  /\ pc' = "database" /\ i' = 1
  /\ table' = IF pc = "map"
              THEN [table EXCEPT ![walk.table][walk.index[walk.level]] = Entry(ENOMEM, FALSE)]
              ELSE table
  /\ UNCHANGED <<machine, alloc, boot_kern_pgtable, loop, walk, physmem_end,
                 pgdb_page_nr, pgdb, loaded, handed_out, mapped>>

(* Every caller returns -ENOMEM, up to boot_mm_init, which prints the error*)
(* and goes on with boot_mm_page_database_init.                            *)
OutOfMemory ==
  /\ Allocating /\ NoMemory
  /\ ret' = ENOMEM
  /\ pc' = "database" /\ i' = 1
  /\ UNCHANGED <<machine, alloc, table, boot_kern_pgtable, loop, walk, physmem_end,
                 pgdb_page_nr, pgdb, loaded, handed_out, mapped>>

(***************************************************************************)
(* boot_mm_pgtable_map(va, f, rw): down three levels, allocating the       *)
(* tables that are missing, and the entry at the last.                     *)
(***************************************************************************)
Power(l) == <<1, PT_ENTRIES, PT_ENTRIES * PT_ENTRIES, PT_ENTRIES * PT_ENTRIES * PT_ENTRIES>>[l]
PT_ENTRY(va, l) == (va \div Power(l)) % PT_ENTRIES

(* The call; `back` is where pc goes when it returns. *)
boot_mm_pgtable_map(va, f, rw, back) ==
  /\ walk' = [va |-> va, frame |-> f, rw |-> rw, back |-> back, level |-> 4,
              table |-> boot_kern_pgtable,
              index |-> [l \in 1..4 |-> PT_ENTRY(va, l)]]
  /\ pc' = "map"

WalkDown ==
  /\ pc = "map" /\ walk.level > 1
  /\ LET e == table[walk.table][walk.index[walk.level]]
     IN  /\ e # None
         /\ walk' = [walk EXCEPT !.level = @ - 1, !.table = e.frame]
  /\ UNCHANGED <<machine, alloc, table, boot_kern_pgtable, pc, i, loop, physmem_end,
                 pgdb_page_nr, pgdb, loaded, ret, handed_out, mapped>>

(* Mutant of NewTable: the new table is not cleared. *)
NewTableDirty ==
  /\ pc = "map" /\ walk.level > 1
  /\ \E f \in Frames :
       /\ boot_mm_page_alloc(f)
       /\ table' = [table EXCEPT ![walk.table][walk.index[walk.level]] = Entry(f, TRUE)]
       /\ walk' = [walk EXCEPT !.level = @ - 1, !.table = f]
  /\ UNCHANGED <<machine, boot_kern_pgtable, pc, i, loop, physmem_end, pgdb_page_nr,
                 pgdb, loaded, ret, mapped>>

NewTable ==
  /\ pc = "map" /\ walk.level > 1
  /\ \E f \in Frames :
       /\ boot_mm_page_alloc(f)
       /\ table' = [table EXCEPT ![f] = Cleared,
                                 ![walk.table][walk.index[walk.level]] = Entry(f, TRUE)]
       /\ walk' = [walk EXCEPT !.level = @ - 1, !.table = f]
  /\ UNCHANGED <<machine, boot_kern_pgtable, pc, i, loop, physmem_end, pgdb_page_nr,
                 pgdb, loaded, ret, mapped>>

WriteEntry ==
  /\ pc = "map" /\ walk.level = 1
  /\ table' = [table EXCEPT ![walk.table][walk.index[1]] = Entry(walk.frame, walk.rw)]
  /\ mapped' = [v \in DOMAIN mapped \cup {walk.va} |->
                  IF v = walk.va THEN Entry(walk.frame, walk.rw) ELSE mapped[v]]
  /\ pc' = walk.back
  /\ UNCHANGED <<machine, alloc, boot_kern_pgtable, i, loop, walk, physmem_end,
                 pgdb_page_nr, pgdb, loaded, ret, handed_out>>

(* A loop that maps physical memory from phys to end, one page a turn. *)
MapRegion(phys, end, virt, rw, next) ==
  /\ loop' = [phys |-> phys, end |-> end, virt |-> virt, rw |-> rw, next |-> next]
  /\ pc' = "region"

(* Mutant of RegionPage: the loop does not advance in physical memory. *)
RegionPageStuck ==
  /\ pc = "region" /\ loop.phys < loop.end
  /\ boot_mm_pgtable_map(loop.virt, loop.phys \div PAGE_SIZE, loop.rw, "region")
  /\ UNCHANGED <<machine, alloc, table, boot_kern_pgtable, i, loop, physmem_end, pgdb_page_nr,
                 pgdb, loaded, ret, handed_out, mapped>>

RegionPage ==
  /\ pc = "region" /\ loop.phys < loop.end
  /\ boot_mm_pgtable_map(loop.virt, loop.phys \div PAGE_SIZE, loop.rw, "region")
  /\ loop' = [loop EXCEPT !.phys = @ + PAGE_SIZE, !.virt = @ + 1]
  /\ UNCHANGED <<machine, alloc, table, boot_kern_pgtable, i, physmem_end, pgdb_page_nr,
                 pgdb, loaded, ret, handed_out, mapped>>

RegionEnds ==
  /\ pc = "region" /\ loop.phys >= loop.end
  /\ pc' = loop.next
  /\ UNCHANGED <<machine, alloc, table, boot_kern_pgtable, i, loop, walk, physmem_end,
                 pgdb_page_nr, pgdb, loaded, ret, handed_out, mapped>>

(***************************************************************************)
(* boot_mm_init and boot_mm_pgtable_init.                                  *)
(***************************************************************************)
Init ==
  /\ machine \in Machines
  /\ curr_entry = 0 /\ curr_entry_idx = 0 /\ curr_avail = 0 /\ curr_end = 0
  /\ table = [f \in Frames |-> Junk]
  /\ boot_kern_pgtable = 0
  /\ pc = "init" /\ i = 1
  /\ loop = [phys |-> 0, end |-> 0, virt |-> 0, rw |-> FALSE, next |-> "init"]
  /\ walk = [va |-> 0, frame |-> 0, rw |-> FALSE, back |-> "init", level |-> 1,
             table |-> 0, index |-> [l \in 1..4 |-> 0]]
  /\ physmem_end = 0 /\ pgdb_page_nr = 0
  /\ pgdb = [f \in Frames |-> [type |-> "non_existed", ref_count |-> 0]]
  /\ loaded = FALSE
  /\ ret = 0
  /\ handed_out = <<>>
  /\ mapped = [v \in {} |-> None]

(* Without a memory map or section headers boot_main aborts. *)
FindTags ==
  /\ pc = "init"
  /\ pc' = IF {"mmap", "elf"} \subseteq machine.tags THEN "root" ELSE "halt"
  /\ UNCHANGED <<machine, alloc, table, boot_kern_pgtable, i, loop, walk, physmem_end,
                 pgdb_page_nr, pgdb, loaded, ret, handed_out, mapped>>

RootTable ==
  /\ pc = "root"
  /\ \E f \in Frames :
       /\ boot_mm_page_alloc(f)
       /\ boot_kern_pgtable' = f
       /\ table' = [table EXCEPT ![f] = Cleared]
  /\ pc' = "elf" /\ i' = 1
  /\ UNCHANGED <<machine, loop, walk, physmem_end, pgdb_page_nr, pgdb, loaded, ret, mapped>>

(* One section: its image is mapped, pages are allocated for it (.bss), or *)
(* it is not for memory; a type that is neither ends the function.         *)
Section ==
  /\ pc = "elf" /\ i <= Len(sections)
  /\ i' = i + 1
  /\ LET s == sections[i]
     IN  \/ /\ ~s.alloc
            /\ UNCHANGED <<pc, loop>>
         \/ /\ s.alloc /\ HasBit(s.type, 1)
            /\ MapRegion(SegStart(s), PAGE_ALIGN(SegStart(s) + s.size), s.addr, s.write, "elf")
         \/ /\ s.alloc /\ ~HasBit(s.type, 1) /\ HasBit(s.type, 8)
            /\ loop' = [phys |-> 0, end |-> s.addr + PAGE_ALIGN(s.size) \div PAGE_SIZE,
                        virt |-> s.addr, rw |-> s.write, next |-> "elf"]
            /\ pc' = "bss"
  /\ UNCHANGED <<machine, alloc, table, boot_kern_pgtable, walk, physmem_end, pgdb_page_nr,
                 pgdb, loaded, ret, handed_out, mapped>>

UnknownSection ==
  /\ pc = "elf" /\ i <= Len(sections)
  /\ sections[i].alloc /\ ~HasBit(sections[i].type, 1) /\ ~HasBit(sections[i].type, 8)
  /\ ret' = EFAULT
  /\ pc' = "database" /\ i' = 1
  /\ UNCHANGED <<machine, alloc, table, boot_kern_pgtable, loop, walk, physmem_end,
                 pgdb_page_nr, pgdb, loaded, handed_out, mapped>>

BssPage ==
  /\ pc = "bss" /\ loop.virt < loop.end
  /\ \E f \in Frames :
       /\ boot_mm_page_alloc(f)
       /\ boot_mm_pgtable_map(loop.virt, f, loop.rw, "bss")
  /\ loop' = [loop EXCEPT !.virt = @ + 1]
  /\ UNCHANGED <<machine, table, boot_kern_pgtable, i, physmem_end, pgdb_page_nr, pgdb,
                 loaded, ret, mapped>>

BssEnds ==
  /\ pc = "bss" /\ loop.virt >= loop.end
  /\ pc' = loop.next
  /\ UNCHANGED <<machine, alloc, table, boot_kern_pgtable, i, loop, walk, physmem_end,
                 pgdb_page_nr, pgdb, loaded, ret, handed_out, mapped>>

(* The frame buffer, mapped where it is. *)
FrameBuffer ==
  /\ pc = "elf" /\ i > Len(sections)
  /\ i' = 1
  /\ \/ /\ machine.fb = {}
        /\ pc' = "physmem"
        /\ UNCHANGED loop
     \/ \E b \in machine.fb :
          MapRegion(PAGE_MASKED(b.base), PAGE_ALIGN(PAGE_MASKED(b.base) + b.end - b.base),
                    b.base \div PAGE_SIZE, TRUE, "physmem")
  /\ UNCHANGED <<machine, alloc, table, boot_kern_pgtable, walk, physmem_end, pgdb_page_nr,
                 pgdb, loaded, ret, handed_out, mapped>>

(* One entry of the memory map, into the direct mapping area, as far as    *)
(* that reaches.                                                           *)
DirectMap ==
  /\ pc = "physmem" /\ i <= Len(mmap)
  /\ LET base == PAGE_MASKED(mmap[i].addr)
         end == base + mmap[i].len
         virt == DIRECT_MAP_BASE + base \div PAGE_SIZE
         room == (DIRECT_MAP_END + 1 - DIRECT_MAP_BASE) * PAGE_SIZE
     IN  /\ physmem_end' = IF end > physmem_end THEN end ELSE physmem_end
         /\ MapRegion(base, IF end > room THEN room ELSE end, virt, TRUE, "physmem")
  /\ i' = i + 1
  /\ UNCHANGED <<machine, alloc, table, boot_kern_pgtable, walk, pgdb_page_nr, pgdb, loaded,
                 ret, handed_out, mapped>>

PhysmemEnds ==
  /\ pc = "physmem" /\ i > Len(mmap)
  /\ pgdb_page_nr' = physmem_end \div PAGE_SIZE
  /\ pc' = "pgdb" /\ i' = 0
  /\ UNCHANGED <<machine, alloc, table, boot_kern_pgtable, loop, walk, physmem_end, pgdb,
                 loaded, ret, handed_out, mapped>>

(* Mutant of DatabasePage: the descriptors of a page are counted one short.*)
DatabasePageSparse ==
  /\ pc = "pgdb" /\ i < pgdb_page_nr
  /\ \E f \in Frames :
       /\ boot_mm_page_alloc(f)
       /\ boot_mm_pgtable_map(PAGE_DATABASE_BASE + i \div PGDB_PG_PAGE_NR, f, TRUE, "pgdb")
  /\ i' = i + 2 * PGDB_PG_PAGE_NR
  /\ UNCHANGED <<machine, table, boot_kern_pgtable, loop, physmem_end, pgdb_page_nr, pgdb,
                 loaded, ret, mapped>>

(* A page for the next PGDB_PG_PAGE_NR descriptors. *)
DatabasePage ==
  /\ pc = "pgdb" /\ i < pgdb_page_nr
  /\ \E f \in Frames :
       /\ boot_mm_page_alloc(f)
       /\ boot_mm_pgtable_map(PAGE_DATABASE_BASE + i \div PGDB_PG_PAGE_NR, f, TRUE, "pgdb")
  /\ i' = i + PGDB_PG_PAGE_NR
  /\ UNCHANGED <<machine, table, boot_kern_pgtable, loop, physmem_end, pgdb_page_nr, pgdb,
                 loaded, ret, mapped>>

LoadTable ==
  /\ pc = "pgdb" /\ i >= pgdb_page_nr
  /\ loaded' = TRUE
  /\ pc' = "database" /\ i' = 1
  /\ UNCHANGED <<machine, alloc, table, boot_kern_pgtable, loop, walk, physmem_end,
                 pgdb_page_nr, pgdb, ret, handed_out, mapped>>

(***************************************************************************)
(* boot_mm_page_database_init.                                             *)
(***************************************************************************)
(* How the processor translates va: the entry of the table that e leads    *)
(* to, from the root down.                                                 *)
Lookup(e, va, l) == IF e = None THEN None ELSE table[e.frame][PT_ENTRY(va, l)]
Translated(va) ==
  Lookup(Lookup(Lookup(Lookup(Entry(boot_kern_pgtable, TRUE), va, 4), va, 3), va, 2), va, 1)

(* The descriptor of frame f is in a page that is mapped. *)
HasDescriptor(f) == Translated(PAGE_DATABASE_BASE + f \div PGDB_PG_PAGE_NR) # None

MarkEntry ==
  /\ pc = "database" /\ loaded /\ i <= Len(mmap)
  /\ loop' = [loop EXCEPT !.phys = mmap[i].addr, !.end = mmap[i].addr + mmap[i].len]
  /\ pc' = "marks"
  /\ UNCHANGED <<machine, alloc, table, boot_kern_pgtable, i, walk, physmem_end, pgdb_page_nr,
                 pgdb, loaded, ret, handed_out, mapped>>

(* Mutant of InUse: the pages that the allocator has handed out are free. *)
InUseByRange(a) == addr_is_in_used_range(a)

InUse(a) == a < curr_avail \/ addr_is_in_used_range(a)

MarkPage ==
  /\ pc = "marks" /\ loop.phys < loop.end
  /\ HasDescriptor(loop.phys \div PAGE_SIZE)
  /\ pgdb' = [pgdb EXCEPT ![loop.phys \div PAGE_SIZE] =
                [type |-> mmap[i].type,
                 ref_count |-> IF mmap[i].type = "available" /\ ~InUse(loop.phys) THEN -1 ELSE 0]]
  /\ loop' = [loop EXCEPT !.phys = @ + PAGE_SIZE]
  /\ UNCHANGED <<machine, alloc, table, boot_kern_pgtable, pc, i, walk, physmem_end,
                 pgdb_page_nr, loaded, ret, handed_out, mapped>>

MarksEnd ==
  /\ pc = "marks" /\ loop.phys >= loop.end
  /\ pc' = "database" /\ i' = i + 1
  /\ UNCHANGED <<machine, alloc, table, boot_kern_pgtable, loop, walk, physmem_end,
                 pgdb_page_nr, pgdb, loaded, ret, handed_out, mapped>>

(* The processor faults, and without an interrupt table that is the end.   *)
(* Of the kernel nothing is mapped before the new table is loaded, neither *)
(* mm::pgdb_base, which is read for the first descriptor, nor main, should *)
(* the memory map have no frame to describe.  Afterwards a descriptor past *)
(* the end of the database can be in a page that is not mapped.            *)
Fault ==
  /\ \/ pc = "database" /\ ~loaded
     \/ pc = "marks" /\ loop.phys < loop.end /\ ~HasDescriptor(loop.phys \div PAGE_SIZE)
  /\ pc' = "fault"
  /\ UNCHANGED <<machine, alloc, table, boot_kern_pgtable, i, loop, walk, physmem_end,
                 pgdb_page_nr, pgdb, loaded, ret, handed_out, mapped>>

(* boot_mm_init returns the low half of KERN_DIRECT_MAP_REGION_BASE, which *)
(* is 0, and boot_main goes on to main.                                    *)
EnterMain ==
  /\ pc = "database" /\ loaded /\ i > Len(mmap)
  /\ pc' = "main"
  /\ UNCHANGED <<machine, alloc, table, boot_kern_pgtable, i, loop, walk, physmem_end,
                 pgdb_page_nr, pgdb, loaded, ret, handed_out, mapped>>

Stopped == pc \in {"main", "halt", "fault"} /\ UNCHANGED vars

Next ==
  \/ FindTags \/ RootTable \/ Section \/ UnknownSection \/ BssPage \/ BssEnds
  \/ FrameBuffer \/ DirectMap \/ PhysmemEnds \/ DatabasePage \/ LoadTable
  \/ RegionPage \/ RegionEnds \/ WalkDown \/ NewTable \/ WriteEntry
  \/ SkipUsed \/ OutOfMemory
  \/ MarkEntry \/ MarkPage \/ MarksEnd \/ Fault \/ EnterMain \/ Stopped

Spec == Init /\ [][Next]_vars

(* The boot code runs alone and with interrupts off. *)
FairSpec == Spec /\ WF_vars(Next)

-----------------------------------------------------------------------------
FramesOf(start, end) == {f \in Frames : start < (f + 1) * PAGE_SIZE /\ f * PAGE_SIZE < end}
WholeFramesOf(start, end) == {f \in Frames : start <= f * PAGE_SIZE /\ (f + 1) * PAGE_SIZE <= end}

Available == UNION {WholeFramesOf(mmap[e].addr, mmap[e].addr + mmap[e].len) :
                      e \in {d \in DOMAIN mmap : mmap[d].type = "available"}}

UsedFrames == {f \in Frames : addr_is_in_used_range(f * PAGE_SIZE)}

(* What pages_pool_init will give to the page pool. *)
PoolFrames == {f \in Frames : pgdb[f].type = "available" /\ pgdb[f].ref_count < 0}

(* The frames of the image, less the page with the multiboot header. *)
ImageFrames ==
  (UNION {FramesOf(SegStart(s), SegStart(s) + s.size) :
            s \in {t \in ToSet(sections) : t.alloc /\ HasBit(t.type, 1)}})
    \ {KERNEL_LOAD \div PAGE_SIZE}

TypeOK ==
  /\ machine \in Machines
  /\ curr_entry \in 0 .. Len(mmap) /\ curr_entry_idx \in 0 .. Len(mmap)
  /\ {curr_avail, curr_end} \subseteq Nat
  /\ \A f \in Frames : \A x \in 0 .. PT_ENTRIES - 1 :
       table[f][x] = None \/ table[f][x] \in [frame : Frames, rw : BOOLEAN]
  /\ boot_kern_pgtable \in Frames
  /\ walk.level \in 1..4
  /\ ToSet(handed_out) \subseteq Frames
  /\ ret \in {0, ENOMEM, EFAULT}

(* The boot allocator hands out no page twice, only pages that lie wholly  *)
(* in available memory, and none that addr_is_in_used_range protects.      *)
FreshPages ==
  /\ IsInjective(handed_out)
  /\ ToSet(handed_out) \subseteq Available \ UsedFrames

(* Whatever was mapped since then, and wherever the tables came from, each *)
(* address mapped so far is translated by the tables in memory to the      *)
(* frame and the write permission it was given last.                       *)
Translates ==
  \A v \in DOMAIN mapped : Translated(v) = mapped[v]

(* The image of the kernel is neither handed out nor left to the page      *)
(* pool: the range that addr_is_in_used_range tests lies one page above    *)
(* the range that is mapped, and the sections cover for one another.       *)
ImageKept == ImageFrames \cap (ToSet(handed_out) \cup PoolFrames) = {}

(* The usual memory map: whole frames, entries in ascending order. *)
UsualMap ==
  /\ \A e \in DOMAIN mmap : mmap[e].addr % PAGE_SIZE = 0 /\ mmap[e].len % PAGE_SIZE = 0
  /\ \A d, e \in DOMAIN mmap : d < e => mmap[d].addr + mmap[d].len <= mmap[e].addr

(* When boot succeeds on a map whose entries are in ascending order and    *)
(* made of whole frames, the page pool is given exactly the frames of      *)
(* available memory that boot has not used.                                *)
PoolGetsTheRest ==
  pc = "main" /\ loaded /\ UsualMap =>
    PoolFrames = Available \ (ToSet(handed_out) \cup UsedFrames)

PartialRegion == \E e \in DOMAIN mmap : mmap[e].len % PAGE_SIZE # 0

(* Once the table is loaded, every page of the memory map is in the direct *)
(* mapping area and every descriptor of the database has a page handed out *)
(* for it.  The descriptors written are in the database, but for one past  *)
(* its end when a region is not a number of whole frames long; that one    *)
(* makes boot fault when the database fills its last page, and nothing     *)
(* else does any more.                                                     *)
KernelCanReach ==
  loaded =>
    /\ \A e \in DOMAIN mmap :
         \A f \in WholeFramesOf(mmap[e].addr, mmap[e].addr + mmap[e].len) :
           DIRECT_MAP_BASE + f <= DIRECT_MAP_END =>
             Translated(DIRECT_MAP_BASE + f) = Entry(f, TRUE)
    /\ \A p \in 0 .. pgdb_page_nr - 1 :
         LET e == Translated(PAGE_DATABASE_BASE + p \div PGDB_PG_PAGE_NR)
         IN  e # None /\ e.frame \in ToSet(handed_out)
    /\ \A f \in Frames : pgdb[f].type # "non_existed" =>
         \/ f < pgdb_page_nr
         \/ f = pgdb_page_nr /\ PartialRegion
    /\ pc = "fault" => pgdb_page_nr % PGDB_PG_PAGE_NR = 0 /\ PartialRegion

(* No loop of boot goes on for ever, on a machine with too little memory   *)
(* as well: main is entered, boot_main halts, or the processor faults.     *)
Ends == <>(pc \in {"main", "halt", "fault"})

(* boot_main.cpp:38-41: when the initialisation of memory fails boot_main  *)
(* says so, "Abort booting", and halts.  Boot does not end in another way  *)
(* after boot_mm_pgtable_init has returned an error.                       *)
FailureAborts == ret # 0 => pc \notin {"main", "fault"}
=============================================================================
