------------------------------ MODULE MCBootMM ------------------------------
(***************************************************************************)
(* Machines for BootMM: frames of two words, tables of eight entries,      *)
(* eight descriptors in a page of the database.  The image is loaded at    *)
(* frame 2: the header page, three of boot code, two of text.              *)
(***************************************************************************)
EXTENDS BootMM

FewFrames == 0..44

Avail(a, n) == [addr |-> a, len |-> n, type |-> "available"]
Reserved(a, n) == [addr |-> a, len |-> n, type |-> "reserved"]

Sect(type, addr, offset, size, write) ==
  [type |-> type, alloc |-> TRUE, addr |-> addr, offset |-> offset, size |-> size, write |-> write]
NotLoaded == [type |-> 3, alloc |-> FALSE, addr |-> 0, offset |-> 20, size |-> 3, write |-> FALSE]

Kernel == <<Sect(1, 2, 2, 8, TRUE), Sect(1, 3584, 10, 3, FALSE), NotLoaded,
            Sect(8, 3588, 14, 3, TRUE)>>
Strange == <<Sect(1, 2, 2, 8, TRUE), Sect(4, 3584, 10, 3, FALSE)>>

Machine(m, s, fb, mbi) ==
  [mmap |-> m, sections |-> s, fb |-> fb, mbi |-> [start |-> mbi, end |-> mbi + 2],
   tags |-> {"mmap", "elf"}]

Screen == {[base |-> 84, end |-> 88]}

(* Memory maps in ascending order, made of whole frames: a hole, reserved  *)
(* frames and small regions in it; tags low, or in memory that boot leaves *)
(* alone; a screen outside the map; and too little memory at any point of  *)
(* the boot.                                                               *)
WholeMaps ==
  {<<Avail(0, 64)>>,
   <<Avail(0, 2), Reserved(2, 2), Avail(4, 72)>>,
   <<Avail(0, 14), Reserved(14, 4), Avail(18, 46), Reserved(64, 2), Avail(70, 12)>>,
   <<Reserved(0, 2), Avail(2, 70), Reserved(72, 2)>>}
LittleMaps == {<<Avail(0, n), Reserved(n, 2)>> : n \in {2 * k : k \in 5..31}}

WholeMachines ==
  {Machine(m, Kernel, fb, mbi) : m \in WholeMaps, fb \in {{}, Screen}, mbi \in {18, 60}}
    \cup {Machine(m, Kernel, {}, 18) : m \in LittleMaps}
    \cup {Machine(<<Avail(0, 64)>>, Strange, {}, 18),
          [Machine(<<Avail(0, 64)>>, Kernel, {}, 18) EXCEPT !.tags = {"elf"}]}

(* Regions that begin or end inside a frame, shorter than one, or in no    *)
(* order; the last one has a descriptor that is in no page.                *)
PartialMachines ==
  {Machine(m, Kernel, {}, 18) :
     m \in {<<Avail(0, 13), Reserved(13, 1), Avail(14, 60)>>,
            <<Reserved(0, 1), Avail(1, 71)>>,
            <<Avail(0, 5), Reserved(5, 2), Avail(7, 1), Avail(9, 65)>>,
            <<Avail(30, 46), Avail(0, 30)>>,
            <<Avail(0, 64), Reserved(64, 1), Avail(65, 6)>>,
            <<Avail(0, 64), Avail(66, 5)>>,
            <<Avail(0, 64), Reserved(64, 1)>>}}

AllMachines == WholeMachines \cup PartialMachines
=============================================================================
