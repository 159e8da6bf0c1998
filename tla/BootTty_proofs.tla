--------------------------- MODULE BootTty_proofs ---------------------------
(***************************************************************************)
(* Proofs about BootTty: the serial port in use is set up, the text gets   *)
(* to its far end and to the screen, and numbers are printed as what they  *)
(* are, whatever is printed and on every machine.                          *)
(***************************************************************************)
EXTENDS BootTty, SequenceTheorems, Induction

-----------------------------------------------------------------------------
(* The chip.                                                               *)

Registers == {"ier", "lcr", "mcr", "fcr", "dll", "dlm", "rx"}

(* A port is a record: what is in its fields is not restricted.            *)
IsPort(u) ==
  /\ DOMAIN u = Registers \union {"kind", "thr", "wire"}
  /\ u.kind \in Kinds

(* A port that answers, after the first n writes of boot_init_com_internal.*)
(* The test byte is sent in loopback mode and comes back if the port works.*)
SetUp(u, n) ==
  /\ n >= 1 => u.ier = 0
  /\ u.lcr = IF n \in 2..4 THEN 128 ELSE 3
  /\ n >= 3 => u.dll = 3
  /\ n >= 4 => u.dlm = 0
  /\ n >= 6 => u.fcr = 199
  /\ n \in 6..8 => u.rx = 0
  /\ u.mcr = IF n < 7 THEN 0 ELSE IF n = 7 THEN 11 ELSE 30
  /\ n < 9 => u.thr = <<>>
  /\ n = 9 => \/ u.thr = <<TestByte>> /\ u.rx = 0
              \/ u.thr = <<>> /\ u.rx = IF u.kind = "working" THEN TestByte ELSE 0

After(u, n) ==
  /\ u.wire = <<>>
  /\ IF u.kind = "absent" THEN u.thr = <<>> ELSE SetUp(u, n)

(* The port in use, and a port from which nothing leaves.                  *)
Used(u) ==
  /\ u.kind = "working"
  /\ u.ier = 0 /\ u.lcr = 3 /\ u.dll = 3 /\ u.dlm = 0 /\ u.fcr = 199 /\ u.mcr = 15

Quiet(u) ==
  /\ u.wire = <<>>
  /\ Loopback(u) \/ u.thr = <<>>

LEMMA Bits ==
  /\ ~Has(3, 128) /\ Has(128, 128)
  /\ Has(30, 16) /\ ~Has(15, 16)
  /\ Has(199, 4) /\ Has(199, 2) /\ Has(199, 1)
  BY DEF Has

LEMMA Values ==
  /\ COM_REG.TX = 0 /\ COM_REG.DLL = 0 /\ COM_REG.IER = 1 /\ COM_REG.DLM = 1
  /\ COM_REG.FCR = 2 /\ COM_REG.LCR = 3 /\ COM_REG.MCR = 4
  /\ COM_LCR.DLAB_ON = 128 /\ COM_LCR.DB_WLEN_8 = 3
  /\ COM_LCR.DB_WLEN_8 + COM_LCR.SB_ONE + COM_LCR.DLAB_OFF = 3
  /\ COM_LCR.DB_WLEN_8 + COM_LCR.SB_ONE + COM_LCR.PB_NO = 3
  /\ COM_FCR.ITLB_TL_14 + COM_FCR.CTFB_ON + COM_FCR.CRFB_ON + COM_FCR.EFB_ON = 199
  /\ COM_FCR.CTFB_ON = 4 /\ COM_FCR.CRFB_ON = 2 /\ COM_FCR.EFB_ON = 1
  /\ COM_MCR.OUT2_ON + COM_MCR.RTSB_ON + COM_MCR.DTRB_ON = 11
  /\ COM_MCR.LB_ON + COM_MCR.OUT2_ON + COM_MCR.OUT1_ON + COM_MCR.RTSB_ON = 30
  /\ COM_MCR.LB_ON = 16 /\ Normal = 15
  BY DEF COM_REG, COM_LCR, COM_FCR, COM_MCR, Normal

LEMMA Sequence ==
  /\ Len(Setup) = 9
  /\ Setup[1] = <<1, 0>> /\ Setup[2] = <<3, 128>> /\ Setup[3] = <<0, 3>> /\ Setup[4] = <<1, 0>>
  /\ Setup[5] = <<3, 3>> /\ Setup[6] = <<2, 199>> /\ Setup[7] = <<4, 11>> /\ Setup[8] = <<4, 30>>
  /\ Setup[9] = <<0, TestByte>>
  BY Values DEF Setup

(* What a write does to a port that answers, register by register.         *)
LEMMA WritesTX ==
  ASSUME NEW u, u.kind # "absent", NEW x
  PROVE  Written(u, 0, x) = IF DLAB(u) THEN [u EXCEPT !.dll = x] ELSE [u EXCEPT !.thr = <<x>>]
  BY Values DEF Written

LEMMA WritesIER ==
  ASSUME NEW u, u.kind # "absent", NEW x
  PROVE  Written(u, 1, x) = IF DLAB(u) THEN [u EXCEPT !.dlm = x] ELSE [u EXCEPT !.ier = x]
  BY Values DEF Written

LEMMA WritesFCR ==
  ASSUME NEW u, u.kind # "absent"
  PROVE  Written(u, 2, 199) = [u EXCEPT !.fcr = 199, !.thr = <<>>, !.rx = 0]
  BY Values, Bits DEF Written

LEMMA WritesLCR ==
  ASSUME NEW u, u.kind # "absent", NEW x
  PROVE  Written(u, 3, x) = [u EXCEPT !.lcr = x]
  BY Values DEF Written

LEMMA WritesMCR ==
  ASSUME NEW u, u.kind # "absent", NEW x
  PROVE  Written(u, 4, x) = [u EXCEPT !.mcr = x]
  BY Values DEF Written

LEMMA WritesNothing ==
  ASSUME NEW u, u.kind = "absent", NEW r, NEW v
  PROVE  Written(u, r, v) = u
  BY DEF Written

(* A port of which a field was changed is a port.                          *)
LEMMA Shape ==
  ASSUME NEW u, IsPort(u), NEW x, NEW r \in Registers \union {"thr"}
  PROVE  LET v == [u EXCEPT ![r] = x]
         IN  IsPort(v) /\ v.kind = u.kind /\ v.wire = u.wire
<1>1. r # "kind" /\ r # "wire"
  BY DEF Registers
<1> QED
  BY <1>1 DEF IsPort

(* The writes of boot_init_com_internal, one after the other.              *)
LEMMA WriteSetsUp ==
  ASSUME NEW u, IsPort(u), NEW n \in 0..8, After(u, n)
  PROVE  LET v == Written(u, Setup[n + 1][1], Setup[n + 1][2])
         IN  IsPort(v) /\ After(v, n + 1)
<1> DEFINE v == Written(u, Setup[n + 1][1], Setup[n + 1][2])
<1>1. CASE u.kind = "absent"
  BY <1>1, WritesNothing DEF After
<1>2. CASE u.kind # "absent"
  <2>1. SetUp(u, n) /\ u.wire = <<>>
    BY <1>2 DEF After
  <2>2. DLAB(u) <=> n \in 2..4
    BY <2>1, Bits, Values DEF DLAB, SetUp
  <2> SUFFICES IsPort(v) /\ v.kind = u.kind /\ v.wire = u.wire /\ SetUp(v, n + 1)
    BY <1>2, <2>1 DEF After
  <2>3. CASE n = 0
    <3>0. v = Written(u, 1, 0)
      BY <2>3, Sequence
    <3>1. v = [u EXCEPT !.ier = 0]
      BY <2>3, <3>0, <1>2, <2>2, WritesIER
    <3> HIDE DEF v
    <3>2. IsPort(v) /\ v.kind = u.kind /\ v.wire = u.wire
      BY <3>1, Shape DEF Registers
    <3>3. SetUp(v, 1)
      BY <2>3, <2>1, <3>1 DEF SetUp, IsPort, Registers
    <3> QED
      BY <2>3, <3>2, <3>3
  <2>4. CASE n = 1
    <3>0. v = Written(u, 3, 128)
      BY <2>4, Sequence
    <3>1. v = [u EXCEPT !.lcr = 128]
      BY <3>0, <1>2, WritesLCR
    <3> HIDE DEF v
    <3>2. IsPort(v) /\ v.kind = u.kind /\ v.wire = u.wire
      BY <3>1, Shape, ZenonT(60) DEF Registers
    <3>3. SetUp(v, 2)
      BY <2>4, <2>1, <3>1 DEF SetUp, IsPort, Registers
    <3> QED
      BY <2>4, <3>2, <3>3
  <2>5. CASE n = 2
    <3>0. v = Written(u, 0, 3)
      BY <2>5, Sequence
    <3>1. v = [u EXCEPT !.dll = 3]
      BY <2>5, <3>0, <1>2, <2>2, WritesTX
    <3> HIDE DEF v
    <3>2. IsPort(v) /\ v.kind = u.kind /\ v.wire = u.wire
      BY <3>1, Shape DEF Registers
    <3>3. SetUp(v, 3)
      BY <2>5, <2>1, <3>1 DEF SetUp, IsPort, Registers
    <3> QED
      BY <2>5, <3>2, <3>3
  <2>6. CASE n = 3
    <3>0. v = Written(u, 1, 0)
      BY <2>6, Sequence
    <3>1. v = [u EXCEPT !.dlm = 0]
      BY <2>6, <3>0, <1>2, <2>2, WritesIER
    <3> HIDE DEF v
    <3>2. IsPort(v) /\ v.kind = u.kind /\ v.wire = u.wire
      BY <3>1, Shape DEF Registers
    <3>3. SetUp(v, 4)
      BY <2>6, <2>1, <3>1 DEF SetUp, IsPort, Registers
    <3> QED
      BY <2>6, <3>2, <3>3
  <2>7. CASE n = 4
    <3>0. v = Written(u, 3, 3)
      BY <2>7, Sequence
    <3>1. v = [u EXCEPT !.lcr = 3]
      BY <3>0, <1>2, WritesLCR
    <3> HIDE DEF v
    <3>2. IsPort(v) /\ v.kind = u.kind /\ v.wire = u.wire
      BY <3>1, Shape DEF Registers
    <3>3. SetUp(v, 5)
      BY <2>7, <2>1, <3>1 DEF SetUp, IsPort, Registers
    <3> QED
      BY <2>7, <3>2, <3>3
  <2>8. CASE n = 5
    <3>0. v = Written(u, 2, 199)
      BY <2>8, Sequence
    <3>1. v = [u EXCEPT !.fcr = 199, !.thr = <<>>, !.rx = 0]
      BY <3>0, <1>2, WritesFCR
    <3> HIDE DEF v
    <3>2. IsPort(v) /\ v.kind = u.kind /\ v.wire = u.wire
      BY <3>1 DEF IsPort, Registers
    <3>3. SetUp(v, 6)
      <4>1. /\ v.fcr = 199 /\ v.thr = <<>> /\ v.rx = 0
            /\ v.ier = u.ier /\ v.lcr = u.lcr /\ v.dll = u.dll /\ v.dlm = u.dlm /\ v.mcr = u.mcr
        BY <3>1 DEF IsPort, Registers
      <4>2. u.ier = 0 /\ u.lcr = 3 /\ u.dll = 3 /\ u.dlm = 0 /\ u.mcr = 0
        BY <2>8, <2>1 DEF SetUp
      <4> QED
        BY <4>1, <4>2 DEF SetUp
    <3> QED
      BY <2>8, <3>2, <3>3
  <2>9. CASE n = 6
    <3>0. v = Written(u, 4, 11)
      BY <2>9, Sequence
    <3>1. v = [u EXCEPT !.mcr = 11]
      BY <3>0, <1>2, WritesMCR
    <3> HIDE DEF v
    <3>2. IsPort(v) /\ v.kind = u.kind /\ v.wire = u.wire
      BY <3>1, Shape DEF Registers
    <3>3. SetUp(v, 7)
      BY <2>9, <2>1, <3>1 DEF SetUp, IsPort, Registers
    <3> QED
      BY <2>9, <3>2, <3>3
  <2>10. CASE n = 7
    <3>0. v = Written(u, 4, 30)
      BY <2>10, Sequence
    <3>1. v = [u EXCEPT !.mcr = 30]
      BY <3>0, <1>2, WritesMCR
    <3> HIDE DEF v
    <3>2. IsPort(v) /\ v.kind = u.kind /\ v.wire = u.wire
      BY <3>1, Shape DEF Registers
    <3>3. SetUp(v, 8)
      BY <2>10, <2>1, <3>1 DEF SetUp, IsPort, Registers
    <3> QED
      BY <2>10, <3>2, <3>3
  <2>11. CASE n = 8
    <3>0. v = Written(u, 0, TestByte)
      BY <2>11, Sequence
    <3>1. v = [u EXCEPT !.thr = <<TestByte>>]
      BY <2>11, <3>0, <1>2, <2>2, WritesTX
    <3> HIDE DEF v
    <3>2. IsPort(v) /\ v.kind = u.kind /\ v.wire = u.wire
      BY <3>1, Shape DEF Registers
    <3>3. SetUp(v, 9)
      BY <2>11, <2>1, <3>1 DEF SetUp, IsPort, Registers
    <3> QED
      BY <2>11, <3>2, <3>3
  <2> QED
    BY <2>3, <2>4, <2>5, <2>6, <2>7, <2>8, <2>9, <2>10, <2>11
<1> QED
  BY <1>1, <1>2

LEMMA AfterIsQuiet ==
  ASSUME NEW u, NEW n \in 0..9, After(u, n)
  PROVE  Quiet(u)
  BY Bits, Values DEF After, SetUp, Quiet, Loopback

(* The byte comes back, and the port is put into normal mode.              *)
LEMMA FoundIsUsed ==
  ASSUME NEW u, IsPort(u), After(u, 9), ReadRX(u) = TestByte
  PROVE  LET v == Written(u, COM_REG.MCR, Normal)
         IN  IsPort(v) /\ Used(v) /\ v.wire = <<>> /\ v.thr = <<>>
<1>1. u.kind = "working" /\ u.thr = <<>>
  BY DEF After, SetUp, ReadRX, TestByte, IsPort, Kinds
<1>2. Written(u, COM_REG.MCR, Normal) = [u EXCEPT !.mcr = 15]
  BY <1>1, WritesMCR, Values
<1>3. u.ier = 0 /\ u.lcr = 3 /\ u.dll = 3 /\ u.dlm = 0 /\ u.fcr = 199 /\ u.wire = <<>>
  BY <1>1 DEF After, SetUp
<1> QED
  BY <1>1, <1>2, <1>3 DEF IsPort, Used, Registers

(* A byte for the port in use.                                             *)
LEMMA SendKeeps ==
  ASSUME NEW u, IsPort(u), Used(u), NEW x
  PROVE  LET v == Written(u, COM_REG.TX, x)
         IN  IsPort(v) /\ Used(v) /\ v.wire = u.wire /\ v.thr = <<x>>
<1>1. u.kind # "absent" /\ ~DLAB(u)
  BY Bits, Values DEF Used, DLAB
<1>2. Written(u, COM_REG.TX, x) = [u EXCEPT !.thr = <<x>>]
  BY <1>1, WritesTX, Values
<1> QED
  BY <1>2 DEF IsPort, Used, Registers

(* A character that leaves, while the port is set up, when it is left in   *)
(* loopback mode and when it is in use.                                    *)
LEMMA TransmitKeeps ==
  ASSUME NEW u, IsPort(u), u.thr # <<>>
  PROVE  LET v == Transmitted(u)
         IN  /\ IsPort(v)
             /\ Quiet(u) => Quiet(v)
             /\ \A n \in 0..9 : After(u, n) => After(v, n)
             /\ Used(u) => Used(v) /\ v.thr = <<>> /\ v.wire = Append(u.wire, Head(u.thr))
<1> DEFINE v == Transmitted(u)
<1>1. CASE Loopback(u)
  <2>1. v = [u EXCEPT !.thr = <<>>, !.rx = IF u.kind = "working" THEN Head(u.thr) ELSE u.rx]
    BY <1>1 DEF Transmitted
  <2> HIDE DEF v
  <2>2. IsPort(v)
    BY <2>1 DEF IsPort, Registers
  <2>3. Quiet(u) => Quiet(v)
    BY <1>1, <2>1 DEF IsPort, Registers, Quiet, Loopback
  <2>4. \A n \in 0..9 : After(u, n) => After(v, n)
    <3> SUFFICES ASSUME NEW n \in 0..9, After(u, n) PROVE After(v, n)
      OBVIOUS
    <3>1. n = 9 /\ u.kind # "absent" /\ u.thr = <<TestByte>> /\ u.rx = 0 /\ u.wire = <<>>
      BY DEF After, SetUp
    <3>2. /\ v.kind = u.kind /\ v.wire = u.wire /\ v.thr = <<>>
          /\ v.rx = IF u.kind = "working" THEN TestByte ELSE 0
          /\ v.ier = u.ier /\ v.lcr = u.lcr /\ v.dll = u.dll /\ v.dlm = u.dlm /\ v.fcr = u.fcr /\ v.mcr = u.mcr
      BY <2>1, <3>1 DEF IsPort, Registers
    <3> QED
      BY <3>1, <3>2 DEF After, SetUp
  <2>5. ~Used(u)
    BY <1>1, Bits, Values DEF Used, Loopback
  <2> QED
    BY <2>2, <2>3, <2>4, <2>5 DEF v
<1>2. CASE ~Loopback(u)
  <2>1. v = [u EXCEPT !.thr = <<>>, !.wire = Append(u.wire, IF Understood(u) THEN Head(u.thr) ELSE Garbage)]
    BY <1>2 DEF Transmitted
  <2> HIDE DEF v
  <2>2. IsPort(v)
    BY <2>1 DEF IsPort, Registers
  <2>3. ~Quiet(u)
    BY <1>2 DEF Quiet
  <2>4. \A n \in 0..9 : ~After(u, n)
    BY <2>3, AfterIsQuiet
  <2>5. Used(u) => Used(v) /\ v.thr = <<>> /\ v.wire = Append(u.wire, Head(u.thr))
    <3>1. Used(u) => Understood(u)
      BY Values DEF Used, Understood
    <3> QED
      BY <2>1, <3>1 DEF IsPort, Registers, Used
  <2> QED
    BY <2>2, <2>3, <2>4, <2>5 DEF v
<1> QED
  BY <1>1, <1>2
-----------------------------------------------------------------------------
(* The invariant of the lines: what the two ports are while boot_tty_init  *)
(* looks for one, and after.                                               *)

Shapes ==
  /\ port = [p \in Coms |-> port[p]]
  /\ \A p \in Coms : IsPort(port[p])
  /\ at \in 1..10
  /\ com_base \in Coms \union {"none"}

Searching ==
  /\ boot = "fb" => at = 1
  /\ boot \in {"fb", "COM1"} => After(port["COM1"], at - 1) /\ After(port["COM2"], 0)
  /\ boot = "COM2" => After(port["COM2"], at - 1)
  /\ boot \in {"fb", "COM1", "COM2"} => com_base = "none" /\ putchar # "no_com"
  /\ boot = "failed" => com_base = "none"

OthersQuiet == \A p \in Coms \ {com_base} : Quiet(port[p])

InUse == com_base # "none" => Used(port[com_base]) /\ putchar # "no_com"

Lines == Shapes /\ Searching /\ OthersQuiet /\ InUse

LEMMA LinesInit == Init => Lines
<1> SUFFICES ASSUME Init PROVE Lines
  OBVIOUS
<1>1. PICK kind \in [Coms -> Kinds], ier \in {0, 1}, rx \in {0, TestByte} :
        port = [p \in Coms |-> Port(kind[p], ier, rx)]
  BY DEF Init
<1>2. \A p \in Coms : IsPort(port[p]) /\ After(port[p], 0)
  BY <1>1, Values DEF Port, IsPort, Registers, After, SetUp
<1>3. \A p \in Coms : Quiet(port[p])
  BY <1>2, AfterIsQuiet
<1> QED
  BY <1>1, <1>2, <1>3 DEF Init, Lines, Shapes, Searching, OthersQuiet, InUse, Coms

(* A step that leaves the ports and the search alone.                      *)
LEMMA LinesUnchanged ==
  ASSUME Lines, UNCHANGED <<port, at, com_base, putchar>>,
         boot' = boot \/ (boot = "clear" /\ boot' = "banner") \/ (boot = "banner" /\ boot' = "up")
  PROVE  Lines'
  BY DEF Lines, Shapes, Searching, OthersQuiet, InUse

LEMMA LinesGetFrameBuffer == Lines /\ GetFrameBuffer => Lines'
  BY DEF Lines, Shapes, Searching, OthersQuiet, InUse, GetFrameBuffer, driver, Coms

LEMMA LinesSetupPort ==
  ASSUME Lines, NEW p \in Coms, SetupPort(p)
  PROVE  Lines'
<1>1. boot = p /\ boot' = p /\ at \in 1..9 /\ at' = at + 1 /\ com_base = "none"
  BY Sequence DEF Lines, Shapes, Searching, SetupPort, Coms
<1>2. After(port[p], at - 1) /\ IsPort(port[p])
  BY <1>1 DEF Lines, Shapes, Searching, Coms
<1>3. port' = [port EXCEPT ![p] = Written(port[p], Setup[at][1], Setup[at][2])]
  BY DEF SetupPort
<1>4. IsPort(port'[p]) /\ After(port'[p], at)
  <2> DEFINE n == at - 1
  <2>1. n \in 0..8 /\ n + 1 = at
    BY <1>1
  <2>2. port'[p] = Written(port[p], Setup[n + 1][1], Setup[n + 1][2])
    BY <1>3, <2>1 DEF Lines, Shapes
  <2> HIDE DEF n
  <2> QED
    BY <1>2, <2>1, <2>2, WriteSetsUp
<1>5. Quiet(port'[p])
  BY <1>1, <1>4, AfterIsQuiet
<1>6. \A q \in Coms : q # p => port'[q] = port[q]
  BY <1>3 DEF Lines, Shapes
<1>7. Shapes'
  BY <1>1, <1>3, <1>4, <1>6 DEF Lines, Shapes, SetupPort
<1>8. Searching'
  BY <1>1, <1>4, <1>6 DEF Lines, Searching, SetupPort, Coms
<1> QED
  BY <1>1, <1>5, <1>6, <1>7, <1>8 DEF Lines, OthersQuiet, InUse, SetupPort

LEMMA LinesPortFound ==
  ASSUME Lines, NEW p \in Coms, PortFound(p)
  PROVE  Lines' /\ port'[p].wire = <<>> /\ port'[p].thr = <<>>
<1>1. boot = p /\ at = 10 /\ com_base' = p /\ boot' = "clear" /\ putchar' = putchar /\ putchar # "no_com"
  BY Sequence DEF Lines, Searching, PortFound, Coms
<1>2. After(port[p], 9) /\ IsPort(port[p])
  BY <1>1 DEF Lines, Shapes, Searching, Coms
<1>3. /\ port' = [port EXCEPT ![p] = Written(port[p], COM_REG.MCR, Normal)]
      /\ ReadRX(port[p]) = TestByte
  BY DEF PortFound
<1>4. port'[p] = Written(port[p], COM_REG.MCR, Normal)
  BY <1>3 DEF Lines, Shapes
<1>5. IsPort(port'[p]) /\ Used(port'[p]) /\ port'[p].wire = <<>> /\ port'[p].thr = <<>>
  BY <1>2, <1>3, <1>4, FoundIsUsed
<1>6. \A q \in Coms : q # p => port'[q] = port[q]
  BY <1>3 DEF Lines, Shapes
<1>7. com_base = "none"
  BY <1>1 DEF Lines, Searching, Coms
<1>8. Shapes'
  BY <1>1, <1>3, <1>5, <1>6 DEF Lines, Shapes, PortFound
<1> QED
  BY <1>1, <1>5, <1>6, <1>7, <1>8 DEF Lines, Searching, OthersQuiet, InUse, Coms

LEMMA LinesPortFaulty ==
  ASSUME Lines, NEW p \in Coms, PortFaulty(p)
  PROVE  Lines'
<1>1. boot = p /\ com_base = "none" /\ at' = 1 /\ UNCHANGED <<port, com_base>>
  BY DEF Lines, Searching, PortFaulty, Coms
<1>2. Shapes'
  BY <1>1 DEF Lines, Shapes
<1>3. OthersQuiet' /\ InUse'
  BY <1>1 DEF Lines, OthersQuiet, InUse
<1>4. CASE p = "COM1"
  <2>1. boot' = "COM2" /\ putchar' = putchar
    BY <1>4 DEF PortFaulty
  <2>2. After(port["COM2"], 0) /\ putchar # "no_com"
    BY <1>1, <1>4 DEF Lines, Searching
  <2> QED
    BY <1>1, <1>2, <1>3, <2>1, <2>2 DEF Lines, Searching
<1>5. CASE p = "COM2"
  <2>1. boot' \in {"clear", "failed"}
    BY <1>5 DEF PortFaulty
  <2> QED
    BY <1>1, <1>2, <1>3, <2>1 DEF Lines, Searching
<1> QED
  BY <1>4, <1>5 DEF Coms

LEMMA LinesSendByte == Lines /\ SendByte => Lines'
<1> SUFFICES ASSUME Lines, SendByte PROVE Lines'
  OBVIOUS
<1>1. PICK x : port' = [p \in Coms |-> IF p = com_base THEN Written(port[p], COM_REG.TX, x) ELSE port[p]]
  BY DEF SendByte
<1>2. UNCHANGED driver
  BY DEF SendByte
<1>3. CASE com_base = "none"
  <2>1. port' = port
    BY <1>1, <1>3 DEF Lines, Shapes, Coms
  <2> QED
    BY <1>2, <2>1, LinesUnchanged DEF driver
<1>4. CASE com_base # "none"
  <2>1. com_base \in Coms /\ Used(port[com_base]) /\ IsPort(port[com_base])
    BY <1>4 DEF Lines, Shapes, InUse
  <2>2. port'[com_base] = Written(port[com_base], COM_REG.TX, x)
    BY <1>1, <2>1
  <2>3. IsPort(port'[com_base]) /\ Used(port'[com_base])
    BY <2>1, <2>2, SendKeeps
  <2>4. \A q \in Coms : q # com_base => port'[q] = port[q]
    BY <1>1
  <2>5. Shapes'
    BY <1>1, <1>2, <2>3, <2>4 DEF Lines, Shapes, driver
  <2> QED
    BY <1>2, <1>4, <2>3, <2>4, <2>5 DEF Lines, Searching, OthersQuiet, InUse, driver
<1> QED
  BY <1>3, <1>4

LEMMA LinesTransmit ==
  ASSUME Lines, NEW p \in Coms, Transmit(p)
  PROVE  Lines'
<1>1. /\ port[p].thr # <<>>
      /\ port' = [port EXCEPT ![p] = Transmitted(port[p])]
      /\ UNCHANGED driver
  BY DEF Transmit
<1>2. IsPort(port[p]) /\ port'[p] = Transmitted(port[p])
  BY <1>1 DEF Lines, Shapes
<1>3. /\ IsPort(port'[p])
      /\ Quiet(port[p]) => Quiet(port'[p])
      /\ \A n \in 0..9 : After(port[p], n) => After(port'[p], n)
      /\ Used(port[p]) => Used(port'[p])
  BY <1>1, <1>2, TransmitKeeps
<1>4. \A q \in Coms : q # p => port'[q] = port[q]
  BY <1>1 DEF Lines, Shapes
<1>5. Shapes'
  BY <1>1, <1>3, <1>4 DEF Lines, Shapes, driver
<1>6. Searching'
  <2>1. at - 1 \in 0..9
    BY DEF Lines, Shapes
  <2> QED
    BY <1>1, <1>3, <1>4, <2>1 DEF Lines, Searching, driver, Coms
<1>7. OthersQuiet' /\ InUse'
  BY <1>1, <1>3, <1>4 DEF Lines, Shapes, OthersQuiet, InUse, driver
<1> QED
  BY <1>5, <1>6, <1>7 DEF Lines

LEMMA LinesNext == Lines /\ [Next]_vars => Lines'
<1> SUFFICES ASSUME Lines, [Next]_vars PROVE Lines'
  OBVIOUS
<1>1. CASE GetFrameBuffer
  BY <1>1, LinesGetFrameBuffer
<1>2. ASSUME NEW p \in Coms, SetupPort(p) PROVE Lines'
  BY <1>2, LinesSetupPort
<1>3. ASSUME NEW p \in Coms, PortFound(p) PROVE Lines'
  BY <1>3, LinesPortFound
<1>4. ASSUME NEW p \in Coms, PortFaulty(p) PROVE Lines'
  BY <1>4, LinesPortFaulty
<1>5. CASE ClearScreen
  BY <1>5, LinesUnchanged DEF ClearScreen
<1>6. CASE Banner
  BY <1>6, LinesUnchanged DEF Banner
<1>7. CASE PutChar
  BY <1>7, LinesUnchanged DEF PutChar, driver
<1>8. CASE SendByte
  BY <1>8, LinesSendByte
<1>9. CASE Poll \/ Rest \/ UNCHANGED vars
  BY <1>9, LinesUnchanged DEF Poll, Rest, vars, driver
<1>10. ASSUME NEW s, boot_printstr(s) \/ boot_printnum(s) \/ boot_printhex(s) PROVE Lines'
  BY <1>10, LinesUnchanged DEF boot_printstr, boot_printnum, boot_printhex, driver
<1>11. ASSUME NEW p \in Coms, Transmit(p) PROVE Lines'
  BY <1>11, LinesTransmit
<1> QED
  BY <1>1, <1>2, <1>3, <1>4, <1>5, <1>6, <1>7, <1>8, <1>9, <1>10, <1>11 DEF Next, Driver

LEMMA LinesHold == Spec => []Lines
<1> QED
  BY LinesInit, LinesNext, PTL DEF Spec

(* Whatever is printed, and whichever ports there are: the port that       *)
(* boot_init_com chose works, and is set up as its far end expects.        *)
THEOREM PreparedAlways == Spec => []LinePrepared
<1>1. Lines => LinePrepared
  <2> SUFFICES ASSUME Lines, com_base # "none" PROVE LinePrepared
    BY DEF LinePrepared
  <2>1. Used(port[com_base])
    BY DEF Lines, InUse
  <2> QED
    BY <2>1, Bits, Values DEF Used, LinePrepared, Understood, DLAB, Loopback
<1> QED
  BY <1>1, LinesHold, PTL
-----------------------------------------------------------------------------
(* The way of the text.                                                    *)

Low(s) == [k \in DOMAIN s |-> s[k] % 256]
LowOf(S) == {x % 256 : x \in S}

(* w was sent, t is in the chip, o is still to be given to it, and a was   *)
(* printed; S is any set that has the characters.                          *)
OnItsWay(w, t, o, a) ==
  \E S : /\ {w, t, o, a, Low(o), Low(a), ClearSequence} \subseteq Seq(S)
         /\ (w \o t) \o Low(o) = ClearSequence \o Low(a)

LEMMA LowIsSeq ==
  ASSUME NEW S, NEW s \in Seq(S)
  PROVE  /\ Low(s) \in Seq(LowOf(S))
         /\ Len(Low(s)) = Len(s)
         /\ \A k \in 1..Len(s) : Low(s)[k] = s[k] % 256
<1>1. DOMAIN s = 1..Len(s) /\ Len(s) \in Nat /\ \A k \in 1..Len(s) : s[k] \in S
  BY LenProperties, ElementOfSeq
<1>2. Low(s) \in [1..Len(s) -> LowOf(S)]
  BY <1>1, Zenon DEF Low, LowOf
<1>3. Low(s) \in Seq(LowOf(S))
  BY <1>1, <1>2
<1>4. Len(Low(s)) = Len(s)
  BY <1>1, <1>2
<1> QED
  BY <1>1, <1>3, <1>4 DEF Low

LEMMA SeqByElements ==
  ASSUME NEW S, NEW T, NEW s \in Seq(T), \A k \in 1..Len(s) : s[k] \in S
  PROVE  s \in Seq(S)
<1>1. Len(s) \in Nat /\ s \in [1..Len(s) -> T]
  BY LenProperties
<1>2. s \in [1..Len(s) -> S]
  BY <1>1
<1> QED
  BY <1>1, <1>2

LEMMA LowHead ==
  ASSUME NEW S, NEW s \in Seq(S), Low(s) \in Seq(S), s # <<>>
  PROVE  /\ Tail(s) \in Seq(S) /\ Low(Tail(s)) \in Seq(S) /\ <<Head(s) % 256>> \in Seq(S)
         /\ Low(s) = <<Head(s) % 256>> \o Low(Tail(s))
<1> DEFINE t == Tail(s)
           L == Low(t)
           h == <<Head(s) % 256>>
           c == h \o L
<1>1. /\ t \in Seq(S) /\ Len(t) = Len(s) - 1
      /\ \A k \in 1..Len(s) - 1 : t[k] = s[k + 1]
      /\ Len(s) \in Nat \ {0} /\ Head(s) = s[1]
  BY HeadTailProperties, EmptySeq
<1>2. /\ Len(Low(s)) = Len(s)
      /\ \A k \in 1..Len(s) : Low(s)[k] = s[k] % 256
  BY LowIsSeq, ZenonT(60)
<1> HIDE DEF t
<1>3. /\ L \in Seq(LowOf(S))
      /\ Len(L) = Len(s) - 1
      /\ \A k \in 1..Len(s) - 1 : L[k] = t[k] % 256
  <2>1. t \in Seq(S)
    BY <1>1
  <2>2. /\ Low(t) \in Seq(LowOf(S)) /\ Len(Low(t)) = Len(t)
        /\ \A k \in 1..Len(t) : Low(t)[k] = t[k] % 256
    BY <2>1, LowIsSeq, ZenonT(60)
  <2> QED
    BY <1>1, <2>2
<1>4. \A k \in 1..Len(s) - 1 : L[k] = Low(s)[k + 1]
  <2> TAKE k \in 1..Len(s) - 1
  <2>1. k + 1 \in 1..Len(s)
    BY <1>1
  <2> QED
    BY <1>1, <1>2, <1>3, <2>1, SMTT(60)
<1> HIDE DEF L
<1>5. \A k \in 1..Len(s) : Low(s)[k] \in S
  <2>1. 1..Len(s) = 1..Len(Low(s))
    BY <1>2
  <2> QED
    BY <2>1, ElementOfSeq
<1>6. L \in Seq(S)
  <2>1. \A k \in 1..Len(L) : L[k] \in S
    <3> TAKE k \in 1..Len(L)
    <3>1. k \in 1..Len(s) - 1 /\ k + 1 \in 1..Len(s)
      BY <1>1, <1>3
    <3> QED
      BY <1>4, <1>5, <3>1
  <2> QED
    BY <1>3, <2>1, SeqByElements
<1>7. h \in Seq(S) /\ Len(h) = 1 /\ h[1] = Low(s)[1]
  <2>1. Head(s) % 256 = Low(s)[1] /\ Low(s)[1] \in S
    BY <1>1, <1>2, <1>5
  <2> QED
    BY <2>1
<1> HIDE DEF h
<1>8. /\ c \in Seq(S) /\ Len(c) = Len(s)
      /\ \A k \in 1..Len(s) : c[k] = IF k <= 1 THEN h[k] ELSE L[k - 1]
  <2>1. /\ c \in Seq(S) /\ Len(c) = Len(h) + Len(L)
        /\ \A k \in 1..Len(h) + Len(L) : c[k] = IF k <= Len(h) THEN h[k] ELSE L[k - Len(h)]
    BY <1>6, <1>7, ConcatProperties
  <2>2. Len(h) + Len(L) = Len(s)
    BY <1>1, <1>3, <1>7
  <2> QED
    BY <1>7, <2>1, <2>2
<1>9. \A k \in 1..Len(s) : c[k] = Low(s)[k]
  <2> TAKE k \in 1..Len(s)
  <2>1. CASE k = 1
    BY <1>7, <1>8, <2>1
  <2>2. CASE k # 1
    <3>1. k - 1 \in 1..Len(s) - 1 /\ (k - 1) + 1 = k /\ ~(k <= 1)
      BY <1>1, <2>2
    <3>2. L[k - 1] = Low(s)[k]
      BY <1>4, <3>1
    <3> QED
      BY <1>8, <3>1, <3>2
  <2> QED
    BY <2>1, <2>2
<1>10. Low(s) = c
  <2> HIDE DEF c
  <2> QED
    BY <1>2, <1>8, <1>9, SeqEqual
<1> QED
  BY <1>1, <1>6, <1>7, <1>10 DEF t, L, h

LEMMA LowAppend ==
  ASSUME NEW S, NEW s \in Seq(S), Low(s) \in Seq(S), NEW x \in S, x % 256 \in S
  PROVE  /\ Append(s, x) \in Seq(S)
         /\ Low(Append(s, x)) = Low(s) \o <<x % 256>>
         /\ Low(Append(s, x)) \in Seq(S)
<1> DEFINE t == Append(s, x)
           h == <<x % 256>>
           c == Low(s) \o h
<1>1. /\ t \in Seq(S) /\ Len(t) = Len(s) + 1 /\ Len(s) \in Nat
      /\ \A k \in 1..Len(s) : t[k] = s[k]
      /\ t[Len(s) + 1] = x
  OBVIOUS
<1>2. /\ Len(Low(s)) = Len(s)
      /\ \A k \in 1..Len(s) : Low(s)[k] = s[k] % 256
  BY LowIsSeq, ZenonT(60)
<1> HIDE DEF t
<1>3. /\ Low(t) \in Seq(LowOf(S))
      /\ Len(Low(t)) = Len(s) + 1
      /\ \A k \in 1..Len(s) + 1 : Low(t)[k] = t[k] % 256
  <2>1. /\ Low(t) \in Seq(LowOf(S)) /\ Len(Low(t)) = Len(t)
        /\ \A k \in 1..Len(t) : Low(t)[k] = t[k] % 256
    BY <1>1, LowIsSeq, ZenonT(60)
  <2> QED
    BY <1>1, <2>1
<1>4. h \in Seq(S) /\ Len(h) = 1 /\ h[1] = x % 256
  OBVIOUS
<1> HIDE DEF h
<1>5. /\ c \in Seq(S) /\ Len(c) = Len(s) + 1
      /\ \A k \in 1..Len(s) + 1 : c[k] = IF k <= Len(s) THEN Low(s)[k] ELSE h[k - Len(s)]
  <2>1. /\ c \in Seq(S) /\ Len(c) = Len(Low(s)) + Len(h)
        /\ \A k \in 1..Len(Low(s)) + Len(h) :
             c[k] = IF k <= Len(Low(s)) THEN Low(s)[k] ELSE h[k - Len(Low(s))]
    BY <1>4, ConcatProperties, ZenonT(60)
  <2> QED
    BY <1>2, <1>4, <2>1
<1> HIDE DEF c
<1>6. \A k \in 1..Len(s) + 1 : Low(t)[k] = c[k]
  <2> TAKE k \in 1..Len(s) + 1
  <2>1. CASE k = Len(s) + 1
    <3>1. k - Len(s) = 1 /\ ~(k <= Len(s))
      BY <1>1, <2>1
    <3> QED
      BY <1>1, <1>3, <1>4, <1>5, <2>1, <3>1, ZenonT(60)
  <2>2. CASE k # Len(s) + 1
    <3>1. k \in 1..Len(s) /\ k <= Len(s)
      BY <1>1, <2>2
    <3> QED
      BY <1>1, <1>2, <1>3, <1>5, <3>1, SMTT(60)
  <2> QED
    BY <2>1, <2>2
<1>7. Low(t) = c
  <2>1. c \in Seq(S \union LowOf(S)) /\ Low(t) \in Seq(S \union LowOf(S))
    BY <1>3, <1>5, SeqMonotonic
  <2> QED
    BY <1>3, <1>5, <1>6, <2>1, SeqEqual
<1> QED
  BY <1>1, <1>5, <1>7 DEF t, h, c

(* The sequence that clears the screen is what is to be sent first.        *)
LEMMA WayBegins == OnItsWay(<<>>, <<>>, ClearSequence, <<>>)
<1>1. ClearSequence \in Seq(Int) /\ Len(ClearSequence) = 8
  BY DEF ClearSequence
<1>2. \A k \in 1..8 : ClearSequence[k] % 256 = ClearSequence[k]
  BY DEF ClearSequence
<1>3. /\ Low(ClearSequence) \in Seq(LowOf(Int)) /\ Len(Low(ClearSequence)) = 8
      /\ \A k \in 1..8 : Low(ClearSequence)[k] = ClearSequence[k]
  <2>1. /\ Low(ClearSequence) \in Seq(LowOf(Int)) /\ Len(Low(ClearSequence)) = Len(ClearSequence)
        /\ \A k \in 1..Len(ClearSequence) : Low(ClearSequence)[k] = ClearSequence[k] % 256
    <3> DEFINE s == ClearSequence
    <3>1. s \in Seq(Int)
      BY <1>1
    <3> HIDE DEF s
    <3>2. /\ Low(s) \in Seq(LowOf(Int)) /\ Len(Low(s)) = Len(s)
          /\ \A k \in 1..Len(s) : Low(s)[k] = s[k] % 256
      BY <3>1, LowIsSeq, ZenonT(60)
    <3> QED
      BY <3>2 DEF s
  <2> QED
    BY <1>1, <1>2, <2>1
<1>4. Low(ClearSequence) = ClearSequence
  <2>1. LowOf(Int) \subseteq Int
    BY DEF LowOf
  <2>2. Low(ClearSequence) \in Seq(Int)
    BY <1>3, <2>1, SeqMonotonic
  <2> QED
    BY <1>1, <1>3, <2>2, SeqEqual
<1>5. Low(<<>>) = <<>>
  BY DEF Low
<1>6. <<>> \in Seq(Int) /\ <<>> \o <<>> = <<>> /\ <<>> \o ClearSequence = ClearSequence
      /\ ClearSequence \o <<>> = ClearSequence
  BY <1>1, EmptySeq, ConcatEmptySeq
<1> QED
  BY <1>1, <1>4, <1>5, <1>6 DEF OnItsWay

(* A character is printed, when nothing is still to be sent.               *)
LEMMA WayGrows ==
  ASSUME NEW w, NEW t, NEW a, NEW x, OnItsWay(w, t, <<>>, a)
  PROVE  OnItsWay(w, t, <<x>>, Append(a, x))
<1>1. Low(<<>>) = <<>>
  BY DEF Low
<1>2. PICK T : /\ {w, t, <<>>, a, Low(a), ClearSequence} \subseteq Seq(T)
               /\ (w \o t) \o <<>> = ClearSequence \o Low(a)
  BY <1>1 DEF OnItsWay
<1> DEFINE S == T \union {x, x % 256}
<1>3. {w, t, <<>>, a, Low(a), ClearSequence} \subseteq Seq(S)
  <2>1. T \subseteq S
    OBVIOUS
  <2> HIDE DEF S
  <2> QED
    BY <1>2, <2>1, SeqMonotonic
<1>4. x \in S /\ x % 256 \in S
  OBVIOUS
<1> HIDE DEF S
<1>5. /\ Append(a, x) \in Seq(S)
      /\ Low(Append(a, x)) = Low(a) \o <<x % 256>>
      /\ Low(Append(a, x)) \in Seq(S)
  BY <1>3, <1>4, LowAppend
<1>6. <<x>> \in Seq(S) /\ <<x % 256>> \in Seq(S)
  BY <1>4
<1>7. Low(<<x>>) = <<x % 256>>
  BY DEF Low
<1>8. w \o t \in Seq(S) /\ (w \o t) \o <<>> = w \o t
  BY <1>3, ConcatProperties, ConcatEmptySeq
<1>9. (w \o t) \o <<x % 256>> = ClearSequence \o (Low(a) \o <<x % 256>>)
  <2>1. w \o t = ClearSequence \o Low(a)
    BY <1>2, <1>8
  <2>2. (ClearSequence \o Low(a)) \o <<x % 256>> = ClearSequence \o (Low(a) \o <<x % 256>>)
    <3> DEFINE b == ClearSequence
               l == Low(a)
               g == <<x % 256>>
    <3>1. b \in Seq(S) /\ l \in Seq(S) /\ g \in Seq(S)
      BY <1>3, <1>6
    <3> HIDE DEF b, l, g
    <3>2. (b \o l) \o g = b \o (l \o g)
      BY <3>1, ConcatAssociative
    <3> QED
      BY <3>2 DEF b, l, g
  <2> QED
    BY <2>1, <2>2
<1>10. {w, t, <<x>>, Append(a, x), Low(<<x>>), Low(Append(a, x)), ClearSequence} \subseteq Seq(S)
  BY <1>3, <1>5, <1>6, <1>7, ZenonT(60)
<1>11. (w \o t) \o Low(<<x>>) = ClearSequence \o Low(Append(a, x))
  BY <1>5, <1>7, <1>9
<1> QED
  BY <1>10, <1>11, Zenon DEF OnItsWay

(* A character is given to the chip, when it holds none.                   *)
LEMMA WayIntoChip ==
  ASSUME NEW w, NEW o, NEW a, OnItsWay(w, <<>>, o, a), o # <<>>
  PROVE  OnItsWay(w, <<Head(o) % 256>>, Tail(o), a)
<1>1. PICK S : /\ {w, <<>>, o, a, Low(o), Low(a), ClearSequence} \subseteq Seq(S)
               /\ (w \o <<>>) \o Low(o) = ClearSequence \o Low(a)
  BY DEF OnItsWay
<1> DEFINE h == <<Head(o) % 256>>
<1>2. /\ Tail(o) \in Seq(S) /\ Low(Tail(o)) \in Seq(S) /\ h \in Seq(S)
      /\ Low(o) = h \o Low(Tail(o))
  BY <1>1, LowHead, ZenonT(60)
<1> HIDE DEF h
<1>3. w \o <<>> = w
  BY <1>1, ConcatEmptySeq
<1>4. (w \o h) \o Low(Tail(o)) = w \o (h \o Low(Tail(o)))
  <2> DEFINE l == Low(Tail(o))
  <2>1. w \in Seq(S) /\ h \in Seq(S) /\ l \in Seq(S)
    BY <1>1, <1>2
  <2> HIDE DEF l
  <2>2. (w \o h) \o l = w \o (h \o l)
    BY <2>1, ConcatAssociative
  <2> QED
    BY <2>2 DEF l
<1>5. OnItsWay(w, h, Tail(o), a)
  BY <1>1, <1>2, <1>3, <1>4 DEF OnItsWay
<1> QED
  BY <1>5 DEF h

(* A character leaves the chip.                                            *)
LEMMA WayOntoWire ==
  ASSUME NEW w, NEW x, NEW o, NEW a, OnItsWay(w, <<x>>, o, a)
  PROVE  OnItsWay(Append(w, x), <<>>, o, a)
<1>1. PICK S : /\ {w, <<x>>, o, a, Low(o), Low(a), ClearSequence} \subseteq Seq(S)
               /\ (w \o <<x>>) \o Low(o) = ClearSequence \o Low(a)
  BY DEF OnItsWay
<1>2. x \in S
  <2>1. Len(<<x>>) = 1 /\ <<x>>[1] = x
    OBVIOUS
  <2> QED
    BY <1>1, <2>1, ElementOfSeq
<1>3. Append(w, x) \in Seq(S) /\ Append(w, x) = w \o <<x>>
  BY <1>1, <1>2
<1>4. <<>> \in Seq(S) /\ Append(w, x) \o <<>> = Append(w, x)
  BY <1>3, EmptySeq, ConcatEmptySeq
<1> QED
  BY <1>1, <1>3, <1>4 DEF OnItsWay
-----------------------------------------------------------------------------
(* The invariant of the text.                                              *)

NothingYet ==
  /\ boot \notin {"banner", "up"} => todo = <<>> /\ out = <<>> /\ asked = <<>>
  /\ boot = "banner" => todo = <<>> /\ asked = <<>>

OneAtMost(t) == t = <<>> \/ \E x : t = <<x>>

OnTheLine ==
  com_base # "none" =>
    /\ OneAtMost(port[com_base].thr)
    /\ boot \in {"banner", "up"} => OnItsWay(port[com_base].wire, port[com_base].thr, out, asked)
    /\ boot \notin {"banner", "up"} => port[com_base].wire = <<>> /\ port[com_base].thr = <<>>

Text == NothingYet /\ OnTheLine

LEMMA TextInit == Init => Text
  BY DEF Init, Text, NothingYet, OnTheLine

(* No port is in use, and none is found.                                   *)
LEMMA TextWithoutPort ==
  ASSUME Text, com_base' = "none", UNCHANGED <<todo, out, asked>>,
         boot' = boot \/ (boot \notin {"banner", "up"} /\ boot' \notin {"banner", "up"})
  PROVE  Text'
  BY DEF Text, NothingYet, OnTheLine

(* No character moves.                                                     *)
LEMMA TextStays ==
  ASSUME Text, UNCHANGED <<port, com_base, out, asked, boot>>,
         todo' = todo \/ boot = "up"
  PROVE  Text'
  BY DEF Text, NothingYet, OnTheLine

LEMMA TextPortFound ==
  ASSUME Lines, Text, NEW p \in Coms, PortFound(p)
  PROVE  Text'
<1>1. port'[p].wire = <<>> /\ port'[p].thr = <<>>
  BY LinesPortFound
<1> QED
  BY <1>1 DEF Text, NothingYet, OnTheLine, OneAtMost, PortFound, Coms, history

LEMMA TextClearScreen == Text /\ ClearScreen => Text'
  BY WayBegins DEF Text, NothingYet, OnTheLine, ClearScreen, history

LEMMA TextBanner == Text /\ Banner => Text'
  BY DEF Text, NothingYet, OnTheLine, Banner, history

LEMMA TextPutChar ==
  ASSUME Lines, Text, PutChar
  PROVE  Text'
<1>1. boot = "up" /\ out = <<>> /\ UNCHANGED <<port, boot, com_base, putchar>>
  BY DEF Text, NothingYet, OnTheLine, PutChar, driver
<1>2. PICK x : out' = ToSerial(x) /\ asked' = Append(asked, x)
  BY DEF PutChar
<1>3. CASE com_base = "none"
  BY <1>1, <1>3 DEF Text, NothingYet, OnTheLine
<1>4. CASE com_base # "none"
  <2>1. out' = <<x>>
    BY <1>2, <1>4 DEF Lines, InUse, ToSerial
  <2>2. OnItsWay(port[com_base].wire, port[com_base].thr, <<>>, asked)
    BY <1>1, <1>4 DEF Text, NothingYet, OnTheLine
  <2>3. OnItsWay(port[com_base].wire, port[com_base].thr, <<x>>, Append(asked, x))
    BY <2>2, WayGrows
  <2> QED
    BY <1>1, <1>2, <1>4, <2>1, <2>3 DEF Text, NothingYet, OnTheLine
<1> QED
  BY <1>3, <1>4

LEMMA TextSendByte ==
  ASSUME Lines, Text, SendByte
  PROVE  Text'
<1>1. boot \in {"banner", "up"} /\ out # <<>>
  BY DEF Text, NothingYet, OnTheLine, SendByte
<1>2. /\ UNCHANGED <<boot, com_base, todo, asked>>
      /\ out' = Tail(out)
      /\ port' = [p \in Coms |-> IF p = com_base THEN Written(port[p], COM_REG.TX, Head(out) % 256) ELSE port[p]]
  BY DEF SendByte, driver, history
<1>3. CASE com_base = "none"
  BY <1>1, <1>2, <1>3 DEF Text, NothingYet, OnTheLine
<1>4. CASE com_base # "none"
  <2> DEFINE u == port[com_base]
  <2>1. com_base \in Coms /\ Used(u) /\ IsPort(u)
    BY <1>4 DEF Lines, Shapes, InUse
  <2>2. u.thr = <<>>
    BY <1>4, <2>1 DEF SendByte, Ready, LSRReady, Used
  <2>3. port'[com_base] = Written(u, COM_REG.TX, Head(out) % 256)
    BY <1>2, <2>1
  <2>4. port'[com_base].wire = u.wire /\ port'[com_base].thr = <<Head(out) % 256>>
    BY <2>1, <2>3, SendKeeps
  <2>5. OnItsWay(u.wire, <<>>, out, asked)
    BY <1>1, <1>4, <2>2 DEF Text, NothingYet, OnTheLine
  <2>6. OnItsWay(u.wire, <<Head(out) % 256>>, Tail(out), asked)
    BY <1>1, <2>5, WayIntoChip
  <2>7. OneAtMost(<<Head(out) % 256>>)
    BY DEF OneAtMost
  <2>8. OnTheLine'
    BY <1>1, <1>2, <2>4, <2>6, <2>7, ZenonT(60) DEF OnTheLine
  <2> QED
    BY <1>1, <1>2, <2>8 DEF Text, NothingYet
<1> QED
  BY <1>3, <1>4

LEMMA TextTransmit ==
  ASSUME Lines, Text, NEW p \in Coms, Transmit(p)
  PROVE  Text'
<1>1. /\ UNCHANGED <<boot, com_base, todo, out, asked>>
      /\ port[p].thr # <<>> /\ IsPort(port[p])
      /\ port'[p] = Transmitted(port[p])
      /\ \A q \in Coms : q # p => port'[q] = port[q]
  BY DEF Lines, Shapes, Transmit, driver, history
<1>2. CASE p # com_base
  BY <1>1, <1>2 DEF Lines, Shapes, Text, NothingYet, OnTheLine
<1>3. CASE p = com_base
  <2>1. com_base # "none" /\ Used(port[p])
    BY <1>3 DEF Lines, InUse, Coms
  <2>2. boot \in {"banner", "up"}
    BY <1>1, <1>3, <2>1 DEF Text, NothingYet, OnTheLine
  <2>3. PICK x : port[p].thr = <<x>>
    BY <1>1, <1>3, <2>1 DEF Text, NothingYet, OnTheLine, OneAtMost
  <2>4. port'[p].thr = <<>> /\ port'[p].wire = Append(port[p].wire, x)
    <3>1. Head(<<x>>) = x
      OBVIOUS
    <3>2. port'[p].thr = <<>> /\ port'[p].wire = Append(port[p].wire, Head(port[p].thr))
      BY <1>1, <2>1, TransmitKeeps
    <3> QED
      BY <2>3, <3>1, <3>2
  <2>5. OnItsWay(port[p].wire, <<x>>, out, asked)
    BY <1>3, <2>1, <2>2, <2>3 DEF Text, NothingYet, OnTheLine
  <2>6. OnItsWay(Append(port[p].wire, x), <<>>, out, asked)
    BY <2>5, WayOntoWire
  <2> QED
    BY <1>1, <1>3, <2>2, <2>4, <2>6 DEF Text, NothingYet, OnTheLine, OneAtMost
<1> QED
  BY <1>2, <1>3

LEMMA TextNext == Lines /\ Text /\ [Next]_vars => Text'
<1> SUFFICES ASSUME Lines, Text, [Next]_vars PROVE Text'
  OBVIOUS
<1>1. CASE GetFrameBuffer
  BY <1>1, TextWithoutPort DEF GetFrameBuffer, Lines, Searching, driver, history
<1>2. ASSUME NEW p \in Coms, SetupPort(p) PROVE Text'
  BY <1>2, TextWithoutPort DEF SetupPort, Lines, Searching, Coms, history
<1>3. ASSUME NEW p \in Coms, PortFound(p) PROVE Text'
  BY <1>3, TextPortFound
<1>4. ASSUME NEW p \in Coms, PortFaulty(p) PROVE Text'
  <2>1. /\ boot = p /\ com_base' = "none" /\ UNCHANGED <<todo, out, asked>>
        /\ boot' \in {"COM2", "failed", "clear"}
    BY <1>4 DEF PortFaulty, Lines, Searching, Coms, history
  <2> QED
    BY <2>1, TextWithoutPort DEF Coms
<1>5. CASE ClearScreen
  BY <1>5, TextClearScreen
<1>6. CASE Banner
  BY <1>6, TextBanner
<1>7. CASE PutChar
  BY <1>7, TextPutChar
<1>8. CASE SendByte
  BY <1>8, TextSendByte
<1>9. CASE Poll \/ Rest \/ UNCHANGED vars
  BY <1>9, TextStays DEF Poll, Rest, vars, driver, history
<1>10. ASSUME NEW s, boot_printstr(s) \/ boot_printnum(s) \/ boot_printhex(s) PROVE Text'
  BY <1>10, TextStays DEF boot_printstr, boot_printnum, boot_printhex, Idle, driver, history
<1>11. ASSUME NEW p \in Coms, Transmit(p) PROVE Text'
  BY <1>11, TextTransmit
<1> QED
  BY <1>1, <1>2, <1>3, <1>4, <1>5, <1>6, <1>7, <1>8, <1>9, <1>10, <1>11 DEF Next, Driver

(* What follows the first part of a concatenation is the second.           *)
LEMMA AfterFirst ==
  ASSUME NEW S, NEW c \in Seq(S), NEW b \in Seq(S), NEW all, all = c \o b
  PROVE  /\ Len(all) = Len(c) + Len(b)
         /\ SubSeq(all, Len(c) + 1, Len(all)) = b
<1>1. /\ all \in Seq(S) /\ Len(all) = Len(c) + Len(b)
      /\ \A k \in 1 .. Len(c) + Len(b) : all[k] = IF k <= Len(c) THEN c[k] ELSE b[k - Len(c)]
  BY ConcatProperties
<1>2. Len(c) \in Nat /\ Len(b) \in Nat
  BY LenProperties
<1> DEFINE m == Len(c)
           n == Len(all)
           r == SubSeq(all, m + 1, n)
<1>3. m \in Nat /\ n \in Nat /\ m \in 0 .. n /\ n - m = Len(b)
  BY <1>1, <1>2
<1>4. \A k \in 1 .. n - m : all[m + k] = b[k]
  <2> SUFFICES ASSUME NEW k \in 1 .. Len(b) PROVE all[Len(c) + k] = b[k]
    BY <1>3
  <2>1. /\ Len(c) + k \in 1 .. Len(c) + Len(b)
        /\ ~(Len(c) + k <= Len(c)) /\ (Len(c) + k) - Len(c) = k
    BY <1>2
  <2> QED
    BY <1>1, <2>1
<1>5. r \in Seq(S) /\ Len(r) = n - m /\ \A k \in 1 .. n - m : r[k] = all[m + k]
  <2>1. SubSeq(all, m + 1, n) \in Seq(S) /\ Len(SubSeq(all, m + 1, n)) = n - m
    BY <1>1, <1>3
  <2>2. \A k \in 1 .. n - m : SubSeq(all, m + 1, n)[k] = all[m + k]
    BY <1>1, <1>3
  <2> QED
    BY <2>1, <2>2
<1> HIDE DEF m, n, r
<1>6. r = b
  BY <1>3, <1>4, <1>5, SeqEqual
<1> QED
  BY <1>1, <1>6 DEF m, n, r

(* Whatever is printed: the far end of the port in use gets the bytes sent *)
(* to clear its screen and then every character that boot_putchar was      *)
(* given, once and in order, and the far end of another port gets nothing. *)
THEOREM TextArrives == Spec => []WireGetsText
<1>1. Lines /\ Text => WireGetsText
  <2> SUFFICES ASSUME Lines, Text, NEW p \in Coms
               PROVE  IF p = com_base /\ boot \in {"banner", "up"}
                      THEN /\ Len(Sent(p) \o Low(out)) = Len(ClearSequence) + Len(asked)
                           /\ SubSeq(Sent(p) \o Low(out), Len(ClearSequence) + 1,
                                     Len(Sent(p) \o Low(out))) = Low(asked)
                      ELSE Sent(p) = <<>>
    BY Zenon DEF WireGetsText, Low
  <2>1. CASE p = com_base
    <3>1. Sent(p) = port[p].wire \o port[p].thr
      BY <2>1, Bits, Values DEF Lines, InUse, Used, Sent, Loopback, Coms
    <3>2. CASE boot \in {"banner", "up"}
      <4>1. OnItsWay(port[p].wire, port[p].thr, out, asked)
        BY <2>1, <3>2 DEF Text, OnTheLine, Coms
      <4>2. PICK S : /\ {asked, Low(asked), ClearSequence} \subseteq Seq(S)
                     /\ Sent(p) \o Low(out) = ClearSequence \o Low(asked)
        BY <3>1, <4>1 DEF OnItsWay
      <4>3. Len(Low(asked)) = Len(asked)
        BY <4>2, LowIsSeq
      <4> DEFINE c == ClearSequence
                 b == Low(asked)
                 all == Sent(p) \o Low(out)
      <4>4. c \in Seq(S) /\ b \in Seq(S) /\ all = c \o b /\ Len(b) = Len(asked)
        BY <4>2, <4>3
      <4> HIDE DEF c, b, all
      <4>5. Len(all) = Len(c) + Len(asked) /\ SubSeq(all, Len(c) + 1, Len(all)) = b
        BY <4>4, AfterFirst
      <4> QED
        BY <2>1, <3>2, <4>5, Zenon DEF c, b, all
    <3>3. CASE boot \notin {"banner", "up"}
      BY <2>1, <3>1, <3>3 DEF Text, NothingYet, OnTheLine, Coms
    <3> QED
      BY <3>2, <3>3
  <2>2. CASE p # com_base
    <3>1. Quiet(port[p])
      BY <2>2 DEF Lines, OthersQuiet
    <3> QED
      BY <2>2, <3>1 DEF Quiet, Sent
  <2> QED
    BY <2>1, <2>2
<1> QED
  BY <1>1, LinesHold, TextInit, TextNext, PTL DEF Spec
-----------------------------------------------------------------------------
(* What the recursive functions yield.                                     *)

Keeps(text, w) ==
  w = [k \in 0 .. Len(text) |->
         IF k = 0 THEN <<>> ELSE IF text[k] = CR THEN w[k - 1] ELSE Append(w[k - 1], text[k])]

LEMMA KeepsExists == ASSUME NEW S, NEW text \in Seq(S) PROVE \E w : Keeps(text, w)
<1> DEFINE n == Len(text)
           step == [i \in 1 .. n |-> [s \in Seq(S) |-> IF text[i] = CR THEN s ELSE Append(s, text[i])]]
<1>1. n \in Nat /\ \A i \in 1 .. n : text[i] \in S
  OBVIOUS
<1>2. step \in [1 .. n -> [Seq(S) -> Seq(S)]]
  BY <1>1
<1>3. <<>> \in Seq(S)
  OBVIOUS
<1>4. \A i \in 1 .. n : \A s \in Seq(S) : step[i][s] = IF text[i] = CR THEN s ELSE Append(s, text[i])
  OBVIOUS
<1> HIDE DEF step
<1>5. PICK w \in [0 .. n -> Seq(S)] : Recursion(step, <<>>, n, w)
  BY <1>1, <1>2, <1>3, RecursionExists
<1>6. w = [k \in 0 .. n |-> IF k = 0 THEN <<>> ELSE step[k][w[k - 1]]]
  BY <1>5 DEF Recursion
<1>7. ASSUME NEW k \in 0 .. n, k # 0
      PROVE  step[k][w[k - 1]] = IF text[k] = CR THEN w[k - 1] ELSE Append(w[k - 1], text[k])
  <2>1. k \in 1 .. n /\ w[k - 1] \in Seq(S)
    BY <1>1, <1>7
  <2> QED
    BY <1>4, <2>1
<1>8. Keeps(text, w)
  BY <1>6, <1>7 DEF Keeps
<1> QED
  BY <1>8

LEMMA KeepsAt ==
  ASSUME NEW n \in Nat, NEW text, Len(text) = n, NEW w, Keeps(text, w)
  PROVE  /\ w[0] = <<>>
         /\ \A i \in 1 .. n : w[i] = IF text[i] = CR THEN w[i - 1] ELSE Append(w[i - 1], text[i])
<1>1. w = [k \in 0 .. n |->
             IF k = 0 THEN <<>> ELSE IF text[k] = CR THEN w[k - 1] ELSE Append(w[k - 1], text[k])]
  BY DEF Keeps
<1>2. 0 \in 0 .. n /\ \A i \in 1 .. n : i \in 0 .. n /\ i # 0
  OBVIOUS
<1>3. w[0] = <<>>
  BY <1>1, <1>2
<1>4. ASSUME NEW i \in 1 .. n
      PROVE  w[i] = IF text[i] = CR THEN w[i - 1] ELSE Append(w[i - 1], text[i])
  BY <1>1, <1>2
<1> QED
  BY <1>3, <1>4

LEMMA WithoutCRGrows ==
  ASSUME NEW S, NEW text \in Seq(S), NEW x \in S
  PROVE  /\ WithoutCR(<<>>) = <<>>
         /\ WithoutCR(Append(text, x)) = IF x = CR THEN WithoutCR(text) ELSE Append(WithoutCR(text), x)
<1>1. ASSUME NEW t \in Seq(S)
      PROVE  \E w : Keeps(t, w) /\ WithoutCR(t) = w[Len(t)]
  <2> DEFINE w == CHOOSE v : Keeps(t, v)
  <2>1. Keeps(t, w)
    BY KeepsExists
  <2>2. WithoutCR(t) = w[Len(t)]
    BY DEF WithoutCR, Keeps
  <2> HIDE DEF w
  <2> QED
    BY <2>1, <2>2
<1>2. WithoutCR(<<>>) = <<>>
  <2>1. <<>> \in Seq(S) /\ Len(<<>>) = 0
    OBVIOUS
  <2>2. PICK w : Keeps(<<>>, w) /\ WithoutCR(<<>>) = w[Len(<<>>)]
    BY <1>1, <2>1
  <2> QED
    BY <2>1, <2>2, KeepsAt
<1> DEFINE n == Len(text)
           longer == Append(text, x)
<1>3. /\ n \in Nat /\ longer \in Seq(S) /\ Len(longer) = n + 1 /\ longer[n + 1] = x
      /\ \A i \in 1 .. n : longer[i] = text[i]
  OBVIOUS
<1>4. PICK v : Keeps(text, v) /\ WithoutCR(text) = v[n]
  BY <1>1
<1>5. PICK w : Keeps(longer, w) /\ WithoutCR(longer) = w[n + 1]
  BY <1>1, <1>3
<1> HIDE DEF longer, n
<1>6. /\ v[0] = <<>>
      /\ \A i \in 1 .. n : v[i] = IF text[i] = CR THEN v[i - 1] ELSE Append(v[i - 1], text[i])
  BY <1>3, <1>4, KeepsAt DEF n
<1>7. /\ w[0] = <<>>
      /\ \A i \in 1 .. n + 1 : w[i] = IF longer[i] = CR THEN w[i - 1] ELSE Append(w[i - 1], longer[i])
  BY <1>3, <1>5, KeepsAt
<1> DEFINE P == {i \in 0 .. n : v[i] = w[i]}
<1>8. 0 \in P
  BY <1>3, <1>6, <1>7
<1>9. ASSUME NEW i \in 0 .. n - 1, i \in P PROVE i + 1 \in P
  <2>1. i + 1 \in 1 .. n /\ i + 1 \in 1 .. n + 1 /\ (i + 1) - 1 = i /\ v[i] = w[i]
    BY <1>3, <1>9
  <2>2. v[i + 1] = IF text[i + 1] = CR THEN v[i] ELSE Append(v[i], text[i + 1])
    BY <1>6, <2>1
  <2>3. w[i + 1] = IF text[i + 1] = CR THEN w[i] ELSE Append(w[i], text[i + 1])
    BY <1>3, <1>7, <2>1
  <2> QED
    BY <1>3, <2>1, <2>2, <2>3
<1> HIDE DEF P
<1>10. 0 .. n \subseteq P
  BY <1>3, <1>8, <1>9, UpToInduction
<1>11. v[n] = w[n]
  BY <1>3, <1>10 DEF P
<1>12. w[n + 1] = IF x = CR THEN w[n] ELSE Append(w[n], x)
  BY <1>3, <1>7
<1> QED
  BY <1>2, <1>4, <1>5, <1>11, <1>12 DEF longer

Face(c) == IF c >= 97 THEN c - 87 ELSE c - 48

Reads(s, base, w) ==
  w = [k \in 0 .. Len(s) |->
         IF k = 0 THEN 0
         ELSE base * w[k - 1] + (IF s[k] >= 97 THEN s[k] - 87 ELSE s[k] - 48)]

LEMMA ReadsAt ==
  ASSUME NEW n \in Nat, NEW s, Len(s) = n, NEW base, NEW w, Reads(s, base, w)
  PROVE  /\ w[0] = 0
         /\ \A i \in 1 .. n : w[i] = base * w[i - 1] + Face(s[i])
<1>1. w = [k \in 0 .. n |-> IF k = 0 THEN 0
                            ELSE base * w[k - 1] + (IF s[k] >= 97 THEN s[k] - 87 ELSE s[k] - 48)]
  BY DEF Reads
<1>2. 0 \in 0 .. n /\ \A i \in 1 .. n : i \in 0 .. n /\ i # 0
  OBVIOUS
<1>3. w[0] = 0
  BY <1>1, <1>2
<1>4. ASSUME NEW i \in 1 .. n
      PROVE  w[i] = base * w[i - 1] + (IF s[i] >= 97 THEN s[i] - 87 ELSE s[i] - 48)
  BY <1>1, <1>2
<1> QED
  BY <1>3, <1>4 DEF Face

LEMMA ReadsExists ==
  ASSUME NEW s \in Seq(Int), NEW base \in {10, 16}
  PROVE  \E w \in [0 .. Len(s) -> Int] : Reads(s, base, w)
<1> DEFINE n == Len(s)
           step == [i \in 1 .. n |-> [v \in Int |-> base * v + (IF s[i] >= 97 THEN s[i] - 87 ELSE s[i] - 48)]]
<1>1. n \in Nat /\ \A i \in 1 .. n : s[i] \in Int
  OBVIOUS
<1>2. \A i \in 1 .. n : \A v \in Int : base * v + (IF s[i] >= 97 THEN s[i] - 87 ELSE s[i] - 48) \in Int
  BY <1>1
<1>3. step \in [1 .. n -> [Int -> Int]]
  BY <1>2
<1>4. \A i \in 1 .. n : \A v \in Int : step[i][v] = base * v + (IF s[i] >= 97 THEN s[i] - 87 ELSE s[i] - 48)
  OBVIOUS
<1> HIDE DEF step
<1> DEFINE V == Int
<1>5. 0 \in V /\ step \in [1 .. n -> [V -> V]]
  BY <1>3
<1> HIDE DEF V, n
<1>6. \E w \in [0 .. n -> V] : Recursion(step, 0, n, w)
  BY <1>1, <1>5, RecursionExists
<1>7. PICK w \in [0 .. n -> Int] : Recursion(step, 0, n, w)
  BY <1>6 DEF V
<1>8. w = [k \in 0 .. n |-> IF k = 0 THEN 0 ELSE step[k][w[k - 1]]]
  BY <1>7 DEF Recursion
<1>9. ASSUME NEW k \in 0 .. n, k # 0
      PROVE  step[k][w[k - 1]] = base * w[k - 1] + (IF s[k] >= 97 THEN s[k] - 87 ELSE s[k] - 48)
  <2>1. k \in 1 .. n /\ w[k - 1] \in Int
    BY <1>1, <1>9
  <2> QED
    BY <1>4, <2>1
<1>10. Reads(s, base, w)
  BY <1>8, <1>9, Zenon DEF Reads, n
<1> QED
  BY <1>10 DEF n

LEMMA ReadIs ==
  ASSUME NEW s \in Seq(Int), NEW base \in {10, 16}
  PROVE  \E w : Reads(s, base, w) /\ Read(s, base) = w[Len(s)]
<1> DEFINE w == CHOOSE v : Reads(s, base, v)
<1>1. Reads(s, base, w)
  BY ReadsExists
<1>2. Read(s, base) = w[Len(s)]
  BY DEF Read, Reads
<1> HIDE DEF w
<1> QED
  BY <1>1, <1>2

LEMMA ReadOne ==
  ASSUME NEW d \in Int, NEW base \in {10, 16}
  PROVE  Read(<<d>>, base) = Face(d)
<1>1. <<d>> \in Seq(Int) /\ Len(<<d>>) = 1 /\ <<d>>[1] = d /\ Face(d) \in Int
  BY DEF Face
<1>2. PICK w : Reads(<<d>>, base, w) /\ Read(<<d>>, base) = w[1]
  BY <1>1, ReadIs
<1> DEFINE t == <<d>>
<1> HIDE DEF t
<1>3. w[0] = 0 /\ \A i \in 1 .. 1 : w[i] = base * w[i - 1] + Face(t[i])
  <2>1. PICK m \in Nat : m = 1
    OBVIOUS
  <2>2. Len(t) = m /\ Reads(t, base, w)
    BY <1>1, <1>2, <2>1 DEF t
  <2>3. w[0] = 0 /\ \A i \in 1 .. m : w[i] = base * w[i - 1] + Face(t[i])
    BY <2>2, ReadsAt
  <2> QED
    BY <2>1, <2>3
<1>4. w[1] = base * w[0] + Face(d)
  <2>1. t[1] = d
    BY <1>1 DEF t
  <2> QED
    BY <1>3, <2>1
<1> QED
  BY <1>1, <1>2, <1>3, <1>4

LEMMA ReadGrows ==
  ASSUME NEW s \in Seq(Int), NEW d \in Int, NEW base \in {10, 16}
  PROVE  Read(Append(s, d), base) = base * Read(s, base) + Face(d)
<1> DEFINE n == Len(s)
           longer == Append(s, d)
<1>1. /\ n \in Nat /\ longer \in Seq(Int) /\ Len(longer) = n + 1 /\ longer[n + 1] = d
      /\ \A i \in 1 .. n : longer[i] = s[i]
  OBVIOUS
<1>2. PICK v : Reads(s, base, v) /\ Read(s, base) = v[n]
  BY ReadIs
<1>3. PICK w : Reads(longer, base, w) /\ Read(longer, base) = w[n + 1]
  BY <1>1, ReadIs
<1>4. v[0] = 0 /\ \A i \in 1 .. n : v[i] = base * v[i - 1] + Face(s[i])
  BY <1>1, <1>2, ReadsAt
<1> HIDE DEF longer, n
<1>5. w[0] = 0 /\ \A i \in 1 .. n + 1 : w[i] = base * w[i - 1] + Face(longer[i])
  <2>1. PICK m \in Nat : m = n + 1
    BY <1>1
  <2>2. Len(longer) = m /\ Reads(longer, base, w)
    BY <1>1, <1>3, <2>1
  <2>3. w[0] = 0 /\ \A i \in 1 .. m : w[i] = base * w[i - 1] + Face(longer[i])
    BY <2>2, ReadsAt
  <2> QED
    BY <2>1, <2>3
<1> DEFINE P == {i \in 0 .. n : v[i] = w[i]}
<1>6. 0 \in P
  BY <1>1, <1>4, <1>5
<1>7. ASSUME NEW i \in 0 .. n - 1, i \in P PROVE i + 1 \in P
  <2>1. i + 1 \in 1 .. n /\ i + 1 \in 1 .. n + 1 /\ (i + 1) - 1 = i /\ v[i] = w[i]
    BY <1>1, <1>7
  <2>2. v[i + 1] = base * v[i] + Face(s[i + 1])
    BY <1>4, <2>1
  <2>3. w[i + 1] = base * w[i] + Face(s[i + 1])
    BY <1>1, <1>5, <2>1
  <2> QED
    BY <1>1, <2>1, <2>2, <2>3
<1> HIDE DEF P
<1>8. 0 .. n \subseteq P
  BY <1>1, <1>6, <1>7, UpToInduction
<1>9. v[n] = w[n]
  BY <1>1, <1>8 DEF P
<1>10. w[n + 1] = base * w[n] + Face(d)
  BY <1>1, <1>5
<1> QED
  BY <1>2, <1>3, <1>9, <1>10 DEF longer

Numerals == 48 .. 57 \cup 97 .. 102

LEMMA DigitFace ==
  ASSUME NEW d \in 0 .. 15
  PROVE  /\ Digit(d) \in Numerals
         /\ Face(Digit(d)) = d
         /\ Digit(d) = 48 => d = 0
BY DEF Digit, Face, Numerals

LEMMA Division ==
  ASSUME NEW k \in Nat, NEW base \in {10, 16}
  PROVE  /\ k \div base \in Nat /\ k % base \in 0 .. 15
         /\ base * (k \div base) + (k % base) = k
         /\ k >= base => 0 < k \div base /\ k \div base < k
<1>1. CASE base = 10
  BY <1>1
<1>2. CASE base = 16
  BY <1>2
<1> QED
  BY <1>1, <1>2

DigitsTo(n, base, f) ==
  f = [k \in 0 .. n |-> IF k < base THEN <<Digit(k)>>
                        ELSE Append(f[k \div base], Digit(k % base))]

LEMMA DigitsExist ==
  ASSUME NEW n \in Nat, NEW base \in {10, 16}
  PROVE  \E f : DigitsTo(n, base, f)
<1> DEFINE P == {m \in 0 .. n : \E f : DigitsTo(m, base, f)}
<1>1. 0 \in P
  <2> DEFINE f == [k \in 0 .. 0 |-> <<Digit(k)>>]
  <2>1. f = [k \in 0 .. 0 |-> IF k < base THEN <<Digit(k)>>
                              ELSE Append(f[k \div base], Digit(k % base))]
    OBVIOUS
  <2> HIDE DEF f
  <2>2. DigitsTo(0, base, f)
    BY <2>1 DEF DigitsTo
  <2> QED
    BY <2>2
<1>2. ASSUME NEW m \in 0 .. n - 1, m \in P PROVE m + 1 \in P
  <2>1. PICK f : DigitsTo(m, base, f)
    BY <1>2
  <2>2. f = [k \in 0 .. m |-> IF k < base THEN <<Digit(k)>>
                              ELSE Append(f[k \div base], Digit(k % base))]
    BY <2>1 DEF DigitsTo
  <2> DEFINE g == [k \in 0 .. m + 1 |->
                     IF k <= m THEN f[k]
                     ELSE IF k < base THEN <<Digit(k)>>
                     ELSE Append(f[k \div base], Digit(k % base))]
  <2>3. \A k \in 0 .. m : g[k] = f[k]
    OBVIOUS
  <2>4. ASSUME NEW k \in 0 .. m + 1
        PROVE  g[k] = IF k < base THEN <<Digit(k)>> ELSE Append(g[k \div base], Digit(k % base))
    <3>1. g[k] = IF k < base THEN <<Digit(k)>> ELSE Append(f[k \div base], Digit(k % base))
      <4>1. CASE k <= m
        <5>1. k \in 0 .. m
          BY <4>1
        <5>2. f[k] = IF k < base THEN <<Digit(k)>> ELSE Append(f[k \div base], Digit(k % base))
          BY <2>2, <5>1
        <5> QED
          BY <2>3, <5>1, <5>2
      <4>2. CASE k = m + 1
        BY <4>2
      <4> QED
        BY <4>1, <4>2
    <3>2. k >= base => k \div base \in 0 .. m
      <4>1. k \in Nat
        OBVIOUS
      <4>2. k >= base => k \div base \in Nat /\ k \div base < k
        BY <4>1, Division
      <4> QED
        BY <4>2
    <3>3. k >= base => g[k \div base] = f[k \div base]
      BY <2>3, <3>2
    <3>4. k < base \/ k >= base
      OBVIOUS
    <3> HIDE DEF g
    <3> QED
      BY <3>1, <3>3, <3>4
  <2>5. g = [k \in 0 .. m + 1 |-> g[k]]
    OBVIOUS
  <2> HIDE DEF g
  <2>6. g = [k \in 0 .. m + 1 |-> IF k < base THEN <<Digit(k)>>
                                  ELSE Append(g[k \div base], Digit(k % base))]
    BY <2>4, <2>5
  <2>7. DigitsTo(m + 1, base, g)
    BY <2>6, Zenon DEF DigitsTo
  <2>8. m + 1 \in 0 .. n
    OBVIOUS
  <2> QED
    BY <2>7, <2>8
<1> HIDE DEF P
<1>3. 0 .. n \subseteq P
  BY <1>1, <1>2, UpToInduction
<1> QED
  BY <1>3 DEF P

(* The digits s stand for the number k, without leading zeros.             *)
Stands(s, k, base) ==
  /\ s \in Seq(Numerals)
  /\ Len(s) >= 1
  /\ Read(s, base) = k
  /\ k > 0 => s[1] # 48
  /\ k = 0 => Len(s) = 1

LEMMA DigitsStand ==
  ASSUME NEW n \in Nat, NEW base \in {10, 16}
  PROVE  Stands(Digits(n, base), n, base)
<1> DEFINE f == CHOOSE g : DigitsTo(n, base, g)
<1>1. DigitsTo(n, base, f)
  BY DigitsExist
<1>2. Digits(n, base) = f[n]
  BY DEF Digits, DigitsTo
<1> HIDE DEF f
<1>3. f = [k \in 0 .. n |-> IF k < base THEN <<Digit(k)>>
                            ELSE Append(f[k \div base], Digit(k % base))]
  BY <1>1 DEF DigitsTo
<1>4. \A k \in 0 .. n : f[k] = IF k < base THEN <<Digit(k)>>
                               ELSE Append(f[k \div base], Digit(k % base))
  BY <1>3
<1> DEFINE P == {m \in 0 .. n : \A k \in 0 .. m : Stands(f[k], k, base)}
<1>5. ASSUME NEW k \in 0 .. n, \A j \in 0 .. k - 1 : Stands(f[j], j, base)
      PROVE  Stands(f[k], k, base)
  <2>1. CASE k < base
    <3>1. k \in 0 .. 15 /\ f[k] = <<Digit(k)>>
      <4>1. f[k] = IF k < base THEN <<Digit(k)>> ELSE Append(f[k \div base], Digit(k % base))
        BY <1>4
      <4>2. k \in 0 .. 15
        BY <2>1
      <4> QED
        BY <2>1, <4>1, <4>2
    <3>2. /\ Digit(k) \in Numerals /\ Digit(k) \in Int /\ Face(Digit(k)) = k
          /\ Digit(k) = 48 => k = 0
      BY <3>1, DigitFace DEF Numerals
    <3> DEFINE d == Digit(k)
    <3> HIDE DEF d
    <3>3. Read(<<d>>, base) = k
      BY <3>2, ReadOne DEF d
    <3>4. <<d>> \in Seq(Numerals) /\ Len(<<d>>) = 1 /\ <<d>>[1] = d
      BY <3>2 DEF d
    <3>5. k > 0 => d # 48
      BY <3>2 DEF d
    <3> QED
      BY <3>1, <3>3, <3>4, <3>5 DEF Stands, d
  <2>2. CASE k >= base
    <3>0. PICK q, r : q = k \div base /\ r = k % base
      OBVIOUS
    <3>1. q \in 0 .. k - 1 /\ q > 0 /\ r \in 0 .. 15 /\ base * q + r = k
      BY <2>2, <3>0, Division
    <3>2. f[k] = Append(f[q], Digit(r))
      <4>1. f[k] = IF k < base THEN <<Digit(k)>> ELSE Append(f[k \div base], Digit(k % base))
        BY <1>4
      <4>2. ~ (k < base)
        BY <2>2
      <4> QED
        BY <3>0, <4>1, <4>2
    <3>3. Stands(f[q], q, base)
      BY <1>5, <3>1
    <3>4. Digit(r) \in Numerals /\ Face(Digit(r)) = r
      BY <3>1, DigitFace
    <3>5. PICK s, d : s = f[q] /\ d = Digit(r)
      OBVIOUS
    <3>6. /\ s \in Seq(Numerals) /\ Len(s) >= 1 /\ Read(s, base) = q /\ s[1] # 48
          /\ d \in Numerals /\ Face(d) = r
      BY <3>1, <3>3, <3>4, <3>5 DEF Stands
    <3>7. Append(s, d) \in Seq(Numerals) /\ Len(Append(s, d)) >= 1 /\ Append(s, d)[1] = s[1]
      BY <3>6
    <3>8. Read(Append(s, d), base) = k
      <4>1. Numerals \subseteq Int
        BY DEF Numerals
      <4>2. s \in Seq(Int) /\ d \in Int
        BY <3>6, <4>1, SeqMonotonic
      <4>3. Read(Append(s, d), base) = base * Read(s, base) + Face(d)
        BY <4>2, ReadGrows
      <4> QED
        BY <3>1, <3>6, <4>3
    <3>9. k # 0
      BY <2>2
    <3> QED
      BY <3>2, <3>5, <3>6, <3>7, <3>8, <3>9 DEF Stands
  <2> QED
    BY <2>1, <2>2
<1>6. 0 \in P
  BY <1>5
<1>7. ASSUME NEW m \in 0 .. n - 1, m \in P PROVE m + 1 \in P
  <2>1. m + 1 \in 0 .. n /\ \A k \in 0 .. m + 1 : k \in 0 .. m \/ k = m + 1
    OBVIOUS
  <2>2. \A k \in 0 .. (m + 1) - 1 : Stands(f[k], k, base)
    BY <1>7
  <2>3. Stands(f[m + 1], m + 1, base)
    BY <1>5, <2>1, <2>2
  <2> QED
    BY <1>7, <2>1, <2>3
<1> HIDE DEF P
<1>8. 0 .. n \subseteq P
  BY <1>6, <1>7, UpToInduction
<1>9. n \in P
  BY <1>8
<1>10. Stands(f[n], n, base)
  BY <1>9 DEF P
<1> QED
  BY <1>2, <1>10

-----------------------------------------------------------------------------
(* What is in the registers and on the lines are bytes, and what is        *)
(* printed are 16-bit codes.                                               *)

Byte == 0 .. 255
Code16 == 0 .. 2 ^ 16 - 1

PortBytes(u) ==
  /\ {u.ier, u.lcr, u.mcr, u.fcr, u.dll, u.dlm, u.rx} \subseteq Byte
  /\ u.thr = <<>> \/ \E x \in Byte : u.thr = <<x>>
  /\ u.wire \in Seq(Byte)

Chars ==
  /\ todo \in Seq(Int)
  /\ out \in Seq(Int)
  /\ asked \in Seq(Code16)
  /\ \A p \in Coms : PortBytes(port[p])

LEMMA CodeRange == ASSUME NEW c \in Int PROVE Code(c) \in Code16
BY DEF Code, Code16

LEMMA CodeSame == ASSUME NEW c \in Byte PROVE Code(c) = c
<1>1. 2 ^ 16 = 65536
  OBVIOUS
<1>2. c % 65536 = c
  BY DEF Byte
<1> QED
  BY <1>1, <1>2 DEF Code

LEMMA WrittenBytes ==
  ASSUME NEW u, IsPort(u), PortBytes(u), NEW r \in 0 .. 4, NEW x \in Byte
  PROVE  PortBytes(Written(u, r, x))
<1>0. CASE u.kind = "absent"
  BY <1>0, WritesNothing
<1> SUFFICES ASSUME u.kind # "absent" PROVE PortBytes(Written(u, r, x))
  BY <1>0
<1>1. 0 \in Byte /\ <<>> \in Seq(Byte)
  BY DEF Byte
<1>2. ASSUME NEW f \in Registers PROVE PortBytes([u EXCEPT ![f] = x])
  <2> DEFINE v == [u EXCEPT ![f] = x]
  <2>1. f # "thr" /\ f # "wire"
    BY DEF Registers
  <2>2. v.thr = u.thr /\ v.wire = u.wire /\ \A g \in Registers : v[g] = x \/ v[g] = u[g]
    BY <2>1 DEF IsPort, Registers
  <2>3. \A g \in Registers : u[g] \in Byte
    BY DEF PortBytes, Registers
  <2>4. \A g \in Registers : v[g] \in Byte
    BY <2>2, <2>3
  <2> HIDE DEF v
  <2> QED
    BY <2>2, <2>4 DEF PortBytes, Registers
<1>3. PortBytes([u EXCEPT !.thr = <<x>>])
  BY DEF PortBytes, IsPort, Registers
<1>4. CASE r = 0
  BY <1>2, <1>3, <1>4, WritesTX DEF Registers
<1>5. CASE r = 1
  BY <1>2, <1>5, WritesIER DEF Registers
<1>6. CASE r = 2
  <2> DEFINE v == [u EXCEPT !.fcr = x,
                            !.thr = IF Has(x, COM_FCR.CTFB_ON) THEN <<>> ELSE u.thr,
                            !.rx = IF Has(x, COM_FCR.CRFB_ON) THEN 0 ELSE u.rx]
  <2>1. Written(u, 2, x) = v
    BY Values DEF Written
  <2>2. /\ v.fcr = x /\ v.wire = u.wire
        /\ v.thr = <<>> \/ v.thr = u.thr
        /\ v.rx = 0 \/ v.rx = u.rx
        /\ v.ier = u.ier /\ v.lcr = u.lcr /\ v.mcr = u.mcr /\ v.dll = u.dll /\ v.dlm = u.dlm
    BY DEF IsPort, Registers
  <2> HIDE DEF v
  <2>3. PortBytes(v)
    BY <1>1, <2>2 DEF PortBytes
  <2> QED
    BY <1>6, <2>1, <2>3
<1>7. CASE r = 3
  BY <1>2, <1>7, WritesLCR DEF Registers
<1>8. CASE r = 4
  BY <1>2, <1>8, WritesMCR DEF Registers
<1> QED
  BY <1>4, <1>5, <1>6, <1>7, <1>8

LEMMA TransmittedBytes ==
  ASSUME NEW u, IsPort(u), PortBytes(u), u.thr # <<>>, Quiet(u) \/ Used(u)
  PROVE  PortBytes(Transmitted(u))
<1>1. PICK x \in Byte : u.thr = <<x>>
  BY DEF PortBytes
<1>2. Head(u.thr) = x
  BY <1>1
<1>3. CASE Loopback(u)
  <2> DEFINE v == [u EXCEPT !.thr = <<>>, !.rx = IF u.kind = "working" THEN x ELSE u.rx]
  <2>1. Transmitted(u) = v
    BY <1>2, <1>3 DEF Transmitted
  <2>2. /\ v.thr = <<>> /\ v.wire = u.wire
        /\ v.rx = x \/ v.rx = u.rx
        /\ v.ier = u.ier /\ v.lcr = u.lcr /\ v.mcr = u.mcr /\ v.dll = u.dll /\ v.dlm = u.dlm
        /\ v.fcr = u.fcr
    BY DEF IsPort, Registers
  <2> HIDE DEF v
  <2> QED
    BY <2>1, <2>2 DEF PortBytes
<1>4. CASE ~ Loopback(u)
  <2>1. Understood(u)
    BY <1>4, Values DEF Quiet, Used, Understood
  <2> DEFINE v == [u EXCEPT !.thr = <<>>, !.wire = Append(u.wire, x)]
  <2>2. Transmitted(u) = v
    BY <1>2, <1>4, <2>1 DEF Transmitted
  <2>3. /\ v.thr = <<>> /\ v.wire = Append(u.wire, x) /\ v.rx = u.rx
        /\ v.ier = u.ier /\ v.lcr = u.lcr /\ v.mcr = u.mcr /\ v.dll = u.dll /\ v.dlm = u.dlm
        /\ v.fcr = u.fcr
    BY DEF IsPort, Registers
  <2>4. Append(u.wire, x) \in Seq(Byte)
    BY DEF PortBytes
  <2> HIDE DEF v
  <2> QED
    BY <2>2, <2>3, <2>4 DEF PortBytes
<1> QED
  BY <1>3, <1>4

(* What a number is printed as.                                            *)
Printed(n, base) == IF n < 0 THEN <<45>> \o Digits(-n, base) ELSE Digits(n, base)

LEMMA PrintedBytes ==
  ASSUME NEW n \in Int, NEW base \in {10, 16}
  PROVE  /\ Printed(n, base) \in Seq(Byte)
         /\ Len(Printed(n, base)) >= 1
<1>1. Numerals \subseteq Byte /\ <<45>> \in Seq(Byte)
  BY DEF Numerals, Byte
<1>2. ASSUME NEW m \in Nat PROVE Digits(m, base) \in Seq(Byte) /\ Len(Digits(m, base)) >= 1
  BY <1>1, DigitsStand, SeqMonotonic DEF Stands
<1>3. CASE n < 0
  <2>1. PICK d \in Seq(Byte) : d = Digits(-n, base) /\ Len(d) >= 1
    BY <1>2, <1>3
  <2>2. <<45>> \o d \in Seq(Byte) /\ Len(<<45>> \o d) >= 1
    BY <1>1, <2>1
  <2> QED
    BY <1>3, <2>1, <2>2 DEF Printed
<1>4. CASE n >= 0
  BY <1>2, <1>4 DEF Printed
<1> QED
  BY <1>3, <1>4

LEMMA CharsInit == Init => Chars
<1> SUFFICES ASSUME Init PROVE Chars
  OBVIOUS
<1>1. PICK kind \in [Coms -> Kinds], ier \in {0, 1}, rx \in {0, TestByte} :
        port = [p \in Coms |-> Port(kind[p], ier, rx)]
  BY DEF Init
<1>2. \A p \in Coms : PortBytes(port[p])
  <2> SUFFICES ASSUME NEW p \in Coms PROVE PortBytes(port[p])
    OBVIOUS
  <2>1. /\ port[p].ier \in {0, 1} /\ port[p].lcr = 3 /\ port[p].mcr = 0 /\ port[p].fcr = 0
        /\ port[p].dll = 1 /\ port[p].dlm = 0 /\ port[p].rx \in {0, 97}
        /\ port[p].thr = <<>> /\ port[p].wire = <<>>
    BY <1>1, Values DEF Port, TestByte
  <2>2. <<>> \in Seq(Byte)
    OBVIOUS
  <2> QED
    BY <2>1, <2>2 DEF PortBytes, Byte
<1> QED
  BY <1>2 DEF Init, Chars

(* Which devices there are, and what putchar points to.                    *)
Devices ==
  /\ fb_tag \in BOOLEAN
  /\ boot \in Coms \cup {"fb", "clear", "banner", "up", "failed"}
  /\ putchar \in {"default", "no_fb", "no_com"}
  /\ boot = "fb" => putchar = "default"
  /\ boot # "fb" => (putchar = "no_fb" <=> ~ fb_tag)
  /\ boot \in {"clear", "banner", "up"} => (com_base = "none" <=> putchar = "no_com")

LEMMA DevicesInit == Init => Devices
BY DEF Init, Devices

LEMMA DevicesNext == Lines /\ Devices /\ [Next]_vars => Devices'
<1> SUFFICES ASSUME Lines, Devices, [Next]_vars PROVE Devices'
  OBVIOUS
<1>1. CASE UNCHANGED <<fb_tag, boot, putchar, com_base>>
  BY <1>1 DEF Devices
<1>2. CASE GetFrameBuffer
  BY <1>2 DEF Devices, GetFrameBuffer, machine, Coms
<1>3. ASSUME NEW p \in Coms, SetupPort(p) \/ PortFound(p) \/ PortFaulty(p) PROVE Devices'
  <2>1. boot \in Coms /\ putchar # "no_com" /\ com_base = "none"
    BY <1>3 DEF SetupPort, PortFound, PortFaulty, Lines, Searching, Coms
  <2> QED
    BY <1>3, <2>1 DEF Devices, SetupPort, PortFound, PortFaulty, machine, Coms
<1>4. CASE ClearScreen \/ Banner
  BY <1>4 DEF Devices, ClearScreen, Banner, machine, Coms
<1>5. CASE PutChar \/ SendByte
  BY <1>1, <1>5 DEF PutChar, SendByte, machine, driver
<1>6. CASE Poll \/ Rest \/ UNCHANGED vars
  BY <1>1, <1>6 DEF Poll, Rest, vars, machine, driver
<1>7. ASSUME NEW s, boot_printstr(s) \/ boot_printnum(s) \/ boot_printhex(s) PROVE Devices'
  BY <1>1, <1>7 DEF boot_printstr, boot_printnum, boot_printhex, machine, driver
<1>8. ASSUME NEW p \in Coms, Transmit(p) PROVE Devices'
  BY <1>1, <1>8 DEF Transmit, machine, driver
<1> QED
  BY <1>2, <1>3, <1>4, <1>5, <1>6, <1>7, <1>8 DEF Next, Driver

LEMMA CharsPort ==
  ASSUME Chars, UNCHANGED <<todo, out, asked>>,
         NEW p \in Coms, PortBytes(port'[p]), \A q \in Coms : q # p => port'[q] = port[q]
  PROVE  Chars'
<1>1. \A q \in Coms : PortBytes(port'[q])
  <2> TAKE q \in Coms
  <2>1. CASE q = p
    BY <2>1
  <2>2. CASE q # p
    <3>1. port'[q] = port[q] /\ PortBytes(port[q])
      BY <2>2 DEF Chars
    <3> QED
      BY <3>1, Zenon
  <2> QED
    BY <2>1, <2>2
<1>2. \A q \in Coms : PortBytes(port[q])'
  BY <1>1 DEF PortBytes
<1> QED
  BY <1>2 DEF Chars

LEMMA CharsSame ==
  ASSUME Chars, UNCHANGED <<port, asked>>, todo' \in Seq(Int), out' \in Seq(Int)
  PROVE  Chars'
BY DEF Chars, PortBytes

LEMMA CharsNext == Lines /\ Devices /\ Chars /\ [Next]_vars => Chars'
<1> SUFFICES ASSUME Lines, Devices, Chars, [Next]_vars PROVE Chars'
  OBVIOUS
<1>0. /\ \A p \in Coms : IsPort(port[p]) /\ PortBytes(port[p])
      /\ port = [p \in Coms |-> port[p]]
      /\ todo \in Seq(Int) /\ out \in Seq(Int) /\ asked \in Seq(Code16)
  BY DEF Lines, Shapes, Chars
<1>1. CASE GetFrameBuffer \/ Poll \/ Rest \/ UNCHANGED vars
  BY <1>0, <1>1, CharsSame DEF GetFrameBuffer, Poll, Rest, vars, driver, history
<1>2. ASSUME NEW p \in Coms, SetupPort(p) PROVE Chars'
  <2>1. Setup[at][1] \in 0 .. 4 /\ Setup[at][2] \in Byte
    <3>1. at \in 1 .. 9
      BY <1>2, Sequence DEF SetupPort, Lines, Shapes
    <3> QED
      BY <3>1, Sequence DEF Byte, TestByte
  <2>2. PortBytes(Written(port[p], Setup[at][1], Setup[at][2]))
    BY <1>0, <2>1, WrittenBytes
  <2>3. port' = [port EXCEPT ![p] = Written(port[p], Setup[at][1], Setup[at][2])]
    BY <1>2 DEF SetupPort
  <2>4. /\ port'[p] = Written(port[p], Setup[at][1], Setup[at][2])
        /\ \A q \in Coms : q # p => port'[q] = port[q]
    BY <1>0, <2>3
  <2> QED
    BY <1>2, <2>2, <2>4, CharsPort DEF SetupPort, history
<1>3. ASSUME NEW p \in Coms, PortFound(p) PROVE Chars'
  <2>1. COM_REG.MCR \in 0 .. 4 /\ Normal \in Byte
    BY Values DEF Byte
  <2>2. PortBytes(Written(port[p], COM_REG.MCR, Normal))
    BY <1>0, <2>1, WrittenBytes
  <2>3. port' = [port EXCEPT ![p] = Written(port[p], COM_REG.MCR, Normal)]
    BY <1>3 DEF PortFound
  <2>4. /\ port'[p] = Written(port[p], COM_REG.MCR, Normal)
        /\ \A q \in Coms : q # p => port'[q] = port[q]
    BY <1>0, <2>3
  <2> QED
    BY <1>3, <2>2, <2>4, CharsPort DEF PortFound, history
<1>4. ASSUME NEW p \in Coms, PortFaulty(p) PROVE Chars'
  BY <1>0, <1>4, CharsSame DEF PortFaulty, history
<1>5. CASE ClearScreen
  <2>1. ClearSequence \in Seq(Int)
    BY DEF ClearSequence
  <2> QED
    BY <1>0, <1>5, <2>1, CharsSame DEF ClearScreen, history
<1>6. CASE Banner
  <2>1. /\ NoGraphic \in Seq(Int) /\ NoSerial \in Seq(Int) /\ Welcome \in Seq(Int)
        /\ <<>> \in Seq(Int)
    BY DEF NoGraphic, NoSerial, Welcome, LF
  <2>2. todo' \in Seq(Int)
    BY <1>6, <2>1 DEF Banner, Devices
  <2> QED
    BY <1>0, <1>6, <2>2, CharsSame DEF Banner, history
<1>7. CASE PutChar
  <2>1. Head(todo) \in Int /\ Tail(todo) \in Seq(Int)
    BY <1>0, <1>7 DEF PutChar
  <2>2. PICK ch : ch = Code(Head(todo))
    OBVIOUS
  <2>3. ch \in Code16 /\ ch \in Int
    <3>1. ch \in Code16
      BY <2>1, <2>2, CodeRange
    <3> QED
      BY <3>1 DEF Code16
  <2>4. /\ out' = ToSerial(ch) /\ asked' = Append(asked, ch)
        /\ todo' = Tail(todo) /\ port' = port
    BY <1>7, <2>2 DEF PutChar
  <2>5. ToSerial(ch) \in Seq(Int)
    BY <2>3 DEF ToSerial
  <2>6. Append(asked, ch) \in Seq(Code16)
    BY <1>0, <2>3
  <2> QED
    BY <1>0, <2>1, <2>4, <2>5, <2>6 DEF Chars, PortBytes
<1>8. CASE SendByte
  <2>1. Head(out) \in Int /\ Tail(out) \in Seq(Int)
    BY <1>0, <1>8 DEF SendByte
  <2>2. Head(out) % 256 \in Byte /\ COM_REG.TX \in 0 .. 4
    <3>1. PICK h \in Int : h = Head(out)
      BY <2>1
    <3>2. h % 256 \in Byte
      BY DEF Byte
    <3> QED
      BY <3>1, <3>2, Values
  <2>3. \A p \in Coms : PortBytes(Written(port[p], COM_REG.TX, Head(out) % 256))
    BY <1>0, <2>2, WrittenBytes
  <2>4. \A p \in Coms : port'[p] = port[p] \/ port'[p] = Written(port[p], COM_REG.TX, Head(out) % 256)
    BY <1>8 DEF SendByte
  <2>5. \A p \in Coms : PortBytes(port'[p])
    <3> TAKE p \in Coms
    <3>1. PortBytes(port[p]) /\ PortBytes(Written(port[p], COM_REG.TX, Head(out) % 256))
      BY <1>0, <2>3
    <3>2. port'[p] = port[p] \/ port'[p] = Written(port[p], COM_REG.TX, Head(out) % 256)
      BY <2>4
    <3> QED
      BY <3>1, <3>2, Zenon
  <2>6. out' = Tail(out) /\ todo' = todo /\ asked' = asked
    BY <1>8 DEF SendByte, history
  <2> QED
    BY <1>0, <2>1, <2>5, <2>6 DEF Chars, PortBytes
<1>9. ASSUME NEW s \in Texts, boot_printstr(s) PROVE Chars'
  BY <1>0, <1>9, TextAssumption, CharsSame DEF boot_printstr
<1>10. ASSUME NEW n \in Int, NEW base \in {10, 16}, UNCHANGED <<port, out, asked>>,
              todo' = Printed(n, base)
       PROVE  Chars'
  <2>1. Byte \subseteq Int
    BY DEF Byte
  <2>2. Printed(n, base) \in Seq(Int)
    BY <2>1, PrintedBytes, SeqMonotonic
  <2> QED
    BY <1>0, <1>10, <2>2, CharsSame
<1>11. ASSUME NEW n \in Numbers, boot_printnum(n) PROVE Chars'
  BY <1>10, <1>11, TextAssumption DEF boot_printnum, Printed
<1>12. ASSUME NEW n \in Addresses, boot_printhex(n) PROVE Chars'
  <2>1. n \in Int /\ ~ (n < 0)
    BY TextAssumption
  <2> QED
    BY <1>10, <1>12, <2>1 DEF boot_printhex, Printed
<1>13. ASSUME NEW p \in Coms, Transmit(p) PROVE Chars'
  <2>1. Quiet(port[p]) \/ Used(port[p])
    BY DEF Lines, OthersQuiet, InUse, Coms
  <2>2. PortBytes(Transmitted(port[p]))
    BY <1>0, <1>13, <2>1, TransmittedBytes DEF Transmit
  <2>3. /\ port'[p] = Transmitted(port[p])
        /\ \A q \in Coms : q # p => port'[q] = port[q]
    BY <1>0, <1>13 DEF Transmit
  <2> QED
    BY <1>13, <2>2, <2>3, CharsPort DEF Transmit, history
<1> QED
  BY <1>1, <1>2, <1>3, <1>4, <1>5, <1>6, <1>7, <1>8, <1>9, <1>11, <1>12, <1>13 DEF Next, Driver
-----------------------------------------------------------------------------
(* The invariants together, and the types.                                 *)

LEMMA DevicesHold == Spec => []Devices
<1> QED
  BY LinesHold, DevicesInit, DevicesNext, PTL DEF Spec

LEMMA CharsHold == Spec => []Chars
<1> QED
  BY LinesHold, DevicesHold, CharsInit, CharsNext, PTL DEF Spec

LEMMA TextHolds == Spec => []Text
<1> QED
  BY LinesHold, TextInit, TextNext, PTL DEF Spec

(* The registers of both ports and all that is on their lines are bytes,   *)
(* what boot_putchar is given are 16-bit codes, and boot_tty_init is at    *)
(* one of its places.                                                      *)
THEOREM TtyTypes == Spec => []TypeOK
<1>1. Lines /\ Devices /\ Chars => TypeOK
  <2> SUFFICES ASSUME Lines, Devices, Chars PROVE TypeOK
    OBVIOUS
  <2>1. ASSUME NEW p \in Coms
        PROVE  /\ {port[p].ier, port[p].lcr, port[p].mcr, port[p].fcr, port[p].dll, port[p].dlm, port[p].rx} \subseteq 0 .. 255
               /\ Len(port[p].thr) <= 1
               /\ \A k \in DOMAIN port[p].wire : port[p].wire[k] \in 0 .. 255
    <3>1. PortBytes(port[p])
      BY DEF Chars
    <3>2. port[p].wire \in Seq(Byte) /\ \A k \in DOMAIN port[p].wire : port[p].wire[k] \in Byte
      BY <3>1 DEF PortBytes
    <3>3. Len(port[p].thr) <= 1
      <4>1. \A t : t = <<>> => Len(t) <= 1
        OBVIOUS
      <4>2. ASSUME NEW x PROVE Len(<<x>>) <= 1
        OBVIOUS
      <4> QED
        BY <3>1, <4>1, <4>2 DEF PortBytes
    <3> QED
      BY <3>1, <3>2, <3>3 DEF PortBytes, Byte
  <2>2. at \in 1 .. Len(Setup) + 1 /\ com_base \in Coms \union {"none"}
    BY Sequence DEF Lines, Shapes
  <2>3. \A k \in DOMAIN asked : asked[k] \in 0 .. 2 ^ 16 - 1
    <3>1. asked \in Seq(Code16)
      BY DEF Chars
    <3>2. \A k \in DOMAIN asked : asked[k] \in Code16
      BY <3>1
    <3> QED
      BY <3>2 DEF Code16
  <2> QED
    BY <2>1, <2>2, <2>3 DEF TypeOK, Devices
<1> QED
  BY <1>1, LinesHold, DevicesHold, CharsHold, PTL
-----------------------------------------------------------------------------
(* The text on the screen.                                                 *)

Seen == shown = IF ~fb_tag THEN <<>> ELSE IF com_base = "none" THEN asked ELSE WithoutCR(asked)

LEMMA SeenInit == Init => Seen
  BY DEF Init, Seen

LEMMA SeenSame ==
  ASSUME Seen, UNCHANGED <<fb_tag, com_base, asked, shown>>
  PROVE  Seen'
  BY DEF Seen

LEMMA SeenPortFound ==
  ASSUME Lines, Text, Seen, NEW p \in Coms, PortFound(p)
  PROVE  Seen'
<1>1. asked = <<>> /\ com_base = "none"
  BY DEF PortFound, Lines, Searching, Text, NothingYet, Coms
<1>2. UNCHANGED <<fb_tag, asked, shown>>
  BY DEF PortFound, machine, history
<1>3. WithoutCR(<<>>) = <<>>
  <2>1. <<>> \in Seq(Int) /\ 0 \in Int
    OBVIOUS
  <2> QED
    BY <2>1, WithoutCRGrows
<1> QED
  BY <1>1, <1>2, <1>3 DEF Seen

LEMMA SeenPutChar ==
  ASSUME Devices, Chars, Text, Seen, PutChar
  PROVE  Seen'
<1>1. boot = "up" /\ UNCHANGED <<fb_tag, com_base>>
  BY DEF Text, NothingYet, PutChar, machine, driver
<1>2. PICK ch : ch = Code(Head(todo))
  OBVIOUS
<1>3. /\ asked' = Append(asked, ch)
      /\ shown' = IF ToFrameBuffer(ch) THEN Append(shown, ch) ELSE shown
  BY <1>2 DEF PutChar
<1>4. asked \in Seq(Code16) /\ ch \in Code16
  <2>1. Head(todo) \in Int
    BY DEF PutChar, Chars
  <2> QED
    BY <1>2, <2>1, CodeRange DEF Chars
<1>5. CASE ~fb_tag
  <2>1. putchar = "no_fb"
    BY <1>1, <1>5 DEF Devices
  <2> QED
    BY <1>1, <1>3, <1>5, <2>1 DEF Seen, ToFrameBuffer
<1>6. CASE fb_tag /\ com_base = "none"
  <2>1. putchar = "no_com"
    BY <1>1, <1>6 DEF Devices
  <2> QED
    BY <1>1, <1>3, <1>6, <2>1 DEF Seen, ToFrameBuffer
<1>7. CASE fb_tag /\ com_base # "none"
  <2>1. putchar = "default"
    BY <1>1, <1>7 DEF Devices
  <2>2. WithoutCR(Append(asked, ch)) = IF ch = CR THEN WithoutCR(asked) ELSE Append(WithoutCR(asked), ch)
    BY <1>4, WithoutCRGrows
  <2> QED
    BY <1>1, <1>3, <1>7, <2>1, <2>2 DEF Seen, ToFrameBuffer
<1> QED
  BY <1>5, <1>6, <1>7 DEF Devices

LEMMA SeenNext == Lines /\ Devices /\ Chars /\ Text /\ Seen /\ [Next]_vars => Seen'
<1> SUFFICES ASSUME Lines, Devices, Chars, Text, Seen, [Next]_vars PROVE Seen'
  OBVIOUS
<1>1. CASE GetFrameBuffer \/ ClearScreen \/ Banner
  BY <1>1, SeenSame DEF GetFrameBuffer, ClearScreen, Banner, machine, history
<1>2. ASSUME NEW p \in Coms, SetupPort(p) \/ PortFaulty(p) PROVE Seen'
  BY <1>2, SeenSame DEF SetupPort, PortFaulty, machine, history
<1>3. ASSUME NEW p \in Coms, PortFound(p) PROVE Seen'
  BY <1>3, SeenPortFound
<1>4. CASE PutChar
  BY <1>4, SeenPutChar
<1>5. CASE SendByte \/ Poll \/ Rest \/ UNCHANGED vars
  BY <1>5, SeenSame DEF SendByte, Poll, Rest, vars, machine, driver, history
<1>6. ASSUME NEW s, boot_printstr(s) \/ boot_printnum(s) \/ boot_printhex(s) PROVE Seen'
  BY <1>6, SeenSame DEF boot_printstr, boot_printnum, boot_printhex, machine, driver
<1>7. ASSUME NEW p \in Coms, Transmit(p) PROVE Seen'
  BY <1>7, SeenSame DEF Transmit, machine, driver, history
<1> QED
  BY <1>1, <1>2, <1>3, <1>4, <1>5, <1>6, <1>7 DEF Next, Driver

(* Whatever is printed and whichever devices there are: the frame buffer   *)
(* is given every character but the carriage returns, those too when it is *)
(* the only device; and the tty comes up only when there is a device.      *)
THEOREM ScreenShowsText == Spec => []TextIsSeen
<1>1. Devices /\ Seen => TextIsSeen
  <2> SUFFICES ASSUME Devices, Seen PROVE TextIsSeen
    OBVIOUS
  <2>1. boot = "up" => fb_tag \/ com_base # "none"
    BY DEF Devices
  <2> QED
    BY <2>1 DEF TextIsSeen, Seen
<1> QED
  BY <1>1, LinesHold, DevicesHold, CharsHold, TextHolds, SeenInit, SeenNext, PTL DEF Spec
-----------------------------------------------------------------------------
(* A number on its way: of its text t a part was printed, after the first  *)
(* b characters of a, and the rest is still to be printed.                 *)

Partly(t, b, a, rest) ==
  /\ b \in 0 .. Len(a)
  /\ Len(t) = (Len(a) - b) + Len(rest)
  /\ \A i \in 1 .. Len(a) - b : t[i] = a[b + i]
  /\ \A i \in 1 .. Len(rest) : t[(Len(a) - b) + i] = rest[i]

Printing ==
  /\ number.value \in Int
  /\ number.base \in {10, 16}
  /\ number.before \in Int
  /\ boot # "up" => ~(number.before >= 0)
  /\ number.before >= 0 => Partly(Printed(number.value, number.base), number.before, asked, todo)

LEMMA BytesAreCodes == Byte \subseteq Code16
<1> SUFFICES ASSUME NEW c \in Byte PROVE c \in Code16
  OBVIOUS
<1>1. 2 ^ 16 = 65536
  OBVIOUS
<1>2. PICK n : n = 2 ^ 16 - 1
  OBVIOUS
<1>3. c \in 0 .. n
  BY <1>1, <1>2 DEF Byte
<1> QED
  BY <1>2, <1>3 DEF Code16

LEMMA PartlyBegins ==
  ASSUME NEW t \in Seq(Byte), NEW a \in Seq(Code16)
  PROVE  Partly(t, Len(a), a, t)
BY DEF Partly

LEMMA PartlyGoesOn ==
  ASSUME NEW t \in Seq(Byte), NEW a \in Seq(Code16), NEW rest \in Seq(Int), NEW b \in Int,
         Partly(t, b, a, rest), rest # <<>>
  PROVE  Partly(t, b, Append(a, Code(Head(rest))), Tail(rest))
<1> DEFINE n == Len(a)
<1>1. n \in Nat /\ Len(t) \in Nat /\ Len(rest) \in Nat /\ Len(rest) > 0 /\ Head(rest) = rest[1]
  OBVIOUS
<1>2. b \in 0 .. n /\ Len(t) = (n - b) + Len(rest)
  BY DEF Partly
<1>3. /\ \A i \in 1 .. n - b : t[i] = a[b + i]
      /\ \A i \in 1 .. Len(rest) : t[(n - b) + i] = rest[i]
  BY DEF Partly
<1>4. rest[1] = t[(n - b) + 1] /\ (n - b) + 1 \in 1 .. Len(t)
  BY <1>1, <1>2, <1>3
<1>5. Code(Head(rest)) = t[(n - b) + 1] /\ t[(n - b) + 1] \in Code16
  <2>1. t[(n - b) + 1] \in Byte
    BY <1>4, ElementOfSeq
  <2>2. PICK c : c = t[(n - b) + 1]
    OBVIOUS
  <2>3. Code(c) = c /\ c \in Code16
    BY <2>1, <2>2, CodeSame, BytesAreCodes
  <2>4. Head(rest) = c
    BY <1>1, <1>4, <2>2
  <2> QED
    BY <2>2, <2>3, <2>4
<1> DEFINE x == t[(n - b) + 1]
           longer == Append(a, x)
           left == Tail(rest)
<1>6. /\ Len(longer) = n + 1 /\ longer[n + 1] = x
      /\ \A i \in 1 .. n : longer[i] = a[i]
  BY <1>5
<1>7. Len(left) = Len(rest) - 1 /\ \A i \in 1 .. Len(rest) - 1 : left[i] = rest[i + 1]
  BY <1>1
<1> HIDE DEF n, longer, left
<1>8. \A i \in 1 .. (n + 1) - b : t[i] = longer[b + i]
  <2> TAKE i \in 1 .. (n + 1) - b
  <2>1. CASE i = (n - b) + 1
    <3>1. b + i = n + 1
      BY <1>1, <1>2, <2>1
    <3> QED
      BY <1>6, <2>1, <3>1
  <2>2. CASE i # (n - b) + 1
    <3>1. i \in 1 .. n - b /\ b + i \in 1 .. n
      BY <1>1, <1>2, <2>2
    <3> QED
      BY <1>3, <1>6, <3>1
  <2> QED
    BY <2>1, <2>2
<1>9. \A i \in 1 .. Len(rest) - 1 : t[((n + 1) - b) + i] = left[i]
  <2> TAKE i \in 1 .. Len(rest) - 1
  <2>1. i + 1 \in 1 .. Len(rest) /\ ((n + 1) - b) + i = (n - b) + (i + 1)
    BY <1>1, <1>2
  <2> QED
    BY <1>3, <1>7, <2>1
<1>10. b \in 0 .. n + 1 /\ Len(t) = ((n + 1) - b) + (Len(rest) - 1)
  BY <1>1, <1>2
<1>11. Partly(t, b, longer, left)
  BY <1>6, <1>7, <1>8, <1>9, <1>10 DEF Partly
<1> QED
  BY <1>5, <1>11 DEF longer, left, n

LEMMA PartlyEnds ==
  ASSUME NEW t \in Seq(Byte), NEW a \in Seq(Code16), NEW b \in Int, Partly(t, b, a, <<>>)
  PROVE  SubSeq(a, b + 1, Len(a)) = t
<1> DEFINE n == Len(a)
           s == SubSeq(a, b + 1, n)
<1>1. n \in Nat /\ Len(t) \in Nat
  OBVIOUS
<1>2. b \in 0 .. n /\ Len(t) = n - b /\ \A i \in 1 .. n - b : t[i] = a[b + i]
  BY DEF Partly
<1>3. s \in Seq(Code16) /\ Len(s) = n - b /\ \A i \in 1 .. n - b : s[i] = a[b + i]
  <2>1. \A i \in b + 1 .. n : a[i] \in Code16
    BY <1>2
  <2>2. /\ SubSeq(a, b + 1, n) \in Seq(Code16)
        /\ Len(SubSeq(a, b + 1, n)) = n - b
    BY <1>1, <1>2
  <2>3. \A i \in 1 .. n - b : SubSeq(a, b + 1, n)[i] = a[b + i]
    BY <1>1, <1>2
  <2> QED
    BY <2>2, <2>3
<1> HIDE DEF s, n
<1>4. t \in Seq(Code16)
  BY BytesAreCodes, SeqMonotonic
<1>5. s = t
  BY <1>1, <1>2, <1>3, <1>4, SeqEqual
<1> QED
  BY <1>5 DEF s, n

LEMMA PrintingInit == Init => Printing
<1>1. Init => number = None /\ None.value = 0 /\ None.base = 10 /\ None.before = -1
  BY DEF Init, None
<1> QED
  BY <1>1 DEF Printing

LEMMA PrintingSame ==
  ASSUME Printing, UNCHANGED <<number, asked>>, boot = "up" => boot' = "up" /\ todo' = todo
  PROVE  Printing'
  BY DEF Printing, Partly

(* A step in which nothing that was printed counts as a number.            *)
LEMMA PrintingNothing ==
  ASSUME number' = None
  PROVE  Printing'
  BY DEF Printing, None

LEMMA PrintingBegins ==
  ASSUME Chars, NEW n \in Int, NEW base \in {10, 16}, asked' = asked,
         boot' = "up", todo' = Printed(n, base), number' = [value |-> n, base |-> base, before |-> Len(asked)]
  PROVE  Printing'
<1>1. asked \in Seq(Code16) /\ Printed(n, base) \in Seq(Byte)
  BY PrintedBytes DEF Chars
<1>2. Partly(Printed(n, base), Len(asked), asked, Printed(n, base))
  BY <1>1, PartlyBegins
<1>3. Len(asked) \in Nat /\ number'.value = n /\ number'.base = base /\ number'.before = Len(asked)
  BY <1>1
<1> QED
  BY <1>2, <1>3 DEF Printing

LEMMA PrintingPutChar ==
  ASSUME Chars, Printing, PutChar
  PROVE  Printing'
<1>1. /\ number' = number /\ boot' = boot /\ todo # <<>>
      /\ asked' = Append(asked, Code(Head(todo))) /\ todo' = Tail(todo)
  BY DEF PutChar, driver
<1>2. CASE ~(number.before >= 0)
  BY <1>1, <1>2 DEF Printing
<1>3. CASE number.before >= 0
  <2>1. PICK t : t = Printed(number.value, number.base)
    OBVIOUS
  <2>2. Partly(t, number.before, asked, todo)
    BY <1>3, <2>1 DEF Printing
  <2>3. t \in Seq(Byte) /\ asked \in Seq(Code16) /\ todo \in Seq(Int) /\ number.before \in Int
    BY <2>1, PrintedBytes DEF Printing, Chars
  <2>4. Partly(t, number.before, Append(asked, Code(Head(todo))), Tail(todo))
    BY <1>1, <2>2, <2>3, PartlyGoesOn
  <2> QED
    BY <1>1, <2>1, <2>4 DEF Printing
<1> QED
  BY <1>2, <1>3

LEMMA PrintingNext == Chars /\ Text /\ Printing /\ [Next]_vars => Printing'
<1> SUFFICES ASSUME Chars, Text, Printing, [Next]_vars PROVE Printing'
  OBVIOUS
<1>1. CASE GetFrameBuffer \/ ClearScreen \/ SendByte \/ Poll \/ Rest \/ UNCHANGED vars
  BY <1>1, PrintingSame DEF GetFrameBuffer, ClearScreen, SendByte, Poll, Rest, vars, driver, history
<1>2. ASSUME NEW p \in Coms, SetupPort(p) \/ PortFound(p) \/ PortFaulty(p) \/ Transmit(p) PROVE Printing'
  BY <1>2, PrintingSame DEF SetupPort, PortFound, PortFaulty, Transmit, driver, history, Coms
<1>3. CASE Banner
  BY <1>3, PrintingSame DEF Banner, history
<1>4. CASE PutChar
  BY <1>4, PrintingPutChar
<1>5. ASSUME NEW s, boot_printstr(s) PROVE Printing'
  BY <1>5, PrintingNothing DEF boot_printstr
<1>6. ASSUME NEW n \in Numbers, boot_printnum(n) PROVE Printing'
  BY <1>6, TextAssumption, PrintingBegins DEF boot_printnum, Idle, driver, Printed
<1>7. ASSUME NEW n \in Addresses, boot_printhex(n) PROVE Printing'
  <2>1. n \in Int /\ ~(n < 0)
    BY TextAssumption
  <2> QED
    BY <1>7, <2>1, PrintingBegins DEF boot_printhex, Idle, driver, Printed
<1> QED
  BY <1>1, <1>2, <1>3, <1>4, <1>5, <1>6, <1>7 DEF Next, Driver

ReadsBack(text, n, base) ==
  LET digits == IF text[1] = 45 THEN Tail(text) ELSE text
  IN  /\ text # <<>>
      /\ Read(digits, base) = IF text[1] = 45 THEN -n ELSE n
      /\ digits[1] = 48 => Len(digits) = 1

LEMMA PrintedReadsBack ==
  ASSUME NEW n \in Int, NEW base \in {10, 16}
  PROVE  ReadsBack(Printed(n, base), n, base)
<1>1. CASE n < 0
  <2>1. PICK m \in Nat : m = -n /\ m > 0
    BY <1>1
  <2>2. PICK d : d = Digits(m, base)
    OBVIOUS
  <2>3. Stands(d, m, base)
    BY <2>2, DigitsStand
  <2>4. Printed(n, base) = <<45>> \o d
    BY <1>1, <2>1, <2>2 DEF Printed
  <2>5. (<<45>> \o d)[1] = 45 /\ Tail(<<45>> \o d) = d /\ <<45>> \o d # <<>>
    <3> DEFINE S == Numerals \union {45}
               c == <<45>> \o d
    <3>1. d \in Seq(S) /\ 45 \in S
      BY <2>3, SeqMonotonic DEF Stands
    <3> HIDE DEF S
    <3>2. /\ c \in Seq(S) /\ Len(c) = Len(d) + 1 /\ c[1] = 45 /\ Len(d) \in Nat
          /\ \A i \in 1 .. Len(d) : c[i + 1] = d[i]
      BY <3>1
    <3> HIDE DEF c
    <3>3. Tail(c) \in Seq(S) /\ Len(Tail(c)) = Len(d) /\ \A i \in 1 .. Len(d) : Tail(c)[i] = d[i]
      BY <3>2
    <3>4. Tail(c) = d
      BY <3>1, <3>3, SeqEqual
    <3>5. c # <<>>
      BY <3>2
    <3> QED
      BY <3>2, <3>4, <3>5 DEF c
  <2>6. PICK w : w = <<45>> \o d
    OBVIOUS
  <2>7. w # <<>> /\ w[1] = 45 /\ Tail(w) = d
    BY <2>5, <2>6
  <2>8. Read(d, base) = -n
    BY <2>1, <2>3 DEF Stands
  <2>9. d[1] = 48 => Len(d) = 1
    BY <2>3 DEF Stands
  <2> DEFINE digits == IF w[1] = 45 THEN Tail(w) ELSE w
  <2>10. digits = d
    BY <2>7
  <2> HIDE DEF digits
  <2>11. /\ w # <<>>
         /\ Read(digits, base) = IF w[1] = 45 THEN -n ELSE n
         /\ digits[1] = 48 => Len(digits) = 1
    BY <2>7, <2>8, <2>9, <2>10
  <2>12. ReadsBack(w, n, base)
    BY <2>11 DEF ReadsBack, digits
  <2> QED
    BY <2>4, <2>6, <2>12
<1>2. CASE n >= 0
  <2>1. PICK d : d = Digits(n, base)
    OBVIOUS
  <2>2. Stands(d, n, base)
    BY <1>2, <2>1, DigitsStand
  <2>3. Printed(n, base) = d
    BY <1>2, <2>1 DEF Printed
  <2>4. d[1] \in Numerals /\ d # <<>>
    BY <2>2 DEF Stands
  <2>5. d[1] # 45
    BY <2>4 DEF Numerals
  <2> DEFINE digits == IF d[1] = 45 THEN Tail(d) ELSE d
  <2>6. digits = d
    BY <2>5
  <2> HIDE DEF digits
  <2>7. Read(digits, base) = IF d[1] = 45 THEN -n ELSE n
    BY <2>2, <2>5, <2>6 DEF Stands
  <2>8. digits[1] = 48 => Len(digits) = 1
    BY <1>2, <2>2, <2>6 DEF Stands
  <2>9. ReadsBack(d, n, base)
    BY <2>4, <2>7, <2>8 DEF ReadsBack, digits
  <2> QED
    BY <2>3, <2>9
<1>3. n < 0 \/ n >= 0
  OBVIOUS
<1> QED
  BY <1>1, <1>2, <1>3, Zenon

(* Every number that is printed, decimal or hexadecimal, reads back as the *)
(* number it was when its last character was printed, without leading      *)
(* zeros.                                                                  *)
THEOREM NumbersReadBack == Spec => []NumberReadsBack
<1>1. Chars /\ Printing => NumberReadsBack
  <2> SUFFICES ASSUME Chars, Printing, number.before >= 0, todo = <<>> PROVE NumberReadsBack
    BY DEF NumberReadsBack
  <2>1. PICK n \in Int, base \in {10, 16}, b \in Int :
          n = number.value /\ base = number.base /\ b = number.before
    BY DEF Printing
  <2>2. Partly(Printed(n, base), b, asked, <<>>)
    BY <2>1 DEF Printing
  <2>3. SubSeq(asked, b + 1, Len(asked)) = Printed(n, base)
    BY <2>2, PrintedBytes, PartlyEnds DEF Chars
  <2>4. ReadsBack(SubSeq(asked, number.before + 1, Len(asked)), number.value, number.base)
    BY <2>1, <2>3, PrintedReadsBack
  <2> QED
    BY <2>4, Zenon DEF NumberReadsBack, ReadsBack
<1> QED
  BY <1>1, CharsHold, TextHolds, PrintingInit, PrintingNext, PTL DEF Spec
=============================================================================
