-------------------------------- MODULE Uart --------------------------------
(***************************************************************************)
(* A serial port: the registers and bits of                                *)
(* src/arch/x86/include/asm/com.h, and what the chip does when they are    *)
(* read and written (outb and inb of asm/io.h).  The chip is not part of   *)
(* the repository: it is modelled as far as boot_tty.c uses it.            *)
(***************************************************************************)
EXTENDS Integers, Sequences

COM_REG ==
  [TX |-> 0, RX |-> 0, IER |-> 1, DLL |-> 0, DLM |-> 1, IIR |-> 2, FCR |-> 2,
   LCR |-> 3, MCR |-> 4, LSR |-> 5, MSR |-> 6, SR |-> 7]

COM_LCR ==
  [DLAB_ON |-> 128, DLAB_OFF |-> 0, BEB |-> 64,
   PB_NO |-> 0, PB_ODD |-> 8, PB_EVEN |-> 24, PB_HIGH |-> 40, PB_LOW |-> 56,
   SB_ONE |-> 0, SB_TWO |-> 4,
   DB_WLEN_5 |-> 0, DB_WLEN_6 |-> 1, DB_WLEN_7 |-> 2, DB_WLEN_8 |-> 3]

COM_FCR ==
  [ITLB_TL_1 |-> 0, ITLB_TL_4 |-> 64, ITLB_TL_8 |-> 128, ITLB_TL_14 |-> 192,
   DMS |-> 8, CTFB_ON |-> 4, CRFB_ON |-> 2, EFB_ON |-> 1]

COM_MCR == [LB_ON |-> 16, OUT2_ON |-> 8, OUT1_ON |-> 4, RTSB_ON |-> 2, DTRB_ON |-> 1]

Kinds == {"absent", "faulty", "working"}

(* Whether the bits of mask, a power of two, are set in v.                 *)
Has(v, mask) == (v \div mask) % 2 = 1

DLAB(u) == Has(u.lcr, COM_LCR.DLAB_ON)
Loopback(u) == Has(u.mcr, COM_MCR.LB_ON)

Garbage == -1

(* A port as the firmware leaves it: interrupts may be enabled, a          *)
(* character may have been received.                                       *)
Port(kind, ier, rx) ==
  [kind |-> kind, ier |-> ier, lcr |-> COM_LCR.DB_WLEN_8, mcr |-> 0, fcr |-> 0, dll |-> 1, dlm |-> 0,
   rx |-> rx, thr |-> <<>>, wire |-> <<>>]

(* outb(base + reg, v).  The transmitter is taken to hold one character: a *)
(* second one takes its place.                                             *)
Written(u, reg, v) ==
  CASE u.kind = "absent" -> u
    [] u.kind # "absent" /\ reg = COM_REG.TX -> IF DLAB(u) THEN [u EXCEPT !.dll = v] ELSE [u EXCEPT !.thr = <<v>>]
    [] u.kind # "absent" /\ reg = COM_REG.IER -> IF DLAB(u) THEN [u EXCEPT !.dlm = v] ELSE [u EXCEPT !.ier = v]
    [] u.kind # "absent" /\ reg = COM_REG.FCR ->
         [u EXCEPT !.fcr = v,
                   !.thr = IF Has(v, COM_FCR.CTFB_ON) THEN <<>> ELSE @,
                   !.rx = IF Has(v, COM_FCR.CRFB_ON) THEN 0 ELSE @]
    [] u.kind # "absent" /\ reg = COM_REG.LCR -> [u EXCEPT !.lcr = v]
    [] u.kind # "absent" /\ reg = COM_REG.MCR -> [u EXCEPT !.mcr = v]

(* inb(base + COM_REG_RX), of a bus where nothing answers: all ones.       *)
ReadRX(u) == IF u.kind = "absent" THEN 255 ELSE u.rx

(* inb(base + COM_REG_LSR) & 0x20: the transmitter is empty.               *)
LSRReady(u) == u.kind = "absent" \/ u.thr = <<>>

(* The far end expects 38400 baud, 8 data bits, no parity, 1 stop bit.     *)
Understood(u) ==
  /\ u.dll = 3
  /\ u.dlm = 0
  /\ u.lcr % 64 = COM_LCR.DB_WLEN_8 + COM_LCR.SB_ONE + COM_LCR.PB_NO

(* The chip sends the character: to itself in loopback mode, if it is not  *)
(* faulty, and otherwise along the wire.                                   *)
Transmitted(u) ==
  IF Loopback(u)
  THEN [u EXCEPT !.thr = <<>>, !.rx = IF u.kind = "working" THEN Head(u.thr) ELSE @]
  ELSE [u EXCEPT !.thr = <<>>, !.wire = Append(@, IF Understood(u) THEN Head(u.thr) ELSE Garbage)]
=============================================================================
