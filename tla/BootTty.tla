------------------------------- MODULE BootTty -------------------------------
(***************************************************************************)
(* The tty of the booting stage, src/arch/x86/boot/boot_tty.c: which       *)
(* devices the machine has, how boot_tty_init finds out, and the way of    *)
(* every character to each of them.                                        *)
(*                                                                         *)
(* The processor runs beside the chips of two serial ports, one access to  *)
(* a port at a time.  What the frame buffer does with the characters it is *)
(* given is in FrameBuffer.                                                *)
(***************************************************************************)
EXTENDS Uart

CONSTANTS
  Texts,        \* bound: the strings that are printed
  Numbers,      \* bound: the numbers that boot_printnum is called with
  Addresses,    \* bound: the numbers that boot_printhex is called with
  MaxText       \* bound: no call is begun when so much was printed

Coms == {"COM1", "COM2"}

CR == 13
LF == 10
TestByte == 97

(* All that is said before anything else, as short as its kinds allow.     *)
NoGraphic == <<71, LF, LF>>
NoSerial == <<83, LF, LF>>
Welcome == <<67, LF>>

(* What boot_clear_screen_internal_com sends.                              *)
ClearSequence == <<27, 91, 50, 74, 27, 91, 50, 74>>

ASSUME TextAssumption ==
  /\ Texts \subseteq Seq(Int)
  /\ Numbers \subseteq Int
  /\ Addresses \subseteq Nat
  /\ MaxText \in Nat

VARIABLES
  fb_tag,    \* the boot information has a frame buffer
  port5,     \* what is read at I/O port 5 has the bit 0x20 set
  port,      \* the chip at each COM port
  boot,      \* how far boot_tty_init is: "fb", "COM1", "COM2", "clear", "banner", "up", "failed"
  at,        \* how far boot_init_com_internal is
  com_base,  \* the port in use, "none" while com_base is 0
  putchar,   \* which of the functions internal_boot_putchar and its like point to
  todo,      \* what boot_printstr has still to print
  out,       \* what the current call has still to send to the serial port
  number,    \* history: the number being printed, and how much was printed before
  asked,     \* history: every character given to boot_putchar
  shown      \* history: every character given to the frame buffer

machine == <<fb_tag, port5>>
driver == <<boot, at, com_base, putchar>>
history == <<number, asked, shown>>
vars == <<machine, port, driver, todo, out, history>>

None == [value |-> 0, base |-> 10, before |-> -1]

Init ==
  /\ fb_tag \in BOOLEAN
  /\ port5 \in BOOLEAN
  /\ \E kind \in [Coms -> Kinds], ier \in {0, 1}, rx \in {0, TestByte} :
       port = [p \in Coms |-> Port(kind[p], ier, rx)]
  /\ boot = "fb"
  /\ at = 1
  /\ com_base = "none"
  /\ putchar = "default"
  /\ todo = <<>>
  /\ out = <<>>
  /\ number = None
  /\ asked = <<>>
  /\ shown = <<>>

(* boot_get_frame_buffer; without one the serial functions take over.      *)
GetFrameBuffer ==
  /\ boot = "fb"
  /\ boot' = "COM1"
  /\ putchar' = IF fb_tag THEN putchar ELSE "no_fb"
  /\ UNCHANGED <<machine, port, at, com_base, todo, out, history>>

(* Mutant of Setup: the FIFO is enabled and not cleared. *)
SetupStale == <<
  <<COM_REG.IER, 0>>,
  <<COM_REG.LCR, COM_LCR.DLAB_ON>>,
  <<COM_REG.DLL, 3>>, <<COM_REG.DLM, 0>>,
  <<COM_REG.LCR, COM_LCR.DB_WLEN_8 + COM_LCR.SB_ONE + COM_LCR.DLAB_OFF>>,
  <<COM_REG.FCR, COM_FCR.ITLB_TL_14 + COM_FCR.EFB_ON>>,
  <<COM_REG.MCR, COM_MCR.OUT2_ON + COM_MCR.RTSB_ON + COM_MCR.DTRB_ON>>,
  <<COM_REG.MCR, COM_MCR.LB_ON + COM_MCR.OUT2_ON + COM_MCR.OUT1_ON + COM_MCR.RTSB_ON>>,
  <<COM_REG.TX, TestByte>> >>

(* What boot_init_com_internal writes before it looks at the port: no      *)
(* interrupts, the divisor, the line, the FIFO, and in loopback mode a     *)
(* byte.                                                                   *)
Setup == <<
  <<COM_REG.IER, 0>>,
  <<COM_REG.LCR, COM_LCR.DLAB_ON>>,
  <<COM_REG.DLL, 3>>, <<COM_REG.DLM, 0>>,
  <<COM_REG.LCR, COM_LCR.DB_WLEN_8 + COM_LCR.SB_ONE + COM_LCR.DLAB_OFF>>,
  <<COM_REG.FCR, COM_FCR.ITLB_TL_14 + COM_FCR.CTFB_ON + COM_FCR.CRFB_ON + COM_FCR.EFB_ON>>,
  <<COM_REG.MCR, COM_MCR.OUT2_ON + COM_MCR.RTSB_ON + COM_MCR.DTRB_ON>>,
  <<COM_REG.MCR, COM_MCR.LB_ON + COM_MCR.OUT2_ON + COM_MCR.OUT1_ON + COM_MCR.RTSB_ON>>,
  <<COM_REG.TX, TestByte>> >>

Normal == COM_MCR.OUT2_ON + COM_MCR.OUT1_ON + COM_MCR.RTSB_ON + COM_MCR.DTRB_ON

SetupPort(p) ==
  /\ boot = p
  /\ at <= Len(Setup)
  /\ port' = [port EXCEPT ![p] = Written(@, Setup[at][1], Setup[at][2])]
  /\ at' = at + 1
  /\ UNCHANGED <<machine, boot, com_base, putchar, todo, out, history>>

(* The byte came back: normal mode, and this is the port.                  *)
PortFound(p) ==
  /\ boot = p
  /\ at = Len(Setup) + 1
  /\ ReadRX(port[p]) = TestByte
  /\ port' = [port EXCEPT ![p] = Written(@, COM_REG.MCR, Normal)]
  /\ com_base' = p
  /\ boot' = "clear"
  /\ UNCHANGED <<machine, at, putchar, todo, out, history>>

(* It did not, or not yet: the port stays in loopback mode.  After the     *)
(* second port the frame buffer is the only device, or there is none.      *)
PortFaulty(p) ==
  /\ boot = p
  /\ at = Len(Setup) + 1
  /\ ReadRX(port[p]) # TestByte
  /\ at' = 1
  /\ IF p = "COM1"
     THEN boot' = "COM2" /\ UNCHANGED putchar
     ELSE IF putchar = "no_fb"
          THEN boot' = "failed" /\ UNCHANGED putchar
          ELSE boot' = "clear" /\ putchar' = "no_com"
  /\ UNCHANGED <<machine, port, com_base, todo, out, history>>

(* boot_clear_screen: internal_boot_clear_screen is never assigned and     *)
(* clears both devices, whatever there is.                                 *)
ClearScreen ==
  /\ boot = "clear"
  /\ boot' = "banner"
  /\ out' = ClearSequence
  /\ UNCHANGED <<machine, port, at, com_base, putchar, todo, history>>

Banner ==
  /\ boot = "banner"
  /\ out = <<>>
  /\ boot' = "up"
  /\ todo' = (CASE putchar = "no_fb" -> NoGraphic
                [] putchar = "no_com" -> NoSerial
                [] putchar = "default" -> <<>>) \o Welcome
  /\ UNCHANGED <<machine, port, at, com_base, putchar, out, history>>

(* Mutant of Code: the char is not made unsigned. *)
CodeSigned(char) == char

(* The uint16_t that boot_putchar is given for a char.                     *)
Code(char) == char % 2 ^ 16

(* Mutant of ToFrameBuffer: with a serial port it is left out. *)
ToFrameBufferOnly(ch) == putchar = "no_com"

(* What the functions behind the pointers do with a character: the frame   *)
(* buffer is given it, or not; these bytes go to the serial port.  A       *)
(* carriage return is for the serial port when there are both.             *)
ToFrameBuffer(ch) ==
  \/ putchar = "no_com"
  \/ putchar = "default" /\ ch # CR

ToSerial(ch) == IF putchar = "no_com" THEN <<>> ELSE <<ch>>

(* boot_putchar of the next character.                                     *)
PutChar ==
  /\ todo # <<>>
  /\ out = <<>>
  /\ LET ch == Code(Head(todo))
     IN  /\ shown' = IF ToFrameBuffer(ch) THEN Append(shown, ch) ELSE shown
         /\ out' = ToSerial(ch)
         /\ asked' = Append(asked, ch)
  /\ todo' = Tail(todo)
  /\ UNCHANGED <<machine, port, driver, number>>

(* Mutant of Ready: nothing is waited for. *)
ReadyAlways == TRUE

(* Mutant of Ready: the loop waits while the port is ready. *)
ReadyInverted == IF com_base = "none" THEN port5 ELSE ~LSRReady(port[com_base])

(* What boot_putchar_com polls for, at port 5 if com_base is 0.            *)
Ready == IF com_base = "none" THEN port5 ELSE LSRReady(port[com_base])

(* If com_base is 0 the byte goes to I/O port 0, which is no serial port.  *)
SendByte ==
  /\ out # <<>>
  /\ Ready
  /\ out' = Tail(out)
  /\ port' = [p \in Coms |-> IF p = com_base THEN Written(port[p], COM_REG.TX, Head(out) % 256) ELSE port[p]]
  /\ UNCHANGED <<machine, driver, todo, history>>

(* The loop of boot_putchar_com goes round.                                *)
Poll ==
  /\ out # <<>>
  /\ ~Ready
  /\ UNCHANGED vars

Idle == boot = "up" /\ todo = <<>> /\ out = <<>>

boot_printstr(s) ==
  /\ Idle
  /\ Len(asked) < MaxText
  /\ todo' = s
  /\ number' = None
  /\ UNCHANGED <<machine, port, driver, out, asked, shown>>

Digit(d) == IF d >= 10 THEN 97 + d - 10 ELSE 48 + d

(* Mutant of Digits: a while loop, which prints nothing for zero. *)
DigitsWhile(n, base) ==
  LET digits[k \in 0 .. n] ==
        IF k = 0 THEN <<>> ELSE Append(digits[k \div base], Digit(k % base))
  IN  digits[n]

(* The digits of n, from the last to the first, read the other way.        *)
Digits(n, base) ==
  LET digits[k \in 0 .. n] ==
        IF k < base THEN <<Digit(k)>> ELSE Append(digits[k \div base], Digit(k % base))
  IN  digits[n]

(* The callers' numbers are error codes and types of memory; the smallest  *)
(* int64_t, which has no negative, is not among them.                      *)
boot_printnum(n) ==
  /\ Idle
  /\ Len(asked) < MaxText
  /\ todo' = IF n < 0 THEN <<45>> \o Digits(-n, 10) ELSE Digits(n, 10)
  /\ number' = [value |-> n, base |-> 10, before |-> Len(asked)]
  /\ UNCHANGED <<machine, port, driver, out, asked, shown>>

boot_printhex(n) ==
  /\ Idle
  /\ Len(asked) < MaxText
  /\ todo' = Digits(n, 16)
  /\ number' = [value |-> n, base |-> 16, before |-> Len(asked)]
  /\ UNCHANGED <<machine, port, driver, out, asked, shown>>

(* boot_main stops when there is no device; and nobody has to print.       *)
Rest ==
  /\ boot = "failed" \/ (Idle /\ Len(asked) >= MaxText)
  /\ UNCHANGED vars

(* The chip at p gets its character away.                                  *)
Transmit(p) ==
  /\ port[p].thr # <<>>
  /\ port' = [port EXCEPT ![p] = Transmitted(@)]
  /\ UNCHANGED <<machine, driver, todo, out, history>>

Driver ==
  \/ GetFrameBuffer
  \/ \E p \in Coms : SetupPort(p) \/ PortFound(p) \/ PortFaulty(p)
  \/ ClearScreen
  \/ Banner
  \/ PutChar
  \/ SendByte

Next ==
  \/ Driver
  \/ Poll
  \/ \E s \in Texts : boot_printstr(s)
  \/ \E n \in Numbers : boot_printnum(n)
  \/ \E n \in Addresses : boot_printhex(n)
  \/ Rest
  \/ \E p \in Coms : Transmit(p)

Spec == Init /\ [][Next]_vars

(* The processor goes on, and a chip sends what it holds.                  *)
FairSpec == Spec /\ WF_vars(Driver) /\ \A p \in Coms : WF_vars(Transmit(p))
-----------------------------------------------------------------------------
(* Types.                                                                  *)
TypeOK ==
  /\ \A p \in Coms :
       /\ {port[p].ier, port[p].lcr, port[p].mcr, port[p].fcr, port[p].dll, port[p].dlm, port[p].rx} \subseteq 0 .. 255
       /\ Len(port[p].thr) <= 1
       /\ \A k \in DOMAIN port[p].wire : port[p].wire[k] \in 0 .. 255
  /\ boot \in Coms \union {"fb", "clear", "banner", "up", "failed"}
  /\ at \in 1 .. Len(Setup) + 1
  /\ com_base \in Coms \union {"none"}
  /\ putchar \in {"default", "no_fb", "no_com"}
  /\ \A k \in DOMAIN asked : asked[k] \in 0 .. 2 ^ 16 - 1

(* A port in use works and is set up as its far end expects: no            *)
(* interrupts, 38400 8N1, no loopback.  A port that was not chosen may be  *)
(* anything.                                                               *)
LinePrepared ==
  com_base # "none" =>
    LET u == port[com_base]
    IN  /\ u.kind = "working"
        /\ Understood(u)
        /\ ~DLAB(u)
        /\ ~Loopback(u)
        /\ u.ier = 0
        /\ Has(u.fcr, COM_FCR.EFB_ON)

(* What a port has sent or has still to send.                              *)
Sent(p) == port[p].wire \o (IF Loopback(port[p]) THEN <<>> ELSE port[p].thr)

(* The far end of the port in use gets as many bytes as are sent to clear  *)
(* its screen, whatever they should be, and then every character printed,  *)
(* once, in order and readable; nothing reaches the far end of another     *)
(* port, the test byte included.                                           *)
WireGetsText ==
  LET cleared == Len(ClearSequence)
      Bytes == [k \in DOMAIN asked |-> asked[k] % 256]
      Pending == [k \in DOMAIN out |-> out[k] % 256]
      AllOf(p) == Sent(p) \o Pending
  IN  \A p \in Coms :
        IF p = com_base /\ boot \in {"banner", "up"}
        THEN /\ Len(AllOf(p)) = cleared + Len(asked)
             /\ SubSeq(AllOf(p), cleared + 1, Len(AllOf(p))) = Bytes
        ELSE Sent(p) = <<>>

(* The control sequence that puts the cursor of a terminal back home.      *)
CursorHome == <<27, 91, 72>>

(* boot_tty.c:241 says of the second sequence of                           *)
(* boot_clear_screen_internal_com that it puts the cursor back home: once  *)
(* the tty is up, a terminal at the port in use was sent that sequence.    *)
CursorGoesHome ==
  boot = "up" /\ com_base # "none" =>
    \E k \in 1 .. Len(Sent(com_base)) - 2 :
      SubSeq(Sent(com_base), k, k + 2) = CursorHome

(* The text without its carriage returns.                                  *)
WithoutCR(text) ==
  LET kept[k \in 0 .. Len(text)] ==
        IF k = 0 THEN <<>> ELSE IF text[k] = CR THEN kept[k - 1] ELSE Append(kept[k - 1], text[k])
  IN  kept[Len(text)]

(* Every machine with a device shows the text on it: with a frame buffer   *)
(* it is given every character but carriage returns, and those too when it *)
(* is the only device; and the tty comes up only if there is a device.     *)
TextIsSeen ==
  /\ boot = "up" => fb_tag \/ com_base # "none"
  /\ shown = IF ~fb_tag THEN <<>> ELSE IF com_base = "none" THEN asked ELSE WithoutCR(asked)

(* The digits that were printed, read as a number.                         *)
Read(digits, base) ==
  LET value[k \in 0 .. Len(digits)] ==
        IF k = 0 THEN 0
        ELSE base * value[k - 1] + (IF digits[k] >= 97 THEN digits[k] - 87 ELSE digits[k] - 48)
  IN  value[Len(digits)]

(* A number that was printed reads back as the number it was, without      *)
(* leading zeros.                                                          *)
NumberReadsBack ==
  number.before >= 0 /\ todo = <<>> =>
    LET text == SubSeq(asked, number.before + 1, Len(asked))
        digits == IF text[1] = 45 THEN Tail(text) ELSE text
    IN  /\ text # <<>>
        /\ Read(digits, number.base) = IF text[1] = 45 THEN -number.value ELSE number.value
        /\ digits[1] = 48 => Len(digits) = 1

(* Printing ends, and so does boot_tty_init on every machine but the one   *)
(* where no serial port was found and the screen is cleared nevertheless:  *)
(* the loop of boot_putchar_com then waits for port 5, which is none.      *)
PrintingEnds ==
  /\ [](boot = "up" => <>Idle)
  /\ <>(boot \in {"up", "failed"} \/ (boot = "banner" /\ com_base = "none" /\ ~port5))
=============================================================================
