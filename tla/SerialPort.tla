----------------------------- MODULE SerialPort -----------------------------
(***************************************************************************)
(* The serial port at the level of its registers: boot_tty_serial_init and *)
(* __boot_putchar_serial of code/arch/x86/boot/tty_boot.c with the         *)
(* constants of code/include/graphics/vga.h (tty.c has copies of both).    *)
(* The device is a 16450: registers 0 and 1 are the divisor as long as bit *)
(* 7 of the line control register (DLAB) is set.                           *)
(***************************************************************************)
EXTENDS Integers

CONSTANTS
  Bytes,      \* what is printed
  MaxPolls    \* 12800

COM_SERIAL_BASE == 1016     \* 0x3F8
COM_SERIAL_TX   == COM_SERIAL_BASE + 0
COM_SERIAL_DLL  == COM_SERIAL_BASE + 0
COM_SERIAL_DLM  == COM_SERIAL_BASE + 1
COM_SERIAL_IER  == COM_SERIAL_BASE + 1
COM_SERIAL_FCR  == COM_SERIAL_BASE + 2
COM_SERIAL_LCR  == COM_SERIAL_BASE + 3
COM_SERIAL_MCR  == COM_SERIAL_BASE + 4

(* The bits of the registers are defined from the base, too.                *)
COM_SERIAL_IER_RDI      == COM_SERIAL_BASE + 1
COM_SERIAL_LCR_DLAB     == COM_SERIAL_BASE + 128
COM_SERIAL_LCR_WLEN7    == COM_SERIAL_BASE + 2     \* a slip of the next one
COM_SERIAL_LCR_WLEN8    == COM_SERIAL_BASE + 3
COM_SERIAL_LSR_TX_READY == COM_SERIAL_BASE + 32

Byte(v) == v % 256                 \* outb takes the low eight bits

(* a & b and a & ~b, of numbers below 2^11.                                 *)
Bit(v, w) == (v \div w) % 2
And(a, b) == LET both(w) == w * Bit(a, w) * Bit(b, w)
             IN  both(1) + both(2) + both(4) + both(8) + both(16) + both(32)
                 + both(64) + both(128) + both(256) + both(512) + both(1024)
AndNot(a, b) == a - And(a, b)

VARIABLES
  there,    \* there is a port
  regs,     \* its registers
  pc,       \* the next statement
  exists,   \* boot_serial_exists
  ch, polls,
  sent      \* history: how the last character left

vars == <<there, regs, pc, exists, ch, polls, sent>>

dlab == regs.lcr >= 128

(* What the device makes of a byte that is written to a port.               *)
Stored(r, port, v) ==
  LET b == Byte(v) IN
  CASE port = COM_SERIAL_BASE     -> IF dlab THEN [r EXCEPT !.dll = b]
                                     ELSE [r EXCEPT !.thr = b]
    [] port = COM_SERIAL_BASE + 1 -> IF dlab THEN [r EXCEPT !.dlm = b]
                                     ELSE [r EXCEPT !.ier = b]
    [] port = COM_SERIAL_FCR      -> [r EXCEPT !.fcr = b]
    [] port = COM_SERIAL_LCR      -> [r EXCEPT !.lcr = b]
    [] port = COM_SERIAL_MCR      -> [r EXCEPT !.mcr = b]

(* What the line status register reads: framing error (8) and room for a    *)
(* character (32) come and go; where there is no port all bits are set.     *)
LSR == IF there THEN {0, 8, 32, 40} ELSE {255}

(* The statements of boot_tty_serial_init, and the last of                  *)
(* __boot_putchar_serial.                                                   *)
Statement == [fifo  |-> [port |-> COM_SERIAL_FCR, value |-> 0],
              speed |-> [port |-> COM_SERIAL_LCR, value |-> COM_SERIAL_LCR_DLAB],
              low   |-> [port |-> COM_SERIAL_DLL, value |-> 115200 \div 9600],
              high  |-> [port |-> COM_SERIAL_DLM, value |-> 0],
              line  |-> [port |-> COM_SERIAL_LCR,
                         value |-> AndNot(COM_SERIAL_LCR_WLEN8,
                                          COM_SERIAL_LCR_DLAB)],
              modem |-> [port |-> COM_SERIAL_MCR, value |-> 0],
              irq   |-> [port |-> COM_SERIAL_IER, value |-> COM_SERIAL_IER_RDI]]
After == [fifo |-> "speed", speed |-> "low", low |-> "high", high |-> "line",
          line |-> "modem", modem |-> "irq", irq |-> "probe"]

Init ==
  /\ there \in BOOLEAN
  /\ regs \in [thr : {0}, dll : {0, 1}, dlm : {0, 1}, ier : {0}, fcr : {1},
               lcr : {3, 131}, mcr : {0, 8}]
  /\ pc = "fifo"
  /\ exists = FALSE /\ ch = 0 /\ polls = 0
  /\ sent = [avail |-> TRUE, polls |-> 0]

Outb ==
  /\ pc \in DOMAIN Statement
  /\ regs' = IF there THEN Stored(regs, Statement[pc].port, Statement[pc].value)
             ELSE regs
  /\ pc' = After[pc]
  /\ UNCHANGED <<there, exists, ch, polls, sent>>

(* "Serial port doesn't exist if COM_LSR returns 0xFF"                      *)
Probe ==
  /\ pc = "probe" /\ pc' = "idle"
  /\ \E lsr \in LSR : exists' = (lsr # 255)
  /\ UNCHANGED <<there, regs, ch, polls, sent>>

putchar(c) ==
  /\ pc = "idle" /\ pc' = "putchar"
  /\ ch' = c /\ polls' = 0
  /\ UNCHANGED <<there, regs, exists, sent>>

(* The loop of __boot_putchar_serial, and the statement behind it.          *)
Ready(lsr) == And(lsr, COM_SERIAL_LSR_TX_READY) # 0

Wait ==
  /\ pc = "putchar"
  /\ \E lsr \in LSR : ~Ready(lsr) /\ polls < MaxPolls
  /\ polls' = polls + 1
  /\ UNCHANGED <<there, regs, pc, exists, ch, sent>>

Send ==
  /\ pc = "putchar" /\ pc' = "idle"
  /\ \E lsr \in LSR : /\ Ready(lsr) \/ polls >= MaxPolls
                      /\ sent' = [avail |-> And(lsr, 32) # 0, polls |-> polls]
  /\ regs' = IF there THEN Stored(regs, COM_SERIAL_TX, ch) ELSE regs
  /\ UNCHANGED <<there, exists, ch, polls>>

Next == Outb \/ Probe \/ Wait \/ Send \/ \E c \in Bytes : putchar(c)

Spec == Init /\ [][Next]_vars
-----------------------------------------------------------------------------
(* Properties.                                                              *)

Initialised == pc \in {"idle", "putchar"}

(* The port is found if it is there, and has "8 data bits, 1 stop bit,      *)
(* parity off", "No modem controls", and no FIFO, whatever the firmware     *)
(* had left, and for good.                                                  *)
LineSet ==
  Initialised => /\ exists <=> there
                 /\ there => regs.lcr % 128 = 3 /\ regs.mcr = 0 /\ regs.fcr = 0

(* "Set speed": 115200 / 9600 is in the divisor.                            *)
SpeedSet == there /\ Initialised => regs.dll = 12 /\ regs.dlm = 0

(* "turn off DLAB latch": characters go to the transmitter.                 *)
LatchOff == there /\ Initialised => ~dlab

(* "Transmit buffer avail": a character that does not wait till the end of  *)
(* the loop is sent because there is room for it.                           *)
SentWhenAvail == there => sent.avail \/ sent.polls = MaxPolls
=============================================================================
