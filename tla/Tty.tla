-------------------------------- MODULE Tty --------------------------------
(***************************************************************************)
(* The terminal: code/arch/x86/boot/tty_boot.c until the kernel runs in    *)
(* high memory, code/arch/x86/tty.c from then on.  The two are copies of   *)
(* each other that share the screen and its cursor, and have a cursor_loc  *)
(* each; tty_init hands over.                                              *)
(*                                                                         *)
(* A character goes to the serial port, to the parallel port and to the    *)
(* text memory, in this order.  Once there is an IDT, an exception may come *)
(* between any two statements; its handler prints with the same variables  *)
(* and stops the machine.                                                  *)
(***************************************************************************)
EXTENDS Integers, Sequences

CONSTANTS
  CGA_TEXT_COLUMNS, CGA_TEXT_ROWS,
  Glyphs,     \* printable characters, the blank among them
  Blank,
  First, Last,   \* the glyphs a handler's message begins and ends with
  MaxPolls,   \* 12800: how often a port is asked whether it is ready
  Byte        \* 256: the registers of the CRT controller have 8 bits

CGA_TEXT_SIZE == CGA_TEXT_COLUMNS * CGA_TEXT_ROWS
Controls == {"LF", "CR", "BS", "HT"}
Chars == Glyphs \cup Controls

ASSUME TtyAssumption == /\ CGA_TEXT_COLUMNS \in Nat \ {0}
                        /\ CGA_TEXT_ROWS \in Nat \ {0}
                        /\ Blank \in Glyphs /\ Glyphs \cap Controls = {}
                        /\ {First, Last} \cap Chars = {}
                        /\ MaxPolls \in Nat
                        /\ Byte \in Nat \ {0} /\ CGA_TEXT_SIZE <= Byte * Byte

(* What a handler prints: kputs ends the line.                              *)
Report == <<First, Last, "LF">>

Modes  == {"DISPLAY_MODE_TEXT", "DISPLAY_MODE_BLACKWHITE"}
Stages == {"off", "boot", "kernel"}

VARIABLES
  stage,         \* which of the two terminals is in use
  display_mode,  \* it decides which text memory and which registers
  text_mem,
  cursor_loc,    \* cursor_loc of tty.c and boot_cursor_loc, by stage
  crtc,          \* the cursor registers of both kinds: high and low byte
  pc,            \* where __kputchar is
  ch,            \* the character in hand
  tabs,          \* the blanks that are still to come for a tab
  polls,         \* i of the waiting loop
  dead,          \* the ports that are never ready
  level,         \* who runs: the kernel, a handler, or that of an NMI
  rest,          \* what a handler has still to print
  behind,        \* history: it struck when the cursor was behind the screen
  asked,         \* history: the character kputchar was called with
  wire,          \* history: what this call has sent to the serial port
  paper          \* history: ... and strobed into the parallel port

tty  == <<stage, display_mode, dead>>
hist == <<asked, wire, paper>>
call == <<pc, ch, tabs, polls>>
who  == <<level, rest, behind>>
vars == <<tty, text_mem, cursor_loc, crtc, call, who, hist>>

Cells == 0 .. CGA_TEXT_SIZE - 1
cursor == cursor_loc[stage]

(* The two loops of roll_screen_mem after n assignments, and at their end.  *)
Rolled(mem, n) ==
  [i \in Cells |-> IF i >= n THEN mem[i]
                   ELSE IF i + CGA_TEXT_COLUMNS \in Cells
                   THEN mem[i + CGA_TEXT_COLUMNS] ELSE Blank]
roll_screen_mem(mem) == Rolled(mem, CGA_TEXT_SIZE)

(* The slip: the low byte only.                                             *)
set_cursor_low(regs, loc) == [regs EXCEPT ![display_mode][2] = loc % Byte]

set_cursor_loc(regs, loc) ==
  [regs EXCEPT ![display_mode] = <<(loc \div Byte) % Byte, loc % Byte>>]

Init ==
  /\ stage = "off"
  /\ display_mode \in Modes
  /\ text_mem \in [Cells -> Glyphs]
  /\ cursor_loc = [s \in Stages |-> 0]
  /\ crtc = [m \in Modes |-> <<1, 1>>]
  /\ pc = "idle" /\ ch = Blank /\ tabs = 0 /\ polls = 0
  /\ level = "kernel" /\ rest = <<>> /\ behind = FALSE
  /\ dead \in SUBSET {"serial", "lpt"}
  /\ asked = Blank /\ wire = <<>> /\ paper = <<>>

boot_clear_screen == [i \in Cells |-> Blank]

(* The terminal of the boot stage: which text memory there is, and clear.   *)
boot_tty_init ==
  /\ stage = "off" /\ stage' = "boot"
  /\ text_mem' = boot_clear_screen
  /\ cursor_loc' = [cursor_loc EXCEPT !["boot"] = 0]
  /\ crtc' = set_cursor_loc(crtc, 0)
  /\ UNCHANGED <<display_mode, dead, call, who, hist>>

(* "Reuse the info at booting stage."                                       *)
tty_init ==
  /\ stage = "boot" /\ pc = "idle"
  /\ stage' = "kernel"
  /\ cursor_loc' = [cursor_loc EXCEPT !["kernel"] = cursor_loc["boot"]]
  /\ UNCHANGED <<display_mode, dead, text_mem, crtc, call, who, hist>>

kputchar(c) ==
  /\ stage # "off" /\ pc = "idle"
  /\ pc' = "serial" /\ ch' = c /\ polls' = 0
  /\ asked' = c /\ wire' = <<>> /\ paper' = <<>>
  /\ UNCHANGED <<tty, text_mem, cursor_loc, crtc, tabs, level, behind>>

(* The kernel prints what it likes, a handler its report.                   *)
KernelPrints == level = "kernel" /\ (\E c \in Chars : kputchar(c)) /\ UNCHANGED rest
HandlerPrints == rest # <<>> /\ kputchar(Head(rest)) /\ rest' = Tail(rest)

(* The slip: i is not counted.                                              *)
PollOn(port) == pc = port /\ polls < MaxPolls /\ UNCHANGED vars

(* The port is not ready: ask again after a delay.                          *)
Poll(port) ==
  /\ pc = port
  /\ polls < MaxPolls
  /\ polls' = polls + 1
  /\ UNCHANGED <<tty, text_mem, cursor_loc, crtc, pc, ch, tabs, who, hist>>

(* It is ready, or there is no use in waiting: either way the character is  *)
(* sent.                                                                    *)
Ready(port) == pc = port /\ (port \notin dead \/ polls = MaxPolls)

SerialSend ==
  /\ Ready("serial") /\ pc' = "lpt" /\ polls' = 0
  /\ wire' = Append(wire, ch)
  /\ UNCHANGED <<tty, text_mem, cursor_loc, crtc, ch, tabs, who, asked, paper>>

(* The slip: only if the port is ready.                                     *)
LptTry ==
  /\ Ready("lpt") /\ pc' = "cga" /\ polls' = 0
  /\ paper' = IF polls = MaxPolls THEN paper ELSE Append(paper, ch)
  /\ UNCHANGED <<tty, text_mem, cursor_loc, crtc, ch, tabs, who, asked, wire>>

LptSend ==
  /\ Ready("lpt") /\ pc' = "cga" /\ polls' = 0
  /\ paper' = Append(paper, ch)
  /\ UNCHANGED <<tty, text_mem, cursor_loc, crtc, ch, tabs, who, asked, wire>>

(* The statements of __kputchar_cga.                                        *)
Cga(from, to, loc) ==
  /\ pc = from /\ pc' = to
  /\ cursor_loc' = [cursor_loc EXCEPT ![stage] = loc]
  /\ UNCHANGED <<tty, crtc, ch, tabs, polls, who, hist>>

column == cursor % CGA_TEXT_COLUMNS

(* The slip: it does not fall through.                                      *)
NewLineOnly ==
  ch = "LF" /\ Cga("cga", "roll", cursor + CGA_TEXT_COLUMNS) /\ UNCHANGED text_mem

NewLine ==
  ch = "LF" /\ Cga("cga", "return", cursor + CGA_TEXT_COLUMNS) /\ UNCHANGED text_mem

(* "fall through there, so that \n == \r + \n"                             *)
Return ==
  /\ \/ Cga("return", "roll", cursor - column)
     \/ ch = "CR" /\ Cga("cga", "roll", cursor - column)
  /\ UNCHANGED text_mem

Back ==
  /\ ch = "BS" /\ Cga("cga", "roll", IF column # 0 THEN cursor - 1 ELSE cursor)
  /\ UNCHANGED text_mem

(* Four calls of kputchar(' '); the last one returns to TabEnd.             *)
Tab ==
  /\ pc = "cga" /\ ch = "HT" /\ Len(wire) = 1
  /\ pc' = "serial" /\ ch' = Blank /\ tabs' = 4 /\ polls' = 0
  /\ UNCHANGED <<tty, text_mem, cursor_loc, crtc, who, hist>>

TabEnd ==
  ch = "HT" /\ Len(wire) > 1 /\ Cga("cga", "roll", cursor) /\ UNCHANGED text_mem

(* Text memory goes on behind the screen.                                   *)
set_char(mem, c, loc) == IF loc \in Cells THEN [mem EXCEPT ![loc] = c] ELSE mem

Glyph ==
  /\ ch \notin Controls /\ Cga("cga", "advance", cursor)
  /\ text_mem' = set_char(text_mem, ch, cursor)

Advance == Cga("advance", "roll", cursor + 1) /\ UNCHANGED text_mem

(* "check for rolling screen".  The slip: the cursor comes to the end of    *)
(* the screen and no further.                                               *)
RollsAtEnd(loc) == loc = CGA_TEXT_SIZE
Rolls(loc) == loc >= CGA_TEXT_SIZE

Roll ==
  /\ Cga("roll", IF Rolls(cursor) THEN "last_line" ELSE "show", cursor)
  /\ text_mem' = IF Rolls(cursor) THEN roll_screen_mem(text_mem) ELSE text_mem

LastLine ==
  /\ Cga("last_line", "show", CGA_TEXT_SIZE - CGA_TEXT_COLUMNS)
  /\ UNCHANGED text_mem

(* "write new cursor location back"; then back to the caller, which for a   *)
(* blank of a tab is __kputchar_cga itself.                                 *)
Show ==
  /\ pc = "show"
  /\ crtc' = set_cursor_loc(crtc, cursor)
  /\ IF tabs > 1
     THEN pc' = "serial" /\ tabs' = tabs - 1 /\ UNCHANGED ch
     ELSE IF tabs = 1 THEN pc' = "cga" /\ tabs' = 0 /\ ch' = "HT"
     ELSE pc' = "idle" /\ UNCHANGED <<tabs, ch>>
  /\ UNCHANGED <<tty, text_mem, cursor_loc, polls, who, hist>>

(* An exception: what was going on is left where it is, in the middle of    *)
(* roll_screen_mem or between the halves of the cursor register, perhaps.   *)
Strike(by) ==
  /\ stage = "kernel"
  /\ \/ level = "kernel"
     \/ level = "handler" /\ by = "nmi"
  /\ level' = by /\ rest' = Report /\ behind' = Rolls(cursor)
  /\ pc' = "idle" /\ ch' = Blank /\ tabs' = 0 /\ polls' = 0
  /\ asked' = Blank /\ wire' = <<>> /\ paper' = <<>>
  /\ IF pc = "roll" /\ Rolls(cursor)
     THEN \E n \in 0 .. CGA_TEXT_SIZE : text_mem' = Rolled(text_mem, n)
     ELSE UNCHANGED text_mem
  /\ \/ UNCHANGED crtc
     \/ /\ pc = "show"
        /\ crtc' = [crtc EXCEPT ![display_mode][1] = (cursor \div Byte) % Byte]
  /\ UNCHANGED <<tty, cursor_loc>>

Work == \/ SerialSend \/ LptSend
        \/ Poll("serial") \/ Poll("lpt")
        \/ NewLine \/ Return \/ Back \/ Tab \/ TabEnd \/ Glyph
        \/ Advance \/ Roll \/ LastLine \/ Show
        \/ HandlerPrints

Halted == level # "kernel" /\ rest = <<>> /\ pc = "idle"

Next == \/ boot_tty_init \/ tty_init \/ Work \/ KernelPrints
        \/ \E by \in {"handler", "nmi"} : Strike(by)
        \/ Halted /\ UNCHANGED vars

(* Code that runs goes on.                                                  *)
Spec == Init /\ [][Next]_vars /\ WF_vars(Work)
-----------------------------------------------------------------------------
(* Properties.                                                              *)

(* The cursor that blinks is where the next character will go, across the   *)
(* two bytes of the register and across the change of terminals, and also   *)
(* when a handler has stopped the machine.                                  *)
CursorShown ==
  stage # "off" /\ pc = "idle" /\ (level = "kernel" \/ Halted) =>
    crtc[display_mode][1] * Byte + crtc[display_mode][2] = cursor

(* Both ports get the character of each call once, also when they are never *)
(* ready; with a tab, the tab and its four blanks.                          *)
PortsAgree ==
  pc = "idle" /\ stage # "off" =>
    /\ paper = wire
    /\ wire \in {<<>>, <<asked>>, <<"HT", Blank, Blank, Blank, Blank>>}
    /\ Len(wire) > 1 <=> asked = "HT"

(* kputchar comes back whatever the ports say, and a handler comes to its   *)
(* end.                                                                     *)
CallReturns == /\ pc # "idle" ~> pc = "idle"
               /\ level # "kernel" ~> Halted

(* When a handler has stopped the machine, its message is on the screen     *)
(* above the cursor, its last glyph right behind its first one, wherever in *)
(* printing it struck: between the statements of a character, in the middle *)
(* of rolling, after another handler.  Only if it struck before the cursor  *)
(* had been brought back from behind the screen is the first glyph lost,    *)
(* and the rest begins a line.                                              *)
ReportShown ==
  Halted =>
    /\ column = 0
    /\ \E i \in Cells :
         /\ i < cursor /\ i >= cursor - 2 * CGA_TEXT_COLUMNS
         /\ text_mem[i] = Last
         /\ IF behind THEN i % CGA_TEXT_COLUMNS = 0
                      ELSE i >= 1 /\ text_mem[i - 1] = First

(* The text memory and the cursor when the call in hand has finished.       *)
Settled ==
  LET at == CASE pc = "advance" -> cursor + 1
              [] pc = "return"  -> cursor - column
              [] OTHER          -> cursor
  IN  IF pc \in {"advance", "return", "roll"} /\ Rolls(at)
      THEN [mem |-> roll_screen_mem(text_mem), loc |-> CGA_TEXT_SIZE - CGA_TEXT_COLUMNS]
      ELSE [mem |-> text_mem,
            loc |-> IF pc = "last_line" THEN CGA_TEXT_SIZE - CGA_TEXT_COLUMNS ELSE at]

(* What it has still to show: with a tab, the blanks that are to come.      *)
Spaces(n) == [i \in 1 .. n |-> Blank]
TabShown  == pc = "cga" /\ ch = "HT" /\ Len(wire) > 1
Owed ==
  IF pc \notin {"serial", "lpt", "cga"} \/ TabShown
  THEN Spaces(IF tabs = 0 THEN 0 ELSE tabs - 1)
  ELSE IF ch = "HT" THEN Spaces(4)
  ELSE IF tabs = 0 THEN <<ch>> ELSE Spaces(tabs)

(* As long as nothing strikes, the text memory is a screen as it should be: *)
(* each character kputchar is called with is shown once and at its place,   *)
(* lines wrap, the screen rolls, and the kernel's terminal goes on where    *)
(* the other stopped.                                                       *)
S == INSTANCE Screen
       WITH Rows <- CGA_TEXT_ROWS, Columns <- CGA_TEXT_COLUMNS,
            lines <- [r \in 1 .. CGA_TEXT_ROWS |->
                        [c \in 1 .. CGA_TEXT_COLUMNS |->
                           IF stage = "off" THEN Blank
                           ELSE Settled.mem[(r - 1) * CGA_TEXT_COLUMNS + c - 1]]],
            row <- (Settled.loc \div CGA_TEXT_COLUMNS) + 1,
            col <- (Settled.loc % CGA_TEXT_COLUMNS) + 1,
            owed <- Owed
ImplementsScreen == S!Init /\ [][level' = "kernel" => S!Next \/ UNCHANGED S!vars]_vars
=============================================================================
