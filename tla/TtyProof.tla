------------------------------ MODULE TtyProof ------------------------------
(***************************************************************************)
(* Proofs about Tty, for any size of the screen, any number of polls and   *)
(* any set of glyphs: the cursor that is shown, what the ports get, the    *)
(* message of a handler, and that the text memory is module Screen.        *)
(*                                                                         *)
(* Each property has the invariant it needs: what holds while a call of    *)
(* kputchar is under way, statement by statement.                          *)
(*                                                                         *)
(* Its last part is about Kprintf, which decides what the terminal is      *)
(* given.                                                                  *)
(***************************************************************************)
EXTENDS Tty, Kprintf, FiniteSetTheorems, SequenceTheorems, WellFoundedInduction, TLAPS

Letters == Chars \cup {First, Last}
Pcs == {"idle", "serial", "lpt", "cga", "return", "advance", "roll", "last_line", "show"}
Rests == {<<>>, <<"LF">>, <<Last, "LF">>, Report}

TypeOK ==
  /\ stage \in Stages /\ display_mode \in Modes
  /\ text_mem \in [Cells -> Glyphs \cup {First, Last}]
  /\ cursor_loc \in [Stages -> Nat]
  /\ crtc \in [Modes -> Nat \X Nat]
  /\ pc \in Pcs /\ ch \in Letters /\ tabs \in 0 .. 4 /\ polls \in Nat
  /\ level \in {"kernel", "handler", "nmi"} /\ rest \in Rests
  /\ behind \in BOOLEAN
  /\ asked \in Letters
  /\ (stage = "off" => pc = "idle" /\ cursor_loc["off"] = 0)
  /\ (level # "kernel" => stage = "kernel")
  /\ (level = "kernel" => ch \in Chars /\ rest = <<>>)

(* The cursor registers are behind the cursor only while a call is under    *)
(* way, or when a handler has yet to begin its message.                     *)
Shown == crtc[display_mode][1] * Byte + crtc[display_mode][2] = cursor
ShownInv ==
  /\ pc = "idle" /\ stage # "off" /\ (level = "kernel" \/ rest # Report) => Shown
  /\ pc = "show" => cursor < CGA_TEXT_SIZE

(* What a tab sends: itself, then blanks.                                   *)
Tabbed(n) == [i \in 1 .. n |-> IF i = 1 THEN "HT" ELSE Blank]

(* What the ports have got, for a call that is where it is.                 *)
Fresh == /\ pc = "idle" /\ tabs = 0 /\ ch = Blank /\ asked = Blank
         /\ wire = <<>> /\ paper = <<>>
Single == /\ tabs = 0 /\ asked = ch /\ (ch = "HT" => pc \in {"serial", "lpt", "cga"})
          /\ wire  = IF pc = "serial" THEN <<>> ELSE <<ch>>
          /\ paper = IF pc \in {"serial", "lpt"} THEN <<>> ELSE <<ch>>
Blanks == /\ tabs \in 1 .. 4 /\ asked = "HT" /\ ch = Blank /\ pc # "idle"
          /\ wire  = Tabbed(IF pc = "serial" THEN 5 - tabs ELSE 6 - tabs)
          /\ paper = Tabbed(IF pc \in {"serial", "lpt"} THEN 5 - tabs ELSE 6 - tabs)
TabDone == /\ tabs = 0 /\ asked = "HT" /\ ch = "HT"
           /\ pc \in {"cga", "roll", "last_line", "show", "idle"}
           /\ wire = Tabbed(5) /\ paper = Tabbed(5)
PortsInv == Fresh \/ Single \/ Blanks \/ TabDone

(* While nothing has struck, the cursor is on the screen, or one line below *)
(* it until the end of the call.                                            *)
OnScreen ==
  level = "kernel" =>
    /\ pc \in {"idle", "serial", "lpt", "cga", "advance", "show"} => cursor < CGA_TEXT_SIZE
    /\ pc = "return" => cursor < CGA_TEXT_SIZE + CGA_TEXT_COLUMNS
    /\ pc = "roll" => cursor <= CGA_TEXT_SIZE

(* How far the message of a handler has come.  The glyph in front of a      *)
(* place is the first one of the message; if that is lost, the place begins *)
(* a line.                                                                  *)
Begun(lost, mem, p) == IF lost THEN p % CGA_TEXT_COLUMNS = 0
                               ELSE p >= 1 /\ mem[p - 1] = First
Told(lost, mem, p)  == p \in Cells /\ mem[p] = Last /\ Begun(lost, mem, p)
Asking   == {"idle", "serial", "lpt", "cga"}

FirstInHand ==
  /\ rest = <<Last, "LF">> /\ ch = First
  /\ pc \in Asking \cup {"advance", "roll", "last_line", "show"}
  /\ pc \in {"serial", "lpt", "cga", "advance"} => (behind <=> Rolls(cursor))
  /\ pc = "advance" /\ ~behind => text_mem[cursor] = First
  /\ pc = "roll" => /\ cursor >= 1 /\ (behind <=> cursor > CGA_TEXT_SIZE)
                    /\ ~behind => text_mem[cursor - 1] = First
  /\ pc = "last_line" /\ ~behind =>
       text_mem[CGA_TEXT_SIZE - CGA_TEXT_COLUMNS - 1] = First
  /\ pc \in {"show", "idle"} => cursor < CGA_TEXT_SIZE /\ Begun(behind, text_mem, cursor)
LastInHand ==
  /\ rest = <<"LF">> /\ ch = Last
  /\ pc \in Asking \cup {"advance", "roll", "last_line", "show"}
  /\ pc \in {"serial", "lpt", "cga"} => cursor < CGA_TEXT_SIZE /\ Begun(behind, text_mem, cursor)
  /\ pc = "advance" => Told(behind, text_mem, cursor)
  /\ pc = "roll" => cursor >= 1 /\ Told(behind, text_mem, cursor - 1)
  /\ pc = "last_line" => Told(behind, text_mem, CGA_TEXT_SIZE - CGA_TEXT_COLUMNS - 1)
  /\ pc \in {"show", "idle"} => cursor < CGA_TEXT_SIZE /\ cursor >= 1 /\ Told(behind, text_mem, cursor - 1)
EndInHand ==
  /\ rest = <<>> /\ ch = "LF"
  /\ pc \in Asking \cup {"return", "roll", "last_line", "show"}
  /\ pc \in {"serial", "lpt", "cga"} => cursor < CGA_TEXT_SIZE /\ cursor >= 1 /\ Told(behind, text_mem, cursor - 1)
  /\ pc = "return" => /\ cursor < CGA_TEXT_SIZE + CGA_TEXT_COLUMNS
                      /\ cursor > CGA_TEXT_COLUMNS
                      /\ Told(behind, text_mem, cursor - CGA_TEXT_COLUMNS - 1)
  /\ pc = "roll" => /\ cursor <= CGA_TEXT_SIZE /\ column = 0
                    /\ \E p \in Cells : /\ Told(behind, text_mem, p) /\ p < cursor
                                        /\ p >= cursor - CGA_TEXT_COLUMNS - 1
  /\ pc = "last_line" =>
       \E p \in Cells : /\ Told(behind, text_mem, p) /\ p < CGA_TEXT_SIZE - CGA_TEXT_COLUMNS
                        /\ p >= CGA_TEXT_SIZE - 2 * CGA_TEXT_COLUMNS - 1
  /\ pc \in {"show", "idle"} =>
       /\ column = 0 /\ cursor < CGA_TEXT_SIZE
       /\ \E p \in Cells : /\ Told(behind, text_mem, p) /\ p < cursor /\ p >= cursor - CGA_TEXT_COLUMNS - 1
NotBegun == rest = Report /\ pc = "idle" /\ (behind <=> Rolls(cursor))
ReportInv == level # "kernel" =>
  tabs = 0 /\ (NotBegun \/ FirstInHand \/ LastInHand \/ EndInHand)

-----------------------------------------------------------------------------
(* Numbers.                                                                 *)

LEMMA DivMod ==
  ASSUME NEW m \in Nat \ {0}, NEW x \in Nat
  PROVE  /\ x \div m \in Nat /\ x % m \in 0 .. m - 1
         /\ x = (x \div m) * m + (x % m)
  BY SMT

LEMMA Below ==
  ASSUME NEW m \in Nat \ {0}, NEW a \in Nat, NEW k \in Nat, NEW b \in 0 .. m - 1
  PROVE  a * m + b < k * m <=> a < k
<1>1. CASE a < k
  <2>1. (a + 1) * m <= k * m
    BY <1>1, SMT
  <2> QED
    BY <1>1, <2>1, SMT
<1>2. CASE ~(a < k)
  <2>1. k * m <= a * m
    BY <1>2, SMT
  <2> QED
    BY <1>2, <2>1, SMT
<1> QED
  BY <1>1, <1>2

LEMMA ScreenSizes ==
  /\ CGA_TEXT_COLUMNS \in Nat \ {0} /\ CGA_TEXT_ROWS \in Nat \ {0}
  /\ CGA_TEXT_SIZE \in Nat /\ CGA_TEXT_SIZE >= CGA_TEXT_COLUMNS
  /\ CGA_TEXT_SIZE - CGA_TEXT_COLUMNS \in Nat
<1>1. CGA_TEXT_COLUMNS \in Nat \ {0} /\ CGA_TEXT_ROWS \in Nat \ {0}
  BY TtyAssumption
<1>2. CGA_TEXT_COLUMNS * CGA_TEXT_ROWS >= CGA_TEXT_COLUMNS
      /\ CGA_TEXT_COLUMNS * CGA_TEXT_ROWS \in Nat
  BY <1>1, SMT
<1> QED
  BY <1>1, <1>2 DEF CGA_TEXT_SIZE

LEMMA Columns ==
  ASSUME TypeOK
  PROVE  /\ cursor \in Nat /\ column \in 0 .. CGA_TEXT_COLUMNS - 1
         /\ cursor - column \in Nat
         /\ column # 0 => cursor - 1 \in Nat
<1>1. cursor \in Nat
  BY DEF TypeOK, cursor
<1> DEFINE q == cursor \div CGA_TEXT_COLUMNS
<1>2. /\ q \in Nat /\ column \in 0 .. CGA_TEXT_COLUMNS - 1
      /\ cursor = q * CGA_TEXT_COLUMNS + column
  BY <1>1, ScreenSizes, DivMod DEF column
<1> HIDE DEF q
<1>3. q * CGA_TEXT_COLUMNS \in Nat
  BY <1>2, ScreenSizes, SMT
<1> QED
  BY <1>1, <1>2, <1>3

-----------------------------------------------------------------------------
(* Types.                                                                   *)

LEMMA RestFacts ==
  /\ Head(Report) = First /\ Tail(Report) = <<Last, "LF">>
  /\ Head(<<Last, "LF">>) = Last /\ Tail(<<Last, "LF">>) = <<"LF">>
  /\ Head(<<"LF">>) = "LF" /\ Tail(<<"LF">>) = <<>>
  /\ Report # <<>> /\ Report # <<Last, "LF">> /\ Report # <<"LF">>
  /\ <<"LF">> # <<>> /\ <<"LF">> # <<Last, "LF">> /\ <<>> # <<Last, "LF">>
  BY DEF Report

LEMMA RollTypes ==
  ASSUME NEW mem \in [Cells -> Glyphs \cup {First, Last}], NEW n
  PROVE  Rolled(mem, n) \in [Cells -> Glyphs \cup {First, Last}]
  BY TtyAssumption DEF Rolled

LEMMA InitTypes == Init => TypeOK
<1>1. Init => behind \in BOOLEAN
  BY DEF Init
<1> QED
  BY <1>1, TtyAssumption DEF Init, TypeOK, Stages, Modes, Pcs, Letters, Rests, Chars

LEMMA ShownTypes ==
  ASSUME TypeOK, NEW loc \in Nat
  PROVE  /\ set_cursor_loc(crtc, loc) \in [Modes -> Nat \X Nat]
         /\ (loc \div Byte) % Byte \in Nat
         /\ set_cursor_loc(crtc, loc)[display_mode] = <<(loc \div Byte) % Byte, loc % Byte>>
         /\ loc < CGA_TEXT_SIZE => loc = ((loc \div Byte) % Byte) * Byte + (loc % Byte)
<1>1. Byte \in Nat \ {0}
  BY TtyAssumption
<1> DEFINE q == loc \div Byte
           hi == q % Byte
           lo == loc % Byte
<1>2. q \in Nat /\ lo \in 0 .. Byte - 1 /\ loc = q * Byte + lo
  BY <1>1, DivMod
<1> HIDE DEF q, lo
<1>3. hi \in Nat
  BY <1>1, <1>2, DivMod
<1>4. ASSUME loc < CGA_TEXT_SIZE PROVE hi = q
  <2>1. q * Byte + lo < Byte * Byte
    BY <1>1, <1>2, <1>4, ScreenSizes, TtyAssumption, SMT
  <2>2. q < Byte
    BY <1>1, <1>2, <2>1, Below
  <2> QED
    BY <1>1, <1>2, <2>2, SMT
<1> HIDE DEF hi
<1>5. /\ [crtc EXCEPT ![display_mode] = <<hi, lo>>] \in [Modes -> Nat \X Nat]
      /\ [crtc EXCEPT ![display_mode] = <<hi, lo>>][display_mode] = <<hi, lo>>
  BY <1>1, <1>2, <1>3 DEF TypeOK
<1> QED
  BY <1>2, <1>3, <1>4, <1>5 DEF set_cursor_loc, hi, lo, q

(* The statements of __kputchar_cga.                                        *)
LEMMA CgaTypes ==
  ASSUME TypeOK, NEW from, NEW to, NEW loc, Cga(from, to, loc),
         from # "idle", to \in Pcs, loc \in Nat,
         text_mem' \in [Cells -> Glyphs \cup {First, Last}]
  PROVE  TypeOK'
  BY DEF TypeOK, Cga, tty, who, hist, Pcs, Stages

LEMMA StepTypes == TypeOK /\ [Next]_vars => TypeOK'
<1> SUFFICES ASSUME TypeOK, [Next]_vars PROVE TypeOK'
  OBVIOUS
<1>0. /\ Blank \in Glyphs /\ Glyphs \subseteq Chars /\ Chars \subseteq Letters
      /\ Controls \subseteq Chars /\ First \in Letters /\ Last \in Letters
      /\ \A x \in Letters : x \notin Controls => x \in Glyphs \cup {First, Last}
      /\ "LF" \in Controls /\ "HT" \in Controls
  BY TtyAssumption DEF Letters, Chars, Controls
<1> USE DEF tty, hist, call, who
<1>1. CASE boot_tty_init
  <2>1. text_mem' \in [Cells -> Glyphs \cup {First, Last}]
    BY <1>0, <1>1 DEF boot_tty_init, boot_clear_screen
  <2>2. crtc' \in [Modes -> Nat \X Nat]
    BY <1>1, ShownTypes DEF boot_tty_init
  <2> QED
    BY <1>1, <2>1, <2>2 DEF boot_tty_init, TypeOK, Stages
<1>2. CASE tty_init
  BY <1>2 DEF tty_init, TypeOK, Stages
<1>3. ASSUME NEW c \in Letters, kputchar(c), rest' \in Rests,
             level = "kernel" => c \in Chars /\ rest' = <<>>
      PROVE  TypeOK'
  BY <1>3 DEF kputchar, TypeOK, Pcs
<1>4. CASE SerialSend \/ LptSend \/ Poll("serial") \/ Poll("lpt")
  BY <1>4 DEF SerialSend, LptSend, Poll, Ready, TypeOK, Pcs
<1>5. CASE NewLine \/ Return \/ Back \/ TabEnd \/ Advance \/ LastLine
  <2>1. text_mem' \in [Cells -> Glyphs \cup {First, Last}]
    BY <1>5 DEF NewLine, Return, Back, TabEnd, Advance, LastLine, TypeOK
  <2>2. cursor + CGA_TEXT_COLUMNS \in Nat /\ cursor + 1 \in Nat
    BY Columns, ScreenSizes
  <2>3. CASE NewLine
    BY <2>1, <2>2, <2>3, CgaTypes DEF NewLine, Pcs
  <2>4. CASE Return
    BY <2>1, <2>4, Columns, CgaTypes DEF Return, Pcs
  <2>5. CASE Back
    BY <2>1, <2>5, Columns, CgaTypes DEF Back, Pcs
  <2>6. CASE TabEnd
    BY <2>1, <2>6, Columns, CgaTypes DEF TabEnd, Pcs
  <2>7. CASE Advance
    BY <2>1, <2>2, <2>7, CgaTypes DEF Advance, Pcs
  <2>8. CASE LastLine
    BY <2>1, <2>8, ScreenSizes, CgaTypes DEF LastLine, Pcs
  <2> QED
    BY <1>5, <2>3, <2>4, <2>5, <2>6, <2>7, <2>8
<1>6. CASE Tab
  BY <1>0, <1>6 DEF Tab, TypeOK, Pcs
<1>7. CASE Glyph
  <2>1. text_mem' \in [Cells -> Glyphs \cup {First, Last}]
    BY <1>0, <1>7 DEF Glyph, set_char, TypeOK
  <2> QED
    BY <1>7, <2>1, Columns, CgaTypes DEF Glyph, Pcs
<1>8. CASE Roll
  <2>1. roll_screen_mem(text_mem) \in [Cells -> Glyphs \cup {First, Last}]
    BY <1>0, RollTypes, ScreenSizes DEF roll_screen_mem, TypeOK
  <2>2. text_mem' \in [Cells -> Glyphs \cup {First, Last}]
    BY <1>8, <2>1 DEF Roll, TypeOK
  <2> QED
    BY <1>8, <2>2, Columns, CgaTypes DEF Roll, Pcs
<1>9. CASE Show
  <2>1. crtc' \in [Modes -> Nat \X Nat]
    BY <1>9, Columns, ShownTypes DEF Show
  <2>2. ch' \in Letters /\ (level = "kernel" => ch' \in Chars) /\ tabs' \in 0 .. 4 /\ pc' \in Pcs
    BY <1>0, <1>9 DEF Show, TypeOK, Pcs
  <2> QED
    BY <1>9, <2>1, <2>2 DEF Show, TypeOK, Pcs
<1>10. CASE HandlerPrints
  <2>1. Head(rest) \in Letters /\ Tail(rest) \in Rests
    BY <1>0, <1>10, RestFacts DEF HandlerPrints, TypeOK, Rests
  <2>2. level # "kernel"
    BY <1>10 DEF HandlerPrints, TypeOK
  <2> QED
    BY <1>3, <1>10, <2>1, <2>2 DEF HandlerPrints
<1>11. CASE KernelPrints
  BY <1>0, <1>3, <1>11 DEF KernelPrints, TypeOK
<1>12. ASSUME NEW by \in {"handler", "nmi"}, Strike(by) PROVE TypeOK'
  <2>1. text_mem' \in [Cells -> Glyphs \cup {First, Last}]
    BY <1>0, <1>12, RollTypes DEF Strike, TypeOK
  <2>2. crtc' \in [Modes -> Nat \X Nat]
    <3> DEFINE v == (cursor \div Byte) % Byte
    <3>1. v \in Nat
      BY Columns, ShownTypes
    <3> HIDE DEF v
    <3>2. \A x \in Nat \X Nat : [x EXCEPT ![1] = v] \in Nat \X Nat
      BY <3>1
    <3>3. [crtc EXCEPT ![display_mode][1] = v] \in [Modes -> Nat \X Nat]
      BY <3>2 DEF TypeOK
    <3> QED
      BY <1>12, <3>3 DEF Strike, TypeOK, v
  <2>3. behind' \in BOOLEAN
    BY <1>12 DEF Strike, Rolls
  <2> QED
    BY <1>0, <1>12, <2>1, <2>2, <2>3 DEF Strike, TypeOK, Pcs, Rests
<1>13. CASE UNCHANGED vars
  BY <1>13 DEF vars, TypeOK
<1> QED
  BY <1>1, <1>2, <1>4, <1>5, <1>6, <1>7, <1>8, <1>9, <1>10, <1>11, <1>12, <1>13
     DEF Next, Work

-----------------------------------------------------------------------------
(* The cursor that is shown.                                                *)

(* The statements that leave the call under way.                            *)
Midway == \/ SerialSend \/ LptSend \/ Poll("serial") \/ Poll("lpt")
          \/ NewLine \/ Return \/ Back \/ Tab \/ TabEnd \/ Glyph
          \/ Advance \/ Roll \/ LastLine

LEMMA MidwayBusy == Midway => pc # "idle" /\ pc' # "idle"
  BY DEF Midway, SerialSend, LptSend, Poll, Ready, NewLine, Return, Back, Tab, TabEnd,
         Glyph, Advance, Roll, LastLine, Cga, call

LEMMA CursorMoves ==
  ASSUME TypeOK
  PROVE  /\ \A from, to, loc : Cga(from, to, loc) =>
              cursor' = loc /\ pc' = to /\ pc = from /\ level' = level /\ stage' = stage
         /\ stage' = stage /\ cursor_loc' = cursor_loc => cursor' = cursor
         /\ tty_init => cursor' = cursor
         /\ boot_tty_init => cursor' = 0
  BY DEF TypeOK, Cga, cursor, tty, who, tty_init, boot_tty_init, Stages

LEMMA StepShown == TypeOK /\ ShownInv /\ [Next]_vars => ShownInv'
<1> SUFFICES ASSUME TypeOK, ShownInv, [Next]_vars PROVE ShownInv'
  OBVIOUS
<1> USE DEF tty, hist, call, who
<1>1. CASE boot_tty_init
  <2>1. /\ crtc'[display_mode] = <<(0 \div Byte) % Byte, 0 % Byte>>
        /\ 0 = ((0 \div Byte) % Byte) * Byte + (0 % Byte)
    BY <1>1, ShownTypes, ScreenSizes DEF boot_tty_init
  <2>2. cursor' = 0 /\ display_mode' = display_mode
    BY <1>1 DEF boot_tty_init, cursor, TypeOK, Stages
  <2> QED
    BY <1>1, <2>1, <2>2, ScreenSizes DEF boot_tty_init, TypeOK, ShownInv, Shown
<1>2. CASE tty_init
  <2>1. cursor' = cursor
    BY <1>2 DEF tty_init, cursor, TypeOK, Stages
  <2> QED
    BY <1>2, <2>1 DEF tty_init, ShownInv, Shown
<1>3. CASE Midway
  <2>1. pc' # "idle"
    BY <1>3, MidwayBusy
  <2>2. ASSUME pc' = "show" PROVE cursor' < CGA_TEXT_SIZE
    <3>1. Roll \/ LastLine
      BY <1>3, <2>2 DEF Midway, SerialSend, LptSend, Poll, NewLine, Return, Back, Tab, TabEnd,
                        Glyph, Advance, Cga, Ready
    <3>2. CASE Roll
      BY <2>2, <3>2, CursorMoves, Columns, ScreenSizes DEF Roll, Rolls
    <3>3. CASE LastLine
      BY <3>3, CursorMoves, ScreenSizes DEF LastLine
    <3> QED
      BY <3>1, <3>2, <3>3
  <2> QED
    BY <2>1, <2>2 DEF ShownInv
<1>4. CASE HandlerPrints \/ KernelPrints
  BY <1>4 DEF HandlerPrints, KernelPrints, kputchar, ShownInv
<1>5. CASE Show
  <2> DEFINE hi == (cursor \div Byte) % Byte
             lo == cursor % Byte
  <2>1. crtc'[display_mode] = <<hi, lo>> /\ cursor = hi * Byte + lo
    BY <1>5, Columns, ShownTypes DEF Show, ShownInv
  <2> HIDE DEF hi, lo
  <2>2. crtc'[display_mode][1] = hi /\ crtc'[display_mode][2] = lo
    BY <2>1
  <2>3. cursor' = cursor /\ display_mode' = display_mode
    BY <1>5 DEF Show, cursor
  <2> QED
    BY <1>5, <2>1, <2>2, <2>3 DEF Show, ShownInv, Shown
<1>6. ASSUME NEW by \in {"handler", "nmi"}, Strike(by) PROVE ShownInv'
  BY <1>6 DEF Strike, ShownInv
<1>7. CASE UNCHANGED vars
  BY <1>7 DEF vars, ShownInv, Shown, cursor
<1> QED
  BY <1>1, <1>2, <1>3, <1>4, <1>5, <1>6, <1>7 DEF Next, Work, Midway

-----------------------------------------------------------------------------
(* What the ports get.                                                      *)

LEMMA TabbedFacts ==
  /\ \A n \in Nat : Len(Tabbed(n)) = n
  /\ \A n \in Nat \ {0} : Append(Tabbed(n), Blank) = Tabbed(n + 1)
  /\ Tabbed(1) = <<"HT">>
  /\ Tabbed(5) = <<"HT", Blank, Blank, Blank, Blank>>
<1>1. \A n \in Nat : Len(Tabbed(n)) = n /\ Tabbed(n) \in Seq({"HT", Blank})
  BY DEF Tabbed
<1>2. ASSUME NEW n \in Nat \ {0} PROVE Append(Tabbed(n), Blank) = Tabbed(n + 1)
  BY DEF Tabbed
<1>3. Tabbed(1) = <<"HT">>
  BY DEF Tabbed
<1>4. Tabbed(5) = <<"HT", Blank, Blank, Blank, Blank>>
  BY DEF Tabbed
<1> QED
  BY <1>1, <1>2, <1>3, <1>4

LEMMA InitPorts == Init => PortsInv
  BY DEF Init, PortsInv, Fresh

LEMMA StepPorts == TypeOK /\ PortsInv /\ [Next]_vars => PortsInv'
<1> SUFFICES ASSUME TypeOK, PortsInv, [Next]_vars PROVE PortsInv'
  OBVIOUS
<1> USE DEF tty, hist, call, who
<1>0. /\ \A x : Len(<<x>>) = 1 /\ Append(<<>>, x) = <<x>>
      /\ Tabbed(1) = <<"HT">> /\ Len(Tabbed(5)) = 5
  BY TabbedFacts
<1>1. CASE boot_tty_init \/ tty_init
  BY <1>1 DEF boot_tty_init, tty_init, PortsInv, Fresh, Single, Blanks, TabDone
<1>2. CASE HandlerPrints \/ KernelPrints
  <2>1. PICK c : kputchar(c)
    BY <1>2 DEF HandlerPrints, KernelPrints
  <2>2. tabs = 0
    BY <2>1 DEF kputchar, PortsInv, Fresh, Single, Blanks, TabDone
  <2>3. Single'
    BY <2>1, <2>2 DEF kputchar, Single
  <2> QED
    BY <2>3 DEF PortsInv
<1>3. CASE SerialSend
  <2>1. pc = "serial" /\ pc' = "lpt" /\ wire' = Append(wire, ch) /\ paper' = paper
        /\ ch' = ch /\ tabs' = tabs /\ asked' = asked
    BY <1>3 DEF SerialSend, Ready
  <2>2. CASE Single
    BY <1>0, <2>1, <2>2 DEF Single, PortsInv
  <2>3. CASE Blanks
    <3> DEFINE n == 5 - tabs
    <3>1. n \in Nat \ {0} /\ n + 1 = 6 - tabs /\ wire = Tabbed(n) /\ ch = Blank
      BY <2>1, <2>3 DEF Blanks
    <3> HIDE DEF n
    <3>2. wire' = Tabbed(n + 1)
      BY <2>1, <3>1, TabbedFacts
    <3>3. paper' = Tabbed(5 - tabs)
      BY <2>1, <2>3 DEF Blanks
    <3> QED
      BY <2>1, <2>3, <3>1, <3>2, <3>3 DEF Blanks, PortsInv
  <2> QED
    BY <2>1, <2>2, <2>3 DEF PortsInv, Fresh, TabDone
<1>4. CASE LptSend
  <2>1. pc = "lpt" /\ pc' = "cga" /\ paper' = Append(paper, ch) /\ wire' = wire
        /\ ch' = ch /\ tabs' = tabs /\ asked' = asked
    BY <1>4 DEF LptSend, Ready
  <2>2. CASE Single
    BY <1>0, <2>1, <2>2 DEF Single, PortsInv
  <2>3. CASE Blanks
    <3> DEFINE n == 5 - tabs
    <3>1. n \in Nat \ {0} /\ n + 1 = 6 - tabs /\ paper = Tabbed(n) /\ ch = Blank
      BY <2>1, <2>3 DEF Blanks
    <3> HIDE DEF n
    <3>2. paper' = Tabbed(n + 1)
      BY <2>1, <3>1, TabbedFacts
    <3>3. wire' = Tabbed(6 - tabs)
      BY <2>1, <2>3 DEF Blanks
    <3> QED
      BY <2>1, <2>3, <3>1, <3>2, <3>3 DEF Blanks, PortsInv
  <2> QED
    BY <2>1, <2>2, <2>3 DEF PortsInv, Fresh, TabDone
<1>5. CASE Poll("serial") \/ Poll("lpt")
  BY <1>5 DEF Poll, PortsInv, Fresh, Single, Blanks, TabDone
<1>6. ASSUME NEW from \in {"cga", "return", "advance", "roll", "last_line"}, NEW loc,
             NEW to \in {"return", "advance", "roll", "last_line", "show"}, Cga(from, to, loc),
             ch = "HT" => Len(wire) > 1,
             TabDone => to \in {"roll", "last_line", "show"}
      PROVE  PortsInv'
  <2>1. /\ pc = from /\ pc' = to /\ wire' = wire /\ paper' = paper
        /\ ch' = ch /\ tabs' = tabs /\ asked' = asked
    BY <1>6 DEF Cga
  <2>2. CASE Single
    <3>1. ch # "HT"
      BY <1>0, <1>6, <2>1, <2>2 DEF Single
    <3> QED
      BY <2>1, <2>2, <3>1 DEF Single, PortsInv
  <2>3. CASE Blanks
    BY <2>1, <2>3 DEF Blanks, PortsInv
  <2>4. CASE TabDone
    BY <1>6, <2>1, <2>4 DEF TabDone, PortsInv
  <2> QED
    BY <2>1, <2>2, <2>3, <2>4 DEF PortsInv, Fresh
<1>7. Controls = {"LF", "CR", "BS", "HT"}
  BY DEF Controls
<1>8. ch = "HT" /\ pc \in {"return", "advance", "roll", "last_line"} => Len(wire) > 1
  <2>1. Blank # "HT"
    BY <1>7, TtyAssumption
  <2>2. TabDone => Len(wire) > 1
    BY <1>0 DEF TabDone
  <2> QED
    BY <2>1, <2>2 DEF PortsInv, Fresh, Single, Blanks
<1>9. CASE NewLine \/ Return \/ Back \/ TabEnd \/ Advance \/ LastLine \/ Glyph \/ Roll
  <2>1. TabDone => ch = "HT" /\ pc \notin {"return", "advance"}
    BY DEF TabDone
  <2>2. CASE NewLine \/ Return \/ Back
    BY <1>6, <1>8, <2>1, <2>2 DEF NewLine, Return, Back, Cga
  <2>3. CASE TabEnd \/ Advance \/ LastLine
    BY <1>6, <1>8, <2>1, <2>3 DEF TabEnd, Advance, LastLine, Cga
  <2>4. CASE Glyph
    BY <1>6, <1>7, <2>1, <2>4 DEF Glyph
  <2>5. CASE Roll
    BY <1>6, <1>8, <2>5 DEF Roll, Cga
  <2> QED
    BY <1>9, <2>2, <2>3, <2>4, <2>5
<1>10. CASE Tab
  <2>1. Single
    BY <1>0, <1>7, <1>10, TtyAssumption DEF Tab, PortsInv, Fresh, Single, Blanks, TabDone
  <2>2. wire' = Tabbed(1) /\ paper' = Tabbed(1) /\ 5 - 4 = 1
    BY <1>0, <1>10, <2>1 DEF Tab, Single
  <2> QED
    BY <1>10, <2>1, <2>2 DEF Tab, Single, Blanks, PortsInv
<1>11. CASE Show
  <2>1. pc = "show" /\ wire' = wire /\ paper' = paper /\ asked' = asked
    BY <1>11 DEF Show
  <2>2. CASE Single
    BY <1>11, <2>1, <2>2 DEF Show, Single, PortsInv
  <2>3. CASE Blanks
    <3>1. CASE tabs > 1
      <4>1. 5 - (tabs - 1) = 6 - tabs /\ tabs - 1 \in 1 .. 4
        BY <2>3, <3>1 DEF Blanks
      <4>2. pc' = "serial" /\ tabs' = tabs - 1 /\ ch' = ch
        BY <1>11, <3>1 DEF Show
      <4>3. wire' = Tabbed(5 - tabs') /\ paper' = Tabbed(5 - tabs')
        BY <2>1, <2>3, <4>1, <4>2 DEF Blanks
      <4>4. Blanks'
        BY <2>1, <2>3, <4>1, <4>2, <4>3 DEF Blanks
      <4> QED
        BY <4>4 DEF PortsInv
    <3>2. CASE tabs = 1
      <4>1. 6 - 1 = 5
        OBVIOUS
      <4>2. TabDone'
        BY <1>11, <2>1, <2>3, <3>2, <4>1 DEF Show, Blanks, TabDone
      <4> QED
        BY <4>2 DEF PortsInv
    <3> QED
      BY <2>3, <3>1, <3>2 DEF Blanks
  <2>4. CASE TabDone
    BY <1>11, <2>1, <2>4 DEF Show, TabDone, PortsInv
  <2> QED
    BY <2>1, <2>2, <2>3, <2>4 DEF PortsInv, Fresh
<1>12. ASSUME NEW by \in {"handler", "nmi"}, Strike(by) PROVE PortsInv'
  BY <1>12 DEF Strike, PortsInv, Fresh
<1>13. CASE UNCHANGED vars
  BY <1>13 DEF vars, PortsInv, Fresh, Single, Blanks, TabDone
<1> QED
  BY <1>1, <1>2, <1>3, <1>4, <1>5, <1>9, <1>10, <1>11, <1>12, <1>13 DEF Next, Work

LEMMA PortsInvAgree == PortsInv => PortsAgree
<1> SUFFICES ASSUME PortsInv, pc = "idle"
             PROVE  /\ paper = wire
                    /\ wire \in {<<>>, <<asked>>, <<"HT", Blank, Blank, Blank, Blank>>}
                    /\ Len(wire) > 1 <=> asked = "HT"
  BY DEF PortsAgree
<1>1. Blank # "HT" /\ Len(<<>>) = 0 /\ \A x : Len(<<x>>) = 1
  BY TtyAssumption DEF Controls
<1>2. CASE Fresh
  BY <1>1, <1>2 DEF Fresh
<1>3. CASE Single
  BY <1>1, <1>3 DEF Single
<1>4. CASE TabDone
  BY <1>4, TabbedFacts DEF TabDone
<1> QED
  BY <1>2, <1>3, <1>4 DEF PortsInv, Blanks

-----------------------------------------------------------------------------
(* Places on the screen: a number below CGA_TEXT_SIZE is a line and a       *)
(* column of it.                                                            *)

RowOf(loc) == (loc \div CGA_TEXT_COLUMNS) + 1
ColOf(loc) == (loc % CGA_TEXT_COLUMNS) + 1

LEMMA Unique ==
  ASSUME NEW m \in Nat \ {0}, NEW a \in Nat, NEW b \in 0 .. m - 1
  PROVE  /\ a * m + b \in Nat
         /\ (a * m + b) \div m = a /\ (a * m + b) % m = b
  BY SMT

LEMMA Place ==
  ASSUME NEW r \in Nat \ {0}, NEW c \in 1 .. CGA_TEXT_COLUMNS
  PROVE  /\ (r - 1) * CGA_TEXT_COLUMNS + c - 1 \in Nat
         /\ RowOf((r - 1) * CGA_TEXT_COLUMNS + c - 1) = r
         /\ ColOf((r - 1) * CGA_TEXT_COLUMNS + c - 1) = c
         /\ (r - 1) * CGA_TEXT_COLUMNS + c - 1 < CGA_TEXT_SIZE <=> r <= CGA_TEXT_ROWS
<1> DEFINE a == r - 1
           b == c - 1
<1>1. /\ CGA_TEXT_COLUMNS \in Nat \ {0} /\ CGA_TEXT_ROWS \in Nat
      /\ a \in Nat /\ b \in 0 .. CGA_TEXT_COLUMNS - 1
  BY ScreenSizes
<1>2. CGA_TEXT_SIZE = CGA_TEXT_ROWS * CGA_TEXT_COLUMNS
  BY <1>1 DEF CGA_TEXT_SIZE
<1>3. r = a + 1 /\ c = b + 1 /\ (r <= CGA_TEXT_ROWS <=> a < CGA_TEXT_ROWS)
  BY <1>1
<1> DEFINE x == a * CGA_TEXT_COLUMNS
<1>4. x \in Int /\ x + c - 1 = x + b
  BY <1>1
<1>5. /\ x + b \in Nat
      /\ (x + b) \div CGA_TEXT_COLUMNS = a /\ (x + b) % CGA_TEXT_COLUMNS = b
      /\ x + b < CGA_TEXT_SIZE <=> a < CGA_TEXT_ROWS
  <2> HIDE DEF a, b
  <2> QED
    BY <1>1, <1>2, Unique, Below
<1> QED
  BY <1>3, <1>4, <1>5 DEF RowOf, ColOf

LEMMA PlaceOf ==
  ASSUME NEW loc \in Nat
  PROVE  /\ RowOf(loc) \in Nat \ {0} /\ ColOf(loc) \in 1 .. CGA_TEXT_COLUMNS
         /\ loc = (RowOf(loc) - 1) * CGA_TEXT_COLUMNS + ColOf(loc) - 1
         /\ loc < CGA_TEXT_SIZE <=> RowOf(loc) <= CGA_TEXT_ROWS
         /\ loc % CGA_TEXT_COLUMNS = ColOf(loc) - 1
<1> DEFINE a == loc \div CGA_TEXT_COLUMNS
           b == loc % CGA_TEXT_COLUMNS
<1>1. a \in Nat /\ b \in 0 .. CGA_TEXT_COLUMNS - 1 /\ loc = a * CGA_TEXT_COLUMNS + b
      /\ CGA_TEXT_COLUMNS \in Nat
  BY ScreenSizes, DivMod
<1> HIDE DEF a, b
<1> DEFINE r == a + 1
           c == b + 1
<1>2. r \in Nat \ {0} /\ c \in 1 .. CGA_TEXT_COLUMNS /\ r - 1 = a
  BY <1>1
<1>3. loc = (r - 1) * CGA_TEXT_COLUMNS + c - 1
  <2>1. a * CGA_TEXT_COLUMNS \in Int
    BY <1>1
  <2> HIDE DEF r
  <2>2. (r - 1) * CGA_TEXT_COLUMNS = a * CGA_TEXT_COLUMNS
    BY <1>2
  <2> QED
    BY <1>1, <2>1, <2>2
<1>4. RowOf(loc) = r /\ ColOf(loc) = c /\ b = c - 1
  BY <1>1 DEF RowOf, ColOf, a, b
<1> HIDE DEF r, c
<1>5. loc < CGA_TEXT_SIZE <=> r <= CGA_TEXT_ROWS
  BY <1>2, <1>3, Place
<1> QED
  BY <1>2, <1>3, <1>4, <1>5 DEF b

(* The next place.                                                          *)
LEMMA NextPlace ==
  ASSUME NEW loc \in Nat
  PROVE  /\ ColOf(loc) < CGA_TEXT_COLUMNS =>
              RowOf(loc + 1) = RowOf(loc) /\ ColOf(loc + 1) = ColOf(loc) + 1
         /\ ColOf(loc) = CGA_TEXT_COLUMNS => loc + 1 = RowOf(loc) * CGA_TEXT_COLUMNS
<1> DEFINE r == RowOf(loc)
           c == ColOf(loc)
           x == (r - 1) * CGA_TEXT_COLUMNS
<1>1. r \in Nat \ {0} /\ c \in 1 .. CGA_TEXT_COLUMNS /\ loc = x + c - 1 /\ CGA_TEXT_COLUMNS \in Nat \ {0}
  BY PlaceOf, ScreenSizes
<1> HIDE DEF r, c
<1>2. x \in Nat
  BY <1>1, SMT
<1>3. ASSUME c < CGA_TEXT_COLUMNS PROVE RowOf(loc + 1) = r /\ ColOf(loc + 1) = c + 1
  <2>1. c + 1 \in 1 .. CGA_TEXT_COLUMNS /\ loc + 1 = x + (c + 1) - 1
    BY <1>1, <1>2, <1>3
  <2> QED
    BY <1>1, <2>1, Place
<1>4. ASSUME c = CGA_TEXT_COLUMNS PROVE loc + 1 = r * CGA_TEXT_COLUMNS
  <2>1. x = r * CGA_TEXT_COLUMNS - CGA_TEXT_COLUMNS /\ r * CGA_TEXT_COLUMNS \in Nat
    BY <1>1, SMT
  <2> QED
    BY <1>1, <1>2, <1>4, <2>1
<1> QED
  BY <1>3, <1>4 DEF r, c

(* The place before.                                                        *)
LEMMA LastPlace ==
  ASSUME NEW loc \in Nat, ColOf(loc) > 1
  PROVE  /\ loc - 1 \in Nat
         /\ RowOf(loc - 1) = RowOf(loc) /\ ColOf(loc - 1) = ColOf(loc) - 1
<1> DEFINE r == RowOf(loc)
           c == ColOf(loc)
           x == (r - 1) * CGA_TEXT_COLUMNS
<1>1. r \in Nat \ {0} /\ c \in 1 .. CGA_TEXT_COLUMNS /\ loc = x + c - 1 /\ CGA_TEXT_COLUMNS \in Nat
      /\ c > 1
  BY PlaceOf, ScreenSizes
<1> HIDE DEF r, c
<1>2. x \in Nat
  BY <1>1, SMT
<1>3. c - 1 \in 1 .. CGA_TEXT_COLUMNS /\ loc - 1 = x + (c - 1) - 1 /\ loc - 1 \in Nat
  BY <1>1, <1>2
<1>4. RowOf(loc - 1) = r /\ ColOf(loc - 1) = c - 1
  BY <1>1, <1>3, Place
<1> QED
  BY <1>3, <1>4 DEF r, c

(* The beginning of a line, and of the one below.                           *)
LEMMA LineStart ==
  ASSUME NEW r \in Nat \ {0}
  PROVE  /\ (r - 1) * CGA_TEXT_COLUMNS \in Nat
         /\ RowOf((r - 1) * CGA_TEXT_COLUMNS) = r /\ ColOf((r - 1) * CGA_TEXT_COLUMNS) = 1
         /\ (r - 1) * CGA_TEXT_COLUMNS < CGA_TEXT_SIZE <=> r <= CGA_TEXT_ROWS
         /\ r <= CGA_TEXT_ROWS + 1 => (r - 1) * CGA_TEXT_COLUMNS <= CGA_TEXT_SIZE
<1> DEFINE x == (r - 1) * CGA_TEXT_COLUMNS
<1>1. CGA_TEXT_COLUMNS \in Nat \ {0} /\ CGA_TEXT_ROWS \in Nat /\ 1 \in 1 .. CGA_TEXT_COLUMNS
      /\ CGA_TEXT_SIZE \in Nat
  BY ScreenSizes
<1>2. x \in Nat
  BY <1>1, SMT
<1>3. x + 1 - 1 = x
  BY <1>2
<1>4. /\ RowOf(x + 1 - 1) = r /\ ColOf(x + 1 - 1) = 1
      /\ x + 1 - 1 < CGA_TEXT_SIZE <=> r <= CGA_TEXT_ROWS
  BY <1>1, Place
<1>5. ASSUME r = CGA_TEXT_ROWS + 1 PROVE x = CGA_TEXT_SIZE
  <2>1. r - 1 = CGA_TEXT_ROWS
    BY <1>1, <1>5
  <2> QED
    BY <1>1, <2>1 DEF CGA_TEXT_SIZE
<1>6. r <= CGA_TEXT_ROWS + 1 => r <= CGA_TEXT_ROWS \/ r = CGA_TEXT_ROWS + 1
  BY <1>1
<1> HIDE DEF x
<1>7. r <= CGA_TEXT_ROWS + 1 => x <= CGA_TEXT_SIZE
  BY <1>1, <1>2, <1>3, <1>4, <1>5, <1>6
<1> QED
  BY <1>2, <1>3, <1>4, <1>7 DEF x

LEMMA ColumnOff ==
  ASSUME NEW loc \in Nat
  PROVE  /\ loc - (loc % CGA_TEXT_COLUMNS) = (RowOf(loc) - 1) * CGA_TEXT_COLUMNS
         /\ RowOf(loc + CGA_TEXT_COLUMNS) = RowOf(loc) + 1
         /\ ColOf(loc + CGA_TEXT_COLUMNS) = ColOf(loc)
<1> DEFINE r == RowOf(loc)
           c == ColOf(loc)
           x == (r - 1) * CGA_TEXT_COLUMNS
<1>1. r \in Nat \ {0} /\ c \in 1 .. CGA_TEXT_COLUMNS /\ loc = x + c - 1 /\ CGA_TEXT_COLUMNS \in Nat
      /\ loc % CGA_TEXT_COLUMNS = c - 1
  BY PlaceOf, ScreenSizes
<1> HIDE DEF r, c
<1>2. x \in Nat
  BY <1>1, SMT
<1>3. loc - (loc % CGA_TEXT_COLUMNS) = x
  BY <1>1, <1>2
<1> DEFINE s == r + 1
<1>4. s \in Nat \ {0} /\ (s - 1) * CGA_TEXT_COLUMNS = x + CGA_TEXT_COLUMNS
  BY <1>1, SMT
<1> HIDE DEF s
<1>5. loc + CGA_TEXT_COLUMNS = (s - 1) * CGA_TEXT_COLUMNS + c - 1
  BY <1>1, <1>2, <1>4
<1>6. RowOf(loc + CGA_TEXT_COLUMNS) = s /\ ColOf(loc + CGA_TEXT_COLUMNS) = c
  BY <1>1, <1>4, <1>5, Place
<1> QED
  BY <1>3, <1>6 DEF r, c, s

(* The line of a place that is at most one line below the screen begins at  *)
(* the end of the screen or before.                                         *)
LEMMA LineBound ==
  ASSUME NEW loc \in Nat, loc < CGA_TEXT_SIZE + CGA_TEXT_COLUMNS
  PROVE  /\ loc - (loc % CGA_TEXT_COLUMNS) \in Nat
         /\ loc - (loc % CGA_TEXT_COLUMNS) <= CGA_TEXT_SIZE
         /\ (loc - (loc % CGA_TEXT_COLUMNS)) % CGA_TEXT_COLUMNS = 0
<1> DEFINE r == RowOf(loc)
           x == (r - 1) * CGA_TEXT_COLUMNS
<1>1. r \in Nat \ {0} /\ loc - (loc % CGA_TEXT_COLUMNS) = x /\ loc >= x
      /\ CGA_TEXT_COLUMNS \in Nat \ {0} /\ CGA_TEXT_ROWS \in Nat /\ CGA_TEXT_SIZE \in Nat
  <2>1. loc % CGA_TEXT_COLUMNS \in Nat
    BY ScreenSizes, DivMod
  <2>2. loc - (loc % CGA_TEXT_COLUMNS) = x
    BY ColumnOff
  <2> HIDE DEF x
  <2>3. loc >= x
    BY <2>1, <2>2
  <2> QED
    BY <2>2, <2>3, PlaceOf, ScreenSizes
<1> HIDE DEF r
<1>2. r <= CGA_TEXT_ROWS + 1
  <2>1. SUFFICES ASSUME r >= CGA_TEXT_ROWS + 2 PROVE FALSE
    BY <1>1
  <2>2. x >= (CGA_TEXT_ROWS + 1) * CGA_TEXT_COLUMNS /\ x \in Nat
    <3>1. r - 1 >= CGA_TEXT_ROWS + 1 /\ r - 1 \in Nat /\ CGA_TEXT_ROWS + 1 \in Nat
      BY <1>1, <2>1
    <3> QED
      BY <1>1, <3>1, SMT
  <2>3. (CGA_TEXT_ROWS + 1) * CGA_TEXT_COLUMNS = CGA_TEXT_SIZE + CGA_TEXT_COLUMNS
    BY <1>1, SMT DEF CGA_TEXT_SIZE
  <2> HIDE DEF x
  <2> QED
    BY <1>1, <2>2, <2>3
<1>3. x \in Nat /\ x <= CGA_TEXT_SIZE /\ ColOf(x) = 1
  BY <1>1, <1>2, LineStart
<1> HIDE DEF x
<1>4. x % CGA_TEXT_COLUMNS = 0
  BY <1>3, PlaceOf
<1> QED
  BY <1>1, <1>3, <1>4

LEMMA LastLineStart ==
  /\ CGA_TEXT_SIZE - CGA_TEXT_COLUMNS = (CGA_TEXT_ROWS - 1) * CGA_TEXT_COLUMNS
  /\ RowOf(CGA_TEXT_SIZE - CGA_TEXT_COLUMNS) = CGA_TEXT_ROWS
  /\ ColOf(CGA_TEXT_SIZE - CGA_TEXT_COLUMNS) = 1
<1>1. CGA_TEXT_ROWS \in Nat \ {0} /\ CGA_TEXT_COLUMNS \in Nat \ {0}
  BY ScreenSizes
<1>2. CGA_TEXT_SIZE - CGA_TEXT_COLUMNS = (CGA_TEXT_ROWS - 1) * CGA_TEXT_COLUMNS
  BY <1>1, SMT DEF CGA_TEXT_SIZE
<1> QED
  BY <1>1, <1>2, LineStart

-----------------------------------------------------------------------------
(* Where the cursor is, while nothing has struck.                           *)

LEMMA InitOnScreen == Init => OnScreen
  BY ScreenSizes DEF Init, OnScreen, cursor, Stages

LEMMA StepOnScreen == TypeOK /\ OnScreen /\ [Next]_vars => OnScreen'
<1> SUFFICES ASSUME TypeOK, OnScreen, [Next]_vars, level' = "kernel" PROVE OnScreen'
  BY DEF OnScreen
<1> USE DEF tty, hist, call, who
<1>1. CASE boot_tty_init
  <2>1. cursor' = 0
    BY <1>1, CursorMoves
  <2>2. pc' = "idle"
    BY <1>1 DEF boot_tty_init, TypeOK
  <2> QED
    BY <2>1, <2>2, ScreenSizes DEF OnScreen
<1>2. CASE tty_init
  BY <1>2, CursorMoves DEF tty_init, OnScreen
<1>3. CASE HandlerPrints \/ KernelPrints
  <2>1. pc = "idle" /\ pc' = "serial" /\ cursor' = cursor /\ level' = level
    BY <1>3, CursorMoves DEF HandlerPrints, KernelPrints, kputchar
  <2> QED
    BY <2>1 DEF OnScreen
<1>4. CASE SerialSend \/ LptSend \/ Poll("serial") \/ Poll("lpt") \/ Tab
  <2>1. /\ pc \in {"serial", "lpt", "cga"} /\ pc' \in {"serial", "lpt", "cga"}
        /\ cursor' = cursor /\ level' = level
    BY <1>4, CursorMoves DEF SerialSend, LptSend, Poll, Ready, Tab
  <2> QED
    BY <2>1 DEF OnScreen
<1>5. CASE NewLine
  <2>1. cursor' = cursor + CGA_TEXT_COLUMNS /\ pc' = "return" /\ pc = "cga" /\ level = "kernel"
    BY <1>5, CursorMoves DEF NewLine
  <2>2. cursor < CGA_TEXT_SIZE
    BY <2>1 DEF OnScreen
  <2> QED
    BY <2>1, <2>2, Columns, ScreenSizes DEF OnScreen
<1>6. CASE Return
  <2>1. /\ cursor' = cursor - column /\ pc' = "roll" /\ level = "kernel"
        /\ pc = "return" \/ pc = "cga"
    BY <1>6, CursorMoves DEF Return
  <2>2. cursor < CGA_TEXT_SIZE + CGA_TEXT_COLUMNS
    BY <2>1, Columns, ScreenSizes DEF OnScreen
  <2>3. cursor - column <= CGA_TEXT_SIZE
    BY <2>2, Columns, LineBound DEF column
  <2> QED
    BY <2>1, <2>3 DEF OnScreen
<1>7. CASE Back \/ TabEnd
  <2>1. /\ cursor' \in {cursor, cursor - 1} /\ pc' = "roll" /\ pc = "cga" /\ level = "kernel"
    BY <1>7, CursorMoves DEF Back, TabEnd
  <2>2. cursor < CGA_TEXT_SIZE
    BY <2>1 DEF OnScreen
  <2> QED
    BY <2>1, <2>2, Columns, ScreenSizes DEF OnScreen
<1>8. CASE Glyph
  <2>1. cursor' = cursor /\ pc' = "advance" /\ pc = "cga" /\ level = "kernel"
    BY <1>8, CursorMoves DEF Glyph
  <2> QED
    BY <2>1 DEF OnScreen
<1>9. CASE Advance
  <2>1. cursor' = cursor + 1 /\ pc' = "roll" /\ pc = "advance" /\ level = "kernel"
    BY <1>9, CursorMoves DEF Advance
  <2> QED
    BY <2>1, Columns, ScreenSizes DEF OnScreen
<1>10. CASE Roll
  <2>1. cursor' = cursor /\ pc' = (IF Rolls(cursor) THEN "last_line" ELSE "show")
    BY <1>10, CursorMoves DEF Roll
  <2> QED
    BY <2>1, Columns, ScreenSizes DEF OnScreen, Rolls
<1>11. CASE LastLine
  <2>1. cursor' = CGA_TEXT_SIZE - CGA_TEXT_COLUMNS /\ pc' = "show"
    BY <1>11, CursorMoves DEF LastLine
  <2> QED
    BY <2>1, ScreenSizes DEF OnScreen
<1>12. CASE Show
  <2>1. cursor' = cursor /\ pc = "show" /\ pc' \in {"serial", "cga", "idle"} /\ level' = level
    BY <1>12, CursorMoves DEF Show
  <2> QED
    BY <2>1 DEF OnScreen
<1>13. ASSUME NEW by \in {"handler", "nmi"}, Strike(by) PROVE FALSE
  BY <1>13 DEF Strike
<1>14. CASE UNCHANGED vars
  BY <1>14 DEF vars, OnScreen, cursor
<1> QED
  BY <1>1, <1>2, <1>3, <1>4, <1>5, <1>6, <1>7, <1>8, <1>9, <1>10, <1>11, <1>12, <1>13, <1>14
     DEF Next, Work

-----------------------------------------------------------------------------
(* The text memory as lines of characters.                                  *)

Lines(mem) == [r \in 1 .. CGA_TEXT_ROWS |->
                 [c \in 1 .. CGA_TEXT_COLUMNS |->
                    mem[(r - 1) * CGA_TEXT_COLUMNS + c - 1]]]
BlankRow == [c \in 1 .. CGA_TEXT_COLUMNS |-> Blank]

Written == Glyphs \cup {First, Last}

LEMMA CellOf ==
  ASSUME NEW r \in 1 .. CGA_TEXT_ROWS, NEW c \in 1 .. CGA_TEXT_COLUMNS
  PROVE  /\ (r - 1) * CGA_TEXT_COLUMNS + c - 1 \in Cells
         /\ RowOf((r - 1) * CGA_TEXT_COLUMNS + c - 1) = r
         /\ ColOf((r - 1) * CGA_TEXT_COLUMNS + c - 1) = c
<1> DEFINE x == (r - 1) * CGA_TEXT_COLUMNS + c - 1
<1>1. r \in Nat \ {0} /\ r <= CGA_TEXT_ROWS
  BY ScreenSizes
<1>2. x \in Nat /\ RowOf(x) = r /\ ColOf(x) = c /\ x < CGA_TEXT_SIZE
  BY <1>1, Place
<1> HIDE DEF x
<1>3. x \in Cells
  BY <1>2, ScreenSizes DEF Cells
<1> QED
  BY <1>2, <1>3 DEF x

Put(ls, r, c, g) == [ls EXCEPT ![r][c] = g]
SetCell(mem, loc, g) == [mem EXCEPT ![loc] = g]

(* Writing at a place changes that character of that line.                  *)
LEMMA LinesSet ==
  ASSUME NEW mem \in [Cells -> Written], NEW loc \in Cells, NEW g
  PROVE  Lines(SetCell(mem, loc, g)) = Put(Lines(mem), RowOf(loc), ColOf(loc), g)
<1> DEFINE row0 == RowOf(loc)
           col0 == ColOf(loc)
           ls == Lines(mem)
           m1 == SetCell(mem, loc, g)
<1>1. loc \in Nat /\ loc < CGA_TEXT_SIZE
  BY ScreenSizes DEF Cells
<1>2. /\ row0 \in 1 .. CGA_TEXT_ROWS /\ col0 \in 1 .. CGA_TEXT_COLUMNS
      /\ loc = (row0 - 1) * CGA_TEXT_COLUMNS + col0 - 1
  BY <1>1, PlaceOf, ScreenSizes
<1> HIDE DEF row0, col0
<1>3. ASSUME NEW r \in 1 .. CGA_TEXT_ROWS, NEW c \in 1 .. CGA_TEXT_COLUMNS
      PROVE  m1[(r - 1) * CGA_TEXT_COLUMNS + c - 1] =
               IF r = row0 /\ c = col0 THEN g ELSE mem[(r - 1) * CGA_TEXT_COLUMNS + c - 1]
  <2> DEFINE x == (r - 1) * CGA_TEXT_COLUMNS + c - 1
  <2>1. x \in Cells /\ RowOf(x) = r /\ ColOf(x) = c
    BY CellOf
  <2>2. x = loc <=> r = row0 /\ c = col0
    BY <1>2, <2>1 DEF row0, col0
  <2> HIDE DEF x
  <2>3. m1[x] = IF r = row0 /\ c = col0 THEN g ELSE mem[x]
    BY <2>1, <2>2 DEF SetCell
  <2> QED
    BY <2>3 DEF x
<1> HIDE DEF m1
<1>4. Lines(m1) = [r \in 1 .. CGA_TEXT_ROWS |-> [c \in 1 .. CGA_TEXT_COLUMNS |->
                    IF r = row0 /\ c = col0 THEN g ELSE ls[r][c]]]
  BY <1>3 DEF Lines
<1>5. ls = [r \in 1 .. CGA_TEXT_ROWS |-> [c \in 1 .. CGA_TEXT_COLUMNS |-> ls[r][c]]]
  BY DEF Lines
<1> HIDE DEF ls
<1>6. [ls EXCEPT ![row0][col0] = g] =
        [r \in 1 .. CGA_TEXT_ROWS |-> [c \in 1 .. CGA_TEXT_COLUMNS |->
           IF r = row0 /\ c = col0 THEN g ELSE ls[r][c]]]
  BY <1>2, <1>5
<1> QED
  BY <1>4, <1>6 DEF m1, ls, row0, col0, Put

(* roll_screen_mem moves every line up by one and leaves a blank one.       *)
LEMMA LinesRolled ==
  ASSUME NEW mem \in [Cells -> Written]
  PROVE  Lines(roll_screen_mem(mem)) = Append(Tail(Lines(mem)), BlankRow)
<1> DEFINE ls == Lines(mem)
           m1 == roll_screen_mem(mem)
<1>1. CGA_TEXT_ROWS \in Nat \ {0} /\ CGA_TEXT_COLUMNS \in Nat \ {0} /\ CGA_TEXT_SIZE \in Nat
  BY ScreenSizes
<1>2. ASSUME NEW r \in 1 .. CGA_TEXT_ROWS, NEW c \in 1 .. CGA_TEXT_COLUMNS
      PROVE  m1[(r - 1) * CGA_TEXT_COLUMNS + c - 1] =
               IF r < CGA_TEXT_ROWS THEN mem[(r + 1 - 1) * CGA_TEXT_COLUMNS + c - 1] ELSE Blank
  <2> DEFINE x == (r - 1) * CGA_TEXT_COLUMNS + c - 1
             y == (r + 1 - 1) * CGA_TEXT_COLUMNS + c - 1
  <2>1. x \in Cells
    BY CellOf
  <2>2. y = x + CGA_TEXT_COLUMNS
    <3>1. r \in Nat \ {0} /\ c \in Nat
      BY <1>1
    <3>2. (r + 1 - 1) * CGA_TEXT_COLUMNS = (r - 1) * CGA_TEXT_COLUMNS + CGA_TEXT_COLUMNS
      BY <1>1, <3>1, SMT
    <3>3. (r - 1) * CGA_TEXT_COLUMNS \in Nat
      BY <1>1, <3>1, SMT
    <3> QED
      BY <1>1, <3>1, <3>2, <3>3
  <2>3. y < CGA_TEXT_SIZE <=> r + 1 <= CGA_TEXT_ROWS
    <3>1. r + 1 \in Nat \ {0}
      BY <1>1
    <3> QED
      BY <3>1, Place
  <2> HIDE DEF x, y
  <2>4. m1[x] = IF x + CGA_TEXT_COLUMNS \in Cells THEN mem[x + CGA_TEXT_COLUMNS] ELSE Blank
    BY <1>1, <2>1 DEF roll_screen_mem, Rolled, Cells
  <2>5. x + CGA_TEXT_COLUMNS \in Cells <=> r < CGA_TEXT_ROWS
    BY <1>1, <2>1, <2>2, <2>3 DEF Cells
  <2>6. m1[x] = IF r < CGA_TEXT_ROWS THEN mem[y] ELSE Blank
    BY <2>2, <2>4, <2>5
  <2> QED
    BY <2>6 DEF x, y
<1> HIDE DEF m1
<1> DEFINE Row == [1 .. CGA_TEXT_COLUMNS -> Written]
<1>3. BlankRow \in Row
  BY TtyAssumption DEF BlankRow, Written
<1>4. ls \in [1 .. CGA_TEXT_ROWS -> Row]
  <2>1. \A r \in 1 .. CGA_TEXT_ROWS, c \in 1 .. CGA_TEXT_COLUMNS :
          mem[(r - 1) * CGA_TEXT_COLUMNS + c - 1] \in Written
    BY CellOf
  <2> QED
    BY <2>1 DEF Lines
<1>5. \A r \in 1 .. CGA_TEXT_ROWS :
        Lines(m1)[r] = IF r < CGA_TEXT_ROWS THEN ls[r + 1] ELSE BlankRow
  <2> TAKE r \in 1 .. CGA_TEXT_ROWS
  <2>1. CASE r < CGA_TEXT_ROWS
    <3>1. r + 1 \in 1 .. CGA_TEXT_ROWS
      BY <1>1, <2>1
    <3>2. \A c \in 1 .. CGA_TEXT_COLUMNS : m1[(r - 1) * CGA_TEXT_COLUMNS + c - 1] =
            mem[(r + 1 - 1) * CGA_TEXT_COLUMNS + c - 1]
      BY <1>2, <2>1
    <3>3. Lines(m1)[r] = [c \in 1 .. CGA_TEXT_COLUMNS |-> m1[(r - 1) * CGA_TEXT_COLUMNS + c - 1]]
      BY DEF Lines
    <3>4. ls[r + 1] = [c \in 1 .. CGA_TEXT_COLUMNS |->
                         mem[(r + 1 - 1) * CGA_TEXT_COLUMNS + c - 1]]
      BY <3>1 DEF Lines
    <3> HIDE DEF ls
    <3> QED
      BY <2>1, <3>2, <3>3, <3>4
  <2>2. CASE ~(r < CGA_TEXT_ROWS)
    <3>1. \A c \in 1 .. CGA_TEXT_COLUMNS : m1[(r - 1) * CGA_TEXT_COLUMNS + c - 1] = Blank
      BY <1>2, <2>2
    <3>2. Lines(m1)[r] = [c \in 1 .. CGA_TEXT_COLUMNS |-> m1[(r - 1) * CGA_TEXT_COLUMNS + c - 1]]
      BY DEF Lines
    <3> QED
      BY <2>2, <3>1, <3>2 DEF BlankRow
  <2> QED
    BY <2>1, <2>2
<1>6. DOMAIN Lines(m1) = 1 .. CGA_TEXT_ROWS
      /\ Lines(m1) = [r \in 1 .. CGA_TEXT_ROWS |-> Lines(m1)[r]]
  BY DEF Lines
<1> DEFINE n1 == Lines(m1)
           br == BlankRow
<1> HIDE DEF ls, Row, n1, br
<1>7. ls \in Seq(Row) /\ Len(ls) = CGA_TEXT_ROWS /\ br \in Row
  BY <1>1, <1>3, <1>4 DEF br
<1>8. n1 = [r \in 1 .. CGA_TEXT_ROWS |-> IF r < CGA_TEXT_ROWS THEN ls[r + 1] ELSE br]
  BY <1>5, <1>6 DEF n1, br
<1>9. Append(Tail(ls), br) = [r \in 1 .. CGA_TEXT_ROWS |->
                                IF r < CGA_TEXT_ROWS THEN ls[r + 1] ELSE br]
  <2>1. /\ Tail(ls) \in Seq(Row) /\ Len(Tail(ls)) = CGA_TEXT_ROWS - 1
        /\ \A i \in 1 .. CGA_TEXT_ROWS - 1 : Tail(ls)[i] = ls[i + 1]
    BY <1>1, <1>7
  <2> DEFINE tl == Tail(ls)
  <2> HIDE DEF tl
  <2>2. /\ Append(tl, br) \in Seq(Row) /\ Len(Append(tl, br)) = CGA_TEXT_ROWS
        /\ \A i \in 1 .. CGA_TEXT_ROWS :
             Append(tl, br)[i] = IF i < CGA_TEXT_ROWS THEN ls[i + 1] ELSE br
    BY <1>1, <1>7, <2>1 DEF tl
  <2> DEFINE al == Append(tl, br)
  <2> HIDE DEF al
  <2>3. al \in Seq(Row) /\ Len(al) = CGA_TEXT_ROWS
    BY <2>2 DEF al
  <2>4. al = [i \in 1 .. CGA_TEXT_ROWS |-> al[i]]
    BY <2>3
  <2> QED
    BY <2>2, <2>4 DEF tl, al
<1> QED
  BY <1>8, <1>9 DEF n1, m1, ls, br

-----------------------------------------------------------------------------
(* The refinement.                                                          *)

(* The end of a statement sequence: "check for rolling screen".             *)
Wrap(mem, at) == IF Rolls(at)
                 THEN [mem |-> roll_screen_mem(mem), loc |-> CGA_TEXT_SIZE - CGA_TEXT_COLUMNS]
                 ELSE [mem |-> mem, loc |-> at]

LEMMA WrapLine ==
  ASSUME NEW mem \in [Cells -> Written], NEW r \in 1 .. CGA_TEXT_ROWS
  PROVE  LET w == Wrap(mem, r * CGA_TEXT_COLUMNS) IN
         /\ ColOf(w.loc) = 1
         /\ \/ r < CGA_TEXT_ROWS /\ RowOf(w.loc) = r + 1 /\ Lines(w.mem) = Lines(mem)
            \/ /\ r = CGA_TEXT_ROWS /\ RowOf(w.loc) = r
               /\ Lines(w.mem) = Append(Tail(Lines(mem)), BlankRow)
<1> DEFINE s == r + 1
           x == r * CGA_TEXT_COLUMNS
<1>1. /\ s \in Nat \ {0} /\ s - 1 = r /\ CGA_TEXT_ROWS \in Nat /\ CGA_TEXT_SIZE \in Nat
      /\ CGA_TEXT_COLUMNS \in Nat
  BY ScreenSizes
<1>2. /\ x \in Nat /\ RowOf(x) = s /\ ColOf(x) = 1
      /\ x < CGA_TEXT_SIZE <=> s <= CGA_TEXT_ROWS
  <2> HIDE DEF s
  <2> QED
    BY <1>1, LineStart
<1> HIDE DEF x
<1>3. CASE r < CGA_TEXT_ROWS
  <2>1. Wrap(mem, x) = [mem |-> mem, loc |-> x]
    BY <1>1, <1>2, <1>3 DEF Wrap, Rolls
  <2> QED
    BY <1>2, <1>3, <2>1 DEF x
<1>4. CASE r = CGA_TEXT_ROWS
  <2>1. Wrap(mem, x) = [mem |-> roll_screen_mem(mem), loc |-> CGA_TEXT_SIZE - CGA_TEXT_COLUMNS]
    BY <1>1, <1>2, <1>4 DEF Wrap, Rolls
  <2> QED
    BY <1>4, <2>1, LinesRolled, LastLineStart DEF x
<1> QED
  BY <1>1, <1>3, <1>4

View == [r \in 1 .. CGA_TEXT_ROWS |->
           [c \in 1 .. CGA_TEXT_COLUMNS |->
              IF stage = "off" THEN Blank
              ELSE Settled.mem[(r - 1) * CGA_TEXT_COLUMNS + c - 1]]]
BlankView == [r \in 1 .. CGA_TEXT_ROWS |-> BlankRow]
Row == RowOf(Settled.loc)
Col == ColOf(Settled.loc)

(* Screen's steps, in the words of the terminal.                            *)
Turn == Owed # <<>> /\ Owed' = Tail(Owed)
LEMMA ScreenSteps ==
  /\ S!Init <=> View = BlankView /\ Row = 1 /\ Col = 1 /\ Owed = <<>>
  /\ S!NewLine <=>
       /\ Col' = 1
       /\ \/ Row < CGA_TEXT_ROWS /\ Row' = Row + 1 /\ View' = View
          \/ Row = CGA_TEXT_ROWS /\ Row' = Row /\ View' = Append(Tail(View), BlankRow)
  /\ S!Return <=> Col' = 1 /\ View' = View /\ Row' = Row
  /\ S!Back <=> Col' = (IF Col > 1 THEN Col - 1 ELSE Col) /\ View' = View /\ Row' = Row
  /\ UNCHANGED S!vars <=> View' = View /\ Row' = Row /\ Col' = Col /\ Owed' = Owed
  BY DEF S!Init, S!NewLine, S!NextLine, S!Return, S!Back, S!vars, S!BlankLine, View, BlankView, BlankRow,
         Row, Col, RowOf, ColOf

LEMMA ScreenShows ==
  ASSUME Turn,
         \/ Head(Owed) \in Glyphs /\ S!Write(Head(Owed))
         \/ Head(Owed) = "LF" /\ S!NewLine
         \/ Head(Owed) = "CR" /\ S!Return
         \/ Head(Owed) = "BS" /\ S!Back
  PROVE  S!Next
<1>1. S!Show
  BY Zenon DEF S!Show, Turn
<1> QED
  BY <1>1 DEF S!Next

LEMMA ScreenTypes ==
  ASSUME Owed = <<>>, NEW g \in Chars,
         Owed' = (IF g = "HT" THEN Spaces(4) ELSE <<g>>),
         View' = View, Row' = Row, Col' = Col
  PROVE  S!Next
<1>1. S!Type(g)
  BY DEF S!Type, Spaces, View, Row, Col, RowOf, ColOf
<1> QED
  BY <1>1 DEF S!Next, Chars, Controls

LEMMA ScreenWrite ==
  ASSUME NEW ls, ls = Put(View, Row, Col, Head(Owed)),
         \/ Col < CGA_TEXT_COLUMNS /\ View' = ls /\ Row' = Row /\ Col' = Col + 1
         \/ /\ Col = CGA_TEXT_COLUMNS /\ Col' = 1
            /\ \/ Row < CGA_TEXT_ROWS /\ Row' = Row + 1 /\ View' = ls
               \/ Row = CGA_TEXT_ROWS /\ Row' = Row /\ View' = Append(Tail(ls), BlankRow)
  PROVE  S!Write(Head(Owed))
  BY Zenon DEF S!Write, S!NextLine, S!BlankLine, View, Row, Col, RowOf, ColOf, BlankRow, Put

(* What is owed when nothing of the character in hand is shown, and when it *)
(* is.                                                                      *)
Unshown == {"serial", "lpt", "cga"}
LEMMA SpacesFacts ==
  /\ Spaces(0) = <<>>
  /\ \A n \in 1 .. 4 : /\ Spaces(n) # <<>> /\ Head(Spaces(n)) = Blank
                      /\ Tail(Spaces(n)) = Spaces(n - 1)
<1>1. Spaces(0) = <<>>
  BY DEF Spaces
<1>2. ASSUME NEW n \in 1 .. 4
      PROVE  /\ Spaces(n) # <<>> /\ Head(Spaces(n)) = Blank
             /\ Tail(Spaces(n)) = Spaces(n - 1)
  <2>1. n \in Nat /\ n >= 1 /\ n - 1 \in Nat
    OBVIOUS
  <2>2. Spaces(n) \in Seq({Blank}) /\ Len(Spaces(n)) = n /\ Spaces(n)[1] = Blank
    BY <2>1 DEF Spaces
  <2>3. Spaces(n) # <<>> /\ Head(Spaces(n)) = Blank
    BY <2>1, <2>2
  <2> DEFINE t == Tail(Spaces(n))
             u == Spaces(n - 1)
  <2>4. u \in Seq({Blank}) /\ Len(u) = n - 1
    BY <2>1 DEF Spaces
  <2>5. t \in Seq({Blank}) /\ Len(t) = n - 1
    BY <2>2, <2>3
  <2> HIDE DEF t, u
  <2>6. \A i \in 1 .. n - 1 : t[i] = u[i]
    <3>1. \A i \in 1 .. n - 1 : t[i] \in {Blank} /\ u[i] \in {Blank}
      BY <2>4, <2>5
    <3> QED
      BY <3>1
  <2>7. t = u
    BY <2>4, <2>5, <2>6
  <2> QED
    BY <2>3, <2>7 DEF t, u
<1> QED
  BY <1>1, <1>2

LEMMA OwedIs ==
  ASSUME TypeOK, PortsInv
  PROVE  /\ pc \notin Unshown => Owed = Spaces(IF tabs = 0 THEN 0 ELSE tabs - 1)
         /\ pc = "idle" => Owed = <<>> /\ tabs = 0
         /\ pc \in {"serial", "lpt"} \/ (pc = "cga" /\ Len(wire) = 1) =>
              Owed = IF ch = "HT" THEN Spaces(4)
                     ELSE IF tabs = 0 THEN <<ch>> ELSE Spaces(tabs)
         /\ pc = "cga" /\ ch = "HT" /\ Len(wire) > 1 => tabs = 0 /\ Owed = <<>>
         /\ pc = "cga" /\ ch # "HT" =>
              Owed = IF tabs = 0 THEN <<ch>> ELSE Spaces(tabs)
         /\ pc = "serial" \/ pc = "lpt" => (ch = "HT" => tabs = 0 /\ Len(wire) <= 1)
         /\ tabs # 0 => ch = Blank /\ ch # "HT" /\ tabs \in 1 .. 4
<1>1. Blank # "HT" /\ Blank \notin Controls
  BY TtyAssumption DEF Controls
<1>2. tabs # 0 => ch = Blank /\ tabs \in 1 .. 4
  BY DEF PortsInv, Fresh, Single, Blanks, TabDone
<1>3. pc = "idle" => tabs = 0
  BY DEF PortsInv, Fresh, Single, Blanks, TabDone
<1>4. pc = "serial" \/ pc = "lpt" => (ch = "HT" => tabs = 0 /\ Len(wire) <= 1)
  <2>1. Len(<<>>) = 0 /\ Len(<<ch>>) = 1
    OBVIOUS
  <2>2. Len(<<>>) <= 1 /\ Len(<<ch>>) <= 1
    BY <2>1
  <2> QED
    BY <1>1, <2>2, Zenon DEF PortsInv, Fresh, Single, Blanks, TabDone
<1>5. ch = "HT" => tabs = 0
  BY <1>1, <1>2
<1> QED
  BY <1>1, <1>2, <1>3, <1>4, <1>5, SpacesFacts DEF Owed, TabShown, Unshown

LEMMA OwedNext ==
  ASSUME TypeOK', PortsInv'
  PROVE  /\ pc' \notin Unshown => Owed' = Spaces(IF tabs' = 0 THEN 0 ELSE tabs' - 1)
         /\ pc' = "idle" => Owed' = <<>> /\ tabs' = 0
         /\ pc' \in {"serial", "lpt"} \/ (pc' = "cga" /\ Len(wire') = 1) =>
              Owed' = IF ch' = "HT" THEN Spaces(4)
                     ELSE IF tabs' = 0 THEN <<ch'>> ELSE Spaces(tabs')
         /\ pc' = "cga" /\ ch' = "HT" /\ Len(wire') > 1 => tabs' = 0 /\ Owed' = <<>>
         /\ pc' = "cga" /\ ch' # "HT" =>
              Owed' = IF tabs' = 0 THEN <<ch'>> ELSE Spaces(tabs')
         /\ pc' = "serial" \/ pc' = "lpt" => (ch' = "HT" => tabs' = 0 /\ Len(wire') <= 1)
         /\ tabs' # 0 => ch' = Blank /\ ch' # "HT" /\ tabs' \in 1 .. 4
<1>1. Blank # "HT" /\ Blank \notin Controls
  BY TtyAssumption DEF Controls
<1>2. tabs' # 0 => ch' = Blank /\ tabs' \in 1 .. 4
  BY DEF PortsInv, Fresh, Single, Blanks, TabDone
<1>3. pc' = "idle" => tabs' = 0
  BY DEF PortsInv, Fresh, Single, Blanks, TabDone
<1>4. pc' = "serial" \/ pc' = "lpt" => (ch' = "HT" => tabs' = 0 /\ Len(wire') <= 1)
  <2>1. Len(<<>>) = 0 /\ Len(<<ch'>>) = 1
    OBVIOUS
  <2>2. Len(<<>>) <= 1 /\ Len(<<ch'>>) <= 1
    BY <2>1
  <2> QED
    BY <1>1, <2>2, Zenon DEF PortsInv, Fresh, Single, Blanks, TabDone
<1>5. ch' = "HT" => tabs' = 0
  BY <1>1, <1>2
<1> QED
  BY <1>1, <1>2, <1>3, <1>4, <1>5, SpacesFacts DEF Owed, TabShown, Unshown

LEMMA ViewLines ==
  /\ stage = "off" => View = BlankView
  /\ stage # "off" => View = Lines(Settled.mem)
  BY DEF View, BlankView, BlankRow, Lines

LEMMA ViewLinesNext ==
  /\ stage' = "off" => View' = BlankView
  /\ stage' # "off" => View' = Lines(Settled'.mem)
  BY DEF View, BlankView, BlankRow, Lines

LEMMA SettledAt ==
  /\ pc \notin {"advance", "return", "roll", "last_line"} =>
       Settled = [mem |-> text_mem, loc |-> cursor]
  /\ pc = "last_line" => Settled = [mem |-> text_mem, loc |-> CGA_TEXT_SIZE - CGA_TEXT_COLUMNS]
  /\ pc = "advance" => Settled = Wrap(text_mem, cursor + 1)
  /\ pc = "return"  => Settled = Wrap(text_mem, cursor - column)
  /\ pc = "roll"    => Settled = Wrap(text_mem, cursor)
  BY DEF Settled, Wrap

LEMMA SettledNext ==
  /\ pc' \notin {"advance", "return", "roll", "last_line"} =>
       Settled' = [mem |-> text_mem', loc |-> cursor']
  /\ pc' = "last_line" => Settled' = [mem |-> text_mem', loc |-> CGA_TEXT_SIZE - CGA_TEXT_COLUMNS]
  /\ pc' = "advance" => Settled' = Wrap(text_mem', cursor' + 1)
  /\ pc' = "return"  => Settled' = Wrap(text_mem', cursor' - column')
  /\ pc' = "roll"    => Settled' = Wrap(text_mem', cursor')
  BY DEF Settled, Wrap

LEMMA SameScreen ==
  ASSUME stage' = stage, Settled' = Settled, Owed' = Owed
  PROVE  UNCHANGED S!vars
<1>1. View' = View
  BY DEF View
<1>2. Row' = Row /\ Col' = Col
  BY DEF Row, Col, RowOf, ColOf
<1> QED
  BY <1>1, <1>2, ScreenSteps

LEMMA NoWrap ==
  ASSUME NEW mem, NEW at \in Nat, at < CGA_TEXT_SIZE
  PROVE  Wrap(mem, at) = [mem |-> mem, loc |-> at]
  BY ScreenSizes DEF Wrap, Rolls

ScreenStep == S!Next \/ UNCHANGED S!vars

LEMMA InitScreen == Init => S!Init
<1> SUFFICES ASSUME Init PROVE S!Init
  OBVIOUS
<1>1. stage = "off" /\ pc = "idle" /\ cursor = 0
  BY DEF Init, cursor, Stages
<1>2. Settled.loc = 0
  BY <1>1, SettledAt
<1>3. 0 = (1 - 1) * CGA_TEXT_COLUMNS /\ 1 \in Nat \ {0}
  BY ScreenSizes
<1>4. RowOf(0) = 1 /\ ColOf(0) = 1
  BY <1>3, LineStart
<1>5. Owed = <<>>
  BY <1>1, SpacesFacts DEF Init, Owed
<1> QED
  BY <1>1, <1>2, <1>4, <1>5, ViewLines, ScreenSteps DEF Row, Col

LEMMA StepScreen ==
  ASSUME TypeOK, TypeOK', PortsInv, PortsInv', OnScreen, Next, level' = "kernel"
  PROVE  ScreenStep
<1> USE DEF tty, hist, call, who
<1>0. /\ pc = "idle" => Owed = <<>>
      /\ pc' = "idle" => Owed' = <<>>
  BY OwedIs, OwedNext
<1>1. CASE boot_tty_init
  <2>1. stage = "off" /\ stage' = "boot" /\ pc = "idle" /\ pc' = "idle"
        /\ cursor' = 0 /\ cursor = 0
    BY <1>1, CursorMoves DEF boot_tty_init, TypeOK, cursor
  <2>2. text_mem' = boot_clear_screen
    BY <1>1 DEF boot_tty_init
  <2>3. Settled.loc = 0 /\ Settled' = [mem |-> boot_clear_screen, loc |-> 0]
    BY <2>1, <2>2, SettledAt, SettledNext
  <2>4. Lines(boot_clear_screen) = BlankView
    BY CellOf DEF Lines, BlankView, BlankRow, boot_clear_screen
  <2>5. View' = View
    BY <2>1, <2>3, <2>4, ViewLines, ViewLinesNext
  <2>6. Row' = Row /\ Col' = Col
    BY <2>3 DEF Row, Col, RowOf, ColOf
  <2> QED
    BY <1>0, <2>1, <2>5, <2>6, ScreenSteps DEF ScreenStep
<1>2. CASE tty_init
  <2>1. stage = "boot" /\ stage' = "kernel" /\ pc = "idle" /\ pc' = "idle"
        /\ cursor' = cursor /\ text_mem' = text_mem
    BY <1>2, CursorMoves DEF tty_init
  <2>2. Settled' = Settled
    BY <2>1, SettledAt, SettledNext
  <2>3. View' = View
    BY <2>1, <2>2, ViewLines, ViewLinesNext
  <2>4. Row' = Row /\ Col' = Col
    BY <2>2 DEF Row, Col, RowOf, ColOf
  <2> QED
    BY <1>0, <2>1, <2>3, <2>4, ScreenSteps DEF ScreenStep
<1>3. ASSUME pc \in {"idle", "serial", "lpt", "cga", "show"},
             pc' \in {"idle", "serial", "lpt", "cga", "show"},
             UNCHANGED <<stage, text_mem, cursor_loc>>
      PROVE  Settled' = Settled /\ stage' = stage
  BY <1>3, CursorMoves, SettledAt, SettledNext
<1>4. CASE HandlerPrints \/ KernelPrints
  <2>1. PICK x \in Chars : kputchar(x)
    BY <1>4 DEF HandlerPrints, KernelPrints, kputchar, TypeOK
  <2>2. /\ pc = "idle" /\ pc' = "serial" /\ ch' = x /\ tabs' = tabs
        /\ UNCHANGED <<stage, text_mem, cursor_loc>>
    BY <2>1 DEF kputchar
  <2>3. Settled' = Settled /\ stage' = stage
    BY <1>3, <2>2
  <2>4. View' = View /\ Row' = Row /\ Col' = Col
    BY <2>3 DEF View, Row, Col, RowOf, ColOf
  <2>5. Owed = <<>> /\ Owed' = (IF x = "HT" THEN Spaces(4) ELSE <<x>>)
    BY <2>2, OwedIs, OwedNext
  <2> QED
    BY <2>4, <2>5, ScreenTypes DEF ScreenStep
<1>5. CASE SerialSend \/ LptSend \/ Poll("serial") \/ Poll("lpt")
  <2>1. /\ pc \in {"serial", "lpt"} /\ pc' \in {"serial", "lpt", "cga"}
        /\ ch' = ch /\ tabs' = tabs /\ UNCHANGED <<stage, text_mem, cursor_loc>>
        /\ pc' = "cga" => pc = "lpt" /\ wire' = wire
    BY <1>5 DEF SerialSend, LptSend, Poll, Ready
  <2>2. pc' = "cga" => (ch' = "HT" => Len(wire') = 1)
    <3>1. pc = "lpt" /\ ch = "HT" => Len(wire) = 1
      <4>1. Len(<<ch>>) = 1 /\ Blank # "HT"
        BY TtyAssumption DEF Controls
      <4> QED
        BY <4>1, Zenon DEF PortsInv, Fresh, Single, Blanks, TabDone
    <3> QED
      BY <2>1, <3>1
  <2> DEFINE o == IF ch = "HT" THEN Spaces(4) ELSE IF tabs = 0 THEN <<ch>> ELSE Spaces(tabs)
  <2>4. Owed = o
    BY <2>1, OwedIs
  <2>5. Owed' = o
    <3>1. CASE pc' \in {"serial", "lpt"}
      BY <2>1, <3>1, OwedNext
    <3>2. CASE pc' = "cga" /\ ch = "HT"
      <4>1. Len(wire') = 1
        BY <2>1, <2>2, <3>2
      <4> QED
        BY <2>1, <3>2, <4>1, OwedNext
    <3>3. CASE pc' = "cga" /\ ch # "HT"
      BY <2>1, <3>3, OwedNext
    <3> QED
      BY <2>1, <3>1, <3>2, <3>3
  <2>3. Owed' = Owed
    BY <2>4, <2>5
  <2> QED
    BY <1>3, <2>1, <2>3, SameScreen DEF ScreenStep
<1>20. CASE Tab
  <2>1. /\ pc = "cga" /\ ch = "HT" /\ Len(wire) = 1 /\ pc' = "serial" /\ ch' = Blank
        /\ tabs' = 4 /\ UNCHANGED <<stage, text_mem, cursor_loc>>
    BY <1>20 DEF Tab
  <2>2. Owed = Spaces(4)
    BY <2>1, OwedIs
  <2>3. Owed' = Spaces(4)
    BY <2>1, OwedNext
  <2> QED
    BY <1>3, <2>1, <2>2, <2>3, SameScreen DEF ScreenStep
<1>21. CASE Show
  <2>1. /\ pc = "show" /\ UNCHANGED <<stage, text_mem, cursor_loc, wire>>
        /\ pc' \in {"serial", "cga", "idle"}
    BY <1>21 DEF Show
  <2>2. Owed = Spaces(IF tabs = 0 THEN 0 ELSE tabs - 1)
    BY <2>1, OwedIs DEF Unshown
  <2>3. CASE tabs > 1
    <3>1. pc' = "serial" /\ tabs' = tabs - 1 /\ ch' = ch
      BY <1>21, <2>3 DEF Show
    <3>2. ch # "HT" /\ tabs \in 1 .. 4
      BY <2>3, OwedIs
    <3>3. Owed' = Spaces(tabs - 1)
      BY <2>3, <3>1, <3>2, OwedNext
    <3> QED
      BY <1>3, <2>1, <2>2, <3>2, <3>3, SameScreen DEF ScreenStep
  <2>4. CASE tabs = 1
    <3>1. pc' = "cga" /\ tabs' = 0 /\ ch' = "HT"
      BY <1>21, <2>4 DEF Show
    <3>2. Len(wire) > 1
      <4>1. wire = Tabbed(5)
        BY <2>1, <2>4 DEF PortsInv, Fresh, Single, Blanks, TabDone
      <4> QED
        BY <4>1 DEF Tabbed
    <3>3. Owed' = <<>>
      BY <2>1, <3>1, <3>2, OwedNext
    <3> QED
      BY <1>3, <2>1, <2>2, <2>4, <3>3, SpacesFacts, SameScreen DEF ScreenStep
  <2>5. CASE tabs = 0
    <3>1. pc' = "idle"
      BY <1>21, <2>5 DEF Show
    <3> QED
      BY <1>0, <1>3, <2>1, <2>2, <2>5, <3>1, SpacesFacts, SameScreen DEF ScreenStep
  <2> QED
    BY <2>3, <2>4, <2>5 DEF TypeOK
<1> DEFINE r == RowOf(cursor)
           c == ColOf(cursor)
<1>6. text_mem \in [Cells -> Written] /\ cursor \in Nat
  BY Columns DEF TypeOK, Written
<1>7. /\ r \in Nat \ {0} /\ c \in 1 .. CGA_TEXT_COLUMNS
      /\ cursor < CGA_TEXT_SIZE <=> r <= CGA_TEXT_ROWS
      /\ cursor - column = (r - 1) * CGA_TEXT_COLUMNS /\ column = c - 1
  BY <1>6, PlaceOf, ColumnOff DEF column
<1> HIDE DEF r, c
<1>8. \A from, to, loc : Cga(from, to, loc) =>
        /\ pc = from /\ pc' = to /\ cursor' = loc
        /\ stage' = stage /\ (stage # "off" \/ pc = "idle")
        /\ level = "kernel"
  BY CursorMoves DEF TypeOK
<1>9. ASSUME pc = "cga", level = "kernel"
      PROVE  /\ stage # "off" /\ cursor < CGA_TEXT_SIZE /\ r \in 1 .. CGA_TEXT_ROWS
             /\ Settled = [mem |-> text_mem, loc |-> cursor]
             /\ View = Lines(text_mem) /\ Row = r /\ Col = c
  <2>1. stage # "off" /\ cursor < CGA_TEXT_SIZE /\ Settled = [mem |-> text_mem, loc |-> cursor]
    BY <1>9, SettledAt DEF TypeOK, OnScreen
  <2>2. r \in 1 .. CGA_TEXT_ROWS
    BY <1>7, <2>1, ScreenSizes
  <2> QED
    BY <2>1, <2>2, ViewLines DEF Row, Col, r, c
<1>22. ASSUME pc = "cga", pc' \notin Unshown, tabs' = tabs, ~(ch = "HT" /\ Len(wire) > 1),
              ch # "HT"
       PROVE  Turn /\ Head(Owed) = ch
  <2>1. CASE tabs = 0
    <3>1. Owed = <<ch>> /\ Owed' = <<>>
      BY <1>22, <2>1, OwedIs, OwedNext, SpacesFacts
    <3>2. <<ch>> # <<>> /\ Head(<<ch>>) = ch /\ Tail(<<ch>>) = <<>>
      OBVIOUS
    <3> QED
      BY <3>1, <3>2 DEF Turn
  <2>2. CASE tabs # 0
    <3>1. Owed = Spaces(tabs) /\ Owed' = Spaces(tabs - 1) /\ ch = Blank /\ tabs \in 1 .. 4
      BY <1>22, <2>2, OwedIs, OwedNext
    <3> QED
      BY <3>1, SpacesFacts DEF Turn
  <2> QED
    BY <2>1, <2>2
<1>23. ASSUME pc \notin Unshown, pc' \notin Unshown, tabs' = tabs PROVE Owed' = Owed
  BY <1>23, OwedIs, OwedNext
<1>10. CASE NewLine
  <2>1. /\ pc = "cga" /\ pc' = "return" /\ cursor' = cursor + CGA_TEXT_COLUMNS /\ stage' = stage
        /\ text_mem' = text_mem /\ level = "kernel" /\ ch = "LF" /\ tabs' = tabs
    BY <1>8, <1>10 DEF NewLine, Cga
  <2>2. cursor' - column' = r * CGA_TEXT_COLUMNS
    <3> DEFINE x == cursor + CGA_TEXT_COLUMNS
    <3>1. x \in Nat /\ RowOf(x) = r + 1
      BY <1>6, ScreenSizes, ColumnOff DEF r
    <3>2. x - (x % CGA_TEXT_COLUMNS) = (RowOf(x) - 1) * CGA_TEXT_COLUMNS
      BY <3>1, ColumnOff
    <3>3. cursor' - column' = x - (x % CGA_TEXT_COLUMNS)
      BY <2>1 DEF column
    <3>4. RowOf(x) - 1 = r
      BY <1>7, <3>1
    <3> HIDE DEF x
    <3> QED
      BY <3>2, <3>3, <3>4
  <2> DEFINE w == Wrap(text_mem, r * CGA_TEXT_COLUMNS)
  <2>3. Settled' = w
    BY <2>1, <2>2, SettledNext
  <2>4. /\ ColOf(w.loc) = 1
        /\ \/ r < CGA_TEXT_ROWS /\ RowOf(w.loc) = r + 1 /\ Lines(w.mem) = Lines(text_mem)
           \/ /\ r = CGA_TEXT_ROWS /\ RowOf(w.loc) = r
              /\ Lines(w.mem) = Append(Tail(Lines(text_mem)), BlankRow)
    BY <1>6, <1>9, <2>1, WrapLine
  <2> HIDE DEF w
  <2>5. View' = Lines(w.mem) /\ Row' = RowOf(w.loc) /\ Col' = ColOf(w.loc)
    BY <1>9, <2>1, <2>3, ViewLinesNext DEF Row, Col, RowOf, ColOf
  <2>6. S!NewLine
    BY <1>9, <2>1, <2>4, <2>5, ScreenSteps
  <2>7. Turn /\ Head(Owed) = "LF"
    BY <1>22, <2>1 DEF Unshown
  <2> QED
    BY <2>6, <2>7, ScreenShows DEF ScreenStep
<1>11. CASE Return
  <2>1. /\ pc' = "roll" /\ cursor' = cursor - column /\ stage' = stage
        /\ text_mem' = text_mem /\ level = "kernel"
        /\ pc = "return" \/ (pc = "cga" /\ ch = "CR")
        /\ tabs' = tabs
    BY <1>8, <1>11 DEF Return, Cga
  <2>2. Settled' = Wrap(text_mem, cursor - column)
    BY <2>1, SettledNext
  <2>3. CASE pc = "return"
    <3>1. Settled' = Settled
      BY <2>2, <2>3, SettledAt
    <3>2. Owed' = Owed
      BY <1>23, <2>1, <2>3 DEF Unshown
    <3> QED
      BY <2>1, <3>1, <3>2, SameScreen DEF ScreenStep
  <2>4. CASE pc = "cga"
    <3> DEFINE x == (r - 1) * CGA_TEXT_COLUMNS
    <3>1. x \in Nat /\ RowOf(x) = r /\ ColOf(x) = 1 /\ x < CGA_TEXT_SIZE
      BY <1>7, <1>9, <2>1, <2>4, LineStart
    <3> HIDE DEF x
    <3>2. Settled' = [mem |-> text_mem, loc |-> x]
      BY <1>7, <2>2, <3>1, NoWrap DEF x
    <3>3. View' = View /\ Row' = Row /\ Col' = 1
      BY <1>9, <2>1, <2>4, <3>1, <3>2, ViewLinesNext DEF Row, Col, RowOf, ColOf
    <3>4. Turn /\ Head(Owed) = "CR"
      BY <1>22, <2>1, <2>4 DEF Unshown
    <3> QED
      BY <3>3, <3>4, ScreenSteps, ScreenShows DEF ScreenStep
  <2> QED
    BY <2>1, <2>3, <2>4
<1>12. CASE Back
  <2>1. /\ pc = "cga" /\ pc' = "roll" /\ stage' = stage
        /\ cursor' = (IF column # 0 THEN cursor - 1 ELSE cursor)
        /\ text_mem' = text_mem /\ level = "kernel" /\ ch = "BS" /\ tabs' = tabs
    <3> DEFINE at == IF column # 0 THEN cursor - 1 ELSE cursor
    <3>1. Cga("cga", "roll", at) /\ text_mem' = text_mem /\ ch = "BS"
      BY <1>12 DEF Back
    <3> HIDE DEF at
    <3>2. /\ pc = "cga" /\ pc' = "roll" /\ stage' = stage /\ cursor' = at /\ level = "kernel"
          /\ tabs' = tabs
      BY <1>8, <3>1 DEF Cga
    <3> QED
      BY <3>1, <3>2 DEF at
  <2>2. Settled' = Wrap(text_mem, cursor')
    BY <2>1, SettledNext
  <2>3. cursor < CGA_TEXT_SIZE
    BY <1>9, <2>1
  <2>6. Turn /\ Head(Owed) = "BS"
    BY <1>22, <2>1 DEF Unshown
  <2>4. CASE column = 0
    <3>1. Settled' = Settled
      BY <1>6, <1>9, <2>1, <2>2, <2>3, <2>4, NoWrap
    <3>2. View' = View
      BY <2>1, <3>1 DEF View
    <3>3. Row' = Row /\ Col' = Col
      BY <3>1 DEF Row, Col, RowOf, ColOf
    <3>4. Col = 1
      BY <1>7, <1>9, <2>1, <2>4
    <3>5. S!Back
      BY <3>2, <3>3, <3>4, ScreenSteps
    <3> QED
      BY <2>6, <3>5, ScreenShows DEF ScreenStep
  <2>5. CASE column # 0
    <3>1. c > 1
      BY <1>7, <2>5, ScreenSizes
    <3>2. cursor - 1 \in Nat /\ RowOf(cursor - 1) = r /\ ColOf(cursor - 1) = c - 1
      BY <1>6, <3>1, LastPlace DEF r, c
    <3>3. cursor - 1 < CGA_TEXT_SIZE
      BY <1>6, <2>3, ScreenSizes
    <3>4. Settled' = [mem |-> text_mem, loc |-> cursor - 1]
      BY <2>1, <2>2, <2>5, <3>2, <3>3, NoWrap
    <3>5. View' = View /\ Row' = Row /\ Col' = Col - 1 /\ Col > 1
      BY <1>9, <2>1, <3>1, <3>2, <3>4, ViewLinesNext DEF Row, Col, RowOf, ColOf
    <3> QED
      BY <2>6, <3>5, ScreenSteps, ScreenShows DEF ScreenStep
  <2> QED
    BY <2>4, <2>5
<1>13. CASE TabEnd
  <2>1. /\ pc = "cga" /\ pc' = "roll" /\ cursor' = cursor /\ stage' = stage
        /\ text_mem' = text_mem /\ level = "kernel" /\ ch = "HT" /\ Len(wire) > 1
        /\ tabs' = tabs
    BY <1>8, <1>13 DEF TabEnd, Cga
  <2>2. Settled' = Settled
    BY <1>6, <1>9, <2>1, SettledNext, NoWrap
  <2>3. Owed' = Owed
    BY <2>1, OwedIs, OwedNext, SpacesFacts DEF Unshown
  <2> QED
    BY <2>1, <2>2, <2>3, SameScreen DEF ScreenStep
<1>14. CASE Glyph
  <2>1. /\ pc = "cga" /\ pc' = "advance" /\ cursor' = cursor /\ stage' = stage /\ level = "kernel"
        /\ text_mem' = set_char(text_mem, ch, cursor) /\ ch \notin Controls /\ tabs' = tabs
    BY <1>8, <1>14 DEF Glyph, Cga
  <2>2. ch \in Glyphs
    BY <2>1 DEF TypeOK, Chars
  <2> DEFINE m1 == SetCell(text_mem, cursor, ch)
             ls == Put(Lines(text_mem), r, c, ch)
             w == Wrap(m1, cursor + 1)
  <2>3. cursor \in Cells /\ ch \in Written
    BY <1>6, <1>9, <2>1, <2>2, ScreenSizes DEF Cells, Written
  <2>4. text_mem' = m1 /\ m1 \in [Cells -> Written] /\ Lines(m1) = ls
    <3>1. text_mem' = m1 /\ m1 \in [Cells -> Written]
      BY <1>6, <2>1, <2>3 DEF set_char, SetCell
    <3>2. Lines(m1) = ls
      BY <1>6, <2>3, LinesSet DEF r, c
    <3> QED
      BY <3>1, <3>2
  <2>5. Settled' = w
    BY <2>1, <2>4, SettledNext
  <2>6. View' = Lines(w.mem) /\ Row' = RowOf(w.loc) /\ Col' = ColOf(w.loc)
    BY <1>9, <2>1, <2>5, ViewLinesNext DEF Row, Col, RowOf, ColOf
  <2>10. Turn /\ Head(Owed) = ch
    <3>1. ch # "HT"
      BY <2>1 DEF Controls
    <3> QED
      BY <1>22, <2>1, <3>1 DEF Unshown
  <2>7. ls = Put(View, Row, Col, Head(Owed)) /\ Head(Owed) \in Glyphs
    BY <1>9, <2>1, <2>2, <2>10
  <2> HIDE DEF m1, ls
  <2>8. CASE c < CGA_TEXT_COLUMNS
    <3>1. RowOf(cursor + 1) = r /\ ColOf(cursor + 1) = c + 1 /\ cursor + 1 \in Nat
      BY <1>6, <2>8, NextPlace DEF r, c
    <3>2. cursor + 1 < CGA_TEXT_SIZE
      <4>1. cursor + 1 < CGA_TEXT_SIZE <=> RowOf(cursor + 1) <= CGA_TEXT_ROWS
        BY <3>1, PlaceOf
      <4> QED
        BY <1>9, <2>1, <3>1, <4>1, ScreenSizes
    <3>3. w = [mem |-> m1, loc |-> cursor + 1]
      BY <3>1, <3>2, NoWrap
    <3>4. View' = ls /\ Row' = Row /\ Col' = Col + 1
      BY <1>9, <2>1, <2>4, <2>6, <3>1, <3>3
    <3>5. Col < CGA_TEXT_COLUMNS
      BY <1>9, <2>1, <2>8
    <3>6. S!Write(Head(Owed))
      BY <2>7, <3>4, <3>5, ScreenWrite
    <3> QED
      BY <2>7, <2>10, <3>6, ScreenShows DEF ScreenStep
  <2>9. CASE c = CGA_TEXT_COLUMNS
    <3>1. cursor + 1 = r * CGA_TEXT_COLUMNS
      BY <1>6, <2>9, NextPlace DEF r, c
    <3>2. /\ ColOf(w.loc) = 1
          /\ \/ r < CGA_TEXT_ROWS /\ RowOf(w.loc) = r + 1 /\ Lines(w.mem) = Lines(m1)
             \/ /\ r = CGA_TEXT_ROWS /\ RowOf(w.loc) = r
                /\ Lines(w.mem) = Append(Tail(Lines(m1)), BlankRow)
      BY <1>9, <2>1, <2>4, <3>1, WrapLine
    <3> HIDE DEF w
    <3>3. /\ Col = CGA_TEXT_COLUMNS /\ Col' = 1
          /\ \/ Row < CGA_TEXT_ROWS /\ Row' = Row + 1 /\ View' = ls
             \/ Row = CGA_TEXT_ROWS /\ Row' = Row /\ View' = Append(Tail(ls), BlankRow)
      BY <1>9, <2>1, <2>4, <2>6, <2>9, <3>2
    <3>4. S!Write(Head(Owed))
      BY <2>7, <3>3, ScreenWrite
    <3> QED
      BY <2>7, <2>10, <3>4, ScreenShows DEF ScreenStep
  <2> QED
    BY <1>7, <2>8, <2>9, ScreenSizes
<1>15. CASE Advance
  <2>1. /\ pc = "advance" /\ pc' = "roll" /\ cursor' = cursor + 1 /\ stage' = stage
        /\ text_mem' = text_mem
    BY <1>8, <1>15 DEF Advance, Cga
  <2>2. Settled' = Settled
    BY <2>1, SettledAt, SettledNext
  <2>3. Owed' = Owed
    <3>1. tabs' = tabs
      BY <1>15 DEF Advance, Cga
    <3> QED
      BY <1>23, <2>1, <3>1 DEF Unshown
  <2> QED
    BY <2>1, <2>2, <2>3, SameScreen DEF ScreenStep
<1>16. CASE Roll
  <2>1. /\ pc = "roll" /\ pc' = (IF Rolls(cursor) THEN "last_line" ELSE "show")
        /\ cursor' = cursor /\ stage' = stage
        /\ text_mem' = (IF Rolls(cursor) THEN roll_screen_mem(text_mem) ELSE text_mem)
    BY <1>8, <1>16 DEF Roll, Cga
  <2>2. Settled' = Settled
    BY <2>1, SettledAt, SettledNext DEF Wrap
  <2>3. Owed' = Owed
    <3>1. tabs' = tabs
      BY <1>16 DEF Roll, Cga
    <3> QED
      BY <1>23, <2>1, <3>1 DEF Unshown
  <2> QED
    BY <2>1, <2>2, <2>3, SameScreen DEF ScreenStep
<1>17. CASE LastLine
  <2>1. /\ pc = "last_line" /\ pc' = "show" /\ cursor' = CGA_TEXT_SIZE - CGA_TEXT_COLUMNS
        /\ stage' = stage /\ text_mem' = text_mem
    BY <1>8, <1>17 DEF LastLine, Cga
  <2>2. Settled' = Settled
    BY <2>1, SettledAt, SettledNext
  <2>3. Owed' = Owed
    <3>1. tabs' = tabs
      BY <1>17 DEF LastLine, Cga
    <3> QED
      BY <1>23, <2>1, <3>1 DEF Unshown
  <2> QED
    BY <2>1, <2>2, <2>3, SameScreen DEF ScreenStep
<1>18. ASSUME NEW by \in {"handler", "nmi"}, Strike(by) PROVE FALSE
  BY <1>18 DEF Strike
<1>19. CASE UNCHANGED vars
  <2>1. stage' = stage /\ Settled' = Settled /\ Owed' = Owed
    BY <1>19 DEF vars, Settled, cursor, column, Owed, TabShown
  <2> QED
    BY <2>1, SameScreen DEF ScreenStep
<1> QED
  BY <1>1, <1>2, <1>4, <1>5, <1>20, <1>21, <1>10, <1>11, <1>12, <1>13, <1>14, <1>15, <1>16, <1>17, <1>18,
     <1>19 DEF Next, Work

-----------------------------------------------------------------------------
(* The message of a handler.                                                *)

(* The message ends its line two lines above the bottom at the highest.     *)
LargeEnough == CGA_TEXT_ROWS >= 3 /\ CGA_TEXT_COLUMNS >= 2

LEMMA Tall ==
  ASSUME LargeEnough
  PROVE  CGA_TEXT_SIZE >= 3 * CGA_TEXT_COLUMNS /\ CGA_TEXT_COLUMNS >= 2
<1>1. CGA_TEXT_COLUMNS \in Nat \ {0} /\ CGA_TEXT_ROWS \in Nat /\ CGA_TEXT_ROWS >= 3
      /\ CGA_TEXT_COLUMNS >= 2
  BY ScreenSizes DEF LargeEnough
<1> QED
  BY <1>1, SMT DEF CGA_TEXT_SIZE

(* Rolling the screen moves what has been told up by a line.                *)
LEMMA ToldRolled ==
  ASSUME NEW lost \in BOOLEAN, NEW mem, NEW p \in Cells, p > CGA_TEXT_COLUMNS, Told(lost, mem, p)
  PROVE  Told(lost, roll_screen_mem(mem), p - CGA_TEXT_COLUMNS)
<1> DEFINE q == p - CGA_TEXT_COLUMNS
           m1 == roll_screen_mem(mem)
<1>1. /\ CGA_TEXT_COLUMNS \in Nat \ {0} /\ CGA_TEXT_SIZE \in Nat /\ p \in Nat /\ q \in Nat
      /\ q + CGA_TEXT_COLUMNS = p /\ q \in Cells
  BY ScreenSizes DEF Cells
<1>2. \A i \in Cells : i + CGA_TEXT_COLUMNS \in Cells => m1[i] = mem[i + CGA_TEXT_COLUMNS]
  BY <1>1 DEF roll_screen_mem, Rolled, Cells
<1> HIDE DEF m1
<1>3. q % CGA_TEXT_COLUMNS = p % CGA_TEXT_COLUMNS
  <2>1. ColOf(p) = ColOf(q)
    <3> HIDE DEF q
    <3> QED
      BY <1>1, ColumnOff
  <2>2. p % CGA_TEXT_COLUMNS = ColOf(p) - 1 /\ q % CGA_TEXT_COLUMNS = ColOf(q) - 1
    BY <1>1, PlaceOf
  <2> QED
    BY <2>1, <2>2
<1>4. m1[q] = Last
  BY <1>1, <1>2 DEF Told
<1>5. CASE p % CGA_TEXT_COLUMNS = 0 /\ lost
  BY <1>1, <1>3, <1>4, <1>5 DEF Told, Begun, m1
<1>6. CASE ~lost
  <2>1. p >= 1 /\ mem[p - 1] = First
    BY <1>6 DEF Told, Begun
  <2>3. q - 1 \in Cells /\ q >= 1 /\ (q - 1) + CGA_TEXT_COLUMNS = p - 1 /\ p - 1 \in Cells
    BY <1>1 DEF Cells
  <2>4. m1[q - 1] = First
    BY <1>2, <2>1, <2>3
  <2> HIDE DEF q
  <2>5. Begun(lost, m1, q)
    BY <1>6, <2>3, <2>4, Zenon DEF Begun
  <2> QED
    BY <1>1, <1>4, <2>5 DEF Told, m1, q
<1> QED
  BY <1>5, <1>6 DEF Told, Begun

LEMMA InitReport == Init => ReportInv
  BY DEF Init, ReportInv

LEMMA StepReport ==
  ASSUME LargeEnough, TypeOK, ReportInv, [Next]_vars
  PROVE  ReportInv'
<1> USE DEF tty, hist, call, who
<1>1. SUFFICES ASSUME level' # "kernel"
               PROVE  tabs' = 0 /\ (NotBegun' \/ FirstInHand' \/ LastInHand' \/ EndInHand')
  BY DEF ReportInv
<1>2. /\ First \notin Controls /\ Last \notin Controls /\ Controls = {"LF", "CR", "BS", "HT"}
      /\ CGA_TEXT_COLUMNS \in Nat \ {0} /\ CGA_TEXT_SIZE \in Nat
      /\ CGA_TEXT_SIZE >= 3 * CGA_TEXT_COLUMNS /\ CGA_TEXT_COLUMNS >= 2 /\ cursor \in Nat
      /\ behind \in BOOLEAN
  BY TtyAssumption, ScreenSizes, Tall, Columns DEF Chars, Controls, TypeOK
<1>3. ASSUME NEW by \in {"handler", "nmi"}, Strike(by)
      PROVE  tabs' = 0 /\ NotBegun'
  <2>1. cursor' = cursor
    BY <1>3 DEF Strike, cursor
  <2> QED
    BY <1>3, <2>1 DEF Strike, NotBegun, Rolls
<1>4. CASE boot_tty_init \/ tty_init \/ KernelPrints
  BY <1>1, <1>4 DEF boot_tty_init, tty_init, KernelPrints, kputchar, TypeOK
<1>5. level' = level =>
        tabs = 0 /\ (NotBegun \/ FirstInHand \/ LastInHand \/ EndInHand)
  BY <1>1 DEF ReportInv
<1>6. CASE HandlerPrints
  <2>1. /\ level' = level /\ pc = "idle" /\ pc' = "serial" /\ tabs' = tabs /\ text_mem' = text_mem
        /\ cursor' = cursor /\ ch' = Head(rest) /\ rest' = Tail(rest) /\ rest # <<>>
        /\ behind' = behind
    BY <1>6, CursorMoves DEF HandlerPrints, kputchar
  <2>2. CASE NotBegun
    BY <1>5, <2>1, <2>2, RestFacts DEF NotBegun, FirstInHand, Asking, Rolls
  <2>3. CASE FirstInHand
    BY <1>5, <2>1, <2>3, RestFacts DEF FirstInHand, LastInHand, Asking, Begun
  <2>4. CASE LastInHand
    BY <1>5, <2>1, <2>4, RestFacts DEF LastInHand, EndInHand, Asking, Told, Begun
  <2> QED
    BY <1>5, <2>1, <2>2, <2>3, <2>4 DEF EndInHand
<1>7. CASE SerialSend \/ LptSend \/ Poll("serial") \/ Poll("lpt")
  <2>1. /\ level' = level /\ pc \in {"serial", "lpt"} /\ pc' \in {"serial", "lpt", "cga"}
        /\ tabs' = tabs /\ text_mem' = text_mem /\ cursor' = cursor /\ ch' = ch /\ rest' = rest /\ behind' = behind
    BY <1>7, CursorMoves DEF SerialSend, LptSend, Poll, Ready
  <2>2. CASE FirstInHand
    BY <1>5, <2>1, <2>2 DEF FirstInHand, Asking
  <2>3. CASE LastInHand
    BY <1>5, <2>1, <2>3 DEF LastInHand, Asking
  <2>4. CASE EndInHand
    BY <1>5, <2>1, <2>4 DEF EndInHand, Asking
  <2> QED
    BY <1>5, <2>1, <2>2, <2>3, <2>4 DEF NotBegun
<1>8. \A from, to, loc : Cga(from, to, loc) =>
        /\ pc = from /\ pc' = to /\ cursor' = loc /\ level' = level
        /\ tabs' = tabs /\ ch' = ch /\ rest' = rest /\ behind' = behind
  BY CursorMoves DEF Cga
<1>9. CASE NewLine
  <2>1. /\ pc = "cga" /\ pc' = "return" /\ cursor' = cursor + CGA_TEXT_COLUMNS /\ ch = "LF"
        /\ level' = level /\ tabs' = tabs /\ ch' = ch /\ rest' = rest /\ behind' = behind /\ text_mem' = text_mem
    BY <1>8, <1>9 DEF NewLine
  <2>2. EndInHand
    BY <1>2, <1>5, <2>1 DEF NotBegun, FirstInHand, LastInHand
  <2>3. cursor < CGA_TEXT_SIZE /\ cursor >= 1 /\ Told(behind, text_mem, cursor - 1)
    BY <2>1, <2>2 DEF EndInHand
  <2>4. /\ cursor' < CGA_TEXT_SIZE + CGA_TEXT_COLUMNS /\ cursor' > CGA_TEXT_COLUMNS
        /\ cursor' - CGA_TEXT_COLUMNS - 1 = cursor - 1
    BY <1>2, <2>1, <2>3
  <2> QED
    BY <1>5, <2>1, <2>2, <2>3, <2>4 DEF EndInHand, Asking
<1>10. CASE Return
  <2>1. /\ pc = "return" \/ (pc = "cga" /\ ch = "CR")
        /\ pc' = "roll" /\ cursor' = cursor - column
        /\ level' = level /\ tabs' = tabs /\ ch' = ch /\ rest' = rest /\ behind' = behind /\ text_mem' = text_mem
    BY <1>8, <1>10 DEF Return
  <2>2. EndInHand /\ pc = "return"
    BY <1>2, <1>5, <2>1 DEF NotBegun, FirstInHand, LastInHand, EndInHand, Asking
  <2> DEFINE p == cursor - CGA_TEXT_COLUMNS - 1
  <2>3. cursor < CGA_TEXT_SIZE + CGA_TEXT_COLUMNS /\ cursor > CGA_TEXT_COLUMNS
        /\ Told(behind, text_mem, p)
    BY <2>2 DEF EndInHand
  <2>4. cursor' \in Nat /\ cursor' <= CGA_TEXT_SIZE /\ column' = 0
    BY <1>2, <2>1, <2>3, LineBound DEF column
  <2>5. column \in 0 .. CGA_TEXT_COLUMNS - 1
    BY Columns
  <2>6. p \in Cells /\ p < cursor' /\ p >= cursor' - CGA_TEXT_COLUMNS - 1
    <3>1. p \in Cells
      BY <2>3 DEF Told
    <3> QED
      BY <1>2, <2>1, <2>5, <3>1
  <2> HIDE DEF p
  <2> QED
    BY <1>5, <2>1, <2>2, <2>3, <2>4, <2>6 DEF EndInHand, Asking
<1>11. ch \notin {"BS", "HT", "CR"} \/ level' # level \/ NotBegun
  BY <1>2, <1>5 DEF FirstInHand, LastInHand, EndInHand
<1>12. CASE Back \/ Tab \/ TabEnd
  <2>1. level' = level /\ ch \in {"BS", "HT"} /\ pc = "cga"
    BY <1>12, <1>8 DEF Back, Tab, TabEnd
  <2> QED
    BY <1>11, <2>1 DEF NotBegun
<1>13. CASE Glyph
  <2>1. /\ pc = "cga" /\ pc' = "advance" /\ cursor' = cursor /\ ch \notin Controls
        /\ level' = level /\ tabs' = tabs /\ ch' = ch /\ rest' = rest /\ behind' = behind
        /\ text_mem' = set_char(text_mem, ch, cursor)
    BY <1>8, <1>13 DEF Glyph
  <2>2. cursor < CGA_TEXT_SIZE =>
          /\ cursor \in Cells /\ text_mem'[cursor] = ch
          /\ cursor >= 1 => text_mem'[cursor - 1] = text_mem[cursor - 1]
    BY <1>2, <2>1 DEF set_char, Cells, TypeOK
  <2>3. CASE FirstInHand
    <3>1. /\ rest' = <<Last, "LF">> /\ ch' = First /\ (behind' <=> Rolls(cursor'))
          /\ ch = First
      BY <2>1, <2>3 DEF FirstInHand
    <3>2. ~behind' => text_mem'[cursor'] = First
      BY <1>2, <2>1, <2>2, <3>1 DEF Rolls
    <3> QED
      BY <1>5, <2>1, <3>1, <3>2 DEF FirstInHand, Asking
  <2>4. CASE LastInHand
    <3>1. cursor < CGA_TEXT_SIZE /\ Begun(behind, text_mem, cursor) /\ ch = Last
      BY <2>1, <2>4 DEF LastInHand
    <3>2. Told(behind', text_mem', cursor')
      BY <2>1, <2>2, <3>1 DEF Told, Begun
    <3> QED
      BY <1>5, <2>1, <2>4, <3>2 DEF LastInHand, Asking
  <2> QED
    BY <1>2, <1>5, <2>1, <2>3, <2>4 DEF NotBegun, EndInHand
<1>14. CASE Advance
  <2>1. /\ pc = "advance" /\ pc' = "roll" /\ cursor' = cursor + 1
        /\ level' = level /\ tabs' = tabs /\ ch' = ch /\ rest' = rest /\ behind' = behind /\ text_mem' = text_mem
    BY <1>8, <1>14 DEF Advance
  <2>2. cursor' >= 1 /\ cursor' - 1 = cursor /\ (cursor' <= CGA_TEXT_SIZE => cursor < CGA_TEXT_SIZE)
    BY <1>2, <2>1
  <2>3. CASE FirstInHand
    <3>1. /\ rest' = <<Last, "LF">> /\ ch' = First /\ (behind <=> Rolls(cursor))
          /\ ~behind => text_mem[cursor] = First
      BY <2>1, <2>3 DEF FirstInHand
    <3>2. /\ behind' <=> cursor' > CGA_TEXT_SIZE
          /\ ~behind' => text_mem'[cursor' - 1] = First
      BY <1>2, <2>1, <2>2, <3>1 DEF Rolls
    <3> QED
      BY <1>5, <2>1, <2>2, <3>1, <3>2 DEF FirstInHand, Asking
  <2>4. CASE LastInHand
    BY <1>5, <2>1, <2>2, <2>4 DEF LastInHand, Asking
  <2> QED
    BY <1>5, <2>1, <2>3, <2>4 DEF NotBegun, EndInHand, Asking
<1>15. CASE Roll
  <2>1. /\ pc = "roll" /\ pc' = (IF Rolls(cursor) THEN "last_line" ELSE "show")
        /\ cursor' = cursor
        /\ level' = level /\ tabs' = tabs /\ ch' = ch /\ rest' = rest /\ behind' = behind
        /\ text_mem' = (IF Rolls(cursor) THEN roll_screen_mem(text_mem) ELSE text_mem)
    BY <1>8, <1>15 DEF Roll
  <2>2. CASE FirstInHand
    <3>1. /\ rest' = <<Last, "LF">> /\ ch' = First /\ cursor >= 1
          /\ behind <=> cursor > CGA_TEXT_SIZE
          /\ ~behind => text_mem[cursor - 1] = First
      BY <2>1, <2>2 DEF FirstInHand
    <3>2. CASE Rolls(cursor)
      <4> DEFINE q == CGA_TEXT_SIZE - CGA_TEXT_COLUMNS - 1
      <4>1. /\ q \in Cells /\ q + CGA_TEXT_COLUMNS \in Cells
            /\ q + CGA_TEXT_COLUMNS = CGA_TEXT_SIZE - 1
        BY <1>2 DEF Cells
      <4>2. roll_screen_mem(text_mem)[q] = text_mem[q + CGA_TEXT_COLUMNS]
        <5> HIDE DEF q
        <5> QED
          BY <1>2, <4>1 DEF roll_screen_mem, Rolled, Cells
      <4>3. ~behind' => text_mem'[q] = First
        BY <1>2, <2>1, <3>1, <3>2, <4>1, <4>2 DEF Rolls
      <4> QED
        BY <1>5, <2>1, <3>1, <3>2, <4>3 DEF FirstInHand, Asking
    <3>3. CASE ~Rolls(cursor)
      <4>1. cursor' < CGA_TEXT_SIZE /\ ~behind' /\ text_mem'[cursor' - 1] = First
        BY <1>2, <2>1, <3>1, <3>3 DEF Rolls
      <4>2. Begun(behind', text_mem', cursor')
        BY <2>1, <3>1, <4>1 DEF Begun
      <4> QED
        BY <1>5, <2>1, <3>1, <3>3, <4>1, <4>2 DEF FirstInHand, Asking
    <3> QED
      BY <3>2, <3>3
  <2>3. CASE LastInHand
    <3>1. cursor >= 1 /\ Told(behind, text_mem, cursor - 1) /\ cursor - 1 \in Cells
      BY <2>1, <2>3 DEF LastInHand, Told
    <3>2. CASE Rolls(cursor)
      <4>1. /\ cursor - 1 > CGA_TEXT_COLUMNS
            /\ cursor - 1 - CGA_TEXT_COLUMNS = CGA_TEXT_SIZE - CGA_TEXT_COLUMNS - 1
        BY <1>2, <3>1, <3>2 DEF Rolls, Cells
      <4>2. Told(behind', text_mem', CGA_TEXT_SIZE - CGA_TEXT_COLUMNS - 1)
        <5> DEFINE p == cursor - 1
        <5>1. p \in Cells /\ p > CGA_TEXT_COLUMNS /\ Told(behind, text_mem, p)
              /\ p - CGA_TEXT_COLUMNS = CGA_TEXT_SIZE - CGA_TEXT_COLUMNS - 1
          BY <3>1, <4>1
        <5> HIDE DEF p
        <5>2. Told(behind, roll_screen_mem(text_mem), p - CGA_TEXT_COLUMNS)
          BY <1>2, <5>1, ToldRolled
        <5> QED
          BY <2>1, <3>2, <5>1, <5>2
      <4> QED
        BY <1>5, <2>1, <2>3, <3>2, <4>2 DEF LastInHand, Asking
    <3>3. CASE ~Rolls(cursor)
      BY <1>2, <1>5, <2>1, <2>3, <3>1, <3>3 DEF LastInHand, Asking, Rolls
    <3> QED
      BY <3>2, <3>3
  <2>4. CASE EndInHand
    <3>1. PICK p \in Cells : /\ Told(behind, text_mem, p) /\ p < cursor
                             /\ p >= cursor - CGA_TEXT_COLUMNS - 1
      BY <2>1, <2>4 DEF EndInHand
    <3>2. cursor <= CGA_TEXT_SIZE /\ column = 0 /\ column' = column
      BY <2>1, <2>4 DEF EndInHand, column
    <3>3. CASE Rolls(cursor)
      <4> DEFINE q == p - CGA_TEXT_COLUMNS
      <4>1. /\ p > CGA_TEXT_COLUMNS /\ q \in Cells
            /\ q < CGA_TEXT_SIZE - CGA_TEXT_COLUMNS
            /\ q >= CGA_TEXT_SIZE - 2 * CGA_TEXT_COLUMNS - 1
        BY <1>2, <3>1, <3>2, <3>3 DEF Rolls, Cells
      <4>2. Told(behind', text_mem', q)
        BY <1>2, <2>1, <3>1, <3>3, <4>1, ToldRolled
      <4> HIDE DEF q
      <4> QED
        BY <1>5, <2>1, <2>4, <3>3, <4>1, <4>2 DEF EndInHand, Asking
    <3>4. CASE ~Rolls(cursor)
      BY <1>2, <1>5, <2>1, <2>4, <3>1, <3>2, <3>4 DEF EndInHand, Asking, Rolls
    <3> QED
      BY <3>3, <3>4
  <2> QED
    BY <1>5, <2>1, <2>2, <2>3, <2>4 DEF NotBegun
<1>16. CASE LastLine
  <2> DEFINE b == CGA_TEXT_SIZE - CGA_TEXT_COLUMNS
  <2>1. /\ pc = "last_line" /\ pc' = "show" /\ cursor' = b
        /\ level' = level /\ tabs' = tabs /\ ch' = ch /\ rest' = rest /\ behind' = behind /\ text_mem' = text_mem
    BY <1>8, <1>16 DEF LastLine
  <2>2. b \in Nat /\ b < CGA_TEXT_SIZE /\ b >= 1 /\ b - CGA_TEXT_COLUMNS = CGA_TEXT_SIZE - 2 * CGA_TEXT_COLUMNS
    BY <1>2
  <2>3. b % CGA_TEXT_COLUMNS = 0
    BY <2>2, LastLineStart, PlaceOf
  <2>4. CASE FirstInHand
    BY <1>5, <2>1, <2>2, <2>3, <2>4 DEF FirstInHand, Asking, Begun
  <2>5. CASE LastInHand
    BY <1>5, <2>1, <2>2, <2>5 DEF LastInHand, Asking
  <2>6. CASE EndInHand
    <3>1. PICK p \in Cells : /\ Told(behind, text_mem, p) /\ p < b
                             /\ p >= CGA_TEXT_SIZE - 2 * CGA_TEXT_COLUMNS - 1
      BY <2>1, <2>6 DEF EndInHand
    <3>2. p >= b - CGA_TEXT_COLUMNS - 1
      BY <2>2, <3>1
    <3>3. column' = 0
      BY <2>1, <2>3 DEF column
    <3> HIDE DEF b
    <3> QED
      BY <1>5, <2>1, <2>2, <2>6, <3>1, <3>2, <3>3 DEF EndInHand, Asking
  <2> QED
    BY <1>5, <2>1, <2>4, <2>5, <2>6 DEF NotBegun
<1>17. CASE Show
  <2>1. /\ pc = "show" /\ cursor' = cursor /\ column' = column
        /\ level' = level /\ rest' = rest /\ behind' = behind /\ text_mem' = text_mem
    BY <1>17, CursorMoves DEF Show, column
  <2>2. tabs' = tabs /\ ch' = ch /\ pc' = "idle"
    BY <1>5, <1>17, <2>1 DEF Show
  <2>3. CASE FirstInHand
    BY <1>5, <2>1, <2>2, <2>3 DEF FirstInHand, Asking
  <2>4. CASE LastInHand
    BY <1>5, <2>1, <2>2, <2>4 DEF LastInHand, Asking
  <2>5. CASE EndInHand
    BY <1>5, <2>1, <2>2, <2>5 DEF EndInHand, Asking
  <2> QED
    BY <1>5, <2>1, <2>3, <2>4, <2>5 DEF NotBegun
<1>18. CASE UNCHANGED vars
  BY <1>1, <1>18 DEF vars, ReportInv, NotBegun, FirstInHand, LastInHand, EndInHand,
                     cursor, column
<1> QED
  BY <1>3, <1>4, <1>6, <1>7, <1>9, <1>10, <1>12, <1>13, <1>14, <1>15, <1>16, <1>17, <1>18
     DEF Next, Work

LEMMA ReportInvShown ==
  ASSUME TypeOK, ReportInv
  PROVE  ReportShown
<1> SUFFICES ASSUME Halted
             PROVE  /\ column = 0
                    /\ \E i \in Cells :
                         /\ i < cursor /\ i >= cursor - 2 * CGA_TEXT_COLUMNS
                         /\ text_mem[i] = Last
                         /\ IF behind THEN i % CGA_TEXT_COLUMNS = 0
                                      ELSE i >= 1 /\ text_mem[i - 1] = First
  BY DEF ReportShown
<1>1. level # "kernel" /\ rest = <<>> /\ pc = "idle"
  BY DEF Halted
<1>2. EndInHand
  BY <1>1, RestFacts DEF ReportInv, NotBegun, FirstInHand, LastInHand
<1>3. PICK p \in Cells : /\ Told(behind, text_mem, p) /\ p < cursor
                         /\ p >= cursor - CGA_TEXT_COLUMNS - 1
  BY <1>1, <1>2 DEF EndInHand
<1>4. p >= cursor - 2 * CGA_TEXT_COLUMNS
  BY <1>3, Columns, ScreenSizes DEF Cells
<1>5. column = 0
  BY <1>1, <1>2 DEF EndInHand
<1>6. text_mem[p] = Last /\ IF behind THEN p % CGA_TEXT_COLUMNS = 0
                                      ELSE p >= 1 /\ text_mem[p - 1] = First
  BY <1>3 DEF Told, Begun
<1> QED
  BY <1>3, <1>4, <1>5, <1>6

-----------------------------------------------------------------------------
(* The theorems.                                                            *)

IInv == TypeOK /\ ShownInv /\ PortsInv /\ OnScreen

LEMMA Initial == Init => IInv
<1>1. Init => ShownInv
  BY DEF Init, ShownInv
<1> QED
  BY <1>1, InitTypes, InitPorts, InitOnScreen DEF IInv

LEMMA Inductive == IInv /\ [Next]_vars => IInv'
  BY StepTypes, StepShown, StepPorts, StepOnScreen DEF IInv

(* The inductive invariant holds in every state.                            *)
THEOREM Invariance == Spec => []IInv
  BY Initial, Inductive, PTL DEF Spec

(* Between calls, and when a handler has stopped the machine, the registers *)
(* of the CRT controller hold the place where the next character will go,   *)
(* whichever terminal wrote it and wherever an exception struck before.     *)
THEOREM SpecCursorShown == Spec => []CursorShown
<1>1. IInv => CursorShown
  BY RestFacts DEF IInv, ShownInv, CursorShown, Shown, Halted
<1> QED
  BY <1>1, Invariance, PTL

(* Both ports get the character of each call of kputchar once, whatever     *)
(* they say about being ready, and a tab with its four blanks; also the     *)
(* calls of a handler that struck in the middle of a tab.                   *)
THEOREM SpecPortsAgree == Spec => []PortsAgree
<1>1. IInv => PortsAgree
  BY PortsInvAgree DEF IInv
<1> QED
  BY <1>1, Invariance, PTL

(* On a screen of at least three lines of two columns, the message of a     *)
(* handler that has stopped the machine is on the screen above the cursor,  *)
(* wherever in printing it struck: whole, or, if it struck while the cursor *)
(* was behind the screen, all but its first glyph.                          *)
THEOREM SpecReportShown == LargeEnough => (Spec => []ReportShown)
<1> SUFFICES ASSUME LargeEnough PROVE Spec => []ReportShown
  OBVIOUS
<1>1. ReportInv /\ TypeOK /\ [Next]_vars => ReportInv'
  BY StepReport
<1>2. TypeOK /\ ReportInv => ReportShown
  BY ReportInvShown
<1>3. Spec => []TypeOK
  BY Invariance, PTL DEF IInv
<1> QED
  BY <1>1, <1>2, <1>3, InitReport, PTL DEF Spec

(* As long as nothing strikes, the code is a terminal: its text memory and  *)
(* cursor, taken at the end of the call in hand, take exactly the steps of  *)
(* module Screen.                                                           *)
THEOREM SpecImplementsScreen == Spec => ImplementsScreen
<1> DEFINE A == level' = "kernel" => S!Next \/ UNCHANGED S!vars
<1>1. IInv /\ IInv' /\ [Next]_vars => [A]_vars
  BY StepScreen DEF IInv, ScreenStep
<1> QED
  BY <1>1, InitScreen, Invariance, PTL DEF Spec, ImplementsScreen
-----------------------------------------------------------------------------
(* Kprintf: what is passed to kputchar, for any format of the directives    *)
(* the kernel has, any arguments and any sizes of the types.                *)

LEMMA Smallest ==
  ASSUME NEW T \in SUBSET Nat, T # {}
  PROVE  \E x \in T : \A y \in T : x <= y
<1> DEFINE R == {ss \in Nat \X Nat : ss[1] < ss[2]}
<1>1. IsWellFoundedOn(R, Nat)
  BY NatLessThanWellFounded DEF OpToRel
<1> HIDE DEF R
<1>2. PICK x \in T : \A y \in T : ~(<<y, x>> \in R)
  BY <1>1, WFMin
<1>3. \A y \in T : ~(y < x)
  BY <1>2 DEF R
<1> QED
  BY <1>3

LEMMA Induction ==
  ASSUME NEW T \in SUBSET Nat, 0 \in T, \A n \in T : n + 1 \in T
  PROVE  T = Nat
<1> SUFFICES ASSUME T # Nat PROVE FALSE
  OBVIOUS
<1>1. PICK x \in Nat \ T : \A y \in Nat \ T : x <= y
  BY Smallest
<1>2. x - 1 \in Nat /\ ~(x <= x - 1)
  BY <1>1
<1>3. x - 1 \in T
  BY <1>1, <1>2
<1> QED
  BY <1>1, <1>3

LEMMA Monotone ==
  ASSUME NEW a \in Nat, NEW b \in Nat, NEW s \in Nat, a <= b
  PROVE  a * s <= b * s
<1>1. PICK c \in Nat : b = a + c
  <2>1. b - a \in Nat /\ b = a + (b - a)
    OBVIOUS
  <2> QED
    BY <2>1
<1>2. b * s = a * s + c * s /\ c * s \in Nat /\ a * s \in Nat
  BY <1>1
<1> QED
  BY <1>2

-----------------------------------------------------------------------------
(* Division.                                                                *)

LEMMA Divided ==
  ASSUME NEW d \in Nat \ {0}, NEW x \in Nat
  PROVE  /\ x \div d \in Nat /\ x % d \in Nat /\ x % d < d
         /\ (x \div d) * d \in Nat /\ x = (x \div d) * d + (x % d)
<1> DEFINE a == x \div d
           r == x % d
<1>1. a \in Nat /\ r \in 0 .. d - 1 /\ x = d * a + r
  OBVIOUS
<1> HIDE DEF a, r
<1>2. d * a = a * d /\ a * d \in Nat
  BY <1>1
<1> QED
  BY <1>1, <1>2 DEF a, r

LEMMA QuotientOf ==
  ASSUME NEW d \in Nat \ {0}, NEW x \in Nat, NEW q \in Nat, q * d <= x, x < (q + 1) * d
  PROVE  x \div d = q
<1> DEFINE a == x \div d
<1>1. a \in Nat /\ a * d \in Nat /\ a * d <= x /\ x < a * d + d
  BY Divided
<1> HIDE DEF a
<1>2. (a + 1) * d = a * d + d /\ (q + 1) * d = q * d + d /\ q * d \in Nat
  BY <1>1
<1>3. a + 1 \in Nat /\ q + 1 \in Nat /\ d \in Nat
  BY <1>1
<1>4. ~(a + 1 <= q)
  <2> SUFFICES ASSUME a + 1 <= q PROVE FALSE
    OBVIOUS
  <2>1. (a + 1) * d <= q * d
    BY <1>3, Monotone
  <2> QED
    BY <1>1, <1>2, <2>1
<1>5. ~(q + 1 <= a)
  <2> SUFFICES ASSUME q + 1 <= a PROVE FALSE
    OBVIOUS
  <2>1. (q + 1) * d <= a * d
    BY <1>1, <1>3, Monotone
  <2> QED
    BY <1>1, <1>2, <2>1
<1>6. a = q
  BY <1>1, <1>4, <1>5
<1> QED
  BY <1>6 DEF a

LEMMA DivideTwice ==
  ASSUME NEW x \in Nat, NEW c \in Nat \ {0}, NEW d \in Nat \ {0}
  PROVE  (x \div c) \div d = x \div (d * c)
<1> DEFINE y == x \div c
           q == y \div d
           e == d * c
<1>1. y \in Nat /\ y * c \in Nat /\ y * c <= x /\ x < y * c + c
  BY Divided
<1>2. q \in Nat /\ q * d \in Nat /\ q * d <= y /\ y < q * d + d
  BY <1>1, Divided
<1>3. e \in Nat \ {0}
  OBVIOUS
<1> HIDE DEF y, q, e
<1>4. q * e = (q * d) * c /\ (q + 1) * e = (q * d + d) * c
  <2>1. (q * d) * c = q * (d * c)
    BY <1>2
  <2>2. (q + 1) * (d * c) = q * (d * c) + d * c /\ (q * d + d) * c = (q * d) * c + d * c
    BY <1>2
  <2> QED
    BY <2>1, <2>2 DEF e
<1>5. q * e <= x
  <2>1. c \in Nat /\ q * d \in Nat /\ y \in Nat /\ q * d <= y
    BY <1>1, <1>2
  <2>2. (q * d) * c <= y * c /\ (q * d) * c \in Nat
    BY <2>1, Monotone
  <2> QED
    BY <1>1, <1>4, <2>2
<1>6. x < (q + 1) * e
  <2>1. y + 1 \in Nat /\ q * d + d \in Nat /\ y + 1 <= q * d + d /\ c \in Nat
    BY <1>1, <1>2
  <2>2. (y + 1) * c <= (q * d + d) * c
    BY <2>1, Monotone
  <2>3. (y + 1) * c = y * c + c /\ (q * d + d) * c \in Nat
    BY <1>1, <2>1
  <2> QED
    BY <1>1, <1>4, <2>2, <2>3
<1>7. x \div e = q
  BY <1>2, <1>3, <1>5, <1>6, QuotientOf
<1> QED
  BY <1>7 DEF q, e, y

LEMMA Within ==
  ASSUME NEW d \in Nat \ {0}, NEW x \in Nat, x < d
  PROVE  x % d = x /\ x \div d = 0
<1>1. 0 * d = 0 /\ (0 + 1) * d = d
  OBVIOUS
<1>2. x \div d = 0
  BY <1>1, QuotientOf
<1>3. x = (x \div d) * d + (x % d) /\ x % d \in Nat
  BY Divided
<1> QED
  BY <1>1, <1>2, <1>3

LEMMA AtLeast ==
  ASSUME NEW d \in Nat \ {0}, NEW x \in Nat
  PROVE  x \div d = 0 <=> x < d
<1>1. x < d => x \div d = 0
  BY Within
<1>2. ASSUME x \div d = 0 PROVE x < d
  <2>1. x = (x \div d) * d + (x % d) /\ x % d \in Nat /\ x % d < d
    BY Divided
  <2>2. (x \div d) * d = 0
    BY <1>2
  <2> DEFINE r == x % d
             y == (x \div d) * d
  <2>3. x = y + r /\ r \in Nat /\ r < d /\ y = 0
    BY <2>1, <2>2
  <2> HIDE DEF r, y
  <2> QED
    BY <2>3
<1> QED
  BY <1>1, <1>2

-----------------------------------------------------------------------------
(* Powers of the bases.                                                     *)
Bases == {10, 16}
Power(b, k) == b^k

LEMMA PowerIs ==
  ASSUME NEW b \in Bases
  PROVE  /\ b \in Nat /\ b >= 10 /\ b <= 16 /\ BUFFER \in Nat /\ BUFFER - 1 \in 0 .. BUFFER
         /\ Power(b, 0) = 1
         /\ \A k \in 0 .. BUFFER - 1 : k + 1 \in 0 .. BUFFER /\ Power(b, k + 1) = b * Power(b, k)
<1>1. b \in Nat /\ b >= 10 /\ b <= 16
  BY DEF Bases
<1>2. BUFFER \in Nat /\ BUFFER - 1 \in 0 .. BUFFER /\ \A k \in 0 .. BUFFER - 1 : k + 1 \in 0 .. BUFFER
  BY KprintfAssumption DEF Sizes
<1>3. Power(b, 0) = 1 /\ \A k \in 0 .. BUFFER - 1 : Power(b, k + 1) = b * Power(b, k)
  BY KprintfAssumption DEF Powers, Power, Bases
<1> QED
  BY <1>1, <1>2, <1>3

LEMMA PowerNat ==
  ASSUME NEW b \in Bases
  PROVE  \A k \in 0 .. BUFFER : Power(b, k) \in Nat \ {0}
<1> DEFINE T == {k \in Nat : k <= BUFFER => Power(b, k) \in Nat \ {0}}
<1>1. /\ b \in Nat /\ b >= 10 /\ BUFFER \in Nat /\ Power(b, 0) = 1
      /\ \A k \in 0 .. BUFFER - 1 : Power(b, k + 1) = b * Power(b, k)
  BY PowerIs
<1>2. 0 \in T
  BY <1>1
<1>3. ASSUME NEW k \in T PROVE k + 1 \in T
  <2>1. k \in Nat
    OBVIOUS
  <2>2. ASSUME k + 1 <= BUFFER PROVE Power(b, k + 1) \in Nat \ {0}
    <3> DEFINE y == Power(b, k)
    <3>1. y \in Nat \ {0} /\ Power(b, k + 1) = b * y
      BY <1>1, <2>1, <2>2
    <3> HIDE DEF y
    <3> QED
      BY <1>1, <3>1
  <2> QED
    BY <2>1, <2>2
<1> HIDE DEF T
<1>4. T = Nat
  BY <1>2, <1>3, Induction DEF T
<1> QED
  BY <1>4 DEF T

LEMMA PowerUp ==
  ASSUME NEW b \in Bases, NEW j \in 0 .. BUFFER
  PROVE  \A k \in 0 .. BUFFER : j <= k => Power(b, j) <= Power(b, k)
<1> DEFINE T == {k \in Nat : k <= BUFFER /\ j <= k => Power(b, j) <= Power(b, k)}
<1>1. /\ b \in Nat /\ b >= 10 /\ BUFFER \in Nat
      /\ \A k \in 0 .. BUFFER - 1 : Power(b, k + 1) = b * Power(b, k)
      /\ \A k \in 0 .. BUFFER : Power(b, k) \in Nat \ {0}
  BY PowerIs, PowerNat
<1>2. 0 \in T
  BY <1>1
<1>3. ASSUME NEW k \in T PROVE k + 1 \in T
  <2>1. k \in Nat
    OBVIOUS
  <2>2. ASSUME k + 1 <= BUFFER, j <= k + 1 PROVE Power(b, j) <= Power(b, k + 1)
    <3> DEFINE x == Power(b, j)
               y == Power(b, k)
               z == Power(b, k + 1)
    <3>1. x \in Nat /\ y \in Nat /\ z \in Nat /\ z = b * y
      BY <1>1, <2>1, <2>2
    <3>2. y <= z
      <4> HIDE DEF y, z
      <4> QED
        BY <1>1, <3>1
    <3>3. j = k + 1 \/ x <= y
      BY <1>1, <2>1, <2>2
    <3> QED
      BY <3>1, <3>2, <3>3
  <2> QED
    BY <2>1, <2>2
<1> HIDE DEF T
<1>4. T = Nat
  BY <1>2, <1>3, Induction DEF T
<1> QED
  BY <1>4 DEF T

(* Words.                                                                   *)
Full(bits) == 2^bits
Half(bits) == 2^(bits - 1)

LEMMA WidthIs ==
  ASSUME NEW bits \in {INT, LONG}
  PROVE  Half(bits) \in Nat \ {0} /\ Full(bits) = 2 * Half(bits) /\ Full(bits) \in Nat \ {0}
<1>1. Half(bits) \in Nat \ {0} /\ Full(bits) = 2 * Half(bits)
  BY KprintfAssumption DEF Full, Half, Powers
<1> QED
  BY <1>1

LEMMA WordIs ==
         /\ Half(LONG) \in Nat \ {0} /\ Full(LONG) = 2 * Half(LONG) /\ Full(LONG) \in Nat \ {0}
         /\ Half(INT) \in Nat \ {0} /\ Full(INT) = 2 * Half(INT) /\ Full(INT) \in Nat \ {0}
         /\ Full(INT) <= Half(LONG)
         /\ \A w \in Words : w \in Nat /\ w < Full(LONG)
         /\ \A b \in Bases : Full(LONG) <= Power(b, BUFFER - 1)
<1>1. Full(INT) <= Half(LONG) /\ \A b \in Bases : Full(LONG) <= Power(b, BUFFER - 1)
  BY KprintfAssumption DEF Full, Half, Bases, Power, Powers, Sizes
<1>2. \A w \in Words : w \in 0 .. Full(LONG) - 1
  BY KprintfAssumption DEF Full, Sizes
<1> QED
  BY <1>1, <1>2, WidthIs

LEMMA SignedIs ==
  ASSUME NEW bits \in {INT, LONG}, NEW w \in Nat
  PROVE  LET v == Signed(w, bits)
             u == w % Full(bits)
         IN  /\ v \in Int /\ -Half(bits) <= v /\ v < Half(bits)
             /\ u < Half(bits) => v = u
             /\ u = Half(bits) => v = -Half(bits)
             /\ v = -Half(bits) => u = Half(bits)
             /\ u \in Nat /\ u < Full(bits)
<1> DEFINE u == w % Full(bits)
           h == Half(bits)
           f == Full(bits)
           v == Signed(w, bits)
<1>1. h \in Nat \ {0} /\ f = 2 * h /\ f \in Nat \ {0}
  BY WidthIs
<1>2. u \in Nat /\ u < f
  BY <1>1, Divided
<1>3. v = IF u >= h THEN u - f ELSE u
  BY DEF Signed, Full, Half
<1> HIDE DEF u, h, f, v
<1>4. /\ v \in Int /\ -h <= v /\ v < h
      /\ u < h => v = u
      /\ u = h => v = -h
      /\ v = -h => u = h
  BY <1>1, <1>2, <1>3
<1> QED
  BY <1>2, <1>4 DEF u, h, f, v

Abs(v) == IF v < 0 THEN -v ELSE v

LEMMA MagnitudeIs ==
  ASSUME NEW v \in Int, -Half(LONG) <= v, v < Full(LONG)
  PROVE  LET m == Magnitude(v)
         IN  /\ m \in Int /\ Abs(m) < Full(LONG)
             /\ v # -Half(LONG) => m = Abs(v) /\ m \in Nat
             /\ v = -Half(LONG) => m = v
<1> DEFINE h == Half(LONG)
           f == Full(LONG)
           m == Magnitude(v)
<1>1. h \in Nat \ {0} /\ f = 2 * h /\ f \in Nat \ {0}
  BY WordIs
<1>2. CASE v >= 0
  <2>1. m = v
    BY <1>2 DEF Magnitude
  <2> HIDE DEF m
  <2>2. v # -h
    BY <1>1, <1>2
  <2> QED
    BY <1>2, <2>1, <2>2 DEF Abs, m, h
<1>3. CASE v < 0
  <2> DEFINE d == (f - v) % f
             z == Signed(d, LONG)
  <2>1. m = z
    BY <1>3 DEF Magnitude, Negated, Full
  <2> DEFINE a == -v
  <2>2. a \in Nat /\ a <= h /\ a < f
    BY <1>1, <1>3
  <2>3. d = a
    <3> HIDE DEF f, h
    <3>1. f - v = f + a /\ f + a \in Nat
      BY <1>1, <2>2
    <3>2. 1 * f = f /\ (1 + 1) * f = f + f
      BY <1>1
    <3> HIDE DEF a
    <3>3. (f + a) \div f = 1
      <4>1. 1 * f <= f + a /\ f + a < (1 + 1) * f
        BY <1>1, <2>2, <3>2
      <4> QED
        BY <1>1, <2>2, <3>1, <4>1, QuotientOf
    <3>4. f + a = ((f + a) \div f) * f + ((f + a) % f) /\ (f + a) % f \in Nat
      BY <1>1, <3>1, Divided
    <3> DEFINE r == (f + a) % f
    <3>5. f + a = f + r /\ r \in Nat
      BY <3>2, <3>3, <3>4
    <3> HIDE DEF r
    <3>6. a = r
      BY <1>1, <2>2, <3>5
    <3> QED
      BY <3>1, <3>6 DEF r
  <2>4. a % f = a
    <3> HIDE DEF a, f
    <3> QED
      BY <1>1, <2>2, Within
  <2> HIDE DEF d
  <2>5. /\ z \in Int /\ -h <= z /\ z < h
        /\ d % f < h => z = d % f
        /\ d % f = h => z = -h
    BY <2>2, <2>3, SignedIs
  <2>6. /\ z \in Int /\ -h <= z /\ z < h /\ (a < h => z = a) /\ (a = h => z = -h)
    BY <2>3, <2>4, <2>5
  <2> HIDE DEF z, h, f, m
  <2>7. m \in Int /\ Abs(m) < f
    BY <1>1, <2>1, <2>6 DEF Abs
  <2>8. v # -h => m = Abs(v) /\ m \in Nat
    BY <1>1, <1>3, <2>1, <2>2, <2>6 DEF Abs
  <2>9. v = -h => m = v
    BY <1>1, <2>1, <2>2, <2>6
  <2> QED
    BY <2>7, <2>8, <2>9 DEF h, f, m
<1> QED
  BY <1>2, <1>3

-----------------------------------------------------------------------------
(* A number and its digits.                                                 *)

LEMMA Joined ==
  ASSUME NEW Set, NEW s \in Seq(Set), NEW t \in Seq(Set)
  PROVE  /\ s \o t \in Seq(Set) /\ Len(s \o t) = Len(s) + Len(t)
         /\ Len(s) \in Nat /\ Len(t) \in Nat
         /\ DOMAIN s = 1 .. Len(s) /\ DOMAIN t = 1 .. Len(t)
         /\ DOMAIN (s \o t) = 1 .. Len(s) + Len(t)
         /\ \A j \in 1 .. Len(s) : (s \o t)[j] = s[j]
         /\ \A j \in 1 .. Len(t) : (s \o t)[Len(s) + j] = t[j]
<1> DEFINE u == s \o t
<1>1. /\ u \in Seq(Set) /\ Len(u) = Len(s) + Len(t)
      /\ \A j \in 1 .. Len(u) : u[j] = IF j <= Len(s) THEN s[j] ELSE t[j - Len(s)]
  BY ConcatProperties
<1>2. /\ Len(s) \in Nat /\ Len(t) \in Nat /\ DOMAIN s = 1 .. Len(s) /\ DOMAIN t = 1 .. Len(t)
      /\ DOMAIN u = 1 .. Len(u)
  BY <1>1
<1> HIDE DEF u
<1>3. \A j \in 1 .. Len(s) : u[j] = s[j]
  BY <1>1, <1>2
<1>4. ASSUME NEW j \in 1 .. Len(t)
      PROVE  u[Len(s) + j] = t[j]
  <2> DEFINE a == Len(s)
  <2>1. a \in Nat /\ j \in Nat /\ ~(a + j <= a) /\ (a + j) - a = j /\ a + j \in 1 .. Len(u)
    BY <1>1, <1>2
  <2> QED
    BY <1>1, <2>1
<1> QED
  BY <1>1, <1>2, <1>3, <1>4 DEF u

DigitsOf(A, ds, v, b) ==
  /\ v = A \div Power(b, Len(ds))
  /\ \A j \in 1 .. Len(ds) : ds[j] = Digit((A \div Power(b, Len(ds) - j)) % b)
  /\ Len(ds) > 1 => A \div Power(b, Len(ds) - 1) # 0

Fits(ds, v, b) == /\ ds \in Seq(Int) /\ Len(ds) + 1 <= BUFFER /\ v \in Int
                  /\ Abs(v) * Power(b, Len(ds)) < Full(LONG)

LEMMA QuotientIs ==
  ASSUME NEW b \in Bases, NEW v \in Int
  PROVE  LET q == Quotient(v, b)
         IN  /\ q \in Int /\ Abs(q) \in Nat /\ Abs(v) \in Nat /\ Abs(q) * b <= Abs(v)
             /\ v \in Nat => q = v \div b /\ Remainder(v, b) = v % b
             /\ Remainder(v, b) \in Int
<1>1. b \in Nat \ {0}
  BY DEF Bases
<1>2. CASE v >= 0
  <2> DEFINE q == v \div b
  <2>1. v \in Nat /\ Quotient(v, b) = q
    BY <1>2 DEF Quotient
  <2>2. q \in Nat /\ q * b \in Nat /\ q * b <= v /\ v = q * b + (v % b) /\ v % b \in Nat
    BY <1>1, <2>1, Divided
  <2>3. Remainder(v, b) = v - b * q
    BY <2>1 DEF Remainder
  <2> DEFINE r == v % b
  <2> HIDE DEF q, r
  <2>4. v - b * q = r
    <3>1. b * q = q * b
      BY <1>1, <2>2
    <3>2. v = q * b + r /\ r \in Nat
      BY <2>2 DEF r
    <3> QED
      BY <2>2, <3>1, <3>2
  <2>5. Abs(q) = q /\ Abs(v) = v
    BY <1>2, <2>2 DEF Abs
  <2> QED
    BY <2>1, <2>2, <2>3, <2>4, <2>5 DEF q, r
<1>3. CASE v < 0
  <2> DEFINE a == -v
             q == a \div b
  <2>1. a \in Nat /\ Quotient(v, b) = -q /\ Abs(v) = a
    BY <1>3 DEF Quotient, Abs
  <2>2. q \in Nat /\ q * b \in Nat /\ q * b <= a
    BY <1>1, <2>1, Divided
  <2>3. Remainder(v, b) = v - b * (-q)
    BY <2>1 DEF Remainder
  <2> HIDE DEF q
  <2>4. Abs(-q) = q /\ -q \in Int /\ v - b * (-q) \in Int
    BY <1>1, <2>2 DEF Abs
  <2>5. ~(v \in Nat)
    BY <1>3
  <2> QED
    BY <2>1, <2>2, <2>3, <2>4, <2>5
<1> QED
  BY <1>2, <1>3

LEMMA DigitStep ==
  ASSUME NEW b \in Bases, NEW v, NEW ds, Fits(ds, v, b),
         v # 0 \/ ds = <<>>
  PROVE  LET q == Quotient(v, b)
             es == <<Digit(Remainder(v, b))>> \o ds
         IN  /\ Fits(es, q, b) /\ es # <<>>
             /\ \A A \in Nat : DigitsOf(A, ds, v, b) => DigitsOf(A, es, q, b)
<1> DEFINE q == Quotient(v, b)
           d == Digit(Remainder(v, b))
           es == <<d>> \o ds
           m == Len(ds)
           x == Power(b, m)
           y == Power(b, m + 1)
<1>1. /\ ds \in Seq(Int) /\ m + 1 <= BUFFER /\ v \in Int /\ Abs(v) * x < Full(LONG)
  BY DEF Fits
<1>2. m \in Nat
  BY <1>1
<1>3. /\ b \in Nat \ {0} /\ BUFFER \in Nat /\ b >= 10 /\ BUFFER - 1 \in 0 .. BUFFER
      /\ m \in 0 .. BUFFER - 1
  BY <1>1, <1>2, PowerIs
<1>4. x \in Nat \ {0} /\ y \in Nat \ {0} /\ y = b * x
  <2>1. m \in 0 .. BUFFER /\ m + 1 \in 0 .. BUFFER
    BY <1>2, <1>3
  <2> QED
    BY <1>3, <2>1, PowerIs, PowerNat
<1>5. /\ q \in Int /\ Abs(q) \in Nat /\ Abs(v) \in Nat /\ Abs(q) * b <= Abs(v)
      /\ v \in Nat => q = v \div b /\ Remainder(v, b) = v % b
      /\ Remainder(v, b) \in Int
  BY <1>1, QuotientIs
<1>6. d \in Int
  <2> DEFINE r == Remainder(v, b)
  <2> HIDE DEF r
  <2>1. r \in Int => Digit(r) \in Int
    BY DEF Digit, cA, c0
  <2> QED
    BY <1>5, <2>1 DEF r
<1> HIDE DEF q, d
<1>7. /\ es \in Seq(Int) /\ Len(es) = m + 1 /\ es[1] = d
      /\ \A j \in 1 .. m : es[1 + j] = ds[j]
  <2>1. <<d>> \in Seq(Int) /\ Len(<<d>>) = 1 /\ <<d>>[1] = d
    BY <1>6
  <2> DEFINE s == <<d>>
  <2> HIDE DEF s
  <2>2. /\ s \o ds \in Seq(Int) /\ Len(s \o ds) = 1 + m
        /\ \A j \in 1 .. 1 : (s \o ds)[j] = s[j]
        /\ \A j \in 1 .. m : (s \o ds)[1 + j] = ds[j]
    BY <1>1, <2>1, Joined DEF s
  <2>3. (s \o ds)[1] = d
    BY <2>1, <2>2 DEF s
  <2> HIDE DEF m
  <2> QED
    BY <1>2, <2>2, <2>3 DEF s
<1> HIDE DEF es
<1>8. Len(es) + 1 <= BUFFER
  <2>1. CASE ds = <<>>
    <3>1. m = 0
      BY <2>1
    <3>2. BUFFER >= 2
      BY KprintfAssumption DEF Sizes
    <3> QED
      BY <1>3, <1>7, <3>1, <3>2
  <2>2. CASE v # 0
    <3>1. Abs(v) >= 1
      BY <1>1, <2>2 DEF Abs
    <3> DEFINE a == Abs(v)
    <3>2. x <= a * x
      <4>1. 1 <= a /\ a \in Nat /\ 1 \in Nat /\ x \in Nat
        BY <1>4, <1>5, <3>1
      <4> HIDE DEF a, x
      <4>2. 1 * x <= a * x
        BY <4>1, Monotone
      <4> QED
        BY <4>1, <4>2
    <3>3. x < Full(LONG)
      <4>1. a * x \in Nat /\ Full(LONG) \in Nat
        BY <1>4, <1>5, WordIs
      <4> HIDE DEF a, x
      <4> QED
        BY <1>1, <1>4, <3>2, <4>1 DEF a, x
    <3>4. Full(LONG) <= Power(b, BUFFER - 1) /\ Full(LONG) \in Nat
      BY WordIs
    <3>5. m # BUFFER - 1
      <4> SUFFICES ASSUME m = BUFFER - 1 PROVE FALSE
        OBVIOUS
      <4>1. x = Power(b, BUFFER - 1)
        OBVIOUS
      <4> HIDE DEF x, m
      <4> QED
        BY <1>4, <3>3, <3>4, <4>1
    <3> HIDE DEF m
    <3> QED
      BY <1>2, <1>3, <1>7, <3>5
  <2> QED
    BY <2>1, <2>2
<1>9. Abs(q) * Power(b, Len(es)) < Full(LONG)
  <2> DEFINE a == Abs(v)
             c == Abs(q)
  <2>1. a \in Nat /\ c \in Nat /\ c * b \in Nat /\ c * b <= a
    BY <1>3, <1>5
  <2> HIDE DEF a, c, x, y
  <2>2. c * y = (c * b) * x
    BY <1>3, <1>4, <2>1
  <2>3. (c * b) * x <= a * x
    BY <1>4, <2>1, Monotone
  <2>4. a * x \in Nat /\ (c * b) * x \in Nat /\ Full(LONG) \in Nat
    BY <1>4, <2>1, WordIs
  <2>5. a * x < Full(LONG)
    BY <1>1 DEF a, x
  <2>6. c * y < Full(LONG)
    BY <2>2, <2>3, <2>4, <2>5
  <2> QED
    BY <1>7, <2>6 DEF c, y
<1>10. es # <<>>
  <2> SUFFICES ASSUME es = <<>> PROVE FALSE
    OBVIOUS
  <2>1. Len(es) = 0
    OBVIOUS
  <2> HIDE DEF m
  <2> QED
    BY <1>2, <1>7, <2>1
<1>11. ASSUME NEW A \in Nat, DigitsOf(A, ds, v, b)
       PROVE  DigitsOf(A, es, q, b)
  <2>1. /\ v = A \div x
        /\ \A j \in 1 .. m : ds[j] = Digit((A \div Power(b, m - j)) % b)
    BY <1>11 DEF DigitsOf
  <2>2. A \div x \in Nat
    BY <1>4, Divided
  <2>3. q = A \div y
    <3> HIDE DEF x, y
    <3>1. q = (A \div x) \div b
      BY <1>5, <2>1, <2>2
    <3> QED
      BY <1>3, <1>4, <3>1, DivideTwice
  <2>4. d = Digit((A \div x) % b)
    BY <1>5, <2>1, <2>2 DEF d
  <2>5. ASSUME NEW j \in 1 .. m + 1
        PROVE  es[j] = Digit((A \div Power(b, (m + 1) - j)) % b)
    <3>1. CASE j = 1
      <4>1. (m + 1) - j = m
        BY <1>2, <3>1
      <4> HIDE DEF m
      <4> QED
        BY <1>7, <2>4, <3>1, <4>1
    <3>2. CASE j # 1
      <4> DEFINE k == j - 1
      <4>1. k \in 1 .. m /\ j = 1 + k /\ (m + 1) - j = m - k
        BY <1>2, <3>2
      <4> HIDE DEF m, k
      <4> QED
        BY <1>7, <2>1, <4>1
    <3> QED
      BY <3>1, <3>2
  <2>6. m + 1 > 1 => A \div Power(b, (m + 1) - 1) # 0
    <3> SUFFICES ASSUME m + 1 > 1 PROVE A \div Power(b, (m + 1) - 1) # 0
      OBVIOUS
    <3>1. m > 0 /\ (m + 1) - 1 = m
      BY <1>2
    <3>2. ds # <<>>
      BY <3>1
    <3> HIDE DEF m
    <3> QED
      BY <2>1, <3>1, <3>2 DEF x
  <2> HIDE DEF m
  <2> QED
    BY <1>7, <2>3, <2>5, <2>6 DEF DigitsOf, y
<1>12. Fits(es, q, b)
  BY <1>5, <1>7, <1>8, <1>9 DEF Fits
<1> QED
  BY <1>10, <1>11, <1>12 DEF es, q, d

(* The digits there are when nothing is left to divide are the numeral.     *)
LEMMA NumeralIs ==
  ASSUME NEW b \in Bases, NEW A \in Nat, NEW ds,
         Fits(ds, 0, b), ds # <<>>, DigitsOf(A, ds, 0, b)
  PROVE  Numeral(A, b) = ds
<1> DEFINE m == Len(ds)
           Cond(k) == A < Power(b, k) /\ (k = 1 \/ A >= Power(b, k - 1))
           g(k) == [j \in 1 .. k |-> Digit((A \div Power(b, k - j)) % b)]
<1>1. ds \in Seq(Int) /\ m + 1 <= BUFFER /\ m \in Nat /\ m # 0
  BY DEF Fits
<1>2. /\ BUFFER \in Nat /\ b \in Nat \ {0}
      /\ \A k \in 0 .. BUFFER : Power(b, k) \in Nat \ {0}
  BY PowerIs, PowerNat
<1>3. A \div Power(b, m) = 0 /\ (m > 1 => A \div Power(b, m - 1) # 0)
      /\ \A j \in 1 .. m : ds[j] = Digit((A \div Power(b, m - j)) % b)
  BY DEF DigitsOf
<1>4. Numeral(A, b) = LET k == CHOOSE k \in 1 .. BUFFER : Cond(k)
                        IN  [j \in 1 .. k |-> LET y == (A \div Power(b, k - j)) % b
                                              IN  IF y < 10 THEN y + c0 ELSE y - 10 + cA]
  BY DEF Numeral, Power
<1> HIDE DEF m
<1>5. m \in 1 .. BUFFER /\ m \in 0 .. BUFFER /\ m - 1 \in 0 .. BUFFER
  BY <1>1, <1>2
<1>6. Cond(m)
  <2>1. A < Power(b, m)
    BY <1>2, <1>3, <1>5, AtLeast
  <2>2. ASSUME m # 1 PROVE A >= Power(b, m - 1)
    <3>1. A \div Power(b, m - 1) # 0 /\ Power(b, m - 1) \in Nat \ {0}
      BY <1>1, <1>2, <1>3, <1>5, <2>2
    <3> QED
      BY <3>1, AtLeast
  <2> QED
    BY <2>1, <2>2
<1>7. ASSUME NEW k \in 1 .. BUFFER, Cond(k)
      PROVE  k = m
  <2>1. k \in 0 .. BUFFER /\ k - 1 \in 0 .. BUFFER /\ k \in Nat
    BY <1>2
  <2>2. ~(k < m)
    <3> SUFFICES ASSUME k < m PROVE FALSE
      OBVIOUS
    <3>1. k <= m - 1 /\ m # 1
      BY <1>1, <2>1
    <3>2. Power(b, k) <= Power(b, m - 1)
      BY <1>5, <2>1, <3>1, PowerUp
    <3>3. A < Power(b, k) /\ A >= Power(b, m - 1) /\ Power(b, k) \in Nat /\ Power(b, m - 1) \in Nat
      BY <1>2, <1>5, <1>6, <1>7, <2>1, <3>1
    <3> QED
      BY <3>2, <3>3
  <2>3. ~(m < k)
    <3> SUFFICES ASSUME m < k PROVE FALSE
      OBVIOUS
    <3>1. m <= k - 1 /\ k # 1
      BY <1>1, <2>1
    <3>2. Power(b, m) <= Power(b, k - 1)
      BY <1>5, <2>1, <3>1, PowerUp
    <3>3. A < Power(b, m) /\ A >= Power(b, k - 1) /\ Power(b, m) \in Nat /\ Power(b, k - 1) \in Nat
      BY <1>2, <1>5, <1>6, <1>7, <2>1, <3>1
    <3> QED
      BY <3>2, <3>3
  <2> QED
    BY <1>1, <2>1, <2>2, <2>3
<1>8. (CHOOSE k \in 1 .. BUFFER : Cond(k)) = m
  <2> HIDE DEF Cond
  <2> QED
    BY <1>5, <1>6, <1>7
<1> HIDE DEF Cond
<1>9. Numeral(A, b) = [j \in 1 .. m |-> LET y == (A \div Power(b, m - j)) % b
                                          IN  IF y < 10 THEN y + c0 ELSE y - 10 + cA]
  BY <1>4, <1>8
<1>10. ASSUME NEW j \in 1 .. m
       PROVE  ds[j] = LET y == (A \div Power(b, m - j)) % b
                      IN  IF y < 10 THEN y + c0 ELSE y - 10 + cA
  <2> DEFINE y == (A \div Power(b, m - j)) % b
  <2>1. m - j \in 0 .. BUFFER
    BY <1>1, <1>2
  <2>2. Power(b, m - j) \in Nat \ {0}
    BY <1>2, <2>1
  <2>3. A \div Power(b, m - j) \in Nat
    BY <2>2, Divided
  <2>4. y \in Nat
    BY <1>2, <2>3, Divided
  <2>5. ds[j] = Digit(y)
    BY <1>3
  <2> HIDE DEF y
  <2>6. Digit(y) = IF y < 10 THEN y + c0 ELSE y - 10 + cA
    BY <2>4 DEF Digit
  <2> QED
    BY <2>5, <2>6 DEF y
<1>11. ds = [j \in 1 .. m |-> ds[j]]
  BY <1>1 DEF m
<1> QED
  BY <1>9, <1>10, <1>11

LEMMA Prefixed ==
  ASSUME NEW x \in Int, NEW ds \in Seq(Int)
  PROVE  /\ <<x>> \o ds \in Seq(Int) /\ Len(<<x>> \o ds) = 1 + Len(ds)
         /\ (<<x>> \o ds)[1] = x
         /\ \A j \in 1 .. Len(ds) : (<<x>> \o ds)[1 + j] = ds[j]
<1> DEFINE s == <<x>>
<1>1. s \in Seq(Int) /\ Len(s) = 1 /\ s[1] = x
  OBVIOUS
<1> HIDE DEF s
<1>2. /\ s \o ds \in Seq(Int) /\ Len(s \o ds) = 1 + Len(ds)
      /\ \A j \in 1 .. 1 : (s \o ds)[j] = s[j]
      /\ \A j \in 1 .. Len(ds) : (s \o ds)[1 + j] = ds[j]
  BY <1>1, Joined DEF s
<1>3. (s \o ds)[1] = x
  BY <1>1, <1>2
<1> QED
  BY <1>1, <1>2, <1>3 DEF s

(* Digits counted down from 0: those of the smallest number.                *)
LEMMA MirrorIs ==
  ASSUME NEW ds \in Seq(Int)
  PROVE  /\ Mirrored(ds) \in Seq(Int) /\ Len(Mirrored(ds)) = Len(ds)
         /\ DOMAIN Mirrored(ds) = 1 .. Len(ds)
         /\ \A j \in 1 .. Len(ds) : Mirrored(ds)[j] = 2 * c0 - ds[j]
         /\ Mirrored(Mirrored(ds)) = ds
         /\ Mirrored(ds) = <<>> <=> ds = <<>>
<1> DEFINE m == Mirrored(ds)
           L == Len(ds)
<1>1. L \in Nat /\ DOMAIN ds = 1 .. L /\ \A j \in 1 .. L : ds[j] \in Int
  OBVIOUS
<1>2. m = [j \in 1 .. L |-> 2 * c0 - ds[j]]
  BY DEF Mirrored
<1>3. \A j \in 1 .. L : 2 * c0 - ds[j] \in Int /\ 2 * c0 - (2 * c0 - ds[j]) = ds[j]
  BY <1>1 DEF c0
<1> HIDE DEF m, L
<1>4. m \in [1 .. L -> Int] /\ DOMAIN m = 1 .. L
  BY <1>2, <1>3
<1>5. m \in Seq(Int) /\ Len(m) = L
  BY <1>1, <1>4
<1>6. Mirrored(m) = [j \in 1 .. L |-> 2 * c0 - m[j]]
  BY <1>4 DEF Mirrored
<1>7. \A j \in 1 .. L : 2 * c0 - m[j] = ds[j]
  BY <1>2, <1>3
<1>8. ds = [j \in 1 .. L |-> ds[j]]
  BY <1>1 DEF L
<1>9. Mirrored(m) = ds
  BY <1>6, <1>7, <1>8
<1>10. m = <<>> <=> ds = <<>>
  BY <1>1, <1>5 DEF L
<1> QED
  BY <1>2, <1>4, <1>5, <1>9, <1>10 DEF m, L

(* Magnitudes and digits, counted up or down.                               *)
Numbered(down, A, b) == IF down THEN Mirrored(Numeral(A, b)) ELSE Numeral(A, b)
Counting(down, A, ds, v, b) ==
  IF down THEN b = 10 /\ DigitsOf(A, Mirrored(ds), -v, b) ELSE DigitsOf(A, ds, v, b)

LEMMA DownStep ==
  ASSUME NEW v, NEW ds, Fits(ds, v, 10), v # 0 \/ ds = <<>>,
         NEW A \in Nat, DigitsOf(A, Mirrored(ds), -v, 10)
  PROVE  DigitsOf(A, Mirrored(<<Digit(Remainder(v, 10))>> \o ds), -Quotient(v, 10), 10)
<1> DEFINE ms == Mirrored(ds)
           u == -v
           q == Quotient(u, 10)
           r == Remainder(u, 10)
           es == <<Digit(Remainder(v, 10))>> \o ds
<1>1. /\ ds \in Seq(Int) /\ Len(ds) + 1 <= BUFFER /\ v \in Int
      /\ Abs(v) * Power(10, Len(ds)) < Full(LONG)
  BY DEF Fits
<1>2. 10 \in Bases
  BY DEF Bases
<1>3. ms \in Seq(Int) /\ Len(ms) = Len(ds) /\ (ms = <<>> <=> ds = <<>>)
      /\ \A j \in 1 .. Len(ds) : ms[j] = 2 * c0 - ds[j]
  BY <1>1, MirrorIs
<1>4. Fits(ms, u, 10) /\ (u # 0 \/ ms = <<>>)
  <2>1. Abs(u) = Abs(v) /\ u \in Int /\ (v # 0 => u # 0)
    BY <1>1 DEF Abs
  <2> HIDE DEF u, ms
  <2> QED
    BY <1>1, <1>3, <2>1 DEF Fits
<1>5. u \in Nat
  <2>1. u = A \div Power(10, Len(ms))
    BY DEF DigitsOf
  <2>2. Len(ms) \in 0 .. BUFFER
    <3>1. BUFFER \in Nat /\ Len(ds) \in Nat
      BY <1>1, <1>2, PowerIs
    <3> QED
      BY <1>1, <1>3, <3>1
  <2>3. Power(10, Len(ms)) \in Nat \ {0}
    BY <1>2, <2>2, PowerNat
  <2> QED
    BY <2>1, <2>3, Divided
<1>6. DigitsOf(A, <<Digit(r)>> \o ms, q, 10)
  <2> HIDE DEF ms, u
  <2> QED
    BY <1>2, <1>4, DigitStep DEF ms, u
<1>7. /\ q = u \div 10 /\ r = u % 10
  BY <1>2, <1>5, QuotientIs
<1>8. Quotient(v, 10) = -q
  <2>1. CASE v < 0
    <3>1. Quotient(v, 10) = -((-v) \div 10)
      BY <1>1, <2>1 DEF Quotient
    <3> QED
      BY <1>7, <3>1
  <2>2. CASE v >= 0
    <3>1. v = 0 /\ u = 0
      BY <1>1, <1>5, <2>2
    <3> QED
      <4>1. Quotient(0, 10) = 0
        BY DEF Quotient
      <4> QED
        BY <3>1, <4>1
  <2> QED
    BY <1>1, <2>1, <2>2
<1>9. q \in Nat /\ r \in Nat /\ r < 10 /\ Remainder(v, 10) = -r
  <2>1. q \in Nat /\ r \in Nat /\ r < 10
    BY <1>5, <1>7
  <2>2. Remainder(v, 10) = v - 10 * (-q) /\ r = u - 10 * q
    BY <1>8 DEF Remainder
  <2> HIDE DEF q, r
  <2> QED
    BY <1>1, <2>1, <2>2
<1>10. Digit(Remainder(v, 10)) = 2 * c0 - Digit(r) /\ Digit(r) \in Int
       /\ Digit(Remainder(v, 10)) \in Int
  <2> HIDE DEF r
  <2> QED
    BY <1>9 DEF Digit, c0
<1>11. Mirrored(es) = <<Digit(r)>> \o ms
  <2> DEFINE a == Digit(Remainder(v, 10))
             c == Digit(r)
             fs == <<c>> \o ms
             L == Len(ds)
  <2>1. a \in Int /\ c \in Int /\ a = 2 * c0 - c /\ 2 * c0 - a = c
    BY <1>10 DEF c0
  <2> HIDE DEF a, c, ms
  <2>2. es \in Seq(Int) /\ Len(es) = 1 + L /\ es[1] = a
        /\ \A j \in 1 .. L : es[1 + j] = ds[j]
    <3>1. /\ <<a>> \o ds \in Seq(Int) /\ Len(<<a>> \o ds) = 1 + Len(ds)
          /\ (<<a>> \o ds)[1] = a
          /\ \A k \in 1 .. Len(ds) : (<<a>> \o ds)[1 + k] = ds[k]
      BY <1>1, <2>1, Prefixed
    <3> QED
      BY <3>1 DEF a
  <2>3. fs \in Seq(Int) /\ Len(fs) = 1 + L /\ fs[1] = c
        /\ \A j \in 1 .. L : fs[1 + j] = ms[j]
    <3>1. /\ <<c>> \o ms \in Seq(Int) /\ Len(<<c>> \o ms) = 1 + Len(ms)
          /\ (<<c>> \o ms)[1] = c
          /\ \A k \in 1 .. Len(ms) : (<<c>> \o ms)[1 + k] = ms[k]
      BY <1>3, <2>1, Prefixed
    <3> QED
      BY <1>3, <3>1
  <2> HIDE DEF es, fs
  <2>4. Mirrored(es) \in Seq(Int) /\ Len(Mirrored(es)) = 1 + L
        /\ \A j \in 1 .. 1 + L : Mirrored(es)[j] = 2 * c0 - es[j]
    BY <2>2, MirrorIs
  <2>5. L \in Nat
    BY <1>1
  <2>6. ASSUME NEW j \in 1 .. 1 + L PROVE Mirrored(es)[j] = fs[j]
    <3>1. CASE j = 1
      BY <2>1, <2>2, <2>3, <2>4, <3>1
    <3>2. CASE j # 1
      <4> DEFINE k == j - 1
      <4>1. k \in 1 .. L /\ j = 1 + k
        BY <2>5, <3>2
      <4> HIDE DEF k
      <4> QED
        BY <1>3, <2>2, <2>3, <2>4, <4>1
    <3> QED
      BY <3>1, <3>2
  <2> HIDE DEF L
  <2>7. Mirrored(es) = fs
    <3> DEFINE x == Mirrored(es)
    <3> HIDE DEF x
    <3>1. x \in Seq(Int) /\ Len(x) = 1 + L /\ fs \in Seq(Int) /\ Len(fs) = 1 + L
          /\ \A j \in 1 .. 1 + L : x[j] = fs[j]
      BY <2>3, <2>4, <2>6 DEF x
    <3>2. x = fs
      BY <3>1
    <3> QED
      BY <3>2 DEF x
  <2> QED
    BY <2>7 DEF fs, c
<1>12. -Quotient(v, 10) = q
  BY <1>8, <1>9
<1> QED
  BY <1>6, <1>11, <1>12

LEMMA CountingStep ==
  ASSUME NEW b \in Bases, NEW v, NEW ds, Fits(ds, v, b), v # 0 \/ ds = <<>>,
         NEW down \in BOOLEAN, NEW A \in Nat, Counting(down, A, ds, v, b)
  PROVE  Counting(down, A, <<Digit(Remainder(v, b))>> \o ds, Quotient(v, b), b)
<1>1. CASE down
  BY <1>1, DownStep DEF Counting
<1>2. CASE ~down
  BY <1>2, DigitStep DEF Counting
<1> QED
  BY <1>1, <1>2

LEMMA NumberedIs ==
  ASSUME NEW b \in Bases, NEW A \in Nat, NEW down \in BOOLEAN, NEW ds,
         Fits(ds, 0, b), ds # <<>>, Counting(down, A, ds, 0, b)
  PROVE  Numbered(down, A, b) = ds
<1>1. CASE ~down
  BY <1>1, NumeralIs DEF Counting, Numbered
<1>2. CASE down
  <2> DEFINE ms == Mirrored(ds)
  <2>1. ds \in Seq(Int)
    BY DEF Fits
  <2>2. ms \in Seq(Int) /\ Len(ms) = Len(ds) /\ ms # <<>> /\ Mirrored(ms) = ds
    BY <2>1, MirrorIs
  <2>3. DigitsOf(A, ms, 0, b)
    BY <1>2 DEF Counting
  <2> HIDE DEF ms
  <2>4. Fits(ms, 0, b)
    BY <2>2 DEF Fits
  <2>5. Numeral(A, b) = ms
    BY <2>2, <2>3, <2>4, NumeralIs
  <2> QED
    BY <1>2, <2>2, <2>5 DEF Numbered
<1> QED
  BY <1>1, <1>2

-----------------------------------------------------------------------------
(* Sequences put together: FlattenSeq, a prefix at a time.                  *)
Flat(s) == CHOOSE f : f = [k \in 1 .. Len(s) |-> IF k = 1 THEN s[k] ELSE f[k - 1] \o s[k]]
Front(s, k) == IF k = 0 THEN <<>> ELSE Flat(s)[k]

(* A recursive function over the first m numbers.                           *)
LEMMA Flattened ==
  ASSUME NEW m \in Nat, NEW s
  PROVE  \E f : f = [k \in 1 .. m |-> IF k = 1 THEN s[k] ELSE f[k - 1] \o s[k]]
<1> DEFINE Is(f, x) == f = [k \in 1 .. x |-> IF k = 1 THEN s[k] ELSE f[k - 1] \o s[k]]
           T == {x \in Nat : \E f : Is(f, x)}
<1>1. 0 \in T
  <2> DEFINE e == [k \in 1 .. 0 |-> 0]
  <2>1. Is(e, 0)
    OBVIOUS
  <2> HIDE DEF e, Is
  <2> QED
    BY <2>1
<1>2. ASSUME NEW x \in T
      PROVE  x + 1 \in T
  <2>1. x \in Nat
    OBVIOUS
  <2>2. PICK f : Is(f, x)
    OBVIOUS
  <2> DEFINE y == IF x + 1 = 1 THEN s[x + 1] ELSE f[x] \o s[x + 1]
             g == [k \in 1 .. x + 1 |-> IF k = x + 1 THEN y ELSE f[k]]
  <2>3. \A k \in 1 .. x : f[k] = IF k = 1 THEN s[k] ELSE f[k - 1] \o s[k]
    BY <2>2
  <2>4. \A k \in 1 .. x : g[k] = f[k] /\ (k # 1 => g[k - 1] = f[k - 1])
    BY <2>1
  <2>5. g[x + 1] = IF x + 1 = 1 THEN s[x + 1] ELSE g[x] \o s[x + 1]
    BY <2>1, <2>4
  <2>6. (x + 1) - 1 = x /\ \A k \in 1 .. x + 1 : k = x + 1 \/ k \in 1 .. x
    BY <2>1
  <2>7. \A k \in 1 .. x + 1 : g[k] = IF k = 1 THEN s[k] ELSE g[k - 1] \o s[k]
    <3> SUFFICES ASSUME NEW k \in 1 .. x + 1
                 PROVE  g[k] = IF k = 1 THEN s[k] ELSE g[k - 1] \o s[k]
      OBVIOUS
    <3> HIDE DEF g, y
    <3>1. CASE k = x + 1
      BY <2>5, <2>6, <3>1
    <3>2. CASE k # x + 1
      BY <2>3, <2>4, <2>6, <3>2
    <3> QED
      BY <3>1, <3>2
  <2>8. g = [k \in 1 .. x + 1 |-> g[k]]
    OBVIOUS
  <2> HIDE DEF g
  <2>9. Is(g, x + 1)
    BY <2>7, <2>8
  <2> HIDE DEF Is
  <2> QED
    BY <2>1, <2>9
<1> HIDE DEF T
<1>3. T = Nat
  BY <1>1, <1>2, Induction DEF T
<1> QED
  BY <1>3 DEF T

LEMMA FlatIs ==
  ASSUME NEW s, Len(s) \in Nat
  PROVE  /\ \A k \in 1 .. Len(s) : Flat(s)[k] = IF k = 1 THEN s[k] ELSE Flat(s)[k - 1] \o s[k]
         /\ Ext!FlattenSeq(s) = IF Len(s) = 0 THEN s ELSE Flat(s)[Len(s)]
<1> DEFINE Is(f) == f = [k \in 1 .. Len(s) |-> IF k = 1 THEN s[k] ELSE f[k - 1] \o s[k]]
<1>1. Is(Flat(s))
  <2>1. \E f : Is(f)
    BY Flattened
  <2>2. Flat(s) = CHOOSE f : Is(f)
    BY DEF Flat
  <2> HIDE DEF Is
  <2> QED
    BY <2>1, <2>2
<1>2. Ext!FlattenSeq(s) = IF Len(s) = 0 THEN s ELSE Flat(s)[Len(s)]
  BY DEF Ext!FlattenSeq, Flat
<1> DEFINE F == Flat(s)
<1> HIDE DEF F
<1>3. \A k \in 1 .. Len(s) : F[k] = IF k = 1 THEN s[k] ELSE F[k - 1] \o s[k]
  BY <1>1 DEF F
<1> QED
  BY <1>2, <1>3 DEF F

LEMMA FrontIs ==
  ASSUME NEW s, Len(s) \in Nat, NEW k \in 1 .. Len(s), s[k] \in Seq(Int)
  PROVE  Front(s, k) = Front(s, k - 1) \o s[k]
<1>1. Flat(s)[k] = IF k = 1 THEN s[k] ELSE Flat(s)[k - 1] \o s[k]
  BY FlatIs
<1>2. <<>> \o s[k] = s[k]
  OBVIOUS
<1>3. k # 0 /\ (k = 1 <=> k - 1 = 0)
  OBVIOUS
<1> QED
  BY <1>1, <1>2, <1>3 DEF Front

LEMMA FrontSeq ==
  ASSUME NEW s \in Seq(Seq(Int))
  PROVE  /\ Front(s, 0) = <<>>
         /\ \A k \in 0 .. Len(s) : Front(s, k) \in Seq(Int)
         /\ Front(s, Len(s)) = Ext!FlattenSeq(s)
<1>1. Len(s) \in Nat /\ \A k \in 1 .. Len(s) : s[k] \in Seq(Int)
  OBVIOUS
<1> DEFINE T == {k \in Nat : k <= Len(s) => Front(s, k) \in Seq(Int)}
<1>2. Front(s, 0) = <<>>
  BY DEF Front
<1>3. 0 \in T
  <2>1. <<>> \in Seq(Int) /\ 0 \in Nat
    OBVIOUS
  <2> QED
    BY <1>2, <2>1
<1>4. ASSUME NEW k \in T PROVE k + 1 \in T
  <2>1. k \in Nat
    OBVIOUS
  <2>2. ASSUME k + 1 <= Len(s) PROVE Front(s, k + 1) \in Seq(Int)
    <3>1. k + 1 \in 1 .. Len(s) /\ (k + 1) - 1 = k /\ k <= Len(s)
      BY <1>1, <2>1, <2>2
    <3> DEFINE j == k + 1
    <3> HIDE DEF j
    <3>2. Front(s, j) = Front(s, j - 1) \o s[j]
      BY <1>1, <3>1, FrontIs DEF j
    <3>3. s[j] \in Seq(Int) /\ Front(s, k) \in Seq(Int)
      BY <1>1, <3>1 DEF j
    <3> DEFINE a == Front(s, k)
               z == s[j]
    <3>4. a \in Seq(Int) /\ z \in Seq(Int) /\ Front(s, j) = a \o z
      BY <3>1, <3>2, <3>3 DEF j
    <3> HIDE DEF a, z
    <3>5. a \o z \in Seq(Int)
      BY <3>4, ConcatProperties
    <3> QED
      BY <3>4, <3>5 DEF j
  <2> QED
    BY <2>1, <2>2
<1> HIDE DEF T
<1>5. T = Nat
  BY <1>3, <1>4, Induction DEF T
<1>6. Front(s, Len(s)) = Ext!FlattenSeq(s)
  <2>1. Len(s) = 0 => s = <<>>
    BY EmptySeq
  <2> QED
    BY <1>1, <2>1, FlatIs DEF Front
<1> QED
  BY <1>1, <1>2, <1>5, <1>6 DEF T

(* Where the pieces of a format begin.                                      *)
At(ps, k) == Len(Front(ps, k))
Format(ps) == Append(Ext!FlattenSeq(ps), NUL)

LEMMA AtIs ==
  ASSUME NEW ps \in Seq(Seq(Int))
  PROVE  /\ At(ps, 0) = 0 /\ \A k \in 0 .. Len(ps) : At(ps, k) \in Nat
         /\ \A k \in 0 .. Len(ps) - 1 :
              /\ k + 1 \in 1 .. Len(ps) /\ ps[k + 1] \in Seq(Int)
              /\ Len(ps[k + 1]) \in Nat /\ Len(ps) \in Nat
              /\ At(ps, k + 1) = At(ps, k) + Len(ps[k + 1])
              /\ \A j \in 1 .. At(ps, k) : Front(ps, k + 1)[j] = Front(ps, k)[j]
              /\ \A j \in 1 .. Len(ps[k + 1]) : Front(ps, k + 1)[At(ps, k) + j] = ps[k + 1][j]
<1>1. /\ Len(ps) \in Nat /\ Front(ps, 0) = <<>>
      /\ \A k \in 0 .. Len(ps) : Front(ps, k) \in Seq(Int)
      /\ \A k \in 1 .. Len(ps) : ps[k] \in Seq(Int)
  BY FrontSeq
<1>2. \A k \in 0 .. Len(ps) : At(ps, k) \in Nat
  BY <1>1 DEF At
<1>3. ASSUME NEW k \in 0 .. Len(ps) - 1
      PROVE  /\ k + 1 \in 1 .. Len(ps) /\ ps[k + 1] \in Seq(Int) /\ Len(ps[k + 1]) \in Nat
             /\ At(ps, k + 1) = At(ps, k) + Len(ps[k + 1])
             /\ \A j \in 1 .. At(ps, k) : Front(ps, k + 1)[j] = Front(ps, k)[j]
             /\ \A j \in 1 .. Len(ps[k + 1]) : Front(ps, k + 1)[At(ps, k) + j] = ps[k + 1][j]
  <2> DEFINE h == k + 1
             s == Front(ps, k)
             t == ps[h]
             u == Front(ps, h)
  <2>1. h \in 1 .. Len(ps) /\ k \in 0 .. Len(ps) /\ h - 1 = k
    BY <1>1
  <2>2. s \in Seq(Int) /\ t \in Seq(Int)
    BY <1>1, <2>1
  <2> HIDE DEF h
  <2>3. u = s \o t
    BY <1>1, <2>1, <2>2, FrontIs
  <2> HIDE DEF s, t, u
  <2>4. /\ Len(u) = Len(s) + Len(t) /\ Len(t) \in Nat
        /\ \A j \in 1 .. Len(s) : u[j] = s[j]
        /\ \A j \in 1 .. Len(t) : u[Len(s) + j] = t[j]
    BY <2>2, <2>3, Joined
  <2> QED
    BY <2>1, <2>2, <2>4 DEF s, t, u, h, At
<1> QED
  BY <1>1, <1>2, <1>3 DEF At

LEMMA Stays ==
  ASSUME NEW ps \in Seq(Seq(Int)), NEW p \in 0 .. Len(ps), NEW j \in 1 .. At(ps, p)
  PROVE  j <= At(ps, Len(ps)) /\ Front(ps, Len(ps))[j] = Front(ps, p)[j]
<1> DEFINE L == Len(ps)
           Same(k) == j <= At(ps, k) /\ Front(ps, k)[j] = Front(ps, p)[j]
           T == {d \in Nat : p + d <= L => Same(p + d)}
<1>1. /\ L \in Nat /\ p \in Nat /\ p <= L /\ \A k \in 0 .. L : At(ps, k) \in Nat
  BY FrontSeq, AtIs
<1>2. \A k \in 0 .. L - 1 : /\ At(ps, k + 1) = At(ps, k) + Len(ps[k + 1])
                            /\ Len(ps[k + 1]) \in Nat
                            /\ \A i \in 1 .. At(ps, k) : Front(ps, k + 1)[i] = Front(ps, k)[i]
  BY AtIs
<1> HIDE DEF L
<1>3. j \in Nat /\ j >= 1 /\ j <= At(ps, p)
  BY <1>1
<1>4. 0 \in T
  BY <1>1, <1>3
<1>5. ASSUME NEW d \in T PROVE d + 1 \in T
  <2>1. d \in Nat
    OBVIOUS
  <2>2. ASSUME p + (d + 1) <= L PROVE Same(p + (d + 1))
    <3> DEFINE k == p + d
    <3>1. k \in Nat /\ k \in 0 .. L - 1 /\ k \in 0 .. L /\ p + (d + 1) = k + 1 /\ p + d <= L
      BY <1>1, <2>1, <2>2
    <3>2. Same(k)
      BY <3>1
    <3> HIDE DEF k
    <3>3. At(ps, k) \in Nat
      BY <1>1, <3>1
    <3>4. j \in 1 .. At(ps, k)
      BY <1>3, <3>2, <3>3
    <3>5. Same(k + 1)
      BY <1>2, <1>3, <3>1, <3>2, <3>3, <3>4
    <3> QED
      BY <3>1, <3>5
  <2> HIDE DEF Same
  <2> QED
    BY <2>1, <2>2
<1> HIDE DEF T
<1>6. T = Nat
  BY <1>4, <1>5, Induction DEF T
<1>7. L - p \in T /\ p + (L - p) = L
  BY <1>1, <1>6
<1>8. Same(p + (L - p))
  BY <1>1, <1>7 DEF T
<1> QED
  BY <1>7, <1>8 DEF L

(* The characters of a piece, and the one behind the last piece.            *)
LEMMA CharIs ==
  ASSUME NEW ps \in Seq(Seq(Int))
  PROVE  /\ Format(ps)[At(ps, Len(ps)) + 1] = NUL
         /\ \A p \in 0 .. Len(ps) - 1 : \A j \in 1 .. Len(ps[p + 1]) :
              Format(ps)[At(ps, p) + j] = ps[p + 1][j]
<1> DEFINE f == Front(ps, Len(ps))
<1>1. f \in Seq(Int) /\ f = Ext!FlattenSeq(ps) /\ Len(ps) \in Nat
  BY FrontSeq
<1>2. /\ Format(ps)[Len(f) + 1] = NUL
      /\ \A j \in 1 .. Len(f) : Format(ps)[j] = f[j]
  BY <1>1, AppendProperties DEF Format, NUL
<1>3. ASSUME NEW p \in 0 .. Len(ps) - 1, NEW j \in 1 .. Len(ps[p + 1])
      PROVE  Format(ps)[At(ps, p) + j] = ps[p + 1][j]
  <2> DEFINE q == p + 1
             c == At(ps, p) + j
  <2>1. /\ q \in 0 .. Len(ps) /\ Len(ps[q]) \in Nat /\ At(ps, p) \in Nat
        /\ At(ps, q) = At(ps, p) + Len(ps[q]) /\ Front(ps, q)[c] = ps[q][j]
    <3>1. p \in 0 .. Len(ps)
      BY <1>1
    <3> QED
      BY <1>1, <3>1, AtIs
  <2>2. c \in Nat /\ c \in 1 .. At(ps, q)
    BY <2>1
  <2> HIDE DEF q, c
  <2>3. c <= At(ps, Len(ps)) /\ f[c] = Front(ps, q)[c]
    BY <2>1, <2>2, Stays
  <2>4. c \in 1 .. Len(f)
    BY <1>1, <2>2, <2>3 DEF At
  <2>5. Format(ps)[c] = ps[q][j]
    BY <1>2, <2>1, <2>3, <2>4
  <2> QED
    BY <2>5 DEF q, c
<1> QED
  BY <1>2, <1>3 DEF At

-----------------------------------------------------------------------------
(* The arguments.                                                           *)
Takers(ps, k) == {j \in 1 .. k : Takes(ps[j])}
Counted(ps, k) == Cardinality(Takers(ps, k))

LEMMA TakenIs == \A k : Taken(k) = Counted(pieces, k)
<1>1. \A Set : Cardinality(Set) = Cardinality(Set)
  BY DEF Cardinality, Cardinality
<1> QED
  BY <1>1 DEF Taken, Counted, Takers

LEMMA Counts ==
  ASSUME NEW ps
  PROVE  /\ Counted(ps, 0) = 0
         /\ \A k \in Nat : Counted(ps, k) \in Nat
         /\ \A k \in Nat : Counted(ps, k + 1) =
              Counted(ps, k) + (IF Takes(ps[k + 1]) THEN 1 ELSE 0)
<1>1. Counted(ps, 0) = 0
  <2>1. Takers(ps, 0) = {}
    BY DEF Takers
  <2> QED
    BY <2>1, FS_EmptySet DEF Counted
<1>2. ASSUME NEW k \in Nat
      PROVE  IsFiniteSet(Takers(ps, k)) /\ Counted(ps, k) \in Nat
  <2> DEFINE i == k
  <2>1. 1 \in Int /\ i \in Int
    OBVIOUS
  <2> HIDE DEF i
  <2>2. IsFiniteSet(1 .. i)
    BY <2>1, FS_Interval
  <2>3. Takers(ps, k) \subseteq 1 .. i
    BY DEF Takers, i
  <2>4. IsFiniteSet(Takers(ps, k))
    BY <2>2, <2>3, FS_Subset
  <2> QED
    BY <2>4, FS_CardinalityType DEF Counted
<1>3. ASSUME NEW k \in Nat
      PROVE  Counted(ps, k + 1) = Counted(ps, k) + (IF Takes(ps[k + 1]) THEN 1 ELSE 0)
  <2> DEFINE h == k + 1
             Set == Takers(ps, k)
  <2>1. /\ \A j : j \in 1 .. h <=> j \in 1 .. k \/ j = h
        /\ h \notin 1 .. k
    OBVIOUS
  <2> HIDE DEF h
  <2>2. IsFiniteSet(Set) /\ Cardinality(Set) \in Nat
    BY <1>2 DEF Counted
  <2>3. CASE Takes(ps[h])
    <3>1. Takers(ps, h) = Set \cup {h} /\ h \notin Set
      BY <2>1, <2>3 DEF Takers
    <3>2. Cardinality(Set \cup {h}) = Cardinality(Set) + 1
      BY <2>2, <3>1, FS_AddElement
    <3> QED
      BY <2>3, <3>1, <3>2 DEF Counted, h
  <2>4. CASE ~Takes(ps[h])
    <3>1. Takers(ps, h) = Set
      BY <2>1, <2>4 DEF Takers
    <3> QED
      BY <2>2, <2>4, <3>1 DEF Counted, h
  <2> QED
    BY <2>3, <2>4
<1> QED
  BY <1>1, <1>2, <1>3

LEMMA CountsUp ==
  ASSUME NEW ps, NEW p \in Nat, NEW k \in Nat, p <= k
  PROVE  Counted(ps, p) <= Counted(ps, k)
<1> DEFINE T == {d \in Nat : Counted(ps, p) <= Counted(ps, p + d)}
<1>1. 0 \in T
  <2>1. p + 0 = p /\ Counted(ps, p) \in Nat
    <3> HIDE DEF T
    <3>1. p + 0 = p
      OBVIOUS
    <3>2. Counted(ps, p) \in Nat
      BY Counts
    <3> QED
      BY <3>1, <3>2
  <2> HIDE DEF T
  <2>2. Counted(ps, p) <= Counted(ps, p + 0)
    BY <2>1
  <2> QED
    BY <2>2 DEF T
<1>2. ASSUME NEW d \in T PROVE d + 1 \in T
  <2>1. d \in Nat /\ Counted(ps, p) <= Counted(ps, p + d)
    OBVIOUS
  <2> DEFINE k0 == p + d
  <2>2. k0 \in Nat /\ p + (d + 1) = k0 + 1
    BY <2>1
  <2> HIDE DEF k0
  <2>3. Counted(ps, k0 + 1) = Counted(ps, k0) + (IF Takes(ps[k0 + 1]) THEN 1 ELSE 0)
    BY <2>2, Counts
  <2>4. Counted(ps, k0) \in Nat /\ Counted(ps, p) \in Nat
    BY <2>2, Counts
  <2>5. Counted(ps, p) <= Counted(ps, k0 + 1)
    BY <2>1, <2>3, <2>4 DEF k0
  <2>6. Counted(ps, p) <= Counted(ps, p + (d + 1))
    BY <2>2, <2>5
  <2> QED
    BY <2>1, <2>6
<1> HIDE DEF T
<1>3. T = Nat
  BY <1>1, <1>2, Induction DEF T
<1>4. k - p \in T /\ p + (k - p) = k
  BY <1>3
<1> QED
  BY <1>4 DEF T

Arg(ps, gs, k) == IF Takes(ps[k]) THEN gs[Counted(ps, k)] ELSE 0
Legal(ps, gs)  == ps \in Seq(Pieces) /\ gs \in [1 .. Counted(ps, Len(ps)) -> Words]

(* What is left behind piece p.                                             *)
Left(ps, gs, p, as) ==
  /\ as \in Seq(Words) /\ Len(as) = Counted(ps, Len(ps)) - Counted(ps, p)
  /\ \A j \in 1 .. Len(as) : as[j] = gs[Counted(ps, p) + j]

LEMMA LeftFirst ==
  ASSUME NEW ps, NEW gs, Legal(ps, gs)
  PROVE  Left(ps, gs, 0, gs)
<1> DEFINE c == Counted(ps, Len(ps))
<1>1. Len(ps) \in Nat
  BY DEF Legal
<1>2. c \in Nat /\ Counted(ps, 0) = 0
  BY <1>1, Counts
<1>3. gs \in [1 .. c -> Words]
  BY DEF Legal
<1> HIDE DEF c
<1>4. gs \in Seq(Words) /\ Len(gs) = c
  BY <1>2, <1>3
<1>5. \A j \in 1 .. c : 0 + j = j
  BY <1>2
<1>6. \A j \in 1 .. Len(gs) : gs[j] = gs[Counted(ps, 0) + j]
  BY <1>2, <1>4, <1>5
<1> QED
  BY <1>2, <1>4, <1>6 DEF Left, c

LEMMA LeftNext ==
  ASSUME NEW ps, NEW gs, Legal(ps, gs), NEW p \in 0 .. Len(ps) - 1, NEW as,
         Left(ps, gs, p, as)
  PROVE  IF Takes(ps[p + 1])
         THEN as # <<>> /\ as[1] \in Words /\ as[1] = Arg(ps, gs, p + 1)
              /\ Left(ps, gs, p + 1, Tail(as))
         ELSE Left(ps, gs, p + 1, as)
<1> DEFINE c == Counted(ps, Len(ps))
           a == Counted(ps, p)
           z == Counted(ps, p + 1)
<1>1. Len(ps) \in Nat /\ p \in Nat /\ p + 1 \in Nat /\ p + 1 <= Len(ps)
  BY DEF Legal
<1>2. c \in Nat /\ a \in Nat /\ z \in Nat /\ z <= c
  BY <1>1, Counts, CountsUp
<1>3. z = a + (IF Takes(ps[p + 1]) THEN 1 ELSE 0)
  BY <1>1, Counts
<1>4. as \in Seq(Words) /\ Len(as) = c - a /\ \A j \in 1 .. Len(as) : as[j] = gs[a + j]
  BY DEF Left
<1>5. CASE Takes(ps[p + 1])
  <2> HIDE DEF c, a, z
  <2>1. z = a + 1 /\ Len(as) >= 1 /\ Len(as) \in Nat
    BY <1>2, <1>3, <1>4, <1>5
  <2>2. as # <<>>
    <3> SUFFICES ASSUME as = <<>> PROVE FALSE
      OBVIOUS
    <3>1. Len(as) = 0
      OBVIOUS
    <3> QED
      BY <2>1, <3>1
  <2>3. as[1] \in Words /\ as[1] = gs[a + 1]
    <3> DEFINE l == Len(as)
    <3>2. l >= 1 /\ l \in Nat
      BY <2>1
    <3> HIDE DEF l
    <3>1. 1 \in 1 .. l
      BY ONLY <3>2
    <3> QED
      BY <1>4, <3>1, ElementOfSeq DEF l
  <2>4. as[1] = Arg(ps, gs, p + 1)
    BY <1>5, <2>1, <2>3 DEF Arg, z
  <2> DEFINE t == Tail(as)
  <2>5. /\ t \in Seq(Words) /\ Len(t) = Len(as) - 1
        /\ \A j \in 1 .. Len(t) : t[j] = as[j + 1]
    BY <1>4, <2>2, HeadTailProperties
  <2> HIDE DEF t
  <2>6. \A j \in 1 .. Len(t) : t[j] = gs[z + j]
    <3> TAKE j \in 1 .. Len(t)
    <3> DEFINE l == Len(as)
               r == Len(t)
    <3>2. l \in Nat /\ r = l - 1 /\ j \in 1 .. r
      BY <2>1, <2>5
    <3> HIDE DEF l, r
    <3>3. j \in Nat /\ j <= l - 1
      BY <3>2
    <3>4. j + 1 \in 1 .. l
      BY ONLY <3>2, <3>3
    <3>5. a + (j + 1) = z + j
      <4>1. z = a + 1 /\ a \in Nat /\ j \in Nat
        BY <1>2, <2>1, <3>3
      <4> QED
        BY ONLY <4>1
    <3>1. j + 1 \in 1 .. Len(as) /\ a + (j + 1) = z + j
      BY <3>4, <3>5 DEF l
    <3> QED
      BY <1>4, <2>5, <3>1
  <2>7. Len(t) = c - z
    BY <1>2, <1>4, <2>1, <2>5
  <2>8. Left(ps, gs, p + 1, t)
    BY <2>5, <2>6, <2>7 DEF Left, c, z
  <2> QED
    BY <1>5, <2>2, <2>3, <2>4, <2>8 DEF t
<1>6. CASE ~Takes(ps[p + 1])
  <2>1. z = a
    <3> HIDE DEF a, z
    <3> QED
      BY <1>2, <1>3, <1>6
  <2> QED
    BY <1>4, <1>6, <2>1 DEF Left
<1> QED
  BY <1>5, <1>6

LEMMA LeftLast ==
  ASSUME NEW ps, NEW gs, Legal(ps, gs), NEW as, Left(ps, gs, Len(ps), as)
  PROVE  as = <<>>
<1>1. Len(ps) \in Nat
  BY DEF Legal
<1>2. Counted(ps, Len(ps)) \in Nat
  BY <1>1, Counts
<1> DEFINE c == Counted(ps, Len(ps))
<1>4. as \in Seq(Words) /\ Len(as) = c - c /\ c \in Nat
  BY <1>2 DEF Left
<1> HIDE DEF c
<1>3. as \in Seq(Words) /\ Len(as) = 0
  BY <1>4
<1> QED
  BY <1>3, EmptySeq

-----------------------------------------------------------------------------
(* What the directives mean.                                                *)
LEMMA NumeralSeq ==
  ASSUME NEW b \in Bases, NEW A \in Nat, A < Full(LONG)
  PROVE  Numeral(A, b) \in Seq(Int)
<1> DEFINE Cond(k) == A < Power(b, k) /\ (k = 1 \/ A >= Power(b, k - 1))
           T == {k \in Nat : k \in 1 .. BUFFER /\ A < Power(b, k)}
           kk == CHOOSE k \in 1 .. BUFFER : Cond(k)
<1>1. /\ BUFFER \in Nat /\ b \in Nat \ {0} /\ BUFFER >= 2
      /\ \A k \in 0 .. BUFFER : Power(b, k) \in Nat \ {0}
      /\ Full(LONG) \in Nat /\ Full(LONG) <= Power(b, BUFFER - 1)
  BY PowerIs, PowerNat, WordIs, KprintfAssumption DEF Sizes
<1>2. BUFFER - 1 \in T
  <2>1. BUFFER - 1 \in Nat /\ BUFFER - 1 \in 1 .. BUFFER /\ BUFFER - 1 \in 0 .. BUFFER
    BY <1>1
  <2> DEFINE x == Power(b, BUFFER - 1)
  <2>2. x \in Nat /\ Full(LONG) <= x
    BY <1>1, <2>1
  <2> HIDE DEF x
  <2>3. A < x
    BY <1>1, <2>2
  <2> QED
    BY <2>1, <2>3 DEF x
<1>3. PICK x \in T : \A y \in T : x <= y
  <2> HIDE DEF T
  <2>1. T \subseteq Nat
    BY DEF T
  <2> QED
    BY <1>2, <2>1, Smallest
<1>4. x \in 1 .. BUFFER /\ Cond(x)
  <2>1. x \in 1 .. BUFFER /\ A < Power(b, x)
    OBVIOUS
  <2>2. ASSUME x # 1 PROVE A >= Power(b, x - 1)
    <3>1. x - 1 \in Nat /\ x - 1 \in 1 .. BUFFER /\ x - 1 \in 0 .. BUFFER /\ ~(x <= x - 1)
      BY <1>1, <2>1, <2>2
    <3>2. ~(A < Power(b, x - 1))
      BY <1>3, <3>1
    <3>3. Power(b, x - 1) \in Nat
      BY <1>1, <3>1
    <3> QED
      BY <3>2, <3>3
  <2> QED
    BY <2>1, <2>2
<1>5. kk \in 1 .. BUFFER
  <2> HIDE DEF Cond
  <2> QED
    BY <1>4
<1>6. Numeral(A, b) = [j \in 1 .. kk |-> LET y == (A \div Power(b, kk - j)) % b
                                           IN  IF y < 10 THEN y + c0 ELSE y - 10 + cA]
  BY DEF Numeral, Power
<1> HIDE DEF kk
<1>7. ASSUME NEW j \in 1 .. kk
      PROVE  LET y == (A \div Power(b, kk - j)) % b
             IN  (IF y < 10 THEN y + c0 ELSE y - 10 + cA) \in Int
  <2>1. kk - j \in 0 .. BUFFER
    BY <1>1, <1>5
  <2>2. Power(b, kk - j) \in Nat \ {0}
    BY <1>1, <2>1
  <2>3. A \div Power(b, kk - j) \in Nat
    BY <2>2, Divided
  <2> DEFINE y == (A \div Power(b, kk - j)) % b
  <2>4. y \in Nat
    BY <1>1, <2>3, Divided
  <2> HIDE DEF y
  <2>5. (IF y < 10 THEN y + c0 ELSE y - 10 + cA) \in Int
    BY <2>4 DEF c0, cA
  <2> QED
    BY <2>5 DEF y
<1>8. kk \in Nat
  BY <1>5
<1>9. Numeral(A, b) \in [1 .. kk -> Int]
  BY <1>6, <1>7
<1> DEFINE N == Numeral(A, b)
<1> HIDE DEF N
<1>10. N \in Seq(Int)
  BY <1>8, <1>9 DEF N
<1> QED
  BY <1>10 DEF N

(* What kprintnum and kprinthex put out for v.                              *)
Typed(v, b) == Sign(v) \o Numbered(Magnitude(v) < 0, Abs(Magnitude(v)), b)

(* They can be called with v.                                               *)
Callable(v) == v \in Int /\ -Half(LONG) <= v /\ v < Full(LONG)

LEMMA TypedIs ==
  ASSUME NEW v, Callable(v)
  PROVE  /\ Sign(v) \in Seq(Int)
         /\ \A b \in Bases : Fits(<<>>, Magnitude(v), b)
         /\ Abs(Magnitude(v)) \in Nat /\ Abs(Magnitude(v)) < Full(LONG)
         /\ \A b \in Bases :
              (v = -Half(LONG) => b = 10) =>
                Counting(Magnitude(v) < 0, Abs(Magnitude(v)), <<>>, Magnitude(v), b)
         /\ v = -Half(LONG) =>
              Typed(v, 10) = <<cMinus>> \o Mirrored(Numeral(Half(LONG), 10))
         /\ v # -Half(LONG) =>
              /\ SignedNumeral(v) = Typed(v, 10)
              /\ v >= 0 => \A b \in Bases : Numeral(v, b) = Typed(v, b)
<1> DEFINE m == Magnitude(v)
<1>1. v \in Int /\ -Half(LONG) <= v /\ v < Full(LONG)
  BY DEF Callable
<1>2. /\ m \in Int /\ Abs(m) < Full(LONG)
      /\ v # -Half(LONG) => m = Abs(v) /\ m \in Nat
      /\ v = -Half(LONG) => m = v
  BY <1>1, MagnitudeIs
<1>3. Sign(v) \in Seq(Int)
  BY DEF Sign, cMinus
<1> HIDE DEF m
<1>4. ASSUME NEW b \in Bases PROVE Fits(<<>>, m, b)
  <2>1. Power(b, 0) = 1
    BY PowerIs
  <2>2. Abs(m) \in Int /\ Abs(m) * 1 = Abs(m)
    BY <1>2 DEF Abs
  <2>3. Len(<<>>) = 0 /\ <<>> \in Seq(Int) /\ 0 + 1 <= BUFFER
    BY KprintfAssumption DEF Sizes
  <2>4. Abs(m) * Power(b, Len(<<>>)) < Full(LONG)
    BY <1>2, <2>1, <2>2, <2>3
  <2> QED
    BY <1>2, <2>3, <2>4 DEF Fits
<1>5. ASSUME v # -Half(LONG)
      PROVE  /\ \A b \in Bases : Counting(m < 0, Abs(m), <<>>, m, b)
             /\ SignedNumeral(v) = Typed(v, 10)
             /\ v >= 0 => \A b \in Bases : Numeral(v, b) = Typed(v, b)
  <2>1. m = Abs(v) /\ m \in Nat /\ m < Full(LONG) /\ ~(m < 0) /\ Abs(m) = m
    BY <1>2, <1>5 DEF Abs
  <2>5. \A b : Typed(v, b) = Sign(v) \o Numeral(m, b)
    BY <2>1 DEF Typed, Numbered, m
  <2>2. ASSUME NEW b \in Bases PROVE Counting(m < 0, Abs(m), <<>>, m, b)
    <3>1. Power(b, 0) = 1 /\ Len(<<>>) = 0
      BY PowerIs
    <3>2. m \div 1 = m
      BY <2>1
    <3>3. m = m \div Power(b, Len(<<>>))
      BY <3>1, <3>2
    <3> QED
      BY <2>1, <3>1, <3>3 DEF DigitsOf, Counting
  <2>3. ASSUME v >= 0, NEW b \in Bases PROVE Numeral(v, b) = Typed(v, b)
    <3>1. m = v /\ Sign(v) = <<>>
      BY <1>1, <2>1, <2>3 DEF Abs, Sign
    <3>2. Numeral(m, b) \in Seq(Int)
      BY <2>1, NumeralSeq
    <3>3. <<>> \o Numeral(m, b) = Numeral(m, b)
      BY <3>2, ConcatEmptySeq
    <3> QED
      BY <2>5, <3>1, <3>3
  <2>4. SignedNumeral(v) = Typed(v, 10)
    <3>1. CASE v >= 0
      <4>1. SignedNumeral(v) = Numeral(v, 10)
        BY <1>1, <3>1 DEF SignedNumeral
      <4>2. 10 \in Bases
        BY DEF Bases
      <4> QED
        BY <2>3, <3>1, <4>1, <4>2
    <3>2. CASE v < 0
      <4>1. SignedNumeral(v) = <<cMinus>> \o Numeral(-v, 10)
        BY <3>2 DEF SignedNumeral
      <4>2. m = -v /\ Sign(v) = <<cMinus>>
        BY <2>1, <3>2 DEF Abs, Sign
      <4> QED
        BY <2>5, <4>1, <4>2
    <3> QED
      BY <1>1, <3>1, <3>2
  <2> QED
    BY <2>2, <2>3, <2>4
<1>6. ASSUME v = -Half(LONG)
      PROVE  /\ Counting(m < 0, Abs(m), <<>>, m, 10)
             /\ Typed(v, 10) = <<cMinus>> \o Mirrored(Numeral(Half(LONG), 10))
  <2> DEFINE h == Half(LONG)
  <2>1. h \in Nat \ {0}
    BY WordIs
  <2>2. m = -h /\ v = -h
    BY <1>2, <1>6
  <2> HIDE DEF h
  <2>3. m < 0 /\ Abs(m) = h /\ -m = h /\ v < 0
    BY <2>1, <2>2 DEF Abs
  <2>4. Mirrored(<<>>) = <<>>
    <3>1. <<>> \in Seq(Int)
      OBVIOUS
    <3> QED
      BY <3>1, MirrorIs
  <2>5. DigitsOf(h, <<>>, h, 10)
    <3>1. Power(10, 0) = 1 /\ Len(<<>>) = 0
      BY PowerIs DEF Bases
    <3>2. h \div 1 = h
      BY <2>1
    <3>3. h = h \div Power(10, Len(<<>>))
      BY <3>1, <3>2
    <3> QED
      BY <3>1, <3>3 DEF DigitsOf
  <2>6. Counting(m < 0, Abs(m), <<>>, m, 10)
    BY <2>3, <2>4, <2>5 DEF Counting
  <2>7. Typed(v, 10) = <<cMinus>> \o Mirrored(Numeral(h, 10))
    BY <2>3 DEF Typed, Numbered, Sign, m
  <2> QED
    BY <2>6, <2>7 DEF h
<1>7. Abs(m) \in Nat
  BY <1>2 DEF Abs
<1> QED
  BY <1>2, <1>3, <1>4, <1>5, <1>6, <1>7 DEF m

(* Printing v in base b behind pre is what comes out for d and w.           *)
Means(d, w, v, b, pre) ==
  /\ b \in Bases /\ pre \in Seq(Int) /\ Callable(v)
  /\ v = -Half(LONG) => b = 10
  /\ Printed(d, w) = pre \o Typed(v, b)

LEMMA NumberedSeq ==
  ASSUME NEW A \in Nat, A < Full(LONG), NEW b \in Bases, NEW down \in BOOLEAN
  PROVE  Numbered(down, A, b) \in Seq(Int)
<1>1. Numeral(A, b) \in Seq(Int)
  BY NumeralSeq
<1> QED
  BY <1>1, MirrorIs DEF Numbered

LEMMA TypedSeq ==
  ASSUME NEW v, Callable(v), NEW b \in Bases
  PROVE  Typed(v, b) \in Seq(Int) /\ <<>> \o Typed(v, b) = Typed(v, b)
<1> DEFINE s == Sign(v)
           m == Magnitude(v)
           N == Numbered(m < 0, Abs(m), b)
<1>1. s \in Seq(Int)
  BY TypedIs
<1>2. N \in Seq(Int)
  <2>1. Abs(m) \in Nat /\ Abs(m) < Full(LONG)
    BY TypedIs
  <2> HIDE DEF m
  <2>2. (m < 0) \in BOOLEAN
    OBVIOUS
  <2> QED
    BY <2>1, <2>2, NumberedSeq
<1>3. Typed(v, b) = s \o N
  BY DEF Typed
<1> HIDE DEF s, N
<1>4. s \o N \in Seq(Int) /\ <<>> \o (s \o N) = s \o N
  BY <1>1, <1>2, ConcatProperties, ConcatEmptySeq
<1> QED
  BY <1>3, <1>4

(* What the two directives that can fail print.                             *)
LEMMA MisprintIs ==
  ASSUME NEW w \in Words
  PROVE  /\ Callable(Signed(w, LONG))
         /\ w # Half(LONG) => SignedNumeral(Signed(w, LONG)) = Typed(Signed(w, LONG), 10)
         /\ Misprint(w) = Typed(Signed(w, LONG), 10)
<1> DEFINE v == Signed(w, LONG)
           h == Half(LONG)
<1>1. h \in Nat \ {0} /\ Full(LONG) = 2 * h /\ w \in Nat /\ w < Full(LONG)
      /\ Full(LONG) \in Nat \ {0}
  BY WordIs
<1>2. w % Full(LONG) = w
  BY <1>1, Within
<1>3. /\ v \in Int /\ -h <= v /\ v < h
      /\ w = h => v = -h
      /\ v = -h => w = h
  BY <1>1, <1>2, SignedIs
<1>4. Misprint(w) = IF w = h THEN <<cMinus>> \o Mirrored(Numeral(-v, 10))
                             ELSE SignedNumeral(v)
  BY DEF Misprint, Half
<1> HIDE DEF v, h
<1>5. Callable(v)
  <2>1. -h <= v /\ v < Full(LONG)
    BY <1>1, <1>3
  <2> QED
    BY <1>3, <2>1 DEF Callable, h
<1>6. w # h => SignedNumeral(v) = Typed(v, 10)
  BY <1>3, <1>5, TypedIs DEF h
<1>7. w = h => Misprint(w) = Typed(v, 10)
  <2> SUFFICES ASSUME w = h PROVE Misprint(w) = Typed(v, 10)
    OBVIOUS
  <2>1. v = -h /\ -v = h
    BY <1>1, <1>3
  <2>2. Misprint(w) = <<cMinus>> \o Mirrored(Numeral(h, 10))
    BY <1>4, <2>1
  <2> QED
    BY <1>5, <2>1, <2>2, TypedIs DEF h
<1> QED
  BY <1>4, <1>5, <1>6, <1>7 DEF v, h

LEMMA DecimalMeans ==
  ASSUME NEW w \in Words
  PROVE  /\ Means(<<cPercent, cD>>, w, Signed(w, INT), 10, <<>>)
         /\ Means(<<cPercent, cL, cD>>, w, Signed(w, LONG), 10, <<>>)
<1>1. /\ Half(LONG) \in Nat \ {0} /\ Full(LONG) = 2 * Half(LONG)
      /\ Half(INT) \in Nat \ {0} /\ Full(INT) = 2 * Half(INT)
      /\ Full(INT) <= Half(LONG) /\ w \in Nat /\ w < Full(LONG)
  BY WordIs
<1>2. 10 \in Bases /\ <<>> \in Seq(Int)
  BY DEF Bases
<1>3. Means(<<cPercent, cD>>, w, Signed(w, INT), 10, <<>>)
  <2> DEFINE v == Signed(w, INT)
             d == <<cPercent, cD>>
  <2>1. v \in Int /\ -Half(INT) <= v /\ v < Half(INT)
    BY <1>1, SignedIs
  <2>2. Printed(d, w) = SignedNumeral(v)
    BY DEF Printed, Unprintable, Meaning, cPercent, cD, cL, cU, cX, cP
  <2> HIDE DEF v, d
  <2>3. Callable(v) /\ v # -Half(LONG)
    BY <1>1, <2>1 DEF Callable
  <2>4. SignedNumeral(v) = <<>> \o Typed(v, 10)
    BY <1>2, <2>3, TypedIs, TypedSeq
  <2>5. Means(d, w, v, 10, <<>>)
    BY <1>2, <2>2, <2>3, <2>4 DEF Means
  <2> QED
    BY <2>5 DEF v, d
<1>4. Means(<<cPercent, cL, cD>>, w, Signed(w, LONG), 10, <<>>)
  <2> DEFINE v == Signed(w, LONG)
             d == <<cPercent, cL, cD>>
  <2>1. Printed(d, w) = IF w = Half(LONG) THEN Misprint(w) ELSE SignedNumeral(v)
    BY DEF Printed, Unprintable, Half, Meaning, cPercent, cD, cL, cU, cX, cP
  <2>2. Callable(v) /\ Printed(d, w) = Typed(v, 10)
    BY <2>1, MisprintIs
  <2> HIDE DEF v, d
  <2>3. Means(d, w, v, 10, <<>>)
    BY <1>2, <2>2, TypedSeq DEF Means
  <2> QED
    BY <2>3 DEF v, d
<1> QED
  BY <1>3, <1>4

(* A number that is not negative.                                           *)
LEMMA PlainMeans ==
  ASSUME NEW d, NEW w, NEW v \in Nat, v < Full(LONG), NEW b \in Bases,
         NEW pre \in Seq(Int), Printed(d, w) = pre \o Numeral(v, b)
  PROVE  Means(d, w, v, b, pre)
<1>1. Half(LONG) \in Nat \ {0}
  BY WordIs
<1>2. Callable(v) /\ v # -Half(LONG) /\ v >= 0
  BY <1>1 DEF Callable
<1>3. Numeral(v, b) = Typed(v, b)
  BY <1>2, TypedIs
<1> QED
  BY <1>2, <1>3 DEF Means

LEMMA UnsignedMeans ==
  ASSUME NEW w \in Words
  PROVE  /\ Means(<<cPercent, cU>>, w, Signed(w % Full(INT), LONG), 10, <<>>)
         /\ Means(<<cPercent, cL, cU>>, w, Signed(w % Full(LONG), LONG), 10, <<>>)
<1>1. /\ Half(LONG) \in Nat \ {0} /\ Full(LONG) = 2 * Half(LONG)
      /\ Half(INT) \in Nat \ {0} /\ Full(INT) = 2 * Half(INT)
      /\ Full(INT) <= Half(LONG) /\ w \in Nat /\ w < Full(LONG)
      /\ Full(INT) \in Nat \ {0} /\ Full(LONG) \in Nat \ {0}
  BY WordIs
<1>2. 10 \in Bases /\ <<>> \in Seq(Int)
  BY DEF Bases
<1>3. Means(<<cPercent, cU>>, w, Signed(w % Full(INT), LONG), 10, <<>>)
  <2> DEFINE x == w % Full(INT)
             v == Signed(x, LONG)
             d == <<cPercent, cU>>
  <2>1. x \in Nat /\ x < Full(INT)
    BY <1>1, Divided
  <2>2. Printed(d, w) = Numeral(x, 10)
    BY DEF Printed, Unprintable, Meaning, Full, cPercent, cD, cL, cU, cX, cP
  <2> HIDE DEF x, d
  <2>3. x % Full(LONG) = x
    BY <1>1, <2>1, Within
  <2>4. v = x /\ x < Full(LONG)
    BY <1>1, <2>1, <2>3, SignedIs
  <2>5. Numeral(x, 10) \in Seq(Int)
    BY <1>2, <2>1, <2>4, NumeralSeq
  <2>6. Numeral(x, 10) = <<>> \o Numeral(x, 10)
    BY <2>5, ConcatEmptySeq
  <2>7. Means(d, w, x, 10, <<>>)
    BY <1>2, <2>1, <2>2, <2>4, <2>6, PlainMeans
  <2> QED
    BY <2>4, <2>7 DEF x, d
<1>4. Means(<<cPercent, cL, cU>>, w, Signed(w % Full(LONG), LONG), 10, <<>>)
  <2> DEFINE d == <<cPercent, cL, cU>>
             v == Signed(w, LONG)
  <2>1. w % Full(LONG) = w
    BY <1>1, Within
  <2>2. Printed(d, w) = IF w >= Half(LONG) THEN Misprint(w) ELSE Numeral(w, 10)
    BY DEF Printed, Unprintable, Half, Meaning, cPercent, cD, cL, cU, cX, cP
  <2>3. w < Half(LONG) => v = w
    BY <1>1, <2>1, SignedIs
  <2>4. Callable(v) /\ Misprint(w) = Typed(v, 10)
    BY MisprintIs
  <2> HIDE DEF v, d
  <2>5. ASSUME w >= Half(LONG) PROVE Means(d, w, v, 10, <<>>)
    <3>1. Printed(d, w) = Typed(v, 10)
      BY <2>2, <2>4, <2>5
    <3>2. <<>> \o Typed(v, 10) = Typed(v, 10)
      BY <1>2, <2>4, TypedSeq
    <3> QED
      BY <1>2, <2>4, <3>1, <3>2 DEF Means
  <2>6. ASSUME w < Half(LONG) PROVE Means(d, w, v, 10, <<>>)
    <3>1. Printed(d, w) = Numeral(w, 10) /\ Numeral(w, 10) \in Seq(Int)
      BY <1>1, <1>2, <2>2, <2>6, NumeralSeq
    <3>2. Printed(d, w) = <<>> \o Numeral(w, 10)
      BY <3>1, ConcatEmptySeq
    <3>3. Means(d, w, w, 10, <<>>)
      BY <1>1, <1>2, <3>2, PlainMeans
    <3>4. v = w
      BY <2>3, <2>6
    <3> QED
      BY <3>3, <3>4, Zenon
  <2>7. w >= Half(LONG) \/ w < Half(LONG)
    BY <1>1
  <2>8. Means(d, w, v, 10, <<>>)
    BY <2>5, <2>6, <2>7, Zenon
  <2> QED
    BY <2>1, <2>8 DEF d, v
<1> QED
  BY <1>3, <1>4

LEMMA HexMeans ==
  ASSUME NEW w \in Words
  PROVE  /\ Means(<<cPercent, cX>>, w, w % Full(INT), 16, <<>>)
         /\ Means(<<cPercent, cL, cX>>, w, w % Full(LONG), 16, <<>>)
         /\ w % Full(LONG) = w
         /\ Means(<<cPercent, cP>>, w, w, 16, <<c0, cX>>)
<1>1. /\ Full(LONG) = 2 * Half(LONG) /\ Half(LONG) \in Nat
      /\ Full(INT) <= Half(LONG) /\ w \in Nat /\ w < Full(LONG)
      /\ Full(INT) \in Nat \ {0} /\ Full(LONG) \in Nat \ {0}
  BY WordIs
<1>2. 16 \in Bases /\ <<>> \in Seq(Int) /\ <<c0, cX>> \in Seq(Int)
  BY DEF Bases, c0, cX
<1>3. Means(<<cPercent, cX>>, w, w % Full(INT), 16, <<>>)
  <2> DEFINE x == w % Full(INT)
             d == <<cPercent, cX>>
  <2>1. x \in Nat /\ x < Full(INT)
    BY <1>1, Divided
  <2>2. Printed(d, w) = Numeral(x, 16)
    BY DEF Printed, Unprintable, Meaning, Full, cPercent, cD, cL, cU, cX, cP
  <2> HIDE DEF x, d
  <2>3. x < Full(LONG)
    BY <1>1, <2>1
  <2>4. Numeral(x, 16) \in Seq(Int)
    BY <1>2, <2>1, <2>3, NumeralSeq
  <2>5. Numeral(x, 16) = <<>> \o Numeral(x, 16)
    BY <2>4, ConcatEmptySeq
  <2>6. Means(d, w, x, 16, <<>>)
    BY <1>2, <2>1, <2>2, <2>3, <2>5, PlainMeans
  <2> QED
    BY <2>6 DEF x, d
<1>4. w % Full(LONG) = w
  BY <1>1, Within
<1>5. Means(<<cPercent, cL, cX>>, w, w, 16, <<>>)
  <2> DEFINE d == <<cPercent, cL, cX>>
  <2>1. Printed(d, w) = Numeral(w, 16)
    BY DEF Printed, Unprintable, Meaning, cPercent, cD, cL, cU, cX, cP
  <2>2. Numeral(w, 16) \in Seq(Int)
    BY <1>1, <1>2, NumeralSeq
  <2>3. Numeral(w, 16) = <<>> \o Numeral(w, 16)
    BY <2>2, ConcatEmptySeq
  <2> HIDE DEF d
  <2>4. Means(d, w, w, 16, <<>>)
    BY <1>1, <1>2, <2>1, <2>3, PlainMeans
  <2> QED
    BY <2>4 DEF d
<1>6. Means(<<cPercent, cP>>, w, w, 16, <<c0, cX>>)
  <2> DEFINE d == <<cPercent, cP>>
             pre == <<c0, cX>>
  <2>1. Printed(d, w) = pre \o Numeral(w, 16)
    BY DEF Printed, Unprintable, Meaning, cPercent, cD, cL, cU, cX, cP
  <2> HIDE DEF d, pre
  <2>2. pre \in Seq(Int)
    BY <1>2 DEF pre
  <2>3. Means(d, w, w, 16, pre)
    BY <1>1, <1>2, <2>1, <2>2, PlainMeans
  <2> QED
    BY <2>3 DEF d, pre
<1> QED
  BY <1>3, <1>4, <1>5, <1>6

-----------------------------------------------------------------------------
(* The pieces of a format and its characters.                               *)
LEMMA PieceIs ==
  ASSUME NEW d \in Pieces
  PROVE  /\ d \in Seq(Int)
         /\ ~Takes(d) => Len(d) = 1 /\ d[1] = cA /\ d = <<cA>>
         /\ Takes(d) => /\ d[1] = cPercent
                          /\ \/ /\ Len(d) = 2 /\ d = <<cPercent, d[2]>>
                                /\ d[2] \in {cD, cU, cX, cS, cP}
                             \/ /\ Len(d) = 3 /\ d = <<cPercent, cL, d[3]>>
                                /\ d[2] = cL /\ d[3] \in {cD, cU, cX}
<1> USE DEF cPercent, cA, cD, cU, cX, cS, cP, cL
<1>1. CASE d = Text
  BY <1>1 DEF Text, Takes
<1>2. CASE d # Text
  <2>1. CASE d \in {<<cPercent, x>> : x \in {cD, cU, cX, cS, cP}}
    <3>1. PICK x \in {cD, cU, cX, cS, cP} : d = <<cPercent, x>>
      BY <2>1
    <3>2. x \in Int /\ cPercent \in Int
      OBVIOUS
    <3>3. Takes(d)
      BY <1>2 DEF Takes
    <3> DEFINE c == cPercent
    <3> HIDE DEF c
    <3>4. d \in Seq(Int) /\ Len(d) = 2 /\ d[1] = c /\ d[2] = x
      BY ONLY <3>1, <3>2 DEF c
    <3> QED
      BY <3>1, <3>3, <3>4 DEF c
  <2>2. CASE d \in {<<cPercent, cL, x>> : x \in {cD, cU, cX}}
    <3>1. PICK x \in {cD, cU, cX} : d = <<cPercent, cL, x>>
      BY <2>2
    <3>2. x \in Int /\ cPercent \in Int /\ cL \in Int
      OBVIOUS
    <3>3. Takes(d)
      BY <1>2 DEF Takes
    <3> DEFINE c == cPercent
               l == cL
    <3> HIDE DEF c, l
    <3>4. d \in Seq(Int) /\ Len(d) = 3 /\ d[1] = c /\ d[2] = l /\ d[3] = x
      BY ONLY <3>1, <3>2 DEF c, l
    <3> QED
      BY <3>1, <3>3, <3>4 DEF c, l
  <2> QED
    BY <1>2, <2>1, <2>2 DEF Pieces
<1> QED
  BY <1>1, <1>2

LEMMA FormatIs ==
  ASSUME NEW ps \in Seq(Pieces)
  PROVE  /\ ps \in Seq(Seq(Int)) /\ Len(ps) \in Nat
         /\ At(ps, 0) = 0 /\ \A p \in 0 .. Len(ps) : At(ps, p) \in Nat
         /\ Format(ps)[At(ps, Len(ps)) + 1] = NUL
         /\ \A p \in 0 .. Len(ps) - 1 :
              LET d == ps[p + 1]
              IN  /\ d \in Pieces /\ At(ps, p + 1) = At(ps, p) + Len(d)
                  /\ Format(ps)[At(ps, p) + 1] = d[1]
                  /\ Len(d) \in {2, 3} => Format(ps)[At(ps, p) + 2] = d[2]
                  /\ Len(d) = 3 => Format(ps)[At(ps, p) + 3] = d[3]
<1>1. Pieces \subseteq Seq(Int)
  BY PieceIs
<1>2. ps \in Seq(Seq(Int))
  <2> DEFINE Set == Pieces
             T == Seq(Int)
  <2> HIDE DEF Set, T
  <2>1. ps \in Seq(Set) /\ Set \subseteq T
    BY <1>1 DEF Set, T
  <2>2. ps \in Seq(T)
    BY <2>1, SeqMonotonic
  <2> QED
    BY <2>2 DEF T
<1>3. Len(ps) \in Nat /\ \A k \in 1 .. Len(ps) : ps[k] \in Pieces
  <2> DEFINE Set == Pieces
  <2> HIDE DEF Set
  <2>1. ps \in Seq(Set)
    BY DEF Set
  <2>2. Len(ps) \in Nat /\ \A k \in 1 .. Len(ps) : ps[k] \in Set
    BY <2>1
  <2> QED
    BY <2>2 DEF Set
<1>4. /\ Format(ps)[At(ps, Len(ps)) + 1] = NUL
      /\ \A p \in 0 .. Len(ps) - 1 : \A j \in 1 .. Len(ps[p + 1]) :
           Format(ps)[At(ps, p) + j] = ps[p + 1][j]
  BY <1>2, CharIs
<1>5. ASSUME NEW p \in 0 .. Len(ps) - 1
      PROVE  LET d == ps[p + 1]
             IN  /\ d \in Pieces /\ At(ps, p + 1) = At(ps, p) + Len(d)
                 /\ Format(ps)[At(ps, p) + 1] = d[1]
                 /\ Len(d) \in {2, 3} => Format(ps)[At(ps, p) + 2] = d[2]
                 /\ Len(d) = 3 => Format(ps)[At(ps, p) + 3] = d[3]
  <2> DEFINE d == ps[p + 1]
             f == Format(ps)
             a == At(ps, p)
             l == Len(d)
  <2>1. p + 1 \in 1 .. Len(ps)
    BY <1>3
  <2>2. d \in Pieces
    BY <1>3, <2>1
  <2>3. At(ps, p + 1) = a + l
    BY <1>2, AtIs
  <2>4. \A j \in 1 .. l : f[a + j] = d[j]
    BY <1>4
  <2>5. l \in {1, 2, 3}
    <3> HIDE DEF d
    <3>1. Len(d) \in {1, 2, 3}
      BY <2>2, PieceIs
    <3> QED
      BY <3>1
  <2> HIDE DEF f, a, l, d
  <2>6. /\ f[a + 1] = d[1]
        /\ l \in {2, 3} => f[a + 2] = d[2]
        /\ l = 3 => f[a + 3] = d[3]
    BY <2>4, <2>5
  <2> QED
    BY <2>2, <2>3, <2>6 DEF f, a, l, d
<1>6. At(ps, 0) = 0 /\ \A p \in 0 .. Len(ps) : At(ps, p) \in Nat
  BY <1>2, AtIs
<1> QED
  BY <1>2, <1>3, <1>4, <1>5, <1>6

(* What comes out for each piece, and what has been said behind piece p.    *)
Mean(ps, gs) == [k \in DOMAIN ps |-> Printed(ps[k], Arg(ps, gs, k))]
Said(ps, gs, p) == Front(Mean(ps, gs), p)

LEMMA SaidIs ==
  ASSUME NEW ps, NEW gs, Legal(ps, gs)
  PROVE  /\ Said(ps, gs, 0) = <<>>
         /\ Said(ps, gs, Len(ps)) = Ext!FlattenSeq(Mean(ps, gs))
         /\ \A p \in 0 .. Len(ps) - 1 :
              /\ Mean(ps, gs)[p + 1] = Printed(ps[p + 1], Arg(ps, gs, p + 1))
              /\ Mean(ps, gs)[p + 1] \in Seq(Int)
                   => Said(ps, gs, p + 1) = Said(ps, gs, p) \o Mean(ps, gs)[p + 1]
<1> DEFINE m == Mean(ps, gs)
           L == Len(ps)
<1>1. L \in Nat /\ DOMAIN ps = 1 .. L
  BY DEF Legal
<1>2. DOMAIN m = 1 .. L
  BY <1>1 DEF Mean
<1>3. m = [k \in 1 .. L |-> m[k]]
  BY <1>1 DEF Mean
<1> HIDE DEF m, L
<1>4. Len(m) = L
  BY <1>1, <1>3
<1>5. Front(m, 0) = <<>>
  BY DEF Front
<1>6. Front(m, L) = Ext!FlattenSeq(m)
  <2>1. Ext!FlattenSeq(m) = IF L = 0 THEN m ELSE Flat(m)[L]
    BY <1>1, <1>4, FlatIs
  <2>2. L = 0 => m = <<>>
    BY <1>1, <1>3, <1>4
  <2> QED
    BY <2>1, <2>2 DEF Front
<1>7. ASSUME NEW p \in 0 .. L - 1
      PROVE  /\ m[p + 1] = Printed(ps[p + 1], Arg(ps, gs, p + 1))
             /\ m[p + 1] \in Seq(Int) => Front(m, p + 1) = Front(m, p) \o m[p + 1]
  <2> DEFINE k == p + 1
  <2>1. k \in 1 .. L /\ k - 1 = p
    BY <1>1
  <2> HIDE DEF k
  <2>2. m[k] = Printed(ps[k], Arg(ps, gs, k))
    BY <1>1, <2>1 DEF m, Mean
  <2>4. m[k] \in Seq(Int) => Front(m, k) = Front(m, k - 1) \o m[k]
    BY <1>1, <1>4, <2>1, FrontIs
  <2> QED
    BY <2>1, <2>2, <2>4 DEF k
<1> QED
  BY <1>5, <1>6, <1>7 DEF m, L, Said

LEMMA Regrouped ==
  ASSUME NEW x \in Seq(Int), NEW y \in Seq(Int), NEW z \in Seq(Int)
  PROVE  (x \o y) \o z = x \o (y \o z)
OBVIOUS

(* A number in work: what is missing in the output are its digits.          *)
Working(ps, gs, p, ds, v, b, o) ==
  \E A \in Nat, pre \in Seq(Int), down \in BOOLEAN :
    /\ Said(ps, gs, p - 1) \in Seq(Int)
    /\ Mean(ps, gs)[p] = pre \o Numbered(down, A, b)
    /\ o = Said(ps, gs, p - 1) \o pre
    /\ Counting(down, A, ds, v, b)

LEMMA NumberBegins ==
  ASSUME NEW ps, NEW gs, Legal(ps, gs), NEW p \in 0 .. Len(ps) - 1,
         NEW v, NEW b, NEW pre, Means(ps[p + 1], Arg(ps, gs, p + 1), v, b, pre),
         NEW o \in Seq(Int), o = Said(ps, gs, p)
  PROVE  /\ b \in Bases /\ Fits(<<>>, Magnitude(v), b)
         /\ o \o pre \o Sign(v) \in Seq(Int)
         /\ Working(ps, gs, p + 1, <<>>, Magnitude(v), b, o \o pre \o Sign(v))
<1> DEFINE d == ps[p + 1]
           w == Arg(ps, gs, p + 1)
           s == Sign(v)
           m == Magnitude(v)
           A == Abs(m)
           down == m < 0
           N == Numbered(down, A, b)
           x == pre \o s
<1>1. /\ b \in Bases /\ pre \in Seq(Int) /\ Callable(v)
      /\ v = -Half(LONG) => b = 10
      /\ Printed(d, w) = pre \o Typed(v, b)
  BY DEF Means
<1>2. /\ Fits(<<>>, m, b) /\ s \in Seq(Int) /\ A \in Nat /\ A < Full(LONG)
      /\ Counting(down, A, <<>>, m, b)
  BY <1>1, TypedIs
<1>3. down \in BOOLEAN
  OBVIOUS
<1>4. Printed(d, w) = pre \o (s \o N)
  BY <1>1 DEF Typed
<1> HIDE DEF s, down, A, m
<1>5. N \in Seq(Int)
  BY <1>1, <1>2, <1>3, NumberedSeq
<1>6. x \in Seq(Int) /\ o \o x \in Seq(Int) /\ o \o pre \o s = o \o x
  <2>1. x \in Seq(Int)
    BY <1>1, <1>2, ConcatProperties
  <2>2. (o \o pre) \o s = o \o x
    BY <1>1, <1>2, Regrouped
  <2> HIDE DEF x
  <2>3. o \o x \in Seq(Int)
    BY <2>1, ConcatProperties
  <2> QED
    BY <2>1, <2>2, <2>3
<1>7. Mean(ps, gs)[p + 1] = x \o N
  <2>1. Mean(ps, gs)[p + 1] = Printed(d, w)
    BY SaidIs
  <2> HIDE DEF N, d, w
  <2>2. pre \o (s \o N) = x \o N
    BY <1>1, <1>2, <1>5, Regrouped
  <2> QED
    BY <1>4, <2>1, <2>2
<1>8. (p + 1) - 1 = p
  <2>1. p \in Int
    BY DEF Legal
  <2> QED
    BY <2>1
<1> HIDE DEF x, d, w
<1>9. Working(ps, gs, p + 1, <<>>, m, b, o \o x)
  <2>1. /\ Said(ps, gs, (p + 1) - 1) \in Seq(Int)
        /\ Mean(ps, gs)[p + 1] = x \o Numbered(down, A, b)
        /\ o \o x = Said(ps, gs, (p + 1) - 1) \o x
        /\ Counting(down, A, <<>>, m, b)
    BY <1>2, <1>7, <1>8
  <2> QED
    BY <1>2, <1>3, <1>6, <2>1 DEF Working
<1> QED
  BY <1>1, <1>2, <1>6, <1>9 DEF m, s

LEMMA NumberGoesOn ==
  ASSUME NEW ps, NEW gs, NEW p, NEW v, NEW b \in Bases, NEW ds, NEW o,
         Fits(ds, v, b), v # 0 \/ ds = <<>>, Working(ps, gs, p, ds, v, b, o)
  PROVE  LET es == <<Digit(Remainder(v, b))>> \o ds
             q == Quotient(v, b)
         IN  Fits(es, q, b) /\ es # <<>> /\ Working(ps, gs, p, es, q, b, o)
<1> DEFINE es == <<Digit(Remainder(v, b))>> \o ds
           q == Quotient(v, b)
<1>1. Fits(es, q, b) /\ es # <<>>
  BY DigitStep
<1>2. \A A \in Nat, down \in BOOLEAN :
        Counting(down, A, ds, v, b) => Counting(down, A, es, q, b)
  BY CountingStep
<1> HIDE DEF es, q
<1>3. Working(ps, gs, p, es, q, b, o)
  BY <1>2 DEF Working
<1> QED
  BY <1>1, <1>3 DEF es, q

LEMMA NumberEnds ==
  ASSUME NEW ps, NEW gs, Legal(ps, gs), NEW p \in 1 .. Len(ps),
         NEW b \in Bases, NEW ds, NEW o \in Seq(Int),
         Fits(ds, 0, b), ds # <<>>, Working(ps, gs, p, ds, 0, b, o)
  PROVE  o \o ds \in Seq(Int) /\ o \o ds = Said(ps, gs, p)
<1> DEFINE u == Said(ps, gs, p - 1)
<1>1. ds \in Seq(Int)
  BY DEF Fits
<1>2. o \o ds \in Seq(Int)
  BY <1>1, ConcatProperties
<1>3. PICK A \in Nat, pre \in Seq(Int), down \in BOOLEAN :
           /\ u \in Seq(Int) /\ Mean(ps, gs)[p] = pre \o Numbered(down, A, b)
           /\ o = u \o pre /\ Counting(down, A, ds, 0, b)
  BY DEF Working
<1>4. Numbered(down, A, b) = ds
  BY <1>3, NumberedIs
<1> HIDE DEF u
<1>5. pre \o ds \in Seq(Int) /\ (u \o pre) \o ds = u \o (pre \o ds)
  BY <1>1, <1>3, ConcatProperties, Regrouped
<1> DEFINE k == p - 1
<1>6. k \in 0 .. Len(ps) - 1 /\ k + 1 = p
  BY DEF Legal
<1> HIDE DEF k
<1>7. Mean(ps, gs)[k + 1] \in Seq(Int)
  BY <1>3, <1>4, <1>5, <1>6
<1>8. Said(ps, gs, k + 1) = Said(ps, gs, k) \o Mean(ps, gs)[k + 1]
  BY <1>6, <1>7, SaidIs
<1> QED
  BY <1>2, <1>3, <1>4, <1>5, <1>6, <1>8 DEF k, u

(* Plain text, or the string of a %s.                                       *)
LEMMA TextSaid ==
  ASSUME NEW ps, NEW gs, Legal(ps, gs), NEW p \in 0 .. Len(ps) - 1, NEW o \in Seq(Int),
         ~Takes(ps[p + 1]) \/ ps[p + 1] = <<cPercent, cS>>,
         o = Said(ps, gs, p)
  PROVE  /\ o \o <<cA>> \in Seq(Int)
         /\ Append(o, cA) = o \o <<cA>>
         /\ o \o <<cA>> = Said(ps, gs, p + 1)
<1> DEFINE t == <<cA>>
           d == ps[p + 1]
           w == Arg(ps, gs, p + 1)
<1>1. t \in Seq(Int) /\ cA \in Int
  BY DEF cA
<1>2. o \o t \in Seq(Int) /\ Append(o, cA) = o \o t
  BY <1>1, ConcatProperties, AppendIsConcat
<1>3. Printed(d, w) = t
  <2>1. d = Text \/ d = <<cPercent, cS>>
    BY DEF Takes
  <2> HIDE DEF d, w
  <2>2. CASE d = Text
    BY <2>2 DEF Printed, Unprintable, Meaning, Text, cPercent, cD, cU, cX, cL, cP, cA
  <2>3. CASE d = <<cPercent, cS>>
    BY <2>3 DEF Printed, Unprintable, Meaning, Text, cPercent, cD, cU, cX, cL, cP, cA, cS
  <2> QED
    BY <2>1, <2>2, <2>3
<1>4. Mean(ps, gs)[p + 1] = t
  BY <1>3, SaidIs
<1>5. Said(ps, gs, p + 1) = Said(ps, gs, p) \o t
  <2> HIDE DEF t
  <2> QED
    BY <1>1, <1>4, SaidIs
<1> HIDE DEF t
<1> QED
  BY <1>2, <1>5 DEF t

-----------------------------------------------------------------------------
(* Where the work is, between two characters or two digits: behind piece p,  *)
(* in piece p + 1, in the number of piece p, or at the end.                  *)
Heard(p) == /\ out \in Seq(Int)
            /\ out = Said(pieces, given, p)
Between(p) == /\ doing = "loop" /\ status = "char" /\ n_str = <<>>
              /\ read = At(pieces, p) /\ Left(pieces, given, p, args) /\ Heard(p)
InPiece(p) == /\ doing = "repeat" /\ n_str = <<>>
              /\ p < Len(pieces) /\ Takes(pieces[p + 1])
              /\ Left(pieces, given, p, args) /\ Heard(p)
              /\ \/ status = "char" /\ read = At(pieces, p) + 1
                 \/ status = "mid" /\ read = At(pieces, p) + 2 /\ Len(pieces[p + 1]) = 3
InNumber(p) == /\ doing = "number" /\ status = "char" /\ p > 0
               /\ read = At(pieces, p) /\ Left(pieces, given, p, args)
               /\ base \in Bases /\ Fits(n_str, num, base) /\ out \in Seq(Int)
               /\ Working(pieces, given, p, n_str, num, base, out)
Ended(p) == /\ doing = "done" /\ n_str = <<>> /\ p = Len(pieces)
            /\ Left(pieces, given, p, args) /\ Heard(p)
Stands(p) == Between(p) \/ InPiece(p) \/ InNumber(p) \/ Ended(p)

FormatInv == /\ Legal(pieces, given)
             /\ \E p \in 0 .. Len(pieces) : Stands(p)

LEMMA CharReads == fmt_ch = Format(pieces)[read + 1]
BY DEF fmt_ch, format, Format

LEMMA InitFormat == KprintfInit => FormatInv
<1> SUFFICES ASSUME KprintfInit PROVE FormatInv
  OBVIOUS
<1>1. CASE KprintfCalled
  <2>1. /\ pieces \in UNION {[1 .. k -> Pieces] : k \in 0 .. MaxPieces}
        /\ given \in [1 .. Taken(Len(pieces)) -> Words] /\ args = given
        /\ read = 0 /\ status = "char" /\ doing = "loop" /\ n_str = <<>> /\ out = <<>>
    BY <1>1 DEF KprintfCalled
  <2>2. pieces \in Seq(Pieces)
    <3> DEFINE Set == Pieces
    <3> HIDE DEF Set
    <3>1. PICK k \in 0 .. MaxPieces : pieces \in [1 .. k -> Set]
      BY <2>1 DEF Set
    <3>2. k \in Nat
      BY KprintfAssumption DEF Sizes
    <3>3. pieces \in Seq(Set)
      BY <3>1, <3>2
    <3> QED
      BY <3>3 DEF Set
  <2>3. Legal(pieces, given)
    BY <2>1, <2>2, TakenIs DEF Legal
  <2>4. Left(pieces, given, 0, args)
    BY <2>1, <2>3, LeftFirst
  <2>5. Said(pieces, given, 0) = <<>>
    BY <2>3, SaidIs
  <2>6. At(pieces, 0) = 0 /\ 0 \in 0 .. Len(pieces)
    BY <2>2, FormatIs
  <2>7. Between(0)
    BY <2>1, <2>4, <2>5, <2>6 DEF Between, Heard
  <2> QED
    BY <2>3, <2>6, <2>7 DEF FormatInv, Stands
<1>2. ASSUME NEW w \in Words, given = <<w>>, NEW d \in Pieces, Takes(d), NEW v, NEW b,
             Means(d, w, v, b, <<>>), Called(d, v, b)
      PROVE  FormatInv
  <2>1. /\ pieces = <<d>> /\ args = <<>> /\ read = Len(d) /\ status = "char"
        /\ doing = "number" /\ num = Magnitude(v) /\ base = b /\ n_str = <<>>
        /\ out = Sign(v)
    BY <1>2 DEF Called
  <2>2. pieces \in Seq(Pieces) /\ Len(pieces) = 1 /\ pieces[1] = d
    <3> DEFINE Set == Pieces
    <3> HIDE DEF Set
    <3>1. d \in Set
      BY DEF Set
    <3>2. pieces \in Seq(Set) /\ Len(pieces) = 1 /\ pieces[1] = d
      BY <2>1, <3>1
    <3> QED
      BY <3>2 DEF Set
  <2> DEFINE zero == 0
             one == 1
  <2>3. Counted(pieces, one) = one
    <3>1. Counted(pieces, 0) = 0 /\ \A k \in Nat : Counted(pieces, k + 1) =
              Counted(pieces, k) + (IF Takes(pieces[k + 1]) THEN 1 ELSE 0)
      BY Counts
    <3>2. 0 \in Nat /\ 0 + 1 = 1
      OBVIOUS
    <3> QED
      BY <1>2, <2>2, <3>1, <3>2
  <2>4. Legal(pieces, given)
    <3>1. given \in [1 .. 1 -> Words]
      BY <1>2
    <3> QED
      BY <2>2, <2>3, <3>1 DEF Legal
  <2>5. Arg(pieces, given, one) = w
    BY <1>2, <2>2, <2>3 DEF Arg
  <2>6. Left(pieces, given, one, args)
    <3>1. args \in Seq(Words) /\ Len(args) = 0
      BY <2>1
    <3>2. Len(args) = Counted(pieces, Len(pieces)) - Counted(pieces, one)
      BY <2>2, <2>3, <3>1
    <3>3. \A j \in 1 .. Len(args) : j \notin 1 .. Len(args)
      BY <3>1
    <3> QED
      BY <3>1, <3>2, <3>3 DEF Left
  <2>7. At(pieces, one) = read
    <3>1. zero \in 0 .. Len(pieces) - 1 /\ zero + 1 = one
      BY <2>2
    <3>2. At(pieces, zero) = 0
      BY <2>2, FormatIs
    <3> HIDE DEF zero, one
    <3>3. At(pieces, zero + 1) = At(pieces, zero) + Len(pieces[zero + 1])
      BY <2>2, <3>1, FormatIs
    <3>4. pieces[zero + 1] = d /\ Len(d) \in Nat
      <4>1. one = 1
        BY DEF one
      <4>2. Len(d) \in Nat
        BY PieceIs
      <4> QED
        BY <2>2, <3>1, <4>1, <4>2
    <3> QED
      BY <2>1, <3>1, <3>2, <3>3, <3>4
  <2>8. /\ base \in Bases /\ Fits(n_str, num, base) /\ out \in Seq(Int)
        /\ Working(pieces, given, one, n_str, num, base, out)
    <3> DEFINE e == <<>>
    <3>1. zero \in 0 .. Len(pieces) - 1 /\ zero + 1 = one
      BY <2>2
    <3>2. e \in Seq(Int) /\ (e = Said(pieces, given, zero))
      BY <2>4, SaidIs
    <3>3. Means(pieces[one], Arg(pieces, given, one), v, b, e)
      BY <1>2, <2>2, <2>5
    <3>4. e \o e \o Sign(v) = Sign(v)
      <4> DEFINE s == Sign(v)
      <4>1. s \in Seq(Int)
        BY DEF Sign, cMinus
      <4> HIDE DEF s
      <4>2. e \o e \o s = s
        BY <4>1
      <4> QED
        BY <4>2 DEF s
    <3> HIDE DEF zero, one, e
    <3>5. /\ b \in Bases /\ Fits(<<>>, Magnitude(v), b)
          /\ e \o e \o Sign(v) \in Seq(Int)
          /\ Working(pieces, given, zero + 1, <<>>, Magnitude(v), b, e \o e \o Sign(v))
      BY <2>4, <3>1, <3>2, <3>3, NumberBegins
    <3> QED
      BY <2>1, <3>1, <3>4, <3>5
  <2>9. InNumber(one) /\ one \in 0 .. Len(pieces)
    BY <2>1, <2>2, <2>6, <2>7, <2>8 DEF InNumber
  <2> HIDE DEF one
  <2> QED
    BY <2>4, <2>9 DEF FormatInv, Stands
<1>3. ASSUME NEW w \in Words, given = <<w>>, boot_printnum(w)
      PROVE  FormatInv
  <2> DEFINE d == <<cPercent, cL, cD>>
             v == Signed(w, LONG)
  <2>1. d \in Pieces /\ Takes(d)
    BY DEF Pieces, Takes, Text, cPercent, cA
  <2>2. Means(d, w, v, 10, <<>>) /\ Called(d, v, 10)
    BY <1>3, DecimalMeans DEF boot_printnum
  <2> HIDE DEF d, v
  <2> QED
    BY <1>2, <1>3, <2>1, <2>2
<1>4. ASSUME NEW w \in Words, given = <<w>>, boot_printhex(w)
      PROVE  FormatInv
  <2> DEFINE d == <<cPercent, cL, cX>>
  <2>1. d \in Pieces /\ Takes(d)
    BY DEF Pieces, Takes, Text, cPercent, cA
  <2>2. Means(d, w, w, 16, <<>>) /\ Called(d, w, 16)
    BY <1>4, HexMeans DEF boot_printhex
  <2> HIDE DEF d
  <2> QED
    BY <1>2, <1>4, <2>1, <2>2
<1> QED
  BY <1>1, <1>3, <1>4 DEF KprintfInit

(* The characters the loop can read, and those behind a %.                  *)
LEMMA LoopReads ==
  ASSUME Legal(pieces, given), NEW p \in 0 .. Len(pieces), read = At(pieces, p)
  PROVE  /\ read \in Nat /\ Len(pieces) \in Nat
         /\ p = Len(pieces) => fmt_ch = NUL
         /\ p # Len(pieces) =>
              /\ p \in 0 .. Len(pieces) - 1 /\ p + 1 \in 0 .. Len(pieces)
              /\ IF Takes(pieces[p + 1]) THEN fmt_ch = cPercent
                 ELSE fmt_ch = cA /\ At(pieces, p + 1) = read + 1
<1>1. pieces \in Seq(Pieces)
  BY DEF Legal
<1>2. read \in Nat /\ Len(pieces) \in Nat
  BY <1>1, FormatIs
<1>3. p = Len(pieces) => fmt_ch = NUL
  BY <1>1, CharReads, FormatIs
<1>4. ASSUME p # Len(pieces)
      PROVE  /\ p \in 0 .. Len(pieces) - 1 /\ p + 1 \in 0 .. Len(pieces)
             /\ IF Takes(pieces[p + 1]) THEN fmt_ch = cPercent
                ELSE fmt_ch = cA /\ At(pieces, p + 1) = read + 1
  <2>1. p \in 0 .. Len(pieces) - 1 /\ p + 1 \in 0 .. Len(pieces)
    BY <1>2, <1>4
  <2> DEFINE d == pieces[p + 1]
  <2>2. d \in Pieces /\ At(pieces, p + 1) = read + Len(d) /\ fmt_ch = d[1]
    BY <1>1, <2>1, CharReads, FormatIs
  <2> HIDE DEF d
  <2>3. /\ ~Takes(d) => Len(d) = 1 /\ d[1] = cA
        /\ Takes(d) => d[1] = cPercent
    BY <2>2, PieceIs
  <2> QED
    BY <2>1, <2>2, <2>3 DEF d
<1> QED
  BY <1>2, <1>3, <1>4

LEMMA PieceReads ==
  ASSUME Legal(pieces, given), NEW p \in 0 .. Len(pieces), InPiece(p)
  PROVE  /\ p \in 0 .. Len(pieces) - 1 /\ p + 1 \in 1 .. Len(pieces)
         /\ read \in Nat /\ p + 1 > 0 /\ pieces[p + 1] \in Pieces
         /\ status = "char" =>
              \/ /\ fmt_ch \in {cD, cU, cX, cS, cP}
                 /\ pieces[p + 1] = <<cPercent, fmt_ch>>
                 /\ At(pieces, p + 1) = read + 1
              \/ /\ fmt_ch = cL /\ Len(pieces[p + 1]) = 3
                 /\ read + 1 = At(pieces, p) + 2
         /\ status = "mid" =>
              /\ fmt_ch \in {cD, cU, cX}
              /\ pieces[p + 1] = <<cPercent, cL, fmt_ch>>
              /\ At(pieces, p + 1) = read + 1
<1> DEFINE d == pieces[p + 1]
           a == At(pieces, p)
           f == Format(pieces)
<1>1. pieces \in Seq(Pieces) /\ p < Len(pieces) /\ Takes(d)
  BY DEF Legal, InPiece
<1>2. Len(pieces) \in Nat /\ a \in Nat
  BY <1>1, FormatIs
<1>3. p \in 0 .. Len(pieces) - 1 /\ p + 1 \in 1 .. Len(pieces) /\ p + 1 > 0
  BY <1>1, <1>2
<1>4. /\ d \in Pieces /\ At(pieces, p + 1) = a + Len(d)
      /\ Len(d) \in {2, 3} => f[a + 2] = d[2]
      /\ Len(d) = 3 => f[a + 3] = d[3]
  BY <1>1, <1>3, FormatIs
<1>5. /\ fmt_ch = f[read + 1]
      /\ \/ status = "char" /\ read = a + 1
         \/ status = "mid" /\ read = a + 2 /\ Len(d) = 3
  BY CharReads DEF InPiece
<1> HIDE DEF d, a, f
<1>6. \/ /\ Len(d) = 2 /\ d = <<cPercent, d[2]>>
         /\ d[2] \in {cD, cU, cX, cS, cP}
      \/ /\ Len(d) = 3 /\ d = <<cPercent, cL, d[3]>>
         /\ d[2] = cL /\ d[3] \in {cD, cU, cX}
  BY <1>1, <1>4, PieceIs
<1>7. ASSUME status = "char"
      PROVE  \/ /\ fmt_ch \in {cD, cU, cX, cS, cP}
                /\ d = <<cPercent, fmt_ch>> /\ At(pieces, p + 1) = read + 1
             \/ fmt_ch = cL /\ Len(d) = 3 /\ read + 1 = a + 2
  <2>1. read = a + 1
    BY <1>5, <1>7
  <2>2. (a + 1) + 1 = a + 2
    BY <1>2
  <2>3. fmt_ch = d[2]
    BY <1>4, <1>5, <1>6, <2>1, <2>2
  <2>4. Len(d) = 2 => At(pieces, p + 1) = read + 1
    BY <1>4, <2>1, <2>2
  <2> QED
    BY <1>6, <2>1, <2>2, <2>3, <2>4
<1>8. ASSUME status = "mid"
      PROVE  /\ fmt_ch \in {cD, cU, cX}
             /\ d = <<cPercent, cL, fmt_ch>> /\ At(pieces, p + 1) = read + 1
  <2>1. read = a + 2 /\ Len(d) = 3
    BY <1>5, <1>8
  <2>2. (a + 2) + 1 = a + 3
    BY <1>2
  <2>3. fmt_ch = d[3]
    BY <1>4, <1>5, <2>1, <2>2
  <2>4. At(pieces, p + 1) = read + 1
    BY <1>4, <2>1, <2>2
  <2> QED
    BY <1>6, <2>1, <2>3, <2>4
<1>9. read \in Nat
  BY <1>2, <1>5
<1> QED
  BY <1>3, <1>4, <1>7, <1>8, <1>9 DEF d, a

(* kprintnum and kprinthex are called.                                      *)
LEMMA StepCall ==
  ASSUME Legal(pieces, given), NEW p \in 0 .. Len(pieces), InPiece(p),
         NEW v, NEW b, NEW pre, kprint(v, b, pre), At(pieces, p + 1) = read + 1,
         args[1] \in Words => Means(pieces[p + 1], args[1], v, b, pre)
  PROVE  InNumber(p + 1)'
<1>1. p \in 0 .. Len(pieces) - 1 /\ p + 1 > 0
  BY PieceReads
<1>2. Left(pieces, given, p, args) /\ Heard(p) /\ Takes(pieces[p + 1])
  BY DEF InPiece
<1>3. /\ args[1] \in Words /\ args[1] = Arg(pieces, given, p + 1)
      /\ Left(pieces, given, p + 1, Tail(args))
  BY <1>1, <1>2, LeftNext
<1>4. /\ b \in Bases /\ Fits(<<>>, Magnitude(v), b)
      /\ out \o pre \o Sign(v) \in Seq(Int)
      /\ Working(pieces, given, p + 1, <<>>, Magnitude(v), b, out \o pre \o Sign(v))
  <2>1. out \in Seq(Int) /\ (out = Said(pieces, given, p))
    BY <1>2 DEF Heard
  <2>2. Means(pieces[p + 1], Arg(pieces, given, p + 1), v, b, pre)
    BY <1>3
  <2> QED
    BY <1>1, <2>1, <2>2, NumberBegins
<1>5. /\ doing' = "number" /\ num' = Magnitude(v) /\ base' = b /\ n_str' = <<>>
      /\ out' = out \o pre \o Sign(v) /\ args' = Tail(args)
      /\ read' = read + 1 /\ status' = "char" /\ pieces' = pieces /\ given' = given
  BY DEF kprint
<1> QED
  BY <1>1, <1>3, <1>4, <1>5 DEF InNumber

LEMMA StepDirective ==
  ASSUME Legal(pieces, given), NEW p \in 0 .. Len(pieces), InPiece(p),
         Decimal \/ Unsigned \/ Hex \/ Pointer
  PROVE  InNumber(p + 1)'
<1> DEFINE w == args[1]
           d == pieces[p + 1]
<1> USE DEF Bits, Size, long
<1>1. /\ status = "char" \/ status = "mid"
      /\ status = "char" => d = <<cPercent, fmt_ch>> \/ fmt_ch = cL
      /\ status = "char" /\ fmt_ch # cL => At(pieces, p + 1) = read + 1
      /\ status = "mid" => d = <<cPercent, cL, fmt_ch>> /\ At(pieces, p + 1) = read + 1
  BY PieceReads DEF InPiece
<1>2. cD # cL /\ cU # cL /\ cX # cL /\ cP # cL
  BY DEF cD, cU, cX, cP, cL
<1>3. CASE Decimal
  <2> DEFINE v == Signed(w, Bits)
  <2>1. fmt_ch = cD /\ kprint(v, 10, <<>>)
    BY <1>3 DEF Decimal
  <2>2. w \in Words => Means(d, w, v, 10, <<>>)
    <3>1. CASE status = "mid"
      <4>1. d = <<cPercent, cL, cD>> /\ v = Signed(w, LONG)
        BY <1>1, <2>1, <3>1
      <4> HIDE DEF v, w
      <4> QED
        BY <4>1, DecimalMeans
    <3>2. CASE status # "mid"
      <4>1. d = <<cPercent, cD>> /\ v = Signed(w, INT)
        BY <1>1, <1>2, <2>1, <3>2
      <4> HIDE DEF v, w
      <4> QED
        BY <4>1, DecimalMeans
    <3> QED
      BY <3>1, <3>2
  <2>3. At(pieces, p + 1) = read + 1
    BY <1>1, <1>2, <2>1
  <2> HIDE DEF v
  <2> QED
    BY <2>1, <2>2, <2>3, StepCall
<1>4. CASE Unsigned
  <2> DEFINE v == Signed(w % 2^Bits, LONG)
  <2>1. fmt_ch = cU /\ kprint(v, 10, <<>>)
    BY <1>4 DEF Unsigned
  <2>2. w \in Words => Means(d, w, v, 10, <<>>)
    <3>1. CASE status = "mid"
      <4>1. d = <<cPercent, cL, cU>> /\ v = Signed(w % Full(LONG), LONG)
        BY <1>1, <2>1, <3>1 DEF Full
      <4> HIDE DEF v, w
      <4> QED
        BY <4>1, UnsignedMeans
    <3>2. CASE status # "mid"
      <4>1. d = <<cPercent, cU>> /\ v = Signed(w % Full(INT), LONG)
        BY <1>1, <1>2, <2>1, <3>2 DEF Full
      <4> HIDE DEF v, w
      <4> QED
        BY <4>1, UnsignedMeans
    <3> QED
      BY <3>1, <3>2
  <2>3. At(pieces, p + 1) = read + 1
    BY <1>1, <1>2, <2>1
  <2> HIDE DEF v
  <2> QED
    BY <2>1, <2>2, <2>3, StepCall
<1>5. CASE Hex
  <2> DEFINE v == w % 2^Bits
  <2>1. fmt_ch = cX /\ kprint(v, 16, <<>>)
    BY <1>5 DEF Hex
  <2>2. w \in Words => Means(d, w, v, 16, <<>>)
    <3>1. CASE status = "mid"
      <4>1. d = <<cPercent, cL, cX>> /\ v = w % Full(LONG)
        BY <1>1, <2>1, <3>1 DEF Full
      <4> HIDE DEF v, w
      <4> QED
        BY <4>1, HexMeans
    <3>2. CASE status # "mid"
      <4>1. d = <<cPercent, cX>> /\ v = w % Full(INT)
        BY <1>1, <1>2, <2>1, <3>2 DEF Full
      <4> HIDE DEF v, w
      <4> QED
        BY <4>1, HexMeans
    <3> QED
      BY <3>1, <3>2
  <2>3. At(pieces, p + 1) = read + 1
    BY <1>1, <1>2, <2>1
  <2> HIDE DEF v
  <2> QED
    BY <2>1, <2>2, <2>3, StepCall
<1>6. CASE Pointer
  <2>1. fmt_ch = cP /\ status # "mid" /\ kprint(w, 16, <<c0, cX>>)
    BY <1>6 DEF Pointer
  <2>2. d = <<cPercent, cP>>
    BY <1>1, <1>2, <2>1
  <2>3. w \in Words => Means(d, w, w, 16, <<c0, cX>>)
    <3> HIDE DEF w, d
    <3> QED
      BY <2>2, HexMeans
  <2>4. At(pieces, p + 1) = read + 1
    BY <1>1, <1>2, <2>1
  <2> QED
    BY <2>1, <2>3, <2>4, StepCall
<1> QED
  BY <1>3, <1>4, <1>5, <1>6

LEMMA StepFormat ==
  ASSUME FormatInv, [KprintfNext]_kprintf_vars
  PROVE  FormatInv'
<1>1. Legal(pieces, given)
  BY DEF FormatInv
<1>2. PICK p \in 0 .. Len(pieces) : Stands(p)
  BY DEF FormatInv
<1>3. Len(pieces) \in Nat /\ p \in Nat
  BY <1>1 DEF Legal
<1>4. ASSUME pieces' = pieces, given' = given, NEW q \in 0 .. Len(pieces), Stands(q)'
      PROVE  FormatInv'
  BY <1>1, <1>4 DEF FormatInv
<1>5. CASE Plain
  <2>1. /\ doing = "loop" /\ fmt_ch \notin {NUL, cPercent}
        /\ out' = Append(out, fmt_ch) /\ read' = read + 1 /\ status' = "char"
        /\ pieces' = pieces /\ args' = args /\ doing' = doing /\ given' = given
        /\ n_str' = n_str
    BY <1>5 DEF Plain, number
  <2>2. Between(p)
    BY <1>2, <2>1 DEF Stands, InPiece, InNumber, Ended
  <2>3. read = At(pieces, p) /\ Left(pieces, given, p, args) /\ Heard(p) /\ n_str = <<>>
    BY <2>2 DEF Between
  <2>4. /\ p \in 0 .. Len(pieces) - 1 /\ p + 1 \in 0 .. Len(pieces)
        /\ ~Takes(pieces[p + 1]) /\ fmt_ch = cA /\ At(pieces, p + 1) = read + 1
    BY <1>1, <2>1, <2>3, LoopReads
  <2>5. Left(pieces, given, p + 1, args)
    BY <1>1, <2>3, <2>4, LeftNext
  <2>6. /\ Append(out, cA) \in Seq(Int)
        /\ Append(out, cA) = Said(pieces, given, p + 1)
    BY <1>1, <2>3, <2>4, TextSaid DEF Heard
  <2>7. Between(p + 1)'
    BY <2>1, <2>3, <2>4, <2>5, <2>6 DEF Between, Heard
  <2> QED
    BY <1>4, <2>1, <2>4, <2>7 DEF Stands
<1>6. CASE Percent
  <2>1. /\ doing = "loop" /\ fmt_ch = cPercent /\ doing' = "repeat" /\ read' = read + 1
        /\ pieces' = pieces /\ args' = args /\ status' = status /\ out' = out
        /\ given' = given /\ n_str' = n_str
    BY <1>6 DEF Percent, number
  <2>2. Between(p)
    BY <1>2, <2>1 DEF Stands, InPiece, InNumber, Ended
  <2>3. /\ read = At(pieces, p) /\ Left(pieces, given, p, args) /\ Heard(p)
        /\ n_str = <<>> /\ status = "char"
    BY <2>2 DEF Between
  <2>4. cPercent # NUL /\ cPercent # cA
    BY DEF cPercent, NUL, cA
  <2>5. p < Len(pieces) /\ Takes(pieces[p + 1])
    BY <1>1, <1>3, <2>1, <2>3, <2>4, LoopReads
  <2>6. InPiece(p)'
    BY <2>1, <2>3, <2>5 DEF InPiece, Heard
  <2> QED
    BY <1>4, <2>1, <2>6 DEF Stands
<1>7. CASE Long
  <2>1. /\ doing = "repeat" /\ fmt_ch = cL /\ status = "char"
        /\ status' = "mid" /\ read' = read + 1
        /\ pieces' = pieces /\ args' = args /\ doing' = doing /\ out' = out
        /\ given' = given /\ n_str' = n_str
    BY <1>7 DEF Long, number
  <2>2. InPiece(p)
    BY <1>2, <2>1 DEF Stands, Between, InNumber, Ended
  <2>3. cL \notin {cD, cU, cX, cS, cP}
    BY DEF cD, cU, cX, cS, cP, cL
  <2>4. Len(pieces[p + 1]) = 3 /\ read + 1 = At(pieces, p) + 2
    BY <1>1, <2>1, <2>2, <2>3, PieceReads
  <2>5. InPiece(p)'
    BY <2>1, <2>2, <2>4 DEF InPiece, Heard
  <2> QED
    BY <1>4, <2>1, <2>5 DEF Stands
<1>8. CASE Decimal \/ Unsigned \/ Hex \/ Pointer
  <2>1. doing = "repeat" /\ pieces' = pieces /\ given' = given
    BY <1>8 DEF Decimal, Unsigned, Hex, Pointer, kprint
  <2>2. InPiece(p)
    BY <1>2, <2>1 DEF Stands, Between, InNumber, Ended
  <2>3. p + 1 \in 0 .. Len(pieces)
    BY <1>1, <1>3, <2>2, PieceReads
  <2>4. InNumber(p + 1)'
    BY <1>1, <1>8, <2>2, StepDirective
  <2> QED
    BY <1>4, <2>1, <2>3, <2>4 DEF Stands
<1>9. CASE String
  <2>1. /\ doing = "repeat" /\ fmt_ch = cS /\ status # "mid"
        /\ out' = out \o Text /\ args' = Tail(args) /\ doing' = "loop"
        /\ read' = read + 1 /\ status' = "char"
        /\ pieces' = pieces /\ given' = given /\ n_str' = n_str
    BY <1>9 DEF String, long, number
  <2>2. InPiece(p)
    BY <1>2, <2>1 DEF Stands, Between, InNumber, Ended
  <2>3. /\ Left(pieces, given, p, args) /\ Heard(p) /\ n_str = <<>>
        /\ Takes(pieces[p + 1]) /\ status = "char"
    BY <2>1, <2>2 DEF InPiece
  <2>4. cS # cL
    BY DEF cS, cL
  <2>5. /\ p \in 0 .. Len(pieces) - 1
        /\ pieces[p + 1] = <<cPercent, cS>> /\ At(pieces, p + 1) = read + 1
    BY <1>1, <2>1, <2>2, <2>3, <2>4, PieceReads
  <2>6. Left(pieces, given, p + 1, Tail(args))
    BY <1>1, <2>3, <2>5, LeftNext
  <2>7. /\ out \o Text \in Seq(Int)
        /\ out \o Text = Said(pieces, given, p + 1)
    <3>1. out \in Seq(Int) /\ out = Said(pieces, given, p)
      BY <2>3 DEF Heard
    <3>2. /\ out \o <<cA>> \in Seq(Int)
          /\ out \o <<cA>> = Said(pieces, given, p + 1)
      BY <1>1, <2>5, <3>1, TextSaid
    <3> QED
      BY <3>2 DEF Text
  <2>8. p + 1 \in 0 .. Len(pieces)
    BY <1>3, <2>5
  <2>9. Between(p + 1)'
    BY <2>1, <2>3, <2>5, <2>6, <2>7 DEF Between, Heard
  <2> QED
    BY <1>4, <2>1, <2>8, <2>9 DEF Stands
<1>10. CASE OneDigit
  <2>1. /\ doing = "number" /\ (num # 0 \/ n_str = <<>>)
        /\ n_str' = <<Digit(Remainder(num, base))>> \o n_str
        /\ num' = Quotient(num, base)
        /\ pieces' = pieces /\ args' = args /\ read' = read /\ status' = status
        /\ doing' = doing /\ base' = base /\ out' = out /\ given' = given
    BY <1>10 DEF OneDigit, Another
  <2>2. InNumber(p)
    BY <1>2, <2>1 DEF Stands, Between, InPiece, Ended
  <2>3. /\ base \in Bases /\ Fits(n_str, num, base)
        /\ Working(pieces, given, p, n_str, num, base, out)
    BY <2>2 DEF InNumber
  <2>4. /\ Fits(n_str', num', base)
        /\ Working(pieces, given, p, n_str', num', base, out)
    BY <2>1, <2>3, NumberGoesOn
  <2>5. InNumber(p)'
    BY <2>1, <2>2, <2>4 DEF InNumber
  <2> QED
    BY <1>4, <2>1, <2>5 DEF Stands
<1>11. CASE NumberEnd
  <2>1. /\ doing = "number" /\ num = 0 /\ n_str # <<>>
        /\ out' = out \o n_str /\ doing' = "loop" /\ n_str' = <<>>
        /\ pieces' = pieces /\ args' = args /\ read' = read /\ status' = status
        /\ given' = given
    BY <1>11 DEF NumberEnd, Another
  <2>2. InNumber(p)
    BY <1>2, <2>1 DEF Stands, Between, InPiece, Ended
  <2>3. /\ base \in Bases /\ Fits(n_str, num, base) /\ out \in Seq(Int) /\ p > 0
        /\ Working(pieces, given, p, n_str, num, base, out)
    BY <2>2 DEF InNumber
  <2>4. p \in 1 .. Len(pieces)
    BY <1>3, <2>3
  <2>5. /\ out \o n_str \in Seq(Int)
        /\ out \o n_str = Said(pieces, given, p)
    BY <1>1, <2>1, <2>3, <2>4, NumberEnds
  <2>6. Between(p)'
    BY <2>1, <2>2, <2>5 DEF Between, InNumber, Heard
  <2> QED
    BY <1>4, <2>1, <2>6 DEF Stands
<1>12. CASE End
  <2>1. /\ doing \in {"loop", "repeat"} /\ fmt_ch = NUL /\ doing' = "done"
        /\ pieces' = pieces /\ args' = args /\ out' = out /\ given' = given
        /\ n_str' = n_str
    BY <1>12 DEF End, number
  <2>2. NUL \notin {cD, cU, cX, cS, cP, cL, cPercent, cA}
    BY DEF NUL, cD, cU, cX, cS, cP, cL, cPercent, cA
  <2>3. ~InPiece(p)
    <3> SUFFICES ASSUME InPiece(p) PROVE FALSE
      OBVIOUS
    <3>1. status = "char" \/ status = "mid"
      BY DEF InPiece
    <3> QED
      BY <1>1, <2>1, <2>2, <3>1, PieceReads
  <2>4. Between(p)
    BY <1>2, <2>1, <2>3 DEF Stands, InNumber, Ended
  <2>5. /\ read = At(pieces, p) /\ Left(pieces, given, p, args) /\ Heard(p)
        /\ n_str = <<>>
    BY <2>4 DEF Between
  <2>6. p = Len(pieces)
    BY <1>1, <2>1, <2>2, <2>5, LoopReads
  <2>7. Ended(p)'
    BY <2>1, <2>5, <2>6 DEF Ended, Heard
  <2> QED
    BY <1>4, <2>1, <2>7 DEF Stands
<1>13. CASE UNCHANGED kprintf_vars
  <2>1. /\ pieces' = pieces /\ args' = args /\ read' = read /\ status' = status
        /\ doing' = doing /\ num' = num /\ base' = base /\ n_str' = n_str
        /\ out' = out /\ given' = given
    BY <1>13 DEF kprintf_vars
  <2>2. Stands(p)'
    BY <1>2, <2>1 DEF Stands, Between, InPiece, InNumber, Ended, Heard
  <2> QED
    BY <1>4, <2>1, <2>2
<1> QED
  BY <1>5, <1>6, <1>7, <1>8, <1>9, <1>10, <1>11, <1>12, <1>13 DEF KprintfNext, Done

LEMMA FormatPrinted == FormatInv => PrintsFormat
<1> SUFFICES ASSUME FormatInv PROVE PrintsFormat
  OBVIOUS
<1>1. Legal(pieces, given)
  BY DEF FormatInv
<1>2. PICK p \in 0 .. Len(pieces) : Stands(p)
  BY DEF FormatInv
<1>3. Len(n_str) + 1 <= BUFFER
  <2>1. n_str = <<>> => Len(n_str) + 1 <= BUFFER
    BY KprintfAssumption DEF Sizes
  <2>2. InNumber(p) => Len(n_str) + 1 <= BUFFER
    BY DEF InNumber, Fits
  <2> QED
    BY <1>2, <2>1, <2>2 DEF Stands, Between, InPiece, Ended
<1>4. \A k : ArgOf(k) = Arg(pieces, given, k)
  BY TakenIs DEF ArgOf, Arg
<1>5. ASSUME doing = "done"
      PROVE  /\ out = Ext!FlattenSeq([k \in DOMAIN pieces |->
                                      Printed(pieces[k], ArgOf(k))])
             /\ args = <<>>
  <2>1. Ended(p)
    BY <1>2, <1>5 DEF Stands, Between, InPiece, InNumber
  <2>2. out = Said(pieces, given, Len(pieces)) /\ args = <<>>
    BY <1>1, <2>1, LeftLast DEF Ended, Heard
  <2>3. [k \in DOMAIN pieces |-> Printed(pieces[k], ArgOf(k))] = Mean(pieces, given)
    BY <1>4 DEF Mean
  <2> QED
    BY <1>1, <2>2, <2>3, SaidIs
<1> QED
  BY <1>3, <1>5 DEF PrintsFormat

(* Whatever the format and the arguments are, each directive is replaced by *)
(* its own argument: by its numeral, but for the smallest %ld and for %lu   *)
(* from 2^63 on, of which it is said exactly what comes out instead; the    *)
(* rest of the format is printed rightly behind them too.  No number        *)
(* overflows n_str: kprintf, kprintnum and kprinthex of both stages.        *)
THEOREM SpecPrintsFormat ==
  KprintfSpec => []PrintsFormat
<1>1. KprintfInit => FormatInv
  BY InitFormat
<1>2. FormatInv /\ [KprintfNext]_kprintf_vars => FormatInv'
  BY StepFormat
<1>3. FormatInv => PrintsFormat
  BY FormatPrinted
<1> QED
  BY <1>1, <1>2, <1>3, PTL DEF KprintfSpec
=============================================================================
