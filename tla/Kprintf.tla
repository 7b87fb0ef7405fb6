------------------------------ MODULE Kprintf ------------------------------
(***************************************************************************)
(* kprintf, kprintnum and kprinthex of code/lib/print.c, one character of  *)
(* the format or one digit of a number at a time, and the copies of the    *)
(* last two in code/arch/x86/boot/tty_boot.c.  Characters are their        *)
(* codes.  The arguments are words of LONG bits, of which a conversion     *)
(* without l takes INT bits.                                               *)
(* fmt_ch, read and num are ch, i and n of the code; kprintf_vars is what  *)
(* other modules call vars: TtyProof extends this one and Tty, with a ch.  *)
(*                                                                         *)
(* Formats are what the kernel has: plain text, %d %u %x %ld %lu %lx %s    *)
(* %p.  Left out is %c: nothing uses it, and its va_arg(args, char) has no *)
(* meaning in C (gcc makes it a trap).                                     *)
(***************************************************************************)
EXTENDS Integers, Sequences, FiniteSets

Ext == INSTANCE SequencesExt

CONSTANTS
  MaxPieces,    \* a format has at most that many pieces
  Words,        \* the arguments
  LONG, INT,    \* 64 and 32
  BUFFER        \* 30: the size of n_str

(* "for 64-bit num it's enough": no word has BUFFER digits.                 *)
Sizes == /\ MaxPieces \in Nat
         /\ INT \in Nat \ {0} /\ LONG \in Nat /\ INT < LONG
         /\ Words \subseteq 0 .. 2^LONG - 1
         /\ BUFFER \in Nat \ {0, 1}
         /\ \A b \in {10, 16} : 2^LONG <= b^(BUFFER - 1)

(* What the proofs use of powers, which their provers do not know.          *)
Powers == /\ \A b \in {10, 16} :
               b^0 = 1 /\ \A k \in 0 .. BUFFER - 1 : b^(k + 1) = b * b^k
          /\ \A bits \in {INT, LONG} :
               2^bits = 2 * 2^(bits - 1) /\ 2^(bits - 1) \in Nat \ {0}
          /\ 2^INT <= 2^(LONG - 1)

ASSUME KprintfAssumption == Sizes /\ Powers

(* Codes of characters.                                                     *)
NUL      == 0
cPercent == 37
cMinus   == 45
c0       == 48
cA       == 97
cD       == 100
cL       == 108
cP       == 112
cS       == 115
cU       == 117
cX       == 120

Text   == <<cA>>                    \* plain text, and the string for a %s
Pieces == {Text, <<cPercent, cD>>, <<cPercent, cU>>, <<cPercent, cX>>,
           <<cPercent, cL, cD>>, <<cPercent, cL, cU>>, <<cPercent, cL, cX>>,
           <<cPercent, cS>>, <<cPercent, cP>>}

VARIABLES
  pieces,    \* the format
  args,      \* the arguments that are left
  read,      \* how many characters of the format have been read
  status,    \* PRINT_STATUS_CHAR or PRINT_STATUS_MID_SYMBOL
  doing,     \* the loop, behind a %, in a number, done
  num, base, \* the number in work
  n_str,     \* its digits so far
  out,       \* what has been passed to kputchar
  given      \* history: all arguments

kprintf_vars == <<pieces, args, read, status, doing, num, base, n_str, out, given>>
number == <<num, base, n_str>>

format == Append(Ext!FlattenSeq(pieces), NUL)
fmt_ch == format[read + 1]

Takes(p) == p # Text      \* a piece that has an argument
Taken(k) == Cardinality({j \in 1 .. k : Takes(pieces[j])})   \* those of the first k

Signed(w, bits) == LET v == w % 2^bits
                   IN  IF v >= 2^(bits - 1) THEN v - 2^bits ELSE v

(* Division and remainder of C.                                            *)
Quotient(v, b)  == IF v >= 0 THEN v \div b ELSE -((-v) \div b)
Remainder(v, b) == v - b * Quotient(v, b)

(* -n wraps at the smallest number.                                         *)
Negated(v) == Signed((2^LONG - v) % 2^LONG, LONG)

Digit(v) == IF v >= 10 THEN v - 10 + cA ELSE v + c0

Magnitude(v) == IF v < 0 THEN Negated(v) ELSE v
Sign(v) == IF v < 0 THEN <<cMinus>> ELSE <<>>

(* kprintf is called.                                                       *)
KprintfCalled ==
  /\ pieces \in UNION {[1 .. k -> Pieces] : k \in 0 .. MaxPieces}
  /\ given \in [1 .. Taken(Len(pieces)) -> Words]
  /\ args = given
  /\ read = 0 /\ status = "char" /\ doing = "loop"
  /\ num = 0 /\ base = 10 /\ n_str = <<>>
  /\ out = <<>>

(* A function of the boot stage is called with a word; it prints what a     *)
(* format of one directive would.                                           *)
Called(directive, v, b) ==
  /\ pieces = <<directive>> /\ args = <<>>
  /\ read = Len(directive) /\ status = "char" /\ doing = "number"
  /\ num = Magnitude(v) /\ base = b /\ n_str = <<>>
  /\ out = Sign(v)

boot_printnum(w) == Called(<<cPercent, cL, cD>>, Signed(w, LONG), 10)
boot_printhex(w) == Called(<<cPercent, cL, cX>>, w, 16)

KprintfInit ==
  \/ KprintfCalled
  \/ \E w \in Words : given = <<w>> /\ (boot_printnum(w) \/ boot_printhex(w))

(* A character that is not %.                                               *)
Plain ==
  /\ doing = "loop" /\ fmt_ch \notin {NUL, cPercent}
  /\ out' = Append(out, fmt_ch)
  /\ read' = read + 1
  /\ status' = "char"
  /\ UNCHANGED <<pieces, args, doing, number, given>>

Percent ==
  /\ doing = "loop" /\ fmt_ch = cPercent
  /\ doing' = "repeat" /\ read' = read + 1
  /\ UNCHANGED <<pieces, args, status, number, out, given>>

Long ==
  /\ doing = "repeat" /\ fmt_ch = cL /\ status = "char"
  /\ status' = "mid" /\ read' = read + 1
  /\ UNCHANGED <<pieces, args, doing, number, out, given>>

(* kprintnum and kprinthex are called with v.                               *)
kprint(v, b, prefix) ==
  /\ doing = "repeat" /\ doing' = "number"
  /\ num' = Magnitude(v)
  /\ base' = b /\ n_str' = <<>>
  /\ out' = out \o prefix \o Sign(v)
  /\ args' = Tail(args)
  /\ read' = read + 1 /\ status' = "char"
  /\ UNCHANGED <<pieces, given>>

(* The slip: the argument is not cut.                                       *)
Whole(bits) == LONG
Size(bits)  == bits

long == status = "mid"
Bits == Size(IF long THEN LONG ELSE INT)

(* case 'd'; case 'u', which is printed as a signed number of LONG bits.    *)
Decimal  == fmt_ch = cD /\ kprint(Signed(args[1], Bits), 10, <<>>)
Unsigned == fmt_ch = cU /\ kprint(Signed(args[1] % 2^Bits, LONG), 10, <<>>)
Hex      == fmt_ch = cX /\ kprint(args[1] % 2^Bits, 16, <<>>)
Pointer  == fmt_ch = cP /\ ~long /\ kprint(args[1], 16, <<c0, cX>>)

String ==
  /\ doing = "repeat" /\ fmt_ch = cS /\ ~long
  /\ out' = out \o Text
  /\ args' = Tail(args)
  /\ doing' = "loop" /\ read' = read + 1 /\ status' = "char"
  /\ UNCHANGED <<pieces, number, given>>

Another(v) == v # 0 \/ n_str = <<>>

(* An iteration of do ... while (n).                                        *)
OneDigit ==
  /\ doing = "number" /\ Another(num)
  /\ n_str' = <<Digit(Remainder(num, base))>> \o n_str
  /\ num' = Quotient(num, base)
  /\ UNCHANGED <<pieces, args, read, status, doing, base, out, given>>

NumberEnd ==
  /\ doing = "number" /\ ~Another(num)
  /\ out' = out \o n_str
  /\ doing' = "loop" /\ n_str' = <<>>
  /\ UNCHANGED <<pieces, args, read, status, num, base,given>>

End ==
  /\ doing \in {"loop", "repeat"} /\ fmt_ch = NUL
  /\ doing' = "done"
  /\ UNCHANGED <<pieces, args, read, status, number, out, given>>

Done == doing = "done" /\ UNCHANGED kprintf_vars

KprintfNext ==
  \/ Plain \/ Percent \/ Long \/ Decimal \/ Unsigned \/ Hex \/ Pointer
  \/ String \/ OneDigit \/ NumberEnd \/ End \/ Done

KprintfSpec == KprintfInit /\ [][KprintfNext]_kprintf_vars
-----------------------------------------------------------------------------
(* Properties.                                                              *)

(* A number without leading zeros.                                          *)
Numeral(v, b) ==
  LET k == CHOOSE k \in 1 .. BUFFER : v < b^k /\ (k = 1 \/ v >= b^(k - 1))
  IN  [j \in 1 .. k |-> LET g == (v \div b^(k - j)) % b
                        IN  IF g < 10 THEN g + c0 ELSE g - 10 + cA]
SignedNumeral(v) == IF v < 0 THEN <<cMinus>> \o Numeral(-v, 10) ELSE Numeral(v, 10)

(* What a piece means, as printf has it.                                    *)
Meaning(p, w) ==
  CASE p = <<cPercent, cD>>     -> SignedNumeral(Signed(w, INT))
    [] p = <<cPercent, cU>>     -> Numeral(w % 2^INT, 10)
    [] p = <<cPercent, cX>>     -> Numeral(w % 2^INT, 16)
    [] p = <<cPercent, cL, cD>> -> SignedNumeral(Signed(w, LONG))
    [] p = <<cPercent, cL, cU>> -> Numeral(w, 10)
    [] p = <<cPercent, cL, cX>> -> Numeral(w, 16)
    [] p = <<cPercent, cP>>     -> <<c0, cX>> \o Numeral(w, 16)
    [] OTHER                    -> Text

ArgOf(k) == IF Takes(pieces[k]) THEN given[Taken(k)] ELSE 0

(* The numbers kprintnum cannot print: the smallest one, and with %lu those *)
(* that are negative when they are taken for signed ones.                   *)
Unprintable(p, w) == \/ p = <<cPercent, cL, cD>> /\ w = 2^(LONG - 1)
                     \/ p = <<cPercent, cL, cU>> /\ w >= 2^(LONG - 1)

(* What it makes of them: those of %lu come out as negative numbers, and    *)
(* the digits of the smallest number are counted down from 0 instead of up, *)
(* because its magnitude is negative again.                                 *)
Mirrored(ds) == [j \in DOMAIN ds |-> 2 * c0 - ds[j]]
Misprint(w) ==
  LET v == Signed(w, LONG)
  IN  IF w = 2^(LONG - 1) THEN <<cMinus>> \o Mirrored(Numeral(-v, 10))
                          ELSE SignedNumeral(v)
Printed(p, w) == IF Unprintable(p, w) THEN Misprint(w) ELSE Meaning(p, w)

(* What is printed is the text of the format with each directive replaced   *)
(* by its own argument, also behind a number that comes out wrong; n_str    *)
(* never overflows ("for 64-bit num it's enough": the digits and the 0 at   *)
(* the end).                                                                *)
PrintsFormat ==
  /\ Len(n_str) + 1 <= BUFFER
  /\ doing = "done" =>
       /\ out = Ext!FlattenSeq([k \in DOMAIN pieces |-> Printed(pieces[k], ArgOf(k))])
       /\ args = <<>>
=============================================================================
