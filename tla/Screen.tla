------------------------------- MODULE Screen -------------------------------
(***************************************************************************)
(* What a terminal promises: Rows lines of Columns characters and a place  *)
(* in them.  Each character that is typed is shown, a tab as four blanks,  *)
(* before the next one is taken.  Writing goes on in the next line at the  *)
(* end of a line, and below the last line everything moves up by one.      *)
(***************************************************************************)
EXTENDS Integers, Sequences

CONSTANTS Rows, Columns, Glyphs, Blank

VARIABLES lines, row, col,
          owed      \* what has been typed and is not yet shown

vars == <<lines, row, col, owed>>

BlankLine == [c \in 1 .. Columns |-> Blank]

Init == /\ lines = [r \in 1 .. Rows |-> BlankLine]
        /\ row = 1 /\ col = 1
        /\ owed = <<>>

Type(c) ==
  /\ owed = <<>>
  /\ owed' = IF c = "HT" THEN [i \in 1 .. 4 |-> Blank] ELSE <<c>>
  /\ UNCHANGED <<lines, row, col>>

NextLine(ls) ==
  /\ col' = 1
  /\ \/ row < Rows /\ row' = row + 1 /\ lines' = ls
     \/ row = Rows /\ row' = row /\ lines' = Append(Tail(ls), BlankLine)

Write(g) ==
  LET ls == [lines EXCEPT ![row][col] = g]
  IN  \/ col < Columns /\ lines' = ls /\ row' = row /\ col' = col + 1
      \/ col = Columns /\ NextLine(ls)

NewLine == NextLine(lines)

Return == col' = 1 /\ UNCHANGED <<lines, row>>

Back == col' = (IF col > 1 THEN col - 1 ELSE col) /\ UNCHANGED <<lines, row>>

Show ==
  /\ owed # <<>> /\ owed' = Tail(owed)
  /\ \/ Head(owed) \in Glyphs /\ Write(Head(owed))
     \/ Head(owed) = "LF" /\ NewLine
     \/ Head(owed) = "CR" /\ Return
     \/ Head(owed) = "BS" /\ Back

Next == Show \/ \E c \in Glyphs \cup {"LF", "CR", "BS", "HT"} : Type(c)

Spec == Init /\ [][Next]_vars
=============================================================================
