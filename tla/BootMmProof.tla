----------------------------- MODULE BootMmProof -----------------------------
(***************************************************************************)
(* Proofs about BootMm, for images and tables of any size: on a machine    *)
(* with room for the tables, they lie apart behind the image, and the      *)
(* first page table of the kernel maps what it has to and nothing else.    *)
(*                                                                         *)
(* Each table has a label: its level, and the indexes that lead to it.     *)
(* Entries lead to tables with the label of the next level (Labelled), so  *)
(* a write to a table can be seen at the pages of its label only.          *)
(***************************************************************************)
EXTENDS BootMm, TLAPS

Word   == [addr : Int, attr : SUBSET RW]
Memory == [Frames -> [Idx -> Word]]
Pages  == Idx \X Idx \X Idx \X Idx

-----------------------------------------------------------------------------
(* Numbers.                                                                 *)

(* Quotient and remainder, and that they are the only pair that makes up    *)
(* a number.                                                                *)
LEMMA DivModBack ==
  ASSUME NEW m \in Nat \ {0}, NEW x \in Nat
  PROVE  /\ x \div m \in Nat /\ x % m \in 0 .. m - 1
         /\ x = (x \div m) * m + (x % m)
  BY SMT

LEMMA DivModOf ==
  ASSUME NEW m \in Nat \ {0}, NEW a \in Nat, NEW b \in 0 .. m - 1
  PROVE  (a * m + b) \div m = a /\ (a * m + b) % m = b
  BY SMT

LEMMA SizeOfTables ==
  /\ E \in Nat \ {0} /\ Idx = 0 .. E - 1
  /\ E * E \in Nat \ {0} /\ E * E * E \in Nat \ {0}
<1>1. E \in Nat /\ Idx = 0 .. E - 1 /\ KernelPgd \in Idx
  BY BootAssumption
<1>2. E # 0
  BY <1>1
<1>3. \A x, y \in Nat \ {0} : x * y \in Nat \ {0}
  OBVIOUS
<1>4. E * E \in Nat \ {0}
  BY <1>1, <1>2, <1>3
<1> QED
  BY <1>1, <1>2, <1>3, <1>4

(* To divide twice is to divide by the product.                             *)
LEMMA DivTwice ==
  ASSUME NEW m \in Nat \ {0}, NEW x \in Nat
  PROVE  x \div (m * m) = (x \div m) \div m
<1> DEFINE q == x \div m
           c == x % m
           a == q \div m
           b == q % m
<1>1. q \in Nat /\ c \in 0 .. m - 1 /\ x = q * m + c
  BY DivModBack
<1> HIDE DEF q, c
<1>2. a \in Nat /\ b \in 0 .. m - 1 /\ q = a * m + b
  BY <1>1, DivModBack
<1> HIDE DEF a, b
<1>3. x = (a * m + b) * m + c
  BY <1>1, <1>2
<1>4. (a * m + b) * m = a * (m * m) + b * m
  BY ONLY <1>2, m \in Nat, SMT
<1>5. m * m \in Nat \ {0} /\ b * m + c \in 0 .. (m * m) - 1
  <2>1. b <= m - 1 /\ (m - 1) * m = m * m - m
    BY ONLY <1>2, m \in Nat, SMT
  <2>2. b * m <= (m - 1) * m /\ b * m \in Nat
    BY ONLY <1>2, <2>1, m \in Nat \ {0}, SMT
  <2>3. m * m \in Nat \ {0}
    OBVIOUS
  <2> QED
    BY ONLY <1>1, <2>1, <2>2, <2>3, m \in Nat
<1>6. x = a * (m * m) + (b * m + c)
  BY ONLY <1>1, <1>2, <1>3, <1>4, <1>5, m \in Nat
<1>7. x \div (m * m) = a
  <2> DEFINE M == m * m
             r == b * m + c
  <2>1. M \in Nat \ {0} /\ r \in 0 .. M - 1 /\ x = a * M + r
    BY <1>5, <1>6
  <2> HIDE DEF M, r
  <2>2. x \div M = a
    BY <2>1, <1>2, DivModOf
  <2> QED
    BY <2>2 DEF M
<1> QED
  BY <1>7 DEF a, q

(* The page before one that is not the first of a group of d is in the same *)
(* group.                                                                   *)
LEMMA SameGroup ==
  ASSUME NEW d \in Nat \ {0}, NEW n \in Nat \ {0}, n % d # 0
  PROVE  (n - 1) \div d = n \div d
<1> DEFINE q == n \div d
           c == n % d
<1>1. q \in Nat /\ c \in 0 .. d - 1 /\ n = q * d + c /\ c # 0
  BY DivModBack
<1> HIDE DEF q, c
<1>2. q * d \in Nat
  BY <1>1
<1>3. n - 1 = q * d + (c - 1) /\ c - 1 \in 0 .. d - 1
  BY ONLY <1>1, <1>2, d \in Nat
<1> DEFINE b == c - 1
<1>4. n - 1 = q * d + b /\ b \in 0 .. d - 1
  BY <1>3
<1> HIDE DEF b
<1>5. (n - 1) \div d = q
  BY <1>4, <1>1, DivModOf
<1> QED
  BY <1>5 DEF q

(* How many groups n pages are, and that the next page begins one exactly   *)
(* if it is the first of it.                                                *)
LEMMA Groups ==
  ASSUME NEW d \in Nat \ {0}, NEW n \in Nat
  PROVE  /\ Up(n, d) \in Nat
         /\ Up(n + 1, d) = IF n % d = 0 THEN Up(n, d) + 1 ELSE Up(n, d)
<1> DEFINE q == n \div d
           c == n % d
<1>1. q \in Nat /\ c \in 0 .. d - 1 /\ n = q * d + c
  BY DivModBack
<1> HIDE DEF q, c
<1>2. q * d \in Nat /\ (q + 1) * d = q * d + d
  BY <1>1
<1>3. Up(n + 1, d) = q + 1
  <2>1. (n + 1) + d - 1 = (q + 1) * d + c /\ q + 1 \in Nat
    BY ONLY <1>1, <1>2, d \in Nat
  <2> DEFINE p == q + 1
  <2>2. p \in Nat /\ (n + 1) + d - 1 = p * d + c
    BY <2>1
  <2> HIDE DEF p
  <2>3. (p * d + c) \div d = p
    BY <1>1, <2>2, DivModOf
  <2> QED
    BY <2>2, <2>3 DEF Up, p
<1>4. CASE c = 0
  <2>1. n + d - 1 = q * d + (d - 1) /\ d - 1 \in 0 .. d - 1
    BY ONLY <1>1, <1>2, <1>4, d \in Nat \ {0}
  <2> DEFINE b == d - 1
  <2>2. n + d - 1 = q * d + b /\ b \in 0 .. d - 1
    BY <2>1
  <2> HIDE DEF b
  <2>3. (q * d + b) \div d = q
    BY <1>1, <2>2, DivModOf
  <2>4. Up(n, d) = q
    BY <2>2, <2>3 DEF Up
  <2> QED
    BY <1>1, <1>3, <1>4, <2>4 DEF c
<1>5. CASE c # 0
  <2>1. n + d - 1 = (q + 1) * d + (c - 1) /\ c - 1 \in 0 .. d - 1 /\ q + 1 \in Nat
    BY ONLY <1>1, <1>2, <1>5, d \in Nat \ {0}
  <2> DEFINE b == c - 1
             p == q + 1
  <2>2. n + d - 1 = p * d + b /\ b \in 0 .. d - 1 /\ p \in Nat
    BY <2>1
  <2> HIDE DEF b, p
  <2>3. (p * d + b) \div d = p
    BY <2>2, DivModOf
  <2>4. Up(n, d) = p
    BY <2>2, <2>3 DEF Up
  <2> QED
    BY <1>1, <1>3, <1>5, <2>4 DEF c, p
<1> QED
  BY <1>4, <1>5

LEMMA MoreGroups ==
  ASSUME NEW d \in Nat \ {0}, NEW n \in Nat, NEW o \in Nat, n <= o
  PROVE  Up(n, d) <= Up(o, d)
<1> DEFINE x == n + d - 1
           y == o + d - 1
<1>1. x \in Nat /\ y \in Nat /\ x <= y
  OBVIOUS
<1> HIDE DEF x, y
<1>2. /\ x \div d \in Nat /\ y \div d \in Nat
      /\ x = (x \div d) * d + (x % d) /\ x % d \in 0 .. d - 1
      /\ y = (y \div d) * d + (y % d) /\ y % d \in 0 .. d - 1
  BY <1>1, DivModBack
<1>3. \A a, b, s, t \in Nat :
        t < d /\ a * d + s <= b * d + t => a <= b
  <2> SUFFICES ASSUME NEW a \in Nat, NEW b \in Nat, NEW s \in Nat, NEW t \in Nat,
                      t < d, a * d + s <= b * d + t, b + 1 <= a
               PROVE  FALSE
    OBVIOUS
  <2>1. (b + 1) * d <= a * d /\ (b + 1) * d = b * d + d
    BY ONLY a \in Nat, b \in Nat, b + 1 <= a, d \in Nat, SMT
  <2>2. a * d \in Nat /\ b * d \in Nat
    OBVIOUS
  <2> QED
    BY ONLY <2>1, <2>2, s \in Nat, t \in Nat, d \in Nat, t < d, a * d + s <= b * d + t
<1>4. x \div d <= y \div d
  <2> DEFINE a == x \div d
             b == y \div d
             s == x % d
             t == y % d
  <2>1. a \in Nat /\ b \in Nat /\ s \in Nat /\ t \in Nat /\ t < d /\ a * d + s <= b * d + t
    BY <1>1, <1>2
  <2> HIDE DEF a, b, s, t
  <2>2. a <= b
    BY <2>1, <1>3
  <2> QED
    BY <2>2 DEF a, b
<1> QED
  BY <1>4 DEF Up, x, y

-----------------------------------------------------------------------------
(* Pages in a row.                                                          *)

Numbers == 0 .. E * E * E - 1

LEMMA VaFacts ==
  ASSUME NEW top \in Idx, NEW f \in Numbers
  PROVE  /\ Va(top, f) \in Pages
         /\ Va(top, f)[1] = top /\ Va(top, f)[2] = f \div (E * E)
         /\ Va(top, f)[3] = (f \div E) % E /\ Va(top, f)[4] = f % E
<1>1. f \in Nat /\ f < E * E * E
  BY SizeOfTables DEF Numbers
<1>2. (f \div E) % E \in Idx /\ f % E \in Idx
  BY <1>1, SizeOfTables, DivModBack
<1>3. f \div (E * E) \in Idx
  <2> DEFINE d == E * E
             a == f \div d
             r == f % d
  <2>1. d \in Nat \ {0} /\ f < d * E
    BY <1>1, SizeOfTables
  <2> HIDE DEF d
  <2>2. a \in Nat /\ r \in 0 .. d - 1 /\ f = a * d + r
    BY <1>1, <2>1, DivModBack
  <2> HIDE DEF a, r
  <2>3. ASSUME E <= a PROVE FALSE
    <3>1. d * E <= a * d
      BY ONLY <2>1, <2>2, <2>3, SizeOfTables, SMT
    <3>2. a * d \in Nat /\ d * E \in Nat
      BY <2>1, <2>2, SizeOfTables
    <3> QED
      BY ONLY <3>1, <3>2, <2>1, <2>2, <1>1
  <2>4. a \in Idx
    BY <2>2, <2>3, SizeOfTables
  <2> QED
    BY <2>4 DEF a, d
<1> QED
  BY <1>2, <1>3 DEF Va, Pages

(* No two of them are the same.                                             *)
LEMMA VaOne ==
  ASSUME NEW top \in Idx, NEW f \in Numbers, NEW g \in Numbers, Va(top, f) = Va(top, g)
  PROVE  f = g
<1>1. f \in Nat /\ g \in Nat
  BY SizeOfTables DEF Numbers
<1>2. /\ f \div (E * E) = g \div (E * E)
      /\ (f \div E) % E = (g \div E) % E
      /\ f % E = g % E
  BY VaFacts
<1>3. f \div (E * E) = (f \div E) \div E /\ g \div (E * E) = (g \div E) \div E
  BY <1>1, SizeOfTables, DivTwice
<1>4. f \div E \in Nat /\ g \div E \in Nat
  BY <1>1, SizeOfTables, DivModBack
<1>5. /\ f \div E = ((f \div E) \div E) * E + ((f \div E) % E)
      /\ g \div E = ((g \div E) \div E) * E + ((g \div E) % E)
  BY <1>4, SizeOfTables, DivModBack
<1>6. f \div E = g \div E
  BY <1>2, <1>3, <1>5
<1>7. f = (f \div E) * E + (f % E) /\ g = (g \div E) * E + (g % E)
  BY <1>1, SizeOfTables, DivModBack
<1> QED
  BY <1>2, <1>6, <1>7

(* The page before shares with this one the tables that do not begin at it. *)
LEMMA VaBefore ==
  ASSUME NEW top \in Idx, NEW f \in Numbers, f # 0
  PROVE  /\ f - 1 \in Numbers
         /\ f % (E * E * E) # 0
         /\ f % (E * E) # 0 => Va(top, f - 1)[2] = Va(top, f)[2]
         /\ f % E # 0 => /\ Va(top, f - 1)[2] = Va(top, f)[2]
                         /\ Va(top, f - 1)[3] = Va(top, f)[3]
<1>1. f \in Nat \ {0} /\ f - 1 \in Nat /\ f - 1 \in Numbers /\ f < E * E * E
  BY SizeOfTables DEF Numbers
<1>2. f % (E * E * E) # 0
  <2> DEFINE d == E * E * E
  <2>1. d \in Nat \ {0} /\ f < d
    BY <1>1, SizeOfTables
  <2> HIDE DEF d
  <2>2. f = 0 * d + f /\ f \in 0 .. d - 1
    BY <1>1, <2>1
  <2>3. f % d = f
    BY <2>1, <2>2, DivModOf
  <2> QED
    BY <1>1, <2>3 DEF d
<1>3. ASSUME f % (E * E) # 0 PROVE Va(top, f - 1)[2] = Va(top, f)[2]
  <2> DEFINE d == E * E
  <2>1. d \in Nat \ {0} /\ f % d # 0
    BY <1>3, SizeOfTables
  <2> HIDE DEF d
  <2>2. (f - 1) \div d = f \div d
    BY <1>1, <2>1, SameGroup
  <2> QED
    BY <1>1, <2>2, VaFacts DEF d
<1>4. ASSUME f % E # 0
      PROVE  /\ Va(top, f - 1)[2] = Va(top, f)[2]
             /\ Va(top, f - 1)[3] = Va(top, f)[3]
  <2>1. (f - 1) \div E = f \div E
    BY <1>1, <1>4, SizeOfTables, SameGroup
  <2>2. f \div (E * E) = (f \div E) \div E /\ (f - 1) \div (E * E) = ((f - 1) \div E) \div E
    BY <1>1, SizeOfTables, DivTwice
  <2> QED
    BY <1>1, <2>1, <2>2, VaFacts
<1> QED
  BY <1>1, <1>2, <1>3, <1>4

(* The tables the next page may take: one of a level if it is the first     *)
(* page of it.                                                              *)
First(n, d) == IF n % d = 0 THEN 1 ELSE 0

LEMMA TablesGrow ==
  ASSUME NEW n \in Nat
  PROVE  /\ TablesFor(n) \in Nat
         /\ TablesFor(n + 1) = TablesFor(n) + First(n, E) + First(n, E * E)
                                 + First(n, E * E * E)
<1> DEFINE F == E
           G == E * E
           H == E * E * E
<1>1. F \in Nat \ {0} /\ G \in Nat \ {0} /\ H \in Nat \ {0}
  BY SizeOfTables
<1>2. /\ TablesFor(n) = Up(n, F) + Up(n, G) + Up(n, H)
      /\ TablesFor(n + 1) = Up(n + 1, F) + Up(n + 1, G) + Up(n + 1, H)
  BY DEF TablesFor
<1> HIDE DEF F, G, H
<1>3. \A d \in {F, G, H} : /\ Up(n, d) \in Nat
                           /\ Up(n + 1, d) = Up(n, d) + First(n, d)
                           /\ First(n, d) \in {0, 1}
  <2> TAKE d \in {F, G, H}
  <2>1. d \in Nat \ {0}
    BY <1>1
  <2>2. First(n, d) = IF n % d = 0 THEN 1 ELSE 0
    BY DEF First
  <2>3. Up(n, d) \in Nat /\ Up(n + 1, d) = IF n % d = 0 THEN Up(n, d) + 1 ELSE Up(n, d)
    BY <2>1, Groups
  <2> QED
    BY <2>2, <2>3
<1>4. /\ TablesFor(n) \in Nat
      /\ TablesFor(n + 1) = TablesFor(n) + First(n, F) + First(n, G) + First(n, H)
  BY <1>2, <1>3
<1> QED
  BY <1>4 DEF F, G, H

LEMMA TablesMore ==
  ASSUME NEW n \in Nat, NEW o \in Nat, n <= o
  PROVE  TablesFor(n) <= TablesFor(o)
<1>1. \A d \in {E, E * E, E * E * E} : /\ Up(n, d) \in Nat /\ Up(o, d) \in Nat
                                       /\ Up(n, d) <= Up(o, d)
  BY SizeOfTables, Groups, MoreGroups
<1> QED
  BY <1>1 DEF TablesFor

-----------------------------------------------------------------------------
(* Walks through labelled tables.                                           *)

Labels == (1 .. 4) \X Idx \X Idx \X Idx
Top    == <<1, 0, 0, 0>>

(* The label of what entry i of a table leads to.                           *)
Below(l, i) == IF l[1] = 1 THEN <<2, i, 0, 0>>
               ELSE IF l[1] = 2 THEN <<3, l[2], i, 0>>
               ELSE <<4, l[2], l[3], i>>

Labelled(m, R, C, lab) ==
  /\ C \subseteq Tables /\ R \in C
  /\ lab \in [C -> Labels] /\ lab[R] = Top
  /\ \A t \in C, i \in Idx :
       lab[t][1] # 4 /\ m[t][i] # Empty =>
         m[t][i].addr \in C /\ lab[m[t][i].addr] = Below(lab[t], i)

(* What a walk finds: frame f, or nothing.                                  *)
Maps(m, R, va, f) == Walkable(m, R, va) /\ pte(m, R, va).addr = f
Bare(m, R, va)    == ~Walkable(m, R, va) \/ pte(m, R, va) = Empty

Kept(m, m1, R, va) == /\ \A f \in Nat : Maps(m, R, va, f) => Maps(m1, R, va, f)
                      /\ Bare(m, R, va) => Bare(m1, R, va)

LEMMA PageFacts ==
  ASSUME NEW va \in Pages
  PROVE  va[1] \in Idx /\ va[2] \in Idx /\ va[3] \in Idx /\ va[4] \in Idx
  BY DEF Pages

LEMMA BelowFacts ==
  /\ \A i \in Idx : Below(Top, i) = <<2, i, 0, 0>>
  /\ \A i, j \in Idx : Below(<<2, j, 0, 0>>, i) = <<3, j, i, 0>>
  /\ \A i, j, n \in Idx : Below(<<3, j, n, 0>>, i) = <<4, j, n, i>>
  BY DEF Below, Top

LEMMA BelowIsLabel ==
  ASSUME NEW l \in Labels, NEW i \in Idx
  PROVE  Below(l, i) \in Labels
<1>1. 0 \in Idx
  BY SizeOfTables
<1> QED
  BY <1>1 DEF Below, Labels

(* A walk comes through tables with the labels of its page.                 *)
LEMMA WalkLabels ==
  ASSUME NEW m, NEW R, NEW C, NEW lab, Labelled(m, R, C, lab), NEW va \in Pages
  PROVE  /\ pgd(m, R, va) # Empty =>
              /\ pgd(m, R, va).addr \in C
              /\ lab[pgd(m, R, va).addr] = <<2, va[1], 0, 0>>
         /\ pgd(m, R, va) # Empty /\ pud(m, R, va) # Empty =>
              /\ pud(m, R, va).addr \in C
              /\ lab[pud(m, R, va).addr] = <<3, va[1], va[2], 0>>
         /\ Walkable(m, R, va) =>
              /\ pmd(m, R, va).addr \in C
              /\ lab[pmd(m, R, va).addr] = <<4, va[1], va[2], va[3]>>
<1>1. va[1] \in Idx /\ va[2] \in Idx /\ va[3] \in Idx
  BY PageFacts
<1>2. \A t \in C, i \in Idx : lab[t][1] # 4 /\ m[t][i] # Empty =>
        m[t][i].addr \in C /\ lab[m[t][i].addr] = Below(lab[t], i)
  BY DEF Labelled
<1>3. R \in C /\ lab[R] = Top /\ Top[1] # 4
  BY DEF Labelled, Top
<1> DEFINE a == pgd(m, R, va)
           b == pud(m, R, va)
           c == pmd(m, R, va)
<1>4. a = m[R][va[1]] /\ b = m[a.addr][va[2]] /\ c = m[b.addr][va[3]]
  BY DEF pgd, pud, pmd
<1>5. Walkable(m, R, va) => a # Empty /\ b # Empty /\ c # Empty
  BY DEF Walkable
<1> HIDE DEF a, b, c
<1>6. a # Empty => a.addr \in C /\ lab[a.addr] = <<2, va[1], 0, 0>>
  BY <1>1, <1>2, <1>3, <1>4, BelowFacts
<1>7. a # Empty /\ b # Empty => b.addr \in C /\ lab[b.addr] = <<3, va[1], va[2], 0>>
  <2> HAVE a # Empty /\ b # Empty
  <2>1. a.addr \in C /\ lab[a.addr] = <<2, va[1], 0, 0>> /\ lab[a.addr][1] # 4
    BY <1>6
  <2>2. b.addr \in C /\ lab[b.addr] = Below(<<2, va[1], 0, 0>>, va[2])
    BY <1>1, <1>2, <1>4, <2>1
  <2> QED
    BY <1>1, <2>2, BelowFacts
<1>8. a # Empty /\ b # Empty /\ c # Empty =>
        c.addr \in C /\ lab[c.addr] = <<4, va[1], va[2], va[3]>>
  <2> HAVE a # Empty /\ b # Empty /\ c # Empty
  <2>1. b.addr \in C /\ lab[b.addr] = <<3, va[1], va[2], 0>> /\ lab[b.addr][1] # 4
    BY <1>7
  <2>2. c.addr \in C /\ lab[c.addr] = Below(<<3, va[1], va[2], 0>>, va[3])
    BY <1>1, <1>2, <1>4, <2>1
  <2> QED
    BY <1>1, <2>2, BelowFacts
<1> QED
  BY <1>5, <1>6, <1>7, <1>8 DEF a, b, c

(* Where an entry is made in an upper table, for a table that is cleared.   *)
Linked(m, m1, C, t, i, f) ==
  /\ \A u \in C, j \in Idx : u # t \/ j # i => m1[u][j] = m[u][j]
  /\ m1[t][i] # Empty /\ m1[t][i].addr = f
  /\ \A j \in Idx : m1[f][j] = Empty

LEMMA EnsureLinks ==
  ASSUME NEW m \in Memory, NEW C, C \subseteq Tables, NEW t \in C, NEW i \in Idx,
         m[t][i] = Empty, NEW f \in Tables, f \notin C,
         NEW a \in SUBSET RW, a # {}
  PROVE  /\ Ensure(m, t, i, f, a) \in Memory
         /\ Linked(m, Ensure(m, t, i, f, a), C, t, i, f)
<1> DEFINE e  == [addr |-> f, attr |-> {}]
           m1 == [m EXCEPT ![t][i] = e]
           m2 == Clear(m1, f)
           m3 == [m2 EXCEPT ![t][i].attr = @ \cup a]
<1>1. Ensure(m, t, i, f, a) = m3
  BY DEF Ensure
<1>2. t \in Frames /\ f \in Frames /\ C \subseteq Frames /\ f # t
  BY DEF Frames
<1>3. f \in Int
  BY WalkAssumption
<1>4. Empty \in Word /\ e \in Word
  BY <1>3 DEF Word, Empty, Zero
<1>5. /\ m1 \in Memory /\ m1[t][i] = e
      /\ \A u \in Frames, j \in Idx : u # t \/ j # i => m1[u][j] = m[u][j]
  BY <1>2, <1>4 DEF Memory
<1> HIDE DEF m1
<1>6. /\ m2 \in Memory
      /\ \A j \in Idx : m2[f][j] = Empty
      /\ \A u \in Frames : u # f => m2[u] = m1[u]
  BY <1>2, <1>4, <1>5 DEF Memory, Clear
<1> HIDE DEF m2
<1>7. m2[t][i] = e
  BY <1>2, <1>5, <1>6
<1> DEFINE w == [addr |-> f, attr |-> a]
<1>9. [m2[t][i] EXCEPT !.attr = @ \cup a] = w /\ w \in Word
  BY <1>3, <1>7 DEF Word
<1>10. m3 = [m2 EXCEPT ![t] = [m2[t] EXCEPT ![i] = w]]
  BY <1>9, <1>6 DEF Memory
<1>12. w # Empty /\ w.addr = f
  BY DEF Empty
<1> HIDE DEF w
<1> HIDE DEF m3, e
<1>11. /\ m3 \in Memory /\ m3[t][i] = w
       /\ \A u \in Frames, j \in Idx : u # t \/ j # i => m3[u][j] = m2[u][j]
  BY <1>2, <1>6, <1>9, <1>10 DEF Memory
<1>13. \A u \in C, j \in Idx : u # t \/ j # i => m3[u][j] = m[u][j]
  <2> TAKE u \in C, j \in Idx
  <2> HAVE u # t \/ j # i
  <2>1. u \in Frames /\ u # f
    BY <1>2
  <2> QED
    BY <2>1, <1>5, <1>6, <1>11
<1>14. \A j \in Idx : m3[f][j] = Empty
  BY <1>2, <1>6, <1>11
<1> QED
  BY <1>1, <1>11, <1>12, <1>13, <1>14 DEF Linked

Longer(lab, C, f, l) == [u \in C \cup {f} |-> IF u = f THEN l ELSE lab[u]]

(* The new table has a label, and no page is found where it was not.        *)
LEMMA LinkedLabels ==
  ASSUME NEW m, NEW m1, NEW R, NEW C, NEW lab, Labelled(m, R, C, lab),
         NEW t \in C, lab[t][1] # 4, NEW i \in Idx, m[t][i] = Empty,
         NEW f \in Tables, f \notin C, Linked(m, m1, C, t, i, f)
  PROVE  Labelled(m1, R, C \cup {f}, Longer(lab, C, f, Below(lab[t], i)))
<1> DEFINE lab1 == Longer(lab, C, f, Below(lab[t], i))
<1>1. lab1[f] = Below(lab[t], i) /\ \A u \in C : lab1[u] = lab[u]
  BY DEF Longer
<1>2. C \cup {f} \subseteq Tables /\ R \in C /\ lab1[R] = Top
  BY <1>1 DEF Labelled
<1>3. lab1 \in [C \cup {f} -> Labels]
  BY BelowIsLabel DEF Labelled, Longer
<1> HIDE DEF lab1
<1>4. ASSUME NEW u \in C \cup {f}, NEW j \in Idx, lab1[u][1] # 4, m1[u][j] # Empty
      PROVE  m1[u][j].addr \in C \cup {f} /\ lab1[m1[u][j].addr] = Below(lab1[u], j)
  <2>1. u # f
    BY <1>4 DEF Linked
  <2>2. CASE u = t /\ j = i
    BY <1>1, <2>2 DEF Linked
  <2>3. CASE u # t \/ j # i
    <3>1. u \in C /\ m1[u][j] = m[u][j] /\ lab1[u] = lab[u]
      BY <2>1, <2>3, <1>1 DEF Linked
    <3>2. m[u][j].addr \in C /\ lab[m[u][j].addr] = Below(lab[u], j)
      BY <3>1, <1>4 DEF Labelled
    <3> QED
      BY <3>1, <3>2, <1>1
  <2> QED
    BY <2>2, <2>3
<1>5. Labelled(m1, R, C \cup {f}, lab1)
  BY <1>2, <1>3, <1>4 DEF Labelled
<1> QED
  BY <1>5 DEF lab1

LEMMA LinkedKeeps ==
  ASSUME NEW m, NEW m1, NEW R, NEW C, NEW lab, Labelled(m, R, C, lab),
         NEW t \in C, lab[t][1] # 4, NEW i \in Idx, m[t][i] = Empty,
         NEW f, Linked(m, m1, C, t, i, f), NEW va \in Pages
  PROVE  Kept(m, m1, R, va)
<1>1. va[1] \in Idx /\ va[2] \in Idx /\ va[3] \in Idx /\ va[4] \in Idx
  BY PageFacts
<1> DEFINE a == pgd(m, R, va)     a1 == pgd(m1, R, va)
           b == pud(m, R, va)     b1 == pud(m1, R, va)
           c == pmd(m, R, va)     c1 == pmd(m1, R, va)
           d == pte(m, R, va)     d1 == pte(m1, R, va)
<1>2. /\ a = m[R][va[1]] /\ b = m[a.addr][va[2]] /\ c = m[b.addr][va[3]] /\ d = m[c.addr][va[4]]
      /\ a1 = m1[R][va[1]] /\ b1 = m1[a1.addr][va[2]]
      /\ c1 = m1[b1.addr][va[3]] /\ d1 = m1[c1.addr][va[4]]
  BY DEF pgd, pud, pmd, pte
<1>3. /\ Walkable(m, R, va) <=> a # Empty /\ b # Empty /\ c # Empty
      /\ Walkable(m1, R, va) <=> a1 # Empty /\ b1 # Empty /\ c1 # Empty
  BY DEF Walkable
<1>4. /\ a # Empty => a.addr \in C
      /\ a # Empty /\ b # Empty => b.addr \in C
      /\ a # Empty /\ b # Empty /\ c # Empty =>
           c.addr \in C /\ lab[c.addr] = <<4, va[1], va[2], va[3]>>
  BY WalkLabels, <1>3
<1>6. R \in C
  BY DEF Labelled
<1> HIDE DEF a, b, c, d, a1, b1, c1, d1
<1>7. \A u \in C, j \in Idx : m[u][j] # Empty => m1[u][j] = m[u][j]
  BY DEF Linked
<1>8. \A u \in C, j \in Idx : m1[u][j] = m[u][j] \/ (m1[u][j].addr = f /\ m[u][j] = Empty)
  BY DEF Linked
<1>9. \A j \in Idx : m1[f][j] = Empty
  BY DEF Linked
<1>10. CASE Walkable(m, R, va)
  <2>1. a1 = a
    BY <1>1, <1>2, <1>3, <1>6, <1>7, <1>10
  <2> DEFINE x == a.addr
             y == b.addr
             z == c.addr
  <2>7. x \in C /\ y \in C /\ b # Empty /\ c # Empty
    BY <1>3, <1>4, <1>10
  <2>8. /\ b = m[x][va[2]] /\ c = m[y][va[3]] /\ d = m[z][va[4]]
        /\ a1 = a => b1 = m1[x][va[2]]
        /\ b1 = b => c1 = m1[y][va[3]]
        /\ c1 = c => d1 = m1[z][va[4]]
    BY <1>2
  <2>4. z # t /\ z \in C
    BY <1>3, <1>4, <1>10
  <2> HIDE DEF x, y, z
  <2>2. b1 = b
    BY <1>1, <1>7, <2>1, <2>7, <2>8
  <2>3. c1 = c
    BY <1>1, <1>7, <2>2, <2>7, <2>8
  <2>5. d1 = d
    BY <1>1, <2>3, <2>4, <2>8 DEF Linked
  <2>6. Walkable(m1, R, va)
    BY <1>3, <1>10, <2>1, <2>2, <2>3
  <2> QED
    BY <1>10, <2>5, <2>6 DEF Kept, Maps, Bare, d, d1
<1>11. CASE ~Walkable(m, R, va)
  <2>1. Bare(m1, R, va)
    <3>1. SUFFICES ASSUME a1 # Empty, b1 # Empty, c1 # Empty
                   PROVE  d1 = Empty
      BY <1>3 DEF Bare, d1
    <3>2. a1 = a
      BY <3>1, <1>1, <1>2, <1>6, <1>8, <1>9
    <3> DEFINE x == a.addr
               y == b.addr
    <3>6. /\ b = m[x][va[2]] /\ b1 = m1[x][va[2]] /\ x \in C
          /\ a1.addr = x
      BY <3>1, <3>2, <1>2, <1>4
    <3>7. b1.addr # f
      BY <3>1, <1>1, <1>2, <1>9
    <3> HIDE DEF x
    <3>3. b1 = b
      BY <3>6, <3>7, <1>1, <1>8
    <3>8. /\ c = m[y][va[3]] /\ c1 = m1[y][va[3]] /\ y \in C
      BY <3>1, <3>2, <3>3, <1>2, <1>4
    <3> HIDE DEF y
    <3>4. c = Empty
      BY <3>1, <3>2, <3>3, <1>3, <1>11
    <3>5. c1.addr = f
      BY <3>1, <3>4, <3>8, <1>1, <1>8
    <3> QED
      BY <3>5, <1>1, <1>2, <1>9
  <2> QED
    BY <1>11, <2>1 DEF Kept, Maps
<1> QED
  BY <1>10, <1>11

Put(m, t, i, e) == [m EXCEPT ![t][i] = e]

(* What is written in a lowest table is seen at the page it is for only.    *)
LEMMA WriteLabels ==
  ASSUME NEW m \in Memory, NEW R, NEW C, NEW lab, Labelled(m, R, C, lab),
         NEW va \in Pages, NEW t \in C, lab[t] = <<4, va[1], va[2], va[3]>>,
         NEW e \in Word, NEW m1, m1 = Put(m, t, va[4], e)
  PROVE  /\ m1 \in Memory
         /\ Labelled(m1, R, C, lab)
         /\ \A v \in Pages : v # va => Kept(m, m1, R, v)
         /\ Walkable(m, R, va) /\ pmd(m, R, va).addr = t =>
              Walkable(m1, R, va) /\ pte(m1, R, va) = e
<1>1. C \subseteq Frames /\ va[4] \in Idx
  BY PageFacts DEF Labelled, Frames
<1>2. /\ m1 \in Memory /\ m1[t][va[4]] = e
      /\ \A u \in C, j \in Idx : u # t \/ j # va[4] => m1[u][j] = m[u][j]
  BY <1>1 DEF Memory, Put
<1>3. lab[t][1] = 4
  OBVIOUS
<1>4. \A u \in C, j \in Idx : lab[u][1] # 4 => m1[u][j] = m[u][j]
  BY <1>2, <1>3
<1>5. Labelled(m1, R, C, lab)
  BY <1>4 DEF Labelled
<1>6. R \in C /\ lab[R][1] # 4
  BY DEF Labelled, Top
<1>7. ASSUME NEW v \in Pages
      PROVE  /\ Walkable(m1, R, v) <=> Walkable(m, R, v)
             /\ Walkable(m, R, v) => pmd(m1, R, v) = pmd(m, R, v)
  <2>1. v[1] \in Idx /\ v[2] \in Idx /\ v[3] \in Idx
    BY PageFacts
  <2> DEFINE a == pgd(m, R, v)     a1 == pgd(m1, R, v)
             b == pud(m, R, v)     b1 == pud(m1, R, v)
             c == pmd(m, R, v)     c1 == pmd(m1, R, v)
             x == a.addr           y == b.addr
  <2>2. /\ a = m[R][v[1]] /\ b = m[x][v[2]] /\ c = m[y][v[3]]
        /\ a1 = m1[R][v[1]] /\ (a1 = a => b1 = m1[x][v[2]]) /\ (b1 = b => c1 = m1[y][v[3]])
    BY DEF pgd, pud, pmd
  <2>3. /\ a # Empty => x \in C /\ lab[x][1] # 4
        /\ a # Empty /\ b # Empty => y \in C /\ lab[y][1] # 4
    BY WalkLabels
  <2>4. /\ Walkable(m, R, v) <=> a # Empty /\ b # Empty /\ c # Empty
        /\ Walkable(m1, R, v) <=> a1 # Empty /\ b1 # Empty /\ c1 # Empty
    BY DEF Walkable
  <2> HIDE DEF a, b, c, a1, b1, c1, x, y
  <2>5. a1 = a
    BY <2>1, <2>2, <1>4, <1>6
  <2>6. a # Empty => b1 = b
    BY <2>1, <2>2, <2>3, <2>5, <1>4
  <2>7. a # Empty /\ b # Empty => c1 = c
    BY <2>1, <2>2, <2>3, <2>6, <1>4
  <2> QED
    BY <2>4, <2>5, <2>6, <2>7 DEF c, c1
<1>8. ASSUME NEW v \in Pages, v # va, Walkable(m, R, v)
      PROVE  pte(m1, R, v) = pte(m, R, v)
  <2> DEFINE z == pmd(m, R, v).addr
  <2>1. z \in C /\ lab[z] = <<4, v[1], v[2], v[3]>>
    BY <1>8, WalkLabels
  <2>2. pte(m, R, v) = m[z][v[4]] /\ pte(m1, R, v) = m1[z][v[4]] /\ v[4] \in Idx
    BY <1>7, <1>8, PageFacts DEF pte
  <2> HIDE DEF z
  <2>3. z # t \/ v[4] # va[4]
    <3> SUFFICES ASSUME z = t, v[4] = va[4] PROVE FALSE
      OBVIOUS
    <3>1. v[1] = va[1] /\ v[2] = va[2] /\ v[3] = va[3]
      BY <2>1
    <3>2. v = <<v[1], v[2], v[3], v[4]>> /\ va = <<va[1], va[2], va[3], va[4]>>
      BY DEF Pages
    <3> QED
      BY <3>1, <3>2, <1>8
  <2> QED
    BY <2>1, <2>2, <2>3, <1>2
<1>9. ASSUME NEW v \in Pages, v # va PROVE Kept(m, m1, R, v)
  BY <1>7, <1>8, <1>9 DEF Kept, Maps, Bare
<1>10. ASSUME Walkable(m, R, va), pmd(m, R, va).addr = t
       PROVE  Walkable(m1, R, va) /\ pte(m1, R, va) = e
  BY <1>2, <1>7, <1>10 DEF pte
<1> QED
  BY <1>2, <1>5, <1>9, <1>10

-----------------------------------------------------------------------------
(* The levels of boot_pgtable_map.                                          *)

State == [start : Nat, mem : Memory, chunk : Nat, table : Nat, chunks : Seq(Nat),
          refused : BOOLEAN]

(* The first n pages behind the image.                                      *)
Upto(n) == image.end + 1 .. image.end + n

(* Room, for the machine at hand.                                           *)
Roomy == /\ image.end \in Nat /\ total \in Nat /\ Need(image) \in Nat
         /\ image.end + Need(image) + 1 < total
         /\ Upto(Need(image)) \subseteq Tables

(* What was handed out is the pages behind the image, one after the other,  *)
(* and they hold labelled tables.                                           *)
Handed(m) ==
  /\ m \in State /\ ~m.refused
  /\ Len(m.chunks) <= Need(image)
  /\ m.start = image.end + 1 + Len(m.chunks)
  /\ \A i \in 1 .. Len(m.chunks) : m.chunks[i] = image.end + i

Good(m, lab) ==
  /\ Handed(m)
  /\ Labelled(m.mem, root, Upto(Len(m.chunks)), lab)

(* One level down, by an entry that was there or has been made.             *)
Climbs(m, lab, r, lab1, i) ==
  /\ Good(r, lab1)
  /\ r.table \in Upto(Len(r.chunks)) /\ lab1[r.table] = Below(lab[m.table], i)
  /\ r.mem[m.table][i] # Empty /\ r.mem[m.table][i].addr = r.table
  /\ Len(m.chunks) <= Len(r.chunks)
  /\ \A u \in Upto(Len(m.chunks)) :
       /\ lab1[u] = lab[u]
       /\ \A j \in Idx : m.mem[u][j] # Empty => r.mem[u][j] = m.mem[u][j]
  /\ \A v \in Pages : Kept(m.mem, r.mem, root, v)

LEMMA AllocOK ==
  ASSUME Roomy, NEW m, NEW lab, Good(m, lab), Len(m.chunks) + 1 <= Need(image)
  PROVE  boot_mm_alloc(m) =
           [start |-> m.start + 1, mem |-> m.mem, chunk |-> m.start, table |-> m.table,
            chunks |-> Append(m.chunks, m.start), refused |-> m.refused]
<1>1. m \in State /\ Len(m.chunks) \in Nat
  BY DEF Good, Handed, State
<1>2. ~(m.start + 1 >= total)
  BY <1>1 DEF Good, Handed, Roomy
<1> DEFINE cs == Append(m.chunks, m.start)
           st == m.start
           s1 == m.start + 1
<1>3. boot_mm_alloc(m) = [m EXCEPT !.chunk = st, !.start = s1, !.chunks = cs]
  BY <1>2 DEF boot_mm_alloc
<1> HIDE DEF cs, st, s1
<1>4. m = [start |-> m.start, mem |-> m.mem, chunk |-> m.chunk, table |-> m.table,
           chunks |-> m.chunks, refused |-> m.refused]
  BY <1>1 DEF State
<1>5. boot_mm_alloc(m) =
        [start |-> s1, mem |-> m.mem, chunk |-> st, table |-> m.table,
         chunks |-> cs, refused |-> m.refused]
  BY ONLY <1>3, <1>4
<1> QED
  BY <1>5 DEF cs, st, s1

LEMMA LevelOK ==
  ASSUME Roomy, NEW m, NEW lab, Good(m, lab), NEW i \in Idx,
         m.table \in Upto(Len(m.chunks)), lab[m.table][1] # 4,
         NEW attr \in SUBSET RW, attr # {}, NEW c \in {0, 1},
         m.mem[m.table][i] = Empty => c = 1, Len(m.chunks) + c <= Need(image)
  PROVE  \E lab1 : /\ Climbs(m, lab, Level(m, i, attr), lab1, i)
                   /\ Len(Level(m, i, attr).chunks) <= Len(m.chunks) + c
<1> DEFINE n == Len(m.chunks)
           C == Upto(n)
           t == m.table
           r == Level(m, i, attr)
<1>1. /\ m \in State /\ n \in Nat /\ m.start = image.end + 1 + n /\ n <= Need(image)
      /\ Labelled(m.mem, root, C, lab) /\ m.mem \in Memory /\ m.start \in Nat
      /\ m.chunks \in Seq(Nat) /\ image.end \in Nat /\ Need(image) \in Nat
      /\ \A j \in 1 .. n : m.chunks[j] = image.end + j
      /\ ~m.refused
  BY DEF Good, Handed, State, Roomy
<1>2. C \subseteq Tables /\ C \subseteq Nat /\ t \in C
  BY <1>1 DEF Labelled, Upto
<1>3. m = [start |-> m.start, mem |-> m.mem, chunk |-> m.chunk, table |-> t,
           chunks |-> m.chunks, refused |-> m.refused]
  BY <1>1 DEF State
<1>4. CASE m.mem[t][i] # Empty
  <2> DEFINE f == m.mem[t][i].addr
  <2>1. r = [m EXCEPT !.mem = m.mem, !.table = f]
    <3>1. Ensure(m.mem, t, i, m.chunk, attr) = m.mem
      BY <1>4 DEF Ensure
    <3> QED
      BY <1>4, <3>1 DEF Level
  <2>2. f \in C /\ lab[f] = Below(lab[t], i)
    BY <1>1, <1>2, <1>4 DEF Labelled
  <2> HIDE DEF r, f
  <2>3. r = [start |-> m.start, mem |-> m.mem, chunk |-> m.chunk, table |-> f,
             chunks |-> m.chunks, refused |-> m.refused]
    BY ONLY <2>1, <1>3
  <2>4. f \in Nat
    BY <2>2, <1>2
  <2>5. /\ r.mem = m.mem /\ r.table = f /\ r.chunks = m.chunks /\ r.start = m.start
        /\ r.refused = m.refused /\ r \in State
    BY <1>1, <2>3, <2>4 DEF State
  <2>6. Good(r, lab)
    BY <1>1, <2>5 DEF Good, Handed
  <2>7. r.mem[t][i] # Empty /\ r.mem[t][i].addr = r.table
    BY <2>5, <1>4 DEF f
  <2>8. \A v \in Pages : Kept(m.mem, r.mem, root, v)
    BY <2>5 DEF Kept
  <2>9. Climbs(m, lab, r, lab, i)
    BY <1>1, <2>2, <2>5, <2>6, <2>7, <2>8 DEF Climbs
  <2>10. Len(r.chunks) <= Len(m.chunks) + c
    BY <1>1, <2>5
  <2> QED
    BY <2>9, <2>10 DEF r
<1>5. CASE m.mem[t][i] = Empty
  <2> DEFINE f  == m.start
             a  == boot_mm_alloc(m)
             m2 == Ensure(m.mem, t, i, f, attr)
             cs == Append(m.chunks, f)
  <2>1. c = 1 /\ n + 1 <= Need(image)
    BY <1>5, <1>1
  <2>2. a = [start |-> f + 1, mem |-> m.mem, chunk |-> f, table |-> t, chunks |-> cs,
             refused |-> m.refused]
    BY <2>1, AllocOK
  <2>3. r = [a EXCEPT !.mem = m2, !.table = m2[t][i].addr]
    BY <1>5, <2>2 DEF Level
  <2> HIDE DEF a, r
  <2>4. f \in Tables /\ f \notin C /\ f \in Nat /\ C \cup {f} = Upto(n + 1)
    <3>1. f = image.end + 1 + n /\ f \in Nat
      BY <1>1
    <3>2. f \in Upto(Need(image)) /\ f \notin C /\ C \cup {f} = Upto(n + 1)
      BY <1>1, <2>1, <3>1 DEF Upto
    <3> QED
      BY <3>1, <3>2 DEF Roomy
  <2>5. m2 \in Memory /\ Linked(m.mem, m2, C, t, i, f)
    <3> DEFINE mm == m.mem
    <3>1. mm \in Memory /\ mm[t][i] = Empty
      BY <1>1, <1>5
    <3> HIDE DEF mm
    <3>2. /\ Ensure(mm, t, i, f, attr) \in Memory
          /\ Linked(mm, Ensure(mm, t, i, f, attr), C, t, i, f)
      <4> HIDE DEF f, C, t
      <4> QED
        BY <1>2, <2>4, <3>1, EnsureLinks
    <3> QED
      BY <3>2 DEF mm
  <2> HIDE DEF m2
  <2> DEFINE lab1 == Longer(lab, C, f, Below(lab[t], i))
  <2>6. /\ Labelled(m2, root, C \cup {f}, lab1)
        /\ lab1[f] = Below(lab[t], i)
        /\ \A u \in C : lab1[u] = lab[u]
    <3> DEFINE mm == m.mem
    <3>1. mm[t][i] = Empty /\ Labelled(mm, root, C, lab) /\ Linked(mm, m2, C, t, i, f)
      BY <1>1, <1>5, <2>5
    <3>2. lab[t][1] # 4 /\ t \in C /\ f \in Tables /\ f \notin C
      BY <1>2, <2>4
    <3> HIDE DEF mm, f, C, t
    <3>3. Labelled(m2, root, C \cup {f}, lab1)
      BY <3>1, <3>2, LinkedLabels
    <3>4. lab1[f] = Below(lab[t], i) /\ \A u \in C : lab1[u] = lab[u]
      BY <3>2 DEF Longer
    <3> QED
      BY <3>3, <3>4
  <2> HIDE DEF lab1
  <2>7. \A v \in Pages : Kept(m.mem, m2, root, v)
    <3> DEFINE mm == m.mem
    <3>1. mm[t][i] = Empty /\ Labelled(mm, root, C, lab) /\ Linked(mm, m2, C, t, i, f)
      BY <1>1, <1>5, <2>5
    <3>2. lab[t][1] # 4 /\ t \in C
      BY <1>2
    <3> HIDE DEF mm, f, C, t
    <3>3. \A v \in Pages : Kept(mm, m2, root, v)
      BY <3>1, <3>2, LinkedKeeps
    <3> QED
      BY <3>3 DEF mm
  <2>8. m2[t][i] # Empty /\ m2[t][i].addr = f
    BY <2>5 DEF Linked
  <2>9. r = [start |-> f + 1, mem |-> m2, chunk |-> f, table |-> f, chunks |-> cs,
             refused |-> m.refused]
    BY <2>2, <2>3, <2>8
  <2>10. /\ cs \in Seq(Nat) /\ Len(cs) = n + 1
         /\ \A j \in 1 .. n + 1 : cs[j] = image.end + j
    <3>1. cs \in Seq(Nat) /\ Len(cs) = n + 1 /\ cs[n + 1] = f /\ f = image.end + (n + 1)
          /\ \A j \in 1 .. n : cs[j] = m.chunks[j]
      <4>1. f = image.end + (n + 1)
        <5>1. f = image.end + 1 + n /\ n \in Nat /\ image.end \in Nat
          BY <1>1
        <5> HIDE DEF f, n
        <5> QED
          BY ONLY <5>1
      <4> DEFINE mc == m.chunks
      <4>2. mc \in Seq(Nat) /\ n = Len(mc) /\ f \in Nat
        BY <1>1
      <4> HIDE DEF mc, f
      <4>3. /\ Append(mc, f) \in Seq(Nat) /\ Len(Append(mc, f)) = Len(mc) + 1
            /\ Append(mc, f)[Len(mc) + 1] = f
            /\ \A j \in 1 .. Len(mc) : Append(mc, f)[j] = mc[j]
        BY <4>2
      <4> QED
        BY <4>1, <4>2, <4>3 DEF mc
    <3> HIDE DEF cs, f
    <3>2. \A j \in 1 .. n + 1 : cs[j] = image.end + j
      <4> TAKE j \in 1 .. n + 1
      <4>1. j \in 1 .. n \/ j = n + 1
        BY <1>1
      <4> QED
        BY <4>1, <3>1, <1>1
    <3> QED
      BY <3>1, <3>2
  <2> HIDE DEF cs, f
  <2>11. /\ r.mem = m2 /\ r.table = f /\ r.chunks = cs /\ r.start = f + 1 /\ r.refused = m.refused
         /\ r \in State
    <3>1. m.refused \in BOOLEAN
      BY <1>1 DEF State
    <3>2. f + 1 \in Nat
      BY <2>4
    <3> QED
      BY <2>4, <2>5, <2>9, <2>10, <3>1, <3>2 DEF State
  <2>12. f = image.end + 1 + n
    BY <1>1 DEF f
  <2>13. Good(r, lab1)
    <3>1. Len(r.chunks) = n + 1 /\ n + 1 <= Need(image) /\ r.start = image.end + 1 + (n + 1)
      BY <2>1, <2>10, <2>11, <2>12, <1>1
    <3>2. Labelled(r.mem, root, Upto(Len(r.chunks)), lab1)
      BY <2>4, <2>6, <2>11, <3>1
    <3>3. \A j \in 1 .. Len(r.chunks) : r.chunks[j] = image.end + j
      BY <2>10, <2>11, <3>1
    <3> QED
      BY <2>11, <3>1, <3>2, <3>3, <1>1 DEF Good, Handed
  <2>14. \A u \in C : /\ lab1[u] = lab[u]
                      /\ \A j \in Idx : m.mem[u][j] # Empty => r.mem[u][j] = m.mem[u][j]
    BY <2>5, <2>6, <2>11, <1>5 DEF Linked
  <2>15. Climbs(m, lab, r, lab1, i)
    BY <1>1, <2>4, <2>6, <2>7, <2>8, <2>10, <2>11, <2>13, <2>14 DEF Climbs
  <2>16. Len(r.chunks) <= Len(m.chunks) + c
    BY <1>1, <2>1, <2>10, <2>11
  <2> QED
    BY <2>15, <2>16 DEF r
<1> QED
  BY <1>4, <1>5

(* A call of boot_pgtable_map for a page that follows one that is mapped:   *)
(* the page is, and the others are as they were; there is a table more on   *)
(* each level of which it is the first page, if that.                       *)
LEMMA MapOK ==
  ASSUME Roomy, NEW m, NEW lab, Good(m, lab), m.table = root,
         NEW top \in Idx, NEW n \in Numbers, NEW attr \in SUBSET RW, attr # {},
         n # 0 => Maps(m.mem, root, Va(top, n - 1), n - 1),
         Len(m.chunks) + (TablesFor(n + 1) - TablesFor(n)) <= Need(image)
  PROVE  LET r == boot_pgtable_map(m, Va(top, n), n, attr)
         IN  /\ \E l : Good(r, l)
             /\ Len(r.chunks) <= Len(m.chunks) + (TablesFor(n + 1) - TablesFor(n))
             /\ Maps(r.mem, root, Va(top, n), n)
             /\ \A v \in Pages : v # Va(top, n) => Kept(m.mem, r.mem, root, v)
<1> DEFINE va == Va(top, n)
           be == Va(top, n - 1)
           c1 == First(n, E * E * E)
           c2 == First(n, E * E)
           c3 == First(n, E)
           m1 == Level(m, va[1], attr)
           m2 == Level(m1, va[2], attr)
           m3 == Level(m2, va[3], attr)
           e  == [addr |-> n, attr |-> attr]
           r  == [m3 EXCEPT !.mem[m3.table][va[4]] = e]
<1>1. boot_pgtable_map(m, va, n, attr) = r
  BY DEF boot_pgtable_map
<1>2. /\ n \in Nat /\ TablesFor(n + 1) - TablesFor(n) = c1 + c2 + c3
      /\ c1 \in {0, 1} /\ c2 \in {0, 1} /\ c3 \in {0, 1}
  <2>1. n \in Nat
    BY SizeOfTables DEF Numbers
  <2>2. c1 \in {0, 1} /\ c2 \in {0, 1} /\ c3 \in {0, 1}
    BY DEF First
  <2>3. /\ TablesFor(n) \in Nat /\ TablesFor(n + 1) = TablesFor(n) + c3 + c2 + c1
    BY <2>1, TablesGrow
  <2> HIDE DEF c1, c2, c3
  <2> QED
    BY <2>1, <2>2, <2>3
<1>3. /\ va \in Pages /\ va[1] \in Idx /\ va[2] \in Idx /\ va[3] \in Idx /\ va[4] \in Idx
      /\ va[1] = top
  BY VaFacts, PageFacts
<1>4. n # 0 => /\ be \in Pages /\ be[1] = va[1]
               /\ c1 = 0
               /\ c2 = 0 => be[2] = va[2]
               /\ c3 = 0 => be[2] = va[2] /\ be[3] = va[3]
               /\ n - 1 \in Nat
  BY <1>2, VaBefore, VaFacts DEF First
<1>5. n = 0 => c1 = 1 /\ c2 = 1 /\ c3 = 1
  BY SizeOfTables, DivModOf DEF First
<1> HIDE DEF va, be, c1, c2, c3
<1>6. /\ Labelled(m.mem, root, Upto(Len(m.chunks)), lab) /\ Len(m.chunks) \in Nat
      /\ root \in Upto(Len(m.chunks)) /\ lab[root] = Top /\ Need(image) \in Nat
  BY DEF Good, Handed, State, Labelled, Roomy
<1>7. Len(m.chunks) + c1 + c2 + c3 <= Need(image)
  BY <1>2, <1>6
(* The top entry is there for all pages but the first.                      *)
<1>8. m.mem[root][va[1]] = Empty => c1 = 1
  <2> SUFFICES ASSUME n # 0 PROVE m.mem[root][va[1]] # Empty
    BY <1>5
  <2>1. Walkable(m.mem, root, be) /\ be[1] = va[1]
    BY <1>4 DEF Maps, be
  <2> QED
    BY <2>1 DEF Walkable, pgd
<1>9. PICK l1 : Climbs(m, lab, m1, l1, va[1]) /\ Len(m1.chunks) <= Len(m.chunks) + c1
  <2>1. lab[m.table][1] # 4 /\ m.table \in Upto(Len(m.chunks))
    BY <1>6 DEF Top
  <2>2. Len(m.chunks) + c1 <= Need(image)
    BY <1>2, <1>6, <1>7
  <2> QED
    BY <1>2, <1>3, <1>8, <2>1, <2>2, LevelOK
<1> DEFINE t1 == m1.table
<1>10. /\ Good(m1, l1) /\ Len(m1.chunks) \in Nat /\ t1 \in Upto(Len(m1.chunks))
       /\ l1[t1] = <<2, va[1], 0, 0>>
       /\ m1.mem[root][va[1]] # Empty /\ m1.mem[root][va[1]].addr = t1
       /\ Len(m.chunks) <= Len(m1.chunks)
       /\ l1[root] = Top
       /\ \A v \in Pages : Kept(m.mem, m1.mem, root, v)
  <2>1. Good(m1, l1) /\ Len(m1.chunks) \in Nat
    BY <1>9 DEF Climbs, Good, Handed, State
  <2>2. l1[t1] = Below(Top, va[1])
    BY <1>6, <1>9 DEF Climbs
  <2>3. l1[t1] = <<2, va[1], 0, 0>>
    BY <2>2, <1>3, BelowFacts
  <2> QED
    BY <2>1, <2>3, <1>6, <1>9 DEF Climbs
<1>11. m1.mem[t1][va[2]] = Empty => c2 = 1
  <2> SUFFICES ASSUME n # 0, c2 = 0 PROVE m1.mem[t1][va[2]] # Empty
    BY <1>2, <1>5
  <2>1. be \in Pages /\ be[1] = va[1] /\ be[2] = va[2] /\ n - 1 \in Nat
    BY <1>4
  <2>2. Maps(m1.mem, root, be, n - 1)
    BY <2>1, <1>10 DEF Kept, be
  <2> QED
    BY <2>1, <2>2, <1>10 DEF Maps, Walkable, pgd, pud
<1>12. PICK l2 : Climbs(m1, l1, m2, l2, va[2]) /\ Len(m2.chunks) <= Len(m1.chunks) + c2
  <2> HIDE DEF m1, m2
  <2>1. l1[m1.table][1] # 4 /\ m1.table \in Upto(Len(m1.chunks))
    BY <1>10
  <2>2. Len(m1.chunks) + c2 <= Need(image)
    BY <1>2, <1>6, <1>7, <1>9, <1>10
  <2>3. m1.mem[m1.table][va[2]] = Empty => c2 = 1
    BY <1>11
  <2>4. \E l : /\ Climbs(m1, l1, Level(m1, va[2], attr), l, va[2])
               /\ Len(Level(m1, va[2], attr).chunks) <= Len(m1.chunks) + c2
    BY <1>2, <1>3, <1>10, <2>1, <2>2, <2>3, LevelOK
  <2> QED
    BY <2>4 DEF m2
<1> DEFINE t2 == m2.table
<1> HIDE DEF m1, m2
<1>13. /\ Good(m2, l2) /\ Len(m2.chunks) \in Nat /\ t2 \in Upto(Len(m2.chunks))
       /\ l2[t2] = <<3, va[1], va[2], 0>>
       /\ m2.mem[root][va[1]] = m1.mem[root][va[1]]
       /\ m2.mem[t1][va[2]] # Empty /\ m2.mem[t1][va[2]].addr = t2
       /\ Len(m1.chunks) <= Len(m2.chunks)
       /\ Labelled(m2.mem, root, Upto(Len(m2.chunks)), l2)
       /\ \A v \in Pages : Kept(m1.mem, m2.mem, root, v)
  <2>1. root \in Upto(Len(m1.chunks))
    BY <1>10 DEF Good, Handed, Labelled
  <2> QED
    BY <2>1, <1>3, <1>10, <1>12, BelowFacts DEF Climbs, Good, Handed, State
<1>14. m2.mem[t2][va[3]] = Empty => c3 = 1
  <2> SUFFICES ASSUME n # 0, c3 = 0 PROVE m2.mem[t2][va[3]] # Empty
    BY <1>2, <1>5
  <2>1. be \in Pages /\ be[1] = va[1] /\ be[2] = va[2] /\ be[3] = va[3] /\ n - 1 \in Nat
    BY <1>4
  <2>2. Maps(m2.mem, root, be, n - 1)
    BY <2>1, <1>10, <1>13 DEF Kept, be
  <2> QED
    BY <2>1, <2>2, <1>10, <1>13 DEF Maps, Walkable, pgd, pud, pmd
<1>15. PICK l3 : Climbs(m2, l2, m3, l3, va[3]) /\ Len(m3.chunks) <= Len(m2.chunks) + c3
  <2> HIDE DEF m3
  <2>1. l2[m2.table][1] # 4 /\ m2.table \in Upto(Len(m2.chunks))
    BY <1>13
  <2>2. Len(m2.chunks) + c3 <= Need(image)
    <3>1. Len(m1.chunks) <= Len(m.chunks) + c1 /\ Len(m2.chunks) <= Len(m1.chunks) + c2
      BY <1>9, <1>12
    <3>2. /\ Len(m.chunks) \in Nat /\ Len(m1.chunks) \in Nat /\ Len(m2.chunks) \in Nat
          /\ c1 \in Nat /\ c2 \in Nat /\ c3 \in Nat /\ Need(image) \in Nat
      BY <1>2, <1>6, <1>10, <1>13
    <3> QED
      BY ONLY <3>1, <3>2, <1>7
  <2>3. m2.mem[m2.table][va[3]] = Empty => c3 = 1
    BY <1>14
  <2>4. \E l : /\ Climbs(m2, l2, Level(m2, va[3], attr), l, va[3])
               /\ Len(Level(m2, va[3], attr).chunks) <= Len(m2.chunks) + c3
    BY <1>2, <1>3, <1>13, <2>1, <2>2, <2>3, LevelOK
  <2> QED
    BY <2>4 DEF m3
<1> DEFINE t3 == m3.table
<1> HIDE DEF m3
<1>16. /\ Good(m3, l3) /\ Len(m3.chunks) \in Nat /\ t3 \in Upto(Len(m3.chunks))
       /\ l3[t3] = <<4, va[1], va[2], va[3]>>
       /\ m3.mem[root][va[1]] = m2.mem[root][va[1]]
       /\ m3.mem[t1][va[2]] = m2.mem[t1][va[2]]
       /\ m3.mem[t2][va[3]] # Empty /\ m3.mem[t2][va[3]].addr = t3
       /\ Labelled(m3.mem, root, Upto(Len(m3.chunks)), l3)
       /\ m3 \in State
       /\ \A v \in Pages : Kept(m2.mem, m3.mem, root, v)
  <2>1. root \in Upto(Len(m2.chunks))
    BY <1>13 DEF Labelled
  <2>2. t1 \in Upto(Len(m2.chunks))
    BY <1>10, <1>13 DEF Upto, Roomy
  <2>3. /\ m3.mem[root][va[1]] = m2.mem[root][va[1]]
        /\ m3.mem[t1][va[2]] = m2.mem[t1][va[2]]
        /\ \A v \in Pages : Kept(m2.mem, m3.mem, root, v)
        /\ Good(m3, l3)
    BY <2>1, <2>2, <1>3, <1>10, <1>13, <1>15 DEF Climbs
  <2>4. l3[t3] = Below(<<3, va[1], va[2], 0>>, va[3])
    BY <1>13, <1>15 DEF Climbs
  <2>5. l3[t3] = <<4, va[1], va[2], va[3]>>
    BY <2>4, <1>3, BelowFacts
  <2>6. /\ t3 \in Upto(Len(m3.chunks))
        /\ m3.mem[t2][va[3]] # Empty /\ m3.mem[t2][va[3]].addr = t3
    BY <1>15 DEF Climbs
  <2>7. /\ Labelled(m3.mem, root, Upto(Len(m3.chunks)), l3)
        /\ m3 \in State /\ Len(m3.chunks) \in Nat
    BY <2>3 DEF Good, Handed, State
  <2> QED
    BY <2>3, <2>5, <2>6, <2>7
<1>17. Walkable(m3.mem, root, va) /\ pmd(m3.mem, root, va).addr = t3
  BY <1>10, <1>13, <1>16 DEF Walkable, pgd, pud, pmd
<1> DEFINE w == [m3.mem EXCEPT ![t3][va[4]] = e]
<1>18. /\ w \in Memory
       /\ Labelled(w, root, Upto(Len(m3.chunks)), l3)
       /\ \A v \in Pages : v # va => Kept(m3.mem, w, root, v)
       /\ Walkable(w, root, va) /\ pte(w, root, va) = e
  <2> DEFINE mm == m3.mem
  <2>1. mm \in Memory /\ e \in Word
    BY <1>2, <1>16 DEF State, Word
  <2>2. w = Put(mm, t3, va[4], e)
    BY DEF Put
  <2>3. /\ Labelled(mm, root, Upto(Len(m3.chunks)), l3)
        /\ Walkable(mm, root, va) /\ pmd(mm, root, va).addr = t3
    BY <1>16, <1>17
  <2> HIDE DEF mm, w, t3, e
  <2>4. /\ w \in Memory
        /\ Labelled(w, root, Upto(Len(m3.chunks)), l3)
        /\ \A v \in Pages : v # va => Kept(mm, w, root, v)
        /\ Walkable(w, root, va) /\ pte(w, root, va) = e
    <3>1. /\ l3[t3] = <<4, va[1], va[2], va[3]>> /\ t3 \in Upto(Len(m3.chunks))
          /\ va \in Pages
      BY <1>3, <1>16
    <3> QED
      BY ONLY <3>1, <2>1, <2>2, <2>3, WriteLabels
  <2> QED
    BY <2>4 DEF mm
<1>19. r = [m3 EXCEPT !.mem = w]
  BY <1>16 DEF State
<1> HIDE DEF w, r
<1>20. /\ r.mem = w /\ r.chunks = m3.chunks /\ r.start = m3.start /\ r.refused = m3.refused
       /\ r \in State
  BY <1>16, <1>18, <1>19 DEF State
<1>21. Good(r, l3)
  BY <1>16, <1>18, <1>20 DEF Good, Handed
<1>22. Len(r.chunks) <= Len(m.chunks) + (TablesFor(n + 1) - TablesFor(n))
  <2>1. /\ Len(m1.chunks) <= Len(m.chunks) + c1 /\ Len(m2.chunks) <= Len(m1.chunks) + c2
        /\ Len(m3.chunks) <= Len(m2.chunks) + c3
    BY <1>9, <1>12, <1>15
  <2>2. /\ Len(m.chunks) \in Nat /\ Len(m1.chunks) \in Nat /\ Len(m2.chunks) \in Nat
        /\ Len(m3.chunks) \in Nat /\ c1 \in Nat /\ c2 \in Nat /\ c3 \in Nat
    BY <1>2, <1>6, <1>10, <1>13, <1>16
  <2>3. Len(m3.chunks) <= Len(m.chunks) + (c1 + c2 + c3)
    <3>1. \A x, y, z, v \in Nat, i, j, l \in Nat :
            y <= x + i /\ z <= y + j /\ v <= z + l => v <= x + (i + j + l)
      OBVIOUS
    <3> QED
      BY ONLY <2>1, <2>2, <3>1
  <2> QED
    BY <2>3, <1>2, <1>20
<1>23. Maps(r.mem, root, va, n)
  BY <1>18, <1>20 DEF Maps
<1>24. ASSUME NEW v \in Pages, v # va PROVE Kept(m.mem, r.mem, root, v)
  BY <1>24, <1>10, <1>13, <1>16, <1>18, <1>20 DEF Kept
<1> QED
  BY <1>1, <1>21, <1>22, <1>23, <1>24 DEF va

-----------------------------------------------------------------------------
(* The inductive invariant.                                                 *)

Places == {"detect", "root", "ro", "rw", "direct", "reget", "done"}
Loops  == {"ro", "rw", "direct", "reget"}

(* The first n pages from a top entry on are mapped, and no other.          *)
MappedIn(m, R, top, n) ==
  \A f \in Numbers : IF f < n THEN Maps(m, R, Va(top, f), f) ELSE Bare(m, R, Va(top, f))

(* How far the two mappings have come.                                      *)
OfImage  == IF pc \in {"ro", "rw"} THEN k ELSE image.end
OfDirect == IF pc = "direct" THEN k ELSE IF pc = "reget" THEN Direct ELSE 0

TypeOK ==
  /\ image \in Images /\ reading \in Readings /\ pc \in Places
  /\ Now \in State /\ total \in Nat /\ k \in Nat

Building ==
  /\ \E lab : Good(Now, lab)
  /\ MappedIn(mem, root, KernelPgd, OfImage)
  /\ MappedIn(mem, root, DirectPgd, OfDirect)
  /\ Len(chunks) <= 1 + TablesFor(OfImage) + TablesFor(OfDirect)
  /\ pc = "ro" => k <= image.roseg
  /\ pc = "rw" => k <= image.end
  /\ pc = "direct" => k <= Direct

IInv ==
  /\ TypeOK
  /\ pc = "detect" => chunks = <<>> /\ ~refused /\ k = 0
  /\ pc # "detect" => total = boot_mm_detect(reading) /\ Handed(Now)
  /\ pc = "root" => chunks = <<>> /\ k = 0
  /\ pc \in Loops => Building
  /\ ImageMapped

LEMMA ImageFacts ==
  ASSUME NEW i \in Images
  PROVE  /\ i.roseg \in Nat \ {0} /\ i.end \in Nat \ {0} /\ i.roseg <= i.end
         /\ i.end <= E * E * E /\ Need(i) \in Nat \ {0}
         /\ Need(i) = 1 + TablesFor(i.end) + TablesFor(Direct)
         /\ TablesFor(i.end) \in Nat /\ TablesFor(Direct) \in Nat
         /\ Direct \in Nat \ {0} /\ Direct <= E * E * E
<1>1. /\ i.roseg \in Nat \ {0} /\ i.end \in Nat \ {0} /\ i.roseg <= i.end
      /\ i.end <= E * E * E /\ Direct \in Nat \ {0} /\ Direct <= E * E * E
  BY BootAssumption, SizeOfTables
<1>2. TablesFor(i.end) \in Nat /\ TablesFor(Direct) \in Nat
  BY <1>1, TablesGrow
<1> QED
  BY <1>1, <1>2 DEF Need

LEMMA TotalNat ==
  ASSUME NEW r \in Readings
  PROVE  boot_mm_detect(r) \in Nat
<1>1. /\ r.base \in Nat /\ r.ext \in Nat /\ r.ext16 \in Nat
      /\ ExtBase \in Nat /\ Ext16Base \in Nat /\ Ext16Unit \in Nat
  BY BootAssumption
<1>2. Ext16Base + r.ext16 * Ext16Unit \in Nat
  BY ONLY <1>1
<1>3. ExtBase + r.ext \in Nat
  BY ONLY <1>1
<1> QED
  BY ONLY <1>1, <1>2, <1>3, Zenon DEF boot_mm_detect

LEMMA RoomyNow ==
  ASSUME Room, image \in Images, reading \in Readings, total = boot_mm_detect(reading)
  PROVE  Roomy
<1>1. total \in Nat
  BY TotalNat
<1>2. image.end \in Nat /\ Need(image) \in Nat
  BY ImageFacts
<1> QED
  BY <1>1, <1>2 DEF Roomy, Room, Upto

LEMMA WordFacts ==
  /\ Stale \in Word /\ Empty \in Word /\ Zero \in Frames /\ 0 \in Idx
  /\ [addr |-> BootPud, attr |-> RW] \in Word
  /\ P \in SUBSET RW /\ P # {} /\ RW \in SUBSET RW /\ RW # {}
<1>1. Tables \subseteq Nat /\ Data \subseteq Nat /\ BootPud \in Data /\ Stale \in Entry
  BY WalkAssumption, BootAssumption
<1>2. Pas \cup {None} \subseteq Int
  BY <1>1 DEF Pas, None, Frames, Zero
<1>3. /\ P \in SUBSET RW /\ P # {} /\ RW \in SUBSET RW /\ RW # {}
  BY DEF P, RW
<1>4. Zero \in Frames /\ 0 \in Idx /\ Zero \in Int
  BY SizeOfTables DEF Zero, Frames
<1>5. Stale \in Word
  BY <1>1, <1>2 DEF Word, Entry
<1>6. Empty \in Word
  BY <1>4 DEF Word, Empty
<1>7. [addr |-> BootPud, attr |-> RW] \in Word
  BY <1>1, <1>3 DEF Word
<1> QED
  BY <1>3, <1>4, <1>5, <1>6, <1>7

(* An iteration of a mapping loop, with the other mapping left alone.       *)
LEMMA MapStep ==
  ASSUME Roomy, Now \in State, NEW lab, Good(Now, lab),
         NEW top \in Idx, NEW oth \in Idx, oth # top,
         NEW attr \in SUBSET RW, attr # {},
         k \in Numbers, MappedIn(mem, root, top, k),
         NEW j \in Nat, MappedIn(mem, root, oth, j),
         Len(chunks) <= 1 + TablesFor(k) + TablesFor(j),
         1 + TablesFor(k + 1) + TablesFor(j) <= Need(image),
         Becomes(boot_pgtable_map(Now, Va(top, k), k, attr)),
         UNCHANGED <<image, root>>
  PROVE  /\ (\E l : Good(Now, l))'
         /\ Handed(Now)' /\ Now' \in State
         /\ MappedIn(mem', root', top, k + 1)
         /\ MappedIn(mem', root', oth, j)
         /\ Len(chunks') <= 1 + TablesFor(k + 1) + TablesFor(j)
<1> DEFINE r == boot_pgtable_map(Now, Va(top, k), k, attr)
<1>1. /\ k \in Nat /\ TablesFor(k) \in Nat /\ TablesFor(k + 1) \in Nat /\ TablesFor(j) \in Nat
      /\ Len(chunks) \in Nat /\ chunks \in Seq(Nat) /\ Need(image) \in Nat
  <2>1. k \in Nat /\ k + 1 \in Nat
    BY SizeOfTables DEF Numbers
  <2>2. chunks \in Seq(Nat)
    BY DEF Now, State
  <2> QED
    BY <2>1, <2>2, TablesGrow DEF Roomy
<1>2. Now.mem = mem /\ Now.chunks = chunks /\ Now.table = root
  BY DEF Now
<1>3. k # 0 => Maps(Now.mem, root, Va(top, k - 1), k - 1)
  BY <1>1, <1>2, VaBefore DEF MappedIn
<1>4. Len(Now.chunks) + (TablesFor(k + 1) - TablesFor(k)) <= Need(image)
  BY <1>1, <1>2
<1>5. /\ \E l : Good(r, l)
      /\ Len(r.chunks) <= Len(chunks) + (TablesFor(k + 1) - TablesFor(k))
      /\ Maps(r.mem, root, Va(top, k), k)
      /\ \A v \in Pages : v # Va(top, k) => Kept(mem, r.mem, root, v)
  BY <1>2, <1>3, <1>4, MapOK
<1>6. start' = r.start /\ mem' = r.mem /\ chunks' = r.chunks /\ refused' = r.refused
      /\ image' = image /\ root' = root
  BY DEF Becomes
<1> HIDE DEF r
<1>7. PICK l : Good(r, l)
  BY <1>5
<1>8. Now' = [start |-> r.start, mem |-> r.mem, chunk |-> Zero, table |-> root,
              chunks |-> r.chunks, refused |-> r.refused]
  BY <1>6 DEF Now
<1>9. r \in State /\ root \in Nat
  BY <1>7 DEF Good, Handed, Now, State
<1>10. Now' \in State /\ Now'.start = r.start /\ Now'.mem = r.mem /\ Now'.chunks = r.chunks
       /\ Now'.refused = r.refused
  BY <1>8, <1>9 DEF State, Zero
<1>11. Handed(Now)' /\ Good(Now, l)'
  <2>1. /\ r.refused = FALSE /\ Len(r.chunks) <= Need(image)
        /\ r.start = image.end + 1 + Len(r.chunks)
        /\ \A i \in 1 .. Len(r.chunks) : r.chunks[i] = image.end + i
        /\ Labelled(r.mem, root, Upto(Len(r.chunks)), l)
    BY <1>7, <1>9 DEF Good, Handed, State
  <2>2. Handed(Now)'
    BY <1>6, <1>10, <2>1 DEF Handed
  <2>3. Labelled(Now.mem, root, Upto(Len(Now.chunks)), l)'
    BY <1>6, <1>10, <2>1 DEF Upto
  <2> QED
    BY <2>2, <2>3 DEF Good
<1>12. Len(chunks') <= 1 + TablesFor(k + 1) + TablesFor(j)
  <2>1. Len(r.chunks) \in Nat
    BY <1>9 DEF State
  <2> QED
    BY <2>1, <1>1, <1>5, <1>6
<1>13. MappedIn(r.mem, root, top, k + 1)
  <2> SUFFICES ASSUME NEW f \in Numbers
               PROVE  IF f < k + 1 THEN Maps(r.mem, root, Va(top, f), f)
                                   ELSE Bare(r.mem, root, Va(top, f))
    BY DEF MappedIn
  <2>1. f \in Nat /\ Va(top, f) \in Pages
    BY SizeOfTables, VaFacts DEF Numbers
  <2>2. CASE f = k
    BY <2>2, <1>1, <1>5
  <2>3. CASE f # k
    <3>1. Va(top, f) # Va(top, k)
      BY <2>3, VaOne
    <3>2. Kept(mem, r.mem, root, Va(top, f))
      BY <3>1, <2>1, <1>5
    <3>3. IF f < k THEN Maps(mem, root, Va(top, f), f) ELSE Bare(mem, root, Va(top, f))
      BY DEF MappedIn
    <3> QED
      BY <2>1, <2>3, <3>2, <3>3, <1>1 DEF Kept
  <2> QED
    BY <2>2, <2>3
<1>14. MappedIn(r.mem, root, oth, j)
  <2> SUFFICES ASSUME NEW f \in Numbers
               PROVE  IF f < j THEN Maps(r.mem, root, Va(oth, f), f)
                               ELSE Bare(r.mem, root, Va(oth, f))
    BY DEF MappedIn
  <2>4. Va(oth, f)[1] = oth /\ Va(top, k)[1] = top
    BY DEF Va
  <2>5. Va(oth, f) \in Pages
    BY VaFacts
  <2>1. f \in Nat /\ Va(oth, f) \in Pages /\ Va(oth, f)[1] = oth /\ Va(top, k)[1] = top
    BY <2>4, <2>5, SizeOfTables DEF Numbers
  <2>2. Kept(mem, r.mem, root, Va(oth, f))
    BY <2>1, <1>5
  <2>3. IF f < j THEN Maps(mem, root, Va(oth, f), f) ELSE Bare(mem, root, Va(oth, f))
    BY DEF MappedIn
  <2> QED
    BY <2>1, <2>2, <2>3 DEF Kept
<1> QED
  BY <1>6, <1>10, <1>11, <1>12, <1>13, <1>14

LEMMA InitOK == Init => IInv
<1> SUFFICES ASSUME Init PROVE IInv
  OBVIOUS
<1>1. mem \in Memory
  BY WordFacts DEF Init, Memory
<1>2. Now \in State
  <2>1. start = 0 /\ root = 0 /\ chunks = <<>> /\ refused = FALSE
    BY DEF Init, Zero
  <2> QED
    <3>1. start \in Nat /\ root \in Nat /\ Zero \in Nat /\ chunks \in Seq(Nat) /\ refused \in BOOLEAN
      <4>1. <<>> \in Seq(Nat)
        OBVIOUS
      <4>2. start \in Nat /\ root \in Nat /\ Zero \in Nat
        BY <2>1 DEF Zero
      <4> QED
        BY <2>1, <4>1, <4>2
    <3> QED
      BY ONLY <1>1, <3>1 DEF Now, State
<1>3. TypeOK
  BY <1>2 DEF TypeOK, Init, Places
<1> QED
  BY <1>3 DEF IInv, Init, Loops, ImageMapped

LEMMA DetectOK ==
  ASSUME Room, IInv, Detect
  PROVE  IInv'
<1>1. /\ image \in Images /\ reading \in Readings /\ Now \in State /\ chunks = <<>>
      /\ ~refused /\ k = 0
      /\ pc' = "root" /\ total' = boot_mm_detect(reading) /\ start' = image.end + 1
      /\ UNCHANGED <<image, reading, root, mem, k, chunks, refused>>
  BY DEF IInv, TypeOK, Detect
<1>2. image.end \in Nat /\ Need(image) \in Nat
  BY <1>1, ImageFacts
<1>3. total' \in Nat
  BY <1>1, TotalNat
<1>4. Now' \in State
  BY <1>1, <1>2 DEF Now, State
<1>5. Handed(Now)'
  BY <1>1, <1>2, <1>4 DEF Handed, Now
<1>6. TypeOK'
  BY <1>1, <1>3, <1>4 DEF TypeOK, Places
<1> QED
  BY <1>1, <1>5, <1>6 DEF IInv, Loops, ImageMapped

(* The root: a table with no entries, under which nothing is mapped.        *)
LEMMA NewRootOK ==
  ASSUME Room, IInv, NewRoot
  PROVE  IInv'
<1>1. /\ image \in Images /\ reading \in Readings /\ Now \in State /\ chunks = <<>>
      /\ Handed(Now) /\ k = 0 /\ total = boot_mm_detect(reading) /\ total \in Nat
      /\ pc' = "ro"
      /\ UNCHANGED <<image, reading, total, k>>
  BY DEF IInv, TypeOK, NewRoot
<1>2. Roomy
  BY <1>1, RoomyNow
<1>3. /\ image.end \in Nat \ {0} /\ Need(image) \in Nat \ {0} /\ image.roseg \in Nat
      /\ Direct \in Nat \ {0}
  BY <1>1, ImageFacts
<1>4. /\ start = image.end + 1 /\ refused = FALSE /\ mem \in Memory
  BY <1>1, <1>3 DEF Handed, Now, State
<1> DEFINE f == image.end + 1
           cl == Clear(mem, f)
<1>5. f \in Tables /\ f \in Frames /\ f \in Nat
  BY <1>2, <1>3 DEF Roomy, Upto, Frames
<1>6. boot_mm_alloc(Now) = [start |-> f + 1, mem |-> mem, chunk |-> f, table |-> root,
                            chunks |-> <<f>>, refused |-> FALSE]
  <2>1. ~(start + 1 >= total)
    BY <1>2, <1>3, <1>4 DEF Roomy
  <2>2. Append(<<>>, f) = <<f>>
    OBVIOUS
  <2>3. Now = [start |-> f, mem |-> mem, chunk |-> Zero, table |-> root,
               chunks |-> <<>>, refused |-> FALSE]
    BY <1>1, <1>4 DEF Now
  <2> DEFINE g == f + 1
             cs == <<f>>
  <2>4. boot_mm_alloc(Now) = [Now EXCEPT !.chunk = f, !.start = g, !.chunks = cs]
    BY <2>1, <2>2, <2>3, <1>4 DEF boot_mm_alloc
  <2> HIDE DEF g, cs, f
  <2>5. boot_mm_alloc(Now) = [start |-> g, mem |-> mem, chunk |-> f, table |-> root,
                              chunks |-> cs, refused |-> FALSE]
    BY ONLY <2>3, <2>4
  <2> QED
    BY <2>5 DEF g, cs
<1>7. /\ root' = f /\ start' = f + 1 /\ mem' = cl /\ chunks' = <<f>> /\ refused' = FALSE
  BY <1>6 DEF NewRoot, Becomes
<1>8. cl \in Memory /\ \A i \in Idx : cl[f][i] = Empty
  BY <1>4, <1>5, WordFacts DEF Clear, Memory
<1> HIDE DEF cl, f
<1>9. Now' = [start |-> f + 1, mem |-> cl, chunk |-> Zero, table |-> f, chunks |-> <<f>>,
              refused |-> FALSE]
  BY <1>7 DEF Now
<1>10. /\ Now' \in State /\ Now'.start = f + 1 /\ Now'.mem = cl /\ Now'.chunks = <<f>>
       /\ Now'.refused = FALSE /\ Len(Now'.chunks) = 1 /\ Now'.chunks[1] = f
  BY <1>5, <1>8, <1>9 DEF State, Zero
<1>11. Handed(Now)'
  <2>1. f = image.end + 1
    BY DEF f
  <2> QED
    BY <2>1, <1>1, <1>3, <1>10 DEF Handed
<1> DEFINE lab == [u \in {f} |-> Top]
<1>12. Labelled(cl, f, {f}, lab)
  <2>1. Top \in Labels
    BY SizeOfTables DEF Top, Labels
  <2> QED
    BY <2>1, <1>5, <1>8 DEF Labelled
<1>13. (Upto(1) = {f})' /\ f' = f
  BY <1>1, <1>3 DEF Upto, f
<1>19. PICK l : Labelled(cl, f, {f}, l)
  BY <1>12
<1>14. Good(Now, l)'
  <2>1. Now'.mem = cl /\ root' = f /\ Upto(Len(Now.chunks))' = {f}
    BY <1>7, <1>10, <1>13
  <2>2. Labelled(Now.mem, root, Upto(Len(Now.chunks)), l)'
    BY <2>1, <1>19
  <2> QED
    BY <2>2, <1>11 DEF Good
<1>15. ASSUME NEW top \in Idx PROVE MappedIn(cl, f, top, 0)
  <2> SUFFICES ASSUME NEW g \in Numbers PROVE ~(g < 0) /\ Bare(cl, f, Va(top, g))
    BY DEF MappedIn
  <2>1. g \in Nat /\ Va(top, g)[1] = top
    BY SizeOfTables, VaFacts DEF Numbers
  <2> QED
    BY <2>1, <1>8 DEF Bare, Walkable, pgd
<1>16. KernelPgd \in Idx /\ DirectPgd \in Idx
  BY BootAssumption
<1>17. Building'
  <2>1. OfImage' = 0 /\ OfDirect' = 0
    BY <1>1 DEF OfImage, OfDirect
  <2>2. TablesFor(0) \in Nat
    BY TablesGrow
  <2>3. Len(chunks') <= 1 + TablesFor(0) + TablesFor(0)
    BY <1>7, <2>2
  <2>4. (\E lb : Good(Now, lb))'
    BY <1>14
  <2>5. MappedIn(mem', root', KernelPgd, 0) /\ MappedIn(mem', root', DirectPgd, 0)
    BY <1>7, <1>15, <1>16
  <2> QED
    BY <2>1, <2>3, <2>4, <2>5, <1>1, <1>3 DEF Building
<1>18. TypeOK'
  BY <1>1, <1>10 DEF TypeOK, Places
<1> QED
  BY <1>1, <1>11, <1>17, <1>18 DEF IInv, ImageMapped

(* An iteration of the loops over the image.                                *)
LEMMA ImageLoopOK ==
  ASSUME Room, IInv, pc \in {"ro", "rw"}, k < image.end, pc = "ro" => k < image.roseg,
         NEW attr \in SUBSET RW, attr # {},
         Becomes(boot_pgtable_map(Now, Va(KernelPgd, k), k, attr)),
         k' = k + 1, UNCHANGED <<image, reading, pc, total, root>>
  PROVE  IInv'
<1>1. /\ image \in Images /\ reading \in Readings /\ Now \in State /\ k \in Nat
      /\ total = boot_mm_detect(reading) /\ total \in Nat /\ Building
  BY DEF IInv, TypeOK, Loops
<1>2. Roomy
  BY <1>1, RoomyNow
<1>3. /\ image.end \in Nat /\ image.end <= E * E * E /\ image.roseg \in Nat
      /\ Need(image) = 1 + TablesFor(image.end) + TablesFor(Direct)
      /\ TablesFor(image.end) \in Nat /\ TablesFor(Direct) \in Nat /\ Direct \in Nat
      /\ image.roseg <= image.end
  BY <1>1, ImageFacts
<1>4. k \in Numbers
  BY <1>1, <1>3, SizeOfTables DEF Numbers
<1>5. OfImage = k /\ OfDirect = 0
  BY DEF OfImage, OfDirect
<1>6. 1 + TablesFor(k + 1) + TablesFor(0) <= Need(image)
  <2>1. TablesFor(k + 1) <= TablesFor(image.end)
    BY <1>1, <1>3, TablesMore
  <2>2. TablesFor(0) <= TablesFor(Direct)
    BY <1>3, TablesMore
  <2>3. TablesFor(k + 1) \in Nat /\ TablesFor(0) \in Nat
    BY <1>1, TablesGrow
  <2> QED
    BY <1>3, <2>1, <2>2, <2>3
<1>7. PICK lab : Good(Now, lab)
  BY <1>1 DEF Building
<1>8. KernelPgd \in Idx /\ DirectPgd \in Idx /\ DirectPgd # KernelPgd
  BY BootAssumption
<1>9. /\ MappedIn(mem, root, KernelPgd, k) /\ MappedIn(mem, root, DirectPgd, 0)
      /\ Len(chunks) <= 1 + TablesFor(k) + TablesFor(0)
  BY <1>1, <1>5 DEF Building
<1>10. /\ (\E l : Good(Now, l))'
       /\ Handed(Now)' /\ Now' \in State
       /\ MappedIn(mem', root', KernelPgd, k + 1)
       /\ MappedIn(mem', root', DirectPgd, 0)
       /\ Len(chunks') <= 1 + TablesFor(k + 1) + TablesFor(0)
  <2> DEFINE j == 0
  <2>1. /\ MappedIn(mem, root, DirectPgd, j) /\ j \in Nat
        /\ Len(chunks) <= 1 + TablesFor(k) + TablesFor(j)
        /\ 1 + TablesFor(k + 1) + TablesFor(j) <= Need(image)
    BY <1>6, <1>9
  <2> HIDE DEF j
  <2>2. /\ (\E l : Good(Now, l))'
        /\ Handed(Now)' /\ Now' \in State
        /\ MappedIn(mem', root', KernelPgd, k + 1)
        /\ MappedIn(mem', root', DirectPgd, j)
        /\ Len(chunks') <= 1 + TablesFor(k + 1) + TablesFor(j)
    BY <1>1, <1>2, <1>4, <1>7, <1>8, <1>9, <2>1, MapStep
  <2> QED
    BY <2>2 DEF j
<1>11. OfImage' = k + 1 /\ OfDirect' = 0
  BY DEF OfImage, OfDirect
<1>12. Building'
  BY <1>1, <1>3, <1>10, <1>11 DEF Building
<1>13. TypeOK'
  BY <1>1, <1>10 DEF TypeOK, IInv
<1> QED
  BY <1>1, <1>10, <1>12, <1>13 DEF IInv, Loops, ImageMapped

LEMMA MapTextOK ==
  ASSUME Room, IInv, MapText
  PROVE  IInv'
<1>1. /\ pc = "ro" /\ k < image.roseg /\ k' = k + 1
      /\ Becomes(boot_pgtable_map(Now, Va(KernelPgd, k), k, P))
      /\ UNCHANGED <<image, reading, pc, total, root>>
  BY DEF MapText, MapLoop
<1>2. k < image.end
  <2>1. image \in Images /\ k \in Nat
    BY DEF IInv, TypeOK
  <2> QED
    BY <2>1, <1>1, ImageFacts
<1> QED
  BY <1>1, <1>2, ImageLoopOK, WordFacts

LEMMA MapRestOK ==
  ASSUME Room, IInv, MapRest
  PROVE  IInv'
<1>1. /\ pc = "rw" /\ k < image.end /\ k' = k + 1
      /\ Becomes(boot_pgtable_map(Now, Va(KernelPgd, k), k, RW))
      /\ UNCHANGED <<image, reading, pc, total, root>>
  BY DEF MapRest, MapLoop
<1> QED
  BY <1>1, ImageLoopOK, WordFacts

(* An iteration of the loop over the first 10 MB.                           *)
LEMMA MapDirectOK ==
  ASSUME Room, IInv, MapDirect
  PROVE  IInv'
<1>1. /\ image \in Images /\ reading \in Readings /\ Now \in State /\ k \in Nat
      /\ total = boot_mm_detect(reading) /\ total \in Nat /\ Building
      /\ pc = "direct" /\ k < Direct /\ k' = k + 1
      /\ Becomes(boot_pgtable_map(Now, Va(DirectPgd, k), k, RW))
      /\ UNCHANGED <<image, reading, pc, total, root>>
  BY DEF IInv, TypeOK, Loops, MapDirect, MapLoop
<1>2. Roomy
  BY <1>1, RoomyNow
<1>3. /\ image.end \in Nat /\ Direct <= E * E * E /\ Direct \in Nat
      /\ Need(image) = 1 + TablesFor(image.end) + TablesFor(Direct)
      /\ TablesFor(image.end) \in Nat /\ TablesFor(Direct) \in Nat
  BY <1>1, ImageFacts
<1>4. k \in Numbers
  BY <1>1, <1>3, SizeOfTables DEF Numbers
<1>5. OfImage = image.end /\ OfDirect = k
  BY <1>1 DEF OfImage, OfDirect
<1> DEFINE j == image.end
<1>6. /\ 1 + TablesFor(k + 1) + TablesFor(j) <= Need(image)
      /\ TablesFor(k) \in Nat /\ TablesFor(k + 1) \in Nat
  <2>1. TablesFor(k + 1) <= TablesFor(Direct)
    BY <1>1, <1>3, TablesMore
  <2>2. TablesFor(k) \in Nat /\ TablesFor(k + 1) \in Nat
    BY <1>1, TablesGrow
  <2> QED
    BY <1>3, <2>1, <2>2
<1>7. PICK lab : Good(Now, lab)
  BY <1>1 DEF Building
<1>8. KernelPgd \in Idx /\ DirectPgd \in Idx /\ DirectPgd # KernelPgd
  BY BootAssumption
<1>9. /\ MappedIn(mem, root, KernelPgd, j) /\ MappedIn(mem, root, DirectPgd, k)
      /\ Len(chunks) <= 1 + TablesFor(j) + TablesFor(k) /\ Len(chunks) \in Nat
  BY <1>1, <1>5 DEF Building, Now, State
<1>10. Len(chunks) <= 1 + TablesFor(k) + TablesFor(j)
  BY <1>3, <1>6, <1>9
<1>11. /\ (\E l : Good(Now, l))'
       /\ Handed(Now)' /\ Now' \in State
       /\ MappedIn(mem', root', DirectPgd, k + 1)
       /\ MappedIn(mem', root', KernelPgd, j)
       /\ Len(chunks') <= 1 + TablesFor(k + 1) + TablesFor(j)
  <2>1. j \in Nat /\ UNCHANGED <<image, root>>
    BY <1>1, <1>3
  <2>2. RW \in SUBSET RW /\ RW # {}
    BY WordFacts
  <2>3. Becomes(boot_pgtable_map(Now, Va(DirectPgd, k), k, RW))
    BY <1>1
  <2> HIDE DEF j
  <2> QED
    BY <1>1, <1>2, <1>4, <1>6, <1>7, <1>8, <1>9, <1>10, <2>1, <2>2, <2>3, MapStep
<1>12. /\ OfImage' = j /\ OfDirect' = k + 1 /\ Len(chunks') \in Nat
  BY <1>1, <1>11 DEF OfImage, OfDirect, Now, State
<1>13. Len(chunks') <= 1 + TablesFor(j) + TablesFor(k + 1)
  BY <1>3, <1>6, <1>11, <1>12
<1>14. Building'
  BY <1>1, <1>3, <1>11, <1>12, <1>13 DEF Building
<1>15. TypeOK'
  BY <1>1, <1>11 DEF TypeOK, IInv
<1> QED
  BY <1>1, <1>11, <1>14, <1>15 DEF IInv, Loops, ImageMapped

(* The end of a loop changes nothing but the place and the page.            *)
LEMMA EndStep ==
  ASSUME Room, IInv, pc \in Loops, pc' \in Loops, k' \in Nat,
         OfImage' = OfImage, OfDirect' = OfDirect,
         /\ pc' = "ro" => k' <= image.roseg
         /\ pc' = "rw" => k' <= image.end
         /\ pc' = "direct" => k' <= Direct,
         UNCHANGED <<image, reading, total, start, root, mem, chunks, refused>>
  PROVE  IInv'
<1>1. TypeOK /\ Building /\ total = boot_mm_detect(reading) /\ Handed(Now)
  BY DEF IInv, Loops
<1>2. Now' = Now
  BY DEF Now
<1>3. TypeOK'
  BY <1>1, <1>2 DEF TypeOK, Loops, Places
<1>4. Handed(Now)'
  BY <1>1, <1>2 DEF Handed
<1>5. (\E l : Good(Now, l))'
  <2>1. PICK lab : Good(Now, lab)
    BY <1>1 DEF Building
  <2>2. Good(Now, lab)'
    BY <2>1, <1>2, <1>4 DEF Good, Upto
  <2> QED
    BY <2>2
<1>6. Building'
  BY <1>1, <1>5 DEF Building
<1> QED
  BY <1>1, <1>3, <1>4, <1>6 DEF IInv, Loops, ImageMapped

LEMMA TextEndOK ==
  ASSUME Room, IInv, TextEnd
  PROVE  IInv'
<1>1. /\ image \in Images /\ k \in Nat /\ Building
      /\ pc = "ro" /\ pc' = "rw" /\ k' = k
      /\ UNCHANGED <<image, reading, total, start, root, mem, chunks, refused>>
  BY DEF IInv, TypeOK, Loops, TextEnd, EndLoop
<1>2. k <= image.end
  BY <1>1, ImageFacts DEF Building
<1>3. OfImage' = OfImage /\ OfDirect' = OfDirect
  BY <1>1 DEF OfImage, OfDirect
<1> QED
  BY <1>1, <1>2, <1>3, EndStep DEF Loops

LEMMA RestEndOK ==
  ASSUME Room, IInv, RestEnd
  PROVE  IInv'
<1>1. /\ image \in Images /\ k \in Nat /\ Building
      /\ pc = "rw" /\ pc' = "direct" /\ k' = 0 /\ k >= image.end
      /\ UNCHANGED <<image, reading, total, start, root, mem, chunks, refused>>
  BY DEF IInv, TypeOK, Loops, RestEnd, EndLoop
<1>2. k = image.end /\ Direct \in Nat
  BY <1>1, ImageFacts DEF Building
<1>3. OfImage' = OfImage /\ OfDirect' = OfDirect
  BY <1>1, <1>2 DEF OfImage, OfDirect
<1> QED
  BY <1>1, <1>2, <1>3, EndStep DEF Loops

LEMMA DirectEndOK ==
  ASSUME Room, IInv, DirectEnd
  PROVE  IInv'
<1>1. /\ image \in Images /\ k \in Nat /\ Building
      /\ pc = "direct" /\ pc' = "reget" /\ k' = k /\ k >= Direct
      /\ UNCHANGED <<image, reading, total, start, root, mem, chunks, refused>>
  BY DEF IInv, TypeOK, Loops, DirectEnd, EndLoop
<1>2. k = Direct
  BY <1>1, ImageFacts DEF Building
<1>3. OfImage' = OfImage /\ OfDirect' = OfDirect
  BY <1>1, <1>2 DEF OfImage, OfDirect
<1> QED
  BY <1>1, <1>2, <1>3, EndStep DEF Loops

(* What get_va_pte makes of it: frame 0 counts only at the first page of    *)
(* each mapping.                                                            *)
LEMMA LookupIs ==
  ASSUME NEW m, NEW R, NEW top \in {KernelPgd, DirectPgd}, NEW n \in Nat \ {0},
         MappedIn(m, R, top, n), NEW f \in Numbers
  PROVE  get_va_pte(m, R, Va(top, f)) = IF f < n THEN f ELSE None
<1>1. /\ top \in Idx /\ f \in Nat /\ 0 \in Numbers
      /\ ZeroVas = {Va(KernelPgd, 0), Va(DirectPgd, 0)}
      /\ KernelPgd # DirectPgd
  BY SizeOfTables, BootAssumption DEF Numbers
<1>2. \A x, y : Va(top, f) = Va(x, y) => top = x
  BY DEF Va
<1>3. Va(top, f) \in ZeroVas <=> f = 0
  BY <1>1, <1>2, VaOne
<1>4. CASE f < n
  <2>1. Walkable(m, R, Va(top, f)) /\ pte(m, R, Va(top, f)).addr = f
    BY <1>4 DEF MappedIn, Maps
  <2> QED
    BY <1>3, <1>4, <2>1 DEF get_va_pte, Zero
<1>5. CASE ~(f < n)
  <2>1. f # 0 /\ Bare(m, R, Va(top, f))
    BY <1>1, <1>5 DEF MappedIn
  <2> QED
    BY <1>3, <1>5, <2>1 DEF get_va_pte, Bare, Empty
<1> QED
  BY <1>4, <1>5

(* A walk from another entry of the root does not see what is written in    *)
(* this one.                                                                *)
LEMMA RootWrite ==
  ASSUME NEW m \in Memory, NEW R, NEW C, NEW lab, Labelled(m, R, C, lab),
         NEW e, NEW i \in Idx, NEW va \in Pages, va[1] # i
  PROVE  Kept(m, Put(m, R, i, e), R, va)
<1> DEFINE m1 == Put(m, R, i, e)
<1>1. va[1] \in Idx /\ va[2] \in Idx /\ va[3] \in Idx /\ va[4] \in Idx
  BY PageFacts
<1>2. R \in Frames /\ C \subseteq Frames /\ R \in C /\ lab[R][1] = 1
  BY DEF Labelled, Frames, Top
<1>3. /\ \A j \in Idx : j # i => m1[R][j] = m[R][j]
      /\ \A u \in C : u # R => m1[u] = m[u]
  BY <1>2 DEF Memory, Put
<1> HIDE DEF m1
<1> DEFINE a == pgd(m, R, va)     a1 == pgd(m1, R, va)
           b == pud(m, R, va)     b1 == pud(m1, R, va)
           c == pmd(m, R, va)     c1 == pmd(m1, R, va)
           d == pte(m, R, va)     d1 == pte(m1, R, va)
           x == a.addr            y == b.addr            z == c.addr
<1>4. /\ a = m[R][va[1]] /\ b = m[x][va[2]] /\ c = m[y][va[3]] /\ d = m[z][va[4]]
      /\ a1 = m1[R][va[1]] /\ (a1 = a => b1 = m1[x][va[2]]) /\ (b1 = b => c1 = m1[y][va[3]])
      /\ c1 = c => d1 = m1[z][va[4]]
  BY DEF pgd, pud, pmd, pte
<1>6. /\ Walkable(m, R, va) <=> a # Empty /\ b # Empty /\ c # Empty
      /\ Walkable(m1, R, va) <=> a1 # Empty /\ b1 # Empty /\ c1 # Empty
  BY DEF Walkable
<1>5. /\ a # Empty => x \in C /\ x # R
      /\ a # Empty /\ b # Empty => y \in C /\ y # R
      /\ a # Empty /\ b # Empty /\ c # Empty => z \in C /\ z # R
  <2>1. /\ a # Empty => x \in C /\ lab[x] = <<2, va[1], 0, 0>>
        /\ a # Empty /\ b # Empty => y \in C /\ lab[y] = <<3, va[1], va[2], 0>>
        /\ Walkable(m, R, va) => z \in C /\ lab[z] = <<4, va[1], va[2], va[3]>>
    BY WalkLabels
  <2> HIDE DEF a, b, c, x, y, z
  <2>2. \A u, p, q, s, n : u \in C /\ lab[u] = <<n, p, q, s>> /\ n # 1 => u \in C /\ u # R
    BY <1>2
  <2> QED
    BY <1>6, <2>1, <2>2
<1>7. SUFFICES /\ Walkable(m1, R, va) <=> Walkable(m, R, va)
               /\ Walkable(m, R, va) => d1 = d
  BY DEF Kept, Maps, Bare, m1
<1> HIDE DEF a, b, c, d, a1, b1, c1, d1, x, y, z
<1>8. a1 = a
  BY <1>1, <1>3, <1>4
<1>9. a # Empty => b1 = b
  BY <1>1, <1>3, <1>4, <1>5, <1>8
<1>10. a # Empty /\ b # Empty => c1 = c
  BY <1>1, <1>3, <1>4, <1>5, <1>9
<1>11. a # Empty /\ b # Empty /\ c # Empty => d1 = d
  BY <1>1, <1>3, <1>4, <1>5, <1>10
<1> QED
  BY <1>6, <1>8, <1>9, <1>10, <1>11

LEMMA RegetOK ==
  ASSUME Room, IInv, Reget
  PROVE  IInv'
<1> DEFINE e == [addr |-> BootPud, attr |-> RW]
<1>1. /\ image \in Images /\ reading \in Readings /\ Now \in State /\ k \in Nat
      /\ total = boot_mm_detect(reading) /\ total \in Nat /\ Building /\ Handed(Now)
      /\ pc = "reget" /\ pc' = "done" /\ mem' = Put(mem, root, 0, e)
      /\ UNCHANGED <<image, reading, total, start, root, k, chunks, refused>>
  BY DEF IInv, TypeOK, Loops, Reget, Put
<1>2. PICK lab : Good(Now, lab)
  BY <1>1 DEF Building
<1> DEFINE C == Upto(Len(chunks))
<1>3. Labelled(mem, root, C, lab) /\ mem \in Memory
  BY <1>1, <1>2 DEF Good, Handed, Now, State
<1> HIDE DEF C
<1>4. root \in Frames /\ 0 \in Idx /\ e \in Word
  BY <1>3, WordFacts DEF Labelled, Frames
<1>5. mem' \in Memory /\ mem'[root][0] = e
  BY <1>1, <1>3, <1>4 DEF Memory, Put
<1>6. Now' \in State /\ Handed(Now)'
  <2>1. /\ Now'.start = Now.start /\ Now'.chunks = Now.chunks /\ Now'.refused = Now.refused
        /\ Now' \in State
    BY <1>1, <1>5 DEF Now, State
  <2> QED
    BY <1>1, <2>1 DEF Handed
<1> HIDE DEF e
<1>7. ASSUME NEW top \in {KernelPgd, DirectPgd}, NEW n \in Nat, MappedIn(mem, root, top, n)
      PROVE  MappedIn(mem', root, top, n)
  <2> SUFFICES ASSUME NEW f \in Numbers
               PROVE  IF f < n THEN Maps(mem', root, Va(top, f), f)
                               ELSE Bare(mem', root, Va(top, f))
    BY DEF MappedIn
  <2>1. top \in Idx /\ top # 0 /\ f \in Nat
    BY SizeOfTables, BootAssumption DEF Numbers
  <2>2. Va(top, f) \in Pages /\ Va(top, f)[1] # 0
    BY <2>1, VaFacts
  <2>3. Kept(mem, mem', root, Va(top, f))
    BY <2>2, <1>1, <1>3, <1>4, RootWrite
  <2>4. IF f < n THEN Maps(mem, root, Va(top, f), f) ELSE Bare(mem, root, Va(top, f))
    BY <1>7 DEF MappedIn
  <2> QED
    BY <2>1, <2>3, <2>4 DEF Kept
<1>8. image.end \in Nat \ {0} /\ Direct \in Nat \ {0}
  BY <1>1, ImageFacts
<1>9. MappedIn(mem', root', KernelPgd, image.end) /\ MappedIn(mem', root', DirectPgd, Direct)
  <2>1. MappedIn(mem, root, KernelPgd, image.end) /\ MappedIn(mem, root, DirectPgd, Direct)
    BY <1>1 DEF Building, OfImage, OfDirect
  <2> QED
    BY <2>1, <1>1, <1>7, <1>8
<1>10. ASSUME NEW f \in Numbers
       PROVE  /\ get_va_pte(mem', root', Va(KernelPgd, f)) = IF f < image.end THEN f ELSE None
              /\ get_va_pte(mem', root', Va(DirectPgd, f)) = IF f < Direct THEN f ELSE None
  BY <1>8, <1>9, LookupIs
<1>11. mem'[root'][0].addr = BootPud
  BY <1>1, <1>5 DEF e
<1>12. ImageMapped'
  BY <1>1, <1>10, <1>11 DEF ImageMapped, Lookup, Numbers
<1>13. TypeOK'
  BY <1>1, <1>6 DEF TypeOK, Places
<1> QED
  BY <1>1, <1>6, <1>12, <1>13 DEF IInv, Loops

-----------------------------------------------------------------------------
(* The theorems.                                                            *)

LEMMA NextOK ==
  ASSUME Room, IInv, [Next]_vars
  PROVE  IInv'
<1>1. ASSUME UNCHANGED vars PROVE IInv'
  <2>1. /\ UNCHANGED <<image, reading, pc, total, start, root, mem, k, chunks, refused>>
        /\ Now' = Now
    BY <1>1 DEF vars, Now
  <2>2. TypeOK' /\ ImageMapped'
    BY <2>1 DEF IInv, TypeOK, ImageMapped, Lookup
  <2>3. Handed(Now)' <=> Handed(Now)
    BY <2>1 DEF Handed
  <2>4. ASSUME Building PROVE Building'
    <3>1. PICK lab : Good(Now, lab)
      BY <2>4 DEF Building
    <3>2. Good(Now, lab)'
      BY <2>1, <2>3, <3>1 DEF Good, Upto
    <3>3. (\E l : Good(Now, l))'
      BY <3>2
    <3>4. OfImage' = OfImage /\ OfDirect' = OfDirect
      BY <2>1 DEF OfImage, OfDirect
    <3> QED
      BY <2>1, <2>4, <3>3, <3>4 DEF Building
  <2> QED
    BY <2>1, <2>2, <2>3, <2>4 DEF IInv
<1>2. CASE Done
  BY <1>1, <1>2 DEF Done
<1> QED
  BY <1>1, <1>2, DetectOK, NewRootOK, MapTextOK, TextEndOK, MapRestOK, RestEndOK,
     MapDirectOK, DirectEndOK, RegetOK DEF Next

THEOREM Invariance == ASSUME Room PROVE Spec => []IInv
<1>1. IInv /\ [Next]_vars => IInv'
  BY NextOK
<1> QED
  BY <1>1, InitOK, PTL DEF Spec

(* When the first page table of the kernel is loaded, each page of the      *)
(* image is mapped where the linker put it, the direct mapping area has its *)
(* 10 MB, the first entry leads to the table of the boot stage, and nothing *)
(* else is mapped: for tables of any size and every image and reading of    *)
(* the CMOS that leave room for the tables.                                 *)
THEOREM SpecImageMapped == ASSUME Room PROVE Spec => []ImageMapped
<1>1. IInv => ImageMapped
  BY DEF IInv
<1> QED
  BY <1>1, Invariance, PTL

(* The page tables lie behind the image, one page each, in memory that      *)
(* exists, below where mm_init goes on, and within the 10 MB that mm_init   *)
(* reaches them through.                                                    *)
THEOREM SpecTablesApart == ASSUME Room PROVE Spec => []TablesApart
<1>1. IInv => TablesApart
  <2> SUFFICES ASSUME IInv, NEW i \in DOMAIN chunks, NEW j \in DOMAIN chunks
               PROVE  /\ chunks[i] >= image.end
                      /\ chunks[i] < start
                      /\ chunks[i] < total
                      /\ chunks[i] < Direct
                      /\ i # j => chunks[i] # chunks[j]
    BY DEF TablesApart
  <2>1. pc # "detect"
    BY DEF IInv
  <2>2. /\ image \in Images /\ reading \in Readings /\ total = boot_mm_detect(reading)
        /\ Handed(Now) /\ total \in Nat
    BY <2>1 DEF IInv, TypeOK
  <2>3. /\ chunks \in Seq(Nat) /\ Len(chunks) <= Need(image)
        /\ start = image.end + 1 + Len(chunks)
        /\ \A n \in 1 .. Len(chunks) : chunks[n] = image.end + n
    BY <2>2 DEF Handed, Now, State
  <2>4. /\ image.end \in Nat /\ Need(image) \in Nat /\ Direct \in Nat
        /\ image.end + Need(image) + 1 < total /\ image.end + Need(image) < Direct
    BY <2>2, ImageFacts DEF Room
  <2>5. i \in 1 .. Len(chunks) /\ j \in 1 .. Len(chunks) /\ Len(chunks) \in Nat
    BY <2>3
  <2>6. chunks[i] = image.end + i /\ chunks[j] = image.end + j
    BY <2>3, <2>5
  <2> DEFINE n == Len(chunks)
             e == image.end
             d == Need(image)
  <2>7. /\ i \in 1 .. n /\ j \in 1 .. n /\ n \in Nat /\ n <= d /\ e \in Nat /\ d \in Nat
        /\ start = e + 1 + n /\ total \in Nat /\ e + d + 1 < total
        /\ Direct \in Nat /\ e + d < Direct
    BY <2>2, <2>3, <2>4, <2>5
  <2> HIDE DEF n, d
  <2>8. /\ e + i >= e /\ e + i < start /\ e + i < total /\ e + i < Direct
        /\ i # j => e + i # e + j
    BY ONLY <2>7
  <2> QED
    BY <2>6, <2>8
<1> QED
  BY <1>1, Invariance, PTL
=============================================================================
