---------------------------- MODULE ListHeadProof ----------------------------
(***************************************************************************)
(* Proofs about ListHead, for any number of heads and nodes: the pointers  *)
(* of list.h behave like the sequences of ListSeq, which the models of the *)
(* allocators are built on, and an operation on one list leaves the cells  *)
(* of the others alone.                                                    *)
(*                                                                         *)
(* The inductive invariant adds what the users of the lists rely on: a     *)
(* node is at one place of one list.                                       *)
(***************************************************************************)
EXTENDS ListHead, SequenceTheorems, TLAPS

Words  == Cells \cup {Wild}
Memory == [Cells -> [next : Words, prev : Words]]

TypeOK == /\ ready \subseteq Heads
          /\ lists \in [Heads -> Seq(Nodes)]
          /\ cell \in Memory

(* A node is at one place of one list, and a list whose head is not         *)
(* initialised is empty.                                                    *)
Once == \A g, h \in Heads : \A i \in DOMAIN lists[g], j \in DOMAIN lists[h] :
          lists[g][i] = lists[h][j] => g = h /\ i = j
NotReady == \A h \in Heads : h \notin ready => lists[h] = <<>>

IInv == TypeOK /\ Once /\ NotReady /\ WalksAgree

-----------------------------------------------------------------------------
(* What the operations write, word by word.  The assignments read what the  *)
(* ones before them wrote, so that this needs the neighbours to be others   *)
(* than the node; they may be one and the same cell.                        *)

LEMMA SetNextWords ==
  ASSUME NEW m \in Memory, NEW x \in Cells, NEW v \in Words
  PROVE  /\ SetNext(m, x, v) \in Memory
         /\ \A y \in Cells : /\ SetNext(m, x, v)[y].next = IF y = x THEN v ELSE m[y].next
                             /\ SetNext(m, x, v)[y].prev = m[y].prev
  BY DEF SetNext, Memory

LEMMA SetPrevWords ==
  ASSUME NEW m \in Memory, NEW x \in Cells, NEW v \in Words
  PROVE  /\ SetPrev(m, x, v) \in Memory
         /\ \A y \in Cells : /\ SetPrev(m, x, v)[y].prev = IF y = x THEN v ELSE m[y].prev
                             /\ SetPrev(m, x, v)[y].next = m[y].next
  BY DEF SetPrev, Memory

LEMMA InitWords ==
  ASSUME NEW m \in Memory, NEW e \in Cells
  PROVE  LET m1 == list_head_init(m, e) IN
         /\ m1 \in Memory
         /\ \A x \in Cells : /\ m1[x].next = IF x = e THEN e ELSE m[x].next
                             /\ m1[x].prev = IF x = e THEN e ELSE m[x].prev
<1>1. e \in Words
  BY DEF Words
<1>2. SetNext(m, e, e) \in Memory
  BY <1>1, SetNextWords
<1> QED
  BY <1>1, <1>2, SetNextWords, SetPrevWords DEF list_head_init

LEMMA AddNextWords ==
  ASSUME NEW m \in Memory, NEW e \in Cells, NEW n \in Cells, NEW b \in Cells,
         b = m[e].next, n # e, n # b
  PROVE  LET m1 == list_add_next(m, e, n) IN
         /\ m1 \in Memory
         /\ \A x \in Cells :
              /\ m1[x].next = IF x = e THEN n ELSE IF x = n THEN b ELSE m[x].next
              /\ m1[x].prev = IF x = n THEN e ELSE IF x = b THEN n ELSE m[x].prev
<1> DEFINE p1 == SetPrev(m, b, n)
           p2 == SetPrev(p1, n, e)
           p3 == SetNext(p2, n, b)
           p4 == SetNext(p3, e, n)
<1>1. m \in Memory /\ {e, n, b} \subseteq Cells /\ {e, n, b} \subseteq Words
  BY DEF Words
<1>2. p1 \in Memory /\ \A x \in Cells : /\ p1[x].prev = IF x = b THEN n ELSE m[x].prev
                                        /\ p1[x].next = m[x].next
  BY ONLY <1>1, SetPrevWords
<1> HIDE DEF p1
<1>3. p2 \in Memory /\ \A x \in Cells : /\ p2[x].prev = IF x = n THEN e ELSE p1[x].prev
                                        /\ p2[x].next = p1[x].next
  BY ONLY <1>1, <1>2, SetPrevWords
<1> HIDE DEF p2
<1>4. p3 \in Memory /\ \A x \in Cells : /\ p3[x].next = IF x = n THEN b ELSE p2[x].next
                                        /\ p3[x].prev = p2[x].prev
  BY ONLY <1>1, <1>3, SetNextWords
<1> HIDE DEF p3
<1>5. p4 \in Memory /\ \A x \in Cells : /\ p4[x].next = IF x = e THEN n ELSE p3[x].next
                                        /\ p4[x].prev = p3[x].prev
  BY ONLY <1>1, <1>4, SetNextWords
<1>6. list_add_next(m, e, n) = p4
  <2>1. p2[e].next = b
    BY <1>2, <1>3
  <2> QED
    BY <2>1 DEF list_add_next, p1, p2, p3
<1> HIDE DEF p4
<1> QED
  BY <1>2, <1>3, <1>4, <1>5, <1>6

LEMMA AddPrevWords ==
  ASSUME NEW m \in Memory, NEW e \in Cells, NEW n \in Cells, NEW b \in Cells,
         b = m[e].prev, n # e, n # b
  PROVE  LET m1 == list_add_prev(m, e, n) IN
         /\ m1 \in Memory
         /\ \A x \in Cells :
              /\ m1[x].next = IF x = n THEN e ELSE IF x = b THEN n ELSE m[x].next
              /\ m1[x].prev = IF x = e THEN n ELSE IF x = n THEN b ELSE m[x].prev
<1> DEFINE p1 == SetNext(m, b, n)
           p2 == SetPrev(p1, n, b)
           p3 == SetNext(p2, n, e)
           p4 == SetPrev(p3, e, n)
<1>1. m \in Memory /\ {e, n, b} \subseteq Cells /\ {e, n, b} \subseteq Words
  BY DEF Words
<1>2. p1 \in Memory /\ \A x \in Cells : /\ p1[x].next = IF x = b THEN n ELSE m[x].next
                                        /\ p1[x].prev = m[x].prev
  BY ONLY <1>1, SetNextWords
<1> HIDE DEF p1
<1>3. p2 \in Memory /\ \A x \in Cells : /\ p2[x].prev = IF x = n THEN b ELSE p1[x].prev
                                        /\ p2[x].next = p1[x].next
  BY ONLY <1>1, <1>2, SetPrevWords
<1> HIDE DEF p2
<1>4. p3 \in Memory /\ \A x \in Cells : /\ p3[x].next = IF x = n THEN e ELSE p2[x].next
                                        /\ p3[x].prev = p2[x].prev
  BY ONLY <1>1, <1>3, SetNextWords
<1> HIDE DEF p3
<1>5. p4 \in Memory /\ \A x \in Cells : /\ p4[x].prev = IF x = e THEN n ELSE p3[x].prev
                                        /\ p4[x].next = p3[x].next
  BY ONLY <1>1, <1>4, SetPrevWords
<1>6. list_add_prev(m, e, n) = p4
  <2>1. p1[e].prev = b
    BY <1>2
  <2> QED
    BY <2>1 DEF list_add_prev, p1, p2, p3
<1> HIDE DEF p4
<1> QED
  BY <1>2, <1>3, <1>4, <1>5, <1>6

LEMMA DelWords ==
  ASSUME NEW m \in Memory, NEW e \in Cells, NEW a \in Cells, NEW b \in Cells,
         a = m[e].prev, b = m[e].next, e # a, e # b
  PROVE  LET m1 == list_del(m, e) IN
         /\ m1 \in Memory
         /\ \A x \in Cells :
              /\ m1[x].next = IF x = a THEN b ELSE m[x].next
              /\ m1[x].prev = IF x = b THEN a ELSE m[x].prev
<1> DEFINE p1 == SetPrev(m, b, a)
           p2 == SetNext(p1, a, b)
<1>1. m \in Memory /\ {a, b} \subseteq Cells /\ {a, b} \subseteq Words
  BY DEF Words
<1>2. p1 \in Memory /\ \A x \in Cells : /\ p1[x].prev = IF x = b THEN a ELSE m[x].prev
                                        /\ p1[x].next = m[x].next
  BY ONLY <1>1, SetPrevWords
<1> HIDE DEF p1
<1>3. p1[e].prev = a /\ p1[e].next = b
  BY <1>2
<1>4. p2 \in Memory /\ \A x \in Cells : /\ p2[x].next = IF x = a THEN b ELSE p1[x].next
                                        /\ p2[x].prev = p1[x].prev
  BY ONLY <1>1, <1>2, SetNextWords
<1>5. list_del(m, e) = p2
  BY <1>3 DEF list_del, p1
<1> HIDE DEF p2
<1> QED
  BY <1>2, <1>4, <1>5

(* A cell is its two words.                                                 *)
LEMMA SameCell ==
  ASSUME NEW m \in Memory, NEW m1 \in Memory, NEW x \in Cells,
         m1[x].next = m[x].next, m1[x].prev = m[x].prev
  PROVE  m1[x] = m[x]
  BY DEF Memory

-----------------------------------------------------------------------------
(* Rings: sequences of different cells, each linked to the next one.        *)

After(rg, i) == IF i = Len(rg) THEN 1 ELSE i + 1

Linked(m, rg) == \A i \in DOMAIN rg : /\ m[rg[i]].next = rg[After(rg, i)]
                                      /\ m[rg[After(rg, i)]].prev = rg[i]

IsRing(rg) == /\ rg \in Seq(Cells) /\ rg # <<>>
              /\ \A i, j \in DOMAIN rg : rg[i] = rg[j] => i = j

In(x, rg) == \E i \in DOMAIN rg : rg[i] = x

LEMMA AfterIn ==
  ASSUME NEW rg, IsRing(rg), NEW i \in DOMAIN rg
  PROVE  After(rg, i) \in DOMAIN rg /\ DOMAIN rg = 1 .. Len(rg) /\ Len(rg) \in Nat
         /\ rg[i] \in Cells
  BY DEF IsRing, After

LEMMA LinkedSame ==
  ASSUME NEW rg, IsRing(rg), NEW m, NEW m1, Linked(m, rg),
         \A i \in DOMAIN rg : m1[rg[i]] = m[rg[i]]
  PROVE  Linked(m1, rg)
  BY AfterIn DEF Linked

(* list_add_next behind the first cell of a ring.                           *)
LEMMA AddNextLinked ==
  ASSUME NEW m \in Memory, NEW rg, IsRing(rg), Linked(m, rg),
         NEW n \in Cells, ~In(n, rg),
         NEW t, IsRing(t), Len(t) = Len(rg) + 1, t[1] = rg[1], t[2] = n,
         \A i \in 2 .. Len(rg) : t[i + 1] = rg[i]
  PROVE  LET m1 == list_add_next(m, rg[1], n) IN
         /\ m1 \in Memory /\ Linked(m1, t)
         /\ \A x \in Cells : x # n /\ ~In(x, rg) => m1[x] = m[x]
<1> DEFINE m1 == list_add_next(m, rg[1], n)
           e == rg[1]
           b == rg[After(rg, 1)]
<1>1. /\ Len(rg) \in Nat /\ Len(rg) >= 1 /\ DOMAIN rg = 1 .. Len(rg)
      /\ DOMAIN t = 1 .. Len(rg) + 1 /\ 1 \in DOMAIN rg
  BY DEF IsRing
<1>2. e \in Cells /\ b \in Cells /\ After(rg, 1) \in DOMAIN rg
  BY <1>1, AfterIn
<1>3. m[e].next = b /\ e # n /\ b # n
  BY <1>1, <1>2 DEF Linked, In
<1>4. /\ m1 \in Memory
      /\ \A x \in Cells :
           /\ m1[x].next = IF x = e THEN n ELSE IF x = n THEN b ELSE m[x].next
           /\ m1[x].prev = IF x = n THEN e ELSE IF x = b THEN n ELSE m[x].prev
  BY <1>2, <1>3, AddNextWords
<1> HIDE DEF m1
<1>5. ASSUME NEW x \in Cells, x # n, ~In(x, rg) PROVE m1[x] = m[x]
  <2>1. x # e /\ x # b
    BY <1>1, <1>2, <1>5 DEF In
  <2> QED
    BY <1>4, <1>5, <2>1, SameCell
<1>6. ASSUME NEW i \in DOMAIN t
      PROVE  m1[t[i]].next = t[After(t, i)] /\ m1[t[After(t, i)]].prev = t[i]
  <2>1. CASE i = 1
    <3>1. After(t, i) = 2
      BY <1>1, <2>1 DEF After
    <3> QED
      BY <1>2, <1>3, <1>4, <2>1, <3>1
  <2>2. CASE i = 2
    <3>1. t[After(t, i)] = b
      <4>1. CASE Len(rg) = 1
        BY <1>1, <2>2, <4>1 DEF After
      <4>2. CASE Len(rg) # 1
        <5>1. After(t, i) = 3 /\ After(rg, 1) = 2 /\ 2 \in 2 .. Len(rg)
          BY <1>1, <2>2, <4>2 DEF After
        <5>2. t[2 + 1] = rg[2]
          BY <5>1
        <5> QED
          BY <5>1, <5>2
      <4> QED
        BY <4>1, <4>2
    <3> QED
      BY <1>2, <1>3, <1>4, <2>2, <3>1
  <2>3. CASE i > 2
    <3> DEFINE k == i - 1
    <3>1. k \in 2 .. Len(rg) /\ k \in DOMAIN rg /\ k + 1 = i
      BY <1>1, <2>3
    <3> HIDE DEF k
    <3>2. t[i] = rg[k] /\ rg[k] \in Cells /\ rg[k] # e /\ rg[k] # n
      BY <1>1, <3>1 DEF IsRing, In
    <3>3. t[After(t, i)] = rg[After(rg, k)] /\ After(rg, k) # After(rg, 1)
          /\ After(rg, k) \in DOMAIN rg
      <4>1. CASE k = Len(rg)
        BY <1>1, <3>1, <4>1 DEF After
      <4>2. CASE k # Len(rg)
        <5>1. k + 1 \in 2 .. Len(rg) /\ After(t, i) = (k + 1) + 1 /\ After(rg, k) = k + 1
              /\ k + 1 # After(rg, 1)
          BY <1>1, <3>1, <4>2 DEF After
        <5> QED
          BY <1>1, <5>1
      <4> QED
        BY <4>1, <4>2
    <3>4. rg[After(rg, k)] # b /\ rg[After(rg, k)] # n /\ rg[After(rg, k)] \in Cells
      BY <1>1, <1>2, <3>3 DEF IsRing, In
    <3>5. m[rg[k]].next = rg[After(rg, k)] /\ m[rg[After(rg, k)]].prev = rg[k]
      BY <3>1 DEF Linked
    <3> QED
      BY <1>4, <3>2, <3>3, <3>4, <3>5
  <2> QED
    BY <1>1, <2>1, <2>2, <2>3
<1> QED
  BY <1>4, <1>5, <1>6 DEF Linked, m1

(* list_add_prev before the first cell of a ring: at its end.               *)
LEMMA AddPrevLinked ==
  ASSUME NEW m \in Memory, NEW rg, IsRing(rg), Linked(m, rg),
         NEW n \in Cells, ~In(n, rg),
         NEW t, IsRing(t), Len(t) = Len(rg) + 1, t[Len(rg) + 1] = n,
         \A i \in 1 .. Len(rg) : t[i] = rg[i]
  PROVE  LET m1 == list_add_prev(m, rg[1], n) IN
         /\ m1 \in Memory /\ Linked(m1, t)
         /\ \A x \in Cells : x # n /\ ~In(x, rg) => m1[x] = m[x]
<1> DEFINE l == Len(rg)
           m1 == list_add_prev(m, rg[1], n)
           e == rg[1]
           b == rg[l]
<1>1. /\ l \in Nat /\ l >= 1 /\ DOMAIN rg = 1 .. l
      /\ DOMAIN t = 1 .. l + 1 /\ Len(t) = l + 1 /\ 1 \in DOMAIN rg /\ l \in DOMAIN rg /\ After(rg, l) = 1
  BY DEF IsRing, After
<1>2. e \in Cells /\ b \in Cells
  BY <1>1, AfterIn
<1>3. m[e].prev = b /\ e # n /\ b # n
  BY <1>1, <1>2 DEF Linked, In
<1>4. /\ m1 \in Memory
      /\ \A x \in Cells :
           /\ m1[x].next = IF x = n THEN e ELSE IF x = b THEN n ELSE m[x].next
           /\ m1[x].prev = IF x = e THEN n ELSE IF x = n THEN b ELSE m[x].prev
  BY <1>2, <1>3, AddPrevWords
<1> HIDE DEF m1
<1>5. ASSUME NEW x \in Cells, x # n, ~In(x, rg) PROVE m1[x] = m[x]
  <2>1. x # e /\ x # b
    BY <1>1, <1>2, <1>5 DEF In
  <2> QED
    BY <1>4, <1>5, <2>1, SameCell
<1>6. ASSUME NEW i \in DOMAIN t
      PROVE  m1[t[i]].next = t[After(t, i)] /\ m1[t[After(t, i)]].prev = t[i]
  <2>1. CASE i = l + 1
    <3>1. After(t, i) = 1 /\ t[1] = e /\ t[i] = n
      BY <1>1, <2>1 DEF After
    <3> QED
      BY <1>2, <1>3, <1>4, <3>1
  <2>2. CASE i = l
    <3>1. \A k \in Nat : k # k + 1 /\ (k >= 1 => k \in 1 .. k)
      BY SMT
    <3>2. After(t, i) = l + 1 /\ t[i] = b
      BY <1>1, <2>2, <3>1 DEF After
    <3> QED
      BY <1>2, <1>3, <1>4, <3>2
  <2>3. CASE i < l
    <3>1. /\ i \in DOMAIN rg /\ i + 1 \in DOMAIN rg /\ After(t, i) = i + 1 /\ After(rg, i) = i + 1
          /\ t[i] = rg[i] /\ t[i + 1] = rg[i + 1]
      BY <1>1, <2>3 DEF After
    <3>2. rg[i] # b /\ rg[i] # n /\ rg[i + 1] # e /\ rg[i + 1] # n
          /\ rg[i] \in Cells /\ rg[i + 1] \in Cells
      BY <1>1, <2>3, <3>1 DEF IsRing, In
    <3>3. m[rg[i]].next = rg[i + 1] /\ m[rg[i + 1]].prev = rg[i]
      BY <3>1 DEF Linked
    <3> QED
      BY <1>4, <3>1, <3>2, <3>3
  <2> QED
    BY <1>1, <2>1, <2>2, <2>3
<1> QED
  BY <1>4, <1>5, <1>6 DEF Linked, m1

(* list_del of any cell of a ring but the first, which is the head.         *)
LEMMA DelLinked ==
  ASSUME NEW m \in Memory, NEW rg, IsRing(rg), Linked(m, rg), NEW k \in 2 .. Len(rg),
         NEW t, IsRing(t), Len(t) = Len(rg) - 1,
         \A i \in 1 .. k - 1 : t[i] = rg[i],
         \A i \in k .. Len(rg) - 1 : t[i] = rg[i + 1]
  PROVE  LET m1 == list_del(m, rg[k]) IN
         /\ m1 \in Memory /\ Linked(m1, t)
         /\ \A x \in Cells : ~In(x, rg) => m1[x] = m[x]
<1> DEFINE l == Len(rg)
           m1 == list_del(m, rg[k])
           a == rg[k - 1]
           b == rg[After(rg, k)]
<1>1. /\ l \in Nat /\ l >= 2 /\ DOMAIN rg = 1 .. l /\ k \in Nat /\ k >= 2 /\ k <= l
      /\ DOMAIN t = 1 .. l - 1 /\ k \in DOMAIN rg /\ k - 1 \in DOMAIN rg
      /\ After(rg, k - 1) = k /\ After(rg, k) \in DOMAIN rg /\ After(rg, k) # k
  BY DEF IsRing, After
<1>2. /\ rg[k] \in Cells /\ a \in Cells /\ b \in Cells
      /\ rg[k] # a /\ rg[k] # b
  BY <1>1, AfterIn DEF IsRing
<1>3. m[rg[k]].prev = a /\ m[rg[k]].next = b
  BY <1>1 DEF Linked
<1>4. /\ m1 \in Memory
      /\ \A x \in Cells : /\ m1[x].next = IF x = a THEN b ELSE m[x].next
                          /\ m1[x].prev = IF x = b THEN a ELSE m[x].prev
  BY <1>2, <1>3, DelWords
<1> HIDE DEF m1
<1>5. ASSUME NEW x \in Cells, ~In(x, rg) PROVE m1[x] = m[x]
  <2>1. x # a /\ x # b
    BY <1>1, <1>5 DEF In
  <2> QED
    BY <1>4, <2>1, SameCell
<1>6. ASSUME NEW i \in DOMAIN t
      PROVE  m1[t[i]].next = t[After(t, i)] /\ m1[t[After(t, i)]].prev = t[i]
  <2>1. CASE i = k - 1
    <3>1. t[i] = a
      BY <1>1, <2>1
    <3>2. t[After(t, i)] = b
      <4>1. CASE k = l
        <5>1. After(t, i) = 1 /\ After(rg, k) = 1 /\ 1 \in 1 .. k - 1
          BY <1>1, <2>1, <4>1 DEF After
        <5> QED
          BY <5>1
      <4>2. CASE k # l
        <5>1. After(t, i) = k /\ After(rg, k) = k + 1 /\ k \in k .. l - 1
          BY <1>1, <2>1, <4>2 DEF After
        <5> QED
          BY <5>1
      <4> QED
        BY <4>1, <4>2
    <3> QED
      BY <1>2, <1>4, <3>1, <3>2
  <2>2. CASE i < k - 1
    <3>1. /\ i \in DOMAIN rg /\ i + 1 \in DOMAIN rg /\ After(t, i) = i + 1 /\ After(rg, i) = i + 1
          /\ t[i] = rg[i] /\ t[i + 1] = rg[i + 1] /\ i # k - 1 /\ i + 1 # After(rg, k)
      BY <1>1, <2>2 DEF After
    <3>2. rg[i] # a /\ rg[i + 1] # b /\ rg[i] \in Cells /\ rg[i + 1] \in Cells
      BY <1>1, <3>1 DEF IsRing
    <3>3. m[rg[i]].next = rg[i + 1] /\ m[rg[i + 1]].prev = rg[i]
      BY <3>1 DEF Linked
    <3> QED
      BY <1>4, <3>1, <3>2, <3>3
  <2>3. CASE i >= k
    <3> DEFINE j == i + 1
    <3>1. j \in DOMAIN rg /\ j # k - 1 /\ j > k /\ t[i] = rg[j]
      BY <1>1, <2>3
    <3>2. t[After(t, i)] = rg[After(rg, j)] /\ After(rg, j) # After(rg, k)
          /\ After(rg, j) \in DOMAIN rg
      <4>1. CASE j = l
        <5>1. After(t, i) = 1 /\ After(rg, j) = 1 /\ 1 \in 1 .. k - 1 /\ After(rg, k) = k + 1
          BY <1>1, <2>3, <4>1 DEF After
        <5> QED
          BY <1>1, <5>1
      <4>2. CASE j # l
        <5>1. /\ After(t, i) = j /\ After(rg, j) = j + 1 /\ j \in k .. l - 1
              /\ After(rg, k) = k + 1
          BY <1>1, <2>3, <3>1, <4>2 DEF After
        <5> QED
          BY <1>1, <3>1, <5>1
      <4> QED
        BY <4>1, <4>2
    <3> HIDE DEF j
    <3>3. rg[j] # a /\ rg[After(rg, j)] # b
      BY <1>1, <3>1, <3>2 DEF IsRing
    <3>4. rg[j] \in Cells /\ rg[After(rg, j)] \in Cells
      BY <3>1, <3>2, AfterIn
    <3>5. m[rg[j]].next = rg[After(rg, j)] /\ m[rg[After(rg, j)]].prev = rg[j]
      BY <3>1 DEF Linked
    <3> QED
      BY <1>4, <3>1, <3>2, <3>3, <3>4, <3>5
  <2> QED
    BY <1>1, <2>1, <2>2, <2>3
<1> QED
  BY <1>4, <1>5, <1>6 DEF Linked, m1

-----------------------------------------------------------------------------
(* Sequences and rings.                                                     *)

LEMMA Cons ==
  ASSUME NEW S, NEW x \in S, NEW s \in Seq(S)
  PROVE  /\ <<x>> \o s \in Seq(S)
         /\ Len(<<x>> \o s) = Len(s) + 1
         /\ (<<x>> \o s)[1] = x
         /\ \A i \in 1 .. Len(s) : (<<x>> \o s)[i + 1] = s[i]
<1>1. <<x>> \in Seq(S) /\ Len(<<x>>) = 1 /\ <<x>>[1] = x
  OBVIOUS
<1> DEFINE u == <<x>>
<1> HIDE DEF u
<1>2. u \in Seq(S) /\ Len(u) = 1 /\ u[1] = x
  BY <1>1 DEF u
<1>3. u \o s \in Seq(S) /\ Len(u \o s) = Len(s) + 1 /\ (u \o s)[1] = x
  BY <1>2, ConcatProperties
<1>4. ASSUME NEW i \in 1 .. Len(s) PROVE (u \o s)[i + 1] = s[i]
  <2>1. /\ i + 1 \in 1 .. Len(u) + Len(s) /\ ~(i + 1 <= Len(u)) /\ i + 1 - Len(u) = i
    BY <1>2
  <2> QED
    BY <1>2, <2>1, ConcatProperties
<1> QED
  BY <1>3, <1>4 DEF u

LEMMA Snoc ==
  ASSUME NEW S, NEW x \in S, NEW s \in Seq(S)
  PROVE  /\ Append(s, x) \in Seq(S)
         /\ Len(Append(s, x)) = Len(s) + 1
         /\ Append(s, x)[Len(s) + 1] = x
         /\ \A i \in 1 .. Len(s) : Append(s, x)[i] = s[i]
  OBVIOUS

(* Taking the element at n out leaves the ones before it where they are and *)
(* moves the others up by one.                                              *)
LEMMA Removed ==
  ASSUME NEW S, NEW s \in Seq(S), NEW n \in DOMAIN s
  PROVE  /\ L!RemoveAt(s, n) \in Seq(S)
         /\ Len(L!RemoveAt(s, n)) = Len(s) - 1
         /\ DOMAIN L!RemoveAt(s, n) = 1 .. Len(s) - 1
         /\ \A i \in 1 .. n - 1 : L!RemoveAt(s, n)[i] = s[i]
         /\ \A i \in n .. Len(s) - 1 : L!RemoveAt(s, n)[i] = s[i + 1]
<1> DEFINE t == L!RemoveAt(s, n)
<1>1. n \in DOMAIN s
  OBVIOUS
<1>2. /\ Len(s) \in Nat
      /\ DOMAIN s = 1 .. Len(s)
  OBVIOUS
<1> DEFINE u == SubSeq(s, 1, n - 1)
           v == SubSeq(s, n + 1, Len(s))
<1>3. /\ u \in Seq(S) /\ Len(u) = n - 1
      /\ \A i \in 1 .. n - 1 : u[i] = s[i]
  BY <1>1, <1>2
<1>4. /\ v \in Seq(S) /\ Len(v) = Len(s) - n
      /\ \A i \in 1 .. Len(s) - n : v[i] = s[n + i]
  <2>1. n \in Nat /\ n >= 1 /\ n <= Len(s)
    BY <1>1, <1>2
  <2>2. \A i \in (n + 1) .. Len(s) : s[i] \in S
    BY <2>1, <1>2
  <2>3. /\ v \in Seq(S)
        /\ Len(v) = IF n + 1 <= Len(s) THEN Len(s) - (n + 1) + 1 ELSE 0
        /\ \A i \in 1 .. Len(s) - (n + 1) + 1 : v[i] = s[(n + 1) + i - 1]
    BY <2>1, <2>2, <1>2, SubSeqProperties
  <2> HIDE DEF v
  <2> HIDE DEF u, t
  <2>4. Len(v) = Len(s) - n
    <3>1. Len(v) = IF n + 1 <= Len(s) THEN Len(s) - (n + 1) + 1 ELSE 0
      BY <2>3
    <3>2. \A l \in Nat : \A i \in 1 .. l :
            (IF i + 1 <= l THEN l - (i + 1) + 1 ELSE 0) = l - i
      OBVIOUS
    <3>3. n \in 1 .. Len(s)
      BY <1>1, <1>2
    <3> QED
      BY ONLY <3>1, <3>2, <3>3, <1>2
  <2>5. ASSUME NEW i \in 1 .. Len(s) - n
        PROVE  v[i] = s[n + i]
    <3>1. i \in 1 .. Len(s) - (n + 1) + 1 /\ (n + 1) + i - 1 = n + i
      BY <2>1, <1>2
    <3> QED
      BY <3>1, <2>3
  <2> QED
    BY <2>3, <2>4, <2>5
<1>5. t = u \o v
  BY DEF L!RemoveAt
<1> HIDE DEF u, v, t
<1>6. Len(t) = Len(s) - 1 /\ t \in Seq(S) /\ DOMAIN t = 1 .. Len(s) - 1
  <2>1. n \in Nat /\ n >= 1 /\ n <= Len(s)
    BY <1>1, <1>2
  <2>2. t \in Seq(S) /\ Len(t) = Len(u) + Len(v)
    BY <1>3, <1>4, <1>5, ConcatProperties
  <2> QED
    BY <2>1, <2>2, <1>3, <1>4, <1>2
<1>7. \A i \in 1 .. n - 1 : t[i] = s[i]
  <2>1. \A i \in 1 .. n - 1 : (u \o v)[i] = u[i]
    BY <1>3, <1>4, <1>1, <1>2, ConcatProperties
  <2> QED
    BY <2>1, <1>3, <1>5
<1>8. ASSUME NEW i \in n .. Len(s) - 1 PROVE t[i] = s[i + 1]
  <2>1. i - (n - 1) \in 1 .. Len(s) - n /\ n + (i - (n - 1)) = i + 1
    BY <1>1, <1>2
  <2>2. i \in 1 .. Len(u) + Len(v) /\ i > Len(u)
    BY <1>3, <1>4, <1>1, <1>2
  <2>3. (u \o v)[i] = v[i - Len(u)]
    <3>1. ~(i <= Len(u))
      BY <2>2, <1>3, <1>1, <1>2
    <3> QED
      BY <1>3, <1>4, <2>2, <3>1, ConcatProperties
  <2> QED
    BY <2>1, <2>3, <1>3, <1>4, <1>5
<1> QED
  BY <1>6, <1>7, <1>8 DEF t

(* ListSeq's list_del takes out exactly the one place where the node is.    *)
LEMMA Deleted ==
  ASSUME NEW S, NEW s \in Seq(S), NEW k \in DOMAIN s,
         \A i, j \in DOMAIN s : s[i] = s[j] => i = j
  PROVE  /\ L!list_del(s, s[k]) \in Seq(S)
         /\ Len(L!list_del(s, s[k])) = Len(s) - 1
         /\ \A i \in 1 .. k - 1 : L!list_del(s, s[k])[i] = s[i]
         /\ \A i \in k .. Len(s) - 1 : L!list_del(s, s[k])[i] = s[i + 1]
<1>1. L!list_del(s, s[k]) = L!RemoveAt(s, k)
  <2> DEFINE c == CHOOSE i \in DOMAIN s : s[i] = s[k]
  <2>1. c \in DOMAIN s /\ s[c] = s[k]
    OBVIOUS
  <2>2. c = k
    BY <2>1
  <2>3. L!list_del(s, s[k]) = L!RemoveAt(s, c)
    BY DEF L!list_del
  <2> HIDE DEF c
  <2> QED
    BY <2>2, <2>3
<1> QED
  BY <1>1, Removed

LEMMA NotDeleted ==
  ASSUME NEW s, NEW n, \A i \in DOMAIN s : s[i] # n
  PROVE  L!list_del(s, n) = s
  BY DEF L!list_del

RingOf(h, s) == <<h>> \o s

LEMMA RingFacts ==
  ASSUME NEW h \in Heads, NEW s \in Seq(Nodes)
  PROVE  /\ RingOf(h, s) \in Seq(Cells)
         /\ Len(RingOf(h, s)) = Len(s) + 1 /\ Len(s) \in Nat
         /\ DOMAIN RingOf(h, s) = 1 .. Len(s) + 1 /\ DOMAIN s = 1 .. Len(s)
         /\ RingOf(h, s)[1] = h
         /\ \A i \in 1 .. Len(s) : RingOf(h, s)[i + 1] = s[i] /\ s[i] \in Nodes
         /\ (\A i, j \in DOMAIN s : s[i] = s[j] => i = j) => IsRing(RingOf(h, s))
<1>1. h \in Cells /\ s \in Seq(Cells) /\ Heads \cap Nodes = {}
  BY CellAssumption DEF Cells
<1>2. /\ RingOf(h, s) \in Seq(Cells) /\ Len(RingOf(h, s)) = Len(s) + 1
      /\ RingOf(h, s)[1] = h
      /\ \A i \in 1 .. Len(s) : RingOf(h, s)[i + 1] = s[i]
  BY <1>1, Cons DEF RingOf
<1> DEFINE rg == RingOf(h, s)
<1> HIDE DEF rg
<1>3. /\ rg \in Seq(Cells) /\ Len(rg) = Len(s) + 1 /\ Len(s) \in Nat
      /\ DOMAIN rg = 1 .. Len(s) + 1 /\ DOMAIN s = 1 .. Len(s) /\ rg[1] = h
      /\ \A i \in 1 .. Len(s) : rg[i + 1] = s[i] /\ s[i] \in Nodes
  BY <1>2 DEF rg
<1>4. ASSUME \A i, j \in DOMAIN s : s[i] = s[j] => i = j PROVE IsRing(rg)
  <2>1. \A i \in DOMAIN rg : i = 1 \/ \E k \in DOMAIN s : i = k + 1 /\ rg[i] = s[k]
    <3> TAKE i \in DOMAIN rg
    <3>1. CASE i # 1
      <4>1. i - 1 \in 1 .. Len(s) /\ i = (i - 1) + 1
        BY <1>3, <3>1
      <4> QED
        BY <1>3, <4>1
    <3> QED
      BY <3>1
  <2>2. \A k \in DOMAIN s : s[k] # h
    BY <1>1, <1>3
  <2>3. \A i, j \in DOMAIN rg : rg[i] = rg[j] => i = j
    BY <1>3, <1>4, <2>1, <2>2
  <2>4. rg # <<>>
    BY <1>3
  <2> QED
    BY <1>3, <2>3, <2>4 DEF IsRing
<1> QED
  BY <1>3, <1>4 DEF rg

(* What is in a ring.                                                       *)
LEMMA InRing ==
  ASSUME NEW h \in Heads, NEW s \in Seq(Nodes), NEW x
  PROVE  In(x, RingOf(h, s)) <=> x = h \/ \E i \in DOMAIN s : s[i] = x
<1> DEFINE rg == RingOf(h, s)
<1>1. /\ DOMAIN rg = 1 .. Len(s) + 1 /\ DOMAIN s = 1 .. Len(s) /\ Len(s) \in Nat /\ rg[1] = h
      /\ \A i \in 1 .. Len(s) : rg[i + 1] = s[i]
  BY RingFacts
<1> HIDE DEF rg
<1>2. \A i \in DOMAIN rg : i = 1 \/ \E k \in DOMAIN s : rg[i] = s[k]
  <2> TAKE i \in DOMAIN rg
  <2>1. CASE i # 1
    <3>1. i - 1 \in 1 .. Len(s) /\ i = (i - 1) + 1
      BY <1>1, <2>1
    <3> QED
      BY <1>1, <3>1
  <2> QED
    BY <2>1
<1>3. 1 \in DOMAIN rg /\ \A i \in DOMAIN s : i + 1 \in DOMAIN rg
  BY <1>1
<1>4. In(x, rg) <=> x = h \/ \E i \in DOMAIN s : s[i] = x
  BY <1>1, <1>2, <1>3 DEF In
<1> QED
  BY <1>4 DEF rg

(* The rings of different heads have no cell in common.                     *)
LEMMA Apart ==
  ASSUME TypeOK, Once, NEW g \in Heads, NEW h \in Heads, g # h, NEW x,
         In(x, RingOf(g, lists[g]))
  PROVE  ~In(x, RingOf(h, lists[h]))
<1>1. lists[g] \in Seq(Nodes) /\ lists[h] \in Seq(Nodes) /\ Heads \cap Nodes = {}
  BY CellAssumption DEF TypeOK
<1>2. /\ \A i \in DOMAIN lists[g] : lists[g][i] \in Nodes
      /\ \A i \in DOMAIN lists[h] : lists[h][i] \in Nodes
  BY <1>1
<1>3. \A i \in DOMAIN lists[g], j \in DOMAIN lists[h] : lists[g][i] # lists[h][j]
  BY DEF Once
<1> QED
  BY <1>1, <1>2, <1>3, InRing

LEMMA HeadRing ==
  ASSUME TypeOK, Once, NEW h \in Heads
  PROVE  IsRing(RingOf(h, lists[h])) /\ lists[h] \in Seq(Nodes)
<1>1. lists[h] \in Seq(Nodes)
  BY DEF TypeOK
<1>2. \A i, j \in DOMAIN lists[h] : lists[h][i] = lists[h][j] => i = j
  BY DEF Once
<1> QED
  BY <1>1, <1>2, RingFacts

LEMMA Walks == WalksAgree <=> \A h \in ready : Linked(cell, RingOf(h, lists[h]))
  BY DEF WalksAgree, Linked, Ring, RingOf, After

LEMMA WalksNext ==
  WalksAgree' <=> \A h \in ready' : Linked(cell', RingOf(h, lists'[h]))
  BY DEF WalksAgree, Linked, Ring, RingOf, After

(* A step that turns the ring of one head into another ring, and writes no  *)
(* other cell but that of a node that is on no list, keeps the walks.       *)
LEMMA OneRing ==
  ASSUME IInv, NEW h \in Heads, ready' = ready \cup {h}, NEW q,
         lists' \in [Heads -> Seq(Nodes)], cell' \in Memory,
         \A g \in Heads : g # h => lists'[g] = lists[g],
         Linked(cell', RingOf(h, lists'[h])),
         \A x \in Cells : x # q /\ ~In(x, RingOf(h, lists[h])) => cell'[x] = cell[x],
         \A g \in Heads : g # h => ~In(q, RingOf(g, lists[g]))
  PROVE  /\ WalksAgree'
         /\ \A g \in ready : g # h => \A i \in DOMAIN Ring(g) :
              cell'[Ring(g)[i]] = cell[Ring(g)[i]]
<1>1. TypeOK /\ Once /\ ready \subseteq Heads
  BY DEF IInv, TypeOK
<1>2. ASSUME NEW g \in Heads, g # h, NEW i \in DOMAIN RingOf(g, lists[g])
      PROVE  cell'[RingOf(g, lists[g])[i]] = cell[RingOf(g, lists[g])[i]]
  <2> DEFINE x == RingOf(g, lists[g])[i]
  <2>1. x \in Cells /\ In(x, RingOf(g, lists[g]))
    BY <1>1, HeadRing, AfterIn DEF In
  <2>2. ~In(x, RingOf(h, lists[h]))
    BY <1>1, <1>2, <2>1, Apart
  <2>3. x # q
    BY <1>2, <2>1
  <2> QED
    BY <2>1, <2>2, <2>3
<1>3. ASSUME NEW g \in ready, g # h PROVE Linked(cell', RingOf(g, lists'[g]))
  <2>1. Linked(cell, RingOf(g, lists[g])) /\ g \in Heads
    BY <1>1, Walks DEF IInv
  <2>2. IsRing(RingOf(g, lists[g]))
    BY <1>1, <2>1, HeadRing
  <2>3. Linked(cell', RingOf(g, lists[g]))
    BY <1>2, <1>3, <2>1, <2>2, LinkedSame
  <2> QED
    BY <1>3, <2>1, <2>3
<1>4. WalksAgree'
  BY <1>3, WalksNext
<1> QED
  BY <1>1, <1>2, <1>4 DEF Ring, RingOf

-----------------------------------------------------------------------------
(* One step.  Every operation gives one head a new list; what it owes is    *)
(* that the new ring is linked, that its nodes are different ones and on no *)
(* other list, and that it writes nothing outside the two rings.            *)
OthersKept(h) ==
  \A g \in ready : g # h => \A i \in DOMAIN Ring(g) : cell'[Ring(g)[i]] = cell[Ring(g)[i]]

LEMMA NewList ==
  ASSUME IInv, NEW h \in Heads, NEW s \in Seq(Nodes), NEW q,
         ready' = ready \cup {h}, lists' = [lists EXCEPT ![h] = s], cell' \in Memory,
         \A i, j \in DOMAIN s : s[i] = s[j] => i = j,
         \A i \in DOMAIN s : \A g \in Heads : g # h =>
           \A j \in DOMAIN lists[g] : s[i] # lists[g][j],
         Linked(cell', RingOf(h, s)),
         \A x \in Cells : x # q /\ ~In(x, RingOf(h, lists[h])) => cell'[x] = cell[x],
         \A g \in Heads : g # h => ~In(q, RingOf(g, lists[g]))
  PROVE  IInv' /\ OthersKept(h)
<1>1. TypeOK /\ Once /\ NotReady
  BY DEF IInv
<1>2. /\ lists' \in [Heads -> Seq(Nodes)] /\ lists'[h] = s
      /\ \A g \in Heads : g # h => lists'[g] = lists[g]
  BY <1>1 DEF TypeOK
<1>3. WalksAgree' /\ OthersKept(h)
  <2>1. Linked(cell', RingOf(h, lists'[h]))
    BY <1>2
  <2> QED
    BY <1>2, <2>1, OneRing DEF OthersKept
<1>4. TypeOK'
  BY <1>1, <1>2 DEF TypeOK
<1>5. Once'
  <2> SUFFICES ASSUME NEW f \in Heads, NEW g \in Heads,
                      NEW i \in DOMAIN lists'[f], NEW j \in DOMAIN lists'[g],
                      lists'[f][i] = lists'[g][j]
               PROVE  f = g /\ i = j
    BY DEF Once
  <2>1. CASE f = h /\ g = h
    BY <1>2, <2>1
  <2>2. CASE f = h /\ g # h
    BY <1>2, <2>2
  <2>3. CASE f # h /\ g = h
    BY <1>2, <2>3
  <2>4. CASE f # h /\ g # h
    BY <1>1, <1>2, <2>4 DEF Once
  <2> QED
    BY <2>1, <2>2, <2>3, <2>4
<1>6. NotReady'
  BY <1>1, <1>2 DEF NotReady
<1> QED
  BY <1>3, <1>4, <1>5, <1>6 DEF IInv

(* A node that is on no list of a ready head is on no list at all.          *)
LEMMA Free ==
  ASSUME TypeOK, NotReady, NEW n \in Nodes, ~Listed(n)
  PROVE  /\ \A g \in Heads : \A j \in DOMAIN lists[g] : lists[g][j] # n
         /\ \A g \in Heads : ~In(n, RingOf(g, lists[g]))
<1>1. Heads \cap Nodes = {} /\ \A g \in Heads : lists[g] \in Seq(Nodes)
  BY CellAssumption DEF TypeOK
<1>2. ASSUME NEW g \in Heads, NEW j \in DOMAIN lists[g] PROVE lists[g][j] # n
  <2>1. CASE g \in ready
    BY <2>1 DEF Listed
  <2>2. CASE g \notin ready
    <3>1. lists[g] = <<>>
      BY <2>2 DEF NotReady
    <3> QED
      BY <3>1
  <2> QED
    BY <2>1, <2>2
<1> QED
  BY <1>1, <1>2, InRing

LEMMA InitHeadStep ==
  ASSUME IInv, NEW h \in Heads, InitHead(h)
  PROVE  IInv' /\ OthersKept(h)
<1>1. TypeOK /\ Once /\ NotReady
  BY DEF IInv
<1>2. lists[h] = <<>> /\ h \notin ready /\ h \in Cells /\ cell \in Memory
  BY <1>1 DEF NotReady, InitHead, TypeOK, Cells
<1> DEFINE s == L!list_head_init
           rg == RingOf(h, s)
<1>3. s = <<>> /\ s \in Seq(Nodes) /\ Len(s) = 0
  BY DEF L!list_head_init
<1>4. cell' = list_head_init(cell, h)
  BY DEF InitHead
<1>5. cell' \in Memory /\ \A x \in Cells : /\ cell'[x].next = IF x = h THEN h ELSE cell[x].next
                                           /\ cell'[x].prev = IF x = h THEN h ELSE cell[x].prev
  BY <1>2, <1>4, InitWords
<1>6. Linked(cell', rg)
  <2>1. DOMAIN rg = 1 .. Len(s) + 1 /\ rg[1] = h /\ Len(rg) = Len(s) + 1
    BY <1>3, RingFacts
  <2> HIDE DEF rg, s
  <2>2. DOMAIN rg = 1 .. 1 /\ Len(rg) = 1
    BY <1>3, <2>1
  <2>3. \A i \in DOMAIN rg : i = 1 /\ After(rg, i) = 1
    BY <2>2 DEF After
  <2> QED
    BY <1>2, <1>5, <2>1, <2>2, <2>3 DEF Linked
<1>7. \A x \in Cells : x # h => cell'[x] = cell[x]
  BY <1>2, <1>5, SameCell
<1>8. \A g \in Heads : g # h => ~In(h, RingOf(g, lists[g]))
  <2>1. In(h, RingOf(h, lists[h]))
    BY <1>2, <1>3, InRing
  <2> QED
    BY <1>1, <2>1, Apart
<1>9. ready' = ready \cup {h} /\ lists' = [lists EXCEPT ![h] = s]
  BY DEF InitHead
<1>10. DOMAIN s = {}
  BY <1>3
<1> HIDE DEF s
<1> QED
  BY <1>3, <1>5, <1>6, <1>7, <1>8, <1>9, <1>10, NewList

LEMMA AddStep ==
  ASSUME IInv, NEW h \in Heads, NEW n \in Nodes, AddNext(h, n) \/ AddPrev(h, n)
  PROVE  IInv' /\ OthersKept(h) /\ Len(lists'[h]) = Len(lists[h]) + 1
<1>1. TypeOK /\ Once /\ NotReady /\ h \in ready /\ ~Listed(n) /\ ready' = ready
  BY DEF IInv, AddNext, AddPrev
<1> DEFINE o == lists[h]
           l == Len(o)
           rg == RingOf(h, o)
<1>2. o \in Seq(Nodes) /\ cell \in Memory /\ n \in Cells /\ IsRing(rg) /\ Linked(cell, rg)
      /\ h \in Cells
  BY <1>1, HeadRing, Walks DEF TypeOK, IInv, Cells
<1>3. /\ \A g \in Heads : \A j \in DOMAIN lists[g] : lists[g][j] # n
      /\ \A g \in Heads : ~In(n, RingOf(g, lists[g]))
  BY <1>1, Free
<1>4. \A i, j \in DOMAIN o : o[i] = o[j] => i = j
  BY <1>1 DEF Once
<1>5. \A i \in DOMAIN o : \A g \in Heads : g # h => \A j \in DOMAIN lists[g] : o[i] # lists[g][j]
  BY <1>1 DEF Once
<1>6. /\ Len(rg) = l + 1 /\ l \in Nat /\ DOMAIN o = 1 .. l /\ rg[1] = h
      /\ \A i \in 1 .. l : rg[i + 1] = o[i]
  BY <1>2, RingFacts
<1>7. ready' = ready \cup {h}
  BY <1>1
<1>8. CASE AddNext(h, n)
  <2> DEFINE s == L!list_add_next(o, n)
             t == RingOf(h, s)
  <2>1. /\ s \in Seq(Nodes) /\ Len(s) = l + 1 /\ s[1] = n /\ DOMAIN s = 1 .. l + 1
        /\ \A i \in 1 .. l : s[i + 1] = o[i]
    BY <1>2, Cons DEF L!list_add_next
  <2> HIDE DEF s
  <2>2. \A i \in DOMAIN s : i = 1 \/ \E k \in DOMAIN o : i = k + 1 /\ s[i] = o[k]
    <3> TAKE i \in DOMAIN s
    <3>1. CASE i # 1
      <4>1. i - 1 \in 1 .. l /\ i = (i - 1) + 1
        BY <1>6, <2>1, <3>1
      <4> QED
        BY <1>6, <2>1, <4>1
    <3> QED
      BY <3>1
  <2>3. \A i, j \in DOMAIN s : s[i] = s[j] => i = j
    BY <1>3, <1>4, <1>6, <2>1, <2>2
  <2>4. \A i \in DOMAIN s : \A g \in Heads : g # h =>
           \A j \in DOMAIN lists[g] : s[i] # lists[g][j]
    BY <1>3, <1>5, <2>1, <2>2
  <2>5. /\ IsRing(t) /\ Len(t) = l + 2 /\ t[1] = h
        /\ \A i \in 1 .. l + 1 : t[i + 1] = s[i]
    <3>1. h \in Heads /\ s \in Seq(Nodes)
      BY <2>1
    <3>2. IsRing(t) /\ Len(t) = Len(s) + 1 /\ t[1] = h
          /\ \A i \in 1 .. Len(s) : t[i + 1] = s[i]
      BY ONLY <3>1, <2>3, RingFacts
    <3> HIDE DEF t
    <3> QED
      BY <1>6, <2>1, <3>2
  <2>6. t[2] = n
    <3>1. 1 \in 1 .. l + 1 /\ 1 + 1 = 2
      BY <1>6
    <3>2. t[1 + 1] = s[1]
      BY <2>5, <3>1
    <3> QED
      BY <2>1, <3>1, <3>2
  <2>7. \A i \in 2 .. Len(rg) : t[i + 1] = rg[i]
    <3> TAKE i \in 2 .. Len(rg)
    <3>1. i \in 1 .. l + 1 /\ i - 1 \in 1 .. l /\ (i - 1) + 1 = i
      BY <1>6
    <3>2. rg[i] = o[i - 1] /\ s[i] = o[i - 1]
      BY <1>6, <2>1, <3>1
    <3> QED
      BY <2>5, <3>1, <3>2
  <2>8. Len(t) = Len(rg) + 1
    BY <1>6, <2>5
  <2>9. cell' = list_add_next(cell, rg[1], n)
    BY <1>6, <1>8 DEF AddNext
  <2>10. ~In(n, rg) /\ t[1] = rg[1]
    BY <1>3, <1>6, <2>5
  <2> HIDE DEF t, rg
  <2>11. /\ cell' \in Memory /\ Linked(cell', t)
         /\ \A x \in Cells : x # n /\ ~In(x, rg) => cell'[x] = cell[x]
    BY <1>2, <2>5, <2>6, <2>7, <2>8, <2>9, <2>10, AddNextLinked
  <2>12. lists' = [lists EXCEPT ![h] = s]
    BY <1>8 DEF AddNext, s
  <2>13. IInv' /\ OthersKept(h)
    BY <1>3, <1>7, <2>1, <2>3, <2>4, <2>11, <2>12, NewList DEF t, rg
  <2>14. lists'[h] = s
    BY <1>1, <2>12 DEF TypeOK
  <2> QED
    BY <2>1, <2>13, <2>14
<1>9. CASE AddPrev(h, n)
  <2> DEFINE s == L!list_add_prev(o, n)
             t == RingOf(h, s)
  <2>1. /\ s \in Seq(Nodes) /\ Len(s) = l + 1 /\ s[l + 1] = n /\ DOMAIN s = 1 .. l + 1
        /\ \A i \in 1 .. l : s[i] = o[i]
    BY <1>2, Snoc DEF L!list_add_prev
  <2> HIDE DEF s
  <2>2. \A i \in DOMAIN s : i = l + 1 \/ (i \in DOMAIN o /\ s[i] = o[i])
    BY <1>6, <2>1
  <2>3. \A i, j \in DOMAIN s : s[i] = s[j] => i = j
    BY <1>3, <1>4, <1>6, <2>1, <2>2
  <2>4. \A i \in DOMAIN s : \A g \in Heads : g # h =>
           \A j \in DOMAIN lists[g] : s[i] # lists[g][j]
    BY <1>3, <1>5, <2>1, <2>2
  <2>5. /\ IsRing(t) /\ Len(t) = l + 2 /\ t[1] = h
        /\ \A i \in 1 .. l + 1 : t[i + 1] = s[i]
    <3>1. h \in Heads /\ s \in Seq(Nodes)
      BY <2>1
    <3>2. IsRing(t) /\ Len(t) = Len(s) + 1 /\ t[1] = h
          /\ \A i \in 1 .. Len(s) : t[i + 1] = s[i]
      BY ONLY <3>1, <2>3, RingFacts
    <3> HIDE DEF t
    <3> QED
      BY <1>6, <2>1, <3>2
  <2>6. Len(t) = Len(rg) + 1 /\ Len(rg) + 1 = l + 2 /\ t[Len(rg) + 1] = n
    <3>1. l + 1 \in 1 .. l + 1 /\ (l + 1) + 1 = Len(rg) + 1 /\ l + 2 = Len(rg) + 1
      BY <1>6
    <3>2. t[(l + 1) + 1] = n
      BY <2>1, <2>5, <3>1
    <3> QED
      BY <2>5, <3>1, <3>2
  <2>7. \A i \in 1 .. Len(rg) : t[i] = rg[i]
    <3> TAKE i \in 1 .. Len(rg)
    <3>1. CASE i = 1
      BY <1>6, <2>5, <3>1
    <3>2. CASE i # 1
      <4>1. i - 1 \in 1 .. l /\ i - 1 \in 1 .. l + 1 /\ (i - 1) + 1 = i
        BY <1>6, <3>2
      <4>2. rg[i] = o[i - 1] /\ s[i - 1] = o[i - 1] /\ t[i] = s[i - 1]
        BY <1>6, <2>1, <2>5, <4>1
      <4> QED
        BY <4>2
    <3> QED
      BY <3>1, <3>2
  <2>8. cell' = list_add_prev(cell, rg[1], n)
    BY <1>6, <1>9 DEF AddPrev
  <2>9. ~In(n, rg)
    BY <1>3
  <2> HIDE DEF t, rg
  <2>10. /\ cell' \in Memory /\ Linked(cell', t)
         /\ \A x \in Cells : x # n /\ ~In(x, rg) => cell'[x] = cell[x]
    BY <1>2, <2>5, <2>6, <2>7, <2>8, <2>9, AddPrevLinked
  <2>11. lists' = [lists EXCEPT ![h] = s]
    BY <1>9 DEF AddPrev, s
  <2>12. IInv' /\ OthersKept(h)
    BY <1>3, <1>7, <2>1, <2>3, <2>4, <2>10, <2>11, NewList DEF t, rg
  <2>13. lists'[h] = s
    BY <1>1, <2>11 DEF TypeOK
  <2> QED
    BY <2>1, <2>12, <2>13
<1> QED
  BY <1>8, <1>9

LEMMA DelStep ==
  ASSUME IInv, NEW n \in Nodes, Del(n)
  PROVE  IInv' /\ \E h \in Heads : /\ OthersKept(h)
                                   /\ Len(lists'[h]) = Len(lists[h]) - 1
                                   /\ lists[h] \in Seq(Nodes)
<1>1. TypeOK /\ Once /\ NotReady /\ ready \subseteq Heads /\ Listed(n)
  BY DEF IInv, TypeOK, Del
<1>2. PICK h \in ready : \E k \in DOMAIN lists[h] : lists[h][k] = n
  BY <1>1 DEF Listed
<1> DEFINE o == lists[h]
           l == Len(o)
           rg == RingOf(h, o)
           s == L!list_del(o, n)
           t == RingOf(h, s)
<1>3. PICK k \in DOMAIN o : o[k] = n
  BY <1>2
<1>4. h \in Heads /\ ready' = ready \cup {h}
  BY <1>1, <1>2 DEF Del
<1>5. o \in Seq(Nodes) /\ cell \in Memory /\ IsRing(rg) /\ Linked(cell, rg)
  BY <1>1, <1>2, <1>4, HeadRing, Walks DEF TypeOK, IInv
<1>6. \A i, j \in DOMAIN o : o[i] = o[j] => i = j
  BY <1>1, <1>4 DEF Once
<1>7. \A i \in DOMAIN o : \A g \in Heads : g # h => \A j \in DOMAIN lists[g] : o[i] # lists[g][j]
  BY <1>1, <1>4 DEF Once
<1>8. /\ Len(rg) = l + 1 /\ l \in Nat /\ DOMAIN o = 1 .. l /\ rg[1] = h /\ k \in 1 .. l
      /\ \A i \in 1 .. l : rg[i + 1] = o[i]
  BY <1>3, <1>4, <1>5, RingFacts
<1>9. /\ s \in Seq(Nodes) /\ Len(s) = l - 1
      /\ \A i \in 1 .. k - 1 : s[i] = o[i]
      /\ \A i \in k .. l - 1 : s[i] = o[i + 1]
  BY <1>3, <1>5, <1>6, Deleted
<1>10. DOMAIN s = 1 .. l - 1
  BY <1>9
<1> HIDE DEF s
<1>11. \A i \in DOMAIN s : \/ i < k /\ i \in DOMAIN o /\ s[i] = o[i]
                           \/ i >= k /\ i + 1 \in DOMAIN o /\ s[i] = o[i + 1]
  <2> TAKE i \in DOMAIN s
  <2>1. CASE i < k
    <3>1. i \in 1 .. k - 1 /\ i \in DOMAIN o
      BY <1>8, <1>10, <2>1
    <3> QED
      BY <1>9, <2>1, <3>1
  <2>2. CASE i >= k
    <3>1. i \in k .. l - 1 /\ i + 1 \in DOMAIN o
      BY <1>8, <1>10, <2>2
    <3> QED
      BY <1>9, <2>2, <3>1
  <2> QED
    BY <1>8, <1>10, <2>1, <2>2
<1>12. \A i, j \in DOMAIN s : s[i] = s[j] => i = j
  <2> TAKE i, j \in DOMAIN s
  <2>1. i \in Nat /\ j \in Nat /\ k \in Nat
    BY <1>8, <1>10
  <2> HAVE s[i] = s[j]
  <2>2. CASE i < k /\ j < k
    BY <1>6, <1>11, <2>1, <2>2
  <2>3. CASE i >= k /\ j >= k
    <3>1. i + 1 = j + 1
      BY <1>6, <1>11, <2>1, <2>3
    <3> QED
      BY <2>1, <3>1
  <2>4. CASE i < k /\ j >= k
    <3>1. i = j + 1
      BY <1>6, <1>11, <2>1, <2>4
    <3> QED
      BY <2>1, <2>4, <3>1
  <2>5. CASE i >= k /\ j < k
    <3>1. j = i + 1
      BY <1>6, <1>11, <2>1, <2>5
    <3> QED
      BY <2>1, <2>5, <3>1
  <2> QED
    BY <2>1, <2>2, <2>3, <2>4, <2>5
<1>13. \A i \in DOMAIN s : \A g \in Heads : g # h =>
           \A j \in DOMAIN lists[g] : s[i] # lists[g][j]
  BY <1>7, <1>11
<1>14. IsRing(t) /\ Len(t) = l /\ t[1] = h /\ \A i \in 1 .. l - 1 : t[i + 1] = s[i]
  <2>1. Len(s) + 1 = l
    BY <1>8, <1>9
  <2> QED
    BY <1>4, <1>9, <1>12, <2>1, RingFacts
<1>15. k + 1 \in 2 .. Len(rg) /\ rg[k + 1] = n /\ Len(t) = Len(rg) - 1
  BY <1>3, <1>8, <1>14
<1>16. \A i \in 1 .. (k + 1) - 1 : t[i] = rg[i]
  <2> TAKE i \in 1 .. (k + 1) - 1
  <2>1. CASE i = 1
    BY <1>8, <1>14, <2>1
  <2>2. CASE i # 1
    <3>1. /\ i - 1 \in 1 .. l - 1 /\ i - 1 \in 1 .. l /\ i - 1 \in 1 .. k - 1
          /\ (i - 1) + 1 = i
      BY <1>8, <2>2
    <3>2. t[i] = s[i - 1] /\ s[i - 1] = o[i - 1] /\ rg[i] = o[i - 1]
      BY <1>8, <1>9, <1>14, <3>1
    <3> QED
      BY <3>2
  <2> QED
    BY <2>1, <2>2
<1>17. \A i \in k + 1 .. Len(rg) - 1 : t[i] = rg[i + 1]
  <2> TAKE i \in k + 1 .. Len(rg) - 1
  <2>1. /\ i - 1 \in 1 .. l - 1 /\ i - 1 \in k .. l - 1 /\ i \in 1 .. l
        /\ (i - 1) + 1 = i
    BY <1>8
  <2>2. t[i] = s[i - 1] /\ s[i - 1] = o[i] /\ rg[i + 1] = o[i]
    BY <1>8, <1>9, <1>14, <2>1
  <2> QED
    BY <2>2
<1>18. cell' = list_del(cell, rg[k + 1])
  BY <1>15 DEF Del
<1> HIDE DEF t, rg
<1>19. /\ cell' \in Memory /\ Linked(cell', t)
       /\ \A x \in Cells : ~In(x, rg) => cell'[x] = cell[x]
  <2> DEFINE p == k + 1
  <2>1. /\ cell \in Memory /\ IsRing(rg) /\ Linked(cell, rg) /\ p \in 2 .. Len(rg)
        /\ IsRing(t) /\ Len(t) = Len(rg) - 1
    BY <1>5, <1>14, <1>15
  <2>2. /\ \A i \in 1 .. p - 1 : t[i] = rg[i]
        /\ \A i \in p .. Len(rg) - 1 : t[i] = rg[i + 1]
        /\ cell' = list_del(cell, rg[p])
    BY <1>16, <1>17, <1>18
  <2> HIDE DEF p
  <2> QED
    BY ONLY <2>1, <2>2, DelLinked
<1>20. lists' = [lists EXCEPT ![h] = s]
  <2>1. \A g \in Heads : g # h => L!list_del(lists[g], n) = lists[g]
    BY <1>3, <1>7, NotDeleted
  <2>2. lists' = [g \in Heads |-> L!list_del(lists[g], n)]
    BY DEF Del
  <2>3. lists \in [Heads -> Seq(Nodes)]
    BY <1>1 DEF TypeOK
  <2> QED
    BY <2>1, <2>2, <2>3 DEF s
<1>21. \A g \in Heads : g # h => ~In(n, RingOf(g, lists[g]))
  <2>1. \A g \in Heads : lists[g] \in Seq(Nodes)
    BY <1>1 DEF TypeOK
  <2>2. n \notin Heads
    BY CellAssumption
  <2> QED
    BY <1>3, <1>7, <2>1, <2>2, InRing
<1>22. IInv' /\ OthersKept(h)
  BY <1>4, <1>9, <1>12, <1>13, <1>19, <1>20, <1>21, NewList DEF t, rg
<1>23. lists'[h] = s
  BY <1>1, <1>4, <1>20 DEF TypeOK
<1> QED
  BY <1>4, <1>5, <1>9, <1>22, <1>23

-----------------------------------------------------------------------------
LEMMA Initial == Init => IInv
<1> SUFFICES ASSUME Init PROVE IInv
  OBVIOUS
<1>1. lists = [h \in Heads |-> <<>>]
  BY DEF Init, L!list_head_init
<1>2. \A h \in Heads : lists[h] = <<>>
  BY <1>1
<1>3. <<>> \in Seq(Nodes) /\ DOMAIN <<>> = {}
  OBVIOUS
<1>4. TypeOK
  <2>1. lists \in [Heads -> Seq(Nodes)]
    BY <1>1, <1>3
  <2>2. cell \in Memory
    BY DEF Init, Memory, Words
  <2> QED
    BY <2>1, <2>2 DEF TypeOK, Init
<1>5. Once /\ NotReady
  BY <1>2, <1>3 DEF Once, NotReady
<1>6. WalksAgree
  BY DEF WalksAgree, Init
<1> QED
  BY <1>4, <1>5, <1>6 DEF IInv

LEMMA Inductive == IInv /\ [Next]_vars => IInv'
<1> SUFFICES ASSUME IInv, [Next]_vars PROVE IInv'
  OBVIOUS
<1>1. ASSUME NEW h \in Heads, InitHead(h) PROVE IInv'
  BY <1>1, InitHeadStep
<1>2. ASSUME NEW h \in Heads, NEW n \in Nodes, AddNext(h, n) \/ AddPrev(h, n) PROVE IInv'
  BY <1>2, AddStep
<1>3. ASSUME NEW n \in Nodes, Del(n) PROVE IInv'
  BY <1>3, DelStep
<1>4. CASE UNCHANGED vars
  BY <1>4 DEF vars, IInv, TypeOK, Once, NotReady, WalksAgree, Ring
<1> QED
  BY <1>1, <1>2, <1>3, <1>4 DEF Next

(* The inductive invariant holds in every state.                            *)
THEOREM Invariance == Spec => []IInv
  BY Initial, Inductive, PTL DEF Spec

(* Whatever sequence of list_head_init, list_add_next, list_add_prev and    *)
(* list_del its users call by their rules, walking a list along next meets  *)
(* the nodes that ListSeq's sequence holds, in its order, and comes back to *)
(* the head, and walking it along prev meets them backwards: list.h is the  *)
(* sequences the proofs about the allocators reason about.                  *)
THEOREM SpecWalksAgree == Spec => []WalksAgree
<1>1. IInv => WalksAgree
  BY DEF IInv
<1> QED
  BY <1>1, Invariance, PTL

(* An operation writes the words of the one list it is called for: the      *)
(* neighbours it reaches through next and prev are never cells of another   *)
(* list, and never the node of one.                                         *)
THEOREM SpecOthersUntouched == Spec => OthersUntouched
<1> DEFINE A == \A h \in ready : lists'[h] = lists[h] =>
                  \A i \in DOMAIN Ring(h) : cell'[Ring(h)[i]] = cell[Ring(h)[i]]
<1>1. IInv /\ [Next]_vars => [A]_vars
  <2> SUFFICES ASSUME IInv, Next PROVE A
    BY DEF vars
  <2>1. \A h \in Heads : lists[h] \in Seq(Nodes) /\ Len(lists[h]) \in Nat
    BY DEF IInv, TypeOK
  <2>2. ASSUME NEW h \in Heads, InitHead(h) PROVE A
    BY <2>2, InitHeadStep DEF InitHead, OthersKept
  <2>3. ASSUME NEW h \in Heads, NEW n \in Nodes, AddNext(h, n) \/ AddPrev(h, n) PROVE A
    <3>1. OthersKept(h) /\ Len(lists'[h]) = Len(lists[h]) + 1
      BY <2>3, AddStep
    <3>2. lists'[h] # lists[h]
      BY <2>1, <3>1
    <3> QED
      BY <3>1, <3>2 DEF OthersKept
  <2>4. ASSUME NEW n \in Nodes, Del(n) PROVE A
    <3>1. PICK h \in Heads : OthersKept(h) /\ Len(lists'[h]) = Len(lists[h]) - 1
      BY <2>4, DelStep
    <3>2. lists'[h] # lists[h]
      BY <2>1, <3>1
    <3> QED
      BY <3>1, <3>2 DEF OthersKept
  <2> QED
    BY <2>2, <2>3, <2>4 DEF Next
<1> QED
  BY <1>1, Invariance, PTL DEF Spec, OthersUntouched
=============================================================================
