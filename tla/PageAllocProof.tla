---------------------------- MODULE PageAllocProof ----------------------------
(***************************************************************************)
(* Theorems about the buddy allocator, for every memory map, number of     *)
(* orders and number of CPUs.                                              *)
(*                                                                         *)
(* The argument: every frame handed over is in exactly one of the blocks   *)
(* somebody claims (StoreOK).  A step either leaves the claims as they     *)
(* are or replaces some of them by others over the same frames (Replace).  *)
(* For the steps of alloc_pages this is plain; for the merges of           *)
(* __free_pages it is not, because the code does not look at the order of  *)
(* the neighbour it absorbs.  At boot the frames come in increasing order, *)
(* the free blocks of a run then have falling orders (Staircase) and are   *)
(* no smaller than the block in hand (BootInv), so a free head 2^k frames  *)
(* before a block of order k can only be a block of order k.               *)
(***************************************************************************)
EXTENDS PageAlloc, SequenceTheorems, TLAPS

USE DEF spin_lock, spin_unlock

-----------------------------------------------------------------------------
(* What list_add_next and list_del do to the set of the nodes on a list.   *)

(* A node put at the head of a list (list_add_next) is on it, so is        *)
(* everything that was there, and nothing is there twice if it was not     *)
(* there before.                                                           *)
LEMMA ListAdd ==
  ASSUME NEW S, NEW s \in Seq(S), NEW q \in S
  PROVE  /\ list_add_next(s, q) \in Seq(S)
         /\ ToSet(list_add_next(s, q)) = {q} \cup ToSet(s)
         /\ IsInjective(s) /\ q \notin ToSet(s)
              => IsInjective(list_add_next(s, q))
<1> DEFINE t == list_add_next(s, q)
<1>1. /\ t \in Seq(S)
      /\ Len(t) = Len(s) + 1
      /\ DOMAIN t = 1 .. Len(s) + 1
      /\ DOMAIN s = 1 .. Len(s)
      /\ Len(s) \in Nat
      /\ t[1] = q
      /\ \A i \in DOMAIN s : t[i + 1] = s[i]
  BY DEF list_add_next
<1> HIDE DEF t
<1>2. \A x \in ToSet(t) : x = q \/ x \in ToSet(s)
  <2> TAKE x \in ToSet(t)
  <2>1. PICK i \in DOMAIN t : x = t[i]
    BY DEF ToSet
  <2>2. CASE i = 1
    BY <2>1, <2>2, <1>1
  <2>3. CASE i # 1
    <3>1. i - 1 \in DOMAIN s /\ (i - 1) + 1 = i
      BY <1>1, <2>1, <2>3
    <3>2. x = s[i - 1]
      BY <2>1, <3>1, <1>1
    <3> QED
      BY <3>1, <3>2 DEF ToSet
  <2> QED
    BY <2>2, <2>3
<1>3. \A i \in DOMAIN s : s[i] \in ToSet(t)
  <2> TAKE i \in DOMAIN s
  <2>1. i + 1 \in DOMAIN t /\ t[i + 1] = s[i]
    BY <1>1
  <2> QED
    BY <2>1 DEF ToSet
<1>4. q \in ToSet(t)
  <2>1. 1 \in DOMAIN t
    BY <1>1
  <2> QED
    BY <1>1, <2>1 DEF ToSet
<1>5. ToSet(t) = {q} \cup ToSet(s)
  BY <1>2, <1>3, <1>4 DEF ToSet
<1>6. ASSUME IsInjective(s), q \notin ToSet(s),
             NEW i \in DOMAIN t, NEW j \in DOMAIN t, t[i] = t[j]
      PROVE  i = j
  <2>1. ASSUME NEW k \in DOMAIN t, k # 1
        PROVE  k - 1 \in DOMAIN s /\ t[k] = s[k - 1]
    <3>1. k - 1 \in DOMAIN s /\ (k - 1) + 1 = k
      BY <1>1, <2>1
    <3> QED
      BY <1>1, <3>1
  <2>2. \A k \in DOMAIN t : k # 1 => t[k] \in ToSet(s)
    BY <2>1 DEF ToSet
  <2>3. CASE i = 1 \/ j = 1
    BY <2>2, <2>3, <1>6, <1>1
  <2>4. CASE i # 1 /\ j # 1
    <3>1. i - 1 = j - 1
      BY <2>1, <2>4, <1>6 DEF IsInjective
    <3> QED
      BY <3>1, <1>1
  <2> QED
    BY <2>3, <2>4
<1>7. IsInjective(s) /\ q \notin ToSet(s) => IsInjective(t)
  BY <1>6 DEF IsInjective
<1> QED
  BY <1>1, <1>5, <1>7 DEF t

(* Taking the element at n out leaves the ones before it where they are and *)
(* moves the others up by one.                                              *)
LEMMA Removed ==
  ASSUME NEW S, NEW s \in Seq(S), NEW n \in DOMAIN s
  PROVE  /\ RemoveAt(s, n) \in Seq(S)
         /\ Len(RemoveAt(s, n)) = Len(s) - 1
         /\ DOMAIN RemoveAt(s, n) = 1 .. Len(s) - 1
         /\ \A i \in 1 .. n - 1 : RemoveAt(s, n)[i] = s[i]
         /\ \A i \in n .. Len(s) - 1 : RemoveAt(s, n)[i] = s[i + 1]
<1> DEFINE t == RemoveAt(s, n)
<1>1. n \in DOMAIN s
  OBVIOUS
<1>2. /\ Len(s) \in Nat
      /\ DOMAIN s = 1 .. Len(s)
  OBVIOUS
<1> DEFINE u == SubSeq(s, 1, n - 1)
           v == SubSeq(s, n + 1, Len(s))
<1>3. /\ u \in Seq(S) /\ Len(u) = n - 1
      /\ \A i \in 1 .. n - 1 : u[i] = s[i]
  BY <1>1, <1>2
<1>4. /\ v \in Seq(S) /\ Len(v) = Len(s) - n
      /\ \A i \in 1 .. Len(s) - n : v[i] = s[n + i]
  <2>1. n \in Nat /\ n >= 1 /\ n <= Len(s)
    BY <1>1, <1>2
  <2>2. \A i \in (n + 1) .. Len(s) : s[i] \in S
    BY <2>1, <1>2
  <2>3. /\ v \in Seq(S)
        /\ Len(v) = IF n + 1 <= Len(s) THEN Len(s) - (n + 1) + 1 ELSE 0
        /\ \A i \in 1 .. Len(s) - (n + 1) + 1 : v[i] = s[(n + 1) + i - 1]
    BY <2>1, <2>2, <1>2, SubSeqProperties
  <2> HIDE DEF v
  <2> HIDE DEF u, t
  <2>4. Len(v) = Len(s) - n
    <3>1. Len(v) = IF n + 1 <= Len(s) THEN Len(s) - (n + 1) + 1 ELSE 0
      BY <2>3
    <3>2. \A l \in Nat : \A i \in 1 .. l :
            (IF i + 1 <= l THEN l - (i + 1) + 1 ELSE 0) = l - i
      OBVIOUS
    <3>3. n \in 1 .. Len(s)
      BY <1>1, <1>2
    <3> QED
      BY ONLY <3>1, <3>2, <3>3, <1>2
  <2>5. ASSUME NEW i \in 1 .. Len(s) - n
        PROVE  v[i] = s[n + i]
    <3>1. i \in 1 .. Len(s) - (n + 1) + 1 /\ (n + 1) + i - 1 = n + i
      BY <2>1, <1>2
    <3> QED
      BY <3>1, <2>3
  <2> QED
    BY <2>3, <2>4, <2>5
<1>5. t = u \o v
  BY DEF RemoveAt
<1> HIDE DEF u, v, t
<1>6. Len(t) = Len(s) - 1 /\ t \in Seq(S) /\ DOMAIN t = 1 .. Len(s) - 1
  <2>1. n \in Nat /\ n >= 1 /\ n <= Len(s)
    BY <1>1, <1>2
  <2>2. t \in Seq(S) /\ Len(t) = Len(u) + Len(v)
    BY <1>3, <1>4, <1>5, ConcatProperties
  <2> QED
    BY <2>1, <2>2, <1>3, <1>4, <1>2
<1>7. \A i \in 1 .. n - 1 : t[i] = s[i]
  <2>1. \A i \in 1 .. n - 1 : (u \o v)[i] = u[i]
    BY <1>3, <1>4, <1>1, <1>2, ConcatProperties
  <2> QED
    BY <2>1, <1>3, <1>5
<1>8. ASSUME NEW i \in n .. Len(s) - 1 PROVE t[i] = s[i + 1]
  <2>1. i - (n - 1) \in 1 .. Len(s) - n /\ n + (i - (n - 1)) = i + 1
    BY <1>1, <1>2
  <2>2. i \in 1 .. Len(u) + Len(v) /\ i > Len(u)
    BY <1>3, <1>4, <1>1, <1>2
  <2>3. (u \o v)[i] = v[i - Len(u)]
    <3>1. ~(i <= Len(u))
      BY <2>2, <1>3, <1>1, <1>2
    <3> QED
      BY <1>3, <1>4, <2>2, <3>1, ConcatProperties
  <2> QED
    BY <2>1, <2>3, <1>3, <1>4, <1>5
<1> QED
  BY <1>6, <1>7, <1>8 DEF t

(* A node taken off a list (list_del) is no longer on it, and nothing else *)
(* changes.                                                                *)
LEMMA ListDel ==
  ASSUME NEW S, NEW s \in Seq(S), NEW q \in S, IsInjective(s)
  PROVE  /\ list_del(s, q) \in Seq(S)
         /\ ToSet(list_del(s, q)) = ToSet(s) \ {q}
         /\ IsInjective(list_del(s, q))
<1>1. CASE \A i \in DOMAIN s : s[i] # q
  BY <1>1 DEF list_del, ToSet
<1>2. CASE \E i \in DOMAIN s : s[i] = q
  <2> DEFINE n == CHOOSE i \in DOMAIN s : s[i] = q
             t == RemoveAt(s, n)
  <2>1. n \in DOMAIN s /\ s[n] = q
    BY <1>2
  <2>2. list_del(s, q) = t
    BY <1>2 DEF list_del
  <2> HIDE DEF n
  <2>3. /\ Len(s) \in Nat
        /\ DOMAIN s = 1 .. Len(s)
    OBVIOUS
  <2>4. /\ t \in Seq(S)
        /\ DOMAIN t = 1 .. Len(s) - 1
        /\ \A i \in 1 .. n - 1 : t[i] = s[i]
        /\ \A i \in n .. Len(s) - 1 : t[i] = s[i + 1]
    BY <2>1, Removed
  <2> HIDE DEF t
  <2> DEFINE up(i) == IF i < n THEN i ELSE i + 1
  <2>5. \A i \in DOMAIN t : up(i) \in DOMAIN s /\ up(i) # n /\ t[i] = s[up(i)]
    <3> TAKE i \in DOMAIN t
    <3>1. CASE i < n
      <4>1. i \in 1 .. n - 1 /\ i \in DOMAIN s /\ i # n /\ up(i) = i
        BY <3>1, <2>1, <2>3, <2>4
      <4> QED
        BY <4>1, <2>4
    <3>2. CASE ~(i < n)
      <4>1. /\ i \in n .. Len(s) - 1
            /\ i + 1 \in DOMAIN s /\ i + 1 # n /\ up(i) = i + 1
        BY <3>2, <2>1, <2>3, <2>4
      <4> QED
        BY <4>1, <2>4
    <3> QED
      BY <3>1, <3>2
  <2>6. \A j \in DOMAIN s : j # n => \E i \in DOMAIN t : up(i) = j
    <3> TAKE j \in DOMAIN s
    <3> HAVE j # n
    <3>1. CASE j < n
      BY <3>1, <2>1, <2>3, <2>4
    <3>2. CASE j > n
      <4>1. j - 1 \in DOMAIN t /\ up(j - 1) = j
        BY <3>2, <2>1, <2>3, <2>4
      <4> QED
        BY <4>1
    <3> QED
      BY <3>1, <3>2, <2>1, <2>3
  <2>7. \A i, j \in DOMAIN t : up(i) = up(j) => i = j
    BY <2>1, <2>3, <2>4
  <2> HIDE DEF up
  <2>8. ToSet(t) = ToSet(s) \ {q}
    <3>1. \A x \in ToSet(t) : x \in ToSet(s) /\ x # q
      BY <2>1, <2>5 DEF ToSet, IsInjective
    <3>2. \A x \in ToSet(s) : x # q => x \in ToSet(t)
      BY <2>1, <2>5, <2>6 DEF ToSet
    <3> QED
      BY <3>1, <3>2
  <2>9. IsInjective(t)
    BY <2>5, <2>7 DEF IsInjective
  <2> QED
    BY <2>2, <2>4, <2>8, <2>9
<1> QED
  BY <1>1, <1>2

-----------------------------------------------------------------------------
(* Blocks and their frames.                                                 *)

Block == Nat \X Orders

(* A set of claims on blocks over the frames D, as Claims should be.        *)
StoreOK(C, D) ==
  /\ \A x \in C : x[3] \in Block /\ Span(x[3]) \subseteq D
  /\ \A x, y \in C : x # y => Span(x[3]) \cap Span(y[3]) = {}
  /\ \A f \in D : \E x \in C : f \in Span(x[3])

(* The frames of a block (next_page_by_order, page + (1 << order)).         *)
LEMMA SpanFacts ==
  ASSUME NEW b \in Block
  PROVE  /\ b[1] \in Nat /\ b[2] \in Orders
         /\ b = <<b[1], b[2]>>
         /\ 2^b[2] \in Nat \ {0}
         /\ b[1] \in Span(b)
         /\ b[1] + 2^b[2] - 1 \in Span(b)
         /\ \A f : f \in Span(b) <=>
                     f \in Int /\ b[1] <= f /\ f < b[1] + 2^b[2]
<1>1. b[1] \in Nat /\ b[2] \in Orders /\ b = <<b[1], b[2]>>
  BY DEF Block
<1>2. 2^b[2] \in Nat \ {0}
  BY <1>1, PowerAssumption
<1> QED
  BY <1>1, <1>2 DEF Span, B!Span

(* Blocks are apart exactly when they have no frame in common.              *)
LEMMA ApartDisjoint ==
  ASSUME NEW b1 \in Block, NEW b2 \in Block
  PROVE  Apart(b1, b2) <=> Span(b1) \cap Span(b2) = {}
<1>1. /\ b1[1] \in Nat /\ 2^b1[2] \in Nat \ {0}
      /\ b2[1] \in Nat /\ 2^b2[2] \in Nat \ {0}
  BY SpanFacts
<1>2. ASSUME Apart(b1, b2), NEW f \in Span(b1), f \in Span(b2)
      PROVE  FALSE
  BY <1>1, <1>2, SpanFacts DEF Apart, B!Apart
<1>3. ASSUME ~Apart(b1, b2)
      PROVE  \E f \in Span(b1) : f \in Span(b2)
  <2>1. b1[1] + 2^b1[2] > b2[1] /\ b2[1] + 2^b2[2] > b1[1]
    BY <1>1, <1>3 DEF Apart, B!Apart
  <2>2. CASE b1[1] <= b2[1]
    <3>1. b2[1] \in Span(b1) /\ b2[1] \in Span(b2)
      BY <1>1, <2>1, <2>2, SpanFacts
    <3> QED
      BY <3>1
  <2>3. CASE ~(b1[1] <= b2[1])
    <3>1. b1[1] \in Span(b1) /\ b1[1] \in Span(b2)
      BY <1>1, <2>1, <2>3, SpanFacts
    <3> QED
      BY <3>1
  <2> QED
    BY <2>2, <2>3
<1> QED
  BY <1>2, <1>3

(* The two halves of a block (the split of __alloc_page_direct and the      *)
(* merge of __free_pages).                                                  *)
LEMMA Halves ==
  ASSUME NEW q \in Nat, NEW k \in Orders, k + 1 \in Orders
  PROVE  /\ <<q, k + 1>> \in Block
         /\ <<q, k>> \in Block
         /\ <<q + 2^k, k>> \in Block
         /\ Span(<<q, k + 1>>) = Span(<<q, k>>) \cup Span(<<q + 2^k, k>>)
         /\ Span(<<q, k>>) \cap Span(<<q + 2^k, k>>) = {}
<1>1. 2^k \in Nat \ {0} /\ 2^(k + 1) = 2 * 2^k
  BY PowerAssumption
<1>2. /\ <<q, k + 1>> \in Block
      /\ <<q, k>> \in Block
      /\ <<q + 2^k, k>> \in Block
  BY <1>1 DEF Block
<1>3. \A f : f \in Span(<<q, k + 1>>) <=>
               f \in Int /\ q <= f /\ f < q + 2 * 2^k
  BY <1>1 DEF Span, B!Span
<1>4. \A f : f \in Span(<<q, k>>) <=> f \in Int /\ q <= f /\ f < q + 2^k
  BY <1>1 DEF Span, B!Span
<1>5. \A f : f \in Span(<<q + 2^k, k>>) <=>
               f \in Int /\ q + 2^k <= f /\ f < q + 2 * 2^k
  BY <1>1 DEF Span, B!Span
<1>6. \A f : f \in Span(<<q, k + 1>>) <=>
               f \in Span(<<q, k>>) \/ f \in Span(<<q + 2^k, k>>)
  BY <1>1, <1>3, <1>4, <1>5
<1>7. \A f : ~(f \in Span(<<q, k>>) /\ f \in Span(<<q + 2^k, k>>))
  BY <1>1, <1>4, <1>5
<1> QED
  BY <1>2, <1>6, <1>7

(* Claims R are given up for claims N over the same frames.                 *)
LEMMA Replace ==
  ASSUME NEW C, NEW D, StoreOK(C, D),
         NEW R \in SUBSET C, NEW N,
         \A x \in N : x[3] \in Block,
         \A x, y \in N : x # y => Span(x[3]) \cap Span(y[3]) = {},
         \A f : (\E x \in N : f \in Span(x[3]))
                  <=> (\E x \in R : f \in Span(x[3]))
  PROVE  StoreOK((C \ R) \cup N, D)
<1> DEFINE E == (C \ R) \cup N
<1>1. ASSUME NEW x \in E
      PROVE  x[3] \in Block /\ Span(x[3]) \subseteq D
  <2>1. CASE x \in C
    BY <2>1 DEF StoreOK
  <2>2. CASE x \in N
    <3>1. \A f \in Span(x[3]) : \E y \in R : f \in Span(y[3])
      BY <2>2
    <3>2. \A f \in Span(x[3]) : f \in D
      BY <3>1 DEF StoreOK
    <3> QED
      BY <2>2, <3>2
  <2> QED
    BY <2>1, <2>2
<1>2. ASSUME NEW x \in C \ R, NEW y \in N
      PROVE  Span(x[3]) \cap Span(y[3]) = {}
  <2>1. \A f \in Span(y[3]) : \E z \in R : f \in Span(z[3])
    OBVIOUS
  <2>2. \A z \in R : Span(x[3]) \cap Span(z[3]) = {}
    BY DEF StoreOK
  <2> QED
    BY <2>1, <2>2
<1>3. ASSUME NEW x \in E, NEW y \in E, x # y
      PROVE  Span(x[3]) \cap Span(y[3]) = {}
  <2>1. CASE x \in N /\ y \in N
    BY <1>3, <2>1
  <2>2. CASE x \in C \ R /\ y \in C \ R
    BY <1>3, <2>2 DEF StoreOK
  <2>3. CASE x \in C \ R /\ y \in N
    BY <1>2, <2>3
  <2>4. CASE x \in N /\ y \in C \ R
    BY <1>2, <2>4
  <2> QED
    BY <2>1, <2>2, <2>3, <2>4
<1>4. ASSUME NEW f \in D
      PROVE  \E x \in E : f \in Span(x[3])
  <2>1. PICK x \in C : f \in Span(x[3])
    BY DEF StoreOK
  <2>2. CASE x \in R
    <3>1. \E y \in N : f \in Span(y[3])
      BY <2>1, <2>2
    <3> QED
      BY <3>1
  <2>3. CASE x \notin R
    BY <2>1, <2>3
  <2> QED
    BY <2>2, <2>3
<1> QED
  BY <1>1, <1>3, <1>4 DEF StoreOK

(* One claim passes to somebody else: the block is the same.                *)
LEMMA Pass ==
  ASSUME NEW C, NEW D, StoreOK(C, D), NEW x \in C, NEW y, y[3] = x[3]
  PROVE  StoreOK((C \ {x}) \cup {y}, D)
<1>1. x[3] \in Block
  BY DEF StoreOK
<1>2. \A f : (\E z \in {y} : f \in Span(z[3]))
               <=> (\E z \in {x} : f \in Span(z[3]))
  OBVIOUS
<1> QED
  BY <1>1, <1>2, Replace

(* A block over frames nobody had comes in.                                 *)
LEMMA Arrive ==
  ASSUME NEW C, NEW D, StoreOK(C, D), NEW y, y[3] \in Block,
         Span(y[3]) \cap D = {}
  PROVE  StoreOK(C \cup {y}, D \cup Span(y[3]))
BY DEF StoreOK

-----------------------------------------------------------------------------
(* The lists.                                                               *)

(* The free blocks of given lists; FreeBlocks is Listed(freelist).          *)
Listed(fl) == UNION {{<<q, k>> : q \in ToSet(fl[k])} : k \in Orders}

Lists == [Orders -> Seq(Nat)]
NoTwice(fl) == \A k \in Orders : IsInjective(fl[k])

LEMMA ListedBlock ==
  ASSUME NEW fl \in Lists
  PROVE  /\ Listed(fl) \subseteq Block
         /\ \A q, k : <<q, k>> \in Listed(fl)
                         <=> k \in Orders /\ q \in ToSet(fl[k])
<1>1. \A k \in Orders : ToSet(fl[k]) \subseteq Nat
  BY DEF Lists, ToSet
<1> QED
  BY <1>1 DEF Listed, Block

(* list_add_next(&freelist[k], q): one more free block.                     *)
LEMMA ListsAdd ==
  ASSUME NEW fl \in Lists, NoTwice(fl), NEW q \in Nat, NEW k \in Orders,
         <<q, k>> \notin Listed(fl),
         NEW g, g = [fl EXCEPT ![k] = list_add_next(@, q)]
  PROVE  /\ g \in Lists /\ NoTwice(g)
         /\ Listed(g) = Listed(fl) \cup {<<q, k>>}
<1>1. fl[k] \in Seq(Nat) /\ IsInjective(fl[k]) /\ q \notin ToSet(fl[k])
  BY ListedBlock DEF Lists, NoTwice
<1>2. /\ g[k] \in Seq(Nat) /\ IsInjective(g[k])
      /\ ToSet(g[k]) = {q} \cup ToSet(fl[k])
  BY <1>1, ListAdd DEF Lists
<1>3. \A j \in Orders : j # k => g[j] = fl[j]
  BY DEF Lists
<1>4. g \in Lists /\ NoTwice(g)
  BY <1>2, <1>3 DEF Lists, NoTwice
<1>5. \A r, j : <<r, j>> \in Listed(g)
                   <=> <<r, j>> \in Listed(fl) \/ (r = q /\ j = k)
  BY <1>2, <1>3, <1>4, ListedBlock
<1>6. /\ \A b \in Listed(g) : b = <<b[1], b[2]>>
      /\ \A b \in Listed(fl) : b = <<b[1], b[2]>>
  BY <1>4, ListedBlock DEF Block
<1>7. ASSUME NEW b
      PROVE  b \in Listed(g) <=> b \in Listed(fl) \/ b = <<q, k>>
  <2>1. b \in Listed(g) \/ b \in Listed(fl) => b = <<b[1], b[2]>>
    BY ONLY <1>6
  <2> QED
    BY ONLY <1>5, <2>1
<1>8. Listed(g) = Listed(fl) \cup {<<q, k>>}
  BY ONLY <1>7
<1> QED
  BY <1>4, <1>8

(* list_del of a page on list k: one free block less.                       *)
LEMMA ListsDel ==
  ASSUME NEW fl \in Lists, NoTwice(fl), NEW q \in Nat, NEW k \in Orders,
         NEW g, g = [fl EXCEPT ![k] = list_del(@, q)]
  PROVE  /\ g \in Lists /\ NoTwice(g)
         /\ Listed(g) = Listed(fl) \ {<<q, k>>}
<1>1. fl[k] \in Seq(Nat) /\ IsInjective(fl[k])
  BY DEF Lists, NoTwice
<1>2. /\ g[k] \in Seq(Nat) /\ IsInjective(g[k])
      /\ ToSet(g[k]) = ToSet(fl[k]) \ {q}
  BY <1>1, ListDel DEF Lists
<1>3. \A j \in Orders : j # k => g[j] = fl[j]
  BY DEF Lists
<1>4. g \in Lists /\ NoTwice(g)
  BY <1>2, <1>3 DEF Lists, NoTwice
<1>5. \A r, j : <<r, j>> \in Listed(g)
                   <=> <<r, j>> \in Listed(fl) /\ ~(r = q /\ j = k)
  <2>1. /\ \A r, j : <<r, j>> \in Listed(g)
                        <=> j \in Orders /\ r \in ToSet(g[j])
        /\ \A r, j : <<r, j>> \in Listed(fl)
                        <=> j \in Orders /\ r \in ToSet(fl[j])
    BY <1>4, ListedBlock
  <2>2. \A r : \A j \in Orders : r \in ToSet(g[j])
                    <=> r \in ToSet(fl[j]) /\ ~(r = q /\ j = k)
    BY <1>2, <1>3
  <2> QED
    BY <2>1, <2>2
<1>6. /\ \A b \in Listed(g) : b = <<b[1], b[2]>>
      /\ \A b \in Listed(fl) : b = <<b[1], b[2]>>
  BY <1>4, ListedBlock DEF Block
<1>7. ASSUME NEW b
      PROVE  b \in Listed(g) <=> b \in Listed(fl) /\ b # <<q, k>>
  <2>1. b \in Listed(g) \/ b \in Listed(fl) => b = <<b[1], b[2]>>
    BY ONLY <1>6
  <2> QED
    BY ONLY <1>5, <2>1
<1>8. Listed(g) = Listed(fl) \ {<<q, k>>}
  BY ONLY <1>7
<1> QED
  BY <1>4, <1>8

(* list_del of a page on whatever list it is.                               *)
LEMMA ListsDelAll ==
  ASSUME NEW fl \in Lists, NoTwice(fl), NEW q \in Nat,
         NEW g, g = [k \in Orders |-> list_del(fl[k], q)]
  PROVE  /\ g \in Lists /\ NoTwice(g)
         /\ Listed(g) = {b \in Listed(fl) : b[1] # q}
<1>1. \A k \in Orders : /\ g[k] \in Seq(Nat) /\ IsInjective(g[k])
                        /\ ToSet(g[k]) = ToSet(fl[k]) \ {q}
  BY ListDel DEF Lists, NoTwice
<1>2. g \in Lists /\ NoTwice(g)
  BY <1>1 DEF Lists, NoTwice
<1>3. \A r, j : <<r, j>> \in Listed(g)
                   <=> <<r, j>> \in Listed(fl) /\ r # q
  <2>1. /\ \A r, j : <<r, j>> \in Listed(g)
                        <=> j \in Orders /\ r \in ToSet(g[j])
        /\ \A r, j : <<r, j>> \in Listed(fl)
                        <=> j \in Orders /\ r \in ToSet(fl[j])
    BY <1>2, ListedBlock
  <2>2. \A r : \A j \in Orders : r \in ToSet(g[j])
                                  <=> r \in ToSet(fl[j]) /\ r # q
    BY <1>1
  <2> QED
    BY <2>1, <2>2
<1>4. /\ \A b \in Listed(g) : b = <<b[1], b[2]>>
      /\ \A b \in Listed(fl) : b = <<b[1], b[2]>>
  BY <1>2, ListedBlock DEF Block
<1> QED
  BY <1>2, <1>3, <1>4

-----------------------------------------------------------------------------
(* What holds of a call by itself, whatever the memory map and the callers. *)

LocalInv == TypeOK /\ LockExcludes /\ CallInv /\ NullOnlyWhenEmpty

LEMMA OrderFacts ==
  /\ MaxPageOrder \in Nat /\ MaxPageOrder >= 1
  /\ \A k : k \in Orders <=> k \in Nat /\ k < MaxPageOrder
  /\ Orders \subseteq 0 .. MaxPageOrder
  /\ TopOrder \in Orders /\ TopOrder + 1 = MaxPageOrder
  /\ \A k \in Orders : 2^k \in Nat \ {0}
  /\ NULL \notin Nat
BY OrderAssumption, PowerAssumption DEF Orders, TopOrder, NULL

(* A list stays a list of pages when a page leaves it.                      *)
LEMMA DelType ==
  ASSUME NEW s \in Seq(Nat), NEW q
  PROVE  list_del(s, q) \in Seq(Nat)
<1>1. CASE \A i \in DOMAIN s : s[i] # q
  BY <1>1 DEF list_del
<1>2. CASE \E i \in DOMAIN s : s[i] = q
  <2> DEFINE n == CHOOSE i \in DOMAIN s : s[i] = q
  <2>1. n \in DOMAIN s
    BY <1>2
  <2>2. list_del(s, q) = RemoveAt(s, n)
    BY <1>2 DEF list_del
  <2> HIDE DEF n
  <2>3. n \in 1 .. Len(s) /\ Len(s) \in Nat
    BY <2>1
  <2>4. SubSeq(s, 1, n - 1) \in Seq(Nat)
    BY <2>3, SubSeqProperties
  <2>5. SubSeq(s, n + 1, Len(s)) \in Seq(Nat)
    BY <2>3, SubSeqProperties
  <2> QED
    BY <2>2, <2>4, <2>5, ConcatProperties DEF RemoveAt
<1> QED
  BY <1>1, <1>2

(* CallInv and NullOnlyWhenEmpty for one CPU.                               *)
LocalOK(c) ==
  /\ pc[c] \in {"idle", "alloc_lock", "alloc_scan"} => p[c] = NULL
  /\ pc[c] = "alloc_scan" =>
       /\ order[c] <= __alloc[c]
       /\ \A k \in Orders : order[c] <= k /\ k < __alloc[c]
                             => list_empty(freelist[k])
  /\ pc[c] = "alloc_split" => /\ p[c] # NULL
                              /\ order[c] <= __alloc[c]
                              /\ __alloc[c] \in Orders
  /\ pc[c] = "alloc_unlock" /\ p[c] # NULL => /\ __alloc[c] = order[c]
                                              /\ order[c] \in Orders
  /\ pc[c] = "alloc_unlock" /\ p[c] = NULL =>
       \A k \in Orders : k >= order[c] => list_empty(freelist[k])

LEMMA LocalAll == CallInv /\ NullOnlyWhenEmpty <=> \A c \in Cpus : LocalOK(c)
BY DEF CallInv, NullOnlyWhenEmpty, LocalOK

(* The step of one CPU leaves the others' locals alone.                     *)
Alone(c) == \A d \in Cpus \ {c} : /\ pc'[d] = pc[d] /\ p'[d] = p[d]
                                  /\ order'[d] = order[d]
                                  /\ __alloc'[d] = __alloc[d]

(* The lists change only under the lock, so a step of one CPU cannot        *)
(* surprise another one in the middle of a call.                            *)
LEMMA LocalKeep ==
  ASSUME NEW c \in Cpus, Alone(c), LockExcludes,
         CallInv, NullOnlyWhenEmpty, LocalOK(c)',
         freelist' = freelist \/ pc[c] \in Critical
  PROVE  CallInv' /\ NullOnlyWhenEmpty'
<1>1. ASSUME NEW d \in Cpus \ {c}
      PROVE  LocalOK(d)'
  <2>1. LocalOK(d)
    BY LocalAll
  <2>2. /\ pc'[d] = pc[d] /\ p'[d] = p[d]
        /\ order'[d] = order[d] /\ __alloc'[d] = __alloc[d]
    BY DEF Alone
  <2>3. freelist' = freelist \/ pc[d] \notin {"alloc_scan", "alloc_unlock"}
    BY DEF LockExcludes, Critical
  <2> QED
    BY <2>1, <2>2, <2>3 DEF LocalOK
<1>2. \A d \in Cpus : LocalOK(d)'
  BY <1>1
<1> QED
  BY <1>2, LocalAll DEF CallInv, NullOnlyWhenEmpty, LocalOK

LEMMA LockStay ==
  ASSUME NEW c \in Cpus, Alone(c), LockExcludes,
         freelist_lock' = freelist_lock,
         pc'[c] \in Critical <=> pc[c] \in Critical
  PROVE  LockExcludes'
BY DEF Alone, LockExcludes

LEMMA LockTake ==
  ASSUME NEW c \in Cpus, Alone(c), LockExcludes,
         freelist_lock = LOCK_FREE, freelist_lock' = LOCK_USED,
         pc'[c] \in Critical
  PROVE  LockExcludes'
BY DEF Alone, LockExcludes, LOCK_FREE, LOCK_USED

LEMMA LockGive ==
  ASSUME NEW c \in Cpus, Alone(c), LockExcludes,
         freelist_lock' = LOCK_FREE,
         pc[c] \in Critical, pc'[c] \notin Critical
  PROVE  LockExcludes'
BY DEF Alone, LockExcludes, LOCK_FREE, LOCK_USED

LEMMA LocalInit == Init => LocalInv
<1> SUFFICES ASSUME Init PROVE LocalInv
  OBVIOUS
<1>1. TypeOK
  <2>1. is_free \in [Mapped -> {FALSE} \cup UninitBits]
        /\ is_head \in [Mapped -> UninitBits]
    BY DEF Init
  <2>2. is_free \in [Mapped -> BOOLEAN] /\ is_head \in [Mapped -> BOOLEAN]
    BY <2>1, BitAssumption
  <2>3. freelist \in [Orders -> Seq(Nat)]
    BY DEF Init, list_head_init
  <2>4. /\ pc \in [Cpus -> {"idle"} \cup Waiting \cup Critical]
        /\ p \in [Cpus -> Nat \cup {NULL}]
        /\ order \in [Cpus -> 0 .. MaxPageOrder]
        /\ __alloc \in [Cpus -> 0 .. MaxPageOrder]
    BY OrderFacts DEF Init
  <2>5. ref_count \in [Mapped -> Int]
    BY DEF Init
  <2>6. /\ freelist_lock \in {LOCK_FREE, LOCK_USED}
        /\ frontier \in Nat
        /\ booted \in BOOLEAN
        /\ held = {}
    BY DEF Init
  <2> QED
    BY <2>2, <2>3, <2>4, <2>5, <2>6 DEF TypeOK
<1>2. LockExcludes
  BY DEF Init, LockExcludes, Critical, LOCK_FREE, LOCK_USED
<1>3. CallInv /\ NullOnlyWhenEmpty
  BY DEF Init, CallInv, NullOnlyWhenEmpty
<1> QED
  BY <1>1, <1>2, <1>3 DEF LocalInv

(* Every step of the boot loop, of a caller and of the allocator.           *)
LEMMA LocalNext == LocalInv /\ [Next]_vars => LocalInv'
<1> SUFFICES ASSUME LocalInv, [Next]_vars PROVE LocalInv'
  OBVIOUS
<1> USE DEF LocalInv
<1>1. CASE UNCHANGED vars
  <2>1. /\ TypeOK' /\ LockExcludes'
    BY <1>1 DEF vars, TypeOK, LockExcludes
  <2>2. CallInv' /\ NullOnlyWhenEmpty'
    BY <1>1 DEF vars, CallInv, NullOnlyWhenEmpty
  <2> QED
    BY <2>1, <2>2
<1>2. ASSUME NEW f \in Frames, BootFree(f)
      PROVE  LocalInv'
  <2> USE <1>2 DEF BootFree, pages, Goto
  <2>1. f \in Nat /\ BootCpu \in Cpus
    BY FrameAssumption, CpuAssumption
  <2>2. TypeOK'
    BY <2>1, OrderFacts DEF TypeOK, Waiting
  <2>3. Alone(BootCpu)
    BY DEF Alone, TypeOK
  <2>4. LockExcludes'
    BY <2>1, <2>3, LockStay DEF TypeOK, Critical
  <2>5. LocalOK(BootCpu)'
    BY <2>1 DEF LocalOK, TypeOK
  <2> QED
    BY <2>1, <2>2, <2>3, <2>4, <2>5, LocalKeep
<1>3. CASE BootEnd
  <2> USE <1>3 DEF BootEnd, pages, locals
  <2>1. TypeOK' /\ LockExcludes'
    BY DEF TypeOK, LockExcludes
  <2>2. CallInv' /\ NullOnlyWhenEmpty'
    BY DEF CallInv, NullOnlyWhenEmpty
  <2> QED
    BY <2>1, <2>2
<1>4. ASSUME NEW c \in Cpus, NEW k \in 0 .. MaxPageOrder, AllocCall(c, k)
      PROVE  LocalInv'
  <2> USE <1>4 DEF AllocCall, pages, stage, Goto
  <2>1. Alone(c)
    BY DEF Alone, TypeOK
  <2>2. TypeOK'
    BY OrderFacts DEF TypeOK, Waiting, Critical
  <2>3. LockExcludes'
    BY <2>1, LockStay DEF TypeOK, Critical
  <2>4. LocalOK(c)'
    BY LocalAll DEF LocalOK, TypeOK
  <2>5. freelist' = freelist \/ pc[c] \in Critical
    BY DEF Critical
  <2> QED
    BY <2>1, <2>2, <2>3, <2>4, <2>5, LocalKeep
<1>5. ASSUME NEW c \in Cpus, NEW b \in held, FreeCall(c, b)
      PROVE  LocalInv'
  <2> USE <1>5 DEF FreeCall, pages, stage, Goto
  <2>1. Alone(c)
    BY DEF Alone, TypeOK
  <2>2. TypeOK'
    BY OrderFacts DEF TypeOK, Waiting, Critical
  <2>3. LockExcludes'
    BY <2>1, LockStay DEF TypeOK, Critical
  <2>4. LocalOK(c)'
    BY LocalAll DEF LocalOK, TypeOK
  <2>5. freelist' = freelist \/ pc[c] \in Critical
    BY DEF Critical
  <2> QED
    BY <2>1, <2>2, <2>3, <2>4, <2>5, LocalKeep
<1>6. ASSUME NEW c \in Cpus, NEW k \in 0 .. MaxPageOrder,
             FreeNullCall(c, k)
      PROVE  LocalInv'
  <2> USE <1>6 DEF FreeNullCall, pages, stage, Goto
  <2>1. Alone(c)
    BY DEF Alone, TypeOK
  <2>2. TypeOK'
    BY OrderFacts DEF TypeOK, Waiting, Critical
  <2>3. LockExcludes'
    BY <2>1, LockStay DEF TypeOK, Critical
  <2>4. LocalOK(c)'
    BY LocalAll DEF LocalOK, TypeOK
  <2>5. freelist' = freelist \/ pc[c] \in Critical
    BY DEF Critical
  <2> QED
    BY <2>1, <2>2, <2>3, <2>4, <2>5, LocalKeep
<1>7. ASSUME NEW c \in Cpus, AllocLock(c)
      PROVE  LocalInv'
  <2> USE <1>7 DEF AllocLock, pages, stage, Goto
  <2>1. Alone(c)
    BY DEF Alone, TypeOK
  <2>2. TypeOK'
    BY OrderFacts DEF TypeOK, Waiting, Critical
  <2>3. LockExcludes'
    BY <2>1, LockTake DEF TypeOK, Critical
  <2>4. LocalOK(c)'
    <3>1. /\ pc'[c] = "alloc_scan" /\ p'[c] = NULL
          /\ order'[c] \in Nat /\ __alloc'[c] = order'[c]
      BY LocalAll DEF LocalOK, TypeOK
    <3>2. \A k \in Orders : ~(order'[c] <= k /\ k < __alloc'[c])
      BY <3>1, OrderFacts
    <3> QED
      BY <3>1, <3>2 DEF LocalOK
  <2>5. freelist' = freelist \/ pc[c] \in Critical
    BY DEF Critical
  <2> QED
    BY <2>1, <2>2, <2>3, <2>4, <2>5, LocalKeep
<1>8. ASSUME NEW c \in Cpus, AllocSkip(c)
      PROVE  LocalInv'
  <2> USE <1>8 DEF AllocSkip, pages, stage
  <2>1. Alone(c)
    BY DEF Alone, TypeOK
  <2>2. TypeOK'
    BY OrderFacts DEF TypeOK, Waiting, Critical
  <2>3. LockExcludes'
    BY <2>1, LockStay DEF TypeOK, Critical
  <2>4. LocalOK(c)'
    BY OrderFacts, LocalAll DEF LocalOK, TypeOK
  <2>5. freelist' = freelist \/ pc[c] \in Critical
    BY DEF Critical
  <2> QED
    BY <2>1, <2>2, <2>3, <2>4, <2>5, LocalKeep
<1>9. ASSUME NEW c \in Cpus, AllocTake(c)
      PROVE  LocalInv'
  <2> USE <1>9 DEF AllocTake, pages, stage, Goto
  <2>1. Alone(c)
    BY DEF Alone, TypeOK
  <2>2. TypeOK'
    <3>1. __alloc[c] \in Orders
      BY OrderFacts DEF TypeOK
    <3>2. /\ freelist[__alloc[c]] \in Seq(Nat)
          /\ Head(freelist[__alloc[c]]) \in Nat
      BY <3>1 DEF TypeOK, list_empty
    <3>3. freelist' \in [Orders -> Seq(Nat)]
      BY <3>1, <3>2, DelType DEF TypeOK
    <3>4. p' \in [Cpus -> Nat \cup {NULL}] /\ p'[c] # NULL
      BY <3>2, OrderFacts DEF TypeOK
    <3> QED
      BY <3>3, <3>4 DEF TypeOK, Critical
  <2>3. LockExcludes'
    BY <2>1, LockStay DEF TypeOK, Critical
  <2>4. LocalOK(c)'
    <3>1. LocalOK(c)
      BY LocalAll
    <3>2. __alloc[c] \in Orders /\ order[c] <= __alloc[c]
      BY <3>1, OrderFacts DEF LocalOK, TypeOK
    <3>3. /\ pc'[c] = "alloc_split" /\ order'[c] = order[c]
          /\ __alloc'[c] = __alloc[c]
      BY DEF TypeOK
    <3>4. freelist[__alloc[c]] \in Seq(Nat)
      BY <3>2 DEF TypeOK
    <3>5. p'[c] \in Nat
      BY <3>4 DEF TypeOK, list_empty
    <3>6. p'[c] # NULL
      BY <3>5, OrderFacts
    <3> QED
      BY <3>2, <3>3, <3>6 DEF LocalOK
  <2>5. freelist' = freelist \/ pc[c] \in Critical
    BY DEF Critical
  <2> QED
    BY <2>1, <2>2, <2>3, <2>4, <2>5, LocalKeep
<1>10. ASSUME NEW c \in Cpus, AllocFail(c)
      PROVE  LocalInv'
  <2> USE <1>10 DEF AllocFail, pages, stage, Goto
  <2>1. Alone(c)
    BY DEF Alone, TypeOK
  <2>2. TypeOK'
    BY OrderFacts DEF TypeOK, Waiting, Critical
  <2>3. LockExcludes'
    BY <2>1, LockStay DEF TypeOK, Critical
  <2>4. LocalOK(c)'
    BY OrderFacts, LocalAll DEF LocalOK, TypeOK
  <2>5. freelist' = freelist \/ pc[c] \in Critical
    BY DEF Critical
  <2> QED
    BY <2>1, <2>2, <2>3, <2>4, <2>5, LocalKeep
<1>11. ASSUME NEW c \in Cpus, AllocSplit(c)
      PROVE  LocalInv'
  <2> USE <1>11 DEF AllocSplit, pages, stage
  <2>1. Alone(c)
    BY DEF Alone, TypeOK
  <2>2. TypeOK'
    <3> DEFINE k == __alloc[c] - 1
               q == next_page_by_order(p[c], k)
    <3>0. /\ __alloc[c] \in Orders /\ p[c] \in Nat
          /\ order[c] \in Nat /\ __alloc[c] > order[c]
      BY LocalAll DEF TypeOK, LocalOK
    <3>1. k \in Orders /\ p[c] \in Nat
      BY <3>0, OrderFacts
    <3>2. q \in Nat
      BY <3>1, OrderFacts DEF next_page_by_order
    <3>3. list_add_next(freelist[k], q) \in Seq(Nat)
      BY <3>1, <3>2 DEF TypeOK, list_add_next
    <3>4. freelist' \in [Orders -> Seq(Nat)]
      BY <3>1, <3>3 DEF TypeOK
    <3>5. __alloc' \in [Cpus -> 0 .. MaxPageOrder]
      BY <3>1, OrderFacts DEF TypeOK
    <3> QED
      BY <3>4, <3>5 DEF TypeOK
  <2>3. LockExcludes'
    BY <2>1, LockStay DEF TypeOK, Critical
  <2>4. LocalOK(c)'
    BY OrderFacts, LocalAll DEF LocalOK, TypeOK
  <2>5. freelist' = freelist \/ pc[c] \in Critical
    BY DEF Critical
  <2> QED
    BY <2>1, <2>2, <2>3, <2>4, <2>5, LocalKeep
<1>12. ASSUME NEW c \in Cpus, AllocMark(c)
      PROVE  LocalInv'
  <2> USE <1>12 DEF AllocMark, stage, Goto
  <2>1. Alone(c)
    BY DEF Alone, TypeOK
  <2>2. TypeOK'
    BY OrderFacts DEF TypeOK, Waiting, Critical
  <2>3. LockExcludes'
    BY <2>1, LockStay DEF TypeOK, Critical
  <2>4. LocalOK(c)'
    BY OrderFacts, LocalAll DEF LocalOK, TypeOK
  <2>5. freelist' = freelist \/ pc[c] \in Critical
    BY DEF Critical
  <2> QED
    BY <2>1, <2>2, <2>3, <2>4, <2>5, LocalKeep
<1>13. ASSUME NEW c \in Cpus, AllocUnlock(c)
      PROVE  LocalInv'
  <2> USE <1>13 DEF AllocUnlock, pages, stage, Goto, Return
  <2>1. Alone(c)
    BY DEF Alone, TypeOK
  <2>2. TypeOK'
    <3>1. p[c] # NULL => <<p[c], order[c]>> \in Nat \X Orders
      BY LocalAll DEF TypeOK, LocalOK
    <3>2. held' \subseteq Nat \X Orders
      BY <3>1 DEF TypeOK
    <3> QED
      BY <3>2, OrderFacts DEF TypeOK
  <2>3. LockExcludes'
    BY <2>1, LockGive DEF TypeOK, Critical
  <2>4. LocalOK(c)'
    BY LocalAll DEF LocalOK, TypeOK
  <2>5. freelist' = freelist \/ pc[c] \in Critical
    BY DEF Critical
  <2> QED
    BY <2>1, <2>2, <2>3, <2>4, <2>5, LocalKeep
<1>14. ASSUME NEW c \in Cpus, FreeLock(c)
      PROVE  LocalInv'
  <2> USE <1>14 DEF FreeLock, pages, stage, Goto
  <2>1. Alone(c)
    BY DEF Alone, TypeOK
  <2>2. TypeOK'
    BY OrderFacts DEF TypeOK, Waiting, Critical
  <2>3. LockExcludes'
    BY <2>1, LockTake DEF TypeOK, Critical
  <2>4. LocalOK(c)'
    BY LocalAll DEF LocalOK, TypeOK
  <2>5. freelist' = freelist \/ pc[c] \in Critical
    BY DEF Critical
  <2> QED
    BY <2>1, <2>2, <2>3, <2>4, <2>5, LocalKeep
<1>15. ASSUME NEW c \in Cpus, FreeReject(c)
      PROVE  LocalInv'
  <2> USE <1>15 DEF FreeReject, pages, stage, Goto
  <2>1. Alone(c)
    BY DEF Alone, TypeOK
  <2>2. TypeOK'
    BY OrderFacts DEF TypeOK, Waiting, Critical
  <2>3. LockExcludes'
    BY <2>1, LockStay DEF TypeOK, Critical
  <2>4. LocalOK(c)'
    BY LocalAll DEF LocalOK, TypeOK
  <2>5. freelist' = freelist \/ pc[c] \in Critical
    BY DEF Critical
  <2> QED
    BY <2>1, <2>2, <2>3, <2>4, <2>5, LocalKeep
<1>16. ASSUME NEW c \in Cpus, CombineNext(c)
      PROVE  LocalInv'
  <2> USE <1>16 DEF CombineNext, Combining, stage
  <2>1. Alone(c)
    BY DEF Alone, TypeOK
  <2>2. TypeOK'
    <3>1. freelist' \in [Orders -> Seq(Nat)]
      BY DelType DEF TypeOK
    <3>2. order' \in [Cpus -> 0 .. MaxPageOrder]
      BY OrderFacts DEF TypeOK
    <3> QED
      BY <3>1, <3>2 DEF TypeOK
  <2>3. LockExcludes'
    BY <2>1, LockStay DEF TypeOK, Critical
  <2>4. LocalOK(c)'
    BY LocalAll DEF LocalOK, TypeOK
  <2>5. freelist' = freelist \/ pc[c] \in Critical
    BY DEF Critical
  <2> QED
    BY <2>1, <2>2, <2>3, <2>4, <2>5, LocalKeep
<1>17. ASSUME NEW c \in Cpus, CombinePrev(c)
      PROVE  LocalInv'
  <2> USE <1>17 DEF CombinePrev, Combining, stage
  <2>1. Alone(c)
    BY DEF Alone, TypeOK
  <2>2. TypeOK'
    <3>1. freelist' \in [Orders -> Seq(Nat)]
      BY DelType DEF TypeOK
    <3>2. order' \in [Cpus -> 0 .. MaxPageOrder]
      BY OrderFacts DEF TypeOK
    <3>3. prev(c) \in Nat
      BY FrameAssumption DEF FreeHead
    <3> QED
      BY <3>1, <3>2, <3>3 DEF TypeOK
  <2>3. LockExcludes'
    BY <2>1, LockStay DEF TypeOK, Critical
  <2>4. LocalOK(c)'
    BY LocalAll DEF LocalOK, TypeOK
  <2>5. freelist' = freelist \/ pc[c] \in Critical
    BY DEF Critical
  <2> QED
    BY <2>1, <2>2, <2>3, <2>4, <2>5, LocalKeep
<1>18. ASSUME NEW c \in Cpus, FreeInsert(c)
      PROVE  LocalInv'
  <2> USE <1>18 DEF FreeInsert, stage, Goto
  <2>1. Alone(c)
    BY DEF Alone, TypeOK
  <2>2. TypeOK'
    <3>1. order[c] \in Orders /\ p[c] \in Nat
      BY OrderFacts DEF TypeOK
    <3>2. list_add_next(freelist[order[c]], p[c]) \in Seq(Nat)
      BY <3>1 DEF TypeOK, list_add_next
    <3>3. freelist' \in [Orders -> Seq(Nat)]
      BY <3>1, <3>2 DEF TypeOK
    <3>4. /\ is_free' \in [Mapped -> BOOLEAN]
          /\ is_head' \in [Mapped -> BOOLEAN]
      BY DEF TypeOK
    <3>5. ref_count' \in [Mapped -> Int]
      <4>1. \A v \in Int : [ref_count EXCEPT ![p[c]] = v] \in [Mapped -> Int]
        BY DEF TypeOK
      <4>2. -1 \in Int
        OBVIOUS
      <4> QED
        BY ONLY <4>1, <4>2, ref_count' = [ref_count EXCEPT ![p[c]] = -1]
    <3> QED
      BY <3>3, <3>4, <3>5 DEF TypeOK, Critical
  <2>3. LockExcludes'
    BY <2>1, LockStay DEF TypeOK, Critical
  <2>4. LocalOK(c)'
    BY LocalAll DEF LocalOK, TypeOK
  <2>5. freelist' = freelist \/ pc[c] \in Critical
    BY DEF Critical
  <2> QED
    BY <2>1, <2>2, <2>3, <2>4, <2>5, LocalKeep
<1>19. ASSUME NEW c \in Cpus, FreeUnlock(c)
      PROVE  LocalInv'
  <2> USE <1>19 DEF FreeUnlock, pages, stage, Goto, Return
  <2>1. Alone(c)
    BY DEF Alone, TypeOK
  <2>2. TypeOK'
    BY OrderFacts DEF TypeOK, Waiting, Critical
  <2>3. LockExcludes'
    BY <2>1, LockGive DEF TypeOK, Critical
  <2>4. LocalOK(c)'
    BY LocalAll DEF LocalOK, TypeOK
  <2>5. freelist' = freelist \/ pc[c] \in Critical
    BY DEF Critical
  <2> QED
    BY <2>1, <2>2, <2>3, <2>4, <2>5, LocalKeep
<1> QED
  BY <1>1, <1>2, <1>3, <1>4, <1>5, <1>6, <1>7, <1>8, <1>9, <1>10,
     <1>11, <1>12, <1>13, <1>14, <1>15, <1>16, <1>17, <1>18, <1>19
     DEF Next, Boot, Work, Call

-----------------------------------------------------------------------------
(* The claims.                                                              *)

ByList(F)   == {<<"list", 0, b>> : b \in F}
ByCaller(H) == {<<"caller", 0, b>> : b \in H}
ByCpu(c)    == IF InHand(c) THEN {<<"cpu", c, Hand(c)>>} ELSE {}
ByOthers(c) == {<<"cpu", d, Hand(d)>> : d \in {e \in Cpus \ {c} : InHand(e)}}

LEMMA ClaimsParts ==
  ASSUME NEW c \in Cpus
  PROVE  Claims = ByList(Listed(freelist)) \cup ByCaller(held)
                    \cup ByOthers(c) \cup ByCpu(c)
BY DEF Claims, ByList, ByCaller, ByOthers, ByCpu, Listed, FreeBlocks

LEMMA OthersKeep ==
  ASSUME NEW c \in Cpus, Alone(c)
  PROVE  /\ ByOthers(c)' = ByOthers(c)
         /\ \A d \in Cpus \ {c} : Freeing(d)' <=> Freeing(d)
<1>1. \A d \in Cpus \ {c} : /\ Allocating(d)' <=> Allocating(d)
                            /\ Freeing(d)' <=> Freeing(d)
  BY DEF Alone, Allocating, Freeing
<1>2. \A d \in Cpus \ {c} : (InHand(d)' <=> InHand(d)) /\ Hand(d)' = Hand(d)
  BY <1>1 DEF Alone, InHand, Hand
<1> QED
  BY <1>1, <1>2 DEF ByOthers

(* The claims after a step of c.                                            *)
LEMMA ClaimsAfter ==
  ASSUME NEW c \in Cpus, Alone(c)
  PROVE  Claims' = ByList(Listed(freelist')) \cup ByCaller(held')
                     \cup ByOthers(c) \cup ByCpu(c)'
<1>1. Claims' = ByList(Listed(freelist')) \cup ByCaller(held')
                  \cup ByOthers(c)' \cup ByCpu(c)'
  BY DEF Claims, ByList, ByCaller, ByOthers, ByCpu, Listed, FreeBlocks
<1> QED
  BY <1>1, OthersKeep

(* Blocks that come to or leave the lists and the callers.                  *)
LEMMA TagFacts ==
  /\ \A F, b : /\ ByList(F \cup {b}) = ByList(F) \cup {<<"list", 0, b>>}
               /\ ByList(F \ {b}) = ByList(F) \ {<<"list", 0, b>>}
               /\ ByCaller(F \cup {b}) = ByCaller(F) \cup {<<"caller", 0, b>>}
               /\ ByCaller(F \ {b}) = ByCaller(F) \ {<<"caller", 0, b>>}
  /\ \A F, b : /\ <<"list", 0, b>> \in ByList(F) <=> b \in F
               /\ <<"caller", 0, b>> \in ByCaller(F) <=> b \in F
               /\ <<"caller", 0, b>> \notin ByList(F)
               /\ <<"list", 0, b>> \notin ByCaller(F)
  /\ \A F, d, b : /\ <<"cpu", d, b>> \notin ByList(F)
                  /\ <<"cpu", d, b>> \notin ByCaller(F)
  /\ \A c, b : /\ <<"list", 0, b>> \notin ByOthers(c) \cup ByCpu(c)
               /\ <<"caller", 0, b>> \notin ByOthers(c) \cup ByCpu(c)
               /\ <<"cpu", c, b>> \notin ByOthers(c)
<1>1. \A F, b : /\ ByList(F \cup {b}) = ByList(F) \cup {<<"list", 0, b>>}
                /\ ByCaller(F \cup {b}) = ByCaller(F) \cup {<<"caller", 0, b>>}
  BY DEF ByList, ByCaller
<1>2. \A F, b : /\ ByList(F \ {b}) = ByList(F) \ {<<"list", 0, b>>}
                /\ ByCaller(F \ {b}) = ByCaller(F) \ {<<"caller", 0, b>>}
  BY DEF ByList, ByCaller
<1>3. \A F, b : /\ <<"list", 0, b>> \in ByList(F) <=> b \in F
                /\ <<"caller", 0, b>> \in ByCaller(F) <=> b \in F
                /\ <<"caller", 0, b>> \notin ByList(F)
                /\ <<"list", 0, b>> \notin ByCaller(F)
  BY DEF ByList, ByCaller
<1>4. \A F, d, b : /\ <<"cpu", d, b>> \notin ByList(F)
                   /\ <<"cpu", d, b>> \notin ByCaller(F)
  BY DEF ByList, ByCaller
<1>5. \A c, b : /\ <<"list", 0, b>> \notin ByOthers(c) \cup ByCpu(c)
                /\ <<"caller", 0, b>> \notin ByOthers(c) \cup ByCpu(c)
                /\ <<"cpu", c, b>> \notin ByOthers(c)
  BY DEF ByOthers, ByCpu
<1> QED
  BY <1>1, <1>2, <1>3, <1>4, <1>5

StoreInv == NoTwice(freelist) /\ StoreOK(Claims, Donated)

(* A step that moves no block.                                              *)
LEMMA Quiet ==
  ASSUME StoreInv, NEW c \in Cpus, Alone(c), ByCpu(c)' = ByCpu(c),
         freelist' = freelist, held' = held, Donated' = Donated
  PROVE  StoreInv'
<1>1. Claims' = Claims
  BY ClaimsParts, ClaimsAfter
<1> QED
  BY <1>1 DEF StoreInv, NoTwice, StoreOK, Span, B!Span

(* StoreOK speaks of two sets and of no variable.                           *)
LEMMA StoreNext ==
  ASSUME NoTwice(freelist'), StoreOK(Claims', Donated')
  PROVE  StoreInv'
BY DEF StoreInv, NoTwice, StoreOK, Span, B!Span

(* alloc_pages takes a block off a list.                                    *)
LEMMA StoreTake ==
  ASSUME LocalInv, StoreInv, NEW c \in Cpus, AllocTake(c)
  PROVE  StoreInv'
<1> DEFINE k == __alloc[c]
           q == Head(freelist[k])
           x == <<"list", 0, <<q, k>>>>
           y == <<"cpu", c, <<q, k>>>>
<1>1. /\ k \in Orders /\ freelist \in Lists
      /\ freelist[k] \in Seq(Nat) /\ freelist[k] # << >>
  BY OrderFacts DEF LocalInv, TypeOK, AllocTake, list_empty, Lists
<1>2. q \in Nat /\ q \in ToSet(freelist[k])
  BY <1>1 DEF ToSet
<1>3. /\ NoTwice(freelist')
      /\ Listed(freelist') = Listed(freelist) \ {<<q, k>>}
  BY <1>1, <1>2, ListsDel DEF AllocTake, StoreInv
<1>4. <<q, k>> \in Listed(freelist)
  BY <1>1, <1>2, ListedBlock
<1>5. Alone(c)
  BY DEF Alone, AllocTake, Goto, LocalInv, TypeOK
<1>6. ByCpu(c) = {}
  BY DEF ByCpu, InHand, Allocating, Freeing, AllocTake, Goto
<1>7. ByCpu(c)' = {y}
  <2>1. /\ pc'[c] = "alloc_split" /\ p'[c] = q /\ __alloc'[c] = k
    BY DEF AllocTake, Goto, LocalInv, TypeOK
  <2>2. Allocating(c)'
    BY <2>1, <1>2, OrderFacts DEF Allocating
  <2> QED
    BY <2>1, <2>2 DEF ByCpu, InHand, Hand
<1>8. held' = held /\ Donated' = Donated
  BY DEF AllocTake, Donated, stage
<1> HIDE DEF k, q
<1>9. x \in Claims /\ y[3] = x[3]
  BY <1>4, ClaimsParts, TagFacts
<1>10. Claims' = (Claims \ {x}) \cup {y}
  <2>1. Claims = ByList(Listed(freelist)) \cup ByCaller(held) \cup ByOthers(c)
    BY <1>6, ClaimsParts
  <2>2. Claims' = (ByList(Listed(freelist)) \ {x}) \cup ByCaller(held)
                    \cup ByOthers(c) \cup {y}
    <3>1. Claims' = ByList(Listed(freelist')) \cup ByCaller(held')
                     \cup ByOthers(c) \cup ByCpu(c)'
      BY <1>5, ClaimsAfter
    <3>2. ByList(Listed(freelist')) = ByList(Listed(freelist)) \ {x}
      BY <1>3, TagFacts
    <3> QED
      BY ONLY <3>1, <3>2, <1>7, <1>8
  <2>3. x \notin ByCaller(held) /\ x \notin ByOthers(c)
    BY TagFacts
  <2> QED
    BY ONLY <2>1, <2>2, <2>3
<1>11. StoreOK((Claims \ {x}) \cup {y}, Donated)
  BY <1>9, Pass DEF StoreInv
<1> QED
  BY <1>3, <1>8, <1>10, <1>11, StoreNext

(* alloc_pages hands its block to the caller, or NULL.                      *)
LEMMA StoreGive ==
  ASSUME LocalInv, StoreInv, NEW c \in Cpus, AllocUnlock(c)
  PROVE  StoreInv'
<1>1. Alone(c) /\ freelist' = freelist /\ Donated' = Donated
  BY DEF Alone, AllocUnlock, Return, Goto, Donated, stage, LocalInv, TypeOK
<1>2. pc'[c] = "idle" /\ pc[c] = "alloc_unlock"
  BY DEF AllocUnlock, Return, Goto, LocalInv, TypeOK
<1>3. ByCpu(c)' = {}
  BY <1>2 DEF ByCpu, InHand, Allocating, Freeing
<1>4. CASE p[c] = NULL
  <2>1. ByCpu(c) = {}
    BY <1>2, <1>4 DEF ByCpu, InHand, Allocating, Freeing
  <2>2. held' = held
    BY <1>4 DEF AllocUnlock
  <2> QED
    BY <1>1, <1>3, <2>1, <2>2, Quiet
<1>5. CASE p[c] # NULL
  <2> DEFINE b == <<p[c], order[c]>>
             x == <<"cpu", c, b>>
             y == <<"caller", 0, b>>
  <2>1. __alloc[c] = order[c]
    BY <1>2, <1>5 DEF LocalInv, CallInv
  <2>2. ByCpu(c) = {x}
    BY <1>2, <1>5, <2>1 DEF ByCpu, InHand, Allocating, Hand
  <2>3. held' = held \cup {b}
    BY <1>5 DEF AllocUnlock
  <2> HIDE DEF b
  <2>4. x \in Claims /\ y[3] = x[3]
    BY <2>2, ClaimsParts
  <2>5. Claims' = (Claims \ {x}) \cup {y}
    <3>1. Claims = ByList(Listed(freelist)) \cup ByCaller(held)
                     \cup ByOthers(c) \cup {x}
      BY <2>2, ClaimsParts
    <3>2. Claims' = ByList(Listed(freelist)) \cup ByCaller(held) \cup {y}
                      \cup ByOthers(c)
      <4>1. Claims' = ByList(Listed(freelist')) \cup ByCaller(held')
                       \cup ByOthers(c) \cup ByCpu(c)'
        BY <1>1, ClaimsAfter
      <4>2. ByCaller(held') = ByCaller(held) \cup {y}
        BY <2>3, TagFacts
      <4> QED
        BY ONLY <4>1, <4>2, <1>1, <1>3
    <3>3. /\ x \notin ByList(Listed(freelist))
          /\ x \notin ByCaller(held)
          /\ x \notin ByOthers(c)
      BY TagFacts
    <3> QED
      BY ONLY <3>1, <3>2, <3>3
  <2>6. StoreOK((Claims \ {x}) \cup {y}, Donated)
    BY <2>4, Pass DEF StoreInv
  <2>7. NoTwice(freelist')
    BY <1>1 DEF StoreInv
  <2> QED
    BY <1>1, <2>5, <2>6, <2>7, StoreNext
<1> QED
  BY <1>4, <1>5

(* A caller calls free_pages with a block it holds.                         *)
LEMMA StoreGetBack ==
  ASSUME LocalInv, StoreInv, NEW c \in Cpus, NEW b \in held, FreeCall(c, b)
  PROVE  StoreInv'
<1> DEFINE x == <<"caller", 0, b>>
           y == <<"cpu", c, b>>
<1>1. Alone(c) /\ freelist' = freelist /\ Donated' = Donated
  BY DEF Alone, FreeCall, Goto, Donated, stage, LocalInv, TypeOK
<1>2. ByCpu(c) = {}
  BY DEF ByCpu, InHand, Allocating, Freeing, FreeCall, Goto
<1>3. b[1] \in Nat /\ b[2] \in Orders /\ b = <<b[1], b[2]>>
  BY DEF LocalInv, TypeOK
<1>4. ByCpu(c)' = {y}
  <2>1. pc'[c] = "free_lock" /\ p'[c] = b[1] /\ order'[c] = b[2]
    BY DEF FreeCall, Goto, LocalInv, TypeOK
  <2>2. Freeing(c)' /\ ~Allocating(c)'
    BY <1>3, <2>1, OrderFacts DEF Freeing, Allocating
  <2> QED
    BY <1>3, <2>1, <2>2 DEF ByCpu, InHand, Hand
<1>5. held' = held \ {b}
  BY DEF FreeCall
<1>6. x \in Claims /\ y[3] = x[3]
  BY ClaimsParts, TagFacts
<1>7. Claims' = (Claims \ {x}) \cup {y}
  <2>1. Claims = ByList(Listed(freelist)) \cup ByCaller(held) \cup ByOthers(c)
    BY <1>2, ClaimsParts
  <2>2. Claims' = ByList(Listed(freelist)) \cup (ByCaller(held) \ {x})
                    \cup ByOthers(c) \cup {y}
    <3>1. Claims' = ByList(Listed(freelist')) \cup ByCaller(held')
                     \cup ByOthers(c) \cup ByCpu(c)'
      BY <1>1, ClaimsAfter
    <3>2. ByCaller(held') = ByCaller(held) \ {x}
      BY <1>5, TagFacts
    <3> QED
      BY ONLY <3>1, <3>2, <1>1, <1>4
  <2>3. x \notin ByList(Listed(freelist)) /\ x \notin ByOthers(c)
    BY TagFacts
  <2> QED
    BY ONLY <2>1, <2>2, <2>3
<1>8. StoreOK((Claims \ {x}) \cup {y}, Donated)
  BY <1>6, Pass DEF StoreInv
<1>9. NoTwice(freelist')
  BY <1>1 DEF StoreInv
<1> QED
  BY <1>1, <1>7, <1>8, <1>9, StoreNext

(* A block that a CPU has in hand is on no list.                            *)
LEMMA HandUnlisted ==
  ASSUME StoreInv, NEW c \in Cpus, NEW b, ByCpu(c) = {<<"cpu", c, b>>}
  PROVE  /\ b \in Block /\ Span(b) \subseteq Donated
         /\ \A l \in Listed(freelist) :
              l \in Block /\ Span(l) \cap Span(b) = {}
<1>1. <<"cpu", c, b>> \in Claims
  BY ClaimsParts
<1>2. \A l \in Listed(freelist) : <<"list", 0, l>> \in Claims
  <2>1. ByList(Listed(freelist)) \subseteq Claims
    BY ClaimsParts
  <2> QED
    BY <2>1, TagFacts
<1> QED
  BY <1>1, <1>2 DEF StoreInv, StoreOK

(* list_add_next puts the block in hand on the list of its order.           *)
LEMMA InsertListed ==
  ASSUME LocalInv, StoreInv, NEW c \in Cpus, FreeInsert(c),
         <<p[c], order[c]>> \notin Listed(freelist)
  PROVE  /\ NoTwice(freelist')
         /\ Listed(freelist') = Listed(freelist) \cup {<<p[c], order[c]>>}
<1> DEFINE q == p[c]
           k == order[c]
<1>1. freelist \in Lists /\ NoTwice(freelist)
  BY DEF LocalInv, TypeOK, Lists, StoreInv
<1>2. q \in Nat /\ k \in Orders /\ <<q, k>> \notin Listed(freelist)
  BY OrderFacts DEF FreeInsert, Goto, LocalInv, TypeOK
<1>3. freelist' = [freelist EXCEPT ![k] = list_add_next(@, q)]
  BY DEF FreeInsert
<1> HIDE DEF q, k
<1>4. /\ NoTwice(freelist')
      /\ Listed(freelist') = Listed(freelist) \cup {<<q, k>>}
  BY ONLY <1>1, <1>2, <1>3, ListsAdd
<1> QED
  BY <1>4 DEF q, k

(* free_pages puts its block on a list.                                     *)
LEMMA StoreInsert ==
  ASSUME LocalInv, StoreInv, NEW c \in Cpus, FreeInsert(c)
  PROVE  StoreInv'
<1> DEFINE b == <<p[c], order[c]>>
           x == <<"cpu", c, b>>
           y == <<"list", 0, b>>
<1>1. Alone(c) /\ held' = held /\ Donated' = Donated
  BY DEF Alone, FreeInsert, Goto, Donated, stage, LocalInv, TypeOK
<1>2. /\ pc[c] = "free_combine" /\ pc'[c] = "free_unlock"
      /\ p[c] \in Nat /\ order[c] \in Orders
  BY OrderFacts DEF FreeInsert, Goto, LocalInv, TypeOK
<1>3. ByCpu(c)' = {}
  BY <1>2 DEF ByCpu, InHand, Allocating, Freeing
<1>4. ByCpu(c) = {x}
  BY <1>2 DEF ByCpu, InHand, Hand, Allocating, Freeing, FreeInsert
<1>5. b \notin Listed(freelist)
  <2>1. b \in Block /\ (b \in Listed(freelist) => Span(b) \cap Span(b) = {})
    BY <1>4, HandUnlisted
  <2> QED
    BY <2>1, SpanFacts
<1>7. /\ NoTwice(freelist')
      /\ Listed(freelist') = Listed(freelist) \cup {b}
  BY <1>5, InsertListed
<1> HIDE DEF b
<1>8. x \in Claims /\ y[3] = x[3]
  BY <1>4, ClaimsParts
<1>9. Claims' = (Claims \ {x}) \cup {y}
  <2>1. Claims = ByList(Listed(freelist)) \cup ByCaller(held)
                   \cup ByOthers(c) \cup {x}
    BY <1>4, ClaimsParts
  <2>2. Claims' = ByList(Listed(freelist)) \cup {y} \cup ByCaller(held)
                    \cup ByOthers(c)
    <3>1. Claims' = ByList(Listed(freelist')) \cup ByCaller(held')
                     \cup ByOthers(c) \cup ByCpu(c)'
      BY <1>1, ClaimsAfter
    <3>2. ByList(Listed(freelist')) = ByList(Listed(freelist)) \cup {y}
      BY <1>7, TagFacts
    <3> QED
      BY ONLY <3>1, <3>2, <1>1, <1>3
  <2>3. /\ x \notin ByList(Listed(freelist))
        /\ x \notin ByCaller(held)
        /\ x \notin ByOthers(c)
    BY TagFacts
  <2> QED
    BY ONLY <2>1, <2>2, <2>3
<1>10. StoreOK((Claims \ {x}) \cup {y}, Donated)
  BY <1>8, Pass DEF StoreInv
<1> QED
  BY <1>1, <1>7, <1>9, <1>10, StoreNext

(* alloc_pages puts the upper half of its block on a list.                  *)
LEMMA StoreSplit ==
  ASSUME LocalInv, StoreInv, NEW c \in Cpus, AllocSplit(c)
  PROVE  StoreInv'
<1> DEFINE k == __alloc[c] - 1
           q == p[c]
           r == q + 2^k
           whole == <<q, k + 1>>
           low   == <<q, k>>
           high  == <<r, k>>
           x == <<"cpu", c, whole>>
           y == <<"cpu", c, low>>
           z == <<"list", 0, high>>
<1>1. /\ q \in Nat /\ k \in Orders /\ k + 1 \in Orders /\ __alloc[c] = k + 1
      /\ pc[c] = "alloc_split" /\ q # NULL
  <2>1. /\ __alloc[c] \in Orders /\ order[c] \in Nat /\ __alloc[c] > order[c]
        /\ q \in Nat /\ q # NULL /\ pc[c] = "alloc_split"
    BY DEF LocalInv, TypeOK, CallInv, AllocSplit
  <2> QED
    BY <2>1, OrderFacts
<1>2. Alone(c) /\ held' = held /\ Donated' = Donated
  BY DEF Alone, AllocSplit, Donated, stage, LocalInv, TypeOK
<1>3. ByCpu(c) = {x}
  BY <1>1 DEF ByCpu, InHand, Hand, Allocating
<1>4. ByCpu(c)' = {y}
  <2>1. pc'[c] = pc[c] /\ p'[c] = q /\ __alloc'[c] = k
    BY DEF AllocSplit, LocalInv, TypeOK
  <2> QED
    BY <1>1, <2>1 DEF ByCpu, InHand, Hand, Allocating
<1>5. freelist' = [freelist EXCEPT ![k] = list_add_next(@, r)]
  <2>1. freelist' = [freelist EXCEPT
                       ![k] = list_add_next(@, next_page_by_order(q, k))]
    BY DEF AllocSplit
  <2>2. ~(k >= MaxPageOrder)
    BY <1>1, OrderFacts
  <2>3. next_page_by_order(q, k) = r
    BY <2>2 DEF next_page_by_order
  <2> QED
    BY <2>1, <2>3
<1>6. freelist \in Lists /\ NoTwice(freelist)
  BY DEF LocalInv, TypeOK, Lists, StoreInv
<1> HIDE DEF k, q
<1>7. /\ whole \in Block /\ low \in Block /\ high \in Block
      /\ Span(whole) = Span(low) \cup Span(high)
      /\ Span(low) \cap Span(high) = {}
  BY <1>1, Halves
<1>8. r \in Nat
  BY <1>7 DEF Block
<1> HIDE DEF r
<1>9. <<r, k>> \notin Listed(freelist)
  <2>1. high \in Listed(freelist) => Span(high) \cap Span(whole) = {}
    BY <1>3, HandUnlisted
  <2>2. high[1] \in Span(high)
    BY <1>7, SpanFacts
  <2> QED
    BY <1>7, <2>1, <2>2
<1>10. /\ NoTwice(freelist')
       /\ Listed(freelist') = Listed(freelist) \cup {<<r, k>>}
  <2> HIDE DEF x, y, z, whole, low, high
  <2>1. k \in Orders
    BY <1>1
  <2> QED
    BY ONLY <1>5, <1>6, <1>8, <1>9, <2>1, ListsAdd
<1> HIDE DEF whole, low, high
<1>11. Claims' = (Claims \ {x}) \cup {y, z}
  <2>1. Claims = ByList(Listed(freelist)) \cup ByCaller(held)
                   \cup ByOthers(c) \cup {x}
    BY <1>3, ClaimsParts
  <2>2. Claims' = ByList(Listed(freelist')) \cup ByCaller(held')
                    \cup ByOthers(c) \cup ByCpu(c)'
    BY <1>2, ClaimsAfter
  <2>3. ByList(Listed(freelist')) = ByList(Listed(freelist)) \cup {z}
    BY <1>10, TagFacts DEF high
  <2>4. /\ x \notin ByList(Listed(freelist))
        /\ x \notin ByCaller(held)
        /\ x \notin ByOthers(c)
    BY TagFacts
  <2> QED
    BY ONLY <2>1, <2>2, <2>3, <2>4, <1>2, <1>4
<1>12. StoreOK((Claims \ {x}) \cup {y, z}, Donated)
  <2>1. {x} \in SUBSET Claims
    BY <1>3, ClaimsParts
  <2>2. \A f : (\E v \in {y, z} : f \in Span(v[3]))
                 <=> (\E v \in {x} : f \in Span(v[3]))
    BY <1>7
  <2>3. /\ \A v \in {y, z} : v[3] \in Block
        /\ \A v, w \in {y, z} : v # w => Span(v[3]) \cap Span(w[3]) = {}
    BY <1>7
  <2> HIDE DEF x, y, z
  <2> QED
    BY <2>1, <2>2, <2>3, Replace DEF StoreInv
<1> QED
  BY <1>2, <1>10, <1>11, <1>12, StoreNext

(* The boot loop hands over one frame more.                                 *)
LEMMA DonatedGrows ==
  ASSUME LocalInv, NEW f \in Frames, BootFree(f)
  PROVE  Donated' = Donated \cup {f} /\ f \notin Donated
<1>1. frontier \in Nat /\ f \in Nat /\ f >= frontier /\ frontier' = f + 1
  BY FrameAssumption DEF BootFree, LocalInv, TypeOK
<1>2. \A g \in Frames : g \in Nat /\ (g >= frontier => f <= g)
  BY FrameAssumption DEF BootFree
<1>3. \A g \in Frames : g < frontier' <=> g < frontier \/ g = f
  BY <1>1, <1>2
<1>4. \A g : g \in Donated' <=> g \in Frames /\ g < frontier'
  BY DEF Donated
<1>5. \A g : g \in Donated <=> g \in Frames /\ g < frontier
  BY DEF Donated
<1>6. f \notin Donated
  BY <1>1, <1>5
<1>7. \A g : g \in Donated' <=> g \in Donated \/ g = f
  BY <1>3, <1>4, <1>5
<1> QED
  BY <1>6, <1>7

(* mm_init hands over the next frame.                                       *)
LEMMA StoreArrive ==
  ASSUME LocalInv, StoreInv, NEW f \in Frames, BootFree(f)
  PROVE  StoreInv'
<1> DEFINE c == BootCpu
           b == <<f, 0>>
           y == <<"cpu", c, b>>
<1>1. /\ c \in Cpus /\ f \in Nat /\ 0 \in Orders /\ 2^0 = 1
  BY CpuAssumption, FrameAssumption, OrderFacts, PowerAssumption
<1>2. Alone(c) /\ freelist' = freelist /\ held' = held
  BY <1>1 DEF Alone, BootFree, Goto, LocalInv, TypeOK
<1>3. ByCpu(c) = {}
  BY DEF ByCpu, InHand, Allocating, Freeing, BootFree, Goto
<1>4. ByCpu(c)' = {y}
  <2>1. pc'[c] = "free_lock" /\ p'[c] = f /\ order'[c] = 0
    BY <1>1 DEF BootFree, Goto, LocalInv, TypeOK
  <2> QED
    BY <1>1, <2>1, OrderFacts DEF ByCpu, InHand, Hand, Allocating, Freeing
<1>5. b \in Block /\ Span(b) = {f}
  <2>1. b \in Block
    BY <1>1 DEF Block
  <2>2. \A g : g \in Span(b) <=> g \in Int /\ f <= g /\ g < f + 1
    BY <1>1, <2>1, SpanFacts
  <2> QED
    BY <1>1, <2>1, <2>2
<1>6. Donated' = Donated \cup {f} /\ f \notin Donated
  BY DonatedGrows
<1>7. Claims' = Claims \cup {y}
  <2>1. Claims' = ByList(Listed(freelist')) \cup ByCaller(held')
                    \cup ByOthers(c) \cup ByCpu(c)'
    BY <1>1, <1>2, ClaimsAfter
  <2>2. Claims = ByList(Listed(freelist)) \cup ByCaller(held)
                   \cup ByOthers(c) \cup ByCpu(c)
    BY <1>1, ClaimsParts
  <2> QED
    BY ONLY <2>1, <2>2, <1>2, <1>3, <1>4
<1>8. StoreOK(Claims \cup {y}, Donated \cup Span(b))
  <2>1. /\ y[3] \in Block /\ y[3] = b
        /\ Span(y[3]) \cap Donated = {}
    BY <1>5, <1>6
  <2> HIDE DEF y, b
  <2> QED
    BY <2>1, Arrive DEF StoreInv
<1>9. NoTwice(freelist')
  BY <1>2 DEF StoreInv
<1> QED
  BY <1>5, <1>6, <1>7, <1>8, <1>9, StoreNext

-----------------------------------------------------------------------------
(* Merging.                                                                 *)

BootTime == BootInv /\ FlagsTell /\ Staircase
FullInv  == LocalInv /\ StoreInv /\ GivenBack /\ BootTime
Sane     == WideGaps /\ NoGarbageNear /\ NoMergeAfterBoot

LEMMA FreeBlocksListed == FreeBlocks = Listed(freelist)
BY DEF FreeBlocks, Listed

(* A free block lies in frames that have been handed over.                  *)
LEMMA ListedFrames ==
  ASSUME StoreInv, NEW b \in Listed(freelist)
  PROVE  b \in Block /\ Span(b) \subseteq Donated
<1>1. <<"list", 0, b>> \in ByList(Listed(freelist))
  BY TagFacts
<1>2. <<"list", 0, b>> \in Claims
  BY <1>1, CpuAssumption, ClaimsParts
<1> QED
  BY <1>2 DEF StoreInv, StoreOK

(* Blocks are combined only while the machine boots.                        *)
LEMMA MergeBoot ==
  ASSUME FullInv, Sane, NEW c \in Cpus, Combining(c)
  PROVE  /\ ~booted /\ c = BootCpu
         /\ p[c] \in Nat /\ order[c] \in Orders /\ order[c] + 1 \in Orders
         /\ order[c] < TopOrder
         /\ ByCpu(c) = {<<"cpu", c, <<p[c], order[c]>>>>}
         /\ <<p[c], order[c]>> \in Block
         /\ Span(<<p[c], order[c]>>) \subseteq Donated
         /\ p[c] + 2^order[c] = frontier
<1>1. /\ p[c] \in Nat /\ order[c] \in Nat /\ order[c] < TopOrder
      /\ pc[c] = "free_combine" /\ p[c] # NULL
  BY DEF FullInv, LocalInv, TypeOK, Combining
<1>2. order[c] \in Orders /\ order[c] + 1 \in Orders
  BY <1>1, OrderFacts
<1>3. Freeing(c) /\ ~Allocating(c)
  BY <1>1, <1>2, OrderFacts DEF Freeing, Allocating
<1>4. ~booted
  BY <1>1, <1>3, OrderFacts DEF FullInv, GivenBack, Sane, NoMergeAfterBoot
<1>5. c = BootCpu
  BY <1>1, <1>4 DEF FullInv, BootTime, BootInv
<1>6. p[c] + 2^order[c] = frontier
  BY <1>1, <1>4, <1>5 DEF FullInv, BootTime, BootInv
<1>7. ByCpu(c) = {<<"cpu", c, <<p[c], order[c]>>>>}
  BY <1>3 DEF ByCpu, InHand, Hand
<1>8. /\ <<p[c], order[c]>> \in Block
      /\ Span(<<p[c], order[c]>>) \subseteq Donated
  BY <1>7, HandUnlisted DEF FullInv
<1> QED
  BY <1>1, <1>2, <1>4, <1>5, <1>6, <1>7, <1>8

(* At boot the page behind the block in hand is never a free head: it has   *)
(* not been handed over yet.                                                *)
LEMMA NextNotFree ==
  ASSUME FullInv, Sane, NEW c \in Cpus, Combining(c)
  PROVE  ~FreeHead(next(c))
<1> DEFINE b == <<p[c], order[c]>>
           n == next(c)
<1>1. /\ ~booted /\ c = BootCpu
      /\ p[c] \in Nat /\ order[c] \in Orders
      /\ b \in Block /\ Span(b) \subseteq Donated
      /\ p[c] + 2^order[c] = frontier
  BY MergeBoot
<1>2. n = frontier /\ p[c] # n
  <2>1. ~(order[c] >= MaxPageOrder) /\ 2^order[c] \in Nat \ {0}
    BY <1>1, OrderFacts
  <2>2. n = p[c] + 2^order[c]
    BY <2>1 DEF next, next_page_by_order
  <2> QED
    BY <1>1, <2>1, <2>2
<1>3. \A g \in Donated : g \in Frames /\ g \in Nat /\ g < frontier
  BY FrameAssumption DEF Donated
<1>4. frontier - 1 \in Frames /\ (frontier - 1) + 1 = frontier
  <2>1. b[1] + 2^b[2] - 1 \in Span(b)
    BY <1>1, SpanFacts
  <2>2. b[1] + 2^b[2] = frontier
    BY <1>1
  <2> HIDE DEF b
  <2>3. frontier - 1 \in Span(b)
    <3>1. /\ b[1] \in Nat /\ 2^b[2] \in Nat \ {0}
          /\ frontier - 1 \in Int
          /\ b[1] <= frontier - 1 /\ frontier - 1 < b[1] + 2^b[2]
      BY <1>1, <2>2, SpanFacts
    <3> QED
      BY <1>1, <3>1, SpanFacts
  <2>4. frontier - 1 \in Frames
    BY <1>1, <1>3, <2>3
  <2>5. frontier \in Nat
    BY DEF FullInv, LocalInv, TypeOK
  <2> QED
    BY <2>4, <2>5
<1>5. ASSUME FreeHead(n)
      PROVE  FALSE
  <2>1. n \in Mapped
    BY <1>5 DEF FreeHead
  <2>2. n \in Described
    BY <1>2, <1>4, <2>1 DEF Sane, NoGarbageNear
  <2>3. PICK j \in Orders : <<n, j>> \in FreeBlocks
    BY <1>1, <1>2, <1>5, <2>2 DEF FullInv, BootTime, FlagsTell
  <2>4. <<n, j>> \in Block /\ Span(<<n, j>>) \subseteq Donated
    BY <2>3, FreeBlocksListed, ListedFrames DEF FullInv
  <2>5. n \in Donated
    BY <2>4, SpanFacts
  <2>6. n \in Nat /\ n < frontier
    BY <1>3, <2>5
  <2> QED
    BY <1>2, <2>6
<1> QED
  BY <1>5

(* A free head one block size before the block in hand is a block of the    *)
(* same size, although the code does not check it.                          *)
LEMMA PrevExact ==
  ASSUME FullInv, Sane, NEW c \in Cpus, Combining(c), FreeHead(prev(c))
  PROVE  /\ prev(c) \in Frames /\ prev(c) \in Nat
         /\ prev(c) + 2^order[c] = p[c]
         /\ <<prev(c), order[c]>> \in Listed(freelist)
         /\ prev(c) .. p[c] \subseteq Frames
<1> DEFINE k == order[c]
           b == <<p[c], k>>
           q == prev(c)
<1>1. /\ ~booted /\ c = BootCpu
      /\ p[c] \in Nat /\ k \in Orders /\ k < TopOrder
      /\ ByCpu(c) = {<<"cpu", c, b>>}
      /\ b \in Block /\ Span(b) \subseteq Donated
  BY MergeBoot
<1>2. 2^k \in Nat \ {0}
  BY <1>1, OrderFacts
<1>3. q = p[c] - 2^k
  <2>1. ~(k >= MaxPageOrder)
    BY <1>1, OrderFacts
  <2> QED
    BY <2>1 DEF prev, prev_page_by_order
<1>4. q \in Mapped /\ q \in Nat
  BY FrameAssumption DEF FreeHead
<1>5. q + 2^k = p[c] /\ q < p[c]
  BY <1>1, <1>2, <1>3, <1>4
<1>6. Donated \subseteq Frames
  BY DEF Donated
<1>7. p[c] \in Frames
  BY <1>1, <1>6, SpanFacts
<1>8. q \in Described
  BY <1>1, <1>3, <1>4, <1>7 DEF Sane, NoGarbageNear
<1>9. PICK j \in Orders : <<q, j>> \in Listed(freelist)
  BY <1>1, <1>4, <1>5, <1>8, FreeBlocksListed
     DEF FullInv, BootTime, FlagsTell
<1> DEFINE l == <<q, j>>
<1>10. l \in Block /\ Span(l) \subseteq Donated /\ Span(l) \cap Span(b) = {}
  BY <1>1, <1>9, ListedFrames, HandUnlisted DEF FullInv
<1>11. q \in Frames
  BY <1>6, <1>10, SpanFacts
<1>12. 2^j \in Nat \ {0} /\ 2^j <= 2^k
  <2>1. 2^j \in Nat \ {0}
    BY OrderFacts
  <2>2. Apart(l, b)
    BY <1>1, <1>10, ApartDisjoint
  <2>3. q + 2^j <= p[c] \/ p[c] + 2^k <= q
    BY <2>2 DEF Apart, B!Apart
  <2> QED
    BY <1>1, <1>2, <1>4, <1>5, <2>1, <2>3
<1>13. ~(k < j)
  BY <1>1, <1>2, <1>12, PowerAssumption
<1>14. q .. p[c] \subseteq Frames
  BY <1>1, <1>5, <1>7, <1>11 DEF Sane, WideGaps
<1>15. j >= k
  <2>1. \A a \in FreeBlocks : a[1] < p[c] /\ a[1] .. p[c] \subseteq Frames
                                => a[2] >= k
    BY <1>1 DEF FullInv, BootTime, BootInv, Combining
  <2>2. l \in FreeBlocks /\ l[1] = q /\ l[2] = j
    BY <1>9, FreeBlocksListed
  <2> QED
    BY <1>5, <1>14, <2>1, <2>2
<1>16. j = k
  BY <1>1, <1>13, <1>15, OrderFacts
<1> QED
  BY <1>4, <1>5, <1>9, <1>11, <1>14, <1>16

(* Merging with the block before.                                           *)
LEMMA StoreMerge ==
  ASSUME FullInv, Sane, NEW c \in Cpus, CombinePrev(c)
  PROVE  /\ StoreInv'
         /\ Listed(freelist') = Listed(freelist) \ {<<prev(c), order[c]>>}
<1> DEFINE k == order[c]
           q == prev(c)
           r == p[c]
           whole == <<q, k + 1>>
           low   == <<q, k>>
           high  == <<r, k>>
           x == <<"cpu", c, high>>
           y == <<"list", 0, low>>
           z == <<"cpu", c, whole>>
<1>1. Combining(c) /\ FreeHead(q)
  BY DEF CombinePrev
<1>2. /\ k \in Orders /\ k + 1 \in Orders
      /\ ByCpu(c) = {x}
      /\ high \in Block
  BY <1>1, MergeBoot
<1>3. q \in Nat /\ q + 2^k = r /\ low \in Listed(freelist)
  BY <1>1, PrevExact
<1>4. freelist \in Lists /\ NoTwice(freelist)
  BY DEF FullInv, LocalInv, TypeOK, Lists, StoreInv
<1>5. freelist' = [j \in Orders |-> list_del(freelist[j], q)]
  BY DEF CombinePrev
<1>6. Alone(c) /\ held' = held /\ Donated' = Donated
  BY DEF Alone, CombinePrev, Donated, stage, FullInv, LocalInv, TypeOK
<1>7. ByCpu(c)' = {z}
  <2>1. /\ pc'[c] = "free_combine" /\ p'[c] = q /\ order'[c] = k + 1
    BY DEF CombinePrev, Combining, FullInv, LocalInv, TypeOK
  <2>2. Freeing(c)' /\ ~Allocating(c)'
    BY <1>2, <1>3, <2>1, OrderFacts DEF Freeing, Allocating
  <2> QED
    BY <2>1, <2>2 DEF ByCpu, InHand, Hand
<1>8. /\ whole \in Block /\ low \in Block
      /\ Span(whole) = Span(low) \cup Span(high)
  BY <1>2, <1>3, Halves
<1> HIDE DEF k, q, r
<1>9. ASSUME NEW b \in Listed(freelist), b[1] = q
      PROVE  b = low
  <2>1. <<"list", 0, b>> \in Claims /\ y \in Claims
    <3>1. /\ <<"list", 0, b>> \in ByList(Listed(freelist))
          /\ y \in ByList(Listed(freelist))
      BY <1>3, TagFacts
    <3> QED
      BY <3>1, ClaimsParts
  <2>2. b # low => <<"list", 0, b>> # y
    OBVIOUS
  <2>3. b # low => Span(b) \cap Span(low) = {}
    BY <2>1, <2>2 DEF FullInv, StoreInv, StoreOK
  <2>4. b \in Block
    BY ListedFrames DEF FullInv
  <2>5. q \in Span(b) /\ q \in Span(low)
    BY <1>8, <1>9, <2>4, SpanFacts
  <2> QED
    BY <2>3, <2>5
<1>10. /\ NoTwice(freelist')
       /\ Listed(freelist') = {b \in Listed(freelist) : b[1] # q}
  BY ONLY <1>3, <1>4, <1>5, ListsDelAll
<1>11. low[1] = q
  OBVIOUS
<1> HIDE DEF whole, low, high
<1>12. Listed(freelist') = Listed(freelist) \ {low}
  BY <1>9, <1>10, <1>11
<1>13. Claims' = (Claims \ {x, y}) \cup {z}
  <2>1. Claims = ByList(Listed(freelist)) \cup ByCaller(held)
                   \cup ByOthers(c) \cup {x}
    BY <1>2, ClaimsParts
  <2>2. Claims' = ByList(Listed(freelist')) \cup ByCaller(held')
                    \cup ByOthers(c) \cup ByCpu(c)'
    BY <1>6, ClaimsAfter
  <2>3. ByList(Listed(freelist')) = ByList(Listed(freelist)) \ {y}
    BY <1>12, TagFacts
  <2>4. /\ x \notin ByList(Listed(freelist)) /\ x \notin ByCaller(held)
        /\ x \notin ByOthers(c)
        /\ y \notin ByCaller(held) /\ y \notin ByOthers(c)
    BY TagFacts
  <2> QED
    BY ONLY <2>1, <2>2, <2>3, <2>4, <1>6, <1>7
<1>14. StoreOK((Claims \ {x, y}) \cup {z}, Donated)
  <2>1. {x, y} \in SUBSET Claims
    <3>1. y \in ByList(Listed(freelist))
      BY <1>3, TagFacts
    <3> QED
      BY <1>2, <3>1, ClaimsParts
  <2>2. \A f : (\E v \in {z} : f \in Span(v[3]))
                 <=> (\E v \in {x, y} : f \in Span(v[3]))
    BY <1>8
  <2>3. /\ \A v \in {z} : v[3] \in Block
        /\ \A v, w \in {z} : v # w => Span(v[3]) \cap Span(w[3]) = {}
    BY <1>8
  <2> HIDE DEF x, y, z
  <2> QED
    BY <2>1, <2>2, <2>3, Replace DEF FullInv, StoreInv
<1>15. StoreInv'
  BY <1>6, <1>10, <1>13, <1>14, StoreNext
<1> QED
  BY <1>12, <1>15 DEF low, q, k

(* Every step keeps each frame in exactly one block.                        *)
LEMMA StoreStep == FullInv /\ Sane /\ [Next]_vars => StoreInv'
<1> SUFFICES ASSUME FullInv, Sane, [Next]_vars PROVE StoreInv'
  OBVIOUS
<1> USE DEF FullInv
<1>1. ASSUME NEW c \in Cpus, Alone(c), ByCpu(c) = {}, ByCpu(c)' = {},
             freelist' = freelist, held' = held, Donated' = Donated
      PROVE  StoreInv'
  BY <1>1, Quiet
<1>2. CASE UNCHANGED vars
  <2>1. Alone(BootCpu) /\ ByCpu(BootCpu)' = ByCpu(BootCpu)
    BY <1>2 DEF vars, Alone, ByCpu, InHand, Hand, Allocating, Freeing
  <2> QED
    BY <1>2, <2>1, Quiet, CpuAssumption DEF vars, Donated
<1>3. CASE BootEnd
  <2>1. Alone(BootCpu) /\ ByCpu(BootCpu)' = ByCpu(BootCpu)
    BY <1>3
       DEF BootEnd, locals, Alone, ByCpu, InHand, Hand, Allocating, Freeing
  <2> QED
    BY <1>3, <2>1, Quiet, CpuAssumption DEF BootEnd, Donated
<1>4. ASSUME NEW f \in Frames, BootFree(f)
      PROVE  StoreInv'
  BY <1>4, StoreArrive
<1>5. ASSUME NEW c \in Cpus, NEW k \in 0 .. MaxPageOrder, AllocCall(c, k)
      PROVE  StoreInv'
  <2> USE <1>5 DEF AllocCall, Goto, stage, LocalInv, TypeOK
  <2>1. Alone(c) /\ Donated' = Donated
    BY DEF Alone, Donated
  <2>2. ByCpu(c) = {} /\ ByCpu(c)' = {}
    BY DEF ByCpu, InHand, Allocating, Freeing
  <2> QED
    BY <1>1, <2>1, <2>2
<1>6. ASSUME NEW c \in Cpus, NEW b \in held, FreeCall(c, b)
      PROVE  StoreInv'
  BY <1>6, StoreGetBack
<1>7. ASSUME NEW c \in Cpus, NEW k \in 0 .. MaxPageOrder, FreeNullCall(c, k)
      PROVE  StoreInv'
  <2> USE <1>7 DEF FreeNullCall, Goto, stage, LocalInv, TypeOK
  <2>1. Alone(c) /\ Donated' = Donated
    BY DEF Alone, Donated
  <2>2. p'[c] = NULL
    BY DEF CallInv
  <2>3. ByCpu(c) = {} /\ ByCpu(c)' = {}
    BY <2>2 DEF ByCpu, InHand, Allocating, Freeing
  <2> QED
    BY <1>1, <2>1, <2>3
<1>8. ASSUME NEW c \in Cpus, AllocLock(c) \/ AllocSkip(c) \/ AllocFail(c)
      PROVE  StoreInv'
  <2>1. Alone(c) /\ Donated' = Donated /\ freelist' = freelist /\ held' = held
    BY <1>8 DEF AllocLock, AllocSkip, AllocFail, Goto, stage, Alone, Donated,
                LocalInv, TypeOK
  <2>2. p[c] = NULL /\ p'[c] = NULL
    BY <1>8 DEF AllocLock, AllocSkip, AllocFail, Goto, LocalInv, CallInv
  <2>3. /\ pc[c] \in {"alloc_lock", "alloc_scan"}
        /\ pc'[c] \in {"alloc_lock", "alloc_scan", "alloc_unlock"}
    BY <1>8 DEF AllocLock, AllocSkip, AllocFail, Goto, LocalInv, TypeOK
  <2>4. ByCpu(c) = {} /\ ByCpu(c)' = {}
    BY <2>2, <2>3 DEF ByCpu, InHand, Allocating, Freeing
  <2> QED
    BY <1>1, <2>1, <2>4
<1>9. ASSUME NEW c \in Cpus, AllocTake(c)
      PROVE  StoreInv'
  BY <1>9, StoreTake
<1>10. ASSUME NEW c \in Cpus, AllocSplit(c)
       PROVE  StoreInv'
  BY <1>10, StoreSplit
<1>11. ASSUME NEW c \in Cpus, AllocMark(c)
       PROVE  StoreInv'
  <2> USE <1>11 DEF AllocMark, Goto, stage, LocalInv, TypeOK
  <2>1. Alone(c) /\ Donated' = Donated
    BY DEF Alone, Donated
  <2>2. ByCpu(c)' = ByCpu(c)
    BY DEF ByCpu, InHand, Hand, Allocating, Freeing
  <2> QED
    BY <2>1, <2>2, Quiet
<1>12. ASSUME NEW c \in Cpus, AllocUnlock(c)
       PROVE  StoreInv'
  BY <1>12, StoreGive
<1>13. ASSUME NEW c \in Cpus, FreeLock(c)
       PROVE  StoreInv'
  <2> USE <1>13 DEF FreeLock, Goto, stage, LocalInv, TypeOK
  <2>1. Alone(c) /\ Donated' = Donated
    BY DEF Alone, Donated
  <2>2. ByCpu(c)' = ByCpu(c)
    BY DEF ByCpu, InHand, Hand, Allocating, Freeing
  <2> QED
    BY <2>1, <2>2, Quiet DEF pages
<1>14. ASSUME NEW c \in Cpus, FreeReject(c)
       PROVE  StoreInv'
  <2> USE <1>14 DEF FreeReject, Goto, stage, LocalInv, TypeOK
  <2>1. Alone(c) /\ Donated' = Donated
    BY DEF Alone, Donated
  <2>2. ByCpu(c) = {} /\ ByCpu(c)' = {}
    BY OrderFacts DEF ByCpu, InHand, Allocating, Freeing
  <2> QED
    BY <1>1, <2>1, <2>2
<1>15. ASSUME NEW c \in Cpus, CombineNext(c)
       PROVE  StoreInv'
  BY <1>15, NextNotFree DEF CombineNext
<1>16. ASSUME NEW c \in Cpus, CombinePrev(c)
       PROVE  StoreInv'
  BY <1>16, StoreMerge
<1>17. ASSUME NEW c \in Cpus, FreeInsert(c)
       PROVE  StoreInv'
  BY <1>17, StoreInsert
<1>18. ASSUME NEW c \in Cpus, FreeUnlock(c)
       PROVE  StoreInv'
  <2> USE <1>18 DEF FreeUnlock, Return, Goto, stage, LocalInv, TypeOK
  <2>1. Alone(c) /\ Donated' = Donated
    BY DEF Alone, Donated
  <2>2. ByCpu(c) = {} /\ ByCpu(c)' = {}
    BY DEF ByCpu, InHand, Allocating, Freeing
  <2> QED
    BY <1>1, <2>1, <2>2
<1> QED
  BY <1>2, <1>3, <1>4, <1>5, <1>6, <1>7, <1>8, <1>9, <1>10, <1>11, <1>12,
     <1>13, <1>14, <1>15, <1>16, <1>17, <1>18
     DEF Next, Boot, Work, Call

-----------------------------------------------------------------------------
(* Boot.                                                                    *)

(* FlagsTell for one page.                                                  *)
OnList(q)  == \E k \in Orders : <<q, k>> \in Listed(freelist)
FlagOK(q)  == /\ OnList(q) => FreeHead(q)
              /\ FreeHead(q) => OnList(q) \/ q = p[BootCpu]

LEMMA FlagsAll == FlagsTell <=> (~booted => \A q \in Described : FlagOK(q))
BY DEF FlagsTell, FlagOK, OnList, FreeBlocks, Listed

(* The facts of BootInv while a block is in hand.                           *)
LEMMA BootHand ==
  ASSUME FullInv, ~booted, pc[BootCpu] \in {"free_lock", "free_combine"}
  PROVE  LET c == BootCpu IN
         /\ c \in Cpus
         /\ p[c] \in Nat /\ order[c] \in Orders
         /\ ByCpu(c) = {<<"cpu", c, <<p[c], order[c]>>>>}
         /\ <<p[c], order[c]>> \in Block
         /\ Span(<<p[c], order[c]>>) \subseteq Donated
         /\ p[c] + 2^order[c] = frontier
         /\ p[c] \in Frames
         /\ ~OnList(p[c])
<1> DEFINE c == BootCpu
           b == <<p[c], order[c]>>
<1>1. c \in Cpus
  BY CpuAssumption
<1>2. Freeing(c) /\ p[c] + 2^order[c] = frontier
  BY DEF FullInv, BootTime, BootInv
<1>3. p[c] \in Nat /\ order[c] \in Orders
  BY <1>1, <1>2, OrderFacts DEF Freeing, FullInv, LocalInv, TypeOK
<1>4. ~Allocating(c)
  BY DEF Allocating
<1>5. ByCpu(c) = {<<"cpu", c, b>>}
  BY <1>2, <1>4 DEF ByCpu, InHand, Hand
<1>6. /\ b \in Block /\ Span(b) \subseteq Donated
      /\ \A l \in Listed(freelist) : l \in Block /\ Span(l) \cap Span(b) = {}
  BY <1>1, <1>5, HandUnlisted DEF FullInv
<1>7. p[c] \in Span(b)
  BY <1>6, SpanFacts
<1>8. p[c] \in Frames
  BY <1>6, <1>7 DEF Donated
<1>9. ASSUME NEW k \in Orders, <<p[c], k>> \in Listed(freelist)
      PROVE  FALSE
  <2>1. p[c] \in Span(<<p[c], k>>)
    BY <1>6, <1>9, SpanFacts
  <2> QED
    BY <1>6, <1>7, <1>9, <2>1
<1> QED
  BY <1>1, <1>2, <1>3, <1>5, <1>6, <1>8, <1>9 DEF OnList

(* Every block before the one that __free_pages inserts is larger.          *)
LEMMA StairInsert ==
  ASSUME FullInv, Sane, ~booted, FreeInsert(BootCpu),
         NEW a \in Listed(freelist), a[1] < p[BootCpu],
         a[1] .. p[BootCpu] \subseteq Frames
  PROVE  a[2] > order[BootCpu] \/ a[2] = TopOrder
<1> DEFINE c == BootCpu
           k == order[c]
           b == <<p[c], k>>
<1>1. pc[c] = "free_combine"
  BY DEF FreeInsert, Goto
<1>2. /\ c \in Cpus /\ p[c] \in Nat /\ k \in Orders
      /\ ByCpu(c) = {<<"cpu", c, b>>}
      /\ b \in Block /\ Span(b) \subseteq Donated
      /\ p[c] + 2^k = frontier /\ p[c] \in Frames /\ 2^k \in Nat \ {0}
  BY <1>1, BootHand, OrderFacts
<1>3. a \in Block /\ a[1] \in Nat /\ a[2] \in Orders
  BY ListedFrames, SpanFacts DEF FullInv
<1>4. \A l \in FreeBlocks : l[1] < p[c] /\ l[1] .. p[c] \subseteq Frames
                              => l[2] >= k
  BY <1>1 DEF FullInv, BootTime, BootInv
<1>5. a[2] >= k
  BY <1>4, FreeBlocksListed
<1>6. CASE k = TopOrder
  BY <1>3, <1>5, <1>6, OrderFacts
<1>7. CASE k # TopOrder
  <2>1. k < TopOrder /\ ~FreeHead(prev(c))
    <3>1. k < TopOrder
      BY <1>2, <1>7, OrderFacts
    <3> QED
      BY <3>1 DEF FreeInsert
  <2>2. prev(c) = p[c] - 2^k
    <3>1. ~(k >= MaxPageOrder)
      BY <1>2, OrderFacts
    <3> QED
      BY <3>1 DEF prev, prev_page_by_order
  <2> DEFINE e == p[c] - 1
  <2>3. e \in Nat /\ a[1] <= e /\ e < p[c] /\ e \in a[1] .. p[c]
    BY <1>2, <1>3
  <2>4. e \in Donated
    <3>1. e \in Frames /\ e < frontier
      BY <1>2, <2>3
    <3> QED
      BY <3>1 DEF Donated
  <2>5. PICK l \in Listed(freelist) : e \in Span(l)
    <3>1. PICK x \in Claims : e \in Span(x[3])
      BY <2>4 DEF FullInv, StoreInv, StoreOK
    <3>2. ByOthers(c) = {} /\ held = {}
      BY DEF FullInv, BootTime, BootInv, ByOthers, InHand, Allocating, Freeing
    <3>3. x \in ByList(Listed(freelist)) \/ x = <<"cpu", c, b>>
      BY <1>2, <3>2, ClaimsParts DEF ByCaller
    <3>4. e \notin Span(b)
      BY <1>2, <2>3, SpanFacts
    <3>5. x \in ByList(Listed(freelist))
      BY <3>1, <3>3, <3>4
    <3> QED
      BY <3>1, <3>5 DEF ByList
  <2>6. /\ l \in Block /\ Span(l) \subseteq Donated
        /\ l[1] \in Nat /\ l[2] \in Orders /\ 2^l[2] \in Nat \ {0}
        /\ l = <<l[1], l[2]>>
    BY ListedFrames, SpanFacts DEF FullInv
  <2>7. l[1] + 2^l[2] = p[c]
    <3>1. Span(l) \cap Span(b) = {}
      BY <1>2, HandUnlisted DEF FullInv
    <3>2. Apart(l, b)
      BY <1>2, <2>6, <3>1, ApartDisjoint
    <3>3. l[1] + 2^l[2] <= p[c] \/ p[c] + 2^k <= l[1]
      BY <3>2 DEF Apart, B!Apart
    <3>4. l[1] <= e /\ e < l[1] + 2^l[2]
      BY <2>5, <2>6, SpanFacts
    <3> QED
      BY <1>2, <2>3, <2>6, <3>3, <3>4
  <2>8. l[1] < p[c] /\ l[1] .. p[c] \subseteq Frames
    <3>1. \A g \in l[1] .. p[c] : g \in Span(l) \/ g = p[c]
      BY <1>2, <2>6, <2>7, SpanFacts
    <3>2. Span(l) \subseteq Frames
      BY <2>6 DEF Donated
    <3> QED
      BY <1>2, <2>6, <2>7, <3>1, <3>2
  <2>9. l[2] >= k
    BY <1>4, <2>8, FreeBlocksListed
  <2>10. l[2] # k
    <3> SUFFICES ASSUME l[2] = k PROVE FALSE
      OBVIOUS
    <3>1. l[1] = prev(c)
      BY <1>2, <2>2, <2>6, <2>7
    <3>2. l[1] \in Described /\ OnList(l[1])
      <4>1. l[1] \in Span(l)
        BY <2>6, SpanFacts
      <4>2. l[1] \in Described
        BY <2>6, <4>1, FrameAssumption DEF Donated
      <4> QED
        BY <2>6, <4>2 DEF OnList
    <3>3. FreeHead(l[1])
      BY <3>2, FlagsAll DEF FullInv, BootTime, FlagOK
    <3> QED
      BY <2>1, <3>1, <3>3
  <2>11. l[2] > k
    BY <1>2, <2>6, <2>9, <2>10, OrderFacts
  <2>12. CASE a = l
    BY <2>11, <2>12
  <2>13. CASE a # l
    <3>1. Span(a) \cap Span(l) = {}
      <4>1. /\ <<"list", 0, a>> \in ByList(Listed(freelist))
            /\ <<"list", 0, l>> \in ByList(Listed(freelist))
            /\ <<"list", 0, a>> # <<"list", 0, l>>
        BY <2>13, TagFacts
      <4> QED
        BY <1>2, <4>1, ClaimsParts DEF FullInv, StoreInv, StoreOK
    <3>2. Apart(a, l)
      BY <1>3, <2>6, <3>1, ApartDisjoint
    <3>3. 2^a[2] \in Nat \ {0}
      BY <1>3, OrderFacts
    <3>4. a[1] + 2^a[2] <= l[1] \/ p[c] <= a[1]
      BY <2>7, <3>2 DEF Apart, B!Apart
    <3>5. a[1] < l[1] /\ a[1] .. l[1] \subseteq Frames
      BY <1>2, <1>3, <2>6, <2>8, <3>3, <3>4
    <3>6. a[2] > l[2] \/ a[2] = TopOrder
      BY <3>5, FreeBlocksListed DEF FullInv, BootTime, Staircase
    <3> QED
      BY <1>2, <1>3, <2>6, <2>11, <3>6, OrderFacts
  <2> QED
    BY <2>12, <2>13
<1> QED
  BY <1>6, <1>7

(* BootTime after a step, in terms of Listed.                               *)
LEMMA BootTimeAll ==
  ASSUME held' = {},
         \A c \in Cpus \ {BootCpu} : pc'[c] = "idle",
         pc'[BootCpu] \in {"idle", "free_lock", "free_combine", "free_unlock"},
         pc'[BootCpu] \in {"free_lock", "free_combine"} =>
           /\ Freeing(BootCpu)'
           /\ p'[BootCpu] + 2^order'[BootCpu] = frontier'
           /\ \A b \in Listed(freelist') :
                b[1] < p'[BootCpu] /\ b[1] .. p'[BootCpu] \subseteq Frames
                  => b[2] >= order'[BootCpu],
         pc'[BootCpu] = "free_unlock" =>
           <<p'[BootCpu], order'[BootCpu]>> \in Listed(freelist'),
         \A q \in Described : FlagOK(q)',
         \A b1, b2 \in Listed(freelist') :
           b1[1] < b2[1] /\ b1[1] .. b2[1] \subseteq Frames =>
             b1[2] > b2[2] \/ b1[2] = TopOrder
  PROVE  BootTime'
<1>1. FreeBlocks' = Listed(freelist')
  BY DEF FreeBlocks, Listed
<1>2. BootInv'
  BY <1>1 DEF BootInv
<1>3. FlagsTell'
  BY DEF FlagsTell, FlagOK, OnList, FreeBlocks, Listed
<1>4. Staircase'
  BY <1>1 DEF Staircase
<1> QED
  BY <1>2, <1>3, <1>4 DEF BootTime

(* What BootTime says while the machine boots.                              *)
LEMMA BootTimeFacts ==
  ASSUME FullInv, ~booted
  PROVE  /\ BootCpu \in Cpus
         /\ held = {}
         /\ \A c \in Cpus \ {BootCpu} : pc[c] = "idle"
         /\ pc[BootCpu] \in {"idle", "free_lock", "free_combine", "free_unlock"}
         /\ \A q \in Described : FlagOK(q)
         /\ \A b1, b2 \in Listed(freelist) :
              b1[1] < b2[1] /\ b1[1] .. b2[1] \subseteq Frames =>
                b1[2] > b2[2] \/ b1[2] = TopOrder
         /\ \A b \in Listed(freelist) : b \in Block /\ Span(b) \subseteq Donated
<1>1. \A b \in Listed(freelist) : b \in Block /\ Span(b) \subseteq Donated
  BY ListedFrames DEF FullInv
<1>2. /\ \A q \in Described : FlagOK(q)
      /\ \A b1, b2 \in Listed(freelist) :
           b1[1] < b2[1] /\ b1[1] .. b2[1] \subseteq Frames =>
             b1[2] > b2[2] \/ b1[2] = TopOrder
  BY FlagsAll, FreeBlocksListed DEF FullInv, BootTime, Staircase
<1> QED
  BY <1>1, <1>2, CpuAssumption DEF FullInv, BootTime, BootInv

(* The flags say the same as before if neither they nor the lists change.   *)
LEMMA FlagKeep ==
  ASSUME freelist' = freelist, is_free' = is_free, is_head' = is_head,
         NEW q, FlagOK(q), p'[BootCpu] = p[BootCpu] \/ q # p[BootCpu]
                                                   \/ OnList(q)
  PROVE  FlagOK(q)'
BY DEF FlagOK, OnList, FreeHead, Listed

LEMMA BootFreeStep ==
  ASSUME FullInv, Sane, NEW f \in Frames, BootFree(f)
  PROVE  BootTime'
<1> DEFINE c == BootCpu
<1>1. /\ ~booted /\ pc[c] = "idle" /\ f >= frontier
      /\ freelist' = freelist /\ is_free' = is_free /\ is_head' = is_head
      /\ held' = held
  BY DEF BootFree, Goto, pages
<1>2. /\ c \in Cpus /\ f \in Nat /\ 0 \in Orders /\ 2^0 = 1
  BY CpuAssumption, FrameAssumption, OrderFacts, PowerAssumption
<1>3. /\ pc'[c] = "free_lock" /\ p'[c] = f /\ order'[c] = 0
      /\ frontier' = f + 1
      /\ \A d \in Cpus \ {c} : pc'[d] = pc[d]
  BY <1>2 DEF BootFree, Goto, FullInv, LocalInv, TypeOK
<1>4. p[c] = NULL
  BY <1>1, <1>2 DEF FullInv, LocalInv, CallInv
<1>5. \A q \in Described : FlagOK(q)'
  <2> TAKE q \in Described
  <2>1. q # p[c]
    BY <1>4, FrameAssumption, OrderFacts
  <2> QED
    BY <1>1, <2>1, BootTimeFacts, FlagKeep
<1>6. Freeing(c)'
  BY <1>2, <1>3, OrderFacts DEF Freeing
<1>7. Listed(freelist') = Listed(freelist)
  BY <1>1
<1>8. \A b \in Listed(freelist') : b[2] >= order'[c]
  BY <1>1, <1>3, <1>7, BootTimeFacts, OrderFacts DEF Block
<1> QED
  BY <1>1, <1>2, <1>3, <1>5, <1>6, <1>7, <1>8, BootTimeFacts, BootTimeAll

LEMMA BootLockStep ==
  ASSUME FullInv, Sane, ~booted, FreeLock(BootCpu)
  PROVE  BootTime'
<1> DEFINE c == BootCpu
<1>1. /\ pc[c] = "free_lock"
      /\ freelist' = freelist /\ is_free' = is_free /\ is_head' = is_head
      /\ held' = held /\ p' = p /\ order' = order /\ frontier' = frontier
  BY DEF FreeLock, Goto, pages, stage
<1>2. /\ pc'[c] = "free_combine" /\ \A d \in Cpus \ {c} : pc'[d] = pc[d]
  BY CpuAssumption DEF FreeLock, Goto, FullInv, LocalInv, TypeOK
<1>3. \A q \in Described : FlagOK(q)'
  BY <1>1, BootTimeFacts, FlagKeep
<1>4. /\ Freeing(c) /\ p[c] + 2^order[c] = frontier
      /\ \A b \in Listed(freelist) :
           b[1] < p[c] /\ b[1] .. p[c] \subseteq Frames => b[2] >= order[c]
  BY <1>1, FreeBlocksListed DEF FullInv, BootTime, BootInv
<1>5. Freeing(c)'
  BY <1>1, <1>2, <1>4 DEF Freeing
<1>6. Listed(freelist') = Listed(freelist)
  BY <1>1
<1> QED
  BY <1>1, <1>2, <1>3, <1>4, <1>5, <1>6, BootTimeFacts, BootTimeAll

LEMMA BootMergeStep ==
  ASSUME FullInv, Sane, ~booted, CombinePrev(BootCpu)
  PROVE  BootTime'
<1> DEFINE c == BootCpu
           k == order[c]
           l == <<prev(c), k>>
<1>1. /\ Combining(c) /\ pc[c] = "free_combine" /\ c \in Cpus
      /\ held' = held /\ frontier' = frontier /\ pc' = pc
      /\ FreeHead(prev(c))
  BY CpuAssumption DEF CombinePrev, Combining, stage
<1>2. /\ p[c] \in Nat /\ k \in Orders /\ k + 1 \in Orders /\ k < TopOrder
      /\ p[c] + 2^k = frontier
  BY <1>1, MergeBoot
<1>3. /\ prev(c) \in Frames /\ prev(c) \in Nat /\ prev(c) + 2^k = p[c]
      /\ l \in Listed(freelist)
  BY <1>1, PrevExact
<1>4. Listed(freelist') = Listed(freelist) \ {l}
  BY <1>1, StoreMerge
<1>5. p'[c] = prev(c) /\ order'[c] = k + 1
  BY <1>1 DEF CombinePrev, FullInv, LocalInv, TypeOK
<1>6. /\ 2^k \in Nat \ {0} /\ 2^(k + 1) = 2 * 2^k
      /\ p'[c] + 2^order'[c] = frontier
  <2>1. 2^k \in Nat \ {0} /\ 2^(k + 1) = 2 * 2^k
    BY <1>2, PowerAssumption
  <2> QED
    BY <1>2, <1>3, <1>5, <2>1
<1>7. Freeing(c)'
  BY <1>1, <1>2, <1>3, <1>5, OrderFacts DEF Freeing
<1>8. ASSUME NEW b \in Listed(freelist'), b[1] < p'[c],
             b[1] .. p'[c] \subseteq Frames
      PROVE  b[2] >= order'[c]
  <2>1. b \in Listed(freelist) /\ b[2] \in Orders
    BY <1>4, BootTimeFacts DEF Block
  <2>2. l[1] = prev(c) /\ l[2] = k
    OBVIOUS
  <2>3. b[2] > k \/ b[2] = TopOrder
    BY <1>3, <1>5, <1>8, <2>1, <2>2, BootTimeFacts
  <2> QED
    BY <1>2, <1>5, <2>1, <2>3, OrderFacts
<1>9. ASSUME NEW q \in Described
      PROVE  FlagOK(q)'
  <2>1. q \in Mapped /\ is_head' = [is_head EXCEPT ![p[c]] = FALSE]
        /\ is_free' = [is_free EXCEPT ![p[c]] = TRUE]
    BY FrameAssumption DEF CombinePrev
  <2>2. FlagOK(q)
    BY BootTimeFacts
  <2>3. OnList(q)' <=> \E j \in Orders : <<q, j>> \in Listed(freelist')
    BY DEF OnList, Listed
  <2>4. OnList(q)' => OnList(q)
    BY <1>4, <2>3 DEF OnList
  <2>5. CASE q = p[c]
    <3>1. ~OnList(q)
      BY <1>1, <2>5, BootHand
    <3>2. ~FreeHead(q)'
      BY <2>1, <2>5 DEF FreeHead, FullInv, LocalInv, TypeOK
    <3> QED
      BY <2>4, <3>1, <3>2 DEF FlagOK
  <2>6. CASE q # p[c]
    <3>1. FreeHead(q)' <=> FreeHead(q)
      BY <2>1, <2>6 DEF FreeHead, FullInv, LocalInv, TypeOK
    <3>2. OnList(q) => OnList(q)' \/ q = prev(c)
      BY <1>4, <2>3 DEF OnList
    <3> QED
      BY <1>5, <2>2, <2>4, <2>6, <3>1, <3>2 DEF FlagOK
  <2> QED
    BY <2>5, <2>6
<1>10. \A b1, b2 \in Listed(freelist') :
         b1[1] < b2[1] /\ b1[1] .. b2[1] \subseteq Frames =>
           b1[2] > b2[2] \/ b1[2] = TopOrder
  BY <1>4, BootTimeFacts
<1> HIDE DEF k, l
<1> QED
  BY <1>1, <1>6, <1>7, <1>8, <1>9, <1>10, BootTimeFacts, BootTimeAll

LEMMA BootInsertStep ==
  ASSUME FullInv, Sane, ~booted, FreeInsert(BootCpu)
  PROVE  BootTime'
<1> DEFINE c == BootCpu
           b == <<p[c], order[c]>>
<1>1. /\ pc[c] = "free_combine"
      /\ held' = held /\ p' = p /\ order' = order
      /\ is_free' = [is_free EXCEPT ![p[c]] = TRUE]
      /\ is_head' = [is_head EXCEPT ![p[c]] = TRUE]
      /\ freelist' = [freelist EXCEPT ![order[c]] = list_add_next(@, p[c])]
  BY DEF FreeInsert, Goto
<1>2. /\ c \in Cpus /\ p[c] \in Nat /\ order[c] \in Orders
      /\ ByCpu(c) = {<<"cpu", c, b>>} /\ b \in Block
      /\ p[c] + 2^order[c] = frontier /\ p[c] \in Frames /\ ~OnList(p[c])
  BY <1>1, BootHand
<1>3. /\ pc'[c] = "free_unlock" /\ \A d \in Cpus \ {c} : pc'[d] = pc[d]
  BY <1>2 DEF FreeInsert, Goto, FullInv, LocalInv, TypeOK
<1>4. Listed(freelist') = Listed(freelist) \cup {b}
  BY <1>2, InsertListed DEF FullInv, OnList
<1>5. b[1] = p[c] /\ b[2] = order[c]
  OBVIOUS
<1>6. ASSUME NEW q \in Described
      PROVE  FlagOK(q)'
  <2>1. q \in Mapped /\ FlagOK(q)
    BY BootTimeFacts, FrameAssumption
  <2>2. OnList(q)' <=> \E j \in Orders : <<q, j>> \in Listed(freelist')
    BY DEF OnList, Listed
  <2>3. OnList(q)' <=> OnList(q) \/ q = p[c]
    BY <1>2, <1>4, <2>2 DEF OnList
  <2>4. CASE q = p[c]
    <3>1. FreeHead(q)'
      BY <1>1, <2>1, <2>4 DEF FreeHead, FullInv, LocalInv, TypeOK
    <3> QED
      BY <2>3, <2>4, <3>1 DEF FlagOK
  <2>5. CASE q # p[c]
    <3>1. FreeHead(q)' <=> FreeHead(q)
      BY <1>1, <2>1, <2>5 DEF FreeHead, FullInv, LocalInv, TypeOK
    <3> QED
      BY <2>1, <2>3, <2>5, <3>1 DEF FlagOK
  <2> QED
    BY <2>4, <2>5
<1>7. ASSUME NEW b1 \in Listed(freelist'), NEW b2 \in Listed(freelist'),
             b1[1] < b2[1], b1[1] .. b2[1] \subseteq Frames
      PROVE  b1[2] > b2[2] \/ b1[2] = TopOrder
  <2>1. CASE b1 \in Listed(freelist) /\ b2 \in Listed(freelist)
    BY <1>7, <2>1, BootTimeFacts
  <2>2. CASE b1 \in Listed(freelist) /\ b2 = b
    <3> HIDE DEF b
    <3> QED
      BY <1>5, <1>7, <2>2, StairInsert
  <2>3. CASE b1 = b /\ b2 \in Listed(freelist)
    <3>1. b2 \in Block /\ Span(b2) \subseteq Donated
          /\ Span(b2) \cap Span(b) = {}
      BY <1>2, <2>3, HandUnlisted, BootTimeFacts DEF FullInv
    <3>2. b2[1] \in Span(b2) /\ b2[1] \in Nat
      BY <3>1, SpanFacts
    <3>3. b2[1] < frontier
      BY <3>1, <3>2 DEF Donated
    <3>4. b2[1] \in Span(b)
      BY <1>2, <1>5, <1>7, <2>3, <3>2, <3>3, SpanFacts
    <3> QED
      BY <3>1, <3>2, <3>4
  <2>4. CASE b1 = b /\ b2 = b
    BY <1>2, <1>5, <1>7, <2>4
  <2> QED
    BY <1>4, <2>1, <2>2, <2>3, <2>4
<1>8. <<p'[c], order'[c]>> \in Listed(freelist')
  BY <1>1, <1>4
<1> HIDE DEF b
<1> QED
  BY <1>1, <1>2, <1>3, <1>6, <1>7, <1>8, BootTimeFacts, BootTimeAll

LEMMA BootUnlockStep ==
  ASSUME FullInv, Sane, ~booted, FreeUnlock(BootCpu)
  PROVE  BootTime'
<1> DEFINE c == BootCpu
<1>1. /\ pc[c] = "free_unlock"
      /\ freelist' = freelist /\ is_free' = is_free /\ is_head' = is_head
      /\ held' = held
  BY DEF FreeUnlock, Return, Goto, pages
<1>2. /\ pc'[c] = "idle" /\ \A d \in Cpus \ {c} : pc'[d] = pc[d]
  BY CpuAssumption DEF FreeUnlock, Return, Goto, FullInv, LocalInv, TypeOK
<1>3. OnList(p[c])
  <2>1. <<p[c], order[c]>> \in Listed(freelist)
    BY <1>1, FreeBlocksListed DEF FullInv, BootTime, BootInv
  <2> QED
    BY <2>1, ListedBlock, BootTimeFacts DEF OnList, Block
<1>4. \A q \in Described : FlagOK(q)'
  BY <1>1, <1>3, BootTimeFacts, FlagKeep
<1>5. Listed(freelist') = Listed(freelist)
  BY <1>1
<1> QED
  BY <1>1, <1>2, <1>4, <1>5, BootTimeFacts, BootTimeAll

(* Each step of the boot phase.                                             *)
LEMMA BootStep == FullInv /\ Sane /\ [Next]_vars => BootTime'
<1> SUFFICES ASSUME FullInv, Sane, [Next]_vars PROVE BootTime'
  OBVIOUS
<1>1. CASE UNCHANGED vars
  BY <1>1 DEF FullInv, BootTime, BootInv, FlagsTell, Staircase, vars, Freeing,
              FreeBlocks, FreeHead
<1>2. CASE booted'
  BY <1>2 DEF BootTime, BootInv, FlagsTell, Staircase
<1>3. CASE ~booted' /\ Next
  <2>1. ASSUME NEW f \in Frames, BootFree(f)
        PROVE  BootTime'
    BY <2>1, BootFreeStep
  <2>2. CASE BootEnd
    BY <1>3, <2>2 DEF BootEnd
  <2>3. ASSUME NEW c \in Cpus, Call(c)
        PROVE  BootTime'
    BY <1>3, <2>3 DEF Call, AllocCall, FreeNullCall, FreeCall, stage
  <2>4. ASSUME NEW c \in Cpus, Work(c)
        PROVE  BootTime'
    <3>1. ~booted
      BY <1>3, <2>4
         DEF Work, AllocLock, AllocSkip, AllocTake, AllocFail, AllocSplit,
             AllocMark, AllocUnlock, FreeLock, FreeReject, CombineNext,
             CombinePrev, FreeInsert, FreeUnlock, stage
    <3>2. pc[c] \notin {"alloc_lock", "alloc_scan", "alloc_split",
                        "alloc_unlock"}
      BY <3>1, BootTimeFacts
    <3>3. \/ FreeLock(c) \/ FreeReject(c) \/ CombineNext(c) \/ CombinePrev(c)
          \/ FreeInsert(c) \/ FreeUnlock(c)
      BY <2>4, <3>2
         DEF Work, AllocLock, AllocSkip, AllocTake, AllocFail, AllocSplit,
             AllocMark, AllocUnlock, Return, Goto
    <3>4. pc[c] # "idle"
      BY <3>3 DEF FreeLock, FreeReject, CombineNext, CombinePrev, FreeInsert,
                  FreeUnlock, Combining, Return, Goto
    <3>5. c = BootCpu
      BY <3>1, <3>4, BootTimeFacts
    <3>6. ~FreeReject(c)
      BY <3>1, <3>5, BootHand, OrderFacts DEF FreeReject, Goto
    <3>7. ~CombineNext(c)
      BY NextNotFree DEF CombineNext
    <3> QED
      BY <3>1, <3>3, <3>5, <3>6, <3>7, BootLockStep, BootMergeStep,
         BootInsertStep, BootUnlockStep
  <2> QED
    BY <1>3, <2>1, <2>2, <2>3, <2>4 DEF Next, Boot
<1> QED
  BY <1>1, <1>2, <1>3

(* Callers give back what they may, and the boot loop is over before they   *)
(* do.                                                                      *)
LEMMA GivenBackStep == FullInv /\ Sane /\ [Next]_vars => GivenBack'
<1> SUFFICES ASSUME FullInv, Sane, [Next]_vars PROVE GivenBack'
  OBVIOUS
<1>1. ASSUME NEW c \in Cpus, Alone(c), booted' = booted,
             booted /\ Freeing(c)' => order'[c] \in Returnable
      PROVE  GivenBack'
  <2> SUFFICES ASSUME NEW d \in Cpus
               PROVE  booted' /\ Freeing(d)' => order'[d] \in Returnable
    BY DEF GivenBack
  <2>1. CASE d = c
    BY <1>1, <2>1
  <2>2. CASE d # c
    BY <1>1, <2>2, OthersKeep DEF Alone, FullInv, GivenBack
  <2> QED
    BY <2>1, <2>2
<1>2. CASE UNCHANGED vars
  BY <1>2 DEF vars, FullInv, GivenBack, Freeing
<1>3. CASE Boot
  <2>1. CASE BootEnd
    <3>1. \A c \in Cpus : pc'[c] = "idle"
      BY <2>1, BootTimeFacts DEF BootEnd, locals
    <3> QED
      BY <3>1 DEF GivenBack, Freeing
  <2>2. ASSUME NEW f \in Frames, BootFree(f)
        PROVE  GivenBack'
    BY <2>2 DEF BootFree, GivenBack
  <2> QED
    BY <1>3, <2>1, <2>2 DEF Boot
<1>4. ASSUME NEW c \in Cpus, Call(c)
      PROVE  GivenBack'
  <2>1. ASSUME NEW k \in 0 .. MaxPageOrder,
               AllocCall(c, k) \/ FreeNullCall(c, k)
        PROVE  GivenBack'
    <3>1. Alone(c) /\ booted' = booted
      BY <2>1 DEF Alone, AllocCall, FreeNullCall, Goto, stage, FullInv,
                  LocalInv, TypeOK
    <3>2. pc'[c] = "alloc_lock" \/ p'[c] = NULL
      BY <2>1 DEF AllocCall, FreeNullCall, Goto, FullInv, LocalInv, TypeOK,
                  CallInv
    <3> QED
      BY <1>1, <3>1, <3>2 DEF Freeing
  <2>2. ASSUME NEW b \in held, FreeCall(c, b)
        PROVE  GivenBack'
    <3>1. Alone(c) /\ booted' = booted
      BY <2>2 DEF Alone, FreeCall, Goto, stage, FullInv, LocalInv, TypeOK
    <3>2. order'[c] \in Returnable
      BY <2>2 DEF FreeCall, FullInv, LocalInv, TypeOK
    <3> QED
      BY <1>1, <3>1, <3>2
  <2> QED
    BY <1>4, <2>1, <2>2 DEF Call
<1>5. ASSUME NEW c \in Cpus, Work(c)
      PROVE  GivenBack'
  <2>1. CASE CombineNext(c) \/ CombinePrev(c)
    <3>1. ~booted /\ booted' = booted
      BY <2>1, MergeBoot DEF CombineNext, CombinePrev, stage
    <3> QED
      BY <3>1 DEF GivenBack
  <2>2. CASE FreeLock(c)
    <3>1. Alone(c) /\ booted' = booted /\ p' = p /\ order' = order
      BY <2>2 DEF Alone, FreeLock, Goto, stage, FullInv, LocalInv, TypeOK
    <3>2. Freeing(c)' => Freeing(c)
      BY <2>2, <3>1 DEF Freeing, FreeLock, Goto
    <3>3. booted /\ Freeing(c) => order[c] \in Returnable
      BY DEF FullInv, GivenBack
    <3> QED
      BY <1>1, <3>1, <3>2, <3>3
  <2>3. CASE ~(CombineNext(c) \/ CombinePrev(c) \/ FreeLock(c))
    <3>1. \/ AllocLock(c) \/ AllocSkip(c) \/ AllocTake(c) \/ AllocFail(c)
          \/ AllocSplit(c) \/ AllocMark(c) \/ AllocUnlock(c)
          \/ FreeReject(c) \/ FreeInsert(c) \/ FreeUnlock(c)
      BY <1>5, <2>3 DEF Work
    <3>2. Alone(c) /\ booted' = booted
      BY <3>1
         DEF Alone, AllocLock, AllocSkip, AllocTake, AllocFail, AllocSplit,
             AllocMark, AllocUnlock, FreeReject, FreeInsert, FreeUnlock,
             Return, Goto, stage, FullInv, LocalInv, TypeOK
    <3>3. pc'[c] \notin {"free_lock", "free_combine"}
      BY <3>1
         DEF AllocLock, AllocSkip, AllocTake, AllocFail, AllocSplit,
             AllocMark, AllocUnlock, FreeReject, FreeInsert, FreeUnlock,
             Return, Goto, FullInv, LocalInv, TypeOK
    <3> QED
      BY <1>1, <3>2, <3>3 DEF Freeing
  <2> QED
    BY <2>1, <2>2, <2>3
<1> QED
  BY <1>2, <1>3, <1>4, <1>5 DEF Next

-----------------------------------------------------------------------------
(* The inductive invariant.                                                 *)

(* Before boot nothing has been handed over.                                *)
LEMMA NothingDonated == Init => Donated = {}
<1> SUFFICES ASSUME Init PROVE Donated = {}
  OBVIOUS
<1>1. frontier = 0
  BY DEF Init
<1>2. \A f \in Frames : ~(f < frontier)
  BY <1>1, FrameAssumption
<1> QED
  BY <1>2 DEF Donated

(* The invariant holds when the machine is switched on.                     *)
LEMMA FullInit == Init => FullInv
<1> SUFFICES ASSUME Init PROVE FullInv
  OBVIOUS
<1>1. LocalInv
  BY LocalInit
<1>2. Listed(freelist) = {} /\ NoTwice(freelist)
  <2>1. \A k \in Orders : freelist[k] = << >>
    BY DEF Init, list_head_init
  <2>2. \A k \in Orders : ToSet(freelist[k]) = {}
    BY <2>1 DEF ToSet
  <2>3. \A k \in Orders : IsInjective(freelist[k])
    BY <2>1 DEF IsInjective
  <2> QED
    BY <2>2, <2>3 DEF Listed, NoTwice
<1>3. Claims = {}
  <2>1. \A c \in Cpus : ~InHand(c)
    BY DEF Init, InHand, Allocating, Freeing
  <2> QED
    BY <1>2, <2>1, FreeBlocksListed DEF Claims, Init
<1>4. Donated = {}
  BY NothingDonated
<1>5. StoreInv
  BY <1>2, <1>3, <1>4 DEF StoreInv, StoreOK
<1>6. GivenBack
  BY DEF GivenBack, Init
<1>7. BootInv
  BY CpuAssumption DEF BootInv, Init
<1>8. FlagsTell /\ Staircase
  BY <1>2, FreeBlocksListed DEF FlagsTell, Staircase, FreeHead, Init
<1> QED
  BY <1>1, <1>5, <1>6, <1>7, <1>8 DEF FullInv, BootTime

(* Every step keeps it.                                                     *)
LEMMA FullNext == FullInv /\ Sane /\ [Next]_vars => FullInv'
BY LocalNext, StoreStep, GivenBackStep, BootStep DEF FullInv

(* What the invariant says of claims.                                       *)
LEMMA FullSays ==
  ASSUME FullInv
  PROVE  NoOverlap /\ OnlyAvailable /\ NoLeak
<1>1. /\ \A k \in Orders : IsInjective(freelist[k])
      /\ \A x \in Claims : x[3] \in Block /\ Span(x[3]) \subseteq Donated
      /\ \A x, y \in Claims : x # y => Span(x[3]) \cap Span(y[3]) = {}
      /\ \A f \in Donated : \E x \in Claims : f \in Span(x[3])
  BY DEF FullInv, StoreInv, StoreOK, NoTwice
<1>2. \A x, y \in Claims : x # y => Apart(x[3], y[3])
  BY <1>1, ApartDisjoint
<1> QED
  BY <1>1, <1>2 DEF NoOverlap, OnlyAvailable, NoLeak

-----------------------------------------------------------------------------
(* Theorems.                                                                *)

(* The types, the lock and the truth of NULL hold for every memory map and  *)
(* whatever callers give back.                                              *)
LEMMA LocalAlways == Spec => []LocalInv
<1> QED
  BY LocalInit, LocalNext, PTL DEF Spec

(* Every variable has its type, whatever the memory map and the callers.    *)
THEOREM Typing == Spec => []TypeOK
<1>1. LocalInv => TypeOK
  BY DEF LocalInv
<1> QED
  BY <1>1, LocalAlways, PTL

(* freelist_lock excludes: at most one CPU is between spin_lock and         *)
(* spin_unlock of alloc_pages and free_pages.                               *)
THEOREM Exclusion == Spec => []LockExcludes
<1>1. LocalInv => LockExcludes
  BY DEF LocalInv
<1> QED
  BY <1>1, LocalAlways, PTL

(* alloc_pages returns NULL only if every list it may take from is empty.   *)
THEOREM NullTruth == Spec => []NullOnlyWhenEmpty
<1>1. LocalInv => NullOnlyWhenEmpty
  BY DEF LocalInv
<1> QED
  BY <1>1, LocalAlways, PTL

(* A node taken off a list leaves the other nodes on it, whatever the list  *)
(* holds twice.                                                             *)
LEMMA DelKeeps ==
  ASSUME NEW s \in Seq(Nat), NEW q \in Nat, NEW x \in ToSet(s), x # q
  PROVE  x \in ToSet(list_del(s, q))
<1>1. CASE \A i \in DOMAIN s : s[i] # q
  BY <1>1 DEF list_del
<1>2. CASE \E i \in DOMAIN s : s[i] = q
  <2> DEFINE n == CHOOSE i \in DOMAIN s : s[i] = q
             t == RemoveAt(s, n)
  <2>1. n \in DOMAIN s /\ s[n] = q
    BY <1>2
  <2>2. list_del(s, q) = t
    BY <1>2 DEF list_del
  <2> HIDE DEF n
  <2>3. Len(s) \in Nat /\ DOMAIN s = 1 .. Len(s)
    OBVIOUS
  <2>4. /\ DOMAIN t = 1 .. Len(s) - 1
        /\ \A i \in 1 .. n - 1 : t[i] = s[i]
        /\ \A i \in n .. Len(s) - 1 : t[i] = s[i + 1]
    BY <2>1, Removed
  <2> HIDE DEF t
  <2>5. PICK j \in DOMAIN s : s[j] = x
    BY DEF ToSet
  <2>6. CASE j < n
    <3>1. j \in DOMAIN t /\ t[j] = x
      BY <2>1, <2>3, <2>4, <2>5, <2>6
    <3> QED
      BY <2>2, <3>1 DEF ToSet
  <2>7. CASE j > n
    <3>1. j - 1 \in DOMAIN t /\ j - 1 \in n .. Len(s) - 1 /\ (j - 1) + 1 = j
      BY <2>1, <2>3, <2>4, <2>5, <2>7
    <3>2. t[j - 1] = x
      BY <2>4, <2>5, <3>1
    <3> QED
      BY <2>2, <3>1, <3>2 DEF ToSet
  <2> QED
    BY <2>1, <2>3, <2>5, <2>6, <2>7
<1> QED
  BY <1>1, <1>2

Queued(q) == \E k \in Orders : q \in ToSet(freelist[k])
AtWork(c, q) == pc[c] \in {"alloc_split", "free_combine"} /\ p[c] = q

(* A block that is being given back has one of the orders there are lists   *)
(* for.                                                                     *)
FreeOrders == \A c \in Cpus : pc[c] \in {"free_lock", "free_combine"} /\ p[c] # NULL
                                => order[c] \in Orders

HeadInv == LocalInv /\ FreeOrders /\ HeadsListed

LEMMA FreeOrdersNext == LocalInv /\ FreeOrders /\ [Next]_vars => FreeOrders'
<1> SUFFICES ASSUME LocalInv, FreeOrders, [Next]_vars PROVE FreeOrders'
  OBVIOUS
<1> USE DEF FreeOrders
<1>0. TypeOK /\ CallInv
  BY DEF LocalInv
<1>1. CASE UNCHANGED vars
  BY <1>1 DEF vars
<1>2. CASE Boot
  <2>1. 0 \in Orders
    BY OrderAssumption DEF Orders
  <2> QED
    BY <1>0, <1>2, <2>1, CpuAssumption DEF Boot, BootEnd, BootFree, locals, Goto, TypeOK
<1>3. ASSUME NEW c \in Cpus, Call(c) PROVE FreeOrders'
  <2>1. ASSUME NEW k \in 0 .. MaxPageOrder, AllocCall(c, k) \/ FreeNullCall(c, k)
        PROVE  FreeOrders'
    BY <1>0, <2>1 DEF AllocCall, FreeNullCall, Goto, TypeOK, CallInv
  <2>2. ASSUME NEW b \in held, FreeCall(c, b) PROVE FreeOrders'
    <3>1. b[2] \in Orders
      BY <1>0 DEF TypeOK
    <3> QED
      BY <1>0, <2>2, <3>1 DEF FreeCall, Goto, TypeOK
  <2> QED
    BY <1>3, <2>1, <2>2 DEF Call
<1>4. ASSUME NEW c \in Cpus, Work(c) PROVE FreeOrders'
  <2>1. CASE CombineNext(c) \/ CombinePrev(c)
    <3>1. order[c] + 1 \in Orders
      BY <1>0, <2>1, OrderFacts DEF CombineNext, CombinePrev, Combining
    <3> QED
      BY <1>0, <2>1, <3>1 DEF CombineNext, CombinePrev, Combining, TypeOK
  <2>2. CASE FreeLock(c)
    BY <1>0, <2>2 DEF FreeLock, Goto, TypeOK
  <2>3. CASE ~(CombineNext(c) \/ CombinePrev(c) \/ FreeLock(c))
    <3>1. Alone(c) /\ pc'[c] \notin {"free_lock", "free_combine"}
      BY <1>0, <1>4, <2>3
         DEF Work, Alone, AllocLock, AllocSkip, AllocTake, AllocFail, AllocSplit,
             AllocMark, AllocUnlock, FreeReject, FreeInsert, FreeUnlock,
             Return, Goto, TypeOK
    <3> QED
      BY <3>1 DEF Alone
  <2> QED
    BY <2>1, <2>2, <2>3
<1> QED
  BY <1>1, <1>2, <1>3, <1>4 DEF Next

LEMMA HeadsNext == HeadInv /\ [Next]_vars => HeadsListed'
<1> SUFFICES ASSUME HeadInv, [Next]_vars, NEW q \in Described, FreeHead(q)'
             PROVE  Queued(q)' \/ \E c \in Cpus : AtWork(c, q)'
  BY DEF HeadsListed, Queued, AtWork
<1>0. TypeOK /\ CallInv /\ LockExcludes /\ FreeOrders
  BY DEF HeadInv, LocalInv
<1>1. q \in Mapped /\ q \in Nat /\ q # NULL
  BY FrameAssumption DEF NULL
<1>2. FreeHead(q) => Queued(q) \/ \E c \in Cpus : AtWork(c, q)
  BY DEF HeadInv, HeadsListed, Queued, AtWork
(* A step that changes neither flags nor lists, nor takes a block out of    *)
(* the hands of a CPU.                                                      *)
<1>3. ASSUME UNCHANGED <<freelist, pages>>,
             \A c \in Cpus : AtWork(c, q) => AtWork(c, q)'
      PROVE  Queued(q)' \/ \E c \in Cpus : AtWork(c, q)'
  BY <1>2, <1>3 DEF FreeHead, Queued, pages
<1>4. CASE UNCHANGED vars
  BY <1>3, <1>4 DEF vars, AtWork, pages
<1>5. CASE Boot
  <2>1. \A c \in Cpus : AtWork(c, q) => AtWork(c, q)'
    BY <1>0, <1>5, CpuAssumption DEF Boot, BootEnd, BootFree, locals, Goto, TypeOK, AtWork
  <2> QED
    BY <1>3, <1>5, <2>1 DEF Boot, BootEnd, BootFree
<1>6. ASSUME NEW c \in Cpus, Call(c)
      PROVE  Queued(q)' \/ \E d \in Cpus : AtWork(d, q)'
  <2>1. \A d \in Cpus : AtWork(d, q) => AtWork(d, q)'
    BY <1>0, <1>6 DEF Call, AllocCall, FreeNullCall, FreeCall, Goto, TypeOK, AtWork
  <2> QED
    BY <1>3, <1>6, <2>1 DEF Call, AllocCall, FreeNullCall, FreeCall
<1>7. ASSUME NEW c \in Cpus, Work(c)
      PROVE  Queued(q)' \/ \E d \in Cpus : AtWork(d, q)'
  (* Under the lock nobody else has a block in hand.                        *)
  <2>1. pc[c] \in Critical => \A d \in Cpus : AtWork(d, q) => d = c
    BY <1>0 DEF LockExcludes, AtWork, Critical
  <2>2. CASE AllocLock(c) \/ FreeLock(c)
    <3>1. \A d \in Cpus : AtWork(d, q) => AtWork(d, q)'
      BY <1>0, <2>2 DEF AllocLock, FreeLock, Goto, TypeOK, AtWork
    <3> QED
      BY <1>3, <2>2, <3>1 DEF AllocLock, FreeLock
  <2>3. CASE AllocSkip(c) \/ AllocFail(c) \/ AllocUnlock(c) \/ FreeUnlock(c)
    <3>1. \A d \in Cpus : AtWork(d, q) => AtWork(d, q)'
      BY <1>0, <2>3 DEF AllocSkip, AllocFail, AllocUnlock, FreeUnlock, Return, Goto,
                        TypeOK, AtWork
    <3> QED
      BY <1>3, <2>3, <3>1 DEF AllocSkip, AllocFail, AllocUnlock, FreeUnlock
  <2>4. CASE FreeReject(c)
    <3>1. ~AtWork(c, q)
      BY <1>0, <1>1, <2>4, OrderFacts DEF FreeReject, Goto, FreeOrders, AtWork
    <3>2. \A d \in Cpus : AtWork(d, q) => AtWork(d, q)'
      BY <1>0, <2>4, <3>1 DEF FreeReject, Goto, TypeOK, AtWork
    <3> QED
      BY <1>3, <2>4, <3>2 DEF FreeReject
  <2>5. CASE AllocTake(c)
    <3> DEFINE k == __alloc[c]
               h == Head(freelist[k])
    <3>1. /\ pc[c] = "alloc_scan" /\ pc' = [pc EXCEPT ![c] = "alloc_split"]
          /\ p' = [p EXCEPT ![c] = h] /\ k \in Orders /\ FreeHead(q)
          /\ freelist' = [freelist EXCEPT ![k] = list_del(@, h)] /\ freelist[k] # <<>>
      BY <1>0, <2>5, OrderFacts DEF AllocTake, Goto, TypeOK, FreeHead, pages, list_empty
    <3>2. h \in Nat
      BY <1>0, <3>1 DEF TypeOK
    <3>3. Queued(q)
      BY <1>2, <2>1, <3>1 DEF AtWork, Critical
    <3>4. CASE q = h
      BY <1>0, <3>1, <3>4 DEF AtWork, TypeOK
    <3>5. CASE q # h
      <4>1. PICK j \in Orders : q \in ToSet(freelist[j])
        BY <3>3 DEF Queued
      <4>2. freelist \in [Orders -> Seq(Nat)]
        BY <1>0 DEF TypeOK
      <4> HIDE DEF h, k
      <4>3. q \in ToSet(freelist'[j])
        <5>1. CASE j = k
          <6>1. freelist'[j] = list_del(freelist[j], h) /\ freelist[j] \in Seq(Nat)
            BY <3>1, <4>2, <5>1
          <6> QED
            BY <3>2, <3>5, <4>1, <6>1, DelKeeps
        <5>2. CASE j # k
          BY <3>1, <4>1, <4>2, <5>2
        <5> QED
          BY <5>1, <5>2
      <4> QED
        BY <4>3 DEF Queued
    <3> QED
      BY <3>4, <3>5
  <2>6. CASE AllocSplit(c)
    <3> DEFINE k == __alloc[c] - 1
               h == next_page_by_order(p[c], k)
    <3>1. /\ freelist' = [freelist EXCEPT ![k] = list_add_next(@, h)]
          /\ FreeHead(q) /\ pc' = pc /\ p' = p /\ pc[c] = "alloc_split"
      BY <2>6 DEF AllocSplit, FreeHead, pages
    <3>2. CASE AtWork(c, q)
      BY <3>1, <3>2 DEF AtWork
    <3>3. CASE Queued(q)
      <4>1. PICK j \in Orders : q \in ToSet(freelist[j])
        BY <3>3 DEF Queued
      <4>2. freelist \in [Orders -> Seq(Nat)]
        BY <1>0 DEF TypeOK
      <4>3. h \in Nat
        <5>1. p[c] \in Nat /\ __alloc[c] \in Orders /\ order[c] \in Nat /\ __alloc[c] > order[c]
          BY <1>0, <2>6 DEF TypeOK, CallInv, AllocSplit
        <5>2. k \in Orders /\ ~(k >= MaxPageOrder)
          BY <5>1, OrderFacts
        <5> QED
          BY <5>1, <5>2, OrderFacts DEF next_page_by_order
      <4> HIDE DEF h, k
      <4>4. q \in ToSet(freelist'[j])
        <5>1. CASE j = k
          <6>1. freelist'[j] = list_add_next(freelist[j], h) /\ freelist[j] \in Seq(Nat)
            BY <3>1, <4>2, <5>1
          <6> QED
            BY <4>1, <4>3, <6>1, ListAdd
        <5>2. CASE j # k
          BY <3>1, <4>1, <4>2, <5>2
        <5> QED
          BY <5>1, <5>2
      <4> QED
        BY <4>4 DEF Queued
    <3> QED
      BY <1>2, <2>1, <3>1, <3>2, <3>3 DEF Critical
  <2>7. CASE AllocMark(c)
    <3>1. /\ pc[c] = "alloc_split" /\ p[c] \in Nat /\ order[c] \in Orders
          /\ freelist' = freelist
      BY <1>0, <2>7 DEF AllocMark, Goto, TypeOK, CallInv
    <3>2. p[c] \in Span(<<p[c], order[c]>>)
      BY <3>1, SpanFacts DEF Block
    <3>3. q # p[c] /\ FreeHead(q)
      BY <2>7, <3>2, <1>1 DEF AllocMark, FreeHead
    <3> QED
      BY <1>2, <2>1, <3>1, <3>3 DEF AtWork, Queued, Critical
  <2>8. CASE CombineNext(c) \/ CombinePrev(c)
    <3> DEFINE h == IF FreeHead(next(c)) THEN next(c) ELSE prev(c)
    <3>1. /\ pc[c] = "free_combine" /\ pc' = pc /\ h \in Nat
          /\ freelist' = [k \in Orders |-> list_del(freelist[k], h)]
      BY <2>8, FrameAssumption DEF CombineNext, CombinePrev, Combining, FreeHead
    <3>2. Queued(q) /\ q # h => Queued(q)'
      <4> SUFFICES ASSUME Queued(q), q # h PROVE Queued(q)'
        OBVIOUS
      <4>1. PICK j \in Orders : q \in ToSet(freelist[j])
        BY DEF Queued
      <4>2. freelist[j] \in Seq(Nat)
        BY <1>0 DEF TypeOK
      <4> HIDE DEF h
      <4>3. q \in ToSet(freelist'[j])
        BY <3>1, <4>1, <4>2, DelKeeps
      <4> QED
        BY <4>3 DEF Queued
    <3>3. CASE CombineNext(c)
      <4>1. q # h /\ FreeHead(q) /\ p' = p
        BY <1>0, <1>1, <3>3 DEF CombineNext, FreeHead, TypeOK
      <4> QED
        BY <1>2, <2>1, <3>1, <3>2, <4>1 DEF AtWork, Critical
    <3>4. CASE CombinePrev(c)
      <4>1. h = prev(c) /\ q # p[c] /\ FreeHead(q) /\ p' = [p EXCEPT ![c] = h]
        BY <1>0, <1>1, <3>4 DEF CombinePrev, FreeHead, TypeOK
      <4>2. CASE q = h
        BY <1>0, <3>1, <4>1, <4>2 DEF AtWork, TypeOK
      <4>3. CASE q # h
        BY <1>2, <2>1, <3>1, <3>2, <4>1, <4>3 DEF AtWork, Critical
      <4> QED
        BY <4>2, <4>3
    <3> QED
      BY <2>8, <3>3, <3>4
  <2>9. CASE FreeInsert(c)
    <3>1. /\ pc[c] = "free_combine" /\ p[c] \in Nat /\ order[c] \in Orders
          /\ freelist' = [freelist EXCEPT ![order[c]] = list_add_next(@, p[c])]
      BY <1>0, <2>9, OrderFacts DEF FreeInsert, Goto, TypeOK, FreeOrders
    <3>2. freelist \in [Orders -> Seq(Nat)]
      BY <1>0 DEF TypeOK
    <3>3. CASE q = p[c]
      <4>1. freelist'[order[c]] = list_add_next(freelist[order[c]], p[c])
        BY <3>1, <3>2
      <4>2. freelist[order[c]] \in Seq(Nat)
        BY <3>1, <3>2
      <4>3. q \in ToSet(list_add_next(freelist[order[c]], p[c]))
        <5>1. ToSet(list_add_next(freelist[order[c]], p[c]))
                = {p[c]} \cup ToSet(freelist[order[c]])
          BY <3>1, <4>2, ListAdd
        <5> QED
          BY <3>3, <5>1
      <4> QED
        BY <3>1, <4>1, <4>3 DEF Queued
    <3>4. CASE q # p[c]
      <4>1. FreeHead(q)
        BY <1>0, <2>9, <3>4 DEF FreeInsert, FreeHead, TypeOK
      <4>2. Queued(q)
        BY <1>2, <2>1, <3>1, <3>4, <4>1 DEF AtWork, Critical
      <4>3. PICK j \in Orders : q \in ToSet(freelist[j])
        BY <4>2 DEF Queued
      <4>4. q \in ToSet(freelist'[j])
        <5>1. CASE j = order[c]
          <6>1. freelist'[j] = list_add_next(freelist[j], p[c])
            BY <3>1, <3>2, <5>1
          <6>2. freelist[j] \in Seq(Nat)
            BY <3>2
          <6> QED
            BY <3>1, <4>3, <6>1, <6>2, ListAdd
        <5>2. CASE j # order[c]
          BY <3>1, <3>2, <4>3, <5>2
        <5> QED
          BY <5>1, <5>2
      <4> QED
        BY <4>4 DEF Queued
    <3> QED
      BY <3>3, <3>4
  <2> QED
    BY <1>7, <2>2, <2>3, <2>4, <2>5, <2>6, <2>7, <2>8, <2>9 DEF Work
<1> QED
  BY <1>4, <1>5, <1>6, <1>7 DEF Next

(* Whatever callers give back and whatever the memory map, a page whose     *)
(* flags say free and head is on a list, or in the hands of the CPU that    *)
(* splits or merges it: list_del in __free_pages never takes a page off     *)
(* that is on no list.                                                      *)
THEOREM HeadsStayListed == Spec => []HeadsListed
<1>1. Init => HeadInv
  <2>1. Init => FreeOrders
    BY DEF Init, FreeOrders
  <2>2. Init => HeadsListed
    BY DEF Init, HeadsListed, FreeHead
  <2> QED
    BY <2>1, <2>2, LocalInit DEF HeadInv
<1>2. HeadInv /\ [Next]_vars => HeadInv'
  BY LocalNext, FreeOrdersNext, HeadsNext DEF HeadInv
<1>3. HeadInv => HeadsListed
  BY DEF HeadInv
<1> QED
  BY <1>1, <1>2, <1>3, PTL DEF Spec

(* The whole invariant, on a memory map that suits the boot loop and with   *)
(* callers that make __free_pages combine nothing.                          *)
LEMMA FullAlways ==
  ASSUME WideGaps, NoGarbageNear, NoMergeAfterBoot
  PROVE  Spec => []FullInv
<1>1. Sane
  BY DEF Sane
<1>2. FullInv /\ [Next]_vars => FullInv'
  BY <1>1, FullNext
<1> QED
  BY <1>2, FullInit, PTL DEF Spec

(* No frame is ever in two places: lists, callers and CPUs that are inside  *)
(* alloc_pages or free_pages claim blocks that do not overlap.              *)
THEOREM Disjointness ==
  ASSUME WideGaps, NoGarbageNear, NoMergeAfterBoot
  PROVE  Spec => []NoOverlap
<1>1. FullInv => NoOverlap
  BY FullSays
<1> QED
  BY <1>1, FullAlways, PTL

(* The allocator hands out only frames that boot has given to it.           *)
THEOREM Availability ==
  ASSUME WideGaps, NoGarbageNear, NoMergeAfterBoot
  PROVE  Spec => []OnlyAvailable
<1>1. FullInv => OnlyAvailable
  BY FullSays
<1> QED
  BY <1>1, FullAlways, PTL

(* Splitting in alloc_pages and merging in free_pages lose no frame.        *)
THEOREM Conservation ==
  ASSUME WideGaps, NoGarbageNear, NoMergeAfterBoot
  PROVE  Spec => []NoLeak
<1>1. FullInv => NoLeak
  BY FullSays
<1> QED
  BY <1>1, FullAlways, PTL

(* While mm_init fills the lists, the free blocks of a run of frames have   *)
(* falling orders: the reason why the merges of __free_pages, which do not  *)
(* look at the order of the neighbour, are right at boot.                   *)
THEOREM FallingOrders ==
  ASSUME WideGaps, NoGarbageNear, NoMergeAfterBoot
  PROVE  Spec => []Staircase
<1>1. FullInv => Staircase
  BY DEF FullInv, BootTime
<1> QED
  BY <1>1, FullAlways, PTL

(* While mm_init fills the lists, is_free and is_head of a page that has    *)
(* been described tell whether it heads a free block.                       *)
THEOREM TrueFlags ==
  ASSUME WideGaps, NoGarbageNear, NoMergeAfterBoot
  PROVE  Spec => []FlagsTell
<1>1. FullInv => FlagsTell
  BY DEF FullInv, BootTime
<1> QED
  BY <1>1, FullAlways, PTL

-----------------------------------------------------------------------------
(* The allocator implements the store: mm_init donates, the unlock at the   *)
(* end of alloc_pages is the moment a block changes hands, and a block goes *)
(* back when the caller calls free_pages.                                   *)

(* A block somebody claims begins with a usable frame.                      *)
LEMMA ClaimFrames ==
  ASSUME FullInv, NEW x \in Claims
  PROVE  /\ x[3] \in Frames \X Orders
         /\ Span(x[3]) \subseteq Donated
<1>1. x[3] \in Block /\ Span(x[3]) \subseteq Donated
  BY DEF FullInv, StoreInv, StoreOK
<1>2. x[3] = <<x[3][1], x[3][2]>> /\ x[3][1] \in Frames /\ x[3][2] \in Orders
  BY <1>1, SpanFacts DEF Donated
<1> QED
  BY <1>1, <1>2

(* A caller holds what it claims.                                           *)
LEMMA HeldClaims ==
  ASSUME FullInv, NEW b \in held
  PROVE  <<"caller", 0, b>> \in Claims
BY DEF Claims

LEMMA StepDonate ==
  ASSUME FullInv, NEW f \in Frames, BootFree(f)
  PROVE  B!Donate(f)
<1>1. Donated' = Donated \cup {f} /\ f \notin Donated
  BY DonatedGrows DEF FullInv
<1>2. held' = held
  BY DEF BootFree
<1> QED
  BY <1>1, <1>2 DEF B!Donate

LEMMA StepAlloc ==
  ASSUME FullInv, NEW c \in Cpus, AllocUnlock(c), p[c] # NULL
  PROVE  \E b \in Frames \X Orders : B!Alloc(b)
<1> DEFINE b == <<p[c], order[c]>>
           x == <<"cpu", c, b>>
<1>1. pc[c] = "alloc_unlock" /\ __alloc[c] = order[c]
  BY DEF AllocUnlock, Return, Goto, FullInv, LocalInv, CallInv
<1>2. x \in Claims
  <2>1. ByCpu(c) = {x}
    BY <1>1 DEF ByCpu, InHand, Allocating, Hand
  <2> QED
    BY <2>1, ClaimsParts
<1>3. held' = held \cup {b} /\ Donated' = Donated
  BY DEF AllocUnlock, stage, Donated
<1> HIDE DEF b
<1>4. b \in Frames \X Orders /\ Span(b) \subseteq Donated
  BY <1>2, ClaimFrames
<1>5. ASSUME NEW h \in held
      PROVE  Apart(b, h)
  <2>1. <<"caller", 0, h>> \in Claims /\ <<"caller", 0, h>> # x
    BY HeldClaims
  <2>2. NoOverlap
    BY FullSays
  <2> QED
    BY <1>2, <2>1, <2>2 DEF NoOverlap
<1> QED
  BY <1>3, <1>4, <1>5 DEF B!Alloc, Span, Apart

LEMMA StepFree ==
  ASSUME FullInv, NEW c \in Cpus, NEW b \in held, FreeCall(c, b)
  PROVE  b \in Frames \X Orders /\ B!Free(b)
<1>1. b \in Frames \X Orders
  BY HeldClaims, ClaimFrames
<1>2. held' = held \ {b} /\ Donated' = Donated
  BY DEF FreeCall, stage, Donated
<1> QED
  BY <1>1, <1>2 DEF B!Free

(* Each step of the allocator is a step of the store or none.               *)
LEMMA StoreSimulation ==
  FullInv /\ [Next]_vars => [B!Next]_(B!store)
<1> SUFFICES ASSUME FullInv, [Next]_vars PROVE [B!Next]_(B!store)
  OBVIOUS
<1>1. ASSUME held' = held, frontier' = frontier
      PROVE  UNCHANGED B!store
  BY <1>1 DEF B!store, Donated
<1>2. CASE UNCHANGED vars
  BY <1>1, <1>2 DEF vars
<1>3. CASE Boot
  <2>1. CASE BootEnd
    BY <1>1, <2>1 DEF BootEnd
  <2>2. ASSUME NEW f \in Frames, BootFree(f)
        PROVE  B!Next
    BY <2>2, StepDonate DEF B!Next
  <2> QED
    BY <1>3, <2>1, <2>2 DEF Boot
<1>4. ASSUME NEW c \in Cpus, Call(c)
      PROVE  [B!Next]_(B!store)
  <2>1. ASSUME NEW k \in 0 .. MaxPageOrder,
               AllocCall(c, k) \/ FreeNullCall(c, k)
        PROVE  UNCHANGED B!store
    BY <1>1, <2>1 DEF AllocCall, FreeNullCall, stage
  <2>2. ASSUME NEW b \in held, FreeCall(c, b)
        PROVE  B!Next
    BY <2>2, StepFree DEF B!Next
  <2> QED
    BY <1>4, <2>1, <2>2 DEF Call
<1>5. ASSUME NEW c \in Cpus, Work(c)
      PROVE  [B!Next]_(B!store)
  <2>1. CASE AllocUnlock(c)
    <3>1. CASE p[c] = NULL
      BY <1>1, <2>1, <3>1 DEF AllocUnlock, stage
    <3>2. CASE p[c] # NULL
      BY <2>1, <3>2, StepAlloc DEF B!Next
    <3> QED
      BY <3>1, <3>2
  <2>2. CASE ~AllocUnlock(c)
    <3>1. held' = held /\ frontier' = frontier
      BY <1>5, <2>2
         DEF Work, AllocLock, AllocSkip, AllocTake, AllocFail, AllocSplit,
             AllocMark, FreeLock, FreeReject, CombineNext, CombinePrev,
             FreeInsert, FreeUnlock, stage
    <3> QED
      BY <1>1, <3>1
  <2> QED
    BY <2>1, <2>2
<1> QED
  BY <1>2, <1>3, <1>4, <1>5 DEF Next

(* The buddy allocator behaves, for its callers, like the store of blocks   *)
(* that BlockStore specifies.                                               *)
THEOREM Refinement ==
  ASSUME WideGaps, NoGarbageNear, NoMergeAfterBoot
  PROVE  Spec => ImplementsStore
<1>1. Init => B!Init
  BY NothingDonated DEF Init, B!Init
<1>2. FullInv /\ [Next]_vars => [B!Next]_(B!store)
  BY StoreSimulation
<1> QED
  BY <1>1, <1>2, FullAlways, PTL DEF Spec, ImplementsStore, B!Spec
=============================================================================
