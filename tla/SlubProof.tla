------------------------------ MODULE SlubProof ------------------------------
(***************************************************************************)
(* Proofs about Slub, for any number of caches, CPUs and pages: no word of *)
(* memory belongs to two objects, no chain of free objects runs through    *)
(* one that a caller has, and no object is lost.                           *)
(*                                                                         *)
(* Slub's Chain follows pointers, and is defined by recursion.  The first  *)
(* part has what is needed for that: induction, with sets in place of      *)
(* predicates, and that such a definition defines a function.              *)
(***************************************************************************)
EXTENDS Slub, WellFoundedInduction, TLAPS

(* A set of numbers has a smallest one.                                     *)
LEMMA Smallest ==
  ASSUME NEW T \in SUBSET Nat, T # {}
  PROVE  \E x \in T : \A y \in T : x <= y
<1> DEFINE R == {ss \in Nat \X Nat : ss[1] < ss[2]}
<1>1. IsWellFoundedOn(R, Nat)
  BY NatLessThanWellFounded DEF OpToRel
<1> HIDE DEF R
<1>2. PICK x \in T : \A y \in T : ~(<<y, x>> \in R)
  BY <1>1, WFMin
<1>3. \A y \in T : ~(y < x)
  BY <1>2 DEF R
<1> QED
  BY <1>3

LEMMA Induction ==
  ASSUME NEW T \in SUBSET Nat, 0 \in T, \A n \in T : n + 1 \in T
  PROVE  T = Nat
<1> SUFFICES ASSUME T # Nat PROVE FALSE
  OBVIOUS
<1>1. PICK x \in Nat \ T : \A y \in Nat \ T : x <= y
  BY Smallest
<1>2. x - 1 \in Nat /\ ~(x <= x - 1)
  BY <1>1
<1>3. x - 1 \in T
  BY <1>1, <1>2
<1> QED
  BY <1>1, <1>3

(* A function that is applied again and again.                              *)
LEMMA Iteration ==
  ASSUME NEW D, NEW s0 \in D, NEW F \in [D -> D]
  PROVE  \E f \in [Nat -> D] : f = [n \in Nat |-> IF n = 0 THEN s0 ELSE F[f[n - 1]]]
<1> DEFINE A(n) == {g \in [0 .. n -> D] : g[0] = s0 /\ \A i \in 1 .. n : g[i] = F[g[i - 1]]}
<1>1. \A n \in Nat : A(n) # {}
  <2> DEFINE T == {n \in Nat : A(n) # {}}
  <2>1. 0 \in T
    <3>1. [i \in 0 .. 0 |-> s0] \in A(0)
      OBVIOUS
    <3> QED
      BY <3>1
  <2>2. ASSUME NEW n \in T
        PROVE  n + 1 \in T
    <3>1. PICK g \in [0 .. n -> D] : g[0] = s0 /\ \A i \in 1 .. n : g[i] = F[g[i - 1]]
      OBVIOUS
    <3> DEFINE h == [i \in 0 .. n + 1 |-> IF i = n + 1 THEN F[g[n]] ELSE g[i]]
    <3>2. h \in [0 .. n + 1 -> D] /\ h[0] = s0
      BY <3>1
    <3>3. \A i \in 1 .. n + 1 : h[i] = F[h[i - 1]]
      BY <3>1
    <3>4. h \in A(n + 1)
      BY <3>2, <3>3
    <3> QED
      BY <3>4
  <2> HIDE DEF T
  <2>3. T = Nat
    BY <2>1, <2>2, Induction DEF T
  <2> QED
    BY <2>3 DEF T
<1>2. \A i \in Nat : \A n, m \in Nat : \A g \in A(n), h \in A(m) :
        i <= n /\ i <= m => g[i] = h[i]
  <2> DEFINE Same(i) == \A n, m \in Nat : \A g \in A(n), h \in A(m) :
                          i <= n /\ i <= m => g[i] = h[i]
             T == {i \in Nat : Same(i)}
  <2>1. 0 \in T
    OBVIOUS
  <2>2. ASSUME NEW i \in Nat, Same(i)
        PROVE  Same(i + 1)
    <3>1. ASSUME NEW n \in Nat, NEW m \in Nat, NEW g \in A(n), NEW h \in A(m), i + 1 <= n, i + 1 <= m
          PROVE  g[i + 1] = h[i + 1]
      <4>1. i <= n /\ i <= m
        BY <3>1
      <4>2. g[i] = h[i]
        BY <2>2, <4>1
      <4>3. i + 1 \in 1 .. n /\ i + 1 \in 1 .. m /\ (i + 1) - 1 = i
        BY <3>1
      <4>4. g[i + 1] = F[g[i]] /\ h[i + 1] = F[h[i]]
        BY <4>3
      <4> QED
        BY <4>2, <4>4
    <3> HIDE DEF A
    <3> QED
      BY <3>1
  <2> HIDE DEF Same
  <2>3. \A i \in T : i + 1 \in T
    BY <2>2
  <2>4. T \subseteq Nat
    OBVIOUS
  <2> HIDE DEF T
  <2>5. T = Nat
    BY <2>1, <2>3, <2>4, Induction
  <2>6. \A i \in Nat : Same(i)
    BY <2>5 DEF T
  <2> QED
    BY <2>6 DEF Same
<1> DEFINE G(n) == CHOOSE g : g \in A(n)
           f == [n \in Nat |-> G(n)[n]]
<1>3. \A n \in Nat : G(n) \in A(n)
  BY <1>1
<1>4. \A n \in Nat : G(n) \in [0 .. n -> D] /\ G(n)[0] = s0 /\ \A i \in 1 .. n : G(n)[i] = F[G(n)[i - 1]]
  BY <1>3
<1> HIDE DEF A, G
<1>5. f \in [Nat -> D] /\ f[0] = s0
  <2>1. \A n \in Nat : G(n)[n] \in D
    BY <1>4
  <2>2. G(0)[0] = s0
    BY <1>4
  <2> QED
    BY <2>1, <2>2
<1>6. ASSUME NEW n \in Nat \ {0}
      PROVE  f[n] = F[f[n - 1]]
  <2>1. n - 1 \in Nat /\ n \in 1 .. n /\ n - 1 <= n /\ n - 1 <= n - 1
    OBVIOUS
  <2>2. G(n) \in A(n) /\ G(n - 1) \in A(n - 1)
    BY <1>3, <2>1
  <2>3. G(n)[n - 1] = G(n - 1)[n - 1]
    BY <1>2, <2>1, <2>2
  <2>4. G(n)[n] = F[G(n)[n - 1]]
    BY <1>4, <2>1
  <2> QED
    BY <2>1, <2>3, <2>4
<1> HIDE DEF f
<1>7. f = [n \in Nat |-> IF n = 0 THEN s0 ELSE F[f[n - 1]]]
  BY <1>5, <1>6
<1> QED
  BY <1>5, <1>7

(* What Slub's Chain is, step by step.                                      *)
LEMMA ChainSteps ==
  ASSUME NEW k, mem \in [Words -> Words \cup {NULL, Wild}], freelist[k] \in Words \cup {NULL}
  PROVE  \E f \in [Nat -> SUBSET (Words \cup {NULL, Wild})] :
           /\ f[0] = {freelist[k]}
           /\ \A n \in Nat : f[n + 1] = f[n] \cup {mem[w] : w \in f[n] \cap Words}
           /\ Chain(k) = f[2 * PAGE_SIZE] \ {NULL}
<1> DEFINE D == SUBSET (Words \cup {NULL, Wild})
           step(S) == S \cup {mem[w] : w \in S \cap Words}
           F == [S \in D |-> step(S)]
           g == CHOOSE g : g = [n \in Nat |-> IF n = 0 THEN {freelist[k]} ELSE step(g[n - 1])]
<1>1. {freelist[k]} \in D
  OBVIOUS
<1>2. \A S \in D : step(S) \in D
  OBVIOUS
<1>3. F \in [D -> D]
  BY <1>2
<1>4. PICK f \in [Nat -> D] : f = [n \in Nat |-> IF n = 0 THEN {freelist[k]} ELSE F[f[n - 1]]]
  <2> HIDE DEF D, F
  <2> QED
    BY <1>1, <1>3, Iteration
<1>5. \A n \in Nat \ {0} : F[f[n - 1]] = step(f[n - 1])
  <2> HIDE DEF D, step
  <2>1. \A n \in Nat \ {0} : f[n - 1] \in D
    <3>1. f \in [Nat -> D]
      BY <1>4
    <3>2. \A n \in Nat \ {0} : n - 1 \in Nat
      OBVIOUS
    <3> QED
      BY ONLY <3>1, <3>2
  <2> QED
    BY ONLY <2>1
<1>6. f = [n \in Nat |-> IF n = 0 THEN {freelist[k]} ELSE step(f[n - 1])]
  <2> HIDE DEF F, step
  <2> QED
    BY <1>4, <1>5
<1>7. g = [n \in Nat |-> IF n = 0 THEN {freelist[k]} ELSE step(g[n - 1])]
  <2> HIDE DEF step
  <2> QED
    BY <1>6
<1>8. Chain(k) = g[2 * PAGE_SIZE] \ {NULL}
  BY DEF Chain
<1> HIDE DEF g
<1>9. g[0] = {freelist[k]}
  BY <1>7
<1>10. ASSUME NEW n \in Nat
       PROVE  g[n + 1] = step(g[n])
  <2> HIDE DEF step
  <2>1. n + 1 \in Nat /\ n + 1 # 0 /\ (n + 1) - 1 = n
    OBVIOUS
  <2> QED
    BY <1>7, <2>1
<1>11. \A n \in Nat : g[n] \in D
  <2> DEFINE T == {n \in Nat : g[n] \in D}
  <2>1. 0 \in T
    BY <1>1, <1>9
  <2>2. \A n \in T : n + 1 \in T
    <3> HIDE DEF D, step
    <3> QED
      BY <1>2, <1>10
  <2>3. T \subseteq Nat
    OBVIOUS
  <2> HIDE DEF T
  <2>4. T = Nat
    BY <2>1, <2>2, <2>3, Induction
  <2> QED
    BY <2>4 DEF T
<1>12. g \in [Nat -> D]
  <2> HIDE DEF D, step
  <2>1. g = [n \in Nat |-> g[n]]
    BY <1>7
  <2> QED
    BY <1>11, <2>1
<1> QED
  BY <1>8, <1>9, <1>10, <1>12

-----------------------------------------------------------------------------
(* The objects of a slub.                                                   *)

Blk(k, f)  == <<k, <<f, slub_order(k)>>>>
Objs(k, f) == {page_to_virt(f) + i * obj_size(k) :
                 i \in 0 .. ((alloc_size(k) \div obj_size(k)) - 1)}
End(k, f)  == page_to_virt(f) + alloc_size(k)

LEMMA CutIs ==
  ASSUME NEW k, NEW f
  PROVE  Cut(Blk(k, f)) = {<<k, w>> : w \in Objs(k, f)}
BY DEF Cut, Blk, Objs, alloc_size

LEMMA Times ==
  ASSUME NEW i \in Nat, NEW j \in Nat, NEW s \in Nat \ {0}
  PROVE  /\ i < j <=> i * s + s <= j * s
         /\ i = j <=> i * s = j * s
         /\ i < j <=> i * s < j * s
<1>1. \A a \in Nat : a * s \in Nat /\ (a + 1) * s = a * s + s
  OBVIOUS
<1>2. ASSUME NEW a \in Nat, NEW b \in Nat, a <= b
      PROVE  a * s <= b * s
  <2>1. PICK c \in Nat : b = a + c
    <3>1. b - a \in Nat /\ b = a + (b - a)
      BY <1>2
    <3> QED
      BY <3>1
  <2>2. b * s = a * s + c * s
    BY <2>1
  <2> QED
    BY <1>1, <2>2
<1>3. ASSUME i < j
      PROVE  i * s + s <= j * s
  <2>1. i + 1 <= j
    BY <1>3
  <2> QED
    BY <1>1, <1>2, <2>1
<1>4. ASSUME ~(i < j)
      PROVE  j * s <= i * s
  BY <1>2, <1>4
<1>5. ASSUME j < i
      PROVE  j * s + s <= i * s
  <2>1. j + 1 <= i
    BY <1>5
  <2> QED
    BY <1>1, <1>2, <2>1
<1> QED
  BY <1>1, <1>3, <1>4, <1>5

LEMMA Sizes ==
  ASSUME NEW k \in Caches
  PROVE  /\ obj_size(k) \in Nat \ {0} /\ alloc_size(k) \in Nat \ {0}
         /\ obj_size(k) <= alloc_size(k)
         /\ alloc_size(k) \div obj_size(k) \in Nat \ {0}
         /\ alloc_size(k) = (alloc_size(k) \div obj_size(k)) * obj_size(k)
         /\ alloc_size(k) <= (2 * PAGE_SIZE) * obj_size(k)
         /\ PAGE_SIZE \in Nat \ {0}
<1> DEFINE s == obj_size(k)
           p == 2^slub_order(k)
           a == alloc_size(k)
<1>1. /\ PAGE_SIZE \in Nat \ {0} /\ s \in Nat \ {0} /\ p \in Nat \ {0} /\ a = PAGE_SIZE * p
      /\ a % s = 0 /\ a <= 2 * PAGE_SIZE * s
  BY ShiftAssumption DEF alloc_size
<1> HIDE DEF s, p, a
<1>2. a \in Nat \ {0}
  BY <1>1
<1>3. a \div s \in Nat /\ a = (a \div s) * s
  BY <1>1, <1>2
<1>4. a \div s # 0
  BY <1>1, <1>2, <1>3
<1>5. s <= a
  <2>1. a \div s \in Nat /\ a \div s >= 1
    BY <1>3, <1>4
  <2>2. PICK q \in Nat : a \div s = q + 1
    <3>1. (a \div s) - 1 \in Nat /\ a \div s = ((a \div s) - 1) + 1
      BY <2>1
    <3> QED
      BY <3>1
  <2>3. a = q * s + s
    BY <1>1, <1>3, <2>2
  <2> QED
    BY <1>1, <2>3
<1>6. a <= (2 * PAGE_SIZE) * s
  BY <1>1
<1> QED
  BY <1>1, <1>2, <1>3, <1>4, <1>5, <1>6 DEF s, a

(* They lie one behind the other from the beginning of the slub to its end. *)
LEMMA Objects ==
  ASSUME NEW k \in Caches, NEW f \in Nat
  PROVE  /\ page_to_virt(f) \in Objs(k, f) /\ Objs(k, f) \subseteq Nat
         /\ \A w \in Objs(k, f) : page_to_virt(f) <= w /\ w + obj_size(k) <= End(k, f)
         /\ \A w \in Objs(k, f) : w + obj_size(k) \in Objs(k, f) \/ w + obj_size(k) = End(k, f)
         /\ \A v, w \in Objs(k, f) : v < w => v + obj_size(k) <= w
         /\ page_to_virt(f) \in Nat /\ End(k, f) \in Nat
         /\ End(k, f) = page_to_virt(f) + alloc_size(k)
<1> DEFINE s == obj_size(k)
           n == alloc_size(k) \div obj_size(k)
           b == page_to_virt(f)
<1>1. /\ s \in Nat \ {0} /\ n \in Nat \ {0} /\ alloc_size(k) = n * s /\ alloc_size(k) \in Nat
      /\ PAGE_SIZE \in Nat \ {0}
  BY Sizes
<1>2. b \in Nat
  BY <1>1 DEF page_to_virt
<1>3. /\ \A w : w \in Objs(k, f) <=> \E i \in 0 .. (n - 1) : w = b + i * s
      /\ End(k, f) = b + n * s
  BY <1>1 DEF Objs, End
<1> HIDE DEF s, n, b
<1>4. \A i \in Nat : i * s \in Nat /\ (i + 1) * s = i * s + s
  BY <1>1
<1>5. b \in Objs(k, f) /\ Objs(k, f) \subseteq Nat
  <2>1. 0 \in 0 .. (n - 1) /\ b = b + 0 * s
    BY <1>1, <1>2
  <2> QED
    BY <1>2, <1>3, <1>4, <2>1
<1>6. ASSUME NEW w \in Objs(k, f)
      PROVE  /\ b <= w /\ w + s <= End(k, f)
             /\ w + s \in Objs(k, f) \/ w + s = End(k, f)
  <2>1. PICK i \in 0 .. (n - 1) : w = b + i * s
    BY <1>3
  <2>2. i \in Nat /\ n \in Nat /\ i < n
    BY <1>1
  <2>3. i * s + s <= n * s
    BY <1>1, <2>2, Times
  <2>4. w + s = b + (i + 1) * s
    BY <1>1, <1>2, <1>4, <2>1, <2>2
  <2>5. CASE i + 1 = n
    BY <1>1, <1>2, <1>3, <1>4, <2>1, <2>2, <2>3, <2>4, <2>5
  <2>6. CASE i + 1 # n
    <3>1. i + 1 \in 0 .. (n - 1)
      BY <2>2, <2>6
    <3>2. w + s \in Objs(k, f)
      BY <1>3, <2>4, <3>1
    <3> QED
      BY <1>1, <1>2, <1>3, <1>4, <2>1, <2>2, <2>3, <3>2
  <2> QED
    BY <2>5, <2>6
<1>7. ASSUME NEW v \in Objs(k, f), NEW w \in Objs(k, f), v < w
      PROVE  v + s <= w
  <2>1. PICK i \in 0 .. (n - 1) : v = b + i * s
    BY <1>3
  <2>2. PICK j \in 0 .. (n - 1) : w = b + j * s
    BY <1>3
  <2>3. i \in Nat /\ j \in Nat /\ i * s \in Nat /\ j * s \in Nat /\ i * s < j * s
    BY <1>1, <1>2, <1>4, <1>7, <2>1, <2>2
  <2>4. i * s + s <= j * s
    BY <1>1, <2>3, Times
  <2> QED
    BY <1>1, <1>2, <2>1, <2>2, <2>3, <2>4
<1>8. End(k, f) \in Nat
  BY <1>1, <1>2 DEF End, b
<1> QED
  BY <1>2, <1>5, <1>6, <1>7, <1>8 DEF s, b, End

(* A slub's words lie in its frames.                                        *)
LEMMA InFrames ==
  ASSUME NEW k \in Caches, NEW f \in Nat, NEW w \in Nat, page_to_virt(f) <= w, w < End(k, f)
  PROVE  w \div PAGE_SIZE \in Pages!Span(<<f, slub_order(k)>>)
<1> DEFINE p == PAGE_SIZE
           c == 2^slub_order(k)
           q == w \div p
<1>1. p \in Nat \ {0} /\ c \in Nat \ {0}
  BY ShiftAssumption
<1>2. f * p <= w /\ w < f * p + p * c
  BY DEF page_to_virt, End, alloc_size
<1>3. f * p + p * c = (f + c) * p
  BY <1>1
<1>4. q \in Nat /\ q * p <= w /\ w < q * p + p
  <2>1. w % p \in 0 .. p - 1 /\ w = p * (w \div p) + (w % p) /\ w \div p \in Nat
    BY <1>1
  <2>2. p * (w \div p) = (w \div p) * p
    BY <1>1, <2>1
  <2> QED
    BY <1>1, <2>1, <2>2
<1> HIDE DEF p, c, q
<1>5. f <= q
  <2> SUFFICES ASSUME q < f PROVE FALSE
    BY <1>4
  <2>1. q * p + p <= f * p
    BY <1>1, <1>4, Times
  <2> QED
    BY <1>1, <1>2, <1>4, <2>1
<1>6. q < f + c
  <2> SUFFICES ASSUME f + c <= q PROVE FALSE
    BY <1>1, <1>4
  <2>1. f + c \in Nat
    BY <1>1
  <2>2. (f + c) * p <= q * p
    <3>1. f + c = q \/ f + c < q
      BY <1>1, <1>4
    <3>2. (f + c) * p \in Nat /\ q * p \in Nat
      BY <1>1, <1>4, <2>1
    <3> QED
      BY <1>1, <1>4, <2>1, <3>1, <3>2, Times
  <2>3. w < (f + c) * p
    BY <1>2, <1>3
  <2> QED
    BY <1>1, <1>4, <2>1, <2>2, <2>3
<1> QED
  BY <1>1, <1>4, <1>5, <1>6 DEF Pages!Span, c, q, p

LEMMA WordIn ==
  ASSUME NEW w \in Nat, w \div PAGE_SIZE \in Frames
  PROVE  w \in Words
<1> DEFINE q == w \div PAGE_SIZE
<1>1. PAGE_SIZE \in Nat \ {0}
  BY ShiftAssumption
<1>2. w % PAGE_SIZE \in 0 .. PAGE_SIZE - 1 /\ w = PAGE_SIZE * q + (w % PAGE_SIZE) /\ q \in Nat
  BY <1>1
<1> HIDE DEF q
<1>3. PAGE_SIZE * q = q * PAGE_SIZE /\ q * PAGE_SIZE \in Nat
  BY <1>1, <1>2
<1>4. w \in (q * PAGE_SIZE) .. (q * PAGE_SIZE + PAGE_SIZE - 1)
  <2> DEFINE z == q * PAGE_SIZE
             r == w % PAGE_SIZE
  <2>1. w = z + r /\ z \in Nat /\ r \in 0 .. PAGE_SIZE - 1
    BY <1>2, <1>3
  <2> HIDE DEF z, r
  <2>2. w \in z .. (z + PAGE_SIZE - 1)
    BY <1>1, <2>1
  <2> QED
    BY <2>2 DEF z
<1> QED
  BY <1>4 DEF Words, q

LEMMA WordsNat == Words \subseteq Nat /\ NULL \notin Words /\ Wild \notin Words
<1>1. \A f \in Frames : (f * PAGE_SIZE) .. (f * PAGE_SIZE + PAGE_SIZE - 1) \subseteq Nat
  <2>1. \A f \in Frames : f * PAGE_SIZE \in Nat
    BY SizeAssumption, ShiftAssumption
  <2> QED
    BY <2>1, ShiftAssumption
<1>2. Words \subseteq Nat
  BY <1>1 DEF Words
<1> QED
  BY <1>2 DEF NULL, Wild

(* Blocks that have no frame in common have no word in common.              *)
LEMMA WordsApart ==
  ASSUME NEW k \in Caches, NEW l \in Caches, NEW f \in Nat, NEW g \in Nat,
         Pages!Apart(<<f, slub_order(k)>>, <<g, slub_order(l)>>)
  PROVE  End(k, f) <= page_to_virt(g) \/ End(l, g) <= page_to_virt(f)
<1>1. ASSUME NEW a \in Nat, NEW b \in Nat, NEW j \in Caches, a + 2^slub_order(j) <= b
      PROVE  End(j, a) <= page_to_virt(b)
  <2> DEFINE p == PAGE_SIZE
             c == 2^slub_order(j)
  <2>1. p \in Nat \ {0} /\ c \in Nat \ {0} /\ End(j, a) = a * p + p * c /\ page_to_virt(b) = b * p
    BY ShiftAssumption DEF End, page_to_virt, alloc_size
  <2> HIDE DEF p, c
  <2>2. a * p + p * c = (a + c) * p
    BY <2>1
  <2>3. a + c \in Nat /\ a + c <= b
    BY <1>1, <2>1 DEF c
  <2>4. (a + c) * p <= b * p
    <3>1. a + c = b \/ a + c < b
      BY <2>3
    <3>2. (a + c) * p \in Nat /\ b * p \in Nat
      BY <2>1, <2>3
    <3> QED
      BY <2>1, <2>3, <3>1, <3>2, Times
  <2> QED
    BY <2>1, <2>2, <2>4
<1> QED
  BY <1>1 DEF Pages!Apart

-----------------------------------------------------------------------------
(* The inductive invariant.                                                 *)

(* What alloc_pages has handed out.                                         *)
BlocksOK ==
  /\ \A x \in blocks : \E k \in Caches, f \in Frames :
       /\ x = Blk(k, f)
       /\ Pages!Span(x[2]) \subseteq Frames
  /\ \A x, y \in blocks : x # y => Pages!Apart(x[2], y[2])

(* A block that has been cut into objects.                                  *)
Busy       == {new_slub[c] : c \in Cpus}
Done(k, f) == Blk(k, f) \in blocks /\ f \notin Busy

(* One CPU at a time is inside a cache.                                     *)
LockInv ==
  /\ \A c \in Cpus : pc[c] \in Critical => lock[kc[c]] = LOCK_USED
  /\ \A c, d \in Cpus : c # d /\ pc[c] \in Critical /\ pc[d] \in Critical => kc[c] # kc[d]

(* The slub that is being cut: the objects up to va point to the next ones. *)
Cutting(c) ==
  LET k == kc[c]
      f == new_slub[c] IN
  /\ f \in Frames /\ Blk(k, f) \in blocks
  /\ page_freelist[f] = page_to_virt(f)
  /\ (page_to_virt(f) + va[c]) - obj_size(k) \in Objs(k, f)
  /\ \A w \in Objs(k, f) :
       w + obj_size(k) < page_to_virt(f) + va[c] => mem[w] = w + obj_size(k)

(* The object a CPU is about to hand out.                                   *)
Handing(c) ==
  LET k == kc[c] IN
  /\ slub[k] # NULL /\ obj[c] \in Objs(k, slub[k])
  /\ freelist[k] # NULL => obj[c] < freelist[k]
  /\ <<k, obj[c]>> \notin given

CallInv ==
  \A c \in Cpus :
    /\ pc[c] # "trim" => new_slub[c] = NULL
    /\ pc[c] \notin {"pop", "unlock"} => obj[c] = NULL
    /\ pc[c] = "pop" => obj[c] # NULL /\ obj[c] = freelist[kc[c]]
    /\ pc[c] = "grow" => slub[kc[c]] = NULL
    /\ pc[c] = "trim" => slub[kc[c]] = NULL /\ Cutting(c)
    /\ pc[c] = "unlock" /\ obj[c] # NULL => Handing(c)

(* From the free list of a cache on the objects of its slub are chained, to *)
(* the end of the slub, and none of them has been handed out.               *)
ChainInv ==
  \A k \in Caches :
    /\ partial[k] = <<>>
    /\ slub[k] = NULL => freelist[k] = NULL
    /\ slub[k] # NULL => Done(k, slub[k])
    /\ freelist[k] # NULL =>
         /\ freelist[k] \in Objs(k, slub[k])
         /\ \A w \in Objs(k, slub[k]) : freelist[k] <= w =>
              /\ mem[w] = IF w + obj_size(k) = End(k, slub[k]) THEN NULL ELSE w + obj_size(k)
              /\ <<k, w>> \notin given

(* What has been handed out was an object.                                  *)
GivenInv ==
  \A o \in given : \E f \in Frames : Done(o[1], f) /\ o[2] \in Objs(o[1], f)

(* No object is lost.                                                       *)
Kept ==
  \A k \in Caches, f \in Frames : Done(k, f) =>
    \A w \in Objs(k, f) :
      <<k, w>> \in Gone \/ (slub[k] = f /\ freelist[k] # NULL /\ freelist[k] <= w)

IInv == TypeOK /\ BlocksOK /\ LockInv /\ CallInv /\ ChainInv /\ GivenInv /\ Kept

LEMMA FramesNat == Frames \subseteq Nat
BY SizeAssumption

(* The words of an object.                                                  *)
LEMMA ObjectWords ==
  ASSUME BlocksOK, NEW k \in Caches, NEW f \in Frames, Blk(k, f) \in blocks
  PROVE  /\ Objs(k, f) \subseteq Words
         /\ \A w \in Objs(k, f), u \in Nat : w <= u /\ u < w + obj_size(k) =>
              u \in Words /\ u \div PAGE_SIZE \in Pages!Span(<<f, slub_order(k)>>)
<1>1. Pages!Span(<<f, slub_order(k)>>) \subseteq Frames
  BY DEF BlocksOK, Blk
<1>2. f \in Nat /\ obj_size(k) \in Nat \ {0}
  BY FramesNat, Sizes
<1>3. ASSUME NEW w \in Objs(k, f), NEW u \in Nat, w <= u, u < w + obj_size(k)
      PROVE  u \in Words /\ u \div PAGE_SIZE \in Pages!Span(<<f, slub_order(k)>>)
  <2>1. /\ w \in Nat /\ page_to_virt(f) \in Nat /\ End(k, f) \in Nat
        /\ page_to_virt(f) <= w /\ w + obj_size(k) <= End(k, f)
    BY <1>2, Objects
  <2>2. page_to_virt(f) <= u /\ u < End(k, f)
    BY <1>2, <1>3, <2>1
  <2>3. u \div PAGE_SIZE \in Pages!Span(<<f, slub_order(k)>>)
    BY <1>2, <2>2, InFrames
  <2> QED
    BY <1>1, <2>3, WordIn
<1>4. ASSUME NEW w \in Objs(k, f)
      PROVE  w \in Words
  <2>1. w \in Nat /\ w < w + obj_size(k) /\ w <= w
    BY <1>2, Objects
  <2> QED
    BY <1>3, <2>1
<1> QED
  BY <1>3, <1>4

(* A block is known by its first frame.                                     *)
LEMMA OneBlock ==
  ASSUME BlocksOK, NEW k \in Caches, NEW l \in Caches, NEW f \in Frames,
         Blk(k, f) \in blocks, Blk(l, f) \in blocks
  PROVE  k = l
<1> SUFFICES ASSUME k # l PROVE FALSE
  OBVIOUS
<1>1. Blk(k, f) # Blk(l, f)
  BY DEF Blk
<1>2. Pages!Apart(<<f, slub_order(k)>>, <<f, slub_order(l)>>)
  BY <1>1 DEF BlocksOK, Blk
<1>3. End(k, f) <= page_to_virt(f) \/ End(l, f) <= page_to_virt(f)
  BY <1>2, FramesNat, WordsApart
<1>4. \A j \in Caches : page_to_virt(f) < End(j, f)
  <2> SUFFICES ASSUME NEW j \in Caches PROVE page_to_virt(f) < End(j, f)
    OBVIOUS
  <2>1. f \in Nat
    BY FramesNat
  <2>2. page_to_virt(f) \in Nat /\ End(j, f) = page_to_virt(f) + alloc_size(j)
    BY <2>1, Objects
  <2>3. alloc_size(j) \in Nat \ {0}
    BY Sizes
  <2> QED
    BY <2>2, <2>3
<1>5. page_to_virt(f) \in Nat /\ End(k, f) \in Nat /\ End(l, f) \in Nat
  BY FramesNat, Objects
<1> QED
  BY <1>3, <1>4, <1>5

(* Objects have no word in common.                                          *)
LEMMA Disjoint ==
  ASSUME BlocksOK, NEW k \in Caches, NEW l \in Caches, NEW f \in Frames, NEW g \in Frames,
         Blk(k, f) \in blocks, Blk(l, g) \in blocks,
         NEW v \in Objs(k, f), NEW w \in Objs(l, g), k # l \/ f # g \/ v # w
  PROVE  v + obj_size(k) <= w \/ w + obj_size(l) <= v
<1>1. f \in Nat /\ g \in Nat /\ obj_size(k) \in Nat \ {0} /\ obj_size(l) \in Nat \ {0}
  BY FramesNat, Sizes
<1>2. /\ v \in Nat /\ page_to_virt(f) <= v /\ v + obj_size(k) <= End(k, f)
      /\ w \in Nat /\ page_to_virt(g) <= w /\ w + obj_size(l) <= End(l, g)
      /\ page_to_virt(f) \in Nat /\ page_to_virt(g) \in Nat /\ End(k, f) \in Nat /\ End(l, g) \in Nat
  BY <1>1, Objects
<1>3. CASE Blk(k, f) = Blk(l, g)
  <2>1. k = l /\ f = g
    BY <1>3 DEF Blk
  <2>2. v < w \/ w < v
    BY <1>2, <2>1
  <2> QED
    BY <1>1, <2>1, <2>2, Objects
<1>4. CASE Blk(k, f) # Blk(l, g)
  <2>1. Pages!Apart(<<f, slub_order(k)>>, <<g, slub_order(l)>>)
    BY <1>4 DEF BlocksOK, Blk
  <2>2. End(k, f) <= page_to_virt(g) \/ End(l, g) <= page_to_virt(f)
    BY <1>1, <2>1, WordsApart
  <2> QED
    BY <1>1, <1>2, <2>2
<1> QED
  BY <1>3, <1>4

(* The first free object of a cache and those behind it.                    *)
LEMMA Chained ==
  ASSUME TypeOK, BlocksOK, ChainInv, NEW k \in Caches, freelist[k] # NULL
  PROVE  /\ slub[k] \in Frames /\ Done(k, slub[k]) /\ Blk(k, slub[k]) \in blocks
         /\ freelist[k] \in Objs(k, slub[k]) /\ freelist[k] \in Words /\ freelist[k] \in Nat
         /\ \A w \in Objs(k, slub[k]) : freelist[k] <= w =>
              /\ mem[w] = IF w + obj_size(k) = End(k, slub[k]) THEN NULL ELSE w + obj_size(k)
              /\ mem[w] = NULL \/ mem[w] \in Objs(k, slub[k])
              /\ <<k, w>> \notin given
<1>1. slub[k] \in Frames /\ Done(k, slub[k]) /\ freelist[k] \in Objs(k, slub[k])
  BY DEF ChainInv, TypeOK
<1>2. Blk(k, slub[k]) \in blocks /\ slub[k] \in Nat
  BY <1>1, FramesNat DEF Done
<1>3. freelist[k] \in Words /\ freelist[k] \in Nat
  BY <1>1, <1>2, ObjectWords, WordsNat
<1>4. \A w \in Objs(k, slub[k]) : freelist[k] <= w =>
        /\ mem[w] = IF w + obj_size(k) = End(k, slub[k]) THEN NULL ELSE w + obj_size(k)
        /\ <<k, w>> \notin given
  BY DEF ChainInv
<1>5. \A w \in Objs(k, slub[k]) :
        w + obj_size(k) \in Objs(k, slub[k]) \/ w + obj_size(k) = End(k, slub[k])
  BY <1>2, Objects
<1> QED
  BY <1>1, <1>2, <1>3, <1>4, <1>5

-----------------------------------------------------------------------------
(* The steps.                                                               *)

(* Steps that leave the caches' objects alone.                              *)
LEMMA QuietStep ==
  ASSUME IInv, freelist' = freelist, slub' = slub, partial' = partial, mem' = mem,
         blocks' = blocks, given' = given, new_slub' = new_slub, Gone' = Gone
  PROVE  BlocksOK' /\ ChainInv' /\ GivenInv' /\ Kept'
<1>1. BlocksOK /\ ChainInv /\ GivenInv /\ Kept
  BY DEF IInv
<1>2. Busy' = Busy /\ \A k, f : Done(k, f)' = Done(k, f)
  BY DEF Busy, Done
<1>3. BlocksOK'
  BY <1>1 DEF BlocksOK
<1>4. ChainInv'
  BY <1>1, <1>2 DEF ChainInv
<1>5. GivenInv'
  BY <1>1, <1>2 DEF GivenInv
<1>6. Kept'
  BY <1>1, <1>2 DEF Kept
<1> QED
  BY <1>3, <1>4, <1>5, <1>6

LEMMA HandSame ==
  ASSUME NEW c \in Cpus, NEW to, NEW from, TypeOK,
         pc' = [pc EXCEPT ![c] = to], pc[c] = from,
         \A d \in Cpus \ {c} : kc'[d] = kc[d] /\ obj'[d] = obj[d],
         from # "unlock" \/ obj[c] = NULL, to # "unlock" \/ obj'[c] = NULL,
         given' = given
  PROVE  Gone' = Gone
<1>1. \A d \in Cpus : d # c => pc'[d] = pc[d]
  BY DEF TypeOK
<1>2. pc'[c] = to
  BY DEF TypeOK
<1>3. {d \in Cpus : pc[d] = "unlock" /\ obj[d] # NULL}
        = {d \in Cpus \ {c} : pc[d] = "unlock" /\ obj[d] # NULL}
  OBVIOUS
<1>4. {d \in Cpus : pc'[d] = "unlock" /\ obj'[d] # NULL}
        = {d \in Cpus \ {c} : pc[d] = "unlock" /\ obj[d] # NULL}
  BY <1>1, <1>2
<1>5. InHand' = InHand
  BY <1>3, <1>4 DEF InHand
<1> QED
  BY <1>5 DEF Gone

LEMMA KmallocStep ==
  ASSUME IInv, NEW c \in Cpus, NEW sz \in Requests, Kmalloc(c, sz)
  PROVE  IInv'
<1>1. TypeOK /\ LockInv /\ CallInv
  BY DEF IInv
<1>2. slub_index(sz) \in Caches
  <2> DEFINE T == {k \in Caches : sz <= obj_size(k)}
  <2>1. sz \in Nat /\ Caches \subseteq Nat /\ \A k \in Caches : obj_size(k) \in Nat
    BY SizeAssumption, Sizes DEF Caches
  <2>2. \E k \in Caches : sz <= obj_size(k)
    BY DEF Kmalloc, slub_index
  <2>3. PICK k \in T : \A j \in T : k <= j
    BY <2>1, <2>2, Smallest
  <2>4. \A j \in Caches : j < k => obj_size(j) < sz
    BY <2>1, <2>3
  <2>5. \E i \in Caches : sz <= obj_size(i) /\ \A j \in Caches : j < i => obj_size(j) < sz
    BY <2>3, <2>4
  <2> QED
    BY <2>2, <2>5 DEF slub_index
<1>3. /\ pc[c] = "idle" /\ pc' = [pc EXCEPT ![c] = "lock"]
      /\ kc' = [kc EXCEPT ![c] = slub_index(sz)]
      /\ UNCHANGED <<caches, memory, obj, new_slub, va, past>>
  BY DEF Kmalloc, Goto
<1>4. TypeOK'
  BY <1>1, <1>2, <1>3 DEF TypeOK, caches, memory, past
<1>5. LockInv'
  BY <1>1, <1>3 DEF TypeOK, LockInv, Critical, caches
<1>6. CallInv'
  BY <1>1, <1>3 DEF TypeOK, CallInv, Cutting, Handing, caches, memory, past
<1>7. Gone' = Gone
  BY <1>1, <1>3, HandSame DEF TypeOK, past
<1>8. BlocksOK' /\ ChainInv' /\ GivenInv' /\ Kept'
  BY <1>3, <1>7, QuietStep DEF caches, memory, past
<1> QED
  BY <1>4, <1>5, <1>6, <1>8 DEF IInv

LEMMA LockStep ==
  ASSUME IInv, NEW c \in Cpus, Lock(c)
  PROVE  IInv'
<1>1. TypeOK /\ LockInv /\ CallInv
  BY DEF IInv
<1>2. /\ pc[c] = "lock" /\ pc' = [pc EXCEPT ![c] = "redo"]
      /\ lock[kc[c]] = LOCK_FREE /\ lock' = [lock EXCEPT ![kc[c]] = LOCK_USED]
      /\ UNCHANGED <<freelist, slub, full, partial, memory, kc, obj, new_slub, va, past>>
  BY DEF Lock, Goto, spin_lock
<1>3. TypeOK'
  BY <1>1, <1>2 DEF TypeOK, memory, past, Critical
<1>4. LockInv'
  BY <1>1, <1>2 DEF TypeOK, LockInv, Critical, LOCK_FREE, LOCK_USED
<1>5. CallInv'
  BY <1>1, <1>2 DEF TypeOK, CallInv, Cutting, Handing, memory, past
<1>6. Gone' = Gone
  BY <1>1, <1>2, HandSame DEF TypeOK, past
<1>7. BlocksOK' /\ ChainInv' /\ GivenInv' /\ Kept'
  BY <1>2, <1>6, QuietStep DEF memory, past
<1> QED
  BY <1>3, <1>4, <1>5, <1>7 DEF IInv

LEMMA TakeStep ==
  ASSUME IInv, NEW c \in Cpus, Take(c)
  PROVE  IInv'
<1>1. TypeOK /\ LockInv /\ CallInv
  BY DEF IInv
<1>2. /\ pc[c] = "redo" /\ pc' = [pc EXCEPT ![c] = "pop"]
      /\ freelist[kc[c]] # NULL /\ obj' = [obj EXCEPT ![c] = freelist[kc[c]]]
      /\ UNCHANGED <<caches, memory, kc, new_slub, va, past>>
  BY DEF Take, Goto
<1>3. TypeOK'
  BY <1>1, <1>2 DEF TypeOK, caches, memory, past, Critical
<1>4. LockInv'
  BY <1>1, <1>2 DEF TypeOK, LockInv, Critical, caches
<1>5. CallInv'
  BY <1>1, <1>2 DEF TypeOK, CallInv, Cutting, Handing, caches, memory, past
<1>6. Gone' = Gone
  BY <1>1, <1>2, HandSame DEF TypeOK, past
<1>7. BlocksOK' /\ ChainInv' /\ GivenInv' /\ Kept'
  BY <1>2, <1>6, QuietStep DEF caches, memory, past
<1> QED
  BY <1>3, <1>4, <1>5, <1>7 DEF IInv

LEMMA GrowFailStep ==
  ASSUME IInv, NEW c \in Cpus, GrowFail(c)
  PROVE  IInv'
<1>1. TypeOK /\ LockInv /\ CallInv
  BY DEF IInv
<1>2. /\ pc[c] = "grow" /\ pc' = [pc EXCEPT ![c] = "unlock"]
      /\ UNCHANGED <<caches, memory, kc, obj, new_slub, va, past>>
  BY DEF GrowFail, Goto
<1>3. TypeOK'
  BY <1>1, <1>2 DEF TypeOK, caches, memory, past, Critical
<1>4. LockInv'
  BY <1>1, <1>2 DEF TypeOK, LockInv, Critical, caches
<1>5. CallInv'
  BY <1>1, <1>2 DEF TypeOK, CallInv, Cutting, Handing, caches, memory, past
<1>6. Gone' = Gone
  BY <1>1, <1>2, HandSame DEF TypeOK, CallInv, past
<1>7. BlocksOK' /\ ChainInv' /\ GivenInv' /\ Kept'
  BY <1>2, <1>6, QuietStep DEF caches, memory, past
<1> QED
  BY <1>3, <1>4, <1>5, <1>7 DEF IInv

(* What a CPU takes to hand out is gone from the caches.                    *)
LEMMA HandGrows ==
  ASSUME NEW c \in Cpus, TypeOK, pc[c] # "unlock", pc' = [pc EXCEPT ![c] = "unlock"],
         kc' = kc, obj' = obj, given' = given
  PROVE  Gone \subseteq Gone' /\ (obj[c] # NULL => <<kc[c], obj[c]>> \in Gone')
<1>1. \A d \in Cpus : pc[d] = "unlock" => pc'[d] = "unlock"
  BY DEF TypeOK
<1>2. pc'[c] = "unlock"
  BY DEF TypeOK
<1>3. InHand \subseteq InHand'
  BY <1>1 DEF InHand
<1>4. obj[c] # NULL => <<kc[c], obj[c]>> \in InHand'
  BY <1>2 DEF InHand
<1> QED
  BY <1>3, <1>4 DEF Gone

LEMMA NullNoFrame == NULL \notin Frames
BY FramesNat DEF NULL

LEMMA PopStep ==
  ASSUME IInv, NEW c \in Cpus, Pop(c)
  PROVE  IInv'
<1> DEFINE k == kc[c]
           w0 == freelist[k]
<1>1. TypeOK /\ BlocksOK /\ LockInv /\ CallInv /\ ChainInv /\ GivenInv /\ Kept
  BY DEF IInv
<1>2. /\ pc[c] = "pop" /\ pc' = [pc EXCEPT ![c] = "unlock"]
      /\ freelist' = [freelist EXCEPT ![k] = mem[w0]]
      /\ UNCHANGED <<lock, slub, full, partial, memory, kc, obj, new_slub, va, past>>
  BY DEF Pop, Goto
<1>3. k \in Caches /\ obj[c] # NULL /\ obj[c] = w0 /\ w0 # NULL
  BY <1>1, <1>2 DEF TypeOK, CallInv
<1>4. /\ slub[k] \in Frames /\ Blk(k, slub[k]) \in blocks
      /\ w0 \in Objs(k, slub[k]) /\ w0 \in Words /\ w0 \in Nat /\ slub[k] # NULL
      /\ mem[w0] = IF w0 + obj_size(k) = End(k, slub[k]) THEN NULL ELSE w0 + obj_size(k)
      /\ mem[w0] = NULL \/ mem[w0] \in Objs(k, slub[k])
      /\ <<k, w0>> \notin given
  BY <1>1, <1>3, Chained, NullNoFrame
<1>5. obj_size(k) \in Nat \ {0} /\ Objs(k, slub[k]) \subseteq Words /\ Words \subseteq Nat
  BY <1>1, <1>3, <1>4, Sizes, ObjectWords, WordsNat
<1>6. freelist'[k] = mem[w0] /\ \A j \in Caches : j # k => freelist'[j] = freelist[j]
  BY <1>1, <1>2, <1>3 DEF TypeOK
<1>7. freelist'[k] # NULL => freelist'[k] = w0 + obj_size(k) /\ w0 < freelist'[k]
  BY <1>4, <1>5, <1>6
<1>8. TypeOK'
  <2>1. mem[w0] \in Words \cup {NULL}
    BY <1>4, <1>5
  <2>2. freelist' \in [Caches -> Words \cup {NULL}]
    BY <1>1, <1>2, <1>3, <2>1 DEF TypeOK
  <2>3. pc' \in [Cpus -> {"idle", "lock"} \cup Critical]
    BY <1>1, <1>2 DEF TypeOK, Critical
  <2> QED
    BY <1>1, <1>2, <2>2, <2>3 DEF TypeOK, memory, past
<1>9. BlocksOK' /\ GivenInv'
  BY <1>1, <1>2 DEF BlocksOK, GivenInv, Done, Busy, past
<1>10. LockInv'
  BY <1>1, <1>2 DEF TypeOK, LockInv, Critical
<1>11. CallInv'
  <2>1. pc'[c] = "unlock" /\ \A d \in Cpus : d # c => pc'[d] = pc[d]
    BY <1>1, <1>2 DEF TypeOK
  <2>2. Handing(c)'
    BY <1>2, <1>3, <1>4, <1>7 DEF Handing, past
  <2>3. \A d \in Cpus : d # c /\ pc[d] \in Critical => freelist'[kc[d]] = freelist[kc[d]]
    <3>1. \A d \in Cpus : d # c /\ pc[d] \in Critical => kc[d] # k /\ kc[d] \in Caches
      BY <1>1, <1>2 DEF LockInv, TypeOK, Critical
    <3> QED
      BY <1>6, <3>1
  <2>4. \A d \in Cpus : Cutting(d)' = Cutting(d)
    BY <1>2 DEF Cutting, memory, past
  <2>5. \A d \in Cpus : d # c /\ pc[d] = "unlock" => Handing(d)' = Handing(d)
    BY <1>2, <2>3 DEF Handing, past, Critical
  <2> QED
    BY <1>1, <1>2, <2>1, <2>2, <2>3, <2>4, <2>5 DEF CallInv, Critical
<1>12. ChainInv'
  <2>1. \A j, f : Done(j, f)' = Done(j, f)
    BY <1>2 DEF Done, Busy, past
  <2>2. ASSUME freelist'[k] # NULL, NEW w \in Objs(k, slub[k]), freelist'[k] <= w
        PROVE  w0 <= w
    <3>1. w \in Nat /\ w0 \in Nat /\ obj_size(k) \in Nat
      BY <1>4, <1>5
    <3>2. w0 + obj_size(k) <= w
      BY <1>7, <2>2
    <3> HIDE DEF k, w0
    <3> QED
      BY <3>1, <3>2
  <2>3. freelist'[k] # NULL =>
          /\ freelist'[k] \in Objs(k, slub[k])
          /\ \A w \in Objs(k, slub[k]) : freelist'[k] <= w =>
              /\ mem[w] = IF w + obj_size(k) = End(k, slub[k]) THEN NULL ELSE w + obj_size(k)
              /\ <<k, w>> \notin given
    BY <1>1, <1>3, <1>4, <1>6, <2>2 DEF ChainInv
  <2> QED
    BY <1>1, <1>2, <1>3, <1>4, <1>6, <2>1, <2>3 DEF ChainInv, memory, past
<1>13. Kept'
  <2>1. Gone \subseteq Gone' /\ <<k, w0>> \in Gone'
    BY <1>1, <1>2, <1>3, HandGrows DEF past
  <2>2. ASSUME NEW w \in Objs(k, slub[k]), w0 <= w, w # w0
        PROVE  freelist'[k] # NULL /\ freelist'[k] <= w
    <3>1. /\ w \in Nat /\ End(k, slub[k]) \in Nat /\ w + obj_size(k) <= End(k, slub[k])
          /\ w0 < w => w0 + obj_size(k) <= w
      BY <1>3, <1>4, FramesNat, Objects
    <3>2. w0 + obj_size(k) <= w /\ w0 + obj_size(k) # End(k, slub[k])
      BY <1>4, <1>5, <2>2, <3>1
    <3> QED
      BY <1>4, <1>5, <1>6, <3>2 DEF NULL
  <2>3. ASSUME NEW j \in Caches, NEW f \in Frames, Done(j, f)', NEW w \in Objs(j, f)
        PROVE  <<j, w>> \in Gone' \/ (slub'[j] = f /\ freelist'[j] # NULL /\ freelist'[j] <= w)
    <3>1. <<j, w>> \in Gone \/ (slub[j] = f /\ freelist[j] # NULL /\ freelist[j] <= w)
      BY <1>1, <1>2, <2>3 DEF Kept, Done, Busy, past
    <3> QED
      BY <1>2, <1>6, <2>1, <2>2, <3>1
  <2> QED
    BY <2>3 DEF Kept
<1> QED
  BY <1>8, <1>9, <1>10, <1>11, <1>12, <1>13 DEF IInv

LEMMA RefillStep ==
  ASSUME IInv, NEW c \in Cpus, Refill(c)
  PROVE  IInv'
<1> DEFINE k == kc[c]
<1>1. TypeOK /\ BlocksOK /\ LockInv /\ CallInv /\ ChainInv /\ GivenInv /\ Kept
  BY DEF IInv
<1>2. k \in Caches /\ pc[c] = "redo" /\ freelist[k] = NULL
  BY <1>1 DEF TypeOK, Refill
<1>3. L!list_empty(partial[k])
  BY <1>1, <1>2 DEF ChainInv, L!list_empty
<1>4. /\ slub' = [slub EXCEPT ![k] = NULL] /\ pc' = [pc EXCEPT ![c] = "grow"]
      /\ full' = IF slub[k] = NULL THEN full ELSE [full EXCEPT ![k] = L!list_add_next(@, slub[k])]
      /\ UNCHANGED <<freelist, partial, lock, memory, kc, obj, new_slub, va, past>>
  BY <1>2, <1>3 DEF Refill
<1>5. slub'[k] = NULL /\ \A j \in Caches : j # k => slub'[j] = slub[j]
  BY <1>1, <1>2, <1>4 DEF TypeOK
<1>6. TypeOK'
  <2>1. full' \in [Caches -> Seq(Frames)]
    <3>1. slub[k] # NULL => L!list_add_next(full[k], slub[k]) \in Seq(Frames)
      BY <1>1, <1>2 DEF TypeOK, L!list_add_next
    <3> QED
      BY <1>1, <1>2, <1>4, <3>1 DEF TypeOK
  <2>2. slub' \in [Caches -> Frames \cup {NULL}] /\ pc' \in [Cpus -> {"idle", "lock"} \cup Critical]
    BY <1>1, <1>4 DEF TypeOK, Critical
  <2> QED
    BY <1>1, <1>4, <2>1, <2>2 DEF TypeOK, memory, past
<1>7. BlocksOK' /\ GivenInv'
  BY <1>1, <1>4 DEF BlocksOK, GivenInv, Done, Busy, past
<1>8. LockInv'
  BY <1>1, <1>2, <1>4 DEF TypeOK, LockInv, Critical
<1>9. CallInv'
  <2>1. pc'[c] = "grow" /\ \A d \in Cpus : d # c => pc'[d] = pc[d]
    BY <1>1, <1>4 DEF TypeOK
  <2>2. \A d \in Cpus : d # c /\ pc[d] \in Critical => slub'[kc[d]] = slub[kc[d]]
    <3>1. \A d \in Cpus : d # c /\ pc[d] \in Critical => kc[d] # k /\ kc[d] \in Caches
      BY <1>1, <1>2 DEF LockInv, TypeOK, Critical
    <3> QED
      BY <1>5, <3>1
  <2>3. \A d \in Cpus : Cutting(d)' = Cutting(d)
    BY <1>4 DEF Cutting, memory, past
  <2>4. \A d \in Cpus : d # c /\ pc[d] = "unlock" => Handing(d)' = Handing(d)
    BY <1>4, <2>2 DEF Handing, past, Critical
  <2> QED
    BY <1>1, <1>2, <1>4, <1>5, <2>1, <2>2, <2>3, <2>4 DEF CallInv, Critical
<1>10. ChainInv'
  <2>1. \A j, f : Done(j, f)' = Done(j, f)
    BY <1>4 DEF Done, Busy, past
  <2> QED
    BY <1>1, <1>2, <1>4, <1>5, <2>1 DEF ChainInv, memory, past
<1>11. Kept'
  <2>1. Gone' = Gone
    BY <1>1, <1>2, <1>4, HandSame DEF TypeOK, past
  <2> QED
    BY <1>1, <1>2, <1>4, <1>5, <2>1 DEF Kept, Done, Busy, past
<1> QED
  BY <1>6, <1>7, <1>8, <1>9, <1>10, <1>11 DEF IInv

LEMMA UnlockStep ==
  ASSUME IInv, NEW c \in Cpus, Unlock(c)
  PROVE  IInv'
<1> DEFINE k == kc[c]
           got == IF obj[c] = NULL THEN {} ELSE {<<k, obj[c]>>}
<1>1. TypeOK /\ BlocksOK /\ LockInv /\ CallInv /\ ChainInv /\ GivenInv /\ Kept
  BY DEF IInv
<1>2. /\ pc[c] = "unlock" /\ pc' = [pc EXCEPT ![c] = "idle"]
      /\ lock' = [lock EXCEPT ![k] = LOCK_FREE]
      /\ given' = given \cup got /\ obj' = [obj EXCEPT ![c] = NULL] /\ kc' = [kc EXCEPT ![c] = 0]
      /\ UNCHANGED <<freelist, slub, full, partial, memory, new_slub, va, blocks, refused>>
  BY DEF Unlock, Goto, spin_unlock
<1>3. k \in Caches /\ 0 \in Caches /\ new_slub[c] = NULL
  BY <1>1, <1>2, SizeAssumption DEF TypeOK, Caches, CallInv
<1>4. obj[c] # NULL => /\ slub[k] \in Frames /\ Done(k, slub[k]) /\ obj[c] \in Objs(k, slub[k])
                       /\ freelist[k] # NULL => obj[c] < freelist[k]
                       /\ obj[c] \in Words
  BY <1>1, <1>2, <1>3 DEF CallInv, Handing, ChainInv, TypeOK
<1>5. /\ pc'[c] = "idle" /\ obj'[c] = NULL
      /\ \A d \in Cpus : d # c => pc'[d] = pc[d] /\ obj'[d] = obj[d] /\ kc'[d] = kc[d]
  BY <1>1, <1>2 DEF TypeOK
<1>6. TypeOK'
  <2>1. given' \subseteq Caches \X Words
    BY <1>1, <1>2, <1>3, <1>4 DEF TypeOK
  <2>2. /\ lock' \in [Caches -> {LOCK_FREE, LOCK_USED}] /\ kc' \in [Cpus -> Caches]
        /\ obj' \in [Cpus -> Words \cup {NULL}] /\ pc' \in [Cpus -> {"idle", "lock"} \cup Critical]
    BY <1>1, <1>2, <1>3 DEF TypeOK
  <2> QED
    BY <1>1, <1>2, <2>1, <2>2 DEF TypeOK, memory
<1>7. \A j, f : Done(j, f)' = Done(j, f)
  BY <1>2 DEF Done, Busy
<1>8. BlocksOK'
  BY <1>1, <1>2 DEF BlocksOK
<1>9. GivenInv'
  BY <1>1, <1>2, <1>4, <1>7 DEF GivenInv
<1>10. LockInv'
  <2>1. \A d \in Cpus : d # c /\ pc[d] \in Critical => kc[d] # k /\ kc[d] \in Caches
    BY <1>1, <1>2 DEF LockInv, TypeOK, Critical
  <2>2. \A d \in Cpus : d # c /\ pc[d] \in Critical => lock'[kc[d]] = lock[kc[d]]
    BY <1>1, <1>2, <2>1 DEF TypeOK
  <2> QED
    BY <1>1, <1>5, <2>2 DEF LockInv, Critical
<1>11. CallInv'
  <2>1. \A d \in Cpus : d # c => Cutting(d)' = Cutting(d)
    BY <1>2, <1>5 DEF Cutting, memory
  <2>2. \A d \in Cpus : d # c /\ pc[d] = "unlock" /\ Handing(d) => Handing(d)'
    <3>1. \A d \in Cpus : d # c /\ pc[d] = "unlock" => kc[d] # k
      BY <1>1, <1>2 DEF LockInv, Critical
    <3> QED
      BY <1>2, <1>5, <3>1 DEF Handing
  <2> QED
    BY <1>1, <1>2, <1>3, <1>5, <2>1, <2>2 DEF CallInv
<1>12. ChainInv'
  <2>1. ASSUME NEW j \in Caches, freelist[j] # NULL, NEW w \in Objs(j, slub[j]), freelist[j] <= w,
               <<j, w>> \notin given
        PROVE  <<j, w>> \notin given'
    <3>1. CASE obj[c] # NULL /\ j = k
      <4>1. obj[c] < freelist[k] /\ obj[c] \in Nat /\ freelist[k] \in Nat /\ w \in Nat
        <5>1. Objs(k, slub[k]) \subseteq Nat
          BY <1>3, <1>4, <3>1, FramesNat, Objects
        <5>2. freelist[k] \in Words
          BY <1>1, <1>3, <2>1, <3>1 DEF TypeOK
        <5> QED
          BY <1>4, <2>1, <3>1, <5>1, <5>2, WordsNat
      <4>2. w # obj[c]
        BY <2>1, <3>1, <4>1
      <4> QED
        BY <1>2, <2>1, <4>2
    <3>2. CASE ~(obj[c] # NULL /\ j = k)
      BY <1>2, <2>1, <3>2
    <3> QED
      BY <3>1, <3>2
  <2> QED
    BY <1>1, <1>2, <1>7, <2>1 DEF ChainInv, memory
<1>13. Gone' = Gone
  <2>1. \A o : o \in InHand <=> \/ obj[c] # NULL /\ o = <<k, obj[c]>>
                               \/ \E d \in Cpus \ {c} : pc[d] = "unlock" /\ obj[d] # NULL
                                                        /\ o = <<kc[d], obj[d]>>
    BY <1>2 DEF InHand
  <2>2. \A o : o \in InHand' <=> \E d \in Cpus \ {c} : pc[d] = "unlock" /\ obj[d] # NULL
                                                       /\ o = <<kc[d], obj[d]>>
    BY <1>5 DEF InHand
  <2> QED
    BY <1>2, <2>1, <2>2 DEF Gone
<1>14. Kept'
  BY <1>1, <1>2, <1>7, <1>13 DEF Kept
<1> QED
  BY <1>6, <1>8, <1>9, <1>10, <1>11, <1>12, <1>14 DEF IInv

LEMMA GrowStep ==
  ASSUME IInv, NEW c \in Cpus, NEW f \in Frames, Grow(c, <<f, slub_order(kc[c])>>)
  PROVE  IInv'
<1> DEFINE k == kc[c]
           b == <<f, slub_order(k)>>
<1>1. TypeOK /\ BlocksOK /\ LockInv /\ CallInv /\ ChainInv /\ GivenInv /\ Kept
  BY DEF IInv
<1>2. /\ pc[c] = "grow" /\ pc' = [pc EXCEPT ![c] = "trim"]
      /\ Pages!Span(b) \subseteq Frames /\ \A x \in blocks : Pages!Apart(b, x[2])
      /\ blocks' = blocks \cup {Blk(k, f)} /\ new_slub' = [new_slub EXCEPT ![c] = f]
      /\ page_freelist' = [page_freelist EXCEPT ![f] = page_to_virt(f)]
      /\ va' = [va EXCEPT ![c] = obj_size(k)]
      /\ UNCHANGED <<caches, mem, kc, obj, given, refused>>
  BY DEF Grow, Goto, Blk
<1>3. k \in Caches /\ new_slub[c] = NULL /\ slub[k] = NULL
  BY <1>1, <1>2 DEF TypeOK, CallInv
<1>4. \A g \in Frames, j \in Caches : Blk(j, g) \in blocks => g # f
  <2> SUFFICES ASSUME NEW j \in Caches, Blk(j, f) \in blocks PROVE FALSE
    OBVIOUS
  <2>1. Pages!Apart(<<f, slub_order(k)>>, <<f, slub_order(j)>>)
    BY <1>2 DEF Blk
  <2>2. f \in Nat /\ 2^slub_order(k) \in Nat \ {0} /\ 2^slub_order(j) \in Nat \ {0}
    BY <1>3, FramesNat, ShiftAssumption
  <2> QED
    BY <2>1, <2>2 DEF Pages!Apart
<1>5. page_to_virt(f) \in Objs(k, f) /\ page_to_virt(f) \in Nat /\ Objs(k, f) \subseteq Nat
      /\ \A w \in Objs(k, f) : page_to_virt(f) <= w
  BY <1>3, FramesNat, Objects
<1>6. obj_size(k) \in Nat \ {0}
  BY <1>3, Sizes
<1>7. BlocksOK'
  <2>1. \A x \in blocks' : \E j \in Caches, g \in Frames :
          x = Blk(j, g) /\ Pages!Span(x[2]) \subseteq Frames
    BY <1>1, <1>2, <1>3 DEF BlocksOK, Blk
  <2>2. \A x \in blocks : Pages!Apart(b, x[2]) /\ Pages!Apart(x[2], b)
    BY <1>2 DEF Pages!Apart
  <2>3. Blk(k, f)[2] = b
    BY DEF Blk
  <2>4. \A x, y \in blocks' : x # y => Pages!Apart(x[2], y[2])
    BY <1>1, <1>2, <2>2, <2>3 DEF BlocksOK
  <2> QED
    BY <2>1, <2>4 DEF BlocksOK
<1>8. \A j \in Caches, g \in Frames : Done(j, g)' <=> Done(j, g)
  <2>1. Busy' = (Busy \ {NULL}) \cup {f} \/ Busy' = Busy \cup {f}
    <3>1. new_slub'[c] = f /\ \A d \in Cpus : d # c => new_slub'[d] = new_slub[d]
      BY <1>1, <1>2 DEF TypeOK
    <3>2. \A d \in Cpus : d # c => new_slub[d] \in Busy'
      BY <3>1 DEF Busy
    <3>3. f \in Busy' /\ Busy' \subseteq Busy \cup {f}
      BY <3>1 DEF Busy
    <3>4. Busy \subseteq Busy' \cup {NULL}
      BY <1>3, <3>2 DEF Busy
    <3> QED
      BY <3>3, <3>4
  <2>2. \A j \in Caches, g \in Frames : Blk(j, g) \in blocks' /\ g # f => Blk(j, g) \in blocks
    BY <1>2 DEF Blk
  <2>3. \A g \in Frames : g \in Busy' <=> g \in Busy \/ g = f
    BY <2>1, NullNoFrame
  <2> QED
    BY <1>2, <1>4, <2>2, <2>3 DEF Done
<1>9. TypeOK'
  <2>1. page_to_virt(f) \in Words
    <3>1. Blk(k, f) \in blocks'
      BY <1>2
    <3>2. page_to_virt(f) \in Nat /\ page_to_virt(f) < End(k, f)
      BY <1>3, <1>6, FramesNat, Objects, Sizes
    <3>3. page_to_virt(f) \div PAGE_SIZE \in Pages!Span(<<f, slub_order(k)>>)
      BY <1>3, <3>2, FramesNat, InFrames
    <3> QED
      BY <1>2, <3>2, <3>3, WordIn
  <2>2. Blk(k, f) \in Caches \X (Frames \X Orders)
    BY <1>3, ShiftAssumption DEF Blk
  <2>3. blocks' \subseteq Caches \X (Frames \X Orders)
    BY <1>1, <1>2, <2>2 DEF TypeOK
  <2>4. /\ page_freelist' \in [Frames -> Words \cup {NULL}]
        /\ new_slub' \in [Cpus -> Frames \cup {NULL}] /\ va' \in [Cpus -> Nat]
        /\ pc' \in [Cpus -> {"idle", "lock"} \cup Critical]
    BY <1>1, <1>2, <1>6, <2>1 DEF TypeOK, Critical
  <2> QED
    BY <1>1, <1>2, <2>3, <2>4 DEF TypeOK, caches
<1>10. LockInv'
  BY <1>1, <1>2 DEF TypeOK, LockInv, Critical, caches
<1>11. GivenInv'
  <2>1. \A o \in given : o[1] \in Caches
    BY <1>1 DEF TypeOK
  <2> QED
    BY <1>1, <1>2, <1>8, <2>1 DEF GivenInv
<1>12. CallInv'
  <2>1. /\ pc'[c] = "trim" /\ new_slub'[c] = f /\ va'[c] = obj_size(k) /\ obj'[c] = obj[c]
        /\ \A d \in Cpus : d # c => pc'[d] = pc[d] /\ new_slub'[d] = new_slub[d] /\ va'[d] = va[d]
    BY <1>1, <1>2 DEF TypeOK
  <2>2. Cutting(c)'
    <3>1. page_freelist'[f] = page_to_virt(f)
      BY <1>1, <1>2 DEF TypeOK
    <3>2. (page_to_virt(f) + obj_size(k)) - obj_size(k) = page_to_virt(f)
      BY <1>5, <1>6
    <3>3. \A w \in Objs(k, f) : ~(w + obj_size(k) < page_to_virt(f) + obj_size(k))
      BY <1>5, <1>6
    <3> QED
      BY <1>2, <1>5, <2>1, <3>1, <3>2, <3>3 DEF Cutting
  <2>3. ASSUME NEW d \in Cpus, d # c, Cutting(d)
        PROVE  Cutting(d)'
    <3>1. new_slub[d] # f
      BY <1>1, <1>4, <2>3 DEF Cutting, TypeOK
    <3>2. page_freelist'[new_slub[d]] = page_freelist[new_slub[d]]
      BY <1>1, <1>2, <2>3, <3>1 DEF TypeOK, Cutting
    <3> QED
      BY <1>2, <2>1, <2>3, <3>2 DEF Cutting
  <2>4. \A d \in Cpus : Handing(d)' = Handing(d)
    BY <1>2 DEF Handing, caches
  <2> QED
    BY <1>1, <1>2, <1>3, <2>1, <2>2, <2>3, <2>4 DEF CallInv, caches
<1>13. ChainInv'
  <2>1. \A j \in Caches : slub[j] # NULL => slub[j] \in Frames
    BY <1>1 DEF TypeOK
  <2> QED
    BY <1>1, <1>2, <1>8, <2>1 DEF ChainInv, caches
<1>14. Kept'
  <2>1. Gone' = Gone
    BY <1>1, <1>2, HandSame DEF TypeOK
  <2> QED
    BY <1>1, <1>2, <1>8, <2>1 DEF Kept, caches
<1> QED
  BY <1>7, <1>9, <1>10, <1>11, <1>12, <1>13, <1>14 DEF IInv

(* Where the cutting has come to.                                           *)
LEMMA CutAt ==
  ASSUME IInv, NEW c \in Cpus, pc[c] = "trim"
  PROVE  LET k == kc[c]
             f == new_slub[c]
             u == (page_to_virt(f) + va[c]) - obj_size(k)
         IN  /\ k \in Caches /\ f \in Frames /\ Blk(k, f) \in blocks /\ f \in Busy /\ f \in Nat
             /\ slub[k] = NULL /\ freelist[k] = NULL
             /\ u \in Objs(k, f) /\ u \in Words /\ u \in Nat
             /\ va[c] \in Nat /\ page_to_virt(f) \in Nat /\ End(k, f) \in Nat
             /\ obj_size(k) \in Nat \ {0}
             /\ u + obj_size(k) = page_to_virt(f) + va[c]
             /\ End(k, f) = page_to_virt(f) + alloc_size(k) /\ alloc_size(k) \in Nat
             /\ \A w \in Objs(k, f) : <<k, w>> \notin given
<1> DEFINE k == kc[c]
           f == new_slub[c]
           u == (page_to_virt(f) + va[c]) - obj_size(k)
<1>1. TypeOK /\ BlocksOK /\ LockInv /\ CallInv /\ ChainInv /\ GivenInv
  BY DEF IInv
<1>2. /\ k \in Caches /\ f \in Frames /\ Blk(k, f) \in blocks /\ slub[k] = NULL
      /\ u \in Objs(k, f) /\ va[c] \in Nat
  BY <1>1 DEF TypeOK, CallInv, Cutting
<1>3. f \in Busy /\ f \in Nat /\ freelist[k] = NULL
  BY <1>1, <1>2, FramesNat DEF Busy, ChainInv
<1>4. /\ page_to_virt(f) \in Nat /\ End(k, f) \in Nat /\ u \in Nat
      /\ End(k, f) = page_to_virt(f) + alloc_size(k)
  BY <1>2, <1>3, Objects
<1>5. obj_size(k) \in Nat \ {0} /\ alloc_size(k) \in Nat /\ u \in Words
  BY <1>1, <1>2, Sizes, ObjectWords
<1>6. u + obj_size(k) = page_to_virt(f) + va[c]
  BY <1>2, <1>4, <1>5
<1>7. ASSUME NEW w \in Objs(k, f), <<k, w>> \in given
      PROVE  FALSE
  <2>1. PICK g \in Frames : Done(k, g) /\ w \in Objs(k, g)
    BY <1>1, <1>7 DEF GivenInv
  <2>2. g # f /\ Blk(k, g) \in blocks
    BY <1>3, <2>1 DEF Done
  <2>3. w + obj_size(k) <= w
    BY <1>1, <1>2, <2>1, <2>2, Disjoint
  <2>4. w \in Nat
    BY <1>2, <1>3, Objects
  <2> QED
    BY <1>5, <2>3, <2>4
<1> HIDE DEF k, f, u
<1>8. /\ k \in Caches /\ f \in Frames /\ Blk(k, f) \in blocks /\ f \in Busy /\ f \in Nat
      /\ slub[k] = NULL /\ freelist[k] = NULL
      /\ u \in Objs(k, f) /\ u \in Words /\ u \in Nat
      /\ va[c] \in Nat /\ page_to_virt(f) \in Nat /\ End(k, f) \in Nat
      /\ obj_size(k) \in Nat \ {0}
      /\ u + obj_size(k) = page_to_virt(f) + va[c]
      /\ End(k, f) = page_to_virt(f) + alloc_size(k) /\ alloc_size(k) \in Nat
      /\ \A w \in Objs(k, f) : <<k, w>> \notin given
  BY <1>2, <1>3, <1>4, <1>5, <1>6, <1>7
<1> QED
  BY <1>8 DEF k, f, u

(* A write to one word of an object, which is on no chain.                  *)
LEMMA OtherWords ==
  ASSUME TypeOK, BlocksOK, ChainInv, NEW k \in Caches, NEW f \in Frames, Blk(k, f) \in blocks,
         NEW u \in Objs(k, f), slub[k] = NULL, \A v \in Words : v # u => mem'[v] = mem[v]
  PROVE  /\ \A j \in Caches : \A w \in Objs(j, slub[j]) :
              freelist[j] # NULL => mem'[w] = mem[w]
         /\ \A j \in Caches, g \in Frames : \A w \in Objs(j, g) :
              Blk(j, g) \in blocks /\ (j # k \/ g # f \/ w # u) => mem'[w] = mem[w]
<1>1. u \in Words
  BY ObjectWords
<1>2. ASSUME NEW j \in Caches, NEW g \in Frames, NEW w \in Objs(j, g),
             Blk(j, g) \in blocks, j # k \/ g # f \/ w # u
      PROVE  mem'[w] = mem[w]
  <2>1. w \in Nat /\ u \in Nat /\ obj_size(j) \in Nat \ {0} /\ obj_size(k) \in Nat \ {0}
    BY <1>2, FramesNat, Objects, Sizes
  <2>2. w + obj_size(j) <= u \/ u + obj_size(k) <= w
    BY <1>2, Disjoint
  <2>3. w # u
    BY <2>1, <2>2
  <2>4. w \in Words
    BY <1>2, ObjectWords
  <2> QED
    BY <2>3, <2>4
<1>3. ASSUME NEW j \in Caches, NEW w \in Objs(j, slub[j]), freelist[j] # NULL
      PROVE  mem'[w] = mem[w]
  <2>1. slub[j] \in Frames /\ Blk(j, slub[j]) \in blocks
    BY <1>3, Chained
  <2>2. j # k
    BY <2>1, NullNoFrame
  <2> QED
    BY <1>2, <1>3, <2>1, <2>2
<1> QED
  BY <1>2, <1>3

LEMMA TrimStep ==
  ASSUME IInv, NEW c \in Cpus, Trim(c)
  PROVE  IInv'
<1> DEFINE k == kc[c]
           f == new_slub[c]
           u == (page_to_virt(f) + va[c]) - obj_size(k)
<1>1. TypeOK /\ BlocksOK /\ LockInv /\ CallInv /\ ChainInv /\ GivenInv /\ Kept
  BY DEF IInv
<1>2. /\ pc[c] = "trim" /\ va[c] < alloc_size(k)
      /\ mem' = [mem EXCEPT ![u] = page_to_virt(f) + va[c]]
      /\ va' = [va EXCEPT ![c] = va[c] + obj_size(k)]
      /\ UNCHANGED <<caches, page_freelist, pc, kc, obj, new_slub, past>>
  BY DEF Trim
<1>3. /\ k \in Caches /\ f \in Frames /\ Blk(k, f) \in blocks /\ f \in Busy /\ f \in Nat
      /\ slub[k] = NULL /\ freelist[k] = NULL
      /\ u \in Objs(k, f) /\ u \in Words /\ u \in Nat
      /\ va[c] \in Nat /\ page_to_virt(f) \in Nat /\ End(k, f) \in Nat
      /\ obj_size(k) \in Nat \ {0}
      /\ u + obj_size(k) = page_to_virt(f) + va[c]
      /\ End(k, f) = page_to_virt(f) + alloc_size(k) /\ alloc_size(k) \in Nat
  BY <1>1, <1>2, CutAt
<1> HIDE DEF u
<1>4. u + obj_size(k) \in Objs(k, f)
  <2>1. u + obj_size(k) # End(k, f)
    BY <1>2, <1>3
  <2> QED
    BY <1>3, <2>1, Objects
<1>5. mem' = [mem EXCEPT ![u] = u + obj_size(k)]
  BY <1>2, <1>3
<1>6. /\ \A j \in Caches : \A w \in Objs(j, slub[j]) : freelist[j] # NULL => mem'[w] = mem[w]
      /\ \A j \in Caches, g \in Frames : \A w \in Objs(j, g) :
           Blk(j, g) \in blocks /\ (j # k \/ g # f \/ w # u) => mem'[w] = mem[w]
  <2>1. \A v \in Words : v # u => mem'[v] = mem[v]
    BY <1>1, <1>3, <1>5 DEF TypeOK
  <2> HIDE DEF k, f
  <2> QED
    BY <1>1, <1>3, <2>1, OtherWords
<1>7. TypeOK'
  <2>1. u + obj_size(k) \in Words
    BY <1>1, <1>3, <1>4, ObjectWords
  <2>2. mem' \in [Words -> Words \cup {NULL, Wild}]
    BY <1>1, <1>3, <1>5, <2>1 DEF TypeOK
  <2>3. va' \in [Cpus -> Nat]
    BY <1>1, <1>2, <1>3 DEF TypeOK
  <2> QED
    BY <1>1, <1>2, <2>2, <2>3 DEF TypeOK, caches, past
<1>8. BlocksOK' /\ LockInv' /\ GivenInv'
  BY <1>1, <1>2 DEF BlocksOK, LockInv, GivenInv, Done, Busy, caches, past
<1>9. CallInv'
  <2>1. va'[c] = va[c] + obj_size(k) /\ \A d \in Cpus : d # c => va'[d] = va[d]
    BY <1>1, <1>2 DEF TypeOK
  <2>2. Cutting(c)'
    <3>1. /\ page_freelist[f] = page_to_virt(f)
          /\ \A w \in Objs(k, f) : w + obj_size(k) < u + obj_size(k) => mem[w] = w + obj_size(k)
      BY <1>1, <1>2, <1>3 DEF CallInv, Cutting
    <3>2. (page_to_virt(f) + va'[c]) - obj_size(k) = u + obj_size(k)
      BY <1>3, <2>1
    <3>3. mem'[u] = u + obj_size(k)
      BY <1>1, <1>3, <1>5 DEF TypeOK
    <3>4. ASSUME NEW w \in Objs(k, f), w + obj_size(k) < page_to_virt(f) + va'[c]
          PROVE  mem'[w] = w + obj_size(k)
      <4>1. w \in Nat
        BY <1>3, Objects
      <4>2. w < u + obj_size(k)
        BY <1>3, <2>1, <3>4, <4>1
      <4>3. w + obj_size(k) <= u + obj_size(k)
        BY <1>3, <1>4, <4>2, Objects
      <4>4. CASE w = u
        BY <3>3, <4>4
      <4>5. CASE w # u
        <5>1. w + obj_size(k) < u + obj_size(k)
          BY <1>3, <4>1, <4>3, <4>5
        <5>2. mem'[w] = mem[w]
          BY <1>3, <1>6, <4>5
        <5> QED
          BY <3>1, <5>1, <5>2
      <4> QED
        BY <4>4, <4>5
    <3>5. /\ kc'[c] = k /\ new_slub'[c] = f /\ blocks' = blocks /\ page_freelist' = page_freelist
      BY <1>2 DEF past
    <3> QED
      BY <1>3, <1>4, <3>1, <3>2, <3>4, <3>5 DEF Cutting
  <2>3. ASSUME NEW d \in Cpus, d # c, pc[d] = "trim"
        PROVE  Cutting(d)'
    <3>1. /\ kc[d] # k /\ kc[d] \in Caches
          /\ Cutting(d) /\ new_slub[d] \in Frames /\ Blk(kc[d], new_slub[d]) \in blocks
      BY <1>1, <1>2, <2>3 DEF LockInv, CallInv, Cutting, TypeOK, Critical
    <3>2. \A w \in Objs(kc[d], new_slub[d]) : mem'[w] = mem[w]
      BY <1>6, <3>1
    <3> QED
      BY <1>2, <2>1, <2>3, <3>1, <3>2 DEF Cutting, past
  <2>4. \A d \in Cpus : Handing(d)' = Handing(d)
    BY <1>2 DEF Handing, caches, past
  <2> QED
    BY <1>1, <1>2, <2>2, <2>3, <2>4 DEF CallInv, caches
<1>10. ChainInv'
  BY <1>1, <1>2, <1>6 DEF ChainInv, Done, Busy, caches, past
<1>11. Kept'
  <2>1. Gone' = Gone
    BY <1>2 DEF Gone, InHand, past
  <2> QED
    BY <1>1, <1>2, <2>1 DEF Kept, Done, Busy, caches, past
<1> QED
  BY <1>7, <1>8, <1>9, <1>10, <1>11 DEF IInv

LEMMA TrimEndStep ==
  ASSUME IInv, NEW c \in Cpus, TrimEnd(c)
  PROVE  IInv'
<1> DEFINE k == kc[c]
           f == new_slub[c]
           u == (page_to_virt(f) + va[c]) - obj_size(k)
<1>1. TypeOK /\ BlocksOK /\ LockInv /\ CallInv /\ ChainInv /\ GivenInv /\ Kept
  BY DEF IInv
<1>2. /\ pc[c] = "trim" /\ pc' = [pc EXCEPT ![c] = "redo"] /\ va[c] >= alloc_size(k)
      /\ mem' = [mem EXCEPT ![u] = NULL]
      /\ slub' = [slub EXCEPT ![k] = f] /\ freelist' = [freelist EXCEPT ![k] = page_freelist[f]]
      /\ new_slub' = [new_slub EXCEPT ![c] = NULL] /\ va' = [va EXCEPT ![c] = 0]
      /\ UNCHANGED <<lock, full, partial, page_freelist, kc, obj, past>>
  <2>1. pc[c] = "trim"
    BY DEF TrimEnd, Goto
  <2>2. page_to_virt(f) \in Int /\ va[c] \in Int /\ obj_size(k) \in Int
    <3> HIDE DEF k, f
    <3> QED
      BY <1>1, <2>1, CutAt DEF k, f
  <2>3. page_to_virt(f) + (va[c] - obj_size(k)) = u
    BY <2>2
  <2> HIDE DEF u
  <2> QED
    BY <2>3 DEF TrimEnd, Goto
<1>3. /\ k \in Caches /\ f \in Frames /\ Blk(k, f) \in blocks /\ f \in Busy /\ f \in Nat
      /\ slub[k] = NULL /\ freelist[k] = NULL
      /\ u \in Objs(k, f) /\ u \in Words /\ u \in Nat
      /\ va[c] \in Nat /\ page_to_virt(f) \in Nat /\ End(k, f) \in Nat
      /\ obj_size(k) \in Nat \ {0}
      /\ u + obj_size(k) = page_to_virt(f) + va[c]
      /\ End(k, f) = page_to_virt(f) + alloc_size(k) /\ alloc_size(k) \in Nat
      /\ \A w \in Objs(k, f) : <<k, w>> \notin given
  BY <1>1, <1>2, CutAt
<1> HIDE DEF u
<1>4. u + obj_size(k) = End(k, f)
  <2>1. u + obj_size(k) <= End(k, f)
    BY <1>3, Objects
  <2> QED
    BY <1>2, <1>3, <2>1
<1>5. /\ page_freelist[f] = page_to_virt(f)
      /\ \A w \in Objs(k, f) : w + obj_size(k) < End(k, f) => mem[w] = w + obj_size(k)
  BY <1>1, <1>2, <1>3, <1>4 DEF CallInv, Cutting
<1>6. /\ \A j \in Caches : \A w \in Objs(j, slub[j]) : freelist[j] # NULL => mem'[w] = mem[w]
      /\ \A j \in Caches, g \in Frames : \A w \in Objs(j, g) :
           Blk(j, g) \in blocks /\ (j # k \/ g # f \/ w # u) => mem'[w] = mem[w]
  <2>1. \A v \in Words : v # u => mem'[v] = mem[v]
    BY <1>1, <1>2, <1>3 DEF TypeOK
  <2> HIDE DEF k, f
  <2> QED
    BY <1>1, <1>3, <2>1, OtherWords
<1>7. /\ slub'[k] = f /\ freelist'[k] = page_to_virt(f)
      /\ \A j \in Caches : j # k => slub'[j] = slub[j] /\ freelist'[j] = freelist[j]
      /\ pc'[c] = "redo" /\ new_slub'[c] = NULL
      /\ \A d \in Cpus : d # c => pc'[d] = pc[d] /\ new_slub'[d] = new_slub[d] /\ va'[d] = va[d]
  BY <1>1, <1>2, <1>3, <1>5 DEF TypeOK
<1>8. page_to_virt(f) \in Objs(k, f) /\ \A w \in Objs(k, f) : page_to_virt(f) <= w
  BY <1>3, Objects
<1>9. \A d \in Cpus : d # c /\ pc[d] \in Critical => kc[d] # k /\ kc[d] \in Caches
  BY <1>1, <1>2 DEF LockInv, TypeOK, Critical
<1>10. \A j \in Caches, g \in Frames : Done(j, g)' <=> Done(j, g) \/ (j = k /\ g = f)
  <2>1. f \notin Busy'
    <3> SUFFICES ASSUME NEW d \in Cpus, new_slub'[d] = f PROVE FALSE
      BY DEF Busy
    <3>1. d # c /\ new_slub[d] = f
      BY <1>3, <1>7, NullNoFrame
    <3>2. pc[d] = "trim"
      BY <1>1, <1>3, <3>1, NullNoFrame DEF CallInv
    <3>3. kc[d] # k /\ kc[d] \in Caches /\ Blk(kc[d], f) \in blocks
      BY <1>1, <1>9, <3>1, <3>2 DEF CallInv, Cutting, Critical
    <3> QED
      BY <1>1, <1>3, <3>3, OneBlock
  <2>2. \A g \in Frames : g # f => (g \in Busy' <=> g \in Busy)
    <3>1. ASSUME NEW g \in Frames, g # f, g \in Busy'
          PROVE  g \in Busy
      <4>1. PICK d \in Cpus : new_slub'[d] = g
        BY <3>1 DEF Busy
      <4>2. d # c
        BY <1>7, <4>1, NullNoFrame
      <4> QED
        BY <1>7, <4>1, <4>2 DEF Busy
    <3>2. ASSUME NEW g \in Frames, g # f, g \in Busy
          PROVE  g \in Busy'
      <4>1. PICK d \in Cpus : new_slub[d] = g
        BY <3>2 DEF Busy
      <4>2. d # c
        BY <3>2, <4>1
      <4> QED
        BY <1>7, <4>1, <4>2 DEF Busy
    <3> QED
      BY <3>1, <3>2
  <2>3. \A j \in Caches : Blk(j, f) \in blocks => j = k
    BY <1>1, <1>3, OneBlock
  <2>4. blocks' = blocks
    BY <1>2 DEF past
  <2> QED
    BY <1>3, <2>1, <2>2, <2>3, <2>4 DEF Done
<1>11. TypeOK'
  <2>1. page_to_virt(f) \in Words
    BY <1>1, <1>3, <1>8, ObjectWords
  <2>2. /\ mem' \in [Words -> Words \cup {NULL, Wild}] /\ freelist' \in [Caches -> Words \cup {NULL}]
        /\ slub' \in [Caches -> Frames \cup {NULL}] /\ va' \in [Cpus -> Nat]
        /\ new_slub' \in [Cpus -> Frames \cup {NULL}]
        /\ pc' \in [Cpus -> {"idle", "lock"} \cup Critical]
    BY <1>1, <1>2, <1>3, <1>5, <2>1 DEF TypeOK, Critical
  <2> QED
    BY <1>1, <1>2, <2>2 DEF TypeOK, past
<1>12. BlocksOK'
  BY <1>1, <1>2 DEF BlocksOK, past
<1>13. LockInv'
  BY <1>1, <1>2 DEF TypeOK, LockInv, Critical
<1>14. GivenInv'
  <2>1. \A o \in given : o[1] \in Caches
    BY <1>1 DEF TypeOK
  <2> QED
    BY <1>1, <1>2, <1>10, <2>1 DEF GivenInv, past
<1>15. CallInv'
  <2>1. \A d \in Cpus : d # c /\ pc[d] \in Critical =>
          slub'[kc[d]] = slub[kc[d]] /\ freelist'[kc[d]] = freelist[kc[d]]
    BY <1>7, <1>9
  <2>2. ASSUME NEW d \in Cpus, d # c, pc[d] = "trim"
        PROVE  Cutting(d)'
    <3>1. /\ kc[d] # k /\ kc[d] \in Caches
          /\ Cutting(d) /\ new_slub[d] \in Frames /\ Blk(kc[d], new_slub[d]) \in blocks
      BY <1>1, <1>9, <2>2 DEF CallInv, Cutting, Critical
    <3>2. \A w \in Objs(kc[d], new_slub[d]) : mem'[w] = mem[w]
      BY <1>6, <3>1
    <3> QED
      BY <1>2, <1>7, <2>2, <3>1, <3>2 DEF Cutting, past
  <2>3. \A d \in Cpus : d # c /\ pc[d] = "unlock" => Handing(d)' = Handing(d)
    BY <1>2, <2>1 DEF Handing, past, Critical
  <2> QED
    BY <1>1, <1>2, <1>7, <2>1, <2>2, <2>3 DEF CallInv, Critical
<1>16. ChainInv'
  <2>1. ASSUME NEW j \in Caches, j # k
        PROVE  /\ partial'[j] = <<>>
               /\ slub'[j] = NULL => freelist'[j] = NULL
               /\ slub'[j] # NULL => Blk(j, slub'[j]) \in blocks' /\ slub'[j] \notin Busy'
               /\ freelist'[j] # NULL =>
                    /\ freelist'[j] \in Objs(j, slub'[j])
                    /\ \A w \in Objs(j, slub'[j]) : freelist'[j] <= w =>
                         /\ mem'[w] = IF w + obj_size(j) = End(j, slub'[j]) THEN NULL
                                      ELSE w + obj_size(j)
                         /\ <<j, w>> \notin given'
    <3>1. slub[j] # NULL => slub[j] \in Frames
      BY <1>1 DEF TypeOK
    <3>2. slub[j] # NULL => Done(j, slub[j])
      BY <1>1 DEF ChainInv
    <3>3. \A g \in Frames : Done(j, g) => Blk(j, g) \in blocks' /\ g \notin Busy'
      BY <1>10 DEF Done
    <3>4. slub'[j] # NULL => Blk(j, slub'[j]) \in blocks' /\ slub'[j] \notin Busy'
      BY <1>7, <2>1, <3>1, <3>2, <3>3
    <3> QED
      BY <1>1, <1>2, <1>6, <1>7, <2>1, <3>4 DEF ChainInv, past
  <2>2. \A j \in Caches, g \in Frames : j = k /\ g = f => Blk(j, g) \in blocks' /\ g \notin Busy'
    BY <1>10 DEF Done
  <2>3. Blk(k, slub'[k]) \in blocks' /\ slub'[k] \notin Busy'
    BY <1>3, <1>7, <2>2
  <2>4. \A w \in Objs(k, f) : mem'[w] = IF w + obj_size(k) = End(k, f) THEN NULL ELSE w + obj_size(k)
    <3> SUFFICES ASSUME NEW w \in Objs(k, f)
                 PROVE  mem'[w] = IF w + obj_size(k) = End(k, f) THEN NULL ELSE w + obj_size(k)
      OBVIOUS
    <3>1. w \in Nat /\ w + obj_size(k) <= End(k, f)
      BY <1>3, Objects
    <3>2. CASE w = u
      BY <1>1, <1>2, <1>3, <1>4, <3>2 DEF TypeOK
    <3>3. CASE w # u
      <4>1. w + obj_size(k) < End(k, f)
        BY <1>3, <1>4, <3>1, <3>3
      <4>2. mem'[w] = mem[w]
        BY <1>3, <1>6, <3>3
      <4> QED
        BY <1>3, <1>5, <3>1, <4>1, <4>2
    <3> QED
      BY <3>2, <3>3
  <2>5. partial'[k] = <<>> /\ slub'[k] # NULL
    BY <1>1, <1>2, <1>3, <1>7, NullNoFrame DEF ChainInv
  <2> QED
    <3>1. /\ partial'[k] = <<>> /\ slub'[k] # NULL
          /\ freelist'[k] \in Objs(k, slub'[k])
          /\ \A w \in Objs(k, slub'[k]) : freelist'[k] <= w =>
               /\ mem'[w] = IF w + obj_size(k) = End(k, slub'[k]) THEN NULL
                            ELSE w + obj_size(k)
               /\ <<k, w>> \notin given'
      BY <1>2, <1>3, <1>7, <1>8, <2>4, <2>5 DEF past
    <3> HIDE DEF k, f
    <3>2. \A j \in Caches : Blk(j, slub'[j]) \in blocks' /\ slub'[j] \notin Busy' <=> Done(j, slub[j])'
      BY DEF Done
    <3> QED
      BY <2>1, <2>3, <3>1, <3>2 DEF ChainInv
<1>17. Kept'
  <2>1. Gone' = Gone
    BY <1>1, <1>2, HandSame DEF TypeOK, past
  <2>2. page_to_virt(f) # NULL
    BY <1>3 DEF NULL
  <2> QED
    BY <1>1, <1>2, <1>3, <1>7, <1>8, <1>10, <2>1, <2>2 DEF Kept
<1> QED
  BY <1>11, <1>12, <1>13, <1>14, <1>15, <1>16, <1>17 DEF IInv

(* A caller writes to what it has been given, which is on no chain.         *)
LEMMA FillStep ==
  ASSUME IInv, NEW o \in given, Fill(o)
  PROVE  IInv'
<1>1. TypeOK /\ BlocksOK /\ LockInv /\ CallInv /\ ChainInv /\ GivenInv /\ Kept
  BY DEF IInv
<1>2. /\ mem' = [w \in Words |-> IF w \in Extent(o) THEN Wild ELSE mem[w]]
      /\ UNCHANGED <<caches, page_freelist, locals, past>>
  BY DEF Fill
<1>3. PICK k \in Caches, v \in Words : o = <<k, v>>
  BY <1>1 DEF TypeOK
<1>4. PICK f \in Frames : Done(k, f) /\ v \in Objs(k, f)
  BY <1>1, <1>3 DEF GivenInv
<1>5. ASSUME NEW j \in Caches, NEW g \in Frames, Blk(j, g) \in blocks,
             NEW w \in Objs(j, g), j # k \/ g # f \/ w # v
      PROVE  mem'[w] = mem[w]
  <2>1. v \in Nat /\ w \in Nat /\ obj_size(j) \in Nat \ {0} /\ obj_size(k) \in Nat \ {0}
    BY <1>4, FramesNat, Objects, Sizes
  <2>2. Blk(k, f) \in blocks
    BY <1>4 DEF Done
  <2>3. v + obj_size(k) <= w \/ w + obj_size(j) <= v
    BY <1>1, <1>4, <1>5, <2>2, Disjoint
  <2>4. w \notin Extent(o)
    BY <1>3, <2>1, <2>3 DEF Extent
  <2>5. w \in Words
    BY <1>1, <1>5, ObjectWords
  <2> QED
    BY <1>2, <2>4, <2>5
<1>6. TypeOK'
  BY <1>1, <1>2 DEF TypeOK, caches, locals, past
<1>7. BlocksOK' /\ LockInv' /\ GivenInv'
  BY <1>1, <1>2 DEF BlocksOK, LockInv, GivenInv, Done, Busy, caches, locals, past
<1>8. CallInv'
  <2>1. ASSUME NEW d \in Cpus, pc[d] = "trim"
        PROVE  Cutting(d)'
    <3>1. /\ kc[d] \in Caches /\ Cutting(d)
          /\ new_slub[d] \in Frames /\ Blk(kc[d], new_slub[d]) \in blocks
      BY <1>1, <2>1 DEF CallInv, Cutting, TypeOK
    <3>2. new_slub[d] # f
      BY <1>4 DEF Done, Busy
    <3>3. \A w \in Objs(kc[d], new_slub[d]) : mem'[w] = mem[w]
      BY <1>5, <3>1, <3>2
    <3> QED
      BY <1>2, <3>1, <3>3 DEF Cutting, locals, past
  <2>2. \A d \in Cpus : Handing(d)' = Handing(d)
    BY <1>2 DEF Handing, caches, locals, past
  <2> QED
    BY <1>1, <1>2, <2>1, <2>2 DEF CallInv, caches, locals
<1>9. ChainInv'
  <2>1. ASSUME NEW j \in Caches, freelist[j] # NULL,
               NEW w \in Objs(j, slub[j]), freelist[j] <= w
        PROVE  mem'[w] = mem[w]
    <3>1. slub[j] \in Frames /\ Blk(j, slub[j]) \in blocks /\ <<j, w>> \notin given
      BY <1>1, <2>1, Chained
    <3>2. j # k \/ w # v
      BY <1>3, <3>1
    <3> QED
      BY <1>5, <3>1, <3>2
  <2> QED
    BY <1>1, <1>2, <2>1 DEF ChainInv, Done, Busy, caches, locals, past
<1>10. Kept'
  <2>1. Gone' = Gone
    BY <1>2 DEF Gone, InHand, locals, past
  <2> QED
    BY <1>1, <1>2, <2>1 DEF Kept, Done, Busy, caches, locals, past
<1> QED
  BY <1>6, <1>7, <1>8, <1>9, <1>10 DEF IInv

(* What kmalloc turns down without a look changes nothing.                  *)
LEMMA KmallocLargeStep ==
  ASSUME IInv, NEW c \in Cpus, NEW sz \in Requests, KmallocLarge(c, sz)
  PROVE  IInv'
<1>1. TypeOK /\ LockInv /\ CallInv
  BY DEF IInv
<1>2. UNCHANGED <<caches, memory, locals, blocks, given>> /\ refused' = refused \cup {sz}
  BY DEF KmallocLarge
<1>3. TypeOK' /\ LockInv' /\ CallInv'
  BY <1>1, <1>2
     DEF TypeOK, LockInv, CallInv, Cutting, Handing, caches, memory, locals
<1>4. Gone' = Gone
  BY <1>2 DEF Gone, InHand, locals
<1>5. BlocksOK' /\ ChainInv' /\ GivenInv' /\ Kept'
  BY <1>2, <1>4, QuietStep DEF caches, memory, locals
<1> QED
  BY <1>3, <1>5 DEF IInv

LEMMA InitHolds == Init => IInv
<1> SUFFICES ASSUME Init PROVE IInv
  OBVIOUS
<1>1. 0 \in Caches
  BY SizeAssumption DEF Caches
<1>2. L!list_head_init = <<>>
  BY DEF L!list_head_init
<1>3. TypeOK
  BY <1>1, <1>2 DEF Init, TypeOK
<1>4. BlocksOK /\ LockInv /\ CallInv /\ ChainInv /\ GivenInv /\ Kept
  BY <1>2 DEF Init, BlocksOK, LockInv, CallInv, ChainInv, GivenInv, Kept, Done, Critical
<1> QED
  BY <1>3, <1>4 DEF IInv

LEMMA StepHolds == IInv /\ [Next]_vars => IInv'
<1> SUFFICES ASSUME IInv, [Next]_vars PROVE IInv'
  OBVIOUS
<1>1. ASSUME NEW c \in Cpus, Work(c)
      PROVE  IInv'
  <2>1. CASE Lock(c)
    BY <2>1, LockStep
  <2>2. CASE Take(c)
    BY <2>2, TakeStep
  <2>3. CASE Pop(c)
    BY <2>3, PopStep
  <2>4. CASE Refill(c)
    BY <2>4, RefillStep
  <2>5. ASSUME NEW f \in Frames, Grow(c, <<f, slub_order(kc[c])>>)
        PROVE  IInv'
    BY <2>5, GrowStep
  <2>6. CASE GrowFail(c)
    BY <2>6, GrowFailStep
  <2>7. CASE Trim(c)
    BY <2>7, TrimStep
  <2>8. CASE TrimEnd(c)
    BY <2>8, TrimEndStep
  <2>9. CASE Unlock(c)
    BY <2>9, UnlockStep
  <2> QED
    BY <1>1, <2>1, <2>2, <2>3, <2>4, <2>5, <2>6, <2>7, <2>8, <2>9 DEF Work
<1>2. ASSUME NEW c \in Cpus, NEW sz \in Requests, Kmalloc(c, sz) \/ KmallocLarge(c, sz)
      PROVE  IInv'
  BY <1>2, KmallocStep, KmallocLargeStep
<1>3. ASSUME NEW o \in given, Fill(o)
      PROVE  IInv'
  BY <1>3, FillStep
<1>4. CASE UNCHANGED vars
  <2>1. TypeOK /\ LockInv /\ CallInv
    BY DEF IInv
  <2>2. UNCHANGED <<caches, memory, locals, past>>
    BY <1>4 DEF vars
  <2>3. TypeOK' /\ LockInv' /\ CallInv'
    BY <2>1, <2>2
       DEF TypeOK, LockInv, CallInv, Cutting, Handing, caches, memory, locals, past
  <2>4. Gone' = Gone
    BY <2>2 DEF Gone, InHand, locals, past
  <2>5. BlocksOK' /\ ChainInv' /\ GivenInv' /\ Kept'
    BY <2>2, <2>4, QuietStep DEF caches, memory, locals, past
  <2> QED
    BY <2>3, <2>5 DEF IInv
<1> QED
  BY <1>1, <1>2, <1>3, <1>4 DEF Next

(* In every state one CPU at a time works on a cache, the free objects of a *)
(* cache are chained in ascending order within its slub, and callers have   *)
(* objects of slubs that have been cut, which are on no chain.              *)
THEOREM Invariance == Spec => []IInv
<1>1. Init => IInv
  BY InitHolds
<1>2. IInv /\ [Next]_vars => IInv'
  BY StepHolds
<1> QED
  BY <1>1, <1>2, PTL DEF Spec

-----------------------------------------------------------------------------
(* What the invariant says of the chains.                                   *)

LEMMA Before ==
  ASSUME NEW k \in Caches, NEW f \in Nat, NEW w \in Objs(k, f), page_to_virt(f) < w
  PROVE  w - obj_size(k) \in Objs(k, f)
<1> DEFINE s == obj_size(k)
           n == alloc_size(k) \div obj_size(k)
           b == page_to_virt(f)
<1>1. s \in Nat \ {0} /\ n \in Nat \ {0} /\ b \in Nat
  BY Sizes, Objects
<1>2. \A u : u \in Objs(k, f) <=> \E i \in 0 .. (n - 1) : u = b + i * s
  BY DEF Objs
<1> HIDE DEF s, n, b
<1>3. PICK i \in 0 .. (n - 1) : w = b + i * s
  BY <1>2
<1>4. i # 0
  <2> SUFFICES ASSUME i = 0 PROVE FALSE
    OBVIOUS
  <2>1. b < w /\ w = b + 0 * s
    BY <1>3 DEF b
  <2>2. w = b
    BY <1>1, <2>1
  <2> QED
    BY <1>1, <2>1, <2>2
<1>5. i - 1 \in 0 .. (n - 1) /\ i - 1 \in Nat
  BY <1>1, <1>4
<1>6. i * s = (i - 1) * s + s /\ (i - 1) * s \in Nat
  BY <1>1, <1>5
<1>7. w - s = b + (i - 1) * s
  BY <1>1, <1>3, <1>6
<1>8. w - s \in Objs(k, f)
  BY <1>2, <1>5, <1>7
<1> QED
  BY <1>8 DEF s

(* A chain has the first free object and all behind it.                     *)
LEMMA ChainIs ==
  ASSUME TypeOK, BlocksOK, ChainInv, NEW k \in Caches
  PROVE  Chain(k) = IF freelist[k] = NULL THEN {}
                    ELSE {w \in Objs(k, slub[k]) : freelist[k] <= w}
<1>1. PICK r \in [Nat -> SUBSET (Words \cup {NULL, Wild})] :
        /\ r[0] = {freelist[k]}
        /\ \A n \in Nat : r[n + 1] = r[n] \cup {mem[w] : w \in r[n] \cap Words}
        /\ Chain(k) = r[2 * PAGE_SIZE] \ {NULL}
  BY ChainSteps DEF TypeOK
<1>2. 2 * PAGE_SIZE \in Nat
  BY ShiftAssumption
<1>3. CASE freelist[k] = NULL
  <2> DEFINE T == {n \in Nat : r[n] = {NULL}}
  <2>1. 0 \in T /\ T \subseteq Nat
    BY <1>1, <1>3
  <2>2. ASSUME NEW n \in T
        PROVE  n + 1 \in T
    <3>1. n \in Nat /\ n + 1 \in Nat /\ r[n] = {NULL}
      OBVIOUS
    <3>2. {mem[w] : w \in {NULL} \cap Words} = {}
      BY WordsNat
    <3>3. r[n + 1] = r[n] \cup {mem[w] : w \in r[n] \cap Words}
      BY <1>1, <3>1
    <3>4. r[n + 1] = {NULL}
      BY <3>1, <3>2, <3>3
    <3> QED
      BY <3>1, <3>4
  <2> HIDE DEF T
  <2>3. T = Nat
    BY <2>1, <2>2, Induction
  <2>4. r[2 * PAGE_SIZE] = {NULL}
    BY <1>2, <2>3 DEF T
  <2> QED
    BY <1>1, <1>3, <2>4
<1>4. CASE freelist[k] # NULL
  <2> DEFINE s == obj_size(k)
             f == slub[k]
             l == freelist[k]
             A == {w \in Objs(k, f) : l <= w}
  <2>1. /\ f \in Frames /\ Blk(k, f) \in blocks /\ l \in Objs(k, f) /\ l \in Nat
        /\ \A w \in A : mem[w] = IF w + s = End(k, f) THEN NULL ELSE w + s
    BY <1>4, Chained
  <2>2. f \in Nat /\ s \in Nat \ {0}
    BY <2>1, FramesNat, Sizes
  <2>3. /\ page_to_virt(f) \in Nat /\ Objs(k, f) \subseteq Nat
        /\ \A w \in Objs(k, f) : page_to_virt(f) <= w /\ w + s <= End(k, f)
        /\ \A w \in Objs(k, f) : w + s \in Objs(k, f) \/ w + s = End(k, f)
        /\ \A v, w \in Objs(k, f) : v < w => v + s <= w
        /\ End(k, f) = page_to_virt(f) + alloc_size(k) /\ End(k, f) \in Nat
    BY <2>2, Objects
  <2>4. Objs(k, f) \subseteq Words
    BY <2>1, ObjectWords
  <2>5. \A w \in Objs(k, f) : page_to_virt(f) < w => w - s \in Objs(k, f)
    BY <2>2, Before
  <2>6. alloc_size(k) <= (2 * PAGE_SIZE) * s /\ alloc_size(k) \in Nat
    BY Sizes
  <2>7. r[0] = {l}
    BY <1>1
  <2> HIDE DEF s, f, l
  <2>8. \A n \in Nat : r[n] \subseteq A \cup {NULL}
    <3> DEFINE T == {n \in Nat : r[n] \subseteq A \cup {NULL}}
    <3>1. 0 \in T /\ T \subseteq Nat
      BY <2>1, <2>7
    <3>2. \A w \in A : mem[w] \in A \cup {NULL}
      BY <2>1, <2>2, <2>3
    <3>3. \A n \in T : n + 1 \in T
      <4> HIDE DEF A
      <4> QED
        BY <1>1, <3>2, WordsNat
    <3> HIDE DEF T
    <3>4. T = Nat
      BY <3>1, <3>3, Induction
    <3> QED
      BY <3>4 DEF T
  <2>9. \A n \in Nat : \A w \in A : w <= l + n * s => w \in r[n]
    <3> DEFINE T == {n \in Nat : \A w \in A : w <= l + n * s => w \in r[n]}
    <3>1. 0 \in T /\ T \subseteq Nat
      <4>1. \A w \in A : w <= l + 0 * s => w = l
        BY <2>1, <2>2, <2>3
      <4> QED
        BY <2>7, <4>1
    <3>2. ASSUME NEW n \in T, NEW w \in A, w <= l + (n + 1) * s
          PROVE  w \in r[n + 1]
      <4>1. n \in Nat /\ n * s \in Nat /\ (n + 1) * s = n * s + s
        BY <2>2
      <4>2. w \in Nat /\ l <= w
        BY <2>3
      <4>3. CASE w = l
        <5>1. w <= l + n * s
          BY <2>1, <4>1, <4>3
        <5> QED
          BY <1>1, <5>1
      <4>4. CASE w # l
        <5>1. l < w /\ l + s <= w /\ page_to_virt(f) < w
          BY <2>1, <2>3, <4>2, <4>4
        <5>2. w - s \in Objs(k, f) /\ l <= w - s /\ w - s <= l + n * s /\ (w - s) + s = w
          BY <2>1, <2>2, <2>5, <3>2, <4>1, <4>2, <5>1
        <5>3. w - s \in r[n] \cap Words
          BY <2>4, <5>2
        <5>4. w # End(k, f)
          BY <2>2, <2>3, <4>2
        <5>5. mem[w - s] = w
          BY <2>1, <5>2, <5>4
        <5> QED
          BY <1>1, <4>1, <5>3, <5>5
      <4> QED
        BY <4>3, <4>4
    <3>3. ASSUME NEW n \in T
          PROVE  n + 1 \in T
      <4>1. n + 1 \in Nat
        OBVIOUS
      <4> HIDE DEF A
      <4>2. \A w \in A : w <= l + (n + 1) * s => w \in r[n + 1]
        <5> HIDE DEF T
        <5> QED
          BY <3>2
      <4> QED
        BY ONLY <4>1, <4>2
    <3> HIDE DEF T
    <3>4. T = Nat
      BY <3>1, <3>3, Induction
    <3> QED
      BY <3>4 DEF T
  <2>10. \A w \in A : w <= l + (2 * PAGE_SIZE) * s
    <3> SUFFICES ASSUME NEW w \in A PROVE w <= l + (2 * PAGE_SIZE) * s
      OBVIOUS
    <3> DEFINE z == (2 * PAGE_SIZE) * s
    <3>1. z \in Nat /\ alloc_size(k) <= z
      BY <1>2, <2>2, <2>6
    <3> HIDE DEF z
    <3>2. w <= l + z
      BY <2>1, <2>2, <2>3, <2>6, <3>1
    <3> QED
      BY <3>2 DEF z
  <2>11. A \subseteq r[2 * PAGE_SIZE]
    BY <1>2, <2>9, <2>10
  <2>12. NULL \notin A
    BY <2>3 DEF NULL
  <2>13. Chain(k) = A
    <3> HIDE DEF A
    <3> QED
      BY <1>1, <1>2, <2>8, <2>11, <2>12
  <2> QED
    BY <1>4, <2>13 DEF f, l
<1> QED
  BY <1>3, <1>4

(* An object that a CPU holds, and one that has gone.                       *)
LEMMA HeldIs ==
  ASSUME IInv, NEW c \in Cpus, obj[c] # NULL
  PROVE  /\ pc[c] \in Critical /\ kc[c] \in Caches /\ slub[kc[c]] \in Frames
         /\ Blk(kc[c], slub[kc[c]]) \in blocks /\ obj[c] \in Objs(kc[c], slub[kc[c]])
         /\ <<kc[c], obj[c]>> \notin given
<1>1. TypeOK /\ BlocksOK /\ CallInv /\ ChainInv
  BY DEF IInv
<1>2. kc[c] \in Caches /\ pc[c] \in {"pop", "unlock"}
  BY <1>1 DEF TypeOK, CallInv
<1>3. CASE pc[c] = "pop"
  <2>1. obj[c] = freelist[kc[c]]
    BY <1>1, <1>3 DEF CallInv
  <2>2. obj[c] \in Nat
    BY <1>1, WordsNat DEF TypeOK
  <2> QED
    BY <1>1, <1>2, <1>3, <2>1, <2>2, Chained DEF Critical
<1>4. CASE pc[c] = "unlock"
  <2>1. Handing(c)
    BY <1>1, <1>4 DEF CallInv
  <2>2. slub[kc[c]] \in Frames /\ Done(kc[c], slub[kc[c]])
    BY <1>1, <1>2, <2>1 DEF Handing, ChainInv, TypeOK
  <2> QED
    BY <1>2, <1>4, <2>1, <2>2 DEF Handing, Done, Critical
<1> QED
  BY <1>2, <1>3, <1>4

LEMMA Held ==
  ASSUME IInv, NEW o \in given \cup {<<kc[c], obj[c]>> : c \in {d \in Cpus : obj[d] # NULL}}
  PROVE  \E k \in Caches, f \in Frames : \E v \in Objs(k, f) :
           o = <<k, v>> /\ Blk(k, f) \in blocks
<1>1. TypeOK /\ GivenInv
  BY DEF IInv
<1>2. CASE o \in given
  <2>1. o[1] \in Caches /\ o = <<o[1], o[2]>>
    BY <1>1, <1>2 DEF TypeOK
  <2>2. PICK f \in Frames : Done(o[1], f) /\ o[2] \in Objs(o[1], f)
    BY <1>1, <1>2 DEF GivenInv
  <2> QED
    BY <2>1, <2>2 DEF Done
<1>3. CASE o \in {<<kc[c], obj[c]>> : c \in {d \in Cpus : obj[d] # NULL}}
  <2>1. PICK c \in Cpus : obj[c] # NULL /\ o = <<kc[c], obj[c]>>
    BY <1>3
  <2> QED
    BY <2>1, HeldIs
<1> QED
  BY <1>2, <1>3

-----------------------------------------------------------------------------
(* The properties of module Slub.                                           *)

(* Objects that kmalloc hands out never share a word, and each lies in a    *)
(* block that alloc_pages gave to its cache: whatever CPUs run at the same  *)
(* time and whatever callers write to their objects.                        *)
THEOREM SpecObjectsApart == Spec => []ObjectsApart
<1>1. ASSUME IInv
      PROVE  ObjectsApart
  <2>1. TypeOK /\ BlocksOK /\ LockInv
    BY <1>1 DEF IInv
  <2>2. \A c \in Cpus : obj[c] # NULL => <<kc[c], obj[c]>> \notin given
    BY <1>1, HeldIs
  <2>3. ASSUME NEW c \in Cpus, NEW d \in Cpus, c # d, obj[c] # NULL, obj[c] = obj[d]
        PROVE  FALSE
    <3> DEFINE v == obj[c]
               i == kc[c]
               j == kc[d]
               f == slub[i]
               g == slub[j]
    <3>1. /\ i \in Caches /\ f \in Frames /\ Blk(i, f) \in blocks /\ v \in Objs(i, f)
          /\ j \in Caches /\ g \in Frames /\ Blk(j, g) \in blocks /\ v \in Objs(j, g)
      BY <1>1, <2>3, HeldIs
    <3>2. i # j
      BY <1>1, <2>1, <2>3, HeldIs DEF LockInv
    <3> HIDE DEF v, i, j, f, g
    <3>3. v + obj_size(i) <= v \/ v + obj_size(j) <= v
      BY <2>1, <3>1, <3>2, Disjoint
    <3>4. v \in Nat /\ obj_size(i) \in Nat \ {0} /\ obj_size(j) \in Nat \ {0}
      BY <3>1, FramesNat, Objects, Sizes
    <3> QED
      BY <3>3, <3>4
  <2>4. ASSUME NEW o1 \in Gone, NEW o2 \in Gone, o1 # o2
        PROVE  Extent(o1) \cap Extent(o2) = {}
    <3>1. PICK k \in Caches, f \in Frames : \E v \in Objs(k, f) :
            o1 = <<k, v>> /\ Blk(k, f) \in blocks
      BY <1>1, Held DEF Gone, InHand
    <3>2. PICK l \in Caches, g \in Frames : \E w \in Objs(l, g) :
            o2 = <<l, w>> /\ Blk(l, g) \in blocks
      BY <1>1, Held DEF Gone, InHand
    <3>3. PICK v \in Objs(k, f) : o1 = <<k, v>> /\ Blk(k, f) \in blocks
      BY <3>1
    <3>4. PICK w \in Objs(l, g) : o2 = <<l, w>> /\ Blk(l, g) \in blocks
      BY <3>2
    <3>5. k # l \/ v # w
      BY <2>4, <3>3, <3>4
    <3>6. v + obj_size(k) <= w \/ w + obj_size(l) <= v
      BY <2>1, <3>3, <3>4, <3>5, Disjoint
    <3>7. v \in Nat /\ w \in Nat /\ obj_size(k) \in Nat /\ obj_size(l) \in Nat
      BY <3>3, <3>4, FramesNat, Objects, Sizes
    <3> QED
      BY <3>3, <3>4, <3>6, <3>7 DEF Extent
  <2>5. ASSUME NEW o \in given \cup {<<kc[c], obj[c]>> : c \in {d \in Cpus : obj[d] # NULL}}
        PROVE  \E x \in blocks :
                 x[1] = o[1] /\ \A w \in Extent(o) : w \div PAGE_SIZE \in Pages!Span(x[2])
    <3>1. PICK k \in Caches, f \in Frames : \E v \in Objs(k, f) :
            o = <<k, v>> /\ Blk(k, f) \in blocks
      BY <1>1, Held
    <3>2. PICK v \in Objs(k, f) : o = <<k, v>> /\ Blk(k, f) \in blocks
      BY <3>1
    <3>3. v \in Nat /\ obj_size(k) \in Nat
      BY <3>2, FramesNat, Objects, Sizes
    <3>4. \A w \in Extent(o) : w \in Nat /\ v <= w /\ w < v + obj_size(k)
      BY <3>2, <3>3 DEF Extent
    <3>5. \A w \in Extent(o) : w \div PAGE_SIZE \in Pages!Span(<<f, slub_order(k)>>)
      BY <2>1, <3>2, <3>4, ObjectWords
    <3>6. Blk(k, f)[1] = o[1] /\ Blk(k, f)[2] = <<f, slub_order(k)>>
      BY <3>2 DEF Blk
    <3> QED
      BY <3>2, <3>5, <3>6
  <2> QED
    BY <2>2, <2>3, <2>4, <2>5 DEF ObjectsApart
<1> QED
  BY <1>1, Invariance, PTL

(* The chain of a cache never meets a word that a caller has written, and   *)
(* no object on it belongs to a caller.                                     *)
THEOREM SpecChainSafe == Spec => []ChainSafe
<1>1. ASSUME IInv
      PROVE  ChainSafe
  <2>1. TypeOK /\ BlocksOK /\ LockInv /\ CallInv /\ ChainInv
    BY <1>1 DEF IInv
  <2>2. ASSUME NEW k \in Caches, freelist[k] # NULL,
               NEW w \in Objs(k, slub[k]), freelist[k] <= w
        PROVE  w # Wild /\ <<k, w>> \notin Gone
    <3>1. slub[k] \in Frames /\ freelist[k] \in Nat /\ <<k, w>> \notin given
      BY <2>1, <2>2, Chained
    <3>2. w \in Nat
      BY <3>1, FramesNat, Objects
    <3>3. <<k, w>> \notin InHand
      <4> SUFFICES ASSUME NEW c \in Cpus, pc[c] = "unlock", obj[c] # NULL,
                          kc[c] = k, obj[c] = w
                   PROVE  FALSE
        BY DEF InHand
      <4>1. obj[c] < freelist[k]
        BY <2>1, <2>2 DEF CallInv, Handing
      <4> QED
        BY <2>2, <3>1, <3>2, <4>1
    <3> QED
      BY <3>1, <3>2, <3>3 DEF Gone, Wild
  <2> QED
    BY <2>1, <2>2, ChainIs DEF ChainSafe
<1> QED
  BY <1>1, Invariance, PTL

(* Every object of a slub that has been cut is on the chain of its cache or *)
(* has been handed out: no memory is lost between two CPUs' steps.          *)
THEOREM SpecNoObjectLost == Spec => []NoObjectLost
<1>1. ASSUME IInv
      PROVE  NoObjectLost
  <2>1. TypeOK /\ BlocksOK /\ ChainInv /\ Kept
    BY <1>1 DEF IInv
  <2>2. ASSUME NEW x \in blocks, x[2][1] \notin {new_slub[c] : c \in Cpus}, NEW o \in Cut(x)
        PROVE  o \in Gone \/ o[2] \in Chain(x[1])
    <3>1. PICK k \in Caches, f \in Frames : x = Blk(k, f)
      BY <2>1 DEF BlocksOK
    <3>2. x[1] = k /\ x[2][1] = f
      BY <3>1 DEF Blk
    <3>3. Done(k, f)
      BY <2>2, <3>1, <3>2 DEF Done, Busy
    <3>4. PICK w \in Objs(k, f) : o = <<k, w>>
      BY <2>2, <3>1, CutIs
    <3>5. <<k, w>> \in Gone \/ (slub[k] = f /\ freelist[k] # NULL /\ freelist[k] <= w)
      BY <2>1, <3>3 DEF Kept
    <3> QED
      BY <2>1, <3>2, <3>4, <3>5, ChainIs
  <2> QED
    BY <2>2 DEF NoObjectLost
<1> QED
  BY <1>1, Invariance, PTL
=============================================================================
