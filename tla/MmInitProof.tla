----------------------------- MODULE MmInitProof -----------------------------
(***************************************************************************)
(* Proofs about MmInit, for any memory map, any size of a page, of a table *)
(* and of a struct page: what the linear allocator takes, when it gives    *)
(* up, what the page allocator gets, what is there when it gets it, and    *)
(* that page tables are within reach while they are made.                  *)
(*                                                                         *)
(* Each theorem names what it needs of memory maps, of tags and of the     *)
(* boot stage.                                                             *)
(***************************************************************************)
EXTENDS MmInit, FiniteSetTheorems, SequenceTheorems, WellFoundedInduction, TLAPS

-----------------------------------------------------------------------------
(* The inductive invariants.                                                *)

(* The parts of ram and chunks: the chunks ascend, each is a whole page of  *)
(* an area, and the allocator is behind the last one.                       *)
RamOK(r, cs) ==
  /\ r \in [start : Int, end : Nat, idx : Nat]
  /\ cs \in Seq(Nat)
  /\ \A i, j \in DOMAIN cs : i < j => cs[i] < cs[j]
  /\ \/ r.start = -1 /\ r.end = 0 /\ cs = <<>>
     \/ /\ r.start >= BootStart /\ r.end >= BootStart /\ r.start % PAGE_SIZE = 0
        /\ \E k \in DOMAIN areas : areas[k].start <= r.start /\ r.end = areas[k].end
        /\ \A i \in DOMAIN cs :
             /\ cs[i] >= BootStart /\ cs[i] % PAGE_SIZE = 0
             /\ cs[i] + PAGE_SIZE <= r.start /\ cs[i] + PAGE_SIZE <= r.end
             /\ Inside(cs[i], PAGE_SIZE)

(* No page serves twice, as long as no request has been refused.            *)
UseOK(cs, re, ts, mp) ==
  re = {} =>
    /\ \A t \in DOMAIN ts : ts[t] = BootStart - 1 \/ ts[t] \in ToSet(cs)
    /\ \A v \in DOMAIN mp : v[1] = "array" => mp[v] \in ToSet(cs)
    /\ \A v, w \in DOMAIN mp : v[1] = "array" /\ w[1] = "array" /\ v # w => mp[v] # mp[w]
    /\ \A t \in DOMAIN ts, v \in DOMAIN mp : v[1] = "array" => ts[t] # mp[v]
    /\ \A v \in DOMAIN mp : v[1] = "direct" => mp[v] = v[2] * PAGE_SIZE

(* phys_mm_area_arr has the available entries that have been looked at.     *)
Area(e) == [start |-> e.addr, end |-> e.addr + e.len]
Early   == {"tags", "hang", "analyze"}
Seen(i) == pc \notin {"tags", "hang"} /\ (pc = "analyze" => i < pos)

AreasInv ==
  /\ map \in Maps /\ (pc # "tags" => pos \in Nat \ {0})
  /\ pc \in Early \cup {"direct", "describe", "give", "done"}
  /\ areas \in Seq([start : Nat, end : Nat])
  /\ \A k \in DOMAIN areas : \E i \in DOMAIN map : map[i].available /\ areas[k] = Area(map[i])
  /\ \A i \in DOMAIN map : Seen(i) /\ map[i].available =>
       \E k \in DOMAIN areas : areas[k] = Area(map[i])
  /\ pc \in Early => chunks = <<>> /\ refused = {}

Passed(loop, later, p) == pc \in later \/ (pc = loop /\ p < pos)

(* What each loop has done.                                                 *)
LoopInv ==
  /\ \A p \in DOMAIN Visits : refused = {} /\ Passed("direct", {"describe", "give", "done"}, p) =>
       <<"direct", pfn(Visits[p][2])>> \in DOMAIN mapped
  /\ inited = {pfn(Visits[p][2]) :
                 p \in {q \in DOMAIN Visits : Passed("describe", {"give", "done"}, q)}}
  /\ refused = {} => \A f \in inited : <<"array", f \div PER_PAGE>> \in DOMAIN mapped

(* What has been given.                                                     *)
From(f, p) == /\ f = pfn(Visits[p][2])
              /\ Visits[p][2] >= ram.end
              /\ map[Visits[p][1]].available
GiveInv ==
  /\ given \in Seq(Nat)
  /\ given # <<>> => pc \in {"give", "done"} /\ refused = {}
  /\ \A i \in DOMAIN given :
       \E p \in DOMAIN Visits : Passed("give", {"done"}, p) /\ From(given[i], p)

Sound == /\ AreasInv
         /\ RamOK(ram, chunks)
         /\ UseOK(chunks, refused, tables, mapped)
         /\ LoopInv
         /\ GiveInv

Ordered == \A i, j \in DOMAIN given : i < j => given[i] < given[j]

(* Of the linear allocator as long as it has given nothing but memory, and  *)
(* of the states in which it refused.                                       *)
AtEnd(r) == Ahead(r) = {} /\ r.start + PAGE_SIZE >= r.end
Live(r)  == r.start + PAGE_SIZE <= r.end \/ AtEnd(r)
KernelFound ==
  \/ /\ ram.start = BootStart
     /\ \E k \in DOMAIN areas : BootStart < areas[k].end /\ ram.end = areas[k].end
  \/ \A i \in DOMAIN map : i < pos => ~Kernel(map[i])
EndInv   == /\ pc = "analyze" => KernelFound
            /\ pc \notin Early => Live(ram)
            /\ \A r \in refused : AtEnd(r)

-----------------------------------------------------------------------------
(* Numbers and sets of numbers.                                             *)

LEMMA Smallest ==
  ASSUME NEW T \in SUBSET Nat, T # {}
  PROVE  \E x \in T : \A y \in T : x <= y
<1> DEFINE R == {ss \in Nat \X Nat : ss[1] < ss[2]}
<1>1. IsWellFoundedOn(R, Nat)
  BY NatLessThanWellFounded DEF OpToRel
<1> HIDE DEF R
<1>2. PICK x \in T : \A y \in T : ~(<<y, x>> \in R)
  BY <1>1, WFMin
<1>3. \A y \in T : ~(y < x)
  BY <1>2 DEF R
<1> QED
  BY <1>3

LEMMA Induction ==
  ASSUME NEW T \in SUBSET Nat, 0 \in T, \A n \in T : n + 1 \in T
  PROVE  T = Nat
<1> SUFFICES ASSUME T # Nat PROVE FALSE
  OBVIOUS
<1>1. PICK x \in Nat \ T : \A y \in Nat \ T : x <= y
  BY Smallest
<1>2. x - 1 \in Nat /\ ~(x <= x - 1)
  BY <1>1
<1>3. x - 1 \in T
  BY <1>1, <1>2
<1> QED
  BY <1>1, <1>3

LEMMA Monotone ==
  ASSUME NEW a \in Nat, NEW b \in Nat, NEW s \in Nat, a <= b
  PROVE  a * s <= b * s
<1>1. PICK c \in Nat : b = a + c
  <2>1. b - a \in Nat /\ b = a + (b - a)
    OBVIOUS
  <2> QED
    BY <2>1
<1>2. b * s = a * s + c * s /\ c * s \in Nat /\ a * s \in Nat
  BY <1>1
<1> QED
  BY <1>2

LEMMA Element ==
  ASSUME NEW S, NEW s \in Seq(S), NEW i \in DOMAIN s
  PROVE  s[i] \in S
<1>1. Len(s) \in Nat /\ s \in [1 .. Len(s) -> S] /\ DOMAIN s = 1 .. Len(s)
  OBVIOUS
<1> QED
  BY ONLY <1>1, i \in DOMAIN s

LEMMA Appended ==
  ASSUME NEW S, NEW s \in Seq(S), NEW x \in S
  PROVE  /\ Append(s, x) \in Seq(S)
         /\ \A j \in DOMAIN s : j \in DOMAIN Append(s, x) /\ Append(s, x)[j] = s[j]
         /\ Len(s) + 1 \in DOMAIN Append(s, x) /\ Append(s, x)[Len(s) + 1] = x
         /\ \A j \in DOMAIN Append(s, x) : j \in DOMAIN s \/ j = Len(s) + 1
<1>1. /\ Append(s, x) \in Seq(S) /\ Len(Append(s, x)) = Len(s) + 1
      /\ \A j \in 1 .. Len(s) : Append(s, x)[j] = s[j]
      /\ Append(s, x)[Len(s) + 1] = x
  BY AppendProperties
<1>2. Len(s) \in Nat /\ DOMAIN s = 1 .. Len(s)
  OBVIOUS
<1>3. DOMAIN Append(s, x) = 1 .. Len(s) + 1
  BY <1>1
<1> QED
  BY ONLY <1>1, <1>2, <1>3

LEMMA PageNat == PAGE_SIZE \in Nat \ {0, 1} /\ BootStart \in Nat \ {0}
BY MapAssumption

(* The frame of an address.                                                 *)
LEMMA Frame ==
  ASSUME NEW a \in Nat
  PROVE  /\ pfn(a) \in Nat
         /\ pfn(a) * PAGE_SIZE <= a /\ a < pfn(a) * PAGE_SIZE + PAGE_SIZE
         /\ a % PAGE_SIZE = 0 => a = pfn(a) * PAGE_SIZE
         /\ pfn(a) * PAGE_SIZE \in Nat
<1> DEFINE q == a \div PAGE_SIZE
<1>1. PAGE_SIZE \in Nat \ {0}
  BY PageNat
<1>2. a % PAGE_SIZE \in 0 .. PAGE_SIZE - 1 /\ a = PAGE_SIZE * q + (a % PAGE_SIZE) /\ q \in Nat
  BY <1>1
<1> HIDE DEF q
<1>3. PAGE_SIZE * q = q * PAGE_SIZE /\ q * PAGE_SIZE \in Nat
  BY <1>1, <1>2
<1>4. q * PAGE_SIZE <= a /\ a < q * PAGE_SIZE + PAGE_SIZE /\ (a % PAGE_SIZE = 0 => a = q * PAGE_SIZE)
  <2> DEFINE z == q * PAGE_SIZE
             r == a % PAGE_SIZE
  <2>1. a = z + r /\ z \in Nat /\ r \in 0 .. PAGE_SIZE - 1
    BY <1>2, <1>3
  <2> HIDE DEF z, r
  <2>2. z <= a /\ a < z + PAGE_SIZE /\ (r = 0 => a = z)
    BY <1>1, <2>1
  <2> QED
    BY <2>2 DEF z, r
<1> QED
  BY <1>2, <1>3, <1>4 DEF pfn, q

LEMMA FrameLess ==
  ASSUME NEW a \in Nat, NEW b \in Nat, a % PAGE_SIZE = 0, a + PAGE_SIZE <= b
  PROVE  pfn(a) < pfn(b)
<1> DEFINE x == pfn(a)
           y == pfn(b)
<1>1. /\ x \in Nat /\ y \in Nat /\ x * PAGE_SIZE \in Nat /\ y * PAGE_SIZE \in Nat
      /\ a = x * PAGE_SIZE /\ b < y * PAGE_SIZE + PAGE_SIZE
  BY Frame
<1> HIDE DEF x, y
<1>2. PAGE_SIZE \in Nat
  BY PageNat
<1> SUFFICES ASSUME ~(x < y) PROVE FALSE
  BY DEF x, y
<1>3. y * PAGE_SIZE <= x * PAGE_SIZE
  BY <1>1, <1>2, Monotone
<1> QED
  BY <1>1, <1>2, <1>3

LEMMA FrameBelow ==
  ASSUME NEW a \in Nat, NEW b \in Nat, b % PAGE_SIZE = 0, a < b
  PROVE  pfn(a) < pfn(b)
<1> DEFINE x == pfn(a)
           y == pfn(b)
<1>1. /\ x \in Nat /\ y \in Nat /\ x * PAGE_SIZE \in Nat /\ y * PAGE_SIZE \in Nat
      /\ x * PAGE_SIZE <= a /\ b = y * PAGE_SIZE
  BY Frame
<1> HIDE DEF x, y
<1>2. PAGE_SIZE \in Nat
  BY PageNat
<1> SUFFICES ASSUME ~(x < y) PROVE FALSE
  BY DEF x, y
<1>3. y * PAGE_SIZE <= x * PAGE_SIZE
  BY <1>1, <1>2, Monotone
<1> QED
  BY <1>1, <1>3

(* Pages of the same kind that are apart are at least a page apart.         *)
LEMMA AlignedApart ==
  ASSUME NEW a \in Nat, NEW b \in Nat, a % PAGE_SIZE = 0, b % PAGE_SIZE = 0, a < b
  PROVE  a + PAGE_SIZE <= b
<1> DEFINE x == pfn(a)
           y == pfn(b)
<1>1. /\ x \in Nat /\ y \in Nat /\ x * PAGE_SIZE \in Nat /\ y * PAGE_SIZE \in Nat
      /\ a = x * PAGE_SIZE /\ b = y * PAGE_SIZE
  BY Frame
<1> HIDE DEF x, y
<1>2. PAGE_SIZE \in Nat
  BY PageNat
<1>3. x < y
  <2> SUFFICES ASSUME ~(x < y) PROVE FALSE
    OBVIOUS
  <2>1. y * PAGE_SIZE <= x * PAGE_SIZE
    BY <1>1, <1>2, Monotone
  <2> QED
    BY <1>1, <2>1
<1>4. (x + 1) * PAGE_SIZE <= y * PAGE_SIZE
  BY <1>1, <1>2, <1>3, Monotone
<1>5. (x + 1) * PAGE_SIZE = x * PAGE_SIZE + PAGE_SIZE
  BY <1>1, <1>2
<1> QED
  BY <1>1, <1>4, <1>5

LEMMA AlignedSum ==
  ASSUME NEW a \in Nat, a % PAGE_SIZE = 0, NEW k \in Nat
  PROVE  (a + k * PAGE_SIZE) % PAGE_SIZE = 0 /\ a + k * PAGE_SIZE \in Nat
<1> DEFINE x == pfn(a)
           z == (x + k) * PAGE_SIZE
<1>1. x \in Nat /\ a = x * PAGE_SIZE /\ PAGE_SIZE \in Nat \ {0}
  BY Frame, PageNat
<1> HIDE DEF x
<1>2. a + k * PAGE_SIZE = z /\ z \in Nat
  BY <1>1
<1>3. z % PAGE_SIZE = 0
  BY <1>1
<1> QED
  BY <1>2, <1>3

LEMMA OnePage == ALIGN(PAGE_SIZE, PAGE_SIZE) = PAGE_SIZE
<1> DEFINE x == PAGE_SIZE
<1>1. x \in Nat \ {0}
  BY PageNat
<1>2. (x + x - 1) \div x = 1
  <2>1. x + x - 1 \in Nat /\ x <= x + x - 1 /\ x + x - 1 < 2 * x
    BY <1>1
  <2> DEFINE y == x + x - 1
             q == y \div x
             r == y % x
  <2>2. y = x * q + r /\ q \in Nat /\ r \in 0 .. x - 1
    BY <1>1, <2>1
  <2> HIDE DEF q, r, x
  <2>3. q * x = x * q /\ q * x \in Nat
    BY <1>1, <2>2
  <2>4. q # 0
    BY <1>1, <2>1, <2>2, <2>3
  <2>5. ~(2 <= q)
    <3> SUFFICES ASSUME 2 <= q PROVE FALSE
      OBVIOUS
    <3>1. 2 * x <= q * x
      BY <1>1, <2>2, Monotone
    <3> QED
      BY <1>1, <2>1, <2>2, <2>3, <3>1
  <2>6. q = 1
    BY <2>2, <2>4, <2>5
  <2> QED
    BY <2>6 DEF q
<1> QED
  BY <1>1, <1>2 DEF ALIGN

-----------------------------------------------------------------------------
(* The linear allocator.                                                    *)

LEMMA TakeIs ==
  ASSUME NEW r \in [start : Int, end : Nat, idx : Nat],
         areas \in Seq([start : Nat, end : Nat])
  PROVE  LET s == r.start + PAGE_SIZE
             t == Take(r, PAGE_SIZE)
         IN  /\ t \in [start : Int, end : Nat, idx : Nat]
             /\ \/ s < r.end /\ t = [start |-> s, end |-> r.end, idx |-> r.idx]
                \/ /\ s >= r.end /\ Ahead(r) = {}
                   /\ t = [start |-> s, end |-> r.end, idx |-> Len(areas)]
                \/ /\ s >= r.end
                   /\ \E k \in Ahead(r) : /\ k \in DOMAIN areas /\ areas[k].start >= r.end
                                          /\ t = [start |-> areas[k].start, end |-> areas[k].end,
                                                  idx |-> k - 1]
                                          /\ \A j \in Ahead(r) : k <= j
<1> DEFINE s == r.start + PAGE_SIZE
           next == [r EXCEPT !.start = @ + PAGE_SIZE]
<1>1. PAGE_SIZE \in Nat
  BY PageNat
<1>2. next = [start |-> s, end |-> r.end, idx |-> r.idx] /\ next.start = s /\ next.end = r.end
  BY <1>1
<1>3. Ahead(next) = Ahead(r)
  BY <1>2 DEF Ahead
<1>4. Take(r, PAGE_SIZE) = IF s >= r.end THEN Slide(next) ELSE next
  BY <1>2 DEF Take
<1>5. Ahead(r) \subseteq DOMAIN areas /\ Ahead(r) \subseteq Nat /\ Len(areas) \in Nat
  BY DEF Ahead
<1>6. CASE ~(s >= r.end)
  BY <1>1, <1>2, <1>4, <1>6
<1>7. CASE s >= r.end /\ Ahead(r) = {}
  <2>1. Take(r, PAGE_SIZE) = [start |-> s, end |-> r.end, idx |-> Len(areas)]
    BY <1>2, <1>3, <1>4, <1>7 DEF Slide
  <2> QED
    BY <1>1, <1>5, <1>7, <2>1
<1>8. CASE s >= r.end /\ Ahead(r) # {}
  <2> DEFINE k == CHOOSE k \in Ahead(r) : \A j \in Ahead(r) : k <= j
  <2>1. \E i \in Ahead(r) : \A j \in Ahead(r) : i <= j
    BY <1>5, <1>8, Smallest
  <2>2. k \in Ahead(r) /\ \A j \in Ahead(r) : k <= j
    BY <2>1
  <2>3. Take(r, PAGE_SIZE) = [start |-> areas[k].start, end |-> areas[k].end, idx |-> k - 1]
    BY <1>3, <1>4, <1>8 DEF Slide
  <2> HIDE DEF k
  <2>4. k \in DOMAIN areas /\ areas[k].start >= r.end /\ k - 1 \in Nat
    BY <1>5, <2>2 DEF Ahead
  <2>5. areas[k].start \in Nat /\ areas[k].end \in Nat
    <3>1. areas[k] \in [start : Nat, end : Nat]
      BY <2>4, Element
    <3> QED
      BY <3>1
  <2>6. Take(r, PAGE_SIZE) \in [start : Int, end : Nat, idx : Nat]
    BY <2>3, <2>4, <2>5
  <2>7. \E x \in Ahead(r) : /\ x \in DOMAIN areas /\ areas[x].start >= r.end
                            /\ Take(r, PAGE_SIZE) = [start |-> areas[x].start, end |-> areas[x].end,
                                                     idx |-> x - 1]
                            /\ \A j \in Ahead(r) : x <= j
    BY <2>2, <2>3, <2>4
  <2> QED
    BY ONLY <1>8, <2>6, <2>7
<1> QED
  BY <1>6, <1>7, <1>8

LEMMA AllocIs ==
  ASSUME NEW r \in [start : Int, end : Nat, idx : Nat]
  PROVE  LET q == Alloc(r, PAGE_SIZE)
         IN  \/ /\ r.start + PAGE_SIZE > r.end
                /\ q = [ram |-> r, chunk |-> NULL, took |-> <<>>]
             \/ /\ r.start + PAGE_SIZE <= r.end
                /\ q.ram = Take(r, PAGE_SIZE) /\ q.took = <<r.start>>
                /\ \/ q.chunk = r.start
                   \/ /\ q.chunk = NULL
                      /\ r.start + PAGE_SIZE >= r.end
                      /\ Take(r, PAGE_SIZE).idx = Len(areas)
                /\ q.chunk # NULL => ~(/\ r.start + PAGE_SIZE >= r.end
                                       /\ Take(r, PAGE_SIZE).idx = Len(areas))
<1>1. ALIGN(PAGE_SIZE, PAGE_SIZE) = PAGE_SIZE /\ PAGE_SIZE \in Nat \ {0}
  BY OnePage, PageNat
<1> DEFINE t == Take(r, PAGE_SIZE)
<1> HIDE DEF t
<1>2. Alloc(r, PAGE_SIZE) =
        IF PAGE_SIZE + r.start > r.end THEN [ram |-> r, chunk |-> NULL, took |-> <<>>]
        ELSE [ram |-> t, took |-> <<r.start>>,
              chunk |-> IF r.start + PAGE_SIZE >= r.end /\ t.idx = Len(areas) THEN NULL
                        ELSE r.start]
  BY <1>1 DEF Alloc, t
<1>3. PAGE_SIZE + r.start = r.start + PAGE_SIZE /\ r.start + PAGE_SIZE \in Int /\ r.end \in Int
  BY <1>1
<1>4. CASE r.start + PAGE_SIZE > r.end
  BY <1>2, <1>3, <1>4
<1>5. CASE ~(r.start + PAGE_SIZE > r.end)
  <2>1. r.start + PAGE_SIZE <= r.end
    BY <1>3, <1>5
  <2> QED
    BY <1>2, <1>3, <1>5, <2>1 DEF t
<1> QED
  BY <1>4, <1>5

(* A request leaves the chunks in order and the allocator behind them.      *)
LEMMA AllocOK ==
  ASSUME StartsAligned, AreasInv, NEW r, NEW cs, RamOK(r, cs)
  PROVE  LET q == Alloc(r, PAGE_SIZE)
         IN  /\ RamOK(q.ram, cs \o q.took)
             /\ q.chunk # NULL => /\ q.chunk = r.start /\ q.took = <<r.start>>
                                  /\ q.chunk \in Nat /\ q.chunk \notin ToSet(cs)
                                  /\ q.chunk >= BootStart
<1> DEFINE q == Alloc(r, PAGE_SIZE)
           s == r.start + PAGE_SIZE
<1>1. /\ r \in [start : Int, end : Nat, idx : Nat] /\ cs \in Seq(Nat)
      /\ areas \in Seq([start : Nat, end : Nat])
      /\ PAGE_SIZE \in Nat \ {0, 1} /\ BootStart \in Nat \ {0}
  BY PageNat DEF RamOK, AreasInv
<1>2. CASE s > r.end
  <2>1. q = [ram |-> r, chunk |-> NULL, took |-> <<>>]
    BY <1>1, <1>2, AllocIs
  <2>2. cs \o <<>> = cs
    BY <1>1
  <2> QED
    BY <2>1, <2>2
<1>3. CASE ~(s > r.end)
  <2> DEFINE t == Take(r, PAGE_SIZE)
             a == r.start
             ds == cs \o <<a>>
  <2>1. s \in Int /\ r.end \in Nat /\ s <= r.end
    BY <1>1, <1>3
  <2>2. /\ q.ram = t /\ q.took = <<a>> /\ q.chunk \in {a, NULL}
    BY <1>1, <1>3, <2>1, AllocIs
  <2>3. a # -1
    <3> SUFFICES ASSUME a = -1 PROVE FALSE
      OBVIOUS
    <3>1. r.end = 0 \/ a >= BootStart
      BY DEF RamOK
    <3> QED
      BY <1>1, <2>1, <3>1
  <2>4. PICK h \in DOMAIN areas : areas[h].start <= a /\ r.end = areas[h].end
    BY <2>3 DEF RamOK
  <2>5. /\ a >= BootStart /\ a \in Nat /\ a % PAGE_SIZE = 0 /\ r.end >= BootStart
        /\ \A i \in DOMAIN cs :
             /\ cs[i] >= BootStart /\ cs[i] % PAGE_SIZE = 0
             /\ cs[i] + PAGE_SIZE <= a /\ cs[i] + PAGE_SIZE <= r.end
             /\ Inside(cs[i], PAGE_SIZE)
    <3>1. a >= BootStart /\ r.start = a
      BY <2>3 DEF RamOK
    <3>2. a \in Nat
      BY <1>1, <3>1
    <3> QED
      BY <2>3, <3>1, <3>2 DEF RamOK
  <2>6. /\ ds \in Seq(Nat) /\ Len(ds) = Len(cs) + 1
        /\ DOMAIN ds = 1 .. (Len(cs) + 1) /\ DOMAIN cs = 1 .. Len(cs) /\ Len(cs) \in Nat
        /\ \A i \in DOMAIN cs : ds[i] = cs[i] /\ cs[i] \in Nat
        /\ ds[Len(cs) + 1] = a
    <3> HIDE DEF a
    <3>1. cs \in Seq(Nat) /\ <<a>> \in Seq(Nat) /\ Len(<<a>>) = 1 /\ <<a>>[1] = a
      BY <1>1, <2>5
    <3> QED
      BY <3>1, ConcatProperties
  <2> HIDE DEF ds
  <2>7. Inside(a, PAGE_SIZE)
    BY <2>1, <2>4 DEF Inside
  <2>8. \A i \in DOMAIN ds :
          /\ ds[i] >= BootStart /\ ds[i] % PAGE_SIZE = 0
          /\ ds[i] + PAGE_SIZE <= s /\ ds[i] + PAGE_SIZE <= r.end
          /\ Inside(ds[i], PAGE_SIZE)
    <3> SUFFICES ASSUME NEW i \in DOMAIN ds
                 PROVE  /\ ds[i] >= BootStart /\ ds[i] % PAGE_SIZE = 0
                        /\ ds[i] + PAGE_SIZE <= s /\ ds[i] + PAGE_SIZE <= r.end
                        /\ Inside(ds[i], PAGE_SIZE)
      OBVIOUS
    <3>1. CASE i = Len(cs) + 1
      BY <2>1, <2>5, <2>6, <2>7, <3>1
    <3>2. CASE i # Len(cs) + 1
      <4>1. i \in DOMAIN cs /\ ds[i] = cs[i] /\ cs[i] \in Nat
        BY <2>6, <3>2
      <4> QED
        BY <1>1, <2>5, <4>1
    <3> QED
      BY <3>1, <3>2
  <2>9. \A i, j \in DOMAIN ds : i < j => ds[i] < ds[j]
    <3> SUFFICES ASSUME NEW i \in DOMAIN ds, NEW j \in DOMAIN ds, i < j PROVE ds[i] < ds[j]
      OBVIOUS
    <3>1. i \in DOMAIN cs
      BY <2>6
    <3>2. CASE j = Len(cs) + 1
      BY <1>1, <2>5, <2>6, <3>1, <3>2
    <3>3. CASE j # Len(cs) + 1
      <4>1. j \in DOMAIN cs /\ ds[j] = cs[j] /\ ds[i] = cs[i]
        BY <2>6, <3>1, <3>3
      <4>2. cs[i] < cs[j]
        BY <3>1, <4>1 DEF RamOK
      <4> QED
        BY <4>1, <4>2
    <3> QED
      BY <3>2, <3>3
  <2>10. a \notin ToSet(cs)
    BY <1>1, <2>5, <2>6 DEF ToSet
  <2> HIDE DEF a, s, t, ds
  <2>11. s % PAGE_SIZE = 0 /\ s >= BootStart
    <3>1. s = a + 1 * PAGE_SIZE
      BY <1>1, <2>5 DEF s, a
    <3>2. (a + 1 * PAGE_SIZE) % PAGE_SIZE = 0
      BY <2>5, AlignedSum
    <3>3. s >= BootStart
      BY <1>1, <2>5, <3>1
    <3> QED
      BY ONLY <3>1, <3>2, <3>3
  <2>12. /\ t \in [start : Int, end : Nat, idx : Nat]
         /\ \/ t.start = s /\ t.end = r.end
            \/ \E k \in DOMAIN areas : /\ areas[k].start >= r.end
                                       /\ t.start = areas[k].start /\ t.end = areas[k].end
    <3>1. /\ t \in [start : Int, end : Nat, idx : Nat]
          /\ \/ t = [start |-> s, end |-> r.end, idx |-> r.idx]
             \/ t = [start |-> s, end |-> r.end, idx |-> Len(areas)]
             \/ \E k \in DOMAIN areas : /\ areas[k].start >= r.end
                                        /\ t = [start |-> areas[k].start, end |-> areas[k].end,
                                                idx |-> k - 1]
      BY <1>1, TakeIs DEF s, t
    <3> QED
      BY <3>1
  <2>13. RamOK(t, ds)
    <3>1. CASE t.start = s /\ t.end = r.end
      <4>1. areas[h].start <= s
        <5>1. areas[h] \in [start : Nat, end : Nat]
          BY <1>1, Element
        <5> QED
          BY <1>1, <2>4, <2>5, <5>1 DEF s, a
      <4> QED
        BY <2>4, <2>5, <2>6, <2>8, <2>9, <2>11, <2>12, <3>1, <4>1 DEF RamOK
    <3>2. CASE \E k \in DOMAIN areas : /\ areas[k].start >= r.end
                                       /\ t.start = areas[k].start /\ t.end = areas[k].end
      <4>1. PICK k \in DOMAIN areas : /\ areas[k].start >= r.end
                                      /\ t.start = areas[k].start /\ t.end = areas[k].end
        BY <3>2
      <4>2. PICK i \in DOMAIN map : map[i].available /\ areas[k] = Area(map[i])
        BY DEF AreasInv
      <4>3. map \in Maps /\ map \in Seq([addr : Nat, len : Nat, available : BOOLEAN])
        BY MapAssumption DEF AreasInv
      <4>4. /\ map[i].addr \in Nat /\ map[i].len \in Nat
            /\ areas[k].start = map[i].addr /\ areas[k].end = map[i].addr + map[i].len
        <5>1. map[i] \in [addr : Nat, len : Nat, available : BOOLEAN]
          BY <4>3, Element
        <5> QED
          BY <4>2, <5>1 DEF Area
      <4>5. areas[k].start >= BootStart /\ areas[k].end >= areas[k].start
        <5> HIDE DEF s
        <5>1. r.end \in Nat /\ r.end >= BootStart
          BY <2>1, <2>5
        <5>2. BootStart \in Nat
          BY <1>1
        <5> QED
          BY ONLY <4>1, <4>4, <5>1, <5>2
      <4>6. areas[k].start % PAGE_SIZE = 0
        BY <4>2, <4>3, <4>4, <4>5 DEF StartsAligned
      <4>7. areas[k].end >= BootStart /\ areas[k].end >= r.end
        <5>1. r.end \in Nat
          BY <2>1
        <5>2. BootStart \in Nat
          BY <1>1
        <5> QED
          BY ONLY <4>1, <4>4, <4>5, <5>1, <5>2
      <4>8. \A n \in DOMAIN ds : ds[n] + PAGE_SIZE <= t.start /\ ds[n] + PAGE_SIZE <= t.end
        <5> SUFFICES ASSUME NEW n \in DOMAIN ds
                     PROVE  ds[n] + PAGE_SIZE <= t.start /\ ds[n] + PAGE_SIZE <= t.end
          OBVIOUS
        <5>1. ds[n] \in Nat /\ ds[n] + PAGE_SIZE <= r.end /\ r.end \in Nat
          BY <2>1, <2>6, <2>8, Element
        <5>2. PAGE_SIZE \in Nat
          BY <1>1
        <5> QED
          BY ONLY <4>1, <4>4, <4>7, <5>1, <5>2
      <4> QED
        BY <2>6, <2>8, <2>9, <2>12, <4>1, <4>5, <4>6, <4>7, <4>8 DEF RamOK
    <3> QED
      BY <2>12, <3>1, <3>2
  <2>14. NULL # a
    BY <1>1, <2>5 DEF NULL
  <2> QED
    BY <2>2, <2>5, <2>6, <2>10, <2>13, <2>14 DEF a, t, ds
<1> QED
  BY <1>2, <1>3

-----------------------------------------------------------------------------
(* mm_init_pgtable_map.                                                     *)

(* The records that Page, Level and MapPage change.                         *)
Shape(m) == m = [ram |-> m.ram, tables |-> m.tables, mapped |-> m.mapped, chunk |-> m.chunk,
                 chunks |-> m.chunks, refused |-> m.refused, strayed |-> m.strayed]

MOK(m) == /\ Shape(m)
          /\ RamOK(m.ram, m.chunks)
          /\ UseOK(m.chunks, m.refused, m.tables, m.mapped)

(* From m to n nothing is taken back, and no table is put where a chunk of  *)
(* m was that no table had.                                                 *)
Grows(m, n) ==
  /\ m.refused \subseteq n.refused
  /\ ToSet(m.chunks) \subseteq ToSet(n.chunks)
  /\ n.refused = {} =>
       \A x \in ToSet(m.chunks) :
         (\A t \in DOMAIN m.tables : m.tables[t] # x) =>
           (\A t \in DOMAIN n.tables : n.tables[t] # x)

LEMMA PageOK ==
  ASSUME StartsAligned, AreasInv, NEW m, Shape(m), RamOK(m.ram, m.chunks)
  PROVE  LET p == Page(m)
         IN  /\ Shape(p) /\ RamOK(p.ram, p.chunks)
             /\ p.tables = m.tables /\ p.mapped = m.mapped
             /\ m.refused \subseteq p.refused
             /\ ToSet(m.chunks) \subseteq ToSet(p.chunks)
             /\ p.refused = {} => /\ p.chunk \in ToSet(p.chunks)
                                  /\ p.chunk \notin ToSet(m.chunks)
                                  /\ p.chunk \in Nat /\ p.chunk >= BootStart
<1> DEFINE a == Alloc(m.ram, PAGE_SIZE)
           p == Page(m)
<1>1. /\ RamOK(a.ram, m.chunks \o a.took)
      /\ a.chunk # NULL => /\ a.chunk = m.ram.start /\ a.took = <<m.ram.start>>
                           /\ a.chunk \in Nat /\ a.chunk \notin ToSet(m.chunks)
                           /\ a.chunk >= BootStart
  BY AllocOK
<1>2. m.chunks \in Seq(Nat) /\ m.chunks \o a.took \in Seq(Nat)
  BY <1>1 DEF RamOK
<1>3. a.took = <<>> \/ a.took = <<m.ram.start>>
  <2>1. m.ram \in [start : Int, end : Nat, idx : Nat]
    BY DEF RamOK
  <2> QED
    BY <2>1, AllocIs
<1>4. /\ p.ram = a.ram /\ p.chunk = a.chunk /\ p.chunks = m.chunks \o a.took
      /\ p.refused = IF a.chunk = NULL THEN m.refused \cup {m.ram} ELSE m.refused
      /\ p.tables = m.tables /\ p.mapped = m.mapped /\ Shape(p)
  <2> HIDE DEF a
  <2>1. Page(m) = [m EXCEPT !.ram = a.ram, !.chunk = a.chunk, !.chunks = m.chunks \o a.took,
                !.refused = IF a.chunk = NULL THEN m.refused \cup {m.ram} ELSE m.refused]
    BY DEF Page, a, Shape
  <2> QED
    BY <2>1 DEF Shape
<1> HIDE DEF a, p
<1>5. CASE a.took = <<>>
  <2>1. p.chunks = m.chunks /\ a.chunk = NULL
    <3>1. a.took # <<m.ram.start>>
      BY <1>5
    <3> QED
      BY <1>1, <1>2, <1>4, <1>5, <3>1, ConcatEmptySeq
  <2> QED
    BY <1>1, <1>4, <2>1 DEF p
<1>6. CASE a.took = <<m.ram.start>>
  <2> DEFINE s == m.ram.start
             cs == m.chunks
             ds == m.chunks \o <<s>>
  <2>1. s \in Int /\ cs \in Seq(Int) /\ <<s>> \in Seq(Int) /\ Len(<<s>>) = 1 /\ <<s>>[1] = s
    <3>1. m.ram.start \in Int
      BY DEF RamOK
    <3>2. \A c \in Seq(Nat) : c \in Seq(Int)
      OBVIOUS
    <3> QED
      BY <1>2, <3>1, <3>2
  <2>2. /\ Len(ds) = Len(cs) + 1 /\ DOMAIN ds = 1 .. (Len(cs) + 1) /\ DOMAIN cs = 1 .. Len(cs)
        /\ Len(cs) \in Nat
        /\ \A i \in 1 .. Len(cs) : ds[i] = cs[i]
        /\ ds[Len(cs) + 1] = s
    <3> HIDE DEF s
    <3> QED
      BY <2>1, ConcatProperties
  <2> HIDE DEF s, cs, ds
  <2>3. ToSet(cs) \subseteq ToSet(ds) /\ s \in ToSet(ds)
    BY <2>2 DEF ToSet
  <2> QED
    BY <1>1, <1>4, <1>6, <2>3 DEF p, s, cs, ds
<1> QED
  BY <1>3, <1>5, <1>6

LEMMA LevelOK ==
  ASSUME StartsAligned, AreasInv, NEW m, MOK(m), NEW v, NEW n
  PROVE  LET l == Level(m, v, n)
         IN  MOK(l) /\ Grows(m, l) /\ l.mapped = m.mapped
<1> DEFINE t == TableOf(v, n)
           p == Page(m)
           m1 == IF t \in DOMAIN m.tables THEN m
                 ELSE [p EXCEPT !.tables = Update(@, t, p.chunk)]
           l == Level(m, v, n)
<1>1. MOK(m1) /\ Grows(m, m1) /\ m1.mapped = m.mapped
  <2>1. CASE t \in DOMAIN m.tables
    BY <2>1 DEF Grows
  <2>2. CASE t \notin DOMAIN m.tables
    <3>1. /\ Shape(p) /\ RamOK(p.ram, p.chunks)
          /\ p.tables = m.tables /\ p.mapped = m.mapped
          /\ m.refused \subseteq p.refused
          /\ ToSet(m.chunks) \subseteq ToSet(p.chunks)
          /\ p.refused = {} => /\ p.chunk \in ToSet(p.chunks)
                               /\ p.chunk \notin ToSet(m.chunks)
                               /\ p.chunk \in Nat /\ p.chunk >= BootStart
      BY PageOK DEF MOK
    <3> DEFINE ts == Update(m.tables, t, p.chunk)
               q == [p EXCEPT !.tables = Update(@, t, p.chunk)]
    <3>2. /\ DOMAIN ts = DOMAIN m.tables \cup {t} /\ ts[t] = p.chunk
          /\ \A z \in DOMAIN m.tables : ts[z] = m.tables[z]
      <4> HIDE DEF p, t
      <4>1. ts = [z \in DOMAIN m.tables \cup {t} |-> IF z = t THEN p.chunk ELSE m.tables[z]]
        BY DEF Update
      <4> HIDE DEF ts
      <4> QED
        BY <2>2, <4>1
    <3> HIDE DEF ts, p, t
    <3>3. /\ Shape(q) /\ q.ram = p.ram /\ q.chunks = p.chunks /\ q.refused = p.refused
          /\ q.tables = ts /\ q.mapped = m.mapped
      BY <3>1 DEF Shape, ts
    <3>4. m1 = q
      BY <2>2
    <3> HIDE DEF q, m1
    <3>5. UseOK(p.chunks, p.refused, ts, m.mapped)
      <4> SUFFICES ASSUME p.refused = {} PROVE UseOK(p.chunks, p.refused, ts, m.mapped)
        BY DEF UseOK
      <4>1. m.refused = {} /\ UseOK(m.chunks, m.refused, m.tables, m.mapped)
        BY <3>1 DEF MOK
      <4>2. \A z \in DOMAIN ts : z = t \/ (z \in DOMAIN m.tables /\ ts[z] = m.tables[z])
        BY <3>2
      <4> QED
        BY <3>1, <3>2, <4>1, <4>2 DEF UseOK
    <3>6. Grows(m, q)
      <4>1. \A z \in DOMAIN ts : z = t \/ (z \in DOMAIN m.tables /\ ts[z] = m.tables[z])
        BY <3>2
      <4> QED
        BY <3>1, <3>2, <3>3, <4>1 DEF Grows
    <3> QED
      BY <3>1, <3>3, <3>4, <3>5, <3>6 DEF MOK
  <2> QED
    BY <2>1, <2>2
<1>2. l = [m1 EXCEPT !.strayed = @ \/ ~Visible(pfn(m1.tables[t]))]
  BY DEF Level
<1> HIDE DEF m1, l, t
<1>3. /\ Shape(l) /\ l.ram = m1.ram /\ l.chunks = m1.chunks /\ l.refused = m1.refused
      /\ l.tables = m1.tables /\ l.mapped = m1.mapped
  BY <1>1, <1>2 DEF MOK, Shape
<1>4. MOK(l) /\ Grows(m, l) /\ l.mapped = m.mapped
  BY <1>1, <1>3 DEF MOK, Grows
<1> QED
  BY <1>4 DEF l

LEMMA GrowsOn ==
  ASSUME NEW a, NEW b, NEW c, Grows(a, b), Grows(b, c)
  PROVE  Grows(a, c)
BY DEF Grows

LEMMA LevelsOK ==
  ASSUME StartsAligned, AreasInv, NEW m, MOK(m), NEW v
  PROVE  LET l == Level(Level(Level(m, v, 1), v, 2), v, 3)
         IN  MOK(l) /\ Grows(m, l) /\ l.mapped = m.mapped
<1> DEFINE l1 == Level(m, v, 1)
           l2 == Level(l1, v, 2)
           l3 == Level(l2, v, 3)
<1>1. MOK(l1) /\ Grows(m, l1) /\ l1.mapped = m.mapped
  BY LevelOK
<1> HIDE DEF l1
<1>2. MOK(l2) /\ Grows(l1, l2) /\ l2.mapped = l1.mapped
  BY <1>1, LevelOK
<1> HIDE DEF l2
<1>3. MOK(l3) /\ Grows(l2, l3) /\ l3.mapped = l2.mapped
  BY <1>2, LevelOK
<1> HIDE DEF l3
<1>4. Grows(m, l3)
  BY <1>1, <1>2, <1>3, GrowsOn
<1> QED
  BY <1>1, <1>2, <1>3, <1>4 DEF l1, l2, l3

LEMMA MapIs ==
  ASSUME NEW m, NEW v, NEW f, Shape(Level(Level(Level(m, v, 1), v, 2), v, 3))
  PROVE  LET l == Level(Level(Level(m, v, 1), v, 2), v, 3)
             r == MapPage(m, v, f)
         IN  /\ r.ram = l.ram /\ r.chunks = l.chunks /\ r.refused = l.refused
             /\ r.tables = l.tables /\ r.mapped = Update(l.mapped, v, f) /\ r.strayed = l.strayed
<1> DEFINE l == Level(Level(Level(m, v, 1), v, 2), v, 3)
           r == MapPage(m, v, f)
<1>1. r = [l EXCEPT !.mapped = Update(@, v, f)]
  BY DEF MapPage
<1> HIDE DEF l, r
<1>2. Shape(l)
  BY DEF l
<1>3. /\ r.ram = l.ram /\ r.chunks = l.chunks /\ r.refused = l.refused
      /\ r.tables = l.tables /\ r.mapped = Update(l.mapped, v, f) /\ r.strayed = l.strayed
  BY <1>1, <1>2 DEF Shape
<1> QED
  BY <1>3 DEF l, r

(* Mapping a page of the direct mapping area.                               *)
LEMMA MapDirectOK ==
  ASSUME StartsAligned, AreasInv, NEW m, MOK(m), NEW f \in Nat
  PROVE  LET r == MapPage(m, <<"direct", f>>, f * PAGE_SIZE)
         IN  /\ RamOK(r.ram, r.chunks) /\ UseOK(r.chunks, r.refused, r.tables, r.mapped)
             /\ m.refused \subseteq r.refused
             /\ DOMAIN r.mapped = DOMAIN m.mapped \cup {<<"direct", f>>}
<1> DEFINE v == <<"direct", f>>
           l == Level(Level(Level(m, v, 1), v, 2), v, 3)
           r == MapPage(m, v, f * PAGE_SIZE)
<1>1. MOK(l) /\ Grows(m, l) /\ l.mapped = m.mapped
  BY LevelsOK
<1>2. /\ r.ram = l.ram /\ r.chunks = l.chunks /\ r.refused = l.refused
      /\ r.tables = l.tables /\ r.mapped = Update(l.mapped, v, f * PAGE_SIZE)
  BY <1>1, MapIs DEF MOK
<1>3. v[1] = "direct" /\ v[2] = f /\ v[1] # "array"
  OBVIOUS
<1> HIDE DEF v, l, r
<1>4. /\ DOMAIN r.mapped = DOMAIN m.mapped \cup {v} /\ r.mapped[v] = v[2] * PAGE_SIZE
      /\ \A z \in DOMAIN r.mapped : z = v \/ (z \in DOMAIN m.mapped /\ r.mapped[z] = m.mapped[z])
  <2>1. r.mapped = [z \in DOMAIN m.mapped \cup {v} |->
                      IF z = v THEN v[2] * PAGE_SIZE ELSE m.mapped[z]]
    BY <1>1, <1>2, <1>3 DEF Update
  <2> QED
    BY <2>1
<1>5. UseOK(l.chunks, l.refused, l.tables, m.mapped)
  BY <1>1 DEF MOK
<1>6. UseOK(r.chunks, r.refused, r.tables, r.mapped)
  BY <1>2, <1>3, <1>4, <1>5 DEF UseOK
<1>7. RamOK(r.ram, r.chunks) /\ m.refused \subseteq r.refused
  BY <1>1, <1>2 DEF MOK, Grows
<1> QED
  BY <1>4, <1>6, <1>7 DEF r, v

(* Taking a page and mapping it into the array.                             *)
LEMMA MapArrayOK ==
  ASSUME StartsAligned, AreasInv, NEW m, MOK(m), NEW i, <<"array", i>> \notin DOMAIN m.mapped
  PROVE  LET p == Page(m)
             r == MapPage(p, <<"array", i>>, p.chunk)
         IN  /\ RamOK(r.ram, r.chunks) /\ UseOK(r.chunks, r.refused, r.tables, r.mapped)
             /\ m.refused \subseteq r.refused
             /\ DOMAIN r.mapped = DOMAIN m.mapped \cup {<<"array", i>>}
<1> DEFINE v == <<"array", i>>
           p == Page(m)
           l == Level(Level(Level(p, v, 1), v, 2), v, 3)
           r == MapPage(p, v, p.chunk)
<1>1. /\ Shape(p) /\ RamOK(p.ram, p.chunks)
      /\ p.tables = m.tables /\ p.mapped = m.mapped
      /\ m.refused \subseteq p.refused
      /\ ToSet(m.chunks) \subseteq ToSet(p.chunks)
      /\ p.refused = {} => /\ p.chunk \in ToSet(p.chunks)
                           /\ p.chunk \notin ToSet(m.chunks)
                           /\ p.chunk \in Nat /\ p.chunk >= BootStart
  BY PageOK DEF MOK
<1>2. v[1] = "array" /\ v[1] # "direct" /\ v \notin DOMAIN m.mapped
  OBVIOUS
<1> HIDE DEF p, v
<1>3. UseOK(p.chunks, p.refused, p.tables, p.mapped)
  BY <1>1 DEF MOK, UseOK
<1>4. MOK(p)
  BY <1>1, <1>3 DEF MOK
<1>5. MOK(l) /\ Grows(p, l) /\ l.mapped = p.mapped
  BY <1>4, LevelsOK
<1>6. /\ r.ram = l.ram /\ r.chunks = l.chunks /\ r.refused = l.refused
      /\ r.tables = l.tables /\ r.mapped = Update(l.mapped, v, p.chunk)
  BY <1>5, MapIs DEF MOK
<1> HIDE DEF l, r
<1>7. /\ DOMAIN r.mapped = DOMAIN m.mapped \cup {v} /\ r.mapped[v] = p.chunk
      /\ \A z \in DOMAIN r.mapped : z = v \/ (z \in DOMAIN m.mapped /\ r.mapped[z] = m.mapped[z])
  <2>1. r.mapped = [z \in DOMAIN m.mapped \cup {v} |-> IF z = v THEN p.chunk ELSE m.mapped[z]]
    BY <1>1, <1>5, <1>6 DEF Update
  <2> QED
    BY <2>1
<1>8. UseOK(r.chunks, r.refused, r.tables, r.mapped)
  <2> SUFFICES ASSUME r.refused = {} PROVE UseOK(r.chunks, r.refused, r.tables, r.mapped)
    BY DEF UseOK
  <2>1. p.refused = {} /\ m.refused = {}
    BY <1>1, <1>5, <1>6 DEF Grows
  <2>2. UseOK(l.chunks, l.refused, l.tables, m.mapped) /\ l.refused = {}
    BY <1>1, <1>5, <1>6 DEF MOK
  <2>3. p.chunk \in ToSet(l.chunks)
    BY <1>1, <1>5, <2>1 DEF Grows
  <2>4. \A t \in DOMAIN m.tables : m.tables[t] # p.chunk
    BY <1>1, <2>1, PageNat DEF MOK, UseOK
  <2>5. \A t \in DOMAIN l.tables : l.tables[t] # p.chunk
    BY <1>1, <1>5, <2>1, <2>2, <2>4 DEF Grows
  <2>6. \A z \in DOMAIN m.mapped : z[1] = "array" => m.mapped[z] # p.chunk
    BY <1>1, <2>1 DEF MOK, UseOK
  <2> QED
    BY <1>2, <1>6, <1>7, <2>2, <2>3, <2>5, <2>6 DEF UseOK
<1>9. RamOK(r.ram, r.chunks) /\ m.refused \subseteq r.refused
  BY <1>1, <1>5, <1>6 DEF MOK, Grows
<1> QED
  BY <1>7, <1>8, <1>9 DEF r, v, p

-----------------------------------------------------------------------------
(* The order in which the loops visit the pages.                            *)

(* A recursive function over the first n numbers, as in FlattenSeq.         *)
LEMMA Flattened ==
  ASSUME NEW n \in Nat, NEW s
  PROVE  \E f : f = [i \in 1 .. n |-> IF i = 1 THEN s[i] ELSE f[i - 1] \o s[i]]
<1> DEFINE Is(f, m) == f = [i \in 1 .. m |-> IF i = 1 THEN s[i] ELSE f[i - 1] \o s[i]]
           T == {m \in Nat : \E f : Is(f, m)}
<1>1. 0 \in T
  <2> DEFINE e == [i \in 1 .. 0 |-> 0]
  <2>1. Is(e, 0)
    OBVIOUS
  <2> HIDE DEF e, Is
  <2> QED
    BY <2>1
<1>2. ASSUME NEW m \in T
      PROVE  m + 1 \in T
  <2>1. m \in Nat
    OBVIOUS
  <2>2. PICK f : Is(f, m)
    OBVIOUS
  <2> DEFINE x == IF m + 1 = 1 THEN s[m + 1] ELSE f[m] \o s[m + 1]
             g == [i \in 1 .. m + 1 |-> IF i = m + 1 THEN x ELSE f[i]]
  <2>3. \A i \in 1 .. m : f[i] = IF i = 1 THEN s[i] ELSE f[i - 1] \o s[i]
    BY <2>2
  <2>4. \A i \in 1 .. m : g[i] = f[i] /\ (i # 1 => g[i - 1] = f[i - 1])
    BY <2>1
  <2>5. g[m + 1] = IF m + 1 = 1 THEN s[m + 1] ELSE g[m] \o s[m + 1]
    BY <2>1, <2>4
  <2>6. (m + 1) - 1 = m /\ \A i \in 1 .. m + 1 : i = m + 1 \/ i \in 1 .. m
    BY <2>1
  <2>7. \A i \in 1 .. m + 1 : g[i] = IF i = 1 THEN s[i] ELSE g[i - 1] \o s[i]
    <3> SUFFICES ASSUME NEW i \in 1 .. m + 1
                 PROVE  g[i] = IF i = 1 THEN s[i] ELSE g[i - 1] \o s[i]
      OBVIOUS
    <3> HIDE DEF g, x
    <3>1. CASE i = m + 1
      BY <2>5, <2>6, <3>1
    <3>2. CASE i # m + 1
      BY <2>3, <2>4, <2>6, <3>2
    <3> QED
      BY <3>1, <3>2
  <2>8. g = [i \in 1 .. m + 1 |-> g[i]]
    OBVIOUS
  <2> HIDE DEF g
  <2>9. Is(g, m + 1)
    BY <2>7, <2>8
  <2> HIDE DEF Is
  <2> QED
    BY <2>1, <2>9
<1> HIDE DEF T
<1>3. T = Nat
  BY <1>1, <1>2, Induction DEF T
<1> QED
  BY <1>3 DEF T

(* The pages of an entry begin before its end.                              *)
LEMMA PagesOf ==
  ASSUME NEW len \in Nat, NEW k \in 1 .. ((len + PAGE_SIZE - 1) \div PAGE_SIZE)
  PROVE  k - 1 \in Nat /\ (k - 1) * PAGE_SIZE \in Nat /\ (k - 1) * PAGE_SIZE < len
<1> DEFINE x == PAGE_SIZE
           y == len + x - 1
           q == y \div x
<1>1. x \in Nat \ {0}
  BY PageNat
<1>2. y \in Nat
  BY <1>1
<1>3. q \in Nat /\ x * q <= y
  <2> HIDE DEF x, y
  <2>1. y % x \in 0 .. x - 1 /\ y = x * (y \div x) + (y % x) /\ y \div x \in Nat
    BY <1>1, <1>2
  <2> QED
    BY <1>1, <1>2, <2>1
<1>4. k \in 1 .. q
  OBVIOUS
<1> HIDE DEF q
<1>5. k \in Nat /\ k <= q /\ k - 1 \in Nat
  BY <1>3, <1>4
<1>6. k * x <= q * x
  BY <1>1, <1>3, <1>5, Monotone
<1>7. (k - 1) * x \in Nat /\ k * x = (k - 1) * x + x /\ q * x = x * q /\ x * q \in Nat
  BY <1>1, <1>3, <1>5
<1>8. (k - 1) * x < len
  BY <1>1, <1>3, <1>6, <1>7
<1> QED
  BY <1>5, <1>7, <1>8

(* A visit of a page of entry i.                                            *)
Visit(v, i) == v[1] = i /\ \E k \in Nat : /\ k * PAGE_SIZE < map[i].len
                                          /\ v[2] = map[i].addr + k * PAGE_SIZE
Comes(v, w) == v[1] < w[1] \/ (v[1] = w[1] /\ v[2] < w[2])

LEMMA VisitsAre ==
  ASSUME map \in Maps
  PROVE  /\ Visits \in Seq((DOMAIN map) \X Nat)
         /\ \A p \in DOMAIN Visits : Visit(Visits[p], Visits[p][1])
         /\ \A p, q \in DOMAIN Visits : p < q => Comes(Visits[p], Visits[q])
         /\ \A i \in DOMAIN map : \A k \in 1 .. ((map[i].len + PAGE_SIZE - 1) \div PAGE_SIZE) :
              \E p \in DOMAIN Visits : Visits[p] = <<i, map[i].addr + (k - 1) * PAGE_SIZE>>
<1> DEFINE n == Len(map)
           W == (DOMAIN map) \X Nat
           N(i) == (map[i].len + PAGE_SIZE - 1) \div PAGE_SIZE
           s == [i \in DOMAIN map |->
                   [k \in 1 .. N(i) |-> <<i, map[i].addr + (k - 1) * PAGE_SIZE>>]]
           Good(g, i) == /\ g \in Seq(W)
                         /\ \A p \in DOMAIN g : g[p][1] <= i /\ Visit(g[p], g[p][1])
                         /\ \A p, q \in DOMAIN g : p < q => Comes(g[p], g[q])
                         /\ \A j \in 1 .. i : \A k \in DOMAIN s[j] :
                              \E p \in DOMAIN g : g[p] = s[j][k]
<1>1. /\ map \in Seq([addr : Nat, len : Nat, available : BOOLEAN])
      /\ n \in Nat /\ DOMAIN map = 1 .. n /\ PAGE_SIZE \in Nat \ {0}
  BY MapAssumption, PageNat
<1>2. \A i \in DOMAIN map : map[i].addr \in Nat /\ map[i].len \in Nat
  <2>1. \A i \in DOMAIN map : map[i] \in [addr : Nat, len : Nat, available : BOOLEAN]
    BY <1>1, Element
  <2> QED
    BY <2>1
<1>3. Len(s) = n /\ DOMAIN s = 1 .. n
  <2>1. DOMAIN s = 1 .. n
    BY <1>1
  <2> HIDE DEF s, n
  <2> QED
    BY <1>1, <2>1
<1>4. ASSUME NEW i \in DOMAIN map
      PROVE  /\ s[i] \in Seq(W)
             /\ \A p \in DOMAIN s[i] : Visit(s[i][p], i)
             /\ \A p, q \in DOMAIN s[i] : p < q => Comes(s[i][p], s[i][q])
  <2> DEFINE r == [k \in 1 .. N(i) |-> <<i, map[i].addr + (k - 1) * PAGE_SIZE>>]
  <2>1. s[i] = r
    OBVIOUS
  <2>2. N(i) \in Nat
    <3> DEFINE y == map[i].len + PAGE_SIZE - 1
    <3>1. y \in Nat /\ PAGE_SIZE \in Nat \ {0}
      BY <1>1, <1>2
    <3>2. N(i) = y \div PAGE_SIZE
      OBVIOUS
    <3> HIDE DEF y, N
    <3>3. y \div PAGE_SIZE \in Nat
      BY ONLY <3>1
    <3> QED
      BY <3>2, <3>3
  <2>3. \A k \in 1 .. N(i) : /\ k - 1 \in Nat /\ (k - 1) * PAGE_SIZE \in Nat
                             /\ (k - 1) * PAGE_SIZE < map[i].len
    BY <1>2, PagesOf
  <2> HIDE DEF N
  <2>4. \A k \in 1 .. N(i) : r[k] \in W
    <3> SUFFICES ASSUME NEW k \in 1 .. N(i) PROVE r[k] \in W
      OBVIOUS
    <3> DEFINE x == (k - 1) * PAGE_SIZE
    <3>1. x \in Nat /\ map[i].addr \in Nat
      BY <1>2, <2>3
    <3>2. r[k] = <<i, map[i].addr + x>>
      OBVIOUS
    <3> HIDE DEF x, r
    <3>3. map[i].addr + x \in Nat
      BY ONLY <3>1
    <3> DEFINE y == map[i].addr + x
    <3>4. r[k] = <<i, y>> /\ y \in Nat
      BY <3>2, <3>3
    <3> HIDE DEF y
    <3>5. <<i, y>> \in W
      BY <3>4
    <3> HIDE DEF W
    <3> QED
      BY <3>4, <3>5
  <2>5. r \in Seq(W)
    <3>1. r \in [1 .. N(i) -> W]
      BY <2>4
    <3> HIDE DEF r, W
    <3> QED
      BY <2>2, <3>1
  <2>6. \A p \in DOMAIN r : Visit(r[p], i)
    BY <2>3 DEF Visit
  <2>7. ASSUME NEW p \in DOMAIN r, NEW q \in DOMAIN r, p < q
        PROVE  Comes(r[p], r[q])
    <3> DEFINE x == (p - 1) * PAGE_SIZE
               y == (q - 1) * PAGE_SIZE
    <3>1. p - 1 \in Nat /\ q - 1 \in Nat /\ x \in Nat /\ y \in Nat
      BY <2>3
    <3>2. p \in Nat /\ q \in Nat /\ p <= q - 1
      BY <2>2, <2>7
    <3>3. p * PAGE_SIZE <= y /\ p * PAGE_SIZE = x + PAGE_SIZE
      BY <1>1, <3>1, <3>2, Monotone
    <3> HIDE DEF x, y
    <3>4. x < y
      <4>1. x + PAGE_SIZE <= y /\ PAGE_SIZE \in Nat \ {0}
        BY ONLY <3>3, PageNat
      <4> QED
        BY ONLY <3>1, <4>1
    <3>5. map[i].addr + x < map[i].addr + y
      BY <1>2, <3>1, <3>4
    <3>6. /\ r[p][1] = i /\ r[q][1] = i
          /\ r[p][2] = map[i].addr + x /\ r[q][2] = map[i].addr + y
      BY DEF x, y
    <3> HIDE DEF r
    <3> QED
      BY <3>5, <3>6 DEF Comes
  <2> HIDE DEF r, W, s
  <2> QED
    BY <2>1, <2>5, <2>6, <2>7
<1>5. Visits = FlattenSeq(s)
  BY DEF Visits
<1>8. ASSUME \A i \in 1 .. n : \A k \in DOMAIN s[i] : \E p \in DOMAIN Visits : Visits[p] = s[i][k]
      PROVE  \A i \in DOMAIN map : \A k \in 1 .. ((map[i].len + PAGE_SIZE - 1) \div PAGE_SIZE) :
               \E p \in DOMAIN Visits : Visits[p] = <<i, map[i].addr + (k - 1) * PAGE_SIZE>>
  <2> TAKE i \in DOMAIN map
  <2>1. s[i] = [k \in 1 .. N(i) |-> <<i, map[i].addr + (k - 1) * PAGE_SIZE>>]
    OBVIOUS
  <2> HIDE DEF s
  <2> TAKE k \in 1 .. N(i)
  <2>2. k \in DOMAIN s[i] /\ s[i][k] = <<i, map[i].addr + (k - 1) * PAGE_SIZE>>
    BY <2>1
  <2> HIDE DEF N
  <2>3. \E p \in DOMAIN Visits : Visits[p] = s[i][k]
    BY <1>1, <1>8, <2>2
  <2> QED
    BY <2>2, <2>3
<1> HIDE DEF s, N
<1>6. CASE n = 0
  <2>1. Visits = s /\ DOMAIN s = {}
    BY <1>3, <1>5, <1>6 DEF FlattenSeq
  <2>2. s \in Seq(W)
    <3>1. s \in [1 .. 0 -> W] \/ s # [i \in 1 .. n |-> s[i]]
      BY <1>3, <1>6
    <3>2. s = [i \in 1 .. n |-> s[i]]
      BY <1>1 DEF s
    <3> HIDE DEF W
    <3> QED
      BY <3>1, <3>2
  <2>3. \A i \in 1 .. n : i \notin 1 .. n
    BY <1>6
  <2> QED
    BY <1>8, <2>1, <2>2, <2>3
<1>7. CASE n # 0
  <2> DEFINE Is(f) == f = [i \in 1 .. Len(s) |-> IF i = 1 THEN s[i] ELSE f[i - 1] \o s[i]]
             g == CHOOSE f : Is(f)
  <2>1. Visits = g[n]
    BY <1>3, <1>5, <1>7 DEF FlattenSeq
  <2>2. \E f : Is(f)
    <3> HIDE DEF s, n, W
    <3>1. Len(s) \in Nat
      BY <1>1, <1>3
    <3> QED
      BY <3>1, Flattened
  <2>3. Is(g)
    <3> HIDE DEF Is
    <3> QED
      BY <2>2
  <2> HIDE DEF g
  <2>4. \A i \in 1 .. n : g[i] = IF i = 1 THEN s[i] ELSE g[i - 1] \o s[i]
    BY <1>3, <2>3
  <2> HIDE DEF Is, n, Good
  <2> DEFINE T == {i \in Nat : i + 1 \in 1 .. n => Good(g[i + 1], i + 1)}
  <2>5. 0 \in T
    <3>1. g[1] = s[1] /\ 1 \in DOMAIN map
      BY <1>1, <1>7, <2>4
    <3>2. Good(s[1], 1)
      <4> HIDE DEF W
      <4>1. /\ s[1] \in Seq(W)
            /\ \A p \in DOMAIN s[1] : Visit(s[1][p], 1)
            /\ \A p, q \in DOMAIN s[1] : p < q => Comes(s[1][p], s[1][q])
        BY <1>4, <3>1
      <4> DEFINE z == s[1]
      <4> HIDE DEF z
      <4>2. \A p \in DOMAIN z : z[p][1] = 1
        BY <4>1 DEF Visit, z
      <4>3. \A p \in DOMAIN z : z[p][1] <= 1 /\ Visit(z[p], z[p][1])
        BY <4>1, <4>2 DEF z
      <4>4. \A j \in 1 .. 1 : j = 1
        OBVIOUS
      <4>5. \A j \in 1 .. 1 : \A k \in DOMAIN s[j] : \E p \in DOMAIN z : z[p] = s[j][k]
        BY <4>4 DEF z
      <4> QED
        BY <4>1, <4>3, <4>5 DEF Good, z
    <3> QED
      BY <3>1, <3>2
  <2>6. ASSUME NEW i \in T
        PROVE  i + 1 \in T
    <3>1. i \in Nat
      OBVIOUS
    <3>2. SUFFICES ASSUME (i + 1) + 1 \in 1 .. n PROVE Good(g[(i + 1) + 1], (i + 1) + 1)
      BY <3>1
    <3> DEFINE j == i + 1
               a == g[j]
               b == s[j + 1]
               h == g[j + 1]
    <3>3. j \in Nat /\ j \in 1 .. n /\ j + 1 \in DOMAIN map /\ j + 1 # 1 /\ (j + 1) - 1 = j
      BY <1>1, <3>1, <3>2
    <3>4. h = a \o b
      BY <1>1, <2>4, <3>3
    <3>5. Good(a, j)
      BY <3>3
    <3> HIDE DEF j, T
    <3>6. /\ a \in Seq(W) /\ b \in Seq(W)
          /\ \A p \in DOMAIN a : a[p][1] <= j /\ Visit(a[p], a[p][1]) /\ a[p][1] \in Nat
          /\ \A p \in DOMAIN b : b[p][1] = j + 1 /\ Visit(b[p], b[p][1])
          /\ \A p, q \in DOMAIN a : p < q => Comes(a[p], a[q])
          /\ \A p, q \in DOMAIN b : p < q => Comes(b[p], b[q])
      <4>1. /\ a \in Seq(W) /\ b \in Seq(W)
            /\ \A p \in DOMAIN b : b[p][1] = j + 1 /\ Visit(b[p], b[p][1])
            /\ \A p, q \in DOMAIN b : p < q => Comes(b[p], b[q])
        <5> HIDE DEF W
        <5>1. \A p \in DOMAIN b : Visit(b[p], j + 1)
          BY <1>4, <3>3
        <5> QED
          BY <1>4, <3>3, <3>5, <5>1 DEF Good, Visit
      <4>2. \A p \in DOMAIN a : a[p] \in W
        <5> HIDE DEF W, a
        <5> QED
          BY <4>1, Element
      <4>3. \A p \in DOMAIN a : a[p][1] \in Nat
        <5>1. DOMAIN map \subseteq Nat
          BY <1>1
        <5>2. \A p \in DOMAIN a : a[p][1] \in DOMAIN map
          <6> SUFFICES ASSUME NEW p \in DOMAIN a PROVE a[p][1] \in DOMAIN map
            OBVIOUS
          <6> DEFINE z == a[p]
          <6> HIDE DEF W, a
          <6>1. z \in W
            BY <4>2
          <6> HIDE DEF z
          <6>2. z[1] \in DOMAIN map
            BY <6>1 DEF W
          <6> QED
            BY <6>2 DEF z
        <5> QED
          BY <5>1, <5>2
      <4> HIDE DEF W
      <4> QED
        BY <3>5, <4>1, <4>3 DEF Good
    <3> HIDE DEF a, b, h, W
    <3>7. /\ h \in Seq(W) /\ Len(h) = Len(a) + Len(b)
          /\ DOMAIN h = 1 .. Len(a) + Len(b) /\ DOMAIN a = 1 .. Len(a) /\ DOMAIN b = 1 .. Len(b)
          /\ Len(a) \in Nat /\ Len(b) \in Nat
          /\ \A p \in 1 .. Len(a) + Len(b) : h[p] = IF p <= Len(a) THEN a[p] ELSE b[p - Len(a)]
      BY <3>4, <3>6, ConcatProperties
    <3>8. \A p \in DOMAIN h : \/ p \in DOMAIN a /\ h[p] = a[p]
                              \/ p > Len(a) /\ p - Len(a) \in DOMAIN b /\ h[p] = b[p - Len(a)]
      BY <3>7
    <3>9. \A p \in DOMAIN h : h[p][1] <= j + 1 /\ Visit(h[p], h[p][1])
      BY <3>3, <3>6, <3>8
    <3>10. ASSUME NEW p \in DOMAIN h, NEW q \in DOMAIN h, p < q
           PROVE  Comes(h[p], h[q])
      <4>1. p \in Int /\ q \in Int /\ Len(a) \in Nat
        BY <3>7
      <4>2. CASE q \in DOMAIN a /\ h[q] = a[q]
        <5>1. p \in DOMAIN a /\ h[p] = a[p]
          BY <3>7, <3>8, <3>10, <4>1, <4>2
        <5> QED
          BY <3>6, <3>10, <4>2, <5>1
      <4>3. CASE q > Len(a) /\ q - Len(a) \in DOMAIN b /\ h[q] = b[q - Len(a)]
        <5>1. CASE p \in DOMAIN a /\ h[p] = a[p]
          <6>1. h[p][1] <= j /\ h[q][1] = j + 1 /\ h[p][1] \in Nat
            BY <3>6, <4>3, <5>1
          <6> QED
            BY <3>3, <6>1 DEF Comes
        <5>2. CASE p > Len(a) /\ p - Len(a) \in DOMAIN b /\ h[p] = b[p - Len(a)]
          <6>1. p - Len(a) < q - Len(a)
            BY <3>10, <4>1
          <6> QED
            BY <3>6, <4>3, <5>2, <6>1
        <5> QED
          BY <3>8, <5>1, <5>2
      <4> QED
        BY <3>8, <4>2, <4>3
    <3>12. \A p \in DOMAIN a : p \in DOMAIN h /\ h[p] = a[p]
      BY <3>7
    <3>13. ASSUME NEW p \in DOMAIN b
           PROVE  Len(a) + p \in DOMAIN h /\ h[Len(a) + p] = b[p]
      <4>1. p \in Nat \ {0} /\ p <= Len(b) /\ Len(a) + p \in 1 .. Len(a) + Len(b)
        BY <3>7
      <4>2. ~(Len(a) + p <= Len(a)) /\ Len(a) + p - Len(a) = p
        BY <3>7, <4>1
      <4> QED
        BY <3>7, <4>1, <4>2
    <3>14. \A i1 \in 1 .. j + 1 : \A k \in DOMAIN s[i1] : \E p \in DOMAIN h : h[p] = s[i1][k]
      <4> TAKE i1 \in 1 .. j + 1
      <4> TAKE k \in DOMAIN s[i1]
      <4>1. CASE i1 = j + 1
        BY <3>13, <4>1 DEF b
      <4>2. CASE i1 # j + 1
        <5>1. i1 \in 1 .. j
          BY <3>3, <4>2
        <5>2. \E p \in DOMAIN a : a[p] = s[i1][k]
          BY <3>5, <5>1 DEF Good
        <5> QED
          BY <3>12, <5>2
      <4> QED
        BY <4>1, <4>2
    <3>11. Good(h, j + 1)
      BY <3>7, <3>9, <3>10, <3>14 DEF Good
    <3> QED
      BY <3>11 DEF h, j
  <2> HIDE DEF T
  <2>7. T = Nat
    BY <2>5, <2>6, Induction DEF T
  <2>8. n - 1 \in Nat /\ (n - 1) + 1 = n /\ n \in 1 .. n
    BY <1>1, <1>7
  <2>9. Good(g[n], n)
    BY <2>7, <2>8 DEF T
  <2> HIDE DEF W
  <2>10. \A i \in 1 .. n : \A k \in DOMAIN s[i] : \E p \in DOMAIN Visits : Visits[p] = s[i][k]
    BY <2>1, <2>9 DEF Good
  <2>11. /\ Visits \in Seq(W)
         /\ \A p \in DOMAIN Visits : Visit(Visits[p], Visits[p][1])
         /\ \A p, q \in DOMAIN Visits : p < q => Comes(Visits[p], Visits[q])
    BY <2>1, <2>9 DEF Good
  <2>12. \A i \in DOMAIN map : \A k \in 1 .. ((map[i].len + PAGE_SIZE - 1) \div PAGE_SIZE) :
           \E p \in DOMAIN Visits : Visits[p] = <<i, map[i].addr + (k - 1) * PAGE_SIZE>>
    BY <1>8, <2>10
  <2> QED
    BY <2>11, <2>12 DEF W
<1> QED
  BY <1>6, <1>7

-----------------------------------------------------------------------------
(* The invariant is inductive.                                              *)

LEMMA SoundInit ==
  ASSUME Init
  PROVE  Sound
<1>1. /\ map \in Maps /\ pc = "tags" /\ areas = <<>> /\ inited = {} /\ given = <<>>
      /\ chunks = <<>> /\ refused = {} /\ ram = [start |-> -1, end |-> 0, idx |-> 0]
  BY DEF Init
<1>2. AreasInv
  BY <1>1 DEF AreasInv, Early, Seen
<1>3. RamOK(ram, chunks)
  BY <1>1 DEF RamOK
<1>4. UseOK(chunks, refused, tables, mapped)
  <2>1. \A t \in DOMAIN tables : tables[t] = BootStart - 1
    BY DEF Init
  <2>2. \A v \in DOMAIN mapped : v[1] # "array" /\ mapped[v] = v[2] * PAGE_SIZE
    <3> DEFINE D == {"direct"} \X (0 .. BootMapped - 1)
    <3>1. \A v \in D : v[1] = "direct"
      OBVIOUS
    <3>2. mapped = [v \in D |-> v[2] * PAGE_SIZE]
      BY DEF Init
    <3> HIDE DEF D
    <3> QED
      BY <3>1, <3>2
  <2> QED
    BY <2>1, <2>2 DEF UseOK
<1>5. LoopInv
  BY <1>1 DEF LoopInv, Passed
<1>6. GiveInv
  BY <1>1 DEF GiveInv
<1> QED
  BY <1>2, <1>3, <1>4, <1>5, <1>6 DEF Sound

(* What a step that leaves areas, map and ram alone has in common with the  *)
(* state before.                                                            *)
LEMMA Kept ==
  ASSUME areas' = areas
  PROVE  /\ \A r, cs : RamOK(r, cs) /\ ram' = r /\ chunks' = cs => RamOK(ram, chunks)'
         /\ map' = map => Visits' = Visits
BY DEF RamOK, Inside, Visits

LEMMA NoLoop ==
  ASSUME AreasInv, LoopInv, GiveInv, pc \in Early \cup {"direct"}
  PROVE  inited = {} /\ given = <<>>
<1>1. pc \notin {"describe", "give", "done"}
  BY DEF Early
<1> QED
  BY <1>1 DEF LoopInv, GiveInv, Passed

LEMMA SoundFindMap ==
  ASSUME Sound, FindMap
  PROVE  Sound'
<1>1. /\ pc = "tags" /\ pc' \in {"hang", "analyze", "tags"}
      /\ pc' # "tags" => pos' = 1
      /\ map' = map /\ areas' = areas /\ ram' = ram /\ tables' = tables /\ mapped' = mapped
      /\ inited' = inited /\ given' = given /\ chunks' = chunks /\ refused' = refused
  BY DEF FindMap
<1>2. chunks = <<>> /\ refused = {} /\ inited = {} /\ given = <<>>
  BY <1>1, NoLoop DEF Sound, AreasInv, Early
<1>3. AreasInv'
  <2>1. \A i \in DOMAIN map : ~(pc = "analyze" /\ i < pos)'
    <3>1. map \in Seq([addr : Nat, len : Nat, available : BOOLEAN])
      BY MapAssumption DEF Sound, AreasInv
    <3>2. \A i \in DOMAIN map : ~(i < 1)
      BY <3>1
    <3> QED
      BY <1>1, <3>2
  <2>2. \A i \in DOMAIN map : ~Seen(i)'
    BY <1>1, <2>1 DEF Seen
  <2> QED
    BY <1>1, <1>2, <2>2 DEF Sound, AreasInv, Early
<1>4. RamOK(ram, chunks)'
  BY <1>1, Kept DEF Sound
<1>5. UseOK(chunks, refused, tables, mapped)'
  BY <1>1 DEF Sound, UseOK
<1>6. LoopInv'
  BY <1>1, <1>2 DEF LoopInv, Passed
<1>7. GiveInv'
  BY <1>1, <1>2 DEF GiveInv
<1> QED
  BY <1>3, <1>4, <1>5, <1>6, <1>7 DEF Sound

LEMMA SoundAnalyze ==
  ASSUME StartsAligned, Sound, Analyze
  PROVE  Sound'
<1> DEFINE e == map[pos]
           a == Area(e)
<1>1. /\ pc = "analyze" /\ refused = {} /\ pos <= Len(map)
      /\ (pos = Len(map) /\ pc' = "direct" /\ pos' = 1)
           \/ (pos # Len(map) /\ pc' = "analyze" /\ pos' = pos + 1)
      /\ areas' = IF e.available THEN Append(areas, a) ELSE areas
      /\ ram' = IF e.available /\ a.start <= BootStart /\ BootStart < a.end
                THEN [ram EXCEPT !.start = BootStart, !.end = a.end] ELSE ram
      /\ map' = map /\ tables' = tables /\ mapped' = mapped
      /\ inited' = inited /\ given' = given /\ chunks' = chunks /\ refused' = refused
  BY DEF Analyze, Iterate, Area, past
<1>2. chunks = <<>> /\ inited = {} /\ given = <<>>
  BY <1>1, NoLoop DEF Sound, AreasInv, Early
<1>3. map \in Seq([addr : Nat, len : Nat, available : BOOLEAN]) /\ pos \in Nat \ {0}
  BY <1>1, MapAssumption DEF Sound, AreasInv
<1>4. DOMAIN map = 1 .. Len(map) /\ Len(map) \in Nat /\ pos \in DOMAIN map
  BY <1>1, <1>3
<1>5. e.addr \in Nat /\ e.len \in Nat /\ a \in [start : Nat, end : Nat]
      /\ a.start = e.addr /\ a.end = e.addr + e.len
  <2>1. map[pos] \in [addr : Nat, len : Nat, available : BOOLEAN]
    BY <1>3, <1>4, Element
  <2> QED
    BY <2>1 DEF Area
<1>6. areas \in Seq([start : Nat, end : Nat]) /\ Len(areas) \in Nat
  BY DEF Sound, AreasInv
<1> DEFINE z == Append(areas, a)
<1>7. /\ z \in Seq([start : Nat, end : Nat])
      /\ \A k \in DOMAIN areas : k \in DOMAIN z /\ z[k] = areas[k]
      /\ Len(areas) + 1 \in DOMAIN z /\ z[Len(areas) + 1] = a
      /\ \A k \in DOMAIN z : k \in DOMAIN areas \/ k = Len(areas) + 1
  <2> DEFINE T == [start : Nat, end : Nat]
  <2>1. a \in T /\ areas \in Seq(T)
    BY <1>5, <1>6
  <2> HIDE DEF a, T
  <2> QED
    BY <2>1, Appended DEF T
<1> HIDE DEF a, e, z
<1>8. AreasInv'
  <2>1. areas' \in Seq([start : Nat, end : Nat])
    BY <1>1, <1>6, <1>7 DEF z
  <2>2. \A k \in DOMAIN areas' : \E i \in DOMAIN map : map[i].available /\ areas'[k] = Area(map[i])
    <3>1. \A k \in DOMAIN areas : \E i \in DOMAIN map : map[i].available /\ areas[k] = Area(map[i])
      BY DEF Sound, AreasInv
    <3>2. e.available => \A k \in DOMAIN z : \E i \in DOMAIN map : map[i].available /\ z[k] = Area(map[i])
      BY <1>4, <1>7, <3>1 DEF a, e
    <3> QED
      BY <1>1, <3>1, <3>2 DEF z
  <2>3. ASSUME NEW i \in DOMAIN map, i <= pos, map[i].available
        PROVE  \E k \in DOMAIN areas' : areas'[k] = Area(map[i])
    <3>1. CASE i = pos
      BY <1>1, <1>7, <2>3, <3>1 DEF a, e, z
    <3>2. CASE i # pos
      <4>1. Seen(i)
        BY <1>1, <1>3, <1>4, <2>3, <3>2 DEF Seen
      <4>2. PICK k \in DOMAIN areas : areas[k] = Area(map[i])
        BY <2>3, <4>1 DEF Sound, AreasInv
      <4> QED
        BY <1>1, <1>7, <4>2 DEF z
    <3> QED
      BY <3>1, <3>2
  <2>4. \A i \in DOMAIN map : Seen(i)' => i <= pos
    BY <1>1, <1>3, <1>4 DEF Seen
  <2>5. pos' \in Nat \ {0} /\ pc' \in {"analyze", "direct"}
    BY <1>1, <1>3
  <2>6. map' \in Maps
    BY <1>1 DEF Sound, AreasInv
  <2> QED
    BY <1>1, <1>2, <2>1, <2>2, <2>3, <2>4, <2>5, <2>6 DEF AreasInv, Early
<1>9. RamOK(ram, chunks)'
  <2>0. chunks' = <<>> /\ chunks' \in Seq(Nat) /\ DOMAIN chunks' = {}
    BY <1>1, <1>2
  <2>1. ram \in [start : Int, end : Nat, idx : Nat]
    BY DEF Sound, RamOK
  <2>2. CASE e.available /\ a.start <= BootStart /\ BootStart < a.end
    <3>1. ram' = [start |-> BootStart, end |-> a.end, idx |-> ram.idx]
      BY <1>1, <2>1, <2>2
    <3>2. BootStart \in Nat /\ BootStart % PAGE_SIZE = 0
      BY PageNat DEF StartsAligned
    <3>3. /\ ram' \in [start : Int, end : Nat, idx : Nat]
          /\ ram'.start = BootStart /\ ram'.end = a.end
      BY <1>5, <2>1, <3>1, <3>2
    <3>4. \E k \in DOMAIN areas' : areas'[k].start <= BootStart /\ a.end = areas'[k].end
      BY <1>1, <1>7, <2>2 DEF z
    <3>5. ram'.start >= BootStart /\ ram'.end >= BootStart
      BY <1>5, <2>2, <3>2, <3>3
    <3>6. \E k \in DOMAIN areas' : areas'[k].start <= ram'.start /\ ram'.end = areas'[k].end
      BY <3>3, <3>4
    <3>7. ram'.start % PAGE_SIZE = 0
      BY <3>2, <3>3
    <3> QED
      BY <2>0, <3>3, <3>5, <3>6, <3>7 DEF RamOK
  <2>3. CASE ~(e.available /\ a.start <= BootStart /\ BootStart < a.end)
    <3>1. ram' = ram
      BY <1>1, <2>3
    <3>2. \A k \in DOMAIN areas : k \in DOMAIN areas' /\ areas'[k] = areas[k]
      BY <1>1, <1>7 DEF z
    <3>3. \/ ram.start = -1 /\ ram.end = 0
          \/ /\ ram.start >= BootStart /\ ram.end >= BootStart /\ ram.start % PAGE_SIZE = 0
             /\ \E k \in DOMAIN areas : areas[k].start <= ram.start /\ ram.end = areas[k].end
      BY DEF Sound, RamOK
    <3> QED
      BY <2>0, <2>1, <3>1, <3>2, <3>3 DEF RamOK
  <2> QED
    BY <2>2, <2>3
<1>10. UseOK(chunks, refused, tables, mapped)'
  BY <1>1 DEF Sound, UseOK
<1>11. LoopInv'
  <2>1. Visits' = Visits
    BY <1>1 DEF Visits
  <2>2. \A p \in DOMAIN Visits : ~(p < 1)
    <3>1. Visits \in Seq((DOMAIN map) \X Nat)
      BY VisitsAre DEF Sound, AreasInv
    <3> HIDE DEF Visits
    <3>2. DOMAIN Visits = 1 .. Len(Visits)
      BY <3>1
    <3> QED
      BY <3>2
  <2> QED
    BY <1>1, <1>2, <2>1, <2>2 DEF LoopInv, Passed
<1>12. GiveInv'
  BY <1>1, <1>2 DEF GiveInv
<1> QED
  BY <1>8, <1>9, <1>10, <1>11, <1>12 DEF Sound

(* What an iteration of the last three loops begins with.                   *)
LEMMA Visited ==
  ASSUME Sound, pc \in {"direct", "describe", "give"}, pos <= Len(Visits)
  PROVE  /\ Len(Visits) \in Nat /\ DOMAIN Visits = 1 .. Len(Visits)
         /\ pos \in DOMAIN Visits /\ pos \in Nat \ {0}
         /\ Visits[pos][1] \in DOMAIN map /\ Visits[pos][2] \in Nat
         /\ pfn(Visits[pos][2]) \in Nat
<1>1. Visits \in Seq((DOMAIN map) \X Nat)
  BY VisitsAre DEF Sound, AreasInv
<1>2. pos \in Nat \ {0}
  BY DEF Sound, AreasInv
<1> DEFINE S == (DOMAIN map) \X Nat
<1>3. Visits \in Seq(S)
  BY <1>1
<1> HIDE DEF Visits, S
<1>4. Len(Visits) \in Nat /\ DOMAIN Visits = 1 .. Len(Visits) /\ pos \in DOMAIN Visits
  BY <1>2, <1>3
<1>5. Visits[pos] \in S
  BY <1>3, <1>4, Element
<1> DEFINE z == Visits[pos]
<1>6. z \in S
  BY <1>5
<1> HIDE DEF z
<1>7. z[1] \in DOMAIN map /\ z[2] \in Nat
  BY <1>6 DEF S
<1>8. pfn(z[2]) \in Nat
  BY <1>7, Frame
<1> QED
  BY <1>2, <1>4, <1>7, <1>8 DEF z

(* An iteration makes the page that comes next one that has been passed.    *)
LEMMA Passes ==
  ASSUME Sound, NEW loop \in {"direct", "describe", "give"}, NEW later,
         NEW nextLoop, Iterate(loop, Len(Visits), nextLoop),
         NEW p \in DOMAIN Visits
  PROVE  Passed(loop, later \cup {nextLoop}, p)' => p = pos \/ Passed(loop, later \cup {nextLoop}, p)
<1>1. /\ pc = loop /\ pos <= Len(Visits)
      /\ (pos = Len(Visits) /\ pc' = nextLoop /\ pos' = 1)
           \/ (pos # Len(Visits) /\ pc' = loop /\ pos' = pos + 1)
  BY DEF Iterate
<1>2. Len(Visits) \in Nat /\ DOMAIN Visits = 1 .. Len(Visits) /\ pos \in Nat
  BY <1>1, Visited
<1> HIDE DEF Visits
<1>3. p \in Nat /\ p <= Len(Visits)
  BY <1>2
<1>4. CASE pos = Len(Visits)
  <2>1. p = pos \/ p < pos
    BY <1>2, <1>3, <1>4
  <2> QED
    BY <1>1, <2>1 DEF Passed
<1>5. CASE pos # Len(Visits)
  <2>1. p < pos + 1 => p = pos \/ p < pos
    BY <1>2, <1>3
  <2>2. pc' = pc /\ pos' = pos + 1
    BY <1>1, <1>5
  <2> QED
    BY <2>1, <2>2 DEF Passed
<1> QED
  BY <1>4, <1>5

LEMMA NowOK ==
  ASSUME Sound
  PROVE  MOK(Now)
<1>1. Shape(Now)
  BY DEF Shape, Now
<1> QED
  BY <1>1 DEF MOK, Now, Sound

(* The invariant of the areas in the last three loops.                      *)
LEMMA AreasStay ==
  ASSUME Sound, pc \in {"direct", "describe", "give"},
         pc' \in {"direct", "describe", "give", "done"}, pos' \in Nat \ {0},
         map' = map, areas' = areas
  PROVE  AreasInv'
<1>1. \A i \in DOMAIN map : Seen(i)
  BY DEF Seen
<1> QED
  BY <1>1 DEF Sound, AreasInv, Early, Seen

LEMMA SoundDirectMap ==
  ASSUME StartsAligned, Sound, DirectMap
  PROVE  Sound'
<1> DEFINE f == pfn(Visits[pos][2])
           v == <<"direct", f>>
           r == MapPage(Now, v, f * PAGE_SIZE)
<1>1. /\ Iterate("direct", Len(Visits), "describe") /\ Becomes(r)
      /\ map' = map /\ areas' = areas /\ inited' = inited /\ given' = given
  BY DEF DirectMap
<1>2. /\ refused = {} /\ pc = "direct" /\ pos <= Len(Visits)
      /\ (pos = Len(Visits) /\ pc' = "describe" /\ pos' = 1)
           \/ (pos # Len(Visits) /\ pc' = "direct" /\ pos' = pos + 1)
  BY <1>1 DEF Iterate
<1>3. f \in Nat /\ pos \in Nat \ {0}
  BY <1>2, Visited
<1>4. /\ RamOK(r.ram, r.chunks) /\ UseOK(r.chunks, r.refused, r.tables, r.mapped)
      /\ DOMAIN r.mapped = DOMAIN mapped \cup {v}
  <2>1. Now.mapped = mapped /\ MOK(Now) /\ AreasInv
    BY NowOK DEF Now, Sound
  <2> QED
    BY <1>3, <2>1, MapDirectOK
<1>5. inited = {} /\ given = <<>>
  BY <1>2, NoLoop DEF Sound
<1>6. Visits' = Visits
  BY <1>1 DEF Visits
<1> HIDE DEF f, v, r
<1>7. AreasInv'
  <2>1. pos' \in Nat \ {0} /\ pc' \in {"direct", "describe", "give", "done"}
    BY <1>2, <1>3
  <2> QED
    BY <1>1, <1>2, <2>1, AreasStay
<1>8. RamOK(ram, chunks)'
  BY <1>1, <1>4, Kept DEF Becomes
<1>9. UseOK(chunks, refused, tables, mapped)'
  BY <1>1, <1>4 DEF Becomes, UseOK
<1>10. LoopInv'
  <2>1. mapped' = r.mapped
    BY <1>1 DEF Becomes
  <2>2. ASSUME NEW p \in DOMAIN Visits, Passed("direct", {"describe", "give", "done"}, p)'
        PROVE  <<"direct", pfn(Visits[p][2])>> \in DOMAIN mapped'
    <3>1. p = pos \/ Passed("direct", {"describe", "give", "done"}, p)
      <4>1. {"give", "done"} \cup {"describe"} = {"describe", "give", "done"}
        OBVIOUS
      <4>2. Passed("direct", {"give", "done"} \cup {"describe"}, p)'
        BY <2>2, <4>1 DEF Passed
      <4>3. p = pos \/ Passed("direct", {"give", "done"} \cup {"describe"}, p)
        BY <1>1, <4>2, Passes
      <4> QED
        BY <4>1, <4>3 DEF Passed
    <3>2. CASE p = pos
      BY <1>4, <2>1, <3>2 DEF f, v
    <3>3. CASE Passed("direct", {"describe", "give", "done"}, p)
      <4>1. <<"direct", pfn(Visits[p][2])>> \in DOMAIN mapped
        BY <1>2, <3>3 DEF Sound, LoopInv
      <4> QED
        BY <1>4, <2>1, <4>1
    <3> QED
      BY <3>1, <3>2, <3>3
  <2>3. inited' = {} /\ \A p \in DOMAIN Visits : ~Passed("describe", {"give", "done"}, p)'
    <3>1. \A p \in DOMAIN Visits : ~(p < 1)
      <4>1. DOMAIN Visits = 1 .. Len(Visits) /\ Len(Visits) \in Nat
        BY <1>2, Visited
      <4> HIDE DEF Visits
      <4> QED
        BY <4>1
    <3> QED
      BY <1>1, <1>2, <1>5, <3>1 DEF Passed
  <2>4. inited' = {pfn(Visits[p][2]) :
                     p \in {q \in DOMAIN Visits : Passed("describe", {"give", "done"}, q)'}}
    BY <2>3
  <2> HIDE DEF Visits
  <2> QED
    BY <1>6, <2>2, <2>3, <2>4 DEF LoopInv
<1>11. GiveInv'
  BY <1>1, <1>5 DEF GiveInv
<1> QED
  BY <1>7, <1>8, <1>9, <1>10, <1>11 DEF Sound

(* What the linear allocator took is behind the start of the boot memory.   *)
LEMMA Behind ==
  ASSUME Sound, NEW x \in ToSet(chunks)
  PROVE  x \in Nat /\ x >= BootStart /\ x # NULL
<1>1. PICK i \in DOMAIN chunks : x = chunks[i]
  BY DEF ToSet
<1>2. chunks \in Seq(Nat)
  BY DEF Sound, RamOK
<1>3. x \in Nat
  BY <1>1, <1>2, Element
<1>4. DOMAIN chunks # {} /\ chunks # <<>>
  BY <1>1
<1>5. x >= BootStart
  BY <1>1, <1>4 DEF Sound, RamOK
<1> QED
  BY <1>3, <1>5, PageNat DEF NULL

LEMMA SoundDescribe ==
  ASSUME StartsAligned, Sound, Describe
  PROVE  Sound'
<1> DEFINE f == pfn(Visits[pos][2])
           v == <<"array", f \div PER_PAGE>>
           p == Page(Now)
           r == MapPage(p, v, p.chunk)
<1>1. /\ Iterate("describe", Len(Visits), "give")
      /\ IF HasPage(v) THEN UNCHANGED <<ram, tables, mapped, past>> ELSE Becomes(r)
      /\ inited' = inited \cup {f}
      /\ map' = map /\ areas' = areas /\ given' = given
  BY DEF Describe
<1>2. /\ refused = {} /\ pc = "describe" /\ pos <= Len(Visits)
      /\ (pos = Len(Visits) /\ pc' = "give" /\ pos' = 1)
           \/ (pos # Len(Visits) /\ pc' = "describe" /\ pos' = pos + 1)
  BY <1>1 DEF Iterate
<1>3. /\ f \in Nat /\ pos \in Nat \ {0} /\ pos \in DOMAIN Visits
      /\ DOMAIN Visits = 1 .. Len(Visits) /\ Len(Visits) \in Nat
  BY <1>2, Visited
<1>4. given = <<>>
  BY <1>2 DEF Sound, GiveInv
<1>5. Visits' = Visits
  BY <1>1 DEF Visits
<1>6. v[1] = "array"
  OBVIOUS
<1>7. /\ RamOK(ram, chunks)' /\ UseOK(chunks, refused, tables, mapped)'
      /\ v \in DOMAIN mapped' /\ DOMAIN mapped \subseteq DOMAIN mapped'
  <2>1. CASE HasPage(v)
    <3>1. /\ ram' = ram /\ tables' = tables /\ mapped' = mapped
          /\ chunks' = chunks /\ refused' = refused
      BY <1>1, <2>1 DEF past
    <3>2. v \in DOMAIN mapped
      BY <2>1 DEF HasPage
    <3> HIDE DEF v, f, p, r
    <3>3. RamOK(ram, chunks)'
      BY <1>1, <3>1, Kept DEF Sound
    <3>4. UseOK(chunks, refused, tables, mapped)'
      BY <3>1 DEF Sound, UseOK
    <3> QED
      BY <3>1, <3>2, <3>3, <3>4
  <2>2. CASE ~HasPage(v)
    <3>1. v \notin DOMAIN mapped
      <4> HIDE DEF v, f, p, r
      <4> SUFFICES ASSUME v \in DOMAIN mapped PROVE FALSE
        OBVIOUS
      <4>1. mapped[v] \in ToSet(chunks)
        BY <1>2, <1>6 DEF Sound, UseOK
      <4>2. mapped[v] # NULL
        BY <4>1, Behind
      <4> QED
        BY <2>2, <4>2 DEF HasPage
    <3>2. /\ RamOK(r.ram, r.chunks) /\ UseOK(r.chunks, r.refused, r.tables, r.mapped)
          /\ DOMAIN r.mapped = DOMAIN mapped \cup {v}
      <4>1. Now.mapped = mapped /\ MOK(Now) /\ AreasInv
        BY NowOK DEF Now, Sound
      <4> QED
        BY <3>1, <4>1, MapArrayOK
    <3>3. Becomes(r)
      BY <1>1, <2>2
    <3> HIDE DEF v, f, p, r
    <3>4. RamOK(ram, chunks)'
      BY <1>1, <3>2, <3>3, Kept DEF Becomes
    <3>5. UseOK(chunks, refused, tables, mapped)'
      BY <3>2, <3>3 DEF Becomes, UseOK
    <3> QED
      BY <3>2, <3>3, <3>4, <3>5 DEF Becomes
  <2> QED
    BY <2>1, <2>2
<1>8. AreasInv'
  <2>1. pos' \in Nat \ {0} /\ pc' \in {"direct", "describe", "give", "done"}
    BY <1>2, <1>3
  <2> QED
    BY <1>1, <1>2, <2>1, AreasStay
<1>9. LoopInv'
  <2> DEFINE Before(q) == Passed("describe", {"give", "done"}, q)
             D == DOMAIN Visits
             F(q) == pfn(Visits[q][2])
  <2>1. inited = {F(q) : q \in {o \in D : Before(o)}}
    BY DEF Sound, LoopInv
  <2>2. \A q \in D : Before(q)' <=> q = pos \/ Before(q)
    <3>1. ASSUME NEW q \in D
          PROVE  Before(q)' <=> q = pos \/ Before(q)
      <4> HIDE DEF Visits
      <4>1. q \in Nat /\ q <= Len(Visits)
        BY <1>3
      <4>2. CASE pos = Len(Visits)
        <5>1. q = pos \/ q < pos
          BY <1>3, <4>1, <4>2
        <5> QED
          BY <1>2, <4>2, <5>1 DEF Passed
      <4>3. CASE pos # Len(Visits)
        <5>1. q < pos + 1 <=> q = pos \/ q < pos
          BY <1>3, <4>1
        <5>2. pc' = "describe" /\ pos' = pos + 1
          BY <1>2, <4>3
        <5> QED
          BY <1>2, <5>1, <5>2 DEF Passed
      <4> QED
        BY <4>2, <4>3
    <3> QED
      BY <3>1
  <2>3. inited' = {F(q) : q \in {o \in D : Before(o)'}}
    <3>1. f = F(pos) /\ pos \in D
      BY <1>3
    <3> HIDE DEF Before, D, F, f
    <3> QED
      BY <1>1, <2>1, <2>2, <3>1
  <2>4. \A q \in D : refused' = {} /\ Passed("direct", {"describe", "give", "done"}, q)' =>
          <<"direct", F(q)>> \in DOMAIN mapped'
    <3>1. \A q \in D : Passed("direct", {"describe", "give", "done"}, q)
      BY <1>2 DEF Passed
    <3>2. \A q \in D : <<"direct", F(q)>> \in DOMAIN mapped
      BY <1>2, <3>1 DEF Sound, LoopInv
    <3> HIDE DEF D, F
    <3> QED
      BY <1>7, <3>2
  <2>5. \A x \in inited' : <<"array", x \div PER_PAGE>> \in DOMAIN mapped'
    <3>1. \A x \in inited : <<"array", x \div PER_PAGE>> \in DOMAIN mapped
      BY <1>2 DEF Sound, LoopInv
    <3>2. <<"array", f \div PER_PAGE>> \in DOMAIN mapped'
      BY <1>7
    <3> HIDE DEF f, v
    <3> QED
      BY <1>1, <1>7, <3>1, <3>2
  <2> HIDE DEF Visits
  <2> QED
    BY <1>5, <2>3, <2>4, <2>5 DEF LoopInv
<1>10. GiveInv'
  BY <1>1, <1>4 DEF GiveInv
<1> QED
  BY <1>7, <1>8, <1>9, <1>10 DEF Sound

LEMMA SoundGive ==
  ASSUME StartsAligned, Sound, Give
  PROVE  Sound'
<1> DEFINE i == Visits[pos][1]
           start == Visits[pos][2]
<1>1. /\ Iterate("give", Len(Visits), "done")
      /\ given' = IF start >= ram.end /\ map[i].available THEN Append(given, pfn(start)) ELSE given
      /\ map' = map /\ areas' = areas /\ ram' = ram /\ tables' = tables /\ mapped' = mapped
      /\ inited' = inited /\ chunks' = chunks /\ refused' = refused
  BY DEF Give, past
<1>2. /\ refused = {} /\ pc = "give" /\ pos <= Len(Visits)
      /\ (pos = Len(Visits) /\ pc' = "done" /\ pos' = 1)
           \/ (pos # Len(Visits) /\ pc' = "give" /\ pos' = pos + 1)
  BY <1>1 DEF Iterate
<1>3. /\ pfn(start) \in Nat /\ pos \in Nat \ {0} /\ pos \in DOMAIN Visits
      /\ DOMAIN Visits = 1 .. Len(Visits) /\ Len(Visits) \in Nat
  BY <1>2, Visited
<1>4. Visits' = Visits
  BY <1>1 DEF Visits
<1>5. AreasInv'
  <2>1. pos' \in Nat \ {0} /\ pc' \in {"direct", "describe", "give", "done"}
    BY <1>2, <1>3
  <2> QED
    BY <1>1, <1>2, <2>1, AreasStay
<1>6. RamOK(ram, chunks)' /\ UseOK(chunks, refused, tables, mapped)'
  <2>1. RamOK(ram, chunks)'
    BY <1>1, Kept DEF Sound
  <2> QED
    BY <1>1, <2>1 DEF Sound, UseOK
<1>7. LoopInv'
  <2>1. \A q : /\ Passed("describe", {"give", "done"}, q) /\ Passed("describe", {"give", "done"}, q)'
               /\ Passed("direct", {"describe", "give", "done"}, q)
    BY <1>2 DEF Passed
  <2> HIDE DEF Visits
  <2> QED
    BY <1>1, <1>4, <2>1 DEF Sound, LoopInv
<1>8. GiveInv'
  <2> DEFINE Before(q) == Passed("give", {"done"}, q)
  <2>1. \A q \in DOMAIN Visits : q = pos \/ Before(q) => Before(q)'
    <3>1. ASSUME NEW q \in DOMAIN Visits, q = pos \/ Before(q)
          PROVE  Before(q)'
      <4> HIDE DEF Visits
      <4>1. q = pos \/ q < pos
        BY <1>2, <3>1 DEF Passed
      <4>2. CASE pos = Len(Visits)
        BY <1>2, <4>2 DEF Passed
      <4>3. CASE pos # Len(Visits)
        <5>1. q \in Nat
          BY <1>3
        <5>2. q < pos + 1
          BY <1>3, <4>1, <5>1
        <5>3. pc' = "give" /\ pos' = pos + 1
          BY <1>2, <4>3
        <5> QED
          BY <5>2, <5>3 DEF Passed
      <4> QED
        BY <4>2, <4>3
    <3> QED
      BY <3>1
  <2>2. given \in Seq(Nat) /\ given' \in Seq(Nat)
    <3>1. given \in Seq(Nat)
      BY DEF Sound, GiveInv
    <3> HIDE DEF start, i
    <3> QED
      BY <1>1, <1>3, <3>1
  <2>3. ASSUME NEW k \in DOMAIN given'
        PROVE  (k \in DOMAIN given /\ given'[k] = given[k]) \/ From(given'[k], pos)
    <3>1. CASE start >= ram.end /\ map[i].available
      <4>1. given' = Append(given, pfn(start))
        BY <1>1, <3>1
      <4> HIDE DEF start
      <4>2. CASE k = Len(given) + 1
        <5>1. given'[k] = pfn(start)
          BY <2>2, <4>1, <4>2
        <5> QED
          BY <3>1, <5>1 DEF From, start, i
      <4>3. CASE k # Len(given) + 1
        BY <2>2, <4>1, <4>3
      <4> QED
        BY <4>2, <4>3
    <3>2. CASE ~(start >= ram.end /\ map[i].available)
      BY <1>1, <3>2
    <3> QED
      BY <3>1, <3>2
  <2>4. \A k \in DOMAIN given' : \E q \in DOMAIN Visits : Before(q)' /\ From(given'[k], q)
    <3>1. \A k \in DOMAIN given : \E q \in DOMAIN Visits : Before(q) /\ From(given[k], q)
      BY DEF Sound, GiveInv
    <3> HIDE DEF Before, start, i
    <3> QED
      BY <1>3, <2>1, <2>3, <3>1
  <2>5. \A k \in DOMAIN given' : \E q \in DOMAIN Visits : Before(q)' /\ From(given[k], q)'
    <3> HIDE DEF Before
    <3> QED
      BY <1>1, <1>4, <2>4 DEF From
  <2>6. pc' \in {"give", "done"} /\ refused' = {}
    BY <1>1, <1>2
  <2> HIDE DEF start, i, Visits
  <2> QED
    BY <1>4, <2>2, <2>5, <2>6 DEF GiveInv
<1> QED
  BY <1>5, <1>6, <1>7, <1>8 DEF Sound

(* As long as memory maps have areas that begin at pages, every state is    *)
(* sound.                                                                   *)
LEMMA AlwaysSound == ASSUME StartsAligned PROVE Spec => []Sound
<1>1. Init => Sound
  BY SoundInit
<1>2. Sound /\ [Next]_vars => Sound'
  <2> SUFFICES ASSUME Sound, [Next]_vars PROVE Sound'
    OBVIOUS
  <2>1. CASE FindMap
    BY <2>1, SoundFindMap
  <2>2. CASE Analyze
    BY <2>2, SoundAnalyze
  <2>3. CASE DirectMap
    BY <2>3, SoundDirectMap
  <2>4. CASE Describe
    BY <2>4, SoundDescribe
  <2>5. CASE Give
    BY <2>5, SoundGive
  <2>6. CASE UNCHANGED vars
    <3>1. /\ map' = map /\ pc' = pc /\ pos' = pos /\ areas' = areas /\ ram' = ram
          /\ tables' = tables /\ mapped' = mapped /\ inited' = inited /\ given' = given
          /\ chunks' = chunks /\ refused' = refused
      BY <2>6 DEF vars, past
    <3>2. Visits' = Visits
      BY <3>1 DEF Visits
    <3>3. AreasInv'
      BY <3>1 DEF Sound, AreasInv, Early, Seen
    <3>4. RamOK(ram, chunks)' /\ UseOK(chunks, refused, tables, mapped)'
      <4>1. RamOK(ram, chunks)'
        BY <3>1, Kept DEF Sound
      <4> QED
        BY <3>1, <4>1 DEF Sound, UseOK
    <3> HIDE DEF Visits
    <3>5. LoopInv'
      BY <3>1, <3>2 DEF Sound, LoopInv, Passed
    <3>6. GiveInv'
      BY <3>1, <3>2 DEF Sound, GiveInv, Passed, From
    <3> QED
      BY <3>3, <3>4, <3>5, <3>6 DEF Sound
  <2> QED
    BY <2>1, <2>2, <2>3, <2>4, <2>5, <2>6 DEF Next, Done
<1> QED
  BY <1>1, <1>2, PTL DEF Spec

-----------------------------------------------------------------------------
(* What follows.                                                            *)

LEMMA ChunkIs ==
  ASSUME Sound, NEW x \in ToSet(chunks)
  PROVE  /\ x \in Nat /\ x >= BootStart /\ x % PAGE_SIZE = 0 /\ Inside(x, PAGE_SIZE)
         /\ x + PAGE_SIZE <= ram.end
<1>1. PICK i \in DOMAIN chunks : x = chunks[i]
  BY DEF ToSet
<1>2. chunks # <<>>
  BY <1>1
<1> QED
  BY <1>1, <1>2, Behind DEF Sound, RamOK

(* The linear allocator takes whole pages of usable memory behind the       *)
(* kernel, none of them twice, whatever areas it goes through: for any map  *)
(* whose areas begin at pages.                                              *)
THEOREM SpecChunksSound == ASSUME StartsAligned PROVE Spec => []ChunksSound
<1>1. Sound => ChunksSound
  <2> SUFFICES ASSUME Sound PROVE ChunksSound
    OBVIOUS
  <2>1. ASSUME NEW i \in DOMAIN chunks, NEW j \in DOMAIN chunks, chunks[i] = chunks[j]
        PROVE  i = j
    <3>1. chunks \in Seq(Nat)
      BY DEF Sound, RamOK
    <3>2. chunks[i] \in Nat /\ i \in Nat /\ j \in Nat
      BY <3>1, Element
    <3>3. \A a, b \in DOMAIN chunks : a < b => chunks[a] < chunks[b]
      BY DEF Sound, RamOK
    <3>4. ~(i < j) /\ ~(j < i)
      BY <2>1, <3>2, <3>3
    <3> QED
      BY <3>2, <3>4
  <2>2. IsInjective(chunks)
    BY <2>1 DEF IsInjective
  <2> QED
    BY <2>2, ChunkIs DEF ChunksSound
<1> QED
  BY <1>1, AlwaysSound, PTL

(* When the page allocator starts, every frame of the map is in the direct  *)
(* mapping area and has an initialised struct page, and the pages of those  *)
(* are distinct, no page table is in one, and all come from the linear      *)
(* allocator: for any map whose areas begin at pages.                       *)
THEOREM SpecPrepared == ASSUME StartsAligned PROVE Spec => []Prepared
<1>1. Sound => Prepared
  <2> DEFINE array == {v \in DOMAIN mapped : v[1] = "array"}
             D == DOMAIN Visits
             F(q) == pfn(Visits[q][2])
  <2> SUFFICES ASSUME Sound, pc \in {"give", "done"}, refused = {}
               PROVE  /\ Given \subseteq inited
                      /\ inited = {pfn(x[2]) : x \in ToSet(Visits)}
                      /\ \A f \in inited : /\ <<"array", f \div PER_PAGE>> \in array
                                           /\ mapped[<<"direct", f>>] = f * PAGE_SIZE
                      /\ \A v, w \in array : v # w => mapped[v] # mapped[w]
                      /\ {pfn(mapped[v]) : v \in array} \subseteq ChunkFrames
                      /\ {pfn(tables[t]) : t \in DOMAIN tables} \cap {pfn(mapped[v]) : v \in array}
                           = {}
    BY DEF Prepared
  <2>1. inited = {F(q) : q \in D}
    <3>1. \A q \in D : Passed("describe", {"give", "done"}, q)
      BY DEF Passed
    <3>2. inited = {F(q) : q \in {o \in D : Passed("describe", {"give", "done"}, o)}}
      BY DEF Sound, LoopInv
    <3> HIDE DEF D, F
    <3> QED
      BY <3>1, <3>2
  <2>2. Given \subseteq inited
    <3>1. \A i \in DOMAIN given : \E p \in D : given[i] = F(p)
      BY DEF Sound, GiveInv, From
    <3> HIDE DEF D, F
    <3> QED
      BY <2>1, <3>1 DEF Given, ToSet
  <2>3. inited = {pfn(x[2]) : x \in ToSet(Visits)}
    <3> HIDE DEF Visits
    <3> QED
      BY <2>1 DEF ToSet
  <2>4. \A q \in D : <<"direct", F(q)>> \in DOMAIN mapped
    <3>1. \A q \in D : Passed("direct", {"describe", "give", "done"}, q)
      BY DEF Passed
    <3> QED
      BY <3>1 DEF Sound, LoopInv
  <2>5. \A f \in inited : <<"direct", f>> \in DOMAIN mapped
    <3> HIDE DEF D, F
    <3> QED
      BY <2>1, <2>4
  <2>6. ASSUME NEW f \in inited
        PROVE  /\ <<"array", f \div PER_PAGE>> \in array
               /\ mapped[<<"direct", f>>] = f * PAGE_SIZE
    <3>1. <<"array", f \div PER_PAGE>> \in DOMAIN mapped
      BY DEF Sound, LoopInv
    <3>2. \A v \in DOMAIN mapped : v[1] = "direct" => mapped[v] = v[2] * PAGE_SIZE
      BY DEF Sound, UseOK
    <3> QED
      BY <2>5, <3>1, <3>2
  <2>7. \A v \in array : mapped[v] \in ToSet(chunks)
    BY DEF Sound, UseOK
  <2>8. {pfn(mapped[v]) : v \in array} \subseteq ChunkFrames
    <3> HIDE DEF array
    <3> QED
      BY <2>7 DEF ChunkFrames
  <2>9. ASSUME NEW t \in DOMAIN tables, NEW v \in array
        PROVE  pfn(tables[t]) # pfn(mapped[v])
    <3> DEFINE a == tables[t]
               b == mapped[v]
    <3>1. a # b /\ (a = BootStart - 1 \/ a \in ToSet(chunks))
      BY DEF Sound, UseOK
    <3>2. b \in Nat /\ b >= BootStart /\ b % PAGE_SIZE = 0
      BY <2>7, ChunkIs
    <3> HIDE DEF a, b, array
    <3>3. CASE a = BootStart - 1
      <4>1. a \in Nat /\ a < b
        BY <3>2, <3>3, PageNat
      <4>2. pfn(a) < pfn(b) /\ pfn(a) \in Nat /\ pfn(b) \in Nat
        BY <3>2, <4>1, FrameBelow, Frame
      <4> QED
        BY <4>2 DEF a, b
    <3>4. CASE a \in ToSet(chunks)
      <4>1. a \in Nat /\ a % PAGE_SIZE = 0
        BY <3>4, ChunkIs
      <4>2. a < b \/ b < a
        BY <3>1, <3>2, <4>1
      <4>3. pfn(a) < pfn(b) \/ pfn(b) < pfn(a)
        BY <3>2, <4>1, <4>2, FrameBelow
      <4>4. pfn(a) \in Nat /\ pfn(b) \in Nat
        BY <3>2, <4>1, Frame
      <4> QED
        BY <4>3, <4>4 DEF a, b
    <3> QED
      BY <3>1, <3>3, <3>4
  <2>10. \A v, w \in array : v # w => mapped[v] # mapped[w]
    BY DEF Sound, UseOK
  <2> HIDE DEF array, D, F
  <2> QED
    BY <2>2, <2>3, <2>6, <2>8, <2>9, <2>10
<1> QED
  BY <1>1, AlwaysSound, PTL

(* A page that was, or may be, given: it is behind the kernel's page and    *)
(* behind all that the linear allocator took.                               *)
LEMMA Late ==
  ASSUME Sound, pc \in {"give", "done"}, refused = {}, NEW p \in DOMAIN Visits,
         Visits[p][2] >= ram.end
  PROVE  /\ Visits[p][2] \in Nat /\ BootStart + PAGE_SIZE <= Visits[p][2]
         /\ \A x \in ToSet(chunks) : x + PAGE_SIZE <= Visits[p][2]
<1> DEFINE a == Visits[p][2]
           f == pfn(a)
           v == <<"array", f \div PER_PAGE>>
<1>1. a \in Nat
  <2> DEFINE S == (DOMAIN map) \X Nat
             z == Visits[p]
  <2>1. Visits \in Seq(S)
    BY VisitsAre DEF Sound, AreasInv
  <2> HIDE DEF Visits, S
  <2>2. z \in S
    BY <2>1, Element
  <2> HIDE DEF z
  <2>3. z[2] \in Nat
    BY <2>2 DEF S
  <2> QED
    BY <2>3 DEF z
<1>2. ram.end \in Nat /\ PAGE_SIZE \in Nat /\ BootStart \in Nat /\ a >= ram.end
  BY PageNat DEF Sound, RamOK
<1>3. ASSUME NEW x \in ToSet(chunks)
      PROVE  x + PAGE_SIZE <= a /\ x \in Nat /\ x >= BootStart
  <2> HIDE DEF a
  <2> QED
    BY <1>1, <1>2, ChunkIs
<1>4. f \in inited
  <2>1. Passed("describe", {"give", "done"}, p)
    BY DEF Passed
  <2> QED
    BY <2>1 DEF Sound, LoopInv
<1>5. v \in DOMAIN mapped /\ v[1] = "array"
  BY <1>4 DEF Sound, LoopInv
<1> HIDE DEF v, f, a
<1>6. mapped[v] \in ToSet(chunks)
  BY <1>5 DEF Sound, UseOK
<1>7. mapped[v] + PAGE_SIZE <= a /\ mapped[v] >= BootStart /\ mapped[v] \in Nat
  BY <1>3, <1>6
<1>8. BootStart + PAGE_SIZE <= a
  BY <1>1, <1>2, <1>7
<1> QED
  BY <1>1, <1>3, <1>8 DEF a

(* It is a whole page of an area.                                           *)
LEMMA LateWhole ==
  ASSUME Sound, AreasWhole, pc \in {"give", "done"}, refused = {}, NEW p \in DOMAIN Visits,
         Visits[p][2] >= ram.end, map[Visits[p][1]].available
  PROVE  Visits[p][2] % PAGE_SIZE = 0 /\ Inside(Visits[p][2], PAGE_SIZE)
<1> DEFINE i == Visits[p][1]
           a == Visits[p][2]
           e == map[i]
<1>1. /\ Visits \in Seq((DOMAIN map) \X Nat) /\ Visit(Visits[p], i)
      /\ map \in Maps /\ map \in Seq([addr : Nat, len : Nat, available : BOOLEAN])
  BY VisitsAre, MapAssumption DEF Sound, AreasInv
<1>2. i \in DOMAIN map
  <2> DEFINE S == (DOMAIN map) \X Nat
             z == Visits[p]
  <2>1. Visits \in Seq(S)
    BY <1>1
  <2> HIDE DEF Visits, S
  <2>2. z \in S
    BY <2>1, Element
  <2> HIDE DEF z
  <2>3. z[1] \in DOMAIN map
    BY <2>2 DEF S
  <2> QED
    BY <2>3 DEF z
<1>3. PICK k \in Nat : k * PAGE_SIZE < e.len /\ a = e.addr + k * PAGE_SIZE
  BY <1>1 DEF Visit
<1>4. a \in Nat /\ BootStart + PAGE_SIZE <= a /\ e.available
  BY Late
<1>5. e.addr \in Nat /\ e.len \in Nat
  <2>1. map[i] \in [addr : Nat, len : Nat, available : BOOLEAN]
    BY <1>1, <1>2, Element
  <2> QED
    BY <2>1
<1> DEFINE z == k * PAGE_SIZE
<1>6. z \in Nat /\ PAGE_SIZE \in Nat /\ BootStart \in Nat
  BY PageNat
<1>7. z < e.len /\ a = e.addr + z
  BY <1>3
<1> HIDE DEF i, a, e, z
<1>8. e.addr + e.len > BootStart
  BY <1>4, <1>5, <1>6, <1>7
<1>9. e.addr % PAGE_SIZE = 0 /\ e.len % PAGE_SIZE = 0
  BY <1>1, <1>2, <1>4, <1>8 DEF AreasWhole, e
<1>10. a % PAGE_SIZE = 0
  <2>1. (e.addr + k * PAGE_SIZE) % PAGE_SIZE = 0
    BY <1>5, <1>9, AlignedSum
  <2> QED
    BY <1>7, <2>1 DEF z
<1>11. z % PAGE_SIZE = 0
  <2>1. 0 % PAGE_SIZE = 0
    BY PageNat
  <2>2. (0 + k * PAGE_SIZE) % PAGE_SIZE = 0
    BY <2>1, AlignedSum
  <2>3. 0 + k * PAGE_SIZE = z
    BY <1>6 DEF z
  <2> QED
    BY <2>2, <2>3
<1>12. z + PAGE_SIZE <= e.len
  BY <1>5, <1>6, <1>7, <1>9, <1>11, AlignedApart
<1>13. e.addr <= a /\ a + PAGE_SIZE <= e.addr + e.len
  BY <1>5, <1>6, <1>7, <1>12
<1>14. PICK n \in DOMAIN areas : areas[n] = Area(e)
  <2>1. Seen(i)
    BY DEF Seen
  <2> QED
    BY <1>2, <1>4, <2>1 DEF Sound, AreasInv, e
<1>15. Inside(a, PAGE_SIZE)
  <2>1. areas[n].start = e.addr /\ areas[n].end = e.addr + e.len
    BY <1>14 DEF Area
  <2> QED
    BY <1>13, <2>1 DEF Inside
<1> QED
  BY <1>10, <1>15 DEF a

(* Pages of the map come in order.                                          *)
LEMMA Ascend ==
  ASSUME Sound, Sorted, NEW p \in DOMAIN Visits, NEW q \in DOMAIN Visits, p < q
  PROVE  Visits[p][2] < Visits[q][2]
<1> DEFINE i == Visits[p][1]
           j == Visits[q][1]
           a == Visits[p][2]
           b == Visits[q][2]
<1>1. /\ Visits \in Seq((DOMAIN map) \X Nat)
      /\ Visit(Visits[p], i) /\ Visit(Visits[q], j) /\ Comes(Visits[p], Visits[q])
      /\ map \in Maps /\ map \in Seq([addr : Nat, len : Nat, available : BOOLEAN])
  BY VisitsAre, MapAssumption DEF Sound, AreasInv
<1>2. i \in DOMAIN map /\ j \in DOMAIN map
  <2> DEFINE S == (DOMAIN map) \X Nat
             y == Visits[p]
             z == Visits[q]
  <2>1. Visits \in Seq(S)
    BY <1>1
  <2> HIDE DEF Visits, S
  <2>2. y \in S /\ z \in S
    BY <2>1, Element
  <2> HIDE DEF y, z
  <2>3. y[1] \in DOMAIN map /\ z[1] \in DOMAIN map
    BY <2>2 DEF S
  <2> QED
    BY <2>3 DEF y, z
<1>3. /\ map[i].addr \in Nat /\ map[i].len \in Nat
      /\ map[j].addr \in Nat /\ map[j].len \in Nat
  <2>1. /\ map[i] \in [addr : Nat, len : Nat, available : BOOLEAN]
        /\ map[j] \in [addr : Nat, len : Nat, available : BOOLEAN]
    BY <1>1, <1>2, Element
  <2> QED
    BY <2>1
<1>4. PICK k \in Nat : k * PAGE_SIZE < map[i].len /\ a = map[i].addr + k * PAGE_SIZE
  BY <1>1 DEF Visit
<1>5. PICK l \in Nat : l * PAGE_SIZE < map[j].len /\ b = map[j].addr + l * PAGE_SIZE
  BY <1>1 DEF Visit
<1>6. i < j \/ a < b
  BY <1>1 DEF Comes
<1>7. i < j => map[i].addr + map[i].len <= map[j].addr
  BY <1>1, <1>2 DEF Sorted
<1> DEFINE x == k * PAGE_SIZE
           y == l * PAGE_SIZE
<1>8. x \in Nat /\ y \in Nat /\ x < map[i].len /\ a = map[i].addr + x /\ b = map[j].addr + y
  BY <1>4, <1>5, PageNat
<1> HIDE DEF i, j, a, b, x, y
<1>9. a < b
  BY <1>3, <1>6, <1>7, <1>8
<1> QED
  BY <1>9 DEF a, b

LEMMA OrderedStep ==
  ASSUME StartsAligned, AreasWhole, Sorted, Sound, Ordered, Next
  PROVE  Ordered'
<1>1. CASE Give
  <2> DEFINE start == Visits[pos][2]
             i == Visits[pos][1]
             f == pfn(start)
  <2>1. /\ given' = IF start >= ram.end /\ map[i].available THEN Append(given, f) ELSE given
        /\ refused = {} /\ pc = "give" /\ pos <= Len(Visits)
    BY <1>1 DEF Give, Iterate
  <2>2. f \in Nat /\ start \in Nat /\ pos \in DOMAIN Visits
    BY <2>1, Visited
  <2>3. CASE start >= ram.end /\ map[i].available
    <3>1. start % PAGE_SIZE = 0
      BY <2>1, <2>2, <2>3, LateWhole
    <3>2. ASSUME NEW k \in DOMAIN given
          PROVE  given[k] < f
      <4>1. PICK p \in DOMAIN Visits : Passed("give", {"done"}, p) /\ From(given[k], p)
        BY DEF Sound, GiveInv
      <4>2. p < pos
        BY <2>1, <4>1 DEF Passed
      <4>3. Visits[p][2] < start
        BY <2>2, <4>2, Ascend
      <4>4. Visits[p][2] \in Nat
        BY <2>1, <4>1, Late DEF From
      <4>5. pfn(Visits[p][2]) < f
        BY <2>2, <3>1, <4>3, <4>4, FrameBelow
      <4> QED
        BY <4>1, <4>5 DEF From
    <3>3. given' = Append(given, f) /\ given \in Seq(Nat)
      BY <2>1, <2>3 DEF Sound, GiveInv
    <3> HIDE DEF f, start, i
    <3>4. /\ Len(given) \in Nat /\ DOMAIN given = 1 .. Len(given)
          /\ DOMAIN given' = 1 .. Len(given) + 1
          /\ given'[Len(given) + 1] = f
          /\ \A k \in DOMAIN given : given'[k] = given[k]
      BY <2>2, <3>3
    <3>5. ASSUME NEW k \in DOMAIN given', NEW l \in DOMAIN given', k < l
          PROVE  given'[k] < given'[l]
      <4>1. k \in DOMAIN given
        BY <3>4, <3>5
      <4>2. l \in DOMAIN given \/ l = Len(given) + 1
        BY <3>4
      <4> QED
        BY <3>2, <3>4, <3>5, <4>1, <4>2 DEF Ordered
    <3> QED
      BY <3>5 DEF Ordered
  <2>4. CASE ~(start >= ram.end /\ map[i].available)
    BY <2>1, <2>4 DEF Ordered
  <2> QED
    BY <2>3, <2>4
<1>2. CASE ~Give
  BY <1>2 DEF Next, FindMap, Analyze, DirectMap, Describe, Done, vars, Ordered
<1> QED
  BY <1>1, <1>2

(* A frame that the page allocator is given was not taken for a table or    *)
(* for struct pages, is not the kernel's, is usable as a whole, and is      *)
(* given once, in increasing order: for any sorted map whose areas are      *)
(* whole pages.                                                             *)
THEOREM SpecGivenUnused ==
  ASSUME StartsAligned, AreasWhole, Sorted PROVE Spec => []GivenUnused
<1>1. Init => Ordered
  BY DEF Init, Ordered
<1>2. Sound /\ Ordered /\ [Next]_vars => Ordered'
  <2>1. UNCHANGED vars /\ Ordered => Ordered'
    BY DEF vars, Ordered
  <2> QED
    BY <2>1, OrderedStep
<1>3. Sound /\ Ordered => GivenUnused
  <2> SUFFICES ASSUME Sound, Ordered PROVE GivenUnused
    OBVIOUS
  <2>1. ASSUME NEW f \in Given
        PROVE  /\ f > pfn(BootStart) /\ f \in WholeFrames
               /\ \A x \in ToSet(chunks) : pfn(x) # f
    <3>1. PICK i \in DOMAIN given : f = given[i]
      BY DEF Given, ToSet
    <3>2. pc \in {"give", "done"} /\ refused = {}
      BY <3>1 DEF Sound, GiveInv
    <3>3. PICK p \in DOMAIN Visits : From(f, p)
      BY <3>1 DEF Sound, GiveInv
    <3> DEFINE a == Visits[p][2]
    <3>4. /\ f = pfn(a) /\ a \in Nat /\ BootStart + PAGE_SIZE <= a
          /\ \A x \in ToSet(chunks) : x + PAGE_SIZE <= a
      BY <3>2, <3>3, Late DEF From
    <3>5. a % PAGE_SIZE = 0 /\ Inside(a, PAGE_SIZE)
      BY <3>2, <3>3, LateWhole DEF From
    <3>6. f \in {pfn(x[2]) : x \in ToSet(Visits)}
      <4> HIDE DEF Visits
      <4> QED
        BY <3>4 DEF ToSet
    <3> HIDE DEF a
    <3>7. pfn(BootStart) < f /\ f \in Nat /\ pfn(BootStart) \in Nat
      BY <3>4, PageNat, FrameLess, Frame DEF StartsAligned
    <3>8. f * PAGE_SIZE = a
      BY <3>4, <3>5, Frame
    <3>9. f \in WholeFrames
      BY <3>5, <3>6, <3>8 DEF WholeFrames
    <3>10. ASSUME NEW x \in ToSet(chunks)
           PROVE  pfn(x) # f
      <4>1. x \in Nat /\ x % PAGE_SIZE = 0
        BY ChunkIs
      <4>2. pfn(x) < f /\ pfn(x) \in Nat
        BY <3>4, <4>1, FrameLess, Frame
      <4> QED
        BY <3>7, <4>2
    <3> QED
      BY <3>7, <3>9, <3>10
  <2>2. Given \cap ChunkFrames = {}
    BY <2>1 DEF ChunkFrames
  <2> QED
    BY <2>1, <2>2 DEF GivenUnused, Ordered
<1> QED
  BY <1>1, <1>2, <1>3, AlwaysSound, PTL DEF Spec

(* An area that reaches behind the start of the boot memory.                *)
LEMMA AreaWhole ==
  ASSUME AreasWhole, KernelInside, AreasInv, NEW k \in DOMAIN areas
  PROVE  /\ areas[k].start \in Nat /\ areas[k].end \in Nat
         /\ areas[k].end > BootStart => areas[k].end % PAGE_SIZE = 0
         /\ areas[k].start >= BootStart => areas[k].start + PAGE_SIZE <= areas[k].end
<1>1. PICK i \in DOMAIN map : map[i].available /\ areas[k] = Area(map[i])
  BY DEF AreasInv
<1> DEFINE e == map[i]
<1>2. map \in Maps /\ map \in Seq([addr : Nat, len : Nat, available : BOOLEAN])
  BY MapAssumption DEF AreasInv
<1>3. e.addr \in Nat /\ e.len \in Nat
  <2>1. map[i] \in [addr : Nat, len : Nat, available : BOOLEAN]
    BY <1>2, Element
  <2> QED
    BY <2>1
<1>4. areas[k].start = e.addr /\ areas[k].end = e.addr + e.len
  BY <1>1 DEF Area
<1>5. e.len # 0 /\ e.available
  BY <1>1, <1>2 DEF KernelInside
<1>6. e.addr + e.len > BootStart => e.addr % PAGE_SIZE = 0 /\ e.len % PAGE_SIZE = 0
  BY <1>2, <1>5 DEF AreasWhole
<1> HIDE DEF e
<1>7. PAGE_SIZE \in Nat \ {0} /\ BootStart \in Nat
  BY PageNat
<1>8. e.len % PAGE_SIZE = 0 => PAGE_SIZE <= e.len
  <2>1. 0 % PAGE_SIZE = 0 /\ 0 < e.len
    BY <1>3, <1>5, <1>7
  <2>2. e.len % PAGE_SIZE = 0 => 0 + PAGE_SIZE <= e.len
    BY <1>3, <2>1, AlignedApart
  <2> QED
    BY <1>7, <2>2
<1>9. e.addr % PAGE_SIZE = 0 /\ e.len % PAGE_SIZE = 0 => (e.addr + e.len) % PAGE_SIZE = 0
  <2> SUFFICES ASSUME e.addr % PAGE_SIZE = 0, e.len % PAGE_SIZE = 0
               PROVE  (e.addr + e.len) % PAGE_SIZE = 0
    OBVIOUS
  <2>1. e.len = pfn(e.len) * PAGE_SIZE /\ pfn(e.len) \in Nat
    BY <1>3, Frame
  <2>2. (e.addr + pfn(e.len) * PAGE_SIZE) % PAGE_SIZE = 0
    BY <1>3, <2>1, AlignedSum
  <2> QED
    BY <2>1, <2>2
<1>10. areas[k].end > BootStart => areas[k].end % PAGE_SIZE = 0
  BY <1>4, <1>6, <1>9
<1>11. areas[k].start >= BootStart => areas[k].start + PAGE_SIZE <= areas[k].end
  BY <1>3, <1>4, <1>5, <1>6, <1>7, <1>8
<1>12. areas[k].start \in Nat /\ areas[k].end \in Nat
  BY <1>3, <1>4
<1> QED
  BY <1>10, <1>11, <1>12

(* A request leaves a page, or the allocator is at its end; and it is when  *)
(* it refuses.                                                              *)
LEMMA AllocEnds ==
  ASSUME AreasWhole, KernelInside, AreasInv, NEW r, NEW cs, RamOK(r, cs), Live(r)
  PROVE  LET q == Alloc(r, PAGE_SIZE)
         IN  Live(q.ram) /\ (q.chunk = NULL => AtEnd(r))
<1> DEFINE q == Alloc(r, PAGE_SIZE)
           t == Take(r, PAGE_SIZE)
           s == r.start + PAGE_SIZE
<1> SUFFICES Live(q.ram) /\ (q.chunk = NULL => AtEnd(r))
  OBVIOUS
<1>1. /\ r \in [start : Int, end : Nat, idx : Nat]
      /\ areas \in Seq([start : Nat, end : Nat]) /\ Len(areas) \in Nat
      /\ PAGE_SIZE \in Nat \ {0, 1} /\ BootStart \in Nat \ {0} /\ s \in Int
  BY PageNat DEF RamOK, AreasInv
<1>2. CASE s > r.end
  <2>1. q.ram = r /\ AtEnd(r)
    <3>1. q = [ram |-> r, chunk |-> NULL, took |-> <<>>]
      BY <1>1, <1>2, AllocIs
    <3> HIDE DEF q
    <3>2. ~(s <= r.end)
      BY <1>1, <1>2
    <3> QED
      BY <3>1, <3>2 DEF Live
  <2> QED
    BY <2>1
<1>3. CASE ~(s > r.end)
  <2>1. s <= r.end /\ r.end \in Nat
    BY <1>1, <1>3
  <2>2. /\ q.ram = t
        /\ q.chunk = r.start \/ (s >= r.end /\ t.idx = Len(areas))
    BY <1>1, <1>3, <2>1, AllocIs
  <2>3. r.start # -1
    <3> SUFFICES ASSUME r.start = -1 PROVE FALSE
      OBVIOUS
    <3>1. r.end = 0 \/ r.start >= BootStart
      BY DEF RamOK
    <3> QED
      BY <1>1, <2>1, <3>1
  <2>4. /\ r.start >= BootStart /\ r.start \in Nat /\ r.start % PAGE_SIZE = 0
        /\ r.end >= BootStart
    <3>1. r.start >= BootStart /\ r.start % PAGE_SIZE = 0 /\ r.end >= BootStart
      BY <2>3 DEF RamOK
    <3> QED
      BY <1>1, <3>1
  <2>5. PICK h \in DOMAIN areas : r.end = areas[h].end
    BY <2>3 DEF RamOK
  <2>6. r.end > BootStart => r.end % PAGE_SIZE = 0
    BY <2>5, AreaWhole
  <2>7. r.start # NULL
    BY <1>1, <2>4 DEF NULL
  <2>8. \/ s < r.end /\ t = [start |-> s, end |-> r.end, idx |-> r.idx]
        \/ /\ s >= r.end /\ Ahead(r) = {}
           /\ t = [start |-> s, end |-> r.end, idx |-> Len(areas)]
        \/ /\ s >= r.end
           /\ \E k \in Ahead(r) : /\ k \in DOMAIN areas /\ areas[k].start >= r.end
                                  /\ t = [start |-> areas[k].start, end |-> areas[k].end,
                                          idx |-> k - 1]
    BY <1>1, TakeIs
  <2> HIDE DEF t, q
  <2>9. CASE s < r.end /\ t = [start |-> s, end |-> r.end, idx |-> r.idx]
    <3>1. t.start = s /\ t.end = r.end /\ ~(s >= r.end)
      BY <1>1, <2>1, <2>9
    <3>2. s % PAGE_SIZE = 0 /\ s \in Nat
      <4>1. s = r.start + 1 * PAGE_SIZE
        BY <1>1, <2>4
      <4>2. (r.start + 1 * PAGE_SIZE) % PAGE_SIZE = 0 /\ r.start + 1 * PAGE_SIZE \in Nat
        BY <2>4, AlignedSum
      <4> QED
        BY ONLY <4>1, <4>2
    <3>3. r.end % PAGE_SIZE = 0
      BY <1>1, <2>1, <2>4, <2>6, <2>9
    <3>4. s + PAGE_SIZE <= r.end
      <4> HIDE DEF s
      <4> QED
        BY <2>1, <2>9, <3>2, <3>3, AlignedApart
    <3>5. Live(t)
      BY <3>1, <3>4 DEF Live
    <3> QED
      BY <2>2, <2>7, <3>1, <3>5
  <2>10. CASE s >= r.end /\ Ahead(r) = {} /\ t = [start |-> s, end |-> r.end, idx |-> Len(areas)]
    <3>1. t.start = s /\ t.end = r.end /\ t.idx = Len(areas)
      BY <2>10
    <3>2. Ahead(t) = {}
      BY <1>1, <3>1 DEF Ahead
    <3>3. s + PAGE_SIZE >= r.end
      BY <1>1, <2>1, <2>10
    <3>4. AtEnd(t) /\ AtEnd(r)
      BY <2>10, <3>1, <3>2, <3>3 DEF AtEnd
    <3> QED
      BY <2>2, <3>4 DEF Live
  <2>11. CASE /\ s >= r.end
              /\ \E k \in Ahead(r) : /\ k \in DOMAIN areas /\ areas[k].start >= r.end
                                     /\ t = [start |-> areas[k].start, end |-> areas[k].end,
                                             idx |-> k - 1]
    <3>1. PICK k \in DOMAIN areas : /\ areas[k].start >= r.end
                                    /\ t = [start |-> areas[k].start, end |-> areas[k].end,
                                            idx |-> k - 1]
      BY <2>11
    <3>2. areas[k].start \in Nat /\ areas[k].end \in Nat
      BY AreaWhole
    <3>3. areas[k].start >= BootStart
      <4>1. BootStart \in Nat /\ r.end >= BootStart /\ areas[k].start >= r.end
        BY <2>4, <3>1, PageNat
      <4>2. \A x, y, z \in Nat : x >= y /\ y >= z => x >= z
        OBVIOUS
      <4> QED
        BY ONLY <2>1, <3>2, <4>1, <4>2
    <3>4. t.start + PAGE_SIZE <= t.end
      BY <3>1, <3>3, AreaWhole
    <3>5. t.idx # Len(areas)
      <4>1. t.idx = k - 1 /\ k \in 1 .. Len(areas)
        BY <1>1, <3>1
      <4> QED
        BY <1>1, <4>1
    <3> QED
      BY <2>2, <2>7, <3>4, <3>5 DEF Live
  <2> QED
    BY <2>8, <2>9, <2>10, <2>11
<1> QED
  BY <1>2, <1>3

(* What a call of mm_init_pgtable_map keeps of EndInv.                      *)
Ends(m) == Live(m.ram) /\ \A r \in m.refused : AtEnd(r)

LEMMA PageEnds ==
  ASSUME StartsAligned, AreasWhole, KernelInside, AreasInv, NEW m, MOK(m), Ends(m)
  PROVE  MOK(Page(m)) /\ Ends(Page(m))
<1> DEFINE a == Alloc(m.ram, PAGE_SIZE)
           p == Page(m)
<1>1. /\ Shape(p) /\ RamOK(p.ram, p.chunks)
      /\ p.tables = m.tables /\ p.mapped = m.mapped
      /\ m.refused \subseteq p.refused
      /\ ToSet(m.chunks) \subseteq ToSet(p.chunks)
  BY PageOK DEF MOK
<1>2. Live(a.ram) /\ (a.chunk = NULL => AtEnd(m.ram))
  BY AllocEnds DEF MOK, Ends
<1>3. /\ p.ram = a.ram
      /\ p.refused = IF a.chunk = NULL THEN m.refused \cup {m.ram} ELSE m.refused
  <2> HIDE DEF a
  <2>1. p = [m EXCEPT !.ram = a.ram, !.chunk = a.chunk, !.chunks = m.chunks \o a.took,
                !.refused = IF a.chunk = NULL THEN m.refused \cup {m.ram} ELSE m.refused]
    BY DEF Page, a, MOK, Shape
  <2> HIDE DEF p
  <2> QED
    BY <2>1 DEF MOK, Shape
<1> HIDE DEF a, p
<1>4. MOK(p)
  BY <1>1 DEF MOK, UseOK
<1>5. Ends(p)
  BY <1>2, <1>3 DEF Ends
<1> QED
  BY <1>4, <1>5 DEF p

LEMMA LevelEnds ==
  ASSUME StartsAligned, AreasWhole, KernelInside, AreasInv, NEW m, MOK(m), Ends(m), NEW v, NEW n
  PROVE  MOK(Level(m, v, n)) /\ Ends(Level(m, v, n))
<1> DEFINE t == TableOf(v, n)
           p == Page(m)
           m1 == IF t \in DOMAIN m.tables THEN m
                 ELSE [p EXCEPT !.tables = Update(@, t, p.chunk)]
           l == Level(m, v, n)
<1>1. MOK(l)
  BY LevelOK
<1>2. MOK(p) /\ Ends(p)
  BY PageEnds
<1>3. l = [m1 EXCEPT !.strayed = @ \/ ~Visible(pfn(m1.tables[t]))]
  BY DEF Level
<1> HIDE DEF l, t, p
<1>4. CASE t \in DOMAIN m.tables
  <2>1. m1 = m
    BY <1>4
  <2> HIDE DEF m1
  <2>2. l.ram = m.ram /\ l.refused = m.refused
    BY <1>3, <2>1 DEF MOK, Shape
  <2> QED
    BY <1>1, <2>2 DEF Ends, l
<1>5. CASE t \notin DOMAIN m.tables
  <2>1. m1 = [p EXCEPT !.tables = Update(@, t, p.chunk)]
    BY <1>5
  <2> HIDE DEF m1
  <2>2. Shape(m1) /\ m1.ram = p.ram /\ m1.refused = p.refused
    BY <1>2, <2>1 DEF MOK, Shape
  <2>3. l.ram = m1.ram /\ l.refused = m1.refused
    BY <1>3, <2>2 DEF Shape
  <2> QED
    BY <1>1, <1>2, <2>2, <2>3 DEF Ends, l
<1> QED
  BY <1>4, <1>5

LEMMA MapEnds ==
  ASSUME StartsAligned, AreasWhole, KernelInside, AreasInv, NEW m, MOK(m), Ends(m), NEW v, NEW f
  PROVE  Ends(MapPage(m, v, f))
<1> DEFINE l1 == Level(m, v, 1)
           l2 == Level(l1, v, 2)
           l3 == Level(l2, v, 3)
           r == MapPage(m, v, f)
<1>1. MOK(l1) /\ Ends(l1)
  BY LevelEnds
<1>2. MOK(l2) /\ Ends(l2)
  <2> HIDE DEF l1
  <2> QED
    BY <1>1, LevelEnds
<1>3. MOK(l3) /\ Ends(l3)
  <2> HIDE DEF l2
  <2> QED
    BY <1>2, LevelEnds
<1>4. r.ram = l3.ram /\ r.refused = l3.refused
  BY <1>3, MapIs DEF MOK
<1> HIDE DEF l3, r
<1>5. Ends(r)
  BY <1>3, <1>4 DEF Ends
<1> QED
  BY <1>5 DEF r

LEMMA EndStep ==
  ASSUME StartsAligned, AreasWhole, KernelInside, Sound, EndInv, Next
  PROVE  EndInv'
<1>1. \A r : areas' = areas => (AtEnd(r)' <=> AtEnd(r))
  BY DEF AtEnd, Ahead
<1>2. CASE FindMap
  <2>1. /\ areas' = areas /\ map' = map /\ ram' = ram /\ refused' = refused
        /\ pc = "tags" /\ pc' \in Early /\ (pc' # "tags" => pos' = 1)
    BY <1>2 DEF FindMap, Early
  <2>2. refused = {}
    BY <2>1 DEF Sound, AreasInv, Early
  <2>3. \A i \in DOMAIN map : ~(i < 1)
    <3>1. map \in Seq([addr : Nat, len : Nat, available : BOOLEAN])
      BY MapAssumption DEF Sound, AreasInv
    <3> QED
      BY <3>1
  <2> QED
    BY <2>1, <2>2, <2>3 DEF EndInv, KernelFound
<1>3. CASE Analyze
  <2> DEFINE e == map[pos]
             a == Area(e)
  <2>1. /\ pc = "analyze" /\ refused = {} /\ pos <= Len(map)
        /\ (pos = Len(map) /\ pc' = "direct" /\ pos' = 1)
             \/ (pos # Len(map) /\ pc' = "analyze" /\ pos' = pos + 1)
        /\ areas' = IF e.available THEN Append(areas, a) ELSE areas
        /\ ram' = IF e.available /\ a.start <= BootStart /\ BootStart < a.end
                  THEN [ram EXCEPT !.start = BootStart, !.end = a.end] ELSE ram
        /\ map' = map /\ refused' = refused
    BY <1>3 DEF Analyze, Iterate, Area, past
  <2>2. /\ map \in Maps /\ map \in Seq([addr : Nat, len : Nat, available : BOOLEAN])
        /\ pos \in Nat \ {0} /\ Len(map) \in Nat /\ DOMAIN map = 1 .. Len(map)
        /\ areas \in Seq([start : Nat, end : Nat]) /\ Len(areas) \in Nat
    <3>1. /\ map \in Maps /\ pos \in Nat \ {0} /\ areas \in Seq([start : Nat, end : Nat])
      BY <2>1 DEF Sound, AreasInv
    <3>2. map \in Seq([addr : Nat, len : Nat, available : BOOLEAN])
      BY <3>1, MapAssumption
    <3> QED
      BY <3>1, <3>2
  <2>3. pos \in DOMAIN map
    BY <2>1, <2>2
  <2>4. /\ \A k \in DOMAIN areas : k \in DOMAIN areas' /\ areas'[k] = areas[k]
        /\ e.available => Len(areas) + 1 \in DOMAIN areas' /\ areas'[Len(areas) + 1] = a
    <3> HIDE DEF a, e
    <3> QED
      BY <2>1, <2>2
  <2>5. Kernel(e) <=> e.available /\ a.start <= BootStart /\ BootStart < a.end
    BY DEF Kernel, Area
  <2>6. ram \in [start : Int, end : Nat, idx : Nat]
    BY DEF Sound, RamOK
  <2> DEFINE Begun == /\ ram'.start = BootStart
                      /\ \E k \in DOMAIN areas' : BootStart < areas'[k].end /\ ram'.end = areas'[k].end
  <2>7. Begun \/ \A i \in DOMAIN map : i <= pos => ~Kernel(map[i])
    <3>1. CASE Kernel(e)
      <4> HIDE DEF a, e
      <4>1. ram'.start = BootStart /\ ram'.end = a.end
        BY <2>1, <2>5, <2>6, <3>1
      <4> QED
        BY <2>4, <2>5, <3>1, <4>1
    <3>2. CASE ~Kernel(e)
      <4>1. ram' = ram
        BY <2>1, <2>5, <3>2
      <4>2. KernelFound
        BY <2>1 DEF EndInv
      <4>3. CASE /\ ram.start = BootStart
                 /\ \E k \in DOMAIN areas : BootStart < areas[k].end /\ ram.end = areas[k].end
        BY <2>4, <4>1, <4>3
      <4>4. CASE \A i \in DOMAIN map : i < pos => ~Kernel(map[i])
        <5>1. \A i \in DOMAIN map : i <= pos => i < pos \/ i = pos
          BY <2>2
        <5> QED
          BY <3>2, <4>4, <5>1
      <4> QED
        BY <4>2, <4>3, <4>4 DEF KernelFound
    <3> QED
      BY <3>1, <3>2
  <2>8. CASE pos # Len(map)
    <3>1. pc' = "analyze" /\ pos' = pos + 1 /\ \A i \in DOMAIN map : i < pos + 1 => i <= pos
      BY <2>1, <2>2, <2>8
    <3>2. KernelFound'
      BY <2>1, <2>7, <3>1 DEF KernelFound
    <3> QED
      BY <2>1, <3>1, <3>2 DEF EndInv, Early
  <2>9. CASE pos = Len(map)
    <3>1. pc' = "direct"
      BY <2>1, <2>9
    <3>2. PICK i \in DOMAIN map : Kernel(map[i])
      BY <2>2 DEF KernelInside
    <3>3. Begun
      BY <2>2, <2>7, <2>9, <3>2
    <3>4. PICK k \in DOMAIN areas' : BootStart < areas'[k].end /\ ram'.end = areas'[k].end
      BY <3>3
    <3>5. AreasInv'
      BY <1>3, SoundAnalyze DEF Sound
    <3>6. areas'[k].end \in Nat /\ areas'[k].end % PAGE_SIZE = 0
      <4>1. PICK j \in DOMAIN map : map[j].available /\ areas'[k] = Area(map[j])
        BY <2>1, <3>5 DEF AreasInv
      <4>2. map[j].addr \in Nat /\ map[j].len \in Nat
        <5>1. map[j] \in [addr : Nat, len : Nat, available : BOOLEAN]
          BY <2>2, Element
        <5> QED
          BY <5>1
      <4> DEFINE x == map[j].addr
                 y == map[j].len
      <4>3. areas'[k].end = x + y
        BY <4>1 DEF Area
      <4>4. x % PAGE_SIZE = 0 /\ y % PAGE_SIZE = 0
        BY <2>2, <3>4, <4>1, <4>3 DEF AreasWhole
      <4>5. x \in Nat /\ y \in Nat
        BY <4>2
      <4> HIDE DEF x, y
      <4>6. y = pfn(y) * PAGE_SIZE /\ pfn(y) \in Nat
        BY <4>4, <4>5, Frame
      <4>7. (x + pfn(y) * PAGE_SIZE) % PAGE_SIZE = 0
        BY <4>4, <4>5, <4>6, AlignedSum
      <4> QED
        BY <4>3, <4>5, <4>6, <4>7
    <3>7. BootStart + PAGE_SIZE <= areas'[k].end
      BY <3>4, <3>6, PageNat, AlignedApart DEF StartsAligned
    <3>8. Live(ram)'
      BY <3>3, <3>4, <3>7 DEF Live
    <3> QED
      BY <2>1, <3>1, <3>8 DEF EndInv
  <2> QED
    BY <2>8, <2>9
<1>4. ASSUME NEW m, Ends(m), Becomes(m), areas' = areas, pc' \notin Early
      PROVE  EndInv'
  <2>1. Live(ram)'
    BY <1>4 DEF Ends, Becomes, Live, AtEnd, Ahead
  <2>2. (\A r \in refused : AtEnd(r))'
    BY <1>1, <1>4 DEF Ends, Becomes
  <2> QED
    BY <1>4, <2>1, <2>2 DEF EndInv, Early
<1>5. pc \notin Early => Ends(Now) /\ MOK(Now) /\ AreasInv
  BY NowOK DEF Ends, Now, EndInv, Sound
<1>6. ASSUME areas' = areas, ram' = ram, refused' = refused, pc \notin Early, pc' \notin Early
      PROVE  EndInv'
  BY <1>1, <1>6 DEF EndInv, Live, AtEnd, Ahead, Early
<1>7. CASE DirectMap
  <2> DEFINE f == pfn(Visits[pos][2])
             v == <<"direct", f>>
             r == MapPage(Now, v, f * PAGE_SIZE)
  <2>1. Becomes(r) /\ areas' = areas /\ pc \notin Early /\ pc' \notin Early
    BY <1>7 DEF DirectMap, Iterate, Early
  <2> HIDE DEF v
  <2>2. Ends(r)
    BY <1>5, <2>1, MapEnds
  <2> HIDE DEF r
  <2> QED
    BY <1>4, <2>1, <2>2
<1>8. CASE Describe
  <2> DEFINE f == pfn(Visits[pos][2])
             v == <<"array", f \div PER_PAGE>>
             p == Page(Now)
             r == MapPage(p, v, p.chunk)
  <2>1. /\ areas' = areas /\ pc \notin Early /\ pc' \notin Early
        /\ IF HasPage(v) THEN UNCHANGED <<ram, tables, mapped, past>> ELSE Becomes(r)
    BY <1>8 DEF Describe, Iterate, Early
  <2> HIDE DEF v, f
  <2>2. MOK(p) /\ Ends(p)
    BY <1>5, <2>1, PageEnds
  <2> HIDE DEF p
  <2>3. Ends(r)
    BY <1>5, <2>1, <2>2, MapEnds
  <2> HIDE DEF r
  <2> QED
    BY <1>4, <1>6, <2>1, <2>3 DEF past
<1>9. CASE Give
  BY <1>6, <1>9 DEF Give, Iterate, Early, past
<1>10. CASE Done
  BY <1>1, <1>10 DEF Done, vars, past, EndInv, KernelFound, Live, AtEnd, Ahead, Early
<1> QED
  BY <1>2, <1>3, <1>7, <1>8, <1>9, <1>10 DEF Next

(* The linear allocator gives NULL only when no area behind the current one *)
(* is left and that has at most one page: for any map whose areas are whole *)
(* pages and not empty, and that has the kernel in one.                     *)
THEOREM SpecNullAtTheEnd ==
  ASSUME StartsAligned, AreasWhole, KernelInside PROVE Spec => []NullAtTheEnd
<1>1. Init => EndInv
  BY DEF Init, EndInv, Early
<1>2. Sound /\ EndInv /\ [Next]_vars => EndInv'
  <2>1. UNCHANGED vars /\ EndInv => EndInv'
    BY DEF vars, past, EndInv, KernelFound, Live, AtEnd, Ahead, Early
  <2> QED
    BY <2>1, EndStep
<1>3. EndInv => NullAtTheEnd
  BY DEF EndInv, NullAtTheEnd, AtEnd
<1> QED
  BY <1>1, <1>2, <1>3, AlwaysSound, PTL DEF Spec

-----------------------------------------------------------------------------
(* The tags.                                                                *)

LEMMA AlignIs ==
  ASSUME NEW x \in Nat
  PROVE  /\ ALIGN(x, 8) \in Nat /\ ALIGN(x, 8) % 8 = 0
         /\ x <= ALIGN(x, 8) /\ ALIGN(x, 8) < x + 8
BY DEF ALIGN

LEMMA AlignSum ==
  ASSUME NEW x \in Nat, NEW y \in Nat, x % 8 = 0
  PROVE  ALIGN(x + y, 8) = x + ALIGN(y, 8)
BY DEF ALIGN

(* The type of the tags, and the smallest tag.                              *)
LEMMA TagIs ==
  ASSUME TagsEnd, mbi \in Tags, map \in Maps
  PROVE  /\ DOMAIN mbi = 1 .. Len(mbi) /\ Len(mbi) \in 1 .. 10
         /\ \A i \in DOMAIN mbi : Size(mbi[i]) \in Nat /\ Size(mbi[i]) >= 8
<1>1. mbi \in Seq([type : Nat, size : Nat]) /\ mbi # <<>> /\ Len(mbi) <= 10
  BY MapAssumption
<1>2. DOMAIN mbi = 1 .. Len(mbi) /\ Len(mbi) \in 1 .. 10
  <2>1. DOMAIN mbi = 1 .. Len(mbi) /\ Len(mbi) \in Nat
    BY <1>1
  <2>2. Len(mbi) # 0
    BY <1>1, EmptySeq
  <2> DEFINE n == Len(mbi)
  <2>3. n \in Nat /\ n # 0 /\ n <= 10
    BY <1>1, <2>1, <2>2
  <2> HIDE DEF n
  <2>4. n \in 1 .. 10
    BY <2>3
  <2> QED
    BY <2>1, <2>4 DEF n
<1>3. Len(map) \in Nat
  <2>1. map \in Seq([addr : Nat, len : Nat, available : BOOLEAN])
    BY MapAssumption
  <2> QED
    BY <2>1
<1>4. ASSUME NEW i \in DOMAIN mbi
      PROVE  Size(mbi[i]) \in Nat /\ Size(mbi[i]) >= 8
  <2>1. mbi[i] \in [type : Nat, size : Nat]
    BY <1>1, <1>4, Element
  <2>2. mbi[i].type = MULTIBOOT_TAG_TYPE_MMAP \/ mbi[i].size >= 8
    BY <1>4 DEF TagsEnd
  <2> QED
    BY <1>3, <2>1, <2>2 DEF Size
<1> QED
  BY <1>2, <1>4

(* Begin is the function that its definition describes.                     *)
Begins(f, n) == f = [i \in 1 .. n |-> IF i = 1 THEN 8
                                      ELSE ALIGN(f[i - 1] + Size(mbi[i - 1]), 8)]

LEMMA BeginExists == \A n \in Nat : \E f : Begins(f, n)
<1> DEFINE T == {n \in Nat : \E f : Begins(f, n)}
<1>1. 0 \in T
  <2> DEFINE e == [i \in 1 .. 0 |-> 0]
  <2>1. Begins(e, 0)
    BY DEF Begins
  <2> HIDE DEF e
  <2> QED
    BY <2>1
<1>2. ASSUME NEW m \in T
      PROVE  m + 1 \in T
  <2>1. m \in Nat
    OBVIOUS
  <2>2. PICK f : Begins(f, m)
    OBVIOUS
  <2> DEFINE x == IF m + 1 = 1 THEN 8 ELSE ALIGN(f[m] + Size(mbi[m]), 8)
             g == [i \in 1 .. m + 1 |-> IF i = m + 1 THEN x ELSE f[i]]
  <2>3. \A i \in 1 .. m : f[i] = IF i = 1 THEN 8 ELSE ALIGN(f[i - 1] + Size(mbi[i - 1]), 8)
    BY <2>2 DEF Begins
  <2>4. \A i \in 1 .. m : g[i] = f[i] /\ (i # 1 => g[i - 1] = f[i - 1])
    BY <2>1
  <2>5. g[m + 1] = IF m + 1 = 1 THEN 8 ELSE ALIGN(g[m] + Size(mbi[m]), 8)
    BY <2>1, <2>4
  <2>6. (m + 1) - 1 = m /\ \A i \in 1 .. m + 1 : i = m + 1 \/ i \in 1 .. m
    BY <2>1
  <2>7. \A i \in 1 .. m + 1 : g[i] = IF i = 1 THEN 8 ELSE ALIGN(g[i - 1] + Size(mbi[i - 1]), 8)
    <3> SUFFICES ASSUME NEW i \in 1 .. m + 1
                 PROVE  g[i] = IF i = 1 THEN 8 ELSE ALIGN(g[i - 1] + Size(mbi[i - 1]), 8)
      OBVIOUS
    <3> HIDE DEF g, x
    <3>1. CASE i = m + 1
      BY <2>5, <2>6, <3>1
    <3>2. CASE i # m + 1
      BY <2>3, <2>4, <2>6, <3>2
    <3> QED
      BY <3>1, <3>2
  <2>8. g = [i \in 1 .. m + 1 |-> g[i]]
    OBVIOUS
  <2> HIDE DEF g
  <2>9. Begins(g, m + 1)
    BY <2>7, <2>8 DEF Begins
  <2> QED
    BY <2>1, <2>9
<1> HIDE DEF T
<1>3. T = Nat
  BY <1>1, <1>2, Induction DEF T
<1> QED
  BY <1>3 DEF T

LEMMA BeginIs == Begins(Begin, 10)
<1>1. \E f : Begins(f, 10)
  BY BeginExists
<1> QED
  BY <1>1 DEF Begin, Begins

(* A tag begins where the one before it ends, so no two begin at one place. *)
LEMMA BeginStep ==
  ASSUME TagsEnd, mbi \in Tags, map \in Maps
  PROVE  /\ Begin[1] = 8
         /\ \A i \in DOMAIN mbi : Begin[i] \in Nat /\ Begin[i] % 8 = 0
         /\ \A i \in DOMAIN mbi : i # Len(mbi) =>
              i + 1 \in DOMAIN mbi /\ Begin[i + 1] = Begin[i] + ALIGN(Size(mbi[i]), 8)
         /\ \A i, j \in DOMAIN mbi : i < j => Begin[i] < Begin[j]
<1> DEFINE n == Len(mbi)
<1>1. /\ DOMAIN mbi = 1 .. n /\ n \in 1 .. 10
      /\ \A i \in DOMAIN mbi : Size(mbi[i]) \in Nat /\ Size(mbi[i]) >= 8
  BY TagIs
<1>2. \A i \in 1 .. 10 : Begin[i] = IF i = 1 THEN 8
                                    ELSE ALIGN(Begin[i - 1] + Size(mbi[i - 1]), 8)
  BY BeginIs DEF Begins
<1>3. Begin[1] = 8
  BY <1>2
<1> HIDE DEF n
<1>4. ASSUME NEW i \in 1 .. n, i # n
      PROVE  Begin[i + 1] = ALIGN(Begin[i] + Size(mbi[i]), 8)
  <2>1. i + 1 \in 1 .. 10 /\ i + 1 # 1 /\ (i + 1) - 1 = i
    BY <1>1, <1>4
  <2> QED
    BY <1>2, <2>1
<1> DEFINE T == {k \in Nat : k + 1 \in 1 .. n =>
                   /\ Begin[k + 1] \in Nat /\ Begin[k + 1] % 8 = 0
                   /\ \A i \in 1 .. n : i < k + 1 => Begin[i] \in Nat /\ Begin[i] < Begin[k + 1]}
<1>5. 0 \in T
  <2>1. 8 % 8 = 0 /\ \A i \in 1 .. n : ~(i < 1)
    BY <1>1
  <2> QED
    BY <1>3, <2>1
<1>6. ASSUME NEW k \in T
      PROVE  k + 1 \in T
  <2> DEFINE i == k + 1
  <2> SUFFICES ASSUME i + 1 \in 1 .. n
               PROVE  /\ Begin[i + 1] \in Nat /\ Begin[i + 1] % 8 = 0
                      /\ \A j \in 1 .. n : j < i + 1 => Begin[j] \in Nat /\ Begin[j] < Begin[i + 1]
    OBVIOUS
  <2>1. k \in Nat /\ i \in 1 .. n /\ i # n
    BY <1>1
  <2>2. /\ Begin[i] \in Nat /\ Begin[i] % 8 = 0
        /\ \A j \in 1 .. n : j < i => Begin[j] \in Nat /\ Begin[j] < Begin[i]
    BY <2>1
  <2>3. Size(mbi[i]) \in Nat /\ Size(mbi[i]) >= 8 /\ Begin[i + 1] = ALIGN(Begin[i] + Size(mbi[i]), 8)
    BY <1>1, <1>4, <2>1
  <2> HIDE DEF i, T
  <2> DEFINE b == Begin[i]
             c == Begin[i + 1]
             z == Size(mbi[i])
  <2>4. c \in Nat /\ c % 8 = 0 /\ b < c
    <3>1. b \in Nat /\ z \in Nat /\ z >= 8 /\ c = ALIGN(b + z, 8)
      BY <2>2, <2>3
    <3> HIDE DEF b, c, z
    <3>2. b + z \in Nat /\ b < b + z
      BY <3>1
    <3>3. c \in Nat /\ c % 8 = 0 /\ b + z <= c
      BY <3>1, <3>2, AlignIs
    <3> QED
      BY <3>1, <3>2, <3>3
  <2>5. ASSUME NEW j \in 1 .. n, j < i + 1
        PROVE  Begin[j] \in Nat /\ Begin[j] < c
    <3>1. j = i \/ j < i
      BY <1>1, <2>1, <2>5
    <3>2. CASE j = i
      BY <2>2, <2>4, <3>2
    <3>3. CASE j < i
      <4>1. Begin[j] \in Nat /\ Begin[j] < b
        BY <2>2, <3>3
      <4> QED
        BY <2>2, <2>4, <4>1
    <3> QED
      BY <3>1, <3>2, <3>3
  <2> QED
    BY <2>4, <2>5
<1> HIDE DEF T
<1>7. T = Nat
  BY <1>5, <1>6, Induction DEF T
<1>8. ASSUME NEW i \in 1 .. n
      PROVE  /\ Begin[i] \in Nat /\ Begin[i] % 8 = 0
             /\ \A j \in 1 .. n : j < i => Begin[j] \in Nat /\ Begin[j] < Begin[i]
  <2>1. i - 1 \in Nat /\ (i - 1) + 1 = i
    BY <1>1
  <2>2. i - 1 \in T
    BY <1>7, <2>1
  <2> QED
    BY <2>1, <2>2 DEF T
<1>9. ASSUME NEW i \in 1 .. n, i # n
      PROVE  i + 1 \in 1 .. n /\ Begin[i + 1] = Begin[i] + ALIGN(Size(mbi[i]), 8)
  <2>1. i + 1 \in 1 .. n
    BY <1>1, <1>9
  <2> QED
    BY <1>1, <1>4, <1>8, <1>9, <2>1, AlignSum
<1> QED
  BY <1>1, <1>3, <1>8, <1>9 DEF n

(* The loop over the tags is at the beginning of one, all those before it   *)
(* are something else, and it has stopped only behind the last.             *)
NoMap(k) == \A j \in DOMAIN mbi : j < k => mbi[j].type # MULTIBOOT_TAG_TYPE_MMAP
TagInv ==
  /\ mbi \in Tags
  /\ pc = "tags" => \E i \in DOMAIN mbi : Begin[i] = pos /\ NoMap(i)
  /\ pc = "hang" => \A i \in DOMAIN mbi : mbi[i].type # MULTIBOOT_TAG_TYPE_MMAP

LEMMA TagStep ==
  ASSUME TagsEnd, AreasInv, TagInv, FindMap
  PROVE  TagInv' /\ strayed' = FALSE
<1>1. /\ pc = "tags" /\ mbi' = mbi /\ map' = map /\ mbi \in Tags /\ map \in Maps
  BY DEF FindMap, TagInv, AreasInv
<1>2. PICK i \in DOMAIN mbi : Begin[i] = pos /\ NoMap(i)
  BY <1>1 DEF TagInv
<1>3. /\ DOMAIN mbi = 1 .. Len(mbi) /\ Len(mbi) \in 1 .. 10
      /\ \A k \in DOMAIN mbi : Size(mbi[k]) \in Nat /\ Size(mbi[k]) >= 8
  BY <1>1, TagIs
<1>4. /\ Begin[1] = 8
      /\ \A k \in DOMAIN mbi : Begin[k] \in Nat
      /\ \A k \in DOMAIN mbi : k # Len(mbi) =>
           k + 1 \in DOMAIN mbi /\ Begin[k + 1] = Begin[k] + ALIGN(Size(mbi[k]), 8)
      /\ \A k, j \in DOMAIN mbi : k < j => Begin[k] < Begin[j]
  BY <1>1, BeginStep
<1> DEFINE at == {k \in DOMAIN mbi : Begin[k] = pos}
           tag == mbi[CHOOSE k \in at : TRUE]
<1>5. at = {i}
  <2> SUFFICES ASSUME NEW k \in DOMAIN mbi, Begin[k] = Begin[i] PROVE k = i
    BY <1>2
  <2>1. k < i \/ i < k \/ k = i
    BY <1>3
  <2>2. ~(Begin[k] < Begin[i]) /\ ~(Begin[i] < Begin[k])
    BY <1>4
  <2> QED
    BY <1>4, <2>1, <2>2
<1>6. /\ pc' = IF at = {} \/ tag.type = MULTIBOOT_TAG_TYPE_END THEN "hang"
               ELSE IF tag.type = MULTIBOOT_TAG_TYPE_MMAP THEN "analyze" ELSE "tags"
      /\ pos' = IF pc' = "tags" THEN pos + ALIGN(Size(tag), 8) ELSE 1
      /\ strayed' = (at = {})
  BY DEF FindMap
<1>7. tag = mbi[i] /\ at # {}
  BY <1>5
<1> HIDE DEF at, tag
<1>8. \A j \in DOMAIN mbi : j < i + 1 => j < i \/ j = i
  BY <1>3
<1>9. CASE mbi[i].type = MULTIBOOT_TAG_TYPE_END
  <2>1. i = Len(mbi) /\ \A j \in DOMAIN mbi : j < i \/ j = i
    BY <1>1, <1>3, <1>9 DEF TagsEnd
  <2>2. pc' = "hang" /\ mbi[i].type # MULTIBOOT_TAG_TYPE_MMAP
    BY <1>6, <1>7, <1>9 DEF MULTIBOOT_TAG_TYPE_END, MULTIBOOT_TAG_TYPE_MMAP
  <2> QED
    BY <1>1, <1>2, <1>6, <1>7, <2>1, <2>2 DEF TagInv, NoMap
<1>10. CASE mbi[i].type # MULTIBOOT_TAG_TYPE_END /\ mbi[i].type = MULTIBOOT_TAG_TYPE_MMAP
  BY <1>1, <1>6, <1>7, <1>10 DEF TagInv
<1>11. CASE mbi[i].type # MULTIBOOT_TAG_TYPE_END /\ mbi[i].type # MULTIBOOT_TAG_TYPE_MMAP
  <2>1. i # Len(mbi)
    BY <1>1, <1>11 DEF TagsEnd
  <2>2. pc' = "tags" /\ pos' = pos + ALIGN(Size(mbi[i]), 8)
    BY <1>6, <1>7, <1>11
  <2>3. i + 1 \in DOMAIN mbi /\ Begin[i + 1] = pos'
    BY <1>2, <1>4, <2>1, <2>2
  <2>4. Begin' = Begin
    BY <1>1 DEF Begin, Size
  <2>5. NoMap(i + 1)
    BY <1>2, <1>8, <1>11 DEF NoMap
  <2>6. (\E k \in DOMAIN mbi : Begin[k] = pos /\ NoMap(k))'
    BY <1>1, <2>3, <2>4, <2>5 DEF NoMap
  <2> QED
    BY <1>1, <1>6, <1>7, <2>2, <2>6 DEF TagInv
<1> QED
  BY <1>9, <1>10, <1>11

-----------------------------------------------------------------------------
(* The areas come in the order of the map.                                  *)
AreasSorted == \A h, k \in DOMAIN areas : h < k => areas[h].end <= areas[k].start
StartInv ==
  /\ AreasSorted
  /\ pc \in Early => ram.idx = 0 /\ ram.start \in {-1, BootStart}
  /\ pc \in {"tags", "hang"} => areas = <<>>
  /\ pc = "analyze" =>
       \A k \in DOMAIN areas : \E i \in DOMAIN map : i < pos /\ areas[k] = Area(map[i])

LEMMA StartStep ==
  ASSUME Sorted, AreasInv, RamOK(ram, chunks), StartInv, Next
  PROVE  StartInv'
<1>1. CASE FindMap
  <2>1. pc = "tags" /\ areas' = areas /\ ram' = ram /\ areas = <<>> /\ pc' \in Early
    BY <1>1 DEF FindMap, StartInv, Early
  <2>2. ram.idx = 0 /\ ram.start \in {-1, BootStart}
    BY <2>1 DEF StartInv, Early
  <2>3. DOMAIN areas = {}
    BY <2>1
  <2> QED
    BY <2>1, <2>2, <2>3 DEF StartInv, AreasSorted
<1>2. CASE Analyze
  <2> DEFINE e == map[pos]
             a == Area(e)
  <2>1. /\ pc = "analyze" /\ refused = {} /\ pos <= Len(map)
        /\ (pos = Len(map) /\ pc' = "direct" /\ pos' = 1)
             \/ (pos # Len(map) /\ pc' = "analyze" /\ pos' = pos + 1)
        /\ areas' = IF e.available THEN Append(areas, a) ELSE areas
        /\ ram' = IF e.available /\ a.start <= BootStart /\ BootStart < a.end
                  THEN [ram EXCEPT !.start = BootStart, !.end = a.end] ELSE ram
        /\ map' = map /\ refused' = refused
    BY <1>2 DEF Analyze, Iterate, Area, past
  <2>2. /\ map \in Maps /\ map \in Seq([addr : Nat, len : Nat, available : BOOLEAN])
        /\ pos \in Nat \ {0} /\ Len(map) \in Nat /\ DOMAIN map = 1 .. Len(map)
        /\ areas \in Seq([start : Nat, end : Nat]) /\ Len(areas) \in Nat
        /\ DOMAIN areas = 1 .. Len(areas)
    BY <2>1, MapAssumption DEF AreasInv
  <2>3. pos \in DOMAIN map
    BY <2>1, <2>2
  <2>4. ram \in [start : Int, end : Nat, idx : Nat] /\ ram.idx = 0 /\ ram.start \in {-1, BootStart}
    BY <2>1 DEF RamOK, StartInv, Early
  <2>5. ram'.idx = 0 /\ ram'.start \in {-1, BootStart}
    <3> HIDE DEF a, e
    <3> QED
      BY <2>1, <2>4
  <2>6. \A k \in DOMAIN areas : \E i \in DOMAIN map : i < pos /\ areas[k] = Area(map[i])
    BY <2>1 DEF StartInv
  <2>7. \A k \in DOMAIN areas : areas[k].end <= a.start
    <3> TAKE k \in DOMAIN areas
    <3>1. PICK i \in DOMAIN map : i < pos /\ areas[k] = Area(map[i])
      BY <2>6
    <3>2. map[i].addr + map[i].len <= map[pos].addr
      BY <2>2, <2>3, <3>1 DEF Sorted
    <3> QED
      BY <3>1, <3>2 DEF Area
  <2> HIDE DEF a, e
  <2>8. CASE ~e.available
    <3>1. areas' = areas
      BY <2>1, <2>8
    <3>2. AreasSorted'
      BY <3>1 DEF StartInv, AreasSorted
    <3>3. pc' = "analyze" =>
            \A k \in DOMAIN areas : \E i \in DOMAIN map : i < pos + 1 /\ areas[k] = Area(map[i])
      <4>1. \A i \in DOMAIN map : i < pos => i < pos + 1
        BY <2>2
      <4> QED
        BY <2>6, <4>1
    <3> QED
      BY <2>1, <2>5, <3>1, <3>2, <3>3 DEF StartInv
  <2>9. CASE e.available
    <3>1. areas' = Append(areas, a)
      BY <2>1, <2>9
    <3>2. /\ \A j \in DOMAIN areas : areas'[j] = areas[j]
          /\ Len(areas) + 1 \in DOMAIN areas' /\ areas'[Len(areas) + 1] = a
          /\ \A j \in DOMAIN areas' : j \in DOMAIN areas \/ j = Len(areas) + 1
      BY <2>2, <3>1
    <3>3. AreasSorted'
      <4> SUFFICES ASSUME NEW h \in DOMAIN areas', NEW k \in DOMAIN areas', h < k
                   PROVE  areas'[h].end <= areas'[k].start
        BY DEF AreasSorted
      <4>1. h \in DOMAIN areas
        BY <2>2, <3>2
      <4>2. CASE k = Len(areas) + 1
        BY <2>7, <3>2, <4>1, <4>2
      <4>3. CASE k # Len(areas) + 1
        BY <3>2, <4>1, <4>3 DEF StartInv, AreasSorted
      <4> QED
        BY <4>2, <4>3
    <3>4. \A k \in DOMAIN areas' : \E i \in DOMAIN map : i < pos + 1 /\ areas'[k] = Area(map[i])
      <4> TAKE k \in DOMAIN areas'
      <4>1. CASE k = Len(areas) + 1
        <5>1. pos < pos + 1 /\ areas'[k] = Area(map[pos])
          BY <2>2, <3>2, <4>1 DEF a, e
        <5> QED
          BY <2>3, <5>1
      <4>2. CASE k # Len(areas) + 1
        <5>1. PICK i \in DOMAIN map : i < pos /\ areas[k] = Area(map[i])
          BY <2>6, <3>2, <4>2
        <5>2. i < pos + 1
          BY <2>2, <5>1
        <5> QED
          BY <3>2, <4>2, <5>1, <5>2
      <4> QED
        BY <4>1, <4>2
    <3> QED
      BY <2>1, <2>5, <3>3, <3>4 DEF StartInv
  <2> QED
    BY <2>8, <2>9
<1>3. CASE DirectMap \/ Describe \/ Give
  <2>1. areas' = areas /\ pc' \notin Early
    BY <1>3 DEF DirectMap, Describe, Give, Iterate, Early
  <2> QED
    BY <2>1 DEF StartInv, AreasSorted, Early
<1>4. CASE Done
  BY <1>4 DEF Done, vars, StartInv, AreasSorted
<1> QED
  BY <1>1, <1>2, <1>3, <1>4 DEF Next

-----------------------------------------------------------------------------
(* The linear allocator skips no page of usable memory.                     *)

LEMMA FrameOf ==
  ASSUME NEW g \in Nat
  PROVE  pfn(g * PAGE_SIZE) = g /\ g * PAGE_SIZE \in Nat /\ (g * PAGE_SIZE) % PAGE_SIZE = 0
<1> DEFINE x == PAGE_SIZE
           z == g * x
<1>1. x \in Nat \ {0} /\ z \in Nat /\ z % x = 0
  BY PageNat
<1>2. z = pfn(z) * PAGE_SIZE /\ pfn(z) \in Nat
  <2> HIDE DEF z
  <2> QED
    BY <1>1, Frame
<1> DEFINE y == pfn(z)
<1>3. y \in Nat /\ z = y * x /\ z = g * x
  BY <1>2
<1> HIDE DEF x, y
<1>4. y = g
  <2>1. CASE y < g
    <3>1. (y + 1) * x <= g * x /\ (y + 1) * x = y * x + x /\ y * x \in Nat
      BY <1>1, <1>3, <2>1, Monotone
    <3> HIDE DEF z
    <3> QED
      BY <1>1, <1>3, <3>1
  <2>2. CASE g < y
    <3>1. (g + 1) * x <= y * x /\ (g + 1) * x = g * x + x /\ g * x \in Nat
      BY <1>1, <1>3, <2>2, Monotone
    <3> HIDE DEF z
    <3> QED
      BY <1>1, <1>3, <3>1
  <2> QED
    BY <1>3, <2>1, <2>2
<1> QED
  BY <1>1, <1>4 DEF x, y

Taken(g, cs) == \E i \in DOMAIN cs : pfn(cs[i]) = g
NoneSkipped(r, cs) ==
  \E c \in DOMAIN areas :
    /\ r.idx < c /\ r.end = areas[c].end /\ areas[c].start <= r.start
    /\ \A g \in Nat : pfn(BootStart) <= g /\ g * PAGE_SIZE < r.start /\ Inside(g * PAGE_SIZE, PAGE_SIZE)
                        => Taken(g, cs)

LEMMA TakeSkipsNone ==
  ASSUME AreasWhole, KernelInside, AreasInv, AreasSorted,
         NEW r, NEW cs, RamOK(r, cs), NoneSkipped(r, cs),
         r.start + PAGE_SIZE <= r.end,
         Ahead(r) # {} \/ ~(r.start + PAGE_SIZE >= r.end)
  PROVE  NoneSkipped(Take(r, PAGE_SIZE), cs \o <<r.start>>)
<1> DEFINE a == r.start
           s == a + PAGE_SIZE
           t == Take(r, PAGE_SIZE)
           ds == cs \o <<a>>
<1>1. /\ r \in [start : Int, end : Nat, idx : Nat] /\ cs \in Seq(Nat)
      /\ areas \in Seq([start : Nat, end : Nat]) /\ Len(areas) \in Nat
      /\ DOMAIN areas = 1 .. Len(areas)
      /\ PAGE_SIZE \in Nat \ {0, 1} /\ BootStart \in Nat \ {0}
  BY PageNat DEF RamOK, AreasInv
<1>2. a >= BootStart /\ a \in Nat /\ a % PAGE_SIZE = 0 /\ r.end \in Nat /\ r.end >= BootStart
      /\ s \in Nat /\ a < s
  <2>1. a # -1
    <3> SUFFICES ASSUME a = -1 PROVE FALSE
      OBVIOUS
    <3>1. r.end = 0 \/ a >= BootStart
      BY DEF RamOK
    <3> QED
      BY <1>1, <3>1
  <2>2. a >= BootStart /\ a % PAGE_SIZE = 0 /\ r.end >= BootStart
    BY <2>1 DEF RamOK
  <2> QED
    BY <1>1, <2>2
<1>3. PICK c \in DOMAIN areas :
        /\ r.idx < c /\ r.end = areas[c].end /\ areas[c].start <= a
        /\ \A g \in Nat : pfn(BootStart) <= g /\ g * PAGE_SIZE < a /\ Inside(g * PAGE_SIZE, PAGE_SIZE)
                            => Taken(g, cs)
  BY DEF NoneSkipped
<1>4. /\ Len(ds) = Len(cs) + 1 /\ DOMAIN ds = 1 .. (Len(cs) + 1) /\ DOMAIN cs = 1 .. Len(cs)
      /\ Len(cs) \in Nat
      /\ \A i \in DOMAIN cs : ds[i] = cs[i]
      /\ ds[Len(cs) + 1] = a
  <2> HIDE DEF a
  <2>1. cs \in Seq(Nat) /\ <<a>> \in Seq(Nat) /\ Len(<<a>>) = 1 /\ <<a>>[1] = a
    BY <1>1, <1>2
  <2> QED
    BY <2>1, ConcatProperties
<1>5. ASSUME NEW g \in Nat, pfn(BootStart) <= g, g * PAGE_SIZE <= a, Inside(g * PAGE_SIZE, PAGE_SIZE)
      PROVE  Taken(g, ds)
  <2>1. g * PAGE_SIZE \in Nat /\ pfn(g * PAGE_SIZE) = g
    BY FrameOf
  <2>2. CASE g * PAGE_SIZE = a
    <3>1. Len(cs) + 1 \in DOMAIN ds /\ pfn(ds[Len(cs) + 1]) = g
      BY <1>4, <2>1, <2>2
    <3> QED
      BY <3>1 DEF Taken
  <2>3. CASE g * PAGE_SIZE # a
    <3>1. g * PAGE_SIZE < a
      BY <1>2, <1>5, <2>1, <2>3
    <3>2. PICK i \in DOMAIN cs : pfn(cs[i]) = g
      BY <1>3, <1>5, <3>1 DEF Taken
    <3>3. i \in DOMAIN ds /\ ds[i] = cs[i]
      BY <1>4
    <3> QED
      BY <3>2, <3>3 DEF Taken
  <2> QED
    BY <2>2, <2>3
<1>6. \/ s < r.end /\ t = [start |-> s, end |-> r.end, idx |-> r.idx]
      \/ /\ s >= r.end /\ Ahead(r) = {}
      \/ /\ s >= r.end
         /\ \E k \in Ahead(r) : /\ k \in DOMAIN areas /\ areas[k].start >= r.end
                                /\ t = [start |-> areas[k].start, end |-> areas[k].end,
                                        idx |-> k - 1]
                                /\ \A j \in Ahead(r) : k <= j
  BY <1>1, TakeIs
<1> HIDE DEF t, ds
<1>7. CASE s < r.end /\ t = [start |-> s, end |-> r.end, idx |-> r.idx]
  <2>1. t.start = s /\ t.end = r.end /\ t.idx = r.idx
    BY <1>7
  <2>2. areas[c].start <= s
    <3>1. areas[c].start \in Nat
      BY AreaWhole
    <3> QED
      BY <1>2, <1>3, <3>1
  <2>3. ASSUME NEW g \in Nat, pfn(BootStart) <= g, g * PAGE_SIZE < s, Inside(g * PAGE_SIZE, PAGE_SIZE)
        PROVE  Taken(g, ds)
    <3> DEFINE z == g * PAGE_SIZE
    <3>1. z \in Nat /\ z % PAGE_SIZE = 0 /\ z < s
      BY <2>3, FrameOf
    <3> HIDE DEF z
    <3>2. z <= a
      <4> SUFFICES ASSUME a < z PROVE FALSE
        BY <1>2, <3>1
      <4>1. a + PAGE_SIZE <= z
        BY <1>2, <3>1, AlignedApart
      <4> QED
        BY <1>2, <3>1, <4>1
    <3> QED
      BY <1>5, <2>3, <3>2 DEF z
  <2> QED
    BY <1>3, <2>1, <2>2, <2>3 DEF NoneSkipped, t, ds
<1>8. CASE /\ s >= r.end
           /\ \E k \in Ahead(r) : /\ k \in DOMAIN areas /\ areas[k].start >= r.end
                                  /\ t = [start |-> areas[k].start, end |-> areas[k].end,
                                          idx |-> k - 1]
                                  /\ \A j \in Ahead(r) : k <= j
  <2>1. PICK k \in Ahead(r) : /\ k \in DOMAIN areas /\ areas[k].start >= r.end
                              /\ t = [start |-> areas[k].start, end |-> areas[k].end,
                                      idx |-> k - 1]
                              /\ \A j \in Ahead(r) : k <= j
    BY <1>8
  <2>2. t.start = areas[k].start /\ t.end = areas[k].end /\ t.idx = k - 1 /\ k \in Nat /\ t.idx < k
    <3>1. t.start = areas[k].start /\ t.end = areas[k].end /\ t.idx = k - 1
      BY <2>1
    <3>2. k \in Nat /\ k - 1 < k
      BY <1>1, <2>1
    <3> QED
      BY <3>1, <3>2
  <2>3. \A j \in DOMAIN areas : /\ areas[j].start \in Nat /\ areas[j].end \in Nat
                                /\ areas[j].start <= areas[j].end
    <3> TAKE j \in DOMAIN areas
    <3>1. PICK i \in DOMAIN map : areas[j] = Area(map[i])
      BY DEF AreasInv
    <3>2. map[i].addr \in Nat /\ map[i].len \in Nat
      <4>1. map \in Seq([addr : Nat, len : Nat, available : BOOLEAN])
        BY MapAssumption DEF AreasInv
      <4>2. map[i] \in [addr : Nat, len : Nat, available : BOOLEAN]
        BY <4>1, Element
      <4> QED
        BY <4>2
    <3> QED
      BY <3>1, <3>2 DEF Area
  <2>4. ASSUME NEW g \in Nat, pfn(BootStart) <= g, g * PAGE_SIZE < areas[k].start,
               Inside(g * PAGE_SIZE, PAGE_SIZE)
        PROVE  Taken(g, ds)
    <3> DEFINE z == g * PAGE_SIZE
    <3>1. z \in Nat /\ z < areas[k].start
      BY <2>4, FrameOf
    <3>2. PICK j \in DOMAIN areas : areas[j].start <= z /\ z + PAGE_SIZE <= areas[j].end
      BY <2>4 DEF Inside
    <3> HIDE DEF z
    <3>3. j < k
      <4> SUFFICES ASSUME ~(j < k) PROVE FALSE
        OBVIOUS
      <4>1. j = k \/ k < j
        BY <1>1, <2>1
      <4>2. k < j => areas[k].end <= areas[j].start
        BY <2>1 DEF AreasSorted
      <4>3. areas[k].start <= areas[j].start
        BY <2>1, <2>3, <4>1, <4>2
      <4> QED
        BY <2>1, <2>3, <3>1, <3>2, <4>3
    <3>4. j <= c
      <4> SUFFICES ASSUME c < j PROVE FALSE
        BY <1>1
      <4>1. areas[j].start >= r.end
        BY <1>2, <1>3, <2>3, <4>1 DEF AreasSorted
      <4>2. j \in (r.idx + 1) .. Len(areas)
        BY <1>1, <1>3
      <4>3. j \in Ahead(r)
        BY <4>1, <4>2 DEF Ahead
      <4> QED
        BY <1>1, <2>1, <2>2, <3>3, <4>3
    <3>5. z <= a
      <4>1. z + PAGE_SIZE <= s
        <5>1. CASE j = c
          <6>1. z + PAGE_SIZE <= r.end /\ r.end <= s
            BY <1>2, <1>3, <1>8, <3>2, <5>1
          <6>2. z \in Nat /\ PAGE_SIZE \in Nat /\ r.end \in Nat /\ s \in Nat
            BY <1>1, <1>2, <3>1
          <6> HIDE DEF s
          <6> QED
            BY ONLY <6>1, <6>2
        <5>2. CASE j < c
          <6>1. areas[j].end <= areas[c].start
            BY <5>2 DEF AreasSorted
          <6> DEFINE x == areas[j].end
                     y == areas[c].start
          <6>2. z + PAGE_SIZE <= x /\ x <= y /\ y <= a /\ a < s
            BY <1>2, <1>3, <3>2, <6>1
          <6>3. /\ z \in Nat /\ PAGE_SIZE \in Nat /\ x \in Nat /\ y \in Nat
                /\ a \in Nat /\ s \in Nat
            BY <1>1, <1>2, <2>3, <3>1
          <6> HIDE DEF s, a, x, y
          <6> QED
            BY ONLY <6>2, <6>3
        <5> QED
          BY <1>1, <3>4, <5>1, <5>2
      <4> QED
        BY <1>1, <1>2, <3>1, <4>1
    <3> QED
      BY <1>5, <2>4, <3>5 DEF z
  <2>5. \A g \in Nat : pfn(BootStart) <= g /\ g * PAGE_SIZE < t.start /\ Inside(g * PAGE_SIZE, PAGE_SIZE)
                         => Taken(g, ds)
    BY <2>2, <2>4
  <2>6. areas[k].start <= t.start
    BY <2>1, <2>2, <2>3
  <2> QED
    BY <2>1, <2>2, <2>5, <2>6 DEF NoneSkipped, t, ds
<1> QED
  BY <1>2, <1>6, <1>7, <1>8, <1>1

(* So it has come through every usable page in front of the next one.       *)
LEMMA BeforeTaken ==
  ASSUME AreasInv, pc \notin Early, NEW r, NEW cs, cs \in Seq(Nat), NoneSkipped(r, cs),
         r.start \in Nat
  PROVE  Cardinality(UsableBefore(map, pfn(r.start))) <= Len(cs)
<1> DEFINE B == UsableBefore(map, pfn(r.start))
           n == Len(cs)
           f == [g \in B |-> CHOOSE i \in 1 .. n : pfn(cs[i]) = g]
<1>1. /\ map \in Maps /\ n \in Nat /\ DOMAIN cs = 1 .. n
      /\ PAGE_SIZE \in Nat \ {0, 1} /\ BootStart \in Nat
  BY PageNat DEF AreasInv
<1>2. ASSUME NEW g \in B
      PROVE  \E i \in 1 .. n : pfn(cs[i]) = g
  <2> DEFINE x == pfn(BootStart)
             y == pfn(r.start)
  <2>1. x \in Nat /\ y \in Nat /\ y * PAGE_SIZE <= r.start /\ y * PAGE_SIZE \in Nat
    BY <1>1, Frame
  <2>2. g \in x .. y - 1 /\ Usable(map, g)
    BY <1>2 DEF UsableBefore
  <2> HIDE DEF x, y
  <2>3. g \in Nat /\ x <= g /\ g + 1 <= y
    BY <2>1, <2>2
  <2>4. g * PAGE_SIZE < r.start
    <3>1. (g + 1) * PAGE_SIZE <= y * PAGE_SIZE
      BY <1>1, <2>1, <2>3, Monotone
    <3>2. (g + 1) * PAGE_SIZE = g * PAGE_SIZE + PAGE_SIZE /\ g * PAGE_SIZE \in Nat
      BY <1>1, <2>3
    <3> QED
      BY <1>1, <2>1, <3>1, <3>2
  <2>5. PICK i \in DOMAIN map : /\ map[i].available
                                /\ map[i].addr <= g * PAGE_SIZE
                                /\ g * PAGE_SIZE + PAGE_SIZE <= map[i].addr + map[i].len
    BY <2>2 DEF Usable
  <2>6. PICK k \in DOMAIN areas : areas[k] = Area(map[i])
    BY <2>5 DEF AreasInv, Seen, Early
  <2>7. Inside(g * PAGE_SIZE, PAGE_SIZE)
    BY <2>5, <2>6 DEF Inside, Area
  <2>8. Taken(g, cs)
    BY <2>3, <2>4, <2>7 DEF NoneSkipped, x
  <2> QED
    BY <1>1, <2>8 DEF Taken
<1>3. f \in Injection(B, 1 .. n)
  <2>1. \A g \in B : f[g] \in 1 .. n /\ pfn(cs[f[g]]) = g
    BY <1>2
  <2>2. f \in [B -> 1 .. n]
    BY <2>1
  <2> HIDE DEF f, B
  <2> QED
    BY <2>1, <2>2 DEF Injection, IsInjective
<1>4. IsFiniteSet(1 .. n) /\ Cardinality(1 .. n) = n
  <2> HIDE DEF n
  <2>0. 1 \in Int /\ n \in Int
    BY <1>1
  <2>1. IsFiniteSet(1 .. n) /\ Cardinality(1 .. n) = IF 1 > n THEN 0 ELSE n - 1 + 1
    BY <2>0, FS_Interval
  <2> QED
    BY <1>1, <2>1
<1> HIDE DEF B, f, n
<1>5. Cardinality(B) <= Cardinality(1 .. n)
  BY <1>3, <1>4, FS_Injection
<1> QED
  BY <1>4, <1>5 DEF B, n

-----------------------------------------------------------------------------
(* Pages of usable memory are visited.                                      *)

LEMMA AreaVisited ==
  ASSUME AreasWhole, AreasInv, pc \notin Early,
         NEW a \in Nat, a % PAGE_SIZE = 0, a >= BootStart, Inside(a, PAGE_SIZE)
  PROVE  /\ \E p \in DOMAIN Visits : Visits[p][2] = a
         /\ Usable(map, pfn(a))
         /\ \E i \in DOMAIN map : pfn(a) <= pfn(map[i].addr + map[i].len)
<1>1. /\ map \in Maps /\ map \in Seq([addr : Nat, len : Nat, available : BOOLEAN])
      /\ PAGE_SIZE \in Nat \ {0, 1} /\ BootStart \in Nat
  BY MapAssumption, PageNat DEF AreasInv
<1>2. PICK k \in DOMAIN areas : areas[k].start <= a /\ a + PAGE_SIZE <= areas[k].end
  BY DEF Inside
<1>3. PICK i \in DOMAIN map : map[i].available /\ areas[k] = Area(map[i])
  BY DEF AreasInv
<1> DEFINE x == map[i].addr
           l == map[i].len
           d == a - x
           q == pfn(d)
           n == (l + PAGE_SIZE - 1) \div PAGE_SIZE
<1>4. x \in Nat /\ l \in Nat
  <2>1. map[i] \in [addr : Nat, len : Nat, available : BOOLEAN]
    BY <1>1, Element
  <2> QED
    BY <2>1
<1>5. x <= a /\ a + PAGE_SIZE <= x + l
  BY <1>2, <1>3 DEF Area
<1>6. x % PAGE_SIZE = 0
  <2>1. x + l > BootStart
    <3> HIDE DEF x, l
    <3> QED
      BY <1>1, <1>4, <1>5
  <2> QED
    BY <1>1, <1>3, <2>1 DEF AreasWhole
<1> HIDE DEF x, l
<1>7. d \in Nat /\ a = x + d /\ d + PAGE_SIZE <= l
  BY <1>1, <1>4, <1>5
<1> HIDE DEF d
<1>8. d = q * PAGE_SIZE /\ q \in Nat
  <2> DEFINE y == pfn(x)
             b == pfn(a)
  <2>1. /\ y \in Nat /\ b \in Nat /\ x = y * PAGE_SIZE /\ a = b * PAGE_SIZE
    BY <1>4, <1>6, Frame
  <2> HIDE DEF y, b
  <2>2. y <= b
    <3> SUFFICES ASSUME b + 1 <= y PROVE FALSE
      BY <2>1
    <3>1. (b + 1) * PAGE_SIZE <= y * PAGE_SIZE /\ (b + 1) * PAGE_SIZE = a + PAGE_SIZE
      BY <1>1, <2>1, Monotone
    <3> QED
      BY <1>1, <1>4, <1>5, <2>1, <3>1
  <2>3. b - y \in Nat /\ b = y + (b - y)
    BY <2>1, <2>2
  <2> DEFINE z == b - y
  <2>4. z \in Nat /\ b = y + z
    BY <2>3
  <2> HIDE DEF z
  <2>5. b * PAGE_SIZE = y * PAGE_SIZE + z * PAGE_SIZE /\ z * PAGE_SIZE \in Nat /\ y * PAGE_SIZE \in Nat
    BY <1>1, <2>1, <2>4
  <2>6. d = z * PAGE_SIZE
    BY <1>4, <1>7, <2>1, <2>5
  <2>7. pfn(d) = z
    BY <2>4, <2>6, FrameOf
  <2> QED
    BY <2>4, <2>6, <2>7
<1>9. n \in Nat /\ q + 1 <= n
  <2> DEFINE y == l + PAGE_SIZE - 1
  <2>1. y \in Nat /\ (q + 1) * PAGE_SIZE <= y /\ (q + 1) * PAGE_SIZE = q * PAGE_SIZE + PAGE_SIZE
    BY <1>1, <1>4, <1>7, <1>8
  <2>2. n = pfn(y)
    BY DEF pfn
  <2> HIDE DEF y, n
  <2>3. n \in Nat /\ y < n * PAGE_SIZE + PAGE_SIZE /\ n * PAGE_SIZE \in Nat
    BY <2>1, <2>2, Frame
  <2>4. q + 1 <= n
    <3> SUFFICES ASSUME n + 1 <= q + 1 PROVE FALSE
      BY <1>8, <2>3
    <3>0. n + 1 \in Nat /\ q + 1 \in Nat /\ PAGE_SIZE \in Nat /\ n + 1 <= q + 1
      BY <1>1, <1>8, <2>3
    <3>1. (n + 1) * PAGE_SIZE <= (q + 1) * PAGE_SIZE
      BY <3>0, Monotone
    <3>3. (n + 1) * PAGE_SIZE = n * PAGE_SIZE + PAGE_SIZE
      BY <1>1, <2>3
    <3>2. (q + 1) * PAGE_SIZE \in Nat
      BY <1>1, <1>8
    <3> QED
      BY <1>1, <2>1, <2>3, <3>1, <3>2, <3>3
  <2> QED
    BY <2>3, <2>4
<1>10. \E p \in DOMAIN Visits : Visits[p][2] = a
  <2>1. q + 1 \in 1 .. n /\ (q + 1) - 1 = q
    BY <1>8, <1>9
  <2>2. \E p \in DOMAIN Visits : Visits[p] = <<i, map[i].addr + ((q + 1) - 1) * PAGE_SIZE>>
    BY <1>1, <2>1, VisitsAre DEF n, l
  <2>3. PICK p \in DOMAIN Visits : Visits[p] = <<i, map[i].addr + q * PAGE_SIZE>>
    BY <2>1, <2>2
  <2>4. map[i].addr + q * PAGE_SIZE = a
    BY <1>7, <1>8 DEF x
  <2> QED
    BY <2>3, <2>4
<1>11. Usable(map, pfn(a))
  <2>1. pfn(a) * PAGE_SIZE = a
    BY Frame
  <2> QED
    BY <1>3, <1>5, <2>1 DEF Usable, x, l
<1>12. pfn(a) <= pfn(x + l)
  <2>1. x + l \in Nat
    BY <1>4
  <2>2. pfn(a) < pfn(x + l)
    BY <1>5, <2>1, FrameLess
  <2>3. pfn(a) \in Nat /\ pfn(x + l) \in Nat
    BY <2>1, Frame
  <2> QED
    BY <2>2, <2>3
<1> QED
  BY <1>10, <1>11, <1>12 DEF x, l

-----------------------------------------------------------------------------
(* What a call of mm_init_pgtable_map does as long as no request has been   *)
(* refused.                                                                 *)
Seeing(m) == m.strayed = FALSE /\ \A t \in DOMAIN m.tables : Visible(pfn(m.tables[t]))
Chunk(a)  == a \in Nat /\ a >= BootStart /\ a % PAGE_SIZE = 0 /\ Inside(a, PAGE_SIZE)

LEMMA PageMoves ==
  ASSUME AreasWhole, KernelInside, AreasInv, AreasSorted, NEW m, MOK(m),
         NoneSkipped(m.ram, m.chunks), Page(m).refused = {}
  PROVE  LET p == Page(m)
         IN  /\ m.refused = {} /\ NoneSkipped(p.ram, p.chunks)
             /\ Len(p.chunks) = Len(m.chunks) + 1 /\ Len(m.chunks) \in Nat
             /\ p.chunk = m.ram.start /\ Chunk(m.ram.start)
             /\ p.tables = m.tables /\ p.strayed = m.strayed
<1> DEFINE r == m.ram
           cs == m.chunks
           a == Alloc(r, PAGE_SIZE)
           p == Page(m)
           t == Take(r, PAGE_SIZE)
<1>1. /\ RamOK(r, cs) /\ r \in [start : Int, end : Nat, idx : Nat] /\ cs \in Seq(Nat)
      /\ areas \in Seq([start : Nat, end : Nat])
      /\ PAGE_SIZE \in Nat \ {0, 1} /\ BootStart \in Nat \ {0}
  BY PageNat DEF MOK, RamOK, AreasInv
<1>2. /\ p.ram = a.ram /\ p.chunk = a.chunk /\ p.chunks = cs \o a.took
      /\ p.refused = IF a.chunk = NULL THEN m.refused \cup {r} ELSE m.refused
      /\ p.tables = m.tables /\ p.strayed = m.strayed
  <2> HIDE DEF a
  <2>1. Page(m) = [m EXCEPT !.ram = a.ram, !.chunk = a.chunk, !.chunks = m.chunks \o a.took,
                !.refused = IF a.chunk = NULL THEN m.refused \cup {m.ram} ELSE m.refused]
    BY DEF Page, a, MOK, Shape
  <2> QED
    BY <2>1 DEF MOK, Shape
<1>3. a.chunk # NULL /\ m.refused = {}
  <2> HIDE DEF p, a
  <2> QED
    BY <1>2 DEF p
<1>4. /\ r.start + PAGE_SIZE <= r.end
      /\ a.ram = t /\ a.took = <<r.start>> /\ a.chunk = r.start
      /\ ~(r.start + PAGE_SIZE >= r.end /\ t.idx = Len(areas))
  <2>1. ~(a = [ram |-> r, chunk |-> NULL, took |-> <<>>])
    BY <1>3
  <2> QED
    BY <1>1, <1>3, <2>1, AllocIs
<1>5. Ahead(r) # {} \/ ~(r.start + PAGE_SIZE >= r.end)
  <2> SUFFICES ASSUME Ahead(r) = {}, r.start + PAGE_SIZE >= r.end PROVE t.idx = Len(areas)
    BY <1>4
  <2>1. ~(r.start + PAGE_SIZE < r.end)
    BY <1>1
  <2>2. t = [start |-> r.start + PAGE_SIZE, end |-> r.end, idx |-> Len(areas)]
    BY <1>1, <2>1, TakeIs
  <2> QED
    BY <2>2
<1>6. NoneSkipped(t, cs \o <<r.start>>)
  BY <1>1, <1>4, <1>5, TakeSkipsNone
<1>7. Chunk(r.start)
  <2>1. r.start # -1
    <3> SUFFICES ASSUME r.start = -1 PROVE FALSE
      OBVIOUS
    <3>1. r.end = 0 \/ r.start >= BootStart
      BY <1>1 DEF RamOK
    <3> QED
      BY <1>1, <1>4, <3>1
  <2>2. r.start >= BootStart /\ r.start % PAGE_SIZE = 0 /\ r.start \in Int
    BY <1>1, <2>1 DEF RamOK
  <2>3. PICK k \in DOMAIN areas : areas[k].start <= r.start /\ r.end = areas[k].end
    BY <1>1, <2>1 DEF RamOK
  <2>4. Inside(r.start, PAGE_SIZE)
    BY <1>4, <2>3 DEF Inside
  <2>5. r.start \in Nat
    BY <1>1, <2>2
  <2> QED
    BY <2>2, <2>4, <2>5 DEF Chunk
<1>8. Len(cs \o <<r.start>>) = Len(cs) + 1 /\ Len(cs) \in Nat
  <2> DEFINE s == r.start
  <2>1. s \in Nat
    BY <1>7 DEF Chunk
  <2> HIDE DEF s, cs
  <2>2. cs \in Seq(Nat) /\ <<s>> \in Seq(Nat) /\ Len(<<s>>) = 1
    BY <1>1, <2>1
  <2>3. Len(cs \o <<s>>) = Len(cs) + 1
    BY <2>2, ConcatProperties
  <2> QED
    BY <2>2, <2>3 DEF s
<1> HIDE DEF a, p, t, cs, r
<1>9. p.chunks = cs \o <<r.start>> /\ p.ram = t
  BY <1>2, <1>4
<1> QED
  BY <1>2, <1>3, <1>4, <1>6, <1>7, <1>8, <1>9 DEF p, cs, r

LEMMA LevelMoves ==
  ASSUME StartsAligned, AreasWhole, KernelInside, AreasInv, AreasSorted, NEW m, MOK(m),
         NoneSkipped(m.ram, m.chunks), Seeing(m), NEW v, NEW n, Level(m, v, n).refused = {},
         TableOf(v, n) \notin DOMAIN m.tables /\ Chunk(m.ram.start) => Visible(pfn(m.ram.start))
  PROVE  LET l == Level(m, v, n)
         IN  /\ m.refused = {} /\ MOK(l) /\ NoneSkipped(l.ram, l.chunks) /\ Seeing(l)
             /\ DOMAIN l.tables = DOMAIN m.tables \cup {TableOf(v, n)}
             /\ Len(m.chunks) \in Nat
             /\ Len(l.chunks) = Len(m.chunks) + IF TableOf(v, n) \in DOMAIN m.tables THEN 0 ELSE 1
<1> DEFINE t == TableOf(v, n)
           p == Page(m)
           m1 == IF t \in DOMAIN m.tables THEN m
                 ELSE [p EXCEPT !.tables = Update(@, t, p.chunk)]
           l == Level(m, v, n)
<1>1. MOK(l)
  BY LevelOK
<1>2. l = [m1 EXCEPT !.strayed = @ \/ ~Visible(pfn(m1.tables[t]))]
  BY DEF Level
<1>3. Len(m.chunks) \in Nat
  <2>1. m.chunks \in Seq(Nat)
    BY DEF MOK, RamOK
  <2> QED
    BY <2>1
<1>4. CASE t \in DOMAIN m.tables
  <2>1. m1 = m /\ Visible(pfn(m1.tables[t]))
    BY <1>4 DEF Seeing
  <2> HIDE DEF m1, t, l
  <2>2. /\ l.ram = m.ram /\ l.refused = m.refused /\ l.chunks = m.chunks /\ l.tables = m.tables
        /\ l.strayed = (m.strayed \/ ~Visible(pfn(m1.tables[t])))
    BY <1>2, <2>1 DEF MOK, Shape
  <2>3. Seeing(l)
    BY <2>1, <2>2 DEF Seeing
  <2> QED
    BY <1>1, <1>3, <1>4, <2>2, <2>3 DEF l, t
<1>5. CASE t \notin DOMAIN m.tables
  <2>1. m1 = [p EXCEPT !.tables = Update(@, t, p.chunk)]
    BY <1>5
  <2>2. Shape(p)
    BY PageOK DEF MOK
  <2> HIDE DEF m1, t, l, p
  <2>3. /\ Shape(m1) /\ m1.ram = p.ram /\ m1.refused = p.refused /\ m1.chunks = p.chunks
        /\ m1.tables = Update(p.tables, t, p.chunk) /\ m1.strayed = p.strayed
    BY <2>1, <2>2 DEF Shape
  <2>4. /\ l.ram = m1.ram /\ l.refused = m1.refused /\ l.chunks = m1.chunks
        /\ l.tables = m1.tables
        /\ l.strayed = (m1.strayed \/ ~Visible(pfn(m1.tables[t])))
    BY <1>2, <2>3 DEF Shape
  <2>5. p.refused = {}
    BY <2>3, <2>4 DEF l
  <2>6. /\ m.refused = {} /\ NoneSkipped(p.ram, p.chunks)
        /\ Len(p.chunks) = Len(m.chunks) + 1
        /\ p.chunk = m.ram.start /\ Chunk(m.ram.start)
        /\ p.tables = m.tables /\ p.strayed = m.strayed
    BY <2>5, PageMoves DEF p
  <2>7. Visible(pfn(p.chunk))
    BY <1>5, <2>6 DEF t
  <2> DEFINE ts == Update(m.tables, t, p.chunk)
  <2>8. /\ DOMAIN ts = DOMAIN m.tables \cup {t} /\ ts[t] = p.chunk
        /\ \A z \in DOMAIN ts : z = t \/ (z \in DOMAIN m.tables /\ ts[z] = m.tables[z])
    <3>1. ts = [z \in DOMAIN m.tables \cup {t} |-> IF z = t THEN p.chunk ELSE m.tables[z]]
      BY DEF Update
    <3> HIDE DEF ts
    <3> QED
      BY <1>5, <3>1
  <2>9. l.tables = ts /\ m1.tables = ts
    BY <2>3, <2>4, <2>6
  <2> HIDE DEF ts
  <2>10. Seeing(l)
    <3>1. l.strayed = FALSE
      BY <2>3, <2>4, <2>6, <2>7, <2>8, <2>9 DEF Seeing
    <3>2. \A z \in DOMAIN l.tables : Visible(pfn(l.tables[z]))
      BY <2>7, <2>8, <2>9 DEF Seeing
    <3> QED
      BY <3>1, <3>2 DEF Seeing
  <2> QED
    BY <1>1, <1>3, <1>5, <2>3, <2>4, <2>6, <2>8, <2>9, <2>10 DEF l, t
<1> QED
  BY <1>4, <1>5

-----------------------------------------------------------------------------
(* The tables up to a frame.                                                *)

LEMMA DivideUp ==
  ASSUME NEW d \in Nat \ {0}, NEW x \in Nat, NEW y \in Nat, x <= y
  PROVE  x \div d \in Nat /\ y \div d \in Nat /\ x \div d <= y \div d
<1> DEFINE a == x \div d
           b == y \div d
           r == x % d
           s == y % d
<1>1. /\ a \in Nat /\ b \in Nat /\ x = d * a + r /\ r \in 0 .. d - 1
      /\ y = d * b + s /\ s \in 0 .. d - 1
  OBVIOUS
<1> HIDE DEF a, b, r, s
<1>2. d * a = a * d /\ d * b = b * d /\ a * d \in Nat /\ b * d \in Nat
  BY <1>1
<1>3. a <= b
  <2> SUFFICES ASSUME b + 1 <= a PROVE FALSE
    BY <1>1
  <2>1. b + 1 \in Nat /\ d \in Nat
    BY <1>1
  <2>2. (b + 1) * d <= a * d
    BY <1>1, <2>1, Monotone
  <2>3. (b + 1) * d = b * d + d
    BY <1>1
  <2> QED
    BY <1>1, <1>2, <2>2, <2>3
<1> QED
  BY <1>1, <1>3 DEF a, b

LEMMA FrameUp ==
  ASSUME NEW x \in Nat, NEW y \in Nat, x <= y
  PROVE  pfn(x) <= pfn(y)
BY PageNat, DivideUp DEF pfn

(* The part of an area that the table of a frame on level n serves.         *)
Part(f, n) == f \div ENTRIES^(4 - n)

LEMMA PartUp ==
  ASSUME NEW x \in Nat, NEW y \in Nat, x <= y, NEW n \in 1 .. 3
  PROVE  Part(x, n) \in Nat /\ Part(y, n) \in Nat /\ Part(x, n) <= Part(y, n)
<1>1. 4 - n \in 1 .. 3
  OBVIOUS
<1> DEFINE d == ENTRIES^(4 - n)
<1>2. d \in Nat \ {0}
  BY <1>1, MapAssumption
<1> HIDE DEF d
<1>3. x \div d \in Nat /\ y \div d \in Nat /\ x \div d <= y \div d
  BY <1>2, DivideUp
<1> QED
  BY <1>3 DEF Part, d

LEMMA TablesAre ==
  ASSUME NEW f
  PROVE  TablesTo(f) = Part(f, 3) + Part(f, 2) + Part(f, 1)
<1>1. 4 - 3 = 1 /\ 4 - 2 = 2 /\ 4 - 1 = 3
  OBVIOUS
<1> QED
  BY <1>1 DEF TablesTo, Part

LEMMA TablesUp ==
  ASSUME NEW x \in Nat, NEW y \in Nat, x <= y
  PROVE  TablesTo(x) \in Nat /\ TablesTo(y) \in Nat /\ TablesTo(x) <= TablesTo(y)
<1>1. \A n \in 1 .. 3 : Part(x, n) \in Nat /\ Part(y, n) \in Nat /\ Part(x, n) <= Part(y, n)
  BY PartUp
<1>2. /\ TablesTo(x) = Part(x, 3) + Part(x, 2) + Part(x, 1)
      /\ TablesTo(y) = Part(y, 3) + Part(y, 2) + Part(y, 1)
  BY TablesAre
<1>3. /\ Part(x, 1) \in Nat /\ Part(y, 1) \in Nat /\ Part(x, 1) <= Part(y, 1)
      /\ Part(x, 2) \in Nat /\ Part(y, 2) \in Nat /\ Part(x, 2) <= Part(y, 2)
      /\ Part(x, 3) \in Nat /\ Part(y, 3) \in Nat /\ Part(x, 3) <= Part(y, 3)
  BY <1>1
<1> QED
  BY <1>2, <1>3

(* The loop that maps frames comes to the next page of the allocator before *)
(* it needs it for a table.                                                 *)
Base == TablesTo(BootMapped - 1)

LEMMA NextVisible ==
  ASSUME AreasWhole, Sorted, TablesNear, Sound, pc = "direct", refused = {},
         pos \in DOMAIN Visits, Visits[pos][2] \in Nat,
         NEW r, NEW cs, cs \in Seq(Nat), NoneSkipped(r, cs), Chunk(r.start),
         Len(cs) + Base < TablesTo(pfn(Visits[pos][2]))
  PROVE  Visible(pfn(r.start))
<1> DEFINE c == pfn(r.start)
           f == pfn(Visits[pos][2])
           k == Cardinality(UsableBefore(map, c))
<1>1. /\ r.start \in Nat /\ c \in Nat /\ f \in Nat /\ Len(cs) \in Nat
      /\ AreasInv /\ pc \notin Early /\ map \in Maps
      /\ r.start >= BootStart /\ r.start % PAGE_SIZE = 0 /\ Inside(r.start, PAGE_SIZE)
  <2>1. Len(cs) \in Nat
    OBVIOUS
  <2> QED
    BY <2>1, Frame DEF Chunk, Sound, AreasInv, Early
<1>2. BootMapped \in Nat \ {0}
  <2>1. BootStart - 1 \in Nat
    BY PageNat
  <2>2. pfn(BootStart - 1) \in Nat /\ pfn(BootStart - 1) < BootMapped /\ BootMapped \in Nat
    BY <2>1, Frame, MapAssumption DEF TablesNear
  <2> QED
    BY <2>2
<1>3. /\ \E p \in DOMAIN Visits : Visits[p][2] = r.start
      /\ Usable(map, c)
      /\ \E i \in DOMAIN map : c <= pfn(map[i].addr + map[i].len)
  BY <1>1, AreaVisited
<1>4. CASE c < BootMapped
  BY <1>4 DEF Visible
<1>5. CASE ~(c < BootMapped)
  <2>1. PICK i \in DOMAIN map : c <= pfn(map[i].addr + map[i].len)
    BY <1>3
  <2>2. pfn(map[i].addr + map[i].len) \in Nat
    <3>1. map \in Seq([addr : Nat, len : Nat, available : BOOLEAN])
      BY <1>1, MapAssumption
    <3>2. map[i] \in [addr : Nat, len : Nat, available : BOOLEAN]
      BY <3>1, Element
    <3>3. map[i].addr + map[i].len \in Nat
      BY <3>2
    <3> QED
      BY <3>3, Frame
  <2>3. c \in BootMapped .. pfn(map[i].addr + map[i].len)
    <3> DEFINE y == pfn(map[i].addr + map[i].len)
    <3>1. y \in Nat /\ c <= y
      BY <2>1, <2>2
    <3> HIDE DEF y, c
    <3> QED
      BY <1>1, <1>2, <1>5, <3>1 DEF y
  <2>4. TablesTo(c) <= Base + k
    BY <1>1, <1>3, <2>3 DEF TablesNear, Base
  <2>5. k <= Len(cs)
    BY <1>1, BeforeTaken
  <2>6. k \in Nat
    <3>1. IsFiniteSet(UsableBefore(map, c))
      <4> DEFINE x == pfn(BootStart)
      <4>0. x \in Nat
        BY PageNat, Frame
      <4>1. x \in Int /\ c - 1 \in Int
        <5>1. c \in Nat
          BY <1>1
        <5> HIDE DEF x, c
        <5> QED
          BY <4>0, <5>1
      <4> HIDE DEF x, c
      <4>2. IsFiniteSet(x .. c - 1)
        BY <4>1, FS_Interval
      <4>3. UsableBefore(map, c) \subseteq x .. c - 1
        BY DEF UsableBefore, x
      <4> QED
        BY <4>2, <4>3, FS_Subset
    <3> QED
      BY <3>1, FS_CardinalityType
  <2> HIDE DEF k, c, f
  <2>7. Base \in Nat
    <3>1. BootMapped - 1 \in Nat
      BY <1>2
    <3> QED
      BY <3>1, TablesUp DEF Base
  <2>8. TablesTo(c) \in Nat /\ TablesTo(f) \in Nat
    <3>1. c \in Nat /\ c <= c /\ f \in Nat /\ f <= f
      BY <1>1
    <3> QED
      BY ONLY <3>1, TablesUp
  <2>9. TablesTo(c) < TablesTo(f)
    <3>1. Len(cs) + Base < TablesTo(f)
      BY DEF f
    <3> QED
      BY <1>1, <2>4, <2>5, <2>6, <2>7, <2>8, <3>1
  <2>10. c < f
    <3> SUFFICES ASSUME f <= c PROVE FALSE
      BY <1>1
    <3>1. TablesTo(f) <= TablesTo(c)
      BY <1>1, TablesUp
    <3> QED
      BY <2>8, <2>9, <3>1
  <2>11. PICK p \in DOMAIN Visits : Visits[p][2] = r.start
    BY <1>3
  <2>12. p < pos
    <3> SUFFICES ASSUME ~(p < pos) PROVE FALSE
      OBVIOUS
    <3>1. p = pos \/ pos < p
      <4>1. Visits \in Seq((DOMAIN map) \X Nat)
        BY <1>1, VisitsAre
      <4>2. p \in Nat /\ pos \in Nat
        <5> DEFINE S == (DOMAIN map) \X Nat
        <5>1. Visits \in Seq(S)
          BY <4>1
        <5> HIDE DEF S, Visits
        <5> QED
          BY <5>1
      <4> QED
        BY <4>2
    <3>2. CASE p = pos
      BY <1>1, <2>10, <2>11, <3>2 DEF c, f
    <3>3. CASE pos < p
      <4>1. Visits[pos][2] < r.start
        BY <2>11, <3>3, Ascend
      <4>2. Visits[pos][2] <= r.start
        BY <1>1, <4>1
      <4>3. f <= c
        BY <1>1, <4>2, FrameUp DEF f, c
      <4> QED
        BY <1>1, <2>10, <4>3
    <3> QED
      BY <3>1, <3>2, <3>3
  <2>13. <<"direct", pfn(Visits[p][2])>> \in DOMAIN mapped
    BY <2>12 DEF Sound, LoopInv, Passed
  <2> QED
    BY <2>11, <2>13 DEF Visible, c
<1> QED
  BY <1>4, <1>5

(* Three levels that need no table, or have one visible for it.             *)
LEMMA LevelsMove ==
  ASSUME StartsAligned, AreasWhole, KernelInside, AreasInv, AreasSorted, NEW m, MOK(m),
         NoneSkipped(m.ram, m.chunks), Seeing(m), NEW v, NEW f, MapPage(m, v, f).refused = {},
         \/ \A n \in 1 .. 3 : TableOf(v, n) \in DOMAIN m.tables
         \/ \A a : Chunk(a) => Visible(pfn(a))
  PROVE  LET r == MapPage(m, v, f)
         IN  /\ NoneSkipped(r.ram, r.chunks) /\ Seeing(r)
             /\ DOMAIN m.tables \subseteq DOMAIN r.tables
             /\ (\A n \in 1 .. 3 : TableOf(v, n) \in DOMAIN m.tables) =>
                  Len(r.chunks) = Len(m.chunks) /\ DOMAIN r.tables = DOMAIN m.tables
<1> DEFINE l1 == Level(m, v, 1)
           l2 == Level(l1, v, 2)
           l3 == Level(l2, v, 3)
           r == MapPage(m, v, f)
           Has == \A n \in 1 .. 3 : TableOf(v, n) \in DOMAIN m.tables
           All == \A a : Chunk(a) => Visible(pfn(a))
<1>1. MOK(l1) /\ Grows(m, l1)
  BY LevelOK
<1> HIDE DEF l1
<1>2. MOK(l2) /\ Grows(l1, l2)
  BY <1>1, LevelOK
<1> HIDE DEF l2
<1>3. MOK(l3) /\ Grows(l2, l3)
  BY <1>2, LevelOK
<1>4. /\ r.ram = l3.ram /\ r.chunks = l3.chunks /\ r.refused = l3.refused
      /\ r.tables = l3.tables /\ r.strayed = l3.strayed
  BY <1>3, MapIs DEF MOK, l1, l2
<1>5. l3.refused = {}
  BY <1>4
<1> HIDE DEF l3, r
<1>6. l2.refused = {}
  BY <1>3, <1>5 DEF Grows
<1>7. l1.refused = {}
  BY <1>2, <1>6 DEF Grows
<1>8. 1 \in 1 .. 3 /\ 2 \in 1 .. 3 /\ 3 \in 1 .. 3
  OBVIOUS
<1>9. Has \/ All
  OBVIOUS
<1> HIDE DEF All
<1>11. /\ NoneSkipped(l1.ram, l1.chunks) /\ Seeing(l1)
       /\ DOMAIN l1.tables = DOMAIN m.tables \cup {TableOf(v, 1)}
       /\ Len(l1.chunks) = Len(m.chunks) + IF TableOf(v, 1) \in DOMAIN m.tables THEN 0 ELSE 1
       /\ Len(m.chunks) \in Nat
  <2>1. TableOf(v, 1) \notin DOMAIN m.tables /\ Chunk(m.ram.start) => Visible(pfn(m.ram.start))
    BY <1>8, <1>9 DEF All
  <2>2. Level(m, v, 1).refused = {}
    BY <1>7 DEF l1
  <2> HIDE DEF Has
  <2> DEFINE k == Level(m, v, 1)
             n == 1
  <2>3. /\ NoneSkipped(k.ram, k.chunks) /\ Seeing(k)
        /\ DOMAIN k.tables = DOMAIN m.tables \cup {TableOf(v, 1)}
        /\ Len(m.chunks) \in Nat
        /\ Len(k.chunks) = Len(m.chunks) + IF TableOf(v, 1) \in DOMAIN m.tables THEN 0 ELSE 1
    <3>1. TableOf(v, n) \notin DOMAIN m.tables /\ Chunk(m.ram.start) => Visible(pfn(m.ram.start))
      BY <2>1
    <3>2. Level(m, v, n).refused = {}
      BY <2>2
    <3> HIDE DEF n
    <3> DEFINE h == Level(m, v, n)
    <3>3. NoneSkipped(h.ram, h.chunks)
      BY <3>1, <3>2, LevelMoves
    <3>4. Seeing(h)
      BY <3>1, <3>2, LevelMoves
    <3>5. DOMAIN h.tables = DOMAIN m.tables \cup {TableOf(v, n)}
      BY <3>1, <3>2, LevelMoves
    <3>6. Len(m.chunks) \in Nat
      BY <3>1, <3>2, LevelMoves
    <3>7. Len(h.chunks) = Len(m.chunks) + IF TableOf(v, n) \in DOMAIN m.tables THEN 0 ELSE 1
      BY <3>1, <3>2, LevelMoves
    <3> HIDE DEF h
    <3> QED
      BY <3>3, <3>4, <3>5, <3>6, <3>7 DEF h, n
  <2> HIDE DEF k
  <2> QED
    BY <2>3 DEF k, l1
<1> HIDE DEF Has
<1>12. /\ NoneSkipped(l2.ram, l2.chunks) /\ Seeing(l2)
       /\ DOMAIN l2.tables = DOMAIN l1.tables \cup {TableOf(v, 2)}
       /\ Len(l2.chunks) = Len(l1.chunks) + IF TableOf(v, 2) \in DOMAIN l1.tables THEN 0 ELSE 1
  <2>1. TableOf(v, 2) \notin DOMAIN l1.tables /\ Chunk(l1.ram.start) => Visible(pfn(l1.ram.start))
    BY <1>8, <1>9, <1>11 DEF All, Has
  <2> QED
    BY <1>1, <1>6, <1>11, <2>1, LevelMoves DEF l2
<1>13. /\ NoneSkipped(l3.ram, l3.chunks) /\ Seeing(l3)
       /\ DOMAIN l3.tables = DOMAIN l2.tables \cup {TableOf(v, 3)}
       /\ Len(l3.chunks) = Len(l2.chunks) + IF TableOf(v, 3) \in DOMAIN l2.tables THEN 0 ELSE 1
  <2>1. TableOf(v, 3) \notin DOMAIN l2.tables /\ Chunk(l2.ram.start) => Visible(pfn(l2.ram.start))
    BY <1>8, <1>9, <1>11, <1>12 DEF All, Has
  <2> QED
    BY <1>2, <1>5, <1>12, <2>1, LevelMoves DEF l3
<1>14. Has => Len(r.chunks) = Len(m.chunks) /\ DOMAIN r.tables = DOMAIN m.tables
  <2> SUFFICES ASSUME Has PROVE Len(r.chunks) = Len(m.chunks) /\ DOMAIN r.tables = DOMAIN m.tables
    OBVIOUS
  <2> DEFINE T(n) == TableOf(v, n)
             n0 == Len(m.chunks)
  <2>0. T(1) \in DOMAIN m.tables /\ T(2) \in DOMAIN m.tables /\ T(3) \in DOMAIN m.tables
    BY <1>8 DEF Has
  <2> HIDE DEF T, n0
  <2>1. DOMAIN l1.tables = DOMAIN m.tables /\ Len(l1.chunks) = Len(m.chunks)
    BY <1>11, <2>0 DEF T, n0
  <2>2. DOMAIN l2.tables = DOMAIN m.tables /\ Len(l2.chunks) = Len(m.chunks)
    BY <1>11, <1>12, <2>0, <2>1 DEF T, n0
  <2>3. DOMAIN l3.tables = DOMAIN m.tables /\ Len(l3.chunks) = Len(m.chunks)
    BY <1>11, <1>13, <2>0, <2>2 DEF T, n0
  <2> QED
    BY <1>4, <2>3
<1>15. Seeing(r)
  BY <1>4, <1>13 DEF Seeing
<1> QED
  BY <1>4, <1>11, <1>12, <1>13, <1>14, <1>15 DEF r, Has

(* Where frame f is mapped, and what a call leaves.                         *)
Mapping(f) ==
  /\ StartsAligned /\ AreasWhole /\ KernelInside /\ Sorted /\ TablesNear
  /\ Sound /\ AreasSorted /\ pc = "direct" /\ refused = {}
  /\ pos \in DOMAIN Visits /\ Visits[pos][2] \in Nat
  /\ f \in Nat /\ f = pfn(Visits[pos][2]) /\ Base \in Nat
Sees(m) == MOK(m) /\ NoneSkipped(m.ram, m.chunks) /\ Seeing(m)

(* One level, for a frame f behind the last one, L, that needed a table.    *)
Within(cs, X, f, n) == Len(cs) + Base <= X + Part(f, n)
Fits(X, f, n)       == X + Part(f, n) <= TablesTo(f)

LEMMA LevelCounts ==
  ASSUME NEW f, Mapping(f), NEW L \in Nat, L <= f, NEW m, Sees(m), NEW n \in 1 .. 3,
         NEW X \in Nat, Within(m.chunks, X, L, n), Fits(X, f, n),
         NEW v, v = <<"direct", f>>, NEW w, w = <<"direct", L>>,
         TableOf(w, n) \in DOMAIN m.tables, Level(m, v, n).refused = {}
  PROVE  LET l == Level(m, v, n)
         IN  /\ Sees(l)
             /\ DOMAIN l.tables = DOMAIN m.tables \cup {TableOf(v, n)}
             /\ Within(l.chunks, X, f, n)
             /\ Len(l.chunks) \in Nat
<1> DEFINE t == TableOf(v, n)
           l == Level(m, v, n)
           x == Part(L, n)
           y == Part(f, n)
           c == Len(m.chunks)
<1>0. /\ StartsAligned /\ AreasWhole /\ KernelInside /\ Sorted /\ TablesNear
      /\ Sound /\ AreasSorted /\ pc = "direct" /\ refused = {}
      /\ pos \in DOMAIN Visits /\ Visits[pos][2] \in Nat
      /\ f \in Nat /\ f = pfn(Visits[pos][2]) /\ Base \in Nat
      /\ MOK(m) /\ NoneSkipped(m.ram, m.chunks) /\ Seeing(m)
  BY DEF Mapping, Sees
<1>1. x \in Nat /\ y \in Nat /\ x <= y
  BY <1>0, PartUp
<1>2. m.chunks \in Seq(Nat) /\ c \in Nat
  <2>1. m.chunks \in Seq(Nat)
    BY <1>0 DEF MOK, RamOK
  <2> QED
    BY <2>1
<1>3. t = <<"direct", n, y>> /\ TableOf(w, n) = <<"direct", n, x>>
  BY DEF TableOf, Part
<1>4. TablesTo(f) \in Nat
  BY <1>0, TablesUp
<1>5. t \notin DOMAIN m.tables => x + 1 <= y
  <2> SUFFICES ASSUME t \notin DOMAIN m.tables PROVE x # y
    <3> HIDE DEF x, y, t
    <3> QED
      BY <1>1
  <2> QED
    BY <1>3
<1> HIDE DEF x, y
<1>6. t \notin DOMAIN m.tables => c + Base < TablesTo(f)
  <2> HIDE DEF t, c
  <2>1. c + Base <= X + x /\ X + y <= TablesTo(f)
    BY DEF c, x, y, Within, Fits
  <2> QED
    BY <1>0, <1>1, <1>2, <1>4, <1>5, <2>1
<1>7. t \notin DOMAIN m.tables /\ Chunk(m.ram.start) => Visible(pfn(m.ram.start))
  <2> SUFFICES ASSUME t \notin DOMAIN m.tables, Chunk(m.ram.start) PROVE Visible(pfn(m.ram.start))
    OBVIOUS
  <2>1. Len(m.chunks) + Base < TablesTo(pfn(Visits[pos][2]))
    BY <1>0, <1>6
  <2> QED
    BY <1>0, <1>2, <2>1, NextVisible
<1>8. /\ MOK(l) /\ NoneSkipped(l.ram, l.chunks) /\ Seeing(l)
      /\ DOMAIN l.tables = DOMAIN m.tables \cup {t}
      /\ Len(l.chunks) = c + IF t \in DOMAIN m.tables THEN 0 ELSE 1
  <2>1. AreasInv
    BY <1>0 DEF Sound
  <2> QED
    BY <1>0, <1>7, <2>1, LevelMoves
<1>9. Len(l.chunks) \in Nat /\ Len(l.chunks) + Base <= X + y
  <2> DEFINE d == Len(l.chunks)
  <2>1. d = c + IF t \in DOMAIN m.tables THEN 0 ELSE 1
    BY <1>8
  <2>2. c + Base <= X + x
    BY DEF x, Within
  <2> HIDE DEF d, c, t
  <2> QED
    BY <1>0, <1>1, <1>2, <1>5, <2>1, <2>2 DEF d
<1> HIDE DEF l, t
<1> QED
  BY <1>8, <1>9 DEF l, t, y, Within, Sees

(* What is known while frames are mapped: L is the last frame that needed a *)
(* table, or the last one the boot stage has mapped, and no table is for a  *)
(* frame behind it.                                                         *)
Counted(cs, ts, L) == /\ Len(cs) + Base <= TablesTo(L)
                      /\ \A n \in 1 .. 3 : TableOf(<<"direct", L>>, n) \in DOMAIN ts

LEMMA DirectCounts ==
  ASSUME NEW f, Mapping(f), NEW L \in Nat, L <= f, NEW m, Sees(m),
         Counted(m.chunks, m.tables, L),
         NEW a, MapPage(m, <<"direct", f>>, a).refused = {}
  PROVE  LET r == MapPage(m, <<"direct", f>>, a)
         IN  /\ NoneSkipped(r.ram, r.chunks) /\ Seeing(r)
             /\ DOMAIN m.tables \subseteq DOMAIN r.tables
             /\ Counted(r.chunks, r.tables, f)
<1> DEFINE v == <<"direct", f>>
           w == <<"direct", L>>
           l1 == Level(m, v, 1)
           l2 == Level(l1, v, 2)
           l3 == Level(l2, v, 3)
           r == MapPage(m, v, a)
           x1 == Part(L, 1)
           x2 == Part(L, 2)
           x3 == Part(L, 3)
           y1 == Part(f, 1)
           y2 == Part(f, 2)
           y3 == Part(f, 3)
<1>0. StartsAligned /\ AreasInv /\ f \in Nat /\ Base \in Nat /\ MOK(m)
  BY DEF Mapping, Sees, Sound
<1>1. MOK(l1) /\ Grows(m, l1)
  BY <1>0, LevelOK
<1> HIDE DEF l1
<1>2. MOK(l2) /\ Grows(l1, l2)
  BY <1>0, <1>1, LevelOK
<1> HIDE DEF l2
<1>3. MOK(l3) /\ Grows(l2, l3)
  BY <1>0, <1>2, LevelOK
<1>4. /\ r.ram = l3.ram /\ r.chunks = l3.chunks /\ r.refused = l3.refused
      /\ r.tables = l3.tables /\ r.strayed = l3.strayed
  BY <1>3, MapIs DEF MOK, l1, l2
<1>5. l3.refused = {}
  BY <1>4
<1> HIDE DEF l3, r
<1>6. l2.refused = {}
  BY <1>3, <1>5 DEF Grows
<1>7. l1.refused = {}
  BY <1>2, <1>6 DEF Grows
<1>8. 1 \in 1 .. 3 /\ 2 \in 1 .. 3 /\ 3 \in 1 .. 3
  OBVIOUS
<1>9. /\ x1 \in Nat /\ y1 \in Nat /\ x1 <= y1
      /\ x2 \in Nat /\ y2 \in Nat /\ x2 <= y2
      /\ x3 \in Nat /\ y3 \in Nat /\ x3 <= y3
  BY <1>0, <1>8, PartUp
<1>10. TablesTo(L) = x3 + x2 + x1 /\ TablesTo(f) = y3 + y2 + y1
  BY TablesAre
<1>11. /\ Len(m.chunks) + Base <= TablesTo(L)
       /\ TableOf(w, 1) \in DOMAIN m.tables
       /\ TableOf(w, 2) \in DOMAIN m.tables
       /\ TableOf(w, 3) \in DOMAIN m.tables
  BY <1>8 DEF Counted
<1>12. Len(m.chunks) \in Nat
  <2>1. m.chunks \in Seq(Nat)
    BY <1>0 DEF MOK, RamOK
  <2> QED
    BY <2>1
<1> HIDE DEF x1, x2, x3, y1, y2, y3
<1>vw. v = <<"direct", f>> /\ w = <<"direct", L>>
  OBVIOUS
<1> HIDE DEF v, w
<1>13. /\ Sees(l1)
       /\ DOMAIN l1.tables = DOMAIN m.tables \cup {TableOf(v, 1)}
       /\ Len(l1.chunks) + Base <= (x2 + x3) + y1
       /\ Len(l1.chunks) \in Nat
  <2> DEFINE X == x2 + x3
             n == 1
  <2>1. X \in Nat /\ X + y1 <= TablesTo(f)
    BY <1>9, <1>10
  <2>2. Len(m.chunks) + Base <= X + x1
    <3> DEFINE c == Len(m.chunks)
    <3>1. c \in Nat /\ c + Base <= x3 + x2 + x1
      BY <1>10, <1>11, <1>12
    <3> HIDE DEF c
    <3>2. c + Base <= X + x1
      BY <1>0, <1>9, <3>1
    <3> QED
      BY <3>2 DEF c
  <2> HIDE DEF X
  <2>3. /\ n \in 1 .. 3 /\ Within(m.chunks, X, L, n) /\ Fits(X, f, n)
        /\ TableOf(w, n) \in DOMAIN m.tables /\ Level(m, v, n).refused = {}
    BY <1>7, <1>8, <1>11, <2>1, <2>2 DEF x1, y1, l1, Within, Fits
  <2> HIDE DEF n
  <2>4. LET l == Level(m, v, n)
        IN  /\ Sees(l)
            /\ DOMAIN l.tables = DOMAIN m.tables \cup {TableOf(v, n)}
            /\ Within(l.chunks, X, f, n)
            /\ Len(l.chunks) \in Nat
    BY <1>vw, <2>1, <2>3, LevelCounts
  <2> QED
    BY <2>4 DEF X, n, l1, y1, Within
<1>14. /\ Sees(l2)
       /\ DOMAIN l2.tables = DOMAIN l1.tables \cup {TableOf(v, 2)}
       /\ Len(l2.chunks) + Base <= (y1 + x3) + y2
       /\ Len(l2.chunks) \in Nat
  <2> DEFINE X == y1 + x3
             n == 2
  <2>1. X \in Nat /\ X + y2 <= TablesTo(f)
    BY <1>9, <1>10
  <2>2. Len(l1.chunks) + Base <= X + x2
    <3> DEFINE c == Len(l1.chunks)
    <3>1. c \in Nat /\ c + Base <= (x2 + x3) + y1
      BY <1>13
    <3> HIDE DEF c
    <3>2. c + Base <= X + x2
      BY <1>0, <1>9, <3>1
    <3> QED
      BY <3>2 DEF c
  <2> HIDE DEF X
  <2>3. /\ n \in 1 .. 3 /\ Within(l1.chunks, X, L, n) /\ Fits(X, f, n)
        /\ TableOf(w, n) \in DOMAIN l1.tables /\ Level(l1, v, n).refused = {}
    BY <1>6, <1>8, <1>11, <1>13, <2>1, <2>2 DEF x2, y2, l2, Within, Fits
  <2> HIDE DEF n
  <2>4. LET l == Level(l1, v, n)
        IN  /\ Sees(l)
            /\ DOMAIN l.tables = DOMAIN l1.tables \cup {TableOf(v, n)}
            /\ Within(l.chunks, X, f, n)
            /\ Len(l.chunks) \in Nat
    BY <1>vw, <1>13, <2>1, <2>3, LevelCounts
  <2> QED
    BY <2>4 DEF X, n, l2, y2, Within
<1>15. /\ Sees(l3)
       /\ DOMAIN l3.tables = DOMAIN l2.tables \cup {TableOf(v, 3)}
       /\ Len(l3.chunks) + Base <= (y1 + y2) + y3
       /\ Len(l3.chunks) \in Nat
  <2> DEFINE X == y1 + y2
             n == 3
  <2>1. X \in Nat /\ X + y3 <= TablesTo(f)
    BY <1>9, <1>10
  <2>2. Len(l2.chunks) + Base <= X + x3
    <3> DEFINE c == Len(l2.chunks)
    <3>1. c \in Nat /\ c + Base <= (y1 + x3) + y2
      BY <1>14
    <3> HIDE DEF c
    <3>2. c + Base <= X + x3
      BY <1>0, <1>9, <3>1
    <3> QED
      BY <3>2 DEF c
  <2> HIDE DEF X
  <2>3. /\ n \in 1 .. 3 /\ Within(l2.chunks, X, L, n) /\ Fits(X, f, n)
        /\ TableOf(w, n) \in DOMAIN l2.tables /\ Level(l2, v, n).refused = {}
    BY <1>5, <1>8, <1>11, <1>13, <1>14, <2>1, <2>2 DEF x3, y3, l3, Within, Fits
  <2> HIDE DEF n
  <2>4. LET l == Level(l2, v, n)
        IN  /\ Sees(l)
            /\ DOMAIN l.tables = DOMAIN l2.tables \cup {TableOf(v, n)}
            /\ Within(l.chunks, X, f, n)
            /\ Len(l.chunks) \in Nat
    BY <1>vw, <1>14, <2>1, <2>3, LevelCounts
  <2> QED
    BY <2>4 DEF X, n, l3, y3, Within
<1>16. Counted(r.chunks, r.tables, f)
  <2>1. Len(r.chunks) + Base <= TablesTo(f)
    <3> DEFINE c == Len(l3.chunks)
    <3>1. c \in Nat /\ c + Base <= (y1 + y2) + y3
      BY <1>15
    <3> HIDE DEF c
    <3>2. c + Base <= TablesTo(f)
      BY <1>0, <1>9, <1>10, <3>1
    <3> QED
      BY <1>4, <3>2 DEF c
  <2>2. /\ TableOf(v, 1) \in DOMAIN r.tables
        /\ TableOf(v, 2) \in DOMAIN r.tables
        /\ TableOf(v, 3) \in DOMAIN r.tables
    BY <1>4, <1>13, <1>14, <1>15
  <2>3. \A n \in 1 .. 3 : n = 1 \/ n = 2 \/ n = 3
    OBVIOUS
  <2> QED
    BY <2>1, <2>2, <2>3 DEF Counted, v
<1>17. Seeing(r)
  BY <1>4, <1>15 DEF Seeing, Sees
<1>18. NoneSkipped(r.ram, r.chunks)
  BY <1>4, <1>15 DEF Sees
<1> QED
  BY <1>4, <1>13, <1>14, <1>15, <1>16, <1>17, <1>18 DEF r, v

-----------------------------------------------------------------------------
(* What holds of the tables from the first step on.                         *)
Reached(L) == /\ L \in Nat /\ L >= BootMapped - 1
              /\ Counted(chunks, tables, L)
              /\ \A p \in DOMAIN Visits :
                   p >= pos => pfn(Visits[p][2]) < BootMapped \/ pfn(Visits[p][2]) >= L
TablesSeen == /\ strayed = FALSE
              /\ \A t \in DOMAIN tables : Visible(pfn(tables[t]))
              /\ \A g \in 0 .. BootMapped - 1, n \in 1 .. 3 :
                   TableOf(<<"direct", g>>, n) \in DOMAIN tables
ReachInv ==
  /\ TagInv
  /\ StartInv
  /\ refused = {} => TablesSeen
  /\ refused = {} /\ pc \in {"direct", "describe"} => NoneSkipped(ram, chunks)
  /\ refused = {} /\ pc = "direct" => \E L : Reached(L)

LEMMA SeenOn ==
  ASSUME TablesSeen, DOMAIN mapped \subseteq DOMAIN mapped', strayed' = FALSE,
         DOMAIN tables \subseteq DOMAIN tables',
         \A t \in DOMAIN tables' : Visible(pfn(tables'[t]))
  PROVE  TablesSeen'
<1>2. \A t \in DOMAIN tables' : \/ pfn(tables'[t]) < BootMapped
                                  \/ <<"direct", pfn(tables'[t])>> \in DOMAIN mapped'
  BY DEF Visible
<1>3. \A v, n : TableOf(v, n)' = TableOf(v, n)
  BY DEF TableOf
<1>4. (\A t \in DOMAIN tables : Visible(pfn(tables[t])))'
  BY <1>2 DEF pfn, Visible
<1> QED
  BY <1>3, <1>4 DEF TablesSeen

LEMMA MappedSome ==
  ASSUME TablesNear
  PROVE  BootMapped \in Nat \ {0} /\ BootMapped - 1 \in Nat /\ Base \in Nat
<1>1. BootStart - 1 \in Nat
  BY PageNat
<1>2. pfn(BootStart - 1) \in Nat /\ pfn(BootStart - 1) < BootMapped /\ BootMapped \in Nat
  BY <1>1, Frame, MapAssumption DEF TablesNear
<1>3. BootMapped \in Nat \ {0} /\ BootMapped - 1 \in Nat
  BY <1>2
<1> QED
  BY <1>3, TablesUp DEF Base

LEMMA ReachInit ==
  ASSUME TagsEnd, TablesNear, Init
  PROVE  ReachInv
<1>1. /\ mbi \in Tags /\ map \in Maps /\ pc = "tags" /\ pos = 8 /\ areas = <<>>
      /\ ram = [start |-> -1, end |-> 0, idx |-> 0] /\ strayed = FALSE
      /\ tables = [t \in {TableOf(<<"direct", f>>, n) : f \in 0 .. BootMapped - 1,
                                                        n \in 1 .. 3} |-> BootStart - 1]
  BY DEF Init
<1>2. TagInv
  <2>1. DOMAIN mbi = 1 .. Len(mbi) /\ Len(mbi) \in 1 .. 10 /\ Begin[1] = 8
    BY <1>1, TagIs, BeginStep
  <2>2. 1 \in DOMAIN mbi /\ NoMap(1)
    BY <2>1 DEF NoMap
  <2> QED
    BY <1>1, <2>1, <2>2 DEF TagInv
<1>3. StartInv
  BY <1>1 DEF StartInv, AreasSorted, Early
<1>4. TablesSeen
  <2>1. Visible(pfn(BootStart - 1))
    BY DEF Visible, TablesNear
  <2> DEFINE T == {TableOf(<<"direct", f>>, n) : f \in 0 .. BootMapped - 1, n \in 1 .. 3}
  <2>2. \A g \in 0 .. BootMapped - 1, n \in 1 .. 3 : TableOf(<<"direct", g>>, n) \in T
    OBVIOUS
  <2>3. tables = [t \in T |-> BootStart - 1]
    BY <1>1
  <2> HIDE DEF T
  <2>4. DOMAIN tables = T /\ \A t \in T : tables[t] = BootStart - 1
    BY <2>3
  <2> QED
    BY <1>1, <2>1, <2>2, <2>4 DEF TablesSeen
<1> QED
  BY <1>1, <1>2, <1>3, <1>4 DEF ReachInv

LEMMA ReachFind ==
  ASSUME TagsEnd, Sound, ReachInv, FindMap, StartInv'
  PROVE  ReachInv'
<1>1. TagInv' /\ strayed' = FALSE
  BY TagStep DEF Sound, ReachInv
<1>2. /\ tables' = tables /\ mapped' = mapped /\ refused' = refused
      /\ pc' \notin {"direct", "describe"}
  BY DEF FindMap
<1>3. refused' = {} => TablesSeen'
  <2> SUFFICES ASSUME refused' = {} PROVE TablesSeen'
    OBVIOUS
  <2>1. TablesSeen
    BY <1>2 DEF ReachInv
  <2>2. \A t \in DOMAIN tables' : Visible(pfn(tables'[t]))
    BY <1>2, <2>1 DEF TablesSeen
  <2> QED
    BY <1>1, <1>2, <2>1, <2>2, SeenOn
<1> QED
  BY <1>1, <1>2, <1>3 DEF ReachInv

LEMMA BeforeStart ==
  ASSUME StartsAligned, NEW g \in Nat, pfn(BootStart) <= g
  PROVE  ~(g * PAGE_SIZE < BootStart)
<1> DEFINE x == pfn(BootStart)
<1>1. x \in Nat /\ BootStart = x * PAGE_SIZE /\ PAGE_SIZE \in Nat /\ BootStart \in Nat
  BY PageNat, Frame DEF StartsAligned
<1>2. x <= g
  OBVIOUS
<1> HIDE DEF x
<1>3. x * PAGE_SIZE <= g * PAGE_SIZE /\ g * PAGE_SIZE \in Nat
  BY <1>1, <1>2, Monotone
<1> QED
  BY <1>1, <1>3

LEMMA ReachAnalyze ==
  ASSUME StartsAligned, KernelInside, TablesNear, Sound, ReachInv, Analyze,
         Sound', EndInv', StartInv'
  PROVE  ReachInv'
<1>1. /\ pc = "analyze" /\ pc' \in {"analyze", "direct"} /\ mbi' = mbi /\ map' = map
      /\ tables' = tables /\ mapped' = mapped /\ chunks' = chunks /\ refused' = refused
      /\ strayed' = strayed /\ refused = {} /\ (pc' = "direct" => pos' = 1)
      /\ ram' = ram \/ \E b : ram' = [ram EXCEPT !.start = BootStart, !.end = b]
  BY DEF Analyze, Iterate, past
<1>2. /\ TagInv /\ StartInv /\ TablesSeen
      /\ RamOK(ram, chunks) /\ chunks = <<>>
      /\ map \in Maps
  BY <1>1 DEF ReachInv, Sound, AreasInv, Early
<1>3. TagInv'
  BY <1>1, <1>2 DEF TagInv
<1>4. TablesSeen'
  <2>1. \A t \in DOMAIN tables' : Visible(pfn(tables'[t]))
    BY <1>1, <1>2 DEF TablesSeen
  <2>2. strayed' = FALSE
    BY <1>1, <1>2 DEF TablesSeen
  <2> QED
    BY <1>1, <1>2, <2>1, <2>2, SeenOn
<1>5. ASSUME pc' = "direct"
      PROVE  NoneSkipped(ram, chunks)'
  <2>1. ram'.idx = 0 /\ ram'.start \in {-1, BootStart}
    <3>1. /\ ram.idx = 0 /\ ram.start \in {-1, BootStart}
          /\ ram \in [start : Int, end : Nat, idx : Nat]
      BY <1>1, <1>2 DEF StartInv, Early, RamOK
    <3> QED
      BY <1>1, <3>1
  <2>2. /\ RamOK(ram, chunks)' /\ AreasInv' /\ Live(ram)'
        /\ PAGE_SIZE \in Nat \ {0, 1} /\ BootStart \in Nat \ {0}
    BY <1>5, PageNat DEF Sound, EndInv, Early
  <2>3. areas' \in Seq([start : Nat, end : Nat])
    BY <2>2 DEF AreasInv
  <2>4. ram'.start # -1
    <3> SUFFICES ASSUME ram'.start = -1 PROVE FALSE
      OBVIOUS
    <3>1. ram'.end = 0
      BY <2>2 DEF RamOK
    <3>2. Ahead(ram)' = {}
      BY <2>2, <3>1 DEF Live, AtEnd
    <3>3. PICK i \in DOMAIN map : map[i].available
      BY <1>2 DEF KernelInside, Kernel
    <3>4. PICK k \in DOMAIN areas' : TRUE
      BY <1>1, <1>5, <2>2, <3>3 DEF AreasInv, Seen
    <3>5. areas'[k] \in [start : Nat, end : Nat]
      BY <2>3, Element
    <3>6. k \in (ram'.idx + 1) .. Len(areas') /\ areas'[k].start >= ram'.end
      BY <2>1, <2>3, <3>1, <3>5
    <3> QED
      BY <3>2, <3>6 DEF Ahead
  <2>5. ram'.start = BootStart
    BY <2>1, <2>4
  <2>6. PICK k \in DOMAIN areas' : areas'[k].start <= ram'.start /\ ram'.end = areas'[k].end
    BY <2>2, <2>4 DEF RamOK
  <2>7. ram'.idx < k
    BY <2>1, <2>3, <2>6
  <2>8. \A g \in Nat : pfn(BootStart) <= g => ~(g * PAGE_SIZE < ram'.start)
    BY <2>5, BeforeStart
  <2>9. pfn(BootStart)' = pfn(BootStart)
    BY DEF pfn
  <2> QED
    BY <2>6, <2>7, <2>8, <2>9 DEF NoneSkipped
<1>6. ASSUME pc' = "direct"
      PROVE  Reached(BootMapped - 1)'
  <2>1. BootMapped \in Nat \ {0} /\ BootMapped - 1 \in Nat /\ Base \in Nat
    BY MappedSome
  <2>2. Counted(chunks', tables', BootMapped - 1)
    <3>1. Len(chunks') = 0
      BY <1>1, <1>2
    <3>2. Len(chunks') + Base <= TablesTo(BootMapped - 1)
      BY <2>1, <3>1 DEF Base
    <3>3. BootMapped - 1 \in 0 .. BootMapped - 1
      BY <2>1
    <3>4. \A n \in 1 .. 3 : TableOf(<<"direct", BootMapped - 1>>, n) \in DOMAIN tables
      BY <1>2, <3>3 DEF TablesSeen
    <3> QED
      BY <1>1, <3>2, <3>4 DEF Counted
  <2>3. \A p \in DOMAIN Visits : pfn(Visits[p][2]) < BootMapped \/ pfn(Visits[p][2]) >= BootMapped - 1
    <3> SUFFICES ASSUME NEW p \in DOMAIN Visits
                 PROVE  pfn(Visits[p][2]) < BootMapped \/ pfn(Visits[p][2]) >= BootMapped - 1
      OBVIOUS
    <3>1. Visits \in Seq((DOMAIN map) \X Nat)
      BY <1>2, VisitsAre
    <3> DEFINE z == Visits[p]
    <3>2. z \in (DOMAIN map) \X Nat
      BY <3>1, Element
    <3> HIDE DEF z
    <3>3. z[2] \in Nat
      BY <3>2
    <3>4. pfn(z[2]) \in Nat
      BY <3>3, Frame
    <3> DEFINE y == pfn(z[2])
    <3> HIDE DEF y
    <3>5. y < BootMapped \/ y >= BootMapped - 1
      BY <2>1, <3>4 DEF y
    <3> QED
      BY <3>5 DEF y, z
  <2>4. Visits' = Visits
    BY <1>1 DEF Visits
  <2>5. \A p \in DOMAIN Visits' :
          pfn(Visits'[p][2]) < BootMapped \/ pfn(Visits'[p][2]) >= BootMapped - 1
    BY <2>3, <2>4
  <2> HIDE DEF Visits
  <2> QED
    BY <2>1, <2>2, <2>5 DEF Reached, Counted, TableOf, Base, TablesTo, pfn
<1> QED
  BY <1>1, <1>3, <1>4, <1>5, <1>6 DEF ReachInv

LEMMA NowIs ==
  /\ Now.ram = ram /\ Now.tables = tables /\ Now.mapped = mapped
  /\ Now.chunks = chunks /\ Now.refused = refused /\ Now.strayed = strayed
BY DEF Now

LEMMA ReachDirect ==
  ASSUME StartsAligned, AreasWhole, Sorted, KernelInside, TablesNear, Sound, ReachInv,
         DirectMap, StartInv'
  PROVE  ReachInv'
<1> DEFINE f == pfn(Visits[pos][2])
           v == <<"direct", f>>
           a == f * PAGE_SIZE
           r == MapPage(Now, v, a)
<1>1. /\ Iterate("direct", Len(Visits), "describe") /\ Becomes(r)
      /\ mbi' = mbi /\ map' = map /\ areas' = areas
  BY DEF DirectMap
<1>2. /\ pc = "direct" /\ refused = {} /\ pos <= Len(Visits)
      /\ pc' \in {"direct", "describe"} /\ (pc' = "direct" => pos' = pos + 1)
  BY <1>1 DEF Iterate
<1>3. /\ DOMAIN Visits = 1 .. Len(Visits) /\ Len(Visits) \in Nat
      /\ pos \in DOMAIN Visits /\ pos \in Nat \ {0}
      /\ Visits[pos][2] \in Nat /\ f \in Nat
  BY <1>2, Visited
<1>4. /\ TagInv /\ StartInv /\ AreasSorted /\ AreasInv /\ TablesSeen
      /\ NoneSkipped(ram, chunks)
  BY <1>2 DEF ReachInv, StartInv, Sound
<1>5. PICK L : Reached(L)
  BY <1>2 DEF ReachInv
<1>6. BootMapped \in Nat \ {0} /\ BootMapped - 1 \in Nat /\ Base \in Nat
  BY MappedSome
<1>7. L \in Nat /\ Counted(chunks, tables, L) /\ (f < BootMapped \/ f >= L)
  <2>1. pos >= pos
    BY <1>3
  <2> QED
    BY <1>3, <1>5, <2>1 DEF Reached
<1>8. MOK(Now) /\ NoneSkipped(Now.ram, Now.chunks) /\ Seeing(Now) /\ Sees(Now)
  BY <1>4, NowOK, NowIs DEF Seeing, TablesSeen, Sees
<1>9. TagInv'
  BY <1>1, <1>2, <1>4 DEF TagInv
<1>10. ASSUME refused' = {}
       PROVE  /\ TablesSeen' /\ NoneSkipped(ram, chunks)'
              /\ pc' = "direct" => \E M : Reached(M)'
  <2>1. /\ ram' = r.ram /\ tables' = r.tables /\ mapped' = r.mapped /\ chunks' = r.chunks
        /\ strayed' = r.strayed /\ r.refused = {}
    BY <1>1, <1>10 DEF Becomes
  <2>2. DOMAIN mapped \subseteq DOMAIN mapped'
    <3>1. DOMAIN r.mapped = DOMAIN Now.mapped \cup {v}
      BY <1>3, <1>4, <1>8, MapDirectOK
    <3> HIDE DEF r
    <3> QED
      BY <2>1, <3>1, NowIs
  <2>3. \E M : /\ NoneSkipped(r.ram, r.chunks) /\ Seeing(r)
               /\ DOMAIN tables \subseteq DOMAIN r.tables
               /\ M \in Nat /\ M >= BootMapped - 1 /\ Counted(r.chunks, r.tables, M)
               /\ M = L \/ M = f
    <3>1. CASE f < BootMapped
      <4>1. \A n \in 1 .. 3 : TableOf(v, n) \in DOMAIN Now.tables
        <5>1. f \in 0 .. BootMapped - 1
          <6> HIDE DEF f
          <6> QED
            BY <1>3, <1>6, <3>1
        <5> HIDE DEF f
        <5> QED
          BY <1>4, <5>1, NowIs DEF TablesSeen
      <4> HIDE DEF v, a
      <4>2. /\ NoneSkipped(r.ram, r.chunks) /\ Seeing(r)
            /\ DOMAIN Now.tables \subseteq DOMAIN r.tables
            /\ Len(r.chunks) = Len(Now.chunks)
        BY <1>4, <1>8, <2>1, <4>1, LevelsMove
      <4> HIDE DEF r
      <4>3. Counted(r.chunks, r.tables, L)
        BY <1>7, <4>2, NowIs DEF Counted
      <4>4. L >= BootMapped - 1
        BY <1>5 DEF Reached
      <4> QED
        BY <1>7, <4>2, <4>3, <4>4, NowIs
    <3>2. CASE ~(f < BootMapped)
      <4> HIDE DEF f
      <4>1. L <= f /\ f >= BootMapped - 1
        BY <1>3, <1>6, <1>7, <3>2
      <4>2. Mapping(f)
        BY <1>2, <1>3, <1>4, <1>6 DEF Mapping, f
      <4>3. Counted(Now.chunks, Now.tables, L)
        BY <1>7, NowIs
      <4>4. MapPage(Now, <<"direct", f>>, a).refused = {}
        BY <2>1
      <4> HIDE DEF a
      <4>5. /\ NoneSkipped(r.ram, r.chunks) /\ Seeing(r)
            /\ DOMAIN Now.tables \subseteq DOMAIN r.tables
            /\ Counted(r.chunks, r.tables, f)
        BY <1>7, <1>8, <4>1, <4>2, <4>3, <4>4, DirectCounts
      <4> QED
        BY <1>3, <4>1, <4>5, NowIs
    <3> QED
      BY <3>1, <3>2
  <2> HIDE DEF r
  <2>4. PICK M : /\ NoneSkipped(r.ram, r.chunks) /\ Seeing(r)
                 /\ DOMAIN tables \subseteq DOMAIN r.tables
                 /\ M \in Nat /\ M >= BootMapped - 1 /\ Counted(r.chunks, r.tables, M)
                 /\ M = L \/ M = f
    BY <2>3
  <2>5. TablesSeen'
    <3>1. \A t \in DOMAIN tables' : Visible(pfn(tables'[t]))
      BY <2>1, <2>4 DEF Seeing
    <3>2. strayed' = FALSE
      BY <2>1, <2>4 DEF Seeing
    <3> QED
      BY <1>4, <2>1, <2>2, <2>4, <3>1, <3>2, SeenOn
  <2>6. NoneSkipped(ram, chunks)'
    BY <1>1, <2>1, <2>4 DEF NoneSkipped, Inside, Taken, pfn
  <2>7. ASSUME pc' = "direct"
        PROVE  Reached(M)'
    <3>1. Visits' = Visits /\ pos' = pos + 1
      BY <1>1, <1>2, <2>7 DEF Visits
    <3>2. \A p \in DOMAIN Visits :
            p >= pos + 1 => pfn(Visits[p][2]) < BootMapped \/ pfn(Visits[p][2]) >= M
      <4> SUFFICES ASSUME NEW p \in DOMAIN Visits, p >= pos + 1
                   PROVE  pfn(Visits[p][2]) < BootMapped \/ pfn(Visits[p][2]) >= M
        OBVIOUS
      <4>1. p \in Nat /\ p > pos /\ p >= pos
        <5>1. p \in 1 .. Len(Visits)
          BY <1>3
        <5> QED
          BY <1>3, <5>1
      <4>2. CASE M = L
        BY <1>5, <4>1, <4>2 DEF Reached
      <4>3. CASE M = f
        <5>1. Visits[pos][2] < Visits[p][2]
          BY <1>3, <4>1, Ascend
        <5>2. Visits[p][2] \in Nat
          <6>1. Visits \in Seq((DOMAIN map) \X Nat)
            BY <1>4, VisitsAre DEF AreasInv
          <6> DEFINE z == Visits[p]
          <6>2. z \in (DOMAIN map) \X Nat
            BY <6>1, Element
          <6> HIDE DEF z
          <6>3. z[2] \in Nat
            BY <6>2
          <6> QED
            BY <6>3 DEF z
        <5> DEFINE x == Visits[pos][2]
                   y == Visits[p][2]
        <5>3. x \in Nat /\ y \in Nat /\ x < y
          BY <1>3, <5>1, <5>2
        <5> HIDE DEF x, y
        <5>4. x <= y
          BY <5>3
        <5>5. pfn(x) <= pfn(y) /\ pfn(x) \in Nat /\ pfn(y) \in Nat
          BY <5>3, <5>4, FrameUp, Frame
        <5> DEFINE i == pfn(x)
                   j == pfn(y)
        <5> HIDE DEF i, j
        <5>6. j >= i
          BY <5>5 DEF i, j
        <5> QED
          BY <4>3, <5>6 DEF i, j, x, y
      <4> QED
        BY <2>4, <4>2, <4>3
    <3>3. \A p \in DOMAIN Visits' :
            p >= pos' => pfn(Visits'[p][2]) < BootMapped \/ pfn(Visits'[p][2]) >= M
      BY <3>1, <3>2
    <3>4. Counted(chunks', tables', M)
      BY <2>1, <2>4
    <3> HIDE DEF Visits
    <3> QED
      BY <2>4, <3>3, <3>4 DEF Reached, Counted, TableOf, Base, TablesTo, pfn
  <2> QED
    BY <2>5, <2>6, <2>7
<1> QED
  BY <1>2, <1>9, <1>10 DEF ReachInv

LEMMA ReachDescribe ==
  ASSUME StartsAligned, AreasWhole, KernelInside, Sound, EndInv, ReachInv,
         Describe, StartInv'
  PROVE  ReachInv'
<1> DEFINE f == pfn(Visits[pos][2])
           v == <<"array", f \div PER_PAGE>>
           p == Page(Now)
           r == MapPage(p, v, p.chunk)
<1>1. /\ Iterate("describe", Len(Visits), "give")
      /\ IF HasPage(v) THEN UNCHANGED <<ram, tables, mapped, past>> ELSE Becomes(r)
      /\ mbi' = mbi /\ map' = map /\ areas' = areas
  BY DEF Describe
<1>2. /\ pc = "describe" /\ refused = {} /\ pos <= Len(Visits)
      /\ pc' \in {"describe", "give"}
  BY <1>1 DEF Iterate
<1>3. /\ TagInv /\ StartInv /\ AreasSorted /\ AreasInv /\ TablesSeen
      /\ NoneSkipped(ram, chunks)
  BY <1>2 DEF ReachInv, StartInv, Sound
<1>4. TagInv'
  BY <1>1, <1>2, <1>3 DEF TagInv
<1>5. MOK(Now) /\ NoneSkipped(Now.ram, Now.chunks) /\ Seeing(Now) /\ Ends(Now)
  <2>1. Live(ram) /\ \A q \in refused : AtEnd(q)
    BY <1>2 DEF EndInv, Early
  <2> QED
    BY <1>3, <2>1, NowOK, NowIs DEF Seeing, TablesSeen, Ends
<1>6. \A c : Chunk(c) => Visible(pfn(c))
  <2> SUFFICES ASSUME NEW c, Chunk(c) PROVE Visible(pfn(c))
    OBVIOUS
  <2>1. PICK q \in DOMAIN Visits : Visits[q][2] = c
    BY <1>2, <1>3, AreaVisited DEF Chunk, Early
  <2>2. <<"direct", pfn(Visits[q][2])>> \in DOMAIN mapped
    BY <1>2 DEF Sound, LoopInv, Passed
  <2> QED
    BY <2>1, <2>2 DEF Visible
<1>7. ASSUME refused' = {}
      PROVE  TablesSeen' /\ NoneSkipped(ram, chunks)'
  <2>1. CASE HasPage(v)
    <3>1. /\ ram' = ram /\ tables' = tables /\ mapped' = mapped /\ chunks' = chunks
          /\ strayed' = strayed
      BY <1>1, <2>1 DEF past
    <3>2. \A t \in DOMAIN tables' : Visible(pfn(tables'[t]))
      BY <1>3, <3>1 DEF TablesSeen
    <3>3. strayed' = FALSE
      BY <1>3, <3>1 DEF TablesSeen
    <3>4. TablesSeen'
      BY <1>3, <3>1, <3>2, <3>3, SeenOn
    <3>5. NoneSkipped(ram, chunks)'
      BY <1>1, <1>3, <3>1 DEF NoneSkipped, Inside, Taken, pfn
    <3> QED
      BY <3>4, <3>5
  <2>2. CASE ~HasPage(v)
    <3>1. /\ ram' = r.ram /\ tables' = r.tables /\ mapped' = r.mapped /\ chunks' = r.chunks
          /\ strayed' = r.strayed /\ r.refused = {}
      BY <1>1, <1>7, <2>2 DEF Becomes
    <3>2. MOK(p)
      BY <1>3, <1>5, PageEnds
    <3>3. p.mapped = mapped
      BY <1>3, <1>5, NowIs, PageOK DEF MOK
    <3> HIDE DEF p
    <3>4. /\ p.refused = {} /\ DOMAIN r.mapped = DOMAIN mapped \cup {v}
      <4> DEFINE l1 == Level(p, v, 1)
                 l2 == Level(l1, v, 2)
                 l3 == Level(l2, v, 3)
      <4>1. MOK(l3) /\ Grows(p, l3) /\ l3.mapped = p.mapped
        BY <1>3, <3>2, LevelsOK
      <4>2. r.refused = l3.refused /\ r.mapped = Update(l3.mapped, v, p.chunk)
        <5> HIDE DEF v
        <5> QED
          BY <4>1, MapIs DEF MOK
      <4> HIDE DEF l3, r, v
      <4> QED
        BY <3>1, <3>3, <4>1, <4>2 DEF Grows, Update
    <3>5. /\ NoneSkipped(p.ram, p.chunks) /\ p.tables = tables /\ p.strayed = strayed
      BY <1>3, <1>5, <3>4, NowIs, PageMoves DEF p
    <3>6. Seeing(p)
      BY <1>3, <3>5 DEF Seeing, TablesSeen
    <3> DEFINE z == p.chunk
    <3> HIDE DEF v, z
    <3>7. MapPage(p, v, z).refused = {}
      BY <3>1 DEF z
    <3>8. LET k == MapPage(p, v, z)
          IN  /\ NoneSkipped(k.ram, k.chunks) /\ Seeing(k)
              /\ DOMAIN p.tables \subseteq DOMAIN k.tables
      BY <1>3, <1>6, <3>2, <3>5, <3>6, <3>7, LevelsMove
    <3>9. /\ NoneSkipped(r.ram, r.chunks) /\ Seeing(r)
          /\ DOMAIN tables \subseteq DOMAIN r.tables
      BY <3>5, <3>8 DEF z
    <3> HIDE DEF r
    <3>10. TablesSeen'
      <4>1. \A t \in DOMAIN tables' : Visible(pfn(tables'[t]))
        BY <3>1, <3>9 DEF Seeing
      <4>2. strayed' = FALSE
        BY <3>1, <3>9 DEF Seeing
      <4>3. DOMAIN mapped \subseteq DOMAIN mapped' /\ DOMAIN tables \subseteq DOMAIN tables'
        BY <3>1, <3>4, <3>9
      <4> QED
        BY <1>3, <4>1, <4>2, <4>3, SeenOn
    <3>11. NoneSkipped(ram, chunks)'
      BY <1>1, <3>1, <3>9 DEF NoneSkipped, Inside, Taken, pfn
    <3> QED
      BY <3>10, <3>11
  <2> QED
    BY <2>1, <2>2
<1> QED
  BY <1>2, <1>4, <1>7 DEF ReachInv

LEMMA ReachStutter ==
  ASSUME ReachInv, UNCHANGED vars
  PROVE  ReachInv'
<1>1. /\ mbi' = mbi /\ map' = map /\ pc' = pc /\ pos' = pos /\ areas' = areas /\ ram' = ram
      /\ tables' = tables /\ mapped' = mapped /\ chunks' = chunks /\ refused' = refused
      /\ strayed' = strayed
  BY DEF vars, past
<1>2. TagInv'
  <2>1. Begin' = Begin
    BY <1>1 DEF Begin, Size
  <2> QED
    BY <1>1, <2>1 DEF ReachInv, TagInv, NoMap
<1>3. StartInv'
  BY <1>1 DEF ReachInv, StartInv, AreasSorted
<1>4. TablesSeen => TablesSeen'
  BY <1>1 DEF TablesSeen, Visible, TableOf, pfn
<1>5. NoneSkipped(ram, chunks) => NoneSkipped(ram, chunks)'
  BY <1>1 DEF NoneSkipped, Inside, Taken, pfn
<1>6. \A L : Reached(L) => Reached(L)'
  <2>1. Visits' = Visits
    BY <1>1 DEF Visits
  <2> HIDE DEF Visits
  <2> QED
    BY <1>1, <2>1 DEF Reached, Counted, TableOf, Base, TablesTo, pfn
<1> QED
  BY <1>1, <1>2, <1>3, <1>4, <1>5, <1>6 DEF ReachInv

LEMMA ReachGive ==
  ASSUME ReachInv, Give, StartInv'
  PROVE  ReachInv'
<1>1. /\ mbi' = mbi /\ tables' = tables /\ mapped' = mapped /\ refused' = refused
      /\ strayed' = strayed /\ pc' \in {"give", "done"}
  BY DEF Give, Iterate, past
<1>2. TagInv'
  BY <1>1 DEF ReachInv, TagInv
<1>3. TablesSeen => TablesSeen'
  BY <1>1 DEF TablesSeen, Visible, TableOf, pfn
<1> QED
  BY <1>1, <1>2, <1>3 DEF ReachInv

LEMMA ReachStep ==
  ASSUME StartsAligned, AreasWhole, Sorted, KernelInside, TagsEnd, TablesNear,
         Sound, EndInv, ReachInv, Next, Sound', EndInv'
  PROVE  ReachInv'
<1>1. StartInv'
  BY StartStep DEF Sound, ReachInv
<1>2. CASE FindMap
  BY <1>1, <1>2, ReachFind
<1>3. CASE Analyze
  BY <1>1, <1>3, ReachAnalyze
<1>4. CASE DirectMap
  BY <1>1, <1>4, ReachDirect
<1>5. CASE Describe
  BY <1>1, <1>5, ReachDescribe
<1>6. CASE Give
  BY <1>1, <1>6, ReachGive
<1>7. CASE Done
  <2>1. UNCHANGED vars
    BY <1>7 DEF Done
  <2> QED
    BY <2>1, ReachStutter
<1> QED
  BY <1>2, <1>3, <1>4, <1>5, <1>6, <1>7 DEF Next

(* As long as no request is refused, a page table is written where it is    *)
(* mapped already, and tags are read only where one begins; the machine     *)
(* hangs only if there is no memory map.  For maps in order, of whole pages,*)
(* with the kernel in an area, for tags that end, and where the boot stage  *)
(* has mapped enough.                                                       *)
THEOREM SpecNeverStrays ==
  ASSUME StartsAligned, AreasWhole, Sorted, KernelInside, TagsEnd, TablesNear
  PROVE  Spec => []NeverStrays
<1>1. Init => EndInv /\ ReachInv
  <2>1. Init => EndInv
    BY DEF Init, EndInv, Early
  <2> QED
    BY <2>1, ReachInit
<1>2. EndInv /\ ReachInv /\ Sound /\ Sound' /\ [Next]_vars => EndInv' /\ ReachInv'
  <2>1. ASSUME EndInv, ReachInv, Sound, Sound', Next
        PROVE  EndInv' /\ ReachInv'
    <3>1. EndInv'
      BY <2>1, EndStep
    <3> QED
      BY <2>1, <3>1, ReachStep
  <2>2. ASSUME EndInv, ReachInv, UNCHANGED vars
        PROVE  EndInv' /\ ReachInv'
    <3>1. EndInv'
      BY <2>2 DEF vars, past, EndInv, KernelFound, Live, AtEnd, Ahead, Early
    <3> QED
      BY <2>2, <3>1, ReachStutter
  <2> QED
    BY <2>1, <2>2
<1>3. ReachInv => NeverStrays
  BY DEF ReachInv, TablesSeen, TagInv, NeverStrays
<1> QED
  BY <1>1, <1>2, <1>3, AlwaysSound, PTL DEF Spec
=============================================================================
