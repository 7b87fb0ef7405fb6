--------------------------- MODULE PageTableProof ---------------------------
(***************************************************************************)
(* Proofs about PageTable, for tables of any size, any allocator and any   *)
(* pages: the tables are a tree at every step of every call, a lookup      *)
(* finds what was mapped last, and the tables implement AddressSpace.      *)
(*                                                                         *)
(* The first half is about any memory m that holds a tree of tables under  *)
(* Root; the second half is the invariant of the calls.                    *)
(***************************************************************************)
EXTENDS PageTable, SequenceTheorems, TLAPS

Memory == [Frames -> [Idx -> Entry]]
Pages  == Idx \X Idx \X Idx \X Idx

(* PageTable's Edges, Reach, Upper and TablesAreTree, for a memory m and    *)
(* the frames tk that are taken.                                            *)
EdgesIn(m, F) == {x \in F \X Idx : m[x[1]][x[2]] # Empty}
ReachIn(m, F) == {m[x[1]][x[2]].addr : x \in EdgesIn(m, F)}
Second(m)  == ReachIn(m, {Root})
Third(m)   == ReachIn(m, Second(m))
Leaves(m)  == ReachIn(m, Third(m))
UpperIn(m) == {Root} \cup Second(m) \cup Third(m)
TreeIn(m, tk) ==
  /\ \A x, y \in EdgesIn(m, UpperIn(m)) :
       x # y => m[x[1]][x[2]].addr # m[y[1]][y[2]].addr
  /\ ReachIn(m, UpperIn(m)) \subseteq tk \ {Root}

(* Where a call is: at the table its walk has come to.                      *)
Path ==
  /\ level = 0 => table = Root
  /\ level = 1 => table = Root
  /\ level = 2 => /\ pgd(mem, Root, want.va) # Empty
                  /\ table = pgd(mem, Root, want.va).addr
  /\ level = 3 => /\ pgd(mem, Root, want.va) # Empty
                  /\ pud(mem, Root, want.va) # Empty
                  /\ table = pud(mem, Root, want.va).addr
  /\ level = 4 => /\ Walkable(mem, Root, want.va)
                  /\ table = pmd(mem, Root, want.va).addr

(* What its caller has seen to.                                             *)
Guarded ==
  level # 0 =>
    /\ want.pa = Zero <=> want.va \in ZeroVas
    /\ \A z \in ZeroVas \ {want.va} :
         SubSeq(z, 1, 3) = SubSeq(want.va, 1, 3) => asked[z] # Nothing

AskedOK == \A va \in Vas : asked[va] = Nothing \/ asked[va].pa \in Targets

Agree == \A va \in Vas : (level # 0 => want.va # va) => Lookup(va) = asked[va].pa

Tree == Root \in taken /\ taken \subseteq Tables /\ TreeIn(mem, taken)

IInv == TypeOK /\ AskedOK /\ (Running => Tree /\ Path /\ Guarded /\ Agree)

-----------------------------------------------------------------------------
(* Trees of tables.                                                         *)

LEMMA InReach ==
  ASSUME NEW m, NEW F, NEW f
  PROVE  f \in ReachIn(m, F) <=> \E t \in F, i \in Idx : m[t][i] # Empty /\ f = m[t][i].addr
<1>1. ASSUME NEW t \in F, NEW i \in Idx, m[t][i] # Empty, f = m[t][i].addr
      PROVE  f \in ReachIn(m, F)
  <2>1. <<t, i>> \in EdgesIn(m, F)
    BY <1>1 DEF EdgesIn
  <2> QED
    BY <1>1, <2>1 DEF ReachIn
<1>2. ASSUME f \in ReachIn(m, F)
      PROVE  \E t \in F, i \in Idx : m[t][i] # Empty /\ f = m[t][i].addr
  <2>1. PICK x \in EdgesIn(m, F) : f = m[x[1]][x[2]].addr
    BY <1>2 DEF ReachIn
  <2> QED
    BY <2>1 DEF EdgesIn
<1> QED
  BY <1>1, <1>2

(* A tree, edge by edge.                                                    *)
LEMMA TreeEdges ==
  ASSUME NEW m, NEW tk
  PROVE  TreeIn(m, tk) <=>
           /\ \A t, u \in UpperIn(m), i, j \in Idx :
                /\ m[t][i] # Empty /\ m[u][j] # Empty
                /\ m[t][i].addr = m[u][j].addr
                => t = u /\ i = j
           /\ \A t \in UpperIn(m), i \in Idx :
                m[t][i] # Empty => m[t][i].addr \in tk /\ m[t][i].addr # Root
<1>1. \A t \in UpperIn(m), i \in Idx : m[t][i] # Empty =>
        <<t, i>> \in EdgesIn(m, UpperIn(m)) /\ m[t][i].addr \in ReachIn(m, UpperIn(m))
  BY InReach DEF EdgesIn
<1>2. \A x \in EdgesIn(m, UpperIn(m)) :
        x = <<x[1], x[2]>> /\ x[1] \in UpperIn(m) /\ x[2] \in Idx /\ m[x[1]][x[2]] # Empty
  BY DEF EdgesIn
<1>3. ASSUME TreeIn(m, tk), NEW t \in UpperIn(m), NEW u \in UpperIn(m), NEW i \in Idx, NEW j \in Idx,
             m[t][i] # Empty, m[u][j] # Empty, m[t][i].addr = m[u][j].addr
      PROVE  t = u /\ i = j
  <2> DEFINE x == <<t, i>>
             y == <<u, j>>
  <2>1. x \in EdgesIn(m, UpperIn(m)) /\ y \in EdgesIn(m, UpperIn(m))
    BY <1>1, <1>3
  <2>2. x[1] = t /\ x[2] = i /\ y[1] = u /\ y[2] = j
    OBVIOUS
  <2> HIDE DEF x, y
  <2>3. x = y
    BY <1>3, <2>1, <2>2 DEF TreeIn
  <2> QED
    BY <2>2, <2>3
<1>4. ASSUME TreeIn(m, tk), NEW t \in UpperIn(m), NEW i \in Idx, m[t][i] # Empty
      PROVE  m[t][i].addr \in tk /\ m[t][i].addr # Root
  BY <1>1, <1>4 DEF TreeIn
<1>5. ASSUME \A t, u \in UpperIn(m), i, j \in Idx :
                /\ m[t][i] # Empty /\ m[u][j] # Empty
                /\ m[t][i].addr = m[u][j].addr
                => t = u /\ i = j,
             \A t \in UpperIn(m), i \in Idx :
                m[t][i] # Empty => m[t][i].addr \in tk /\ m[t][i].addr # Root
      PROVE  TreeIn(m, tk)
  <2>1. ReachIn(m, UpperIn(m)) \subseteq tk \ {Root}
    BY <1>5, InReach
  <2>2. ASSUME NEW x \in EdgesIn(m, UpperIn(m)), NEW y \in EdgesIn(m, UpperIn(m)), x # y
        PROVE  m[x[1]][x[2]].addr # m[y[1]][y[2]].addr
    BY <1>2, <1>5, <2>2
  <2> QED
    BY <2>1, <2>2 DEF TreeIn
<1> QED
  BY <1>3, <1>4, <1>5

(* The levels of a tree have no table in common.                            *)
LEMMA Levels ==
  ASSUME NEW m, NEW tk, TreeIn(m, tk)
  PROVE  /\ Root \notin Second(m) /\ Root \notin Third(m) /\ Root \notin Leaves(m)
         /\ \A f \in Second(m) : f \in tk /\ f \notin Third(m) /\ f \notin Leaves(m)
         /\ \A f \in Third(m) : f \in tk /\ f \notin Leaves(m)
         /\ \A f \in Leaves(m) : f \in tk /\ f \notin UpperIn(m)
<1>1. /\ \A f : f \in Second(m) <=> \E i \in Idx : m[Root][i] # Empty /\ f = m[Root][i].addr
      /\ \A f : f \in Third(m) <=>
           \E t \in Second(m), i \in Idx : m[t][i] # Empty /\ f = m[t][i].addr
      /\ \A f : f \in Leaves(m) <=>
           \E t \in Third(m), i \in Idx : m[t][i] # Empty /\ f = m[t][i].addr
  BY InReach DEF Second, Third, Leaves
<1>2. Root \in UpperIn(m) /\ Second(m) \subseteq UpperIn(m) /\ Third(m) \subseteq UpperIn(m)
  BY DEF UpperIn
<1>3. \A t, u \in UpperIn(m), i, j \in Idx :
        /\ m[t][i] # Empty /\ m[u][j] # Empty /\ m[t][i].addr = m[u][j].addr
        => t = u /\ i = j
  BY TreeEdges
<1>4. \A t \in UpperIn(m), i \in Idx :
        m[t][i] # Empty => m[t][i].addr \in tk /\ m[t][i].addr # Root
  BY TreeEdges
<1>5. Root \notin Second(m) /\ Root \notin Third(m) /\ Root \notin Leaves(m)
  BY <1>1, <1>2, <1>4
<1>6. \A f \in Second(m) : f \notin Third(m)
  BY <1>1, <1>2, <1>3, <1>5
<1>7. \A f \in Second(m) : f \notin Leaves(m)
  BY <1>1, <1>2, <1>3, <1>5
<1>8. \A f \in Third(m) : f \notin Leaves(m)
  BY <1>1, <1>2, <1>3, <1>6
<1>9. /\ \A f \in Second(m) : f \in tk
      /\ \A f \in Third(m) : f \in tk
      /\ \A f \in Leaves(m) : f \in tk
  BY <1>1, <1>2, <1>4
<1> QED
  BY <1>5, <1>6, <1>7, <1>8, <1>9 DEF UpperIn

(* A frame that is not taken is no table of the tree.                       *)
LEMMA TreeTaken ==
  ASSUME NEW m, NEW tk, TreeIn(m, tk), Root \in tk
  PROVE  UpperIn(m) \subseteq tk /\ Leaves(m) \subseteq tk
BY Levels DEF UpperIn

(* The entries of a walk lead to the levels of the tree.                    *)
LEMMA Nodes ==
  ASSUME NEW m, NEW va \in Pages
  PROVE  /\ pgd(m, Root, va) # Empty => pgd(m, Root, va).addr \in Second(m)
         /\ pgd(m, Root, va) # Empty /\ pud(m, Root, va) # Empty
              => pud(m, Root, va).addr \in Third(m)
         /\ Walkable(m, Root, va) => pmd(m, Root, va).addr \in Leaves(m)
<1>1. va[1] \in Idx /\ va[2] \in Idx /\ va[3] \in Idx
  BY DEF Pages
<1>2. ASSUME pgd(m, Root, va) # Empty
      PROVE  pgd(m, Root, va).addr \in Second(m)
  BY <1>1, <1>2, InReach DEF Second, pgd
<1>3. ASSUME pgd(m, Root, va) # Empty, pud(m, Root, va) # Empty
      PROVE  pud(m, Root, va).addr \in Third(m)
  BY <1>1, <1>2, <1>3, InReach DEF Third, pud
<1>4. ASSUME Walkable(m, Root, va)
      PROVE  pmd(m, Root, va).addr \in Leaves(m)
  BY <1>1, <1>3, <1>4, InReach DEF Leaves, pmd, Walkable
<1> QED
  BY <1>2, <1>3, <1>4

(* In a tree, walks that meet have come the same way.                       *)
LEMMA SameWay ==
  ASSUME NEW m, NEW tk, TreeIn(m, tk), NEW va \in Pages, NEW w \in Pages,
         pgd(m, Root, va) # Empty, pgd(m, Root, w) # Empty
  PROVE  /\ pgd(m, Root, va).addr = pgd(m, Root, w).addr => va[1] = w[1]
         /\ /\ pud(m, Root, va) # Empty /\ pud(m, Root, w) # Empty
            /\ pud(m, Root, va).addr = pud(m, Root, w).addr
            => va[1] = w[1] /\ va[2] = w[2]
         /\ /\ Walkable(m, Root, va) /\ Walkable(m, Root, w)
            /\ pmd(m, Root, va).addr = pmd(m, Root, w).addr
            => va[1] = w[1] /\ va[2] = w[2] /\ va[3] = w[3]
<1>1. /\ va[1] \in Idx /\ va[2] \in Idx /\ va[3] \in Idx
      /\ w[1] \in Idx /\ w[2] \in Idx /\ w[3] \in Idx
  BY DEF Pages
<1>2. \A t, u \in UpperIn(m), i, j \in Idx :
        /\ m[t][i] # Empty /\ m[u][j] # Empty /\ m[t][i].addr = m[u][j].addr
        => t = u /\ i = j
  BY TreeEdges
<1>3. Root \in UpperIn(m) /\ Second(m) \subseteq UpperIn(m) /\ Third(m) \subseteq UpperIn(m)
  BY DEF UpperIn
<1>4. pgd(m, Root, va).addr \in UpperIn(m) /\ pgd(m, Root, w).addr \in UpperIn(m)
  BY Nodes, <1>3
<1>5. ASSUME pgd(m, Root, va).addr = pgd(m, Root, w).addr PROVE va[1] = w[1]
  BY <1>1, <1>2, <1>3, <1>5 DEF pgd
<1>6. ASSUME pud(m, Root, va) # Empty, pud(m, Root, w) # Empty,
             pud(m, Root, va).addr = pud(m, Root, w).addr
      PROVE  va[1] = w[1] /\ va[2] = w[2]
  BY <1>1, <1>2, <1>4, <1>5, <1>6 DEF pud
<1>7. ASSUME Walkable(m, Root, va), Walkable(m, Root, w),
             pmd(m, Root, va).addr = pmd(m, Root, w).addr
      PROVE  va[1] = w[1] /\ va[2] = w[2] /\ va[3] = w[3]
  <2>1. pud(m, Root, va).addr \in UpperIn(m) /\ pud(m, Root, w).addr \in UpperIn(m)
    BY <1>7, Nodes, <1>3 DEF Walkable
  <2> QED
    BY <1>1, <1>2, <1>6, <1>7, <2>1 DEF pmd, Walkable
<1> QED
  BY <1>5, <1>6, <1>7

LEMMA Upto3 ==
  ASSUME NEW va \in Pages, NEW w \in Pages, va[1] = w[1], va[2] = w[2], va[3] = w[3]
  PROVE  SubSeq(va, 1, 3) = SubSeq(w, 1, 3)
<1>1. ASSUME NEW v \in Pages
      PROVE  /\ SubSeq(v, 1, 3) \in Seq(Idx) /\ Len(SubSeq(v, 1, 3)) = 3
             /\ \A k \in 1 .. 3 : SubSeq(v, 1, 3)[k] = v[k]
  <2>1. \A k \in 1 .. 3 : v[k] \in Idx
    BY DEF Pages
  <2>2. /\ SubSeq(v, 1, 3) \in Seq(Idx) /\ Len(SubSeq(v, 1, 3)) = 3 - 1 + 1
        /\ \A k \in 1 .. 3 - 1 + 1 : SubSeq(v, 1, 3)[k] = v[1 + k - 1]
    BY <2>1, SubSeqProperties
  <2> QED
    BY <2>2
<1> DEFINE x == SubSeq(va, 1, 3)
           y == SubSeq(w, 1, 3)
<1>2. /\ x \in Seq(Idx) /\ Len(x) = 3 /\ y \in Seq(Idx) /\ Len(y) = 3
      /\ \A k \in 1 .. 3 : x[k] = va[k] /\ y[k] = w[k]
  BY <1>1
<1> HIDE DEF x, y
<1>3. \A k \in 1 .. 3 : va[k] = w[k]
  OBVIOUS
<1>4. x = y
  BY <1>2, <1>3
<1> QED
  BY <1>4 DEF x, y

LEMMA SamePage ==
  ASSUME NEW va \in Pages, NEW w \in Pages,
         va[1] = w[1], va[2] = w[2], va[3] = w[3], va[4] = w[4]
  PROVE  va = w
BY DEF Pages

-----------------------------------------------------------------------------
(* Writes to the tables.                                                    *)

(* m1 is m with a cleared table f that the entry i of table t points to.    *)
Extended(m, m1, t, i, f, e) ==
  \A g \in Frames, j \in Idx :
    m1[g][j] = IF g = f THEN Empty ELSE IF g = t /\ j = i THEN e ELSE m[g][j]

(* m1 is m with the entry i of table t changed to e.                        *)
Written(m, m1, t, i, e) ==
  \A g \in Frames, j \in Idx :
    m1[g][j] = IF g = t /\ j = i THEN e ELSE m[g][j]

LEMMA EnsureExtends ==
  ASSUME NEW m \in Memory, NEW t \in Frames, NEW i \in Idx, NEW f \in Frames,
         NEW attr \in SUBSET RW, f # t, m[t][i] = Empty
  PROVE  /\ Ensure(m, t, i, f, attr) \in Memory
         /\ Extended(m, Ensure(m, t, i, f, attr), t, i, f, [addr |-> f, attr |-> attr])
<1> DEFINE m1 == [m EXCEPT ![t][i] = [addr |-> f, attr |-> {}]]
           m2 == [m1 EXCEPT ![f] = [j \in Idx |-> Empty]]
           m3 == [m2 EXCEPT ![t][i].attr = @ \cup attr]
<1>1. Ensure(m, t, i, f, attr) = m3
  BY DEF Ensure, Clear
<1>2. [addr |-> f, attr |-> {}] \in Entry /\ Empty \in Entry
      /\ [addr |-> f, attr |-> attr] \in Entry
  BY DEF Frames, Entry, Pas, Empty
<1>3. /\ m1 \in Memory
      /\ \A g \in Frames, j \in Idx :
           m1[g][j] = IF g = t /\ j = i THEN [addr |-> f, attr |-> {}] ELSE m[g][j]
  BY <1>2 DEF Memory
<1> HIDE DEF m1
<1>4. /\ m2 \in Memory
      /\ \A g \in Frames, j \in Idx : m2[g][j] = IF g = f THEN Empty ELSE m1[g][j]
  BY <1>2, <1>3 DEF Memory
<1> HIDE DEF m2
<1>5. m2[t][i] = [addr |-> f, attr |-> {}]
  BY <1>3, <1>4
<1>6. [m2[t][i] EXCEPT !.attr = @ \cup attr] = [addr |-> f, attr |-> attr]
  BY <1>5
<1>7. m3 = [m2 EXCEPT ![t] = [m2[t] EXCEPT ![i] = [addr |-> f, attr |-> attr]]]
  BY <1>6, <1>4 DEF Memory
<1> HIDE DEF m3
<1>8. /\ m3 \in Memory
      /\ \A g \in Frames, j \in Idx :
           m3[g][j] = IF g = t /\ j = i THEN [addr |-> f, attr |-> attr] ELSE m2[g][j]
  BY <1>2, <1>4, <1>7 DEF Memory
<1> QED
  BY <1>1, <1>3, <1>4, <1>8 DEF Extended

(* A tree with a new, empty table is a tree.                                *)
LEMMA ExtendTree ==
  ASSUME NEW m, NEW m1, NEW tk \in SUBSET Frames, NEW t, NEW i \in Idx, NEW f \in Frames, NEW e,
         TreeIn(m, tk), Root \in tk, f \notin tk, e # Empty, e.addr = f, m[t][i] = Empty,
         Extended(m, m1, t, i, f, e)
  PROVE  TreeIn(m1, tk \cup {f})
<1>1. /\ \A g : g \in Second(m1) <=> \E j \in Idx : m1[Root][j] # Empty /\ g = m1[Root][j].addr
      /\ \A g : g \in Third(m1) <=>
           \E u \in Second(m1), j \in Idx : m1[u][j] # Empty /\ g = m1[u][j].addr
      /\ \A j \in Idx : m[Root][j] # Empty => m[Root][j].addr \in Second(m)
      /\ \A u \in Second(m), j \in Idx : m[u][j] # Empty => m[u][j].addr \in Third(m)
  BY InReach DEF Second, Third
<1>2. UpperIn(m) \subseteq tk
  BY TreeTaken
<1>3. \A u \in UpperIn(m), j \in Idx :
        m1[u][j] = IF u = t /\ j = i THEN e ELSE m[u][j]
  BY <1>2 DEF Extended
<1>4. \A j \in Idx : m1[f][j] = Empty
  BY DEF Extended
<1>5. Second(m1) \subseteq Second(m) \cup {f}
  BY <1>1, <1>3 DEF UpperIn
<1>6. Third(m1) \subseteq Third(m) \cup {f}
  BY <1>1, <1>3, <1>4, <1>5 DEF UpperIn
<1>7. UpperIn(m1) \subseteq UpperIn(m) \cup {f}
  BY <1>5, <1>6 DEF UpperIn
<1>8. /\ \A u, v \in UpperIn(m), j, k \in Idx :
           /\ m[u][j] # Empty /\ m[v][k] # Empty /\ m[u][j].addr = m[v][k].addr
           => u = v /\ j = k
      /\ \A u \in UpperIn(m), j \in Idx :
           m[u][j] # Empty => m[u][j].addr \in tk /\ m[u][j].addr # Root
  BY TreeEdges
<1>9. \A u, v \in UpperIn(m1), j, k \in Idx :
        /\ m1[u][j] # Empty /\ m1[v][k] # Empty /\ m1[u][j].addr = m1[v][k].addr
        => u = v /\ j = k
  BY <1>3, <1>4, <1>7, <1>8
<1>10. \A u \in UpperIn(m1), j \in Idx :
         m1[u][j] # Empty => m1[u][j].addr \in tk \cup {f} /\ m1[u][j].addr # Root
  BY <1>3, <1>4, <1>7, <1>8
<1> QED
  BY <1>9, <1>10, TreeEdges

(* What a lookup finds then: what it found, or frame 0 in a new table of    *)
(* the last level.                                                          *)
LEMMA ExtendLookup ==
  ASSUME NEW m, NEW m1, NEW tk \in SUBSET Frames, NEW t \in UpperIn(m), NEW i \in Idx,
         NEW f \in Frames, NEW e, NEW va \in Pages,
         TreeIn(m, tk), Root \in tk, f \notin tk, e # Empty, e.addr = f, m[t][i] = Empty,
         Extended(m, m1, t, i, f, e)
  PROVE  \/ get_va_pte(m1, Root, va) = get_va_pte(m, Root, va)
         \/ /\ va \in ZeroVas
            /\ get_va_pte(m, Root, va) = None
            /\ pgd(m, Root, va) # Empty /\ pud(m, Root, va) # Empty
            /\ pud(m, Root, va).addr = t /\ va[3] = i
            /\ get_va_pte(m1, Root, va) = Zero
<1>1. va[1] \in Idx /\ va[2] \in Idx /\ va[3] \in Idx /\ va[4] \in Idx
  BY DEF Pages
<1>2. UpperIn(m) \subseteq tk /\ Leaves(m) \subseteq tk /\ t \notin Leaves(m)
  BY TreeTaken, Levels
<1>3. Root \in UpperIn(m) /\ Second(m) \subseteq UpperIn(m) /\ Third(m) \subseteq UpperIn(m)
  BY DEF UpperIn
<1>4. \A u \in tk, j \in Idx : m1[u][j] = IF u = t /\ j = i THEN e ELSE m[u][j]
  BY DEF Extended
<1>5. \A j \in Idx : m1[f][j] = Empty
  BY DEF Extended
<1>6. CASE Root = t /\ va[1] = i
  <2>1. pgd(m, Root, va) = Empty /\ pgd(m1, Root, va) = e
    BY <1>4, <1>6 DEF pgd
  <2>2. pud(m1, Root, va) = Empty
    BY <1>1, <1>5, <2>1 DEF pud
  <2> QED
    BY <2>1, <2>2 DEF get_va_pte, Walkable
<1>7. CASE ~(Root = t /\ va[1] = i)
  <2>1. pgd(m1, Root, va) = pgd(m, Root, va)
    BY <1>1, <1>4, <1>7 DEF pgd
  <2>2. CASE pgd(m, Root, va) = Empty
    BY <2>1, <2>2 DEF get_va_pte, Walkable
  <2>3. CASE pgd(m, Root, va) # Empty /\ pgd(m, Root, va).addr = t /\ va[2] = i
    <3>1. pud(m, Root, va) = Empty /\ pud(m1, Root, va) = e
      BY <1>1, <1>2, <1>4, <2>1, <2>3 DEF pud
    <3>2. pmd(m1, Root, va) = Empty
      BY <1>1, <1>5, <3>1 DEF pmd
    <3> QED
      BY <3>1, <3>2 DEF get_va_pte, Walkable
  <2>4. CASE pgd(m, Root, va) # Empty /\ ~(pgd(m, Root, va).addr = t /\ va[2] = i)
    <3>1. pgd(m, Root, va).addr \in tk
      BY <1>2, <1>3, <2>4, Nodes
    <3>2. pud(m1, Root, va) = pud(m, Root, va)
      BY <1>1, <1>4, <2>1, <2>4, <3>1 DEF pud
    <3>3. CASE pud(m, Root, va) = Empty
      BY <3>2, <3>3 DEF get_va_pte, Walkable
    <3>4. CASE pud(m, Root, va) # Empty /\ pud(m, Root, va).addr = t /\ va[3] = i
      <4>1. pmd(m, Root, va) = Empty /\ pmd(m1, Root, va) = e
        BY <1>1, <1>2, <1>4, <3>2, <3>4 DEF pmd
      <4>2. pte(m1, Root, va) = Empty
        BY <1>1, <1>5, <4>1 DEF pte
      <4>3. get_va_pte(m, Root, va) = None
        BY <4>1 DEF get_va_pte, Walkable
      <4>4. CASE va \in ZeroVas
        <5>1. get_va_pte(m1, Root, va) = Zero
          BY <2>1, <2>4, <3>2, <3>4, <4>1, <4>2, <4>4 DEF get_va_pte, Walkable, Empty
        <5> QED
          BY <2>4, <3>4, <4>3, <4>4, <5>1
      <4>5. CASE va \notin ZeroVas
        BY <4>2, <4>3, <4>5 DEF get_va_pte, Empty
      <4> QED
        BY <4>4, <4>5
    <3>5. CASE pud(m, Root, va) # Empty /\ ~(pud(m, Root, va).addr = t /\ va[3] = i)
      <4>1. pud(m, Root, va).addr \in tk
        BY <1>2, <1>3, <2>4, <3>5, Nodes
      <4>2. pmd(m1, Root, va) = pmd(m, Root, va)
        BY <1>1, <1>4, <3>2, <3>5, <4>1 DEF pmd
      <4>3. CASE pmd(m, Root, va) = Empty
        BY <4>2, <4>3 DEF get_va_pte, Walkable
      <4>4. CASE pmd(m, Root, va) # Empty
        <5>1. pmd(m, Root, va).addr \in Leaves(m)
          BY <2>4, <3>5, <4>4, Nodes DEF Walkable
        <5>2. pte(m1, Root, va) = pte(m, Root, va)
          BY <1>1, <1>2, <1>4, <4>2, <5>1 DEF pte
        <5> QED
          BY <2>1, <3>2, <4>2, <5>2 DEF get_va_pte, Walkable
      <4> QED
        BY <4>3, <4>4
    <3> QED
      BY <3>3, <3>4, <3>5
  <2> QED
    BY <2>2, <2>3, <2>4
<1> QED
  BY <1>6, <1>7

(* A write to a table of the last level leaves the tree as it is.           *)
LEMMA WriteTree ==
  ASSUME NEW m, NEW m1, NEW tk \in SUBSET Frames, NEW t \in Leaves(m), NEW i \in Idx, NEW e,
         TreeIn(m, tk), Root \in tk, Written(m, m1, t, i, e)
  PROVE  TreeIn(m1, tk)
<1>1. UpperIn(m) \subseteq tk /\ t \notin UpperIn(m)
  BY TreeTaken, Levels
<1>2. \A u \in UpperIn(m), j \in Idx : m1[u][j] = m[u][j]
  BY <1>1 DEF Written
<1>3. \A F \in SUBSET UpperIn(m) : ReachIn(m1, F) = ReachIn(m, F)
  <2>1. ASSUME NEW F \in SUBSET UpperIn(m), NEW g
        PROVE  g \in ReachIn(m1, F) <=> g \in ReachIn(m, F)
    BY <1>2, InReach
  <2> QED
    BY <2>1
<1>4. Second(m1) = Second(m)
  BY <1>3 DEF Second, UpperIn
<1>5. Third(m1) = Third(m)
  BY <1>3, <1>4 DEF Third, UpperIn
<1>6. UpperIn(m1) = UpperIn(m)
  BY <1>4, <1>5 DEF UpperIn
<1> QED
  BY <1>2, <1>6, TreeEdges

(* It changes the lookup of the page whose entry it is, and of no other.    *)
LEMMA WriteLookup ==
  ASSUME NEW m, NEW m1, NEW tk \in SUBSET Frames, NEW e, NEW w \in Pages, NEW va \in Pages,
         TreeIn(m, tk), Root \in tk, Walkable(m, Root, w),
         Written(m, m1, pmd(m, Root, w).addr, w[4], e)
  PROVE  /\ va # w => get_va_pte(m1, Root, va) = get_va_pte(m, Root, va)
         /\ e.addr # Zero \/ w \in ZeroVas => get_va_pte(m1, Root, w) = e.addr
<1> DEFINE t == pmd(m, Root, w).addr
<1>1. t \in Leaves(m)
  BY Nodes
<1>2. UpperIn(m) \subseteq tk /\ Leaves(m) \subseteq tk /\ t \notin UpperIn(m)
  BY <1>1, TreeTaken, Levels
<1>3. /\ \A u \in UpperIn(m), j \in Idx : m1[u][j] = m[u][j]
      /\ \A u \in Leaves(m), j \in Idx :
           m1[u][j] = IF u = t /\ j = w[4] THEN e ELSE m[u][j]
  BY <1>2 DEF Written
<1> HIDE DEF t
<1>4. ASSUME NEW v \in Pages
      PROVE  /\ pgd(m1, Root, v) = pgd(m, Root, v)
             /\ pgd(m, Root, v) # Empty => pud(m1, Root, v) = pud(m, Root, v)
             /\ pgd(m, Root, v) # Empty /\ pud(m, Root, v) # Empty
                  => pmd(m1, Root, v) = pmd(m, Root, v)
             /\ Walkable(m, Root, v) =>
                  pte(m1, Root, v) = IF pmd(m, Root, v).addr = t /\ v[4] = w[4]
                                     THEN e ELSE pte(m, Root, v)
  <2>1. v[1] \in Idx /\ v[2] \in Idx /\ v[3] \in Idx /\ v[4] \in Idx
    BY DEF Pages
  <2>2. Root \in UpperIn(m) /\ Second(m) \subseteq UpperIn(m) /\ Third(m) \subseteq UpperIn(m)
    BY DEF UpperIn
  <2>3. pgd(m1, Root, v) = pgd(m, Root, v)
    BY <1>3, <2>1, <2>2 DEF pgd
  <2>4. pgd(m, Root, v) # Empty => pud(m1, Root, v) = pud(m, Root, v)
    BY <1>3, <2>1, <2>2, <2>3, Nodes DEF pud
  <2>5. pgd(m, Root, v) # Empty /\ pud(m, Root, v) # Empty
          => pmd(m1, Root, v) = pmd(m, Root, v)
    BY <1>3, <2>1, <2>2, <2>4, Nodes DEF pmd
  <2>6. ASSUME Walkable(m, Root, v)
        PROVE  pte(m1, Root, v) = IF pmd(m, Root, v).addr = t /\ v[4] = w[4]
                                  THEN e ELSE pte(m, Root, v)
    <3>1. pmd(m, Root, v).addr \in Leaves(m) /\ pmd(m1, Root, v) = pmd(m, Root, v)
      BY <2>5, <2>6, Nodes DEF Walkable
    <3> QED
      BY <1>3, <2>1, <3>1 DEF pte
  <2> QED
    BY <2>3, <2>4, <2>5, <2>6
<1>5. ASSUME NEW v \in Pages
      PROVE  Walkable(m1, Root, v) <=> Walkable(m, Root, v)
  BY <1>4 DEF Walkable
<1>6. ASSUME va # w
      PROVE  get_va_pte(m1, Root, va) = get_va_pte(m, Root, va)
  <2>1. CASE ~Walkable(m, Root, va)
    BY <1>5, <2>1 DEF get_va_pte
  <2>2. CASE Walkable(m, Root, va)
    <3>1. ~(pmd(m, Root, va).addr = t /\ va[4] = w[4])
      BY <1>6, <2>2, SameWay, SamePage DEF t, Walkable
    <3>2. pte(m1, Root, va) = pte(m, Root, va)
      BY <1>4, <2>2, <3>1
    <3> QED
      BY <1>5, <3>2 DEF get_va_pte
  <2> QED
    BY <2>1, <2>2
<1>7. pte(m1, Root, w) = e
  BY <1>4 DEF t
<1> QED
  BY <1>5, <1>6, <1>7 DEF get_va_pte

-----------------------------------------------------------------------------
(* The calls.                                                               *)

(* PageTable's own words for the tree.                                      *)
LEMMA TreeIs ==
  /\ TablesAreTree <=> (Running => TreeIn(mem, taken))
  /\ LookupAgrees <=> (Running => Agree)
BY DEF TablesAreTree, TreeIn, Edges, Reach, Upper, EdgesIn, ReachIn, UpperIn, Second, Third,
       LookupAgrees, Agree

LEMMA Numbers ==
  /\ Zero \notin Tables /\ Tables \subseteq Frames /\ None \notin Targets
  /\ Targets \subseteq Pas /\ Vas \subseteq Pages
  /\ \A s \in Supplies : s.booting \in BOOLEAN /\ s.frames \subseteq Tables
  /\ Attrs \subseteq SUBSET RW
  /\ Root \in Tables /\ Empty \in Entry /\ NoCall.pa = None /\ Nothing.pa = None
  /\ Nothing \in [pa : Targets \cup {None}, attr : SUBSET RW]
<1>1. Zero \notin Tables /\ Tables \subseteq Frames /\ None \notin Targets
  BY TableAssumption, WalkAssumption DEF Zero, None, Frames
<1>2. Targets \subseteq Pas /\ Vas \subseteq Pages /\ Root \in Tables
  BY TableAssumption DEF Pas, Frames, Pages
<1>3. \A s \in Supplies : s.booting \in BOOLEAN /\ s.frames \subseteq Tables
  BY TableAssumption
<1>4. Attrs \subseteq SUBSET RW
  BY TableAssumption
<1>5. Empty \in Entry
  BY DEF Empty, Entry, Pas, Frames
<1>6. /\ NoCall.pa = None /\ Nothing.pa = None
      /\ Nothing \in [pa : Targets \cup {None}, attr : SUBSET RW]
  BY DEF NoCall, Nothing
<1> QED
  BY <1>1, <1>2, <1>3, <1>4, <1>5, <1>6

(* What is asked for during a call.                                         *)
LEMMA Wanted ==
  ASSUME TypeOK, level # 0
  PROVE  /\ want \in [va : Vas, pa : Targets, attr : SUBSET RW]
         /\ want.va \in Vas /\ want.va \in Pages /\ want.pa \in Targets /\ want.attr \in SUBSET RW
         /\ want.va[1] \in Idx /\ want.va[2] \in Idx /\ want.va[3] \in Idx /\ want.va[4] \in Idx
<1>1. want \in [va : Vas, pa : Targets, attr : SUBSET RW]
  BY DEF TypeOK
<1>2. want.va \in Vas /\ want.pa \in Targets /\ want.attr \in SUBSET RW
  BY <1>1
<1>3. want.va \in Pages
  BY <1>2, Numbers
<1> QED
  BY <1>1, <1>2, <1>3 DEF Pages

(* The table a call has come to.                                            *)
LEMMA AtTable ==
  ASSUME TypeOK, Tree, Path, level # 0
  PROVE  /\ table \in taken /\ table \in Frames
         /\ level = 1 => table = Root
         /\ level = 2 => table \in Second(mem)
         /\ level = 3 => table \in Third(mem)
         /\ level = 4 => table \in Leaves(mem)
         /\ level \in 1 .. 3 => table \in UpperIn(mem) /\ index \in Idx
<1>1. want.va \in Pages /\ want.va[1] \in Idx /\ want.va[2] \in Idx /\ want.va[3] \in Idx
  BY Wanted
<1>2. UpperIn(mem) \subseteq taken /\ Leaves(mem) \subseteq taken
  BY TreeTaken DEF Tree
<1>3. level \in 1 .. 4 /\ taken \subseteq Frames
  BY DEF TypeOK
<1>4. /\ level = 1 => table = Root
      /\ level = 2 => table \in Second(mem)
      /\ level = 3 => table \in Third(mem)
      /\ level = 4 => table \in Leaves(mem)
  BY <1>1, Nodes DEF Path
<1> QED
  BY <1>1, <1>2, <1>3, <1>4 DEF UpperIn, index

(* A lookup in the middle of a walk that has come to nothing.               *)
LEMMA NothingThere ==
  ASSUME TypeOK, Tree, Path, level \in 1 .. 3, mem[table][index] = Empty
  PROVE  Lookup(want.va) = None
<1>1. ~Walkable(mem, Root, want.va)
  <2>1. CASE level = 1
    BY <2>1 DEF Path, index, Walkable, pgd
  <2>2. CASE level = 2
    BY <2>2 DEF Path, index, Walkable, pud
  <2>3. CASE level = 3
    BY <2>3 DEF Path, index, Walkable, pmd
  <2> QED
    BY <2>1, <2>2, <2>3
<1> QED
  BY <1>1 DEF Lookup, get_va_pte

(* The types of a step that gives a frame of the allocator, or a NULL, to   *)
(* the call.                                                                *)
LEMMA ExtendTypes ==
  ASSUME IInv, NEW f \in Frames, Extend(f), f # table
  PROVE  /\ TypeOK' /\ AskedOK' /\ level' # 0
         /\ Extended(mem, mem', table, index, f, [addr |-> f, attr |-> want.attr])
<1>1. TypeOK /\ AskedOK /\ Tree /\ Path /\ level \in 1 .. 3 /\ mem[table][index] = Empty
  BY DEF IInv, Extend, Walking
<1>2. table \in Frames /\ index \in Idx /\ want.attr \in SUBSET RW
  BY <1>1, AtTable, Wanted
<1>3. mem \in Memory /\ mem' = Ensure(mem, table, index, f, want.attr)
  BY <1>1 DEF TypeOK, Memory, Extend
<1>4. /\ mem' \in Memory
      /\ Extended(mem, mem', table, index, f, [addr |-> f, attr |-> want.attr])
  BY <1>1, <1>2, <1>3, EnsureExtends
<1>5. TypeOK'
  BY <1>1, <1>4 DEF TypeOK, Memory, Extend
<1> QED
  BY <1>1, <1>4, <1>5 DEF AskedOK, Extend

(* What the new table does to the lookups.                                  *)
LEMMA ExtendOthers ==
  ASSUME IInv, NEW f \in Tables, f \notin taken, Extend(f), NEW va \in Vas
  PROVE  /\ va # want.va => Lookup(va)' = Lookup(va)
         /\ Lookup(va)' = Lookup(va) \/ Lookup(va)' = Zero
<1>1. /\ TypeOK /\ AskedOK /\ Tree /\ Path /\ Guarded /\ Agree
      /\ level \in 1 .. 3 /\ mem[table][index] = Empty
  BY DEF IInv, Extend, Walking
<1>2. /\ table \in UpperIn(mem) /\ table \in taken /\ index \in Idx
      /\ f \in Frames /\ f # table /\ taken \in SUBSET Frames
  BY <1>1, AtTable, Numbers DEF TypeOK
<1> DEFINE e == [addr |-> f, attr |-> want.attr]
<1>3. e # Empty /\ e.addr = f
  BY Numbers DEF Empty
<1>4. Extended(mem, mem', table, index, f, e)
  BY <1>2, ExtendTypes
<1>5. va \in Pages /\ Root \in taken /\ TreeIn(mem, taken)
  BY <1>1, Numbers DEF Tree
<1> HIDE DEF e
<1>6. \/ get_va_pte(mem', Root, va) = get_va_pte(mem, Root, va)
      \/ /\ va \in ZeroVas
         /\ get_va_pte(mem, Root, va) = None
         /\ pgd(mem, Root, va) # Empty /\ pud(mem, Root, va) # Empty
         /\ pud(mem, Root, va).addr = table /\ va[3] = index
         /\ get_va_pte(mem', Root, va) = Zero
  BY <1>1, <1>2, <1>3, <1>4, <1>5, ExtendLookup
<1>7. ASSUME va # want.va,
             va \in ZeroVas, get_va_pte(mem, Root, va) = None,
             pgd(mem, Root, va) # Empty, pud(mem, Root, va) # Empty,
             pud(mem, Root, va).addr = table, va[3] = index
      PROVE  FALSE
  <2>1. table \in Third(mem)
    BY <1>5, <1>7, Nodes
  <2>2. level = 3
    BY <1>1, <1>5, <2>1, AtTable, Levels
  <2>3. /\ want.va \in Pages /\ index = want.va[3]
        /\ pgd(mem, Root, want.va) # Empty /\ pud(mem, Root, want.va) # Empty
        /\ table = pud(mem, Root, want.va).addr
    BY <1>1, <2>2, Wanted DEF Path, index
  <2>4. va[1] = want.va[1] /\ va[2] = want.va[2] /\ va[3] = want.va[3]
    BY <1>5, <1>7, <2>3, SameWay
  <2>5. SubSeq(va, 1, 3) = SubSeq(want.va, 1, 3)
    BY <1>5, <2>3, <2>4, Upto3
  <2>6. asked[va] # Nothing
    BY <1>1, <1>7, <2>2, <2>5 DEF Guarded
  <2>7. asked[va].pa \in Targets
    BY <1>1, <2>6 DEF AskedOK
  <2>8. asked[va].pa = None
    BY <1>1, <1>7 DEF Agree, Lookup
  <2> QED
    BY <2>7, <2>8, Numbers
<1> QED
  BY <1>6, <1>7 DEF Lookup

(* The path of a call that a new table was made for.                        *)
LEMMA ExtendPath ==
  ASSUME IInv, NEW f \in Tables, f \notin taken, Extend(f)
  PROVE  Path'
<1>1. /\ TypeOK /\ Tree /\ Path /\ level \in 1 .. 3 /\ mem[table][index] = Empty
      /\ level' = level + 1 /\ table' = f /\ want' = want
  BY DEF IInv, Extend, Walking
<1>2. /\ table \in taken /\ index \in Idx /\ f \in Frames /\ f # table
      /\ taken \subseteq Frames /\ Root \in taken /\ TreeIn(mem, taken)
  BY <1>1, AtTable, Numbers DEF TypeOK, Tree
<1> DEFINE e == [addr |-> f, attr |-> want.attr]
<1>3. e # Empty /\ e.addr = f
  BY Numbers DEF Empty
<1>4. Extended(mem, mem', table, index, f, e)
  BY <1>2, ExtendTypes
<1> HIDE DEF e
<1>5. \A u \in taken, j \in Idx : mem'[u][j] = IF u = table /\ j = index THEN e ELSE mem[u][j]
  BY <1>2, <1>4 DEF Extended
<1>6. want.va \in Pages /\ want.va[1] \in Idx /\ want.va[2] \in Idx /\ want.va[3] \in Idx
  BY <1>1, Wanted
<1>7. CASE level = 1
  <2>1. pgd(mem', Root, want.va) = e
    BY <1>1, <1>2, <1>5, <1>6, <1>7 DEF Path, pgd, index
  <2> QED
    BY <1>1, <1>3, <1>7, <2>1 DEF Path
<1>8. CASE level = 2
  <2>1. table \in Second(mem) /\ table # Root /\ pgd(mem, Root, want.va) # Empty
        /\ table = pgd(mem, Root, want.va).addr /\ index = want.va[2]
    BY <1>1, <1>2, <1>8, AtTable, Levels DEF Path, index
  <2>2. pgd(mem', Root, want.va) = pgd(mem, Root, want.va)
    BY <1>2, <1>5, <1>6, <2>1 DEF pgd
  <2>3. pud(mem', Root, want.va) = e
    BY <1>2, <1>5, <1>6, <2>1, <2>2 DEF pud
  <2> QED
    BY <1>1, <1>3, <1>8, <2>1, <2>2, <2>3 DEF Path
<1>9. CASE level = 3
  <2>1. /\ table \in Third(mem) /\ table # Root /\ table \notin Second(mem)
        /\ pgd(mem, Root, want.va) # Empty /\ pud(mem, Root, want.va) # Empty
        /\ table = pud(mem, Root, want.va).addr /\ index = want.va[3]
    BY <1>1, <1>2, <1>9, AtTable, Levels DEF Path, index
  <2>2. pgd(mem', Root, want.va) = pgd(mem, Root, want.va)
    BY <1>2, <1>5, <1>6, <2>1 DEF pgd
  <2>3. pgd(mem, Root, want.va).addr \in Second(mem) /\ pgd(mem, Root, want.va).addr \in taken
    BY <1>2, <1>6, <2>1, Nodes, Levels
  <2>4. pud(mem', Root, want.va) = pud(mem, Root, want.va)
    BY <1>5, <1>6, <2>1, <2>2, <2>3 DEF pud
  <2>5. pmd(mem', Root, want.va) = e
    BY <1>2, <1>5, <1>6, <2>1, <2>4 DEF pmd
  <2> QED
    BY <1>1, <1>3, <1>9, <2>1, <2>2, <2>4, <2>5 DEF Path, Walkable
<1> QED
  BY <1>1, <1>7, <1>8, <1>9

LEMMA ExtendStep ==
  ASSUME IInv, NEW f \in Left, Extend(f)
  PROVE  IInv' /\ Running'
<1>1. /\ TypeOK /\ AskedOK /\ Tree /\ Path /\ Guarded /\ Agree /\ Running
      /\ level \in 1 .. 3 /\ mem[table][index] = Empty
  BY DEF IInv, Extend, Walking
<1>2. f \in Tables /\ f \notin taken /\ f \in Frames /\ f # table
  BY <1>1, AtTable, Numbers DEF Left, TypeOK
<1>3. TypeOK' /\ AskedOK' /\ level' # 0
  BY <1>2, ExtendTypes
<1>4. Running'
  BY <1>1, <1>2, Numbers DEF Running, Lost, Extend
<1>5. Tree'
  <2> DEFINE e == [addr |-> f, attr |-> want.attr]
  <2>1. e # Empty /\ e.addr = f
    BY <1>2, Numbers DEF Empty
  <2>2. Extended(mem, mem', table, index, f, e)
    BY <1>2, ExtendTypes
  <2> HIDE DEF e
  <2>3. taken \in SUBSET Frames /\ index \in Idx /\ Root \in taken /\ TreeIn(mem, taken)
    BY <1>1, AtTable DEF Tree, TypeOK
  <2>4. TreeIn(mem', taken \cup {f})
    BY <1>1, <1>2, <2>1, <2>2, <2>3, ExtendTree
  <2> QED
    BY <1>1, <1>2, <2>4 DEF Tree, Extend
<1>6. Path'
  BY <1>2, ExtendPath
<1>7. Guarded'
  BY <1>1 DEF Guarded, Extend
<1>8. Agree'
  <2>1. \A va \in Vas : va # want.va => Lookup(va)' = Lookup(va)
    BY <1>2, ExtendOthers
  <2> QED
    BY <1>1, <1>3, <2>1 DEF Agree, Extend
<1> QED
  BY <1>3, <1>4, <1>5, <1>6, <1>7, <1>8 DEF IInv

(* The copies whose allocator has nothing left.                             *)
LEMMA NoMemoryStep ==
  ASSUME IInv, NoMemory \/ NoMemoryAtBoot
  PROVE  IInv' /\ ~Running' /\ Running /\ Lookup(want.va) = None /\ level # 0
         /\ asked' = asked
<1>1. CASE NoMemory
  <2>1. /\ TypeOK /\ AskedOK /\ Tree /\ Path /\ level \in 1 .. 3 /\ Running
        /\ mem[table][index] = Empty
    BY <1>1 DEF IInv, NoMemory, Walking
  <2>2. mem' \in [Frames -> [Idx -> Entry]]
    <3>1. [addr |-> None, attr |-> RW] \in Entry
      BY DEF Entry
    <3>2. table \in Frames /\ index \in Idx
      BY <2>1, AtTable
    <3> QED
      BY <1>1, <2>1, <3>1, <3>2 DEF NoMemory, Fault, TypeOK
  <2>3. TypeOK' /\ AskedOK'
    BY <1>1, <2>1, <2>2 DEF NoMemory, TypeOK, AskedOK
  <2>4. ~Running'
    BY <1>1 DEF NoMemory, Running
  <2>5. Lookup(want.va) = None
    BY <2>1, NothingThere
  <2> QED
    BY <1>1, <2>1, <2>3, <2>4, <2>5 DEF IInv, NoMemory
<1>2. CASE NoMemoryAtBoot
  <2>1. /\ TypeOK /\ AskedOK /\ Tree /\ Path /\ level \in 1 .. 3 /\ Running
        /\ mem[table][index] = Empty /\ Extend(Zero)
    BY <1>2 DEF IInv, NoMemoryAtBoot, Extend, Walking
  <2>2. Zero \in Frames /\ Zero # table
    BY <2>1, AtTable, Numbers DEF Tree, Frames
  <2>3. TypeOK' /\ AskedOK'
    BY <2>1, <2>2, ExtendTypes
  <2>4. ~Running'
    BY <1>2, <2>1 DEF NoMemoryAtBoot, Extend, Running, Lost
  <2>5. Lookup(want.va) = None
    BY <2>1, NothingThere
  <2> QED
    BY <2>1, <2>3, <2>4, <2>5 DEF IInv, Extend
<1> QED
  BY <1>1, <1>2

LEMMA CallStep ==
  ASSUME IInv, NEW va \in Vas, NEW pa \in Targets, NEW attr \in Attrs, Call(va, pa, attr)
  PROVE  IInv'
<1>1. TypeOK /\ AskedOK /\ Tree /\ Path /\ Agree /\ Running /\ level = 0
  BY DEF IInv, Call
<1>2. attr \in SUBSET RW /\ pa # None
  BY Numbers
<1>3. /\ want' = [va |-> va, pa |-> pa, attr |-> attr] /\ level' = 1 /\ table' = table
      /\ mem' = mem /\ taken' = taken /\ asked' = asked /\ supply' = supply /\ halted' = halted
  BY DEF Call
<1>4. want' # NoCall
  BY <1>2, <1>3 DEF NoCall
<1>5. TypeOK' /\ AskedOK'
  BY <1>1, <1>2, <1>3, <1>4 DEF TypeOK, AskedOK
<1>6. Tree' /\ Path'
  BY <1>1, <1>3 DEF Tree, Path
<1>7. Guarded'
  BY <1>3 DEF Guarded, Call
<1>8. Agree'
  BY <1>1, <1>3 DEF Agree, Lookup
<1> QED
  BY <1>5, <1>6, <1>7, <1>8 DEF IInv

LEMMA DescendStep ==
  ASSUME IInv, Descend
  PROVE  IInv'
<1>1. /\ TypeOK /\ AskedOK /\ Tree /\ Path /\ Guarded /\ Agree /\ Running
      /\ level \in 1 .. 3 /\ mem[table][index] # Empty
  BY DEF IInv, Descend, Walking
<1>2. /\ level' = level + 1 /\ table' = mem[table][index].addr /\ want' = want
      /\ mem' = mem /\ taken' = taken /\ asked' = asked /\ supply' = supply /\ halted' = halted
  BY DEF Descend
<1>3. level' \in 2 .. 4
  BY <1>1, <1>2
<1>4. table' \in Frames
  <2>1. table \in UpperIn(mem) /\ index \in Idx
    BY <1>1, AtTable
  <2>2. table' \in taken
    BY <1>1, <1>2, <2>1, TreeEdges DEF Tree
  <2> QED
    BY <1>1, <2>2 DEF TypeOK
<1>5. TypeOK' /\ AskedOK'
  BY <1>1, <1>2, <1>3, <1>4 DEF TypeOK, AskedOK
<1>6. Path'
  <2>1. CASE level = 1
    BY <1>1, <1>2, <2>1 DEF Path, index, pgd
  <2>2. CASE level = 2
    BY <1>1, <1>2, <2>2 DEF Path, index, pud
  <2>3. CASE level = 3
    BY <1>1, <1>2, <2>3 DEF Path, index, pmd, Walkable
  <2> QED
    BY <1>1, <2>1, <2>2, <2>3
<1>7. Tree' /\ Guarded' /\ Agree'
  BY <1>1, <1>2, <1>3 DEF Tree, Guarded, Agree, Lookup
<1> QED
  BY <1>5, <1>6, <1>7 DEF IInv

LEMMA SetStep ==
  ASSUME IInv, Set, NEW w, w = want.va
  PROVE  /\ IInv' /\ Running /\ Running' /\ w \in Vas /\ want.pa \in Targets
         /\ \A va \in Vas : va # w => Lookup(va)' = Lookup(va)
         /\ Lookup(w)' = want.pa
<1>1. /\ TypeOK /\ AskedOK /\ Tree /\ Path /\ Guarded /\ Agree /\ Running /\ level = 4
  BY DEF IInv, Set
<1>2. /\ w \in Vas /\ w \in Pages /\ want.pa \in Targets
      /\ want.attr \in SUBSET RW /\ w[4] \in Idx
  BY <1>1, Wanted
<1> DEFINE e == [addr |-> want.pa, attr |-> want.attr]
<1>3. e \in Entry /\ e.addr = want.pa
  BY <1>2, Numbers DEF Entry
<1>4. mem' = [mem EXCEPT ![table][w[4]] = e]
  BY DEF Set
<1>5. table = pmd(mem, Root, w).addr /\ Walkable(mem, Root, w)
      /\ table \in Leaves(mem) /\ table \in Frames
  BY <1>1, AtTable DEF Path
<1> HIDE DEF e
<1>6. mem' \in Memory /\ Written(mem, mem', table, w[4], e)
  BY <1>1, <1>2, <1>3, <1>4, <1>5 DEF TypeOK, Memory, Written
<1>7. TreeIn(mem, taken) /\ Root \in taken /\ taken \in SUBSET Frames
  BY <1>1 DEF Tree, TypeOK
<1>8. /\ level' = 0 /\ table' = Root /\ want' = NoCall /\ taken' = taken
      /\ supply' = supply /\ halted' = halted
      /\ asked' = [asked EXCEPT ![w] = [pa |-> want.pa, attr |-> want.attr]]
  BY DEF Set, Return
<1>9. TypeOK' /\ AskedOK'
  <2>1. [pa |-> want.pa, attr |-> want.attr] \in [pa : Targets \cup {None}, attr : SUBSET RW]
    BY <1>2
  <2>2. asked' \in [Vas -> [pa : Targets \cup {None}, attr : SUBSET RW]]
    BY <1>1, <1>8, <2>1 DEF TypeOK
  <2>3. TypeOK'
    BY <1>1, <1>6, <1>8, <2>2, Numbers DEF TypeOK, Memory
  <2>4. AskedOK'
    BY <1>1, <1>2, <1>8 DEF AskedOK, TypeOK
  <2> QED
    BY <2>3, <2>4
<1>10. Tree'
  BY <1>1, <1>2, <1>5, <1>6, <1>7, <1>8, WriteTree DEF Tree
<1>11. ASSUME NEW va \in Vas, va # w
       PROVE  Lookup(va)' = Lookup(va)
  <2>1. va \in Pages
    BY Numbers
  <2>2. Written(mem, mem', pmd(mem, Root, w).addr, w[4], e)
    BY <1>5, <1>6
  <2>3. /\ va # w => get_va_pte(mem', Root, va) = get_va_pte(mem, Root, va)
        /\ e.addr # Zero \/ w \in ZeroVas => get_va_pte(mem', Root, w) = e.addr
    BY ONLY <1>2, <1>5, <1>7, <2>1, <2>2, WriteLookup
  <2> QED
    BY <1>11, <2>3 DEF Lookup
<1>12. Lookup(w)' = want.pa
  <2>1. e.addr # Zero \/ w \in ZeroVas
    BY <1>1, <1>3 DEF Guarded
  <2>2. get_va_pte(mem', Root, w) = e.addr
    BY <1>2, <1>5, <1>6, <1>7, <2>1, WriteLookup
  <2> QED
    BY <1>3, <2>2 DEF Lookup
<1>13. Agree'
  <2>1. ASSUME NEW va \in Vas
        PROVE  Lookup(va)' = asked'[va].pa
    <3>1. CASE va = w
      BY <1>1, <1>2, <1>8, <1>12, <3>1 DEF TypeOK
    <3>2. CASE va # w
      BY <1>1, <1>8, <1>11, <3>2 DEF Agree, TypeOK
    <3> QED
      BY <3>1, <3>2
  <2> QED
    BY <2>1 DEF Agree
<1>14. Path' /\ Guarded' /\ Running'
  BY <1>1, <1>8 DEF Path, Guarded, Running, Lost
<1> QED
  BY <1>1, <1>2, <1>9, <1>10, <1>11, <1>12, <1>13, <1>14 DEF IInv

LEMMA InitHolds ==
  ASSUME Init
  PROVE  IInv /\ Running /\ \A va \in Vas : Lookup(va) = None
<1>1. Root \in Frames /\ Root # Zero /\ Nothing.pa = None
  BY Numbers
<1>2. mem \in [Frames -> [Idx -> Entry]]
  BY Numbers, TableAssumption DEF Init
<1>3. TypeOK
  <2>1. asked \in [Vas -> [pa : Targets \cup {None}, attr : SUBSET RW]]
    BY Numbers DEF Init
  <2>2. supply \in Supplies /\ taken \subseteq Frames /\ table \in Frames /\ level = 0
        /\ want = NoCall /\ halted = FALSE
    BY <1>1 DEF Init
  <2>3. level \in 0 .. 4 /\ (level # 0 => want # NoCall)
    BY <2>2
  <2>4. want \in {NoCall} \cup [va : Vas, pa : Targets, attr : SUBSET RW]
    BY <2>2
  <2>5. halted \in BOOLEAN
    BY <2>2
  <2> QED
    BY <1>2, <2>1, <2>2, <2>3, <2>4, <2>5 DEF TypeOK
<1>4. AskedOK
  BY DEF Init, AskedOK
<1>5. \A j \in Idx : mem[Root][j] = Empty
  BY <1>1 DEF Init
<1>6. Tree
  <2>1. /\ \A f : f \in Second(mem) <=> \E j \in Idx : mem[Root][j] # Empty /\ f = mem[Root][j].addr
        /\ \A f : f \in Third(mem) <=>
             \E t \in Second(mem), j \in Idx : mem[t][j] # Empty /\ f = mem[t][j].addr
    BY InReach DEF Second, Third
  <2>2. UpperIn(mem) = {Root}
    BY <1>5, <2>1 DEF UpperIn
  <2>3. TreeIn(mem, taken)
    BY <1>5, <2>2, TreeEdges
  <2> QED
    BY <2>3, Numbers DEF Tree, Init
<1>7. \A va \in Vas : Lookup(va) = None
  <2>1. ASSUME NEW va \in Vas
        PROVE  Lookup(va) = None
    <3>1. va[1] \in Idx
      BY Numbers DEF Pages
    <3> QED
      BY <1>5, <3>1 DEF Lookup, get_va_pte, Walkable, pgd
  <2> QED
    BY <2>1
<1>8. Path /\ Guarded
  BY DEF Init, Path, Guarded
<1>9. Agree
  BY <1>1, <1>7 DEF Agree, Init
<1>10. Running
  BY <1>1 DEF Running, Lost, Init
<1> QED
  BY <1>3, <1>4, <1>6, <1>7, <1>8, <1>9, <1>10 DEF IInv

LEMMA StepHolds ==
  ASSUME IInv, [Next]_vars
  PROVE  IInv'
<1>1. ASSUME NEW va \in Vas, NEW pa \in Targets, NEW attr \in Attrs, Call(va, pa, attr)
      PROVE  IInv'
  BY <1>1, CallStep
<1>2. CASE Descend
  BY <1>2, DescendStep
<1>3. CASE NewTable
  BY <1>3, ExtendStep DEF NewTable
<1>4. CASE NewTableAtBoot
  BY <1>4, ExtendStep DEF NewTableAtBoot
<1>5. CASE NoMemory \/ NoMemoryAtBoot
  BY <1>5, NoMemoryStep
<1>6. CASE Set
  BY <1>6, SetStep
<1>7. CASE UNCHANGED vars
  <2>1. TypeOK' /\ AskedOK' /\ (Running' <=> Running)
    BY <1>7 DEF vars, IInv, TypeOK, AskedOK, Running, Lost
  <2>2. ASSUME Running
        PROVE  Tree' /\ Path' /\ Guarded' /\ Agree'
    BY <1>7, <2>2 DEF vars, IInv, Tree, Path, Guarded, Agree, Lookup
  <2> QED
    BY <2>1, <2>2 DEF IInv
<1> QED
  BY <1>1, <1>2, <1>3, <1>4, <1>5, <1>6, <1>7 DEF Next, Work, Halt

(* IInv holds of every state the calls can reach.                           *)
THEOREM Invariance == Spec => []IInv
<1>1. Init => IInv
  BY InitHolds
<1>2. IInv /\ [Next]_vars => IInv'
  BY StepHolds
<1> QED
  BY <1>1, <1>2, PTL DEF Spec

(* mm_pgtable_map and its copy in mm_init.c keep the tables a tree: no      *)
(* frame ever serves as two tables, nor as the root's, and each one was     *)
(* handed out by the allocator, in the middle of a call as between calls.   *)
THEOREM SpecTablesAreTree == Spec => []TablesAreTree
<1>1. IInv => TablesAreTree
  BY TreeIs DEF IInv, Tree
<1> QED
  BY <1>1, Invariance, PTL

(* mm_pgtable_get_va_pte finds at every page what mm_pgtable_map put there  *)
(* last, whatever has been mapped since and however far a call has come:    *)
(* also at the page of frame 0, whose entry is the word of an unmapped one. *)
THEOREM SpecLookupAgrees == Spec => []LookupAgrees
<1>1. IInv => LookupAgrees
  BY TreeIs DEF IInv
<1> QED
  BY <1>1, Invariance, PTL

-----------------------------------------------------------------------------
(* The tables implement an address space.                                   *)

Seen(va) == IF Running THEN Lookup(va) ELSE asked[va].pa

(* A step that changes what is seen of one page at most.                    *)
LEMMA OnePage ==
  ASSUME NEW w, \A va \in Vas : va # w => Seen(va)' = Seen(va),
         w \in Vas => Seen(w)' = Seen(w) \/ Seen(w)' \in Pas
  PROVE  [A!Next]_([va \in Vas |-> Seen(va)])
<1> DEFINE s == [va \in Vas |-> Seen(va)]
<1>1. CASE w \notin Vas \/ Seen(w)' = Seen(w)
  <2>1. \A va \in Vas : Seen(va)' = Seen(va)
    BY <1>1
  <2>2. s' = s
    BY <2>1
  <2> QED
    BY <2>2
<1>2. CASE w \in Vas /\ Seen(w)' \in Pas
  <2>1. PICK p \in Pas : Seen(w)' = p
    BY <1>2
  <2>2. s' = [s EXCEPT ![w] = p]
    BY <1>2, <2>1
  <2>3. A!Map(w, p)
    BY <2>2 DEF A!Map, Seen
  <2> QED
    BY <1>2, <2>3 DEF A!Next
<1> QED
  BY <1>1, <1>2

LEMMA StepMaps ==
  ASSUME IInv, [Next]_vars
  PROVE  [A!Next]_([va \in Vas |-> Seen(va)])
<1> DEFINE Only(w) == /\ \A v \in Vas : v # w => Seen(v)' = Seen(v)
                      /\ w \in Vas => Seen(w)' = Seen(w) \/ Seen(w)' \in Pas
<1>1. PICK w : w = want.va
  OBVIOUS
<1>2. ASSUME NEW va \in Vas, NEW pa \in Targets, NEW attr \in Attrs, Call(va, pa, attr)
      PROVE  Only(w)
  BY <1>2 DEF Call, Seen, Running, Lost, Lookup
<1>3. ASSUME Descend \/ UNCHANGED vars
      PROVE  Only(w)
  BY <1>3 DEF Descend, vars, Seen, Running, Lost, Lookup
<1>4. ASSUME NEW f \in Left, Extend(f)
      PROVE  Only(w)
  <2>1. Running /\ Running' /\ f \in Tables /\ f \notin taken
    BY <1>4, ExtendStep, Numbers DEF Extend, Walking, Left, IInv, TypeOK
  <2>2. \A v \in Vas : /\ v # w => Lookup(v)' = Lookup(v)
                       /\ Lookup(v)' = Lookup(v) \/ Lookup(v)' = Zero
    BY <1>1, <1>4, <2>1, ExtendOthers
  <2>3. Zero \in Pas
    BY DEF Pas, Frames
  <2> QED
    BY <2>1, <2>2, <2>3 DEF Seen
<1>5. ASSUME NoMemory \/ NoMemoryAtBoot
      PROVE  Only(w)
  <2>1. /\ ~Running' /\ Running /\ Lookup(w) = None /\ level # 0
        /\ asked' = asked /\ AskedOK /\ Agree
    BY <1>1, <1>5, NoMemoryStep DEF IInv
  <2>2. \A v \in Vas : asked[v].pa = None \/ asked[v].pa \in Pas
    BY <2>1, Numbers DEF AskedOK
  <2>3. \A v \in Vas : Seen(v) = Lookup(v) /\ Seen(v)' = asked[v].pa
    BY <2>1 DEF Seen
  <2>4. \A v \in Vas : v # w => Lookup(v) = asked[v].pa
    BY <1>1, <2>1 DEF Agree
  <2> QED
    BY <2>1, <2>2, <2>3, <2>4
<1>6. ASSUME Set
      PROVE  Only(w)
  BY <1>1, <1>6, SetStep, Numbers DEF Seen
<1>7. Only(w)
  BY <1>2, <1>3, <1>4, <1>5, <1>6 DEF Next, Work, Halt, NewTable, NewTableAtBoot
<1> QED
  BY <1>7, OnePage

(* What the lookups find, with a call cut short by a fault or by a NULL     *)
(* counted as not made, is an AddressSpace: nothing is mapped at first, and *)
(* a step maps one page, to some frame, or changes nothing that is seen.    *)
THEOREM SpecImplementsAddressSpace == Spec => ImplementsAddressSpace
<1>1. Init => A!Init
  <2> SUFFICES ASSUME Init PROVE A!Init
    OBVIOUS
  <2>1. \A va \in Vas : Seen(va) = None
    BY InitHolds DEF Seen
  <2> QED
    BY <2>1 DEF A!Init, Seen
<1>2. IInv /\ [Next]_vars => [A!Next]_([va \in Vas |-> IF Running THEN Lookup(va)
                                                       ELSE asked[va].pa])
  BY StepMaps DEF Seen
<1> QED
  BY <1>1, <1>2, Invariance, PTL DEF Spec, ImplementsAddressSpace, A!Spec
=============================================================================
