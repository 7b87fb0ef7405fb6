------------------------------- MODULE MmInit -------------------------------
(***************************************************************************)
(* mm_pages_allocator_init of code/mm/mm_init.c: from the information of   *)
(* the boot loader to the frames the page allocator starts with.  It looks *)
(* for the memory map among the tags of multiboot2, maps all               *)
(* memory into the direct mapping area, makes a struct page for every      *)
(* frame, and hands over what is left; the memory for page tables and      *)
(* struct pages comes from a linear allocator in the same file.            *)
(*                                                                         *)
(* PageTable has the tables themselves; here a table is the part of a      *)
(* virtual area it serves, and what counts is which frame it is in.  The   *)
(* code goes on after a NULL of the linear allocator, with tables that lie *)
(* on top of each other at address 0: that is for PageTable, and this      *)
(* module follows the program as far as the first NULL.                    *)
(***************************************************************************)
EXTENDS Integers, Sequences, FiniteSets, SequencesExt

CONSTANTS
  Tags,        \* multiboot2 information: sequences of [type, size]
  Maps,        \* memory maps: sequences of [addr, len, available]
  PAGE_SIZE,   \* in the units of the map
  ENTRIES,     \* entries in a table
  PER_PAGE,    \* struct pages in a page
  BootStart,   \* boot_mem_alloc_start
  BootMapped,  \* mm_boot.c has mapped the frames below this one
  PHYS_MM_SEGS_NUM_MAX   \* entries of phys_mm_area_arr

ASSUME MapAssumption == /\ PAGE_SIZE \in Nat \ {0, 1}
                        /\ ENTRIES \in Nat \ {0, 1}
                        /\ \A n \in 1 .. 3 : ENTRIES^n \in Nat \ {0}
                        /\ PER_PAGE \in Nat \ {0}
                        /\ BootStart \in Nat \ {0} /\ BootMapped \in Nat
                        /\ Tags \subseteq Seq([type : Nat, size : Nat])
                        /\ \A t \in Tags : t # <<>> /\ Len(t) <= 10
                        /\ Maps \subseteq Seq([addr : Nat, len : Nat,
                                               available : BOOLEAN])

VARIABLES
  mbi,      \* the tags
  map,      \* the memory map
  pc, pos,  \* the loop and the iteration of it that comes next
  areas,    \* phys_mm_area_arr
  ram,      \* mm_alloc_start, mm_alloc_end, phys_mm_area_idx
  tables,   \* the page tables below pgd: which part they serve, and where
  mapped,   \* the frame each mapped page of the two areas is mapped to
  inited,   \* the struct pages that have been initialised
  given,    \* history: the frames passed to free_pages, in order
  chunks,   \* history: what the linear allocator took, in order
  refused,  \* history: the states of the allocator in which it gave NULL
  strayed   \* history: a table, or a tag, was read where there is none

past == <<chunks, refused, strayed>>
vars == <<mbi, map, pc, pos, areas, ram, tables, mapped, inited, given, past>>

NULL == 0
pfn(a) == a \div PAGE_SIZE
Update(f, x, y) == [z \in DOMAIN f \cup {x} |-> IF z = x THEN y ELSE f[z]]
ALIGN(x, n) == ((x + n - 1) \div n) * n

-----------------------------------------------------------------------------
(* mm_init_phys_alloc_linear.  An outcome is the new ram and the chunk.     *)

(* The areas from phys_mm_area_idx on that begin behind the current one.    *)
Ahead(r) == {k \in (r.idx + 1) .. Len(areas) : areas[k].start >= r.end}

(* The slips: it slides back to the first area, to the last, or nowhere.    *)
SlideBack(r) == [start |-> areas[1].start, end |-> areas[1].end, idx |-> 0]
SlideFar(r) == LET k == Len(areas)
               IN  [start |-> areas[k].start, end |-> areas[k].end, idx |-> k - 1]
SlideNever(r) == [r EXCEPT !.idx = Len(areas)]

(* "we have run out current memory segment, slide to next one"              *)
Slide(r) ==
  IF Ahead(r) = {} THEN [r EXCEPT !.idx = Len(areas)]
  ELSE LET k == CHOOSE k \in Ahead(r) : \A j \in Ahead(r) : k <= j
       IN  [start |-> areas[k].start, end |-> areas[k].end, idx |-> k - 1]

Take(r, n) == LET next == [r EXCEPT !.start = @ + n]
              IN  IF next.start >= r.end THEN Slide(next) ELSE next

Alloc(r, sz) ==
  LET n == ALIGN(sz, PAGE_SIZE)
      t == Take(r, n) IN
  IF sz = 0 \/ n + r.start > r.end THEN [ram |-> r, chunk |-> NULL, took |-> <<>>]
  ELSE [ram |-> t, took |-> <<r.start>>,
        chunk |-> IF r.start + n >= r.end /\ t.idx = Len(areas) THEN NULL
                  ELSE r.start]

-----------------------------------------------------------------------------
(* mm_init_pgtable_map.  A page is <<area, number>>, a table <<area, level, *)
(* number>>; m collects what the call changes.                              *)
TableOf(v, n) == <<v[1], n, v[2] \div ENTRIES^(4 - n)>>

(* Frame f can be accessed through the direct mapping area.                 *)
Visible(f) == f < BootMapped \/ <<"direct", f>> \in DOMAIN mapped

Page(m) ==
  LET a == Alloc(m.ram, PAGE_SIZE)
  IN  [m EXCEPT !.ram = a.ram, !.chunk = a.chunk, !.chunks = @ \o a.took,
                !.refused = IF a.chunk = NULL THEN @ \cup {m.ram} ELSE @]

Level(m, v, n) ==
  LET t == TableOf(v, n)
      m1 == IF t \in DOMAIN m.tables THEN m
            ELSE LET p == Page(m) IN [p EXCEPT !.tables = Update(@, t, p.chunk)]
  IN  [m1 EXCEPT !.strayed = @ \/ ~Visible(pfn(m1.tables[t]))]

MapPage(m, v, f) ==
  LET m3 == Level(Level(Level(m, v, 1), v, 2), v, 3)
  IN  [m3 EXCEPT !.mapped = Update(@, v, f)]

(* What is as it was before a call.                                         *)
Now == [ram |-> ram, tables |-> tables, mapped |-> mapped, chunk |-> NULL,
        chunks |-> chunks, refused |-> refused, strayed |-> strayed]

Becomes(m) == /\ ram' = m.ram
              /\ tables' = m.tables
              /\ mapped' = m.mapped
              /\ chunks' = m.chunks
              /\ refused' = m.refused
              /\ strayed' = m.strayed

(* mm_init_pgtable_get_pa # -1: the struct pages are not at the address     *)
(* where frame 0 counts.                                                    *)
HasTable(v) == TableOf(v, 3) \in DOMAIN tables     \* the slip: one level less
HasPage(v) == v \in DOMAIN mapped /\ mapped[v] # NULL

-----------------------------------------------------------------------------
(* The loops visit the pages of the entries: <<entry, address>>.            *)
Visits == FlattenSeq([i \in DOMAIN map |->
            [k \in 1 .. ((map[i].len + PAGE_SIZE - 1) \div PAGE_SIZE) |->
               <<i, map[i].addr + (k - 1) * PAGE_SIZE>>]])

(* struct multiboot_tag.  The size of the memory map's tag is that of its   *)
(* header and entries; a tag begins at a multiple of eight, the first one   *)
(* behind the eight bytes of the whole.                                     *)
MULTIBOOT_TAG_TYPE_END == 0
MULTIBOOT_TAG_TYPE_MMAP == 6

Size(tag) == IF tag.type = MULTIBOOT_TAG_TYPE_MMAP THEN 16 + 24 * Len(map)
             ELSE tag.size
Begin[i \in 1 .. 10] == IF i = 1 THEN 8
                        ELSE ALIGN(Begin[i - 1] + Size(mbi[i - 1]), 8)

Init ==
  /\ mbi \in Tags /\ map \in Maps
  /\ pc = "tags" /\ pos = 8
  /\ areas = <<>>
  /\ ram = [start |-> -1, end |-> 0, idx |-> 0]
  /\ tables = [t \in {TableOf(<<"direct", f>>, n) : f \in 0 .. BootMapped - 1,
                                                    n \in 1 .. 3} |-> BootStart - 1]
  /\ mapped = [v \in {"direct"} \X (0 .. BootMapped - 1) |-> v[2] * PAGE_SIZE]
  /\ inited = {}
  /\ given = <<>>
  /\ chunks = <<>> /\ refused = {} /\ strayed = FALSE

(* "Analyzing multiboot2 tags..."; "something went wrong! just hang on..."  *)
FindMap ==
  LET at == {i \in DOMAIN mbi : Begin[i] = pos}
      tag == mbi[CHOOSE i \in at : TRUE] IN
  /\ pc = "tags"
  /\ pc' = IF at = {} \/ tag.type = MULTIBOOT_TAG_TYPE_END THEN "hang"
           ELSE IF tag.type = MULTIBOOT_TAG_TYPE_MMAP THEN "analyze" ELSE "tags"
  /\ pos' = IF pc' = "tags" THEN pos + ALIGN(Size(tag), 8) ELSE 1
  /\ strayed' = (at = {})
  /\ UNCHANGED <<mbi, map, areas, ram, tables, mapped, inited, given, chunks, refused>>

(* An iteration of a loop: its last one is followed by the next loop.       *)
Iterate(loop, n, nextLoop) ==
  /\ refused = {}
  /\ pc = loop
  /\ pos <= n
  /\ IF pos = n THEN pc' = nextLoop /\ pos' = 1
                ELSE pc' = pc /\ pos' = pos + 1

(* "analyze for valid memory areas": phys_mm_area_arr, and where the linear *)
(* allocator begins.                                                        *)
Analyze ==
  LET e == map[pos]
      a == [start |-> e.addr, end |-> e.addr + e.len] IN
  /\ Iterate("analyze", Len(map), "direct")
  /\ areas' = IF e.available THEN Append(areas, a) ELSE areas
  /\ ram' = IF e.available /\ a.start <= BootStart /\ BootStart < a.end
            THEN [ram EXCEPT !.start = BootStart, !.end = a.end] ELSE ram
  /\ UNCHANGED <<mbi, map, tables, mapped, inited, given, past>>

(* "map for direct mapping area"                                            *)
DirectMap ==
  LET a == Visits[pos][2] IN
  /\ Iterate("direct", Len(Visits), "describe")
  /\ Becomes(MapPage(Now, <<"direct", pfn(a)>>, pfn(a) * PAGE_SIZE))
  /\ UNCHANGED <<mbi, map, areas, inited, given>>

(* "alloc for each page struct": the page of the array it lies in, if that  *)
(* is not there yet; then "init page struct".                               *)
Describe ==
  LET idx == pfn(Visits[pos][2])
      v == <<"array", idx \div PER_PAGE>>
      p == Page(Now) IN
  /\ Iterate("describe", Len(Visits), "give")
  /\ IF HasPage(v) THEN UNCHANGED <<ram, tables, mapped, past>>
     ELSE Becomes(MapPage(p, v, p.chunk))
  /\ inited' = inited \cup {idx}
  /\ UNCHANGED <<mbi, map, areas, given>>

(* The slip of Give: from where the allocator is.                           *)
GiveRest ==
  LET i == Visits[pos][1]
      start == Visits[pos][2] IN
  /\ Iterate("give", Len(Visits), "done")
  /\ given' = IF start >= ram.start - PAGE_SIZE /\ map[i].available
              THEN Append(given, pfn(start)) ELSE given
  /\ UNCHANGED <<mbi, map, areas, ram, tables, mapped, inited, past>>

(* "We have used some pages while initialize pages' array": frames behind   *)
(* the area the linear allocator has come to go to the page allocator.      *)
Give ==
  LET i == Visits[pos][1]
      start == Visits[pos][2] IN
  /\ Iterate("give", Len(Visits), "done")
  /\ given' = IF start >= ram.end /\ map[i].available
              THEN Append(given, pfn(start)) ELSE given
  /\ UNCHANGED <<mbi, map, areas, ram, tables, mapped, inited, past>>

Done == (pc \in {"done", "hang"} \/ refused # {}) /\ UNCHANGED vars

Next == FindMap \/ Analyze \/ DirectMap \/ Describe \/ Give \/ Done

Spec == Init /\ [][Next]_vars
-----------------------------------------------------------------------------
(* Properties.                                                              *)

Inside(a, n) == \E k \in DOMAIN areas : /\ areas[k].start <= a
                                        /\ a + n <= areas[k].end
Given == ToSet(given)
ChunkFrames == {pfn(a) : a \in ToSet(chunks)}
WholeFrames == {f \in {pfn(x[2]) : x \in ToSet(Visits)} :
                  Inside(f * PAGE_SIZE, PAGE_SIZE)}

(* What the linear allocator takes is whole pages of usable memory behind   *)
(* the kernel, and never the same page twice, also when it goes from one    *)
(* area to the next.                                                        *)
ChunksSound ==
  /\ IsInjective(chunks)
  /\ \A a \in ToSet(chunks) : /\ a >= BootStart
                              /\ a % PAGE_SIZE = 0
                              /\ Inside(a, PAGE_SIZE)

(* It gives NULL only when no area behind it is left and its own has at     *)
(* most one page ("slide to next one").                                     *)
NullAtTheEnd ==
  \A r \in refused : Ahead(r) = {} /\ r.start + PAGE_SIZE >= r.end

(* Tables are written through the direct mapping area while that is being   *)
(* built: each lies where it is mapped already ("don't FORGET to access it  *)
(* by the virtual address!").  Tags are read only where one begins, and the *)
(* machine hangs only if there is no memory map among them.                 *)
NeverStrays ==
  /\ refused = {} => ~strayed
  /\ pc = "hang" => \A i \in DOMAIN mbi : mbi[i].type # MULTIBOOT_TAG_TYPE_MMAP

(* A frame the page allocator is given was not taken for a table or for     *)
(* struct pages, does not belong to the kernel, and is given once; frames   *)
(* come in increasing order, which PageAlloc relies on.                     *)
GivenUnused ==
  /\ Given \cap ChunkFrames = {}
  /\ \A f \in Given : f > pfn(BootStart) /\ f \in WholeFrames
  /\ \A i, j \in DOMAIN given : i < j => given[i] < given[j]

(* What the page allocator may look at is there when it starts: struct      *)
(* pages of frames in the map are initialised, and lie in pages of their    *)
(* own.  With pages, these are the sets Frames, Described, Mapped of        *)
(* PageAlloc.                                                               *)
Prepared ==
  pc \in {"give", "done"} /\ refused = {} =>
    LET array == {v \in DOMAIN mapped : v[1] = "array"} IN
    /\ Given \subseteq inited
    /\ inited = {pfn(x[2]) : x \in ToSet(Visits)}
    /\ \A f \in inited : /\ <<"array", f \div PER_PAGE>> \in array
                         /\ mapped[<<"direct", f>>] = f * PAGE_SIZE
    /\ \A v, w \in array : v # w => mapped[v] # mapped[w]
    /\ {pfn(mapped[v]) : v \in array} \subseteq ChunkFrames
    /\ {pfn(tables[t]) : t \in DOMAIN tables} \cap {pfn(mapped[v]) : v \in array}
         = {}

(* "We have used some pages while initialize pages' array, so we donot      *)
(* count that": every other frame behind the kernel is given.               *)
AllGiven ==
  pc = "done" =>
    \A f \in WholeFrames : f >= pfn(BootStart) => f \in Given \cup ChunkFrames

(* "analyze for valid memory areas": a frame is given only if all of it is  *)
(* in one of them.                                                          *)
WholeGiven == Given \subseteq WholeFrames

(* The loop over the map looks at no bound; the array of areas has one.     *)
AreasFit == Len(areas) <= PHYS_MM_SEGS_NUM_MAX

(* "the allocated memory, NULL for failing": when the linear allocator      *)
(* gives NULL it has failed, it took nothing.                               *)
NullTakesNothing == \A r \in refused : r.start + PAGE_SIZE > r.end
-----------------------------------------------------------------------------
(* Kinds of memory maps.  The properties above hold on machines of all of   *)
(* them, which those of a PC are behind its first megabyte.                 *)

(* The image is followed by whole pages, and areas behind it begin at one.  *)
StartsAligned ==
  /\ BootStart % PAGE_SIZE = 0
  /\ \A m \in Maps : \A i \in DOMAIN m :
       m[i].available /\ m[i].addr >= BootStart => m[i].addr % PAGE_SIZE = 0

(* Areas that reach behind the start of the boot memory are whole pages.    *)
AreasWhole ==
  \A m \in Maps : \A i \in DOMAIN m :
    m[i].available /\ m[i].addr + m[i].len > BootStart =>
      m[i].addr % PAGE_SIZE = 0 /\ m[i].len % PAGE_SIZE = 0

(* Entries come in order and do not overlap.                                *)
Sorted ==
  \A m \in Maps : \A i, j \in DOMAIN m :
    i < j => m[i].addr + m[i].len <= m[j].addr

(* No area is empty, and the kernel is in one.                              *)
Kernel(e) == e.available /\ e.addr <= BootStart /\ BootStart < e.addr + e.len
KernelInside ==
  \A m \in Maps : /\ \A i \in DOMAIN m : m[i].available => m[i].len # 0
                  /\ \E i \in DOMAIN m : Kernel(m[i])

(* The tags of a loader: the last one, and no other, is the end.  The       *)
(* smallest is two words.                                                   *)
TagsEnd ==
  \A t \in Tags : \A i \in DOMAIN t :
    /\ t[i].type = MULTIBOOT_TAG_TYPE_END <=> i = Len(t)
    /\ t[i].type = MULTIBOOT_TAG_TYPE_MMAP \/ t[i].size >= 8

(* The boot stage has mapped its own tables, and enough besides: before the *)
(* linear allocator comes to a frame that is not mapped, it has come        *)
(* through at least as many as there are tables up to that frame.           *)
Usable(m, f) == \E i \in DOMAIN m : /\ m[i].available
                                    /\ m[i].addr <= f * PAGE_SIZE
                                    /\ f * PAGE_SIZE + PAGE_SIZE <= m[i].addr + m[i].len
UsableBefore(m, f) == {g \in pfn(BootStart) .. f - 1 : Usable(m, g)}
TablesTo(f)  == (f \div ENTRIES^1) + (f \div ENTRIES^2) + (f \div ENTRIES^3)
TablesNear ==
  /\ pfn(BootStart - 1) < BootMapped
  /\ \A m \in Maps : \A i \in DOMAIN m :
       \A f \in BootMapped .. pfn(m[i].addr + m[i].len) :
         Usable(m, f) =>
           TablesTo(f) <= TablesTo(BootMapped - 1) + Cardinality(UsableBefore(m, f))
=============================================================================
