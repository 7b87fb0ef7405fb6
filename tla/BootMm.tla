------------------------------- MODULE BootMm -------------------------------
(***************************************************************************)
(* boot_mm_init of code/arch/x86/boot/mm_boot.c: how much memory there is, *)
(* a linear allocator behind the kernel image, and the first page table of *)
(* the kernel: the image in high memory, the beginning of the direct       *)
(* mapping area, and the table of the boot stage once more.                *)
(*                                                                         *)
(* Addresses are page numbers.  A step of a loop is one call of            *)
(* boot_pgtable_map.                                                       *)
(***************************************************************************)
EXTENDS PageWalk, FiniteSets

CONSTANTS
  Images,      \* [roseg, end]: the first page behind the text, the image
  Readings,    \* [base, ext, ext16]: what the CMOS says
  ExtBase,     \* 1 MB
  Ext16Base,   \* 16 MB
  Ext16Unit,   \* 64 KB, the unit of ext16
  KernelPgd,   \* the index of KERNEL_BASE_ADDR in the top table
  DirectPgd,   \* the index of KERNEL_DIRECT_MAPPING_AREA
  Direct,      \* 10 MB, what is mapped there
  BootPud,     \* boot_page_table_pud
  Stale        \* what a word of memory holds before it is written

E == Cardinality(Idx)
Va(top, k) == <<top, k \div (E * E), (k \div E) % E, k % E>>

ASSUME BootAssumption ==
  /\ E \in Nat
  /\ Idx = 0 .. E - 1
  /\ KernelPgd \in Idx \ {0} /\ DirectPgd \in Idx \ {0, KernelPgd}
  /\ Images \subseteq [roseg : 1 .. E * E * E, end : 1 .. E * E * E]
  /\ \A i \in Images : i.roseg <= i.end
  /\ Readings \subseteq [base : Nat, ext : Nat, ext16 : Nat]
  /\ {ExtBase, Ext16Base, Ext16Unit} \subseteq Nat
  /\ Direct \in 1 .. E * E * E
  /\ BootPud \in Data
  /\ Stale \in Entry
  /\ ZeroVas = {Va(KernelPgd, 0), Va(DirectPgd, 0)}

VARIABLES
  image, reading,
  pc,        \* the loop, or the statement, that comes next
  total,     \* boot_mem_total
  start,     \* boot_mem_alloc_start
  root,      \* boot_kern_pgtable
  mem,       \* the contents of the frames
  k,         \* kern_phys
  chunks,    \* history: what the allocator handed out, in order
  refused    \* history: it gave NULL

vars == <<image, reading, pc, total, start, root, mem, k, chunks, refused>>

(* boot_mm_detect                                                           *)
boot_mm_detect(r) ==
  IF r.ext16 # 0 THEN Ext16Base + r.ext16 * Ext16Unit
  ELSE IF r.ext # 0 THEN ExtBase + r.ext
  ELSE r.base

(* boot_mm_alloc(PAGE_SIZE): an outcome of the state m.                     *)
boot_mm_alloc(m) ==
  IF m.start + 1 >= total
  THEN [m EXCEPT !.chunk = Zero, !.refused = TRUE]
  ELSE [m EXCEPT !.chunk = m.start, !.start = @ + 1,
                 !.chunks = Append(@, m.start)]

(* A level of boot_pgtable_map: a table for the entry there is none for.    *)
Level(m, i, attr) ==
  LET a  == IF m.mem[m.table][i] # Empty THEN m ELSE boot_mm_alloc(m)
      m2 == Ensure(m.mem, m.table, i, a.chunk, attr)
  IN  [a EXCEPT !.mem = m2, !.table = m2[m.table][i].addr]

boot_pgtable_map(m, va, pa, attr) ==
  LET l == Level(Level(Level(m, va[1], attr), va[2], attr), va[3], attr)
  IN  [l EXCEPT !.mem[l.table][va[4]] = [addr |-> pa, attr |-> attr]]

Now == [start |-> start, mem |-> mem, chunk |-> Zero, table |-> root,
        chunks |-> chunks, refused |-> refused]

Becomes(m) == /\ start' = m.start
              /\ mem' = m.mem
              /\ chunks' = m.chunks
              /\ refused' = m.refused

Init ==
  /\ image \in Images /\ reading \in Readings
  /\ pc = "detect"
  /\ total = 0 /\ start = 0 /\ root = Zero /\ k = 0
  /\ mem = [f \in Frames |-> [i \in Idx |-> Stale]]
  /\ chunks = <<>> /\ refused = FALSE

(* A slip: allocation starts behind the text.                               *)
DetectInside ==
  /\ pc = "detect" /\ pc' = "root"
  /\ total' = boot_mm_detect(reading)
  /\ start' = image.roseg + 1
  /\ UNCHANGED <<image, reading, root, mem, k, chunks, refused>>

(* How much memory there is, and where allocation starts: "we want a        *)
(* PAGE-aligned allocation start there", one page behind the image.         *)
Detect ==
  /\ pc = "detect" /\ pc' = "root"
  /\ total' = boot_mm_detect(reading)
  /\ start' = image.end + 1
  /\ UNCHANGED <<image, reading, root, mem, k, chunks, refused>>

NewRoot ==
  LET m == boot_mm_alloc(Now) IN
  /\ pc = "root" /\ pc' = "ro"
  /\ root' = m.chunk
  /\ Becomes([m EXCEPT !.mem = Clear(m.mem, m.chunk)])
  /\ UNCHANGED <<image, reading, total, k>>

(* An iteration of a mapping loop, and its end.                             *)
MapLoop(loop, top, last, attr) ==
  /\ pc = loop
  /\ k < last
  /\ Becomes(boot_pgtable_map(Now, Va(top, k), k, attr))
  /\ k' = k + 1
  /\ UNCHANGED <<image, reading, pc, total, root>>

(* The slip: the direct mapping goes on where the image ends.               *)
EndLoopOn(loop, last, next) ==
  /\ pc = loop
  /\ k >= last
  /\ pc' = next
  /\ UNCHANGED <<image, reading, total, start, root, mem, k, chunks, refused>>

EndLoop(loop, last, next) ==
  /\ pc = loop
  /\ k >= last
  /\ pc' = next
  /\ k' = IF next = "direct" THEN 0 ELSE k
  /\ UNCHANGED <<image, reading, total, start, root, mem, chunks, refused>>

(* "map for read-only region"                                               *)
MapText == MapLoop("ro", KernelPgd, image.roseg, P)
TextEnd == EndLoop("ro", image.roseg, "rw")

(* "map for read-write region"                                              *)
MapRest == MapLoop("rw", KernelPgd, image.end, RW)
RestEnd == EndLoop("rw", image.end, "direct")

(* "map for the 10MB direct mapping memory temporarily"                     *)
MapDirect == MapLoop("direct", DirectPgd, Direct, RW)
DirectEnd == EndLoop("direct", Direct, "reget")

(* "reget the boot page table in it"                                        *)
Reget ==
  /\ pc = "reget" /\ pc' = "done"
  /\ mem' = [mem EXCEPT ![root][0] = [addr |-> BootPud, attr |-> RW]]
  /\ UNCHANGED <<image, reading, total, start, root, k, chunks, refused>>

Done == pc = "done" /\ UNCHANGED vars

Next == \/ Detect \/ NewRoot \/ MapText \/ TextEnd \/ MapRest \/ RestEnd
        \/ MapDirect \/ DirectEnd \/ Reget \/ Done

Spec == Init /\ [][Next]_vars
-----------------------------------------------------------------------------
(* Properties.                                                              *)

Lookup(va) == get_va_pte(mem, root, va)

(* When the new table is loaded into cr3, each page of the image is where   *)
(* the linker put it, the direct mapping area has its 10 MB, the boot stage *)
(* still sees what it saw, and nothing else is mapped.                      *)
ImageMapped ==
  pc = "done" =>
    /\ mem[root][0].addr = BootPud
    /\ \A f \in 0 .. E * E * E - 1 :
         /\ Lookup(Va(KernelPgd, f)) = IF f < image.end THEN f ELSE None
         /\ Lookup(Va(DirectPgd, f)) = IF f < Direct THEN f ELSE None

(* Page tables are cleared and written at their physical addresses, and     *)
(* again by mm_init through the 10 MB of the direct mapping area: each lies *)
(* behind the image, in memory that exists, below the start that mm_init    *)
(* goes on from, in a frame of its own.                                     *)
TablesApart ==
  \A i, j \in DOMAIN chunks :
    /\ chunks[i] >= image.end
    /\ chunks[i] < start
    /\ chunks[i] < total
    /\ chunks[i] < Direct
    /\ i # j => chunks[i] # chunks[j]

(* "map for read-write region": what is behind the text can be written.     *)
RestWritable ==
  \A f \in image.roseg .. image.end - 1 :
    pc = "done" => Rights(mem, root, Va(KernelPgd, f)) = RW
-----------------------------------------------------------------------------
(* The machines on which the properties hold: behind the image, and below   *)
(* the end of the 10 MB, there is memory for all tables.                    *)

(* The tables for n pages in a row from the beginning of a top entry: one   *)
(* for each E pages, or part of them, one for each E of those, and so on.   *)
Up(n, d)     == (n + d - 1) \div d
TablesFor(n) == Up(n, E) + Up(n, E * E) + Up(n, E * E * E)
Need(i)      == 1 + TablesFor(i.end) + TablesFor(Direct)

Room ==
  \A i \in Images, r \in Readings :
    /\ i.end + Need(i) + 1 < boot_mm_detect(r)
    /\ i.end + Need(i) < Direct
    /\ i.end + 1 .. i.end + Need(i) \subseteq Tables
=============================================================================
