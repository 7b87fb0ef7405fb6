------------------------------ MODULE PageTable ------------------------------
(***************************************************************************)
(* The kernel's page table: mm_pgtable_map of code/mm/pgtable.c and its    *)
(* copy mm_init_pgtable_map in code/mm/mm_init.c, which differ in where    *)
(* new tables come from and in what happens when there is no memory left.  *)
(* Each level of a call is a step, so that the tables can be looked at     *)
(* half way.  One caller at a time: the code has no lock for the tables.   *)
(***************************************************************************)
EXTENDS PageWalk

CONSTANTS
  Root,     \* kern_pgtable
  Vas,      \* the pages that are mapped and looked up
  Targets,  \* the frames they are mapped to
  Attrs,    \* the attributes asked for
  Supplies, \* which copy runs, and the frames its allocator has left
  Stale     \* what a word of a frame that was never cleared may hold

ASSUME TableAssumption == /\ Root \in Tables
                          /\ Vas \subseteq Idx \X Idx \X Idx \X Idx
                          /\ Targets \subseteq Data \cup {Zero}
                          /\ Attrs \subseteq SUBSET RW
                          /\ Stale \in Entry
                          /\ Supplies \subseteq
                               [booting : BOOLEAN, frames : SUBSET Tables]

VARIABLES
  supply,   \* booting: mm_init.c's copy runs; otherwise pgtable.c
  mem,      \* the contents of the frames a walk may come through
  taken,    \* the frames the allocator has handed out, and the root
  level,    \* where the call is: 0 there is none, 1 .. 4 at pgd .. pte
  table,    \* the table it has come to
  want,     \* what was asked for: the page, the frame, the attributes
  halted,   \* a page fault has stopped the machine
  asked     \* history: what was last mapped at each page, and how

vars == <<supply, mem, taken, level, table, want, halted, asked>>

Nothing == [pa |-> None, attr |-> {}]
NoCall  == [va |-> <<>>, pa |-> None, attr |-> {}]
Lookup(va) == get_va_pte(mem, Root, va)

Left == supply.frames \ taken

(* mm_init.c's copy has made a table of a NULL: what follows, with tables   *)
(* that lie on top of each other and of frame 0, is not modelled.           *)
Lost    == supply.booting /\ Zero \in taken
Running == ~halted /\ ~Lost

Init ==
  /\ supply \in Supplies
  /\ mem = [f \in Frames |-> [i \in Idx |->
                                IF f = Root THEN Empty ELSE Stale]]
  /\ taken = {Root}
  /\ level = 0
  /\ table = Root
  /\ want = NoCall
  /\ halted = FALSE
  /\ asked = [va \in Vas |-> Nothing]

(* Frame 0 is mapped only where KERNEL_VA_IS_PHYS_ZERO has it ("we ONLY map *)
(* this address to zero page"), and there before the other pages of that    *)
(* table are mapped: mm_boot.c and the memory map begin with frame 0.       *)
Call(va, pa, attr) ==
  /\ Running
  /\ level = 0
  /\ pa = Zero <=> va \in ZeroVas
  /\ \A z \in ZeroVas \ {va} :
       SubSeq(z, 1, 3) = SubSeq(va, 1, 3) => asked[z] # Nothing
  /\ level' = 1
  /\ want' = [va |-> va, pa |-> pa, attr |-> attr]
  /\ UNCHANGED <<supply, mem, taken, table, halted, asked>>

(* At one of the upper levels; the index of the entry there.                *)
Walking == Running /\ level \in 1 .. 3
index   == want.va[level]

(* The entry is there: on to the table it names.                            *)
Descend ==
  /\ Walking
  /\ mem[table][index] # Empty
  /\ level' = level + 1
  /\ table' = mem[table][index].addr
  /\ UNCHANGED <<supply, mem, taken, want, halted, asked>>

(* It is not, and f is what the allocator returns.                          *)
Extend(f) ==
  /\ Walking
  /\ mem[table][index] = Empty
  /\ mem' = Ensure(mem, table, index, f, want.attr)
  /\ taken' = taken \cup {f}
  /\ level' = level + 1
  /\ table' = f
  /\ UNCHANGED <<supply, want, halted, asked>>

(* pgtable.c: mm_phys_alloc finds some free frame.                          *)
NewTable == /\ ~supply.booting
            /\ \E f \in Left : Extend(f)

(* mm_init.c: mm_init_phys_alloc_linear takes the frames in their order.    *)
NewTableAtBoot == /\ supply.booting
                  /\ \E f \in Left :
                       /\ \A g \in Left : f <= g
                       /\ Extend(f)

(* It returns NULL, which is used as if it were a frame.                    *)
NoMemoryAtBoot == /\ supply.booting
                  /\ Left = {}
                  /\ Extend(Zero)

(* A slip: -1 were taken for frame 0.                                       *)
NoMemoryUnnoticed == /\ ~supply.booting
                     /\ Left = {}
                     /\ Extend(Zero)

(* pgtable.c: mm_phys_alloc returns -1; memset runs into a page fault.      *)
NoMemory ==
  /\ ~supply.booting
  /\ Walking
  /\ Left = {}
  /\ mem[table][index] = Empty
  /\ mem' = Fault(mem, table, index)
  /\ halted' = TRUE
  /\ UNCHANGED <<supply, taken, level, table, want, asked>>

(* The call returns: its locals are dead.                                   *)
Return == /\ level' = 0
          /\ table' = Root
          /\ want' = NoCall

(* pte[pte_i] = pa | attr                                                   *)
Set ==
  /\ Running
  /\ level = 4
  /\ mem' = [mem EXCEPT ![table][want.va[4]] =
                          [addr |-> want.pa, attr |-> want.attr]]
  /\ asked' = [asked EXCEPT ![want.va] = [pa |-> want.pa, attr |-> want.attr]]
  /\ Return
  /\ UNCHANGED <<supply, taken, halted>>

Work == \/ Descend \/ NewTable \/ NewTableAtBoot
        \/ NoMemory \/ NoMemoryAtBoot \/ Set

(* hlt, or beyond this module.                                              *)
Halt == ~Running /\ UNCHANGED vars

Next == \/ Work
        \/ \E va \in Vas, pa \in Targets, attr \in Attrs : Call(va, pa, attr)
        \/ Halt

Spec == Init /\ [][Next]_vars
-----------------------------------------------------------------------------
(* Properties.                                                              *)

(* Every variable has its type.                                             *)
TypeOK ==
  /\ supply \in Supplies
  /\ mem \in [Frames -> [Idx -> Entry]]
  /\ taken \subseteq Frames
  /\ level \in 0 .. 4
  /\ table \in Frames
  /\ want \in {NoCall} \cup [va : Vas, pa : Targets, attr : SUBSET RW]
  /\ level # 0 => want # NoCall
  /\ halted \in BOOLEAN
  /\ asked \in [Vas -> [pa : Targets \cup {None}, attr : SUBSET RW]]

(* A lookup finds what was mapped last, at every page but the one that is   *)
(* being mapped (mm_pgtable_get_va_pte after mm_pgtable_map).               *)
LookupAgrees ==
  Running => \A va \in Vas : (level # 0 => want.va # va)
                               => Lookup(va) = asked[va].pa

(* The tables of the upper levels, and the entries that are not empty.      *)
Edges(S) == {x \in S \X Idx : mem[x[1]][x[2]] # Empty}
Reach(S) == {mem[x[1]][x[2]].addr : x \in Edges(S)}
Upper    == LET second == Reach({Root})
            IN  {Root} \cup second \cup Reach(second)

(* The tables form a tree: no frame serves as two tables, and each one has  *)
(* been handed out by the allocator for that.                               *)
TablesAreTree ==
  Running =>
    /\ \A x, y \in Edges(Upper) :
         x # y => mem[x[1]][x[2]].addr # mem[y[1]][y[2]].addr
    /\ Reach(Upper) \subseteq taken \ {Root}

(* "NULL for failing" (mm_init.c:32): a NULL never becomes a table.  This   *)
(* fails when the linear allocator runs out.                                *)
NullNoTable == ~Lost

(* A step changes the lookup of one page at most, and never unmaps one.     *)
A == INSTANCE AddressSpace
       WITH space <- [va \in Vas |-> IF Running THEN Lookup(va)
                                     ELSE asked[va].pa]
ImplementsAddressSpace == A!Spec
=============================================================================
