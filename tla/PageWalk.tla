------------------------------ MODULE PageWalk ------------------------------
(***************************************************************************)
(* The four levels of page tables that code/mm/pgtable.c walks, and with   *)
(* it the copies in mm_init.c and mm_boot.c.  A page table is the content  *)
(* of a page frame: a function from indexes to entries.  A virtual page is *)
(* the tuple of its four indexes.                                          *)
(***************************************************************************)
EXTENDS Integers, Sequences

CONSTANTS
  Idx,      \* the indexes of a table
  Tables,   \* the page frames the allocators may hand out, and the root
  Data,     \* other page frames
  ZeroVas   \* the pages at which frame 0 may be mapped (KERNEL_VA_IS_PHYS_ZERO)

Zero == 0                        \* page frame 0
None == -1                       \* the address -1
Frames == Tables \cup {Zero}     \* what a walk may come through
Pas == Frames \cup Data          \* what a page may be mapped to

ASSUME WalkAssumption == /\ Tables \subseteq Nat \ {Zero}
                         /\ Data \subseteq Nat \ {Zero}
                         /\ ZeroVas \subseteq Idx \X Idx \X Idx \X Idx

P  == {"P"}
RW == {"P", "RW"}
Entry == [addr : Pas \cup {None}, attr : SUBSET RW]

(* The word 0.                                                              *)
Empty == [addr |-> Zero, attr |-> {}]

(* A slip: a new table is not cleared.                                      *)
ClearNot(m, f) == m

(* memset(f, 0, PAGE_SIZE); nothing is known of a frame that was never      *)
(* written.                                                                 *)
Clear(m, f) == [m EXCEPT ![f] = [i \in Idx |-> Empty]]

(* The entry i of table t, made if there is none: f is what the allocator   *)
(* returns.  The assignments are in the order of the code; f may be t.      *)
Ensure(m, t, i, f, attr) ==
  IF m[t][i] # Empty THEN m
  ELSE LET m1 == [m EXCEPT ![t][i] = [addr |-> f, attr |-> {}]]
           m2 == Clear(m1, f)
       IN  [m2 EXCEPT ![t][i].attr = @ \cup attr]

(* The entry when the allocator returns -1: all bits are set, and memset    *)
(* faults.                                                                  *)
Fault(m, t, i) == [m EXCEPT ![t][i] = [addr |-> None, attr |-> RW]]

(* mm_pgtable_get_va_pte: the entries are looked at from the top.           *)
pgd(m, root, va) == m[root][va[1]]
pud(m, root, va) == m[pgd(m, root, va).addr][va[2]]
pmd(m, root, va) == m[pud(m, root, va).addr][va[3]]
pte(m, root, va) == m[pmd(m, root, va).addr][va[4]]

Walkable(m, root, va) == /\ pgd(m, root, va) # Empty
                         /\ pud(m, root, va) # Empty
                         /\ pmd(m, root, va) # Empty

(* A slip: frame 0 counts as mapped everywhere.                             *)
get_any_pte(m, root, va) ==
  IF ~Walkable(m, root, va) THEN None ELSE pte(m, root, va).addr

get_va_pte(m, root, va) ==
  IF ~Walkable(m, root, va) THEN None
  ELSE IF pte(m, root, va).addr = Zero /\ va \notin ZeroVas THEN None
  ELSE pte(m, root, va).addr

(* What the processor makes of the attributes: writing needs RW on all      *)
(* levels.                                                                  *)
Rights(m, root, va) ==
  pgd(m, root, va).attr \cap pud(m, root, va).attr
    \cap pmd(m, root, va).attr \cap pte(m, root, va).attr
=============================================================================
