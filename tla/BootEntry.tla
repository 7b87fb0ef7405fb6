------------------------------ MODULE BootEntry ------------------------------
(***************************************************************************)
(* code/arch/x86/boot/boot.S and boot64.S: from what the boot loader left  *)
(* in the registers to the call of startup64.  The first page tables are   *)
(* built entry by entry, paging and long mode are turned on, and the two   *)
(* arguments go through the stack past code that uses every register.      *)
(*                                                                         *)
(* An address of memory is a page frame, or, in a register that walks      *)
(* through tables, the number of an entry: frame * E + index.              *)
(***************************************************************************)
EXTENDS PageWalk, Descriptors, FiniteSets

CONSTANTS
  Loaders,   \* [magic, mbi, wp]: eax, ebx and CR0.WP as a loader leaves them
  PTS,       \* 10, the number of lowest page tables
  Code, Stack, Pgd, Gdt     \* the frames of the boot image

E == Cardinality(Idx)
Pud == Pgd + 1              \* boot_page_table_pud
Pmd == Pgd + 2              \* boot_page_table_pmd
Pt  == Pgd + 3              \* boot_page_table_pt
PtEnd == Pt + PTS           \* boot_page_table_end

ASSUME EntryAssumption ==
  /\ E \in Nat \ {0, 1} /\ Idx = 0 .. E - 1
  /\ PTS \in 1 .. E
  /\ {Code, Stack, Pgd, Gdt} \subseteq 1 .. E * PTS - 1
  /\ PtEnd <= E * PTS
  /\ {Code, Stack, Gdt} \cap Pgd .. PtEnd - 1 = {}
  /\ 1 .. E * PTS - 1 \subseteq Tables
  /\ \A l \in Loaders : DOMAIN l = {"magic", "mbi", "wp"}

VARIABLES
  loader,   \* the loader
  pc,       \* what comes next
  r,        \* the registers
  stack,    \* the words on the stack, the top first
  mem,      \* the contents of the frames
  cr,       \* the bits that are set: PAE, PGE of cr4, LME, PG of cr0
  cr3,
  gdt,      \* the table of descriptors in gdtr
  irqs       \* the interrupt flag

entryVars == <<loader, pc, r, stack, mem, cr, cr3, gdt, irqs>>

Unknown == -1

(* gdt64 of boot.S and gdt of code/arch/x86/kernel/desc.c.                   *)
Descriptor == [loader |-> <<>>,
               boot   |-> <<\h209A, \h0092>>,
               kernel |-> <<\hA09B, \hC093, \hC0FB, \hC0F3, \hA0FB>>]

(* The descriptor a selector means.                                         *)
Segment(sel) == IF Entry8(sel) \in DOMAIN Descriptor[gdt]
                THEN DESCRIPTOR_INIT(Descriptor[gdt][Entry8(sel)])
                ELSE NoDescriptor

(* A page of low memory, and what the processor finds there.                *)
Va(f) == <<0, 0, f \div E, f % E>>
Sees(f) == \/ "PG" \notin cr
           \/ /\ Walkable(mem, cr3, Va(f))
              /\ pte(mem, cr3, Va(f)).addr = f
              /\ Rights(mem, cr3, Va(f)) = RW

(* What is at from runs if the processor sees its code and its stack;       *)
(* without an IDT a fault resets the machine.                               *)
Go(from, to) ==
  /\ pc = from
  /\ pc' = IF Sees(Code) /\ Sees(Stack) THEN to ELSE "reset"

Store(m, at, entry) == [m EXCEPT ![at \div E][at % E] = entry]
Pointing(f) == [addr |-> f, attr |-> RW]

Init ==
  /\ loader \in Loaders
  /\ pc = "_start"
  /\ r = [eax |-> loader.magic, ebx |-> loader.mbi, ecx |-> Unknown,
          edx |-> Unknown, esi |-> Unknown, edi |-> Unknown]
  /\ stack = <<>>
  /\ mem = [f \in Frames |-> [i \in Idx |-> Empty]]
  /\ cr = {} /\ cr3 = Zero /\ gdt = "loader" /\ irqs = FALSE

(* "turn off the interrupt", "init the stack", keep what the loader says,   *)
(* "reset eflags"                                                           *)
Start ==
  /\ Go("_start", "cls")
  /\ irqs' = FALSE
  /\ stack' = <<r.eax, r.ebx>>
  /\ UNCHANGED <<loader, r, mem, cr, cr3, gdt>>

(* "clear the screen", "print something"                                    *)
ClearScreen ==
  /\ Go("cls", "upper")
  /\ r' = [r EXCEPT !.ecx = 80 * 25 * 2]
  /\ UNCHANGED <<loader, stack, mem, cr, cr3, gdt, irqs>>

(* "establish upper page table"                                             *)
UpperTables ==
  /\ Go("upper", "pt_loop")
  /\ mem' = Store(Store(mem, Pgd * E, Pointing(Pud)), Pud * E, Pointing(Pmd))
  /\ r' = [r EXCEPT !.ebx = 0, !.edx = Pt * E, !.eax = Pmd * E]
  /\ UNCHANGED <<loader, stack, cr, cr3, gdt, irqs>>

(* .pt_loop: the entry of the next lowest table.                            *)
PtLoop ==
  /\ Go("pt_loop", "pte_loop")
  /\ mem' = Store(mem, r.eax, Pointing(r.edx \div E))
  /\ r' = [r EXCEPT !.ecx = 0]
  /\ UNCHANGED <<loader, stack, cr, cr3, gdt, irqs>>

(* A slip: the first frame of a table is the last one of the one before.    *)
PteLoopTwice ==
  LET last == r.ecx + 1 = E IN
  /\ Go("pte_loop", IF ~last THEN "pte_loop"
                    ELSE IF r.edx + 1 # PtEnd * E THEN "pt_loop" ELSE "cr3")
  /\ mem' = Store(mem, r.edx, Pointing(r.ebx))
  /\ r' = [r EXCEPT !.ebx = IF last THEN @ ELSE @ + 1, !.edx = @ + 1,
                    !.ecx = @ + 1, !.eax = IF last THEN @ + 1 ELSE @]
  /\ UNCHANGED <<loader, stack, cr, cr3, gdt, irqs>>

(* .pte_loop: an entry of it, and the ends of both loops.                   *)
PteLoop ==
  LET last == r.ecx + 1 = E IN
  /\ Go("pte_loop", IF ~last THEN "pte_loop"
                    ELSE IF r.edx + 1 # PtEnd * E THEN "pt_loop" ELSE "cr3")
  /\ mem' = Store(mem, r.edx, Pointing(r.ebx))
  /\ r' = [r EXCEPT !.ebx = @ + 1, !.edx = @ + 1, !.ecx = @ + 1,
                    !.eax = IF last THEN @ + 1 ELSE @]
  /\ UNCHANGED <<loader, stack, cr, cr3, gdt, irqs>>

LoadCr3 ==
  /\ Go("cr3", "recover")
  /\ cr3' = Pgd
  /\ r' = [r EXCEPT !.eax = Pgd]
  /\ UNCHANGED <<loader, stack, mem, cr, gdt, irqs>>

(* The slip: the words come off the stack in the order they went on.        *)
RecoverInOrder ==
  /\ Go("recover", "pae")
  /\ r' = [r EXCEPT !.esi = stack[1], !.edi = stack[2]]
  /\ stack' = <<>>
  /\ UNCHANGED <<loader, mem, cr, cr3, gdt, irqs>>

(* "recover multiboot info": the arguments of startup64.                    *)
Recover ==
  /\ Go("recover", "pae")
  /\ r' = [r EXCEPT !.edi = stack[1], !.esi = stack[2]]
  /\ stack' = <<>>
  /\ UNCHANGED <<loader, mem, cr, cr3, gdt, irqs>>

(* "enable PAE and PGE", "enable long mode": eax, and with rdmsr ecx and    *)
(* edx, are used up.                                                        *)
EnableLongMode ==
  /\ Go("pae", "paging")
  /\ cr' = cr \cup {"PAE", "PGE", "LME"}
  /\ r' = [r EXCEPT !.eax = Unknown, !.ecx = Unknown, !.edx = Unknown]
  /\ UNCHANGED <<loader, stack, mem, cr3, gdt, irqs>>

(* "enable paging": the processor refuses long mode without PAE, and        *)
(* without it reads tables of another format.                               *)
EnablePaging ==
  /\ Go("paging", IF {"PAE", "LME"} \subseteq cr THEN "lgdt" ELSE "reset")
  /\ cr' = cr \cup {"PG"}
  /\ UNCHANGED <<loader, r, stack, mem, cr3, gdt, irqs>>

(* "set up GDT"                                                             *)
SetUpGdt ==
  /\ Go("lgdt", IF Sees(Gdt) THEN "far_jump" ELSE "reset")
  /\ gdt' = "boot"
  /\ UNCHANGED <<loader, r, stack, mem, cr, cr3, irqs>>

(* "we MUST use such an instruction to make a long jump": it loads cs with  *)
(* the descriptor of 64-bit code.                                           *)
FarJump ==
  /\ Go("far_jump", IF Sees(Gdt) /\ IsLongCode(Segment(8))
                     THEN "long_mode_entry" ELSE "reset")
  /\ UNCHANGED <<loader, r, stack, mem, cr, cr3, gdt, irqs>>

(* boot64.S: the other segments, and the call.                              *)
LongModeEntry ==
  /\ Go("long_mode_entry", "startup64")
  /\ r' = [r EXCEPT !.eax = 16]
  /\ UNCHANGED <<loader, stack, mem, cr, cr3, gdt, irqs>>

Entry64 == \/ Start \/ ClearScreen \/ UpperTables \/ PtLoop \/ PteLoop
           \/ LoadCr3 \/ Recover \/ EnableLongMode \/ EnablePaging
           \/ SetUpGdt \/ FarJump \/ LongModeEntry
-----------------------------------------------------------------------------
(* Properties.                                                              *)

(* With paging on, every page of the first 20 MB is where it was, and       *)
(* nothing else is mapped: both loops of boot.S end by an equality.         *)
IdentityMapped ==
  "PG" \in cr /\ cr3 = Pgd =>
    \A f \in 0 .. E * E - 1 :
      IF f < E * PTS THEN Sees(f) ELSE ~Walkable(mem, cr3, Va(f))
=============================================================================
