--------------------------- MODULE KernelMainProof ---------------------------
(***************************************************************************)
(* Proofs about KernelMain, for tables of any size, any loader and any     *)
(* number of lowest tables: the loops of boot.S map what they have to map, *)
(* the arguments reach startup64, the machine does not reset by itself,    *)
(* and every exception is reported as what it is once the IDT is loaded.   *)
(*                                                                         *)
(* The inductive invariant says, for each place in the code, which entries *)
(* of the tables are written, where the arguments are, which parts of      *)
(* memory are mapped and where the stack is.  At the end the same for      *)
(* Startup, the machine together with its serial port.                     *)
(***************************************************************************)
EXTENDS Startup, TLAPS

(* Quotient and remainder are the only pair that makes up a number.         *)
LEMMA DivMod ==
  ASSUME NEW m \in Nat \ {0}, NEW a \in Nat, NEW b \in 0 .. m - 1
  PROVE  (a * m + b) \div m = a /\ (a * m + b) % m = b
  BY SMT

LEMMA DivModBack ==
  ASSUME NEW m \in Nat \ {0}, NEW x \in Nat
  PROVE  /\ x \div m \in Nat /\ x % m \in 0 .. m - 1
         /\ x = (x \div m) * m + (x % m)
  BY SMT

(* Entries of different tables, or different entries of one, have different *)
(* numbers.                                                                 *)
LEMMA RowMajor ==
  ASSUME NEW m \in Nat \ {0}, NEW a \in Nat, NEW k \in Nat, NEW b \in 0 .. m - 1
  PROVE  a * m + b < k * m <=> a < k
<1>1. CASE a < k
  <2>1. (a + 1) * m <= k * m
    BY <1>1, SMT
  <2> QED
    BY <1>1, <2>1, SMT
<1>2. CASE ~(a < k)
  <2>1. k * m <= a * m
    BY <1>2, SMT
  <2> QED
    BY <1>2, <2>1, SMT
<1> QED
  BY <1>1, <1>2

-----------------------------------------------------------------------------
(* Gates.                                                                   *)

(* Cutting a number in two loses nothing, and a part of a number below a    *)
(* multiple of W is below the factor.                                       *)
LEMMA CutWord ==
  ASSUME NEW x \in Nat
  PROVE  /\ x \div W \in Nat /\ x % W \in 0 .. W - 1
         /\ (x \div W) * W + (x % W) = x
  BY WordAssumption, DivModBack

LEMMA Narrower ==
  ASSUME NEW x \in Nat, NEW k \in Nat, x < k * W
  PROVE  x \div W < k
<1> DEFINE a == x \div W
           b == x % W
<1>1. a \in Nat /\ b \in 0 .. W - 1 /\ a * W + b = x
  BY CutWord
<1> HIDE DEF a, b
<1>2. a * W + b < k * W
  BY <1>1
<1>3. a < k
  BY <1>1, <1>2, RowMajor, WordAssumption
<1> QED
  BY <1>3 DEF a

(* set_intr_handler stores the address of any handler in four words of 16   *)
(* bits: each part fits its field (offset2 has two words), and the          *)
(* processor puts the parts together to the same address.                   *)
THEOREM GateTarget ==
  \A handler \in 0 .. W * W * W * W - 1 : \A sel :
    LET gate == KERNEL_INTR_GATE_INIT(handler, sel) IN
    /\ gate.offset0 \in 0 .. W - 1
    /\ gate.offset1 \in 0 .. W - 1
    /\ gate.offset2 \in 0 .. W * W - 1
    /\ Target(gate) = handler
<1> SUFFICES ASSUME NEW handler \in 0 .. W * W * W * W - 1, NEW sel
             PROVE  LET gate == KERNEL_INTR_GATE_INIT(handler, sel) IN
                    /\ gate.offset0 \in 0 .. W - 1
                    /\ gate.offset1 \in 0 .. W - 1
                    /\ gate.offset2 \in 0 .. W * W - 1
                    /\ Target(gate) = handler
  OBVIOUS
<1> DEFINE gate == KERNEL_INTR_GATE_INIT(handler, sel)
           mid == handler \div W
           top == mid \div W
<1>1. W \in Nat /\ W * W \in Nat /\ W * W * W \in Nat /\ handler \in Nat
      /\ handler < (W * W * W) * W
  BY WordAssumption, SMT
<1>2. mid \in Nat /\ handler % W \in 0 .. W - 1 /\ mid * W + (handler % W) = handler
  BY <1>1, CutWord
<1>3. top \in Nat /\ mid % W \in 0 .. W - 1 /\ top * W + (mid % W) = mid
  BY <1>2, CutWord
<1>4. mid < (W * W) * W
  BY <1>1, Narrower
<1>5. top < W * W
  BY <1>1, <1>2, <1>4, Narrower
<1>6. /\ gate.offset0 = handler % W /\ gate.offset1 = mid % W /\ gate.offset2 = top
  BY DEF KERNEL_INTR_GATE_INIT
<1>7. Target(gate) = (top * W + (mid % W)) * W + (handler % W)
  BY <1>6 DEF Target
<1>8. Target(gate) = handler
  BY <1>2, <1>3, <1>7
<1> HIDE DEF gate
<1>9. /\ gate.offset0 \in 0 .. W - 1 /\ gate.offset1 \in 0 .. W - 1
      /\ gate.offset2 \in 0 .. W * W - 1
  <2> HIDE DEF mid, top
  <2> QED
    BY <1>1, <1>2, <1>3, <1>5, <1>6, SMT
<1> QED
  BY <1>8, <1>9 DEF gate

-----------------------------------------------------------------------------
(* The invariant of boot.S.                                                 *)

Registers == {"eax", "ebx", "ecx", "edx", "esi", "edi"}

EntryOK ==
  /\ loader \in Loaders
  /\ DOMAIN r = Registers
  /\ mem \in [Frames -> [Idx -> [addr : Nat, attr : SUBSET RW]]]

(* What the tables hold: one entry in each of the upper two, the entries of *)
(* the first j lowest tables, and all the entries of those tables and the   *)
(* first i of the next.                                                     *)
Blank(f) == \A e \in Idx : mem[f][e] = Empty
Upper == \A e \in Idx : /\ mem[Pgd][e] = IF e = 0 THEN Pointing(Pud) ELSE Empty
                        /\ mem[Pud][e] = IF e = 0 THEN Pointing(Pmd) ELSE Empty
Middle(j) == \A e \in Idx : mem[Pmd][e] = IF e < j THEN Pointing(Pt + e) ELSE Empty
Lowest(j, i) == \A t \in 0 .. PTS - 1, e \in Idx :
                  (t < j \/ (t = j /\ e < i)) => mem[Pt + t][e] = Pointing(t * E + e)
Built == Upper /\ Middle(PTS) /\ Lowest(PTS, 0)

(* Where the loops are, for each place of boot.S.                           *)
AtPt(j) == /\ r.ebx = j * E /\ r.edx = (Pt + j) * E /\ r.eax = Pmd * E + j
           /\ Upper /\ Middle(j) /\ Lowest(j, 0)
AtPte(j, i) == /\ r.ecx = i /\ r.ebx = j * E + i /\ r.edx = (Pt + j) * E + i
               /\ r.eax = Pmd * E + j
               /\ Upper /\ Middle(j + 1) /\ Lowest(j, i)

Early == {"_start", "cls", "upper"}
Late  == {"recover", "pae", "paging", "lgdt", "far_jump", "long_mode_entry",
          "startup64"}
EntryPlaces == {"pt_loop", "pte_loop", "cr3"} \cup Early \cup Late

Loops ==
  /\ pc \in Early => Blank(Pgd) /\ Blank(Pud) /\ Blank(Pmd)
  /\ pc = "pt_loop" => \E j \in 0 .. PTS - 1 : AtPt(j)
  /\ pc = "pte_loop" => \E j \in 0 .. PTS - 1, i \in Idx : AtPte(j, i)
  /\ pc = "cr3" \/ pc \in Late \/ "PG" \in cr => Built
  /\ pc \in Late => cr3 = Pgd
  /\ pc \in Early \cup {"pt_loop", "pte_loop", "cr3", "recover", "pae", "paging"}
       => "PG" \notin cr
  /\ pc = "paging" => {"PAE", "LME"} \subseteq cr
  /\ pc = "far_jump" => gdt = "boot"

BootInv == EntryOK /\ Loops

(* Where the arguments of startup64 are.                                    *)
OnStack == {"cls", "upper", "pt_loop", "pte_loop", "cr3", "recover"}
InRegisters == {"pae", "paging", "lgdt", "far_jump", "long_mode_entry", "startup64"}
Checked == {"boot_mm_init", "remap", "leave", "call_main"} \cup InKernel

Passed == [magic |-> loader.magic, mbi |-> loader.mbi]

Carried ==
  /\ pc = "_start" => r.eax = loader.magic /\ r.ebx = loader.mbi
  /\ pc \in OnStack => stack = <<loader.magic, loader.mbi>>
  /\ pc \in InRegisters => r.edi = loader.magic /\ r.esi = loader.mbi
  /\ args \in {[magic |-> Unknown, mbi |-> Unknown], Passed}
  /\ pc \in {"boot_tty_init", "checks"} => args = Passed
  /\ pc \in Checked => loader.magic = MULTIBOOT2_BOOTLOADER_MAGIC
                       /\ loader.mbi % 8 = 0

-----------------------------------------------------------------------------
(* The invariant of startup64 and main.                                     *)

Parts == {"low", "image", "direct"}

BeforeStack == {"boot_tty_init", "checks", "boot_mm_init"}
BeforeUnmap == {"tty_init", "mm_init", "unmap"}
BeforeIdt == {"remap", "leave", "call_main", "task_init", "gdt_init"}
               \cup EntryPlaces \cup BeforeStack \cup BeforeUnmap
AfterUnmap == {"task_init", "gdt_init", "idt_init", "load_idt", "cli", "loop"}
AfterIdt == {"cli", "loop", "idle", "halted"} \cup Handlers

InImage == /\ {"image", "direct"} \subseteq maps /\ maps \subseteq Parts
           /\ rsp = "image" /\ rbp = "image" /\ ~loader.wp

Mapped ==
  /\ pc \in BeforeStack => maps = {"low"} /\ rsp = "low" /\ rbp = "low"
                           /\ saved = <<"low">>
  /\ pc = "remap" => maps = Parts /\ rsp = "low" /\ rbp = "low"
                     /\ Head(saved) = "low"
  /\ pc = "leave" => maps = Parts /\ rsp = "image" /\ rbp = "image"
                     /\ Head(saved) = "low"
  /\ pc = "call_main" => maps = Parts /\ rsp = "image" /\ rbp = "low" /\ ~loader.wp
  /\ pc \in BeforeUnmap => maps = Parts /\ InImage
  /\ pc \in AfterUnmap \cup AfterIdt => InImage
  /\ pc \in EntryPlaces => rsp = "low" /\ rbp = "low"

(* The gates below k are set.                                               *)
Gates(k) == idt = [v \in 0 .. IDT_ENTRIES - 1 |->
                     IF v < k THEN KERNEL_INTR_GATE_INIT(HandlerOf(v),
                                                         DEFAULT_KERNEL_CS_SELECTOR)
                     ELSE NoGate]

Trapping ==
  /\ loaded <=> pc \in AfterIdt
  /\ pc \in BeforeIdt => n = 0
  /\ pc \in {"idt_init", "load_idt"} \cup AfterIdt => gdt = "kernel"
  /\ pc = "idt_init" => n \in 0 .. TRAP_CP
  /\ pc \in BeforeIdt \cup {"idt_init"} => Gates(n)
  /\ pc \in {"load_idt"} \cup AfterIdt => Gates(TRAP_CP + 1)

Reported ==
  /\ pc = "page_fault_handler" => vector = TRAP_PF
  /\ pc = "null_intr_handler" => vector # TRAP_PF
  /\ reports \in Seq([vector : Int, by : Handlers])
  /\ \A i \in DOMAIN reports :
       reports[i].by = "page_fault_handler" <=> reports[i].vector = TRAP_PF
  /\ vector \in Int

MainInv == Mapped /\ Trapping /\ Reported

IInv == BootInv /\ Carried /\ MainInv

(* GRUB leaves CR0.WP clear.  The multiboot2 specification does not say.    *)
WpClear == \A l \in Loaders : ~l.wp

-----------------------------------------------------------------------------
(* Lemmas about the tables.                                                 *)

Tabled == [Frames -> [Idx -> [addr : Nat, attr : SUBSET RW]]]

LEMMA Layout ==
  /\ E \in Nat /\ 1 < E /\ Idx = 0 .. E - 1 /\ 0 \in Idx
  /\ PTS \in Nat /\ 1 <= PTS /\ PTS <= E /\ E * PTS \in Nat
  /\ Pgd \in Nat /\ Pgd # 0
  /\ Pud = Pgd + 1 /\ Pmd = Pgd + 2 /\ Pt = Pgd + 3 /\ PtEnd = Pt + PTS
  /\ \A f \in Pgd .. Pt + PTS - 1 : f \in Frames
  /\ Code \in 0 .. E * PTS - 1 /\ Stack \in 0 .. E * PTS - 1 /\ Gdt \in 0 .. E * PTS - 1
<1> USE EntryAssumption
<1>1. E \in Nat /\ 1 < E /\ Idx = 0 .. E - 1 /\ 0 \in Idx
  <2>1. E \in Nat \ {0, 1} /\ Idx = 0 .. E - 1
    OBVIOUS
  <2> HIDE DEF E
  <2> QED
    BY <2>1, SMT
<1>2. PTS \in Nat /\ 1 <= PTS /\ PTS <= E /\ E * PTS \in Nat
  <2> HIDE DEF E
  <2> QED
    BY <1>1, SMT
<1>3. Pgd \in 1 .. E * PTS - 1 /\ PtEnd <= E * PTS /\ 1 .. E * PTS - 1 \subseteq Tables
      /\ Code \in 1 .. E * PTS - 1 /\ Stack \in 1 .. E * PTS - 1 /\ Gdt \in 1 .. E * PTS - 1
  OBVIOUS
<1>4. Pud = Pgd + 1 /\ Pmd = Pgd + 2 /\ Pt = Pgd + 3 /\ PtEnd = Pt + PTS
  BY DEF Pud, Pmd, Pt, PtEnd
<1> HIDE EntryAssumption DEF E, PtEnd, Pud, Pmd, Pt
<1>5. \A f \in Pgd .. Pt + PTS - 1 : f \in 1 .. E * PTS - 1
  BY <1>1, <1>2, <1>3, <1>4, SMT
<1> QED
  BY <1>1, <1>2, <1>3, <1>4, <1>5 DEF Frames

LEMMA PointingType == ASSUME NEW f \in Nat
                      PROVE  Pointing(f) \in [addr : Nat, attr : SUBSET RW]
  BY DEF Pointing, RW

LEMMA EmptyType == Empty \in [addr : Nat, attr : SUBSET RW]
  BY DEF Empty, Zero

LEMMA PointingNotEmpty == ASSUME NEW f PROVE Pointing(f) # Empty
<1>1. Pointing(f).attr = RW /\ Empty.attr = {} /\ "P" \in RW
  BY DEF Pointing, Empty, RW
<1> QED
  BY <1>1

(* A store changes the one entry its number stands for.                     *)
LEMMA StoreAt ==
  ASSUME NEW m \in Tabled, NEW f \in Frames, f \in Nat, NEW i \in Idx,
         NEW e \in [addr : Nat, attr : SUBSET RW]
  PROVE  /\ Store(m, f * E + i, e) \in Tabled
         /\ \A g \in Frames, k \in Idx :
              Store(m, f * E + i, e)[g][k] = IF g = f /\ k = i THEN e ELSE m[g][k]
<1>1. (f * E + i) \div E = f /\ (f * E + i) % E = i
  <2> HIDE DEF E
  <2> QED
    BY Layout, DivMod
<1>2. Store(m, f * E + i, e) = [m EXCEPT ![f][i] = e]
  BY <1>1 DEF Store
<1>3. [m EXCEPT ![f][i] = e] \in Tabled
  BY DEF Tabled
<1>4. \A g \in Frames, k \in Idx :
        [m EXCEPT ![f][i] = e][g][k] = IF g = f /\ k = i THEN e ELSE m[g][k]
  BY DEF Tabled
<1> QED
  BY <1>2, <1>3, <1>4

(* The code segments of both tables of descriptors are for long mode.       *)
LEMMA BootCode == gdt = "boot" => IsLongCode(Segment(8))
<1>1. Entry8(8) = 1
  BY SMT DEF Entry8
<1>2. IsLongCode(DESCRIPTOR_INIT(\h209A))
  BY SMT DEF IsLongCode, DESCRIPTOR_INIT, Bit
<1>3. ASSUME gdt = "boot" PROVE Segment(8) = DESCRIPTOR_INIT(\h209A)
  BY <1>1, <1>3 DEF Segment, Descriptor
<1> QED
  BY <1>2, <1>3

LEMMA KernelCode == gdt = "kernel" => IsLongCode(Segment(8))
<1>1. Entry8(8) = 1
  BY SMT DEF Entry8
<1>2. IsLongCode(DESCRIPTOR_INIT(\hA09B))
  BY SMT DEF IsLongCode, DESCRIPTOR_INIT, Bit
<1>3. ASSUME gdt = "kernel" PROVE Segment(8) = DESCRIPTOR_INIT(\hA09B)
  BY <1>1, <1>3 DEF Segment, Descriptor
<1> QED
  BY <1>2, <1>3

(* Once the tables are built, the first pages are where they were, and      *)
(* nothing else is mapped.                                                  *)
LEMMA BuiltMaps ==
  ASSUME EntryOK, Built, cr3 = Pgd, NEW f \in 0 .. E * E - 1
  PROVE  /\ f < E * PTS => Sees(f)
         /\ ~(f < E * PTS) => ~Walkable(mem, cr3, Va(f))
<1> USE Layout
<1> HIDE DEF E
<1> DEFINE t == f \div E
           i == f % E
<1>1. f \in Nat /\ t \in Nat /\ i \in Idx /\ f = t * E + i
  <2>1. E \in Nat \ {0} /\ f \in Nat
    BY SMT
  <2>2. f \div E \in Nat /\ f % E \in 0 .. E - 1 /\ f = (f \div E) * E + (f % E)
    BY <2>1, DivModBack
  <2> QED
    BY <2>1, <2>2
<1>2. t \in Idx
  <2>1. t * E + i < E * E
    BY <1>1
  <2> HIDE DEF t, i
  <2>2. E \in Nat \ {0} /\ i \in 0 .. E - 1
    BY <1>1
  <2>3. t < E
    BY <2>1, <2>2, <1>1, RowMajor
  <2> QED
    BY <2>3, <1>1
<1>3. Va(f)[1] = 0 /\ Va(f)[2] = 0 /\ Va(f)[3] = t /\ Va(f)[4] = i
  BY DEF Va
<1> HIDE DEF t, i
<1>4. mem[Pgd][0] = Pointing(Pud) /\ mem[Pud][0] = Pointing(Pmd)
  BY DEF Built, Upper
<1>5. pgd(mem, cr3, Va(f)) = Pointing(Pud)
  BY <1>3, <1>4 DEF pgd
<1>6. pud(mem, cr3, Va(f)) = Pointing(Pmd)
  BY <1>3, <1>4, <1>5 DEF pud, Pointing
<1>7. pmd(mem, cr3, Va(f)) = IF t < PTS THEN Pointing(Pt + t) ELSE Empty
  BY <1>2, <1>3, <1>6 DEF pmd, Pointing, Built, Middle
<1>8. f < E * PTS <=> t < PTS
  <2>1. E \in Nat \ {0} /\ i \in 0 .. E - 1
    BY <1>1
  <2>2. t * E + i < PTS * E <=> t < PTS
    BY <2>1, <1>1, RowMajor
  <2> QED
    BY <2>2, <1>1
<1>9. CASE ~(f < E * PTS)
  BY <1>7, <1>8, <1>9 DEF Walkable
<1>10. CASE f < E * PTS
  <2>1. pmd(mem, cr3, Va(f)) = Pointing(Pt + t)
    BY <1>7, <1>8, <1>10
  <2>2. mem[Pt + t][i] = Pointing(t * E + i)
    <3>1. t \in Nat /\ t < PTS /\ i \in Idx
      BY <1>1, <1>8, <1>10
    <3>2. t \in 0 .. PTS - 1
      BY <3>1
    <3> QED
      BY <3>1, <3>2 DEF Built, Lowest
  <2>3. pte(mem, cr3, Va(f)) = Pointing(f)
    BY <1>1, <1>3, <2>1, <2>2 DEF pte, Pointing
  <2>4. Walkable(mem, cr3, Va(f))
    BY <1>5, <1>6, <2>1, PointingNotEmpty DEF Walkable
  <2>5. Rights(mem, cr3, Va(f)) = RW
    BY <1>5, <1>6, <2>1, <2>3 DEF Rights, Pointing
  <2>6. Sees(f)
    BY <2>3, <2>4, <2>5 DEF Sees, Pointing
  <2> QED
    BY <2>6, <1>10
<1> QED
  BY <1>9, <1>10

LEMMA SeesAll ==
  ASSUME EntryOK, "PG" \in cr => Built /\ cr3 = Pgd, NEW f \in 0 .. E * PTS - 1
  PROVE  Sees(f)
<1> HIDE DEF E
<1>1. CASE "PG" \notin cr
  BY <1>1 DEF Sees
<1>2. CASE "PG" \in cr
  <2>1. E * PTS <= E * E
    BY Layout, SMT
  <2>2. f \in 0 .. E * E - 1 /\ f < E * PTS
    BY <2>1, Layout, SMT
  <2> QED
    BY <1>2, <2>2, BuiltMaps
<1> QED
  BY <1>1, <1>2

-----------------------------------------------------------------------------
(* boot.S and boot64.S.                                                     *)

(* The processor always sees its code and its stack.                        *)
LEMMA NoFault ==
  ASSUME BootInv, NEW from \in EntryPlaces, NEW to, Go(from, to)
  PROVE  pc = from /\ pc' = to
<1>1. pc = from
  BY DEF Go
<1>2. "PG" \in cr => Built /\ cr3 = Pgd
  BY <1>1 DEF BootInv, Loops, EntryPlaces, Early, Late
<1>3. Sees(Code) /\ Sees(Stack)
  BY <1>2, SeesAll, Layout DEF BootInv
<1> QED
  BY <1>1, <1>3 DEF Go

LEMMA InitBoot == InitMain => BootInv /\ Carried /\ MainInv
<1> SUFFICES ASSUME InitMain PROVE BootInv /\ Carried /\ MainInv
  OBVIOUS
<1>1. EntryOK
  BY EmptyType DEF InitMain, Init, EntryOK, Registers
<1>2. Loops
  <2>1. \A f \in Frames, e \in Idx : mem[f][e] = Empty
    BY DEF InitMain, Init
  <2>2. Pgd \in Frames /\ Pud \in Frames /\ Pmd \in Frames
    BY Layout, SMT
  <2> QED
    BY <2>1, <2>2 DEF InitMain, Init, Loops, Blank, Early, Late
<1>3. Carried
  BY DEF InitMain, Init, Carried, OnStack, InRegisters, Checked, InKernel
<1>4. Mapped
  BY DEF InitMain, Init, Mapped, BeforeStack, BeforeUnmap, AfterUnmap, AfterIdt, Handlers
<1>5. Gates(0)
  BY DEF InitMain, Gates, IDT_ENTRIES
<1>6. Trapping
  BY <1>5 DEF InitMain, Init, Trapping, AfterIdt, Handlers
<1>7. Reported
  BY DEF InitMain, Init, Reported, Unknown, Handlers
<1> QED
  BY <1>1, <1>2, <1>3, <1>4, <1>6, <1>7 DEF BootInv, MainInv

(* The steps that neither write tables nor run through the loops.           *)
LEMMA PlainEntry ==
  ASSUME BootInv, Carried,
         \/ Start \/ ClearScreen \/ Recover \/ EnableLongMode \/ EnablePaging
         \/ SetUpGdt \/ FarJump \/ LongModeEntry \/ LoadCr3,
         UNCHANGED args
  PROVE  BootInv' /\ Carried' /\ pc \in EntryPlaces /\ pc' \in EntryPlaces /\ pc # "startup64"
<1> USE DEF EntryPlaces, Early, Late
<1>1. ASSUME NEW from, NEW to, Go(from, to), from \in EntryPlaces
      PROVE  pc = from /\ pc' = to
  BY <1>1, NoFault
<1>2. DOMAIN r = Registers /\ EntryOK /\ Loops
  BY DEF BootInv, EntryOK
<1>3. CASE Start
  <2>1. pc = "_start" /\ pc' = "cls"
    BY <1>1, <1>3 DEF Start
  <2>2. BootInv'
    BY <1>2, <1>3, <2>1 DEF Start, BootInv, EntryOK, Loops, Blank, Built, Upper, Middle, Lowest
  <2>3. Carried'
    BY <1>3, <2>1 DEF Start, Carried, OnStack, InRegisters, Checked, InKernel, Passed
  <2> QED
    BY <2>1, <2>2, <2>3
<1>4. CASE ClearScreen
  <2>1. pc = "cls" /\ pc' = "upper"
    BY <1>1, <1>4 DEF ClearScreen
  <2>2. BootInv'
    BY <1>2, <1>4, <2>1 DEF ClearScreen, BootInv, EntryOK, Loops, Blank, Built, Upper, Middle, Lowest
  <2>3. Carried'
    BY <1>4, <2>1 DEF ClearScreen, Carried, OnStack, InRegisters, Checked, InKernel, Passed
  <2> QED
    BY <2>1, <2>2, <2>3
<1>5. CASE LoadCr3
  <2>1. pc = "cr3" /\ pc' = "recover"
    BY <1>1, <1>5 DEF LoadCr3
  <2>2. BootInv'
    BY <1>2, <1>5, <2>1 DEF LoadCr3, BootInv, EntryOK, Loops, Blank, Built, Upper, Middle, Lowest
  <2>3. Carried'
    BY <1>5, <2>1 DEF LoadCr3, Carried, OnStack, InRegisters, Checked, InKernel, Passed
  <2> QED
    BY <2>1, <2>2, <2>3
<1>6. CASE Recover
  <2>1. pc = "recover" /\ pc' = "pae"
    BY <1>1, <1>6 DEF Recover
  <2>2. BootInv'
    BY <1>2, <1>6, <2>1 DEF Recover, BootInv, EntryOK, Loops, Blank, Built, Upper, Middle, Lowest
  <2>3. r'.edi = stack[1] /\ r'.esi = stack[2]
    BY <1>2, <1>6 DEF Recover, Registers
  <2>4. stack[1] = loader.magic /\ stack[2] = loader.mbi
    BY <2>1 DEF Carried, OnStack
  <2>5. Carried'
    BY <1>6, <2>1, <2>3, <2>4 DEF Recover, Carried, OnStack, InRegisters, Checked, InKernel, Passed
  <2> QED
    BY <2>1, <2>2, <2>5
<1>7. CASE EnableLongMode
  <2>1. pc = "pae" /\ pc' = "paging"
    BY <1>1, <1>7 DEF EnableLongMode
  <2>2. BootInv'
    BY <1>2, <1>7, <2>1 DEF EnableLongMode, BootInv, EntryOK, Loops, Blank, Built, Upper, Middle, Lowest
  <2>3. r'.edi = r.edi /\ r'.esi = r.esi
    BY <1>2, <1>7 DEF EnableLongMode, Registers
  <2>4. Carried'
    BY <1>7, <2>1, <2>3 DEF EnableLongMode, Carried, OnStack, InRegisters, Checked, InKernel, Passed
  <2> QED
    BY <2>1, <2>2, <2>4
<1>8. CASE EnablePaging
  <2>1. pc = "paging" /\ pc' = IF {"PAE", "LME"} \subseteq cr THEN "lgdt" ELSE "reset"
    BY <1>1, <1>8 DEF EnablePaging
  <2>2. pc' = "lgdt"
    BY <1>2, <2>1 DEF Loops
  <2>3. BootInv'
    BY <1>2, <1>8, <2>1, <2>2 DEF EnablePaging, BootInv, EntryOK, Loops, Blank, Built, Upper, Middle, Lowest
  <2>4. Carried'
    BY <1>8, <2>1, <2>2 DEF EnablePaging, Carried, OnStack, InRegisters, Checked, InKernel, Passed
  <2> QED
    BY <2>1, <2>2, <2>3, <2>4
<1>9. ASSUME pc \in {"lgdt", "far_jump"} PROVE Sees(Gdt)
  BY <1>2, <1>9, SeesAll, Layout DEF Loops
<1>10. CASE SetUpGdt
  <2>1. pc = "lgdt" /\ pc' = IF Sees(Gdt) THEN "far_jump" ELSE "reset"
    BY <1>1, <1>10 DEF SetUpGdt
  <2>2. pc' = "far_jump"
    BY <1>9, <2>1
  <2>3. BootInv'
    BY <1>2, <1>10, <2>1, <2>2 DEF SetUpGdt, BootInv, EntryOK, Loops, Blank, Built, Upper, Middle, Lowest
  <2>4. Carried'
    BY <1>10, <2>1, <2>2 DEF SetUpGdt, Carried, OnStack, InRegisters, Checked, InKernel, Passed
  <2> QED
    BY <2>1, <2>2, <2>3, <2>4
<1>11. CASE FarJump
  <2>1. /\ pc = "far_jump"
        /\ pc' = IF Sees(Gdt) /\ IsLongCode(Segment(8)) THEN "long_mode_entry" ELSE "reset"
    BY <1>1, <1>11 DEF FarJump
  <2>2. IsLongCode(Segment(8))
    BY <1>2, <2>1, BootCode DEF Loops
  <2>3. pc' = "long_mode_entry"
    BY <1>9, <2>1, <2>2
  <2>4. BootInv'
    BY <1>2, <1>11, <2>1, <2>3 DEF FarJump, BootInv, EntryOK, Loops, Blank, Built, Upper, Middle, Lowest
  <2>5. Carried'
    BY <1>11, <2>1, <2>3 DEF FarJump, Carried, OnStack, InRegisters, Checked, InKernel, Passed
  <2> QED
    BY <2>1, <2>3, <2>4, <2>5
<1>12. CASE LongModeEntry
  <2>1. pc = "long_mode_entry" /\ pc' = "startup64"
    BY <1>1, <1>12 DEF LongModeEntry
  <2>2. BootInv'
    BY <1>2, <1>12, <2>1 DEF LongModeEntry, BootInv, EntryOK, Loops, Blank, Built, Upper, Middle, Lowest
  <2>3. r'.edi = r.edi /\ r'.esi = r.esi
    BY <1>2, <1>12 DEF LongModeEntry, Registers
  <2>4. Carried'
    BY <1>12, <2>1, <2>3 DEF LongModeEntry, Carried, OnStack, InRegisters, Checked, InKernel, Passed
  <2> QED
    BY <2>1, <2>2, <2>4
<1> QED
  BY <1>3, <1>4, <1>5, <1>6, <1>7, <1>8, <1>10, <1>11, <1>12

(* "establish upper page table"                                             *)
LEMMA UpperStep ==
  ASSUME BootInv, Carried, UpperTables, UNCHANGED args
  PROVE  BootInv' /\ Carried' /\ pc = "upper" /\ pc' = "pt_loop"
<1>1. pc = "upper" /\ pc' = "pt_loop"
  BY NoFault DEF UpperTables, EntryPlaces, Early
<1>2. DOMAIN r = Registers /\ mem \in Tabled /\ "PG" \notin cr
  BY <1>1 DEF BootInv, EntryOK, Tabled, Loops, Early
<1>3. /\ Pgd \in Nat /\ Pud \in Nat /\ Pmd \in Nat /\ Pgd # Pud /\ Pgd # Pmd /\ Pud # Pmd
      /\ Pgd \in Frames /\ Pud \in Frames /\ Pmd \in Frames /\ 0 \in Idx
  BY Layout, SMT
<1> DEFINE m1 == Store(mem, Pgd * E, Pointing(Pud))
           m2 == Store(m1, Pud * E, Pointing(Pmd))
<1>4. Pgd * E + 0 = Pgd * E /\ Pud * E + 0 = Pud * E
  BY <1>3, Layout, SMT
<1>5. m1 \in Tabled /\ \A g \in Frames, k \in Idx :
        m1[g][k] = IF g = Pgd /\ k = 0 THEN Pointing(Pud) ELSE mem[g][k]
  <2>1. Pointing(Pud) \in [addr : Nat, attr : SUBSET RW]
    BY <1>3, PointingType
  <2>2. /\ Store(mem, Pgd * E + 0, Pointing(Pud)) \in Tabled
        /\ \A g \in Frames, k \in Idx : Store(mem, Pgd * E + 0, Pointing(Pud))[g][k]
                          = IF g = Pgd /\ k = 0 THEN Pointing(Pud) ELSE mem[g][k]
    BY <1>2, <1>3, <2>1, StoreAt
  <2> QED
    BY <1>4, <2>2
<1>6. m2 \in Tabled /\ \A g \in Frames, k \in Idx :
        m2[g][k] = IF g = Pud /\ k = 0 THEN Pointing(Pmd) ELSE m1[g][k]
  <2> HIDE DEF m1
  <2>1. Pointing(Pmd) \in [addr : Nat, attr : SUBSET RW]
    BY <1>3, PointingType
  <2>2. /\ Store(m1, Pud * E + 0, Pointing(Pmd)) \in Tabled
        /\ \A g \in Frames, k \in Idx : Store(m1, Pud * E + 0, Pointing(Pmd))[g][k]
                          = IF g = Pud /\ k = 0 THEN Pointing(Pmd) ELSE m1[g][k]
    BY <1>3, <1>5, <2>1, StoreAt
  <2> QED
    BY <1>4, <2>2
<1>7. mem' = m2 /\ UNCHANGED <<loader, stack, cr, cr3, gdt>>
      /\ r' = [r EXCEPT !.ebx = 0, !.edx = Pt * E, !.eax = Pmd * E]
  BY DEF UpperTables
<1> HIDE DEF m1, m2
<1>8. r'.ebx = 0 /\ r'.edx = Pt * E /\ r'.eax = Pmd * E /\ DOMAIN r' = Registers
  BY <1>2, <1>7 DEF Registers
<1>9. Blank(Pgd) /\ Blank(Pud) /\ Blank(Pmd)
  BY <1>1 DEF BootInv, Loops, Early
<1>10. Upper'
  BY <1>3, <1>5, <1>6, <1>7, <1>9 DEF Upper, Blank
<1>11. Middle(0)'
  <2>1. \A e \in Idx : mem'[Pmd][e] = Empty
    BY <1>3, <1>5, <1>6, <1>7, <1>9 DEF Blank
  <2>2. \A e \in Idx : ~(e < 0)
    BY Layout
  <2> QED
    BY <2>1, <2>2 DEF Middle
<1>12. Lowest(0, 0)'
  <2>1. \A t \in 0 .. PTS - 1, e \in Idx : ~(t < 0 \/ (t = 0 /\ e < 0))
    BY Layout
  <2> QED
    BY <2>1 DEF Lowest
<1>13. AtPt(0)'
  <2>1. 0 * E = 0 /\ (Pt + 0) * E = Pt * E /\ Pmd * E + 0 = Pmd * E
    BY <1>3, Layout, SMT
  <2> QED
    BY <1>8, <1>10, <1>11, <1>12, <2>1 DEF AtPt
<1>14. BootInv'
  <2>1. EntryOK'
    BY <1>6, <1>7, <1>8 DEF BootInv, EntryOK, Tabled
  <2>2. 0 \in 0 .. PTS - 1
    BY Layout
  <2>3. Loops'
    BY <1>1, <1>2, <1>7, <1>13, <2>2 DEF Loops, Early, Late
  <2> QED
    BY <2>1, <2>3 DEF BootInv
<1>15. Carried'
  BY <1>1, <1>7 DEF Carried, OnStack, InRegisters, Checked, InKernel, Passed
<1> QED
  BY <1>1, <1>14, <1>15

(* The head of the outer loop: the table's entry in the third level.        *)
LEMMA PtStep ==
  ASSUME BootInv, Carried, PtLoop, UNCHANGED args
  PROVE  BootInv' /\ Carried' /\ pc = "pt_loop" /\ pc' = "pte_loop"
<1>1. pc = "pt_loop" /\ pc' = "pte_loop"
  BY NoFault DEF PtLoop, EntryPlaces
<1>2. DOMAIN r = Registers /\ mem \in Tabled /\ "PG" \notin cr
  BY <1>1 DEF BootInv, EntryOK, Tabled, Loops
<1>3. PICK j \in 0 .. PTS - 1 : AtPt(j)
  BY <1>1 DEF BootInv, Loops
<1>4. /\ Pgd \in Nat /\ Pud \in Nat /\ Pmd \in Nat /\ Pgd # Pmd /\ Pud # Pmd
      /\ Pgd \in Frames /\ Pud \in Frames /\ Pmd \in Frames
      /\ j \in Nat /\ j \in Idx /\ Pt + j \in Nat /\ Pt + j \in Frames
      /\ \A t \in 0 .. PTS - 1 : Pt + t # Pmd /\ Pt + t \in Frames
  BY Layout, SMT
<1>5. r.edx \div E = Pt + j
  <2>1. E \in Nat \ {0} /\ 0 \in 0 .. E - 1
    BY Layout
  <2>2. ((Pt + j) * E + 0) \div E = Pt + j
    BY <1>4, <2>1, DivMod
  <2>3. (Pt + j) * E + 0 = r.edx
    BY <1>3, <1>4, <2>1, SMT DEF AtPt
  <2> QED
    BY <2>2, <2>3
<1> DEFINE e1 == Pointing(Pt + j)
           m1 == Store(mem, Pmd * E + j, e1)
<1>6. m1 \in Tabled /\ \A g \in Frames, k \in Idx :
        m1[g][k] = IF g = Pmd /\ k = j THEN e1 ELSE mem[g][k]
  <2>1. e1 \in [addr : Nat, attr : SUBSET RW]
    BY <1>4, PointingType
  <2> HIDE DEF e1
  <2> QED
    BY <1>2, <1>4, <2>1, StoreAt
<1>7. mem' = m1 /\ UNCHANGED <<loader, stack, cr, cr3, gdt>>
      /\ r' = [r EXCEPT !.ecx = 0]
  BY <1>3, <1>5 DEF PtLoop, AtPt
<1> HIDE DEF m1
<1>8. /\ r'.ebx = r.ebx /\ r'.edx = r.edx /\ r'.eax = r.eax /\ r'.ecx = 0
      /\ DOMAIN r' = Registers
  BY <1>2, <1>7 DEF Registers
<1>9. Upper'
  BY <1>3, <1>4, <1>6, <1>7 DEF Upper, AtPt
<1>10. Middle(j + 1)'
  <2>1. \A e \in Idx : (e < j + 1 <=> e < j \/ e = j) /\ ~(j < j)
    BY <1>4, Layout
  <2>2. \A e \in Idx : mem[Pmd][e] = IF e < j THEN Pointing(Pt + e) ELSE Empty
    BY <1>3 DEF AtPt, Middle
  <2>3. \A e \in Idx : mem'[Pmd][e] = IF e = j THEN Pointing(Pt + j) ELSE mem[Pmd][e]
    BY <1>4, <1>6, <1>7
  <2> QED
    BY <2>1, <2>2, <2>3 DEF Middle
<1>11. Lowest(j, 0)'
  <2>1. \A t \in 0 .. PTS - 1, e \in Idx : mem'[Pt + t][e] = mem[Pt + t][e]
    BY <1>4, <1>6, <1>7
  <2> QED
    BY <1>3, <2>1 DEF AtPt, Lowest
<1>12. AtPte(j, 0)'
  <2>1. j * E + 0 = j * E /\ (Pt + j) * E + 0 = (Pt + j) * E
    BY <1>4, Layout, SMT
  <2> QED
    BY <1>3, <1>8, <1>9, <1>10, <1>11, <2>1 DEF AtPt, AtPte
<1>13. BootInv'
  <2>1. EntryOK'
    BY <1>6, <1>7, <1>8 DEF BootInv, EntryOK, Tabled
  <2>2. Loops'
    BY <1>1, <1>2, <1>7, <1>12, Layout DEF Loops, Early, Late
  <2> QED
    BY <2>1, <2>2 DEF BootInv
<1>14. Carried'
  BY <1>1, <1>7 DEF Carried, OnStack, InRegisters, Checked, InKernel, Passed
<1> QED
  BY <1>1, <1>13, <1>14

(* The inner loop: one entry of a lowest table, and the ends of both loops, *)
(* which are equalities: the counters hit them exactly.                     *)
LEMMA PteStep ==
  ASSUME BootInv, Carried, PteLoop, UNCHANGED args
  PROVE  /\ BootInv' /\ Carried'
         /\ pc = "pte_loop" /\ pc' \in {"pte_loop", "pt_loop", "cr3"}
<1> DEFINE last == r.ecx + 1 = E
           next == IF ~last THEN "pte_loop"
                   ELSE IF r.edx + 1 # PtEnd * E THEN "pt_loop" ELSE "cr3"
<1>1. pc = "pte_loop" /\ pc' = next
  BY NoFault DEF PteLoop, EntryPlaces
<1>2. DOMAIN r = Registers /\ mem \in Tabled /\ "PG" \notin cr
  BY <1>1 DEF BootInv, EntryOK, Tabled, Loops
<1>3. PICK j \in 0 .. PTS - 1, i \in Idx : AtPte(j, i)
  BY <1>1 DEF BootInv, Loops
<1>4. /\ Pgd \in Nat /\ Pud \in Nat /\ Pmd \in Nat /\ Pt \in Nat
      /\ Pgd \in Frames /\ Pud \in Frames /\ Pmd \in Frames
      /\ j \in Nat /\ j + 1 \in Nat /\ i \in Nat /\ E \in Nat /\ Pt + j \in Nat
      /\ \A t \in 0 .. PTS - 1 : /\ Pt + t \in Frames /\ Pt + t # Pgd /\ Pt + t # Pud
                                 /\ Pt + t # Pmd
                                 /\ (Pt + t = Pt + j <=> t = j)
  BY Layout, SMT
<1>5. /\ r.ecx = i /\ r.ebx = j * E + i /\ r.edx = (Pt + j) * E + i /\ r.eax = Pmd * E + j
      /\ Upper /\ Middle(j + 1) /\ Lowest(j, i)
  BY <1>3 DEF AtPte
<1>6. j * E + i \in Nat
  BY <1>4, SMT
<1> DEFINE e1 == Pointing(j * E + i)
           m1 == Store(mem, (Pt + j) * E + i, e1)
<1>7. m1 \in Tabled /\ \A g \in Frames, k \in Idx :
        m1[g][k] = IF g = Pt + j /\ k = i THEN e1 ELSE mem[g][k]
  <2>1. e1 \in [addr : Nat, attr : SUBSET RW]
    BY <1>6, PointingType
  <2> HIDE DEF e1
  <2> QED
    BY <1>2, <1>4, <2>1, StoreAt
<1>8. /\ mem' = m1 /\ UNCHANGED <<loader, stack, cr, cr3, gdt>>
      /\ r' = [r EXCEPT !.ebx = @ + 1, !.edx = @ + 1, !.ecx = @ + 1,
                        !.eax = IF last THEN @ + 1 ELSE @]
  BY <1>5 DEF PteLoop
<1> HIDE DEF m1
<1>9. /\ r'.ebx = r.ebx + 1 /\ r'.edx = r.edx + 1 /\ r'.ecx = r.ecx + 1
      /\ r'.eax = IF last THEN r.eax + 1 ELSE r.eax
      /\ DOMAIN r' = Registers
  <2> HIDE DEF last
  <2> QED
    BY <1>2, <1>8 DEF Registers
<1>10. Upper' /\ Middle(j + 1)'
  <2>1. \A e \in Idx : /\ mem'[Pgd][e] = mem[Pgd][e] /\ mem'[Pud][e] = mem[Pud][e]
                       /\ mem'[Pmd][e] = mem[Pmd][e]
    BY <1>4, <1>7, <1>8
  <2> QED
    BY <1>5, <2>1 DEF Upper, Middle
<1>11. \A t \in 0 .. PTS - 1, e \in Idx :
         (t < j \/ (t = j /\ e <= i)) => mem'[Pt + t][e] = Pointing(t * E + e)
  <2> SUFFICES ASSUME NEW t \in 0 .. PTS - 1, NEW e \in Idx, t < j \/ (t = j /\ e <= i)
               PROVE  mem'[Pt + t][e] = Pointing(t * E + e)
    OBVIOUS
  <2>1. mem'[Pt + t][e] = IF t = j /\ e = i THEN e1 ELSE mem[Pt + t][e]
    BY <1>4, <1>7, <1>8
  <2>2. CASE t = j /\ e = i
    BY <2>1, <2>2
  <2>3. CASE ~(t = j /\ e = i)
    <3>1. t < j \/ (t = j /\ e < i)
      BY <2>3, <1>4, Layout
    <3> HIDE DEF e1
    <3> QED
      BY <2>1, <2>3, <3>1, <1>5 DEF Lowest
  <2> QED
    BY <2>2, <2>3
<1>12. EntryOK'
  BY <1>7, <1>8, <1>9 DEF BootInv, EntryOK, Tabled
<1>13. Carried'
  BY <1>1, <1>8 DEF Carried, OnStack, InRegisters, Checked, InKernel, Passed
<1>14. CASE ~last
  <2>1. pc' = "pte_loop" /\ i + 1 \in Idx
    BY <1>1, <1>4, <1>5, <1>14, Layout
  <2>2. Lowest(j, i + 1)'
    <3>1. \A e \in Idx : e < i + 1 <=> e <= i
      BY <1>4, Layout
    <3> QED
      BY <1>11, <3>1 DEF Lowest
  <2>3. /\ r'.ecx = i + 1 /\ r'.ebx = j * E + (i + 1) /\ r'.edx = (Pt + j) * E + (i + 1)
        /\ r'.eax = Pmd * E + j
    BY <1>4, <1>5, <1>6, <1>9, <1>14, SMT
  <2>4. AtPte(j, i + 1)'
    BY <1>10, <2>2, <2>3 DEF AtPte
  <2>5. Loops'
    BY <1>2, <1>8, <2>1, <2>4 DEF Loops, Early, Late
  <2> QED
    BY <1>1, <1>12, <1>13, <2>1, <2>5 DEF BootInv
<1>15. CASE last
  <2>1. Lowest(j + 1, 0)'
    <3>1. \A t \in 0 .. PTS - 1, e \in Idx :
            (t < j + 1 \/ (t = j + 1 /\ e < 0)) => (t < j \/ (t = j /\ e <= i))
      BY <1>4, <1>5, <1>15, Layout
    <3> QED
      BY <1>11, <3>1 DEF Lowest
  <2>2. /\ r'.ebx = (j + 1) * E /\ r'.edx = (Pt + (j + 1)) * E /\ r'.eax = Pmd * E + (j + 1)
    <3>1. r.ebx + 1 = j * E + E /\ r.edx + 1 = (Pt + j) * E + E
      BY <1>4, <1>5, <1>15, SMT
    <3>2. j * E + E = (j + 1) * E /\ (Pt + j) * E + E = (Pt + (j + 1)) * E
      BY <1>4, SMT
    <3>3. r'.eax = (Pmd * E + j) + 1 /\ (Pmd * E + j) + 1 = Pmd * E + (j + 1)
      BY <1>4, <1>5, <1>9, <1>15, SMT
    <3> QED
      BY <1>9, <3>1, <3>2, <3>3
  <2>3. r.edx + 1 = PtEnd * E <=> j + 1 = PTS
    <3>1. r.edx + 1 = (Pt + (j + 1)) * E
      BY <1>9, <2>2
    <3>2. PtEnd = Pt + PTS /\ PTS \in Nat /\ 1 < E
      BY Layout
    <3>3. (Pt + (j + 1)) * E = (Pt + PTS) * E <=> j + 1 = PTS
      <4>1. ASSUME NEW x \in Nat, NEW y \in Nat, x * E = y * E PROVE x = y
        BY <1>4, <3>2, <4>1, SMT
      <4> QED
        BY <1>4, <3>2, <4>1
    <3> QED
      BY <3>1, <3>2, <3>3
  <2>4. CASE j + 1 = PTS
    <3>1. pc' = "cr3"
      BY <1>1, <1>15, <2>3, <2>4
    <3>2. Built'
      BY <1>10, <2>1, <2>4 DEF Built
    <3>3. Loops'
      BY <1>2, <1>8, <3>1, <3>2 DEF Loops, Early, Late
    <3> QED
      BY <1>1, <1>12, <1>13, <3>1, <3>3 DEF BootInv
  <2>5. CASE j + 1 # PTS
    <3>1. pc' = "pt_loop" /\ j + 1 \in 0 .. PTS - 1
      BY <1>1, <1>4, <1>15, <2>3, <2>5, Layout
    <3>2. AtPt(j + 1)'
      BY <1>10, <2>1, <2>2 DEF AtPt
    <3>3. Loops'
      BY <1>2, <1>8, <3>1, <3>2 DEF Loops, Early, Late
    <3> QED
      BY <1>1, <1>12, <1>13, <3>1, <3>3 DEF BootInv
  <2> QED
    BY <2>4, <2>5
<1> QED
  BY <1>14, <1>15

LEMMA EntryStep ==
  ASSUME IInv, Entry64, UNCHANGED mainVars
  PROVE  IInv' /\ pc \in EntryPlaces /\ pc' \in EntryPlaces
<1>1. UNCHANGED <<rsp, rbp, saved, args, maps, has_map, idt, loaded, n, nmi, vector,
                  reports, lost>>
  BY DEF mainVars
<1>2. BootInv' /\ Carried' /\ pc \in EntryPlaces /\ pc' \in EntryPlaces
  <2>1. CASE UpperTables
    BY <1>1, <2>1, UpperStep DEF IInv, EntryPlaces, Early
  <2>2. CASE PtLoop
    BY <1>1, <2>2, PtStep DEF IInv, EntryPlaces
  <2>3. CASE PteLoop
    BY <1>1, <2>3, PteStep DEF IInv, EntryPlaces
  <2>4. CASE ~(UpperTables \/ PtLoop \/ PteLoop)
    BY <1>1, <2>4, PlainEntry DEF IInv, Entry64
  <2> QED
    BY <2>1, <2>2, <2>3, <2>4
<1>3. Mapped'
  BY <1>1, <1>2 DEF IInv, MainInv, Mapped, EntryPlaces, Early, Late, BeforeStack,
     BeforeUnmap, AfterUnmap, AfterIdt, Handlers
<1>4. Trapping'
  BY <1>1, <1>2 DEF IInv, MainInv, Trapping, EntryPlaces, Early, Late, BeforeIdt, BeforeStack,
     BeforeUnmap, AfterIdt, Handlers, Gates
<1>5. Reported'
  BY <1>1, <1>2 DEF IInv, MainInv, Reported, EntryPlaces, Early, Late
<1> QED
  BY <1>2, <1>3, <1>4, <1>5 DEF IInv, MainInv

-----------------------------------------------------------------------------
(* startup64, main and the handlers.                                        *)

(* Before the IDT is loaded every exception resets the machine.             *)
LEMMA ThroughEarly ==
  ASSUME ~loaded, NEW v PROVE Through(v) = "reset"
  BY DEF Through, Usable

(* Once the gates are set and loaded, every exception reaches the handler   *)
(* of its gate, and those without a gate that of #GP.                      *)
LEMMA ThroughLoaded ==
  ASSUME Gates(TRAP_CP + 1), InImage, loaded, gdt = "kernel", NEW v \in 0 .. IDT_ENTRIES - 1
  PROVE  Through(v) = IF v = TRAP_PF THEN "page_fault_handler" ELSE "null_intr_handler"
<1>1. Writable(rsp) /\ "image" \in maps
  BY DEF InImage, Writable
<1>2. /\ page_fault_handler \in 0 .. W * W * W * W - 1
      /\ null_intr_handler \in 0 .. W * W * W * W - 1
      /\ page_fault_handler # null_intr_handler
  <2>1. /\ page_fault_handler \in 1 .. W * W * W * W - 1
        /\ null_intr_handler \in 1 .. W * W * W * W - 1
        /\ page_fault_handler # null_intr_handler
    BY MainAssumption
  <2> QED
    BY <2>1, WordAssumption, SMT
<1>3. DOMAIN idt = 0 .. IDT_ENTRIES - 1
      /\ \A g \in 0 .. IDT_ENTRIES - 1 :
           idt[g] = IF g < TRAP_CP + 1
                    THEN KERNEL_INTR_GATE_INIT(HandlerOf(g), DEFAULT_KERNEL_CS_SELECTOR)
                    ELSE NoGate
  BY DEF Gates
<1>4. ASSUME NEW g \in 0 .. TRAP_CP
      PROVE  /\ Usable(g)
             /\ Handler(idt[g]) = IF g = TRAP_PF THEN "page_fault_handler"
                                  ELSE "null_intr_handler"
  <2>1. g \in 0 .. IDT_ENTRIES - 1 /\ g < TRAP_CP + 1
    BY DEF TRAP_CP, IDT_ENTRIES
  <2>2. idt[g] = KERNEL_INTR_GATE_INIT(HandlerOf(g), DEFAULT_KERNEL_CS_SELECTOR)
    BY <1>3, <2>1
  <2>3. idt[g].p = 1 /\ idt[g].type = SEG_TYPE_SYS_80386_INTR_GATE /\ idt[g].selector = 8
    BY <2>2 DEF KERNEL_INTR_GATE_INIT, DEFAULT_KERNEL_CS_SELECTOR
  <2>4. Usable(g)
    BY <1>1, <1>3, <2>1, <2>3, KernelCode DEF Usable
  <2>5. HandlerOf(g) \in 0 .. W * W * W * W - 1
    BY <1>2 DEF HandlerOf
  <2>6. Target(idt[g]) = HandlerOf(g)
    BY <2>2, <2>5, GateTarget
  <2>7. Handler(idt[g]) = IF g = TRAP_PF THEN "page_fault_handler" ELSE "null_intr_handler"
    BY <1>2, <2>6 DEF Handler, HandlerOf
  <2> QED
    BY <2>4, <2>7
<1>5. CASE v \in 0 .. TRAP_CP
  BY <1>4, <1>5 DEF Through
<1>6. CASE v \notin 0 .. TRAP_CP
  <2>1. ~(v < TRAP_CP + 1) /\ v # TRAP_PF
    BY <1>6 DEF TRAP_CP, TRAP_PF, IDT_ENTRIES
  <2>2. idt[v].p = 0
    BY <1>3, <2>1 DEF NoGate
  <2>3. ~Usable(v)
    BY <2>2 DEF Usable
  <2>4. TRAP_GP \in 0 .. TRAP_CP /\ TRAP_GP # TRAP_PF
    BY DEF TRAP_GP, TRAP_CP, TRAP_PF
  <2> QED
    BY <1>4, <2>1, <2>3, <2>4 DEF Through
<1> QED
  BY <1>5, <1>6

(* What main does leaves the tables of boot.S alone.                        *)
LEMMA MainBoot ==
  ASSUME BootInv, UNCHANGED machine, pc' \notin EntryPlaces
  PROVE  BootInv'
<1>1. UNCHANGED <<loader, r, mem, cr>>
  BY DEF machine
<1>2. pc' \notin Early \cup Late \cup {"pt_loop", "pte_loop", "cr3"}
  BY DEF EntryPlaces
<1>3. EntryOK'
  BY <1>1 DEF BootInv, EntryOK
<1>4. "PG" \in cr' => Built'
  BY <1>1 DEF BootInv, Loops, Built, Upper, Middle, Lowest
<1>5. Loops'
  BY <1>2, <1>4 DEF Loops, Early, Late
<1> QED
  BY <1>3, <1>5 DEF BootInv

(* A step of the kernel with its stack in the image touches what is mapped. *)
LEMMA KernelRuns ==
  ASSUME InImage, NEW from, NEW uses, uses \subseteq maps, NEW to, Kernel(from, uses, to)
  PROVE  pc = from /\ pc' = to
<1>1. Writable("image") /\ Writable(rsp) /\ rbp \in maps /\ uses \cup {"image"} \subseteq maps
  BY DEF InImage, Writable
<1> QED
  BY <1>1 DEF Kernel, Run

LEMMA BootRuns ==
  ASSUME "low" \in maps, rsp \in maps, rsp # "image", rbp \in maps,
         NEW from, NEW to, Boot(from, {}, to)
  PROVE  pc = from /\ pc' = to
<1>1. Writable("low") /\ Writable(rsp) /\ {} \cup {"low"} \subseteq maps
  BY DEF Writable
<1> QED
  BY <1>1 DEF Boot, Run

(* The steps of startup64.                                                  *)
LEMMA StartupStep ==
  ASSUME IInv, \/ startup64 \/ boot_tty_init \/ CheckArgs \/ boot_mm_init \/ Remap
               \/ Leave \/ CallMain
  PROVE  IInv' /\ (pc' = "reset" => pc = "leave" /\ loader.wp)
<1> USE DEF Handlers
<1>1. Mapped /\ Trapping /\ Reported /\ Carried /\ BootInv
  BY DEF IInv, MainInv
<1>2. CASE startup64
  <2>1. pc = "startup64" /\ pc' = "boot_tty_init"
        /\ UNCHANGED <<machine, cr3, gdt, irqs, rsp, has_map, traps>>
    BY <1>2 DEF startup64
  <2>2. BootInv'
    BY <1>1, <2>1, MainBoot DEF EntryPlaces, Early, Late
  <2>3. "PG" \in cr => Built /\ cr3 = Pgd
    BY <1>1, <2>1 DEF BootInv, Loops, Late
  <2>4. \A f \in {Code, Stack, Gdt} : Sees(f)
    BY <1>1, <2>3, SeesAll, Layout DEF BootInv
  <2>5. maps' = {"low"} /\ saved' = <<rbp>> /\ rbp' = rsp
        /\ args' = [magic |-> r.edi, mbi |-> r.esi]
    BY <1>2, <2>4 DEF startup64
  <2>6. rsp = "low" /\ rbp = "low"
    BY <1>1, <2>1 DEF Mapped, EntryPlaces, Late
  <2>7. Mapped'
    BY <2>1, <2>5, <2>6 DEF Mapped, EntryPlaces, Early, Late, BeforeStack, BeforeUnmap,
       AfterUnmap, AfterIdt
  <2>8. UNCHANGED loader
    BY <2>1 DEF machine
  <2>9. args' = Passed /\ UNCHANGED Passed
    BY <1>1, <2>1, <2>5, <2>8 DEF Carried, InRegisters, Passed
  <2>10. Carried'
    BY <2>1, <2>9 DEF Carried, OnStack, InRegisters, Checked, InKernel
  <2>11. Trapping' /\ Reported'
    BY <1>1, <2>1 DEF Trapping, Reported, traps, EntryPlaces, Early, Late, BeforeIdt,
       BeforeStack, BeforeUnmap, AfterIdt, Gates
  <2> QED
    BY <2>1, <2>2, <2>7, <2>10, <2>11 DEF IInv, MainInv
<1>3. CASE boot_tty_init
  <2>1. pc = "boot_tty_init" /\ pc' = "checks"
    BY <1>1, <1>3, BootRuns DEF boot_tty_init, Boot, Run, Mapped, BeforeStack
  <2>2. UNCHANGED <<machine, cr3, gdt, rsp, rbp, saved, args, maps, traps, loader>>
    BY <1>3 DEF boot_tty_init, calls, frame, machine
  <2>3. BootInv'
    BY <1>1, <2>1, <2>2, MainBoot DEF EntryPlaces, Early, Late
  <2>4. Mapped'
    BY <1>1, <2>1, <2>2 DEF Mapped, EntryPlaces, Early, Late, BeforeStack, BeforeUnmap,
       AfterUnmap, AfterIdt
  <2>5. Carried'
    BY <1>1, <2>1, <2>2 DEF Carried, OnStack, InRegisters, Checked, InKernel, Passed
  <2>6. Trapping' /\ Reported'
    BY <1>1, <2>1, <2>2 DEF Trapping, Reported, traps, BeforeIdt,
       BeforeStack, BeforeUnmap, AfterIdt, Gates
  <2> QED
    BY <2>1, <2>3, <2>4, <2>5, <2>6 DEF IInv, MainInv
<1>4. CASE CheckArgs
  <2>1. pc = "checks" /\ pc' = IF args.magic = MULTIBOOT2_BOOTLOADER_MAGIC /\ Aligned
                               THEN "boot_mm_init" ELSE "hang"
    BY <1>1, <1>4, BootRuns DEF CheckArgs, Boot, Run, Mapped, BeforeStack
  <2>2. UNCHANGED <<machine, cr3, gdt, rsp, rbp, saved, args, maps, traps, loader>>
    BY <1>4 DEF CheckArgs, calls, frame, machine
  <2>3. BootInv'
    BY <1>1, <2>1, <2>2, MainBoot DEF EntryPlaces, Early, Late
  <2>4. Mapped'
    BY <1>1, <2>1, <2>2 DEF Mapped, EntryPlaces, Early, Late, BeforeStack, BeforeUnmap,
       AfterUnmap, AfterIdt
  <2>5. args.magic = loader.magic /\ args.mbi = loader.mbi
    BY <1>1, <2>1 DEF Carried, Passed
  <2>6. Carried'
    BY <1>1, <2>1, <2>2, <2>5 DEF Carried, OnStack, InRegisters, Checked, InKernel, Passed,
       Aligned
  <2>7. Trapping' /\ Reported'
    BY <1>1, <2>1, <2>2 DEF Trapping, Reported, traps, BeforeIdt, EntryPlaces, Early, Late,
       BeforeStack, BeforeUnmap, AfterIdt, Gates
  <2> QED
    BY <2>1, <2>3, <2>4, <2>6, <2>7 DEF IInv, MainInv
<1>5. CASE boot_mm_init
  <2>1. pc = "boot_mm_init" /\ pc' = "remap"
    BY <1>1, <1>5, BootRuns DEF boot_mm_init, Boot, Run, Mapped, BeforeStack
  <2>2. UNCHANGED <<machine, gdt, rsp, args, traps, loader>>
        /\ maps' = Parts /\ saved' = <<rbp>> \o saved /\ rbp' = rsp
    BY <1>5 DEF boot_mm_init, machine, Parts
  <2>3. BootInv'
    BY <1>1, <2>1, <2>2, MainBoot DEF EntryPlaces, Early, Late
  <2>4. rsp = "low" /\ rbp = "low" /\ saved = <<"low">>
    BY <1>1, <2>1 DEF Mapped, BeforeStack
  <2>5. Head(saved') = "low"
    <3>1. <<"low">> \in Seq({"low"}) /\ Len(<<"low">>) = 1 /\ <<"low">>[1] = "low"
      BY SMT
    <3>2. ASSUME NEW s \in Seq({"low"}), Len(s) = 1, s[1] = "low"
          PROVE  Head(s \o s) = "low"
      BY <3>2, SMT
    <3> QED
      BY <2>2, <2>4, <3>1, <3>2
  <2>6. Mapped'
    BY <2>1, <2>2, <2>4, <2>5 DEF Mapped, EntryPlaces, Early, Late, BeforeStack, BeforeUnmap,
       AfterUnmap, AfterIdt
  <2>7. Carried'
    BY <1>1, <2>1, <2>2 DEF Carried, OnStack, InRegisters, Checked, InKernel, Passed
  <2>8. Trapping' /\ Reported'
    BY <1>1, <2>1, <2>2 DEF Trapping, Reported, traps, BeforeIdt,
       BeforeStack, BeforeUnmap, AfterIdt, Gates
  <2> QED
    BY <2>1, <2>3, <2>6, <2>7, <2>8 DEF IInv, MainInv
<1>6. CASE Remap
  <2>1. pc = "remap" /\ pc' = "leave"
    BY <1>1, <1>6, BootRuns DEF Remap, Boot, Run, Mapped, Parts
  <2>2. UNCHANGED <<machine, gdt, saved, maps, args, traps, loader>>
        /\ rsp' = "image" /\ rbp' = "image"
    BY <1>6 DEF Remap, machine
  <2>3. BootInv'
    BY <1>1, <2>1, <2>2, MainBoot DEF EntryPlaces, Early, Late
  <2>4. Mapped'
    BY <1>1, <2>1, <2>2 DEF Mapped, EntryPlaces, Early, Late, BeforeStack, BeforeUnmap,
       AfterUnmap, AfterIdt
  <2>5. Carried'
    BY <1>1, <2>1, <2>2 DEF Carried, OnStack, InRegisters, Checked, InKernel, Passed
  <2>6. Trapping' /\ Reported'
    BY <1>1, <2>1, <2>2 DEF Trapping, Reported, traps, BeforeIdt,
       BeforeStack, BeforeUnmap, AfterIdt, Gates
  <2> QED
    BY <2>1, <2>3, <2>4, <2>5, <2>6 DEF IInv, MainInv
<1>7. CASE Leave
  <2>1. pc = "leave" /\ maps = Parts /\ rsp = "image" /\ rbp = "image"
        /\ Head(saved) = "low"
    BY <1>1, <1>7 DEF Leave, Boot, Run, Mapped
  <2>2. pc' = IF ~loader.wp THEN "call_main" ELSE "reset"
    <3>1. ~loaded
      BY <1>1, <2>1 DEF Trapping, AfterIdt
    <3> QED
      BY <1>7, <2>1, <3>1, ThroughEarly DEF Leave, Boot, Run, Parts, Writable
  <2>3. UNCHANGED <<machine, gdt, maps, args, traps, loader>>
        /\ rsp' = rbp /\ rbp' = Head(saved)
    BY <1>7 DEF Leave, machine
  <2>4. rbp' = "low"
    BY <2>1, <2>3
  <2>5. BootInv'
    BY <1>1, <2>2, <2>3, MainBoot DEF EntryPlaces, Early, Late
  <2>6. Mapped'
    BY <1>1, <2>1, <2>2, <2>3, <2>4 DEF Mapped, EntryPlaces, Early, Late, BeforeStack,
       BeforeUnmap, AfterUnmap, AfterIdt
  <2>7. Carried'
    BY <1>1, <2>1, <2>2, <2>3 DEF Carried, OnStack, InRegisters, Checked, InKernel, Passed
  <2>8. Trapping' /\ Reported'
    BY <1>1, <2>1, <2>2, <2>3 DEF Trapping, Reported, traps, BeforeIdt, EntryPlaces, Early, Late,
       BeforeStack, BeforeUnmap, AfterIdt, Gates
  <2> QED
    BY <2>1, <2>2, <2>5, <2>6, <2>7, <2>8 DEF IInv, MainInv
<1>8. CASE CallMain
  <2>1. pc = "call_main" /\ maps = Parts /\ rsp = "image" /\ rbp = "low" /\ ~loader.wp
    BY <1>1, <1>8 DEF CallMain, Boot, Run, Mapped
  <2>2. pc' = "tty_init"
    BY <1>8, <2>1 DEF CallMain, Boot, Run, Parts, Writable
  <2>3. UNCHANGED <<machine, gdt, maps, rsp, args, traps, loader>> /\ rbp' = rsp
    BY <1>8 DEF CallMain, machine
  <2>4. BootInv'
    BY <1>1, <2>2, <2>3, MainBoot DEF EntryPlaces, Early, Late
  <2>5. Mapped'
    BY <2>1, <2>2, <2>3 DEF Mapped, EntryPlaces, Early, Late, BeforeStack,
       BeforeUnmap, AfterUnmap, AfterIdt, InImage, Parts
  <2>6. Carried'
    BY <1>1, <2>1, <2>2, <2>3 DEF Carried, OnStack, InRegisters, Checked, InKernel, Passed
  <2>7. Trapping' /\ Reported'
    BY <1>1, <2>1, <2>2, <2>3 DEF Trapping, Reported, traps, BeforeIdt, EntryPlaces, Early, Late,
       BeforeStack, BeforeUnmap, AfterIdt, Gates
  <2> QED
    BY <2>2, <2>4, <2>5, <2>6, <2>7 DEF IInv, MainInv
<1> QED
  BY <1>2, <1>3, <1>4, <1>5, <1>6, <1>7, <1>8

(* The steps of main up to the load of the IDT.                             *)
LEMMA MainStep ==
  ASSUME IInv, tty_init \/ mm_init \/ Unmap \/ task_init \/ gdt_init \/ SetHandler
  PROVE  IInv' /\ pc' # "reset"
<1> USE DEF Handlers
<1>1. Mapped /\ Trapping /\ Reported /\ Carried /\ BootInv
  BY DEF IInv, MainInv
<1>2. ASSUME UNCHANGED <<loader, args>>, pc' \in Checked => pc \in Checked,
             pc' \notin EntryPlaces \cup {"boot_tty_init", "checks"}
      PROVE  Carried'
  BY <1>1, <1>2 DEF Carried, EntryPlaces, Early, Late, OnStack, InRegisters, Passed
<1>3. CASE tty_init
  <2>1. pc = "tty_init" /\ pc' = "mm_init"
    BY <1>1, <1>3, KernelRuns DEF tty_init, Kernel, Run, Mapped, BeforeUnmap, Parts
  <2>2. UNCHANGED <<machine, cr3, gdt, rsp, rbp, saved, args, maps, traps, loader>>
    BY <1>3 DEF tty_init, calls, frame, machine
  <2>3. BootInv' /\ Carried'
    BY <1>1, <1>2, <2>1, <2>2, MainBoot DEF EntryPlaces, Early, Late, Checked, InKernel
  <2>4. Mapped'
    BY <1>1, <2>1, <2>2 DEF Mapped, EntryPlaces, Early, Late, BeforeStack, BeforeUnmap,
       AfterUnmap, AfterIdt, InImage
  <2>5. Trapping' /\ Reported'
    BY <1>1, <2>1, <2>2 DEF Trapping, Reported, traps, BeforeIdt,
       BeforeStack, BeforeUnmap, AfterIdt, Gates
  <2> QED
    BY <2>1, <2>3, <2>4, <2>5 DEF IInv, MainInv
<1>4. CASE mm_init
  <2>1. pc = "mm_init" /\ pc' = IF has_map THEN "unmap" ELSE "hang"
    BY <1>1, <1>4, KernelRuns DEF mm_init, Kernel, Run, Mapped, BeforeUnmap, Parts
  <2>2. UNCHANGED <<machine, cr3, gdt, rsp, rbp, saved, args, maps, traps, loader>>
    BY <1>4 DEF mm_init, calls, frame, machine
  <2>3. BootInv' /\ Carried'
    BY <1>1, <1>2, <2>1, <2>2, MainBoot DEF EntryPlaces, Early, Late, Checked, InKernel
  <2>4. Mapped'
    BY <1>1, <2>1, <2>2 DEF Mapped, EntryPlaces, Early, Late, BeforeStack, BeforeUnmap,
       AfterUnmap, AfterIdt, InImage
  <2>5. Trapping' /\ Reported'
    BY <1>1, <2>1, <2>2 DEF Trapping, Reported, traps, BeforeIdt, EntryPlaces, Early, Late,
       BeforeStack, BeforeUnmap, AfterIdt, Gates
  <2> QED
    BY <2>1, <2>3, <2>4, <2>5 DEF IInv, MainInv
<1>5. CASE Unmap
  <2>1. pc = "unmap" /\ pc' = "task_init"
    BY <1>1, <1>5, KernelRuns DEF Unmap, Kernel, Run, Mapped, BeforeUnmap, Parts
  <2>2. UNCHANGED <<machine, cr3, gdt, rsp, rbp, saved, args, traps, loader>>
        /\ maps' \in {maps, maps \ {"low"}}
    BY <1>5 DEF Unmap, calls, frame, machine
  <2>3. BootInv' /\ Carried'
    BY <1>1, <1>2, <2>1, <2>2, MainBoot DEF EntryPlaces, Early, Late, Checked, InKernel
  <2>4. InImage'
    BY <1>1, <2>1, <2>2 DEF Mapped, BeforeUnmap, InImage, Parts
  <2>5. Mapped'
    BY <2>1, <2>4 DEF Mapped, EntryPlaces, Early, Late, BeforeStack, BeforeUnmap,
       AfterUnmap, AfterIdt
  <2>6. Trapping' /\ Reported'
    BY <1>1, <2>1, <2>2 DEF Trapping, Reported, traps, BeforeIdt,
       BeforeStack, BeforeUnmap, AfterIdt, Gates
  <2> QED
    BY <2>1, <2>3, <2>5, <2>6 DEF IInv, MainInv
<1>6. CASE task_init
  <2>1. pc = "task_init" /\ pc' = "gdt_init" /\ InImage
    BY <1>1, <1>6, KernelRuns DEF task_init, Kernel, Run, Mapped, AfterUnmap, InImage
  <2>2. UNCHANGED <<machine, cr3, gdt, rsp, rbp, saved, args, maps, traps, loader>>
    BY <1>6 DEF task_init, calls, frame, machine
  <2>3. BootInv' /\ Carried'
    BY <1>1, <1>2, <2>1, <2>2, MainBoot DEF EntryPlaces, Early, Late, Checked, InKernel
  <2>4. Mapped'
    BY <2>1, <2>2 DEF Mapped, EntryPlaces, Early, Late, BeforeStack, BeforeUnmap,
       AfterUnmap, AfterIdt, InImage
  <2>5. Trapping' /\ Reported'
    BY <1>1, <2>1, <2>2 DEF Trapping, Reported, traps, BeforeIdt,
       BeforeStack, BeforeUnmap, AfterIdt, Gates
  <2> QED
    BY <2>1, <2>3, <2>4, <2>5 DEF IInv, MainInv
<1>7. CASE gdt_init
  <2>1. pc = "gdt_init" /\ pc' = "idt_init" /\ InImage
    BY <1>1, <1>7, KernelRuns DEF gdt_init, Kernel, Run, Mapped, AfterUnmap
  <2>2. UNCHANGED <<machine, cr3, rsp, rbp, saved, args, maps, traps, loader>>
        /\ gdt' = "kernel"
    BY <1>7 DEF gdt_init, calls, frame, machine
  <2>3. BootInv' /\ Carried'
    BY <1>1, <1>2, <2>1, <2>2, MainBoot DEF EntryPlaces, Early, Late, Checked, InKernel
  <2>4. Mapped'
    BY <2>1, <2>2 DEF Mapped, EntryPlaces, Early, Late, BeforeStack, BeforeUnmap,
       AfterUnmap, AfterIdt, InImage
  <2>5. Trapping'
    <3>1. n = 0 /\ Gates(n) /\ ~loaded
      BY <1>1, <2>1 DEF Trapping, BeforeIdt, AfterIdt
    <3>2. n' \in 0 .. TRAP_CP /\ Gates(n)' /\ ~loaded'
      BY <2>2, <3>1 DEF traps, Gates, TRAP_CP
    <3> QED
      BY <2>1, <2>2, <3>2 DEF Trapping, BeforeIdt, EntryPlaces, Early, Late, BeforeStack,
         BeforeUnmap, AfterIdt
  <2>6. Reported'
    BY <1>1, <2>1, <2>2 DEF Reported, traps
  <2> QED
    BY <2>1, <2>3, <2>4, <2>5, <2>6 DEF IInv, MainInv
<1>8. CASE SetHandler
  <2>1. pc = "idt_init" /\ pc' = (IF n = TRAP_CP THEN "load_idt" ELSE "idt_init") /\ InImage
    <3> DEFINE to == IF n = TRAP_CP THEN "load_idt" ELSE "idt_init"
    <3>1. Kernel("idt_init", {}, to)
      BY <1>8 DEF SetHandler
    <3>2. pc = "idt_init"
      BY <3>1 DEF Kernel, Run
    <3>3. InImage
      BY <1>1, <3>2 DEF Mapped, AfterUnmap
    <3> HIDE DEF to
    <3>4. pc' = to
      BY <3>1, <3>3, KernelRuns
    <3> QED
      BY <3>2, <3>3, <3>4 DEF to
  <2>2. UNCHANGED <<machine, cr3, gdt, rsp, rbp, saved, args, maps, loader, loaded, nmi, vector,
                    reports, lost>>
        /\ n' = n + 1 /\ set_intr_handler(n)
    BY <1>8 DEF SetHandler, calls, frame, machine
  <2>3. BootInv' /\ Carried'
    BY <1>1, <1>2, <2>1, <2>2, MainBoot DEF EntryPlaces, Early, Late, Checked, InKernel
  <2>4. Mapped'
    BY <2>1, <2>2 DEF Mapped, EntryPlaces, Early, Late, BeforeStack, BeforeUnmap,
       AfterUnmap, AfterIdt, InImage
  <2>5. gdt = "kernel" /\ n \in 0 .. TRAP_CP /\ Gates(n) /\ ~loaded
    BY <1>1, <2>1 DEF Trapping, AfterIdt
  <2>6. Gates(n)'
    <3> DEFINE g(v) == KERNEL_INTR_GATE_INIT(HandlerOf(v), DEFAULT_KERNEL_CS_SELECTOR)
    <3>1. idt = [v \in 0 .. IDT_ENTRIES - 1 |-> IF v < n THEN g(v) ELSE NoGate]
      BY <2>5 DEF Gates
    <3>2. idt' = [idt EXCEPT ![n] = g(n)]
      BY <2>2 DEF set_intr_handler
    <3>3. \A v \in 0 .. IDT_ENTRIES - 1 : v < n + 1 <=> v < n \/ v = n
      BY <2>5 DEF IDT_ENTRIES, TRAP_CP
    <3> HIDE DEF g
    <3>4. idt' = [v \in 0 .. IDT_ENTRIES - 1 |-> IF v < n' THEN g(v) ELSE NoGate]
      BY <2>2, <3>1, <3>2, <3>3
    <3> QED
      BY <3>4 DEF g, Gates, HandlerOf
  <2>7. Trapping'
    <3>1. CASE n = TRAP_CP
      <4>1. pc' = "load_idt" /\ Gates(TRAP_CP + 1)'
        BY <2>1, <2>2, <2>6, <3>1 DEF Gates
      <4> QED
        BY <2>2, <2>5, <4>1 DEF Trapping, BeforeIdt, EntryPlaces, Early, Late, BeforeStack,
           BeforeUnmap, AfterIdt
    <3>2. CASE n # TRAP_CP
      <4>1. pc' = "idt_init" /\ n' \in 0 .. TRAP_CP
        BY <2>1, <2>2, <2>5, <3>2 DEF TRAP_CP
      <4> QED
        BY <2>2, <2>5, <2>6, <4>1 DEF Trapping, BeforeIdt, EntryPlaces, Early, Late, BeforeStack,
           BeforeUnmap, AfterIdt
    <3> QED
      BY <3>1, <3>2
  <2>8. Reported'
    BY <1>1, <2>1, <2>2 DEF Reported
  <2> QED
    BY <2>1, <2>3, <2>4, <2>7, <2>8 DEF IInv, MainInv
<1> QED
  BY <1>3, <1>4, <1>5, <1>6, <1>7, <1>8

(* The load of the IDT, the loop, and the handlers.                         *)
LEMMA TrapStep ==
  ASSUME IInv, load_idt \/ Cli \/ Loop \/ Report
  PROVE  IInv' /\ pc' # "reset"
<1>1. Mapped /\ Trapping /\ Reported /\ Carried /\ BootInv
  BY DEF IInv, MainInv
<1>2. ASSUME UNCHANGED <<loader, args>>, pc' \in Checked => pc \in Checked,
             pc' \notin EntryPlaces \cup {"boot_tty_init", "checks"}
      PROVE  Carried'
  BY <1>1, <1>2 DEF Carried, EntryPlaces, Early, Late, OnStack, InRegisters, Passed
<1>3. CASE load_idt
  <2>1. pc = "load_idt" /\ pc' = "cli" /\ InImage
    BY <1>1, <1>3, KernelRuns DEF load_idt, Kernel, Run, Mapped, AfterUnmap
  <2>2. UNCHANGED <<machine, cr3, gdt, rsp, rbp, saved, args, maps, loader, idt, nmi, vector,
                    reports, lost>>
        /\ loaded' = TRUE /\ n' = 0
    BY <1>3 DEF load_idt, calls, frame, machine
  <2>3. BootInv' /\ Carried'
    BY <1>1, <1>2, <2>1, <2>2, MainBoot DEF EntryPlaces, Early, Late, Checked, InKernel
  <2>4. Mapped'
    BY <2>1, <2>2 DEF Mapped, EntryPlaces, Early, Late, BeforeStack, BeforeUnmap,
       AfterUnmap, AfterIdt, InImage, Handlers
  <2>5. gdt = "kernel" /\ Gates(TRAP_CP + 1)
    BY <1>1, <2>1 DEF Trapping
  <2>6. Trapping'
    BY <2>1, <2>2, <2>5 DEF Trapping, BeforeIdt, EntryPlaces, Early, Late, BeforeStack,
       BeforeUnmap, AfterIdt, Gates
  <2>7. Reported'
    BY <1>1, <2>1, <2>2 DEF Reported
  <2> QED
    BY <2>1, <2>3, <2>4, <2>6, <2>7 DEF IInv, MainInv
<1>4. CASE Cli
  <2>1. pc = "cli" /\ pc' = "loop" /\ InImage
    BY <1>1, <1>4, KernelRuns DEF Cli, Kernel, Run, Mapped, AfterUnmap
  <2>2. UNCHANGED <<machine, cr3, gdt, rsp, rbp, saved, args, maps, traps, loader>>
    BY <1>4 DEF Cli, calls, frame, machine
  <2>3. BootInv' /\ Carried'
    BY <1>1, <1>2, <2>1, <2>2, MainBoot DEF EntryPlaces, Early, Late, Checked, InKernel
  <2>4. Mapped'
    BY <2>1, <2>2 DEF Mapped, EntryPlaces, Early, Late, BeforeStack, BeforeUnmap,
       AfterUnmap, AfterIdt, InImage, Handlers
  <2>5. Trapping' /\ Reported'
    BY <1>1, <2>1, <2>2 DEF Trapping, Reported, traps, BeforeIdt, EntryPlaces, Early, Late,
       BeforeStack, BeforeUnmap, AfterIdt, Gates
  <2> QED
    BY <2>1, <2>3, <2>4, <2>5 DEF IInv, MainInv
<1>5. CASE Loop
  <2>1. pc = "loop" /\ pc' = (IF n + 1 = Allocations THEN "idle" ELSE "loop") /\ InImage
    BY <1>1, <1>5, KernelRuns DEF Loop, Kernel, Run, Mapped, AfterUnmap, InImage
  <2>2. UNCHANGED <<machine, cr3, gdt, rsp, rbp, saved, args, maps, loader, idt, loaded, nmi,
                    vector, reports, lost>>
    BY <1>5 DEF Loop, calls, frame, machine
  <2>3. BootInv' /\ Carried'
    BY <1>1, <1>2, <2>1, <2>2, MainBoot DEF EntryPlaces, Early, Late, Checked, InKernel
  <2>4. Mapped'
    BY <2>1, <2>2 DEF Mapped, EntryPlaces, Early, Late, BeforeStack, BeforeUnmap,
       AfterUnmap, AfterIdt, InImage, Handlers
  <2>5. Trapping' /\ Reported'
    BY <1>1, <2>1, <2>2 DEF Trapping, Reported, BeforeIdt, EntryPlaces, Early, Late,
       BeforeStack, BeforeUnmap, AfterIdt, Gates
  <2> QED
    BY <2>1, <2>3, <2>4, <2>5 DEF IInv, MainInv
<1>6. CASE Report
  <2>1. pc \in Handlers /\ pc' = "halted" /\ InImage
    <3>1. PICK h \in Handlers : Kernel(h, {"direct"}, "halted")
      BY <1>6 DEF Report
    <3>2. pc = h
      BY <3>1 DEF Kernel, Run
    <3>3. InImage
      BY <1>1, <3>2 DEF Mapped, AfterIdt
    <3> QED
      BY <3>1, <3>2, <3>3, KernelRuns DEF InImage
  <2>2. UNCHANGED <<machine, cr3, gdt, rsp, rbp, saved, args, maps, loader, idt, loaded, n, nmi,
                    vector, lost>>
        /\ reports' = Append(reports, [vector |-> vector, by |-> pc])
    BY <1>6 DEF Report, calls, frame, machine
  <2>3. BootInv' /\ Carried'
    BY <1>1, <1>2, <2>1, <2>2, MainBoot DEF EntryPlaces, Early, Late, Checked, InKernel
  <2>4. Mapped'
    BY <2>1, <2>2 DEF Mapped, EntryPlaces, Early, Late, BeforeStack, BeforeUnmap,
       AfterUnmap, AfterIdt, InImage, Handlers
  <2>5. Trapping'
    BY <1>1, <2>1, <2>2 DEF Trapping, BeforeIdt, EntryPlaces, Early, Late,
       BeforeStack, BeforeUnmap, AfterIdt, Gates
  <2>6. Reported'
    <3> DEFINE e == [vector |-> vector, by |-> pc]
    <3>1. e \in [vector : Int, by : Handlers]
          /\ (e.by = "page_fault_handler" <=> e.vector = TRAP_PF)
      BY <1>1, <2>1 DEF Reported, Handlers
    <3> HIDE DEF e
    <3>2. reports \in Seq([vector : Int, by : Handlers]) /\ reports' = Append(reports, e)
      BY <1>1, <2>2 DEF Reported, e
    <3>3. reports' \in Seq([vector : Int, by : Handlers])
      BY <3>1, <3>2
    <3>4. \A i \in DOMAIN reports' :
            reports'[i].by = "page_fault_handler" <=> reports'[i].vector = TRAP_PF
      <4> SUFFICES ASSUME NEW i \in DOMAIN reports'
                   PROVE  reports'[i].by = "page_fault_handler" <=> reports'[i].vector = TRAP_PF
        OBVIOUS
      <4>1. reports'[i] = e \/ (i \in DOMAIN reports /\ reports'[i] = reports[i])
        BY <3>1, <3>2
      <4> QED
        BY <1>1, <3>1, <4>1 DEF Reported
    <3> QED
      BY <1>1, <2>1, <2>2, <3>3, <3>4 DEF Reported, Handlers
  <2> QED
    BY <2>1, <2>3, <2>4, <2>5, <2>6 DEF IInv, MainInv
<1> QED
  BY <1>3, <1>4, <1>5, <1>6

(* An exception: a reset before there is an IDT, a handler from then on.    *)
LEMMA ExceptionStep ==
  ASSUME IInv, NEW v \in Traps \cup {TRAP_NMI}, Exception(v)
  PROVE  IInv' /\ (pc' = "reset" => lost')
<1>1. Mapped /\ Trapping /\ Reported /\ Carried /\ BootInv
  BY DEF IInv, MainInv
<1>2. v \in 0 .. IDT_ENTRIES - 1
  BY MainAssumption DEF TRAP_NMI, IDT_ENTRIES
<1>3. /\ pc' = Through(v) /\ vector' = v /\ lost' = (lost \/ ~loaded)
      /\ UNCHANGED <<machine, loader, cr3, gdt, rsp, rbp, saved, args, maps, idt, loaded, n,
                     reports>>
  BY DEF Exception, calls, frame, machine
<1>4. CASE ~loaded
  <2>1. pc' = "reset" /\ lost'
    BY <1>3, <1>4, ThroughEarly
  <2>2. BootInv'
    BY <1>1, <1>3, <2>1, MainBoot DEF EntryPlaces, Early, Late
  <2>3. Carried'
    BY <1>1, <1>3, <2>1 DEF Carried, OnStack, InRegisters, Checked, InKernel, Passed
  <2>4. Mapped'
    BY <2>1 DEF Mapped, EntryPlaces, Early, Late, BeforeStack, BeforeUnmap,
       AfterUnmap, AfterIdt, Handlers
  <2>5. Trapping'
    BY <1>3, <1>4, <2>1 DEF Trapping, EntryPlaces, Early, Late, BeforeIdt, BeforeStack,
       BeforeUnmap, AfterIdt, Handlers
  <2>6. Reported'
    BY <1>1, <1>2, <1>3, <2>1 DEF Reported
  <2> QED
    BY <2>1, <2>2, <2>3, <2>4, <2>5, <2>6 DEF IInv, MainInv
<1>5. CASE loaded
  <2>1. InImage /\ gdt = "kernel" /\ Gates(TRAP_CP + 1)
    BY <1>1, <1>5 DEF Mapped, Trapping
  <2>2. pc' = IF v = TRAP_PF THEN "page_fault_handler" ELSE "null_intr_handler"
    BY <1>2, <1>3, <1>5, <2>1, ThroughLoaded
  <2>3. BootInv'
    BY <1>1, <1>3, <2>2, MainBoot DEF EntryPlaces, Early, Late
  <2>4. Carried'
    BY <1>1, <1>3, <2>2 DEF Carried, OnStack, InRegisters, Checked, InKernel, Passed
  <2>5. Mapped'
    BY <1>3, <2>1, <2>2 DEF Mapped, EntryPlaces, Early, Late, BeforeStack, BeforeUnmap,
       AfterUnmap, AfterIdt, Handlers, InImage
  <2>6. Trapping'
    BY <1>3, <1>5, <2>1, <2>2 DEF Trapping, EntryPlaces, Early, Late, BeforeIdt, BeforeStack,
       BeforeUnmap, AfterIdt, Handlers, Gates
  <2>7. Reported'
    BY <1>1, <1>2, <1>3, <2>2 DEF Reported
  <2> QED
    BY <2>2, <2>3, <2>4, <2>5, <2>6, <2>7 DEF IInv, MainInv
<1> QED
  BY <1>4, <1>5

LEMMA Idle == IInv /\ UNCHANGED vars => IInv'
<1> SUFFICES ASSUME IInv, UNCHANGED vars PROVE IInv'
  OBVIOUS
<1>1. UNCHANGED <<loader, pc, r, stack, mem, cr, cr3, gdt, irqs, rsp, rbp, saved, args, maps,
                  has_map, idt, loaded, n, nmi, vector, reports, lost>>
  BY DEF vars, entryVars, mainVars
<1>2. BootInv'
  BY <1>1 DEF IInv, BootInv, EntryOK, Loops, Blank, AtPt, AtPte, Built, Upper, Middle, Lowest
<1>3. Carried'
  BY <1>1 DEF IInv, Carried, Passed
<1>4. MainInv'
  BY <1>1 DEF IInv, MainInv, Mapped, InImage, Trapping, Gates, Reported
<1> QED
  BY <1>2, <1>3, <1>4 DEF IInv

LEMMA Inductive == IInv /\ [Next]_vars => IInv'
<1> SUFFICES ASSUME IInv, [Next]_vars PROVE IInv'
  OBVIOUS
<1>1. CASE Entry64 /\ UNCHANGED mainVars
  BY <1>1, EntryStep
<1>2. CASE Main
  BY <1>2, StartupStep, MainStep, TrapStep DEF Main
<1>3. CASE Rest \/ UNCHANGED vars
  BY <1>3, Idle DEF Rest
<1>4. ASSUME NEW v \in Traps \cup {TRAP_NMI}, Exception(v) PROVE IInv'
  BY <1>4, ExceptionStep
<1> QED
  BY <1>1, <1>2, <1>3, <1>4 DEF Next, Work

-----------------------------------------------------------------------------
(* What follows for the runs of the machine.                                *)

LEMMA Consequences == IInv => IdentityMapped /\ HandedOver /\ CaughtOnceLoaded
<1>1. IInv => IdentityMapped
  <2> SUFFICES ASSUME IInv, "PG" \in cr, cr3 = Pgd, NEW f \in 0 .. E * E - 1
               PROVE  IF f < E * PTS THEN Sees(f) ELSE ~Walkable(mem, cr3, Va(f))
    BY DEF IdentityMapped
  <2>1. EntryOK /\ Built
    BY DEF IInv, BootInv, Loops
  <2> QED
    BY <2>1, BuiltMaps
<1>2. IInv => HandedOver
  BY DEF IInv, Carried, HandedOver, Passed, Checked
<1>3. IInv => CaughtOnceLoaded
  BY DEF IInv, MainInv, Trapping, Reported, CaughtOnceLoaded, AfterIdt, Handlers
<1> QED
  BY <1>1, <1>2, <1>3

LEMMA NoReset ==
  ASSUME WpClear, IInv, ResetsOnlyFromOutside, [Next]_vars
  PROVE  ResetsOnlyFromOutside'
<1>1. ~loader.wp
  BY DEF WpClear, IInv, BootInv, EntryOK
<1>2. CASE Entry64 /\ UNCHANGED mainVars
  BY <1>2, EntryStep DEF ResetsOnlyFromOutside, EntryPlaces, Early, Late
<1>3. CASE Main
  BY <1>1, <1>3, StartupStep, MainStep, TrapStep DEF Main, ResetsOnlyFromOutside
<1>4. CASE Rest \/ UNCHANGED vars
  BY <1>4 DEF Rest, ResetsOnlyFromOutside, vars, entryVars, mainVars
<1>5. ASSUME NEW v \in Traps \cup {TRAP_NMI}, Exception(v) PROVE ResetsOnlyFromOutside'
  BY <1>5, ExceptionStep DEF ResetsOnlyFromOutside
<1> QED
  BY <1>2, <1>3, <1>4, <1>5 DEF Next, Work

THEOREM Invariance == Spec => []IInv
<1>1. InitMain => IInv
  BY InitBoot DEF IInv
<1> QED
  BY <1>1, Inductive, PTL DEF Spec

(* With paging on and the tables of boot.S in cr3, the first pages are      *)
(* where they were and no other page is mapped, whatever the size of the    *)
(* tables and the number of lowest tables: the loops of boot.S neither stop *)
(* early nor run on.                                                        *)
THEOREM SpecIdentityMapped == Spec => []IdentityMapped
BY Consequences, Invariance, PTL

(* startup64 gets what any loader passed, and main is called only for a     *)
(* multiboot2 loader whose tags are aligned.                                *)
THEOREM SpecHandedOver == Spec => []HandedOver
BY Consequences, Invariance, PTL

(* If the loader leaves CR0.WP clear, the machine resets only if something  *)
(* struck before there was an IDT: no step from _start to the loop of main  *)
(* or in a handler touches memory that is not mapped for it.                *)
THEOREM SpecResetsOnlyFromOutside ==
  ASSUME WpClear PROVE Spec => []ResetsOnlyFromOutside
<1>1. InitMain => ResetsOnlyFromOutside
  BY DEF ResetsOnlyFromOutside, InitMain, Init
<1>2. IInv /\ ResetsOnlyFromOutside /\ [Next]_vars => ResetsOnlyFromOutside'
  BY NoReset
<1> QED
  BY <1>1, <1>2, Invariance, PTL DEF Spec

(* Once the IDT is loaded the machine never resets: whichever exception     *)
(* comes, a handler is reached, and it is the one for page faults if and    *)
(* only if it was a page fault.                                             *)
THEOREM SpecCaughtOnceLoaded == Spec => []CaughtOnceLoaded
BY Consequences, Invariance, PTL

-----------------------------------------------------------------------------
(* The serial port of Startup.                                              *)

Fields == [thr : Nat, dll : Nat, dlm : Nat, ier : Nat, fcr : Nat, lcr : Nat, mcr : Nat]
LineDone  == {"modem", "irq", "probe", "idle", "putchar"}
ModemDone == {"irq", "probe", "idle", "putchar"}

(* What the statements have written so far stays; where they have come to.  *)
PortInv ==
  /\ there \in BOOLEAN /\ ch \in Nat /\ regs \in Fields
  /\ port_pc \in {"fifo", "speed", "low", "high", "line"} \cup LineDone
  /\ there /\ port_pc # "fifo" => regs.fcr = 0
  /\ there /\ port_pc \in LineDone => regs.lcr % 128 = 3
  /\ there /\ port_pc \in ModemDone => regs.mcr = 0
  /\ Port!Initialised => (exists <=> there)

(* 8 data bits, one stop bit, no parity: what the statement with the wrong  *)
(* mask leaves of a byte.                                                   *)
LEMMA LineByte ==
  LET v == Port!AndNot(Port!COM_SERIAL_LCR_WLEN8, Port!COM_SERIAL_LCR_DLAB)
  IN  v \in Nat /\ Port!Byte(v) \in Nat /\ Port!Byte(v) % 128 = 3
<1>1. Port!COM_SERIAL_LCR_WLEN8 = 1019 /\ Port!COM_SERIAL_LCR_DLAB = 1144
  BY DEF Port!COM_SERIAL_LCR_WLEN8, Port!COM_SERIAL_LCR_DLAB, Port!COM_SERIAL_BASE
<1>2. Port!And(1019, 1144) = 120
  BY DEF Port!And, Port!Bit
<1>3. Port!AndNot(1019, 1144) = 899
  BY <1>2 DEF Port!AndNot
<1>4. Port!Byte(899) = 131 /\ 131 % 128 = 3
  BY DEF Port!Byte
<1> QED
  BY <1>1, <1>3, <1>4

LEMMA OneByte ==
  ASSUME NEW v \in Nat
  PROVE  Port!Byte(v) \in Nat
BY DEF Port!Byte

(* What a byte to one of the first two ports can change.                    *)
LEMMA StoredData ==
  ASSUME NEW x, NEW v
  PROVE  /\ Port!Stored(x, 1016, v) \in {[x EXCEPT !.dll = Port!Byte(v)], [x EXCEPT !.thr = Port!Byte(v)]}
         /\ Port!Stored(x, 1017, v) \in {[x EXCEPT !.dlm = Port!Byte(v)], [x EXCEPT !.ier = Port!Byte(v)]}
<1> DEFINE b == Port!Byte(v)
           S1 == IF Port!dlab THEN [x EXCEPT !.dll = b] ELSE [x EXCEPT !.thr = b]
           S2 == IF Port!dlab THEN [x EXCEPT !.dlm = b] ELSE [x EXCEPT !.ier = b]
<1>1. Port!Stored(x, 1016, v) = S1
  BY DEF Port!Stored, Port!COM_SERIAL_BASE, Port!COM_SERIAL_FCR, Port!COM_SERIAL_LCR,
     Port!COM_SERIAL_MCR
<1>2. Port!Stored(x, 1017, v) = S2
  BY DEF Port!Stored, Port!COM_SERIAL_BASE, Port!COM_SERIAL_FCR, Port!COM_SERIAL_LCR,
     Port!COM_SERIAL_MCR
<1> QED
  BY <1>1, <1>2

LEMMA PortInitial == Port!Init => PortInv
BY DEF Port!Init, PortInv, Fields, LineDone, ModemDone, Port!Initialised

LEMMA PortOutb == PortInv /\ Port!Outb => PortInv'
<1> SUFFICES ASSUME PortInv, Port!Outb PROVE PortInv'
  OBVIOUS
<1> USE DEF LineDone, ModemDone
<1>1. /\ port_pc \in {"fifo", "speed", "low", "high", "line", "modem", "irq"}
      /\ port_pc' = Port!After[port_pc]
      /\ there' = there /\ ch' = ch
      /\ regs' = IF there THEN Port!Stored(regs, Port!Statement[port_pc].port,
                                           Port!Statement[port_pc].value)
                 ELSE regs
  BY DEF Port!Outb, Port!Statement
<1>2. regs \in Fields /\ there \in BOOLEAN
  BY DEF PortInv
<1>3. ~Port!Initialised'
  BY <1>1 DEF Port!After, Port!Initialised
<1> DEFINE b == Port!Byte(Port!Statement[port_pc].value)
<1>4. b \in Nat
  <2>1. Port!Statement[port_pc].value \in Nat
    <3>1. CASE port_pc # "line"
      BY <1>1, <3>1 DEF Port!Statement, Port!COM_SERIAL_LCR_DLAB, Port!COM_SERIAL_IER_RDI,
         Port!COM_SERIAL_BASE
    <3>2. CASE port_pc = "line"
      BY <3>2, LineByte DEF Port!Statement
    <3> QED
      BY <3>1, <3>2
  <2> QED
    BY <2>1, OneByte
<1>5. CASE there /\ port_pc = "fifo"
  <2>1. b = 0 /\ Port!Statement[port_pc].port = 1018
    BY <1>5 DEF Port!Statement, Port!Byte, Port!COM_SERIAL_FCR, Port!COM_SERIAL_BASE
  <2>2. regs' = [regs EXCEPT !.fcr = 0]
    BY <1>1, <1>5, <2>1 DEF Port!Stored, Port!COM_SERIAL_BASE, Port!COM_SERIAL_FCR,
       Port!COM_SERIAL_LCR, Port!COM_SERIAL_MCR
  <2>3. port_pc' = "speed"
    BY <1>1, <1>5 DEF Port!After
  <2> QED
    BY <1>1, <1>2, <1>3, <2>2, <2>3 DEF PortInv, Fields
<1>6. CASE there /\ port_pc = "speed"
  <2>1. Port!Statement[port_pc].port = 1019
    BY <1>6 DEF Port!Statement, Port!COM_SERIAL_LCR, Port!COM_SERIAL_BASE
  <2>2. regs' = [regs EXCEPT !.lcr = b]
    BY <1>1, <1>6, <2>1 DEF Port!Stored, Port!COM_SERIAL_BASE, Port!COM_SERIAL_FCR,
       Port!COM_SERIAL_LCR, Port!COM_SERIAL_MCR
  <2>3. port_pc' = "low"
    BY <1>1, <1>6 DEF Port!After
  <2> HIDE DEF b
  <2> QED
    BY <1>1, <1>2, <1>3, <1>4, <1>6, <2>2, <2>3 DEF PortInv, Fields
<1>7. CASE there /\ port_pc \in {"low", "high", "irq"}
  <2>1. Port!Statement[port_pc].port \in {1016, 1017}
    BY <1>7 DEF Port!Statement, Port!COM_SERIAL_DLL, Port!COM_SERIAL_DLM, Port!COM_SERIAL_IER,
       Port!COM_SERIAL_BASE
  <2>2. \/ regs' = [regs EXCEPT !.dll = b] \/ regs' = [regs EXCEPT !.thr = b]
        \/ regs' = [regs EXCEPT !.dlm = b] \/ regs' = [regs EXCEPT !.ier = b]
    BY <1>1, <1>7, <2>1, StoredData
  <2>3. \/ port_pc = "low" /\ port_pc' = "high"
        \/ port_pc = "high" /\ port_pc' = "line"
        \/ port_pc = "irq" /\ port_pc' = "probe"
    BY <1>1, <1>7 DEF Port!After
  <2> HIDE DEF b
  <2>4. regs' \in Fields /\ regs'.fcr = regs.fcr /\ regs'.lcr = regs.lcr /\ regs'.mcr = regs.mcr
    BY <1>2, <1>4, <2>2 DEF Fields
  <2> QED
    BY <1>1, <1>3, <2>3, <2>4 DEF PortInv
<1>8. CASE there /\ port_pc = "line"
  <2>1. Port!Statement[port_pc].port = 1019 /\ b % 128 = 3
    BY <1>8, LineByte DEF Port!Statement, Port!COM_SERIAL_LCR, Port!COM_SERIAL_BASE
  <2>2. regs' = [regs EXCEPT !.lcr = b]
    BY <1>1, <1>8, <2>1 DEF Port!Stored, Port!COM_SERIAL_BASE, Port!COM_SERIAL_FCR,
       Port!COM_SERIAL_LCR, Port!COM_SERIAL_MCR
  <2>3. port_pc' = "modem"
    BY <1>1, <1>8 DEF Port!After
  <2> HIDE DEF b
  <2>4. regs' \in Fields /\ regs'.fcr = regs.fcr /\ regs'.lcr = b
    BY <1>2, <1>4, <2>2 DEF Fields
  <2> QED
    BY <1>1, <1>3, <1>8, <2>1, <2>3, <2>4 DEF PortInv
<1>9. CASE there /\ port_pc = "modem"
  <2>1. b = 0 /\ Port!Statement[port_pc].port = 1020
    BY <1>9 DEF Port!Statement, Port!Byte, Port!COM_SERIAL_MCR, Port!COM_SERIAL_BASE
  <2>2. regs' = [regs EXCEPT !.mcr = 0]
    BY <1>1, <1>9, <2>1 DEF Port!Stored, Port!COM_SERIAL_BASE, Port!COM_SERIAL_FCR,
       Port!COM_SERIAL_LCR, Port!COM_SERIAL_MCR
  <2>3. port_pc' = "irq"
    BY <1>1, <1>9 DEF Port!After
  <2>4. regs' \in Fields /\ regs'.fcr = regs.fcr /\ regs'.lcr = regs.lcr /\ regs'.mcr = 0
    BY <1>2, <2>2 DEF Fields
  <2> QED
    BY <1>1, <1>3, <1>9, <2>3, <2>4 DEF PortInv
<1>10. CASE ~there
  <2>1. port_pc' \in {"speed", "low", "high", "line", "modem", "irq", "probe"}
    BY <1>1 DEF Port!After
  <2> QED
    BY <1>1, <1>2, <1>3, <1>10, <2>1 DEF PortInv
<1> QED
  BY <1>1, <1>2, <1>5, <1>6, <1>7, <1>8, <1>9, <1>10

(* A port that is there never reads as one that is not, whatever goes wrong *)
(* on the line.                                                             *)
LEMMA PortProbe == PortInv /\ Port!Probe => PortInv'
<1> SUFFICES ASSUME PortInv, Port!Probe PROVE PortInv'
  OBVIOUS
<1>1. PICK lsr \in Port!LSR : exists' = (lsr # 255)
  BY DEF Port!Probe
<1>2. exists' <=> there
  BY <1>1 DEF Port!LSR, PortInv
<1> QED
  BY <1>2 DEF PortInv, Port!Probe, Port!Initialised, LineDone, ModemDone

(* A character goes to the transmitter, or with the latch on to the         *)
(* divisor, never to the registers of the line.                             *)
LEMMA PortPut ==
  PortInv /\ (Port!Wait \/ Port!Send \/ \E c \in Bytes : Port!putchar(c)) => PortInv'
<1>1. ASSUME PortInv, Port!Wait PROVE PortInv'
  BY <1>1 DEF PortInv, Port!Wait, Port!Initialised, LineDone, ModemDone
<1>2. ASSUME PortInv, NEW c \in Bytes, Port!putchar(c) PROVE PortInv'
  BY <1>2, PortAssumption DEF PortInv, Port!putchar, Port!Initialised, LineDone, ModemDone
<1>3. ASSUME PortInv, Port!Send PROVE PortInv'
  <2> DEFINE b == Port!Byte(ch)
  <2>1. b \in Nat /\ regs \in Fields /\ ch \in Nat
    BY <1>3, OneByte DEF PortInv
  <2>2. \/ regs' = [regs EXCEPT !.dll = b] \/ regs' = [regs EXCEPT !.thr = b]
        \/ regs' = regs
    BY <1>3, StoredData DEF Port!Send, Port!COM_SERIAL_BASE, Port!COM_SERIAL_TX
  <2> HIDE DEF b
  <2>3. regs' \in Fields /\ regs'.fcr = regs.fcr /\ regs'.lcr = regs.lcr /\ regs'.mcr = regs.mcr
    BY <2>1, <2>2 DEF Fields
  <2>4. /\ port_pc = "putchar" /\ port_pc' = "idle"
        /\ there' = there /\ exists' = exists /\ ch' = ch
    BY <1>3 DEF Port!Send
  <2> QED
    BY <1>3, <2>3, <2>4 DEF PortInv, Port!Initialised, LineDone, ModemDone
<1> QED
  BY <1>1, <1>2, <1>3

LEMMA PortStep == PortInv /\ [StartupNext]_all => PortInv'
<1> SUFFICES ASSUME PortInv, [StartupNext]_all PROVE PortInv'
  OBVIOUS
<1>1. CASE PortInit
  BY <1>1, PortOutb, PortProbe DEF PortInit
<1>2. CASE Put
  BY <1>2, PortPut DEF Put
<1>3. CASE UNCHANGED port
  BY <1>3 DEF port, PortInv, Port!Initialised
<1>4. ASSUME NEW v, Strike(v) PROVE PortInv'
  BY <1>4 DEF Strike, PortInv, Port!Initialised, LineDone, ModemDone
<1> QED
  BY <1>1, <1>2, <1>3, <1>4 DEF StartupNext, Runs, GoOn, all

-----------------------------------------------------------------------------
(* The machine with its port is the machine: printing takes no step of the  *)
(* program, and an exception in the middle of a message is an exception.    *)
THEOREM StartupIsMain == StartupSpec => InitMain /\ [][Next]_vars
<1>1. StartupInit => InitMain
  BY DEF StartupInit
<1>2. [StartupNext]_all => [Next]_vars
  BY DEF StartupNext, Runs, PortInit, Put, GoOn, Strike, Rest, Next, all
<1> QED
  BY <1>1, <1>2, PTL DEF StartupSpec

(* The serial port is found if it is there, and its line is set up whatever *)
(* the firmware left, for good: nothing that is printed, by the program or  *)
(* by a handler that interrupts it anywhere, undoes it.                     *)
THEOREM StartupLineSet == StartupSpec => []LineSet
<1>1. StartupInit => PortInv
  BY PortInitial DEF StartupInit
<1>2. PortInv => LineSet
  BY DEF PortInv, LineSet, Port!LineSet, Port!Initialised, LineDone, ModemDone
<1> QED
  BY <1>1, <1>2, PortStep, PTL DEF StartupSpec

(* What holds of the machine holds of it with its port.                     *)
THEOREM StartupSound ==
  StartupSpec => [](IdentityMapped /\ HandedOver /\ CaughtOnceLoaded)
<1>1. InitMain => IInv
  BY InitBoot DEF IInv
<1> QED
  BY <1>1, Consequences, Inductive, StartupIsMain, PTL

THEOREM StartupNoReset ==
  ASSUME WpClear PROVE StartupSpec => []ResetsOnlyFromOutside
<1>1. InitMain => IInv /\ ResetsOnlyFromOutside
  BY InitBoot DEF IInv, ResetsOnlyFromOutside, InitMain, Init
<1>2. IInv /\ ResetsOnlyFromOutside /\ [Next]_vars => ResetsOnlyFromOutside'
  BY NoReset
<1> QED
  BY <1>1, <1>2, Inductive, StartupIsMain, PTL
=============================================================================
