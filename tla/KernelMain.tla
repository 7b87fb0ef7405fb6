----------------------------- MODULE KernelMain -----------------------------
(***************************************************************************)
(* From startup64 to the loop at the end of main: code/arch/x86/boot/      *)
(* startup64.c, code/kernel/main.c, code/arch/x86/init.c, the handlers of  *)
(* code/arch/x86/kernel/interrupt.c, and of boot_mm_init and mm_init what  *)
(* they do to the address space the machine is running in.                 *)
(*                                                                         *)
(* A step is a call, or a statement that changes where memory is seen.     *)
(* The stack of a call is known by where rsp and rbp point: into low       *)
(* memory, or to the same frames in the image of the kernel.  Exceptions   *)
(* come between any two steps.                                             *)
(***************************************************************************)
EXTENDS BootEntry

CONSTANTS
  MULTIBOOT2_BOOTLOADER_MAGIC,
  HasMap,     \* whether the multiboot2 information has a memory map
  Allocations,              \* 1145141919
  page_fault_handler, null_intr_handler,  \* the addresses of the handlers
  Traps,      \* the exceptions that instructions may raise
  boot_kern_pgtable  \* the frame of the first table of the kernel

TRAP_NMI == 2
TRAP_DF  == 8
TRAP_GP  == 13
TRAP_PF  == 14
TRAP_CP  == 21
IDT_ENTRIES == 32

ASSUME MainAssumption ==
  /\ {page_fault_handler, null_intr_handler} \subseteq 1 .. W * W * W * W - 1
  /\ page_fault_handler # null_intr_handler
  /\ boot_kern_pgtable \in Nat \ {Zero, Pgd}
  /\ HasMap \subseteq BOOLEAN /\ Allocations \in Nat
  /\ Traps \subseteq 0 .. IDT_ENTRIES - 1

VARIABLES
  rsp, rbp,   \* the part of memory they point into
  saved,      \* the rbp of each caller, the last first
  args,       \* history: the arguments startup64 was called with
  maps,       \* the parts of memory that are mapped
  has_map,
  idt,        \* the gates
  loaded,     \* idtr is that of idt
  n,          \* the gates that are set; then the iterations of main's loop
  nmi,        \* an NMI is being handled: there is no other till an iret
  vector,     \* history: the last exception
  reports,    \* history: what the handlers said
  lost        \* history: an exception came before there was an IDT

mainVars == <<rsp, rbp, saved, args, maps, has_map, idt, loaded, n, nmi,
              vector, reports, lost>>
vars == <<entryVars, mainVars>>
machine == <<loader, r, stack, mem, cr>>
frame == <<rsp, rbp, saved>>
calls == <<frame, args, has_map>>
traps == <<idt, loaded, n, nmi, vector, reports, lost>>

-----------------------------------------------------------------------------
(* The processor.                                                           *)

(* The pages of the image have no right to be written on the upper levels   *)
(* (mm_boot.c maps the text first), which matters if CR0.WP is set.         *)
Writable(x) == x \in maps /\ (x = "image" => ~loader.wp)

(* An exception goes through its gate, in the code segment the gate names,  *)
(* on the stack.  A gate that was never set has type 0, and none is of use  *)
(* without an IDT: that is a general protection fault, and if it cannot be  *)
(* delivered either, a double fault.                                        *)
Usable(v) == /\ loaded /\ v \in DOMAIN idt /\ idt[v].p = 1
             /\ idt[v].type = SEG_TYPE_SYS_80386_INTR_GATE
             /\ gdt = "kernel" /\ IsLongCode(Segment(idt[v].selector))
             /\ "image" \in maps /\ Writable(rsp)

Handler(gate) ==
  CASE Target(gate) = page_fault_handler -> "page_fault_handler"
    [] Target(gate) = null_intr_handler  -> "null_intr_handler"
    [] OTHER -> "reset"

Through(v) ==
  IF Usable(v) THEN Handler(idt[v])
  ELSE IF Usable(TRAP_GP) THEN Handler(idt[TRAP_GP])
  ELSE IF Usable(TRAP_DF) THEN Handler(idt[TRAP_DF])
  ELSE "reset"

(* A call or statement that uses the parts of memory in uses, writes to its *)
(* variables in the part data, and to its stack.                            *)
Run(from, uses, data, to) ==
  /\ pc = from
  /\ pc' = IF uses \subseteq maps /\ Writable(data) /\ Writable(rsp) /\ rbp \in maps
           THEN to ELSE Through(TRAP_PF)

Boot(from, uses, to) == Run(from, uses \cup {"low"}, "low", to)
Kernel(from, uses, to) == Run(from, uses \cup {"image"}, "image", to)

-----------------------------------------------------------------------------
InitMain ==
  /\ Init
  /\ rsp = "low" /\ rbp = "low" /\ saved = <<>>
  /\ args = [magic |-> Unknown, mbi |-> Unknown]
  /\ maps = {} /\ has_map \in HasMap
  /\ idt = [v \in 0 .. IDT_ENTRIES - 1 |-> NoGate]
  /\ loaded = FALSE /\ n = 0
  /\ nmi = FALSE /\ vector = Unknown /\ reports = <<>> /\ lost = FALSE

(* startup64 begins: the tables of boot.S are in use.                       *)
startup64 ==
  /\ pc = "startup64" /\ pc' = "boot_tty_init"
  /\ args' = [magic |-> r.edi, mbi |-> r.esi]
  /\ maps' = IF \A f \in {Code, Stack, Gdt} : Sees(f) THEN {"low"} ELSE {}
  /\ saved' = <<rbp>> /\ rbp' = rsp
  /\ UNCHANGED <<machine, cr3, gdt, irqs, rsp, has_map, traps>>

boot_tty_init ==
  /\ Boot("boot_tty_init", {}, "checks")
  /\ UNCHANGED <<machine, cr3, gdt, irqs, calls, maps, traps>>

(* "BAD BOOTLOADER MAGIC!", "UNALIGNED MBI!": it returns to the hlt of      *)
(* boot64.S.                                                                *)
Aligned == args.mbi % 8 = 0

CheckArgs ==
  /\ Boot("checks", {},
          IF args.magic = MULTIBOOT2_BOOTLOADER_MAGIC /\ Aligned
          THEN "boot_mm_init" ELSE "hang")
  /\ UNCHANGED <<machine, cr3, gdt, irqs, calls, maps, traps>>

(* boot_mm_init up to the load of cr3.  BootMm has the tables it builds.    *)
boot_mm_init ==
  /\ Boot("boot_mm_init", {}, "remap")
  /\ cr3' = boot_kern_pgtable
  /\ maps' = {"low", "image", "direct"}
  /\ saved' = <<rbp>> \o saved /\ rbp' = rsp
  /\ UNCHANGED <<machine, gdt, irqs, rsp, args, has_map, traps>>

(* The slip: only rsp is moved.                                             *)
RemapRsp ==
  /\ Boot("remap", {}, "leave")
  /\ rsp' = "image"
  /\ UNCHANGED <<machine, cr3, gdt, irqs, rbp, saved, args, has_map, maps, traps>>

(* "remap the kernel stack to highmem"                                      *)
Remap ==
  /\ Boot("remap", {}, "leave")
  /\ rsp' = "image" /\ rbp' = "image"
  /\ UNCHANGED <<machine, cr3, gdt, irqs, saved, args, has_map, maps, traps>>

(* boot_mm_init returns: rsp becomes rbp, and the rbp of startup64, which   *)
(* was saved before the stack was moved, is back.                           *)
Leave ==
  /\ Boot("leave", {}, "call_main")
  /\ rsp' = rbp /\ rbp' = Head(saved) /\ saved' = Tail(saved)
  /\ UNCHANGED <<machine, cr3, gdt, irqs, args, has_map, maps, traps>>

(* main(mbi)                                                                *)
CallMain ==
  /\ Boot("call_main", {}, "tty_init")
  /\ saved' = <<rbp>> \o saved /\ rbp' = rsp
  /\ UNCHANGED <<machine, cr3, gdt, irqs, rsp, args, has_map, maps, traps>>

(* It reads the variables of the terminal of the boot stage.                *)
tty_init ==
  /\ Kernel("tty_init", {"low", "direct"}, "mm_init")
  /\ UNCHANGED <<machine, cr3, gdt, irqs, calls, maps, traps>>

(* mm_pages_allocator_init reads the multiboot2 information; "something     *)
(* went wrong! just hang on..." if there is no memory map in it.  MmInit    *)
(* has the rest.                                                            *)
mm_init ==
  /\ Kernel("mm_init", {"low", "direct"}, IF has_map THEN "unmap" ELSE "hang")
  /\ UNCHANGED <<machine, cr3, gdt, irqs, calls, maps, traps>>

(* "unmap the old phys part": through the part itself.  The entry is        *)
(* cleared and cr3 is not loaded again: the processor may see the part      *)
(* through its TLB, or not any more.                                        *)
Unmap ==
  /\ Kernel("unmap", {"low"}, "task_init")
  /\ maps' \in {maps, maps \ {"low"}}
  /\ UNCHANGED <<machine, cr3, gdt, irqs, calls, traps>>

(* kmem_cache_init, and task_init, which does nothing yet.                  *)
task_init ==
  /\ Kernel("task_init", {"direct"}, "gdt_init")
  /\ UNCHANGED <<machine, cr3, gdt, irqs, calls, maps, traps>>

gdt_init ==
  /\ Kernel("gdt_init", {}, "idt_init")
  /\ gdt' = "kernel"
  /\ UNCHANGED <<machine, cr3, irqs, calls, maps, traps>>

(* idt_init: the gates are set in the order of their numbers.               *)
HandlerOf(v) == IF v = TRAP_PF THEN page_fault_handler ELSE null_intr_handler

set_intr_handler(v) ==
  idt' = [idt EXCEPT ![v] = KERNEL_INTR_GATE_INIT(HandlerOf(v),
                                                  DEFAULT_KERNEL_CS_SELECTOR)]

SetHandler ==
  /\ Kernel("idt_init", {}, IF n = TRAP_CP THEN "load_idt" ELSE "idt_init")
  /\ set_intr_handler(n)
  /\ n' = n + 1
  /\ UNCHANGED <<machine, cr3, gdt, irqs, calls, maps, loaded, nmi, vector,
                 reports, lost>>

(* "load the IDTR"                                                          *)
load_idt ==
  /\ Kernel("load_idt", {}, "cli")
  /\ loaded' = TRUE /\ n' = 0
  /\ UNCHANGED <<machine, cr3, gdt, irqs, calls, maps, idt, nmi, vector,
                 reports, lost>>

(* "now we have done everything!"                                           *)
Cli ==
  /\ Kernel("cli", {}, "loop")
  /\ irqs' = FALSE
  /\ UNCHANGED <<machine, cr3, gdt, calls, maps, traps>>

(* The loop of main, with kmalloc (see Slub) and kprintf, and the hlt       *)
(* behind it.                                                               *)
Loop ==
  /\ Kernel("loop", {"direct"}, IF n + 1 = Allocations THEN "idle" ELSE "loop")
  /\ n' = n + 1
  /\ UNCHANGED <<machine, cr3, gdt, irqs, calls, maps, idt, loaded, nmi,
                 vector, reports, lost>>

Handlers == {"page_fault_handler", "null_intr_handler"}

(* The slip: a handler returns to what was interrupted.                     *)
ReportReturn ==
  /\ \E h \in Handlers : Kernel(h, {"direct"}, "loop")
  /\ reports' = Append(reports, [vector |-> vector, by |-> pc])
  /\ UNCHANGED <<machine, cr3, gdt, irqs, calls, maps, idt, loaded, n, nmi,
                 vector, lost>>

(* A handler prints what it has to say, and stops: "hlt".                   *)
Report ==
  /\ \E h \in Handlers : Kernel(h, {"direct"}, "halted")
  /\ reports' = Append(reports, [vector |-> vector, by |-> pc])
  /\ UNCHANGED <<machine, cr3, gdt, irqs, calls, maps, idt, loaded, n, nmi,
                 vector, lost>>

-----------------------------------------------------------------------------
(* Exceptions.  An instruction of the program may raise any of Traps (an    *)
(* access to the address -1 in pgtable.c, say); an NMI comes at any time,   *)
(* also to a processor that has stopped.  Handlers end in ret and not in    *)
(* iret, so a second NMI would have to wait for ever.                       *)
Stopped == {"hang", "idle", "halted", "reset"}
InC == pc \notin Handlers \cup Stopped

Raised == (IF pc = "reset" \/ nmi THEN {} ELSE {TRAP_NMI})
            \cup (IF InC THEN Traps ELSE {})

Exception(v) ==
  /\ v \in Raised
  /\ pc' = Through(v)
  /\ vector' = v /\ irqs' = FALSE
  /\ nmi' = (nmi \/ v = TRAP_NMI)
  /\ lost' = (lost \/ ~loaded)
  /\ UNCHANGED <<machine, cr3, gdt, calls, maps, idt, loaded, n, reports>>

Main == \/ startup64 \/ boot_tty_init \/ CheckArgs \/ boot_mm_init \/ Remap
        \/ Leave \/ CallMain \/ tty_init \/ mm_init \/ Unmap \/ task_init
        \/ gdt_init \/ SetHandler \/ load_idt \/ Cli \/ Loop \/ Report

Work == (Entry64 /\ UNCHANGED mainVars) \/ Main

Rest == pc \in Stopped /\ UNCHANGED vars

Next == Work \/ Rest \/ \E v \in Traps \cup {TRAP_NMI} : Exception(v)

Spec == InitMain /\ [][Next]_vars /\ WF_vars(Work)
-----------------------------------------------------------------------------
(* Properties.                                                              *)

InKernel == {"tty_init", "mm_init", "unmap", "task_init", "gdt_init", "idt_init",
             "load_idt", "cli", "loop", "idle"}

(* startup64 gets what the loader passed, through registers that boot.S     *)
(* uses in between, and main is called only for a multiboot2 loader whose   *)
(* tags are aligned.                                                        *)
HandedOver ==
  /\ args.magic # Unknown => args.magic = loader.magic /\ args.mbi = loader.mbi
  /\ pc \in InKernel => loader.magic = MULTIBOOT2_BOOTLOADER_MAGIC
                        /\ loader.mbi % 8 = 0

(* The machine resets only if something from outside struck before there    *)
(* was an IDT: by itself it never touches what is not mapped, neither when  *)
(* the tables change under the running code, nor with the stack, which has  *)
(* to be out of low memory before that is unmapped.                         *)
ResetsOnlyFromOutside == pc = "reset" => lost

(* Once the IDT is loaded, every exception has a handler that is reached,   *)
(* those without a gate of their own included; a page fault is reported as  *)
(* one, and nothing else is.                                                *)
CaughtOnceLoaded ==
  /\ loaded => pc # "reset"
  /\ \A i \in DOMAIN reports :
       reports[i].by = "page_fault_handler" <=> reports[i].vector = TRAP_PF

(* Whatever happens, the machine comes to rest; and once there is an IDT,   *)
(* an exception stops it with a report, for good.                           *)
ReportedAndStopped ==
  /\ <>[](pc \in Stopped)
  /\ pc \in Handlers ~> [](pc \in Handlers \cup {"halted"} /\ reports # <<>>)

(* "unmap the old phys part": it cannot be accessed from then on.           *)
LowGone == pc \in {"task_init", "gdt_init", "idle"} => "low" \notin maps

(* "now we have done everything! turn on the irq for current core now"      *)
IrqsOn == pc \in {"loop", "idle"} => irqs
=============================================================================
