# SumiOS in TLA+

This directory is a verification development of SumiOS, a small x86-64 kernel
(`src/code`): models of its components in TLA+, checked by TLC on small
instances, and theorems about them proved with TLAPS.  The source is the
reference; `PROJECT.json` says, definition by definition, which lines each one
stands for.

## 1. The system

SumiOS is booted by GRUB (multiboot2).  A boot stage in low memory builds a
first page table and jumps to the kernel proper in high memory, which
initialises its terminal, its memory management and its descriptor tables, and
then calls `kmalloc` in a loop.

| part | files (`src/code`) | state | operations | what makes it correct |
|---|---|---|---|---|
| page allocator | `mm/page_alloc.c` | `freelist[order]`, `freelist_lock`, flags in `struct page` | `alloc_pages`, `free_pages` | no frame in two places, none lost, none from outside the usable memory; the lock excludes and is given back; NULL only when nothing fits |
| lists | `include/sumios/list.h` | `next`, `prev` in each node | `list_add_*`, `list_del`, `list_empty` | circular in both directions, equal to the sequence the users believe in |
| spin lock | `include/sumios/lock.h`, `atomic.h` | one word | lock, unlock | exclusion; somebody gets in |
| object allocator | `mm/slub.c` | ten `kmem_cache`s; chains through the free objects | `kmalloc` (`kfree` is empty) | objects disjoint and inside their slub, none lost, chains out of callers' reach |
| kernel memory initialisation | `mm/mm_init.c` | areas, a linear allocator, the page array | `mm_init` | the page allocator gets exactly the usable frames nobody uses; all struct pages it may look at are valid |
| page tables | `mm/pgtable.c` (and copies in `mm_init.c`, `mm_boot.c`) | four levels of tables | map a page, look one up | lookup returns what was mapped last; a mapping touches no other |
| boot memory | `arch/x86/boot/mm_boot.c` | a linear allocator, the first page table | `boot_mm_init` | the kernel image and 10 MB of low memory are mapped |
| boot entry | `arch/x86/boot/boot.S`, `boot64.S`, `startup64.c` | registers, stack, control registers, the page tables of the boot image | `_start` to `main` | low memory is mapped to itself and nothing else; `startup64` gets what the loader passed; nothing faults on the way |
| terminal | `arch/x86/tty.c`, `boot/tty_boot.c` | cursor, text memory, ports | `kputchar` | text stays inside the text memory; the screen shows the last lines |
| printing | `lib/print.c` | none | `kprintf` | numbers are printed as what they are |
| interrupts | `arch/x86/init.c`, `arch/x86/kernel/*.c`, `include/asm/desc.h`, `gate.h` | GDT, IDT | `arch_init`, the two handlers | once the IDT is loaded every exception reaches a handler, is reported as what it is and stops the machine for good |
| kernel main | `kernel/main.c` | none | `main` | each initialisation finds what it needs of the address space |

Interactions: `mm_init` hands frames to the page allocator with
`free_pages(p, 0)`; the object allocator and `mm_pgtable_map` take pages with
`alloc_pages`; `__free_pages` asks the page table whether the struct page of a
neighbour is mapped before it reads its flags; lists are embedded in
`struct page` and are shared by the page allocator and the object allocator (a
page is on a free list or on a slub list); everything prints through the
terminal, the handlers of exceptions included, which take the terminal from
whatever was printing.  `boot_mm_init` changes the tables and the stack under the
running code, and `mm_init` takes low memory away from it.

Hard behaviours: several callers inside the two allocators (the code takes spin
locks, so it expects them); the merge loop, which trusts two flag bits of a
struct page; pages whose struct page nobody has initialised; memory that runs
out half way; chains of free objects in memory that callers write to; an exception
in the middle of a character, or before there is an IDT; a stack that moves
from one mapping to another while functions are running on it.
`PROJECT.json` lists each hazard at its line.

## 2. The modules

| module | what it is |
|---|---|
| `BlockStore` | abstract specification: frames are donated once, and from then on each belongs to the store or to one block a caller holds |
| `ListSeq` | list operations as operations on sequences, used by all other modules |
| `ListHead` | the same operations pointer by pointer; shows that they are those of `ListSeq` |
| `PageAlloc` | the page allocator: lock, free lists, flags, each iteration of each loop a step, any number of CPUs, and the loop of `mm_init` that fills it |
| `MCPageAlloc` | memory maps and bounds for TLC |
| `Slub` | the object allocator over words of memory |
| `AddressSpace` | abstract specification of a page table: a function from pages to frames that changes at one page at a time and never forgets one |
| `PageWalk` | four levels of tables: clear, make an entry, look up, rights; used by the next two |
| `PageTable` | `mm_pgtable_map` of `pgtable.c` and its copy in `mm_init.c`, each level a step |
| `BootMm` | `boot_mm_init`: how much memory there is, the first page table |
| `MmInit` | `mm_pages_allocator_init`: from the memory map to what the page allocator starts with |
| `Screen` | abstract specification of a terminal: lines, a row and a column, and what has been typed and is not yet shown |
| `Tty` | both terminals, the change from one to the other, both ports |
| `SerialPort` | the initialisation of the serial port, and the port |
| `Descriptors` | segments and gates: how they are packed and what the processor reads |
| `BootEntry` | `boot.S` and `boot64.S`: the first page tables, long mode |
| `KernelMain` | from `startup64` to the loop of `main`: address space, stack, GDT, IDT, exceptions |
| `Startup` | `BootEntry`, `KernelMain` and `SerialPort` as one machine |
| `Kprintf` | `kprintf` and its number conversions, those of the boot stage included |
| `MCSlub`, `MCPageTable`, `MCBootMm`, `MCMmInit`, `MCStartup` | bounds for TLC |
| `PageAllocProof`, `ListHeadProof`, `SlubProof`, `PageTableProof`, `BootMmProof`, `MmInitProof`, `TtyProof`, `KernelMainProof` | the theorems about the module each extends (`KernelMainProof`: `BootEntry`, `Descriptors`, `KernelMain`, `SerialPort` and `Startup`; `TtyProof`: `Tty` and `Kprintf`) |

How they fit: `PageAlloc` implements `BlockStore` (proved), and `Slub` gets its
pages from `BlockStore`; both use `ListSeq`, which `ListHead` shows to be what
`list.h` does.  `BootMm` leaves 10 MB mapped and the allocator at a start, which
is where `MmInit` begins (`BootMapped`, `BootStart`); `MmInit`'s `Prepared` and
`GivenUnused` are the assumptions on `Frames`, `Described` and `Mapped` with
which `PageAlloc` begins, and `GivenUnused` includes the order in which its
`BootFree` visits them.  `PageTable` implements `AddressSpace`, `Tty`
implements `Screen`.  `BootEntry` and `KernelMain` are one program: `KernelMain`
extends `BootEntry` and takes over at the call of `startup64`; `BootEntry` walks
its tables with `PageWalk`, and both read segments and gates with
`Descriptors`.  `Startup` adds the serial port (`INSTANCE SerialPort`), which is
initialised and used where the program does so.

### PageAlloc and page_alloc.c

A struct page is its index in the page array.  `freelist[k]` is the sequence of
pages on the list (`list_add_next` on the head puts a page first, `list_entry(
head.next)` takes the first).  `pc`, `p`, `order` and `__alloc` are the locals
of the CPU that runs `alloc_pages` or `free_pages`:

    idle -> alloc_lock -> alloc_scan* -> alloc_split* -> alloc_unlock -> idle
    idle -> free_lock  -> free_combine* -> free_unlock -> idle

`AllocSkip`, `AllocTake`, `AllocFail` are the iterations and exits of the
search in `__alloc_page_direct`, `AllocSplit` an iteration of its split loop,
`AllocMark` the loop of `__alloc_pages` over the pages of the block.
`CombineNext`, `CombinePrev`, `FreeInsert` are an iteration of the loop of
`__free_pages` and its end, `FreeReject` its early returns.  `FreeHead(q)` is
the condition under which a neighbour is absorbed: its struct page is mapped
and both flags are set; like the code it does not ask for the order of the
neighbour.  `BootFree`, `BootEnd` are the last loop of `mm_init`, with frames in
increasing order as in a memory map.  `frontier`, `booted` and `held` are
history.  `type` and `map_count` are left out (the code never reads them).

Three sets describe the machine: `Frames` (usable and not consumed at boot),
`Described` (covered by an entry of the memory map, so its struct page is
initialised), `Mapped` (its struct page lies in a mapped page of the array).
A struct page that is mapped and not described, and `is_head` of all of them,
have arbitrary contents (`UninitBits`).

### Slub and slub.c

Memory is a function from words to contents, because the chain of free objects
lies in the objects.  `Take`/`Pop` are the two reads of the fast path, `Refill`
the change of slub, `Grow`/`GrowFail` the answer of `alloc_pages` (any free
block of the order, or NULL at any time: the page allocator as `BlockStore`
describes it), `Trim`/`TrimEnd` the loop that cuts a slub, `Fill` what callers
do with their objects.  Ten caches from 16 bytes to two pages become four, from
one word to two pages of four words: two sizes below a page, a page, two pages.

### ListHead and list.h

The assignments of each operation in order, each reading what the ones before
have written.  Users add nodes that are on no list and delete nodes that are on
one: that is what `page_alloc.c` and `slub.c` do.

### PageTable and pgtable.c

A table is the contents of a frame, a virtual page its four indexes.  `Call`
begins a call; at each of the upper levels `Descend` finds the entry, or
`NewTable` makes one: link, clear, set the attributes, in the order of the code
(`Ensure`).  `Set` writes the last level.  `supply` says which copy runs, and
what its allocator has: `mm_init.c` takes frames in their order and uses the
NULL it gets in the end (`NoMemoryAtBoot`, where the module stops); `pgtable.c` gets any free frame, and
with -1 runs into a page fault (`NoMemory`), which stops the machine: the
handlers of `interrupt.c` halt.  A frame that was never cleared holds `Stale`.
Frame 0 is mapped only at the two addresses where `KERNEL_VA_IS_PHYS_ZERO`
expects it.  The tables have no lock, so there is one call at a time.

### BootMm and mm_boot.c

`Detect` reads the CMOS, `NewRoot` clears the top table, `MapText`, `MapRest` and
`MapDirect` are iterations of the three loops (each with all four levels of
`boot_pgtable_map`, which nothing can interrupt or observe), `Reget` the last
entry.  Addresses are page numbers.  `Rights` is what the processor makes of the
attributes: a page may be written if all four levels allow it.

### MmInit and mm_init.c

`FindMap` is an iteration of the walk over the multiboot2 tags: to the next one,
whose place is the size of this one rounded up, until there is the memory map
or the end (`hang`).  `Begin` is where the loader put the tags.
`Analyze`, `DirectMap`, `Describe` and `Give` are iterations of the four loops of
`mm_pages_allocator_init`.  `Alloc` is `mm_init_phys_alloc_linear`, with the slide
to the next area.  Tables are named by the part of the address space they serve,
and `tables` says which frame each is in; that the walk itself is right is
`PageTable`'s matter.  `strayed` becomes true when a table is accessed through a
part of the direct mapping area that is not mapped yet, or a tag where there is
none.  The code does not look at a NULL of the linear allocator; the module stops
at the first one, because from then on frame 0 serves as several tables.  Memory
maps are sorted and their entries do not overlap.

### Tty and tty.c

A character goes to the serial port, the parallel port and the text memory, with
the waiting loops (`Poll`) in front of the ports.  The statements of
`__kputchar_cga` are actions of their own: `NewLine` falls through to `Return`;
`Glyph` writes, `Advance` moves the cursor; `Roll` and `LastLine` are the two halves
of rolling; `Show` writes the cursor registers.  A tab calls `kputchar` four times
from within and then goes on.  `tty_init` hands over between the terminals when
no character is on its way.  `dead` ports are never ready; a port that is not dead
may still take any number of polls.

`Strike` is an exception, at any statement, in the middle of the loops of
`roll_screen_mem` (any number of assignments made) or between the two halves of
the cursor register.  The interrupted call is never finished, because handlers
end in `hlt`; the handler prints a line (`First`, `Last`, LF) with the variables as
they are, and an NMI may strike the handler in turn (`level`).  Only the kernel's
terminal can be struck: before that there is no IDT.

`Screen` knows no half-done characters.  `Settled` is the refinement mapping: the
text memory and the cursor as they will be when the call in hand has finished.
`Owed` is what the call in hand has still to show (`owed` of `Screen`): the
character itself, or of a tab the blanks that are to come.  `kputchar` is a step
`Type`, each character is shown in one step, taken at its first assignment to
the text memory or the cursor, and it is the character that was typed; all
others are stuttering.  The promise ends when something strikes; from then on
`ReportShown` says what can be relied on.

### SerialPort, Kprintf

In `SerialPort` the device is external and modelled from its use: registers 0
and 1 mean something else while the DLAB latch is on; the line status register
reads as it likes.  Constants have the values of `vga.h`, which defines bits as
the base address plus the bit; `outb` takes the low eight.

`Kprintf` walks the format a character at a time and makes a number digit by
digit; `read`, `num` and `fmt_ch` are `i`, `n` and `ch` of the code (its proofs
share a module with those of `Tty`, which has a `ch` of its own).  `boot_printnum` and `boot_printhex` of the boot stage begin in the middle
(`Called`): they print what a format of one directive would.  Words of 64 and 32
bits become words of `LONG` = 8 and `INT` = 4 bits.  `Unprintable` are the numbers
that `kprintnum` cannot print: the smallest one, whose negation is itself, and
those given to `%lu` that are negative when taken for signed ones.  `Misprint` is
what it makes of them: the characters from `0` downwards in place of the digits,
and a negative number.  `%c` is left
out: `va_arg(args, char)` has no meaning in C, gcc compiles it to a trap, and
nothing uses it.

### BootEntry and boot.S

An action is a paragraph of `boot.S`; the two loops that fill the tables go entry
by entry (`PtLoop`, `PteLoop`), with the registers the code steps.  An address in
such a register is the number of an entry, frame times `E` plus index, so a
pointer runs from one table into the next as in the code.  Memory is visible
as the tables say once paging is on (`Sees`), and what runs needs its code and
stack (`Go`); without an IDT a fault is a reset.  The two arguments go through the
stack (`Start`, `Recover`) past code that uses every register; what an instruction
leaves behind that nobody reads is `Unknown`.  The descriptors of both GDTs are
the numbers of the source, and `FarJump` asks of the boot one what the processor
asks.

### KernelMain, Startup and the way to main

A step is a call, or a statement that changes where memory is seen.  `maps` are
the parts that are mapped (low memory, the image, the direct mapping), and each
step says what it uses (`Boot`, `Kernel`); rsp and rbp are the part they point into,
with the rbp of each caller that was saved (`saved`), because `boot_mm_init` moves
both registers in the middle of a function (`Remap`) while the saved ones stay:
after `Leave` the frame pointer of `startup64` points into low memory again.  A
use of what is not mapped is a page fault (`Run`), which goes through the IDT if
there is one.  `Unmap` clears `pgd[0]` and does not load cr3: low memory may stay
visible through the TLB, or not.

`Exception(v)`: an instruction may raise any of `Traps`, and an NMI may come also
when the processor has stopped.  Where it goes is worked out from the gates as
they were packed (`Through`: the gate, else that for a general protection fault
(a gate that was never set has type 0), else that for a double fault, else reset).  `Traps` has one vector with a handler of its
own, two that share one, and one with no gate at all.  The addresses of the
handlers are numbers, so that the fields of a gate mean something.

In `Startup` the port's statements (`PortInit`) run inside `boot_tty_init`, and a
step that prints has a character waiting for the port (`Put`) before it is over
(`GoOn`); an exception comes in the middle of either.

### Slips

A definition called a slip is the definition with a plausible mistake in it (a
guard dropped, a bit not cleared, a wrong neighbour).  No specification uses
one.  Each property is paired in `PROJECT.json` (`mutants`) with a slip that
breaks it, which shows that the property says something of the code.

## 3. The runs

### 3.1 What each one asks

| run | states | what it shows |
|---|---|---|
| `lists` | 96 598 | list.h keeps two lists over four nodes circular and equal to the sequences of `ListSeq`; an operation on one does not touch the other |
| `kernel` | 155 676 | boot over two runs of frames with a hole, garbage flags, three orders, then two CPUs that give back blocks of the top order: every safety property, `BlockStore` is implemented, the lock is always given back and somebody who waits is let in |
| `clients` | 1 328 170 | everything is given back, merges after boot included: what is marked as a free head is on a list, whatever the sizes |
| `objects` | 177 978 | two CPUs, four caches, callers that write to their objects; `kmalloc` returns |
| `page_table` | 119 751 | five pages that part at each level, mapped in any order and again, with enough frames and with too few for `mm_init.c`'s copy, with too few for `pgtable.c`'s: lookups agree, also half way through a call |
| `boot_memory` | 17 810 | loaders whose tags have odd sizes, with and without a memory map; memory maps with one to three areas behind the kernel, holes and reserved memory: what the linear allocator takes and what the page allocator gets |
| `boot_tables` | 864 | images in one lowest table or several, both ways of finding out how much memory there is: the image is mapped and the tables are apart |
| `screen` | 884 424 | all sequences of characters and controls, before, during and after the change of terminals, with dead ports; an exception at any statement, and an NMI in its handler |
| `startup` | 84 174 | from `_start` to the loop of `main`, three loaders, with and without a serial port and a memory map, an exception or NMI at any point |
| `print` | 47 096 | all formats of up to two pieces, arguments around the boundaries of both widths; the number conversions of the boot stage |
| `overlap`, `idle_memory` | | disagreements between the code and its comments, see 3.3 |

### 3.2 Bounds and fairness

`PageAlloc`: `MaxPageOrder` 3 is the smallest with a block that can be split twice
and merged twice, and with two different orders below the top one (where the
merge does not compare them); two runs of 5 and 3 frames give blocks of all
orders and leave rests.  Two CPUs are all that a lock can tell apart; while one
is inside, any number of others only wait.  `MaxRefCount` bounds how often a
page goes round (a page that reached it stays with its caller); two rounds are
enough to meet flags left over from an earlier life.  `clients` has two orders,
because with three, once blocks overlap or reach beyond the usable frames, the
states do not come to an end in reasonable time; a merge with a larger block, which
loses frames, happens with two, one with a smaller block needs three (`overlap`).
That `HeadsListed` holds with any number of orders is `HeadsStayListed`.  `Slub`: sizes of four and of
half an object to a page, so chains with a middle; with two pages both
exhaustion and the redo loop happen, and two caches compete for them; but one of the
two needs both pages for a slub, so they never have slubs at the same time: that
objects of different caches are apart then too rests on `SpecObjectsApart`.

`PageTable`: tables of two entries and pages that part at each level use every
branch; ten tables are what the five pages need, six are too few for them.
`BootMm`: tables of three entries, so that the image and the 10 MB fill a lowest
table and go over into the next.  `MmInit`: a page of two units (areas may end in
the middle), tables of four entries and four struct pages to a page, areas from
two to 24 pages: the linear allocator changes areas while it maps and while it
makes struct pages, and runs out in both.  `Tty`: three lines of two columns,
so that a tab wraps and rolls, the report of a handler wraps, and there is room
to look for it above the cursor; with `Byte` 4 the cursor needs both registers;
`MaxPolls` 1 and 2 in place of 12800 have a loop that ends by the port and one
that ends by the count.  `Startup`: tables of four entries and three lowest
tables, so that both loops of `boot.S` end after the first round and one entry of
the table above is left out; frames of code, stack, tables and GDT in the order of
`boot.S`; words of two bits (`W` = 4) and handlers whose addresses differ in all
parts of a gate; two rounds of the loop of `main` in place of 1145141919.  `Kprintf`: 8 and 4 bits have all the sign cases.

Deadlock is checked in every run; a program that ends has a step that changes
nothing.

Fairness.  `WF(Work(c))` for each CPU in `PageAlloc` and `Slub`: code that runs goes
on, and a CPU that spins on the lock takes it if it stays free.  It is weak: the
lock is a compare-and-swap loop without a queue, so a CPU may starve, and only
`SomebodyGetsIn` is claimed.  `WF(Boot)`: `mm_init` runs to its end.  `WF(Work)` in
`Tty`: a call that has begun goes on, that of a handler included.  `WF(Runs)` in
`Startup`: the processor goes on.  Nobody has to call anything, nothing has to
strike, no port has to become ready.

### 3.3 What the code does otherwise than it says

Two disagreements have runs.

* `overlap`: merging absorbs a neighbour of a smaller order as if it were a
  buddy (`page_alloc.c:128-146`).  4 and the pair 6-7 are allocated; the split
  for 4 leaves 5 on the list of order 0 and does not mark it as a head
  (`page_alloc.c:71`).  4 is given back and does not find 5; then 6-7, which looks
  two frames back and absorbs the single frame 4 as if it were a pair: 4..7 is one
  free block, and 5, never handed out, is still on the list of order 0.  The
  kernel at this commit calls `free_pages` only at boot, where it is safe (see
  the theorems), so this waits for the first user of `free_pages`.
* `idle_memory`: `mm_init.c:281` gives to the page allocator what lies behind the
  area the linear allocator has come to, and not what lies behind the last page
  it took.  On a machine with one area behind the kernel nothing is given at all.

The others are properties of the modules that no run asks for, because they do
not hold; TLC shows it when the property is put into the cfg named here with the
constants changed as said.

| property | cfg and changes | the code |
|---|---|---|
| `PageAlloc` `CombinedFully` | `overlap`: `MaxPageOrder = 2`, `SmallRun` for `Frames`, `SmallRunMapped` for the others | the half that a split puts back is not marked as a head (`page_alloc.c:71`) and never merged again |
| `PageAlloc` `NoLeak` | `clients` | merging absorbs a larger neighbour as if it had the order of the block in hand (`page_alloc.c:128`).  Of frames 1..4, `<3,1>`, 1 and 2 are allocated; `<3,1>` and then 2 are given back: 2 absorbs 3 as a single frame, and 4 is on no list and with no caller |
| `PageAlloc` `OnlyAvailable` | `clients`: `MaxPageOrder = 3` | the other way round: a pair behind which a single frame is free makes a block of four that ends behind the usable frames (`page_alloc.c:128`) |
| `PageAlloc` `OnlyAvailable` | `overlap`: `NarrowGap`, `NarrowGapMap`, `Returnable <- None` | a hole in the memory map narrower than the block being merged becomes part of a free block (`page_alloc.c:144`) |
| `PageAlloc` `ReadsInitialised` | `overlap`: `MaxPageOrder = 2`, `Cliff`, `CliffMapped` for `Mapped`, `UninitBits = {TRUE, FALSE}`, `Returnable <- None` | at the end of a run `__free_pages` reads a struct page nobody has initialised (`page_alloc.c:130`) |
| `Slub` `ServesEightPages` | `objects` | `slub.h:8` promises eight pages, `kmalloc` serves two |
| `PageTable` `NullNoTable` | `page_table` | the NULL of the linear allocator becomes the address of a table (`mm_init.c:130`): frame 0 is cleared and serves several levels |
| `MmInit` `NullTakesNothing` | `boot_memory`: `Maps <- JustEnough` | for the last page of memory the linear allocator gives NULL though it has taken it (`mm_init.c:69`) |
| `MmInit` `NullAtTheEnd` | `boot_memory`: `Maps <- Ragged` | with an area that ends in the middle of a page it gives up in front of the others (`mm_init.c:45`) |
| `MmInit` `WholeGiven` | `boot_memory`: `Maps <- Torn` | a frame of which a part is usable is given whole (`mm_init.c:276`) |
| `BootMm` `RestWritable` | `boot_tables` | upper entries made for the text forbid writing to the data behind it (`mm_boot.c:194`); the kernel runs because `boot.S:131-133` leaves CR0.WP clear |
| `BootMm` `ImageMapped` | `boot_tables`: `Readings <- Little` | the NULL of `boot_mm_alloc` becomes the address of a table (`mm_boot.c:161`) |
| `MmInit` `AreasFit` | `boot_memory`: `PHYS_MM_SEGS_NUM_MAX = 2` | a memory map with more usable areas than `phys_mm_area_arr` has entries is written behind it (`mm_init.c:206`) |
| `KernelMain` `ResetsOnlyFromOutside` | `startup`: `Loaders <- WithWp` | with CR0.WP set by the loader the kernel resets at its first write to the image: `boot.S:131` does not clear the bit, and the upper entries of the image are read-only (`mm_boot.c:194`) |
| `KernelMain` `LowGone` | `startup` | "unmap the old phys part": cr3 is not loaded again, so low memory may stay visible (`mm_init.c:289`) |
| `KernelMain` `IrqsOn` | `startup` | "turn on the irq for current core now" stands above `cli` (`init.c:74-75`) |
| `Startup` `SpeedSet` | `startup` | the value for the DLAB latch (`tty_boot.c:267`, `vga.h:105`) has bit 7 clear: the divisor is never set |
| `Startup` `LatchOff` | `startup` | the value that should turn the latch off (`tty_boot.c:272`) turns it on: later characters go to the divisor |
| `Startup` `SentWhenAvail` | `startup` | the bit for "Transmit buffer avail" (`vga.h:120`) is those for framing error and break |

## 4. The proofs

Each proof module has an inductive invariant (`IInv`, `FullInv` or `Sound`) with
its parts named, a lemma for each action and each part that the action can
disturb, and at the end the theorems.  All hold for every value of the
constants that the assumptions of the modules admit; where a theorem needs more,
its statement names it.

| module | theorems | hypotheses |
|---|---|---|
| `PageAllocProof` | `Typing`, `Exclusion`, `NullTruth`, `HeadsStayListed` | none |
| | `Disjointness`, `Availability`, `Conservation`, `FallingOrders`, `TrueFlags`, `Refinement` (implements `BlockStore`) | `WideGaps`, `NoGarbageNear`, `NoMergeAfterBoot` |
| `ListHeadProof` | `SpecWalksAgree`, `SpecOthersUntouched` | none |
| `SlubProof` | `Invariance`, `SpecObjectsApart`, `SpecChainSafe`, `SpecNoObjectLost` | none |
| `PageTableProof` | `SpecTablesAreTree`, `SpecLookupAgrees`, `SpecImplementsAddressSpace` | none |
| `BootMmProof` | `SpecImageMapped`, `SpecTablesApart` | `Room` |
| `MmInitProof` | `SpecChunksSound`, `SpecPrepared` | `StartsAligned` |
| | `SpecGivenUnused` | `StartsAligned`, `AreasWhole`, `Sorted` |
| | `SpecNullAtTheEnd` | `StartsAligned`, `AreasWhole`, `KernelInside` |
| | `SpecNeverStrays` | `StartsAligned`, `AreasWhole`, `Sorted`, `KernelInside`, `TagsEnd`, `TablesNear` |
| `TtyProof` | `SpecCursorShown`, `SpecPortsAgree`, `SpecImplementsScreen` | none |
| | `SpecReportShown` | `LargeEnough` (at least three lines of two columns) |
| | `SpecPrintsFormat` | none |
| `KernelMainProof` | `GateTarget`, `SpecIdentityMapped`, `SpecHandedOver`, `SpecCaughtOnceLoaded` | none |
| | `SpecResetsOnlyFromOutside` | `WpClear` |
| | `StartupIsMain`, `StartupSound`, `StartupLineSet` | none |
| | `StartupNoReset` | `WpClear` |

### PageAlloc

`WideGaps`: two runs of usable frames are not exactly a power of two, below the
top order, apart.  `NoGarbageNear`: no uninitialised struct page where the boot
loop looks.  `NoMergeAfterBoot`: callers give back at most blocks of the top
order, which are never merged; at this commit they give back nothing.  These
three are exactly what `overlap` (and `clients`, with the properties of 3.3), and
in 3.3 the second `OnlyAvailable` and `ReadsInitialised`, take away, one each.

`HeadsStayListed` needs none of them.  Its invariant, `HeadInv`, is `HeadsListed`
with the lock and the locals: only the CPU that has the lock has a block in hand,
every page of an allocated block is marked not free, and a block that is given back
has one of the orders there are lists for (`FreeOrders`), so it ends on a list.  A
node that is deleted leaves all others where they are, also on a list that holds a
page twice, as after an overlap (`DelKeeps`).

`NoOverlap` is not inductive: that a merge with the previous block is exact
depends on its order, which the code does not look at.  What saves the boot loop
is that it frees frames in increasing order: every free block of a run before
the block in hand is at least as large (`BootInv`), each run is a staircase of
falling blocks (`Staircase`), so the block that is found at distance 2^order has
exactly that order; and flags tell the truth as long as nothing has been split
(`FlagsTell`).  The invariant proved is `FullInv`: types, lock and locals
(`CallInv`), the store (`NoOverlap`, `OnlyAvailable`, `NoLeak`), what callers may
give back (`GivenBack`), and the boot part.  After boot no merge happens, so
flags no longer matter and the store part is inductive by itself.
`PowerAssumption` states the three facts about `2^k` the proofs use: tlapm has no
theory of exponents; TLC evaluates it in each run.  That boot visits the frames
in increasing order is part of the model here, and what `SpecGivenUnused` proves
of `MmInit`.

### ListHead

`WalksAgree` says that the cells of a list are linked in a ring in the order of
its sequence.  It needs that a node is at one place of one list (`Once`).  A ring
is any sequence of cells in which each names the next and the previous one, so
that the lemmas on adding and deleting are about rings turned so that the node is
at the end, and each operation is a lemma applied to a rotation of the list.

### Slub

`ChainSafe` follows pointers through memory that callers write to.  The invariant
says where they run: within the object size steps of the current slub, ascending,
to its end (`ChainInv`); blocks lie apart (`BlocksOK`); one CPU is inside a cache
(`LockInv`), and a block that it is still cutting is cut up to `cur` (`Cutting`);
objects that callers have begin at a multiple of the size in a block that is
finished and are on no chain (`GivenInv`), so writing to one changes no link.
`Kept` is `NoObjectLost` together with the object in hand.  `Chain` is a recursive
function: that it is what its definition says, and that it changes only with the
words it runs through, is proved by induction over sets of numbers in place of
predicates (`WFMin` of the library).

### PageTable

A write to a table is seen by every page whose walk comes through it.  So the
invariant has the tables as a tree at each step of a call (`Tree`: no frame below
two entries), the frame in hand on the path of the page that is being mapped
(`Path`), and, for frame 0, that only pages where it may be mapped have it
(`Guarded`).  `Agree` is `LookupAgrees` with the page in hand left out until `Set`.
While the machine runs, the refinement of `AddressSpace` is the lookup; when it has
stopped it is what had been mapped.

### BootMm

Instead of a tree, each table has a label: its level and the indexes that lead to
it.  Entries lead to tables with the label of the next level (`Labelled`), so a
write to a table can be seen only at the pages that begin with its label
(`WriteLabels`); a level of `boot_pgtable_map` is one such write, with a table from
the allocator or without (`LevelOK`, `MapOK`).  The invariant: what the allocator
handed out is the pages behind the image one after the other and never NULL
(`Handed`), some labelling of them exists (`Good`), each of the two mappings is as
far as its loop has come (`MappedIn`), and the number of tables is at most what so
many pages in a row need (`TablesFor`).  The last holds because a page takes a new
table of a level only if it is the first page of its group: the page before shares
all others with it (`VaBefore`, `TablesGrow`).

`Room`: that many pages behind the image exist, are within the 10 MB, and are
frames of the model.  A reading with less memory makes `boot_mm_alloc` give NULL, which is
`little_memory` of 3.3; the runs evaluate `Room` for the readings of `Enough`
(`RoomAssumption`), those with which `boot_tables` runs.

### MmInit

`RamOK`: what the linear allocator handed out ascends behind the image and in
front of where it stands, each a whole page of an area.  `UseOK`: until it gives
NULL no page serves twice.  `LoopInv` and `GiveInv` say for each loop what it has
passed.  That the nested loops visit the pages area by area is in `Visits`, the
flattening of their ranges; `VisitsAre` proves by induction that it contains
exactly those pairs, in order.  The hypotheses are about memory maps:
areas begin at pages (`StartsAligned`), and end there (`AreasWhole`), in order
(`Sorted`), with the kernel inside one (`KernelInside`).  `Ragged` and `Torn` of
3.3 take away `AreasWhole`, and then TLC finds the properties violated.

`NeverStrays` is a race of two counts.  A frame beyond the 10 MB of the boot stage
can be reached in the direct mapping area only once the first loop has mapped it,
and the loop writes to the tables it makes there.  `ReachInv` says that frames come
out of the linear allocator in order and none is left out (`NoneSkipped`), that
every table that exists is visible, those of the mapped part from the beginning
(`TablesSeen`), and that there are no more tables than the frames up to the largest
the loop has come to need, level by level (`Reached`).  `TablesNear` is what has to be
true of a memory map then: in front of each usable frame beyond the mapped part there
are at least as many usable frames behind the boot stage's own as there are tables
up to that frame.  With tables of 512 entries it asks for little more than one usable
frame in 512; a map of many small areas far apart would break it.  `TagsEnd`: the
list of tags has one end, and no tag is shorter than its header.  TLC evaluates all
six for the machines and the loaders of `boot_memory` (`MachinesAssumption`,
`LoadersAssumption`).

### Tty

For each property what holds in the middle of a call: `ShownInv` for the cursor
registers; `PortsInv` for the four calls that a tab makes from within; `ReportInv`
for the part of the message of a handler that is already on the screen, wherever the
call it interrupted had come to, rolling included.  The report is whole unless the
handler struck with the cursor behind the screen, after a newline in the last line
and before the cursor was brought back: then its first character is written below
the screen, the rolling that follows does not bring it up, and the rest begins a
line (`behind` is a history variable that remembers this).  It needs three lines
because the message may wrap and the last line is cleared afterwards, and two columns
because with one it would wrap twice.
`ImplementsScreen` is proved action by action with the refinement mapping of section
2: each action is one step of `Screen` or leaves the view and what is owed as they
are; `OwedIs` and `OwedNext` say what is owed at each place of the code.

### Kprintf

The theorem is about all formats of the directives, of any length, and any words.
It rests on the assumption `KprintfAssumption` about the constants, which TLC
evaluates in `print`: `Sizes` (the buffer holds the digits of a word in both
bases) and `Powers` (b^0 = 1, b^(k+1) = b b^k, 2^bits = 2 2^(bits-1) and 2^INT <=
2^(LONG-1): facts, of which the provers know none).  They hold for 64, 32 and 30.

`FormatInv` has a place for each part of the code (`Stands`): between two pieces, in
a directive, in a number, at the end; with it, how many characters have been
read, which arguments are left (as many as pieces in front have taken:
`Left`), and that what has been put out is the meaning of the pieces in front.  In a
number, `Working` says that the meaning is a prefix (the sign, or 0x) and the
numeral of a number A, that the prefix is out, that the digits in `n_str` are
the last ones of A and that what is left to divide is A without them (`DigitsOf`);
`Fits` bounds both, printable or not, so `n_str` never overflows.  At the
end the digits are the numeral (`NumeralIs`): the number of digits for which a
number lies between two powers is only one.  For each directive a lemma says what
the number kprintnum is called with has to do with the meaning (`DecimalMeans`,
`UnsignedMeans`, `HexMeans`); `Unprintable` is exactly what is needed there.

### KernelMain

`GateTarget` is about `KERNEL_INTR_GATE_INIT`: for every width of a word and every
address of four words, each part fits its field and the processor puts the parts
together to the same address (lemma `Cut`: a number is its quotient and its
remainder; `Narrower`: how large the quotient is).  `CaughtOnceLoaded` needs it of
every gate.  The invariant says for each place in the code which entries of the
tables are written and where the registers of the loops point (`BootInv`), in
which register or word of the stack the arguments are (`Carried`), which parts of
memory are mapped and where rsp, rbp and the saved rbp point (`Mapped`), and what
the IDT has (`Trapping`, `Reported`).  `WpClear` (the loader leaves CR0.WP clear) is
what `WithWp` of 3.3 takes away.

`Startup` steps as `KernelMain` does or leaves all of its state as it is: printing
takes no step of the program (`StartupIsMain`), so all that is proved of the program
holds of it with its port (`StartupSound`, `StartupNoReset`).  `PortInv` goes through
`boot_tty_serial_init` statement by statement: which registers have been written,
and that the line keeps 8 bits, no parity and one stop bit whatever becomes of the
latch, though the mask of the code is the port's address and not a bit (`LineByte`);
the latch itself stays on (`LatchOff` of 3.3).

### What is only model-checked

* Liveness everywhere: it needs fairness and ENABLED, which the prover does not
  reach.

Every safety invariant and every action property that a run checks is stated by a
theorem.

No module declares an operator RECURSIVE.  Recursive functions can be reasoned
about, with induction in the form of sets (`SlubProof`, `MmInitProof`, `TtyProof`).

## 5. What is not modelled, and the plan

The plan has been carried through.  What is open: the hypotheses of `PageAlloc`
and `MmInit` about memory maps could be made weaker, down to areas that begin or end
inside a page, where the code does what 3.3 describes; and liveness, which would
need another prover.

Not modelled, and why:

* `kprintf` with malformed formats and `%c`: no call in the kernel has one, and
  what C makes of them is undefined.
* `string.c`, `lib_boot.c`: single loops over memory that nothing interrupts and
  nothing observes half way.
* `set_trap_handler`, `KERNEL_TRAP_GATE_INIT`, `DESC_SELECTOR_INIT`,
  `boot_get_pgtable_map_pa`: nothing calls them.  `kfree`, `task_init`, `clock_init`,
  `cpu_init` and `process.c` are empty.
* the colours of the terminal: they are the same for every character.
* several processors while booting: `cpu_init` is empty, so only the allocators,
  which take locks, are modelled with more than one.
* maskable interrupts: nothing ever sets the interrupt flag.
* build files.
